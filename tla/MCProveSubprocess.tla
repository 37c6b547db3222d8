------------------------- MODULE MCProveSubprocess -------------------------
EXTENDS ProveSubprocess

(* Two inputs anchored at one root and one at another.                     *)
MCRootOf == [i \in Inputs |-> IF i \in {"a", "b"} THEN "r1" ELSE "r2"]
=============================================================================
