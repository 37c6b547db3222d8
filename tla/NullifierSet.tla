---------------------------- MODULE NullifierSet ----------------------------
(***************************************************************************)
(* What the nullifier accumulator promises: it is a set.  A witness proves *)
(* its target absent from the set as it stands, and so it is good exactly  *)
(* while the set is the one it was made for and does not hold the target.  *)
(***************************************************************************)
EXTENDS Naturals

CONSTANT Nullifiers

VARIABLES
    members,   \* the nullifiers inserted so far
    verdict    \* the last witness asked for: its target, and whether the
               \* current root accepts it

vars == <<members, verdict>>

NoVerdict == [target |-> 0, accepted |-> FALSE]

Init == /\ members = {}
        /\ verdict = NoVerdict

Insert(n) ==
    /\ members' = members \union {n}
    /\ verdict' = [verdict EXCEPT !.accepted = @ /\ n \in members]

ProveNonMembership(n) ==
    /\ verdict' = [target |-> n, accepted |-> n \notin members]
    /\ UNCHANGED members

Next == \E n \in Nullifiers : Insert(n) \/ ProveNonMembership(n)

Spec == Init /\ [][Next]_vars
=============================================================================
