------------------------------ MODULE CoinBook ------------------------------
(***************************************************************************)
(* What the spend and receipt relations promise together: a book of coins. *)
(* A coin is spent at most once, it is spent only if the genesis key       *)
(* issues it or an earlier spend created it, and what a spend creates is   *)
(* worth no more than what it spends.                                      *)
(***************************************************************************)
EXTENDS FiniteSetsExt

CONSTANTS Coins, GenesisCoins

VARIABLES
    created,   \* coins some spend has created
    spent      \* coins that have been spent

vars == <<created, spent>>

Worth(cs) == MapThenSumSet(LAMBDA c : c.value, cs)

Init == created = {} /\ spent = {}

Spend(ins, outs) ==
    /\ ins \subseteq (GenesisCoins \union created) \ spent
    /\ Worth(outs) <= Worth(ins)
    /\ created' = created \union outs
    /\ spent' = spent \union ins

Next == \E ins, outs \in (SUBSET Coins) \ {{}} : Spend(ins, outs)

Spec == Init /\ [][Next]_vars
=============================================================================
