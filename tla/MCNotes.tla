------------------------------ MODULE MCNotes ------------------------------
(* Three parties, one of them with two coins.                              *)
EXTENDS Notes

CONSTANTS alice, bob, carol

MCCoins == {[tag |-> "a", owner_pk |-> pk_of(alice)], [tag |-> "b", owner_pk |-> pk_of(bob)],
            [tag |-> "c", owner_pk |-> pk_of(bob)], [tag |-> "d", owner_pk |-> pk_of(carol)]}
=============================================================================
