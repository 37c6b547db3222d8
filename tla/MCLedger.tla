------------------------------ MODULE MCLedger ------------------------------
(***************************************************************************)
(* Small instances of Ledger: a genesis key and two parties, coins worth   *)
(* one and two.                                                            *)
(***************************************************************************)
EXTENDS Ledger

MCKeys == {"genesis", "alice", "bob"}

(* Each party's one secret key has a public key of its own.                *)
MCDerive == [sk \in MCKeys |-> <<"pk", sk>>]

Coin(tag, value, owner) == [tag |-> tag, value |-> value, owner_pk |-> <<"pk", owner>>]

MCPublicKeys == {<<"pk", sk>> : sk \in MCKeys}

(* A mint of two that splits, and change.                                  *)
MCCoins == {Coin("g", 2, "genesis"), Coin("a", 2, "alice"),
            Coin("a", 1, "alice"), Coin("b", 1, "bob")}

(* Coins of one value, for longer chains of transfers.                     *)
MCUnitCoins == {Coin("g", 1, "genesis"), Coin("a", 1, "alice"), Coin("b", 1, "bob")}

(* Two genesis coins that one transaction can spend together.              *)
MCPairCoins == {Coin("g", 1, "genesis"), Coin("h", 1, "genesis"),
                Coin("a", 1, "alice"), Coin("b", 1, "bob")}

(* Two outputs whose sum exceeds the width of a value, with modulus four.  *)
MCWideCoins == {Coin("g", 2, "genesis"), Coin("a", 3, "alice"), Coin("b", 3, "bob")}
=============================================================================
