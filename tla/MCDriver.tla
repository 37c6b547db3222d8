------------------------------ MODULE MCDriver ------------------------------
(***************************************************************************)
(* main's parties and coins, scaled down: a mint of two, a payment of one  *)
(* with change, and a payment on; and transfers the relation must reject.  *)
(***************************************************************************)
EXTENDS Driver

CONSTANTS genesis, alice, bob, carol

MCWallets == <<alice, bob, carol>>

Coin(tag, value, owner) == [tag |-> tag, value |-> value, owner_pk |-> pk_of(owner)]

genesis_coin == Coin("A1", 2, genesis)
alice_coin   == Coin("A2", 2, alice)
bob_coin     == Coin("B1", 1, bob)
alice_change == Coin("B2", 1, alice)
carol_coin   == Coin("C1", 1, carol)

MCCoins == {genesis_coin, alice_coin, bob_coin, alice_change, carol_coin}

Transfer(sender, inputs, outputs) == [sender |-> sender, inputs |-> inputs, outputs |-> outputs]

Mint   == Transfer(genesis, <<genesis_coin>>, <<alice_coin>>)
Pay    == Transfer(alice, <<alice_coin>>, <<bob_coin, alice_change>>)
PayOn  == Transfer(bob, <<bob_coin>>, <<carol_coin>>)

(* A coin that is tracked already is created again.                        *)
PayAgain == Transfer(alice, <<alice_change>>, <<bob_coin>>)

(* Outputs worth more, a coin of another's, a mint from another's coin.    *)
Inflate  == Transfer(alice, <<alice_coin>>, <<bob_coin, alice_coin>>)
Steal    == Transfer(bob, <<alice_coin>>, <<bob_coin, alice_change>>)
FakeMint == Transfer(genesis, <<alice_coin>>, <<bob_coin, alice_change>>)

Transfers == {Mint, Pay, PayOn, PayAgain, Inflate, Steal, FakeMint}

MCScripts == UNION {[1 .. n -> Transfers] : n \in 1 .. 3}

(* Nullifiers in an order that is none of their arguments'.                *)
MCNumbered == <<genesis_coin, alice_coin, bob_coin, alice_change, carol_coin>>
MCKeys == <<genesis, alice, bob, carol>>

MCNullifierOf ==
    [pair \in {commitment(c) : c \in MCCoins} \X {genesis, alice, bob, carol} |->
        LET i == CHOOSE i \in 1 .. 5 : commitment(MCNumbered[i]) = pair[1]
            j == CHOOSE j \in 1 .. 4 : MCKeys[j] = pair[2]
        IN  (11 * (4 * i + j)) % 29]
=============================================================================
