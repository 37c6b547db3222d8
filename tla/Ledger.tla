------------------------------- MODULE Ledger -------------------------------
(***************************************************************************)
(* The protocol of lib/src/lib.rs as its parties run it: hosts prove       *)
(* spends against the prefix of the board they have processed, the entries *)
(* land on the board in any order, and every wallet scans every slot and   *)
(* builds a receipt for each coin it finds (script/src/bin/main.rs).       *)
(*                                                                         *)
(* Hashes are free constructors, so a commitment stands for its coin and a *)
(* nullifier for its commitment and key.  A nullifier root is the set it   *)
(* accumulates (NullifierTree implements that set), a board root the       *)
(* prefix it commits to (BoardTree), and a proof is the fact that the      *)
(* relation it proves was evaluated and held.                              *)
(***************************************************************************)
EXTENDS Integers, Sequences, FiniteSetsExt

CONSTANTS
    SecretKeys, PublicKeys,
    derive_pk,       \* X25519 base-point multiplication, clamp included
    GENESIS_SK,
    Coins,           \* the coins parties may make: their tag, value, owner
    ValueModulus,    \* 2^64: a coin's value is a u64
    MaxInputs, MaxOutputs,     \* bounds on a transaction
    MaxSlots, MaxPending       \* bounds on the board and on proofs in flight

ASSUME KeysAssumption == /\ derive_pk \in [SecretKeys -> PublicKeys]
                         /\ GENESIS_SK \in SecretKeys
                         /\ IsFiniteSet(SecretKeys)     \* a key is a [u8; 32]

ASSUME CoinsAssumption ==
    /\ ValueModulus \in Nat \ {0}
    /\ \A c \in Coins : /\ c.value \in 0 .. ValueModulus - 1
                        /\ c.owner_pk \in PublicKeys

ASSUME BoundsAssumption ==
    /\ MaxInputs \in Nat \ {0} /\ MaxOutputs \in Nat \ {0}
    /\ MaxSlots \in Nat /\ MaxPending \in Nat

VARIABLES
    board,      \* the entries posted so far
    pending,    \* entries proved and not yet posted
    wallets,    \* per host, the receipts it holds
    scanned,    \* per host, how many slots it has processed
    panicked    \* per host, whether bootstrap failed and ended it

vars == <<board, pending, wallets, scanned, panicked>>

genesis_pk == derive_pk[GENESIS_SK]

commitment(coin) == <<"cn", coin>>
CoinOf(cn) == cn[2]

nullifier(cn, sk) == <<"nf", cn, sk>>

commitments(cs) == [i \in DOMAIN cs |-> commitment(cs[i])]

(* The sum of a list of values, over the integers.                         *)
IntegerTotal(vs) == MapThenSumSet(LAMBDA i : vs[i], DOMAIN vs)

values(cs) == [i \in DOMAIN cs |-> cs[i].value]

(* Iterator::sum over u64, which wraps in a release build.                 *)
total(cs) == IntegerTotal(values(cs)) % ValueModulus

CoinLists(n) == UNION {[1 .. m -> Coins] : m \in 1 .. n}

Commitments == {commitment(c) : c \in Coins}

(* A transaction with its notes: each output is readable by its owner.     *)
(* anchor is the length of the prefix whose roots the proof committed to.  *)
Transactions ==
    [input_commitments : UNION {[1 .. m -> Commitments] : m \in 1 .. MaxInputs},
     outputs : CoinLists(MaxOutputs),
     input_nullifier : {nullifier(cn, sk) : cn \in Commitments, sk \in SecretKeys},
     anchor : 0 .. MaxSlots]

Receipts == [owner_pk : PublicKeys, coin_commitment : Commitments, received_at : 0 .. MaxSlots]

output_commitments(tx) == {commitment(tx.outputs[i]) : i \in DOMAIN tx.outputs}

OwnOutputs(sk, tx) == {cn \in output_commitments(tx) : CoinOf(cn).owner_pk = derive_pk[sk]}

(* What NullifierTree::replay over the first n entries accumulates.        *)
NullifiersBefore(n) == {board[i].input_nullifier : i \in 1 .. n}

make_tx(sk, input_coins, output_coins, n) ==
    [input_commitments |-> commitments(input_coins),
     outputs |-> output_coins,
     input_nullifier |-> nullifier(commitment(input_coins[1]), sk),
     anchor |-> n]

-----------------------------------------------------------------------------
(* Mutant: the owner of the input coins is not compared with the spender.  *)
OwnerUnchecked(pk, cs) == TRUE

OwnedBy(pk, cs) == \A i \in DOMAIN cs : cs[i].owner_pk = pk

(* Mutant: outputs may be worth more than inputs.                          *)
ConservesAtLeast(ins, outs) == total(ins) <= total(outs)

Conserves(ins, outs) == total(ins) = total(outs)

(* Mutant: the genesis flag is believed without the genesis key.           *)
ProvenanceByFlag(pk, cn, is_genesis, receipts) ==
    is_genesis \/ \E cp \in receipts : cp.owner_pk = pk /\ cp.coin_commitment = cn

HasProvenance(pk, cn, is_genesis, receipts) ==
    IF is_genesis THEN pk = genesis_pk
    ELSE \E cp \in receipts : cp.owner_pk = pk /\ cp.coin_commitment = cn

(* Mutant: the spender's own nullifier is not looked up.                   *)
SpendWithoutGuard(sk_p, cn, tx, input_coins, is_genesis, receipts, nullifiers) ==
    /\ tx.input_nullifier = nullifier(cn, sk_p)
    /\ tx.input_commitments = commitments(input_coins)
    /\ OwnedBy(derive_pk[sk_p], input_coins)
    /\ \E i \in DOMAIN tx.input_commitments : tx.input_commitments[i] = cn
    /\ Conserves(input_coins, tx.outputs)
    /\ HasProvenance(derive_pk[sk_p], cn, is_genesis, receipts)

(* The Valid relation, for a spender whose accumulator holds nullifiers.   *)
check_spend(sk_p, cn, tx, input_coins, is_genesis, receipts, nullifiers) ==
    /\ tx.input_nullifier = nullifier(cn, sk_p)
    /\ tx.input_nullifier \notin nullifiers
    /\ tx.input_commitments = commitments(input_coins)
    /\ OwnedBy(derive_pk[sk_p], input_coins)
    /\ \E i \in DOMAIN tx.input_commitments : tx.input_commitments[i] = cn
    /\ Conserves(input_coins, tx.outputs)
    /\ HasProvenance(derive_pk[sk_p], cn, is_genesis, receipts)

(* Mutant: a double-spending parent is computed but not enforced.          *)
ReceiptWithoutParentCheck(owner_sk, cn, entry_k, nullifiers) ==
    /\ \E i \in DOMAIN entry_k.outputs : entry_k.outputs[i].owner_pk = derive_pk[owner_sk]
    /\ cn \in output_commitments(entry_k)

(* The receipt relation, for entry_k in slot received_slot; its parent's   *)
(* nullifier must be absent from what came before that slot.               *)
check_coin_receipt(owner_sk, cn, entry_k, nullifiers) ==
    /\ entry_k.input_nullifier \notin nullifiers
    /\ \E i \in DOMAIN entry_k.outputs : entry_k.outputs[i].owner_pk = derive_pk[owner_sk]
    /\ cn \in output_commitments(entry_k)

tracked(sk) == {r.coin_commitment : r \in wallets[sk]}

(* Every receipt proof a host has made: it is data, and any spender may    *)
(* present it.                                                             *)
ReceiptProofs == UNION {wallets[sk] : sk \in SecretKeys}

-----------------------------------------------------------------------------
Init == /\ board = <<>>
        /\ pending = {}
        /\ wallets = [sk \in SecretKeys |-> {}]
        /\ scanned = [sk \in SecretKeys |-> 0]
        /\ panicked = [sk \in SecretKeys |-> FALSE]

(* A host proves a spend against the slots it has processed.  The claimed  *)
(* coin is the first input, as in main.  (main's own check that the proof  *)
(* committed the board's root holds: its board does not move meanwhile.)   *)
ProveSpend(sk) ==
    /\ ~panicked[sk]
    /\ Cardinality(pending) < MaxPending
    /\ \E input_coins \in CoinLists(MaxInputs), output_coins \in CoinLists(MaxOutputs),
          is_genesis \in BOOLEAN :
         LET tx == make_tx(sk, input_coins, output_coins, scanned[sk])
         IN  /\ check_spend(sk, commitment(input_coins[1]), tx, input_coins, is_genesis,
                            ReceiptProofs, NullifiersBefore(scanned[sk]))
             /\ pending' = pending \union {tx}
    /\ UNCHANGED <<board, wallets, scanned, panicked>>

(* entries.push(encrypt_tx(..)): the board takes every entry, in the order *)
(* they come.                                                              *)
Post(tx) ==
    /\ Len(board) < MaxSlots
    /\ board' = Append(board, tx)
    /\ pending' = pending \ {tx}
    /\ UNCHANGED <<wallets, scanned, panicked>>

(* The own notes of a slot that the wallet does not track yet.             *)
Found(sk, slot) == OwnOutputs(sk, board[slot + 1]) \ tracked(sk)

(* bootstrap for each of them: n is how many slots the nullifier tree has  *)
(* taken in.  A receipt that does not hold ends the host.                  *)
Bootstrap(sk, slot, n) ==
    LET found == Found(sk, slot)
    IN  IF \A cn \in found : check_coin_receipt(sk, cn, board[slot + 1], NullifiersBefore(n))
        THEN /\ wallets' = [wallets EXCEPT ![sk] = @ \union
                  {[owner_pk |-> derive_pk[sk], coin_commitment |-> cn, received_at |-> slot] :
                     cn \in found}]
             /\ scanned' = [scanned EXCEPT ![sk] = slot + 1]
             /\ UNCHANGED panicked
        ELSE /\ panicked' = [panicked EXCEPT ![sk] = TRUE]
             /\ UNCHANGED <<wallets, scanned>>

(* Mutant: the slot's nullifier is inserted before the wallet is called.   *)
ProcessSlotAfterInsert(sk) ==
    /\ ~panicked[sk]
    /\ scanned[sk] < Len(board)
    /\ Bootstrap(sk, scanned[sk], scanned[sk] + 1)
    /\ UNCHANGED <<board, pending>>

(* Mutant: the newest slot is left for later.                              *)
ProcessAllButLast(sk) ==
    /\ ~panicked[sk]
    /\ scanned[sk] + 1 < Len(board)
    /\ Bootstrap(sk, scanned[sk], scanned[sk])
    /\ UNCHANGED <<board, pending>>

(* Mutant: a wallet that found nothing new counts two slots.               *)
ProcessSlotTwice(sk) ==
    /\ ~panicked[sk]
    /\ scanned[sk] < Len(board)
    /\ IF Found(sk, scanned[sk]) # {} THEN Bootstrap(sk, scanned[sk], scanned[sk])
       ELSE /\ scanned' = [scanned EXCEPT ![sk] = @ + 2]
            /\ UNCHANGED <<wallets, panicked>>
    /\ UNCHANGED <<board, pending>>

(* process_slot for the next slot, with the tree as it was before it; the  *)
(* slot's own nullifier counts as inserted once it is processed.           *)
ProcessSlot(sk) ==
    /\ ~panicked[sk]
    /\ scanned[sk] < Len(board)
    /\ Bootstrap(sk, scanned[sk], scanned[sk])
    /\ UNCHANGED <<board, pending>>

Next == \/ \E sk \in SecretKeys : ProveSpend(sk) \/ ProcessSlot(sk)
        \/ \E tx \in pending : Post(tx)

Spec == Init /\ [][Next]_vars

(* main calls process_slot for every wallet after every push.              *)
FairSpec == Spec /\ \A sk \in SecretKeys : WF_vars(ProcessSlot(sk))

-----------------------------------------------------------------------------
(* Type invariant.                                                         *)
TypeOK ==
    /\ board \in Seq(Transactions) /\ Len(board) <= MaxSlots
    /\ pending \subseteq Transactions
    /\ wallets \in [SecretKeys -> SUBSET Receipts]
    /\ scanned \in [SecretKeys -> 0 .. Len(board)]
    /\ panicked \in [SecretKeys -> BOOLEAN]

(* An entry takes effect if its nullifier was not on the board before it.  *)
Effective(k) == board[k].input_nullifier \notin NullifiersBefore(k - 1)
EffectiveSlots == {k \in 1 .. Len(board) : Effective(k)}

Inputs(k) == {board[k].input_commitments[i] : i \in DOMAIN board[k].input_commitments}
Outputs(k) == output_commitments(board[k])

(* However proofs from stale views race to the board, at most one entry    *)
(* that takes effect spends a given coin ("P must not have spent this coin *)
(* before").                                                               *)
CoinSpentOnce ==
    \A j, k \in EffectiveSlots : j # k => Inputs(j) \intersect Inputs(k) = {}

(* Chain of custody: what an entry spends was issued by the genesis key or *)
(* created by an earlier entry that took effect, never by a double spend.  *)
ChainOfCustody ==
    \A k \in 1 .. Len(board) : \A cn \in Inputs(k) :
        \/ CoinOf(cn).owner_pk = genesis_pk
        \/ \E j \in EffectiveSlots : j < k /\ cn \in Outputs(j)

(* A live host tracks exactly the coins its key owns among those created   *)
(* by entries that took effect in the slots it has processed.              *)
CreatedFor(sk, n) ==
    UNION {OwnOutputs(sk, board[k]) : k \in {j \in EffectiveSlots : j <= n}}

WalletExact ==
    \A sk \in SecretKeys :
        /\ tracked(sk) = CreatedFor(sk, scanned[sk])
        /\ \A r \in wallets[sk] :
              /\ r.received_at < scanned[sk]
              /\ r.owner_pk = derive_pk[sk]
              /\ r.received_at + 1 \in EffectiveSlots
              /\ r.coin_commitment \in Outputs(r.received_at + 1)

(* A host ends only over a slot whose entry is a double spend.             *)
PanicOnlyOnDoubleSpend ==
    \A sk \in SecretKeys : panicked[sk] =>
        scanned[sk] < Len(board) /\ ~Effective(scanned[sk] + 1)

(* No spend was proved whose coin the prover's own processed slots already *)
(* showed spent: a double spend on the board is always a race with a slot  *)
(* after the proof's anchor.                                               *)
DoubleSpendIsARace ==
    \A k \in 1 .. Len(board) : \A j \in 1 .. k - 1 :
        board[j].input_nullifier = board[k].input_nullifier => j > board[k].anchor

(* What all wallets together could still spend never exceeds what the      *)
(* genesis key issued in entries that took effect.                         *)
Spendable(sk) ==
    {cn \in tracked(sk) : nullifier(cn, sk) \notin NullifiersBefore(Len(board))}

CoinsWorth(cns) == MapThenSumSet(LAMBDA cn : CoinOf(cn).value, cns)

SpendableWorth == MapThenSumSet(LAMBDA sk : CoinsWorth(Spendable(sk)), SecretKeys)

GenesisInputs(k) == {cn \in Inputs(k) : CoinOf(cn).owner_pk = genesis_pk}

Issued == MapThenSumSet(LAMBDA k : CoinsWorth(GenesisInputs(k)), EffectiveSlots)

NoInflation == SpendableWorth <= Issued

(* The inputs of a transaction are worth what its outputs are.             *)
Balanced(tx) ==
    IntegerTotal([i \in DOMAIN tx.input_commitments |->
                     CoinOf(tx.input_commitments[i]).value])
  = IntegerTotal(values(tx.outputs))

(* Value conservation of every entry, over the integers: "no minting, no   *)
(* burning".                                                               *)
TransactionBalanced == \A k \in 1 .. Len(board) : Balanced(board[k])

OwnCommitments(sk) == {cn \in Commitments : CoinOf(cn).owner_pk = derive_pk[sk]}

(* Every coin an effective entry creates for a key is in the end tracked   *)
(* by that key's host, unless a double spend addressed to it ended it.     *)
CoinsReachWallets ==
    \A sk \in SecretKeys : \A cn \in OwnCommitments(sk) :
        cn \in CreatedFor(sk, Len(board)) ~> (cn \in tracked(sk) \/ panicked[sk])

(* Entries that take effect are the steps of the coin book, entries that   *)
(* do not are no steps at all.                                             *)
Book == INSTANCE CoinBook
            WITH GenesisCoins <- {c \in Coins : c.owner_pk = genesis_pk},
                 created <- {CoinOf(cn) : cn \in UNION {Outputs(k) : k \in EffectiveSlots}},
                 spent <- {CoinOf(cn) : cn \in UNION {Inputs(k) : k \in EffectiveSlots}}

ImplementsCoinBook == Book!Spec
=============================================================================
