---------------------------- MODULE LedgerProofs ----------------------------
(***************************************************************************)
(* Theorems about Ledger for every value of its constants.                 *)
(***************************************************************************)
EXTENDS Ledger, SumProofs

-----------------------------------------------------------------------------
(* What make_tx builds from coins is a transaction.                        *)
LEMMA MakeTxType ==
    ASSUME NEW sk \in SecretKeys,
           NEW ins \in CoinLists(MaxInputs), NEW outs \in CoinLists(MaxOutputs),
           NEW n \in 0 .. MaxSlots
    PROVE  /\ make_tx(sk, ins, outs, n) \in Transactions
           /\ DOMAIN ins = DOMAIN make_tx(sk, ins, outs, n).input_commitments
           /\ 1 \in DOMAIN ins
           /\ \A i \in DOMAIN ins : ins[i] \in Coins
<1>1. PICK m \in 1 .. MaxInputs : ins \in [1 .. m -> Coins]
  BY DEF CoinLists
<1>2. 1 \in DOMAIN ins /\ \A i \in DOMAIN ins : ins[i] \in Coins
  BY <1>1, BoundsAssumption
<1>3. commitments(ins) \in [1 .. m -> Commitments]
  BY <1>1 DEF commitments, Commitments
<1>4. commitments(ins) \in UNION {[1 .. k -> Commitments] : k \in 1 .. MaxInputs}
  BY <1>1, <1>3
<1>5. nullifier(commitment(ins[1]), sk) \in
        {nullifier(cn, k) : cn \in Commitments, k \in SecretKeys}
  BY <1>2 DEF Commitments
<1> QED
  BY <1>1, <1>2, <1>4, <1>5 DEF make_tx, Transactions, commitments

(* The type invariant is inductive.                                        *)
LEMMA TypeStep == TypeOK /\ [Next]_vars => TypeOK'
<1> SUFFICES ASSUME TypeOK, [Next]_vars PROVE TypeOK'
  OBVIOUS
<1> USE BoundsAssumption, KeysAssumption
<1>1. ASSUME NEW sk \in SecretKeys, ProveSpend(sk) PROVE TypeOK'
  <2>1. scanned[sk] \in 0 .. MaxSlots
    BY DEF TypeOK
  <2>2. PICK ins \in CoinLists(MaxInputs), outs \in CoinLists(MaxOutputs) :
          pending' = pending \union {make_tx(sk, ins, outs, scanned[sk])}
    BY <1>1 DEF ProveSpend
  <2>3. make_tx(sk, ins, outs, scanned[sk]) \in Transactions
    BY <2>1, MakeTxType
  <2> QED
    BY <1>1, <2>2, <2>3 DEF ProveSpend, TypeOK
<1>2. ASSUME NEW sk \in SecretKeys, ProcessSlot(sk) PROVE TypeOK'
  <2> DEFINE slot == scanned[sk]
  <2>1. /\ slot \in 0 .. MaxSlots
        /\ slot + 1 \in 1 .. Len(board) /\ slot + 1 \in 0 .. Len(board)
    BY <1>2 DEF ProcessSlot, TypeOK
  <2>2. board[slot + 1] \in Transactions
    BY <2>1 DEF TypeOK
  <2>3. \A cn \in Found(sk, slot) : cn \in Commitments
    <3>1. PICK m \in 1 .. MaxOutputs : board[slot + 1].outputs \in [1 .. m -> Coins]
      BY <2>2 DEF Transactions, CoinLists
    <3> QED
      BY <3>1 DEF Found, OwnOutputs, output_commitments, Commitments
  <2>4. {[owner_pk |-> derive_pk[sk], coin_commitment |-> cn, received_at |-> slot] :
            cn \in Found(sk, slot)} \subseteq Receipts
    BY <2>1, <2>3 DEF Receipts
  <2>5. wallets' \in [SecretKeys -> SUBSET Receipts]
    BY <1>2, <2>4 DEF ProcessSlot, Bootstrap, TypeOK
  <2>6. scanned' \in [SecretKeys -> 0 .. Len(board)] /\ panicked' \in [SecretKeys -> BOOLEAN]
    BY <1>2, <2>1 DEF ProcessSlot, Bootstrap, TypeOK
  <2> QED
    BY <1>2, <2>5, <2>6 DEF ProcessSlot, TypeOK
<1>3. ASSUME NEW tx \in pending, Post(tx) PROVE TypeOK'
  <2>1. tx \in Transactions
    BY DEF TypeOK
  <2>2. board' \in Seq(Transactions) /\ Len(board') = Len(board) + 1 /\ Len(board') <= MaxSlots
    BY <1>3, <2>1 DEF Post, TypeOK
  <2>3. scanned' \in [SecretKeys -> 0 .. Len(board')]
    BY <1>3, <2>2 DEF Post, TypeOK
  <2> QED
    BY <1>3, <2>2, <2>3 DEF Post, TypeOK
<1>4. ASSUME UNCHANGED vars PROVE TypeOK'
  BY <1>4 DEF vars, TypeOK
<1> QED
  BY <1>1, <1>2, <1>3, <1>4 DEF Next

(* TypeOK: whatever the keys, coins and bounds, every state of the ledger  *)
(* is well typed.                                                          *)
THEOREM TypeCorrect == Spec => []TypeOK
<1>1. Init => TypeOK
  BY BoundsAssumption DEF Init, TypeOK
<1>2. TypeOK /\ [Next]_vars => TypeOK'
  BY TypeStep
<1> QED
  BY <1>1, <1>2, PTL DEF Spec

-----------------------------------------------------------------------------
(* Coins are spent once.  A nullifier is made from the coin and the key of *)
(* its owner, so with one key per owner two entries that spend one coin    *)
(* carry one nullifier, and the later of them takes no effect.             *)

KeysInjective == \A a, b \in SecretKeys : derive_pk[a] = derive_pk[b] => a = b

(* The nullifier of an entry is made by an owner of its primary input.     *)
NullifiedByOwner(tx) ==
    \E sk \in SecretKeys :
        /\ tx.input_nullifier = nullifier(tx.input_commitments[1], sk)
        /\ CoinOf(tx.input_commitments[1]).owner_pk = derive_pk[sk]

NullifierInv ==
    /\ \A tx \in pending : NullifiedByOwner(tx)
    /\ \A k \in 1 .. Len(board) : NullifiedByOwner(board[k])

(* NullifierInv is inductive: make_tx derives every nullifier from coin    *)
(* and key.                                                                *)
LEMMA NullifierStep == TypeOK /\ NullifierInv /\ [Next]_vars => NullifierInv'
<1> SUFFICES ASSUME TypeOK, NullifierInv, [Next]_vars PROVE NullifierInv'
  OBVIOUS
<1>1. ASSUME NEW sk \in SecretKeys, ProveSpend(sk) PROVE NullifierInv'
  <2>1. scanned[sk] \in 0 .. MaxSlots
    BY BoundsAssumption DEF TypeOK
  <2>2. PICK ins \in CoinLists(MaxInputs), outs \in CoinLists(MaxOutputs) :
          /\ OwnedBy(derive_pk[sk], ins)
          /\ pending' = pending \union {make_tx(sk, ins, outs, scanned[sk])}
    BY <1>1 DEF ProveSpend, check_spend
  <2> DEFINE tx == make_tx(sk, ins, outs, scanned[sk])
  <2>3. 1 \in DOMAIN ins /\ ins[1].owner_pk = derive_pk[sk]
    BY <2>1, <2>2, MakeTxType DEF OwnedBy
  <2>4. tx.input_commitments[1] = commitment(ins[1])
    BY <2>3 DEF make_tx, commitments
  <2>5. NullifiedByOwner(tx)
    BY <2>3, <2>4 DEF NullifiedByOwner, make_tx, commitment, CoinOf
  <2> QED
    BY <1>1, <2>2, <2>5 DEF ProveSpend, NullifierInv
<1>2. ASSUME NEW sk \in SecretKeys, ProcessSlot(sk) PROVE NullifierInv'
  BY <1>2 DEF ProcessSlot, NullifierInv
<1>3. ASSUME NEW tx \in pending, Post(tx) PROVE NullifierInv'
  <2>1. \A k \in 1 .. Len(board') : board'[k] = IF k <= Len(board) THEN board[k] ELSE tx
    BY <1>3 DEF Post, TypeOK
  <2> QED
    BY <1>3, <2>1 DEF Post, NullifierInv, TypeOK
<1>4. ASSUME UNCHANGED vars PROVE NullifierInv'
  BY <1>4 DEF vars, NullifierInv
<1> QED
  BY <1>1, <1>2, <1>3, <1>4 DEF Next

(* Entries that spend one coin carry one nullifier, and the later takes no *)
(* effect.                                                                 *)
LEMMA NullifierImpliesOnce ==
    ASSUME MaxInputs = 1, KeysInjective, TypeOK, NullifierInv
    PROVE  CoinSpentOnce
<1> SUFFICES ASSUME NEW j \in EffectiveSlots, NEW k \in EffectiveSlots, j < k,
                    NEW cn \in Inputs(j), cn \in Inputs(k)
             PROVE  FALSE
  <2>1. \A j, k \in EffectiveSlots : j \in Int /\ k \in Int
    BY DEF EffectiveSlots
  <2> QED
    BY <2>1 DEF CoinSpentOnce
<1>1. /\ j \in 1 .. Len(board) /\ k \in 1 .. Len(board)
      /\ board[j] \in Transactions /\ board[k] \in Transactions
  BY DEF EffectiveSlots, TypeOK
<1>2. \A tx \in Transactions : DOMAIN tx.input_commitments = {1}
  BY DEF Transactions
<1>3. board[j].input_commitments[1] = cn /\ board[k].input_commitments[1] = cn
  BY <1>1, <1>2 DEF Inputs
<1>4. board[j].input_nullifier = board[k].input_nullifier
  <2>1. PICK a \in SecretKeys : /\ board[j].input_nullifier = nullifier(cn, a)
                                /\ CoinOf(cn).owner_pk = derive_pk[a]
    BY <1>1, <1>3 DEF NullifierInv, NullifiedByOwner
  <2>2. PICK b \in SecretKeys : /\ board[k].input_nullifier = nullifier(cn, b)
                                /\ CoinOf(cn).owner_pk = derive_pk[b]
    BY <1>1, <1>3 DEF NullifierInv, NullifiedByOwner
  <2> QED
    BY <2>1, <2>2 DEF KeysInjective
<1>5. j \in 1 .. k - 1
  BY <1>1
<1>6. board[k].input_nullifier \notin NullifiersBefore(k - 1)
  BY DEF EffectiveSlots, Effective
<1> QED
  BY <1>4, <1>5, <1>6 DEF NullifiersBefore

(* CoinSpentOnce: with single-input transactions and one secret key per    *)
(* public key, no coin is spent by two entries that take effect, whatever  *)
(* the number of hosts, the races between their proofs and the length of   *)
(* the board.                                                              *)
THEOREM SpentOnce ==
    ASSUME MaxInputs = 1, KeysInjective
    PROVE  Spec => []CoinSpentOnce
<1>1. Init => TypeOK /\ NullifierInv
  BY BoundsAssumption DEF Init, TypeOK, NullifierInv
<1>2. TypeOK /\ NullifierInv /\ [Next]_vars => TypeOK' /\ NullifierInv'
  BY TypeStep, NullifierStep
<1>3. TypeOK /\ NullifierInv => CoinSpentOnce
  BY NullifierImpliesOnce
<1> QED
  BY <1>1, <1>2, <1>3, PTL DEF Spec

-----------------------------------------------------------------------------
(* What a slot means does not change when the board grows: its outputs,    *)
(* whether it takes effect, and what it and the slots before it created.   *)
LEMMA GrowthKeepsSlots ==
    ASSUME TypeOK, NEW tx \in pending, Post(tx)
    PROVE  /\ Len(board') = Len(board) + 1
           /\ board'[Len(board')] = tx
           /\ \A k \in 1 .. Len(board) : board'[k] = board[k]
           /\ \A n \in 0 .. Len(board) : NullifiersBefore(n)' = NullifiersBefore(n)
           /\ \A k \in 1 .. Len(board) : /\ Outputs(k)' = Outputs(k)
                                         /\ k \in EffectiveSlots' <=> k \in EffectiveSlots
           /\ \A sk \in SecretKeys : \A n \in 0 .. Len(board) :
                 CreatedFor(sk, n)' = CreatedFor(sk, n)
<1>1. Len(board) \in Nat /\ Len(board') = Len(board) + 1 /\ board'[Len(board')] = tx
  BY DEF Post, TypeOK
<1>2. \A k \in 1 .. Len(board) : board'[k] = board[k]
  BY DEF Post, TypeOK
<1>3. \A n \in 0 .. Len(board) : NullifiersBefore(n)' = NullifiersBefore(n)
  BY <1>1, <1>2 DEF NullifiersBefore
<1>4. \A k \in 1 .. Len(board) : Outputs(k)' = Outputs(k)
  BY <1>2 DEF Outputs
<1>5. \A k \in 1 .. Len(board) : k \in EffectiveSlots' <=> k \in EffectiveSlots
  <2> SUFFICES ASSUME NEW k \in 1 .. Len(board) PROVE Effective(k)' <=> Effective(k)
    BY <1>1 DEF EffectiveSlots
  <2>1. k - 1 \in 0 .. Len(board)
    BY <1>1
  <2> QED
    BY <2>1, <1>2, <1>3 DEF Effective
<1>6. ASSUME NEW sk \in SecretKeys, NEW n \in 0 .. Len(board)
      PROVE  CreatedFor(sk, n)' = CreatedFor(sk, n)
  <2>1. {j \in EffectiveSlots' : j <= n} = {j \in EffectiveSlots : j <= n}
    BY <1>1, <1>5 DEF EffectiveSlots
  <2>2. \A k \in {j \in EffectiveSlots : j <= n} : OwnOutputs(sk, board'[k]) = OwnOutputs(sk, board[k])
    BY <1>1, <1>2 DEF EffectiveSlots
  <2> QED
    BY <2>1, <2>2 DEF CreatedFor
<1> QED
  BY <1>1, <1>2, <1>3, <1>4, <1>5, <1>6

(* Where the coin an entry spends came from: genesis, or one of the first  *)
(* n slots, by an entry that took effect.                                  *)
CustodyWithin(tx, n) ==
    \/ CoinOf(tx.input_commitments[1]).owner_pk = genesis_pk
    \/ \E j \in EffectiveSlots : j <= n /\ tx.input_commitments[1] \in Outputs(j)

CustodyInv ==
    /\ \A tx \in pending : CustodyWithin(tx, Len(board))
    /\ \A k \in 1 .. Len(board) : CustodyWithin(board[k], k - 1)

(* A proof in flight saw no earlier spend under its nullifier in the slots *)
(* it was anchored at, and neither did the proof of any entry.             *)
AnchoredFresh(tx, n) ==
    tx.anchor \in 0 .. n /\ tx.input_nullifier \notin NullifiersBefore(tx.anchor)

AnchorInv ==
    /\ \A tx \in pending : AnchoredFresh(tx, Len(board))
    /\ \A k \in 1 .. Len(board) : AnchoredFresh(board[k], k - 1)

WalletInv == WalletExact /\ PanicOnlyOnDoubleSpend

(* The wallets' invariant is about the board, the wallets and their        *)
(* progress; a step that leaves these alone keeps it.                      *)
LEMMA WalletStutter ==
    ASSUME WalletInv, UNCHANGED <<board, wallets, scanned, panicked>>
    PROVE  WalletInv'
<1>1. \A k : Outputs(k)' = Outputs(k) /\ (Effective(k)' <=> Effective(k))
  BY DEF Outputs, Effective, NullifiersBefore
<1>2. EffectiveSlots' = EffectiveSlots
  BY <1>1 DEF EffectiveSlots
<1>3. \A sk : CreatedFor(sk, scanned[sk])' = CreatedFor(sk, scanned[sk])
  BY <1>2 DEF CreatedFor
<1>4. \A sk : Effective(scanned[sk] + 1)' <=> Effective(scanned[sk] + 1)
  BY DEF Effective, NullifiersBefore
<1>5. WalletExact'
  <2>1. \A sk : tracked(sk)' = tracked(sk)
    BY DEF tracked
  <2>2. \A r : Outputs(r.received_at + 1)' = Outputs(r.received_at + 1)
    BY DEF Outputs
  <2> QED
    BY <1>2, <1>3, <2>1, <2>2 DEF WalletInv, WalletExact
<1>6. PanicOnlyOnDoubleSpend'
  BY <1>4 DEF WalletInv, PanicOnlyOnDoubleSpend
<1> QED
  BY <1>5, <1>6 DEF WalletInv

(* WalletInv is inductive: bootstrap's receipts decide exactly whether the *)
(* scanned entry takes effect.                                             *)
LEMMA WalletStep == TypeOK /\ WalletInv /\ [Next]_vars => WalletInv'
<1> SUFFICES ASSUME TypeOK, WalletInv, [Next]_vars PROVE WalletInv'
  OBVIOUS
<1> USE KeysAssumption, BoundsAssumption
<1>1. ASSUME NEW sk \in SecretKeys, ProveSpend(sk) PROVE WalletInv'
  BY <1>1, WalletStutter DEF ProveSpend
<1>2. ASSUME NEW sk \in SecretKeys, ProcessSlot(sk) PROVE WalletInv'
  <2> DEFINE n == scanned[sk]
             found == Found(sk, n)
  <2>1. n \in 0 .. Len(board) /\ n < Len(board) /\ Len(board) \in Nat
    BY <1>2 DEF ProcessSlot, TypeOK
  <2>2. /\ board' = board /\ EffectiveSlots' = EffectiveSlots
        /\ \A k : Outputs(k)' = Outputs(k) /\ (Effective(k)' <=> Effective(k))
        /\ \A other, m : CreatedFor(other, m)' = CreatedFor(other, m)
    BY <1>2 DEF ProcessSlot, EffectiveSlots, Effective, NullifiersBefore, Outputs, CreatedFor
  <2>3. n + 1 \in EffectiveSlots <=> Effective(n + 1)
    BY <2>1 DEF EffectiveSlots
  <2>4. Effective(n + 1) <=> board[n + 1].input_nullifier \notin NullifiersBefore(n)
    BY <2>1 DEF Effective
  <2>5. \A cn \in found : \E i \in DOMAIN board[n + 1].outputs :
                             board[n + 1].outputs[i].owner_pk = derive_pk[sk]
    BY DEF Found, OwnOutputs, output_commitments, commitment, CoinOf
  <2>6. \A cn \in found : /\ cn \in OwnOutputs(sk, board[n + 1])
                          /\ cn \in Outputs(n + 1)
                          /\ cn \in output_commitments(board[n + 1])
    BY DEF Found, OwnOutputs, Outputs
  <2>7. \A cn \in found :
          check_coin_receipt(sk, cn, board[n + 1], NullifiersBefore(n)) <=> Effective(n + 1)
    BY <2>4, <2>5, <2>6 DEF check_coin_receipt
  <2>8. CASE \A cn \in found : check_coin_receipt(sk, cn, board[n + 1], NullifiersBefore(n))
    <3> DEFINE new == {[owner_pk |-> derive_pk[sk], coin_commitment |-> cn, received_at |-> n] :
                         cn \in found}
    <3>1. /\ wallets' = [wallets EXCEPT ![sk] = @ \union new]
          /\ scanned' = [scanned EXCEPT ![sk] = n + 1]
          /\ panicked' = panicked
      BY <1>2, <2>8 DEF ProcessSlot, Bootstrap
    <3>2. ASSUME NEW other \in SecretKeys, other # sk
          PROVE  wallets'[other] = wallets[other] /\ scanned'[other] = scanned[other]
      BY <3>1, <3>2 DEF TypeOK
    <3>3. wallets'[sk] = wallets[sk] \union new /\ scanned'[sk] = n + 1
      BY <3>1 DEF TypeOK
    <3>4. CreatedFor(sk, n + 1) = CreatedFor(sk, n) \union
             (IF Effective(n + 1) THEN OwnOutputs(sk, board[n + 1]) ELSE {})
      <4>1. {j \in EffectiveSlots : j <= n + 1} =
              {j \in EffectiveSlots : j <= n} \union (IF Effective(n + 1) THEN {n + 1} ELSE {})
        BY <2>1, <2>3 DEF EffectiveSlots
      <4> QED
        BY <4>1 DEF CreatedFor
    <3>5. tracked(sk) = CreatedFor(sk, n)
      BY DEF WalletInv, WalletExact
    <3>6. tracked(sk)' = tracked(sk) \union found
      <4>1. {r.coin_commitment : r \in new} = found
        <5>1. \A cn \in found : \E r \in new : r.coin_commitment = cn
          <6> TAKE cn \in found
          <6> DEFINE receipt == [owner_pk |-> derive_pk[sk], coin_commitment |-> cn, received_at |-> n]
          <6> WITNESS receipt \in new
          <6> QED
            OBVIOUS
        <5>2. \A r \in new : r.coin_commitment \in found
          OBVIOUS
        <5> HIDE DEF new, found
        <5> QED
          BY <5>1, <5>2
      <4> QED
        BY <3>3, <4>1 DEF tracked
    <3>7. tracked(sk)' = CreatedFor(sk, n + 1)
      <4>1. CASE Effective(n + 1)
        BY <4>1, <3>4, <3>5, <3>6 DEF Found
      <4>2. CASE ~Effective(n + 1)
        BY <4>2, <2>7, <2>8, <3>4, <3>5, <3>6
      <4> QED
        BY <4>1, <4>2
    <3>8. \A r \in wallets'[sk] : /\ r.received_at < n + 1
                                  /\ r.owner_pk = derive_pk[sk]
                                  /\ r.received_at + 1 \in EffectiveSlots
                                  /\ r.coin_commitment \in Outputs(r.received_at + 1)
      <4>1. ASSUME NEW r \in wallets[sk]
            PROVE  /\ r.received_at < n + 1
                   /\ r.owner_pk = derive_pk[sk]
                   /\ r.received_at + 1 \in EffectiveSlots
                   /\ r.coin_commitment \in Outputs(r.received_at + 1)
        <5>1. r.received_at \in 0 .. MaxSlots
          BY DEF TypeOK, Receipts
        <5> QED
          BY <5>1, <2>1 DEF WalletInv, WalletExact
      <4>2. ASSUME NEW r \in new
            PROVE  /\ r.received_at < n + 1
                   /\ r.owner_pk = derive_pk[sk]
                   /\ r.received_at + 1 \in EffectiveSlots
                   /\ r.coin_commitment \in Outputs(r.received_at + 1)
        BY <2>1, <2>3, <2>6, <2>7, <2>8
      <4> QED
        BY <3>3, <4>1, <4>2
    <3>9. WalletExact'
      <4> SUFFICES ASSUME NEW any \in SecretKeys
                   PROVE  /\ tracked(any)' = CreatedFor(any, scanned'[any])
                          /\ \A r \in wallets'[any] : /\ r.received_at < scanned'[any]
                                                      /\ r.owner_pk = derive_pk[any]
                                                      /\ r.received_at + 1 \in EffectiveSlots
                                                      /\ r.coin_commitment \in Outputs(r.received_at + 1)
        BY <2>2 DEF WalletExact
      <4>1. CASE any = sk
        BY <4>1, <3>3, <3>7, <3>8
      <4>2. CASE any # sk
        BY <4>2, <3>2 DEF WalletInv, WalletExact, tracked
      <4> QED
        BY <4>1, <4>2
    <3>10. PanicOnlyOnDoubleSpend'
      BY <1>2, <2>2, <3>1, <3>2 DEF ProcessSlot, WalletInv, PanicOnlyOnDoubleSpend
    <3> QED
      BY <3>9, <3>10 DEF WalletInv
  <2>9. CASE ~ \A cn \in found : check_coin_receipt(sk, cn, board[n + 1], NullifiersBefore(n))
    <3>1. /\ panicked' = [panicked EXCEPT ![sk] = TRUE]
          /\ wallets' = wallets /\ scanned' = scanned
      BY <1>2, <2>9 DEF ProcessSlot, Bootstrap
    <3>2. n < Len(board) /\ ~Effective(n + 1)
      BY <2>1, <2>7, <2>9
    <3>3. WalletExact'
      BY <2>2, <3>1 DEF WalletInv, WalletExact, tracked
    <3>4. PanicOnlyOnDoubleSpend'
      BY <2>2, <3>1, <3>2 DEF WalletInv, PanicOnlyOnDoubleSpend, TypeOK
    <3> QED
      BY <3>3, <3>4 DEF WalletInv
  <2> QED
    BY <2>8, <2>9
<1>3. ASSUME NEW tx \in pending, Post(tx) PROVE WalletInv'
  <2>1. wallets' = wallets /\ scanned' = scanned /\ panicked' = panicked
    BY <1>3 DEF Post
  <2>2. \A sk \in SecretKeys : scanned[sk] \in 0 .. Len(board) /\ Len(board) \in Nat
    BY DEF TypeOK
  <2>3. WalletExact'
    <3>1. ASSUME NEW sk \in SecretKeys PROVE (tracked(sk) = CreatedFor(sk, scanned[sk]))'
      <4>1. \A n \in 0 .. Len(board) : CreatedFor(sk, n)' = CreatedFor(sk, n)
        BY <1>3, GrowthKeepsSlots
      <4>2. CreatedFor(sk, scanned[sk])' = CreatedFor(sk, scanned[sk])
        BY <2>1, <2>2, <4>1 DEF CreatedFor
      <4>3. tracked(sk) = CreatedFor(sk, scanned[sk])
        BY DEF WalletInv, WalletExact
      <4> QED
        BY <2>1, <4>2, <4>3 DEF tracked
    <3>2. ASSUME NEW sk \in SecretKeys, NEW r \in wallets[sk]
          PROVE  /\ r.received_at < scanned'[sk]
                 /\ r.owner_pk = derive_pk[sk]
                 /\ r.received_at + 1 \in EffectiveSlots'
                 /\ r.coin_commitment \in Outputs(r.received_at + 1)'
      <4>1. /\ r.received_at + 1 \in 1 .. Len(board)
            /\ r.received_at < scanned[sk] /\ r.owner_pk = derive_pk[sk]
            /\ r.received_at + 1 \in EffectiveSlots
            /\ r.coin_commitment \in Outputs(r.received_at + 1)
        BY DEF WalletInv, WalletExact, EffectiveSlots
      <4> QED
        BY <1>3, <2>1, <4>1, GrowthKeepsSlots
    <3> QED
      BY <2>1, <3>1, <3>2 DEF WalletExact
  <2>4. PanicOnlyOnDoubleSpend'
    <3> SUFFICES ASSUME NEW sk \in SecretKeys, panicked[sk]
                 PROVE  (scanned[sk] < Len(board) /\ ~Effective(scanned[sk] + 1))'
      BY <2>1 DEF PanicOnlyOnDoubleSpend
    <3>1. scanned[sk] < Len(board) /\ ~Effective(scanned[sk] + 1)
      BY <2>1 DEF WalletInv, PanicOnlyOnDoubleSpend
    <3>2. scanned[sk] + 1 \in 1 .. Len(board) /\ scanned[sk] + 1 \notin EffectiveSlots
      BY <2>2, <3>1 DEF EffectiveSlots
    <3>3. scanned[sk] + 1 \notin EffectiveSlots' /\ Len(board') = Len(board) + 1
      BY <1>3, <3>2, GrowthKeepsSlots
    <3> QED
      BY <2>1, <2>2, <3>1, <3>2, <3>3 DEF EffectiveSlots
  <2> QED
    BY <2>3, <2>4 DEF WalletInv
<1>4. ASSUME UNCHANGED vars PROVE WalletInv'
  BY <1>4, WalletStutter DEF vars
<1> QED
  BY <1>1, <1>2, <1>3, <1>4 DEF Next

(* WalletExact and PanicOnlyOnDoubleSpend: a live host tracks exactly the  *)
(* coins that effective entries pay its key in the slots it has processed, *)
(* and it ends only over a double spend that pays it.                      *)
THEOREM WalletsCorrect == Spec => [](WalletExact /\ PanicOnlyOnDoubleSpend)
<1>1. Init => TypeOK /\ WalletInv
  <2> SUFFICES ASSUME Init PROVE TypeOK /\ WalletInv
    OBVIOUS
  <2>1. TypeOK
    BY BoundsAssumption DEF Init, TypeOK
  <2>2. \A sk \in SecretKeys : tracked(sk) = {} /\ CreatedFor(sk, scanned[sk]) = {}
    BY DEF Init, tracked, CreatedFor, EffectiveSlots
  <2> QED
    BY <2>1, <2>2 DEF Init, WalletInv, WalletExact, PanicOnlyOnDoubleSpend
<1>2. TypeOK /\ WalletInv /\ [Next]_vars => TypeOK' /\ WalletInv'
  BY TypeStep, WalletStep
<1>3. WalletInv => WalletExact /\ PanicOnlyOnDoubleSpend
  BY DEF WalletInv
<1> QED
  BY <1>1, <1>2, <1>3, PTL DEF Spec

(* PanicOnlyOnDoubleSpend: a receipt that does not hold (main.rs: the      *)
(* panic of run_coin_receipt) means that the scanned entry is a double     *)
(* spend, whatever views the spends on the board were proved from.         *)
THEOREM HostsEndOnDoubleSpendOnly == Spec => []PanicOnlyOnDoubleSpend
BY WalletsCorrect, PTL

-----------------------------------------------------------------------------
(* What a proof in flight was proved from stays true until it lands, and   *)
(* of the entry it becomes ever after.                                     *)

(* CustodyInv is inductive: check_spend asks a receipt of every coin that  *)
(* genesis does not issue.                                                 *)
LEMMA CustodyStep ==
    TypeOK /\ NullifierInv /\ WalletInv /\ CustodyInv /\ [Next]_vars => CustodyInv'
<1> SUFFICES ASSUME TypeOK, NullifierInv, WalletInv, CustodyInv, [Next]_vars PROVE CustodyInv'
  OBVIOUS
<1>0. Len(board) \in Nat
  BY DEF TypeOK
<1>1. ASSUME board' = board
      PROVE  \A tx, n : CustodyWithin(tx, n)' <=> CustodyWithin(tx, n)
  <2>1. \A k : Outputs(k)' = Outputs(k) /\ (Effective(k)' <=> Effective(k))
    BY <1>1 DEF Outputs, Effective, NullifiersBefore
  <2>2. EffectiveSlots' = EffectiveSlots
    BY <1>1, <2>1 DEF EffectiveSlots
  <2> QED
    BY <2>1, <2>2 DEF CustodyWithin
<1>2. ASSUME NEW sk \in SecretKeys, ProveSpend(sk) PROVE CustodyInv'
  <2>1. scanned[sk] \in 0 .. MaxSlots
    BY BoundsAssumption DEF TypeOK
  <2>2. PICK ins \in CoinLists(MaxInputs), outs \in CoinLists(MaxOutputs),
             is_genesis \in BOOLEAN :
          /\ check_spend(sk, commitment(ins[1]), make_tx(sk, ins, outs, scanned[sk]), ins,
                         is_genesis, ReceiptProofs, NullifiersBefore(scanned[sk]))
          /\ pending' = pending \union {make_tx(sk, ins, outs, scanned[sk])}
    BY <1>2 DEF ProveSpend
  <2> DEFINE tx == make_tx(sk, ins, outs, scanned[sk])
             cn == commitment(ins[1])
  <2>3. 1 \in DOMAIN ins /\ ins[1].owner_pk = derive_pk[sk]
    BY <2>1, <2>2, MakeTxType DEF OwnedBy, check_spend
  <2>4. tx.input_commitments[1] = cn
    BY <2>3 DEF make_tx, commitments
  <2>5. CustodyWithin(tx, Len(board))
    <3>1. CASE is_genesis
      BY <2>2, <2>3, <2>4, <3>1 DEF check_spend, HasProvenance, CustodyWithin, commitment, CoinOf
    <3>2. CASE ~is_genesis
      <4>1. PICK cp \in ReceiptProofs : cp.coin_commitment = cn
        BY <2>2, <3>2 DEF check_spend, HasProvenance
      <4>2. PICK other \in SecretKeys : cp \in wallets[other]
        BY <4>1 DEF ReceiptProofs
      <4>3. cp.received_at + 1 \in EffectiveSlots /\ cn \in Outputs(cp.received_at + 1)
        BY <4>1, <4>2 DEF WalletInv, WalletExact
      <4>4. cp.received_at + 1 <= Len(board)
        BY <4>3, <1>0 DEF EffectiveSlots
      <4> QED
        BY <4>3, <4>4, <2>4 DEF CustodyWithin
    <3> QED
      BY <3>1, <3>2
  <2>6. board' = board
    BY <1>2 DEF ProveSpend
  <2> QED
    BY <1>1, <2>2, <2>5, <2>6 DEF CustodyInv
<1>3. ASSUME NEW sk \in SecretKeys, ProcessSlot(sk) PROVE CustodyInv'
  BY <1>1, <1>3 DEF ProcessSlot, CustodyInv
<1>4. ASSUME NEW tx \in pending, Post(tx) PROVE CustodyInv'
  <2>1. /\ Len(board') = Len(board) + 1 /\ board'[Len(board')] = tx
        /\ \A k \in 1 .. Len(board) : board'[k] = board[k]
        /\ pending' \subseteq pending
    BY <1>4, GrowthKeepsSlots DEF Post
  <2>2. ASSUME NEW t, NEW n \in 0 .. Len(board), NEW m \in n .. Len(board'), CustodyWithin(t, n)
        PROVE  CustodyWithin(t, m)'
    <3>1. CASE CoinOf(t.input_commitments[1]).owner_pk = genesis_pk
      BY <3>1 DEF CustodyWithin
    <3>2. CASE \E j \in EffectiveSlots : j <= n /\ t.input_commitments[1] \in Outputs(j)
      <4>1. PICK j \in EffectiveSlots : j <= n /\ t.input_commitments[1] \in Outputs(j)
        BY <3>2
      <4>2. j \in 1 .. Len(board)
        BY DEF EffectiveSlots
      <4>3. j \in EffectiveSlots' /\ Outputs(j)' = Outputs(j)
        BY <1>4, <4>2, GrowthKeepsSlots
      <4>4. j <= m
        BY <1>0, <4>1, <4>2
      <4> QED
        BY <4>1, <4>3, <4>4 DEF CustodyWithin
    <3> QED
      BY <2>2, <3>1, <3>2 DEF CustodyWithin
  <2>3. ASSUME NEW t \in pending' PROVE CustodyWithin(t, Len(board))'
    <3>1. CustodyWithin(t, Len(board)) /\ Len(board') \in Len(board) .. Len(board')
      BY <1>0, <2>1 DEF CustodyInv
    <3>2. \A m : m = Len(board') => CustodyWithin(t, m)'
      BY <1>0, <2>2, <3>1
    <3> QED
      BY <3>2 DEF CustodyWithin
  <2>4. ASSUME NEW k \in 1 .. Len(board') PROVE CustodyWithin(board[k], k - 1)'
    <3>1. CustodyWithin(board'[k], k - 1)
      BY <1>0, <2>1 DEF CustodyInv
    <3>2. k - 1 \in 0 .. Len(board) /\ k - 1 \in k - 1 .. Len(board')
      BY <1>0, <2>1
    <3>3. \A t : t = board'[k] => CustodyWithin(t, k - 1)'
      BY <2>2, <3>1, <3>2
    <3> QED
      BY <3>3 DEF CustodyWithin
  <2> QED
    BY <2>3, <2>4 DEF CustodyInv
<1>5. ASSUME UNCHANGED vars PROVE CustodyInv'
  BY <1>1, <1>5 DEF vars, CustodyInv
<1> QED
  BY <1>2, <1>3, <1>4, <1>5 DEF Next

(* ChainOfCustody: with single-input transactions, what any entry of the   *)
(* board spends was issued by genesis or created by an earlier entry that  *)
(* took effect.                                                            *)
THEOREM CustodyHolds ==
    ASSUME MaxInputs = 1
    PROVE  Spec => []ChainOfCustody
<1> DEFINE Inv == TypeOK /\ NullifierInv /\ WalletInv /\ CustodyInv
<1>1. Init => Inv
  <2> SUFFICES ASSUME Init PROVE Inv
    OBVIOUS
  <2>1. TypeOK /\ NullifierInv /\ CustodyInv
    BY BoundsAssumption DEF Init, TypeOK, NullifierInv, CustodyInv
  <2>2. \A sk \in SecretKeys : tracked(sk) = {} /\ CreatedFor(sk, scanned[sk]) = {}
    BY DEF Init, tracked, CreatedFor, EffectiveSlots
  <2> QED
    BY <2>1, <2>2 DEF Init, WalletInv, WalletExact, PanicOnlyOnDoubleSpend
<1>2. Inv /\ [Next]_vars => Inv'
  BY TypeStep, NullifierStep, WalletStep, CustodyStep
<1>3. Inv => ChainOfCustody
  <2> SUFFICES ASSUME Inv, NEW k \in 1 .. Len(board), NEW cn \in Inputs(k)
               PROVE  \/ CoinOf(cn).owner_pk = genesis_pk
                      \/ \E j \in EffectiveSlots : j < k /\ cn \in Outputs(j)
    BY DEF ChainOfCustody
  <2>1. board[k] \in Transactions
    BY DEF TypeOK
  <2>2. DOMAIN board[k].input_commitments = {1}
    BY <2>1 DEF Transactions
  <2>3. cn = board[k].input_commitments[1]
    BY <2>2 DEF Inputs
  <2>4. CustodyWithin(board[k], k - 1)
    BY DEF CustodyInv
  <2>5. \A j \in EffectiveSlots : j \in Int
    BY DEF EffectiveSlots
  <2> QED
    BY <2>3, <2>4, <2>5 DEF CustodyWithin
<1> HIDE DEF Inv
<1> QED
  BY <1>1, <1>2, <1>3, PTL DEF Spec

(* AnchorInv is inductive: check_spend refuses a nullifier the prover has  *)
(* seen.                                                                   *)
LEMMA AnchorStep == TypeOK /\ AnchorInv /\ [Next]_vars => AnchorInv'
<1> SUFFICES ASSUME TypeOK, AnchorInv, [Next]_vars PROVE AnchorInv'
  OBVIOUS
<1>0. Len(board) \in Nat
  BY DEF TypeOK
<1>1. ASSUME board' = board PROVE \A tx, n : AnchoredFresh(tx, n)' <=> AnchoredFresh(tx, n)
  BY <1>1 DEF AnchoredFresh, NullifiersBefore
<1>2. ASSUME NEW sk \in SecretKeys, ProveSpend(sk) PROVE AnchorInv'
  <2>1. PICK ins \in CoinLists(MaxInputs), outs \in CoinLists(MaxOutputs) :
          LET tx == make_tx(sk, ins, outs, scanned[sk])
          IN  /\ tx.input_nullifier \notin NullifiersBefore(scanned[sk])
              /\ pending' = pending \union {tx}
    BY <1>2 DEF ProveSpend, check_spend
  <2>2. AnchoredFresh(make_tx(sk, ins, outs, scanned[sk]), Len(board))
    BY <2>1 DEF AnchoredFresh, make_tx, TypeOK
  <2>3. board' = board
    BY <1>2 DEF ProveSpend
  <2> QED
    BY <1>1, <2>1, <2>2, <2>3 DEF AnchorInv
<1>3. ASSUME NEW sk \in SecretKeys, ProcessSlot(sk) PROVE AnchorInv'
  BY <1>1, <1>3 DEF ProcessSlot, AnchorInv
<1>4. ASSUME NEW tx \in pending, Post(tx) PROVE AnchorInv'
  <2>1. /\ Len(board') = Len(board) + 1 /\ board'[Len(board')] = tx
        /\ \A k \in 1 .. Len(board) : board'[k] = board[k]
        /\ \A n \in 0 .. Len(board) : NullifiersBefore(n)' = NullifiersBefore(n)
        /\ pending' \subseteq pending
    BY <1>4, GrowthKeepsSlots DEF Post
  <2>2. ASSUME NEW t, NEW n \in 0 .. Len(board), NEW m \in n .. Len(board'), AnchoredFresh(t, n)
        PROVE  AnchoredFresh(t, m)'
    <3>1. t.anchor \in 0 .. Len(board) /\ t.anchor \in 0 .. m
      BY <1>0, <2>1, <2>2 DEF AnchoredFresh
    <3> QED
      BY <2>1, <2>2, <3>1 DEF AnchoredFresh, NullifiersBefore
  <2>3. ASSUME NEW t \in pending' PROVE AnchoredFresh(t, Len(board))'
    <3>1. AnchoredFresh(t, Len(board)) /\ Len(board') \in Len(board) .. Len(board')
      BY <1>0, <2>1 DEF AnchorInv
    <3>2. \A m : m = Len(board') => AnchoredFresh(t, m)'
      BY <1>0, <2>2, <3>1
    <3> QED
      BY <3>2 DEF AnchoredFresh
  <2>4. ASSUME NEW k \in 1 .. Len(board') PROVE AnchoredFresh(board[k], k - 1)'
    <3>1. AnchoredFresh(board'[k], k - 1)
      <4>1. CASE k \in 1 .. Len(board)
        BY <2>1, <4>1 DEF AnchorInv
      <4>2. CASE k = Len(board) + 1
        BY <1>0, <2>1, <4>2 DEF AnchorInv
      <4> QED
        BY <1>0, <2>1, <4>1, <4>2
    <3>2. k - 1 \in 0 .. Len(board) /\ k - 1 \in k - 1 .. Len(board')
      BY <1>0, <2>1
    <3>3. \A t : t = board'[k] => AnchoredFresh(t, k - 1)'
      BY <2>2, <3>1, <3>2
    <3> QED
      BY <3>3 DEF AnchoredFresh
  <2> QED
    BY <2>3, <2>4 DEF AnchorInv
<1>5. ASSUME UNCHANGED vars PROVE AnchorInv'
  BY <1>1, <1>5 DEF vars, AnchorInv
<1> QED
  BY <1>2, <1>3, <1>4, <1>5 DEF Next

(* DoubleSpendIsARace: when two entries carry one nullifier, the earlier   *)
(* one lies in a slot the proof of the later one had not seen.             *)
THEOREM RacesOnly == Spec => []DoubleSpendIsARace
<1>1. Init => TypeOK /\ AnchorInv
  BY BoundsAssumption DEF Init, TypeOK, AnchorInv
<1>2. TypeOK /\ AnchorInv /\ [Next]_vars => TypeOK' /\ AnchorInv'
  BY TypeStep, AnchorStep
<1>3. TypeOK /\ AnchorInv => DoubleSpendIsARace
  <2> SUFFICES ASSUME TypeOK, AnchorInv,
                      NEW k \in 1 .. Len(board), NEW j \in 1 .. k - 1,
                      board[j].input_nullifier = board[k].input_nullifier
               PROVE  j > board[k].anchor
    BY DEF DoubleSpendIsARace
  <2>1. board[k].anchor \in 0 .. k - 1 /\ board[k].input_nullifier \notin NullifiersBefore(board[k].anchor)
    BY DEF AnchorInv, AnchoredFresh
  <2> QED
    BY <2>1 DEF NullifiersBefore, TypeOK
<1> QED
  BY <1>1, <1>2, <1>3, PTL DEF Spec

-----------------------------------------------------------------------------
(* Value.  Sums over coins and hosts are taken apart with SumProofs.       *)

(* What each commitment's coin is worth.                                   *)
worth == [cn \in Commitments |-> CoinOf(cn).value]

(* A coin's value is a natural.                                            *)
LEMMA WorthNat == \A cn \in Commitments : worth[cn] \in Nat
BY CoinsAssumption DEF worth, Commitments, CoinOf, commitment

(* CoinsWorth is the sum of that table.                                    *)
LEMMA CoinsWorthSum ==
    ASSUME NEW S \in SUBSET Commitments, IsFiniteSet(S)
    PROVE  CoinsWorth(S) = SumOf(worth, S)
<1> DEFINE Body(g) ==
      g = [s \in SUBSET S |-> IF s = {} THEN 0 ELSE CoinOf(pick(s)).value + g[s \ {pick(s)}]]
           t == CHOOSE g : Body(g)
<1>1. \A g : IsSumTable(g, worth, S) <=> Body(g)
  <2> TAKE g
  <2>1. \A s \in SUBSET S : s # {} => worth[pick(s)] = CoinOf(pick(s)).value
    BY PickIn DEF worth
  <2> QED BY <2>1 DEF IsSumTable
<1>2. CoinsWorth(S) = t[S]
  BY DEF CoinsWorth, MapThenSumSet, MapThenFoldSet, pick
<1> HIDE DEF Body
<1>3. Body(t)
  BY <1>1, SumTableExists, Zenon
<1> QED BY <1>1, <1>2, <1>3, SumChosen

(* SpendableWorth is the sum over the hosts.                               *)
LEMMA SpendableWorthSum ==
    SpendableWorth = SumOf([sk \in SecretKeys |-> CoinsWorth(Spendable(sk))], SecretKeys)
<1> DEFINE v == [sk \in SecretKeys |-> CoinsWorth(Spendable(sk))]
           Body(g) ==
      g = [s \in SUBSET SecretKeys |->
              IF s = {} THEN 0 ELSE CoinsWorth(Spendable(pick(s))) + g[s \ {pick(s)}]]
           t == CHOOSE g : Body(g)
<1>1. \A g : IsSumTable(g, v, SecretKeys) <=> Body(g)
  <2> TAKE g
  <2>1. \A s \in SUBSET SecretKeys : s # {} => v[pick(s)] = CoinsWorth(Spendable(pick(s)))
    BY PickIn
  <2> QED BY <2>1 DEF IsSumTable
<1>2. SpendableWorth = t[SecretKeys]
  BY DEF SpendableWorth, MapThenSumSet, MapThenFoldSet, pick
<1> HIDE DEF Body
<1>3. Body(t)
  BY <1>1, KeysAssumption, SumTableExists, Zenon
<1> HIDE DEF t, v
<1>4. SpendableWorth = SumOf(v, SecretKeys)
  BY <1>1, <1>2, <1>3, KeysAssumption, SumChosen
<1> QED BY <1>4 DEF v

(* Finitely many entries take effect.                                      *)
LEMMA FiniteSlots == TypeOK => IsFiniteSet(EffectiveSlots)
<1> SUFFICES ASSUME TypeOK PROVE IsFiniteSet(EffectiveSlots)
  OBVIOUS
<1>1. IsFiniteSet(1 .. Len(board))
  BY FS_Interval DEF TypeOK
<1> QED BY <1>1, FS_Subset DEF EffectiveSlots

(* Issued is the sum over the entries that take effect.                    *)
LEMMA IssuedSum ==
    TypeOK => Issued = SumOf([k \in EffectiveSlots |-> CoinsWorth(GenesisInputs(k))], EffectiveSlots)
<1> SUFFICES ASSUME TypeOK
             PROVE  Issued = SumOf([k \in EffectiveSlots |-> CoinsWorth(GenesisInputs(k))], EffectiveSlots)
  OBVIOUS
<1> DEFINE v == [k \in EffectiveSlots |-> CoinsWorth(GenesisInputs(k))]
           Body(g) ==
      g = [s \in SUBSET EffectiveSlots |->
              IF s = {} THEN 0 ELSE CoinsWorth(GenesisInputs(pick(s))) + g[s \ {pick(s)}]]
           t == CHOOSE g : Body(g)
<1>1. \A g : IsSumTable(g, v, EffectiveSlots) <=> Body(g)
  <2> TAKE g
  <2>1. \A s \in SUBSET EffectiveSlots : s # {} => v[pick(s)] = CoinsWorth(GenesisInputs(pick(s)))
    BY PickIn
  <2> QED BY <2>1 DEF IsSumTable
<1>2. Issued = t[EffectiveSlots]
  BY DEF Issued, MapThenSumSet, MapThenFoldSet, pick
<1> HIDE DEF Body
<1>3. Body(t)
  BY <1>1, FiniteSlots, SumTableExists, Zenon
<1> HIDE DEF t, v
<1>4. Issued = SumOf(v, EffectiveSlots)
  BY <1>1, <1>2, <1>3, FiniteSlots, SumChosen
<1> QED BY <1>4 DEF v


-----------------------------------------------------------------------------
(* No list of coins that a transaction may spend or make exceeds the width *)
(* of a value: check_spend adds u64 without a check, so beyond it the      *)
(* totals it compares are not the sums (the run ledger_wide).              *)
NoWrap ==
    \A cs \in CoinLists(MaxInputs) \union CoinLists(MaxOutputs) :
        IntegerTotal(values(cs)) < ValueModulus

(* A list of coins is finite and its values are naturals.                  *)
LEMMA CoinListType ==
    ASSUME NEW n \in Nat, NEW cs \in CoinLists(n)
    PROVE  /\ IsFiniteSet(DOMAIN cs)
           /\ \A i \in DOMAIN cs : cs[i] \in Coins /\ cs[i].value \in Nat
<1>1. PICK m \in 1 .. n : cs \in [1 .. m -> Coins]
  BY DEF CoinLists
<1>2. IsFiniteSet(1 .. m)
  BY FS_Interval
<1> QED BY <1>1, <1>2, CoinsAssumption

(* Where the sum does not wrap, total is the sum.                          *)
LEMMA TotalIsInteger ==
    ASSUME NEW n \in Nat, NEW cs \in CoinLists(n), IntegerTotal(values(cs)) < ValueModulus
    PROVE  total(cs) = IntegerTotal(values(cs))
<1>1. DOMAIN values(cs) = DOMAIN cs
  BY DEF values
<1>2. IsFiniteSet(DOMAIN cs) /\ \A i \in DOMAIN cs : values(cs)[i] \in Nat
  BY CoinListType DEF values
<1>3. IntegerTotal(values(cs)) = SumOf(values(cs), DOMAIN cs)
  BY <1>1 DEF IntegerTotal, SumOf
<1>4. SumOf(values(cs), DOMAIN cs) \in Nat
  BY <1>2, SumNat
<1>5. IntegerTotal(values(cs)) % ValueModulus = IntegerTotal(values(cs))
  BY <1>3, <1>4, CoinsAssumption
<1> QED BY <1>5 DEF total

(* A transfer that check_spend accepts is balanced over the integers.      *)
LEMMA SpendBalanced ==
    ASSUME NoWrap, NEW sk \in SecretKeys, NEW ins \in CoinLists(MaxInputs),
           NEW outs \in CoinLists(MaxOutputs), NEW n, Conserves(ins, outs)
    PROVE  Balanced(make_tx(sk, ins, outs, n))
<1> DEFINE tx == make_tx(sk, ins, outs, n)
<1>1. total(ins) = IntegerTotal(values(ins))
  BY BoundsAssumption, TotalIsInteger DEF NoWrap
<1>2. total(outs) = IntegerTotal(values(outs))
  BY BoundsAssumption, TotalIsInteger DEF NoWrap
<1>3. tx.outputs = outs /\ DOMAIN tx.input_commitments = DOMAIN ins
  BY DEF make_tx, commitments
<1>4. \A i \in DOMAIN ins : CoinOf(tx.input_commitments[i]).value = ins[i].value
  BY DEF make_tx, commitments, commitment, CoinOf
<1> HIDE DEF tx
<1>5. [i \in DOMAIN tx.input_commitments |-> CoinOf(tx.input_commitments[i]).value] = values(ins)
  BY <1>3, <1>4 DEF values
<1>6. Balanced(tx)
  BY <1>1, <1>2, <1>3, <1>5 DEF Balanced, Conserves
<1> QED BY <1>6 DEF tx

(* Every transaction in flight or posted is balanced.                      *)
BalanceInv == /\ \A tx \in pending : Balanced(tx)
              /\ \A k \in 1 .. Len(board) : Balanced(board[k])

(* BalanceInv is inductive.                                                *)
LEMMA BalanceStep == NoWrap /\ TypeOK /\ BalanceInv /\ [Next]_vars => BalanceInv'
<1> SUFFICES ASSUME NoWrap, TypeOK, BalanceInv, [Next]_vars PROVE BalanceInv'
  OBVIOUS
<1>1. ASSUME NEW sk \in SecretKeys, ProveSpend(sk) PROVE BalanceInv'
  <2>1. PICK ins \in CoinLists(MaxInputs), outs \in CoinLists(MaxOutputs) :
          /\ Conserves(ins, outs)
          /\ pending' = pending \union {make_tx(sk, ins, outs, scanned[sk])}
    BY <1>1 DEF ProveSpend, check_spend, make_tx
  <2>2. Balanced(make_tx(sk, ins, outs, scanned[sk]))
    BY <2>1, SpendBalanced
  <2> QED BY <1>1, <2>1, <2>2 DEF ProveSpend, BalanceInv
<1>2. ASSUME NEW sk \in SecretKeys, ProcessSlot(sk) PROVE BalanceInv'
  BY <1>2 DEF ProcessSlot, BalanceInv
<1>3. ASSUME NEW tx \in pending, Post(tx) PROVE BalanceInv'
  <2>1. \A k \in 1 .. Len(board') : board'[k] = IF k <= Len(board) THEN board[k] ELSE tx
    BY <1>3 DEF Post, TypeOK
  <2> QED BY <1>3, <2>1 DEF Post, BalanceInv, TypeOK
<1>4. ASSUME UNCHANGED vars PROVE BalanceInv'
  BY <1>4 DEF vars, BalanceInv
<1> QED BY <1>1, <1>2, <1>3, <1>4 DEF Next

(* TransactionBalanced: where totals cannot wrap, no entry mints or burns  *)
(* ("Value conservation" of check_spend), whatever the number of inputs    *)
(* and outputs.                                                            *)
THEOREM BoardBalanced ==
    ASSUME NoWrap
    PROVE  Spec => []TransactionBalanced
<1>1. Init => TypeOK /\ BalanceInv
  BY BoundsAssumption, KeysAssumption DEF Init, TypeOK, BalanceInv
<1>2. TypeOK /\ BalanceInv /\ [Next]_vars => TypeOK' /\ BalanceInv'
  BY TypeStep, BalanceStep
<1>3. BalanceInv => TransactionBalanced
  BY DEF BalanceInv, TransactionBalanced
<1> QED BY <1>1, <1>2, <1>3, PTL DEF Spec

-----------------------------------------------------------------------------
(* A transaction's output commitments are finitely many commitments.       *)
LEMMA OutputsType ==
    ASSUME NEW tx \in Transactions
    PROVE  /\ output_commitments(tx) \in SUBSET Commitments
           /\ IsFiniteSet(output_commitments(tx))
<1>1. PICK m \in 1 .. MaxOutputs : tx.outputs \in [1 .. m -> Coins]
  BY DEF Transactions, CoinLists
<1> DEFINE f == [i \in 1 .. m |-> commitment(tx.outputs[i])]
<1>2. output_commitments(tx) = {f[i] : i \in 1 .. m}
  BY <1>1 DEF output_commitments
<1>3. IsFiniteSet({f[i] : i \in 1 .. m})
  <2>1. IsFiniteSet(1 .. m)
    BY FS_Interval
  <2> HIDE DEF f
  <2> QED BY <2>1, FiniteImage
<1> QED BY <1>1, <1>2, <1>3 DEF Commitments, output_commitments

(* The outputs are worth no more than their values add up to: a coin made  *)
(* twice in one transaction has one commitment.                            *)
LEMMA OutputsWorth ==
    ASSUME NEW tx \in Transactions
    PROVE  SumOf(worth, output_commitments(tx))
             <= IntegerTotal(values(tx.outputs))
<1>1. PICK m \in 1 .. MaxOutputs : tx.outputs \in [1 .. m -> Coins]
  BY DEF Transactions, CoinLists
<1> DEFINE D == DOMAIN tx.outputs
           f == [i \in D |-> commitment(tx.outputs[i])]
           w == values(tx.outputs)
<1>2. IsFiniteSet(D)
  BY <1>1, FS_Interval
<1>3. \A i \in D : worth[f[i]] \in Nat /\ w[i] = worth[f[i]]
  <2>1. \A i \in D : f[i] \in Commitments /\ CoinOf(f[i]).value = w[i]
    BY <1>1 DEF Commitments, commitment, CoinOf, values
  <2> QED BY <2>1, WorthNat DEF worth
<1>4. output_commitments(tx) = {f[i] : i \in D}
  BY DEF output_commitments
<1>5. IntegerTotal(w) = SumOf(w, D)
  BY DEF IntegerTotal, SumOf, values
<1> HIDE DEF D, f, w
<1>6. SumOf(worth, {f[i] : i \in D}) <= SumOf(w, D)
  BY <1>2, <1>3, SumImage
<1>7. SumOf(worth, output_commitments(tx)) <= IntegerTotal(w)
  BY <1>4, <1>5, <1>6
<1> QED BY <1>7 DEF w, D

(* With one input, they are worth no more than the coin spent.             *)
LEMMA SingleInputWorth ==
    ASSUME MaxInputs = 1, NEW tx \in Transactions, Balanced(tx)
    PROVE  /\ tx.input_commitments[1] \in Commitments
           /\ DOMAIN tx.input_commitments = {1}
           /\ SumOf(worth, output_commitments(tx)) <= worth[tx.input_commitments[1]]
<1>1. tx.input_commitments[1] \in Commitments /\ DOMAIN tx.input_commitments = {1}
  BY DEF Transactions
<1> DEFINE w == [i \in DOMAIN tx.input_commitments |-> CoinOf(tx.input_commitments[i]).value]
<1>2. DOMAIN w = {1} /\ w[1] = worth[tx.input_commitments[1]] /\ w[1] \in Nat
  BY <1>1, WorthNat DEF worth
<1>3. IntegerTotal(w) = SumOf(w, DOMAIN w)
  BY DEF IntegerTotal, SumOf
<1>4. IntegerTotal(w) = IntegerTotal(values(tx.outputs))
  BY DEF Balanced
<1> HIDE DEF w
<1>5. SumOf(w, {1}) = w[1]
  BY <1>2, SumSingleton
<1> QED BY <1>1, <1>2, <1>3, <1>4, <1>5, OutputsWorth

(* The genesis coins an entry spends are finitely many commitments.        *)
LEMMA GenesisInputsType ==
    ASSUME TypeOK, NEW k \in 1 .. Len(board)
    PROVE  /\ GenesisInputs(k) \in SUBSET Commitments
           /\ IsFiniteSet(GenesisInputs(k))
           /\ CoinsWorth(GenesisInputs(k)) \in Nat
<1>1. board[k] \in Transactions
  BY DEF TypeOK
<1>2. PICK m \in 1 .. MaxInputs : board[k].input_commitments \in [1 .. m -> Commitments]
  BY <1>1 DEF Transactions
<1> DEFINE ins == board[k].input_commitments
<1>0. IsFiniteSet(1 .. m)
  BY FS_Interval
<1>3. Inputs(k) = {ins[i] : i \in 1 .. m} /\ Inputs(k) \in SUBSET Commitments
  BY <1>2 DEF Inputs
<1>4. IsFiniteSet(Inputs(k))
  <2> HIDE DEF ins
  <2> QED BY <1>0, <1>3, FiniteImage
<1>5. GenesisInputs(k) \in SUBSET Inputs(k)
  BY DEF GenesisInputs
<1>6. GenesisInputs(k) \in SUBSET Commitments /\ IsFiniteSet(GenesisInputs(k))
  BY <1>3, <1>4, <1>5, FS_Subset
<1>7. SumOf(worth, GenesisInputs(k)) \in Nat
  BY <1>6, WorthNat, SumNat
<1> QED BY <1>6, <1>7, CoinsWorthSum

(* What was issued is a natural.                                           *)
LEMMA IssuedNat == TypeOK => Issued \in Nat
<1> SUFFICES ASSUME TypeOK PROVE Issued \in Nat
  OBVIOUS
<1> DEFINE v == [k \in EffectiveSlots |-> CoinsWorth(GenesisInputs(k))]
<1>1. Issued = SumOf(v, EffectiveSlots) /\ IsFiniteSet(EffectiveSlots)
  BY IssuedSum, FiniteSlots
<1>2. \A k \in EffectiveSlots : v[k] \in Nat
  BY GenesisInputsType DEF EffectiveSlots
<1> HIDE DEF v
<1> QED BY <1>1, <1>2, SumNat

(* Issued, for any table that agrees with what the entries issue.          *)
LEMMA IssuedIs ==
    TypeOK => \A S, v :
        /\ S = EffectiveSlots
        /\ \A k \in S : \A ins : ins = GenesisInputs(k) => v[k] = CoinsWorth(ins)
        => Issued = SumOf(v, S)
<1> SUFFICES ASSUME TypeOK, NEW S, NEW v, S = EffectiveSlots,
                    \A k \in S : \A ins : ins = GenesisInputs(k) => v[k] = CoinsWorth(ins)
             PROVE  Issued = SumOf(v, S)
  OBVIOUS
<1> DEFINE w == [k \in EffectiveSlots |-> CoinsWorth(GenesisInputs(k))]
<1>1. Issued = SumOf(w, S) /\ IsFiniteSet(S)
  BY IssuedSum, FiniteSlots
<1>2. \A k \in S : v[k] = w[k]
  OBVIOUS
<1> HIDE DEF w
<1> QED BY <1>1, <1>2, SumAgrees

-----------------------------------------------------------------------------
(* The coins effective entries created that no owner has spent on the      *)
(* board: what all hosts could spend once they have processed it.          *)
LiveCoins ==
    {cn \in Commitments :
        /\ \E k \in EffectiveSlots : cn \in Outputs(k)
        /\ \A sk \in SecretKeys : CoinOf(cn).owner_pk = derive_pk[sk] =>
               nullifier(cn, sk) \notin NullifiersBefore(Len(board))}

(* The inductive invariant behind NoInflation. NoInflation itself is not   *)
(* inductive: a host that lags behind tracks less than exists, and says    *)
(* nothing of what it will find.                                           *)
LiveInv == CoinsWorth(LiveCoins) <= Issued

(* The live coins are finitely many commitments.                           *)
LEMMA LiveType == TypeOK => LiveCoins \in SUBSET Commitments /\ IsFiniteSet(LiveCoins)
<1> SUFFICES ASSUME TypeOK PROVE LiveCoins \in SUBSET Commitments /\ IsFiniteSet(LiveCoins)
  OBVIOUS
<1> DEFINE F == [k \in EffectiveSlots |-> Outputs(k)]
           All == UNION {F[k] : k \in EffectiveSlots}
<1>1. \A k \in EffectiveSlots : F[k] \in SUBSET Commitments /\ IsFiniteSet(F[k])
  <2> TAKE k \in EffectiveSlots
  <2>1. board[k] \in Transactions
    BY DEF EffectiveSlots, TypeOK
  <2> QED BY <2>1, OutputsType DEF Outputs
<1>2. LiveCoins \in SUBSET All
  BY DEF LiveCoins
<1> HIDE DEF F
<1>3. IsFiniteSet(All)
  BY <1>1, FiniteSlots, FiniteUnion
<1> HIDE DEF All
<1>4. IsFiniteSet(LiveCoins)
  BY <1>2, <1>3, FS_Subset
<1>5. LiveCoins \in SUBSET Commitments
  BY <1>1, <1>2 DEF All
<1> QED BY <1>4, <1>5

(* What an entry issues is a natural.                                      *)
LEMMA GenesisWorthType ==
    TypeOK => \A k \in EffectiveSlots : \A ins : ins = GenesisInputs(k) => CoinsWorth(ins) \in Nat
BY GenesisInputsType DEF EffectiveSlots

(* IssuedIs of the next state.                                             *)
LEMMA IssuedIsNext ==
    (TypeOK => \A S, v :
        /\ S = EffectiveSlots
        /\ \A k \in S : \A ins : ins = GenesisInputs(k) => v[k] = CoinsWorth(ins)
        => Issued = SumOf(v, S))'
BY IssuedIs, PTL

(* GenesisWorthType of the next state.                                     *)
LEMMA GenesisWorthNext ==
    (TypeOK => \A k \in EffectiveSlots : \A ins : ins = GenesisInputs(k) => CoinsWorth(ins) \in Nat)'
BY GenesisWorthType, PTL

(* With the same effective entries, the same is issued.                    *)
LEMMA IssuedKept ==
    ASSUME TypeOK, TypeOK', EffectiveSlots' = EffectiveSlots,
           \A k \in EffectiveSlots : GenesisInputs(k)' = GenesisInputs(k)
    PROVE  Issued' = Issued
<1> DEFINE v == [k \in EffectiveSlots |-> CoinsWorth(GenesisInputs(k))]
<1>1. Issued = SumOf(v, EffectiveSlots)
  BY IssuedIs
<1>2. Issued' = SumOf(v, EffectiveSlots)
  BY IssuedIsNext
<1> QED BY <1>1, <1>2

(* One more effective entry issues what it spends of genesis.              *)
LEMMA IssuedGrows ==
    ASSUME TypeOK, TypeOK', NEW m, NEW ins, m \notin EffectiveSlots,
           EffectiveSlots' = EffectiveSlots \union {m}, ins = GenesisInputs(m)',
           \A k \in EffectiveSlots : GenesisInputs(k)' = GenesisInputs(k)
    PROVE  Issued' = Issued + CoinsWorth(ins)
<1> DEFINE w == [k \in EffectiveSlots \union {m} |->
                   IF k = m THEN CoinsWorth(ins) ELSE CoinsWorth(GenesisInputs(k))]
<1>1. Issued = SumOf(w, EffectiveSlots)
  <2>1. \A k \in EffectiveSlots : w[k] = CoinsWorth(GenesisInputs(k))
    OBVIOUS
  <2> HIDE DEF w
  <2> QED BY <2>1, IssuedIs
<1>3. Issued' = SumOf(w, EffectiveSlots \union {m})
  <2>1. \A k \in EffectiveSlots \union {m} : \A i : i = GenesisInputs(k)' => w[k] = CoinsWorth(i)
    OBVIOUS
  <2> HIDE DEF w
  <2> QED BY <2>1, IssuedIsNext
<1>4. IsFiniteSet(EffectiveSlots)
  BY FiniteSlots
<1>5. \A k \in EffectiveSlots \union {m} : w[k] \in Int
  BY GenesisWorthNext
<1>6. w[m] = CoinsWorth(ins)
  OBVIOUS
<1> HIDE DEF w
<1>7. SumOf(w, EffectiveSlots \union {m}) = SumOf(w, EffectiveSlots) + w[m]
  BY <1>4, <1>5, SumAdd
<1> QED BY <1>1, <1>3, <1>6, <1>7

(* The worth of the live coins as a sum.                                   *)
LEMMA LiveWorth ==
    TypeOK => \A live : live = LiveCoins =>
        /\ CoinsWorth(LiveCoins) = SumOf(worth, live)
        /\ live \in SUBSET Commitments
        /\ IsFiniteSet(live)
BY LiveType, CoinsWorthSum

(* The same of the next state.                                             *)
LEMMA LiveWorthNext ==
    (TypeOK => \A live : live = LiveCoins =>
        /\ CoinsWorth(LiveCoins) = SumOf(worth, live)
        /\ live \in SUBSET Commitments
        /\ IsFiniteSet(live))'
BY LiveWorth, PTL

(* An entry that takes effect adds its outputs to the live coins, and      *)
(* takes away the coin it spends, which was live unless genesis issues it; *)
(* one that takes none adds nothing.                                       *)
LEMMA LiveAfterPost ==
    ASSUME KeysInjective, TypeOK, NullifierInv, CustodyInv,
           NEW tx \in pending, NEW cn0, Post(tx), cn0 = tx.input_commitments[1]
    PROVE  \/ /\ EffectiveSlots' = EffectiveSlots
              /\ LiveCoins' \in SUBSET LiveCoins
           \/ /\ EffectiveSlots' = EffectiveSlots \union {Len(board) + 1}
              /\ LiveCoins' \in SUBSET (LiveCoins \union output_commitments(tx))
              /\ CoinOf(cn0).owner_pk # genesis_pk =>
                    /\ cn0 \in LiveCoins
                    /\ LiveCoins' \in SUBSET ((LiveCoins \ {cn0}) \union output_commitments(tx))
<1> DEFINE m == Len(board) + 1
<1>1. /\ Len(board) \in Nat /\ Len(board') = m /\ board'[m] = tx
      /\ \A k \in 1 .. Len(board) : board'[k] = board[k]
      /\ \A k \in 1 .. Len(board) : /\ Outputs(k)' = Outputs(k)
                                    /\ k \in EffectiveSlots' <=> k \in EffectiveSlots
  BY GrowthKeepsSlots DEF TypeOK
<1>2. EffectiveSlots \in SUBSET (1 .. Len(board)) /\ EffectiveSlots' \in SUBSET (1 .. m)
  BY <1>1 DEF EffectiveSlots
<1>2a. \A k : k \in 1 .. m <=> k \in 1 .. Len(board) \/ k = m
  BY <1>1
<1>2b. m \notin 1 .. Len(board)
  BY <1>1
<1>2c. \A k \in 1 .. Len(board) : k \in EffectiveSlots' <=> k \in EffectiveSlots
  BY <1>1
<1>3. NullifiersBefore(Len(board))' = NullifiersBefore(Len(board)) \union {tx.input_nullifier}
  <2>1. NullifiersBefore(Len(board))' = {board'[i].input_nullifier : i \in 1 .. m}
    BY <1>1 DEF NullifiersBefore
  <2> QED BY <1>1, <2>1 DEF NullifiersBefore
<1>4. PICK s \in SecretKeys : /\ tx.input_nullifier = nullifier(cn0, s)
                              /\ CoinOf(cn0).owner_pk = derive_pk[s]
  BY DEF NullifierInv, NullifiedByOwner
<1>5. CASE m \notin EffectiveSlots'
  <2>1. EffectiveSlots' = EffectiveSlots
    <3> HIDE DEF m
    <3> QED BY <1>2, <1>2a, <1>2c, <1>5
  <2>2. \A k \in EffectiveSlots : Outputs(k)' = Outputs(k)
    BY <1>1, <1>2
  <2> QED BY <1>3, <2>1, <2>2 DEF LiveCoins
<1>6. CASE m \in EffectiveSlots'
  <2>1. EffectiveSlots' = EffectiveSlots \union {m}
    <3> HIDE DEF m
    <3> QED BY <1>2, <1>2a, <1>2c, <1>6
  <2>2. \A k \in EffectiveSlots : Outputs(k)' = Outputs(k)
    BY <1>1, <1>2
  <2>3. \A k : k = m => Outputs(k)' = output_commitments(tx)
    BY <1>1 DEF Outputs, output_commitments
  <2>4. \A cn : (\E k \in EffectiveSlots' : cn \in Outputs(k)')
                 <=> (\E k \in EffectiveSlots : cn \in Outputs(k)) \/ cn \in output_commitments(tx)
    <3> HIDE DEF m
    <3> QED BY <2>1, <2>2, <2>3
  <2>5. LiveCoins' \in SUBSET (LiveCoins \union output_commitments(tx))
    <3> SUFFICES ASSUME NEW cn, cn \in LiveCoins', cn \notin output_commitments(tx)
                 PROVE  cn \in LiveCoins
      OBVIOUS
    <3>1. \E k \in EffectiveSlots' : cn \in Outputs(k)'
      BY DEF LiveCoins
    <3>2. \E k \in EffectiveSlots : cn \in Outputs(k)
      BY <2>4, <3>1
    <3> QED BY <1>3, <3>2 DEF LiveCoins
  <2>6. ASSUME CoinOf(cn0).owner_pk # genesis_pk
        PROVE  /\ cn0 \in LiveCoins
               /\ LiveCoins' \in SUBSET ((LiveCoins \ {cn0}) \union output_commitments(tx))
    <3>1. cn0 \notin LiveCoins'
      BY <1>3, <1>4 DEF LiveCoins
    <3>2. PICK j \in EffectiveSlots : cn0 \in Outputs(j)
      BY <2>6 DEF CustodyInv, CustodyWithin
    <3>3. tx.input_nullifier \notin NullifiersBefore(Len(board))
      <4>1. PICK n \in Nat : n = Len(board)
        BY <1>1
      <4>2. NullifiersBefore(n)' = NullifiersBefore(n)
        BY <4>1, GrowthKeepsSlots
      <4>3. \A k : k = m => (Effective(k)' <=> tx.input_nullifier \notin NullifiersBefore(n)')
        BY <1>1, <4>1 DEF Effective
      <4> QED BY <1>6, <4>1, <4>2, <4>3 DEF EffectiveSlots
    <3>4. \A sk \in SecretKeys : CoinOf(cn0).owner_pk = derive_pk[sk] =>
             nullifier(cn0, sk) \notin NullifiersBefore(Len(board))
      BY <1>4, <3>3 DEF KeysInjective
    <3>5. cn0 \in Commitments
      BY <3>2, <1>2, OutputsType DEF Outputs, TypeOK
    <3>6. cn0 \in LiveCoins
      BY <3>2, <3>4, <3>5 DEF LiveCoins
    <3> QED BY <2>5, <3>1, <3>6
  <2> QED BY <2>1, <2>5, <2>6
<1> QED BY <1>5, <1>6

(* Posting issues the new entry's coin if genesis owns it, and changes     *)
(* nothing about what earlier entries issued.                              *)
LEMMA GenesisInputsAfterPost ==
    ASSUME MaxInputs = 1, TypeOK, NEW tx \in pending, NEW cn0, Post(tx),
           cn0 = tx.input_commitments[1]
    PROVE  /\ \A k \in EffectiveSlots : GenesisInputs(k)' = GenesisInputs(k)
           /\ \A k : k = Len(board) + 1 => GenesisInputs(k)' =
                 IF CoinOf(cn0).owner_pk = genesis_pk THEN {cn0} ELSE {}
<1>1. /\ Len(board) \in Nat /\ Len(board') = Len(board) + 1 /\ board'[Len(board) + 1] = tx
      /\ \A k \in 1 .. Len(board) : board'[k] = board[k]
  BY GrowthKeepsSlots DEF TypeOK
<1>2. tx \in Transactions /\ DOMAIN tx.input_commitments = {1}
  BY DEF TypeOK, Transactions
<1>3. \A k \in EffectiveSlots : Inputs(k)' = Inputs(k)
  BY <1>1 DEF EffectiveSlots, Inputs
<1>4. \A k : k = Len(board) + 1 => Inputs(k)' = {cn0}
  BY <1>1, <1>2 DEF Inputs
<1> QED BY <1>3, <1>4 DEF GenesisInputs

(* Posting keeps the live coins worth no more than what was issued.        *)
LEMMA LiveStepPost ==
    ASSUME MaxInputs = 1, KeysInjective, TypeOK, TypeOK', NullifierInv, CustodyInv, BalanceInv,
           LiveInv, NEW tx \in pending, Post(tx)
    PROVE  LiveInv'
<1>1. PICK cn0 : cn0 = tx.input_commitments[1]
  OBVIOUS
<1>2. PICK live, next : live = LiveCoins /\ next = LiveCoins'
  OBVIOUS
<1>3. /\ SumOf(worth, live) <= Issued
      /\ live \in SUBSET Commitments /\ IsFiniteSet(live)
  BY <1>2, LiveWorth DEF LiveInv
<1>4. /\ CoinsWorth(LiveCoins)' = SumOf(worth, next)
      /\ next \in SUBSET Commitments /\ IsFiniteSet(next)
  BY <1>2, LiveWorthNext
<1> DEFINE O == output_commitments(tx)
<1>5. tx \in Transactions /\ Balanced(tx)
  BY DEF TypeOK, BalanceInv
<1>6. /\ cn0 \in Commitments /\ SumOf(worth, O) <= worth[cn0]
      /\ O \in SUBSET Commitments /\ IsFiniteSet(O)
  BY <1>1, <1>5, SingleInputWorth, OutputsType
<1>7. /\ \A k \in EffectiveSlots : GenesisInputs(k)' = GenesisInputs(k)
      /\ \A k : k = Len(board) + 1 => GenesisInputs(k)' =
            IF CoinOf(cn0).owner_pk = genesis_pk THEN {cn0} ELSE {}
  BY <1>1, GenesisInputsAfterPost
<1>8. worth[cn0] \in Nat /\ SumOf(worth, O) \in Nat /\ SumOf(worth, live) \in Nat
        /\ SumOf(worth, next) \in Nat
  BY <1>3, <1>4, <1>6, WorthNat, SumNat
<1>8a. Issued \in Nat
  BY IssuedNat
<1>9. CASE EffectiveSlots' = EffectiveSlots /\ LiveCoins' \in SUBSET LiveCoins
  <2>1. Issued' = Issued
    BY <1>7, <1>9, IssuedKept
  <2>2. SumOf(worth, next) <= SumOf(worth, live)
    BY <1>2, <1>3, <1>9, WorthNat, SumSubset
  <2> QED BY <1>3, <1>4, <1>8, <1>8a, <2>1, <2>2 DEF LiveInv
<1>10. CASE /\ EffectiveSlots' = EffectiveSlots \union {Len(board) + 1}
            /\ LiveCoins' \in SUBSET (LiveCoins \union output_commitments(tx))
            /\ CoinOf(cn0).owner_pk # genesis_pk =>
                  /\ cn0 \in LiveCoins
                  /\ LiveCoins' \in SUBSET ((LiveCoins \ {cn0}) \union output_commitments(tx))
  <2>1. PICK m : m = Len(board) + 1
    OBVIOUS
  <2>2. m \notin EffectiveSlots
    BY <2>1 DEF EffectiveSlots, TypeOK
  <2>3. CASE CoinOf(cn0).owner_pk = genesis_pk
    <3>1. GenesisInputs(m)' = {cn0}
      BY <1>7, <2>1, <2>3
    <3>2. Issued' = Issued + CoinsWorth({cn0})
      BY <1>7, <1>10, <2>1, <2>2, <3>1, IssuedGrows
    <3>3. CoinsWorth({cn0}) = worth[cn0]
      BY <1>6, <1>8, FS_Singleton, CoinsWorthSum, SumSingleton
    <3>4. SumOf(worth, next) <= SumOf(worth, live \union O)
      BY <1>2, <1>3, <1>6, <1>10, WorthNat, FS_Union, SumSubset
    <3>5. SumOf(worth, live \union O) <= SumOf(worth, live) + SumOf(worth, O)
      BY <1>3, <1>6, WorthNat, SumUnionBound
    <3>6. SumOf(worth, live \union O) \in Int
      <4>1. \A y \in live \union O : worth[y] \in Nat
        BY <1>3, <1>6, WorthNat
      <4>2. IsFiniteSet(live \union O)
        BY <1>3, <1>6, FS_Union
      <4> QED BY <4>1, <4>2, SumNat
    <3> HIDE DEF O
    <3> QED BY <1>3, <1>4, <1>6, <1>8, <1>8a, <3>2, <3>3, <3>4, <3>5, <3>6 DEF LiveInv
  <2>4. CASE CoinOf(cn0).owner_pk # genesis_pk
    <3>1. GenesisInputs(m)' = {}
      BY <1>7, <2>1, <2>4
    <3>2. Issued' = Issued + CoinsWorth({})
      BY <1>7, <1>10, <2>1, <2>2, <3>1, IssuedGrows
    <3>3. CoinsWorth({}) = 0
      BY FS_EmptySet, CoinsWorthSum, SumEmpty
    <3> DEFINE rest == live \ {cn0}
    <3>4. rest \in SUBSET Commitments /\ IsFiniteSet(rest) /\ next \in SUBSET (rest \union O)
      BY <1>2, <1>3, <1>10, <2>4, FS_RemoveElement
    <3>5. SumOf(worth, live) = worth[cn0] + SumOf(worth, rest)
      <4>1. \A y \in live : worth[y] \in Int
        BY <1>3, WorthNat
      <4>2. cn0 \in live
        BY <1>2, <1>10, <2>4
      <4> QED BY <1>3, <4>1, <4>2, SumRemove
    <3> HIDE DEF O, rest
    <3>6. SumOf(worth, rest \union O) <= SumOf(worth, rest) + SumOf(worth, O)
      BY <1>6, <3>4, WorthNat, SumUnionBound
    <3>7. IsFiniteSet(rest \union O) /\ rest \union O \in SUBSET Commitments
      BY <1>6, <3>4, FS_Union
    <3>8. SumOf(worth, rest \union O) \in Int /\ SumOf(worth, rest) \in Int
      BY <3>4, <3>7, WorthNat, SumNat
    <3>9. SumOf(worth, next) <= SumOf(worth, rest \union O)
      BY <3>4, <3>7, WorthNat, SumSubset
    <3> QED BY <1>3, <1>4, <1>6, <1>8, <1>8a, <3>2, <3>3, <3>5, <3>6, <3>8, <3>9 DEF LiveInv
  <2> QED BY <2>3, <2>4
<1> QED BY <1>1, <1>9, <1>10, LiveAfterPost

(* LiveInv is inductive.                                                   *)
LEMMA LiveStep ==
    ASSUME MaxInputs = 1, KeysInjective, TypeOK, TypeOK', NullifierInv, CustodyInv, BalanceInv,
           LiveInv, [Next]_vars
    PROVE  LiveInv'
<1>1. ASSUME NEW tx \in pending, Post(tx) PROVE LiveInv'
  BY <1>1, LiveStepPost
<1>2. ASSUME board' = board PROVE LiveInv'
  <2>1. \A k : /\ Outputs(k)' = Outputs(k) /\ GenesisInputs(k)' = GenesisInputs(k)
               /\ (Effective(k)' <=> Effective(k))
    BY <1>2 DEF Outputs, GenesisInputs, Inputs, Effective, NullifiersBefore
  <2>2. EffectiveSlots' = EffectiveSlots
    BY <1>2, <2>1 DEF EffectiveSlots
  <2>3. NullifiersBefore(Len(board))' = NullifiersBefore(Len(board))
    BY <1>2 DEF NullifiersBefore
  <2>4. LiveCoins' = LiveCoins
    BY <2>1, <2>2, <2>3 DEF LiveCoins
  <2>5. Issued' = Issued
    BY <2>1, <2>2, IssuedKept
  <2>6. CoinsWorth(LiveCoins)' = CoinsWorth(LiveCoins)
    BY <2>4, LiveWorth, LiveWorthNext
  <2> QED BY <2>5, <2>6 DEF LiveInv
<1> QED BY <1>1, <1>2 DEF Next, ProveSpend, ProcessSlot, vars

(* What a host can spend is live, and its own.                             *)
LEMMA SpendableIsLive ==
    ASSUME KeysInjective, TypeOK, WalletInv, NEW sk \in SecretKeys
    PROVE  /\ Spendable(sk) \in SUBSET LiveCoins
           /\ \A cn \in Spendable(sk) : CoinOf(cn).owner_pk = derive_pk[sk]
<1> SUFFICES ASSUME NEW cn \in Spendable(sk)
             PROVE  cn \in LiveCoins /\ CoinOf(cn).owner_pk = derive_pk[sk]
  OBVIOUS
<1>1. cn \in CreatedFor(sk, scanned[sk])
  BY DEF Spendable, WalletInv, WalletExact
<1>2. PICK k \in EffectiveSlots : cn \in OwnOutputs(sk, board[k])
  BY <1>1 DEF CreatedFor
<1>3. CoinOf(cn).owner_pk = derive_pk[sk] /\ cn \in Outputs(k)
  BY <1>2 DEF OwnOutputs, Outputs
<1>4. cn \in Commitments
  BY <1>3, OutputsType DEF Outputs, EffectiveSlots, TypeOK
<1>5. nullifier(cn, sk) \notin NullifiersBefore(Len(board))
  BY DEF Spendable
<1> QED BY <1>3, <1>4, <1>5 DEF LiveCoins, KeysInjective

(* No two hosts track one coin, so together they can spend at most what is *)
(* live.                                                                   *)
LEMMA LiveImpliesNoInflation ==
    ASSUME KeysInjective, TypeOK, WalletInv, LiveInv
    PROVE  NoInflation
<1> DEFINE F == [sk \in SecretKeys |-> Spendable(sk)]
           w == [sk \in SecretKeys |-> CoinsWorth(Spendable(sk))]
           All == UNION {F[sk] : sk \in SecretKeys}
<1>1. LiveCoins \in SUBSET Commitments /\ IsFiniteSet(LiveCoins)
  BY LiveType
<1>2. CoinsWorth(LiveCoins) = SumOf(worth, LiveCoins)
  BY <1>1, CoinsWorthSum
<1>3. ASSUME NEW sk \in SecretKeys
      PROVE  /\ IsFiniteSet(F[sk]) /\ F[sk] \in SUBSET LiveCoins
             /\ w[sk] = SumOf(worth, F[sk])
             /\ \A cn \in F[sk] : worth[cn] \in Int /\ CoinOf(cn).owner_pk = derive_pk[sk]
  <2>1. Spendable(sk) \in SUBSET LiveCoins
    BY SpendableIsLive
  <2>2. Spendable(sk) \in SUBSET Commitments /\ IsFiniteSet(Spendable(sk))
    BY <1>1, <2>1, FS_Subset
  <2>3. CoinsWorth(Spendable(sk)) = SumOf(worth, Spendable(sk))
    BY <2>2, CoinsWorthSum
  <2> QED BY <2>1, <2>2, <2>3, SpendableIsLive, WorthNat
<1>4. SpendableWorth = SumOf(w, SecretKeys)
  BY SpendableWorthSum
<1> HIDE DEF F, w
<1>5. \A a, b \in SecretKeys : a # b => F[a] \intersect F[b] = {}
  BY <1>3 DEF KeysInjective
<1>6. SumOf(w, SecretKeys) = SumOf(worth, All)
  BY <1>3, <1>5, KeysAssumption, SumFamily
<1>7. All \in SUBSET LiveCoins
  BY <1>3
<1>8. \A cn \in LiveCoins : worth[cn] \in Nat
  BY <1>1, WorthNat
<1> HIDE DEF All
<1>9. SumOf(worth, All) <= SumOf(worth, LiveCoins)
  BY <1>1, <1>7, <1>8, SumSubset
<1>10. SumOf(worth, All) \in Nat /\ SumOf(worth, LiveCoins) \in Nat /\ Issued \in Nat
  BY <1>1, <1>7, <1>8, SumNat, IssuedNat
<1> QED BY <1>2, <1>4, <1>6, <1>9, <1>10 DEF NoInflation, LiveInv

(* The invariants hold of the empty board.                                 *)
LEMMA InitHolds ==
    Init => TypeOK /\ NullifierInv /\ WalletInv /\ CustodyInv /\ BalanceInv
<1> SUFFICES ASSUME Init
             PROVE  TypeOK /\ NullifierInv /\ WalletInv /\ CustodyInv /\ BalanceInv
  OBVIOUS
<1>1. TypeOK /\ NullifierInv /\ CustodyInv /\ BalanceInv
  BY BoundsAssumption DEF Init, TypeOK, NullifierInv, CustodyInv, BalanceInv
<1>2. \A sk \in SecretKeys : tracked(sk) = {} /\ CreatedFor(sk, scanned[sk]) = {}
  BY DEF Init, tracked, CreatedFor, EffectiveSlots
<1> QED BY <1>1, <1>2 DEF Init, WalletInv, WalletExact, PanicOnlyOnDoubleSpend

(* NoInflation: with single-input transactions, one secret key per public  *)
(* key and totals that do not wrap, what all wallets together can spend    *)
(* never exceeds what genesis issued, whatever the hosts, the transfers,   *)
(* the races between proofs and the length of the board.                   *)
THEOREM ValueIsNeverMinted ==
    ASSUME MaxInputs = 1, KeysInjective, NoWrap
    PROVE  Spec => []NoInflation
<1> DEFINE Inv == TypeOK /\ NullifierInv /\ WalletInv /\ CustodyInv /\ BalanceInv /\ LiveInv
<1>1. Init => Inv
  <2> SUFFICES ASSUME Init PROVE Inv
    OBVIOUS
  <2>1. LiveCoins = {}
    BY DEF Init, LiveCoins, EffectiveSlots
  <2>2. CoinsWorth(LiveCoins) = 0
    BY <2>1, FS_EmptySet, CoinsWorthSum, SumEmpty
  <2>3. LiveInv
    BY <2>2, InitHolds, IssuedNat DEF LiveInv
  <2> QED BY <2>3, InitHolds
<1>2. Inv /\ [Next]_vars => Inv'
  BY TypeStep, NullifierStep, WalletStep, CustodyStep, BalanceStep, LiveStep
<1>3. Inv => NoInflation
  BY LiveImpliesNoInflation
<1> HIDE DEF Inv
<1> QED BY <1>1, <1>2, <1>3, PTL DEF Spec

-----------------------------------------------------------------------------
(* What each coin is worth, for the coin book.                             *)
face == [c \in Coins |-> c.value]

(* The book's Worth is the sum of that table.                              *)
LEMMA BookWorthSum ==
    ASSUME NEW S \in SUBSET Coins, IsFiniteSet(S)
    PROVE  Book!Worth(S) = SumOf(face, S)
<1> DEFINE Body(g) ==
      g = [s \in SUBSET S |-> IF s = {} THEN 0 ELSE pick(s).value + g[s \ {pick(s)}]]
           t == CHOOSE g : Body(g)
<1>1. \A g : IsSumTable(g, face, S) <=> Body(g)
  <2> TAKE g
  <2>1. \A s \in SUBSET S : s # {} => face[pick(s)] = pick(s).value
    BY PickIn DEF face
  <2> QED BY <2>1 DEF IsSumTable
<1>2. Book!Worth(S) = t[S]
  BY DEF Book!Worth, Book!MapThenSumSet, Book!MapThenFoldSet, pick
<1> HIDE DEF Body
<1>3. Body(t)
  BY <1>1, SumTableExists, Zenon
<1> QED BY <1>1, <1>2, <1>3, SumChosen

(* The book's created coins.                                               *)
CreatedCoins == {CoinOf(cn) : cn \in UNION {Outputs(k) : k \in EffectiveSlots}}
(* The book's spent coins.                                                 *)
SpentCoins == {CoinOf(cn) : cn \in UNION {Inputs(k) : k \in EffectiveSlots}}

(* The coins of a balanced single-input transaction are coins of the book, *)
(* and those it makes are worth no more than the one it spends.            *)
LEMMA FaceOfSpend ==
    ASSUME MaxInputs = 1, NEW tx \in Transactions, NEW ins, NEW paid, Balanced(tx),
           ins = {CoinOf(tx.input_commitments[1])},
           paid = {tx.outputs[i] : i \in DOMAIN tx.outputs}
    PROVE  /\ ins \in (SUBSET Coins) \ {{}} /\ paid \in (SUBSET Coins) \ {{}}
           /\ Book!Worth(paid) <= Book!Worth(ins)
<1> DEFINE c0 == CoinOf(tx.input_commitments[1])
           D == DOMAIN tx.outputs
           outs == {tx.outputs[i] : i \in D}
           w == values(tx.outputs)
           v == [i \in DOMAIN tx.input_commitments |-> CoinOf(tx.input_commitments[i]).value]
           f == tx.outputs
<1>1. PICK m \in 1 .. MaxOutputs : tx.outputs \in [1 .. m -> Coins]
  BY DEF Transactions, CoinLists
<1>2. IsFiniteSet(D) /\ D # {}
  <2>1. D = 1 .. m /\ 1 \in 1 .. m
    BY <1>1
  <2>2. IsFiniteSet(1 .. m)
    BY FS_Interval
  <2> QED BY <2>1, <2>2
<1>3. \A i \in D : face[f[i]] \in Nat /\ w[i] = face[f[i]]
  BY <1>1, CoinsAssumption DEF face, values
<1>4. outs \in (SUBSET Coins) \ {{}}
  BY <1>1, <1>2
<1>5. IntegerTotal(w) = SumOf(w, D)
  BY DEF IntegerTotal, SumOf, values
<1>6. c0 \in Coins /\ DOMAIN tx.input_commitments = {1}
  BY DEF Transactions, Commitments, commitment, CoinOf
<1>7. DOMAIN v = {1} /\ v[1] = face[c0] /\ face[c0] \in Nat
  BY <1>6, CoinsAssumption DEF face
<1>8. IntegerTotal(v) = SumOf(v, DOMAIN v)
  BY DEF IntegerTotal, SumOf
<1>9. IntegerTotal(v) = IntegerTotal(w)
  BY DEF Balanced
<1>10. outs = {f[i] : i \in D}
  OBVIOUS
<1> HIDE DEF c0, D, outs, w, v, f
<1>11. SumOf(v, {1}) = v[1]
  BY <1>7, SumSingleton
<1>12. SumOf(face, {f[i] : i \in D}) <= SumOf(w, D)
  BY <1>2, <1>3, SumImage
<1>13. IsFiniteSet(outs)
  BY <1>2, <1>10, FiniteImage
<1>14. Book!Worth(outs) = SumOf(face, outs)
  BY <1>4, <1>13, BookWorthSum
<1>15. Book!Worth({c0}) = SumOf(face, {c0}) /\ SumOf(face, {c0}) = face[c0]
  <2>1. {c0} \in SUBSET Coins /\ IsFiniteSet({c0})
    BY <1>6, FS_Singleton
  <2>2. SumOf(face, {c0}) = face[c0]
    BY <1>7, SumSingleton
  <2>3. Book!Worth({c0}) = SumOf(face, {c0})
    BY <2>1, BookWorthSum
  <2> QED BY <2>2, <2>3
<1>16. Book!Worth(outs) <= Book!Worth({c0})
  BY <1>5, <1>7, <1>8, <1>9, <1>10, <1>11, <1>12, <1>14, <1>15
<1>17. {c0} \in (SUBSET Coins) \ {{}}
  BY <1>6
<1>18. ins = {c0} /\ paid = outs
  BY DEF c0, outs, D
<1> QED BY <1>4, <1>16, <1>17, <1>18

(* Posting an entry is a spend of the coin book if it takes effect and a   *)
(* stutter if it does not.                                                 *)
LEMMA PostIsSpend ==
    ASSUME MaxInputs = 1, KeysInjective, TypeOK, NullifierInv, CustodyInv, BalanceInv,
           NEW tx \in pending, Post(tx)
    PROVE  [Book!Next]_(Book!vars)
<1> DEFINE m == Len(board) + 1
           cn0 == tx.input_commitments[1]
           ins == {CoinOf(cn0)}
           outs == {tx.outputs[i] : i \in DOMAIN tx.outputs}
<1>1. /\ Len(board) \in Nat /\ Len(board') = m /\ board'[m] = tx
      /\ \A k \in 1 .. Len(board) : board'[k] = board[k]
  BY GrowthKeepsSlots DEF TypeOK
<1>2. \A k \in 1 .. Len(board) : /\ Outputs(k)' = Outputs(k) /\ Inputs(k)' = Inputs(k)
                                 /\ k \in EffectiveSlots' <=> k \in EffectiveSlots
  BY <1>1, GrowthKeepsSlots DEF Inputs
<1>3. EffectiveSlots \in SUBSET (1 .. Len(board)) /\ EffectiveSlots' \in SUBSET (1 .. m)
  BY <1>1 DEF EffectiveSlots
<1>4. \A k : k \in 1 .. m <=> k \in 1 .. Len(board) \/ k = m
  BY <1>1
<1>5. tx \in Transactions /\ DOMAIN tx.input_commitments = {1}
  BY DEF TypeOK, Transactions
<1>6. /\ \A k : k = m => Outputs(k)' = output_commitments(tx)
      /\ \A k : k = m => Inputs(k)' = {cn0}
  BY <1>1, <1>5 DEF Outputs, Inputs, output_commitments
<1> HIDE DEF m
<1>7. CASE m \notin EffectiveSlots'
  <2>1. EffectiveSlots' = EffectiveSlots
    BY <1>2, <1>3, <1>4, <1>7
  <2>2. \A k \in EffectiveSlots : Outputs(k)' = Outputs(k) /\ Inputs(k)' = Inputs(k)
    BY <1>2, <1>3
  <2> QED BY <2>1, <2>2 DEF Book!vars
<1>8. CASE m \in EffectiveSlots'
  <2>1. EffectiveSlots' = EffectiveSlots \union {m}
    BY <1>2, <1>3, <1>4, <1>8
  <2>2. \A k \in EffectiveSlots : Outputs(k)' = Outputs(k) /\ Inputs(k)' = Inputs(k)
    BY <1>2, <1>3
  <2>3. {CoinOf(cn) : cn \in output_commitments(tx)} = outs
    <3>1. \A i \in DOMAIN tx.outputs : CoinOf(commitment(tx.outputs[i])) = tx.outputs[i]
      BY DEF commitment, CoinOf
    <3> QED BY <3>1 DEF output_commitments
  <2>4. CreatedCoins' = CreatedCoins \union outs
    <3>1. \A cn : (\E k \in EffectiveSlots' : cn \in Outputs(k)')
                    <=> (\E k \in EffectiveSlots : cn \in Outputs(k)) \/ cn \in output_commitments(tx)
      BY <1>6, <2>1, <2>2
    <3> HIDE DEF outs
    <3> QED BY <2>3, <3>1 DEF CreatedCoins
  <2>5. SpentCoins' = SpentCoins \union ins
    <3>1. \A cn : (\E k \in EffectiveSlots' : cn \in Inputs(k)')
                    <=> (\E k \in EffectiveSlots : cn \in Inputs(k)) \/ cn = cn0
      BY <1>6, <2>1, <2>2
    <3> HIDE DEF cn0
    <3> QED BY <3>1 DEF SpentCoins
  <2>6. ins \subseteq {c \in Coins : c.owner_pk = genesis_pk} \union CreatedCoins
    <3>1. CoinOf(cn0) \in Coins
      BY <1>5 DEF Transactions, Commitments, commitment, CoinOf
    <3> QED BY <3>1 DEF CustodyInv, CustodyWithin, CreatedCoins
  <2>7. CoinOf(cn0) \notin SpentCoins
    <3> SUFFICES ASSUME NEW k \in EffectiveSlots, NEW cn \in Inputs(k), CoinOf(cn) = CoinOf(cn0)
                 PROVE  FALSE
      BY DEF SpentCoins
    <3>1. k \in 1 .. Len(board) /\ board[k] \in Transactions
      BY <1>3 DEF TypeOK
    <3>2. cn = board[k].input_commitments[1] /\ cn \in Commitments /\ cn0 \in Commitments
      BY <1>5, <3>1 DEF Inputs, Transactions
    <3>3. cn = cn0
      BY <3>2 DEF Commitments, commitment, CoinOf
    <3>4. PICK a \in SecretKeys : /\ tx.input_nullifier = nullifier(cn0, a)
                                  /\ CoinOf(cn0).owner_pk = derive_pk[a]
      BY DEF NullifierInv, NullifiedByOwner
    <3>5. PICK b \in SecretKeys : /\ board[k].input_nullifier = nullifier(cn, b)
                                  /\ CoinOf(cn).owner_pk = derive_pk[b]
      BY <3>1, <3>2 DEF NullifierInv, NullifiedByOwner
    <3>6. tx.input_nullifier = board[k].input_nullifier
      BY <3>3, <3>4, <3>5 DEF KeysInjective
    <3>7. PICK n \in Nat : n = Len(board)
      BY <1>1
    <3>8. tx.input_nullifier \notin NullifiersBefore(n)
      <4>1. NullifiersBefore(n)' = NullifiersBefore(n)
        BY <3>7, GrowthKeepsSlots
      <4>2. \A j : j = m => (Effective(j)' <=> tx.input_nullifier \notin NullifiersBefore(n)')
        BY <1>1, <3>7 DEF Effective, m
      <4> QED BY <1>8, <4>1, <4>2 DEF EffectiveSlots
    <3> QED BY <3>1, <3>6, <3>7, <3>8 DEF NullifiersBefore
  <2>8. /\ ins \in (SUBSET Coins) \ {{}} /\ outs \in (SUBSET Coins) \ {{}}
        /\ Book!Worth(outs) <= Book!Worth(ins)
    <3>1. Balanced(tx)
      BY DEF BalanceInv
    <3> QED BY <1>5, <3>1, FaceOfSpend
  <2> HIDE DEF outs, ins
  <2>9. Book!Spend(ins, outs)
    <3>1. ins \subseteq ({c \in Coins : c.owner_pk = genesis_pk} \union CreatedCoins) \ SpentCoins
      BY <2>6, <2>7 DEF ins
    <3> QED BY <2>4, <2>5, <2>8, <3>1 DEF Book!Spend, CreatedCoins, SpentCoins
  <2> QED BY <2>8, <2>9 DEF Book!Next
<1> QED BY <1>7, <1>8

(* ImplementsCoinBook: the board, with all its races and double spends,    *)
(* refines a book in which a coin is issued by genesis or created by a     *)
(* spend, is spent once, and no spend creates more than it spends.         *)
THEOREM LedgerImplementsCoinBook ==
    ASSUME MaxInputs = 1, KeysInjective, NoWrap
    PROVE  Spec => ImplementsCoinBook
<1> DEFINE Inv == TypeOK /\ NullifierInv /\ WalletInv /\ CustodyInv /\ BalanceInv
<1>1. Init => Inv
  BY InitHolds
<1>2. Inv /\ [Next]_vars => Inv'
  BY TypeStep, NullifierStep, WalletStep, CustodyStep, BalanceStep
<1>3. Init => Book!Init
  BY DEF Init, Book!Init, EffectiveSlots
<1>4. Inv /\ [Next]_vars => [Book!Next]_(Book!vars)
  <2> SUFFICES ASSUME Inv, [Next]_vars PROVE [Book!Next]_(Book!vars)
    OBVIOUS
  <2>1. ASSUME NEW tx \in pending, Post(tx) PROVE [Book!Next]_(Book!vars)
    BY <2>1, PostIsSpend
  <2>2. ASSUME board' = board PROVE [Book!Next]_(Book!vars)
    <3>1. \A k : /\ Outputs(k)' = Outputs(k) /\ Inputs(k)' = Inputs(k)
                 /\ (Effective(k)' <=> Effective(k))
      BY <2>2 DEF Outputs, Inputs, Effective, NullifiersBefore
    <3>2. EffectiveSlots' = EffectiveSlots
      BY <2>2, <3>1 DEF EffectiveSlots
    <3> QED BY <3>1, <3>2 DEF Book!vars
  <2> QED BY <2>1, <2>2 DEF Next, ProveSpend, ProcessSlot, vars
<1> HIDE DEF Inv
<1> QED BY <1>1, <1>2, <1>3, <1>4, PTL DEF Spec, ImplementsCoinBook, Book!Spec
=============================================================================
