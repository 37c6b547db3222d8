---------------------------- MODULE DriverProofs ----------------------------
(***************************************************************************)
(* The host driver of Driver.tla for every script, list of wallets and     *)
(* depth of the trees.  What the child proves is kept in the invariant as  *)
(* the outcome of the guest it runs, for as long as the answer is pending; *)
(* what is on the board does not change when the board grows.  Then the    *)
(* transfers themselves are judged: a run panics over the first one that   *)
(* does not pay, and over no other.  At the end the driver is shown to     *)
(* implement Ledger.                                                       *)
(***************************************************************************)
EXTENDS Driver, TreeProofs, SequenceTheorems

(* The accumulator after the nullifiers of the first n of es: what replay  *)
(* computes of the board, for any sequence of entries.                     *)
Chain(es, n) ==
    LET tree[i \in 0 .. n] == IF i = 0 THEN new ELSE insert(tree[i - 1], es[i].nullifier)
    IN  tree[n]

(* The recursive function in replay: g is the accumulator after each of    *)
(* the first n entries.                                                    *)
IsTable(g, es, n) ==
    g = [i \in 0 .. n |-> IF i = 0 THEN new ELSE insert(g[i - 1], es[i].nullifier)]

(* replay is the chain of the board's own entries.                         *)
LEMMA ReplayIsChain == \A n : replay(n) = Chain(entries, n)
BY DEF replay, Chain

(* A table of the accumulators after each entry exists for any number of   *)
(* entries.                                                                *)
LEMMA TableExists ==
    ASSUME NEW es, NEW n \in Nat
    PROVE  \E g : IsTable(g, es, n)
<1> DEFINE S == {m \in Nat : \E g : IsTable(g, es, m)}
<1>1. 0 \in S
  <2> DEFINE g == [i \in 0 .. 0 |-> new]
  <2>1. IsTable(g, es, 0)
    BY DEF IsTable
  <2> QED BY <2>1
<1>2. ASSUME NEW m \in Nat, m \in S PROVE m + 1 \in S
  <2>1. PICK g : IsTable(g, es, m)
    BY <1>2
  <2> DEFINE h == [i \in 0 .. m + 1 |-> IF i <= m THEN g[i] ELSE insert(g[m], es[m + 1].nullifier)]
  <2>2. IsTable(h, es, m + 1)
    <3>1. ASSUME NEW i \in 0 .. m + 1
          PROVE  h[i] = IF i = 0 THEN new ELSE insert(h[i - 1], es[i].nullifier)
      BY <2>1 DEF IsTable
    <3> QED BY <3>1 DEF IsTable
  <2>3. m + 1 \in Nat
    OBVIOUS
  <2> HIDE DEF h
  <2> QED BY <2>2, <2>3
<1> HIDE DEF S
<1>3. Nat \subseteq S
  BY <1>1, <1>2, NatSetInduction
<1> QED BY <1>3 DEF S

(* The value replay chooses is the last one of such a table.               *)
LEMMA ChainIsTable ==
    ASSUME NEW es, NEW n \in Nat
    PROVE  \E g : IsTable(g, es, n) /\ Chain(es, n) = g[n]
<1>1. \E g : g = [i \in 0 .. n |-> IF i = 0 THEN new ELSE insert(g[i - 1], es[i].nullifier)]
  BY TableExists DEF IsTable
<1> DEFINE t == CHOOSE g : g = [i \in 0 .. n |-> IF i = 0 THEN new ELSE insert(g[i - 1], es[i].nullifier)]
<1>2. t = [i \in 0 .. n |-> IF i = 0 THEN new ELSE insert(t[i - 1], es[i].nullifier)]
  BY <1>1, Zenon
<1>3. Chain(es, n) = t[n]
  BY DEF Chain
<1> HIDE DEF t
<1> QED BY <1>2, <1>3 DEF IsTable

(* Entries that agree have tables that agree.                              *)
LEMMA TablesAgree ==
    ASSUME NEW es, NEW fs, NEW n \in Nat, NEW m \in Nat, NEW g, NEW h,
           n <= m, IsTable(g, es, n), IsTable(h, fs, m),
           \A i \in 1 .. n : es[i] = fs[i]
    PROVE  \A i \in 0 .. n : g[i] = h[i]
<1> DEFINE S == {i \in Nat : i <= n => g[i] = h[i]}
<1>1. 0 \in S
  BY DEF IsTable
<1>2. ASSUME NEW i \in Nat, i \in S PROVE i + 1 \in S
  <2> SUFFICES ASSUME i + 1 <= n PROVE g[i + 1] = h[i + 1]
    OBVIOUS
  <2>1. g[i] = h[i] /\ es[i + 1] = fs[i + 1]
    BY <1>2
  <2>2. g[i + 1] = insert(g[i], es[i + 1].nullifier)
    BY DEF IsTable
  <2>3. h[i + 1] = insert(h[i], fs[i + 1].nullifier)
    BY DEF IsTable
  <2> QED BY <2>1, <2>2, <2>3
<1> HIDE DEF S
<1>3. Nat \subseteq S
  BY <1>1, <1>2, NatSetInduction
<1> QED BY <1>3 DEF S

(* replay starts from new, inserts one nullifier per entry, and looks at   *)
(* nothing but the entries it is of.                                       *)
LEMMA ChainFacts ==
    ASSUME NEW es, NEW n \in Nat
    PROVE  /\ Chain(es, 0) = new
           /\ Chain(es, n + 1) = insert(Chain(es, n), es[n + 1].nullifier)
           /\ \A fs : (\A i \in 1 .. n : es[i] = fs[i]) => Chain(es, n) = Chain(fs, n)
<1>1. Chain(es, 0) = new
  <2>1. PICK g : IsTable(g, es, 0) /\ Chain(es, 0) = g[0]
    BY ChainIsTable
  <2> QED BY <2>1 DEF IsTable
<1>2. Chain(es, n + 1) = insert(Chain(es, n), es[n + 1].nullifier)
  <2>1. PICK g : IsTable(g, es, n) /\ Chain(es, n) = g[n]
    BY ChainIsTable
  <2>2. PICK m \in Nat : m = n + 1
    OBVIOUS
  <2>3. PICK h : IsTable(h, es, m) /\ Chain(es, m) = h[m]
    BY ChainIsTable
  <2>4. g[n] = h[n]
    <3> PICK fs : fs = es
      OBVIOUS
    <3>1. n <= m /\ \A i \in 1 .. n : es[i] = fs[i]
      BY <2>2
    <3>2. IsTable(g, es, n) /\ IsTable(h, fs, m)
      BY <2>1, <2>3
    <3>3. \A i \in 0 .. n : g[i] = h[i]
      BY <3>1, <3>2, TablesAgree
    <3> QED BY <3>3
  <2>5. h[m] = insert(h[n], es[m].nullifier)
    BY <2>2, <2>3 DEF IsTable
  <2> QED BY <2>1, <2>2, <2>3, <2>4, <2>5
<1>3. ASSUME NEW fs, \A i \in 1 .. n : es[i] = fs[i] PROVE Chain(es, n) = Chain(fs, n)
  <2>1. PICK g : IsTable(g, es, n) /\ Chain(es, n) = g[n]
    BY ChainIsTable
  <2>2. PICK h : IsTable(h, fs, n) /\ Chain(fs, n) = h[n]
    BY ChainIsTable
  <2>3. g[n] = h[n]
    <3>1. n <= n
      OBVIOUS
    <3>2. \A i \in 0 .. n : g[i] = h[i]
      BY <1>3, <2>1, <2>2, <3>1, TablesAgree
    <3> QED BY <3>2
  <2> QED BY <2>1, <2>2, <2>3
<1> QED BY <1>1, <1>2, <1>3

(* Three sequences one after the other, element by element.                *)
LEMMA ItemsInOrder ==
    ASSUME NEW S, NEW h \in Seq(S), NEW b \in Seq(S), NEW t \in Seq(S)
    PROVE  /\ \A i \in 1 .. Len(h) : (h \o b \o t)[i] = h[i]
           /\ \A i \in 1 .. Len(b) : (h \o b \o t)[Len(h) + i] = b[i]
           /\ \A i \in 1 .. Len(t) : (h \o b \o t)[Len(h) + Len(b) + i] = t[i]
<1>1. /\ h \o b \in Seq(S) /\ Len(h \o b) = Len(h) + Len(b)
      /\ \A i \in 1 .. Len(h) + Len(b) : (h \o b)[i] = IF i <= Len(h) THEN h[i] ELSE b[i - Len(h)]
  BY ConcatProperties
<1>2. \A i \in 1 .. Len(h \o b) + Len(t) :
          (h \o b \o t)[i] = IF i <= Len(h \o b) THEN (h \o b)[i] ELSE t[i - Len(h \o b)]
  BY <1>1, ConcatProperties
<1>3. Len(h) \in Nat /\ Len(b) \in Nat /\ Len(t) \in Nat
  BY LenProperties
<1> QED BY <1>1, <1>2, <1>3

(* What the spend guest reads is what build_spend_stdin wrote.             *)
LEMMA SpendReads ==
    ASSUME NEW sk, NEW cn, NEW position, NEW path, NEW tx, NEW inputs, NEW outputs,
           NEW coin_proof, NEW witness, NEW nullifier_root
    PROVE  LET items == build_spend_stdin(sk, cn, position, path, tx, inputs, outputs,
                                          coin_proof, witness, nullifier_root).items
               rest == IF items[11] THEN 12 ELSE 13
           IN  /\ items[1] = Vkey("spend") /\ items[2] = Vkey("coinproof")
               /\ items[3] = sk /\ items[4] = pk_of(sk) /\ items[5] = cn
               /\ items[6] = position /\ items[7] = path /\ items[8] = tx
               /\ items[9] = inputs /\ items[10] = outputs
               /\ items[11] = (coin_proof = {})
               /\ \A cp : coin_proof = {cp} => items[12] = cp
               /\ items[rest] = witness /\ items[rest + 1] = nullifier_root
<1> DEFINE spend == Vkey("spend")
           receipt == Vkey("coinproof")
           pk == pk_of(sk)
           genesis == coin_proof = {}
           cp == CHOOSE c \in coin_proof : TRUE
           h == <<spend, receipt, sk, pk, cn, position, path, tx, inputs, outputs, genesis>>
           b == IF genesis THEN <<>> ELSE <<cp>>
           t == <<witness, nullifier_root>>
           S == {spend, receipt, sk, pk, cn, position, path, tx, inputs, outputs, genesis, cp,
                 witness, nullifier_root}
           items == build_spend_stdin(sk, cn, position, path, tx, inputs, outputs,
                                      coin_proof, witness, nullifier_root).items
<1>1. items = h \o b \o t
  BY DEF build_spend_stdin
<1>0. \A c : coin_proof = {c} => cp = c
  OBVIOUS
<1> HIDE DEF spend, receipt, pk, genesis, cp
<1>2. /\ h \in Seq(S) /\ Len(h) = 11 /\ h[1] = spend /\ h[2] = receipt /\ h[3] = sk /\ h[4] = pk
      /\ h[5] = cn /\ h[6] = position /\ h[7] = path /\ h[8] = tx /\ h[9] = inputs /\ h[10] = outputs
      /\ h[11] = genesis
      /\ t \in Seq(S) /\ Len(t) = 2 /\ t[1] = witness /\ t[2] = nullifier_root
  OBVIOUS
<1>3. /\ b \in Seq(S) /\ Len(b) = IF genesis THEN 0 ELSE 1
      /\ ~genesis => b[1] = cp
  <2>1. <<>> \in Seq(S) /\ Len(<<>>) = 0
    BY EmptySeq
  <2>2. cp \in S
    OBVIOUS
  <2> HIDE DEF S
  <2>3. <<cp>> \in Seq(S) /\ Len(<<cp>>) = 1 /\ <<cp>>[1] = cp
    BY <2>2
  <2> QED BY <2>1, <2>3
<1> HIDE DEF h, t, S, b, items
<1>4. /\ \A i \in 1 .. 11 : items[i] = h[i]
      /\ \A i \in 1 .. Len(b) : items[11 + i] = b[i]
      /\ \A i \in 1 .. 2 : items[11 + Len(b) + i] = t[i]
  <2> HIDE DEF genesis
  <2>0. h \in Seq(S) /\ b \in Seq(S) /\ t \in Seq(S)
    BY <1>2, <1>3
  <2>1. /\ \A i \in 1 .. Len(h) : (h \o b \o t)[i] = h[i]
        /\ \A i \in 1 .. Len(b) : (h \o b \o t)[Len(h) + i] = b[i]
        /\ \A i \in 1 .. Len(t) : (h \o b \o t)[Len(h) + Len(b) + i] = t[i]
    BY <2>0, ItemsInOrder
  <2> QED BY <1>1, <1>2, <2>1
<1>5. /\ items[1] = spend /\ items[2] = receipt /\ items[3] = sk /\ items[4] = pk
      /\ items[5] = cn /\ items[6] = position /\ items[7] = path /\ items[8] = tx
      /\ items[9] = inputs /\ items[10] = outputs /\ items[11] = genesis
  BY <1>2, <1>4
<1>6. /\ items[(IF genesis THEN 12 ELSE 13)] = witness
      /\ items[(IF genesis THEN 12 ELSE 13) + 1] = nullifier_root
  <2>1. CASE genesis
    <3>1. Len(b) = 0
      BY <1>3, <2>1
    <3>2. items[11 + 0 + 1] = t[1] /\ items[11 + 0 + 2] = t[2]
      BY <1>4, <3>1
    <3> QED BY <1>2, <2>1, <3>2
  <2>2. CASE ~genesis
    <3>1. Len(b) = 1
      BY <1>3, <2>2
    <3>2. items[11 + 1 + 1] = t[1] /\ items[11 + 1 + 2] = t[2]
      BY <1>4, <3>1
    <3> QED BY <1>2, <2>2, <3>2
  <2> QED BY <2>1, <2>2
<1>7. ~genesis => items[12] = cp
  <2> SUFFICES ASSUME ~genesis PROVE items[12] = cp
    OBVIOUS
  <2>1. b[1] = cp /\ Len(b) = 1
    BY <1>3
  <2>2. items[11 + 1] = b[1]
    BY <1>4, <2>1
  <2> QED BY <2>1, <2>2
<1>8. \A c : coin_proof = {c} => items[12] = c
  BY <1>0, <1>7 DEF genesis
<1> QED BY <1>5, <1>6, <1>8 DEF items, spend, receipt, pk, genesis

(* Encoded public values decode to themselves, and the empty output of a   *)
(* halted guest to nothing.                                                *)
LEMMA DecodeFacts ==
    /\ decode(<<>>) = {}
    /\ \A pv : decode(encode(pv)) = {pv}
    /\ \A pv : encode(pv) # <<>>
<1>1. decode(<<>>) = {}
  BY DEF decode
<1>2. ASSUME NEW pv PROVE decode(encode(pv)) = {pv} /\ encode(pv) # <<>>
  <2>1. DOMAIN encode(pv) = {1} /\ encode(pv)[1][2] = pv
    BY DEF encode
  <2> QED BY <2>1 DEF decode
<1> QED BY <1>1, <1>2

(* What a run of the spend guest leaves: nothing, or public values that    *)
(* name the given root and the given outputs.                              *)
SpendOutcome(run, nullifier_root, outputs) ==
    \/ run.output = <<>>
    \/ /\ run.exit_code = 0
       /\ \E pv : /\ run.output = encode(pv)
                  /\ pv.nullifier_root = nullifier_root
                  /\ pv.output_commitments = commitments(outputs)

(* program_spend on what build_spend_stdin wrote has such an outcome,      *)
(* whatever the transfer: check_spend commits to nothing but what it       *)
(* compared.                                                               *)
LEMMA SpendRun ==
    ASSUME NEW sk, NEW cn, NEW position, NEW path, NEW tx, NEW inputs, NEW outputs,
           NEW coin_proof, NEW witness, NEW nullifier_root
    PROVE  SpendOutcome(program_spend(build_spend_stdin(sk, cn, position, path, tx, inputs, outputs,
                                          coin_proof, witness, nullifier_root).items),
                        nullifier_root, outputs)
<1> DEFINE items == build_spend_stdin(sk, cn, position, path, tx, inputs, outputs,
                                          coin_proof, witness, nullifier_root).items
           rest == IF items[11] THEN 12 ELSE 13
           proofs == IF items[11] THEN {} ELSE {items[12]}
           checked == check_spend(items[1], items[2], items[3], items[4], items[5], items[6], items[7],
                                  items[8], items[9], items[10], items[11], proofs,
                                  items[rest], items[rest + 1])
           chosen == CHOOSE pv \in checked : TRUE
           defers == {[vkey |-> items[2], bytes |-> encode(cp)] : cp \in proofs}
<1>1. program_spend(items) = IF checked = {} THEN Halted(<<>>) ELSE Committed(encode(chosen), defers)
  BY DEF program_spend
<1>2. items[10] = outputs /\ items[rest + 1] = nullifier_root
  BY SpendReads
<1>3. \A pv \in checked : /\ pv.nullifier_root = items[rest + 1]
                          /\ pv.output_commitments = commitments(items[10])
  <2> HIDE DEF items, rest, proofs
  <2> QED BY DEF check_spend
<1> HIDE DEF items, rest, checked, defers
<1>4. CASE checked = {}
  BY <1>1, <1>4 DEF Halted, SpendOutcome, items
<1>5. CASE checked # {}
  <2>1. chosen \in checked
    BY <1>5
  <2>2. program_spend(items).exit_code = 0 /\ program_spend(items).output = encode(chosen)
    BY <1>1, <1>5 DEF Committed
  <2> QED BY <1>2, <1>3, <2>1, <2>2 DEF SpendOutcome, items
<1> QED BY <1>4, <1>5

(* Whatever key scan_entry recovers, it yields the entry's own             *)
(* transaction, and a note is the coin that was put in it.                 *)
LEMMA ScanIsBody ==
    ASSUME NEW sk, NEW e
    PROVE  /\ \A t \in scan_entry(sk, e) : t = e.ciphertext.data
           /\ \A i : \A coin \in NoteAt(sk, e, i) : coin = e.ciphertext.data.note_encs[i].data
<1>1. \A t \in scan_entry(sk, e) : t = e.ciphertext.data
  BY DEF scan_entry, Unwrap
<1>2. ASSUME NEW i, NEW coin \in NoteAt(sk, e, i) PROVE coin = e.ciphertext.data.note_encs[i].data
  <2>1. PICK k \in recover_session_key(sk, e), t \in scan_entry(sk, e) :
            coin \in decrypt_note(k, i, t.note_encs[i])
    <3>1. PICK found \in {decrypt_note(k, i, t.note_encs[i]) :
                            k \in recover_session_key(sk, e), t \in scan_entry(sk, e)} : coin \in found
      BY DEF NoteAt
    <3> QED BY <3>1
  <2>2. coin = t.note_encs[i].data
    BY <2>1 DEF decrypt_note, Unwrap
  <2> QED BY <1>1, <2>2
<1> QED BY <1>1, <1>2

(* The transaction under the newest entry's ciphertext.                    *)
Newest == newest.ciphertext.data

(* What a run of the receipt guest leaves for the note the host looks at:  *)
(* nothing, or public values of that note's coin, of its owner, of the     *)
(* newest slot and of the board up to it.                                  *)
ReceiptOutcome(run) ==
    \/ run.output = <<>>
    \/ /\ run.exit_code = 0
       /\ \E pv : /\ run.output = encode(pv)
                  /\ pv.coin_commitment = commitment(Newest.note_encs[note].data)
                  /\ pv.owner_pk = pk_of(Scanner)
                  /\ pv.received_at = slot
                  /\ pv.board_root = merkle_root_of(entries)
                  /\ \E i \in DOMAIN Newest.output_commitments :
                        Newest.output_commitments[i] = pv.coin_commitment

(* program_coinproof on what build_coinproof_stdin wrote for a discovered  *)
(* coin has such an outcome. The root it computes from the append proof is *)
(* merkle_root_of the board, by that function's definition.                *)
LEMMA ReceiptRun ==
    ASSUME NEW coin \in Discovered(Scanner, note), entries # <<>>
    PROVE  ReceiptOutcome(program_coinproof(CoinproofStdin(Scanner, coin).items))
<1> DEFINE vkey == Vkey("coinproof")
           vfy == Vkey("vfy-g16")
           path == append_proof_for(entries)
           w == prove_non_membership(nullifier_tree, newest.nullifier)
           r == root(nullifier_tree)
           cn == commitment(coin)
           items == CoinproofStdin(Scanner, coin).items
           checked == check_coin_receipt(vkey, Scanner, cn, newest, slot, path, w, r)
           chosen == CHOOSE c \in checked : TRUE
<1>1. items = <<vkey, vfy, Scanner, cn, newest, slot, path, w, r>>
  BY DEF CoinproofStdin, build_coinproof_stdin
<1>2. /\ items[1] = vkey /\ items[2] = vfy /\ items[3] = Scanner /\ items[4] = cn /\ items[5] = newest
      /\ items[6] = slot /\ items[7] = path /\ items[8] = w /\ items[9] = r
  <2> HIDE DEF vkey, vfy, path, w, r, cn, items
  <2> QED BY <1>1
<1>3. program_coinproof(items) =
          IF checked = {} THEN Halted(<<>>)
          ELSE Committed(encode(chosen.pv), {[vkey |-> items[2], bytes |-> b] : b \in chosen.receipt})
  <2> HIDE DEF vkey, vfy, path, w, r, cn, items
  <2> QED BY <1>2 DEF program_coinproof
<1>4. \A c \in checked : /\ c.pv.coin_commitment = cn
                         /\ c.pv.owner_pk = pk_of(Scanner)
                         /\ c.pv.received_at = slot
                         /\ c.pv.board_root = compute_root_from_path(merkle_leaf(slot, newest), slot, path)
                         /\ \E t \in scan_entry(Scanner, newest) :
                               \E i \in DOMAIN t.output_commitments : t.output_commitments[i] = cn
  <2> HIDE DEF vkey, path, w, r, cn
  <2> QED BY DEF check_coin_receipt
<1>5. merkle_root_of(entries) = compute_root_from_path(merkle_leaf(slot, newest), slot, path)
  BY DEF merkle_root_of, slot, newest
<1>6. cn = commitment(Newest.note_encs[note].data)
  BY ScanIsBody DEF Discovered, Newest
<1> HIDE DEF cn, path, checked, items
<1>7. CASE checked = {}
  BY <1>3, <1>7 DEF Halted, ReceiptOutcome, items
<1>8. CASE checked # {}
  <2>1. chosen \in checked
    BY <1>8
  <2>2. program_coinproof(items).exit_code = 0 /\ program_coinproof(items).output = encode(chosen.pv)
    BY <1>3, <1>8 DEF Committed
  <2>3. \E i \in DOMAIN Newest.output_commitments : Newest.output_commitments[i] = chosen.pv.coin_commitment
    BY <1>4, <2>1, ScanIsBody DEF Newest
  <2> QED BY <1>4, <1>5, <1>6, <2>1, <2>2, <2>3 DEF ReceiptOutcome, items
<1> QED BY <1>7, <1>8
-----------------------------------------------------------------------------
(* The board is a sequence.                                                *)
IsBoard == \E S : entries \in Seq(S)

(* No answer waits while a program is being called, and no call while the  *)
(* host goes on.                                                           *)
Idle == /\ pc \in {"ready", "calling"} => answer = NoAnswer
        /\ pc = "ready" => call = NoCall
        /\ pc = "calling" => call.elf # "none"

(* The answer, as a run's outcome.                                         *)
Outcome == [exit_code |-> answer.exit_code, output |-> answer.public_values]

(* While a spend is being proved or is proved, no wallet has its turn, a   *)
(* transfer is left, and the outcome is of the accumulator and the         *)
(* transfer the host is at: neither moves on under the child.              *)
SpendPending ==
    call.elf = "spend" =>
        /\ turn = 0 /\ Len(entries) < Len(script)
        /\ SpendOutcome(program_spend(call.stdin.items), root(nullifier_tree), Current.outputs)
        /\ pc = "answered" =>
              answer.elf = "spend" /\ SpendOutcome(Outcome, root(nullifier_tree), Current.outputs)

(* While a validation or a receipt is pending, a wallet has its turn, and  *)
(* the receipt is of the note it looks at.                                 *)
ReceiptPending ==
    mode = "prove" =>
        /\ call.elf \in {"vfy-g16", "coinproof"} => turn \in DOMAIN Wallets
        /\ call.elf = "coinproof" =>
              /\ ReceiptOutcome(program_coinproof(call.stdin.items))
              /\ pc = "answered" => ReceiptOutcome(Outcome)

(* The inductive invariant about the host and its child.                   *)
Control == TypeOK /\ IsBoard /\ Idle /\ SpendPending /\ ReceiptPending

(* The entry of slot k holds the transaction that transfer k of the script *)
(* made.                                                                   *)
OutputsPosted ==
    \A k \in 1 .. Len(entries) :
        entries[k].ciphertext.data.output_commitments = commitments(script[k].outputs)

(* What the assumptions on scripts and wallets say of lengths.             *)
LEMMA LengthsAreNat ==
    /\ Len(Wallets) \in Nat /\ DOMAIN Wallets = 1 .. Len(Wallets)
    /\ \A s \in Scripts : Len(s) \in Nat \ {0}
    /\ \A i \in DOMAIN Wallets : Wallets[i] \in PartySet
<1>1. Len(Wallets) \in Nat /\ DOMAIN Wallets = 1 .. Len(Wallets)
  BY WalletsAssumption, LenProperties
<1>2. \A s \in Scripts : Len(s) \in Nat \ {0}
  BY ScriptsAssumption, CapacityIsNat
<1>3. \A i \in DOMAIN Wallets : Wallets[i] \in PartySet
  BY DEF PartySet
<1> QED BY <1>1, <1>2, <1>3

(* The board has a length, and one that is not 0 if anything is posted.    *)
LEMMA BoardLength ==
    ASSUME IsBoard
    PROVE  /\ Len(entries) \in Nat
           /\ DOMAIN entries = 1 .. Len(entries)
           /\ entries # <<>> <=> Len(entries) # 0
<1>1. PICK S : entries \in Seq(S)
  BY DEF IsBoard
<1>2. Len(entries) \in Nat /\ DOMAIN entries = 1 .. Len(entries)
  BY <1>1, LenProperties
<1>3. entries # <<>> <=> Len(entries) # 0
  BY <1>1, EmptySeq
<1> QED BY <1>2, <1>3

(* A call keeps what it is called with.                                    *)
LEMMA CallFacts ==
    ASSUME NEW elf, NEW stdin, Call(elf, stdin)
    PROVE  /\ call' = [elf |-> elf, stdin |-> stdin] /\ call'.elf = elf /\ call'.stdin = stdin
           /\ pc' = "calling"
BY DEF Call

(* BuildSpend calls the child with a spend of the current transfer and the *)
(* accumulator's root, or panics.                                          *)
LEMMA BuildSpendKeeps ==
    ASSUME Control, BuildSpend
    PROVE  Control'
<1>1. /\ pc = "ready" /\ turn = 0 /\ Len(entries) < Len(script) /\ answer = NoAnswer /\ call = NoCall
      /\ UNCHANGED <<mode, script, entries, nullifier_tree, wallets, turn, note, answer>>
  BY DEF Control, Idle, BuildSpend
<1>2. CASE pc' = "panicked" /\ UNCHANGED call
  BY <1>1, <1>2 DEF Control, TypeOK, IsBoard, Idle, SpendPending, ReceiptPending, NoCall, NoAnswer, Final
<1>3. CASE \E stdin : /\ Call("spend", stdin)
                      /\ SpendOutcome(program_spend(stdin.items), root(nullifier_tree), Current.outputs)
  <2>1. PICK stdin : /\ Call("spend", stdin)
                     /\ SpendOutcome(program_spend(stdin.items), root(nullifier_tree), Current.outputs)
    BY <1>3
  <2>2. call'.elf = "spend" /\ call'.stdin = stdin /\ pc' = "calling"
    BY <2>1, CallFacts
  <2>3. TypeOK' /\ IsBoard' /\ Idle' /\ ReceiptPending'
    BY <1>1, <2>2 DEF Control, TypeOK, IsBoard, Idle, ReceiptPending, NoAnswer, Final
  <2>4. SpendPending'
    <3>1. Current' = Current /\ root(nullifier_tree)' = root(nullifier_tree)
      BY <1>1 DEF Current
    <3> QED BY <1>1, <2>1, <2>2, <3>1 DEF SpendPending
  <2> QED BY <2>3, <2>4 DEF Control
<1>4. (pc' = "panicked" /\ UNCHANGED call) \/
      \E stdin : /\ Call("spend", stdin)
                 /\ SpendOutcome(program_spend(stdin.items), root(nullifier_tree), Current.outputs)
  <2> DEFINE t == Current
             cn == commitment(t.inputs[1])
             held == SpendReceipt(t)
             receipts == {r.pv : r \in held}
             tx == make_tx(Len(entries), t)
             path == append_path_for_next(entries)
             witness == prove_non_membership(nullifier_tree, nullifier(cn, t.sender))
             stdin == build_spend_stdin(t.sender, cn, Len(entries), path, tx, t.inputs, t.outputs,
                                        receipts, witness, root(nullifier_tree))
  <2>1. SpendOutcome(program_spend(stdin.items), root(nullifier_tree), t.outputs)
    BY SpendRun
  <2>2. \A proof : write_proof(stdin, proof).items = stdin.items
    BY DEF write_proof, build_spend_stdin
  <2>3. \/ Call("spend", stdin)
        \/ pc' = "panicked" /\ UNCHANGED call
        \/ \E r \in held : Call("spend", write_proof(stdin, r.proof))
    BY DEF BuildSpend
  <2> HIDE DEF stdin, held
  <2> QED BY <2>1, <2>2, <2>3
<1> QED BY <1>2, <1>3, <1>4
(* Outcomes depend on the script, the board, the accumulator, and the      *)
(* wallet and note the host is at.                                         *)
LEMMA OutcomesUnchanged ==
    ASSUME UNCHANGED <<script, entries, nullifier_tree, turn, note>>
    PROVE  /\ Current' = Current /\ root(nullifier_tree)' = root(nullifier_tree)
           /\ \A run : ReceiptOutcome(run)' <=> ReceiptOutcome(run)
BY DEF Current, ReceiptOutcome, Newest, newest, Scanner, slot

(* A run that stops where it is keeps the invariant: a panic, a report,    *)
(* the death of the child.                                                 *)
LEMMA StopKeeps ==
    ASSUME Control, pc' \in Final,
           UNCHANGED <<mode, script, entries, nullifier_tree, wallets, turn, note, call, answer>>
    PROVE  Control'
<1>1. TypeOK' /\ IsBoard' /\ Idle'
  BY DEF Control, TypeOK, IsBoard, Idle, Final
<1>2. SpendPending'
  BY OutcomesUnchanged DEF Control, SpendPending, Final
<1>3. ReceiptPending'
  <2>1. call.elf = "coinproof" /\ mode = "prove" =>
            ReceiptOutcome(program_coinproof(call.stdin.items))'
    BY DEF Control, ReceiptPending, ReceiptOutcome, Newest, newest, Scanner, slot
  <2> QED BY <2>1 DEF Control, ReceiptPending, Final
<1> QED BY <1>1, <1>2, <1>3 DEF Control

(* The child's answer has the outcome of the program that was called on    *)
(* what it was called with.                                                *)
LEMMA ChildProvesKeeps ==
    ASSUME Control, ChildProves
    PROVE  Control'
<1>1. /\ pc = "calling" /\ answer = NoAnswer
      /\ UNCHANGED <<mode, script, entries, nullifier_tree, wallets, turn, note, call>>
  BY DEF Control, Idle, ChildProves
<1>2. CASE pc' = "panicked" /\ UNCHANGED answer
  BY <1>1, <1>2, StopKeeps DEF Final
<1> DEFINE run == execute(call.elf, call.stdin)
<1>3. CASE /\ pc' = "answered" /\ answer'.elf = call.elf
           /\ answer'.exit_code = run.exit_code /\ answer'.public_values = run.output
  <2>1. Outcome' = [exit_code |-> run.exit_code, output |-> run.output]
    BY <1>3 DEF Outcome
  <2>2. /\ Current' = Current /\ root(nullifier_tree)' = root(nullifier_tree)
        /\ call' = call /\ turn' = turn /\ note' = note /\ entries' = entries /\ script' = script
    BY <1>1 DEF Current
  <2>3. SpendPending'
    <3> SUFFICES ASSUME call.elf = "spend" PROVE SpendPending'
      BY <2>2 DEF SpendPending
    <3>1. run = program_spend(call.stdin.items)
      BY DEF execute
    <3>2. /\ turn = 0 /\ Len(entries) < Len(script)
          /\ SpendOutcome(run, root(nullifier_tree), Current.outputs)
      BY <3>1 DEF Control, SpendPending
    <3>3. SpendOutcome(Outcome', root(nullifier_tree), Current.outputs)
      BY <2>1, <3>2 DEF SpendOutcome
    <3> QED BY <1>3, <2>2, <3>1, <3>2, <3>3 DEF SpendPending
  <2>4. ReceiptPending'
    <3> SUFFICES ASSUME mode = "prove" PROVE ReceiptPending'
      BY <1>1 DEF ReceiptPending
    <3>1. \A x : ReceiptOutcome(x)' <=> ReceiptOutcome(x)
      BY <2>2 DEF ReceiptOutcome, Newest, newest, Scanner, slot
    <3>2. CASE call.elf = "coinproof"
      <4>1. run = program_coinproof(call.stdin.items)
        BY <3>2 DEF execute
      <4>2. ReceiptOutcome(run) /\ turn \in DOMAIN Wallets
        BY <3>2, <4>1 DEF Control, ReceiptPending
      <4>3. ReceiptOutcome(Outcome')
        BY <2>1, <4>2 DEF ReceiptOutcome
      <4>4. ReceiptOutcome(run)' /\ ReceiptOutcome(Outcome)'
        BY <2>2, <4>2, <4>3 DEF ReceiptOutcome, Newest, newest, Scanner, slot
      <4> QED BY <2>2, <4>1, <4>2, <4>4 DEF ReceiptPending
    <3>3. CASE call.elf # "coinproof"
      BY <2>2, <3>3 DEF Control, ReceiptPending
    <3> QED BY <3>2, <3>3
  <2>5. TypeOK' /\ IsBoard' /\ Idle'
    <3>1. call.elf # "none"
      BY <1>1 DEF Control, Idle
    <3> QED BY <1>1, <1>3, <3>1 DEF Control, TypeOK, IsBoard, Idle, Final
  <2> QED BY <2>3, <2>4, <2>5 DEF Control
<1>4. \/ pc' = "panicked" /\ UNCHANGED answer
      \/ /\ pc' = "answered" /\ answer'.elf = call.elf
         /\ answer'.exit_code = run.exit_code /\ answer'.public_values = run.output
  <2> DEFINE answers == IF InProcess
                        THEN {[elf |-> call.elf, exit_code |-> run.exit_code, public_values |-> run.output]}
                        ELSE prove(call.elf, call.stdin)
  <2>1. \A a \in answers : a.elf = call.elf /\ a.exit_code = run.exit_code /\ a.public_values = run.output
    BY DEF prove
  <2>2. \/ pc' = "panicked" /\ UNCHANGED answer
        \/ pc' = "answered" /\ answer' \in answers
    BY DEF ChildProves
  <2> QED BY <2>1, <2>2
<1> QED BY <1>2, <1>3, <1>4
(* After an action that leaves nothing pending there is nothing to say of  *)
(* outcomes.                                                               *)
LEMMA ReadyKeeps ==
    ASSUME TypeOK', IsBoard', call' = NoCall, answer' = NoAnswer
    PROVE  Control' \/ pc' = "calling"
BY DEF Control, Idle, SpendPending, ReceiptPending, NoCall

(* A call of a validation or of a receipt keeps the invariant.             *)
LEMMA CallKeeps ==
    ASSUME Control, NEW elf \in {"vfy-g16", "coinproof"}, NEW stdin, Call(elf, stdin), answer' = NoAnswer,
           UNCHANGED <<mode, script, entries, nullifier_tree, wallets, turn, note>>,
           mode = "prove" => turn \in DOMAIN Wallets,
           mode = "prove" /\ elf = "coinproof" => ReceiptOutcome(program_coinproof(stdin.items))
    PROVE  Control'
<1>1. call'.elf = elf /\ call'.stdin = stdin /\ pc' = "calling"
  BY CallFacts
<1>2. TypeOK' /\ IsBoard' /\ Idle' /\ SpendPending'
  BY <1>1 DEF Control, TypeOK, IsBoard, Idle, SpendPending, NoAnswer, Final
<1>3. ReceiptPending'
  <2>1. program_coinproof(call.stdin.items)' = program_coinproof(stdin.items)
    BY <1>1
  <2>2. ASSUME mode = "prove", elf = "coinproof"
        PROVE  ReceiptOutcome(program_coinproof(call.stdin.items))'
    <3> DEFINE run == program_coinproof(stdin.items)
    <3>1. ReceiptOutcome(run)
      BY <2>2
    <3> HIDE DEF run
    <3>2. program_coinproof(call.stdin.items)' = run
      BY <2>1 DEF run
    <3> QED BY <3>1, <3>2 DEF ReceiptOutcome, Newest, newest, Scanner, slot
  <2>3. mode' = mode /\ turn' = turn /\ pc' # "answered"
    BY <1>1
  <2> QED BY <1>1, <2>2, <2>3 DEF ReceiptPending
<1> QED BY <1>2, <1>3 DEF Control

(* The steps that call for a validation or for a receipt: bootstrap, and   *)
(* the two other modes of main.                                            *)
LEMMA ReceiptStepsKeep ==
    ASSUME Control, Bootstrap \/ ProveReceipt \/ ExecuteReceipt \/ BenchValidate
    PROVE  Control'
<1>1. CASE Bootstrap
  <2>1. PICK stdin : Call("vfy-g16", stdin)
    BY <1>1 DEF Bootstrap
  <2>2. answer' = NoAnswer /\ turn \in DOMAIN Wallets
    BY <1>1 DEF Bootstrap, Control, Idle
  <2>3. UNCHANGED <<mode, script, entries, nullifier_tree, wallets, turn, note>>
    BY <1>1 DEF Bootstrap
  <2> QED BY <2>1, <2>2, <2>3, CallKeeps
<1>2. CASE ProveReceipt
  <2>1. PICK coin \in Discovered(Scanner, note) :
            Call("coinproof", write_proof(CoinproofStdin(Scanner, coin), answer))
    BY <1>2 DEF ProveReceipt
  <2> DEFINE stdin == write_proof(CoinproofStdin(Scanner, coin), answer)
  <2>2. stdin.items = CoinproofStdin(Scanner, coin).items
    BY DEF write_proof, CoinproofStdin, build_coinproof_stdin
  <2>3. answer' = NoAnswer /\ turn \in DOMAIN Wallets
        /\ UNCHANGED <<mode, script, entries, nullifier_tree, wallets, turn, note>>
    BY <1>2 DEF ProveReceipt, Control, ReceiptPending
  <2>4. entries # <<>>
    BY <2>3, LengthsAreNat DEF Control, TypeOK
  <2>5. ReceiptOutcome(program_coinproof(stdin.items))
    BY <2>2, <2>4, ReceiptRun
  <2> HIDE DEF stdin
  <2>6. Call("coinproof", stdin)
    BY <2>1 DEF stdin
  <2> QED BY <2>3, <2>5, <2>6, CallKeeps
<1>3. CASE ExecuteReceipt
  <2>1. PICK stdin : Call("coinproof", stdin)
    BY <1>3 DEF ExecuteReceipt
  <2>2. answer' = NoAnswer /\ mode = "execute"
        /\ UNCHANGED <<mode, script, entries, nullifier_tree, wallets, turn, note>>
    BY <1>3 DEF ExecuteReceipt, Control, Idle
  <2> QED BY <2>1, <2>2, CallKeeps
<1>4. CASE BenchValidate
  <2>1. PICK stdin : Call("vfy-g16", stdin)
    BY <1>4 DEF BenchValidate
  <2>2. answer' = NoAnswer /\ mode = "bench-vfy-g16"
        /\ UNCHANGED <<mode, script, entries, nullifier_tree, wallets, turn, note>>
    BY <1>4 DEF BenchValidate
  <2> QED BY <2>1, <2>2, CallKeeps
<1> QED BY <1>1, <1>2, <1>3, <1>4

(* The steps that end with nothing pending: a spend accepted, a receipt    *)
(* filed, a note passed over, the next wallet's turn, the nullifier        *)
(* inserted.                                                               *)
LEMMA HostStepsKeep ==
    ASSUME Control, AcceptSpend \/ PassNote \/ FileReceipt \/ NextWallet \/ InsertNullifier
    PROVE  Control'
<1>1. call' = NoCall /\ answer' = NoAnswer /\ pc' \in {"ready", "panicked", "done"}
  BY DEF Control, Idle, AcceptSpend, PassNote, FileReceipt, NextWallet, InsertNullifier
<1>2. SUFFICES TypeOK' /\ IsBoard'
  BY <1>1, ReadyKeeps
<1>3. CASE AcceptSpend
  <2>1. PICK S : entries \in Seq(S)
    BY DEF Control, IsBoard
  <2>2. turn = 0 /\ Len(entries) < Len(script) /\ mode' = mode /\ script' = script /\ wallets' = wallets
    BY <1>3 DEF AcceptSpend, Control, SpendPending
  <2>3. \/ UNCHANGED <<entries, turn, note>>
        \/ turn' = 1 /\ note' = 1 /\ \E e : entries' = Append(entries, e)
    BY <1>3 DEF AcceptSpend, PostEntry
  <2>4. CASE UNCHANGED <<entries, turn, note>>
    BY <1>1, <2>1, <2>2, <2>4 DEF Control, TypeOK, IsBoard, NoCall, NoAnswer, Final
  <2>5. CASE turn' = 1 /\ note' = 1 /\ \E e : entries' = Append(entries, e)
    <3>1. PICK e : entries' = Append(entries, e)
      BY <2>5
    <3>2. /\ entries' \in Seq(S \union {e}) /\ Len(entries') = Len(entries) + 1
          /\ entries' # <<>> /\ Len(entries) \in Nat
      BY <2>1, <3>1
    <3> QED BY <1>1, <2>2, <2>5, <3>2, LengthsAreNat DEF Control, TypeOK, IsBoard, NoCall, NoAnswer, Final
  <2> QED BY <2>3, <2>4, <2>5
<1>4. CASE PassNote
  BY <1>1, <1>4 DEF PassNote, Control, TypeOK, IsBoard, NoCall, NoAnswer, Final
<1>5. CASE FileReceipt
  <2>1. DOMAIN wallets' = DOMAIN wallets
    BY <1>5 DEF FileReceipt
  <2>2. note' \in Nat \ {0}
    BY <1>5 DEF FileReceipt, Control, TypeOK
  <2>3. UNCHANGED <<mode, script, entries, turn>>
    BY <1>5 DEF FileReceipt
  <2> QED BY <1>1, <2>1, <2>2, <2>3 DEF Control, TypeOK, IsBoard, NoCall, NoAnswer, Final
<1>6. CASE NextWallet
  <2>1. turn' \in 0 .. Len(Wallets) + 1 /\ turn # 0
    BY <1>6, LengthsAreNat DEF NextWallet
  <2>2. note' = 1 /\ UNCHANGED <<mode, script, entries, wallets>>
    BY <1>6 DEF NextWallet
  <2> QED BY <1>1, <2>1, <2>2 DEF Control, TypeOK, IsBoard, NoCall, NoAnswer, Final
<1>7. CASE InsertNullifier
  <2>1. turn' = 0 /\ UNCHANGED <<mode, script, entries, wallets, note>>
    BY <1>7 DEF InsertNullifier
  <2> QED BY <1>1, <2>1, LengthsAreNat DEF Control, TypeOK, IsBoard, NoCall, NoAnswer, Final
<1> QED BY <1>3, <1>4, <1>5, <1>6, <1>7
(* The invariant holds when main starts.                                   *)
LEMMA ControlInit == Init => Control
<1> SUFFICES ASSUME Init PROVE Control
  OBVIOUS
<1>1. entries \in Seq({}) /\ Len(entries) = 0
  BY EmptySeq DEF Init
<1>2. IsBoard
  BY <1>1 DEF IsBoard
<1> QED BY <1>1, <1>2, LengthsAreNat DEF Init, Control, TypeOK, Idle, SpendPending, ReceiptPending, NoCall, NoAnswer

(* Every step of host and child keeps the invariant.                       *)
LEMMA ControlStep == Control /\ [Next]_vars => Control'
<1> SUFFICES ASSUME Control, [Next]_vars PROVE Control'
  OBVIOUS
<1>1. CASE BuildSpend
  BY <1>1, BuildSpendKeeps
<1>2. CASE AcceptSpend \/ PassNote \/ FileReceipt \/ NextWallet \/ InsertNullifier
  BY <1>2, HostStepsKeep
<1>3. CASE Bootstrap \/ ProveReceipt \/ ExecuteReceipt \/ BenchValidate
  BY <1>3, ReceiptStepsKeep
<1>4. CASE DecodeExecuted \/ BenchReport
  BY <1>4, StopKeeps DEF DecodeExecuted, BenchReport, Final
<1>5. CASE ChildProves
  BY <1>5, ChildProvesKeeps
<1>6. CASE ChildDies
  BY <1>6, StopKeeps DEF ChildDies, Final
<1>7. CASE UNCHANGED vars
  <2>1. UNCHANGED <<mode, script, pc, entries, nullifier_tree, wallets, turn, note, call, answer>>
    BY <1>7 DEF vars
  <2>2. SpendPending'
    BY <2>1, OutcomesUnchanged DEF Control, SpendPending, Outcome
  <2>3. ReceiptPending'
    BY <2>1 DEF Control, ReceiptPending, ReceiptOutcome, Outcome, Newest, newest, Scanner, slot
  <2> QED BY <2>1, <2>2, <2>3 DEF Control, TypeOK, IsBoard, Idle
<1> QED BY <1>1, <1>2, <1>3, <1>4, <1>5, <1>6, <1>7 DEF Next, HostStep, Ended

(* The invariant holds throughout.                                         *)
LEMMA ControlHolds == Spec => []Control
BY ControlInit, ControlStep, PTL DEF Spec

(* TypeOK: main's variables have their types, for every script, every list *)
(* of wallets and every depth of the trees.                                *)
THEOREM TypeCorrect == Spec => []TypeOK
<1>1. Control => TypeOK
  BY DEF Control
<1> QED BY <1>1, ControlHolds, PTL

-----------------------------------------------------------------------------
(* entries.push changes nothing about earlier slots: neither their entries *)
(* nor what is computed from the board up to them.                         *)
LEMMA BoardGrows ==
    ASSUME IsBoard, NEW e, entries' = Append(entries, e)
    PROVE  /\ Len(entries') = Len(entries) + 1
           /\ DOMAIN entries' = 1 .. Len(entries) + 1
           /\ entries'[Len(entries) + 1] = e
           /\ \A k \in 1 .. Len(entries) : entries'[k] = entries[k]
           /\ \A k \in 0 .. Len(entries) : Prefix(k)' = Prefix(k) /\ replay(k)' = replay(k)
<1>1. PICK S : entries \in Seq(S)
  BY DEF IsBoard
<1> DEFINE T == S \union {e}
<1>2. /\ entries \in Seq(T) /\ e \in T
  BY <1>1
<1> HIDE DEF T
<1>3. /\ Len(entries) \in Nat
      /\ entries' \in Seq(T)
      /\ Len(entries') = Len(entries) + 1
      /\ DOMAIN entries' = 1 .. Len(entries) + 1
      /\ entries'[Len(entries) + 1] = e
      /\ \A k \in 1 .. Len(entries) : entries'[k] = entries[k]
  BY <1>2
<1>4. ASSUME NEW k \in 0 .. Len(entries) PROVE Prefix(k)' = Prefix(k)
  <2>1. \A i \in 1 .. k : entries[i] \in T /\ entries'[i] \in T
    BY <1>2, <1>3
  <2>2. /\ SubSeq(entries, 1, k) \in Seq(T) /\ Len(SubSeq(entries, 1, k)) = k
        /\ \A i \in 1 .. k : SubSeq(entries, 1, k)[i] = entries[i]
    BY <1>2, <1>3
  <2>3. /\ SubSeq(entries', 1, k) \in Seq(T) /\ Len(SubSeq(entries', 1, k)) = k
        /\ \A i \in 1 .. k : SubSeq(entries', 1, k)[i] = entries'[i]
    BY <1>2, <1>3
  <2>4. SubSeq(entries', 1, k) = SubSeq(entries, 1, k)
    BY <1>3, <2>2, <2>3, SeqEqual
  <2> QED BY <2>4 DEF Prefix
<1>5. ASSUME NEW k \in 0 .. Len(entries) PROVE replay(k)' = replay(k)
  <2>1. k \in Nat /\ \A i \in 1 .. k : entries[i] = entries'[i]
    BY <1>3
  <2>2. Chain(entries, k) = Chain(entries', k)
    BY <2>1, ChainFacts
  <2>3. replay(k)' = Chain(entries', k) /\ replay(k) = Chain(entries, k)
    BY DEF replay, Chain
  <2> QED BY <2>2, <2>3
<1> QED BY <1>3, <1>4, <1>5

(* Each step keeps the accumulator that of the finished slots: the         *)
(* nullifier is inserted once, after the wallets' turns, with nothing      *)
(* posted in between.                                                      *)
LEMMA AccumulatorStep ==
    Control /\ AccumulatorIsReplay /\ [Next]_vars => AccumulatorIsReplay'
<1> SUFFICES ASSUME Control, AccumulatorIsReplay, [Next]_vars PROVE AccumulatorIsReplay'
  OBVIOUS
<1>1. Len(entries) \in Nat /\ IsBoard /\ (turn # 0 => Len(entries) # 0)
  BY BoardLength DEF Control, TypeOK
<1>2. CASE UNCHANGED <<entries, turn, nullifier_tree>>
  BY <1>2 DEF AccumulatorIsReplay, replay
<1>3. CASE AcceptSpend
  <2>1. turn = 0 /\ nullifier_tree' = nullifier_tree
    BY <1>3 DEF AcceptSpend, Control, SpendPending
  <2>2. \/ UNCHANGED <<entries, turn>>
        \/ turn' = 1 /\ \E e : entries' = Append(entries, e)
    BY <1>3 DEF AcceptSpend, PostEntry
  <2>3. CASE UNCHANGED <<entries, turn>>
    BY <1>2, <2>1, <2>3
  <2>4. CASE turn' = 1 /\ \E e : entries' = Append(entries, e)
    <3>1. PICK e : entries' = Append(entries, e)
      BY <2>4
    <3>2. PICK n \in Nat : n = Len(entries)
      BY <1>1
    <3>3. n \in 0 .. Len(entries) /\ Len(entries') = n + 1
      BY <1>1, <3>1, <3>2, BoardGrows
    <3>4. replay(n)' = replay(n)
      BY <1>1, <3>1, <3>3, BoardGrows
    <3>5. nullifier_tree = replay(n)
      BY <2>1, <3>2 DEF AccumulatorIsReplay
    <3>6. Len(entries') - 1 = n
      BY <3>3
    <3>7. replay(n)' = Chain(entries', n)
      BY DEF replay, Chain
    <3>8. nullifier_tree' = Chain(entries', IF turn' = 0 THEN Len(entries') ELSE Len(entries') - 1)
      BY <2>1, <2>4, <3>4, <3>5, <3>6, <3>7
    <3> QED BY <3>8 DEF AccumulatorIsReplay, replay, Chain
  <2> QED BY <2>2, <2>3, <2>4
<1>4. CASE NextWallet
  <2>1. turn # 0 /\ turn' # 0 /\ entries' = entries /\ nullifier_tree' = nullifier_tree
    BY <1>4, LengthsAreNat DEF NextWallet
  <2> QED BY <2>1 DEF AccumulatorIsReplay, replay
<1>5. CASE InsertNullifier
  <2>1. /\ turn # 0 /\ turn' = 0 /\ entries' = entries
        /\ nullifier_tree' = insert(nullifier_tree, newest.nullifier)
    BY <1>5, LengthsAreNat DEF InsertNullifier
  <2>2. PICK n \in Nat : n = Len(entries) - 1 /\ n + 1 = Len(entries)
    BY <1>1, <2>1
  <2>3. nullifier_tree = Chain(entries, n)
    BY <2>1, <2>2, ReplayIsChain DEF AccumulatorIsReplay
  <2>4. Chain(entries, n + 1) = insert(Chain(entries, n), entries[n + 1].nullifier)
    BY ChainFacts
  <2>5. nullifier_tree' = Chain(entries, Len(entries))
    BY <2>1, <2>2, <2>3, <2>4 DEF newest
  <2>6. nullifier_tree' = replay(Len(entries))'
    BY <2>1, <2>5 DEF replay, Chain
  <2> QED BY <2>1, <2>6 DEF AccumulatorIsReplay
<1> QED BY <1>2, <1>3, <1>4, <1>5 DEF Next, HostStep, Ended, vars, BuildSpend, PassNote, Bootstrap,
       ProveReceipt, FileReceipt, ExecuteReceipt, DecodeExecuted, BenchValidate, BenchReport,
       ChildProves, ChildDies

(* AccumulatorIsReplay: the tree main updates is the one that              *)
(* NullifierTree::replay computes from the board, of every finished slot   *)
(* and of no other.                                                        *)
THEOREM TreeIsReplay == Spec => []AccumulatorIsReplay
<1>1. Init => AccumulatorIsReplay
  <2> SUFFICES ASSUME Init PROVE AccumulatorIsReplay
    OBVIOUS
  <2>1. Len(entries) = 0 /\ turn = 0 /\ nullifier_tree = new
    BY DEF Init
  <2>2. replay(0) = new
    BY ReplayIsChain, ChainFacts
  <2> QED BY <2>1, <2>2 DEF AccumulatorIsReplay
<1> QED BY <1>1, AccumulatorStep, ControlHolds, PTL DEF Spec
-----------------------------------------------------------------------------
(* What PostedSpendsAnchored says of one entry.                            *)
Anchored(k, pkg, pv, prefix, tree) ==
    /\ pv.board_root = merkle_root_of(prefix)
    /\ pv.nullifier_root = root(tree)
    /\ pv.output_commitments = commitments(script[k].outputs)
    /\ mode = "prove" => pkg.proof_bytes = bytes([elf |-> "spend", exit_code |-> 0,
                                                  public_values |-> pkg.pv_encode])

(* AcceptSpend posts nothing, or an entry that is anchored in the board    *)
(* and the accumulator before it.                                          *)
LEMMA AcceptPosts ==
    ASSUME Control, AccumulatorIsReplay, AcceptSpend
    PROVE  \/ UNCHANGED <<mode, script, wallets, entries>>
           \/ /\ UNCHANGED <<mode, script, wallets>>
              /\ turn = 0
              /\ \E e, pkg, pv :
                    /\ entries' = Append(entries, e)
                    /\ e.ciphertext.data.spend_proof = {pkg}
                    /\ e.ciphertext.data.output_commitments = commitments(Current.outputs)
                    /\ pv \in decode(pkg.pv_encode)
                    /\ Anchored(Len(entries) + 1, pkg, pv, entries, replay(Len(entries)))
<1>1. UNCHANGED <<mode, script, wallets>> /\ pc = "answered" /\ call.elf = "spend"
  BY DEF AcceptSpend
<1>2. /\ turn = 0 /\ answer.elf = "spend"
      /\ SpendOutcome(Outcome, root(nullifier_tree), Current.outputs)
  BY <1>1 DEF Control, SpendPending
<1>3. SUFFICES ASSUME ~UNCHANGED entries
               PROVE  \E e, pkg, pv :
                    /\ entries' = Append(entries, e)
                    /\ e.ciphertext.data.spend_proof = {pkg}
                    /\ e.ciphertext.data.output_commitments = commitments(Current.outputs)
                    /\ pv \in decode(pkg.pv_encode)
                    /\ Anchored(Len(entries) + 1, pkg, pv, entries, replay(Len(entries)))
  BY <1>1, <1>2
<1>4. /\ \E pv \in decode(answer.public_values) : pv.board_root = merkle_root_of(entries)
      /\ PostEntry(Current, answer)
  BY <1>3 DEF AcceptSpend
<1>5. PICK pv \in decode(answer.public_values) : pv.board_root = merkle_root_of(entries)
  BY <1>4
<1>6. /\ answer.exit_code = 0
      /\ pv.nullifier_root = root(nullifier_tree)
      /\ pv.output_commitments = commitments(Current.outputs)
  <2>1. answer.public_values # <<>>
    BY <1>5, DecodeFacts
  <2>2. /\ answer.exit_code = 0
        /\ \E v : /\ answer.public_values = encode(v)
                  /\ v.nullifier_root = root(nullifier_tree)
                  /\ v.output_commitments = commitments(Current.outputs)
    BY <1>2, <2>1 DEF SpendOutcome, Outcome
  <2> QED BY <1>5, <2>2, DecodeFacts
<1> DEFINE pkg == build_spend_proof_package(answer)
           made == make_tx(Len(entries), Current)
           tx == [made EXCEPT !.spend_proof = {pkg}]
           pks == [i \in DOMAIN Current.outputs |-> Current.outputs[i].owner_pk]
           key == session_key_of(Current.sender, Len(entries))
           e == encrypt_tx(tx, pks, key)
<1>7. entries' = Append(entries, e)
  BY <1>4 DEF PostEntry
<1>8. tx.spend_proof = {pkg} /\ tx.output_commitments = commitments(Current.outputs)
  <2> HIDE DEF pkg
  <2> QED BY DEF make_tx
<1>9. e.ciphertext.data = tx
  <2> HIDE DEF tx, pks, key
  <2> QED BY DEF encrypt_tx, Wrap
<1>10. /\ pkg.pv_encode = answer.public_values
       /\ mode = "prove" => pkg.proof_bytes = bytes(answer)
  BY DEF build_spend_proof_package
<1>11. bytes(answer) = bytes([elf |-> "spend", exit_code |-> 0, public_values |-> answer.public_values])
  BY <1>2, <1>6 DEF bytes
<1>12. nullifier_tree = replay(Len(entries))
  BY <1>2 DEF AccumulatorIsReplay
<1> HIDE DEF pkg, tx, e
<1>13. Anchored(Len(entries) + 1, pkg, pv, entries, replay(Len(entries)))
  BY <1>5, <1>6, <1>10, <1>11, <1>12 DEF Anchored, Current
<1> QED BY <1>5, <1>7, <1>8, <1>9, <1>10, <1>13

(* Each step keeps the posted entries anchored and of their transfers.     *)
LEMMA PostedStep ==
    Control /\ AccumulatorIsReplay /\ OutputsPosted /\ PostedSpendsAnchored /\ [Next]_vars
        => OutputsPosted' /\ PostedSpendsAnchored'
<1> SUFFICES ASSUME Control, AccumulatorIsReplay, OutputsPosted, PostedSpendsAnchored, [Next]_vars
             PROVE  OutputsPosted' /\ PostedSpendsAnchored'
  OBVIOUS
<1>1. CASE UNCHANGED <<mode, script, entries>>
  <2>1. OutputsPosted'
    BY <1>1 DEF OutputsPosted
  <2>2. \A k : Package(k)' = Package(k) /\ Prefix(k)' = Prefix(k) /\ replay(k)' = replay(k)
    BY <1>1 DEF Package, Prefix, replay
  <2>3. ASSUME NEW k \in DOMAIN entries
        PROVE  \E v \in decode(Package(k)'.pv_encode) :
                  /\ v.board_root = merkle_root_of(Prefix(k - 1)')
                  /\ v.nullifier_root = root(replay(k - 1)')
                  /\ v.output_commitments = commitments(script[k].outputs)
                  /\ mode = "prove" =>
                       Package(k)'.proof_bytes = bytes([elf |-> "spend", exit_code |-> 0,
                                                        public_values |-> Package(k)'.pv_encode])
    BY <2>2 DEF PostedSpendsAnchored
  <2>4. PostedSpendsAnchored'
    BY <1>1, <2>3 DEF PostedSpendsAnchored
  <2> QED BY <2>1, <2>4
<1>2. CASE AcceptSpend /\ ~UNCHANGED <<mode, script, entries>>
  <2>1. UNCHANGED <<mode, script>>
    BY <1>2, AcceptPosts
  <2>2. PICK e, pkg, pv :
                    /\ entries' = Append(entries, e)
                    /\ e.ciphertext.data.spend_proof = {pkg}
                    /\ e.ciphertext.data.output_commitments = commitments(Current.outputs)
                    /\ pv \in decode(pkg.pv_encode)
                    /\ Anchored(Len(entries) + 1, pkg, pv, entries, replay(Len(entries)))
    BY <1>2, AcceptPosts
  <2>3. IsBoard /\ Len(entries) \in Nat /\ DOMAIN entries = 1 .. Len(entries)
    BY BoardLength DEF Control
  <2>4. PICK n \in Nat : n = Len(entries)
    BY <2>3
  <2>5. /\ Len(entries') = n + 1 /\ DOMAIN entries' = 1 .. n + 1
        /\ entries'[n + 1] = e
        /\ \A k \in 1 .. n : entries'[k] = entries[k]
    BY <2>2, <2>3, <2>4, BoardGrows
  <2>6. ASSUME NEW k \in 0 .. n PROVE Prefix(k)' = Prefix(k) /\ replay(k)' = replay(k)
    BY <2>2, <2>3, <2>4, BoardGrows
  <2>7. Prefix(n) = entries
    <3>1. PICK S : entries \in Seq(S)
      BY <2>3 DEF IsBoard
    <3>2. /\ SubSeq(entries, 1, n) \in Seq(S) /\ Len(SubSeq(entries, 1, n)) = n
          /\ \A i \in 1 .. n : SubSeq(entries, 1, n)[i] = entries[i]
      BY <2>4, <3>1
    <3> QED BY <2>4, <3>1, <3>2, SeqEqual DEF Prefix
  <2>8. OutputsPosted'
    BY <2>1, <2>2, <2>3, <2>4, <2>5 DEF OutputsPosted, Current
  <2>9. ASSUME NEW k \in 1 .. n + 1
        PROVE  \E v \in decode(Package(k)'.pv_encode) :
                   Anchored(k, Package(k)', v, Prefix(k - 1)', replay(k - 1)')
    <3>1. CASE k = n + 1
      <4>1. Package(k)' = pkg
        BY <2>2, <2>5, <3>1 DEF Package
      <4>2. Prefix(k - 1)' = entries /\ replay(k - 1)' = replay(n)
        <5>1. k - 1 = n
          BY <3>1
        <5>2. Prefix(n)' = Prefix(n) /\ replay(n)' = replay(n)
          BY <2>6
        <5> QED BY <2>7, <5>1, <5>2
      <4> QED BY <2>2, <2>4, <3>1, <4>1, <4>2
    <3>2. CASE k \in 1 .. n
      <4>1. Package(k)' = Package(k)
        BY <2>5, <3>2 DEF Package
      <4>2. Prefix(k - 1)' = Prefix(k - 1) /\ replay(k - 1)' = replay(k - 1)
        <5>1. k - 1 \in 0 .. n
          BY <3>2
        <5> QED BY <2>6, <5>1
      <4>3. k \in DOMAIN entries
        BY <2>3, <2>4, <3>2
      <4>4. \E v \in decode(Package(k).pv_encode) : Anchored(k, Package(k), v, Prefix(k - 1), replay(k - 1))
        BY <4>3 DEF PostedSpendsAnchored, Anchored
      <4> QED BY <4>1, <4>2, <4>4
    <3> QED BY <3>1, <3>2
  <2>10. ASSUME NEW k \in DOMAIN entries'
         PROVE  \E v \in decode(Package(k)'.pv_encode) :
                  /\ v.board_root = merkle_root_of(Prefix(k - 1)')
                  /\ v.nullifier_root = root(replay(k - 1)')
                  /\ v.output_commitments = commitments(script'[k].outputs)
                  /\ mode' = "prove" =>
                       Package(k)'.proof_bytes = bytes([elf |-> "spend", exit_code |-> 0,
                                                        public_values |-> Package(k)'.pv_encode])
    BY <2>1, <2>5, <2>9 DEF Anchored
  <2>11. PostedSpendsAnchored'
    BY <2>10 DEF PostedSpendsAnchored
  <2> QED BY <2>8, <2>11
<1> QED BY <1>1, <1>2 DEF Next, HostStep, Ended, vars, BuildSpend, PassNote, Bootstrap, NextWallet,
       ProveReceipt, FileReceipt, InsertNullifier, ExecuteReceipt, DecodeExecuted, BenchValidate,
       BenchReport, ChildProves, ChildDies

(* Both hold throughout.                                                   *)
LEMMA PostedHolds == Spec => [](OutputsPosted /\ PostedSpendsAnchored)
<1>1. Init => OutputsPosted /\ PostedSpendsAnchored
  BY EmptySeq DEF Init, OutputsPosted, PostedSpendsAnchored
<1> QED BY <1>1, PostedStep, ControlHolds, TreeIsReplay, PTL DEF Spec

(* PostedSpendsAnchored: every posted spend is of a guest that did not     *)
(* halt, commits to the roots before its slot, and to the outputs of its   *)
(* transfer; main compares only the board's root itself.                   *)
THEOREM SpendsAreAnchored == Spec => []PostedSpendsAnchored
BY PostedHolds, PTL
-----------------------------------------------------------------------------
(* What ReceiptsAnswerRequest says of one receipt.                         *)
Answers(p, cn, r, prefix, outputs) ==
    /\ r.pv.coin_commitment = cn
    /\ r.pv.owner_pk = pk_of(p)
    /\ r.pv.board_root = merkle_root_of(prefix)
    /\ \E i \in DOMAIN outputs : commitment(outputs[i]) = cn
    /\ r.proof.exit_code = 0

(* The board is its own longest prefix.                                    *)
LEMMA WholePrefix == IsBoard => Prefix(Len(entries)) = entries
<1> SUFFICES ASSUME IsBoard PROVE Prefix(Len(entries)) = entries
  OBVIOUS
<1>1. PICK S : entries \in Seq(S)
  BY DEF IsBoard
<1>2. PICK n \in Nat : n = Len(entries)
  BY <1>1, LenProperties
<1>3. /\ SubSeq(entries, 1, n) \in Seq(S) /\ Len(SubSeq(entries, 1, n)) = n
      /\ \A i \in 1 .. n : SubSeq(entries, 1, n)[i] = entries[i]
  BY <1>1, <1>2
<1> QED BY <1>1, <1>2, <1>3, SeqEqual DEF Prefix

(* FileReceipt files nothing, or a receipt that is of the commitment it is *)
(* filed under, of the wallet's owner, and of the newest slot.             *)
LEMMA FiledReceipt ==
    ASSUME Control, OutputsPosted, FileReceipt
    PROVE  /\ UNCHANGED <<script, entries>>
           /\ \/ UNCHANGED wallets
              \/ /\ Scanner \in PartySet
                 /\ \E cn, r, k :
                      /\ wallets' = [wallets EXCEPT ![Scanner] = MapInsert(@, cn, r)]
                      /\ k = r.pv.received_at + 1 /\ k \in DOMAIN entries
                      /\ Answers(Scanner, cn, r, Prefix(k), script[k].outputs)
<1>1. UNCHANGED <<script, entries>> /\ pc = "answered" /\ call.elf = "coinproof" /\ mode = "prove"
  BY DEF FileReceipt
<1>2. turn \in DOMAIN Wallets /\ ReceiptOutcome(Outcome)
  BY <1>1 DEF Control, ReceiptPending
<1>3. Scanner \in PartySet
  BY <1>2, LengthsAreNat DEF Scanner
<1>4. PICK coin \in Discovered(Scanner, note) :
          \/ UNCHANGED wallets
          \/ \E pv \in decode(answer.public_values) :
                wallets' = [wallets EXCEPT ![Scanner] =
                               MapInsert(@, commitment(coin), [pv |-> pv, proof |-> answer])]
  BY DEF FileReceipt
<1>5. SUFFICES ASSUME NEW pv \in decode(answer.public_values),
                      wallets' = [wallets EXCEPT ![Scanner] =
                               MapInsert(@, commitment(coin), [pv |-> pv, proof |-> answer])]
               PROVE  \E cn, r, k :
                      /\ wallets' = [wallets EXCEPT ![Scanner] = MapInsert(@, cn, r)]
                      /\ k = r.pv.received_at + 1 /\ k \in DOMAIN entries
                      /\ Answers(Scanner, cn, r, Prefix(k), script[k].outputs)
  BY <1>1, <1>3, <1>4
<1>6. /\ answer.exit_code = 0
      /\ pv.coin_commitment = commitment(Newest.note_encs[note].data)
      /\ pv.owner_pk = pk_of(Scanner)
      /\ pv.received_at = slot
      /\ pv.board_root = merkle_root_of(entries)
      /\ \E i \in DOMAIN Newest.output_commitments :
            Newest.output_commitments[i] = pv.coin_commitment
  <2>1. answer.public_values # <<>>
    BY DecodeFacts
  <2>2. /\ answer.exit_code = 0
        /\ \E v : /\ answer.public_values = encode(v)
                  /\ v.coin_commitment = commitment(Newest.note_encs[note].data)
                  /\ v.owner_pk = pk_of(Scanner)
                  /\ v.received_at = slot
                  /\ v.board_root = merkle_root_of(entries)
                  /\ \E i \in DOMAIN Newest.output_commitments :
                        Newest.output_commitments[i] = v.coin_commitment
    BY <1>2, <2>1 DEF ReceiptOutcome, Outcome
  <2> QED BY <2>2, DecodeFacts
<1>7. commitment(coin) = pv.coin_commitment
  BY <1>6, ScanIsBody DEF Discovered, Newest
<1>8. /\ Len(entries) \in Nat \ {0} /\ DOMAIN entries = 1 .. Len(entries) /\ IsBoard
      /\ slot + 1 = Len(entries)
  BY <1>2, BoardLength, LengthsAreNat DEF Control, TypeOK, slot
<1>9. Newest.output_commitments = commitments(script[slot + 1].outputs)
  BY <1>8 DEF OutputsPosted, Newest, newest
<1>10. \E i \in DOMAIN script[slot + 1].outputs : commitment(script[slot + 1].outputs[i]) = pv.coin_commitment
  BY <1>6, <1>9 DEF commitments
<1>11. Prefix(slot + 1) = entries
  BY <1>8, WholePrefix
<1> DEFINE r == [pv |-> pv, proof |-> answer]
<1>12. r.pv = pv /\ r.proof = answer
  OBVIOUS
<1>13. Answers(Scanner, commitment(coin), r, Prefix(slot + 1), script[slot + 1].outputs)
  BY <1>6, <1>7, <1>10, <1>11 DEF Answers
<1>14. slot + 1 = r.pv.received_at + 1 /\ slot + 1 \in DOMAIN entries
  BY <1>6, <1>8
<1>15. wallets' = [wallets EXCEPT ![Scanner] = MapInsert(@, commitment(coin), r)]
  BY <1>5
<1> HIDE DEF r
<1> QED BY <1>13, <1>14, <1>15

(* Each step keeps the wallets' receipts answers to their requests.        *)
LEMMA ReceiptsStep ==
    Control /\ OutputsPosted /\ ReceiptsAnswerRequest /\ [Next]_vars => ReceiptsAnswerRequest'
<1> SUFFICES ASSUME Control, OutputsPosted, ReceiptsAnswerRequest, [Next]_vars
             PROVE  ReceiptsAnswerRequest'
  OBVIOUS
<1>1. ASSUME NEW p \in PartySet, NEW cn \in DOMAIN wallets[p]
      PROVE  \E r, k : /\ r = wallets[p][cn] /\ k = r.pv.received_at + 1 /\ k \in DOMAIN entries
                       /\ Answers(p, cn, r, Prefix(k), script[k].outputs)
  BY DEF ReceiptsAnswerRequest, Answers
<1>2. SUFFICES ASSUME NEW p \in PartySet, NEW cn \in DOMAIN wallets'[p]
               PROVE  \E r, k : /\ r = wallets'[p][cn] /\ k = r.pv.received_at + 1 /\ k \in DOMAIN entries'
                                /\ Answers(p, cn, r, Prefix(k)', script'[k].outputs)
  <2>1. ASSUME NEW p \in PartySet, NEW cn \in DOMAIN wallets'[p]
        PROVE  /\ wallets'[p][cn].pv.coin_commitment = cn
               /\ wallets'[p][cn].pv.owner_pk = pk_of(p)
               /\ wallets'[p][cn].pv.received_at + 1 \in DOMAIN entries'
               /\ wallets'[p][cn].pv.board_root =
                      merkle_root_of(SubSeq(entries', 1, wallets'[p][cn].pv.received_at + 1))
               /\ \E i \in DOMAIN script'[wallets'[p][cn].pv.received_at + 1].outputs :
                     commitment(script'[wallets'[p][cn].pv.received_at + 1].outputs[i]) = cn
               /\ wallets'[p][cn].proof.exit_code = 0
    BY <1>2, <2>1 DEF Answers, Prefix
  <2> QED BY <2>1 DEF ReceiptsAnswerRequest, Prefix
<1>3. UNCHANGED script
  BY DEF Next, HostStep, Ended, vars, BuildSpend, AcceptSpend, PassNote, Bootstrap, NextWallet,
         ProveReceipt, FileReceipt, InsertNullifier, ExecuteReceipt, DecodeExecuted, BenchValidate,
         BenchReport, ChildProves, ChildDies
<1>4. /\ \A k \in DOMAIN entries : k \in DOMAIN entries'
      /\ \A k \in DOMAIN entries : Prefix(k)' = Prefix(k)
  <2>1. CASE UNCHANGED entries
    BY <2>1 DEF Prefix
  <2>2. CASE AcceptSpend /\ ~UNCHANGED entries
    <3>1. PICK e : entries' = Append(entries, e)
      BY <2>2 DEF AcceptSpend, PostEntry
    <3>2. IsBoard /\ Len(entries) \in Nat /\ DOMAIN entries = 1 .. Len(entries)
      BY BoardLength DEF Control
    <3>3. DOMAIN entries' = 1 .. Len(entries) + 1
      BY <3>1, <3>2, BoardGrows
    <3>4. ASSUME NEW k \in DOMAIN entries PROVE Prefix(k)' = Prefix(k)
      <4>1. k \in 0 .. Len(entries)
        BY <3>2
      <4> QED BY <3>1, <3>2, <4>1, BoardGrows
    <3> QED BY <3>2, <3>3, <3>4
  <2> QED BY <2>1, <2>2 DEF Next, HostStep, Ended, vars, BuildSpend, PassNote, Bootstrap, NextWallet,
         ProveReceipt, FileReceipt, InsertNullifier, ExecuteReceipt, DecodeExecuted, BenchValidate,
         BenchReport, ChildProves, ChildDies
<1>5. CASE cn \in DOMAIN wallets[p] /\ wallets'[p][cn] = wallets[p][cn]
  BY <1>1, <1>3, <1>4, <1>5
<1>6. CASE FileReceipt /\ ~(cn \in DOMAIN wallets[p] /\ wallets'[p][cn] = wallets[p][cn])
  <2>1. PICK c, r, k : /\ wallets' = [wallets EXCEPT ![Scanner] = MapInsert(@, c, r)]
                       /\ k = r.pv.received_at + 1 /\ k \in DOMAIN entries
                       /\ Answers(Scanner, c, r, Prefix(k), script[k].outputs)
    BY <1>6, FiledReceipt
  <2>2. DOMAIN wallets = PartySet
    BY DEF Control, TypeOK
  <2>3. p = Scanner
    BY <1>6, <2>1, <2>2
  <2>4. wallets'[p] = MapInsert(wallets[p], c, r)
    BY <2>1, <2>2, <2>3
  <2>5. cn = c /\ wallets'[p][cn] = r
    BY <1>6, <2>4 DEF MapInsert
  <2> QED BY <1>3, <1>4, <2>1, <2>3, <2>5
<1>7. UNCHANGED wallets \/ FileReceipt
  BY DEF Next, HostStep, Ended, vars, BuildSpend, AcceptSpend, PassNote, Bootstrap, NextWallet,
         ProveReceipt, InsertNullifier, ExecuteReceipt, DecodeExecuted, BenchValidate,
         BenchReport, ChildProves, ChildDies
<1> QED BY <1>2, <1>5, <1>6, <1>7

(* ReceiptsAnswerRequest: although run_coin_receipt compares nothing of a  *)
(* receipt's public values with what it asked for, the receipt a wallet    *)
(* holds is of the coin it is filed under, at the slot that created it.    *)
THEOREM ReceiptsAnswer == Spec => []ReceiptsAnswerRequest
<1>1. Init => ReceiptsAnswerRequest
  BY EmptySeq DEF Init, ReceiptsAnswerRequest
<1> QED BY <1>1, ReceiptsStep, ControlHolds, PostedHolds, PTL DEF Spec
-----------------------------------------------------------------------------
(* The words of a value are stored from a place on.                        *)
Stored(raw, value, from, n) == \A j \in 1 .. n : raw[from + j] = <<value, j>>

(* A byte string of n words, and what is stored in it: values, each with   *)
(* its first word's place and its number of words.                         *)
Layout(raw, n, L) ==
    /\ \E S : raw \in Seq(S)
    /\ Len(raw) = n
    /\ \A p \in L : /\ p[2] \in Nat /\ p[3] \in Nat
                    /\ p[2] + p[3] <= n
                    /\ Stored(raw, p[1], p[2], p[3])

(* A value's words are one value stored.                                   *)
LEMMA WordsAreStored ==
    ASSUME NEW v, NEW k \in Nat
    PROVE  /\ Layout(Words(v, k), k, {<<v, 0, k>>})
           /\ Words(v, k) \in Seq({<<v, j>> : j \in 1 .. k})
           /\ Len(Words(v, k)) = k
<1> DEFINE S == {<<v, j>> : j \in 1 .. k}
           w == Words(v, k)
<1>1. w \in Seq(S) /\ Len(w) = k
  BY DEF Words
<1>2. Stored(w, v, 0, k)
  BY DEF Stored, Words
<1>3. \E T : w \in Seq(T)
  BY <1>1
<1> QED BY <1>1, <1>2, <1>3 DEF Layout

(* A sequence over a set is one over any larger set.                       *)
LEMMA SeqWidens ==
    ASSUME NEW S, NEW T, NEW s \in Seq(S), S \subseteq T
    PROVE  s \in Seq(T)
OBVIOUS

(* Writing one more value at the end leaves the others where they are.     *)
LEMMA StoreNext ==
    ASSUME NEW t, NEW m \in Nat, NEW L, NEW v, NEW k \in Nat, Layout(t, m, L)
    PROVE  Layout(t \o Words(v, k), m + k, L \union {<<v, m, k>>})
<1>1. PICK R : t \in Seq(R)
  BY DEF Layout
<1> DEFINE w == Words(v, k)
           S == R \union {<<v, j>> : j \in 1 .. k}
           u == t \o w
<1>2. w \in Seq(S) /\ Len(w) = k
  <2> DEFINE W == {<<v, j>> : j \in 1 .. k}
  <2>1. w \in Seq(W) /\ Len(w) = k
    BY WordsAreStored
  <2> HIDE DEF w, W
  <2>2. W \subseteq R \union W
    OBVIOUS
  <2>3. w \in Seq(R \union W)
    BY <2>1, <2>2, SeqWidens
  <2> QED BY <2>1, <2>3 DEF W
<1>3. t \in Seq(S) /\ Len(t) = m
  BY <1>1, SeqWidens DEF Layout
<1>4. \A j \in 1 .. k : w[j] = <<v, j>>
  BY DEF Words
<1> HIDE DEF w, S
<1>5. u \in Seq(S) /\ Len(u) = m + k
  BY <1>2, <1>3
<1>6. \A j \in 1 .. m : u[j] = t[j]
  BY <1>2, <1>3
<1>7. \A j \in 1 .. k : u[m + j] = w[j]
  BY <1>2, <1>3
<1> HIDE DEF u
<1>8. Stored(u, v, m, k)
  BY <1>4, <1>7 DEF Stored
<1>9. ASSUME NEW p \in L
      PROVE  /\ p[2] \in Nat /\ p[3] \in Nat /\ p[2] + p[3] <= m + k
             /\ Stored(u, p[1], p[2], p[3])
  <2>1. /\ p[2] \in Nat /\ p[3] \in Nat /\ p[2] + p[3] <= m
        /\ Stored(t, p[1], p[2], p[3])
    BY DEF Layout
  <2>2. ASSUME NEW j \in 1 .. p[3] PROVE u[p[2] + j] = <<p[1], j>>
    <3>1. p[2] + j \in 1 .. m
      BY <2>1
    <3> QED BY <2>1, <3>1, <1>6 DEF Stored
  <2> QED BY <2>1, <2>2 DEF Stored
<1>10. Layout(u, m + k, L \union {<<v, m, k>>})
  <2>1. \E T : u \in Seq(T)
    BY <1>5
  <2>2. ASSUME NEW p \in L \union {<<v, m, k>>}
        PROVE  /\ p[2] \in Nat /\ p[3] \in Nat /\ p[2] + p[3] <= m + k
               /\ Stored(u, p[1], p[2], p[3])
    <3>1. CASE p \in L
      BY <3>1, <1>9
    <3>2. CASE p = <<v, m, k>>
      <4>1. p[1] = v /\ p[2] = m /\ p[3] = k
        BY <3>2
      <4> QED BY <4>1, <1>8
    <3> QED BY <3>1, <3>2
  <2> QED BY <1>5, <2>1, <2>2 DEF Layout
<1> QED BY <1>10 DEF u, w

(* Cutting out exactly a stored value yields its words.                    *)
LEMMA ReadStored ==
    ASSUME NEW t, NEW m \in Nat, NEW L, Layout(t, m, L), NEW p \in L
    PROVE  SubSeq(t, p[2] + 1, p[2] + p[3]) = Words(p[1], p[3])
<1>1. PICK R : t \in Seq(R)
  BY DEF Layout
<1>2. /\ p[2] \in Nat /\ p[3] \in Nat /\ p[2] + p[3] <= m
      /\ Stored(t, p[1], p[2], p[3])
  BY DEF Layout
<1>3. Len(t) = m
  BY DEF Layout
<1>7. PICK f \in Nat, k \in Nat : f = p[2] /\ k = p[3]
  BY <1>2
<1>4. PICK v : f = p[2] /\ k = p[3] /\ v = p[1]
  BY <1>7
<1> DEFINE s == SubSeq(t, f + 1, f + k)
<1>5. s = [j \in 1 .. k |-> t[f + j]]
  <2>1. f + 1 \in 1 .. Len(t) + 1 /\ f + k \in f + 1 - 1 .. Len(t)
    BY <1>2, <1>3, <1>4, SMTT(60)
  <2>2. Len(s) = k /\ s \in Seq(R) /\ \A j \in 1 .. k : s[j] = t[f + j]
    BY <1>1, <2>1, SubSeqProperties
  <2> HIDE DEF s
  <2>3. s = [j \in 1 .. Len(s) |-> s[j]]
    BY <2>2
  <2> QED BY <2>2, <2>3
<1>6. \A j \in 1 .. k : t[f + j] = <<v, j>>
  BY <1>2, <1>4 DEF Stored
<1> QED BY <1>4, <1>5, <1>6 DEF Words

(* Cutting a piece out of a byte string keeps the values that are wholly   *)
(* in it.                                                                  *)
LEMMA Cut ==
    ASSUME NEW t, NEW m \in Nat, NEW L, NEW f \in Nat, NEW g \in Nat, NEW M, NEW i, NEW n,
           Layout(t, m, L), f <= g, g <= m, i = f + 1, n = g - f,
           \A q \in M : \E p \in L : q = <<p[1], p[2] - f, p[3]>> /\ f <= p[2] /\ p[2] + p[3] <= g
    PROVE  Layout(SubSeq(t, i, g), n, M)
<1>1. PICK R : t \in Seq(R)
  BY DEF Layout
<1>3. Len(t) = m
  BY DEF Layout
<1> DEFINE s == SubSeq(t, f + 1, g)
<1>4. s \in Seq(R) /\ Len(s) = g - f
  BY <1>1, <1>3, SubSeqProperties
<1>5. \A j \in 1 .. g - f : s[j] = t[f + j]
  BY <1>1, <1>3, SubSeqProperties
<1> HIDE DEF s
<1>6. ASSUME NEW q \in M
      PROVE  /\ q[2] \in Nat /\ q[3] \in Nat /\ q[2] + q[3] <= g - f
             /\ Stored(s, q[1], q[2], q[3])
  <2>1. PICK p \in L : q = <<p[1], p[2] - f, p[3]>> /\ f <= p[2] /\ p[2] + p[3] <= g
    OBVIOUS
  <2>2. /\ p[2] \in Nat /\ p[3] \in Nat /\ p[2] + p[3] <= m
        /\ Stored(t, p[1], p[2], p[3])
    BY DEF Layout
  <2>3. q[1] = p[1] /\ q[2] = p[2] - f /\ q[3] = p[3]
    BY <2>1
  <2>4. ASSUME NEW j \in 1 .. q[3] PROVE s[q[2] + j] = <<q[1], j>>
    <3>1. q[2] + j \in 1 .. g - f /\ f + (q[2] + j) = p[2] + j
      BY <2>1, <2>2, <2>3
    <3> QED BY <1>5, <2>2, <2>3, <3>1 DEF Stored
  <2> QED BY <2>1, <2>2, <2>3, <2>4 DEF Stored
<1>7. \E T : s \in Seq(T)
  BY <1>4
<1> QED BY <1>4, <1>6, <1>7 DEF Layout, s

(* What groth16_vk.bin holds, and where.                                   *)
VkLayout ==
    {<< <<"alpha">>, 0, 8>>, << <<"beta1">>, 8, 8>>, << <<"beta2">>, 16, 16>>,
     << <<"gamma">>, 32, 16>>, << <<"delta1">>, 48, 8>>, << <<"delta2">>, 56, 16>>,
     << <<"u32", 6>>, 72, 1>>, << <<"k", 0>>, 73, 8>>, << <<"k", 1>>, 81, 8>>,
     << <<"k", 2>>, 89, 8>>, << <<"k", 3>>, 97, 8>>, << <<"k", 4>>, 105, 8>>,
     << <<"k", 5>>, 113, 8>>, << <<"u32", 0>>, 121, 1>>, << <<"u32", 0>>, 122, 1>>}

(* The file is written value after value.                                  *)
LEMMA VkIsLaidOut == Layout(GROTH16_VK_BYTES, 123, VkLayout)
<1> DEFINE t0 == Words(<<"alpha">>, 8)
           t1 == t0 \o Words(<<"beta1">>, 8)
           t2 == t1 \o Words(<<"beta2">>, 16)
           t3 == t2 \o Words(<<"gamma">>, 16)
           t4 == t3 \o Words(<<"delta1">>, 8)
           t5 == t4 \o Words(<<"delta2">>, 16)
           t6 == t5 \o Words(<<"u32", 6>>, 1)
           t7 == t6 \o Words(<<"k", 0>>, 8)
           t8 == t7 \o Words(<<"k", 1>>, 8)
           t9 == t8 \o Words(<<"k", 2>>, 8)
           t10 == t9 \o Words(<<"k", 3>>, 8)
           t11 == t10 \o Words(<<"k", 4>>, 8)
           t12 == t11 \o Words(<<"k", 5>>, 8)
           t13 == t12 \o Words(<<"u32", 0>>, 1)
           t14 == t13 \o Words(<<"u32", 0>>, 1)
           L0 == {<< <<"alpha">>, 0, 8>>}
           L1 == L0 \union {<< <<"beta1">>, 8, 8>>}
           L2 == L1 \union {<< <<"beta2">>, 16, 16>>}
           L3 == L2 \union {<< <<"gamma">>, 32, 16>>}
           L4 == L3 \union {<< <<"delta1">>, 48, 8>>}
           L5 == L4 \union {<< <<"delta2">>, 56, 16>>}
           L6 == L5 \union {<< <<"u32", 6>>, 72, 1>>}
           L7 == L6 \union {<< <<"k", 0>>, 73, 8>>}
           L8 == L7 \union {<< <<"k", 1>>, 81, 8>>}
           L9 == L8 \union {<< <<"k", 2>>, 89, 8>>}
           L10 == L9 \union {<< <<"k", 3>>, 97, 8>>}
           L11 == L10 \union {<< <<"k", 4>>, 105, 8>>}
           L12 == L11 \union {<< <<"k", 5>>, 113, 8>>}
           L13 == L12 \union {<< <<"u32", 0>>, 121, 1>>}
           L14 == L13 \union {<< <<"u32", 0>>, 122, 1>>}
<1>0. Layout(t0, 8, L0)
  BY WordsAreStored
<1>1. Layout(t1, 16, L1)
  <2> HIDE DEF t0, L0
  <2>1. Layout(t1, 8 + 8, L1)
    BY <1>0, StoreNext, ZenonT(60)
  <2> QED BY <2>1
<1>2. Layout(t2, 32, L2)
  <2> HIDE DEF t1, L1
  <2>1. Layout(t2, 16 + 16, L2)
    BY <1>1, StoreNext, ZenonT(60)
  <2> QED BY <2>1
<1>3. Layout(t3, 48, L3)
  <2> HIDE DEF t2, L2
  <2>1. Layout(t3, 32 + 16, L3)
    BY <1>2, StoreNext, ZenonT(60)
  <2> QED BY <2>1
<1>4. Layout(t4, 56, L4)
  <2> HIDE DEF t3, L3
  <2>1. Layout(t4, 48 + 8, L4)
    BY <1>3, StoreNext, ZenonT(60)
  <2> QED BY <2>1
<1>5. Layout(t5, 72, L5)
  <2> HIDE DEF t4, L4
  <2>1. Layout(t5, 56 + 16, L5)
    BY <1>4, StoreNext, ZenonT(60)
  <2> QED BY <2>1
<1>6. Layout(t6, 73, L6)
  <2> HIDE DEF t5, L5
  <2>1. Layout(t6, 72 + 1, L6)
    BY <1>5, StoreNext, ZenonT(60)
  <2> QED BY <2>1
<1>7. Layout(t7, 81, L7)
  <2> HIDE DEF t6, L6
  <2>1. Layout(t7, 73 + 8, L7)
    BY <1>6, StoreNext, ZenonT(60)
  <2> QED BY <2>1
<1>8. Layout(t8, 89, L8)
  <2> HIDE DEF t7, L7
  <2>1. Layout(t8, 81 + 8, L8)
    BY <1>7, StoreNext, ZenonT(60)
  <2> QED BY <2>1
<1>9. Layout(t9, 97, L9)
  <2> HIDE DEF t8, L8
  <2>1. Layout(t9, 89 + 8, L9)
    BY <1>8, StoreNext, ZenonT(60)
  <2> QED BY <2>1
<1>10. Layout(t10, 105, L10)
  <2> HIDE DEF t9, L9
  <2>1. Layout(t10, 97 + 8, L10)
    BY <1>9, StoreNext, ZenonT(60)
  <2> QED BY <2>1
<1>11. Layout(t11, 113, L11)
  <2> HIDE DEF t10, L10
  <2>1. Layout(t11, 105 + 8, L11)
    BY <1>10, StoreNext, ZenonT(60)
  <2> QED BY <2>1
<1>12. Layout(t12, 121, L12)
  <2> HIDE DEF t11, L11
  <2>1. Layout(t12, 113 + 8, L12)
    BY <1>11, StoreNext, ZenonT(60)
  <2> QED BY <2>1
<1>13. Layout(t13, 122, L13)
  <2> HIDE DEF t12, L12
  <2>1. Layout(t13, 121 + 1, L13)
    BY <1>12, StoreNext, ZenonT(60)
  <2> QED BY <2>1
<1>14. Layout(t14, 123, L14)
  <2> HIDE DEF t13, L13
  <2>1. Layout(t14, 122 + 1, L14)
    BY <1>13, StoreNext, ZenonT(60)
  <2> QED BY <2>1
<1>15. GROTH16_VK_BYTES = t14
  BY DEF GROTH16_VK_BYTES, Number, NumK
<1>16. VkLayout = L14
  BY DEF VkLayout
<1> HIDE DEF t14, L14
<1> QED BY <1>14, <1>15, <1>16

(* What build_padded_vk makes of it: gamma twice where the parser looks    *)
(* for the commitment key, and the file's last number gone.                *)
PaddedLayout ==
    {<< <<"alpha">>, 0, 8>>, << <<"beta1">>, 8, 8>>, << <<"beta2">>, 16, 16>>, << <<"gamma">>, 32, 16>>,
     << <<"delta1">>, 48, 8>>, << <<"delta2">>, 56, 16>>, << <<"u32", 6>>, 72, 1>>,
     << <<"k", 0>>, 73, 8>>, << <<"k", 1>>, 81, 8>>, << <<"k", 2>>, 89, 8>>, << <<"k", 3>>, 97, 8>>,
     << <<"k", 4>>, 105, 8>>, << <<"k", 5>>, 113, 8>>, << <<"u32", 0>>, 121, 1>>,
     << <<"gamma">>, 122, 16>>, << <<"gamma">>, 138, 16>>, << <<"u32", 0>>, 154, 1>>}

(* A number is read where it was stored.                                   *)
(* A number is read where it was stored.                                   *)
LEMMA NumberIsRead ==
    ASSUME NEW t, NEW m \in Nat, NEW L, Layout(t, m, L), NEW k \in Nat, NEW at \in Nat,
           NEW from, from = 4 * at, << <<"u32", k>>, at, 1>> \in L
    PROVE  NumberAt(t, from) = k
<1> DEFINE p == << <<"u32", k>>, at, 1>>
<1>1. Stored(t, p[1], p[2], p[3])
  BY DEF Layout
<1>2. t[at + 1] = << <<"u32", k>>, 1>>
  BY <1>1 DEF Stored
<1>3. from \div 4 + 1 = at + 1
  OBVIOUS
<1> QED BY <1>2, <1>3 DEF NumberAt

(* A value is read where it was stored.                                    *)
(* A value is read back, and as one value, where it was stored.            *)
LEMMA ValueIsRead ==
    ASSUME NEW t, NEW m \in Nat, NEW L, Layout(t, m, L), NEW v, NEW k \in Nat \ {0}, NEW at \in Nat,
           NEW from, NEW len, from = 4 * at, len = 4 * k, <<v, at, k>> \in L
    PROVE  Slice(t, from, len) = Words(v, k) /\ ValueOf(Slice(t, from, len)) = {v}
<1> DEFINE p == <<v, at, k>>
<1>1. SubSeq(t, p[2] + 1, p[2] + p[3]) = Words(p[1], p[3])
  BY ReadStored
<1>2. from \div 4 + 1 = at + 1 /\ (from + len) \div 4 = at + k
  OBVIOUS
<1>3. Slice(t, from, len) = Words(v, k)
  BY <1>1, <1>2 DEF Slice
<1>4. Words(v, k)[1][1] = v /\ Len(Words(v, k)) = k
  BY WordsAreStored DEF Words
<1> QED BY <1>3, <1>4 DEF ValueOf

(* The padding of build_padded_vk starts where the key's content ends,     *)
(* which real_vk_content_len counts, and not at the end of the file.       *)
LEMMA PaddedIsLaidOut == Layout(build_padded_vk, 155, PaddedLayout)
<1> DEFINE vk == GROTH16_VK_BYTES
           gamma == Slice(vk, 128, 64)
           content == Slice(vk, 0, real_vk_content_len)
           once == content \o Words(<<"gamma">>, 16)
           twice == once \o Words(<<"gamma">>, 16)
           end == [j \in 1 .. VK_PADDED_LEN \div 4 - Len(twice) |-> Number(0)[1]]
           L1 == {<< <<"alpha">>, 0, 8>>, << <<"beta1">>, 8, 8>>, << <<"beta2">>, 16, 16>>,
                  << <<"gamma">>, 32, 16>>, << <<"delta1">>, 48, 8>>, << <<"delta2">>, 56, 16>>,
                  << <<"u32", 6>>, 72, 1>>, << <<"k", 0>>, 73, 8>>, << <<"k", 1>>, 81, 8>>,
                  << <<"k", 2>>, 89, 8>>, << <<"k", 3>>, 97, 8>>, << <<"k", 4>>, 105, 8>>,
                  << <<"k", 5>>, 113, 8>>, << <<"u32", 0>>, 121, 1>>}
           L2 == L1 \union {<< <<"gamma">>, 122, 16>>}
           L3 == L2 \union {<< <<"gamma">>, 138, 16>>}
           L4 == L3 \union {<< <<"u32", 0>>, 154, 1>>}
<1>1. Len(vk) = 123 /\ VK_PADDED_LEN = 620
  BY VkIsLaidOut DEF Layout, VK_PADDED_LEN, VK_LEN
<1>2. gamma = Words(<<"gamma">>, 16)
  <2>1. << <<"gamma">>, 32, 16>> \in VkLayout
    BY DEF VkLayout
  <2> QED BY <2>1, VkIsLaidOut, ValueIsRead
<1>3. real_vk_content_len = 488
  <2>1. << <<"u32", 6>>, 72, 1>> \in VkLayout
    BY DEF VkLayout
  <2>2. NumberAt(vk, 288) = 6
    BY <2>1, VkIsLaidOut, NumberIsRead
  <2> QED BY <2>2 DEF real_vk_content_len
<1>4. Layout(content, 122, L1)
  <2>1. content = SubSeq(vk, 1, 122)
    BY <1>3 DEF Slice
  <2>2. \A q \in L1 : \E p \in VkLayout : q = <<p[1], p[2] - 0, p[3]>> /\ 0 <= p[2] /\ p[2] + p[3] <= 122
    <3>1. L1 \subseteq VkLayout
      BY DEF VkLayout
    <3>2. \A q \in L1 : q = <<q[1], q[2] - 0, q[3]>> /\ 0 <= q[2] /\ q[2] + q[3] <= 122
      OBVIOUS
    <3> QED BY <3>1, <3>2, ZenonT(60)
  <2> HIDE DEF L1
  <2>3. Layout(SubSeq(vk, 1, 122), 122, L1)
    BY <2>2, VkIsLaidOut, Cut
  <2> QED BY <2>1, <2>3
<1>5. Layout(once, 138, L2)
  <2> HIDE DEF content, L1
  <2>1. Layout(once, 122 + 16, L2)
    BY <1>4, StoreNext, ZenonT(60)
  <2> QED BY <2>1
<1>6. Layout(twice, 154, L3)
  <2> HIDE DEF once, L2
  <2>1. Layout(twice, 138 + 16, L3)
    BY <1>5, StoreNext, ZenonT(60)
  <2> QED BY <2>1
<1>7. end = Words(<<"u32", 0>>, 1)
  <2>1. Len(twice) = 154
    BY <1>6 DEF Layout
  <2> HIDE DEF twice
  <2>2. VK_PADDED_LEN \div 4 - Len(twice) = 1
    BY <1>1, <2>1
  <2> QED BY <2>2 DEF Number, Words
<1>8. Layout(twice \o end, 155, L4)
  <2> HIDE DEF content, once, twice, L1, L2, L3, L4, end
  <2>1. Layout(twice \o Words(<<"u32", 0>>, 1), 154 + 1, L3 \union {<<<<"u32", 0>>, 154, 1>>})
    <3>1. 154 \in Nat /\ 1 \in Nat
      OBVIOUS
    <3> QED BY <1>6, <3>1, StoreNext, ZenonT(60)
  <2>2. L4 = L3 \union {<<<<"u32", 0>>, 154, 1>>}
    BY DEF L4
  <2> QED BY <1>7, <2>1, <2>2
<1>9. build_padded_vk = twice \o end
  BY <1>2 DEF build_padded_vk
<1>10. PaddedLayout = L4
  BY DEF PaddedLayout
<1> HIDE DEF twice, end, L4
<1> QED BY <1>8, <1>9, <1>10

(* SP1's verifying key, as the verifier's type has it.                     *)
SpKey == [alpha |-> <<"alpha">>, beta |-> <<"beta2">>, gamma |-> <<"gamma">>, delta |-> <<"delta2">>,
          k |-> [i \in 0 .. 5 |-> <<"k", i>>]]

(* What load_verifying_key reads of the padded key: SP1's.                 *)
(* What load_groth16_verifying_key_from_bytes reads of the padded key is   *)
(* SP1's key: every point it decodes is one whole value, also those of the *)
(* commitment key that the file lacks.                                     *)
LEMMA KeyIsLoaded == load_verifying_key(build_padded_vk) = {SpKey}
<1> PICK raw : raw = build_padded_vk
  OBVIOUS
<1>1. Layout(raw, 155, PaddedLayout)
  BY PaddedIsLaidOut
<1>2. NumberAt(raw, 288) = 6
  <2>1. << <<"u32", 6>>, 72, 1>> \in PaddedLayout
    BY DEF PaddedLayout
  <2> QED BY <1>1, <2>1, NumberIsRead
<1>3. NumberAt(raw, 484) = 0
  <2>1. << <<"u32", 0>>, 121, 1>> \in PaddedLayout
    BY DEF PaddedLayout
  <2> QED BY <1>1, <2>1, NumberIsRead
<1> DEFINE num_k == NumberAt(raw, 288)
           counted == 292 + 32 * num_k
           offset[i \in 0 .. NumberAt(raw, counted)] ==
               IF i = 0 THEN counted + 4
               ELSE offset[i - 1] + 4 + 4 * NumberAt(raw, offset[i - 1])
           end == offset[NumberAt(raw, counted)]
           K(i) == <<292 + 32 * i, 32>>
           points == {<<0, 32>>, <<32, 32>>, <<64, 64>>, <<128, 64>>, <<192, 32>>, <<224, 64>>}
                       \union {K(i) : i \in 0 .. num_k - 1}
                       \union {<<end, 64>>, <<end + 64, 64>>}
           At(from, len) == ValueOf(Slice(raw, from, len))
           PointAt(p) == At(p[1], p[2])
           Point(p) == CHOOSE v \in PointAt(p) : TRUE
           key == [alpha |-> Point(<<0, 32>>), beta |-> Point(<<64, 64>>),
                   gamma |-> Point(<<128, 64>>), delta |-> Point(<<224, 64>>),
                   k |-> [i \in 0 .. num_k - 1 |-> Point(K(i))]]
<1>4. num_k = 6 /\ counted = 484
  BY <1>2
<1>5. end = 488
  <2> DEFINE Body(g) == g = [i \in 0 .. NumberAt(raw, counted) |->
                                IF i = 0 THEN counted + 4
                                ELSE g[i - 1] + 4 + 4 * NumberAt(raw, g[i - 1])]
             t == CHOOSE g : Body(g)
             h == [i \in 0 .. 0 |-> 488]
  <2>1. Body(h)
    <3>1. NumberAt(raw, counted) = 0 /\ counted + 4 = 488
      BY <1>3, <1>4
    <3> HIDE DEF counted
    <3>2. \A i \in 0 .. 0 : 488 = IF i = 0 THEN counted + 4
                                  ELSE h[i - 1] + 4 + 4 * NumberAt(raw, h[i - 1])
      BY <3>1
    <3>3. h = [i \in 0 .. 0 |-> IF i = 0 THEN counted + 4
                                ELSE h[i - 1] + 4 + 4 * NumberAt(raw, h[i - 1])]
      BY <3>2
    <3> QED BY <3>1, <3>3
  <2>2. Body(t)
    <3> HIDE DEF Body, h
    <3> QED BY <2>1
  <2>3. t[0] = counted + 4
    <3> HIDE DEF t
    <3>1. NumberAt(raw, counted) = 0
      BY <1>3, <1>4
    <3> HIDE DEF counted
    <3> QED BY <2>2, <3>1
  <2>4. end = t[0]
    <3>1. NumberAt(raw, counted) = 0
      BY <1>3, <1>4
    <3> HIDE DEF counted
    <3> QED BY <3>1
  <2> QED BY <2>3, <2>4, <1>4
<1>6. \A v, at, k, from, len : (/\ k \in Nat \ {0} /\ at \in Nat /\ from = 4 * at /\ len = 4 * k
                                /\ <<v, at, k>> \in PaddedLayout)
                                  => At(from, len) = {v}
  <2>1. 155 \in Nat
    OBVIOUS
  <2> QED BY <1>1, <2>1, ValueIsRead
<1>7. /\ At(0, 32) = {<<"alpha">>} /\ At(32, 32) = {<<"beta1">>}
      /\ At(64, 64) = {<<"beta2">>} /\ At(128, 64) = {<<"gamma">>}
      /\ At(192, 32) = {<<"delta1">>} /\ At(224, 64) = {<<"delta2">>}
      /\ At(488, 64) = {<<"gamma">>} /\ At(552, 64) = {<<"gamma">>}
  <2>1. /\ << <<"alpha">>, 0, 8>> \in PaddedLayout /\ << <<"beta1">>, 8, 8>> \in PaddedLayout
        /\ << <<"beta2">>, 16, 16>> \in PaddedLayout /\ << <<"gamma">>, 32, 16>> \in PaddedLayout
        /\ << <<"delta1">>, 48, 8>> \in PaddedLayout /\ << <<"delta2">>, 56, 16>> \in PaddedLayout
        /\ << <<"gamma">>, 122, 16>> \in PaddedLayout /\ << <<"gamma">>, 138, 16>> \in PaddedLayout
    BY DEF PaddedLayout
  <2> HIDE DEF At
  <2> QED BY <1>6, <2>1
<1>8. \A i \in 0 .. 5 : PointAt(K(i)) = {<<"k", i>>}
  <2> SUFFICES ASSUME NEW i \in 0 .. 5 PROVE PointAt(K(i)) = {<<"k", i>>}
    OBVIOUS
  <2> PICK from, at, v : from = 292 + 32 * i /\ at = 73 + 8 * i /\ v = <<"k", i>>
    OBVIOUS
  <2>1. at \in Nat /\ from = 4 * at
    OBVIOUS
  <2>2. <<v, at, 8>> \in PaddedLayout
    <3>1. i = 0 \/ i = 1 \/ i = 2 \/ i = 3 \/ i = 4 \/ i = 5
      OBVIOUS
    <3> QED BY <3>1 DEF PaddedLayout
  <2>3. At(from, 32) = {v}
    <3> HIDE DEF At
    <3> QED BY <1>6, <2>1, <2>2
  <2> QED BY <2>3
<1>9. \A p \in points : PointAt(p) # {}
  <2>1. points = {<<0, 32>>, <<32, 32>>, <<64, 64>>, <<128, 64>>, <<192, 32>>, <<224, 64>>}
                   \union {K(i) : i \in 0 .. 5} \union {<<488, 64>>, <<552, 64>>}
    <3> HIDE DEF end, num_k
    <3> QED BY <1>4, <1>5
  <2>2. \A p \in {K(i) : i \in 0 .. 5} : PointAt(p) # {}
    <3> HIDE DEF PointAt, K
    <3> QED BY <1>8
  <2>3. /\ At(0, 32) # {} /\ At(32, 32) # {}
        /\ At(64, 64) # {} /\ At(128, 64) # {}
        /\ At(192, 32) # {} /\ At(224, 64) # {}
        /\ At(488, 64) # {} /\ At(552, 64) # {}
    <3>1. \A v : {v} # {}
      OBVIOUS
    <3> HIDE DEF At
    <3> QED BY <1>7, <3>1, ZenonT(60)
  <2>4. ASSUME NEW p \in {<<0, 32>>, <<32, 32>>, <<64, 64>>, <<128, 64>>, <<192, 32>>, <<224, 64>>}
        PROVE  PointAt(p) # {}
    <3>1. \/ p[1] \in {0, 32, 192} /\ p[2] = 32
          \/ p[1] \in {64, 128, 224} /\ p[2] = 64
      OBVIOUS
    <3> HIDE DEF At
    <3> QED BY <2>3, <3>1
  <2>5. ASSUME NEW p \in {<<488, 64>>, <<552, 64>>}
        PROVE  PointAt(p) # {}
    <3>1. p[1] \in {488, 552} /\ p[2] = 64
      OBVIOUS
    <3> HIDE DEF At
    <3> QED BY <2>3, <3>1
  <2> HIDE DEF PointAt, points, K
  <2> QED BY <2>1, <2>2, <2>4, <2>5
<1>10. key = SpKey
  <2>1. \A i \in 0 .. 5 : Point(K(i)) = <<"k", i>>
    <3> HIDE DEF PointAt, K
    <3> QED BY <1>8
  <2>2. /\ Point(<<0, 32>>) = <<"alpha">> /\ Point(<<64, 64>>) = <<"beta2">>
        /\ Point(<<128, 64>>) = <<"gamma">> /\ Point(<<224, 64>>) = <<"delta2">>
    <3> HIDE DEF At
    <3> QED BY <1>7
  <2> HIDE DEF Point, K, num_k
  <2>3. [i \in 0 .. num_k - 1 |-> Point(K(i))] = [i \in 0 .. 5 |-> <<"k", i>>]
    BY <1>4, <2>1
  <2> QED BY <2>2, <2>3 DEF SpKey
<1>11. load_verifying_key(raw) = IF \A p \in points : PointAt(p) # {} THEN {key} ELSE {}
  BY Zenon DEF load_verifying_key
<1> HIDE DEF points, key, PointAt
<1> QED BY <1>9, <1>10, <1>11

(* What the bytes of a proof of the statement s hold of it, and where.     *)
ProofLayout(s) ==
    {<<s[3], 1, 8>>, <<s[4], 9, 8>>, <<s[5], 17, 8>>,
     << <<"ar", s>>, 25, 16>>, << <<"bs", s>>, 41, 32>>, << <<"krs", s>>, 73, 16>>}

(* The proof's bytes are written value after value.                        *)
LEMMA ProofIsLaidOut == ASSUME NEW s PROVE Layout(proof_bytes_of(s), 89, ProofLayout(s))
<1> DEFINE t0 == Words(<<"vk hash prefix">>, 1)
           t1 == t0 \o Words(s[3], 8)
           t2 == t1 \o Words(s[4], 8)
           t3 == t2 \o Words(s[5], 8)
           t4 == t3 \o Words(<<"ar", s>>, 16)
           t5 == t4 \o Words(<<"bs", s>>, 32)
           t6 == t5 \o Words(<<"krs", s>>, 16)
           L0 == {<< <<"vk hash prefix">>, 0, 1>>}
           L1 == L0 \union {<<s[3], 1, 8>>}
           L2 == L1 \union {<<s[4], 9, 8>>}
           L3 == L2 \union {<<s[5], 17, 8>>}
           L4 == L3 \union {<< <<"ar", s>>, 25, 16>>}
           L5 == L4 \union {<< <<"bs", s>>, 41, 32>>}
           L6 == L5 \union {<< <<"krs", s>>, 73, 16>>}
<1>0. Layout(t0, 1, L0)
  BY WordsAreStored
<1>1. Layout(t1, 9, L1)
  <2> HIDE DEF t0, L0
  <2>1. Layout(t1, 1 + 8, L1)
    BY <1>0, StoreNext, ZenonT(60)
  <2> QED BY <2>1
<1>2. Layout(t2, 17, L2)
  <2> HIDE DEF t1, L1
  <2>1. Layout(t2, 9 + 8, L2)
    BY <1>1, StoreNext, ZenonT(60)
  <2> QED BY <2>1
<1>3. Layout(t3, 25, L3)
  <2> HIDE DEF t2, L2
  <2>1. Layout(t3, 17 + 8, L3)
    BY <1>2, StoreNext, ZenonT(60)
  <2> QED BY <2>1
<1>4. Layout(t4, 41, L4)
  <2> HIDE DEF t3, L3
  <2>1. Layout(t4, 25 + 16, L4)
    BY <1>3, StoreNext, ZenonT(60)
  <2> QED BY <2>1
<1>5. Layout(t5, 73, L5)
  <2> HIDE DEF t4, L4
  <2>1. Layout(t5, 41 + 32, L5)
    BY <1>4, StoreNext, ZenonT(60)
  <2> QED BY <2>1
<1>6. Layout(t6, 89, L6)
  <2> HIDE DEF t5, L5
  <2>1. Layout(t6, 73 + 16, L6)
    BY <1>5, StoreNext, ZenonT(60)
  <2> QED BY <2>1
<1>7. proof_bytes_of(s) = t6
  BY DEF proof_bytes_of
<1>8. ProofLayout(s) \subseteq L6
  BY DEF ProofLayout
<1> HIDE DEF t6, L6
<1> QED BY <1>6, <1>7, <1>8 DEF Layout

(* The three points of a proof of the statement s.                         *)
GnarkProof(s) == [ar |-> <<"ar", s>>, bs |-> <<"bs", s>>, krs |-> <<"krs", s>>]

(* The fields and the points verify_sp1_spend_proof reads of a proof are   *)
(* those of the statement it is a proof of.                                *)
LEMMA ProofIsRead ==
    ASSUME NEW s
    PROVE  LET raw == proof_bytes_of(s)
           IN  /\ 4 * Len(raw) = 356
               /\ ValueOf(Slice(raw, 4, 32)) = {s[3]}
               /\ ValueOf(Slice(raw, 36, 32)) = {s[4]}
               /\ ValueOf(Slice(raw, 68, 32)) = {s[5]}
               /\ load_proof(Slice(raw, GNARK_PROOF_OFFSET, GNARK_PROOF_LEN)) = {GnarkProof(s)}
<1> PICK raw : raw = proof_bytes_of(s)
  OBVIOUS
<1>1. Layout(raw, 89, ProofLayout(s))
  BY ProofIsLaidOut
<1>2. 4 * Len(raw) = 356
  BY <1>1 DEF Layout
<1>3. \A v, at, k, from, len : (/\ k \in Nat \ {0} /\ at \in Nat /\ from = 4 * at /\ len = 4 * k
                                /\ <<v, at, k>> \in ProofLayout(s))
                                  => ValueOf(Slice(raw, from, len)) = {v}
  <2>1. 89 \in Nat
    OBVIOUS
  <2> QED BY <1>1, <2>1, ValueIsRead
<1>4. /\ <<s[3], 1, 8>> \in ProofLayout(s) /\ <<s[4], 9, 8>> \in ProofLayout(s)
      /\ <<s[5], 17, 8>> \in ProofLayout(s)
      /\ << <<"ar", s>>, 25, 16>> \in ProofLayout(s) /\ << <<"bs", s>>, 41, 32>> \in ProofLayout(s)
      /\ << <<"krs", s>>, 73, 16>> \in ProofLayout(s)
  BY DEF ProofLayout
<1>5. /\ ValueOf(Slice(raw, 4, 32)) = {s[3]}
      /\ ValueOf(Slice(raw, 36, 32)) = {s[4]}
      /\ ValueOf(Slice(raw, 68, 32)) = {s[5]}
  BY <1>3, <1>4
<1> DEFINE gnark == Slice(raw, 100, 256)
           M == {<< <<"ar", s>>, 0, 16>>, << <<"bs", s>>, 16, 32>>, << <<"krs", s>>, 48, 16>>}
<1>6. Layout(gnark, 64, M)
  <2>1. gnark = SubSeq(raw, 26, 89)
    BY DEF Slice
  <2>9. PICK f \in Nat, g \in Nat : f = 25 /\ g = 89
    OBVIOUS
  <2>0. PICK i, n : f = 25 /\ g = 89 /\ i = 26 /\ n = 64
    BY <2>9
  <2>2. \A q \in M : \E p \in ProofLayout(s) :
            q = <<p[1], p[2] - f, p[3]>> /\ f <= p[2] /\ p[2] + p[3] <= g
    <3>1. << <<"ar", s>>, 0, 16>> = << <<"ar", s>>, 25 - 25, 16>>
      OBVIOUS
    <3>2. << <<"bs", s>>, 16, 32>> = << <<"bs", s>>, 41 - 25, 32>>
      OBVIOUS
    <3>3. << <<"krs", s>>, 48, 16>> = << <<"krs", s>>, 73 - 25, 16>>
      OBVIOUS
    <3> QED BY <1>4, <2>0, <3>1, <3>2, <3>3
  <2>3. f <= g /\ g <= 89 /\ i = f + 1 /\ n = g - f
    BY <2>0
  <2> HIDE DEF M
  <2>8. PICK m \in Nat : m = 89
    OBVIOUS
  <2>4. PICK L, N : m = 89 /\ L = ProofLayout(s) /\ N = M
    BY <2>8
  <2>5. Layout(raw, m, L) /\ g <= m
    BY <1>1, <2>3, <2>4
  <2>6. \A q \in N : \E p \in L : q = <<p[1], p[2] - f, p[3]>> /\ f <= p[2] /\ p[2] + p[3] <= g
    BY <2>2, <2>4
  <2>7. Layout(SubSeq(raw, i, g), n, N)
    BY <2>3, <2>5, <2>6, Cut
  <2> QED BY <2>1, <2>4, <2>7, <2>0
<1>7. /\ ValueOf(Slice(gnark, 0, 64)) = {<<"ar", s>>}
      /\ ValueOf(Slice(gnark, 64, 128)) = {<<"bs", s>>}
      /\ ValueOf(Slice(gnark, 192, 64)) = {<<"krs", s>>}
  <2>1. /\ << <<"ar", s>>, 0, 16>> \in M /\ << <<"bs", s>>, 16, 32>> \in M
        /\ << <<"krs", s>>, 48, 16>> \in M
    OBVIOUS
  <2> HIDE DEF M, gnark
  <2>2. \A v, at, k, from, len : (/\ k \in Nat \ {0} /\ at \in Nat /\ from = 4 * at /\ len = 4 * k
                                  /\ <<v, at, k>> \in M)
                                    => ValueOf(Slice(gnark, from, len)) = {v}
    <3>1. 64 \in Nat
      OBVIOUS
    <3> QED BY <1>6, <3>1, ValueIsRead
  <2> QED BY <2>1, <2>2
<1>8. load_proof(gnark) = {GnarkProof(s)}
  <2> HIDE DEF gnark
  <2> QED BY <1>7 DEF load_proof, GnarkProof
<1> QED BY <1>2, <1>5, <1>8 DEF GNARK_PROOF_OFFSET, GNARK_PROOF_LEN

(* The pairing equation holds for a proof of the statement the inputs were *)
(* prepared from: the terms of e(ar, bs) cancel against those with minus,  *)
(* and e(alpha, beta) is left.                                             *)
LEMMA PairingHolds ==
    ASSUME NEW s
    PROVE  verify_groth16(SpKey, GnarkProof(s), Combination(SpKey.k, s))
<1> DEFINE C == Combination(SpKey.k, s)
           P == <<"alpha">>
           Q == <<"beta2">>
           G == <<"gamma">>
           D == <<"delta2">>
           A == <<"ar", s>>
           B == <<"bs", s>>
           K == <<"krs", s>>
           terms == {<<A, 1, B>>, <<C, -1, G>>, <<K, -1, D>>}
           sum == UNION {pairing(t[1], t[2], t[3]) : t \in terms}
           T == {<<1, P, Q>>, <<1, C, G>>, <<1, K, D>>, <<-1, C, G>>, <<-1, K, D>>}
<1>1. C = Combination([i \in 0 .. NumK - 1 |-> <<"k", i>>], s)
  BY DEF SpKey, NumK
<1>2. C[1] = "vk_x" /\ K[1] = "krs" /\ A[1] = "ar" /\ A[2] = s /\ P[1] = "alpha"
  BY DEF Combination
<1>3. C # P /\ K # P
  BY <1>2
<1> HIDE DEF C
<1>4. pairing(A, 1, B) = {<<1, P, Q>>, <<1, C, G>>, <<1, K, D>>}
  BY <1>1, <1>2 DEF pairing
<1>5. pairing(C, -1, G) = {<<-1, C, G>>} /\ pairing(K, -1, D) = {<<-1, K, D>>}
  BY <1>2 DEF pairing
<1>6. pairing(P, 1, Q) = {<<1, P, Q>>}
  BY <1>2 DEF pairing
<1>7. sum = T
  <2>1. \A x : x \in sum <=> x \in pairing(A, 1, B) \union pairing(C, -1, G) \union pairing(K, -1, D)
    <3> HIDE DEF A, B, G, K, D
    <3> QED OBVIOUS
  <2> HIDE DEF sum
  <2> QED BY <1>4, <1>5, <2>1
<1>8. {t \in T : <<-t[1], t[2], t[3]>> \notin T} = {<<1, P, Q>>}
  <2>1. <<-1, P, Q>> \notin T
    <3> HIDE DEF P, K
    <3> QED BY <1>3
  <2>2. \A t \in T : t = <<1, P, Q>> \/ <<-t[1], t[2], t[3]>> \in T
    <3> HIDE DEF P, Q, G, K, D
    <3>1. \A n \in Int : -(-n) = n
      OBVIOUS
    <3>2. 1 \in Int
      OBVIOUS
    <3> QED BY <3>1, <3>2
  <2> HIDE DEF P, Q, G, K, D
  <2>3. <<1, P, Q>> \in T
    OBVIOUS
  <2> QED BY <2>1, <2>2, <2>3
<1>9. pairing_batch(terms) = {<<1, P, Q>>}
  <2>1. pairing_batch(terms) = {t \in sum : <<-t[1], t[2], t[3]>> \notin sum}
    BY DEF pairing_batch
  <2> HIDE DEF terms, sum, T
  <2> QED BY <1>7, <1>8, <2>1
<1>10. verify_groth16(SpKey, GnarkProof(s), C) <=> pairing_batch(terms) = pairing(P, 1, Q)
  BY DEF verify_groth16, SpKey, GnarkProof
<1> QED BY <1>6, <1>9, <1>10 DEF C

(* A guest accepts the bytes of every proof SP1 makes, given the public    *)
(* values' hash and the program's key they are of, whatever the exit code, *)
(* the recursion root and the nonce.                                       *)
LEMMA SpendProofVerifies ==
    ASSUME NEW own, NEW h, NEW e, NEW r, NEW n
    PROVE  verify_sp1_spend_proof(proof_bytes_of(SpendStatement(own, h, e, r, n)), h, HashString(own)) = "Ok"
<1> PICK s : s = SpendStatement(own, h, e, r, n)
  OBVIOUS
<1> PICK raw : raw = proof_bytes_of(s)
  OBVIOUS
<1> DEFINE gnark == Slice(raw, GNARK_PROOF_OFFSET, GNARK_PROOF_LEN)
           field(from) == CHOOSE v \in ValueOf(Slice(raw, from, 32)) : TRUE
           inputs == {SpendStatement(vkey, h, field(4), field(36), field(68)) :
                         vkey \in decode_hex32(HashString(own))}
           vks == load_verifying_key(build_padded_vk)
           proofs == load_proof(gnark)
           accepted == \E vk \in vks, proof \in proofs, i \in inputs :
                           \E x \in prepare_inputs(vk, i) : verify_groth16(vk, proof, x)
<1>1. s = <<own, h, e, r, n>>
  BY DEF SpendStatement
<1>2. /\ 4 * Len(raw) = 356
      /\ ValueOf(Slice(raw, 4, 32)) = {s[3]}
      /\ ValueOf(Slice(raw, 36, 32)) = {s[4]}
      /\ ValueOf(Slice(raw, 68, 32)) = {s[5]}
      /\ proofs = {GnarkProof(s)}
  BY ProofIsRead
<1>3. inputs = {s}
  <2>1. decode_hex32(HashString(own)) = {own}
    BY DEF decode_hex32, HashString
  <2>2. field(4) = e /\ field(36) = r /\ field(68) = n
    <3>1. s[3] = e /\ s[4] = r /\ s[5] = n
      BY <1>1
    <3> QED BY <1>2, <3>1
  <2> HIDE DEF field
  <2> QED BY <2>1, <2>2
<1>4. vks = {SpKey}
  BY KeyIsLoaded
<1>5. prepare_inputs(SpKey, s) = {Combination(SpKey.k, s)}
  <2>1. Len(s) = 5
    BY <1>1
  <2>2. PICK m \in Int : m = 5 /\ DOMAIN SpKey.k = 0 .. m
    BY DEF SpKey
  <2>3. Cardinality(0 .. m) = IF 0 > m THEN 0 ELSE m - 0 + 1
    BY FS_Interval
  <2>4. Cardinality(DOMAIN SpKey.k) = 6
    BY <2>2, <2>3
  <2> QED BY <2>1, <2>4 DEF prepare_inputs
<1>6. accepted
  <2> HIDE DEF vks, proofs, inputs
  <2> QED BY <1>2, <1>3, <1>4, <1>5, PairingHolds
<1>7. verify_sp1_spend_proof(raw, h, HashString(own))
        = IF 4 * Len(raw) < GNARK_PROOF_OFFSET + GNARK_PROOF_LEN \/ inputs = {} THEN "Err"
          ELSE IF vks = {} \/ proofs = {} THEN "panic"
          ELSE IF accepted THEN "Ok" ELSE "Err"
  BY Zenon DEF verify_sp1_spend_proof
<1>8. GNARK_PROOF_OFFSET + GNARK_PROOF_LEN = 356
  BY DEF GNARK_PROOF_OFFSET, GNARK_PROOF_LEN
<1>9. ~ (4 * Len(raw) < GNARK_PROOF_OFFSET + GNARK_PROOF_LEN)
  BY <1>2, <1>8
<1> HIDE DEF inputs, vks, proofs, accepted
<1> QED BY <1>2, <1>3, <1>4, <1>6, <1>7, <1>9

(* A package of a proof of the spend program, halted or not.               *)
GenuinePackage(pkg) ==
    /\ pkg.spend_vkey_hash = HashString(Vkey("spend"))
    /\ \E e : pkg.proof_bytes = bytes([elf |-> "spend", exit_code |-> e, public_values |-> pkg.pv_encode])

(* The validation of such a package does not halt and commits to the       *)
(* public values in it.                                                    *)
LEMMA ValidationRun ==
    ASSUME NEW pkg, GenuinePackage(pkg)
    PROVE  /\ program_vfy_g16(build_vfy_g16_stdin(pkg).items) = Committed(pkg.pv_encode, {})
           /\ build_vfy_g16_stdin(pkg).items[2] = pkg.pv_encode
<1> DEFINE items == build_vfy_g16_stdin(pkg).items
           verdict == IF items[1] = <<>> THEN "Ok"
                      ELSE verify_sp1_spend_proof(proof_bytes_of(items[1]), hash_of(items[2]), items[3])
<1>1. items[1] = pkg.proof_bytes /\ items[2] = pkg.pv_encode /\ items[3] = pkg.spend_vkey_hash
  BY DEF build_vfy_g16_stdin
<1>2. PICK e : pkg.proof_bytes = bytes([elf |-> "spend", exit_code |-> e, public_values |-> pkg.pv_encode])
  BY DEF GenuinePackage
<1>3. pkg.proof_bytes = SpendStatement(Vkey("spend"), hash_of(pkg.pv_encode), <<"exit_code", e>>,
                                       <<"vk_root">>, <<"proof_nonce">>)
  BY <1>2 DEF bytes
<1>4. pkg.spend_vkey_hash = HashString(Vkey("spend"))
  BY DEF GenuinePackage
<1>5. verify_sp1_spend_proof(proof_bytes_of(pkg.proof_bytes), hash_of(pkg.pv_encode), pkg.spend_vkey_hash) = "Ok"
  BY <1>3, <1>4, SpendProofVerifies
<1>6. verdict = "Ok"
  <2> HIDE DEF items
  <2> QED BY <1>1, <1>5
<1>7. program_vfy_g16(items) =
          CASE verdict = "Ok"    -> Committed(items[2], {})
            [] verdict = "Err"   -> Halted(<< <<"dump", items>>, <<"message">> >>)
            [] verdict = "panic" -> Halted(<< <<"message">> >>)
  <2> HIDE DEF items
  <2> QED BY DEF program_vfy_g16
<1> HIDE DEF items, verdict
<1> QED BY <1>1, <1>6, <1>7 DEF items

(* With proving on, every package on the board is of a proof of the spend  *)
(* program.                                                                *)
PackagesGenuine ==
    mode = "prove" =>
        \A k \in 1 .. Len(entries) : \A pkg \in entries[k].ciphertext.data.spend_proof : GenuinePackage(pkg)

(* A validation is only called for such a package, and while its answer    *)
(* waits it is the answer of a run that did not halt.                      *)
ValidationPending ==
    call.elf = "vfy-g16" =>
        \E pkg : /\ GenuinePackage(pkg) /\ call.stdin = build_vfy_g16_stdin(pkg)
                 /\ pc = "answered" => answer.exit_code = 0 /\ answer.public_values = pkg.pv_encode

(* What the host packages of a spend's answer is such a package, unless    *)
(* the spend was only executed.                                            *)
LEMMA PackageOfAnswer ==
    ASSUME mode # "execute", answer.elf = "spend"
    PROVE  GenuinePackage(build_spend_proof_package(answer))
<1> DEFINE pkg == build_spend_proof_package(answer)
<1>1. /\ pkg.proof_bytes = bytes(answer) /\ pkg.pv_encode = answer.public_values
      /\ pkg.spend_vkey_hash = HashString(Vkey("spend"))
  BY DEF build_spend_proof_package
<1>2. bytes(answer) = bytes([elf |-> "spend", exit_code |-> answer.exit_code,
                             public_values |-> answer.public_values])
  BY DEF bytes
<1> HIDE DEF pkg
<1>3. GenuinePackage(pkg)
  BY <1>1, <1>2 DEF GenuinePackage
<1> QED BY <1>3 DEF pkg

(* Each step keeps the packages on the board genuine: only AcceptSpend     *)
(* posts one.                                                              *)
LEMMA PackagesStep ==
    Control /\ PackagesGenuine /\ [Next]_vars => PackagesGenuine'
<1> SUFFICES ASSUME Control, PackagesGenuine, [Next]_vars PROVE PackagesGenuine'
  OBVIOUS
<1>1. CASE UNCHANGED <<mode, entries>>
  BY <1>1 DEF PackagesGenuine
<1>2. CASE AcceptSpend /\ ~UNCHANGED <<mode, entries>>
  <2> DEFINE pkg == build_spend_proof_package(answer)
             made == make_tx(Len(entries), Current)
             tx == [made EXCEPT !.spend_proof = {pkg}]
             pks == [i \in DOMAIN Current.outputs |-> Current.outputs[i].owner_pk]
             key == session_key_of(Current.sender, Len(entries))
             e == encrypt_tx(tx, pks, key)
  <2>1. PostEntry(Current, answer) /\ mode' = mode /\ pc = "answered" /\ call.elf = "spend"
    BY <1>2 DEF AcceptSpend
  <2>2. answer.elf = "spend"
    BY <2>1 DEF Control, SpendPending
  <2>3. entries' = Append(entries, e)
    BY <2>1 DEF PostEntry
  <2>4. tx.spend_proof = {pkg}
    <3> HIDE DEF pkg
    <3> QED BY DEF make_tx
  <2>5. e.ciphertext.data = tx
    <3> HIDE DEF tx, pks, key
    <3> QED BY DEF encrypt_tx, Wrap
  <2>6. IsBoard /\ Len(entries) \in Nat
    BY BoardLength DEF Control
  <2>7. /\ Len(entries') = Len(entries) + 1 /\ entries'[Len(entries) + 1] = e
        /\ \A k \in 1 .. Len(entries) : entries'[k] = entries[k]
    BY <2>3, <2>6, BoardGrows
  <2>8. mode = "prove" => GenuinePackage(pkg)
    BY <2>2, PackageOfAnswer
  <2> HIDE DEF e, tx, pkg
  <2>9. ASSUME mode = "prove", NEW k \in 1 .. Len(entries'), NEW g \in entries'[k].ciphertext.data.spend_proof
        PROVE  GenuinePackage(g)
    <3>1. CASE k = Len(entries) + 1
      BY <2>4, <2>5, <2>7, <2>8, <2>9, <3>1
    <3>2. CASE k \in 1 .. Len(entries)
      BY <2>7, <2>9, <3>2 DEF PackagesGenuine
    <3> QED BY <2>6, <2>7, <3>1, <3>2
  <2> QED BY <2>1, <2>9 DEF PackagesGenuine
<1> QED BY <1>1, <1>2 DEF Next, HostStep, Ended, vars, BuildSpend, PassNote, Bootstrap, NextWallet,
       ProveReceipt, FileReceipt, InsertNullifier, ExecuteReceipt, DecodeExecuted, BenchValidate,
       BenchReport, ChildProves, ChildDies

(* Each step keeps the pending validation one of a genuine package: of the *)
(* newest entry's, which scan_entry recovers, or in the bench of the proof *)
(* that just came back.                                                    *)
LEMMA ValidationStep ==
    Control /\ PackagesGenuine /\ ValidationPending /\ [Next]_vars => ValidationPending'
<1> SUFFICES ASSUME Control, PackagesGenuine, ValidationPending, [Next]_vars PROVE ValidationPending'
  OBVIOUS
<1>1. CASE call' = call /\ (pc' # "answered" \/ (pc' = pc /\ answer' = answer))
  BY <1>1 DEF ValidationPending
<1>2. CASE call'.elf # "vfy-g16"
  BY <1>2 DEF ValidationPending
<1>3. CASE \E pkg : GenuinePackage(pkg) /\ Call("vfy-g16", build_vfy_g16_stdin(pkg))
  BY <1>3, CallFacts DEF ValidationPending
<1>4. CASE BuildSpend
  <2>1. \/ call' = call /\ pc' = "panicked"
        \/ \E stdin : Call("spend", stdin)
    BY <1>4 DEF BuildSpend
  <2> QED BY <1>1, <1>2, <2>1, CallFacts
<1>5. CASE ProveReceipt \/ ExecuteReceipt
  <2>1. \E stdin : Call("coinproof", stdin)
    BY <1>5 DEF ProveReceipt, ExecuteReceipt
  <2> QED BY <1>2, <2>1, CallFacts
<1>6. CASE Bootstrap
  <2>1. PICK tx \in scan_entry(Scanner, newest) :
            \E pkg \in tx.spend_proof : Call("vfy-g16", build_vfy_g16_stdin(pkg))
    BY <1>6 DEF Bootstrap
  <2> PICK pkg \in tx.spend_proof : Call("vfy-g16", build_vfy_g16_stdin(pkg))
    BY <2>1
  <2>2. mode = "prove" /\ turn # 0
    BY <1>6, LengthsAreNat DEF Bootstrap
  <2>3. Len(entries) \in 1 .. Len(entries)
    BY <2>2, BoardLength DEF Control, TypeOK
  <2>4. pkg \in entries[Len(entries)].ciphertext.data.spend_proof
    BY <2>1, ScanIsBody DEF newest
  <2>5. GenuinePackage(pkg)
    BY <2>2, <2>3, <2>4 DEF PackagesGenuine
  <2> QED BY <1>3, <2>5
<1>7. CASE BenchValidate
  <2>1. pc = "answered" /\ mode = "bench-vfy-g16" /\ call.elf = "spend"
        /\ Call("vfy-g16", build_vfy_g16_stdin(build_spend_proof_package(answer)))
    BY <1>7 DEF BenchValidate
  <2>2. answer.elf = "spend"
    BY <2>1 DEF Control, SpendPending
  <2>3. GenuinePackage(build_spend_proof_package(answer))
    BY <2>1, <2>2, PackageOfAnswer
  <2> QED BY <1>3, <2>1, <2>3
<1>8. CASE ChildProves
  <2>1. call' = call /\ pc' \in {"panicked", "answered"}
    BY <1>8 DEF ChildProves
  <2> SUFFICES ASSUME pc' = "answered", call.elf = "vfy-g16" PROVE ValidationPending'
    BY <1>1, <1>2, <2>1
  <2>2. PICK pkg : GenuinePackage(pkg) /\ call.stdin = build_vfy_g16_stdin(pkg)
    BY DEF ValidationPending
  <2> DEFINE run == execute(call.elf, call.stdin)
             answers == IF InProcess
                        THEN {[elf |-> call.elf, exit_code |-> run.exit_code, public_values |-> run.output]}
                        ELSE prove(call.elf, call.stdin)
  <2>3. run = Committed(pkg.pv_encode, {})
    BY <2>2, ValidationRun DEF execute
  <2>4. \A a \in answers : a.exit_code = run.exit_code /\ a.public_values = run.output
    BY DEF prove
  <2>5. answer' \in answers
    BY <1>8 DEF ChildProves
  <2>6. answer'.exit_code = 0 /\ answer'.public_values = pkg.pv_encode
    BY <2>3, <2>4, <2>5 DEF Committed
  <2> QED BY <2>1, <2>2, <2>6 DEF ValidationPending
<1>9. CASE AcceptSpend \/ FileReceipt
  <2>1. call'.elf # "vfy-g16"
    BY <1>9 DEF AcceptSpend, FileReceipt, NoCall
  <2> QED BY <1>2, <2>1
<1>10. CASE PassNote \/ NextWallet \/ InsertNullifier \/ DecodeExecuted \/ BenchReport \/ ChildDies
            \/ UNCHANGED vars
  <2>1. call' = call /\ (pc' # "answered" \/ (pc' = pc /\ answer' = answer))
    BY <1>10 DEF PassNote, NextWallet, InsertNullifier, DecodeExecuted, BenchReport, ChildDies, vars
  <2> QED BY <1>1, <2>1
<1> QED BY <1>4, <1>5, <1>6, <1>7, <1>8, <1>9, <1>10 DEF Next, HostStep, Ended

(* So while a validation is pending, its package is genuine and its run    *)
(* does not halt.                                                          *)
LEMMA ValidationsPend == Spec => []ValidationPending
<1>1. Init => PackagesGenuine /\ ValidationPending
  BY EmptySeq DEF Init, PackagesGenuine, ValidationPending, NoCall
<1> QED BY <1>1, PackagesStep, ValidationStep, ControlHolds, PTL DEF Spec

(* ValidationNeverHalts: for every script, list of wallets and depth of    *)
(* the trees, the VFY-G16 guest accepts each spend proof the host gives it *)
(* and hands on the public values it was given.                            *)
THEOREM ValidationsHold == Spec => []ValidationNeverHalts
<1>1. ValidationPending => ValidationNeverHalts
  <2> SUFFICES ASSUME ValidationPending, pc = "answered", call.elf = "vfy-g16"
               PROVE  answer.exit_code = 0 /\ answer.public_values = call.stdin.items[2]
    BY DEF ValidationNeverHalts
  <2>1. PICK pkg : /\ GenuinePackage(pkg) /\ call.stdin = build_vfy_g16_stdin(pkg)
                   /\ answer.exit_code = 0 /\ answer.public_values = pkg.pv_encode
    BY DEF ValidationPending
  <2>2. call.stdin.items[2] = pkg.pv_encode
    BY <2>1, ValidationRun
  <2> QED BY <2>1, <2>2
<1> QED BY <1>1, ValidationsPend, PTL

-----------------------------------------------------------------------------
(* What the assumptions say of one transfer of a script.                   *)
LEMMA TransferFacts ==
    ASSUME NEW s \in Scripts, NEW k \in 1 .. Len(s)
    PROVE  /\ k \in DOMAIN s /\ s[k] \in TransferSet
           /\ s[k].sender \in Senders
           /\ 1 \in DOMAIN s[k].inputs /\ DOMAIN s[k].inputs = 1 .. Len(s[k].inputs)
           /\ 1 \in DOMAIN s[k].outputs /\ DOMAIN s[k].outputs = 1 .. Len(s[k].outputs)
           /\ Len(s[k].outputs) \in Nat
           /\ \A i \in DOMAIN s[k].outputs : \E p \in PartySet : s[k].outputs[i].owner_pk = pk_of(p)
           /\ <<commitment(s[k].inputs[1]), s[k].sender>> \in DOMAIN NullifierOf
           /\ nullifier(commitment(s[k].inputs[1]), s[k].sender) \in Nullifiers
<1>1. s \in Seq(TransferSet) /\ k \in DOMAIN s
  BY ScriptsAssumption
<1>2. s[k] \in TransferSet
  BY <1>1
<1>3. \A c \in Seq(Coins) \ {<<>>} : 1 \in DOMAIN c /\ DOMAIN c = 1 .. Len(c) /\ Len(c) \in Nat
  <2> SUFFICES ASSUME NEW c \in Seq(Coins) \ {<<>>}
               PROVE  1 \in DOMAIN c /\ DOMAIN c = 1 .. Len(c) /\ Len(c) \in Nat
    OBVIOUS
  <2>1. DOMAIN c = 1 .. Len(c) /\ Len(c) \in Nat
    BY LenProperties
  <2>2. Len(c) # 0
    BY EmptySeq
  <2> QED BY <2>1, <2>2
<1>4. /\ <<commitment(s[k].inputs[1]), s[k].sender>> \in DOMAIN NullifierOf
      /\ \A i \in DOMAIN s[k].outputs : \E p \in PartySet : s[k].outputs[i].owner_pk = pk_of(p)
  BY <1>1, ScriptsAssumption, Zenon
<1>5. nullifier(commitment(s[k].inputs[1]), s[k].sender) \in Nullifiers
  BY <1>4, NullifierAssumption DEF nullifier
<1>6. s[k].sender \in Senders /\ s[k].inputs \in Seq(Coins) \ {<<>>} /\ s[k].outputs \in Seq(Coins) \ {<<>>}
  BY <1>2 DEF TransferSet
<1> QED BY <1>1, <1>2, <1>3, <1>4, <1>5, <1>6

(* Nullifiers do not collide: one is of one coin and one key.              *)
LEMMA NullifierInjective ==
    ASSUME NEW c, NEW sk, NEW d, NEW rk,
           <<commitment(c), sk>> \in DOMAIN NullifierOf, <<commitment(d), rk>> \in DOMAIN NullifierOf,
           nullifier(commitment(c), sk) = nullifier(commitment(d), rk)
    PROVE  c = d /\ sk = rk
<1>1. <<commitment(c), sk>> = <<commitment(d), rk>>
  BY NullifierAssumption DEF nullifier
<1> QED BY <1>1 DEF commitment

(* The entry main posts for transfer k, with a given package.              *)
Posted(k, pkg) ==
    LET t == script[k]
    IN  encrypt_tx([make_tx(k - 1, t) EXCEPT !.spend_proof = {pkg}],
                   [i \in DOMAIN t.outputs |-> t.outputs[i].owner_pk], session_key_of(t.sender, k - 1))

(* Its parts.                                                              *)
LEMMA PostedFacts ==
    ASSUME NEW k, NEW pkg
    PROVE  /\ Posted(k, pkg).nullifier = nullifier(commitment(script[k].inputs[1]), script[k].sender)
           /\ Posted(k, pkg).ciphertext.data.spend_proof = {pkg}
           /\ Posted(k, pkg).ciphertext.data.output_commitments = commitments(script[k].outputs)
           /\ Posted(k, pkg).ciphertext.data.note_encs
                 = [i \in DOMAIN script[k].outputs |->
                       build_note_enc(session_key_of(script[k].sender, k - 1), i, script[k].outputs[i])]
           /\ Posted(k, pkg).ciphertext.key = session_key_of(script[k].sender, k - 1)
           /\ Posted(k, pkg).ek_pk = pk_of(ek_secret(session_key_of(script[k].sender, k - 1)))
           /\ Posted(k, pkg).key_encs
                 = [i \in DOMAIN script[k].outputs |->
                       Wrap(wrapping_key(diffie_hellman(ek_secret(session_key_of(script[k].sender, k - 1)),
                                                        script[k].outputs[i].owner_pk)),
                            session_key_of(script[k].sender, k - 1))]
<1> DEFINE t == script[k]
           key == session_key_of(t.sender, k - 1)
           made == make_tx(k - 1, t)
           tx == [made EXCEPT !.spend_proof = {pkg}]
           pks == [i \in DOMAIN t.outputs |-> t.outputs[i].owner_pk]
<1>1. Posted(k, pkg) = encrypt_tx(tx, pks, key)
  BY DEF Posted
<1>2. /\ tx.spend_proof = {pkg} /\ tx.output_commitments = commitments(t.outputs)
      /\ tx.input_nullifier = nullifier(commitment(t.inputs[1]), t.sender)
      /\ tx.note_encs = [i \in DOMAIN t.outputs |-> build_note_enc(key, i, t.outputs[i])]
  BY DEF make_tx
<1> HIDE DEF tx
<1>3. /\ encrypt_tx(tx, pks, key).nullifier = tx.input_nullifier
      /\ encrypt_tx(tx, pks, key).ciphertext.data = tx
      /\ encrypt_tx(tx, pks, key).ciphertext.key = key
      /\ encrypt_tx(tx, pks, key).ek_pk = pk_of(ek_secret(key))
  BY DEF encrypt_tx, Wrap
<1>4. encrypt_tx(tx, pks, key).key_encs
         = [i \in DOMAIN t.outputs |->
               Wrap(wrapping_key(diffie_hellman(ek_secret(key), t.outputs[i].owner_pk)), key)]
  <2>1. \A i \in DOMAIN t.outputs : pks[i] = t.outputs[i].owner_pk
    OBVIOUS
  <2>2. DOMAIN pks = DOMAIN t.outputs
    OBVIOUS
  <2>3. encrypt_tx(tx, pks, key).key_encs
         = [i \in DOMAIN pks |-> Wrap(wrapping_key(diffie_hellman(ek_secret(key), pks[i])), key)]
    BY DEF encrypt_tx
  <2> HIDE DEF pks, key
  <2> QED BY <2>1, <2>2, <2>3
<1> QED BY <1>1, <1>2, <1>3, <1>4

(* What is wrapped under a key opens under that key and no other.          *)
LEMMA UnwrapFacts == \A k, m, data : Unwrap(k, Wrap(m, data)) = IF k = m THEN {data} ELSE {}
<1> TAKE k, m, data
<1>1. Wrap(m, data).key = m /\ Wrap(m, data).data = data
  BY DEF Wrap
<1> QED BY <1>1 DEF Unwrap

(* The owner of an output recovers the session key of its entry, and with  *)
(* it the transaction and every note.                                      *)
LEMMA OwnerScans ==
    ASSUME NEW k, NEW pkg, NEW p, NEW j \in DOMAIN script[k].outputs,
           script[k].outputs[j].owner_pk = pk_of(p), NEW i \in DOMAIN script[k].outputs
    PROVE  /\ scan_entry(p, Posted(k, pkg)) = {Posted(k, pkg).ciphertext.data}
           /\ script[k].outputs[i] \in NoteAt(p, Posted(k, pkg), i)
<1> DEFINE e == Posted(k, pkg)
           t == script[k]
           key == session_key_of(t.sender, k - 1)
           shared(m) == wrapping_key(diffie_hellman(ek_secret(key), t.outputs[m].owner_pk))
           own == wrapping_key(diffie_hellman(p, e.ek_pk))
           opened == UNION {Unwrap(own, e.key_encs[m]) : m \in DOMAIN e.key_encs}
<1>1. /\ e.ciphertext.key = key /\ DOMAIN e.key_encs = DOMAIN t.outputs
      /\ \A m \in DOMAIN t.outputs : e.key_encs[m] = Wrap(shared(m), key)
      /\ e.ek_pk = pk_of(ek_secret(key))
      /\ \A m \in DOMAIN t.outputs : e.ciphertext.data.note_encs[m] = build_note_enc(key, m, t.outputs[m])
  <2>1. e.ciphertext.key = key /\ e.ek_pk = pk_of(ek_secret(key))
    BY PostedFacts
  <2>2. e.key_encs = [m \in DOMAIN t.outputs |-> Wrap(shared(m), key)]
    BY PostedFacts
  <2>3. e.ciphertext.data.note_encs = [m \in DOMAIN t.outputs |-> build_note_enc(key, m, t.outputs[m])]
    BY PostedFacts, ZenonT(60)
  <2> HIDE DEF e, key, shared
  <2> QED BY <2>1, <2>2, <2>3
<1>2. own = shared(j)
  BY <1>1 DEF diffie_hellman
<1> HIDE DEF e, key, shared, own
<1>3. \A m \in DOMAIN e.key_encs : Unwrap(own, e.key_encs[m]) \subseteq {key}
  BY <1>1, UnwrapFacts
<1>4. Unwrap(own, e.key_encs[j]) = {key}
  BY <1>1, <1>2, UnwrapFacts
<1>5. opened = {key}
  BY <1>1, <1>3, <1>4
<1>6. Unwrap(key, e.ciphertext) = {e.ciphertext.data}
  BY <1>1 DEF Unwrap
<1>7. recover_session_key(p, e) = {key}
  <2>1. recover_session_key(p, e) = {s \in opened : Unwrap(s, e.ciphertext) # {}}
    BY DEF recover_session_key, own
  <2> HIDE DEF opened
  <2> QED BY <1>5, <1>6, <2>1
<1>8. scan_entry(p, e) = {e.ciphertext.data}
  BY <1>6, <1>7 DEF scan_entry
<1>9. NoteAt(p, e, i) = {t.outputs[i]}
  <2>1. decrypt_note(key, i, e.ciphertext.data.note_encs[i]) = {t.outputs[i]}
    BY <1>1, UnwrapFacts DEF decrypt_note, build_note_enc
  <2>2. NoteAt(p, e, i) = UNION {decrypt_note(s, i, tx.note_encs[i]) :
                                    s \in {key}, tx \in {e.ciphertext.data}}
    BY <1>7, <1>8 DEF NoteAt
  <2> QED BY <2>1, <2>2
<1> QED BY <1>8, <1>9 DEF e

(* The root check_spend computes from the zero leaf and the append path of *)
(* the next slot is that of the board as it is.                            *)
LEMMA AppendPathOpensRoot ==
    ASSUME NEW S, NEW es \in Seq(S), Len(es) < Capacity
    PROVE  compute_root_from_path(ZeroLeaf, Len(es), append_path_for_next(es)) = merkle_root_of(es)
<1>1. Len(es) \in Nat /\ Capacity \in Nat
  BY LenProperties, CapacityIsNat
<1>2. append_path_for_next(es) = PathOf(LeafOf(es), Len(es))
  BY <1>1, PathIsSiblings DEF append_path_for_next
<1>3. LeafOf(es)[Len(es)] = ZeroLeaf
  BY <1>1 DEF LeafOf
<1>4. compute_root_from_path(LeafOf(es)[Len(es)], Len(es), PathOf(LeafOf(es), Len(es))) = FullTreeRoot(LeafOf(es))
  BY <1>1, PathOpens
<1>5. merkle_root_of(es) = FullTreeRoot(LeafOf(es))
  BY <1>1, RootOfBoard
<1> QED BY <1>2, <1>3, <1>4, <1>5

(* What main asks the child to prove of a transfer: with the receipts its  *)
(* sender holds, at a slot, against an accumulator.                        *)
SpendItemsOf(t, id, path, receipts, tree) ==
    build_spend_stdin(t.sender, commitment(t.inputs[1]), id, path, make_tx(id, t), t.inputs, t.outputs, receipts,
                      prove_non_membership(tree, nullifier(commitment(t.inputs[1]), t.sender)), root(tree)).items

(* What check_spend cannot take for granted: the inputs are the sender's,  *)
(* worth is kept as the relation computes it, and the nullifier is new.    *)
Acceptable(t, tree) ==
    /\ \A i \in DOMAIN t.inputs : t.inputs[i].owner_pk = pk_of(t.sender)
    /\ total(t.inputs) = total(t.outputs)
    /\ nullifier(commitment(t.inputs[1]), t.sender) \notin Members(tree)

(* A spend by the genesis key, or with a receipt of its own first input.   *)
Presented(t, receipts) ==
    \/ receipts = {} /\ t.sender = GENESIS_SK
    \/ \E cp : /\ receipts = {cp}
               /\ cp.vkey = Vkey("coinproof") /\ cp.owner_pk = pk_of(t.sender)
               /\ cp.coin_commitment = commitment(t.inputs[1])

(* The spend guest on such a transfer: it halts on one that is not         *)
(* acceptable, and commits to the root of the given path on one that is,   *)
(* asking for the receipt's proof alone.                                   *)
LEMMA SpendVerdict ==
    ASSUME NEW t, NEW id, NEW path, NEW receipts, NEW tree, 1 \in DOMAIN t.inputs,
           Linked(tree), Cached(tree), nullifier(commitment(t.inputs[1]), t.sender) \in Nullifiers,
           Presented(t, receipts)
    PROVE  LET run == program_spend(SpendItemsOf(t, id, path, receipts, tree))
           IN  /\ ~Acceptable(t, tree) => run.output = <<>>
               /\ Acceptable(t, tree) =>
                    /\ run.exit_code = 0
                    /\ \E pv : /\ run.output = encode(pv)
                               /\ pv.board_root = compute_root_from_path(ZeroLeaf, id, path)
                    /\ \A v \in run.verifies : \E cp \in receipts :
                          v = [vkey |-> Vkey("coinproof"), bytes |-> encode(cp)]
<1> DEFINE cn == commitment(t.inputs[1])
           n == nullifier(cn, t.sender)
           w == prove_non_membership(tree, n)
           r == root(tree)
           tx == make_tx(id, t)
           items == SpendItemsOf(t, id, path, receipts, tree)
           is_genesis == items[11]
           rest == IF is_genesis THEN 12 ELSE 13
           coin_proof == IF is_genesis THEN {} ELSE {items[12]}
           checked == check_spend(items[1], items[2], items[3], items[4], items[5], items[6], items[7],
                                  items[8], items[9], items[10], is_genesis, coin_proof,
                                  items[rest], items[rest + 1])
           found == check_spend(Vkey("spend"), Vkey("coinproof"), t.sender, pk_of(t.sender), cn, id, path,
                                tx, t.inputs, t.outputs, receipts = {}, receipts, w, r)
           chosen == CHOOSE pv \in checked : TRUE
           defers == {[vkey |-> items[2], bytes |-> encode(cp)] : cp \in coin_proof}
           run == program_spend(items)
           shown == [vkey |-> Vkey("spend"),
                     board_root |-> compute_root_from_path(ZeroLeaf, id, path),
                     output_commitments |-> tx.output_commitments,
                     nullifier_root |-> r]
<1>1. run = IF checked = {} THEN Halted(<<>>) ELSE Committed(encode(chosen), defers)
  BY DEF program_spend
<1>2. /\ items[1] = Vkey("spend") /\ items[2] = Vkey("coinproof")
      /\ items[3] = t.sender /\ items[4] = pk_of(t.sender) /\ items[5] = cn
      /\ items[6] = id /\ items[7] = path /\ items[8] = tx
      /\ items[9] = t.inputs /\ items[10] = t.outputs
      /\ items[11] = (receipts = {})
      /\ \A cp : receipts = {cp} => items[12] = cp
      /\ items[rest] = w /\ items[rest + 1] = r
  BY SpendReads, SMTT(60) DEF SpendItemsOf
<1>3. receipts = {} \/ \E cp : receipts = {cp}
  BY DEF Presented
<1>4. coin_proof = receipts
  <2> HIDE DEF items
  <2> QED BY <1>2, <1>3
<1> HIDE DEF items, rest, coin_proof
<1>5. checked = found
  BY <1>2, <1>4
<1>6. tx.input_nullifier = n /\ tx.input_commitments = commitments(t.inputs)
      /\ tx.output_commitments = commitments(t.outputs)
  BY DEF make_tx
<1>7. verify_nonmembership(r, n, w) <=> n \notin Members(tree)
  BY FreshVerdict
<1>8. \E i \in DOMAIN t.inputs : tx.input_commitments[i] = cn
  BY <1>6 DEF commitments
<1>9. IF receipts = {} THEN pk_of(t.sender) = pk_of(GENESIS_SK)
      ELSE \E cp \in receipts : /\ cp.vkey = Vkey("coinproof")
                                /\ cp.owner_pk = pk_of(t.sender)
                                /\ cp.coin_commitment = cn
  BY DEF Presented
<1>10. found = IF Acceptable(t, tree)
               THEN {shown} ELSE {}
  <2> HIDE DEF n, cn, w, r, tx
  <2> QED BY <1>6, <1>7, <1>8, <1>9, Zenon DEF check_spend, Acceptable, n, cn
<1>13. shown.board_root = compute_root_from_path(ZeroLeaf, id, path)
  OBVIOUS
<1> HIDE DEF found, checked, run, defers, tx, n, cn, w, r, shown
<1>11. CASE Acceptable(t, tree)
  <2>1. checked # {} /\ \A pv \in checked : pv.board_root = compute_root_from_path(ZeroLeaf, id, path)
    BY <1>5, <1>10, <1>11, <1>13
  <2>2. chosen \in checked
    BY <2>1
  <2>3. run = Committed(encode(chosen), defers)
    BY <1>1, <2>1
  <2>4. run.exit_code = 0 /\ run.output = encode(chosen) /\ run.verifies = defers
    BY <2>3 DEF Committed
  <2>5. \A v \in defers : \E cp \in receipts : v = [vkey |-> Vkey("coinproof"), bytes |-> encode(cp)]
    BY <1>2, <1>4 DEF defers
  <2> HIDE DEF chosen
  <2>6. \E pv : run.output = encode(pv) /\ pv.board_root = compute_root_from_path(ZeroLeaf, id, path)
    BY <2>1, <2>2, <2>4
  <2> QED BY <1>11, <2>4, <2>5, <2>6 DEF run, items
<1>12. CASE ~Acceptable(t, tree)
  <2>1. checked = {}
    BY <1>5, <1>10, <1>12
  <2>2. run.output = <<>>
    BY <1>1, <2>1 DEF Halted
  <2> QED BY <1>12, <2>2 DEF run, items
<1> QED BY <1>11, <1>12

(* Every entry on the board is what main posts of its transfer.            *)
EntriesMade == \A k \in 1 .. Len(entries) : \E pkg : entries[k] = Posted(k, pkg)

(* The slots whose nullifier has been inserted.                            *)
Finished == IF turn = 0 THEN Len(entries) ELSE Len(entries) - 1

(* The accumulator is a linked list with its cached tree, of the           *)
(* nullifiers of the finished slots.                                       *)
Accumulated ==
    /\ Linked(nullifier_tree) /\ Cached(nullifier_tree)
    /\ Len(nullifier_tree.leaves) <= Finished + 1
    /\ Members(nullifier_tree) = {entries[k].nullifier : k \in 1 .. Finished}

(* Payable as the relation has it, which adds u64: its sums wrap.          *)
Valid(k) ==
    LET t == script[k]
    IN  /\ \A i \in DOMAIN t.inputs : t.inputs[i].owner_pk = pk_of(t.sender)
        /\ total(t.inputs) = total(t.outputs)
        /\ \A j \in 1 .. k - 1 : script[j].inputs[1] # t.inputs[1]
        /\ t.sender # GENESIS_SK =>
              \E j \in 1 .. k - 1 : \E i \in DOMAIN script[j].outputs : script[j].outputs[i] = t.inputs[1]

(* The transfers posted are valid.                                         *)
PostedValid == \A k \in 1 .. Len(entries) : Valid(k)

(* The flags other than --prove are for the mint alone.                    *)
MintOnly == mode # "prove" => Len(script) = 1 /\ script[1].sender = GENESIS_SK

(* A step either leaves the board and the turn alone, or posts the answer  *)
(* of a spend of the current transfer, or passes the turn to the next      *)
(* wallet, or inserts the newest nullifier and gives the turn back.        *)
LEMMA TurnSteps ==
    ASSUME Control, [Next]_vars
    PROVE  /\ UNCHANGED <<mode, script>>
           /\ \/ UNCHANGED <<entries, turn, nullifier_tree>>
              \/ /\ AcceptSpend /\ turn = 0 /\ turn' = 1 /\ note' = 1 /\ UNCHANGED nullifier_tree
                 /\ Len(entries) < Len(script)
                 /\ answer.public_values # <<>>
                 /\ entries' = Append(entries, Posted(Len(entries) + 1, build_spend_proof_package(answer)))
              \/ /\ NextWallet /\ turn # 0 /\ turn' # 0 /\ UNCHANGED <<entries, nullifier_tree>>
              \/ /\ InsertNullifier /\ turn # 0 /\ turn' = 0 /\ UNCHANGED entries
                 /\ nullifier_tree' = insert(nullifier_tree, newest.nullifier)
<1>1. UNCHANGED <<mode, script>>
  BY DEF Next, HostStep, Ended, vars, BuildSpend, AcceptSpend, PassNote, Bootstrap, NextWallet,
         ProveReceipt, FileReceipt, InsertNullifier, ExecuteReceipt, DecodeExecuted, BenchValidate,
         BenchReport, ChildProves, ChildDies
<1>2. CASE UNCHANGED <<entries, turn, nullifier_tree>>
  BY <1>1, <1>2
<1>3. CASE AcceptSpend /\ ~UNCHANGED <<entries, turn, nullifier_tree>>
  <2>1. turn = 0 /\ Len(entries) < Len(script)
    BY <1>3 DEF AcceptSpend, Control, SpendPending
  <2>2. /\ turn' = 1 /\ note' = 1 /\ UNCHANGED nullifier_tree /\ PostEntry(Current, answer)
        /\ \E pv \in decode(answer.public_values) : pv.board_root = merkle_root_of(entries)
    BY <1>3 DEF AcceptSpend
  <2>3. answer.public_values # <<>>
    BY <2>2, DecodeFacts
  <2>4. Len(entries) + 1 - 1 = Len(entries)
    BY BoardLength DEF Control
  <2>5. entries' = Append(entries, Posted(Len(entries) + 1, build_spend_proof_package(answer)))
    BY <2>2, <2>4 DEF PostEntry, Posted, Current
  <2> QED BY <1>1, <1>3, <2>1, <2>2, <2>3, <2>5
<1>4. CASE NextWallet
  BY <1>1, <1>4, LengthsAreNat DEF NextWallet
<1>5. CASE InsertNullifier
  BY <1>1, <1>5, LengthsAreNat DEF InsertNullifier
<1> QED BY <1>2, <1>3, <1>4, <1>5 DEF Next, HostStep, Ended, vars, BuildSpend, PassNote, Bootstrap,
       ProveReceipt, FileReceipt, ExecuteReceipt, DecodeExecuted, BenchValidate, BenchReport,
       ChildProves, ChildDies

(* The script's lengths and transfers, as far as the board has come.       *)
LEMMA ScriptFacts ==
    ASSUME Control
    PROVE  /\ script \in Scripts /\ Len(script) \in Nat /\ Len(entries) \in Nat
           /\ Len(entries) <= Len(script) /\ Len(script) + 1 <= Capacity
           /\ \A k \in 1 .. Len(entries) : k \in 1 .. Len(script)
<1>1. script \in Scripts /\ Len(entries) <= Len(script) /\ Len(entries) \in Nat
  BY BoardLength DEF Control, TypeOK
<1>2. Len(script) \in 1 .. Capacity - 1 /\ Len(script) \in Nat
  BY <1>1, ScriptsAssumption, LengthsAreNat
<1> QED BY <1>1, <1>2, CapacityIsNat

(* Each step leaves an entry as it was posted, and posts one as main makes *)
(* it.                                                                     *)
LEMMA EntriesStep ==
    ASSUME Control, EntriesMade, [Next]_vars
    PROVE  EntriesMade'
<1>1. CASE UNCHANGED <<script, entries>>
  BY <1>1 DEF EntriesMade, Posted
<1>2. CASE /\ script' = script
           /\ entries' = Append(entries, Posted(Len(entries) + 1, build_spend_proof_package(answer)))
  <2> DEFINE e == Posted(Len(entries) + 1, build_spend_proof_package(answer))
  <2>1. /\ Len(entries') = Len(entries) + 1 /\ entries'[Len(entries) + 1] = e
        /\ \A k \in 1 .. Len(entries) : entries'[k] = entries[k]
    BY <1>2, BoardGrows DEF Control
  <2>2. \A k, pkg : Posted(k, pkg)' = Posted(k, pkg)
    BY <1>2 DEF Posted
  <2>3. Len(entries) \in Nat
    BY ScriptFacts
  <2> HIDE DEF e
  <2>4. ASSUME NEW k \in 1 .. Len(entries') PROVE \E pkg : entries'[k] = Posted(k, pkg)
    <3>1. CASE k = Len(entries) + 1
      BY <2>1, <3>1 DEF e
    <3>2. CASE k \in 1 .. Len(entries)
      BY <2>1, <3>2 DEF EntriesMade
    <3> QED BY <2>1, <2>3, <3>1, <3>2
  <2> QED BY <2>2, <2>4 DEF EntriesMade
<1> QED BY <1>1, <1>2, TurnSteps

(* The nullifier of an entry is its transfer's.                            *)
LEMMA EntryNullifier ==
    ASSUME Control, EntriesMade, NEW k \in 1 .. Len(entries)
    PROVE  /\ entries[k].nullifier = nullifier(commitment(script[k].inputs[1]), script[k].sender)
           /\ entries[k].nullifier \in Nullifiers
<1>1. PICK pkg : entries[k] = Posted(k, pkg)
  BY DEF EntriesMade
<1>2. Posted(k, pkg).nullifier = nullifier(commitment(script[k].inputs[1]), script[k].sender)
  BY PostedFacts
<1>3. nullifier(commitment(script[k].inputs[1]), script[k].sender) \in Nullifiers
  <2>1. script \in Scripts /\ k \in 1 .. Len(script)
    BY ScriptFacts
  <2> QED BY <2>1, TransferFacts
<1> QED BY <1>1, <1>2, <1>3

(* Each step keeps the accumulator that of the finished slots: only        *)
(* InsertNullifier changes it, by the nullifier of the newest slot.        *)
LEMMA AccumulatedStep ==
    ASSUME Control, EntriesMade, Accumulated, [Next]_vars
    PROVE  Accumulated'
<1>0. /\ Len(entries) \in Nat /\ Len(entries) <= Len(script) /\ Len(script) + 1 <= Capacity
      /\ Len(script) \in Nat /\ Capacity \in Nat
  BY ScriptFacts, CapacityIsNat
<1>1. CASE UNCHANGED <<entries, turn, nullifier_tree>>
  <2>1. Finished' = Finished
    BY <1>1 DEF Finished
  <2> QED BY <1>1, <2>1 DEF Accumulated
<1>2. CASE /\ turn = 0 /\ turn' = 1 /\ UNCHANGED nullifier_tree
           /\ \E e : entries' = Append(entries, e)
  <2>1. PICK e : entries' = Append(entries, e)
    BY <1>2
  <2>2. /\ Len(entries') = Len(entries) + 1 /\ \A k \in 1 .. Len(entries) : entries'[k] = entries[k]
    BY <2>1, BoardGrows DEF Control
  <2>3. Finished = Len(entries) /\ Finished' = Len(entries)
    BY <1>0, <1>2, <2>2 DEF Finished
  <2>4. {entries[k].nullifier : k \in 1 .. Len(entries)} = {entries'[k].nullifier : k \in 1 .. Len(entries)}
    BY <2>2
  <2> QED BY <1>2, <2>3, <2>4 DEF Accumulated
<1>3. CASE turn # 0 /\ turn' # 0 /\ UNCHANGED <<entries, nullifier_tree>>
  <2>1. Finished' = Finished
    BY <1>3 DEF Finished
  <2> QED BY <1>3, <2>1 DEF Accumulated
<1>4. CASE /\ turn # 0 /\ turn' = 0 /\ UNCHANGED entries
           /\ nullifier_tree' = insert(nullifier_tree, newest.nullifier)
  <2> DEFINE t == nullifier_tree
             n == newest.nullifier
  <2>0. Len(entries) # 0
    BY <1>4, BoardLength DEF Control, TypeOK
  <2>1. PICK m \in Nat : m + 1 = Len(entries)
    <3>1. Len(entries) - 1 \in Nat /\ Len(entries) - 1 + 1 = Len(entries)
      BY <1>0, <2>0
    <3> QED BY <3>1
  <2>2. Finished = m /\ Finished' = m + 1
    BY <1>0, <1>4, <2>1 DEF Finished
  <2>3. n \in Nullifiers /\ n = entries[m + 1].nullifier
    BY <1>0, <2>1, EntryNullifier DEF newest
  <2>4. Linked(t) /\ Cached(t) /\ Len(t.leaves) <= m + 1
        /\ Members(t) = {entries[k].nullifier : k \in 1 .. m}
    BY <2>2 DEF Accumulated
  <2>5. Len(t.leaves) \in Nat
    BY <2>4, LenProperties DEF Linked, Shape
  <2>6. Len(t.leaves) < Capacity
    BY <1>0, <2>1, <2>4, <2>5
  <2> HIDE DEF t, n
  <2>7. Linked(insert(t, n)) /\ Cached(insert(t, n))
    BY <2>3, <2>4, <2>6, InsertKeeps
  <2>8. Len(insert(t, n).leaves) <= m + 2 /\ Members(insert(t, n)) = Members(t) \union {n}
    <3>1. CASE n \in DOMAIN t.index_of
      <4>1. insert(t, n) = t
        BY <2>3, <2>4, <2>6, <3>1, InsertGrows
      <4>2. n \in Members(t)
        BY <2>3, <2>4, <3>1, MembersFacts
      <4>3. Len(t.leaves) <= m + 2
        BY <2>4, <2>5
      <4> QED BY <4>1, <4>2, <4>3
    <3>2. CASE n \notin DOMAIN t.index_of
      <4>1. Len(insert(t, n).leaves) = Len(t.leaves) + 1 /\ Members(insert(t, n)) = Members(t) \union {n}
        BY <2>3, <2>4, <2>6, <3>2, InsertGrows
      <4>2. Len(t.leaves) + 1 <= m + 2
        BY <2>4, <2>5
      <4> QED BY <4>1, <4>2
    <3> QED BY <3>1, <3>2
  <2>9. {entries[k].nullifier : k \in 1 .. m + 1} = Members(t) \union {n}
    <3>1. \A k : k \in 1 .. m + 1 <=> k \in 1 .. m \/ k = m + 1
      OBVIOUS
    <3> QED BY <2>3, <2>4, <3>1
  <2>10. nullifier_tree' = insert(t, n)
    BY <1>4 DEF t, n
  <2>11. m + 1 + 1 = m + 2
    OBVIOUS
  <2> QED BY <1>4, <2>2, <2>7, <2>8, <2>9, <2>10, <2>11 DEF Accumulated
<1>5. \/ UNCHANGED <<entries, turn, nullifier_tree>>
      \/ /\ turn = 0 /\ turn' = 1 /\ UNCHANGED nullifier_tree
         /\ \E e : entries' = Append(entries, e)
      \/ turn # 0 /\ turn' # 0 /\ UNCHANGED <<entries, nullifier_tree>>
      \/ /\ turn # 0 /\ turn' = 0 /\ UNCHANGED entries
         /\ nullifier_tree' = insert(nullifier_tree, newest.nullifier)
  BY TurnSteps
<1> QED BY <1>1, <1>2, <1>3, <1>4, <1>5

(* Every receipt held is a proof of the receipt program, of the public     *)
(* values it is filed with, which name that program.                       *)
ReceiptsProved ==
    \A p \in PartySet : \A cn \in DOMAIN wallets[p] :
        /\ wallets[p][cn].proof.elf = "coinproof"
        /\ wallets[p][cn].proof.public_values = encode(wallets[p][cn].pv)
        /\ wallets[p][cn].pv.vkey = Vkey("coinproof")

(* What the sender must be able to show: the genesis key, or a coin some   *)
(* earlier transfer created.                                               *)
Created(k) ==
    script[k].sender # GENESIS_SK =>
        \E j \in 1 .. k - 1 : \E i \in DOMAIN script[j].outputs : script[j].outputs[i] = script[k].inputs[1]

(* A receipt in the sender's wallet shows that.                            *)
LEMMA ReceiptShows ==
    ASSUME Control, ReceiptsAnswerRequest, ReceiptsProved, NEW k, k = Len(entries) + 1,
           Len(entries) < Len(script)
    PROVE  LET t == script[k]
               held == SpendReceipt(t)
           IN  /\ t.sender = GENESIS_SK => held = {}
               /\ t.sender # GENESIS_SK /\ held # {} =>
                    \E r : /\ held = {r} /\ Created(k)
                           /\ Presented(t, {r.pv})
                           /\ r.proof.elf = "coinproof" /\ r.proof.exit_code = 0
                           /\ r.proof.public_values = encode(r.pv)
<1> DEFINE t == script[k]
           cn == commitment(t.inputs[1])
           held == SpendReceipt(t)
           r == wallets[t.sender][cn]
<1>1. /\ k \in 1 .. Len(script) /\ script \in Scripts /\ Len(entries) \in Nat
      /\ DOMAIN entries = 1 .. Len(entries)
  BY ScriptFacts, BoardLength DEF Control
<1>2. held = IF t.sender \in PartySet /\ cn \in DOMAIN wallets[t.sender] THEN {r} ELSE {}
  BY DEF SpendReceipt
<1>3. t.sender = GENESIS_SK => held = {}
  BY <1>2, WalletsAssumption
<1>4. ASSUME t.sender # GENESIS_SK, held # {}
      PROVE  \E x : /\ held = {x} /\ Created(k)
                    /\ Presented(t, {x.pv})
                    /\ x.proof.elf = "coinproof" /\ x.proof.exit_code = 0
                    /\ x.proof.public_values = encode(x.pv)
  <2>1. t.sender \in PartySet /\ cn \in DOMAIN wallets[t.sender] /\ held = {r}
    BY <1>2, <1>4
  <2>2. /\ r.pv.coin_commitment = cn /\ r.pv.owner_pk = pk_of(t.sender)
        /\ r.pv.received_at + 1 \in DOMAIN entries
        /\ \E i \in DOMAIN script[r.pv.received_at + 1].outputs :
              commitment(script[r.pv.received_at + 1].outputs[i]) = cn
        /\ r.proof.exit_code = 0
    BY <2>1, ZenonT(60) DEF ReceiptsAnswerRequest
  <2>3. r.proof.elf = "coinproof" /\ r.proof.public_values = encode(r.pv) /\ r.pv.vkey = Vkey("coinproof")
    <3>1. \E p \in PartySet : \E c \in DOMAIN wallets[p] : p = t.sender /\ c = cn
      BY <2>1
    <3> HIDE DEF t, cn, held
    <3> QED BY <3>1, Zenon DEF ReceiptsProved
  <2> HIDE DEF r, held
  <2>4. Created(k)
    <3>1. PICK j \in 1 .. k - 1 : \E i \in DOMAIN script[j].outputs : commitment(script[j].outputs[i]) = cn
      <4>1. k - 1 = Len(entries)
        BY <1>1
      <4> QED BY <1>1, <2>2, <4>1
    <3>2. PICK i \in DOMAIN script[j].outputs : commitment(script[j].outputs[i]) = cn
      BY <3>1
    <3>3. script[j].outputs[i] = t.inputs[1]
      BY <3>2 DEF commitment
    <3> QED BY <3>3 DEF Created
  <2>5. Presented(t, {r.pv})
    BY <2>2, <2>3 DEF Presented
  <2> QED BY <2>1, <2>2, <2>3, <2>4, <2>5
<1> QED BY <1>3, <1>4

(* A transfer of a slot not yet posted is valid when check_spend can       *)
(* accept it and its sender can show where the coin comes from: an input   *)
(* already spent is one whose nullifier the accumulator has.               *)
LEMMA ValidVerdict ==
    ASSUME Control, EntriesMade, Accumulated, PostedValid, turn = 0, NEW k, k = Len(entries) + 1,
           Len(entries) < Len(script)
    PROVE  Valid(k) <=> Acceptable(script[k], nullifier_tree) /\ Created(k)
<1> DEFINE t == script[k]
           n == nullifier(commitment(t.inputs[1]), t.sender)
<1>1. /\ k \in 1 .. Len(script) /\ script \in Scripts /\ Len(entries) \in Nat /\ k - 1 = Len(entries)
      /\ \A j \in 1 .. k - 1 : j \in 1 .. Len(script)
  BY ScriptFacts
<1>2. /\ k \in DOMAIN script /\ 1 \in DOMAIN t.inputs
      /\ <<commitment(t.inputs[1]), t.sender>> \in DOMAIN NullifierOf
  BY <1>1, TransferFacts
<1>4. Members(nullifier_tree) = {entries[j].nullifier : j \in 1 .. k - 1}
  BY <1>1 DEF Accumulated, Finished
<1>5. ASSUME \A i \in DOMAIN t.inputs : t.inputs[i].owner_pk = pk_of(t.sender)
      PROVE  n \notin Members(nullifier_tree) <=> \A j \in 1 .. k - 1 : script[j].inputs[1] # t.inputs[1]
  <2>1. ASSUME NEW j \in 1 .. k - 1
        PROVE  entries[j].nullifier = n <=> script[j].inputs[1] = t.inputs[1]
    <3>1. /\ j \in 1 .. Len(entries) /\ j \in 1 .. Len(script)
      BY <1>1
    <3>2. /\ 1 \in DOMAIN script[j].inputs
          /\ <<commitment(script[j].inputs[1]), script[j].sender>> \in DOMAIN NullifierOf
      BY <1>1, <3>1, TransferFacts
    <3>3. entries[j].nullifier = nullifier(commitment(script[j].inputs[1]), script[j].sender)
      BY <3>1, EntryNullifier
    <3>4. ASSUME entries[j].nullifier = n PROVE script[j].inputs[1] = t.inputs[1]
      BY <1>2, <3>2, <3>3, <3>4, NullifierInjective
    <3>5. ASSUME script[j].inputs[1] = t.inputs[1] PROVE entries[j].nullifier = n
      <4>1. t.inputs[1].owner_pk = pk_of(script[j].sender)
        BY <3>1, <3>2, <3>5 DEF PostedValid, Valid
      <4>2. script[j].sender = t.sender
        BY <1>2, <1>5, <4>1 DEF pk_of
      <4> QED BY <3>3, <3>5, <4>2
    <3> QED BY <3>4, <3>5
  <2> HIDE DEF n
  <2> QED BY <1>4, <2>1
<1> QED BY <1>5 DEF Valid, Acceptable, Created

(* A run that commits to public values with the given board root.          *)
Accepts(run, board_root) ==
    run.exit_code = 0 /\ \E pv : run.output = encode(pv) /\ pv.board_root = board_root

(* The transfer that is next on the board.                                 *)
Upcoming == Len(entries) + 1

(* A pending spend accepts the upcoming transfer when it is valid, with    *)
(* what it defers to written to its stdin, and commits to nothing when it  *)
(* is not; an answer that waits does the same.                             *)
SpendJudged ==
    call.elf = "spend" =>
        /\ Valid(Upcoming) =>
              /\ Accepts(program_spend(call.stdin.items), merkle_root_of(entries))
              /\ \A v \in program_spend(call.stdin.items).verifies : DeferredHolds(v, call.stdin.proofs)
        /\ ~Valid(Upcoming) => program_spend(call.stdin.items).output = <<>>
        /\ pc = "answered" =>
              /\ Valid(Upcoming) => Accepts(Outcome, merkle_root_of(entries))
              /\ ~Valid(Upcoming) => answer.public_values = <<>>

(* BuildSpend calls the child with what judges the upcoming transfer, or   *)
(* panics because the sender holds no receipt of a coin it was not sent.   *)
LEMMA BuildSpendJudged ==
    ASSUME Control, EntriesMade, Accumulated, PostedValid, ReceiptsAnswerRequest, ReceiptsProved,
           BuildSpend
    PROVE  \/ /\ pc' = "panicked" /\ UNCHANGED call
              /\ Current.sender # GENESIS_SK /\ SpendReceipt(Current) = {}
           \/ \E stdin : 
                 /\ Call("spend", stdin)
                 /\ Valid(Upcoming) =>
                      /\ Accepts(program_spend(stdin.items), merkle_root_of(entries))
                      /\ \A v \in program_spend(stdin.items).verifies : DeferredHolds(v, stdin.proofs)
                 /\ ~Valid(Upcoming) => program_spend(stdin.items).output = <<>>
<1> DEFINE t == Current
           cn == commitment(t.inputs[1])
           held == SpendReceipt(t)
           receipts == {r.pv : r \in held}
           path == append_path_for_next(entries)
           stdin == build_spend_stdin(t.sender, cn, Len(entries), path,
                        make_tx(Len(entries), t), t.inputs, t.outputs, receipts,
                        prove_non_membership(nullifier_tree, nullifier(cn, t.sender)),
                        root(nullifier_tree))
           items == SpendItemsOf(t, Len(entries), path, receipts, nullifier_tree)
<1>1. /\ turn = 0 /\ Len(entries) < Len(script)
      /\ IF t.sender = GENESIS_SK THEN Call("spend", stdin)
         ELSE IF held = {} THEN pc' = "panicked" /\ UNCHANGED call
         ELSE \E r \in held : Call("spend", write_proof(stdin, r.proof))
  BY DEF BuildSpend
<1>2. stdin.items = items /\ \A proof : write_proof(stdin, proof).items = items
                                       /\ proof \in write_proof(stdin, proof).proofs
  BY DEF SpendItemsOf, write_proof, build_spend_stdin
<1>3. PICK k : k = Len(entries) + 1
  OBVIOUS
<1>4. t = script[k] /\ k \in 1 .. Len(script) /\ script \in Scripts
  BY <1>1, <1>3, ScriptFacts DEF Current
<1>5. 1 \in DOMAIN t.inputs /\ nullifier(cn, t.sender) \in Nullifiers
  BY <1>4, TransferFacts
<1>6. Linked(nullifier_tree) /\ Cached(nullifier_tree)
  BY DEF Accumulated
<1>7. compute_root_from_path(ZeroLeaf, Len(entries), path) = merkle_root_of(entries)
  <2>1. PICK S : entries \in Seq(S)
    BY DEF Control, IsBoard
  <2>2. Len(entries) < Capacity
    BY <1>1, ScriptFacts, CapacityIsNat
  <2> QED BY <2>1, <2>2, AppendPathOpensRoot
<1>8. Valid(k) <=> Acceptable(t, nullifier_tree) /\ Created(k)
  BY <1>1, <1>3, <1>4, ValidVerdict
<1> DEFINE run == program_spend(items)
<1>9. ASSUME Presented(t, receipts)
      PROVE  /\ ~Acceptable(t, nullifier_tree) => run.output = <<>>
             /\ Acceptable(t, nullifier_tree) =>
                  /\ Accepts(run, merkle_root_of(entries))
                  /\ \A v \in run.verifies : \E cp \in receipts :
                        v = [vkey |-> Vkey("coinproof"), bytes |-> encode(cp)]
  <2> HIDE DEF t, receipts, path
  <2>1. /\ ~Acceptable(t, nullifier_tree) => run.output = <<>>
        /\ Acceptable(t, nullifier_tree) =>
             /\ run.exit_code = 0
             /\ \E pv : /\ run.output = encode(pv)
                        /\ pv.board_root = compute_root_from_path(ZeroLeaf, Len(entries), path)
             /\ \A v \in run.verifies : \E cp \in receipts :
                   v = [vkey |-> Vkey("coinproof"), bytes |-> encode(cp)]
    BY <1>5, <1>6, <1>9, SpendVerdict
  <2> HIDE DEF run
  <2> QED BY <1>7, <2>1 DEF Accepts
<1>10. /\ t.sender = GENESIS_SK => held = {}
       /\ t.sender # GENESIS_SK /\ held # {} =>
                    \E r : /\ held = {r} /\ Created(k)
                           /\ Presented(t, {r.pv})
                           /\ r.proof.elf = "coinproof" /\ r.proof.exit_code = 0
                           /\ r.proof.public_values = encode(r.pv)
  BY <1>1, <1>3, <1>4, ReceiptShows
<1>11. CASE t.sender = GENESIS_SK
  <2>1. receipts = {} /\ Presented(t, receipts) /\ Created(k)
    BY <1>4, <1>10, <1>11 DEF Presented, Created
  <2>2. Valid(k) => Accepts(run, merkle_root_of(entries)) /\ run.verifies = {}
    BY <1>8, <1>9, <2>1
  <2>3. ~Valid(k) => run.output = <<>>
    BY <1>8, <1>9, <2>1
  <2> HIDE DEF stdin, items
  <2>4. Call("spend", stdin)
    BY <1>1, <1>11
  <2> QED BY <1>2, <1>3, <2>2, <2>3, <2>4 DEF Upcoming
<1>12. CASE t.sender # GENESIS_SK /\ held = {}
  BY <1>1, <1>12
<1>13. CASE t.sender # GENESIS_SK /\ held # {}
  <2>1. PICK r : /\ held = {r} /\ Created(k)
                 /\ Presented(t, {r.pv})
                 /\ r.proof.elf = "coinproof" /\ r.proof.exit_code = 0
                 /\ r.proof.public_values = encode(r.pv)
    BY <1>10, <1>13
  <2>2. receipts = {r.pv}
    BY <2>1
  <2> DEFINE given == write_proof(stdin, r.proof)
  <2>3. Call("spend", given) /\ given.items = items /\ r.proof \in given.proofs
    <3> HIDE DEF stdin, items
    <3>1. \E x \in held : Call("spend", write_proof(stdin, x.proof))
      BY <1>1, <1>13
    <3> QED BY <1>2, <2>1, <3>1
  <2>4. \A v \in run.verifies : Valid(k) => v = [vkey |-> Vkey("coinproof"), bytes |-> encode(r.pv)]
    BY <1>8, <1>9, <2>1, <2>2
  <2>5. \A v : v = [vkey |-> Vkey("coinproof"), bytes |-> encode(r.pv)] => DeferredHolds(v, given.proofs)
    <3> HIDE DEF given
    <3>1. \A v : v = [vkey |-> Vkey("coinproof"), bytes |-> encode(r.pv)] =>
                    v.vkey = Vkey("coinproof") /\ v.bytes = encode(r.pv)
      OBVIOUS
    <3> QED BY <2>1, <2>3, <3>1 DEF DeferredHolds
  <2>6. Valid(k) => Accepts(run, merkle_root_of(entries))
    BY <1>8, <1>9, <2>1, <2>2
  <2>7. ~Valid(k) => run.output = <<>>
    BY <1>8, <1>9, <2>1, <2>2
  <2> HIDE DEF given, items
  <2> QED BY <1>3, <2>3, <2>4, <2>5, <2>6, <2>7 DEF Upcoming
<1> QED BY <1>11, <1>12, <1>13

(* What is called for is judged the same as long as it is pending.         *)
LEMMA JudgedKept ==
    ASSUME SpendJudged, UNCHANGED <<script, entries, call>>,
           pc' = "answered" => pc = "answered" /\ UNCHANGED answer
    PROVE  SpendJudged'
<1>1. Upcoming' = Upcoming /\ (Valid(Upcoming)' <=> Valid(Upcoming))
  BY DEF Upcoming, Valid
<1>2. pc' = "answered" => Outcome' = Outcome
  BY DEF Outcome
<1> QED BY <1>1, <1>2 DEF SpendJudged

(* Each step keeps a pending spend judged rightly: only BuildSpend calls   *)
(* for one, and the transfers change only when none is pending.            *)
LEMMA SpendJudgedStep ==
    ASSUME Control, EntriesMade, Accumulated, PostedValid, ReceiptsAnswerRequest, ReceiptsProved,
           SpendJudged, [Next]_vars
    PROVE  SpendJudged'
<1>1. CASE call'.elf # "spend"
  BY <1>1 DEF SpendJudged
<1>2. CASE BuildSpend
  <2>1. UNCHANGED <<script, entries>> /\ pc = "ready"
    BY <1>2 DEF BuildSpend
  <2>2. CASE pc' = "panicked" /\ UNCHANGED call
    BY <2>1, <2>2, JudgedKept
  <2>3. CASE \E stdin : 
                 /\ Call("spend", stdin)
                 /\ Valid(Upcoming) =>
                      /\ Accepts(program_spend(stdin.items), merkle_root_of(entries))
                      /\ \A v \in program_spend(stdin.items).verifies : DeferredHolds(v, stdin.proofs)
                 /\ ~Valid(Upcoming) => program_spend(stdin.items).output = <<>>
    <3>1. PICK stdin : 
                 /\ Call("spend", stdin)
                 /\ Valid(Upcoming) =>
                      /\ Accepts(program_spend(stdin.items), merkle_root_of(entries))
                      /\ \A v \in program_spend(stdin.items).verifies : DeferredHolds(v, stdin.proofs)
                 /\ ~Valid(Upcoming) => program_spend(stdin.items).output = <<>>
      BY <2>3
    <3>2. Upcoming' = Upcoming /\ (Valid(Upcoming)' <=> Valid(Upcoming))
      BY <2>1 DEF Upcoming, Valid
    <3>3. call'.stdin = stdin /\ pc' = "calling" /\ entries' = entries
      BY <2>1, <3>1, CallFacts
    <3> QED BY <3>1, <3>2, <3>3 DEF SpendJudged
  <2> QED BY <1>2, <2>2, <2>3, BuildSpendJudged
<1>3. CASE ChildProves /\ call.elf = "spend"
  <2>1. UNCHANGED <<script, entries, call>>
    BY <1>3 DEF ChildProves
  <2> DEFINE run == program_spend(call.stdin.items)
  <2>2. pc' = "answered" => answer'.exit_code = run.exit_code /\ answer'.public_values = run.output
    BY <1>3 DEF ChildProves, execute, prove
  <2>3. Upcoming' = Upcoming /\ (Valid(Upcoming)' <=> Valid(Upcoming))
    BY <2>1 DEF Upcoming, Valid
  <2>4. pc' = "answered" => Outcome' = [exit_code |-> run.exit_code, output |-> run.output]
    BY <2>2 DEF Outcome
  <2>5. ASSUME pc' = "answered", Valid(Upcoming) PROVE Accepts(Outcome', merkle_root_of(entries))
    <3>1. Accepts(run, merkle_root_of(entries))
      BY <1>3, <2>5 DEF SpendJudged
    <3> HIDE DEF run
    <3> QED BY <2>4, <2>5, <3>1 DEF Accepts
  <2> QED BY <1>3, <2>1, <2>2, <2>3, <2>5 DEF SpendJudged
<1>4. CASE /\ UNCHANGED <<script, entries, call>>
           /\ pc' = "answered" => pc = "answered" /\ UNCHANGED answer
  BY <1>4, JudgedKept
<1>5. CASE AcceptSpend \/ FileReceipt \/ Bootstrap \/ ProveReceipt \/ ExecuteReceipt \/ BenchValidate
  <2>1. call'.elf # "spend"
    BY <1>5, CallFacts DEF AcceptSpend, FileReceipt, NoCall, Bootstrap, ProveReceipt, ExecuteReceipt, BenchValidate
  <2> QED BY <1>1, <2>1
<1>6. CASE ChildProves /\ call.elf # "spend"
  <2>1. call' = call
    BY <1>6 DEF ChildProves
  <2> QED BY <1>1, <1>6, <2>1
<1>7. CASE PassNote \/ NextWallet \/ InsertNullifier \/ DecodeExecuted \/ BenchReport \/ ChildDies
           \/ UNCHANGED vars
  <2>1. /\ UNCHANGED <<script, entries, call>>
        /\ pc' = "answered" => pc = "answered" /\ UNCHANGED answer
    BY <1>7 DEF PassNote, NextWallet, InsertNullifier, DecodeExecuted, BenchReport, ChildDies, vars
  <2> QED BY <1>4, <2>1
<1> QED BY <1>2, <1>3, <1>5, <1>6, <1>7 DEF Next, HostStep, Ended

(* Only valid transfers are posted.                                        *)
LEMMA ValidStep ==
    ASSUME Control, SpendJudged, PostedValid, [Next]_vars
    PROVE  PostedValid'
<1>0. script' = script /\ \A k : Valid(k)' <=> Valid(k)
  BY TurnSteps DEF Valid
<1>1. CASE UNCHANGED entries
  BY <1>0, <1>1 DEF PostedValid
<1>2. CASE /\ AcceptSpend /\ answer.public_values # <<>>
           /\ \E e : entries' = Append(entries, e)
  <2>1. pc = "answered" /\ call.elf = "spend"
    BY <1>2 DEF AcceptSpend
  <2>2. Valid(Len(entries) + 1)
    BY <1>2, <2>1 DEF SpendJudged, Upcoming
  <2>3. Len(entries') = Len(entries) + 1 /\ Len(entries) \in Nat
    BY <1>2, BoardGrows, ScriptFacts DEF Control
  <2>4. \A k \in 1 .. Len(entries') : k \in 1 .. Len(entries) \/ k = Len(entries) + 1
    BY <2>3
  <2> QED BY <1>0, <2>2, <2>4 DEF PostedValid
<1> QED BY <1>1, <1>2, TurnSteps

(* The newest entry is what main made of its transfer.                     *)
LEMMA NewestFacts ==
    ASSUME Control, EntriesMade, turn # 0
    PROVE  /\ Len(entries) \in 1 .. Len(entries) /\ Len(entries) \in 1 .. Len(script)
           /\ script \in Scripts
           /\ \E pkg : newest = Posted(Len(entries), pkg)
           /\ Newest.note_encs = [i \in DOMAIN script[Len(entries)].outputs |->
                                     build_note_enc(session_key_of(script[Len(entries)].sender, Len(entries) - 1), i,
                                                    script[Len(entries)].outputs[i])]
           /\ DOMAIN Newest.note_encs = DOMAIN script[Len(entries)].outputs
           /\ \A i \in DOMAIN script[Len(entries)].outputs :
                  Newest.note_encs[i].data = script[Len(entries)].outputs[i]
<1>1. Len(entries) \in Nat /\ Len(entries) # 0
  BY BoardLength DEF Control, TypeOK
<1>2. /\ Len(entries) \in 1 .. Len(entries) /\ Len(entries) \in 1 .. Len(script)
      /\ script \in Scripts
  BY <1>1, ScriptFacts
<1>3. PICK pkg : newest = Posted(Len(entries), pkg)
  BY <1>2 DEF EntriesMade, newest
<1> DEFINE t == script[Len(entries)]
           key == session_key_of(t.sender, Len(entries) - 1)
<1>4. Newest.note_encs = [i \in DOMAIN t.outputs |-> build_note_enc(key, i, t.outputs[i])]
  BY <1>3, PostedFacts, ZenonT(60) DEF Newest
<1> HIDE DEF key
<1>5. \A i \in DOMAIN t.outputs : Newest.note_encs[i].data = t.outputs[i]
  BY <1>4 DEF build_note_enc, Wrap
<1>6. DOMAIN Newest.note_encs = DOMAIN t.outputs
  BY <1>4
<1> QED BY <1>2, <1>3, <1>4, <1>5, <1>6 DEF key

(* The newest entry's nullifier is not in the accumulator yet: its         *)
(* transfer was valid.                                                     *)
LEMMA NewestIsFresh ==
    ASSUME Control, EntriesMade, Accumulated, PostedValid, turn # 0
    PROVE  newest.nullifier \in Nullifiers /\ newest.nullifier \notin Members(nullifier_tree)
<1>1. Len(entries) \in 1 .. Len(entries) /\ Len(entries) \in 1 .. Len(script) /\ script \in Scripts
  BY NewestFacts
<1>2. PICK n \in Nat : n = Len(entries)
  BY <1>1, ScriptFacts
<1>3. newest.nullifier = nullifier(commitment(script[n].inputs[1]), script[n].sender)
      /\ newest.nullifier \in Nullifiers
  BY <1>1, <1>2, EntryNullifier DEF newest
<1>4. ASSUME NEW j \in 1 .. n - 1 PROVE entries[j].nullifier # newest.nullifier
  <2>1. j \in 1 .. Len(entries) /\ j \in 1 .. Len(script)
    BY <1>1, <1>2, ScriptFacts
  <2>2. entries[j].nullifier = nullifier(commitment(script[j].inputs[1]), script[j].sender)
    BY <2>1, EntryNullifier
  <2>3. script[j].inputs[1] # script[n].inputs[1]
    BY <1>1, <1>2 DEF PostedValid, Valid
  <2>4. /\ <<commitment(script[j].inputs[1]), script[j].sender>> \in DOMAIN NullifierOf
        /\ <<commitment(script[n].inputs[1]), script[n].sender>> \in DOMAIN NullifierOf
    BY <1>1, <1>2, <2>1, TransferFacts
  <2> QED BY <1>3, <2>2, <2>3, <2>4, NullifierInjective
<1>5. Members(nullifier_tree) = {entries[j].nullifier : j \in 1 .. n - 1}
  BY <1>2 DEF Accumulated, Finished
<1> QED BY <1>3, <1>4, <1>5

(* A run that commits to public values of the receipt program.             *)
CommitsReceipt(run) ==
    run.exit_code = 0 /\ \E pv : run.output = encode(pv) /\ pv.vkey = Vkey("coinproof")

(* The receipt guest accepts the newest slot's receipt of an output for    *)
(* its owner, and asks for the validation of that slot's spend proof.      *)
LEMMA ReceiptVerdict ==
    ASSUME Control, EntriesMade, Accumulated, PostedValid, PostedSpendsAnchored, turn # 0,
           NEW p, NEW j \in DOMAIN script[Len(entries)].outputs,
           script[Len(entries)].outputs[j].owner_pk = pk_of(p)
    PROVE  LET run == program_coinproof(CoinproofStdin(p, script[Len(entries)].outputs[j]).items)
           IN  /\ CommitsReceipt(run)
               /\ \A v \in run.verifies : \E pkg \in Newest.spend_proof :
                     v = [vkey |-> Vkey("vfy-g16"), bytes |-> pkg.pv_encode]
<1> DEFINE n == Len(entries)
           coin == script[n].outputs[j]
           vkey == Vkey("coinproof")
           vfy == Vkey("vfy-g16")
           path == append_proof_for(entries)
           w == prove_non_membership(nullifier_tree, newest.nullifier)
           r == root(nullifier_tree)
           cn == commitment(coin)
           items == CoinproofStdin(p, coin).items
           checked == check_coin_receipt(vkey, p, cn, newest, slot, path, w, r)
           chosen == CHOOSE c \in checked : TRUE
           defers == {[vkey |-> items[2], bytes |-> b] : b \in chosen.receipt}
           run == program_coinproof(items)
<1>1. items = <<vkey, vfy, p, cn, newest, slot, path, w, r>>
  BY DEF CoinproofStdin, build_coinproof_stdin
<1>2. /\ items[1] = vkey /\ items[2] = vfy /\ items[3] = p /\ items[4] = cn /\ items[5] = newest
      /\ items[6] = slot /\ items[7] = path /\ items[8] = w /\ items[9] = r
  <2> HIDE DEF vkey, vfy, path, w, r, cn, items
  <2> QED BY <1>1
<1>3. run = IF checked = {} THEN Halted(<<>>) ELSE Committed(encode(chosen.pv), defers)
  <2> HIDE DEF vkey, vfy, path, w, r, cn, items
  <2> QED BY <1>2 DEF program_coinproof
<1>4. PICK pkg : newest = Posted(n, pkg)
  BY NewestFacts
<1>5. Newest.spend_proof = {pkg} /\ Newest.output_commitments = commitments(script[n].outputs)
  BY <1>4, PostedFacts DEF Newest
<1>6. scan_entry(p, newest) = {Newest}
  BY <1>4, OwnerScans DEF Newest
<1>7. verify_nonmembership(r, newest.nullifier, w)
  <2>1. newest.nullifier \in Nullifiers /\ newest.nullifier \notin Members(nullifier_tree)
    BY NewestIsFresh
  <2>2. Linked(nullifier_tree) /\ Cached(nullifier_tree)
    BY DEF Accumulated
  <2> QED BY <2>1, <2>2, FreshVerdict
<1>8. \E i \in DOMAIN Newest.output_commitments : Newest.output_commitments[i] = cn
  BY <1>5 DEF commitments
<1>9. \E pv \in decode(pkg.pv_encode) : \E i \in DOMAIN pv.output_commitments : pv.output_commitments[i] = cn
  <2>1. n \in DOMAIN entries
    BY NewestFacts, BoardLength DEF Control
  <2>2. Package(n) = pkg
    BY <1>5 DEF Package, Newest, newest
  <2>3. PICK pv \in decode(pkg.pv_encode) : pv.output_commitments = commitments(script[n].outputs)
    BY <2>1, <2>2 DEF PostedSpendsAnchored
  <2> QED BY <2>3 DEF commitments
<1> HIDE DEF n, coin, vkey, path, w, r, cn, items
<1> DEFINE body(tx) ==
             [pv |-> [vkey |-> vkey, owner_pk |-> pk_of(p), coin_commitment |-> cn,
                      board_root |-> compute_root_from_path(merkle_leaf(slot, newest), slot, path),
                      received_at |-> slot],
              receipt |-> {g.pv_encode : g \in {x \in tx.spend_proof : x.proof_bytes # <<>>}}]
           passing == {tx \in scan_entry(p, newest) :
                          /\ verify_nonmembership(r, newest.nullifier, w)
                          /\ \E i \in DOMAIN tx.output_commitments : tx.output_commitments[i] = cn
                          /\ \A g \in tx.spend_proof : \E pv \in decode(g.pv_encode) :
                                \E i \in DOMAIN pv.output_commitments : pv.output_commitments[i] = cn}
<1>10. checked = {body(tx) : tx \in passing}
  BY DEF check_coin_receipt
<1>11. passing = {Newest}
  <2>1. \A g \in Newest.spend_proof : \E pv \in decode(g.pv_encode) :
           \E i \in DOMAIN pv.output_commitments : pv.output_commitments[i] = cn
    BY <1>5, <1>9
  <2> QED BY <1>6, <1>7, <1>8, <2>1
<1>12. body(Newest).pv.vkey = vkey /\ \A b \in body(Newest).receipt : b = pkg.pv_encode
  BY <1>5
<1> HIDE DEF body, passing, checked
<1>13. checked = {body(Newest)}
  BY <1>10, <1>11
<1>14. chosen = body(Newest)
  BY <1>13
<1> HIDE DEF chosen, defers, run
<1>15. run = Committed(encode(chosen.pv), defers)
  BY <1>3, <1>13
<1>16. run.exit_code = 0 /\ run.output = encode(chosen.pv) /\ run.verifies = defers
  BY <1>15 DEF Committed
<1>17. CommitsReceipt(run)
  BY <1>12, <1>14, <1>16 DEF CommitsReceipt, vkey
<1>18. \A v \in defers : v = [vkey |-> vfy, bytes |-> pkg.pv_encode]
  BY <1>2, <1>12, <1>14 DEF defers
<1> QED BY <1>5, <1>16, <1>17, <1>18 DEF run, items, coin, n

(* A discovered coin is the output the note at hand is of.                 *)
LEMMA DiscoveredIsOutput ==
    ASSUME Control, EntriesMade, turn # 0, note \in DOMAIN Newest.note_encs,
           NEW coin \in Discovered(Scanner, note)
    PROVE  /\ note \in DOMAIN script[Len(entries)].outputs
           /\ coin = script[Len(entries)].outputs[note]
           /\ coin.owner_pk = pk_of(Scanner)
<1>1. coin \in NoteAt(Scanner, newest, note) /\ coin.owner_pk = pk_of(Scanner)
  BY DEF Discovered
<1>2. coin = Newest.note_encs[note].data
  BY <1>1, ScanIsBody DEF Newest
<1> QED BY <1>1, <1>2, NewestFacts

(* With proving on, a validation is of the newest entry's package, for a   *)
(* note that entry has.                                                    *)
ValidationOfNewest ==
    call.elf = "vfy-g16" /\ mode = "prove" =>
        /\ note \in DOMAIN Newest.note_encs
        /\ \E pkg \in Newest.spend_proof : call.stdin = build_vfy_g16_stdin(pkg)

(* A pending receipt is a run that commits to public values of the receipt *)
(* program, with what it defers to written to its stdin where that is      *)
(* looked at; an answer that waits is of such a run.                       *)
ReceiptJudged ==
    call.elf = "coinproof" =>
        /\ mode # "bench-vfy-g16"
        /\ CommitsReceipt(program_coinproof(call.stdin.items))
        /\ mode = "prove" =>
              \A v \in program_coinproof(call.stdin.items).verifies : DeferredHolds(v, call.stdin.proofs)
        /\ pc = "answered" => CommitsReceipt(Outcome)

(* Each step keeps a pending validation that of the newest entry: only     *)
(* PassNote, over a note the wallet was sent, calls for one.               *)
LEMMA ValidationOfNewestStep ==
    ASSUME Control, ValidationOfNewest, [Next]_vars
    PROVE  ValidationOfNewest'
<1>1. CASE UNCHANGED <<mode, entries, note, call>>
  BY <1>1 DEF ValidationOfNewest, Newest, newest
<1>2. CASE call'.elf # "vfy-g16" \/ mode' # "prove"
  BY <1>2 DEF ValidationOfNewest
<1>3. CASE Bootstrap
  <2>1. UNCHANGED <<entries, note>> /\ note \in NotesFor(Scanner)
    BY <1>3 DEF Bootstrap
  <2>2. PICK tx \in scan_entry(Scanner, newest) :
            \E pkg \in tx.spend_proof : Call("vfy-g16", build_vfy_g16_stdin(pkg))
    BY <1>3 DEF Bootstrap
  <2>3. PICK pkg \in tx.spend_proof : Call("vfy-g16", build_vfy_g16_stdin(pkg))
    BY <2>2
  <2>4. tx = Newest /\ call'.stdin = build_vfy_g16_stdin(pkg)
    BY <2>2, <2>3, ScanIsBody, CallFacts DEF Newest
  <2>5. note \in DOMAIN Newest.note_encs
    BY <2>1, ScanIsBody DEF NotesFor, Newest
  <2>6. Newest' = Newest
    BY <2>1 DEF Newest, newest
  <2> QED BY <2>1, <2>3, <2>4, <2>5, <2>6 DEF ValidationOfNewest
<1>4. CASE BuildSpend
  <2>1. \/ UNCHANGED call
        \/ \E stdin : Call("spend", stdin)
    BY <1>4 DEF BuildSpend
  <2>2. UNCHANGED <<mode, entries, note>>
    BY <1>4 DEF BuildSpend
  <2> QED BY <1>1, <1>2, <2>1, <2>2, CallFacts
<1>5. CASE ProveReceipt \/ ExecuteReceipt
  <2>1. \E stdin : Call("coinproof", stdin)
    BY <1>5 DEF ProveReceipt, ExecuteReceipt
  <2> QED BY <1>2, <2>1, CallFacts
<1>6. CASE AcceptSpend \/ FileReceipt \/ BenchValidate
  BY <1>2, <1>6 DEF AcceptSpend, FileReceipt, NoCall, BenchValidate
<1>7. CASE PassNote \/ NextWallet \/ InsertNullifier
  <2>1. pc = "ready" /\ call' = call
    BY <1>7 DEF PassNote, NextWallet, InsertNullifier
  <2>2. call = NoCall
    BY <2>1 DEF Control, Idle
  <2> QED BY <1>2, <2>1, <2>2 DEF NoCall
<1>8. CASE ChildProves \/ ChildDies \/ DecodeExecuted \/ BenchReport \/ UNCHANGED vars
  BY <1>1, <1>8 DEF ChildProves, ChildDies, DecodeExecuted, BenchReport, vars
<1> QED BY <1>3, <1>4, <1>5, <1>6, <1>7, <1>8 DEF Next, HostStep, Ended

(* A receipt called for after its validation defers to just that           *)
(* validation's proof.                                                     *)
LEMMA ProveReceiptJudged ==
    ASSUME Control, EntriesMade, Accumulated, PostedValid, PostedSpendsAnchored, ValidationPending,
           ValidationOfNewest, ProveReceipt
    PROVE  \E stdin : /\ Call("coinproof", stdin)
                      /\ CommitsReceipt(program_coinproof(stdin.items))
                      /\ \A v \in program_coinproof(stdin.items).verifies : DeferredHolds(v, stdin.proofs)
<1>1. PICK coin \in Discovered(Scanner, note) :
          Call("coinproof", write_proof(CoinproofStdin(Scanner, coin), answer))
  BY DEF ProveReceipt
<1>2. pc = "answered" /\ call.elf = "vfy-g16" /\ mode = "prove"
  BY DEF ProveReceipt
<1>3. turn # 0 /\ note \in DOMAIN Newest.note_encs
  BY <1>2, LengthsAreNat DEF Control, ReceiptPending, ValidationOfNewest
<1>4. PICK pkg \in Newest.spend_proof : call.stdin = build_vfy_g16_stdin(pkg)
  BY <1>2 DEF ValidationOfNewest
<1>5. answer.elf = "vfy-g16" /\ answer.exit_code = 0 /\ answer.public_values = pkg.pv_encode
  <2>1. answer.elf = "vfy-g16"
    BY <1>2 DEF Control, TypeOK
  <2>2. PICK g : /\ call.stdin = build_vfy_g16_stdin(g)
                 /\ answer.exit_code = 0 /\ answer.public_values = g.pv_encode
    BY <1>2 DEF ValidationPending
  <2>3. \A x : build_vfy_g16_stdin(x).items[2] = x.pv_encode
    BY DEF build_vfy_g16_stdin
  <2>4. g.pv_encode = pkg.pv_encode
    BY <1>4, <2>2, <2>3
  <2> QED BY <2>1, <2>2, <2>4
<1>6. /\ note \in DOMAIN script[Len(entries)].outputs
      /\ coin = script[Len(entries)].outputs[note]
      /\ coin.owner_pk = pk_of(Scanner)
  BY <1>3, DiscoveredIsOutput
<1> DEFINE asked == CoinproofStdin(Scanner, coin)
           stdin == write_proof(asked, answer)
           run == program_coinproof(asked.items)
<1>7. stdin.items = asked.items /\ answer \in stdin.proofs
  BY DEF write_proof, CoinproofStdin, build_coinproof_stdin
<1>8. /\ CommitsReceipt(run)
      /\ \A v \in run.verifies : \E g \in Newest.spend_proof :
            v = [vkey |-> Vkey("vfy-g16"), bytes |-> g.pv_encode]
  BY <1>3, <1>6, ReceiptVerdict
<1>9. Newest.spend_proof = {pkg}
  <2>1. PICK g : newest = Posted(Len(entries), g)
    BY <1>3, NewestFacts
  <2>2. Newest.spend_proof = {g}
    BY <2>1, PostedFacts DEF Newest
  <2> QED BY <2>2
<1>10. \A v : v = [vkey |-> Vkey("vfy-g16"), bytes |-> pkg.pv_encode] => DeferredHolds(v, stdin.proofs)
  <2> HIDE DEF stdin
  <2>1. \A v : v = [vkey |-> Vkey("vfy-g16"), bytes |-> pkg.pv_encode] =>
                  v.vkey = Vkey("vfy-g16") /\ v.bytes = pkg.pv_encode
    OBVIOUS
  <2> QED BY <1>5, <1>7, <2>1 DEF DeferredHolds
<1>11. Call("coinproof", stdin)
  BY <1>1
<1> HIDE DEF asked, stdin
<1> QED BY <1>7, <1>8, <1>9, <1>10, <1>11

(* So does the receipt of the minted coin that --execute runs.             *)
LEMMA ExecuteReceiptJudged ==
    ASSUME Control, EntriesMade, Accumulated, PostedValid, PostedSpendsAnchored, MintOnly, ExecuteReceipt
    PROVE  \E stdin : /\ Call("coinproof", stdin)
                      /\ CommitsReceipt(program_coinproof(stdin.items))
<1>1. /\ turn = 1 /\ mode = "execute"
      /\ Call("coinproof", CoinproofStdin(MintOwner, script[1].outputs[1]))
  BY DEF ExecuteReceipt
<1>2. Len(script) = 1
  BY <1>1 DEF MintOnly
<1>3. Len(entries) = 1 /\ script \in Scripts /\ 1 \in 1 .. Len(script)
  BY <1>1, <1>2, NewestFacts
<1>4. 1 \in DOMAIN script[1].outputs /\ \E p \in PartySet : script[1].outputs[1].owner_pk = pk_of(p)
  BY <1>3, TransferFacts
<1>5. script[1].outputs[1].owner_pk = pk_of(MintOwner)
  BY <1>4 DEF MintOwner
<1>6. CommitsReceipt(program_coinproof(CoinproofStdin(MintOwner, script[1].outputs[1]).items))
  <2>1. turn # 0 /\ 1 \in DOMAIN script[Len(entries)].outputs
        /\ script[Len(entries)].outputs[1].owner_pk = pk_of(MintOwner)
    BY <1>1, <1>3, <1>4, <1>5
  <2>2. CommitsReceipt(program_coinproof(CoinproofStdin(MintOwner, script[Len(entries)].outputs[1]).items))
    BY <2>1, ReceiptVerdict
  <2> QED BY <1>3, <2>2
<1> QED BY <1>1, <1>6

(* Each step keeps a pending receipt one that holds.                       *)
LEMMA ReceiptJudgedStep ==
    ASSUME Control, EntriesMade, Accumulated, PostedValid, PostedSpendsAnchored, ValidationPending,
           ValidationOfNewest, MintOnly, ReceiptJudged, [Next]_vars
    PROVE  ReceiptJudged'
<1>0. mode' = mode
  BY TurnSteps
<1>1. CASE call'.elf # "coinproof"
  BY <1>1 DEF ReceiptJudged
<1>2. CASE UNCHANGED call /\ (pc' = "answered" => pc = "answered" /\ UNCHANGED answer)
  <2>1. pc' = "answered" => Outcome' = Outcome
    BY <1>2 DEF Outcome
  <2> QED BY <1>0, <1>2, <2>1 DEF ReceiptJudged
<1>3. CASE ProveReceipt
  <2>1. mode = "prove"
    BY <1>3 DEF ProveReceipt
  <2>2. PICK stdin : /\ Call("coinproof", stdin)
                     /\ CommitsReceipt(program_coinproof(stdin.items))
                     /\ \A v \in program_coinproof(stdin.items).verifies : DeferredHolds(v, stdin.proofs)
    BY <1>3, ProveReceiptJudged
  <2>3. call'.stdin = stdin /\ pc' = "calling"
    BY <2>2, CallFacts
  <2> QED BY <1>0, <2>1, <2>2, <2>3 DEF ReceiptJudged
<1>4. CASE ExecuteReceipt
  <2>1. mode = "execute"
    BY <1>4 DEF ExecuteReceipt
  <2>2. PICK stdin : /\ Call("coinproof", stdin)
                     /\ CommitsReceipt(program_coinproof(stdin.items))
    BY <1>4, ExecuteReceiptJudged
  <2>3. call'.stdin = stdin /\ pc' = "calling"
    BY <2>2, CallFacts
  <2> QED BY <1>0, <2>1, <2>2, <2>3 DEF ReceiptJudged
<1>5. CASE ChildProves /\ call.elf = "coinproof"
  <2>1. call' = call
    BY <1>5 DEF ChildProves
  <2> DEFINE run == program_coinproof(call.stdin.items)
  <2>2. pc' = "answered" => answer'.exit_code = run.exit_code /\ answer'.public_values = run.output
    BY <1>5 DEF ChildProves, execute, prove
  <2>3. pc' = "answered" => Outcome' = [exit_code |-> run.exit_code, output |-> run.output]
    BY <2>2 DEF Outcome
  <2>4. CommitsReceipt(run)
    BY <1>5 DEF ReceiptJudged
  <2>5. ASSUME pc' = "answered" PROVE CommitsReceipt(Outcome')
    <3> HIDE DEF run
    <3> QED BY <2>3, <2>4, <2>5 DEF CommitsReceipt
  <2> QED BY <1>0, <1>5, <2>1, <2>5 DEF ReceiptJudged
<1>6. CASE BuildSpend
  <2>1. \/ UNCHANGED call /\ pc' = "panicked"
        \/ \E stdin : Call("spend", stdin)
    BY <1>6 DEF BuildSpend
  <2> QED BY <1>1, <1>2, <2>1, CallFacts
<1>7. CASE AcceptSpend \/ FileReceipt \/ Bootstrap \/ BenchValidate
  <2>1. call'.elf # "coinproof"
    BY <1>7, CallFacts DEF AcceptSpend, FileReceipt, NoCall, Bootstrap, BenchValidate
  <2> QED BY <1>1, <2>1
<1>8. CASE ChildProves /\ call.elf # "coinproof"
  <2>1. call' = call
    BY <1>8 DEF ChildProves
  <2> QED BY <1>1, <1>8, <2>1
<1>9. CASE PassNote \/ NextWallet \/ InsertNullifier \/ DecodeExecuted \/ BenchReport \/ ChildDies
           \/ UNCHANGED vars
  <2>1. UNCHANGED call /\ (pc' = "answered" => pc = "answered" /\ UNCHANGED answer)
    BY <1>9 DEF PassNote, NextWallet, InsertNullifier, DecodeExecuted, BenchReport, ChildDies, vars
  <2> QED BY <1>2, <2>1
<1> QED BY <1>3, <1>4, <1>5, <1>6, <1>7, <1>8, <1>9 DEF Next, HostStep, Ended

(* What FileReceipt does: it files the receipt that came back under the    *)
(* commitment of the discovered coin, and never panics.                    *)
LEMMA FileReceiptFiles ==
    ASSUME Control, ReceiptJudged, FileReceipt
    PROVE  /\ pc' = "ready" /\ note' = note + 1 /\ UNCHANGED <<mode, script, entries, turn>>
           /\ mode = "prove" /\ turn \in DOMAIN Wallets /\ Scanner \in PartySet
           /\ \E coin \in Discovered(Scanner, note) : \E pv :
                 /\ wallets' = [wallets EXCEPT ![Scanner] =
                                   MapInsert(@, commitment(coin), [pv |-> pv, proof |-> answer])]
                 /\ answer.elf = "coinproof" /\ answer.public_values = encode(pv)
                 /\ pv.vkey = Vkey("coinproof")
<1>1. /\ pc = "answered" /\ call.elf = "coinproof" /\ mode = "prove"
      /\ UNCHANGED <<mode, script, entries, turn>>
  BY DEF FileReceipt
<1>2. turn \in DOMAIN Wallets /\ Scanner \in PartySet
  BY <1>1, LengthsAreNat DEF Control, ReceiptPending, Scanner
<1>3. answer.elf = "coinproof"
  BY <1>1 DEF Control, TypeOK
<1>4. answer.exit_code = 0 /\ \E pv : answer.public_values = encode(pv) /\ pv.vkey = Vkey("coinproof")
  BY <1>1 DEF ReceiptJudged, CommitsReceipt, Outcome
<1>5. PICK pv : answer.public_values = encode(pv) /\ pv.vkey = Vkey("coinproof")
  BY <1>4
<1>6. decode(answer.public_values) = {pv}
  BY <1>5, DecodeFacts
<1>7. verify(answer, "coinproof") = {TRUE}
  BY <1>3, <1>4 DEF verify
<1>8. PICK coin \in Discovered(Scanner, note) :
          /\ \E x \in {pv} :
                wallets' = [wallets EXCEPT ![Scanner] =
                               MapInsert(@, commitment(coin), [pv |-> x, proof |-> answer])]
          /\ pc' = "ready" /\ note' = note + 1
  <2>1. {pv} # {}
    OBVIOUS
  <2> QED BY <1>6, <1>7, <2>1 DEF FileReceipt
<1> QED BY <1>1, <1>2, <1>3, <1>5, <1>8

(* Each step keeps the receipts proofs of the receipt program: only        *)
(* FileReceipt files one.                                                  *)
LEMMA ReceiptsProvedStep ==
    ASSUME Control, ReceiptJudged, ReceiptsProved, [Next]_vars
    PROVE  ReceiptsProved'
<1>1. CASE UNCHANGED wallets
  BY <1>1 DEF ReceiptsProved
<1>2. CASE FileReceipt
  <2>1. Scanner \in PartySet
    BY <1>2, FileReceiptFiles
  <2>2. PICK coin \in Discovered(Scanner, note) : \E pv :
                 /\ wallets' = [wallets EXCEPT ![Scanner] =
                                   MapInsert(@, commitment(coin), [pv |-> pv, proof |-> answer])]
                 /\ answer.elf = "coinproof" /\ answer.public_values = encode(pv)
                 /\ pv.vkey = Vkey("coinproof")
    BY <1>2, FileReceiptFiles
  <2>3. PICK pv :
                 /\ wallets' = [wallets EXCEPT ![Scanner] =
                                   MapInsert(@, commitment(coin), [pv |-> pv, proof |-> answer])]
                 /\ answer.elf = "coinproof" /\ answer.public_values = encode(pv)
                 /\ pv.vkey = Vkey("coinproof")
    BY <2>2
  <2> DEFINE r == [pv |-> pv, proof |-> answer]
             c == commitment(coin)
  <2>4. r.proof.elf = "coinproof" /\ r.proof.public_values = encode(r.pv) /\ r.pv.vkey = Vkey("coinproof")
    BY <2>3
  <2>5. wallets' = [wallets EXCEPT ![Scanner] = MapInsert(@, c, r)] /\ DOMAIN wallets = PartySet
    BY <2>3 DEF Control, TypeOK
  <2> HIDE DEF r, c
  <2>6. ASSUME NEW p \in PartySet, NEW cn \in DOMAIN wallets'[p]
        PROVE  wallets'[p][cn] = r \/ (cn \in DOMAIN wallets[p] /\ wallets'[p][cn] = wallets[p][cn])
    <3>1. CASE p = Scanner
      <4>1. wallets'[p] = MapInsert(wallets[p], c, r)
        BY <2>1, <2>5, <3>1
      <4> QED BY <4>1 DEF MapInsert
    <3>2. CASE p # Scanner
      BY <2>5, <3>2
    <3> QED BY <3>1, <3>2
  <2> QED BY <2>4, <2>6 DEF ReceiptsProved
<1> QED BY <1>1, <1>2 DEF Next, HostStep, Ended, vars, BuildSpend, AcceptSpend, PassNote, Bootstrap, NextWallet,
         ProveReceipt, InsertNullifier, ExecuteReceipt, DecodeExecuted, BenchValidate,
         BenchReport, ChildProves, ChildDies

(* The wallets' turns have come past note i of slot k for wallet w.        *)
Reached(k, i, w) == k < Len(entries) \/ turn = 0 \/ w < turn \/ (w = turn /\ i < note)

(* Whoever owns an output that was reached holds its receipt.              *)
ReceiptsFiled ==
    mode = "prove" =>
        \A k \in 1 .. Len(entries), w \in DOMAIN Wallets : \A i \in DOMAIN script[k].outputs :
            script[k].outputs[i].owner_pk = pk_of(Wallets[w]) /\ Reached(k, i, w)
                => commitment(script[k].outputs[i]) \in DOMAIN wallets[Wallets[w]]

(* A wallet drops no receipt.                                              *)
LEMMA WalletsGrow ==
    ASSUME Control, ReceiptJudged, [Next]_vars, NEW p \in PartySet
    PROVE  DOMAIN wallets[p] \subseteq DOMAIN wallets'[p]
<1>1. CASE UNCHANGED wallets
  BY <1>1
<1>2. CASE FileReceipt
  <2>1. \E c, r : wallets' = [wallets EXCEPT ![Scanner] = MapInsert(@, c, r)]
    BY <1>2, FileReceiptFiles
  <2>2. PICK c, r : wallets' = [wallets EXCEPT ![Scanner] = MapInsert(@, c, r)]
    BY <2>1
  <2>3. DOMAIN wallets = PartySet
    BY DEF Control, TypeOK
  <2>4. wallets'[p] = wallets[p] \/ wallets'[p] = MapInsert(wallets[p], c, r)
    BY <2>2, <2>3
  <2> QED BY <2>4 DEF MapInsert
<1> QED BY <1>1, <1>2 DEF Next, HostStep, Ended, vars, BuildSpend, AcceptSpend, PassNote, Bootstrap, NextWallet,
         ProveReceipt, InsertNullifier, ExecuteReceipt, DecodeExecuted, BenchValidate,
         BenchReport, ChildProves, ChildDies

(* Whoever owns an output of the newest entry sees every note of it.       *)
LEMMA NewestScan ==
    ASSUME Control, EntriesMade, turn # 0, NEW p, NEW j \in DOMAIN script[Len(entries)].outputs,
           script[Len(entries)].outputs[j].owner_pk = pk_of(p)
    PROVE  /\ NotesFor(p) = DOMAIN script[Len(entries)].outputs
           /\ \A i \in DOMAIN script[Len(entries)].outputs :
                  script[Len(entries)].outputs[i] \in NoteAt(p, newest, i)
<1>1. PICK pkg : newest = Posted(Len(entries), pkg)
  BY NewestFacts
<1>2. /\ scan_entry(p, newest) = {Newest}
      /\ \A i \in DOMAIN script[Len(entries)].outputs :
             script[Len(entries)].outputs[i] \in NoteAt(p, newest, i)
  <2> PICK n : n = Len(entries)
    OBVIOUS
  <2>1. j \in DOMAIN script[n].outputs /\ script[n].outputs[j].owner_pk = pk_of(p)
    OBVIOUS
  <2>2. scan_entry(p, Posted(n, pkg)) = {Posted(n, pkg).ciphertext.data}
    BY <2>1, OwnerScans
  <2>3. ASSUME NEW i \in DOMAIN script[n].outputs
        PROVE  script[n].outputs[i] \in NoteAt(p, Posted(n, pkg), i)
    BY <2>1, OwnerScans
  <2> QED BY <1>1, <2>2, <2>3 DEF Newest
<1>3. NotesFor(p) = DOMAIN Newest.note_encs
  BY <1>2 DEF NotesFor
<1> QED BY <1>2, <1>3, NewestFacts

(* What a step newly reaches is filed by it, was in the wallet before, or  *)
(* is not the wallet's own.                                                *)
LEMMA NewlyReached ==
    ASSUME Control, EntriesMade, ReceiptJudged, [Next]_vars, mode = "prove",
           NEW k \in 1 .. Len(entries'), NEW w \in DOMAIN Wallets, NEW i \in DOMAIN script[k].outputs,
           Reached(k, i, w)', ~(k \in 1 .. Len(entries) /\ Reached(k, i, w)),
           script[k].outputs[i].owner_pk = pk_of(Wallets[w])
    PROVE  commitment(script[k].outputs[i]) \in DOMAIN wallets'[Wallets[w]]
<1>1. /\ Len(entries) \in Nat /\ w \in Nat \ {0} /\ turn \in Nat /\ note \in Nat \ {0} /\ Len(Wallets) \in Nat
      /\ w <= Len(Wallets)
  BY ScriptFacts, LengthsAreNat DEF Control, TypeOK
<1>2. UNCHANGED <<mode, script>>
  BY TurnSteps
<1>3. CASE UNCHANGED <<entries, turn, note>>
  BY <1>3 DEF Reached
<1>4. Len(entries') \in 1 .. Len(script) /\ i \in Nat \ {0} /\ DOMAIN script[k].outputs = 1 .. Len(script[k].outputs)
      /\ Len(script[k].outputs) \in Nat
  <2>1. entries' = entries \/ (Len(entries) < Len(script) /\ \E e : entries' = Append(entries, e))
    BY TurnSteps
  <2>2. Len(entries') = Len(entries) \/ (Len(entries) < Len(script) /\ Len(entries') = Len(entries) + 1)
    BY <2>1, BoardGrows DEF Control
  <2>3. Len(entries') \in 1 .. Len(script) /\ k \in 1 .. Len(script) /\ script \in Scripts
    BY <1>1, <2>2, ScriptFacts
  <2>4. DOMAIN script[k].outputs = 1 .. Len(script[k].outputs) /\ Len(script[k].outputs) \in Nat
    BY <2>3, TransferFacts
  <2> QED BY <2>3, <2>4
<1>5. CASE AcceptSpend /\ entries' # entries
  <2>1. turn = 0 /\ turn' = 1 /\ note' = 1 /\ \E e : entries' = Append(entries, e)
    BY <1>5, TurnSteps
  <2>2. Len(entries') = Len(entries) + 1
    BY <2>1, BoardGrows DEF Control
  <2> QED BY <1>1, <1>4, <2>1, <2>2 DEF Reached
<1>6. ASSUME turn # 0, entries' = entries, turn' = turn, note' = note + 1
      PROVE  k = Len(entries) /\ w = turn /\ i = note
  BY <1>1, <1>4, <1>6 DEF Reached
<1>7. CASE PassNote
  <2>1. /\ turn # 0 /\ entries' = entries /\ turn' = turn /\ note' = note + 1
        /\ UNCHANGED wallets /\ Discovered(Scanner, note) = {}
    BY <1>7, LengthsAreNat DEF PassNote
  <2>2. k = Len(entries) /\ w = turn /\ i = note
    BY <1>6, <2>1
  <2>3. script[k].outputs[i] \in NoteAt(Wallets[w], newest, i)
    BY <2>1, <2>2, NewestScan
  <2> QED BY <2>1, <2>2, <2>3 DEF Discovered, Scanner
<1>8. CASE FileReceipt
  <2>1. turn # 0 /\ entries' = entries /\ turn' = turn /\ note' = note + 1
        /\ Scanner \in PartySet
    BY <1>8, LengthsAreNat, FileReceiptFiles
  <2>2. k = Len(entries) /\ w = turn /\ i = note
    BY <1>6, <2>1
  <2>3. PICK coin \in Discovered(Scanner, note) : \E r :
            wallets' = [wallets EXCEPT ![Scanner] = MapInsert(@, commitment(coin), r)]
    BY <1>8, FileReceiptFiles
  <2>4. coin \in NoteAt(Wallets[w], newest, i)
    BY <2>2, <2>3 DEF Discovered, Scanner
  <2>5. coin = script[k].outputs[i]
    <3>1. coin = Newest.note_encs[i].data
      BY <2>4, ScanIsBody DEF Newest
    <3> QED BY <2>1, <2>2, <3>1, NewestFacts
  <2>6. PICK r : wallets' = [wallets EXCEPT ![Scanner] = MapInsert(@, commitment(coin), r)]
    BY <2>3
  <2>7. wallets'[Scanner] = MapInsert(wallets[Scanner], commitment(coin), r)
    BY <2>1, <2>6 DEF Control, TypeOK
  <2>8. commitment(coin) \in DOMAIN wallets'[Scanner]
    BY <2>7 DEF MapInsert
  <2> QED BY <2>2, <2>5, <2>8 DEF Scanner
<1>9. CASE NextWallet
  <2>1. /\ turn # 0 /\ entries' = entries /\ turn' = turn + 1 /\ note' = 1
        /\ note \notin NotesFor(Scanner)
    BY <1>9, LengthsAreNat DEF NextWallet
  <2>2. k = Len(entries) /\ w = turn /\ ~(i < note)
    BY <1>1, <1>4, <2>1 DEF Reached
  <2>3. NotesFor(Scanner) = 1 .. Len(script[k].outputs)
    BY <1>4, <2>1, <2>2, NewestScan DEF Scanner
  <2> QED BY <1>1, <1>4, <2>1, <2>2, <2>3
<1>10. CASE InsertNullifier
  <2>1. turn = Len(Wallets) + 1 /\ entries' = entries
    BY <1>10 DEF InsertNullifier
  <2> QED BY <1>1, <2>1 DEF Reached
<1>11. CASE AcceptSpend /\ entries' = entries
  <2>1. UNCHANGED <<entries, turn, note>>
    <3>1. \/ UNCHANGED <<entries, turn, note>>
          \/ \E e : entries' = Append(entries, e)
      BY <1>11 DEF AcceptSpend, PostEntry
    <3>2. ASSUME \E e : entries' = Append(entries, e) PROVE FALSE
      BY <1>1, <1>11, <3>2, BoardGrows DEF Control
    <3> QED BY <3>1, <3>2
  <2> QED BY <1>3, <2>1
<1> QED BY <1>3, <1>5, <1>7, <1>8, <1>9, <1>10, <1>11 DEF Next, HostStep, Ended, vars, BuildSpend, Bootstrap,
         ProveReceipt, ExecuteReceipt, DecodeExecuted, BenchValidate, BenchReport, ChildProves, ChildDies

(* Each step keeps what was reached filed.                                 *)
LEMMA ReceiptsFiledStep ==
    ASSUME Control, EntriesMade, ReceiptJudged, ReceiptsFiled, [Next]_vars
    PROVE  ReceiptsFiled'
<1>1. UNCHANGED <<mode, script>>
  BY TurnSteps
<1>2. ASSUME mode = "prove", NEW k \in 1 .. Len(entries'), NEW w \in DOMAIN Wallets,
             NEW i \in DOMAIN script[k].outputs,
             script[k].outputs[i].owner_pk = pk_of(Wallets[w]), Reached(k, i, w)'
      PROVE  commitment(script[k].outputs[i]) \in DOMAIN wallets'[Wallets[w]]
  <2>1. CASE k \in 1 .. Len(entries) /\ Reached(k, i, w)
    <3>1. commitment(script[k].outputs[i]) \in DOMAIN wallets[Wallets[w]]
      BY <1>2, <2>1 DEF ReceiptsFiled
    <3>2. Wallets[w] \in PartySet
      BY LengthsAreNat
    <3> QED BY <3>1, <3>2, WalletsGrow
  <2>2. CASE ~(k \in 1 .. Len(entries) /\ Reached(k, i, w))
    BY <1>2, <2>2, NewlyReached
  <2> QED BY <2>1, <2>2
<1> QED BY <1>1, <1>2 DEF ReceiptsFiled

(* A run that panicked did so over the upcoming transfer, not valid.       *)
PanicsRight == pc = "panicked" => turn = 0 /\ Len(entries) < Len(script) /\ ~Valid(Upcoming)

(* The sender of a valid transfer other than the mint holds the receipt of *)
(* its input: it was sent the coin.                                        *)
LEMMA SenderHolds ==
    ASSUME Control, ReceiptsFiled, MintOnly, turn = 0, Len(entries) < Len(script), Valid(Upcoming),
           Current.sender # GENESIS_SK
    PROVE  Current.sender \in PartySet /\ commitment(Current.inputs[1]) \in DOMAIN wallets[Current.sender]
<1>3. /\ Current = script[Upcoming] /\ Len(entries) \in Nat /\ Upcoming \in 1 .. Len(script)
      /\ script \in Scripts
  BY ScriptFacts DEF Current, Upcoming
<1> DEFINE t == script[Upcoming]
<1>4. t.sender \in PartySet /\ 1 \in DOMAIN t.inputs
  BY <1>3, TransferFacts DEF Senders
<1>5. PICK w \in DOMAIN Wallets : Wallets[w] = t.sender
  BY <1>4 DEF PartySet
<1>6. mode = "prove"
  <2>1. ASSUME mode # "prove" PROVE FALSE
    <3>1. Len(script) = 1 /\ script[1].sender = GENESIS_SK
      BY <2>1 DEF MintOnly
    <3>2. Upcoming = 1
      BY <1>3, <3>1 DEF Upcoming
    <3> QED BY <1>3, <3>1, <3>2
  <2> QED BY <2>1
<1>7. t.inputs[1].owner_pk = pk_of(t.sender)
  BY <1>4 DEF Valid
<1>8. PICK j \in 1 .. Upcoming - 1 : \E i \in DOMAIN script[j].outputs : script[j].outputs[i] = t.inputs[1]
  BY <1>3 DEF Valid
<1>9. PICK i \in DOMAIN script[j].outputs : script[j].outputs[i] = t.inputs[1]
  BY <1>8
<1>10. j \in 1 .. Len(entries) /\ Reached(j, i, w)
  BY <1>3, <1>8 DEF Upcoming, Reached
<1>11. commitment(t.inputs[1]) \in DOMAIN wallets[t.sender]
  BY <1>5, <1>6, <1>7, <1>9, <1>10 DEF ReceiptsFiled
<1> QED BY <1>3, <1>4, <1>11

(* BuildSpend panics for want of a receipt only: had the sender been sent  *)
(* the coin, it would hold it.                                             *)
LEMMA BuildSpendPanics ==
    ASSUME Control, EntriesMade, Accumulated, PostedValid, ReceiptsAnswerRequest, ReceiptsProved,
           ReceiptsFiled, MintOnly, BuildSpend, pc' = "panicked"
    PROVE  ~Valid(Upcoming)
<1>1. turn = 0 /\ Len(entries) < Len(script)
  BY DEF BuildSpend
<1>2. Current.sender # GENESIS_SK /\ SpendReceipt(Current) = {}
  BY BuildSpendJudged, CallFacts
<1> SUFFICES ASSUME Valid(Upcoming) PROVE FALSE
  OBVIOUS
<1>3. Current.sender \in PartySet /\ commitment(Current.inputs[1]) \in DOMAIN wallets[Current.sender]
  BY <1>1, <1>2, SenderHolds
<1> QED BY <1>2, <1>3 DEF SpendReceipt

(* The child refuses only what is deferred to a proof that does not hold:  *)
(* never a validation, never a receipt, and a spend only when it is of a   *)
(* transfer that is not valid.                                             *)
LEMMA ChildPanics ==
    ASSUME Control, ValidationPending, SpendJudged, ReceiptJudged, ChildProves, pc' = "panicked"
    PROVE  turn = 0 /\ Len(entries) < Len(script) /\ ~Valid(Upcoming)
<1> DEFINE run == execute(call.elf, call.stdin)
<1>1. pc = "calling" /\ ~InProcess /\ \E v \in run.verifies : ~DeferredHolds(v, call.stdin.proofs)
  <2>1. pc = "calling"
    BY DEF ChildProves
  <2>2. prove(call.elf, call.stdin) = {} /\ ~InProcess
    BY DEF ChildProves
  <2>3. prove(call.elf, call.stdin) =
            {[elf |-> call.elf, exit_code |-> x.exit_code, public_values |-> x.output] :
                x \in {y \in {run} : \A v \in y.verifies : DeferredHolds(v, call.stdin.proofs)}}
    BY DEF prove
  <2> HIDE DEF run
  <2> QED BY <2>1, <2>2, <2>3
<1>2. call.elf \in {"spend", "vfy-g16", "coinproof"}
  BY <1>1 DEF Control, TypeOK, Idle
<1>3. CASE call.elf = "spend"
  <2>1. turn = 0 /\ Len(entries) < Len(script)
    BY <1>3 DEF Control, SpendPending
  <2>2. run = program_spend(call.stdin.items)
    BY <1>3 DEF execute
  <2> QED BY <1>1, <1>3, <2>1, <2>2 DEF SpendJudged
<1>4. CASE call.elf = "vfy-g16"
  <2>1. PICK pkg : GenuinePackage(pkg) /\ call.stdin = build_vfy_g16_stdin(pkg)
    BY <1>4 DEF ValidationPending
  <2>2. run = Committed(pkg.pv_encode, {})
    BY <1>4, <2>1, ValidationRun DEF execute
  <2> QED BY <1>1, <2>2 DEF Committed
<1>5. CASE call.elf = "coinproof"
  <2>1. mode # "bench-vfy-g16" /\ mode # "execute"
    BY <1>1, <1>5 DEF ReceiptJudged, InProcess
  <2>2. mode = "prove"
    BY <2>1 DEF Control, TypeOK, Modes
  <2>3. run = program_coinproof(call.stdin.items)
    BY <1>5 DEF execute
  <2> QED BY <1>1, <1>5, <2>2, <2>3 DEF ReceiptJudged
<1> QED BY <1>2, <1>3, <1>4, <1>5

(* AcceptSpend takes every spend of a valid transfer.                      *)
LEMMA AcceptPanics ==
    ASSUME Control, SpendJudged, AcceptSpend, pc' = "panicked"
    PROVE  turn = 0 /\ Len(entries) < Len(script) /\ ~Valid(Upcoming)
<1>1. pc = "answered" /\ call.elf = "spend"
  BY DEF AcceptSpend
<1>2. turn = 0 /\ Len(entries) < Len(script) /\ answer.elf = "spend"
  BY <1>1 DEF Control, SpendPending
<1> SUFFICES ASSUME Valid(Upcoming) PROVE FALSE
  BY <1>2
<1>3. /\ answer.exit_code = 0
      /\ \E pv : answer.public_values = encode(pv) /\ pv.board_root = merkle_root_of(entries)
  BY <1>1 DEF SpendJudged, Accepts, Outcome
<1>4. PICK pv : answer.public_values = encode(pv) /\ pv.board_root = merkle_root_of(entries)
  BY <1>3
<1>5. pv \in decode(answer.public_values)
  BY <1>4, DecodeFacts
<1>6. verify(answer, "spend") = {TRUE}
  BY <1>2, <1>3 DEF verify
<1>7. \E verified \in {TRUE} :
         IF (verified \/ mode = "execute")
              /\ \E x \in decode(answer.public_values) : x.board_root = merkle_root_of(entries)
         THEN pc' = "ready"
         ELSE pc' = "panicked"
  BY <1>6 DEF AcceptSpend
<1> QED BY <1>4, <1>5, <1>7

(* Each step keeps a panic one over an invalid transfer: only              *)
(* BuildSpend, AcceptSpend and the child can panic.                        *)
LEMMA PanicsStep ==
    ASSUME Control, EntriesMade, Accumulated, PostedValid, ReceiptsAnswerRequest, ReceiptsProved,
           ReceiptsFiled, MintOnly, SpendJudged, ReceiptJudged, ValidationPending, PanicsRight, [Next]_vars
    PROVE  PanicsRight'
<1>1. CASE pc' # "panicked"
  BY <1>1 DEF PanicsRight
<1>2. ASSUME UNCHANGED <<script, entries, turn>>, turn = 0, Len(entries) < Len(script), ~Valid(Upcoming)
      PROVE  PanicsRight'
  <2>1. Upcoming' = Upcoming /\ (Valid(Upcoming)' <=> Valid(Upcoming))
    BY <1>2 DEF Upcoming, Valid
  <2> QED BY <1>2, <2>1 DEF PanicsRight
<1>3. CASE BuildSpend /\ pc' = "panicked"
  <2>1. UNCHANGED <<script, entries, turn>> /\ turn = 0 /\ Len(entries) < Len(script)
    BY <1>3 DEF BuildSpend
  <2> QED BY <1>2, <1>3, <2>1, BuildSpendPanics
<1>4. CASE ChildProves /\ pc' = "panicked"
  <2>1. UNCHANGED <<script, entries, turn>>
    BY <1>4 DEF ChildProves
  <2> QED BY <1>2, <1>4, <2>1, ChildPanics
<1>5. CASE AcceptSpend /\ pc' = "panicked"
  <2>1. UNCHANGED <<script, entries, turn>>
    <3>1. UNCHANGED <<script, entries, turn>> \/ pc' = "ready"
      BY <1>5 DEF AcceptSpend
    <3> QED BY <1>5, <3>1
  <2> QED BY <1>2, <1>5, <2>1, AcceptPanics
<1>6. CASE FileReceipt
  <2>1. pc' = "ready"
    BY <1>6, FileReceiptFiles
  <2> QED BY <1>1, <2>1
<1>7. CASE DecodeExecuted
  <2>1. pc = "answered" /\ call.elf = "coinproof"
        /\ pc' = IF decode(answer.public_values) = {} THEN "panicked" ELSE "done"
    BY <1>7 DEF DecodeExecuted
  <2>2. \E pv : answer.public_values = encode(pv)
    BY <2>1 DEF ReceiptJudged, CommitsReceipt, Outcome
  <2>3. decode(answer.public_values) # {}
    BY <2>2, DecodeFacts
  <2> QED BY <1>1, <2>1, <2>3
<1>8. CASE PassNote \/ NextWallet \/ InsertNullifier
  <2>1. pc' # "panicked"
    BY <1>8 DEF PassNote, NextWallet, InsertNullifier
  <2> QED BY <1>1, <2>1
<1>9. CASE Bootstrap \/ ProveReceipt \/ ExecuteReceipt \/ BenchValidate
  <2>1. pc' = "calling"
    BY <1>9, CallFacts DEF Bootstrap, ProveReceipt, ExecuteReceipt, BenchValidate
  <2> QED BY <1>1, <2>1
<1>10. CASE BenchReport \/ ChildDies
  BY <1>1, <1>10 DEF BenchReport, ChildDies
<1>11. CASE UNCHANGED vars
  BY <1>2, <1>11 DEF vars, PanicsRight
<1> QED BY <1>1, <1>3, <1>4, <1>5, <1>6, <1>7, <1>8, <1>9, <1>10, <1>11 DEF Next, HostStep, Ended

(* What a run keeps, with the outcomes that were proved of every script.   *)
Honest ==
    /\ EntriesMade /\ Accumulated /\ PostedValid /\ MintOnly
    /\ ReceiptsProved /\ ReceiptsFiled
    /\ SpendJudged /\ ReceiptJudged /\ ValidationOfNewest
    /\ PanicsRight

(* It holds at the start, where nothing is posted or pending.              *)
LEMMA HonestInit == Init => Honest
<1> SUFFICES ASSUME Init PROVE Honest
  OBVIOUS
<1>1. Len(entries) = 0 /\ turn = 0 /\ nullifier_tree = new /\ call.elf = "none" /\ pc = "ready"
  BY DEF Init, NoCall
<1>2. EntriesMade /\ PostedValid /\ ReceiptsFiled
  BY <1>1 DEF EntriesMade, PostedValid, ReceiptsFiled
<1>3. Accumulated
  <2>1. Finished = 0
    BY <1>1 DEF Finished
  <2>2. Len(new.leaves) = 1 /\ Members(new) = {}
    BY DEF new, Members
  <2> QED BY <1>1, <2>1, <2>2, NewIsLinked DEF Accumulated
<1>4. MintOnly
  BY DEF Init, MintOnly
<1>5. ReceiptsProved
  BY EmptySeq DEF Init, ReceiptsProved
<1> QED BY <1>1, <1>2, <1>3, <1>4, <1>5 DEF Honest, SpendJudged, ReceiptJudged, ValidationOfNewest, PanicsRight

(* Each step keeps it, with what was proved before of every script.        *)
LEMMA HonestStep ==
    ASSUME Control, ReceiptsAnswerRequest, PostedSpendsAnchored, ValidationPending, Honest, [Next]_vars
    PROVE  Honest'
<1>1. /\ EntriesMade /\ Accumulated /\ PostedValid /\ MintOnly
      /\ ReceiptsProved /\ ReceiptsFiled
      /\ SpendJudged /\ ReceiptJudged /\ ValidationOfNewest
      /\ PanicsRight
  BY DEF Honest
<1>2. EntriesMade' /\ Accumulated' /\ PostedValid'
  BY <1>1, EntriesStep, AccumulatedStep, ValidStep
<1>3. MintOnly'
  BY <1>1, TurnSteps DEF MintOnly
<1>4. ReceiptsProved' /\ ReceiptsFiled'
  BY <1>1, ReceiptsProvedStep, ReceiptsFiledStep
<1>5. SpendJudged' /\ ReceiptJudged' /\ ValidationOfNewest'
  BY <1>1, SpendJudgedStep, ReceiptJudgedStep, ValidationOfNewestStep
<1>6. PanicsRight'
  BY <1>1, PanicsStep
<1> QED BY <1>2, <1>3, <1>4, <1>5, <1>6 DEF Honest

(* So it holds throughout.                                                 *)
LEMMA HonestHolds == Spec => [](Control /\ Honest)
<1>1. Control /\ ReceiptsAnswerRequest /\ PostedSpendsAnchored /\ ValidationPending /\ Honest /\ [Next]_vars
          => Honest'
  BY HonestStep
<1> QED BY <1>1, HonestInit, ControlHolds, ReceiptsAnswer, SpendsAreAnchored, ValidationsPend, PTL DEF Spec

(* No transfer of a script moves 2^64 or more: the relation's wrapping sum *)
(* is then the integer sum.                                                *)
NoWrap ==
    \A s \in Scripts : \A k \in DOMAIN s :
        /\ ValueModulus \in Nat
        /\ IntegerTotal(values(s[k].inputs)) \in 0 .. ValueModulus - 1
        /\ IntegerTotal(values(s[k].outputs)) \in 0 .. ValueModulus - 1

(* The wrapping totals of a transfer agree just when the integer totals    *)
(* do.                                                                     *)
LEMMA TotalsAgree ==
    ASSUME NoWrap, NEW s \in Scripts, NEW k \in DOMAIN s
    PROVE  total(s[k].inputs) = total(s[k].outputs)
               <=> IntegerTotal(values(s[k].inputs)) = IntegerTotal(values(s[k].outputs))
<1> DEFINE x == IntegerTotal(values(s[k].inputs))
           y == IntegerTotal(values(s[k].outputs))
<1>1. ValueModulus \in Nat /\ x \in 0 .. ValueModulus - 1 /\ y \in 0 .. ValueModulus - 1
  BY DEF NoWrap
<1>2. total(s[k].inputs) = x % ValueModulus /\ total(s[k].outputs) = y % ValueModulus
  BY DEF total
<1> HIDE DEF x, y
<1>3. x % ValueModulus = x /\ y % ValueModulus = y
  BY <1>1
<1> QED BY <1>2, <1>3 DEF x, y

(* For such scripts the transfers the relation accepts are the payable     *)
(* ones.                                                                   *)
LEMMA ValidIsPayable ==
    ASSUME NoWrap, Control, NEW k \in 1 .. Len(script)
    PROVE  Valid(k) <=> Payable(k)
<1>1. script \in Scripts /\ k \in DOMAIN script
  BY ScriptFacts, ScriptsAssumption
<1>2. total(script[k].inputs) = total(script[k].outputs)
          <=> IntegerTotal(values(script[k].inputs)) = IntegerTotal(values(script[k].outputs))
  BY <1>1, TotalsAgree
<1> QED BY <1>2 DEF Valid, Payable

(* PanicsExactlyOnBadTransfers, for scripts that move less than 2^64 at a  *)
(* time: what is posted is payable, and a run panics over a transfer that  *)
(* is not and over nothing else.                                           *)
THEOREM PanicsOnBadTransfersOnly == NoWrap => (Spec => []PanicsExactlyOnBadTransfers)
<1> SUFFICES ASSUME NoWrap PROVE Spec => []PanicsExactlyOnBadTransfers
  OBVIOUS
<1>1. ASSUME Control, Honest PROVE PanicsExactlyOnBadTransfers
  <2>1. DOMAIN entries = 1 .. Len(entries) /\ Len(entries) \in Nat /\ Len(script) \in Nat
        /\ \A k \in 1 .. Len(entries) : k \in 1 .. Len(script)
    BY <1>1, BoardLength, ScriptFacts DEF Control
  <2>2. \A k \in 1 .. Len(script) : Valid(k) <=> Payable(k)
    BY <1>1, ValidIsPayable
  <2>3. PostedValid /\ PanicsRight
    BY <1>1 DEF Honest
  <2>4. pc = "panicked" => turn = 0 /\ ~Payable(Len(entries) + 1)
    BY <2>1, <2>2, <2>3 DEF PanicsRight, Upcoming
  <2>5. \A k \in DOMAIN entries : Payable(k)
    BY <2>1, <2>2, <2>3 DEF PostedValid
  <2> QED BY <2>4, <2>5 DEF PanicsExactlyOnBadTransfers
<1> QED BY <1>1, HonestHolds, PTL

-----------------------------------------------------------------------------
(* A spend is called for with the upcoming transaction, and one that       *)
(* commits to nothing is of a guest that halted.                           *)
SpendAsked ==
    call.elf = "spend" =>
        /\ call.stdin.items[8] = make_tx(Len(entries), Current)
        /\ pc = "answered" /\ answer.public_values = <<>> => answer.exit_code # 0

(* A receipt held is of a coin of its holder's, and of a slot.             *)
ReceiptsOwned ==
    \A p \in PartySet : \A cn \in DOMAIN wallets[p] :
        cn[2].owner_pk = pk_of(p) /\ wallets[p][cn].pv.received_at \in Nat

(* The spend guest commits to nothing only when it halts.                  *)
LEMMA HaltedExits ==
    ASSUME NEW items, program_spend(items).output = <<>>
    PROVE  program_spend(items).exit_code # 0
<1>1. program_spend(items) = Halted(<<>>) \/ \E pv, defers : program_spend(items) = Committed(encode(pv), defers)
  BY DEF program_spend
<1>2. ASSUME NEW pv, NEW defers, program_spend(items) = Committed(encode(pv), defers)
      PROVE  FALSE
  <2>1. program_spend(items).output = encode(pv)
    BY <1>2 DEF Committed
  <2> QED BY <2>1, DecodeFacts
<1>3. program_spend(items) = Halted(<<>>)
  BY <1>1, <1>2
<1> QED BY <1>3 DEF Halted

(* What BuildSpend calls for is a spend of the upcoming transaction.       *)
LEMMA BuildSpendAsks ==
    ASSUME BuildSpend, pc' # "panicked"
    PROVE  call'.stdin.items[8] = make_tx(Len(entries), Current) /\ pc' = "calling"
<1> DEFINE t == Current
           cn == commitment(t.inputs[1])
           receipts == {r.pv : r \in SpendReceipt(t)}
           path == append_path_for_next(entries)
           tx == make_tx(Len(entries), t)
           w == prove_non_membership(nullifier_tree, nullifier(cn, t.sender))
           rt == root(nullifier_tree)
           stdin == build_spend_stdin(t.sender, cn, Len(entries), path, tx, t.inputs, t.outputs,
                                      receipts, w, rt)
<1>1. Call("spend", stdin) \/ \E r \in SpendReceipt(t) : Call("spend", write_proof(stdin, r.proof))
  BY DEF BuildSpend
<1>2. stdin.items[8] = tx
  BY SpendReads
<1>3. \A proof : write_proof(stdin, proof).items = stdin.items
  BY DEF write_proof, build_spend_stdin
<1> HIDE DEF stdin, tx
<1>4. \E s : Call("spend", s) /\ s.items[8] = tx
  BY <1>1, <1>2, <1>3
<1> QED BY <1>4, CallFacts DEF tx

(* Each step keeps that.                                                   *)
LEMMA SpendAskedStep ==
    ASSUME Control, SpendAsked, [Next]_vars
    PROVE  SpendAsked'
<1>1. CASE call'.elf # "spend"
  BY <1>1 DEF SpendAsked
<1>2. CASE BuildSpend
  <2>1. UNCHANGED <<script, entries>> /\ pc = "ready" /\ call = NoCall
    BY <1>2 DEF BuildSpend, Control, Idle
  <2>2. Len(entries)' = Len(entries) /\ make_tx(Len(entries), Current)' = make_tx(Len(entries), Current)
    BY <2>1 DEF make_tx, Current
  <2>3. CASE pc' = "panicked"
    <3>1. UNCHANGED call
      BY <1>2, <2>1, <2>3, CallFacts DEF BuildSpend
    <3> QED BY <1>1, <2>1, <3>1 DEF NoCall
  <2>4. CASE pc' # "panicked"
    BY <1>2, <2>2, <2>4, BuildSpendAsks DEF SpendAsked
  <2> QED BY <2>3, <2>4
<1>3. CASE ChildProves /\ call.elf = "spend"
  <2>1. UNCHANGED <<script, entries, call>>
    BY <1>3 DEF ChildProves
  <2>2. make_tx(Len(entries), Current)' = make_tx(Len(entries), Current)
    BY <2>1 DEF make_tx, Current
  <2> DEFINE run == program_spend(call.stdin.items)
  <2>3. pc' = "answered" => answer'.exit_code = run.exit_code /\ answer'.public_values = run.output
    BY <1>3 DEF ChildProves, execute, prove
  <2>4. run.output = <<>> => run.exit_code # 0
    BY HaltedExits
  <2> HIDE DEF run
  <2> QED BY <1>3, <2>1, <2>2, <2>3, <2>4 DEF SpendAsked
<1>4. CASE AcceptSpend \/ FileReceipt \/ Bootstrap \/ ProveReceipt \/ ExecuteReceipt \/ BenchValidate
  <2>1. call'.elf # "spend"
    BY <1>4, CallFacts DEF AcceptSpend, FileReceipt, NoCall, Bootstrap, ProveReceipt, ExecuteReceipt, BenchValidate
  <2> QED BY <1>1, <2>1
<1>5. CASE ChildProves /\ call.elf # "spend"
  <2>1. call' = call
    BY <1>5 DEF ChildProves
  <2> QED BY <1>1, <1>5, <2>1
<1>6. CASE PassNote \/ NextWallet \/ InsertNullifier \/ DecodeExecuted \/ BenchReport \/ ChildDies
           \/ UNCHANGED vars
  <2>1. /\ UNCHANGED <<script, entries, call>>
        /\ pc' = "answered" => pc = "answered" /\ UNCHANGED answer
    BY <1>6 DEF PassNote, NextWallet, InsertNullifier, DecodeExecuted, BenchReport, ChildDies, vars
  <2>2. make_tx(Len(entries), Current)' = make_tx(Len(entries), Current)
    BY <2>1 DEF make_tx, Current
  <2> QED BY <2>1, <2>2 DEF SpendAsked
<1> QED BY <1>2, <1>3, <1>4, <1>5, <1>6 DEF Next, HostStep, Ended

(* The receipt FileReceipt files is of the newest slot and of a coin of    *)
(* the scanner's that its wallet did not track.                            *)
LEMMA FiledIsNewest ==
    ASSUME Control, ReceiptJudged, FileReceipt
    PROVE  \E c, r : /\ wallets' = [wallets EXCEPT ![Scanner] = MapInsert(@, c, r)]
                     /\ c \notin DOMAIN wallets[Scanner]
                     /\ c[2].owner_pk = pk_of(Scanner)
                     /\ r.pv.received_at = slot
<1>1. PICK coin \in Discovered(Scanner, note) : \E pv :
                 /\ wallets' = [wallets EXCEPT ![Scanner] =
                                   MapInsert(@, commitment(coin), [pv |-> pv, proof |-> answer])]
                 /\ answer.elf = "coinproof" /\ answer.public_values = encode(pv)
                 /\ pv.vkey = Vkey("coinproof")
  BY FileReceiptFiles
<1>2. PICK pv : /\ wallets' = [wallets EXCEPT ![Scanner] =
                                   MapInsert(@, commitment(coin), [pv |-> pv, proof |-> answer])]
                /\ answer.public_values = encode(pv)
  BY <1>1
<1>3. mode = "prove" /\ pc = "answered" /\ call.elf = "coinproof"
  BY DEF FileReceipt
<1>4. ReceiptOutcome(Outcome)
  BY <1>3 DEF Control, ReceiptPending
<1>5. PICK x : encode(pv) = encode(x) /\ x.received_at = slot
  BY <1>2, <1>4, DecodeFacts DEF ReceiptOutcome, Outcome
<1>6. x = pv
  <2>1. {x} = {pv}
    BY <1>5, DecodeFacts
  <2> QED BY <2>1
<1>7. commitment(coin)[2] = coin
  BY DEF commitment
<1>8. coin.owner_pk = pk_of(Scanner) /\ commitment(coin) \notin DOMAIN wallets[Scanner]
  BY <1>1 DEF Discovered
<1> DEFINE c == commitment(coin)
           r == [pv |-> pv, proof |-> answer]
<1>9. r.pv.received_at = slot
  BY <1>5, <1>6
<1> QED BY <1>2, <1>7, <1>8, <1>9

(* Each step keeps the receipts held their holder's.                       *)
LEMMA ReceiptsOwnedStep ==
    ASSUME Control, ReceiptJudged, ReceiptsOwned, [Next]_vars
    PROVE  ReceiptsOwned'
<1>1. CASE UNCHANGED wallets
  BY <1>1 DEF ReceiptsOwned
<1>2. CASE FileReceipt
  <2>1. Scanner \in PartySet /\ turn \in DOMAIN Wallets
    BY <1>2, FileReceiptFiles
  <2>2. PICK c, r : /\ wallets' = [wallets EXCEPT ![Scanner] = MapInsert(@, c, r)]
                    /\ c \notin DOMAIN wallets[Scanner]
                    /\ c[2].owner_pk = pk_of(Scanner)
                    /\ r.pv.received_at = slot
    BY <1>2, FiledIsNewest
  <2>3. DOMAIN wallets = PartySet /\ slot \in Nat
    BY <2>1, BoardLength, LengthsAreNat DEF Control, TypeOK, slot
  <2> QED BY <2>1, <2>2, <2>3 DEF ReceiptsOwned, MapInsert
<1> QED BY <1>1, <1>2 DEF Next, HostStep, Ended, vars, BuildSpend, AcceptSpend, PassNote, Bootstrap, NextWallet,
         ProveReceipt, InsertNullifier, ExecuteReceipt, DecodeExecuted, BenchValidate,
         BenchReport, ChildProves, ChildDies

(* The mapping to Ledger has one input and at most two outputs, as all of  *)
(* main's transfers do.                                                    *)
FitsLedger == \A s \in Scripts : \A k \in DOMAIN s : Len(s[k].inputs) = 1 /\ Len(s[k].outputs) <= 2

(* The entry of slot k on the ledger's board.                              *)
Tx(k) == Ledgered!make_tx(script[k].sender, script[k].inputs, script[k].outputs, k - 1)

(* A list of coins is read back from its commitments.                      *)
LEMMA CoinsRead ==
    ASSUME NEW cs \in Seq(Coins)
    PROVE  CoinsOf(commitments(cs)) = cs
<1>1. DOMAIN commitments(cs) = DOMAIN cs /\ \A i \in DOMAIN cs : commitments(cs)[i][2] = cs[i]
  BY DEF commitments, commitment
<1>2. CoinsOf(commitments(cs)) = [i \in DOMAIN cs |-> cs[i]]
  BY <1>1 DEF CoinsOf
<1> QED BY <1>2

(* So are coin and key from a nullifier.                                   *)
LEMMA PairRead ==
    ASSUME NEW c, NEW sk, <<c, sk>> \in DOMAIN NullifierOf
    PROVE  NullifierPair(nullifier(c, sk)) = <<c, sk>>
<1>1. <<c, sk>> \in DOMAIN NullifierOf /\ NullifierOf[<<c, sk>>] = nullifier(c, sk)
  BY DEF nullifier
<1>2. \A pair \in DOMAIN NullifierOf : NullifierOf[pair] = nullifier(c, sk) => pair = <<c, sk>>
  BY <1>1, NullifierAssumption
<1>3. NullifierPair(nullifier(c, sk)) \in DOMAIN NullifierOf
      /\ NullifierOf[NullifierPair(nullifier(c, sk))] = nullifier(c, sk)
  BY <1>1 DEF NullifierPair
<1> QED BY <1>2, <1>3

(* What the driver's transaction of a transfer is to the ledger.           *)
LEMMA MappedTx ==
    ASSUME NEW t, t.inputs \in Seq(Coins), t.outputs \in Seq(Coins), NEW tx, NEW a,
           <<commitment(t.inputs[1]), t.sender>> \in DOMAIN NullifierOf,
           tx.input_commitments = commitments(t.inputs), tx.output_commitments = commitments(t.outputs),
           tx.input_nullifier = nullifier(commitment(t.inputs[1]), t.sender)
    PROVE  LedgerTx(tx, a) = Ledgered!make_tx(t.sender, t.inputs, t.outputs, a)
<1>1. CoinsOf(tx.output_commitments) = t.outputs
  BY CoinsRead
<1>2. NullifierPair(tx.input_nullifier) = <<commitment(t.inputs[1]), t.sender>>
  BY PairRead
<1>3. NullifierPair(tx.input_nullifier)[1] = commitment(t.inputs[1])
      /\ NullifierPair(tx.input_nullifier)[2] = t.sender
  BY <1>2
<1>4. commitments(t.inputs) = Ledgered!commitments(t.inputs)
      /\ commitment(t.inputs[1]) = Ledgered!commitment(t.inputs[1])
  BY DEF commitments, commitment, Ledgered!commitments, Ledgered!commitment
<1> QED BY <1>1, <1>3, <1>4 DEF LedgerTx, Ledgered!make_tx, Ledgered!nullifier

(* A list of coins that is not empty is one of the ledger's.               *)
LEMMA ListFits ==
    ASSUME NEW cs \in Seq(Coins), 1 \in DOMAIN cs, NEW m \in Nat, Len(cs) <= m
    PROVE  cs \in Ledgered!CoinLists(m)
<1>1. PICK n : n = Len(cs)
  OBVIOUS
<1>2. n \in Nat /\ cs \in [1 .. n -> Coins] /\ DOMAIN cs = 1 .. n
  BY <1>1, LenProperties
<1>3. n \in 1 .. m
  <2>1. 1 \in 1 .. n
    BY <1>2
  <2> QED BY <1>1, <1>2, <2>1
<1> QED BY <1>2, <1>3 DEF Ledgered!CoinLists

(* The lists of a transfer, and that their lengths fit.                    *)
LEMMA TransferLists ==
    ASSUME FitsLedger, NEW s \in Scripts, NEW k \in 1 .. Len(s)
    PROVE  /\ s[k].inputs \in Seq(Coins) /\ s[k].inputs \in Ledgered!CoinLists(1)
           /\ s[k].outputs \in Seq(Coins) /\ s[k].outputs \in Ledgered!CoinLists(2)
<1>1. k \in DOMAIN s /\ s[k].inputs \in Seq(Coins) /\ s[k].outputs \in Seq(Coins)
      /\ 1 \in DOMAIN s[k].inputs /\ 1 \in DOMAIN s[k].outputs
  BY TransferFacts DEF TransferSet
<1>2. Len(s[k].inputs) <= 1 /\ Len(s[k].outputs) <= 2
  <2>1. Len(s[k].inputs) = 1 /\ Len(s[k].outputs) <= 2
    BY <1>1, Zenon DEF FitsLedger
  <2>2. 1 <= 1
    OBVIOUS
  <2> QED BY <2>1, <2>2, Zenon
<1> QED BY <1>1, <1>2, ListFits

(* The parts of the ledger's entry.                                        *)
LEMMA TxParts ==
    ASSUME NEW k
    PROVE  /\ Tx(k).input_nullifier = <<"nf", commitment(script[k].inputs[1]), script[k].sender>>
           /\ Tx(k).outputs = script[k].outputs
           /\ Tx(k).input_commitments = commitments(script[k].inputs)
BY DEF Tx, Ledgered!make_tx, Ledgered!nullifier, Ledgered!commitments, Ledgered!commitment,
       commitments, commitment

(* What main posts of a transfer is that transfer to the ledger.           *)
LEMMA MappedEntry ==
    ASSUME FitsLedger, script \in Scripts, NEW k \in 1 .. Len(script), k - 1 + 1 = k, NEW pkg
    PROVE  LedgerTx(Posted(k, pkg).ciphertext.data, k - 1) = Tx(k)
<1> DEFINE tx == Posted(k, pkg).ciphertext.data
           t == script[k]
<1>1. /\ tx.input_commitments = commitments(t.inputs) /\ tx.output_commitments = commitments(t.outputs)
      /\ tx.input_nullifier = nullifier(commitment(t.inputs[1]), t.sender)
  BY DEF Posted, encrypt_tx, Wrap, make_tx
<1>2. /\ t.inputs \in Seq(Coins) /\ t.outputs \in Seq(Coins)
      /\ <<commitment(t.inputs[1]), t.sender>> \in DOMAIN NullifierOf
  BY TransferFacts, TransferLists
<1> HIDE DEF tx, t
<1>3. LedgerTx(tx, k - 1) = Ledgered!make_tx(t.sender, t.inputs, t.outputs, k - 1)
  BY <1>1, <1>2, MappedTx
<1> QED BY <1>3 DEF Tx, tx, t

(* The ledger's board is that of the transfers posted.                     *)
LEMMA MappedBoard ==
    ASSUME FitsLedger, Control, EntriesMade
    PROVE  /\ DOMAIN LedgerBoard = 1 .. Len(entries) /\ Len(entries) \in Nat
           /\ \A k \in 1 .. Len(entries) : LedgerBoard[k] = Tx(k)
<1>1. DOMAIN entries = 1 .. Len(entries) /\ Len(entries) \in Nat
  BY BoardLength DEF Control
<1>2. ASSUME NEW k \in 1 .. Len(entries) PROVE LedgerBoard[k] = Tx(k)
  <2>1. PICK pkg : entries[k] = Posted(k, pkg)
    BY DEF EntriesMade
  <2>2. script \in Scripts /\ k \in 1 .. Len(script) /\ k - 1 + 1 = k
    BY <1>1, ScriptFacts
  <2>3. LedgerTx(entries[k].ciphertext.data, k - 1) = Tx(k)
    BY <2>1, <2>2, MappedEntry
  <2> QED BY <1>1, <2>3 DEF LedgerBoard
<1> QED BY <1>1, <1>2 DEF LedgerBoard

(* A function on the first m naturals is a sequence.                       *)
LEMMA FunctionIsSeq ==
    ASSUME NEW S, NEW m \in Nat, NEW f \in [1 .. m -> S]
    PROVE  f \in Seq(S)
BY SeqDef

(* What a post does to it.                                                 *)
LEMMA MappedPush ==
    ASSUME FitsLedger, Control, EntriesMade, NEW n, n = Len(entries), n < Len(script), NEW pkg,
           entries' = Append(entries, Posted(n + 1, pkg))
    PROVE  LedgerBoard' = Append(LedgerBoard, Tx(n + 1)) /\ Len(LedgerBoard) = n
<1> DEFINE S == {Tx(k) : k \in 1 .. n + 1}
           b == LedgerBoard
           c == LedgerBoard'
<1>1. n \in Nat /\ DOMAIN b = 1 .. n /\ \A k \in 1 .. n : b[k] = Tx(k)
  BY MappedBoard
<1>2. /\ DOMAIN entries' = 1 .. n + 1 /\ entries'[n + 1] = Posted(n + 1, pkg)
      /\ \A k \in 1 .. n : entries'[k] = entries[k]
  BY BoardGrows DEF Control
<1>3. LedgerTx(entries'[n + 1].ciphertext.data, n + 1 - 1) = Tx(n + 1)
  <2>1. script \in Scripts /\ n + 1 \in 1 .. Len(script) /\ n + 1 - 1 + 1 = n + 1
    BY <1>1, ScriptFacts
  <2> QED BY <1>2, <2>1, MappedEntry
<1>4. c = [k \in 1 .. n + 1 |-> LedgerTx(entries'[k].ciphertext.data, k - 1)]
  BY <1>2 DEF LedgerBoard, LedgerTx, CoinsOf, NullifierPair
<1>5. DOMAIN c = 1 .. n + 1 /\ \A k \in 1 .. n + 1 : c[k] = Tx(k)
  <2>1. \A k \in 1 .. n : b[k] = LedgerTx(entries[k].ciphertext.data, k - 1)
    BY <1>1 DEF LedgerBoard
  <2> HIDE DEF b, c
  <2>2. ASSUME NEW k \in 1 .. n + 1 PROVE c[k] = Tx(k)
    <3>1. CASE k = n + 1
      BY <1>3, <1>4, <3>1
    <3>2. CASE k \in 1 .. n
      BY <1>1, <1>2, <1>4, <2>1, <3>2
    <3> QED BY <1>1, <3>1, <3>2
  <2> QED BY <1>4, <2>2
<1>6. b = [k \in 1 .. n |-> Tx(k)] /\ c = [k \in 1 .. n + 1 |-> Tx(k)]
  <2>1. b = [k \in DOMAIN b |-> b[k]]
    BY DEF LedgerBoard
  <2>2. c = [k \in DOMAIN c |-> c[k]]
    BY <1>4
  <2> HIDE DEF b, c
  <2> QED BY <1>1, <1>5, <2>1, <2>2
<1> HIDE DEF b, c
<1>7. b \in Seq(S) /\ c \in Seq(S) /\ Tx(n + 1) \in S
  <2>1. b \in [1 .. n -> S] /\ c \in [1 .. n + 1 -> S] /\ Tx(n + 1) \in S
    BY <1>1, <1>6
  <2> HIDE DEF S
  <2>2. n + 1 \in Nat
    BY <1>1
  <2>3. b \in Seq(S) /\ c \in Seq(S)
    BY <1>1, <2>1, <2>2, FunctionIsSeq
  <2> QED BY <2>1, <2>3
<1> HIDE DEF S
<1>8. Len(b) = n /\ Len(c) = n + 1
  <2>1. n + 1 \in Nat
    BY <1>1
  <2> QED BY <1>1, <1>5, <1>7, <2>1, LenProperties
<1>9. c = Append(b, Tx(n + 1))
  <2> DEFINE d == Append(b, Tx(n + 1))
  <2>1. /\ d \in Seq(S) /\ Len(d) = n + 1 /\ d[n + 1] = Tx(n + 1)
        /\ \A i \in 1 .. n : d[i] = b[i]
    BY <1>7, <1>8, AppendProperties
  <2>2. \A i \in 1 .. n + 1 : c[i] = d[i]
    BY <1>1, <1>5, <2>1
  <2> HIDE DEF d
  <2>3. c = d
    BY <1>7, <1>8, <2>1, <2>2, SeqEqual
  <2> QED BY <2>3 DEF d
<1> QED BY <1>8, <1>9 DEF b, c

(* What a step that touches neither board, wallets nor turn leaves alone.  *)
LEMMA SameLedger ==
    ASSUME UNCHANGED <<entries, wallets, turn>>
    PROVE  UNCHANGED <<LedgerBoard, LedgerWallets, scanned>>
BY DEF LedgerBoard, LedgerTx, CoinsOf, NullifierPair, LedgerWallets, LedgerReceipt, ScannedReceipts,
       scanned, Unfinished

(* Such a step is none of the ledger's unless a proof comes in or goes out. *)
LEMMA QuietStep ==
    ASSUME UNCHANGED <<entries, wallets, turn>>, ~ProofHeld, ~ProofHeld'
    PROVE  UNCHANGED Ledgered!vars
<1>1. LedgerPending = {} /\ LedgerPending' = {}
  BY DEF LedgerPending
<1> QED BY <1>1, SameLedger DEF Ledgered!vars

(* How far each wallet has come.                                           *)
LEMMA ScanFacts ==
    ASSUME Control
    PROVE  /\ DOMAIN scanned = Senders /\ Len(entries) \in Nat
           /\ \A sk \in Senders : scanned[sk] = Len(entries) - Unfinished(sk)
           /\ turn = 0 => \A sk \in Senders : scanned[sk] = Len(entries)
<1>1. Len(entries) \in Nat
  BY BoardLength DEF Control
<1>2. DOMAIN scanned = Senders /\ \A sk \in Senders : scanned[sk] = Len(entries) - Unfinished(sk)
  BY DEF scanned
<1>3. turn = 0 => \A sk \in Senders : Unfinished(sk) = 0
  BY DEF Unfinished
<1> QED BY <1>1, <1>2, <1>3

(* The ledger's sum of coins is the guest's.                               *)
LEMMA SameTotal == \A cs : Ledgered!total(cs) = total(cs)
<1> TAKE cs
<1>1. Ledgered!values(cs) = values(cs)
  BY DEF Ledgered!values, values
<1>2. \A vs : Ledgered!IntegerTotal(vs) = IntegerTotal(vs)
  BY Zenon DEF Ledgered!IntegerTotal, IntegerTotal, Ledgered!MapThenSumSet, MapThenSumSet,
               Ledgered!MapThenFoldSet, MapThenFoldSet
<1> QED BY <1>1, <1>2 DEF Ledgered!total, total

(* The receipts a ledger's wallet shows are its owner's.                   *)
LEMMA ReceiptsRead ==
    ASSUME Control, ReceiptsAnswerRequest, ReceiptsOwned, NEW p \in PartySet
    PROVE  /\ p \in Senders /\ p # GENESIS_SK
           /\ LedgerWallets[p] = {LedgerReceipt(p, cn) : cn \in ScannedReceipts(p)}
           /\ \A cn \in DOMAIN wallets[p] :
                 /\ LedgerReceipt(p, cn) = [owner_pk |-> pk_of(p), coin_commitment |-> cn,
                                            received_at |-> wallets[p][cn].pv.received_at]
                 /\ wallets[p][cn].pv.received_at \in 0 .. Len(entries) - 1
<1>1. p \in Senders /\ p # GENESIS_SK
  BY WalletsAssumption DEF Senders, PartySet
<1>2. LedgerWallets[p] = {LedgerReceipt(p, cn) : cn \in ScannedReceipts(p)}
  BY <1>1 DEF LedgerWallets
<1>3. ASSUME NEW cn \in DOMAIN wallets[p]
      PROVE  /\ LedgerReceipt(p, cn) = [owner_pk |-> pk_of(p), coin_commitment |-> cn,
                                        received_at |-> wallets[p][cn].pv.received_at]
             /\ wallets[p][cn].pv.received_at \in 0 .. Len(entries) - 1
  <2>1. /\ wallets[p][cn].pv.owner_pk = pk_of(p) /\ wallets[p][cn].pv.coin_commitment = cn
        /\ wallets[p][cn].pv.received_at + 1 \in DOMAIN entries
    BY DEF ReceiptsAnswerRequest
  <2>2. wallets[p][cn].pv.received_at \in Nat
    BY DEF ReceiptsOwned
  <2>3. DOMAIN entries = 1 .. Len(entries) /\ Len(entries) \in Nat
    BY BoardLength DEF Control
  <2> QED BY <2>1, <2>2, <2>3 DEF LedgerReceipt
<1> QED BY <1>1, <1>2, <1>3

(* No two entries carry one nullifier: slot k's is not among those before. *)
LEMMA NullifierFresh ==
    ASSUME FitsLedger, Control, EntriesMade, NEW k \in 1 .. Len(entries) + 1, Valid(k)
    PROVE  Tx(k).input_nullifier \notin Ledgered!NullifiersBefore(k - 1)
<1>1. Len(entries) \in Nat /\ \A i \in 1 .. Len(entries) : LedgerBoard[i] = Tx(i)
  BY MappedBoard
<1>2. ASSUME NEW i \in 1 .. k - 1, LedgerBoard[i].input_nullifier = Tx(k).input_nullifier PROVE FALSE
  <2>1. i \in 1 .. Len(entries)
    BY <1>1
  <2>2. Tx(i).input_nullifier = Tx(k).input_nullifier
    BY <1>1, <1>2, <2>1
  <2>3. script[i].inputs[1] = script[k].inputs[1]
    BY <2>2, TxParts DEF commitment
  <2> QED BY <1>2, <2>3 DEF Valid
<1> QED BY <1>2 DEF Ledgered!NullifiersBefore

(* Ledger's relation accepts a valid transfer, with the receipts that the  *)
(* wallets hold.                                                           *)
LEMMA LedgerAccepts ==
    ASSUME FitsLedger, Control, EntriesMade, ReceiptsFiled, MintOnly, ReceiptsAnswerRequest, ReceiptsOwned,
           turn = 0, NEW n, n = Len(entries), n < Len(script), Valid(n + 1), NEW t, t = script[n + 1]
    PROVE  /\ t.sender \in Senders
           /\ Ledgered!check_spend(t.sender, Ledgered!commitment(t.inputs[1]), Tx(n + 1), t.inputs,
                                   t.sender = GENESIS_SK, Ledgered!ReceiptProofs,
                                   Ledgered!NullifiersBefore(n))
<1> DEFINE cn == commitment(t.inputs[1])
<1>1. n \in Nat /\ n + 1 \in 1 .. Len(script) /\ script \in Scripts /\ t = Current
  BY ScriptFacts DEF Current
<1>2. /\ 1 \in DOMAIN t.inputs /\ t.sender \in Senders
      /\ \A i \in DOMAIN t.inputs : t.inputs[i].owner_pk = pk_of(t.sender)
      /\ total(t.inputs) = total(t.outputs)
  BY <1>1, TransferFacts DEF Valid
<1>3. Tx(n + 1).input_nullifier \notin Ledgered!NullifiersBefore(n)
  <2>1. n + 1 - 1 = n /\ n + 1 \in 1 .. Len(entries) + 1
    BY <1>1
  <2> QED BY <2>1, NullifierFresh
<1>4. /\ Tx(n + 1).input_nullifier = Ledgered!nullifier(Ledgered!commitment(t.inputs[1]), t.sender)
      /\ Tx(n + 1).input_commitments = Ledgered!commitments(t.inputs)
      /\ Tx(n + 1).outputs = t.outputs
      /\ Tx(n + 1).input_commitments[1] = Ledgered!commitment(t.inputs[1])
      /\ 1 \in DOMAIN Tx(n + 1).input_commitments
  BY <1>2 DEF Tx, Ledgered!make_tx, Ledgered!commitments
<1>5. Ledgered!OwnedBy(pk_of(t.sender), t.inputs)
  BY <1>2 DEF Ledgered!OwnedBy
<1>6. Ledgered!Conserves(t.inputs, Tx(n + 1).outputs)
  BY <1>2, <1>4, SameTotal DEF Ledgered!Conserves
<1>7. Ledgered!HasProvenance(pk_of(t.sender), Ledgered!commitment(t.inputs[1]), t.sender = GENESIS_SK,
                             Ledgered!ReceiptProofs)
  <2>1. CASE t.sender = GENESIS_SK
    BY <1>2, <2>1 DEF Ledgered!HasProvenance, Ledgered!genesis_pk
  <2>2. CASE t.sender # GENESIS_SK
    <3>1. t.sender \in PartySet /\ cn \in DOMAIN wallets[t.sender]
      BY <1>1, <2>2, SenderHolds DEF Upcoming
    <3> DEFINE r == LedgerReceipt(t.sender, cn)
    <3>2. r.owner_pk = pk_of(t.sender) /\ r.coin_commitment = cn
      BY <3>1, ReceiptsRead
    <3>3. cn \in ScannedReceipts(t.sender)
      <4>1. wallets[t.sender][cn].pv.received_at \in 0 .. Len(entries) - 1
        BY <3>1, ReceiptsRead
      <4>2. scanned[t.sender] = Len(entries) /\ Len(entries) \in Nat
        BY <1>2, ScanFacts
      <4>3. \A m, s, l : m \in 0 .. l - 1 /\ s = l /\ l \in Nat => m < s
        OBVIOUS
      <4>4. wallets[t.sender][cn].pv.received_at < scanned[t.sender]
        BY <4>1, <4>2, <4>3, Zenon
      <4> QED BY <3>1, <4>4 DEF ScannedReceipts
    <3>4. r \in LedgerWallets[t.sender]
      BY <3>1, <3>3, ReceiptsRead
    <3>5. r \in Ledgered!ReceiptProofs
      BY <1>2, <3>4 DEF Ledgered!ReceiptProofs
    <3>6. Ledgered!commitment(t.inputs[1]) = cn
      BY DEF Ledgered!commitment, commitment
    <3> HIDE DEF r, cn
    <3> QED BY <2>2, <3>2, <3>5, <3>6 DEF Ledgered!HasProvenance
  <2> QED BY <2>1, <2>2
<1> QED BY <1>2, <1>3, <1>4, <1>5, <1>6, <1>7 DEF Ledgered!check_spend

(* The child's answer to a spend that its host can post is the ledger's    *)
(* proof of that spend.                                                    *)
LEMMA ChildProvesSpend ==
    ASSUME FitsLedger, Control, EntriesMade, ReceiptsFiled, MintOnly, ReceiptsAnswerRequest, ReceiptsOwned,
           SpendAsked', SpendJudged', ChildProves, ProofHeld'
    PROVE  \E sk \in Senders : Ledgered!ProveSpend(sk)
<1> DEFINE n == Len(entries)
           t == script[n + 1]
<1>1. /\ UNCHANGED <<mode, script, entries, wallets, turn, call>> /\ pc = "calling" /\ pc' = "answered"
      /\ call.elf = "spend" /\ call'.elf = "spend" /\ answer'.exit_code = 0
  BY DEF ChildProves, ProofHeld
<1>2. turn = 0 /\ n < Len(script)
  BY <1>1 DEF Control, SpendPending
<1>3. n \in Nat /\ n + 1 \in 1 .. Len(script) /\ script \in Scripts /\ n + 1 - 1 = n
  BY <1>2, ScriptFacts
<1>4. Valid(n + 1)
  <2>1. answer'.public_values # <<>>
    BY <1>1 DEF SpendAsked
  <2>2. Valid(Upcoming)'
    BY <1>1, <2>1 DEF SpendJudged
  <2>3. Upcoming' = n + 1
    BY <1>1 DEF Upcoming
  <2> QED BY <1>1, <2>2, <2>3 DEF Valid
<1>5. call'.stdin.items[8] = make_tx(n, t)
  BY <1>1 DEF SpendAsked, make_tx, Current
<1>6. LedgerTx(make_tx(n, t), n) = Tx(n + 1)
  <2>1. /\ t.inputs \in Seq(Coins) /\ t.outputs \in Seq(Coins)
        /\ <<commitment(t.inputs[1]), t.sender>> \in DOMAIN NullifierOf
    BY <1>3, TransferFacts, TransferLists
  <2> DEFINE tx == make_tx(n, t)
  <2>2. /\ tx.input_commitments = commitments(t.inputs) /\ tx.output_commitments = commitments(t.outputs)
        /\ tx.input_nullifier = nullifier(commitment(t.inputs[1]), t.sender)
    BY DEF make_tx
  <2> HIDE DEF tx, t, n
  <2>3. LedgerTx(tx, n) = Ledgered!make_tx(t.sender, t.inputs, t.outputs, n)
    BY <2>1, <2>2, MappedTx
  <2> QED BY <1>3, <2>3 DEF Tx, tx, t
<1>7. LedgerPending = {} /\ LedgerPending' = {Tx(n + 1)}
  <2>1. ~ProofHeld
    BY <1>1 DEF ProofHeld
  <2>2. LedgerPending' = {LedgerTx(call'.stdin.items[8], Len(entries'))}
    BY DEF LedgerPending, LedgerTx, CoinsOf, NullifierPair
  <2> QED BY <1>1, <1>5, <1>6, <2>1, <2>2 DEF LedgerPending
<1>8. /\ t.sender \in Senders
      /\ Ledgered!check_spend(t.sender, Ledgered!commitment(t.inputs[1]), Tx(n + 1), t.inputs,
                              t.sender = GENESIS_SK, Ledgered!ReceiptProofs, Ledgered!NullifiersBefore(n))
  BY <1>2, <1>4, LedgerAccepts
<1>9. t.inputs \in Ledgered!CoinLists(1) /\ t.outputs \in Ledgered!CoinLists(2)
  BY <1>3, TransferLists
<1>10. scanned[t.sender] = n
  BY <1>2, <1>8, ScanFacts
<1>11. Tx(n + 1) = Ledgered!make_tx(t.sender, t.inputs, t.outputs, n)
  BY <1>3 DEF Tx
<1>12. Ledgered!Cardinality(LedgerPending) < 1
  <2>1. Ledgered!Cardinality({}) = 0
    BY FS_EmptySet DEF Ledgered!Cardinality, Cardinality
  <2> QED BY <1>7, <2>1
<1>13. UNCHANGED <<LedgerBoard, LedgerWallets, scanned>>
  BY <1>1, SameLedger
<1>14. [sk \in Senders |-> FALSE][t.sender] = FALSE /\ (t.sender = GENESIS_SK) \in BOOLEAN
  BY <1>8
<1> DEFINE s == t.sender
           genesis == (t.sender = GENESIS_SK)
           P(input_coins, output_coins, is_genesis) ==
               LET tx == Ledgered!make_tx(s, input_coins, output_coins, scanned[s])
               IN  /\ Ledgered!check_spend(s, Ledgered!commitment(input_coins[1]), tx, input_coins, is_genesis,
                                           Ledgered!ReceiptProofs, Ledgered!NullifiersBefore(scanned[s]))
                   /\ LedgerPending' = LedgerPending \union {tx}
<1>15. P(t.inputs, t.outputs, genesis)
  <2> HIDE DEF n, t
  <2> QED BY <1>7, <1>8, <1>10, <1>11
<1>16. \E input_coins \in Ledgered!CoinLists(1), output_coins \in Ledgered!CoinLists(2), is_genesis \in BOOLEAN :
          P(input_coins, output_coins, is_genesis)
  <2> HIDE DEF P, n, t
  <2> QED BY <1>9, <1>14, <1>15
<1> HIDE DEF n, t
<1>17. Ledgered!ProveSpend(s)
  BY <1>12, <1>13, <1>14, <1>16 DEF Ledgered!ProveSpend
<1> QED BY <1>8, <1>17

(* AcceptSpend posts a spend whose proof is held, as the ledger does, and  *)
(* posts no other.                                                         *)
LEMMA AcceptSpendPosts ==
    ASSUME FitsLedger, Control, EntriesMade, SpendAsked, SpendJudged, AcceptSpend
    PROVE  [Ledgered!Next]_(Ledgered!vars)
<1> DEFINE n == Len(entries)
<1>1. /\ pc = "answered" /\ call.elf = "spend" /\ mode # "bench-vfy-g16" /\ pc' \in {"ready", "panicked"}
      /\ UNCHANGED <<script, wallets>>
      /\ turn = 0 /\ n < Len(script)
  BY DEF AcceptSpend, Control, SpendPending
<1>2. ~ProofHeld'
  BY <1>1 DEF ProofHeld
<1>3. CASE ~ProofHeld
  <2>1. answer.exit_code # 0
    BY <1>1, <1>3 DEF ProofHeld
  <2>2. answer.public_values = <<>>
    BY <1>1, <2>1 DEF SpendJudged, Accepts, Outcome
  <2>3. UNCHANGED <<entries, turn>>
    BY <2>2, DecodeFacts DEF AcceptSpend
  <2> QED BY <1>1, <1>2, <1>3, <2>3, QuietStep
<1>4. CASE ProofHeld
  <2>1. Valid(Upcoming)
    BY <1>1, <1>4 DEF ProofHeld, SpendAsked, SpendJudged
  <2>2. pc' = "ready"
    BY <1>1, <2>1, AcceptPanics
  <2>3. turn' = 1 /\ PostEntry(Current, answer)
    BY <2>2 DEF AcceptSpend
  <2>4. n \in Nat /\ n + 1 - 1 = n /\ n + 1 \in 1 .. Len(script) /\ script \in Scripts
    BY <1>1, ScriptFacts
  <2>5. entries' = Append(entries, Posted(n + 1, build_spend_proof_package(answer)))
    BY <2>3, <2>4 DEF PostEntry, Posted, Current
  <2>6. LedgerBoard' = Append(LedgerBoard, Tx(n + 1)) /\ Len(LedgerBoard) = n
    BY <1>1, <2>5, MappedPush
  <2>7. LedgerPending = {Tx(n + 1)} /\ LedgerPending' = {}
    <3> DEFINE t == script[n + 1]
               tx == make_tx(n, t)
    <3>1. /\ t.inputs \in Seq(Coins) /\ t.outputs \in Seq(Coins)
          /\ <<commitment(t.inputs[1]), t.sender>> \in DOMAIN NullifierOf
      BY <2>4, TransferFacts, TransferLists
    <3>2. /\ tx.input_commitments = commitments(t.inputs) /\ tx.output_commitments = commitments(t.outputs)
          /\ tx.input_nullifier = nullifier(commitment(t.inputs[1]), t.sender)
      BY DEF make_tx
    <3>3. call.stdin.items[8] = tx
      BY <1>1 DEF SpendAsked, Current
    <3> HIDE DEF tx, t, n
    <3>4. LedgerTx(tx, n) = Ledgered!make_tx(t.sender, t.inputs, t.outputs, n)
      BY <3>1, <3>2, MappedTx
    <3> QED BY <1>2, <1>4, <2>4, <3>3, <3>4 DEF LedgerPending, Tx, t, n
  <2>8. UNCHANGED <<LedgerWallets, scanned>>
    <3>1. Len(entries') = n + 1
      BY <2>5, BoardGrows DEF Control
    <3>2. \A sk : Unfinished(sk) = 0 /\ Unfinished(sk)' = 1
      BY <1>1, <2>3, LengthsAreNat DEF Unfinished
    <3>3. scanned' = scanned
      BY <2>4, <3>1, <3>2 DEF scanned
    <3> QED BY <1>1, <3>3 DEF LedgerWallets, LedgerReceipt, ScannedReceipts
  <2>9. n < Capacity
    <3>1. PICK l : l = Len(script)
      OBVIOUS
    <3>2. n < l /\ l \in Nat /\ l + 1 <= Capacity
      BY <1>1, <3>1, ScriptFacts
    <3> HIDE DEF n
    <3> QED BY <2>4, <3>2, CapacityIsNat
  <2> HIDE DEF n
  <2>10. Ledgered!Post(Tx(n + 1))
    BY <2>6, <2>7, <2>8, <2>9 DEF Ledgered!Post
  <2>11. Tx(n + 1) \in LedgerPending
    BY <2>7
  <2> QED BY <2>10, <2>11 DEF Ledgered!Next
<1> QED BY <1>3, <1>4

(* FileReceipt is no step of the ledger's: the receipt is of the slot the  *)
(* wallet is still scanning.                                               *)
LEMMA FilingIsUnseen ==
    ASSUME Control, ReceiptsFiled, ReceiptJudged, ReceiptsAnswerRequest, ReceiptsAnswerRequest',
           ReceiptsOwned, FileReceipt
    PROVE  UNCHANGED Ledgered!vars
<1>1. /\ mode = "prove" /\ turn \in DOMAIN Wallets /\ Scanner \in PartySet
      /\ UNCHANGED <<script, entries, turn>>
      /\ ~ProofHeld /\ ~ProofHeld'
  BY FileReceiptFiles DEF FileReceipt, ProofHeld
<1>2. PICK c, r : /\ wallets' = [wallets EXCEPT ![Scanner] = MapInsert(@, c, r)]
                  /\ c \notin DOMAIN wallets[Scanner]
                  /\ c[2].owner_pk = pk_of(Scanner)
                  /\ r.pv.received_at = slot
  BY FiledIsNewest
<1>3. DOMAIN wallets = PartySet /\ Len(entries) \in Nat /\ turn # 0 /\ DOMAIN entries = 1 .. Len(entries)
      /\ slot = Len(entries) - 1
  BY <1>1, BoardLength, LengthsAreNat DEF Control, TypeOK, slot
<1>4. wallets'[Scanner] = MapInsert(wallets[Scanner], c, r)
      /\ \A p \in PartySet : p # Scanner => wallets'[p] = wallets[p]
  BY <1>1, <1>2, <1>3
<1>5. /\ DOMAIN wallets'[Scanner] = DOMAIN wallets[Scanner] \union {c} /\ wallets'[Scanner][c] = r
      /\ \A cn \in DOMAIN wallets[Scanner] : wallets'[Scanner][cn] = wallets[Scanner][cn]
  BY <1>2, <1>4 DEF MapInsert
<1>6. ASSUME NEW w \in DOMAIN Wallets, Wallets[w] = Scanner, w < turn PROVE FALSE
  <2>1. slot + 1 \in DOMAIN entries
        /\ \E i \in DOMAIN script[slot + 1].outputs : commitment(script[slot + 1].outputs[i]) = c
    <3>1. /\ c \in DOMAIN wallets'[Scanner] /\ wallets'[Scanner][c] = r
          /\ Scanner \in PartySet /\ r.pv.received_at = slot
      BY <1>1, <1>2, <1>5
    <3>2. /\ wallets'[Scanner][c].pv.received_at + 1 \in DOMAIN entries'
          /\ \E i \in DOMAIN script'[wallets'[Scanner][c].pv.received_at + 1].outputs :
                commitment(script'[wallets'[Scanner][c].pv.received_at + 1].outputs[i]) = c
      BY <3>1 DEF ReceiptsAnswerRequest
    <3>3. wallets'[Scanner][c].pv.received_at = slot /\ script' = script /\ entries' = entries
      BY <1>1, <3>1
    <3> QED BY <3>2, <3>3, Zenon
  <2>2. slot + 1 = Len(entries)
    BY <1>3
  <2>3. PICK i \in DOMAIN script[Len(entries)].outputs : commitment(script[Len(entries)].outputs[i]) = c
    BY <2>1, <2>2
  <2>4. script[Len(entries)].outputs[i].owner_pk = pk_of(Scanner)
    BY <1>2, <2>3 DEF commitment
  <2>5. Len(entries) \in 1 .. Len(entries) /\ Reached(Len(entries), i, w)
    BY <1>3, <1>6, <2>1, <2>2 DEF Reached
  <2>6. c \in DOMAIN wallets[Scanner]
    BY <1>1, <1>6, <2>3, <2>4, <2>5 DEF ReceiptsFiled
  <2> QED BY <1>2, <2>6
<1>7. UNCHANGED scanned /\ UNCHANGED LedgerBoard
  BY <1>1 DEF scanned, Unfinished, LedgerBoard, LedgerTx, CoinsOf, NullifierPair
<1>8. scanned[Scanner] = slot
  <2>1. Unfinished(Scanner) = 1
    BY <1>3, <1>6 DEF Unfinished
  <2>2. Scanner \in Senders
    BY <1>1 DEF Senders
  <2> QED BY <1>3, <2>1, <2>2 DEF scanned
<1>9. ASSUME NEW p \in PartySet
      PROVE  /\ ScannedReceipts(p)' = ScannedReceipts(p)
             /\ \A cn \in ScannedReceipts(p) : LedgerReceipt(p, cn)' = LedgerReceipt(p, cn)
  <2>1. CASE p = Scanner
    <3>1. ~(r.pv.received_at < scanned[p])
      BY <1>2, <1>3, <1>8, <2>1
    <3>2. ScannedReceipts(p)' = {cn \in DOMAIN wallets'[p] : wallets'[p][cn].pv.received_at < scanned[p]}
      BY <1>7 DEF ScannedReceipts
    <3>3. c \notin ScannedReceipts(p)'
      BY <1>5, <2>1, <3>1, <3>2
    <3>4. ScannedReceipts(p)' = ScannedReceipts(p)
      BY <1>2, <1>5, <2>1, <3>2, <3>3 DEF ScannedReceipts
    <3>5. \A cn \in ScannedReceipts(p) : LedgerReceipt(p, cn)' = LedgerReceipt(p, cn)
      BY <1>5, <2>1 DEF ScannedReceipts, LedgerReceipt
    <3> QED BY <3>4, <3>5
  <2>2. CASE p # Scanner
    BY <1>4, <1>7, <2>2 DEF ScannedReceipts, LedgerReceipt
  <2> QED BY <2>1, <2>2
<1>10. UNCHANGED LedgerWallets
  <2>1. \A sk \in Senders : sk # GENESIS_SK => sk \in PartySet
    BY DEF Senders
  <2>2. \A sk \in Senders : sk # GENESIS_SK =>
            {LedgerReceipt(sk, cn) : cn \in ScannedReceipts(sk)}'
          = {LedgerReceipt(sk, cn) : cn \in ScannedReceipts(sk)}
    BY <1>9, <2>1
  <2> QED BY <2>2 DEF LedgerWallets
<1>11. UNCHANGED LedgerPending
  BY <1>1 DEF LedgerPending
<1> QED BY <1>7, <1>10, <1>11 DEF Ledgered!vars

(* The ledger's board is as long as the board.                             *)
LEMMA MappedLength ==
    ASSUME Control, NEW n, n = Len(entries)
    PROVE  Len(LedgerBoard) = n
<1> DEFINE b == LedgerBoard
           S == {b[k] : k \in 1 .. n}
<1>1. n \in Nat /\ b = [k \in 1 .. n |-> b[k]]
  BY BoardLength DEF Control, LedgerBoard
<1> HIDE DEF b
<1>2. b \in [1 .. n -> S]
  BY <1>1
<1>3. b \in Seq(S)
  <2> HIDE DEF S
  <2> QED BY <1>1, <1>2, FunctionIsSeq
<1>4. DOMAIN b = 1 .. Len(b) /\ DOMAIN b = 1 .. n /\ Len(b) \in Nat
  BY <1>1, <1>3, LenProperties
<1> QED BY <1>1, <1>4 DEF b

(* A wallet that files a receipt for each coin found in the newest slot    *)
(* processes that slot: its entry is no double spend.                      *)
LEMMA ScansNewest ==
    ASSUME FitsLedger, Control, EntriesMade, PostedValid, turn # 0, NEW n, n = Len(entries),
           NEW sk \in Senders, scanned[sk] = n - 1, UNCHANGED LedgerBoard,
           LedgerPending = {}, LedgerPending' = {},
           scanned' = [scanned EXCEPT ![sk] = n],
           LedgerWallets' = [LedgerWallets EXCEPT ![sk] = @ \union
               {[owner_pk |-> pk_of(sk), coin_commitment |-> cn, received_at |-> n - 1] :
                  cn \in Ledgered!Found(sk, n - 1)}]
    PROVE  Ledgered!ProcessSlot(sk)
<1>1. n \in 1 .. Len(script) /\ n \in Nat /\ n \in 1 .. n /\ n - 1 + 1 = n /\ script \in Scripts
  BY NewestFacts, ScriptFacts
<1>2. Len(LedgerBoard) = n /\ LedgerBoard[n] = Tx(n)
  BY <1>1, MappedLength, MappedBoard
<1>3. Tx(n).input_nullifier \notin Ledgered!NullifiersBefore(n - 1)
  <2>1. n \in 1 .. Len(entries) + 1 /\ Valid(n)
    BY <1>1 DEF PostedValid
  <2> QED BY <2>1, NullifierFresh
<1>4. ASSUME NEW cn \in Ledgered!Found(sk, n - 1)
      PROVE  Ledgered!check_coin_receipt(sk, cn, LedgerBoard[n - 1 + 1], Ledgered!NullifiersBefore(n - 1))
  <2>1. cn \in Ledgered!output_commitments(Tx(n)) /\ cn[2].owner_pk = pk_of(sk)
    BY <1>1, <1>2, <1>4 DEF Ledgered!Found, Ledgered!OwnOutputs, Ledgered!CoinOf
  <2>2. PICK i \in DOMAIN Tx(n).outputs : cn = <<"cn", Tx(n).outputs[i]>>
    BY <2>1 DEF Ledgered!output_commitments, Ledgered!commitment
  <2>3. Tx(n).outputs[i].owner_pk = pk_of(sk)
    BY <2>1, <2>2
  <2> QED BY <1>1, <1>2, <1>3, <2>1, <2>2, <2>3 DEF Ledgered!check_coin_receipt
<1>5. n - 1 < Len(LedgerBoard) /\ [s \in Senders |-> FALSE][sk] = FALSE /\ [s \in Senders |-> pk_of(s)][sk] = pk_of(sk)
  BY <1>1, <1>2
<1>6. Ledgered!Bootstrap(sk, n - 1, n - 1)
  <2>1. scanned' = [scanned EXCEPT ![sk] = n - 1 + 1]
    BY <1>1
  <2>2. LedgerWallets' = [LedgerWallets EXCEPT ![sk] = @ \union
               {[owner_pk |-> [s \in Senders |-> pk_of(s)][sk], coin_commitment |-> cn, received_at |-> n - 1] :
                  cn \in Ledgered!Found(sk, n - 1)}]
    BY <1>5
  <2> QED BY <1>4, <2>1, <2>2 DEF Ledgered!Bootstrap
<1> QED BY <1>5, <1>6 DEF Ledgered!ProcessSlot

(* NextWallet ends a wallet's scan of the newest slot, for which it holds  *)
(* a receipt of each coin found there; a party listed twice scans once.    *)
LEMMA WalletScans ==
    ASSUME FitsLedger, Control, EntriesMade, PostedValid, ReceiptsAnswerRequest, ReceiptsOwned,
           ReceiptsFiled', NextWallet
    PROVE  [Ledgered!Next]_(Ledgered!vars)
<1>1. PICK w : w = turn
  OBVIOUS
<1>2. PICK p : p = Wallets[w]
  OBVIOUS
<1>3. PICK n : n = Len(entries)
  OBVIOUS
<1>4. /\ mode = "prove" /\ w \in DOMAIN Wallets /\ turn' = w + 1 /\ w # 0 /\ w \in Nat
      /\ UNCHANGED <<mode, script, pc, entries, wallets, call, answer>> /\ call.elf = "none"
      /\ p \in PartySet /\ p \in Senders /\ p # GENESIS_SK /\ DOMAIN Wallets \subseteq Nat
  BY <1>1, <1>2, LengthsAreNat, WalletsAssumption DEF NextWallet, Control, Idle, NoCall, Senders
<1>5. n \in Nat /\ n \in 1 .. n /\ n - 1 + 1 = n
  BY <1>1, <1>3, <1>4, NewestFacts, ScriptFacts
<1>6. LedgerPending = {} /\ LedgerPending' = {} /\ UNCHANGED LedgerBoard
  BY <1>4 DEF LedgerPending, ProofHeld, LedgerBoard, LedgerTx, CoinsOf, NullifierPair
<1>7. \A sk \in Senders : Unfinished(sk)' = IF sk = p THEN 0 ELSE Unfinished(sk)
  <2>1. \A i \in DOMAIN Wallets : i < w + 1 <=> i < w \/ i = w
    BY <1>4
  <2>2. w + 1 # 0
    BY <1>4
  <2> QED BY <1>1, <1>2, <1>4, <2>1, <2>2 DEF Unfinished
<1>8. \A sk \in Senders : scanned'[sk] = IF sk = p THEN n ELSE scanned[sk]
  BY <1>3, <1>4, <1>5, <1>7 DEF scanned
<1>9. \A q \in PartySet : \A cn \in DOMAIN wallets[q] : LedgerReceipt(q, cn)' = LedgerReceipt(q, cn)
  BY <1>4 DEF LedgerReceipt
<1>10. ASSUME NEW q \in Senders, q # p PROVE LedgerWallets'[q] = LedgerWallets[q]
  <2>1. CASE q = GENESIS_SK
    BY <2>1 DEF LedgerWallets
  <2>2. CASE q # GENESIS_SK
    <3>1. q \in PartySet
      BY <2>2 DEF Senders
    <3>2. ScannedReceipts(q)' = ScannedReceipts(q)
      BY <1>4, <1>8, <1>10 DEF ScannedReceipts
    <3>3. \A cn \in ScannedReceipts(q) : LedgerReceipt(q, cn)' = LedgerReceipt(q, cn)
      BY <1>9, <3>1 DEF ScannedReceipts
    <3> QED BY <3>2, <3>3 DEF LedgerWallets
  <2> QED BY <2>1, <2>2
<1>11. CASE Unfinished(p) = 0
  <2>1. scanned' = scanned
    <3>1. \A sk \in Senders : Unfinished(sk)' = Unfinished(sk)
      BY <1>7, <1>11
    <3> QED BY <1>4, <3>1 DEF scanned
  <2>2. LedgerWallets' = LedgerWallets
    BY <1>4, <2>1 DEF LedgerWallets, LedgerReceipt, ScannedReceipts
  <2> QED BY <1>6, <2>1, <2>2 DEF Ledgered!vars
<1>12. CASE Unfinished(p) # 0
  <2>1. scanned[p] = n - 1
    BY <1>3, <1>4, <1>12 DEF scanned, Unfinished
  <2>2. scanned' = [scanned EXCEPT ![p] = n]
    BY <1>8 DEF scanned
  <2> DEFINE F == Ledgered!Found(p, n - 1)
             R(cn) == [owner_pk |-> pk_of(p), coin_commitment |-> cn, received_at |-> n - 1]
  <2>3. \A cn \in DOMAIN wallets[p] :
            /\ LedgerReceipt(p, cn) = [owner_pk |-> pk_of(p), coin_commitment |-> cn,
                                       received_at |-> wallets[p][cn].pv.received_at]
            /\ wallets[p][cn].pv.received_at \in 0 .. n - 1
    BY <1>3, <1>4, ReceiptsRead
  <2>4. LedgerWallets[p] = {LedgerReceipt(p, cn) : cn \in ScannedReceipts(p)}
    BY <1>4, ReceiptsRead
  <2>5. ScannedReceipts(p) \subseteq DOMAIN wallets[p] /\ Ledgered!tracked(p) = ScannedReceipts(p)
    BY <2>3, <2>4 DEF ScannedReceipts, Ledgered!tracked
  <2>6. LedgerBoard[n - 1 + 1] = Tx(n) /\ Tx(n).outputs = script[n].outputs
    BY <1>3, <1>5, MappedBoard, TxParts
  <2>7. ASSUME NEW cn PROVE cn \in F <=> cn \in DOMAIN wallets[p] /\ cn \notin ScannedReceipts(p)
    <3>1. cn \in F <=> /\ \E i \in DOMAIN script[n].outputs : cn = <<"cn", script[n].outputs[i]>>
                       /\ cn[2].owner_pk = pk_of(p) /\ cn \notin ScannedReceipts(p)
      BY <1>4, <2>5, <2>6 DEF Ledgered!Found, Ledgered!OwnOutputs, Ledgered!CoinOf,
             Ledgered!output_commitments, Ledgered!commitment
    <3>2. ASSUME NEW i \in DOMAIN script[n].outputs, cn = <<"cn", script[n].outputs[i]>>, cn[2].owner_pk = pk_of(p)
          PROVE  cn \in DOMAIN wallets[p]
      <4>1. script[n].outputs[i].owner_pk = pk_of(Wallets[w]) /\ commitment(script[n].outputs[i]) = cn
        BY <1>2, <3>2 DEF commitment
      <4>2. Reached(n, i, w)'
        BY <1>4 DEF Reached
      <4>3. n \in 1 .. Len(entries)' /\ i \in DOMAIN script'[n].outputs
        BY <1>3, <1>4, <1>5
      <4> QED BY <1>2, <1>4, <4>1, <4>2, <4>3 DEF ReceiptsFiled
    <3>3. ASSUME cn \in DOMAIN wallets[p], cn \notin ScannedReceipts(p)
          PROVE  /\ \E i \in DOMAIN script[n].outputs : cn = <<"cn", script[n].outputs[i]>>
                 /\ cn[2].owner_pk = pk_of(p)
      <4>1. wallets[p][cn].pv.received_at = n - 1
        BY <1>5, <2>1, <2>3, <3>3 DEF ScannedReceipts
      <4>2. \E i \in DOMAIN script[n - 1 + 1].outputs : commitment(script[n - 1 + 1].outputs[i]) = cn
        BY <1>4, <3>3, <4>1 DEF ReceiptsAnswerRequest
      <4>3. cn[2].owner_pk = pk_of(p)
        BY <1>4, <3>3 DEF ReceiptsOwned
      <4> QED BY <1>5, <4>2, <4>3 DEF commitment
    <3> QED BY <3>1, <3>2, <3>3
  <2>8. ASSUME NEW cn \in F PROVE cn \in DOMAIN wallets[p] /\ LedgerReceipt(p, cn) = R(cn)
    <3>1. cn \in DOMAIN wallets[p] /\ cn \notin ScannedReceipts(p)
      BY <2>7, <2>8
    <3>2. wallets[p][cn].pv.received_at = n - 1
      BY <1>5, <2>1, <2>3, <3>1 DEF ScannedReceipts
    <3> QED BY <2>3, <3>1, <3>2
  <2>9. ScannedReceipts(p)' = DOMAIN wallets[p]
    BY <1>4, <1>5, <1>8, <2>3 DEF ScannedReceipts
  <2>10. LedgerWallets'[p] = {LedgerReceipt(p, cn) : cn \in DOMAIN wallets[p]}
    <3>1. LedgerWallets'[p] = {LedgerReceipt(p, cn)' : cn \in ScannedReceipts(p)'}
      BY <1>4 DEF LedgerWallets
    <3> QED BY <1>4, <1>9, <2>9, <3>1
  <2> HIDE DEF F
  <2>11. LedgerWallets'[p] = LedgerWallets[p] \union {R(cn) : cn \in F}
    <3>1. DOMAIN wallets[p] = ScannedReceipts(p) \union F
      BY <2>5, <2>7
    <3>2. {R(cn) : cn \in F} = {LedgerReceipt(p, cn) : cn \in F}
      BY <2>8
    <3> HIDE DEF R
    <3> QED BY <2>4, <2>10, <3>1, <3>2
  <2>12. LedgerWallets' = [LedgerWallets EXCEPT ![p] = @ \union {R(cn) : cn \in F}]
    <3> HIDE DEF R
    <3>1. /\ LedgerWallets = [sk \in Senders |-> LedgerWallets[sk]]
          /\ LedgerWallets' = [sk \in Senders |-> LedgerWallets'[sk]]
      BY DEF LedgerWallets
    <3> QED BY <1>4, <1>10, <2>11, <3>1
  <2>13. Ledgered!ProcessSlot(p)
    <3>1. turn # 0
      BY <1>1, <1>4
    <3> QED BY <1>3, <1>4, <1>6, <2>1, <2>2, <2>12, <3>1, ScansNewest DEF F
  <2> QED BY <1>4, <2>13 DEF Ledgered!Next
<1> QED BY <1>11, <1>12

(* InsertNullifier ends the slot for the genesis key, which owns no output *)
(* and has no wallet.                                                      *)
LEMMA GenesisScans ==
    ASSUME FitsLedger, Control, EntriesMade, PostedValid, InsertNullifier
    PROVE  Ledgered!ProcessSlot(GENESIS_SK)
<1>1. PICK n : n = Len(entries)
  OBVIOUS
<1>2. /\ turn = Len(Wallets) + 1 /\ turn # 0 /\ turn' = 0
      /\ UNCHANGED <<script, entries, wallets, call>> /\ call.elf = "none"
      /\ GENESIS_SK \in Senders
  BY LengthsAreNat DEF InsertNullifier, Control, Idle, NoCall, Senders
<1>3. n \in Nat /\ n \in 1 .. n /\ n - 1 + 1 = n /\ n \in 1 .. Len(script) /\ script \in Scripts
  BY <1>1, <1>2, NewestFacts, ScriptFacts
<1>4. LedgerPending = {} /\ LedgerPending' = {} /\ UNCHANGED LedgerBoard
  BY <1>2 DEF LedgerPending, ProofHeld, LedgerBoard, LedgerTx, CoinsOf, NullifierPair
<1>5. /\ \A sk \in Senders : Unfinished(sk)' = 0
      /\ \A p \in PartySet : Unfinished(p) = 0
      /\ Unfinished(GENESIS_SK) = 1
  <2>1. ASSUME NEW p \in PartySet PROVE Unfinished(p) = 0
    <3>1. PICK i \in DOMAIN Wallets : Wallets[i] = p
      BY DEF PartySet
    <3>2. i < turn
      BY <1>2, LengthsAreNat
    <3> QED BY <3>1, <3>2 DEF Unfinished
  <2>2. \A i \in DOMAIN Wallets : Wallets[i] # GENESIS_SK
    BY LengthsAreNat, WalletsAssumption
  <2>3. Unfinished(GENESIS_SK) = 1
    BY <1>2, <2>2 DEF Unfinished
  <2>4. \A sk \in Senders : Unfinished(sk)' = 0
    BY <1>2 DEF Unfinished
  <2> QED BY <2>1, <2>3, <2>4
<1>6. /\ \A p \in PartySet : p \in Senders /\ scanned'[p] = scanned[p]
      /\ scanned[GENESIS_SK] = n - 1 /\ scanned'[GENESIS_SK] = n
  BY <1>1, <1>2, <1>3, <1>5 DEF scanned, Senders
<1>7. scanned' = [scanned EXCEPT ![GENESIS_SK] = n]
  <2>1. scanned = [sk \in Senders |-> scanned[sk]] /\ scanned' = [sk \in Senders |-> scanned'[sk]]
    BY DEF scanned
  <2> QED BY <1>6, <2>1 DEF Senders
<1>8. LedgerWallets' = LedgerWallets
  <2>1. ASSUME NEW p \in Senders, p # GENESIS_SK
        PROVE  LedgerWallets'[p] = LedgerWallets[p]
    <3>1. p \in PartySet
      BY <2>1 DEF Senders
    <3>2. ScannedReceipts(p)' = ScannedReceipts(p)
      BY <1>2, <1>6, <3>1 DEF ScannedReceipts
    <3>3. \A cn \in ScannedReceipts(p) : LedgerReceipt(p, cn)' = LedgerReceipt(p, cn)
      BY <1>2 DEF LedgerReceipt
    <3> QED BY <2>1, <3>2, <3>3 DEF LedgerWallets
  <2>2. LedgerWallets'[GENESIS_SK] = LedgerWallets[GENESIS_SK]
    BY <1>2 DEF LedgerWallets
  <2>3. /\ LedgerWallets = [sk \in Senders |-> LedgerWallets[sk]]
        /\ LedgerWallets' = [sk \in Senders |-> LedgerWallets'[sk]]
    BY DEF LedgerWallets
  <2> QED BY <2>1, <2>2, <2>3
<1>9. Ledgered!Found(GENESIS_SK, n - 1) = {}
  <2>1. LedgerBoard[n - 1 + 1].outputs = script[n].outputs
    BY <1>1, <1>3, MappedBoard, TxParts
  <2>2. ASSUME NEW i \in DOMAIN script[n].outputs PROVE script[n].outputs[i].owner_pk # pk_of(GENESIS_SK)
    <3>1. PICK p \in PartySet : script[n].outputs[i].owner_pk = pk_of(p)
      BY <1>3, TransferFacts
    <3> QED BY <3>1, WalletsAssumption DEF pk_of
  <2>3. [s \in Senders |-> pk_of(s)][GENESIS_SK] = pk_of(GENESIS_SK)
    BY <1>2
  <2>4. ASSUME NEW cn \in Ledgered!OwnOutputs(GENESIS_SK, LedgerBoard[n - 1 + 1]) PROVE FALSE
    <3>1. cn \in Ledgered!output_commitments(LedgerBoard[n - 1 + 1]) /\ cn[2].owner_pk = pk_of(GENESIS_SK)
      BY <2>3, <2>4 DEF Ledgered!OwnOutputs, Ledgered!CoinOf
    <3>2. PICK i \in DOMAIN script[n].outputs : cn = <<"cn", script[n].outputs[i]>>
      BY <2>1, <3>1 DEF Ledgered!output_commitments, Ledgered!commitment
    <3> QED BY <2>2, <3>1, <3>2
  <2> QED BY <2>4 DEF Ledgered!Found
<1> DEFINE R == {[owner_pk |-> pk_of(GENESIS_SK), coin_commitment |-> cn, received_at |-> n - 1] :
                    cn \in Ledgered!Found(GENESIS_SK, n - 1)}
<1>10. R = {}
  BY <1>9
<1> HIDE DEF R
<1>11. LedgerWallets' = [LedgerWallets EXCEPT ![GENESIS_SK] = @ \union R]
  <2>1. LedgerWallets = [sk \in Senders |-> LedgerWallets[sk]]
    BY DEF LedgerWallets
  <2> QED BY <1>8, <1>10, <2>1
<1> QED BY <1>1, <1>2, <1>4, <1>6, <1>7, <1>11, ScansNewest DEF R

(* Every step of the driver is a step of the ledger, or none.              *)
LEMMA LedgerStep ==
    ASSUME FitsLedger, Control, Honest, ReceiptsAnswerRequest, SpendAsked, ReceiptsOwned,
           Honest', ReceiptsAnswerRequest', SpendAsked', [Next]_vars
    PROVE  [Ledgered!Next]_(Ledgered!vars)
<1>1. /\ EntriesMade /\ PostedValid /\ MintOnly /\ ReceiptsFiled /\ SpendJudged /\ ReceiptJudged
      /\ ReceiptsFiled' /\ SpendJudged'
  BY DEF Honest
<1>2. CASE ChildProves
  <2>1. CASE ProofHeld'
    <3>1. \E sk \in Senders : Ledgered!ProveSpend(sk)
      BY <1>1, <1>2, <2>1, ChildProvesSpend
    <3> QED BY <3>1 DEF Ledgered!Next
  <2>2. CASE ~ProofHeld'
    <3>1. UNCHANGED <<entries, wallets, turn>> /\ ~ProofHeld
      BY <1>2 DEF ChildProves, ProofHeld
    <3> QED BY <2>2, <3>1, QuietStep
  <2> QED BY <2>1, <2>2
<1>3. CASE AcceptSpend
  BY <1>1, <1>3, AcceptSpendPosts
<1>4. CASE FileReceipt
  <2>1. UNCHANGED Ledgered!vars
    BY <1>1, <1>4, FilingIsUnseen
  <2> QED BY <2>1
<1>5. CASE NextWallet
  BY <1>1, <1>5, WalletScans
<1>6. CASE InsertNullifier
  <2>1. Ledgered!ProcessSlot(GENESIS_SK)
    BY <1>1, <1>6, GenesisScans
  <2> QED BY <2>1 DEF Ledgered!Next, Senders
<1>7. CASE ChildDies \/ PassNote \/ Bootstrap \/ ProveReceipt \/ ExecuteReceipt \/ DecodeExecuted
           \/ BenchValidate \/ BenchReport
  <2>1. UNCHANGED <<entries, wallets, turn>> /\ ~ProofHeld /\ ~ProofHeld'
    BY <1>7, CallFacts DEF ProofHeld, ChildDies, PassNote, Bootstrap, ProveReceipt, ExecuteReceipt,
           DecodeExecuted, BenchValidate, BenchReport
  <2> QED BY <2>1, QuietStep
<1>8. CASE BuildSpend
  <2>1. UNCHANGED <<entries, wallets, turn>> /\ pc = "ready" /\ pc' # "answered"
    BY <1>8, CallFacts DEF BuildSpend
  <2> QED BY <2>1, QuietStep DEF ProofHeld
<1>9. CASE UNCHANGED vars
  <2>1. UNCHANGED <<entries, wallets, turn>> /\ UNCHANGED LedgerPending
    BY <1>9 DEF vars, LedgerPending, ProofHeld, LedgerTx, CoinsOf, NullifierPair
  <2> QED BY <2>1, SameLedger DEF Ledgered!vars
<1> QED BY <1>2, <1>3, <1>4, <1>5, <1>6, <1>7, <1>8, <1>9 DEF Next, HostStep, Ended

(* At the start the ledger's board is empty, and so are its wallets.       *)
LEMMA LedgerInit == Init => Ledgered!Init
<1> SUFFICES ASSUME Init PROVE Ledgered!Init
  OBVIOUS
<1>1. entries = <<>> /\ pc = "ready" /\ wallets = [p \in PartySet |-> <<>>] /\ turn = 0
  BY DEF Init
<1>2. LedgerBoard = <<>>
  BY <1>1 DEF LedgerBoard
<1>3. LedgerPending = {}
  BY <1>1 DEF LedgerPending, ProofHeld
<1>4. scanned = [sk \in Senders |-> 0]
  <2>1. \A sk \in Senders : Len(entries) - Unfinished(sk) = 0
    BY <1>1 DEF Unfinished
  <2> QED BY <2>1 DEF scanned
<1>5. LedgerWallets = [sk \in Senders |-> {}]
  <2>1. \A sk \in Senders : sk # GENESIS_SK => {LedgerReceipt(sk, cn) : cn \in ScannedReceipts(sk)} = {}
    BY <1>1 DEF ScannedReceipts, Senders
  <2> QED BY <2>1 DEF LedgerWallets
<1> QED BY <1>2, <1>3, <1>4, <1>5 DEF Ledgered!Init

(* ImplementsLedger: one host process that plays every party is a ledger   *)
(* whose hosts never race.  For every script whose transfers have one      *)
(* input and at most two outputs, as all of main's have and as the mapping *)
(* bounds a transaction, each step of the driver is a spend proved, an     *)
(* entry posted or a slot processed, or is none of the ledger's.           *)
THEOREM DriverImplementsLedger == FitsLedger => (Spec => ImplementsLedger)
<1> SUFFICES ASSUME FitsLedger PROVE Spec => ImplementsLedger
  OBVIOUS
<1>1. Init => SpendAsked /\ ReceiptsOwned
  BY EmptySeq DEF Init, SpendAsked, ReceiptsOwned, NoCall
<1>2. Control /\ Honest /\ SpendAsked /\ ReceiptsOwned /\ [Next]_vars => SpendAsked' /\ ReceiptsOwned'
  BY SpendAskedStep, ReceiptsOwnedStep DEF Honest
<1>3. /\ Control /\ Honest /\ ReceiptsAnswerRequest /\ SpendAsked /\ ReceiptsOwned
      /\ Honest' /\ ReceiptsAnswerRequest' /\ SpendAsked' /\ [Next]_vars
      => [Ledgered!Next]_(Ledgered!vars)
  BY LedgerStep
<1> QED BY <1>1, <1>2, <1>3, LedgerInit, HonestHolds, ReceiptsAnswer, PTL
        DEF Spec, ImplementsLedger, Ledgered!Spec
=============================================================================
