------------------------------- MODULE Driver -------------------------------
(***************************************************************************)
(* main of script/src/bin/main.rs: one host process that plays every       *)
(* party.  For each slot it proves a spend in a child process, posts the   *)
(* entry, lets every wallet scan it and prove a receipt for each coin it   *)
(* discovers, and inserts the slot's nullifier.  main writes its three     *)
(* transfers out one after the other; here they are any script of          *)
(* transfers, among them ones the relation must reject.                    *)
(***************************************************************************)
EXTENDS Guests

CONSTANTS
    Coins,
    Wallets,      \* the parties with a wallet, in the order main calls them
    Scripts       \* the sequences of transfers a run may be given

PartySet == {Wallets[i] : i \in DOMAIN Wallets}
Senders == PartySet \union {GENESIS_SK}

(* The genesis key is no party's.                                          *)
ASSUME WalletsAssumption == Wallets \in Seq(PartySet) /\ GENESIS_SK \notin PartySet

(* A transfer: who spends which coins into which, at least one of each;    *)
(* outputs go to parties that have a wallet.                               *)
TransferSet == [sender : Senders, inputs : Seq(Coins) \ {<<>>}, outputs : Seq(Coins) \ {<<>>}]

ASSUME ScriptsAssumption ==
    \A script \in Scripts :
        /\ script \in Seq(TransferSet) /\ Len(script) \in 1 .. Capacity - 1
        /\ \A i \in DOMAIN script :
              /\ <<commitment(script[i].inputs[1]), script[i].sender>> \in DOMAIN NullifierOf
              /\ \A j \in DOMAIN script[i].outputs :
                    \E p \in PartySet : script[i].outputs[j].owner_pk = pk_of(p)

VARIABLES
    mode,             \* the flag the binary was called with
    script,           \* the transfers it makes
    pc,               \* what the host is doing
    entries,          \* the board
    nullifier_tree,
    wallets,          \* per party, its CoinRecords by commitment
    turn,             \* 0 while spending; then the wallet that scans; then one more
    note,             \* the note it looks at
    call,             \* the program being proved or executed, and its stdin
    answer            \* the proof that came back

vars == <<mode, script, pc, entries, nullifier_tree, wallets, turn, note, call, answer>>

Modes == {"prove", "execute", "bench-vfy-g16"}
Final == {"done", "panicked", "child_died"}

NoCall == [elf |-> "none"]
NoAnswer == [elf |-> "none"]

Current == script[Len(entries) + 1]
slot == Len(entries) - 1
newest == entries[Len(entries)]
Scanner == Wallets[turn]

make_tx(id, t) ==
    LET session_key == session_key_of(t.sender, id)
    IN  [id |-> id,
         input_commitments |-> commitments(t.inputs),
         output_commitments |-> commitments(t.outputs),
         note_encs |-> [i \in DOMAIN t.outputs |-> build_note_enc(session_key, i, t.outputs[i])],
         input_nullifier |-> nullifier(commitment(t.inputs[1]), t.sender),
         spend_proof |-> {}]

-----------------------------------------------------------------------------
Init ==
    /\ mode \in Modes
    /\ script \in Scripts
    /\ mode # "prove" => Len(script) = 1 /\ script[1].sender = GENESIS_SK
    /\ pc = "ready"
    /\ entries = <<>>
    /\ nullifier_tree = new
    /\ wallets = [p \in PartySet |-> <<>>]
    /\ turn = 0 /\ note = 1
    /\ call = NoCall /\ answer = NoAnswer

(* prove_subprocess, or client.execute.                                    *)
Call(elf, stdin) ==
    /\ call' = [elf |-> elf, stdin |-> stdin]
    /\ pc' = "calling"

(* A sender other than genesis presents the receipt its wallet holds.      *)
SpendReceipt(t) ==
    LET cn == commitment(t.inputs[1])
    IN  IF t.sender \in PartySet /\ cn \in DOMAIN wallets[t.sender] THEN {wallets[t.sender][cn]} ELSE {}

BuildSpend ==
    /\ pc = "ready" /\ turn = 0 /\ Len(entries) < Len(script)
    /\ LET t == Current
           cn == commitment(t.inputs[1])
           stdin == build_spend_stdin(t.sender, cn, Len(entries), append_path_for_next(entries),
                        make_tx(Len(entries), t), t.inputs, t.outputs, {r.pv : r \in SpendReceipt(t)},
                        prove_non_membership(nullifier_tree, nullifier(cn, t.sender)),
                        root(nullifier_tree))
       IN  IF t.sender = GENESIS_SK THEN Call("spend", stdin)
           ELSE IF SpendReceipt(t) = {} THEN pc' = "panicked" /\ UNCHANGED call
           ELSE \E r \in SpendReceipt(t) : Call("spend", write_proof(stdin, r.proof))
    /\ UNCHANGED <<mode, script, entries, nullifier_tree, wallets, turn, note, answer>>

(* The child's proof, or its failure, which prove_subprocess asserts       *)
(* against.  --execute and the bench's VFY-G16 run without proving.        *)
InProcess == mode = "execute" \/ (mode = "bench-vfy-g16" /\ call.elf = "vfy-g16")

ChildProves ==
    /\ pc = "calling"
    /\ LET executed == execute(call.elf, call.stdin)
           answers == IF InProcess
                      THEN {[elf |-> call.elf, exit_code |-> executed.exit_code,
                             public_values |-> executed.output]}
                      ELSE prove(call.elf, call.stdin)
       IN  IF answers = {} THEN pc' = "panicked" /\ UNCHANGED answer
           ELSE pc' = "answered" /\ answer' \in answers
    /\ UNCHANGED <<mode, script, entries, nullifier_tree, wallets, turn, note, call>>

(* The child is killed or runs out of memory.                              *)
ChildDies ==
    /\ pc = "calling" /\ ~InProcess
    /\ pc' = "child_died"
    /\ UNCHANGED <<mode, script, entries, nullifier_tree, wallets, turn, note, call, answer>>

(* client.verify: whether it takes the proof of a halted guest is up to    *)
(* the SDK.                                                                *)
verify(proof, elf) ==
    IF proof.elf # elf THEN {FALSE} ELSE IF proof.exit_code = 0 THEN {TRUE} ELSE BOOLEAN

(* --execute packages no proof bytes.                                      *)
build_spend_proof_package(proof) ==
    IF mode = "execute"
    THEN [proof_bytes |-> <<>>, pv_encode |-> proof.public_values, spend_vkey_hash |-> NoString]
    ELSE [proof_bytes |-> bytes(proof), pv_encode |-> proof.public_values,
          spend_vkey_hash |-> HashString(Vkey("spend"))]

PostEntry(t, proof) ==
    LET tx == [make_tx(Len(entries), t) EXCEPT !.spend_proof = {build_spend_proof_package(proof)}]
    IN  entries' = Append(entries, encrypt_tx(tx, [i \in DOMAIN t.outputs |-> t.outputs[i].owner_pk],
                                              session_key_of(t.sender, Len(entries))))

(* The spend is verified, its public values decoded and their board root   *)
(* asserted; the entry is posted and the wallets' turn begins.             *)
AcceptSpend ==
    /\ pc = "answered" /\ call.elf = "spend" /\ mode # "bench-vfy-g16"
    /\ \E verified \in verify(answer, "spend") :
         IF (verified \/ mode = "execute")
              /\ \E pv \in decode(answer.public_values) : pv.board_root = merkle_root_of(entries)
         THEN /\ PostEntry(Current, answer)
              /\ pc' = "ready" /\ turn' = 1 /\ note' = 1
         ELSE pc' = "panicked" /\ UNCHANGED <<entries, turn, note>>
    /\ call' = NoCall /\ answer' = NoAnswer
    /\ UNCHANGED <<mode, script, nullifier_tree, wallets>>

NotesFor(p) == UNION {DOMAIN tx.note_encs : tx \in scan_entry(p, newest)}

(* The coin a note holds for the party, when its wallet does not track it. *)
Discovered(p, i) ==
    {coin \in NoteAt(p, newest, i) :
        coin.owner_pk = pk_of(p) /\ commitment(coin) \notin DOMAIN wallets[p]}

(* Mutant: passing a note over forgets to go on to the next.               *)
PassNoteInPlace ==
    /\ pc = "ready" /\ turn \in DOMAIN Wallets /\ mode = "prove"
    /\ note \in NotesFor(Scanner) /\ Discovered(Scanner, note) = {}
    /\ UNCHANGED vars

(* process_slot's loop: a note that is not the party's own, or of a coin   *)
(* it tracks, is passed over.                                              *)
PassNote ==
    /\ pc = "ready" /\ turn \in DOMAIN Wallets /\ mode = "prove"
    /\ note \in NotesFor(Scanner) /\ Discovered(Scanner, note) = {}
    /\ note' = note + 1
    /\ UNCHANGED <<mode, script, pc, entries, nullifier_tree, wallets, turn, call, answer>>

(* bootstrap: the spend proof of a discovered coin's entry is validated.   *)
Bootstrap ==
    /\ pc = "ready" /\ turn \in DOMAIN Wallets /\ mode = "prove"
    /\ note \in NotesFor(Scanner) /\ Discovered(Scanner, note) # {}
    /\ \E tx \in scan_entry(Scanner, newest) : \E pkg \in tx.spend_proof :
          Call("vfy-g16", build_vfy_g16_stdin(pkg))
    /\ UNCHANGED <<mode, script, entries, nullifier_tree, wallets, turn, note, answer>>

(* Mutant: whatever note is looked at, the receipt is for the first output. *)
CoinproofStdinFirstOutput(p, coin) ==
    build_coinproof_stdin(p, (CHOOSE tx \in scan_entry(p, newest) : TRUE).output_commitments[1],
                          newest, slot, append_proof_for(entries),
                          prove_non_membership(nullifier_tree, newest.nullifier), root(nullifier_tree))

CoinproofStdin(p, coin) ==
    build_coinproof_stdin(p, commitment(coin), newest, slot, append_proof_for(entries),
                          prove_non_membership(nullifier_tree, newest.nullifier), root(nullifier_tree))

(* Then the receipt itself is proved, the validation folded in.            *)
ProveReceipt ==
    /\ pc = "answered" /\ call.elf = "vfy-g16" /\ mode = "prove"
    /\ \E coin \in Discovered(Scanner, note) :
          Call("coinproof", write_proof(CoinproofStdin(Scanner, coin), answer))
    /\ answer' = NoAnswer
    /\ UNCHANGED <<mode, script, entries, nullifier_tree, wallets, turn, note>>

(* run_coin_receipt verifies and decodes it, bootstrap files it.           *)
FileReceipt ==
    /\ pc = "answered" /\ call.elf = "coinproof" /\ mode = "prove"
    /\ \E verified \in verify(answer, "coinproof"), coin \in Discovered(Scanner, note) :
         IF verified /\ decode(answer.public_values) # {}
         THEN /\ \E pv \in decode(answer.public_values) :
                    wallets' = [wallets EXCEPT ![Scanner] =
                                   MapInsert(@, commitment(coin), [pv |-> pv, proof |-> answer])]
              /\ pc' = "ready" /\ note' = note + 1
         ELSE pc' = "panicked" /\ UNCHANGED <<wallets, note>>
    /\ call' = NoCall /\ answer' = NoAnswer
    /\ UNCHANGED <<mode, script, entries, nullifier_tree, turn>>

NextWallet ==
    /\ pc = "ready" /\ turn \in DOMAIN Wallets /\ mode = "prove"
    /\ note \notin NotesFor(Scanner)
    /\ turn' = turn + 1 /\ note' = 1
    /\ UNCHANGED <<mode, script, pc, entries, nullifier_tree, wallets, call, answer>>

(* Mutant: the turn does not go back to spending.                          *)
InsertKeepingTurn ==
    /\ pc = "ready" /\ turn = Len(Wallets) + 1
    /\ nullifier_tree' = insert(nullifier_tree, newest.nullifier)
    /\ turn' = turn + 1
    /\ pc' = IF Len(entries) = Len(script) THEN "done" ELSE "ready"
    /\ UNCHANGED <<mode, script, entries, wallets, note, call, answer>>

(* Mutant: every slot inserts the nullifier of slot 0.                     *)
InsertOfFirstSlot ==
    /\ pc = "ready" /\ turn = Len(Wallets) + 1
    /\ nullifier_tree' = insert(nullifier_tree, entries[1].nullifier)
    /\ turn' = 0
    /\ pc' = IF Len(entries) = Len(script) THEN "done" ELSE "ready"
    /\ UNCHANGED <<mode, script, entries, wallets, note, call, answer>>

InsertNullifier ==
    /\ pc = "ready" /\ turn = Len(Wallets) + 1
    /\ nullifier_tree' = insert(nullifier_tree, newest.nullifier)
    /\ turn' = 0
    /\ pc' = IF Len(entries) = Len(script) THEN "done" ELSE "ready"
    /\ UNCHANGED <<mode, script, entries, wallets, note, call, answer>>

-----------------------------------------------------------------------------
(* --execute: the receipt of the minted coin is executed for its owner,    *)
(* and no wallet keeps it.                                                 *)
MintOwner == CHOOSE p \in PartySet : script[1].outputs[1].owner_pk = pk_of(p)

ExecuteReceipt ==
    /\ pc = "ready" /\ mode = "execute" /\ turn = 1
    /\ Call("coinproof", CoinproofStdin(MintOwner, script[1].outputs[1]))
    /\ UNCHANGED <<mode, script, entries, nullifier_tree, wallets, turn, note, answer>>

DecodeExecuted ==
    /\ pc = "answered" /\ mode = "execute" /\ call.elf = "coinproof"
    /\ pc' = IF decode(answer.public_values) = {} THEN "panicked" ELSE "done"
    /\ UNCHANGED <<mode, script, entries, nullifier_tree, wallets, turn, note, call, answer>>

(* --bench-vfy-g16: the genesis spend is proved, its validation executed,  *)
(* and whatever came of it reported.                                       *)
BenchValidate ==
    /\ pc = "answered" /\ mode = "bench-vfy-g16" /\ call.elf = "spend"
    /\ Call("vfy-g16", build_vfy_g16_stdin(build_spend_proof_package(answer)))
    /\ answer' = NoAnswer
    /\ UNCHANGED <<mode, script, entries, nullifier_tree, wallets, turn, note>>

BenchReport ==
    /\ pc = "answered" /\ mode = "bench-vfy-g16" /\ call.elf = "vfy-g16"
    /\ pc' = "done"
    /\ UNCHANGED <<mode, script, entries, nullifier_tree, wallets, turn, note, call, answer>>

Ended == pc \in Final /\ UNCHANGED vars

HostStep ==
    \/ BuildSpend \/ AcceptSpend \/ PassNote \/ Bootstrap \/ ProveReceipt \/ FileReceipt
    \/ NextWallet \/ InsertNullifier
    \/ ExecuteReceipt \/ DecodeExecuted \/ BenchValidate \/ BenchReport

Next == HostStep \/ ChildProves \/ ChildDies \/ Ended

Spec == Init /\ [][Next]_vars /\ WF_vars(HostStep) /\ WF_vars(ChildProves)

-----------------------------------------------------------------------------
(* Type invariant.                                                         *)
TypeOK ==
    /\ mode \in Modes /\ script \in Scripts
    /\ pc \in {"ready", "calling", "answered"} \union Final
    /\ Len(entries) <= Len(script)
    /\ DOMAIN wallets = PartySet
    /\ turn \in 0 .. Len(Wallets) + 1
    /\ turn # 0 => entries # <<>>
    /\ note \in Nat \ {0}
    /\ call.elf \in {"none", "spend", "vfy-g16", "coinproof"}
    /\ answer.elf \in {"none", call.elf}
    /\ pc = "answered" => answer.elf # "none"

Package(k) == CHOOSE pkg \in entries[k].ciphertext.data.spend_proof : TRUE
Prefix(k) == SubSeq(entries, 1, k)

(* NullifierTree::replay of the first n entries.                           *)
replay(n) ==
    LET tree[i \in 0 .. n] == IF i = 0 THEN new ELSE insert(tree[i - 1], entries[i].nullifier)
    IN  tree[n]

(* run_coin_receipt files whatever the receipt's public values say under   *)
(* the commitment it asked for, and compares nothing: what a wallet holds  *)
(* must still be the receipt of that coin and that owner, at the slot      *)
(* whose entry created it and under the root of the board up to it, of a   *)
(* guest that did not halt.                                                *)
ReceiptsAnswerRequest ==
    \A p \in PartySet : \A cn \in DOMAIN wallets[p] :
        LET r == wallets[p][cn]
            k == r.pv.received_at + 1
        IN  /\ r.pv.coin_commitment = cn
            /\ r.pv.owner_pk = pk_of(p)
            /\ k \in DOMAIN entries
            /\ r.pv.board_root = merkle_root_of(Prefix(k))
            /\ \E i \in DOMAIN script[k].outputs : commitment(script[k].outputs[i]) = cn
            /\ r.proof.exit_code = 0

(* Every posted spend carries the proof of a guest that did not halt, and  *)
(* commits to the roots of the board and of the nullifiers before it: what *)
(* anyone who rebuilds both from the board can check.                      *)
PostedSpendsAnchored ==
    \A k \in DOMAIN entries : \E pv \in decode(Package(k).pv_encode) :
        /\ pv.board_root = merkle_root_of(Prefix(k - 1))
        /\ pv.nullifier_root = root(replay(k - 1))
        /\ pv.output_commitments = commitments(script[k].outputs)
        /\ mode = "prove" => Package(k).proof_bytes = bytes([elf |-> "spend", exit_code |-> 0,
                                                            public_values |-> Package(k).pv_encode])

(* The tree main updates once per slot is the one anybody gets from the    *)
(* board: of every finished slot, and of no other.                         *)
AccumulatorIsReplay ==
    nullifier_tree = replay(IF turn = 0 THEN Len(entries) ELSE Len(entries) - 1)

(* A transfer the relation should accept, read off the script alone: the   *)
(* spender owns the inputs, an earlier transfer created the first one (or  *)
(* the genesis key spends it) and none has spent it, and worth is kept.    *)
Payable(k) ==
    LET t == script[k]
    IN  /\ \A i \in DOMAIN t.inputs : t.inputs[i].owner_pk = pk_of(t.sender)
        /\ IntegerTotal(values(t.inputs)) = IntegerTotal(values(t.outputs))
        /\ \A j \in 1 .. k - 1 : script[j].inputs[1] # t.inputs[1]
        /\ t.sender # GENESIS_SK =>
              \E j \in 1 .. k - 1 : \E i \in DOMAIN script[j].outputs : script[j].outputs[i] = t.inputs[1]

(* What is posted is payable, and a run panics over a transfer that is not *)
(* and over nothing else: no check of host, guest or proof system rejects  *)
(* a good transfer or its receipts.                                        *)
PanicsExactlyOnBadTransfers ==
    /\ \A k \in DOMAIN entries : Payable(k)
    /\ pc = "panicked" => turn = 0 /\ ~Payable(Len(entries) + 1)

(* A halted VFY-G16 run is proved without complaint and shows only when a  *)
(* receipt folds it in; for the spend proofs a host gets, it never halts,  *)
(* and it hands on exactly the public values it was given.                 *)
ValidationNeverHalts ==
    pc = "answered" /\ call.elf = "vfy-g16" =>
        answer.exit_code = 0 /\ answer.public_values = call.stdin.items[2]

(* A run comes to an end, whatever its script.                             *)
RunEnds == <>(pc \in Final)

-----------------------------------------------------------------------------
(* The driver is a ledger of hosts that never race: an entry is pending    *)
(* while its proof is held, a wallet has scanned a slot once its turn is   *)
(* over, and the genesis key, which has none, once the slot's nullifier is *)
(* inserted.                                                               *)
CoinsOf(cns) == [i \in DOMAIN cns |-> cns[i][2]]
NullifierPair(n) == CHOOSE pair \in DOMAIN NullifierOf : NullifierOf[pair] = n

LedgerTx(tx, anchor) ==
    [input_commitments |-> tx.input_commitments,
     outputs |-> CoinsOf(tx.output_commitments),
     input_nullifier |-> <<"nf", NullifierPair(tx.input_nullifier)[1], NullifierPair(tx.input_nullifier)[2]>>,
     anchor |-> anchor]

Unfinished(sk) ==
    IF turn = 0 \/ \E i \in DOMAIN Wallets : Wallets[i] = sk /\ i < turn THEN 0 ELSE 1

LedgerBoard == [k \in DOMAIN entries |-> LedgerTx(entries[k].ciphertext.data, k - 1)]

ProofHeld == pc = "answered" /\ call.elf = "spend" /\ mode # "bench-vfy-g16" /\ answer.exit_code = 0

LedgerPending == IF ProofHeld THEN {LedgerTx(call.stdin.items[8], Len(entries))} ELSE {}

scanned == [sk \in Senders |-> Len(entries) - Unfinished(sk)]

ScannedReceipts(p) == {cn \in DOMAIN wallets[p] : wallets[p][cn].pv.received_at < scanned[p]}

LedgerReceipt(p, cn) ==
    LET pv == wallets[p][cn].pv
    IN  [owner_pk |-> pv.owner_pk, coin_commitment |-> pv.coin_commitment, received_at |-> pv.received_at]

LedgerWallets ==
    [sk \in Senders |-> IF sk = GENESIS_SK THEN {}
                        ELSE {LedgerReceipt(sk, cn) : cn \in ScannedReceipts(sk)}]

Ledgered == INSTANCE Ledger
    WITH SecretKeys <- Senders, PublicKeys <- {pk_of(sk) : sk \in Senders},
         derive_pk <- [sk \in Senders |-> pk_of(sk)],
         MaxInputs <- 1, MaxOutputs <- 2, MaxSlots <- Capacity, MaxPending <- 1,
         board <- LedgerBoard, pending <- LedgerPending, wallets <- LedgerWallets,
         panicked <- [sk \in Senders |-> FALSE]

ImplementsLedger == Ledgered!Spec
=============================================================================
