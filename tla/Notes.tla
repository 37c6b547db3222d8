------------------------------- MODULE Notes -------------------------------
(***************************************************************************)
(* What the wallets that scan a board read of it: senders post entries of  *)
(* several outputs, wallets try every entry and every note in turn.        *)
(***************************************************************************)
EXTENDS NoteCipher

CONSTANTS
    Parties,       \* each by its one secret key
    Coins,         \* tag and owner
    Ids,           \* transaction ids a sender uses
    MaxOutputs, MaxSlots    \* bounds

ASSUME CoinsAssumption == \A c \in Coins : \E p \in Parties : c.owner_pk = pk_of(p)
ASSUME BoundsAssumption == MaxOutputs \in Nat \ {0} /\ MaxSlots \in Nat

VARIABLES
    board,     \* the entries posted
    scanned,   \* per wallet, the slots it has processed
    found,     \* per wallet, the coins it discovered for itself
    opened     \* per wallet, every coin a note decrypted to

vars == <<board, scanned, found, opened>>

(* What process_slot's loop over the notes of an entry decrypts.           *)
OpenedBy(owner, entry) ==
    UNION {NoteAt(owner, entry, i) : i \in UNION {DOMAIN tx.note_encs : tx \in scan_entry(owner, entry)}}

-----------------------------------------------------------------------------
Init == /\ board = <<>>
        /\ scanned = [p \in Parties |-> 0]
        /\ found = [p \in Parties |-> {}]
        /\ opened = [p \in Parties |-> {}]

(* make_tx and encrypt_tx; each output's recipient is its owner, as in     *)
(* every call of main.  The body is reduced to what a scan reads of it.    *)
Posted(sender, id, outputs) ==
    LET session_key == session_key_of(sender, id)
    IN  [entry |-> encrypt_tx(
            [note_encs |-> [i \in DOMAIN outputs |-> build_note_enc(session_key, i, outputs[i])],
             input_nullifier |-> <<"nf", sender, id>>],
            [i \in DOMAIN outputs |-> outputs[i].owner_pk], session_key),
         sender |-> sender, id |-> id, outputs |-> outputs]

Post(sender, id) ==
    /\ Len(board) < MaxSlots
    /\ \E n \in 1 .. MaxOutputs : \E outputs \in [1 .. n -> Coins] :
          board' = Append(board, Posted(sender, id, outputs))
    /\ UNCHANGED <<scanned, found, opened>>

(* Mutant: a slot with nothing for the wallet is counted twice.            *)
ProcessSkipping(p) ==
    /\ scanned[p] < Len(board)
    /\ OpenedBy(p, board[scanned[p] + 1].entry) = {}
    /\ scanned' = [scanned EXCEPT ![p] = @ + 2]
    /\ UNCHANGED <<board, opened, found>>

process_slot(p) ==
    /\ scanned[p] < Len(board)
    /\ LET coins == OpenedBy(p, board[scanned[p] + 1].entry)
       IN  /\ opened' = [opened EXCEPT ![p] = @ \union coins]
           /\ found' = [found EXCEPT ![p] = @ \union {c \in coins : c.owner_pk = pk_of(p)}]
    /\ scanned' = [scanned EXCEPT ![p] = @ + 1]
    /\ UNCHANGED board

Next == \E p \in Parties : process_slot(p) \/ \E id \in Ids : Post(p, id)

Spec == Init /\ [][Next]_vars

-----------------------------------------------------------------------------
OutputsOf(slot) == {board[slot].outputs[i] : i \in DOMAIN board[slot].outputs}
OwnedIn(p, slot) == {c \in OutputsOf(slot) : c.owner_pk = pk_of(p)}

(* Type invariant.                                                         *)
TypeOK ==
    /\ scanned \in [Parties -> 0 .. Len(board)]
    /\ found \in [Parties -> SUBSET Coins]
    /\ opened \in [Parties -> SUBSET Coins]

(* However its coins are mixed with others' in an entry, and whatever else *)
(* was posted under the same session key, a wallet discovers exactly the   *)
(* coins addressed to it in the slots it has processed.                    *)
FindsExactlyOwnCoins ==
    \A p \in Parties : found[p] = UNION {OwnedIn(p, k) : k \in 1 .. scanned[p]}

(* process_slot reads nothing of an entry that pays its wallet nothing.    *)
OutsidersReadNothing ==
    \A p \in Parties :
        opened[p] \subseteq UNION {OutputsOf(k) : k \in {j \in 1 .. scanned[p] : OwnedIn(p, j) # {}}}

(* The session key that p recovers of slot j opens the body of slot k.     *)
KeyOpens(p, j, k) ==
    \E s \in recover_session_key(p, board[j].entry) : Unwrap(s, board[k].entry.ciphertext) # {}

(* A session key is make_tx's hash of sender and id, not the random one    *)
(* lib.rs:85 speaks of: what a wallet recovers of an entry that pays it    *)
(* opens the bodies its sender posted under the same id, before or after   *)
(* and whoever they pay, and no other body on the board.                   *)
SessionKeyOpensOneId ==
    \A p \in Parties : \A j \in 1 .. scanned[p], k \in 1 .. Len(board) :
        KeyOpens(p, j, k) <=> /\ OwnedIn(p, j) # {}
                              /\ board[k].sender = board[j].sender
                              /\ board[k].id = board[j].id

(* The header of main.rs: "no recipient can see another's coin value".     *)
(* Every note key derives from the one session key all recipients recover; *)
(* the sender, who wrote the notes, may read them.                         *)
NotesPrivate ==
    \A p \in Parties : \A c \in opened[p] :
        c.owner_pk = pk_of(p) \/ \E k \in 1 .. scanned[p] : board[k].sender = p /\ c \in OutputsOf(k)
=============================================================================
