---------------------------- MODULE NotesProofs ----------------------------
(***************************************************************************)
(* Theorems about the encryption of entries, for any parties, coins, ids   *)
(* and numbers of outputs.                                                 *)
(***************************************************************************)
EXTENDS Notes, TLAPS

(* What an entry was made from.                                            *)
IsPosted(e) ==
    \E sender \in Parties, id \in Ids, n \in Nat : \E outputs \in [1 .. n -> Coins] :
        e = Posted(sender, id, outputs)

(* The two ends of a key agreement reach one wrapping key exactly when the *)
(* sender used the recipient's public key (encrypt_tx,                     *)
(* recover_session_key).                                                   *)
LEMMA Agreement ==
    ASSUME NEW sk, NEW ek, NEW pk
    PROVE  wrapping_key(diffie_hellman(sk, pk_of(ek))) = wrapping_key(diffie_hellman(ek, pk))
               <=> pk = pk_of(sk)
<1>1. wrapping_key(diffie_hellman(sk, pk_of(ek))) = wrapping_key(diffie_hellman(ek, pk))
          <=> diffie_hellman(sk, pk_of(ek)) = diffie_hellman(ek, pk)
  BY DEF wrapping_key
<1>2. diffie_hellman(sk, pk_of(ek)) = diffie_hellman(ek, pk) <=> pk = pk_of(sk)
  <2> DEFINE a == pk_of(sk)
             b == pk_of(ek)
  <2>1. {a, b} = {b, pk} <=> pk = a
    <3> HIDE DEF a, b
    <3> QED OBVIOUS
  <2> QED BY <2>1 DEF diffie_hellman
<1> QED BY <1>1, <1>2

(* A keystream undoes what it was applied to under the same key, and       *)
(* nothing else.                                                           *)
LEMMA Unwraps ==
    ASSUME NEW key, NEW other, NEW data
    PROVE  Unwrap(other, Wrap(key, data)) = IF other = key THEN {data} ELSE {}
BY DEF Unwrap, Wrap

(* recover_session_key returns the session key to a recipient and nothing  *)
(* to anybody else; the session key opens the body.                        *)
LEMMA KeyRecovered ==
    ASSUME NEW p, NEW sender, NEW id, NEW n \in Nat, NEW outputs \in [1 .. n -> Coins]
    PROVE  /\ recover_session_key(p, Posted(sender, id, outputs).entry) =
                  IF \E i \in 1 .. n : outputs[i].owner_pk = pk_of(p)
                  THEN {session_key_of(sender, id)} ELSE {}
           /\ Posted(sender, id, outputs).entry.ciphertext =
                  Wrap(session_key_of(sender, id),
                       [note_encs |-> [i \in 1 .. n |->
                                          build_note_enc(session_key_of(sender, id), i, outputs[i])],
                        input_nullifier |-> <<"nf", sender, id>>])
<1> DEFINE e == Posted(sender, id, outputs).entry
           session == session_key_of(sender, id)
           tx == [note_encs |-> [i \in 1 .. n |-> build_note_enc(session, i, outputs[i])],
                  input_nullifier |-> <<"nf", sender, id>>]
           own == \E i \in 1 .. n : outputs[i].owner_pk = pk_of(p)
<1>1. /\ e.ciphertext = Wrap(session, tx)
      /\ e.ek_pk = pk_of(ek_secret(session))
      /\ DOMAIN e.key_encs = 1 .. n
      /\ \A i \in 1 .. n : e.key_encs[i] =
             Wrap(wrapping_key(diffie_hellman(ek_secret(session), outputs[i].owner_pk)), session)
  BY DEF Posted, encrypt_tx
<1> HIDE DEF e, session, tx
<1>2. \A i \in 1 .. n : Unwrap(wrapping_key(diffie_hellman(p, e.ek_pk)), e.key_encs[i]) =
          IF outputs[i].owner_pk = pk_of(p) THEN {session} ELSE {}
  <2> SUFFICES ASSUME NEW i \in 1 .. n
               PROVE  Unwrap(wrapping_key(diffie_hellman(p, e.ek_pk)), e.key_encs[i]) =
                          IF outputs[i].owner_pk = pk_of(p) THEN {session} ELSE {}
    OBVIOUS
  <2> DEFINE ek == ek_secret(session)
             pk == outputs[i].owner_pk
             mine == wrapping_key(diffie_hellman(p, pk_of(ek)))
             theirs == wrapping_key(diffie_hellman(ek, pk))
  <2>1. mine = theirs <=> pk = pk_of(p)
    BY Agreement
  <2>2. Unwrap(mine, Wrap(theirs, session)) = IF mine = theirs THEN {session} ELSE {}
    BY Unwraps
  <2>3. e.ek_pk = pk_of(ek) /\ e.key_encs[i] = Wrap(theirs, session)
    BY <1>1
  <2>4. Unwrap(wrapping_key(diffie_hellman(p, e.ek_pk)), e.key_encs[i]) = Unwrap(mine, Wrap(theirs, session))
    BY <2>3
  <2> HIDE DEF mine, theirs, pk
  <2>5. Unwrap(wrapping_key(diffie_hellman(p, e.ek_pk)), e.key_encs[i]) =
            IF pk = pk_of(p) THEN {session} ELSE {}
    BY <2>1, <2>2, <2>4
  <2> QED BY <2>5 DEF pk
<1>3. Unwrap(session, e.ciphertext) = {tx}
  BY <1>1, Unwraps
<1>4. recover_session_key(p, e) = IF own THEN {session} ELSE {}
  <2> DEFINE key(i) == Unwrap(wrapping_key(diffie_hellman(p, e.ek_pk)), e.key_encs[i])
             keys == UNION {key(i) : i \in 1 .. n}
  <2>1. recover_session_key(p, e) = {s \in keys : Unwrap(s, e.ciphertext) # {}}
    BY <1>1 DEF recover_session_key
  <2>2. \A i \in 1 .. n : key(i) = IF outputs[i].owner_pk = pk_of(p) THEN {session} ELSE {}
    BY <1>2
  <2> HIDE DEF key
  <2>3. keys = IF own THEN {session} ELSE {}
    BY <2>2
  <2> HIDE DEF keys
  <2> QED BY <1>3, <2>1, <2>3
<1> QED BY <1>1, <1>4 DEF e, session, tx

(* With the key of a recipient recover_session_key opens every note of the *)
(* entry, with another key none.                                           *)
LEMMA OpenedIsAllOrNothing ==
    ASSUME NEW p, NEW sender, NEW id, NEW n \in Nat, NEW outputs \in [1 .. n -> Coins]
    PROVE  OpenedBy(p, Posted(sender, id, outputs).entry) =
               IF \E i \in 1 .. n : outputs[i].owner_pk = pk_of(p)
               THEN {outputs[i] : i \in 1 .. n} ELSE {}
<1> DEFINE e == Posted(sender, id, outputs).entry
           session == session_key_of(sender, id)
           tx == [note_encs |-> [i \in 1 .. n |-> build_note_enc(session, i, outputs[i])],
                  input_nullifier |-> <<"nf", sender, id>>]
           own == \E i \in 1 .. n : outputs[i].owner_pk = pk_of(p)
<1>1. recover_session_key(p, e) = (IF own THEN {session} ELSE {}) /\ e.ciphertext = Wrap(session, tx)
  BY KeyRecovered
<1>2. DOMAIN tx.note_encs = 1 .. n /\ \A i \in 1 .. n : tx.note_encs[i] = Wrap(note_key(session, i), outputs[i])
  BY DEF build_note_enc
<1> HIDE DEF e, session, tx
<1>3. Unwrap(session, e.ciphertext) = {tx}
  BY <1>1, Unwraps
<1>4. scan_entry(p, e) = IF own THEN {tx} ELSE {}
  BY <1>1, <1>3 DEF scan_entry
<1>5. CASE own
  <2>1. ASSUME NEW i \in 1 .. n PROVE NoteAt(p, e, i) = {outputs[i]}
    <3>1. decrypt_note(session, i, tx.note_encs[i]) = {outputs[i]}
      BY <1>2, Unwraps DEF decrypt_note
    <3> QED BY <1>1, <1>4, <1>5, <3>1 DEF NoteAt
  <2>2. UNION {DOMAIN t.note_encs : t \in scan_entry(p, e)} = 1 .. n
    BY <1>2, <1>4, <1>5
  <2>3. OpenedBy(p, e) = {outputs[i] : i \in 1 .. n}
    <3>1. OpenedBy(p, e) = UNION {NoteAt(p, e, i) : i \in 1 .. n}
      BY <2>2 DEF OpenedBy
    <3>2. UNION {NoteAt(p, e, i) : i \in 1 .. n} = {outputs[i] : i \in 1 .. n}
      BY <2>1
    <3> QED BY <3>1, <3>2
  <2> QED BY <1>5, <2>3 DEF e
<1>6. CASE ~own
  <2>1. UNION {DOMAIN t.note_encs : t \in scan_entry(p, e)} = {}
    BY <1>4, <1>6
  <2>2. OpenedBy(p, e) = {}
    BY <2>1 DEF OpenedBy
  <2> QED BY <1>6, <2>2 DEF e
<1> QED BY <1>5, <1>6

(* What scan_entry and decrypt_note give a wallet of a posted entry, and   *)
(* which of it process_slot keeps.                                         *)
LEMMA EntryFacts ==
    ASSUME NEW k \in 1 .. Len(board), IsPosted(board[k]), NEW p
    PROVE  /\ OpenedBy(p, board[k].entry) = IF OwnedIn(p, k) # {} THEN OutputsOf(k) ELSE {}
           /\ OutputsOf(k) \subseteq Coins
<1>1. PICK sender \in Parties, id \in Ids, n \in Nat : \E outputs \in [1 .. n -> Coins] :
          board[k] = Posted(sender, id, outputs)
  BY DEF IsPosted
<1>. PICK outputs \in [1 .. n -> Coins] : board[k] = Posted(sender, id, outputs)
  BY <1>1
<1>2. board[k].outputs = outputs
  BY DEF Posted
<1>3. OutputsOf(k) = {outputs[i] : i \in 1 .. n}
  BY <1>2 DEF OutputsOf
<1>4. OwnedIn(p, k) # {} <=> \E i \in 1 .. n : outputs[i].owner_pk = pk_of(p)
  BY <1>3 DEF OwnedIn
<1>5. OpenedBy(p, board[k].entry) =
          IF \E i \in 1 .. n : outputs[i].owner_pk = pk_of(p) THEN {outputs[i] : i \in 1 .. n} ELSE {}
  <2>1. OpenedBy(p, Posted(sender, id, outputs).entry) =
          IF \E i \in 1 .. n : outputs[i].owner_pk = pk_of(p) THEN {outputs[i] : i \in 1 .. n} ELSE {}
    BY OpenedIsAllOrNothing
  <2>2. board[k].entry = Posted(sender, id, outputs).entry
    OBVIOUS
  <2> QED BY <2>1, <2>2
<1>6. OutputsOf(k) \subseteq Coins
  BY <1>3
<1> QED BY <1>3, <1>4, <1>5, <1>6

(* The key of a posted entry: who recovers it, and that it opens the body. *)
LEMMA PostedKeys ==
    ASSUME NEW k \in 1 .. Len(board), IsPosted(board[k]), NEW p
    PROVE  /\ recover_session_key(p, board[k].entry) =
                  IF OwnedIn(p, k) # {} THEN {session_key_of(board[k].sender, board[k].id)} ELSE {}
           /\ \E tx : board[k].entry.ciphertext = Wrap(session_key_of(board[k].sender, board[k].id), tx)
<1>1. PICK sender \in Parties, id \in Ids, n \in Nat : \E outputs \in [1 .. n -> Coins] :
          board[k] = Posted(sender, id, outputs)
  BY DEF IsPosted
<1>2. PICK outputs \in [1 .. n -> Coins] : board[k] = Posted(sender, id, outputs)
  BY <1>1
<1>3. board[k].sender = sender /\ board[k].id = id /\ board[k].outputs = outputs
  BY <1>2 DEF Posted
<1>4. OwnedIn(p, k) # {} <=> \E i \in 1 .. n : outputs[i].owner_pk = pk_of(p)
  BY <1>3 DEF OwnedIn, OutputsOf
<1> DEFINE e == board[k].entry
           session == session_key_of(sender, id)
           tx == [note_encs |-> [i \in 1 .. n |-> build_note_enc(session, i, outputs[i])],
                  input_nullifier |-> <<"nf", sender, id>>]
<1>5. e = Posted(sender, id, outputs).entry
  BY <1>2
<1> HIDE DEF e
<1>6. /\ recover_session_key(p, e) =
             IF \E i \in 1 .. n : outputs[i].owner_pk = pk_of(p) THEN {session} ELSE {}
      /\ e.ciphertext = Wrap(session, tx)
  BY <1>5, KeyRecovered
<1> HIDE DEF session, tx
<1>7. /\ recover_session_key(p, e) = IF OwnedIn(p, k) # {} THEN {session} ELSE {}
      /\ \E t : e.ciphertext = Wrap(session, t)
  BY <1>4, <1>6
<1> QED BY <1>3, <1>7 DEF e, session

(* The invariant: what is on the board was posted, and the wallets hold    *)
(* what they should of it.                                                 *)
Inv ==
    /\ \E S : board \in Seq(S)
    /\ \A k \in 1 .. Len(board) : IsPosted(board[k])
    /\ scanned \in [Parties -> 0 .. Len(board)]
    /\ found = [p \in Parties |-> found[p]]
    /\ opened = [p \in Parties |-> opened[p]]
    /\ FindsExactlyOwnCoins
    /\ OutsidersReadNothing

(* A new entry leaves what the wallets hold of the old ones.               *)
LEMMA PostStep ==
    ASSUME Inv, NEW p \in Parties, NEW id \in Ids, Post(p, id)
    PROVE  Inv'
<1>0. PICK n \in 1 .. MaxOutputs : \E outputs \in [1 .. n -> Coins] :
          board' = Append(board, Posted(p, id, outputs))
  BY DEF Post
<1>1. PICK outputs \in [1 .. n -> Coins] : board' = Append(board, Posted(p, id, outputs))
  BY <1>0
<1> DEFINE e == Posted(p, id, outputs)
<1>2. UNCHANGED <<scanned, found, opened>>
  BY DEF Post
<1>3. PICK S : board \in Seq(S)
  BY DEF Inv
<1>4. Len(board) \in Nat
  BY <1>3
<1>5. board \in Seq(S \union {e}) /\ e \in S \union {e}
  BY <1>3
<1> HIDE DEF e
<1>6. /\ board' \in Seq(S \union {e})
      /\ Len(board') = Len(board) + 1
      /\ \A k \in 1 .. Len(board) : board'[k] = board[k]
      /\ board'[Len(board) + 1] = e
  BY <1>1, <1>5 DEF e
<1>7. IsPosted(e)
  <2>1. n \in Nat
    BY BoundsAssumption
  <2> QED BY <2>1 DEF IsPosted, e
<1>8. \A k \in 1 .. Len(board') : IsPosted(board'[k])
  <2> SUFFICES ASSUME NEW k \in 1 .. Len(board') PROVE IsPosted(board'[k])
    OBVIOUS
  <2>1. k \in 1 .. Len(board) \/ k = Len(board) + 1
    BY <1>4, <1>6
  <2>2. CASE k \in 1 .. Len(board)
    <3>1. IsPosted(board[k])
      BY <2>2 DEF Inv
    <3> QED BY <1>6, <2>2, <3>1
  <2>3. CASE k = Len(board) + 1
    BY <1>6, <1>7, <2>3
  <2> QED BY <2>1, <2>2, <2>3
<1>9. \A k \in 1 .. Len(board) : OutputsOf(k)' = OutputsOf(k)
  BY <1>6 DEF OutputsOf
<1>10. \A q, k : k \in 1 .. Len(board) => OwnedIn(q, k)' = OwnedIn(q, k)
  BY <1>9 DEF OwnedIn
<1>11. \A q \in Parties : scanned[q] \in 0 .. Len(board)
  BY DEF Inv
<1>12. FindsExactlyOwnCoins'
  <2> SUFFICES ASSUME NEW q \in Parties
               PROVE  found'[q] = UNION {OwnedIn(q, k)' : k \in 1 .. scanned'[q]}
    BY DEF FindsExactlyOwnCoins
  <2>1. found[q] = UNION {OwnedIn(q, k) : k \in 1 .. scanned[q]}
    BY DEF Inv, FindsExactlyOwnCoins
  <2>2. \A k \in 1 .. scanned[q] : OwnedIn(q, k)' = OwnedIn(q, k)
    BY <1>4, <1>10, <1>11
  <2>3. {OwnedIn(q, k)' : k \in 1 .. scanned[q]} = {OwnedIn(q, k) : k \in 1 .. scanned[q]}
    BY <2>2
  <2> QED BY <1>2, <2>1, <2>3
<1>13. OutsidersReadNothing'
  <2> SUFFICES ASSUME NEW q \in Parties, NEW c \in opened[q]
               PROVE  \E k \in 1 .. scanned[q] : OwnedIn(q, k)' # {} /\ c \in OutputsOf(k)'
    BY <1>2 DEF OutsidersReadNothing
  <2>1. PICK k \in 1 .. scanned[q] : OwnedIn(q, k) # {} /\ c \in OutputsOf(k)
    BY DEF Inv, OutsidersReadNothing
  <2>2. k \in 1 .. Len(board)
    BY <1>4, <1>11, <2>1
  <2> QED BY <1>9, <1>10, <2>1, <2>2
<1>14. scanned' \in [Parties -> 0 .. Len(board')]
  BY <1>2, <1>4, <1>6 DEF Inv
<1>15. \E T : board' \in Seq(T)
  BY <1>6
<1>16. found' = [q \in Parties |-> found'[q]] /\ opened' = [q \in Parties |-> opened'[q]]
  BY <1>2 DEF Inv
<1> QED BY <1>8, <1>12, <1>13, <1>14, <1>15, <1>16 DEF Inv

(* A wallet that runs process_slot gains exactly its own coins of that     *)
(* slot.                                                                   *)
LEMMA ProcessStep ==
    ASSUME Inv, NEW p \in Parties, process_slot(p)
    PROVE  Inv'
<1> DEFINE next == scanned[p] + 1
           coins == OpenedBy(p, board[next].entry)
<1>1. /\ scanned[p] < Len(board)
      /\ opened' = [opened EXCEPT ![p] = @ \union coins]
      /\ found' = [found EXCEPT ![p] = @ \union {c \in coins : c.owner_pk = pk_of(p)}]
      /\ scanned' = [scanned EXCEPT ![p] = next]
      /\ board' = board
  BY DEF process_slot
<1>2. PICK S : board \in Seq(S)
  BY DEF Inv
<1>3. Len(board) \in Nat /\ next \in 1 .. Len(board) /\ scanned[p] \in Nat /\ 1 .. next = 1 .. scanned[p] \union {next}
  BY <1>1, <1>2 DEF Inv
<1>4. coins = IF OwnedIn(p, next) # {} THEN OutputsOf(next) ELSE {}
  BY <1>3, EntryFacts DEF Inv
<1>5. {c \in coins : c.owner_pk = pk_of(p)} = OwnedIn(p, next)
  BY <1>4 DEF OwnedIn
<1>6. \A q, k : OwnedIn(q, k)' = OwnedIn(q, k) /\ OutputsOf(k)' = OutputsOf(k)
  BY <1>1 DEF OwnedIn, OutputsOf
<1>7. /\ scanned' \in [Parties -> 0 .. Len(board)]
      /\ scanned'[p] = next /\ \A q \in Parties : q # p => scanned'[q] = scanned[q]
  BY <1>1, <1>3 DEF Inv
<1>8. /\ found' = [q \in Parties |-> found'[q]] /\ opened' = [q \in Parties |-> opened'[q]]
      /\ found'[p] = found[p] \union OwnedIn(p, next)
      /\ opened'[p] = opened[p] \union coins
      /\ \A q \in Parties : q # p => found'[q] = found[q] /\ opened'[q] = opened[q]
  BY <1>1, <1>5 DEF Inv
<1> HIDE DEF next, coins
<1>9. FindsExactlyOwnCoins'
  <2> SUFFICES ASSUME NEW q \in Parties
               PROVE  found'[q] = UNION {OwnedIn(q, k) : k \in 1 .. scanned'[q]}
    BY <1>6 DEF FindsExactlyOwnCoins
  <2>1. found[q] = UNION {OwnedIn(q, k) : k \in 1 .. scanned[q]}
    BY DEF Inv, FindsExactlyOwnCoins
  <2>2. CASE q = p
    <3>1. UNION {OwnedIn(p, k) : k \in 1 .. next}
              = (UNION {OwnedIn(p, k) : k \in 1 .. scanned[p]}) \union OwnedIn(p, next)
      BY <1>3
    <3>2. found'[p] = UNION {OwnedIn(p, k) : k \in 1 .. next}
      BY <1>8, <2>1, <2>2, <3>1
    <3>3. 1 .. scanned'[q] = 1 .. next
      BY <1>7, <2>2
    <3> QED BY <2>2, <3>2, <3>3
  <2>3. CASE q # p
    BY <1>7, <1>8, <2>1, <2>3
  <2> QED BY <2>2, <2>3
<1>10. OutsidersReadNothing'
  <2> SUFFICES ASSUME NEW q \in Parties, NEW c \in opened'[q]
               PROVE  \E k \in 1 .. scanned'[q] : OwnedIn(q, k) # {} /\ c \in OutputsOf(k)
    BY <1>6 DEF OutsidersReadNothing
  <2>1. CASE c \in opened[q]
    <3>1. PICK k \in 1 .. scanned[q] : OwnedIn(q, k) # {} /\ c \in OutputsOf(k)
      BY <2>1 DEF Inv, OutsidersReadNothing
    <3>2. k \in 1 .. scanned'[q]
      BY <1>3, <1>7, <3>1
    <3> QED BY <3>1, <3>2
  <2>2. CASE c \notin opened[q]
    <3>1. q = p /\ c \in coins
      BY <1>8, <2>2
    <3>2. OwnedIn(p, next) # {} /\ c \in OutputsOf(next)
      BY <1>4, <3>1
    <3>3. next \in 1 .. scanned'[q]
      BY <1>3, <1>7, <3>1
    <3> QED BY <3>1, <3>2, <3>3
  <2> QED BY <2>1, <2>2
<1> QED BY <1>1, <1>7, <1>8, <1>9, <1>10 DEF Inv

(* The invariant holds in every reachable state.                           *)
LEMMA InvHolds == Spec => []Inv
<1>1. Init => Inv
  <2> SUFFICES ASSUME Init PROVE Inv
    OBVIOUS
  <2>1. board \in Seq({}) /\ Len(board) = 0
    BY DEF Init
  <2>2. FindsExactlyOwnCoins /\ OutsidersReadNothing
    BY DEF Init, FindsExactlyOwnCoins, OutsidersReadNothing
  <2> QED BY <2>1, <2>2 DEF Init, Inv
<1>2. Inv /\ [Next]_vars => Inv'
  <2>1. ASSUME Inv, UNCHANGED vars PROVE Inv'
    <3>1. board' = board /\ scanned' = scanned /\ found' = found /\ opened' = opened
      BY <2>1 DEF vars
    <3>2. \A p, k : OwnedIn(p, k)' = OwnedIn(p, k) /\ OutputsOf(k)' = OutputsOf(k)
      BY <3>1 DEF OwnedIn, OutputsOf
    <3>3. FindsExactlyOwnCoins' /\ OutsidersReadNothing'
      BY <2>1, <3>1, <3>2 DEF Inv, FindsExactlyOwnCoins, OutsidersReadNothing
    <3> QED BY <2>1, <3>1, <3>3 DEF Inv
  <2> QED BY <2>1, PostStep, ProcessStep DEF Next
<1> QED BY <1>1, <1>2, PTL DEF Spec

(* FindsExactlyOwnCoins: a wallet finds exactly the coins addressed to it  *)
(* in the slots process_slot has seen, at whatever position its wrapped    *)
(* key and its notes come, and with ids and so session keys used twice.    *)
THEOREM WalletsFindTheirCoins == Spec => []FindsExactlyOwnCoins
<1>1. Inv => FindsExactlyOwnCoins
  BY DEF Inv
<1> QED BY <1>1, InvHolds, PTL

(* OutsidersReadNothing: a wallet opens no note of an entry that pays it   *)
(* nothing, whoever sent it and under whatever id.                         *)
THEOREM EntriesAreSealed == Spec => []OutsidersReadNothing
<1>1. Inv => OutsidersReadNothing
  BY DEF Inv
<1> QED BY <1>1, InvHolds, PTL

(* SessionKeyOpensOneId: a session key that recover_session_key returns    *)
(* opens the bodies of its sender's entries under its id and no other,     *)
(* whatever else is on the board.                                          *)
THEOREM KeyOpensOneId == Spec => []SessionKeyOpensOneId
<1>1. Inv => SessionKeyOpensOneId
  <2> SUFFICES ASSUME Inv, NEW p \in Parties, NEW j \in 1 .. scanned[p], NEW k \in 1 .. Len(board)
               PROVE  KeyOpens(p, j, k) <=> /\ OwnedIn(p, j) # {}
                                            /\ board[k].sender = board[j].sender
                                            /\ board[k].id = board[j].id
    BY DEF SessionKeyOpensOneId
  <2>1. j \in 1 .. Len(board)
    <3>1. Len(board) \in Nat /\ scanned[p] \in 0 .. Len(board)
      BY DEF Inv
    <3> QED BY <3>1
  <2> DEFINE Key(i) == session_key_of(board[i].sender, board[i].id)
  <2>2. recover_session_key(p, board[j].entry) = IF OwnedIn(p, j) # {} THEN {Key(j)} ELSE {}
    BY <2>1, PostedKeys DEF Inv
  <2>3. \E tx : board[k].entry.ciphertext = Wrap(Key(k), tx)
    BY PostedKeys DEF Inv
  <2>4. Key(j) = Key(k) <=> board[k].sender = board[j].sender /\ board[k].id = board[j].id
    BY DEF session_key_of
  <2> HIDE DEF Key
  <2>5. \A s : Unwrap(s, board[k].entry.ciphertext) # {} <=> s = Key(k)
    BY <2>3, Unwraps
  <2>6. KeyOpens(p, j, k) <=> \E s \in recover_session_key(p, board[j].entry) : s = Key(k)
    BY <2>5 DEF KeyOpens
  <2> QED BY <2>2, <2>4, <2>6
<1> QED BY <1>1, InvHolds, PTL

(* TypeOK: board, wallets and scanning positions are well typed.           *)
THEOREM TypeCorrect == Spec => []TypeOK
<1>1. Inv => TypeOK
  <2> SUFFICES ASSUME Inv PROVE TypeOK
    OBVIOUS
  <2>1. Len(board) \in Nat
    BY DEF Inv
  <2>2. \A p \in Parties, k \in 1 .. Len(board) : OutputsOf(k) \subseteq Coins /\ OwnedIn(p, k) \subseteq Coins
    BY EntryFacts DEF Inv, OwnedIn
  <2>3. \A p \in Parties : scanned[p] \in 0 .. Len(board)
    BY DEF Inv
  <2>4. ASSUME NEW p \in Parties PROVE found[p] \subseteq Coins /\ opened[p] \subseteq Coins
    <3>1. \A k \in 1 .. scanned[p] : k \in 1 .. Len(board)
      BY <2>1, <2>3
    <3>2. found[p] \subseteq Coins
      BY <2>2, <3>1 DEF Inv, FindsExactlyOwnCoins
    <3>3. opened[p] \subseteq Coins
      BY <2>2, <3>1 DEF Inv, OutsidersReadNothing
    <3> QED BY <3>2, <3>3
  <2>5. found = [p \in Parties |-> found[p]] /\ opened = [p \in Parties |-> opened[p]]
    BY DEF Inv
  <2> QED BY <2>4, <2>5 DEF Inv, TypeOK
<1> QED BY <1>1, InvHolds, PTL
=============================================================================
