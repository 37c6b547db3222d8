----------------------------- MODULE NoteCipher -----------------------------
(***************************************************************************)
(* The encryption of lib/src/lib.rs: a transaction under a session key,    *)
(* the session key wrapped once per recipient, and one note per output     *)
(* under a key derived from the session key and the note's index.  Hashes  *)
(* and keystreams are free constructors; X25519 is the agreement of two    *)
(* public keys, computed by the holder of either secret.  What may be      *)
(* absent (Option, or a decryption that fails) is a set of at most one.    *)
(***************************************************************************)
EXTENDS Integers, Sequences

(* derive_pk.                                                              *)
pk_of(sk) == <<"pk", sk>>

(* Mutant: the session key leaves out the transaction id.                  *)
SessionKeyWithoutId(sender_sk, id) == <<"session", sender_sk>>

session_key_of(sender_sk, id) == <<"session", sender_sk, id>>
ek_secret(session_key) == <<"ek", session_key>>

(* Mutant: the wrapping key does not depend on the shared secret.          *)
WrappingKeyUnshared(shared) == <<"wk">>

wrapping_key(shared) == <<"wk", shared>>

diffie_hellman(sk, pk) == {pk_of(sk), pk}

(* XOR with a key's stream: the same key undoes it, and what another key   *)
(* yields has no magic tag, so there is nothing to read.                   *)
Wrap(key, data) == [key |-> key, data |-> data]
Unwrap(key, enc) == IF enc.key = key THEN {enc.data} ELSE {}

note_key(session_key, index) == <<"note", session_key, index>>

build_note_enc(session_key, index, coin) == Wrap(note_key(session_key, index), coin)
decrypt_note(session_key, index, note_enc) == Unwrap(note_key(session_key, index), note_enc)

encrypt_tx(tx, recipient_pks, session_key) ==
    [ciphertext |-> Wrap(session_key, tx),
     nullifier |-> tx.input_nullifier,
     ek_pk |-> pk_of(ek_secret(session_key)),
     key_encs |-> [i \in DOMAIN recipient_pks |->
                      Wrap(wrapping_key(diffie_hellman(ek_secret(session_key), recipient_pks[i])),
                           session_key)]]

(* Mutant: only the first wrapped key is tried.                            *)
RecoverFromFirst(owner_sk, entry) ==
    {s \in Unwrap(wrapping_key(diffie_hellman(owner_sk, entry.ek_pk)), entry.key_encs[1]) :
        Unwrap(s, entry.ciphertext) # {}}

(* The wrapped keys are tried in turn; the ones that open the body are all *)
(* the same key.                                                           *)
recover_session_key(owner_sk, entry) ==
    {s \in UNION {Unwrap(wrapping_key(diffie_hellman(owner_sk, entry.ek_pk)), entry.key_encs[i]) :
                    i \in DOMAIN entry.key_encs} :
        Unwrap(s, entry.ciphertext) # {}}

scan_entry(owner_sk, entry) ==
    UNION {Unwrap(s, entry.ciphertext) : s \in recover_session_key(owner_sk, entry)}

(* What process_slot's loop over the notes of an entry decrypts at index i. *)
NoteAt(owner_sk, entry, i) ==
    UNION {decrypt_note(s, i, tx.note_encs[i]) :
              s \in recover_session_key(owner_sk, entry), tx \in scan_entry(owner_sk, entry)}
=============================================================================
