------------------------------- MODULE Guests -------------------------------
(***************************************************************************)
(* The guest programs (program-spend, program-coinproof, program-vfy-g16), *)
(* the relations of lib/src/lib.rs they run, the stdin builders of         *)
(* script/src/bin/main.rs, and what it means to prove a guest.  A guest    *)
(* reads its stdin item by item; a guest that panics halts with exit code  *)
(* 1 and can be proved all the same.  An Option is a set of at most one;   *)
(* Result is the same, Err being the empty set.                            *)
(***************************************************************************)
EXTENDS BoardPaths, IndexedTree, NoteCipher, Groth16Adapter, FiniteSetsExt

CONSTANTS
    GENESIS_SK,
    NullifierOf,     \* H(coin_commitment || sk), as the numbers they compare as
    ValueModulus     \* 2^64

ASSUME NullifierAssumption ==
    /\ \A c \in DOMAIN NullifierOf : NullifierOf[c] \in Nullifiers
    /\ \A c, d \in DOMAIN NullifierOf : NullifierOf[c] = NullifierOf[d] => c = d

Vkey(elf) == <<"vkey", elf>>
commitment(coin) == <<"cn", coin>>
commitments(coins) == [i \in DOMAIN coins |-> commitment(coins[i])]
nullifier(cn, sk) == NullifierOf[<<cn, sk>>]

(* What coins are worth, and the sum the relation computes of it.          *)
values(coins) == [i \in DOMAIN coins |-> coins[i].value]
IntegerTotal(vs) == MapThenSumSet(LAMBDA i : vs[i], DOMAIN vs)
total(coins) == IntegerTotal(values(coins)) % ValueModulus

(* bincode: encoded public values are one chunk of a byte stream, and      *)
(* decoding reads the first chunk.                                         *)
encode(pv) == << <<"encoded", pv>> >>
decode(bytes) == {b[2] : b \in {bytes[i] : i \in DOMAIN bytes \intersect {1}}}

(* SHA-256 with its top three bits cleared, as proof and verifier have it. *)
hash_of(bytes) == <<"sha256", bytes>>

-----------------------------------------------------------------------------
check_spend(vkey, coin_proof_vkey, sk_p, pk_p, cn, position, path, tx, inputs, outputs, is_genesis, coin_proof, witness, nullifier_root) ==
    LET own_nullifier == nullifier(cn, sk_p)
    IN  IF /\ pk_of(sk_p) = pk_p
           /\ tx.input_nullifier = own_nullifier
           /\ verify_nonmembership(nullifier_root, own_nullifier, witness)
           /\ tx.input_commitments = commitments(inputs)
           /\ \A i \in DOMAIN inputs : inputs[i].owner_pk = pk_p
           /\ \E i \in DOMAIN inputs : tx.input_commitments[i] = cn
           /\ tx.output_commitments = commitments(outputs)
           /\ total(inputs) = total(outputs)
           /\ IF is_genesis THEN pk_p = pk_of(GENESIS_SK)
              ELSE \E cp \in coin_proof : /\ cp.vkey = coin_proof_vkey
                                          /\ cp.owner_pk = pk_p
                                          /\ cp.coin_commitment = cn
        THEN {[vkey |-> vkey,
               board_root |-> compute_root_from_path(ZeroLeaf, position, path),
               output_commitments |-> tx.output_commitments,
               nullifier_root |-> nullifier_root]}
        ELSE {}

(* The receipt, with the spend proof the guest has yet to see validated:   *)
(* none for an entry without one or with one of --execute.                 *)
check_coin_receipt(vkey, owner_sk, coin_commitment, entry_k, received_slot, path, witness, nullifier_root) ==
    {[pv |-> [vkey |-> vkey, owner_pk |-> pk_of(owner_sk), coin_commitment |-> coin_commitment,
              board_root |-> compute_root_from_path(merkle_leaf(received_slot, entry_k),
                                                    received_slot, path),
              received_at |-> received_slot],
      receipt |-> {pkg.pv_encode : pkg \in {p \in tx.spend_proof : p.proof_bytes # <<>>}}] :
        tx \in {t \in scan_entry(owner_sk, entry_k) :
                  /\ verify_nonmembership(nullifier_root, entry_k.nullifier, witness)
                  /\ \E i \in DOMAIN t.output_commitments : t.output_commitments[i] = coin_commitment
                  /\ \A pkg \in t.spend_proof : \E pv \in decode(pkg.pv_encode) :
                        \E i \in DOMAIN pv.output_commitments : pv.output_commitments[i] = coin_commitment}}

-----------------------------------------------------------------------------
(* What a guest's run leaves: the exit code, the public values, and the    *)
(* deferred proofs it asked to be verified.                                *)
Committed(bytes, verifies) == [exit_code |-> 0, output |-> bytes, verifies |-> verifies]
Halted(bytes) == [exit_code |-> 1, output |-> bytes, verifies |-> {}]

(* Mutant: the public values are committed before the relation is checked. *)
SpendCommittingFirst(items) ==
    LET is_genesis == items[11]
        coin_proof == IF is_genesis THEN {} ELSE {items[12]}
        rest == IF is_genesis THEN 12 ELSE 13
        committed == [vkey |-> items[1],
                      board_root |-> compute_root_from_path(ZeroLeaf, items[6], items[7]),
                      output_commitments |-> items[8].output_commitments,
                      nullifier_root |-> items[rest + 1]]
    IN  IF check_spend(items[1], items[2], items[3], items[4], items[5], items[6], items[7],
                       items[8], items[9], items[10], is_genesis, coin_proof,
                       items[rest], items[rest + 1]) = {} THEN Halted(encode(committed))
        ELSE Committed(encode(committed), {[vkey |-> items[2], bytes |-> encode(cp)] : cp \in coin_proof})

program_spend(items) ==
    LET is_genesis == items[11]
        coin_proof == IF is_genesis THEN {} ELSE {items[12]}
        rest == IF is_genesis THEN 12 ELSE 13
        checked == check_spend(items[1], items[2], items[3], items[4], items[5], items[6], items[7],
                               items[8], items[9], items[10], is_genesis, coin_proof,
                               items[rest], items[rest + 1])
    IN  IF checked = {} THEN Halted(<<>>)
        ELSE Committed(encode(CHOOSE pv \in checked : TRUE),
                       {[vkey |-> items[2], bytes |-> encode(cp)] : cp \in coin_proof})

program_coinproof(items) ==
    LET checked == check_coin_receipt(items[1], items[3], items[4], items[5], items[6], items[7],
                                      items[8], items[9])
        holds == CHOOSE c \in checked : TRUE
    IN  IF checked = {} THEN Halted(<<>>)
        ELSE Committed(encode(holds.pv), {[vkey |-> items[2], bytes |-> b] : b \in holds.receipt})

(* On a failure that is returned, the inputs are dumped; the panic hook    *)
(* commits its message on top.                                             *)
program_vfy_g16(items) ==
    LET verdict == IF items[1] = <<>> THEN "Ok"
                   ELSE verify_sp1_spend_proof(proof_bytes_of(items[1]), hash_of(items[2]), items[3])
    IN  CASE verdict = "Ok"    -> Committed(items[2], {})
          [] verdict = "Err"   -> Halted(<< <<"dump", items>>, <<"message">> >>)
          [] verdict = "panic" -> Halted(<< <<"message">> >>)

execute(elf, stdin) ==
    CASE elf = "spend"     -> program_spend(stdin.items)
      [] elf = "coinproof" -> program_coinproof(stdin.items)
      [] elf = "vfy-g16"   -> program_vfy_g16(stdin.items)

(* verify_sp1_proof of a proof written to stdin: of that program, of those *)
(* public values, and of a run that did not halt.                          *)
DeferredHolds(v, proofs) ==
    \E p \in proofs : Vkey(p.elf) = v.vkey /\ p.public_values = v.bytes /\ p.exit_code = 0

(* client.prove: none when a deferred proof does not verify, otherwise a   *)
(* proof of the run, whatever its exit code.                               *)
prove(elf, stdin) ==
    {[elf |-> elf, exit_code |-> run.exit_code, public_values |-> run.output] :
        run \in {r \in {execute(elf, stdin)} : \A v \in r.verifies : DeferredHolds(v, stdin.proofs)}}

(* proof.bytes() of a Groth16 proof goes by the statement it proves; what  *)
(* the bytes are, Groth16Adapter spells out.                               *)
bytes(proof) ==
    SpendStatement(Vkey(proof.elf), hash_of(proof.public_values), <<"exit_code", proof.exit_code>>,
                   <<"vk_root">>, <<"proof_nonce">>)

-----------------------------------------------------------------------------
build_vfy_g16_stdin(pkg) ==
    [items |-> <<pkg.proof_bytes, pkg.pv_encode, pkg.spend_vkey_hash>>, proofs |-> {}]

build_coinproof_stdin(owner_sk, coin_commitment, entry_k, received_slot, append_path, witness, nullifier_root) ==
    [items |-> <<Vkey("coinproof"), Vkey("vfy-g16"), owner_sk, coin_commitment, entry_k, received_slot,
                 append_path, witness, nullifier_root>>,
     proofs |-> {}]

build_spend_stdin(sk, cn, position, path, tx, inputs, outputs, coin_proof, witness, nullifier_root) ==
    [items |-> <<Vkey("spend"), Vkey("coinproof"), sk, pk_of(sk), cn,
                 position, path, tx, inputs, outputs, coin_proof = {}>>
               \o (IF coin_proof = {} THEN <<>> ELSE <<CHOOSE cp \in coin_proof : TRUE>>)
               \o <<witness, nullifier_root>>,
     proofs |-> {}]

write_proof(stdin, proof) == [stdin EXCEPT !.proofs = @ \union {proof}]
=============================================================================
