--------------------------- MODULE Groth16Adapter ---------------------------
(***************************************************************************)
(* groth16-verifier/src/lib.rs: how a guest verifies a Groth16 spend proof *)
(* with the vendored verifier, which expects a longer verifying key than   *)
(* SP1 ships.  Byte strings are sequences of words of four bytes, and a    *)
(* word is the place it has in the value that was written there, so that a *)
(* read at the wrong offset is seen.  Group elements are names; a pairing  *)
(* is a formal sum of signed terms.                                        *)
(***************************************************************************)
EXTENDS Integers, Sequences, FiniteSets

(* The words of a value, and a number as its one word.                     *)
Words(value, n) == [j \in 1 .. n |-> <<value, j>>]
Number(n) == Words(<<"u32", n>>, 1)

(* bytes[from .. from + len].                                              *)
Slice(bytes, from, len) == SubSeq(bytes, from \div 4 + 1, (from + len) \div 4)

(* The value whose words these are, all of them and in order: none when    *)
(* the read straddles two values.                                          *)
ValueOf(words) == {v \in {words[1][1]} : words = Words(v, Len(words))}
NumberAt(bytes, from) == bytes[from \div 4 + 1][1][2]

-----------------------------------------------------------------------------
(* vk-artifacts/groth16_vk.bin: a key for five public inputs, and four     *)
(* zero bytes after what the parser reads of it.                           *)
NumK == 6

GROTH16_VK_BYTES ==
    Words(<<"alpha">>, 8) \o Words(<<"beta1">>, 8) \o Words(<<"beta2">>, 16)
      \o Words(<<"gamma">>, 16) \o Words(<<"delta1">>, 8) \o Words(<<"delta2">>, 16)
      \o Number(NumK)
      \o Words(<<"k", 0>>, 8) \o Words(<<"k", 1>>, 8) \o Words(<<"k", 2>>, 8)
      \o Words(<<"k", 3>>, 8) \o Words(<<"k", 4>>, 8) \o Words(<<"k", 5>>, 8)
      \o Number(0) \o Number(0)

VK_LEN == 4 * Len(GROTH16_VK_BYTES)
VK_PADDED_LEN == VK_LEN + 128

(* Mutant: the padding starts at the end of the file.                      *)
WholeFileLen == VK_LEN

real_vk_content_len == 288 + 4 + 32 * NumberAt(GROTH16_VK_BYTES, 288) + 4

(* The key as the parser expects it: its content, gamma twice for the      *)
(* commitment key it lacks, zero bytes to the end.                         *)
build_padded_vk ==
    LET gamma == Slice(GROTH16_VK_BYTES, 128, 64)
        filled == Slice(GROTH16_VK_BYTES, 0, real_vk_content_len) \o gamma \o gamma
    IN  filled \o [j \in 1 .. VK_PADDED_LEN \div 4 - Len(filled) |-> Number(0)[1]]

(* load_groth16_verifying_key_from_bytes: nothing when a point straddles   *)
(* two values, because its flag bits or its curve equation panic.          *)
load_verifying_key(bytes) ==
    LET num_k == NumberAt(bytes, 288)
        counted == 292 + 32 * num_k
        offset[i \in 0 .. NumberAt(bytes, counted)] ==
            IF i = 0 THEN counted + 4
            ELSE offset[i - 1] + 4 + 4 * NumberAt(bytes, offset[i - 1])
        end == offset[NumberAt(bytes, counted)]
        K(i) == <<292 + 32 * i, 32>>
        points == {<<0, 32>>, <<32, 32>>, <<64, 64>>, <<128, 64>>, <<192, 32>>, <<224, 64>>}
                    \union {K(i) : i \in 0 .. num_k - 1}
                    \union {<<end, 64>>, <<end + 64, 64>>}
        PointAt(p) == ValueOf(Slice(bytes, p[1], p[2]))
        Point(p) == CHOOSE v \in PointAt(p) : TRUE
    IN  IF \A p \in points : PointAt(p) # {}
        THEN {[alpha |-> Point(<<0, 32>>), beta |-> Point(<<64, 64>>),
               gamma |-> Point(<<128, 64>>), delta |-> Point(<<224, 64>>),
               k |-> [i \in 0 .. num_k - 1 |-> Point(K(i))]]}
        ELSE {}

-----------------------------------------------------------------------------
(* SP1's Groth16 proof of a program run, and its 356 bytes (external).     *)
SpendStatement(vkey, pv_hash, exit_code, vk_root, proof_nonce) ==
    <<vkey, pv_hash, exit_code, vk_root, proof_nonce>>

proof_bytes_of(inputs) ==
    Words(<<"vk hash prefix">>, 1) \o Words(inputs[3], 8) \o Words(inputs[4], 8) \o Words(inputs[5], 8)
      \o Words(<<"ar", inputs>>, 16) \o Words(<<"bs", inputs>>, 32) \o Words(<<"krs", inputs>>, 16)

GNARK_PROOF_OFFSET == 100
GNARK_PROOF_LEN == 256

load_proof(bytes) ==
    {[ar |-> ar, bs |-> bs, krs |-> krs] :
        ar \in ValueOf(Slice(bytes, 0, 64)), bs \in ValueOf(Slice(bytes, 64, 128)),
        krs \in ValueOf(Slice(bytes, 192, 64))}

(* Scalar multiplication: by zero nothing, the point at infinity           *)
(* (substrate-bn's AffineG1 * Fr).  Of the inputs a successful run makes   *)
(* the exit code zero, the others are hashes.                              *)
Zero == <<"exit_code", 0>>
times(point, scalar) == IF scalar = Zero THEN {} ELSE {<<point, scalar>>}

(* The sum k[0] + input 1 * k[1] + ... as the set of its terms.            *)
Combination(k, inputs) ==
    <<"vk_x", {<<k[0]>>} \union UNION {times(k[i], inputs[i]) : i \in DOMAIN inputs}>>

prepare_inputs(vk, inputs) ==
    IF Len(inputs) + 1 = Cardinality(DOMAIN vk.k) THEN {Combination(vk.k, inputs)} ELSE {}

(* A pairing as a formal sum.  What makes a proof a proof of its inputs is *)
(* that e(ar, bs) = e(alpha, beta) + e(vk_x, gamma) + e(krs, delta) for    *)
(* the genuine key.                                                        *)
pairing(g1, sign, g2) ==
    IF g1[1] = "ar" /\ g2 = <<"bs", g1[2]>>
    THEN {<<sign, <<"alpha">>, <<"beta2">> >>,
          <<sign, Combination([i \in 0 .. NumK - 1 |-> <<"k", i>>], g1[2]), <<"gamma">> >>,
          <<sign, <<"krs", g1[2]>>, <<"delta2">> >>}
    ELSE {<<sign, g1, g2>>}

pairing_batch(terms) ==
    LET sum == UNION {pairing(t[1], t[2], t[3]) : t \in terms}
    IN  {t \in sum : <<-t[1], t[2], t[3]>> \notin sum}

(* Mutant: beta negated and gamma not.                                     *)
VerifyWithOldSigns(vk, proof, prepared) ==
    pairing_batch({<<proof.ar, 1, proof.bs>>, <<prepared, 1, vk.gamma>>, <<proof.krs, -1, vk.delta>>})
      = pairing(vk.alpha, -1, vk.beta)

verify_groth16(vk, proof, prepared) ==
    pairing_batch({<<proof.ar, 1, proof.bs>>, <<prepared, -1, vk.gamma>>, <<proof.krs, -1, vk.delta>>})
      = pairing(vk.alpha, 1, vk.beta)

(* vk.bytes32(): "0x" and 64 digits; String::new() in --execute.           *)
HashString(vkey) == [digits |-> 64, value |-> vkey]
NoString == [digits |-> 0, value |-> <<>>]

decode_hex32(s) == IF s.digits = 64 THEN {s.value} ELSE {}

(* Ok, an Err that is returned, or a panic (the verifier unwraps what it   *)
(* loads).                                                                 *)
verify_sp1_spend_proof(proof_bytes, pv_hash, vkey_hash) ==
    LET gnark == Slice(proof_bytes, GNARK_PROOF_OFFSET, GNARK_PROOF_LEN)
        field(from) == CHOOSE v \in ValueOf(Slice(proof_bytes, from, 32)) : TRUE
        inputs == {SpendStatement(vkey, pv_hash, field(4), field(36), field(68)) :
                      vkey \in decode_hex32(vkey_hash)}
        vks == load_verifying_key(build_padded_vk)
        proofs == load_proof(gnark)
        accepted == \E vk \in vks, proof \in proofs, i \in inputs :
                        \E x \in prepare_inputs(vk, i) : verify_groth16(vk, proof, x)
    IN  IF 4 * Len(proof_bytes) < GNARK_PROOF_OFFSET + GNARK_PROOF_LEN \/ inputs = {} THEN "Err"
        ELSE IF vks = {} \/ proofs = {} THEN "panic"
        ELSE IF accepted THEN "Ok" ELSE "Err"
=============================================================================
