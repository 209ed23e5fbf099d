----------------------------- MODULE WireFormat -----------------------------
(***************************************************************************)
(* What travels between the page and the contract: public signals as words *)
(* of big-endian digits and a proof as eight coordinates; how each side    *)
(* writes and reads them; and the Groth16 check the contract runs on what  *)
(* it read.                                                                *)
(*                                                                         *)
(* A word has WordLen digits in base Radix (32 bytes in the code).  A      *)
(* point of a group is its discrete logarithm to the generator, so the     *)
(* pairing check is one equation in the scalar field.                      *)
(***************************************************************************)
EXTENDS ScalarField, Sequences, Functions

CONSTANTS
  Radix,          \* values of a digit (256)
  WordLen,        \* digits of a word (32)
  HalfLen,        \* digits of an i128 (16)
  U32Len,         \* digits of a u32 (4)
  NoNumber        \* Option::None of be32_to_i128

ASSUME WordWidthAssumption ==
  /\ Radix \in Nat /\ Radix > 1 /\ Radix % 2 = 0
  /\ WordLen \in Nat /\ HalfLen \in 1..WordLen /\ U32Len \in 1..HalfLen
  /\ FieldModulus < Pow(Radix, WordLen)
  /\ NoNumber \notin Nat

Positions == 1..WordLen
Words == [Positions -> 0..(Radix - 1)]

\* (A fault variant: digits not masked.)
UnmaskedDigits(v) == [i \in Positions |-> v \div Pow(Radix, WordLen - i)]

\* feBytes; it throws on a negative number and on one that needs more digits.
FeBytesFits(v) == v \in 0..(Pow(Radix, WordLen) - 1)
FeBytes(v) == [i \in Positions |-> (v \div Pow(Radix, WordLen - i)) % Radix]

\* The number the digits first..last of a word spell.
DigitsValue(word, first, last) ==
  SumFunction([i \in first..last |-> word[i] * Pow(Radix, last - i)])

\* Bn254Fr::from_bytes: the host reduces the number the word spells.
ToFr(word) == Reduce(DigitsValue(word, 1, WordLen))

----------------------------------------------------------------------------
(***************************************************************************)
(* Fault variants: words taken as they come, an ic point taken one place   *)
(* early.                                                                  *)
(***************************************************************************)
AnyWordIsCanonical(word) == TRUE
IcFromStart(vk, inputs) ==
  Reduce(vk.ic[1] + SumFunction([i \in DOMAIN inputs |-> inputs[i] * vk.ic[i]]))

----------------------------------------------------------------------------
(***************************************************************************)
(* Reading words: lib.rs.                                                  *)
(***************************************************************************)

\* ge_be: the first digit that differs decides, equal words are >=.
GeBe(a, b) ==
  \/ a = b
  \/ \E i \in Positions : a[i] > b[i] /\ \A j \in 1..(i - 1) : a[j] = b[j]

IsCanonicalFr(word) == ~GeBe(word, FeBytes(FieldModulus))

\* be32_to_i128: none unless the upper half and the sign bit are clear.
Be32ToI128(word) ==
  IF \/ \E i \in 1..(WordLen - HalfLen) : word[i] # 0
     \/ word[WordLen - HalfLen + 1] >= Radix \div 2
  THEN NoNumber
  ELSE DigitsValue(word, WordLen - HalfLen + 1, WordLen)

\* be32_to_u32: the low digits, whatever stands above them.
Be32ToU32(word) == DigitsValue(word, WordLen - U32Len + 1, WordLen)

----------------------------------------------------------------------------
(***************************************************************************)
(* Proofs.  The host writes a G1 point as x || y and a G2 point with the   *)
(* imaginary component of each coordinate first.                           *)
(***************************************************************************)
HostG1(k) == <<<<"x", k>>, <<"y", k>>>>
HostG2(k) == <<<<"x.c1", k>>, <<"x.c0", k>>, <<"y.c1", k>>, <<"y.c0", k>>>>

\* g1Bytes and g2Bytes of convert.ts, from the coordinates snarkjs gives.
G1Bytes(k) == <<<<"x", k>>, <<"y", k>>>>
G2Bytes(k) ==
  LET pt == <<<<<<"x.c0", k>>, <<"x.c1", k>>>>, <<<<"y.c0", k>>, <<"y.c1", k>>>>>>
  IN <<pt[1][2], pt[1][1], pt[2][2], pt[2][1]>>

ProofToBytes(proof) == G1Bytes(proof.a) \o G2Bytes(proof.b) \o G1Bytes(proof.c)

\* The proofs the host reads in the bytes: one, or none when a coordinate is not
\* where it belongs (the call then traps).
ProofFromBytes(raw) ==
  {p \in [a : {raw[1][2]}, b : {raw[3][2]}, c : {raw[7][2]}] :
     /\ SubSeq(raw, 1, 2) = HostG1(p.a)
     /\ SubSeq(raw, 3, 6) = HostG2(p.b)
     /\ SubSeq(raw, 7, 8) = HostG1(p.c)}

\* vk_x = IC[0] + sum_i public_i * IC[i + 1]
VkX(vk, inputs) ==
  Reduce(vk.ic[1] + SumFunction([i \in DOMAIN inputs |-> inputs[i] * vk.ic[i + 1]]))

\* e(-A, B) * e(alpha, beta) * e(vk_x, gamma) * e(C, delta) = 1
PairingCheck(vk, proof, vkx) ==
  Reduce(vk.alpha * vk.beta + vkx * vk.gamma + proof.c * vk.delta - proof.a * proof.b) = 0

Groth16Verify(vk, proof, inputs) ==
  /\ Len(inputs) + 1 = Len(vk.ic)
  /\ PairingCheck(vk, proof, VkX(vk, inputs))

\* The proof of an honest prover: whatever randomness it draws for A and B, C is
\* the one point that satisfies the equation of the ceremony for its signals.
Groth16Prove(vk, signals, a, b) ==
  LET vkx == SumFunction([i \in DOMAIN vk.ic |->
                            vk.ic[i] * (IF i = 1 THEN 1 ELSE signals[i - 1])])
  IN [a |-> a, b |-> b,
      c |-> CHOOSE c \in Field :
              Reduce(a * b) = Reduce(vk.alpha * vk.beta + Reduce(vkx) * vk.gamma + c * vk.delta)]

=============================================================================
