-------------------------- MODULE MerkleSumCircuits --------------------------
(***************************************************************************)
(* The constraints of the circom circuits, in the field they are compiled  *)
(* to.  SolvencyCircuits states what a proof claims over the integers;     *)
(* this module has the constraint systems themselves: range checks by bit  *)
(* decomposition, comparators that read the top bit of a difference, sums  *)
(* that wrap, the Merkle-sum fold and the inclusion path.                  *)
(*                                                                         *)
(* Poseidon is collision resistant and its arity is part of it, so a hash  *)
(* is the tuple of its inputs: a pair at a leaf, a quadruple above.        *)
(***************************************************************************)
EXTENDS ScalarField, Sequences, Functions

CONSTANTS
  Depth,          \* depth of the tree (4 in the deployed circuits)
  BalanceBits,    \* width of a balance (64)
  BpsBits,        \* width of a basis-point bound (16)
  BpsUnit         \* basis points in a whole (10000)

NLeaves == Pow(2, Depth)
CmpBits == BalanceBits + Depth + 1
RiskBits == BalanceBits + Depth + BpsBits + 1

ASSUME WidthsAssumption ==
  /\ Depth \in Nat /\ BalanceBits \in Nat /\ BpsBits \in Nat
  /\ BpsUnit \in 1..Pow(2, BpsBits)
  /\ Pow(2, RiskBits + 1) < FieldModulus

FieldSum(f) == Reduce(SumFunction(f))

----------------------------------------------------------------------------
(***************************************************************************)
(* The gadgets of circomlib.                                               *)
(***************************************************************************)

\* Num2Bits(n): the numbers n bits can spell whose value in the field is x.  In
\* a width below that of the field there is at most one.
Num2Bits(n, x) ==
  {v \in {x + k * FieldModulus : k \in 0..(Pow(2, n) \div FieldModulus)} : v < Pow(2, n)}

InBits(n, x) == Num2Bits(n, x) # {}

\* LessThan(n) outputs 1: the top bit of a + 2^n - b, in n + 1 bits, is clear.
LessThan(n, a, b) == \E v \in Num2Bits(n + 1, Reduce(a + Pow(2, n) - b)) : v < Pow(2, n)

LessEqThan(n, a, b) == LessThan(n, a, Reduce(b + 1))

----------------------------------------------------------------------------
(***************************************************************************)
(* The Merkle-sum tree.                                                    *)
(***************************************************************************)
LeafHash(acctCommit, balance) == <<acctCommit, balance>>

MerkleSumParent(l, r) ==
  [hash |-> <<l.hash, l.sum, r.hash, r.sum>>, sum |-> Reduce(l.sum + r.sum)]

MerkleSumLayer(nodes) ==
  [i \in 1..(Len(nodes) \div 2) |-> MerkleSumParent(nodes[2*i - 1], nodes[2*i])]

MerkleSumRoot(leaves) ==
  LET level[d \in 0..Depth] == IF d = Depth THEN leaves ELSE MerkleSumLayer(level[d + 1])
  IN level[0][1]

MerkleLeaves(w) ==
  [i \in 1..NLeaves |-> [hash |-> LeafHash(w.acctCommit[i], w.balances[i]),
                         sum |-> w.balances[i]]]

----------------------------------------------------------------------------
(***************************************************************************)
(* Fault variants: the path's selector inverted, no range check on the     *)
(* balances, a cap relative to the reserves, a comparator too narrow for   *)
(* its operands, an accumulator that stops one leaf early.                 *)
(***************************************************************************)
SelectorInverted(cur, sib, pathIndex) ==
  IF pathIndex = 1 THEN MerkleSumParent(cur, sib) ELSE MerkleSumParent(sib, cur)
UncheckedBalanceBits(w) == TRUE
ConcentrationOfReserves(w, amount) ==
  LessEqThan(RiskBits, Reduce(amount * BpsUnit), Reduce(w.maxConcBps * w.reserves))
CollateralInCmpBits(w) ==
  LessEqThan(CmpBits, Reduce(w.minCollBps * w.total), Reduce(w.reserves * BpsUnit))
LastLeafUncounted(w, i) ==
  FieldSum([j \in {j \in 1..(NLeaves - 1) : w.keys[j] = w.keys[i]} |-> w.balances[j]])

----------------------------------------------------------------------------
\* A level of an inclusion path: pathIndex is boolean and puts the running node
\* on the left (0) or on the right (1) of its sibling.
InclusionLevel(cur, sib, pathIndex) ==
  IF pathIndex = 0 THEN MerkleSumParent(cur, sib) ELSE MerkleSumParent(sib, cur)

InclusionRoot(w) ==
  LET cur[d \in 0..Depth] ==
        IF d = 0 THEN [hash |-> LeafHash(w.acctCommit, w.balance), sum |-> w.balance]
        ELSE InclusionLevel(cur[d - 1], w.siblings[d], w.pathIndex[d])
  IN cur[Depth]

----------------------------------------------------------------------------
(***************************************************************************)
(* The circuits: the constraints on a witness w with values in the field.  *)
(***************************************************************************)
BalanceBitsChecked(w) == \A i \in 1..NLeaves : InBits(BalanceBits, w.balances[i])

SolvencyConstraints(w) ==
  /\ BalanceBitsChecked(w)
  /\ LET root == MerkleSumRoot(MerkleLeaves(w))
     IN root.hash = w.rootHash /\ root.sum = w.total
  /\ InBits(CmpBits, w.reserves)
  /\ LessEqThan(CmpBits, w.total, w.reserves)

Concentrated(w, amount) ==
  LessEqThan(RiskBits, Reduce(amount * BpsUnit), Reduce(w.maxConcBps * w.total))

Collateralized(w) ==
  LessEqThan(RiskBits, Reduce(w.minCollBps * w.total), Reduce(w.reserves * BpsUnit))

RiskSolvencyConstraints(w) ==
  /\ SolvencyConstraints(w)
  /\ InBits(BpsBits, w.maxConcBps)
  /\ InBits(BpsBits, w.minCollBps)
  /\ \A i \in 1..NLeaves : Concentrated(w, w.balances[i])
  /\ Collateralized(w)

\* keySum[i] = sum over j of eq(key_j, key_i) * balances[j].
KeySum(w, i) ==
  FieldSum([j \in {j \in 1..NLeaves : w.keys[j] = w.keys[i]} |-> w.balances[j]])

\* The per-key circuit, which no entrypoint verifies: acctCommit_i hashes the key
\* and the nonce of leaf i.  The signatures are those of LeavesSigned in
\* SolvencyCircuits.
KeyedRiskR1Constraints(w) ==
  /\ \A i \in 1..NLeaves : w.acctCommit[i] = <<w.keys[i], w.nonces[i]>>
  /\ SolvencyConstraints(w)
  /\ InBits(BpsBits, w.maxConcBps)
  /\ InBits(BpsBits, w.minCollBps)
  /\ \A i \in 1..NLeaves : Concentrated(w, KeySum(w, i))
  /\ Collateralized(w)

InclusionConstraints(w) ==
  /\ InBits(BalanceBits, w.balance)
  /\ LeafHash(w.acctCommit, w.balance) = w.leafCommitment
  /\ \A d \in 1..Depth : Reduce(w.pathIndex[d] * (w.pathIndex[d] - 1)) = 0
  /\ InclusionRoot(w).hash = w.rootHash

=============================================================================
