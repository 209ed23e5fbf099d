-------------------------- MODULE SolvencyCircuits --------------------------
(***************************************************************************)
(* What each Groth16 verification key embedded in the contract lets a      *)
(* prover claim: one predicate per circuit over its public signals.        *)
(*                                                                         *)
(* Poseidon is taken to be collision resistant and Groth16 to be sound and *)
(* complete, so a root hash determines the one tree that hashes to it, and *)
(* a proof verifies exactly when a witness satisfies the circuit.  Book    *)
(* maps each root to the tree under it; a tree records its depth (the      *)
(* circuits fix it) and its leaves.  Padding leaves of balance 0 are left  *)
(* out of a tree.                                                          *)
(***************************************************************************)
EXTENDS Integers, Sequences, Functions

CONSTANTS
  Book,           \* [root |-> [depth, leaves]]: the tree under each root hash
  Keys,           \* Baby-JubJub public keys, a pair (Ax, Ay) each
  Owners,         \* account commitments of leaves that no key is bound to
  EdDSAMessages,  \* the [key, epoch, balance, nonce] that key's holder signs
  LeafSlots,      \* leaves of the signed and unified circuits (4 in the code)
  BaseDepth,      \* depth of solvency, risk_solvency and inclusion (4)
  SignedDepth,    \* depth of signed_solvency and unified_solvency (2)
  FieldModulus,   \* the BN254 scalar field order r
  BalanceLimit,   \* 2^balanceBits: Num2Bits(64) on every balance
  ReserveLimit,   \* 2^cmpBits: Num2Bits(balanceBits + depth + 1) on reserves
  BpsLimit        \* 2^16: Num2Bits(16) on the basis-point signals

Roots == DOMAIN Book

ASSUME FieldAssumption ==
  /\ FieldModulus \in Nat \ {0}
  /\ BalanceLimit \in 1..FieldModulus
  /\ ReserveLimit \in 1..FieldModulus
  /\ BpsLimit \in 1..FieldModulus

\* A tree has at most 2^4 leaves: that many balances of 64 bits add up to less
\* than 2^68, far below the 254-bit field.
ASSUME TreeAssumption ==
  /\ LeafSlots \in Nat \ {0}
  /\ BaseDepth \in Nat
  /\ SignedDepth \in Nat
  /\ Roots \subseteq 0..(FieldModulus - 1)
  /\ \A r \in Roots :
       /\ Book[r].leaves \in
            Seq([owner : Keys \cup Owners, balance : 0..(FieldModulus - 1), nonce : Nat])
       /\ Len(Book[r].leaves) * BalanceLimit <= FieldModulus
       /\ Book[r].depth = SignedDepth /\ SignedDepth # BaseDepth =>
            /\ Len(Book[r].leaves) = LeafSlots
            /\ \A i \in 1..LeafSlots : Book[r].leaves[i].owner \in Keys

Leaves(root) == Book[root].leaves

Leaf(root, i) == Leaves(root)[i]

\* The sum the tree carries up to its root: field additions, so it wraps.
RootSum(root) ==
  SumFunction([i \in DOMAIN Leaves(root) |-> Leaf(root, i).balance]) % FieldModulus

\* Poseidon(acctCommit, balance): the account commitment and the balance
\* determine it.  acctCommit of a keyed leaf hashes its key and its nonce.
Commitment(leaf) == leaf

----------------------------------------------------------------------------
(***************************************************************************)
(* Fault variants: each is a definition below with one constraint wrong.   *)
(***************************************************************************)
UncheckedBalances(root) == TRUE

UnboundEpochSignatures(s, keys) ==
  \A i \in 1..LeafSlots :
    \E m \in EdDSAMessages :
      /\ m.key = keys[i]
      /\ m.balance = Leaf(s.root, i).balance
      /\ m.nonce = Leaf(s.root, i).nonce

----------------------------------------------------------------------------
\* Num2Bits(balanceBits) on every leaf balance.
BalancesInRange(root) ==
  \A i \in DOMAIN Leaves(root) : Leaf(root, i).balance < BalanceLimit

\* The constraints every solvency circuit shares: the public root is the root
\* of the private leaves, the public total is the sum it carries, and
\* total <= reserves with reserves range-checked.
HealthyTree(s, depth) ==
  /\ s.root \in Roots
  /\ Book[s.root].depth = depth
  /\ s.total <= s.reserves
  /\ s.reserves < ReserveLimit
  /\ BalancesInRange(s.root)
  /\ s.total = RootSum(s.root)

\* EdDSAPoseidonVerifier on Poseidon(epoch, balance_i, nonce_i) under the
\* public key of slot i, which acctCommit_i binds into the leaf.
LeavesSigned(s, keys) ==
  \A i \in 1..LeafSlots :
    [key |-> keys[i], epoch |-> s.epoch,
     balance |-> Leaf(s.root, i).balance, nonce |-> Leaf(s.root, i).nonce] \in EdDSAMessages

KeysBoundToLeaves(s, keys) ==
  \A i \in 1..LeafSlots : Leaf(s.root, i).owner = keys[i]

\* The concentration cap on every leaf and the collateral floor, in basis points.
RiskLimits(s) ==
  /\ s.conc < BpsLimit
  /\ s.coll < BpsLimit
  /\ \A i \in DOMAIN Leaves(s.root) : Leaf(s.root, i).balance * 10000 <= s.conc * s.total
  /\ s.coll * s.total <= s.reserves * 10000

Solvency(s) == HealthyTree(s, BaseDepth)

RiskSolvency(s) == HealthyTree(s, BaseDepth) /\ RiskLimits(s)

SignedSolvency(s, keys) ==
  /\ HealthyTree(s, SignedDepth)
  /\ KeysBoundToLeaves(s, keys)
  /\ LeavesSigned(s, keys)

UnifiedSolvency(s, keys) == SignedSolvency(s, keys) /\ RiskLimits(s)

\* inclusion.circom, the one inclusion key the contract embeds: depth 4 only.
Inclusion(root, commitment) ==
  /\ root \in Roots
  /\ Book[root].depth = BaseDepth
  /\ \E i \in DOMAIN Leaves(root) :
       /\ Commitment(Leaf(root, i)) = commitment
       /\ Leaf(root, i).balance < BalanceLimit

=============================================================================
