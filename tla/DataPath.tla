------------------------------ MODULE DataPath ------------------------------
(***************************************************************************)
(* One book on its way from the page to the contract's storage and back to *)
(* its members: the page builds the Merkle-sum tree and the circuit input  *)
(* (merkle.ts), snarkjs computes the witness and the proof (prover.ts),    *)
(* the page writes both as bytes (convert.ts), and the contract reads the  *)
(* bytes, checks them and stores what they say (lib.rs, groth16.rs).       *)
(*                                                                         *)
(* Whoever submits the call may have changed one signal word, dropped or   *)
(* added one, or called another entrypoint.  What the contract's state     *)
(* adds (seen roots, epochs, live balances) is TesseraLedger's subject.    *)
(***************************************************************************)
EXTENDS MerkleSumCircuits, WireFormat

CONSTANTS
  Books,            \* the sequences of balances entered in the page
  Treasuries,       \* the reserve figures entered in the page
  ConcBounds,       \* the bounds maxConcBps a risk proof is made for
  CollBounds,       \* the bounds minCollBps
  KeyLists,         \* the keys of the leaves of a per-key proof
  Claims,           \* the balances a member enters
  VerifyingKey,     \* [circuit |-> verification key]
  RandomA, RandomB, \* what the prover draws for A and B
  RootValue,        \* the field element the book's root hashes to
  LeafValue,        \* the field element the first leaf hashes to
  MaxConcBps,       \* policy of submit_risk_attestation (4000)
  MinCollBps,       \* policy of submit_risk_attestation (10500)
  HolderBalance,    \* the reserve holder's live balance
  None

Circuits == {"solvency", "risk_solvency", "inclusion"}
NPublic == [solvency |-> 3, risk_solvency |-> 5, inclusion |-> 2]

\* What is entered are BigInts; the bounds and the hashes are field elements.
ASSUME PageAssumption ==
  /\ Books \subseteq Seq(Int) /\ Treasuries \subseteq Int /\ Claims \subseteq Int
  /\ ConcBounds \subseteq Field /\ CollBounds \subseteq Field
  /\ RootValue \in Field /\ \A idx \in 0..(NLeaves - 1) : LeafValue + idx \in Field

\* A bound of 16 bits fits a u32, reserves of 69 bits a positive i128, and basis
\* points are a ten-thousandth or coarser.  A live balance is an i128.
ASSUME UnitsAssumption ==
  /\ Pow(2, BpsBits) <= Pow(Radix, U32Len)
  /\ 2 * Pow(2, CmpBits) <= Pow(Radix, HalfLen)
  /\ BpsUnit * (10000 \div BpsUnit) = 10000
  /\ HolderBalance \in Int

\* A verification key has a point for each public signal and one more; those of
\* the signals are distinct and none is the identity, nor are gamma and delta.
ASSUME KeyAssumption ==
  /\ RandomA \in Field /\ RandomB \in Field
  /\ \A c \in Circuits :
       LET vk == VerifyingKey[c]
       IN /\ vk.alpha \in Field /\ vk.beta \in Field /\ vk.gamma \in Field
          /\ vk.ic \in Seq(Field) /\ Len(vk.ic) = NPublic[c] + 1
          /\ vk.delta \in Field /\ \E inverse \in Field : Reduce(vk.delta * inverse) = 1
          /\ vk.gamma # 0
          /\ \A i, j \in 2..Len(vk.ic) : vk.ic[i] # 0 /\ (i # j => vk.ic[i] # vk.ic[j])

VARIABLES
  page,     \* the book in the page: balances and treasury
  proof,    \* the proof made last: circuit, request, public signals; or a failure
  sent,     \* the call made last: entrypoint, words, answer
  latest    \* what the contract stored

vars == <<page, proof, sent, latest>>

----------------------------------------------------------------------------
(***************************************************************************)
(* The page: merkle.ts.                                                    *)
(***************************************************************************)

\* run converts a negative entry to the field before it builds the tree.
ProveBalance(b) == IF b < 0 THEN FieldModulus + b ELSE b

PadBook(balances) ==
  [i \in 1..NLeaves |-> IF i \in DOMAIN balances THEN ProveBalance(balances[i]) ELSE 0]

\* acctCommit of slot i: a hash of the account's id and salt.
AcctCommit(i) == <<"acct", i>>

\* BigInt sums are not reduced; Poseidon takes its inputs into the field.
PageParent(l, r) ==
  [hash |-> <<l.hash, Reduce(l.sum), r.hash, Reduce(r.sum)>>, sum |-> l.sum + r.sum]

\* levels[0] are the leaves, levels[Depth] the root alone.
BuildTree(balances) ==
  LET padded == PadBook(balances)
      levels[d \in 0..Depth] ==
        IF d = 0
        THEN [i \in 1..NLeaves |-> [hash |-> LeafHash(AcctCommit(i), Reduce(padded[i])),
                                    sum |-> padded[i]]]
        ELSE [i \in 1..Pow(2, Depth - d) |->
                PageParent(levels[d - 1][2*i - 1], levels[d - 1][2*i])]
  IN levels

\* The sibling of node j, counted from 0.
Sibling(j) == IF j % 2 = 1 THEN j - 1 ELSE j + 1

\* The circuit takes every input of the page into its field.
Node(n) == [hash |-> n.hash, sum |-> Reduce(n.sum)]

SolvencyInput(balances, reserves) ==
  LET levels == BuildTree(balances)
      padded == PadBook(balances)
  IN [rootHash |-> levels[Depth][1].hash,
      total |-> Reduce(levels[Depth][1].sum),
      reserves |-> Reduce(reserves),
      balances |-> [i \in 1..NLeaves |-> Reduce(padded[i])],
      acctCommit |-> [i \in 1..NLeaves |-> AcctCommit(i)]]

RiskInput(balances, reserves, conc, coll) ==
  LET w == SolvencyInput(balances, reserves)
  IN [rootHash |-> w.rootHash, total |-> w.total, reserves |-> w.reserves,
      balances |-> w.balances, acctCommit |-> w.acctCommit,
      maxConcBps |-> conc, minCollBps |-> coll]

\* The same book with the account commitments made of the keys.
KeyedRiskInput(balances, reserves, keys, conc, coll) ==
  LET r == RiskInput(balances, reserves, conc, coll)
      nonces == [i \in 1..NLeaves |-> i]
      acct == [i \in 1..NLeaves |-> <<keys[i], nonces[i]>>]
      root == MerkleSumRoot(MerkleLeaves([acctCommit |-> acct, balances |-> r.balances]))
  IN [rootHash |-> root.hash, total |-> r.total, reserves |-> r.reserves,
      balances |-> r.balances, acctCommit |-> acct, keys |-> keys, nonces |-> nonces,
      maxConcBps |-> conc, minCollBps |-> coll]

\* The co-path of account idx, counted from 0, and the balance its holder enters.
InclusionInput(balances, idx, claimed) ==
  LET levels == BuildTree(balances)
      j(d) == idx \div Pow(2, d - 1)
  IN [rootHash |-> levels[Depth][1].hash,
      leafCommitment |-> levels[0][idx + 1].hash,
      balance |-> Reduce(claimed),
      acctCommit |-> AcctCommit(idx + 1),
      siblings |-> [d \in 1..Depth |-> Node(levels[d - 1][Sibling(j(d)) + 1])],
      pathIndex |-> [d \in 1..Depth |-> j(d) % 2]]

----------------------------------------------------------------------------
(***************************************************************************)
(* Actions of the page.                                                    *)
(***************************************************************************)
Init == page = None /\ proof = None /\ sent = None /\ latest = None

\* A book longer than the tree makes padBook throw: no tree, nothing to prove.
Enter(balances, treasury) ==
  /\ page = None
  /\ Len(balances) <= NLeaves
  /\ page' = [balances |-> balances, treasury |-> treasury]
  /\ UNCHANGED <<proof, sent, latest>>

\* A proof depends on the page and the request alone, so a behaviour makes one
\* before its book is attested and one after.
MayProve == page # None /\ (proof = None \/ (sent # None /\ sent.answer = "stored"))

\* groth16.fullProve: an unsatisfiable constraint throws a WitnessError.
FullProve(circuit, request, satisfied, signals) ==
  /\ proof' = [circuit |-> circuit, request |-> request, proved |-> satisfied,
               signals |-> IF satisfied THEN signals ELSE <<>>]
  /\ sent' = None
  /\ UNCHANGED <<page, latest>>

ProveSolvency ==
  /\ MayProve /\ latest = None
  /\ LET w == SolvencyInput(page.balances, page.treasury)
     IN FullProve("solvency", <<>>, SolvencyConstraints(w),
                  <<RootValue, w.total, w.reserves>>)

ProveRisk(conc, coll) ==
  /\ MayProve /\ latest = None
  /\ LET w == RiskInput(page.balances, page.treasury, conc, coll)
     IN FullProve("risk_solvency", <<conc, coll>>, RiskSolvencyConstraints(w),
                  <<RootValue, w.total, w.reserves, w.maxConcBps, w.minCollBps>>)

\* scripts/gen_keyed_risk_r1.js: the per-key circuit.  No entrypoint takes its
\* proof.
ProveKeyedRisk(keys, conc, coll) ==
  /\ MayProve /\ latest = None
  /\ LET w == KeyedRiskInput(page.balances, page.treasury, keys, conc, coll)
     IN FullProve("keyed_risk_r1", <<keys, conc, coll>>, KeyedRiskR1Constraints(w), <<>>)

ProveInclusion(idx, claimed) ==
  /\ MayProve /\ idx < Len(page.balances)
  /\ LET w == InclusionInput(page.balances, idx, claimed)
     IN FullProve("inclusion", <<idx, claimed>>, InclusionConstraints(w),
                  <<RootValue, LeafValue + idx>>)

\* proofToBytes and signalsToBytes.
ProofBytes(p) ==
  ProofToBytes(Groth16Prove(VerifyingKey[p.circuit], p.signals, RandomA, RandomB))
SignalWords(p) == [i \in DOMAIN p.signals |-> FeBytes(p.signals[i])]

\* The words a call may carry for a proof: those of the page, one of them
\* replaced by another encoding or another value, two exchanged, one too few or
\* one too many.
OtherValues(signal) ==
  {v \in {signal + FieldModulus, signal + 1, signal - 1, FieldModulus} : FeBytesFits(v)}

OneReplaced(words, i, signal) == {[words EXCEPT ![i] = FeBytes(v)] : v \in OtherValues(signal)}

FirstExchanged(words, i) == [words EXCEPT ![1] = words[i], ![i] = words[1]]

Resized(words) ==
  {words, Tail(words), SubSeq(words, 1, Len(words) - 1), Append(words, FeBytes(0))}
Replaced(words, signals) == UNION {OneReplaced(words, i, signals[i]) : i \in DOMAIN words}
Exchanged(words) == {FirstExchanged(words, i) : i \in DOMAIN words}

CallWords(p) ==
  Resized(SignalWords(p)) \cup Replaced(SignalWords(p), p.signals) \cup Exchanged(SignalWords(p))

----------------------------------------------------------------------------
(***************************************************************************)
(* The contract.                                                           *)
(***************************************************************************)

\* The length check, assert_canonical_signals, from_bytes, to_fr_vec and verify
\* at the head of every entrypoint that takes a proof.
WellFormed(circuit, words) ==
  /\ Len(words) = NPublic[circuit]
  /\ \A i \in DOMAIN words : IsCanonicalFr(words[i])

ProofVerifies(circuit, raw, words) ==
  \E p \in ProofFromBytes(raw) :
    Groth16Verify(VerifyingKey[circuit], p, [i \in DOMAIN words |-> ToFr(words[i])])

\* The basis-point policy, read from the low digits of the words.
PolicyMet(circuit, words) ==
  circuit = "risk_solvency" =>
    Be32ToU32(words[4]) <= MaxConcBps /\ Be32ToU32(words[5]) >= MinCollBps

\* ge_be(reserves, total), be32_to_i128(reserves) and the reserve binding.
ReservesBacked(words) ==
  /\ GeBe(words[3], words[2])
  /\ Be32ToI128(words[3]) # NoNumber
  /\ Be32ToI128(words[3]) <= HolderBalance

Accepted(circuit, raw, words) ==
  /\ WellFormed(circuit, words)
  /\ ProofVerifies(circuit, raw, words)
  /\ PolicyMet(circuit, words)
  /\ ReservesBacked(words)

\* submit_attestation and submit_risk_attestation: all or nothing.
Submit(circuit, words) ==
  /\ sent = None
  /\ LET stored == Accepted(circuit, ProofBytes(proof), words)
     IN /\ sent' = [circuit |-> circuit, words |-> words,
                    answer |-> IF stored THEN "stored" ELSE "reverted"]
        /\ latest' = IF stored
                     THEN [circuit |-> circuit, root |-> words[1], total |-> words[2],
                           reserves |-> words[3],
                           bounds |-> IF circuit = "risk_solvency"
                                      THEN <<Be32ToU32(words[4]), Be32ToU32(words[5])>>
                                      ELSE <<>>]
                     ELSE latest
  /\ UNCHANGED <<page, proof>>

\* verify_inclusion reverts on malformed words, without an attestation and on a
\* proof whose points do not parse; it is false for another root.
VerifyInclusion(words) ==
  /\ sent = None
  /\ LET raw == ProofBytes(proof)
         answer ==
           IF ~WellFormed("inclusion", words) \/ latest = None THEN "reverted"
           ELSE IF words[1] # latest.root THEN "false"
           ELSE IF ProofFromBytes(raw) = {} THEN "reverted"
           ELSE IF ProofVerifies("inclusion", raw, words) THEN "true" ELSE "false"
     IN sent' = [circuit |-> "inclusion", words |-> words, answer |-> answer]
  /\ UNCHANGED <<page, proof, latest>>

\* What the words of the last proof can be submitted as; nothing without one.
Sendable == IF proof = None \/ proof.signals = <<>> THEN {} ELSE CallWords(proof)

Next ==
  \/ \E b \in Books, t \in Treasuries : Enter(b, t)
  \/ ProveSolvency
  \/ \E conc \in ConcBounds, coll \in CollBounds : ProveRisk(conc, coll)
  \/ \E keys \in KeyLists, conc \in ConcBounds, coll \in CollBounds :
       ProveKeyedRisk(keys, conc, coll)
  \/ \E idx \in 0..(NLeaves - 1), claimed \in Claims : ProveInclusion(idx, claimed)
  \/ \E words \in Sendable :
       \/ Submit("solvency", words)
       \/ Submit("risk_solvency", words)
       \/ VerifyInclusion(words)

Spec == Init /\ [][Next]_vars

----------------------------------------------------------------------------
(***************************************************************************)
(* Properties.                                                             *)
(***************************************************************************)

\* The page takes any BigInt and the circuits take it into the field, so what is
\* proved is proved of the book as the field takes it.
Taken(balances) == [i \in DOMAIN balances |-> Reduce(balances[i])]
TakenBook == Taken(page.balances)
TakenTreasury == Reduce(page.treasury)
Total == SumFunction(TakenBook)

\* The figures the field can tell from every other number the range checks pass:
\* below the modulus, and not so negative that they come round to it again.
FigureRange == (Pow(2, CmpBits) - FieldModulus)..(FieldModulus - 1)

\* The field has taken a figure as another one only if it is out of that range.
TakenAsEntered(entered, taken) == entered \in FigureRange => entered = taken

\* A proof of a statement does not happen to satisfy the pairing equation of another
\* circuit's key, whatever words it is sent with.
OwnKeyOnly(circuit, signals) ==
  LET p == [circuit |-> circuit, signals |-> signals]
  IN \A other \in Circuits \ {circuit}, words \in CallWords(p) :
       ~ProofVerifies(other, ProofBytes(p), words)

KeysApart ==
  /\ \A b \in Books, t \in Treasuries :
       LET w == SolvencyInput(b, t)
       IN Len(b) <= NLeaves /\ SolvencyConstraints(w) =>
            OwnKeyOnly("solvency", <<RootValue, w.total, w.reserves>>)
  /\ \A idx \in 0..(NLeaves - 1) : OwnKeyOnly("inclusion", <<RootValue, LeafValue + idx>>)

Number(word) == DigitsValue(word, 1, WordLen)

Intact == sent.words = SignalWords(proof) /\ sent.circuit = proof.circuit

\* What the page, the calls and the storage hold.
PathTypeOK ==
  /\ page = None \/ (page.balances \in Seq(Int) /\ page.treasury \in Int)
  /\ proof # None =>
       /\ proof.circuit \in Circuits \cup {"keyed_risk_r1"}
       /\ proof.signals \in Seq(Field)
       /\ proof.proved \in BOOLEAN
  /\ sent # None =>
       /\ sent.circuit \in Circuits
       /\ sent.words \in Seq(Words)
       /\ sent.answer \in {"stored", "reverted", "true", "false"}
  /\ latest # None => {latest.root, latest.total, latest.reserves} \subseteq Words

\* The numbers of the book are those of the storage, whatever field, word and
\* integer conversions lie between: an attested book, as the field takes it, has
\* no oversized entry, its integer sum is the stored total and its treasury the
\* stored reserves, which cover it.  No wrapped sum and no alias of a word hides a
\* liability.  An entry of the page is attested as another number only if it is
\* the modulus or more, or so negative that it comes round: a negative entry
\* nearer to zero is not attested at all.
AttestedIsTrueBook ==
  latest # None =>
    /\ \A i \in DOMAIN TakenBook : /\ TakenBook[i] \in 0..(Pow(2, BalanceBits) - 1)
                                  /\ TakenAsEntered(page.balances[i], TakenBook[i])
    /\ TakenAsEntered(page.treasury, TakenTreasury)
    /\ Number(latest.root) = RootValue
    /\ Number(latest.total) = Total
    /\ Number(latest.reserves) = TakenTreasury
    /\ Total <= TakenTreasury

\* An attestation of the risk path meets in integers the bounds it stores, and
\* these meet the contract's policy.
AttestedWithinLimits ==
  latest # None /\ latest.circuit = "risk_solvency" =>
    /\ latest.bounds[1] <= MaxConcBps /\ latest.bounds[2] >= MinCollBps
    /\ \A i \in DOMAIN TakenBook : TakenBook[i] * BpsUnit <= latest.bounds[1] * Total
    /\ latest.bounds[2] * Total <= TakenTreasury * BpsUnit

\* Only the call the proof was made for goes through: a word replaced, even by
\* another encoding of the same value, words exchanged, dropped or added, or
\* another circuit's entrypoint get no "stored" and no "true".
OnlyIntactCallsAccepted ==
  sent # None /\ sent.answer \in {"stored", "true"} => Intact

\* A satisfied circuit is an accepted call: what the page builds, proves and
\* encodes from a sound book is never lost to a different tree, layout or order
\* of signals, unless the policy or the live balance forbids it.
IntactCallsAccepted ==
  sent # None /\ Intact =>
    \/ sent.answer \in {"stored", "true"}
    \/ sent.circuit # "inclusion" /\ TakenTreasury > HolderBalance
    \/ sent.circuit = "risk_solvency" /\ ~PolicyMet("risk_solvency", sent.words)
    \/ sent.circuit = "inclusion" /\ latest = None

\* The abstract circuits over the page's tree: its root and its leaves, with the
\* padding leaves left out as there, and basis points in units of 10000.
Abstract == INSTANCE SolvencyCircuits WITH
  Book <- [r \in {RootValue} |->
             [depth |-> Depth,
              leaves |-> [i \in DOMAIN page.balances |->
                            [owner |-> AcctCommit(i), nonce |-> 0,
                             balance |-> TakenBook[i]]]]],
  Keys <- {}, Owners <- {AcctCommit(i) : i \in 1..NLeaves}, EdDSAMessages <- {},
  LeafSlots <- NLeaves, BaseDepth <- Depth, SignedDepth <- Depth + 1,
  BalanceLimit <- Pow(2, BalanceBits), ReserveLimit <- Pow(2, CmpBits),
  BpsLimit <- Pow(2, BpsBits) * (10000 \div BpsUnit)

AbstractSignals(conc, coll) ==
  LET w == SolvencyInput(page.balances, page.treasury)
  IN [root |-> RootValue, total |-> w.total, reserves |-> w.reserves,
      conc |-> conc * (10000 \div BpsUnit), coll |-> coll * (10000 \div BpsUnit)]

\* The constraint systems, with their wrapping sums and top-bit comparators, are
\* satisfied exactly when SolvencyCircuits says a proof exists: what the ledger
\* model takes for granted of the embedded circuits is what they compute.
CircuitsAsAbstracted ==
  proof # None =>
    /\ proof.circuit = "solvency" =>
         proof.proved = Abstract!Solvency(AbstractSignals(0, 0))
    /\ proof.circuit = "risk_solvency" =>
         proof.proved = Abstract!RiskSolvency(AbstractSignals(proof.request[1], proof.request[2]))

\* The per-key circuit caps what each key holds over all its leaves, in integers,
\* so a book whose holder splits a balance over leaves of one key has no proof.
KeysWithinCap ==
  proof # None /\ proof.circuit = "keyed_risk_r1" /\ proof.proved =>
    LET keys == proof.request[1]
        held(k) == SumFunction([i \in {i \in DOMAIN TakenBook : keys[i] = k} |-> TakenBook[i]])
    IN \A i \in DOMAIN TakenBook : held(keys[i]) * BpsUnit <= proof.request[2] * Total

\* Exactly the true balance of an account folds, over the co-path the page gives
\* its holder, to the root of the book it is in: the balance as the field takes
\* it, and the number entered itself where the field can tell both from others.
OnlyTrueBalanceFolds ==
  proof # None /\ proof.circuit = "inclusion" =>
    LET own == page.balances[proof.request[1] + 1]
        claimed == proof.request[2]
    IN /\ proof.proved <=> /\ Reduce(own) = Reduce(claimed)
                           /\ Reduce(own) \in 0..(Pow(2, BalanceBits) - 1)
       /\ proof.proved /\ {own, claimed} \subseteq FigureRange => own = claimed

=============================================================================
