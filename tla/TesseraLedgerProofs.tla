------------------------- MODULE TesseraLedgerProofs -------------------------
(***************************************************************************)
(* Theorems about the contract, for every value of the constants that      *)
(* satisfies the assumptions of SolvencyCircuits and TesseraLedger.        *)
(***************************************************************************)
EXTENDS TesseraLedger, SequenceTheorems, TLAPS

----------------------------------------------------------------------------
(***************************************************************************)
(* Arithmetic of reduced words.                                            *)
(***************************************************************************)

\* Reducing a word leaves a residue below the modulus.
LEMMA ModRange ==
  ASSUME NEW a \in Nat, NEW m \in Nat \ {0}
  PROVE  a % m \in 0..(m - 1)
  OBVIOUS

\* Reducing a canonical word leaves it as it is.
LEMMA ModSmall ==
  ASSUME NEW m \in Nat \ {0}, NEW a \in Nat, a < m
  PROVE  a % m = a
  OBVIOUS

----------------------------------------------------------------------------
(***************************************************************************)
(* What a submission writes.                                               *)
(***************************************************************************)

Topics == {"attested", "signed", "risk", "unified", "multi", "priced"}

\* The words of a submission are naturals, on every path.
LEMMA SignalTypes ==
  /\ \A s \in BaseSignals : s.root \in RootWords /\ s.total \in Nat /\ s.reserves \in Nat
  /\ \A s \in RiskSignals : /\ s.root \in RootWords /\ s.total \in Nat /\ s.reserves \in Nat
                            /\ s.conc \in Nat /\ s.coll \in Nat
  /\ \A s \in SignedSignals : /\ s.root \in RootWords /\ s.total \in Nat /\ s.reserves \in Nat
                              /\ s.epoch \in Nat
  /\ \A s \in UnifiedSignals : /\ s.root \in RootWords /\ s.total \in Nat /\ s.reserves \in Nat
                               /\ s.epoch \in Nat /\ s.conc \in Nat /\ s.coll \in Nat
  BY WordAssumption DEF BaseSignals, RiskSignals, SignedSignals, UnifiedSignals

\* The part of TypeOK a submission rewrites.
HistoryTypeOK ==
  /\ latest \in Attestation \cup {None}
  /\ epoch \in U32
  /\ seenRoots \subseteq Nat
  /\ events \in Seq(Event)

\* Store keeps the entries every path writes well typed.
LEMMA StoreTypes ==
  ASSUME TypeOK,
         NEW s, s.root \in RootWords, s.total \in Nat, s.reserves \in Nat,
         NEW holder \in Accounts, NEW token \in Tokens, NEW bound \in I128,
         NEW strong \in BOOLEAN, NEW topic \in Topics, NEW e \in Nat \cup {None},
         Store(s, holder, token, bound, strong, topic, e)
  PROVE  HistoryTypeOK' /\ latest' # None
  <1> s.root \in Nat
    BY WordAssumption
  <1>1. latest' \in Attestation
    BY DEF Store, TypeOK, Attestation
  <1>2. epoch' \in U32 /\ seenRoots' \subseteq Nat
    BY DEF Store, TypeOK
  <1>3. events' \in Seq(Event)
    <2> DEFINE event == [topic |-> topic, epoch |-> epoch, root |-> s.root, circuit_epoch |-> e]
    <2>1. event \in Event
      BY DEF TypeOK, Event, Topics
    <2>2. events' = Append(events, event)
      BY DEF Store
    <2> HIDE DEF event
    <2> QED BY <2>1, <2>2, AppendProperties DEF TypeOK
  <1> QED BY <1>1, <1>2, <1>3, NoneAssumption DEF HistoryTypeOK

\* The same for the single-holder paths, which store the holder's live balance.
LEMMA StoreHeldTypes ==
  ASSUME TypeOK,
         NEW s, s.root \in RootWords, s.total \in Nat, s.reserves \in Nat,
         NEW strong \in BOOLEAN, NEW topic \in Topics, NEW e \in Nat \cup {None},
         StoreHeld(s, strong, topic, e)
  PROVE  HistoryTypeOK' /\ latest' # None
  <1>1. /\ ReserveHolder \in Accounts /\ ReserveToken \in Tokens
        /\ balance[ReserveHolder][ReserveToken] \in I128
    BY DeploymentAssumption DEF TypeOK
  <1> QED BY <1>1, StoreTypes DEF StoreHeld

----------------------------------------------------------------------------
(***************************************************************************)
(* Type correctness.                                                       *)
(***************************************************************************)

\* The rest of TypeOK.
FamilyTypeOK ==
  /\ riskLatest \in RiskAttestation \cup {None}
  /\ multiLatest \in MultiAttestation \cup {None}
  /\ pricedLatest \in PricedAttestation \cup {None}
  /\ signedEpoch \in U32 \cup {None}
  /\ unifiedEpoch \in U32 \cup {None}

SetupTypeOK ==
  /\ registeredKeys \in Seq(CustomerKey)
  /\ Len(registeredKeys) <= LeafSlots
  /\ registry \in SignedRegistry \cup {None}
  /\ reserveLegs \in Seq(ReserveLeg)
  /\ oracleConfig \in OracleConfig \cup {None}

ChainTypeOK ==
  /\ balance \in [Accounts -> [Tokens -> I128]]
  /\ ledger \in Ledgers
  /\ quotes \in [Reflectors -> [Feeds -> Quote \cup {None}]]

\* TypeOK is the conjunction of these parts, before a step and after it.
LEMMA TypeParts ==
  /\ TypeOK <=> HistoryTypeOK /\ FamilyTypeOK /\ SetupTypeOK /\ ChainTypeOK
  /\ TypeOK' <=> HistoryTypeOK' /\ FamilyTypeOK' /\ SetupTypeOK' /\ ChainTypeOK'
  BY DEF TypeOK, HistoryTypeOK, FamilyTypeOK, SetupTypeOK, ChainTypeOK

\* The chain and the setup keep their types when a step leaves them alone.
LEMMA TypesUnchanged ==
  /\ HistoryTypeOK /\ UNCHANGED attestationVars => HistoryTypeOK'
  /\ FamilyTypeOK /\ UNCHANGED attestationVars => FamilyTypeOK'
  /\ SetupTypeOK /\ UNCHANGED setupVars => SetupTypeOK'
  /\ ChainTypeOK /\ UNCHANGED chainVars => ChainTypeOK'
  BY DEF HistoryTypeOK, FamilyTypeOK, SetupTypeOK, ChainTypeOK,
         attestationVars, setupVars, chainVars

\* The words of a u32 field of the contract, after the cast.
LEMMA U32Cast == \A a \in Nat : a % U32Modulus \in U32
  BY ModRange, WidthAssumption DEF U32

\* A contract that was just deployed is well typed.
LEMMA InitTypes == Init => TypeOK
  <1> SUFFICES ASSUME Init PROVE TypeOK
    OBVIOUS
  <1>1. HistoryTypeOK /\ FamilyTypeOK
    BY WidthAssumption DEF Init, HistoryTypeOK, FamilyTypeOK, U32
  <1>2. SetupTypeOK
    BY TreeAssumption DEF Init, SetupTypeOK
  <1>3. ChainTypeOK
    <2>1. balance \in [Accounts -> [Tokens -> I128]]
      BY ChainAssumption DEF Init
    <2>2. ledger \in Ledgers /\ quotes \in [Reflectors -> [Feeds -> Quote \cup {None}]]
      BY WidthAssumption DEF Init, Ledgers
    <2> QED BY <2>1, <2>2 DEF ChainTypeOK
  <1> QED BY <1>1, <1>2, <1>3, TypeParts

\* Every submission keeps the types and leaves an attestation in Latest, one
\* path at a time.
LEMMA SubmissionTypes ==
  ASSUME TypeOK
  PROVE  /\ \A s \in BaseSignals : SubmitAttestation(s) => TypeOK' /\ latest' # None
         /\ \A s \in SignedSignals, keys \in KeyWords :
              SubmitSignedAttestation(s, keys) => TypeOK' /\ latest' # None
         /\ \A s \in RiskSignals : SubmitRiskAttestation(s) => TypeOK' /\ latest' # None
         /\ \A s \in UnifiedSignals, keys \in KeyWords :
              SubmitUnifiedAttestation(s, keys) => TypeOK' /\ latest' # None
         /\ \A s \in BaseSignals : SubmitMultiAttestation(s) => TypeOK' /\ latest' # None
         /\ \A s \in BaseSignals, legs \in PricedLegLists :
              SubmitPricedAttestation(s, legs) => TypeOK' /\ latest' # None
  <1> USE TypeParts
  <1> /\ FamilyTypeOK /\ SetupTypeOK /\ ChainTypeOK
    OBVIOUS
  <1>1. ASSUME NEW s \in BaseSignals, SubmitAttestation(s) PROVE TypeOK' /\ latest' # None
    <2>1. HistoryTypeOK' /\ latest' # None
      BY <1>1, SignalTypes, StoreHeldTypes DEF SubmitAttestation, Topics
    <2>2. FamilyTypeOK'
      BY <1>1 DEF SubmitAttestation, FamilyTypeOK
    <2> QED BY <1>1, <2>1, <2>2, TypesUnchanged DEF SubmitAttestation
  <1>2. ASSUME NEW s \in SignedSignals, NEW keys \in KeyWords,
               SubmitSignedAttestation(s, keys)
        PROVE  TypeOK' /\ latest' # None
    <2>1. HistoryTypeOK' /\ latest' # None
      BY <1>2, SignalTypes, StoreHeldTypes DEF SubmitSignedAttestation, Topics
    <2>2. FamilyTypeOK'
      BY <1>2, SignalTypes, U32Cast DEF SubmitSignedAttestation, FamilyTypeOK
    <2> QED BY <1>2, <2>1, <2>2, TypesUnchanged DEF SubmitSignedAttestation
  <1>3. ASSUME NEW s \in RiskSignals, SubmitRiskAttestation(s) PROVE TypeOK' /\ latest' # None
    <2>1. HistoryTypeOK' /\ latest' # None
      BY <1>3, SignalTypes, StoreHeldTypes DEF SubmitRiskAttestation, Topics
    <2>2. riskLatest' \in RiskAttestation
      BY <1>3, SignalTypes, U32Cast, DeploymentAssumption, WordAssumption
      DEF SubmitRiskAttestation, RiskAttestation, HistoryTypeOK, ChainTypeOK
    <2>3. FamilyTypeOK'
      BY <1>3, <2>2 DEF SubmitRiskAttestation, FamilyTypeOK
    <2> QED BY <1>3, <2>1, <2>3, TypesUnchanged DEF SubmitRiskAttestation
  <1>4. ASSUME NEW s \in UnifiedSignals, NEW keys \in KeyWords,
               SubmitUnifiedAttestation(s, keys)
        PROVE  TypeOK' /\ latest' # None
    <2>1. HistoryTypeOK' /\ latest' # None
      BY <1>4, SignalTypes, StoreHeldTypes DEF SubmitUnifiedAttestation, Topics
    <2>2. FamilyTypeOK'
      BY <1>4, SignalTypes, U32Cast DEF SubmitUnifiedAttestation, FamilyTypeOK
    <2> QED BY <1>4, <2>1, <2>2, TypesUnchanged DEF SubmitUnifiedAttestation
  <1>5. ASSUME NEW s \in BaseSignals, SubmitMultiAttestation(s) PROVE TypeOK' /\ latest' # None
    <2> DEFINE aggregate == AggregateReserves(reserveLegs)
               first == reserveLegs[1]
    <2>1. /\ aggregate \in I128
          /\ Store(s, first.holder, first.token, aggregate, FALSE, "multi", None)
          /\ multiLatest' = [root |-> s.root, total |-> s.total, reserves |-> s.reserves,
                             bound |-> aggregate, leg_count |-> Len(reserveLegs),
                             ledger |-> ledger, epoch |-> epoch]
      BY <1>5 DEF SubmitMultiAttestation
    <2> HIDE DEF aggregate
    <2>2. first \in ReserveLeg /\ Len(reserveLegs) \in Nat
      BY <1>5 DEF SetupTypeOK, SubmitMultiAttestation
    <2>3. HistoryTypeOK' /\ latest' # None
      BY <2>1, <2>2, SignalTypes, StoreTypes DEF Topics, ReserveLeg
    <2>4. multiLatest' \in MultiAttestation
      BY <2>1, <2>2, SignalTypes, WordAssumption
      DEF MultiAttestation, HistoryTypeOK, ChainTypeOK
    <2>5. FamilyTypeOK'
      BY <1>5, <2>4 DEF SubmitMultiAttestation, FamilyTypeOK
    <2> QED BY <1>5, <2>3, <2>5, TypesUnchanged DEF SubmitMultiAttestation
  <1>6. ASSUME NEW s \in BaseSignals, NEW legs \in PricedLegLists,
               SubmitPricedAttestation(s, legs)
        PROVE  TypeOK' /\ latest' # None
    <2> DEFINE aggregate == PricedReserves(legs)
    <2>1. /\ aggregate \in I128
          /\ Store(s, legs[1].holder, legs[1].token, aggregate, FALSE, "priced", None)
      BY <1>6 DEF SubmitPricedAttestation
    <2>2. PICK oldest \in Ledgers :
            pricedLatest' = [root |-> s.root, total |-> s.total, reserves |-> s.reserves,
                             bound |-> aggregate, leg_count |-> Len(legs),
                             oldest_price_ledger |-> oldest,
                             ledger |-> ledger, epoch |-> epoch]
      BY <1>6 DEF SubmitPricedAttestation
    <2> HIDE DEF aggregate
    <2>3. legs[1] \in PricedLeg /\ Len(legs) \in Nat
      BY <1>6, ChainAssumption DEF SubmitPricedAttestation
    <2>4. HistoryTypeOK' /\ latest' # None
      BY <2>1, <2>3, SignalTypes, StoreTypes DEF Topics, PricedLeg
    <2>5. pricedLatest' \in PricedAttestation
      BY <2>1, <2>2, <2>3, SignalTypes, WordAssumption
      DEF PricedAttestation, HistoryTypeOK, ChainTypeOK
    <2>6. FamilyTypeOK'
      BY <1>6, <2>5 DEF SubmitPricedAttestation, FamilyTypeOK
    <2> QED BY <1>6, <2>4, <2>6, TypesUnchanged DEF SubmitPricedAttestation
  <1> QED BY <1>1, <1>2, <1>3, <1>4, <1>5, <1>6

\* The board a call of register_signed_leaves writes is well typed, and lists
\* one commitment per leaf of the batch.
LEMMA BoardTypes ==
  ASSUME TypeOK, NEW batch \in LeafBatches, RegisterSignedLeaves(batch)
  PROVE  /\ registry' \in SignedRegistry
         /\ Len([i \in DOMAIN batch |-> batch[i].commitment]) = Len(batch)
  <1> DEFINE leaves == [i \in DOMAIN batch |-> batch[i].commitment]
  <1>1. batch \in Seq(SignedLeaf)
    BY ChainAssumption
  <1>2. Len(batch) \in Nat /\ DOMAIN batch = 1..Len(batch)
    BY <1>1, LenProperties
  <1>3. \A i \in 1..Len(batch) : batch[i].commitment \in Commitments
    <2>1. \A i \in 1..Len(batch) : batch[i] \in SignedLeaf
      BY <1>1, ElementOfSeq
    <2> QED BY <2>1 DEF SignedLeaf
  <1>4. leaves \in Seq(Commitments) /\ DOMAIN leaves = 1..Len(batch)
    <2>1. leaves \in [1..Len(batch) -> Commitments]
      BY <1>2, <1>3
    <2> QED BY <1>2, <2>1, SeqDef
  <1>5. Len(leaves) = Len(batch)
    <2>1. Len(leaves) \in Nat /\ DOMAIN leaves = 1..Len(leaves)
      BY <1>4, LenProperties
    <2> HIDE DEF leaves
    <2> QED BY <1>2, <1>4, <2>1
  <1>6. latest.epoch \in U32
    BY DEF RegisterSignedLeaves, TypeOK, Attestation
  <1>7. registry' \in SignedRegistry
    BY <1>2, <1>4, <1>6 DEF RegisterSignedLeaves, SignedRegistry
  <1> QED BY <1>5, <1>7

\* Setup calls and the chain's own steps keep the types.
LEMMA SetupTypes ==
  ASSUME TypeOK
  PROVE  /\ \A legs \in LegLists : SetReserveLegs(legs) => TypeOK'
         /\ \A config \in OracleConfigs : SetOracleConfig(config) => TypeOK'
         /\ \A customer \in Customers, key \in Keys : RegisterCustomerKey(customer, key) => TypeOK'
         /\ \A batch \in LeafBatches : RegisterSignedLeaves(batch) => TypeOK'
         /\ \A a \in Accounts, t \in Tokens, v \in Balances : Transfer(a, t, v) => TypeOK'
         /\ CloseLedger => TypeOK'
         /\ \A r \in Reflectors, f \in Feeds, q \in Quotes : PublishQuote(r, f, q) => TypeOK'
  <1> USE TypeParts
  <1> HistoryTypeOK /\ FamilyTypeOK /\ SetupTypeOK /\ ChainTypeOK
    OBVIOUS
  <1>1. ASSUME NEW legs \in LegLists, SetReserveLegs(legs) PROVE TypeOK'
    <2>1. SetupTypeOK'
      BY <1>1, ChainAssumption DEF SetReserveLegs, SetupTypeOK
    <2> QED BY <1>1, <2>1, TypesUnchanged DEF SetReserveLegs
  <1>2. ASSUME NEW config \in OracleConfigs, SetOracleConfig(config) PROVE TypeOK'
    <2>1. SetupTypeOK'
      BY <1>2, ChainAssumption DEF SetOracleConfig, SetupTypeOK
    <2> QED BY <1>2, <2>1, TypesUnchanged DEF SetOracleConfig
  <1>3. ASSUME NEW customer \in Customers, NEW key \in Keys,
               RegisterCustomerKey(customer, key)
        PROVE  TypeOK'
    <2> DEFINE entry == [customer |-> customer, key |-> key]
    <2>1. entry \in CustomerKey
      BY DEF CustomerKey
    <2>2. registeredKeys' = Append(registeredKeys, entry)
      BY <1>3 DEF RegisterCustomerKey
    <2> HIDE DEF entry
    <2>3. /\ registeredKeys' \in Seq(CustomerKey)
          /\ Len(registeredKeys') = Len(registeredKeys) + 1
      BY <2>1, <2>2, AppendProperties DEF SetupTypeOK
    <2>4. Len(registeredKeys) \in Nat /\ Len(registeredKeys) < LeafSlots
      BY <1>3, LenProperties DEF RegisterCustomerKey, SlotFree, SetupTypeOK
    <2>5. SetupTypeOK'
      BY <1>3, <2>3, <2>4, TreeAssumption DEF RegisterCustomerKey, SetupTypeOK
    <2> QED BY <1>3, <2>5, TypesUnchanged DEF RegisterCustomerKey
  <1>4. ASSUME NEW batch \in LeafBatches, RegisterSignedLeaves(batch) PROVE TypeOK'
    <2>1. registry' \in SignedRegistry
      BY <1>4, BoardTypes
    <2>2. SetupTypeOK'
      BY <1>4, <2>1 DEF RegisterSignedLeaves, SetupTypeOK
    <2> QED BY <1>4, <2>2, TypesUnchanged DEF RegisterSignedLeaves
  <1>5. ASSUME NEW a \in Accounts, NEW t \in Tokens, NEW v \in Balances, Transfer(a, t, v)
        PROVE  TypeOK'
    <2>1. v \in I128
      BY ChainAssumption
    <2>2. ChainTypeOK'
      BY <1>5, <2>1 DEF Transfer, ChainTypeOK
    <2> QED BY <1>5, <2>2, TypesUnchanged DEF Transfer
  <1>6. ASSUME CloseLedger PROVE TypeOK'
    <2>1. ChainTypeOK'
      BY <1>6, WidthAssumption DEF CloseLedger, ChainTypeOK, Ledgers
    <2> QED BY <1>6, <2>1, TypesUnchanged DEF CloseLedger
  <1>7. ASSUME NEW r \in Reflectors, NEW f \in Feeds, NEW q \in Quotes, PublishQuote(r, f, q)
        PROVE  TypeOK'
    <2>1. q \in Quote \cup {None}
      BY ChainAssumption DEF Quotes, Quote
    <2>2. ChainTypeOK'
      BY <1>7, <2>1 DEF PublishQuote, ChainTypeOK
    <2> QED BY <1>7, <2>2, TypesUnchanged DEF PublishQuote
  <1> QED BY <1>1, <1>2, <1>3, <1>4, <1>5, <1>6, <1>7

\* Every step of the contract keeps its types.
LEMMA TypeStep == TypeOK /\ [Next]_vars => TypeOK'
  <1> SUFFICES ASSUME TypeOK, [Next]_vars PROVE TypeOK'
    OBVIOUS
  <1>1. CASE UNCHANGED vars
    BY <1>1 DEF vars, attestationVars, setupVars, chainVars, TypeOK
  <1>2. CASE Next
    BY <1>2, SubmissionTypes, SetupTypes DEF Next
  <1> QED BY <1>1, <1>2

\* TypeOK, for every instance: every storage entry keeps its type on every
\* path, and the customers' list never outgrows the slots of the circuit.
THEOREM TypeCorrectness == Spec => []TypeOK
  BY TypeStep, InitTypes, PTL DEF Spec

----------------------------------------------------------------------------
(***************************************************************************)
(* The published history.                                                  *)
(***************************************************************************)

\* What a family's own entry becomes when an event of some topic is published.
FamilyStep(record, next, root, topic, family) ==
  IF topic = family THEN next.root = root /\ next.epoch = epoch ELSE next = record

\* The effect all submissions share, whichever path made them.
Recorded(root, topic, e) ==
  /\ root \in RootWords /\ root < FieldModulus /\ root \notin seenRoots
  /\ topic \in Topics
  /\ e \in Nat \cup {None}
  /\ topic \in StrongTopics \/ RejectWeakDowngrade
  /\ latest' # None
  /\ latest'.root = root /\ latest'.epoch = epoch
  /\ (latest'.non_omission <=> topic \in StrongTopics)
  /\ seenRoots' = seenRoots \cup {root}
  /\ epoch' = epoch + 1
  /\ events' = Append(events, [topic |-> topic, epoch |-> epoch, root |-> root,
                               circuit_epoch |-> e])
  /\ FamilyStep(riskLatest, riskLatest', root, topic, "risk")
  /\ FamilyStep(multiLatest, multiLatest', root, topic, "multi")
  /\ FamilyStep(pricedLatest, pricedLatest', root, topic, "priced")

\* The root among a submission's canonical words is below the field modulus.
LEMMA CanonicalRoot ==
  \A s \in BaseSignals \cup RiskSignals \cup SignedSignals \cup UnifiedSignals :
    AssertCanonical(s) => s.root < FieldModulus
  BY DEF BaseSignals, RiskSignals, SignedSignals, UnifiedSignals, AssertCanonical

\* Every path records exactly one attestation, under its own topic; the paths
\* without non-omission only after RejectWeakDowngrade.
LEMMA SubmissionsRecorded ==
  ASSUME TypeOK
  PROVE
  /\ \A s \in BaseSignals : SubmitAttestation(s) => Recorded(s.root, "attested", None)
  /\ \A s \in SignedSignals, keys \in KeyWords :
       SubmitSignedAttestation(s, keys) => Recorded(s.root, "signed", s.epoch)
  /\ \A s \in RiskSignals : SubmitRiskAttestation(s) => Recorded(s.root, "risk", None)
  /\ \A s \in UnifiedSignals, keys \in KeyWords :
       SubmitUnifiedAttestation(s, keys) => Recorded(s.root, "unified", s.epoch)
  /\ \A s \in BaseSignals : SubmitMultiAttestation(s) => Recorded(s.root, "multi", None)
  /\ \A s \in BaseSignals, legs \in PricedLegLists :
       SubmitPricedAttestation(s, legs) => Recorded(s.root, "priced", None)
  <1> USE SignalTypes, CanonicalRoot, SubmissionTypes
      DEF Recorded, FamilyStep, Topics, StrongTopics, RejectSeenRoot, Store, StoreHeld
  <1>1. ASSUME NEW s \in BaseSignals, SubmitAttestation(s)
        PROVE  Recorded(s.root, "attested", None)
    BY <1>1 DEF SubmitAttestation
  <1>2. ASSUME NEW s \in SignedSignals, NEW keys \in KeyWords,
               SubmitSignedAttestation(s, keys)
        PROVE  Recorded(s.root, "signed", s.epoch)
    BY <1>2 DEF SubmitSignedAttestation
  <1>3. ASSUME NEW s \in RiskSignals, SubmitRiskAttestation(s)
        PROVE  Recorded(s.root, "risk", None)
    BY <1>3 DEF SubmitRiskAttestation
  <1>4. ASSUME NEW s \in UnifiedSignals, NEW keys \in KeyWords,
               SubmitUnifiedAttestation(s, keys)
        PROVE  Recorded(s.root, "unified", s.epoch)
    BY <1>4 DEF SubmitUnifiedAttestation
  <1>5. ASSUME NEW s \in BaseSignals, SubmitMultiAttestation(s)
        PROVE  Recorded(s.root, "multi", None)
    BY <1>5 DEF SubmitMultiAttestation
  <1>6. ASSUME NEW s \in BaseSignals, NEW legs \in PricedLegLists,
               SubmitPricedAttestation(s, legs)
        PROVE  Recorded(s.root, "priced", None)
    <2>1. latest' # None
      BY <1>6
    <2>2. FamilyStep(pricedLatest, pricedLatest', s.root, "priced", "priced")
      BY <1>6 DEF SubmitPricedAttestation
    <2> QED BY <1>6, <2>1, <2>2 DEF SubmitPricedAttestation
  <1> QED BY <1>1, <1>2, <1>3, <1>4, <1>5, <1>6

Submission ==
  \/ \E s \in BaseSignals : SubmitAttestation(s)
  \/ \E s \in SignedSignals, keys \in KeyWords : SubmitSignedAttestation(s, keys)
  \/ \E s \in RiskSignals : SubmitRiskAttestation(s)
  \/ \E s \in UnifiedSignals, keys \in KeyWords : SubmitUnifiedAttestation(s, keys)
  \/ \E s \in BaseSignals : SubmitMultiAttestation(s)
  \/ \E s \in BaseSignals, legs \in PricedLegLists : SubmitPricedAttestation(s, legs)

\* Only a submission touches what attestations are made of.
LEMMA StepSubmits ==
  ASSUME [Next]_vars
  PROVE  Submission \/ UNCHANGED attestationVars
  <1>1. CASE UNCHANGED vars
    BY <1>1 DEF vars
  <1>2. CASE Next
    <2>1. CASE \E legs \in LegLists : SetReserveLegs(legs)
      BY <2>1 DEF SetReserveLegs
    <2>2. CASE \E config \in OracleConfigs : SetOracleConfig(config)
      BY <2>2 DEF SetOracleConfig
    <2>3. CASE \E customer \in Customers, key \in Keys : RegisterCustomerKey(customer, key)
      BY <2>3 DEF RegisterCustomerKey
    <2>4. CASE \E batch \in LeafBatches : RegisterSignedLeaves(batch)
      BY <2>4 DEF RegisterSignedLeaves
    <2>5. CASE \/ \E a \in Accounts, t \in Tokens, v \in Balances : Transfer(a, t, v)
               \/ CloseLedger
               \/ \E r \in Reflectors, f \in Feeds, q \in Quotes : PublishQuote(r, f, q)
      BY <2>5 DEF Transfer, CloseLedger, PublishQuote
    <2> QED BY <1>2, <2>1, <2>2, <2>3, <2>4, <2>5 DEF Next, Submission
  <1> QED BY <1>1, <1>2

\* Every step either records one attestation or leaves all of them alone.
LEMMA StepRecords ==
  ASSUME TypeOK, [Next]_vars
  PROVE  \/ \E root \in RootWords, topic \in Topics, e \in Nat \cup {None} :
               Recorded(root, topic, e)
         \/ UNCHANGED attestationVars
  <1>1. CASE Submission
    BY <1>1, SubmissionsRecorded DEF Submission, Recorded
  <1> QED BY <1>1, StepSubmits

\* The strengthening that makes both history properties inductive: SeenRoot
\* holds exactly the roots of the events, and those are canonical words.
HistoryInv ==
  /\ seenRoots = {events[i].root : i \in DOMAIN events}
  /\ \A i \in DOMAIN events : events[i].root \in Nat /\ events[i].root < FieldModulus
  /\ \A i, j \in DOMAIN events : i # j => events[i].root # events[j].root
  /\ LatestIsNewest

\* The events after a submission: the old ones and the new one.
Extended(root, topic, e) ==
  /\ Len(events) \in Nat
  /\ DOMAIN events = 1..Len(events)
  /\ Len(events') = Len(events) + 1
  /\ DOMAIN events' = 1..(Len(events) + 1)
  /\ \A i \in 1..Len(events) : events'[i] = events[i]
  /\ events'[Len(events) + 1].topic = topic
  /\ events'[Len(events) + 1].epoch = epoch
  /\ events'[Len(events) + 1].root = root
  /\ events'[Len(events) + 1].circuit_epoch = e

\* Recording an attestation extends the history by one event at its end.
LEMMA RecordedEvents ==
  ASSUME TypeOK, NEW root \in RootWords, NEW topic \in Topics, NEW e \in Nat \cup {None},
         Recorded(root, topic, e)
  PROVE  Extended(root, topic, e)
  <1> DEFINE event == [topic |-> topic, epoch |-> epoch, root |-> root, circuit_epoch |-> e]
  <1>1. event \in Event
    BY WordAssumption DEF TypeOK, Event, Topics
  <1>2. events' = Append(events, event)
    BY DEF Recorded
  <1>3. events \in Seq(Event)
    BY DEF TypeOK
  <1>4. event.topic = topic /\ event.epoch = epoch /\ event.root = root /\ event.circuit_epoch = e
    OBVIOUS
  <1> HIDE DEF event
  <1>5. /\ events' \in Seq(Event)
        /\ Len(events) \in Nat
        /\ Len(events') = Len(events) + 1
        /\ \A i \in 1..Len(events) : events'[i] = events[i]
        /\ events'[Len(events) + 1] = event
    BY <1>1, <1>2, <1>3, AppendProperties, LenProperties
  <1>6. DOMAIN events = 1..Len(events) /\ DOMAIN events' = 1..(Len(events) + 1)
    BY <1>3, <1>5, LenProperties
  <1> QED BY <1>4, <1>5, <1>6 DEF Extended

\* IsNewestOf(next, family) in the state after a step, for a value next of it.
NewestAfter(next, family) ==
  \E i \in DOMAIN events' :
    /\ events'[i].topic = family
    /\ events'[i].root = next.root
    /\ events'[i].epoch = next.epoch
    /\ \A j \in (i + 1)..Len(events') : events'[j].topic # family

\* A family's entry stays its newest event when another family publishes, and
\* a new entry is the newest event of its own family.
LEMMA NewestStep ==
  ASSUME NEW root, NEW topic, NEW e, Extended(root, topic, e),
         NEW record, NEW next, NEW family,
         FamilyStep(record, next, root, topic, family),
         record # None => IsNewestOf(record, family)
  PROVE  next # None => NewestAfter(next, family)
  <1> SUFFICES ASSUME next # None PROVE NewestAfter(next, family)
    OBVIOUS
  <1>1. CASE topic = family
    <2>1. /\ events'[Len(events) + 1].topic = family
          /\ events'[Len(events) + 1].root = next.root
          /\ events'[Len(events) + 1].epoch = next.epoch
      BY <1>1 DEF FamilyStep, Extended
    <2> QED BY <2>1 DEF Extended, NewestAfter
  <1>2. CASE topic # family
    <2>1. next = record /\ IsNewestOf(record, family)
      BY <1>2 DEF FamilyStep
    <2>2. PICK i \in DOMAIN events :
            /\ events[i].topic = family
            /\ events[i].root = record.root
            /\ events[i].epoch = record.epoch
            /\ \A j \in (i + 1)..Len(events) : events[j].topic # family
      BY <2>1 DEF IsNewestOf
    <2>3. i \in DOMAIN events' /\ events'[i] = events[i]
      BY DEF Extended
    <2>4. \A j \in (i + 1)..Len(events') : events'[j].topic # family
      BY <1>2, <2>2 DEF Extended
    <2> QED BY <2>1, <2>2, <2>3, <2>4 DEF NewestAfter
  <1> QED BY <1>1, <1>2

\* Recording an attestation keeps the strengthened invariant.
LEMMA HistoryStep ==
  ASSUME TypeOK, TypeOK', HistoryInv,
         NEW root \in RootWords, NEW topic \in Topics, NEW e \in Nat \cup {None},
         Recorded(root, topic, e)
  PROVE  HistoryInv'
  <1> DEFINE n == Len(events)
  <1>0. Extended(root, topic, e)
    BY RecordedEvents
  <1>1. seenRoots' = {events'[i].root : i \in DOMAIN events'}
    BY <1>0 DEF Extended, Recorded, HistoryInv
  <1>2. \A i \in DOMAIN events' : events'[i].root \in Nat /\ events'[i].root < FieldModulus
    BY <1>0, WordAssumption DEF Extended, Recorded, HistoryInv
  <1>3. \A i, j \in DOMAIN events' : i # j => events'[i].root # events'[j].root
    <2>1. \A i \in 1..n : events'[i].root # root
      BY <1>0 DEF Extended, Recorded, HistoryInv
    <2> QED BY <1>0, <2>1 DEF Extended, HistoryInv
  <1>4. LatestIsNewest'
    <2>1. epoch' = Len(events') /\ \A i \in DOMAIN events' : events'[i].epoch = i - 1
      BY <1>0 DEF Extended, Recorded, HistoryInv, LatestIsNewest
    <2>2. events' # <<>>
      BY <1>0 DEF Extended
    <2>3. /\ latest'.root = LastEvent'.root
          /\ latest'.epoch = LastEvent'.epoch
          /\ latest'.non_omission <=> LastEvent'.topic \in StrongTopics
      BY <1>0 DEF Extended, Recorded, LastEvent
    <2>4. (riskLatest # None => IsNewestOf(riskLatest, "risk"))'
      <3>1. /\ FamilyStep(riskLatest, riskLatest', root, topic, "risk")
            /\ riskLatest # None => IsNewestOf(riskLatest, "risk")
        BY DEF Recorded, HistoryInv, LatestIsNewest
      <3>2. riskLatest' # None => NewestAfter(riskLatest', "risk")
        BY <1>0, <3>1, NewestStep
      <3> QED BY <3>2 DEF NewestAfter, IsNewestOf
    <2>5. (multiLatest # None => IsNewestOf(multiLatest, "multi"))'
      <3>1. /\ FamilyStep(multiLatest, multiLatest', root, topic, "multi")
            /\ multiLatest # None => IsNewestOf(multiLatest, "multi")
        BY DEF Recorded, HistoryInv, LatestIsNewest
      <3>2. multiLatest' # None => NewestAfter(multiLatest', "multi")
        BY <1>0, <3>1, NewestStep
      <3> QED BY <3>2 DEF NewestAfter, IsNewestOf
    <2>6. (pricedLatest # None => IsNewestOf(pricedLatest, "priced"))'
      <3>1. /\ FamilyStep(pricedLatest, pricedLatest', root, topic, "priced")
            /\ pricedLatest # None => IsNewestOf(pricedLatest, "priced")
        BY DEF Recorded, HistoryInv, LatestIsNewest
      <3>2. pricedLatest' # None => NewestAfter(pricedLatest', "priced")
        BY <1>0, <3>1, NewestStep
      <3> QED BY <3>2 DEF NewestAfter, IsNewestOf
    <2>7. latest' # None
      BY DEF Recorded
    <2> QED BY <2>1, <2>2, <2>3, <2>4, <2>5, <2>6, <2>7 DEF LatestIsNewest
  <1> QED BY <1>1, <1>2, <1>3, <1>4 DEF HistoryInv

\* The inductive invariant behind the two theorems below.
LEMMA HistoryInvariance == Spec => []HistoryInv
  <1>1. Init => HistoryInv
    BY DEF Init, HistoryInv, LatestIsNewest
  <1>2. TypeOK /\ TypeOK' /\ HistoryInv /\ [Next]_vars => HistoryInv'
    <2> SUFFICES ASSUME TypeOK, TypeOK', HistoryInv, [Next]_vars PROVE HistoryInv'
      OBVIOUS
    <2>1. CASE UNCHANGED attestationVars
      BY <2>1 DEF attestationVars, HistoryInv, LatestIsNewest, IsNewestOf, LastEvent
    <2>2. CASE \E root \in RootWords, topic \in Topics, e \in Nat \cup {None} :
                 Recorded(root, topic, e)
      BY <2>2, HistoryStep
    <2> QED BY <2>1, <2>2, StepRecords
  <1> QED BY <1>1, <1>2, TypeCorrectness, PTL DEF Spec

\* RootsAttestedOnce, for every instance: a root is attested at most once over
\* the whole life of the contract, across the five paths and whatever the
\* encoding of the field element.
THEOREM NoRootTwice == Spec => []RootsAttestedOnce
  <1>1. HistoryInv => RootsAttestedOnce
    <2> SUFFICES ASSUME HistoryInv, NEW i \in DOMAIN events, NEW j \in DOMAIN events, i # j
                 PROVE  events[i].root % FieldModulus # events[j].root % FieldModulus
      BY DEF RootsAttestedOnce
    <2>1. /\ events[i].root % FieldModulus = events[i].root
          /\ events[j].root % FieldModulus = events[j].root
      BY ModSmall, FieldAssumption DEF HistoryInv
    <2> QED BY <2>1 DEF HistoryInv
  <1> QED BY <1>1, HistoryInvariance, PTL

\* LatestIsNewest, for every instance: the counter, Latest and every family's
\* entry agree with the published history, whichever path wrote last.
THEOREM StorageMatchesHistory == Spec => []LatestIsNewest
  <1>1. HistoryInv => LatestIsNewest
    BY DEF HistoryInv
  <1> QED BY <1>1, HistoryInvariance, PTL

\* NonOmissionLatch, for every instance: no step replaces an attestation with
\* in-circuit non-omission by one without it.
THEOREM NoDowngrade == Spec => NonOmissionLatch
  <1>1. ASSUME TypeOK, [Next]_vars, latest # None, latest.non_omission
        PROVE  latest' # None /\ latest'.non_omission
    <2>1. CASE UNCHANGED attestationVars
      BY <1>1, <2>1 DEF attestationVars
    <2>2. CASE \E root \in RootWords, topic \in Topics, e \in Nat \cup {None} :
                 Recorded(root, topic, e)
      BY <1>1, <2>2 DEF Recorded, RejectWeakDowngrade
    <2> QED BY <1>1, <2>1, <2>2, StepRecords
  <1>2. TypeOK /\ [Next]_vars
          => [latest # None /\ latest.non_omission => latest' # None /\ latest'.non_omission]_vars
    BY <1>1
  <1> QED BY <1>2, TypeCorrectness, PTL DEF Spec, NonOmissionLatch

----------------------------------------------------------------------------
(***************************************************************************)
(* The bulletin board.                                                     *)
(***************************************************************************)

\* A call of register_signed_leaves leaves a board pinned to the epoch Latest
\* has at that moment, which the history knows.
LEMMA BoardWritten ==
  ASSUME TypeOK, HistoryInv, NEW batch \in LeafBatches, RegisterSignedLeaves(batch)
  PROVE  RegistryPinned'
  <1>1. /\ latest # None /\ events' = events
        /\ registry' = [epoch |-> latest.epoch, count |-> Len(batch),
                        leaves |-> [i \in DOMAIN batch |-> batch[i].commitment]]
    BY DEF RegisterSignedLeaves, attestationVars
  <1>2. latest.epoch \in {events[i].epoch : i \in DOMAIN events}
    <2>1. events # <<>> /\ latest.epoch = events[Len(events)].epoch
      BY <1>1 DEF HistoryInv, LatestIsNewest, LastEvent
    <2>2. Len(events) \in DOMAIN events
      BY <2>1, LenProperties, EmptySeq DEF TypeOK
    <2> QED BY <2>1, <2>2
  <1>3. Len(batch) = Len([i \in DOMAIN batch |-> batch[i].commitment])
    BY BoardTypes
  <1>4. ASSUME NEW i \in DOMAIN batch
        PROVE  \E m \in MemberSignatures :
                 /\ m.epoch = latest.epoch
                 /\ m.commitment = batch[i].commitment
                 /\ m.balance >= 0
    BY <1>4 DEF RegisterSignedLeaves, BatchSigned
  <1> QED BY <1>1, <1>2, <1>3, <1>4 DEF RegistryPinned

\* RegistryPinned, for every instance: whatever is attested afterwards, the
\* board lists only leaves signed for its own epoch, and that epoch exists.
THEOREM BoardIsHonest == Spec => []RegistryPinned
  <1>1. Init => RegistryPinned
    BY DEF Init, RegistryPinned
  <1>2. TypeOK /\ TypeOK' /\ HistoryInv /\ RegistryPinned /\ [Next]_vars => RegistryPinned'
    <2> SUFFICES ASSUME TypeOK, TypeOK', HistoryInv, RegistryPinned, [Next]_vars
                 PROVE  RegistryPinned'
      OBVIOUS
    <2>1. CASE \E batch \in LeafBatches : RegisterSignedLeaves(batch)
      BY <2>1, BoardWritten
    <2>2. CASE UNCHANGED registry /\ UNCHANGED attestationVars
      BY <2>2 DEF RegistryPinned, attestationVars
    <2>3. CASE Submission
      <3>1. UNCHANGED registry
        BY <2>3 DEF Submission, SubmitAttestation, SubmitSignedAttestation,
           SubmitRiskAttestation, SubmitUnifiedAttestation, SubmitMultiAttestation,
           SubmitPricedAttestation, setupVars
      <3>2. PICK root \in RootWords, topic \in Topics, e \in Nat \cup {None} :
              Recorded(root, topic, e)
        BY <2>3, SubmissionsRecorded DEF Submission, Recorded
      <3>3. Extended(root, topic, e)
        BY <3>2, RecordedEvents
      <3>4. \A i \in DOMAIN events : i \in DOMAIN events' /\ events'[i] = events[i]
        BY <3>3 DEF Extended
      <3> QED BY <3>1, <3>4 DEF RegistryPinned
    <2>4. CASE UNCHANGED vars
      <3>1. UNCHANGED registry /\ UNCHANGED attestationVars
        BY <2>4 DEF vars, setupVars
      <3> QED BY <2>2, <3>1
    <2>5. CASE \/ \E legs \in LegLists : SetReserveLegs(legs)
               \/ \E config \in OracleConfigs : SetOracleConfig(config)
               \/ \E customer \in Customers, key \in Keys : RegisterCustomerKey(customer, key)
               \/ \E a \in Accounts, t \in Tokens, v \in Balances : Transfer(a, t, v)
               \/ CloseLedger
               \/ \E r \in Reflectors, f \in Feeds, q \in Quotes : PublishQuote(r, f, q)
      <3>1. UNCHANGED registry /\ UNCHANGED attestationVars
        BY <2>5 DEF SetReserveLegs, SetOracleConfig, RegisterCustomerKey, Transfer,
           CloseLedger, PublishQuote, setupVars
      <3> QED BY <2>2, <3>1
    <2> QED BY <2>1, <2>3, <2>4, <2>5 DEF Next, Submission
  <1> QED BY <1>1, <1>2, TypeCorrectness, HistoryInvariance, PTL DEF Spec

----------------------------------------------------------------------------
(***************************************************************************)
(* The contract implements AttestationLog.                                 *)
(***************************************************************************)

\* The log and the head the refinement mapping of Log gives, named.
LogOf(evs) ==
  [i \in DOMAIN evs |-> [root |-> evs[i].root, strong |-> evs[i].topic \in StrongTopics]]

HeadOf(record) ==
  IF record = None THEN None ELSE [root |-> record.root, strong |-> record.non_omission]

\* Appending an event appends its entry to the log.
LEMMA LogAppend ==
  ASSUME NEW root, NEW topic, NEW e, Extended(root, topic, e)
  PROVE  LogOf(events') = Append(LogOf(events), [root |-> root, strong |-> topic \in StrongTopics])
  <1> DEFINE entry == [root |-> root, strong |-> topic \in StrongTopics]
             n == Len(events)
  <1>1. /\ LogOf(events) = [i \in 1..n |-> LogOf(events)[i]]
        /\ \A i \in 1..n : LogOf(events')[i] = LogOf(events)[i]
        /\ LogOf(events')[n + 1] = entry
        /\ DOMAIN LogOf(events') = 1..(n + 1)
    BY DEF LogOf, Extended
  <1> QED BY <1>1 DEF LogOf, Extended

\* A submission publishes its entry in the abstract log.
LEMMA RecordedPublishes ==
  ASSUME TypeOK, TypeOK', HistoryInv,
         NEW root \in RootWords, NEW topic \in Topics, NEW e \in Nat \cup {None},
         Recorded(root, topic, e)
  PROVE  Log!LogNext
  <1> DEFINE entry == [root |-> root, strong |-> topic \in StrongTopics]
  <1>0. Extended(root, topic, e)
    BY RecordedEvents
  <1>1. (topic \in StrongTopics) \in BOOLEAN
    <2>1. CASE topic \in StrongTopics
      <3>1. (topic \in StrongTopics) = TRUE
        BY <2>1
      <3> QED BY <3>1, Zenon
    <2>2. CASE topic \notin StrongTopics
      <3>1. (topic \in StrongTopics) = FALSE
        BY <2>2
      <3> QED BY <3>1, Zenon
    <2> QED BY <2>1, <2>2
  <1>2. entry \in Log!Entry
    BY <1>1, Zenon DEF Log!Entry
  <1>3. root \notin Log!Published
    BY <1>0 DEF Log!Published, Recorded, HistoryInv, Extended
  <1>4. HeadOf(latest) # None /\ HeadOf(latest).strong => topic \in StrongTopics
    BY DEF HeadOf, Recorded, RejectWeakDowngrade
  <1>5. LogOf(events') = Append(LogOf(events), entry)
    BY <1>0, LogAppend
  <1>6. HeadOf(latest') = entry
    <2>1. latest' # None /\ latest'.root = root /\ (latest'.non_omission <=> topic \in StrongTopics)
      BY DEF Recorded
    <2>2. latest'.non_omission \in BOOLEAN
      BY <2>1 DEF TypeOK, Attestation
    <2>3. latest'.non_omission = (topic \in StrongTopics)
      BY <1>1, <2>1, <2>2
    <2> QED BY <2>1, <2>3, Zenon DEF HeadOf
  <1>7. Log!Publish(entry)
    BY <1>3, <1>4, <1>5, <1>6, Zenon DEF Log!Publish, LogOf, HeadOf
  <1> QED BY <1>2, <1>7, Zenon DEF Log!LogNext

\* ImplementsLog, for every instance: whatever path a submission takes, what an
\* observer sees is the append-only log of AttestationLog.
THEOREM ContractImplementsLog == Spec => ImplementsLog
  <1>1. Init => Log!LogInit
    BY DEF Init, Log!LogInit
  <1>2. TypeOK /\ TypeOK' /\ HistoryInv /\ [Next]_vars => [Log!LogNext]_(Log!logVars)
    <2> SUFFICES ASSUME TypeOK, TypeOK', HistoryInv, [Next]_vars
                 PROVE  [Log!LogNext]_(Log!logVars)
      OBVIOUS
    <2>1. CASE UNCHANGED attestationVars
      BY <2>1 DEF attestationVars, Log!logVars
    <2>2. CASE \E root \in RootWords, topic \in Topics, e \in Nat \cup {None} :
                 Recorded(root, topic, e)
      BY <2>2, RecordedPublishes
    <2> QED BY <2>1, <2>2, StepRecords
  <1> QED BY <1>1, <1>2, TypeCorrectness, HistoryInvariance, PTL
          DEF Spec, ImplementsLog, Log!LogSpec

=============================================================================
