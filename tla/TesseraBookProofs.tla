-------------------------- MODULE TesseraBookProofs --------------------------
(***************************************************************************)
(* Theorems about the customers' key list and the attested book: who is in *)
(* it, who signed it, how fresh it is, and that the policy and the reserve *)
(* really stand behind it.                                                 *)
(***************************************************************************)
EXTENDS TesseraLedgerProofs, SumTheorems

----------------------------------------------------------------------------
(***************************************************************************)
(* The customers' key list.                                                *)
(***************************************************************************)

KeysDistinct ==
  \A i, j \in DOMAIN registeredKeys :
    i # j => /\ registeredKeys[i].key # registeredKeys[j].key
             /\ registeredKeys[i].customer # registeredKeys[j].customer

\* Only a customer's own registration touches the list, and it appends a new
\* key of a new customer.
LEMMA KeyStep ==
  ASSUME TypeOK, [Next]_vars
  PROVE  \/ UNCHANGED registeredKeys
         \/ \E customer \in Customers, key \in Keys :
              /\ NewCustomer(customer, key)
              /\ SlotFree
              /\ registeredKeys' = Append(registeredKeys, [customer |-> customer, key |-> key])
              /\ UNCHANGED attestationVars
  <1>1. CASE UNCHANGED vars
    BY <1>1 DEF vars, setupVars
  <1>2. CASE Next
    <2>1. CASE Submission
      BY <2>1 DEF Submission, setupVars, SubmitAttestation, SubmitSignedAttestation,
        SubmitRiskAttestation, SubmitUnifiedAttestation, SubmitMultiAttestation,
        SubmitPricedAttestation
    <2>2. CASE \/ \E legs \in LegLists : SetReserveLegs(legs)
               \/ \E config \in OracleConfigs : SetOracleConfig(config)
               \/ \E batch \in LeafBatches : RegisterSignedLeaves(batch)
      BY <2>2 DEF SetReserveLegs, SetOracleConfig, RegisterSignedLeaves
    <2>3. CASE \E customer \in Customers, key \in Keys : RegisterCustomerKey(customer, key)
      BY <2>3 DEF RegisterCustomerKey
    <2>4. CASE \/ \E a \in Accounts, t \in Tokens, v \in Balances : Transfer(a, t, v)
               \/ CloseLedger
               \/ \E r \in Reflectors, f \in Feeds, q \in Quotes : PublishQuote(r, f, q)
      BY <2>4 DEF Transfer, CloseLedger, PublishQuote, setupVars
    <2> QED BY <1>2, <2>1, <2>2, <2>3, <2>4 DEF Next, Submission
  <1> QED BY <1>1, <1>2

\* The list after a registration: the old entries and the new one.
LEMMA KeyAppended ==
  ASSUME TypeOK, NEW customer \in Customers, NEW key \in Keys,
         registeredKeys' = Append(registeredKeys, [customer |-> customer, key |-> key])
  PROVE  /\ Len(registeredKeys) \in Nat
         /\ DOMAIN registeredKeys = 1..Len(registeredKeys)
         /\ Len(registeredKeys') = Len(registeredKeys) + 1
         /\ DOMAIN registeredKeys' = 1..(Len(registeredKeys) + 1)
         /\ \A i \in 1..Len(registeredKeys) : registeredKeys'[i] = registeredKeys[i]
         /\ registeredKeys'[Len(registeredKeys) + 1].key = key
         /\ registeredKeys'[Len(registeredKeys) + 1].customer = customer
  <1> DEFINE entry == [customer |-> customer, key |-> key]
  <1>1. entry \in CustomerKey /\ entry.key = key /\ entry.customer = customer
    BY DEF CustomerKey
  <1>2. registeredKeys \in Seq(CustomerKey) /\ registeredKeys' = Append(registeredKeys, entry)
    BY DEF TypeOK
  <1> HIDE DEF entry
  <1>3. /\ registeredKeys' \in Seq(CustomerKey)
        /\ Len(registeredKeys) \in Nat
        /\ Len(registeredKeys') = Len(registeredKeys) + 1
        /\ \A i \in 1..Len(registeredKeys) : registeredKeys'[i] = registeredKeys[i]
        /\ registeredKeys'[Len(registeredKeys) + 1] = entry
    BY <1>1, <1>2, AppendProperties, LenProperties
  <1>4. /\ DOMAIN registeredKeys = 1..Len(registeredKeys)
        /\ DOMAIN registeredKeys' = 1..(Len(registeredKeys) + 1)
    BY <1>2, <1>3, LenProperties
  <1> QED BY <1>1, <1>3, <1>4

\* What KeyListGrowsOnly asks of one step.
KeysGrow ==
  /\ Len(registeredKeys') >= Len(registeredKeys)
  /\ \A i \in DOMAIN registeredKeys : registeredKeys'[i] = registeredKeys[i]
  /\ \A i, j \in DOMAIN registeredKeys' :
       i # j => /\ registeredKeys'[i].key # registeredKeys'[j].key
                /\ registeredKeys'[i].customer # registeredKeys'[j].customer

\* A step only adds to the end of the list, a new key of a new customer.
LEMMA KeysGrowStep ==
  ASSUME TypeOK, KeysDistinct, [Next]_vars
  PROVE  KeysGrow
  <1>1. CASE UNCHANGED registeredKeys
    <2>1. Len(registeredKeys) \in Nat
      BY LenProperties DEF TypeOK
    <2> QED BY <1>1, <2>1 DEF KeysGrow, KeysDistinct
  <1>2. ASSUME NEW customer \in Customers, NEW key \in Keys, NewCustomer(customer, key),
               registeredKeys' = Append(registeredKeys, [customer |-> customer, key |-> key])
        PROVE  KeysGrow
    <2> DEFINE n == Len(registeredKeys)
    <2>1. /\ n \in Nat
          /\ DOMAIN registeredKeys = 1..n
          /\ Len(registeredKeys') = n + 1
          /\ DOMAIN registeredKeys' = 1..(n + 1)
          /\ \A i \in 1..n : registeredKeys'[i] = registeredKeys[i]
          /\ registeredKeys'[n + 1].key = key
          /\ registeredKeys'[n + 1].customer = customer
      BY <1>2, KeyAppended
    <2> HIDE DEF n
    <2>2. \A i \in 1..n : registeredKeys'[i].key # key /\ registeredKeys'[i].customer # customer
      BY <1>2, <2>1 DEF NewCustomer
    <2> QED BY <2>1, <2>2 DEF KeysGrow, KeysDistinct, n
  <1> QED BY <1>1, <1>2, KeyStep

\* No key and no customer is ever registered twice.
LEMMA KeysStayDistinct == Spec => []KeysDistinct
  <1>1. Init => KeysDistinct
    BY DEF Init, KeysDistinct
  <1>2. TypeOK /\ KeysDistinct /\ [Next]_vars => KeysDistinct'
    BY KeysGrowStep DEF KeysGrow, KeysDistinct
  <1> QED BY <1>1, <1>2, TypeCorrectness, PTL DEF Spec

\* KeyListGrowsOnly, for every instance: a registered position is never moved,
\* replaced or given away, and no key or customer ever holds two of them.
THEOREM KeyListOnlyGrows == Spec => KeyListGrowsOnly
  <1>1. TypeOK /\ KeysDistinct /\ [Next]_vars => [KeysGrow]_vars
    BY KeysGrowStep
  <1> QED BY <1>1, TypeCorrectness, KeysStayDistinct, PTL DEF Spec, KeyListGrowsOnly, KeysGrow

----------------------------------------------------------------------------
(***************************************************************************)
(* Completeness and consent of the attested book.                          *)
(***************************************************************************)

\* The tree of root has one leaf per registered customer, in the registered
\* order, each of them signed by that customer for circuit epoch e.
Consented(root, e) ==
  /\ Len(registeredKeys) = LeafSlots
  /\ \A i \in 1..LeafSlots :
       /\ Leaf(root % FieldModulus, i).owner = registeredKeys[i].key
       /\ [key |-> registeredKeys[i].key, epoch |-> e,
           balance |-> Leaf(root % FieldModulus, i).balance,
           nonce |-> Leaf(root % FieldModulus, i).nonce] \in EdDSAMessages

\* The strengthening of CompleteBook: it holds of every strong attestation ever
\* made, because a full list cannot change any more.
ConsentInv ==
  \A n \in DOMAIN events :
    events[n].topic \in StrongTopics => Consented(events[n].root, events[n].circuit_epoch)

\* The two strong paths establish it for the tree they attest.
LEMMA StrongSubmission ==
  /\ \A s \in SignedSignals, keys \in KeyWords :
       SubmitSignedAttestation(s, keys) => Consented(s.root, s.epoch)
  /\ \A s \in UnifiedSignals, keys \in KeyWords :
       SubmitUnifiedAttestation(s, keys) => Consented(s.root, s.epoch)
  <1>1. ASSUME NEW s \in SignedSignals, NEW keys \in KeyWords, SubmitSignedAttestation(s, keys)
        PROVE  Consented(s.root, s.epoch)
    <2>1. s.epoch \in Nat /\ s.epoch < FieldModulus
      BY <1>1, SignalTypes DEF SubmitSignedAttestation, AssertCanonical, SignedSignals
    <2>2. Reduced(s).root = s.root % FieldModulus /\ Reduced(s).epoch = s.epoch
      BY <2>1, ModSmall, FieldAssumption DEF Reduced, SignedSignals
    <2> QED BY <1>1, <2>2
            DEF SubmitSignedAttestation, SignedSolvency, KeysBoundToLeaves, LeavesSigned,
                KeysPinned, Consented
  <1>2. ASSUME NEW s \in UnifiedSignals, NEW keys \in KeyWords, SubmitUnifiedAttestation(s, keys)
        PROVE  Consented(s.root, s.epoch)
    <2>1. s.epoch \in Nat /\ s.epoch < FieldModulus
      BY <1>2, SignalTypes DEF SubmitUnifiedAttestation, AssertCanonical, UnifiedSignals
    <2>2. Reduced(s).root = s.root % FieldModulus /\ Reduced(s).epoch = s.epoch
      BY <2>1, ModSmall, FieldAssumption DEF Reduced, UnifiedSignals
    <2> QED BY <1>2, <2>2
            DEF SubmitUnifiedAttestation, UnifiedSolvency, SignedSolvency, KeysBoundToLeaves,
                LeavesSigned, KeysPinned, Consented
  <1> QED BY <1>1, <1>2

\* A submission of a strong topic consents; the key list stays as it is.
LEMMA RecordedConsents ==
  ASSUME TypeOK, Submission
  PROVE  \E root \in RootWords, topic \in Topics, e \in Nat \cup {None} :
           /\ Recorded(root, topic, e)
           /\ topic \in StrongTopics => Consented(root, e)
  BY SubmissionsRecorded, StrongSubmission DEF Submission, Recorded, StrongTopics

\* No submission touches the customers' key list.
LEMMA SubmissionKeepsKeys == Submission => UNCHANGED registeredKeys
  BY DEF Submission, setupVars, SubmitAttestation, SubmitSignedAttestation,
    SubmitRiskAttestation, SubmitUnifiedAttestation, SubmitMultiAttestation,
    SubmitPricedAttestation

\* ConsentInv is inductive: the key list only grows, so the positions an
\* attestation was pinned to never change.
LEMMA ConsentInvariance == Spec => []ConsentInv
  <1>1. Init => ConsentInv
    BY DEF Init, ConsentInv
  <1>2. ASSUME TypeOK, ConsentInv, [Next]_vars PROVE ConsentInv'
    <2>1. CASE Submission
      <3>1. PICK root \in RootWords, topic \in Topics, e \in Nat \cup {None} :
              /\ Recorded(root, topic, e)
              /\ topic \in StrongTopics => Consented(root, e)
        BY <1>2, <2>1, RecordedConsents
      <3>2. Extended(root, topic, e)
        BY <1>2, <3>1, RecordedEvents
      <3>3. registeredKeys' = registeredKeys
        BY <2>1, SubmissionKeepsKeys
      <3>4. \A n \in DOMAIN events' :
              events'[n].topic \in StrongTopics
                => Consented(events'[n].root, events'[n].circuit_epoch)
        BY <1>2, <3>1, <3>2 DEF Extended, ConsentInv
      <3> QED BY <3>3, <3>4 DEF ConsentInv, Consented
    <2>2. CASE UNCHANGED attestationVars /\ UNCHANGED registeredKeys
      BY <1>2, <2>2 DEF attestationVars, ConsentInv, Consented
    <2>3. CASE UNCHANGED attestationVars /\ registeredKeys' # registeredKeys
      <3>1. SlotFree
        BY <1>2, <2>3, KeyStep
      <3>2. \A n \in DOMAIN events : events[n].topic \notin StrongTopics
        BY <1>2, <3>1, TreeAssumption DEF SlotFree, ConsentInv, Consented
      <3> QED BY <2>3, <3>2 DEF attestationVars, ConsentInv
    <2> QED BY <1>2, <2>1, <2>2, <2>3, StepSubmits
  <1> QED BY <1>1, <1>2, TypeCorrectness, PTL DEF Spec

\* CompleteBook, for every instance: a book attested with non-omission lists
\* every registered customer at its position, and stays complete for as long
\* as it is the latest one.
THEOREM NoCustomerOmitted == Spec => []CompleteBook
  <1>1. TypeOK /\ HistoryInv /\ ConsentInv => CompleteBook
    <2> SUFFICES ASSUME TypeOK, HistoryInv, ConsentInv, latest # None, latest.non_omission
                 PROVE  /\ Len(registeredKeys) = LeafSlots
                        /\ \A i \in 1..LeafSlots :
                             Leaf(latest.root % FieldModulus, i).owner = registeredKeys[i].key
      BY DEF CompleteBook
    <2>1. /\ events # <<>>
          /\ LastEvent.topic \in StrongTopics
          /\ latest.root = LastEvent.root
      BY DEF HistoryInv, LatestIsNewest
    <2>2. Len(events) \in DOMAIN events
      BY <2>1, EmptySeq, LenProperties DEF TypeOK
    <2>3. Consented(latest.root, LastEvent.circuit_epoch)
      BY <2>1, <2>2 DEF LastEvent, ConsentInv
    <2> QED BY <2>3 DEF Consented
  <1> QED BY <1>1, TypeCorrectness, HistoryInvariance, ConsentInvariance, PTL

\* EveryLeafConsented, for every instance: no liability was ever counted by a
\* strong attestation that the customer at its position did not sign for it.
THEOREM EveryLeafSigned == Spec => []EveryLeafConsented
  <1>1. ConsentInv => EveryLeafConsented
    BY DEF ConsentInv, Consented, EveryLeafConsented
  <1> QED BY <1>1, ConsentInvariance, PTL

----------------------------------------------------------------------------
(***************************************************************************)
(* Freshness of the circuit epoch.                                         *)
(***************************************************************************)

\* An event of a family after event i whose circuit epoch did not fit.
WrappedSince(i, family) ==
  \E k \in i..Len(events) : events[k].topic = family /\ events[k].circuit_epoch \notin U32

\* A family's counter bounds the epochs of its events, but for those with a wrapped
\* epoch behind them.
FamilyEpochs(last, family) ==
  \A i \in DOMAIN events :
    events[i].topic = family =>
      /\ last # None /\ last \in Nat
      /\ events[i].circuit_epoch \in Nat
      /\ events[i].circuit_epoch <= last \/ WrappedSince(i, family)

EpochInv ==
  /\ FamilyEpochs(signedEpoch, "signed")
  /\ FamilyEpochs(unifiedEpoch, "unified")
  /\ CircuitEpochsFresh

\* One family's counter across a submission of some topic.
EpochStep(last, next, topic, e, family) ==
  IF topic = family
    THEN /\ e \in Nat /\ next = e % U32Modulus
         /\ last # None => e > last
    ELSE next = last

\* What a submission does to the counters.
LEMMA RecordedEpochs ==
  ASSUME TypeOK, Submission
  PROVE  \E root \in RootWords, topic \in Topics, e \in Nat \cup {None} :
           /\ Recorded(root, topic, e)
           /\ EpochStep(signedEpoch, signedEpoch', topic, e, "signed")
           /\ EpochStep(unifiedEpoch, unifiedEpoch', topic, e, "unified")
  <1>1. CASE \E s \in SignedSignals, keys \in KeyWords : SubmitSignedAttestation(s, keys)
    <2>1. PICK s \in SignedSignals, keys \in KeyWords : SubmitSignedAttestation(s, keys)
      BY <1>1
    <2>2. /\ EpochStep(signedEpoch, signedEpoch', "signed", s.epoch, "signed")
          /\ EpochStep(unifiedEpoch, unifiedEpoch', "signed", s.epoch, "unified")
      BY <2>1, SignalTypes DEF SubmitSignedAttestation, EpochAdvances, EpochStep
    <2> QED BY <2>1, <2>2, SubmissionsRecorded DEF Recorded
  <1>2. CASE \E s \in UnifiedSignals, keys \in KeyWords : SubmitUnifiedAttestation(s, keys)
    <2>1. PICK s \in UnifiedSignals, keys \in KeyWords : SubmitUnifiedAttestation(s, keys)
      BY <1>2
    <2>2. /\ EpochStep(signedEpoch, signedEpoch', "unified", s.epoch, "signed")
          /\ EpochStep(unifiedEpoch, unifiedEpoch', "unified", s.epoch, "unified")
      BY <2>1, SignalTypes DEF SubmitUnifiedAttestation, EpochAdvances, EpochStep
    <2> QED BY <2>1, <2>2, SubmissionsRecorded DEF Recorded
  <1>3. ASSUME signedEpoch' = signedEpoch, unifiedEpoch' = unifiedEpoch,
               NEW topic \in Topics \ StrongTopics,
               \E root \in RootWords : Recorded(root, topic, None)
        PROVE  \E root \in RootWords, top \in Topics, e \in Nat \cup {None} :
                 /\ Recorded(root, top, e)
                 /\ EpochStep(signedEpoch, signedEpoch', top, e, "signed")
                 /\ EpochStep(unifiedEpoch, unifiedEpoch', top, e, "unified")
    BY <1>3 DEF EpochStep, StrongTopics
  <1>4. CASE \/ \E s \in BaseSignals : SubmitAttestation(s)
             \/ \E s \in RiskSignals : SubmitRiskAttestation(s)
             \/ \E s \in BaseSignals : SubmitMultiAttestation(s)
             \/ \E s \in BaseSignals, legs \in PricedLegLists : SubmitPricedAttestation(s, legs)
    <2>1. signedEpoch' = signedEpoch /\ unifiedEpoch' = unifiedEpoch
      BY <1>4 DEF SubmitAttestation, SubmitRiskAttestation, SubmitMultiAttestation,
        SubmitPricedAttestation
    <2>2. \E topic \in Topics \ StrongTopics :
            \E root \in RootWords : Recorded(root, topic, None)
      BY <1>4, SubmissionsRecorded DEF Recorded, Topics, StrongTopics
    <2> QED BY <1>3, <2>1, <2>2
  <1> QED BY <1>1, <1>2, <1>4 DEF Submission

\* The stored epoch is the accepted one if that fits.
LEMMA StoredEpoch ==
  ASSUME NEW e \in Nat
  PROVE  e % U32Modulus \in Nat /\ (e \in U32 => e % U32Modulus = e)
  <1>1. U32Modulus \in Nat \ {0}
    BY WidthAssumption
  <1>2. e % U32Modulus \in Nat
    BY <1>1
  <1>3. e \in U32 => e % U32Modulus = e
    BY <1>1, ModSmall DEF U32
  <1> QED BY <1>2, <1>3

\* A wrapped epoch stays behind.
LEMMA WrappedStays ==
  ASSUME NEW root, NEW topic, NEW e, Extended(root, topic, e), NEW family
  PROVE  /\ \A i \in DOMAIN events : WrappedSince(i, family) => WrappedSince(i, family)'
         /\ topic = family /\ e \notin U32 => \A i \in DOMAIN events' : WrappedSince(i, family)'
  <1>1. ASSUME NEW i \in DOMAIN events, WrappedSince(i, family)
        PROVE  WrappedSince(i, family)'
    <2>1. PICK k \in i..Len(events) :
            events[k].topic = family /\ events[k].circuit_epoch \notin U32
      BY <1>1 DEF WrappedSince
    <2>2. k \in i..Len(events') /\ k \in 1..Len(events) /\ events'[k] = events[k]
      BY <2>1 DEF Extended
    <2> QED BY <2>1, <2>2 DEF WrappedSince, U32
  <1>2. ASSUME topic = family, e \notin U32, NEW i \in DOMAIN events'
        PROVE  WrappedSince(i, family)'
    <2>1. Len(events) + 1 \in i..Len(events')
      BY <1>2 DEF Extended
    <2>2. events'[Len(events) + 1].topic = family /\ events'[Len(events) + 1].circuit_epoch = e
      BY <1>2 DEF Extended
    <2> QED BY <1>2, <2>1, <2>2 DEF WrappedSince, U32
  <1> QED BY <1>1, <1>2

\* A family's bound follows its events.
LEMMA FamilyEpochsStep ==
  ASSUME NEW root, NEW topic, NEW e, Extended(root, topic, e),
         NEW last, NEW next, NEW family,
         EpochStep(last, next, topic, e, family),
         FamilyEpochs(last, family)
  PROVE  \A i \in DOMAIN events' :
           events'[i].topic = family =>
             /\ next # None /\ next \in Nat
             /\ events'[i].circuit_epoch \in Nat
             /\ events'[i].circuit_epoch <= next \/ WrappedSince(i, family)'
  <1> SUFFICES ASSUME NEW i \in DOMAIN events', events'[i].topic = family
               PROVE  /\ next # None /\ next \in Nat
                      /\ events'[i].circuit_epoch \in Nat
                      /\ events'[i].circuit_epoch <= next \/ WrappedSince(i, family)'
    OBVIOUS
  <1>1. CASE topic # family
    <2>1. i \in DOMAIN events /\ events'[i] = events[i]
      BY <1>1 DEF Extended
    <2> QED BY <1>1, <2>1, WrappedStays DEF EpochStep, FamilyEpochs
  <1>2. CASE topic = family
    <2>1. /\ e \in Nat /\ next = e % U32Modulus
          /\ last # None => e > last
      BY <1>2 DEF EpochStep
    <2>2. next \in Nat /\ next # None /\ (e \in U32 => next = e)
      BY <2>1, StoredEpoch, NoneAssumption
    <2>3. e \notin U32 => WrappedSince(i, family)'
      BY <1>2, WrappedStays
    <2>4. CASE i = Len(events) + 1
      <3>1. events'[i].circuit_epoch = e
        BY <2>4 DEF Extended
      <3> QED BY <2>1, <2>2, <2>3, <3>1
    <2>5. CASE i \in DOMAIN events
      <3>1. events'[i] = events[i]
        BY <2>5 DEF Extended
      <3>2. /\ last # None /\ last \in Nat
            /\ events[i].circuit_epoch \in Nat
            /\ events[i].circuit_epoch <= last \/ WrappedSince(i, family)
        BY <2>5, <3>1 DEF FamilyEpochs
      <3>3. WrappedSince(i, family) => WrappedSince(i, family)'
        BY <2>5, WrappedStays
      <3> QED BY <2>1, <2>2, <2>3, <3>1, <3>2, <3>3
    <2> QED BY <2>4, <2>5 DEF Extended
  <1> QED BY <1>1, <1>2

\* Every step keeps the families' bounds and the order of their epochs.
LEMMA EpochInvStep ==
  ASSUME TypeOK, EpochInv, Submission
  PROVE  EpochInv'
  <1>1. PICK root \in RootWords, topic \in Topics, e \in Nat \cup {None} :
          /\ Recorded(root, topic, e)
          /\ EpochStep(signedEpoch, signedEpoch', topic, e, "signed")
          /\ EpochStep(unifiedEpoch, unifiedEpoch', topic, e, "unified")
    BY RecordedEpochs
  <1>2. Extended(root, topic, e)
    BY <1>1, RecordedEvents
  <1>3. FamilyEpochs(signedEpoch, "signed") /\ FamilyEpochs(unifiedEpoch, "unified")
    BY DEF EpochInv
  <1>4. FamilyEpochs(signedEpoch, "signed")'
    BY <1>1, <1>2, <1>3, FamilyEpochsStep DEF FamilyEpochs
  <1>5. FamilyEpochs(unifiedEpoch, "unified")'
    BY <1>1, <1>2, <1>3, FamilyEpochsStep DEF FamilyEpochs
  <1>6. ASSUME NEW i \in DOMAIN events, topic \in StrongTopics, events[i].topic = topic,
               e <= events[i].circuit_epoch
        PROVE  WrappedSince(i, topic)
    <2>1. ASSUME NEW last, FamilyEpochs(last, topic), e \in Nat, last # None => e > last
          PROVE  WrappedSince(i, topic)
      <3>1. /\ last # None /\ last \in Nat
            /\ events[i].circuit_epoch \in Nat
            /\ events[i].circuit_epoch <= last \/ WrappedSince(i, topic)
        BY <1>6, <2>1 DEF FamilyEpochs
      <3> QED BY <1>6, <2>1, <3>1
    <2> QED BY <1>1, <1>3, <1>6, <2>1 DEF EpochStep, StrongTopics
  <1>7. CircuitEpochsFresh'
    <2> SUFFICES ASSUME NEW i \in DOMAIN events', NEW j \in DOMAIN events', i < j,
                        events'[i].topic \in StrongTopics, events'[j].topic = events'[i].topic,
                        events'[j].circuit_epoch <= events'[i].circuit_epoch
                 PROVE  \E k \in i..(j - 1) : /\ events'[k].topic = events'[i].topic
                                              /\ events'[k].circuit_epoch \notin U32
      BY DEF CircuitEpochsFresh, U32
    <2>1. i \in DOMAIN events /\ events'[i] = events[i] /\ i \in Nat /\ j \in Nat
      BY <1>2 DEF Extended
    <2>2. CASE j \in DOMAIN events
      <3>1. events'[j] = events[j]
        BY <1>2, <2>2 DEF Extended
      <3>2. PICK k \in i..(j - 1) : /\ events[k].topic = events[i].topic
                                    /\ events[k].circuit_epoch \notin U32
        BY <2>1, <2>2, <3>1 DEF EpochInv, CircuitEpochsFresh
      <3>3. events'[k] = events[k]
        BY <1>2, <2>1, <2>2 DEF Extended
      <3> QED BY <2>1, <3>2, <3>3
    <2>3. CASE j = Len(events) + 1
      <3>1. events'[j].topic = topic /\ events'[j].circuit_epoch = e
        BY <1>2, <2>3 DEF Extended
      <3>2. WrappedSince(i, topic)
        BY <1>6, <2>1, <3>1
      <3>3. PICK k \in i..Len(events) : events[k].topic = topic /\ events[k].circuit_epoch \notin U32
        BY <3>2 DEF WrappedSince
      <3>4. k \in i..(j - 1) /\ events'[k] = events[k]
        BY <1>2, <2>1, <2>3 DEF Extended
      <3> QED BY <3>1, <3>3, <3>4
    <2> QED BY <1>2, <2>2, <2>3 DEF Extended
  <1> QED BY <1>4, <1>5, <1>7 DEF EpochInv

\* CircuitEpochsFresh, for every instance: a stale signed or unified proof follows a
\* newer one of its family only behind a circuit epoch that did not fit the u32 the
\* contract stores it in.  As long as all of them fit, the epochs increase.
THEOREM FreshProofsOnly == Spec => []CircuitEpochsFresh
  <1>1. Init => EpochInv
    BY DEF Init, EpochInv, FamilyEpochs, CircuitEpochsFresh
  <1>2. TypeOK /\ EpochInv /\ [Next]_vars => EpochInv'
    <2> SUFFICES ASSUME TypeOK, EpochInv, [Next]_vars PROVE EpochInv'
      OBVIOUS
    <2>1. CASE UNCHANGED attestationVars
      BY <2>1 DEF attestationVars, EpochInv, FamilyEpochs, CircuitEpochsFresh, WrappedSince, U32
    <2> QED BY <2>1, EpochInvStep, StepSubmits
  <1>3. EpochInv => CircuitEpochsFresh
    BY DEF EpochInv
  <1> QED BY <1>1, <1>2, <1>3, TypeCorrectness, PTL DEF Spec

----------------------------------------------------------------------------
(***************************************************************************)
(* The risk policy and the reserve behind an attestation.                  *)
(***************************************************************************)

\* A larger factor gives a larger product.
LEMMA ProductGrows ==
  ASSUME NEW a \in Nat, NEW b \in Nat, NEW c \in Nat, a <= b
  PROVE  a * c <= b * c
  OBVIOUS

\* Within the policy, the circuit's own limits are the contract's limits.
LEMMA PolicyMet ==
  ASSUME NEW s, s.root \in Nat, s.total \in Nat, s.reserves \in Nat,
         s.conc \in Nat, s.coll \in Nat,
         s.root \in Roots, RiskLimits(s), RiskPolicy(s)
  PROVE  MeetsRiskPolicy(s)
  <1>1. /\ s.conc < BpsLimit /\ s.coll < BpsLimit
        /\ \A i \in DOMAIN Leaves(s.root) : Leaf(s.root, i).balance * 10000 <= s.conc * s.total
        /\ s.coll * s.total <= s.reserves * 10000
    BY DEF RiskLimits
  <1>2. s.conc < U32Modulus /\ s.coll < U32Modulus
    BY <1>1, WidthAssumption, FieldAssumption
  <1>3. s.conc <= MaxConcBpsPolicy /\ MinCollBpsPolicy <= s.coll
    BY <1>2, ModSmall, WidthAssumption DEF RiskPolicy
  <1>4. /\ s.conc * s.total <= MaxConcBpsPolicy * s.total
        /\ MinCollBpsPolicy * s.total <= s.coll * s.total
    BY <1>3, ProductGrows DEF MaxConcBpsPolicy, MinCollBpsPolicy
  <1>5. \A i \in DOMAIN Leaves(s.root) : Leaf(s.root, i).balance \in Nat
    <2>1. Book[s.root].leaves \in
            Seq([owner : Keys \cup Owners, balance : 0..(FieldModulus - 1), nonce : Nat])
      BY TreeAssumption
    <2> DEFINE leaves == Book[s.root].leaves
    <2> HIDE DEF leaves
    <2>2. DOMAIN leaves = 1..Len(leaves)
      BY <2>1, LenProperties DEF leaves
    <2>3. \A i \in DOMAIN leaves :
            leaves[i] \in [owner : Keys \cup Owners, balance : 0..(FieldModulus - 1), nonce : Nat]
      BY <2>1, <2>2, ElementOfSeq DEF leaves
    <2>4. \A i \in DOMAIN leaves : leaves[i].balance \in Nat
      BY <2>3, FieldAssumption
    <2> QED BY <2>4 DEF Leaves, Leaf, leaves
  <1>6. s.conc * s.total \in Nat /\ s.coll * s.total \in Nat
    OBVIOUS
  <1>7. ASSUME NEW i \in DOMAIN Leaves(s.root)
        PROVE  Leaf(s.root, i).balance * 10000 <= MaxConcBpsPolicy * s.total
    BY <1>1, <1>4, <1>5, <1>6, <1>7 DEF MaxConcBpsPolicy
  <1>8. MinCollBpsPolicy * s.total <= s.reserves * 10000
    BY <1>1, <1>4, <1>6 DEF MinCollBpsPolicy
  <1> QED BY <1>7, <1>8 DEF MeetsRiskPolicy

RiskInv ==
  /\ riskLatest # None => MeetsRiskPolicy(riskLatest)
  /\ latest # None /\ LastEvent.topic = "unified" => MeetsRiskPolicy(latest)

\* Both risk-limited paths attest a tree within the policy.
LEMMA RiskSubmission ==
  /\ \A s \in RiskSignals :
       SubmitRiskAttestation(s) => MeetsRiskPolicy(s)
  /\ \A s \in UnifiedSignals, keys \in KeyWords :
       SubmitUnifiedAttestation(s, keys) => MeetsRiskPolicy(s)
  <1>1. ASSUME NEW s \in RiskSignals, SubmitRiskAttestation(s) PROVE MeetsRiskPolicy(s)
    <2>1. /\ s.root \in Nat /\ s.total \in Nat /\ s.reserves \in Nat
          /\ s.conc \in Nat /\ s.coll \in Nat
      BY SignalTypes, WordAssumption
    <2>2. Reduced(s) = s
      BY <1>1, <2>1, ModSmall, FieldAssumption
      DEF SubmitRiskAttestation, AssertCanonical, Reduced, RiskSignals
    <2>3. s.root \in Roots /\ RiskLimits(s) /\ RiskPolicy(s)
      BY <1>1, <2>2 DEF SubmitRiskAttestation, RiskSolvency, HealthyTree
    <2> QED BY <2>1, <2>3, PolicyMet
  <1>2. ASSUME NEW s \in UnifiedSignals, NEW keys \in KeyWords, SubmitUnifiedAttestation(s, keys)
        PROVE  MeetsRiskPolicy(s)
    <2>1. /\ s.root \in Nat /\ s.total \in Nat /\ s.reserves \in Nat
          /\ s.epoch \in Nat /\ s.conc \in Nat /\ s.coll \in Nat
      BY SignalTypes, WordAssumption
    <2>2. Reduced(s) = s
      BY <1>2, <2>1, ModSmall, FieldAssumption
      DEF SubmitUnifiedAttestation, AssertCanonical, Reduced, UnifiedSignals
    <2>3. s.root \in Roots /\ RiskLimits(s) /\ RiskPolicy(s)
      BY <1>2, <2>2 DEF SubmitUnifiedAttestation, UnifiedSolvency, SignedSolvency, HealthyTree
    <2> QED BY <2>1, <2>3, PolicyMet
  <1> QED BY <1>1, <1>2

\* What a submission leaves in the entries the policy is about.
LEMMA RiskEntries ==
  /\ \A s \in RiskSignals :
       SubmitRiskAttestation(s) =>
         riskLatest'.root = s.root /\ riskLatest'.total = s.total /\ riskLatest'.reserves = s.reserves
  /\ \A s \in UnifiedSignals, keys \in KeyWords :
       SubmitUnifiedAttestation(s, keys) =>
         latest'.root = s.root /\ latest'.total = s.total /\ latest'.reserves = s.reserves
  BY DEF SubmitRiskAttestation, SubmitUnifiedAttestation, StoreHeld, Store

\* The last event of the history after a submission is its own.
LEMMA SubmissionTopics ==
  ASSUME TypeOK
  PROVE
  /\ \A s \in BaseSignals :
       SubmitAttestation(s) => LastEvent'.topic = "attested" /\ UNCHANGED riskLatest
  /\ \A s \in SignedSignals, keys \in KeyWords :
       SubmitSignedAttestation(s, keys) => LastEvent'.topic = "signed" /\ UNCHANGED riskLatest
  /\ \A s \in RiskSignals : SubmitRiskAttestation(s) => LastEvent'.topic = "risk"
  /\ \A s \in UnifiedSignals, keys \in KeyWords :
       SubmitUnifiedAttestation(s, keys) => LastEvent'.topic = "unified" /\ UNCHANGED riskLatest
  /\ \A s \in BaseSignals :
       SubmitMultiAttestation(s) => LastEvent'.topic = "multi" /\ UNCHANGED riskLatest
  /\ \A s \in BaseSignals, legs \in PricedLegLists :
       SubmitPricedAttestation(s, legs) => LastEvent'.topic = "priced" /\ UNCHANGED riskLatest
  <1>1. ASSUME NEW root \in RootWords, NEW topic \in Topics, NEW e \in Nat \cup {None},
               Recorded(root, topic, e)
        PROVE  LastEvent'.topic = topic /\ (topic # "risk" => UNCHANGED riskLatest)
    <2>1. Extended(root, topic, e)
      BY <1>1, RecordedEvents
    <2> QED BY <1>1, <2>1 DEF Extended, LastEvent, Recorded, FamilyStep
  <1> QED BY <1>1, SignalTypes, SubmissionsRecorded DEF Topics

\* Every step keeps the policy of the trees attested under it.
LEMMA RiskInvStep ==
  ASSUME TypeOK, RiskInv, Submission
  PROVE  RiskInv'
  <1> USE SubmissionTopics
  <1>1. CASE \E s \in RiskSignals : SubmitRiskAttestation(s)
    BY <1>1, RiskSubmission, RiskEntries DEF RiskInv, MeetsRiskPolicy
  <1>2. CASE \E s \in UnifiedSignals, keys \in KeyWords : SubmitUnifiedAttestation(s, keys)
    BY <1>2, RiskSubmission, RiskEntries DEF RiskInv, MeetsRiskPolicy
  <1>3. CASE \/ \E s \in BaseSignals : SubmitAttestation(s)
             \/ \E s \in SignedSignals, keys \in KeyWords : SubmitSignedAttestation(s, keys)
             \/ \E s \in BaseSignals : SubmitMultiAttestation(s)
             \/ \E s \in BaseSignals, legs \in PricedLegLists : SubmitPricedAttestation(s, legs)
    BY <1>3 DEF RiskInv, MeetsRiskPolicy
  <1> QED BY <1>1, <1>2, <1>3 DEF Submission

\* RiskPolicyHolds, for every instance: whatever bounds a prover makes public, a
\* tree attested under the risk policy meets it leaf by leaf.
THEOREM PolicyAlwaysMet == Spec => []RiskPolicyHolds
  <1>1. Init => RiskInv
    BY DEF Init, RiskInv
  <1>2. TypeOK /\ RiskInv /\ [Next]_vars => RiskInv'
    <2> SUFFICES ASSUME TypeOK, RiskInv, [Next]_vars PROVE RiskInv'
      OBVIOUS
    <2>1. CASE UNCHANGED attestationVars
      BY <2>1 DEF attestationVars, RiskInv, MeetsRiskPolicy, LastEvent
    <2> QED BY <2>1, RiskInvStep, StepSubmits
  <1>3. RiskInv => RiskPolicyHolds
    BY DEF RiskInv, RiskPolicyHolds
  <1> QED BY <1>1, <1>2, <1>3, TypeCorrectness, PTL DEF Spec

HeldTopics == {"attested", "signed", "risk", "unified"}

\* What HeldAttestationBacked asks of one step.
HeldBacked ==
  latest' # latest /\ events'[Len(events')].topic \in HeldTopics
    => /\ latest'.total <= latest'.reserves
       /\ latest'.reserves <= balance[latest'.holder][latest'.token]
       /\ latest'.holder \in Signers

\* HeldAttestationBacked, for every instance: at the moment it is made, an
\* attestation of a single-holder path is covered by the live balance of the
\* holder it names, and that holder authorized it.
THEOREM HolderStandsBehind == Spec => HeldAttestationBacked
  <1>1. ASSUME TypeOK, [Next]_vars PROVE HeldBacked
    <2>1. CASE \/ \E s \in BaseSignals : SubmitAttestation(s)
               \/ \E s \in SignedSignals, keys \in KeyWords : SubmitSignedAttestation(s, keys)
               \/ \E s \in RiskSignals : SubmitRiskAttestation(s)
               \/ \E s \in UnifiedSignals, keys \in KeyWords : SubmitUnifiedAttestation(s, keys)
      <3>1. PICK s \in BaseSignals \cup SignedSignals \cup RiskSignals \cup UnifiedSignals,
                 strong \in BOOLEAN, topic \in HeldTopics, e \in CircuitEpochs \cup {None} :
              /\ s.total <= s.reserves
              /\ HolderBacks(s.reserves)
              /\ StoreHeld(s, strong, topic, e)
        BY <2>1, SignalTypes
        DEF SubmitAttestation, SubmitSignedAttestation, SubmitRiskAttestation,
            SubmitUnifiedAttestation, SignedSignals, UnifiedSignals, HeldTopics
      <3> QED BY <3>1 DEF HeldBacked, HolderBacks, StoreHeld, Store
    <2>2. CASE \/ \E s \in BaseSignals : SubmitMultiAttestation(s)
               \/ \E s \in BaseSignals, legs \in PricedLegLists : SubmitPricedAttestation(s, legs)
      <3>1. LastEvent'.topic \notin HeldTopics
        BY <1>1, <2>2, SubmissionTopics DEF HeldTopics
      <3> QED BY <3>1 DEF HeldBacked, LastEvent
    <2>3. CASE UNCHANGED attestationVars
      BY <2>3 DEF attestationVars, HeldBacked
    <2> QED BY <1>1, <2>1, <2>2, <2>3, StepSubmits DEF Submission
  <1>2. TypeOK /\ [Next]_vars => [HeldBacked]_vars
    BY <1>1
  <1> QED BY <1>2, TypeCorrectness, PTL
          DEF Spec, HeldAttestationBacked, HeldBacked, HeldTopics

----------------------------------------------------------------------------
(***************************************************************************)
(* The liabilities an attestation counts.                                  *)
(***************************************************************************)

\* The balances of a tree, in the order of its leaves.
LeafBalances(root) == [i \in DOMAIN Leaves(root) |-> Leaf(root, i).balance]

\* A tree has finitely many leaves, and their balances are field elements.
LEMMA TreeLeaves ==
  ASSUME NEW root \in Roots
  PROVE  /\ Len(Leaves(root)) \in Nat
         /\ DOMAIN Leaves(root) = 1..Len(Leaves(root))
         /\ \A i \in DOMAIN Leaves(root) : Leaf(root, i).balance \in Nat
         /\ Len(Leaves(root)) * BalanceLimit <= FieldModulus
  <1> DEFINE leaves == Book[root].leaves
  <1>1. /\ leaves \in Seq([owner : Keys \cup Owners, balance : 0..(FieldModulus - 1), nonce : Nat])
        /\ Len(leaves) * BalanceLimit <= FieldModulus
    BY TreeAssumption
  <1> HIDE DEF leaves
  <1>2. Len(leaves) \in Nat /\ DOMAIN leaves = 1..Len(leaves)
    BY <1>1, LenProperties
  <1>3. \A i \in DOMAIN leaves :
          leaves[i] \in [owner : Keys \cup Owners, balance : 0..(FieldModulus - 1), nonce : Nat]
    BY <1>1, <1>2, ElementOfSeq
  <1>4. \A i \in DOMAIN leaves : leaves[i].balance \in Nat
    BY <1>3, FieldAssumption
  <1> QED BY <1>1, <1>2, <1>4 DEF Leaves, Leaf, leaves

\* Range-checked balances never wrap: the total the tree carries is their sum.
LEMMA CheckedTreesDoNotWrap ==
  ASSUME NEW root \in Roots, BalancesInRange(root)
  PROVE  SumFunction(LeafBalances(root)) = RootSum(root)
  <1> DEFINE f == LeafBalances(root)
             n == Len(Leaves(root))
             b == BalanceLimit - 1
  <1>1. n \in Nat /\ DOMAIN f = 1..n /\ n * BalanceLimit <= FieldModulus
    BY TreeLeaves DEF LeafBalances
  <1>2. \A i \in 1..n : f[i] \in Nat /\ f[i] <= b
    BY <1>1, TreeLeaves, FieldAssumption DEF LeafBalances, BalancesInRange
  <1>3. IsFiniteSet(1..n) /\ Cardinality(1..n) = n
    BY <1>1, FS_Interval
  <1>4. SumFunction(f) = SumFunctionOnSet(f, 1..n)
    BY <1>1 DEF SumFunction
  <1>5. RootSum(root) = SumFunction(f) % FieldModulus
    BY DEF RootSum, LeafBalances
  <1> HIDE DEF f, n
  <1>6. SumFunction(f) \in Nat
    <2>1. \A i \in 1..n : f[i] \in Int /\ f[i] >= 0
      BY <1>2
    <2> QED BY <1>3, <1>4, <2>1, SumType
  <1>7. SumFunction(f) <= n * b
    <2>1. b \in Int
      BY FieldAssumption
    <2>2. \A i \in 1..n : f[i] \in Int /\ f[i] <= b
      BY <1>2
    <2> HIDE DEF b
    <2> QED BY <1>3, <1>4, <2>1, <2>2, SumBound
  <1>8. SumFunction(f) < FieldModulus
    <2>1. n * b = n * BalanceLimit - n
      BY <1>1, FieldAssumption
    <2> QED BY <1>1, <1>6, <1>7, <2>1, FieldAssumption
  <1> QED BY <1>5, <1>6, <1>8, ModSmall, FieldAssumption DEF f

\* A record that hides no liability.
CountsEverything(record) ==
  /\ SumFunction(LeafBalances(record.root)) <= record.total
  /\ record.total <= record.reserves
  /\ record.reserves <= record.bound

\* What every path has checked of the words it attests.
Healthy(s) ==
  /\ s.root \in Roots
  /\ BalancesInRange(s.root)
  /\ s.total \in Nat /\ s.total = RootSum(s.root)

\* A proof that verifies on canonical words is about those very words.
LEMMA VerifiedWords ==
  ASSUME NEW s \in BaseSignals \cup RiskSignals \cup SignedSignals \cup UnifiedSignals,
         NEW depth, AssertCanonical(s), HealthyTree(Reduced(s), depth)
  PROVE  Healthy(s)
  <1>1. /\ s.root \in Nat /\ s.root < FieldModulus /\ s.total \in Nat /\ s.total < FieldModulus
        /\ Reduced(s).root = s.root % FieldModulus /\ Reduced(s).total = s.total % FieldModulus
    <2>1. CASE s \in BaseSignals
      BY <2>1, SignalTypes, WordAssumption DEF BaseSignals, AssertCanonical, Reduced
    <2>2. CASE s \in RiskSignals
      BY <2>2, SignalTypes, WordAssumption DEF RiskSignals, AssertCanonical, Reduced
    <2>3. CASE s \in SignedSignals
      BY <2>3, SignalTypes, WordAssumption DEF SignedSignals, AssertCanonical, Reduced
    <2>4. CASE s \in UnifiedSignals
      BY <2>4, SignalTypes, WordAssumption DEF UnifiedSignals, AssertCanonical, Reduced
    <2> QED BY <2>1, <2>2, <2>3, <2>4
  <1>2. Reduced(s).root = s.root /\ Reduced(s).total = s.total
    BY <1>1, ModSmall, FieldAssumption
  <1> QED BY <1>1, <1>2 DEF HealthyTree, Healthy

\* Every path stores a figure for a healthy tree, covered by what backs it.
LEMMA SubmissionCounts ==
  ASSUME TypeOK, Submission
  PROVE  CountsEverything(latest')
  <1> USE SignalTypes
      DEF Store, StoreHeld, HolderBacks, Solvency, RiskSolvency, SignedSolvency, UnifiedSolvency
  <1>0. ASSUME NEW s, Healthy(s), s.total <= s.reserves, s.root = latest'.root,
               s.total = latest'.total, s.reserves = latest'.reserves,
               s.reserves <= latest'.bound
        PROVE  CountsEverything(latest')
    <2>1. SumFunction(LeafBalances(s.root)) = s.total
      BY <1>0, CheckedTreesDoNotWrap DEF Healthy
    <2>2. s.total <= s.total
      BY <1>0 DEF Healthy
    <2> QED BY <1>0, <2>1, <2>2 DEF CountsEverything
  <1>1. ASSUME NEW s \in BaseSignals, SubmitAttestation(s)
        PROVE  CountsEverything(latest')
    <2>1. Healthy(s)
      BY <1>1, VerifiedWords DEF SubmitAttestation
    <2> QED BY <1>0, <1>1, <2>1 DEF SubmitAttestation
  <1>2. ASSUME NEW s \in SignedSignals, NEW keys \in KeyWords, SubmitSignedAttestation(s, keys)
        PROVE  CountsEverything(latest')
    <2>1. Healthy(s)
      BY <1>2, VerifiedWords DEF SubmitSignedAttestation
    <2> QED BY <1>0, <1>2, <2>1 DEF SubmitSignedAttestation
  <1>3. ASSUME NEW s \in RiskSignals, SubmitRiskAttestation(s)
        PROVE  CountsEverything(latest')
    <2>1. Healthy(s)
      BY <1>3, VerifiedWords DEF SubmitRiskAttestation
    <2> QED BY <1>0, <1>3, <2>1 DEF SubmitRiskAttestation
  <1>4. ASSUME NEW s \in UnifiedSignals, NEW keys \in KeyWords, SubmitUnifiedAttestation(s, keys)
        PROVE  CountsEverything(latest')
    <2>1. Healthy(s)
      BY <1>4, VerifiedWords DEF SubmitUnifiedAttestation
    <2> QED BY <1>0, <1>4, <2>1 DEF SubmitUnifiedAttestation
  <1>5. ASSUME NEW s \in BaseSignals, SubmitMultiAttestation(s)
        PROVE  CountsEverything(latest')
    <2>1. Healthy(s)
      BY <1>5, VerifiedWords DEF SubmitMultiAttestation
    <2> QED BY <1>0, <1>5, <2>1 DEF SubmitMultiAttestation
  <1>6. ASSUME NEW s \in BaseSignals, NEW legs \in PricedLegLists,
               SubmitPricedAttestation(s, legs)
        PROVE  CountsEverything(latest')
    <2>1. Healthy(s)
      BY <1>6, VerifiedWords DEF SubmitPricedAttestation
    <2> QED BY <1>0, <1>6, <2>1 DEF SubmitPricedAttestation
  <1> QED BY <1>1, <1>2, <1>3, <1>4, <1>5, <1>6 DEF Submission

\* NoHiddenLiability, for every instance: the balances of the attested tree,
\* added as integers, never exceed the total, nor the total the reserves, nor
\* the reserves what stood behind them.
THEOREM NothingHidden == Spec => []NoHiddenLiability
  <1> DEFINE CountsInv == latest # None => CountsEverything(latest)
  <1>1. Init => CountsInv
    BY DEF Init
  <1>2. TypeOK /\ CountsInv /\ [Next]_vars => CountsInv'
    <2> SUFFICES ASSUME TypeOK, CountsInv, [Next]_vars PROVE CountsInv'
      OBVIOUS
    <2>1. CASE UNCHANGED attestationVars
      BY <2>1 DEF attestationVars
    <2> QED BY <2>1, SubmissionCounts, StepSubmits
  <1>3. CountsInv <=> NoHiddenLiability
    BY DEF NoHiddenLiability, CountsEverything, LeafBalances
  <1> QED BY <1>1, <1>2, <1>3, TypeCorrectness, PTL DEF Spec

----------------------------------------------------------------------------
(***************************************************************************)
(* The holdings behind several legs.                                       *)
(***************************************************************************)

\* What distinct holdings are worth, as a sum.
LEMMA HoldingsIsSum ==
  ASSUME NEW P, IsFiniteSet(P)
  PROVE  Holdings(P) = SumFunctionOnSet([p \in P |-> balance[p[1]][p[2]]], P)
  <1> DEFINE f == [p \in P |-> balance[p[1]][p[2]]]
             Steps(g) == g = [s \in SUBSET P |->
               IF s = {} THEN 0
               ELSE balance[Picked(s)[1]][Picked(s)[2]] + g[s \ {Picked(s)}]]
             h == CHOOSE g : Steps(g)
  <1>1. Holdings(P) = h[P]
    BY DEF Holdings, MapThenSumSet, MapThenFoldSet, Picked
  <1>2. \A g : Steps(g) <=> IsFold(g, f, SUBSET P)
    <2>1. \A s \in SUBSET P : s # {} =>
            f[Picked(s)] = balance[Picked(s)[1]][Picked(s)[2]]
      BY PickedIn
    <2>2. ASSUME NEW g
          PROVE  [s \in SUBSET P |-> IF s = {} THEN 0
                    ELSE balance[Picked(s)[1]][Picked(s)[2]] + g[s \ {Picked(s)}]]
                 = [s \in SUBSET P |-> IF s = {} THEN 0 ELSE f[Picked(s)] + g[s \ {Picked(s)}]]
      BY <2>1
    <2> HIDE DEF f
    <2> QED BY <2>2 DEF IsFold
  <1>3. \E g : Steps(g)
    BY <1>2, FoldExists
  <1>4. Steps(h)
    BY <1>3, Zenon
  <1> HIDE DEF h, f, Steps
  <1>5. IsFold(h, f, SUBSET P)
    BY <1>2, <1>4
  <1>6. PICK g : IsFold(g, f, SUBSET P) /\ SumFunctionOnSet(f, P) = g[P]
    BY SumIsFold
  <1>7. g[P] = h[P]
    BY ONLY <1>5, <1>6, IsFiniteSet(P), FoldUnique, SMTT(30)
  <1> QED BY <1>1, <1>6, <1>7 DEF f

\* Legs that name no holding twice.
DistinctHoldings(legs) ==
  \A i, j \in DOMAIN legs :
    legs[i].holder = legs[j].holder /\ legs[i].token = legs[j].token => i = j

\* What stands behind distinct legs is what their holdings are worth.
LEMMA DistinctLegsAddUp ==
  ASSUME TypeOK, NEW legs \in Seq(ReserveLeg), DistinctHoldings(legs)
  PROVE  LET pairs == {<<legs[i].holder, legs[i].token>> : i \in DOMAIN legs}
         IN IsFiniteSet(pairs) /\ AggregateReserves(legs) = Holdings(pairs)
  <1> DEFINE r == [i \in DOMAIN legs |-> <<legs[i].holder, legs[i].token>>]
             P == {r[i] : i \in DOMAIN legs}
             f == [i \in DOMAIN legs |-> balance[legs[i].holder][legs[i].token]]
             e == [p \in P |-> balance[p[1]][p[2]]]
  <1>1. DOMAIN legs = 1..Len(legs) /\ Len(legs) \in Nat
    BY LenProperties
  <1>2. IsFiniteSet(DOMAIN legs)
    BY <1>1, FS_Interval
  <1>3. \A i, j \in DOMAIN legs : r[i] = r[j] => i = j
    BY DEF DistinctHoldings
  <1>4. \A i \in DOMAIN legs : f[i] \in Int /\ e[r[i]] = f[i]
    <2> SUFFICES ASSUME NEW i \in DOMAIN legs PROVE f[i] \in Int /\ e[r[i]] = f[i]
      OBVIOUS
    <2>1. legs[i].holder \in Accounts /\ legs[i].token \in Tokens
      <3> HIDE DEF P, r, f, e
      <3>1. legs[i] \in ReserveLeg
        BY <1>1, ElementOfSeq
      <3> QED BY <3>1 DEF ReserveLeg
    <2>2. f[i] \in Int
      BY <2>1, WidthAssumption DEF TypeOK, I128
    <2>3. r[i] \in P /\ r[i][1] = legs[i].holder /\ r[i][2] = legs[i].token
      OBVIOUS
    <2>4. e[r[i]] = f[i]
      <3> HIDE DEF P, r
      <3> QED BY <2>3
    <2> QED BY <2>2, <2>4
  <1>5. AggregateReserves(legs) = SumFunctionOnSet(f, DOMAIN legs)
    BY DEF AggregateReserves, SumFunction
  <1>6. P = {<<legs[i].holder, legs[i].token>> : i \in DOMAIN legs}
    OBVIOUS
  <1> DEFINE D == DOMAIN legs
  <1>7. P = {r[i] : i \in D}
    OBVIOUS
  <1>8. IsFiniteSet(P) /\ SumFunctionOnSet(e, P) = SumFunctionOnSet(f, D)
    <2> HIDE DEF r, e, f, P, D
    <2>1. IsFiniteSet(D)
      BY <1>2 DEF D
    <2>2. \A i, j \in D : r[i] = r[j] => i = j
      BY <1>3 DEF D
    <2>3. \A i \in D : f[i] \in Int /\ e[r[i]] = f[i]
      BY <1>4 DEF D
    <2> QED BY ONLY <1>7, <2>1, <2>2, <2>3, SumImage
  <1>9. Holdings(P) = SumFunctionOnSet(e, P)
    BY <1>8, HoldingsIsSum
  <1> HIDE DEF f, e, P
  <1> QED BY <1>5, <1>6, <1>8, <1>9

\* The legs in force were given to set_reserve_legs and are in the reserve token.
LegsInv ==
  reserveLegs # <<>> =>
    /\ reserveLegs \in LegLists
    /\ \A i \in DOMAIN reserveLegs : reserveLegs[i].token = ReserveToken

\* No step but set_reserve_legs writes them.
LEMMA LegsInvariance == Spec => []LegsInv
  <1>1. Init => LegsInv
    BY DEF Init, LegsInv
  <1>2. LegsInv /\ [Next]_vars => LegsInv'
    <2> SUFFICES ASSUME LegsInv, [Next]_vars PROVE LegsInv'
      OBVIOUS
    <2>1. CASE UNCHANGED reserveLegs
      BY <2>1 DEF LegsInv
    <2>2. CASE \E legs \in LegLists : SetReserveLegs(legs)
      BY <2>2 DEF SetReserveLegs, LegsInv
    <2>3. CASE Submission
      BY <2>1, <2>3 DEF Submission, SubmitAttestation, SubmitSignedAttestation,
         SubmitRiskAttestation, SubmitUnifiedAttestation, SubmitMultiAttestation,
         SubmitPricedAttestation, setupVars
    <2>4. CASE \/ \E config \in OracleConfigs : SetOracleConfig(config)
               \/ \E customer \in Customers, key \in Keys : RegisterCustomerKey(customer, key)
               \/ \E batch \in LeafBatches : RegisterSignedLeaves(batch)
               \/ \E a \in Accounts, t \in Tokens, v \in Balances : Transfer(a, t, v)
               \/ CloseLedger
               \/ \E r \in Reflectors, f \in Feeds, q \in Quotes : PublishQuote(r, f, q)
      BY <2>1, <2>4 DEF SetOracleConfig, RegisterCustomerKey, RegisterSignedLeaves,
         Transfer, CloseLedger, PublishQuote, setupVars
    <2>5. CASE UNCHANGED vars
      BY <2>1, <2>5 DEF vars, setupVars
    <2> QED BY <2>2, <2>3, <2>4, <2>5 DEF Next, Submission
  <1> QED BY <1>1, <1>2, PTL DEF Spec

\* What MultiAttestationBacked asks of one step.
LegPairs == {<<reserveLegs[i].holder, reserveLegs[i].token>> : i \in DOMAIN reserveLegs}
MultiBacked ==
  multiLatest' # multiLatest =>
    /\ multiLatest'.reserves <= Holdings(LegPairs)
    /\ LegPairs \subseteq Signers \X {ReserveToken}

\* MultiAttestationBacked, for every instance whose leg lists name no holding
\* twice: the contract does not check that, see RepeatedLegs.
THEOREM DistinctLegsBack ==
  ASSUME \A legs \in LegLists : DistinctHoldings(legs)
  PROVE  Spec => MultiAttestationBacked
  <1>1. ASSUME TypeOK, LegsInv, [Next]_vars PROVE MultiBacked
    <2>1. CASE \E s \in BaseSignals : SubmitMultiAttestation(s)
      <3>1. PICK s \in BaseSignals : SubmitMultiAttestation(s)
        BY <2>1
      <3>2. /\ reserveLegs # <<>>
            /\ \A i \in DOMAIN reserveLegs : reserveLegs[i].holder \in Signers
            /\ s.reserves <= AggregateReserves(reserveLegs)
            /\ multiLatest'.reserves = s.reserves
        BY <3>1 DEF SubmitMultiAttestation, EveryHolderAuthorizes
      <3>3. reserveLegs \in Seq(ReserveLeg) /\ DistinctHoldings(reserveLegs)
        BY <1>1, <3>2 DEF TypeOK, LegsInv
      <3>4. AggregateReserves(reserveLegs) = Holdings(LegPairs)
        BY <1>1, <3>3, DistinctLegsAddUp DEF LegPairs
      <3>5. LegPairs \subseteq Signers \X {ReserveToken}
        BY <1>1, <3>2 DEF LegsInv, LegPairs
      <3> QED BY <3>2, <3>4, <3>5 DEF MultiBacked
    <2>2. CASE Submission /\ ~(\E s \in BaseSignals : SubmitMultiAttestation(s))
      BY <2>2 DEF Submission, SubmitAttestation, SubmitSignedAttestation,
         SubmitRiskAttestation, SubmitUnifiedAttestation, SubmitPricedAttestation, MultiBacked
    <2>3. CASE UNCHANGED attestationVars
      BY <2>3 DEF attestationVars, MultiBacked
    <2> QED BY <1>1, <2>1, <2>2, <2>3, StepSubmits
  <1>2. TypeOK /\ LegsInv /\ [Next]_vars => [MultiBacked]_vars
    BY <1>1
  <1> QED BY <1>2, TypeCorrectness, LegsInvariance, PTL
          DEF Spec, MultiAttestationBacked, MultiBacked, LegPairs

----------------------------------------------------------------------------
(***************************************************************************)
(* What priced legs are worth.                                             *)
(***************************************************************************)

\* A holding at its quote, before it is scaled down.
Worth(leg) == balance[leg.holder][leg.token] * LegQuote(leg).price

WorthOf(legSet) ==
  MapThenSumSet(LAMBDA leg : balance[leg.holder][leg.token] * LegQuote(leg).price, legSet)

\* What distinct legs are worth, as a sum.
LEMMA WorthIsSum ==
  ASSUME NEW P, IsFiniteSet(P)
  PROVE  WorthOf(P) = SumFunctionOnSet([leg \in P |-> Worth(leg)], P)
  <1> DEFINE f == [leg \in P |-> Worth(leg)]
             Steps(g) == g = [s \in SUBSET P |->
               IF s = {} THEN 0 ELSE Worth(Picked(s)) + g[s \ {Picked(s)}]]
             h == CHOOSE g : Steps(g)
  <1>1. WorthOf(P) = h[P]
    BY DEF WorthOf, Worth, MapThenSumSet, MapThenFoldSet, Picked
  <1>2. \A g : Steps(g) <=> IsFold(g, f, SUBSET P)
    <2>1. \A s \in SUBSET P : s # {} => f[Picked(s)] = Worth(Picked(s))
      BY PickedIn
    <2>2. ASSUME NEW g
          PROVE  [s \in SUBSET P |-> IF s = {} THEN 0
                    ELSE Worth(Picked(s)) + g[s \ {Picked(s)}]]
                 = [s \in SUBSET P |-> IF s = {} THEN 0 ELSE f[Picked(s)] + g[s \ {Picked(s)}]]
      BY <2>1
    <2> HIDE DEF f
    <2> QED BY <2>2 DEF IsFold
  <1>3. \E g : Steps(g)
    BY <1>2, FoldExists
  <1>4. Steps(h)
    BY <1>3, Zenon
  <1> HIDE DEF h, f, Steps
  <1>5. IsFold(h, f, SUBSET P)
    BY <1>2, <1>4
  <1>6. PICK g : IsFold(g, f, SUBSET P) /\ SumFunctionOnSet(f, P) = g[P]
    BY SumIsFold
  <1>7. g[P] = h[P]
    BY ONLY <1>5, <1>6, IsFiniteSet(P), FoldUnique, SMTT(30)
  <1> QED BY <1>1, <1>6, <1>7 DEF f

\* Scaling rounds down.
LEMMA DivisionRoundsDown ==
  ASSUME NEW a \in Int, NEW d \in Nat \ {0}
  PROVE  (a \div d) \in Int /\ (a \div d) * d <= a
  OBVIOUS

\* Legs that are not named twice.
DistinctLegs(legs) == \A i, j \in DOMAIN legs : legs[i] = legs[j] => i = j

\* A priced leg has a holding and a quote that are numbers.
LEMMA PricedLegTypes ==
  ASSUME TypeOK, NEW legs \in Seq(PricedLeg), oracleConfig # None,
         NEW i \in DOMAIN legs, LegPriced(legs[i])
  PROVE  /\ balance[legs[i].holder][legs[i].token] \in Int
         /\ LegQuote(legs[i]).price \in Int
         /\ LegQuote(legs[i]).ledger \in Int
         /\ oracleConfig.max_staleness \in Nat
  <1>1. legs[i] \in PricedLeg
    <2>1. DOMAIN legs = 1..Len(legs)
      BY LenProperties
    <2> QED BY <2>1, ElementOfSeq
  <1>2. balance[legs[i].holder][legs[i].token] \in Int
    BY <1>1, WidthAssumption DEF TypeOK, I128, PricedLeg
  <1>3. oracleConfig.reflector \in Reflectors /\ oracleConfig.max_staleness \in Nat
    BY DEF TypeOK, OracleConfig
  <1>4. LegQuote(legs[i]) \in Quote
    BY <1>1, <1>3 DEF TypeOK, LegPriced, LegQuote, PricedLeg
  <1> QED BY <1>2, <1>3, <1>4, WidthAssumption DEF Quote, Ledgers

\* The aggregate of distinct priced legs is at most what they are worth.
LEMMA PricedLegsAddUp ==
  ASSUME TypeOK, NEW legs \in Seq(PricedLeg), DistinctLegs(legs), oracleConfig # None,
         \A i \in DOMAIN legs : LegPriced(legs[i])
  PROVE  /\ PricedReserves(legs) \in Int
         /\ WorthOf({legs[i] : i \in DOMAIN legs}) \in Int
         /\ PricedReserves(legs) * PriceDenominator <= WorthOf({legs[i] : i \in DOMAIN legs})
  <1> DEFINE D == DOMAIN legs
             P == {legs[i] : i \in D}
             w == [i \in D |-> Worth(legs[i])]
             c == [i \in D |-> Scaled(balance[legs[i].holder][legs[i].token],
                                       LegQuote(legs[i]).price)]
             cd == [i \in D |-> c[i] * PriceDenominator]
             e == [leg \in P |-> Worth(leg)]
  <1>1. IsFiniteSet(D)
    <2>1. DOMAIN legs = 1..Len(legs) /\ Len(legs) \in Nat
      BY LenProperties
    <2> QED BY <2>1, FS_Interval
  <1>2. \A i \in D : w[i] \in Int /\ c[i] = w[i] \div PriceDenominator /\ e[legs[i]] = w[i]
    <2> SUFFICES ASSUME NEW i \in D
                 PROVE  w[i] \in Int /\ c[i] = w[i] \div PriceDenominator /\ e[legs[i]] = w[i]
      OBVIOUS
    <2>1. /\ balance[legs[i].holder][legs[i].token] \in Int
          /\ LegQuote(legs[i]).price \in Int
      BY PricedLegTypes
    <2>2. w[i] = Worth(legs[i]) /\ legs[i] \in P
      OBVIOUS
    <2>3. c[i] = Scaled(balance[legs[i].holder][legs[i].token], LegQuote(legs[i]).price)
      OBVIOUS
    <2>4. e[legs[i]] = Worth(legs[i])
      BY <2>2
    <2> HIDE DEF w, c, e
    <2> QED BY <2>1, <2>2, <2>3, <2>4 DEF Worth, Scaled
  <1>3. \A i \in D : c[i] \in Int /\ cd[i] = c[i] * PriceDenominator
                   /\ cd[i] \in Int /\ cd[i] <= w[i]
    <2> SUFFICES ASSUME NEW i \in D
                 PROVE  c[i] \in Int /\ cd[i] = c[i] * PriceDenominator
                        /\ cd[i] \in Int /\ cd[i] <= w[i]
      OBVIOUS
    <2>1. cd[i] = c[i] * PriceDenominator
      OBVIOUS
    <2> HIDE DEF w, c, cd, e
    <2>2. w[i] \in Int /\ c[i] = w[i] \div PriceDenominator
      BY <1>2
    <2>3. PriceDenominator \in Nat \ {0}
      BY WidthAssumption
    <2>4. \A a \in Int : a \div PriceDenominator \in Int /\ (a \div PriceDenominator) * PriceDenominator <= a
      BY <2>3, DivisionRoundsDown
    <2>5. c[i] \in Int /\ c[i] * PriceDenominator <= w[i]
      BY <2>2, <2>4
    <2> QED BY <2>1, <2>3, <2>5
  <1>4. PricedReserves(legs) = SumFunctionOnSet(c, D)
    BY DEF PricedReserves, SumFunction
  <1>5. \A i, j \in D : legs[i] = legs[j] => i = j
    BY DEF DistinctLegs
  <1>6. P = {legs[i] : i \in D} /\ P = {legs[i] : i \in DOMAIN legs}
    OBVIOUS
  <1>7. WorthOf(P) = SumFunctionOnSet(w, D)
    <2> HIDE DEF w, c, cd, P, D
    <2>1. IsFiniteSet(P) /\ SumFunctionOnSet(e, P) = SumFunctionOnSet(w, D)
      <3> HIDE DEF e
      <3>1. \A i \in D : w[i] \in Int /\ e[legs[i]] = w[i]
        BY <1>2
      <3>2. P = {legs[i] : i \in D}
        BY <1>6
      <3> QED BY ONLY <1>1, <1>5, <3>1, <3>2, SumImage
    <2> QED BY <2>1, WorthIsSum
  <1> HIDE DEF w, c, cd, e, P, D
  <1>8. SumFunctionOnSet(c, D) \in Int /\ SumFunctionOnSet(w, D) \in Int
    BY <1>1, <1>2, <1>3, SumType
  <1>9. SumFunctionOnSet(cd, D) = SumFunctionOnSet(c, D) * PriceDenominator
    <2>1. PriceDenominator \in Int
      BY WidthAssumption
    <2> QED BY <1>1, <1>3, <2>1, SumScale
  <1>10. SumFunctionOnSet(cd, D) <= SumFunctionOnSet(w, D)
    BY <1>1, <1>2, <1>3, SumMonotonic
  <1> QED BY <1>4, <1>6, <1>7, <1>8, <1>9, <1>10

\* What PricedAttestationBacked asks of one step.
PricedBacked ==
  pricedLatest' # pricedLatest =>
    \E legs \in PricedLegLists :
      LET legSet == {legs[i] : i \in DOMAIN legs}
      IN /\ pricedLatest'.leg_count = Len(legs)
         /\ \A leg \in legSet :
              /\ leg.holder \in Signers
              /\ leg.feed \in oracleConfig.feeds
              /\ LegQuote(leg) # None
              /\ LegQuote(leg).price > 0
              /\ LegQuote(leg).ledger >= pricedLatest'.oldest_price_ledger
              /\ ledger - LegQuote(leg).ledger <= oracleConfig.max_staleness
         /\ pricedLatest'.reserves * PriceDenominator <= WorthOf(legSet)

\* PricedAttestationBacked, for every instance whose leg lists name no leg
\* twice: at fresh, positive quotes of pinned feeds, before any rounding, the
\* legs are worth the declared reserves, and their holders authorized.
THEOREM DistinctPricedLegsBack ==
  ASSUME \A legs \in PricedLegLists : DistinctLegs(legs)
  PROVE  Spec => PricedAttestationBacked
  <1>1. ASSUME TypeOK, [Next]_vars PROVE PricedBacked
    <2>1. CASE \E s \in BaseSignals, legs \in PricedLegLists : SubmitPricedAttestation(s, legs)
      <3>1. PICK s \in BaseSignals, legs \in PricedLegLists : SubmitPricedAttestation(s, legs)
        BY <2>1
      <3>2. /\ oracleConfig # None
            /\ EveryHolderAuthorizes(legs)
            /\ \A i \in DOMAIN legs : LegPriced(legs[i])
            /\ s.reserves <= PricedReserves(legs)
        BY <3>1 DEF SubmitPricedAttestation
      <3>3. PICK oldest \in Ledgers :
              /\ OldestQuote(oldest, legs)
              /\ pricedLatest' = [root |-> s.root, total |-> s.total, reserves |-> s.reserves,
                                  bound |-> PricedReserves(legs), leg_count |-> Len(legs),
                                  oldest_price_ledger |-> oldest,
                                  ledger |-> ledger, epoch |-> epoch]
        BY <3>1 DEF SubmitPricedAttestation
      <3>4. legs \in Seq(PricedLeg) /\ DistinctLegs(legs)
        BY ChainAssumption
      <3> DEFINE legSet == {legs[i] : i \in DOMAIN legs}
      <3>5. ASSUME NEW i \in DOMAIN legs
            PROVE  /\ legs[i].holder \in Signers
                   /\ legs[i].feed \in oracleConfig.feeds
                   /\ LegQuote(legs[i]) # None
                   /\ LegQuote(legs[i]).price > 0
                   /\ LegQuote(legs[i]).ledger >= oldest
                   /\ ledger - LegQuote(legs[i]).ledger <= oracleConfig.max_staleness
        <4>1. /\ LegQuote(legs[i]).ledger \in Int
              /\ oracleConfig.max_staleness \in Nat
              /\ ledger \in Int /\ oldest \in Int
          BY <1>1, <3>2, <3>4, PricedLegTypes, WidthAssumption DEF TypeOK, Ledgers
        <4> QED BY <3>2, <3>3, <4>1 DEF EveryHolderAuthorizes, LegPriced, QuoteFresh, OldestQuote
      <3>6. s.reserves * PriceDenominator <= WorthOf(legSet)
        <4>1. /\ PricedReserves(legs) \in Int
              /\ WorthOf(legSet) \in Int
              /\ PricedReserves(legs) * PriceDenominator <= WorthOf(legSet)
          BY <1>1, <3>2, <3>4, PricedLegsAddUp
        <4>2. s.reserves \in Nat
          BY SignalTypes
        <4>3. s.reserves * PriceDenominator <= PricedReserves(legs) * PriceDenominator
          BY <3>2, <4>1, <4>2, WidthAssumption, ProductGrows
        <4> HIDE DEF legSet
        <4> QED BY <4>1, <4>2, <4>3, WidthAssumption
      <3>7. \A leg \in legSet : \E i \in DOMAIN legs : leg = legs[i]
        OBVIOUS
      <3>8. /\ pricedLatest'.leg_count = Len(legs) /\ pricedLatest'.reserves = s.reserves
            /\ pricedLatest'.oldest_price_ledger = oldest
        BY <3>3
      <3> QED BY <3>5, <3>6, <3>7, <3>8 DEF PricedBacked
    <2>2. CASE /\ Submission
               /\ ~(\E s \in BaseSignals, legs \in PricedLegLists :
                      SubmitPricedAttestation(s, legs))
      BY <2>2 DEF Submission, SubmitAttestation, SubmitSignedAttestation,
         SubmitRiskAttestation, SubmitUnifiedAttestation, SubmitMultiAttestation, PricedBacked
    <2>3. CASE UNCHANGED attestationVars
      BY <2>3 DEF attestationVars, PricedBacked
    <2> QED BY <1>1, <2>1, <2>2, <2>3, StepSubmits
  <1>2. TypeOK /\ [Next]_vars => [PricedBacked]_vars
    BY <1>1
  <1> QED BY <1>2, TypeCorrectness, PTL
          DEF Spec, PricedAttestationBacked, PricedBacked, WorthOf

=============================================================================
