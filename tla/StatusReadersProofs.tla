------------------------- MODULE StatusReadersProofs -------------------------
(***************************************************************************)
(* Theorems about the readers of the contract, for any lag of the nodes,   *)
(* any number of tries and any ledger: what a reader shows was attested    *)
(* and backed, is recent, and a member told "included" is counted.         *)
(***************************************************************************)
EXTENDS StatusReaders, TesseraLedgerProofs

\* The figures of an attestation were covered when it was stored.
Backed(att) == att.total <= att.reserves /\ att.reserves <= att.bound

LatestInv == latest # None => Backed(latest) /\ latest.ledger <= ledger

\* The attestation a closed ledger answers is an event's, is backed and has a
\* stamp; the leaves it lists were signed for an epoch that has been attested.
ViewsInv ==
  \A n \in DOMAIN views :
    /\ views[n].latest # None =>
         /\ views[n].latest \in Attestation
         /\ Backed(views[n].latest)
         /\ views[n].latest.ledger <= ledger
         /\ views[n].latest.epoch + 1 \in DOMAIN events
         /\ events[views[n].latest.epoch + 1].root = views[n].latest.root
    /\ views[n].registry # None =>
         \A i \in DOMAIN views[n].registry.leaves :
           \E m \in MemberSignatures :
             m.commitment = views[n].registry.leaves[i] /\ m.epoch \in 0..(epoch - 1)

\* Once something is attested, no later ledger answers that nothing is.
EmptyInv ==
  \A n \in DOMAIN views :
    /\ latest = None => views[n].latest = None
    /\ views[n].latest = None => \A m \in 1..n : views[m].latest = None

\* One answer per closed ledger, one stamp per ledger.
View ==
  [latest : Attestation \cup {None}, epochs : U32, registry : SignedRegistry \cup {None},
   live : I128]
ClockInv ==
  /\ views \in Seq(View) /\ Len(views) = ledger
  /\ stamps \in Seq(Nat) /\ Len(stamps) = ledger + 1
  /\ clock \in Nat

\* What TesseraLedgerProofs proves of the contract.
LedgerFacts == TypeOK /\ HistoryInv /\ RegistryPinned

ChainInv == LatestInv /\ ViewsInv /\ EmptyInv /\ ClockInv

----------------------------------------------------------------------------
(***************************************************************************)
(* The contract and its closed ledgers.                                    *)
(***************************************************************************)

\* A step of the readers or of the chain is one of the contract or leaves it.
LEMMA ReadersStepIsLedgerStep == [ReadersNext]_allVars => [Next]_vars
  BY DEF ReadersNext, allVars

\* Whatever is stored in Latest was covered, on every path.
LEMMA SubmissionBacked ==
  ASSUME TypeOK, Submission
  PROVE  /\ latest' # None => Backed(latest') /\ latest'.ledger = ledger
         /\ ledger' = ledger
  <1>0. balance[ReserveHolder][ReserveToken] \in I128
    BY DeploymentAssumption DEF TypeOK
  <1> USE SignalTypes DEF Backed, Store, StoreHeld, HolderBacks, chainVars
  <1>1. ASSUME NEW s \in BaseSignals, SubmitAttestation(s)
        PROVE  Backed(latest') /\ latest'.ledger = ledger /\ ledger' = ledger
    BY <1>0, <1>1 DEF SubmitAttestation
  <1>2. ASSUME NEW s \in SignedSignals, NEW keys \in KeyWords, SubmitSignedAttestation(s, keys)
        PROVE  Backed(latest') /\ latest'.ledger = ledger /\ ledger' = ledger
    BY <1>0, <1>2 DEF SubmitSignedAttestation
  <1>3. ASSUME NEW s \in RiskSignals, SubmitRiskAttestation(s)
        PROVE  Backed(latest') /\ latest'.ledger = ledger /\ ledger' = ledger
    BY <1>0, <1>3 DEF SubmitRiskAttestation
  <1>4. ASSUME NEW s \in UnifiedSignals, NEW keys \in KeyWords, SubmitUnifiedAttestation(s, keys)
        PROVE  Backed(latest') /\ latest'.ledger = ledger /\ ledger' = ledger
    BY <1>0, <1>4 DEF SubmitUnifiedAttestation
  <1>5. ASSUME NEW s \in BaseSignals, SubmitMultiAttestation(s)
        PROVE  Backed(latest') /\ latest'.ledger = ledger /\ ledger' = ledger
    BY <1>5 DEF SubmitMultiAttestation
  <1>6. ASSUME NEW s \in BaseSignals, NEW legs \in PricedLegLists,
               SubmitPricedAttestation(s, legs)
        PROVE  Backed(latest') /\ latest'.ledger = ledger /\ ledger' = ledger
    BY <1>6 DEF SubmitPricedAttestation
  <1> QED BY <1>1, <1>2, <1>3, <1>4, <1>5, <1>6 DEF Submission

\* A step that stores no attestation may close the ledger.
LEMMA StepLedger ==
  ASSUME TypeOK, [Next]_vars
  PROVE  \/ ledger' = ledger
         \/ ledger' = ledger + 1 /\ UNCHANGED <<attestationVars, setupVars>>
  <1>1. CASE UNCHANGED vars
    BY <1>1 DEF vars, chainVars
  <1>2. CASE Submission
    BY <1>2, SubmissionBacked
  <1>3. CASE \/ \E legs \in LegLists : SetReserveLegs(legs)
             \/ \E config \in OracleConfigs : SetOracleConfig(config)
             \/ \E customer \in Customers, key \in Keys : RegisterCustomerKey(customer, key)
             \/ \E batch \in LeafBatches : RegisterSignedLeaves(batch)
             \/ \E a \in Accounts, t \in Tokens, v \in Balances : Transfer(a, t, v)
             \/ \E r \in Reflectors, f \in Feeds, q \in Quotes : PublishQuote(r, f, q)
    BY <1>3 DEF SetReserveLegs, SetOracleConfig, RegisterCustomerKey, RegisterSignedLeaves,
                Transfer, PublishQuote, chainVars
  <1>4. CASE CloseLedger
    BY <1>4 DEF CloseLedger
  <1> QED BY <1>1, <1>2, <1>3, <1>4 DEF Next, Submission

\* The history only grows, and something attested stays so.
LEMMA HistoryGrows ==
  ASSUME TypeOK, [Next]_vars
  PROVE  /\ \A i \in DOMAIN events : i \in DOMAIN events' /\ events'[i] = events[i]
         /\ epoch' >= epoch
         /\ latest # None => latest' # None
  <1>1. CASE UNCHANGED attestationVars
    BY <1>1 DEF attestationVars, TypeOK, U32
  <1>2. ASSUME NEW root \in RootWords, NEW topic \in Topics, NEW e \in Nat \cup {None},
               Recorded(root, topic, e)
        PROVE  /\ \A i \in DOMAIN events : i \in DOMAIN events' /\ events'[i] = events[i]
               /\ epoch' >= epoch
               /\ latest # None => latest' # None
    <2>1. Extended(root, topic, e)
      BY <1>2, RecordedEvents
    <2>2. epoch' = epoch + 1 /\ epoch \in Nat /\ latest' # None
      BY <1>2 DEF Recorded, TypeOK, U32
    <2> QED BY <2>1, <2>2 DEF Extended
  <1> QED BY <1>1, <1>2, StepRecords

\* Latest stays backed and is never from a ledger to come.
LEMMA LatestStep ==
  ASSUME TypeOK, LatestInv, [Next]_vars
  PROVE  LatestInv'
  <1>1. CASE Submission
    BY <1>1, SubmissionBacked DEF LatestInv, TypeOK, Attestation, Ledgers
  <1>2. CASE UNCHANGED attestationVars
    <2>1. ledger' \in {ledger, ledger + 1} /\ ledger \in Nat
      BY StepLedger DEF TypeOK, Ledgers
    <2>2. latest # None => latest.ledger \in Nat
      BY DEF TypeOK, Attestation, Ledgers
    <2> QED BY <1>2, <2>1, <2>2 DEF LatestInv, attestationVars, Backed
  <1> QED BY <1>1, <1>2, StepSubmits

\* What the contract answers now can be sealed.
LEMMA ClosingFits ==
  ASSUME LedgerFacts, LatestInv
  PROVE  /\ latest # None =>
              /\ latest \in Attestation
              /\ Backed(latest)
              /\ latest.ledger <= ledger
              /\ latest.epoch + 1 \in DOMAIN events
              /\ events[latest.epoch + 1].root = latest.root
         /\ registry # None =>
              \A i \in DOMAIN registry.leaves :
                \E m \in MemberSignatures :
                  m.commitment = registry.leaves[i] /\ m.epoch \in 0..(epoch - 1)
  <1>1. events \in Seq(Event) /\ Len(events) \in Nat /\ DOMAIN events = 1..Len(events)
    BY DEF LedgerFacts, TypeOK
  <1>2. ASSUME latest # None
        PROVE  latest.epoch + 1 \in DOMAIN events /\ events[latest.epoch + 1].root = latest.root
    <2>1. /\ events # <<>> /\ latest.root = events[Len(events)].root
          /\ latest.epoch = events[Len(events)].epoch
      BY <1>2 DEF LedgerFacts, HistoryInv, LatestIsNewest, LastEvent
    <2>2. Len(events) \in DOMAIN events
      BY <1>1, <2>1, LenProperties, EmptySeq
    <2>3. latest.epoch = Len(events) - 1
      BY <2>1, <2>2 DEF LedgerFacts, HistoryInv, LatestIsNewest
    <2> QED BY <1>1, <2>1, <2>2, <2>3
  <1>3. ASSUME registry # None, NEW i \in DOMAIN registry.leaves
        PROVE  \E m \in MemberSignatures :
                 m.commitment = registry.leaves[i] /\ m.epoch \in 0..(epoch - 1)
    <2>1. PICK j \in DOMAIN events : registry.epoch = events[j].epoch
      BY <1>3 DEF LedgerFacts, RegistryPinned
    <2>2. events[j].epoch = j - 1 /\ epoch = Len(events)
      BY DEF LedgerFacts, HistoryInv, LatestIsNewest
    <2>3. PICK m \in MemberSignatures :
            m.epoch = registry.epoch /\ m.commitment = registry.leaves[i]
      BY <1>3 DEF LedgerFacts, RegistryPinned
    <2> QED BY <1>1, <2>1, <2>2, <2>3
  <1> QED BY <1>2, <1>3 DEF LedgerFacts, LatestInv, TypeOK

\* A step either seals the ledger as it is, or leaves the closed ledgers alone.
LEMMA StepSeals ==
  ASSUME TypeOK, ClockInv, [ReadersNext]_allVars
  PROVE  \/ UNCHANGED <<views, stamps, clock, ledger>>
         \/ /\ UNCHANGED <<attestationVars, setupVars, reader>>
            /\ ledger' = ledger + 1
            /\ views' = Append(views, Closing)
            /\ clock' \in Nat
            /\ clock' >= clock
            /\ stamps' = Append(stamps, clock')
  <1>1. ledger \in Nat
    BY DEF TypeOK, Ledgers
  <1>2. CASE ledger' # ledger
    <2>1. Next /\ Seal /\ UNCHANGED reader
      BY <1>2 DEF ReadersNext, allVars, vars, chainVars
    <2>2. ledger' = ledger + 1 /\ UNCHANGED <<attestationVars, setupVars>>
      BY <1>2, <2>1, StepLedger
    <2>3. PICK d \in LedgerTicks : clock' = clock + d
      BY <2>1 DEF Seal
    <2>4. clock' \in Nat /\ clock' >= clock
      BY <2>3, ReaderAssumption DEF ClockInv
    <2> QED BY <2>1, <2>2, <2>4 DEF Seal
  <1>3. CASE ledger' = ledger
    BY <1>3 DEF ReadersNext, allVars, readerVars
  <1> QED BY <1>2, <1>3

\* The closed ledgers and their stamps as they were, after a step.
Extends ==
  /\ Len(views') >= Len(views)
  /\ \A n \in DOMAIN views : n \in DOMAIN views' /\ views'[n] = views[n]
  /\ \A i \in DOMAIN stamps : i \in DOMAIN stamps' /\ stamps'[i] = stamps[i]
  /\ clock' >= clock

\* Closed ledgers do not change.
LEMMA StepExtends ==
  ASSUME TypeOK, ClockInv, [ReadersNext]_allVars
  PROVE  Extends
  <1>1. CASE UNCHANGED <<views, stamps, clock, ledger>>
    BY <1>1 DEF Extends, ClockInv
  <1>2. CASE /\ views' = Append(views, Closing)
             /\ clock' >= clock
             /\ stamps' = Append(stamps, clock')
    BY <1>2 DEF Extends, ClockInv
  <1> QED BY <1>1, <1>2, StepSeals

\* The contract's part of the invariant.
LEMMA ChainStep ==
  ASSUME LedgerFacts, ChainInv, [ReadersNext]_allVars
  PROVE  ChainInv'
  <1>0. TypeOK /\ [Next]_vars
    BY ReadersStepIsLedgerStep DEF LedgerFacts
  <1>1. LatestInv'
    BY <1>0, LatestStep DEF ChainInv
  <1>2. CASE UNCHANGED <<views, stamps, clock, ledger>>
    <2>1. ClockInv'
      BY <1>2 DEF ChainInv, ClockInv
    <2>2. ViewsInv'
      <3>1. epoch \in Nat /\ epoch' \in Int
        BY <1>0, TypeStep DEF TypeOK, U32
      <3>2. \A e \in 0..(epoch - 1) : e \in 0..(epoch' - 1)
        BY <1>0, <3>1, HistoryGrows
      <3> QED BY <1>0, <1>2, <3>2, HistoryGrows DEF ChainInv, ViewsInv, Backed
    <2>3. EmptyInv'
      BY <1>0, <1>2, HistoryGrows DEF ChainInv, EmptyInv
    <2> QED BY <1>1, <2>1, <2>2, <2>3 DEF ChainInv
  <1>3. CASE /\ UNCHANGED <<attestationVars, setupVars>>
             /\ ledger' = ledger + 1
             /\ views' = Append(views, Closing)
             /\ clock' \in Nat
             /\ stamps' = Append(stamps, clock')
    <2>1. Closing \in View
      BY <1>0, DeploymentAssumption DEF Closing, View, TypeOK
    <2>2. ledger \in Nat
      BY <1>0 DEF TypeOK, Ledgers
    <2>3. ClockInv'
      BY <1>3, <2>1, <2>2 DEF ChainInv, ClockInv
    <2>4. /\ DOMAIN views = 1..ledger
          /\ DOMAIN views' = 1..(ledger + 1)
          /\ \A n \in 1..ledger : views'[n] = views[n]
          /\ views'[ledger + 1].latest = latest
          /\ views'[ledger + 1].registry = registry
      <3>1. Closing.latest = latest /\ Closing.registry = registry
        BY DEF Closing
      <3>2. views'[ledger + 1] = Closing
        BY <1>3, <2>1, <2>2 DEF ChainInv, ClockInv
      <3> QED BY <1>3, <2>1, <2>2, <3>1, <3>2 DEF ChainInv, ClockInv
    <2>5. /\ latest' = latest /\ events' = events /\ epoch' = epoch
      BY <1>3 DEF attestationVars
    <2>6. ViewsInv'
      <3> SUFFICES ASSUME NEW n \in 1..(ledger + 1)
                   PROVE  /\ views'[n].latest # None =>
                               /\ views'[n].latest \in Attestation
                               /\ Backed(views'[n].latest)
                               /\ views'[n].latest.ledger <= ledger'
                               /\ views'[n].latest.epoch + 1 \in DOMAIN events
                               /\ events[views'[n].latest.epoch + 1].root = views'[n].latest.root
                          /\ views'[n].registry # None =>
                               \A i \in DOMAIN views'[n].registry.leaves :
                                 \E m \in MemberSignatures :
                                   m.commitment = views'[n].registry.leaves[i] /\ m.epoch \in 0..(epoch - 1)
        BY <2>4, <2>5 DEF ViewsInv
      <3>1. CASE n \in 1..ledger
        <4>1. /\ views[n].latest # None =>
                   /\ views[n].latest \in Attestation
                   /\ Backed(views[n].latest)
                   /\ views[n].latest.ledger <= ledger
                   /\ views[n].latest.epoch + 1 \in DOMAIN events
                   /\ events[views[n].latest.epoch + 1].root = views[n].latest.root
              /\ views[n].registry # None =>
                   \A i \in DOMAIN views[n].registry.leaves :
                     \E m \in MemberSignatures :
                       m.commitment = views[n].registry.leaves[i] /\ m.epoch \in 0..(epoch - 1)
          BY <2>4, <3>1 DEF ChainInv, ViewsInv
        <4>2. \A a \in Attestation : a.ledger \in Nat
          BY DEF Attestation, Ledgers
        <4>3. views[n].latest # None => views[n].latest.ledger <= ledger'
          BY <1>3, <2>2, <4>1, <4>2
        <4> QED BY <2>4, <3>1, <4>1, <4>3
      <3>2. CASE n = ledger + 1
        <4>1. \A a \in Attestation : a.ledger \in Nat
          BY DEF Attestation, Ledgers
        <4> QED BY <1>3, <2>2, <2>4, <3>2, <4>1, ClosingFits DEF ChainInv
      <3> QED BY <2>2, <3>1, <3>2
    <2>7. EmptyInv'
      BY <2>2, <2>4, <2>5 DEF ChainInv, EmptyInv
    <2> QED BY <1>1, <2>3, <2>6, <2>7 DEF ChainInv
  <1> QED BY <1>0, <1>2, <1>3, StepSeals DEF ChainInv

----------------------------------------------------------------------------
(***************************************************************************)
(* The shapes of a reader's steps.                                         *)
(***************************************************************************)
Outcome == Nat \cup {None, Failed}
Reader ==
  [kind : Kinds, shown : Outcomes, awaits : SUBSET Methods, answer : [Methods -> Outcome],
   tries : [Methods -> 0..(MaxTries - 1)], start : Nat, now : Nat,
   current : Nat \cup {None}, root : RootWords \cup {0},
   commitment : Commitments \cup {None}]

\* The same load goes on.
SameLoad(x, y) ==
  /\ y \in Reader
  /\ y.kind = x.kind /\ y.start = x.start /\ y.now = x.now /\ y.current = x.current
  /\ y.root = x.root /\ y.commitment = x.commitment

\* A call is made, or the load is over.
LEMMA ReaderUpdates ==
  ASSUME NEW x \in Reader
  PROVE  /\ \A m \in Methods :
              LET y == [x EXCEPT !.awaits = @ \cup {m}]
              IN SameLoad(x, y) /\ y.shown = x.shown /\ y.answer = x.answer
         /\ \A what \in Outcomes :
              LET y == [x EXCEPT !.shown = what, !.awaits = {}, !.tries = NoTries]
              IN SameLoad(x, y) /\ y.shown = what /\ y.answer = x.answer /\ y.awaits = {}
  <1>1. ASSUME NEW m \in Methods
        PROVE  LET y == [x EXCEPT !.awaits = @ \cup {m}]
               IN SameLoad(x, y) /\ y.shown = x.shown /\ y.answer = x.answer
    <2>1. x.awaits \cup {m} \in SUBSET Methods
      BY DEF Reader
    <2> QED BY <2>1, Zenon DEF SameLoad, Reader
  <1>2. ASSUME NEW what \in Outcomes
        PROVE  LET y == [x EXCEPT !.shown = what, !.awaits = {}, !.tries = NoTries]
               IN SameLoad(x, y) /\ y.shown = what /\ y.answer = x.answer /\ y.awaits = {}
    <2>1. NoTries \in [Methods -> 0..(MaxTries - 1)]
      BY ReaderAssumption DEF NoTries
    <2> QED BY <2>1, Zenon DEF SameLoad, Reader
  <1> QED BY <1>1, <1>2, Zenon

----------------------------------------------------------------------------
(***************************************************************************)
(* What a reader knows.                                                    *)
(***************************************************************************)
Showing == {"ok", "healthy", "fully backed", "FRESH", "STALE"}
Got(r, m) == r.answer[m] \notin {None, Failed}
Seen(r, m, vs) == vs[r.answer[m]]
AttSeen(r, vs) == Seen(r, "get_attestation", vs).latest

\* The two facts behind a "true" of the membership page.
Included(r, vs) ==
  /\ Got(r, "verify_inclusion")
  /\ Seen(r, "verify_inclusion", vs).latest # None
  /\ r.root = Seen(r, "verify_inclusion", vs).latest.root
  /\ Counts(r.root, r.commitment)

\* What must be so for reader r to show what, given closed ledgers vs stamped ss.
Tells(what, r, vs, ss) ==
  /\ what # "not backed"
  /\ what \in Showing => Got(r, "get_attestation") /\ AttSeen(r, vs) # None
  /\ what = "empty" => Got(r, "get_attestation") /\ AttSeen(r, vs) = None
  /\ what = "FRESH" =>
       /\ r.now <= ss[AttSeen(r, vs).ledger + 1] + MaxAge
       /\ r.current # None => r.current <= AttSeen(r, vs).ledger + MaxAgeLedgers
  /\ what = "true" => Included(r, vs)
  /\ what = "counted" =>
       /\ Included(r, vs)
       /\ Got(r, "is_registered")
       /\ IsRegistered(Seen(r, "is_registered", vs).registry, r.commitment)

\* Answers are from ledgers no node was farther behind than, and a proof of
\* inclusion is only made of a leaf that is counted.
LoadInv(r, vs, c) ==
  /\ r.shown # "loading" => r.awaits = {}
  /\ r.start <= Len(vs) /\ r.now <= c
  /\ r.current # None => r.current + 1 + MaxLag >= r.start
  /\ \A m \in Methods : Got(r, m) => r.answer[m] \in DOMAIN vs /\ r.answer[m] + MaxLag >= r.start
  /\ r.kind = "membership" /\ r.shown = "loading" => Counts(r.root, r.commitment)

ReaderInv ==
  /\ reader \in Reader
  /\ LoadInv(reader, views, clock)
  /\ Tells(reader.shown, reader, views, stamps)

\* A handler's Ask leaves the load under way.
LEMMA AskShape ==
  ASSUME ReaderInv, NEW m \in Methods, Ask(m)
  PROVE  SameLoad(reader, reader') /\ reader'.shown = reader.shown /\ reader'.answer = reader.answer
  BY ReaderUpdates DEF Ask, ReaderInv

\* The end of a load changes nothing but what is shown.
LEMMA ShowShape ==
  ASSUME ReaderInv, NEW what \in Outcomes, Show(what)
  PROVE  /\ SameLoad(reader, reader')
         /\ reader'.shown = what /\ reader'.answer = reader.answer /\ reader'.awaits = {}
  BY ReaderUpdates DEF Show, ReaderInv

\* An answer that settles a promise is from a ledger the node had.
LEMMA SettleShape ==
  ASSUME ReaderInv, NEW m \in Methods, NEW o \in Outcome, Settle(m, o)
  PROVE  /\ SameLoad(reader, reader')
         /\ reader'.shown = reader.shown
         /\ reader'.answer = [reader.answer EXCEPT ![m] = o]
  <1> DEFINE y == [reader EXCEPT !.awaits = @ \ {m}, !.answer[m] = o]
  <1>1. reader' = y
    BY Zenon DEF Settle
  <1>2. reader \in Reader
    BY DEF ReaderInv
  <1>3. /\ SameLoad(reader, y)
        /\ y.shown = reader.shown
        /\ y.answer = [reader.answer EXCEPT ![m] = o]
    <2>1. reader.awaits \ {m} \in SUBSET Methods
      BY <1>2 DEF Reader
    <2>2. [reader.answer EXCEPT ![m] = o] \in [Methods -> Outcome]
      BY <1>2 DEF Reader
    <2> QED BY <1>2, <2>1, <2>2, Zenon DEF SameLoad, Reader
  <1> HIDE DEF y
  <1> QED BY <1>1, <1>3

\* The load goes on, perhaps with one more answer.
Continues ==
  /\ SameLoad(reader, reader')
  /\ reader.shown = "loading" /\ reader'.shown = "loading"
  /\ \/ reader'.answer = reader.answer
     \/ \E m \in Methods, o \in NodeLedgers \cup {Failed} :
          reader'.answer = [reader.answer EXCEPT ![m] = o]

\* The load ends, and what it shows is so.
Concludes ==
  /\ SameLoad(reader, reader')
  /\ reader'.answer = reader.answer /\ reader'.awaits = {}
  /\ reader'.shown # "loading"
  /\ Tells(reader'.shown, reader, views, stamps)

\* An answer, a retry or an exception leaves the load under way.
LEMMA CallContinues ==
  ASSUME ClockInv, ReaderInv, NEW m \in Methods, CallReturns(m)
  PROVE  Continues
  <1>1. reader.shown = "loading"
    BY DEF CallReturns, ReaderInv, LoadInv
  <1>2. ASSUME NEW o \in NodeLedgers \cup {Failed}, Settle(m, o)
        PROVE  Continues
    <2>1. o \in Outcome
      BY DEF NodeLedgers, ClockInv, Outcome
    <2> QED BY <1>1, <1>2, <2>1, SettleShape DEF Continues
  <1>3. CASE NodeAnswers(m)
    BY <1>2, <1>3 DEF NodeAnswers
  <1>4. CASE NodeLags(m)
    <2>1. CASE reader.tries[m] + 1 < MaxTries /\ reader' = [reader EXCEPT !.tries[m] = @ + 1]
      <3> DEFINE k == reader.tries[m] + 1
                 y == [reader EXCEPT !.tries[m] = k]
      <3>1. k \in 0..(MaxTries - 1)
        BY <2>1, ReaderAssumption DEF ReaderInv, Reader
      <3>2. reader' = y
        BY <2>1, Zenon
      <3>3. reader \in Reader
        BY DEF ReaderInv
      <3>4. SameLoad(reader, y) /\ y.shown = reader.shown /\ y.answer = reader.answer
        <4>1. [reader.tries EXCEPT ![m] = k] \in [Methods -> 0..(MaxTries - 1)]
          BY <3>1, <3>3 DEF Reader
        <4> HIDE DEF k
        <4> QED BY <3>3, <4>1, Zenon DEF SameLoad, Reader
      <3> HIDE DEF k, y
      <3> QED BY <1>1, <3>2, <3>4 DEF Continues
    <2> QED BY <1>2, <1>4, <2>1 DEF NodeLags
  <1> QED BY <1>2, <1>3, <1>4 DEF CallReturns

\* The end of a load, if what it shows is so.
LEMMA ShowConcludes ==
  ASSUME ReaderInv, NEW what \in Outcomes, what # "loading", Show(what),
         Tells(what, reader, views, stamps)
  PROVE  Concludes
  BY ShowShape DEF Concludes

\* A handler that first asks for the live balance goes on or ends.
LEMMA WithLiveBalanceConcludes ==
  ASSUME ReaderInv, reader.shown = "loading", NEW what \in Outcomes, what # "loading",
         WithLiveBalance(what), Tells(what, reader, views, stamps)
  PROVE  Continues \/ Concludes
  <1>1. "live_reserve_balance" \in Methods
    BY DEF Methods
  <1>2. CASE Ask("live_reserve_balance")
    BY <1>1, <1>2, AskShape DEF Continues
  <1>3. CASE Show(what)
    BY <1>3, ShowConcludes
  <1> QED BY <1>2, <1>3 DEF WithLiveBalance

\* The attestation a reader has read.
LEMMA AttRead ==
  ASSUME TypeOK, ChainInv, ReaderInv, Got(reader, "get_attestation"),
         AttSeen(reader, views) # None
  PROVE  /\ AttSeen(reader, views) \in Attestation
         /\ Backed(AttSeen(reader, views))
         /\ AttSeen(reader, views).ledger + 1 \in DOMAIN stamps
         /\ stamps[AttSeen(reader, views).ledger + 1] \in Nat
         /\ AttSeen(reader, views).ledger \in Nat
         /\ AttSeen(reader, views).epoch + 1 \in DOMAIN events
         /\ events[AttSeen(reader, views).epoch + 1].root = AttSeen(reader, views).root
  <1> DEFINE att == AttSeen(reader, views)
  <1>1. reader.answer["get_attestation"] \in DOMAIN views
    <2>1. "get_attestation" \in Methods
      BY DEF Methods
    <2> QED BY <2>1 DEF ReaderInv, LoadInv
  <1>2. /\ att \in Attestation /\ Backed(att) /\ att.ledger <= ledger
        /\ att.epoch + 1 \in DOMAIN events /\ events[att.epoch + 1].root = att.root
    BY <1>1 DEF ChainInv, ViewsInv, AttSeen, Seen
  <1>3. att.ledger \in Nat /\ ledger \in Nat
    BY <1>2 DEF TypeOK, Attestation, Ledgers
  <1>4. att.ledger + 1 \in DOMAIN stamps /\ stamps[att.ledger + 1] \in Nat
    BY <1>2, <1>3 DEF ChainInv, ClockInv
  <1> QED BY <1>2, <1>3, <1>4

\* verify_inclusion is true of a root at a closed ledger only if the leaf is
\* counted in the tree of the attestation that stood there.
LEMMA InclusionAt ==
  ASSUME NEW n, NEW root, NEW c, At(n)!VerifyInclusion(root, c)
  PROVE  /\ views[n].latest # None
         /\ root = views[n].latest.root
         /\ Inclusion(root % FieldModulus, c)
  BY DEF At!VerifyInclusion, At!Inclusion, Inclusion, At!Roots, Roots, At!Leaves, Leaves,
         At!Leaf, Leaf, At!Commitment, Commitment

\* A "true" is about a leaf that the attested tree counts.
LEMMA InclusionCounts ==
  ASSUME LedgerFacts, ChainInv, ReaderInv, Got(reader, "verify_inclusion"),
         At(Answer("verify_inclusion"))!VerifyInclusion(reader.root, reader.commitment)
  PROVE  Included(reader, views)
  <1> DEFINE n == Answer("verify_inclusion")
  <1>1. /\ views[n].latest # None
        /\ reader.root = views[n].latest.root
        /\ Inclusion(reader.root % FieldModulus, reader.commitment)
    BY InclusionAt
  <1>2. n \in DOMAIN views
    <2>1. "verify_inclusion" \in Methods
      BY DEF Methods
    <2> QED BY <2>1 DEF ReaderInv, LoadInv, Answer
  <1>3. reader.root \in Nat /\ reader.root < FieldModulus
    BY <1>1, <1>2 DEF ChainInv, ViewsInv, LedgerFacts, HistoryInv
  <1>4. reader.root % FieldModulus = reader.root
    BY <1>3, ModSmall, FieldAssumption
  <1>5. Counts(reader.root, reader.commitment)
    BY <1>1, <1>4 DEF Inclusion, Counts
  <1> QED BY <1>1, <1>5 DEF Included, Seen, Answer

\* Every handler either goes on or shows something that is so.
LEMMA HandleConcludes ==
  ASSUME LedgerFacts, ChainInv, ReaderInv, Handle
  PROVE  Continues \/ Concludes
  <1> DEFINE att == AttSeen(reader, views)
  <1>0. /\ reader.shown = "loading" /\ TypeOK
        /\ Att = att
        /\ \A m : IsAnswered(m) <=> Got(reader, m)
    BY DEF Handle, LedgerFacts, Att, AttSeen, Seen, Answer, IsAnswered, Got
  <1>1. ASSUME NEW what \in {"error", "pending", "BAD_STATUS", "ERROR", "false", "omitted"}
        PROVE  /\ Show(what) => Concludes
               /\ WithLiveBalance(what) => Continues \/ Concludes
    <2>1. what \in Outcomes /\ what # "loading" /\ Tells(what, reader, views, stamps)
      BY <1>1 DEF Outcomes, Tells, Showing
    <2> QED BY <1>0, <2>1, ShowConcludes, WithLiveBalanceConcludes
  <1>2. ASSUME Got(reader, "get_attestation"), att = None
        PROVE  /\ Show("empty") => Concludes
               /\ WithLiveBalance("empty") => Continues \/ Concludes
    <2>1. "empty" \in Outcomes /\ "empty" # "loading" /\ Tells("empty", reader, views, stamps)
      BY <1>2 DEF Outcomes, Tells, Showing
    <2> QED BY <1>0, <2>1, ShowConcludes, WithLiveBalanceConcludes
  <1>3. ASSUME Got(reader, "get_attestation"), att # None,
               NEW what \in {"ok", "healthy", "fully backed", "STALE"}
        PROVE  /\ Show(what) => Concludes
               /\ WithLiveBalance(what) => Continues \/ Concludes
    <2>1. what \in Outcomes /\ what # "loading" /\ Tells(what, reader, views, stamps)
      BY <1>3 DEF Outcomes, Tells, Showing
    <2> QED BY <1>0, <2>1, ShowConcludes, WithLiveBalanceConcludes
  <1>4. ASSUME Got(reader, "get_attestation"), att # None
        PROVE  Healthy
    <2>1. att.total <= att.reserves /\ att.total \in Nat /\ att.reserves \in Nat
      BY <1>0, <1>4, AttRead DEF Backed, Attestation
    <2> QED BY <1>0, <2>1 DEF Healthy
  <1>5. CASE Board
    BY <1>0, <1>1, <1>2, <1>3, <1>5 DEF Board
  <1>6. CASE Badge
    BY <1>0, <1>1, <1>2, <1>3, <1>6 DEF Badge
  <1>7. CASE Svg
    BY <1>0, <1>1, <1>3, <1>7 DEF Svg
  <1>8. CASE Sdk
    BY <1>0, <1>1, <1>3, <1>4, <1>8 DEF Sdk, Endpoint
  <1>9. CASE Script
    <2>1. ASSUME Got(reader, "get_attestation"), att # None, Verdict(att) = "FRESH"
          PROVE  WithLiveBalance("FRESH") => Continues \/ Concludes
      <3>1. ~TimeStale(att) /\ ~LedgerStale(att)
        BY <2>1 DEF Verdict, Stale
      <3>2. /\ stamps[att.ledger + 1] \in Nat /\ att.ledger \in Nat
            /\ reader.now \in Nat /\ reader.current \in Nat \cup {None}
        BY <1>0, <2>1, AttRead DEF ReaderInv, Reader
      <3>3. /\ reader.now <= stamps[att.ledger + 1] + MaxAge
            /\ reader.current # None => reader.current <= att.ledger + MaxAgeLedgers
        BY <3>1, <3>2, ReaderAssumption DEF TimeStale, LedgerStale, Stamp
      <3>4. "FRESH" \in Outcomes /\ "FRESH" # "loading" /\ Tells("FRESH", reader, views, stamps)
        BY <2>1, <3>3 DEF Outcomes, Tells, Showing
      <3> QED BY <1>0, <3>4, WithLiveBalanceConcludes
    <2>2. Verdict(att) \in {"ERROR", "STALE", "FRESH"}
      BY DEF Verdict
    <2> QED BY <1>0, <1>1, <1>3, <1>9, <2>1, <2>2 DEF Script, Endpoint
  <1>10. CASE reader.kind = "membership" /\ Membership
    <2>1. ASSUME Got(reader, "verify_inclusion"),
                 At(Answer("verify_inclusion"))!VerifyInclusion(reader.root, reader.commitment)
          PROVE  Show("true") => Concludes
      <3>1. Included(reader, views)
        BY <2>1, InclusionCounts
      <3>2. "true" \in Outcomes /\ "true" # "loading" /\ Tells("true", reader, views, stamps)
        BY <3>1 DEF Outcomes, Tells, Showing
      <3> QED BY <3>2, ShowConcludes
    <2> QED BY <1>0, <1>1, <1>10, <2>1 DEF Membership
  <1>11. CASE Audit
    <2>1. ASSUME Got(reader, "verify_inclusion"), Got(reader, "is_registered"),
                 At(Answer("verify_inclusion"))!VerifyInclusion(reader.root, reader.commitment),
                 IsRegistered(views[Answer("is_registered")].registry, reader.commitment)
          PROVE  Show("counted") => Concludes
      <3>1. Included(reader, views)
        BY <2>1, InclusionCounts
      <3>2. "counted" \in Outcomes /\ "counted" # "loading" /\ Tells("counted", reader, views, stamps)
        BY <2>1, <3>1 DEF Outcomes, Tells, Showing, Seen, Answer
      <3> QED BY <3>2, ShowConcludes
    <2> QED BY <1>0, <1>1, <1>11, <2>1 DEF Audit
  <1>12. reader.kind \in Kinds
    BY DEF ReaderInv, Reader
  <1> QED BY <1>5, <1>6, <1>7, <1>8, <1>9, <1>10, <1>11, <1>12 DEF Handle, Kinds

----------------------------------------------------------------------------
(***************************************************************************)
(* Each kind of step keeps what the reader knows.                          *)
(***************************************************************************)

\* Nothing is claimed while a load is under way, or when no proof was made.
LEMMA NothingTold ==
  ASSUME NEW what \in {"nothing", "loading", "wrong"}, NEW r, NEW vs, NEW ss
  PROVE  Tells(what, r, vs, ss)
  BY DEF Tells, Showing

\* A load starts with no answers.
LEMMA LoadKnows ==
  ASSUME ChainInv, NEW kind \in Kinds, NEW calls \in SUBSET Methods,
         NEW current \in Nat \cup {None},
         current # None => current + 1 + MaxLag >= Len(views),
         NEW root \in RootWords \cup {0}, NEW c \in Commitments \cup {None},
         kind = "membership" => Counts(root, c),
         Load(kind, calls, current, root, c), UNCHANGED <<views, stamps, clock>>
  PROVE  ReaderInv'
  <1> DEFINE y == [kind |-> kind, shown |-> "loading", awaits |-> calls, answer |-> Unread,
                   tries |-> NoTries, start |-> Len(views), now |-> clock,
                   current |-> current, root |-> root, commitment |-> c]
  <1>1. Unread \in [Methods -> Outcome] /\ NoTries \in [Methods -> 0..(MaxTries - 1)]
    BY ReaderAssumption DEF Unread, NoTries, Outcome
  <1>2. Len(views) \in Nat /\ clock \in Nat
    BY DEF ChainInv, ClockInv
  <1>3. "loading" \in Outcomes
    BY DEF Outcomes
  <1>4. y \in Reader
    BY <1>1, <1>2, <1>3 DEF Reader
  <1>5. LoadInv(y, views, clock)
    BY <1>2 DEF LoadInv, Got, Unread
  <1>6. Tells(y.shown, y, views, stamps)
    BY NothingTold
  <1>7. reader' = y
    BY DEF Load
  <1> HIDE DEF y
  <1> QED BY <1>4, <1>5, <1>6, <1>7 DEF ReaderInv

\* A reader that has not loaded anything.
Unloaded(kind, what) ==
  [kind |-> kind, shown |-> what, awaits |-> {}, answer |-> Unread,
   tries |-> NoTries, start |-> 0, now |-> 0, current |-> None,
   root |-> 0, commitment |-> None]

\* Such a reader knows nothing, and says nothing.
LEMMA BlankKnows ==
  ASSUME ChainInv, NEW kind \in Kinds, NEW what \in {"nothing", "wrong"},
         NEW y, y = Unloaded(kind, what)
  PROVE  y \in Reader /\ LoadInv(y, views, clock) /\ Tells(y.shown, y, views, stamps)
  <1>1. Unread \in [Methods -> Outcome] /\ NoTries \in [Methods -> 0..(MaxTries - 1)]
    BY ReaderAssumption DEF Unread, NoTries, Outcome
  <1>2. Len(views) \in Nat /\ clock \in Nat
    BY DEF ChainInv, ClockInv
  <1>3. y = [kind |-> kind, shown |-> what, awaits |-> {}, answer |-> Unread,
             tries |-> NoTries, start |-> 0, now |-> 0, current |-> None,
             root |-> 0, commitment |-> None]
    BY DEF Unloaded
  <1>4. what \in Outcomes /\ what # "loading"
    BY DEF Outcomes
  <1>5. y \in Reader
    BY <1>1, <1>3, <1>4 DEF Reader
  <1>6. /\ y.shown = what /\ y.awaits = {} /\ y.answer = Unread
        /\ y.start = 0 /\ y.now = 0 /\ y.current = None
    <2> DEFINE z == [kind |-> kind, shown |-> what, awaits |-> {}, answer |-> Unread,
                     tries |-> NoTries, start |-> 0, now |-> 0, current |-> None,
                     root |-> 0, commitment |-> None]
    <2>1. /\ z.shown = what /\ z.awaits = {} /\ z.answer = Unread
          /\ z.start = 0 /\ z.now = 0 /\ z.current = None
      OBVIOUS
    <2>2. y = z
      BY <1>3
    <2> HIDE DEF z
    <2> QED BY <2>1, <2>2, Zenon
  <1>7. LoadInv(y, views, clock)
    <2>1. \A m \in Methods : ~Got(y, m)
      BY <1>6 DEF Got, Unread
    <2> QED BY <1>2, <1>4, <1>6, <2>1 DEF LoadInv
  <1>8. Tells(y.shown, y, views, stamps)
    BY <1>6, NothingTold
  <1> QED BY <1>5, <1>7, <1>8

\* A load that starts claims nothing.
LEMMA OpenKnows ==
  ASSUME ChainInv, NEW kind \in Kinds, Open(kind), UNCHANGED <<views, stamps, clock>>
  PROVE  ReaderInv'
  <1>m. /\ "get_attestation" \in Methods /\ "epoch_count" \in Methods
        /\ "verify_inclusion" \in Methods /\ "is_registered" \in Methods
    BY DEF Methods
  <1>1. CASE kind = "board"
    BY <1>1, <1>m, LoadKnows DEF Open
  <1>2. CASE kind = "script"
    <2>1. PICK current \in {n - 1 : n \in NodeLedgers} \cup {None} :
            Load(kind, {"get_attestation"}, current, 0, None)
      BY <1>2 DEF Open
    <2>2. current \in Nat \cup {None} /\ (current # None => current + 1 + MaxLag >= Len(views))
      BY <2>1 DEF NodeLedgers, ChainInv, ClockInv
    <2> QED BY <1>2, <1>m, <2>1, <2>2, LoadKnows
  <1>3. CASE kind = "membership"
    <2>1. PICK root \in RootWords, c \in Commitments : Prove(root, c)
      BY <1>3 DEF Open
    <2>2. CASE Counts(root, c)
      BY <1>3, <1>m, <2>1, <2>2, LoadKnows DEF Prove
    <2>3. CASE ~Counts(root, c)
      <3>1. reader' = [Blank EXCEPT !.kind = "membership", !.shown = "wrong"]
        BY <2>1, <2>3 DEF Prove
      <3>2. reader' = Unloaded("membership", "wrong")
        BY <3>1 DEF Blank, Unloaded
      <3> QED BY <1>3, <3>2, BlankKnows DEF ReaderInv
    <2> QED BY <2>2, <2>3
  <1>4. CASE kind = "audit"
    BY <1>4, <1>m, LoadKnows DEF Open
  <1>5. CASE kind \in {"badge", "svg", "sdk"}
    BY <1>5, <1>m, LoadKnows DEF Open
  <1> QED BY <1>1, <1>2, <1>3, <1>4, <1>5 DEF Kinds

\* A load under way knows where its answers are from.
LEMMA ContinuesKnows ==
  ASSUME ChainInv, ReaderInv, Continues, UNCHANGED <<views, stamps, clock>>
  PROVE  ReaderInv'
  <1>1. reader' \in Reader /\ reader \in Reader
    BY DEF Continues, SameLoad, ReaderInv
  <1>2. ASSUME NEW m \in Methods, Got(reader', m)
        PROVE  reader'.answer[m] \in DOMAIN views /\ reader'.answer[m] + MaxLag >= reader.start
    <2>1. CASE reader'.answer = reader.answer
      BY <1>2, <2>1 DEF ReaderInv, LoadInv, Got
    <2>2. ASSUME NEW q \in Methods, NEW o \in NodeLedgers \cup {Failed},
                 reader'.answer = [reader.answer EXCEPT ![q] = o]
          PROVE  reader'.answer[m] \in DOMAIN views /\ reader'.answer[m] + MaxLag >= reader.start
      <3>1. CASE m # q
        <4>1. reader'.answer[m] = reader.answer[m]
          BY <1>1, <2>2, <3>1 DEF Reader
        <4> QED BY <1>2, <4>1 DEF ReaderInv, LoadInv, Got
      <3>2. CASE m = q
        <4>1. reader'.answer[m] = o
          BY <1>1, <2>2, <3>2 DEF Reader
        <4>2. o \in NodeLedgers
          BY <1>2, <4>1 DEF Got
        <4>3. o \in DOMAIN views /\ o + MaxLag >= Len(views)
          BY <4>2 DEF NodeLedgers
        <4>4. o \in Nat /\ Len(views) \in Nat /\ reader.start \in Nat /\ reader.start <= Len(views)
          BY <1>1, <4>3 DEF ChainInv, ClockInv, Reader, ReaderInv, LoadInv
        <4> QED BY <4>1, <4>3, <4>4, ReaderAssumption
      <3> QED BY <3>1, <3>2
    <2> QED BY <2>1, <2>2 DEF Continues
  <1>3. LoadInv(reader', views, clock)
    BY <1>2 DEF LoadInv, Continues, SameLoad, ReaderInv
  <1>4. Tells(reader'.shown, reader', views, stamps)
    BY NothingTold DEF Continues
  <1> QED BY <1>1, <1>3, <1>4 DEF ReaderInv

\* A load that ends shows what is so.
LEMMA ConcludesKnows ==
  ASSUME ReaderInv, Concludes, UNCHANGED <<views, stamps, clock>>
  PROVE  ReaderInv'
  <1>1. LoadInv(reader', views, clock)
    BY DEF LoadInv, Got, Concludes, SameLoad, ReaderInv
  <1>2. Tells(reader'.shown, reader', views, stamps)
    BY DEF Tells, Got, Seen, AttSeen, Included, Concludes, SameLoad
  <1> QED BY <1>1, <1>2 DEF ReaderInv, Concludes, SameLoad

\* What was read stays what it was while the chain goes on.
LEMMA ChainKeepsKnown ==
  ASSUME TypeOK, ChainInv, ClockInv', ReaderInv, Extends, UNCHANGED reader
  PROVE  ReaderInv'
  <1>1. \A m \in Methods : Got(reader, m) =>
          reader.answer[m] \in DOMAIN views /\ Seen(reader, m, views') = Seen(reader, m, views)
    BY DEF ReaderInv, LoadInv, Extends, Seen
  <1>2. /\ reader.start \in Nat /\ Len(views) \in Nat /\ reader.start <= Len(views)
        /\ Len(views') >= Len(views)
        /\ reader.now \in Nat /\ clock \in Nat /\ reader.now <= clock /\ clock' >= clock
    BY DEF ReaderInv, LoadInv, Reader, ChainInv, ClockInv, Extends
  <1>3. LoadInv(reader, views', clock')
    <2>1. reader.start <= Len(views') /\ reader.now <= clock'
      <3>1. Len(views') \in Nat /\ clock' \in Nat
        BY DEF ClockInv
      <3> QED BY <1>2, <3>1
    <2>2. \A m \in Methods : Got(reader, m) => reader.answer[m] \in DOMAIN views'
      BY <1>1 DEF Extends
    <2> QED BY <2>1, <2>2 DEF ReaderInv, LoadInv
  <1>4. Tells(reader.shown, reader, views', stamps')
    <2>1. /\ "get_attestation" \in Methods /\ "verify_inclusion" \in Methods
          /\ "is_registered" \in Methods
      BY DEF Methods
    <2>2. Got(reader, "get_attestation") => AttSeen(reader, views') = AttSeen(reader, views)
      BY <1>1, <2>1 DEF AttSeen
    <2>3. Included(reader, views) => Included(reader, views')
      BY <1>1, <2>1 DEF Included
    <2>4. reader.shown = "FRESH" =>
            stamps'[AttSeen(reader, views).ledger + 1] = stamps[AttSeen(reader, views).ledger + 1]
      BY AttRead DEF ReaderInv, Tells, Showing, Extends
    <2> QED BY <1>1, <2>1, <2>2, <2>3, <2>4 DEF ReaderInv, Tells, Showing
  <1> QED BY <1>3, <1>4 DEF ReaderInv

\* Every step keeps what the reader knows.
LEMMA ReaderKnows ==
  ASSUME LedgerFacts, ChainInv, ReaderInv, [ReadersNext]_allVars
  PROVE  ReaderInv'
  <1>1. CASE UNCHANGED reader
    <2>1. ClockInv'
      BY ChainStep DEF ChainInv
    <2> QED BY <1>1, <2>1, StepExtends, ChainKeepsKnown DEF LedgerFacts, ChainInv
  <1>2. ASSUME NEW kind \in Kinds, Open(kind), UNCHANGED <<views, stamps, clock>>
        PROVE  ReaderInv'
    BY <1>2, OpenKnows
  <1>3. CASE ReaderStep /\ UNCHANGED <<views, stamps, clock>>
    <2>1. Continues \/ Concludes
      BY <1>3, HandleConcludes, CallContinues DEF ReaderStep, ChainInv
    <2> QED BY <1>3, <2>1, ContinuesKnows, ConcludesKnows
  <1> QED BY <1>1, <1>2, <1>3 DEF ReadersNext, allVars, readerVars

\* Before anything is closed or loaded.
LEMMA ReadersStart == ReadersInit => ChainInv /\ ReaderInv
  <1> SUFFICES ASSUME ReadersInit PROVE ChainInv /\ ReaderInv
    OBVIOUS
  <1>1. latest = None /\ ledger = 0 /\ views = <<>> /\ stamps = <<0>> /\ clock = 0
    BY DEF ReadersInit, Init
  <1>2. ChainInv
    BY <1>1 DEF ChainInv, LatestInv, ViewsInv, EmptyInv, ClockInv
  <1>3. "board" \in Kinds /\ "nothing" \in {"nothing", "wrong"}
    BY DEF Kinds
  <1>4. Blank = Unloaded("board", "nothing")
    BY DEF Blank, Unloaded
  <1>5. Blank \in Reader /\ LoadInv(Blank, views, clock) /\ Tells(Blank.shown, Blank, views, stamps)
    BY <1>2, <1>3, <1>4, BlankKnows
  <1>6. reader = Blank
    BY DEF ReadersInit
  <1> QED BY <1>2, <1>5, <1>6 DEF ReaderInv

\* Readers leave the contract alone: with any number of readers it still takes
\* only its own steps.
THEOREM ReadersRunTheContract == ReadersSpec => Spec
  <1>1. ReadersInit => Init
    BY DEF ReadersInit
  <1> QED BY <1>1, ReadersStepIsLedgerStep, PTL DEF ReadersSpec, Spec

\* What is proved of the contract holds under its readers too.
LEMMA ReadersSeeFacts == ReadersSpec => []LedgerFacts
  <1>1. TypeOK /\ HistoryInv /\ RegistryPinned => LedgerFacts
    BY DEF LedgerFacts
  <1> QED BY <1>1, ReadersRunTheContract, TypeCorrectness, HistoryInvariance, BoardIsHonest, PTL

\* The inductive invariant.
LEMMA ReadersInvariance == ReadersSpec => [](ChainInv /\ ReaderInv)
  <1>1. LedgerFacts /\ ChainInv /\ ReaderInv /\ [ReadersNext]_allVars => (ChainInv /\ ReaderInv)'
    BY ChainStep, ReaderKnows
  <1> QED BY <1>1, ReadersStart, ReadersSeeFacts, PTL DEF ReadersSpec

----------------------------------------------------------------------------
(***************************************************************************)
(* The theorems.                                                           *)
(***************************************************************************)

\* ReadersTypeOK, for every instance: answers come from closed ledgers, each of
\* which has a stamp, and no call is retried MaxTries times.
THEOREM ReadersTypes == ReadersSpec => []ReadersTypeOK
  <1>1. ChainInv /\ ReaderInv => ReadersTypeOK
    <2> SUFFICES ASSUME ChainInv, ReaderInv PROVE ReadersTypeOK
      OBVIOUS
    <2>1. reader.answer \in [Methods -> DOMAIN views \cup {None, Failed}]
      BY DEF ReaderInv, Reader, LoadInv, Got
    <2> QED BY <2>1 DEF ReaderInv, Reader, LoadInv, ChainInv, ClockInv, ReadersTypeOK
  <1> QED BY <1>1, ReadersInvariance, PTL

\* ShownIsBacked, for every instance: the attestation behind a display is one
\* the contract published and was covered when it was stored.
THEOREM DisplaysAreBacked == ReadersSpec => []ShownIsBacked
  <1>1. LedgerFacts /\ ChainInv /\ ReaderInv => ShownIsBacked
    <2> SUFFICES ASSUME LedgerFacts, ChainInv, ReaderInv PROVE ShownIsBacked
      OBVIOUS
    <2>1. Att = AttSeen(reader, views) /\ TypeOK
      BY DEF Att, AttSeen, Seen, Answer, LedgerFacts
    <2>2. ASSUME reader.shown \in Showing
          PROVE  /\ Att # None
                 /\ events[Att.epoch + 1].root = Att.root
                 /\ Att.total <= Att.reserves
                 /\ Att.reserves <= Att.bound
      <3>1. Got(reader, "get_attestation") /\ Att # None
        BY <2>1, <2>2 DEF ReaderInv, Tells
      <3> QED BY <2>1, <3>1, AttRead DEF Backed
    <2> QED BY <2>2 DEF ShownIsBacked, Showing, ReaderInv, Tells
  <1> QED BY <1>1, ReadersSeeFacts, ReadersInvariance, PTL

\* EmptyMeansNone, for every instance: "nothing attested" is not what a failed
\* read looks like.
THEOREM EmptyIsTrue == ReadersSpec => []EmptyMeansNone
  <1>1. ChainInv /\ ReaderInv => EmptyMeansNone
    <2> SUFFICES ASSUME ChainInv, ReaderInv, reader.shown = "empty", reader.start > MaxLag
                 PROVE  views[reader.start - MaxLag].latest = None
      BY ReaderAssumption DEF EmptyMeansNone, ReaderInv, Reader
    <2> DEFINE n == reader.answer["get_attestation"]
    <2>1. "get_attestation" \in Methods
      BY DEF Methods
    <2>2. Got(reader, "get_attestation") /\ views[n].latest = None
      BY DEF ReaderInv, Tells, AttSeen, Seen
    <2>3. n \in DOMAIN views /\ n + MaxLag >= reader.start
      BY <2>1, <2>2 DEF ReaderInv, LoadInv
    <2>4. reader.start - MaxLag \in 1..n
      BY <2>3, ReaderAssumption DEF ReaderInv, Reader, ChainInv, ClockInv
    <2> QED BY <2>2, <2>3, <2>4 DEF ChainInv, EmptyInv
  <1> QED BY <1>1, ReadersInvariance, PTL

\* FiguresAreRecent, for every instance: no figure is older than the load by
\* more than the lag of a node.
THEOREM FiguresOfThisLoad == ReadersSpec => []FiguresAreRecent
  <1>1. ReaderInv => FiguresAreRecent
    BY DEF FiguresAreRecent, ReaderInv, LoadInv, IsAnswered, Got, Answer
  <1> QED BY <1>1, ReadersInvariance, PTL

\* FreshMeansRecent, for every instance: FRESH is never said of an attestation
\* that is older than agreed on a clock of the chain.
THEOREM FreshIsRecent == ReadersSpec => []FreshMeansRecent
  <1>1. LedgerFacts /\ ChainInv /\ ReaderInv => FreshMeansRecent
    <2> SUFFICES ASSUME LedgerFacts, ChainInv, ReaderInv, reader.shown = "FRESH"
                 PROVE  /\ reader.now <= Stamp(Att) + MaxAge
                        /\ reader.current # None =>
                             reader.start - 1 <= Att.ledger + MaxAgeLedgers + MaxLag
      BY DEF FreshMeansRecent
    <2>1. Att = AttSeen(reader, views) /\ TypeOK
      BY DEF Att, AttSeen, Seen, Answer, LedgerFacts
    <2>2. /\ Got(reader, "get_attestation") /\ Att # None
          /\ reader.now <= Stamp(Att) + MaxAge
          /\ reader.current # None => reader.current <= Att.ledger + MaxAgeLedgers
      BY <2>1 DEF ReaderInv, Tells, Showing, Stamp
    <2>3. Att.ledger \in Nat
      BY <2>1, <2>2, AttRead
    <2>4. /\ reader.start \in Nat /\ reader.current \in Nat \cup {None}
          /\ reader.current # None => reader.current + 1 + MaxLag >= reader.start
      BY DEF ReaderInv, Reader, LoadInv
    <2> QED BY <2>2, <2>3, <2>4, ReaderAssumption
  <1> QED BY <1>1, ReadersSeeFacts, ReadersInvariance, PTL

\* IncludedMeansCounted, for every instance: a member told "included" is
\* counted in an attestation that stood when it asked, but for the lag.
THEOREM IncludedIsCounted == ReadersSpec => []IncludedMeansCounted
  <1>1. ReaderInv => IncludedMeansCounted
    <2> SUFFICES ASSUME ReaderInv, reader.shown = "true"
                 PROVE  \E n \in DOMAIN views :
                          /\ n + MaxLag >= reader.start
                          /\ views[n].latest # None
                          /\ views[n].latest.root = reader.root
                          /\ Counts(reader.root, reader.commitment)
      BY DEF IncludedMeansCounted
    <2> DEFINE n == reader.answer["verify_inclusion"]
    <2>1. "verify_inclusion" \in Methods
      BY DEF Methods
    <2>2. Included(reader, views)
      BY DEF ReaderInv, Tells
    <2>3. n \in DOMAIN views /\ n + MaxLag >= reader.start
      BY <2>1, <2>2 DEF ReaderInv, LoadInv, Included
    <2> QED BY <2>2, <2>3 DEF Included, Seen
  <1> QED BY <1>1, ReadersInvariance, PTL

\* AuditMeansSignedAndCounted, for every instance: both checks of a member mean
\* a leaf counted under an attested root and signed for an attested epoch.
THEOREM AuditIsTrue == ReadersSpec => []AuditMeansSignedAndCounted
  <1>1. LedgerFacts /\ ChainInv /\ ReaderInv => AuditMeansSignedAndCounted
    <2> SUFFICES ASSUME LedgerFacts, ChainInv, ReaderInv, reader.shown = "counted"
                 PROVE  /\ reader.root \in seenRoots
                        /\ Counts(reader.root, reader.commitment)
                        /\ \E msg \in MemberSignatures :
                             msg.commitment = reader.commitment /\ msg.epoch < epoch
      BY DEF AuditMeansSignedAndCounted
    <2> DEFINE n == reader.answer["verify_inclusion"]
               k == reader.answer["is_registered"]
    <2>1. "verify_inclusion" \in Methods /\ "is_registered" \in Methods
      BY DEF Methods
    <2>2. /\ Got(reader, "verify_inclusion") /\ views[n].latest # None
          /\ reader.root = views[n].latest.root /\ Counts(reader.root, reader.commitment)
          /\ Got(reader, "is_registered") /\ IsRegistered(views[k].registry, reader.commitment)
      BY DEF ReaderInv, Tells, Included, Seen
    <2>3. n \in DOMAIN views /\ k \in DOMAIN views
      BY <2>1, <2>2 DEF ReaderInv, LoadInv
    <2>4. reader.root \in seenRoots
      BY <2>2, <2>3 DEF ChainInv, ViewsInv, LedgerFacts, HistoryInv
    <2>5. PICK i \in DOMAIN views[k].registry.leaves :
            views[k].registry # None /\ views[k].registry.leaves[i] = reader.commitment
      BY <2>2 DEF IsRegistered
    <2>6. PICK msg \in MemberSignatures :
            msg.commitment = views[k].registry.leaves[i] /\ msg.epoch \in 0..(epoch - 1)
      BY <2>3, <2>5 DEF ChainInv, ViewsInv
    <2>7. msg.epoch < epoch
      BY <2>6 DEF LedgerFacts, TypeOK, U32
    <2> QED BY <2>2, <2>4, <2>5, <2>6, <2>7
  <1> QED BY <1>1, ReadersSeeFacts, ReadersInvariance, PTL

=============================================================================
