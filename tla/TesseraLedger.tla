---------------------------- MODULE TesseraLedger ----------------------------
(***************************************************************************)
(* The Soroban contract contracts/tessera-ledger: five families of reserve *)
(* attestations, the customer key list, the signed-leaf registry, the      *)
(* reserve legs and the oracle wiring, over a chain whose token balances,  *)
(* ledger sequence and oracle quotes move on their own.                    *)
(*                                                                         *)
(* A contract call is atomic: a panic reverts it, so a rejected call is a  *)
(* stutter and the action of an entrypoint is enabled exactly when the     *)
(* call succeeds.  Signals are naturals standing for 32-byte big-endian    *)
(* words; those from FieldModulus up are the non-canonical encodings.      *)
(***************************************************************************)
EXTENDS SolvencyCircuits, FiniteSetsExt

CONSTANTS
  Accounts,            \* Stellar accounts that hold reserves
  Tokens,              \* token contracts a reserve leg may name
  ReserveHolder,       \* constructor argument, immutable afterwards
  ReserveToken,        \* constructor argument, immutable afterwards
  Signers,             \* the accounts that authorize the submitter's calls
  RootWords,           \* the words submitted as rootHash
  Figures,             \* the words submitted as totals and reserves
  CircuitEpochs,       \* the words submitted as circuit epoch
  BpsWords,            \* the words submitted as basis-point bounds
  KeyWords,            \* the sequences of keys submitted with signed proofs
  Balances,            \* token balances that occur
  Customers,           \* accounts that register a key
  LegLists,            \* the arguments of set_reserve_legs
  PricedLegLists,      \* the leg arguments of submit_priced_attestation
  OracleConfigs,       \* the arguments of set_oracle_config
  Reflectors, Feeds,   \* oracle contracts and the feeds they quote
  Prices,              \* quoted prices, non-positive ones included
  Members,             \* ed25519 keys of the bulletin board's members
  Commitments,         \* the leaf commitments those members expect
  LeafBatches,         \* the arguments of register_signed_leaves
  MemberSignatures,    \* the leaf messages members sign with ed25519
  MaxLedger,           \* bound on the ledger sequence
  MaxI128,             \* i128::MAX
  U32Modulus,          \* 2^32
  PriceDenominator,    \* PRICE_DENOMINATOR
  None                 \* an absent storage entry

I128 == 0..MaxI128     \* the non-negative half, where balances live
U32 == 0..(U32Modulus - 1)
Ledgers == 0..MaxLedger

MaxConcBpsPolicy == 4000
MinCollBpsPolicy == 10500

Attestation ==
  [root : Nat, total : Nat, reserves : Nat, holder : Accounts, token : Tokens,
   bound : I128, ledger : Ledgers, epoch : U32, non_omission : BOOLEAN]
RiskAttestation ==
  [root : Nat, total : Nat, reserves : Nat, conc : U32, coll : U32,
   bound : I128, ledger : Ledgers, epoch : U32]
MultiAttestation ==
  [root : Nat, total : Nat, reserves : Nat, bound : I128, leg_count : Nat,
   ledger : Ledgers, epoch : U32]
PricedAttestation ==
  [root : Nat, total : Nat, reserves : Nat, bound : I128, leg_count : Nat,
   oldest_price_ledger : Ledgers, ledger : Ledgers, epoch : U32]
SignedLeaf == [pubkey : Members, balance : Int, nonce : Nat, commitment : Commitments]
SignedRegistry == [epoch : U32, count : Nat, leaves : Seq(Commitments)]
CustomerKey == [customer : Customers, key : Keys]
ReserveLeg == [holder : Accounts, token : Tokens, scale_num : Int, scale_den : Int]
PricedLeg == [holder : Accounts, token : Tokens, feed : Feeds]
OracleConfig == [reflector : Reflectors, max_staleness : Nat, feeds : SUBSET Feeds]
Quote == [price : Int, ledger : Ledgers]
Event ==
  [topic : {"attested", "signed", "risk", "unified", "multi", "priced"},
   epoch : U32, root : Nat, circuit_epoch : Nat \cup {None}]

ASSUME NoneAssumption ==
  /\ None \notin Attestation
  /\ None \notin Nat

ASSUME DeploymentAssumption ==
  /\ ReserveHolder \in Accounts
  /\ ReserveToken \in Tokens
  /\ Signers \subseteq Accounts

ASSUME WordAssumption ==
  /\ RootWords \subseteq Nat
  /\ Figures \subseteq Nat
  /\ CircuitEpochs \subseteq Nat
  /\ BpsWords \subseteq Nat
  /\ KeyWords \subseteq [1..LeafSlots -> Keys]

ASSUME WidthAssumption ==
  /\ MaxLedger \in Nat
  /\ MaxI128 \in Nat
  /\ U32Modulus \in Nat \ {0}
  /\ BpsLimit <= U32Modulus
  /\ PriceDenominator \in Nat \ {0}

ASSUME ChainAssumption ==
  /\ Balances \subseteq I128
  /\ Balances # {}
  /\ Prices \subseteq Int
  /\ LegLists \subseteq Seq(ReserveLeg)
  /\ PricedLegLists \subseteq Seq(PricedLeg)
  /\ LeafBatches \subseteq Seq(SignedLeaf)
  /\ OracleConfigs \subseteq OracleConfig

VARIABLES
  latest, riskLatest, multiLatest, pricedLatest,  \* DataKey::Latest, RiskLatest, ...
  epoch,                         \* DataKey::Epoch, the next attestation epoch
  seenRoots,                     \* DataKey::SeenRoot
  signedEpoch, unifiedEpoch,     \* DataKey::SignedEpoch, UnifiedEpoch
  registeredKeys,                \* DataKey::RegisteredKeys, <<>> when absent
  registry,                      \* DataKey::Registry
  reserveLegs,                   \* DataKey::ReserveLegs, <<>> when absent
  oracleConfig,                  \* DataKey::OracleConfig
  events,                        \* the "ledger" events the contract published
  balance, ledger, quotes        \* the chain: SAC balances, sequence, oracle

attestationVars ==
  <<latest, riskLatest, multiLatest, pricedLatest, epoch, seenRoots,
    signedEpoch, unifiedEpoch, events>>
setupVars == <<registeredKeys, registry, reserveLegs, oracleConfig>>
chainVars == <<balance, ledger, quotes>>
vars == <<attestationVars, setupVars, chainVars>>

----------------------------------------------------------------------------
(***************************************************************************)
(* Fault variants: each is a definition below with one check or one update *)
(* wrong, as a slip in the contract would have it.                         *)
(***************************************************************************)
CanonicalUnchecked(s) == TRUE
RootReplayable(root) == TRUE
DowngradeAllowed == TRUE
BalanceUnchecked(reserves) == ReserveHolder \in Signers /\ reserves \in I128
EpochRepeatable(e, last) == e \in I128 /\ (last # None => e >= last)
PolicyUnchecked(s) == TRUE
PinLengthOnly(keys) == Len(registeredKeys) = LeafSlots
NoSlotLimit == TRUE
CustomerUnchecked(customer, key) ==
  \A i \in DOMAIN registeredKeys : registeredKeys[i].key # key
StalenessOffByOne(q) == ledger <= q.ledger + oracleConfig.max_staleness + 1
HolderCountedAgain(legs) ==
  SumFunction([i \in DOMAIN legs |-> balance[legs[i].holder][legs[i].token]])
    + balance[ReserveHolder][ReserveToken]
AnyRootVerifies(root, commitment) ==
  latest # None /\ Inclusion(root % FieldModulus, commitment)
RegistryOfAnyEpoch(batch) == \A i \in DOMAIN batch : batch[i].balance >= 0

----------------------------------------------------------------------------
(***************************************************************************)
(* The checks the entrypoints share.                                       *)
(***************************************************************************)

\* The field element a word denotes once the host has reduced it.
Reduced(s) == [f \in DOMAIN s |-> s[f] % FieldModulus]

\* assert_canonical_signals.  The keys of a signed proof need no case here:
\* registered keys are canonical and the pin compares the words.
AssertCanonical(s) == \A f \in DOMAIN s : s[f] < FieldModulus

RejectSeenRoot(root) == root \notin seenRoots

RejectWeakDowngrade == latest # None => ~latest.non_omission

\* be32_to_i128(reserves) fits, the holder authorizes, and its live balance
\* covers the declared figure.
HolderBacks(reserves) ==
  /\ ReserveHolder \in Signers
  /\ reserves \in I128
  /\ reserves <= balance[ReserveHolder][ReserveToken]

\* The position-by-position pin of the proof's keys to the customers' list.
KeysPinned(keys) ==
  /\ Len(registeredKeys) = LeafSlots
  /\ \A i \in 1..LeafSlots : keys[i] = registeredKeys[i].key

\* be32_to_i128(circuit_epoch) fits and is above the last one accepted.
EpochAdvances(e, last) == e \in I128 /\ (last # None => e > last)

\* be32_to_u32 keeps the low four bytes.
RiskPolicy(s) ==
  /\ s.conc % U32Modulus <= MaxConcBpsPolicy
  /\ s.coll % U32Modulus >= MinCollBpsPolicy

\* What every submission does once its checks passed: write Latest, mark the
\* root seen, advance the epoch (u32 arithmetic traps on overflow), publish.
Store(s, holder, token, bound, nonOmission, topic, circuitEpoch) ==
  /\ epoch + 1 \in U32
  /\ latest' = [root |-> s.root, total |-> s.total, reserves |-> s.reserves,
                holder |-> holder, token |-> token, bound |-> bound,
                ledger |-> ledger, epoch |-> epoch, non_omission |-> nonOmission]
  /\ seenRoots' = seenRoots \cup {s.root}
  /\ epoch' = epoch + 1
  /\ events' = Append(events, [topic |-> topic, epoch |-> epoch, root |-> s.root,
                               circuit_epoch |-> circuitEpoch])

\* (A fault variant: every path stores the flag of submit_attestation.)
StoreHeldWeak(s, nonOmission, topic, circuitEpoch) ==
  Store(s, ReserveHolder, ReserveToken, balance[ReserveHolder][ReserveToken],
        FALSE, topic, circuitEpoch)

StoreHeld(s, nonOmission, topic, circuitEpoch) ==
  Store(s, ReserveHolder, ReserveToken, balance[ReserveHolder][ReserveToken],
        nonOmission, topic, circuitEpoch)

----------------------------------------------------------------------------
(***************************************************************************)
(* Attestations backed by the constructor-bound reserve.                   *)
(***************************************************************************)
SubmitAttestation(s) ==
  /\ AssertCanonical(s)
  /\ Solvency(Reduced(s))
  /\ RejectSeenRoot(s.root)
  /\ RejectWeakDowngrade
  /\ s.reserves >= s.total
  /\ HolderBacks(s.reserves)
  /\ StoreHeld(s, FALSE, "attested", None)
  /\ UNCHANGED <<riskLatest, multiLatest, pricedLatest, signedEpoch, unifiedEpoch,
                 setupVars, chainVars>>

SubmitSignedAttestation(s, keys) ==
  /\ AssertCanonical(s)
  /\ SignedSolvency(Reduced(s), keys)
  /\ RejectSeenRoot(s.root)
  /\ KeysPinned(keys)
  /\ EpochAdvances(s.epoch, signedEpoch)
  /\ s.reserves >= s.total
  /\ HolderBacks(s.reserves)
  /\ StoreHeld(s, TRUE, "signed", s.epoch)
  /\ signedEpoch' = s.epoch % U32Modulus
  /\ UNCHANGED <<riskLatest, multiLatest, pricedLatest, unifiedEpoch,
                 setupVars, chainVars>>

SubmitRiskAttestation(s) ==
  /\ AssertCanonical(s)
  /\ RiskSolvency(Reduced(s))
  /\ RejectSeenRoot(s.root)
  /\ RejectWeakDowngrade
  /\ RiskPolicy(s)
  /\ s.reserves >= s.total
  /\ HolderBacks(s.reserves)
  /\ StoreHeld(s, FALSE, "risk", None)
  /\ riskLatest' = [root |-> s.root, total |-> s.total, reserves |-> s.reserves,
                    conc |-> s.conc % U32Modulus, coll |-> s.coll % U32Modulus,
                    bound |-> balance[ReserveHolder][ReserveToken],
                    ledger |-> ledger, epoch |-> epoch]
  /\ UNCHANGED <<multiLatest, pricedLatest, signedEpoch, unifiedEpoch,
                 setupVars, chainVars>>

SubmitUnifiedAttestation(s, keys) ==
  /\ AssertCanonical(s)
  /\ UnifiedSolvency(Reduced(s), keys)
  /\ RejectSeenRoot(s.root)
  /\ KeysPinned(keys)
  /\ EpochAdvances(s.epoch, unifiedEpoch)
  /\ RiskPolicy(s)
  /\ s.reserves >= s.total
  /\ HolderBacks(s.reserves)
  /\ StoreHeld(s, TRUE, "unified", s.epoch)
  /\ unifiedEpoch' = s.epoch % U32Modulus
  /\ UNCHANGED <<riskLatest, multiLatest, pricedLatest, signedEpoch,
                 setupVars, chainVars>>

----------------------------------------------------------------------------
(***************************************************************************)
(* Attestations backed by several reserve legs.                            *)
(***************************************************************************)

\* Every leg is in the reserve token, at scale 1:1.
SetReserveLegs(legs) ==
  /\ legs # <<>>
  /\ \A i \in DOMAIN legs :
       /\ legs[i].scale_num > 0 /\ legs[i].scale_den > 0
       /\ legs[i].scale_num = legs[i].scale_den
       /\ legs[i].token = ReserveToken
  /\ ReserveHolder \in Signers
  /\ reserveLegs' = legs
  /\ UNCHANGED <<attestationVars, registeredKeys, registry, oracleConfig, chainVars>>

\* leg.holder.require_auth() for every leg.
EveryHolderAuthorizes(legs) == \A i \in DOMAIN legs : legs[i].holder \in Signers

\* aggregate_reserves: one live balance per leg of the list.
AggregateReserves(legs) ==
  SumFunction([i \in DOMAIN legs |-> balance[legs[i].holder][legs[i].token]])

\* checked_add traps unless the aggregate is an i128.
SubmitMultiAttestation(s) ==
  /\ AssertCanonical(s)
  /\ Solvency(Reduced(s))
  /\ RejectSeenRoot(s.root)
  /\ RejectWeakDowngrade
  /\ s.reserves >= s.total
  /\ reserveLegs # <<>>
  /\ s.reserves \in I128
  /\ EveryHolderAuthorizes(reserveLegs)
  /\ LET aggregate == AggregateReserves(reserveLegs)
         first == reserveLegs[1]
     IN /\ aggregate \in I128
        /\ s.reserves <= aggregate
        /\ Store(s, first.holder, first.token, aggregate, FALSE, "multi", None)
        /\ multiLatest' = [root |-> s.root, total |-> s.total, reserves |-> s.reserves,
                           bound |-> aggregate, leg_count |-> Len(reserveLegs),
                           ledger |-> ledger, epoch |-> epoch]
  /\ UNCHANGED <<riskLatest, pricedLatest, signedEpoch, unifiedEpoch,
                 setupVars, chainVars>>

\* An empty feed list is refused; the reserve holder authorizes.
SetOracleConfig(config) ==
  /\ config.feeds # {}
  /\ ReserveHolder \in Signers
  /\ oracleConfig' = config
  /\ UNCHANGED <<attestationVars, registeredKeys, registry, reserveLegs, chainVars>>

\* current_ledger.saturating_sub(price_ledger) <= max_staleness: a quote dated
\* in the future counts as fresh.
QuoteFresh(q) == ledger <= q.ledger + oracleConfig.max_staleness

\* The quote a leg is priced with; the reflector is the configured one.
LegQuote(leg) == quotes[oracleConfig.reflector][leg.feed]

LegPriced(leg) ==
  /\ leg.feed \in oracleConfig.feeds
  /\ LegQuote(leg) # None
  /\ QuoteFresh(LegQuote(leg))
  /\ LegQuote(leg).price > 0
  /\ balance[leg.holder][leg.token] * LegQuote(leg).price \in I128

\* Fixed-point scaling; i128 division truncates.
Scaled(amount, price) == (amount * price) \div PriceDenominator

PricedReserves(legs) ==
  SumFunction([i \in DOMAIN legs |->
    Scaled(balance[legs[i].holder][legs[i].token], LegQuote(legs[i]).price)])

\* The running minimum of the quotes' ledgers.
OldestQuote(oldest, legs) ==
  /\ \E i \in DOMAIN legs : oldest = LegQuote(legs[i]).ledger
  /\ \A i \in DOMAIN legs : oldest <= LegQuote(legs[i]).ledger

SubmitPricedAttestation(s, legs) ==
  /\ AssertCanonical(s)
  /\ Solvency(Reduced(s))
  /\ RejectSeenRoot(s.root)
  /\ RejectWeakDowngrade
  /\ s.reserves >= s.total
  /\ legs # <<>>
  /\ oracleConfig # None
  /\ s.reserves \in I128
  /\ EveryHolderAuthorizes(legs)
  /\ \A i \in DOMAIN legs : LegPriced(legs[i])
  /\ LET aggregate == PricedReserves(legs)
     IN /\ aggregate \in I128
        /\ s.reserves <= aggregate
        /\ Store(s, legs[1].holder, legs[1].token, aggregate, FALSE, "priced", None)
        /\ \E oldest \in Ledgers :
             /\ OldestQuote(oldest, legs)
             /\ pricedLatest' = [root |-> s.root, total |-> s.total, reserves |-> s.reserves,
                                 bound |-> aggregate, leg_count |-> Len(legs),
                                 oldest_price_ledger |-> oldest,
                                 ledger |-> ledger, epoch |-> epoch]
  /\ UNCHANGED <<riskLatest, multiLatest, signedEpoch, unifiedEpoch,
                 setupVars, chainVars>>

----------------------------------------------------------------------------
(***************************************************************************)
(* Customers and members.                                                  *)
(***************************************************************************)

\* A registered customer cannot take a second slot, and a registered key is not
\* taken twice (the call is then a no-op).
NewCustomer(customer, key) ==
  \A i \in DOMAIN registeredKeys :
    registeredKeys[i].key # key /\ registeredKeys[i].customer # customer

\* The list stops at one key per leaf of the circuit.
SlotFree == Len(registeredKeys) < LeafSlots

RegisterCustomerKey(customer, key) ==
  /\ NewCustomer(customer, key)
  /\ SlotFree
  /\ registeredKeys' = Append(registeredKeys, [customer |-> customer, key |-> key])
  /\ UNCHANGED <<attestationVars, registry, reserveLegs, oracleConfig, chainVars>>

\* ed25519_verify of leaf_message(epoch, leaf) for every leaf of the batch.
BatchSigned(batch) ==
  \A i \in DOMAIN batch :
    /\ batch[i].balance >= 0
    /\ [pubkey |-> batch[i].pubkey, epoch |-> latest.epoch, balance |-> batch[i].balance,
        nonce |-> batch[i].nonce, commitment |-> batch[i].commitment] \in MemberSignatures

RegisterSignedLeaves(batch) ==
  /\ batch # <<>>
  /\ latest # None
  /\ BatchSigned(batch)
  /\ registry' = [epoch |-> latest.epoch, count |-> Len(batch),
                  leaves |-> [i \in DOMAIN batch |-> batch[i].commitment]]
  /\ UNCHANGED <<attestationVars, registeredKeys, reserveLegs, oracleConfig, chainVars>>

\* The view a member calls with an inclusion proof for the commitment.
VerifyInclusion(root, commitment) ==
  /\ latest # None
  /\ root = latest.root
  /\ Inclusion(root % FieldModulus, commitment)

----------------------------------------------------------------------------
(***************************************************************************)
(* The chain around the contract.                                          *)
(***************************************************************************)
Transfer(account, token, amount) ==
  /\ balance' = [balance EXCEPT ![account][token] = amount]
  /\ UNCHANGED <<attestationVars, setupVars, ledger, quotes>>

CloseLedger ==
  /\ ledger < MaxLedger
  /\ ledger' = ledger + 1
  /\ UNCHANGED <<attestationVars, setupVars, balance, quotes>>

PublishQuote(reflector, feed, quote) ==
  /\ quotes' = [quotes EXCEPT ![reflector][feed] = quote]
  /\ UNCHANGED <<attestationVars, setupVars, balance, ledger>>

----------------------------------------------------------------------------
BaseSignals == [root : RootWords, total : Figures, reserves : Figures]
RiskSignals == [root : RootWords, total : Figures, reserves : Figures,
                conc : BpsWords, coll : BpsWords]
SignedSignals == [root : RootWords, total : Figures, reserves : Figures,
                  epoch : CircuitEpochs]
UnifiedSignals == [root : RootWords, total : Figures, reserves : Figures,
                   epoch : CircuitEpochs, conc : BpsWords, coll : BpsWords]
Quotes == [price : Prices, ledger : Ledgers] \cup {None}

Init ==
  /\ latest = None /\ riskLatest = None /\ multiLatest = None /\ pricedLatest = None
  /\ epoch = 0
  /\ seenRoots = {}
  /\ signedEpoch = None /\ unifiedEpoch = None
  /\ registeredKeys = <<>>
  /\ registry = None
  /\ reserveLegs = <<>>
  /\ oracleConfig = None
  /\ events = <<>>
  /\ balance \in [Accounts -> [Tokens -> Balances]]
  /\ ledger = 0
  /\ quotes = [r \in Reflectors |-> [f \in Feeds |-> None]]

Next ==
  \/ \E s \in BaseSignals : SubmitAttestation(s)
  \/ \E s \in SignedSignals, keys \in KeyWords : SubmitSignedAttestation(s, keys)
  \/ \E s \in RiskSignals : SubmitRiskAttestation(s)
  \/ \E s \in UnifiedSignals, keys \in KeyWords : SubmitUnifiedAttestation(s, keys)
  \/ \E legs \in LegLists : SetReserveLegs(legs)
  \/ \E s \in BaseSignals : SubmitMultiAttestation(s)
  \/ \E config \in OracleConfigs : SetOracleConfig(config)
  \/ \E s \in BaseSignals, legs \in PricedLegLists : SubmitPricedAttestation(s, legs)
  \/ \E customer \in Customers, key \in Keys : RegisterCustomerKey(customer, key)
  \/ \E batch \in LeafBatches : RegisterSignedLeaves(batch)
  \/ \E a \in Accounts, t \in Tokens, v \in Balances : Transfer(a, t, v)
  \/ CloseLedger
  \/ \E r \in Reflectors, f \in Feeds, q \in Quotes : PublishQuote(r, f, q)

Spec == Init /\ [][Next]_vars

----------------------------------------------------------------------------
(***************************************************************************)
(* Properties.                                                             *)
(***************************************************************************)

\* Every storage entry holds a value of its type; in particular no path grows
\* the key list beyond the slots of the circuit it is pinned against.
TypeOK ==
  /\ latest \in Attestation \cup {None}
  /\ riskLatest \in RiskAttestation \cup {None}
  /\ multiLatest \in MultiAttestation \cup {None}
  /\ pricedLatest \in PricedAttestation \cup {None}
  /\ epoch \in U32
  /\ seenRoots \subseteq Nat
  /\ signedEpoch \in U32 \cup {None}
  /\ unifiedEpoch \in U32 \cup {None}
  /\ registeredKeys \in Seq(CustomerKey)
  /\ Len(registeredKeys) <= LeafSlots
  /\ registry \in SignedRegistry \cup {None}
  /\ reserveLegs \in Seq(ReserveLeg)
  /\ oracleConfig \in OracleConfig \cup {None}
  /\ events \in Seq(Event)
  /\ balance \in [Accounts -> [Tokens -> I128]]
  /\ ledger \in Ledgers
  /\ quotes \in [Reflectors -> [Feeds -> Quote \cup {None}]]

\* No root is ever attested twice, by whichever of the five paths and under
\* whichever of its encodings: two attestations never certify the same tree.
RootsAttestedOnce ==
  \A i, j \in DOMAIN events :
    i # j => events[i].root % FieldModulus # events[j].root % FieldModulus

StrongTopics == {"signed", "unified"}

LastEvent == events[Len(events)]

\* The attestation a family keeps is the newest one it published.
IsNewestOf(record, topic) ==
  \E i \in DOMAIN events :
    /\ events[i].topic = topic
    /\ events[i].root = record.root
    /\ events[i].epoch = record.epoch
    /\ \A j \in (i + 1)..Len(events) : events[j].topic # topic

\* The published history and the stored entries tell one story: the counter is
\* the number of attestations, they are numbered without gaps, Latest is the
\* last of them whichever path stored it, and each family's own entry is its
\* newest.  A path that forgets to mirror into Latest breaks this.
LatestIsNewest ==
  /\ epoch = Len(events)
  /\ \A i \in DOMAIN events : events[i].epoch = i - 1
  /\ latest = None <=> events = <<>>
  /\ latest # None =>
       /\ latest.root = LastEvent.root
       /\ latest.epoch = LastEvent.epoch
       /\ latest.non_omission <=> LastEvent.topic \in StrongTopics
  /\ riskLatest # None => IsNewestOf(riskLatest, "risk")
  /\ multiLatest # None => IsNewestOf(multiLatest, "multi")
  /\ pricedLatest # None => IsNewestOf(pricedLatest, "priced")

\* The contract implements the abstract log: the events it publishes are the
\* log and Latest is its head, on every path.
Log == INSTANCE AttestationLog WITH
  Root <- RootWords,
  NoHead <- None,
  log <- [i \in DOMAIN events |->
            [root |-> events[i].root, strong |-> events[i].topic \in StrongTopics]],
  head <- IF latest = None THEN None
          ELSE [root |-> latest.root, strong |-> latest.non_omission]

ImplementsLog == Log!LogSpec

\* The balances of the attested tree, added as integers, are covered end to
\* end: no field-wrapped ("negative") leaf hides a liability from the total.
NoHiddenLiability ==
  latest # None =>
    /\ SumFunction([i \in DOMAIN Leaves(latest.root) |-> Leaf(latest.root, i).balance])
         <= latest.total
    /\ latest.total <= latest.reserves
    /\ latest.reserves <= latest.bound

\* A tree attested under the risk policy really meets it, leaf by leaf.
MeetsRiskPolicy(record) ==
  /\ \A i \in DOMAIN Leaves(record.root) :
       Leaf(record.root, i).balance * 10000 <= MaxConcBpsPolicy * record.total
  /\ MinCollBpsPolicy * record.total <= record.reserves * 10000

\* Both risk-limited paths enforce the contract's policy, whatever bounds the
\* prover chose to make public.
RiskPolicyHolds ==
  /\ riskLatest # None => MeetsRiskPolicy(riskLatest)
  /\ latest # None /\ LastEvent.topic = "unified" => MeetsRiskPolicy(latest)

\* A weaker path never replaces an attestation with in-circuit non-omission.
NonOmissionLatch ==
  [][latest # None /\ latest.non_omission => latest' # None /\ latest'.non_omission]_vars

\* As long as Latest claims non-omission, its tree has one leaf for every
\* registered customer, in the registered order, and no other leaf: nothing
\* that happens later to the key list can make the claim untrue.
CompleteBook ==
  latest # None /\ latest.non_omission =>
    /\ Len(registeredKeys) = LeafSlots
    /\ \A i \in 1..LeafSlots :
         Leaf(latest.root % FieldModulus, i).owner = registeredKeys[i].key

\* Every leaf a signed or unified attestation ever counted was signed, for
\* that attestation's epoch, by the customer registered at its position.
EveryLeafConsented ==
  \A n \in DOMAIN events :
    events[n].topic \in StrongTopics =>
      \A i \in 1..LeafSlots :
        LET leaf == Leaf(events[n].root % FieldModulus, i)
        IN [key |-> registeredKeys[i].key, epoch |-> events[n].circuit_epoch,
            balance |-> leaf.balance, nonce |-> leaf.nonce] \in EdDSAMessages

\* The key list only grows, at its end, and never holds a key or a customer
\* twice: a registered position is never moved, replaced or given away.
KeyListGrowsOnly ==
  [][/\ Len(registeredKeys') >= Len(registeredKeys)
     /\ \A i \in DOMAIN registeredKeys : registeredKeys'[i] = registeredKeys[i]
     /\ \A i, j \in DOMAIN registeredKeys' :
          i # j => /\ registeredKeys'[i].key # registeredKeys'[j].key
                   /\ registeredKeys'[i].customer # registeredKeys'[j].customer]_vars

\* A signed or unified attestation is followed by an older proof of its family,
\* or by the same one, only once an epoch of that family, its own or a later one,
\* did not fit the u32 it is stored in.
CircuitEpochsFresh ==
  \A i, j \in DOMAIN events :
    (/\ i < j
     /\ events[i].topic \in StrongTopics /\ events[j].topic = events[i].topic
     /\ events[j].circuit_epoch <= events[i].circuit_epoch)
      => \E k \in i..(j - 1) :
           events[k].topic = events[i].topic /\ events[k].circuit_epoch \notin U32

\* The bulletin board only lists leaves signed by a member for the very epoch
\* it is pinned to, and that epoch has been attested.
RegistryPinned ==
  registry # None =>
    /\ registry.epoch \in {events[i].epoch : i \in DOMAIN events}
    /\ registry.count = Len(registry.leaves)
    /\ \A i \in DOMAIN registry.leaves :
         \E m \in MemberSignatures :
           m.epoch = registry.epoch /\ m.commitment = registry.leaves[i] /\ m.balance >= 0

\* What distinct holdings are worth: an account counts once per token.
Holdings(pairs) == MapThenSumSet(LAMBDA p : balance[p[1]][p[2]], pairs)

\* A new attestation of a single-holder path is covered by what the holder
\* named in it owns at that moment.
HeldAttestationBacked ==
  [][latest' # latest /\ events'[Len(events')].topic \in {"attested", "signed", "risk", "unified"}
       => /\ latest'.total <= latest'.reserves
          /\ latest'.reserves <= balance[latest'.holder][latest'.token]
          /\ latest'.holder \in Signers]_vars

\* A new multi-holder attestation is covered by distinct live holdings in the
\* reserve token, all of them controlled by accounts that authorized it.
MultiAttestationBacked ==
  [][multiLatest' # multiLatest =>
       LET legs == {<<reserveLegs[i].holder, reserveLegs[i].token>> : i \in DOMAIN reserveLegs}
       IN /\ multiLatest'.reserves <= Holdings(legs)
          /\ legs \subseteq Signers \X {ReserveToken}]_vars

\* A new priced attestation is justified by some legs that all authorized it:
\* at fresh, positive quotes of pinned feeds, before any rounding, their
\* distinct holdings are worth at least the declared reserves.
PricedAttestationBacked ==
  [][pricedLatest' # pricedLatest =>
       \E legs \in PricedLegLists :
         LET legSet == {legs[i] : i \in DOMAIN legs}
         IN /\ pricedLatest'.leg_count = Len(legs)
            /\ \A leg \in legSet :
                 /\ leg.holder \in Signers
                 /\ leg.feed \in oracleConfig.feeds
                 /\ LegQuote(leg) # None
                 /\ LegQuote(leg).price > 0
                 /\ LegQuote(leg).ledger >= pricedLatest'.oldest_price_ledger
                 /\ ledger - LegQuote(leg).ledger <= oracleConfig.max_staleness
            /\ pricedLatest'.reserves * PriceDenominator
                 <= MapThenSumSet(LAMBDA leg : balance[leg.holder][leg.token]
                                                 * LegQuote(leg).price, legSet)]_vars

----------------------------------------------------------------------------
(***************************************************************************)
(* Claims of the documentation the code does not keep (see README.md).     *)
(***************************************************************************)

\* DataKey::SignedEpoch: "a stale proof cannot be replayed".
CircuitEpochsIncrease ==
  \A i, j \in DOMAIN events :
    (i < j /\ events[i].topic \in StrongTopics /\ events[j].topic = events[i].topic)
      => events[i].circuit_epoch < events[j].circuit_epoch

\* aggregate_reserves: "This is the real aggregate backing the multi-holder
\* reserve."
AggregateIsReal ==
  LET legs == {<<reserveLegs[i].holder, reserveLegs[i].token>> : i \in DOMAIN reserveLegs}
  IN AggregateReserves(reserveLegs) = Holdings(legs)

\* submit_unified_attestation: "mirrors into Latest, so verify_inclusion binds
\* to the unified root": a member of the attested tree can verify inclusion.
MembersCanVerify ==
  latest # None =>
    \A i \in DOMAIN Leaves(latest.root) :
      VerifyInclusion(latest.root, Commitment(Leaf(latest.root, i)))

=============================================================================
