# Tessera protocol: TLA+ models and proofs

This directory holds a TLA+ development of Tessera: models translated from the source, TLC
configurations that check them on small instances, and proofs of the contract's most
important properties that the TLA+ proof system checks for every value of the constants.

Paths below are relative to the repository; `lib.rs` is
`contracts/tessera-ledger/src/lib.rs`.

## 1. The system

Tessera lets an issuer attest on Stellar that its reserves cover its liabilities without
publishing the liabilities. A Merkle-sum tree over customers' balances is proved solvent in
zero knowledge, and a Soroban contract accepts the proof only if the declared reserves are
really on the chain.

| Part | State it keeps | Operations | Talks to |
|---|---|---|---|
| Attestation contract, submissions (`lib.rs`) | `Latest`, one entry per family, `Epoch`, `SeenRoot`, `SignedEpoch`, `UnifiedEpoch` | `submit_attestation`, `_signed_`, `_risk_`, `_unified_`, `_multi_`, `_priced_` | verifier, token contracts, oracle |
| Key list and bulletin board (`lib.rs`) | `RegisteredKeys`, `Registry` | `register_customer_key`, `register_signed_leaves`, `verify_inclusion`, `verify_signed_claim`, `is_registered` | submissions compare with the key list |
| Reserve legs and oracle wiring (`lib.rs`) | `ReserveLegs`, `OracleConfig` | `set_reserve_legs`, `set_oracle_config`, `aggregate_reserves` | multi and priced submissions |
| Groth16 verifier (`groth16.rs`) | none | `verify` | host cryptography |
| Circuits (`circuits/`) | none | one predicate per verification key | proved by the client, verified by the contract |
| Submission clients (`frontend/lib/server/stellar.ts`, `walletSubmit.ts`, `app/issuer/page.tsx`) | the runs of the page, the outcome each tab shows, the account's sequence number, the book kept in the browser | preflight, sign, send, poll, persist | RPC node, contract |
| Readers (`app/board`, `app/badge`, `app/api/solvency`, `app/inclusion`, `sdk/`, `scripts/check_badge_freshness.js`) | one load: what is awaited, what was answered, the tries made | reads by simulation, with retries | RPC nodes, contract |
| Prover and tree builder (`frontend/lib/merkle.ts`, `prover.ts`) | none | build the tree, prove | circuits |
| Two-signer script (`scripts/two_signer_submit.js`) | a file with a built transaction, the script's position | simulate, authorize, sign, send, poll | RPC node, multi-holder path |
| Other scripts (`scripts/`) | files | setup checks, conversions, demos | |

What is hard here:

* **Six paths, one history.** Each submission entrypoint repeats the same checks by hand and
  mirrors its result into `Latest`; two of them also update a freshness counter, three a
  family entry. A check left out of one path is an error that only shows after calls on two
  different paths.
* **Encodings.** Signals are 32-byte words; the host reduces them modulo the field order, so
  two words can denote one root. The sum a tree carries is a field sum and wraps.
* **Time between proving and submitting.** Balances, quotes, legs and the key list move; what
  counts is what the contract reads in the same call.
* **Later changes.** `Latest` keeps claiming non-omission while customers keep registering.
* **A network that answers late.** The client stops polling long before its transaction stops
  being valid; a tab can be reloaded while the server still works for it, or start a second run
  while the first is awaited; an operator submits a file again.
* **Three number systems.** A balance is a BigInt in the page, a field element in the circuit,
  a word on the wire and an i128 in the contract; a comparator is a top bit of a field
  difference. Each step is right only together with the checks of the others.
* **Readers that are behind.** A page puts together answers of nodes at different ledgers, and
  tells a node that lags from an error and from an empty contract.

`PROJECT.json` lists the hazards with their lines and the properties that cover them.

## 2. Modules

| Module | Models | How it corresponds to the code |
|---|---|---|
| `SolvencyCircuits` | the circuits whose keys the contract embeds | a predicate per circuit over the public signals and the tree under the root |
| `TesseraLedger` | the contract and the chain around it | one variable per storage key, one action per entrypoint, plus the moves of the chain |
| `AttestationLog` | what the contract promises | abstract: a log that only grows, no root twice, head = newest, no fall back from strong to weak |
| `SubmitClient` | issuer page, server route, wallet submission, network queue | one action per awaited call of the routine and per step of a run; a run is a closure of its own |
| `ScalarField`, `MerkleSumCircuits` | the constraint systems of `solvency`, `risk_solvency`, `inclusion` and `keyed_risk_r1` | one operator per template: field sums, `Num2Bits`, `LessEqThan` with its width, the Merkle-sum fold, per-key sums |
| `WireFormat` | words, proof bytes, the contract's readings and the Groth16 check | one operator per function of `convert.ts`, of the helpers of `lib.rs` and of `groth16.rs` |
| `DataPath` | page, prover, wire, contract, for one book | extends the two above; one action per step: enter, prove, submit, verify inclusion |
| `StatusReaders` | everything that reads the contract | extends `TesseraLedger`; a load is opened, its calls return, its handler shows |
| `HolderScript` | the operator's script against the multi-holder path | extends `TesseraLedger`; one action per awaited call, plus the network |
| `MCTesseraLedger`, `MCSubmitClient`, `MCDataPath`, `MCStatusReaders`, `MCHolderScript` | instances for TLC | books, words, legs, signatures, keys of the runs |
| `TesseraLedgerProofs` | proofs: types, history, latch, board; `TesseraLedger` implements `AttestationLog` | extends `TesseraLedger` |
| `TesseraBookProofs` | proofs: key list, signatures, freshness, risk policy, sums of trees, legs and the holder | extends `TesseraLedgerProofs`, `SumTheorems` |
| `SumTheorems` | proofs: induction over numbers and finite sets, the laws of sums | |
| `CircuitProofs` | proofs: powers, digits and words, comparators, tree folds, the Groth16 equation | extends `MerkleSumCircuits`, `WireFormat`, `SumTheorems` |
| `DataPathProofs` | proofs: what the constraints mean in integers, what is sent, accepted and stored | extends `DataPath`, `CircuitProofs` |
| `SubmitClientProofs` | proofs: reports, refusals and what a disabled tab waits for | extends `SubmitClient` |
| `StatusReadersProofs` | proofs: what readers show, the contract under them | extends `StatusReaders`, `TesseraLedgerProofs` |
| `HolderScriptProofs` | proofs: the script's exit codes and resubmission, the contract under it | extends `HolderScript`, `TesseraLedgerProofs` |

`TesseraLedger` extends `SolvencyCircuits` and instantiates `AttestationLog` for the
refinement. `SubmitClient` uses `AttestationLog` itself as the contract: the composition is
sound because the contract is proved to implement it. `StatusReaders` and `HolderScript` are
composed with `TesseraLedger` itself. `DataPath` states with `INSTANCE SolvencyCircuits` that
the constraint systems are satisfied exactly when the abstract circuits of `TesseraLedger` say
so, which is what the ledger model takes for granted of `solvency` and `risk_solvency`.

### Conventions of the contract's model

* A Soroban call is atomic and a panic reverts it. An entrypoint's action is enabled exactly
  when the call succeeds; a rejected call is a stutter. The one early return that is not a
  panic (`register_customer_key` with a key already registered) changes nothing and is also a
  stutter.
* The order of checks inside one call is visible only in which error code is returned, which
  no property is about; the guards are kept in the order of the code all the same.
* Signals are naturals standing for big-endian words. Words from `FieldModulus` upwards are
  the non-canonical encodings; `Reduced` is the host's reduction; `AssertCanonical` is
  `assert_canonical_signals`. `be32_to_i128` is the guard `\in I128`; `be32_to_u32` and
  `as u32` are `% U32Modulus`.
* Every `checked_add`/`checked_mul` that panics is a guard `\in I128`, and the `u32` addition
  of the epoch (overflow checks are on in the release profile) a guard `\in U32`.
* Poseidon is collision resistant: a root has at most one tree (`Book`). Groth16 is sound and
  complete: a proof verifies exactly when a witness exists. `EdDSAMessages` and
  `MemberSignatures` are the messages ever signed, `Signers` the accounts that authorize;
  taking them constant is an over-approximation, because they only ever enable calls.
* Padding leaves of balance 0 are left out of trees. `registry_root` (a SHA-256 of the leaves)
  is determined by the leaves and left out; `timestamp` and `control_proven` (always true)
  too. `events` holds the attestation events of the "ledger" topic in order.
* Registered keys need no canonical check of their own: they are canonical when registered and
  the pin compares words.
* Token balances are those of Stellar asset contracts, which are never negative.

### The client's model

Each call of the page's `run()` is a closure with locals of its own: `run[r]` is what it captured
(tab, book) and where it stands, `proving -> submitting -> confirming -> over`. `outcome[t]` is
what tab t shows; `Running` there is all that disables the button. Loading a CSV replaces it and
asks nobody (`LoadBook`), so several runs of one tab can be under way, and each persists and
reports its own submission when its answer comes. Leaving the page by a link unmounts it: its runs
go on and persist, but no longer set an outcome. "idle", "rejected" and "error" are one outcome,
`Ready`, as they differ in what is displayed.

The routine of a submission, the same in the server and in the tab, is
`account -> preflight -> send -> poll` and ends `returned`, `refused` (nothing was or will be
applied) or `unsure` (a call threw after sending, or the polls ran out). The network may hold,
apply or drop a transaction at any time; it applies those of one account in sequence order. A
reload ends a tab's runs and the routines of its wallet submissions, and not the server's. An RPC
node may answer `NOT_FOUND` for a transaction that has been applied. Writing to the browser's
storage is taken to succeed.

### The data path's model

* A circuit input is a record of field elements and a template is a predicate on it. Sums are
  reduced; `Num2Bits(n, x)` is the set of n-bit numbers congruent to x; `LessThan(n, a, b)`
  looks at bit n of `a + 2^n - b`, as circomlib does. Poseidon is the tuple of its arguments;
  in the public signals a root or a leaf is one fixed field element.
* A word is a sequence of digits. A curve point is its discrete logarithm, so the pairing
  equation is one equation in the field and `groth16.verify` is evaluated as it is written;
  the proof an honest prover makes is the one C that satisfies it for its own signals. In the
  bytes, a coordinate is a tagged component, so that order matters and the curve does not.
* A caller may send the words the page made, or the same with one replaced (another encoding,
  a neighbouring value), two exchanged, one missing or one added, to any of the entrypoints.
* What is entered are any BigInts, and the circuits take them into the field: r + 5 becomes 5. The
  properties are about the book as the field takes it (`TakenBook`, `TakenTreasury`) and say when
  that is the book in the page (`TakenAsEntered`). The instance enters such figures, too.
* A page proves before its book is attested and once after (`MayProve`): a proof depends on the
  book alone, and the bound only keeps equal states from being reached again.
* `ProveKeyedRisk` stands for the vectors of `scripts/gen_keyed_risk_r1.js`: no entrypoint takes
  that proof, and its signatures are left out.

### The readers' model

An RPC node answers from a closed ledger, at most `MaxLag` behind. A read that meets a lagging
node is tried again up to `MaxTries` times; any other error settles it at once. An answer is
the number of the ledger it was read from, so what is shown can be compared with the contract's
state then. The freshness script's own clock is the chain's. Readers change nothing, so one load
at a time stands for all of them. A member's audit is the use of `verify_inclusion` and
`is_registered` that `lib.rs:818` describes.

### The script's model

A run is `simulate -> authorize -> send -> poll` and an exit code. `cloneFrom` keeps the
sequence number of the file, so a file submitted again competes with itself. A run that exits with
2 or 3 has put nothing into the network: after a `DUPLICATE`, an identical transaction is there
already, and is the transaction of the run that sent it. A transaction that was sent may be applied, fail, or be dropped, as long as its sequence number is next, its time
bound not passed and its signatures valid; in the meantime the legs, the balances and the
account's sequence number move. Which keys the operator has is abstracted to "they cover the
entries, or the script gives up".

## 3. Runs

All runs of the contract use a field of 70001 elements, 16-bit "u32" and a small i128, so that
wrapping and overflow happen within the bounds. Words, figures and balances are small sets
that contain, for every guard, a value that passes and one that does not.

| Run | Question | Result |
|---|---|---|
| `HeldReserve` | Base and risk paths and the board: can a root be attested twice (also under its alias 70002 = 1 mod 70001), can a field-wrapped leaf hide a liability, do weak public bounds pass, does the board list unsigned leaves, is the holder's balance behind the figure? | pass |
| `SignedBook` | Signed and unified paths against the key list: completeness, consent, freshness (`CircuitEpochsFresh`), the latch, an append-only list. Books that replace, shrink and swap customers are offered | pass |
| `PricedLegs` | Oracle-priced reserves with missing, zero, stale and future quotes | pass |
| `AttestationHistory` | All six entrypoints interleaved over a small book: types, storage = history, refinement of `AttestationLog` | pass |
| `SubmitRace` | Two tabs, two runs that may overlap in one tab, reloads, lost answers: are reports and the stored book those of the run's own transaction (`ReportsAreTrue`), are refusals final (`ErrorsAreFinal`), does a disabled tab wait for a run (`RunningIsAwaited`), is every run that waits for the server answered (`EveryRequestAnswered`)? | pass |
| `DataPath` | Every small book, honest or forged: does storage say in integers what the book is as the field takes it, and where is that not the page's (`AttestedIsTrueBook`), within the limits it states (`AttestedWithinLimits`); do exactly the intact calls get through (`OnlyIntactCallsAccepted`, `IntactCallsAccepted`); do the constraint systems compute the abstract circuits (`CircuitsAsAbstracted`); is a split balance capped (`KeysWithinCap`); does exactly the true balance fold to the root (`OnlyTrueBalanceFolds`)? | pass |
| `StatusReaders` | Board, badges, endpoint, SDK, freshness script, membership page and audit over lagging nodes: is what they show backed, recent, fresh, counted, and does a failed read never look like an empty contract; does every load end? | pass |
| `HolderScript` | Two runs of the script, of one file or two: are the exit codes true, is a file applied once, are the holders counted those who authorized, does every run exit? | pass |
| `EpochWrap` | "a new signed attestation must carry a strictly greater epoch" | violated: stored as u32 |
| `RepeatedLegs` | "the real aggregate backing the multi-holder reserve" | violated: a repeated leg counts twice |
| `SignedInclusion` | "`verify_inclusion` binds to the unified root" | violated: the only key is for depth 4 |
| `LostBook` | "the set last attested from this browser, persisted ..." | violated: a late receipt is never looked for again; a book is also replaced by an older one when of two overlapping runs the first is answered last |

What some of the weaker-looking answers mean: `AuditMeansSignedAndCounted` says that a member
whose two checks pass has signed the leaf for *an* attested epoch, because `is_registered`
answers from a board that outlives the attestation it is pinned to; `FreshMeansRecent` allows
the lag of the node that gave the current ledger; `ShownIsBacked` also says that the
"underfunded" displays are never reached, because the contract stores no such attestation.

### Bounds

* *Roots.* Every accepted submission uses up a root, so the number of roots bounds the length
  of a history; three to eight roots give histories in which each path follows each other one.
* *Books.* One book per way a proof can differ from an honest one: concentrated, wrapped,
  a customer replaced, a balance lowered, two customers swapped, empty.
* *Ledger.* One or two ledgers: quote ages 0 and 1 against staleness 0 and 1, which puts the
  boundary and both its sides inside.
* *Key slots.* Three instead of four (one in `AttestationHistory`); `LeafSlots` is a constant
  and the proofs hold for every value.
* *Client.* Two runs and two polls: a retry of a timed-out run, two runs of one tab or of two with
  one sequence number, a poll that is retried and one that is the last. Tabs are alike, and so
  are books: `MCFirstRun` fixes those of the first run, which leaves out renamed behaviours only.
* *Data path.* The prime 521 is just above the widest comparator (2^9 = 512), so a comparator
  with too few bits or a wrapped sum shows; the 254-bit field of the source leaves more room,
  not less. Trees of depth 2 have inner nodes and left and right positions at both levels;
  balances of 2 bits, treasuries on both sides of every range; 4 basis points in a whole, where
  `SolvencyCircuits` counts 10000 (`AbstractSignals` converts); entries r + 1, -(r - 1), r and r - 1
  beside the small ones; words of six base-4 digits, so
  every element has up to seven other encodings and an i128 is narrower than the field.
* *Readers.* Three ledgers, nodes up to one behind, two tries, an age limit of one ledger: a
  load that starts at the first ledger can end at the last with answers of three of them.
* *Script.* Two runs, one poll more than the first, one transaction of the account from
  elsewhere, two ledgers, time bounds and signatures of the ledger they are made in: a file
  started twice, a run whose transaction expires, one whose legs change under it.
* `CHECK_DEADLOCK FALSE`: a bounded instance stops when its roots or runs are used up.

### Fairness

`TesseraLedger` has none: a contract only reacts. `SubmitClient` assumes that each call the
*server* awaits answers or fails and that its answer reaches a run that still waits
(`WF(ServerRoutine(r))`, `WF(Deliver(r))`): an HTTP call ends one way or the other and the event loop
runs what is ready. Nothing is assumed of the network (it may never apply a transaction) nor of
a wallet's user, so `EveryRequestAnswered` is stated for submissions through the server.

`StatusReaders` assumes that an awaited read is answered or throws and that the handler then
runs (`WF(ReaderStep)`); a node may lag for ever, and the load still ends because the tries are
counted. `HolderScript` assumes the same of each call of a run (`WF(Script(r))`), and nothing of
the network.

## 4. Proofs

Proved from the named `ASSUME`s of the modules (`FieldAssumption`, `TreeAssumption`,
`NoneAssumption`, `DeploymentAssumption`, `WordAssumption`, `WidthAssumption`,
`ChainAssumption`, `ClientAssumption`, `ScriptAssumption`, `ReaderAssumption`; for the data path
`ModulusAssumption`, `PrimeAssumption`, `WidthsAssumption`, `WordWidthAssumption`,
`PageAssumption`, `UnitsAssumption`, `KeyAssumption`), for every book, every number of slots,
accounts, keys, words, tabs, runs of the page, runs of the script and tries of a read, every lag of the nodes, every depth of
the tree, every width of the comparators and of a word. TLC evaluates all of them on the
instances. Some of them say more than a type:

* `TreeAssumption`: as many balances of the range as a tree has leaves stay below the field's
  order (16 times 2^64 against 2^254 in the source). Without it a sum could wrap although every
  leaf is in range, and `NothingHidden` would be false.
* `WidthsAssumption` and `UnitsAssumption`: how the widths of the circuits relate to each other, to
  the field and to the integers the contract reads (64, 68 or more, 16 bits; i128, u32).
* `PrimeAssumption`: a product that vanishes in the field has a factor that does, as r is prime.
* `KeyAssumption`: gamma is not the identity, delta has an inverse, and the ic points of a key's
  signals are distinct and none of them the identity. The keys of `vk_data.rs` and
  `risk_vk_data.rs` are such. With a repeated point two signals could be
  exchanged under one proof, with the identity one could be replaced.

Some theorems have a hypothesis of their own, which no code establishes:

* `DistinctHoldings`, `DistinctLegs` of the lists of legs: `set_reserve_legs` does not check it
  (finding 2). `DistinctLegsBack` and `DistinctPricedLegsBack` are under it.
* `KeysApart`: a proof of one circuit does not satisfy the pairing equation of another circuit's
  key, with any of the calls a submitter may make of it. `CallsThatPassAreIntact`,
  `AttestationsTellTheTruth`, `AttestationsKeepLimits` and `IntactCallsGoThrough` are under it.
  No entrypoint establishes this: it follows from the setup drawing the keys independently of each other, and with points replaced
  by logarithms there are keys for which it is false. It is a formula of the constants, which TLC
  evaluates on the instance (`MCTheoremHypotheses`). Nothing of the kind is assumed of a circuit's
  own key: that a word replaced or exchanged is refused there is proved (`KeysBindSignals`).

| Theorem | States | Argument |
|---|---|---|
| `TypeCorrectness` | `TypeOK` | inductive as it stands, one lemma per family of actions |
| `StorageMatchesHistory` | `LatestIsNewest` | part of `HistoryInv` |
| `NoRootTwice` | `RootsAttestedOnce` | not inductive alone: `HistoryInv` adds that `SeenRoot` is exactly the set of published roots and that all of them are canonical, so a new word that is not in `SeenRoot` denotes a new field element |
| `NoDowngrade` | `NonOmissionLatch` | action property from `TypeOK` |
| `BoardIsHonest` | `RegistryPinned` | needs `HistoryInv`: the epoch the board is pinned to is that of `Latest`, hence of an event |
| `ContractImplementsLog` | `ImplementsLog` | the initial state maps to the log's, a submission to `Publish`, everything else to a stutter, under `HistoryInv` |
| `KeyListOnlyGrows` | `KeyListGrowsOnly` | inductive invariant: no key and no customer twice |
| `EveryLeafSigned` | `EveryLeafConsented` | `ConsentInv`: once a strong event exists the list is full, so its positions never change again |
| `NoCustomerOmitted` | `CompleteBook` | `ConsentInv` strengthened with the leaves' owners |
| `FreshProofsOnly` | `CircuitEpochsFresh` | for every instance, epochs that do not fit u32 included: a stale proof is accepted only behind one that did not fit (`EpochWrap` shows that case), so epochs increase as long as all fit. `FamilyEpochs` ties each counter to the newest event of its family |
| `PolicyAlwaysMet` | `RiskPolicyHolds` | `RiskInv`: the circuit's 16-bit bounds make the contract's truncation harmless |
| `HolderStandsBehind` | `HeldAttestationBacked` | action property from `TypeOK` |
| `ClientTypes` | `ClientTypeOK` | part of `ClientInv` |
| `TrueReports` | `ReportsAreTrue` | `ClientInv` ties a tab's report to the run that made it, a returned submission to its receipt, and a successful receipt to the log entry its transaction made; that runs overlap changes none of this |
| `FinalErrors` | `ErrorsAreFinal` | `ClientInv` adds that nothing is in the network before it is sent or after it has a receipt |
| `AwaitedRuns` | `RunningIsAwaited` | part of `ClientInv`: each way a run ends sets the outcome of the tab it is mounted in, and leaving or reloading sets it at once |
| `ScriptRunsTheContract` | `ScriptSpec => Spec` | every step of the script, the network and the others is a step of the contract or leaves it: the theorems above hold in the composition |
| `ScriptTypes` | `ScriptTypeOK` | part of `ScriptInv` |
| `ExitCodesAreTrue` | `ExitsAreTrue` | `ScriptInv` adds that a successful transaction's root is in an event, and that events stay |
| `FileAppliedOnce` | `OneTransactionPerFile` | not inductive alone: `ScriptInv` adds that a file has one sequence number, and that those of the applied transactions are distinct and at most the account's |
| `ReadersRunTheContract` | `ReadersSpec => Spec` | readers leave the contract's variables alone |
| `ReadersTypes` | `ReadersTypeOK` | part of `ChainInv` and `ReaderInv` |
| `DisplaysAreBacked` | `ShownIsBacked` | not inductive alone: `ChainInv` says of every closed ledger what `HistoryInv`, `RegistryPinned` and the submission checks say of the contract, and goes from the open ledger to the sequence of closed ones when one closes; `ReaderInv` says what a reader must have got to show what it shows (`Tells`), and that its answers are those of closed ledgers, which never change |
| `EmptyIsTrue` | `EmptyMeansNone` | the same; `EmptyInv` adds that once something is attested no later ledger answers that nothing is |
| `FiguresOfThisLoad` | `FiguresAreRecent` | `LoadInv`: a load starts with no answers |
| `FreshIsRecent` | `FreshMeansRecent` | the same; an attestation's ledger has a stamp because it is not after the open one |
| `IncludedIsCounted` | `IncludedMeansCounted` | the same; the root asked about is canonical because it is an attested one |
| `AuditIsTrue` | `AuditMeansSignedAndCounted` | the same; what a closed ledger's board lists was signed for an epoch attested by then |
| `NothingHidden` | `NoHiddenLiability` | the sum of a tree in range is below the modulus (`SumBound`), so the field sum is the integer sum; each path's checks give the reserves |
| `DistinctLegsBack` | `MultiAttestationBacked` | `LegsInv` (the legs are one of the lists); the sum over positions is the sum over holdings, because the map is one to one (`SumImage`) |
| `DistinctPricedLegsBack` | `PricedAttestationBacked` | the same, with the floor of each division at most its quotient (`SumScale`, `SumMonotonic`) |
| `Comparators` | `LessThan`, `LessEqThan` below 2^n | the witness of `Num2Bits(n + 1)` is unique when 2^(n+1) is at most r |
| `BytewiseIsNumeric` | `ge_be` compares numbers | induction over the first differing digit |
| `CanonicalWords` | canonical words and field elements correspond one to one | from `BytewiseIsNumeric` and the digits of r |
| `HonestProofVerifies` | an honest proof passes | the chosen C exists because delta has an inverse; `vk_x` is the prover's sum taken from its first term on (`SumTakeOut`, `SumImage`) |
| `SolvencyMeans`, `RiskSolvencyMeans`, `KeyedRiskMeans` | constraints hold exactly of solvent books within bounds, in integers | every level of the page's tree is the circuit's level (`CircuitLevelsOfTree`), sums agree level by level (`TreeSums`), comparators are applied to numbers below their width only |
| `InclusionMeans` | exactly the true balance folds to the root | downwards along the path: equal parents have equal children, because the hash is one to one; upwards: the co-path's siblings are the tree's |
| `DataPathTyped` | `PathTypeOK` | `PathInv`, `SentInv`, `StoredInv` |
| `KeyedProofsCapKeys`, `InclusionProofsAreTrue`, `CircuitsImplementAbstract` | `KeysWithinCap`, `OnlyTrueBalanceFolds`, `CircuitsAsAbstracted` | `PathInv`: the page holds an entered book and the proof is the outcome of a circuit on that book; then the theorems on constraints, for the book as the field takes it: the page's tree of BigInts and the tree of their residues give the circuits one input (`TakenInputs`) |
| `KeysBindSignals` | no altered call of the right length passes the check of the proof's own key, unless it spells the same signals | the bytes are read as the one proof they were made of (`ProofIsRead`), so both vectors of inputs satisfy its equation and have one `vk_x` (`OneVkX`: gamma cancels, because r is prime); one input or two exchanged inputs with one `vk_x` are the same, because the ic points differ (`OneInputBound`, `ExchangedInputsBound`) |
| `CallsThatPassAreIntact` | `OnlyIntactCallsAccepted` | the entrypoint is the proof's (`OtherKeysRefuse`: by the number of words or by `KeysApart`), the words spell its signals in the field (`KeysBindSignals`), and by `CanonicalWords` they are the proof's words. Under `KeysApart` |
| `AttestationsTellTheTruth`, `AttestationsKeepLimits` | `AttestedIsTrueBook`, `AttestedWithinLimits` | not inductive alone: `AttestedInv` keeps, of the stored words, what they spell, and the step that stores needs that the call was intact and that its circuit was satisfied. Under `KeysApart` |
| `IntactCallsGoThrough` | `IntactCallsAccepted` | the words of signals are canonical, the bytes of the points parse, `HonestProofVerifies`, and each reading of a word gives back the figure. Under `KeysApart` |

The provers cannot instantiate an induction theorem whose parameter is an operator. `SumTheorems`
therefore states induction about sets (a set of numbers that holds 0 and is closed under + 1 holds
all of them), from the library's least-element theorem, and a recursive function is reached
through the fact that its equation has exactly one solution. That is what brings sums, trees,
digits and powers within reach; recursion is written as recursive functions throughout.

Every safety property the passing runs check is the statement of a theorem above. Liveness
(`EveryRequestAnswered`, `EveryLoadEnds`, `EveryRunExits`) is only model-checked, because fairness
and `ENABLED` are outside the proof system.

## 5. Findings

Four statements of the repository's comments that the code does not keep; each has a run that
ends in a counterexample, and `PROJECT.json` quotes the lines.

1. `lib.rs:366`: the signed epoch is accepted as i128 and stored `as u32` (`EpochWrap`); that nothing
   else lets a stale proof through is proved (`FreshProofsOnly`).
2. `lib.rs:1482`: `set_reserve_legs` does not require distinct (holder, token) pairs, so
   `aggregate_reserves` can count one balance twice (`RepeatedLegs`). `submit_priced_attestation`
   has the same freedom; `MCPricedLegLists` therefore lists distinct legs only, a precondition of
   `PricedAttestationBacked`.
3. `lib.rs:1296`: no inclusion proof can be verified against a signed or unified root
   (`SignedInclusion`).
4. `frontend/lib/book.ts:37`: an attestation whose receipt the page did not see is not kept, and
   a retry is refused because the root has been attested (`LostBook`). The sentence fails a second
   way: "Load CSV" (`app/issuer/page.tsx:117`) is not disabled while a submission is
   awaited and sets the outcome to idle, so that a second run can start; if the first one is
   answered last, its book replaces the newer one. Two tabs can do the same.

Smaller observations without a run:

* `lib.rs:187` calls `bound_reserves` the holder's live balance; after a multi or priced
  attestation it is the aggregate of all legs beside the first leg's holder (`lib.rs:1591`).
* An entry of the page of r or more, or below the range that a negative entry is refused in, is
  proved and attested as its residue, and shown in the page as it was entered: r + 5 as 5, 1 - r as 1.
* Overlapping runs of one tab share the list of steps, and each resets or marks the other's.
* The comment at `lib.rs:538` says that `be32_to_u32` returns 0 for a value that does not fit,
  while it truncates.
* `confirmOnHorizon` throws "Horizon 404", which matches no entry of `LAG_PATTERNS`, so a lagging
  Horizon is not retried.
* The membership page advises to attest the same set again when the contract answers false,
  which the replay check refuses for a root that was attested; a node that is behind also
  answers false.
* `check_badge_freshness.js` compares with `NaN` when an age option is not a number and then
  never says STALE.
* `STATUS_REQUIRED_FIELDS` of the SDK makes `fetchStatus` throw `BAD_STATUS` on the endpoint's
  answer without an attestation, although `BadgeStatus` has a value for it; the endpoint's `tx`
  is always null, because the book it is looked up in exists in browsers only.
* `multi_holder_checklist.js` does not look whether the legs' holders are distinct either.
* `lib/oracle.ts` repeats the contract's scaling without its overflow and i128 checks; no page
  calls it.

## 6. Not modelled

* The host's curve operations, the Poseidon and EdDSA circuits, the witness calculator, the
  trusted setup.
* `keyed_risk_tpl` (the prototype `keyed_risk_r1` replaces) and `signed_inclusion` (inclusion
  with a signature): no deployed key verifies them. The per-leaf signatures and key pins of the
  signed and unified circuits are in `SolvencyCircuits` only.
* Storage archival (TTL) of Soroban entries, fees and budgets.
* `require_auth` repeated for one address in one call (host behaviour): `RepeatedLegs` is
  therefore stated on the view `aggregate_reserves` and not on a submission.
* The decoding of a return value in the clients (it falls back to epoch -1); the list of steps the
  issuer page displays; a browser's storage that is full or switched off.
* A clock of the machine that runs `check_badge_freshness.js` which differs from the chain's.
* Two members with one leaf commitment (`lib.rs:832`): commitments are taken to be of one member.
* `lib/oracle.ts` (a copy of `Scaled` without bounds, called by a demo script only), the wallet
  connection (the signer is a free choice in `SubmitClient`), badge wording and HTTP caching,
  the file validators of the two-signer flow, setup and conversion scripts, the oracle spike:
  see `PROJECT.json`.

## 7. Plan

The parts of the system that keep state or compute what others rely on are modelled, and every
safety property of a passing run is proved. What could still be added:

1. Calls altered in several words at once, which would need the soundness of Groth16 as a
   hypothesis: with points as logarithms their inputs may have one `vk_x`.
2. The contract's theorems restated for the compositions (`StatusReaders`, `HolderScript`), which
   follow from `ReadersRunTheContract` and `ScriptRunsTheContract`.
3. The per-leaf signatures of `keyed_risk_r1` and `signed_inclusion`, once a deployed key
   verifies either of them.

## 8. How to run

```
tlc -workers 2 -config HeldReserve.cfg MCTesseraLedger.tla     # and the other runs
tlc -workers 2 -config SubmitRace.cfg MCSubmitClient.tla
tlc -workers 2 -config DataPath.cfg MCDataPath.tla
tlc -workers 2 -config StatusReaders.cfg MCStatusReaders.tla
tlc -workers 2 -config HolderScript.cfg MCHolderScript.tla
tlapm TesseraLedgerProofs.tla                                  # and the other proof modules
```
