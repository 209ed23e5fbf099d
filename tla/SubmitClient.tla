---------------------------- MODULE SubmitClient ----------------------------
(***************************************************************************)
(* The issuer page and the two ways it submits an attestation: through the *)
(* server that holds the treasury key (frontend/lib/server/stellar.ts) or  *)
(* with the reserve holder's wallet (frontend/lib/walletSubmit.ts).  Both  *)
(* read the account's sequence number, preflight, sign, send, and poll a   *)
(* bounded number of times for the receipt; the page keeps the attested    *)
(* book in the browser's storage, which its tabs share.                    *)
(*                                                                         *)
(* Each call of the page's run() is a closure of its own: it captures the  *)
(* book, and it persists and reports what its own submission returned,     *)
(* whatever the tab has gone on to.  What disables the button is only the  *)
(* outcome the tab shows, and loading a CSV file replaces that, so several *)
(* runs of one tab can be under way.                                       *)
(*                                                                         *)
(* The contract is the AttestationLog that TesseraLedger implements, the   *)
(* base path being a weak entry.  A book stands for its root.  Proving is  *)
(* one step that may fail; a rejected proof is shown as an error, and the  *)
(* wording of errors is reduced to whether the transaction may still be    *)
(* applied.                                                                *)
(***************************************************************************)
EXTENDS Integers, Sequences, FiniteSets

CONSTANTS
  Tabs,          \* browser tabs with the issuer page open
  Books,         \* the books an issuer attests, one root each
  OtherEntries,  \* attestations made from elsewhere with the same account
  MaxRuns,       \* bound on the calls of run()
  MaxPolls,      \* polls of the receipt before giving up (12)
  MaxSequence,   \* bound on the account's sequence number
  None           \* an absent value

Runs == 1..MaxRuns
Roots == Books \cup {e.root : e \in OtherEntries}
Receipt == [status : {"SUCCESS"}, epoch : Nat] \cup {[status |-> "FAILED"]}

ASSUME ClientAssumption ==
  /\ OtherEntries \subseteq [root : Roots, strong : BOOLEAN]
  /\ MaxRuns \in Nat
  /\ MaxPolls \in Nat \ {0}
  /\ MaxSequence \in Nat
  /\ None \notin Nat
  /\ None \notin Books
  /\ None \notin Receipt
  /\ None \notin [root : Roots, strong : BOOLEAN]
  /\ None \notin [book : Books, run : Runs, epoch : Nat]

VARIABLES
  outcome,    \* of each tab: the outcome it shows
  run,        \* of each run: where its closure stands
  stored,     \* tessera.ledger.book.v1: the book persisted last
  job,        \* of each run: where its submission's routine stands
  pool,       \* runs whose transactions the network holds and has not applied
  receipt,    \* of each run: what the network made of its transaction
  sequence,   \* the account's sequence number
  log, head   \* the contract

vars == <<outcome, run, stored, job, pool, receipt, sequence, log, head>>
page == <<outcome, run, stored>>
network == <<pool, receipt, sequence, log, head>>

Contract == INSTANCE AttestationLog WITH Root <- Roots, NoHead <- None

\* "idle", "rejected" and "error" differ in what they display only.
Ready == [k |-> "idle"]
Running == [k |-> "running"]
Submitted(r) == [k |-> "submitted", run |-> r]
Outcome == {Ready, Running} \cup {Submitted(r) : r \in Runs}

NotStarted == [at |-> "not started"]
Run ==
  [at : {"proving", "submitting", "confirming", "over", "gone"},
   tab : Tabs, book : Books, mounted : BOOLEAN] \cup {NotStarted}

NoJob == [phase |-> "unused"]
Job ==
  [phase : {"account", "preflight", "send", "poll", "returned", "refused", "unsure"},
   signer : {"server", "wallet"}, seq : Nat, polls : 0..MaxPolls, epoch : Nat] \cup {NoJob}

Stored == [book : Books, run : Runs, epoch : Nat]

\* The runs of a tab that are under way.
UnderWay(t) ==
  {r \in Runs : run[r].at \in {"proving", "submitting", "confirming"} /\ run[r].tab = t}

GoesOn(r, at) == run' = [run EXCEPT ![r].at = at]

\* setOutcome: without effect once the page that started the run is unmounted.
SetOutcome(r, o) ==
  outcome' = IF run[r].mounted THEN [outcome EXCEPT ![run[r].tab] = o] ELSE outcome

GoTo(r, phase) == job' = [job EXCEPT ![r].phase = phase]

\* The routine returns or throws and its locals are gone.
Ends(r, phase) == job' = [job EXCEPT ![r].phase = phase, ![r].polls = 0]

----------------------------------------------------------------------------
(***************************************************************************)
(* Fault variants: each is a definition below with one check or one update *)
(* wrong.                                                                  *)
(***************************************************************************)
\* The book is read from the page's state once the answer is there.
PersistLatest(r) ==
  LET latest == CHOOSE q \in Runs :
                  /\ run[q] # NotStarted /\ run[q].tab = run[r].tab
                  /\ \A p \in (q + 1)..MaxRuns : run[p] # NotStarted => run[p].tab # run[r].tab
  IN stored' = [book |-> run[latest].book, run |-> r, epoch |-> job[r].epoch]

\* A rejected proof returns before the outcome is set.
ProofFailsSilently(r) ==
  /\ run[r].at = "proving"
  /\ GoesOn(r, "over")
  /\ UNCHANGED <<outcome, stored, job, network>>

\* The polling loop has no count.
PollForever(r) == GoTo(r, "poll")

\* The polling loop has a count and no end.
PollUncapped(r) == job' = [job EXCEPT ![r].polls = @ + 1]

\* The last poll's NOT_FOUND is taken for a failure of the transaction.
TimeoutIsFailure(r) ==
  \/ /\ job[r].polls + 1 < MaxPolls
     /\ job' = [job EXCEPT ![r].polls = @ + 1]
  \/ /\ job[r].polls + 1 = MaxPolls
     /\ Ends(r, "refused")

----------------------------------------------------------------------------
(***************************************************************************)
(* The page.                                                               *)
(***************************************************************************)

\* The runs are numbered in the order they start.
NextRun(r) == run[r] = NotStarted /\ \A q \in 1..(r - 1) : run[q] # NotStarted

\* The button is disabled while the tab shows "running".  run() captures the
\* book; what is typed or loaded afterwards does not reach it.
StartRun(t, r, book) ==
  /\ outcome[t] # Running
  /\ NextRun(r)
  /\ outcome' = [outcome EXCEPT ![t] = Running]
  /\ run' = [run EXCEPT ![r] = [at |-> "proving", tab |-> t, book |-> book, mounted |-> TRUE]]
  /\ UNCHANGED <<stored, job, network>>

\* "Load CSV" is never disabled; a sample book that cannot be loaded shows its
\* error whenever it comes.  Neither asks whether a run is under way.
LoadBook(t) ==
  /\ outcome' = [outcome EXCEPT ![t] = Ready]
  /\ UNCHANGED <<run, stored, job, network>>

ProofFails(r) ==
  /\ run[r].at = "proving"
  /\ GoesOn(r, "over")
  /\ SetOutcome(r, Ready)
  /\ UNCHANGED <<stored, job, network>>

\* The wallet signs if the reserve holder's is connected once the proof is
\* there: its user connects and disconnects it at any time.
Submit(r, signer) ==
  /\ run[r].at = "proving"
  /\ GoesOn(r, "submitting")
  /\ job' = [job EXCEPT ![r] =
               [phase |-> "account", signer |-> signer, seq |-> 0, polls |-> 0, epoch |-> 0]]
  /\ UNCHANGED <<outcome, stored, network>>

\* persistAttestedBook.
Persist(r) == stored' = [book |-> run[r].book, run |-> r, epoch |-> job[r].epoch]

\* The awaited submission returned or threw: persist the book, or show the error.
Deliver(r) ==
  /\ run[r].at = "submitting"
  /\ \/ /\ job[r].phase = "returned"
        /\ Persist(r)
        /\ GoesOn(r, "confirming")
        /\ UNCHANGED outcome
     \/ /\ job[r].phase \in {"refused", "unsure"}
        /\ GoesOn(r, "over")
        /\ SetOutcome(r, Ready)
        /\ UNCHANGED stored
  /\ UNCHANGED <<job, network>>

\* The answer of the API route does not arrive, or is not JSON.
AnswerLost(r) ==
  /\ run[r].at = "submitting"
  /\ job[r].signer = "server"
  /\ GoesOn(r, "over")
  /\ SetOutcome(r, Ready)
  /\ UNCHANGED <<stored, job, network>>

\* Horizon confirms or does not; the outcome is shown as submitted either way.
Confirm(r) ==
  /\ run[r].at = "confirming"
  /\ GoesOn(r, "over")
  /\ SetOutcome(r, Submitted(r))
  /\ UNCHANGED <<stored, job, network>>

\* A link to another page of the site and back: the runs go on unseen.
Leave(t) ==
  /\ outcome' = [outcome EXCEPT ![t] = Ready]
  /\ run' = [r \in Runs |-> IF r \in UnderWay(t) THEN [run[r] EXCEPT !.mounted = FALSE]
                            ELSE run[r]]
  /\ UNCHANGED <<stored, job, network>>

\* A reload ends the runs, and the routines of wallet submissions with them; the
\* server's go on and answer nobody.  Of a transaction that is being sent,
\* nobody knows whether it was.
Reload(t) ==
  LET dying == {r \in UnderWay(t) : /\ job[r].phase \in {"account", "preflight", "send", "poll"}
                                    /\ job[r].signer = "wallet"}
  IN \E sent \in SUBSET {r \in dying : job[r].phase = "send"} :
       /\ outcome' = [outcome EXCEPT ![t] = Ready]
       /\ run' = [r \in Runs |-> IF r \in UnderWay(t) THEN [run[r] EXCEPT !.at = "gone"]
                                 ELSE run[r]]
       /\ job' = [r \in Runs |->
                    IF r \in dying
                    THEN [job[r] EXCEPT
                            !.phase = IF r \in sent \/ @ = "poll" THEN "unsure" ELSE "refused",
                            !.polls = 0]
                    ELSE job[r]]
       /\ pool' = pool \cup sent
       /\ UNCHANGED <<stored, receipt, sequence, log, head>>

----------------------------------------------------------------------------
(***************************************************************************)
(* The submission routine, in the server or in the tab.                    *)
(***************************************************************************)
GetAccount(r) ==
  /\ job[r].phase = "account"
  /\ job' = [job EXCEPT ![r].phase = "preflight", ![r].seq = sequence + 1]
  /\ UNCHANGED <<page, network>>

\* What the contract's replay and downgrade checks answer now.
ContractAccepts(book) ==
  /\ book \notin Contract!Published
  /\ head # None => ~head.strong

\* prepareTransaction simulates the call; it can refuse for reasons of its own
\* (proof, live reserve) at any time.
Preflight(r) ==
  /\ job[r].phase = "preflight"
  /\ \/ ContractAccepts(run[r].book) /\ GoTo(r, "send")
     \/ Ends(r, "refused")
  /\ UNCHANGED <<page, network>>

\* Signed and sent.  ERROR throws; PENDING and DUPLICATE have reached the
\* network; TRY_AGAIN_LATER has not, and is polled for all the same.
Send(r) ==
  /\ job[r].phase = "send"
  /\ \/ Ends(r, "refused") /\ UNCHANGED pool
     \/ GoTo(r, "poll") /\ pool' = pool \cup {r}
     \/ GoTo(r, "poll") /\ UNCHANGED pool
  /\ UNCHANGED <<page, receipt, sequence, log, head>>

\* A node may answer NOT_FOUND although the transaction has been applied.
NotFound(r) ==
  \/ /\ job[r].polls + 1 < MaxPolls
     /\ job' = [job EXCEPT ![r].polls = @ + 1]
  \/ /\ job[r].polls + 1 = MaxPolls
     /\ Ends(r, "unsure")

Found(r) ==
  /\ receipt[r] # None
  /\ \/ /\ receipt[r].status = "SUCCESS"
        /\ job' = [job EXCEPT ![r].phase = "returned", ![r].polls = 0,
                              ![r].epoch = receipt[r].epoch]
     \/ /\ receipt[r].status # "SUCCESS"
        /\ Ends(r, "refused")

Poll(r) ==
  /\ job[r].phase = "poll"
  /\ Found(r) \/ NotFound(r)
  /\ UNCHANGED <<page, network>>

\* An awaited call throws: the RPC fails, the wallet's user declines.  Nothing
\* was sent, or nobody knows.
CallFails(r) ==
  /\ \/ /\ job[r].phase \in {"account", "preflight", "send"}
        /\ Ends(r, "refused")
        /\ UNCHANGED pool
     \/ /\ job[r].phase = "send"
        /\ Ends(r, "unsure")
        /\ pool' = pool \cup {r}
     \/ /\ job[r].phase = "poll"
        /\ Ends(r, "unsure")
        /\ UNCHANGED pool
  /\ UNCHANGED <<page, receipt, sequence, log, head>>

----------------------------------------------------------------------------
(***************************************************************************)
(* The network.                                                            *)
(***************************************************************************)

\* A transaction is applied in the order of its account's sequence numbers; the
\* contract may have changed its mind since the preflight.
Apply(r) ==
  /\ r \in pool
  /\ job[r].seq = sequence + 1
  /\ pool' = pool \ {r}
  /\ sequence' = sequence + 1
  /\ \/ /\ Contract!Publish([root |-> run[r].book, strong |-> FALSE])
        /\ receipt' = [receipt EXCEPT ![r] = [status |-> "SUCCESS", epoch |-> Len(log)]]
     \/ /\ receipt' = [receipt EXCEPT ![r] = [status |-> "FAILED"]]
        /\ UNCHANGED <<log, head>>
  /\ UNCHANGED <<page, job>>

\* The 120 seconds are over, or the network evicts the transaction.
Drop(r) ==
  /\ r \in pool
  /\ pool' = pool \ {r}
  /\ UNCHANGED <<page, job, receipt, sequence, log, head>>

\* The same account attests from a script.
AttestElsewhere(entry) ==
  /\ sequence < MaxSequence
  /\ sequence' = sequence + 1
  /\ Contract!Publish(entry)
  /\ UNCHANGED <<page, job, pool, receipt>>

----------------------------------------------------------------------------
Init ==
  /\ outcome = [t \in Tabs |-> Ready]
  /\ run = [r \in Runs |-> NotStarted]
  /\ stored = None
  /\ job = [r \in Runs |-> NoJob]
  /\ pool = {}
  /\ receipt = [r \in Runs |-> None]
  /\ sequence = 0
  /\ Contract!LogInit

TabStep(t) ==
  \/ \E r \in Runs, book \in Books : StartRun(t, r, book)
  \/ LoadBook(t)
  \/ Leave(t)
  \/ Reload(t)

RunStep(r) ==
  \/ ProofFails(r)
  \/ \E signer \in {"server", "wallet"} : Submit(r, signer)
  \/ Deliver(r)
  \/ AnswerLost(r)
  \/ Confirm(r)

Routine(r) == GetAccount(r) \/ Preflight(r) \/ Send(r) \/ Poll(r)

Next ==
  \/ \E t \in Tabs : TabStep(t)
  \/ \E r \in Runs : RunStep(r) \/ Routine(r) \/ CallFails(r) \/ Apply(r) \/ Drop(r)
  \/ \E entry \in OtherEntries : AttestElsewhere(entry)

\* Each call the server awaits answers or fails, and its answer reaches a run
\* that still waits.  Nothing is assumed of a wallet's user or of the network.
ServerRoutine(r) == job[r] # NoJob /\ job[r].signer = "server" /\ Routine(r)

Spec ==
  /\ Init
  /\ [][Next]_vars
  /\ \A r \in Runs : WF_vars(ServerRoutine(r))
  /\ \A r \in Runs : WF_vars(Deliver(r))

----------------------------------------------------------------------------
(***************************************************************************)
(* Properties.                                                             *)
(***************************************************************************)

\* Types of the page, the submissions, the network and the contract.
ClientTypeOK ==
  /\ outcome \in [Tabs -> Outcome]
  /\ run \in [Runs -> Run]
  /\ stored \in Stored \cup {None}
  /\ job \in [Runs -> Job]
  /\ pool \subseteq Runs
  /\ receipt \in [Runs -> Receipt \cup {None}]
  /\ sequence \in Nat
  /\ Contract!LogTypeOK

InLog(book, n) == n + 1 \in DOMAIN log /\ log[n + 1].root = book

\* A tab that reports a submission, and the book kept in the browser, tell the
\* truth: the contract attested that run's book, at that epoch, by that run's
\* transaction, however many runs of the tab are under way.
ReportsAreTrue ==
  /\ \A t \in Tabs : \A r \in Runs :
       outcome[t] = Submitted(r) =>
         /\ run[r].tab = t
         /\ InLog(run[r].book, job[r].epoch)
         /\ receipt[r].status = "SUCCESS"
  /\ stored # None =>
       /\ InLog(stored.book, stored.epoch)
       /\ receipt[stored.run] = [status |-> "SUCCESS", epoch |-> stored.epoch]

\* When the routine says that the transaction failed or was not sent, it is
\* never applied with success afterwards: only the unsure errors are open.
ErrorsAreFinal ==
  \A r \in Runs :
    job[r].phase = "refused" =>
      /\ r \notin pool
      /\ receipt[r] = None \/ receipt[r] = [status |-> "FAILED"]

\* A tab that shows "running", with its inputs disabled, has a run under way that
\* will set its outcome: runs that overlap, end in another order or outlive the
\* page that started them leave no tab disabled for good.
RunningIsAwaited ==
  \A t \in Tabs :
    outcome[t] = Running => \E r \in UnderWay(t) : run[r].mounted

\* A run that waits for the server is told in the end, even if the network
\* never applies the transaction.
EveryRequestAnswered ==
  \A r \in Runs :
    (run[r].at = "submitting" /\ job[r].signer = "server") ~> run[r].at # "submitting"

----------------------------------------------------------------------------
(***************************************************************************)
(* Claims of the documentation the code does not keep (see README.md).     *)
(***************************************************************************)
Quiet ==
  /\ \A t \in Tabs : UnderWay(t) = {}
  /\ pool = {}
  /\ \A r \in Runs : job[r].phase \in {"unused", "returned", "refused", "unsure"}

\* book.ts: "The set last attested from this browser, persisted so the
\* membership view can reconstruct the exact tree the contract now stores."
\* Stated for the newest attestation when a run that came to its end made it.  It
\* fails when a receipt is lost, and when the older of two overlapping runs is
\* answered last and its book replaces the newer one.
BrowserKeepsTheBook ==
  Quiet /\ (\E r \in Runs :
              /\ receipt[r] = [status |-> "SUCCESS", epoch |-> Len(log) - 1]
              /\ run[r].at = "over")
    => stored # None /\ stored.book = head.root

=============================================================================
