-------------------------- MODULE SubmitClientProofs -------------------------
(***************************************************************************)
(* Theorems about the issuer page and its submissions, for any number of   *)
(* tabs, runs and polls: what a page reports and stores is true, a refusal *)
(* is final, and no tab stays disabled without a run that will enable it.  *)
(***************************************************************************)
EXTENDS SubmitClient, TLAPS

Failed == [status |-> "FAILED"]
Success(n) == [status |-> "SUCCESS", epoch |-> n]
Early == {"account", "preflight", "send"}
Phases == Early \cup {"poll", "returned", "refused", "unsure"}
StartedJob ==
  [phase : Phases, signer : {"server", "wallet"}, seq : Nat, polls : 0..MaxPolls, epoch : Nat]
Busy == {"proving", "submitting", "confirming"}
StartedRun == [at : Busy \cup {"over", "gone"}, tab : Tabs, book : Books, mounted : BOOLEAN]

\* A submission and what the network knows of it: nothing before it is sent, one
\* outcome afterwards, and a refusal only if the outcome is none or a failure.
JobInv ==
  \A r \in Runs :
    /\ job[r].phase \in Early \cup {"unused"} => r \notin pool /\ receipt[r] = None
    /\ receipt[r] # None => r \notin pool
    /\ job[r].phase = "refused" => r \notin pool /\ receipt[r] \in {None, Failed}
    /\ job[r].phase = "returned" => receipt[r] = Success(job[r].epoch)

\* A run submits after it has proved, and confirms what has returned.
RunInv ==
  \A r \in Runs :
    /\ run[r].at \in {"not started", "proving"} => job[r] = NoJob
    /\ run[r].at = "confirming" => job[r].phase = "returned"

\* A successful receipt names the log entry its transaction made.
ReceiptInv ==
  \A r \in Runs : \A n \in Nat :
    receipt[r] = Success(n) => InLog(run[r].book, n)

\* What a tab shows as submitted is the answer of a run of its own.
OutcomeInv ==
  \A t \in Tabs, r \in Runs :
    outcome[t] = Submitted(r) => run[r].tab = t /\ job[r].phase = "returned"

\* What is stored is the answer of a submission.
StoredInv ==
  stored # None =>
    /\ job[stored.run].phase = "returned"
    /\ stored.book = run[stored.run].book
    /\ stored.epoch = job[stored.run].epoch

ClientInv ==
  /\ ClientTypeOK /\ JobInv /\ RunInv /\ ReceiptInv /\ OutcomeInv /\ StoredInv
  /\ RunningIsAwaited

----------------------------------------------------------------------------
(***************************************************************************)
(* Records.                                                                *)
(***************************************************************************)

\* The phases of the routine.
LEMMA PhaseNames ==
  /\ "preflight" \in Early /\ "send" \in Early /\ "account" \in Early
  /\ "poll" \notin Early /\ "returned" \notin Early /\ "refused" \notin Early
  /\ "unsure" \notin Early
  /\ Early \subseteq Phases /\ "unused" \notin Phases
  /\ "poll" \in Phases /\ "returned" \in Phases /\ "refused" \in Phases /\ "unsure" \in Phases
  BY DEF Early, Phases

\* A submission that has started has the fields of one.
LEMMA StartedJobs ==
  ASSUME ClientTypeOK, NEW r \in Runs
  PROVE  /\ job[r].phase # "unused" => job[r] \in StartedJob
         /\ job[r] # NoJob => job[r] \in StartedJob
         /\ job[r] \in StartedJob => job[r].phase \in Phases /\ job[r] # NoJob
         /\ job[r] = NoJob => job[r].phase = "unused"
         /\ job[r].phase \in Phases \cup {"unused"}
  <1>1. job[r] \in StartedJob \cup {NoJob}
    BY Zenon DEF ClientTypeOK, Job, StartedJob, Phases, Early
  <1>2. NoJob.phase = "unused"
    BY DEF NoJob
  <1>3. ASSUME job[r] \in StartedJob
        PROVE  job[r].phase \in Phases
    BY <1>3 DEF StartedJob
  <1> QED BY <1>1, <1>2, <1>3, PhaseNames

\* So has a run.
LEMMA StartedRuns ==
  ASSUME ClientTypeOK, NEW r \in Runs
  PROVE  /\ run[r].at # "not started" => run[r] \in StartedRun
         /\ run[r] # NotStarted => run[r] \in StartedRun
         /\ run[r] \in StartedRun =>
              /\ run[r].at \in Busy \cup {"over", "gone"}
              /\ run[r].tab \in Tabs /\ run[r].book \in Books /\ run[r].mounted \in BOOLEAN
              /\ run[r] # NotStarted
         /\ run[r] = NotStarted => run[r].at = "not started"
  <1>1. run[r] \in StartedRun \cup {NotStarted}
    BY Zenon DEF ClientTypeOK, Run, StartedRun, Busy
  <1>2. NotStarted.at = "not started"
    BY DEF NotStarted
  <1>3. ASSUME run[r] \in StartedRun
        PROVE  /\ run[r].at \in Busy \cup {"over", "gone"}
               /\ run[r].tab \in Tabs /\ run[r].book \in Books /\ run[r].mounted \in BOOLEAN
    BY <1>3 DEF StartedRun
  <1>4. "not started" \notin Busy \cup {"over", "gone"}
    BY DEF Busy
  <1> QED BY <1>1, <1>2, <1>3, <1>4

\* A run's new place leaves its other fields.
LEMMA RunUpdates ==
  ASSUME NEW x \in StartedRun
  PROVE  /\ \A at \in Busy \cup {"over", "gone"} :
              /\ [x EXCEPT !.at = at] \in StartedRun
              /\ [x EXCEPT !.at = at].at = at
              /\ [x EXCEPT !.at = at].tab = x.tab
              /\ [x EXCEPT !.at = at].book = x.book
              /\ [x EXCEPT !.at = at].mounted = x.mounted
         /\ [x EXCEPT !.mounted = FALSE] \in StartedRun
         /\ [x EXCEPT !.mounted = FALSE].at = x.at
         /\ [x EXCEPT !.mounted = FALSE].tab = x.tab
         /\ [x EXCEPT !.mounted = FALSE].book = x.book
  BY Zenon DEF StartedRun

\* Outcomes differ.
LEMMA Outcomes ==
  /\ Ready # Running
  /\ \A r : Submitted(r) # Ready /\ Submitted(r) # Running
  /\ \A q, r : Submitted(q) = Submitted(r) => q = r
  /\ Ready \in Outcome /\ Running \in Outcome /\ \A r \in Runs : Submitted(r) \in Outcome
  <1>1. Ready.k = "idle" /\ Running.k = "running"
    BY DEF Ready, Running
  <1>2. \A r : Submitted(r).k = "submitted" /\ Submitted(r).run = r
    BY DEF Submitted
  <1>3. Ready \in Outcome /\ Running \in Outcome /\ \A r \in Runs : Submitted(r) \in Outcome
    BY DEF Outcome
  <1> QED BY <1>1, <1>2, <1>3

\* Receipts of different outcomes differ, and one tells its epoch.
LEMMA Receipts ==
  /\ \A n \in Nat : Success(n) # None /\ Success(n) # Failed
  /\ \A m, n \in Nat : Success(m) = Success(n) => m = n
  /\ Failed # None
  /\ \A n \in Nat : Success(n).status = "SUCCESS" /\ Success(n).epoch = n
  /\ Failed.status = "FAILED"
  /\ \A r \in Receipt : r = Failed \/ \E n \in Nat : r = Success(n)
  <1>1. \A n \in Nat : Success(n).status = "SUCCESS" /\ Success(n).epoch = n
    BY DEF Success
  <1>2. Failed.status = "FAILED"
    BY DEF Failed
  <1>3. Failed \in Receipt /\ \A n \in Nat : Success(n) \in Receipt
    BY DEF Failed, Success, Receipt
  <1>4. \A r \in Receipt : r = Failed \/ \E n \in Nat : r = Success(n)
    <2> SUFFICES ASSUME NEW r \in [status : {"SUCCESS"}, epoch : Nat]
                 PROVE  \E n \in Nat : r = Success(n)
      BY DEF Receipt, Failed
    <2>1. r = Success(r.epoch) /\ r.epoch \in Nat
      BY DEF Success
    <2> QED BY <2>1
  <1> QED BY <1>1, <1>2, <1>3, <1>4, ClientAssumption

----------------------------------------------------------------------------
(***************************************************************************)
(* What continues in a step, and what of the invariant that keeps.         *)
(***************************************************************************)

\* A run keeps its tab and its book.
RunsContinue ==
  \A r \in Runs : run[r] # NotStarted =>
    /\ run'[r] # NotStarted
    /\ run'[r].tab = run[r].tab
    /\ run'[r].book = run[r].book

\* A submission stays returned.
JobsContinue ==
  \A r \in Runs : job[r].phase = "returned" => job'[r] = job[r]

\* A run whose submission has started has started.
LEMMA JobHasRun ==
  ASSUME ClientTypeOK, RunInv, JobInv, NEW r \in Runs
  PROVE  /\ job[r].phase # "unused" => run[r] # NotStarted
         /\ receipt[r] # None => run[r] # NotStarted
  <1>1. job[r].phase # "unused" => run[r] # NotStarted
    BY StartedJobs, StartedRuns DEF RunInv
  <1> QED BY <1>1 DEF JobInv

\* What is stored stays the answer of its submission.
LEMMA StoredStays ==
  ASSUME ClientTypeOK, JobInv, RunInv, StoredInv, RunsContinue, JobsContinue, stored' = stored
  PROVE  StoredInv'
  <1> SUFFICES ASSUME stored # None
               PROVE  /\ job'[stored.run].phase = "returned"
                      /\ stored.book = run'[stored.run].book
                      /\ stored.epoch = job'[stored.run].epoch
    BY DEF StoredInv
  <1>1. stored.run \in Runs
    BY DEF ClientTypeOK, Stored
  <1>2. job[stored.run].phase = "returned"
    BY DEF StoredInv
  <1>3. run[stored.run] # NotStarted
    BY <1>1, <1>2, JobHasRun
  <1> QED BY <1>1, <1>2, <1>3 DEF StoredInv, RunsContinue, JobsContinue

\* What is stored was attested.
LEMMA StoredAttested ==
  ASSUME ClientTypeOK, JobInv, ReceiptInv, StoredInv, stored # None
  PROVE  /\ receipt[stored.run] = Success(stored.epoch)
         /\ InLog(stored.book, stored.epoch)
  <1>1. stored.epoch \in Nat /\ stored.run \in Runs
    BY DEF ClientTypeOK, Stored
  <1>2. receipt[stored.run] = Success(stored.epoch)
    BY <1>1 DEF StoredInv, JobInv
  <1> QED BY <1>1, <1>2 DEF StoredInv, ReceiptInv

\* A tab keeps what it shows, or forgets it, or shows a run of its own that confirms.
OutcomesContinue ==
  \A t \in Tabs :
    \/ outcome'[t] \in {outcome[t], Ready, Running}
    \/ \E r \in Runs : /\ outcome'[t] = Submitted(r)
                       /\ run[r].at = "confirming" /\ run[r].tab = t

\* Outcomes stay tied to their runs.
LEMMA OutcomesStay ==
  ASSUME ClientTypeOK, JobInv, RunInv, OutcomeInv, RunsContinue, JobsContinue, OutcomesContinue
  PROVE  OutcomeInv'
  <1> SUFFICES ASSUME NEW t \in Tabs, NEW r \in Runs, outcome'[t] = Submitted(r)
               PROVE  run'[r].tab = t /\ job'[r].phase = "returned"
    BY DEF OutcomeInv
  <1>1. run[r].tab = t /\ job[r].phase = "returned"
    <2>1. CASE outcome'[t] \in {outcome[t], Ready, Running}
      <3>1. outcome[t] = Submitted(r)
        BY <2>1, Outcomes
      <3> QED BY <3>1 DEF OutcomeInv
    <2>2. ASSUME NEW q \in Runs, outcome'[t] = Submitted(q), run[q].at = "confirming",
                 run[q].tab = t
          PROVE  run[r].tab = t /\ job[r].phase = "returned"
      <3>1. q = r
        BY <2>2, Outcomes
      <3> QED BY <2>2, <3>1 DEF RunInv
    <2> QED BY <2>1, <2>2 DEF OutcomesContinue
  <1>2. run[r] # NotStarted
    BY <1>1, JobHasRun
  <1> QED BY <1>1, <1>2 DEF RunsContinue, JobsContinue

\* Publishing keeps the entries there are and adds the new one.
LEMMA PublishKeeps ==
  ASSUME ClientTypeOK, NEW entry \in Contract!Entry, Contract!Publish(entry)
  PROVE  /\ Contract!LogTypeOK'
         /\ Len(log) \in Nat
         /\ Len(log) + 1 \in DOMAIN log' /\ log'[Len(log) + 1] = entry
         /\ \A book : \A n \in Nat : InLog(book, n) => InLog(book, n)'
  <1>1. log \in Seq(Contract!Entry)
    BY DEF ClientTypeOK, Contract!LogTypeOK
  <1>2. log' = Append(log, entry) /\ head' = entry
    BY DEF Contract!Publish
  <1>3. Contract!LogTypeOK'
    BY <1>1, <1>2 DEF Contract!LogTypeOK
  <1>4. /\ Len(log) \in Nat
        /\ DOMAIN log = 1..Len(log)
        /\ DOMAIN log' = 1..(Len(log) + 1)
        /\ log'[Len(log) + 1] = entry
        /\ \A i \in 1..Len(log) : log'[i] = log[i]
    BY <1>1, <1>2
  <1>5. ASSUME NEW book, NEW n \in Nat, InLog(book, n)
        PROVE  InLog(book, n)'
    BY <1>4, <1>5 DEF InLog
  <1> QED BY <1>3, <1>4, <1>5

\* Successful receipts keep naming their entries.
LEMMA ReceiptsStay ==
  ASSUME ClientTypeOK, JobInv, RunInv, ReceiptInv, RunsContinue, receipt' = receipt,
         \A book : \A n \in Nat : InLog(book, n) => InLog(book, n)'
  PROVE  ReceiptInv'
  <1> SUFFICES ASSUME NEW r \in Runs, NEW n \in Nat, receipt[r] = Success(n)
               PROVE  InLog(run[r].book, n)'
    BY DEF ReceiptInv
  <1>1. run[r] # NotStarted
    BY Receipts, JobHasRun
  <1>2. run'[r].book = run[r].book
    BY <1>1 DEF RunsContinue
  <1>3. InLog(run[r].book, n)
    BY DEF ReceiptInv
  <1>4. n + 1 \in DOMAIN log' /\ log'[n + 1].root = run[r].book
    BY <1>3 DEF InLog
  <1> QED BY <1>2, <1>4 DEF InLog

\* A step in which everything continues and no receipt is new.
LEMMA Keeps ==
  ASSUME ClientInv, ClientTypeOK', JobInv', RunInv', RunningIsAwaited',
         RunsContinue, JobsContinue, OutcomesContinue,
         receipt' = receipt, stored' = stored,
         \A book : \A n \in Nat : InLog(book, n) => InLog(book, n)'
  PROVE  ClientInv'
  <1>1. ReceiptInv'
    BY ReceiptsStay DEF ClientInv
  <1>2. OutcomeInv'
    BY OutcomesStay DEF ClientInv
  <1>3. StoredInv'
    BY StoredStays DEF ClientInv
  <1> QED BY <1>1, <1>2, <1>3 DEF ClientInv

----------------------------------------------------------------------------
(***************************************************************************)
(* The shape of the routine's steps.                                       *)
(***************************************************************************)

\* The submission of run r goes on as rec, and may have put its transaction in the
\* network.
GoesTo(r, rec) ==
  /\ job[r].phase \in Early \cup {"poll"}
  /\ rec \in StartedJob
  /\ r \in pool' => r \in pool \/ (job[r].phase = "send" /\ rec.phase \in {"poll", "unsure"})
  /\ rec.phase \in Early => job[r].phase \in Early
  /\ rec.phase = "refused" => job[r].phase \in Early \/ receipt[r] = Failed
  /\ rec.phase = "returned" => receipt[r] = Success(rec.epoch)

\* Each submission stays as it is or takes such a step.
JobsGo ==
  \A r \in Runs : \/ job'[r] = job[r] /\ (r \in pool' => r \in pool)
                  \/ GoesTo(r, job'[r])

\* Such steps keep what the invariant says of submissions.
LEMMA JobsStay ==
  ASSUME ClientTypeOK, JobInv, JobsGo, receipt' = receipt
  PROVE  /\ \A r \in Runs : job'[r] \in Job
         /\ JobInv' /\ JobsContinue
         /\ \A r \in Runs : job[r] = NoJob => job'[r] = NoJob
  <1>1. ASSUME NEW r \in Runs, GoesTo(r, job'[r])
        PROVE  /\ job'[r] \in Job
               /\ job'[r].phase \in Phases
               /\ job[r] # NoJob
               /\ job[r].phase # "returned"
    <2>1. job'[r] \in StartedJob
      BY <1>1 DEF GoesTo
    <2>2. job'[r] \in Job
      BY <2>1, Zenon DEF StartedJob, Job, Phases, Early
    <2>3. job'[r].phase \in Phases
      BY <2>1 DEF StartedJob
    <2>4. job[r].phase # "unused" /\ job[r].phase # "returned"
      BY <1>1 DEF GoesTo, Early
    <2> QED BY <2>2, <2>3, <2>4, StartedJobs
  <1>2. \A r \in Runs : job'[r] \in Job
    BY <1>1 DEF JobsGo, ClientTypeOK
  <1>3. JobsContinue
    BY <1>1 DEF JobsGo, JobsContinue
  <1>4. \A r \in Runs : job[r] = NoJob => job'[r] = NoJob
    BY <1>1 DEF JobsGo
  <1>5. JobInv'
    <2> SUFFICES ASSUME NEW r \in Runs
                 PROVE  /\ job'[r].phase \in Early \cup {"unused"} =>
                             r \notin pool' /\ receipt[r] = None
                        /\ receipt[r] # None => r \notin pool'
                        /\ job'[r].phase = "refused" =>
                             r \notin pool' /\ receipt[r] \in {None, Failed}
                        /\ job'[r].phase = "returned" => receipt[r] = Success(job'[r].epoch)
      BY DEF JobInv
    <2>1. /\ job[r].phase \in Early \cup {"unused"} => r \notin pool /\ receipt[r] = None
          /\ receipt[r] # None => r \notin pool
          /\ job[r].phase = "refused" => r \notin pool /\ receipt[r] \in {None, Failed}
          /\ job[r].phase = "returned" => receipt[r] = Success(job[r].epoch)
      BY DEF JobInv
    <2>2. CASE job'[r] = job[r] /\ (r \in pool' => r \in pool)
      BY <2>1, <2>2
    <2>3. CASE GoesTo(r, job'[r])
      <3>1. job'[r].phase \in Phases
        BY <1>1, <2>3
      <3> QED BY <2>1, <2>3, <3>1, PhaseNames, Receipts DEF GoesTo
    <2> QED BY <2>2, <2>3 DEF JobsGo
  <1> QED BY <1>2, <1>3, <1>4, <1>5

\* The step of one submission.
LEMMA OneJobGoes ==
  ASSUME ClientTypeOK, NEW r \in Runs, NEW rec, GoesTo(r, rec),
         job' = [job EXCEPT ![r] = rec],
         pool' = pool \/ pool' = pool \cup {r}
  PROVE  JobsGo /\ job' \in [Runs -> Job] /\ pool' \subseteq Runs
  <1>1. \A q \in Runs : job'[q] = IF q = r THEN rec ELSE job[q]
    BY DEF ClientTypeOK
  <1>2. JobsGo
    BY <1>1 DEF JobsGo
  <1>3. rec \in Job
    <2>1. rec \in StartedJob
      BY DEF GoesTo
    <2> QED BY <2>1, Zenon DEF StartedJob, Job, Phases, Early
  <1> QED BY <1>2, <1>3 DEF ClientTypeOK

\* A submission's record in a phase.
JobIn(rec, phase) == rec \in StartedJob /\ rec.phase = phase

\* Each update the routine makes leaves such a record.
LEMMA JobUpdates ==
  ASSUME NEW x \in StartedJob, NEW phase \in Phases
  PROVE  /\ JobIn([x EXCEPT !.phase = phase], phase)
         /\ \A n \in Nat : JobIn([x EXCEPT !.phase = phase, !.seq = n], phase)
         /\ \A k \in 0..MaxPolls :
              /\ x.phase = phase => JobIn([x EXCEPT !.polls = k], phase)
              /\ JobIn([x EXCEPT !.phase = phase, !.polls = k], phase)
  <1>1. JobIn([x EXCEPT !.phase = phase], phase)
    BY Zenon DEF JobIn, StartedJob
  <1>2. ASSUME NEW n \in Nat
        PROVE  JobIn([x EXCEPT !.phase = phase, !.seq = n], phase)
    BY Zenon DEF JobIn, StartedJob
  <1>3. ASSUME NEW k \in 0..MaxPolls
        PROVE  /\ x.phase = phase => JobIn([x EXCEPT !.polls = k], phase)
               /\ JobIn([x EXCEPT !.phase = phase, !.polls = k], phase)
    <2>1. x.phase = phase => JobIn([x EXCEPT !.polls = k], phase)
      BY Zenon DEF JobIn, StartedJob
    <2>2. JobIn([x EXCEPT !.phase = phase, !.polls = k], phase)
      BY Zenon DEF JobIn, StartedJob
    <2> QED BY <2>1, <2>2, Zenon
  <1> QED BY <1>1, <1>2, <1>3, Zenon

\* What a step of the routine of run r is.
Advances(r) ==
  /\ JobsGo
  /\ job' \in [Runs -> Job]
  /\ pool' \subseteq Runs
  /\ UNCHANGED <<outcome, run, stored, receipt, sequence, log, head>>

\* Going to a phase.
LEMMA GoToGoes ==
  ASSUME ClientTypeOK, NEW r \in Runs, job[r].phase \in Early, NEW phase \in Early \cup {"poll"},
         GoTo(r, phase),
         pool' = pool \/ (pool' = pool \cup {r} /\ job[r].phase = "send" /\ phase = "poll"),
         UNCHANGED <<outcome, run, stored, receipt, sequence, log, head>>
  PROVE  Advances(r)
  <1> DEFINE rec == [job[r] EXCEPT !.phase = phase]
  <1>1. job[r] \in StartedJob /\ phase \in Phases
    <2>1. job[r].phase # "unused"
      BY DEF Early
    <2> QED BY <2>1, StartedJobs, PhaseNames
  <1>2. job' = [job EXCEPT ![r] = rec]
    BY Zenon DEF GoTo
  <1>3. JobIn(rec, phase)
    BY <1>1, JobUpdates, Zenon
  <1> HIDE DEF rec
  <1>4. GoesTo(r, rec)
    BY <1>3, PhaseNames DEF GoesTo, JobIn
  <1> QED BY <1>2, <1>4, OneJobGoes DEF Advances

\* Ending in a phase.
LEMMA EndsGoes ==
  ASSUME ClientTypeOK, NEW r \in Runs, job[r].phase \in Early \cup {"poll"},
         NEW phase \in {"refused", "unsure"}, Ends(r, phase),
         \/ pool' = pool
         \/ pool' = pool \cup {r} /\ job[r].phase = "send" /\ phase = "unsure",
         phase = "refused" => job[r].phase \in Early \/ receipt[r] = Failed,
         UNCHANGED <<outcome, run, stored, receipt, sequence, log, head>>
  PROVE  Advances(r)
  <1> DEFINE rec == [job[r] EXCEPT !.phase = phase, !.polls = 0]
  <1>1. job[r] \in StartedJob /\ phase \in Phases
    <2>1. job[r].phase # "unused"
      BY DEF Early
    <2> QED BY <2>1, StartedJobs, PhaseNames
  <1>2. job' = [job EXCEPT ![r] = rec]
    BY Zenon DEF Ends
  <1>3. 0 \in 0..MaxPolls
    BY ClientAssumption
  <1>4. JobIn(rec, phase)
    BY <1>1, <1>3, JobUpdates, Zenon
  <1> HIDE DEF rec
  <1>5. GoesTo(r, rec)
    BY <1>4, PhaseNames DEF GoesTo, JobIn
  <1> QED BY <1>2, <1>5, OneJobGoes DEF Advances

\* A call that fails.
LEMMA CallFailsGoes ==
  ASSUME ClientTypeOK, NEW r \in Runs, CallFails(r)
  PROVE  Advances(r)
  <1>0. UNCHANGED <<outcome, run, stored, receipt, sequence, log, head>>
    BY DEF CallFails, page
  <1>1. CASE job[r].phase \in {"account", "preflight", "send"} /\ Ends(r, "refused") /\ pool' = pool
    BY <1>0, <1>1, EndsGoes DEF Early
  <1>2. CASE job[r].phase = "send" /\ Ends(r, "unsure") /\ pool' = pool \cup {r}
    BY <1>0, <1>2, PhaseNames, EndsGoes
  <1>3. CASE job[r].phase = "poll" /\ Ends(r, "unsure") /\ pool' = pool
    BY <1>0, <1>3, EndsGoes
  <1> QED BY <1>1, <1>2, <1>3 DEF CallFails

\* Every step of the routine.
LEMMA RoutineGoes ==
  ASSUME ClientTypeOK, NEW r \in Runs, Routine(r)
  PROVE  Advances(r)
  <1>0. UNCHANGED <<outcome, run, stored, receipt, sequence, log, head>>
    BY DEF Routine, GetAccount, Preflight, Send, Poll, page, network
  <1>1. CASE GetAccount(r)
    <2> DEFINE rec == [job[r] EXCEPT !.phase = "preflight", !.seq = sequence + 1]
    <2>1. job[r] \in StartedJob /\ job[r].phase = "account" /\ pool' = pool
      BY <1>1, StartedJobs DEF GetAccount, network
    <2>2. job' = [job EXCEPT ![r] = rec]
      BY <1>1, Zenon DEF GetAccount
    <2>3. sequence + 1 \in Nat
      BY DEF ClientTypeOK
    <2>4. "preflight" \in Phases
      BY PhaseNames
    <2>5. JobIn(rec, "preflight")
      BY <2>1, <2>3, <2>4, JobUpdates, Zenon
    <2> HIDE DEF rec
    <2>6. GoesTo(r, rec)
      BY <2>1, <2>5, PhaseNames DEF GoesTo, JobIn
    <2> QED BY <1>0, <2>1, <2>2, <2>6, OneJobGoes DEF Advances
  <1>2. CASE Preflight(r)
    BY <1>0, <1>2, PhaseNames, GoToGoes, EndsGoes DEF Preflight, network
  <1>3. CASE Send(r)
    BY <1>0, <1>3, PhaseNames, GoToGoes, EndsGoes DEF Send
  <1>4. CASE Poll(r)
    <2>0. job[r] \in StartedJob /\ job[r].phase = "poll" /\ pool' = pool
      BY <1>4, StartedJobs DEF Poll, network
    <2>1. CASE job[r].polls + 1 < MaxPolls /\ job' = [job EXCEPT ![r].polls = @ + 1]
      <3> DEFINE rec == [job[r] EXCEPT !.polls = job[r].polls + 1]
      <3>1. job' = [job EXCEPT ![r] = rec]
        BY <2>1, Zenon
      <3>2. job[r].polls + 1 \in 0..MaxPolls
        BY <2>0, <2>1, ClientAssumption DEF StartedJob
      <3>3. JobIn(rec, "poll")
        BY <2>0, <3>2, PhaseNames, JobUpdates, Zenon
      <3> HIDE DEF rec
      <3>4. GoesTo(r, rec)
        BY <2>0, <3>3, PhaseNames DEF GoesTo, JobIn
      <3> QED BY <1>0, <2>0, <3>1, <3>4, OneJobGoes DEF Advances
    <2>2. CASE job[r].polls + 1 = MaxPolls /\ Ends(r, "unsure")
      BY <1>0, <2>0, <2>2, EndsGoes
    <2>3. CASE Found(r) /\ receipt[r].status = "SUCCESS"
      <3>1. PICK n \in Nat : receipt[r] = Success(n)
        BY <2>3, Receipts DEF Found, ClientTypeOK
      <3>2. receipt[r].epoch = n
        BY <3>1, Receipts
      <3> DEFINE rec == [job[r] EXCEPT !.phase = "returned", !.polls = 0, !.epoch = n]
      <3>3. job' = [job EXCEPT ![r] = rec]
        <4>1. job' = [job EXCEPT ![r].phase = "returned", ![r].polls = 0, ![r].epoch = n]
          BY <2>3, <3>2 DEF Found
        <4> QED BY <4>1, Zenon
      <3>4. 0 \in 0..MaxPolls
        BY ClientAssumption
      <3>5. "returned" \in Phases
        BY PhaseNames
      <3>6. rec \in StartedJob /\ rec.phase = "returned" /\ rec.epoch = n
        BY <2>0, <3>4, <3>5, Zenon DEF StartedJob
      <3> HIDE DEF rec
      <3>7. GoesTo(r, rec)
        BY <2>0, <3>1, <3>6, PhaseNames DEF GoesTo
      <3> QED BY <1>0, <2>0, <3>3, <3>7, OneJobGoes DEF Advances
    <2>4. CASE Found(r) /\ receipt[r].status # "SUCCESS"
      <3>1. receipt[r] = Failed
        BY <2>4, Receipts DEF Found, ClientTypeOK
      <3> QED BY <1>0, <2>0, <2>4, <3>1, EndsGoes DEF Found
    <2> QED BY <1>4, <2>1, <2>2, <2>3, <2>4 DEF Poll, NotFound, Found
  <1> QED BY <1>1, <1>2, <1>3, <1>4 DEF Routine

----------------------------------------------------------------------------
(***************************************************************************)
(* Each kind of step keeps the invariant.                                  *)
(***************************************************************************)

\* Nothing but submissions and the network changes.
LEMMA AdvanceKeeps ==
  ASSUME ClientInv, NEW r \in Runs, Advances(r)
  PROVE  ClientInv'
  <1>1. /\ UNCHANGED <<outcome, run, stored, receipt, sequence, log, head>>
        /\ JobsGo /\ job' \in [Runs -> Job] /\ pool' \subseteq Runs
    BY DEF Advances
  <1>2. ClientTypeOK'
    BY <1>1 DEF ClientInv, ClientTypeOK, Contract!LogTypeOK
  <1>3. JobInv' /\ JobsContinue /\ \A q \in Runs : job[q] = NoJob => job'[q] = NoJob
    BY <1>1, JobsStay DEF ClientInv
  <1>4. RunInv'
    BY <1>1, <1>3 DEF ClientInv, RunInv, JobsContinue
  <1>5. RunningIsAwaited'
    BY <1>1 DEF ClientInv, RunningIsAwaited, UnderWay
  <1>6. RunsContinue /\ OutcomesContinue
    BY <1>1 DEF RunsContinue, OutcomesContinue
  <1>7. \A book : \A n \in Nat : InLog(book, n) => InLog(book, n)'
    BY <1>1 DEF InLog
  <1> QED BY <1>1, <1>2, <1>3, <1>4, <1>5, <1>6, <1>7, Keeps

\* What a run's going on leaves.
LEMMA RunGoesOn ==
  ASSUME ClientTypeOK, NEW r \in Runs, run[r].at # "not started",
         NEW at \in Busy \cup {"over", "gone"}, GoesOn(r, at)
  PROVE  /\ run' \in [Runs -> Run]
         /\ RunsContinue
         /\ \A q \in Runs : run'[q].at = IF q = r THEN at ELSE run[q].at
         /\ \A q \in Runs : /\ run'[q].tab = run[q].tab
                            /\ run'[q].book = run[q].book
                            /\ run'[q].mounted = run[q].mounted
  <1> DEFINE y == [run[r] EXCEPT !.at = at]
  <1>1. run[r] \in StartedRun
    BY StartedRuns
  <1>2. /\ y \in StartedRun /\ y.at = at
        /\ y.tab = run[r].tab /\ y.book = run[r].book /\ y.mounted = run[r].mounted
    BY <1>1, RunUpdates, Zenon
  <1>3. run' = [run EXCEPT ![r] = y]
    BY Zenon DEF GoesOn
  <1> HIDE DEF y
  <1>4. \A q \in Runs : run'[q] = IF q = r THEN y ELSE run[q]
    BY <1>3 DEF ClientTypeOK
  <1>5. y \in Run /\ y # NotStarted
    <2>1. y \in Run
      BY <1>2, Zenon DEF StartedRun, Run, Busy
    <2>2. y.at # NotStarted.at
      BY <1>2 DEF NotStarted, Busy
    <2> QED BY <2>1, <2>2
  <1>6. run' \in [Runs -> Run]
    BY <1>3, <1>5 DEF ClientTypeOK
  <1> QED BY <1>2, <1>4, <1>5, <1>6 DEF RunsContinue

\* A run ends and sets its tab's outcome.
LEMMA FinishKeeps ==
  ASSUME ClientInv, NEW r \in Runs, run[r].at \in Busy, GoesOn(r, "over"),
         NEW o \in Outcome, SetOutcome(r, o),
         o = Ready \/ (o = Submitted(r) /\ run[r].at = "confirming"),
         UNCHANGED <<stored, job, network>>
  PROVE  ClientInv'
  <1> USE DEF network
  <1>1. run[r].at # "not started" /\ run[r].at # "over"
    BY DEF Busy
  <1>2. run[r] \in StartedRun /\ run[r].tab \in Tabs /\ run[r].mounted \in BOOLEAN
    BY <1>1, StartedRuns DEF ClientInv
  <1>3. /\ run' \in [Runs -> Run]
        /\ RunsContinue
        /\ \A q \in Runs : run'[q].at = IF q = r THEN "over" ELSE run[q].at
        /\ \A q \in Runs : /\ run'[q].tab = run[q].tab
                           /\ run'[q].book = run[q].book
                           /\ run'[q].mounted = run[q].mounted
    BY <1>1, RunGoesOn DEF ClientInv
  <1>4. \A t \in Tabs :
          outcome'[t] = IF run[r].mounted /\ t = run[r].tab THEN o ELSE outcome[t]
    BY <1>2 DEF SetOutcome, ClientInv, ClientTypeOK
  <1>5. ClientTypeOK'
    <2>1. outcome' \in [Tabs -> Outcome]
      BY DEF SetOutcome, ClientInv, ClientTypeOK
    <2> QED BY <1>3, <2>1 DEF ClientInv, ClientTypeOK, Contract!LogTypeOK
  <1>6. JobInv' /\ JobsContinue
    BY DEF ClientInv, JobInv, JobsContinue
  <1>7. RunInv'
    BY <1>3 DEF ClientInv, RunInv
  <1>8. OutcomesContinue
    BY <1>4 DEF OutcomesContinue
  <1>9. RunningIsAwaited'
    <2> SUFFICES ASSUME NEW t \in Tabs, outcome'[t] = Running
                 PROVE  \E q \in Runs : /\ run'[q].at \in {"proving", "submitting", "confirming"}
                                        /\ run'[q].tab = t /\ run'[q].mounted
      BY DEF RunningIsAwaited, UnderWay
    <2>1. ~(run[r].mounted /\ t = run[r].tab) /\ outcome[t] = Running
      BY <1>4, Outcomes
    <2>2. PICK q \in Runs : /\ run[q].at \in {"proving", "submitting", "confirming"}
                            /\ run[q].tab = t /\ run[q].mounted
      BY <2>1 DEF ClientInv, RunningIsAwaited, UnderWay
    <2>3. q # r
      BY <2>1, <2>2
    <2> QED BY <1>3, <2>2, <2>3
  <1>10. \A book : \A n \in Nat : InLog(book, n) => InLog(book, n)'
    BY DEF InLog
  <1> QED BY <1>3, <1>5, <1>6, <1>7, <1>8, <1>9, <1>10, Keeps

\* A run that goes on and stays under way leaves the tabs as they are awaited.
LEMMA StaysAwaited ==
  ASSUME ClientInv, NEW r \in Runs, run[r].at \in Busy, NEW at \in Busy, GoesOn(r, at),
         outcome' = outcome
  PROVE  RunningIsAwaited' /\ OutcomesContinue
  <1>1. run[r].at # "not started"
    BY DEF Busy
  <1>2. \A q \in Runs : /\ run'[q].at = IF q = r THEN at ELSE run[q].at
                        /\ run'[q].tab = run[q].tab
                        /\ run'[q].mounted = run[q].mounted
    BY <1>1, RunGoesOn DEF ClientInv
  <1>3. ASSUME NEW t \in Tabs, NEW q \in UnderWay(t), run[q].mounted
        PROVE  q \in UnderWay(t)' /\ run'[q].mounted
    BY <1>2, <1>3 DEF UnderWay, Busy
  <1>4. RunningIsAwaited'
    BY <1>3 DEF ClientInv, RunningIsAwaited
  <1> QED BY <1>4 DEF OutcomesContinue

\* A submission that starts has no receipt yet.
LEMMA SubmitKeeps ==
  ASSUME ClientInv, NEW r \in Runs, NEW signer \in {"server", "wallet"}, Submit(r, signer)
  PROVE  ClientInv'
  <1> DEFINE rec == [phase |-> "account", signer |-> signer, seq |-> 0, polls |-> 0, epoch |-> 0]
  <1>1. /\ run[r].at = "proving" /\ GoesOn(r, "submitting")
        /\ job' = [job EXCEPT ![r] = rec]
        /\ UNCHANGED <<outcome, stored, pool, receipt, sequence, log, head>>
    BY DEF Submit, network
  <1>2. rec \in StartedJob /\ rec.phase = "account"
    <2>1. 0 \in 0..MaxPolls /\ 0 \in Nat
      BY ClientAssumption
    <2> QED BY <2>1, PhaseNames DEF StartedJob
  <1> HIDE DEF rec
  <1>3. \A q \in Runs : job'[q] = IF q = r THEN rec ELSE job[q]
    BY <1>1 DEF ClientInv, ClientTypeOK
  <1>4. job[r] = NoJob /\ job[r].phase = "unused"
    BY <1>1, StartedJobs DEF ClientInv, RunInv
  <1>5. /\ run' \in [Runs -> Run]
        /\ RunsContinue
        /\ \A q \in Runs : run'[q].at = IF q = r THEN "submitting" ELSE run[q].at
    BY <1>1, RunGoesOn DEF ClientInv, Busy
  <1>6. RunningIsAwaited' /\ OutcomesContinue
    BY <1>1, StaysAwaited DEF Busy
  <1>7. ClientTypeOK'
    <2>1. rec \in Job
      BY <1>2, Zenon DEF StartedJob, Job, Phases, Early
    <2>2. job' \in [Runs -> Job]
      BY <1>1, <2>1 DEF ClientInv, ClientTypeOK
    <2> QED BY <1>1, <1>5, <2>2 DEF ClientInv, ClientTypeOK, Contract!LogTypeOK
  <1>8. JobsContinue
    BY <1>3, <1>4 DEF JobsContinue
  <1>9. JobInv'
    BY <1>1, <1>2, <1>3, <1>4 DEF ClientInv, JobInv
  <1>10. RunInv'
    BY <1>3, <1>5 DEF ClientInv, RunInv
  <1>11. \A book : \A n \in Nat : InLog(book, n) => InLog(book, n)'
    BY <1>1 DEF InLog
  <1> QED BY <1>1, <1>5, <1>6, <1>7, <1>8, <1>9, <1>10, <1>11, Keeps

\* The answer of a submission is persisted.
Persists(r) ==
  /\ run[r].at = "submitting"
  /\ job[r].phase = "returned"
  /\ Persist(r)
  /\ GoesOn(r, "confirming")
  /\ UNCHANGED <<outcome, job, network>>

\* The stored book becomes that of the run that was told.
LEMMA PersistKeeps ==
  ASSUME ClientInv, NEW r \in Runs, Persists(r)
  PROVE  ClientInv'
  <1>1. /\ run[r].at = "submitting" /\ job[r].phase = "returned" /\ GoesOn(r, "confirming")
        /\ stored' = [book |-> run[r].book, run |-> r, epoch |-> job[r].epoch]
        /\ UNCHANGED <<outcome, job, pool, receipt, sequence, log, head>>
    BY DEF Persists, Persist, network
  <1>2. run[r].book \in Books /\ job[r].epoch \in Nat
    <2>1. run[r] \in StartedRun /\ job[r] \in StartedJob
      BY <1>1, StartedRuns, StartedJobs DEF ClientInv
    <2> QED BY <2>1 DEF StartedRun, StartedJob
  <1>3. /\ run' \in [Runs -> Run]
        /\ RunsContinue
        /\ \A q \in Runs : run'[q].at = IF q = r THEN "confirming" ELSE run[q].at
        /\ \A q \in Runs : run'[q].book = run[q].book
    BY <1>1, RunGoesOn DEF ClientInv, Busy
  <1>4. RunningIsAwaited' /\ OutcomesContinue
    BY <1>1, StaysAwaited DEF Busy
  <1>5. ClientTypeOK'
    <2>1. stored' \in Stored
      BY <1>1, <1>2 DEF Stored
    <2> QED BY <1>1, <1>3, <2>1 DEF ClientInv, ClientTypeOK, Contract!LogTypeOK
  <1>6. JobInv' /\ JobsContinue
    BY <1>1 DEF ClientInv, JobInv, JobsContinue
  <1>7. RunInv'
    BY <1>1, <1>3 DEF ClientInv, RunInv
  <1>8. ReceiptInv'
    BY <1>1, <1>3 DEF ClientInv, ReceiptInv, InLog
  <1>9. OutcomeInv'
    BY <1>3, <1>4, <1>6, OutcomesStay DEF ClientInv
  <1>10. StoredInv'
    BY <1>1, <1>3 DEF StoredInv
  <1> QED BY <1>4, <1>5, <1>6, <1>7, <1>8, <1>9, <1>10 DEF ClientInv

\* What one run does.
LEMMA RunStepKeeps ==
  ASSUME ClientInv, NEW r \in Runs, RunStep(r)
  PROVE  ClientInv'
  <1>0. Ready \in Outcome /\ Submitted(r) \in Outcome
    BY Outcomes
  <1>1. CASE ProofFails(r)
    BY <1>0, <1>1, FinishKeeps DEF ProofFails, Busy
  <1>2. CASE AnswerLost(r)
    BY <1>0, <1>2, FinishKeeps DEF AnswerLost, Busy
  <1>3. CASE Confirm(r)
    BY <1>0, <1>3, FinishKeeps DEF Confirm, Busy
  <1>4. CASE Deliver(r)
    <2>1. CASE Persists(r)
      BY <2>1, PersistKeeps
    <2>2. CASE run[r].at = "submitting" /\ GoesOn(r, "over") /\ SetOutcome(r, Ready)
               /\ UNCHANGED <<stored, job, network>>
      BY <1>0, <2>2, FinishKeeps DEF Busy
    <2> QED BY <1>4, <2>1, <2>2 DEF Deliver, Persists, network
  <1> QED BY <1>1, <1>2, <1>3, <1>4, SubmitKeeps DEF RunStep

\* A run starts, and its tab shows that it runs.
LEMMA StartKeeps ==
  ASSUME ClientInv, NEW t \in Tabs, NEW r \in Runs, NEW book \in Books, StartRun(t, r, book)
  PROVE  ClientInv'
  <1> DEFINE x == [at |-> "proving", tab |-> t, book |-> book, mounted |-> TRUE]
  <1>1. /\ run[r] = NotStarted
        /\ outcome' = [outcome EXCEPT ![t] = Running]
        /\ run' = [run EXCEPT ![r] = x]
        /\ UNCHANGED <<stored, job, pool, receipt, sequence, log, head>>
    BY DEF StartRun, NextRun, network
  <1>2. x \in Run /\ x.at = "proving" /\ x.tab = t /\ x.mounted
    BY DEF Run
  <1> HIDE DEF x
  <1>3. \A q \in Runs : run'[q] = IF q = r THEN x ELSE run[q]
    BY <1>1 DEF ClientInv, ClientTypeOK
  <1>4. \A u \in Tabs : outcome'[u] = IF u = t THEN Running ELSE outcome[u]
    BY <1>1 DEF ClientInv, ClientTypeOK
  <1>5. ClientTypeOK'
    <2>1. outcome' \in [Tabs -> Outcome]
      BY <1>1, Outcomes DEF ClientInv, ClientTypeOK
    <2>2. run' \in [Runs -> Run]
      BY <1>1, <1>2 DEF ClientInv, ClientTypeOK
    <2> QED BY <1>1, <2>1, <2>2 DEF ClientInv, ClientTypeOK, Contract!LogTypeOK
  <1>6. JobInv' /\ JobsContinue
    BY <1>1 DEF ClientInv, JobInv, JobsContinue
  <1>7. run[r].at = "not started"
    <2>1. NotStarted.at = "not started"
      BY DEF NotStarted
    <2> QED BY ONLY <1>1, <2>1, Zenon
  <1>8. RunInv'
    <2>1. job[r] = NoJob
      BY <1>7 DEF ClientInv, RunInv
    <2>2. run'[r].at = "proving"
      BY <1>2, <1>3
    <2>3. \A q \in Runs : q # r => run'[q].at = run[q].at
      BY <1>3
    <2> QED BY <1>1, <2>1, <2>2, <2>3 DEF ClientInv, RunInv
  <1>9. RunsContinue /\ OutcomesContinue
    BY <1>1, <1>3, <1>4 DEF RunsContinue, OutcomesContinue
  <1>10. RunningIsAwaited'
    <2>1. ASSUME NEW u \in Tabs, NEW q \in UnderWay(u), run[q].mounted
          PROVE  q \in UnderWay(u)' /\ run'[q].mounted
      <3>1. q # r
        BY <1>7, <2>1 DEF UnderWay
      <3> QED BY <1>3, <2>1, <3>1 DEF UnderWay
    <2>2. r \in UnderWay(t)' /\ run'[r].mounted
      BY <1>2, <1>3 DEF UnderWay
    <2> QED BY <1>4, <2>1, <2>2 DEF ClientInv, RunningIsAwaited
  <1>11. \A book_ : \A n \in Nat : InLog(book_, n) => InLog(book_, n)'
    BY <1>1 DEF InLog
  <1> QED BY <1>1, <1>5, <1>6, <1>8, <1>9, <1>10, <1>11, Keeps

\* A tab is left with nothing to show, and its runs are changed: each stays where it
\* is, or is gone; those of other tabs are as before.
Forgets(t) ==
  /\ outcome' = [outcome EXCEPT ![t] = Ready]
  /\ DOMAIN run' = Runs
  /\ run' = [r \in Runs |-> run'[r]]
  /\ \A r \in Runs :
       \/ run'[r] = run[r]
       \/ /\ r \in UnderWay(t)
          /\ run'[r] \in StartedRun
          /\ run'[r].at \in {run[r].at, "gone"}
          /\ run'[r].tab = run[r].tab /\ run'[r].book = run[r].book

\* What such a tab leaves.
LEMMA ForgetsRuns ==
  ASSUME ClientInv, NEW t \in Tabs, Forgets(t),
         \A r \in Runs : job[r] = NoJob => job'[r] = NoJob, JobsContinue
  PROVE  /\ outcome' \in [Tabs -> Outcome]
         /\ run' \in [Runs -> Run]
         /\ RunsContinue /\ OutcomesContinue
         /\ RunInv' /\ RunningIsAwaited'
  <1>1. \A u \in Tabs : outcome'[u] = IF u = t THEN Ready ELSE outcome[u]
    BY DEF Forgets, ClientInv, ClientTypeOK
  <1>2. outcome' \in [Tabs -> Outcome]
    BY Outcomes DEF Forgets, ClientInv, ClientTypeOK
  <1>3. \A x \in StartedRun : x \in Run /\ x # NotStarted
    <2>1. \A x \in StartedRun : x \in Run
      BY Zenon DEF StartedRun, Run, Busy
    <2>2. NotStarted.at \notin Busy \cup {"over", "gone"}
      BY DEF NotStarted, Busy
    <2> QED BY <2>1, <2>2 DEF StartedRun
  <1>4. \A r \in Runs : run'[r] \in Run
    BY <1>3 DEF Forgets, ClientInv, ClientTypeOK
  <1>5. run' \in [Runs -> Run]
    BY <1>4 DEF Forgets
  <1>6. RunsContinue
    BY <1>3 DEF Forgets, RunsContinue
  <1>7. OutcomesContinue
    BY <1>1 DEF OutcomesContinue
  <1>8. RunInv'
    <2> SUFFICES ASSUME NEW r \in Runs
                 PROVE  /\ run'[r].at \in {"not started", "proving"} => job'[r] = NoJob
                        /\ run'[r].at = "confirming" => job'[r].phase = "returned"
      BY DEF RunInv
    <2>1. run'[r].at \in {run[r].at, "gone"}
      BY DEF Forgets
    <2> QED BY <2>1 DEF ClientInv, RunInv, JobsContinue
  <1>9. RunningIsAwaited'
    <2>1. ASSUME NEW u \in Tabs, u # t, NEW r \in UnderWay(u), run[r].mounted
          PROVE  r \in UnderWay(u)' /\ run'[r].mounted
      <3>1. r \notin UnderWay(t)
        BY <2>1 DEF UnderWay
      <3>2. run'[r] = run[r]
        BY <3>1 DEF Forgets, UnderWay
      <3> QED BY <2>1, <3>2 DEF UnderWay
    <2> QED BY <1>1, <2>1, Outcomes DEF ClientInv, RunningIsAwaited
  <1> QED BY <1>2, <1>5, <1>6, <1>7, <1>8, <1>9

\* A tab that forgets, with no submission touched.
LEMMA ForgetKeeps ==
  ASSUME ClientInv, NEW t \in Tabs, Forgets(t), UNCHANGED <<stored, job, network>>
  PROVE  ClientInv'
  <1> USE DEF network
  <1>1. JobInv' /\ JobsContinue
    BY DEF ClientInv, JobInv, JobsContinue
  <1>2. /\ outcome' \in [Tabs -> Outcome] /\ run' \in [Runs -> Run]
        /\ RunsContinue /\ OutcomesContinue /\ RunInv' /\ RunningIsAwaited'
    BY <1>1, ForgetsRuns
  <1>3. ClientTypeOK'
    BY <1>2 DEF ClientInv, ClientTypeOK, Contract!LogTypeOK
  <1>4. \A book : \A n \in Nat : InLog(book, n) => InLog(book, n)'
    BY DEF InLog
  <1> QED BY <1>1, <1>2, <1>3, <1>4, Keeps

\* A run under way is one that has started.
LEMMA UnderWayStarted ==
  ASSUME ClientTypeOK, NEW t \in Tabs, NEW r \in UnderWay(t)
  PROVE  r \in Runs /\ run[r] \in StartedRun
  <1>1. r \in Runs /\ run[r].at # "not started"
    BY DEF UnderWay
  <1> QED BY <1>1, StartedRuns

\* A reload.
LEMMA ReloadKeeps ==
  ASSUME ClientInv, NEW t \in Tabs, Reload(t)
  PROVE  ClientInv'
  <1> DEFINE dying == {r \in UnderWay(t) :
                         /\ job[r].phase \in {"account", "preflight", "send", "poll"}
                         /\ job[r].signer = "wallet"}
  <1>1. PICK sent \in SUBSET {r \in dying : job[r].phase = "send"} :
          /\ outcome' = [outcome EXCEPT ![t] = Ready]
          /\ run' = [r \in Runs |-> IF r \in UnderWay(t) THEN [run[r] EXCEPT !.at = "gone"]
                                    ELSE run[r]]
          /\ job' = [r \in Runs |->
                       IF r \in dying
                       THEN [job[r] EXCEPT
                               !.phase = IF r \in sent \/ @ = "poll" THEN "unsure" ELSE "refused",
                               !.polls = 0]
                       ELSE job[r]]
          /\ pool' = pool \cup sent
          /\ UNCHANGED <<stored, receipt, sequence, log, head>>
    BY Zenon DEF Reload
  <1>2. Forgets(t)
    <2>1. ASSUME NEW r \in UnderWay(t)
          PROVE  LET x == [run[r] EXCEPT !.at = "gone"]
                 IN  /\ x \in StartedRun /\ x.at = "gone"
                     /\ x.tab = run[r].tab /\ x.book = run[r].book
      <3>1. run[r] \in StartedRun
        BY UnderWayStarted DEF ClientInv
      <3>2. "gone" \in Busy \cup {"over", "gone"}
        OBVIOUS
      <3> QED BY ONLY <3>1, <3>2, RunUpdates, Zenon
    <2>2. \A r \in Runs : run'[r] = IF r \in UnderWay(t) THEN [run[r] EXCEPT !.at = "gone"]
                                    ELSE run[r]
      BY <1>1
    <2>3. DOMAIN run' = Runs /\ run' = [r \in Runs |-> run'[r]]
      BY <1>1
    <2> QED BY <1>1, <2>1, <2>2, <2>3 DEF Forgets
  <1>3. ASSUME NEW r \in dying
        PROVE  GoesTo(r, job'[r])
    <2> DEFINE phase == IF r \in sent \/ job[r].phase = "poll" THEN "unsure" ELSE "refused"
    <2>1. r \in Runs /\ job[r].phase \in Early \cup {"poll"} /\ job[r].phase # "unused"
      BY DEF UnderWay, Early
    <2>2. job[r] \in StartedJob
      BY <2>1, StartedJobs DEF ClientInv
    <2>3. phase \in Phases /\ 0 \in 0..MaxPolls
      BY PhaseNames, ClientAssumption
    <2>4. job'[r] = [job[r] EXCEPT !.phase = phase, !.polls = 0]
      BY <1>1, <2>1, Zenon
    <2> HIDE DEF phase
    <2>5. JobIn(job'[r], phase)
      <3>1. JobIn([job[r] EXCEPT !.phase = phase, !.polls = 0], phase)
        BY <2>2, <2>3, JobUpdates, Zenon
      <3> QED BY <2>4, <3>1
    <2>6. r \in sent => job[r].phase = "send" /\ phase = "unsure"
      BY <1>1 DEF phase
    <2>7. r \notin sent => phase = "refused" \/ job[r].phase = "poll"
      BY DEF phase
    <2>8. phase = "refused" => job[r].phase \in Early
      BY <2>1 DEF phase
    <2>9. phase \in {"refused", "unsure"}
      BY DEF phase
    <2> HIDE DEF dying
    <2> QED BY <1>1, <2>1, <2>5, <2>6, <2>8, <2>9, PhaseNames DEF GoesTo, JobIn
  <1>4. JobsGo
    <2>1. ASSUME NEW r \in Runs, r \notin dying
          PROVE  job'[r] = job[r] /\ (r \in pool' => r \in pool)
      BY <1>1, <2>1
    <2> HIDE DEF dying
    <2> QED BY <1>3, <2>1 DEF JobsGo
  <1>5. DOMAIN job' = Runs /\ job' = [r \in Runs |-> job'[r]]
    BY <1>1
  <1>6. pool' \subseteq Runs
    BY <1>1 DEF UnderWay, ClientInv, ClientTypeOK
  <1>7. UNCHANGED <<stored, receipt, sequence, log, head>>
    BY <1>1
  <1> HIDE DEF dying
  <1>8. /\ job' \in [Runs -> Job] /\ JobInv' /\ JobsContinue
        /\ \A r \in Runs : job[r] = NoJob => job'[r] = NoJob
    BY <1>4, <1>5, <1>7, JobsStay DEF ClientInv
  <1>9. /\ outcome' \in [Tabs -> Outcome] /\ run' \in [Runs -> Run]
        /\ RunsContinue /\ OutcomesContinue /\ RunInv' /\ RunningIsAwaited'
    BY <1>2, <1>8, ForgetsRuns
  <1>10. ClientTypeOK'
    BY <1>6, <1>7, <1>8, <1>9 DEF ClientInv, ClientTypeOK, Contract!LogTypeOK
  <1>11. \A book : \A n \in Nat : InLog(book, n) => InLog(book, n)'
    BY <1>7 DEF InLog
  <1> QED BY <1>7, <1>8, <1>9, <1>10, <1>11, Keeps

\* What one tab does.
LEMMA TabStepKeeps ==
  ASSUME ClientInv, NEW t \in Tabs, TabStep(t)
  PROVE  ClientInv'
  <1>1. CASE LoadBook(t)
    <2>1. Forgets(t)
      BY <1>1 DEF LoadBook, Forgets, ClientInv, ClientTypeOK
    <2> QED BY <1>1, <2>1, ForgetKeeps DEF LoadBook
  <1>2. CASE Leave(t)
    <2>1. ASSUME NEW r \in UnderWay(t)
          PROVE  LET x == [run[r] EXCEPT !.mounted = FALSE]
                 IN  /\ x \in StartedRun /\ x.at = run[r].at
                     /\ x.tab = run[r].tab /\ x.book = run[r].book
      <3>1. run[r] \in StartedRun
        BY UnderWayStarted DEF ClientInv
      <3> QED BY ONLY <3>1, RunUpdates, Zenon
    <2>2. /\ run' = [r \in Runs |-> IF r \in UnderWay(t) THEN [run[r] EXCEPT !.mounted = FALSE]
                                    ELSE run[r]]
          /\ outcome' = [outcome EXCEPT ![t] = Ready]
      BY <1>2 DEF Leave
    <2>3. \A r \in Runs : run'[r] = IF r \in UnderWay(t) THEN [run[r] EXCEPT !.mounted = FALSE]
                                    ELSE run[r]
      BY <2>2
    <2>4. DOMAIN run' = Runs /\ run' = [r \in Runs |-> run'[r]]
      BY <2>2
    <2>5. Forgets(t)
      BY <2>1, <2>2, <2>3, <2>4 DEF Forgets
    <2> QED BY <1>2, <2>5, ForgetKeeps DEF Leave
  <1> QED BY <1>1, <1>2, StartKeeps, ReloadKeeps DEF TabStep

----------------------------------------------------------------------------
(***************************************************************************)
(* The network.                                                            *)
(***************************************************************************)

\* A transaction in the network belongs to a submission that has started.
LEMMA PoolStarted ==
  ASSUME ClientInv, NEW r \in Runs, r \in pool
  PROVE  /\ run[r] \in StartedRun
         /\ receipt[r] = None /\ job[r].phase \in {"poll", "unsure"}
  <1>1. job[r].phase \notin Early \cup {"unused"} /\ receipt[r] = None
    BY DEF ClientInv, JobInv
  <1>2. job[r] \in StartedJob
    BY <1>1, StartedJobs DEF ClientInv
  <1>3. job[r].phase # "refused" /\ job[r].phase # "returned"
    BY <1>1, <1>2, Receipts DEF ClientInv, JobInv, StartedJob
  <1>4. run[r] \in StartedRun
    BY <1>1, JobHasRun, StartedRuns DEF ClientInv
  <1> QED BY <1>1, <1>2, <1>3, <1>4, StartedJobs DEF ClientInv, Phases

\* The network applies a transaction, with success or not.
LEMMA ApplyKeeps ==
  ASSUME ClientInv, NEW r \in Runs, Apply(r)
  PROVE  ClientInv'
  <1> DEFINE entry == [root |-> run[r].book, strong |-> FALSE]
  <1>1. /\ run[r] \in StartedRun /\ run[r] # NotStarted
        /\ receipt[r] = None /\ job[r].phase \in {"poll", "unsure"}
    BY PoolStarted, StartedRuns DEF Apply, ClientInv
  <1>2. entry \in Contract!Entry /\ entry.root = run[r].book
    BY <1>1 DEF StartedRun, Contract!Entry, Roots
  <1> HIDE DEF entry
  <1>3. /\ pool' = pool \ {r} /\ sequence' = sequence + 1
        /\ UNCHANGED <<outcome, run, stored, job>>
    BY DEF Apply, page
  <1>4. PICK x \in Receipt :
          /\ receipt' = [receipt EXCEPT ![r] = x]
          /\ x \in {Failed, Success(Len(log))}
          /\ Contract!LogTypeOK'
          /\ \A n \in Nat : x = Success(n) => InLog(run[r].book, n)'
          /\ \A book : \A n \in Nat : InLog(book, n) => InLog(book, n)'
    <2>1. CASE /\ Contract!Publish(entry)
               /\ receipt' = [receipt EXCEPT ![r] = [status |-> "SUCCESS", epoch |-> Len(log)]]
      <3>1. /\ Contract!LogTypeOK'
            /\ Len(log) \in Nat
            /\ Len(log) + 1 \in DOMAIN log' /\ log'[Len(log) + 1] = entry
            /\ \A book : \A n \in Nat : InLog(book, n) => InLog(book, n)'
        BY <1>2, <2>1, PublishKeeps DEF ClientInv
      <3>2. \A n \in Nat : Success(Len(log)) = Success(n) => InLog(run[r].book, n)'
        <4> SUFFICES ASSUME NEW n \in Nat, Success(Len(log)) = Success(n)
                     PROVE  n + 1 \in DOMAIN log' /\ log'[n + 1].root = run'[r].book
          BY DEF InLog
        <4>1. n = Len(log)
          BY <3>1, Receipts
        <4> QED BY <1>2, <1>3, <3>1, <4>1
      <3>3. Success(Len(log)) \in Receipt
        BY <3>1 DEF Success, Receipt
      <3> QED BY <2>1, <3>1, <3>2, <3>3 DEF Success
    <2>2. CASE receipt' = [receipt EXCEPT ![r] = [status |-> "FAILED"]] /\ UNCHANGED <<log, head>>
      <3>1. Failed \in Receipt
        BY DEF Failed, Receipt
      <3>2. Contract!LogTypeOK'
        BY <2>2 DEF ClientInv, ClientTypeOK, Contract!LogTypeOK
      <3>3. \A book : \A n \in Nat : InLog(book, n) => InLog(book, n)'
        BY <2>2 DEF InLog
      <3>4. \A n \in Nat : Failed # Success(n)
        BY Receipts
      <3> QED BY <2>2, <3>1, <3>2, <3>3, <3>4 DEF Failed
    <2> QED BY <2>1, <2>2 DEF Apply, entry
  <1>5. \A q \in Runs : receipt'[q] = IF q = r THEN x ELSE receipt[q]
    BY <1>4 DEF ClientInv, ClientTypeOK
  <1>6. ClientTypeOK'
    <2>1. receipt' \in [Runs -> Receipt \cup {None}]
      BY <1>4 DEF ClientInv, ClientTypeOK
    <2>2. sequence' \in Nat /\ pool' \subseteq Runs
      BY <1>3 DEF ClientInv, ClientTypeOK
    <2> QED BY <1>3, <1>4, <2>1, <2>2 DEF ClientInv, ClientTypeOK
  <1>7. JobInv'
    BY <1>1, <1>3, <1>5 DEF ClientInv, JobInv, Early
  <1>8. RunInv' /\ OutcomeInv' /\ StoredInv'
    BY <1>3 DEF ClientInv, RunInv, OutcomeInv, StoredInv
  <1>9. RunningIsAwaited'
    BY <1>3 DEF ClientInv, RunningIsAwaited, UnderWay
  <1>10. ReceiptInv'
    <2> SUFFICES ASSUME NEW q \in Runs, NEW n \in Nat, receipt'[q] = Success(n)
                 PROVE  InLog(run[q].book, n)'
      BY DEF ReceiptInv
    <2>1. CASE q = r
      BY <1>4, <1>5, <2>1
    <2>2. CASE q # r
      <3>1. InLog(run[q].book, n)
        BY <1>5, <2>2 DEF ClientInv, ReceiptInv
      <3> QED BY <1>3, <1>4, <3>1 DEF InLog
    <2> QED BY <2>1, <2>2
  <1> QED BY <1>6, <1>7, <1>8, <1>9, <1>10 DEF ClientInv

\* The network drops a transaction, or the account attests elsewhere.
LEMMA NetworkKeeps ==
  ASSUME ClientInv,
         (\E r \in Runs : Drop(r)) \/ (\E entry \in OtherEntries : AttestElsewhere(entry))
  PROVE  ClientInv'
  <1>1. /\ UNCHANGED <<outcome, run, stored, job, receipt>>
        /\ pool' \subseteq pool
    BY DEF Drop, AttestElsewhere, page
  <1>2. /\ sequence' \in Nat
        /\ Contract!LogTypeOK'
        /\ \A book : \A n \in Nat : InLog(book, n) => InLog(book, n)'
    <2>1. ASSUME NEW entry \in OtherEntries, AttestElsewhere(entry)
          PROVE  /\ sequence' \in Nat
                 /\ Contract!LogTypeOK'
                 /\ \A book : \A n \in Nat : InLog(book, n) => InLog(book, n)'
      <3>1. Contract!Publish(entry)
        BY <2>1 DEF AttestElsewhere
      <3>2. entry \in Contract!Entry
        BY ClientAssumption DEF Contract!Entry, Roots
      <3>3. sequence' \in Nat
        BY <2>1 DEF ClientInv, ClientTypeOK, AttestElsewhere
      <3> QED BY <3>1, <3>2, <3>3, PublishKeeps DEF ClientInv
    <2>2. ASSUME NEW r \in Runs, Drop(r)
          PROVE  /\ sequence' \in Nat
                 /\ Contract!LogTypeOK'
                 /\ \A book : \A n \in Nat : InLog(book, n) => InLog(book, n)'
      BY <2>2 DEF ClientInv, ClientTypeOK, Drop, InLog, Contract!LogTypeOK
    <2> QED BY <2>1, <2>2
  <1>3. ClientTypeOK'
    BY <1>1, <1>2 DEF ClientInv, ClientTypeOK
  <1>4. JobInv' /\ RunInv'
    BY <1>1 DEF ClientInv, JobInv, RunInv
  <1>5. JobsContinue /\ RunsContinue /\ OutcomesContinue
    BY <1>1 DEF JobsContinue, RunsContinue, OutcomesContinue
  <1>6. RunningIsAwaited'
    BY <1>1 DEF ClientInv, RunningIsAwaited, UnderWay
  <1> QED BY <1>1, <1>2, <1>3, <1>4, <1>5, <1>6, Keeps

\* A step in which nothing changes.
LEMMA StutterKeeps ==
  ASSUME ClientInv, UNCHANGED vars
  PROVE  ClientInv'
  <1>1. UNCHANGED <<outcome, run, stored, job, pool, receipt, sequence, log, head>>
    BY DEF vars
  <1>2. ClientTypeOK' /\ JobInv' /\ RunInv'
    BY <1>1 DEF ClientInv, ClientTypeOK, JobInv, RunInv, Contract!LogTypeOK
  <1>3. ReceiptInv' /\ OutcomeInv' /\ StoredInv' /\ RunningIsAwaited'
    BY <1>1 DEF ClientInv, ReceiptInv, OutcomeInv, StoredInv, RunningIsAwaited, UnderWay, InLog
  <1> QED BY <1>2, <1>3 DEF ClientInv

----------------------------------------------------------------------------
(***************************************************************************)
(* The theorems.                                                           *)
(***************************************************************************)

\* Every step keeps the invariant.
LEMMA ClientStep ==
  ASSUME ClientInv, [Next]_vars
  PROVE  ClientInv'
  <1>1. ASSUME NEW r \in Runs, Routine(r) \/ CallFails(r)
        PROVE  ClientInv'
    BY <1>1, RoutineGoes, CallFailsGoes, AdvanceKeeps DEF ClientInv
  <1> QED BY <1>1, TabStepKeeps, RunStepKeeps, ApplyKeeps, NetworkKeeps, StutterKeeps DEF Next

\* Nothing has been submitted.
LEMMA ClientInit == Init => ClientInv
  <1> SUFFICES ASSUME Init PROVE ClientInv
    OBVIOUS
  <1>1. NoJob.phase = "unused" /\ NoJob \in Job
    BY DEF NoJob, Job
  <1>2. NotStarted.at = "not started" /\ NotStarted \in Run
    BY DEF NotStarted, Run
  <1>3. ClientTypeOK
    <2>1. outcome \in [Tabs -> Outcome] /\ run \in [Runs -> Run] /\ job \in [Runs -> Job]
      BY <1>1, <1>2, Outcomes DEF Init
    <2>2. stored \in Stored \cup {None} /\ receipt \in [Runs -> Receipt \cup {None}]
      BY DEF Init
    <2>3. pool \subseteq Runs /\ sequence \in Nat /\ Contract!LogTypeOK
      BY DEF Init, Contract!LogInit, Contract!LogTypeOK
    <2> QED BY <2>1, <2>2, <2>3 DEF ClientTypeOK
  <1>4. JobInv /\ RunInv /\ ReceiptInv
    BY <1>1, <1>2, Receipts DEF Init, JobInv, RunInv, ReceiptInv
  <1>5. OutcomeInv /\ StoredInv /\ RunningIsAwaited
    BY Outcomes DEF Init, OutcomeInv, StoredInv, RunningIsAwaited
  <1> QED BY <1>3, <1>4, <1>5 DEF ClientInv

\* The inductive invariant.
LEMMA ClientInvariance == Spec => []ClientInv
  BY ClientInit, ClientStep, PTL DEF Spec

\* ClientTypeOK, for any number of tabs, runs and polls.
THEOREM ClientTypes == Spec => []ClientTypeOK
  <1>1. ClientInv => ClientTypeOK
    BY DEF ClientInv
  <1> QED BY <1>1, ClientInvariance, PTL

\* ReportsAreTrue, for any number of tabs, runs and polls, runs that overlap in one
\* tab included: a page says "submitted", and the browser stores a book, only for
\* the log entry which that very run's transaction made.
THEOREM TrueReports == Spec => []ReportsAreTrue
  <1>1. ClientInv => ReportsAreTrue
    <2> SUFFICES ASSUME ClientInv PROVE ReportsAreTrue
      OBVIOUS
    <2>1. ASSUME NEW t \in Tabs, NEW r \in Runs, outcome[t] = Submitted(r)
          PROVE  /\ run[r].tab = t
                 /\ InLog(run[r].book, job[r].epoch)
                 /\ receipt[r].status = "SUCCESS"
      <3>1. run[r].tab = t /\ job[r].phase = "returned"
        BY <2>1 DEF ClientInv, OutcomeInv
      <3>2. job[r] \in StartedJob
        BY <3>1, StartedJobs DEF ClientInv
      <3>3. job[r].epoch \in Nat
        BY <3>2 DEF StartedJob
      <3>4. receipt[r] = Success(job[r].epoch)
        BY <3>1 DEF ClientInv, JobInv
      <3>5. InLog(run[r].book, job[r].epoch)
        BY <3>3, <3>4 DEF ClientInv, ReceiptInv
      <3> QED BY <3>1, <3>3, <3>4, <3>5, Receipts
    <2>2. ASSUME stored # None
          PROVE  /\ InLog(stored.book, stored.epoch)
                 /\ receipt[stored.run] = [status |-> "SUCCESS", epoch |-> stored.epoch]
      BY <2>2, StoredAttested DEF ClientInv, Success
    <2> QED BY <2>1, <2>2 DEF ReportsAreTrue
  <1> QED BY <1>1, ClientInvariance, PTL

\* ErrorsAreFinal, for any number of tabs, runs and polls: what the routine calls
\* refused is never applied with success.
THEOREM FinalErrors == Spec => []ErrorsAreFinal
  <1>1. ClientInv => ErrorsAreFinal
    BY DEF ClientInv, JobInv, ErrorsAreFinal, Failed
  <1> QED BY <1>1, ClientInvariance, PTL

\* RunningIsAwaited, for any number of tabs and runs: whatever overlaps, fails or is
\* left, a tab that shows "running" has a run that will set its outcome.
THEOREM AwaitedRuns == Spec => []RunningIsAwaited
  <1>1. ClientInv => RunningIsAwaited
    BY DEF ClientInv
  <1> QED BY <1>1, ClientInvariance, PTL

=============================================================================
