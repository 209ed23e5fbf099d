-------------------------- MODULE HolderScriptProofs --------------------------
(***************************************************************************)
(* Theorems about the operator's script, for any number of runs, polls and *)
(* ledgers: the contract under it is the contract of TesseraLedger, its    *)
(* exit codes are true, and a file submitted again is not applied again.   *)
(***************************************************************************)
EXTENDS HolderScript, TesseraLedgerProofs

Used(r) == run[r] # Unused
Applied(r) == tx[r] \in {"success", "failed"}

\* Runs start in order; a file is that of its first run and has one sequence
\* number.
FileInv ==
  /\ \A r \in Runs : Used(r) => run[r].file <= r /\ \A q \in 1..r : Used(q)
  /\ \A r, q \in Runs :
       Used(r) /\ Used(q) /\ run[r].file = run[q].file => run[r].seq = run[q].seq

\* The account's sequence number has passed those of the applied transactions,
\* and no two of them share one.
SeqInv ==
  /\ \A r \in Runs : Applied(r) => run[r].seq <= sequence
  /\ \A r, q \in Runs : r # q /\ Applied(r) /\ Applied(q) => run[r].seq # run[q].seq

\* The root of signals s is in a multi-holder event.
Published(evs, s) ==
  \E i \in DOMAIN evs : evs[i].topic = "multi" /\ evs[i].root = s.root

\* A transaction succeeds by publishing its root, and only then the script says so.
ResultInv ==
  /\ \A r \in Runs : tx[r] = "success" => Published(events, run[r].signals)
  /\ \A r \in Runs : run[r].pc = "exit 0" => tx[r] = "success"

ScriptInv == ScriptTypeOK /\ FileInv /\ SeqInv /\ ResultInv

----------------------------------------------------------------------------
(***************************************************************************)
(* The contract under the script.                                          *)
(***************************************************************************)

\* The record of a run that has started.
Positions == {"simulate", "authorize", "send", "poll"} \cup Exits
Started ==
  [pc : Positions, file : Runs, signals : ProvedSignals, seq : Nat, deadline : Nat,
   entries : SUBSET Accounts, validUntil : Nat, polls : 0..MaxPolls]

\* A run that has started has the fields of one.
LEMMA UsedRuns ==
  ASSUME ScriptTypeOK, NEW r \in Runs
  PROVE  /\ run[r].pc # "unused" => Used(r)
         /\ Used(r) => run[r] \in Started
  <1>1. run[r] \in Started \cup {Unused}
    BY Zenon DEF ScriptTypeOK, Run, Started, Positions
  <1> QED BY <1>1 DEF Used, Unused

\* A step of the script or of the network is one of the contract or leaves it.
LEMMA ScriptStepIsLedgerStep == ScriptTypeOK /\ [ScriptNext]_allVars => [Next]_vars
  <1> SUFFICES ASSUME ScriptTypeOK, [ScriptNext]_allVars PROVE [Next]_vars
    OBVIOUS
  <1>1. CASE UNCHANGED allVars
    BY <1>1 DEF allVars
  <1>2. ASSUME NEW r \in Runs, NEW s \in ProvedSignals, StartBuilt(r, s)
        PROVE  UNCHANGED vars
    BY <1>2 DEF StartBuilt
  <1>3. ASSUME NEW r \in Runs, NEW q \in Runs, StartAgain(r, q)
        PROVE  UNCHANGED vars
    BY <1>3 DEF StartAgain
  <1>4. ASSUME NEW r \in Runs, Script(r) \/ ApplyFails(r) \/ Drop(r)
        PROVE  UNCHANGED vars
    BY <1>4 DEF Script, Simulate, Authorize, Send, Poll, ApplyFails, Drop
  <1>5. ASSUME NEW r \in Runs, Apply(r)
        PROVE  Next
    <2>1. run[r].pc # "unused"
      BY <1>5 DEF Apply, Applicable, ScriptTypeOK, Exits
    <2>2. run[r].signals \in BaseSignals
      BY <2>1, UsedRuns, ScriptAssumption DEF Started
    <2> QED BY <1>5, <2>2 DEF Apply, Next
  <1>6. CASE OtherTransaction
    BY <1>6 DEF OtherTransaction
  <1>7. CASE Elsewhere
    BY <1>7 DEF Elsewhere, Next
  <1> QED BY <1>1, <1>2, <1>3, <1>4, <1>5, <1>6, <1>7 DEF ScriptNext

----------------------------------------------------------------------------
(***************************************************************************)
(* The shapes of the steps.                                                *)
(***************************************************************************)

\* Run r goes on with the same transaction, and may have sent it.
Advances(r, rec, sent) ==
  /\ Used(r)
  /\ rec \in Started
  /\ rec.file = run[r].file /\ rec.signals = run[r].signals /\ rec.seq = run[r].seq
  /\ run' = [run EXCEPT ![r] = rec]
  /\ tx' = [tx EXCEPT ![r] = sent]
  /\ sent = tx[r] \/ (tx[r] = "none" /\ sent = "pool")
  /\ sent # "none" => rec.pc \in {"poll", "exit 0", "exit 4", "exit 5"}
  /\ rec.pc = "exit 0" => sent = "success"
  /\ UNCHANGED <<vars, sequence>>

\* The network is done with the transaction of run r.
Settles(r, outcome) ==
  /\ tx[r] = "pool" /\ Used(r)
  /\ tx' = [tx EXCEPT ![r] = outcome]
  /\ outcome \in {"success", "failed", "dropped"}
  /\ outcome = "dropped" => sequence' = sequence
  /\ outcome # "dropped" => run[r].seq = sequence + 1 /\ sequence' = sequence + 1
  /\ outcome = "success" => Published(events', run[r].signals)
  /\ UNCHANGED run

\* What an update of the script's position, and of one other field, leaves.
SameFile(x, rec, pc) ==
  /\ rec \in Started
  /\ rec.pc = pc /\ rec.file = x.file /\ rec.signals = x.signals /\ rec.seq = x.seq

\* Each update the script makes keeps the file, the signals and the sequence number.
LEMMA Updates ==
  ASSUME NEW x \in Started, NEW pc \in Positions
  PROVE  /\ SameFile(x, [x EXCEPT !.pc = pc], pc)
         /\ \A entries \in SUBSET Accounts :
              SameFile(x, [x EXCEPT !.pc = pc, !.entries = entries], pc)
         /\ \A n \in Nat : SameFile(x, [x EXCEPT !.pc = pc, !.validUntil = n], pc)
         /\ \A k \in 0..MaxPolls :
              /\ x.pc = pc => SameFile(x, [x EXCEPT !.polls = k], pc)
              /\ SameFile(x, [x EXCEPT !.pc = pc, !.polls = k], pc)
              /\ SameFile(x, [x EXCEPT !.polls = k, !.pc = pc], pc)
  <1>1. SameFile(x, [x EXCEPT !.pc = pc], pc)
    BY Zenon DEF SameFile, Started
  <1>2. ASSUME NEW entries \in SUBSET Accounts
        PROVE  SameFile(x, [x EXCEPT !.pc = pc, !.entries = entries], pc)
    BY Zenon DEF SameFile, Started
  <1>3. ASSUME NEW n \in Nat
        PROVE  SameFile(x, [x EXCEPT !.pc = pc, !.validUntil = n], pc)
    BY Zenon DEF SameFile, Started
  <1>4. ASSUME NEW k \in 0..MaxPolls
        PROVE  /\ x.pc = pc => SameFile(x, [x EXCEPT !.polls = k], pc)
               /\ SameFile(x, [x EXCEPT !.pc = pc, !.polls = k], pc)
               /\ SameFile(x, [x EXCEPT !.polls = k, !.pc = pc], pc)
    <2>1. x.pc = pc => SameFile(x, [x EXCEPT !.polls = k], pc)
      BY Zenon DEF SameFile, Started
    <2>2. SameFile(x, [x EXCEPT !.pc = pc, !.polls = k], pc)
      BY Zenon DEF SameFile, Started
    <2>3. SameFile(x, [x EXCEPT !.polls = k, !.pc = pc], pc)
      BY Zenon DEF SameFile, Started
    <2> QED BY <2>1, <2>2, <2>3
  <1> QED BY <1>1, <1>2, <1>3, <1>4, Zenon

\* An update of run r's record that keeps its transaction advances the run.
LEMMA UpdateAdvances ==
  ASSUME ScriptTypeOK, NEW r \in Runs, Used(r), NEW rec, NEW pc, NEW sent,
         SameFile(run[r], rec, pc),
         run' = [run EXCEPT ![r] = rec],
         tx' = [tx EXCEPT ![r] = sent],
         sent = tx[r] \/ (tx[r] = "none" /\ sent = "pool"),
         sent # "none" => pc \in {"poll", "exit 0", "exit 4", "exit 5"},
         pc = "exit 0" => sent = "success",
         UNCHANGED <<vars, sequence>>
  PROVE  \E s, t : Advances(r, s, t)
  <1>1. Advances(r, rec, sent)
    BY DEF Advances, SameFile
  <1> QED BY <1>1

\* Every step of a run advances it.
LEMMA ScriptAdvances ==
  ASSUME TypeOK, ScriptTypeOK, NEW r \in Runs, Script(r)
  PROVE  \E s, t : Advances(r, s, t)
  <1>0. Used(r) /\ run[r] \in Started
    BY UsedRuns DEF Script, Simulate, Authorize, Send, Poll
  <1>1. tx' = tx => tx' = [tx EXCEPT ![r] = tx[r]]
    BY DEF ScriptTypeOK
  <1>2. tx[r] # "none" => run[r].pc \in {"poll", "exit 0", "exit 4", "exit 5"}
    BY DEF ScriptTypeOK
  <1>p. /\ "authorize" \in Positions /\ "send" \in Positions /\ "poll" \in Positions
        /\ "exit 4" \in Positions /\ "exit 5" \in Positions
    BY DEF Positions, Exits
  <1>3. ASSUME NEW code \in Exits, Exit(r, code), tx' = tx, UNCHANGED <<vars, sequence>>,
               tx[r] # "none" => code \in {"exit 0", "exit 4", "exit 5"},
               code = "exit 0" => tx[r] = "success"
        PROVE  \E s, t : Advances(r, s, t)
    <2> DEFINE rec == [run[r] EXCEPT !.pc = code, !.polls = 0]
    <2>1. run' = [run EXCEPT ![r] = rec]
      BY <1>3, Zenon DEF Exit
    <2>2. SameFile(run[r], rec, code)
      <3>1. code \in Positions /\ 0 \in 0..MaxPolls
        BY ScriptAssumption DEF Positions
      <3> QED BY <1>0, <3>1, Updates, Zenon
    <2> HIDE DEF rec
    <2> QED BY <1>0, <1>1, <1>3, <2>1, <2>2, UpdateAdvances
  <1>4. CASE Simulate(r)
    <2>1. ASSUME run' = [run EXCEPT ![r].pc = "authorize", ![r].entries = LegHolders]
          PROVE  \E s, t : Advances(r, s, t)
      <3> DEFINE rec == [run[r] EXCEPT !.pc = "authorize", !.entries = LegHolders]
      <3>1. run' = [run EXCEPT ![r] = rec]
        BY <2>1, Zenon
      <3>2. LegHolders \in SUBSET Accounts
        <4>1. \A i \in DOMAIN reserveLegs : reserveLegs[i] \in ReserveLeg
          BY DEF TypeOK
        <4>2. \A i \in DOMAIN reserveLegs : reserveLegs[i].holder \in Accounts
          BY <4>1 DEF ReserveLeg
        <4> QED BY <4>2 DEF LegHolders
      <3>3. SameFile(run[r], rec, "authorize")
        BY <1>0, <3>2, <1>p, Updates, Zenon
      <3> HIDE DEF rec
      <3> QED BY <1>0, <1>1, <1>2, <1>4, <3>1, <3>3, UpdateAdvances DEF Simulate
    <2> QED BY <1>2, <1>3, <1>4, <2>1 DEF Simulate, Exits
  <1>5. CASE Authorize(r)
    <2>1. ASSUME run' = [run EXCEPT ![r].pc = "send", ![r].validUntil = ledger + AuthTtl]
          PROVE  \E s, t : Advances(r, s, t)
      <3> DEFINE rec == [run[r] EXCEPT !.pc = "send", !.validUntil = ledger + AuthTtl]
      <3>1. run' = [run EXCEPT ![r] = rec]
        BY <2>1, Zenon
      <3>2. ledger + AuthTtl \in Nat
        BY ScriptAssumption, WidthAssumption DEF TypeOK, Ledgers
      <3>3. SameFile(run[r], rec, "send")
        BY <1>0, <3>2, <1>p, Updates, Zenon
      <3> HIDE DEF rec
      <3> QED BY <1>0, <1>1, <1>2, <1>5, <3>1, <3>3, UpdateAdvances DEF Authorize
    <2> QED BY <1>2, <1>3, <1>5, <2>1 DEF Authorize, Exits
  <1>6. CASE Send(r)
    <2>1. tx[r] = "none"
      BY <1>2, <1>6 DEF Send, ScriptTypeOK
    <2>2. CASE GoTo(r, "poll") /\ tx' = [tx EXCEPT ![r] = "pool"]
      <3> DEFINE rec == [run[r] EXCEPT !.pc = "poll"]
      <3>1. run' = [run EXCEPT ![r] = rec]
        BY <2>2, Zenon DEF GoTo
      <3>2. SameFile(run[r], rec, "poll")
        BY <1>0, <1>p, Updates, Zenon
      <3> HIDE DEF rec
      <3> QED BY <1>0, <1>6, <2>1, <2>2, <3>1, <3>2, UpdateAdvances DEF Send
    <2>3. CASE Exit(r, "exit 5") /\ tx' = [tx EXCEPT ![r] = "pool"]
      <3> DEFINE rec == [run[r] EXCEPT !.pc = "exit 5", !.polls = 0]
      <3>1. run' = [run EXCEPT ![r] = rec]
        BY <2>3, Zenon DEF Exit
      <3>2. 0 \in 0..MaxPolls
        BY ScriptAssumption
      <3>3. SameFile(run[r], rec, "exit 5")
        BY <1>0, <3>2, <1>p, Updates, Zenon
      <3> HIDE DEF rec
      <3> QED BY <1>0, <1>6, <2>1, <2>3, <3>1, <3>3, UpdateAdvances DEF Send
    <2> QED BY <1>3, <1>6, <2>1, <2>2, <2>3 DEF Send, Exits
  <1>7. CASE Poll(r)
    <2>1. CASE NotFound(r) /\ run[r].polls < MaxPolls
      <3> DEFINE rec == [run[r] EXCEPT !.polls = run[r].polls + 1]
      <3>1. run' = [run EXCEPT ![r] = rec]
        BY <2>1, Zenon DEF NotFound
      <3>2. run[r].polls + 1 \in 0..MaxPolls
        BY <1>0, <2>1, ScriptAssumption DEF Started
      <3>3. run[r].pc = "poll"
        BY <1>7 DEF Poll
      <3>4. SameFile(run[r], rec, "poll")
        BY <1>0, <1>p, <3>2, <3>3, Updates, Zenon
      <3> HIDE DEF rec
      <3> QED BY <1>0, <1>1, <1>7, <3>1, <3>4, UpdateAdvances DEF Poll
    <2>2. CASE NotFound(r) /\ ~(run[r].polls < MaxPolls)
      <3> DEFINE rec == [run[r] EXCEPT !.polls = 0, !.pc = "exit 4"]
      <3>1. run' = [run EXCEPT ![r] = rec]
        BY <2>2, Zenon DEF NotFound
      <3>2. 0 \in 0..MaxPolls
        BY ScriptAssumption
      <3>3. SameFile(run[r], rec, "exit 4")
        BY <1>0, <3>2, <1>p, Updates, Zenon
      <3> HIDE DEF rec
      <3> QED BY <1>0, <1>1, <1>7, <3>1, <3>3, UpdateAdvances DEF Poll
    <2> QED BY <1>3, <1>7, <2>1, <2>2 DEF Poll, Found, Exits
  <1> QED BY <1>4, <1>5, <1>6, <1>7 DEF Script

\* The network's steps settle a transaction.
LEMMA NetworkSettles ==
  ASSUME TypeOK, ScriptTypeOK, NEW r \in Runs
  PROVE  /\ Apply(r) => Settles(r, "success")
         /\ ApplyFails(r) => Settles(r, "failed") /\ events' = events
         /\ Drop(r) => Settles(r, "dropped") /\ events' = events
  <1>1. tx[r] = "pool" => Used(r)
    BY UsedRuns DEF ScriptTypeOK
  <1>2. ASSUME Apply(r)
        PROVE  Published(events', run[r].signals)
    <2> DEFINE s == run[r].signals
               event == [topic |-> "multi", epoch |-> epoch, root |-> s.root,
                         circuit_epoch |-> None]
    <2>1. events' = Append(events, event)
      BY <1>2 DEF Apply, SubmitMultiAttestation, Store
    <2>2. events \in Seq(Event)
      BY DEF TypeOK
    <2>3. Len(events) + 1 \in DOMAIN events' /\ events'[Len(events) + 1] = event
      BY <2>1, <2>2
    <2> QED BY <2>3 DEF Published
  <1>3. Apply(r) => Settles(r, "success")
    BY <1>1, <1>2 DEF Apply, Applicable, Settles
  <1>4. ApplyFails(r) => Settles(r, "failed") /\ events' = events
    BY <1>1 DEF ApplyFails, Applicable, Settles, vars, attestationVars
  <1>5. Drop(r) => Settles(r, "dropped") /\ events' = events
    BY <1>1 DEF Drop, Settles, vars, attestationVars
  <1> QED BY <1>3, <1>4, <1>5

\* What was published stays published.
LEMMA PublishedStays ==
  ASSUME TypeOK, [Next]_vars, NEW s, Published(events, s)
  PROVE  Published(events', s)
  <1>1. CASE UNCHANGED attestationVars
    BY <1>1 DEF attestationVars
  <1>2. CASE \E root \in RootWords, topic \in Topics, e \in Nat \cup {None} :
               Recorded(root, topic, e)
    <2>1. PICK event : events' = Append(events, event)
      BY <1>2 DEF Recorded
    <2>2. events \in Seq(Event)
      BY DEF TypeOK
    <2>3. \A i \in DOMAIN events : i \in DOMAIN events' /\ events'[i] = events[i]
      BY <2>1, <2>2
    <2> QED BY <2>3 DEF Published
  <1> QED BY <1>1, <1>2, StepRecords

----------------------------------------------------------------------------
(***************************************************************************)
(* The invariant of the script and its network.                            *)
(***************************************************************************)

\* No run has started, no transaction exists.
LEMMA ScriptInit_Inv == ScriptInit => ScriptInv
  <1> SUFFICES ASSUME ScriptInit PROVE ScriptInv
    OBVIOUS
  <1>1. \A r \in Runs : run[r] = Unused /\ run[r].pc = "unused" /\ tx[r] = "none"
    BY DEF ScriptInit, Unused
  <1>2. run \in [Runs -> Run] /\ tx \in [Runs -> {"none"}] /\ sequence \in Nat
    BY DEF ScriptInit, Run
  <1> QED BY <1>1, <1>2 DEF ScriptInv, ScriptTypeOK, FileInv, SeqInv, ResultInv, Used, Applied

\* A run that begins keeps the invariant, if its file has no other sequence number.
LEMMA BeginKeeps ==
  ASSUME TypeOK, ScriptInv, NEW r \in Runs, NEW f \in 1..r, NEW s \in ProvedSignals,
         NEW seq \in Nat, NextRun(r), Begins(r, f, s, seq), UNCHANGED <<vars, tx, sequence>>,
         \A q \in Runs : Used(q) /\ run[q].file = f => run[q].seq = seq
  PROVE  ScriptInv'
  <1> DEFINE rec == [pc |-> "simulate", file |-> f, signals |-> s, seq |-> seq,
                     deadline |-> ledger + TxTtl, entries |-> {}, validUntil |-> 0,
                     polls |-> 0]
  <1>1. /\ run' = [run EXCEPT ![r] = rec]
        /\ rec.pc = "simulate" /\ rec.file = f /\ rec.seq = seq
    BY DEF Begins
  <1>2. rec \in Started /\ rec # Unused
    <2>1. ledger + TxTtl \in Nat
      BY ScriptAssumption, WidthAssumption DEF TypeOK, Ledgers
    <2>2. f \in Runs
      BY ScriptAssumption DEF Runs
    <2> QED BY <2>1, <2>2, ScriptAssumption DEF Started, Positions, Unused
  <1> HIDE DEF rec
  <1>3. ~Used(r) /\ tx[r] = "none" /\ \A q \in 1..(r - 1) : Used(q)
    <2>1. run[r].pc = "unused"
      BY DEF NextRun, Unused
    <2>2. tx[r] = "none"
      BY <2>1 DEF ScriptInv, ScriptTypeOK
    <2> QED BY <2>2 DEF NextRun, Used
  <1>4. \A q \in Runs : q # r => run'[q] = run[q]
    BY <1>1 DEF ScriptInv, ScriptTypeOK
  <1>5. run'[r] = rec
    BY <1>1 DEF ScriptInv, ScriptTypeOK
  <1>6. ScriptTypeOK'
    <2>1. run' \in [Runs -> Run]
      BY <1>1, <1>2 DEF ScriptInv, ScriptTypeOK, Run, Started, Positions
    <2> QED BY <1>3, <1>4, <2>1 DEF ScriptInv, ScriptTypeOK
  <1>7. FileInv'
    <2>1. \A q \in Runs : Used(q)' <=> q = r \/ Used(q)
      BY <1>2, <1>4, <1>5 DEF Used
    <2>2. \A q \in Runs : (Used(q) => run[q].file <= q /\ \A p \in 1..q : Used(p))
      BY DEF ScriptInv, FileInv
    <2>3. \A q \in Runs : 1..q \subseteq Runs
      BY ScriptAssumption DEF Runs
    <2>4. ASSUME NEW q \in Runs, Used(q)'
          PROVE  run'[q].file <= q /\ \A p \in 1..q : Used(p)'
      BY <1>1, <1>3, <1>4, <1>5, <2>1, <2>2, <2>3, <2>4 DEF Runs
    <2>5. ASSUME NEW p \in Runs, NEW q \in Runs, Used(p)', Used(q)',
                 run'[p].file = run'[q].file
          PROVE  run'[p].seq = run'[q].seq
      BY <1>1, <1>4, <1>5, <2>1, <2>5 DEF ScriptInv, FileInv
    <2> QED BY <2>4, <2>5 DEF FileInv
  <1>8. SeqInv'
    BY <1>3, <1>4 DEF ScriptInv, SeqInv, Applied
  <1>9. ResultInv'
    <2>1. UNCHANGED <<tx, events>>
      BY DEF vars, attestationVars
    <2>2. ASSUME NEW q \in Runs, tx[q] = "success"
          PROVE  Published(events, run'[q].signals)
      BY <1>3, <1>4, <2>2 DEF ScriptInv, ResultInv
    <2>3. ASSUME NEW q \in Runs, run'[q].pc = "exit 0"
          PROVE  tx[q] = "success"
      BY <1>1, <1>4, <1>5, <2>3 DEF ScriptInv, ResultInv
    <2> QED BY <2>1, <2>2, <2>3 DEF ResultInv
  <1> QED BY <1>6, <1>7, <1>8, <1>9 DEF ScriptInv

\* A run that goes on with its transaction keeps the invariant.
LEMMA AdvanceKeeps ==
  ASSUME ScriptInv, NEW r \in Runs, NEW rec, NEW sent, Advances(r, rec, sent)
  PROVE  ScriptInv'
  <1>1. /\ run'[r] = rec /\ \A q \in Runs : q # r => run'[q] = run[q]
        /\ tx'[r] = sent /\ \A q \in Runs : q # r => tx'[q] = tx[q]
    BY DEF Advances, ScriptInv, ScriptTypeOK
  <1>2. rec # Unused
    <2>1. rec.pc \in Positions
      BY DEF Advances, Started
    <2>2. rec.pc # "unused"
      BY <2>1 DEF Positions, Exits
    <2> QED BY <2>2 DEF Unused
  <1>3. \A q \in Runs : /\ Used(q)' <=> Used(q)
                        /\ Used(q) => /\ run'[q].file = run[q].file
                                      /\ run'[q].seq = run[q].seq
                                      /\ run'[q].signals = run[q].signals
    BY <1>1, <1>2 DEF Advances, Used
  <1>4. \A q \in Runs : Applied(q)' <=> Applied(q)
    BY <1>1 DEF Advances, Applied
  <1>5. \A q \in Runs : Applied(q) => Used(q)
    BY UsedRuns DEF Applied, ScriptInv, ScriptTypeOK
  <1>6. ScriptTypeOK'
    <2>1. run' \in [Runs -> Run]
      BY DEF Advances, ScriptInv, ScriptTypeOK, Run, Started, Positions
    <2>2. tx' \in [Runs -> {"none", "pool", "success", "failed", "dropped"}]
      BY DEF Advances, ScriptInv, ScriptTypeOK
    <2>3. \A q \in Runs : tx'[q] # "none" => run'[q].pc \in {"poll", "exit 0", "exit 4", "exit 5"}
      BY <1>1 DEF Advances, ScriptInv, ScriptTypeOK
    <2> QED BY <2>1, <2>2, <2>3 DEF Advances, ScriptInv, ScriptTypeOK
  <1>7. FileInv'
    <2>1. \A q \in Runs : 1..q \subseteq Runs
      BY ScriptAssumption DEF Runs
    <2> QED BY <1>3, <2>1 DEF ScriptInv, FileInv
  <1>8. SeqInv'
    <2>1. \A q \in Runs : Applied(q)' => Applied(q) /\ run'[q].seq = run[q].seq
      BY <1>3, <1>4, <1>5
    <2>2. sequence' = sequence
      BY DEF Advances
    <2>3. /\ \A q \in Runs : Applied(q) => run[q].seq <= sequence
          /\ \A p, q \in Runs : p # q /\ Applied(p) /\ Applied(q) => run[p].seq # run[q].seq
      BY DEF ScriptInv, SeqInv
    <2>4. \A q \in Runs : Applied(q)' => run'[q].seq <= sequence'
      BY <2>1, <2>2, <2>3
    <2>5. \A p, q \in Runs :
            p # q /\ Applied(p)' /\ Applied(q)' => run'[p].seq # run'[q].seq
      BY <2>1, <2>3
    <2> QED BY <2>4, <2>5 DEF SeqInv
  <1>9. ResultInv'
    <2>1. UNCHANGED events
      BY DEF Advances, vars, attestationVars
    <2>2. ASSUME NEW q \in Runs, tx'[q] = "success"
          PROVE  Published(events, run'[q].signals)
      <3>1. tx[q] = "success"
        BY <1>1, <2>2 DEF Advances
      <3>2. run'[q].signals = run[q].signals
        BY <1>3, <1>5, <3>1 DEF Applied
      <3> QED BY <3>1, <3>2 DEF ScriptInv, ResultInv
    <2>3. ASSUME NEW q \in Runs, run'[q].pc = "exit 0"
          PROVE  tx'[q] = "success"
      BY <1>1, <2>3 DEF Advances, ScriptInv, ResultInv
    <2> QED BY <2>1, <2>2, <2>3 DEF ResultInv
  <1> QED BY <1>6, <1>7, <1>8, <1>9 DEF ScriptInv

\* The network's answer keeps the invariant: an applied transaction takes the
\* next sequence number, which none before it had.
LEMMA SettleKeeps ==
  ASSUME TypeOK, ScriptInv, [Next]_vars,
         NEW r \in Runs, NEW outcome, Settles(r, outcome)
  PROVE  ScriptInv'
  <1>1. /\ tx'[r] = outcome /\ \A q \in Runs : q # r => tx'[q] = tx[q]
        /\ run' = run
    BY DEF Settles, ScriptInv, ScriptTypeOK
  <1>2. sequence \in Nat /\ sequence' \in Nat /\ sequence <= sequence'
    <2>1. sequence \in Nat
      BY DEF ScriptInv, ScriptTypeOK
    <2>2. sequence' = sequence \/ sequence' = sequence + 1
      BY DEF Settles
    <2> QED BY <2>1, <2>2
  <1>3. ScriptTypeOK'
    <2>1. tx' \in [Runs -> {"none", "pool", "success", "failed", "dropped"}]
      BY DEF Settles, ScriptInv, ScriptTypeOK
    <2>2. run[r].pc \in {"poll", "exit 0", "exit 4", "exit 5"}
      BY DEF Settles, ScriptInv, ScriptTypeOK
    <2> QED BY <1>1, <1>2, <2>1, <2>2 DEF ScriptInv, ScriptTypeOK
  <1>4. FileInv'
    BY <1>1 DEF ScriptInv, FileInv, Used
  <1>5. SeqInv'
    <2>1. \A q \in Runs : Applied(q) => Used(q) /\ run[q].seq \in Nat /\ run[q].seq <= sequence
      <3>1. \A q \in Runs : Applied(q) => Used(q)
        BY UsedRuns DEF Applied, ScriptInv, ScriptTypeOK
      <3>2. \A q \in Runs : Used(q) => run[q].seq \in Nat
        BY UsedRuns DEF ScriptInv, Started
      <3> QED BY <3>1, <3>2 DEF ScriptInv, SeqInv
    <2>2. \A q \in Runs : q # r => (Applied(q)' <=> Applied(q))
      BY <1>1 DEF Applied
    <2>3. CASE outcome = "dropped"
      <3>1. ~Applied(r)'
        BY <1>1, <2>3 DEF Applied
      <3> QED BY <1>1, <2>1, <2>2, <2>3, <3>1 DEF ScriptInv, SeqInv, Settles
    <2>4. CASE outcome # "dropped"
      <3>1. run[r].seq = sequence + 1 /\ sequence' = sequence + 1
        BY <2>4 DEF Settles
      <3> QED BY <1>1, <1>2, <2>1, <2>2, <3>1 DEF ScriptInv, SeqInv
    <2> QED BY <2>3, <2>4
  <1>6. ResultInv'
    <2>1. ASSUME NEW q \in Runs, tx'[q] = "success"
          PROVE  Published(events', run[q].signals)
      <3>1. CASE q = r
        BY <1>1, <2>1, <3>1 DEF Settles
      <3>2. CASE q # r
        <4>1. Published(events, run[q].signals)
          BY <1>1, <2>1, <3>2 DEF ScriptInv, ResultInv
        <4> QED BY <4>1, PublishedStays
      <3> QED BY <3>1, <3>2
    <2>2. ASSUME NEW q \in Runs, run[q].pc = "exit 0"
          PROVE  tx'[q] = "success"
      BY <1>1, <2>2 DEF ScriptInv, ResultInv, Settles
    <2> QED BY <1>1, <2>1, <2>2 DEF ResultInv
  <1> QED BY <1>3, <1>4, <1>5, <1>6 DEF ScriptInv

\* Every step of the script, the network and the others keeps the invariant.
LEMMA ScriptStep ==
  ASSUME TypeOK, ScriptInv, [ScriptNext]_allVars
  PROVE  ScriptInv'
  <1>0. ScriptTypeOK /\ [Next]_vars
    BY ScriptStepIsLedgerStep DEF ScriptInv
  <1>1. CASE UNCHANGED allVars
    BY <1>1 DEF allVars, scriptVars, vars, attestationVars, ScriptInv, ScriptTypeOK, FileInv,
                SeqInv, ResultInv, Used, Applied, Published
  <1>2. ASSUME NEW r \in Runs, NEW s \in ProvedSignals, StartBuilt(r, s)
        PROVE  ScriptInv'
    <2>0. r \in 1..r
      BY ScriptAssumption DEF Runs
    <2>1. sequence + 1 \in Nat
      <3>1. sequence \in Nat
        BY <1>0 DEF ScriptTypeOK
      <3> QED BY <3>1
    <2>2. \A q \in Runs : Used(q) => run[q].file # r
      <3>1. ASSUME NEW q \in Runs, Used(q), run[q].file = r
            PROVE  FALSE
        <4>1. r <= q /\ \A p \in 1..q : Used(p)
          BY <3>1 DEF ScriptInv, FileInv
        <4>2. r \in 1..q
          BY <4>1 DEF Runs
        <4> QED BY <1>2, <4>1, <4>2 DEF StartBuilt, NextRun, Used
      <3> QED BY <3>1
    <2> QED BY <1>2, <2>0, <2>1, <2>2, BeginKeeps DEF StartBuilt
  <1>3. ASSUME NEW r \in Runs, NEW q \in Runs, StartAgain(r, q)
        PROVE  ScriptInv'
    <2>1. Used(q)
      BY <1>3 DEF StartAgain, NextRun, Used, Runs
    <2>2. run[q] \in Started /\ run[q].file <= q
      BY <1>0, <2>1, UsedRuns DEF ScriptInv, FileInv
    <2>3. run[q].file \in 1..r
      BY <1>3, <2>2 DEF StartAgain, Started, Runs
    <2>4. \A p \in Runs : Used(p) /\ run[p].file = run[q].file => run[p].seq = run[q].seq
      BY <2>1 DEF ScriptInv, FileInv
    <2> QED BY <1>3, <2>2, <2>3, <2>4, BeginKeeps DEF StartAgain, KeptSequence, Started
  <1>4. ASSUME NEW r \in Runs, Script(r)
        PROVE  ScriptInv'
    BY <1>0, <1>4, ScriptAdvances, AdvanceKeeps
  <1>5. ASSUME NEW r \in Runs, Apply(r) \/ ApplyFails(r) \/ Drop(r)
        PROVE  ScriptInv'
    BY <1>0, <1>5, NetworkSettles, SettleKeeps
  <1>6. CASE OtherTransaction \/ Elsewhere
    <2>1. run' = run /\ tx' = tx
      BY <1>6 DEF OtherTransaction, Elsewhere, scriptVars
    <2>2. sequence' = sequence \/ sequence' = sequence + 1
      BY <1>6 DEF OtherTransaction, Elsewhere, scriptVars
    <2>3. sequence \in Nat
      BY <1>0 DEF ScriptTypeOK
    <2>4. ScriptTypeOK' /\ FileInv'
      <3>1. sequence' \in Nat
        BY <2>2, <2>3
      <3>2. ScriptTypeOK'
        BY <1>0, <2>1, <3>1 DEF ScriptTypeOK
      <3>3. FileInv'
        BY <2>1 DEF ScriptInv, FileInv, Used
      <3> QED BY <3>2, <3>3
    <2>5. SeqInv'
      <3>1. \A q \in Runs : Applied(q) => run[q].seq \in Nat /\ run[q].seq <= sequence
        <4>1. \A q \in Runs : Applied(q) => Used(q)
          BY <1>0, UsedRuns DEF Applied, ScriptTypeOK
        <4>2. \A q \in Runs : Used(q) => run[q].seq \in Nat
          BY <1>0, UsedRuns DEF Started
        <4> QED BY <4>1, <4>2 DEF ScriptInv, SeqInv
      <3>2. \A q \in Runs : Applied(q)' <=> Applied(q)
        BY <2>1 DEF Applied
      <3>3. \A q \in Runs : Applied(q)' => run'[q].seq <= sequence'
        BY <2>1, <2>2, <2>3, <3>1, <3>2
      <3> QED BY <2>1, <3>2, <3>3 DEF ScriptInv, SeqInv
    <2>6. ResultInv'
      <3>1. \A q \in Runs : tx[q] = "success" => Published(events', run[q].signals)
        BY <1>0, PublishedStays DEF ScriptInv, ResultInv
      <3> QED BY <2>1, <3>1 DEF ScriptInv, ResultInv
    <2> QED BY <2>4, <2>5, <2>6 DEF ScriptInv
  <1> QED BY <1>1, <1>2, <1>3, <1>4, <1>5, <1>6 DEF ScriptNext

----------------------------------------------------------------------------
(***************************************************************************)
(* The theorems.                                                           *)
(***************************************************************************)

\* The inductive invariant, with the contract's types.
LEMMA ScriptInvariance == ScriptSpec => [](TypeOK /\ ScriptInv)
  <1>1. ScriptInit => TypeOK /\ ScriptInv
    BY InitTypes, ScriptInit_Inv DEF ScriptInit
  <1>2. TypeOK /\ ScriptInv /\ [ScriptNext]_allVars => (TypeOK /\ ScriptInv)'
    <2> SUFFICES ASSUME TypeOK, ScriptInv, [ScriptNext]_allVars
                 PROVE  TypeOK' /\ ScriptInv'
      OBVIOUS
    <2>1. [Next]_vars
      BY ScriptStepIsLedgerStep DEF ScriptInv
    <2> QED BY <2>1, TypeStep, ScriptStep
  <1> QED BY <1>1, <1>2, PTL DEF ScriptSpec

\* Whatever the script and the network do to it, the contract under them is the
\* contract of TesseraLedger: every theorem about Spec holds here too.
THEOREM ScriptRunsTheContract == ScriptSpec => Spec
  <1>1. ScriptInit => Init
    BY DEF ScriptInit
  <1>2. ScriptInv /\ [ScriptNext]_allVars => [Next]_vars
    BY ScriptStepIsLedgerStep DEF ScriptInv
  <1> QED BY <1>1, <1>2, ScriptInvariance, PTL DEF ScriptSpec, Spec

\* ScriptTypeOK, for any number of runs and polls.
THEOREM ScriptTypes == ScriptSpec => []ScriptTypeOK
  <1>1. ScriptInv => ScriptTypeOK
    BY DEF ScriptInv
  <1> QED BY <1>1, ScriptInvariance, PTL

\* ExitsAreTrue, for any number of runs and polls: exit 0 is said only of a root
\* the contract attested by this run's transaction, 2 and 3 only by a run that put
\* nothing into the network itself.
THEOREM ExitCodesAreTrue == ScriptSpec => []ExitsAreTrue
  <1>1. ScriptInv => ExitsAreTrue
    <2> SUFFICES ASSUME ScriptInv, NEW r \in Runs
                 PROVE  /\ run[r].pc = "exit 0" =>
                             tx[r] = "success" /\ Published(events, run[r].signals)
                        /\ run[r].pc \in {"exit 2", "exit 3"} => tx[r] = "none"
      BY DEF ExitsAreTrue, Published
    <2> QED BY DEF ScriptInv, ScriptTypeOK, ResultInv
  <1> QED BY <1>1, ScriptInvariance, PTL

\* OneTransactionPerFile, for any number of runs: a file keeps its sequence
\* number, and the account uses each number once.
THEOREM FileAppliedOnce == ScriptSpec => []OneTransactionPerFile
  <1>1. ScriptInv => OneTransactionPerFile
    BY DEF ScriptInv, FileInv, SeqInv, OneTransactionPerFile, Used, Applied
  <1> QED BY <1>1, ScriptInvariance, PTL

=============================================================================
