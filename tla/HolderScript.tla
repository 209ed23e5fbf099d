---------------------------- MODULE HolderScript -----------------------------
(***************************************************************************)
(* The operator's way to a multi-holder attestation,                       *)
(* scripts/two_signer_submit.js: it loads an unsigned transaction from a   *)
(* file, simulates it, signs one entry per leg holder with the local keys, *)
(* sends it and polls for its result.                                      *)
(*                                                                         *)
(* The same file can be submitted again after a run that ended without a   *)
(* clear answer, and the legs may change between the simulation and the    *)
(* ledger that applies the transaction.  Signers are here all the accounts *)
(* that ever sign; who signed a transaction is in its entries.             *)
(***************************************************************************)
EXTENDS TesseraLedger

CONSTANTS
  MaxRuns,       \* bound on the runs of the script
  ProvedSignals, \* the signals of the proofs the files carry
  MaxPolls,      \* polls after the first one (30)
  TxTtl,         \* setTimeout(300), in ledgers
  AuthTtl,       \* the 60 ledgers an entry's signature stays valid
  MaxSequence    \* bound on the source account's sequence number

Runs == 1..MaxRuns

ASSUME ScriptAssumption ==
  /\ MaxRuns \in Nat
  /\ ProvedSignals \subseteq BaseSignals
  /\ MaxPolls \in Nat
  /\ TxTtl \in Nat /\ AuthTtl \in Nat
  /\ MaxSequence \in Nat

VARIABLES
  run,        \* of each run of the script: where it stands, its transaction
  tx,         \* of each run: what the network made of its transaction
  sequence    \* the source account's sequence number

scriptVars == <<run, tx, sequence>>
allVars == <<vars, scriptVars>>

Exits == {"exit 0", "exit 2", "exit 3", "exit 4", "exit 5"}
Unused == [pc |-> "unused"]
Run ==
  [pc : {"simulate", "authorize", "send", "poll"} \cup Exits,
   file : Runs, signals : ProvedSignals, seq : Nat, deadline : Nat,
   entries : SUBSET Accounts, validUntil : Nat, polls : 0..MaxPolls]
       \cup {Unused}

GoTo(r, pc) == run' = [run EXCEPT ![r].pc = pc]

\* The script is over; what it sent keeps its signatures and its time bounds.
Exit(r, code) == run' = [run EXCEPT ![r].pc = code, ![r].polls = 0]
Ended(r) == run[r].pc \in Exits
LegHolders == {reserveLegs[i].holder : i \in DOMAIN reserveLegs}

----------------------------------------------------------------------------
(***************************************************************************)
(* Fault variants.                                                         *)
(***************************************************************************)
\* A transaction that was found is taken for a success.
FoundUnchecked(r) ==
  /\ tx[r] \in {"success", "failed"}
  /\ Exit(r, "exit 0")

\* The polling loop does not count.
PollUncounted(r) == run' = [run EXCEPT ![r].polls = (@ + 1) % (MaxPolls + 1)]

\* A file submitted again gets the sequence number the account has now.
FreshSequence(q) == sequence + 1

\* The script polls one time more than the constant says.
PollOnceMore(r) ==
  IF run[r].polls <= MaxPolls
  THEN run' = [run EXCEPT ![r].polls = @ + 1]
  ELSE run' = [run EXCEPT ![r].polls = 0, ![r].pc = "exit 4"]

----------------------------------------------------------------------------
(***************************************************************************)
(* The script.                                                             *)
(***************************************************************************)

\* The runs are numbered in the order they start.
NextRun(r) == run[r] = Unused /\ \A q \in 1..(r - 1) : run[q] # Unused

Begins(r, file, s, seq) ==
  run' = [run EXCEPT ![r] =
            [pc |-> "simulate", file |-> file, signals |-> s, seq |-> seq,
             deadline |-> ledger + TxTtl, entries |-> {}, validUntil |-> 0, polls |-> 0]]

\* A file just built with --build-only.
StartBuilt(r, s) ==
  /\ NextRun(r)
  /\ Begins(r, r, s, sequence + 1)
  /\ UNCHANGED <<vars, tx, sequence>>

\* cloneFrom keeps the sequence number of the file of run q.
KeptSequence(q) == run[q].seq

\* The file of an earlier run, once more.
StartAgain(r, q) ==
  /\ NextRun(r)
  /\ q < r
  /\ Begins(r, run[q].file, run[q].signals, KeptSequence(q))
  /\ UNCHANGED <<vars, tx, sequence>>

\* The simulation records an entry for every holder whose authorization the
\* call asks for; it may have read an older ledger and fails for any reason.  A
\* node that cannot be reached makes it throw.
Simulate(r) ==
  /\ run[r].pc = "simulate"
  /\ \/ /\ reserveLegs # <<>>
        /\ run' = [run EXCEPT ![r].pc = "authorize", ![r].entries = LegHolders]
     \/ Exit(r, "exit 2")
     \/ Exit(r, "exit 5")
  /\ UNCHANGED <<vars, tx, sequence>>

\* The ledger is read for the signatures' validity, then every entry is signed
\* with its holder's key; if SIGNERS names no key for one of them, or for the
\* source account, the script gives up.
Authorize(r) ==
  /\ run[r].pc = "authorize"
  /\ \/ run' = [run EXCEPT ![r].pc = "send", ![r].validUntil = ledger + AuthTtl]
     \/ Exit(r, "exit 5")
  /\ UNCHANGED <<vars, tx, sequence>>

\* Anything but PENDING is an error, with nothing put into the network by this run:
\* for a DUPLICATE it holds the identical transaction, which counts as the one of
\* the run that sent it.  An answer that is lost throws, with the transaction sent
\* or not.
Send(r) ==
  /\ run[r].pc = "send"
  /\ \/ GoTo(r, "poll") /\ tx' = [tx EXCEPT ![r] = "pool"]
     \/ Exit(r, "exit 3") /\ UNCHANGED tx
     \/ Exit(r, "exit 5") /\ UNCHANGED tx
     \/ Exit(r, "exit 5") /\ tx' = [tx EXCEPT ![r] = "pool"]
  /\ UNCHANGED <<vars, sequence>>

Found(r) ==
  \/ tx[r] = "success" /\ Exit(r, "exit 0")
  \/ tx[r] = "failed" /\ Exit(r, "exit 4")

\* NOT_FOUND, also of a transaction the node has not seen applied yet.
NotFound(r) ==
  IF run[r].polls < MaxPolls
  THEN run' = [run EXCEPT ![r].polls = @ + 1]
  ELSE run' = [run EXCEPT ![r].polls = 0, ![r].pc = "exit 4"]

Poll(r) ==
  /\ run[r].pc = "poll"
  /\ Found(r) \/ NotFound(r) \/ Exit(r, "exit 5")
  /\ UNCHANGED <<vars, tx, sequence>>

Script(r) == Simulate(r) \/ Authorize(r) \/ Send(r) \/ Poll(r)

----------------------------------------------------------------------------
(***************************************************************************)
(* The network.                                                            *)
(***************************************************************************)
Applicable(r) ==
  /\ tx[r] = "pool"
  /\ run[r].seq = sequence + 1
  /\ ledger <= run[r].deadline

\* The host finds a valid signature for every require_auth of the call.
Apply(r) ==
  /\ Applicable(r)
  /\ ledger <= run[r].validUntil
  /\ LegHolders \subseteq run[r].entries
  /\ SubmitMultiAttestation(run[r].signals)
  /\ tx' = [tx EXCEPT ![r] = "success"]
  /\ sequence' = sequence + 1
  /\ UNCHANGED run

\* A transaction may fail whatever the contract thinks of it: its footprint is
\* from the simulation, its signatures may be too old or too few.
ApplyFails(r) ==
  /\ Applicable(r)
  /\ tx' = [tx EXCEPT ![r] = "failed"]
  /\ sequence' = sequence + 1
  /\ UNCHANGED <<vars, run>>

Drop(r) ==
  /\ tx[r] = "pool"
  /\ tx' = [tx EXCEPT ![r] = "dropped"]
  /\ UNCHANGED <<vars, run, sequence>>

\* Another transaction of the source account; other accounts move the balances
\* and set the legs.
OtherTransaction ==
  /\ sequence < MaxSequence
  /\ sequence' = sequence + 1
  /\ UNCHANGED <<vars, run, tx>>

Elsewhere ==
  /\ \/ \E legs \in LegLists : SetReserveLegs(legs)
     \/ \E a \in Accounts, t \in Tokens, v \in Balances : Transfer(a, t, v)
     \/ CloseLedger
  /\ UNCHANGED scriptVars

----------------------------------------------------------------------------
ScriptInit ==
  /\ Init
  /\ run = [r \in Runs |-> Unused]
  /\ tx = [r \in Runs |-> "none"]
  /\ sequence = 0

ScriptNext ==
  \/ \E r \in Runs, s \in ProvedSignals : StartBuilt(r, s)
  \/ \E r, q \in Runs : StartAgain(r, q)
  \/ \E r \in Runs : Script(r) \/ Apply(r) \/ ApplyFails(r) \/ Drop(r)
  \/ OtherTransaction
  \/ Elsewhere

\* Each call the script awaits returns or throws.
ScriptSpec ==
  ScriptInit /\ [][ScriptNext]_allVars /\ \A r \in Runs : WF_allVars(Script(r))

----------------------------------------------------------------------------
(***************************************************************************)
(* Properties.                                                             *)
(***************************************************************************)

\* Types; a run has a transaction in the network only if it put it there.
ScriptTypeOK ==
  /\ run \in [Runs -> Run]
  /\ tx \in [Runs -> {"none", "pool", "success", "failed", "dropped"}]
  /\ sequence \in Nat
  /\ \A r \in Runs : tx[r] # "none" => run[r].pc \in {"poll", "exit 0", "exit 4", "exit 5"}

\* The exit code tells the truth about this run's own transaction: 0 only if
\* the contract attested its root by it, 2 and 3 only if this run put nothing into
\* the network (that an identical transaction is there already, a DUPLICATE, is
\* the affair of the run that sent it); 4 and 5 leave the question open.
ExitsAreTrue ==
  \A r \in Runs :
    /\ run[r].pc = "exit 0" =>
         /\ tx[r] = "success"
         /\ \E i \in DOMAIN events :
              events[i].topic = "multi" /\ events[i].root = run[r].signals.root
    /\ run[r].pc \in {"exit 2", "exit 3"} => tx[r] = "none"

\* However often a file is submitted again after a timeout or a lost answer,
\* the network applies at most one of its transactions.
OneTransactionPerFile ==
  \A r, q \in Runs :
    (r # q /\ run[r] # Unused /\ run[q] # Unused /\ run[r].file = run[q].file)
      => ~(tx[r] \in {"success", "failed"} /\ tx[q] \in {"success", "failed"})

\* Every run of the script ends, even if the network never answers.
EveryRunExits ==
  \A r \in Runs : run[r] # Unused ~> Ended(r)

=============================================================================
