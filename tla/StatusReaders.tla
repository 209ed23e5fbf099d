---------------------------- MODULE StatusReaders ----------------------------
(***************************************************************************)
(* Whoever reads the contract without a transaction: the public board, the *)
(* two badges, the status endpoint with its SDK and its freshness script,  *)
(* the membership page, and a member who checks the bulletin board.  Every *)
(* read is a simulation answered by some RPC node from a ledger it has     *)
(* closed, possibly a few behind the chain; one load makes several, each   *)
(* retried while the node only lags.                                       *)
(*                                                                         *)
(* Readers change nothing the chain or another reader sees, so one load at *)
(* a time stands for any number of them.  An answer is the number of the   *)
(* closed ledger it was read from, and what is shown is read off that      *)
(* ledger; the wall clock counts ticks and stamps each ledger.             *)
(***************************************************************************)
EXTENDS TesseraLedger

CONSTANTS
  MaxLag,          \* how many closed ledgers a node may be behind
  MaxTries,        \* tries of withRetry (6)
  LedgerTicks,     \* how long a ledger may take to close
  MaxAge,          \* --max-age-sec
  MaxAgeLedgers,   \* --max-age-ledgers
  ClockSkew,       \* the 300 s a timestamp may be ahead of the clock
  Failed           \* the outcome of a read that threw

ASSUME ReaderAssumption ==
  /\ MaxLag \in Nat
  /\ MaxTries \in Nat \ {0}
  /\ LedgerTicks \subseteq Nat \ {0}
  /\ MaxAge \in Nat /\ MaxAgeLedgers \in Nat /\ ClockSkew \in Nat
  /\ Failed \notin Nat \cup {None}

VARIABLES
  views,      \* what each closed ledger answers, oldest first
  stamps,     \* the timestamp of each ledger, the open one included
  clock,      \* the wall clock
  reader      \* the load in progress, or what the last one shows

readerVars == <<views, stamps, clock, reader>>
allVars == <<vars, readerVars>>

Kinds == {"board", "badge", "svg", "sdk", "script", "membership", "audit"}
Methods == {"get_attestation", "epoch_count", "live_reserve_balance",
            "verify_inclusion", "is_registered"}

\* What the contract's views answer at the end of a ledger.
Closing == [latest |-> latest, epochs |-> epoch, registry |-> registry,
            live |-> balance[ReserveHolder][ReserveToken]]

\* The contract as closed ledger n left it.
At(n) == INSTANCE TesseraLedger WITH
  latest <- views[n].latest, epoch <- views[n].epochs, registry <- views[n].registry

Answer(m) == reader.answer[m]
IsAnswered(m) == Answer(m) \notin {None, Failed}
IsOver(m) == Answer(m) # None
Att == views[Answer("get_attestation")].latest

\* The closed ledgers a node may answer from.
NodeLedgers == {n \in DOMAIN views : n + MaxLag >= Len(views)}

----------------------------------------------------------------------------
(***************************************************************************)
(* The reads: simulateRead inside withRetry.                               *)
(***************************************************************************)
Unread == [m \in Methods |-> None]
NoTries == [m \in Methods |-> 0]

\* A reader before its first load.
Blank == [kind |-> "board", shown |-> "nothing", awaits |-> {}, answer |-> Unread,
          tries |-> NoTries, start |-> 0, now |-> 0, current |-> None,
          root |-> 0, commitment |-> None]

\* (A fault variant: a refreshed page starts from the balance it showed.)
LoadOver(kind, calls, current, root, commitment) ==
  reader' = [kind |-> kind, shown |-> "loading", awaits |-> calls,
             answer |-> [Unread EXCEPT !["live_reserve_balance"] = Answer("live_reserve_balance")],
             tries |-> NoTries, start |-> Len(views), now |-> clock,
             current |-> current, root |-> root, commitment |-> commitment]

Load(kind, calls, current, root, commitment) ==
  reader' = [kind |-> kind, shown |-> "loading", awaits |-> calls, answer |-> Unread,
             tries |-> NoTries, start |-> Len(views), now |-> clock,
             current |-> current, root |-> root, commitment |-> commitment]

Ask(m) == reader' = [reader EXCEPT !.awaits = @ \cup {m}]

\* A promise settles: the handler sees an answer or an exception.
Settle(m, outcome) ==
  reader' = [reader EXCEPT !.awaits = @ \ {m}, !.answer[m] = outcome]

\* verify_inclusion panics before the first attestation.
NodeAnswers(m) ==
  \E n \in NodeLedgers :
    /\ m = "verify_inclusion" => views[n].latest # None
    /\ Settle(m, n)

\* (Fault variants: the retries are not counted, or counted once too often.)
RetryUncounted(m) == reader' = [reader EXCEPT !.tries[m] = (@ + 1) % MaxTries]
OneRetryMore(m) ==
  \/ /\ reader.tries[m] < MaxTries
     /\ reader' = [reader EXCEPT !.tries[m] = @ + 1]
  \/ /\ reader.tries[m] = MaxTries
     /\ Settle(m, Failed)

\* "not found" and its like are retried, every other error is thrown at once.
NodeLags(m) ==
  \/ /\ reader.tries[m] + 1 < MaxTries
     /\ reader' = [reader EXCEPT !.tries[m] = @ + 1]
  \/ /\ reader.tries[m] + 1 = MaxTries
     /\ Settle(m, Failed)

CallReturns(m) ==
  /\ m \in reader.awaits
  /\ NodeAnswers(m) \/ NodeLags(m) \/ Settle(m, Failed)

----------------------------------------------------------------------------
(***************************************************************************)
(* What each reader makes of its answers.                                  *)
(***************************************************************************)
\* Leftover calls of a load that is over reach nobody.
Show(what) == reader' = [reader EXCEPT !.shown = what, !.awaits = {}, !.tries = NoTries]

Healthy == Att.reserves >= Att.total

\* Then read the live balance; its failure is not fatal.
WithLiveBalance(what) ==
  \/ /\ "live_reserve_balance" \notin reader.awaits
     /\ ~IsOver("live_reserve_balance")
     /\ Ask("live_reserve_balance")
  \/ /\ IsOver("live_reserve_balance")
     /\ Show(what)

\* (A fault variant: a board that could not read shows that there is nothing.)
BoardSwallowsErrors ==
  \/ /\ \E m \in {"get_attestation", "epoch_count"} : Answer(m) = Failed
     /\ Show("empty")
  \/ /\ IsAnswered("get_attestation") /\ IsAnswered("epoch_count")
     /\ IF Att = None THEN Show("empty") ELSE WithLiveBalance("ok")

\* load(): two reads in parallel, of which one may be answered by a node that
\* is behind the other's; either failure shows the error.
Board ==
  \/ /\ \E m \in {"get_attestation", "epoch_count"} : Answer(m) = Failed
     /\ Show("error")
  \/ /\ IsAnswered("get_attestation") /\ IsAnswered("epoch_count")
     /\ IF Att = None THEN Show("empty") ELSE WithLiveBalance("ok")

\* The badge page reads the live balance even when nothing is attested.
Badge ==
  \/ Answer("get_attestation") = Failed /\ Show("error")
  \/ /\ IsAnswered("get_attestation")
     /\ WithLiveBalance(IF Att = None THEN "empty" ELSE IF Healthy THEN "healthy" ELSE "pending")

\* The SVG says pending whatever is missing.
Svg ==
  \/ Answer("get_attestation") = Failed /\ Show("pending")
  \/ /\ IsAnswered("get_attestation")
     /\ Show(IF Att # None /\ Healthy THEN "healthy" ELSE "pending")

\* GET /api/solvency: 500 without an attestation read, a bare status without an
\* attestation, else the payload the client judges.
Endpoint(ofError, ofNone, ofPayload) ==
  \/ Answer("get_attestation") = Failed /\ Show(ofError)
  \/ /\ IsAnswered("get_attestation")
     /\ IF Att = None THEN Show(ofNone) ELSE WithLiveBalance(ofPayload)

\* fetchStatus throws on a bare status; isFullyBacked asks for a healthy one.
Sdk == Endpoint("error", "BAD_STATUS", IF Att # None /\ Healthy THEN "fully backed" ELSE "not backed")

Stamp(att) == stamps[att.ledger + 1]

TimeStale(att) == reader.now - Stamp(att) > MaxAge
LedgerStale(att) == reader.current # None /\ reader.current - att.ledger > MaxAgeLedgers

\* (A fault variant: stale only if every clock says so.)
StaleOnEveryClock(att) ==
  TimeStale(att) /\ (reader.current # None => LedgerStale(att))
Stale(att) == TimeStale(att) \/ LedgerStale(att)

\* verdict(): an attestation from the future of a clock is an error, one that
\* is too old on any clock is stale, and the status field is not looked at.
Verdict(att) ==
  IF \/ Stamp(att) > reader.now + ClockSkew
     \/ reader.current # None /\ reader.current < att.ledger
  THEN "ERROR"
  ELSE IF Stale(att) THEN "STALE" ELSE "FRESH"

Script == Endpoint("ERROR", "ERROR", IF Att # None THEN Verdict(Att) ELSE "ERROR")

\* The leaves of a root, as an attestation counts them.
Counts(root, commitment) ==
  \E i \in DOMAIN Leaves(root) : Commitment(Leaf(root, i)) = commitment

\* run(): the proof is made from the set the browser keeps, attested or not,
\* and the contract is asked about it; no proof exists of another commitment.
Prove(root, commitment) ==
  IF Counts(root, commitment)
  THEN Load("membership", {"verify_inclusion"}, None, root, commitment)
  ELSE reader' = [Blank EXCEPT !.kind = "membership", !.shown = "wrong"]

Membership ==
  \/ Answer("verify_inclusion") = Failed /\ Show("error")
  \/ /\ IsAnswered("verify_inclusion")
     /\ Show(IF At(Answer("verify_inclusion"))!VerifyInclusion(reader.root, reader.commitment)
             THEN "true" ELSE "false")

\* is_registered: the last board, whatever attestation it is pinned to.
IsRegistered(board, commitment) ==
  board # None /\ \E i \in DOMAIN board.leaves : board.leaves[i] = commitment

\* A member's two checks: is the leaf listed, and is it in the attested tree?
Audit ==
  \/ /\ \E m \in {"verify_inclusion", "is_registered"} : Answer(m) = Failed
     /\ Show("error")
  \/ /\ IsAnswered("verify_inclusion") /\ IsAnswered("is_registered")
     /\ Show(IF /\ At(Answer("verify_inclusion"))!VerifyInclusion(reader.root, reader.commitment)
                /\ IsRegistered(views[Answer("is_registered")].registry, reader.commitment)
             THEN "counted" ELSE "omitted")

\* The handler that runs when an awaited read settles.
Handle ==
  /\ reader.shown = "loading"
  /\ CASE reader.kind = "board" -> Board
       [] reader.kind = "badge" -> Badge
       [] reader.kind = "svg" -> Svg
       [] reader.kind = "sdk" -> Sdk
       [] reader.kind = "script" -> Script
       [] reader.kind = "membership" -> Membership
       [] reader.kind = "audit" -> Audit

----------------------------------------------------------------------------
\* A load starts once the last one has shown something: the buttons are not
\* there, or disabled, while one is on.
Open(kind) ==
  /\ reader.shown # "loading"
  /\ CASE kind = "board" -> Load(kind, {"get_attestation", "epoch_count"}, None, 0, None)
       [] kind = "script" ->
            \E current \in {n - 1 : n \in NodeLedgers} \cup {None} :
              Load(kind, {"get_attestation"}, current, 0, None)
       [] kind = "membership" ->
            \E root \in RootWords, c \in Commitments :
              Prove(root, c)
       [] kind = "audit" ->
            \E root \in RootWords, c \in Commitments :
              Load(kind, {"verify_inclusion", "is_registered"}, None, root, c)
       [] OTHER -> Load(kind, {"get_attestation"}, None, 0, None)

ReaderStep == Handle \/ \E m \in Methods : CallReturns(m)

\* A ledger closes: nodes may answer from it, and the next one is stamped.
Seal ==
  /\ views' = Append(views, Closing)
  /\ \E d \in LedgerTicks : clock' = clock + d
  /\ stamps' = Append(stamps, clock')

ReadersInit ==
  /\ Init
  /\ views = <<>>
  /\ stamps = <<0>>
  /\ clock = 0
  /\ reader = Blank

ReadersNext ==
  \/ /\ Next
     /\ IF ledger' # ledger THEN Seal ELSE UNCHANGED <<views, stamps, clock>>
     /\ UNCHANGED reader
  \/ /\ ReaderStep \/ \E kind \in Kinds : Open(kind)
     /\ UNCHANGED <<vars, views, stamps, clock>>

\* Every read is answered or throws, and its promise is handled; nothing is
\* assumed of the chain or of who opens a page.
ReadersSpec == ReadersInit /\ [][ReadersNext]_allVars /\ WF_allVars(ReaderStep /\ UNCHANGED <<vars, views, stamps, clock>>)

----------------------------------------------------------------------------
(***************************************************************************)
(* Properties.                                                             *)
(***************************************************************************)
Outcomes == {"nothing", "loading", "error", "empty", "ok", "healthy", "pending",
             "fully backed", "not backed", "BAD_STATUS", "FRESH", "STALE", "ERROR",
             "true", "false", "wrong", "counted", "omitted"}

\* Types; answers come from closed ledgers, and every ledger has its stamp.
ReadersTypeOK ==
  /\ Len(views) = ledger
  /\ Len(stamps) = ledger + 1
  /\ reader.kind \in Kinds
  /\ reader.shown \in Outcomes
  /\ reader.awaits \subseteq Methods
  /\ reader.answer \in [Methods -> DOMAIN views \cup {None, Failed}]
  /\ reader.tries \in [Methods -> 0..(MaxTries - 1)]
  /\ reader.now <= clock

\* Whatever reader shows an attestation, it is one the contract published, at
\* that epoch, and its figures were covered when it was stored: the UNDERFUNDED
\* and "not backed" displays are never reached.
ShownIsBacked ==
  /\ reader.shown \in {"ok", "healthy", "fully backed", "FRESH", "STALE"} =>
       /\ Att # None
       /\ events[Att.epoch + 1].root = Att.root
       /\ Att.total <= Att.reserves
       /\ Att.reserves <= Att.bound
  /\ reader.shown # "not backed"

\* A page that says that nothing is attested does not say it because a read
\* failed: nothing was, at the ledger the farthest node may be at.
EmptyMeansNone ==
  reader.shown = "empty" =>
    \/ reader.start <= MaxLag
    \/ views[reader.start - MaxLag].latest = None

\* Every figure of a display was true at a ledger no older than the lag of a
\* node when that load began; none survives from an earlier load.
FiguresAreRecent ==
  reader.shown \in {"ok", "healthy", "fully backed", "empty"} =>
    \A m \in Methods : IsAnswered(m) => Answer(m) + MaxLag >= reader.start

\* FRESH is never said of an attestation that, when the script started, was
\* older than the agreed age on the chain's own clocks, beyond the lag of the
\* node that gave the current ledger.
FreshMeansRecent ==
  reader.shown = "FRESH" =>
    /\ reader.now <= Stamp(Att) + MaxAge
    /\ reader.current # None => reader.start - 1 <= Att.ledger + MaxAgeLedgers + MaxLag

\* A member told "included" is counted in the total of an attestation that
\* stood at a ledger no older than the lag of a node when it asked.
IncludedMeansCounted ==
  reader.shown = "true" =>
    \E n \in DOMAIN views :
      /\ n + MaxLag >= reader.start
      /\ views[n].latest # None
      /\ views[n].latest.root = reader.root
      /\ Counts(reader.root, reader.commitment)

\* A member whose two checks pass is counted in an attested tree and has
\* signed that very leaf for an attested epoch, though not always the same:
\* the board outlives the attestation it is pinned to.
AuditMeansSignedAndCounted ==
  reader.shown = "counted" =>
    /\ reader.root \in seenRoots
    /\ Counts(reader.root, reader.commitment)
    /\ \E msg \in MemberSignatures :
         msg.commitment = reader.commitment /\ msg.epoch < epoch

\* Every load ends: no reader waits forever for a node that lags.
EveryLoadEnds == reader.shown = "loading" ~> reader.shown # "loading"

=============================================================================
