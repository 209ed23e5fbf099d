--------------------------- MODULE MCSubmitClient ---------------------------
(***************************************************************************)
(* An instance of SubmitClient for TLC: a signed attestation, made with a  *)
(* script by the same account, may come before the page's submissions.     *)
(***************************************************************************)
EXTENDS SubmitClient

CONSTANTS
  elsewhere,             \* the root of that attestation
  firstTab, firstBook    \* the tab and the book of the first run

MCOtherEntries == {[root |-> elsewhere, strong |-> TRUE]}

\* Tabs are alike, and books, so whichever tab and book the first run has, the
\* behaviours are these under other names.  Only StartRun could leave this set,
\* and no fairness is assumed of it.
MCFirstRun == run[1] # NotStarted => run[1].tab = firstTab /\ run[1].book = firstBook

=============================================================================
