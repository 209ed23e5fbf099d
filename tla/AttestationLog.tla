--------------------------- MODULE AttestationLog ---------------------------
(***************************************************************************)
(* What the contract promises whoever watches it: a public log that only   *)
(* grows, in which no root appears twice, whose head is always its newest  *)
(* entry, and which never falls back to weak entries after a strong one (a *)
(* strong entry is one with in-circuit non-omission).                      *)
(***************************************************************************)
EXTENDS Naturals, Sequences

CONSTANTS Root, NoHead

Entry == [root : Root, strong : BOOLEAN]

VARIABLES log, head

logVars == <<log, head>>

LogTypeOK ==
  /\ log \in Seq(Entry)
  /\ head \in Entry \cup {NoHead}

Published == {log[i].root : i \in DOMAIN log}

LogInit ==
  /\ log = <<>>
  /\ head = NoHead

Publish(entry) ==
  /\ entry.root \notin Published
  /\ head # NoHead /\ head.strong => entry.strong
  /\ log' = Append(log, entry)
  /\ head' = entry

LogNext == \E entry \in Entry : Publish(entry)

LogSpec == LogInit /\ [][LogNext]_logVars

=============================================================================
