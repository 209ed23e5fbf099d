----------------------------- MODULE MCDataPath -----------------------------
(***************************************************************************)
(* Depth 2, balances of 2 bits, bounds of 3 bits with 4 basis points in a  *)
(* whole, the prime 521 just above the widest comparator, and words of six *)
(* base-4 digits, so every value has up to seven other encodings and an    *)
(* i128 (three digits) is narrower than the field.                         *)
(***************************************************************************)
EXTENDS DataPath

\* All short books, longer ones of an entry, a whale and a forged entry, and books
\* with an entry the field takes as another number.
MCBooks ==
  UNION {[1..n -> {-1, 0, 1, 3, 4}] : n \in 1..2}
  \cup UNION {[1..n -> {-1, 1, 3}] : n \in 3..4}
  \cup {<<0, 0, 0, 0>>, <<3, 2, 3, 2>>, <<1, 1, 1, 1, 1>>}
  \cup {<<522>>, <<522, 1>>, <<3, -520>>, <<1, 521, 1>>, <<520, 1>>}

MCTreasuries == {-2, 0, 3, 5, 10, 31, 32, 526, -516}
MCClaims == {-1, 0, 1, 3, 4, 522, -520}
MCKeyLists == {<<1, 2, 3, 4>>, <<1, 2, 1, 2>>, <<1, 2, 2, 1>>, <<1, 1, 1, 1>>}

MCVerifyingKey ==
  [solvency |-> [alpha |-> 3, beta |-> 5, gamma |-> 7, delta |-> 11,
                 ic |-> <<13, 17, 19, 23>>],
   risk_solvency |-> [alpha |-> 29, beta |-> 31, gamma |-> 37, delta |-> 41,
                      ic |-> <<43, 47, 53, 59, 61, 67>>],
   inclusion |-> [alpha |-> 71, beta |-> 73, gamma |-> 79, delta |-> 83,
                  ic |-> <<89, 97, 101>>]]

\* The hypothesis the theorems about calls have.
ASSUME MCTheoremHypotheses == KeysApart

=============================================================================
