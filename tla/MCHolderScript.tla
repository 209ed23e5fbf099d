--------------------------- MODULE MCHolderScript ----------------------------
(***************************************************************************)
(* An instance of HolderScript for TLC: two accounts, two lists of legs.   *)
(***************************************************************************)
EXTENDS HolderScript

CONSTANTS issuer, vault, acct, c1, usdc

MCFieldModulus == 70001
MCU32Modulus == 65536

Plain(amount) == [owner |-> acct, balance |-> amount, nonce |-> 0]
MCBook ==
  <<[depth |-> 4, leaves |-> <<Plain(1), Plain(2)>>],
    [depth |-> 4, leaves |-> <<Plain(3)>>]>>

Leg(holder, token, num) ==
  [holder |-> holder, token |-> token, scale_num |-> num, scale_den |-> 1]

\* The issuer's reserve alone or with the vault's, and lists that are refused:
\* an empty one and a scaled leg.
MCLegLists ==
  {<<Leg(issuer, usdc, 1)>>, <<Leg(issuer, usdc, 1), Leg(vault, usdc, 1)>>,
   <<>>, <<Leg(vault, usdc, 3)>>}

MCProvedSignals == {[root |-> 1, total |-> 3, reserves |-> 6]}

=============================================================================
