--------------------------- MODULE MCStatusReaders ---------------------------
(***************************************************************************)
(* Instances of StatusReaders for TLC, over the books of MCTesseraLedger.  *)
(***************************************************************************)
EXTENDS StatusReaders

CONSTANTS issuer, acct, c1, usdc

MCFieldModulus == 70001
MCU32Modulus == 65536

Plain(amount) == [owner |-> acct, balance |-> amount, nonce |-> 0]

\* Root 1 counts the member's leaf of balance 1, root 2 left it out.
MCBook ==
  <<[depth |-> 4, leaves |-> <<Plain(1), Plain(2)>>],
    [depth |-> 4, leaves |-> <<Plain(0), Plain(3)>>]>>

MCCommitments == {Plain(1), Plain(2)}

\* The first member signed its leaf for the first epoch only, the owner of the
\* leaf of balance 2 signed nothing.
Claim(amount) ==
  [pubkey |-> c1, balance |-> amount, nonce |-> 0, commitment |-> Plain(amount)]
MCMemberSignatures ==
  {[pubkey |-> c1, epoch |-> 0, balance |-> 1, nonce |-> 0, commitment |-> Plain(1)]}
MCLeafBatches == {<<Claim(1)>>, <<Claim(2)>>}

=============================================================================
