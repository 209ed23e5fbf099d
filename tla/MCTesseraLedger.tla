--------------------------- MODULE MCTesseraLedger ---------------------------
(***************************************************************************)
(* Instances of TesseraLedger for TLC.  The field, the 32-bit width and    *)
(* the i128 range are shrunk; each .cfg picks the books, words and legs    *)
(* its question needs.                                                     *)
(***************************************************************************)
EXTENDS TesseraLedger

CONSTANTS issuer, vault, other,     \* accounts
          c1, c2, c3,               \* customers' accounts
          k1, k2, k3, k4,           \* Baby-JubJub keys
          acct,                     \* an account commitment with no key
          usdc, junk,               \* tokens
          reflector                 \* the oracle contract

MCFieldModulus == 70001
MCU32Modulus == 65536

\* A leaf of a plain tree and a leaf bound to a key.
Plain(amount) == [owner |-> acct, balance |-> amount, nonce |-> 0]
Keyed(key, amount) == [owner |-> key, balance |-> amount, nonce |-> 0]

\* Roots 1 to 3 are plain trees: 1 is well spread, 2 is concentrated, 3 hides a
\* liability behind a field-wrapped leaf.  Roots 4 to 7 are keyed: 5 replaces a
\* customer, 6 shrinks one, 7 swaps two.  Root 8 is the empty-balance book.
MCBook ==
  <<[depth |-> 4, leaves |-> <<Plain(1), Plain(1), Plain(1)>>],
    [depth |-> 4, leaves |-> <<Plain(2), Plain(1)>>],
    [depth |-> 4, leaves |-> <<Plain(3), Plain(MCFieldModulus - 1)>>],
    [depth |-> 2, leaves |-> <<Keyed(k1, 1), Keyed(k2, 1), Keyed(k3, 1)>>],
    [depth |-> 2, leaves |-> <<Keyed(k1, 1), Keyed(k2, 1), Keyed(k4, 1)>>],
    [depth |-> 2, leaves |-> <<Keyed(k1, 1), Keyed(k2, 1), Keyed(k3, 0)>>],
    [depth |-> 2, leaves |-> <<Keyed(k2, 1), Keyed(k1, 1), Keyed(k3, 1)>>],
    [depth |-> 4, leaves |-> <<Plain(0)>>]>>

\* A book for one-key circuits whose balances are all zero, so that every path
\* can attest every tree of its depth: two plain trees and two keyed ones.
ZeroKeyed(key, n) == [owner |-> key, balance |-> 0, nonce |-> n]
MCSmallBook ==
  <<[depth |-> 4, leaves |-> <<Plain(0)>>],
    [depth |-> 4, leaves |-> <<Plain(0), Plain(0)>>],
    [depth |-> 2, leaves |-> <<ZeroKeyed(k1, 0)>>],
    [depth |-> 2, leaves |-> <<ZeroKeyed(k1, 1)>>]>>
MCSmallKeyWords == {<<k1>>}
MCSmallMessages == [key : {k1}, epoch : {1, 2}, balance : {0}, nonce : {0, 1}]

MCKeyWords == {<<k1, k2, k3>>, <<k1, k2, k4>>, <<k2, k1, k3>>}

\* Every customer signs its leaf of balance 1 for both epochs, k3 signs a zero
\* balance for the first epoch only, and three customers sign for an epoch that
\* is the first one again in 32 bits (here 16).
Signs(key, e, amount) == [key |-> key, epoch |-> e, balance |-> amount, nonce |-> 0]
MCEdDSAMessages ==
  {Signs(k, e, 1) : k \in {k1, k2, k3, k4}, e \in {1, 2}} \cup {Signs(k3, 1, 0)}
    \cup {Signs(k, 65537, 1) : k \in {k1, k2, k3}}

\* The same customers once the epoch passed 2^32 (here 2^16).
MCWrapMessages == {Signs(k, e, 1) : k \in {k1, k2, k3}, e \in {2, 65537}}
                    \cup {Signs(k3, e, 0) : e \in {2, 65537}}

Leg(holder, token, num, den) ==
  [holder |-> holder, token |-> token, scale_num |-> num, scale_den |-> den]
OneToOne(holder, token) == Leg(holder, token, 1, 1)

MCLegLists ==
  {<<>>, <<OneToOne(issuer, usdc)>>, <<OneToOne(issuer, usdc), OneToOne(vault, usdc)>>,
   <<OneToOne(vault, usdc), OneToOne(other, usdc)>>, <<OneToOne(issuer, junk)>>,
   <<Leg(vault, usdc, 3, 1)>>}

\* The lists above and one that names a holder twice.
MCRepeatedLegLists == MCLegLists \cup {<<OneToOne(vault, usdc), OneToOne(vault, usdc)>>}

Priced(holder, token, feed) == [holder |-> holder, token |-> token, feed |-> feed]

MCPricedLegLists ==
  {<<>>, <<Priced(issuer, usdc, 1)>>, <<Priced(issuer, usdc, 1), Priced(issuer, junk, 2)>>,
   <<Priced(vault, usdc, 1)>>}

MCOracleConfigs ==
  {[reflector |-> reflector, max_staleness |-> 1, feeds |-> {1}],
   [reflector |-> reflector, max_staleness |-> 0, feeds |-> {1, 2}],
   [reflector |-> reflector, max_staleness |-> 0, feeds |-> {}]}

\* One argument of each setup call, for the runs that combine all the paths.
MCOneLegList == {<<OneToOne(issuer, usdc)>>}
MCOnePricedLegList == {<<Priced(issuer, usdc, 1)>>}
MCOneOracleConfig == {[reflector |-> reflector, max_staleness |-> 0, feeds |-> {1}]}

\* Members' ed25519 messages: one signed for epoch 0, one for epochs 0 and 1.
Member(pubkey, e) ==
  [pubkey |-> pubkey, epoch |-> e, balance |-> 1, nonce |-> 0, commitment |-> Plain(1)]
MCCommitments == {Plain(1)}
MCMemberSignatures == {Member(c1, 0), Member(c2, 0), Member(c2, 1)}
Claim(pubkey) ==
  [pubkey |-> pubkey, balance |-> 1, nonce |-> 0, commitment |-> Plain(1)]
MCLeafBatches == {<<>>, <<Claim(c1)>>, <<Claim(c2)>>, <<Claim(c1), Claim(c2)>>}

=============================================================================
