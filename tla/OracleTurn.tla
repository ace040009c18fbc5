----------------------------- MODULE OracleTurn -----------------------------
(***************************************************************************)
(* Whose turn is it to publish?  The rule of oracle/src/oracle_turn.py as  *)
(* operators without state, used by the publisher's loop and by the signer *)
(* of every other node.  A node keeps one pair of numbers between calls,   *)
(* `turn': the block at which it first saw the exchange price move away    *)
(* from the published price, and the publication it saw that for.          *)
(*                                                                         *)
(* vi        what the node last read from the chain: block_num,            *)
(*           last_pub_block, blockchain_price, valid_price_period_in_blocks*)
(* addresses the selected oracles in the order of select_next_addresses:   *)
(*           addresses[1] is the chosen oracle, the others its fallbacks   *)
(* sig       what the conditional publication service answers: price_delta,*)
(*           valid_price_period, last_online_block, last_offline_block     *)
(***************************************************************************)
EXTENDS Integers, Sequences

CONSTANTS EnteringFallbacksAmounts,       \* ORACLE_ENTERING_FALLBACKS_AMOUNTS
          PricePublishBlocks,             \* ORACLE_PRICE_PUBLISH_BLOCKS
          TriggerValidPublicationBlocks   \* blocks before expiry that open the turn

ASSUME TurnConfAssumption ==
  /\ EnteringFallbacksAmounts \in Seq(Nat)
  /\ PricePublishBlocks \in Nat
  /\ TriggerValidPublicationBlocks \in Nat

-----------------------------------------------------------------------------
(* Fallback order *)

\* Defect: the amounts leave out the chosen oracle, and nobody else is added.
FallbackSequenceOfConfig(n) ==
  <<1>> \o [i \in DOMAIN EnteringFallbacksAmounts |-> EnteringFallbacksAmounts[i]]

\* How many of the addresses may publish, by blocks waited: one more entry of
\* the configured amounts per block, and everybody at the end.
GetFallbackSequence(n) ==
  LET seq == <<1>> \o [i \in DOMAIN EnteringFallbacksAmounts |->
                          EnteringFallbacksAmounts[i] + 1]
  IN  IF seq[Len(seq)] < n - 1 THEN Append(seq, n) ELSE seq

\* The entry of the sequence in force after `blocks' blocks.
FallbackIndex(blocks, seq) == IF blocks < Len(seq) THEN blocks + 1 ELSE Len(seq)

IsFallback(addr, addresses, amount) ==
  \E i \in 2 .. amount : i <= Len(addresses) /\ addresses[i] = addr

\* Defect: fallbacks publish although they are disabled.
CanOraclePublishAnyway(blocks, addr, addresses, only_chosen) ==
  LET seq == GetFallbackSequence(Len(addresses))
  IN  \/ addr = addresses[1]
      \/ IsFallback(addr, addresses, seq[FallbackIndex(blocks, seq)])

CanOraclePublish(blocks, addr, addresses, only_chosen) ==
  LET seq == GetFallbackSequence(Len(addresses))
  IN  \/ addr = addresses[1]
      \/ /\ IsFallback(addr, addresses, seq[FallbackIndex(blocks, seq)])
         /\ ~only_chosen

-----------------------------------------------------------------------------
(* Price change detection *)

\* helpers.price_delta(p, q) >= pct, the difference in percent of the lower one.
DeltaReaches(p, q, pct) ==
  LET low  == IF p < q THEN p ELSE q
      diff == IF p < q THEN q - p ELSE p - q
  IN  100 * diff >= pct * low

\* helpers.price_delta(p, q) > pct.
DeltaExceeds(p, q, pct) ==
  LET low  == IF p < q THEN p ELSE q
      diff == IF p < q THEN q - p ELSE p - q
  IN  100 * diff > pct * low

NoTurn     == [pub |-> -1, block |-> -1]   \* price_change_pub_block, price_change_block
NotChanged == -1                           \* price_changed_blocks returns None

\* Defect: a change seen for an earlier publication still counts.
RememberedForever(turn, vi) == turn.block >= 0

\* A detected change is remembered for the publication it was detected for.
Remembered(turn, vi) == turn.pub = vi.last_pub_block /\ turn.block >= 0

\* The turn a node is left with by price_changed_blocks.
TurnAfter(turn, vi, price, sig) ==
  IF Remembered(turn, vi) \/ ~DeltaReaches(vi.blockchain_price, price, sig.price_delta)
  THEN turn
  ELSE [pub |-> vi.last_pub_block, block |-> vi.block_num]

\* price_changed_blocks: blocks since the change was first seen.  A negative
\* difference (the cache went back) acts as NotChanged: both are below every
\* PricePublishBlocks.
PriceChangedBlocks(turn, vi, price, sig) ==
  LET t == TurnAfter(turn, vi, price, sig)
  IN  IF Remembered(t, vi) THEN vi.block_num - t.block ELSE NotChanged

-----------------------------------------------------------------------------
(* The two reasons to publish *)

\* The blocks before the price expires, moved up to the last block at which the
\* conditional service went on or off line.
StartOfPubPeriod(vi, sig) ==
  LET start  == vi.last_pub_block - TriggerValidPublicationBlocks + sig.valid_price_period
      online == IF sig.last_online_block > start THEN sig.last_online_block ELSE start
  IN  IF sig.last_offline_block > online THEN sig.last_offline_block ELSE online

CanPublishBeforeExpiry(vi, addr, addresses, sig, only_chosen) ==
  /\ vi.block_num >= StartOfPubPeriod(vi, sig)
  /\ CanOraclePublish(vi.block_num - StartOfPubPeriod(vi, sig), addr, addresses, only_chosen)

CanPublishAfterChange(turn, vi, addr, addresses, price, sig, only_chosen) ==
  LET blocks == PriceChangedBlocks(turn, vi, price, sig)
  IN  /\ blocks >= PricePublishBlocks
      /\ CanOraclePublish(blocks - PricePublishBlocks, addr, addresses, only_chosen)

SelectedInRound(addr, addresses) == \E i \in DOMAIN addresses : addresses[i] = addr

\* The early returns of _is_oracle_turn_with_msg that leave the turn untouched.
TurnIsEvaluated(vi, addr, addresses) ==
  /\ SelectedInRound(addr, addresses)
  /\ vi.valid_price_period_in_blocks >= TriggerValidPublicationBlocks

\* PriceOracleTurn._is_oracle_turn_with_msg for a price that is known.
IsOracleTurn(turn, vi, addr, addresses, price, sig, only_chosen) ==
  /\ TurnIsEvaluated(vi, addr, addresses)
  /\ \/ CanPublishBeforeExpiry(vi, addr, addresses, sig, only_chosen)
     \/ CanPublishAfterChange(turn, vi, addr, addresses, price, sig, only_chosen)

TurnLeft(turn, vi, addr, addresses, price, sig) ==
  IF TurnIsEvaluated(vi, addr, addresses) THEN TurnAfter(turn, vi, price, sig) ELSE turn

\* OracleTurn.validate_turn, the signer's side: the chosen oracle is accepted
\* before the price, the round or the configuration is looked at.
ValidateTurn(turn, vi, addr, addresses, price, sig) ==
  \/ addr = addresses[1]
  \/ IsOracleTurn(turn, vi, addr, addresses, price, sig, FALSE)

TurnLeftByValidation(turn, vi, addr, addresses, price, sig) ==
  IF addr = addresses[1] THEN turn ELSE TurnLeft(turn, vi, addr, addresses, price, sig)

=============================================================================
