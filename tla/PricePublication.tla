-------------------------- MODULE PricePublication --------------------------
(***************************************************************************)
(* The publication of one coin pair's price by a group of oracle nodes.    *)
(*                                                                         *)
(* A node runs, on one event loop, the loop that decides and publishes     *)
(* (OracleCoinPairLoop with a CoinPairRunner), the loop that refreshes its *)
(* view of the chain (OracleBlockchainInfoLoop) and the /sign-price-v4/    *)
(* handler that endorses the other nodes' prices.  The three share the     *)
(* cached chain information and the PriceOracleTurn object, and interleave *)
(* at every await.  The contract is external: it takes a publication for   *)
(* the current last publication block, signed by most selected oracles.    *)
(*                                                                         *)
(* The conditional publication service is disabled here (its answers are   *)
(* the defaults); ConditionalSignal models it.                             *)
(***************************************************************************)
EXTENDS OracleTurn, FiniteSets

CONSTANTS Node,               \* the oracle nodes
          Live,               \* the nodes that run
          Restarting,         \* the nodes that may crash and start again
          InfoService,        \* the nodes that read through the InfoGetter contract
          Order,              \* Order[round][block]: select_next_addresses after a publication
          ValidPricePeriod,   \* valid_price_period_in_blocks
          PriceDeltaPct,      \* ORACLE_PRICE_DELTA_PCT
          PriceRejectPct,     \* ORACLE_PRICE_REJECT_DELTA_PCT
          ExchangePrices,     \* the prices an exchange may show
          InitPrice,          \* the price the contract starts with
          FallbacksDisabled,  \* the nodes with settings.DISABLE_FALLBACKS
          Overtaking,         \* may an older answer of the chain replace a newer one?
          TxMayFail,          \* may a valid transaction revert (expired, out of gas)?
          LastTick, MaxBlock, \* bounds: no empty block after LastTick, no block after MaxBlock
          MaxMempool          \* bound: publications waiting to be mined

Rounds == 1 .. Len(Order)
Block  == 0 .. MaxBlock

ASSUME PublicationAssumption ==
  /\ Live \subseteq Node /\ Restarting \subseteq Live
  /\ MaxBlock \in Nat /\ LastTick \in Nat /\ MaxMempool \in Nat /\ LastTick <= MaxBlock
  /\ Order \in Seq([Block -> Seq(Node) \ {<<>>}]) /\ Order # <<>>
  /\ ValidPricePeriod \in Nat
  /\ PriceDeltaPct \in Nat /\ PriceRejectPct \in Nat
  /\ ExchangePrices \subseteq Nat \ {0} /\ InitPrice \in Nat \ {0}
  /\ FallbacksDisabled \subseteq Node /\ InfoService \subseteq Node
  /\ {Overtaking, TxMayFail} \subseteq BOOLEAN

VARIABLES chain,      \* the chain: block_num, last_pub_block, blockchain_price, round
          snapshots,  \* what the chain has answered or may still answer with
          mempool,    \* publications sent and not yet mined
          info,       \* OracleBlockchainInfoLoop._blockchain_info of each node
          turn,       \* PriceOracleTurn of each node
          attempt     \* the running publish() of each node

vars == <<chain, snapshots, mempool, info, turn, attempt>>

NoInfo    == [block_num |-> -1]
NoAttempt == [stage |-> "none"]

Selected(round, b) == {Order[round][b][i] : i \in DOMAIN Order[round][b]}

\* The conditional publication service when it is disabled.
Signal == [price_delta |-> PriceDeltaPct, valid_price_period |-> ValidPricePeriod,
           last_online_block |-> 0, last_offline_block |-> 0]

View(n)      == [block_num |-> info[n].block_num, last_pub_block |-> info[n].last_pub_block,
                 blockchain_price |-> info[n].blockchain_price,
                 valid_price_period_in_blocks |-> ValidPricePeriod]
Addresses(n) == Order[info[n].round][info[n].last_pub_block]
HasInfo(n)   == info[n] # NoInfo

-----------------------------------------------------------------------------
(* What gather_signatures and publish count *)

Oracles(a)        == Selected(a.round, a.last_pub_block)
NeededSigs(a)     == Cardinality(Oracles(a)) \div 2 + 1
EnoughSigs(a)     == Cardinality(a.sigs) >= NeededSigs(a)

Publishing(n) == attempt[n].stage # "none"
Gathering(n)  == attempt[n].stage = "gather"

NewAttempt(n, price) ==
  [stage |-> "gather", price |-> price, last_pub_block |-> info[n].last_pub_block,
   round |-> info[n].round, asked |-> {n}, sigs |-> {n}, fresh |-> TRUE]

Tx(n, a) == [by |-> n, price |-> a.price, last_pub_block |-> a.last_pub_block,
             round |-> a.round, sigs |-> a.sigs]

-----------------------------------------------------------------------------
Init ==
  /\ chain = [block_num |-> 0, last_pub_block |-> 0, blockchain_price |-> InitPrice, round |-> 1]
  /\ snapshots = {chain}
  /\ mempool = {}
  /\ info = [n \in Node |-> NoInfo]
  /\ turn = [n \in Node |-> NoTurn]
  /\ attempt = [n \in Node |-> NoAttempt]

-----------------------------------------------------------------------------
(* The chain *)

ChainMoves(next) ==
  /\ chain' = next
  /\ snapshots' = snapshots \cup {next}

Tick ==
  /\ chain.block_num < LastTick
  /\ ChainMoves([chain EXCEPT !.block_num = @ + 1])
  /\ UNCHANGED <<mempool, info, turn, attempt>>

SwitchRound ==
  /\ chain.block_num < LastTick
  /\ chain.round + 1 \in Rounds
  /\ ChainMoves([chain EXCEPT !.block_num = @ + 1, !.round = @ + 1])
  /\ UNCHANGED <<mempool, info, turn, attempt>>

\* The contract's own checks (external).
Acceptable(tx) ==
  LET voters == Selected(chain.round, chain.last_pub_block)
  IN  /\ tx.last_pub_block = chain.last_pub_block
      /\ tx.by \in voters
      /\ 2 * Cardinality(tx.sigs \cap voters) > Cardinality(voters)

\* Defect: the receipt is taken for one of the running attempt, whatever it does.
ReceiptToAnyone(tx, stage) == attempt' = [attempt EXCEPT ![tx.by].stage = stage]

\* The receipt reaches the sender if it is still waiting for it.
ReceiptTo(tx, stage) ==
  attempt' = IF /\ attempt[tx.by].stage = "sent"
                /\ Tx(tx.by, attempt[tx.by]) = tx
             THEN [attempt EXCEPT ![tx.by].stage = stage]
             ELSE attempt

Mined(tx) ==
  /\ chain.block_num < MaxBlock
  /\ Acceptable(tx)
  /\ ChainMoves([chain EXCEPT !.block_num = @ + 1, !.last_pub_block = chain.block_num + 1,
                              !.blockchain_price = tx.price])
  /\ mempool' = mempool \ {tx}
  /\ ReceiptTo(tx, "mined")
  /\ UNCHANGED <<info, turn>>

Reverted(tx) ==
  /\ ~Acceptable(tx) \/ TxMayFail
  /\ mempool' = mempool \ {tx}
  /\ ReceiptTo(tx, "reverted")
  /\ UNCHANGED <<chain, snapshots, info, turn>>

-----------------------------------------------------------------------------
(* The node's view of the chain *)

\* _get_blocking_parallel_requests: what a node without the InfoGetter contract
\* puts together from requests answered at different blocks.  Its block_num is
\* one more get_last_pub_block().
Gathered(oracles, price, block, pub) ==
  [block_num |-> block.last_pub_block, last_pub_block |-> pub.last_pub_block,
   blockchain_price |-> price.blockchain_price, round |-> oracles.round]

Answers(n) ==
  IF n \in InfoService THEN snapshots
  ELSE {Gathered(a, b, c, d) : a, b, c, d \in snapshots}

UpToDate(n) == IF n \in InfoService THEN chain ELSE Gathered(chain, chain, chain, chain)

\* force_update installs whatever answer arrives; nothing orders the answers.
Refresh(n, s) ==
  /\ n \in Live
  /\ Overtaking \/ s.block_num >= info[n].block_num
  /\ info' = [info EXCEPT ![n] = s]
  /\ UNCHANGED <<chain, snapshots, mempool, turn, attempt>>

-----------------------------------------------------------------------------
(* The publisher's loop *)

Decides(n, price) ==
  IsOracleTurn(turn[n], View(n), n, Addresses(n), price, Signal,
               n \in FallbacksDisabled)

\* OracleCoinPairLoop.run up to the first await of publish(): the exchange
\* price is read, the turn is evaluated and, if it is ours, the message signed.
Evaluate(n) ==
  /\ n \in Live /\ HasInfo(n) /\ ~Publishing(n)
  /\ \E price \in ExchangePrices :
       /\ turn' = [turn EXCEPT ![n] = TurnLeft(@, View(n), n, Addresses(n), price, Signal)]
       /\ attempt' = IF Decides(n, price) THEN [attempt EXCEPT ![n] = NewAttempt(n, price)]
                                          ELSE attempt
  /\ UNCHANGED <<chain, snapshots, mempool, info>>

\* The validity left in the V4 message falls under the minimum.
SignaturesAge(n) ==
  /\ Gathering(n) /\ attempt[n].fresh
  /\ attempt' = [attempt EXCEPT ![n].fresh = FALSE]
  /\ UNCHANGED <<chain, snapshots, mempool, info, turn>>

\* Enough signatures, and the message is still valid for long enough: send it.
Send(n) ==
  /\ Gathering(n) /\ EnoughSigs(attempt[n]) /\ attempt[n].fresh
  /\ Cardinality(mempool) < MaxMempool
  /\ attempt' = [attempt EXCEPT ![n].stage = "sent"]
  /\ mempool' = mempool \cup {Tx(n, attempt[n])}
  /\ UNCHANGED <<chain, snapshots, info, turn>>

\* publish() returns False, or an exception ends it, and the loop tries again:
\* not enough signatures, the gathering timed out, too close to expiry, the
\* transaction was not sent, or no receipt came within the 10 minutes waited.
PublishFails(n) ==
  /\ attempt[n].stage \in {"gather", "sent"}
  /\ attempt' = [attempt EXCEPT ![n] = NoAttempt]
  /\ UNCHANGED <<chain, snapshots, mempool, info, turn>>

\* process_tx answers BCSuccess for a receipt of either status, so both end as
\* "PRICE PUBLISHED" with a forced update, which may fail and leave the cache.
PublishReturns(n) ==
  /\ attempt[n].stage \in {"mined", "reverted"}
  /\ attempt' = [attempt EXCEPT ![n] = NoAttempt]
  /\ \E s \in {UpToDate(n), info[n]} : info' = [info EXCEPT ![n] = s]
  /\ UNCHANGED <<chain, snapshots, mempool, turn>>

-----------------------------------------------------------------------------
(* The signer *)

\* gather_signatures posts its requests to all other selected oracles at once, and
\* leaves those not answered yet to themselves when it has enough signatures.
Asks(n, m) == Publishing(n) /\ m \in Oracles(attempt[n]) \ attempt[n].asked

\* An answer still counts.
Awaits(n) == Gathering(n) /\ ~EnoughSigs(attempt[n])

\* PriceRequestValidation.validate_params, up to the turn.
ValidParams(m, a, price) ==
  /\ HasInfo(m)
  /\ a.last_pub_block = info[m].last_pub_block
  /\ a.fresh
  /\ ~DeltaExceeds(a.price, price, PriceRejectPct)

\* validate_and_sign at m: the parameters, then the turn, then the signature.
\* The turn object is left changed even when the request is refused, or the
\* answer does not reach the publisher or comes after enough others.
Answer(m, n) ==
  /\ m \in Live /\ Asks(n, m)
  /\ \E price \in ExchangePrices, delivered \in BOOLEAN :
       LET a     == attempt[n]
           valid == ValidParams(m, a, price)
           signs == valid /\ ValidateTurn(turn[m], View(m), n, Addresses(m), price, Signal)
       IN  /\ turn' = IF valid
                      THEN [turn EXCEPT ![m] =
                              TurnLeftByValidation(@, View(m), n, Addresses(m), price, Signal)]
                      ELSE turn
           /\ attempt' = [attempt EXCEPT ![n].asked = @ \cup {m},
                                         ![n].sigs = IF signs /\ delivered /\ Awaits(n)
                                                     THEN @ \cup {m} ELSE @]
  /\ UNCHANGED <<chain, snapshots, mempool, info>>

\* The request gets no answer in time, or the signer has no price to compare with.
NoAnswer(m, n) ==
  /\ Asks(n, m) /\ Awaits(n)
  /\ attempt' = [attempt EXCEPT ![n].asked = @ \cup {m}]
  /\ UNCHANGED <<chain, snapshots, mempool, info, turn>>

-----------------------------------------------------------------------------
\* A node that stops loses everything it knew; what it sent stays in the mempool.
Restart(n) ==
  /\ n \in Restarting
  /\ info' = [info EXCEPT ![n] = NoInfo]
  /\ turn' = [turn EXCEPT ![n] = NoTurn]
  /\ attempt' = [attempt EXCEPT ![n] = NoAttempt]
  /\ UNCHANGED <<chain, snapshots, mempool>>

Next ==
  \/ Tick
  \/ SwitchRound
  \/ \E tx \in mempool : Mined(tx) \/ Reverted(tx)
  \/ \E n \in Node :
       \/ \E s \in Answers(n) : Refresh(n, s)
       \/ Evaluate(n)
       \/ SignaturesAge(n)
       \/ Send(n)
       \/ PublishFails(n)
       \/ PublishReturns(n)
       \/ Restart(n)
  \/ \E m, n \in Node : Answer(m, n) \/ NoAnswer(m, n)

Spec == Init /\ [][Next]_vars

-----------------------------------------------------------------------------
(* Properties *)

Price    == ExchangePrices \cup {InitPrice}
Snapshot == [block_num : Block, last_pub_block : Block, blockchain_price : Price, round : Rounds]
TxType   == [by : Node, price : Price, last_pub_block : Block, round : Rounds, sigs : SUBSET Node]
Attempt  == [stage : {"gather", "sent", "mined", "reverted"}, price : Price,
             last_pub_block : Block, round : Rounds, asked : SUBSET Node,
             sigs : SUBSET Node, fresh : BOOLEAN]

\* The shape of the state.
TypeOK ==
  /\ chain \in Snapshot
  /\ snapshots \subseteq Snapshot
  /\ mempool \subseteq TxType
  /\ info \in [Node -> Snapshot \cup {NoInfo}]
  /\ turn \in [Node -> [pub : Block \cup {-1}, block : Block \cup {-1}]]
  /\ attempt \in [Node -> Attempt \cup {NoAttempt}]

\* Whether node n may publish after publication `pub' once the chain is at
\* block b: the chosen oracle always, the fallback at position k only when the
\* sequence has reached k, counted from the first block at which a price change
\* could have been seen or from the start of the period before expiry.
EntitledAt(n, round, pub, b) ==
  LET addresses == Order[round][pub]
  IN  \/ n = addresses[1]
      \/ \E start \in {pub + PricePublishBlocks,
                       pub + ValidPricePeriod - TriggerValidPublicationBlocks} :
           b >= start /\ CanOraclePublish(b - start, n, addresses, FALSE)

\* No fallback publishes before its turn: whatever each node has cached, however
\* late or out of order it was read, and whichever publications it remembers a
\* price change for, an attempt or a transaction of a fallback exists only when
\* the real chain has given it time (oracle_turn.py, can_oracle_publish).
NoEarlyFallback ==
  /\ \A n \in Node : Publishing(n) =>
       EntitledAt(n, attempt[n].round, attempt[n].last_pub_block, chain.block_num)
  /\ \A tx \in mempool : EntitledAt(tx.by, tx.round, tx.last_pub_block, chain.block_num)

\* A node with DISABLE_FALLBACKS tries to publish only when it is the chosen
\* oracle of the publication it builds on, even though its peers would still
\* endorse it as a fallback, and whatever it has cached.
OnlyChosenWhenDisabled ==
  \A n \in FallbacksDisabled : Publishing(n) =>
    n = Order[attempt[n].round][attempt[n].last_pub_block][1]

\* What the unit test of the turn says, "all fallbacks are selected by the end of
\* the fallback sequence from the config": once the sequence has been gone
\* through, every selected oracle may publish.
AllEntitledInTheEnd ==
  LET round == chain.round  pub == chain.last_pub_block
      end   == pub + PricePublishBlocks + Len(GetFallbackSequence(Len(Order[round][pub])))
  IN  chain.block_num >= end =>
        \A n \in Selected(round, pub) : EntitledAt(n, round, pub, chain.block_num)

-----------------------------------------------------------------------------
(* Liveness *)

\* The loops run for ever and are never blocked for good; an answer that comes
\* in time infinitely often is eventually used, and so is a transaction.
Fairness ==
  /\ WF_vars(Tick)
  /\ \A n \in Live : /\ WF_vars(Refresh(n, UpToDate(n)))
                     /\ WF_vars(Evaluate(n))
                     /\ SF_vars(Send(n))
                     /\ WF_vars(PublishFails(n))
                     /\ WF_vars(PublishReturns(n))
  /\ \A m, n \in Live : SF_vars(Answer(m, n) /\ m \in attempt'[n].sigs)
  /\ SF_vars(\E tx \in mempool : Mined(tx))

FairSpec == Spec /\ Fairness

\* A price near its expiry is published again although the chosen oracle is
\* down: some fallback that runs gets its turn, the signatures and a block.
ExpiringPriceIsRepublished == <>(chain.last_pub_block > 0)
=============================================================================
