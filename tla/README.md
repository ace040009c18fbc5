# OMoC-Node: TLA+ models, model checking and proofs

OMoC-Node is the off-chain half of the Money on Chain oracles: a group of nodes that agree on
prices (and on the execution of on-chain tasks), gather each other's signatures and publish to
contracts. One process per operator runs everything below on **one asyncio event loop**, with
blocking calls pushed to threads (`run_in_executor`). Nothing is persisted. Paths are relative to
`src/servers/`.

## 1. The system

| Part | State | Operations | Talks to | What is hard |
|---|---|---|---|---|
| Turn rule, `oracle/src/oracle_turn.py` | `price_change_block`, `price_change_pub_block` | `is_oracle_turn` (publisher), `validate_turn` (signer) | configuration, conditional service | both sides move the same pair of numbers, at different moments, on cached data |
| Publisher, `oracle_coin_pair_loop.py`, `coin_pair_runner.py` | the running `publish()` | evaluate, gather signatures, send, wait for a receipt | all other nodes over HTTP, contract | 10 minutes between decision and receipt; timeouts; late answers; expiring signatures |
| Signer, `request_validation.py` | none of its own | `validate_and_sign` | price feed, chain view, turn | endorses on its own, possibly different, view |
| Chain view, `oracle_blockchain_info_loop.py` | `_blockchain_info` | `force_update`, `get` | contracts | no order between answers; without `INFO_ADDR` several requests make one view |
| Nonces, `common/services/blockchain.py` | one `asyncio.Lock` | `acquire`, `wait_for_commit_and_release`, `release` | RPC node | several coin pairs, one account; cancellation; a node that counts late |
| Conditional publication, `common/services/conditional_publish.py` | `_last_block`, two flags, last edges | `update` (in a thread), `offline_cfg` (on the loop) | multicall, getBlock, operator's endpoint | attributes written one by one while they are read |
| Task execution, `tasks_runner.py`, `TasksOracleTurn`, `TaskRequestValidation` | `_last_block_when_available` | as publisher and signer | tasks contract | every failed call reads as "no tasks" and clears the wait |
| Coin pair loops, `oracle_loop.py`, `oracle_service.py`, `bg_task_executor.py` | `cpMap` | `run`, `add_coin_pair`, `delete_coin_pair` | manager contract | lists read call by call; errors in the place of lists |
| Main loop, `main_loop.py` | `initialized`, tasks | one pass after another, `_startup` | all loops | set before what it stands for has happened |
| Selection, `select_next.py` | none | `select_next` | publisher, signer | every node must get the same order; boundaries of the weighted choice |
| Configuration, `oracle_configuration.py` | `values`, `from_conf`, `from_default` | `initialize`, `update` | registry contract | three sources, four orders of priority; a value that is missing at the start |
| Price feed, `price_feeder/` | one bounded queue per exchange | a round of requests, `get_last_price` | exchanges | two clocks; old and missing answers; the same price must be found again by the signers |
| Gas price, `blockchain.py` | `last_price` | `get_current` | RPC node, limit contract | its output is its next input; calls overlap |
| IP filter, `ip_filter_loop.py` | `valid_ips` | one pass, the test of the middleware | DNS, chain views | a purge that raises half way |
| HTTP, monitor, contract wrappers, multicall, crypto | none that others read | | | |

How they interact: `MainLoop` starts `OracleLoop`, which starts for every subscribed coin pair a
chain view loop, a publisher loop and, for prices, a feed. The publisher reads the view, evaluates
the turn, asks the other nodes' signers, and sends through the one nonce lock. `/sign-price-v4/` and
`/sign-task/` requests reach the signer of the same objects while the publisher awaits.

What makes each part correct: no fallback before its turn, and never one that is disabled; a price
close to its expiry, or tasks that are available, are dealt with in the end although nodes are down;
one transaction at a time with the account's next nonce, and no publisher starved; changes between
NEED and UNNEED recorded at their block, and both answered in the end; exactly the subscribed coin
pairs run, whatever calls fail; the gas price within its limits and never raised by one high answer;
an oracle that was seen is signed for; every oracle has one turn, and the chosen one something at
stake; a price that has stalled is not published, one that was is found again; parameters keep the
source their order says. `PROJECT.json` lists the hazards, line by line, with the
properties that cover them.

## 2. Modules

| Module | Models | State ↔ code |
|---|---|---|
| `OracleTurn` | the turn rule, as operators without state | `turn = [pub, block]` is `price_change_pub_block`, `price_change_block`; `GetFallbackSequence`, `CanOraclePublish`, `PriceChangedBlocks`, `IsOracleTurn`, `ValidateTurn` keep the source's names |
| `PricePublication` (extends `OracleTurn`) | one coin pair over a group of nodes: publisher, signer and chain view, interleaved at every await, with the chain as environment | `info` = `_blockchain_info`, `turn` = `PriceOracleTurn`, `attempt` = the running `publish()`, `chain`/`snapshots`/`mempool` = the outside |
| `MCPricePublication` | small instances | |
| `PricePublication_proofs` | theorems of the two above | |
| `AccountSends` | the promise to the RPC node: one sender at a time, numbers in order | abstract |
| `NonceManager` | `bc_execute` with `NonceManager` and `asyncio.Lock` | `locked`, `waiters`, `woken` = the lock; `pc` = the await a task is at; `polls` = the loop of `wait_for_commit_and_release`; `inflight` = threads of cancelled tasks; `elapsed`, `lost` remember how long, and why, the node may not have counted the last transaction |
| `MCNonceManager`, `NonceManager_proofs` | instance, theorems | |
| `ConditionalSignal` | `ConditionalPublishService`: a fetch in a thread against reads on the loop | `flags`, `last_block`, `ordered`, `edges` are the attributes; `fetch`, `read` the two activities; `torn` remembers whether a multicall failed in the middle of a read |
| `ConditionalSignal_proofs` | theorems | |
| `TaskExecution` (extends `OracleTurn`), `MCTaskExecution` | the tasks' publisher and signer over a group of nodes | `since` = `_last_block_when_available` |
| `TaskExecution_proofs` | theorems | |
| `PriceFeed`, `PriceFeed_proofs` | a coin pair's exchanges: rounds, queues, reading a price for a moment | `queues` = `_price_queues`; `quote` remembers one price read for a publication |
| `MCTurnInputs` | `PriceFeed` and `ConditionalSignal` on small instances, in one run | `input` = the one the behaviour is about |
| `OracleConfiguration` | `initialize()` and `update()`, one parameter of the table at a time, as operators on its variables | `values`, `from_conf`, `from_default`, the `environment` and the `registry` |
| `MainLoop` (extends it), `MainLoop_proofs` | when they are called: start, passes, restart | `at` = where the running pass is; `initialized`; `tasks` = how often `tasks` holds the node's loops, `started` = how many of them run |
| `NodeLoops` | `OracleLoop.run` call by call | `running` = keys of `cpMap`; `pass` = the running iteration |
| `GasPrice` | `GasCalculator`, called by the state loop and by publishers | `calls` = what each call got from its first await; `last_price` |
| `IpFilter` | `IpFilterLoop` and the test of the middleware | `valid_ips` = the keys of the dictionary, in their order; `age` = now less their values; `wait` = the pause |
| `SelectNext`, `SelectNext_proofs` | `select_next` as functions of its inputs; `Picked` is the list left after each draw of the shuffle, `Buckets` the running sums of the weighted choice | `hash`, `stake`, `infos` = its arguments |
| `MCNodeStart` | a table of parameters | |
| `MCNode` | the five loops around the core in one run | `loop` = the one the behaviour is about |
| `Node_proofs` | theorems of `NodeLoops`, `GasPrice`, `IpFilter` and the composition | |

`NodeLoops`, `GasPrice`, `IpFilter`, `SelectNext` and `MainLoop` share no variable: what one of them takes
from another in the code (an interval, the selected oracles of a view, a stake) is an input that may
be anything. `MCNode` therefore adds their state spaces instead of multiplying
them: the variable `loop` is chosen in the initial state, and the other four rest where they start.
A property of one loop holds in the sum exactly when it holds in the loop. `MCTurnInputs` does the same
for `PriceFeed` and `ConditionalSignal`.

Conventions. One action per stretch of code between two awaits that others can observe, errors and
early returns included. A `BCError` or an exception is an alternative of the action it ends. What the
contracts, the RPC node and the endpoint do is external and marked so in `PROJECT.json`. Definitions
headed `\* Defect:` are what a plausible slip in the code would make of the definition after them;
the specifications do not use them, they serve to see that a property can tell the two apart.

Abstractions worth knowing:

- Prices are a few integers; `price_delta` is compared without its division.
- A signature is the signer's name; a signed message is its price, publication block and round.
- `Order[round][block]` stands for `select_next` (any order of the selected oracles).
- In `PricePublication` the conditional service is disabled, and a node always has an exchange price.
- A node's clock appears only as "the signatures are fresh enough" (`SignaturesAge`) and in timeouts,
  which may strike at any await.
- What the exchanges answer, the chain's gas price, the registry and DNS move freely among a few values.
- `PriceFeed` counts time in rounds, `IpFilter` in seconds of which an interval has two.
- `SelectNext` has bytes of three values, and its draw is a product instead of a quotient of Decimals.
- `PricePublication` leaves a request that nobody answered to its attempt: a signer that answers after the
  attempt is over is left out, one that answers after enough others is not.
- `OracleConfiguration` has the kinds of parameters of the code's table that ask the registry: without a
  default, with one, with one and read as empty when it is not given (`ORACLE_ENTERING_FALLBACKS_AMOUNTS`),
  and with the default before the registry.

## 3. Runs

`tlc -config <run>.cfg <module>.tla`. Bounds are constants of the modules and named in the cfg.

| Run | Question | Result |
|---|---|---|
| `publication` | Does a fallback ever start early, or a disabled one at all? | holds |
| `publication_expiry` | Is an expiring price published when the chosen oracle is down for good? | holds |
| `publication_parallel` | The same without `INFO_ADDR`, all nodes up | **violated** (finding 2) |
| `publication_last_fallback` | Does every selected oracle get a turn in the end? | **violated** (finding 1) |
| `nonce_order` | One sender at a time; the next nonce, or a used one only after the node left a transaction uncounted for all the polls or an answer was lost; refinement of `AccountSends` | holds |
| `nonce_stopping` | With coin pairs removed and answers lost: is any waiter forgotten? | holds |
| `nonce_cancelled` | Does the lock stay exclusive when a waiting coin pair is removed? | **violated** (finding 3) |
| `tasks` | Are available tasks run with the chosen oracle down, and does no node endorse a fallback before it has waited itself? | holds |
| `turn_inputs` | Is the price read the one the documents promise, however late, skewed or missing the answers; can a signer find it again? Are NEED and UNNEED answered in the end, and the change to UNNEED recorded? | holds |
| `node` | Do the loops around the core keep their promises: coin pairs, gas price, addresses, turns, start and configuration? | holds |
| `environment_overridden` | Does a parameter given in the environment stay? | **violated** (finding 4) |
| `configuration_awaited` | Does a node that waits for its configuration get it from the registry in the end? | **violated** (finding 5) |

Bounds and why they are enough.

- Publication: three nodes are the least with a chosen oracle, a fallback that may enter and one
  that may not yet; one of them is down, one has fallbacks disabled, one restarts. Two rounds, the
  second without one node, so that cached rounds differ. Four blocks: a turn is open after one
  block and a second publication can follow the first while its memory of a price change lasts,
  which is what `NoEarlyFallback` needs to be violated. Two prices, apart by more than the delta.
  Several transactions in a mempool only repeat what one shows, since a second node's transaction
  can be sent once the first is gone. `publication_expiry` has no overtaking reads: a node that
  reads stale answers for ever has no right to progress.
- Nonces: three tasks are a holder, a woken waiter and one behind it; four transactions let each
  send and one send again. Three polls instead of twenty: the node counts before the first, between two,
  or after the last one. In `nonce_stopping`, where what a poll answers makes no difference, one.
- Signal: three blocks and two changes of the endpoint cover each edge both ways.
- Coin pairs: two, one that cannot be built, and two failures, enough for both lists of a pass to be
  errors.
- Gas: prices of which one is too small for ten percent to raise it and one is beyond the maximum,
  a low limit and one that outbids the chain, a minimum between the
  low prices and the others, the state loop and one publisher, whose calls overlap. More
  publishers repeat what one shows: a call is a value kept between two awaits.
- Addresses: three, so that two may expire with one that must stay; an interval of two seconds tells
  it from the retry of one.
- Selection: three oracles with stakes 0 to 2 and hashes of three digits of base three: every draw
  from zero to the maximum, every boundary of a bucket met exactly, ties and empty buckets.
- Start: a table of four: the manager's address and one that may be empty, neither with a default, the
  amounts of the fallbacks, which have one and may be empty, and a delay, whose default comes before the
  registry (the third order never asks it; the theorems are about any table); one value of the
  registry, told apart from the environment's and the default.
- Price feed: three exchanges of different weights, queues of three, four rounds: a queue overflows
  once, and a datum can be overtaken by one of a clock that runs ahead. Clocks so far ahead that several
  data overtake one need longer queues; that is what the theorem about `Spread` is for. All answer, all but one, or none.
- Tasks: three nodes, six blocks: tasks may go and come once, the fallback's wait ends, and the
  next publication may have another chosen oracle. Calls fail until block 2.

Deadlock is off where the bounds on blocks or rounds make a model stop (`publication*`, `tasks`,
`turn_inputs`), and where some loop may have nothing left to do (`node`, `environment_overridden`,
`configuration_awaited`: a node without failures left and nothing to stop, or one that only waits); it is
checked in the others.

Fairness.

- `PricePublication!Fairness`: the loops run for ever (`WF` of their steps); a signature that can be
  given in time infinitely often is (`SF`, as the publisher asks again after a second); a
  transaction that can be mined infinitely often is (`SF`).
- `NonceManager!FairSpec`: `WF` of a task's next step (the event loop runs ready tasks, each call has
  a timeout) and of the node counting its transactions.
- `MCTurnInputs!Fairness`, of the signal: `SF` of reads and of each answered fetch, because a fetch or
  another read may be in the way in between but is over soon.
- `MCNode!Fairness`: what `BgTaskExecutor` runs it runs for ever, whether it raised or not, hence `WF`
  of the next call of a coin pairs' pass, and of the next parameter of `initialize()` or `update()` or the
  next pass of `MainLoop`. A call that is made again and again is answered in the end: `SF` of the
  state loop's two requests about the gas price and of the registry's answer for each parameter,
  `SF` because a failing request may come in between. As a behaviour is about one loop, the
  formulas speak of the steps of two loops each, which spares the checker products. Of publishers nothing is assumed: they may
  never ask. `MainLoop!MainFairSpec` is the same of `MainLoop` alone.
- `TaskExecution!FairSpec`: as for publications, and `LoopsKeepUp`: after `LastDisturbed` every live
  node goes through its loop within a block (5 seconds against 30). Without it a loop slower than
  the chain may miss every block its turn is due at; the code has nothing against that.

## 4. Findings

1. *Last fallback never entitled* (`oracle_turn.py:77`). The sequence is completed only when its last
   entry is below `n - 1`. With twelve selected oracles and the default amounts 2, 4, 6, 8, 10 the
   last entry is eleven and the twelfth never gets a turn; the run shows it with three and amount 1.
2. *No turn without `INFO_ADDR`* (`oracle_blockchain_info_loop.py:76`): `block_num` is a second
   `get_last_pub_block()`, so it never passes `last_pub_block`.
3. *A cancelled waiter frees the holder's lock* (`blockchain.py:393`): the `finally` also covers the
   wait in `acquire()`.
4. *A parameter of the environment is overwritten* (`oracle_configuration.py:296`): the early return for
   the order configuration, default, registry asks only whether the default was taken, so
   `ORACLE_BLOCKCHAIN_STATE_DELAY` from the environment lasts until the first `update()`.
5. *A node that waits for its configuration waits for ever* (`main_loop.py:36`). When the address of the
   manager is neither given nor in the registry (or the registry does not answer) at the start, every pass
   logs "waiting to get configuration from blockchain" (`main_loop.py:37`) and returns before
   `conf.update()`, the only call that could learn it. `README.md:87` says that the server "gets the
   parameters from the blockchain". A restart helps (`StuckUntilRestarted`).

Seen while modelling, without a document that says otherwise, and part of the models as it is:

- `process_tx` wraps a receipt of either status in `BCSuccess`, so a reverted publication is logged as
  published (`blockchain.py:322`; `PricePublication!Reverted`).
- After a failed multicall `offline_cfg()` forgets that it answered UNNEED, so the return to NEED comes
  without its block and fallbacks whose wait is over enter at once (`conditional_publish.py:714`).
- When a multicall fails between the test of `is_running` and the assignment, the change to UNNEED is recorded
  at None, and `oracle_turn.py:277`, which compares it with a block, raises `TypeError` in every turn that
  is evaluated until the next change to UNNEED. `ChangeToUnneedIsRecorded` says when that can be.
- A node whose `_startup` raises does not try again, since `initialized` is set before (`main_loop.py:39`),
  and goes on updating its configuration without any loop. Set after it, a second `_startup()` would start
  the loops that `tasks` holds already once more, which is what `LoopsRunOnce` excludes.
- `README.md:87` and `:96` speak of missing parameters that are taken from the registry. The orders in
  `oracle_configuration.py:29-33` are finer: of one whose order ends with the registry a default is kept,
  which is how `HigherPriorityWins` reads them. `ORACLE_ENTERING_FALLBACKS_AMOUNTS` is never asked for in the
  registry even when it is missing, against its own order: bytes that are not given read as `None`
  and not as missing (`oracle_configuration.py:17-19`, `:258`).
- A parameter that was missing at the start and is in the registry later makes `update()` raise at
  it, and the ones after it are not updated any more (`oracle_configuration.py:287`);
  `RegistryIsFollowed` excepts them.
- The comment that heads `select_next` describes a remainder and half-open buckets; the code scales
  the hash to the sum of the stakes and compares with `>`, so a draw at a boundary belongs to the
  lower bucket, and a draw of zero to the first oracle even without a stake. The orders the tests
  expect are those of the code.
- The purge of `ip_filter_loop.py:51` raises once it has deleted one address, the first expired one in
  the dictionary's order; since the pass runs again after a second, and new addresses enter behind, each
  address is purged in its turn, which is what `StrangersAreRefused` allows for.
- With a gas price so small that the percentage rounds to nothing the price can never rise again
  (`blockchain.py:173`); `GasPriceFollows` excepts it.

## 5. Proofs

`tlapm <module>_proofs.tla`, eight modules. For every value of the constants that satisfies the
modules' assumptions:

- `PricePublication_proofs!TypeCorrect`: `TypeOK`, with both ways of reading the chain.
- `PricePublication_proofs!NeverEarly`: `NoEarlyFallback`, given `AmountsGrow` (the configured
  amounts never go down, as in every default) and `InfoService = Node`. `SequenceGrows` shows that
  the fallback sequence never goes down, `LaterIsNoLess` that an entitlement is therefore not taken
  back later, `DecisionEntitled` that a decision on a cached view is an entitlement at that view's
  block. `NoEarlyFallback` is not inductive: a decision may use any cached view and any remembered
  change, so `PastInv` adds that no view is ahead of the chain, and no remembered change is older
  than the publication it is remembered for.
- `PricePublication_proofs!DisabledNeverFallBack`: `OnlyChosenWhenDisabled`; `AttemptStep` says that
  every attempt goes on for its publication or starts on a decision.
- `PricePublication_proofs!EverybodyInTheEnd`: `AllEntitledInTheEnd`, which the code breaks (finding 1),
  given `NobodyLeftOut`: no order is exactly one address longer than the amounts reach. So that one
  length is all the finding costs. `SequenceReachesAll` says that any other sequence ends with everybody.
- `NonceManager_proofs!TypeCorrect`: for any cancellation and RPC behaviour.
- `NonceManager_proofs!NobodyForgotten`: `NoWaiterForgotten`, for any cancellation; it is inductive by
  itself, every release either waking the first waiter or leaving the lock as it was. What it says
  of a wrongly freed lock (finding 3) is that nobody is stuck behind it.
- `NonceManager_proofs!Exclusion`: `MutualExclusion` along every behaviour in which no task is cancelled
  while it waits (`[][NoWaiterCancelled]_vars`); holders may be. With `ExclusionInv` (the lock is
  taken exactly while somebody holds it; the first waiter is called in only while it is free). So the
  `finally` over `acquire()` is all of finding 3: the one over what follows it is harmless to the lock.
- `NonceManager_proofs!SendsRefined`, given `Cancellable = {}`: with `OwnSendsInv` (besides, no thread
  sends for a task that is gone). A cancelled holder's thread may send under somebody else's turn,
  so here the assumption is about holders too.
- `NonceManager_proofs!NoncesInOrder`, given only `Cancellable = {}`: `NonceIsNext`, for any number of polls,
  however late the node counts and whatever it loses. With `NonceInv`: whenever the lock changes hands the
  node has counted every transaction, or it has left the last one uncounted for all the polls, or an answer about
  it was lost. Its heart is that who waits for the count has made no more polls than the node has had
  time since it took the transaction (`polls[t] <= elapsed`), so giving up means that the time is over.
- `ConditionalSignal_proofs!TypeCorrect`, and `UnneedRecorded`: `ChangeToUnneedIsRecorded` with
  `RecordedInv` (the block of the change to NEED is one the service has fetched: not ahead of
  `_last_block`, which is not ahead of the chain; and while a read is past its test of `is_running`,
  `_last_block` is a block or a multicall has failed during that read). So None, where it is recorded, has
  that one cause, and no failure before or after the read leaves it.
- `TaskExecution_proofs!TypeCorrect`: `TypeOK`, which needs that an attempt keeps its shape through the
  receipt of another attempt's transaction.
- `TaskExecution_proofs!WaitedBefore`: `EndorsedAfterWait`, with `StartedInv` (the wait is 0 only before a
  node's first iteration, because one that finds nothing leaves None) and `OnlyAnswersSign` (while an
  attempt gathers, nothing but a node's answer adds its signature).
- `Node_proofs!FailuresAreHarmless`: `FailuresStopNothing`. `LapseInv` says that each pair a list
  leaves out was, at some moment of the pass, not subscribed by that address; `ErrorInv` that a list
  that is an error is never extended. A pair is deleted only when both lists exist and leave it out.
- `Node_proofs!Limited` and `Tamed`: `WithinHardLimits` and `SpikesAreTamed`, for any limits,
  percentage, multiplier and callers. Both follow from one lemma, `CurrentIs`, which bounds what
  `get_current` computes from any answer; the first is inductive with the types, the second needs
  them to know that a late answer is still a price.
- `Node_proofs!Grace`: `GraceIsKept`, inductive with the types: a purge takes only what is
  older than two intervals, and an age that is capped is older than that.
- `Node_proofs!Refused`: `StrangersAreRefused`, for any number of addresses that expire together. The
  bound on an address's age is not inductive, because it says nothing of whose turn it is to be
  purged. `RefusedInTurn` gives each address a bound that is a second less for every place it is further
  back in the dictionary: a pass that purges another address before its own takes a second and
  moves it one place forward, and what comes back goes behind. This is why the dictionary's order is part
  of the model: if any expired address could be purged, others could come back before its turn.
- `Node_proofs!NodeTypeCorrect`: `TypeOK` of `MCNode`, from the type theorems of the five loops and
  `LoopsOfTheNode`: the composition is a behaviour of each of them.
- `MainLoop_proofs!OnceEach`: `LoopsRunOnce` with `StartInv` (`tasks` is filled at most once, because a pass
  that fills it leaves `initialized` set, and no `update()` runs before).
- `MainLoop_proofs!StuckUntilRestarted`: how far finding 5 goes, and the start that raised. Of a node past
  `initialize()` whose loops do not run, no step but a restart changes that. `PrioritiesKept`:
  `HigherPriorityWins` with `SourcesInv` (`from_conf` and `from_default` agree with the environment for
  every parameter that has been read). For any table, registry and failures.
- `SelectNext_proofs!Everyone`: `EveryoneOnce`. The shuffle parts the list it draws from: after every draw
  what is left and what was taken are without repetition, disjoint, and as many as the list
  (`PartedOnce`, with `RemovedOnce`), so the shuffled list is a bijection (`ShuffledIs`), and the order of
  the turns is a rotation of it (`TurnsAre`). `ListInvariant` says that the lists it starts from are proper.
- `SelectNext_proofs!StakelessIsPassed`: `StakelessIsNotChosen`. The chosen oracle's bucket is the first
  that the draw is not beyond (`FirstNotBeyond`), so a draw that is positive is beyond the bucket
  before, and the two would be equal without a stake (`BucketsAre`).
- `PriceFeed_proofs!FeedTypeCorrect`: `FeedTypeOK`. A queue never outgrows its length (`PushLength`), and
  what a publication read is an available price, because the median exists.
- `PriceFeed_proofs!MedianSplitsAlways`: `MedianSplitsTheWeight`. The order of the sorted data is total on
  data of one exchange each (`SortedIsTotal`), a finite set has a least element in such an order
  (`Least`), so the median exists (`MedianIs`); weights are counted as votes, which add up over
  disjoint sets (`WeightsAdd`), and the sums of what is below and above follow (`MedianSplits`).
- `PriceFeed_proofs!Nearest`: `NearestAndMostRecent`, for any queue of data in any order
  (`FirstNearestIs`, from the well-foundedness of the naturals, and `NearestIsNearest`).
- `PriceFeed_proofs!StalledIsSilent`: `StalledExchangeIsSilent` with `StalledInv` (data of an exchange
  whose clock is not ahead have stamps before the coming round, and the last datum of a stalled one has no
  price and is later than all the others, also when a full queue drops its oldest).
- `PriceFeed_proofs!PastIsKept`: `RecentPastIsKept`, for any clocks and lengths of queues. Two invariants.
  `TimedInv`: the data of a queue were put in in rounds of their own, in order, and no stamp is
  further from its round than the exchange's clock. Hence `FewLater`: after the datum nearest to the
  present there are at most `Spread` others. `PastInv`: the datum that was published is in its queue, the
  first with its stamp, with no more behind it than `Spread` and the rounds since; `PushKeeps` is its step,
  and `ReadAgain` concludes that it is what its own time reads.

`Spread` counts two kinds of data that may follow the nearest one: those stamped no later than it, and
those stamped so far ahead that they are less near. The second kind exists when a clock is at
least three rounds ahead; counting only the first, or one less of the second, TLC refutes
`RecentPastIsKept` with one exchange whose clock is now right, now four or five rounds ahead.

The forms of the arguments recur: a least counterexample (`Smallest`, from `WFMin`) where the prover
has no induction, a recursive function unfolded one step at a time, and a measure that a
full queue or a purged dictionary moves by at most one.

Every invariant and action property of the runs that hold is a theorem. Only model-checked:
liveness under fairness (`ExpiringPriceIsRepublished`, `WaitersServed`, `NeedReachesTurn`,
`UnneedReachesTurn`, `TasksAreRun`, `PairsRun`, `UnsubscribedPairsStop`, `GasPriceFollows`,
`RegistryIsFollowed`), which the prover does not handle, and the findings. No module declares a RECURSIVE
operator.

## 6. Not modelled, and why

- HTTP routing and parsing, the monitor, the contract wrappers, multicall and cryptography carry no
  state that another part reads. The address filter of the web server is `IpFilter!IsValidIp`; what a
  request to sign does is the signer's action in `PricePublication` and `TaskExecution`.
- The scripts and Docker tools are run by hand, against a node or its logs.
- `shutdown` of the loops: the process ends with it and nothing is persisted. The one cancellation
  that happens in a running node, a coin pair that is removed, is in `NonceManager`.
- The parsing of each exchange's JSON, an input of `PriceFeed`; the rounding of Decimals at 28 digits,
  in the weights and in the draw of `select_next`; more than 32 selected oracles, for which
  `select_next` raises as the hash has no more bytes.
- In `PricePublication`: the intervals between iterations, the initial round, a feed without a price,
  legacy message versions. In `TaskExecution`: a node's restart, and the calls of one signing request
  one by one.

## 7. Plan

Done, in this order: `OracleTurn`, `PricePublication`, `AccountSends` and `NonceManager` with their
proofs, `ConditionalSignal`, `NodeLoops`, `TaskExecution`, `PricePublication_proofs`; then `PriceFeed`,
`GasPrice`, `IpFilter`, `SelectNext`, `OracleConfiguration`, `MainLoop`, `MCNode`, and the proofs of
`ConditionalSignal`, `MainLoop` and of what reading a price gives; then the rest of `PriceFeed_proofs`,
`Node_proofs`, `SelectNext_proofs` and `TaskExecution_proofs`.

Left:

1. The turn with the conditional service on: `ConditionalSignal`'s edges as the signal of
   `PricePublication`, to see a return to NEED without its block reach a publication.
2. `PriceFeed` composed with the signer's delta, and `MCPricePublication!Order` from `SelectNext`.
3. `NonceManager`'s cancellations driven by `NodeLoops`.
