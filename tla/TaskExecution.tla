---------------------------- MODULE TaskExecution ----------------------------
(***************************************************************************)
(* The execution of on-chain tasks by a group of oracle nodes: TasksRunner *)
(* (oracle/src/tasks_runner.py) in the OracleCoinPairLoop of each node,    *)
(* with TasksOracleTurn and the signer's TaskRequestValidation.            *)
(*                                                                         *)
(* A node counts the fallbacks' wait from the block of its own view when   *)
(* its loop first found tasks available, and starts again when it finds    *)
(* none.  It asks the contract with calls that may fail, and a call that   *)
(* fails counts as "no tasks".  The chain's view of a node may be old: it  *)
(* is read before those calls, and used after them.                        *)
(***************************************************************************)
EXTENDS OracleTurn, FiniteSets

CONSTANTS Node,                \* the oracle nodes
          Live,                \* the nodes that run
          Order,               \* Order[block]: select_next_addresses after a run of tasks
          Tasks,               \* the sets of available tasks, as flags; 0 is none
          Stuck,               \* Stuck[n]: flags whose tasks are all in IGNORE_POSSIBLY_STUCK_TASKS
          FallbacksDisabled,   \* the nodes with settings.DISABLE_FALLBACKS
          LastAppear,          \* bound: no tasks become available after this block
          LastDisturbed,       \* after this block calls are answered and loops keep up
          LastTick, MaxBlock,  \* bounds: no empty block after LastTick, no block after MaxBlock
          MaxMempool           \* bound: transactions waiting to be mined

Block == 1 .. MaxBlock

ASSUME TasksAssumption ==
  /\ Live \subseteq Node /\ FallbacksDisabled \subseteq Node
  /\ {LastAppear, LastDisturbed, LastTick, MaxBlock, MaxMempool} \subseteq Nat
  /\ 1 <= MaxBlock /\ LastTick <= MaxBlock
  /\ Tasks \subseteq Nat \ {0}
  /\ Order \in [Block -> Seq(Node) \ {<<>>}]
  /\ Stuck \in [Node -> SUBSET Tasks]

VARIABLES chain,      \* block_num, last_pub_block and the flags of the available tasks
          info,       \* OracleBlockchainInfoLoop._blockchain_info of each node
          since,      \* TasksRunner._last_block_when_available of each node
          attempt,    \* the running iteration of each node's loop
          mempool,    \* runTasks sent and not yet mined
          evaluated   \* the block of the view each node last evaluated its turn with

vars == <<chain, info, since, attempt, mempool, evaluated>>

NoInfo      == [block_num |-> -1]
NoAttempt   == [stage |-> "none"]
Unavailable == -1                  \* _last_block_when_available is None

View        == [block_num |-> chain.block_num, last_pub_block |-> chain.last_pub_block]
Selected(b) == {Order[b][i] : i \in DOMAIN Order[b]}

Init ==
  /\ chain = [block_num |-> 1, last_pub_block |-> 1, flags |-> 0]
  /\ info = [n \in Node |-> NoInfo]
  /\ since = [n \in Node |-> 0]
  /\ attempt = [n \in Node |-> NoAttempt]
  /\ mempool = {}
  /\ evaluated = [n \in Node |-> 0]

-----------------------------------------------------------------------------
(* The contract *)

Appear == IF chain.block_num < LastAppear THEN Tasks ELSE {}

\* Every running node goes through its loop in the time of a block.
LoopsKeepUp == \A n \in Live : evaluated[n] = chain.block_num

Tick ==
  /\ chain.block_num < LastTick
  /\ chain.block_num <= LastDisturbed \/ LoopsKeepUp
  /\ \E f \in {chain.flags} \cup Appear :
       chain' = [chain EXCEPT !.block_num = @ + 1, !.flags = f]
  /\ UNCHANGED <<info, since, attempt, mempool, evaluated>>

\* The contract's own checks (external).
Acceptable(tx) ==
  /\ tx.last_pub_block = chain.last_pub_block
  /\ tx.by \in Selected(chain.last_pub_block)
  /\ tx.flags # 0 /\ tx.flags = chain.flags
  /\ 2 * Cardinality(tx.sigs \cap Selected(chain.last_pub_block))
       > Cardinality(Selected(chain.last_pub_block))

Tx(n, a) == [by |-> n, flags |-> a.flags, last_pub_block |-> a.vi.last_pub_block, sigs |-> a.sigs]

\* Defect: the receipt is taken for one of the running attempt, whatever it does.
ReceiptToAnyone(tx) == attempt' = [attempt EXCEPT ![tx.by].stage = "mined"]

\* The receipt, of either status, reaches the sender if it still waits for it.
ReceiptTo(tx) ==
  attempt' = IF attempt[tx.by].stage = "sent" /\ Tx(tx.by, attempt[tx.by]) = tx
             THEN [attempt EXCEPT ![tx.by].stage = "mined"]
             ELSE attempt

TasksRun(tx) ==
  /\ chain.block_num < MaxBlock
  /\ Acceptable(tx)
  /\ \E f \in {0} \cup Appear :
       chain' = [block_num |-> chain.block_num + 1, last_pub_block |-> chain.block_num + 1,
                 flags |-> f]
  /\ mempool' = mempool \ {tx}
  /\ ReceiptTo(tx)
  /\ UNCHANGED <<info, since, evaluated>>

Reverted(tx) ==
  /\ ~Acceptable(tx)
  /\ mempool' = mempool \ {tx}
  /\ ReceiptTo(tx)
  /\ UNCHANGED <<chain, info, since, evaluated>>

\* What a call to the contract answers: the value, or the one of an error.
Answers(value, of_error) == {value} \cup IF chain.block_num <= LastDisturbed THEN {of_error} ELSE {}

-----------------------------------------------------------------------------
(* The node *)

Refresh(n) ==
  /\ n \in Live
  /\ info' = [info EXCEPT ![n] = View]
  /\ UNCHANGED <<chain, since, attempt, mempool, evaluated>>

\* TasksOracleTurn, for tasks that are available.
IsTasksTurn(first, vi, n, addresses, only_chosen) ==
  LET blocks == vi.block_num - first
  IN  /\ SelectedInRound(n, addresses)
      /\ blocks >= PricePublishBlocks
      /\ CanOraclePublish(blocks - PricePublishBlocks, n, addresses, only_chosen)

\* The loop keeps the view it has, and asks areTasksAvailable.
Look(n) ==
  /\ n \in Live /\ attempt[n] = NoAttempt /\ info[n] # NoInfo
  /\ \E available \in Answers(chain.flags # 0, FALSE) :
       attempt' = [attempt EXCEPT ![n] =
                     [stage |-> "look", vi |-> info[n], available |-> available]]
  /\ UNCHANGED <<chain, info, since, mempool, evaluated>>

\* The tasks a node leaves alone; a getter that reverts hides them.
Ignores(n) == Answers(chain.flags \in Stuck[n], FALSE)

\* Defect: the wait starts again in every iteration that finds tasks.
RestartedEveryTime(n, vi) == vi.block_num

\* The block the wait counts from: the first one, unless it is 0 or None.
FirstAvailable(n, vi) == IF since[n] \in {0, Unavailable} THEN vi.block_num ELSE since[n]

\* Defect: a node that finds no tasks is left as it started.
NoneSinceStart(tasks, first) == IF tasks THEN first ELSE 0

\* What _last_block_when_available becomes.
SinceAfter(tasks, first) == IF tasks THEN first ELSE Unavailable

NewAttempt(n, flags) ==
  [stage |-> "gather", vi |-> attempt[n].vi, flags |-> flags, asked |-> {n}, sigs |-> {n}]

\* The flags arrive; the turn is evaluated on the view kept, and a message made.
Evaluate(n) ==
  /\ attempt[n].stage = "look"
  /\ \E flags \in Answers(chain.flags, 0), ignored \in Ignores(n) :
       LET vi    == attempt[n].vi
           first == FirstAvailable(n, vi)
           tasks == attempt[n].available /\ ~ignored
           turn  == tasks /\ IsTasksTurn(first, vi, n, Order[vi.last_pub_block],
                                         n \in FallbacksDisabled)
       IN  /\ since' = [since EXCEPT ![n] = SinceAfter(tasks, first)]
           /\ attempt' = [attempt EXCEPT ![n] = IF turn THEN NewAttempt(n, flags) ELSE NoAttempt]
  /\ evaluated' = [evaluated EXCEPT ![n] = attempt[n].vi.block_num]
  /\ UNCHANGED <<chain, info, mempool>>

Oracles(a)    == Selected(a.vi.last_pub_block)
EnoughSigs(a) == Cardinality(a.sigs) >= Cardinality(Oracles(a)) \div 2 + 1
Gathering(n)  == attempt[n].stage = "gather"

Send(n) ==
  /\ Gathering(n) /\ EnoughSigs(attempt[n])
  /\ Cardinality(mempool) < MaxMempool
  /\ attempt' = [attempt EXCEPT ![n].stage = "sent"]
  /\ mempool' = mempool \cup {Tx(n, attempt[n])}
  /\ UNCHANGED <<chain, info, since, evaluated>>

\* publish() returns False, or an exception ends it.
PublishFails(n) ==
  /\ attempt[n].stage \in {"gather", "sent"}
  /\ attempt' = [attempt EXCEPT ![n] = NoAttempt]
  /\ UNCHANGED <<chain, info, since, mempool, evaluated>>

\* A receipt of either status ends the attempt with a forced update, which may fail.
PublishReturns(n) ==
  /\ attempt[n].stage = "mined"
  /\ attempt' = [attempt EXCEPT ![n] = NoAttempt]
  /\ \E s \in {View, info[n]} : info' = [info EXCEPT ![n] = s]
  /\ UNCHANGED <<chain, since, mempool, evaluated>>

-----------------------------------------------------------------------------
(* The signer *)

\* Validating tasks changes nothing at the signer: an answer that comes after enough
\* others is none.
Asks(n, m) ==
  /\ Gathering(n) /\ ~EnoughSigs(attempt[n])
  /\ m \in Oracles(attempt[n]) \ attempt[n].asked

\* TaskRequestValidation at m, with the availability asked anew and the wait of
\* m's own loop.  While that is None only the chosen oracle passes: the turn of
\* a fallback raises.  While it is 0, after a start, every fallback does.
Endorses(m, n, available, flags) ==
  LET a         == attempt[n]
      addresses == Order[a.vi.last_pub_block]
  IN  /\ info[m] # NoInfo
      /\ available
      /\ a.vi.last_pub_block = info[m].last_pub_block
      /\ a.flags = flags
      /\ \/ n = addresses[1]
         \/ since[m] # Unavailable /\ IsTasksTurn(since[m], info[m], n, addresses, FALSE)

\* The calls of one request are taken as one.
Answer(m, n) ==
  /\ m \in Live /\ Asks(n, m)
  /\ \E tasks \in Answers(chain.flags # 0, FALSE), flags \in Answers(chain.flags, 0),
        ignored \in Ignores(m), delivered \in BOOLEAN :
       LET available == tasks /\ ~ignored
       IN  attempt' = [attempt EXCEPT
             ![n].asked = @ \cup {m},
             ![n].sigs  = IF Endorses(m, n, available, flags) /\ delivered THEN @ \cup {m} ELSE @]
  /\ UNCHANGED <<chain, info, since, mempool, evaluated>>

NoAnswer(m, n) ==
  /\ Asks(n, m)
  /\ attempt' = [attempt EXCEPT ![n].asked = @ \cup {m}]
  /\ UNCHANGED <<chain, info, since, mempool, evaluated>>

-----------------------------------------------------------------------------
Next ==
  \/ Tick
  \/ \E tx \in mempool : TasksRun(tx) \/ Reverted(tx)
  \/ \E n \in Node : Refresh(n) \/ Look(n) \/ Evaluate(n) \/ Send(n)
                     \/ PublishFails(n) \/ PublishReturns(n)
  \/ \E m, n \in Node : Answer(m, n) \/ NoAnswer(m, n)

Spec == Init /\ [][Next]_vars

\* The loops run for ever; an endorsement that is given in time infinitely often
\* is used in the end, and so is a transaction.
FairSpec ==
  /\ Spec
  /\ WF_vars(Tick)
  /\ \A n \in Live : /\ WF_vars(Refresh(n)) /\ WF_vars(Look(n)) /\ WF_vars(Evaluate(n))
                     /\ SF_vars(Send(n)) /\ WF_vars(PublishFails(n)) /\ WF_vars(PublishReturns(n))
  /\ \A m, n \in Live : SF_vars(Answer(m, n) /\ m \in attempt'[n].sigs)
  /\ SF_vars(\E tx \in mempool : TasksRun(tx))

-----------------------------------------------------------------------------
(* Properties *)

BlockView == [block_num : Block, last_pub_block : Block]
Flags     == Tasks \cup {0}
Attempt   == [stage : {"gather", "sent", "mined"}, vi : BlockView, flags : Flags,
              asked : SUBSET Node, sigs : SUBSET Node]

\* The shape of the state.
TypeOK ==
  /\ chain \in [block_num : Block, last_pub_block : Block, flags : Flags]
  /\ info \in [Node -> BlockView \cup {NoInfo}]
  /\ since \in [Node -> Block \cup {0, Unavailable}]
  /\ attempt \in [Node -> {NoAttempt} \cup Attempt
                          \cup [stage : {"look"}, vi : BlockView, available : BOOLEAN]]
  /\ evaluated \in [Node -> Block \cup {0}]
  /\ mempool \subseteq [by : Node, flags : Flags, last_pub_block : Block, sigs : SUBSET Node]

\* A node that has once gone through its loop endorses a fallback only after it has
\* itself waited PricePublishBlocks since it found tasks, whatever it found before
\* and whichever view the fallback acts on: that every fallback passes while the
\* wait is 0 is over with the first iteration.
EndorsedAfterWait ==
  [][\A m, n \in Node :
       /\ Gathering(n) /\ Gathering(n)'
       /\ m \in attempt'[n].sigs \ attempt[n].sigs
       /\ n # Order[attempt[n].vi.last_pub_block][1]
       => \/ evaluated[m] = 0
          \/ since[m] \in Block /\ info[m].block_num - since[m] >= PricePublishBlocks]_vars

\* Tasks that are available are run, or others take their place, although the
\* chosen oracle is down and calls have failed: the waits of the fallback and of
\* the nodes that must endorse it start and end in time on every node.
TasksAreRun == \A f \in Tasks : chain.flags = f ~> chain.flags # f
=============================================================================
