---------------------------- MODULE NonceManager ----------------------------
(***************************************************************************)
(* Sending transactions from one account: BlockChainContract.bc_execute    *)
(* and the NonceManager of common/services/blockchain.py.                  *)
(*                                                                         *)
(* Every coin pair of a node has a background task that sends from the     *)
(* node's only account, through one BlockChain object and so through one   *)
(* lock.  A task takes the asyncio.Lock, reads the pending nonce from the  *)
(* RPC node, sends, waits for the receipt, polls until the nonce advances  *)
(* or the attempts are used up, and releases; a `finally' releases once    *)
(* more.  The lock is asyncio's: first come first served, and a release    *)
(* lets the first waiter in only when that task runs again.                *)
(*                                                                         *)
(* A task may be cancelled at any await (OracleLoop.delete_coin_pair stops *)
(* a coin pair's tasks while the others go on); what a thread of the       *)
(* executor was sending is sent all the same.                              *)
(***************************************************************************)
EXTENDS Integers, Sequences

CONSTANTS Task,            \* background tasks that send from the account
          Nobody,
          Cancellable,     \* the tasks that may be cancelled
          Attempts,        \* polls for the nonce to advance (20)
          Lag,             \* may the RPC node count a transaction late?
          RpcUnreliable,   \* may the answer to a send, or for a receipt, be lost?
          MaxNonce         \* bound: transactions sent

ASSUME NonceAssumption ==
  /\ Nobody \notin Task
  /\ Cancellable \subseteq Task
  /\ {Lag, RpcUnreliable} \subseteq BOOLEAN
  /\ Attempts \in Nat /\ MaxNonce \in Nat

VARIABLES locked,    \* asyncio.Lock._locked
          waiters,   \* asyncio.Lock._waiters
          woken,     \* the first waiter has been told to go on and has not run yet
          pc,        \* where each task is in bc_execute
          nonce,     \* the nonce each task read
          polls,     \* the polls each task made after its last transaction
          pending,   \* the account's next nonce at the RPC node
          visible,   \* the one getTransactionCount(addr, "pending") answers
          inflight,  \* nonces being sent by threads whose task was cancelled
          elapsed,   \* history: polls' time since the node took a transaction, at least
          lost       \* history: an answer about the last transaction was lost

lockVars == <<locked, waiters, woken>>
nodeVars == <<pending, visible, inflight, elapsed, lost>>
vars == <<lockVars, pc, nonce, polls, nodeVars>>

Holding == {"fetch", "send", "receipt", "commit"}
Holders == {t \in Task : pc[t] \in Holding}

Init ==
  /\ locked = FALSE /\ waiters = <<>> /\ woken = FALSE
  /\ pc = [t \in Task |-> "idle"]
  /\ nonce = [t \in Task |-> 0] /\ polls = [t \in Task |-> 0]
  /\ pending = 0 /\ visible = 0 /\ inflight = {}
  /\ elapsed = 0 /\ lost = FALSE

Goto(t, place) == pc' = [pc EXCEPT ![t] = place]

-----------------------------------------------------------------------------
(* asyncio.Lock *)

\* release(): free the lock and wake the first of `queue'.
WakeFirst(queue) == locked' = FALSE /\ woken' = (queue # <<>>)

\* NonceManager.release, the unlock of the `finally': only if it is locked,
\* but whoever holds it.
ReleaseIfLocked(queue) ==
  IF locked THEN WakeFirst(queue) ELSE UNCHANGED <<locked, woken>>

\* Defect: a task that arrives while the lock is free overtakes the woken waiter.
AcquireBarging(t) ==
  /\ pc[t] = "idle"
  /\ IF ~locked
     THEN locked' = TRUE /\ waiters' = waiters /\ Goto(t, "fetch")
     ELSE locked' = locked /\ waiters' = Append(waiters, t) /\ Goto(t, "waiting")
  /\ UNCHANGED <<woken, nonce, polls, nodeVars>>

Acquire(t) ==
  /\ pc[t] = "idle"
  /\ IF ~locked /\ waiters = <<>>
     THEN locked' = TRUE /\ waiters' = waiters /\ Goto(t, "fetch")
     ELSE locked' = locked /\ waiters' = Append(waiters, t) /\ Goto(t, "waiting")
  /\ UNCHANGED <<woken, nonce, polls, nodeVars>>

GetsLock(t) ==
  /\ pc[t] = "waiting" /\ woken /\ Head(waiters) = t
  /\ locked' = TRUE /\ woken' = FALSE /\ waiters' = Tail(waiters)
  /\ Goto(t, "fetch")
  /\ UNCHANGED <<nonce, polls, nodeVars>>

-----------------------------------------------------------------------------
(* bc_execute with the lock *)

\* Defect: the nonce of the last transaction instead of the next one.
FetchLastNonce(t) ==
  /\ pc[t] = "fetch"
  /\ nonce' = [nonce EXCEPT ![t] = visible - 1]
  /\ Goto(t, "send")
  /\ UNCHANGED <<lockVars, polls, nodeVars>>

FetchNonce(t) ==
  /\ pc[t] = "fetch"
  /\ nonce' = [nonce EXCEPT ![t] = visible]
  /\ Goto(t, "send")
  /\ UNCHANGED <<lockVars, polls, nodeVars>>

\* The RPC node takes a transaction with the next nonce, counted now or later.
NodeTakes(n, answered) ==
  /\ n = pending /\ pending < MaxNonce
  /\ pending' = pending + 1
  /\ visible' \in IF Lag THEN {visible, pending + 1} ELSE {pending + 1}
  /\ elapsed' = 0 /\ lost' = ~answered

\* One with a nonce it has taken already replaces the transaction that had it.
NodeReplaces(n) == n < pending /\ UNCHANGED <<pending, visible, elapsed, lost>>

\* The transaction is sent; the caller waits for its receipt or does not.
Sent(t) ==
  /\ pc[t] = "send"
  /\ NodeTakes(nonce[t], TRUE) \/ NodeReplaces(nonce[t])
  /\ \E place \in {"receipt", "commit"} : Goto(t, place)
  /\ UNCHANGED <<lockVars, nonce, polls, inflight>>

\* The receipt comes; the count may lag behind it.
Receipt(t) ==
  /\ pc[t] = "receipt"
  /\ Goto(t, "commit")
  /\ UNCHANGED <<lockVars, nonce, polls, nodeVars>>

\* What ends a call: before the send, the node does not answer or refuses (a used
\* nonce, too); at the send its answer is lost.  While the receipt is awaited a
\* poll for it fails, or 10 minutes pass, more than the polls of a commit take.
Fails(t) ==
  \/ pc[t] \in {"fetch", "send"} /\ UNCHANGED nodeVars
  \/ /\ pc[t] = "send" /\ RpcUnreliable
     /\ NodeTakes(nonce[t], FALSE) \/ NodeReplaces(nonce[t])
     /\ UNCHANGED inflight
  \/ /\ pc[t] = "receipt"
     /\ \/ RpcUnreliable /\ lost' = TRUE /\ elapsed' = elapsed
        \/ lost' = lost /\ elapsed' = Attempts
     /\ UNCHANGED <<pending, visible, inflight>>

\* Defect: an exception leaves the lock taken.
ExceptionKeepsLock(t) ==
  /\ Fails(t)
  /\ Goto(t, "idle")
  /\ UNCHANGED <<lockVars, nonce, polls>>

\* An exception ends the call and the `finally' releases.
Exception(t) ==
  /\ Fails(t)
  /\ ReleaseIfLocked(waiters)
  /\ Goto(t, "idle")
  /\ UNCHANGED <<waiters, nonce, polls>>

\* wait_for_commit_and_release, its loop: the nonce has not advanced, or the call
\* raised, and half a second passes.
Poll(t) ==
  /\ pc[t] = "commit" /\ polls[t] < Attempts
  /\ polls' = [polls EXCEPT ![t] = @ + 1]
  /\ elapsed' = IF elapsed < Attempts THEN elapsed + 1 ELSE elapsed
  /\ UNCHANGED <<lockVars, pc, nonce, pending, visible, inflight, lost>>

Release(t) ==
  /\ ReleaseIfLocked(waiters)
  /\ Goto(t, "idle")
  /\ polls' = [polls EXCEPT ![t] = 0]
  /\ UNCHANGED <<waiters, nonce, nodeVars>>

\* Defect: it gives up one poll too early.
CommitEarly(t) ==
  /\ pc[t] = "commit"
  /\ visible > nonce[t] \/ polls[t] + 1 >= Attempts
  /\ Release(t)

\* Its end, seen or given up, and the `finally' after it, which finds the lock
\* free: the first waiter has not run yet.  Lock.release raises when the lock is
\* free already; the call then ends with an error instead of a result.
Commit(t) ==
  /\ pc[t] = "commit"
  /\ visible > nonce[t] \/ polls[t] = Attempts
  /\ Release(t)

-----------------------------------------------------------------------------
(* Cancellation *)

Without(i) == SubSeq(waiters, 1, i - 1) \o SubSeq(waiters, i + 1, Len(waiters))

\* Defect: a cancelled waiter that had been woken does not wake the next one.
CancelWaiterSilently(t) ==
  \E i \in DOMAIN waiters :
    /\ t \in Cancellable /\ pc[t] = "waiting" /\ waiters[i] = t
    /\ waiters' = Without(i)
    /\ IF locked THEN WakeFirst(Without(i)) ELSE locked' = locked /\ woken' = FALSE
    /\ Goto(t, "idle")
    /\ UNCHANGED <<nonce, polls, nodeVars>>

\* A waiter leaves the queue, wakes the next one if the lock is free, and then
\* the `finally' of bc_execute releases the lock it never had.
CancelWaiter(t) ==
  \E i \in DOMAIN waiters :
    /\ t \in Cancellable /\ pc[t] = "waiting" /\ waiters[i] = t
    /\ waiters' = Without(i)
    /\ IF locked THEN WakeFirst(Without(i))
                 ELSE locked' = locked /\ woken' = (Without(i) # <<>>)
    /\ Goto(t, "idle")
    /\ UNCHANGED <<nonce, polls, nodeVars>>

CancelHolder(t) ==
  /\ t \in Cancellable /\ pc[t] \in Holding
  /\ ReleaseIfLocked(waiters)
  /\ inflight' = IF pc[t] = "send" THEN inflight \cup {nonce[t]} ELSE inflight
  /\ polls' = [polls EXCEPT ![t] = 0]
  /\ Goto(t, "idle")
  /\ UNCHANGED <<waiters, nonce, pending, visible, elapsed, lost>>

\* The thread finishes what the cancelled task had started.
OrphanArrives(n) ==
  /\ n \in inflight
  /\ inflight' = inflight \ {n}
  /\ NodeTakes(n, FALSE) \/ UNCHANGED <<pending, visible, elapsed, lost>>
  /\ UNCHANGED <<lockVars, pc, nonce, polls>>

CatchUp ==
  /\ visible < pending
  /\ visible' = visible + 1
  /\ UNCHANGED <<lockVars, pc, nonce, polls, pending, inflight, elapsed, lost>>

-----------------------------------------------------------------------------
Proceed(t) ==
  \/ GetsLock(t) \/ FetchNonce(t) \/ Sent(t) \/ Receipt(t)
  \/ Exception(t) \/ Poll(t) \/ Commit(t)

Next ==
  \/ \E t \in Task : Acquire(t) \/ Proceed(t) \/ CancelWaiter(t) \/ CancelHolder(t)
  \/ \E n \in inflight : OrphanArrives(n)
  \/ CatchUp

Spec == Init /\ [][Next]_vars

\* A task that can go on does, and a transaction is counted in the end.
FairSpec == Spec /\ WF_vars(CatchUp) /\ \A t \in Task : WF_vars(Proceed(t))

-----------------------------------------------------------------------------
(* Properties *)

\* The shape of the state.
TypeOK ==
  /\ locked \in BOOLEAN /\ woken \in BOOLEAN
  /\ waiters \in Seq(Task)
  /\ pc \in [Task -> {"idle", "waiting"} \cup Holding]
  /\ nonce \in [Task -> Nat] /\ polls \in [Task -> 0..Attempts]
  /\ pending \in Nat /\ visible \in Nat
  /\ inflight \subseteq Nat
  /\ elapsed \in 0..Attempts /\ lost \in BOOLEAN

\* "A per-address mutex that serializes nonce fetching from the node": at most
\* one task is between acquire() and its release, and meanwhile it is locked.
MutualExclusion ==
  /\ \A s, t \in Holders : s = t
  /\ Holders # {} => locked

\* The node has counted every transaction it took, or it needs longer than the
\* polls for it take, or the sender never learnt that it was taken.
CountedOrExcused == visible = pending \/ elapsed = Attempts \/ lost

\* The nonce a task is about to send with is the next one of the account: no
\* transaction leaves a gap, and one replaces another only when the node did not
\* count that one in all the time of the polls, or an answer about it was lost.
NonceIsNext ==
  \A t \in Task : pc[t] = "send" =>
    \/ nonce[t] = pending
    \/ nonce[t] < pending /\ (elapsed = Attempts \/ lost)

\* Whatever is cancelled, and whoever releases the lock, a queue of waiters is
\* behind a holder or has its first one on the way in.
NoWaiterForgotten == waiters # <<>> => locked \/ woken

\* A task that waits for the lock gets it: no exception, lost answer or overtaking
\* task leaves the others of the node unable to publish.
WaitersServed == \A t \in Task : pc[t] = "waiting" ~> pc[t] # "waiting"

\* Why exclusion holds while no waiter is cancelled: the lock is never free under
\* a holder, and the first waiter is called in only while it is free.
ExclusionInv ==
  /\ TypeOK
  /\ MutualExclusion
  /\ locked => Holders # {}
  /\ woken => ~locked /\ waiters # <<>>

\* Without any cancellation no thread sends for a task that is gone.
OwnSendsInv == ExclusionInv /\ inflight = {}

\* Why the nonce is the next one: while the lock changes hands the node has
\* counted every transaction, or the last one is excused; and who waits for its
\* own transaction to be counted has waited no longer than the node has had it.
NonceInv ==
  /\ visible <= pending
  /\ Holders = {} => CountedOrExcused
  /\ \A t \in Task :
       /\ pc[t] \in {"fetch", "send"} => CountedOrExcused
       /\ pc[t] # "commit" => polls[t] = 0
       /\ pc[t] \in {"receipt", "commit"} =>
            \/ nonce[t] + 1 = pending /\ polls[t] <= elapsed
            \/ nonce[t] < pending /\ (elapsed = Attempts \/ lost)
  /\ NonceIsNext

\* The tasks of a node behave as AccountSends: one at a time, numbers in order.
Holder   == IF Holders = {} THEN Nobody ELSE CHOOSE t \in Task : t \in Holders
Sends    == INSTANCE AccountSends WITH holder <- Holder, next <- pending
SendsOneByOne == Sends!Spec
=============================================================================
