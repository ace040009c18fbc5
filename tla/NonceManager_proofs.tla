------------------------ MODULE NonceManager_proofs ------------------------
(***************************************************************************)
(* Proofs about NonceManager for every set of tasks.  The type is correct  *)
(* in general; exclusion holds as long as no task is cancelled while it    *)
(* waits for the lock, the refinement of AccountSends and the order of the *)
(* nonces when no task is cancelled at all.                                *)
(***************************************************************************)
EXTENDS NonceManager, TLAPS

\* A transaction the node takes keeps the type of what is known of it.
LEMMA TakenIsTyped ==
  ASSUME TypeOK, NEW n \in Nat, NEW answered \in BOOLEAN, NodeTakes(n, answered)
  PROVE  /\ pending' \in Nat /\ visible' \in Nat
         /\ elapsed' \in 0..Attempts /\ lost' \in BOOLEAN
BY NonceAssumption DEF TypeOK, NodeTakes

LEMMA NoPolls == 0 \in 0..Attempts
BY NonceAssumption

\* Every variable keeps its type, with cancellations, lag and lost answers.
THEOREM TypeCorrect == Spec => []TypeOK
<1>1. ASSUME Init PROVE TypeOK
  <2>1. locked \in BOOLEAN /\ woken \in BOOLEAN
    BY <1>1 DEF Init
  <2>2. waiters \in Seq(Task)
    BY <1>1 DEF Init
  <2>3. pc \in [Task -> {"idle", "waiting"} \cup Holding] /\ nonce \in [Task -> Nat]
    BY <1>1 DEF Init
  <2>4. /\ pending \in Nat /\ visible \in Nat /\ inflight \subseteq Nat
        /\ polls \in [Task -> 0..Attempts] /\ elapsed \in 0..Attempts /\ lost \in BOOLEAN
    BY <1>1, NoPolls DEF Init
  <2>5. QED
    BY <2>1, <2>2, <2>3, <2>4 DEF TypeOK
<1>2. ASSUME TypeOK, [Next]_vars PROVE TypeOK'
  <2> USE <1>2 DEF TypeOK, Goto, Holding, nodeVars, lockVars
  <2>1. ASSUME NEW t \in Task, Acquire(t) PROVE TypeOK'
    <3>1. CASE ~locked /\ waiters = <<>>
      BY <2>1, <3>1 DEF Acquire
    <3>2. CASE ~(~locked /\ waiters = <<>>)
      <4>1. /\ locked' = locked /\ waiters' = Append(waiters, t) /\ Goto(t, "waiting")
            /\ UNCHANGED <<woken, nonce, polls, nodeVars>>
        BY <2>1, <3>2, Zenon DEF Acquire
      <4>2. QED
        BY <4>1
    <3>3. QED
      BY <3>1, <3>2
  <2>2. ASSUME NEW t \in Task, GetsLock(t) PROVE TypeOK'
    <3>1. waiters' \in Seq(Task)
      <4>1. CASE waiters = <<>>
        BY <4>1, <2>2 DEF GetsLock
      <4>2. CASE waiters # <<>>
        BY <4>2, <2>2 DEF GetsLock
      <4>3. QED
        BY <4>1, <4>2
    <3>2. QED
      BY <2>2, <3>1 DEF GetsLock
  <2>3. ASSUME NEW t \in Task, FetchNonce(t) PROVE TypeOK'
    BY <2>3 DEF FetchNonce
  <2>4. ASSUME NEW t \in Task, Sent(t) PROVE TypeOK'
    <3>1. /\ pending' \in Nat /\ visible' \in Nat
          /\ elapsed' \in 0..Attempts /\ lost' \in BOOLEAN
      BY <2>4, TakenIsTyped DEF Sent, NodeReplaces
    <3>2. QED
      BY <2>4, <3>1 DEF Sent
  <2>5. ASSUME NEW t \in Task, Receipt(t) PROVE TypeOK'
    BY <2>5 DEF Receipt
  <2>6. ASSUME NEW t \in Task, Exception(t) PROVE TypeOK'
    <3>1. /\ pending' \in Nat /\ visible' \in Nat /\ inflight' = inflight
          /\ elapsed' \in 0..Attempts /\ lost' \in BOOLEAN
      <4>1. Attempts \in 0..Attempts
        BY NonceAssumption
      <4>2. CASE \/ UNCHANGED nodeVars
                 \/ NodeReplaces(nonce[t]) /\ UNCHANGED inflight
        BY <4>2 DEF NodeReplaces
      <4>3. CASE NodeTakes(nonce[t], FALSE) /\ UNCHANGED inflight
        BY <4>3, TakenIsTyped
      <4>4. CASE /\ lost' \in {TRUE, lost} /\ elapsed' \in {elapsed, Attempts}
                 /\ UNCHANGED <<pending, visible, inflight>>
        BY <4>1, <4>4
      <4>5. QED
        BY <2>6, <4>2, <4>3, <4>4 DEF Exception, Fails
    <3>2. QED
      BY <2>6, <3>1 DEF Exception, ReleaseIfLocked, WakeFirst
  <2>7. ASSUME NEW t \in Task, Commit(t) PROVE TypeOK'
    BY <2>7, NoPolls DEF Commit, Release, ReleaseIfLocked, WakeFirst
  <2>8. ASSUME NEW t \in Task, CancelWaiter(t) PROVE TypeOK'
    <3>1. PICK i \in DOMAIN waiters : waiters' = Without(i)
      BY <2>8 DEF CancelWaiter
    <3>2. Without(i) \in Seq(Task)
      BY SMTT(30) DEF Without
    <3>3. QED
      BY <2>8, <3>1, <3>2 DEF CancelWaiter, WakeFirst
  <2>9. ASSUME NEW t \in Task, CancelHolder(t) PROVE TypeOK'
    BY <2>9, NoPolls DEF CancelHolder, ReleaseIfLocked, WakeFirst
  <2>10. ASSUME NEW n \in inflight, OrphanArrives(n) PROVE TypeOK'
    <3>1. /\ pending' \in Nat /\ visible' \in Nat
          /\ elapsed' \in 0..Attempts /\ lost' \in BOOLEAN
      BY <2>10, TakenIsTyped DEF OrphanArrives
    <3>2. QED
      BY <2>10, <3>1 DEF OrphanArrives
  <2>11. CASE CatchUp
    BY <2>11 DEF CatchUp
  <2>12. CASE UNCHANGED vars
    BY <2>12 DEF vars
  <2>13. ASSUME NEW t \in Task, Poll(t) PROVE TypeOK'
    BY <2>13, NonceAssumption DEF Poll
  <2>14. QED
    BY <2>1, <2>2, <2>3, <2>4, <2>5, <2>6, <2>7, <2>8, <2>9, <2>10, <2>11, <2>12, <2>13
    DEF Next, Proceed
<1>3. QED
  BY <1>1, <1>2, PTL DEF Spec

-----------------------------------------------------------------------------
(* The queue *)

\* A release frees the lock only with the first of the queue on its way in, and
\* leaves an unlocked lock alone.
LEMMA ReleaseCallsNext ==
  ASSUME NoWaiterForgotten, ReleaseIfLocked(waiters), waiters' = waiters
  PROVE  NoWaiterForgotten'
BY DEF NoWaiterForgotten, ReleaseIfLocked, WakeFirst

\* Whatever is cancelled, and whoever releases the lock, a queue of waiters is
\* behind a holder or has its first one on the way in (NonceManager.release and
\* the `finally' of bc_execute).
THEOREM NobodyForgotten == Spec => []NoWaiterForgotten
<1>1. Init => NoWaiterForgotten
  BY DEF Init, NoWaiterForgotten
<1>2. ASSUME NoWaiterForgotten, [Next]_vars PROVE NoWaiterForgotten'
  <2>1. ASSUME NEW t \in Task, Acquire(t) PROVE NoWaiterForgotten'
    <3>1. CASE ~locked /\ waiters = <<>>
      BY <2>1, <3>1 DEF Acquire, NoWaiterForgotten
    <3>2. CASE ~(~locked /\ waiters = <<>>)
      <4>1. locked' = locked /\ woken' = woken
        BY <2>1, <3>2, Zenon DEF Acquire
      <4>2. locked \/ woken
        BY <1>2, <3>2 DEF NoWaiterForgotten
      <4>3. QED
        BY <4>1, <4>2 DEF NoWaiterForgotten
    <3>3. QED
      BY <3>1, <3>2
  <2>2. ASSUME NEW t \in Task, GetsLock(t) PROVE NoWaiterForgotten'
    BY <2>2 DEF GetsLock, NoWaiterForgotten
  <2>3. ASSUME NEW t \in Task, FetchNonce(t) \/ Sent(t) \/ Receipt(t) \/ Poll(t)
        PROVE  NoWaiterForgotten'
    BY <1>2, <2>3 DEF FetchNonce, Sent, Receipt, Poll, lockVars, NoWaiterForgotten
  <2>4. ASSUME NEW t \in Task, Exception(t) \/ Commit(t) \/ CancelHolder(t)
        PROVE  NoWaiterForgotten'
    BY <1>2, <2>4, ReleaseCallsNext DEF Exception, Commit, Release, CancelHolder
  <2>5. ASSUME NEW t \in Task, CancelWaiter(t) PROVE NoWaiterForgotten'
    <3>1. woken' = (waiters' # <<>>)
      BY <2>5 DEF CancelWaiter, WakeFirst
    <3>2. QED
      BY <3>1 DEF NoWaiterForgotten
  <2>6. ASSUME NEW n \in inflight, OrphanArrives(n) PROVE NoWaiterForgotten'
    BY <1>2, <2>6 DEF OrphanArrives, lockVars, NoWaiterForgotten
  <2>7. CASE CatchUp \/ UNCHANGED vars
    BY <1>2, <2>7 DEF CatchUp, vars, lockVars, NoWaiterForgotten
  <2>8. QED
    BY <1>2, <2>1, <2>2, <2>3, <2>4, <2>5, <2>6, <2>7 DEF Next, Proceed
<1>3. QED
  BY <1>1, <1>2, PTL DEF Spec

-----------------------------------------------------------------------------
(* Exclusion *)

\* Who is between acquire() and its release after a task has moved.
LEMMA HoldersAfterGoto ==
  ASSUME TypeOK, NEW t \in Task, NEW place, Goto(t, place)
  PROVE  Holders' = IF place \in Holding THEN Holders \cup {t} ELSE Holders \ {t}
BY DEF TypeOK, Goto, Holders

\* A release by the only holder leaves the lock free and calls the first waiter.
LEMMA HolderReleases ==
  ASSUME ExclusionInv, TypeOK', NEW t \in Task, t \in Holders, Goto(t, "idle"),
         ReleaseIfLocked(waiters), waiters' = waiters
  PROVE  ExclusionInv' /\ Holders = {t} /\ Holders' = {}
<1>1. Holders = {t} /\ locked
  BY DEF ExclusionInv, MutualExclusion, Holders
<1>2. Holders' = {}
  BY <1>1, HoldersAfterGoto DEF ExclusionInv, Holding
<1>3. ~locked' /\ (woken' => waiters' # <<>>)
  BY <1>1 DEF ReleaseIfLocked, WakeFirst
<1>4. QED
  BY <1>1, <1>2, <1>3 DEF ExclusionInv, MutualExclusion

\* The lock passes to a task only while nobody has it.
LEMMA TaskLocks ==
  ASSUME ExclusionInv, TypeOK', NEW t \in Task, ~locked, Goto(t, "fetch"),
         locked' = TRUE, ~woken'
  PROVE  ExclusionInv' /\ Holders = {} /\ Holders' = {t}
<1>1. Holders = {}
  BY DEF ExclusionInv, MutualExclusion
<1>2. Holders' = {t}
  BY <1>1, HoldersAfterGoto DEF ExclusionInv, Holding
<1>3. QED
  BY <1>1, <1>2 DEF ExclusionInv, MutualExclusion

\* A step that leaves the lock and its holders alone keeps the exclusion.
LEMMA SameHolders ==
  ASSUME ExclusionInv, TypeOK', Holders' = Holders, UNCHANGED lockVars
  PROVE  ExclusionInv'
BY DEF ExclusionInv, MutualExclusion, lockVars

\* No task is cancelled while it waits for the lock: whichever coin pairs are
\* removed, their tasks are elsewhere then.
NoWaiterCancelled == \A t \in Task : ~CancelWaiter(t)

\* What each step does to the lock, the cancellation of its holder included.
LEMMA ExclusionStep ==
  ASSUME ExclusionInv, TypeOK', [Next /\ NoWaiterCancelled]_vars
  PROVE  ExclusionInv'
<1>1. ASSUME NEW t \in Task, Acquire(t) PROVE ExclusionInv'
  <2>1. CASE ~locked /\ waiters = <<>>
    <3>1. locked' = TRUE /\ Goto(t, "fetch") /\ woken' = woken
      BY <1>1, <2>1 DEF Acquire
    <3>2. ~woken'
      BY <2>1, <3>1 DEF ExclusionInv
    <3>3. QED
      BY <2>1, <3>1, <3>2, TaskLocks
  <2>2. CASE ~(~locked /\ waiters = <<>>)
    <3>1. /\ locked' = locked /\ waiters' = Append(waiters, t) /\ Goto(t, "waiting")
          /\ woken' = woken
      BY <1>1, <2>2, Zenon DEF Acquire
    <3>2. Holders' = Holders
      <4>1. t \notin Holders /\ "waiting" \notin Holding /\ TypeOK
        BY <1>1 DEF ExclusionInv, Holding, Acquire, Holders
      <4>2. Holders' = Holders \ {t}
        BY <3>1, <4>1, HoldersAfterGoto
      <4>3. QED
        BY <4>1, <4>2
    <3>3. waiters' # <<>>
      <4>1. waiters \in Seq(Task)
        BY DEF ExclusionInv, TypeOK
      <4>2. QED
        BY <3>1, <4>1, SMTT(30)
    <3>4. QED
      BY <3>1, <3>2, <3>3 DEF ExclusionInv, MutualExclusion
  <2>3. QED
    BY <2>1, <2>2
<1>2. ASSUME NEW t \in Task, GetsLock(t) PROVE ExclusionInv'
  BY <1>2, TaskLocks DEF GetsLock, ExclusionInv
<1>3. ASSUME NEW t \in Task, FetchNonce(t) \/ Sent(t) \/ Receipt(t) PROVE ExclusionInv'
  <2>1. t \in Holders /\ \E place \in Holding : Goto(t, place)
    BY <1>3 DEF FetchNonce, Sent, Receipt, Holders, Holding
  <2>2. Holders' = Holders
    BY <2>1, HoldersAfterGoto DEF ExclusionInv
  <2>3. QED
    BY <1>3, <2>2, SameHolders DEF FetchNonce, Sent, Receipt
<1>4. ASSUME NEW t \in Task, Exception(t) \/ Commit(t) \/ CancelHolder(t) PROVE ExclusionInv'
  <2>1. t \in Holders
    BY <1>4 DEF Exception, Fails, Commit, CancelHolder, Holders, Holding
  <2>2. QED
    BY <1>4, <2>1, HolderReleases DEF Exception, Commit, Release, CancelHolder
<1>5. ASSUME NEW n \in inflight, OrphanArrives(n) PROVE ExclusionInv'
  BY <1>5, SameHolders DEF OrphanArrives, Holders
<1>6. CASE CatchUp \/ UNCHANGED vars
  BY <1>6, SameHolders DEF CatchUp, vars, Holders
<1>7. ASSUME NEW t \in Task, Poll(t) PROVE ExclusionInv'
  BY <1>7, SameHolders DEF Poll, Holders
<1>8. QED
  BY <1>1, <1>2, <1>3, <1>4, <1>5, <1>6, <1>7 DEF Next, Proceed, NoWaiterCancelled

\* While no waiter is cancelled the lock is free exactly when nobody holds it.
LEMMA ExclusionInvariant == Spec /\ [][NoWaiterCancelled]_vars => []ExclusionInv
<1>1. Init /\ TypeOK => ExclusionInv
  BY NonceAssumption DEF Init, ExclusionInv, MutualExclusion, Holders, Holding
<1>2. ExclusionInv /\ TypeOK' /\ [Next]_vars /\ [NoWaiterCancelled]_vars => ExclusionInv'
  BY ExclusionStep
<1>3. QED
  BY <1>1, <1>2, TypeCorrect, PTL DEF Spec

\* At most one task is between acquire() and its release, however the RPC node
\* answers and whichever holders are cancelled, unless a task is cancelled while
\* it waits (NonceManager, and the `finally' of bc_execute).
THEOREM Exclusion == Spec /\ [][NoWaiterCancelled]_vars => []MutualExclusion
<1>1. ExclusionInv => MutualExclusion
  BY DEF ExclusionInv
<1>2. QED
  BY <1>1, ExclusionInvariant, PTL

\* Without any cancellation threads send only for the task that waits for them.
LEMMA OwnSendsInvariant ==
  ASSUME Cancellable = {}
  PROVE  Spec => []OwnSendsInv
<1>1. \A t \in Task : ~CancelWaiter(t) /\ ~CancelHolder(t)
  BY DEF CancelWaiter, CancelHolder
<1>2. [Next]_vars => [NoWaiterCancelled]_vars
  BY <1>1 DEF NoWaiterCancelled
<1> DEFINE NoOrphan == inflight = {}
<1>3. Init => NoOrphan
  BY DEF Init
<1>4. ASSUME NoOrphan, [Next]_vars PROVE NoOrphan'
  <2>1. ASSUME NEW t \in Task, Acquire(t) \/ Proceed(t) PROVE inflight' = inflight
    BY <2>1 DEF Acquire, Proceed, GetsLock, FetchNonce, Sent, Receipt, Exception, Fails, Poll,
       Commit, Release, nodeVars
  <2>2. QED
    BY <1>1, <1>4, <2>1 DEF Next, CatchUp, vars, nodeVars
<1>5. OwnSendsInv <=> ExclusionInv /\ NoOrphan
  BY DEF OwnSendsInv
<1> HIDE DEF NoOrphan
<1>6. QED
  BY <1>2, <1>3, <1>4, <1>5, ExclusionInvariant, PTL DEF Spec

-----------------------------------------------------------------------------
(* The order of the nonces *)

NonceOrder == OwnSendsInv /\ NonceInv

\* The part of the invariant about one task.
TaskNonceInv(t) ==
  /\ pc[t] \in {"fetch", "send"} => CountedOrExcused
  /\ pc[t] # "commit" => polls[t] = 0
  /\ pc[t] \in {"receipt", "commit"} =>
       \/ nonce[t] + 1 = pending /\ polls[t] <= elapsed
       \/ nonce[t] < pending /\ (elapsed = Attempts \/ lost)
  /\ pc[t] = "send" =>
       \/ nonce[t] = pending
       \/ nonce[t] < pending /\ (elapsed = Attempts \/ lost)

LEMMA NonceInvIs ==
  NonceInv <=> /\ visible <= pending
               /\ Holders = {} => CountedOrExcused
               /\ \A t \in Task : TaskNonceInv(t)
BY DEF NonceInv, NonceIsNext, TaskNonceInv

\* A task that holds nothing has no part in the order of the nonces.
LEMMA OutsiderStays ==
  ASSUME NEW t \in Task, TaskNonceInv(t), pc'[t] \notin Holding,
         polls'[t] = polls[t], pc[t] \notin Holding
  PROVE  TaskNonceInv(t)'
BY DEF TaskNonceInv, Holding

\* What a step of the holder does to it and to the node: the invariant follows.
LEMMA HolderSteps ==
  ASSUME NonceOrder, TypeOK', NEW t \in Task, t \in Holders, Cancellable = {},
         visible' <= pending', TaskNonceInv(t)',
         pc'[t] \notin Holding => CountedOrExcused',
         \A s \in Task \ {t} : pc'[s] = pc[s] /\ polls'[s] = polls[s]
  PROVE  NonceInv'
<1>1. Holders = {t}
  BY DEF NonceOrder, OwnSendsInv, ExclusionInv, MutualExclusion
<1>2. \A s \in Task \ {t} : pc[s] \notin Holding
  BY <1>1 DEF Holders
<1>3. \A s \in Task \ {t} : TaskNonceInv(s)'
  BY <1>2, OutsiderStays, NonceInvIs DEF NonceOrder
<1>4. Holders' = {} => CountedOrExcused'
  BY DEF Holders
<1>5. QED
  BY <1>3, <1>4 DEF NonceInv, NonceIsNext, TaskNonceInv

\* What each step does to the nonces.
LEMMA NonceStep ==
  ASSUME NonceOrder, TypeOK', Cancellable = {}, [Next]_vars
  PROVE  NonceInv'
<1> USE NonceAssumption DEF NonceOrder, OwnSendsInv
<1>1. TypeOK /\ inflight = {}
  BY DEF ExclusionInv
<1>2. visible <= pending /\ \A t \in Task : TaskNonceInv(t)
  BY NonceInvIs
<1>3. ASSUME NEW t \in Task, Acquire(t) \/ GetsLock(t) PROVE NonceInv'
  <2>1. UNCHANGED <<nonce, polls, nodeVars>> /\ pc[t] \notin Holding
    BY <1>3 DEF Acquire, GetsLock, Holding
  <2>2. CASE Goto(t, "waiting")
    <3>1. Holders' = Holders
      BY <1>1, <2>1, <2>2, HoldersAfterGoto DEF Holders, Holding
    <3>2. QED
      BY <1>1, <2>1, <2>2, <3>1 DEF NonceInv, NonceIsNext, CountedOrExcused, Goto, TypeOK, nodeVars
  <2>3. CASE ~locked /\ Goto(t, "fetch")
    <3>1. CountedOrExcused
      BY <2>3 DEF NonceInv, ExclusionInv, MutualExclusion
    <3>2. Holders' # {}
      BY <1>1, <2>3, HoldersAfterGoto DEF Holding
    <3>3. polls[t] = 0
      BY <1>2, <2>1 DEF TaskNonceInv, Holding
    <3>4. QED
      BY <1>1, <2>1, <2>3, <3>1, <3>2, <3>3
      DEF NonceInv, NonceIsNext, CountedOrExcused, Goto, TypeOK, nodeVars
  <2>4. QED
    BY <1>3, <2>2, <2>3 DEF Acquire, GetsLock, ExclusionInv
<1>4. ASSUME NEW t \in Task, FetchNonce(t) PROVE NonceInv'
  <2>1. UNCHANGED <<polls, nodeVars>> /\ pc[t] = "fetch" /\ pc' = [pc EXCEPT ![t] = "send"]
        /\ nonce'[t] = visible
    BY <1>1, <1>4 DEF FetchNonce, Goto, TypeOK
  <2>2. TaskNonceInv(t)'
    BY <1>1, <1>2, <2>1 DEF TaskNonceInv, CountedOrExcused, TypeOK, nodeVars
  <2>3. QED
    BY <1>1, <1>2, <2>1, <2>2, HolderSteps DEF Holders, Holding, TypeOK, nodeVars
<1>5. ASSUME NEW t \in Task, Sent(t) PROVE NonceInv'
  <2>1. PICK place \in {"receipt", "commit"} : pc' = [pc EXCEPT ![t] = place]
    BY <1>5 DEF Sent, Goto
  <2>2. pc[t] = "send" /\ UNCHANGED <<nonce, polls>> /\ polls[t] = 0 /\ pc'[t] = place
    BY <1>1, <1>2, <1>5, <2>1 DEF Sent, TaskNonceInv, TypeOK
  <2>3. TaskNonceInv(t)' /\ visible' <= pending'
    <3>1. CASE NodeTakes(nonce[t], TRUE)
      BY <1>1, <1>2, <2>2, <3>1 DEF TaskNonceInv, NodeTakes, TypeOK
    <3>2. CASE NodeReplaces(nonce[t])
      BY <1>1, <1>2, <2>2, <3>2 DEF TaskNonceInv, NodeReplaces, TypeOK
    <3>3. QED
      BY <1>5, <3>1, <3>2 DEF Sent
  <2>4. QED
    BY <1>1, <2>1, <2>2, <2>3, HolderSteps DEF Holders, Holding, TypeOK
<1>6. ASSUME NEW t \in Task, Receipt(t) PROVE NonceInv'
  <2>1. UNCHANGED <<nonce, polls, nodeVars>> /\ pc[t] = "receipt" /\ pc' = [pc EXCEPT ![t] = "commit"]
    BY <1>6 DEF Receipt, Goto
  <2>2. TaskNonceInv(t)'
    BY <1>1, <1>2, <2>1 DEF TaskNonceInv, TypeOK, nodeVars
  <2>3. QED
    BY <1>1, <1>2, <2>1, <2>2, HolderSteps DEF Holders, Holding, TypeOK, nodeVars
<1>7. ASSUME NEW t \in Task, Exception(t) PROVE NonceInv'
  <2>1. UNCHANGED <<nonce, polls>> /\ pc' = [pc EXCEPT ![t] = "idle"] /\ Fails(t)
    BY <1>7 DEF Exception, Goto
  <2>2. pc[t] \in {"fetch", "send", "receipt"} /\ polls[t] = 0
    BY <1>2, <2>1 DEF Fails, TaskNonceInv
  <2>3. TaskNonceInv(t)'
    BY <1>1, <2>1, <2>2 DEF TaskNonceInv, TypeOK
  <2>4. visible' <= pending' /\ CountedOrExcused'
    <3>1. CASE pc[t] \in {"fetch", "send"} /\ UNCHANGED nodeVars
      BY <1>2, <3>1 DEF TaskNonceInv, CountedOrExcused, nodeVars
    <3>2. CASE pc[t] = "send" /\ NodeTakes(nonce[t], FALSE)
      BY <1>1, <1>2, <3>2 DEF NodeTakes, CountedOrExcused, TypeOK
    <3>3. CASE pc[t] = "send" /\ NodeReplaces(nonce[t])
      BY <1>2, <3>3 DEF NodeReplaces, TaskNonceInv, CountedOrExcused
    <3>4. CASE /\ pc[t] = "receipt" /\ UNCHANGED <<pending, visible>>
               /\ lost' = TRUE \/ elapsed' = Attempts
      BY <1>2, <3>4 DEF CountedOrExcused
    <3>5. QED
      BY <2>1, <3>1, <3>2, <3>3, <3>4 DEF Fails
  <2>5. QED
    BY <1>1, <2>1, <2>2, <2>3, <2>4, HolderSteps DEF Holders, Holding, TypeOK
<1>8. ASSUME NEW t \in Task, Poll(t) PROVE NonceInv'
  <2>1. /\ UNCHANGED <<pc, nonce, pending, visible, lost>> /\ pc[t] = "commit"
        /\ polls'[t] = polls[t] + 1 /\ polls[t] < Attempts
        /\ \A s \in Task \ {t} : polls'[s] = polls[s]
    BY <1>1, <1>8 DEF Poll, TypeOK
  <2>2. elapsed' = IF elapsed < Attempts THEN elapsed + 1 ELSE elapsed
    BY <1>8 DEF Poll
  <2>3. polls[t] \in Nat /\ elapsed \in 0..Attempts /\ nonce[t] \in Nat /\ pending \in Nat
    BY <1>1 DEF TypeOK
  <2>4. TaskNonceInv(t)'
    BY <1>2, <2>1, <2>2, <2>3 DEF TaskNonceInv
  <2>5. QED
    BY <1>2, <2>1, <2>4, HolderSteps DEF Holders, Holding
<1>9. ASSUME NEW t \in Task, Commit(t) PROVE NonceInv'
  <2>1. /\ UNCHANGED <<nonce, nodeVars>> /\ pc[t] = "commit" /\ pc' = [pc EXCEPT ![t] = "idle"]
        /\ polls' = [polls EXCEPT ![t] = 0]
        /\ visible > nonce[t] \/ polls[t] = Attempts
    BY <1>9 DEF Commit, Release, Goto
  <2>2. TaskNonceInv(t)'
    BY <1>1, <2>1 DEF TaskNonceInv, TypeOK
  <2>3. CountedOrExcused
    BY <1>1, <1>2, <2>1 DEF TaskNonceInv, CountedOrExcused, TypeOK
  <2>4. QED
    BY <1>1, <1>2, <2>1, <2>2, <2>3, HolderSteps
    DEF Holders, Holding, TypeOK, CountedOrExcused, nodeVars
<1>10. ASSUME NEW t \in Task, CancelWaiter(t) \/ CancelHolder(t) PROVE FALSE
  BY <1>10 DEF CancelWaiter, CancelHolder
<1>11. CASE CatchUp
  <2>1. Holders' = Holders
    BY <1>11 DEF CatchUp, Holders
  <2>2. CountedOrExcused => CountedOrExcused'
    BY <1>1, <1>11 DEF CatchUp, CountedOrExcused, TypeOK
  <2>3. visible' <= pending' /\ \A t \in Task : TaskNonceInv(t)'
    BY <1>1, <1>2, <1>11, <2>2 DEF CatchUp, TaskNonceInv, TypeOK
  <2>4. QED
    BY <2>1, <2>2, <2>3 DEF NonceInv, NonceIsNext, TaskNonceInv
<1>12. CASE UNCHANGED vars
  BY <1>12 DEF vars, nodeVars, NonceInv, NonceIsNext, CountedOrExcused, Holders
<1>13. QED
  BY <1>1, <1>3, <1>4, <1>5, <1>6, <1>7, <1>8, <1>9, <1>10, <1>11, <1>12 DEF Next, Proceed

\* While nothing is cancelled, the nonce a task sends with is the account's next
\* one unless the RPC node has not counted the last transaction in the time of all
\* the polls, or an answer about it was lost (NonceManager.acquire and
\* wait_for_commit_and_release); a gap it never leaves.
THEOREM NoncesInOrder ==
  ASSUME Cancellable = {}
  PROVE  Spec => []NonceIsNext
<1>1. Init => NonceInv
  BY NonceAssumption DEF Init, NonceInv, NonceIsNext, CountedOrExcused
<1>2. NonceInv /\ OwnSendsInv /\ TypeOK' /\ [Next]_vars => NonceInv'
  BY NonceStep DEF NonceOrder
<1>3. NonceInv => NonceIsNext
  BY DEF NonceInv
<1>4. QED
  BY <1>1, <1>2, <1>3, OwnSendsInvariant, TypeCorrect, PTL DEF Spec

-----------------------------------------------------------------------------
(* Refinement *)

\* The holder that AccountSends sees.
LEMMA HolderIs ==
  /\ Holders = {} => Holder = Nobody
  /\ \A t \in Task : Holders = {t} => Holder = t
BY DEF Holder

\* Every step is one of AccountSends or leaves its state alone.
LEMMA RefinementStep ==
  ASSUME OwnSendsInv, Cancellable = {}, [Next]_vars
  PROVE  [Sends!Next]_(Sends!sendVars)
<1>1. ExclusionInv /\ TypeOK /\ inflight = {}
  BY DEF OwnSendsInv, ExclusionInv
<1>2. ASSUME NEW t \in Task, ~locked, Goto(t, "fetch"), pending' = pending PROVE Sends!Take(t)
  <2>1. Holders = {} /\ Holders' = {t}
    BY <1>1, <1>2, HoldersAfterGoto DEF ExclusionInv, MutualExclusion, Holding
  <2>2. Holder = Nobody
    BY <2>1 DEF Holder
  <2>3. Holder' = t
    BY <2>1 DEF Holder
  <2>4. QED
    BY <1>2, <2>2, <2>3 DEF Sends!Take
<1>3. ASSUME Holders' = Holders, pending' = pending PROVE UNCHANGED (Sends!sendVars)
  BY <1>3 DEF Holder, Sends!sendVars
<1>4. ASSUME NEW t \in Task, Acquire(t) PROVE [Sends!Next]_(Sends!sendVars)
  <2>1. pending' = pending
    BY <1>4 DEF Acquire, nodeVars
  <2>2. CASE ~locked /\ Goto(t, "fetch")
    BY <1>2, <2>1, <2>2 DEF Sends!Next
  <2>3. CASE Goto(t, "waiting")
    <3>1. Holders' = Holders
      BY <1>1, <1>4, <2>3, HoldersAfterGoto DEF Holders, Holding, Acquire
    <3>2. QED
      BY <1>3, <2>1, <3>1
  <2>4. QED
    BY <1>4, <2>2, <2>3 DEF Acquire
<1>5. ASSUME NEW t \in Task, GetsLock(t) PROVE [Sends!Next]_(Sends!sendVars)
  <2>1. ~locked /\ Goto(t, "fetch") /\ pending' = pending
    BY <1>1, <1>5 DEF GetsLock, ExclusionInv, nodeVars
  <2>2. QED
    BY <1>2, <2>1 DEF Sends!Next
<1>6. ASSUME NEW t \in Task, t \in Holders PROVE Holders = {t} /\ Holder = t
  <2>1. Holders = {t}
    BY <1>1, <1>6 DEF ExclusionInv, MutualExclusion
  <2>2. QED
    BY <2>1, HolderIs
<1>7. ASSUME NEW t \in Task, FetchNonce(t) \/ Receipt(t) \/ Poll(t) PROVE [Sends!Next]_(Sends!sendVars)
  <2>1. t \in Holders /\ (pc' = pc \/ \E place \in Holding : Goto(t, place))
    BY <1>7 DEF FetchNonce, Receipt, Poll, Holders, Holding
  <2>2. Holders' = Holders /\ pending' = pending
    <3>1. pc' = pc => Holders' = Holders
      BY DEF Holders
    <3>2. QED
      BY <1>1, <1>7, <2>1, <3>1, HoldersAfterGoto DEF FetchNonce, Receipt, Poll, nodeVars
  <2>3. QED
    BY <1>3, <2>2
<1>8. ASSUME NEW t \in Task, Sent(t) PROVE [Sends!Next]_(Sends!sendVars)
  <2>1. t \in Holders /\ \E place \in Holding : Goto(t, place)
    BY <1>8 DEF Sent, Holders, Holding
  <2>2. Holders' = Holders /\ pending' \in {pending, pending + 1}
    BY <1>1, <1>8, <2>1, HoldersAfterGoto DEF Sent, NodeTakes, NodeReplaces
  <2>3. Holder = t /\ Holder' = Holder
    BY <1>6, <2>1, <2>2 DEF Holder
  <2>4. QED
    BY <1>3, <2>2, <2>3 DEF Sends!Next, Sends!Use
<1>9. ASSUME NEW t \in Task, Exception(t) \/ Commit(t) PROVE [Sends!Next]_(Sends!sendVars)
  <2>1. t \in Holders /\ Goto(t, "idle")
    BY <1>9 DEF Exception, Fails, Commit, Release, Holders, Holding
  <2>2. Holders = {t} /\ Holder = t
    BY <1>6, <2>1
  <2>3. Holders' = {}
    BY <1>1, <2>1, <2>2, HoldersAfterGoto DEF Holding
  <2>4. Holder' = Nobody
    BY <2>3 DEF Holder
  <2>5. pending' \in {pending, pending + 1}
    BY <1>9 DEF Exception, Fails, Commit, Release, NodeTakes, NodeReplaces, nodeVars
  <2>6. QED
    BY <2>2, <2>4, <2>5 DEF Sends!Next, Sends!Use, Sends!Give
<1>10. ASSUME NEW t \in Task, CancelWaiter(t) \/ CancelHolder(t) PROVE FALSE
  BY <1>10 DEF CancelWaiter, CancelHolder
<1>11. CASE CatchUp \/ UNCHANGED vars
  <2>1. Holders' = Holders /\ pending' = pending
    BY <1>11 DEF CatchUp, vars, nodeVars, Holders
  <2>2. QED
    BY <1>3, <2>1
<1>12. QED
  BY <1>1, <1>4, <1>5, <1>7, <1>8, <1>9, <1>10, <1>11 DEF Next, Proceed

\* Without cancellation the tasks of a node send one at a time and take the
\* account's numbers one by one (bc_execute against AccountSends), even when the
\* node counts late or an answer is lost.
THEOREM SendsRefined ==
  ASSUME Cancellable = {}
  PROVE  Spec => SendsOneByOne
<1>1. Init => Sends!Init
  <2>1. ASSUME Init PROVE Holders = {}
    BY <2>1 DEF Init, Holders, Holding
  <2>2. QED
    BY <2>1, HolderIs DEF Init, Sends!Init
<1>2. OwnSendsInv /\ [Next]_vars => [Sends!Next]_(Sends!sendVars)
  BY RefinementStep
<1>3. QED
  BY <1>1, <1>2, OwnSendsInvariant, PTL DEF Spec, SendsOneByOne, Sends!Spec
=============================================================================
