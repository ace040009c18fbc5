------------------------- MODULE TaskExecution_proofs -------------------------
(* What the execution of tasks promises, for any nodes, orders, tasks and bounds. *)
EXTENDS TaskExecution, TLAPS

Looking == [stage : {"look"}, vi : BlockView, available : BOOLEAN]

\* The bounds are numbers, and the first block is a block.
LEMMA Bounds ==
  /\ MaxBlock \in Nat /\ LastTick \in Nat /\ LastTick <= MaxBlock
  /\ 1 \in Block /\ Block \subseteq Nat
BY TasksAssumption DEF Block

\* An attempt is known by its stage.
LEMMA AttemptIs ==
  ASSUME TypeOK, NEW n \in Node
  PROVE  /\ attempt[n].stage = "look" => attempt[n] \in Looking
         /\ attempt[n].stage \in {"gather", "sent", "mined"} => attempt[n] \in Attempt
<1>1. attempt[n] \in {NoAttempt} \cup Attempt \cup Looking
  BY DEF TypeOK, Looking
<1>2. NoAttempt.stage = "none"
  BY DEF NoAttempt
<1>3. \A a \in Attempt : a.stage \in {"gather", "sent", "mined"}
  BY DEF Attempt
<1>4. \A a \in Looking : a.stage = "look"
  BY DEF Looking
<1> QED
  BY <1>1, <1>2, <1>3, <1>4

\* An attempt goes to another stage as it is.
LEMMA StageMoves ==
  ASSUME NEW a \in Attempt, NEW s \in {"gather", "sent", "mined"}
  PROVE  [a EXCEPT !.stage = s] \in Attempt
BY DEF Attempt

\* What a call to the contract answers is of the type of its values.
LEMMA AnswersAre ==
  ASSUME NEW S, NEW v \in S, NEW w \in S
  PROVE  Answers(v, w) \subseteq S
BY DEF Answers

\* The receipt of a transaction leaves attempts.
LEMMA ReceiptKeepsAttempts ==
  ASSUME TypeOK, NEW tx \in mempool, ReceiptTo(tx)
  PROVE  attempt' \in [Node -> {NoAttempt} \cup Attempt \cup Looking]
<1>1. attempt \in [Node -> {NoAttempt} \cup Attempt \cup Looking] /\ tx.by \in Node
  BY DEF TypeOK, Looking
<1>2. CASE attempt[tx.by].stage = "sent" /\ Tx(tx.by, attempt[tx.by]) = tx
  <2>1. [attempt[tx.by] EXCEPT !.stage = "mined"] \in Attempt
    BY <1>1, <1>2, AttemptIs, StageMoves
  <2>2. attempt' = [attempt EXCEPT ![tx.by] = [attempt[tx.by] EXCEPT !.stage = "mined"]]
    BY <1>2 DEF ReceiptTo
  <2> QED
    BY <1>1, <2>1, <2>2
<1>3. CASE ~(attempt[tx.by].stage = "sent" /\ Tx(tx.by, attempt[tx.by]) = tx)
  BY <1>1, <1>3 DEF ReceiptTo
<1> QED
  BY <1>2, <1>3

\* The variables of TaskExecution keep their types, for any calls that fail, any loops
\* that fall behind and any transactions that are mined late or not at all.
THEOREM TypeCorrect == Spec => []TypeOK
<1>1. Init => TypeOK
  BY Bounds DEF Init, TypeOK, Flags
<1>2. TypeOK /\ [Next]_vars => TypeOK'
  <2> SUFFICES ASSUME TypeOK, [Next]_vars
               PROVE  TypeOK'
    OBVIOUS
  <2>0. /\ chain \in [block_num : Block, last_pub_block : Block, flags : Flags]
        /\ info \in [Node -> BlockView \cup {NoInfo}]
        /\ attempt \in [Node -> {NoAttempt} \cup Attempt \cup Looking]
        /\ View \in BlockView
    BY DEF TypeOK, Looking, View, BlockView
  <2>1. CASE Tick
    <3>1. PICK f \in {chain.flags} \cup Appear :
            chain' = [chain EXCEPT !.block_num = chain.block_num + 1, !.flags = f]
      BY <2>1 DEF Tick
    <3>2. f \in Flags
      BY <2>0, <3>1 DEF Appear, Flags
    <3>3. chain.block_num + 1 \in Block
      BY <2>0, <2>1, Bounds DEF Tick, Block
    <3>4. chain' \in [block_num : Block, last_pub_block : Block, flags : Flags]
      BY <2>0, <3>1, <3>2, <3>3
    <3> QED
      BY <2>1, <3>4 DEF Tick, TypeOK
  <2>2. ASSUME NEW tx \in mempool, TasksRun(tx)
        PROVE  TypeOK'
    <3>1. PICK f \in {0} \cup Appear :
            chain' = [block_num |-> chain.block_num + 1, last_pub_block |-> chain.block_num + 1,
                      flags |-> f]
      BY <2>2 DEF TasksRun
    <3>2. f \in Flags
      BY <3>1 DEF Appear, Flags
    <3>3. chain.block_num + 1 \in Block
      BY <2>0, <2>2, Bounds DEF TasksRun, Block
    <3>4. chain' \in [block_num : Block, last_pub_block : Block, flags : Flags]
      BY <3>1, <3>2, <3>3
    <3>5. attempt' \in [Node -> {NoAttempt} \cup Attempt \cup Looking]
      BY <2>2, ReceiptKeepsAttempts DEF TasksRun
    <3> QED
      BY <2>2, <3>4, <3>5 DEF TasksRun, TypeOK, Looking
  <2>3. ASSUME NEW tx \in mempool, Reverted(tx)
        PROVE  TypeOK'
    <3>1. attempt' \in [Node -> {NoAttempt} \cup Attempt \cup Looking]
      BY <2>3, ReceiptKeepsAttempts DEF Reverted
    <3> QED
      BY <2>3, <3>1 DEF Reverted, TypeOK, Looking
  <2>4. ASSUME NEW n \in Node, Refresh(n)
        PROVE  TypeOK'
    BY <2>0, <2>4 DEF Refresh, TypeOK
  <2>5. ASSUME NEW n \in Node, Look(n)
        PROVE  TypeOK'
    <3>1. PICK available \in Answers(chain.flags # 0, FALSE) :
            attempt' = [attempt EXCEPT ![n] =
                          [stage |-> "look", vi |-> info[n], available |-> available]]
      BY <2>5 DEF Look
    <3>2. available \in BOOLEAN
      BY <3>1 DEF Answers
    <3>3. info[n] \in BlockView
      BY <2>0, <2>5 DEF Look
    <3>4. [stage |-> "look", vi |-> info[n], available |-> available] \in Looking
      BY <3>2, <3>3 DEF Looking
    <3>5. attempt' \in [Node -> {NoAttempt} \cup Attempt \cup Looking]
      BY <2>0, <3>1, <3>4
    <3> QED
      BY <2>5, <3>5 DEF Look, TypeOK, Looking
  <2>6. ASSUME NEW n \in Node, Evaluate(n)
        PROVE  TypeOK'
    <3>1. attempt[n] \in Looking /\ attempt[n].vi \in BlockView
      BY <2>6, AttemptIs DEF Evaluate, Looking
    <3>2. FirstAvailable(n, attempt[n].vi) \in Block \cup {0, Unavailable}
      BY <3>1 DEF FirstAvailable, TypeOK, BlockView
    <3>3. since' \in [Node -> Block \cup {0, Unavailable}]
      <4>1. \E s \in Block \cup {0, Unavailable} : since' = [since EXCEPT ![n] = s]
        BY <2>6, <3>2 DEF Evaluate, SinceAfter
      <4> QED
        BY <4>1 DEF TypeOK
    <3>4. PICK flags \in Answers(chain.flags, 0) :
            attempt' \in {[attempt EXCEPT ![n] = NewAttempt(n, flags)],
                          [attempt EXCEPT ![n] = NoAttempt]}
      BY <2>6 DEF Evaluate
    <3>5. flags \in Flags
      BY <2>0, <3>4, AnswersAre DEF Flags, Answers
    <3>6. NewAttempt(n, flags) \in Attempt
      BY <3>1, <3>5 DEF NewAttempt, Attempt
    <3>7. attempt' \in [Node -> {NoAttempt} \cup Attempt \cup Looking]
      BY <2>0, <3>4, <3>6
    <3>8. evaluated' \in [Node -> Block \cup {0}]
      BY <2>6, <3>1 DEF Evaluate, TypeOK, BlockView
    <3> QED
      BY <2>6, <3>3, <3>7, <3>8 DEF Evaluate, TypeOK, Looking
  <2>7. ASSUME NEW n \in Node, Send(n)
        PROVE  TypeOK'
    <3>1. attempt[n] \in Attempt
      BY <2>7, AttemptIs DEF Send, Gathering
    <3>2. [attempt[n] EXCEPT !.stage = "sent"] \in Attempt
      BY <3>1, StageMoves
    <3>3. attempt' = [attempt EXCEPT ![n] = [attempt[n] EXCEPT !.stage = "sent"]]
      BY <2>7 DEF Send
    <3>4. attempt' \in [Node -> {NoAttempt} \cup Attempt \cup Looking]
      BY <2>0, <3>2, <3>3
    <3>5. Tx(n, attempt[n]) \in [by : Node, flags : Flags, last_pub_block : Block, sigs : SUBSET Node]
      BY <3>1 DEF Tx, Attempt, BlockView
    <3> QED
      BY <2>7, <3>4, <3>5 DEF Send, TypeOK, Looking
  <2>8. ASSUME NEW n \in Node, PublishFails(n)
        PROVE  TypeOK'
    BY <2>0, <2>8 DEF PublishFails, TypeOK
  <2>9. ASSUME NEW n \in Node, PublishReturns(n)
        PROVE  TypeOK'
    BY <2>0, <2>9 DEF PublishReturns, TypeOK
  <2>10. ASSUME NEW m \in Node, NEW n \in Node, Answer(m, n)
         PROVE  TypeOK'
    <3>1. attempt[n] \in Attempt
      BY <2>10, AttemptIs DEF Answer, Asks, Gathering
    <3>2. \E sigs \in {attempt[n].sigs, attempt[n].sigs \cup {m}} :
            attempt' = [attempt EXCEPT ![n] = [attempt[n] EXCEPT !.asked = attempt[n].asked \cup {m},
                                                                 !.sigs = sigs]]
      BY <2>10 DEF Answer
    <3>3. \A sigs \in {attempt[n].sigs, attempt[n].sigs \cup {m}} :
            [attempt[n] EXCEPT !.asked = attempt[n].asked \cup {m}, !.sigs = sigs] \in Attempt
      BY <3>1 DEF Attempt
    <3>4. attempt' \in [Node -> {NoAttempt} \cup Attempt \cup Looking]
      BY <2>0, <3>2, <3>3
    <3> QED
      BY <2>10, <3>4 DEF Answer, TypeOK, Looking
  <2>11. ASSUME NEW m \in Node, NEW n \in Node, NoAnswer(m, n)
         PROVE  TypeOK'
    <3>1. attempt[n] \in Attempt
      BY <2>11, AttemptIs DEF NoAnswer, Asks, Gathering
    <3>2. attempt' = [attempt EXCEPT ![n] = [attempt[n] EXCEPT !.asked = attempt[n].asked \cup {m}]]
      BY <2>11 DEF NoAnswer
    <3>3. [attempt[n] EXCEPT !.asked = attempt[n].asked \cup {m}] \in Attempt
      BY <3>1 DEF Attempt
    <3>4. attempt' \in [Node -> {NoAttempt} \cup Attempt \cup Looking]
      BY <2>0, <3>2, <3>3
    <3> QED
      BY <2>11, <3>4 DEF NoAnswer, TypeOK, Looking
  <2>12. CASE UNCHANGED vars
    BY <2>12 DEF vars, TypeOK
  <2> QED
    BY <2>1, <2>2, <2>3, <2>4, <2>5, <2>6, <2>7, <2>8, <2>9, <2>10, <2>11, <2>12 DEF Next
<1> QED
  BY <1>1, <1>2, PTL DEF Spec

\* A wait of 0 is that of a node that has not been through its loop.
StartedInv == \A m \in Node : since[m] = 0 => evaluated[m] = 0

\* Whatever the first iteration finds ends it, and no later one brings it back.
LEMMA StartedInvariant == Spec => []StartedInv
<1>1. Init => StartedInv
  BY DEF Init, StartedInv
<1>2. ASSUME TypeOK, StartedInv, [Next]_vars PROVE StartedInv'
  <2>1. ASSUME NEW n \in Node, Evaluate(n) PROVE StartedInv'
    <3>1. attempt[n].vi \in BlockView
      BY <1>2, <2>1, AttemptIs DEF Evaluate, Looking
    <3>2. attempt[n].vi.block_num \in Block /\ 0 \notin Block /\ Unavailable # 0
      BY <3>1, Bounds DEF BlockView, Block, Unavailable
    <3>3. FirstAvailable(n, attempt[n].vi) # 0
      BY <3>2 DEF FirstAvailable
    <3>4. PICK s : s # 0 /\ since' = [since EXCEPT ![n] = s]
      BY <2>1, <3>2, <3>3 DEF Evaluate, SinceAfter
    <3>5. evaluated' = [evaluated EXCEPT ![n] = attempt[n].vi.block_num]
      BY <2>1 DEF Evaluate
    <3> QED
      BY <1>2, <3>4, <3>5 DEF StartedInv, TypeOK
  <2>2. CASE UNCHANGED <<since, evaluated>>
    BY <1>2, <2>2 DEF StartedInv
  <2>3. (\A n \in Node : ~Evaluate(n)) => UNCHANGED <<since, evaluated>>
    BY <1>2 DEF Next, vars, Tick, TasksRun, Reverted, Refresh, Look, Send, PublishFails,
                PublishReturns, Answer, NoAnswer
  <2> QED
    BY <2>1, <2>2, <2>3
<1> QED
  BY <1>1, <1>2, TypeCorrect, PTL DEF Spec

\* While an attempt gathers, only the answer of a node adds its signature.
LEMMA OnlyAnswersSign ==
  ASSUME TypeOK, [Next]_vars, NEW m \in Node, NEW n \in Node,
         Gathering(n), Gathering(n)', m \in attempt'[n].sigs \ attempt[n].sigs
  PROVE  Answer(m, n)
<1>1. n \in DOMAIN attempt
  BY DEF TypeOK
<1>2. NoAttempt.stage # "gather"
  BY DEF NoAttempt
<1>3. attempt' # attempt
  OBVIOUS
<1>4. ASSUME NEW tx \in mempool, TasksRun(tx) \/ Reverted(tx) PROVE FALSE
  <2>1. ReceiptTo(tx)
    BY <1>4 DEF TasksRun, Reverted
  <2>2. attempt' = [attempt EXCEPT ![tx.by].stage = "mined"] /\ attempt[tx.by].stage = "sent"
    BY <1>3, <2>1 DEF ReceiptTo
  <2>3. tx.by # n
    BY <2>2 DEF Gathering
  <2> QED
    BY <1>1, <2>2, <2>3
<1>5. ASSUME NEW k \in Node, Refresh(k) \/ Look(k) \/ Evaluate(k) \/ PublishFails(k) \/ PublishReturns(k)
      PROVE  FALSE
  <2>1. Refresh(k) => attempt' = attempt
    BY DEF Refresh
  <2>2. k # n => attempt'[n] = attempt[n]
    BY <1>1, <1>5 DEF Refresh, Look, Evaluate, PublishFails, PublishReturns
  <2>3. k # n
    BY <1>1, <1>2, <1>3, <1>5, <2>1 DEF Look, Evaluate, PublishFails, PublishReturns, Gathering
  <2> QED
    BY <2>2, <2>3
<1>6. ASSUME NEW k \in Node, Send(k) PROVE FALSE
  <2>1. attempt' = [attempt EXCEPT ![k].stage = "sent"]
    BY <1>6 DEF Send
  <2>2. k # n
    BY <1>1, <2>1 DEF Gathering
  <2> QED
    BY <1>1, <2>1, <2>2
<1>7. ASSUME NEW l \in Node, NEW k \in Node, NoAnswer(l, k) PROVE FALSE
  <2>1. attempt' = [attempt EXCEPT ![k].asked = @ \cup {l}]
    BY <1>7 DEF NoAnswer
  <2>2. attempt'[n].sigs = attempt[n].sigs
    BY <1>1, <2>1
  <2> QED
    BY <2>2
<1>8. ASSUME NEW l \in Node, NEW k \in Node, Answer(l, k) PROVE l = m /\ k = n
  <2>1. PICK sigs \in {attempt[k].sigs, attempt[k].sigs \cup {l}} :
          attempt' = [attempt EXCEPT ![k] = [attempt[k] EXCEPT !.asked = attempt[k].asked \cup {l},
                                                               !.sigs = sigs]]
    BY <1>8 DEF Answer
  <2>2. k = n
    BY <1>1, <2>1
  <2>3. attempt[n] \in Attempt
    BY AttemptIs DEF Gathering
  <2>4. attempt'[n].sigs = sigs
    BY <1>1, <2>1, <2>2, <2>3 DEF Attempt
  <2> QED
    BY <2>1, <2>2, <2>4
<1>9. CASE UNCHANGED vars
  BY <1>3, <1>9 DEF vars
<1>10. CASE Tick
  BY <1>3, <1>10 DEF Tick
<1> QED
  BY <1>4, <1>5, <1>6, <1>7, <1>8, <1>9, <1>10 DEF Next

\* Whatever the nodes find and whenever, one that has been through its loop endorses a
\* fallback only after a wait of its own (TaskRequestValidation.validate_turn).
THEOREM WaitedBefore == Spec => EndorsedAfterWait
<1>1. ASSUME TypeOK, StartedInv, [Next]_vars, NEW m \in Node, NEW n \in Node,
             Gathering(n), Gathering(n)', m \in attempt'[n].sigs \ attempt[n].sigs,
             n # Order[attempt[n].vi.last_pub_block][1], evaluated[m] # 0
      PROVE  since[m] \in Block /\ info[m].block_num - since[m] >= PricePublishBlocks
  <2>1. Answer(m, n)
    BY <1>1, OnlyAnswersSign
  <2>2. attempt[n] \in Attempt
    BY <1>1, AttemptIs DEF Gathering
  <2>3. \E available, flags : Endorses(m, n, available, flags)
    <3>1. PICK tasks \in Answers(chain.flags # 0, FALSE), flags \in Answers(chain.flags, 0),
               ignored \in Ignores(m), delivered \in BOOLEAN :
            attempt' = [attempt EXCEPT
              ![n].asked = attempt[n].asked \cup {m},
              ![n].sigs  = IF Endorses(m, n, tasks /\ ~ignored, flags) /\ delivered
                           THEN attempt[n].sigs \cup {m} ELSE attempt[n].sigs]
      BY <2>1 DEF Answer
    <3>2. CASE ~Endorses(m, n, tasks /\ ~ignored, flags)
      <4>1. attempt'[n].sigs = attempt[n].sigs
        BY <1>1, <2>2, <3>1, <3>2 DEF TypeOK, Attempt
      <4> QED
        BY <1>1, <4>1
    <3> QED
      BY <3>2
  <2>4. since[m] # Unavailable
    BY <1>1, <2>3 DEF Endorses
  <2>5. IsTasksTurn(since[m], info[m], n, Order[attempt[n].vi.last_pub_block], FALSE)
    BY <1>1, <2>3 DEF Endorses
  <2>6. since[m] \in Block
    BY <1>1, <2>4 DEF TypeOK, StartedInv
  <2> QED
    BY <2>5, <2>6 DEF IsTasksTurn
<1>2. TypeOK /\ StartedInv /\ [Next]_vars =>
        [\A m, n \in Node :
           /\ Gathering(n) /\ Gathering(n)'
           /\ m \in attempt'[n].sigs \ attempt[n].sigs
           /\ n # Order[attempt[n].vi.last_pub_block][1]
           => \/ evaluated[m] = 0
              \/ since[m] \in Block /\ info[m].block_num - since[m] >= PricePublishBlocks]_vars
  BY <1>1
<1> QED
  BY <1>2, TypeCorrect, StartedInvariant, PTL DEF Spec, EndorsedAfterWait
=============================================================================
