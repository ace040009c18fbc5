----------------------- MODULE PricePublication_proofs -----------------------
(***************************************************************************)
(* What holds of PricePublication for any nodes, configuration, orders of  *)
(* turns and chain: the types, and that no fallback publishes early.       *)
(***************************************************************************)
EXTENDS PricePublication, SequenceTheorems, TLAPS

-----------------------------------------------------------------------------
(* The fallback sequence *)

\* The configured amounts never go down, as in every default of
\* oracle_configuration.py.  With a lower amount later on, a fallback that may
\* publish at a block may not at the next one.
AmountsGrow ==
  \A i, j \in DOMAIN EnteringFallbacksAmounts :
    i <= j => EnteringFallbacksAmounts[i] <= EnteringFallbacksAmounts[j]

\* get_fallback_sequence returns a sequence of amounts that never go down.
LEMMA SequenceGrows ==
  ASSUME AmountsGrow, NEW n \in Nat
  PROVE  /\ GetFallbackSequence(n) \in Seq(Nat)
         /\ GetFallbackSequence(n) # <<>>
         /\ \A i, j \in DOMAIN GetFallbackSequence(n) :
              i <= j => GetFallbackSequence(n)[i] <= GetFallbackSequence(n)[j]
<1> DEFINE amounts == EnteringFallbacksAmounts
           plus    == [i \in DOMAIN amounts |-> amounts[i] + 1]
           seq     == <<1>> \o plus
<1>a. /\ amounts \in Seq(Nat) /\ Len(amounts) \in Nat /\ DOMAIN amounts = 1 .. Len(amounts)
      /\ \A i \in 1 .. Len(amounts) : amounts[i] \in Nat
      /\ \A i, j \in 1 .. Len(amounts) : i <= j => amounts[i] <= amounts[j]
  BY TurnConfAssumption, LenProperties, ElementOfSeq DEF AmountsGrow
<1> HIDE DEF amounts
<1>1. /\ plus \in Seq(Nat)
      /\ Len(plus) = Len(amounts)
      /\ \A i \in 1 .. Len(plus) : plus[i] = amounts[i] + 1
  <2>1. plus \in [1 .. Len(amounts) -> Nat]
    BY <1>a
  <2>2. plus \in Seq(Nat)
    BY <2>1, <1>a, SeqDef
  <2>3. DOMAIN plus = 1 .. Len(amounts)
    BY <1>a
  <2>4. \A i \in 1 .. Len(amounts) : plus[i] = amounts[i] + 1
    BY <1>a
  <2> HIDE DEF plus
  <2>5. Len(plus) = Len(amounts)
    BY <2>2, <2>3, <1>a, LenProperties
  <2> QED BY <2>2, <2>4, <2>5
<1> HIDE DEF plus
<1>2. /\ seq \in Seq(Nat)
      /\ Len(seq) = Len(plus) + 1
      /\ seq[1] = 1
      /\ \A i \in 2 .. Len(seq) : seq[i] = plus[i - 1]
  BY <1>1, <1>a
<1> HIDE DEF seq
<1>3. \A i, j \in 1 .. Len(seq) : i <= j => seq[i] <= seq[j]
  <2> SUFFICES ASSUME NEW i \in 1 .. Len(seq), NEW j \in 1 .. Len(seq), i <= j
               PROVE  seq[i] <= seq[j]
    OBVIOUS
  <2>0. Len(seq) \in Nat /\ Len(seq) = Len(amounts) + 1
    BY <1>1, <1>2, <1>a
  <2>a. ASSUME NEW k \in 2 .. Len(seq)
        PROVE  /\ k - 1 \in 1 .. Len(amounts)
               /\ seq[k] = amounts[k - 1] + 1
               /\ seq[k] \in Nat /\ seq[k] >= 1
    <3>1. k - 1 \in 1 .. Len(amounts)
      BY <2>0
    <3>2. seq[k] = amounts[k - 1] + 1
      BY <3>1, <1>1, <1>2
    <3> QED BY <3>1, <3>2, <1>a
  <2>1. CASE i = 1 /\ j = 1
    BY <2>1, <1>2
  <2>2. CASE i = 1 /\ j > 1
    BY <2>0, <2>2, <2>a, <1>2
  <2>3. CASE i > 1
    <3>1. i \in 2 .. Len(seq) /\ j \in 2 .. Len(seq) /\ i - 1 <= j - 1
      BY <2>0, <2>3
    <3>2. amounts[i - 1] <= amounts[j - 1] /\ amounts[i - 1] \in Nat /\ amounts[j - 1] \in Nat
      BY <3>1, <2>a, <1>a
    <3> QED BY <3>1, <3>2, <2>a
  <2> QED BY <2>0, <2>1, <2>2, <2>3
<1>4. GetFallbackSequence(n) = IF seq[Len(seq)] < n - 1 THEN Append(seq, n) ELSE seq
  BY DEF GetFallbackSequence, amounts, plus, seq
<1>5. CASE seq[Len(seq)] < n - 1
  <2> DEFINE full == Append(seq, n)
  <2>1. /\ full \in Seq(Nat)
        /\ Len(full) = Len(seq) + 1
        /\ full[Len(seq) + 1] = n
        /\ \A i \in 1 .. Len(seq) : full[i] = seq[i]
    BY <1>2
  <2>2. \A i \in 1 .. Len(seq) : seq[i] \in Nat /\ seq[i] <= n
    <3> SUFFICES ASSUME NEW i \in 1 .. Len(seq) PROVE seq[i] \in Nat /\ seq[i] <= n
      OBVIOUS
    <3>1. seq[i] \in Nat /\ seq[Len(seq)] \in Nat /\ seq[i] <= seq[Len(seq)]
      BY <1>1, <1>2, <1>3
    <3> QED BY <3>1, <1>5
  <2>3. \A i, j \in 1 .. Len(full) : i <= j => full[i] <= full[j]
    BY <2>1, <2>2, <1>2, <1>3
  <2>4. GetFallbackSequence(n) = full
    BY <1>4, <1>5
  <2> HIDE DEF full
  <2> QED BY <2>1, <2>3, <2>4
<1>6. CASE ~(seq[Len(seq)] < n - 1)
  BY <1>6, <1>4, <1>2, <1>3
<1> QED BY <1>5, <1>6

\* can_oracle_publish never takes back at a later block what it gave.
LEMMA LaterIsNoLess ==
  ASSUME AmountsGrow, NEW addresses \in Seq(Node), NEW addr,
         NEW b1 \in Nat, NEW b2 \in Nat, b1 <= b2,
         CanOraclePublish(b1, addr, addresses, FALSE)
  PROVE  CanOraclePublish(b2, addr, addresses, FALSE)
<1> DEFINE seq == GetFallbackSequence(Len(addresses))
           i1  == FallbackIndex(b1, seq)
           i2  == FallbackIndex(b2, seq)
<1>1. /\ seq \in Seq(Nat) /\ seq # <<>>
      /\ \A i, j \in DOMAIN seq : i <= j => seq[i] <= seq[j]
  BY SequenceGrows
<1>2. CASE addr = addresses[1]
  BY <1>2 DEF CanOraclePublish
<1>3. CASE IsFallback(addr, addresses, seq[i1])
  <2> HIDE DEF seq
  <2>1. i1 \in DOMAIN seq /\ i2 \in DOMAIN seq /\ i1 <= i2
    BY <1>1 DEF FallbackIndex
  <2>2. seq[i1] \in Nat /\ seq[i2] \in Nat /\ seq[i1] <= seq[i2]
    BY <2>1, <1>1
  <2>3. IsFallback(addr, addresses, seq[i2])
    BY <2>2, <1>3 DEF IsFallback
  <2> QED BY <2>3 DEF CanOraclePublish, seq
<1> QED BY <1>2, <1>3 DEF CanOraclePublish

-----------------------------------------------------------------------------
(* Types *)

TurnType == [pub : Block \cup {-1}, block : Block \cup {-1}]

\* What a node reads from the chain has the shape of the chain.
LEMMA AnswersTyped ==
  ASSUME TypeOK, NEW n \in Node
  PROVE  /\ Answers(n) \subseteq Snapshot
         /\ UpToDate(n) \in Snapshot
BY DEF TypeOK, Answers, UpToDate, Gathered, Snapshot

\* Evaluating a turn leaves a turn.
LEMMA TurnTyped ==
  ASSUME NEW t \in TurnType, NEW vi, vi.block_num \in Block, vi.last_pub_block \in Block,
         NEW addr, NEW addresses, NEW price
  PROVE  /\ TurnLeft(t, vi, addr, addresses, price, Signal) \in TurnType
         /\ TurnLeftByValidation(t, vi, addr, addresses, price, Signal) \in TurnType
<1>1. TurnAfter(t, vi, price, Signal) \in TurnType
  BY DEF TurnAfter, TurnType
<1> QED BY <1>1 DEF TurnLeft, TurnLeftByValidation

\* A running attempt is a full record.
LEMMA RunningTyped ==
  ASSUME TypeOK, NEW n \in Node, attempt[n].stage # "none"
  PROVE  attempt[n] \in Attempt
BY DEF TypeOK, NoAttempt

\* A receipt only moves an attempt on.
LEMMA ReceiptTyped ==
  ASSUME TypeOK, NEW tx \in mempool, NEW stage \in {"mined", "reverted"}, ReceiptTo(tx, stage)
  PROVE  /\ attempt' \in [Node -> Attempt \cup {NoAttempt}]
         /\ \A n \in Node : attempt'[n] = attempt[n] \/
              /\ attempt[n].stage = "sent"
              /\ attempt'[n] = [attempt[n] EXCEPT !.stage = stage]
<1>1. tx.by \in Node
  BY DEF TypeOK, TxType
<1>2. CASE attempt[tx.by].stage = "sent" /\ attempt' = [attempt EXCEPT ![tx.by].stage = stage]
  <2>1. attempt[tx.by] \in Attempt
    BY <1>1, <1>2, RunningTyped
  <2>2. [attempt[tx.by] EXCEPT !.stage = stage] \in Attempt
    BY <2>1 DEF Attempt
  <2> QED BY <1>1, <1>2, <2>2 DEF TypeOK
<1>3. CASE attempt' = attempt
  BY <1>3 DEF TypeOK
<1> QED BY <1>2, <1>3 DEF ReceiptTo

\* The initial state has the right shape.
LEMMA TypeInit == Init => TypeOK
BY PublicationAssumption DEF Init, TypeOK, Snapshot, Block, Price, Rounds, NoTurn

\* Every action keeps the shape.
LEMMA TypeStep == TypeOK /\ [Next]_vars => TypeOK'
<1> SUFFICES ASSUME TypeOK, [Next]_vars PROVE TypeOK'
  OBVIOUS
<1> USE PublicationAssumption
<1>1. CASE Tick
  <2>1. chain.block_num + 1 \in Block
    BY <1>1, SMTT(30) DEF TypeOK, Tick, Snapshot, Block
  <2>2. chain' \in Snapshot
    BY <1>1, <2>1 DEF TypeOK, Tick, ChainMoves, Snapshot
  <2> QED BY <1>1, <2>2 DEF TypeOK, Tick, ChainMoves
<1>2. CASE SwitchRound
  <2>1. chain.block_num + 1 \in Block
    BY <1>2, SMTT(30) DEF TypeOK, SwitchRound, Snapshot, Block
  <2>2. chain' \in Snapshot
    BY <1>2, <2>1 DEF TypeOK, SwitchRound, ChainMoves, Snapshot
  <2> QED BY <1>2, <2>2 DEF TypeOK, SwitchRound, ChainMoves
<1>3. ASSUME NEW tx \in mempool, Mined(tx) PROVE TypeOK'
  <2>1. tx.price \in Price
    BY DEF TypeOK, TxType
  <2>2. chain.block_num + 1 \in Block
    BY <1>3, SMTT(30) DEF TypeOK, Mined, Snapshot, Block
  <2>3. chain' \in Snapshot
    BY <1>3, <2>1, <2>2 DEF TypeOK, Mined, ChainMoves, Snapshot
  <2>4. attempt' \in [Node -> Attempt \cup {NoAttempt}]
    BY <1>3, ReceiptTyped DEF Mined
  <2> QED BY <1>3, <2>3, <2>4 DEF TypeOK, Mined, ChainMoves
<1>4. ASSUME NEW tx \in mempool, Reverted(tx) PROVE TypeOK'
  BY <1>4, ReceiptTyped DEF TypeOK, Reverted
<1>5. ASSUME NEW n \in Node, NEW s \in Answers(n), Refresh(n, s) PROVE TypeOK'
  BY <1>5, AnswersTyped DEF TypeOK, Refresh
<1>6. ASSUME NEW n \in Node, Evaluate(n) PROVE TypeOK'
  <2>1. info[n] \in Snapshot
    BY <1>6 DEF TypeOK, Evaluate, HasInfo
  <2>2. PICK price \in ExchangePrices :
          /\ turn' = [turn EXCEPT ![n] = TurnLeft(@, View(n), n, Addresses(n), price, Signal)]
          /\ attempt' = IF Decides(n, price) THEN [attempt EXCEPT ![n] = NewAttempt(n, price)]
                                             ELSE attempt
    BY <1>6 DEF Evaluate
  <2>3. turn' \in [Node -> TurnType]
    <3>1. turn[n] \in TurnType /\ View(n).block_num \in Block /\ View(n).last_pub_block \in Block
      BY <2>1 DEF TypeOK, TurnType, View, Snapshot
    <3>2. TurnLeft(turn[n], View(n), n, Addresses(n), price, Signal) \in TurnType
      BY <3>1, TurnTyped
    <3> QED BY <2>2, <3>2 DEF TypeOK, TurnType
  <2>4. NewAttempt(n, price) \in Attempt
    BY <2>1 DEF NewAttempt, Attempt, Snapshot, Price
  <2>5. attempt' \in [Node -> Attempt \cup {NoAttempt}]
    BY <2>2, <2>4 DEF TypeOK
  <2> QED BY <1>6, <2>3, <2>5 DEF TypeOK, TurnType, Evaluate
<1>7. ASSUME NEW n \in Node, SignaturesAge(n) PROVE TypeOK'
  <2>1. attempt[n] \in Attempt
    BY <1>7, RunningTyped DEF SignaturesAge, Gathering
  <2>2. [attempt[n] EXCEPT !.fresh = FALSE] \in Attempt
    BY <2>1 DEF Attempt
  <2> QED BY <1>7, <2>2 DEF TypeOK, SignaturesAge
<1>8. ASSUME NEW n \in Node, Send(n) PROVE TypeOK'
  <2>1. attempt[n] \in Attempt
    BY <1>8, RunningTyped DEF Send, Gathering
  <2>2. [attempt[n] EXCEPT !.stage = "sent"] \in Attempt /\ Tx(n, attempt[n]) \in TxType
    BY <2>1 DEF Attempt, Tx, TxType
  <2> QED BY <1>8, <2>2 DEF TypeOK, Send
<1>9. ASSUME NEW n \in Node, PublishFails(n) PROVE TypeOK'
  BY <1>9 DEF TypeOK, PublishFails
<1>10. ASSUME NEW n \in Node, PublishReturns(n) PROVE TypeOK'
  BY <1>10, AnswersTyped DEF TypeOK, PublishReturns
<1>11. ASSUME NEW n \in Node, Restart(n) PROVE TypeOK'
  BY <1>11 DEF TypeOK, Restart, NoTurn
<1>12. ASSUME NEW m \in Node, NEW n \in Node, Answer(m, n) PROVE TypeOK'
  <2>1. attempt[n] \in Attempt
    BY <1>12, RunningTyped DEF Answer, Asks, Publishing
  <2>2. PICK price \in ExchangePrices, delivered \in BOOLEAN :
          LET a     == attempt[n]
              valid == ValidParams(m, a, price)
              signs == valid /\ ValidateTurn(turn[m], View(m), n, Addresses(m), price, Signal)
          IN  /\ turn' = IF valid
                         THEN [turn EXCEPT ![m] =
                                 TurnLeftByValidation(@, View(m), n, Addresses(m), price, Signal)]
                         ELSE turn
              /\ attempt' = [attempt EXCEPT ![n].asked = @ \cup {m},
                                            ![n].sigs = IF signs /\ delivered THEN @ \cup {m} ELSE @]
    BY <1>12 DEF Answer
  <2>3. turn' \in [Node -> TurnType]
    <3>1. CASE ValidParams(m, attempt[n], price)
      <4>1. info[m] \in Snapshot
        BY <3>1 DEF TypeOK, ValidParams, HasInfo
      <4>2. turn[m] \in TurnType /\ View(m).block_num \in Block /\ View(m).last_pub_block \in Block
        BY <4>1 DEF TypeOK, TurnType, View, Snapshot
      <4>3. TurnLeftByValidation(turn[m], View(m), n, Addresses(m), price, Signal) \in TurnType
        BY <4>2, TurnTyped
      <4> QED BY <2>2, <3>1, <4>3 DEF TypeOK, TurnType
    <3>2. CASE ~ValidParams(m, attempt[n], price)
      BY <2>2, <3>2 DEF TypeOK, TurnType
    <3> QED BY <3>1, <3>2
  <2>4. attempt' \in [Node -> Attempt \cup {NoAttempt}]
    <3>1. PICK sigs \in {attempt[n].sigs, attempt[n].sigs \cup {m}} :
            attempt' = [attempt EXCEPT ![n].asked = @ \cup {m}, ![n].sigs = sigs]
      BY <2>2
    <3>2. [attempt[n] EXCEPT !.asked = @ \cup {m}, !.sigs = sigs] \in Attempt
      BY <2>1 DEF Attempt
    <3> QED BY <3>1, <3>2 DEF TypeOK
  <2> QED BY <1>12, <2>3, <2>4 DEF TypeOK, TurnType, Answer
<1>13. ASSUME NEW m \in Node, NEW n \in Node, NoAnswer(m, n) PROVE TypeOK'
  <2>1. attempt[n] \in Attempt
    BY <1>13, RunningTyped DEF NoAnswer, Asks, Publishing
  <2>2. [attempt[n] EXCEPT !.asked = @ \cup {m}] \in Attempt
    BY <2>1 DEF Attempt
  <2> QED BY <1>13, <2>2 DEF TypeOK, NoAnswer
<1>14. CASE UNCHANGED vars
  BY <1>14 DEF TypeOK, vars
<1> QED
  BY <1>1, <1>2, <1>3, <1>4, <1>5, <1>6, <1>7, <1>8, <1>9, <1>10, <1>11, <1>12, <1>13, <1>14 DEF Next

\* Every variable keeps its shape, whatever the nodes cache, in whatever order
\* answers, receipts and restarts come.
THEOREM TypeCorrect == Spec => []TypeOK
<1> QED BY TypeInit, TypeStep, PTL DEF Spec

-----------------------------------------------------------------------------
(* How an attempt comes about *)

\* An attempt that goes on for the same publication.
GoesOn(k) ==
  /\ Publishing(k)
  /\ attempt'[k].round = attempt[k].round
  /\ attempt'[k].last_pub_block = attempt[k].last_pub_block

\* An attempt that starts on a decision of its node.
Starts(k) ==
  \E price \in ExchangePrices :
    HasInfo(k) /\ Decides(k, price) /\ attempt'[k] = NewAttempt(k, price)

\* Whatever the step, an attempt goes on for its publication or starts on a
\* decision of its node.
LEMMA AttemptStep ==
  ASSUME TypeOK, [Next]_vars, NEW k \in Node, Publishing(k)'
  PROVE  GoesOn(k) \/ Starts(k)
<1>1. CASE attempt'[k] = attempt[k]
  BY <1>1 DEF Publishing, GoesOn
<1>2. ASSUME NEW tx \in mempool, Mined(tx) \/ Reverted(tx) PROVE GoesOn(k)
  <2>1. PICK stage \in {"mined", "reverted"} : ReceiptTo(tx, stage)
    BY <1>2 DEF Mined, Reverted
  <2>2. CASE attempt[k].stage = "sent" /\ attempt'[k] = [attempt[k] EXCEPT !.stage = stage]
    <3>1. attempt[k] \in Attempt
      BY <2>2, RunningTyped
    <3> QED BY <2>2, <3>1 DEF Publishing, GoesOn, Attempt
  <2>3. CASE attempt'[k] = attempt[k]
    BY <2>3 DEF Publishing, GoesOn
  <2> QED BY <2>1, <2>2, <2>3, ReceiptTyped
<1>3. ASSUME NEW n \in Node, Evaluate(n) PROVE GoesOn(k) \/ Starts(k)
  <2>1. PICK price \in ExchangePrices :
          attempt' = IF Decides(n, price) THEN [attempt EXCEPT ![n] = NewAttempt(n, price)]
                                          ELSE attempt
    BY <1>3 DEF Evaluate
  <2>2. CASE Decides(n, price) /\ k = n
    BY <1>3, <2>1, <2>2 DEF TypeOK, Evaluate, Starts
  <2>3. CASE ~(Decides(n, price) /\ k = n)
    BY <1>1, <2>1, <2>3 DEF TypeOK
  <2> QED BY <2>2, <2>3
<1>4. ASSUME NEW n \in Node, Send(n) \/ SignaturesAge(n) PROVE GoesOn(k)
  <2>1. attempt[n] \in Attempt
    BY <1>4, RunningTyped DEF Send, SignaturesAge, Gathering
  <2> QED
    BY <1>4, <2>1 DEF TypeOK, Send, SignaturesAge, Gathering, Publishing, GoesOn, Attempt
<1>5. ASSUME NEW n \in Node, PublishFails(n) \/ PublishReturns(n) \/ Restart(n) PROVE GoesOn(k)
  <2>1. attempt' = [attempt EXCEPT ![n] = NoAttempt]
    BY <1>5 DEF PublishFails, PublishReturns, Restart
  <2> QED BY <2>1 DEF TypeOK, Publishing, GoesOn, NoAttempt
<1>6. ASSUME NEW m \in Node, NEW n \in Node, Answer(m, n) \/ NoAnswer(m, n) PROVE GoesOn(k)
  <2>1. attempt[n] \in Attempt
    BY <1>6, RunningTyped DEF Answer, NoAnswer, Asks, Publishing
  <2>2. PICK sigs : attempt' = [attempt EXCEPT ![n].asked = @ \cup {m}, ![n].sigs = sigs]
    <3>1. CASE Answer(m, n)
      BY <3>1 DEF Answer
    <3>2. CASE NoAnswer(m, n)
      <4>1. attempt' = [attempt EXCEPT ![n].asked = @ \cup {m}, ![n].sigs = attempt[n].sigs]
        BY <2>1, <3>2 DEF NoAnswer, Attempt, TypeOK
      <4> QED BY <4>1
    <3> QED BY <1>6, <3>1, <3>2
  <2> QED
    BY <1>6, <2>1, <2>2 DEF TypeOK, Answer, NoAnswer, Asks, Publishing, GoesOn, Attempt
<1>7. CASE attempt' = attempt
  BY <1>1, <1>7
<1> QED
  BY <1>2, <1>3, <1>4, <1>5, <1>6, <1>7 DEF Next, Tick, SwitchRound, Refresh, vars

-----------------------------------------------------------------------------
(* No fallback publishes early *)

\* What is known of the past: nothing that was read, and no price change that
\* was seen, is ahead of the chain or before its own publication.
PastInv ==
  /\ \A s \in snapshots : s.last_pub_block <= s.block_num /\ s.block_num <= chain.block_num
  /\ chain \in snapshots
  /\ \A n \in Node : info[n] = NoInfo \/ info[n] \in snapshots
  /\ \A n \in Node : turn[n].block = -1 \/ turn[n].pub <= turn[n].block

EarlyInv == TypeOK /\ PastInv /\ NoEarlyFallback

\* The order of a publication is a sequence of nodes.
LEMMA OrderTyped ==
  ASSUME NEW r \in Rounds, NEW b \in Block
  PROVE  Order[r][b] \in Seq(Node)
<1>1. Order[r] \in [Block -> Seq(Node) \ {<<>>}]
  BY PublicationAssumption, ElementOfSeq DEF Rounds
<1> QED BY <1>1

\* An entitlement is not lost while the chain grows.
LEMMA EntitledLater ==
  ASSUME AmountsGrow, NEW n, NEW r \in Rounds, NEW pub \in Block,
         NEW b1 \in Nat, NEW b2 \in Nat, b1 <= b2, EntitledAt(n, r, pub, b1)
  PROVE  EntitledAt(n, r, pub, b2)
<1>1. Order[r][pub] \in Seq(Node)
  BY OrderTyped
<1>2. CASE n = Order[r][pub][1]
  BY <1>2 DEF EntitledAt
<1>3. CASE n # Order[r][pub][1]
  <2>1. PICK start \in {pub + PricePublishBlocks,
                        pub + ValidPricePeriod - TriggerValidPublicationBlocks} :
          b1 >= start /\ CanOraclePublish(b1 - start, n, Order[r][pub], FALSE)
    BY <1>3 DEF EntitledAt
  <2>2. start \in Int
    BY TurnConfAssumption, PublicationAssumption DEF Block
  <2>3. b1 - start \in Nat /\ b2 - start \in Nat /\ b1 - start <= b2 - start /\ b2 >= start
    BY <2>1, <2>2
  <2>4. CanOraclePublish(b2 - start, n, Order[r][pub], FALSE)
    BY <1>1, <2>1, <2>3, LaterIsNoLess
  <2> QED BY <2>1, <2>3, <2>4 DEF EntitledAt
<1> QED BY <1>2, <1>3

\* A node's decision to publish is an entitlement at the block it looks at.
LEMMA DecisionEntitled ==
  ASSUME AmountsGrow, EarlyInv, NEW n \in Node, NEW price \in ExchangePrices,
         HasInfo(n), Decides(n, price)
  PROVE  EntitledAt(n, info[n].round, info[n].last_pub_block, chain.block_num)
<1> DEFINE pub   == info[n].last_pub_block
           block == info[n].block_num
           round == info[n].round
           expiry == pub + ValidPricePeriod - TriggerValidPublicationBlocks
           change == pub + PricePublishBlocks
<1> USE TurnConfAssumption, PublicationAssumption
<1>1. /\ info[n] \in Snapshot /\ round \in Rounds /\ pub \in Block /\ block \in Block
      /\ pub \in Nat /\ block \in Nat
      /\ pub <= block /\ block <= chain.block_num /\ chain.block_num \in Nat
  BY DEF EarlyInv, TypeOK, PastInv, HasInfo, Snapshot, Block
<1>2. /\ View(n).block_num = block /\ View(n).last_pub_block = pub
      /\ View(n).valid_price_period_in_blocks = ValidPricePeriod
      /\ Addresses(n) = Order[round][pub]
  BY DEF View, Addresses
<1>3. Order[round][pub] \in Seq(Node)
  BY <1>1, OrderTyped
<1>4. CASE CanPublishBeforeExpiry(View(n), n, Addresses(n), Signal, n \in FallbacksDisabled)
  <2>1. ValidPricePeriod >= TriggerValidPublicationBlocks
    BY <1>2 DEF Decides, IsOracleTurn, TurnIsEvaluated
  <2>2. StartOfPubPeriod(View(n), Signal) = expiry
    <3> DEFINE start == pub - TriggerValidPublicationBlocks + ValidPricePeriod
    <3>1. start = expiry /\ ~(0 > start)
      BY <1>1, <2>1, SMTT(30)
    <3>2. /\ Signal.valid_price_period = ValidPricePeriod
          /\ Signal.last_online_block = 0 /\ Signal.last_offline_block = 0
      BY DEF Signal
    <3>3. StartOfPubPeriod(View(n), Signal) = start
      BY <1>2, <3>1, <3>2 DEF StartOfPubPeriod
    <3> QED BY <3>1, <3>3
  <2>3. block >= expiry /\ CanOraclePublish(block - expiry, n, Order[round][pub], FALSE)
    BY <1>2, <1>4, <2>2 DEF CanPublishBeforeExpiry, CanOraclePublish
  <2>4. EntitledAt(n, round, pub, block)
    BY <2>3 DEF EntitledAt
  <2> QED BY <1>1, <2>4, EntitledLater
<1>5. CASE CanPublishAfterChange(turn[n], View(n), n, Addresses(n), price, Signal,
                                 n \in FallbacksDisabled)
  <2> DEFINE t      == TurnAfter(turn[n], View(n), price, Signal)
             blocks == PriceChangedBlocks(turn[n], View(n), price, Signal)
  <2>1. t.block \in Int /\ (t.block = -1 \/ t.pub <= t.block)
    <3>1. CASE t = turn[n]
      BY <3>1 DEF EarlyInv, TypeOK, PastInv, Block
    <3>2. CASE t = [pub |-> pub, block |-> block]
      BY <1>1, <3>2
    <3> QED BY <1>2, <3>1, <3>2 DEF TurnAfter
  <2>2. /\ blocks >= PricePublishBlocks
        /\ CanOraclePublish(blocks - PricePublishBlocks, n, Order[round][pub], FALSE)
    BY <1>2, <1>5 DEF CanPublishAfterChange, CanOraclePublish
  <2>3. Remembered(t, View(n)) /\ blocks = block - t.block
    <3>1. CASE Remembered(t, View(n))
      BY <1>2, <3>1 DEF PriceChangedBlocks
    <3>2. CASE ~Remembered(t, View(n))
      <4>1. blocks = -1
        BY <3>2 DEF PriceChangedBlocks, NotChanged
      <4> QED BY <2>2, <4>1
    <3> QED BY <3>1, <3>2
  <2>4. pub <= t.block
    BY <1>2, <2>1, <2>3 DEF Remembered
  <2>5. /\ blocks - PricePublishBlocks \in Nat /\ block - change \in Nat
        /\ blocks - PricePublishBlocks <= block - change
    <3>1. change = pub + PricePublishBlocks
      OBVIOUS
    <3>2. /\ pub \in Nat /\ block \in Nat /\ t.block \in Int /\ pub <= t.block
          /\ blocks = block - t.block /\ blocks >= PricePublishBlocks
      BY <1>1, <2>1, <2>2, <2>3, <2>4
    <3> HIDE DEF pub, block, round, change, t, blocks
    <3> QED BY <3>1, <3>2
  <2>6. CanOraclePublish(block - change, n, Order[round][pub], FALSE)
    BY <1>3, <2>2, <2>5, LaterIsNoLess
  <2>7. EntitledAt(n, round, pub, block)
    <3>1. block >= change
      <4>1. change = pub + PricePublishBlocks /\ pub \in Nat /\ block \in Nat
        BY <1>1
      <4> HIDE DEF pub, block, change
      <4> QED BY <2>5, <4>1
    <3> QED BY <2>6, <3>1 DEF EntitledAt
  <2> QED BY <1>1, <2>7, EntitledLater
<1> QED BY <1>4, <1>5 DEF Decides, IsOracleTurn

\* A turn that is evaluated on what a node has cached keeps to the past.
LEMMA TurnPast ==
  ASSUME NEW t, t.block = -1 \/ t.pub <= t.block,
         NEW vi, vi.last_pub_block <= vi.block_num,
         NEW addr, NEW addresses, NEW price,
         NEW left \in {TurnLeft(t, vi, addr, addresses, price, Signal),
                       TurnLeftByValidation(t, vi, addr, addresses, price, Signal)}
  PROVE  left.block = -1 \/ left.pub <= left.block
<1>1. TurnAfter(t, vi, price, Signal) \in {t, [pub |-> vi.last_pub_block, block |-> vi.block_num]}
  BY DEF TurnAfter
<1>2. left \in {t, [pub |-> vi.last_pub_block, block |-> vi.block_num]}
  BY <1>1 DEF TurnLeft, TurnLeftByValidation
<1> QED BY <1>2

\* The chain never goes back, and what it has answered stays in its past.
LEMMA ChainPast ==
  ASSUME EarlyInv, ChainMoves(chain'), chain' \in Snapshot,
         chain.block_num <= chain'.block_num, chain'.last_pub_block <= chain'.block_num
  PROVE  \A s \in snapshots' : s.last_pub_block <= s.block_num /\ s.block_num <= chain'.block_num
<1> SUFFICES ASSUME NEW s \in snapshots'
             PROVE  s.last_pub_block <= s.block_num /\ s.block_num <= chain'.block_num
  OBVIOUS
<1>1. CASE s \in snapshots
  <2>1. /\ s.block_num \in Nat /\ chain.block_num \in Nat /\ chain'.block_num \in Nat
        /\ s.last_pub_block <= s.block_num /\ s.block_num <= chain.block_num
    BY <1>1, PublicationAssumption DEF EarlyInv, TypeOK, PastInv, Snapshot, Block
  <2> QED BY <2>1
<1>2. CASE s = chain'
  BY <1>2, PublicationAssumption DEF Snapshot, Block
<1> QED BY <1>1, <1>2 DEF ChainMoves

\* At the start nothing was read yet.
LEMMA PastInit == Init => PastInv
BY DEF Init, PastInv, NoInfo, NoTurn

\* Every action keeps to the past: the chain moves forward, reads are of what it
\* has answered, and turns are evaluated on such reads.
LEMMA PastStep ==
  ASSUME InfoService = Node, EarlyInv, TypeOK', [Next]_vars
  PROVE  PastInv'
<1> USE PublicationAssumption
<1>0. chain \in Snapshot /\ chain' \in Snapshot /\ chain.block_num \in Nat /\ chain.last_pub_block \in Nat
      /\ chain.last_pub_block <= chain.block_num
  BY DEF EarlyInv, TypeOK, PastInv, Snapshot, Block
<1>1. CASE Tick
  <2>1. chain'.block_num = chain.block_num + 1 /\ chain'.last_pub_block = chain.last_pub_block
    BY <1>0, <1>1 DEF Tick, ChainMoves, Snapshot
  <2>2. \A s \in snapshots' : s.last_pub_block <= s.block_num /\ s.block_num <= chain'.block_num
    BY <1>0, <1>1, <2>1, ChainPast DEF Tick, ChainMoves
  <2> QED BY <1>1, <2>2 DEF EarlyInv, PastInv, Tick, ChainMoves
<1>2. CASE SwitchRound
  <2>1. chain'.block_num = chain.block_num + 1 /\ chain'.last_pub_block = chain.last_pub_block
    BY <1>0, <1>2 DEF SwitchRound, ChainMoves, Snapshot
  <2>2. \A s \in snapshots' : s.last_pub_block <= s.block_num /\ s.block_num <= chain'.block_num
    BY <1>0, <1>2, <2>1, ChainPast DEF SwitchRound, ChainMoves
  <2> QED BY <1>2, <2>2 DEF EarlyInv, PastInv, SwitchRound, ChainMoves
<1>3. ASSUME NEW tx \in mempool, Mined(tx) PROVE PastInv'
  <2>1. chain'.block_num = chain.block_num + 1 /\ chain'.last_pub_block = chain.block_num + 1
    BY <1>0, <1>3 DEF Mined, ChainMoves, Snapshot
  <2>2. \A s \in snapshots' : s.last_pub_block <= s.block_num /\ s.block_num <= chain'.block_num
    BY <1>0, <1>3, <2>1, ChainPast DEF Mined, ChainMoves
  <2> QED BY <1>3, <2>2 DEF EarlyInv, PastInv, Mined, ChainMoves
<1>4. ASSUME NEW tx \in mempool, Reverted(tx) PROVE PastInv'
  BY <1>4 DEF EarlyInv, PastInv, Reverted
<1>5. ASSUME NEW n \in Node, NEW s \in Answers(n), Refresh(n, s) PROVE PastInv'
  BY <1>5 DEF EarlyInv, TypeOK, PastInv, Refresh, Answers
<1>6. ASSUME NEW n \in Node, Evaluate(n) PROVE PastInv'
  <2>1. View(n).last_pub_block <= View(n).block_num
    BY <1>6 DEF EarlyInv, PastInv, Evaluate, HasInfo, View
  <2>2. PICK price \in ExchangePrices :
          turn' = [turn EXCEPT ![n] = TurnLeft(@, View(n), n, Addresses(n), price, Signal)]
    BY <1>6 DEF Evaluate
  <2> DEFINE left == TurnLeft(turn[n], View(n), n, Addresses(n), price, Signal)
  <2>3. left.block = -1 \/ left.pub <= left.block
    BY <2>1, TurnPast DEF EarlyInv, PastInv
  <2> HIDE DEF left
  <2>4. \A k \in Node : turn'[k] = IF k = n THEN left ELSE turn[k]
    BY <2>2 DEF EarlyInv, TypeOK, left
  <2> QED BY <1>6, <2>3, <2>4 DEF EarlyInv, PastInv, Evaluate
<1>7. ASSUME NEW n \in Node, SignaturesAge(n) \/ Send(n) \/ PublishFails(n) PROVE PastInv'
  BY <1>7 DEF EarlyInv, PastInv, SignaturesAge, Send, PublishFails
<1>8. ASSUME NEW n \in Node, PublishReturns(n) PROVE PastInv'
  BY <1>8 DEF EarlyInv, TypeOK, PastInv, PublishReturns, UpToDate
<1>9. ASSUME NEW n \in Node, Restart(n) PROVE PastInv'
  BY <1>9 DEF EarlyInv, TypeOK, PastInv, Restart, NoTurn
<1>10. ASSUME NEW m \in Node, NEW n \in Node, Answer(m, n) PROVE PastInv'
  <2> DEFINE left(price) == TurnLeftByValidation(turn[m], View(m), n, Addresses(m), price, Signal)
  <2>1. PICK price \in ExchangePrices :
          turn' = IF ValidParams(m, attempt[n], price)
                  THEN [turn EXCEPT ![m] = left(price)]
                  ELSE turn
    BY <1>10 DEF Answer
  <2>2. CASE ValidParams(m, attempt[n], price)
    <3>1. View(m).last_pub_block <= View(m).block_num
      BY <2>2 DEF EarlyInv, PastInv, ValidParams, HasInfo, View
    <3>2. left(price).block = -1 \/ left(price).pub <= left(price).block
      BY <3>1, TurnPast DEF EarlyInv, PastInv
    <3> HIDE DEF left
    <3>3. \A k \in Node : turn'[k] = IF k = m THEN left(price) ELSE turn[k]
      BY <2>1, <2>2 DEF EarlyInv, TypeOK
    <3> QED BY <1>10, <3>2, <3>3 DEF EarlyInv, PastInv, Answer
  <2>3. CASE ~ValidParams(m, attempt[n], price)
    BY <1>10, <2>1, <2>3 DEF EarlyInv, PastInv, Answer
  <2> QED BY <2>2, <2>3
<1>11. ASSUME NEW m \in Node, NEW n \in Node, NoAnswer(m, n) PROVE PastInv'
  BY <1>11 DEF EarlyInv, PastInv, NoAnswer
<1>12. CASE UNCHANGED vars
  BY <1>12 DEF EarlyInv, PastInv, vars
<1> QED
  BY <1>1, <1>2, <1>3, <1>4, <1>5, <1>6, <1>7, <1>8, <1>9, <1>10, <1>11, <1>12 DEF Next

\* At the start nothing is attempted.
LEMMA EarlyInit == Init => NoEarlyFallback
BY DEF Init, NoEarlyFallback, Publishing, NoAttempt

\* Every action keeps NoEarlyFallback: what goes on was entitled, and still is,
\* and what starts or is sent is entitled now.
LEMMA EarlyStep ==
  ASSUME AmountsGrow, EarlyInv, TypeOK', [Next]_vars
  PROVE  NoEarlyFallback'
<1>1. chain.block_num \in Nat /\ chain'.block_num \in Nat /\ chain.block_num <= chain'.block_num
  <2>1. chain'.block_num = chain.block_num + 1 \/ chain' = chain
    BY DEF EarlyInv, TypeOK, Snapshot, Next, vars, Tick, SwitchRound, Mined, Reverted, ChainMoves,
           Refresh, Evaluate, SignaturesAge, Send, PublishFails, PublishReturns, Restart, Answer, NoAnswer
  <2>2. chain.block_num \in Nat /\ chain'.block_num \in Nat
    BY PublicationAssumption DEF EarlyInv, TypeOK, Snapshot, Block
  <2> QED BY <2>1, <2>2
<1>2. ASSUME NEW k \in Node, Publishing(k)'
      PROVE  EntitledAt(k, attempt'[k].round, attempt'[k].last_pub_block, chain'.block_num)
  <2>1. attempt'[k].round \in Rounds /\ attempt'[k].last_pub_block \in Block
    BY <1>2 DEF TypeOK, Publishing, NoAttempt, Attempt
  <2>2. CASE GoesOn(k)
    BY <2>2, <1>1, <2>1, EntitledLater DEF EarlyInv, NoEarlyFallback, GoesOn
  <2>3. CASE Starts(k)
    <3>1. EntitledAt(k, attempt'[k].round, attempt'[k].last_pub_block, chain.block_num)
      BY <2>3, DecisionEntitled DEF Starts, NewAttempt
    <3> QED BY <1>1, <2>1, <3>1, EntitledLater
  <2> QED BY <1>2, <2>2, <2>3, AttemptStep DEF EarlyInv
<1>3. ASSUME NEW tx \in mempool'
      PROVE  EntitledAt(tx.by, tx.round, tx.last_pub_block, chain'.block_num)
  <2>1. tx.round \in Rounds /\ tx.last_pub_block \in Block
    BY DEF TypeOK, TxType
  <2>2. CASE tx \in mempool
    BY <2>2, <1>1, <2>1, EntitledLater DEF EarlyInv, NoEarlyFallback
  <2>3. ASSUME NEW n \in Node, Send(n), tx = Tx(n, attempt[n])
        PROVE  EntitledAt(tx.by, tx.round, tx.last_pub_block, chain'.block_num)
    <3>1. EntitledAt(n, attempt[n].round, attempt[n].last_pub_block, chain.block_num)
      BY <2>3 DEF EarlyInv, NoEarlyFallback, Send, Gathering, Publishing
    <3>2. tx.by = n /\ tx.round = attempt[n].round /\ tx.last_pub_block = attempt[n].last_pub_block
      BY <2>3 DEF Tx
    <3> QED BY <1>1, <2>1, <3>1, <3>2, EntitledLater
  <2> QED
    BY <2>2, <2>3 DEF Next, vars, Tick, SwitchRound, Mined, Reverted, Refresh, Evaluate, SignaturesAge,
                      Send, PublishFails, PublishReturns, Restart, Answer, NoAnswer
<1> QED BY <1>2, <1>3 DEF NoEarlyFallback, EntitledAt

\* Nodes that read the chain through the InfoGetter contract never publish as
\* fallbacks early, however old and out of order their answers are, provided the
\* configured amounts never go down.
THEOREM NeverEarly == AmountsGrow /\ InfoService = Node /\ Spec => []NoEarlyFallback
<1> SUFFICES ASSUME AmountsGrow, InfoService = Node PROVE Spec => []NoEarlyFallback
  OBVIOUS
<1>1. Init => EarlyInv
  BY TypeInit, PastInit, EarlyInit DEF EarlyInv
<1>2. EarlyInv /\ [Next]_vars => EarlyInv'
  BY TypeStep, PastStep, EarlyStep DEF EarlyInv
<1>3. EarlyInv => NoEarlyFallback
  BY DEF EarlyInv
<1> QED BY <1>1, <1>2, <1>3, PTL DEF Spec

-----------------------------------------------------------------------------
(* Disabled fallbacks *)

\* A node with DISABLE_FALLBACKS only attempts publications as the chosen oracle.
THEOREM DisabledNeverFallBack == Spec => []OnlyChosenWhenDisabled
<1>1. Init => OnlyChosenWhenDisabled
  BY PublicationAssumption DEF Init, OnlyChosenWhenDisabled, Publishing, NoAttempt
<1>2. ASSUME TypeOK, OnlyChosenWhenDisabled, [Next]_vars PROVE OnlyChosenWhenDisabled'
  <2> SUFFICES ASSUME NEW n \in FallbacksDisabled, Publishing(n)'
               PROVE  n = Order[attempt'[n].round][attempt'[n].last_pub_block][1]
    BY DEF OnlyChosenWhenDisabled
  <2>1. n \in Node
    BY PublicationAssumption
  <2>2. CASE GoesOn(n)
    BY <1>2, <2>2 DEF OnlyChosenWhenDisabled, GoesOn
  <2>3. CASE Starts(n)
    <3>1. n = Addresses(n)[1]
      BY <2>3 DEF Starts, Decides, IsOracleTurn, CanPublishBeforeExpiry, CanPublishAfterChange,
                  CanOraclePublish
    <3> QED BY <2>3, <3>1 DEF Starts, NewAttempt, Addresses
  <2> QED BY <1>2, <2>1, <2>2, <2>3, AttemptStep
<1> QED BY <1>1, <1>2, TypeCorrect, PTL DEF Spec

-----------------------------------------------------------------------------
(* Whom the fallback sequence leaves out *)

\* The last entry of the sequence made from the configuration, before
\* get_fallback_sequence completes it for n addresses.
LastConfigured ==
  LET amounts == EnteringFallbacksAmounts
  IN  IF amounts = <<>> THEN 1 ELSE amounts[Len(amounts)] + 1

\* No order of turns is one address longer than the configuration reaches, the
\* one length get_fallback_sequence leaves uncompleted.
NobodyLeftOut ==
  \A r \in Rounds, b \in Block : LastConfigured # Len(Order[r][b]) - 1

\* Except for that one length, the sequence ends with everybody.
LEMMA SequenceReachesAll ==
  ASSUME NEW n \in Nat, LastConfigured # n - 1
  PROVE  LET seq == GetFallbackSequence(n)
         IN  /\ seq \in Seq(Nat)
             /\ Len(seq) \in Nat \ {0}
             /\ seq[Len(seq)] >= n
<1> DEFINE amounts == EnteringFallbacksAmounts
           plus    == [i \in DOMAIN amounts |-> amounts[i] + 1]
           seq     == <<1>> \o plus
<1>1. /\ amounts \in Seq(Nat) /\ Len(amounts) \in Nat /\ DOMAIN amounts = 1 .. Len(amounts)
      /\ \A i \in 1 .. Len(amounts) : amounts[i] \in Nat
      /\ amounts = <<>> <=> Len(amounts) = 0
  BY TurnConfAssumption, LenProperties, ElementOfSeq, EmptySeq
<1>2. LastConfigured = IF amounts = <<>> THEN 1 ELSE amounts[Len(amounts)] + 1
  BY DEF LastConfigured
<1> HIDE DEF amounts
<1>3. /\ plus \in Seq(Nat)
      /\ Len(plus) = Len(amounts)
      /\ \A i \in 1 .. Len(plus) : plus[i] = amounts[i] + 1
  <2>1. plus \in [1 .. Len(amounts) -> Nat]
    BY <1>1
  <2>2. plus \in Seq(Nat)
    BY <2>1, <1>1, SeqDef
  <2>3. DOMAIN plus = 1 .. Len(amounts)
    BY <1>1
  <2>4. \A i \in 1 .. Len(amounts) : plus[i] = amounts[i] + 1
    BY <1>1
  <2> HIDE DEF plus
  <2>5. Len(plus) = Len(amounts)
    BY <2>2, <2>3, <1>1, LenProperties
  <2> QED BY <2>2, <2>4, <2>5
<1>4. GetFallbackSequence(n) = IF seq[Len(seq)] < n - 1 THEN Append(seq, n) ELSE seq
  BY DEF GetFallbackSequence, amounts, plus, seq
<1> HIDE DEF plus
<1>5. /\ seq \in Seq(Nat)
      /\ Len(seq) = Len(plus) + 1
      /\ seq[1] = 1
      /\ \A i \in 2 .. Len(seq) : seq[i] = plus[i - 1]
  BY <1>3, <1>1
<1> HIDE DEF seq
<1>6. seq[Len(seq)] = LastConfigured /\ seq[Len(seq)] \in Nat /\ Len(seq) \in Nat \ {0}
  <2>1. CASE Len(amounts) = 0
    BY <2>1, <1>1, <1>2, <1>3, <1>5
  <2>2. CASE Len(amounts) # 0
    <3>1. Len(seq) \in 2 .. Len(seq) /\ Len(seq) - 1 = Len(amounts) /\ Len(amounts) \in 1 .. Len(plus)
      BY <2>2, <1>1, <1>3, <1>5
    <3>2. seq[Len(seq)] = amounts[Len(amounts)] + 1
      BY <3>1, <1>3, <1>5
    <3> QED BY <2>2, <3>1, <3>2, <1>1, <1>2, <1>3
  <2> QED BY <2>1, <2>2
<1>7. CASE seq[Len(seq)] < n - 1
  <2> DEFINE full == Append(seq, n)
  <2>1. full \in Seq(Nat) /\ Len(full) = Len(seq) + 1 /\ full[Len(seq) + 1] = n
    BY <1>5
  <2>2. GetFallbackSequence(n) = full
    BY <1>4, <1>7
  <2> HIDE DEF full
  <2> QED BY <2>1, <2>2, <1>6
<1>8. CASE ~(seq[Len(seq)] < n - 1)
  <2>1. GetFallbackSequence(n) = seq /\ seq[Len(seq)] >= n
    BY <1>8, <1>4, <1>6
  <2> QED BY <2>1, <1>5, <1>6
<1> QED BY <1>7, <1>8

\* The claim of the turn's unit test, with the condition the code needs: unless
\* an order is exactly one address longer than the configured amounts reach,
\* every selected oracle may publish once can_oracle_publish has gone through the
\* sequence.  The run publication_last_fallback shows the case left out.
THEOREM EverybodyInTheEnd == NobodyLeftOut /\ Spec => []AllEntitledInTheEnd
<1> SUFFICES ASSUME NobodyLeftOut PROVE Spec => []AllEntitledInTheEnd
  OBVIOUS
<1>1. TypeOK => AllEntitledInTheEnd
  <2> DEFINE order  == Order[chain.round][chain.last_pub_block]
             start  == chain.last_pub_block + PricePublishBlocks
             seq    == GetFallbackSequence(Len(order))
             blocks == chain.block_num - start
  <2> SUFFICES ASSUME TypeOK, chain.block_num >= start + Len(seq),
                      NEW n \in Selected(chain.round, chain.last_pub_block)
               PROVE  EntitledAt(n, chain.round, chain.last_pub_block, chain.block_num)
    BY DEF AllEntitledInTheEnd
  <2>1. /\ chain.round \in Rounds /\ chain.last_pub_block \in Block
        /\ chain.block_num \in Nat /\ start \in Nat
    BY TurnConfAssumption DEF TypeOK, Snapshot, Block
  <2>2. order \in Seq(Node) /\ Len(order) \in Nat /\ LastConfigured # Len(order) - 1
    BY <2>1, OrderTyped, LenProperties DEF NobodyLeftOut
  <2>3. PICK i \in 1 .. Len(order) : order[i] = n
    BY <2>2, LenProperties DEF Selected
  <2>4. /\ Len(seq) \in Nat \ {0}
        /\ seq[Len(seq)] >= Len(order)
        /\ seq[Len(seq)] \in Nat
    BY <2>2, SequenceReachesAll, ElementOfSeq
  <2> HIDE DEF start, order, seq
  <2>5. blocks \in Nat /\ chain.block_num >= start /\ FallbackIndex(blocks, seq) = Len(seq)
    BY <2>1, <2>4 DEF FallbackIndex
  <2>6. n = order[1] \/ IsFallback(n, order, seq[FallbackIndex(blocks, seq)])
    BY <2>2, <2>3, <2>4, <2>5 DEF IsFallback
  <2>7. CanOraclePublish(blocks, n, order, FALSE)
    BY <2>6 DEF CanOraclePublish, seq
  <2> QED BY <2>5, <2>7 DEF EntitledAt, start, order
<1> QED BY <1>1, TypeCorrect, PTL
=============================================================================
