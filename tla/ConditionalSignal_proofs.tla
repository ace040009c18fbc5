----------------------- MODULE ConditionalSignal_proofs -----------------------
(* What ConditionalPublishService promises, for any chain, endpoint and failures. *)
EXTENDS ConditionalSignal, TLAPS

Stage == {NoFetch, [stage |-> "endpoint"]} \cup [stage : {"conditions"}, active : BOOLEAN]

\* The variables of ConditionalSignal keep their types.
THEOREM TypeCorrect == SignalSpec => []SignalTypeOK
<1>1. SignalInit => SignalTypeOK
  <2> SUFFICES ASSUME SignalInit
               PROVE  SignalTypeOK
    OBVIOUS
  <2>1. chain \in [block : Nat, active : BOOLEAN] /\ endpoint \in [force : BOOLEAN, changes : Nat]
    BY DEF SignalInit
  <2>2. last_block \in BlockOrNone /\ flags \in [base : BOOLEAN, force : BOOLEAN]
    <3>1. chain.active \in BOOLEAN /\ chain.block \in Nat
      BY <2>1
    <3>2. flags = [base |-> chain.active, force |-> FALSE] \/ flags = [base |-> TRUE, force |-> FALSE]
      BY DEF SignalInit
    <3>3. last_block = chain.block \/ last_block = NoBlock
      BY DEF SignalInit
    <3>4. flags \in [base : BOOLEAN, force : BOOLEAN]
      <4>1. CASE flags = [base |-> chain.active, force |-> FALSE]
        BY <3>1, <4>1
      <4>2. CASE flags = [base |-> TRUE, force |-> FALSE]
        BY <4>2
      <4> QED
        BY <3>2, <4>1, <4>2
    <3> QED
      BY <3>1, <3>3, <3>4 DEF BlockOrNone
  <2>3. edges \in [offline : BOOLEAN, last_online : BlockOrNone, last_offline : BlockOrNone]
    BY DEF SignalInit, BlockOrNone
  <2>4. read \in [stage : {"idle", "base", "force"}] /\ fetch = NoFetch /\ ordered \in BOOLEAN
    BY DEF SignalInit, NoRead
  <2>5. torn \in [read : BOOLEAN, edge : BOOLEAN]
    BY DEF SignalInit
  <2> QED
    BY <2>1, <2>2, <2>3, <2>4, <2>5 DEF SignalTypeOK
<1>2. SignalTypeOK /\ [SignalNext]_signalVars => SignalTypeOK'
  <2> SUFFICES ASSUME SignalTypeOK, [SignalNext]_signalVars
               PROVE  SignalTypeOK'
    OBVIOUS
  <2>1. CASE Tick
    <3>1. chain' \in [block : Nat, active : BOOLEAN]
      BY <2>1 DEF Tick, SignalTypeOK
    <3> QED
      BY <2>1, <3>1 DEF Tick, SignalTypeOK
  <2>2. CASE OrderChanges
    <3>1. endpoint' \in [force : BOOLEAN, changes : Nat]
      BY <2>2 DEF OrderChanges, SignalTypeOK
    <3> QED
      BY <2>2, <3>1 DEF OrderChanges, SignalTypeOK
  <2>3. CASE FetchAnswers
    BY <2>3 DEF FetchAnswers, threadless, SignalTypeOK, BlockOrNone
  <2>4. CASE FetchFails
    <3>1. torn' \in [read : BOOLEAN, edge : BOOLEAN]
      BY <2>4 DEF FetchFails, SignalTypeOK
    <3> QED
      BY <2>4, <3>1 DEF FetchFails, SignalTypeOK, BlockOrNone
  <2>5. CASE GetBlockFails
    BY <2>5 DEF GetBlockFails, threadless, SignalTypeOK
  <2>6. CASE ConditionActive
    BY <2>6 DEF ConditionActive, threadless, SignalTypeOK
  <2>7. CASE ConditionInactive
    BY <2>7 DEF ConditionInactive, threadless, SignalTypeOK
  <2>8. CASE EndpointAsked
    <3>1. ordered' \in BOOLEAN
      BY <2>8 DEF EndpointAsked, SignalTypeOK
    <3>2. flags' \in [base : BOOLEAN, force : BOOLEAN]
      BY <2>8, <3>1 DEF EndpointAsked
    <3> QED
      BY <2>8, <3>1, <3>2 DEF EndpointAsked, threadless, SignalTypeOK
  <2>9. CASE ReadRunning
    <3>1. edges' \in [offline : BOOLEAN, last_online : BlockOrNone, last_offline : BlockOrNone]
      BY <2>9 DEF ReadRunning, SignalTypeOK
    <3>2. torn' \in [read : BOOLEAN, edge : BOOLEAN]
      BY <2>9 DEF ReadRunning, SignalTypeOK
    <3>3. CASE last_block = NoBlock
      BY <2>9, <3>1, <3>3, <3>2 DEF ReadRunning, readless, SignalTypeOK
    <3>4. CASE last_block # NoBlock
      <4>1. read' = [stage |-> "base"]
        BY <2>9, <3>4 DEF ReadRunning
      <4>2. read' \in [stage : {"idle", "base", "force"}]
        BY <4>1
      <4> QED
        BY <2>9, <3>1, <3>2, <4>2 DEF ReadRunning, readless, SignalTypeOK
    <3> QED
      BY <3>3, <3>4
  <2>10. CASE ReadBase
    <3>1. CASE flags.base
      <4>1. read' = [stage |-> "edge", out |-> FALSE]
        BY <2>10, <3>1 DEF ReadBase
      <4>2. read' \in [stage : {"edge"}, out : BOOLEAN]
        BY <4>1
      <4> QED
        BY <2>10, <4>2 DEF ReadBase, readless, SignalTypeOK
    <3>2. CASE ~flags.base
      <4>1. read' = [stage |-> "force"]
        BY <2>10, <3>2 DEF ReadBase
      <4>2. read' \in [stage : {"idle", "base", "force"}]
        BY <4>1
      <4> QED
        BY <2>10, <4>2 DEF ReadBase, readless, SignalTypeOK
    <3> QED
      BY <3>1, <3>2
  <2>11. CASE ReadForce
    <3>1. (~flags.force) = TRUE \/ (~flags.force) = FALSE
      OBVIOUS
    <3>2. read' = [stage |-> "edge", out |-> TRUE] \/ read' = [stage |-> "edge", out |-> FALSE]
      BY <2>11, <3>1 DEF ReadForce
    <3> QED
      BY <2>11, <3>2 DEF ReadForce, readless, SignalTypeOK
  <2>12. CASE RecordEdge
    <3>1. read.out \in BOOLEAN
      BY <2>12 DEF RecordEdge, SignalTypeOK
    <3>2. edges' \in [offline : BOOLEAN, last_online : BlockOrNone, last_offline : BlockOrNone]
      BY <2>12, <3>1 DEF RecordEdge, SignalTypeOK
    <3>3. read' \in [stage : {"idle", "base", "force"}]
      BY <2>12 DEF RecordEdge, Recorded, NoRead
    <3>4. torn' \in [read : BOOLEAN, edge : BOOLEAN]
      BY <2>12, <3>1 DEF RecordEdge, Recorded, SignalTypeOK
    <3> QED
      BY <2>12, <3>2, <3>3, <3>4 DEF RecordEdge, Recorded, readless, SignalTypeOK
  <2>13. CASE UNCHANGED signalVars
    BY <2>13 DEF signalVars, SignalTypeOK
  <2> QED
    BY <2>1, <2>2, <2>3, <2>4, <2>5, <2>6, <2>7, <2>8, <2>9, <2>10, <2>11, <2>12, <2>13
       DEF SignalNext, Fetching, Reading
<1> QED
  BY <1>1, <1>2, PTL DEF SignalSpec

-----------------------------------------------------------------------------
\* Why a recorded block can be compared with the ones before it: the block a change to
\* NEED was recorded at is one the service has fetched by now, and whatever it fetches
\* next is no older; and a read that began with a block only finds none when the
\* multicall has failed under it.
RecordedInv ==
  /\ chain.block >= 1
  /\ last_block # NoBlock => last_block \in 1..chain.block
  /\ edges.last_online # NoBlock =>
       /\ edges.last_online <= chain.block
       /\ last_block # NoBlock => edges.last_online <= last_block
  /\ read # NoRead /\ last_block = NoBlock => torn.read
  /\ ChangeToUnneedIsRecorded

\* A step that records nothing and writes no block keeps it.
LEMMA RecordedStutter ==
  ASSUME RecordedInv, UNCHANGED <<chain, last_block, edges>>,
         torn'.edge = torn.edge, read' # NoRead /\ last_block = NoBlock => torn'.read
  PROVE  RecordedInv'
BY DEF RecordedInv, ChangeToUnneedIsRecorded

\* What each step does to the recorded blocks.
LEMMA RecordedStep ==
  ASSUME SignalTypeOK, RecordedInv, [SignalNext]_signalVars
  PROVE  RecordedInv'
<1> USE SignalAssumption
<1>1. /\ last_block \in BlockOrNone /\ chain.block \in Nat /\ torn \in [read : BOOLEAN, edge : BOOLEAN]
      /\ edges \in [offline : BOOLEAN, last_online : BlockOrNone, last_offline : BlockOrNone]
  BY DEF SignalTypeOK
<1>2. CASE Tick
  <2>1. chain'.block = chain.block + 1 /\ UNCHANGED <<last_block, edges, read, torn>>
    BY <1>2 DEF Tick
  <2> QED
    BY <1>1, <2>1 DEF RecordedInv, ChangeToUnneedIsRecorded, BlockOrNone
<1>3. CASE FetchAnswers
  <2>1. last_block' = chain.block /\ UNCHANGED <<chain, edges, read, torn>>
    BY <1>3 DEF FetchAnswers, threadless
  <2> QED
    BY <1>1, <2>1 DEF RecordedInv, ChangeToUnneedIsRecorded, BlockOrNone
<1>4. CASE FetchFails
  <2>1. last_block' = NoBlock /\ UNCHANGED <<chain, edges, read>>
    BY <1>4 DEF FetchFails
  <2>2. torn'.edge = torn.edge /\ (read # NoRead => torn'.read)
    BY <1>1, <1>4 DEF FetchFails
  <2> QED
    BY <2>1, <2>2 DEF RecordedInv, ChangeToUnneedIsRecorded
<1>5. CASE ReadRunning
  <2>1. /\ UNCHANGED <<chain, last_block>>
        /\ torn'.edge = torn.edge
        /\ last_block = NoBlock => read' = read /\ read = NoRead
    BY <1>1, <1>5 DEF ReadRunning, readless
  <2>2. /\ edges'.last_online = edges.last_online /\ edges'.last_offline = edges.last_offline
        /\ edges'.offline => edges.offline
    <3>1. edges' = edges \/ edges' = [edges EXCEPT !.offline = FALSE]
      BY <1>5 DEF ReadRunning
    <3> QED
      BY <1>1, <3>1
  <2> QED
    BY <2>1, <2>2 DEF RecordedInv, ChangeToUnneedIsRecorded
<1>6. CASE RecordEdge
  <2>1. /\ edges'.offline = read.out
        /\ edges'.last_offline = IF read.out /\ ~edges.offline THEN last_block ELSE edges.last_offline
        /\ edges'.last_online  = IF ~read.out /\ edges.offline THEN last_block ELSE edges.last_online
    BY <1>1, <1>6 DEF RecordEdge
  <2>2. UNCHANGED <<chain, last_block>> /\ read' = NoRead
    BY <1>6 DEF RecordEdge, Recorded, readless
  <2>3. torn'.edge = IF read.out /\ ~edges.offline THEN torn.read ELSE torn.edge
    BY <1>1, <1>6 DEF RecordEdge, Recorded
  <2>4. read # NoRead
    BY <1>6 DEF RecordEdge, NoRead
  <2>5. ChangeToUnneedIsRecorded'
    BY <1>1, <2>1, <2>2, <2>3, <2>4 DEF RecordedInv, ChangeToUnneedIsRecorded, BlockOrNone
  <2>6. edges'.last_online # NoBlock =>
          /\ edges'.last_online <= chain'.block
          /\ last_block' # NoBlock => edges'.last_online <= last_block'
    BY <1>1, <2>1, <2>2 DEF RecordedInv, BlockOrNone
  <2> QED
    BY <2>2, <2>5, <2>6 DEF RecordedInv
<1>7. CASE ReadBase \/ ReadForce
  <2>1. UNCHANGED <<chain, last_block, edges, torn>> /\ read # NoRead
    BY <1>7 DEF ReadBase, ReadForce, readless, NoRead
  <2> QED
    BY <2>1, RecordedStutter DEF RecordedInv
<1>8. CASE \/ OrderChanges \/ GetBlockFails \/ ConditionActive \/ ConditionInactive \/ EndpointAsked
           \/ UNCHANGED signalVars
  <2>1. UNCHANGED <<chain, last_block, edges, torn, read>>
    BY <1>8 DEF OrderChanges, GetBlockFails, ConditionActive, ConditionInactive, EndpointAsked,
                threadless, signalVars
  <2> QED
    BY <2>1, RecordedStutter DEF RecordedInv
<1> QED
  BY <1>2, <1>3, <1>4, <1>5, <1>6, <1>7, <1>8 DEF SignalNext, Fetching, Reading

\* However the thread's writes and the loop's reads interleave and whatever fails, while
\* UNNEED is answered its block is recorded, no older than the change to NEED before it,
\* unless a multicall failed in the middle of the read that recorded it (offline_cfg).
THEOREM UnneedRecorded == SignalSpec => []ChangeToUnneedIsRecorded
<1>1. SignalInit => RecordedInv
  BY SignalAssumption DEF SignalInit, RecordedInv, ChangeToUnneedIsRecorded
<1>2. SignalTypeOK /\ RecordedInv /\ [SignalNext]_signalVars => RecordedInv'
  BY RecordedStep
<1>3. RecordedInv => ChangeToUnneedIsRecorded
  BY DEF RecordedInv
<1> QED
  BY <1>1, <1>2, <1>3, TypeCorrect, PTL DEF SignalSpec
=============================================================================
