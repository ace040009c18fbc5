-------------------------- MODULE ConditionalSignal --------------------------
(***************************************************************************)
(* ConditionalPublishService of common/services/conditional_publish.py:    *)
(* whether the coin pair's contracts need a price (NEED) or not (UNNEED,   *)
(* "offline"), and since which block.  OracleTurn reads it through         *)
(* offline_cfg(), last_online_block() and last_offline_block().            *)
(*                                                                         *)
(* The publisher's loop awaits update(), which runs _sync_fetch in a       *)
(* thread: one multicall for the conditions, a getBlock for the ones that  *)
(* depend on the time, and an HTTP endpoint that may force the             *)
(* publication.  Meanwhile the event loop goes on serving signature        *)
(* requests, whose reads of the same object interleave with the thread's   *)
(* writes one attribute at a time.                                         *)
(***************************************************************************)
EXTENDS Integers

CONSTANTS MulticallMayFail,   \* may the multicall fail?
          GetBlockMayFail,    \* may getBlock raise, after the multicall answered?
          NoBlock,            \* _last_block is None
          MaxBlock,           \* bound: blocks of the chain
          MaxOrders           \* bound: changes of the endpoint's answer

ASSUME SignalAssumption ==
  /\ {MulticallMayFail, GetBlockMayFail} \subseteq BOOLEAN
  /\ NoBlock \notin Nat
  /\ MaxBlock \in Nat /\ MaxOrders \in Nat

VARIABLES chain,      \* block, and whether the conditions hold at it
          endpoint,   \* what the endpoint answers, and how often it changed
          fetch,      \* the running _sync_fetch
          last_block, \* _last_block
          flags,      \* _base_condition_active, _force_publish
          ordered,    \* _ORACLE_OFFLINE_CFG_FORCE_PUBLISH_LAST
          read,       \* the running offline_cfg()
          edges,      \* _last_offline_cfg, _last_online_block, _last_offline_block
          torn        \* history: a multicall failed during the running read, and
                      \* during the one that recorded the last change to UNNEED

signalVars == <<chain, endpoint, fetch, last_block, flags, ordered, read, edges, torn>>

NoFetch == [stage |-> "idle"]
NoRead  == [stage |-> "idle"]

\* The constructor has fetched once ("prevent running without values!"), while
\* the endpoint did not force anything, or has failed to.
SignalInit ==
  /\ chain \in [block : {1}, active : BOOLEAN]
  /\ endpoint = [force |-> FALSE, changes |-> 0]
  /\ fetch = NoFetch
  /\ \/ last_block = chain.block /\ flags = [base |-> chain.active, force |-> FALSE]
     \/ MulticallMayFail /\ last_block = NoBlock /\ flags = [base |-> TRUE, force |-> FALSE]
  /\ ordered = FALSE
  /\ read = NoRead
  /\ edges = [offline |-> FALSE, last_online |-> 0, last_offline |-> 0]
  /\ torn = [read |-> FALSE, edge |-> FALSE]

-----------------------------------------------------------------------------
(* The outside: the contracts and the operator's endpoint *)

Tick ==
  /\ chain.block < MaxBlock
  /\ chain' \in [block : {chain.block + 1}, active : BOOLEAN]
  /\ UNCHANGED <<endpoint, fetch, last_block, flags, ordered, read, edges, torn>>

OrderChanges ==
  /\ endpoint.changes < MaxOrders
  /\ endpoint' = [force |-> ~endpoint.force, changes |-> endpoint.changes + 1]
  /\ UNCHANGED <<chain, fetch, last_block, flags, ordered, read, edges, torn>>

-----------------------------------------------------------------------------
(* The thread *)

threadless == <<chain, endpoint, read, edges, torn>>

\* The multicall answers with the block it was evaluated at.
FetchAnswers ==
  /\ fetch = NoFetch
  /\ last_block' = chain.block
  /\ fetch' = [stage |-> "conditions", active |-> chain.active]
  /\ UNCHANGED <<flags, ordered, threadless>>

FetchFails ==
  /\ fetch = NoFetch /\ MulticallMayFail
  /\ last_block' = NoBlock
  /\ torn' = [torn EXCEPT !.read = (read # NoRead)]
  /\ UNCHANGED <<fetch, flags, ordered, chain, endpoint, read, edges>>

\* getConditionActive raises in its getBlock: update() fails with the new block
\* and the old flags in place.
GetBlockFails ==
  /\ fetch.stage = "conditions" /\ GetBlockMayFail
  /\ fetch' = NoFetch
  /\ UNCHANGED <<last_block, flags, ordered, threadless>>

\* Defect: an active condition leaves the flags as they were.
ConditionActiveIgnored ==
  /\ fetch.stage = "conditions" /\ fetch.active
  /\ fetch' = NoFetch
  /\ UNCHANGED <<last_block, flags, ordered, threadless>>

ConditionActive ==
  /\ fetch.stage = "conditions" /\ fetch.active
  /\ flags' = [base |-> TRUE, force |-> FALSE]
  /\ fetch' = NoFetch
  /\ UNCHANGED <<last_block, ordered, threadless>>

ConditionInactive ==
  /\ fetch.stage = "conditions" /\ ~fetch.active
  /\ fetch' = [stage |-> "endpoint"]
  /\ UNCHANGED <<last_block, flags, ordered, threadless>>

\* Defect: a payload that is no boolean is kept as the answer.
EndpointUnparsed ==
  /\ fetch.stage = "endpoint"
  /\ ordered' \in {NoBlock, endpoint.force}
  /\ flags' = [base |-> FALSE, force |-> ordered']
  /\ fetch' = NoFetch
  /\ UNCHANGED <<last_block, threadless>>

\* Defect: an order to publish is never withdrawn.
EndpointSticky ==
  /\ fetch.stage = "endpoint"
  /\ ordered' \in {ordered, ordered \/ endpoint.force}
  /\ flags' = [base |-> FALSE, force |-> ordered']
  /\ fetch' = NoFetch
  /\ UNCHANGED <<last_block, threadless>>

\* The endpoint answers, or its last answer counts; both flags change at once.
EndpointAsked ==
  /\ fetch.stage = "endpoint"
  /\ ordered' \in {ordered, endpoint.force}
  /\ flags' = [base |-> FALSE, force |-> ordered']
  /\ fetch' = NoFetch
  /\ UNCHANGED <<last_block, threadless>>

-----------------------------------------------------------------------------
(* The event loop: offline_cfg(), attribute by attribute *)

readless == <<chain, endpoint, fetch, last_block, flags, ordered>>

ReadRunning ==
  /\ read = NoRead
  /\ IF last_block = NoBlock
     THEN read' = read /\ edges' = [edges EXCEPT !.offline = FALSE]
     ELSE read' = [stage |-> "base"] /\ edges' = edges
  /\ torn' = [torn EXCEPT !.read = FALSE]
  /\ UNCHANGED readless

ReadBase ==
  /\ read.stage = "base"
  /\ read' = IF flags.base THEN [stage |-> "edge", out |-> FALSE] ELSE [stage |-> "force"]
  /\ UNCHANGED <<readless, edges, torn>>

ReadForce ==
  /\ read.stage = "force"
  /\ read' = [stage |-> "edge", out |-> ~flags.force]
  /\ UNCHANGED <<readless, edges, torn>>

\* The end of a read.
Recorded ==
  /\ torn' = [torn EXCEPT !.edge = IF read.out /\ ~edges.offline THEN torn.read ELSE @]
  /\ read' = NoRead
  /\ UNCHANGED readless

\* Defect: only the change to online is recorded.
RecordOnlineEdge ==
  /\ read.stage = "edge"
  /\ edges' = [edges EXCEPT !.offline = read.out,
                            !.last_online = IF ~read.out /\ edges.offline
                                            THEN last_block ELSE @]
  /\ Recorded

\* A change against the last answer is recorded at the block fetched last, None if
\* the multicall has failed since is_running was tested.
RecordEdge ==
  /\ read.stage = "edge"
  /\ edges' = [edges EXCEPT !.offline = read.out,
                            !.last_offline = IF read.out /\ ~edges.offline
                                             THEN last_block ELSE @,
                            !.last_online  = IF ~read.out /\ edges.offline
                                             THEN last_block ELSE @]
  /\ Recorded

-----------------------------------------------------------------------------
Fetching == \/ FetchAnswers \/ FetchFails \/ GetBlockFails
            \/ ConditionActive \/ ConditionInactive \/ EndpointAsked
Reading  == ReadRunning \/ ReadBase \/ ReadForce \/ RecordEdge

SignalNext == Tick \/ OrderChanges \/ Fetching \/ Reading

SignalSpec == SignalInit /\ [][SignalNext]_signalVars

-----------------------------------------------------------------------------
(* Properties *)

BlockOrNone == Nat \cup {NoBlock}

\* The shape of the state; a recorded block may be None.
SignalTypeOK ==
  /\ chain \in [block : Nat, active : BOOLEAN]
  /\ endpoint \in [force : BOOLEAN, changes : Nat]
  /\ fetch \in {NoFetch, [stage |-> "endpoint"]} \cup [stage : {"conditions"}, active : BOOLEAN]
  /\ last_block \in BlockOrNone
  /\ flags \in [base : BOOLEAN, force : BOOLEAN]
  /\ ordered \in BOOLEAN
  /\ read \in [stage : {"idle", "base", "force"}] \cup [stage : {"edge"}, out : BOOLEAN]
  /\ edges \in [offline : BOOLEAN, last_online : BlockOrNone, last_offline : BlockOrNone]
  /\ torn \in [read : BOOLEAN, edge : BOOLEAN]

\* While UNNEED is answered its block is recorded, a block of the chain and no older
\* than the change to NEED before it, even when the read saw attributes of two fetches:
\* the fallbacks wait from there (oracle_turn.py:265).  It is None only when a multicall
\* failed in the middle of the very read that recorded it, never because one failed
\* before or after.  (NEED has no such promise: a failed multicall makes offline_cfg()
\* answer it without recording a block.)
ChangeToUnneedIsRecorded ==
  edges.offline =>
    IF edges.last_offline = NoBlock
    THEN torn.edge
    ELSE /\ edges.last_offline \in 1..chain.block
         /\ edges.last_online # NoBlock => edges.last_online <= edges.last_offline

\* Contracts that need a price, or an operator who forces it, get it in the end:
\* the service goes back to NEED and stays there, whatever fails meanwhile.
NeedIsAnswered ==
  <>[](chain.active \/ endpoint.force) => <>[](~edges.offline)

\* When no price is needed and nobody forces it the service goes on saying so.
UnneedIsAnswered ==
  <>[](~chain.active /\ ~endpoint.force) => []<>(edges.offline)
=============================================================================
