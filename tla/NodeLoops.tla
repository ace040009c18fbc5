------------------------------ MODULE NodeLoops ------------------------------
(***************************************************************************)
(* OracleLoop of oracle/src/oracle_loop.py: which coin pairs a node works  *)
(* for.  Every pass asks the contracts, one call after the other, which    *)
(* coin pairs the oracle and its owner are subscribed to, and makes the    *)
(* running background tasks match.  Subscriptions change between the       *)
(* calls, and any call may answer with a BCError instead of a value.       *)
(***************************************************************************)
EXTENDS Naturals

CONSTANTS Pairs,         \* how many coin pairs are registered, in this order
          Broken,        \* coin pairs whose runner cannot be built
          MaxFailures    \* bound: calls that fail

Pair == 1 .. Pairs
Addr == {"oracle", "owner"}

ASSUME LoopsAssumption ==
  /\ Pairs \in Nat /\ MaxFailures \in Nat
  /\ Broken \subseteq Pair

VARIABLES subscribed,   \* the contracts: the coin pairs of each address
          pass,         \* the running pass
          running,      \* the keys of cpMap
          failures      \* calls that failed

loopsVars == <<subscribed, pass, running, failures>>

Asleep == [stage |-> "asleep"]
Failed == {0}   \* a BCError in the place of a list; 0 is no coin pair

Reading(a) == pass.stage = "reading" /\ pass.addr = a

\* The pairs an address is, or during this pass was, not subscribed to.
Lapsed == [a \in Addr |-> Pair \ subscribed[a]]

LoopsInit ==
  /\ subscribed \in [Addr -> SUBSET Pair]
  /\ pass = Asleep
  /\ running = {}
  /\ failures = 0

-----------------------------------------------------------------------------
(* The contracts *)

Subscribe(a, p) ==
  /\ p \notin subscribed[a]
  /\ subscribed' = [subscribed EXCEPT ![a] = @ \cup {p}]
  /\ UNCHANGED <<pass, running, failures>>

Unsubscribe(a, p) ==
  /\ p \in subscribed[a]
  /\ subscribed' = [subscribed EXCEPT ![a] = @ \ {p}]
  /\ pass' = IF pass = Asleep THEN pass ELSE [pass EXCEPT !.lapsed[a] = @ \cup {p}]
  /\ UNCHANGED <<running, failures>>

CallFails == failures < MaxFailures /\ failures' = failures + 1

-----------------------------------------------------------------------------
(* A pass *)

Begin(owner_known) ==
  pass' = [stage |-> "reading", addr |-> "oracle", owner_known |-> owner_known,
           todo |-> Pair, found |-> [a \in Addr |-> {}], lapsed |-> Lapsed]

\* get_oracle_owner: its error is used as the owner's address.
StartPass ==
  /\ pass = Asleep
  /\ \/ Begin(TRUE) /\ UNCHANGED failures
     \/ Begin(FALSE) /\ CallFails
  /\ UNCHANGED <<subscribed, running>>

OwnerUnknown(a) == a = "owner" /\ ~pass.owner_known

\* get_all_coin_pair_services: one call that fails makes the whole list an error.
ListFails(a) ==
  /\ Reading(a) /\ pass.todo = Pair /\ CallFails
  /\ pass' = [pass EXCEPT !.todo = {}, !.found[a] = Failed]
  /\ UNCHANGED <<subscribed, running>>

\* Defect: the error itself ends up in the list.
IsSubscribedKeepsError(a, p) ==
  /\ Reading(a) /\ p \in pass.todo
  /\ \/ /\ CallFails \/ (OwnerUnknown(a) /\ UNCHANGED failures)
        /\ pass' = [pass EXCEPT !.todo = @ \ {p}, !.found[a] = @ \cup Failed \cup {p}]
     \/ /\ ~OwnerUnknown(a)
        /\ pass' = [pass EXCEPT !.todo = @ \ {p}, !.found[a] = @ \cup ({p} \cap subscribed[a])]
        /\ UNCHANGED failures
  /\ UNCHANGED <<subscribed, running>>

\* is_subscribed answers for one coin pair; an error is a true value.
IsSubscribed(a, p) ==
  /\ Reading(a) /\ p \in pass.todo
  /\ \/ /\ CallFails \/ (OwnerUnknown(a) /\ UNCHANGED failures)
        /\ pass' = [pass EXCEPT !.todo = @ \ {p}, !.found[a] = @ \cup {p}]
     \/ /\ ~OwnerUnknown(a)
        /\ pass' = [pass EXCEPT !.todo = @ \ {p}, !.found[a] = @ \cup ({p} \cap subscribed[a])]
        /\ UNCHANGED failures
  /\ UNCHANGED <<subscribed, running>>

AskForOwner ==
  /\ Reading("oracle") /\ pass.todo = {}
  /\ pass' = [pass EXCEPT !.addr = "owner", !.todo = Pair]
  /\ UNCHANGED <<subscribed, running, failures>>

Listed == pass.found["oracle"] \cup pass.found["owner"]

\* The order of the dictionary: the oracle's pairs, then the others of its owner.
Before(q, p) ==
  LET mine == pass.found["oracle"]
  IN  \/ q \in mine /\ p \notin mine
      \/ (q \in mine <=> p \in mine) /\ q < p

\* Defect: only the oracle's own subscriptions are added.
OwnAdded == {p \in pass.found["oracle"] \ running :
               \A q \in Broken \cap Listed : Before(p, q)}

\* The pairs started: building a broken one raises, and ends the pass.
Added == {p \in Listed \ running : \A q \in Broken \cap Listed : Before(p, q)}

\* Defect: an error counts as an empty list.
ErrorsIgnored == FALSE

\* Both lists are errors, and the pass returns, or one is, and adding it to the
\* other raises.
ListsUnusable == Failed \in {pass.found["oracle"], pass.found["owner"]}

\* Defect: pairs are only ever added.
ReconcileAddsOnly ==
  /\ Reading("owner") /\ pass.todo = {}
  /\ running' = IF ListsUnusable THEN running ELSE running \cup Added
  /\ pass' = Asleep
  /\ UNCHANGED <<subscribed, failures>>

\* delete_coin_pair for what is not listed, then add_coin_pair for what is new.
Reconcile ==
  /\ Reading("owner") /\ pass.todo = {}
  /\ running' = IF ListsUnusable THEN running ELSE (running \cap Listed) \cup Added
  /\ pass' = Asleep
  /\ UNCHANGED <<subscribed, failures>>

-----------------------------------------------------------------------------
Call == \/ StartPass \/ AskForOwner \/ Reconcile
        \/ \E a \in Addr : ListFails(a) \/ \E p \in Pair : IsSubscribed(a, p)

LoopsNext == Call \/ \E a \in Addr, p \in Pair : Subscribe(a, p) \/ Unsubscribe(a, p)

LoopsSpec == LoopsInit /\ [][LoopsNext]_loopsVars

-----------------------------------------------------------------------------
(* Properties *)

\* The shape of the state.
LoopsTypeOK ==
  /\ subscribed \in [Addr -> SUBSET Pair]
  /\ pass \in {Asleep} \cup
       [stage : {"reading"}, addr : Addr, owner_known : BOOLEAN, todo : SUBSET Pair,
        found : [Addr -> (SUBSET Pair) \cup {Failed}], lapsed : [Addr -> SUBSET Pair]]
  /\ running \subseteq Pair
  /\ failures \in 0 .. MaxFailures

\* A call that fails stops no coin pair: one is stopped only in a pass during
\* which neither the oracle nor its owner was subscribed to it all the time.
FailuresStopNothing ==
  [][\A p \in running \ running' : \A a \in Addr : p \in pass.lapsed[a]]_loopsVars

\* A coin pair one of the addresses stays subscribed to runs in the end and is
\* not stopped again, provided no coin pair that cannot be built is in the way.
SubscribedPairsRun ==
  \A a \in Addr : \A p \in Pair \ Broken :
    <>[](p \in subscribed[a] /\ \A q \in Broken, b \in Addr : q \notin subscribed[b])
      => <>[](p \in running)

\* A coin pair nobody is subscribed to any more is stopped in the end.
UnsubscribedPairsStop ==
  \A p \in Pair : <>[](\A a \in Addr : p \notin subscribed[a]) => <>[](p \notin running)
=============================================================================
