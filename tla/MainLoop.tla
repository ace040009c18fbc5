------------------------------ MODULE MainLoop ------------------------------
(***************************************************************************)
(* The start of a node: main_loop.py.  The web server's startup awaits     *)
(* conf.initialize() and starts the task of MainLoop, whose first pass     *)
(* builds and starts the node's loops, once the address of the oracle      *)
(* manager is known; every pass then updates the configuration.  When a    *)
(* pass raises, the task runs the next one a second later.                 *)
(***************************************************************************)
EXTENDS OracleConfiguration

CONSTANT Manager   \* ORACLE_MANAGER_ADDR

ASSUME ManagerAssumption == Manager \in Param

VARIABLES at,           \* <<"initialize", p>> or <<"update", p>>: at parameter p; <<"run", 0>>: between passes
          initialized,  \* initialized
          tasks,        \* tasks: how many sets of the node's loops it holds
          started       \* how many of them run

loopVars == <<initialized, tasks, started>>
mainVars == <<environment, registry, values, from_conf, from_default,
              at, initialized, tasks, started>>

After(p) == IF p = Len(Priority) THEN <<"run", 0>> ELSE <<at[1], p + 1>>
Between  == at = <<"run", 0>>

MainInit ==
  /\ ConfInit
  /\ at = <<"initialize", 1>>
  /\ initialized = FALSE
  /\ tasks = 0 /\ started = 0

-----------------------------------------------------------------------------
\* web_server_startup.
Initialize(answered) ==
  /\ at[1] = "initialize"
  /\ InitializeAt(at[2], answered)
  /\ at' = After(at[2])
  /\ UNCHANGED loopVars

\* run, when the loops are not started and the manager is not known.
RunWaits ==
  /\ Between /\ ~initialized
  /\ Conf(Manager) = Nothing
  /\ UNCHANGED <<confVars, at, loopVars>>

\* Defect: initialized is set when _startup() succeeded.
InitializedAfterStartup(reached) == reached = "loops"

\* What initialized is after the pass that called _startup().
InitializedBy(reached) == TRUE

\* How far _startup() comes: an address no contract can be made of ends it at once, a
\* monitor without a file to log to when the loops are in tasks and not started.
Reached == {"nothing", "tasks", "loops"}

\* run, when it calls _startup().  If that raises, conf.update() is left to the next
\* pass, a second later; if not, everything in tasks is started.
RunStarts(reached) ==
  /\ Between /\ ~initialized
  /\ Conf(Manager) # Nothing
  /\ initialized' = InitializedBy(reached)
  /\ tasks' = IF reached = "nothing" THEN tasks ELSE tasks + 1
  /\ started' = IF reached = "loops" THEN tasks' ELSE started
  /\ at' = IF reached = "loops" THEN <<"update", 1>> ELSE at
  /\ UNCHANGED confVars

\* run, later.
RunUpdates ==
  /\ Between /\ initialized
  /\ at' = <<"update", 1>>
  /\ UNCHANGED <<confVars, loopVars>>

\* A parameter of conf.update(); the pass ends with the last one, or when one raises.
Update(answered) ==
  LET p      == at[2]
      answer == GetFromBlockchain(p, from_conf, from_default, answered)
  IN  /\ at[1] = "update"
      /\ IF RaisesAt(p, answer) THEN UNCHANGED confVars /\ at' = <<"run", 0>>
                                ELSE UpdateAt(p, answer) /\ at' = After(p)
      /\ UNCHANGED loopVars

Registry == \E p \in Param : RegistryChanges(p) /\ UNCHANGED <<at, loopVars>>

\* The process is started again.
Restart ==
  /\ at[1] # "initialize"
  /\ values' = [p \in Param |-> Absent]
  /\ from_conf' = {} /\ from_default' = {}
  /\ at' = <<"initialize", 1>>
  /\ initialized' = FALSE /\ tasks' = 0 /\ started' = 0
  /\ UNCHANGED <<environment, registry>>

Proceed ==
  \/ \E answered \in BOOLEAN : Initialize(answered) \/ Update(answered)
  \/ RunWaits \/ (\E reached \in Reached : RunStarts(reached)) \/ RunUpdates

MainNext == Proceed \/ Registry \/ Restart

MainSpec == MainInit /\ [][MainNext]_mainVars

\* The passes go on for ever, whether they raise or not (BgTaskExecutor), and the
\* registry answers in the end what it is asked again and again.
MainFairSpec ==
  /\ MainSpec
  /\ WF_mainVars(Proceed)
  /\ \A p \in Param : SF_mainVars(at[2] = p /\ Update(TRUE))

-----------------------------------------------------------------------------
(* Properties *)

\* initialize() is past parameter p.
IsRead(p) == at[1] # "initialize" \/ p < at[2]

\* The shape of the state.
MainTypeOK ==
  /\ environment \in Environments
  /\ registry \in [Param -> RegistryValue \cup {Unset}]
  /\ values \in [Param -> RegistryValue \cup {Given, Default, Nothing, Absent}]
  /\ from_conf \subseteq Param /\ from_default \subseteq Param
  /\ at \in ({"initialize", "update"} \X Param) \cup {<<"run", 0>>}
  /\ initialized \in BOOLEAN
  /\ tasks \in Nat /\ started \in Nat

\* README.md:96: "The rest of the parameters are optional. If they are missing they
\* are taken from the registry smart contract.": one that is not missing is not.
EnvironmentWins ==
  \A p \in Param : IsRead(p) /\ environment[p] = Given => values[p] = Given

\* The same of all parameters but those whose Order puts the registry last, and of
\* those that a default of theirs is kept against the registry.
HigherPriorityWins ==
  \A p \in Param : IsRead(p) =>
    /\ environment[p] = Given /\ Priority[p] = "configuration_blockchain_default" =>
         values[p] = Given
    /\ environment[p] # Given /\ p \in HasDefault
         /\ Priority[p] \in {"configuration_default_blockchain", "configuration_default"} =>
         values[p] = Default

\* A pass of MainLoop is retried a second after it raised, and tasks keeps what a
\* _startup() that raised had put there: no loop of the node is started twice.
LoopsRunOnce == started <= 1

\* main_loop.py:37 logs "waiting to get configuration from blockchain", and of the
\* parameters that are not given README.md:87 says that the server "gets the
\* parameters from the blockchain": a node without an address of the manager that
\* is not restarted does not wait for ever when the registry has one.
WaitsForConfiguration ==
  (/\ <>[][FALSE]_registry
   /\ <>[](at[1] # "initialize" /\ environment[Manager] = Missing /\ registry[Manager] # Unset))
    => <>[]initialized

\* A parameter the registry may set follows what the registry holds in the end, in
\* a node whose loops are started and that is not restarted, unless a parameter
\* before it in the table was not known at the start and is in the registry by now.
RegistryIsFollowed ==
  \A p \in Param :
    LET follows(q) == AsksRegistry(q, from_conf, from_default) /\ registry[q] # Unset
        blocked    == \E q \in Param : q <= p /\ values[q] = Absent /\ follows(q)
    IN  (<>[][FALSE]_registry /\ <>[](started > 0 /\ follows(p) /\ ~blocked))
          => <>[](values[p] = registry[p])
=============================================================================
