--------------------------- MODULE MainLoop_proofs ---------------------------
(* What the start of a node and its configuration promise, for any table of
   parameters, any environment and any registry. *)
EXTENDS MainLoop, SequenceTheorems, TLAPS

\* The parameters are the places of the table.
LEMMA Places ==
  /\ Len(Priority) \in Nat
  /\ Param = 1 .. Len(Priority)
  /\ 1 \in Param
  /\ \A p \in Param : Priority[p] \in Order
<1>1. Priority \in Seq(Order)
  BY ConfigurationAssumption
<1>2. Len(Priority) \in Nat /\ Param = 1 .. Len(Priority) /\ \A p \in Param : Priority[p] \in Order
  BY <1>1 DEF Param
<1> QED
  BY <1>2, ManagerAssumption

\* Where a walk over the table goes on.
LEMMA Onward ==
  ASSUME NEW stage \in {"initialize", "update"}, NEW p \in Param, at = <<stage, p>>
  PROVE  /\ After(p) \in ({stage} \X Param) \cup {<<"run", 0>>}
         /\ \A q \in Param : (After(p)[1] # stage \/ q < After(p)[2]) <=> (q < p \/ q = p)
<1>1. CASE p = Len(Priority)
  BY <1>1, Places DEF After
<1>2. CASE p # Len(Priority)
  <2>1. After(p) = <<stage, p + 1>> /\ p + 1 \in Param
    BY <1>2, Places DEF After
  <2> QED
    BY <2>1, Places
<1> QED
  BY <1>1, <1>2

\* What the environment holds is told apart from None.
LEMMA Distinct == Given # Missing /\ Given # Nothing /\ Default # Nothing
<1> DEFINE tags == <<Given, Empty, Missing, Default, Unset, Nothing, Absent>>
<1>1. \A i, j \in 1 .. 7 : tags[i] = tags[j] => i = j
  BY ConfigurationAssumption
<1>2. tags[1] = Given /\ tags[3] = Missing /\ tags[4] = Default /\ tags[6] = Nothing
  OBVIOUS
<1>3. 1 \in 1 .. 7 /\ 3 \in 1 .. 7 /\ 4 \in 1 .. 7 /\ 6 \in 1 .. 7
  OBVIOUS
<1> HIDE DEF tags
<1> QED
  BY <1>1, <1>2, <1>3

Position == ({"initialize", "update"} \X Param) \cup {<<"run", 0>>}
Value    == RegistryValue \cup {Given, Default, Nothing, Absent}

\* What the registry answers is a value, or none.
LEMMA AnswerIsValue ==
  ASSUME MainTypeOK, NEW p \in Param, NEW conf, NEW default, NEW answered
  PROVE  GetFromBlockchain(p, conf, default, answered) \in RegistryValue \cup {Nothing}
BY DEF GetFromBlockchain, MainTypeOK

\* Where initialize() and update() are.
LEMMA AtParameter ==
  ASSUME MainTypeOK, at[1] \in {"initialize", "update"}
  PROVE  at[2] \in Param /\ at = <<at[1], at[2]>>
BY DEF MainTypeOK

-----------------------------------------------------------------------------
\* The variables of MainLoop and OracleConfiguration keep their types.
THEOREM TypeCorrect == MainSpec => []MainTypeOK
<1>1. ASSUME MainInit
      PROVE  MainTypeOK
  <2>1. at \in Position /\ initialized \in BOOLEAN /\ tasks \in Nat /\ started \in Nat
    BY <1>1, Places DEF MainInit, Position
  <2>2. values \in [Param -> Value] /\ from_conf \subseteq Param /\ from_default \subseteq Param
    BY <1>1 DEF MainInit, ConfInit, Value
  <2> QED
    BY <1>1, <2>1, <2>2 DEF MainInit, ConfInit, MainTypeOK, Position, Value
<1>2. MainTypeOK /\ [MainNext]_mainVars => MainTypeOK'
  <2> SUFFICES ASSUME MainTypeOK, [MainNext]_mainVars
               PROVE  MainTypeOK'
    OBVIOUS
  <2>1. ASSUME NEW answered \in BOOLEAN, Initialize(answered)
        PROVE  MainTypeOK'
    <3> DEFINE p == at[2]
    <3>1. p \in Param /\ at = <<"initialize", p>> /\ at' \in Position
      BY <2>1, AtParameter, Onward DEF Initialize, Position
    <3>2. from_conf' \subseteq Param /\ from_default' \subseteq Param
      BY <2>1, <3>1 DEF Initialize, InitializeAt, MainTypeOK
    <3>3. PICK v \in Value : values' = [values EXCEPT ![p] = v]
      <4> DEFINE conf    == from_conf \cup (IF environment[p] # Missing THEN {p} ELSE {})
                 byDef   == environment[p] # Given /\ p \in HasDefault
                 default == from_default \cup (IF byDef THEN {p} ELSE {})
                 answer  == GetFromBlockchain(p, conf, default, answered)
                 value   == IF environment[p] = Given THEN Given
                            ELSE IF byDef THEN Default ELSE answer
      <4>1. answer \in RegistryValue \cup {Nothing}
        BY <3>1, AnswerIsValue
      <4>2. values' = [values EXCEPT ![p] = IF value # Nothing THEN value
                                            ELSE IF environment[p] = Empty THEN Nothing ELSE @]
        BY <2>1 DEF Initialize, InitializeAt
      <4> HIDE DEF answer
      <4>3. value \in Value /\ values[p] \in Value
        BY <3>1, <4>1 DEF MainTypeOK, Value
      <4>4. values' = [values EXCEPT ![p] = IF value # Nothing THEN value
                                    ELSE IF environment[p] = Empty THEN Nothing ELSE values[p]]
        BY <3>1, <4>2 DEF MainTypeOK
      <4> HIDE DEF value
      <4> QED
        BY <4>3, <4>4 DEF Value
    <3>4. values' \in [Param -> Value]
      BY <3>1, <3>3 DEF MainTypeOK, Value
    <3> QED
      BY <2>1, <3>1, <3>2, <3>4 DEF Initialize, InitializeAt, MainTypeOK, Position, Value, loopVars
  <2>2. ASSUME NEW answered \in BOOLEAN, Update(answered)
        PROVE  MainTypeOK'
    <3> DEFINE p == at[2]
               answer == GetFromBlockchain(p, from_conf, from_default, answered)
    <3>1. p \in Param /\ at = <<"update", p>>
      BY <2>2, AtParameter DEF Update
    <3>2. at' \in Position
      BY <2>2, <3>1, Onward DEF Update, Position
    <3>3. answer \in RegistryValue \cup {Nothing}
      BY <3>1, AnswerIsValue
    <3>4. values' = values \/ values' = [values EXCEPT ![p] = IF answer # Nothing THEN answer ELSE @]
      BY <2>2 DEF Update, UpdateAt, confVars
    <3> HIDE DEF answer
    <3>5. values' \in [Param -> Value]
      BY <3>1, <3>3, <3>4 DEF MainTypeOK, Value
    <3>6. UNCHANGED <<environment, registry, from_conf, from_default, initialized, tasks, started>>
      BY <2>2 DEF Update, UpdateAt, confVars, loopVars
    <3> QED
      BY <3>2, <3>5, <3>6 DEF MainTypeOK, Position, Value
  <2>3. CASE RunWaits
    BY <2>3 DEF RunWaits, MainTypeOK, confVars, loopVars
  <2>4. ASSUME NEW reached \in Reached, RunStarts(reached)
        PROVE  MainTypeOK'
    <3>1. initialized' \in BOOLEAN /\ tasks' \in Nat /\ started' \in Nat
      BY <2>4 DEF RunStarts, InitializedBy, MainTypeOK
    <3>2. at' \in Position
      BY <2>4, Places DEF RunStarts, MainTypeOK, Position
    <3> QED
      BY <2>4, <3>1, <3>2 DEF RunStarts, MainTypeOK, confVars, Position
  <2>5. CASE RunUpdates
    BY <2>5, Places DEF RunUpdates, MainTypeOK, confVars, loopVars
  <2>6. CASE Registry
    <3>1. PICK p \in Param : RegistryChanges(p) /\ UNCHANGED <<at, loopVars>>
      BY <2>6 DEF Registry
    <3>2. registry' \in [Param -> RegistryValue \cup {Unset}]
      BY <3>1 DEF RegistryChanges, MainTypeOK
    <3> QED
      BY <3>1, <3>2 DEF RegistryChanges, MainTypeOK, loopVars
  <2>7. CASE Restart
    BY <2>7, Places DEF Restart, MainTypeOK
  <2>8. CASE UNCHANGED mainVars
    BY <2>8 DEF mainVars, MainTypeOK
  <2> QED
    BY <2>1, <2>2, <2>3, <2>4, <2>5, <2>6, <2>7, <2>8 DEF MainNext, Proceed
<1> QED
  BY <1>1, <1>2, PTL DEF MainSpec

-----------------------------------------------------------------------------
\* Until a pass calls _startup() no pass updates and nothing is in tasks; after that
\* none calls it again.
StartInv ==
  /\ at[1] = "update" => initialized
  /\ at[1] = "initialize" => ~initialized
  /\ ~initialized => tasks = 0
  /\ tasks <= 1 /\ started <= tasks

\* What each step does to the start of the loops.
LEMMA StartStep ==
  ASSUME MainTypeOK, StartInv, [MainNext]_mainVars
  PROVE  StartInv'
<1>1. ASSUME NEW answered \in BOOLEAN, Initialize(answered)
      PROVE  StartInv'
  <2>1. at' \in ({"initialize"} \X Param) \cup {<<"run", 0>>}
    BY <1>1, AtParameter, Onward DEF Initialize
  <2>2. at'[1] # "update" /\ UNCHANGED loopVars /\ ~initialized
    BY <1>1, <2>1 DEF Initialize, StartInv
  <2> QED
    BY <2>2 DEF StartInv, loopVars
<1>2. ASSUME NEW answered \in BOOLEAN, Update(answered)
      PROVE  StartInv'
  <2>1. at = <<"update", at[2]>> /\ at[2] \in Param /\ initialized
    BY <1>2, AtParameter DEF Update, StartInv
  <2>2. at' \in ({"update"} \X Param) \cup {<<"run", 0>>}
    BY <1>2, <2>1, Onward DEF Update
  <2>3. at'[1] # "initialize" /\ UNCHANGED loopVars
    BY <1>2, <2>2 DEF Update
  <2> QED
    BY <2>1, <2>3 DEF StartInv, loopVars
<1>3. ASSUME NEW reached \in Reached, RunStarts(reached)
      PROVE  StartInv'
  <2>1. initialized' /\ tasks = 0 /\ started <= 0
    BY <1>3 DEF RunStarts, InitializedBy, StartInv
  <2>2. tasks' \in {0, 1} /\ started' \in {started, tasks'} /\ at'[1] # "initialize"
    BY <1>3, <2>1 DEF RunStarts, Between, MainTypeOK
  <2> QED
    BY <2>1, <2>2 DEF StartInv, MainTypeOK
<1>4. CASE RunUpdates
  BY <1>4 DEF RunUpdates, StartInv, loopVars
<1>5. CASE RunWaits \/ Registry \/ UNCHANGED mainVars
  BY <1>5 DEF RunWaits, Registry, StartInv, loopVars, mainVars
<1>6. CASE Restart
  BY <1>6 DEF Restart, StartInv
<1> QED
  BY <1>1, <1>2, <1>3, <1>4, <1>5, <1>6 DEF MainNext, Proceed

LEMMA StartInvariant == MainSpec => []StartInv
<1>1. MainInit => StartInv
  BY DEF MainInit, StartInv
<1>2. MainTypeOK /\ StartInv /\ [MainNext]_mainVars => StartInv'
  BY StartStep
<1> QED
  BY <1>1, <1>2, TypeCorrect, PTL DEF MainSpec

\* Whatever raises in _startup(), and however often the pass is run again, no loop of
\* the node is started twice (main_loop.py:39 comes before the call).
THEOREM OnceEach == MainSpec => []LoopsRunOnce
<1>1. MainTypeOK /\ StartInv => LoopsRunOnce
  BY DEF StartInv, LoopsRunOnce, MainTypeOK
<1> QED
  BY <1>1, StartInvariant, TypeCorrect, PTL

\* A node past initialize() whose loops do not run, because the manager is not known or
\* because _startup() raised.
Stuck == at[1] # "initialize" /\ started = 0 /\ (initialized \/ Conf(Manager) = Nothing)

\* How far finding 5 goes: whatever the registry holds or comes to hold, no step of
\* such a node but a restart starts its loops (main_loop.py:36 and :39).
THEOREM StuckUntilRestarted == MainSpec => [][Stuck => Stuck' \/ Restart]_mainVars
<1>1. ASSUME MainTypeOK, StartInv, MainNext, Stuck, ~Restart
      PROVE  Stuck'
  <2>1. CASE RunWaits \/ RunUpdates \/ Registry
    BY <1>1, <2>1 DEF RunWaits, RunUpdates, Registry, RegistryChanges, Stuck, Between, Conf,
                      confVars, loopVars
  <2>2. ASSUME NEW answered \in BOOLEAN, Update(answered)
        PROVE  Stuck'
    <3>1. at = <<"update", at[2]>> /\ at[2] \in Param /\ initialized
      BY <1>1, <2>2, AtParameter DEF Update, StartInv
    <3>2. at' \in ({"update"} \X Param) \cup {<<"run", 0>>}
      BY <2>2, <3>1, Onward DEF Update
    <3>3. at'[1] # "initialize" /\ UNCHANGED loopVars
      BY <2>2, <3>2 DEF Update
    <3> QED
      BY <1>1, <3>1, <3>3 DEF Stuck, loopVars
  <2>3. ASSUME NEW answered \in BOOLEAN, Initialize(answered)
        PROVE  FALSE
    BY <1>1, <2>3 DEF Initialize, Stuck
  <2>4. ASSUME NEW reached \in Reached, RunStarts(reached)
        PROVE  FALSE
    BY <1>1, <2>4 DEF RunStarts, Stuck
  <2> QED
    BY <1>1, <2>1, <2>2, <2>3, <2>4 DEF MainNext, Proceed
<1>2. MainTypeOK /\ StartInv /\ [MainNext]_mainVars => [Stuck => Stuck' \/ Restart]_mainVars
  BY <1>1
<1> QED
  BY <1>2, StartInvariant, TypeCorrect, PTL DEF MainSpec

-----------------------------------------------------------------------------
\* from_conf and from_default say where the parameters that are read came from.
SourcesInv ==
  \A p \in Param : IsRead(p) =>
    /\ environment[p] # Missing => p \in from_conf
    /\ environment[p] # Given /\ p \in HasDefault => p \in from_default

\* The notes initialize() takes of the sources agree with where the values come from.
LEMMA PriorityInvariant == MainSpec => [](SourcesInv /\ HigherPriorityWins)
<1>1. MainInit => SourcesInv /\ HigherPriorityWins
  <2> SUFFICES ASSUME MainInit, NEW p \in Param
               PROVE  ~IsRead(p)
    BY DEF SourcesInv, HigherPriorityWins
  <2> QED
    BY Places DEF MainInit, IsRead
<1>2. MainTypeOK /\ SourcesInv /\ HigherPriorityWins /\ [MainNext]_mainVars
        => SourcesInv' /\ HigherPriorityWins'
  <2> SUFFICES ASSUME MainTypeOK, SourcesInv, HigherPriorityWins, [MainNext]_mainVars
               PROVE  SourcesInv' /\ HigherPriorityWins'
    OBVIOUS
  <2>1. ASSUME NEW answered \in BOOLEAN, Initialize(answered)
        PROVE  SourcesInv' /\ HigherPriorityWins'
    <3> DEFINE p == at[2]
    <3>1. p \in Param /\ at = <<"initialize", p>>
      BY <2>1, AtParameter DEF Initialize
    <3>2. \A q \in Param : IsRead(q)' <=> IsRead(q) \/ q = p
      <4>1. at' = After(p)
        BY <2>1 DEF Initialize
      <4>2. \A q \in Param : (After(p)[1] # "initialize" \/ q < After(p)[2]) <=> (q < p \/ q = p)
        BY <3>1, Onward
      <4>3. \A q \in Param : IsRead(q) <=> q < p
        BY <3>1 DEF IsRead
      <4> QED
        BY <4>1, <4>2, <4>3 DEF IsRead
    <3>3. /\ environment' = environment
          /\ from_conf \subseteq from_conf' /\ from_default \subseteq from_default'
          /\ environment[p] # Missing => p \in from_conf'
          /\ environment[p] # Given /\ p \in HasDefault => p \in from_default'
      BY <2>1 DEF Initialize, InitializeAt
    <3>4. \A q \in Param \ {p} : values'[q] = values[q]
      BY <2>1 DEF Initialize, InitializeAt, MainTypeOK
    <3>5. environment[p] = Given => values'[p] = Given
      BY <2>1, <3>1, Distinct DEF Initialize, InitializeAt, MainTypeOK
    <3>6. environment[p] # Given /\ p \in HasDefault => values'[p] = Default
      BY <2>1, <3>1, Distinct DEF Initialize, InitializeAt, MainTypeOK
    <3>7. SourcesInv'
      BY <3>2, <3>3 DEF SourcesInv
    <3>8. HigherPriorityWins'
      BY <3>2, <3>3, <3>4, <3>5, <3>6 DEF HigherPriorityWins
    <3> QED
      BY <3>7, <3>8
  <2>2. ASSUME NEW answered \in BOOLEAN, Update(answered)
        PROVE  SourcesInv' /\ HigherPriorityWins'
    <3> DEFINE p == at[2]
               answer == GetFromBlockchain(p, from_conf, from_default, answered)
    <3>1. p \in Param /\ at = <<"update", p>> /\ \A q \in Param : IsRead(q)
      BY <2>2, AtParameter DEF Update, IsRead
    <3>2. UNCHANGED <<environment, from_conf, from_default>>
      BY <2>2 DEF Update, UpdateAt, confVars
    <3>3. values' = values \/ values' = [values EXCEPT ![p] = IF answer # Nothing THEN answer ELSE @]
      BY <2>2 DEF Update, UpdateAt, confVars
    <3>4. AsksRegistry(p, from_conf, from_default) \/ answer = Nothing
      BY DEF GetFromBlockchain
    <3> HIDE DEF answer
    <3>5. SourcesInv'
      BY <3>1, <3>2 DEF SourcesInv
    <3>6. ASSUME NEW q \in Param, q = p => ~AsksRegistry(p, from_conf, from_default)
          PROVE  values'[q] = values[q]
      BY <3>1, <3>3, <3>4, <3>6 DEF MainTypeOK
    <3>7. ASSUME NEW q \in Param, environment[q] = Given,
                 Priority[q] = "configuration_blockchain_default"
          PROVE  values'[q] = Given
      <4>1. q \in from_conf
        BY <3>1, <3>7, Distinct DEF SourcesInv
      <4>2. ~AsksRegistry(q, from_conf, from_default)
        BY <3>7, <4>1 DEF AsksRegistry
      <4> QED
        BY <3>1, <3>6, <3>7, <4>2 DEF HigherPriorityWins
    <3>8. ASSUME NEW q \in Param, environment[q] # Given, q \in HasDefault,
                 Priority[q] \in {"configuration_default_blockchain", "configuration_default"}
          PROVE  values'[q] = Default
      <4>1. q \in from_default
        BY <3>1, <3>8 DEF SourcesInv
      <4>2. ~AsksRegistry(q, from_conf, from_default)
        BY <3>8, <4>1 DEF AsksRegistry
      <4> QED
        BY <3>1, <3>6, <3>8, <4>2 DEF HigherPriorityWins
    <3> QED
      BY <3>2, <3>5, <3>7, <3>8 DEF HigherPriorityWins
  <2>3. CASE UNCHANGED <<environment, values, from_conf, from_default>>
             /\ \A q \in Param : IsRead(q)' => IsRead(q)
    BY <2>3 DEF SourcesInv, HigherPriorityWins
  <2>4. CASE Restart
    <3>1. \A q \in Param : ~IsRead(q)'
      BY <2>4, Places DEF Restart, IsRead
    <3> QED
      BY <3>1 DEF SourcesInv, HigherPriorityWins
  <2>5. (\E reached \in Reached : RunStarts(reached)) \/ RunWaits \/ RunUpdates \/ Registry \/ UNCHANGED mainVars
          => /\ UNCHANGED <<environment, values, from_conf, from_default>>
             /\ \A q \in Param : IsRead(q)' => IsRead(q)
    BY DEF RunStarts, RunWaits, RunUpdates, Registry, RegistryChanges, mainVars, confVars,
           IsRead, Between
  <2> QED
    BY <2>1, <2>2, <2>3, <2>4, <2>5 DEF MainNext, Proceed
<1> QED
  BY <1>1, <1>2, TypeCorrect, PTL DEF MainSpec

\* A parameter whose order says so is never taken from the registry once the
\* environment, or its default, gave it.
THEOREM PrioritiesKept == MainSpec => []HigherPriorityWins
BY PriorityInvariant, PTL
=============================================================================
