------------------------ MODULE OracleConfiguration ------------------------
(***************************************************************************)
(* The parameters of a node: oracle_configuration.py.  Each is taken from  *)
(* the environment, a default or the contracts' registry, in an order of   *)
(* its own.  initialize() and update() go through the table of parameters  *)
(* one by one and may await the registry at each of them, so both are      *)
(* steps per parameter here; MainLoop says when they are taken.            *)
(***************************************************************************)
EXTENDS Integers, Sequences

CONSTANTS Priority,      \* Priority[p]: the Order of parameter p, by position in the table
          HasDefault,    \* the parameters with a default
          Text,          \* the parameters whose configuration may read as an empty value:
                         \* a text that is empty, or bytes that are not given
          RegistryValue, \* bound: what the registry may hold
          Given, Empty, Missing,  \* in the environment: a value, an empty one, none that can be read
          Default,       \* the default
          Unset,         \* nothing in the registry
          Nothing,       \* None
          Absent         \* the parameter has no entry in values

Param == DOMAIN Priority

Order == {"blockchain_configuration_default", "configuration_blockchain_default",
          "configuration_default_blockchain", "configuration_default"}

ASSUME ConfigurationAssumption ==
  /\ Priority \in Seq(Order) /\ HasDefault \subseteq Param /\ Text \subseteq Param
  /\ \A x \in {Given, Empty, Missing, Default, Unset, Nothing, Absent} : x \notin RegistryValue
  /\ LET tags == <<Given, Empty, Missing, Default, Unset, Nothing, Absent>>
     IN  \A i, j \in 1 .. 7 : tags[i] = tags[j] => i = j

VARIABLES environment,  \* environment[p]: Given, Empty or Missing
          registry,     \* the contracts' registry
          values,       \* values
          from_conf,    \* from_conf
          from_default  \* from_default

confVars == <<environment, registry, values, from_conf, from_default>>

Environments == {f \in [Param -> {Given, Empty, Missing}] : \A p \in Param : f[p] = Empty => p \in Text}

ConfInit ==
  /\ environment \in Environments
  /\ registry \in [Param -> RegistryValue \cup {Unset}]
  /\ values = [p \in Param |-> Absent]
  /\ from_conf = {}
  /\ from_default = {}

-----------------------------------------------------------------------------
\* __getattr__: what the program reads.
Conf(p) == IF values[p] = Absent THEN Nothing ELSE values[p]

\* Defect: a parameter given in the environment is read from the registry all the same.
AsksRegistryAlways(p, conf, default) ==
  ~ \/ Priority[p] = "configuration_default"
    \/ Priority[p] = "configuration_default_blockchain" /\ p \in default

\* The early returns of _get_from_blockchain.
AsksRegistry(p, conf, default) ==
  ~ \/ Priority[p] = "configuration_default"
    \/ Priority[p] = "configuration_blockchain_default" /\ p \in conf
    \/ Priority[p] = "configuration_default_blockchain" /\ p \in default

\* _get_from_blockchain: an answer, unless the call fails or the registry has none.
GetFromBlockchain(p, conf, default, answered) ==
  IF AsksRegistry(p, conf, default) /\ answered /\ registry[p] # Unset
    THEN registry[p] ELSE Nothing

\* initialize(), at parameter p.
InitializeAt(p, answered) ==
  LET conf    == from_conf \cup (IF environment[p] # Missing THEN {p} ELSE {})
      byDef   == environment[p] # Given /\ p \in HasDefault
      default == from_default \cup (IF byDef THEN {p} ELSE {})
      value   == IF environment[p] = Given THEN Given
                 ELSE IF byDef THEN Default ELSE GetFromBlockchain(p, conf, default, answered)
  IN  /\ from_conf' = conf
      /\ from_default' = default
      /\ values' = [values EXCEPT ![p] = IF value # Nothing THEN value
                                         ELSE IF environment[p] = Empty THEN Nothing ELSE @]
      /\ UNCHANGED <<environment, registry>>

\* update() compares the answer with values[p]: KeyError when p has no entry.
RaisesAt(p, answer) == answer # Nothing /\ values[p] = Absent

\* Defect: only a parameter that is not known is updated.
UpdateUnknownAt(p, answer) ==
  /\ values' = [values EXCEPT ![p] = IF @ = Nothing THEN answer ELSE @]
  /\ UNCHANGED <<environment, registry, from_conf, from_default>>

\* update(), at parameter p, when that does not raise.
UpdateAt(p, answer) ==
  /\ values' = [values EXCEPT ![p] = IF answer # Nothing THEN answer ELSE @]
  /\ UNCHANGED <<environment, registry, from_conf, from_default>>

\* Somebody else writes the registry.
RegistryChanges(p) ==
  /\ \E v \in (RegistryValue \cup {Unset}) \ {registry[p]} : registry' = [registry EXCEPT ![p] = v]
  /\ UNCHANGED <<environment, values, from_conf, from_default>>
=============================================================================
