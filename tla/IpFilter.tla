------------------------------ MODULE IpFilter ------------------------------
(***************************************************************************)
(* The addresses a node signs for: IpFilterLoop, ip_filter_loop.py.  Every *)
(* Interval the loop resolves the names of the oracles its views show as   *)
(* selected, notes when it last saw each address, and purges those it has  *)
(* not seen for two intervals.  The purge deletes from the dictionary it   *)
(* iterates over: the first address it deletes raises RuntimeError, even   *)
(* when it is the last one, and the task runs the loop again a second      *)
(* later (BgTaskExecutor), so that a pass purges one address: the first of *)
(* the expired ones in the order in which they entered the dictionary.     *)
(*                                                                         *)
(* A pass does not suspend and is one action.  What it resolves, which     *)
(* changes with the views and with DNS, is its input.  Time is in seconds, *)
(* and a pass starts on time.                                              *)
(***************************************************************************)
EXTENDS Integers, SequencesExt

CONSTANTS Ip,              \* the addresses the names of the oracles may have
          Interval         \* ORACLE_BLOCKCHAIN_INFO_INTERVAL

ASSUME IpAssumption == IsFiniteSet(Ip) /\ Interval \in Nat \ {0}

Retry   == 1                                      \* bg_task: seconds until it runs again
Longest == 3 * Interval + Cardinality(Ip) * Retry \* bound: the ages that are told apart

VARIABLES valid_ips,  \* the keys of valid_ips, in the order of the dictionary
          age,        \* age[ip]: the time since a pass saw ip
          wait        \* the time until the next pass

ipVars == <<valid_ips, age, wait>>

IpInit ==
  /\ valid_ips = <<>>
  /\ age = [ip \in Ip |-> Longest]
  /\ wait = 0

-----------------------------------------------------------------------------
Tick ==
  /\ wait > 0
  /\ wait' = wait - 1
  /\ age' = [ip \in Ip |-> Min({age[ip] + 1, Longest})]
  /\ UNCHANGED valid_ips

-----------------------------------------------------------------------------
\* Defect: an address is purged after one interval.
ExpiredEarly(ips, ages) == {i \in DOMAIN ips : ages[ips[i]] >= Interval * 2}

\* The places of the expired addresses.
Expired(ips, ages) == {i \in DOMAIN ips : ages[ips[i]] > Interval * 2}

Purged(ips, expired) == IF expired = {} THEN ips ELSE RemoveAt(ips, Min(expired))

\* Defect: a pass that raised runs again after an interval.
PauseLong(expired) == Interval

\* What bg_task sleeps after a pass, which raised if it purged an address.
Pause(expired) == IF expired = {} THEN Interval ELSE Retry

\* run, when seen are the addresses of the selected oracles of all views, those
\* left out whose name cannot be parsed or resolved.  New keys come last, in the
\* order the views and the resolver give them; a key seen again keeps its place.
Pass(seen) ==
  LET ages == [ip \in Ip |-> IF ip \in seen THEN 0 ELSE age[ip]]
  IN  /\ wait = 0
      /\ age' = ages
      /\ \E new \in SetToSeqs(seen \ ToSet(valid_ips)) :
           LET ips == valid_ips \o new
           IN  /\ valid_ips' = Purged(ips, Expired(ips, ages))
               /\ wait' = Pause(Expired(ips, ages))

IsValidIp(ip) == ip \in ToSet(valid_ips)

IpNext == Tick \/ \E seen \in SUBSET Ip : Pass(seen)

IpSpec == IpInit /\ [][IpNext]_ipVars

-----------------------------------------------------------------------------
(* Properties *)

\* The shape of the state.
IpTypeOK ==
  /\ valid_ips \in Seq(Ip) /\ IsInjective(valid_ips)
  /\ age \in [Ip -> 0 .. Longest]
  /\ wait \in 0 .. Interval

\* An address is accepted for two intervals after a pass saw it, whatever fails
\* and whatever other addresses expire.
GraceIsKept == \A ip \in Ip : age[ip] <= 2 * Interval => IsValidIp(ip)

\* And it is refused after three, and one more second for every other address
\* that may have expired with it and entered before it.
StrangersAreRefused ==
  \A ip \in ToSet(valid_ips) : age[ip] <= 3 * Interval + (Cardinality(Ip) - 1) * Retry
=============================================================================
