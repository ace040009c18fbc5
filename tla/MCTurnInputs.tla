---------------------------- MODULE MCTurnInputs ----------------------------
(* What a turn is decided on besides the chain: the price of the exchanges and
   whether the contracts need one, on small instances.  The two share no variable;
   every behaviour is about one of them.

   Three exchanges: the answers of the first are fresh or too old, the clock of the
   second, whose volume counts, runs ahead or behind.                            *)
EXTENDS PriceFeed, ConditionalSignal

Weights   == <<1, 2, 2>>
Evaluated == <<0, 1, 0>>
Prices    == <<{1}, {2}, {3}>>
Skews     == <<{0, -2}, {1, -1}, {0}>>

VARIABLE input   \* the one the behaviour is about

Init ==
  /\ input \in {"price", "signal"}
  /\ FeedInit
  /\ SignalInit /\ (input = "price" => ~chain.active /\ last_block # NoBlock)

Next ==
  \/ input = "price" /\ FeedNext /\ UNCHANGED <<input, signalVars>>
  \/ input = "signal" /\ SignalNext /\ UNCHANGED <<input, feedVars>>

\* The publisher's loop updates, and reads what it has fetched, for ever; a service
\* that is asked again and again answers in the end.
Fairness ==
  /\ SF_signalVars(input = "signal" /\ ReadRunning)
  /\ WF_signalVars(input = "signal" /\ (ReadBase \/ ReadForce \/ RecordEdge))
  /\ SF_signalVars(input = "signal" /\ FetchAnswers)
  /\ SF_signalVars(input = "signal" /\ ConditionActive)
  /\ SF_signalVars(input = "signal" /\ ConditionInactive)
  /\ WF_signalVars(input = "signal" /\ EndpointAsked)
  /\ SF_signalVars(input = "signal" /\ EndpointAsked /\ ordered' = endpoint.force)

Spec == Init /\ [][Next]_<<input, feedVars, signalVars>> /\ Fairness

\* NeedIsAnswered and UnneedIsAnswered, of the behaviours that are about the signal.
NeedReachesTurn   == input = "signal" => NeedIsAnswered
UnneedReachesTurn == input = "signal" => UnneedIsAnswered

=============================================================================
