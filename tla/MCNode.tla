------------------------------- MODULE MCNode -------------------------------
(* The loops of a node around its core, on one instance.  They share no variable,
   so that every behaviour is about one of them while the others rest where they
   start.                                                                      *)
EXTENDS NodeLoops, GasPrice, IpFilter, SelectNext, MCNodeStart

VARIABLE loop   \* the loop the behaviour is about

allVars == <<loop, loopsVars, gasVars, ipVars, selVars, mainVars>>

Init ==
  /\ loop \in {"pairs", "gas", "addresses", "turns", "start"}
  /\ LoopsInit /\ (loop # "pairs" => \A a \in Addr : subscribed[a] = {})
  /\ GasInit /\ (loop # "gas" => network = Min(GasPrices) /\ limit = Min(Limits))
  /\ IpInit
  /\ SelInit /\ (loop # "turns" => /\ \A k \in 1 .. Size : hash[k] = 0
                                  /\ \A o \in Selection : stake[o] = Min(Stakes))
  /\ MainInit /\ (loop # "start" =>
                    \A p \in Param : environment[p] = Missing /\ registry[p] = Unset)

Next ==
  \/ loop = "pairs" /\ LoopsNext /\ UNCHANGED <<loop, gasVars, ipVars, selVars, mainVars>>
  \/ loop = "gas" /\ GasNext /\ UNCHANGED <<loop, loopsVars, ipVars, selVars, mainVars>>
  \/ loop = "addresses" /\ IpNext /\ UNCHANGED <<loop, loopsVars, gasVars, selVars, mainVars>>
  \/ loop = "turns" /\ SelNext /\ UNCHANGED <<loop, loopsVars, gasVars, ipVars, mainVars>>
  \/ loop = "start" /\ MainNext /\ UNCHANGED <<loop, loopsVars, gasVars, ipVars, selVars>>

\* What a task does is done for ever, whether its calls fail or not (BgTaskExecutor).
\* Since a behaviour is about one loop, one formula may speak of the steps of two.
PassesGoOn ==
  \/ loop = "pairs" /\ Call /\ UNCHANGED mainVars
  \/ loop = "start" /\ Proceed /\ UNCHANGED loopsVars

\* The requests that are answered, by a number each: the state loop's two about the gas
\* price, and the registry's answer for each parameter.
Answered(i) ==
  \/ loop = "gas" /\ i = 1 /\ AskPrice(StateLoop, network) /\ UNCHANGED mainVars
  \/ loop = "gas" /\ i = 2 /\ SetLastPrice(StateLoop, limit) /\ UNCHANGED mainVars
  \/ loop = "start" /\ at[2] = i /\ Update(TRUE) /\ UNCHANGED gasVars

\* A request that is made again and again is answered in the end.
Fairness ==
  /\ WF_<<loopsVars, mainVars>>(PassesGoOn)
  /\ \A i \in Param : SF_<<gasVars, mainVars>>(Answered(i))

Spec == Init /\ [][Next]_allVars /\ Fairness

\* The shape of the state.
TypeOK == LoopsTypeOK /\ GasTypeOK /\ IpTypeOK /\ MainTypeOK

\* GasFollowsTheChain, of the behaviours that are about the gas price: while chain
\* and contract hold still, the price kept reaches theirs again and again, unless
\* it is so small that the percentage does not raise it.
GasPriceFollows == loop = "gas" => GasFollowsTheChain

\* SubscribedPairsRun, of the behaviours that are about the coin pairs: one that an
\* address stays subscribed to runs in the end, unless a broken one is in the way.
PairsRun == loop = "pairs" => SubscribedPairsRun
=============================================================================
