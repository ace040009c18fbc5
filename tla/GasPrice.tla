------------------------------ MODULE GasPrice ------------------------------
(***************************************************************************)
(* The gas price a node pays: GasCalculator and the BlockchainStateLoop    *)
(* that keeps it up to date (common/services/blockchain.py).  One instance *)
(* serves all the loops of a node: the state loop and every publisher call *)
(* get_current(), which awaits the chain twice before it changes the price *)
(* it keeps, so that calls overlap and end in any order.                   *)
(***************************************************************************)
EXTENDS Integers, FiniteSetsExt

CONSTANTS StateLoop,         \* the BlockchainStateLoop
          Publisher,         \* the coin pair loops, which ask when they publish
          GasPrices,         \* bound: what the chain may answer
          Limits,            \* bound: what the gas limit contract may answer
          DefaultGasPrice,   \* DEFAULT_GAS_PRICE
          Admitted,          \* GAS_PERCENTAGE_ADMITTED
          HardMin, HardMax,  \* GAS_PRICE_HARD_LIMIT_*, where 0 is no limit
          Multiplier,        \* GAS_PRICE_HARD_LIMIT_MULTIPLIER
          NoPrice

Caller == Publisher \cup {StateLoop}

ASSUME GasAssumption ==
  /\ GasPrices \subseteq Nat /\ Limits \subseteq Nat
  /\ {DefaultGasPrice, Admitted, HardMin, HardMax} \subseteq Nat
  /\ Multiplier \in Nat \ {0}
  /\ NoPrice \notin Nat

VARIABLES network,     \* eth.gasPrice
          limit,       \* the value of the gas limit contract
          calls,       \* calls[c]: <<>>, or <<what the chain answered to the call of c>>
          last_price,  \* the price get_current() gave last, NoPrice before the first
          outbid       \* history: the limit that call read, NoPrice when it read none

gasVars == <<network, limit, calls, last_price, outbid>>

GasInit ==
  /\ network \in GasPrices
  /\ limit \in Limits
  /\ calls = [c \in Caller |-> <<>>]
  /\ last_price = NoPrice
  /\ outbid = NoPrice

-----------------------------------------------------------------------------
\* get_gas_price_plus_x_perc, truncated.
PlusPercentage(price) == price + (price * Admitted) \div 100

\* Defect: a price is only ever followed down.
GetLastPriceAsIs == IF last_price = NoPrice THEN DefaultGasPrice ELSE last_price

GetLastPrice == IF last_price = NoPrice THEN DefaultGasPrice ELSE PlusPercentage(last_price)

\* Defect: a price out of range is taken as it is.
InRangeAny(price) == IF price = NoPrice THEN GetLastPrice ELSE price

\* The chain's price, unless it gave none or one out of range.
InRange(price) == IF price = NoPrice \/ price > GetLastPrice THEN GetLastPrice ELSE price

\* Defect: the limit is matched and not exceeded.
RaisedEqual(price, value) == Max({price, HardMin} \cup (IF value = NoPrice THEN {} ELSE {value}))

Raised(price, value) == Max({price, HardMin} \cup (IF value = NoPrice THEN {} ELSE {value + 1}))

Capped(price) == IF HardMax = 0 THEN price ELSE Min({price, HardMax})

\* get_current: what is left of it once the chain and the contract answered.
Current(price, value) == Capped(Raised(InRange(price) * Multiplier, value))

-----------------------------------------------------------------------------
NetworkMoves == \E g \in GasPrices \ {network} :
  network' = g /\ UNCHANGED <<limit, calls, last_price, outbid>>

LimitMoves == \E l \in Limits \ {limit} :
  limit' = l /\ UNCHANGED <<network, calls, last_price, outbid>>

\* run_in_executor(eth.gasPrice): the chain answers, maybe without a price.
AskPrice(c, price) ==
  /\ calls[c] = <<>>
  /\ calls' = [calls EXCEPT ![c] = <<price>>]
  /\ UNCHANGED <<network, limit, last_price, outbid>>

\* The gas limit contract answers, with a value or with an error, and the call ends.
\* (Of a call whose first request raises nothing is kept.)
SetLastPrice(c, value) ==
  /\ calls[c] # <<>>
  /\ calls' = [calls EXCEPT ![c] = <<>>]
  /\ last_price' = Current(calls[c][1], value)
  /\ outbid' = value
  /\ UNCHANGED <<network, limit>>

GasNext ==
  \/ NetworkMoves
  \/ LimitMoves
  \/ \E c \in Caller : \E price \in {network, NoPrice} : AskPrice(c, price)
  \/ \E c \in Caller : \E value \in {limit, NoPrice} : SetLastPrice(c, value)

GasSpec == GasInit /\ [][GasNext]_gasVars

-----------------------------------------------------------------------------
(* Properties *)

\* The shape of the state.
GasTypeOK ==
  /\ network \in GasPrices /\ limit \in Limits
  /\ calls \in [Caller -> {<<>>} \cup {<<p>> : p \in GasPrices \cup {NoPrice}}]
  /\ last_price \in Nat \cup {NoPrice}
  /\ outbid \in Limits \cup {NoPrice}

\* "Hard limits to the gas price" (settings.py:61), also against the limit of the
\* contract, which is outbid unless the maximum forbids it.
WithinHardLimits ==
  last_price # NoPrice =>
    /\ HardMax # 0 => last_price <= HardMax
    /\ last_price >= Capped(HardMin)
    /\ outbid # NoPrice => last_price > outbid \/ last_price = HardMax

\* "Sometimes the gas_price reaches 20Gwei" (settings.py:56): one answer of the
\* chain, however high and however late it is used, raises the price by no more
\* than the percentage, apart from the limits.
SpikesAreTamed ==
  [][last_price' # last_price =>
       last_price' <= Max({GetLastPrice * Multiplier, HardMin}
                            \cup (IF outbid' = NoPrice THEN {} ELSE {outbid' + 1}))]_gasVars

\* While chain and contract hold still, the price reaches theirs again and again,
\* unless it is so small that the percentage does not raise it.
GasFollowsTheChain ==
  <>[][FALSE]_<<network, limit>> =>
    []<>(\/ last_price = Capped(Raised(network * Multiplier, limit))
         \/ last_price # NoPrice /\ PlusPercentage(last_price) = last_price)
=============================================================================
