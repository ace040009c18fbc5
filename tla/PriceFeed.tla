------------------------------ MODULE PriceFeed ------------------------------
(***************************************************************************)
(* The exchange prices of one coin pair: oracle/src/price_feeder/.  Every  *)
(* round asks all exchanges, keeps what they answer in one bounded queue   *)
(* per exchange, and reading the price for a moment takes from each queue  *)
(* the datum nearest to it, and of those the weighted median.  A publisher *)
(* reads for the present; a signer, whose feed works the same, reads for   *)
(* the time stamp of the price it is asked to endorse, which is past.      *)
(*                                                                         *)
(* A round's answers come in while its requests are awaited, but enter the *)
(* queues together at its end; only the end is observable, and an action.  *)
(* Time is counted in rounds (ORACLE_PRICE_FETCH_RATE).                    *)
(***************************************************************************)
EXTENDS Integers, Sequences, FiniteSetsExt, Functions

CONSTANTS Weight,           \* Weight[e]: the ponderation of exchange e, by position in the configuration
          MinVolume,        \* MinVolume[e]: 0 when the volume is not evaluated
          Shown,            \* Shown[e]: the prices exchange e may show
          Volumeless,       \* the exchanges whose answer has no volume
          Skew,             \* Skew[e]: how far the stamp of an answer of e may be from the present
          ReceiveMaxAge,    \* ORACLE_PRICE_RECEIVE_MAX_AGE
          PublishMaxDiff,   \* ORACLE_PRICE_PUBLISH_MAX_DIFF
          ValidateMaxDiff,  \* ORACLE_PRICE_VALIDATE_MAX_DIFF
          QueueLen,         \* ORACLE_QUEUE_LEN
          NaN,              \* the price of a datum that is not available
          Failures,         \* bound: how many exchanges may fail in one round
          MaxTime           \* bound: rounds

Engine == DOMAIN Weight

ASSUME FeedAssumption ==
  /\ Weight \in Seq(Nat \ {0}) /\ Weight # <<>>
  /\ MinVolume \in [Engine -> Nat]
  /\ Shown \in [Engine -> SUBSET Nat]
  /\ Volumeless \subseteq Engine
  /\ Skew \in [Engine -> SUBSET Int] /\ \A e \in Engine : IsFiniteSet(Skew[e])
  /\ {ReceiveMaxAge, PublishMaxDiff, ValidateMaxDiff, MaxTime} \subseteq Nat
  /\ QueueLen \in Nat \ {0} /\ Failures \subseteq Nat
  /\ NaN \notin Nat

VARIABLES now,      \* the round that comes next
          queues,   \* _price_queues: the data of each exchange, oldest first
          stalled,  \* history: the exchanges whose last answer was too old
          quote     \* history: a price read for publication, its exchange and when

feedVars == <<now, queues, stalled, quote>>

NoQuote == [at |-> -1]
Time    == 0 .. MaxTime

FeedInit ==
  /\ now = 0
  /\ queues = [e \in Engine |-> <<>>]
  /\ stalled = {}
  /\ quote = NoQuote

-----------------------------------------------------------------------------
(* A round *)

\* The stamp map() gives an answer: the exchange's own (whose clock may be ahead
\* of the node's), or the present less the age of the answer in a cache.
Stamps(e) == {now + d : d \in Skew[e]}

\* Some exchanges give no volume, and it counts as zero.
Volumes(e) == IF e \in Volumeless THEN {0} ELSE {MinVolume[e], MinVolume[e] + 1}

Answers(e) == [price : Shown[e], ts : Stamps(e), volume : Volumes(e)]

TooOld(a) == now - a.ts > ReceiveMaxAge

\* Defect: a price that is not available keeps the time of the old answer.
GetPriceOldStamp(a) == [price |-> IF TooOld(a) THEN NaN ELSE a.price, ts |-> a.ts]

\* An answer that is too old is kept, as a price that is not available now.
GetPrice(a) == IF TooOld(a) THEN [price |-> NaN, ts |-> now] ELSE [price |-> a.price, ts |-> a.ts]

EnoughVolume(e, a) == MinVolume[e] = 0 \/ a.volume > MinVolume[e]

\* fetch_prices: an exchange that fails, or shows too little volume, is left out.
Fetched(e) == {<<>>} \cup {<<a>> : a \in {b \in Answers(e) : EnoughVolume(e, b)}}

\* Defect: one place of the queue is never used.
PushShort(q, x) == IF Len(q) + 1 < QueueLen THEN Append(q, x) ELSE Append(Tail(q), x)

\* Defect: the queue has no maximum length.
PushUnbounded(q, x) == Append(q, x)

\* deque.append with maxlen.
Push(q, x) == IF Len(q) < QueueLen THEN Append(q, x) ELSE Append(Tail(q), x)

\* PriceFeederLoop.run when the exchanges answered, and some of them failed.
Round(answers) ==
  /\ now < MaxTime
  /\ now' = now + 1
  /\ queues' = [e \in Engine |->
       IF answers[e] = <<>> THEN queues[e] ELSE Push(queues[e], GetPrice(answers[e][1]))]
  /\ stalled' = {e \in Engine : IF answers[e] = <<>> THEN e \in stalled
                                                     ELSE TooOld(answers[e][1])}
  /\ UNCHANGED quote

-----------------------------------------------------------------------------
(* Reading a price *)

Distance(t, x) == IF x.ts < t THEN t - x.ts ELSE x.ts - t

\* The first of the places in I whose datum is nearest to t.
FirstNearest(q, t, I) ==
  CHOOSE i \in I : \A j \in I : \/ Distance(t, q[i]) < Distance(t, q[j])
                                \/ Distance(t, q[i]) = Distance(t, q[j]) /\ i <= j

\* Defect: of two data equally near the first in the queue is taken.
GetNearestFirst(q, t) == q[FirstNearest(q, t, DOMAIN q)]

\* get_nearest_data of a queue that is not empty: of two data equally near the
\* later one.
GetNearest(q, t) ==
  LET one    == q[FirstNearest(q, t, DOMAIN q)]
      others == {i \in DOMAIN q : q[i].ts # one.ts}
      two    == q[FirstNearest(q, t, others)]
  IN  IF others # {} /\ Distance(t, one) = Distance(t, two) /\ one.ts < t THEN two ELSE one

Usable(e, t, max) ==
  /\ queues[e] # <<>>
  /\ LET x == GetNearest(queues[e], t) IN x.price # NaN /\ Distance(t, x) <= max

\* get_last_price: the data that count for a moment.
Usables(t, max) ==
  {LET x == GetNearest(queues[e], t) IN [engine |-> e, price |-> x.price, ts |-> x.ts] :
     e \in {f \in Engine : Usable(f, t, max)}}

\* The sum of the weights, counted as votes.
WeightOf(S) == Cardinality(UNION {{x.engine} \X (1 .. Weight[x.engine]) : x \in S})

\* The order of the sorted tuples: price and weight.  What stays equal has one price,
\* and is taken by position, where the code has the order of the first answers.
Sorted(x, y) ==
  \/ x.price < y.price
  \/ x.price = y.price /\ Weight[x.engine] < Weight[y.engine]
  \/ x.price = y.price /\ Weight[x.engine] = Weight[y.engine] /\ x.engine <= y.engine

\* Defect: the walk over the sorted data stops at the first one past a half of
\* their number.
MedianByCount(S) ==
  LET UpTo(x) == Cardinality({y \in S : Sorted(y, x)})
  IN  CHOOSE x \in S : /\ 2 * UpTo(x) >= Cardinality(S)
                       /\ \A y \in S : 2 * UpTo(y) >= Cardinality(S) => Sorted(x, y)

\* weighted_median_idx: the first datum at which the weights reach one half.
Median(S) ==
  LET UpTo(x) == WeightOf({y \in S : Sorted(y, x)})
  IN  CHOOSE x \in S : /\ 2 * UpTo(x) >= WeightOf(S)
                       /\ \A y \in S : 2 * UpTo(y) >= WeightOf(S) => Sorted(x, y)

\* The publisher reads the price for the present; of its reads one is followed.
Quote ==
  /\ quote = NoQuote
  /\ LET S == Usables(now, PublishMaxDiff)
     IN  S # {} /\ quote' = [at |-> now, datum |-> Median(S)]
  /\ UNCHANGED <<now, queues, stalled>>

-----------------------------------------------------------------------------
FeedNext ==
  \/ Quote
  \/ LET fetched == [e \in Engine |-> Fetched(e)]
     IN  \E answers \in [Engine -> UNION Range(fetched)] :
           /\ \A e \in Engine : answers[e] \in fetched[e]
           /\ Cardinality({e \in Engine : answers[e] = <<>>}) \in Failures
           /\ Round(answers)

FeedSpec == FeedInit /\ [][FeedNext]_feedVars

-----------------------------------------------------------------------------
(* Properties *)

Datum == [price : Nat \cup {NaN}, ts : Int]

\* The shape of the state.
FeedTypeOK ==
  /\ now \in Time
  /\ queues \in [Engine -> Seq(Datum)] /\ \A e \in Engine : Len(queues[e]) <= QueueLen
  /\ stalled \subseteq Engine
  /\ quote \in {NoQuote} \cup
       [at : Time, datum : [engine : Engine, price : Nat, ts : Int]]

\* PRICE_HANDLING.md:31: reading a queue for any moment gives a datum none
\* is nearer than, and of several as near the most recent one.
NearestAndMostRecent ==
  \A e \in Engine, t \in Time : queues[e] # <<>> =>
    LET x == GetNearest(queues[e], t)
    IN  \A y \in Range(queues[e]) :
          Distance(t, x) < Distance(t, y) \/ (Distance(t, x) = Distance(t, y) /\ y.ts <= x.ts)

\* One exchange, or several, that hold less than half of the weight of those that
\* answer cannot move the price past what the others show: neither the data
\* below the price read nor those above it hold more than a half.
MedianSplitsTheWeight ==
  LET S == Usables(now, PublishMaxDiff) IN S # {} =>
    LET price == Median(S).price
    IN  /\ 2 * WeightOf({x \in S : x.price < price}) < WeightOf(S)
        /\ 2 * WeightOf({x \in S : x.price > price}) <= WeightOf(S)

\* "We don't want to report old prices": an exchange whose last answer was too
\* old has no part in a publication, although younger data of an earlier round
\* are still in its queue.  (Unless its own clock runs ahead of the node's.)
StalledExchangeIsSilent ==
  \A e \in stalled : (\A d \in Skew[e] : d <= 0) => ~Usable(e, now, PublishMaxDiff)

\* The latest and the earliest stamp of a datum of an exchange, from its round.
Ahead(e)  == Max(Skew[e] \cup {0})
Behind(e) == Min({d \in Skew[e] : -d <= ReceiveMaxAge} \cup {0})

\* How many data an exchange may have sent after the one that is nearest to the
\* present: as many as can be stamped no later than it, and those stamped so far
\* ahead that they are less near.
Spread(e) == (Ahead(e) - Behind(e)) + Max({Ahead(e) - 2, 0})

\* "Our system also needs to be able to validate prices from some recent past":
\* the datum a publication took its price from is still the one read for its own
\* time, as long as no more rounds passed than the queue has places beside it and
\* the data that may have overtaken it.
RecentPastIsKept ==
  LET x == quote.datum
  IN  quote # NoQuote /\ now - quote.at < QueueLen - Spread(x.engine) =>
        /\ Usable(x.engine, x.ts, ValidateMaxDiff)
        /\ GetNearest(queues[x.engine], x.ts) = [price |-> x.price, ts |-> x.ts]
=============================================================================
