--------------------------- MODULE PriceFeed_proofs ---------------------------
(***************************************************************************)
(* What the price feed does for any exchanges, clocks, weights and lengths *)
(* of the queues.  Reading a queue gives the nearest and most recent       *)
(* datum, and none of an exchange whose answers have become too old; the   *)
(* price of several exchanges is their weighted median; and a price that   *)
(* was published can be read again while its queue holds it.               *)
(***************************************************************************)
EXTENDS PriceFeed, FiniteSetTheorems, SequenceTheorems, WellFoundedInduction, TLAPS

\* The types of the queues; those of what a publication read (FeedTypeOK) rest on
\* what a median is.
QueuesTypeOK ==
  /\ now \in Nat
  /\ queues \in [Engine -> Seq(Datum)]
  /\ stalled \subseteq Engine

-----------------------------------------------------------------------------
(* get_nearest_data *)

\* A set of natural numbers has a smallest one.
LEMMA Smallest ==
  ASSUME NEW T, T \subseteq Nat, T # {}
  PROVE  \E x \in T : \A y \in T : x <= y
<1> DEFINE Less == {ss \in Nat \X Nat : ss[1] < ss[2]}
<1>1. IsWellFoundedOn(Less, Nat)
  BY NatLessThanWellFounded, Zenon DEF OpToRel
<1>2. PICK x \in T : \A y \in T : ~ (<<y, x>> \in Less)
  <2> HIDE DEF Less
  <2> QED
    BY <1>1, WFMin
<1>3. ASSUME NEW y \in T PROVE x <= y
  <2>1. x \in Nat /\ y \in Nat /\ ~ (<<y, x>> \in Less)
    BY <1>2
  <2>2. ~ (y < x)
    BY <2>1
  <2> QED
    BY <2>1, <2>2
<1> QED
  BY <1>3

\* What is in a queue is a datum.
LEMMA InQueue ==
  ASSUME NEW q \in Seq(Datum), NEW i \in DOMAIN q
  PROVE  q[i] \in Datum /\ q[i].ts \in Int
<1>1. q[i] \in Datum
  OBVIOUS
<1> QED
  BY <1>1 DEF Datum

\* The distance of a datum from a moment is a natural number.
LEMMA DistanceIsNat ==
  ASSUME NEW t \in Int, NEW x \in Datum
  PROVE  /\ x.ts \in Int
         /\ Distance(t, x) \in Nat
         /\ x.ts = t + Distance(t, x) \/ x.ts = t - Distance(t, x)
BY DEF Datum, Distance

\* Of the places of a queue there is a first one whose datum is nearest.
LEMMA FirstNearestIs ==
  ASSUME NEW q \in Seq(Datum), NEW t \in Int, NEW I, I \subseteq DOMAIN q, I # {}
  PROVE  LET i == FirstNearest(q, t, I)
         IN  /\ i \in I
             /\ \A j \in I : /\ Distance(t, q[i]) <= Distance(t, q[j])
                             /\ j < i => Distance(t, q[i]) < Distance(t, q[j])
<1> DEFINE D(i) == Distance(t, q[i])
           Near(i) == \A j \in I : D(i) < D(j) \/ (D(i) = D(j) /\ i <= j)
<1>1. \A i \in I : i \in Nat /\ D(i) \in Nat
  <2> SUFFICES ASSUME NEW i \in I PROVE i \in Nat /\ D(i) \in Nat
    OBVIOUS
  <2>1. i \in Nat /\ q[i] \in Datum
    OBVIOUS
  <2> QED
    BY <2>1, DistanceIsNat
<1> HIDE DEF D
<1>2. \E d \in {D(i) : i \in I} : \A e \in {D(i) : i \in I} : d <= e
  <2>1. {D(i) : i \in I} \subseteq Nat /\ {D(i) : i \in I} # {}
    BY <1>1
  <2> QED
    BY <2>1, Smallest
<1>3. PICK m \in I : \A j \in I : D(m) <= D(j)
  BY <1>2
<1>4. \E i \in {j \in I : D(j) = D(m)} : \A k \in {j \in I : D(j) = D(m)} : i <= k
  <2>1. {j \in I : D(j) = D(m)} \subseteq Nat /\ {j \in I : D(j) = D(m)} # {}
    BY <1>1
  <2> QED
    BY <2>1, Smallest
<1>5. PICK i \in I : D(i) = D(m) /\ \A k \in I : D(k) = D(m) => i <= k
  BY <1>4
<1>6. Near(i)
  BY <1>1, <1>3, <1>5
<1>7. FirstNearest(q, t, I) = CHOOSE k \in I : Near(k)
  BY Zenon DEF FirstNearest, D
<1>8. FirstNearest(q, t, I) \in I /\ Near(FirstNearest(q, t, I))
  <2> HIDE DEF Near
  <2> QED
    BY <1>6, <1>7
<1>9. \A j \in I : /\ D(FirstNearest(q, t, I)) <= D(j)
                   /\ j < FirstNearest(q, t, I) => D(FirstNearest(q, t, I)) < D(j)
  <2> DEFINE f == FirstNearest(q, t, I)
  <2>1. f \in I /\ f \in Nat /\ D(f) \in Nat
    BY <1>1, <1>8
  <2> SUFFICES ASSUME NEW j \in I PROVE D(f) <= D(j) /\ (j < f => D(f) < D(j))
    OBVIOUS
  <2>2. D(f) < D(j) \/ (D(f) = D(j) /\ f <= j)
    BY <1>8
  <2>3. j \in Nat /\ D(j) \in Nat
    BY <1>1
  <2> HIDE DEF f
  <2> QED
    BY <2>1, <2>2, <2>3
<1> QED
  BY <1>8, <1>9 DEF D

\* Whatever the order of the stamps in the queue, no datum is nearer than the one
\* read, of those as near none is more recent, and none before it has its stamp.
LEMMA NearestIsNearest ==
  ASSUME NEW q \in Seq(Datum), q # <<>>, NEW t \in Int
  PROVE  LET x == GetNearest(q, t)
         IN  /\ \E i \in DOMAIN q : x = q[i] /\ \A j \in 1 .. i - 1 : q[j].ts # x.ts
             /\ \A i \in DOMAIN q : \/ Distance(t, x) < Distance(t, q[i])
                                    \/ Distance(t, x) = Distance(t, q[i]) /\ q[i].ts <= x.ts
<1> DEFINE i1     == FirstNearest(q, t, DOMAIN q)
           others == {i \in DOMAIN q : q[i].ts # q[i1].ts}
           i2     == FirstNearest(q, t, others)
           D(i)   == Distance(t, q[i])
           ts(i)  == q[i].ts
           Turns  == others # {} /\ D(i1) = D(i2) /\ ts(i1) < t
           Best(k) == \A i \in DOMAIN q : D(k) < D(i) \/ (D(k) = D(i) /\ ts(i) <= ts(k))
<1>1. i1 \in DOMAIN q /\ \A j \in DOMAIN q : D(i1) <= D(j) /\ (j < i1 => D(i1) < D(j))
  <2>1. DOMAIN q # {}
    <3>1. Len(q) \in Nat \ {0} /\ DOMAIN q = 1 .. Len(q)
      BY EmptySeq, LenProperties
    <3>2. 1 \in DOMAIN q
      BY <3>1
    <3> QED
      BY <3>2
  <2> QED
    BY <2>1, FirstNearestIs
<1>2. others # {} => i2 \in others /\ \A j \in others : D(i2) <= D(j) /\ (j < i2 => D(i2) < D(j))
  BY FirstNearestIs
<1>3. GetNearest(q, t) = IF Turns THEN q[i2] ELSE q[i1]
  BY DEF GetNearest
<1>4. \A i \in DOMAIN q : /\ ts(i) \in Int /\ D(i) \in Nat
                          /\ ts(i) = t + D(i) \/ ts(i) = t - D(i)
  <2> SUFFICES ASSUME NEW i \in DOMAIN q
               PROVE  /\ ts(i) \in Int /\ D(i) \in Nat
                      /\ ts(i) = t + D(i) \/ ts(i) = t - D(i)
    OBVIOUS
  <2>1. q[i] \in Datum
    OBVIOUS
  <2> QED
    BY <2>1, DistanceIsNat
<1>5. \A j \in others : j \in DOMAIN q /\ ts(j) # ts(i1)
  OBVIOUS
<1>6. \A j \in DOMAIN q : j \notin others => ts(j) = ts(i1)
  OBVIOUS
<1>9. \A i, j \in DOMAIN q : ts(i) = ts(j) => D(i) = D(j)
  BY DEF Distance
<1>10. \A i \in DOMAIN q : i \in Nat /\ 1 .. i - 1 \subseteq DOMAIN q
  OBVIOUS
<1> HIDE DEF i1, i2, others, D, ts
<1>7. CASE Turns
  <2>1. i2 \in DOMAIN q /\ Best(i2)
    <3>1. i1 \in DOMAIN q /\ \A j \in DOMAIN q : D(i1) <= D(j)
      BY <1>1
    <3>2. i2 \in others /\ \A j \in others : D(i2) <= D(j)
      BY <1>2, <1>7
    <3>3. i2 \in DOMAIN q /\ ts(i2) # ts(i1) /\ D(i1) = D(i2) /\ ts(i1) < t
      BY <1>5, <1>7, <3>2
    <3>4. ts(i1) = t - D(i1) /\ ts(i2) = t + D(i1) /\ D(i1) \in Nat /\ D(i2) \in Nat
      BY <1>4, <3>1, <3>3
    <3>5. ASSUME NEW i \in DOMAIN q PROVE D(i2) < D(i) \/ (D(i2) = D(i) /\ ts(i) <= ts(i2))
      <4>1. /\ ts(i) \in Int /\ D(i) \in Nat
            /\ ts(i) = t + D(i) \/ ts(i) = t - D(i)
        BY <1>4
      <4>2. D(i1) <= D(i)
        BY <3>1
      <4> QED
        BY <3>3, <3>4, <4>1, <4>2
    <3> QED
      BY <3>3, <3>5
  <2>2. ASSUME NEW j \in 1 .. i2 - 1 PROVE ts(j) # ts(i2)
    <3>1. j \in DOMAIN q /\ j < i2
      BY <1>10, <2>1
    <3>2. CASE j \in others
      <4>1. D(i2) < D(j) /\ D(i2) \in Nat /\ D(j) \in Nat
        BY <1>2, <1>4, <1>7, <2>1, <3>1, <3>2
      <4> QED
        BY <1>9, <2>1, <3>1, <4>1
    <3>3. CASE j \notin others
      BY <1>2, <1>5, <1>6, <1>7, <3>1, <3>3
    <3> QED
      BY <3>2, <3>3
  <2> QED
    BY <1>3, <1>7, <2>1, <2>2 DEF D, ts
<1>8. CASE ~Turns
  <2>1. Best(i1)
    <3>1. i1 \in DOMAIN q /\ \A j \in DOMAIN q : D(i1) <= D(j)
      BY <1>1
    <3>2. others # {} => i2 \in others /\ \A j \in others : D(i2) <= D(j)
      BY <1>2
    <3> QED
      BY <1>4, <1>5, <1>6, <1>8, <3>1, <3>2
  <2>2. ASSUME NEW j \in 1 .. i1 - 1 PROVE ts(j) # ts(i1)
    <3>1. j \in DOMAIN q /\ j < i1
      BY <1>1, <1>10
    <3>2. D(i1) < D(j) /\ D(i1) \in Nat /\ D(j) \in Nat
      BY <1>1, <1>4, <3>1
    <3> QED
      BY <1>1, <1>9, <3>1, <3>2
  <2> QED
    BY <1>1, <1>3, <1>8, <2>1, <2>2 DEF D, ts
<1> QED
  BY <1>7, <1>8

-----------------------------------------------------------------------------
(* A round *)

\* What a queue holds after a push: the new datum last, and before it what was there,
\* but the oldest if the queue was full.
LEMMA PushIs ==
  ASSUME NEW q \in Seq(Datum), NEW x \in Datum
  PROVE  /\ Push(q, x) \in Seq(Datum) /\ Push(q, x) # <<>>
         /\ Push(q, x)[Len(Push(q, x))] = x
         /\ \A i \in 1 .. Len(Push(q, x)) - 1 : \E j \in DOMAIN q : Push(q, x)[i] = q[j]
<1>1. CASE Len(q) < QueueLen
  BY <1>1, AppendProperties DEF Push
<1>2. CASE ~ (Len(q) < QueueLen)
  <2>1. q # <<>>
    BY <1>2, FeedAssumption
  <2>2. /\ Tail(q) \in Seq(Datum) /\ Len(Tail(q)) = Len(q) - 1
        /\ \A i \in 1 .. Len(Tail(q)) : Tail(q)[i] = q[i + 1]
    BY <2>1, HeadTailProperties
  <2>3. Push(q, x) = Append(Tail(q), x)
    BY <1>2 DEF Push
  <2> HIDE DEF Push
  <2>4. /\ Push(q, x) \in Seq(Datum) /\ Push(q, x) # <<>>
        /\ Len(Push(q, x)) = Len(q) /\ Push(q, x)[Len(q)] = x
        /\ \A i \in 1 .. Len(q) - 1 : Push(q, x)[i] = Tail(q)[i]
    BY <2>1, <2>2, <2>3, AppendProperties
  <2>5. \A i \in 1 .. Len(q) - 1 : Push(q, x)[i] = q[i + 1] /\ i + 1 \in DOMAIN q
    BY <2>2, <2>4
  <2> QED
    BY <2>4, <2>5
<1> QED
  BY <1>1, <1>2

\* A push makes a queue longer by one, up to its length.
LEMMA PushLength ==
  ASSUME NEW q \in Seq(Datum), NEW x \in Datum, Len(q) <= QueueLen
  PROVE  /\ Len(Push(q, x)) <= QueueLen
         /\ Len(q) < QueueLen => /\ Len(Push(q, x)) = Len(q) + 1
                                 /\ \A i \in 1 .. Len(q) : Push(q, x)[i] = q[i]
         /\ ~(Len(q) < QueueLen) => /\ Len(Push(q, x)) = Len(q) /\ q # <<>>
                                    /\ \A i \in 1 .. Len(q) - 1 : Push(q, x)[i] = q[i + 1]
<1>1. CASE Len(q) < QueueLen
  <2>1. Push(q, x) = Append(q, x)
    BY <1>1 DEF Push
  <2> QED
    BY <1>1, <2>1, FeedAssumption
<1>2. CASE ~ (Len(q) < QueueLen)
  <2>1. q # <<>>
    BY <1>2, FeedAssumption
  <2>2. /\ Tail(q) \in Seq(Datum) /\ Len(Tail(q)) = Len(q) - 1
        /\ \A i \in 1 .. Len(Tail(q)) : Tail(q)[i] = q[i + 1]
    BY <2>1, HeadTailProperties
  <2>3. Push(q, x) = Append(Tail(q), x)
    BY <1>2 DEF Push
  <2> HIDE DEF Push
  <2>4. Len(Push(q, x)) = Len(q) /\ \A i \in 1 .. Len(q) - 1 : Push(q, x)[i] = Tail(q)[i]
    BY <2>1, <2>2, <2>3, AppendProperties
  <2> QED
    BY <1>2, <2>1, <2>2, <2>4
<1> QED
  BY <1>1, <1>2

\* What a round puts in a queue is a datum, and one without a price has the time of
\* the round.
LEMMA AnswerIsDatum ==
  ASSUME NEW e \in Engine, now \in Nat, NEW a \in Answers(e)
  PROVE  /\ a.ts \in Int /\ \E d \in Skew[e] : a.ts = now + d
         /\ GetPrice(a) \in Datum
         /\ TooOld(a) => GetPrice(a) = [price |-> NaN, ts |-> now]
         /\ ~TooOld(a) => GetPrice(a).ts = a.ts
<1>1. a.price \in Nat
  BY FeedAssumption DEF Answers
<1>2. PICK d \in Skew[e] : a.ts = now + d
  BY DEF Answers, Stamps
<1>3. d \in Int
  BY FeedAssumption
<1> QED
  BY <1>1, <1>2, <1>3 DEF GetPrice, Datum

\* What a step does to one exchange: its answer, if any, enters its queue.
LEMMA RoundStep ==
  ASSUME QueuesTypeOK, [FeedNext]_feedVars, NEW e \in Engine
  PROVE  \/ /\ now' \in {now, now + 1} /\ queues'[e] = queues[e]
            /\ e \in stalled' <=> e \in stalled
         \/ /\ now' = now + 1
            /\ \E a \in Answers(e) : /\ queues'[e] = Push(queues[e], GetPrice(a))
                                     /\ e \in stalled' <=> TooOld(a)
<1>1. CASE UNCHANGED feedVars
  BY <1>1 DEF feedVars, QueuesTypeOK
<1>2. CASE Quote
  BY <1>2 DEF Quote, QueuesTypeOK
<1>3. ASSUME NEW answers, answers[e] \in Fetched(e), Round(answers)
      PROVE  \/ /\ now' \in {now, now + 1} /\ queues'[e] = queues[e]
                /\ e \in stalled' <=> e \in stalled
             \/ /\ now' = now + 1
                /\ \E a \in Answers(e) : /\ queues'[e] = Push(queues[e], GetPrice(a))
                                         /\ e \in stalled' <=> TooOld(a)
  <2>1. CASE answers[e] = <<>>
    BY <1>3, <2>1 DEF Round
  <2>2. CASE answers[e] # <<>>
    <3>1. PICK a \in Answers(e) : answers[e] = <<a>>
      BY <1>3, <2>2 DEF Fetched
    <3>2. answers[e][1] = a
      BY <3>1
    <3>3. queues'[e] = Push(queues[e], GetPrice(a)) /\ now' = now + 1
      BY <1>3, <2>2, <3>2 DEF Round
    <3>4. e \in stalled' <=> TooOld(a)
      BY <1>3, <2>2, <3>2 DEF Round
    <3> QED
      BY <3>3, <3>4
  <2> QED
    BY <2>1, <2>2
<1> QED
  BY <1>1, <1>2, <1>3 DEF FeedNext

-----------------------------------------------------------------------------
\* Whatever the exchanges answer, the queues hold data and the rounds go on.
THEOREM QueuesTyped == FeedSpec => []QueuesTypeOK
<1>1. FeedInit => QueuesTypeOK
  BY DEF FeedInit, QueuesTypeOK
<1>2. ASSUME QueuesTypeOK, [FeedNext]_feedVars PROVE QueuesTypeOK'
  <2>1. now' \in Nat
    <3>1. now' = now \/ now' = now + 1
      <4>1. CASE UNCHANGED feedVars \/ Quote
        BY <4>1 DEF Quote, feedVars
      <4>2. ASSUME NEW answers, Round(answers) PROVE now' = now + 1
        BY <4>2 DEF Round
      <4> QED
        BY <1>2, <4>1, <4>2 DEF FeedNext
    <3> QED
      BY <1>2, <3>1 DEF QueuesTypeOK
  <2>2. ASSUME NEW e \in Engine PROVE queues'[e] \in Seq(Datum)
    <3>1. queues[e] \in Seq(Datum) /\ now \in Nat
      BY <1>2 DEF QueuesTypeOK
    <3>2. ASSUME NEW a \in Answers(e) PROVE Push(queues[e], GetPrice(a)) \in Seq(Datum)
      BY <3>1, AnswerIsDatum, PushIs
    <3> QED
      BY <1>2, <3>1, <3>2, RoundStep
  <2>3. /\ queues' = [e \in Engine |-> queues'[e]]
        /\ stalled' \subseteq Engine
    <3>1. CASE UNCHANGED feedVars \/ Quote
      BY <1>2, <3>1 DEF Quote, feedVars, QueuesTypeOK
    <3>2. ASSUME NEW answers, Round(answers)
          PROVE  queues' = [e \in Engine |-> queues'[e]] /\ stalled' \subseteq Engine
      BY <3>2 DEF Round
    <3> QED
      BY <1>2, <3>1, <3>2 DEF FeedNext
  <2> QED
    BY <2>1, <2>2, <2>3 DEF QueuesTypeOK
<1> QED
  BY <1>1, <1>2, PTL DEF FeedSpec

\* Every queue that can be, read for any moment, gives the nearest datum and of
\* several the most recent (get_nearest_data).
THEOREM Nearest == FeedSpec => []NearestAndMostRecent
<1>1. ASSUME QueuesTypeOK PROVE NearestAndMostRecent
  <2> SUFFICES ASSUME NEW e \in Engine, NEW t \in Time, queues[e] # <<>>,
                      NEW y \in Range(queues[e])
               PROVE  LET x == GetNearest(queues[e], t)
                      IN  \/ Distance(t, x) < Distance(t, y)
                          \/ Distance(t, x) = Distance(t, y) /\ y.ts <= x.ts
    BY DEF NearestAndMostRecent
  <2>1. queues[e] \in Seq(Datum) /\ t \in Nat
    BY <1>1, FeedAssumption DEF QueuesTypeOK, Time
  <2>2. PICK i \in DOMAIN queues[e] : y = queues[e][i]
    BY DEF Range
  <2> QED
    BY <2>1, <2>2, NearestIsNearest, SMTT(30)
<1> QED
  BY <1>1, QueuesTyped, PTL

-----------------------------------------------------------------------------
(* The weighted median *)

\* Of finitely many things in a total order there is a least one in any set.
LEMMA Least ==
  ASSUME NEW S, IsFiniteSet(S), NEW R,
         \A x, y \in S : <<x, y>> \in R \/ <<y, x>> \in R,
         \A x, y, z \in S : <<x, y>> \in R /\ <<y, z>> \in R => <<x, z>> \in R,
         NEW T, T \subseteq S, T # {}
  PROVE  \E x \in T : \A y \in T : <<x, y>> \in R
<1> DEFINE Down(x) == {z \in S : <<z, x>> \in R}
           rank(x) == Cardinality(Down(x))
<1>1. \A x \in S : Down(x) \in SUBSET S /\ IsFiniteSet(Down(x)) /\ rank(x) \in Nat
  <2> SUFFICES ASSUME NEW x \in S
               PROVE  Down(x) \in SUBSET S /\ IsFiniteSet(Down(x)) /\ rank(x) \in Nat
    OBVIOUS
  <2>1. Down(x) \in SUBSET S
    OBVIOUS
  <2> HIDE DEF Down
  <2>2. IsFiniteSet(Down(x))
    BY <2>1, FS_Subset
  <2> QED
    BY <2>1, <2>2, FS_CardinalityType
<1>2. PICK r \in {rank(x) : x \in T} : \A s \in {rank(x) : x \in T} : r <= s
  <2> HIDE DEF rank
  <2>1. {rank(x) : x \in T} \subseteq Nat /\ {rank(x) : x \in T} # {}
    BY <1>1
  <2> QED
    BY <2>1, Smallest
<1>3. PICK x \in T : rank(x) = r
  BY <1>2
<1>4. ASSUME NEW y \in T, <<x, y>> \notin R
      PROVE  FALSE
  <2>1. <<y, x>> \in R /\ x \in S /\ y \in S
    BY <1>4
  <2>2. Down(y) \subseteq Down(x) /\ x \in Down(x) /\ x \notin Down(y)
    BY <1>4, <2>1
  <2>3. Down(y) \in SUBSET Down(x) /\ Down(y) # Down(x)
    BY <2>2
  <2>4. rank(x) <= rank(y) /\ rank(x) \in Nat /\ rank(y) \in Nat /\ IsFiniteSet(Down(x))
    <3> HIDE DEF Down
    <3>1. \A s \in {rank(z) : z \in T} : rank(x) <= s
      BY <1>2, <1>3, Zenon
    <3> HIDE DEF rank
    <3> QED
      BY <1>1, <1>4, <2>1, <3>1
  <2> HIDE DEF Down
  <2>5. rank(y) <= rank(x) /\ (rank(x) = rank(y) => Down(x) = Down(y))
    BY <2>3, <2>4, FS_Subset
  <2> QED
    BY <2>3, <2>4, <2>5
<1> QED
  BY <1>4

\* Data of which each is of another exchange, and has a price.
OneEach(S) ==
  /\ IsFiniteSet(S)
  /\ \A x \in S : x.engine \in Engine /\ x.price \in Nat
  /\ \A x, y \in S : x.engine = y.engine => x = y

\* The votes of some data.
Votes(T) == UNION {{x.engine} \X (1 .. Weight[x.engine]) : x \in T}

\* The weights are positive numbers.
LEMMA Weights == \A e \in Engine : Weight[e] \in Nat \ {0}
BY FeedAssumption DEF Engine

\* Who votes.
LEMMA VotesAre ==
  ASSUME NEW S, OneEach(S), NEW T \in SUBSET S, NEW e, NEW w
  PROVE  <<e, w>> \in Votes(T) <=> \E x \in T : e = x.engine /\ w \in 1 .. Weight[e]
BY DEF Votes

\* Finitely many.
LEMMA VotesFinite ==
  ASSUME NEW S, OneEach(S), NEW T \in SUBSET S
  PROVE  IsFiniteSet(Votes(T)) /\ WeightOf(T) = Cardinality(Votes(T)) /\ WeightOf(T) \in Nat
<1> DEFINE B(x) == {x.engine} \X (1 .. Weight[x.engine])
           f == [x \in T |-> B(x)]
           Bs == {B(x) : x \in T}
<1>1. IsFiniteSet(T)
  BY FS_Subset DEF OneEach
<1>2. f \in Surjection(T, Bs)
  BY DEF Surjection
<1>3. IsFiniteSet(Bs)
  <2> HIDE DEF f, Bs
  <2> QED
    BY <1>1, <1>2, FS_Surjection
<1>4. ASSUME NEW x \in T PROVE IsFiniteSet(B(x))
  <2>1. Weight[x.engine] \in Nat
    BY Weights DEF OneEach
  <2>2. IsFiniteSet(1 .. Weight[x.engine])
    <3> DEFINE w == Weight[x.engine]
    <3>1. w \in Int
      BY <2>1
    <3> HIDE DEF w
    <3>2. IsFiniteSet(1 .. w)
      BY <3>1, FS_Interval
    <3> QED
      BY <3>2 DEF w
  <2>3. IsFiniteSet({x.engine})
    BY FS_Singleton
  <2> QED
    BY <2>2, <2>3, FS_Product
<1>5. \A b \in Bs : IsFiniteSet(b)
  BY <1>4
<1>6. IsFiniteSet(UNION Bs)
  <2> HIDE DEF Bs
  <2> QED
    BY <1>3, <1>5, FS_UNION
<1>7. Votes(T) = UNION Bs
  BY DEF Votes
<1>8. WeightOf(T) = Cardinality(Votes(T))
  BY DEF WeightOf, Votes
<1> QED
  BY <1>6, <1>7, <1>8, FS_CardinalityType

\* More data have no less weight; data of which none is in both add up; and some have
\* a weight.
LEMMA WeightsAdd ==
  ASSUME NEW S, OneEach(S), NEW T \in SUBSET S, NEW U \in SUBSET S
  PROVE  /\ T \subseteq U => WeightOf(T) <= WeightOf(U)
         /\ T \cap U = {} => WeightOf(T \cup U) = WeightOf(T) + WeightOf(U)
         /\ T # {} => WeightOf(T) > 0
         /\ T = {} => WeightOf(T) = 0
<1>1. /\ IsFiniteSet(Votes(T)) /\ WeightOf(T) = Cardinality(Votes(T))
      /\ IsFiniteSet(Votes(U)) /\ WeightOf(U) = Cardinality(Votes(U))
      /\ WeightOf(T) \in Nat /\ WeightOf(U) \in Nat
  BY VotesFinite
<1>2. T \subseteq U => WeightOf(T) <= WeightOf(U)
  <2> SUFFICES ASSUME T \subseteq U PROVE WeightOf(T) <= WeightOf(U)
    OBVIOUS
  <2>1. Votes(T) \in SUBSET Votes(U)
    BY DEF Votes
  <2> QED
    BY <1>1, <2>1, FS_Subset
<1>3. T \cap U = {} => WeightOf(T \cup U) = WeightOf(T) + WeightOf(U)
  <2> SUFFICES ASSUME T \cap U = {} PROVE WeightOf(T \cup U) = WeightOf(T) + WeightOf(U)
    OBVIOUS
  <2>1. WeightOf(T \cup U) = Cardinality(Votes(T \cup U))
    BY VotesFinite
  <2>2. Votes(T \cup U) = Votes(T) \cup Votes(U)
    BY DEF Votes
  <2>3. Votes(T) \cap Votes(U) = {}
    <3> SUFFICES ASSUME NEW v \in Votes(T), v \in Votes(U) PROVE FALSE
      OBVIOUS
    <3>1. PICK x \in T : v \in {x.engine} \X (1 .. Weight[x.engine])
      BY DEF Votes
    <3>2. PICK y \in U : v \in {y.engine} \X (1 .. Weight[y.engine])
      BY DEF Votes
    <3>3. x.engine = y.engine
      BY <3>1, <3>2
    <3> QED
      BY <3>3 DEF OneEach
  <2>4. Cardinality(Votes(T) \cap Votes(U)) = 0
    BY <2>3, FS_EmptySet
  <2>5. Cardinality(Votes(T) \cup Votes(U)) =
          Cardinality(Votes(T)) + Cardinality(Votes(U)) - Cardinality(Votes(T) \cap Votes(U))
    BY <1>1, FS_Union
  <2>6. WeightOf(T \cup U) = WeightOf(T) + WeightOf(U) - 0
    BY <1>1, <2>1, <2>2, <2>4, <2>5, Zenon
  <2>7. WeightOf(T) + WeightOf(U) - 0 = WeightOf(T) + WeightOf(U)
    BY <1>1
  <2> QED
    BY <2>6, <2>7, Zenon
<1>4. T # {} => WeightOf(T) > 0
  <2> SUFFICES ASSUME NEW x \in T PROVE WeightOf(T) > 0
    OBVIOUS
  <2>1. Weight[x.engine] \in Nat \ {0}
    BY Weights DEF OneEach
  <2>2. <<x.engine, 1>> \in Votes(T)
    BY <2>1 DEF Votes
  <2> QED
    BY <1>1, <2>2, FS_EmptySet
<1>5. T = {} => WeightOf(T) = 0
  <2> SUFFICES ASSUME T = {} PROVE WeightOf(T) = 0
    OBVIOUS
  <2>1. Votes(T) = {}
    BY DEF Votes
  <2> QED
    BY <1>1, <2>1, FS_EmptySet
<1> QED
  BY <1>2, <1>3, <1>4, <1>5

\* The sorted tuples are in a total order.
LEMMA SortedIsTotal ==
  ASSUME NEW S, OneEach(S)
  PROVE  /\ \A x, y \in S : Sorted(x, y) \/ Sorted(y, x)
         /\ \A x, y, z \in S : Sorted(x, y) /\ Sorted(y, z) => Sorted(x, z)
         /\ \A x, y \in S : Sorted(x, y) => x.price <= y.price
<1>1. \A x \in S : x.price \in Nat /\ x.engine \in Nat /\ Weight[x.engine] \in Nat
  <2>1. Engine \subseteq Nat
    BY FeedAssumption DEF Engine
  <2> QED
    BY <2>1, Weights DEF OneEach
<1> QED
  BY <1>1 DEF Sorted

\* There is a first and a last one of any of them.
LEMMA SortedEnds ==
  ASSUME NEW S, OneEach(S), NEW T, T \subseteq S, T # {}
  PROVE  /\ \E x \in T : \A y \in T : Sorted(x, y)
         /\ \E x \in T : \A y \in T : Sorted(y, x)
<1> DEFINE R == {p \in S \X S : Sorted(p[1], p[2])}
           Q == {p \in S \X S : Sorted(p[2], p[1])}
<1>1. \A x, y \in S : (<<x, y>> \in R <=> Sorted(x, y)) /\ (<<x, y>> \in Q <=> Sorted(y, x))
  OBVIOUS
<1> HIDE DEF R, Q
<1>2. \E x \in T : \A y \in T : <<x, y>> \in R
  <2>1. /\ \A x, y \in S : <<x, y>> \in R \/ <<y, x>> \in R
        /\ \A x, y, z \in S : <<x, y>> \in R /\ <<y, z>> \in R => <<x, z>> \in R
    BY <1>1, SortedIsTotal
  <2> QED
    BY <2>1, Least DEF OneEach
<1>3. \E x \in T : \A y \in T : <<x, y>> \in Q
  <2>1. /\ \A x, y \in S : <<x, y>> \in Q \/ <<y, x>> \in Q
        /\ \A x, y, z \in S : <<x, y>> \in Q /\ <<y, z>> \in Q => <<x, z>> \in Q
    BY <1>1, SortedIsTotal
  <2> QED
    BY <2>1, Least DEF OneEach
<1> QED
  BY <1>1, <1>2, <1>3

\* The walk over the sorted data stops, at the first one at which the weights reach
\* a half.
LEMMA MedianIs ==
  ASSUME NEW S, OneEach(S), S # {}
  PROVE  LET UpTo(x) == WeightOf({y \in S : Sorted(y, x)})
             m == Median(S)
         IN  /\ m \in S
             /\ 2 * UpTo(m) >= WeightOf(S)
             /\ \A y \in S : 2 * UpTo(y) >= WeightOf(S) => Sorted(m, y)
<1> DEFINE UpTo(x) == WeightOf({y \in S : Sorted(y, x)})
           H == {x \in S : 2 * UpTo(x) >= WeightOf(S)}
<1>1. PICK g \in S : \A y \in S : Sorted(y, g)
  BY SortedEnds
<1>2. g \in H
  <2>1. {y \in S : Sorted(y, g)} = S
    BY <1>1
  <2>2. UpTo(g) = WeightOf(S) /\ WeightOf(S) \in Nat
    BY <2>1, VotesFinite
  <2> QED
    BY <2>2
<1>3. PICK m \in H : \A y \in H : Sorted(m, y)
  <2>1. H \subseteq S /\ H # {}
    BY <1>2
  <2> HIDE DEF H
  <2> QED
    BY <2>1, SortedEnds
<1>4. Median(S) = CHOOSE x \in S : /\ 2 * UpTo(x) >= WeightOf(S)
                                   /\ \A y \in S : 2 * UpTo(y) >= WeightOf(S) => Sorted(x, y)
  BY DEF Median
<1> HIDE DEF UpTo
<1>5. /\ Median(S) \in S
      /\ 2 * UpTo(Median(S)) >= WeightOf(S)
      /\ \A y \in S : 2 * UpTo(y) >= WeightOf(S) => Sorted(Median(S), y)
  BY <1>3, <1>4
<1> QED
  BY <1>5 DEF UpTo

\* Neither the data below the median nor those above it hold more than a half.
LEMMA MedianSplits ==
  ASSUME NEW S, OneEach(S), S # {}
  PROVE  LET price == Median(S).price
         IN  /\ 2 * WeightOf({x \in S : x.price < price}) < WeightOf(S)
             /\ 2 * WeightOf({x \in S : x.price > price}) <= WeightOf(S)
<1> DEFINE UpTo(x) == WeightOf({y \in S : Sorted(y, x)})
           m == Median(S)
           L == {x \in S : x.price < m.price}
           G == {x \in S : x.price > m.price}
           D == {y \in S : Sorted(y, m)}
<1>1. /\ m \in S
      /\ 2 * UpTo(m) >= WeightOf(S)
      /\ \A y \in S : 2 * UpTo(y) >= WeightOf(S) => Sorted(m, y)
  BY MedianIs
<1>2. \A x \in S : x.price \in Nat
  BY DEF OneEach
<1> HIDE DEF m
<1>3. WeightOf(S) \in Nat /\ WeightOf(S) > 0 /\ \A T \in SUBSET S : WeightOf(T) \in Nat
  BY VotesFinite, WeightsAdd
<1>4. 2 * WeightOf(L) < WeightOf(S)
  <2>1. CASE L = {}
    <3>1. WeightOf(L) = 0
      BY <2>1, WeightsAdd
    <3> QED
      BY <1>3, <3>1
  <2>2. CASE L # {}
    <3>1. PICK g \in L : \A y \in L : Sorted(y, g)
      <4>1. L \subseteq S
        OBVIOUS
      <4> HIDE DEF L
      <4> QED
        BY <2>2, <4>1, SortedEnds
    <3>2. {y \in S : Sorted(y, g)} = L
      BY <1>1, <1>2, <3>1, SortedIsTotal
    <3>3. ~ Sorted(m, g)
      BY <1>1, <1>2, <3>1, SortedIsTotal
    <3>4. UpTo(g) = WeightOf(L) /\ ~(2 * UpTo(g) >= WeightOf(S))
      BY <1>1, <3>1, <3>2, <3>3
    <3>5. WeightOf(L) \in Nat
      BY <1>3
    <3> QED
      BY <1>3, <3>4, <3>5
  <2> QED
    BY <2>1, <2>2
<1>5. 2 * WeightOf(G) <= WeightOf(S)
  <2>1. D \cap G = {} /\ D \in SUBSET S /\ G \in SUBSET S /\ D \cup G \in SUBSET S
    BY <1>1, <1>2, SortedIsTotal
  <2>2. 2 * WeightOf(D) >= WeightOf(S)
    BY <1>1
  <2> HIDE DEF D, G
  <2>3. WeightOf(D \cup G) = WeightOf(D) + WeightOf(G) /\ WeightOf(D \cup G) <= WeightOf(S)
    BY <2>1, WeightsAdd
  <2>4. WeightOf(D) \in Nat /\ WeightOf(G) \in Nat /\ WeightOf(D \cup G) \in Nat
    BY <1>3, <2>1
  <2> QED
    BY <1>3, <2>2, <2>3, <2>4
<1> QED
  BY <1>4, <1>5 DEF m

\* The data read for a moment are of one exchange each, available, and what is read
\* from its queue.
LEMMA UsablesAre ==
  ASSUME QueuesTypeOK, NEW t \in Int, NEW max
  PROVE  /\ OneEach(Usables(t, max))
         /\ \A x \in Usables(t, max) :
              LET y == GetNearest(queues[x.engine], t)
              IN  /\ x \in [engine : Engine, price : Nat, ts : Int]
                  /\ Usable(x.engine, t, max)
                  /\ x.price = y.price /\ x.ts = y.ts
<1> DEFINE F(e) == LET y == GetNearest(queues[e], t) IN [engine |-> e, price |-> y.price, ts |-> y.ts]
           Es == {e \in Engine : Usable(e, t, max)}
           f == [e \in Es |-> F(e)]
           S == Usables(t, max)
<1>1. S = {F(e) : e \in Es}
  BY DEF Usables
<1>2. ASSUME NEW e \in Es
      PROVE  F(e) \in [engine : Engine, price : Nat, ts : Int] /\ F(e).engine = e
  <2>1. queues[e] \in Seq(Datum) /\ queues[e] # <<>> /\ GetNearest(queues[e], t).price # NaN
    BY DEF QueuesTypeOK, Usable
  <2>2. GetNearest(queues[e], t) \in Datum
    BY <2>1, NearestIsNearest
  <2> QED
    BY <2>1, <2>2 DEF Datum
<1>3. IsFiniteSet(S)
  <2>1. IsFiniteSet(Engine)
    <3>1. Engine = 1 .. Len(Weight) /\ Len(Weight) \in Int
      BY FeedAssumption DEF Engine
    <3> QED
      BY <3>1, FS_Interval
  <2>2. Es \in SUBSET Engine
    OBVIOUS
  <2>3. IsFiniteSet(Es)
    BY <2>1, <2>2, FS_Subset
  <2>4. f \in Surjection(Es, S)
    BY <1>1 DEF Surjection
  <2> HIDE DEF f, Es, S
  <2> QED
    BY <2>3, <2>4, FS_Surjection
<1>4. \A x \in S : \E e \in Es : x = F(e)
  BY <1>1
<1> HIDE DEF S
<1>5. ASSUME NEW x \in S
      PROVE  LET y == GetNearest(queues[x.engine], t)
             IN  /\ x \in [engine : Engine, price : Nat, ts : Int]
                 /\ Usable(x.engine, t, max)
                 /\ x.price = y.price /\ x.ts = y.ts
  BY <1>2, <1>4
<1>6. \A x, y \in S : x.engine = y.engine => x = y
  BY <1>2, <1>4
<1> QED
  BY <1>3, <1>5, <1>6 DEF OneEach, S

\* The median of the data that count now is a datum that counts now.
LEMMA QuotedIs ==
  ASSUME QueuesTypeOK, Quote
  PROVE  /\ quote' = [at |-> now, datum |-> Median(Usables(now, PublishMaxDiff))]
         /\ Median(Usables(now, PublishMaxDiff)) \in Usables(now, PublishMaxDiff)
<1>1. now \in Int
  BY DEF QueuesTypeOK
<1> QED
  BY <1>1, UsablesAre, MedianIs DEF Quote

\* What a step does to the price followed.
LEMMA QuoteStep ==
  ASSUME QueuesTypeOK, [FeedNext]_feedVars
  PROVE  \/ UNCHANGED feedVars
         \/ Quote /\ quote = NoQuote /\ UNCHANGED <<now, queues>>
         \/ now < MaxTime /\ now' = now + 1 /\ UNCHANGED quote
BY DEF FeedNext, Quote, Round

\* The queues hold data, no more than their length, and what is read for publication is
\* a price of an exchange.
THEOREM FeedTypeCorrect == FeedSpec => []FeedTypeOK
<1>1. FeedInit => FeedTypeOK
  BY FeedAssumption DEF FeedInit, FeedTypeOK, Time
<1>2. ASSUME QueuesTypeOK, QueuesTypeOK', FeedTypeOK, [FeedNext]_feedVars PROVE FeedTypeOK'
  <2>1. now' \in Time
    BY <1>2, QuoteStep, FeedAssumption DEF FeedTypeOK, Time, feedVars
  <2>2. ASSUME NEW e \in Engine PROVE Len(queues'[e]) <= QueueLen
    <3>1. queues[e] \in Seq(Datum) /\ now \in Nat /\ Len(queues[e]) <= QueueLen
      BY <1>2 DEF FeedTypeOK, QueuesTypeOK
    <3>2. ASSUME NEW a \in Answers(e) PROVE Len(Push(queues[e], GetPrice(a))) <= QueueLen
      <4>1. GetPrice(a) \in Datum
        BY <3>1, AnswerIsDatum
      <4> HIDE DEF Datum
      <4> QED
        BY <3>1, <4>1, PushLength
    <3> QED
      BY <1>2, <3>1, <3>2, RoundStep
  <2>3. quote' \in {NoQuote} \cup [at : Time, datum : [engine : Engine, price : Nat, ts : Int]]
    <3>1. CASE Quote
      <4>1. now \in Int /\ now \in Time
        BY <1>2 DEF QueuesTypeOK, FeedTypeOK
      <4>2. Median(Usables(now, PublishMaxDiff)) \in [engine : Engine, price : Nat, ts : Int]
        BY <1>2, <3>1, <4>1, QuotedIs, UsablesAre
      <4> QED
        BY <1>2, <3>1, <4>1, <4>2, QuotedIs
    <3>2. CASE UNCHANGED quote
      BY <1>2, <3>2 DEF FeedTypeOK
    <3> QED
      BY <1>2, <3>1, <3>2, QuoteStep DEF feedVars
  <2> QED
    BY <1>2, <2>1, <2>2, <2>3 DEF FeedTypeOK, QueuesTypeOK
<1> QED
  BY <1>1, <1>2, QueuesTyped, PTL DEF FeedSpec

\* Neither the exchanges that show less than the price read nor those that show more
\* hold more than a half of the weight of those that count (weighted_median_idx).
THEOREM MedianSplitsAlways == FeedSpec => []MedianSplitsTheWeight
<1>1. ASSUME QueuesTypeOK PROVE MedianSplitsTheWeight
  <2> DEFINE S == Usables(now, PublishMaxDiff)
  <2> SUFFICES ASSUME S # {}
               PROVE  LET price == Median(S).price
                      IN  /\ 2 * WeightOf({x \in S : x.price < price}) < WeightOf(S)
                          /\ 2 * WeightOf({x \in S : x.price > price}) <= WeightOf(S)
    BY DEF MedianSplitsTheWeight
  <2>1. now \in Int
    BY <1>1 DEF QueuesTypeOK
  <2>2. OneEach(S)
    BY <1>1, <2>1, UsablesAre
  <2> HIDE DEF S
  <2> QED
    BY <2>2, MedianSplits
<1> QED
  BY <1>1, QueuesTyped, PTL

-----------------------------------------------------------------------------
(* Exchanges that stall *)

\* The stamps of exchange e are never ahead of the node's clock.
Honest(e) == \A d \in Skew[e] : d <= 0

\* Data have stamps before the round to come, and while an exchange is stalled its
\* last datum has no price and is later than all the others.
StalledInv ==
  \A e \in Engine : Honest(e) =>
    /\ \A i \in DOMAIN queues[e] : queues[e][i].ts < now
    /\ e \in stalled =>
         /\ queues[e] # <<>> /\ queues[e][Len(queues[e])].price = NaN
         /\ \A i \in 1 .. Len(queues[e]) - 1 : queues[e][i].ts < queues[e][Len(queues[e])].ts

\* A datum without a price enters a queue after, and later than, all that is in it.
LEMMA StalledInvariant == FeedSpec => []StalledInv
<1>1. FeedInit => StalledInv
  BY DEF FeedInit, StalledInv
<1>2. ASSUME QueuesTypeOK, QueuesTypeOK', StalledInv, [FeedNext]_feedVars PROVE StalledInv'
  <2> SUFFICES ASSUME NEW e \in Engine, Honest(e)
               PROVE  /\ \A i \in DOMAIN queues'[e] : queues'[e][i].ts < now'
                      /\ e \in stalled' =>
                           /\ queues'[e] # <<>> /\ queues'[e][Len(queues'[e])].price = NaN
                           /\ \A i \in 1 .. Len(queues'[e]) - 1 :
                                queues'[e][i].ts < queues'[e][Len(queues'[e])].ts
    BY DEF StalledInv, Honest
  <2> DEFINE q == queues[e]
             r == queues'[e]
  <2>1. q \in Seq(Datum) /\ r \in Seq(Datum) /\ now \in Nat /\ now' \in Nat
    BY <1>2 DEF QueuesTypeOK
  <2>2. /\ \A i \in DOMAIN q : q[i].ts < now
        /\ e \in stalled => /\ q # <<>> /\ q[Len(q)].price = NaN
                             /\ \A i \in 1 .. Len(q) - 1 : q[i].ts < q[Len(q)].ts
    BY <1>2 DEF StalledInv
  <2>3. \/ now' \in {now, now + 1} /\ r = q /\ (e \in stalled' <=> e \in stalled)
        \/ /\ now' = now + 1
           /\ \E a \in Answers(e) : r = Push(q, GetPrice(a)) /\ (e \in stalled' <=> TooOld(a))
    BY <1>2, RoundStep
  <2> HIDE DEF q, r
  <2>4. \A i \in DOMAIN q : q[i].ts \in Int
    BY <2>1, InQueue
  <2>5. ASSUME now' \in {now, now + 1}, r = q, e \in stalled' <=> e \in stalled
        PROVE  /\ \A i \in DOMAIN r : r[i].ts < now'
               /\ e \in stalled' => /\ r # <<>> /\ r[Len(r)].price = NaN
                                    /\ \A i \in 1 .. Len(r) - 1 : r[i].ts < r[Len(r)].ts
    <3>1. ASSUME NEW i \in DOMAIN q PROVE q[i].ts < now'
      <4>1. q[i].ts \in Int /\ q[i].ts < now
        BY <2>2, <2>4
      <4> QED
        BY <2>1, <2>5, <4>1
    <3> QED
      BY <2>2, <2>5, <3>1
  <2>6. ASSUME NEW a \in Answers(e), now' = now + 1, r = Push(q, GetPrice(a)),
               e \in stalled' <=> TooOld(a)
        PROVE  /\ \A i \in DOMAIN r : r[i].ts < now'
               /\ e \in stalled' => /\ r # <<>> /\ r[Len(r)].price = NaN
                                    /\ \A i \in 1 .. Len(r) - 1 : r[i].ts < r[Len(r)].ts
    <3> DEFINE x == GetPrice(a)
    <3>1. /\ x \in Datum /\ x.ts \in Int /\ x.ts <= now
          /\ TooOld(a) => x.price = NaN /\ x.ts = now
      <4>1. PICK d \in Skew[e] : a.ts = now + d
        BY <2>1, AnswerIsDatum
      <4>2. d \in Int /\ d <= 0
        BY FeedAssumption DEF Honest
      <4> QED
        BY <2>1, <4>1, <4>2, AnswerIsDatum
    <3> HIDE DEF x
    <3>2. /\ r # <<>> /\ r[Len(r)] = x
          /\ \A i \in 1 .. Len(r) - 1 : \E j \in DOMAIN q : r[i] = q[j]
      <4>1. r = Push(q, x)
        BY <2>6 DEF x
      <4> QED
        BY <2>1, <3>1, <4>1, PushIs
    <3>3. \A i \in 1 .. Len(r) - 1 : r[i].ts < now
      BY <2>2, <3>2
    <3>4. \A i \in DOMAIN r : i \in 1 .. Len(r) - 1 \/ i = Len(r)
      BY <2>1
    <3>5. \A i \in DOMAIN r : r[i].ts < now + 1
      <4> SUFFICES ASSUME NEW i \in DOMAIN r PROVE r[i].ts < now + 1
        OBVIOUS
      <4>1. r[i].ts \in Int
        BY <2>1, InQueue
      <4> QED
        BY <2>1, <3>1, <3>2, <3>3, <3>4, <4>1
    <3>6. TooOld(a) => \A i \in 1 .. Len(r) - 1 : r[i].ts < r[Len(r)].ts
      BY <3>1, <3>2, <3>3
    <3> QED
      BY <2>6, <3>1, <3>2, <3>5, <3>6
  <2> QED
    BY <2>3, <2>5, <2>6 DEF r
<1> QED
  BY <1>1, <1>2, QueuesTyped, PTL DEF FeedSpec

\* An exchange whose last answer was too old has no part in a publication, whatever
\* is still in its queue, as long as its clock does not run ahead of the node's
\* (Price.get_price and get_nearest_data).
THEOREM StalledIsSilent == FeedSpec => []StalledExchangeIsSilent
<1>1. ASSUME QueuesTypeOK, StalledInv PROVE StalledExchangeIsSilent
  <2> SUFFICES ASSUME NEW e \in stalled, \A d \in Skew[e] : d <= 0
               PROVE  GetNearest(queues[e], now).price = NaN
    BY DEF StalledExchangeIsSilent, Usable
  <2> DEFINE q == queues[e]
             x == GetNearest(q, now)
  <2>1. e \in Engine /\ q \in Seq(Datum) /\ now \in Nat
    BY <1>1 DEF QueuesTypeOK
  <2>2. /\ q # <<>> /\ q[Len(q)].price = NaN
        /\ \A i \in DOMAIN q : q[i].ts < now
        /\ \A i \in 1 .. Len(q) - 1 : q[i].ts < q[Len(q)].ts
    BY <1>1, <2>1 DEF StalledInv, Honest
  <2>3. Len(q) \in DOMAIN q /\ \A i \in DOMAIN q : i \in 1 .. Len(q) - 1 \/ i = Len(q)
    BY <2>1, <2>2
  <2> HIDE DEF q, x
  <2>4. /\ \E i \in DOMAIN q : x = q[i]
        /\ \A i \in DOMAIN q : \/ Distance(now, x) < Distance(now, q[i])
                               \/ Distance(now, x) = Distance(now, q[i]) /\ q[i].ts <= x.ts
    BY <2>1, <2>2, NearestIsNearest DEF x
  <2>5. PICK i \in DOMAIN q : x = q[i]
    BY <2>4
  <2>6. q[i].ts \in Int /\ q[Len(q)].ts \in Int
    BY <2>1, <2>3, InQueue
  <2>7. q[i].ts >= q[Len(q)].ts
    BY <2>1, <2>2, <2>3, <2>4, <2>5, <2>6 DEF Distance
  <2>8. i = Len(q)
    BY <2>2, <2>3, <2>6, <2>7
  <2> QED
    BY <2>2, <2>5, <2>8 DEF x, q
<1> QED
  BY <1>1, QueuesTyped, StalledInvariant, PTL

-----------------------------------------------------------------------------
(* The recent past *)

\* A datum that is the first of a queue with its stamp is the one read for its stamp.
LEMMA ReadAgain ==
  ASSUME NEW q \in Seq(Datum), NEW i \in DOMAIN q, \A j \in 1 .. i - 1 : q[j].ts # q[i].ts
  PROVE  GetNearest(q, q[i].ts) = q[i]
<1> DEFINE t == q[i].ts
<1>1. t \in Int /\ q # <<>> /\ t = q[i].ts
  BY InQueue
<1> HIDE DEF t
<1> DEFINE x == GetNearest(q, t)
<1>7. /\ \E k \in DOMAIN q : x = q[k] /\ \A j \in 1 .. k - 1 : q[j].ts # x.ts
      /\ \A k \in DOMAIN q : Distance(t, x) < Distance(t, q[k]) \/ Distance(t, x) = Distance(t, q[k])
  BY <1>1, NearestIsNearest
<1> HIDE DEF x
<1>2. PICK k \in DOMAIN q : x = q[k] /\ \A j \in 1 .. k - 1 : q[j].ts # q[k].ts
  BY <1>7
<1>3. Distance(t, q[k]) < Distance(t, q[i]) \/ Distance(t, q[k]) = Distance(t, q[i])
  BY <1>2, <1>7
<1>4. q[k].ts = t
  <2>1. q[k].ts \in Int
    BY InQueue
  <2> QED
    BY <1>1, <1>3, <2>1 DEF Distance
<1>5. k \in Nat \ {0} /\ i \in Nat \ {0}
  OBVIOUS
<1>6. ~(k < i) /\ ~(i < k)
  <2>1. k \notin 1 .. i - 1 /\ i \notin 1 .. k - 1
    BY <1>1, <1>2, <1>4
  <2> QED
    BY <1>5, <2>1
<1> QED
  BY <1>1, <1>2, <1>5, <1>6 DEF x

\* A finite set of integers has a maximum.
LEMMA MaxIs ==
  ASSUME NEW T, T \subseteq Int, T # {}, IsFiniteSet(T)
  PROVE  Max(T) \in T /\ \A x \in T : Max(T) >= x
<1> DEFINE R == {p \in T \X T : p[1] >= p[2]}
<1>1. /\ \A x, y \in T : <<x, y>> \in R \/ <<y, x>> \in R
      /\ \A x, y, z \in T : <<x, y>> \in R /\ <<y, z>> \in R => <<x, z>> \in R
      /\ \A x, y \in T : <<x, y>> \in R => x >= y
  OBVIOUS
<1> HIDE DEF R
<1>2. \E x \in T : \A y \in T : <<x, y>> \in R
  BY <1>1, Least
<1>3. \E x \in T : \A y \in T : x >= y
  BY <1>1, <1>2
<1> QED
  BY <1>3 DEF Max

\* And a minimum.
LEMMA MinIs ==
  ASSUME NEW T, T \subseteq Int, T # {}, IsFiniteSet(T)
  PROVE  Min(T) \in T /\ \A x \in T : Min(T) <= x
<1> DEFINE R == {p \in T \X T : p[1] <= p[2]}
<1>1. /\ \A x, y \in T : <<x, y>> \in R \/ <<y, x>> \in R
      /\ \A x, y, z \in T : <<x, y>> \in R /\ <<y, z>> \in R => <<x, z>> \in R
      /\ \A x, y \in T : <<x, y>> \in R => x <= y
  OBVIOUS
<1> HIDE DEF R
<1>2. \E x \in T : \A y \in T : <<x, y>> \in R
  BY <1>1, Least
<1>3. \E x \in T : \A y \in T : x <= y
  BY <1>1, <1>2
<1> QED
  BY <1>3 DEF Min

\* The stamps of an exchange are between its earliest and its latest.
LEMMA SpreadIs ==
  ASSUME NEW e \in Engine
  PROVE  /\ Ahead(e) \in Nat /\ Behind(e) \in Int /\ Behind(e) <= 0
         /\ \A d \in Skew[e] : d \in Int /\ d <= Ahead(e) /\ (-d <= ReceiveMaxAge => Behind(e) <= d)
         /\ Spread(e) = (Ahead(e) - Behind(e)) + (IF Ahead(e) > 2 THEN Ahead(e) - 2 ELSE 0)
<1> DEFINE A == Skew[e] \cup {0}
           B == {d \in Skew[e] : -d <= ReceiveMaxAge} \cup {0}
<1>1. Skew[e] \subseteq Int /\ IsFiniteSet(Skew[e])
  BY FeedAssumption
<1>2. A \subseteq Int /\ A # {} /\ IsFiniteSet(A)
  BY <1>1, FS_AddElement
<1>3. B \subseteq Int /\ B # {} /\ B \in SUBSET A
  BY <1>1
<1>4. IsFiniteSet(B)
  BY <1>2, <1>3, FS_Subset
<1>5. Ahead(e) \in A /\ \A d \in A : Ahead(e) >= d
  <2> HIDE DEF A
  <2>1. Ahead(e) = Max(A)
    BY DEF Ahead, A
  <2> QED
    BY <1>2, <2>1, MaxIs
<1>6. Behind(e) \in B /\ \A d \in B : Behind(e) <= d
  <2> HIDE DEF A, B
  <2>1. Behind(e) = Min(B)
    BY DEF Behind, B
  <2>2. Min(B) \in B /\ \A d \in B : Min(B) <= d
    BY <1>3, <1>4, MinIs
  <2> QED
    BY <2>1, <2>2
<1>7. Ahead(e) \in Nat /\ Behind(e) \in Int /\ Behind(e) <= 0
  BY <1>1, <1>5, <1>6
<1>8. \A d \in Skew[e] : d \in Int /\ d <= Ahead(e) /\ (-d <= ReceiveMaxAge => Behind(e) <= d)
  BY <1>1, <1>5, <1>6, <1>7
<1>9. Max({Ahead(e) - 2, 0}) = IF Ahead(e) > 2 THEN Ahead(e) - 2 ELSE 0
  <2> DEFINE a == Ahead(e) - 2
             C == {a, 0}
  <2>1. a \in Int
    BY <1>7
  <2> HIDE DEF a
  <2>2. C \subseteq Int /\ C # {} /\ IsFiniteSet(C)
    <3>1. C = {0} \cup {a}
      OBVIOUS
    <3>2. IsFiniteSet({0} \cup {a})
      BY FS_Singleton, FS_AddElement
    <3> QED
      BY <2>1, <3>1, <3>2
  <2>3. Max(C) \in C /\ \A x \in C : Max(C) >= x
    <3> HIDE DEF C
    <3> QED
      BY <2>2, MaxIs
  <2>4. Max({a, 0}) = IF a > 0 THEN a ELSE 0
    BY <2>1, <2>3
  <2> QED
    BY <1>7, <2>4 DEF a
<1> QED
  BY <1>7, <1>8, <1>9 DEF Spread

\* Each datum of a queue was put in in a round of its own, later than those before it,
\* and its stamp is not far from it.
Timed(q, n, e) ==
  \E rho \in [DOMAIN q -> Int] :
    /\ \A i \in DOMAIN q : /\ rho[i] < n
                           /\ rho[i] + Behind(e) <= q[i].ts /\ q[i].ts <= rho[i] + Ahead(e)
    /\ \A i, j \in DOMAIN q : i <= j => j - i <= rho[j] - rho[i]

\* The stamp of what a round puts in a queue.
LEMMA StampOf ==
  ASSUME NEW e \in Engine, now \in Nat, NEW a \in Answers(e)
  PROVE  /\ GetPrice(a) \in Datum
         /\ now + Behind(e) <= GetPrice(a).ts /\ GetPrice(a).ts <= now + Ahead(e)
<1>1. PICK d \in Skew[e] : a.ts = now + d
  BY AnswerIsDatum
<1>2. /\ GetPrice(a) \in Datum
      /\ TooOld(a) => GetPrice(a) = [price |-> NaN, ts |-> now]
      /\ ~TooOld(a) => GetPrice(a).ts = a.ts
  BY AnswerIsDatum
<1>3. /\ d \in Int /\ d <= Ahead(e) /\ (-d <= ReceiveMaxAge => Behind(e) <= d)
      /\ Ahead(e) \in Nat /\ Behind(e) \in Int /\ Behind(e) <= 0
  BY SpreadIs
<1>4. ReceiveMaxAge \in Nat
  BY FeedAssumption
<1>5. CASE TooOld(a)
  BY <1>2, <1>3, <1>5
<1>6. CASE ~TooOld(a)
  <2>1. ~(now - (now + d) > ReceiveMaxAge)
    BY <1>1, <1>6 DEF TooOld
  <2>2. -d <= ReceiveMaxAge
    BY <1>3, <1>4, <2>1
  <2> QED
    BY <1>1, <1>2, <1>3, <1>6, <2>2
<1> QED
  BY <1>5, <1>6

\* A queue stays timed as rounds pass in which its exchange does not answer.
LEMMA TimedLater ==
  ASSUME NEW e \in Engine, NEW q \in Seq(Datum), NEW n \in Int, Timed(q, n, e)
  PROVE  Timed(q, n + 1, e)
<1>1. PICK rho \in [DOMAIN q -> Int] :
        /\ \A i \in DOMAIN q : /\ rho[i] < n
                               /\ rho[i] + Behind(e) <= q[i].ts /\ q[i].ts <= rho[i] + Ahead(e)
        /\ \A i, j \in DOMAIN q : i <= j => j - i <= rho[j] - rho[i]
  BY DEF Timed
<1>2. \A i \in DOMAIN q : rho[i] < n + 1
  <2> SUFFICES ASSUME NEW i \in DOMAIN q PROVE rho[i] < n + 1
    OBVIOUS
  <2>1. rho[i] \in Int /\ rho[i] < n
    BY <1>1
  <2> QED
    BY <2>1
<1> QED
  BY <1>1, <1>2 DEF Timed

\* And when it does.
LEMMA PushTimed ==
  ASSUME NEW e \in Engine, NEW q \in Seq(Datum), Len(q) <= QueueLen, NEW n \in Int, Timed(q, n, e),
         NEW x \in Datum, n + Behind(e) <= x.ts, x.ts <= n + Ahead(e)
  PROVE  Timed(Push(q, x), n + 1, e)
<1> DEFINE r == Push(q, x)
           l == Len(q)
           b == IF l < QueueLen THEN 0 ELSE 1
           Fits(y, k) == k + Behind(e) <= y.ts /\ y.ts <= k + Ahead(e)
<1>1. PICK rho \in [DOMAIN q -> Int] :
        /\ \A i \in DOMAIN q : rho[i] < n /\ Fits(q[i], rho[i])
        /\ \A i, j \in DOMAIN q : i <= j => j - i <= rho[j] - rho[i]
  BY DEF Timed
<1> HIDE DEF Fits
<1>2. l \in Nat /\ DOMAIN q = 1 .. l /\ b \in {0, 1}
  BY LenProperties
<1>3. /\ r \in Seq(Datum) /\ Len(r) = l + 1 - b /\ r[Len(r)] = x
      /\ \A i \in 1 .. Len(r) - 1 : i + b \in DOMAIN q /\ r[i] = q[i + b]
  <2>1. r \in Seq(Datum) /\ r[Len(r)] = x
    BY PushIs
  <2>2. CASE l < QueueLen
    <3>1. Len(r) = l + 1 /\ \A i \in 1 .. l : r[i] = q[i]
      BY <2>2, PushLength
    <3> HIDE DEF r, l
    <3> QED
      BY <1>2, <2>1, <2>2, <3>1
  <2>3. CASE ~(l < QueueLen)
    <3>1. Len(r) = l /\ \A i \in 1 .. l - 1 : r[i] = q[i + 1]
      BY <2>3, PushLength
    <3> HIDE DEF r, l
    <3> QED
      BY <1>2, <2>1, <2>3, <3>1
  <2> QED
    BY <2>2, <2>3
<1> HIDE DEF r, l, b
<1> DEFINE m == Len(r)
           sigma == [i \in DOMAIN r |-> IF i < m THEN rho[i + b] ELSE n]
<1>4. m \in Nat /\ DOMAIN r = 1 .. m /\ m = l + 1 - b
  BY <1>3, LenProperties
<1>5. \A i \in 1 .. m - 1 : /\ i + b \in DOMAIN q /\ i \in Int /\ i + b \in Int
                            /\ sigma[i] = rho[i + b] /\ rho[i + b] \in Int /\ rho[i + b] < n
  <2> SUFFICES ASSUME NEW i \in 1 .. m - 1
               PROVE  /\ i + b \in DOMAIN q /\ i \in Int /\ i + b \in Int
                      /\ sigma[i] = rho[i + b] /\ rho[i + b] \in Int /\ rho[i + b] < n
    OBVIOUS
  <2>1. i + b \in DOMAIN q
    BY <1>3
  <2>2. rho[i + b] \in Int /\ rho[i + b] < n
    BY <1>1, <2>1
  <2>3. i \in Int /\ i + b \in Int /\ i \in DOMAIN r /\ i < m
    BY <1>2, <1>4
  <2> QED
    BY <2>1, <2>2, <2>3
<1>6. m \in DOMAIN r => sigma[m] = n
  BY <1>4
<1>7. sigma \in [DOMAIN r -> Int]
  <2> SUFFICES ASSUME NEW i \in DOMAIN r PROVE (IF i < m THEN rho[i + b] ELSE n) \in Int
    OBVIOUS
  <2>1. i < m => i \in 1 .. m - 1
    BY <1>4
  <2> QED
    BY <1>5, <2>1
<1>8. ASSUME NEW i \in DOMAIN r PROVE sigma[i] < n + 1 /\ Fits(r[i], sigma[i])
  <2>1. CASE i < m
    <3>1. i \in 1 .. m - 1
      BY <1>4, <2>1
    <3>2. sigma[i] = rho[i + b] /\ r[i] = q[i + b] /\ i + b \in DOMAIN q
      BY <1>3, <1>5, <3>1
    <3> HIDE DEF sigma
    <3> QED
      BY <1>1, <1>5, <3>1, <3>2
  <2>2. CASE ~(i < m)
    <3>1. i = m /\ sigma[i] = n /\ r[i] = x
      BY <1>3, <1>4, <1>6, <2>2
    <3> HIDE DEF sigma
    <3> QED
      BY <3>1 DEF Fits
  <2> QED
    BY <2>1, <2>2
<1>9. ASSUME NEW i \in DOMAIN r, NEW j \in DOMAIN r, i <= j PROVE j - i <= sigma[j] - sigma[i]
  <2>0. i \in 1 .. m /\ j \in 1 .. m
    BY <1>4
  <2>1. CASE j < m
    <3>1. i \in 1 .. m - 1 /\ j \in 1 .. m - 1
      BY <1>4, <1>9, <2>0, <2>1
    <3> HIDE DEF sigma
    <3>2. /\ i + b \in DOMAIN q /\ j + b \in DOMAIN q /\ i + b <= j + b
          /\ sigma[i] = rho[i + b] /\ sigma[j] = rho[j + b]
          /\ rho[i + b] \in Int /\ rho[j + b] \in Int
      <4>1. i \in Int /\ j \in Int /\ i <= j
        BY <1>9, <3>1
      <4>2. i + b <= j + b
        BY <1>2, <4>1
      <4> QED
        BY <1>5, <3>1, <4>2
    <3>3. (j + b) - (i + b) <= rho[j + b] - rho[i + b]
      BY <1>1, <3>2
    <3>4. (j + b) - (i + b) = j - i
      BY <1>2, <2>0
    <3> QED
      BY <3>2, <3>3, <3>4
  <2>2. CASE i < m /\ j = m
    <3>1. i \in 1 .. m - 1 /\ sigma[j] = n
      BY <1>4, <1>6, <2>0, <2>2
    <3> HIDE DEF sigma
    <3>2. i + b \in DOMAIN q /\ sigma[i] = rho[i + b] /\ rho[i + b] \in Int
      BY <1>5, <3>1
    <3>3. l \in DOMAIN q /\ i + b <= l /\ rho[l] \in Int
      BY <1>1, <1>2, <1>4, <3>1, <3>2
    <3>4. l - (i + b) <= rho[l] - rho[i + b] /\ rho[l] < n
      BY <1>1, <3>2, <3>3
    <3>5. j - i = l + 1 - (i + b)
      BY <1>2, <1>4, <2>0, <2>2
    <3>6. l - (i + b) \in Int /\ l + 1 - (i + b) = (l - (i + b)) + 1
      BY <1>2, <2>0
    <3> QED
      BY <3>1, <3>2, <3>3, <3>4, <3>5, <3>6
  <2>3. CASE i = m /\ j = m
    BY <1>6, <2>0, <2>3
  <2> QED
    BY <1>4, <1>9, <2>0, <2>1, <2>2, <2>3
<1> HIDE DEF sigma
<1>10. /\ \A i \in DOMAIN r : /\ sigma[i] < n + 1
                              /\ sigma[i] + Behind(e) <= r[i].ts /\ r[i].ts <= sigma[i] + Ahead(e)
       /\ \A i, j \in DOMAIN r : i <= j => j - i <= sigma[j] - sigma[i]
  BY <1>8, <1>9 DEF Fits
<1> QED
  BY <1>7, <1>10, Zenon DEF Timed, r

\* Every queue is timed by the rounds so far.
TimedInv == \A e \in Engine : Timed(queues[e], now, e)

\* Whatever the exchanges answer, no datum's stamp is far from its round.
LEMMA AlwaysTimed == FeedSpec => []TimedInv
<1>1. FeedInit => TimedInv
  <2> SUFFICES ASSUME FeedInit, NEW e \in Engine PROVE Timed(queues[e], now, e)
    BY DEF TimedInv
  <2>1. queues[e] = <<>>
    BY DEF FeedInit
  <2>2. DOMAIN queues[e] = {}
    BY <2>1
  <2>3. [i \in DOMAIN queues[e] |-> 0] \in [DOMAIN queues[e] -> Int]
    OBVIOUS
  <2> QED
    BY <2>2, <2>3 DEF Timed
<1>2. ASSUME QueuesTypeOK, FeedTypeOK, TimedInv, [FeedNext]_feedVars PROVE TimedInv'
  <2> SUFFICES ASSUME NEW e \in Engine PROVE Timed(queues'[e], now', e)
    BY DEF TimedInv, Timed, Ahead, Behind
  <2>1. /\ queues[e] \in Seq(Datum) /\ Len(queues[e]) <= QueueLen /\ now \in Nat
        /\ Timed(queues[e], now, e)
    BY <1>2 DEF QueuesTypeOK, FeedTypeOK, TimedInv
  <2>2. Timed(queues[e], now + 1, e)
    BY <2>1, TimedLater
  <2>3. ASSUME NEW a \in Answers(e) PROVE Timed(Push(queues[e], GetPrice(a)), now + 1, e)
    BY <2>1, StampOf, PushTimed
  <2> QED
    BY <1>2, <2>1, <2>2, <2>3, RoundStep
<1> QED
  BY <1>1, <1>2, QueuesTyped, FeedTypeCorrect, PTL DEF FeedSpec

\* After the datum nearest to the present an exchange sent no more than Spread(e).
LEMMA FewLater ==
  ASSUME NEW e \in Engine, NEW q \in Seq(Datum), NEW n \in Int, Timed(q, n, e), NEW i \in DOMAIN q,
         \A j \in DOMAIN q : \/ Distance(n, q[i]) < Distance(n, q[j])
                             \/ Distance(n, q[i]) = Distance(n, q[j]) /\ q[j].ts <= q[i].ts
  PROVE  Len(q) - i <= Spread(e)
<1> DEFINE A == Ahead(e)
           B == Behind(e)
           l == Len(q)
           ts(j) == q[j].ts
<1>1. PICK rho \in [DOMAIN q -> Int] :
        /\ \A j \in DOMAIN q : rho[j] < n /\ rho[j] + B <= ts(j) /\ ts(j) <= rho[j] + A
        /\ \A j, k \in DOMAIN q : j <= k => k - j <= rho[k] - rho[j]
  BY DEF Timed
<1>2. /\ A \in Nat /\ B \in Int /\ B <= 0
      /\ Spread(e) = (A - B) + (IF A > 2 THEN A - 2 ELSE 0)
  BY SpreadIs
<1>3. l \in Nat /\ DOMAIN q = 1 .. l /\ l \in DOMAIN q /\ i <= l
  BY LenProperties
<1>4. \A j \in DOMAIN q : ts(j) \in Int
  BY InQueue
<1>5. ASSUME ts(i) < n, NEW j \in DOMAIN q, ts(j) > ts(i) PROVE ts(j) >= n + 2
  <2>1. ts(i) \in Int /\ ts(j) \in Int
    BY <1>4
  <2>2. \/ Distance(n, q[i]) < Distance(n, q[j])
        \/ Distance(n, q[i]) = Distance(n, q[j]) /\ ts(j) <= ts(i)
    OBVIOUS
  <2>3. Distance(n, q[i]) = n - ts(i) /\ Distance(n, q[j]) = IF ts(j) < n THEN n - ts(j) ELSE ts(j) - n
    BY <1>5 DEF Distance
  <2> HIDE DEF ts
  <2> QED
    BY <1>5, <2>1, <2>2, <2>3
<1> HIDE DEF A, B, l, ts
<1>6. \A j \in DOMAIN q : /\ j \in Int /\ rho[j] \in Int /\ rho[j] < n
                          /\ rho[j] + B <= ts(j) /\ ts(j) <= rho[j] + A
  BY <1>1, <1>3
<1>7. CASE ~(ts(i) < n)
  <2>1. l - i <= rho[l] - rho[i]
    BY <1>1, <1>3
  <2>2. rho[l] \in Int /\ rho[l] < n
    BY <1>3, <1>6
  <2>3. rho[i] \in Int /\ ts(i) \in Int /\ ts(i) <= rho[i] + A
    BY <1>4, <1>6
  <2>4. i \in Int /\ l - i < A
    BY <1>2, <1>3, <1>7, <2>1, <2>2, <2>3
  <2>5. l - i <= Spread(e)
    BY <1>2, <1>3, <2>4
  <2> QED
    BY <2>5 DEF l
<1>8. CASE ts(i) < n
  <2> DEFINE T == {j \in DOMAIN q : i <= j /\ ts(j) > ts(i)}
  <2>1. ASSUME NEW k \in DOMAIN q, i <= k, ts(k) <= ts(i) PROVE k - i <= A - B
    <3>1. k - i <= rho[k] - rho[i]
      BY <1>1, <2>1
    <3>2. k \in Int /\ rho[k] \in Int /\ ts(k) \in Int /\ rho[k] + B <= ts(k)
      BY <1>4, <1>6
    <3>3. i \in Int /\ rho[i] \in Int /\ ts(i) \in Int /\ ts(i) <= rho[i] + A
      BY <1>4, <1>6
    <3> QED
      BY <1>2, <2>1, <3>1, <3>2, <3>3, SMTT(30)
  <2>2. CASE T = {}
    <3>1. ts(l) <= ts(i)
      BY <1>3, <1>4, <2>2
    <3>2. l - i <= A - B
      BY <1>3, <2>1, <3>1
    <3> QED
      BY <1>2, <1>3, <3>2 DEF l
  <2>3. CASE T # {}
    <3>1. T \subseteq Nat
      BY <1>3
    <3>2. \E k \in T : \A j \in T : k <= j
      <4> HIDE DEF T
      <4> QED
        BY <2>3, <3>1, Smallest
    <3>3. PICK k \in DOMAIN q : i <= k /\ ts(k) > ts(i) /\ \A j \in T : k <= j
      BY <3>2
    <3>4. k # i /\ k - 1 \in DOMAIN q /\ i <= k - 1 /\ k <= l
      BY <1>3, <1>4, <3>3
    <3>5. ts(k - 1) <= ts(i)
      <4>1. k - 1 \notin T
        BY <1>3, <3>3
      <4> QED
        BY <1>4, <3>4, <4>1
    <3>6. (k - 1) - i <= A - B
      BY <2>1, <3>4, <3>5
    <3>7. ts(k) >= n + 2
      BY <1>5, <1>8, <3>3
    <3>8. l - k <= rho[l] - rho[k]
      BY <1>1, <1>3, <3>4
    <3>9. l - k <= A - 3
      <4>1. rho[l] \in Int /\ rho[l] < n
        BY <1>3, <1>6
      <4>2. k \in Int /\ rho[k] \in Int /\ ts(k) \in Int /\ ts(k) <= rho[k] + A
        BY <1>4, <1>6
      <4>3. n + 2 <= rho[k] + A
        BY <1>2, <3>7, <4>2
      <4>4. rho[l] - rho[k] <= A - 3
        BY <1>2, <4>1, <4>2, <4>3
      <4> QED
        BY <1>2, <1>3, <3>8, <4>1, <4>2, <4>4
    <3> QED
      BY <1>2, <1>3, <3>4, <3>6, <3>9, SMTT(30) DEF l
  <2> QED
    BY <2>2, <2>3
<1> QED
  BY <1>7, <1>8

\* The datum x is in the queue, the first with its stamp, and no more than m after it.
Kept(q, x, m) ==
  \E i \in DOMAIN q : /\ q[i] = [price |-> x.price, ts |-> x.ts]
                      /\ \A j \in 1 .. i - 1 : q[j].ts # x.ts
                      /\ Len(q) - i <= m

\* A push makes a datum one place older, and takes out only the oldest.
LEMMA PushKeeps ==
  ASSUME NEW q \in Seq(Datum), Len(q) <= QueueLen, NEW y \in Datum, NEW x,
         NEW m \in Int, m < QueueLen - 1, Kept(q, x, m)
  PROVE  Kept(Push(q, y), x, m + 1)
<1> DEFINE r == Push(q, y)
           l == Len(q)
           d == [price |-> x.price, ts |-> x.ts]
<1>1. PICK i \in DOMAIN q : q[i] = d /\ (\A j \in 1 .. i - 1 : q[j].ts # x.ts) /\ l - i <= m
  BY DEF Kept
<1>2. l \in Nat /\ DOMAIN q = 1 .. l /\ QueueLen \in Nat /\ r \in Seq(Datum)
  BY LenProperties, PushIs, FeedAssumption
<1>3. Len(r) \in Nat /\ DOMAIN r = 1 .. Len(r)
  BY <1>2, LenProperties
<1>4. CASE l < QueueLen
  <2>1. Len(r) = l + 1 /\ \A j \in 1 .. l : r[j] = q[j]
    BY <1>4, PushLength
  <2> HIDE DEF r, l, d
  <2>2. i \in DOMAIN r /\ r[i] = d /\ Len(r) - i <= m + 1
    BY <1>1, <1>2, <1>3, <2>1
  <2>3. \A j \in 1 .. i - 1 : r[j] = q[j]
    BY <1>2, <2>1
  <2>4. \A j \in 1 .. i - 1 : r[j].ts # x.ts
    BY <1>1, <2>3
  <2> QED
    BY <2>2, <2>4 DEF Kept, r, d
<1>5. CASE ~(l < QueueLen)
  <2>1. Len(r) = l /\ \A j \in 1 .. l - 1 : r[j] = q[j + 1]
    BY <1>5, PushLength
  <2>2. l = QueueLen
    <3>1. l <= QueueLen
      OBVIOUS
    <3> HIDE DEF l
    <3> QED
      BY <1>2, <1>5, <3>1
  <2> HIDE DEF r, l, d
  <2> DEFINE k == i - 1
  <2>3. k \in DOMAIN r /\ k \in 1 .. l - 1 /\ k + 1 = i /\ Len(r) - k <= m + 1
    BY <1>1, <1>2, <1>3, <2>1, <2>2
  <2>4. r[k] = d
    BY <1>1, <2>1, <2>3
  <2>5. ASSUME NEW j \in 1 .. k - 1 PROVE r[j].ts # x.ts
    <3> HIDE DEF k
    <3>1. j + 1 \in 1 .. i - 1 /\ j \in 1 .. l - 1
      BY <1>2, <2>3, SMTT(30)
    <3> QED
      BY <1>1, <2>1, <3>1
  <2> HIDE DEF k
  <2> QED
    BY <2>3, <2>4, <2>5 DEF Kept, r, d
<1> QED
  BY <1>4, <1>5

\* The datum that was published is in its queue, the first with its stamp, and no more
\* came after it than had overtaken it then and could come since.
PastInv ==
  LET x == quote.datum
      s == Spread(x.engine)
  IN  quote # NoQuote =>
        /\ quote.at <= now
        /\ now - quote.at < QueueLen - s => Kept(queues[x.engine], x, s + (now - quote.at))

\* Publishing starts it, and no step of the feed ends it.
LEMMA PastInvariant == FeedSpec => []PastInv
<1>1. FeedInit => PastInv
  BY DEF FeedInit, PastInv
<1>2. ASSUME QueuesTypeOK, FeedTypeOK, TimedInv, PastInv, [FeedNext]_feedVars PROVE PastInv'
  <2> DEFINE x == quote'.datum
             e == x.engine
             s == Spread(e)
  <2> SUFFICES ASSUME quote' # NoQuote
               PROVE  /\ quote'.at <= now'
                      /\ now' - quote'.at < QueueLen - s =>
                           Kept(queues'[e], x, s + (now' - quote'.at))
    BY DEF PastInv, Spread, Ahead, Behind, NoQuote
  <2>0. now \in Nat
    BY <1>2 DEF QueuesTypeOK
  <2>1. CASE Quote
    <3> DEFINE S == Usables(now, PublishMaxDiff)
               y == GetNearest(queues[e], now)
    <3>1. /\ quote' = [at |-> now, datum |-> Median(S)] /\ Median(S) \in S
          /\ now' = now /\ queues' = queues
      BY <1>2, <2>1, QuotedIs DEF Quote
    <3>2. x \in S /\ quote'.at = now
      BY <3>1
    <3> HIDE DEF S, x
    <3>3. /\ x \in [engine : Engine, price : Nat, ts : Int]
          /\ Usable(e, now, PublishMaxDiff)
          /\ x.price = y.price /\ x.ts = y.ts
      BY <1>2, <2>0, <3>2, UsablesAre DEF S
    <3>4. e \in Engine /\ queues[e] \in Seq(Datum) /\ queues[e] # <<>> /\ Timed(queues[e], now, e)
      BY <1>2, <3>3 DEF QueuesTypeOK, TimedInv, Usable
    <3> HIDE DEF e
    <3>5. /\ \E i \in DOMAIN queues[e] : y = queues[e][i] /\ \A j \in 1 .. i - 1 : queues[e][j].ts # y.ts
          /\ \A i \in DOMAIN queues[e] :
               \/ Distance(now, y) < Distance(now, queues[e][i])
               \/ Distance(now, y) = Distance(now, queues[e][i]) /\ queues[e][i].ts <= y.ts
      <4> DEFINE q == queues[e]
      <4>1. q \in Seq(Datum) /\ q # <<>> /\ now \in Int
        BY <2>0, <3>4
      <4> HIDE DEF q
      <4>2. y = GetNearest(q, now)
        BY DEF q
      <4> HIDE DEF y
      <4>3. /\ \E i \in DOMAIN q : y = q[i] /\ \A j \in 1 .. i - 1 : q[j].ts # y.ts
            /\ \A i \in DOMAIN q : \/ Distance(now, y) < Distance(now, q[i])
                                   \/ Distance(now, y) = Distance(now, q[i]) /\ q[i].ts <= y.ts
        BY <4>1, <4>2, NearestIsNearest
      <4> QED
        BY <4>3 DEF q
    <3> HIDE DEF y
    <3>6. PICK i \in DOMAIN queues[e] : y = queues[e][i] /\ \A j \in 1 .. i - 1 : queues[e][j].ts # y.ts
      BY <3>5
    <3>7. Len(queues[e]) - i <= s
      BY <2>0, <3>4, <3>5, <3>6, FewLater
    <3>8. y = [price |-> x.price, ts |-> x.ts]
      <4>1. y \in Datum
        BY <3>4, <3>6
      <4> QED
        BY <3>3, <4>1 DEF Datum
    <3>9. Kept(queues[e], x, s)
      BY <3>3, <3>6, <3>7, <3>8 DEF Kept
    <3>10. s + (now - now) = s
      BY <2>0, <3>4, SpreadIs
    <3> QED
      BY <2>0, <3>1, <3>2, <3>9, <3>10
  <2>2. CASE quote' = quote
    <3> DEFINE at == quote.at
    <3>1. /\ at \in Int /\ at <= now /\ e \in Engine /\ quote'.at = at
          /\ now - at < QueueLen - s => Kept(queues[e], x, s + (now - at))
      BY <1>2, <2>2 DEF FeedTypeOK, PastInv, Time
    <3> HIDE DEF at
    <3>2. /\ s \in Int /\ QueueLen \in Int
          /\ queues[e] \in Seq(Datum) /\ Len(queues[e]) <= QueueLen
      <4>1. Spread(e) \in Int
        BY <3>1, SpreadIs
      <4> QED
        BY <1>2, <3>1, <4>1, FeedAssumption DEF QueuesTypeOK, FeedTypeOK
    <3> HIDE DEF x, e, s
    <3>3. \/ now' \in {now, now + 1} /\ queues'[e] = queues[e]
          \/ /\ now' = now + 1
             /\ \E a \in Answers(e) : queues'[e] = Push(queues[e], GetPrice(a))
      BY <1>2, <3>1, RoundStep
    <3>4. ASSUME now' - at < QueueLen - s PROVE Kept(queues'[e], x, s + (now' - at))
      <4>1. now' \in {now, now + 1} /\ now - at < QueueLen - s /\ Kept(queues[e], x, s + (now - at))
        BY <2>0, <3>1, <3>2, <3>3, <3>4
      <4>2. CASE queues'[e] = queues[e]
        <5>1. PICK i \in DOMAIN queues[e] :
                /\ queues[e][i] = [price |-> x.price, ts |-> x.ts]
                /\ \A j \in 1 .. i - 1 : queues[e][j].ts # x.ts
                /\ Len(queues[e]) - i <= s + (now - at)
          BY <4>1 DEF Kept
        <5>2. Len(queues[e]) - i <= s + (now' - at)
          BY <2>0, <3>1, <3>2, <4>1, <5>1
        <5> QED
          BY <4>2, <5>1, <5>2 DEF Kept
      <4>3. ASSUME now' = now + 1, NEW a \in Answers(e), queues'[e] = Push(queues[e], GetPrice(a))
            PROVE  Kept(queues'[e], x, s + (now' - at))
        <5> DEFINE m == s + (now - at)
                   d == GetPrice(a)
        <5>1. m \in Int /\ m < QueueLen - 1 /\ m + 1 = s + (now' - at)
          BY <2>0, <3>1, <3>2, <3>4, <4>3
        <5>2. d \in Datum
          BY <2>0, <3>1, AnswerIsDatum
        <5>3. Kept(queues[e], x, m)
          BY <4>1
        <5> HIDE DEF m, d
        <5>4. Kept(Push(queues[e], d), x, m + 1)
          BY <3>2, <5>1, <5>2, <5>3, PushKeeps
        <5> QED
          BY <4>3, <5>1, <5>4 DEF d
      <4> QED
        BY <3>3, <4>2, <4>3
    <3> QED
      BY <2>0, <3>1, <3>3, <3>4
  <2> QED
    BY <1>2, <2>1, <2>2, QuoteStep DEF feedVars
<1> QED
  BY <1>1, <1>2, QueuesTyped, FeedTypeCorrect, AlwaysTimed, PTL DEF FeedSpec

\* "Our system also needs to be able to validate prices from some recent past":
\* whatever the exchanges answer, the datum a publication took its price from is still
\* the one read for its time, while fewer rounds passed than the queue has places
\* beside it and the data that may have overtaken it.
THEOREM PastIsKept == FeedSpec => []RecentPastIsKept
<1>1. ASSUME QueuesTypeOK, FeedTypeOK, PastInv PROVE RecentPastIsKept
  <2> DEFINE x == quote.datum
             e == x.engine
             q == queues[e]
  <2> SUFFICES ASSUME quote # NoQuote, now - quote.at < QueueLen - Spread(e)
               PROVE  /\ Usable(e, x.ts, ValidateMaxDiff)
                      /\ GetNearest(q, x.ts) = [price |-> x.price, ts |-> x.ts]
    BY DEF RecentPastIsKept
  <2>1. x \in [engine : Engine, price : Nat, ts : Int] /\ q \in Seq(Datum)
    BY <1>1 DEF FeedTypeOK
  <2>2. Kept(q, x, Spread(e) + (now - quote.at))
    BY <1>1 DEF PastInv
  <2>3. PICK i \in DOMAIN q : q[i] = [price |-> x.price, ts |-> x.ts] /\ \A j \in 1 .. i - 1 : q[j].ts # x.ts
    BY <2>2 DEF Kept
  <2>4. GetNearest(q, q[i].ts) = q[i]
    <3> HIDE DEF q, x
    <3>1. \A j \in 1 .. i - 1 : q[j].ts # q[i].ts
      BY <2>3
    <3>2. q \in Seq(Datum) /\ i \in DOMAIN q
      BY <2>1, <2>3
    <3> QED
      BY <3>1, <3>2, ReadAgain
  <2>5. GetNearest(q, x.ts) = [price |-> x.price, ts |-> x.ts]
    BY <2>3, <2>4
  <2>6. q # <<>> /\ x.price # NaN
    BY <2>1, <2>3, FeedAssumption, SMTT(30)
  <2>7. Distance(x.ts, [price |-> x.price, ts |-> x.ts]) <= ValidateMaxDiff
    BY <2>1, FeedAssumption DEF Distance
  <2> HIDE DEF x, q, e
  <2>8. Usable(e, x.ts, ValidateMaxDiff)
    BY <2>1, <2>5, <2>6, <2>7 DEF Usable, q
  <2> QED
    BY <2>5, <2>8
<1> QED
  BY <1>1, QueuesTyped, FeedTypeCorrect, PastInvariant, PTL
=============================================================================
