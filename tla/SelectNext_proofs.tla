-------------------------- MODULE SelectNext_proofs --------------------------
(***************************************************************************)
(* What select_next promises, for any number of oracles, any stakes and    *)
(* any hash.                                                               *)
(***************************************************************************)
EXTENDS SelectNext, FiniteSetTheorems, SequenceTheorems, WellFoundedInduction, TLAPS

-----------------------------------------------------------------------------
(* Numbers and sequences *)

\* A set of natural numbers has a smallest one.
LEMMA Smallest ==
  ASSUME NEW T, T \subseteq Nat, T # {}
  PROVE  \E x \in T : \A y \in T : x <= y
<1> DEFINE Less == {ss \in Nat \X Nat : ss[1] < ss[2]}
<1>1. IsWellFoundedOn(Less, Nat)
  BY NatLessThanWellFounded, Zenon DEF OpToRel
<1>2. PICK x \in T : \A y \in T : ~ (<<y, x>> \in Less)
  <2> HIDE DEF Less
  <2> QED
    BY <1>1, WFMin
<1>3. ASSUME NEW y \in T PROVE x <= y
  <2>1. x \in Nat /\ y \in Nat /\ ~ (<<y, x>> \in Less)
    BY <1>2
  <2>2. ~ (y < x)
    BY <2>1
  <2> QED
    BY <2>1, <2>2
<1> QED
  BY <1>3

\* A rotation of the places of a list reaches each place from one place only.
LEMMA Rotation ==
  ASSUME NEW n \in Nat, NEW c \in 0 .. n, NEW i \in 1 .. n
  PROVE  (c + i - 1) % n = IF c + i - 1 < n THEN c + i - 1 ELSE c + i - 1 - n
OBVIOUS

\* What RemoveAt leaves of a list, and that it repeats nothing if the list does not.
LEMMA RemoveAtProperties ==
  ASSUME NEW S, NEW s \in Seq(S), NEW i \in 1 .. Len(s)
  PROVE  LET r == RemoveAt(s, i)
         IN  /\ r \in Seq(S)
             /\ Len(r) = Len(s) - 1
             /\ \A j \in 1 .. Len(s) - 1 : r[j] = IF j < i THEN s[j] ELSE s[j + 1]
<1>1. Len(s) \in Nat /\ \A j \in 1 .. Len(s) : s[j] \in S
  OBVIOUS
<1> DEFINE before == SubSeq(s, 1, i - 1)
           after  == SubSeq(s, i + 1, Len(s))
<1>2. /\ before \in Seq(S)
      /\ Len(before) = i - 1
      /\ \A j \in 1 .. i - 1 : before[j] = s[j]
  BY <1>1
<1>3. /\ after \in Seq(S)
      /\ Len(after) = Len(s) - i
      /\ \A j \in 1 .. Len(s) - i : after[j] = s[i + j]
  BY <1>1
<1>4. RemoveAt(s, i) = before \o after
  BY DEF RemoveAt
<1> HIDE DEF before, after
<1>5. /\ before \o after \in Seq(S)
      /\ Len(before \o after) = Len(s) - 1
      /\ \A j \in 1 .. Len(s) - 1 :
           (before \o after)[j] = IF j <= i - 1 THEN before[j] ELSE after[j - (i - 1)]
  <2>1. Len(before) + Len(after) = Len(s) - 1
    BY <1>1, <1>2, <1>3
  <2>2. /\ before \o after \in Seq(S)
        /\ Len(before \o after) = Len(before) + Len(after)
        /\ \A j \in 1 .. Len(before) + Len(after) :
             (before \o after)[j] = IF j <= Len(before) THEN before[j] ELSE after[j - Len(before)]
    BY <1>2, <1>3, ConcatProperties, Zenon
  <2> QED
    BY <1>2, <2>1, <2>2
<1>6. ASSUME NEW j \in 1 .. Len(s) - 1
      PROVE  (before \o after)[j] = IF j < i THEN s[j] ELSE s[j + 1]
  <2>1. CASE j < i
    BY <1>1, <1>2, <1>5, <2>1
  <2>2. CASE ~(j < i)
    <3>1. j - (i - 1) \in 1 .. Len(s) - i /\ i + (j - (i - 1)) = j + 1
      BY <1>1, <2>2
    <3>2. (before \o after)[j] = after[j - (i - 1)]
      BY <1>1, <1>5, <2>2
    <3> QED
      BY <1>3, <2>2, <3>1, <3>2
  <2> QED
    BY <2>1, <2>2
<1> QED
  BY <1>4, <1>5, <1>6

\* A list that repeats nothing does not after something is removed from it, and what
\* is removed is not in it any more.
LEMMA RemovedOnce ==
  ASSUME NEW S, NEW s \in Seq(S), NEW i \in 1 .. Len(s), IsInjective(s)
  PROVE  LET r == RemoveAt(s, i)
         IN  /\ IsInjective(r)
             /\ \A j \in DOMAIN r : r[j] # s[i] /\ \E k \in DOMAIN s : r[j] = s[k]
<1> DEFINE r == RemoveAt(s, i)
<1>1. /\ r \in Seq(S) /\ Len(r) = Len(s) - 1 /\ Len(s) \in Nat
      /\ \A j \in 1 .. Len(s) - 1 : r[j] = IF j < i THEN s[j] ELSE s[j + 1]
  BY RemoveAtProperties
<1> HIDE DEF r
<1> DEFINE Was(j) == IF j < i THEN j ELSE j + 1
<1>2. DOMAIN r = 1 .. Len(s) - 1 /\ DOMAIN s = 1 .. Len(s)
  BY <1>1
<1>3. \A j \in DOMAIN r : Was(j) \in DOMAIN s /\ Was(j) # i /\ r[j] = s[Was(j)]
  BY <1>1, <1>2
<1>4. \A j, k \in DOMAIN r : Was(j) = Was(k) => j = k
  BY <1>1, <1>2
<1> HIDE DEF Was
<1>5. IsInjective(r)
  BY <1>3, <1>4 DEF IsInjective
<1>6. \A j \in DOMAIN r : r[j] # s[i] /\ \E k \in DOMAIN s : r[j] = s[k]
  BY <1>2, <1>3 DEF IsInjective
<1> QED
  BY <1>5, <1>6 DEF r

-----------------------------------------------------------------------------
(* The shuffle *)

\* The list of the selected oracles is one without repetition, the hash has a byte for
\* each of them, and each has a stake.
SelTypeOK ==
  /\ hash \in Hash
  /\ stake \in [Selection -> Stakes]
  /\ infos \in Seq(Selection) /\ IsInjective(infos) /\ Len(infos) = Size

\* There is at least one oracle, and the bytes are numbers.
LEMMA Sizes == Size \in Nat \ {0} /\ Byte \in Nat \ {0} /\ IsFiniteSet(Selection)
<1>1. IsFiniteSet(Selection) /\ Selection # {} /\ Byte \in Nat \ {0}
  BY SelectionAssumption
<1> QED
  BY <1>1, FS_CardinalityType, FS_EmptySet DEF Size

\* Nothing the chain does adds an oracle to the list or repeats one.
LEMMA ListInvariant == SelSpec => []SelTypeOK
<1>1. SelInit => SelTypeOK
  <2> SUFFICES ASSUME SelInit PROVE infos \in Seq(Selection) /\ IsInjective(infos) /\ Len(infos) = Size
    BY DEF SelInit, SelTypeOK
  <2>1. PICK f \in Bijection(1 .. Size, Selection) : TRUE
    BY Sizes, FS_CardinalityType DEF Size, ExistsBijection
  <2>2. f \in [1 .. Size -> Selection] /\ IsInjective(f)
    BY <2>1 DEF Bijection, Injection
  <2>3. infos \in [1 .. Size -> Selection] /\ IsInjective(infos)
    BY <2>2 DEF SelInit, SetToSeq, Size
  <2> QED
    BY <2>3, Sizes
<1>2. SelTypeOK /\ [SelNext]_selVars => SelTypeOK'
  BY DEF SelTypeOK, SelNext, selVars, Publication, StakeMoves, Hash, Size
<1> QED
  BY <1>1, <1>2, PTL DEF SelSpec

\* The equations of Picked have a solution.
LEMMA PickedIs ==
  /\ Picked[0] = [left |-> infos, taken |-> <<>>]
  /\ \A k \in 1 .. Size :
       LET before == Picked[k - 1]
           i      == 1 + (hash[k] % Len(before.left))
       IN  Picked[k] = [left |-> Take(before.left, i), taken |-> Append(before.taken, before.left[i])]
<1> DEFINE First == [left |-> infos, taken |-> <<>>]
           After(k, before) == LET i == 1 + (hash[k] % Len(before.left))
                               IN  [left |-> Take(before.left, i),
                                    taken |-> Append(before.taken, before.left[i])]
           Solves(f, n) == f = [k \in 0 .. n |-> IF k = 0 THEN First ELSE After(k, f[k - 1])]
<1>1. Picked = CHOOSE f : Solves(f, Size)
  BY DEF Picked
<1> HIDE DEF First, After
<1>2. \A n \in Nat : \E f : Solves(f, n)
  <2> DEFINE T == {n \in Nat : ~ \E f : Solves(f, n)}
  <2> SUFFICES ASSUME T # {} PROVE FALSE
    OBVIOUS
  <2>1. PICK n \in T : \A m \in T : n <= m
    <3> HIDE DEF T
    <3>1. T \subseteq Nat
      BY DEF T
    <3> QED
      BY <3>1, Smallest
  <2>2. n # 0
    <3>1. Solves([k \in 0 .. 0 |-> First], 0)
      OBVIOUS
    <3> QED
      BY <2>1, <3>1
  <2>3. PICK f : Solves(f, n - 1)
    <3>1. n - 1 \in Nat /\ ~(n <= n - 1)
      BY <2>1, <2>2
    <3> QED
      BY <2>1, <3>1
  <2> DEFINE g == [k \in 0 .. n |-> IF k = n THEN After(n, f[n - 1]) ELSE f[k]]
  <2>4. \A k \in 0 .. n : g[k] = IF k = 0 THEN First ELSE After(k, g[k - 1])
    BY <2>1, <2>2, <2>3
  <2>5. Solves(g, n)
    BY <2>4
  <2> QED
    BY <2>1, <2>5
<1>3. Solves(Picked, Size)
  BY <1>1, <1>2, Sizes
<1>4. Picked[0] = First
  BY <1>3, Sizes
<1>5. ASSUME NEW k \in 1 .. Size PROVE Picked[k] = After(k, Picked[k - 1])
  BY <1>3, Sizes
<1> QED
  BY <1>4, <1>5 DEF First, After

\* What is left of the list and what is taken of it repeat nothing and have nothing in
\* common, and together they are as long as the list.
Parted(k) ==
  /\ Picked[k].left \in Seq(Selection) /\ Len(Picked[k].left) = Size - k
  /\ Picked[k].taken \in Seq(Selection) /\ Len(Picked[k].taken) = k
  /\ IsInjective(Picked[k].left) /\ IsInjective(Picked[k].taken)
  /\ \A i \in DOMAIN Picked[k].left, j \in DOMAIN Picked[k].taken :
       Picked[k].left[i] # Picked[k].taken[j]

\* A byte of the hash takes one oracle of the list, whatever the byte.
LEMMA PartedOnce ==
  ASSUME SelTypeOK, NEW k \in 1 .. Size, Parted(k - 1)
  PROVE  Parted(k)
<1> DEFINE left  == Picked[k - 1].left
           taken == Picked[k - 1].taken
           i     == 1 + (hash[k] % Len(left))
<1>1. /\ left \in Seq(Selection) /\ Len(left) = Size - (k - 1) /\ IsInjective(left)
      /\ taken \in Seq(Selection) /\ Len(taken) = k - 1 /\ IsInjective(taken)
      /\ \A m \in DOMAIN left, j \in DOMAIN taken : left[m] # taken[j]
  BY DEF Parted
<1>2. Picked[k] = [left |-> RemoveAt(left, i), taken |-> Append(taken, left[i])]
  BY PickedIs DEF Take
<1>3. i \in 1 .. Len(left)
  <2>1. hash[k] \in Nat /\ Len(left) \in Nat \ {0}
    BY <1>1, Sizes DEF SelTypeOK, Hash
  <2> HIDE DEF left
  <2>2. hash[k] % Len(left) \in 0 .. Len(left) - 1
    BY <2>1
  <2> QED
    BY <2>1, <2>2
<1> HIDE DEF left, taken, i
<1> DEFINE rest == RemoveAt(left, i)
           more == Append(taken, left[i])
<1>4. /\ rest \in Seq(Selection) /\ Len(rest) = Len(left) - 1 /\ IsInjective(rest)
      /\ \A j \in DOMAIN rest : rest[j] # left[i] /\ \E m \in DOMAIN left : rest[j] = left[m]
  <2>1. rest \in Seq(Selection) /\ Len(rest) = Len(left) - 1
    BY <1>1, <1>3, RemoveAtProperties
  <2>2. /\ IsInjective(rest)
        /\ \A j \in DOMAIN rest : rest[j] # left[i] /\ \E m \in DOMAIN left : rest[j] = left[m]
    BY <1>1, <1>3, RemovedOnce
  <2> HIDE DEF rest
  <2> QED
    BY <2>1, <2>2
<1>5. /\ more \in Seq(Selection) /\ Len(more) = k
      /\ DOMAIN taken = 1 .. k - 1 /\ DOMAIN more = 1 .. k /\ i \in DOMAIN left
      /\ \A j \in 1 .. k : more[j] = IF j = k THEN left[i] ELSE taken[j]
  BY <1>1, <1>3
<1> HIDE DEF rest, more
<1>6. IsInjective(more)
  BY <1>1, <1>5 DEF IsInjective
<1>7. \A m \in DOMAIN rest, j \in DOMAIN more : rest[m] # more[j]
  BY <1>1, <1>4, <1>5
<1>8. Picked[k].left = rest /\ Picked[k].taken = more
  BY <1>2 DEF rest, more
<1>9. Len(rest) = Size - k
  BY <1>1, <1>4, Sizes
<1> QED
  BY <1>4, <1>5, <1>6, <1>7, <1>8, <1>9 DEF Parted

\* The shuffled list has each of the selected oracles at one place.
LEMMA ShuffledIs ==
  ASSUME SelTypeOK
  PROVE  Shuffled \in Bijection(1 .. Size, Selection)
<1>1. Parted(0)
  BY PickedIs, Sizes DEF SelTypeOK, Parted, IsInjective
<1>2. \A k \in 0 .. Size : Parted(k)
  <2> DEFINE T == {k \in 0 .. Size : ~Parted(k)}
  <2> SUFFICES ASSUME T # {} PROVE FALSE
    OBVIOUS
  <2>1. PICK k \in T : \A m \in T : k <= m
    <3>1. T \subseteq Nat
      BY Sizes
    <3> HIDE DEF T
    <3> QED
      BY <3>1, Smallest
  <2>2. k \in 1 .. Size /\ k - 1 \in 0 .. Size /\ ~(k <= k - 1)
    BY <1>1, <2>1, Sizes
  <2> QED
    BY <2>1, <2>2, PartedOnce
<1>3. Parted(Size)
  BY <1>2, Sizes
<1>4. Shuffled \in [1 .. Size -> Selection] /\ IsInjective(Shuffled)
  BY <1>3, Sizes DEF Parted, Shuffled
<1>5. Shuffled \in Injection(1 .. Size, Selection)
  BY <1>4 DEF Injection
<1>6. Cardinality(1 .. Size) = Size
  BY Sizes, FS_Interval
<1>7. Shuffled \in Surjection(1 .. Size, Selection)
  BY <1>5, <1>6, Sizes, FS_Injection DEF Size
<1> QED
  BY <1>5, <1>7 DEF Bijection

\* How many buckets a draw is beyond is at most how many there are.
LEMMA ChosenIs ==
  ASSUME NEW m \in 0 .. Size,
         \A k \in 1 .. m : Beyond(k), m = Size \/ ~Beyond(m + 1)
  PROVE  Chosen = m
<1> DEFINE passed == {k \in 1 .. Size : \A j \in 1 .. k : Beyond(j)}
<1>1. passed = 1 .. m
  BY Sizes
<1>2. Cardinality(1 .. m) = m
  BY Sizes, FS_Interval
<1> QED
  BY <1>1, <1>2 DEF Chosen

\* There is a first bucket the draw is not beyond, or none.
LEMMA FirstNotBeyond ==
  \E m \in 0 .. Size : (\A k \in 1 .. m : Beyond(k)) /\ (m = Size \/ ~Beyond(m + 1))
<1> DEFINE T == {k \in 1 .. Size : ~Beyond(k)}
<1>1. CASE T = {}
  BY <1>1, Sizes
<1>2. CASE T # {}
  <2>1. PICK k \in T : \A j \in T : k <= j
    <3>1. T \subseteq Nat
      BY Sizes
    <3> HIDE DEF T
    <3> QED
      BY <1>2, <3>1, Smallest
  <2>2. k \in 1 .. Size /\ k - 1 \in 0 .. Size /\ (k - 1) + 1 = k /\ ~Beyond(k)
    BY <2>1, Sizes
  <2>3. ASSUME NEW j \in 1 .. k - 1 PROVE Beyond(j)
    <3>1. j \in 1 .. Size /\ ~(k <= j)
      BY <2>2, Sizes
    <3> QED
      BY <2>1, <3>1
  <2> QED
    BY <2>2, <2>3
<1> QED
  BY <1>1, <1>2

\* Each place of the order is a place of the shuffled list, and one place of the order
\* is each.
LEMMA TurnsAre ==
  ASSUME SelTypeOK
  PROVE  /\ Chosen \in 0 .. Size
         /\ \A o \in Selection : \E i \in 1 .. Size :
              Turns[i] = o /\ \A j \in 1 .. Size : Turns[j] = o => j = i
<1> DEFINE From(i) == 1 + ((Chosen + i - 1) % Size)
<1>1. Chosen \in 0 .. Size
  BY FirstNotBeyond, ChosenIs
<1>2. \A i \in 1 .. Size : From(i) = IF Chosen + i - 1 < Size THEN Chosen + i ELSE Chosen + i - Size
  BY <1>1, Sizes, Rotation
<1> SUFFICES ASSUME NEW o \in Selection
             PROVE  \E i \in 1 .. Size :
                      Turns[i] = o /\ \A j \in 1 .. Size : Turns[j] = o => j = i
  BY <1>1
<1>3. PICK m \in 1 .. Size : Shuffled[m] = o
  BY ShuffledIs DEF Bijection, Surjection
<1> DEFINE i == IF m > Chosen THEN m - Chosen ELSE m - Chosen + Size
<1>4. i \in 1 .. Size /\ From(i) = m
  BY <1>1, <1>2, Sizes
<1>5. \A j \in 1 .. Size : From(j) \in 1 .. Size /\ (From(j) = m => j = i)
  BY <1>1, <1>2, Sizes
<1>6. \A j \in 1 .. Size : Turns[j] = Shuffled[From(j)]
  BY DEF Turns
<1> HIDE DEF i, From
<1>7. \A j \in 1 .. Size : Turns[j] = o => From(j) = m
  BY <1>3, <1>5, <1>6, ShuffledIs DEF Bijection, Injection, IsInjective
<1> QED
  BY <1>3, <1>4, <1>5, <1>6, <1>7

\* Every oracle that is selected has its turn, and has it once, for any list, any stakes
\* and any hash.
THEOREM Everyone == SelSpec => []EveryoneOnce
<1>1. SelTypeOK => EveryoneOnce
  <2> SUFFICES ASSUME SelTypeOK, NEW o \in Selection
               PROVE  Cardinality({i \in 1 .. Size : Turns[i] = o}) = 1
    BY DEF EveryoneOnce
  <2>1. PICK i \in 1 .. Size : Turns[i] = o /\ \A j \in 1 .. Size : Turns[j] = o => j = i
    BY TurnsAre
  <2>2. {j \in 1 .. Size : Turns[j] = o} = {i}
    BY <2>1
  <2> QED
    BY <2>2, FS_Singleton
<1> QED
  BY <1>1, ListInvariant, PTL

-----------------------------------------------------------------------------
(* The draw *)

\* The equations of Buckets have a solution, and the sums are numbers.
LEMMA BucketsAre ==
  ASSUME SelTypeOK
  PROVE  /\ Buckets[0] = 0
         /\ \A k \in 1 .. Size : /\ stake[Shuffled[k]] \in Nat
                                 /\ Buckets[k] = Buckets[k - 1] + stake[Shuffled[k]]
         /\ \A k \in 0 .. Size : Buckets[k] \in Nat
<1> DEFINE Solves(f, n) ==
             f = [k \in 0 .. n |-> IF k = 0 THEN 0 ELSE f[k - 1] + stake[Shuffled[k]]]
<1>1. Buckets = CHOOSE f : Solves(f, Size)
  BY DEF Buckets
<1>2. \A k \in 1 .. Size : stake[Shuffled[k]] \in Nat
  BY ShuffledIs, SelectionAssumption DEF Bijection, Injection, SelTypeOK
<1>3. \A n \in Nat : \E f : Solves(f, n)
  <2> DEFINE T == {n \in Nat : ~ \E f : Solves(f, n)}
  <2> SUFFICES ASSUME T # {} PROVE FALSE
    OBVIOUS
  <2>1. PICK n \in T : \A m \in T : n <= m
    <3>1. T \subseteq Nat
      OBVIOUS
    <3> HIDE DEF T
    <3> QED
      BY <3>1, Smallest
  <2>2. n # 0
    <3>1. Solves([k \in 0 .. 0 |-> 0], 0)
      OBVIOUS
    <3> QED
      BY <2>1, <3>1
  <2>3. PICK f : Solves(f, n - 1)
    <3>1. n - 1 \in Nat /\ ~(n <= n - 1)
      BY <2>1, <2>2
    <3> QED
      BY <2>1, <3>1
  <2> DEFINE g == [k \in 0 .. n |-> IF k = n THEN f[n - 1] + stake[Shuffled[n]] ELSE f[k]]
  <2>4. \A k \in 0 .. n : g[k] = IF k = 0 THEN 0 ELSE g[k - 1] + stake[Shuffled[k]]
    BY <2>1, <2>2, <2>3
  <2>5. Solves(g, n)
    BY <2>4
  <2> QED
    BY <2>1, <2>5
<1>4. Solves(Buckets, Size)
  BY <1>1, <1>3, Sizes
<1>5. Buckets[0] = 0 /\ \A k \in 1 .. Size : Buckets[k] = Buckets[k - 1] + stake[Shuffled[k]]
  BY <1>4, Sizes
<1>6. \A k \in 0 .. Size : Buckets[k] \in Nat
  <2> DEFINE T == {k \in 0 .. Size : Buckets[k] \notin Nat}
  <2> SUFFICES ASSUME T # {} PROVE FALSE
    OBVIOUS
  <2>1. PICK k \in T : \A m \in T : k <= m
    <3>1. T \subseteq Nat
      BY Sizes
    <3> HIDE DEF T
    <3> QED
      BY <3>1, Smallest
  <2>2. k \in 1 .. Size /\ k - 1 \in 0 .. Size /\ ~(k <= k - 1)
    BY <1>5, <2>1, Sizes
  <2>3. Buckets[k - 1] \in Nat
    BY <2>1, <2>2
  <2> QED
    BY <1>2, <1>5, <2>1, <2>2, <2>3
<1> QED
  BY <1>2, <1>5, <1>6

\* The value of some bytes, from the first one on.
Reads(value, bytes) ==
  /\ value[0] = 0
  /\ \A k \in 1 .. Size : value[k] = value[k - 1] * Byte + bytes[k]
  /\ \A k \in 0 .. Size : value[k] \in Nat

\* The equations of the number have a solution.
LEMMA NumberIs ==
  ASSUME NEW bytes \in Hash
  PROVE  \E value : Reads(value, bytes) /\ Number(bytes) = value[Size]
<1> DEFINE Solves(f, n) ==
             f = [k \in 0 .. n |-> IF k = 0 THEN 0 ELSE f[k - 1] * Byte + bytes[k]]
           value == CHOOSE f : Solves(f, Size)
<1>1. Number(bytes) = value[Size]
  BY DEF Number
<1>2. \A n \in Nat : \E f : Solves(f, n)
  <2> DEFINE T == {n \in Nat : ~ \E f : Solves(f, n)}
  <2> SUFFICES ASSUME T # {} PROVE FALSE
    OBVIOUS
  <2>1. PICK n \in T : \A m \in T : n <= m
    <3>1. T \subseteq Nat
      OBVIOUS
    <3> HIDE DEF T
    <3> QED
      BY <3>1, Smallest
  <2>2. n # 0
    <3>1. Solves([k \in 0 .. 0 |-> 0], 0)
      OBVIOUS
    <3> QED
      BY <2>1, <3>1
  <2>3. PICK f : Solves(f, n - 1)
    <3>1. n - 1 \in Nat /\ ~(n <= n - 1)
      BY <2>1, <2>2
    <3> QED
      BY <2>1, <3>1
  <2> DEFINE g == [k \in 0 .. n |-> IF k = n THEN f[n - 1] * Byte + bytes[n] ELSE f[k]]
  <2>4. \A k \in 0 .. n : g[k] = IF k = 0 THEN 0 ELSE g[k - 1] * Byte + bytes[k]
    BY <2>1, <2>2, <2>3
  <2>5. Solves(g, n)
    BY <2>4
  <2> QED
    BY <2>1, <2>5
<1>3. Solves(value, Size)
  BY <1>2, Sizes
<1> HIDE DEF value
<1>4. value[0] = 0 /\ \A k \in 1 .. Size : value[k] = value[k - 1] * Byte + bytes[k]
  BY <1>3, Sizes
<1>5. \A k \in 0 .. Size : value[k] \in Nat
  <2> DEFINE T == {k \in 0 .. Size : value[k] \notin Nat}
  <2> SUFFICES ASSUME T # {} PROVE FALSE
    OBVIOUS
  <2>1. PICK k \in T : \A m \in T : k <= m
    <3>1. T \subseteq Nat
      BY Sizes
    <3> HIDE DEF T
    <3> QED
      BY <3>1, Smallest
  <2>2. k \in 1 .. Size /\ k - 1 \in 0 .. Size /\ ~(k <= k - 1)
    BY <1>4, <2>1, Sizes
  <2>3. value[k - 1] \in Nat /\ bytes[k] \in Nat /\ Byte \in Nat
    BY <2>1, <2>2, Sizes DEF Hash
  <2>4. value[k - 1] * Byte + bytes[k] \in Nat
    BY <2>3
  <2> QED
    BY <1>4, <2>1, <2>2, <2>4
<1>6. Reads(value, bytes)
  BY <1>4, <1>5 DEF Reads
<1> QED
  BY <1>1, <1>6

\* A multiple of a larger number is no smaller.
LEMMA Monotone ==
  ASSUME NEW a \in Nat, NEW b \in Nat, NEW n \in Nat, a <= b
  PROVE  a * n <= b * n
<1>1. PICK d \in Nat : b = a + d
  <2>1. b - a \in Nat /\ b = a + (b - a)
    OBVIOUS
  <2> QED
    BY <2>1
<1>2. b * n = a * n + d * n /\ d * n \in Nat /\ a * n \in Nat
  BY <1>1
<1> QED
  BY <1>2

\* No hash is beyond the largest number.
LEMMA NumberIsBounded ==
  ASSUME NEW bytes \in Hash
  PROVE  Number(bytes) \in Nat /\ MaxInt \in Nat /\ Number(bytes) <= MaxInt
<1> DEFINE top == [k \in 1 .. Size |-> Byte - 1]
<1>1. top \in Hash /\ MaxInt = Number(top)
  BY Sizes DEF Hash, MaxInt
<1>2. \A k \in 1 .. Size : bytes[k] \in Nat /\ bytes[k] <= top[k] /\ top[k] \in Nat
  BY Sizes DEF Hash
<1> HIDE DEF top
<1>3. PICK v : Reads(v, bytes) /\ Number(bytes) = v[Size]
  BY NumberIs
<1>4. PICK w : Reads(w, top) /\ Number(top) = w[Size]
  BY <1>1, NumberIs
<1> DEFINE T == {k \in 0 .. Size : ~(v[k] <= w[k])}
<1>5. T = {}
  <2> SUFFICES ASSUME T # {} PROVE FALSE
    OBVIOUS
  <2>1. PICK k \in T : \A m \in T : k <= m
    <3>1. T \subseteq Nat
      BY Sizes
    <3> HIDE DEF T
    <3> QED
      BY <3>1, Smallest
  <2>2. k \in 1 .. Size /\ k - 1 \in 0 .. Size /\ ~(k <= k - 1)
    BY <1>3, <1>4, <2>1, Sizes DEF Reads
  <2>3. v[k - 1] <= w[k - 1] /\ v[k - 1] \in Nat /\ w[k - 1] \in Nat
    BY <1>3, <1>4, <2>1, <2>2 DEF Reads
  <2>4. v[k - 1] * Byte <= w[k - 1] * Byte /\ v[k - 1] * Byte \in Nat /\ w[k - 1] * Byte \in Nat
    BY <2>3, Sizes, Monotone
  <2>5. v[k - 1] * Byte + bytes[k] <= w[k - 1] * Byte + top[k]
    BY <1>2, <2>2, <2>4
  <2>6. v[k] <= w[k]
    BY <1>3, <1>4, <2>2, <2>5 DEF Reads
  <2> QED
    BY <2>1, <2>6
<1>6. v[Size] <= w[Size] /\ v[Size] \in Nat /\ w[Size] \in Nat
  BY <1>3, <1>4, <1>5, Sizes DEF Reads
<1> QED
  BY <1>1, <1>3, <1>4, <1>6

\* An oracle with nothing at stake is not chosen, whatever the stakes of the others and
\* the hash, but by a draw of zero.
THEOREM StakelessIsPassed == SelSpec => []StakelessIsNotChosen
<1>1. SelTypeOK => StakelessIsNotChosen
  <2> SUFFICES ASSUME SelTypeOK, stake[Turns[1]] = 0, Draw # 0
               PROVE  FALSE
    BY DEF StakelessIsNotChosen
  <2> DEFINE n == Number(hash)
             b == Buckets[Size]
  <2>1. n \in Nat /\ MaxInt \in Nat /\ n <= MaxInt /\ b \in Nat /\ Draw = b * n
    BY NumberIsBounded, BucketsAre, Sizes DEF SelTypeOK, Draw
  <2>2. ~Beyond(Size)
    <3> HIDE DEF n, b
    <3>1. n * b <= MaxInt * b /\ n * b = b * n /\ MaxInt * b = b * MaxInt
      BY <2>1, Monotone
    <3>2. b * n \in Nat /\ b * MaxInt \in Nat
      BY <2>1
    <3>3. ~(Draw > b * MaxInt)
      BY <2>1, <3>1, <3>2
    <3> QED
      BY <3>3 DEF Beyond, b
  <2>3. PICK m \in 0 .. Size : (\A k \in 1 .. m : Beyond(k)) /\ (m = Size \/ ~Beyond(m + 1))
    BY FirstNotBeyond
  <2>4. m < Size /\ m + 1 \in 1 .. Size
    BY <2>2, <2>3, Sizes
  <2>5. Turns[1] = Shuffled[m + 1]
    <3>1. Chosen = m
      BY <2>3, ChosenIs
    <3>2. (m + 1 - 1) % Size = m
      BY <2>4, Sizes, Rotation
    <3>3. Turns[1] = Shuffled[1 + ((m + 1 - 1) % Size)]
      BY <3>1, Sizes DEF Turns
    <3> QED
      BY <2>4, <3>2, <3>3
  <2>6. Buckets[m + 1] = Buckets[m] /\ Buckets[m] \in Nat
    <3>1. Buckets[m + 1] = Buckets[(m + 1) - 1] + stake[Shuffled[m + 1]] /\ Buckets[m] \in Nat
      BY <2>4, BucketsAre
    <3> QED
      BY <2>5, <3>1
  <2>7. ~(Draw > Buckets[m] * MaxInt)
    BY <2>3, <2>4, <2>6 DEF Beyond
  <2>8. m = 0
    BY <2>3, <2>4, <2>7, Sizes DEF Beyond
  <2>9. Buckets[m] * MaxInt = 0
    BY <2>1, <2>8, BucketsAre
  <2>10. Draw \in Nat
    BY <2>1
  <2> QED
    BY <2>7, <2>9, <2>10
<1> QED
  BY <1>1, ListInvariant, PTL
=============================================================================
