----------------------------- MODULE Node_proofs -----------------------------
(* What the loops of a node around its core promise, for any number of coin pairs,
   any subscriptions, any prices, limits and settings, any addresses and any calls
   that fail; and that their composition keeps the types of all of them.         *)
EXTENDS MCNode, SelectNext_proofs, MainLoop_proofs

-----------------------------------------------------------------------------
(* The coin pairs that run: OracleLoop *)

Found == [Addr -> (SUBSET Pair) \cup {Failed}]

Running == [stage : {"reading"}, addr : Addr, owner_known : BOOLEAN, todo : SUBSET Pair,
            found : Found, lapsed : [Addr -> SUBSET Pair]]

\* A list that is an error is not asked for any more, and that of the owner is empty
\* before it is asked for.
ErrorInv ==
  pass # Asleep =>
    /\ pass.found[pass.addr] = Failed => pass.todo = {}
    /\ pass.addr = "oracle" => pass.found["owner"] = {}

TypeInv == LoopsTypeOK /\ ErrorInv

\* A pass is asleep or reads.
LEMMA PassIs ==
  ASSUME LoopsTypeOK, pass # Asleep
  PROVE  /\ pass \in Running /\ pass.stage = "reading"
         /\ pass.addr \in Addr /\ pass.found \in Found /\ pass.todo \subseteq Pair
         /\ pass.lapsed \in [Addr -> SUBSET Pair]
BY DEF LoopsTypeOK, Running, Found

\* A pass that reads about an address is awake and at that address.
LEMMA Awake ==
  ASSUME NEW a, Reading(a)
  PROVE  pass # Asleep /\ pass.addr = a
BY DEF Reading, Asleep

\* What a failed call leaves is no set of coin pairs, and not the empty set either.
LEMMA NoPair == Failed # {} /\ \A S \in SUBSET Pair : S # Failed
BY DEF Failed, Pair

\* The types, and where errors may stand in the place of lists.
LEMMA TypeInvariant == LoopsSpec => []TypeInv
<1>1. LoopsInit => TypeInv
  BY LoopsAssumption DEF LoopsInit, TypeInv, LoopsTypeOK, ErrorInv, Asleep
<1>2. TypeInv /\ [LoopsNext]_loopsVars => TypeInv'
  <2> SUFFICES ASSUME TypeInv, [LoopsNext]_loopsVars
               PROVE  TypeInv'
    OBVIOUS
  <2> USE DEF TypeInv
  <2>1. ASSUME NEW a \in Addr, NEW p \in Pair, Subscribe(a, p)
        PROVE  TypeInv'
    BY <2>1 DEF Subscribe, LoopsTypeOK, ErrorInv
  <2>2. ASSUME NEW a \in Addr, NEW p \in Pair, Unsubscribe(a, p)
        PROVE  TypeInv'
    <3>1. CASE pass = Asleep
      BY <2>2, <3>1 DEF Unsubscribe, LoopsTypeOK, ErrorInv
    <3>2. CASE pass # Asleep
      <4>1. pass' = [pass EXCEPT !.lapsed[a] = @ \cup {p}]
        BY <2>2, <3>2 DEF Unsubscribe
      <4>2. pass' \in Running /\ pass'.addr = pass.addr /\ pass'.todo = pass.todo
              /\ pass'.found = pass.found
        BY <3>2, <4>1, PassIs DEF Running
      <4>3. ErrorInv'
        BY <3>2, <4>2 DEF ErrorInv
      <4> QED
        BY <2>2, <4>2, <4>3 DEF Unsubscribe, LoopsTypeOK, Running, Found
    <3> QED
      BY <3>1, <3>2
  <2>3. CASE StartPass
    <3>1. \E known \in BOOLEAN : Begin(known)
      BY <2>3 DEF StartPass
    <3>2. pass' \in Running /\ pass'.addr = "oracle" /\ \A a \in Addr : pass'.found[a] = {}
      BY <3>1 DEF Begin, Running, Found, Addr, Lapsed
    <3>3. failures' \in 0 .. MaxFailures
      <4>1. UNCHANGED failures \/ CallFails
        BY <2>3, Zenon DEF StartPass
      <4> QED
        BY <4>1, LoopsAssumption DEF CallFails, LoopsTypeOK
    <3>4. ErrorInv'
      BY <3>2, NoPair DEF ErrorInv, Addr
    <3> QED
      BY <2>3, <3>2, <3>3, <3>4 DEF StartPass, LoopsTypeOK, Running, Found
  <2>4. CASE AskForOwner
    <3>1. pass # Asleep /\ pass.addr = "oracle" /\ pass' = [pass EXCEPT !.addr = "owner", !.todo = Pair]
      BY <2>4, Awake DEF AskForOwner
    <3>2. pass' \in Running /\ pass'.addr = "owner" /\ pass'.found = pass.found
      BY <3>1, PassIs DEF Running, Addr
    <3>3. ErrorInv'
      BY <3>1, <3>2, NoPair DEF ErrorInv
    <3> QED
      BY <2>4, <3>2, <3>3 DEF AskForOwner, LoopsTypeOK, Running, Found
  <2>5. CASE Reconcile
    <3>1. running' \subseteq Pair
      <4>1. CASE ListsUnusable
        BY <2>5, <4>1 DEF Reconcile, LoopsTypeOK
      <4>2. CASE ~ListsUnusable
        <5>1. pass.found["oracle"] \in SUBSET Pair /\ pass.found["owner"] \in SUBSET Pair
          <6>1. pass # Asleep
            BY <2>5, Awake DEF Reconcile
          <6>2. pass.found \in Found
            BY <6>1, PassIs
          <6>3. pass.found["oracle"] # Failed /\ pass.found["owner"] # Failed
            BY <4>2 DEF ListsUnusable
          <6> QED
            BY <6>2, <6>3 DEF Found, Addr
        <5> QED
          BY <2>5, <4>2, <5>1 DEF Reconcile, Listed, Added, LoopsTypeOK
      <4> QED
        BY <4>1, <4>2
    <3> QED
      BY <2>5, <3>1 DEF Reconcile, LoopsTypeOK, ErrorInv
  <2>6. ASSUME NEW a \in Addr, ListFails(a)
        PROVE  TypeInv'
    <3>1. pass # Asleep /\ pass.addr = a /\ pass' = [pass EXCEPT !.todo = {}, !.found[a] = Failed]
      BY <2>6, Awake DEF ListFails
    <3> DEFINE found == [pass.found EXCEPT ![a] = Failed]
    <3>a. found \in Found /\ (a = "oracle" => found["owner"] = pass.found["owner"])
      BY <3>1, PassIs DEF Found, Addr
    <3>b. pass' = [pass EXCEPT !.todo = {}, !.found = found]
      BY <3>1, PassIs DEF Running
    <3> HIDE DEF found
    <3>2. pass' \in Running /\ pass'.addr = a /\ pass'.todo = {}
            /\ (a = "oracle" => pass'.found["owner"] = pass.found["owner"])
      BY <3>1, <3>a, <3>b, PassIs DEF Running
    <3>3. ErrorInv'
      BY <3>1, <3>2 DEF ErrorInv
    <3>4. failures' \in 0 .. MaxFailures
      BY <2>6, LoopsAssumption DEF ListFails, CallFails, LoopsTypeOK
    <3> QED
      BY <2>6, <3>2, <3>3, <3>4 DEF ListFails, LoopsTypeOK, Running, Found
  <2>7. ASSUME NEW a \in Addr, NEW p \in Pair, IsSubscribed(a, p)
        PROVE  TypeInv'
    <3>1. pass # Asleep /\ pass.addr = a /\ p \in pass.todo
      BY <2>7, Awake DEF IsSubscribed
    <3>2. PICK new \in SUBSET {p} :
            pass' = [pass EXCEPT !.todo = @ \ {p}, !.found[a] = @ \cup new]
      BY <2>7 DEF IsSubscribed
    <3>3. pass.found[a] \in SUBSET Pair
      <4>1. pass.found[a] # Failed
        BY <3>1 DEF ErrorInv
      <4>2. pass.found \in Found
        BY <3>1, PassIs
      <4> QED
        BY <4>1, <4>2 DEF Found
    <3>4. pass.found[a] \cup new \in SUBSET Pair
      BY <3>3
    <3>5. /\ pass' \in Running /\ pass'.addr = a
          /\ pass'.found[a] = pass.found[a] \cup new
          /\ a = "oracle" => pass'.found["owner"] = pass.found["owner"]
      BY <3>1, <3>2, <3>4, PassIs DEF Running, Found, Addr
    <3>6. ErrorInv'
      BY <3>1, <3>4, <3>5, NoPair DEF ErrorInv
    <3>7. failures' \in 0 .. MaxFailures
      BY <2>7, LoopsAssumption DEF IsSubscribed, CallFails, LoopsTypeOK
    <3> QED
      BY <2>7, <3>5, <3>6, <3>7 DEF IsSubscribed, LoopsTypeOK, Running, Found
  <2>8. CASE UNCHANGED loopsVars
    BY <2>8 DEF loopsVars, LoopsTypeOK, ErrorInv
  <2> QED
    BY <2>1, <2>2, <2>3, <2>4, <2>5, <2>6, <2>7, <2>8 DEF LoopsNext, Call
<1> QED
  BY <1>1, <1>2, PTL DEF LoopsSpec

\* The variables of NodeLoops keep their types.
THEOREM LoopsTypeCorrect == LoopsSpec => []LoopsTypeOK
BY TypeInvariant, PTL DEF TypeInv

-----------------------------------------------------------------------------
\* What has been asked for in the running pass.
Asked(a, p) ==
  \/ pass.addr = "owner" /\ a = "oracle"
  \/ pass.addr = a /\ p \notin pass.todo

\* A list that is no error leaves out only pairs the address was, at some moment of
\* the pass, not subscribed to.
LapseInv ==
  pass # Asleep =>
    \A a \in Addr, p \in Pair :
      /\ p \notin subscribed[a] => p \in pass.lapsed[a]
      /\ Asked(a, p) /\ pass.found[a] # Failed /\ p \notin pass.found[a] => p \in pass.lapsed[a]

\* Every coin pair the pass missed or did not see was unsubscribed at a time during it.
LEMMA LapseInvariant == LoopsSpec => []LapseInv
<1>1. LoopsInit => LapseInv
  BY DEF LoopsInit, LapseInv
<1>2. TypeInv /\ LapseInv /\ [LoopsNext]_loopsVars => LapseInv'
  <2> SUFFICES ASSUME TypeInv, LapseInv, [LoopsNext]_loopsVars, pass' # Asleep,
                      NEW b \in Addr, NEW q \in Pair
               PROVE  /\ q \notin subscribed'[b] => q \in pass'.lapsed[b]
                      /\ Asked(b, q)' /\ pass'.found[b] # Failed /\ q \notin pass'.found[b]
                           => q \in pass'.lapsed[b]
    BY DEF LapseInv
  <2> USE DEF TypeInv
  <2>1. ASSUME NEW a \in Addr, NEW p \in Pair, Subscribe(a, p)
        PROVE  /\ q \notin subscribed'[b] => q \in pass'.lapsed[b]
               /\ Asked(b, q)' /\ pass'.found[b] # Failed /\ q \notin pass'.found[b]
                    => q \in pass'.lapsed[b]
    BY <2>1 DEF Subscribe, LoopsTypeOK, LapseInv, Asked
  <2>2. ASSUME NEW a \in Addr, NEW p \in Pair, Unsubscribe(a, p)
        PROVE  /\ q \notin subscribed'[b] => q \in pass'.lapsed[b]
               /\ Asked(b, q)' /\ pass'.found[b] # Failed /\ q \notin pass'.found[b]
                    => q \in pass'.lapsed[b]
    <3>1. pass # Asleep /\ pass' = [pass EXCEPT !.lapsed[a] = @ \cup {p}]
      BY <2>2 DEF Unsubscribe
    <3>2. /\ pass'.addr = pass.addr /\ pass'.todo = pass.todo /\ pass'.found = pass.found
          /\ pass'.lapsed = [pass.lapsed EXCEPT ![a] = @ \cup {p}]
      BY <3>1, PassIs DEF Running
    <3>3. pass'.lapsed[b] = IF b = a THEN pass.lapsed[b] \cup {p} ELSE pass.lapsed[b]
      <4>1. pass.lapsed \in [Addr -> SUBSET Pair]
        BY <3>1, PassIs
      <4> QED
        BY <3>2, <4>1
    <3>4. q \notin subscribed'[b] => q \notin subscribed[b] \/ (a = b /\ p = q)
      BY <2>2 DEF Unsubscribe, LoopsTypeOK
    <3> QED
      BY <3>1, <3>2, <3>3, <3>4 DEF LapseInv, Asked
  <2>3. CASE StartPass
    <3>1. PICK known \in BOOLEAN : Begin(known)
      BY <2>3 DEF StartPass
    <3>2. pass'.addr = "oracle" /\ pass'.todo = Pair /\ pass'.lapsed[b] = Pair \ subscribed[b]
      BY <3>1 DEF Begin, Lapsed, Addr
    <3> QED
      BY <2>3, <3>2 DEF StartPass, Asked
  <2>4. CASE AskForOwner
    <3>1. /\ pass # Asleep /\ pass.addr = "oracle" /\ pass.todo = {}
          /\ pass' = [pass EXCEPT !.addr = "owner", !.todo = Pair]
      BY <2>4, Awake DEF AskForOwner
    <3>2. /\ pass'.addr = "owner" /\ pass'.todo = Pair
          /\ pass'.found = pass.found /\ pass'.lapsed = pass.lapsed
      BY <3>1, PassIs DEF Running
    <3> QED
      BY <2>4, <3>1, <3>2 DEF AskForOwner, LapseInv, Asked
  <2>5. CASE Reconcile
    BY <2>5 DEF Reconcile
  <2>6. ASSUME NEW a \in Addr, ListFails(a)
        PROVE  /\ q \notin subscribed'[b] => q \in pass'.lapsed[b]
               /\ Asked(b, q)' /\ pass'.found[b] # Failed /\ q \notin pass'.found[b]
                    => q \in pass'.lapsed[b]
    <3>1. pass # Asleep /\ pass.addr = a /\ pass' = [pass EXCEPT !.todo = {}, !.found[a] = Failed]
      BY <2>6, Awake DEF ListFails
    <3>2. /\ pass'.addr = a /\ pass'.lapsed = pass.lapsed
          /\ pass'.found = [pass.found EXCEPT ![a] = Failed]
      BY <3>1, PassIs DEF Running
    <3>3. pass'.found[b] = IF b = a THEN Failed ELSE pass.found[b]
      BY <3>1, <3>2, PassIs DEF Found
    <3> QED
      BY <2>6, <3>1, <3>2, <3>3 DEF ListFails, LapseInv, Asked
  <2>7. ASSUME NEW a \in Addr, NEW p \in Pair, IsSubscribed(a, p)
        PROVE  /\ q \notin subscribed'[b] => q \in pass'.lapsed[b]
               /\ Asked(b, q)' /\ pass'.found[b] # Failed /\ q \notin pass'.found[b]
                    => q \in pass'.lapsed[b]
    <3>1. pass # Asleep /\ pass.addr = a /\ p \in pass.todo /\ pass.found[a] # Failed
      BY <2>7, Awake DEF IsSubscribed, ErrorInv
    <3>2. PICK new \in SUBSET {p} :
            /\ pass' = [pass EXCEPT !.todo = @ \ {p}, !.found[a] = @ \cup new]
            /\ p \in subscribed[a] => p \in new
      <4>1. CASE pass' = [pass EXCEPT !.todo = @ \ {p}, !.found[a] = @ \cup {p}]
        BY <4>1
      <4>2. CASE pass' = [pass EXCEPT !.todo = @ \ {p}, !.found[a] = @ \cup ({p} \cap subscribed[a])]
        <5> DEFINE new == {p} \cap subscribed[a]
        <5>1. new \in SUBSET {p} /\ (p \in subscribed[a] => p \in new)
          OBVIOUS
        <5> QED
          BY <4>2, <5>1
      <4> QED
        BY <2>7, <4>1, <4>2, Zenon DEF IsSubscribed
    <3>3. /\ pass'.addr = a /\ pass'.lapsed = pass.lapsed /\ pass'.todo = pass.todo \ {p}
          /\ pass'.found = [pass.found EXCEPT ![a] = @ \cup new]
      BY <3>1, <3>2, PassIs DEF Running
    <3>4. pass'.found[b] = IF b = a THEN pass.found[b] \cup new ELSE pass.found[b]
      BY <3>1, <3>3, PassIs DEF Found
    <3> QED
      BY <2>7, <3>1, <3>2, <3>3, <3>4 DEF IsSubscribed, LapseInv, Asked
  <2>8. CASE UNCHANGED loopsVars
    BY <2>8 DEF loopsVars, LapseInv, Asked
  <2> QED
    BY <2>1, <2>2, <2>3, <2>4, <2>5, <2>6, <2>7, <2>8 DEF LoopsNext, Call
<1> QED
  BY <1>1, <1>2, TypeInvariant, PTL DEF LoopsSpec

\* A coin pair is stopped only in a pass during which neither the oracle nor its owner
\* was subscribed to it all the time, however many calls failed and wherever.
THEOREM FailuresAreHarmless == LoopsSpec => FailuresStopNothing
<1>1. TypeInv /\ LapseInv /\ [LoopsNext]_loopsVars
        => [\A p \in running \ running' : \A a \in Addr : p \in pass.lapsed[a]]_loopsVars
  <2> SUFFICES ASSUME TypeInv, LapseInv, LoopsNext, NEW p \in running \ running', NEW a \in Addr
               PROVE  p \in pass.lapsed[a]
    OBVIOUS
  <2>1. Reconcile
    BY DEF LoopsNext, Call, StartPass, AskForOwner, ListFails, IsSubscribed, Subscribe, Unsubscribe
  <2>2. pass # Asleep /\ pass.addr = "owner" /\ pass.todo = {}
    BY <2>1, Awake DEF Reconcile
  <2>3. ~ListsUnusable /\ p \notin Listed
    BY <2>1 DEF Reconcile
  <2>4. pass.found[a] # Failed /\ p \notin pass.found[a]
    BY <2>3 DEF ListsUnusable, Listed, Addr
  <2>5. Asked(a, p) /\ p \in Pair
    BY <2>2 DEF Asked, Addr, TypeInv, LoopsTypeOK
  <2> QED
    BY <2>2, <2>4, <2>5 DEF LapseInv
<1> QED
  BY <1>1, TypeInvariant, LapseInvariant, PTL DEF LoopsSpec, FailuresStopNothing

-----------------------------------------------------------------------------
(* The price of gas: GasCalculator *)

\* Max of two numbers is the larger one.
LEMMA MaxOfTwo ==
  ASSUME NEW a \in Int, NEW b \in Int
  PROVE  Max({a, b}) = IF a >= b THEN a ELSE b
<1> DEFINE IsMax(x) == \A y \in {a, b} : x >= y
           m == IF a >= b THEN a ELSE b
<1>1. m \in {a, b} /\ IsMax(m)
  OBVIOUS
<1>2. \A x \in {a, b} : IsMax(x) => x = m
  OBVIOUS
<1>3. Max({a, b}) = CHOOSE x \in {a, b} : IsMax(x)
  BY DEF Max
<1> HIDE DEF m, IsMax
<1>4. Max({a, b}) = m
  BY <1>1, <1>2, <1>3
<1> QED
  BY <1>4 DEF m

\* Min of two numbers is the smaller one.
LEMMA MinOfTwo ==
  ASSUME NEW a \in Int, NEW b \in Int
  PROVE  Min({a, b}) = IF a <= b THEN a ELSE b
<1> DEFINE IsMin(x) == \A y \in {a, b} : x <= y
           m == IF a <= b THEN a ELSE b
<1>1. m \in {a, b} /\ IsMin(m)
  OBVIOUS
<1>2. \A x \in {a, b} : IsMin(x) => x = m
  OBVIOUS
<1>3. Min({a, b}) = CHOOSE x \in {a, b} : IsMin(x)
  BY DEF Min
<1> HIDE DEF m, IsMin
<1>4. Min({a, b}) = m
  BY <1>1, <1>2, <1>3
<1> QED
  BY <1>4 DEF m

\* Max of three numbers is one of them, and no smaller than any.
LEMMA MaxOfThree ==
  ASSUME NEW a \in Int, NEW b \in Int, NEW c \in Int
  PROVE  LET m == Max({a, b, c})
         IN  m \in {a, b, c} /\ m >= a /\ m >= b /\ m >= c
<1> DEFINE IsMax(x) == \A y \in {a, b, c} : x >= y
           m == IF a >= b THEN IF a >= c THEN a ELSE c ELSE IF b >= c THEN b ELSE c
<1>1. m \in {a, b, c} /\ IsMax(m)
  OBVIOUS
<1>2. Max({a, b, c}) = CHOOSE x \in {a, b, c} : IsMax(x)
  BY DEF Max
<1> HIDE DEF m
<1>3. Max({a, b, c}) \in {a, b, c} /\ IsMax(Max({a, b, c}))
  BY <1>1, <1>2
<1> QED
  BY <1>3

\* A percentage of a price, truncated as int() does, is a price.
LEMMA Percent ==
  ASSUME NEW a \in Nat
  PROVE  a \div 100 \in Nat
OBVIOUS

\* A product of prices is a price.
LEMMA Product ==
  ASSUME NEW a \in Nat, NEW b \in Nat
  PROVE  a * b \in Nat
OBVIOUS

-----------------------------------------------------------------------------
Price == Nat \cup {NoPrice}

\* What get_current() compares the chain's price with is a price.
LEMMA LastPriceIsPrice ==
  ASSUME GasTypeOK
  PROVE  GetLastPrice \in Nat
<1>1. CASE last_price = NoPrice
  BY <1>1, GasAssumption DEF GetLastPrice
<1>2. CASE last_price # NoPrice
  <2>1. last_price \in Nat
    BY <1>2 DEF GasTypeOK
  <2>2. last_price * Admitted \in Nat
    BY <2>1, GasAssumption, Product
  <2>3. (last_price * Admitted) \div 100 \in Nat
    BY <2>2, Percent
  <2>4. PlusPercentage(last_price) \in Nat
    BY <2>1, <2>3 DEF PlusPercentage
  <2> QED
    BY <1>2, <2>4 DEF GetLastPrice
<1> QED
  BY <1>1, <1>2

\* An answer of the chain counts for no more than that.
LEMMA InRangeIsBounded ==
  ASSUME GasTypeOK, NEW price \in Price
  PROVE  InRange(price) \in Nat /\ InRange(price) <= GetLastPrice
BY LastPriceIsPrice DEF InRange, Price

\* What the lower limit raises a price to, with the gas limit contract and without it.
LEMMA RaisedAbove ==
  ASSUME NEW price \in Nat, NEW value \in Price
  PROVE  LET r == Raised(price, value)
         IN  /\ r \in Nat /\ r >= price /\ r >= HardMin
             /\ value # NoPrice => r >= value + 1
             /\ r = price \/ r = HardMin \/ (value # NoPrice /\ r = value + 1)
<1>1. HardMin \in Nat /\ NoPrice \notin Nat
  BY GasAssumption
<1>2. CASE value = NoPrice
  <2>1. Raised(price, value) = Max({price, HardMin})
    <3>1. {price, HardMin} \cup {} = {price, HardMin}
      OBVIOUS
    <3> QED
      BY <1>2, <3>1 DEF Raised
  <2>2. Max({price, HardMin}) = IF price >= HardMin THEN price ELSE HardMin
    BY <1>1, MaxOfTwo
  <2> QED
    BY <1>1, <1>2, <2>1, <2>2
<1>3. CASE value # NoPrice
  <2>1. value \in Nat /\ value + 1 \in Int
    BY <1>3 DEF Price
  <2>2. Raised(price, value) = Max({price, HardMin, value + 1})
    <3>1. {price, HardMin} \cup {value + 1} = {price, HardMin, value + 1}
      OBVIOUS
    <3> QED
      BY <1>3, <3>1 DEF Raised
  <2> DEFINE m == Max({price, HardMin, value + 1})
  <2>3. m \in {price, HardMin, value + 1} /\ m >= price /\ m >= HardMin /\ m >= value + 1
    <3>1. price \in Int /\ HardMin \in Int /\ value + 1 \in Int
      BY <1>1, <2>1
    <3> QED
      BY <3>1, MaxOfThree, Zenon
  <2> HIDE DEF m
  <2>4. /\ m \in Nat /\ m >= price /\ m >= HardMin /\ m >= value + 1
        /\ m = price \/ m = HardMin \/ m = value + 1
    BY <1>1, <2>1, <2>3
  <2> QED
    BY <1>3, <2>2, <2>4 DEF m
<1> QED
  BY <1>2, <1>3

\* What the upper limit makes of a price.
LEMMA CappedIs ==
  ASSUME NEW price \in Nat
  PROVE  /\ Capped(price) \in Nat /\ Capped(price) <= price
         /\ Capped(price) = IF HardMax # 0 /\ HardMax < price THEN HardMax ELSE price
<1>1. HardMax \in Nat
  BY GasAssumption
<1>2. Min({price, HardMax}) = IF price <= HardMax THEN price ELSE HardMax
  BY <1>1, MinOfTwo
<1> QED
  BY <1>1, <1>2 DEF Capped

\* Current, from what it is computed of to what it is compared with.
LEMMA CurrentIs ==
  ASSUME GasTypeOK, NEW price \in Price, NEW value \in Price
  PROVE  /\ Current(price, value) \in Nat
         /\ \E r \in Nat :
              /\ Current(price, value) = Capped(r)
              /\ r >= HardMin /\ (value # NoPrice => r >= value + 1)
              /\ \/ r <= GetLastPrice * Multiplier
                 \/ r = HardMin
                 \/ value # NoPrice /\ r = value + 1
<1> DEFINE base == InRange(price)
           up   == base * Multiplier
           r    == Raised(up, value)
<1>1. base \in Nat /\ base <= GetLastPrice /\ GetLastPrice \in Nat /\ Multiplier \in Nat
  BY InRangeIsBounded, LastPriceIsPrice, GasAssumption
<1> HIDE DEF base
<1>2. up \in Nat /\ up <= GetLastPrice * Multiplier
  BY <1>1, Product, Monotone
<1> HIDE DEF up
<1>3. /\ r \in Nat /\ r >= up /\ r >= HardMin
      /\ value # NoPrice => r >= value + 1
      /\ r = up \/ r = HardMin \/ (value # NoPrice /\ r = value + 1)
  BY <1>2, RaisedAbove
<1>4. Current(price, value) = Capped(r)
  BY DEF Current, r, up, base
<1> HIDE DEF r
<1>5. Capped(r) \in Nat
  BY <1>3, CappedIs
<1> QED
  BY <1>2, <1>3, <1>4, <1>5

-----------------------------------------------------------------------------
\* The variables of GasPrice keep their types.
THEOREM GasTypeCorrect == GasSpec => []GasTypeOK
<1>1. GasInit => GasTypeOK
  BY DEF GasInit, GasTypeOK
<1>2. GasTypeOK /\ [GasNext]_gasVars => GasTypeOK'
  <2> SUFFICES ASSUME GasTypeOK, [GasNext]_gasVars
               PROVE  GasTypeOK'
    OBVIOUS
  <2>1. CASE NetworkMoves
    BY <2>1 DEF NetworkMoves, GasTypeOK
  <2>2. CASE LimitMoves
    BY <2>2 DEF LimitMoves, GasTypeOK
  <2>3. ASSUME NEW c \in Caller, NEW price \in {network, NoPrice}, AskPrice(c, price)
        PROVE  GasTypeOK'
    <3>1. price \in GasPrices \cup {NoPrice}
      BY DEF GasTypeOK
    <3> QED
      BY <2>3, <3>1 DEF AskPrice, GasTypeOK
  <2>4. ASSUME NEW c \in Caller, NEW value \in {limit, NoPrice}, SetLastPrice(c, value)
        PROVE  GasTypeOK'
    <3>1. calls[c][1] \in Price /\ value \in Limits \cup {NoPrice} /\ value \in Price
      BY <2>4, GasAssumption DEF SetLastPrice, GasTypeOK, Price
    <3>2. Current(calls[c][1], value) \in Nat
      BY <3>1, CurrentIs
    <3> QED
      BY <2>4, <3>1, <3>2 DEF SetLastPrice, GasTypeOK
  <2>5. CASE UNCHANGED gasVars
    BY <2>5 DEF gasVars, GasTypeOK
  <2> QED
    BY <2>1, <2>2, <2>3, <2>4, <2>5 DEF GasNext
<1> QED
  BY <1>1, <1>2, PTL DEF GasSpec

\* The price of every transaction is within the limits, whatever the chain answered,
\* however old it was, and whatever the gas limit contract held.
THEOREM Limited == GasSpec => []WithinHardLimits
<1>1. GasInit => WithinHardLimits
  BY DEF GasInit, WithinHardLimits
<1>2. GasTypeOK /\ WithinHardLimits /\ [GasNext]_gasVars => WithinHardLimits'
  <2> SUFFICES ASSUME GasTypeOK, WithinHardLimits, [GasNext]_gasVars
               PROVE  WithinHardLimits'
    OBVIOUS
  <2>1. ASSUME NEW c \in Caller, NEW value \in {limit, NoPrice}, SetLastPrice(c, value)
        PROVE  WithinHardLimits'
    <3>1. calls[c][1] \in Price /\ value \in Price
      BY <2>1, GasAssumption DEF SetLastPrice, GasTypeOK, Price
    <3>2. PICK r \in Nat : /\ last_price' = Capped(r)
                           /\ r >= HardMin /\ (value # NoPrice => r >= value + 1)
      BY <2>1, <3>1, CurrentIs DEF SetLastPrice
    <3>3. /\ Capped(r) = IF HardMax # 0 /\ HardMax < r THEN HardMax ELSE r
          /\ Capped(HardMin) = IF HardMax # 0 /\ HardMax < HardMin THEN HardMax ELSE HardMin
      BY CappedIs, GasAssumption
    <3>4. outbid' = value /\ (value # NoPrice => value \in Nat)
      BY <2>1, <3>1 DEF SetLastPrice, Price
    <3> QED
      BY <3>2, <3>3, <3>4, GasAssumption DEF WithinHardLimits, Capped
  <2>2. CASE UNCHANGED <<last_price, outbid>>
    BY <2>2 DEF WithinHardLimits, Capped
  <2>3. NetworkMoves \/ LimitMoves \/ (\E c \in Caller : \E price \in {network, NoPrice} : AskPrice(c, price))
          \/ UNCHANGED gasVars => UNCHANGED <<last_price, outbid>>
    BY DEF NetworkMoves, LimitMoves, AskPrice, gasVars
  <2> QED
    BY <2>1, <2>2, <2>3 DEF GasNext
<1> QED
  BY <1>1, <1>2, GasTypeCorrect, PTL DEF GasSpec

\* One answer of the chain raises the price by no more than the admitted percentage,
\* times the multiplier, apart from the limits.
THEOREM Tamed == GasSpec => SpikesAreTamed
<1> DEFINE Bound == Max({GetLastPrice * Multiplier, HardMin}
                          \cup (IF outbid' = NoPrice THEN {} ELSE {outbid' + 1}))
<1>1. GasTypeOK /\ [GasNext]_gasVars => [last_price' # last_price => last_price' <= Bound]_gasVars
  <2> SUFFICES ASSUME GasTypeOK, GasNext, last_price' # last_price
               PROVE  last_price' <= Bound
    OBVIOUS
  <2>1. PICK c \in Caller, value \in {limit, NoPrice} : SetLastPrice(c, value)
    BY DEF GasNext, NetworkMoves, LimitMoves, AskPrice
  <2>2. calls[c][1] \in Price /\ value \in Price
    BY <2>1, GasAssumption DEF SetLastPrice, GasTypeOK, Price
  <2>3. PICK r \in Nat :
          /\ last_price' = Capped(r)
          /\ \/ r <= GetLastPrice * Multiplier
             \/ r = HardMin
             \/ value # NoPrice /\ r = value + 1
    BY <2>1, <2>2, CurrentIs DEF SetLastPrice
  <2>4. last_price' \in Nat /\ last_price' <= r
    BY <2>3, CappedIs
  <2>5. outbid' = value
    BY <2>1 DEF SetLastPrice
  <2> DEFINE up == GetLastPrice * Multiplier
  <2>6. up \in Nat
    BY LastPriceIsPrice, GasAssumption, Product
  <2>7. Bound = Raised(up, value)
    BY <2>5 DEF Raised
  <2> HIDE DEF up
  <2>8. /\ Raised(up, value) \in Nat /\ Raised(up, value) >= up /\ Raised(up, value) >= HardMin
        /\ value # NoPrice => Raised(up, value) >= value + 1
    BY <2>2, <2>6, RaisedAbove
  <2>9. r <= Raised(up, value)
    BY <2>2, <2>3, <2>6, <2>8, GasAssumption DEF up, Price
  <2> QED
    BY <2>4, <2>7, <2>8, <2>9
<1> QED
  BY <1>1, GasTypeCorrect, PTL DEF GasSpec, SpikesAreTamed

-----------------------------------------------------------------------------
(* The addresses a node signs for: IpFilterLoop *)

\* The ages are told apart beyond three intervals.
LEMMA LongestIsLong == Longest \in Nat /\ Longest > 2 * Interval /\ Interval \in Nat \ {0}
<1>1. Cardinality(Ip) \in Nat
  BY IpAssumption, FS_CardinalityType
<1> QED
  BY <1>1, IpAssumption DEF Longest, Retry

\* The age of an address after a second.
LEMMA Older ==
  ASSUME NEW a \in 0 .. Longest
  PROVE  /\ Min({a + 1, Longest}) \in 0 .. Longest
         /\ Min({a + 1, Longest}) <= a + 1
         /\ Min({a + 1, Longest}) <= 2 * Interval => a <= 2 * Interval
<1>1. a \in Int /\ a >= 0 /\ a <= Longest /\ Longest \in Int /\ Longest > 2 * Interval
  BY LongestIsLong
<1>2. a + 1 \in Int
  BY <1>1
<1>3. Min({a + 1, Longest}) = IF a + 1 <= Longest THEN a + 1 ELSE Longest
  BY <1>1, <1>2, MinOfTwo
<1> QED
  BY <1>1, <1>3, LongestIsLong

\* The places of the dictionary with the keys a pass adds: none twice, the old ones
\* where they were, and every address seen among them.
LEMMA KeysAdded ==
  ASSUME IpTypeOK, NEW seen \in SUBSET Ip, NEW new \in SetToSeqs(seen \ ToSet(valid_ips))
  PROVE  LET ips == valid_ips \o new
         IN  /\ ips \in Seq(Ip) /\ IsInjective(ips)
             /\ Len(valid_ips) \in Nat /\ Len(ips) \in Nat /\ Len(valid_ips) <= Len(ips)
             /\ \A i \in 1 .. Len(ips) :
                  IF i <= Len(valid_ips) THEN ips[i] = valid_ips[i] ELSE ips[i] \in seen
             /\ \A ip \in seen \cup ToSet(valid_ips) : \E i \in 1 .. Len(ips) : ips[i] = ip
<1> DEFINE S == seen \ ToSet(valid_ips)
           n == Cardinality(S)
           ips == valid_ips \o new
           l == Len(valid_ips)
<1>1. IsFiniteSet(S) /\ n \in Nat
  <2>1. S \in SUBSET Ip
    OBVIOUS
  <2> QED
    BY <2>1, IpAssumption, FS_Subset, FS_CardinalityType
<1>2. new \in [1 .. n -> S] /\ \A i, j \in 1 .. n : i # j => new[i] # new[j]
  BY DEF SetToSeqs
<1> HIDE DEF n, S
<1>3. new \in Seq(S) /\ Len(new) = n /\ new \in Seq(Ip)
  <2>1. new \in Seq(S) /\ Len(new) = n
    BY <1>1, <1>2
  <2>2. S \subseteq Ip
    BY DEF S
  <2> QED
    BY <2>1, <2>2, SeqMonotonic
<1>4. \A s \in S : \E i \in 1 .. n : new[i] = s
  <2>1. new \in Injection(1 .. n, S)
    BY <1>2 DEF Injection, IsInjective
  <2>2. Cardinality(1 .. n) = n
    BY <1>1, FS_Interval
  <2>3. new \in Surjection(1 .. n, S)
    BY <1>1, <2>1, <2>2, FS_Injection DEF n
  <2> QED
    BY <2>3 DEF Surjection
<1>5. /\ valid_ips \in Seq(Ip) /\ IsInjective(valid_ips) /\ l \in Nat
      /\ DOMAIN valid_ips = 1 .. l
  BY DEF IpTypeOK
<1>6. /\ ips \in Seq(Ip) /\ Len(ips) = l + n
      /\ \A i \in 1 .. l + n : ips[i] = IF i <= l THEN valid_ips[i] ELSE new[i - l]
  BY <1>3, <1>5, ConcatProperties
<1> HIDE DEF ips, l
<1>7. \A i \in 1 .. l + n : IF i <= l THEN ips[i] = valid_ips[i] /\ ips[i] \in ToSet(valid_ips)
                                      ELSE i - l \in 1 .. n /\ ips[i] = new[i - l] /\ ips[i] \in S
  <2> SUFFICES ASSUME NEW i \in 1 .. l + n
               PROVE  IF i <= l THEN ips[i] = valid_ips[i] /\ ips[i] \in ToSet(valid_ips)
                                ELSE i - l \in 1 .. n /\ ips[i] = new[i - l] /\ ips[i] \in S
    OBVIOUS
  <2>1. CASE i <= l
    <3>1. i \in DOMAIN valid_ips /\ ips[i] = valid_ips[i]
      BY <1>1, <1>5, <1>6, <2>1
    <3> QED
      BY <2>1, <3>1 DEF ToSet
  <2>2. CASE ~(i <= l)
    <3>1. i - l \in 1 .. n
      BY <1>1, <1>5, <2>2
    <3>2. ips[i] = new[i - l] /\ new[i - l] \in S
      BY <1>2, <1>6, <2>2, <3>1
    <3> QED
      BY <2>2, <3>1, <3>2
  <2> QED
    BY <2>1, <2>2
<1>8. DOMAIN ips = 1 .. l + n
  BY <1>6
<1>9. IsInjective(ips)
  <2> SUFFICES ASSUME NEW i \in 1 .. l + n, NEW j \in 1 .. l + n, ips[i] = ips[j]
               PROVE  i = j
    BY <1>8 DEF IsInjective
  <2>1. CASE i <= l /\ j <= l
    BY <1>5, <1>7, <2>1 DEF IsInjective
  <2>2. CASE i > l /\ j > l
    <3>1. i - l = j - l
      BY <1>2, <1>5, <1>7, <2>2
    <3> QED
      BY <1>1, <1>5, <3>1
  <2>3. CASE i <= l /\ j > l
    BY <1>5, <1>7, <2>3 DEF S
  <2>4. CASE i > l /\ j <= l
    BY <1>5, <1>7, <2>4 DEF S
  <2> QED
    BY <1>1, <1>5, <2>1, <2>2, <2>3, <2>4
<1>10. \A i \in 1 .. l + n : IF i <= l THEN ips[i] = valid_ips[i] ELSE ips[i] \in seen
  BY <1>7 DEF S
<1>11. \A ip \in seen \cup ToSet(valid_ips) : \E i \in 1 .. l + n : ips[i] = ip
  <2> SUFFICES ASSUME NEW ip \in seen \cup ToSet(valid_ips)
               PROVE  \E i \in 1 .. l + n : ips[i] = ip
    OBVIOUS
  <2>1. CASE ip \in ToSet(valid_ips)
    <3>1. PICK i \in 1 .. l : valid_ips[i] = ip
      BY <1>5, <2>1 DEF ToSet
    <3>2. i \in 1 .. l + n /\ i <= l
      BY <1>1, <1>5
    <3> QED
      BY <1>7, <3>1, <3>2
  <2>2. CASE ip \notin ToSet(valid_ips)
    <3>1. PICK i \in 1 .. n : new[i] = ip
      BY <1>4, <2>2 DEF S
    <3>2. l + i \in 1 .. l + n /\ ~(l + i <= l) /\ (l + i) - l = i
      BY <1>1, <1>5
    <3> QED
      BY <1>7, <3>1, <3>2
  <2> QED
    BY <2>1, <2>2
<1>12. l \in Nat /\ l + n \in Nat /\ l <= l + n
  BY <1>1, <1>5
<1> QED
  BY <1>6, <1>9, <1>10, <1>11, <1>12 DEF ips, l

\* What a pass leaves of the dictionary: all of it if nothing expired, and otherwise
\* all but the first of the expired keys.
LEMMA PurgedIs ==
  ASSUME NEW ips \in Seq(Ip), IsInjective(ips), NEW ages
  PROVE  LET E == Expired(ips, ages)
             r == Purged(ips, E)
         IN  /\ r \in Seq(Ip) /\ IsInjective(r)
             /\ E = {} => r = ips
             /\ E # {} => \E e \in E :
                  /\ \A i \in E : e <= i
                  /\ Len(r) = Len(ips) - 1
                  /\ \A j \in 1 .. Len(ips) - 1 : r[j] = IF j < e THEN ips[j] ELSE ips[j + 1]
<1> DEFINE E == Expired(ips, ages)
<1>1. Len(ips) \in Nat /\ E \subseteq 1 .. Len(ips)
  BY DEF Expired
<1>2. CASE E = {}
  BY <1>2 DEF Purged
<1>3. CASE E # {}
  <2>1. PICK x \in E : \A y \in E : x <= y
    <3> HIDE DEF E
    <3>1. E \subseteq Nat
      BY <1>1
    <3> QED
      BY <1>3, <3>1, Smallest
  <2> DEFINE e == Min(E)
  <2>2. e \in E /\ \A y \in E : e <= y
    BY <2>1 DEF Min
  <2>3. Purged(ips, E) = RemoveAt(ips, e)
    BY <1>3 DEF Purged
  <2>4. e \in 1 .. Len(ips)
    BY <1>1, <2>2
  <2> HIDE DEF e, E
  <2> DEFINE r == RemoveAt(ips, e)
  <2>5. /\ r \in Seq(Ip) /\ Len(r) = Len(ips) - 1
        /\ \A j \in 1 .. Len(ips) - 1 : r[j] = IF j < e THEN ips[j] ELSE ips[j + 1]
    BY <2>4, RemoveAtProperties
  <2>6. IsInjective(r)
    BY <2>4, RemovedOnce
  <2> HIDE DEF r
  <2>7. /\ r \in Seq(Ip) /\ IsInjective(r)
        /\ \E f \in E : /\ \A i \in E : f <= i
                        /\ Len(r) = Len(ips) - 1
                        /\ \A j \in 1 .. Len(ips) - 1 : r[j] = IF j < f THEN ips[j] ELSE ips[j + 1]
    BY <2>2, <2>5, <2>6
  <2>8. Purged(ips, E) = r
    BY <2>3 DEF r
  <2> QED
    BY <1>3, <2>7, <2>8 DEF E
<1> QED
  BY <1>2, <1>3

\* A pass, from the keys it adds to those it leaves.
LEMMA PurgingPassIs ==
  ASSUME IpTypeOK, NEW seen \in SUBSET Ip, Pass(seen)
  PROVE  \E ips \in Seq(Ip) :
           /\ \E new \in SetToSeqs(seen \ ToSet(valid_ips)) : ips = valid_ips \o new
           /\ IsInjective(ips)
           /\ wait = 0
           /\ age' = [ip \in Ip |-> IF ip \in seen THEN 0 ELSE age[ip]]
           /\ valid_ips' = Purged(ips, Expired(ips, age'))
           /\ wait' = IF Expired(ips, age') = {} THEN Interval ELSE 1
<1>1. PICK new \in SetToSeqs(seen \ ToSet(valid_ips)) :
        /\ wait = 0
        /\ age' = [ip \in Ip |-> IF ip \in seen THEN 0 ELSE age[ip]]
        /\ valid_ips' = Purged(valid_ips \o new, Expired(valid_ips \o new, age'))
        /\ wait' = Pause(Expired(valid_ips \o new, age'))
  BY DEF Pass
<1>2. valid_ips \o new \in Seq(Ip) /\ IsInjective(valid_ips \o new)
  BY KeysAdded
<1> QED
  BY <1>1, <1>2 DEF Pause, Retry

\* The variables of IpFilter keep their types, and no key is in the dictionary twice.
THEOREM IpTypeCorrect == IpSpec => []IpTypeOK
<1>1. IpInit => IpTypeOK
  BY LongestIsLong DEF IpInit, IpTypeOK, IsInjective
<1>2. IpTypeOK /\ [IpNext]_ipVars => IpTypeOK'
  <2> SUFFICES ASSUME IpTypeOK, [IpNext]_ipVars
               PROVE  IpTypeOK'
    OBVIOUS
  <2>1. CASE Tick
    <3>1. \A ip \in Ip : age'[ip] \in 0 .. Longest
      BY <2>1, Older DEF Tick, IpTypeOK
    <3>2. age' = [ip \in Ip |-> age'[ip]] /\ wait' \in 0 .. Interval
      BY <2>1, LongestIsLong DEF Tick, IpTypeOK
    <3> QED
      BY <2>1, <3>1, <3>2 DEF Tick, IpTypeOK
  <2>2. ASSUME NEW seen \in SUBSET Ip, Pass(seen)
        PROVE  IpTypeOK'
    <3>1. PICK ips \in Seq(Ip) :
            /\ IsInjective(ips)
            /\ age' = [ip \in Ip |-> IF ip \in seen THEN 0 ELSE age[ip]]
            /\ valid_ips' = Purged(ips, Expired(ips, age'))
            /\ wait' = IF Expired(ips, age') = {} THEN Interval ELSE 1
      BY <2>2, PurgingPassIs
    <3>2. age' \in [Ip -> 0 .. Longest]
      BY <3>1, LongestIsLong DEF IpTypeOK
    <3>3. valid_ips' \in Seq(Ip) /\ IsInjective(valid_ips')
      BY <3>1, PurgedIs
    <3>4. wait' \in 0 .. Interval
      BY <3>1, LongestIsLong
    <3> QED
      BY <3>2, <3>3, <3>4 DEF IpTypeOK
  <2>3. CASE UNCHANGED ipVars
    BY <2>3 DEF ipVars, IpTypeOK
  <2> QED
    BY <2>1, <2>2, <2>3 DEF IpNext
<1> QED
  BY <1>1, <1>2, PTL DEF IpSpec

\* Whatever names fail to resolve and whatever addresses expire with it, an oracle is
\* signed for during the two intervals after a pass saw its address.
THEOREM Grace == IpSpec => []GraceIsKept
<1>1. IpInit => GraceIsKept
  BY LongestIsLong DEF IpInit, GraceIsKept
<1>2. IpTypeOK /\ GraceIsKept /\ [IpNext]_ipVars => GraceIsKept'
  <2> SUFFICES ASSUME IpTypeOK, GraceIsKept, [IpNext]_ipVars,
                      NEW ip \in Ip, age'[ip] <= 2 * Interval
               PROVE  ip \in ToSet(valid_ips')
    BY DEF GraceIsKept, IsValidIp
  <2>1. CASE Tick
    <3>1. age[ip] <= 2 * Interval
      BY <2>1, Older DEF Tick, IpTypeOK
    <3> QED
      BY <2>1, <3>1 DEF Tick, GraceIsKept, IsValidIp
  <2>2. ASSUME NEW seen \in SUBSET Ip, Pass(seen)
        PROVE  ip \in ToSet(valid_ips')
    <3>1. PICK ips \in Seq(Ip) :
            /\ \E new \in SetToSeqs(seen \ ToSet(valid_ips)) : ips = valid_ips \o new
            /\ IsInjective(ips)
            /\ age' = [i \in Ip |-> IF i \in seen THEN 0 ELSE age[i]]
            /\ valid_ips' = Purged(ips, Expired(ips, age'))
      BY <2>2, PurgingPassIs
    <3>2. ip \in seen \cup ToSet(valid_ips)
      BY <3>1 DEF GraceIsKept, IsValidIp
    <3>3. PICK i \in 1 .. Len(ips) : ips[i] = ip
      BY <3>1, <3>2, KeysAdded
    <3>4. i \notin Expired(ips, age')
      <4>1. age'[ip] \in Int /\ ~(age'[ip] > Interval * 2)
        BY <3>1, LongestIsLong DEF IpTypeOK
      <4> QED
        BY <3>3, <4>1 DEF Expired
    <3>5. CASE Expired(ips, age') = {}
      <4>1. valid_ips' = ips
        BY <3>1, <3>5, PurgedIs
      <4> QED
        BY <3>3, <4>1 DEF ToSet
    <3>6. CASE Expired(ips, age') # {}
      <4>1. PICK e \in Expired(ips, age') :
              /\ Len(valid_ips') = Len(ips) - 1
              /\ \A j \in 1 .. Len(ips) - 1 : valid_ips'[j] = IF j < e THEN ips[j] ELSE ips[j + 1]
        BY <3>1, <3>6, PurgedIs, ZenonT(60)
      <4>2. valid_ips' \in Seq(Ip) /\ Len(ips) \in Nat /\ e \in 1 .. Len(ips) /\ e # i
        <5>1. valid_ips' \in Seq(Ip)
          BY <3>1, PurgedIs
        <5>2. e \in DOMAIN ips
          BY DEF Expired
        <5> QED
          BY <3>4, <5>1, <5>2
      <4>3. DOMAIN valid_ips' = 1 .. Len(ips) - 1
        BY <4>1, <4>2
      <4> DEFINE j == IF i < e THEN i ELSE i - 1
      <4>4. j \in 1 .. Len(ips) - 1 /\ valid_ips'[j] = ips[i]
        BY <4>1, <4>2
      <4> QED
        BY <3>3, <4>3, <4>4 DEF ToSet
    <3> QED
      BY <3>5, <3>6
  <2>3. CASE UNCHANGED ipVars
    BY <2>3 DEF ipVars, GraceIsKept, IsValidIp
  <2> QED
    BY <2>1, <2>2, <2>3 DEF IpNext
<1> QED
  BY <1>1, <1>2, IpTypeCorrect, PTL DEF IpSpec

\* Why a key does not stay for long: while it is expired there is a pass every second,
\* and each one that leaves it purges one before it, so that it moves a place forward.
RefusedInTurn ==
  \A i \in DOMAIN valid_ips : age[valid_ips[i]] + wait <= 3 * Interval + (Cardinality(Ip) - i)

\* A dictionary has no more keys than there are addresses.
LEMMA KeysAreFew ==
  ASSUME NEW ips \in Seq(Ip), IsInjective(ips)
  PROVE  Len(ips) <= Cardinality(Ip) /\ Cardinality(Ip) \in Nat /\ Len(ips) \in Nat
<1>1. ips \in Injection(1 .. Len(ips), Ip) /\ Len(ips) \in Nat
  BY DEF Injection
<1> DEFINE n == Len(ips)
<1> HIDE DEF n
<1>2. n \in Nat /\ ips \in Injection(1 .. n, Ip)
  BY <1>1 DEF n
<1>3. Cardinality(1 .. n) = n
  BY <1>2, FS_Interval
<1>4. n <= Cardinality(Ip) /\ Cardinality(Ip) \in Nat
  BY <1>2, <1>3, IpAssumption, FS_Injection, FS_CardinalityType
<1> QED
  BY <1>2, <1>4 DEF n

\* A pass keeps every key within its time.
LEMMA RefusedAfterPass ==
  ASSUME IpTypeOK, RefusedInTurn, NEW seen \in SUBSET Ip, Pass(seen)
  PROVE  RefusedInTurn'
<1> DEFINE N == Cardinality(Ip)
<1>1. PICK ips \in Seq(Ip) :
        /\ \E new \in SetToSeqs(seen \ ToSet(valid_ips)) : ips = valid_ips \o new
        /\ IsInjective(ips)
        /\ wait = 0
        /\ age' = [ip \in Ip |-> IF ip \in seen THEN 0 ELSE age[ip]]
        /\ valid_ips' = Purged(ips, Expired(ips, age'))
        /\ wait' = IF Expired(ips, age') = {} THEN Interval ELSE 1
  BY PurgingPassIs
<1>2. Len(ips) \in Nat /\ Len(ips) <= N /\ N \in Nat /\ Interval \in Nat \ {0}
  BY <1>1, KeysAreFew, IpAssumption
<1>3. \A i \in 1 .. Len(ips) : age'[ips[i]] \in Nat /\ age'[ips[i]] <= 3 * Interval + (N - i)
  <2> SUFFICES ASSUME NEW i \in 1 .. Len(ips)
               PROVE  age'[ips[i]] \in Nat /\ age'[ips[i]] <= 3 * Interval + (N - i)
    OBVIOUS
  <2>1. ips[i] \in Ip /\ age[ips[i]] \in Nat
    BY LongestIsLong DEF IpTypeOK
  <2>2. CASE ips[i] \in seen
    BY <1>1, <1>2, <2>1, <2>2
  <2>3. CASE ips[i] \notin seen
    <3>1. i <= Len(valid_ips) /\ ips[i] = valid_ips[i] /\ Len(valid_ips) \in Nat
      BY <1>1, <2>3, KeysAdded
    <3>2. i \in DOMAIN valid_ips
      BY <3>1 DEF IpTypeOK
    <3>3. age[ips[i]] + wait <= 3 * Interval + (N - i)
      BY <3>1, <3>2 DEF RefusedInTurn
    <3> QED
      BY <1>1, <1>2, <2>1, <2>3, <3>3
  <2> QED
    BY <2>2, <2>3
<1>4. \A i \in 1 .. Len(ips) : i \notin Expired(ips, age') => age'[ips[i]] <= 2 * Interval
  BY <1>2, <1>3 DEF Expired
<1> SUFFICES ASSUME NEW i \in DOMAIN valid_ips'
             PROVE  age'[valid_ips'[i]] + wait' <= 3 * Interval + (N - i)
  BY DEF RefusedInTurn
<1>5. CASE Expired(ips, age') = {}
  <2>1. valid_ips' = ips /\ wait' = Interval
    BY <1>1, <1>5, PurgedIs
  <2>2. i \in 1 .. Len(ips) /\ i \notin Expired(ips, age')
    BY <1>5, <2>1
  <2>3. age'[ips[i]] <= 2 * Interval /\ age'[ips[i]] \in Nat
    BY <1>3, <1>4, <2>2
  <2> QED
    BY <1>2, <2>1, <2>2, <2>3
<1>6. CASE Expired(ips, age') # {}
  <2>1. PICK e \in Expired(ips, age') :
          /\ \A j \in Expired(ips, age') : e <= j
          /\ Len(valid_ips') = Len(ips) - 1
          /\ \A j \in 1 .. Len(ips) - 1 : valid_ips'[j] = IF j < e THEN ips[j] ELSE ips[j + 1]
    BY <1>1, <1>6, PurgedIs
  <2>2. wait' = 1 /\ valid_ips' \in Seq(Ip) /\ e \in 1 .. Len(ips)
    <3>1. wait' = 1 /\ valid_ips' \in Seq(Ip)
      BY <1>1, <1>6, PurgedIs
    <3>2. e \in DOMAIN ips
      BY DEF Expired
    <3> QED
      BY <3>1, <3>2
  <2>3. i \in 1 .. Len(ips) - 1
    BY <1>2, <2>1, <2>2
  <2>4. CASE i < e
    <3>1. valid_ips'[i] = ips[i] /\ i \in 1 .. Len(ips) /\ ~(e <= i)
      BY <1>2, <2>1, <2>2, <2>3, <2>4
    <3>2. age'[ips[i]] <= 2 * Interval /\ age'[ips[i]] \in Nat
      BY <1>3, <1>4, <2>1, <3>1
    <3>3. age'[ips[i]] + 1 <= 3 * Interval + (N - i)
      <4>1. i \in Int /\ i <= N
        BY <1>2, <3>1
      <4>2. 2 * Interval + 1 <= 3 * Interval
        BY <1>2
      <4>3. 2 * Interval \in Int /\ 3 * Interval \in Int /\ N \in Int
        BY <1>2
      <4> HIDE DEF N
      <4> QED
        BY <3>2, <4>1, <4>2, <4>3, SMTT(30)
    <3> QED
      BY <2>2, <3>1, <3>3
  <2>5. CASE ~(i < e)
    <3>1. valid_ips'[i] = ips[i + 1] /\ i + 1 \in 1 .. Len(ips)
      BY <1>2, <2>1, <2>3, <2>5
    <3>2. age'[ips[i + 1]] <= 3 * Interval + (N - (i + 1)) /\ age'[ips[i + 1]] \in Nat
      BY <1>3, <3>1
    <3>3. age'[ips[i + 1]] + 1 <= 3 * Interval + (N - i)
      BY <1>2, <2>3, <3>2
    <3> QED
      BY <2>2, <3>1, <3>3
  <2> QED
    BY <2>4, <2>5
<1> QED
  BY <1>5, <1>6

\* Whatever is seen and whatever expires with it, an address is refused after three
\* intervals and one second for every other address.
THEOREM Refused == IpSpec => []StrangersAreRefused
<1>1. IpInit => RefusedInTurn
  BY DEF IpInit, RefusedInTurn
<1>2. IpTypeOK /\ RefusedInTurn /\ [IpNext]_ipVars => RefusedInTurn'
  <2> SUFFICES ASSUME IpTypeOK, RefusedInTurn, [IpNext]_ipVars
               PROVE  RefusedInTurn'
    OBVIOUS
  <2>1. CASE Tick
    <3> SUFFICES ASSUME NEW i \in DOMAIN valid_ips
                 PROVE  age'[valid_ips[i]] + wait' <= 3 * Interval + (Cardinality(Ip) - i)
      BY <2>1 DEF RefusedInTurn, Tick
    <3>1. valid_ips[i] \in Ip /\ age[valid_ips[i]] \in 0 .. Longest
      BY DEF IpTypeOK
    <3>2. age'[valid_ips[i]] <= age[valid_ips[i]] + 1 /\ age'[valid_ips[i]] \in 0 .. Longest
      BY <2>1, <3>1, Older DEF Tick
    <3>3. wait' = wait - 1 /\ wait \in Nat
      BY <2>1, LongestIsLong DEF Tick, IpTypeOK
    <3>4. age[valid_ips[i]] + wait <= 3 * Interval + (Cardinality(Ip) - i)
      BY DEF RefusedInTurn
    <3>5. i \in Nat /\ Cardinality(Ip) \in Nat /\ Interval \in Nat
      BY IpAssumption, FS_CardinalityType DEF IpTypeOK
    <3> QED
      BY <3>1, <3>2, <3>3, <3>4, <3>5, LongestIsLong
  <2>2. ASSUME NEW seen \in SUBSET Ip, Pass(seen)
        PROVE  RefusedInTurn'
    BY <2>2, RefusedAfterPass
  <2>3. CASE UNCHANGED ipVars
    BY <2>3 DEF ipVars, RefusedInTurn
  <2> QED
    BY <2>1, <2>2, <2>3 DEF IpNext
<1>3. IpTypeOK /\ RefusedInTurn => StrangersAreRefused
  <2> SUFFICES ASSUME IpTypeOK, RefusedInTurn, NEW ip \in ToSet(valid_ips)
               PROVE  age[ip] <= 3 * Interval + (Cardinality(Ip) - 1) * Retry
    BY DEF StrangersAreRefused
  <2>1. PICK i \in DOMAIN valid_ips : ip = valid_ips[i]
    BY DEF ToSet
  <2>2. age[ip] \in Int /\ wait \in Nat /\ i \in Nat \ {0}
    <3>1. ip \in Ip /\ i \in 1 .. Len(valid_ips) /\ Len(valid_ips) \in Nat
      BY <2>1 DEF IpTypeOK
    <3> QED
      BY <3>1, LongestIsLong DEF IpTypeOK
  <2>3. Cardinality(Ip) \in Nat /\ Interval \in Nat
    BY IpAssumption, FS_CardinalityType
  <2>4. age[ip] + wait <= 3 * Interval + (Cardinality(Ip) - i)
    BY <2>1 DEF RefusedInTurn
  <2> QED
    <3> DEFINE N == Cardinality(Ip)
    <3>1. N \in Nat /\ age[ip] + wait <= 3 * Interval + (N - i)
      BY <2>3, <2>4
    <3> HIDE DEF N
    <3>2. age[ip] <= 3 * Interval + (N - 1) * 1
      BY <2>2, <2>3, <3>1
    <3> QED
      BY <3>2 DEF N, Retry
<1> QED
  BY <1>1, <1>2, <1>3, IpTypeCorrect, PTL DEF IpSpec

-----------------------------------------------------------------------------
(* The loops together *)

\* A step of the node is a step of at most one loop, of each as it is on its own.
LEMMA LoopsOfTheNode ==
  Spec => LoopsSpec /\ GasSpec /\ IpSpec /\ SelSpec /\ MainSpec
<1>1. Init => LoopsInit /\ GasInit /\ IpInit /\ SelInit /\ MainInit
  BY DEF Init
<1>2. [Next]_allVars => /\ [LoopsNext]_loopsVars /\ [GasNext]_gasVars /\ [IpNext]_ipVars
                        /\ [SelNext]_selVars /\ [MainNext]_mainVars
  BY DEF Next, allVars
<1> QED
  BY <1>1, <1>2, PTL DEF Spec, LoopsSpec, GasSpec, IpSpec, SelSpec, MainSpec

\* The variables of all loops keep their types.
THEOREM NodeTypeCorrect == Spec => []TypeOK
<1>1. LoopsTypeOK /\ GasTypeOK /\ IpTypeOK /\ MainTypeOK => TypeOK
  BY DEF TypeOK
<1> QED
  BY <1>1, LoopsOfTheNode, LoopsTypeCorrect, GasTypeCorrect, IpTypeCorrect, TypeCorrect, PTL
=============================================================================
