---------------------------- MODULE PolicyProofs ----------------------------
(***************************************************************************)
(* Proofs about the predictive policy, for any horizon, temperatures,      *)
(* limits and coefficient files.                                           *)
(*                                                                         *)
(* A score is a sum over the steps of the rollout, and what holds of every *)
(* step holds of the sums, by induction over their number.  Staying at two *)
(* widths is together at most as dear as changing places: the performance  *)
(* and temperature terms of a step are convex and a move and the move back *)
(* have opposite effects.  That a change is not taken back follows,        *)
(* whatever the weights; the other facts about the choice rest on the      *)
(* scores being natural numbers that contain the hard cost of the steps    *)
(* above the ceiling.  That the state stays one in which scores can be     *)
(* computed is an induction over the calls, those that throw included.     *)
(***************************************************************************)
EXTENDS PolicyController, SequenceTheorems, WellFoundedInduction, NaturalsInduction, TLAPS

----------------------------------------------------------------------------
(* Induction, and the recursive functions of the score.                    *)

Below == {p \in Nat \X Nat : p[1] < p[2]}

\* Every nonempty set of natural numbers has a least element.
LEMMA BelowWellFounded == IsWellFoundedOn(Below, Nat)
<1>1. OpToRel(<, Nat) = Below BY Zenon DEF OpToRel, Below
<1>2. QED BY <1>1, NatLessThanWellFounded, Zenon

\* A set that has 0, and n + 1 with every n, has every natural number.
LEMMA SetInduction ==
  ASSUME NEW S, 0 \in S, \A n \in Nat : n \in S => n + 1 \in S
  PROVE  \A n \in Nat : n \in S
<1> DEFINE T == {n \in Nat : n \notin S}
<1>1. SUFFICES ASSUME T # {} PROVE FALSE OBVIOUS
<1>2. T \subseteq Nat OBVIOUS
<1>3. PICK x \in T : \A y \in T : ~(<<y, x>> \in Below)
  BY <1>1, <1>2, BelowWellFounded, WFMin, Zenon
<1>4. x \in Nat /\ x # 0 /\ x \notin S OBVIOUS
<1>5. x - 1 \in Nat /\ x - 1 < x /\ (x - 1) + 1 = x BY <1>4
<1>6. x - 1 \notin S BY <1>4, <1>5
<1>7. <<x - 1, x>> \in Below BY <1>4, <1>5 DEF Below
<1>8. QED BY <1>3, <1>5, <1>6, <1>7

\* The same up to a bound.
LEMMA BoundedInduction ==
  ASSUME NEW n \in Nat, NEW S, 0 \in S, \A k \in 1..n : k - 1 \in S => k \in S
  PROVE  \A k \in 0..n : k \in S
<1> DEFINE T == {k \in Nat : k <= n => k \in S}
<1>1. 0 \in T OBVIOUS
<1>2. ASSUME NEW k \in Nat, k \in T PROVE k + 1 \in T
  <2>1. SUFFICES ASSUME k + 1 <= n PROVE k + 1 \in S OBVIOUS
  <2>2. k \in S /\ k + 1 \in 1..n /\ (k + 1) - 1 = k BY <1>2, <2>1
  <2>3. QED BY <2>2
<1> HIDE DEF T
<1>3. \A k \in Nat : k \in T BY <1>1, <1>2, SetInduction, Zenon
<1>4. QED BY <1>3 DEF T

\* The values a recursion starts from u and computes, each from the one before.
Chain(n, D, u, phi) ==
  {s \in [0..n -> D] : s[0] = u /\ \A k \in 1..n : s[k] = phi[k][s[k - 1]]}

\* There are such values.
LEMMA Recursion ==
  ASSUME NEW n \in Nat, NEW D, NEW u \in D, NEW phi \in [1..n -> [D -> D]]
  PROVE  \E s : s \in Chain(n, D, u, phi)
<1> DEFINE S == {m \in Nat : \E s : s \in Chain(m, D, u, phi)}
<1>1. 0 \in S
  <2> DEFINE s == [k \in 0..0 |-> u]
  <2>1. s \in Chain(0, D, u, phi) BY DEF Chain
  <2>2. QED BY <2>1
<1>2. ASSUME NEW k \in 1..n, k - 1 \in S PROVE k \in S
  <2>1. PICK s : s \in Chain(k - 1, D, u, phi) BY <1>2
  <2>2. /\ s \in [0..(k - 1) -> D] /\ s[0] = u
        /\ \A i \in 1..(k - 1) : s[i] = phi[i][s[i - 1]]
    BY <2>1, Zenon DEF Chain
  <2> DEFINE t == [i \in 0..k |-> IF i = k THEN phi[k][s[k - 1]] ELSE s[i]]
  <2>3. k - 1 \in 0..(k - 1) /\ k \in Nat /\ k # 0 OBVIOUS
  <2>4. phi[k][s[k - 1]] \in D BY <2>2, <2>3, Zenon
  <2>5. \A i \in 0..k : i # k => i \in 0..(k - 1) OBVIOUS
  <2>6. t \in [0..k -> D]
    <3>1. \A i \in 0..k : (IF i = k THEN phi[k][s[k - 1]] ELSE s[i]) \in D
      BY <2>2, <2>4, <2>5, Zenon
    <3>2. QED BY <3>1, Zenon
  <2>7. t[0] = u BY <2>2, <2>3
  <2>8. ASSUME NEW i \in 1..k PROVE t[i] = phi[i][t[i - 1]]
    <3>1. i \in 0..k /\ i - 1 \in 0..k /\ i - 1 # k OBVIOUS
    <3>2. t[i - 1] = s[i - 1] BY <3>1, Zenon
    <3>3. CASE i = k BY <3>1, <3>2, <3>3, Zenon
    <3>4. CASE i # k
      <4>1. i \in 1..(k - 1) BY <3>4
      <4>2. t[i] = s[i] BY <3>1, <3>4, Zenon
      <4>3. QED BY <2>2, <3>2, <4>1, <4>2, Zenon
    <3>5. QED BY <3>3, <3>4, Zenon
  <2> HIDE DEF t
  <2>9. t \in Chain(k, D, u, phi) BY <2>6, <2>7, <2>8, Zenon DEF Chain
  <2>10. QED BY <2>3, <2>9
<1> HIDE DEF S
<1>3. \A k \in 0..n : k \in S BY <1>1, <1>2, BoundedInduction, Zenon
<1>4. n \in 0..n OBVIOUS
<1>5. QED BY <1>3, <1>4, Zenon DEF S

\* Values that a recursion keeps in a set.
LEMMA RecursionType ==
  ASSUME NEW n \in Nat, NEW D, NEW g, g[0] \in D, \A k \in 1..n : g[k - 1] \in D => g[k] \in D
  PROVE  \A k \in 0..n : g[k] \in D
<1> DEFINE S == {k \in Nat : g[k] \in D}
<1>1. 0 \in S OBVIOUS
<1>2. \A k \in 1..n : k - 1 \in S => k \in S OBVIOUS
<1> HIDE DEF S
<1>3. \A k \in 0..n : k \in S BY <1>1, <1>2, BoundedInduction, Zenon
<1>4. QED BY <1>3, Zenon DEF S

\* The partial sums of f.
Sums(f, n) ==
  {s \in [0..n -> Int] : s[0] = 0 /\ \A k \in 1..n : s[k] = s[k - 1] + f[k]}

\* Total is the last partial sum.
LEMMA TotalIsSum ==
  ASSUME NEW n \in Nat, NEW f \in [1..n -> Int]
  PROVE  \E s \in Sums(f, n) : Total(f, n) = s[n]
<1> DEFINE phi == [k \in 1..n |-> [x \in Int |-> x + f[k]]]
           Eq(h) == h = [k \in 0..n |-> IF k = 0 THEN 0 ELSE h[k - 1] + f[k]]
<1>1. phi \in [1..n -> [Int -> Int]] OBVIOUS
<1>2. \A k \in 1..n, x \in Int : phi[k][x] = x + f[k] OBVIOUS
<1> HIDE DEF phi
<1>3. PICK s : s \in Chain(n, Int, 0, phi)
  <2>1. 0 \in Int OBVIOUS
  <2>2. QED BY <1>1, <2>1, Recursion, Zenon
<1>4. Eq(s)
  <2>1. s \in [0..n -> Int] /\ s[0] = 0 /\ \A k \in 1..n : s[k] = phi[k][s[k - 1]]
    BY <1>3, Zenon DEF Chain
  <2>2. \A k \in 0..n : k # 0 => k \in 1..n /\ k - 1 \in 0..n OBVIOUS
  <2>3. \A k \in 0..n : s[k] = IF k = 0 THEN 0 ELSE s[k - 1] + f[k]
    BY <1>2, <2>1, <2>2, Zenon
  <2>4. s = [k \in 0..n |-> s[k]] BY <2>1, Zenon
  <2>5. QED BY <2>3, <2>4
<1> DEFINE g == CHOOSE h : Eq(h)
<1>5. Eq(g) BY <1>4, Zenon
<1>6. Total(f, n) = g[n] BY DEF Total
<1> HIDE DEF g
<1>7. g[0] = 0 /\ \A k \in 1..n : g[k] = g[k - 1] + f[k]
  <2>1. 0 \in 0..n /\ \A k \in 1..n : k \in 0..n /\ k # 0 OBVIOUS
  <2>2. QED BY <1>5, <2>1
<1>8. \A k \in 0..n : g[k] \in Int
  <2>1. g[0] \in Int /\ \A k \in 1..n : g[k - 1] \in Int => g[k] \in Int BY <1>7
  <2>2. QED BY <2>1, RecursionType, Zenon
<1>9. g = [k \in 0..n |-> g[k]] BY <1>5
<1>10. g \in [0..n -> Int] BY <1>8, <1>9
<1>11. QED BY <1>6, <1>7, <1>10, Zenon DEF Sums

\* A total is a number, and natural when its terms are.
LEMMA TotalType ==
  ASSUME NEW n \in Nat, NEW f \in [1..n -> Int]
  PROVE  /\ Total(f, n) \in Int
         /\ (\A k \in 1..n : f[k] >= 0) => Total(f, n) >= 0
<1>1. PICK s \in Sums(f, n) : Total(f, n) = s[n] BY TotalIsSum, Zenon
<1>2. s \in [0..n -> Int] /\ s[0] = 0 /\ \A k \in 1..n : s[k] = s[k - 1] + f[k]
  BY Zenon DEF Sums
<1>3. n \in 0..n OBVIOUS
<1>4. ASSUME \A k \in 1..n : f[k] >= 0 PROVE Total(f, n) >= 0
  <2>1. s[0] \in Nat BY <1>2
  <2>2. \A k \in 1..n : s[k - 1] \in Nat => s[k] \in Nat BY <1>2, <1>4
  <2>3. s[n] \in Nat BY <1>3, <2>1, <2>2, RecursionType, Zenon
  <2>4. QED BY <1>1, <2>3
<1>5. QED BY <1>1, <1>2, <1>3, <1>4

\* What holds of the terms of two pairs of sums holds of their totals.
LEMMA TotalPair ==
  ASSUME NEW n \in Nat, NEW a \in [1..n -> Int], NEW b \in [1..n -> Int],
         NEW c \in [1..n -> Int], NEW d \in [1..n -> Int],
         \A k \in 1..n : a[k] + b[k] <= c[k] + d[k]
  PROVE  Total(a, n) + Total(b, n) <= Total(c, n) + Total(d, n)
<1>1. PICK p \in Sums(a, n) : Total(a, n) = p[n] BY TotalIsSum, Zenon
<1>2. PICK q \in Sums(b, n) : Total(b, n) = q[n] BY TotalIsSum, Zenon
<1>3. PICK r \in Sums(c, n) : Total(c, n) = r[n] BY TotalIsSum, Zenon
<1>4. PICK s \in Sums(d, n) : Total(d, n) = s[n] BY TotalIsSum, Zenon
<1> DEFINE S == {k \in 0..n : p[k] + q[k] <= r[k] + s[k]}
<1>5. /\ p \in [0..n -> Int] /\ p[0] = 0 /\ \A k \in 1..n : p[k] = p[k - 1] + a[k]
      /\ q \in [0..n -> Int] /\ q[0] = 0 /\ \A k \in 1..n : q[k] = q[k - 1] + b[k]
      /\ r \in [0..n -> Int] /\ r[0] = 0 /\ \A k \in 1..n : r[k] = r[k - 1] + c[k]
      /\ s \in [0..n -> Int] /\ s[0] = 0 /\ \A k \in 1..n : s[k] = s[k - 1] + d[k]
  BY Zenon DEF Sums
<1>6. 0 \in S BY <1>5
<1>7. ASSUME NEW k \in 1..n, k - 1 \in S PROVE k \in S
  <2>1. k - 1 \in 0..n /\ k \in 0..n OBVIOUS
  <2>2. /\ p[k - 1] \in Int /\ q[k - 1] \in Int /\ r[k - 1] \in Int /\ s[k - 1] \in Int
        /\ a[k] \in Int /\ b[k] \in Int /\ c[k] \in Int /\ d[k] \in Int
    BY <1>5, <2>1, Zenon
  <2>3. p[k - 1] + q[k - 1] <= r[k - 1] + s[k - 1] BY <1>7, Zenon
  <2>4. p[k] = p[k - 1] + a[k] /\ q[k] = q[k - 1] + b[k] /\ r[k] = r[k - 1] + c[k] /\ s[k] = s[k - 1] + d[k]
    BY <1>5, Zenon
  <2>5. a[k] + b[k] <= c[k] + d[k] BY Zenon
  <2>6. (p[k - 1] + a[k]) + (q[k - 1] + b[k]) <= (r[k - 1] + c[k]) + (s[k - 1] + d[k])
    <3>1. \A x, y, z, w, e, f, g, h \in Int :
            x + y <= z + w /\ e + f <= g + h => (x + e) + (y + f) <= (z + g) + (w + h)
      OBVIOUS
    <3>2. QED BY <2>2, <2>3, <2>5, <3>1, Zenon
  <2>7. QED BY <2>1, <2>4, <2>6, Zenon
<1> HIDE DEF S
<1>8. \A k \in 0..n : k \in S BY <1>6, <1>7, BoundedInduction, Zenon
<1>9. n \in 0..n OBVIOUS
<1>10. p[n] + q[n] <= r[n] + s[n] BY <1>8, <1>9, Zenon DEF S
<1>11. QED BY <1>1, <1>2, <1>3, <1>4, <1>10, Zenon

\* A total grows with its terms.
LEMMA TotalMonotone ==
  ASSUME NEW n \in Nat, NEW a \in [1..n -> Int], NEW c \in [1..n -> Int],
         \A k \in 1..n : a[k] <= c[k]
  PROVE  Total(a, n) <= Total(c, n)
<1>1. \A k \in 1..n : a[k] + a[k] <= c[k] + a[k]
  <2>1. \A k \in 1..n : a[k] \in Int /\ c[k] \in Int BY Zenon
  <2>2. QED BY <2>1
<1>2. Total(a, n) + Total(a, n) <= Total(c, n) + Total(a, n) BY <1>1, TotalPair, Zenon
<1>3. Total(a, n) \in Int /\ Total(c, n) \in Int BY TotalType, Zenon
<1>4. QED BY <1>2, <1>3

\* What is left after halvings is a part of the whole.
LEMMA HalvedType == \A k \in 0..Horizon : Halved[k] \in 0..Unit
<1> DEFINE D == 0..Unit
           phi == [k \in 1..Horizon |-> [x \in D |-> x \div 2]]
           Eq(h) == h = [k \in 0..Horizon |-> IF k = 0 THEN Unit ELSE h[k - 1] \div 2]
<1>1. Horizon \in Nat /\ Unit \in Nat BY HorizonAssumption, UnitAssumption, Zenon
<1>2. \A x \in D : x \div 2 \in D BY <1>1
<1>3. Unit \in D BY <1>1
<1>4. phi \in [1..Horizon -> [D -> D]] BY <1>2, Zenon
<1>5. \A k \in 1..Horizon, x \in D : phi[k][x] = x \div 2 BY Zenon
<1> HIDE DEF D, phi
<1>6. PICK s : s \in Chain(Horizon, D, Unit, phi) BY <1>1, <1>3, <1>4, Recursion, Zenon
<1>7. Eq(s)
  <2>1. s \in [0..Horizon -> D] /\ s[0] = Unit /\ \A k \in 1..Horizon : s[k] = phi[k][s[k - 1]]
    BY <1>6, Zenon DEF Chain
  <2>2. \A k \in 0..Horizon : k # 0 => k \in 1..Horizon /\ k - 1 \in 0..Horizon BY <1>1
  <2>3. ASSUME NEW k \in 0..Horizon
        PROVE  s[k] = IF k = 0 THEN Unit ELSE s[k - 1] \div 2
    <3>1. CASE k = 0 BY <2>1, <3>1, Zenon
    <3>2. CASE k # 0
      <4>1. s[k] = phi[k][s[k - 1]] /\ k \in 1..Horizon /\ s[k - 1] \in D
        BY <2>1, <2>2, <3>2, Zenon
      <4>2. s[k] = s[k - 1] \div 2 BY <1>5, <4>1, Zenon
      <4>3. QED BY <3>2, <4>2, Zenon
    <3>3. QED BY <3>1, <3>2, Zenon
  <2>4. s = [k \in 0..Horizon |-> s[k]] BY <2>1, Zenon
  <2>5. QED BY <2>3, <2>4
<1>8. Eq(Halved)
  <2>1. Halved = CHOOSE h : Eq(h) BY Zenon DEF Halved
  <2>2. QED BY <1>7, <2>1, Zenon
<1>9. Halved[0] \in D /\ \A k \in 1..Horizon : Halved[k - 1] \in D => Halved[k] \in D
  <2>1. 0 \in 0..Horizon /\ \A k \in 1..Horizon : k \in 0..Horizon /\ k # 0 BY <1>1
  <2>2. Halved[0] = Unit /\ \A k \in 1..Horizon : Halved[k] = Halved[k - 1] \div 2
    BY <1>8, <2>1
  <2>3. QED BY <1>2, <1>3, <2>2, Zenon DEF D
<1>10. QED BY <1>1, <1>9, RecursionType, Zenon DEF D

\* A discount is a natural number of parts.
LEMMA DiscountType == \A k \in 0..Horizon : Discount[k] \in Nat
<1> DEFINE phi == [k \in 1..Horizon |-> [x \in Nat |-> 9 * (x \div 10)]]
           Eq(h) == h = [k \in 0..Horizon |-> IF k = 0 THEN Unit ELSE 9 * (h[k - 1] \div 10)]
<1>1. Horizon \in Nat /\ Unit \in Nat BY HorizonAssumption, UnitAssumption, Zenon
<1>2. \A x \in Nat : 9 * (x \div 10) \in Nat OBVIOUS
<1>3. phi \in [1..Horizon -> [Nat -> Nat]] BY <1>2, Zenon
<1>4. \A k \in 1..Horizon, x \in Nat : phi[k][x] = 9 * (x \div 10) BY Zenon
<1> HIDE DEF phi
<1>5. PICK s : s \in Chain(Horizon, Nat, Unit, phi) BY <1>1, <1>3, Recursion, Zenon
<1>6. Eq(s)
  <2>1. s \in [0..Horizon -> Nat] /\ s[0] = Unit /\ \A k \in 1..Horizon : s[k] = phi[k][s[k - 1]]
    BY <1>5, Zenon DEF Chain
  <2>2. \A k \in 0..Horizon : k # 0 => k \in 1..Horizon /\ k - 1 \in 0..Horizon BY <1>1
  <2>3. ASSUME NEW k \in 0..Horizon
        PROVE  s[k] = IF k = 0 THEN Unit ELSE 9 * (s[k - 1] \div 10)
    <3>1. CASE k = 0 BY <2>1, <3>1, Zenon
    <3>2. CASE k # 0
      <4>1. s[k] = phi[k][s[k - 1]] /\ k \in 1..Horizon /\ s[k - 1] \in Nat
        BY <2>1, <2>2, <3>2, Zenon
      <4>2. s[k] = 9 * (s[k - 1] \div 10) BY <1>4, <4>1, Zenon
      <4>3. QED BY <3>2, <4>2, Zenon
    <3>3. QED BY <3>1, <3>2, Zenon
  <2>4. s = [k \in 0..Horizon |-> s[k]] BY <2>1, Zenon
  <2>5. QED BY <2>3, <2>4
<1>7. Eq(Discount)
  <2>1. Discount = CHOOSE h : Eq(h) BY Zenon DEF Discount
  <2>2. QED BY <1>6, <2>1, Zenon
<1>8. Discount[0] \in Nat /\ \A k \in 1..Horizon : Discount[k - 1] \in Nat => Discount[k] \in Nat
  <2>1. 0 \in 0..Horizon /\ \A k \in 1..Horizon : k \in 0..Horizon /\ k # 0 BY <1>1
  <2>2. Discount[0] = Unit /\ \A k \in 1..Horizon : Discount[k] = 9 * (Discount[k - 1] \div 10)
    BY <1>7, <2>1
  <2>3. QED BY <1>1, <1>2, <2>2, Zenon
<1>9. QED BY <1>1, <1>8, RecursionType, Zenon
----------------------------------------------------------------------------
(* The forecasts.                                                          *)

\* What the choice rests on: numbers, and a temperature or none.
Known(temp) == temp \in Int \cup {NoTemp}

\* The horizon is part of the history.
LEMMA HorizonTypes ==
  ASSUME TypeOK, history # <<>>
  PROVE  /\ Span \in 1..Horizon /\ Span \in Nat \ {0}
         /\ Newest \in Sample /\ Oldest \in Sample /\ \A i \in 1..Span : Recent(i) \in Sample
<1>1. history \in Seq(Sample) BY Zenon DEF TypeOK
<1>2. Len(history) \in Nat /\ Len(history) # 0 BY <1>1
<1>3. Span \in 1..Horizon /\ Span \in Nat \ {0} /\ Span <= Len(history)
  BY <1>2, HorizonAssumption DEF Span, Smaller
<1> HIDE DEF Span
<1>4. \A i \in 1..Span : Recent(i) \in Sample
  <2>1. \A i \in 1..Span : Len(history) - Span + i \in 1..Len(history) BY <1>2, <1>3
  <2>2. \A k \in 1..Len(history) : history[k] \in Sample BY <1>1
  <2>3. QED BY <2>1, <2>2, Zenon DEF Recent
<1>5. 1 \in 1..Span /\ Span \in 1..Span BY <1>3
<1>6. QED BY <1>3, <1>4, <1>5, Zenon DEF Newest, Oldest

\* The forecasts are numbers, or there is no temperature.
LEMMA ForecastTypes ==
  ASSUME TypeOK, history # <<>>
  PROVE  /\ ForecastRatio \in Int /\ Known(AverageTemp)
         /\ \A step \in 1..Span : Trend(step) \in Int
<1>1. Span \in Nat \ {0} BY HorizonTypes, Zenon
<1>2. \A i \in 1..Span : /\ Recent(i).ratio \in Nat /\ Recent(i).trimmed \in Nat
                         /\ Recent(i).temp \in Temps \cup {NoTemp}
  BY HorizonTypes, Zenon DEF Sample
<1>3. Unit \in Nat BY UnitAssumption, Zenon
<1>4. \A n \in Nat \ {0} : Unit \div n \in Int BY <1>3
<1>5. ForecastRatio \in Int
  <2> DEFINE f == [i \in 1..Span |-> RatioOf(Recent(i))]
  <2>1. \A i \in 1..Span : RatioOf(Recent(i)) \in Int BY <1>2 DEF RatioOf
  <2>2. f \in [1..Span -> Int] BY <2>1, Zenon
  <2> HIDE DEF f
  <2>3. Total(f, Span) \in Int BY <1>1, <2>2, TotalType, Zenon
  <2>4. Total(f, Span) * (Unit \div Span) \in Int BY <1>1, <1>4, <2>3
  <2>5. QED BY <2>4, Zenon DEF ForecastRatio, f
<1>6. Known(AverageTemp)
  <2> DEFINE valid(i) == Recent(i).temp # NoTemp
             c == [i \in 1..Span |-> IF valid(i) THEN 1 ELSE 0]
             f == [i \in 1..Span |-> IF valid(i) THEN Recent(i).temp ELSE 0]
  <2>1. \A i \in 1..Span : valid(i) => Recent(i).temp \in Int BY <1>2, LimitAssumption, Zenon
  <2>2. /\ c \in [1..Span -> Int] /\ \A i \in 1..Span : c[i] >= 0
        /\ f \in [1..Span -> Int]
    <3> HIDE DEF valid
    <3>1. c \in [1..Span -> Int] /\ \A i \in 1..Span : c[i] >= 0 OBVIOUS
    <3>2. f \in [1..Span -> Int] BY <2>1
    <3>3. QED BY <3>1, <3>2, Zenon
  <2>3. AverageTemp = IF Total(c, Span) = 0 THEN NoTemp
                      ELSE Total(f, Span) * (Unit \div Total(c, Span))
    BY Zenon DEF AverageTemp
  <2> HIDE DEF c, f
  <2>4. Total(c, Span) \in Int /\ Total(c, Span) >= 0 /\ Total(f, Span) \in Int
    BY <1>1, <2>2, TotalType, Zenon
  <2>5. Total(c, Span) # 0 => Total(f, Span) * (Unit \div Total(c, Span)) \in Int
    BY <1>4, <2>4
  <2>6. QED BY <2>3, <2>5, Zenon DEF Known
<1>7. ASSUME NEW step \in 1..Span PROVE Trend(step) \in Int
  <2>1. Newest.ratio \in Nat /\ Oldest.ratio \in Nat BY HorizonTypes, Zenon DEF Sample
  <2>2. CASE Span > 1
    <3>1. Alpha \in Nat BY UnitAssumption
    <3>2. Span - 1 \in Nat \ {0} BY <1>1, <2>2
    <3>3. Alpha \div (Span - 1) \in Int
      <4>1. \A n \in Nat \ {0} : Alpha \div n \in Int BY <3>1
      <4>2. QED BY <3>2, <4>1, Zenon
    <3>4. (Newest.ratio - Oldest.ratio) * step \in Int BY <1>1, <2>1
    <3>5. (Newest.ratio - Oldest.ratio) * step * (Alpha \div (Span - 1)) \in Int BY <3>3, <3>4
    <3>6. QED BY <2>2, <3>5, Zenon DEF Trend
  <2>3. CASE ~(Span > 1) BY <2>3 DEF Trend
  <2>4. QED BY <2>2, <2>3, Zenon
<1>8. QED BY <1>5, <1>6, <1>7, Zenon

\* The model predicts a number.
LEMMA AdviceTypes ==
  ASSUME TypeOK, history # <<>>, NEW f \in ForecastTemps
  PROVE  Known(f.temp)
<1>1. CASE f \in [by : {"average"}, temp : {AverageTemp}] BY <1>1, ForecastTypes, Zenon
<1>2. CASE Predicts /\ f \in {[by |-> "model", temp |-> Unit * Larger(p, Newest.temp)] : p \in Temps}
  <2>1. PICK p \in Temps : f = [by |-> "model", temp |-> Unit * Larger(p, Newest.temp)]
    BY <1>2, Zenon
  <2>2. f.temp = Unit * Larger(p, Newest.temp) BY <2>1, Zenon
  <2>3. Newest.temp \in Temps
    <3>1. loaded /\ model.terms > 0 /\ model.terms \in Nat
      BY <1>2, Zenon DEF Predicts, TypeOK, Coefficients
    <3>2. history[Len(history) - 0].temp # NoTemp BY <1>2, <3>1 DEF Predicts
    <3>3. Len(history) \in Nat /\ Span \in Nat BY HorizonTypes DEF TypeOK
    <3>4. Len(history) - Span + Span = Len(history) - 0 BY <3>3
    <3>5. Newest.temp # NoTemp BY <3>2, <3>4, Zenon DEF Newest, Recent
    <3>6. QED BY <3>5, HorizonTypes, Zenon DEF Sample
  <2>4. p \in Int /\ Newest.temp \in Int BY <2>3, LimitAssumption, Zenon
  <2>5. Larger(p, Newest.temp) \in Int BY <2>4, Zenon DEF Larger
  <2>6. f.temp \in Int BY <2>2, <2>5, UnitAssumption
  <2>7. QED BY <2>6, Zenon DEF Known
<1>3. QED BY <1>1, <1>2, Zenon DEF ForecastTemps

----------------------------------------------------------------------------
(* The cost of a width.                                                    *)

PerformanceCost(x) == RatioCost(Positive(x))

\* The performance term of the cost is convex and falls with the width.
LEMMA PerformanceConvex ==
  ASSUME NEW x \in Int, NEW d \in Int
  PROVE  /\ PerformanceCost(x) \in Nat
         /\ 2 * PerformanceCost(x) <= PerformanceCost(x - d) + PerformanceCost(x + d)
         /\ d >= 0 => PerformanceCost(x) <= PerformanceCost(x + d)
<1> DEFINE c == Unit * SloRatio
<1>1. c \in Nat BY ScoreAssumption, UnitAssumption
<1>2. \A y : PerformanceCost(y) = 80 * Positive(Positive(y) - c) + Positive(y)
  BY Zenon DEF PerformanceCost, RatioCost
<1> HIDE DEF c
<1>3. QED BY <1>1, <1>2 DEF Positive, Larger

\* So is the temperature term below the ceiling.
LEMMA SoftTempConvex ==
  ASSUME NEW y \in Int, NEW d \in Int
  PROVE  /\ SoftTempCost(y) \in Nat
         /\ 2 * SoftTempCost(y) <= SoftTempCost(y - d) + SoftTempCost(y + d)
<1> DEFINE c == Unit * SloTemp
<1>1. c \in Int BY ScoreAssumption, UnitAssumption
<1>2. CASE SloTemp = 0 BY <1>2 DEF SoftTempCost
<1>3. CASE SloTemp # 0
  <2>1. \A x : SoftTempCost(x) = 5 * Positive(x - c) BY <1>3, Zenon DEF SoftTempCost
  <2> HIDE DEF c
  <2>2. QED BY <1>1, <2>1 DEF Positive, Larger
<1>4. QED BY <1>2, <1>3, Zenon

Effect(move, unit, step) == move * unit * Response(step)

\* A move and the move back have opposite effects.
LEMMA EffectOpposite ==
  ASSUME NEW m \in Int, NEW u \in Nat, NEW step \in 1..Horizon
  PROVE  /\ Effect(m, u, step) \in Int /\ Effect(-m, u, step) = -Effect(m, u, step)
         /\ Effect(0, u, step) = 0
         /\ m <= 0 => Effect(m, u, step) <= 0
<1>1. m * u \in Int /\ (-m) * u = -(m * u) /\ (m <= 0 => m * u <= 0) /\ 0 * u = 0 OBVIOUS
<1>2. Response(step) \in Nat
  <2>1. step \in 0..Horizon BY HorizonAssumption
  <2>2. Halved[step] \in 0..Unit BY <2>1, HalvedType, Zenon
  <2>3. QED BY <2>2, UnitAssumption DEF Response
<1> DEFINE x == m * u
           r == Response(step)
<1>3. /\ Effect(m, u, step) = x * r /\ Effect(-m, u, step) = (-x) * r
      /\ Effect(0, u, step) = 0 * r
  BY <1>1, Zenon DEF Effect
<1>4. x \in Int /\ r \in Nat /\ (m <= 0 => x <= 0) BY <1>1, <1>2, Zenon
<1> HIDE DEF x, r
<1>5. /\ x * r \in Int /\ (-x) * r = -(x * r) /\ 0 * r = 0
      /\ x <= 0 => x * r <= 0
  BY <1>4
<1>6. QED BY <1>3, <1>4, <1>5

\* A transition costs something or nothing, never less.
LEMMA PenaltyNat == \A m \in -2..2 : Penalty(m) \in Nat /\ Penalty(0) = 0
<1> DEFINE u == 20 * Unit * Unit
           p(m) == IF m < 0 THEN PenaltyDown * (-m) ELSE PenaltyUp * m
<1>1. u \in Nat BY UnitAssumption
<1>2. \A m \in -2..2 : p(m) \in Nat /\ p(0) = 0 BY ScoreAssumption
<1>3. \A m : Penalty(m) = u * p(m) BY Zenon DEF Penalty
<1> HIDE DEF u, p
<1>4. \A x \in Nat : u * x \in Nat /\ u * 0 = 0 BY <1>1
<1>5. QED BY <1>2, <1>3, <1>4, Zenon

\* The price of the ceiling is a number.  It is the same for a candidate whatever is
\* projected when the ceiling is invalid, and nothing below a valid one.
LEMMA HardCostFacts ==
  ASSUME NEW c \in Nat, NEW y, Known(y)
  PROVE  /\ HardCostOf(c, y) \in Nat
         /\ limits = "badCeiling" => HardCostOf(c, y) = HardCostOf(c, NoTemp)
         /\ limits # "badCeiling" /\ (y = NoTemp \/ ~(y > Unit * Ceiling)) => HardCostOf(c, y) = 0
<1> DEFINE h == 20 * Unit * HardCost
           k == Unit * Ceiling
<1>1. h \in Nat /\ k \in Int
  <2>1. Unit \in Nat /\ HardCost \in Nat /\ Ceiling \in Nat
    BY UnitAssumption, ScoreAssumption, LimitAssumption, Zenon
  <2>2. QED BY <2>1
<1>2. \A x : HardCostOf(c, x) = IF limits = "badCeiling" THEN (IF c > 0 THEN h ELSE 0)
                                ELSE IF x # NoTemp /\ x > k THEN h + 20 * (x - k) ELSE 0
  BY Zenon DEF HardCostOf
<1> HIDE DEF h, k
<1>3. CASE y = NoTemp BY <1>1, <1>2, <1>3 DEF k
<1>4. CASE y \in Int
  <2>1. HardCostOf(c, y) \in Nat BY <1>1, <1>2, <1>4
  <2>2. limits # "badCeiling" /\ (y = NoTemp \/ ~(y > k)) => HardCostOf(c, y) = 0
    BY <1>2, Zenon
  <2>3. limits = "badCeiling" => HardCostOf(c, y) = HardCostOf(c, NoTemp) BY <1>2, Zenon
  <2>4. QED BY <2>1, <2>2, <2>3, Zenon DEF k
<1>5. QED BY <1>3, <1>4, Zenon DEF Known

\* What a step of the rollout projects.
LEMMA TempCostShape ==
  ASSUME NEW c, NEW m, NEW step, NEW temp \in Int, NEW y, temp + Effect(m, model.heat, step) = y
  PROVE  /\ ProjectedTemp(m, step, temp) = y
         /\ TempCost(c, m, step, temp) = SoftTempCost(y) + HardCostOf(c, y)
<1>1. temp # NoTemp BY LimitAssumption, Zenon
<1>2. ProjectedTemp(m, step, temp) = y BY Zenon DEF ProjectedTemp, Effect
<1>3. QED BY <1>1, <1>2, Zenon DEF TempCost

\* No temperature at all: only an invalid ceiling has a price.
LEMMA NoTempCost ==
  ASSUME NEW c, NEW m, NEW step PROVE TempCost(c, m, step, NoTemp) = HardCostOf(c, NoTemp)
BY Zenon DEF TempCost
\* As long as the forecast is not above the ceiling, the temperature costs of staying at
\* either of two widths are together at most those of changing places.
LEMMA TempPair ==
  ASSUME model.heat \in Nat, NEW from \in Nat, NEW to \in Nat, NEW step \in 1..Horizon, NEW temp,
         Known(temp),
         temp # NoTemp => ~(ProjectedTemp(from - from, step, temp) > Unit * Ceiling)
  PROVE  /\ TempCost(from, from - from, step, temp) \in Nat
         /\ TempCost(to, to - to, step, temp) \in Nat
         /\ TempCost(to, to - from, step, temp) \in Nat
         /\ TempCost(from, from - to, step, temp) \in Nat
         /\ TempCost(from, from - from, step, temp) + TempCost(to, to - to, step, temp)
              <= TempCost(to, to - from, step, temp) + TempCost(from, from - to, step, temp)
<1>1. CASE temp = NoTemp
  <2>1. HardCostOf(from, NoTemp) \in Nat /\ HardCostOf(to, NoTemp) \in Nat
    BY HardCostFacts, Zenon DEF Known
  <2>2. QED BY <1>1, <2>1, NoTempCost
<1>2. CASE temp \in Int
  <2> DEFINE d == Effect(to - from, model.heat, step)
  <2>1. from - from = 0 /\ to - to = 0 /\ to - from \in Int /\ from - to = -(to - from) OBVIOUS
  <2>2. d \in Int /\ Effect(from - to, model.heat, step) = -d /\ Effect(0, model.heat, step) = 0
    <3>1. /\ d \in Int /\ Effect(-(to - from), model.heat, step) = -d
          /\ Effect(0, model.heat, step) = 0
      BY <2>1, EffectOpposite, Zenon
    <3>2. QED BY <2>1, <3>1, Zenon
  <2>3. /\ temp + Effect(from - from, model.heat, step) = temp
        /\ temp + Effect(to - to, model.heat, step) = temp
        /\ temp + Effect(from - to, model.heat, step) = temp - d
        /\ temp + d \in Int /\ temp - d \in Int
    BY <1>2, <2>1, <2>2
  <2>4. TempCost(from, from - from, step, temp) = SoftTempCost(temp) + HardCostOf(from, temp)
    BY <1>2, <2>3, TempCostShape
  <2>5. TempCost(to, to - to, step, temp) = SoftTempCost(temp) + HardCostOf(to, temp)
    BY <1>2, <2>3, TempCostShape
  <2>6. TempCost(to, to - from, step, temp) = SoftTempCost(temp + d) + HardCostOf(to, temp + d)
    BY <1>2, TempCostShape
  <2>7. TempCost(from, from - to, step, temp) = SoftTempCost(temp - d) + HardCostOf(from, temp - d)
    BY <1>2, <2>3, TempCostShape
  <2>8. /\ SoftTempCost(temp) \in Nat /\ SoftTempCost(temp + d) \in Nat /\ SoftTempCost(temp - d) \in Nat
        /\ 2 * SoftTempCost(temp) <= SoftTempCost(temp - d) + SoftTempCost(temp + d)
    BY <1>2, <2>2, <2>3, SoftTempConvex, Zenon
  <2>9. /\ HardCostOf(from, temp) \in Nat /\ HardCostOf(to, temp) \in Nat
        /\ HardCostOf(to, temp + d) \in Nat /\ HardCostOf(from, temp - d) \in Nat
        /\ \/ HardCostOf(from, temp) = 0 /\ HardCostOf(to, temp) = 0
           \/ /\ HardCostOf(from, temp) = HardCostOf(from, temp - d)
              /\ HardCostOf(to, temp) = HardCostOf(to, temp + d)
    <3>1. Known(temp) /\ Known(temp + d) /\ Known(temp - d) BY <1>2, <2>3, Zenon DEF Known
    <3>2. ~(temp > Unit * Ceiling)
      <4>1. ProjectedTemp(from - from, step, temp) = temp
        BY <2>3, Zenon DEF ProjectedTemp, Effect
      <4>2. QED BY <1>2, <4>1, LimitAssumption, Zenon
    <3>3. QED BY <3>1, <3>2, HardCostFacts, Zenon
  <2>10. QED BY <2>4, <2>5, <2>6, <2>7, <2>8, <2>9
<1>3. QED BY <1>1, <1>2, Zenon DEF Known

\* The state a score is computed in: what the forecasts and the loaded model provide.
Scorable == /\ ForecastRatio \in Int /\ Span \in 1..Horizon /\ Span \in Nat
            /\ \A step \in 1..Span : Trend(step) \in Int
            /\ model.heat \in Nat /\ model.gain \in Nat

\* Once there is a sample, scores can be computed.
LEMMA ScorableState == ASSUME TypeOK, history # <<>> PROVE Scorable
<1>1. model.heat \in Nat /\ model.gain \in Nat BY Zenon DEF TypeOK, Coefficients
<1>2. QED BY <1>1, HorizonTypes, ForecastTypes, Zenon DEF Scorable

\* A step of the rollout is one of the horizon.
LEMMA WithinHorizon ==
  ASSUME Scorable, NEW step \in 1..Span
  PROVE  step \in 1..Horizon /\ step - 1 \in 0..Horizon /\ Trend(step) \in Int
<1>1. Horizon \in Nat /\ Span \in 1..Horizon BY HorizonAssumption, Zenon DEF Scorable
<1>2. step \in 1..Horizon /\ step - 1 \in 0..Horizon BY <1>1
<1>3. QED BY <1>2, Zenon DEF Scorable

PerformanceTerm(move, step) ==
  PerformanceCost((ForecastRatio + Trend(step)) - Effect(move, model.gain, step))
Cost(from, temp, to, step) == StepCost(from, ForecastRatio, temp, to, step)
Rolled(from, temp, to) == Rollout(from, ForecastRatio, temp, to)

\* A step's cost is its performance and its temperature term, discounted.
LEMMA StepShape ==
  ASSUME NEW from, NEW temp, NEW to, NEW step
  PROVE  Cost(from, temp, to, step)
           = Discount[step - 1] * (PerformanceTerm(to - from, step) + TempCost(to, to - from, step, temp))
BY Zenon DEF Cost, StepCost, PerformanceTerm, PerformanceCost, ProjectedRatio, Effect

\* The performance costs of staying are together at most those of changing places, and a
\* narrower width has the higher one.
LEMMA PerformancePair ==
  ASSUME Scorable, NEW from \in Nat, NEW to \in Nat, NEW step \in 1..Span
  PROVE  /\ PerformanceTerm(from - from, step) \in Nat /\ PerformanceTerm(to - to, step) \in Nat
         /\ PerformanceTerm(to - from, step) \in Nat /\ PerformanceTerm(from - to, step) \in Nat
         /\ PerformanceTerm(from - from, step) + PerformanceTerm(to - to, step)
              <= PerformanceTerm(to - from, step) + PerformanceTerm(from - to, step)
         /\ to <= from => PerformanceTerm(from - from, step) <= PerformanceTerm(to - from, step)
<1> DEFINE d == Effect(to - from, model.gain, step)
           x == ForecastRatio + Trend(step)
<1>1. from - from = 0 /\ to - to = 0 /\ to - from \in Int /\ from - to = -(to - from) OBVIOUS
<1>2. model.gain \in Nat /\ step \in 1..Horizon BY WithinHorizon, Zenon DEF Scorable
<1>3. d \in Int /\ Effect(from - to, model.gain, step) = -d /\ Effect(0, model.gain, step) = 0
  <2>1. /\ d \in Int /\ Effect(-(to - from), model.gain, step) = -d
        /\ Effect(0, model.gain, step) = 0
    BY <1>1, <1>2, EffectOpposite, Zenon
  <2>2. QED BY <1>1, <2>1, Zenon
<1>4. x \in Int
  <2>1. ForecastRatio \in Int /\ Trend(step) \in Int BY Zenon DEF Scorable
  <2>2. QED BY <2>1
<1> HIDE DEF d, x
<1>5. PerformanceTerm(to - from, step) = PerformanceCost(x - d) BY Zenon DEF PerformanceTerm, x, d
<1>6. PerformanceTerm(from - to, step) = PerformanceCost(x + d)
  <2>1. x - Effect(from - to, model.gain, step) = x + d BY <1>3, <1>4
  <2>2. QED BY <2>1, Zenon DEF PerformanceTerm, x
<1>7. PerformanceTerm(from - from, step) = PerformanceCost(x) /\ PerformanceTerm(to - to, step) = PerformanceCost(x)
  <2>1. x - Effect(from - from, model.gain, step) = x /\ x - Effect(to - to, model.gain, step) = x
    BY <1>1, <1>3, <1>4
  <2>2. QED BY <2>1, Zenon DEF PerformanceTerm, x
<1>8. /\ PerformanceCost(x) \in Nat /\ PerformanceCost(x - d) \in Nat /\ PerformanceCost(x + d) \in Nat
      /\ 2 * PerformanceCost(x) <= PerformanceCost(x - d) + PerformanceCost(x + d)
  <2>1. x - d \in Int /\ x + d \in Int BY <1>3, <1>4
  <2>2. QED BY <1>3, <1>4, <2>1, PerformanceConvex, Zenon
<1>9. to <= from => PerformanceCost(x) <= PerformanceCost(x - d)
  <2>1. SUFFICES ASSUME to <= from PROVE PerformanceCost(x) <= PerformanceCost(x - d) BY Zenon
  <2>2. to - from <= 0 BY <2>1
  <2>3. d <= 0 BY <1>1, <1>2, <2>2, EffectOpposite, Zenon DEF d
  <2>4. -d \in Int /\ -d >= 0 /\ x + (-d) = x - d BY <1>3, <1>4, <2>3
  <2>5. PerformanceCost(x) <= PerformanceCost(x + (-d)) BY <1>4, <2>4, PerformanceConvex, Zenon
  <2>6. QED BY <2>4, <2>5, Zenon
<1>10. QED BY <1>5, <1>6, <1>7, <1>8, <1>9

\* A discount keeps an order.
LEMMA Discounted ==
  ASSUME Scorable, NEW step \in 1..Span
  PROVE  /\ Discount[step - 1] \in Nat
         /\ \A x \in Nat : Discount[step - 1] * x \in Nat
         /\ \A x, y \in Int : x <= y => Discount[step - 1] * x <= Discount[step - 1] * y
         /\ \A x, y \in Int : Discount[step - 1] * (x + y) = Discount[step - 1] * x + Discount[step - 1] * y
<1> DEFINE d == Discount[step - 1]
<1>1. d \in Nat BY WithinHorizon, DiscountType, Zenon
<1> HIDE DEF d
<1>2. \A x \in Nat : d * x \in Nat BY <1>1
<1>3. ASSUME NEW x \in Int, NEW y \in Int, x <= y PROVE d * x <= d * y
  <2>1. y - x \in Nat BY <1>3
  <2>2. d * (y - x) \in Nat BY <1>2, <2>1, Zenon
  <2>3. d * (y - x) = d * y - d * x BY <1>1
  <2>4. d * x \in Int /\ d * y \in Int BY <1>1
  <2>5. QED BY <2>2, <2>3, <2>4
<1>4. \A x, y \in Int : d * (x + y) = d * x + d * y BY <1>1
<1>5. QED BY <1>1, <1>2, <1>3, <1>4, Zenon DEF d

\* A step's cost is a natural number whatever is projected.
LEMMA StepNat ==
  ASSUME Scorable, NEW from \in Nat, NEW to \in Nat, NEW step \in 1..Span, NEW temp, Known(temp)
  PROVE  /\ Cost(from, temp, to, step) \in Nat
         /\ PerformanceTerm(to - from, step) \in Nat /\ TempCost(to, to - from, step, temp) \in Nat
<1>1. PerformanceTerm(to - from, step) \in Nat BY PerformancePair, Zenon
<1>2. TempCost(to, to - from, step, temp) \in Nat
  <2>1. CASE temp = NoTemp BY <2>1, NoTempCost, HardCostFacts, Zenon DEF Known
  <2>2. CASE temp \in Int
    <3> DEFINE y == temp + Effect(to - from, model.heat, step)
    <3>1. to - from \in Int OBVIOUS
    <3>2. Effect(to - from, model.heat, step) \in Int
      BY <3>1, WithinHorizon, EffectOpposite, Zenon DEF Scorable
    <3>3. y \in Int BY <2>2, <3>2
    <3>4. TempCost(to, to - from, step, temp) = SoftTempCost(y) + HardCostOf(to, y)
      BY <2>2, TempCostShape
    <3> HIDE DEF y
    <3>5. SoftTempCost(y) \in Nat BY <3>3, SoftTempConvex, Zenon
    <3>6. HardCostOf(to, y) \in Nat BY <3>3, HardCostFacts, Zenon DEF Known
    <3>7. QED BY <3>4, <3>5, <3>6
  <2>3. QED BY <2>1, <2>2, Zenon DEF Known
<1>3. PerformanceTerm(to - from, step) + TempCost(to, to - from, step, temp) \in Nat BY <1>1, <1>2
<1>4. QED BY <1>1, <1>2, <1>3, StepShape, Discounted, Zenon

\* The step costs of staying at either width are at most those of changing places.
LEMMA StepPair ==
  ASSUME Scorable, NEW from \in Nat, NEW to \in Nat, NEW step \in 1..Span, NEW temp, Known(temp),
         temp # NoTemp => ~(ProjectedTemp(from - from, step, temp) > Unit * Ceiling)
  PROVE  Cost(from, temp, from, step) + Cost(to, temp, to, step)
           <= Cost(from, temp, to, step) + Cost(to, temp, from, step)
<1>1. model.heat \in Nat /\ step \in 1..Horizon BY WithinHorizon, Zenon DEF Scorable
<1> DEFINE p == PerformanceTerm(from - from, step)  q == PerformanceTerm(to - to, step)
           r == PerformanceTerm(to - from, step)    s == PerformanceTerm(from - to, step)
           h == TempCost(from, from - from, step, temp)  i == TempCost(to, to - to, step, temp)
           j == TempCost(to, to - from, step, temp)      k == TempCost(from, from - to, step, temp)
           d == Discount[step - 1]
<1>2. p \in Nat /\ q \in Nat /\ r \in Nat /\ s \in Nat /\ p + q <= r + s BY PerformancePair, Zenon
<1>3. h \in Nat /\ i \in Nat /\ j \in Nat /\ k \in Nat /\ h + i <= j + k BY <1>1, TempPair, Zenon
<1>4. /\ Cost(from, temp, from, step) = d * (p + h) /\ Cost(to, temp, to, step) = d * (q + i)
      /\ Cost(from, temp, to, step) = d * (r + j) /\ Cost(to, temp, from, step) = d * (s + k)
  BY StepShape, Zenon
<1>5. /\ \A x, y \in Int : x <= y => d * x <= d * y
      /\ \A x, y \in Int : d * (x + y) = d * x + d * y
  BY Discounted, Zenon
<1> HIDE DEF p, q, r, s, h, i, j, k, d
<1>6. p + h \in Int /\ q + i \in Int /\ r + j \in Int /\ s + k \in Int
      /\ (p + h) + (q + i) \in Int /\ (r + j) + (s + k) \in Int
      /\ (p + h) + (q + i) <= (r + j) + (s + k)
  BY <1>2, <1>3
<1>7. d * ((p + h) + (q + i)) <= d * ((r + j) + (s + k)) BY <1>5, <1>6, Zenon
<1>8. d * (p + h) + d * (q + i) <= d * (r + j) + d * (s + k) BY <1>5, <1>6, <1>7, Zenon
<1>9. QED BY <1>4, <1>8, Zenon

Costs(from, temp, to) == [step \in 1..Span |-> Cost(from, temp, to, step)]

\* The rollout adds up the costs of its steps.
LEMMA RolloutShape ==
  ASSUME NEW from, NEW temp, NEW to
  PROVE  Rolled(from, temp, to) = Total(Costs(from, temp, to), Span)
BY Zenon DEF Rolled, Rollout, Costs, Cost

\* They are natural numbers, and so is the rollout.
LEMMA RolloutNat ==
  ASSUME Scorable, NEW from \in Nat, NEW to \in Nat, NEW temp, Known(temp)
  PROVE  /\ Costs(from, temp, to) \in [1..Span -> Int] /\ Rolled(from, temp, to) \in Nat
         /\ \A step \in 1..Span : Costs(from, temp, to)[step] = Cost(from, temp, to, step)
<1> DEFINE f == Costs(from, temp, to)
<1>1. \A step \in 1..Span : Cost(from, temp, to, step) \in Nat BY StepNat, Zenon
<1>2. \A step \in 1..Span : f[step] = Cost(from, temp, to, step) BY Zenon DEF Costs
<1>3. f \in [1..Span -> Int]
  <2>1. \A step \in 1..Span : Cost(from, temp, to, step) \in Int BY <1>1
  <2>2. QED BY <2>1, Zenon DEF Costs
<1>4. \A step \in 1..Span : f[step] >= 0
  <2>1. \A x \in Nat : x >= 0 OBVIOUS
  <2>2. QED BY <1>1, <1>2, <2>1, Zenon
<1>5. Span \in Nat BY Zenon DEF Scorable
<1> HIDE DEF f
<1>6. Total(f, Span) \in Int /\ Total(f, Span) >= 0 BY <1>3, <1>4, <1>5, TotalType, Zenon
<1>7. Total(f, Span) \in Nat BY <1>6
<1>8. QED BY <1>2, <1>3, <1>7, RolloutShape, Zenon DEF f

\* Scores are numbers: the rollout and the price of the transition.
LEMMA ScoreNat ==
  ASSUME Scorable, NEW from \in Width, NEW temp, Known(temp)
  PROVE  /\ Scores(from, temp) \in [Width -> Nat]
         /\ \A w \in Width : /\ Rolled(from, temp, w) \in Nat /\ Penalty(w - from) \in Nat
                             /\ Scores(from, temp)[w] = Rolled(from, temp, w) + Penalty(w - from)
<1>0. Width \subseteq Nat /\ from \in Nat BY WidthAssumption DEF Width
<1>1. ASSUME NEW w \in Width PROVE Rolled(from, temp, w) \in Nat /\ Penalty(w - from) \in Nat
  <2>1. w - from \in -2..2 BY WidthAssumption DEF Width
  <2>2. Penalty(w - from) \in Nat BY <2>1, PenaltyNat, Zenon
  <2>3. QED BY <1>0, <2>2, RolloutNat, Zenon
<1>2. Scores(from, temp) = [w \in Width |-> Rolled(from, temp, w) + Penalty(w - from)]
  BY Zenon DEF Scores, Rolled
<1>3. \A w \in Width : Rolled(from, temp, w) + Penalty(w - from) \in Nat BY <1>1
<1>4. QED BY <1>1, <1>2, <1>3, Zenon

\* The scores of staying at two widths are together at most those of changing places.
LEMMA ScorePair ==
  ASSUME Scorable, NEW from \in Width, NEW to \in Width, NEW temp, Known(temp),
         ~Crosses(from, from, temp)
  PROVE  Scores(from, temp)[from] + Scores(to, temp)[to]
           <= Scores(from, temp)[to] + Scores(to, temp)[from]
<1>0. from \in Nat /\ to \in Nat /\ from - from = 0 /\ to - to = 0 BY WidthAssumption DEF Width
<1>1. ASSUME NEW step \in 1..Span
      PROVE  Cost(from, temp, from, step) + Cost(to, temp, to, step)
               <= Cost(from, temp, to, step) + Cost(to, temp, from, step)
  <2>1. temp # NoTemp => ~(ProjectedTemp(from - from, step, temp) > Unit * Ceiling)
    BY Zenon DEF Crosses
  <2>2. QED BY <1>0, <2>1, StepPair, Zenon
<1>2. Rolled(from, temp, from) + Rolled(to, temp, to) <= Rolled(from, temp, to) + Rolled(to, temp, from)
  <2> DEFINE a == Costs(from, temp, from)  b == Costs(to, temp, to)
             c == Costs(from, temp, to)    d == Costs(to, temp, from)
  <2>1. /\ a \in [1..Span -> Int] /\ b \in [1..Span -> Int]
        /\ c \in [1..Span -> Int] /\ d \in [1..Span -> Int]
    BY <1>0, RolloutNat, Zenon
  <2>2. ASSUME NEW step \in 1..Span PROVE a[step] + b[step] <= c[step] + d[step]
    <3>1. a[step] = Cost(from, temp, from, step) BY <1>0, RolloutNat, Zenon
    <3>2. b[step] = Cost(to, temp, to, step) BY <1>0, RolloutNat, Zenon
    <3>3. c[step] = Cost(from, temp, to, step) BY <1>0, RolloutNat, Zenon
    <3>4. d[step] = Cost(to, temp, from, step) BY <1>0, RolloutNat, Zenon
    <3> HIDE DEF a, b, c, d
    <3>5. QED BY <1>1, <3>1, <3>2, <3>3, <3>4, Zenon
  <2>3. Span \in Nat BY Zenon DEF Scorable
  <2> HIDE DEF a, b, c, d
  <2>4. Total(a, Span) + Total(b, Span) <= Total(c, Span) + Total(d, Span)
    BY <2>1, <2>2, <2>3, TotalPair, Zenon
  <2>5. QED BY <2>4, RolloutShape, Zenon DEF a, b, c, d
<1>3. Penalty(from - from) = 0 /\ Penalty(to - to) = 0
  <2>1. 0 \in -2..2 OBVIOUS
  <2>2. QED BY <1>0, <2>1, PenaltyNat, Zenon
<1>4. /\ Scores(from, temp)[from] = Rolled(from, temp, from) + Penalty(from - from)
      /\ Scores(to, temp)[to] = Rolled(to, temp, to) + Penalty(to - to)
      /\ Scores(from, temp)[to] = Rolled(from, temp, to) + Penalty(to - from)
      /\ Scores(to, temp)[from] = Rolled(to, temp, from) + Penalty(from - to)
      /\ Rolled(from, temp, from) \in Nat /\ Rolled(to, temp, to) \in Nat
      /\ Rolled(from, temp, to) \in Nat /\ Rolled(to, temp, from) \in Nat
      /\ Penalty(to - from) \in Nat /\ Penalty(from - to) \in Nat
  BY ScoreNat, Zenon
<1>5. QED BY <1>2, <1>3, <1>4

\* Without a temperature, and with a valid ceiling, no narrower width scores better.
LEMMA NarrowerIsDearer ==
  ASSUME Scorable, NEW from \in Width, NEW to \in Width, to <= from, limits # "badCeiling"
  PROVE  Scores(from, NoTemp)[from] <= Scores(from, NoTemp)[to]
<1>0. from \in Nat /\ to \in Nat /\ from - from = 0 BY WidthAssumption DEF Width
<1>1. Known(NoTemp) BY Zenon DEF Known
<1>2. ASSUME NEW step \in 1..Span
      PROVE  Cost(from, NoTemp, from, step) <= Cost(from, NoTemp, to, step)
  <2> DEFINE p == PerformanceTerm(from - from, step)
             q == PerformanceTerm(to - from, step)
             d == Discount[step - 1]
  <2>1. p \in Nat /\ q \in Nat /\ p <= q BY <1>0, PerformancePair, Zenon
  <2>2. /\ TempCost(from, from - from, step, NoTemp) = 0
        /\ TempCost(to, to - from, step, NoTemp) = 0
    BY <1>0, <1>1, NoTempCost, HardCostFacts, ZenonT(60)
  <2>3. /\ Cost(from, NoTemp, from, step) = d * (p + 0)
        /\ Cost(from, NoTemp, to, step) = d * (q + 0)
    BY <2>2, StepShape, Zenon
  <2>4. \A x, y \in Int : x <= y => d * x <= d * y BY Discounted, Zenon
  <2> HIDE DEF p, q, d
  <2>5. p + 0 \in Int /\ q + 0 \in Int /\ p + 0 <= q + 0 BY <2>1
  <2>6. QED BY <2>3, <2>4, <2>5, Zenon
<1>3. Rolled(from, NoTemp, from) <= Rolled(from, NoTemp, to)
  <2> DEFINE a == Costs(from, NoTemp, from)
             c == Costs(from, NoTemp, to)
  <2>1. a \in [1..Span -> Int] /\ c \in [1..Span -> Int] BY <1>0, <1>1, RolloutNat, Zenon
  <2>2. ASSUME NEW step \in 1..Span PROVE a[step] <= c[step]
    <3>1. a[step] = Cost(from, NoTemp, from, step) BY <1>0, <1>1, RolloutNat, Zenon
    <3>2. c[step] = Cost(from, NoTemp, to, step) BY <1>0, <1>1, RolloutNat, Zenon
    <3> HIDE DEF a, c
    <3>3. QED BY <1>2, <3>1, <3>2, Zenon
  <2>3. Span \in Nat BY Zenon DEF Scorable
  <2> HIDE DEF a, c
  <2>4. Total(a, Span) <= Total(c, Span) BY <2>1, <2>2, <2>3, TotalMonotone, Zenon
  <2>5. QED BY <2>4, RolloutShape, Zenon DEF a, c
<1>4. Penalty(from - from) = 0
  <2>1. 0 \in -2..2 OBVIOUS
  <2>2. QED BY <1>0, <2>1, PenaltyNat, Zenon
<1>5. /\ Scores(from, NoTemp)[from] = Rolled(from, NoTemp, from) + Penalty(from - from)
      /\ Scores(from, NoTemp)[to] = Rolled(from, NoTemp, to) + Penalty(to - from)
      /\ Rolled(from, NoTemp, from) \in Nat /\ Rolled(from, NoTemp, to) \in Nat
      /\ Penalty(to - from) \in Nat
  BY <1>1, ScoreNat, Zenon
<1>6. QED BY <1>3, <1>4, <1>5

----------------------------------------------------------------------------
(* The choice.                                                             *)

\* The thresholds of the choice are positive numbers.
LEMMA Thresholds ==
  /\ StabilityMargin \in Nat /\ MinImprovement \in Nat /\ MinImprovement > 0
<1> DEFINE u == Unit * Unit
<1>1. u \in Nat /\ u > 0 BY UnitAssumption
<1>2. 5 * Unit * Unit = 5 * u /\ 20 * Unit * Unit = 20 * u BY UnitAssumption
<1> HIDE DEF u
<1>3. QED BY <1>1, <1>2 DEF StabilityMargin, MinImprovement

\* One turn of the loop keeps a best width that is at most the margin worse than the
\* candidate and no worse than the best before.
LEMMA BetterFacts ==
  ASSUME NEW cost \in [Width -> Nat], NEW best \in Width, NEW candidate \in Nat
  PROVE  /\ Better(cost, best, candidate) \in Width
         /\ cost[Better(cost, best, candidate)] <= cost[best]
         /\ candidate \in Width => cost[Better(cost, best, candidate)] <= cost[candidate] + StabilityMargin
<1>1. cost[best] \in Nat OBVIOUS
<1>2. CASE candidate \in Width
  <2>1. cost[candidate] \in Nat BY <1>2
  <2>2. CASE Better(cost, best, candidate) = best /\ ~(cost[candidate] + StabilityMargin < cost[best])
    <3>1. cost[best] <= cost[candidate] + StabilityMargin BY <1>1, <2>1, <2>2, Thresholds
    <3>2. cost[best] <= cost[best] BY <1>1
    <3>3. QED BY <2>2, <3>1, <3>2, Zenon
  <2>3. CASE Better(cost, best, candidate) = candidate /\ cost[candidate] + StabilityMargin < cost[best]
    <3>1. cost[candidate] <= cost[best] /\ cost[candidate] <= cost[candidate] + StabilityMargin
      BY <1>1, <2>1, <2>3, Thresholds
    <3>2. QED BY <1>2, <2>3, <3>1, Zenon
  <2>4. candidate <= MaxWidth BY <1>2, WidthAssumption DEF Width
  <2>5. QED BY <2>2, <2>3, <2>4, Zenon DEF Better
<1>3. CASE candidate \notin Width
  <2>1. ~(candidate <= MaxWidth) BY <1>3, WidthAssumption DEF Width
  <2>2. Better(cost, best, candidate) = best BY <2>1, Zenon DEF Better
  <2>3. QED BY <1>1, <1>3, <2>2
<1>4. QED BY <1>2, <1>3, Zenon

\* The chosen width, against the current one and against any other.
LEMMA ChoiceFacts ==
  ASSUME NEW from \in Width, NEW temp, Scores(from, temp) \in [Width -> Nat]
  PROVE  LET cost == Scores(from, temp)
             to == Choice(from, temp)
         IN  /\ to \in Width
             /\ to # from => cost[from] - cost[to] >= MinImprovement
             /\ \A w \in Width : cost[w] >= cost[to] - StabilityMargin
                                            - (IF to = from THEN MinImprovement ELSE 0)
<1> DEFINE cost == Scores(from, temp)
           b0 == Better(cost, from, 0)
           b1 == Better(cost, b0, 1)
           best == Better(cost, b1, 2)
           to == Choice(from, temp)
<1>1. to = IF cost[from] - cost[best] < MinImprovement THEN from ELSE best BY Zenon DEF Choice
<1> HIDE DEF cost, to
<1>2. cost \in [Width -> Nat] /\ 0 \in Nat /\ 1 \in Nat /\ 2 \in Nat BY DEF cost
<1>3. b0 \in Width /\ (0 \in Width => cost[b0] <= cost[0] + StabilityMargin) /\ cost[b0] <= cost[from]
  BY <1>2, BetterFacts, Zenon
<1> HIDE DEF b0
<1>4. b1 \in Width /\ (1 \in Width => cost[b1] <= cost[1] + StabilityMargin) /\ cost[b1] <= cost[b0]
  BY <1>2, <1>3, BetterFacts, Zenon
<1> HIDE DEF b1
<1>5. best \in Width /\ (2 \in Width => cost[best] <= cost[2] + StabilityMargin) /\ cost[best] <= cost[b1]
  BY <1>2, <1>4, BetterFacts, Zenon
<1> HIDE DEF best
<1>6. cost[b0] \in Nat /\ cost[b1] \in Nat /\ cost[best] \in Nat /\ cost[from] \in Nat
  BY <1>2, <1>3, <1>4, <1>5, Zenon
<1>7. ASSUME NEW w \in Width PROVE cost[w] \in Nat /\ cost[best] <= cost[w] + StabilityMargin
  <2>1. cost[w] \in Nat BY <1>2, Zenon
  <2>2. w = 0 \/ w = 1 \/ w = 2 BY WidthAssumption DEF Width
  <2>3. QED BY <1>3, <1>4, <1>5, <1>6, <2>1, <2>2, Thresholds
<1>8. /\ to \in Width
      /\ to # from => cost[from] - cost[to] >= MinImprovement
      /\ cost[to] <= cost[best] + (IF to = from THEN MinImprovement ELSE 0)
  BY <1>1, <1>5, <1>6, Thresholds
<1>9. cost[to] \in Nat BY <1>2, <1>8, Zenon
<1>10. \A w \in Width : cost[w] >= cost[to] - StabilityMargin - (IF to = from THEN MinImprovement ELSE 0)
  BY <1>6, <1>7, <1>8, <1>9, Thresholds
<1>11. QED BY <1>8, <1>10, Zenon DEF cost, to

\* A change is not taken back: it and its reversal would each save the least
\* improvement, and together staying is at most as dear as changing places.
LEMMA NotTakenBack ==
  ASSUME Scorable, NEW from \in Width, NEW temp, Known(temp),
         Choice(from, temp) # from, ~Crosses(from, from, temp)
  PROVE  Choice(Choice(from, temp), temp) # from
<1> DEFINE to == Choice(from, temp)
<1>1. Scores(from, temp) \in [Width -> Nat] BY ScoreNat, Zenon
<1>2. to \in Width /\ Scores(from, temp)[from] - Scores(from, temp)[to] >= MinImprovement
  BY <1>1, ChoiceFacts, Zenon
<1> HIDE DEF to
<1>3. Scores(to, temp) \in [Width -> Nat] BY <1>2, ScoreNat, Zenon
<1>4. SUFFICES ASSUME Choice(to, temp) = from PROVE FALSE BY Zenon DEF to
<1>5. from # to BY Zenon DEF to
<1>6. Scores(to, temp)[to] - Scores(to, temp)[from] >= MinImprovement
  BY <1>2, <1>3, <1>4, <1>5, ChoiceFacts, Zenon
<1>7. Scores(from, temp)[from] + Scores(to, temp)[to]
        <= Scores(from, temp)[to] + Scores(to, temp)[from]
  BY <1>2, ScorePair, Zenon
<1>8. /\ Scores(from, temp)[from] \in Nat /\ Scores(from, temp)[to] \in Nat
      /\ Scores(to, temp)[from] \in Nat /\ Scores(to, temp)[to] \in Nat
  BY <1>1, <1>2, <1>3, Zenon
<1>9. QED BY <1>2, <1>6, <1>7, <1>8, Thresholds

\* An answer is the safety width, no change, or what is made of the controller's choice.
Advised(from, a) ==
  /\ ~fallback /\ ~Stale /\ history # <<>>
  /\ \E f \in ForecastTemps :
       /\ a.temp = f.temp
       /\ \/ /\ Allowed(from, Choice(from, f.temp))
             /\ a.by = "controller" /\ a.to = Choice(from, f.temp)
          \/ ~Allowed(from, Choice(from, f.temp)) /\ a.by = "refused" /\ a.to = from

\* There are no other answers.
LEMMA AnswerShape ==
  ASSUME NEW from, NEW a \in Answers(from)
  PROVE  \/ a.by = "safety" /\ a.to = 0
         \/ a.by = "declined" /\ a.to = from
         \/ Advised(from, a)
<1>1. CASE fallback \/ Emergency(from)
  <2>1. a = [by |-> "safety", to |-> 0, temp |-> NoTemp, forecast |-> forecast]
    BY <1>1, Zenon DEF Answers
  <2>2. QED BY <2>1
<1>2. CASE ~(fallback \/ Emergency(from)) /\ (history = <<>> \/ Stale)
  <2>1. a = [by |-> "declined", to |-> from, temp |-> NoTemp, forecast |-> forecast]
    BY <1>2, Zenon DEF Answers, Advice
  <2>2. QED BY <2>1
<1>3. CASE ~(fallback \/ Emergency(from)) /\ ~(history = <<>> \/ Stale)
  <2>1. PICK f \in ForecastTemps :
          a = [by |-> IF Allowed(from, Choice(from, f.temp)) THEN "controller" ELSE "refused",
               to |-> IF Allowed(from, Choice(from, f.temp)) THEN Choice(from, f.temp) ELSE from,
               temp |-> f.temp,
               forecast |-> f.by = "model"]
    BY <1>3, Zenon DEF Answers, Advice
  <2>2. /\ a.by = IF Allowed(from, Choice(from, f.temp)) THEN "controller" ELSE "refused"
        /\ a.to = IF Allowed(from, Choice(from, f.temp)) THEN Choice(from, f.temp) ELSE from
        /\ a.temp = f.temp
    BY <2>1, Zenon
  <2>3. Advised(from, a) BY <1>3, <2>2, Zenon DEF Advised
  <2>4. QED BY <2>3
<1>4. QED BY <1>1, <1>2, <1>3, Zenon

\* An answer of the controller is its choice, on a forecast made from a sample.
LEMMA ControllerAnswers ==
  ASSUME NEW from, NEW a \in Answers(from), a.by = "controller"
  PROVE  /\ history # <<>> /\ \E f \in ForecastTemps : a.temp = f.temp
         /\ a.to = Choice(from, a.temp)
<1>1. "controller" # "safety" /\ "controller" # "declined" /\ "controller" # "refused" OBVIOUS
<1>2. Advised(from, a) BY <1>1, AnswerShape, Zenon
<1>3. QED BY <1>1, <1>2, Zenon DEF Advised

\* Typed states have settled choices.
LEMMA SettledChoice == TypeOK => ChoiceIsSettled
<1>1. SUFFICES ASSUME TypeOK, NEW from \in Width, NEW a \in Answers(from), a.by = "controller"
               PROVE  LET cost == Scores(from, a.temp)
                      IN /\ a.to # from => cost[from] - cost[a.to] >= MinImprovement
                         /\ \A w \in Width : cost[w] >= cost[a.to] - StabilityMargin
                                                 - (IF a.to = from THEN MinImprovement ELSE 0)
                         /\ a.to # from /\ ~Crosses(from, from, a.temp) => Choice(a.to, a.temp) # from
                         /\ a.temp = NoTemp /\ limits # "badCeiling" => a.to >= from
  BY Zenon DEF ChoiceIsSettled
<1>2. history # <<>> /\ Known(a.temp) /\ a.to = Choice(from, a.temp)
  BY <1>1, ControllerAnswers, AdviceTypes, Zenon
<1>3. Scorable BY <1>1, <1>2, ScorableState, Zenon
<1>4. Scores(from, a.temp) \in [Width -> Nat] BY <1>2, <1>3, ScoreNat, Zenon
<1>5. /\ a.to \in Width
      /\ a.to # from => Scores(from, a.temp)[from] - Scores(from, a.temp)[a.to] >= MinImprovement
      /\ \A w \in Width : Scores(from, a.temp)[w] >= Scores(from, a.temp)[a.to] - StabilityMargin
                              - (IF a.to = from THEN MinImprovement ELSE 0)
  BY <1>2, <1>4, ChoiceFacts, Zenon
<1>6. a.to # from /\ ~Crosses(from, from, a.temp) => Choice(a.to, a.temp) # from
  BY <1>2, <1>3, NotTakenBack, Zenon
<1>7. ASSUME a.temp = NoTemp, limits # "badCeiling" PROVE a.to >= from
  <2>1. from \in Nat /\ a.to \in Nat BY <1>5, WidthAssumption DEF Width
  <2>2. SUFFICES ASSUME a.to <= from, a.to # from PROVE FALSE BY <2>1
  <2>3. Scores(from, a.temp)[from] <= Scores(from, a.temp)[a.to]
    BY <1>3, <1>5, <1>7, <2>2, NarrowerIsDearer, Zenon
  <2>4. Scores(from, a.temp)[from] \in Nat /\ Scores(from, a.temp)[a.to] \in Nat
    BY <1>4, <1>5, Zenon
  <2>5. QED BY <1>5, <2>2, <2>3, <2>4, Thresholds
<1>8. QED BY <1>5, <1>6, <1>7, Zenon

----------------------------------------------------------------------------
(* The ceiling.                                                            *)

\* A step that carries the hard cost is as dear as it.
LEMMA PricedStep ==
  ASSUME Scorable, NEW from \in Nat, NEW w \in Nat, NEW step \in 1..Span, NEW temp, Known(temp),
         Priced(w, from, temp, step)
  PROVE  /\ Discount[step - 1] * 20 * Unit * HardCost \in Int
         /\ Discount[step - 1] * 20 * Unit * HardCost <= Cost(from, temp, w, step)
<1> DEFINE h == 20 * Unit * HardCost
           p == PerformanceTerm(w - from, step)
           q == TempCost(w, w - from, step, temp)
           d == Discount[step - 1]
<1>1. Unit \in Nat /\ HardCost \in Nat /\ Ceiling \in Nat
  BY UnitAssumption, ScoreAssumption, LimitAssumption, Zenon
<1>2. h \in Nat BY <1>1
<1>3. p \in Nat /\ q \in Nat BY StepNat, Zenon
<1>4. q >= h
  <2>1. CASE temp = NoTemp
    <3>1. limits = "badCeiling" /\ w > 0 BY <2>1, Zenon DEF Priced
    <3>2. HardCostOf(w, NoTemp) = h BY <3>1, Zenon DEF HardCostOf
    <3>3. q = h BY <2>1, <3>2, NoTempCost, Zenon
    <3> HIDE DEF q, h
    <3>4. QED BY <1>2, <3>3
  <2>2. CASE temp \in Int
    <3> DEFINE y == ProjectedTemp(w - from, step, temp)
               k == Unit * Ceiling
    <3>1. w - from \in Int OBVIOUS
    <3>2. Effect(w - from, model.heat, step) \in Int
      BY <3>1, WithinHorizon, EffectOpposite, Zenon DEF Scorable
    <3>3. temp + Effect(w - from, model.heat, step) \in Int BY <2>2, <3>2
    <3>4. y = temp + Effect(w - from, model.heat, step) BY Zenon DEF ProjectedTemp, Effect
    <3>5. q = SoftTempCost(y) + HardCostOf(w, y) BY <2>2, <3>4, TempCostShape
    <3>6. y \in Int /\ y # NoTemp BY <3>3, <3>4, LimitAssumption, Zenon
    <3>7. SoftTempCost(y) \in Nat BY <3>6, SoftTempConvex, Zenon
    <3>8. k \in Int BY <1>1
    <3>9. HardCostOf(w, y) = h \/ (HardCostOf(w, y) = h + 20 * (y - k) /\ y > k)
      BY <3>6, Zenon DEF HardCostOf, Priced
    <3> HIDE DEF y, k, q, h
    <3>10. QED BY <1>2, <3>5, <3>6, <3>7, <3>8, <3>9
  <2>3. QED BY <2>1, <2>2, Zenon DEF Known
<1>5. Cost(from, temp, w, step) = d * (p + q) BY StepShape, Zenon
<1>6. d \in Nat /\ \A x, y \in Int : x <= y => d * x <= d * y BY Discounted, Zenon
<1>7. d * 20 * Unit * HardCost = d * h
  <2> HIDE DEF d
  <2>1. QED BY <1>1, <1>6
<1> HIDE DEF p, q, d, h
<1>8. h \in Int /\ p + q \in Int /\ h <= p + q /\ d * h \in Int BY <1>2, <1>3, <1>4, <1>6
<1>9. d * h <= d * (p + q) BY <1>6, <1>8, Zenon
<1>10. QED BY <1>5, <1>7, <1>8, <1>9, Zenon DEF d

\* So a score contains the price of all the steps above the ceiling.
LEMMA PricedScore ==
  ASSUME Scorable, NEW from \in Width, NEW w \in Width, NEW temp, Known(temp)
  PROVE  HardPrice(w, from, temp) \in Int /\ HardPrice(w, from, temp) <= Scores(from, temp)[w]
<1> DEFINE price(step) == IF Priced(w, from, temp, step)
                          THEN Discount[step - 1] * 20 * Unit * HardCost ELSE 0
           f == [step \in 1..Span |-> price(step)]
           c == Costs(from, temp, w)
<1>0. from \in Nat /\ w \in Nat BY WidthAssumption DEF Width
<1>1. ASSUME NEW step \in 1..Span PROVE price(step) \in Int /\ price(step) <= Cost(from, temp, w, step)
  <2>1. CASE Priced(w, from, temp, step) BY <1>0, <2>1, PricedStep, Zenon
  <2>2. CASE ~Priced(w, from, temp, step)
    <3>1. price(step) = 0 BY <2>2, Zenon
    <3>2. Cost(from, temp, w, step) \in Nat BY <1>0, StepNat, Zenon
    <3> HIDE DEF price
    <3>3. QED BY <3>1, <3>2
  <2>3. QED BY <2>1, <2>2, Zenon
<1>2. HardPrice(w, from, temp) = Total(f, Span) BY Zenon DEF HardPrice
<1> HIDE DEF price
<1>3. f \in [1..Span -> Int] /\ \A step \in 1..Span : f[step] = price(step) BY <1>1, Zenon
<1>4. c \in [1..Span -> Int] /\ Rolled(from, temp, w) \in Nat
      /\ \A step \in 1..Span : c[step] = Cost(from, temp, w, step)
  BY <1>0, RolloutNat, Zenon
<1>5. \A step \in 1..Span : f[step] <= c[step] BY <1>1, <1>3, <1>4, Zenon
<1>6. Span \in Nat BY Zenon DEF Scorable
<1> HIDE DEF f, c
<1>7. Total(f, Span) \in Int /\ Total(f, Span) <= Total(c, Span)
  BY <1>3, <1>4, <1>5, <1>6, TotalType, TotalMonotone, Zenon
<1>8. Rolled(from, temp, w) = Total(c, Span) BY RolloutShape, Zenon DEF c
<1>9. /\ Penalty(w - from) \in Nat
      /\ Scores(from, temp)[w] = Rolled(from, temp, w) + Penalty(w - from)
  BY ScoreNat, Zenon
<1>10. QED BY <1>2, <1>4, <1>7, <1>8, <1>9

\* Typed states have a priced ceiling.
LEMMA PricedChoice == TypeOK => CeilingIsPriced
<1>1. SUFFICES ASSUME TypeOK, NEW from \in Width, NEW a \in Answers(from), a.by = "controller",
                      NEW w \in Width
               PROVE  Scores(from, a.temp)[w] >= HardPrice(a.to, from, a.temp) - StabilityMargin
                                                   - (IF a.to = from THEN MinImprovement ELSE 0)
  BY Zenon DEF CeilingIsPriced
<1>2. history # <<>> /\ Known(a.temp) /\ a.to = Choice(from, a.temp)
  BY <1>1, ControllerAnswers, AdviceTypes, Zenon
<1>3. Scorable BY <1>1, <1>2, ScorableState, Zenon
<1>4. Scores(from, a.temp) \in [Width -> Nat] BY <1>2, <1>3, ScoreNat, Zenon
<1>5. /\ a.to \in Width
      /\ Scores(from, a.temp)[w] >= Scores(from, a.temp)[a.to] - StabilityMargin
                                      - (IF a.to = from THEN MinImprovement ELSE 0)
  BY <1>2, <1>4, ChoiceFacts, Zenon
<1> DEFINE p == HardPrice(a.to, from, a.temp)
           s == Scores(from, a.temp)[w]
           t == Scores(from, a.temp)[a.to]
           m == IF a.to = from THEN MinImprovement ELSE 0
<1>6. p \in Int /\ p <= t BY <1>2, <1>3, <1>5, PricedScore, Zenon
<1>7. s \in Nat /\ t \in Nat BY <1>4, <1>5, Zenon
<1>8. m \in Nat BY Thresholds
<1>9. s >= t - StabilityMargin - m BY <1>5, Zenon
<1> HIDE DEF p, s, t, m
<1>10. s >= p - StabilityMargin - m BY <1>6, <1>7, <1>8, <1>9, Thresholds
<1>11. QED BY <1>10, Zenon DEF p, s, m

----------------------------------------------------------------------------
(* The induction.                                                          *)

\* A residual, if any, is that of a forecast and the next sample.
OneStep(r) == r \in {"none", "next"}

\* The history limit is the horizon or what a file requires, whatever was loaded since.
ModelPart ==
  /\ loaded \in BOOLEAN /\ model \in Coefficients /\ (loaded => model.terms > 0)
  /\ window \in Nat \ {0} /\ limit \in Nat /\ limit >= Horizon
  /\ OneStep(residual) /\ (limit = Horizon \/ \E f \in Files : limit = Required(f))

\* A forecast that waits was made after the newest sample.
Waiting == forecast \in BOOLEAN /\ sampled \in BOOLEAN /\ (forecast => ~sampled)

\* The history is within what some load allowed.
Kept(n) == n <= limit \/ \E f \in Files : n <= Required(f)
HistoryPart ==
  history \in Seq(Sample) /\ Kept(Len(history)) /\ age \in Nat /\ Waiting

\* A call that has thrown holds the policy in the fallback.
CallPart ==
  /\ present \in BOOLEAN /\ fallback \in BOOLEAN /\ suspect \in BOOLEAN
  /\ limits \in {"valid", "badMargin", "badCeiling"} /\ last \in Temps \cup {NoTemp}
  /\ (suspect => fallback)

PolicyInv == ModelPart /\ HistoryPart /\ CallPart

\* The invariant contains the types.
LEMMA InvTypes == PolicyInv => TypeOK
BY Zenon DEF PolicyInv, ModelPart, HistoryPart, Waiting, CallPart, Kept, OneStep, TypeOK

\* A cleared residual is none.
LEMMA NoneIsOneStep == OneStep("none")
BY Zenon DEF OneStep

\* What a load leaves, whichever way it ends, is well typed.
LEMMA LoadType ==
  ASSUME ModelPart, NEW r, OneStep(r), Load(r)
  PROVE  ModelPart'
<1>1. Horizon \in Nat /\ Defaults \in Coefficients /\ Defaults.window \in Nat \ {0}
  BY HorizonAssumption, FileAssumption DEF Coefficients
<1>2. ASSUME LoadFails(r)
      PROVE  /\ loaded' = FALSE /\ model' \in Coefficients /\ window' \in Nat \ {0}
             /\ limit' = Horizon /\ limit' \in Nat /\ limit' >= Horizon /\ OneStep(residual')
  <2>1. Horizon >= Horizon BY <1>1
  <2>2. QED BY <1>1, <1>2, <2>1, Zenon DEF LoadFails, ModelPart
<1>3. ASSUME NEW f \in Files, ParseAccepts(f), LoadSucceeds(Parsed(f))
      PROVE  /\ loaded' = TRUE /\ model' \in Coefficients /\ model'.terms > 0
             /\ window' \in Nat \ {0} /\ limit' \in Nat /\ limit' >= Horizon
             /\ OneStep(residual') /\ (limit' = Horizon \/ limit' = Required(f))
  <2>1. f \in [terms : Nat, others : Nat, window : Nat, heat : Int, gain : Int]
    BY <1>3, FileAssumption, Zenon
  <2>2. /\ Parsed(f) \in Coefficients /\ Parsed(f).terms > 0 /\ Parsed(f).window \in Nat \ {0}
        /\ Parsed(f).terms = f.terms /\ Parsed(f).others = f.others
    BY <1>3, <2>1 DEF Parsed, ParseAccepts, Coefficients, Larger
  <2>3. Required(Parsed(f)) = Required(f) BY <2>2, Zenon DEF Required
  <2>4. Required(f) \in Nat BY <2>1 DEF Required, Larger
  <2>5. \A h, q \in Nat : /\ Larger(h, q) \in Nat /\ Larger(h, q) >= h
                           /\ (Larger(h, q) = h \/ Larger(h, q) = q)
    BY DEF Larger
  <2>6. /\ loaded' = TRUE /\ model' = Parsed(f) /\ window' = Parsed(f).window
        /\ limit' = Larger(Horizon, Required(f)) /\ residual' = "none"
    BY <1>3, <2>3, Zenon DEF LoadSucceeds
  <2>7. QED BY <1>1, <2>2, <2>4, <2>5, <2>6, NoneIsOneStep, Zenon
<1>4. CASE LoadFails(r)
  <2>1. QED BY <1>2, <1>4, Zenon DEF ModelPart, OneStep
<1>5. CASE \E f \in Files : ParseAccepts(f) /\ LoadSucceeds(Parsed(f))
  <2>1. PICK f \in Files : ParseAccepts(f) /\ LoadSucceeds(Parsed(f)) BY <1>5, Zenon
  <2>2. QED BY <1>3, <2>1, Zenon DEF ModelPart, OneStep, Required
<1>6. QED BY <1>4, <1>5, Zenon DEF Load

\* Sequences over a set that are no longer than a limit.
AtMost(n, S) == {q \in Seq(S) : Len(q) <= n}

\* A sample pushed onto the history, trimmed to the limit.
LEMMA PushedType ==
  ASSUME NEW S, NEW h \in Seq(S), NEW s \in S, NEW n \in Nat, n >= 1,
         NEW g, g = SubSeq(Append(h, s), Positive(Len(Append(h, s)) - n) + 1, Len(Append(h, s)))
  PROVE  g \in AtMost(n, S)
<1> DEFINE p == Append(h, s)
           m == Positive(Len(p) - n) + 1
<1>1. p \in Seq(S) /\ Len(p) \in Nat /\ Len(p) >= 1 /\ \A i \in 1..Len(p) : p[i] \in S
  OBVIOUS
<1> HIDE DEF p
<1>2. m \in Int /\ m >= 1 /\ m <= Len(p) /\ Len(p) - m + 1 <= n BY <1>1 DEF Positive, Larger
<1> HIDE DEF m
<1>3. \A i \in m..Len(p) : p[i] \in S BY <1>1, <1>2
<1>4. g = SubSeq(p, m, Len(p)) BY Zenon DEF p, m
<1>5. g \in Seq(S) /\ Len(g) = Len(p) - m + 1
  <2>1. Len(p) \in Int BY <1>1
  <2>2. p \in Seq(S) BY <1>1
  <2>3. SubSeq(p, m, Len(p)) \in Seq(S) BY <1>2, <1>3, <2>1, SubSeqProperties, Zenon
  <2>4. Len(SubSeq(p, m, Len(p))) = Len(p) - m + 1
    <3>1. ASSUME NEW q, NEW i \in Int, NEW j \in Int, i <= j, \A k \in i..j : q[k] \in S
          PROVE  Len(SubSeq(q, i, j)) = j - i + 1
      <4>1. Len(SubSeq(q, i, j)) = IF i <= j THEN j - i + 1 ELSE 0 BY <3>1, SubSeqProperties
      <4>2. QED BY <3>1, <4>1, Zenon
    <3>2. QED BY <1>2, <1>3, <2>1, <3>1, Zenon
  <2>5. QED BY <1>4, <2>3, <2>4, Zenon
<1>6. QED BY <1>2, <1>5, Zenon DEF AtMost

\* A load does not trim the history, which stays within what a load allowed.
LEMMA LoadKeeps ==
  ASSUME ModelPart, HistoryPart, ModelPart', UNCHANGED <<history, age, forecast, sampled>>
  PROVE  HistoryPart'
<1>1. Len(history) \in Nat BY Zenon, LenProperties DEF HistoryPart
<1>2. limit' \in Nat /\ limit' >= Horizon /\ Horizon \in Nat
  BY HorizonAssumption DEF ModelPart
<1>3. CASE Len(history) <= limit /\ limit = Horizon
  <2>1. Len(history) <= limit' BY <1>1, <1>2, <1>3
  <2>2. QED BY <2>1, Zenon DEF HistoryPart, Waiting, Kept, Required
<1>4. CASE \E f \in Files : Len(history) <= Required(f)
  BY <1>4, Zenon DEF HistoryPart, Waiting, Kept, Required
<1>5. QED BY <1>3, <1>4, Zenon DEF HistoryPart, Kept, ModelPart

\* A cleared controller.
LEMMA ClearKeeps ==
  ASSUME ModelPart, ClearController PROVE ModelPart' /\ HistoryPart'
<1>1. ModelPart' BY NoneIsOneStep, LoadType, Zenon DEF ClearController
<1>2. history' = <<>> /\ age' = 0 /\ Waiting' BY Zenon DEF ClearController, Waiting
<1>3. limit' \in Nat BY <1>1, Zenon DEF ModelPart
<1>4. <<>> \in Seq(Sample) /\ Len(<<>>) <= limit' /\ 0 \in Nat BY <1>3
<1>5. HistoryPart' BY <1>2, <1>4, Zenon DEF HistoryPart, Kept
<1>6. QED BY <1>1, <1>5, Zenon

\* A policy begins with nothing recorded and no coefficients.
LEMMA PolicyStart == Init => PolicyInv
<1>1. SUFFICES ASSUME Init PROVE PolicyInv OBVIOUS
<1>2. Horizon \in Nat /\ Defaults \in Coefficients /\ Defaults.window \in Nat \ {0}
  BY HorizonAssumption, FileAssumption DEF Coefficients
<1>3. Horizon >= Horizon /\ <<>> \in Seq(Sample) /\ Len(<<>>) <= Horizon /\ 0 \in Nat BY <1>2
<1>4. ModelPart BY <1>1, <1>2, <1>3, NoneIsOneStep, Zenon DEF Init, ModelPart
<1>5. HistoryPart BY <1>1, <1>3, Zenon DEF Init, HistoryPart, Kept, Waiting
<1>6. CallPart BY <1>1, Zenon DEF Init, CallPart
<1>7. QED BY <1>4, <1>5, <1>6, Zenon DEF PolicyInv

\* What pushSample does with the forecast: it meets the sample it was made for.
LEMMA MetForecast ==
  ASSUME Waiting, OneStep(residual), NEW temp, MeetForecast(temp), sampled' = TRUE
  PROVE  Waiting' /\ OneStep(residual')
<1>1. forecast' = FALSE BY Zenon DEF MeetForecast
<1>2. residual' = "next" \/ residual' = residual BY Zenon DEF MeetForecast, Waiting
<1>3. QED BY <1>1, <1>2, Zenon DEF Waiting, OneStep

\* An answer makes a forecast anew, or leaves the one there was.
LEMMA AnsweredForecast ==
  ASSUME Waiting, NEW from, NEW a \in Answers(from), forecast' = a.forecast,
         sampled' = (sampled /\ a.by \in {"safety", "declined"})
  PROVE  Waiting'
<1>1. CASE a = [by |-> "safety", to |-> 0, temp |-> NoTemp, forecast |-> forecast]
  <2>1. a.forecast = forecast /\ a.by = "safety" BY <1>1
  <2>2. QED BY <2>1, Zenon DEF Waiting
<1>2. CASE a = [by |-> "declined", to |-> from, temp |-> NoTemp, forecast |-> forecast]
  <2>1. a.forecast = forecast /\ a.by = "declined" BY <1>2
  <2>2. QED BY <2>1, Zenon DEF Waiting
<1>3. CASE \E f \in ForecastTemps :
             a = [by |-> IF Allowed(from, Choice(from, f.temp)) THEN "controller" ELSE "refused",
                  to |-> IF Allowed(from, Choice(from, f.temp)) THEN Choice(from, f.temp) ELSE from,
                  temp |-> f.temp,
                  forecast |-> f.by = "model"]
  <2>1. PICK f \in ForecastTemps :
          a = [by |-> IF Allowed(from, Choice(from, f.temp)) THEN "controller" ELSE "refused",
               to |-> IF Allowed(from, Choice(from, f.temp)) THEN Choice(from, f.temp) ELSE from,
               temp |-> f.temp,
               forecast |-> f.by = "model"]
    BY <1>3, Zenon
  <2>2. a.forecast = (f.by = "model") /\ (a.by = "controller" \/ a.by = "refused") BY <2>1, Zenon
  <2>3. a.forecast \in BOOLEAN BY <2>2, Zenon
  <2>4. a.by # "safety" /\ a.by # "declined" BY <2>2
  <2>5. sampled' = FALSE BY <2>4, Zenon
  <2>6. QED BY <2>3, <2>5, Zenon DEF Waiting
<1>4. QED BY <1>1, <1>2, <1>3, Zenon DEF Answers, Advice

\* Every call keeps the invariant.
LEMMA PolicyStep == PolicyInv /\ [Next]_vars => PolicyInv'
<1> SUFFICES ASSUME PolicyInv, [Next]_vars PROVE PolicyInv' OBVIOUS
<1> USE DEF PolicyInv
<1>0. ASSUME UNCHANGED forecast, UNCHANGED sampled PROVE Waiting'
  BY <1>0, Zenon DEF HistoryPart, Waiting
<1>1. ASSUME UNCHANGED <<loaded, model, window, limit>>, OneStep(residual') PROVE ModelPart'
  BY <1>1, Zenon DEF ModelPart, OneStep, Required
<1>2. ASSUME UNCHANGED <<history, limit>>, age' \in Nat, Waiting' PROVE HistoryPart'
  BY <1>2, Zenon DEF HistoryPart, Waiting, Kept, Required
<1>3. ASSUME UNCHANGED <<present, limits, fallback, last, suspect>> PROVE CallPart'
  BY <1>3, Zenon DEF CallPart
<1>4. ASSUME UNCHANGED <<present, limits>>, enterFailClosed, last' \in Temps \cup {NoTemp}
      PROVE  CallPart'
  BY <1>4, Zenon DEF CallPart, enterFailClosed
<1>5. age \in Nat /\ Waiting /\ OneStep(residual) /\ last \in Temps \cup {NoTemp} /\ 0 \in Nat
  BY Zenon DEF HistoryPart, ModelPart, CallPart
<1>6. Horizon \in Nat /\ Horizon >= Horizon /\ Horizon >= 1 /\ Defaults.window \in Nat \ {0}
      /\ Defaults \in Coefficients
  BY HorizonAssumption, FileAssumption DEF Coefficients
<1>7. <<>> \in Seq(Sample) /\ Len(<<>>) <= Horizon BY <1>6
<1>8. CASE Create
  <2>1. ModelPart' /\ HistoryPart' BY <1>8, ClearKeeps, Zenon DEF Create
  <2>2. CallPart' BY <1>8, Zenon DEF Create, CallPart
  <2>3. QED BY <2>1, <2>2, Zenon
<1>9. CASE Destroy
  <2>1. ModelPart' BY <1>6, <1>9, NoneIsOneStep, Zenon DEF Destroy, ModelPart
  <2>2. HistoryPart' BY <1>5, <1>7, <1>9, Zenon DEF Destroy, HistoryPart, Kept, Waiting
  <2>3. CallPart' BY <1>9, Zenon DEF Destroy, CallPart
  <2>4. QED BY <2>1, <2>2, <2>3, Zenon
<1>10. CASE Reset
  <2>1. ModelPart' /\ HistoryPart' BY <1>10, ClearKeeps, Zenon DEF Reset
  <2>2. CallPart' BY <1>10, Zenon DEF Reset, CallPart
  <2>3. QED BY <2>1, <2>2, Zenon
<1>11. CASE ResetThrows
  <2>1. ModelPart' BY <1>6, <1>11, NoneIsOneStep, Zenon DEF ResetThrows, ModelPart
  <2>2. HistoryPart' BY <1>5, <1>7, <1>11, Zenon DEF ResetThrows, HistoryPart, Kept, Waiting
  <2>3. CallPart' BY <1>4, <1>5, <1>11, Zenon DEF ResetThrows
  <2>4. QED BY <2>1, <2>2, <2>3, Zenon
<1>12. CASE Record
  <2>1. PICK raw \in Temps \cup {NoTemp}, filtered \in Temps \cup {NoTemp}, p \in Performance :
          LET temp == IF filtered # NoTemp THEN filtered ELSE raw
              pushed == Append(history, [temp |-> temp, ratio |-> p[1], trimmed |-> p[2]])
          IN /\ last' = raw
             /\ MeetForecast(temp)
             /\ history' = SubSeq(pushed, Positive(Len(pushed) - limit) + 1, Len(pushed))
    BY <1>12, Zenon DEF Record
  <2> DEFINE temp == IF filtered # NoTemp THEN filtered ELSE raw
             s == [temp |-> temp, ratio |-> p[1], trimmed |-> p[2]]
  <2>2. UNCHANGED <<present, limits, fallback, suspect, loaded, model, window, limit>>
        /\ age' = 0 /\ sampled' = TRUE
    BY <1>12, Zenon DEF Record
  <2>3. ModelPart' /\ Waiting' BY <1>1, <1>5, <2>1, <2>2, MetForecast, Zenon
  <2>4. CallPart' BY <2>1, <2>2, Zenon DEF CallPart
  <2>5. s \in Sample
    <3>1. temp \in Temps \cup {NoTemp} BY <2>1, Zenon
    <3>2. p[1] \in Nat /\ p[2] \in Nat BY <2>1, ScoreAssumption
    <3> HIDE DEF temp
    <3>3. QED BY <3>1, <3>2, Zenon DEF Sample
  <2>6. history' = SubSeq(Append(history, s), Positive(Len(Append(history, s)) - limit) + 1,
                          Len(Append(history, s)))
    BY <2>1, Zenon
  <2>7. limit \in Nat /\ limit >= 1 BY <1>6 DEF ModelPart
  <2> HIDE DEF s
  <2>8. history' \in Seq(Sample) /\ Len(history') <= limit
    <3>1. history \in Seq(Sample) BY Zenon DEF HistoryPart
    <3>2. history' \in AtMost(limit, Sample) BY <2>5, <2>6, <2>7, <3>1, PushedType, Zenon
    <3>3. QED BY <3>2, Zenon DEF AtMost
  <2>9. HistoryPart' BY <1>5, <2>2, <2>3, <2>8, Zenon DEF HistoryPart, Kept
  <2>10. QED BY <2>3, <2>4, <2>9, Zenon
<1>13. CASE RecordThrows
  <2>1. PICK raw \in Temps \cup {NoTemp}, filtered \in Temps \cup {NoTemp} :
          last' = raw /\ MeetForecast(IF filtered # NoTemp THEN filtered ELSE raw)
    BY <1>13, Zenon DEF RecordThrows
  <2>2. UNCHANGED <<present, limits, loaded, model, window, limit, history, age>> /\ enterFailClosed
        /\ sampled' = TRUE
    BY <1>13, Zenon DEF RecordThrows
  <2>3. Waiting' /\ OneStep(residual') BY <1>5, <2>1, <2>2, MetForecast, Zenon
  <2>4. QED BY <1>1, <1>2, <1>4, <1>5, <2>1, <2>2, <2>3, Zenon
<1>14. CASE Recommend
  <2>1. PICK current \in Width : \E answer \in Answers(current) :
          forecast' = answer.forecast /\ sampled' = (sampled /\ answer.by \in {"safety", "declined"})
    BY <1>14, Zenon DEF Recommend
  <2>2. Waiting' BY <1>5, <2>1, AnsweredForecast, Zenon
  <2>3. UNCHANGED <<present, limits, fallback, last, suspect, loaded, model, window, limit,
                    history, age, residual>>
    BY <1>14, Zenon DEF Recommend, state
  <2>4. QED BY <1>1, <1>2, <1>3, <1>5, <2>2, <2>3, Zenon
<1>15. CASE ForceFallback
  <2>1. UNCHANGED <<loaded, model, window, limit, history, age, forecast, residual, sampled>>
    BY <1>15, Zenon DEF ForceFallback, controller
  <2>2. CallPart' BY <1>15, Zenon DEF ForceFallback, CallPart
  <2>3. QED BY <1>1, <1>2, <1>5, <1>0, <2>1, <2>2, Zenon
<1>16. CASE Reload
  <2>1. UNCHANGED <<present, limits, fallback, last, suspect, history, age, forecast, sampled>>
        /\ Load(residual)
    BY <1>16, Zenon DEF Reload, state
  <2>2. ModelPart' BY <1>5, <2>1, LoadType, Zenon
  <2>3. HistoryPart' BY <2>1, <2>2, LoadKeeps, Zenon
  <2>4. QED BY <1>3, <2>1, <2>2, <2>3, Zenon
<1>17. CASE ReloadThrows
  <2>1. /\ UNCHANGED <<loaded, model, window, limit, history, age, forecast, residual, sampled>>
        /\ UNCHANGED <<present, limits, last>> /\ enterFailClosed
    BY <1>17, Zenon DEF ReloadThrows, controller
  <2>2. QED BY <1>1, <1>2, <1>4, <1>5, <1>0, <2>1, Zenon
<1>18. CASE Tick
  <2>1. /\ UNCHANGED <<loaded, model, window, limit, history, forecast, residual, sampled>>
        /\ UNCHANGED <<present, limits, fallback, last, suspect>> /\ age' = age + 1
    BY <1>18, Zenon DEF Tick, state
  <2>2. age + 1 \in Nat BY <1>5
  <2>3. QED BY <1>1, <1>2, <1>3, <1>5, <1>0, <2>1, <2>2, Zenon
<1>19. CASE UNCHANGED vars
  <2>1. /\ UNCHANGED <<loaded, model, window, limit, history, age, forecast, residual, sampled>>
        /\ UNCHANGED <<present, limits, fallback, last, suspect>>
    BY <1>19, Zenon DEF vars, controller, state
  <2>2. QED BY <1>1, <1>2, <1>3, <1>5, <1>0, <2>1, Zenon
<1>20. QED
  BY <1>8, <1>9, <1>10, <1>11, <1>12, <1>13, <1>14, <1>15, <1>16, <1>17, <1>18, <1>19, Zenon
     DEF Next

\* The invariant holds throughout.
LEMMA PolicyInvariant == Spec => []PolicyInv
BY PolicyStart, PolicyStep, PTL DEF Spec

\* The residual by which the model corrects itself is always that of a forecast and the
\* first sample recorded after it was made, and the state keeps its types, whatever throws, whichever
\* files are loaded and whenever (pushSample, updateResidual, loadCoefficients).
THEOREM ResidualIsOneStep == Spec => []OneStepResidual
<1>1. PolicyInv => OneStepResidual
  BY InvTypes, Zenon DEF PolicyInv, ModelPart, OneStep, OneStepResidual
<1>2. QED BY <1>1, PolicyInvariant, PTL

\* A wider width is recommended only with valid limits, a present temperature at or below
\* the upgrade limit, a fresh sample, and no call that has thrown since the last
\* completed reset (tsd_dispatcher_policy_recommend).
THEOREM WideningIsJustified == Spec => []WideningJustified
<1>1. PolicyInv => WideningJustified
  <2>1. SUFFICES ASSUME PolicyInv, NEW from \in Width, NEW a \in Answers(from), a.to > from
                 PROVE  /\ limits = "valid" /\ last # NoTemp /\ last <= Ceiling - SafetyMargin
                        /\ age <= window /\ ~suspect
    BY Zenon DEF WideningJustified
  <2>2. from \in Nat /\ ~(0 > from) /\ ~(from > from) BY WidthAssumption DEF Width
  <2>3. Advised(from, a) BY <2>1, <2>2, AnswerShape, Zenon
  <2>4. ~fallback /\ ~Stale /\ Allowed(from, a.to) BY <2>1, <2>2, <2>3, Zenon DEF Advised
  <2>5. age \in Nat /\ window \in Nat BY <2>1 DEF PolicyInv, HistoryPart, ModelPart
  <2>6. age <= window BY <2>4, <2>5 DEF Stale
  <2>7. ~suspect BY <2>1, <2>4, Zenon DEF PolicyInv, CallPart
  <2>8. QED BY <2>1, <2>4, <2>6, <2>7, Zenon DEF Allowed, ValidLimits
<1>2. QED BY <1>1, PolicyInvariant, PTL

\* What the controller answers is settled: the least improvement and the stability margin
\* hold for the choice against every width, a change is not taken back on the same
\* forecast, and without temperatures it never narrows (MPCController::recommend).
THEOREM ChoicesAreSettled == Spec => []ChoiceIsSettled
<1>1. PolicyInv => ChoiceIsSettled BY InvTypes, SettledChoice, Zenon
<1>2. QED BY <1>1, PolicyInvariant, PTL

\* A width whose rollout crosses the ceiling is answered only when every other width costs
\* at least the discounted hard cost of the steps above it, up to the thresholds, for
\* every horizon, limit, coefficient file and sample (scoreWidth,
\* MPCController::recommend).
THEOREM CeilingHasItsPrice == Spec => []CeilingIsPriced
<1>1. PolicyInv => CeilingIsPriced BY InvTypes, PricedChoice, Zenon
<1>2. QED BY <1>1, PolicyInvariant, PTL
=============================================================================
