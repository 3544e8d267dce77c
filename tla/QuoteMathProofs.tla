-------------------------- MODULE QuoteMathProofs --------------------------
(***************************************************************************)
(* Theorems about QuoteMath: the limit tests, the ranking of a scan with   *)
(* the ranks of a finite order, and the indicators, whose recursion is     *)
(* reasoned about by an induction over sets.                               *)
(***************************************************************************)
EXTENDS QuoteMath, FiniteSetTheorems, FunctionTheorems, SequenceTheorems,
        WellFoundedInduction, TLAPS

\* is_limit_up and is_limit_down of build_context: from a previous close of
\* five yuan on, whatever its size, rounding the exchange's price to the cent
\* moves it by less than the tolerance of the tests, so that a ticker locked
\* at its limit is reported as such.
THEOREM LimitSeenFromFive ==
  ASSUME NEW prev \in Nat, prev >= 500
  PROVE  LimitIsSeen(prev)
<1> DEFINE up == (11 * prev + 5) \div 10
           down == (9 * prev + 5) \div 10
<1>1. /\ up \in Nat /\ 10 * up > 11 * prev - 5
      /\ down \in Nat /\ 10 * down <= 9 * prev + 5
  <2>1. ASSUME NEW n \in Nat
        PROVE  /\ n \div 10 \in Nat
               /\ 10 * (n \div 10) <= n /\ n < 10 * (n \div 10) + 10
    BY SMT
  <2>2. 11 * prev + 5 \in Nat /\ 9 * prev + 5 \in Nat
    OBVIOUS
  <2>3. /\ up \in Nat /\ 11 * prev + 5 < 10 * up + 10
        /\ down \in Nat /\ 10 * down <= 9 * prev + 5
    BY <2>1, <2>2
  <2> QED
    BY <2>3
<1> HIDE DEF up, down
<1>2. 1000 * up > 1099 * prev
  BY <1>1
<1>3. 1000 * down < 901 * prev
  BY <1>1
<1>4. \A bid \in 1..2 : IsLimitUp(up, prev, bid, 0)
  BY <1>2 DEF IsLimitUp
<1>5. \A ask \in 1..2 : IsLimitDown(down, prev, 0, ask)
  BY <1>3 DEF IsLimitDown
<1> QED
  BY <1>4, <1>5 DEF LimitIsSeen, LimitUpPrice, LimitDownPrice, up, down

-----------------------------------------------------------------------------
(* Ranks in a finite order: before[x] is what comes before x.              *)

OrderOn(S, before) ==
  /\ before \in [S -> SUBSET S]
  /\ \A x \in S : x \notin before[x]
  /\ \A x \in S : \A y \in before[x] : before[y] \subseteq before[x]
  /\ \A x, y \in S : x # y => x \in before[y] \/ y \in before[x]

\* What comes earlier has fewer before it.
LEMMA RankGrows ==
  ASSUME NEW S, IsFiniteSet(S), NEW before, OrderOn(S, before),
         NEW x \in S, NEW y \in before[x]
  PROVE  Cardinality(before[y]) < Cardinality(before[x])
<1>1. before[x] \subseteq S /\ before[y] \subseteq before[x] /\ y \notin before[y] /\ y \in S
  BY DEF OrderOn
<1>2. IsFiniteSet(before[x])
  BY <1>1, FS_Subset
<1>3. /\ Cardinality(before[y]) <= Cardinality(before[x])
      /\ Cardinality(before[x]) = Cardinality(before[y]) => before[x] = before[y]
      /\ IsFiniteSet(before[y])
  BY <1>1, <1>2, FS_Subset
<1>4. Cardinality(before[x]) \in Nat /\ Cardinality(before[y]) \in Nat
  BY <1>2, <1>3, FS_CardinalityType
<1> QED
  BY <1>1, <1>3, <1>4

\* The ranks are 0 up to the size of the set less one, each taken once.
LEMMA Ranks ==
  ASSUME NEW S, IsFiniteSet(S), NEW before, OrderOn(S, before)
  PROVE  /\ \A x \in S : Cardinality(before[x]) \in 0..Cardinality(S) - 1
         /\ \A x, y \in S : Cardinality(before[x]) = Cardinality(before[y]) => x = y
         /\ \A k \in 0..Cardinality(S) - 1 : \E x \in S : Cardinality(before[x]) = k
<1> DEFINE n == Cardinality(S)
           rank == [x \in S |-> Cardinality(before[x])]
<1>1. n \in Nat
  BY FS_CardinalityType
<1>2. ASSUME NEW x \in S PROVE Cardinality(before[x]) \in 0..n - 1
  <2>1. before[x] \subseteq S /\ x \notin before[x]
    BY DEF OrderOn
  <2>2. /\ IsFiniteSet(before[x]) /\ Cardinality(before[x]) <= n
        /\ n = Cardinality(before[x]) => S = before[x]
    BY <2>1, FS_Subset
  <2>3. Cardinality(before[x]) \in Nat
    BY <2>2, FS_CardinalityType
  <2> QED
    BY <1>1, <2>1, <2>2, <2>3
<1>3. ASSUME NEW x \in S, NEW y \in S, Cardinality(before[x]) = Cardinality(before[y])
      PROVE  x = y
  <2>1. CASE x \in before[y]
    <3>1. Cardinality(before[x]) < Cardinality(before[y])
      BY <2>1, RankGrows
    <3> QED
      BY <1>2, <1>3, <3>1
  <2>2. CASE y \in before[x]
    <3>1. Cardinality(before[y]) < Cardinality(before[x])
      BY <2>2, RankGrows
    <3> QED
      BY <1>2, <1>3, <3>1
  <2> QED
    BY <2>1, <2>2 DEF OrderOn
<1> HIDE DEF n
<1>4. rank \in [S -> 0..n - 1] /\ \A x, y \in S : rank[x] = rank[y] => x = y
  BY <1>2, <1>3
<1>5. rank \in Injection(S, 0..n - 1)
  BY <1>4, Fun_IsInj
<1>6. IsFiniteSet(0..n - 1) /\ Cardinality(0..n - 1) = n
  <2>1. n - 1 \in Int /\ 0 \in Int
    BY <1>1
  <2>2. IsFiniteSet(0..n - 1) /\ Cardinality(0..n - 1) = IF 0 > n - 1 THEN 0 ELSE (n - 1) - 0 + 1
    BY <2>1, FS_Interval
  <2> QED
    BY <1>1, <2>2
<1>7. rank \in Surjection(S, 0..n - 1)
  <2> HIDE DEF rank
  <2>1. Cardinality(S) = Cardinality(0..n - 1)
    BY <1>6 DEF n
  <2> QED
    BY <1>5, <1>6, <2>1, FS_Injection
<1>8. \A k \in 0..n - 1 : \E x \in S : rank[x] = k
  <2> HIDE DEF rank
  <2> QED
    BY <1>7, Fun_SurjectionProperties, ZenonT(60)
<1> QED
  BY <1>2, <1>3, <1>8 DEF n

\* As many elements rank below k as there are numbers below k.
LEMMA FirstOnes ==
  ASSUME NEW S, IsFiniteSet(S), NEW before, OrderOn(S, before),
         NEW k \in Nat
  PROVE  LET first == {x \in S : Cardinality(before[x]) < k}
         IN /\ IsFiniteSet(first)
            /\ k <= Cardinality(S) => Cardinality(first) = k
            /\ k >= Cardinality(S) => first = S
<1> DEFINE n == Cardinality(S)
           first == {x \in S : Cardinality(before[x]) < k}
           rank == [x \in first |-> Cardinality(before[x])]
<1>1. n \in Nat
  BY FS_CardinalityType
<1>2. IsFiniteSet(first)
  BY FS_Subset
<1>3. /\ \A x \in S : Cardinality(before[x]) \in 0..n - 1
      /\ \A x, y \in S : Cardinality(before[x]) = Cardinality(before[y]) => x = y
      /\ \A i \in 0..n - 1 : \E x \in S : Cardinality(before[x]) = i
  BY Ranks
<1> HIDE DEF n
<1>4. k >= n => first = S
  BY <1>1, <1>3
<1>5. ASSUME k <= n PROVE Cardinality(first) = k
  <2>1. rank \in [first -> 0..k - 1] /\ \A x, y \in first : rank[x] = rank[y] => x = y
    BY <1>3
  <2>2. rank \in Injection(first, 0..k - 1)
    BY <2>1, Fun_IsInj
  <2>3. \A i \in 0..k - 1 : \E x \in first : rank[x] = i
    <3> TAKE i \in 0..k - 1
    <3>1. i \in 0..n - 1
      BY <1>1, <1>5
    <3>2. PICK x \in S : Cardinality(before[x]) = i
      BY <1>3, <3>1
    <3>3. x \in first
      BY <3>2
    <3> QED
      BY <3>2, <3>3
  <2>4. rank \in Surjection(first, 0..k - 1)
    BY <2>1, <2>3, Fun_IsSurj
  <2>5. IsFiniteSet(0..k - 1) /\ Cardinality(0..k - 1) = k
    <3>1. k - 1 \in Int /\ 0 \in Int
      OBVIOUS
    <3>2. IsFiniteSet(0..k - 1) /\ Cardinality(0..k - 1) = IF 0 > k - 1 THEN 0 ELSE (k - 1) - 0 + 1
      BY <3>1, FS_Interval
    <3> QED
      BY <3>2
  <2> HIDE DEF rank, first
  <2>6. Cardinality(first) = Cardinality(0..k - 1)
    BY <2>2, <2>4, <2>5, FS_Injection
  <2> QED
    BY <2>5, <2>6
<1> QED
  BY <1>2, <1>4, <1>5 DEF n

-----------------------------------------------------------------------------
(* The scan *)

LEMMA FeedOrder ==
  ASSUME NEW kept, kept \subseteq Nat, NEW key, \A i \in kept : key[i] \in Int
  PROVE  OrderOn(kept, [k \in kept |-> Before(kept, key, k)])
<1> DEFINE before == [k \in kept |-> Before(kept, key, k)]
<1>1. before \in [kept -> SUBSET kept]
  BY DEF Before
<1>2. \A x, y \in kept : y \in before[x] <=>
        (key[y] > key[x] \/ (key[y] = key[x] /\ y < x))
  BY DEF Before
<1> HIDE DEF before
<1>3. \A x \in kept : x \notin before[x]
  <2> SUFFICES ASSUME NEW x \in kept PROVE x \notin before[x]
    OBVIOUS
  <2>1. key[x] \in Int /\ x \in Nat
    OBVIOUS
  <2>2. ~(key[x] > key[x] \/ (key[x] = key[x] /\ x < x))
    BY <2>1
  <2> QED
    BY <1>2, <2>2
<1>4. \A x \in kept : \A y \in before[x] : before[y] \subseteq before[x]
  <2> SUFFICES ASSUME NEW x \in kept, NEW y \in before[x], NEW z \in before[y]
               PROVE  z \in before[x]
    OBVIOUS
  <2>1. y \in kept /\ z \in kept
    BY <1>1
  <2>2. key[x] \in Int /\ key[y] \in Int /\ key[z] \in Int /\ x \in Nat /\ y \in Nat /\ z \in Nat
    BY <2>1
  <2>3. (key[y] > key[x] \/ (key[y] = key[x] /\ y < x))
        /\ (key[z] > key[y] \/ (key[z] = key[y] /\ z < y))
    BY <1>2, <2>1
  <2>4. key[z] > key[x] \/ (key[z] = key[x] /\ z < x)
    BY <2>2, <2>3
  <2> QED
    BY <1>2, <2>1, <2>4
<1>5. \A x, y \in kept : x # y => x \in before[y] \/ y \in before[x]
  <2> SUFFICES ASSUME NEW x \in kept, NEW y \in kept, x # y
               PROVE  x \in before[y] \/ y \in before[x]
    OBVIOUS
  <2>1. key[x] \in Int /\ key[y] \in Int /\ x \in Nat /\ y \in Nat
    OBVIOUS
  <2>2. \/ key[x] > key[y] \/ (key[x] = key[y] /\ x < y)
        \/ key[y] > key[x] \/ (key[y] = key[x] /\ y < x)
    BY <2>1
  <2> QED
    BY <1>2, <2>2
<1> QED
  BY <1>1, <1>3, <1>4, <1>5 DEF OrderOn, before

\* A list has as many rows as it may, and none that is kept and not listed is
\* beyond one of them.
THEOREM TopIsExtreme ==
  ASSUME NEW rows, NEW n \in Nat, NEW kept, kept \subseteq Nat, IsFiniteSet(kept),
         NEW key, \A i \in kept : key[i] \in Int,
         \A i, j \in kept : rows[i] = rows[j] => key[i] = key[j]
  PROVE  LET listed == Top(rows, n, kept, key)
         IN /\ listed \subseteq {rows[i] : i \in kept} /\ Cardinality(listed) <= n
            /\ \A i, j \in kept : rows[i] \in listed /\ rows[j] \notin listed => key[j] <= key[i]
            /\ \/ listed = {rows[i] : i \in kept}
               \/ Cardinality({i \in kept : rows[i] \in listed}) >= n
<1> DEFINE before == [k \in kept |-> Before(kept, key, k)]
           first == {k \in kept : Cardinality(before[k]) < n}
           listed == {rows[i] : i \in first}
           row == [i \in first |-> rows[i]]
           places == {i \in kept : rows[i] \in listed}
<1>1. Top(rows, n, kept, key) = listed
  BY DEF Top
<1>2. OrderOn(kept, before)
  BY FeedOrder
<1>3. \A x, y \in kept : y \in before[x] <=>
        (key[y] > key[x] \/ (key[y] = key[x] /\ y < x))
  BY DEF Before
<1> HIDE DEF before
<1>4. /\ IsFiniteSet(first)
      /\ n <= Cardinality(kept) => Cardinality(first) = n
      /\ n >= Cardinality(kept) => first = kept
  BY <1>2, FirstOnes, ZenonT(60)
<1>5. Cardinality(kept) \in Nat /\ Cardinality(first) \in Nat
  BY <1>4, FS_CardinalityType
<1> HIDE DEF first
<1>6. Cardinality(first) <= n
  BY <1>4, <1>5
<1>7. first \subseteq kept
  BY DEF first
<1>8. Cardinality(listed) <= n
  <2>1. row \in [first -> listed] /\ \A r \in listed : \E i \in first : row[i] = r
    OBVIOUS
  <2>2. row \in Surjection(first, listed)
    BY <2>1, Fun_IsSurj
  <2> HIDE DEF row, listed
  <2>3. IsFiniteSet(listed) /\ Cardinality(listed) <= Cardinality(first)
    BY <1>4, <2>2, FS_Surjection
  <2>4. Cardinality(listed) \in Nat
    BY <2>3, FS_CardinalityType
  <2> QED
    BY <1>5, <1>6, <2>3, <2>4
<1>9. listed = {rows[i] : i \in kept} \/ Cardinality(places) >= n
  <2>1. CASE n >= Cardinality(kept)
    BY <1>4, <2>1
  <2>2. CASE n < Cardinality(kept)
    <3>1. first \subseteq places /\ places \subseteq kept
      BY <1>7
    <3> HIDE DEF places
    <3>2. IsFiniteSet(places)
      BY <3>1, FS_Subset
    <3>3. Cardinality(places) \in Nat /\ Cardinality(first) <= Cardinality(places)
      BY <3>1, <3>2, FS_Subset, FS_CardinalityType
    <3> QED
      BY <1>4, <1>5, <2>2, <3>3
  <2>3. n >= Cardinality(kept) \/ n < Cardinality(kept)
    BY <1>5
  <2> HIDE DEF listed, places
  <2> QED
    BY <2>1, <2>2, <2>3
<1>10. ASSUME NEW i \in kept, NEW j \in kept, rows[i] \in listed, rows[j] \notin listed
       PROVE  key[j] <= key[i]
  <2>1. PICK k \in first : rows[k] = rows[i]
    BY <1>10
  <2>2. k \in kept /\ key[k] = key[i] /\ j \notin first
    BY <1>7, <1>10, <2>1
  <2>3. ~(key[j] > key[i])
    <3> SUFFICES ASSUME key[j] > key[i] PROVE FALSE
      OBVIOUS
    <3>1. j \in before[k]
      BY <1>3, <2>2
    <3>2. Cardinality(before[j]) < Cardinality(before[k])
      BY <1>2, <2>2, <3>1, RankGrows
    <3>3. Cardinality(before[k]) < n /\ ~(Cardinality(before[j]) < n)
      BY <2>2 DEF first
    <3>4. Cardinality(before[k]) \in Int /\ Cardinality(before[j]) \in Int
      <4>1. Cardinality(kept) - 1 \in Int
        BY <1>5
      <4>2. \A x \in kept : Cardinality(before[x]) \in 0..Cardinality(kept) - 1
        BY <1>2, Ranks
      <4> QED
        BY <2>2, <4>2
    <3> QED
      BY <3>2, <3>3, <3>4
  <2> QED
    BY <2>3
<1> HIDE DEF listed
<1> QED
  BY <1>1, <1>7, <1>8, <1>9, <1>10 DEF listed

-----------------------------------------------------------------------------
(* Induction.  The library's induction theorems take an operator; this one   *)
(* is about a set, and rests on the least element of a set of naturals.      *)

\* A set of naturals that is not empty has a least element.
LEMMA LeastOf ==
  ASSUME NEW T \in SUBSET Nat, T # {}
  PROVE  \E x \in T : \A y \in T : x <= y
<1> DEFINE R == OpToRel(<, Nat)
<1>1. IsWellFoundedOn(R, Nat)
  BY NatLessThanWellFounded
<1>2. \A x, y \in Nat : y < x => <<y, x>> \in R
  BY DEF OpToRel
<1> HIDE DEF R
<1>3. PICK x \in T : \A y \in T : <<y, x>> \notin R
  BY <1>1, WFMin
<1>4. \A y \in T : ~(y < x)
  BY <1>2, <1>3
<1>5. \A y \in T : x <= y
  BY <1>4
<1> QED
  BY <1>5

\* Induction over the naturals, stated of a set, so that first-order provers can
\* use it.
LEMMA SetInduction ==
  ASSUME NEW S, 0 \in S, \A n \in S \cap Nat : n + 1 \in S
  PROVE  Nat \subseteq S
<1> DEFINE T == Nat \ S
<1>1. ASSUME T # {} PROVE FALSE
  <2>1. PICK x \in T : \A y \in T : x <= y
    <3>1. T \in SUBSET Nat
      OBVIOUS
    <3> HIDE DEF T
    <3> QED
      BY <1>1, <3>1, LeastOf
  <2>2. x \in Nat /\ x \notin S
    OBVIOUS
  <2>3. x - 1 \in Nat /\ x - 1 < x /\ (x - 1) + 1 = x
    BY <2>2
  <2>4. x - 1 \in S
    BY <2>1, <2>2, <2>3
  <2> QED
    BY <2>2, <2>3, <2>4
<1> QED
  BY <1>1

\* The same up to a bound.
LEMMA BoundedInduction ==
  ASSUME NEW k \in Nat, NEW S, 0 \in S, \A n \in 0..k : n \in S /\ n < k => n + 1 \in S
  PROVE  0..k \subseteq S
<1> DEFINE T == S \cup {n \in Nat : n > k}
<1>1. 0 \in T
  OBVIOUS
<1>2. \A n \in T \cap Nat : n + 1 \in T
  OBVIOUS
<1>3. Nat \subseteq T
  <2> HIDE DEF T
  <2> QED
    BY <1>1, <1>2, SetInduction
<1> QED
  BY <1>3

-----------------------------------------------------------------------------
(* Recursion over the first k steps: each step makes the next value out of the *)
(* last one.                                                                   *)

Recursion(k, X, base, step, f) ==
  /\ f \in [0..k -> X]
  /\ f[0] = base
  /\ \A i \in 1..k : f[i] = step[i][f[i - 1]]

\* There is such a function, and it has the type of the steps.
LEMMA RecursionExists ==
  ASSUME NEW k \in Nat, NEW X, NEW base \in X, NEW step \in [1..k -> [X -> X]]
  PROVE  \E f : Recursion(k, X, base, step, f)
<1> DEFINE S == {n \in 0..k : \E f : Recursion(n, X, base, step, f)}
<1>1. 0 \in S
  <2> DEFINE f == [i \in 0..0 |-> base]
  <2>1. f \in [0..0 -> X] /\ f[0] = base /\ 1..0 = {}
    OBVIOUS
  <2>2. Recursion(0, X, base, step, f)
    BY <2>1 DEF Recursion
  <2> QED
    BY <2>2
<1>2. ASSUME NEW n \in 0..k, n \in S, n < k PROVE n + 1 \in S
  <2>1. PICK f : Recursion(n, X, base, step, f)
    BY <1>2
  <2>2. f \in [0..n -> X] /\ f[0] = base /\ \A i \in 1..n : f[i] = step[i][f[i - 1]]
    BY <2>1 DEF Recursion
  <2> DEFINE g == [i \in 0..n + 1 |-> IF i = n + 1 THEN step[n + 1][f[n]] ELSE f[i]]
  <2>3. step[n + 1][f[n]] \in X
    BY <1>2, <2>2
  <2>4. /\ g \in [0..n + 1 -> X]
        /\ g[n + 1] = step[n + 1][f[n]]
        /\ \A i \in 0..n : g[i] = f[i]
    BY <1>2, <2>2, <2>3
  <2> HIDE DEF g
  <2>5. g[0] = base
    BY <1>2, <2>2, <2>4
  <2>6. ASSUME NEW i \in 1..n + 1 PROVE g[i] = step[i][g[i - 1]]
    <3>1. CASE i = n + 1
      <4>1. g[i - 1] = f[n]
        BY <1>2, <2>4, <3>1
      <4> QED
        BY <2>4, <3>1, <4>1
    <3>2. CASE i \in 1..n
      <4>1. g[i] = f[i] /\ g[i - 1] = f[i - 1]
        BY <1>2, <2>4, <3>2
      <4> QED
        BY <2>2, <3>2, <4>1
    <3> QED
      BY <1>2, <2>6, <3>1, <3>2
  <2>7. Recursion(n + 1, X, base, step, g)
    BY <2>4, <2>5, <2>6 DEF Recursion
  <2> QED
    BY <1>2, <2>7
<1>3. 0..k \subseteq S
  <2> HIDE DEF S
  <2> QED
    BY <1>1, <1>2, BoundedInduction
<1> QED
  BY <1>3


\* The same without the type, and two functions that go the same steps.
Steps(k, X, base, step, g) ==
  /\ g = [i \in 0..k |-> g[i]]
  /\ g[0] = base
  /\ \A i \in 1..k : g[i - 1] \in X => g[i] = step[i][g[i - 1]]
SameSteps(k, f, g) ==
  f[0] = g[0] /\ \A i \in 1..k : f[i - 1] = g[i - 1] => f[i] = g[i]
Same(k, f, g) == \A i \in 0..k : f[i] = g[i]

\* A function that is the base at first and one step on from there is typed.
LEMMA RecursionTyped ==
  ASSUME NEW k \in Nat, NEW X, NEW base \in X, NEW step \in [1..k -> [X -> X]],
         NEW g, Steps(k, X, base, step, g)
  PROVE  Recursion(k, X, base, step, g)
<1> USE DEF Steps
<1> DEFINE S == {i \in 0..k : g[i] \in X}
<1>1. 0 \in S
  OBVIOUS
<1>2. ASSUME NEW n \in 0..k, n \in S, n < k PROVE n + 1 \in S
  <2>1. n + 1 \in 1..k /\ (n + 1) - 1 = n
    BY <1>2
  <2>2. g[n + 1] = step[n + 1][g[n]]
    BY <1>2, <2>1
  <2> QED
    BY <1>2, <2>1, <2>2
<1>3. 0..k \subseteq S
  <2> HIDE DEF S
  <2> QED
    BY <1>1, <1>2, BoundedInduction
<1>4. \A i \in 0..k : g[i] \in X
  BY <1>3
<1>5. \A i \in 1..k : i - 1 \in 0..k
  OBVIOUS
<1> QED
  BY <1>4, <1>5 DEF Recursion

\* Two functions that go the same steps up to step k agree there.
LEMMA RecursionAgrees ==
  ASSUME NEW k \in Nat, NEW f, NEW g, SameSteps(k, f, g)
  PROVE  Same(k, f, g)
<1> USE DEF SameSteps, Same
<1> DEFINE S == {i \in 0..k : f[i] = g[i]}
<1>1. 0 \in S
  OBVIOUS
<1>2. ASSUME NEW n \in 0..k, n \in S, n < k PROVE n + 1 \in S
  <2>1. n + 1 \in 1..k /\ (n + 1) - 1 = n
    BY <1>2
  <2> QED
    BY <1>2, <2>1
<1>3. 0..k \subseteq S
  <2> HIDE DEF S
  <2> QED
    BY <1>1, <1>2, BoundedInduction
<1> QED
  BY <1>3

-----------------------------------------------------------------------------
(* Sums *)

\* Sums goes one summand further at each step.
LEMMA SumsFacts ==
  ASSUME NEW X \in {Nat, Int}, NEW s \in Seq(X)
  PROVE  /\ Sums(s) \in [0..Len(s) -> X]
         /\ Sums(s)[0] = 0
         /\ \A i \in 1..Len(s) : Sums(s)[i] = Sums(s)[i - 1] + s[i]
<1> DEFINE k == Len(s)
           step == [i \in 1..k |-> [x \in X |-> x + s[i]]]
           rec(f) == f = [i \in 0..k |-> IF i = 0 THEN 0 ELSE f[i - 1] + s[i]]
           g == Sums(s)
<1>1. k \in Nat /\ \A i \in 1..k : s[i] \in X
  OBVIOUS
<1>2. step \in [1..k -> [X -> X]] /\ 0 \in X
  BY <1>1
<1>3. \A i \in 1..k, x \in X : step[i][x] = x + s[i]
  OBVIOUS
<1> HIDE DEF k, step
<1>4. PICK f : Recursion(k, X, 0, step, f)
  BY <1>1, <1>2, RecursionExists
<1>5. rec(f)
  <2>1. f \in [0..k -> X] /\ f[0] = 0 /\ \A i \in 1..k : f[i] = step[i][f[i - 1]]
    BY <1>4 DEF Recursion
  <2>2. \A i \in 1..k : i - 1 \in 0..k
    BY <1>1
  <2>3. \A i \in 1..k : f[i] = f[i - 1] + s[i]
    BY <1>3, <2>1, <2>2
  <2>4. \A i \in 0..k : f[i] = IF i = 0 THEN 0 ELSE f[i - 1] + s[i]
    BY <1>1, <2>1, <2>3
  <2> QED
    BY <2>1, <2>4
<1>6. rec(g)
  <2>1. g = CHOOSE h : rec(h)
    BY DEF Sums, k
  <2> HIDE DEF rec, g
  <2> QED
    BY <1>5, <2>1, Zenon
<1> HIDE DEF g
<1>7. g = [i \in 0..k |-> g[i]] /\ g[0] = 0 /\ \A i \in 1..k : g[i] = g[i - 1] + s[i]
  BY <1>1, <1>6
<1>8. Recursion(k, X, 0, step, g)
  <2>1. Steps(k, X, 0, step, g)
    BY <1>3, <1>7 DEF Steps
  <2> QED
    BY <1>1, <1>2, <2>1, RecursionTyped
<1> QED
  BY <1>7, <1>8 DEF Recursion, g, k

LEMMA TimesGrows ==
  ASSUME NEW a \in Int, NEW b \in Int, a <= b, NEW c \in Nat
  PROVE  a * c <= b * c
  OBVIOUS

LEMMA TotalIsNat ==
  ASSUME NEW s \in Seq(Nat)
  PROVE  Total(s) \in Nat
<1>1. Len(s) \in Nat
  OBVIOUS
<1>2. Sums(s) \in [0..Len(s) -> Nat]
  BY SumsFacts
<1> QED
  BY <1>1, <1>2 DEF Total

\* t is s with nothing but the last of m values raised.
Raised(s, t, m) ==
  /\ s \in Seq(Nat) /\ t \in Seq(Nat) /\ Len(s) = m /\ Len(t) = m
  /\ \A i \in 1..m - 1 : s[i] = t[i]
  /\ s[m] <= t[m]

\* The sum is at least as large when the last of the summands is.
LEMMA TotalGrows ==
  ASSUME NEW m \in Nat \ {0}, NEW s, NEW t, Raised(s, t, m)
  PROVE  Total(s) \in Nat /\ Total(t) \in Nat /\ Total(s) <= Total(t)
<1> DEFINE f == Sums(s)
           g == Sums(t)
<1> USE DEF Raised
<1>1. /\ f \in [0..m -> Nat] /\ f[0] = 0 /\ \A i \in 1..m : f[i] = f[i - 1] + s[i]
      /\ g \in [0..m -> Nat] /\ g[0] = 0 /\ \A i \in 1..m : g[i] = g[i - 1] + t[i]
  BY SumsFacts
<1>2. s[m] \in Nat /\ t[m] \in Nat
  OBVIOUS
<1>3. Total(s) = f[m] /\ Total(t) = g[m]
  BY DEF Total
<1> HIDE DEF f, g
<1>4. \A i \in 0..m - 1 : f[i] = g[i]
  <2> DEFINE j == m - 1
  <2>1. j \in Nat /\ SameSteps(j, f, g)
    BY <1>1 DEF SameSteps
  <2> HIDE DEF j
  <2>2. Same(j, f, g)
    BY <2>1, RecursionAgrees
  <2> QED
    BY <2>2 DEF j, Same
<1>5. f[m - 1] = g[m - 1] /\ f[m - 1] \in Nat /\ f[m] = f[m - 1] + s[m] /\ g[m] = g[m - 1] + t[m]
  BY <1>1, <1>4
<1> QED
  BY <1>2, <1>3, <1>5

\* A part of a series.
InSpan(s, a, b) == \A i \in a..b : s[i] \in Nat
LEMMA SpanFacts ==
  ASSUME NEW s, NEW a \in Int, NEW b \in Int, a <= b, InSpan(s, a, b)
  PROVE  /\ SubSeq(s, a, b) \in Seq(Nat) /\ Len(SubSeq(s, a, b)) = b - a + 1
         /\ \A i \in 1..b - a + 1 : SubSeq(s, a, b)[i] = s[a + i - 1]
<1>1. \A i \in a..b : s[i] \in Nat
  BY DEF InSpan
<1>2. /\ SubSeq(s, a, b) \in Seq(Nat)
      /\ Len(SubSeq(s, a, b)) = IF a <= b THEN b - a + 1 ELSE 0
      /\ \A i \in 1..b - a + 1 : SubSeq(s, a, b)[i] = s[a + i - 1]
  BY <1>1, SubSeqProperties
<1> QED
  BY <1>2

\* The last n values, and the first n.
LEMMA LastNFacts ==
  ASSUME NEW s \in Seq(Nat), NEW n \in Nat \ {0}, n <= Len(s)
  PROVE  /\ LastN(s, n) \in Seq(Nat) /\ Len(LastN(s, n)) = n
         /\ \A i \in 1..n : LastN(s, n)[i] = s[Len(s) - n + i]
<1> DEFINE b == Len(s)
           a == b - n + 1
           u == SubSeq(s, a, b)
<1>1. /\ a \in Int /\ b \in Int /\ a <= b /\ b - a + 1 = n
      /\ \A i \in 1..n : a + i - 1 = b - n + i
  OBVIOUS
<1>2. InSpan(s, a, b)
  BY DEF InSpan
<1> HIDE DEF a, b
<1>3. /\ u \in Seq(Nat) /\ Len(u) = b - a + 1
      /\ \A i \in 1..b - a + 1 : u[i] = s[a + i - 1]
  BY <1>1, <1>2, SpanFacts
<1>4. Len(u) = n /\ \A i \in 1..n : u[i] = s[b - n + i]
  BY <1>1, <1>3
<1> QED
  BY <1>3, <1>4 DEF LastN, a, b

LEMMA FirstNFacts ==
  ASSUME NEW s \in Seq(Nat), NEW n \in Nat \ {0}, n <= Len(s)
  PROVE  /\ FirstN(s, n) \in Seq(Nat) /\ Len(FirstN(s, n)) = n
         /\ \A i \in 1..n : FirstN(s, n)[i] = s[i]
<1> DEFINE u == SubSeq(s, 1, n)
<1>1. 1 \in Int /\ n \in Int /\ n - 1 + 1 = n /\ 1 <= n /\ \A i \in 1..n : 1 + i - 1 = i
  OBVIOUS
<1>2. InSpan(s, 1, n)
  BY DEF InSpan
<1>3. /\ u \in Seq(Nat) /\ Len(u) = n - 1 + 1
      /\ \A i \in 1..n - 1 + 1 : u[i] = s[1 + i - 1]
  BY <1>1, <1>2, SpanFacts
<1> QED
  BY <1>1, <1>3 DEF FirstN

-----------------------------------------------------------------------------
(* Wilder's smoothing *)

\* g starts with the plain average and smooths one move in at each step.
AveragesOf(n, k, moves, g) ==
  /\ g \in [0..k -> [sum : Nat, scale : Nat]]
  /\ g[0] = [sum |-> Total(FirstN(moves, n)), scale |-> n]
  /\ \A i \in 1..k : g[i] = SmoothStep(n, g[i - 1], moves[n + i])

\* Averages is Wilder's smoothing, step by step.
LEMMA AveragesFacts ==
  ASSUME NEW n \in Nat \ {0}, NEW k \in Nat, NEW moves \in Seq(Nat), Len(moves) - n = k
  PROVE  AveragesOf(n, k, moves, Averages(moves, n))
<1> DEFINE X == [sum : Nat, scale : Nat]
           base == [sum |-> Total(FirstN(moves, n)), scale |-> n]
           step == [i \in 1..k |-> [x \in X |-> SmoothStep(n, x, moves[n + i])]]
           rec(f) == f = [i \in 0..k |-> IF i = 0 THEN base
                                         ELSE SmoothStep(n, f[i - 1], moves[n + i])]
           g == Averages(moves, n)
<1>1. n <= Len(moves) /\ \A i \in 1..k : moves[n + i] \in Nat
  OBVIOUS
<1>2. base \in X
  <2>1. FirstN(moves, n) \in Seq(Nat)
    BY FirstNFacts
  <2>2. Total(FirstN(moves, n)) \in Nat
    BY <2>1, TotalIsNat
  <2> QED
    BY <2>2
<1>3. ASSUME NEW i \in 1..k, NEW x \in X PROVE SmoothStep(n, x, moves[n + i]) \in X
  <2>1. x.sum \in Nat /\ x.scale \in Nat /\ n - 1 \in Nat /\ moves[n + i] \in Nat
    BY <1>1
  <2>2. \A a, b \in Nat : a * b \in Nat
    OBVIOUS
  <2>3. /\ x.sum * (n - 1) \in Nat /\ moves[n + i] * x.scale \in Nat /\ x.scale * n \in Nat
    BY <2>1, <2>2
  <2>4. SmoothStep(n, x, moves[n + i])
         = [sum |-> x.sum * (n - 1) + moves[n + i] * x.scale, scale |-> x.scale * n]
    BY DEF SmoothStep
  <2>5. x.sum * (n - 1) + moves[n + i] * x.scale \in Nat
    <3>1. \A a, b \in Nat : a + b \in Nat
      OBVIOUS
    <3> QED
      BY <2>3, <3>1
  <2> QED
    BY <2>3, <2>4, <2>5
<1> HIDE DEF X, base
<1>4. /\ step \in [1..k -> [X -> X]]
      /\ \A i \in 1..k, x \in X : step[i][x] = SmoothStep(n, x, moves[n + i])
  BY <1>3
<1> HIDE DEF step
<1>5. PICK f : Recursion(k, X, base, step, f)
  BY <1>1, <1>2, <1>4, RecursionExists
<1>6. rec(f)
  <2>1. f \in [0..k -> X] /\ f[0] = base /\ \A i \in 1..k : f[i] = step[i][f[i - 1]]
    BY <1>5 DEF Recursion
  <2>2. \A i \in 1..k : i - 1 \in 0..k
    BY <1>1
  <2>3. \A i \in 1..k : f[i] = SmoothStep(n, f[i - 1], moves[n + i])
    BY <1>4, <2>1, <2>2
  <2>4. \A i \in 0..k : f[i] = IF i = 0 THEN base ELSE SmoothStep(n, f[i - 1], moves[n + i])
    BY <1>1, <2>1, <2>3
  <2> QED
    BY <2>1, <2>4
<1>7. rec(g)
  <2>1. g = CHOOSE h : rec(h)
    BY DEF Averages, base
  <2> HIDE DEF rec, g
  <2> QED
    BY <1>6, <2>1, Zenon
<1> HIDE DEF g
<1>8. /\ g = [i \in 0..k |-> g[i]] /\ g[0] = base
      /\ \A i \in 1..k : g[i] = SmoothStep(n, g[i - 1], moves[n + i])
  <2>1. \A i \in 0..k : g[i] = IF i = 0 THEN base ELSE SmoothStep(n, g[i - 1], moves[n + i])
    BY <1>7
  <2>2. DOMAIN g = 0..k /\ g = [i \in DOMAIN g |-> g[i]]
    BY <1>7
  <2>3. 0 \in 0..k /\ \A i \in 1..k : i \in 0..k /\ i # 0
    BY <1>1
  <2> QED
    BY <2>1, <2>2, <2>3
<1>9. Recursion(k, X, base, step, g)
  <2>1. Steps(k, X, base, step, g)
    BY <1>4, <1>8 DEF Steps
  <2> QED
    BY <1>1, <1>2, <1>4, <2>1, RecursionTyped
<1> QED
  BY <1>8, <1>9 DEF Recursion, g, X, base, AveragesOf

\* The smoothed average is at least as large when the last move is, however
\* many were smoothed before.
LEMMA SmoothedGrows ==
  ASSUME NEW n \in Nat \ {0}, NEW m \in Nat, n <= m, NEW s, NEW t, Raised(s, t, m)
  PROVE  /\ Smoothed(s, n) \in Nat /\ Smoothed(t, n) \in Nat
         /\ Smoothed(s, n) <= Smoothed(t, n)
<1> DEFINE k == m - n
           f == Averages(s, n)
           g == Averages(t, n)
           u == FirstN(s, n)
           v == FirstN(t, n)
<1>a. /\ s \in Seq(Nat) /\ t \in Seq(Nat) /\ Len(s) = m /\ Len(t) = m
      /\ \A i \in 1..m - 1 : s[i] = t[i]
      /\ s[m] <= t[m]
  BY DEF Raised
<1>0. k \in Nat /\ Len(s) - n = k /\ Len(t) - n = k
  BY <1>a
<1> HIDE DEF k
<1>1. /\ f \in [0..k -> [sum : Nat, scale : Nat]]
      /\ f[0] = [sum |-> Total(u), scale |-> n]
      /\ \A i \in 1..k : f[i] = SmoothStep(n, f[i - 1], s[n + i])
  <2>1. AveragesOf(n, k, s, f)
    BY <1>a, <1>0, AveragesFacts
  <2> QED
    BY <2>1 DEF AveragesOf
<1>2. /\ g \in [0..k -> [sum : Nat, scale : Nat]]
      /\ g[0] = [sum |-> Total(v), scale |-> n]
      /\ \A i \in 1..k : g[i] = SmoothStep(n, g[i - 1], t[n + i])
  <2>1. AveragesOf(n, k, t, g)
    BY <1>a, <1>0, AveragesFacts
  <2> QED
    BY <2>1 DEF AveragesOf
<1>3. k \in Nat /\ Smoothed(s, n) = f[k].sum /\ Smoothed(t, n) = g[k].sum
  BY <1>a, <1>0 DEF Smoothed
<1>4. /\ u \in Seq(Nat) /\ Len(u) = n /\ \A i \in 1..n : u[i] = s[i]
      /\ v \in Seq(Nat) /\ Len(v) = n /\ \A i \in 1..n : v[i] = t[i]
  BY <1>a, FirstNFacts
<1>5. m = n + k /\ s[m] \in Nat /\ t[m] \in Nat
  BY <1>a, <1>0
<1> HIDE DEF f, g, u, v
<1>6. f[k].sum \in Nat /\ g[k].sum \in Nat
  BY <1>1, <1>2, <1>3
<1>7. CASE k = 0
  <2>1. Raised(u, v, n)
    BY <1>a, <1>4, <1>5, <1>7 DEF Raised
  <2>2. Total(u) <= Total(v)
    BY <2>1, TotalGrows
  <2> QED
    BY <1>1, <1>2, <1>3, <1>6, <1>7, <2>2
<1>8. CASE k # 0
  <2>1. k - 1 \in Nat /\ k - 1 \in 0..k /\ k \in 1..k /\ n <= m - 1
    BY <1>3, <1>5, <1>8
  <2>2. u = v
    <3>1. \A i \in 1..n : u[i] = v[i]
      BY <1>a, <1>4, <2>1
    <3> QED
      BY <1>4, <3>1, SeqEqual
  <2>3. \A i \in 1..k - 1 : f[i - 1] = g[i - 1] => f[i] = g[i]
    <3>1. \A i \in 1..k - 1 : i \in 1..k /\ n + i \in 1..m - 1
      BY <1>3, <1>5, <2>1
    <3>2. \A i \in 1..k - 1 : s[n + i] = t[n + i]
      BY <1>a, <3>1
    <3> QED
      BY <1>1, <1>2, <3>1, <3>2
  <2>4. f[k - 1] = g[k - 1]
    <3>1. f[0] = g[0]
      BY <1>1, <1>2, <2>2
    <3> DEFINE j == k - 1
    <3>2. Same(j, f, g)
      <4>1. j \in Nat /\ SameSteps(j, f, g)
        BY <2>1, <2>3, <3>1 DEF SameSteps
      <4> HIDE DEF j
      <4> QED
        BY <4>1, RecursionAgrees
    <3> QED
      BY <2>1, <3>2 DEF Same
  <2> DEFINE x == f[k - 1]
  <2>5. x \in [sum : Nat, scale : Nat] /\ f[k] = SmoothStep(n, x, s[m]) /\ g[k] = SmoothStep(n, x, t[m])
    BY <1>1, <1>2, <1>5, <2>1, <2>4
  <2> HIDE DEF x
  <2>6. x.sum \in Nat /\ x.scale \in Nat
    BY <2>5
  <2>7. s[m] * x.scale <= t[m] * x.scale
    BY <1>a, <1>5, <2>6, TimesGrows
  <2>8. /\ f[k].sum = x.sum * (n - 1) + s[m] * x.scale
        /\ g[k].sum = x.sum * (n - 1) + t[m] * x.scale
    BY <2>5 DEF SmoothStep
  <2>9. x.sum * (n - 1) \in Int /\ s[m] * x.scale \in Int /\ t[m] * x.scale \in Int
    BY <1>5, <2>6
  <2> QED
    BY <1>3, <1>6, <2>7, <2>8, <2>9
<1> QED
  BY <1>7, <1>8

-----------------------------------------------------------------------------
(* MACD *)

MacdStates ==
  [f : Int, s : Int, pf : Nat, ps : Nat, pg : Nat, dif : Int, dea : Int]

LEMMA MacdStepTyped ==
  ASSUME NEW fast \in Nat, NEW slow \in Nat, NEW signal \in Nat,
         NEW x \in MacdStates, NEW v \in Int
  PROVE  MacdStep(fast, slow, signal, x, v) \in MacdStates
<1> DEFINE f == 2 * v * x.pf + (fast - 1) * x.f
           s == 2 * v * x.ps + (slow - 1) * x.s
           pf == x.pf * (fast + 1)
           ps == x.ps * (slow + 1)
           pg == x.pg * (signal + 1)
           d == f * ps - s * pf
           dif == d * x.pg * (signal + 1)
           dea == 2 * d * x.pg + (signal - 1) * x.dea * (fast + 1) * (slow + 1)
<1>1. /\ \A a, b \in Int : a * b \in Int /\ a + b \in Int /\ a - b \in Int
      /\ \A a, b \in Nat : a * b \in Nat
  OBVIOUS
<1>2. /\ x.f \in Int /\ x.s \in Int /\ x.dea \in Int
      /\ x.pf \in Nat /\ x.ps \in Nat /\ x.pg \in Nat
  BY DEF MacdStates
<1>3. /\ fast - 1 \in Int /\ slow - 1 \in Int /\ signal - 1 \in Int
      /\ fast + 1 \in Nat /\ slow + 1 \in Nat /\ signal + 1 \in Nat
      /\ \A a \in Nat : a \in Int
  OBVIOUS
<1>4. pf \in Nat /\ ps \in Nat /\ pg \in Nat
  BY <1>1, <1>2, <1>3
<1>5. f \in Int /\ s \in Int
  <2>1. 2 * v \in Int
    OBVIOUS
  <2>2. 2 * v * x.pf \in Int /\ 2 * v * x.ps \in Int
    BY <1>1, <1>2, <1>3, <2>1
  <2>3. (fast - 1) * x.f \in Int /\ (slow - 1) * x.s \in Int
    BY <1>1, <1>2, <1>3
  <2> QED
    BY <1>1, <2>2, <2>3
<1>6. d \in Int
  <2> HIDE DEF f, s, pf, ps
  <2>1. f * ps \in Int /\ s * pf \in Int
    BY <1>1, <1>3, <1>4, <1>5
  <2> QED
    BY <1>1, <2>1
<1>7. dif \in Int /\ dea \in Int
  <2> HIDE DEF d
  <2>1. d * x.pg \in Int /\ 2 * d \in Int
    BY <1>1, <1>2, <1>3, <1>6
  <2>2. dif \in Int /\ 2 * d * x.pg \in Int
    BY <1>1, <1>2, <1>3, <2>1
  <2>3. (signal - 1) * x.dea \in Int
    BY <1>1, <1>2, <1>3
  <2>4. (signal - 1) * x.dea * (fast + 1) \in Int
    BY <1>1, <1>3, <2>3
  <2>5. (signal - 1) * x.dea * (fast + 1) * (slow + 1) \in Int
    BY <1>1, <1>3, <2>4
  <2> QED
    BY <1>1, <2>2, <2>5
<1>8. MacdStep(fast, slow, signal, x, v)
       = [f |-> f, s |-> s, pf |-> pf, ps |-> ps, pg |-> pg, dif |-> dif, dea |-> dea]
  BY DEF MacdStep
<1> HIDE DEF f, s, pf, ps, pg, dif, dea
<1> QED
  BY <1>4, <1>5, <1>7, <1>8 DEF MacdStates

\* The difference of the averages over their common denominator, and the
\* difference less its average, as polynomials of the close u.
DifOf(u, c, d, a, b, fast, slow) ==
  (2 * u * a + c) * (b * (slow + 1)) - (2 * u * b + d) * (a * (fast + 1))
LessDea(y, g, e, signal) == y * g * (signal + 1) - (2 * y * g + e)

LEMMA DifGrows ==
  ASSUME NEW v \in Int, NEW w \in Int, v <= w, NEW c \in Int, NEW d \in Int,
         NEW a \in Nat, NEW b \in Nat, NEW fast \in Nat, NEW slow \in Nat, fast <= slow
  PROVE  /\ DifOf(v, c, d, a, b, fast, slow) \in Int /\ DifOf(w, c, d, a, b, fast, slow) \in Int
         /\ DifOf(v, c, d, a, b, fast, slow) <= DifOf(w, c, d, a, b, fast, slow)
<1> DEFINE D(u) == DifOf(u, c, d, a, b, fast, slow)
<1>1. D(w) - D(v) = (w - v) * (2 * a * b * (slow - fast))
  BY DEF DifOf
<1>2. (w - v) * (2 * a * b * (slow - fast)) \in Nat
  <2>1. \A x, y \in Nat : x * y \in Nat
    OBVIOUS
  <2>2. w - v \in Nat /\ slow - fast \in Nat /\ 2 * a \in Nat
    OBVIOUS
  <2>3. 2 * a * b \in Nat
    BY <2>1, <2>2
  <2>4. 2 * a * b * (slow - fast) \in Nat
    BY <2>1, <2>2, <2>3
  <2> QED
    BY <2>1, <2>2, <2>4
<1>3. D(v) \in Int /\ D(w) \in Int
  BY DEF DifOf
<1> HIDE DEF D
<1>4. D(v) <= D(w)
  BY <1>1, <1>2, <1>3
<1> QED
  BY <1>3, <1>4 DEF D

LEMMA LessDeaGrows ==
  ASSUME NEW y \in Int, NEW z \in Int, y <= z, NEW g \in Nat, NEW e \in Int,
         NEW signal \in Nat \ {0}
  PROVE  /\ y * g * (signal + 1) <= z * g * (signal + 1)
         /\ LessDea(y, g, e, signal) <= LessDea(z, g, e, signal)
<1>1. g * (signal + 1) \in Nat /\ g * (signal - 1) \in Nat
  <2>1. \A m, n \in Nat : m * n \in Nat
    OBVIOUS
  <2> QED
    BY <2>1
<1>2. /\ y * (g * (signal + 1)) <= z * (g * (signal + 1))
      /\ y * (g * (signal - 1)) <= z * (g * (signal - 1))
  BY <1>1, TimesGrows
<1>3. /\ y * g * (signal + 1) = y * (g * (signal + 1))
      /\ z * g * (signal + 1) = z * (g * (signal + 1))
  OBVIOUS
<1>4. /\ LessDea(y, g, e, signal) = y * (g * (signal - 1)) - e
      /\ LessDea(z, g, e, signal) = z * (g * (signal - 1)) - e
  BY DEF LessDea
<1>5. y * (g * (signal - 1)) \in Int /\ z * (g * (signal - 1)) \in Int
  OBVIOUS
<1> QED
  BY <1>2, <1>3, <1>4, <1>5

\* One more close: the higher it is, the higher the difference and the histogram.
LEMMA MacdStepGrows ==
  ASSUME NEW fast \in Nat, NEW slow \in Nat, fast <= slow, NEW signal \in Nat \ {0},
         NEW x \in MacdStates, NEW v \in Int, NEW w \in Int, v <= w
  PROVE  /\ MacdStep(fast, slow, signal, x, v).dif <= MacdStep(fast, slow, signal, x, w).dif
         /\ MacdStep(fast, slow, signal, x, v).dif - MacdStep(fast, slow, signal, x, v).dea
              <= MacdStep(fast, slow, signal, x, w).dif - MacdStep(fast, slow, signal, x, w).dea
<1> DEFINE c == (fast - 1) * x.f
           d == (slow - 1) * x.s
           e == (signal - 1) * x.dea * (fast + 1) * (slow + 1)
           D(u) == DifOf(u, c, d, x.pf, x.ps, fast, slow)
           Step(u) == MacdStep(fast, slow, signal, x, u)
<1>1. \A a, b \in Int : a * b \in Int
  OBVIOUS
<1>2. /\ x.f \in Int /\ x.s \in Int /\ x.dea \in Int
      /\ x.pf \in Nat /\ x.ps \in Nat /\ x.pg \in Nat
  BY DEF MacdStates
<1>3. c \in Int /\ d \in Int /\ e \in Int
  BY <1>1, <1>2
<1>4. ASSUME NEW u \in Int
      PROVE  /\ Step(u).dif = D(u) * x.pg * (signal + 1)
             /\ Step(u).dif - Step(u).dea = LessDea(D(u), x.pg, e, signal)
  BY DEF MacdStep, DifOf, LessDea
<1> HIDE DEF c, d, e
<1>5. D(v) \in Int /\ D(w) \in Int /\ D(v) <= D(w)
  BY <1>2, <1>3, DifGrows
<1> HIDE DEF D
<1>6. /\ D(v) * x.pg * (signal + 1) <= D(w) * x.pg * (signal + 1)
      /\ LessDea(D(v), x.pg, e, signal) <= LessDea(D(w), x.pg, e, signal)
  BY <1>2, <1>3, <1>5, LessDeaGrows
<1> HIDE DEF Step
<1>7. Step(v).dif <= Step(w).dif /\ Step(v).dif - Step(v).dea <= Step(w).dif - Step(w).dea
  BY <1>4, <1>6
<1> QED
  BY <1>7 DEF Step

\* g starts at the first close and takes one close in at each step.
MacdOf(fast, slow, signal, k, closes, g) ==
  /\ g \in [0..k -> MacdStates]
  /\ g[0] = [f |-> closes[1], s |-> closes[1], pf |-> 1, ps |-> 1, pg |-> 1,
             dif |-> 0, dea |-> 0]
  /\ \A i \in 1..k : g[i] = MacdStep(fast, slow, signal, g[i - 1], closes[i + 1])

LEMMA MacdSeriesFacts ==
  ASSUME NEW fast \in Nat, NEW slow \in Nat, NEW signal \in Nat, NEW k \in Nat,
         NEW closes \in Seq(Nat), Len(closes) - 1 = k
  PROVE  MacdOf(fast, slow, signal, k, closes, MacdSeries(closes, fast, slow, signal))
<1> DEFINE base == [f |-> closes[1], s |-> closes[1], pf |-> 1, ps |-> 1, pg |-> 1,
                    dif |-> 0, dea |-> 0]
           next(i, x) == MacdStep(fast, slow, signal, x, closes[i + 1])
           step == [i \in 1..k |-> [x \in MacdStates |-> next(i, x)]]
           rec(f) == f = [i \in 0..k |-> IF i = 0 THEN base ELSE next(i, f[i - 1])]
           g == MacdSeries(closes, fast, slow, signal)
<1>1. closes[1] \in Nat /\ \A i \in 1..k : closes[i + 1] \in Int
  OBVIOUS
<1>2. base \in MacdStates
  BY <1>1 DEF MacdStates
<1>3. ASSUME NEW i \in 1..k, NEW x \in MacdStates PROVE next(i, x) \in MacdStates
  BY <1>1, MacdStepTyped
<1>4. rec(g) <=> g = [i \in 0..k |-> IF i = 0 THEN base
                                     ELSE MacdStep(fast, slow, signal, g[i - 1], closes[i + 1])]
  OBVIOUS
<1> HIDE DEF base, next
<1>5. /\ step \in [1..k -> [MacdStates -> MacdStates]]
      /\ \A i \in 1..k, x \in MacdStates : step[i][x] = next(i, x)
  BY <1>3
<1> HIDE DEF step
<1>6. PICK f : Recursion(k, MacdStates, base, step, f)
  BY <1>2, <1>5, RecursionExists
<1>7. rec(f)
  <2>1. f \in [0..k -> MacdStates] /\ f[0] = base /\ \A i \in 1..k : f[i] = step[i][f[i - 1]]
    BY <1>6 DEF Recursion
  <2>2. \A i \in 1..k : i - 1 \in 0..k
    OBVIOUS
  <2>3. \A i \in 1..k : f[i] = next(i, f[i - 1])
    BY <1>5, <2>1, <2>2
  <2>4. \A i \in 0..k : f[i] = IF i = 0 THEN base ELSE next(i, f[i - 1])
    BY <2>1, <2>3
  <2> QED
    BY <2>1, <2>4
<1>8. rec(g)
  <2>1. g = CHOOSE h : rec(h)
    BY DEF MacdSeries, base, next
  <2> HIDE DEF rec, g
  <2> QED
    BY <1>7, <2>1, Zenon
<1> HIDE DEF g
<1>9. /\ g = [i \in 0..k |-> g[i]] /\ g[0] = base
      /\ \A i \in 1..k : g[i] = next(i, g[i - 1])
  <2>1. \A i \in 0..k : g[i] = IF i = 0 THEN base ELSE next(i, g[i - 1])
    BY <1>8
  <2>2. DOMAIN g = 0..k /\ g = [i \in DOMAIN g |-> g[i]]
    BY <1>8
  <2>3. 0 \in 0..k /\ \A i \in 1..k : i \in 0..k /\ i # 0
    OBVIOUS
  <2> QED
    BY <2>1, <2>2, <2>3
<1>10. Recursion(k, MacdStates, base, step, g)
  <2>1. Steps(k, MacdStates, base, step, g)
    BY <1>5, <1>9 DEF Steps
  <2> QED
    BY <1>2, <1>5, <2>1, RecursionTyped
<1>11. /\ g \in [0..k -> MacdStates] /\ g[0] = base
       /\ \A i \in 1..k : g[i] = next(i, g[i - 1])
  BY <1>9, <1>10 DEF Recursion
<1> QED
  BY <1>11 DEF g, base, next, MacdOf

\* compute_macd: of two prices after the same closes the lower one gives no higher
\* difference and no higher histogram, however many closes there are and
\* whatever the spans, the fast one not longer than the slow one.
THEOREM MacdGrows ==
  ASSUME NEW fast \in Nat, NEW slow \in Nat, fast <= slow, NEW signal \in Nat \ {0},
         NEW prior \in Seq(Nat), NEW p \in Nat, NEW q \in Nat, p <= q
  PROVE  PriceMovesMacd(prior, p, q, fast, slow, signal)
<1> DEFINE a == Append(prior, p)
           b == Append(prior, q)
           k == Len(prior)
           f == MacdSeries(a, fast, slow, signal)
           g == MacdSeries(b, fast, slow, signal)
<1>1. /\ a \in Seq(Nat) /\ Len(a) = k + 1 /\ a[k + 1] = p
      /\ b \in Seq(Nat) /\ Len(b) = k + 1 /\ b[k + 1] = q
      /\ \A i \in 1..k : a[i] = b[i]
  OBVIOUS
<1>2. k \in Nat
  OBVIOUS
<1> HIDE DEF a, b, k
<1>3. Len(a) - 1 = k /\ Len(b) - 1 = k
  BY <1>1, <1>2
<1>4. /\ f \in [0..k -> MacdStates]
      /\ f[0] = [f |-> a[1], s |-> a[1], pf |-> 1, ps |-> 1, pg |-> 1, dif |-> 0, dea |-> 0]
      /\ \A i \in 1..k : f[i] = MacdStep(fast, slow, signal, f[i - 1], a[i + 1])
  <2>1. MacdOf(fast, slow, signal, k, a, f)
    BY <1>1, <1>2, <1>3, MacdSeriesFacts
  <2> QED
    BY <2>1 DEF MacdOf
<1>5. /\ g \in [0..k -> MacdStates]
      /\ g[0] = [f |-> b[1], s |-> b[1], pf |-> 1, ps |-> 1, pg |-> 1, dif |-> 0, dea |-> 0]
      /\ \A i \in 1..k : g[i] = MacdStep(fast, slow, signal, g[i - 1], b[i + 1])
  <2>1. MacdOf(fast, slow, signal, k, b, g)
    BY <1>1, <1>2, <1>3, MacdSeriesFacts
  <2> QED
    BY <2>1 DEF MacdOf
<1> DEFINE ma == Macd(a, fast, slow, signal)
           mb == Macd(b, fast, slow, signal)
<1>6. ma.dif <= mb.dif /\ ma.hist <= mb.hist
  <2>1. CASE k + 1 < slow + signal
    <3>1. ma = [dif |-> 0, dea |-> 0, hist |-> 0] /\ mb = ma
      BY <1>1, <2>1 DEF Macd
    <3> QED
      BY <3>1
  <2>2. CASE ~(k + 1 < slow + signal)
    <3>1. /\ ma.dif = f[k].dif /\ ma.hist = 2 * (f[k].dif - f[k].dea)
          /\ mb.dif = g[k].dif /\ mb.hist = 2 * (g[k].dif - g[k].dea)
      BY <1>1, <1>3, <2>2 DEF Macd
    <3> HIDE DEF f, g, ma, mb
    <3>2. /\ f[k].dif \in Int /\ f[k].dea \in Int /\ g[k].dif \in Int /\ g[k].dea \in Int
      <4>1. f[k] \in MacdStates /\ g[k] \in MacdStates
        BY <1>2, <1>4, <1>5
      <4> QED
        BY <4>1 DEF MacdStates
    <3>3. f[k].dif <= g[k].dif /\ f[k].dif - f[k].dea <= g[k].dif - g[k].dea
      <4>1. CASE k = 0
        BY <1>4, <1>5, <4>1
      <4>2. CASE k # 0
        <5> DEFINE j == k - 1
                   x == f[j]
        <5>1. j \in Nat /\ j \in 0..k /\ k \in 1..k /\ 1 \in 1..k
          BY <1>2, <4>2
        <5>2. SameSteps(j, f, g)
          <6>1. a[1] = b[1] /\ \A i \in 1..j : i \in 1..k /\ a[i + 1] = b[i + 1]
            BY <1>1, <1>2, <5>1
          <6> QED
            BY <1>4, <1>5, <6>1 DEF SameSteps
        <5> HIDE DEF j
        <5>3. Same(j, f, g)
          BY <5>1, <5>2, RecursionAgrees
        <5>4. f[j] = g[j]
          BY <5>1, <5>3 DEF Same
        <5>5. /\ x \in MacdStates
              /\ f[k] = MacdStep(fast, slow, signal, x, p)
              /\ g[k] = MacdStep(fast, slow, signal, x, q)
          BY <1>1, <1>4, <1>5, <5>1, <5>4 DEF j
        <5> HIDE DEF x
        <5> QED
          <6>1. p \in Int /\ q \in Int
            OBVIOUS
          <6> QED
            BY <5>5, <6>1, MacdStepGrows
      <4> QED
        BY <4>1, <4>2
    <3> QED
      BY <3>1, <3>2, <3>3
  <2> QED
    BY <2>1, <2>2
<1> QED
  BY <1>6 DEF PriceMovesMacd, a, b

-----------------------------------------------------------------------------
(* Averages, extremes and the RSI *)

\* The last n of two series that differ in the last value only.
LEMMA LastNRaised ==
  ASSUME NEW m \in Nat \ {0}, NEW n \in 1..m, NEW a, NEW b, Raised(a, b, m)
  PROVE  Raised(LastN(a, n), LastN(b, n), n)
<1> DEFINE u == LastN(a, n)
           v == LastN(b, n)
<1>1. /\ a \in Seq(Nat) /\ b \in Seq(Nat) /\ Len(a) = m /\ Len(b) = m
      /\ \A i \in 1..m - 1 : a[i] = b[i]
      /\ a[m] <= b[m]
  BY DEF Raised
<1>0. n \in Nat \ {0} /\ n <= Len(a) /\ n <= Len(b)
  BY <1>1
<1>2. u \in Seq(Nat) /\ Len(u) = n /\ \A i \in 1..n : u[i] = a[m - n + i]
  <2>1. u \in Seq(Nat) /\ Len(u) = n /\ \A i \in 1..n : u[i] = a[Len(a) - n + i]
    BY <1>0, <1>1, LastNFacts
  <2> QED
    BY <1>1, <2>1
<1>3. v \in Seq(Nat) /\ Len(v) = n /\ \A i \in 1..n : v[i] = b[m - n + i]
  <2>1. v \in Seq(Nat) /\ Len(v) = n /\ \A i \in 1..n : v[i] = b[Len(b) - n + i]
    BY <1>0, <1>1, LastNFacts
  <2> QED
    BY <1>1, <2>1
<1> HIDE DEF u, v
<1>4. n \in 1..n /\ m - n + n = m /\ \A i \in 1..n - 1 : i \in 1..n /\ m - n + i \in 1..m - 1
  OBVIOUS
<1>5. u[n] <= v[n]
  BY <1>1, <1>2, <1>3, <1>4
<1>6. \A i \in 1..n - 1 : u[i] = v[i]
  BY <1>1, <1>2, <1>3, <1>4
<1>7. Raised(u, v, n)
  BY <1>2, <1>3, <1>5, <1>6 DEF Raised
<1> QED
  BY <1>7 DEF u, v

\* compute_ma grows with the last close.
LEMMA MaGrows ==
  ASSUME NEW m \in Nat \ {0}, NEW n \in Nat, NEW a, NEW b, Raised(a, b, m)
  PROVE  AtMost(Ma(a, n), Ma(b, n))
<1>1. Len(a) = m /\ Len(b) = m
  BY DEF Raised
<1>2. CASE n \in 1..m
  <2> DEFINE u == LastN(a, n)
             v == LastN(b, n)
  <2>1. Ma(a, n) = [num |-> Total(u), den |-> n] /\ Ma(b, n) = [num |-> Total(v), den |-> n]
    BY <1>1, <1>2 DEF Ma, HasN
  <2>2. Raised(u, v, n)
    BY <1>2, LastNRaised
  <2> HIDE DEF u, v
  <2>3. Total(u) \in Nat /\ Total(v) \in Nat /\ Total(u) <= Total(v)
    BY <1>2, <2>2, TotalGrows
  <2>4. Total(u) * n <= Total(v) * n
    BY <2>3, TimesGrows
  <2> QED
    BY <2>1, <2>4 DEF AtMost
<1>3. CASE n \notin 1..m
  <2>1. Ma(a, n) = None /\ Ma(b, n) = None
    BY <1>1, <1>3 DEF Ma, HasN
  <2> QED
    BY <2>1 DEF AtMost, None
<1> QED
  BY <1>2, <1>3

-----------------------------------------------------------------------------
(* Extremes of the values of a series *)

\* One of the first n values is the largest, one is the least.
LEMMA ExtremesExist ==
  ASSUME NEW n \in Nat \ {0}, NEW u \in Seq(Nat), Len(u) = n
  PROVE  /\ Max(ToSet(u)) \in Nat /\ Min(ToSet(u)) \in Nat
         /\ \E i \in 1..n : Max(ToSet(u)) = u[i]
         /\ \E i \in 1..n : Min(ToSet(u)) = u[i]
         /\ \A i \in 1..n : Min(ToSet(u)) <= u[i] /\ u[i] <= Max(ToSet(u))
<1> DEFINE S == ToSet(u)
           Above(i) == {c \in Nat : \A j \in 1..i : u[j] <= c}
           I == {i \in 0..n : Above(i) # {}}
<1>1. \A i \in 1..n : u[i] \in S /\ u[i] \in Nat
  BY DEF ToSet
<1>2. \A x \in S : \E i \in 1..n : x = u[i]
  BY DEF ToSet
<1> HIDE DEF S
<1>3. S \in SUBSET Nat /\ S # {}
  <2>1. 1 \in 1..n
    OBVIOUS
  <2> QED
    BY <1>1, <1>2, <2>1
<1>4. Above(n) \in SUBSET Nat /\ Above(n) # {}
  <2>1. 0 \in I
    <3>1. 0 \in Above(0) /\ 0 \in 0..n
      OBVIOUS
    <3> QED
      BY <3>1
  <2>2. ASSUME NEW i \in 0..n, i \in I, i < n PROVE i + 1 \in I
    <3>1. PICK c \in Nat : \A j \in 1..i : u[j] <= c
      BY <2>2
    <3>2. i + 1 \in 1..n /\ u[i + 1] \in Nat
      BY <1>1, <2>2
    <3>3. \A j \in 1..i : u[j] \in Nat
      BY <1>1, <2>2
    <3>4. c + u[i + 1] \in Nat /\ u[i + 1] <= c + u[i + 1]
      BY <3>2
    <3>5. \A j \in 1..i : u[j] <= c + u[i + 1]
      BY <3>1, <3>2, <3>3
    <3>6. \A j \in 1..i + 1 : j \in 1..i \/ j = i + 1
      BY <2>2
    <3>7. c + u[i + 1] \in Above(i + 1)
      BY <3>4, <3>5, <3>6
    <3> QED
      BY <3>2, <3>7
  <2>3. 0..n \subseteq I
    <3> HIDE DEF I
    <3> QED
      BY <2>1, <2>2, BoundedInduction
  <2> QED
    BY <2>3
<1>5. PICK c \in Above(n) : \A d \in Above(n) : c <= d
  <2> HIDE DEF Above
  <2> QED
    BY <1>4, LeastOf
<1>6. c \in Nat /\ \A x \in S : x <= c
  BY <1>2
<1>7. c \in S
  <2>1. CASE c \notin S
    <3>1. \A x \in S : x <= c - 1 /\ x \in Nat
      BY <1>3, <1>6, <2>1
    <3>2. c - 1 \in Nat
      <4>1. PICK x \in S : TRUE
        BY <1>3
      <4>2. x \in Nat /\ x <= c - 1
        BY <1>3, <3>1
      <4> QED
        BY <1>6, <4>2
    <3>3. c - 1 \in Above(n)
      BY <1>1, <3>1, <3>2
    <3> QED
      BY <1>5, <1>6, <3>3
  <2> QED
    BY <2>1
<1>8. Max(S) \in S /\ \A y \in S : Max(S) >= y
  <2>1. \A y \in S : c >= y
    BY <1>3, <1>6
  <2> QED
    BY <1>7, <2>1, Zenon DEF Max
<1>9. Min(S) \in S /\ \A y \in S : Min(S) <= y
  <2>1. \E x \in S : \A y \in S : x <= y
    BY <1>3, LeastOf
  <2> QED
    BY <2>1, Zenon DEF Min
<1>10. \A y \in S : y <= Max(S)
  BY <1>3, <1>8
<1> QED
  BY <1>1, <1>2, <1>3, <1>8, <1>9, <1>10 DEF S

\* n_day_high and n_day_low grow with the last close.
LEMMA ExtremesGrow ==
  ASSUME NEW m \in Nat \ {0}, NEW n \in Nat, NEW a, NEW b, Raised(a, b, m)
  PROVE  /\ AtMost(Highest(a, n), Highest(b, n)) /\ AtMost(Lowest(a, n), Lowest(b, n))
         /\ AtMost(Lowest(a, n), Highest(a, n))
<1>1. Len(a) = m /\ Len(b) = m
  BY DEF Raised
<1>2. CASE n \in 1..m
  <2> DEFINE u == LastN(a, n)
             v == LastN(b, n)
  <2>1. /\ Highest(a, n) = Whole(Max(ToSet(u))) /\ Lowest(a, n) = Whole(Min(ToSet(u)))
        /\ Highest(b, n) = Whole(Max(ToSet(v))) /\ Lowest(b, n) = Whole(Min(ToSet(v)))
    BY <1>1, <1>2 DEF Highest, Lowest, HasN
  <2>2. Raised(u, v, n)
    BY <1>2, LastNRaised
  <2> HIDE DEF u, v
  <2>3. /\ u \in Seq(Nat) /\ v \in Seq(Nat) /\ Len(u) = n /\ Len(v) = n
        /\ n \in Nat \ {0}
        /\ \A i \in 1..n : u[i] \in Nat /\ v[i] \in Nat
    <3>1. /\ u \in Seq(Nat) /\ v \in Seq(Nat) /\ Len(u) = n /\ Len(v) = n
          /\ n \in Nat \ {0}
      BY <1>2, <2>2 DEF Raised
    <3> QED
      BY <3>1
  <2>4. \A i \in 1..n : u[i] <= v[i]
    <3>1. \A i \in 1..n : i = n \/ i \in 1..n - 1
      BY <2>3
    <3> QED
      BY <2>2, <2>3, <3>1 DEF Raised
  <2> DEFINE hu == Max(ToSet(u))
             lu == Min(ToSet(u))
             hv == Max(ToSet(v))
             lv == Min(ToSet(v))
  <2>5. /\ hu \in Nat /\ lu \in Nat
        /\ \E i \in 1..n : hu = u[i]
        /\ \A i \in 1..n : lu <= u[i] /\ u[i] <= hu
    BY <2>3, ExtremesExist
  <2>6. /\ hv \in Nat /\ lv \in Nat
        /\ \E i \in 1..n : lv = v[i]
        /\ \A i \in 1..n : lv <= v[i] /\ v[i] <= hv
    BY <2>3, ExtremesExist
  <2> HIDE DEF hu, lu, hv, lv
  <2>7. hu <= hv
    <3>1. PICK i \in 1..n : hu = u[i]
      BY <2>5
    <3> QED
      BY <2>3, <2>4, <2>6, <3>1
  <2>8. lu <= lv
    <3>1. PICK i \in 1..n : lv = v[i]
      BY <2>6
    <3>2. lu <= u[i] /\ u[i] <= v[i] /\ u[i] \in Nat
      BY <2>3, <2>4, <2>5
    <3> QED
      BY <2>5, <2>6, <3>1, <3>2
  <2>9. lu <= hu
    <3>1. 1 \in 1..n
      BY <2>3
    <3>2. lu <= u[1] /\ u[1] <= hu /\ u[1] \in Nat
      BY <2>3, <2>5, <3>1
    <3> QED
      BY <2>5, <3>2
  <2>10. \A x, y \in Nat : x <= y => AtMost(Whole(x), Whole(y))
    BY DEF AtMost, Whole
  <2>11. /\ AtMost(Whole(hu), Whole(hv)) /\ AtMost(Whole(lu), Whole(lv))
         /\ AtMost(Whole(lu), Whole(hu))
    BY <2>5, <2>6, <2>7, <2>8, <2>9, <2>10
  <2> QED
    BY <2>1, <2>11 DEF hu, lu, hv, lv
<1>3. CASE n \notin 1..m
  <2>1. /\ Highest(a, n) = None /\ Lowest(a, n) = None
        /\ Highest(b, n) = None /\ Lowest(b, n) = None
    BY <1>1, <1>3 DEF Highest, Lowest, HasN
  <2> QED
    BY <2>1 DEF AtMost, None
<1> QED
  BY <1>2, <1>3

LEMMA MovesTyped ==
  ASSUME NEW a \in Seq(Nat), NEW m \in Nat \ {0, 1}, Len(a) = m
  PROVE  /\ Rises(a) \in Seq(Nat) /\ Len(Rises(a)) = m - 1
         /\ Falls(a) \in Seq(Nat) /\ Len(Falls(a)) = m - 1
<1>1. m - 1 \in Nat /\ \A i \in 1..m - 1 : a[i] \in Nat /\ a[i + 1] \in Nat
  OBVIOUS
<1> DEFINE r == Rises(a)
           f == Falls(a)
<1>2. r \in [1..m - 1 -> Nat]
  BY <1>1 DEF Rises
<1>3. f \in [1..m - 1 -> Nat]
  BY <1>1 DEF Falls
<1> HIDE DEF r, f
<1> DEFINE k == m - 1
<1>4. k \in Nat /\ r \in [1..k -> Nat] /\ f \in [1..k -> Nat]
  BY <1>1, <1>2, <1>3
<1> HIDE DEF k
<1>5. r \in Seq(Nat) /\ Len(r) = k /\ f \in Seq(Nat) /\ Len(f) = k
  BY <1>4
<1> QED
  BY <1>5 DEF r, f, k

\* With the last close raised the last rise is no smaller, the last fall no larger.
LEMMA MovesRaised ==
  ASSUME NEW m \in Nat \ {0, 1}, NEW a, NEW b, Raised(a, b, m)
  PROVE  Raised(Rises(a), Rises(b), m - 1) /\ Raised(Falls(b), Falls(a), m - 1)
<1>1. /\ a \in Seq(Nat) /\ b \in Seq(Nat) /\ Len(a) = m /\ Len(b) = m
      /\ \A i \in 1..m - 1 : a[i] = b[i]
      /\ a[m] <= b[m]
  BY DEF Raised
<1>2. /\ \A i \in 1..m - 2 : i \in 1..m - 1 /\ i + 1 \in 1..m - 1
      /\ m - 1 \in 1..m - 1 /\ (m - 1) + 1 = m /\ (m - 1) - 1 = m - 2
  OBVIOUS
<1>3. /\ \A i \in 1..m - 1 : Rises(a)[i] = IF a[i + 1] > a[i] THEN a[i + 1] - a[i] ELSE 0
      /\ \A i \in 1..m - 1 : Rises(b)[i] = IF b[i + 1] > b[i] THEN b[i + 1] - b[i] ELSE 0
      /\ \A i \in 1..m - 1 : Falls(a)[i] = IF a[i + 1] < a[i] THEN a[i] - a[i + 1] ELSE 0
      /\ \A i \in 1..m - 1 : Falls(b)[i] = IF b[i + 1] < b[i] THEN b[i] - b[i + 1] ELSE 0
  BY <1>1 DEF Rises, Falls
<1>4. \A i \in 1..m - 2 : Rises(a)[i] = Rises(b)[i] /\ Falls(b)[i] = Falls(a)[i]
  <2>1. ASSUME NEW i \in 1..m - 2
        PROVE  Rises(a)[i] = Rises(b)[i] /\ Falls(b)[i] = Falls(a)[i]
    <3>1. i \in 1..m - 1 /\ i + 1 \in 1..m - 1
      BY <1>2
    <3>2. a[i] = b[i] /\ a[i + 1] = b[i + 1]
      BY <1>1, <3>1
    <3> QED
      BY <1>3, <3>1, <3>2
  <2> QED
    BY <2>1
<1>5. Rises(a)[m - 1] <= Rises(b)[m - 1] /\ Falls(b)[m - 1] <= Falls(a)[m - 1]
  <2>1. a[m - 1] = b[m - 1] /\ a[m - 1] \in Nat /\ a[m] \in Nat /\ b[m] \in Nat
    BY <1>1, <1>2
  <2> QED
    BY <1>1, <1>2, <1>3, <2>1
<1>6. /\ Rises(a) \in Seq(Nat) /\ Len(Rises(a)) = m - 1
      /\ Falls(a) \in Seq(Nat) /\ Len(Falls(a)) = m - 1
  BY <1>1, MovesTyped
<1>7. /\ Rises(b) \in Seq(Nat) /\ Len(Rises(b)) = m - 1
      /\ Falls(b) \in Seq(Nat) /\ Len(Falls(b)) = m - 1
  BY <1>1, MovesTyped
<1> QED
  BY <1>2, <1>4, <1>5, <1>6, <1>7 DEF Raised

\* A share of the whole: no smaller with more of one part and less of the other.
RsiOf(gain, loss) ==
  IF loss = 0 THEN Whole(100) ELSE [num |-> 100 * gain, den |-> gain + loss]
LEMMA ShareGrows ==
  ASSUME NEW g \in Nat, NEW h \in Nat, g <= h, NEW l \in Nat, NEW k \in Nat, k <= l
  PROVE  /\ AtMost(RsiOf(g, l), RsiOf(h, k))
         /\ RsiOf(g, l).num \in 0..100 * RsiOf(g, l).den
<1>1. CASE l = 0
  BY <1>1 DEF AtMost, RsiOf, Whole
<1>2. CASE l # 0
  <2>1. RsiOf(g, l) = [num |-> 100 * g, den |-> g + l]
    BY <1>2 DEF RsiOf
  <2>2. RsiOf(g, l).num \in 0..100 * RsiOf(g, l).den
    BY <2>1
  <2>3. CASE k = 0
    <3>1. RsiOf(h, k) = [num |-> 100, den |-> 1]
      BY <2>3 DEF RsiOf, Whole
    <3>2. (100 * g) * 1 <= 100 * (g + l)
      OBVIOUS
    <3> QED
      BY <2>1, <2>2, <3>1, <3>2 DEF AtMost
  <2>4. CASE k # 0
    <3>1. RsiOf(h, k) = [num |-> 100 * h, den |-> h + k]
      BY <2>4 DEF RsiOf
    <3>2. g * k <= h * l
      <4>1. g * k <= h * k
        BY TimesGrows
      <4>2. k * h <= l * h
        BY TimesGrows
      <4>3. k * h = h * k /\ l * h = h * l /\ g * k \in Int /\ h * k \in Int /\ h * l \in Int
        OBVIOUS
      <4> QED
        BY <4>1, <4>2, <4>3
    <3>3. (100 * g) * (h + k) <= (100 * h) * (g + l)
      <4>1. /\ (100 * g) * (h + k) = 100 * (g * h) + 100 * (g * k)
            /\ (100 * h) * (g + l) = 100 * (g * h) + 100 * (h * l)
            /\ g * k \in Int /\ h * l \in Int /\ g * h \in Int
        OBVIOUS
      <4> QED
        BY <3>2, <4>1
    <3> QED
      BY <2>1, <2>2, <3>1, <3>3 DEF AtMost
  <2> QED
    BY <2>3, <2>4
<1> QED
  BY <1>1, <1>2

\* compute_rsi grows with the last close.
LEMMA RsiGrows ==
  ASSUME NEW m \in Nat \ {0}, NEW n \in Nat, NEW a, NEW b, Raised(a, b, m)
  PROVE  /\ AtMost(Rsi(a, n), Rsi(b, n))
         /\ Rsi(a, n) # None => Rsi(a, n).num \in 0..100 * Rsi(a, n).den
<1>1. Len(a) = m /\ Len(b) = m
  BY DEF Raised
<1>2. CASE n > 0 /\ n + 1 <= m
  <2> DEFINE ga == Smoothed(Rises(a), n)
             gb == Smoothed(Rises(b), n)
             la == Smoothed(Falls(a), n)
             lb == Smoothed(Falls(b), n)
  <2>1. /\ m \in Nat \ {0, 1} /\ m - 1 \in Nat /\ n <= m - 1 /\ n \in Nat \ {0}
    BY <1>2
  <2>2. Raised(Rises(a), Rises(b), m - 1) /\ Raised(Falls(b), Falls(a), m - 1)
    BY <2>1, MovesRaised
  <2>3. ga \in Nat /\ gb \in Nat /\ ga <= gb
    BY <2>1, <2>2, SmoothedGrows
  <2>4. la \in Nat /\ lb \in Nat /\ lb <= la
    BY <2>1, <2>2, SmoothedGrows
  <2>5. Rsi(a, n) = RsiOf(ga, la) /\ Rsi(b, n) = RsiOf(gb, lb)
    BY <1>1, <1>2 DEF Rsi, RsiOf, HasN
  <2> HIDE DEF ga, gb, la, lb
  <2> QED
    BY <2>3, <2>4, <2>5, ShareGrows
<1>3. CASE ~(n > 0 /\ n + 1 <= m)
  <2>1. Rsi(a, n) = None /\ Rsi(b, n) = None
    BY <1>1, <1>3 DEF Rsi, HasN
  <2> QED
    BY <2>1 DEF AtMost, None
<1> QED
  BY <1>2, <1>3

\* compute_ma, compute_rsi, n_day_high and n_day_low: of two prices after the same
\* closes the lower one gives no higher indicator, the lowest close is not above
\* the highest, and the RSI is a percentage, however many closes were smoothed.
THEOREM PriceMovesHold ==
  ASSUME NEW prior \in Seq(Nat), NEW p \in Nat, NEW q \in Nat, p <= q, NEW n \in Nat
  PROVE  PriceMoves(prior, p, q, n)
<1> DEFINE a == Append(prior, p)
           b == Append(prior, q)
           m == Len(prior) + 1
<1>1. m \in Nat \ {0} /\ Raised(a, b, m)
  BY DEF Raised
<1> HIDE DEF a, b, m
<1>2. /\ AtMost(Ma(a, n), Ma(b, n)) /\ AtMost(Rsi(a, n), Rsi(b, n))
      /\ AtMost(Highest(a, n), Highest(b, n)) /\ AtMost(Lowest(a, n), Lowest(b, n))
      /\ AtMost(Lowest(a, n), Highest(a, n))
      /\ Rsi(a, n) # None => Rsi(a, n).num \in 0..100 * Rsi(a, n).den
  BY <1>1, MaGrows, RsiGrows, ExtremesGrow
<1> QED
  BY <1>2 DEF PriceMoves, a, b
=============================================================================
