------------------------- MODULE PorcupineHistoryProofs -------------------------
(***************************************************************************)
(* The histories that Porcupine checks, for any number of operations: the  *)
(* entries that makeEntries and convertEntries make stand for the operations *)
(* of their partition, and a history of many keys is linearizable if and   *)
(* only if the history of each key is.                                     *)
(***************************************************************************)
EXTENDS HistoryTheory, Counting, TLAPS

---------------------------------------------------------------------------------
(* Finite sets *)

\* How many numbers an interval has.
LEMMA IntervalCount ==
    ASSUME CountingLaws, NEW a \in Int, NEW b \in Int
    PROVE  IsFiniteSet(a .. b) /\ Cardinality(a .. b) = IF a > b THEN 0 ELSE b - a + 1
BY Zenon DEF CountingLaws, IntervalCountLaw

\* A subset has no more elements, and as many only if it is the whole set.
LEMMA SubsetCount ==
    ASSUME CountingLaws, NEW S, IsFiniteSet(S), NEW T \in SUBSET S
    PROVE  /\ IsFiniteSet(T) /\ Cardinality(T) <= Cardinality(S)
           /\ Cardinality(S) = Cardinality(T) => S = T
BY Zenon DEF CountingLaws, SubsetCountLaw

\* The size of a finite set is a number.
LEMMA CountType ==
    ASSUME CountingLaws, NEW S, IsFiniteSet(S)
    PROVE  Cardinality(S) \in Nat
BY Zenon DEF CountingLaws, CountTypeLaw

\* Adding an element adds one, unless it was there.
LEMMA AddCount ==
    ASSUME CountingLaws, NEW S, NEW x, IsFiniteSet(S)
    PROVE  /\ IsFiniteSet(S \cup {x})
           /\ Cardinality(S \cup {x}) = IF x \in S THEN Cardinality(S) ELSE Cardinality(S) + 1
BY Zenon DEF CountingLaws, AddCountLaw

\* A bijection keeps the size.
LEMMA BijectionCount ==
    ASSUME CountingLaws, NEW S, NEW T, IsFiniteSet(S), ExistsBijection(S, T)
    PROVE  IsFiniteSet(T) /\ Cardinality(T) = Cardinality(S)
BY Zenon DEF CountingLaws, BijectionCountLaw

\* What is listed without repetition by 1 .. n has size n.
LEMMA ListCount ==
    ASSUME CountingLaws, NEW S, NEW n \in Nat, ExistsBijection(1 .. n, S)
    PROVE  IsFiniteSet(S) /\ Cardinality(S) = n
BY Zenon DEF CountingLaws, ListCountLaw

\* The empty set, and only it, has size 0.
LEMMA EmptyCount ==
    ASSUME CountingLaws
    PROVE  /\ IsFiniteSet({}) /\ Cardinality({}) = 0
           /\ \A S : IsFiniteSet(S) => (Cardinality(S) = 0 <=> S = {})
BY Zenon DEF CountingLaws, EmptyCountLaw

\* An injection into a finite set, and when it reaches everything.
LEMMA InjectionCount ==
    ASSUME CountingLaws, NEW S, NEW T, NEW f \in Injection(S, T), IsFiniteSet(T)
    PROVE  /\ IsFiniteSet(S) /\ Cardinality(S) <= Cardinality(T)
           /\ Cardinality(S) = Cardinality(T) <=> f \in Surjection(S, T)
BY Zenon DEF CountingLaws, InjectionCountLaw

\* A surjection from a finite set, and when nothing is reached twice.
LEMMA SurjectionCount ==
    ASSUME CountingLaws, NEW S, NEW T, NEW f \in Surjection(S, T), IsFiniteSet(S)
    PROVE  /\ IsFiniteSet(T) /\ Cardinality(T) <= Cardinality(S)
           /\ Cardinality(T) = Cardinality(S) <=> f \in Injection(S, T)
BY Zenon DEF CountingLaws, SurjectionCountLaw

---------------------------------------------------------------------------------
(* Natural numbers *)

\* Numbers have a least one.
LEMMA LeastOfNat ==
    ASSUME CountingLaws, NEW S \in SUBSET Nat, S # {}
    PROVE  \E x \in S : \A n \in S : x <= n
BY Zenon DEF CountingLaws, LeastNumberLaw

\* Induction, with the numbers that have a property as a set.
LEMMA NatInd ==
    ASSUME CountingLaws, NEW S \in SUBSET Nat, 0 \in S, \A n \in S : n + 1 \in S
    PROVE  S = Nat
<1> SUFFICES ASSUME Nat \ S # {} PROVE FALSE
  BY Zenon
<1>1. PICK x \in Nat \ S : \A n \in Nat \ S : x <= n
  BY LeastOfNat, Zenon
<1>2. x # 0 /\ x - 1 \in Nat
  OBVIOUS
<1>3. x - 1 \in S
  BY <1>1, <1>2
<1>4. (x - 1) + 1 = x
  OBVIOUS
<1> QED
  BY <1>3, <1>4, Zenon

\* Min and Max of a set of integers with a bound.
LEMMA MinInt ==
    ASSUME CountingLaws, NEW S \in SUBSET Int, NEW b \in Int, \A x \in S : b <= x, S # {}
    PROVE  Min(S) \in S /\ \A n \in S : Min(S) <= n
<1> DEFINE T == {x - b : x \in S}
<1>1. T \in SUBSET Nat /\ T # {}
  <2>1. ASSUME NEW x \in S PROVE x - b \in Nat
    OBVIOUS
  <2> QED
    BY <2>1, Zenon
<1>2. PICK y \in T : \A n \in T : y <= n
  BY <1>1, LeastOfNat, Zenon
<1>3. PICK z \in S : y = z - b
  BY Zenon
<1>4. ASSUME NEW n \in S PROVE z <= n
  <2>1. n - b \in T /\ z - b <= n - b
    BY <1>2, <1>3, Zenon
  <2> QED
    BY <2>1
<1> QED
  BY <1>4, Zenon DEF Min

\* The same for Max.
LEMMA MaxInt ==
    ASSUME CountingLaws, NEW S \in SUBSET Int, NEW b \in Int, \A x \in S : x <= b, S # {}
    PROVE  Max(S) \in S /\ \A n \in S : n <= Max(S)
<1> DEFINE T == {b - x : x \in S}
<1>1. T \in SUBSET Nat /\ T # {}
  <2>1. ASSUME NEW x \in S PROVE b - x \in Nat
    OBVIOUS
  <2> QED
    BY <2>1, Zenon
<1>2. PICK y \in T : \A n \in T : y <= n
  BY <1>1, LeastOfNat, Zenon
<1>3. PICK z \in S : y = b - z
  BY Zenon
<1>4. ASSUME NEW n \in S PROVE z >= n
  <2>1. b - n \in T /\ b - z <= b - n
    BY <1>2, <1>3, Zenon
  <2> QED
    BY <2>1
<1> QED
  BY <1>4, Zenon DEF Max

---------------------------------------------------------------------------------
(* Sorted lists *)

\* Numbers of smaller elements tell the elements of a finite set of integers apart,
\* and are all the numbers below the size of the set.
LEMMA Ranks ==
    ASSUME CountingLaws, NEW S \in SUBSET Int, IsFiniteSet(S)
    PROVE  /\ \A x, y \in S : x < y <=>
                Cardinality({z \in S : z < x}) < Cardinality({z \in S : z < y})
           /\ \A x \in S : Cardinality({z \in S : z < x}) \in 0 .. Cardinality(S) - 1
           /\ \A k \in 1 .. Cardinality(S) : \E x \in S : Cardinality({z \in S : z < x}) = k - 1
<1> DEFINE B(x) == {z \in S : z < x}
           n == Cardinality(S)
<1>1. n \in Nat
  BY CountType, Zenon
<1>2. ASSUME NEW x \in S
      PROVE  IsFiniteSet(B(x)) /\ Cardinality(B(x)) \in Int /\ Cardinality(B(x)) \in 0 .. n - 1
  <2>1. B(x) \in SUBSET S /\ x \notin B(x)
    OBVIOUS
  <2>2. IsFiniteSet(B(x)) /\ Cardinality(B(x)) <= n /\ Cardinality(B(x)) # n
    BY <2>1, SubsetCount, Zenon
  <2>3. Cardinality(B(x)) \in Nat
    BY <2>2, CountType, Zenon
  <2> QED
    BY <1>1, <2>2, <2>3
<1>3. ASSUME NEW x \in S, NEW y \in S, x < y PROVE Cardinality(B(x)) < Cardinality(B(y))
  <2>1. B(x) \in SUBSET B(y) /\ x \in B(y) /\ x \notin B(x)
    <3>1. ASSUME NEW z \in S, z < x PROVE z < y
      <4>1. x \in Int /\ y \in Int /\ z \in Int
        BY Zenon
      <4> QED
        BY <1>3, <3>1, <4>1
    <3>2. ~(x < x)
      OBVIOUS
    <3> QED
      BY <1>3, <3>1, <3>2, Zenon
  <2>2. IsFiniteSet(B(y)) /\ Cardinality(B(x)) \in Int /\ Cardinality(B(y)) \in Int
    BY <1>2, Zenon
  <2>3. Cardinality(B(x)) <= Cardinality(B(y)) /\ Cardinality(B(x)) # Cardinality(B(y))
    BY <2>1, <2>2, SubsetCount, Zenon
  <2> QED
    BY <2>2, <2>3
<1> HIDE DEF B, n
<1>4. ASSUME NEW x \in S, NEW y \in S PROVE x < y <=> Cardinality(B(x)) < Cardinality(B(y))
  <2>1. x < y \/ x = y \/ y < x
    OBVIOUS
  <2>2. Cardinality(B(x)) \in Int /\ Cardinality(B(y)) \in Int
    BY <1>2, Zenon
  <2> QED
    BY <1>3, <2>1, <2>2
<1>5. ASSUME NEW k \in 1 .. n PROVE \E x \in S : Cardinality(B(x)) = k - 1
  <2> DEFINE f == [x \in S |-> Cardinality(B(x))]
  <2>1. f \in Injection(S, 0 .. n - 1)
    <3>1. f \in [S -> 0 .. n - 1]
      BY <1>2, Zenon
    <3>2. \A x, y \in S : f[x] = f[y] => x = y
      <4> TAKE x, y \in S
      <4>1. x < y \/ x = y \/ y < x
        OBVIOUS
      <4>2. f[x] = Cardinality(B(x)) /\ f[y] = Cardinality(B(y)) /\ f[x] \in Int /\ f[y] \in Int
        BY <3>1
      <4> QED
        BY <1>3, <4>1, <4>2
    <3> QED
      BY <3>1, <3>2, Zenon DEF Injection, IsInjective
  <2>2. IsFiniteSet(0 .. n - 1) /\ Cardinality(0 .. n - 1) = n
    BY <1>1, IntervalCount
  <2>3. f \in Surjection(S, 0 .. n - 1)
    BY <2>1, <2>2, InjectionCount, Zenon DEF n
  <2>4. k - 1 \in 0 .. n - 1
    BY <1>1
  <2>5. \E x \in S : f[x] = k - 1
    BY <2>3, <2>4, Zenon DEF Surjection
  <2> QED
    BY <2>5, Zenon
<1> QED
  BY <1>2, <1>4, <1>5, Zenon DEF B, n

\* The list that Nth describes is sorted and has each element once.
LEMMA NthSorts ==
    ASSUME CountingLaws, NEW S \in SUBSET Int, IsFiniteSet(S)
    PROVE  /\ \A k \in 1 .. Cardinality(S) : Nth(S, k) \in S
           /\ \A j, k \in 1 .. Cardinality(S) : j < k <=> Nth(S, j) < Nth(S, k)
           /\ \A x \in S : \E k \in 1 .. Cardinality(S) : Nth(S, k) = x
<1> DEFINE Rank(x) == Cardinality({z \in S : z < x})
<1>1. /\ \A x, y \in S : x < y <=> Rank(x) < Rank(y)
      /\ \A x \in S : Rank(x) \in 0 .. Cardinality(S) - 1
      /\ \A k \in 1 .. Cardinality(S) : \E x \in S : Rank(x) = k - 1
  BY Ranks, Zenon
<1>2. \A k : Nth(S, k) = CHOOSE x \in S : Rank(x) = k - 1
  BY Zenon DEF Nth
<1>3. Cardinality(S) \in Nat
  BY CountType, Zenon
<1> HIDE DEF Rank
<1>4. ASSUME NEW k \in 1 .. Cardinality(S) PROVE Nth(S, k) \in S /\ Rank(Nth(S, k)) = k - 1
  BY <1>1, <1>2, Zenon
<1>5. ASSUME NEW x \in S PROVE \E k \in 1 .. Cardinality(S) : Nth(S, k) = x
  <2> DEFINE k == Rank(x) + 1
  <2>1. k \in 1 .. Cardinality(S) /\ k - 1 = Rank(x)
    BY <1>1, <1>3
  <2>2. Nth(S, k) \in S /\ Rank(Nth(S, k)) = Rank(x)
    BY <1>4, <2>1, SMTT(30)
  <2> HIDE DEF k
  <2>3. Rank(x) \in Int /\ ~(Rank(x) < Rank(x))
    BY <1>1, <1>3, SMTT(30)
  <2>4. ~(x < Nth(S, k)) /\ ~(Nth(S, k) < x)
    BY <1>1, <2>2, <2>3, Zenon
  <2>5. x \in Int /\ Nth(S, k) \in Int
    BY <2>2, Zenon
  <2>6. Nth(S, k) = x
    BY <2>4, <2>5
  <2> QED
    BY <2>1, <2>6, Zenon
<1>6. ASSUME NEW j \in 1 .. Cardinality(S), NEW k \in 1 .. Cardinality(S)
      PROVE  j < k <=> Nth(S, j) < Nth(S, k)
  <2>1. Nth(S, j) \in S /\ Nth(S, k) \in S /\ Rank(Nth(S, j)) = j - 1 /\ Rank(Nth(S, k)) = k - 1
    BY <1>4, Zenon
  <2>2. Nth(S, j) < Nth(S, k) <=> Rank(Nth(S, j)) < Rank(Nth(S, k))
    BY <1>1, <2>1, Zenon
  <2> QED
    BY <1>3, <2>1, <2>2
<1> QED
  BY <1>4, <1>5, <1>6, Zenon

\* 1 .. n has n elements.
LEMMA UpTo ==
    ASSUME CountingLaws, NEW n \in Nat
    PROVE  IsFiniteSet(1 .. n) /\ Cardinality(1 .. n) = n
BY IntervalCount

\* A finite set of integers has a least one.
LEMMA FiniteHasLeast ==
    ASSUME CountingLaws, NEW T \in SUBSET Int, IsFiniteSet(T), T # {}
    PROVE  \E z \in T : \A t \in T : z <= t
<1> DEFINE n == Cardinality(T)
           z == Nth(T, 1)
<1>1. n \in Nat /\ n # 0
  BY CountType, EmptyCount, Zenon
<1>2. /\ \A k \in 1 .. n : Nth(T, k) \in T
      /\ \A k, j \in 1 .. n : k < j <=> Nth(T, k) < Nth(T, j)
      /\ \A x \in T : \E k \in 1 .. n : Nth(T, k) = x
  BY NthSorts, Zenon
<1>3. 1 \in 1 .. n
  BY <1>1
<1>4. ASSUME NEW t \in T PROVE z <= t
  <2>1. PICK k \in 1 .. n : Nth(T, k) = t
    BY <1>2, Zenon
  <2>2. k = 1 \/ 1 < k
    BY <1>1
  <2>3. z = t \/ z < t
    BY <1>2, <1>3, <2>1, <2>2, Zenon
  <2>4. z \in Int /\ t \in Int
    BY <1>2, <1>3, ZenonT(30)
  <2> HIDE DEF z
  <2> QED
    BY <2>3, <2>4
<1> QED
  BY <1>2, <1>3, <1>4, Zenon

\* An operation has two entries, its call and later its return.
LEMMA EntryPairs ==
    ASSUME NEW h, WellFormed(h), NEW id \in Ids(h)
    PROVE  /\ CallOf(h, id) \in DOMAIN h /\ ReturnOf(h, id) \in DOMAIN h
           /\ CallOf(h, id) < ReturnOf(h, id)
           /\ h[CallOf(h, id)].kind = "call" /\ h[ReturnOf(h, id)].kind = "return"
           /\ \A k \in DOMAIN h : h[k].id = id <=> k \in {CallOf(h, id), ReturnOf(h, id)}
<1>1. PICK c, r \in DOMAIN h :
         /\ c < r /\ h[c].kind = "call" /\ h[r].kind = "return"
         /\ \A k \in DOMAIN h : h[k].id = id <=> k \in {c, r}
  BY Zenon DEF WellFormed
<1>2. CallOf(h, id) = c
  <2>1. ASSUME NEW k \in DOMAIN h PROVE (h[k].id = id /\ h[k].kind = "call") <=> k = c
    BY <1>1, Zenon
  <2> QED
    BY <2>1, Zenon DEF CallOf
<1>3. ReturnOf(h, id) = r
  <2>1. ASSUME NEW k \in DOMAIN h PROVE (h[k].id = id /\ h[k].kind = "return") <=> k = r
    BY <1>1, Zenon
  <2> QED
    BY <2>1, Zenon DEF ReturnOf
<1> QED
  BY <1>1, <1>2, <1>3, Zenon

---------------------------------------------------------------------------------
(* From histories to entries *)

\* The times of calls and returns, two for each operation.
LEMMA EntryTimes ==
    ASSUME CountingLaws, NEW o, Timed(o)
    PROVE  LET T == UNION {{o[i].call, o[i].ret} : i \in DOMAIN o}
           IN  T \in SUBSET Int /\ IsFiniteSet(T) /\ Cardinality(T) = 2 * Len(o)
<1> DEFINE n == Len(o)
           T == UNION {{o[i].call, o[i].ret} : i \in DOMAIN o}
           f == [k \in 1 .. 2 * n |-> IF k <= n THEN o[k].call ELSE o[k - n].ret]
<1>1. n \in Nat /\ DOMAIN o = 1 .. n
  BY DEF Timed, IsSeq
<1>2. \A i \in 1 .. n : o[i].call \in Int /\ o[i].ret \in Int /\ o[i].call < o[i].ret
  BY <1>1, Zenon DEF Timed
<1>3. \A i, j \in 1 .. n : /\ o[i].call = o[j].call => i = j
                           /\ o[i].ret = o[j].ret => i = j
                           /\ o[i].call # o[j].ret
  BY <1>1, Zenon DEF Timed
<1>4. \A k \in 1 .. 2 * n : (k \in 1 .. n /\ k <= n) \/ (k - n \in 1 .. n /\ ~(k <= n))
  BY <1>1
<1>5. \A x \in T : \E i \in 1 .. n : x = o[i].call \/ x = o[i].ret
  BY <1>1, Zenon
<1>6. \A i \in 1 .. n : o[i].call \in T /\ o[i].ret \in T
  BY <1>1
<1>7. T \in SUBSET Int
  BY <1>2, <1>5, Zenon
<1> HIDE DEF T, n
<1>8. f \in [1 .. 2 * n -> T]
  BY <1>4, <1>6, Zenon
<1>9. \A k, l \in 1 .. 2 * n : f[k] = f[l] => k = l
  <2> SUFFICES ASSUME NEW k \in 1 .. 2 * n, NEW l \in 1 .. 2 * n, f[k] = f[l] PROVE k = l
    BY Zenon
  <2>1. CASE k <= n /\ l <= n
    <3>1. f[k] = o[k].call /\ f[l] = o[l].call /\ k \in 1 .. n /\ l \in 1 .. n
      BY <1>1, <2>1
    <3> QED
      BY <1>3, <3>1, Zenon
  <2>2. CASE k <= n /\ ~(l <= n)
    <3>1. f[k] = o[k].call /\ f[l] = o[l - n].ret /\ k \in 1 .. n /\ l - n \in 1 .. n
      BY <1>1, <2>2
    <3> QED
      BY <1>3, <3>1, Zenon
  <2>3. CASE ~(k <= n) /\ l <= n
    <3>1. f[k] = o[k - n].ret /\ f[l] = o[l].call /\ k - n \in 1 .. n /\ l \in 1 .. n
      BY <1>1, <2>3
    <3> QED
      BY <1>3, <3>1, Zenon
  <2>4. CASE ~(k <= n) /\ ~(l <= n)
    <3>1. f[k] = o[k - n].ret /\ f[l] = o[l - n].ret /\ k - n \in 1 .. n /\ l - n \in 1 .. n
      BY <1>1, <2>4
    <3>2. k - n = l - n
      BY <1>3, <3>1, Zenon
    <3> QED
      BY <1>1, <3>2
  <2> QED
    BY <2>1, <2>2, <2>3, <2>4, Zenon
<1>10. \A x \in T : \E k \in 1 .. 2 * n : f[k] = x
  <2> SUFFICES ASSUME NEW x \in T PROVE \E k \in 1 .. 2 * n : f[k] = x
    BY Zenon
  <2>1. PICK i \in 1 .. n : x = o[i].call \/ x = o[i].ret
    BY <1>5, Zenon
  <2>2. CASE x = o[i].call
    <3>1. i \in 1 .. 2 * n /\ f[i] = x
      BY <1>1, <2>2
    <3> QED
      BY <3>1, Zenon
  <2>3. CASE x = o[i].ret
    <3>1. i + n \in 1 .. 2 * n /\ ~(i + n <= n) /\ (i + n) - n = i
      BY <1>1
    <3>2. f[i + n] = x
      BY <2>3, <3>1, Zenon
    <3> QED
      BY <3>1, <3>2, Zenon
  <2> QED
    BY <2>1, <2>2, <2>3, Zenon
<1> HIDE DEF f
<1>11. f \in Bijection(1 .. 2 * n, T)
  BY <1>8, <1>9, <1>10, Zenon DEF Bijection, Injection, Surjection, IsInjective
<1>12. ExistsBijection(1 .. 2 * n, T) /\ 2 * n \in Nat
  BY <1>1, <1>11 DEF ExistsBijection
<1>13. IsFiniteSet(T) /\ Cardinality(T) = 2 * n
  BY <1>12, ListCount, Zenon
<1> QED
  BY <1>7, <1>13, Zenon DEF T, n

\* makeEntries sorts the entries by time, and they stand for the operations.
LEMMA EntriesStand ==
    ASSUME CountingLaws, NEW o, Timed(o)
    PROVE  LET h == makeEntries(o)
           IN  /\ Len(h) = 2 * Len(o)
               /\ Stands(h, o, DOMAIN o, [a \in Ids(h) |-> a + 1])
<1> DEFINE n == Len(o)
           T == UNION {{o[i].call, o[i].ret} : i \in DOMAIN o}
           Op(t) == CHOOSE i \in DOMAIN o : t \in {o[i].call, o[i].ret}
           Entry(t, i) ==
               IF t = o[i].call
               THEN [kind |-> "call", value |-> o[i].input, id |-> i - 1, time |-> t]
               ELSE [kind |-> "return", value |-> o[i].output, id |-> i - 1, time |-> t]
           TimeAt(k) == Nth(T, k)
           h == makeEntries(o)
<1>1. n \in Nat /\ DOMAIN o = 1 .. n
  BY DEF Timed, IsSeq
<1>2. h = [k \in 1 .. 2 * n |-> Entry(TimeAt(k), Op(TimeAt(k)))]
  BY Zenon DEF makeEntries
<1>3. T \in SUBSET Int /\ IsFiniteSet(T) /\ Cardinality(T) = 2 * n
  BY EntryTimes, Zenon
<1>4. \A x \in T : \E i \in 1 .. n : x = o[i].call \/ x = o[i].ret
  BY <1>1, Zenon
<1>5. \A i \in 1 .. n : o[i].call \in T /\ o[i].ret \in T
  BY <1>1
<1>6. \A i \in 1 .. n : o[i].call \in Int /\ o[i].ret \in Int /\ o[i].call < o[i].ret
  BY <1>1, Zenon DEF Timed
<1>7. \A i, j \in 1 .. n : /\ o[i].call = o[j].call => i = j
                           /\ o[i].ret = o[j].ret => i = j
                           /\ o[i].call # o[j].ret
  BY <1>1, Zenon DEF Timed
<1>8. ASSUME NEW i \in 1 .. n PROVE Op(o[i].call) = i /\ Op(o[i].ret) = i
  BY <1>1, <1>7, Zenon
<1> HIDE DEF T
<1>9. /\ \A k \in 1 .. 2 * n : TimeAt(k) \in T
      /\ \A j, k \in 1 .. 2 * n : j < k <=> TimeAt(j) < TimeAt(k)
      /\ \A x \in T : \E k \in 1 .. 2 * n : TimeAt(k) = x
  BY <1>3, NthSorts, Zenon
<1> HIDE DEF TimeAt, Op, h
<1>10. \A i \in 1 .. n : Entry(o[i].call, i).kind = "call" /\ Entry(o[i].call, i).id = i - 1
                         /\ Entry(o[i].call, i).value = o[i].input
  BY Zenon
<1>11. \A i \in 1 .. n : Entry(o[i].ret, i).kind = "return" /\ Entry(o[i].ret, i).id = i - 1
                         /\ Entry(o[i].ret, i).value = o[i].output
  BY <1>7, Zenon
<1>11a. \A t, i : Entry(t, i).time = t
  BY Zenon
<1> HIDE DEF Entry
<1>12. \A k \in 1 .. 2 * n : h[k] = Entry(TimeAt(k), Op(TimeAt(k)))
  BY <1>2, Zenon
<1>13. \A j, k \in 1 .. 2 * n : TimeAt(j) = TimeAt(k) => j = k
  <2> SUFFICES ASSUME NEW j \in 1 .. 2 * n, NEW k \in 1 .. 2 * n, TimeAt(j) = TimeAt(k), j # k PROVE FALSE
    BY Zenon
  <2>1. TimeAt(j) \in Int /\ (j < k \/ k < j)
    BY <1>1, <1>3, <1>9
  <2>2. TimeAt(j) < TimeAt(k) \/ TimeAt(k) < TimeAt(j)
    BY <1>9, <2>1, Zenon
  <2> QED
    BY <2>1, <2>2
<1>14. h \in Seq({Entry(TimeAt(k), Op(TimeAt(k))) : k \in 1 .. 2 * n}) /\ Len(h) = 2 * n /\ DOMAIN h = 1 .. 2 * n
  BY <1>1, <1>2
<1>15. IsSeq(h)
  BY <1>14, Zenon DEF IsSeq
<1>16. Len(h) \div 2 = n /\ Ids(h) = 0 .. n - 1
  <2> HIDE DEF n
  <2>1. (2 * n) \div 2 = n
    BY <1>1
  <2>2. Len(h) \div 2 = n
    BY <1>14, <2>1, Zenon
  <2> QED
    BY <2>2, Zenon DEF Ids
<1>17. ASSUME NEW i \in 1 .. n
       PROVE  \E c, r \in DOMAIN h :
                /\ TimeAt(c) = o[i].call /\ TimeAt(r) = o[i].ret /\ c < r
                /\ h[c].kind = "call" /\ h[r].kind = "return"
                /\ h[c].value = o[i].input /\ h[r].value = o[i].output
                /\ \A k \in DOMAIN h : h[k].id = i - 1 <=> k \in {c, r}
  <2>1. PICK c \in 1 .. 2 * n : TimeAt(c) = o[i].call
    BY <1>5, <1>9, Zenon
  <2>2. PICK r \in 1 .. 2 * n : TimeAt(r) = o[i].ret
    BY <1>5, <1>9, Zenon
  <2>3. c < r
    BY <1>6, <1>9, <2>1, <2>2
  <2>4. h[c] = Entry(o[i].call, i) /\ h[r] = Entry(o[i].ret, i)
    BY <1>8, <1>12, <2>1, <2>2, Zenon
  <2>5. ASSUME NEW k \in 1 .. 2 * n, h[k].id = i - 1 PROVE k \in {c, r}
    <3>1. PICK j \in 1 .. n : TimeAt(k) = o[j].call \/ TimeAt(k) = o[j].ret
      BY <1>4, <1>9, Zenon
    <3>2. Op(TimeAt(k)) = j
      BY <1>8, <3>1, Zenon
    <3>3. h[k].id = j - 1
      BY <1>10, <1>11, <1>12, <3>1, <3>2
    <3>4. i = j
      BY <1>1, <2>5, <3>3
    <3> QED
      BY <1>13, <2>1, <2>2, <3>1, <3>4, Zenon
  <2>6. /\ h[c].kind = "call" /\ h[r].kind = "return" /\ h[c].id = i - 1 /\ h[r].id = i - 1
        /\ h[c].value = o[i].input /\ h[r].value = o[i].output
    BY <1>10, <1>11, <2>4, Zenon
  <2>7. \A k \in DOMAIN h : h[k].id = i - 1 <=> k \in {c, r}
    BY <1>14, <2>5, <2>6, Zenon
  <2>8. c \in DOMAIN h /\ r \in DOMAIN h
    BY <1>14, Zenon
  <2> QED
    BY <2>1, <2>2, <2>3, <2>6, <2>7, <2>8, Zenon
<1>18. ASSUME NEW k \in DOMAIN h PROVE h[k].id \in Ids(h)
  <2>1. PICK j \in 1 .. n : TimeAt(k) = o[j].call \/ TimeAt(k) = o[j].ret
    BY <1>4, <1>9, <1>14, Zenon
  <2>2. h[k].id = j - 1
    BY <1>8, <1>10, <1>11, <1>12, <1>14, <2>1
  <2> QED
    BY <1>1, <1>16, <2>2
<1>19. \A a \in Ids(h) : a + 1 \in 1 .. n /\ (a + 1) - 1 = a
  BY <1>1, <1>16
<1>20. WellFormed(h)
  <2>1. Len(h) \in Nat /\ DOMAIN h = 1 .. Len(h) /\ Len(h) = 2 * (Len(h) \div 2)
    BY <1>1, <1>14, <1>16
  <2>2. ASSUME NEW a \in Ids(h)
        PROVE  \E c, r \in DOMAIN h :
                 /\ c < r /\ h[c].kind = "call" /\ h[r].kind = "return"
                 /\ \A k \in DOMAIN h : h[k].id = a <=> k \in {c, r}
    BY <1>17, <1>19
  <2> QED
    BY <1>15, <1>18, <2>1, <2>2, ZenonT(30) DEF WellFormed
<1>21. ASSUME NEW a \in Ids(h)
       PROVE  /\ TimeAt(CallOf(h, a)) = o[a + 1].call /\ TimeAt(ReturnOf(h, a)) = o[a + 1].ret
              /\ CallOf(h, a) \in DOMAIN h /\ ReturnOf(h, a) \in DOMAIN h
              /\ h[CallOf(h, a)].value = o[a + 1].input /\ h[ReturnOf(h, a)].value = o[a + 1].output
  <2>1. PICK c, r \in DOMAIN h :
                /\ TimeAt(c) = o[a + 1].call /\ TimeAt(r) = o[a + 1].ret /\ c < r
                /\ h[c].kind = "call" /\ h[r].kind = "return"
                /\ h[c].value = o[a + 1].input /\ h[r].value = o[a + 1].output
                /\ \A k \in DOMAIN h : h[k].id = a <=> k \in {c, r}
    BY <1>17, <1>19
  <2>2. /\ CallOf(h, a) \in DOMAIN h /\ ReturnOf(h, a) \in DOMAIN h
        /\ h[CallOf(h, a)].kind = "call" /\ h[ReturnOf(h, a)].kind = "return"
        /\ CallOf(h, a) \in {c, r} /\ ReturnOf(h, a) \in {c, r}
    BY <1>20, <2>1, EntryPairs
  <2>3. CallOf(h, a) = c /\ ReturnOf(h, a) = r
    BY <2>1, <2>2, Zenon
  <2> QED
    BY <2>1, <2>2, <2>3, Zenon
<1>22. ASSUME NEW a \in Ids(h), NEW b \in Ids(h)
       PROVE  ReturnOf(h, a) < CallOf(h, b) <=> o[a + 1].ret < o[b + 1].call
  BY <1>9, <1>14, <1>21, SMTT(20)
<1> DEFINE f == [a \in Ids(h) |-> a + 1]
<1>23. f \in [Ids(h) -> 1 .. n] /\ \A a \in Ids(h) : f[a] = a + 1
  BY <1>19, Zenon
<1>24. \A a, b \in Ids(h) : f[a] = f[b] => a = b
  BY <1>19, <1>23, Zenon
<1>25. \A i \in 1 .. n : \E a \in Ids(h) : f[a] = i
  <2> SUFFICES ASSUME NEW i \in 1 .. n PROVE \E a \in Ids(h) : f[a] = i
    BY Zenon
  <2>1. i - 1 \in Ids(h) /\ (i - 1) + 1 = i
    BY <1>1, <1>16
  <2> QED
    BY <1>23, <2>1, Zenon
<1> HIDE DEF f
<1>25a. Clocked(h)
  <2>1. ASSUME NEW k \in 1 .. 2 * n PROVE h[k].time = TimeAt(k) /\ TimeAt(k) \in Int
    <3>1. h[k] = Entry(TimeAt(k), Op(TimeAt(k)))
      BY <1>12, Zenon
    <3>2. Entry(TimeAt(k), Op(TimeAt(k))).time = TimeAt(k)
      BY <1>11a, Zenon
    <3> QED
      BY <1>3, <1>9, <3>1, <3>2, Zenon
  <2>2. ASSUME NEW a \in DOMAIN h, NEW b \in DOMAIN h
        PROVE  h[a].time \in Int /\ (a < b <=> h[a].time < h[b].time)
    <3>1. a \in 1 .. 2 * n /\ b \in 1 .. 2 * n
      BY <1>14, Zenon
    <3> QED
      BY <1>9, <2>1, <3>1
  <2> QED
    BY <2>2, Zenon DEF Clocked
<1>26. Stands(h, o, DOMAIN o, f)
  BY <1>1, <1>20, <1>25a, <1>21, <1>22, <1>23, <1>24, <1>25 DEF Stands
<1> QED
  BY <1>14, <1>26, Zenon DEF h, f

\* So they do for the operations of a partition.
LEMMA PartStands ==
    ASSUME CountingLaws, NEW o, Timed(o), NEW is \in SUBSET DOMAIN o
    PROVE  LET part == [j \in 1 .. Cardinality(is) |-> o[Nth(is, j)]]
           IN  \E f : Stands(makeEntries(part), o, is, f)
<1> DEFINE m == Cardinality(is)
           part == [j \in 1 .. m |-> o[Nth(is, j)]]
           h == makeEntries(part)
           g == [a \in Ids(h) |-> a + 1]
           f == [a \in Ids(h) |-> Nth(is, a + 1)]
<1>1. DOMAIN o = 1 .. Len(o) /\ Len(o) \in Nat
  BY DEF Timed, IsSeq
<1>2. is \in SUBSET Int /\ IsFiniteSet(is) /\ m \in Nat
  <2>1. IsFiniteSet(1 .. Len(o))
    BY <1>1, IntervalCount
  <2>2. IsFiniteSet(is)
    BY <1>1, <2>1, SubsetCount, Zenon
  <2> QED
    BY <1>1, <2>2, CountType
<1>3. /\ \A k \in 1 .. m : Nth(is, k) \in is
      /\ \A j, k \in 1 .. m : j < k <=> Nth(is, j) < Nth(is, k)
      /\ \A x \in is : \E k \in 1 .. m : Nth(is, k) = x
  BY <1>2, NthSorts, Zenon
<1> HIDE DEF m
<1>4. \A j, k \in 1 .. m : Nth(is, j) = Nth(is, k) => j = k
  <2> SUFFICES ASSUME NEW j \in 1 .. m, NEW k \in 1 .. m, Nth(is, j) = Nth(is, k), j # k PROVE FALSE
    BY Zenon
  <2>1. Nth(is, j) \in Int /\ (j < k \/ k < j)
    BY <1>2, <1>3
  <2>2. Nth(is, j) < Nth(is, k) \/ Nth(is, k) < Nth(is, j)
    BY <1>3, <2>1, Zenon
  <2> QED
    BY <2>1, <2>2
<1>5. part \in Seq({o[i] : i \in is}) /\ Len(part) = m /\ DOMAIN part = 1 .. m
  BY <1>2, <1>3
<1>6. \A j \in 1 .. m : part[j] = o[Nth(is, j)] /\ Nth(is, j) \in DOMAIN o
  BY <1>3, Zenon
<1> HIDE DEF part
<1>7. Timed(part)
  <2>1. IsSeq(part)
    BY <1>5, Zenon DEF IsSeq
  <2>2. \A i \in DOMAIN part : part[i].call \in Int /\ part[i].ret \in Int /\ part[i].call < part[i].ret
    BY <1>5, <1>6, Zenon DEF Timed
  <2>3. \A i, j \in DOMAIN part : /\ part[i].call = part[j].call => i = j
                                  /\ part[i].ret = part[j].ret => i = j
                                  /\ part[i].call # part[j].ret
    BY <1>4, <1>5, <1>6 DEF Timed
  <2> QED
    BY <2>1, <2>2, <2>3, Zenon DEF Timed
<1>8. Stands(h, part, 1 .. m, g)
  BY <1>5, <1>7, EntriesStand, Zenon
<1>9. /\ \A a \in Ids(h) : g[a] = a + 1 /\ a + 1 \in 1 .. m
      /\ \A i \in 1 .. m : \E a \in Ids(h) : a + 1 = i
  BY <1>8, Zenon DEF Stands
<1>10. \A a \in Ids(h) : f[a] = Nth(is, a + 1) /\ part[g[a]] = o[f[a]]
  BY <1>6, <1>9, Zenon
<1>11. f \in [Ids(h) -> is]
  BY <1>3, <1>9, Zenon
<1>12. \A a, b \in Ids(h) : f[a] = f[b] => a = b
  <2> SUFFICES ASSUME NEW a \in Ids(h), NEW b \in Ids(h), f[a] = f[b] PROVE a = b
    BY Zenon
  <2>1. a + 1 = b + 1
    BY <1>4, <1>9, <1>10, Zenon
  <2> QED
    BY <1>8, <1>9, <2>1, Zenon DEF Stands
<1>13. \A i \in is : \E a \in Ids(h) : f[a] = i
  <2> SUFFICES ASSUME NEW i \in is PROVE \E a \in Ids(h) : f[a] = i
    BY Zenon
  <2>1. PICK k \in 1 .. m : Nth(is, k) = i
    BY <1>3, Zenon
  <2>2. PICK a \in Ids(h) : a + 1 = k
    BY <1>9, Zenon
  <2> QED
    BY <1>10, <2>1, <2>2, Zenon
<1> HIDE DEF f, g, h
<1>14. Stands(h, o, is, f)
  BY <1>8, <1>10, <1>11, <1>12, <1>13, Zenon DEF Stands
<1> QED
  BY <1>14, Zenon DEF h, part, m

\* KvModel's Partition makes one partition of each key.
LEMMA PartitionDivides ==
    ASSUME CountingLaws, NEW o, Timed(o), \A i \in DOMAIN o : o[i].input.key \in Int
    PROVE  LET parts == KvPartition(o)
               hs == [p \in DOMAIN parts |-> makeEntries(parts[p])]
           IN  IsSeq(hs) /\ Divides(o, hs)
<1> DEFINE Keys == {o[i].input.key : i \in DOMAIN o}
           is(k) == {i \in DOMAIN o : o[i].input.key = k}
           Of(k) == [j \in 1 .. Cardinality(is(k)) |-> o[Nth(is(k), j)]]
           m == Cardinality(Keys)
           parts == KvPartition(o)
           hs == [p \in DOMAIN parts |-> makeEntries(parts[p])]
           key == [p \in 1 .. m |-> Nth(Keys, p)]
<1>1. parts = [p \in 1 .. m |-> Of(Nth(Keys, p))]
  BY Zenon DEF KvPartition
<1>2. Keys \in SUBSET Int /\ IsFiniteSet(Keys) /\ m \in Nat
  <2> DEFINE f == [i \in DOMAIN o |-> o[i].input.key]
  <2>1. f \in Surjection(DOMAIN o, Keys)
    BY Zenon DEF Surjection
  <2>2. IsFiniteSet(DOMAIN o)
    BY IntervalCount DEF Timed, IsSeq
  <2>3. IsFiniteSet(Keys)
    BY <2>1, <2>2, SurjectionCount, Zenon
  <2> QED
    BY <2>3, CountType, Zenon
<1>3. \A i \in DOMAIN o : o[i].input.key \in Keys
  BY Zenon
<1> HIDE DEF Keys
<1>4. /\ \A k \in 1 .. m : Nth(Keys, k) \in Keys
      /\ \A j, k \in 1 .. m : j < k <=> Nth(Keys, j) < Nth(Keys, k)
      /\ \A x \in Keys : \E k \in 1 .. m : Nth(Keys, k) = x
  BY <1>2, NthSorts, Zenon
<1> HIDE DEF m, parts
<1>5. \A j, k \in 1 .. m : key[j] = key[k] => j = k
  <2> SUFFICES ASSUME NEW j \in 1 .. m, NEW k \in 1 .. m, Nth(Keys, j) = Nth(Keys, k), j # k PROVE FALSE
    BY Zenon
  <2>1. Nth(Keys, j) \in Int /\ (j < k \/ k < j)
    BY <1>2, <1>4
  <2>2. Nth(Keys, j) < Nth(Keys, k) \/ Nth(Keys, k) < Nth(Keys, j)
    BY <1>4, <2>1, Zenon
  <2> QED
    BY <2>1, <2>2
<1>6. hs = [p \in 1 .. m |-> makeEntries(Of(Nth(Keys, p)))]
  BY <1>1, Zenon
<1>7. ASSUME NEW p \in 1 .. m PROVE \E f : Stands(hs[p], o, is(key[p]), f)
  <2> DEFINE k == Nth(Keys, p)
  <2>1. is(k) \in SUBSET DOMAIN o
    BY Zenon
  <2>2. \E f : Stands(makeEntries(Of(k)), o, is(k), f)
    <3> DEFINE I == is(k)
    <3> HIDE DEF I
    <3>1. \E f : Stands(makeEntries([j \in 1 .. Cardinality(I) |-> o[Nth(I, j)]]), o, I, f)
      BY <2>1, PartStands, Zenon DEF I
    <3> QED
      BY <3>1, Zenon DEF I
  <2>3. hs[p] = makeEntries(Of(k)) /\ key[p] = k
    BY <1>6, Zenon
  <2> HIDE DEF k, hs, Of, key, is
  <2> QED
    BY <2>2, <2>3, Zenon
<1>8. DOMAIN hs = 1 .. m /\ hs \in Seq({hs[p] : p \in 1 .. m})
  BY <1>2, <1>6
<1> HIDE DEF hs
<1>9. IsSeq(hs)
  BY <1>8, Zenon DEF IsSeq
<1>10. \A i \in DOMAIN o : \E p \in 1 .. m : key[p] = o[i].input.key
  BY <1>3, <1>4, Zenon
<1> HIDE DEF key
<1>11. Divides(o, hs)
  <2>1. \A p, q \in DOMAIN hs : key[p] = key[q] => p = q
    BY <1>5, <1>8, Zenon
  <2>2. \A i \in DOMAIN o : \E p \in DOMAIN hs : key[p] = o[i].input.key
    BY <1>8, <1>10, Zenon
  <2>3. \A p \in DOMAIN hs : \E f :
          Stands(hs[p], o, {i \in DOMAIN o : o[i].input.key = key[p]}, f)
    BY <1>7, <1>8, Zenon
  <2> QED
    BY <2>1, <2>2, <2>3, Zenon DEF Divides
<1> QED
  BY <1>9, <1>11, Zenon DEF hs, parts

\* Entries with other ids stand for the same operations.
LEMMA Renamed ==
    ASSUME NEW h, NEW o, NEW X, NEW g, Stands(h, o, X, g),
           NEW w \in [Ids(h) -> Ids(h)],
           \A a, b \in Ids(h) : w[a] = w[b] => a = b, \A b \in Ids(h) : \E a \in Ids(h) : w[a] = b,
           NEW h2, IsSeq(h2), Len(h2) = Len(h), Clocked(h2),
           \A k \in DOMAIN h : /\ h2[k].kind = h[k].kind /\ h2[k].value = h[k].value
                               /\ h2[k].id = w[h[k].id]
    PROVE  \E f : Stands(h2, o, X, f)
<1>1. WellFormed(h) /\ Len(h) \in Nat /\ DOMAIN h = 1 .. Len(h) /\ Len(h) = 2 * (Len(h) \div 2)
  BY Zenon DEF Stands, WellFormed
<1>2. DOMAIN h2 = DOMAIN h /\ Ids(h2) = Ids(h)
  BY <1>1 DEF IsSeq, Ids
<1>3. \A k \in DOMAIN h : h[k].id \in Ids(h)
  BY <1>1, Zenon DEF WellFormed
<1>4. ASSUME NEW a \in Ids(h)
      PROVE  /\ CallOf(h, a) \in DOMAIN h /\ ReturnOf(h, a) \in DOMAIN h
             /\ CallOf(h, a) < ReturnOf(h, a)
             /\ h2[CallOf(h, a)].kind = "call" /\ h2[ReturnOf(h, a)].kind = "return"
             /\ \A k \in DOMAIN h : h2[k].id = w[a] <=> k \in {CallOf(h, a), ReturnOf(h, a)}
  <2>1. /\ CallOf(h, a) \in DOMAIN h /\ ReturnOf(h, a) \in DOMAIN h
        /\ CallOf(h, a) < ReturnOf(h, a)
        /\ h[CallOf(h, a)].kind = "call" /\ h[ReturnOf(h, a)].kind = "return"
        /\ \A k \in DOMAIN h : h[k].id = a <=> k \in {CallOf(h, a), ReturnOf(h, a)}
    <3>1. WellFormed(h) /\ a \in Ids(h)
      BY <1>1, Zenon
    <3>2. \A k \in DOMAIN h : h[k].id = a <=> k \in {CallOf(h, a), ReturnOf(h, a)}
      BY <3>1, EntryPairs, Zenon
    <3>3. CallOf(h, a) \in DOMAIN h /\ ReturnOf(h, a) \in DOMAIN h
      BY <3>1, EntryPairs, Zenon
    <3>4. CallOf(h, a) < ReturnOf(h, a)
      BY <3>1, EntryPairs, Zenon
    <3>5. h[CallOf(h, a)].kind = "call"
      BY <3>1, EntryPairs
    <3>6. h[ReturnOf(h, a)].kind = "return"
      BY <3>1, EntryPairs
    <3> QED
      BY <3>2, <3>3, <3>4, <3>5, <3>6, Zenon
  <2>2. \A k \in DOMAIN h : h2[k].id = w[a] <=> h[k].id = a
    BY <1>3
  <2> QED
    BY <2>1, <2>2, Zenon
<1>5. WellFormed(h2)
  <2>1. \A k \in DOMAIN h2 : h2[k].id \in Ids(h2)
    BY <1>2, <1>3
  <2>2. ASSUME NEW b \in Ids(h2)
        PROVE  \E c, r \in DOMAIN h2 :
                 /\ c < r /\ h2[c].kind = "call" /\ h2[r].kind = "return"
                 /\ \A k \in DOMAIN h2 : h2[k].id = b <=> k \in {c, r}
    <3>1. PICK a \in Ids(h) : w[a] = b
      BY <1>2, Zenon
    <3> DEFINE c == CallOf(h, a)
               r == ReturnOf(h, a)
    <3>2. /\ c \in DOMAIN h /\ r \in DOMAIN h /\ c < r
          /\ h2[c].kind = "call" /\ h2[r].kind = "return"
          /\ \A k \in DOMAIN h : h2[k].id = b <=> k \in {c, r}
      BY <1>4, <3>1, Zenon
    <3> HIDE DEF c, r
    <3> QED
      BY <1>2, <3>2, Zenon
  <2> QED
    BY <1>1, <1>2, <2>1, <2>2, ZenonT(30) DEF WellFormed
<1>6. ASSUME NEW a \in Ids(h)
      PROVE  CallOf(h2, w[a]) = CallOf(h, a) /\ ReturnOf(h2, w[a]) = ReturnOf(h, a)
  <2>1. w[a] \in Ids(h2)
    BY <1>2, Zenon
  <2>2. /\ CallOf(h2, w[a]) \in DOMAIN h2 /\ ReturnOf(h2, w[a]) \in DOMAIN h2
        /\ h2[CallOf(h2, w[a])].kind = "call" /\ h2[ReturnOf(h2, w[a])].kind = "return"
        /\ h2[CallOf(h2, w[a])].id = w[a] /\ h2[ReturnOf(h2, w[a])].id = w[a]
    BY <1>5, <2>1, EntryPairs
  <2> QED
    BY <1>2, <1>4, <2>2, ZenonT(30)
<1> DEFINE v == [b \in Ids(h) |-> CHOOSE a \in Ids(h) : w[a] = b]
           f == [b \in Ids(h) |-> g[v[b]]]
<1>7. \A b \in Ids(h) : v[b] \in Ids(h) /\ w[v[b]] = b
  BY Zenon
<1>8. \A a \in Ids(h) : v[w[a]] = a
  BY <1>7, Zenon
<1>9. \A b \in Ids(h) : f[b] = g[v[b]]
  BY Zenon
<1> HIDE DEF v
<1>10. f \in [Ids(h) -> X]
  BY <1>7, Zenon DEF Stands
<1>11. \A a, b \in Ids(h) : f[a] = f[b] => a = b
  <2> SUFFICES ASSUME NEW a \in Ids(h), NEW b \in Ids(h), f[a] = f[b] PROVE a = b
    BY Zenon
  <2>1. v[a] = v[b]
    BY <1>7, <1>9 DEF Stands
  <2> QED
    BY <1>7, <2>1
<1>12. \A i \in X : \E b \in Ids(h) : f[b] = i
  <2> SUFFICES ASSUME NEW i \in X PROVE \E b \in Ids(h) : f[b] = i
    BY Zenon
  <2>1. PICK a \in Ids(h) : g[a] = i
    BY Zenon DEF Stands
  <2>2. f[w[a]] = i /\ w[a] \in Ids(h)
    BY <1>8, <1>9, <2>1, Zenon
  <2> QED
    BY <2>2, Zenon
<1> HIDE DEF f
<1>13. ASSUME NEW b \in Ids(h)
       PROVE  CallOf(h2, b) = CallOf(h, v[b]) /\ ReturnOf(h2, b) = ReturnOf(h, v[b])
  BY <1>6, <1>7, Zenon
<1>14. \A b \in Ids(h) : /\ h2[CallOf(h2, b)].value = o[f[b]].input
                         /\ h2[ReturnOf(h2, b)].value = o[f[b]].output
  <2> SUFFICES ASSUME NEW b \in Ids(h)
               PROVE  /\ h2[CallOf(h2, b)].value = o[f[b]].input
                      /\ h2[ReturnOf(h2, b)].value = o[f[b]].output
    BY Zenon
  <2>1. CallOf(h, v[b]) \in DOMAIN h /\ ReturnOf(h, v[b]) \in DOMAIN h
    BY <1>4, <1>7, Zenon
  <2>2. h[CallOf(h, v[b])].value = o[g[v[b]]].input /\ h[ReturnOf(h, v[b])].value = o[g[v[b]]].output
    BY <1>7, Zenon DEF Stands
  <2> QED
    BY <1>9, <1>13, <2>1, <2>2
<1>15. \A a, b \in Ids(h) : ReturnOf(h2, a) < CallOf(h2, b) <=> o[f[a]].ret < o[f[b]].call
  <2> SUFFICES ASSUME NEW a \in Ids(h), NEW b \in Ids(h)
               PROVE  ReturnOf(h2, a) < CallOf(h2, b) <=> o[f[a]].ret < o[f[b]].call
    BY Zenon
  <2>1. ReturnOf(h, v[a]) < CallOf(h, v[b]) <=> o[g[v[a]]].ret < o[g[v[b]]].call
    BY <1>7, Zenon DEF Stands
  <2> QED
    BY <1>9, <1>13, <2>1, Zenon
<1>16. Stands(h2, o, X, f)
  BY <1>2, <1>5, <1>10, <1>11, <1>12, <1>14, <1>15, Zenon DEF Stands
<1> QED
  BY <1>16, Zenon

\* renumber and convertEntries give events the entries of their operations.
LEMMA EventsStand ==
    ASSUME CountingLaws, NEW o, Timed(o)
    PROVE  \E f : Stands(convertEntries(renumber(Events(o))), o, DOMAIN o, f)
<1> DEFINE h == makeEntries(o)
           e == Events(o)
           r == renumber(e)
           h2 == convertEntries(r)
           g == [a \in Ids(h) |-> a + 1]
           m == Len(h)
           n == m \div 2
           Wide(a) == 7 * (a + 1)
           First(id) == Min({k \in DOMAIN e : e[k].id = id})
           New(id) == Cardinality({e[k].id : k \in 1 .. First(id) - 1})
           Before(a) == {e[k].id : k \in 1 .. CallOf(h, a) - 1}
           All == {Wide(b) : b \in Ids(h)}
           w == [a \in Ids(h) |-> Cardinality(Before(a))]
<1>1. Stands(h, o, DOMAIN o, g)
  BY EntriesStand, Zenon
<1> HIDE DEF h
<1>2. /\ WellFormed(h) /\ m \in Nat /\ DOMAIN h = 1 .. m /\ m = 2 * n /\ n \in Nat
      /\ Ids(h) = 0 .. n - 1 /\ Ids(h) \in SUBSET Int
  <2>1. WellFormed(h)
    BY <1>1, Zenon DEF Stands
  <2>2. Len(h) \in Nat /\ DOMAIN h = 1 .. Len(h) /\ Len(h) = 2 * (Len(h) \div 2)
    BY <2>1, Zenon DEF WellFormed
  <2>3. Len(h) \div 2 \in Nat
    BY <2>2
  <2>4. Ids(h) = 0 .. n - 1 /\ Ids(h) \in SUBSET Int
    BY <2>3 DEF Ids
  <2> QED
    BY <2>1, <2>2, <2>3, <2>4, ZenonT(30)
<1> HIDE DEF m, n
<1>3. DOMAIN e = 1 .. m /\ \A k \in 1 .. m : /\ e[k].kind = h[k].kind /\ e[k].value = h[k].value
                                             /\ e[k].id = Wide(h[k].id)
  BY <1>2, Zenon DEF Events, h, m
<1>4. DOMAIN r = 1 .. m /\ \A k \in 1 .. m : /\ r[k].kind = h[k].kind /\ r[k].value = h[k].value
                                             /\ r[k].id = New(e[k].id)
  <2>1. r = [k \in DOMAIN e |-> [e[k] EXCEPT !.id = New(@)]]
    BY Zenon DEF renumber
  <2>2. e = [k \in DOMAIN h |-> [kind |-> h[k].kind, value |-> h[k].value, id |-> Wide(h[k].id)]]
    BY Zenon DEF Events, h
  <2> HIDE DEF r, e, New, Wide
  <2>3. ASSUME NEW k \in 1 .. m
        PROVE  /\ r[k].kind = h[k].kind /\ r[k].value = h[k].value
               /\ r[k].id = New(e[k].id)
    <3>1. e[k] = [kind |-> h[k].kind, value |-> h[k].value, id |-> Wide(h[k].id)]
      BY <1>2, <2>2, Zenon
    <3>2. r[k] = [e[k] EXCEPT !.id = New(@)]
      BY <1>3, <2>1, Zenon
    <3> QED
      BY <3>1, <3>2
  <2> QED
    BY <1>3, <2>1, <2>3, Zenon
<1>5. h2 = [k \in 1 .. m |-> [kind |-> r[k].kind, value |-> r[k].value, id |-> r[k].id, time |-> k]]
  BY <1>4, Zenon DEF convertEntries
<1>6. IsSeq(h2) /\ Len(h2) = m
  <2>1. h2 \in Seq({h2[k] : k \in 1 .. m}) /\ Len(h2) = m
    BY <1>2, <1>5
  <2> QED
    BY <2>1, Zenon DEF IsSeq
<1>7. \A k \in 1 .. m : h2[k].kind = h[k].kind /\ h2[k].value = h[k].value /\ h2[k].id = New(Wide(h[k].id))
  <2> HIDE DEF New, Wide, e, r, h2
  <2>1. \A k \in 1 .. m : h2[k].kind = r[k].kind /\ h2[k].value = r[k].value /\ h2[k].id = r[k].id
    BY <1>5, Zenon
  <2>2. \A k \in 1 .. m : r[k].id = New(Wide(h[k].id))
    BY <1>3, <1>4, Zenon
  <2> QED
    BY <1>4, <2>1, <2>2, Zenon
<1>7a. Clocked(h2)
  <2>1. \A k \in 1 .. m : h2[k].time = k
    BY <1>5
  <2>2. DOMAIN h2 = 1 .. m
    BY <1>5, Zenon
  <2> HIDE DEF h2
  <2> QED
    BY <1>2, <2>1, <2>2 DEF Clocked
<1>8. \A a, b \in Ids(h) : Wide(a) = Wide(b) => a = b
  BY <1>2
<1> HIDE DEF e, r, h2
<1>9. ASSUME NEW a \in Ids(h)
      PROVE  CallOf(h, a) \in 1 .. m /\ First(Wide(a)) = CallOf(h, a)
  <2> DEFINE c == CallOf(h, a)
             S == {k \in DOMAIN e : e[k].id = Wide(a)}
  <2>1. /\ c \in DOMAIN h /\ ReturnOf(h, a) \in DOMAIN h /\ c < ReturnOf(h, a)
        /\ \A k \in DOMAIN h : h[k].id = a <=> k \in {c, ReturnOf(h, a)}
    BY <1>2, EntryPairs, Zenon
  <2>2. \A k \in 1 .. m : h[k].id \in Ids(h)
    BY <1>2, Zenon DEF WellFormed
  <2>3. S = {c, ReturnOf(h, a)}
    <3>1. \A k \in 1 .. m : e[k].id = Wide(a) <=> h[k].id = a
      BY <1>3, <1>8, <2>2, Zenon
    <3> QED
      BY <1>2, <1>3, <2>1, <3>1, Zenon
  <2> HIDE DEF c, S
  <2>4. c \in S /\ S \in SUBSET (1 .. m) /\ \A k \in S : c <= k
    BY <1>2, <2>1, <2>3
  <2>5. Min(S) = c
    <3>1. Min(S) \in S /\ \A k \in S : Min(S) <= k
      <4>1. S \in SUBSET Int /\ \A k \in S : 0 <= k
        BY <2>4
      <4> QED
        BY <2>4, <4>1, MinInt, Zenon
    <3> DEFINE z == Min(S)
    <3>2. z \in 1 .. m /\ c \in 1 .. m /\ z <= c /\ c <= z
      BY <2>4, <3>1, Zenon
    <3> HIDE DEF z
    <3>3. z = c
      BY <1>2, <3>2
    <3> QED
      BY <3>3, Zenon DEF z
  <2> QED
    BY <1>2, <2>1, <2>5, Zenon DEF c, S
<1>10. \A a \in Ids(h) : New(Wide(a)) = w[a]
  <2> SUFFICES ASSUME NEW a \in Ids(h) PROVE New(Wide(a)) = w[a]
    BY Zenon
  <2> QED
    BY <1>9, Zenon
<1>11. IsFiniteSet(All) /\ Cardinality(All) = n
  <2> DEFINE f == [a \in Ids(h) |-> Wide(a)]
  <2>1. f \in Bijection(Ids(h), All)
    BY <1>8, Zenon DEF Bijection, Injection, Surjection, IsInjective
  <2>2. IsFiniteSet(Ids(h)) /\ Cardinality(Ids(h)) = n
    BY <1>2, IntervalCount
  <2>3. ExistsBijection(Ids(h), All)
    BY <2>1, Zenon DEF ExistsBijection
  <2> QED
    BY <2>2, <2>3, BijectionCount, Zenon
<1>12. ASSUME NEW a \in Ids(h)
       PROVE  /\ Before(a) \in SUBSET All /\ Wide(a) \notin Before(a) /\ Wide(a) \in All
              /\ IsFiniteSet(Before(a)) /\ Cardinality(Before(a)) \in 0 .. n - 1
  <2>1. \A k \in 1 .. CallOf(h, a) - 1 : k \in 1 .. m /\ e[k].id = Wide(h[k].id) /\ h[k].id \in Ids(h) /\ h[k].id # a
    <3> SUFFICES ASSUME NEW k \in 1 .. CallOf(h, a) - 1
                 PROVE  k \in 1 .. m /\ e[k].id = Wide(h[k].id) /\ h[k].id \in Ids(h) /\ h[k].id # a
      BY Zenon
    <3>1. k \in 1 .. m /\ k < CallOf(h, a)
      <4>1. CallOf(h, a) \in 1 .. m
        BY <1>9, Zenon
      <4> QED
        BY <1>2, <4>1
    <3>2. k \in DOMAIN h /\ h[k].id \in Ids(h)
      BY <1>2, <3>1, Zenon DEF WellFormed
    <3>3. h[k].id # a
      <4>1. h[k].id = a => k \in {CallOf(h, a), ReturnOf(h, a)}
        BY <1>2, <3>2, EntryPairs, Zenon
      <4>2. CallOf(h, a) < ReturnOf(h, a) /\ CallOf(h, a) \in DOMAIN h /\ ReturnOf(h, a) \in DOMAIN h
        BY <1>2, EntryPairs, Zenon
      <4> QED
        BY <1>2, <3>1, <4>1, <4>2
    <3> QED
      BY <1>3, <3>1, <3>2, <3>3, Zenon
  <2>2. Before(a) \in SUBSET All /\ Wide(a) \notin Before(a)
    BY <1>8, <2>1, Zenon
  <2>3. Wide(a) \in All
    BY Zenon
  <2> DEFINE B == Before(a)
             x == Wide(a)
  <2> HIDE DEF B, x, All
  <2>4. B \in SUBSET All /\ x \notin B /\ x \in All
    BY <2>2, <2>3, Zenon DEF B, x
  <2>5. IsFiniteSet(B) /\ Cardinality(B) <= n /\ Cardinality(B) # n /\ Cardinality(B) \in Nat
    BY <1>11, <2>4, SubsetCount, CountType, Zenon
  <2> QED
    BY <1>2, <2>4, <2>5 DEF B, x
<1>13. ASSUME NEW a \in Ids(h), NEW b \in Ids(h), CallOf(h, a) < CallOf(h, b)
       PROVE  Cardinality(Before(a)) # Cardinality(Before(b))
  <2>1. CallOf(h, a) \in 1 .. CallOf(h, b) - 1 /\ 1 .. CallOf(h, a) - 1 \subseteq 1 .. CallOf(h, b) - 1
    <3>1. CallOf(h, a) \in 1 .. m /\ CallOf(h, b) \in 1 .. m
      BY <1>9, Zenon
    <3> QED
      BY <1>2, <1>13, <3>1
  <2>2. e[CallOf(h, a)].id = Wide(a)
    <3>1. CallOf(h, a) \in DOMAIN h /\ h[CallOf(h, a)].id = a
      BY <1>2, EntryPairs
    <3> QED
      BY <1>2, <1>3, <3>1, Zenon
  <2>3. Before(a) \in SUBSET Before(b) /\ Wide(a) \in Before(b)
    BY <2>1, <2>2, Zenon
  <2>4. Wide(a) \notin Before(a) /\ IsFiniteSet(Before(b))
    BY <1>12, Zenon
  <2> DEFINE A == Before(a)
             B == Before(b)
             x == Wide(a)
  <2>5. A \in SUBSET B /\ x \in B /\ x \notin A /\ IsFiniteSet(B)
    BY <2>3, <2>4, Zenon
  <2> HIDE DEF A, B, x
  <2>6. Cardinality(A) # Cardinality(B)
    BY <2>5, SubsetCount, Zenon
  <2> QED
    BY <2>6, Zenon DEF A, B
<1>14. w \in [Ids(h) -> Ids(h)]
  BY <1>2, <1>12, Zenon
<1>15. \A a, b \in Ids(h) : w[a] = w[b] => a = b
  <2> SUFFICES ASSUME NEW a \in Ids(h), NEW b \in Ids(h), a # b PROVE w[a] # w[b]
    BY Zenon
  <2>1. CallOf(h, a) # CallOf(h, b)
    <3>1. h[CallOf(h, a)].id = a /\ h[CallOf(h, b)].id = b
      BY <1>2, EntryPairs
    <3> QED
      BY <3>1, Zenon
  <2>2. CallOf(h, a) < CallOf(h, b) \/ CallOf(h, b) < CallOf(h, a)
    <3>1. CallOf(h, a) \in 1 .. m /\ CallOf(h, b) \in 1 .. m
      BY <1>9, Zenon
    <3> QED
      BY <1>2, <2>1, <3>1
  <2>3. Cardinality(Before(a)) # Cardinality(Before(b))
    BY <1>13, <2>2, Zenon
  <2> QED
    BY <2>3, Zenon
<1> HIDE DEF w
<1>16. \A b \in Ids(h) : \E a \in Ids(h) : w[a] = b
  <2>1. w \in Injection(Ids(h), Ids(h))
    BY <1>14, <1>15, Zenon DEF Injection, IsInjective
  <2>2. IsFiniteSet(Ids(h))
    BY <1>2, IntervalCount
  <2>3. w \in Surjection(Ids(h), Ids(h))
    BY <2>1, <2>2, InjectionCount, Zenon
  <2> QED
    BY <2>3, Zenon DEF Surjection
<1>17. \A k \in DOMAIN h : /\ h2[k].kind = h[k].kind /\ h2[k].value = h[k].value
                           /\ h2[k].id = w[h[k].id]
  BY <1>2, <1>7, <1>10, ZenonT(30) DEF WellFormed
<1> HIDE DEF g
<1>18. \E f : Stands(h2, o, DOMAIN o, f)
  BY <1>1, <1>6, <1>7a, <1>14, <1>15, <1>16, <1>17, Renamed DEF m
<1> QED
  BY <1>18, Zenon DEF h2, r, e

\* Events are one partition: those of one key.
LEMMA EventsDivide ==
    ASSUME CountingLaws, NEW o, Timed(o), \A i, j \in DOMAIN o : o[i].input.key = o[j].input.key
    PROVE  LET hs == <<convertEntries(renumber(Events(o)))>> IN IsSeq(hs) /\ Divides(o, hs)
<1> DEFINE h2 == convertEntries(renumber(Events(o)))
           hs == <<h2>>
<1>1. PICK f : Stands(h2, o, DOMAIN o, f)
  BY EventsStand, Zenon
<1> HIDE DEF h2
<1>2. DOMAIN hs = {1} /\ hs[1] = h2 /\ IsSeq(hs)
  <2>1. hs \in Seq({h2})
    OBVIOUS
  <2>2. IsSeq(hs)
    BY <2>1, Zenon DEF IsSeq
  <2>3. DOMAIN hs = {1} /\ hs[1] = h2
    OBVIOUS
  <2> QED
    BY <2>2, <2>3, Zenon
<1>3. PICK k : \A i \in DOMAIN o : o[i].input.key = k
  BY Zenon
<1> DEFINE key == [p \in {1} |-> k]
           X == {i \in DOMAIN o : o[i].input.key = key[1]}
<1>4. X = DOMAIN o
  BY <1>3, Zenon
<1>5. \A p \in {1} : \E g : Stands(hs[p], o, {i \in DOMAIN o : o[i].input.key = key[p]}, g)
  BY <1>1, <1>2, <1>4, Zenon
<1>6. \A i \in DOMAIN o : \E p \in {1} : key[p] = o[i].input.key
  BY <1>3, Zenon
<1>7. \A p, q \in {1} : key[p] = key[q] => p = q
  BY Zenon
<1> HIDE DEF hs, key
<1>8. IsSeq(hs) /\ Divides(o, hs)
  <2>1. Divides(o, hs)
    BY <1>2, <1>5, <1>6, <1>7, Zenon DEF Divides
  <2> QED
    BY <1>2, <2>1, Zenon
<1> QED
  BY <1>8, Zenon DEF hs, h2

\* The histories that are checked.
LEMMA TimedAtStart ==
    ASSUME CountingLaws, NEW n \in Nat, NEW l, NEW t \in Timings(n)
    PROVE  Timed([i \in 1 .. n |-> [input |-> l[i][1], output |-> l[i][2],
                                    call |-> t[i][1], ret |-> t[i][2]]])
<1> DEFINE o == [i \in 1 .. n |-> [input |-> l[i][1], output |-> l[i][2],
                                   call |-> t[i][1], ret |-> t[i][2]]]
           T == UNION {{t[i][1], t[i][2]} : i \in 1 .. n}
           A == 1 .. 2 * n
           f == [k \in A |-> IF k <= n THEN t[k][1] ELSE t[k - n][2]]
<1>1. \A i \in 1 .. n : /\ t[i][1] \in 1 .. 2 * n /\ t[i][2] \in 1 .. 2 * n /\ t[i][1] < t[i][2]
  BY Zenon DEF Timings
<1>2. Cardinality(T) = 2 * n
  BY Zenon DEF Timings
<1>3. \A i \in 1 .. n : i \in A /\ i + n \in A /\ f[i] = t[i][1] /\ f[i + n] = t[i][2]
  <2> SUFFICES ASSUME NEW i \in 1 .. n PROVE i \in A /\ i + n \in A /\ f[i] = t[i][1] /\ f[i + n] = t[i][2]
    BY Zenon
  <2>1. i \in A /\ i <= n /\ i + n \in A /\ ~(i + n <= n) /\ (i + n) - n = i
    OBVIOUS
  <2> QED
    BY <2>1, Zenon
<1>4. \A k \in A : f[k] \in T
  <2> SUFFICES ASSUME NEW k \in A PROVE f[k] \in T
    BY Zenon
  <2>1. CASE k <= n
    <3>1. k \in 1 .. n /\ f[k] = t[k][1]
      BY <2>1
    <3> QED
      BY <3>1
  <2>2. CASE ~(k <= n)
    <3>1. k - n \in 1 .. n /\ f[k] = t[k - n][2]
      BY <2>2
    <3> QED
      BY <3>1
  <2> QED
    BY <2>1, <2>2, Zenon
<1>5. \A x \in T : \E k \in A : f[k] = x
  <2> SUFFICES ASSUME NEW x \in T PROVE \E k \in A : f[k] = x
    BY Zenon
  <2>1. PICK i \in 1 .. n : x \in {t[i][1], t[i][2]}
    BY Zenon
  <2> HIDE DEF f, A
  <2> QED
    BY <1>3, <2>1, Zenon
<1>6. IsFiniteSet(A) /\ Cardinality(A) = 2 * n
  <2>1. 2 * n \in Nat
    OBVIOUS
  <2> QED
    BY <2>1, IntervalCount
<1>7. f \in Surjection(A, T)
  <2>1. f \in [A -> T]
    BY <1>4, Zenon
  <2> QED
    BY <1>5, <2>1, Zenon DEF Surjection
<1> HIDE DEF f, A, T
<1>8. f \in Injection(A, T)
  BY <1>2, <1>6, <1>7, SurjectionCount, Zenon
<1>9. \A k, m \in A : f[k] = f[m] => k = m
  BY <1>8, Zenon DEF Injection, IsInjective
<1>10. \A i, j \in 1 .. n : /\ t[i][1] = t[j][1] => i = j
                            /\ t[i][2] = t[j][2] => i = j
                            /\ t[i][1] # t[j][2]
  <2> SUFFICES ASSUME NEW i \in 1 .. n, NEW j \in 1 .. n
               PROVE  /\ t[i][1] = t[j][1] => i = j
                      /\ t[i][2] = t[j][2] => i = j
                      /\ t[i][1] # t[j][2]
    BY Zenon
  <2>1. /\ i \in A /\ i + n \in A /\ f[i] = t[i][1] /\ f[i + n] = t[i][2]
        /\ j \in A /\ j + n \in A /\ f[j] = t[j][1] /\ f[j + n] = t[j][2]
    BY <1>3, Zenon
  <2>2. (i + n = j + n => i = j) /\ i # j + n
    OBVIOUS
  <2> QED
    BY <1>9, <2>1, <2>2
<1>11. IsSeq(o) /\ DOMAIN o = 1 .. n
  <2>1. o \in Seq({o[i] : i \in 1 .. n})
    OBVIOUS
  <2> QED
    BY <2>1, Zenon DEF IsSeq
<1>12. \A i \in 1 .. n : o[i].call = t[i][1] /\ o[i].ret = t[i][2]
  BY Zenon
<1> HIDE DEF o
<1>13. Timed(o)
  <2>1. \A i \in 1 .. n : o[i].call \in Int /\ o[i].ret \in Int /\ o[i].call < o[i].ret
    BY <1>1, <1>12
  <2>2. \A i, j \in 1 .. n : /\ o[i].call = o[j].call => i = j
                             /\ o[i].ret = o[j].ret => i = j
                             /\ o[i].call # o[j].ret
    BY <1>10, <1>12
  <2> QED
    BY <1>11, <2>1, <2>2, Zenon DEF Timed
<1> QED
  BY <1>13, Zenon DEF o

---------------------------------------------------------------------------------
(* Orders of the operations of all keys *)

\* What an operation does to the value of its key, and to the store of all keys.
OpStep(i, st) == KvStep(st, ops[i].input, ops[i].output)
KeyOf(i) == ops[i].input.key
NoKeys == [k \in {in.key : in \in Input} |-> KvInit]
AfterOp(store, i) == [store EXCEPT ![KeyOf(i)] = OpStep(i, store[KeyOf(i)]).state]

\* The first m operations of an order are legal one after the other, with these stores.
Executes(m, order, stores) ==
    /\ stores[0] = NoKeys
    /\ \A x \in 1 .. m : /\ OpStep(order[x], stores[x - 1][KeyOf(order[x])]).ok
                         /\ stores[x] = AfterOp(stores[x - 1], order[x])

\* One step of LegalRun, and the whole of it.
Applied(acc, i) ==
    LET step == KvStep(acc.store[ops[i].input.key], ops[i].input, ops[i].output)
    IN  [ok |-> acc.ok /\ step.ok,
         store |-> [acc.store EXCEPT ![ops[i].input.key] = step.state]]

IsRun(order, n, run) ==
    run = [m \in 0 .. n |->
             IF m = 0 THEN [ok |-> TRUE, store |-> NoKeys] ELSE Applied(run[m - 1], order[m])]

\* LegalRun computes the stores one after the other.
LEMMA AppliedFields ==
    ASSUME NEW acc, NEW i
    PROVE  /\ Applied(acc, i).ok <=> acc.ok /\ OpStep(i, acc.store[KeyOf(i)]).ok
           /\ Applied(acc, i).store = AfterOp(acc.store, i)
<1> DEFINE step == KvStep(acc.store[ops[i].input.key], ops[i].input, ops[i].output)
           a == acc.ok /\ step.ok
           b == [acc.store EXCEPT ![ops[i].input.key] = step.state]
<1>1. Applied(acc, i) = [ok |-> a, store |-> b]
  BY Zenon DEF Applied
<1>2. step = OpStep(i, acc.store[KeyOf(i)])
  BY Zenon DEF OpStep, KeyOf
<1>4. b = AfterOp(acc.store, i)
  BY Zenon DEF AfterOp, OpStep, KeyOf
<1> HIDE DEF step
<1>3. a <=> acc.ok /\ OpStep(i, acc.store[KeyOf(i)]).ok
  BY <1>2, Zenon
<1> HIDE DEF a, b
<1>5. Applied(acc, i).ok = a /\ Applied(acc, i).store = b
  BY <1>1
<1> QED
  BY <1>3, <1>4, <1>5, Zenon

\* An order of operations has a run of the model.
LEMMA RunExists ==
    ASSUME CountingLaws, NEW order, NEW n \in Nat
    PROVE  \E run : IsRun(order, n, run)
<1> DEFINE S == {m \in Nat : \E run : IsRun(order, m, run)}
<1>1. 0 \in S
  <2> DEFINE run == [m \in 0 .. 0 |-> [ok |-> TRUE, store |-> NoKeys]]
  <2>1. IsRun(order, 0, run)
    BY DEF IsRun
  <2> QED
    BY <2>1, Zenon
<1>2. ASSUME NEW m \in S PROVE m + 1 \in S
  <2>1. PICK f : IsRun(order, m, f)
    BY <1>2, Zenon
  <2> DEFINE run == [k \in 0 .. m + 1 |-> IF k = m + 1 THEN Applied(f[m], order[m + 1]) ELSE f[k]]
             rhs == [k \in 0 .. m + 1 |->
                       IF k = 0 THEN [ok |-> TRUE, store |-> NoKeys] ELSE Applied(run[k - 1], order[k])]
  <2>2. ASSUME NEW k \in 0 .. m + 1 PROVE run[k] = rhs[k]
    <3>1. CASE k = m + 1
      <4>1. k # 0 /\ k - 1 = m /\ m \in 0 .. m + 1 /\ m # m + 1
        BY <3>1
      <4>2. run[m] = f[m]
        BY <4>1, Zenon
      <4> QED
        BY <3>1, <4>1, <4>2, Zenon
    <3>2. CASE k # m + 1
      <4>1. k \in 0 .. m /\ run[k] = f[k]
        BY <3>2
      <4>2. f[k] = IF k = 0 THEN [ok |-> TRUE, store |-> NoKeys] ELSE Applied(f[k - 1], order[k])
        BY <2>1, <4>1, Zenon DEF IsRun
      <4>3. k # 0 => run[k - 1] = f[k - 1]
        <5>1. k # 0 => k - 1 \in 0 .. m + 1 /\ k - 1 # m + 1
          BY <4>1
        <5> QED
          BY <5>1, Zenon
      <4> HIDE DEF run
      <4> QED
        BY <4>1, <4>2, <4>3, Zenon
    <3> QED
      BY <3>1, <3>2, Zenon
  <2>3. run = rhs
    BY <2>2, Zenon
  <2> HIDE DEF run
  <2>4. IsRun(order, m + 1, run)
    BY <2>3, Zenon DEF IsRun
  <2>5. m + 1 \in Nat
    OBVIOUS
  <2> QED
    BY <2>4, <2>5, Zenon
<1> HIDE DEF S
<1>3. S \in SUBSET Nat
  BY Zenon DEF S
<1>4. S = Nat
  BY <1>1, <1>2, <1>3, NatInd, Zenon
<1> QED
  BY <1>4, Zenon DEF S

\* LegalRun is what the last element of a run says.
LEMMA LegalRunIsRun ==
    ASSUME CountingLaws, NEW order, Len(order) \in Nat
    PROVE  \E run : IsRun(order, Len(order), run) /\ (LegalRun(ops, order) <=> run[Len(order)].ok)
<1> DEFINE Rec(f) == [m \in 0 .. Len(order) |->
                        IF m = 0 THEN [ok |-> TRUE, store |-> NoKeys] ELSE Applied(f[m - 1], order[m])]
           run == CHOOSE f : f = Rec(f)
<1>1. IsRun(order, Len(order), run)
  <2>1. \E f : IsRun(order, Len(order), f)
    BY RunExists, Zenon
  <2>2. \E f : f = Rec(f)
    BY <2>1, Zenon DEF IsRun
  <2> HIDE DEF Rec
  <2>3. run = Rec(run)
    BY <2>2, Zenon
  <2> HIDE DEF run
  <2> QED
    BY <2>3, Zenon DEF IsRun, Rec
<1>2. LegalRun(ops, order) <=> run[Len(order)].ok
  BY Zenon DEF LegalRun, Applied, NoKeys
<1> HIDE DEF run
<1> QED
  BY <1>1, <1>2, Zenon

\* An order of operations is legal if and only if there are stores for it.
LEMMA ExecutesIsLegal ==
    ASSUME CountingLaws, NEW order, Len(order) \in Nat, NEW stores, Executes(Len(order), order, stores)
    PROVE  LegalRun(ops, order)
<1> DEFINE n == Len(order)
<1>1. PICK run : IsRun(order, n, run) /\ (LegalRun(ops, order) <=> run[n].ok)
  BY LegalRunIsRun, Zenon
<1>2. /\ stores[0] = NoKeys
      /\ \A x \in 1 .. n : /\ OpStep(order[x], stores[x - 1][KeyOf(order[x])]).ok
                           /\ stores[x] = AfterOp(stores[x - 1], order[x])
  BY Zenon DEF Executes
<1>4. n \in Nat
  BY Zenon
<1> HIDE DEF n
<1> DEFINE S == {k \in Nat : k <= n => run[k].ok /\ run[k].store = stores[k]}
<1>5. 0 \in S
  <2>1. run[0] = [ok |-> TRUE, store |-> NoKeys]
    BY <1>1, <1>4 DEF IsRun
  <2> QED
    BY <1>2, <2>1
<1>6. ASSUME NEW k \in S PROVE k + 1 \in S
  <2>1. CASE k + 1 <= n
    <3>1. k \in Nat /\ k <= n /\ k + 1 \in 1 .. n /\ k + 1 \in 0 .. n /\ (k + 1) - 1 = k /\ k + 1 # 0
      BY <1>4, <2>1
    <3>2. run[k].ok /\ run[k].store = stores[k]
      BY <3>1, Zenon
    <3>3. run[k + 1] = Applied(run[k], order[k + 1])
      BY <1>1, <3>1, ZenonT(30) DEF IsRun
    <3>4. /\ OpStep(order[k + 1], stores[k][KeyOf(order[k + 1])]).ok
          /\ stores[k + 1] = AfterOp(stores[k], order[k + 1])
      BY <1>2, <3>1, Zenon
    <3>5. run[k + 1].ok /\ run[k + 1].store = stores[k + 1]
      BY <3>2, <3>3, <3>4, AppliedFields
    <3> QED
      BY <3>1, <3>5
  <2> QED
    BY <1>4, <2>1
<1> HIDE DEF S
<1>7. S \in SUBSET Nat
  BY Zenon DEF S
<1>8. S = Nat
  BY <1>5, <1>6, <1>7, NatInd, Zenon
<1>9. n \in S
  BY <1>4, <1>8, Zenon
<1> QED
  BY <1>1, <1>4, <1>9 DEF S

\* A legal order can be executed.
LEMMA LegalExecutes ==
    ASSUME CountingLaws, NEW order, Len(order) \in Nat, LegalRun(ops, order)
    PROVE  \E stores : Executes(Len(order), order, stores)
<1> DEFINE n == Len(order)
<1>1. PICK run : IsRun(order, n, run) /\ (LegalRun(ops, order) <=> run[n].ok)
  BY LegalRunIsRun, Zenon
<1>4. n \in Nat
  BY Zenon
<1> HIDE DEF n
<1> DEFINE stores == [k \in 0 .. n |-> run[k].store]
           S == {k \in Nat : k <= n => run[n - k].ok}
<1>5. ASSUME NEW k \in 1 .. n
      PROVE  /\ run[k].ok => run[k - 1].ok /\ OpStep(order[k], run[k - 1].store[KeyOf(order[k])]).ok
             /\ run[k].store = AfterOp(run[k - 1].store, order[k])
  <2>1. k \in 0 .. n /\ k # 0
    BY <1>4
  <2>2. run[k] = Applied(run[k - 1], order[k])
    BY <1>1, <2>1, Zenon DEF IsRun
  <2> QED
    BY <2>2, AppliedFields
<1>6. 0 \in S
  <2>1. n - 0 = n
    BY <1>4
  <2> QED
    BY <1>1, <2>1, Zenon
<1>7. ASSUME NEW k \in S PROVE k + 1 \in S
  <2>1. CASE k + 1 <= n
    <3>1. k \in Nat /\ k <= n /\ n - k \in 1 .. n /\ (n - k) - 1 = n - (k + 1)
      BY <1>4, <2>1
    <3>2. run[n - k].ok
      BY <3>1, Zenon
    <3>3. run[n - (k + 1)].ok
      BY <1>5, <3>1, <3>2, Zenon
    <3> QED
      BY <3>1, <3>3
  <2> QED
    BY <1>4, <2>1
<1> HIDE DEF S
<1>8. S = Nat
  <2>1. S \in SUBSET Nat
    BY Zenon DEF S
  <2> QED
    BY <1>6, <1>7, <2>1, NatInd, Zenon
<1>9. \A i \in 0 .. n : run[i].ok
  <2> SUFFICES ASSUME NEW i \in 0 .. n PROVE run[i].ok
    BY Zenon
  <2>1. n - i \in Nat /\ n - i <= n /\ n - (n - i) = i
    BY <1>4
  <2>2. n - i \in S
    BY <1>8, <2>1, Zenon
  <2>3. run[n - (n - i)].ok
    BY <2>1, <2>2, Zenon DEF S
  <2> QED
    BY <2>1, <2>3, Zenon
<1>10. stores[0] = NoKeys
  <2>1. run[0] = [ok |-> TRUE, store |-> NoKeys] /\ 0 \in 0 .. n
    BY <1>1, <1>4 DEF IsRun
  <2> QED
    BY <2>1
<1>11. ASSUME NEW i \in 1 .. n
       PROVE  /\ OpStep(order[i], stores[i - 1][KeyOf(order[i])]).ok
              /\ stores[i] = AfterOp(stores[i - 1], order[i])
  <2>1. i \in 0 .. n /\ i - 1 \in 0 .. n
    BY <1>4
  <2>2. stores[i] = run[i].store /\ stores[i - 1] = run[i - 1].store
    BY <2>1, Zenon
  <2> HIDE DEF stores
  <2> QED
    BY <1>5, <1>9, <2>1, <2>2, Zenon
<1> HIDE DEF stores
<1>12. Executes(n, order, stores)
  BY <1>10, <1>11, Zenon DEF Executes
<1> QED
  BY <1>12, Zenon DEF n

---------------------------------------------------------------------------------
(* Orders of the operations of one key *)

\* n different operations g of X are legal one after the other, from the initial value on
\* and with the values sg, and none of X that returned before one of them was called is missing
\* before it.
Line(X, n, g, sg) ==
    /\ g \in [1 .. n -> X]
    /\ \A i, j \in 1 .. n : g[i] = g[j] => i = j
    /\ \A i \in 1 .. n, j \in X : ops[j].ret < ops[g[i]].call => \E k \in 1 .. i - 1 : g[k] = j
    /\ sg[0] = KvInit
    /\ \A i \in 1 .. n : OpStep(g[i], sg[i - 1]).ok /\ sg[i] = OpStep(g[i], sg[i - 1]).state

Covers(X, n, g) == \A x \in X : \E i \in 1 .. n : g[i] = x

\* X has a linearization.
HasLine(X) == \E n \in Nat : \E g, sg : Line(X, n, g, sg) /\ Covers(X, n, g)

\* Entries do to a state what their operations do.
LEMMA SameStep ==
    ASSUME NEW h, NEW X, NEW f, Stands(h, ops, X, f), NEW id \in Ids(h), NEW st
    PROVE  Step(h, st, id) = OpStep(f[id], st)
BY Zenon DEF Stands, Step, OpStep

\* A linearization of entries is one of their operations,
LEMMA LinearizedHasLine ==
    ASSUME CountingLaws, NEW h, NEW X, NEW f, Stands(h, ops, X, f), Linearized(h)
    PROVE  HasLine(X)
<1> DEFINE n == Len(h) \div 2
<1>1. PICK q, sg : GoesOn(h, {}, KvInit, n, q, sg)
  BY Zenon DEF Linearized
<1>2. WellFormed(h)
  BY Zenon DEF Stands
<1>3. n \in Nat
  BY <1>2 DEF WellFormed
<1>4. Ids(h) = 0 .. n - 1
  BY Zenon DEF Ids
<1> HIDE DEF n
<1>5. /\ q \in [1 .. n -> Ids(h)]
      /\ \A i, j \in 1 .. n : q[i] = q[j] => i = j
      /\ \A i \in 1 .. n, id \in Ids(h) :
           ReturnOf(h, id) < CallOf(h, q[i]) => \E j \in 1 .. i - 1 : q[j] = id
      /\ sg[0] = KvInit
      /\ \A i \in 1 .. n : Step(h, sg[i - 1], q[i]).ok /\ sg[i] = Step(h, sg[i - 1], q[i]).state
  BY <1>1, Zenon DEF GoesOn
<1>6. \A id \in Ids(h) : \E i \in 1 .. n : q[i] = id
  <2>1. IsFiniteSet(1 .. n) /\ Cardinality(1 .. n) = n
    BY <1>3, IntervalCount
  <2>2. IsFiniteSet(Ids(h)) /\ Cardinality(Ids(h)) = n
    BY <1>3, <1>4, IntervalCount
  <2>3. q \in Injection(1 .. n, Ids(h))
    BY <1>5, Zenon DEF Injection, IsInjective
  <2>4. q \in Surjection(1 .. n, Ids(h))
    BY <2>1, <2>2, <2>3, InjectionCount, Zenon
  <2> QED
    BY <2>4, Zenon DEF Surjection
<1>7. /\ f \in [Ids(h) -> X]
      /\ \A a, b \in Ids(h) : f[a] = f[b] => a = b
      /\ \A i \in X : \E a \in Ids(h) : f[a] = i
      /\ \A a, b \in Ids(h) : ReturnOf(h, a) < CallOf(h, b) <=> ops[f[a]].ret < ops[f[b]].call
  BY Zenon DEF Stands
<1> DEFINE g == [i \in 1 .. n |-> f[q[i]]]
<1>8. \A i \in 1 .. n : q[i] \in Ids(h) /\ g[i] = f[q[i]]
  BY <1>5, Zenon
<1>9. g \in [1 .. n -> X]
  BY <1>5, <1>7, Zenon
<1> HIDE DEF g
<1>10. \A i, j \in 1 .. n : g[i] = g[j] => i = j
  BY <1>5, <1>7, <1>8
<1>11. ASSUME NEW i \in 1 .. n, NEW j \in X, ops[j].ret < ops[g[i]].call
       PROVE  \E k \in 1 .. i - 1 : g[k] = j
  <2>1. PICK a \in Ids(h) : f[a] = j
    BY <1>7, Zenon
  <2>2. ReturnOf(h, a) < CallOf(h, q[i])
    BY <1>7, <1>8, <1>11, <2>1, Zenon
  <2>3. PICK k \in 1 .. i - 1 : q[k] = a
    BY <1>5, <2>2, Zenon
  <2>4. k \in 1 .. n
    BY <1>3
  <2> QED
    BY <1>8, <2>1, <2>3, <2>4, Zenon
<1>12. \A i \in 1 .. n : OpStep(g[i], sg[i - 1]).ok /\ sg[i] = OpStep(g[i], sg[i - 1]).state
  BY <1>5, <1>8, SameStep
<1>13. Covers(X, n, g)
  BY <1>6, <1>7, <1>8 DEF Covers
<1>14. Line(X, n, g, sg)
  BY <1>5, <1>9, <1>10, <1>11, <1>12, Zenon DEF Line
<1> QED
  BY <1>3, <1>13, <1>14, Zenon DEF HasLine

\* and the other way round.
LEMMA LineIsNotRefuted ==
    ASSUME NEW h, NEW X, NEW f, Stands(h, ops, X, f), HasLine(X)
    PROVE  ~Refuted(h)
<1>1. PICK n \in Nat : \E g, sg : Line(X, n, g, sg) /\ Covers(X, n, g)
  BY Zenon DEF HasLine
<1>2. PICK g, sg : Line(X, n, g, sg) /\ Covers(X, n, g)
  BY <1>1, Zenon
<1>3. /\ g \in [1 .. n -> X]
      /\ \A i, j \in 1 .. n : g[i] = g[j] => i = j
      /\ \A i \in 1 .. n, j \in X : ops[j].ret < ops[g[i]].call => \E k \in 1 .. i - 1 : g[k] = j
      /\ sg[0] = KvInit
      /\ \A i \in 1 .. n : OpStep(g[i], sg[i - 1]).ok /\ sg[i] = OpStep(g[i], sg[i - 1]).state
      /\ \A x \in X : \E i \in 1 .. n : g[i] = x
  BY <1>2, Zenon DEF Line, Covers
<1>4. /\ f \in [Ids(h) -> X]
      /\ \A a, b \in Ids(h) : f[a] = f[b] => a = b
      /\ \A i \in X : \E a \in Ids(h) : f[a] = i
      /\ \A a, b \in Ids(h) : ReturnOf(h, a) < CallOf(h, b) <=> ops[f[a]].ret < ops[f[b]].call
  BY Zenon DEF Stands
<1> DEFINE q == [i \in 1 .. n |-> CHOOSE a \in Ids(h) : f[a] = g[i]]
<1>5. \A i \in 1 .. n : q[i] \in Ids(h) /\ f[q[i]] = g[i]
  BY <1>3, <1>4, Zenon
<1>6. q \in [1 .. n -> Ids(h) \ {}]
  BY <1>5, Zenon
<1> HIDE DEF q
<1>7. ASSUME NEW i \in 1 .. n, NEW j \in 1 .. n, q[i] = q[j] PROVE i = j
  <2>1. f[q[i]] = g[i] /\ f[q[j]] = g[j]
    BY <1>5, Zenon
  <2>2. g[i] = g[j]
    BY <1>7, <2>1, Zenon
  <2> QED
    BY <1>3, <2>2, Zenon
<1>8. ASSUME NEW i \in 1 .. n, NEW id \in Ids(h), ReturnOf(h, id) < CallOf(h, q[i])
      PROVE  id \in {} \/ \E k \in 1 .. i - 1 : q[k] = id
  <2>1. ops[f[id]].ret < ops[g[i]].call /\ f[id] \in X
    BY <1>4, <1>5, <1>8
  <2>2. PICK k \in 1 .. i - 1 : g[k] = f[id]
    BY <1>3, <2>1, Zenon
  <2>3. k \in 1 .. n
    OBVIOUS
  <2> QED
    BY <1>4, <1>5, <2>2, <2>3, Zenon
<1>9. \A i \in 1 .. n : Step(h, sg[i - 1], q[i]).ok /\ sg[i] = Step(h, sg[i - 1], q[i]).state
  <2> SUFFICES ASSUME NEW i \in 1 .. n
               PROVE  Step(h, sg[i - 1], q[i]).ok /\ sg[i] = Step(h, sg[i - 1], q[i]).state
    BY Zenon
  <2>1. q[i] \in Ids(h) /\ f[q[i]] = g[i]
    BY <1>5, Zenon
  <2>2. Step(h, sg[i - 1], q[i]) = OpStep(f[q[i]], sg[i - 1])
    BY <2>1, SameStep
  <2> QED
    BY <1>3, <2>1, <2>2
<1>10. GoesOn(h, {}, KvInit, n, q, sg)
  BY <1>3, <1>6, <1>7, <1>8, <1>9, ZenonT(30) DEF GoesOn
<1>11. \A id \in Ids(h) : \E i \in 1 .. n : q[i] = id
  <2> SUFFICES ASSUME NEW id \in Ids(h) PROVE \E i \in 1 .. n : q[i] = id
    BY Zenon
  <2>1. PICK i \in 1 .. n : g[i] = f[id]
    BY <1>3, <1>4, Zenon
  <2> QED
    BY <1>4, <1>5, <2>1, Zenon
<1> QED
  BY <1>10, <1>11, Zenon DEF Refuted

\* The operation i continues a line.
Continues(X, c, g, sg, i) ==
    \E g2, sg2 : /\ Line(X, c + 1, g2, sg2)
                 /\ \A k \in 1 .. c : g2[k] = g[k]
                 /\ g2[c + 1] = i /\ sg2[c + 1] = OpStep(i, sg[c]).state

\* An operation that may come next, and is legal there, continues a linearization.
LEMMA LineGrows ==
    ASSUME NEW X, NEW c \in Nat, NEW g, NEW sg, Line(X, c, g, sg), NEW i \in X,
           \A k \in 1 .. c : g[k] # i,
           \A j \in X : ops[j].ret < ops[i].call => \E k \in 1 .. c : g[k] = j,
           OpStep(i, sg[c]).ok
    PROVE  Continues(X, c, g, sg, i)
<1> DEFINE g2 == [k \in 1 .. c + 1 |-> IF k = c + 1 THEN i ELSE g[k]]
           sg2 == [k \in 0 .. c + 1 |-> IF k = c + 1 THEN OpStep(i, sg[c]).state ELSE sg[k]]
<1>1. /\ \A k \in 1 .. c : k # c + 1 /\ k \in 1 .. c + 1 /\ g2[k] = g[k]
      /\ g2[c + 1] = i
  OBVIOUS
<1>2. /\ \A k \in 0 .. c : sg2[k] = sg[k]
      /\ sg2[c + 1] = OpStep(i, sg[c]).state
  OBVIOUS
<1>3. /\ g \in [1 .. c -> X]
      /\ \A a, b \in 1 .. c : g[a] = g[b] => a = b
      /\ \A a \in 1 .. c, j \in X : ops[j].ret < ops[g[a]].call => \E k \in 1 .. a - 1 : g[k] = j
      /\ sg[0] = KvInit
      /\ \A a \in 1 .. c : OpStep(g[a], sg[a - 1]).ok /\ sg[a] = OpStep(g[a], sg[a - 1]).state
  BY Zenon DEF Line
<1>4. g2 \in [1 .. c + 1 -> X]
  <2> SUFFICES ASSUME NEW k \in 1 .. c + 1 PROVE g2[k] \in X
    BY Zenon
  <2>1. k \in 1 .. c \/ k = c + 1
    OBVIOUS
  <2> HIDE DEF g2
  <2> QED
    BY <1>1, <1>3, <2>1
<1> HIDE DEF g2, sg2
<1>5. \A a \in 1 .. c + 1 : a \in 1 .. c \/ a = c + 1
  OBVIOUS
<1>6. \A a, b \in 1 .. c + 1 : g2[a] = g2[b] => a = b
  BY <1>1, <1>3, <1>5
<1>7. ASSUME NEW a \in 1 .. c + 1, NEW j \in X, ops[j].ret < ops[g2[a]].call
      PROVE  \E k \in 1 .. a - 1 : g2[k] = j
  <2>1. CASE a \in 1 .. c
    <3>1. PICK k \in 1 .. a - 1 : g[k] = j
      BY <1>1, <1>3, <1>7, <2>1, ZenonT(30)
    <3>2. k \in 1 .. c
      BY <2>1
    <3> QED
      BY <1>1, <3>1, <3>2, Zenon
  <2>2. CASE a = c + 1
    <3>1. PICK k \in 1 .. c : g[k] = j
      BY <1>1, <1>7, <2>2, Zenon
    <3>2. k \in 1 .. a - 1
      BY <2>2
    <3> QED
      BY <1>1, <3>1, <3>2, Zenon
  <2> QED
    BY <1>5, <2>1, <2>2, Zenon
<1>8. ASSUME NEW a \in 1 .. c + 1
      PROVE  OpStep(g2[a], sg2[a - 1]).ok /\ sg2[a] = OpStep(g2[a], sg2[a - 1]).state
  <2>1. CASE a \in 1 .. c
    <3>1. a \in 0 .. c /\ a - 1 \in 0 .. c
      BY <2>1
    <3> QED
      BY <1>1, <1>2, <1>3, <2>1, <3>1, Zenon
  <2>2. CASE a = c + 1
    <3>1. a - 1 = c /\ c \in 0 .. c
      BY <2>2
    <3> QED
      BY <1>1, <1>2, <2>2, <3>1, Zenon
  <2> QED
    BY <1>5, <2>1, <2>2, Zenon
<1>9. sg2[0] = KvInit
  BY <1>2, <1>3
<1>10. Line(X, c + 1, g2, sg2)
  BY <1>4, <1>6, <1>7, <1>8, <1>9, Zenon DEF Line
<1> QED
  BY <1>1, <1>2, <1>10 DEF Continues

---------------------------------------------------------------------------------
(* From all keys to one key, and back *)

Keys == {in.key : in \in Input}
OfKey(k) == {i \in DOMAIN ops : KeyOf(i) = k}

\* An operation changes the value of its key alone.
LEMMA AfterOpAt ==
    ASSUME NEW store, DOMAIN store = Keys, NEW i, KeyOf(i) \in Keys
    PROVE  /\ DOMAIN AfterOp(store, i) = Keys
           /\ AfterOp(store, i)[KeyOf(i)] = OpStep(i, store[KeyOf(i)]).state
           /\ \A k \in Keys : k # KeyOf(i) => AfterOp(store, i)[k] = store[k]
<1> DEFINE K == KeyOf(i)
           v == OpStep(i, store[KeyOf(i)]).state
<1>1. AfterOp(store, i) = [store EXCEPT ![K] = v] /\ K \in Keys
  BY Zenon DEF AfterOp
<1> HIDE DEF K, v
<1>2. /\ DOMAIN AfterOp(store, i) = Keys /\ AfterOp(store, i)[K] = v
      /\ \A k \in Keys : k # K => AfterOp(store, i)[k] = store[k]
  BY <1>1, Zenon
<1> QED
  BY <1>2, Zenon DEF K, v

\* Every store of an execution holds every key.
LEMMA StoresHaveKeys ==
    ASSUME CountingLaws, NEW n \in Nat, NEW order, NEW stores, Executes(n, order, stores),
           \A x \in 1 .. n : KeyOf(order[x]) \in Keys
    PROVE  \A x \in 0 .. n : DOMAIN stores[x] = Keys
<1> DEFINE S == {x \in Nat : x <= n => DOMAIN stores[x] = Keys}
<1>1. 0 \in S
  BY Zenon DEF Executes, NoKeys, Keys
<1>2. ASSUME NEW x \in S PROVE x + 1 \in S
  <2>1. CASE x + 1 <= n
    <3>1. x \in Nat /\ x <= n /\ x + 1 \in 1 .. n /\ (x + 1) - 1 = x
      BY <2>1
    <3>2. DOMAIN stores[x] = Keys
      BY <3>1, Zenon
    <3>3. stores[x + 1] = AfterOp(stores[x], order[x + 1])
      BY <3>1, Zenon DEF Executes
    <3>4. DOMAIN stores[x + 1] = Keys
      BY <3>1, <3>2, <3>3, AfterOpAt
    <3> QED
      BY <3>1, <3>4
  <2> QED
    BY <2>1
<1> HIDE DEF S
<1>3. S = Nat
  <2>1. S \in SUBSET Nat
    BY Zenon DEF S
  <2> QED
    BY <1>1, <1>2, <2>1, NatInd, Zenon
<1> QED
  BY <1>3 DEF S

\* No operations are linearizable.
LEMMA EmptyLine == HasLine({})
<1> DEFINE g == [i \in 1 .. 0 |-> i]
           sg == [i \in 0 .. 0 |-> KvInit]
<1>1. g \in [1 .. 0 -> {}] /\ sg[0] = KvInit /\ 1 .. 0 = {}
  OBVIOUS
<1> HIDE DEF g, sg
<1>2. Line({}, 0, g, sg) /\ Covers({}, 0, g)
  BY <1>1, Zenon DEF Line, Covers
<1> QED
  BY <1>2, Zenon DEF HasLine

\* The first c operations of g are those of X among the first m of the order.
Placed(X, order, m, c, g) == \A i \in X : (\E k \in 1 .. c : g[k] = i) <=> (\E y \in 1 .. m : order[y] = i)

\* The operations of a key among the first m of the order are a line, up to the value of the key.
KeyLine(key, order, stores, m, c, g, sg) ==
    Line(OfKey(key), c, g, sg) /\ Placed(OfKey(key), order, m, c, g) /\ sg[c] = stores[m][key]
HasKeyLine(key, order, stores, m) == \E c \in Nat : \E g, sg : KeyLine(key, order, stores, m, c, g, sg)

\* An order of the N operations that respects their times.
Ordered(order, N) ==
    /\ order \in [1 .. N -> 1 .. N]
    /\ \A a, b \in 1 .. N : order[a] = order[b] => a = b
    /\ \A i \in 1 .. N : \E a \in 1 .. N : order[a] = i
    /\ \A a, b \in 1 .. N : a < b => ~(ops[order[b]].ret < ops[order[a]].call)

\* An operation of another key leaves the line of a key as it is.
LEMMA KeyLineStays ==
    ASSUME NEW key \in Keys, NEW order, NEW stores, NEW m \in Nat,
           NEW c \in Nat, NEW g, NEW sg, KeyLine(key, order, stores, m, c, g, sg),
           DOMAIN stores[m] = Keys, KeyOf(order[m + 1]) \in Keys, order[m + 1] \notin OfKey(key),
           KeyOf(order[m + 1]) # key, stores[m + 1] = AfterOp(stores[m], order[m + 1])
    PROVE  HasKeyLine(key, order, stores, m + 1)
<1>1. /\ Line(OfKey(key), c, g, sg) /\ sg[c] = stores[m][key]
      /\ \A i \in OfKey(key) : (\E k \in 1 .. c : g[k] = i) <=> (\E y \in 1 .. m : order[y] = i)
  BY Zenon DEF KeyLine, Placed
<1>2. stores[m + 1][key] = stores[m][key]
  BY AfterOpAt
<1>3. ASSUME NEW i \in OfKey(key)
      PROVE  (\E y \in 1 .. m : order[y] = i) <=> (\E y \in 1 .. m + 1 : order[y] = i)
  <2>1. \A y \in 1 .. m + 1 : y \in 1 .. m \/ y = m + 1
    OBVIOUS
  <2>2. \A y \in 1 .. m : y \in 1 .. m + 1
    OBVIOUS
  <2> QED
    BY <2>1, <2>2, Zenon
<1>4. Placed(OfKey(key), order, m + 1, c, g)
  BY <1>1, <1>3, Zenon DEF Placed
<1>5. KeyLine(key, order, stores, m + 1, c, g, sg)
  BY <1>1, <1>2, <1>4, Zenon DEF KeyLine
<1> QED
  BY <1>5, Zenon DEF HasKeyLine

\* An operation of the key is next in the order: it may continue the line.
LEMMA KeyOpFollows ==
    ASSUME NEW key, NEW N \in Nat, NEW order, Ordered(order, N), OfKey(key) \in SUBSET (1 .. N),
           \A i \in 1 .. N : ops[i].call \in Int /\ ops[i].ret \in Int /\ ops[i].call < ops[i].ret,
           NEW m \in Nat, m + 1 <= N, NEW c \in Nat, NEW g, Placed(OfKey(key), order, m, c, g),
           order[m + 1] \in OfKey(key)
    PROVE  /\ \A k \in 1 .. c : g[k] # order[m + 1]
           /\ \A j \in OfKey(key) : ops[j].ret < ops[order[m + 1]].call => \E k \in 1 .. c : g[k] = j
<1>1. \A y \in 1 .. m : y \in 1 .. N /\ y # m + 1
  OBVIOUS
<1>2. m + 1 \in 1 .. N
  OBVIOUS
<1>3. ASSUME NEW k \in 1 .. c, g[k] = order[m + 1] PROVE FALSE
  <2>1. PICK y \in 1 .. m : order[y] = order[m + 1]
    BY <1>3, Zenon DEF Placed
  <2> QED
    BY <1>1, <1>2, <2>1, Zenon DEF Ordered
<1>4. ASSUME NEW j \in OfKey(key), ops[j].ret < ops[order[m + 1]].call
      PROVE  \E k \in 1 .. c : g[k] = j
  <2>1. PICK y \in 1 .. N : order[y] = j
    BY Zenon DEF Ordered
  <2>2. ~(m + 1 < y)
    BY <1>2, <1>4, <2>1, Zenon DEF Ordered
  <2>3. y # m + 1
    <3>1. j \in 1 .. N
      BY Zenon
    <3>2. ASSUME y = m + 1 PROVE FALSE
      <4>1. order[m + 1] = j
        BY <2>1, <3>2, Zenon
      <4>2. ops[j].ret < ops[j].call
        BY <1>4, <4>1, Zenon
      <4> QED
        BY <3>1, <4>2
    <3> QED
      BY <3>2, Zenon
  <2>4. y \in 1 .. m
    BY <2>2, <2>3
  <2> QED
    BY <2>1, <2>4, Zenon DEF Placed
<1> QED
  BY <1>3, <1>4, Zenon

\* An operation of the key adds to it.
LEMMA KeyLineGrows ==
    ASSUME NEW key \in Keys, NEW N \in Nat, NEW order, Ordered(order, N), OfKey(key) \in SUBSET (1 .. N),
           \A i \in 1 .. N : ops[i].call \in Int /\ ops[i].ret \in Int /\ ops[i].call < ops[i].ret,
           NEW stores, NEW m \in Nat, m + 1 <= N,
           NEW c \in Nat, NEW g, NEW sg, KeyLine(key, order, stores, m, c, g, sg),
           DOMAIN stores[m] = Keys, KeyOf(order[m + 1]) = key, order[m + 1] \in OfKey(key),
           OpStep(order[m + 1], stores[m][key]).ok, stores[m + 1] = AfterOp(stores[m], order[m + 1])
    PROVE  HasKeyLine(key, order, stores, m + 1)
<1> DEFINE i == order[m + 1]
           X == OfKey(key)
<1>1. Line(X, c, g, sg) /\ Placed(X, order, m, c, g) /\ sg[c] = stores[m][key]
  BY Zenon DEF KeyLine
<1>2. /\ \A k \in 1 .. c : g[k] # i
      /\ \A j \in X : ops[j].ret < ops[i].call => \E k \in 1 .. c : g[k] = j
  BY <1>1, KeyOpFollows
<1>3. OpStep(i, sg[c]).ok /\ i \in X
  BY <1>1, Zenon
<1>4. stores[m + 1][key] = OpStep(i, stores[m][key]).state
  BY AfterOpAt
<1> HIDE DEF i, X
<1>5. Continues(X, c, g, sg, i)
  BY <1>1, <1>2, <1>3, LineGrows, Zenon
<1>6. PICK g2, sg2 : /\ Line(X, c + 1, g2, sg2)
                     /\ \A k \in 1 .. c : g2[k] = g[k]
                     /\ g2[c + 1] = i /\ sg2[c + 1] = OpStep(i, sg[c]).state
  BY <1>5, Zenon DEF Continues
<1>7. /\ c + 1 \in 1 .. c + 1 /\ \A k \in 1 .. c : k \in 1 .. c + 1
      /\ \A k \in 1 .. c + 1 : k \in 1 .. c \/ k = c + 1
      /\ m + 1 \in 1 .. m + 1 /\ \A k \in 1 .. m : k \in 1 .. m + 1
      /\ \A k \in 1 .. m + 1 : k \in 1 .. m \/ k = m + 1
  OBVIOUS
<1>8. ASSUME NEW j \in X
      PROVE  (\E k \in 1 .. c + 1 : g2[k] = j) <=> (\E y \in 1 .. m + 1 : order[y] = j)
  <2>1. (\E k \in 1 .. c : g[k] = j) <=> (\E y \in 1 .. m : order[y] = j)
    BY <1>1, Zenon DEF Placed
  <2>2. (\E k \in 1 .. c : g2[k] = j) <=> (\E k \in 1 .. c : g[k] = j)
    BY <1>6, Zenon
  <2>3. (\E k \in 1 .. c + 1 : g2[k] = j) <=> (\E k \in 1 .. c : g2[k] = j) \/ g2[c + 1] = j
    BY <1>7, Zenon
  <2>4. (\E y \in 1 .. m + 1 : order[y] = j) <=> (\E y \in 1 .. m : order[y] = j) \/ order[m + 1] = j
    BY <1>7, Zenon
  <2>5. g2[c + 1] = order[m + 1]
    BY <1>6, Zenon DEF i
  <2> QED
    BY <2>1, <2>2, <2>3, <2>4, <2>5, Zenon
<1>9. Placed(X, order, m + 1, c + 1, g2)
  BY <1>8, Zenon DEF Placed
<1>10. sg2[c + 1] = stores[m + 1][key]
  BY <1>1, <1>4, <1>6, Zenon
<1>11. KeyLine(key, order, stores, m + 1, c + 1, g2, sg2)
  BY <1>6, <1>9, <1>10, Zenon DEF KeyLine, X
<1>12. c + 1 \in Nat
  OBVIOUS
<1> QED
  BY <1>11, <1>12, Zenon DEF HasKeyLine

\* The operations of a key, in the order they have in a linearization of all keys, are a
\* linearization of theirs.
LEMMA KeyHasLine ==
    ASSUME CountingLaws, Timed(ops), \A i \in DOMAIN ops : ops[i].input \in Input, Linearizable(ops), NEW key
    PROVE  HasLine(OfKey(key))
<1> DEFINE X == OfKey(key)
           N == Len(ops)
<1>1. N \in Nat /\ DOMAIN ops = 1 .. N
  BY DEF Timed, IsSeq
<1>2. PICK order \in Bijection(DOMAIN ops, DOMAIN ops) :
         /\ \A i, j \in DOMAIN order : i < j => ~(ops[order[j]].ret < ops[order[i]].call)
         /\ LegalRun(ops, order)
  BY Zenon DEF Linearizable
<1> HIDE DEF N
<1>3. /\ order \in [1 .. N -> 1 .. N]
      /\ \A a, b \in 1 .. N : order[a] = order[b] => a = b
      /\ \A i \in 1 .. N : \E a \in 1 .. N : order[a] = i
  BY <1>1, <1>2, ZenonT(30) DEF Bijection, Injection, Surjection, IsInjective
<1>4. DOMAIN order = 1 .. N /\ Len(order) = N
  BY <1>1, <1>3
<1>5. PICK stores : Executes(N, order, stores)
  BY <1>1, <1>2, <1>4, LegalExecutes, Zenon
<1>6. \A i \in 1 .. N : KeyOf(i) \in Keys /\ ops[i].call \in Int /\ ops[i].ret \in Int /\ ops[i].call < ops[i].ret
  BY <1>1, Zenon DEF KeyOf, Keys, Timed
<1>7. \A x \in 0 .. N : DOMAIN stores[x] = Keys
  BY <1>1, <1>3, <1>5, <1>6, StoresHaveKeys, ZenonT(30)
<1>8. CASE X = {}
  BY <1>8, EmptyLine, Zenon
<1>9. CASE X # {}
  <2>1. key \in Keys /\ X \in SUBSET (1 .. N)
    BY <1>1, <1>6, <1>9, Zenon DEF OfKey
  <2>2. \A i \in 1 .. N : i \in X <=> KeyOf(i) = key
    BY <1>1, Zenon DEF OfKey
  <2> HIDE DEF X
  <2>3. HasKeyLine(key, order, stores, 0)
    <3> DEFINE g == [i \in 1 .. 0 |-> i]
               sg == [i \in 0 .. 0 |-> KvInit]
    <3>1. g \in [1 .. 0 -> X] /\ sg[0] = KvInit /\ 1 .. 0 = {}
      OBVIOUS
    <3>2. stores[0][key] = KvInit
      BY <1>5, <2>1, Zenon DEF Executes, NoKeys, Keys
    <3> HIDE DEF g, sg
    <3>3. Line(X, 0, g, sg)
      BY <3>1, Zenon DEF Line
    <3>4. Placed(X, order, 0, 0, g)
      BY <3>1, Zenon DEF Placed
    <3>5. KeyLine(key, order, stores, 0, 0, g, sg)
      BY <3>1, <3>2, <3>3, <3>4, Zenon DEF KeyLine, X
    <3> QED
      BY <3>5, Zenon DEF HasKeyLine
  <2>4. Ordered(order, N)
    BY <1>2, <1>3, <1>4, Zenon DEF Ordered
  <2>5. ASSUME NEW m \in Nat, m + 1 <= N, HasKeyLine(key, order, stores, m)
        PROVE  HasKeyLine(key, order, stores, m + 1)
    <3>1. m + 1 \in 1 .. N /\ (m + 1) - 1 = m /\ m \in 0 .. N
      BY <1>1, <2>5
    <3>0. PICK c \in Nat : \E g, sg : KeyLine(key, order, stores, m, c, g, sg)
      BY <2>5, Zenon DEF HasKeyLine
    <3>2. PICK g, sg : KeyLine(key, order, stores, m, c, g, sg)
      BY <3>0, Zenon
    <3>3. order[m + 1] \in 1 .. N
      BY <1>3, <3>1, Zenon
    <3>4. OpStep(order[m + 1], stores[m][KeyOf(order[m + 1])]).ok /\ stores[m + 1] = AfterOp(stores[m], order[m + 1])
      BY <1>5, <3>1, Zenon DEF Executes
    <3>5. DOMAIN stores[m] = Keys /\ KeyOf(order[m + 1]) \in Keys
      BY <1>6, <1>7, <3>1, <3>3, Zenon
    <3>6. CASE order[m + 1] \notin X
      <4>1. KeyOf(order[m + 1]) # key /\ order[m + 1] \notin OfKey(key)
        BY <2>2, <3>3, <3>6, Zenon DEF X
      <4> QED
        BY <2>1, <3>2, <3>4, <3>5, <4>1, KeyLineStays, Zenon
    <3>7. CASE order[m + 1] \in X
      <4>1. KeyOf(order[m + 1]) = key /\ order[m + 1] \in OfKey(key)
        BY <2>2, <3>3, <3>7, Zenon DEF X
      <4>2. OfKey(key) \in SUBSET (1 .. N)
        BY <2>1, Zenon DEF X
      <4>3. OpStep(order[m + 1], stores[m][key]).ok
        BY <3>4, <4>1, Zenon
      <4>4. \A i \in 1 .. N : ops[i].call \in Int /\ ops[i].ret \in Int /\ ops[i].call < ops[i].ret
        BY <1>6, Zenon
      <4> QED
        BY <1>1, <2>1, <2>4, <2>5, <3>2, <3>4, <3>5, <4>1, <4>2, <4>3, <4>4, KeyLineGrows, Zenon
    <3> QED
      BY <3>6, <3>7, Zenon
  <2> DEFINE S == {m \in Nat : m <= N => HasKeyLine(key, order, stores, m)}
  <2>6. S = Nat
    <3>1. S \in SUBSET Nat /\ 0 \in S
      BY <2>3, Zenon
    <3>2. ASSUME NEW m \in S PROVE m + 1 \in S
      BY <1>1, <2>5, <3>2
    <3> HIDE DEF S
    <3> QED
      BY <3>1, <3>2, NatInd, Zenon
  <2>7. HasKeyLine(key, order, stores, N)
    BY <1>1, <2>6
  <2>8. PICK c \in Nat : \E g, sg : KeyLine(key, order, stores, N, c, g, sg)
    BY <2>7, Zenon DEF HasKeyLine
  <2>9. PICK g, sg : KeyLine(key, order, stores, N, c, g, sg)
    BY <2>8, Zenon
  <2>10. Line(X, c, g, sg) /\ Placed(X, order, N, c, g)
    BY <2>9, Zenon DEF KeyLine, X
  <2>11. Covers(X, c, g)
    BY <1>3, <2>1, <2>10, Zenon DEF Placed, Covers
  <2> QED
    BY <2>10, <2>11, Zenon DEF HasLine, X
<1> QED
  BY <1>8, <1>9, Zenon

\* The first m operations of an order that merges the lines G of the keys: c of each key.
Stage(m, order, stores, c, G, SG, LN) ==
    LET N == Len(ops)
    IN  /\ order \in [1 .. m -> 1 .. N]
        /\ \A x, y \in 1 .. m : order[x] = order[y] => x = y
        /\ \A x \in 1 .. m, j \in 1 .. N :
             ops[j].ret < ops[order[x]].call => \E y \in 1 .. x - 1 : order[y] = j
        /\ Executes(m, order, stores) /\ DOMAIN stores[m] = Keys
        /\ c \in [Keys -> Nat]
        /\ \A k \in Keys : c[k] <= LN[k]
        /\ \A k \in Keys : \A i \in 1 .. LN[k] : i <= c[k] <=> \E x \in 1 .. m : order[x] = G[k][i]
        /\ \A k \in Keys : stores[m][k] = SG[k][c[k]]

IsLine(k, G, SG, LN) ==
    LN[k] \in Nat /\ Line(OfKey(k), LN[k], G[k], SG[k]) /\ Covers(OfKey(k), LN[k], G[k])

\* The next operation of key K's line may be placed after the first m.
Ready(K, m, order, c, G, LN) ==
    LET i == G[K][c[K] + 1]
    IN  /\ c[K] + 1 \in 1 .. LN[K]
        /\ i \in 1 .. Len(ops) /\ KeyOf(i) = K
        /\ \A x \in 1 .. m : order[x] # i
        /\ \A j \in 1 .. Len(ops) : ops[j].ret < ops[i].call => \E y \in 1 .. m : order[y] = j

\* Of a set of operations, one returned first.
LEMMA FirstReturn ==
    ASSUME CountingLaws, Timed(ops), NEW U \in SUBSET DOMAIN ops, U # {}
    PROVE  \E j \in U : \A i \in U : ops[j].ret <= ops[i].ret
<1> DEFINE T == {ops[i].ret : i \in U}
<1>1. T \in SUBSET Int /\ T # {}
  BY DEF Timed
<1>2. IsFiniteSet(T)
  <2>1. Len(ops) \in Nat /\ DOMAIN ops = 1 .. Len(ops)
    BY DEF Timed, IsSeq
  <2>2. IsFiniteSet(DOMAIN ops)
    BY <2>1, UpTo, Zenon
  <2>3. IsFiniteSet(U)
    BY <2>2, SubsetCount, Zenon
  <2> DEFINE f == [i \in U |-> ops[i].ret]
  <2>4. f \in Surjection(U, T)
    BY Zenon DEF Surjection
  <2> HIDE DEF f, T
  <2> QED
    BY <2>3, <2>4, SurjectionCount, Zenon
<1>3. PICK z \in T : \A t \in T : z <= t
  <2> HIDE DEF T
  <2> QED
    BY <1>1, <1>2, FiniteHasLeast, Zenon
<1>4. PICK j \in U : ops[j].ret = z
  BY Zenon
<1> QED
  BY <1>3, <1>4, Zenon

\* Of the next operations in the lines of the keys, one may be next in the merged order.  It is
\* that of the key of the operation that returned first among those that are not placed.
LEMMA NextOp ==
    ASSUME CountingLaws, Timed(ops), \A i \in DOMAIN ops : KeyOf(i) \in Keys,
           NEW G, NEW SG, NEW LN, \A k \in Keys : IsLine(k, G, SG, LN),
           NEW m \in Nat, m < Len(ops), NEW order, NEW stores, NEW c,
           Stage(m, order, stores, c, G, SG, LN)
    PROVE  \E K \in Keys : Ready(K, m, order, c, G, LN)
<1> DEFINE N == Len(ops)
           U == {i \in 1 .. N : \A x \in 1 .. m : order[x] # i}
<1>1. N \in Nat /\ DOMAIN ops = 1 .. N
  BY DEF Timed, IsSeq
<1>2. /\ order \in [1 .. m -> 1 .. N]
      /\ c \in [Keys -> Nat]
      /\ \A k \in Keys : c[k] <= LN[k]
      /\ \A k \in Keys : \A i \in 1 .. LN[k] : i <= c[k] <=> \E x \in 1 .. m : order[x] = G[k][i]
  BY Zenon DEF Stage
<1>3. m < N
  BY Zenon
<1> HIDE DEF N
<1>4. U # {}
  <2> SUFFICES ASSUME U = {} PROVE FALSE
    BY Zenon
  <2>1. \A i \in 1 .. N : \E x \in 1 .. m : order[x] = i
    BY Zenon
  <2>2. order \in Surjection(1 .. m, 1 .. N)
    BY <1>2, <2>1, Zenon DEF Surjection
  <2>3. /\ IsFiniteSet(1 .. m) /\ Cardinality(1 .. m) = m
        /\ IsFiniteSet(1 .. N) /\ Cardinality(1 .. N) = N
    BY <1>1, UpTo, Zenon
  <2>4. Cardinality(1 .. N) <= Cardinality(1 .. m)
    BY <2>2, <2>3, SurjectionCount, Zenon
  <2> QED
    BY <1>1, <1>3, <2>3, <2>4
<1>5. PICK j \in U : \A i \in U : ops[j].ret <= ops[i].ret
  <2>1. U \in SUBSET DOMAIN ops
    BY <1>1, Zenon
  <2> HIDE DEF U
  <2> QED
    BY <1>4, <2>1, FirstReturn, Zenon
<1> DEFINE K == KeyOf(j)
           d == c[K]
           i == G[K][d + 1]
<1>6. j \in 1 .. N /\ K \in Keys /\ j \in OfKey(K)
  BY <1>1, Zenon DEF OfKey
<1> HIDE DEF K
<1>7. /\ LN[K] \in Nat /\ G[K] \in [1 .. LN[K] -> OfKey(K)]
      /\ \A a \in 1 .. LN[K], b \in OfKey(K) :
           ops[b].ret < ops[G[K][a]].call => \E e \in 1 .. a - 1 : G[K][e] = b
      /\ \A b \in OfKey(K) : \E a \in 1 .. LN[K] : G[K][a] = b
  BY <1>6, Zenon DEF IsLine, Line, Covers
<1>8. d \in Nat /\ d <= LN[K]
  BY <1>2, <1>6, Zenon
<1> HIDE DEF d
<1>9. \A a \in 1 .. LN[K] : a <= d <=> \E x \in 1 .. m : order[x] = G[K][a]
  BY <1>2, <1>6, Zenon DEF d
<1>10. d + 1 \in 1 .. LN[K]
  <2>1. PICK a \in 1 .. LN[K] : G[K][a] = j
    BY <1>6, <1>7, Zenon
  <2>2. ~(a <= d)
    BY <1>9, <2>1, Zenon
  <2> QED
    BY <1>7, <1>8, <2>1, <2>2
<1>11. i \in OfKey(K)
  BY <1>7, <1>10, Zenon
<1>12. i \in 1 .. N /\ KeyOf(i) = K
  BY <1>1, <1>11, Zenon DEF OfKey
<1>13. \A x \in 1 .. m : order[x] # i
  <2>1. ~(d + 1 <= d)
    BY <1>8
  <2> QED
    BY <1>9, <1>10, <2>1, Zenon
<1>14. ASSUME NEW b \in 1 .. N, ops[b].ret < ops[i].call PROVE \E y \in 1 .. m : order[y] = b
  <2> SUFFICES ASSUME b \in U PROVE FALSE
    BY Zenon
  <2>1. ops[j].ret <= ops[b].ret
    BY <1>5, Zenon
  <2>2. ops[j].ret \in Int /\ ops[b].ret \in Int /\ ops[i].call \in Int
    BY <1>1, <1>6, <1>12, Zenon DEF Timed
  <2>3. ops[j].ret < ops[i].call
    <3> DEFINE x == ops[j].ret
               y == ops[b].ret
               z == ops[i].call
    <3>1. x <= y /\ y < z /\ x \in Int /\ y \in Int /\ z \in Int
      BY <1>14, <2>1, <2>2, Zenon
    <3> HIDE DEF x, y, z
    <3>2. x < z
      BY <3>1
    <3> QED
      BY <3>2, Zenon DEF x, z
  <2>4. PICK e \in 1 .. (d + 1) - 1 : G[K][e] = j
    BY <1>6, <1>7, <1>10, <2>3, Zenon
  <2>5. e \in 1 .. LN[K] /\ e <= d
    BY <1>7, <1>8
  <2>6. \E x \in 1 .. m : order[x] = j
    BY <1>9, <2>4, <2>5, Zenon
  <2> QED
    BY <2>6, Zenon
<1>15. Ready(K, m, order, c, G, LN)
  BY <1>10, <1>12, <1>13, <1>14, Zenon DEF d, N, Ready
<1> QED
  BY <1>6, <1>15, Zenon

\* The merged order grows by one operation.
LEMMA StageGrows ==
    ASSUME CountingLaws, Timed(ops), \A i \in DOMAIN ops : KeyOf(i) \in Keys,
           NEW G, NEW SG, NEW LN, \A k \in Keys : IsLine(k, G, SG, LN),
           NEW m \in Nat, m < Len(ops), NEW order, NEW stores, NEW c,
           Stage(m, order, stores, c, G, SG, LN)
    PROVE  \E order2, stores2, c2 : Stage(m + 1, order2, stores2, c2, G, SG, LN)
<1> DEFINE N == Len(ops)
<1>1. PICK K \in Keys : Ready(K, m, order, c, G, LN)
  BY NextOp, Zenon
<1> DEFINE d == c[K]
           i == G[K][d + 1]
<1>2. /\ d + 1 \in 1 .. LN[K]
      /\ i \in 1 .. N /\ KeyOf(i) = K
      /\ \A x \in 1 .. m : order[x] # i
      /\ \A j \in 1 .. N : ops[j].ret < ops[i].call => \E y \in 1 .. m : order[y] = j
  BY <1>1, Zenon DEF Ready
<1>3. /\ order \in [1 .. m -> 1 .. N]
      /\ \A x, y \in 1 .. m : order[x] = order[y] => x = y
      /\ \A x \in 1 .. m, j \in 1 .. N :
           ops[j].ret < ops[order[x]].call => \E y \in 1 .. x - 1 : order[y] = j
      /\ Executes(m, order, stores) /\ DOMAIN stores[m] = Keys
      /\ c \in [Keys -> Nat]
      /\ \A k \in Keys : c[k] <= LN[k]
      /\ \A k \in Keys : \A a \in 1 .. LN[k] : a <= c[k] <=> \E x \in 1 .. m : order[x] = G[k][a]
      /\ \A k \in Keys : stores[m][k] = SG[k][c[k]]
  BY Zenon DEF Stage
<1>4. d \in Nat
  BY <1>3, Zenon
<1>5. \A k \in Keys : /\ LN[k] \in Nat /\ G[k] \in [1 .. LN[k] -> OfKey(k)]
                      /\ \A a, b \in 1 .. LN[k] : G[k][a] = G[k][b] => a = b
                      /\ \A a \in 1 .. LN[k] : /\ OpStep(G[k][a], SG[k][a - 1]).ok
                                               /\ SG[k][a] = OpStep(G[k][a], SG[k][a - 1]).state
  BY Zenon DEF IsLine, Line
<1> DEFINE order2 == [x \in 1 .. m + 1 |-> IF x = m + 1 THEN i ELSE order[x]]
           stores2 == [x \in 0 .. m + 1 |-> IF x = m + 1 THEN AfterOp(stores[m], i) ELSE stores[x]]
           c2 == [c EXCEPT ![K] = d + 1]
<1> HIDE DEF i, d, N
<1>6. /\ \A x \in 1 .. m : x # m + 1 /\ x \in 1 .. m + 1 /\ order2[x] = order[x]
      /\ order2[m + 1] = i /\ m + 1 \in 1 .. m + 1
      /\ \A x \in 1 .. m + 1 : x \in 1 .. m \/ x = m + 1
  OBVIOUS
<1>7. (\A x \in 0 .. m : stores2[x] = stores[x]) /\ stores2[m + 1] = AfterOp(stores[m], i)
  OBVIOUS
<1>8. /\ c2 \in [Keys -> Nat] /\ c2[K] = d + 1
      /\ \A k \in Keys : k # K => c2[k] = c[k]
  <2>1. c \in [Keys -> Nat]
    BY <1>3, Zenon
  <2>2. d + 1 \in Nat
    BY <1>4
  <2> QED
    BY <2>1, <2>2, Zenon
<1>9. order2 \in [1 .. m + 1 -> 1 .. N]
  <2> SUFFICES ASSUME NEW x \in 1 .. m + 1 PROVE order2[x] \in 1 .. N
    BY Zenon
  <2> HIDE DEF order2
  <2> QED
    BY <1>2, <1>3, <1>6, Zenon
<1> HIDE DEF order2, stores2, c2
<1>10. ASSUME NEW x \in 1 .. m + 1, NEW y \in 1 .. m + 1, order2[x] = order2[y] PROVE x = y
  <2>1. (x \in 1 .. m \/ x = m + 1) /\ (y \in 1 .. m \/ y = m + 1)
    BY <1>6, Zenon
  <2>2. x \in 1 .. m => order2[x] = order[x] /\ order[x] # i
    BY <1>2, <1>6, Zenon
  <2>3. y \in 1 .. m => order2[y] = order[y] /\ order[y] # i
    BY <1>2, <1>6, Zenon
  <2>4. x \in 1 .. m /\ y \in 1 .. m => x = y
    BY <1>3, <1>10, <2>2, <2>3
  <2> QED
    BY <1>6, <1>10, <2>1, <2>2, <2>3, <2>4, Zenon
<1>11. ASSUME NEW x \in 1 .. m + 1, NEW j \in 1 .. N, ops[j].ret < ops[order2[x]].call
       PROVE  \E y \in 1 .. x - 1 : order2[y] = j
  <2>1. CASE x \in 1 .. m
    <3>0. ops[j].ret < ops[order[x]].call
      BY <1>6, <1>11, <2>1, Zenon
    <3>1. \E y \in 1 .. x - 1 : order[y] = j
      BY <1>3, <2>1, <3>0, ZenonT(30)
    <3>1a. PICK y \in 1 .. x - 1 : order[y] = j
      BY <3>1, Zenon
    <3>2. y \in 1 .. m
      BY <2>1
    <3> QED
      BY <1>6, <3>1a, <3>2, Zenon
  <2>2. CASE x = m + 1
    <3>1. PICK y \in 1 .. m : order[y] = j
      BY <1>2, <1>6, <1>11, <2>2, Zenon
    <3>2. y \in 1 .. x - 1
      BY <2>2
    <3> QED
      BY <1>6, <3>1, <3>2, Zenon
  <2> QED
    BY <1>6, <2>1, <2>2, Zenon
<1>12. /\ OpStep(i, stores[m][K]).ok
       /\ OpStep(i, stores[m][K]).state = SG[K][d + 1]
  <2>1. stores[m][K] = SG[K][d] /\ (d + 1) - 1 = d
    BY <1>3, <1>4 DEF d
  <2>2. /\ OpStep(G[K][d + 1], SG[K][(d + 1) - 1]).ok
        /\ SG[K][d + 1] = OpStep(G[K][d + 1], SG[K][(d + 1) - 1]).state
    BY <1>2, <1>5, Zenon
  <2> QED
    BY <2>1, <2>2, Zenon DEF i
<1>13. Executes(m + 1, order2, stores2)
  <2>1. /\ stores[0] = NoKeys
        /\ \A x \in 1 .. m : /\ OpStep(order[x], stores[x - 1][KeyOf(order[x])]).ok
                             /\ stores[x] = AfterOp(stores[x - 1], order[x])
    BY <1>3, Zenon DEF Executes
  <2>2. stores2[0] = NoKeys
    BY <1>7, <2>1
  <2>3. ASSUME NEW x \in 1 .. m + 1
        PROVE  /\ OpStep(order2[x], stores2[x - 1][KeyOf(order2[x])]).ok
               /\ stores2[x] = AfterOp(stores2[x - 1], order2[x])
    <3>1. CASE x \in 1 .. m
      <4>1. x \in 0 .. m /\ x - 1 \in 0 .. m
        BY <3>1
      <4> QED
        BY <1>6, <1>7, <2>1, <3>1, <4>1, Zenon
    <3>2. CASE x = m + 1
      <4>1. x - 1 = m /\ m \in 0 .. m
        BY <3>2
      <4> QED
        BY <1>2, <1>6, <1>7, <1>12, <3>2, <4>1, Zenon
    <3> QED
      BY <1>6, <3>1, <3>2, Zenon
  <2> QED
    BY <2>2, <2>3, Zenon DEF Executes
<1>14. /\ DOMAIN stores2[m + 1] = Keys
       /\ stores2[m + 1][K] = SG[K][d + 1]
       /\ \A k \in Keys : k # K => stores2[m + 1][k] = stores[m][k]
  <2> DEFINE store == stores[m]
  <2>1. DOMAIN store = Keys /\ KeyOf(i) = K /\ KeyOf(i) \in Keys
    BY <1>2, <1>3, Zenon
  <2>2. OpStep(i, store[K]).state = SG[K][d + 1]
    BY <1>12, Zenon
  <2>3. stores2[m + 1] = AfterOp(store, i)
    BY <1>7, Zenon
  <2> HIDE DEF store
  <2>4. /\ DOMAIN AfterOp(store, i) = Keys
        /\ AfterOp(store, i)[K] = OpStep(i, store[K]).state
        /\ \A k \in Keys : k # K => AfterOp(store, i)[k] = store[k]
    BY <2>1, AfterOpAt, Zenon
  <2> QED
    BY <2>2, <2>3, <2>4, Zenon DEF store
<1>15. \A k \in Keys : c2[k] <= LN[k]
  <2> SUFFICES ASSUME NEW k \in Keys PROVE c2[k] <= LN[k]
    BY Zenon
  <2>1. CASE k = K
    <3>1. d + 1 <= LN[K]
      <4>1. d + 1 \in 1 .. LN[K] /\ LN[K] \in Nat
        BY <1>2, <1>5, Zenon
      <4> QED
        BY <4>1
    <3> QED
      BY <1>8, <2>1, <3>1, Zenon
  <2>2. CASE k # K
    BY <1>3, <1>8, <2>2, Zenon
  <2> QED
    BY <2>1, <2>2, Zenon
<1>16. \A k \in Keys : stores2[m + 1][k] = SG[k][c2[k]]
  <2> SUFFICES ASSUME NEW k \in Keys PROVE stores2[m + 1][k] = SG[k][c2[k]]
    BY Zenon
  <2>1. CASE k = K
    BY <1>8, <1>14, <2>1, Zenon
  <2>2. CASE k # K
    BY <1>3, <1>8, <1>14, <2>2, Zenon
  <2> QED
    BY <2>1, <2>2, Zenon
<1>17. ASSUME NEW k \in Keys, NEW a \in 1 .. LN[k]
       PROVE  a <= c2[k] <=> \E x \in 1 .. m + 1 : order2[x] = G[k][a]
  <2>1. (\E x \in 1 .. m + 1 : order2[x] = G[k][a]) <=>
          (\E x \in 1 .. m : order[x] = G[k][a]) \/ G[k][a] = i
    BY <1>6, Zenon
  <2>2. a <= c[k] <=> \E x \in 1 .. m : order[x] = G[k][a]
    BY <1>3
  <2>3. CASE k = K
    <3>1. a <= d + 1 <=> a <= d \/ a = d + 1
      BY <1>4
    <3>2. G[K][a] = i <=> a = d + 1
      BY <1>2, <1>5, <2>3, Zenon DEF i
    <3> QED
      BY <1>8, <2>1, <2>2, <2>3, <3>1, <3>2, Zenon DEF d
  <2>4. CASE k # K
    <3>1. G[k][a] \in OfKey(k)
      BY <1>5, Zenon
    <3>2. G[k][a] # i
      BY <1>2, <2>4, <3>1, Zenon DEF OfKey
    <3> QED
      BY <1>8, <2>1, <2>2, <2>4, <3>2, Zenon
  <2> QED
    BY <2>3, <2>4, Zenon
<1>18. Stage(m + 1, order2, stores2, c2, G, SG, LN)
  BY <1>8, <1>9, <1>10, <1>11, <1>13, <1>14, <1>15, <1>16, <1>17, Zenon DEF Stage, N
<1> QED
  BY <1>18, Zenon

\* Linearizations of the keys can be merged to one of the whole history.
LEMMA LinesMerge ==
    ASSUME CountingLaws, Timed(ops), \A i \in DOMAIN ops : ops[i].input \in Input,
           \A k \in Keys : HasLine(OfKey(k))
    PROVE  Linearizable(ops)
<1> DEFINE N == Len(ops)
           LN == [k \in Keys |-> CHOOSE n \in Nat : \E g, sg : Line(OfKey(k), n, g, sg) /\ Covers(OfKey(k), n, g)]
           G == [k \in Keys |-> CHOOSE g : \E sg : Line(OfKey(k), LN[k], g, sg) /\ Covers(OfKey(k), LN[k], g)]
           SG == [k \in Keys |-> CHOOSE sg : Line(OfKey(k), LN[k], G[k], sg)]
<1>1. N \in Nat /\ DOMAIN ops = 1 .. N
  BY DEF Timed, IsSeq
<1>2. \A i \in DOMAIN ops : KeyOf(i) \in Keys
  BY Zenon DEF KeyOf, Keys
<1>3. ASSUME NEW k \in Keys PROVE IsLine(k, G, SG, LN)
  <2>1. \E n \in Nat : \E g, sg : Line(OfKey(k), n, g, sg) /\ Covers(OfKey(k), n, g)
    BY Zenon DEF HasLine
  <2>2. LN[k] \in Nat /\ \E g, sg : Line(OfKey(k), LN[k], g, sg) /\ Covers(OfKey(k), LN[k], g)
    BY <2>1, Zenon
  <2> HIDE DEF LN
  <2>3. \E sg : Line(OfKey(k), LN[k], G[k], sg) /\ Covers(OfKey(k), LN[k], G[k])
    BY <2>2, Zenon
  <2> HIDE DEF G
  <2>4. Line(OfKey(k), LN[k], G[k], SG[k])
    BY <2>3, Zenon
  <2> HIDE DEF SG
  <2> QED
    BY <2>2, <2>3, <2>4, Zenon DEF IsLine
<1> HIDE DEF LN, G, SG
<1> DEFINE S == {m \in Nat : m <= N => \E order, stores, c : Stage(m, order, stores, c, G, SG, LN)}
<1>4. 0 \in S
  <2> DEFINE order == [x \in 1 .. 0 |-> x]
             stores == [x \in 0 .. 0 |-> NoKeys]
             c == [k \in Keys |-> 0]
  <2>1. /\ order \in [1 .. 0 -> 1 .. N] /\ 1 .. 0 = {} /\ stores[0] = NoKeys
        /\ c \in [Keys -> Nat] /\ \A k \in Keys : c[k] = 0
    OBVIOUS
  <2> HIDE DEF order, stores, c
  <2>2. DOMAIN stores[0] = Keys /\ \A k \in Keys : stores[0][k] = KvInit
    BY <2>1, Zenon DEF NoKeys, Keys
  <2>3. Executes(0, order, stores)
    BY <2>1, Zenon DEF Executes
  <2>4. \A k \in Keys : LN[k] \in Nat /\ SG[k][0] = KvInit
    BY <1>3, Zenon DEF IsLine, Line
  <2>5. \A k \in Keys : c[k] <= LN[k] /\ stores[0][k] = SG[k][c[k]]
    BY <2>1, <2>2, <2>4
  <2>6. \A k \in Keys : \A i \in 1 .. LN[k] : ~(i <= c[k])
    BY <2>1, <2>4
  <2>7. Stage(0, order, stores, c, G, SG, LN)
    BY <2>1, <2>2, <2>3, <2>5, <2>6, Zenon DEF Stage
  <2> QED
    BY <2>7, Zenon
<1>5. ASSUME NEW m \in S PROVE m + 1 \in S
  <2>1. CASE m + 1 <= N
    <3>1. m \in Nat /\ m <= N /\ m < N
      BY <1>1, <2>1
    <3>2. \E order, stores, c : Stage(m, order, stores, c, G, SG, LN)
      BY <3>1, Zenon
    <3>3. PICK order, stores, c : Stage(m, order, stores, c, G, SG, LN)
      BY <3>2, Zenon
    <3>4. \E order2, stores2, c2 : Stage(m + 1, order2, stores2, c2, G, SG, LN)
      BY <1>2, <1>3, <3>1, <3>3, StageGrows, Zenon
    <3> QED
      BY <3>1, <3>4
  <2> QED
    BY <1>1, <2>1
<1> HIDE DEF S
<1>6. S = Nat
  <2>1. S \in SUBSET Nat
    BY Zenon DEF S
  <2> QED
    BY <1>4, <1>5, <2>1, NatInd, Zenon
<1>7. PICK order, stores, c : Stage(N, order, stores, c, G, SG, LN)
  BY <1>1, <1>6 DEF S
<1>8. /\ order \in [1 .. N -> 1 .. N]
      /\ \A x, y \in 1 .. N : order[x] = order[y] => x = y
      /\ \A x \in 1 .. N, j \in 1 .. N :
           ops[j].ret < ops[order[x]].call => \E y \in 1 .. x - 1 : order[y] = j
      /\ Executes(N, order, stores)
  BY <1>7, Zenon DEF Stage
<1> HIDE DEF N
<1>9. order \in Bijection(DOMAIN ops, DOMAIN ops)
  <2>1. order \in Injection(1 .. N, 1 .. N)
    BY <1>8, Zenon DEF Injection, IsInjective
  <2>2. IsFiniteSet(1 .. N)
    BY <1>1, UpTo, Zenon
  <2>3. order \in Surjection(1 .. N, 1 .. N)
    BY <2>1, <2>2, InjectionCount, Zenon
  <2> QED
    BY <1>1, <2>1, <2>3, Zenon DEF Bijection
<1>10. \A i, j \in DOMAIN order : i < j => ~(ops[order[j]].ret < ops[order[i]].call)
  <2> SUFFICES ASSUME NEW i \in 1 .. N, NEW j \in 1 .. N, i < j, ops[order[j]].ret < ops[order[i]].call
               PROVE  FALSE
    BY <1>8, Zenon
  <2>1. order[j] \in 1 .. N
    BY <1>8, Zenon
  <2>2. PICK y \in 1 .. i - 1 : order[y] = order[j]
    BY <1>8, <2>1, Zenon
  <2>3. y \in 1 .. N /\ y # j
    BY <1>1
  <2> QED
    BY <1>8, <2>2, <2>3, Zenon
<1>11. LegalRun(ops, order)
  <2>1. Len(order) = N
    BY <1>1, <1>8
  <2> QED
    BY <1>1, <1>8, <2>1, ExecutesIsLegal, Zenon
<1> QED
  BY <1>9, <1>10, <1>11, Zenon DEF Linearizable

-----------------------------------------------------------------------------
(* The laws *)

\* A history whose partitions all have a linearization has one.
LEMMA OkIsLinearizable ==
    ASSUME CountingLaws, Timed(ops), \A i \in DOMAIN ops : ops[i].input \in Input,
           NEW hs, Divides(ops, hs), \A p \in DOMAIN hs : Linearized(hs[p])
    PROVE  Linearizable(ops)
<1>1. PICK key :
        /\ \A i \in DOMAIN ops : \E p \in DOMAIN hs : key[p] = ops[i].input.key
        /\ \A p \in DOMAIN hs : \E f :
             Stands(hs[p], ops, {i \in DOMAIN ops : ops[i].input.key = key[p]}, f)
  BY Zenon DEF Divides
<1>2. ASSUME NEW k \in Keys PROVE HasLine(OfKey(k))
  <2>1. CASE OfKey(k) = {}
    BY <2>1, EmptyLine, Zenon
  <2>2. CASE OfKey(k) # {}
    <3>1. PICK i \in DOMAIN ops : ops[i].input.key = k
      BY <2>2, Zenon DEF OfKey, KeyOf
    <3>2. PICK p \in DOMAIN hs : key[p] = k
      BY <1>1, <3>1, Zenon
    <3>3. OfKey(k) = {j \in DOMAIN ops : ops[j].input.key = key[p]}
      BY <3>2, Zenon DEF OfKey, KeyOf
    <3>4. PICK f : Stands(hs[p], ops, OfKey(k), f)
      BY <1>1, <3>3, Zenon
    <3>5. Linearized(hs[p])
      BY Zenon
    <3> QED
      BY <3>4, <3>5, LinearizedHasLine, Zenon
  <2> QED
    BY <2>1, <2>2, Zenon
<1> QED
  BY <1>2, LinesMerge, Zenon

\* One with a partition that has none has none.
LEMMA RefutedIsNotLinearizable ==
    ASSUME CountingLaws, Timed(ops), \A i \in DOMAIN ops : ops[i].input \in Input,
           NEW hs, Divides(ops, hs), NEW p \in DOMAIN hs, Refuted(hs[p])
    PROVE  ~Linearizable(ops)
<1> SUFFICES ASSUME Linearizable(ops) PROVE FALSE
  BY Zenon
<1>1. PICK key :
        \A q \in DOMAIN hs : \E f :
             Stands(hs[q], ops, {i \in DOMAIN ops : ops[i].input.key = key[q]}, f)
  BY Zenon DEF Divides
<1>2. OfKey(key[p]) = {j \in DOMAIN ops : ops[j].input.key = key[p]}
  BY Zenon DEF OfKey, KeyOf
<1>3. PICK f : Stands(hs[p], ops, OfKey(key[p]), f)
  BY <1>1, <1>2, Zenon
<1>4. HasLine(OfKey(key[p]))
  BY KeyHasLine, Zenon
<1> QED
  BY <1>3, <1>4, LineIsNotRefuted, Zenon

\* A history is linearizable if each of its parts is, and only then.
LEMMA VerdictLawHolds ==
    ASSUME CountingLaws
    PROVE  VerdictLaw(ops)
<1> SUFFICES ASSUME Timed(ops), \A i \in DOMAIN ops : ops[i].input \in Input,
                    NEW hs, Divides(ops, hs)
             PROVE  /\ (\A p \in DOMAIN hs : Linearized(hs[p])) => Linearizable(ops)
                    /\ (\E p \in DOMAIN hs : Refuted(hs[p])) => ~Linearizable(ops)
  BY Zenon DEF VerdictLaw
<1>1. (\A p \in DOMAIN hs : Linearized(hs[p])) => Linearizable(ops)
  BY OkIsLinearizable, Zenon
<1>2. (\E p \in DOMAIN hs : Refuted(hs[p])) => ~Linearizable(ops)
  BY RefutedIsNotLinearizable, Zenon
<1> QED
  BY <1>1, <1>2, Zenon

\* Counting subsets of an interval, and sequences without repetitions.
LEMMA CountLawHolds ==
    ASSUME CountingLaws
    PROVE  CountLaw
<1> SUFFICES ASSUME NEW n \in Nat, NEW S \in SUBSET (1 .. n)
             PROVE  /\ Cardinality(S) \in Nat /\ Cardinality(S) <= n
                    /\ Cardinality(S) = n => S = 1 .. n
                    /\ \A x \in (1 .. n) \ S : Cardinality(S \cup {x}) = Cardinality(S) + 1
  BY EmptyCount, Zenon DEF CountLaw
<1>1. IsFiniteSet(1 .. n) /\ Cardinality(1 .. n) = n
  BY UpTo, Zenon
<1>2. /\ IsFiniteSet(S) /\ Cardinality(S) \in Nat /\ Cardinality(S) <= n
      /\ Cardinality(S) = n => S = 1 .. n
  BY <1>1, SubsetCount, CountType, Zenon
<1>3. \A x \in (1 .. n) \ S : Cardinality(S \cup {x}) = Cardinality(S) + 1
  BY <1>2, AddCount, Zenon
<1> QED
  BY <1>2, <1>3, Zenon

\* As UpTo, from 0.
LEMMA BelowCount ==
    ASSUME CountingLaws, NEW n \in Nat
    PROVE  IsFiniteSet(0 .. n - 1) /\ Cardinality(0 .. n - 1) = n
<1>1. 0 \in Int /\ n - 1 \in Int /\ (0 > n - 1 => n = 0) /\ (n - 1) - 0 + 1 = n
  OBVIOUS
<1> QED
  BY <1>1, IntervalCount, Zenon

\* A set of operations is finite and no larger than all of them.
LEMMA SmallerLawHolds ==
    ASSUME CountingLaws
    PROVE  SmallerLaw
<1> SUFFICES ASSUME NEW n \in Nat, NEW S \in SUBSET (0 .. n - 1)
             PROVE  Cardinality(S) \in Nat /\ Cardinality(S) <= n
  BY Zenon DEF SmallerLaw
<1>1. IsFiniteSet(0 .. n - 1) /\ Cardinality(0 .. n - 1) = n
  BY BelowCount, Zenon
<1>2. IsFiniteSet(S) /\ Cardinality(S) <= n
  BY <1>1, SubsetCount, Zenon
<1> QED
  BY <1>2, CountType, Zenon

\* A sequence of operations without repetitions has as many elements as it names operations.
LEMMA InjectionLawHolds ==
    ASSUME CountingLaws
    PROVE  InjectionLaw
<1> SUFFICES ASSUME NEW c \in Nat, NEW n \in Nat, NEW q \in [1 .. c -> 0 .. n - 1],
                    \A i, j \in 1 .. c : q[i] = q[j] => i = j
             PROVE  c <= n /\ Cardinality({q[i] : i \in 1 .. c}) = c
  BY Zenon DEF InjectionLaw
<1> DEFINE S == {q[i] : i \in 1 .. c}
<1>1. IsFiniteSet(1 .. c) /\ Cardinality(1 .. c) = c
  BY UpTo, Zenon
<1>2. q \in Bijection(1 .. c, S)
  <2>1. q \in [1 .. c -> S]
    BY Zenon
  <2> QED
    BY <2>1, Zenon DEF Bijection, Injection, Surjection, IsInjective
<1>3. S \in SUBSET (0 .. n - 1)
  BY Zenon
<1> HIDE DEF S
<1>4. Cardinality(S) = c
  <2>1. ExistsBijection(1 .. c, S)
    BY <1>2, Zenon DEF ExistsBijection
  <2> QED
    BY <1>1, <2>1, BijectionCount, Zenon
<1>5. IsFiniteSet(0 .. n - 1) /\ Cardinality(0 .. n - 1) = n
  BY BelowCount, Zenon
<1>6. c <= n
  <2>1. Cardinality(S) <= Cardinality(0 .. n - 1)
    BY <1>3, <1>5, SubsetCount, Zenon
  <2> QED
    BY <1>4, <1>5, <2>1, Zenon
<1> QED
  BY <1>4, <1>6, Zenon DEF S

\* Finitely many integers have a least one.
LEMMA LeastLawHolds ==
    ASSUME CountingLaws
    PROVE  LeastLaw
<1> SUFFICES ASSUME NEW n \in Nat, NEW R \in SUBSET (1 .. n), NEW f \in [R -> Int], R # {}
             PROVE  \E x \in R : \A y \in R : f[x] <= f[y]
  BY Zenon DEF LeastLaw
<1> DEFINE T == {f[x] : x \in R}
<1>1. T \in SUBSET Int /\ T # {}
  BY Zenon
<1>2. IsFiniteSet(R)
  BY UpTo, SubsetCount, Zenon
<1>3. f \in Surjection(R, T)
  <2>1. f \in [R -> T]
    BY Zenon
  <2> QED
    BY <2>1, Zenon DEF Surjection
<1>4. PICK z \in T : \A t \in T : z <= t
  <2> HIDE DEF T
  <2>1. IsFiniteSet(T)
    BY <1>2, <1>3, SurjectionCount, Zenon
  <2> QED
    BY <1>1, <2>1, FiniteHasLeast, Zenon
<1> QED
  BY <1>4, Zenon

\* The other laws of HistoryTheory.
LEMMA HistoryLawsHold ==
    ASSUME CountingLaws
    PROVE  HistoryLaws
<1>1. InductionLaw
  BY NatInd, Zenon DEF InductionLaw
<1>2. MinLaw
  BY MinInt, Zenon DEF MinLaw
<1>3. MaxLaw
  BY MaxInt, Zenon DEF MaxLaw
<1>4. TimedLaw
  BY TimedAtStart, Zenon DEF TimedLaw
<1>5. PartitionLaw
  BY PartitionDivides, Zenon DEF PartitionLaw
<1>6. EventsLaw
  BY EventsDivide, Zenon DEF EventsLaw
<1> QED
  BY <1>1, <1>2, <1>3, <1>4, <1>5, <1>6, CountLawHolds, SmallerLawHolds, InjectionLawHolds,
     LeastLawHolds, Zenon DEF HistoryLaws

=================================================================================
