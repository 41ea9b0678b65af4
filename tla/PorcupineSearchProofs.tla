------------------------- MODULE PorcupineSearchProofs --------------------------
(***************************************************************************)
(* The search of checkSingle, for entries of any number: the list of entries, *)
(* the bitset, the cache and the stack of calls agree, what the search has *)
(* left behind leads nowhere, and so what it returns is right.             *)
(***************************************************************************)
EXTENDS SearchTheory, Counting, TLAPS

---------------------------------------------------------------------------------
(* Finite sets *)

\* How many numbers an interval has.
LEMMA CountInterval ==
    ASSUME CountingLaws, NEW a \in Int, NEW b \in Int
    PROVE  IsFiniteSet(a .. b) /\ Cardinality(a .. b) = IF a > b THEN 0 ELSE b - a + 1
BY Zenon DEF CountingLaws, IntervalCountLaw

\* A subset has no more elements, and as many only if it is the whole set.
LEMMA CountSubset ==
    ASSUME CountingLaws, NEW S, IsFiniteSet(S), NEW T \in SUBSET S
    PROVE  /\ IsFiniteSet(T) /\ Cardinality(T) <= Cardinality(S)
           /\ Cardinality(S) = Cardinality(T) => S = T
BY Zenon DEF CountingLaws, SubsetCountLaw

\* The size of a finite set is a number.
LEMMA CountIsNat ==
    ASSUME CountingLaws, NEW S, IsFiniteSet(S)
    PROVE  Cardinality(S) \in Nat
BY Zenon DEF CountingLaws, CountTypeLaw

\* Adding an element adds one, unless it was there.
LEMMA CountAdd ==
    ASSUME CountingLaws, NEW S, NEW x, IsFiniteSet(S)
    PROVE  /\ IsFiniteSet(S \cup {x})
           /\ Cardinality(S \cup {x}) = IF x \in S THEN Cardinality(S) ELSE Cardinality(S) + 1
BY Zenon DEF CountingLaws, AddCountLaw

\* What is listed without repetition by 1 .. n has size n.
LEMMA CountList ==
    ASSUME CountingLaws, NEW S, NEW n \in Nat, ExistsBijection(1 .. n, S)
    PROVE  IsFiniteSet(S) /\ Cardinality(S) = n
BY Zenon DEF CountingLaws, ListCountLaw

---------------------------------------------------------------------------------
(* The linked list *)

\* The nodes S point where they pointed.
SamePointers(a, b, S) == \A x \in S : a.next[x] = b.next[x] /\ a.prev[x] = b.prev[x]

\* Taking a node out leaves a list of the others, and the node keeps pointing to where it was.
LEMMA UnlinkLinks ==
    ASSUME NEW m \in Nat, NEW L \in SUBSET (1 .. m), NEW list, Linked(list, m, L), NEW n \in L
    PROVE  /\ Linked(Unlink(list, n), m, L \ {n})
           /\ Points(Unlink(list, n), L \ {n}, n)
           /\ SamePointers(Unlink(list, n), list, ((1 .. m) \ L) \cup {n})
<1> DEFINE x == list.prev[n]
           y == list.next[n]
           u == Unlink(list, n)
<1>1. /\ u.next = [list.next EXCEPT ![x] = y]
      /\ u.prev = IF y = Nil THEN list.prev ELSE [list.prev EXCEPT ![y] = x]
  BY Zenon DEF Unlink, Link
<1>2. /\ x \in L \cup {0} /\ x \in 0 .. m /\ x \in Int /\ x < n
      /\ \A k \in L \cup {0} : k < n => k <= x
  <2>1. IsPrev(L, n, x)
    BY Zenon DEF Linked
  <2>2. L \cup {0} \subseteq 0 .. m
    OBVIOUS
  <2> HIDE DEF x
  <2> QED
    BY <2>1, <2>2 DEF IsPrev
<1>3. \/ y = Nil /\ \A k \in L : k <= n
      \/ y \in L /\ y \in 1 .. m /\ n < y /\ \A k \in L : n < k => y <= k
  BY Zenon DEF Linked, IsNext
<1>4. list.next \in [0 .. m -> (1 .. m) \cup {Nil}] /\ list.prev \in [0 .. m -> (0 .. m) \cup {Nil}]
  BY Zenon DEF Linked
<1>5. \A z \in L : z \in Int /\ z > 0 /\ z \in 0 .. m
  OBVIOUS
<1>6. Nil \in Int /\ Nil < 0
  BY DEF Nil
<1> HIDE DEF x, y, u
<1>7. u.next \in [0 .. m -> (1 .. m) \cup {Nil}] /\ u.prev \in [0 .. m -> (0 .. m) \cup {Nil}]
  BY <1>1, <1>2, <1>3, <1>4
<1>8. ASSUME NEW z \in (L \ {n}) \cup {0} PROVE IsNext(L \ {n}, z, u.next[z])
  <2>1. IsNext(L, z, list.next[z])
    BY Zenon DEF Linked
  <2>2. CASE z = x
    <3>1. u.next[z] = y
      BY <1>1, <1>2, <1>4, <2>2, Zenon
    <3>2. ASSUME NEW k \in L \ {n}, z < k PROVE n < k
      <4>1. n \in Int /\ k \in Int /\ x \in Int /\ k \in L \cup {0} /\ k # n
        BY <1>2, <1>5, Zenon
      <4>2. k < n => k <= x
        BY <1>2, <4>1, Zenon
      <4> QED
        BY <2>2, <3>2, <4>1, <4>2
    <3>3. CASE y = Nil
      BY <1>3, <1>5, <1>6, <2>2, <3>1, <3>2, <3>3 DEF IsNext
    <3>4. CASE y # Nil
      <4>1. y \in L \ {n} /\ z < y
        BY <1>2, <1>3, <1>5, <2>2, <3>4
      <4>2. \A k \in L \ {n} : z < k => y <= k
        BY <1>3, <3>2, <3>4, Zenon
      <4> QED
        BY <3>1, <4>1, <4>2, Zenon DEF IsNext
    <3> QED
      BY <3>3, <3>4, Zenon
  <2>3. CASE z # x
    <3>1. u.next[z] = list.next[z]
      BY <1>1, <1>4, <2>3
    <3>2. list.next[z] # n
      BY <1>2, <1>5, <1>6, <2>1, <2>3 DEF IsNext
    <3> DEFINE w == list.next[z]
    <3>3. IsNext(L, z, w) /\ u.next[z] = w /\ w # n
      BY <2>1, <3>1, <3>2, Zenon
    <3> HIDE DEF w
    <3>4. IsNext(L \ {n}, z, w)
      BY <3>3, Zenon DEF IsNext
    <3> QED
      BY <3>3, <3>4, Zenon
  <2> QED
    BY <2>2, <2>3, Zenon
<1>9. ASSUME NEW z \in L \ {n} PROVE IsPrev(L \ {n}, z, u.prev[z])
  <2>1. IsPrev(L, z, list.prev[z])
    BY Zenon DEF Linked
  <2>2. CASE z = y
    <3>1. u.prev[z] = x
      BY <1>1, <1>3, <1>4, <1>5, <1>6, <2>2
    <3> QED
      BY <1>2, <1>3, <1>5, <1>6, <2>2, <3>1 DEF IsPrev
  <2>3. CASE z # y
    <3>1. u.prev[z] = list.prev[z]
      BY <1>1, <1>4, <2>3
    <3>2. list.prev[z] # n
      BY <1>3, <1>5, <1>6, <2>1, <2>3 DEF IsPrev
    <3> QED
      BY <2>1, <3>1, <3>2, Zenon DEF IsPrev
  <2> QED
    BY <2>2, <2>3, Zenon
<1>10. SamePointers(u, list, ((1 .. m) \ L) \cup {n})
  <2> SUFFICES ASSUME NEW z \in ((1 .. m) \ L) \cup {n}
               PROVE  u.next[z] = list.next[z] /\ u.prev[z] = list.prev[z]
    BY Zenon DEF SamePointers
  <2>1. z # x /\ z # y
    BY <1>2, <1>3, <1>5, <1>6
  <2> QED
    BY <1>1, <1>4, <2>1
<1>11. Points(u, L \ {n}, n)
  <2>1. u.next[n] = y /\ u.prev[n] = x
    BY <1>10, Zenon DEF SamePointers, x, y
  <2> QED
    BY <1>2, <1>3, <1>5, <2>1 DEF Points, IsNext, IsPrev
<1> QED
  BY <1>7, <1>8, <1>9, <1>10, <1>11, Zenon DEF Linked, u

\* A node that still points to its neighbours can be put back.
LEMMA RelinkLinks ==
    ASSUME NEW m \in Nat, NEW L \in SUBSET (1 .. m), NEW list, Linked(list, m, L),
           NEW n \in (1 .. m) \ L, Points(list, L, n)
    PROVE  /\ Linked(Relink(list, n), m, L \cup {n})
           /\ SamePointers(Relink(list, n), list, (1 .. m) \ L)
<1> DEFINE x == list.prev[n]
           y == list.next[n]
           u == Relink(list, n)
<1>1. /\ u.next = [list.next EXCEPT ![x] = n]
      /\ u.prev = IF y = Nil THEN list.prev ELSE [list.prev EXCEPT ![y] = n]
  BY Zenon DEF Relink
<1>2. /\ x \in L \cup {0} /\ x \in 0 .. m /\ x \in Int /\ x < n
      /\ \A k \in L \cup {0} : k < n => k <= x
  <2>1. IsPrev(L, n, x)
    BY Zenon DEF Points
  <2>2. L \cup {0} \subseteq 0 .. m
    OBVIOUS
  <2> HIDE DEF x
  <2> QED
    BY <2>1, <2>2 DEF IsPrev
<1>3. \/ y = Nil /\ \A k \in L : k <= n
      \/ y \in L /\ y \in 1 .. m /\ n < y /\ \A k \in L : n < k => y <= k
  BY Zenon DEF Points, IsNext
<1>4. list.next \in [0 .. m -> (1 .. m) \cup {Nil}] /\ list.prev \in [0 .. m -> (0 .. m) \cup {Nil}]
  BY Zenon DEF Linked
<1>5. n \in Int /\ n > 0 /\ n \in 0 .. m /\ \A z \in L : z \in Int /\ z > 0 /\ z \in 0 .. m /\ z # n
  OBVIOUS
<1>6. Nil \in Int /\ Nil < 0
  BY DEF Nil
<1>7. list.next[n] = y /\ list.prev[n] = x
  BY Zenon
<1> HIDE DEF x, y, u
<1>8. u.next \in [0 .. m -> (1 .. m) \cup {Nil}] /\ u.prev \in [0 .. m -> (0 .. m) \cup {Nil}]
  BY <1>1, <1>2, <1>3, <1>4
<1>9. SamePointers(u, list, (1 .. m) \ L)
  <2> SUFFICES ASSUME NEW z \in (1 .. m) \ L
               PROVE  u.next[z] = list.next[z] /\ u.prev[z] = list.prev[z]
    BY Zenon DEF SamePointers
  <2>1. z # x /\ z # y
    BY <1>2, <1>3, <1>5, <1>6
  <2> QED
    BY <1>1, <1>4, <2>1
<1>10. ASSUME NEW z \in (L \cup {n}) \cup {0} PROVE IsNext(L \cup {n}, z, u.next[z])
  <2>1. CASE z = n
    <3>1. u.next[z] = y
      BY <1>5, <1>7, <1>9, <2>1, Zenon DEF SamePointers
    <3> QED
      BY <1>3, <1>5, <2>1, <3>1 DEF IsNext
  <2>2. CASE z = x
    <3>1. u.next[z] = n
      BY <1>1, <1>2, <1>4, <2>2, Zenon
    <3> QED
      BY <1>2, <1>5, <2>2, <3>1 DEF IsNext
  <2>3. CASE z # x /\ z # n
    <3> DEFINE w == list.next[z]
    <3>1. z \in L \cup {0} /\ z \in 0 .. m
      BY <1>5, <2>3
    <3>10. IsNext(L, z, w)
      BY <3>1, Zenon DEF Linked
    <3>11. u.next[z] = w
      BY <1>1, <1>4, <2>3, <3>1, Zenon
    <3>4. u.next[z] = w /\ IsNext(L, z, w)
      BY <3>10, <3>11, Zenon
    <3> HIDE DEF w
    <3>5. (w = Nil \/ w \in L) /\ z \in L \cup {0}
      BY <2>3, <3>4, Zenon DEF IsNext
    <3>8. z \in Int
      BY <1>5, <3>5
    <3>9. w \in Int
      BY <1>5, <1>6, <3>5, Zenon
    <3>3. w \in L \cup {Nil} /\ w \in Int /\ z \in Int
      BY <3>5, <3>8, <3>9, Zenon
    <3>2. z < n => w \in L /\ w < n
      BY <1>2, <1>5, <1>6, <2>3, <3>3, <3>4 DEF IsNext
    <3>6. CASE w = Nil
      BY <1>5, <1>6, <2>3, <3>2, <3>4, <3>3, <3>6 DEF IsNext
    <3>7. CASE w # Nil
      <4>1. w \in L \cup {n} /\ z < w /\ \A k \in L : z < k => w <= k
        BY <3>4, <3>7, Zenon DEF IsNext
      <4>2. z < n => w <= n
        BY <1>5, <3>2, <3>3
      <4> QED
        BY <3>4, <4>1, <4>2, Zenon DEF IsNext
    <3> QED
      BY <3>6, <3>7, Zenon
  <2> QED
    BY <2>1, <2>2, <2>3, Zenon
<1>11. ASSUME NEW z \in L \cup {n} PROVE IsPrev(L \cup {n}, z, u.prev[z])
  <2> DEFINE v == u.prev[z]
  <2>1. CASE z = n
    <3>1. v = x
      BY <1>5, <1>7, <1>9, <2>1, Zenon DEF SamePointers
    <3>2. ASSUME NEW k \in (L \cup {n}) \cup {0}, k < z PROVE k <= x
      BY <1>2, <1>5, <2>1, <3>2
    <3> HIDE DEF v
    <3> QED
      BY <1>2, <2>1, <3>1, <3>2, Zenon DEF IsPrev, v
  <2>2. CASE z = y
    <3>1. v = n
      BY <1>1, <1>3, <1>4, <1>5, <1>6, <2>2
    <3>2. n < z
      BY <1>3, <1>5, <1>6, <2>2
    <3>3. ASSUME NEW k \in (L \cup {n}) \cup {0}, k < z PROVE k <= n
      BY <1>3, <1>5, <1>6, <2>2, <3>3
    <3> HIDE DEF v
    <3> QED
      BY <3>1, <3>2, <3>3, Zenon DEF IsPrev, v
  <2>3. CASE z # y /\ z # n
    <3> DEFINE w == list.prev[z]
    <3>1. z \in L /\ z \in 0 .. m /\ z \in Int
      BY <1>5, <2>3, Zenon
    <3>2. IsPrev(L, z, w)
      BY <3>1, Zenon DEF Linked
    <3>3. v = w
      BY <1>1, <1>4, <2>3, <3>1, Zenon
    <3> HIDE DEF v, w
    <3>4. w \in L \cup {0} /\ w < z /\ \A k \in L \cup {0} : k < z => k <= w
      BY <3>2, Zenon DEF IsPrev
    <3>5. w \in Int
      BY <1>5, <3>4
    <3>6. n < z => n < w
      BY <1>3, <1>5, <1>6, <2>3, <3>1, <3>4, <3>5
    <3>7. ASSUME NEW k \in (L \cup {n}) \cup {0}, k < z PROVE k <= w
      BY <1>5, <3>4, <3>5, <3>6, <3>7
    <3> QED
      BY <3>3, <3>4, <3>7, Zenon DEF IsPrev, v
  <2> QED
    BY <2>1, <2>2, <2>3, Zenon
<1> QED
  BY <1>8, <1>9, <1>10, <1>11, Zenon DEF Linked, u

\* So match leads from a call to its return.
LEMMA Pairs ==
    ASSUME NEW h, WellFormed(h), NEW id \in Ids(h)
    PROVE  /\ CallOf(h, id) \in DOMAIN h /\ ReturnOf(h, id) \in DOMAIN h
           /\ CallOf(h, id) < ReturnOf(h, id)
           /\ h[CallOf(h, id)].kind = "call" /\ h[ReturnOf(h, id)].kind = "return"
           /\ \A k \in DOMAIN h : h[k].id = id <=> k \in {CallOf(h, id), ReturnOf(h, id)}
           /\ Match(h, CallOf(h, id)) = ReturnOf(h, id)
<1>1. PICK c, r \in DOMAIN h :
         /\ c < r /\ h[c].kind = "call" /\ h[r].kind = "return"
         /\ \A k \in DOMAIN h : h[k].id = id <=> k \in {c, r}
  BY Zenon DEF WellFormed
<1>2. CallOf(h, id) = c
  <2>1. ASSUME NEW k \in DOMAIN h PROVE (h[k].id = id /\ h[k].kind = "call") <=> k = c
    BY <1>1, Zenon
  <2> QED
    BY <2>1, Zenon DEF CallOf
<1>3. ReturnOf(h, id) = r
  <2>1. ASSUME NEW k \in DOMAIN h PROVE (h[k].id = id /\ h[k].kind = "return") <=> k = r
    BY <1>1, Zenon
  <2> QED
    BY <2>1, Zenon DEF ReturnOf
<1>4. Match(h, c) = r
  <2>1. ASSUME NEW k \in DOMAIN h PROVE (h[k].kind = "return" /\ h[k].id = h[c].id) <=> k = r
    BY <1>1, SMTT(30)
  <2> QED
    BY <1>1, <2>1, Zenon DEF Match
<1> QED
  BY <1>1, <1>2, <1>3, <1>4, Zenon

\* An entry is the call or the return of its operation.
LEMMA Matches ==
    ASSUME NEW h, WellFormed(h), NEW k \in DOMAIN h
    PROVE  /\ h[k].id \in Ids(h)
           /\ k \in Int /\ k > 0
           /\ \/ h[k].kind = "call" /\ k = CallOf(h, h[k].id) /\ Match(h, k) = ReturnOf(h, h[k].id)
              \/ h[k].kind = "return" /\ k = ReturnOf(h, h[k].id) /\ Match(h, k) = Nil
           /\ Match(h, k) # Nil <=> h[k].kind = "call"
<1>1. h[k].id \in Ids(h) /\ k \in Int /\ k > 0
  BY DEF WellFormed
<1>2. /\ ReturnOf(h, h[k].id) \in DOMAIN h
      /\ h[CallOf(h, h[k].id)].kind = "call" /\ h[ReturnOf(h, h[k].id)].kind = "return"
      /\ k \in {CallOf(h, h[k].id), ReturnOf(h, h[k].id)}
      /\ Match(h, CallOf(h, h[k].id)) = ReturnOf(h, h[k].id)
  BY <1>1, Pairs
<1>3. ReturnOf(h, h[k].id) # Nil
  BY <1>2 DEF WellFormed, Nil
<1>4. CASE k = CallOf(h, h[k].id)
  BY <1>1, <1>2, <1>3, <1>4, SMTT(30)
<1>5. CASE k = ReturnOf(h, h[k].id)
  <2>1. h[k].kind = "return"
    BY <1>2, <1>5, Zenon
  <2>2. Match(h, k) = Nil
    BY <2>1, Zenon DEF Match
  <2> QED
    BY <1>1, <1>5, <2>1, <2>2, SMTT(30)
<1> QED
  BY <1>2, <1>4, <1>5, Zenon

---------------------------------------------------------------------------------
(* Bitsets *)

\* Arithmetic: products, quotients and remainders.
LEMMA Times ==
    ASSUME NEW a \in Nat, NEW b \in Nat, NEW w \in Nat, a <= b
    PROVE  w * a <= w * b
<1>1. w * b = w * a + w * (b - a)
  BY Z3
<1>2. w * (b - a) \in Nat
  <2> DEFINE c == b - a
  <2>1. c \in Nat
    OBVIOUS
  <2> HIDE DEF c
  <2>2. w * c \in Nat
    BY <2>1
  <2> QED
    BY <2>2, Zenon DEF c
<1>3. w * a \in Nat /\ w * b \in Nat
  OBVIOUS
<1> QED
  BY <1>1, <1>2, <1>3

\* Quotient and remainder by the size of a word.
LEMMA DivMod ==
    ASSUME NEW n \in Nat, NEW w \in Nat \ {0}
    PROVE  n \div w \in Nat /\ n % w \in 0 .. w - 1 /\ n = w * (n \div w) + (n % w)
  BY Z3

\* No other number is the quotient.
LEMMA DivUnique ==
    ASSUME NEW n \in Nat, NEW w \in Nat \ {0}, NEW q \in Nat, NEW r \in 0 .. w - 1, n = w * q + r
    PROVE  n \div w = q
<1> DEFINE t == n \div w
<1>1. t \in Nat /\ n % w \in 0 .. w - 1 /\ n = w * t + (n % w)
  BY DivMod, Zenon
<1> HIDE DEF t
<1>2. w * t \in Nat /\ w * q \in Nat /\ w * (t + 1) = w * t + w /\ w * (q + 1) = w * q + w
  BY <1>1
<1>3. ~(t + 1 <= q)
  <2> SUFFICES ASSUME t + 1 <= q PROVE FALSE
    BY Zenon
  <2>1. w * (t + 1) <= w * q
    BY <1>1, Times
  <2> QED
    BY <1>1, <1>2, <2>1
<1>4. ~(q + 1 <= t)
  <2> SUFFICES ASSUME q + 1 <= t PROVE FALSE
    BY Zenon
  <2>1. w * (q + 1) <= w * t
    BY <1>1, Times
  <2> QED
    BY <1>1, <1>2, <2>1
<1> QED
  BY <1>1, <1>3, <1>4 DEF t

\* newBitset rounds up: there is a word for each id.
LEMMA DivUp ==
    ASSUME NEW n \in Nat, NEW w \in Nat \ {0}
    PROVE  /\ (n + w - 1) \div w = (n \div w) + (IF n % w # 0 THEN 1 ELSE 0)
           /\ \A id \in 0 .. n - 1 : id \div w \in 0 .. ((n + w - 1) \div w) - 1
<1> DEFINE q == n \div w
           r == n % w
           e == IF r # 0 THEN 1 ELSE 0
           u == (n + w - 1) \div w
<1>1. q \in Nat /\ r \in 0 .. w - 1 /\ n = w * q + r
  BY DivMod, Zenon
<1> HIDE DEF q, r
<1>2. u = q + e
  <2>1. CASE r = 0
    <3>1. n + w - 1 \in Nat /\ w - 1 \in 0 .. w - 1 /\ n + w - 1 = w * q + (w - 1)
      BY <1>1, <2>1
    <3> QED
      BY <1>1, <2>1, <3>1, DivUnique
  <2>2. CASE r # 0
    <3>1. n + w - 1 \in Nat /\ r - 1 \in 0 .. w - 1 /\ q + 1 \in Nat
      BY <1>1, <2>2
    <3>2. n + w - 1 = w * (q + 1) + (r - 1)
      <4>1. w * (q + 1) = w * q + w /\ w * q \in Nat
        BY <1>1
      <4> QED
        BY <1>1, <4>1
    <3> QED
      BY <1>1, <2>2, <3>1, <3>2, DivUnique, Zenon
  <2> QED
    BY <2>1, <2>2, Zenon
<1>3. u \in Nat
  BY <1>1, <1>2
<1>4. ASSUME NEW id \in 0 .. n - 1 PROVE id \div w \in 0 .. u - 1
  <2> DEFINE t == id \div w
  <2>0. id \in Nat
    OBVIOUS
  <2>1. t \in Nat /\ id % w \in 0 .. w - 1 /\ id = w * t + (id % w)
    BY <2>0, DivMod, Zenon
  <2> HIDE DEF t, u
  <2>2. ~(q + e <= t)
    <3> SUFFICES ASSUME q + e <= t PROVE FALSE
      BY Zenon
    <3>1. w * q \in Nat /\ w * t \in Nat /\ w * (q + 1) = w * q + w
      BY <1>1, <2>1
    <3>2. CASE r = 0
      <4>1. w * q <= w * t
        BY <1>1, <2>1, <3>2, Times
      <4> QED
        BY <1>1, <2>1, <3>1, <3>2, <4>1
    <3>3. CASE r # 0
      <4>1. w * (q + 1) <= w * t
        BY <1>1, <2>1, <3>3, Times
      <4> QED
        BY <1>1, <2>1, <3>1, <3>3, <4>1
    <3> QED
      BY <3>2, <3>3, Zenon
  <2> QED
    BY <1>1, <1>2, <1>3, <2>1, <2>2 DEF t
<1> QED
  BY <1>2, <1>4, Zenon DEF q, r

\* Ids have places of their own in the words of a bitset.
LEMMA BitPlaces ==
    ASSUME NEW h, Len(h) \in Nat
    PROVE  /\ \A id \in Ids(h) : /\ id % Word \in 0 .. Word - 1
                                 /\ id \div Word \in 0 .. (((Len(h) \div 2) + Word - 1) \div Word) - 1
           /\ \A i, j \in Ids(h) : i % Word = j % Word /\ i \div Word = j \div Word => i = j
<1>1. Len(h) \div 2 \in Nat /\ Word \in Nat \ {0}
  BY WordAssumption
<1>2. Ids(h) \subseteq Nat
  BY DEF Ids
<1>3. ASSUME NEW i \in Nat
      PROVE i % Word \in 0 .. Word - 1 /\ i = Word * (i \div Word) + (i % Word)
  BY <1>1, DivMod, Zenon
<1> DEFINE n == Len(h) \div 2
<1>4. \A id \in 0 .. n - 1 : id \div Word \in 0 .. ((n + Word - 1) \div Word) - 1
  BY <1>1, DivUp, Zenon
<1>5. ASSUME NEW id \in Ids(h)
      PROVE  id % Word \in 0 .. Word - 1 /\ id \div Word \in 0 .. ((n + Word - 1) \div Word) - 1
  BY <1>2, <1>3, <1>4, Zenon DEF Ids
<1>6. ASSUME NEW i \in Ids(h), NEW j \in Ids(h), i % Word = j % Word, i \div Word = j \div Word
      PROVE  i = j
  <2>1. i = Word * (i \div Word) + (i % Word) /\ j = Word * (j \div Word) + (j % Word)
    BY <1>2, <1>3, Zenon
  <2> QED
    BY <1>6, <2>1, Zenon
<1> QED
  BY <1>5, <1>6, Zenon

\* newBitset, set and clear, for the set of ids that a bitset holds.
LEMMA EmptyBitset ==
    ASSUME NEW h, Len(h) \in Nat
    PROVE  newBitset(Len(h) \div 2) \in BitsetFor(h) /\ Bits(h, newBitset(Len(h) \div 2)) = {}
<1> DEFINE n == Len(h) \div 2
           b == newBitset(n)
<1>1. n \in Nat /\ Word \in Nat \ {0}
  BY WordAssumption
<1>2. b = [w \in 0 .. ((n + Word - 1) \div Word) - 1 |-> {}]
  <2>1. (n + Word - 1) \div Word = (n \div Word) + (IF n % Word # 0 THEN 1 ELSE 0)
    BY <1>1, DivUp, Zenon
  <2> DEFINE c == (n \div Word) + (IF n % Word # 0 THEN 1 ELSE 0)
  <2> DEFINE e == IF n % Word # 0 THEN 1 ELSE 0
  <2>3. b = [w \in 0 .. (n \div Word) + e - 1 |-> {}]
    BY Zenon DEF newBitset
  <2>4. (n \div Word) + e - 1 = c - 1
    BY <1>1
  <2>2. b = [w \in 0 .. c - 1 |-> {}]
    BY <2>3, <2>4, Zenon
  <2> HIDE DEF n, b
  <2> QED
    BY <2>1, <2>2, Zenon
<1> HIDE DEF n, b
<1>3. \A id \in Ids(h) : id \div Word \in 0 .. ((n + Word - 1) \div Word) - 1
  BY BitPlaces, Zenon DEF n
<1>4. Bits(h, b) = {}
  BY <1>2, <1>3, Zenon DEF Bits
<1>5. b \in BitsetFor(h)
  BY <1>2, Zenon DEF BitsetFor, n
<1> QED
  BY <1>4, <1>5, Zenon DEF n, b

\* set() adds one operation to those whose bit is set.
LEMMA SetBit ==
    ASSUME NEW h, Len(h) \in Nat, NEW b \in BitsetFor(h), NEW id \in Ids(h)
    PROVE  set(b, id) \in BitsetFor(h) /\ Bits(h, set(b, id)) = Bits(h, b) \cup {id}
<1>1. /\ \A i \in Ids(h) : i % Word \in 0 .. Word - 1 /\ i \div Word \in DOMAIN b
      /\ \A i, j \in Ids(h) : i % Word = j % Word /\ i \div Word = j \div Word => i = j
  BY BitPlaces, Zenon DEF BitsetFor
<1>2. set(b, id) \in BitsetFor(h)
  BY <1>1, Zenon DEF set, BitsetFor
<1>3. ASSUME NEW i \in Ids(h)
      PROVE  i % Word \in set(b, id)[i \div Word] <=> i % Word \in b[i \div Word] \/ i = id
  BY <1>1, Zenon DEF set
<1> QED
  BY <1>2, <1>3, Zenon DEF Bits

\* clear() takes one away.
LEMMA ClearBit ==
    ASSUME NEW h, Len(h) \in Nat, NEW b \in BitsetFor(h), NEW id \in Ids(h)
    PROVE  clear(b, id) \in BitsetFor(h) /\ Bits(h, clear(b, id)) = Bits(h, b) \ {id}
<1>1. /\ \A i \in Ids(h) : i % Word \in 0 .. Word - 1 /\ i \div Word \in DOMAIN b
      /\ \A i, j \in Ids(h) : i % Word = j % Word /\ i \div Word = j \div Word => i = j
  BY BitPlaces, Zenon DEF BitsetFor
<1>2. clear(b, id) \in BitsetFor(h)
  BY <1>1, Zenon DEF clear, BitsetFor
<1>3. ASSUME NEW i \in Ids(h)
      PROVE  i % Word \in clear(b, id)[i \div Word] <=> i % Word \in b[i \div Word] /\ i # id
  BY <1>1, Zenon DEF clear
<1> QED
  BY <1>2, <1>3, Zenon DEF Bits

\* lift takes a call and its return out of the list, and both keep pointing to where they were.
LEMMA LiftLinks ==
    ASSUME NEW m \in Nat, NEW L \in SUBSET (1 .. m), NEW list, Linked(list, m, L),
           NEW e \in L, NEW r \in L, r # e
    PROVE  LET l == lift(list, e, r)
           IN  /\ Linked(l, m, (L \ {e}) \ {r})
               /\ Points(l, L \ {e}, e) /\ Points(l, (L \ {e}) \ {r}, r)
               /\ SamePointers(l, list, (1 .. m) \ L)
<1> DEFINE a == Unlink(list, e)
           l == Unlink(a, r)
           L1 == L \ {e}
           L2 == L1 \ {r}
<1>1. Linked(a, m, L1) /\ Points(a, L1, e) /\ SamePointers(a, list, ((1 .. m) \ L) \cup {e})
  BY UnlinkLinks, Zenon
<1>2. L1 \in SUBSET (1 .. m) /\ r \in L1
  BY Zenon
<1> HIDE DEF a, L1
<1>3. Linked(l, m, L2) /\ Points(l, L2, r) /\ SamePointers(l, a, ((1 .. m) \ L1) \cup {r})
  BY <1>1, <1>2, UnlinkLinks, Zenon
<1> HIDE DEF l, L2
<1>4. e \in (1 .. m) \ L1 /\ (1 .. m) \ L \subseteq (1 .. m) \ L1
  BY Zenon DEF L1
<1>5. Points(l, L1, e)
  BY <1>1, <1>3, <1>4, Zenon DEF Points, SamePointers
<1>6. SamePointers(l, list, (1 .. m) \ L)
  BY <1>1, <1>3, <1>4, Zenon DEF SamePointers
<1> QED
  BY <1>3, <1>5, <1>6, Zenon DEF lift, a, l, L1, L2

\* unlift puts back what was lifted last.
LEMMA UnliftLinks ==
    ASSUME NEW m \in Nat, NEW L \in SUBSET (1 .. m), NEW list, NEW e \in L, NEW r \in L, r # e,
           Linked(list, m, (L \ {e}) \ {r}),
           Points(list, L \ {e}, e), Points(list, (L \ {e}) \ {r}, r)
    PROVE  Linked(unlift(list, e, r), m, L) /\ SamePointers(unlift(list, e, r), list, (1 .. m) \ L)
<1> DEFINE a == Relink(list, r)
           l == Relink(a, e)
           L1 == L \ {e}
           L2 == L1 \ {r}
<1>0. L2 \in SUBSET (1 .. m) /\ r \in (1 .. m) \ L2 /\ L2 \cup {r} = L1
  BY Zenon
<1>1. Linked(a, m, L1) /\ SamePointers(a, list, (1 .. m) \ L2)
  <2> HIDE DEF L1, L2, a
  <2> QED
    BY <1>0, RelinkLinks DEF L1, L2, a
<1>2. L1 \in SUBSET (1 .. m) /\ e \in (1 .. m) \ L1 /\ e \in (1 .. m) \ L2 /\ L1 \cup {e} = L
  BY Zenon
<1>3. Points(a, L1, e)
  <2> HIDE DEF a, L1, L2
  <2> QED
    BY <1>1, <1>2, Zenon DEF Points, SamePointers, L1
<1>4. (1 .. m) \ L \subseteq (1 .. m) \ L1 /\ (1 .. m) \ L \subseteq (1 .. m) \ L2
  BY Zenon
<1> HIDE DEF a, L1, L2
<1>5. Linked(l, m, L) /\ SamePointers(l, a, (1 .. m) \ L1)
  BY <1>1, <1>2, <1>3, RelinkLinks, Zenon
<1>6. SamePointers(l, list, (1 .. m) \ L)
  BY <1>1, <1>4, <1>5, Zenon DEF SamePointers
<1> QED
  BY <1>5, <1>6, Zenon DEF unlift, a

---------------------------------------------------------------------------------
(* The stack of calls *)

\* Stacks that agree up to i have taken and left the same there.
LEMMA SamePrefix ==
    ASSUME NEW h, NEW a, NEW b, NEW i \in Nat, \A j \in 1 .. i : a[j] = b[j]
    PROVE  Taken(h, a, i) = Taken(h, b, i) /\ Listed(h, a, i) = Listed(h, b, i)
<1>1. Taken(h, a, i) = Taken(h, b, i)
  BY Zenon DEF Taken
<1> QED
  BY <1>1, Zenon DEF Listed

\* The i-th call of the stack takes one operation, and its two entries, from what was left.
LEMMA Level ==
    ASSUME NEW h, WellFormed(h), NEW calls, NEW i \in Nat \ {0},
           calls[i].entry \in Listed(h, calls, i - 1), h[calls[i].entry].kind = "call"
    PROVE  LET e == calls[i].entry
               r == Match(h, e)
           IN  /\ e \in DOMAIN h /\ r \in DOMAIN h /\ e < r
               /\ h[e].id \in Ids(h) /\ CallOf(h, h[e].id) = e /\ ReturnOf(h, h[e].id) = r
               /\ h[e].id \notin Taken(h, calls, i - 1)
               /\ Taken(h, calls, i) = Taken(h, calls, i - 1) \cup {h[e].id}
               /\ e \in Listed(h, calls, i - 1) /\ r \in Listed(h, calls, i - 1) /\ r # e
               /\ Listed(h, calls, i) = (Listed(h, calls, i - 1) \ {e}) \ {r}
<1> DEFINE e == calls[i].entry
           r == Match(h, e)
           id == h[e].id
<1>1. e \in DOMAIN h /\ id \notin Taken(h, calls, i - 1)
  BY Zenon DEF Listed
<1>2. id \in Ids(h) /\ e = CallOf(h, id) /\ r = ReturnOf(h, id)
  BY <1>1, Matches, Zenon
<1>3. /\ r \in DOMAIN h /\ e < r /\ r # e
      /\ \A k \in DOMAIN h : h[k].id = id <=> k \in {e, r}
  <2> HIDE DEF e, r, id
  <2>1. r \in DOMAIN h /\ e < r /\ \A k \in DOMAIN h : h[k].id = id <=> k \in {e, r}
    BY <1>2, Pairs
  <2>2. e \in Int /\ r \in Int
    BY <1>1, <2>1, Matches, Zenon
  <2> QED
    BY <2>1, <2>2
<1>4. Taken(h, calls, i) = Taken(h, calls, i - 1) \cup {id}
  <2>1. 1 .. i = (1 .. i - 1) \cup {i}
    OBVIOUS
  <2> QED
    BY <2>1, Zenon DEF Taken
<1> HIDE DEF e, r, id
<1>5. r \in Listed(h, calls, i - 1) /\ e \in Listed(h, calls, i - 1)
  BY <1>1, <1>3, Zenon DEF Listed
<1>6. Listed(h, calls, i) = (Listed(h, calls, i - 1) \ {e}) \ {r}
  BY <1>3, <1>4, Zenon DEF Listed
<1> QED
  BY <1>1, <1>2, <1>3, <1>4, <1>5, <1>6, Zenon DEF e, r, id

\* The elements of a stack after a push and after a pop.
LEMMA Pushed ==
    ASSUME NEW c, IsSeq(c), NEW x
    PROVE  /\ IsSeq(Append(c, x))
           /\ Len(c) \in Nat /\ Len(Append(c, x)) = Len(c) + 1
           /\ \A j \in 1 .. Len(c) : Append(c, x)[j] = c[j]
           /\ Append(c, x)[Len(c) + 1] = x
<1>1. PICK S : c \in Seq(S)
  BY Zenon DEF IsSeq
<1>2. c \in Seq(S \cup {x}) /\ x \in S \cup {x}
  BY <1>1
<1> QED
  BY <1>2 DEF IsSeq

\* What is on the stack when its last call is taken off.
LEMMA Popped ==
    ASSUME NEW c, IsSeq(c), c # <<>>
    PROVE  /\ IsSeq(SubSeq(c, 1, Len(c) - 1))
           /\ Len(c) \in Nat \ {0} /\ Len(SubSeq(c, 1, Len(c) - 1)) = Len(c) - 1
           /\ \A j \in 1 .. Len(c) - 1 : SubSeq(c, 1, Len(c) - 1)[j] = c[j]
<1>1. PICK S : c \in Seq(S)
  BY Zenon DEF IsSeq
<1>2. Len(c) \in Nat \ {0} /\ Len(c) - 1 \in Nat /\ Len(c) - 1 <= Len(c)
  BY <1>1
<1> DEFINE n == Len(c) - 1
<1>n. n \in Nat /\ n <= Len(c)
  BY <1>2, Zenon
<1> HIDE DEF n
<1>3. /\ SubSeq(c, 1, n) \in Seq(S) /\ Len(SubSeq(c, 1, n)) = n
      /\ \A j \in 1 .. n : SubSeq(c, 1, n)[j] = c[j]
  BY <1>1, <1>n
<1> QED
  BY <1>2, <1>3, Zenon DEF IsSeq, n

\* The head points to the first node that is left.
LEMMA FirstListed ==
    ASSUME NEW m \in Nat, NEW L \in SUBSET (1 .. m), NEW list, Linked(list, m, L)
    PROVE  /\ list.next[headEntry] \in L \cup {Nil}
           /\ list.next[headEntry] = Nil <=> L = {}
           /\ \A k \in L : list.next[headEntry] <= k
<1>1. IsNext(L, 0, list.next[0])
  BY Zenon DEF Linked
<1> DEFINE y == list.next[0]
<1>2. IsNext(L, 0, y)
  BY <1>1, Zenon
<1>3. Nil = -1 /\ \A k \in L : k > 0 /\ k \in Int
  BY DEF Nil
<1> HIDE DEF y
<1>4. y \in L \cup {Nil} /\ (y = Nil <=> L = {})
  <2>1. (y = Nil /\ \A k \in L : k <= 0) => L = {}
    BY <1>3
  <2>2. y \in L => y # Nil
    BY <1>3
  <2>3. (y = Nil /\ \A k \in L : k <= 0) \/ y \in L
    BY <1>2, Zenon DEF IsNext
  <2> QED
    BY <2>1, <2>2, <2>3, Zenon
<1>5. \A k \in L : y <= k
  BY <1>2, <1>3 DEF IsNext
<1> QED
  BY <1>4, <1>5, Zenon DEF y, headEntry

---------------------------------------------------------------------------------
(* The state of a search *)

\* makeLinkedEntries makes a list of all entries.
LEMMA AllLinked ==
    ASSUME NEW h, Len(h) \in Nat
    PROVE  Linked(makeLinkedEntries(h), Len(h), 1 .. Len(h))
<1> DEFINE m == Len(h)
           l == makeLinkedEntries(h)
<1>1. /\ l.next = [k \in 0 .. m |-> IF k < m THEN k + 1 ELSE Nil]
      /\ l.prev = [k \in 0 .. m |-> k - 1]
  BY Zenon DEF makeLinkedEntries
<1>2. m \in Nat
  BY Zenon
<1> HIDE DEF m, l
<1>3. l.next \in [0 .. m -> (1 .. m) \cup {Nil}] /\ l.prev \in [0 .. m -> (0 .. m) \cup {Nil}]
  BY <1>1, <1>2 DEF Nil
<1>4. ASSUME NEW x \in (1 .. m) \cup {0} PROVE IsNext(1 .. m, x, l.next[x])
  <2>1. x \in 0 .. m /\ l.next[x] = IF x < m THEN x + 1 ELSE Nil
    BY <1>1, <1>2
  <2> QED
    BY <1>2, <2>1 DEF IsNext
<1>5. ASSUME NEW x \in 1 .. m PROVE IsPrev(1 .. m, x, l.prev[x])
  <2>1. x \in 0 .. m /\ l.prev[x] = x - 1
    BY <1>1, <1>2
  <2> QED
    BY <1>2, <2>1 DEF IsPrev
<1> QED
  BY <1>3, <1>4, <1>5, Zenon DEF Linked, m, l

\* A search starts with its parts in agreement.
LEMMA StartMatched ==
    ASSUME NEW h, WellFormed(h)
    PROVE  Matched(h, StartSingle(h))
<1> DEFINE s == StartSingle(h)
<1>1. /\ s.list = makeLinkedEntries(h) /\ s.entry = (IF h = <<>> THEN Nil ELSE 1)
      /\ s.linearized = newBitset(Len(h) \div 2) /\ s.calls = <<>> /\ s.state = KvInit
  BY Zenon DEF StartSingle
<1> HIDE DEF s
<1>2. Len(s.calls) = 0 /\ 1 .. Len(s.calls) = {} /\ IsSeq(s.calls)
  <2>1. <<>> \in Seq({})
    OBVIOUS
  <2> QED
    BY <1>1, <2>1 DEF IsSeq
<1>3. Taken(h, s.calls, 0) = {}
  BY DEF Taken
<1>4. Listed(h, s.calls, 0) = 1 .. Len(h) /\ Len(h) \in Nat
  BY <1>3, Zenon DEF Listed, WellFormed
<1>5. s.entry \in (1 .. Len(h)) \cup {Nil} /\ (s.entry = Nil => 1 .. Len(h) = {})
  <2>1. h = <<>> => Len(h) = 0
    OBVIOUS
  <2>2. h # <<>> => Len(h) > 0
    BY <1>4 DEF WellFormed, IsSeq
  <2>3. Nil # 1
    BY DEF Nil
  <2> QED
    BY <1>1, <1>4, <2>1, <2>2, <2>3
<1>6. s.linearized \in BitsetFor(h) /\ Bits(h, s.linearized) = {}
  BY <1>1, <1>4, EmptyBitset, Zenon
<1>7. Linked(s.list, Len(h), 1 .. Len(h))
  BY <1>1, <1>4, AllLinked, Zenon
<1>8. StateAt(s, 0) = KvInit
  BY <1>1, <1>2 DEF StateAt
<1>9. Stacked(h, s.calls) /\ Lifted(h, s.list, s.calls)
  BY <1>2, Zenon DEF Stacked, Lifted
<1> QED
  BY <1>2, <1>3, <1>4, <1>5, <1>6, <1>7, <1>8, <1>9, Zenon DEF Matched, s

\* What agreement says of the stack and the list.
LEMMA Parts ==
    ASSUME NEW h, WellFormed(h), NEW s, Matched(h, s)
    PROVE  /\ Len(h) \in Nat /\ Len(s.calls) \in Nat /\ IsSeq(s.calls)
           /\ \A i \in Nat : Listed(h, s.calls, i) \in SUBSET (1 .. Len(h))
           /\ s.list.next[headEntry] = Nil <=> Listed(h, s.calls, Len(s.calls)) = {}
           /\ s.list.next[headEntry] = Nil <=> s.entry = Nil
           /\ \A i \in 1 .. Len(s.calls) :
                LET e == s.calls[i].entry
                    r == Match(h, e)
                IN  /\ e \in Listed(h, s.calls, i - 1) /\ h[e].kind = "call"
                    /\ \A j \in i .. Len(s.calls) : /\ e \in (1 .. Len(h)) \ Listed(h, s.calls, j)
                                                    /\ r \in (1 .. Len(h)) \ Listed(h, s.calls, j)
<1>1. Len(h) \in Nat /\ DOMAIN h = 1 .. Len(h)
  BY Zenon DEF WellFormed
<1>2. IsSeq(s.calls)
  BY Zenon DEF Matched, Stacked
<1>3. Len(s.calls) \in Nat
  BY <1>2 DEF IsSeq
<1>4. \A i \in Nat : Listed(h, s.calls, i) \in SUBSET (1 .. Len(h))
  BY <1>1, Zenon DEF Listed
<1>5. s.list.next[headEntry] = Nil <=> Listed(h, s.calls, Len(s.calls)) = {}
  <2> DEFINE L == Listed(h, s.calls, Len(s.calls))
  <2>1. L \in SUBSET (1 .. Len(h)) /\ Linked(s.list, Len(h), L)
    BY <1>3, <1>4, Zenon DEF Matched
  <2> HIDE DEF L
  <2>2. s.list.next[headEntry] = Nil <=> L = {}
    BY <1>1, <2>1, FirstListed, Zenon
  <2> QED
    BY <2>2, Zenon DEF L
<1>6. s.list.next[headEntry] = Nil <=> s.entry = Nil
  <2>1. Nil \notin Listed(h, s.calls, Len(s.calls))
    BY <1>1, <1>3, <1>4 DEF Nil
  <2> QED
    BY <1>5, <2>1, Zenon DEF Matched
<1>7. ASSUME NEW i \in 1 .. Len(s.calls)
      PROVE  LET e == s.calls[i].entry
                 r == Match(h, e)
             IN  /\ e \in Listed(h, s.calls, i - 1) /\ h[e].kind = "call"
                 /\ \A j \in i .. Len(s.calls) : /\ e \in (1 .. Len(h)) \ Listed(h, s.calls, j)
                                                 /\ r \in (1 .. Len(h)) \ Listed(h, s.calls, j)
  <2> DEFINE e == s.calls[i].entry
             r == Match(h, e)
  <2>1. e \in Listed(h, s.calls, i - 1) /\ h[e].kind = "call"
    BY Zenon DEF Matched, Stacked
  <2>2. e \in DOMAIN h /\ r \in DOMAIN h
    BY <1>3, <2>1, Level
  <2>3. h[r].id = h[e].id
    BY <2>2, <2>1, Matches, Pairs
  <2>5. ASSUME NEW j \in i .. Len(s.calls)
        PROVE  e \notin Listed(h, s.calls, j) /\ r \notin Listed(h, s.calls, j)
    <3>1. h[e].id \in Taken(h, s.calls, j)
      BY <1>3 DEF Taken
    <3> QED
      BY <2>3, <3>1, Zenon DEF Listed
  <2> QED
    BY <1>1, <2>1, <2>2, <2>5, Zenon
<1> QED
  BY <1>1, <1>2, <1>3, <1>4, <1>5, <1>6, <1>7, Zenon

\* Up to level n the stacks of s and t are the same.
SameLevels(h, s, t, n) ==
    \A i \in 0 .. n : /\ Taken(h, t.calls, i) = Taken(h, s.calls, i)
                      /\ Listed(h, t.calls, i) = Listed(h, s.calls, i)
                      /\ StateAt(t, i) = StateAt(s, i)

\* The step of checkSingle that takes the call it looks at, and where that leaves it.
Pushes(h, s, t) ==
    /\ s.entry # Nil /\ h[s.entry].kind = "call" /\ Step(h, s.state, h[s.entry].id).ok
    /\ t.calls = Append(s.calls, [entry |-> s.entry, state |-> s.state])
    /\ t.state = Step(h, s.state, h[s.entry].id).state
    /\ t.linearized = set(s.linearized, h[s.entry].id)
    /\ t.list = lift(s.list, s.entry, Match(h, s.entry))
    /\ t.entry = t.list.next[headEntry]

Above(h, s, t) ==
    /\ Len(t.calls) = Len(s.calls) + 1
    /\ SameLevels(h, s, t, Len(s.calls))
    /\ \A i \in 0 .. Len(s.calls) : At(t, i) = At(s, i)
    /\ \A k \in Listed(h, t.calls, Len(t.calls)) : t.entry <= k

\* Linearizing a call keeps the parts in agreement and changes nothing below.
LEMMA PushMatched ==
    ASSUME NEW h, WellFormed(h), NEW s, Matched(h, s), NEW t, Pushes(h, s, t)
    PROVE  Matched(h, t) /\ Above(h, s, t)
<1> DEFINE c  == s.calls
           d  == Len(c)
           c2 == t.calls
           e  == s.entry
           r  == Match(h, e)
           m  == Len(h)
           L  == Listed(h, c, d)
           L2 == Listed(h, c2, d + 1)
<1>1. /\ m \in Nat /\ d \in Nat /\ L \in SUBSET (1 .. m)
      /\ \A i \in 1 .. d : /\ c[i].entry \in Listed(h, c, i - 1) /\ h[c[i].entry].kind = "call"
                           /\ c[i].entry \in (1 .. m) \ L /\ Match(h, c[i].entry) \in (1 .. m) \ L
  <2>1. m \in Nat /\ d \in Nat /\ L \in SUBSET (1 .. m)
    BY Parts, Zenon
  <2>2. ASSUME NEW i \in 1 .. d
        PROVE  /\ c[i].entry \in Listed(h, c, i - 1) /\ h[c[i].entry].kind = "call"
               /\ c[i].entry \in (1 .. m) \ L /\ Match(h, c[i].entry) \in (1 .. m) \ L
    <3>1. d \in i .. d
      BY <2>1
    <3> QED
      BY <3>1, Parts, SMTT(20)
  <2> QED
    BY <2>1, <2>2, Zenon
<1>2. /\ IsSeq(c2)
      /\ Len(c2) = d + 1 /\ \A j \in 1 .. d : c2[j] = c[j]
      /\ c2[d + 1].entry = e /\ c2[d + 1].state = s.state
  <2> DEFINE x == [entry |-> s.entry, state |-> s.state]
  <2>0. IsSeq(c)
    BY Zenon DEF Matched, Stacked
  <2>1. IsSeq(c) /\ c2 = Append(c, x) /\ x.entry = e /\ x.state = s.state
    BY <2>0, Zenon DEF Pushes
  <2> HIDE DEF c, c2, x, e
  <2>2. /\ IsSeq(Append(c, x))
        /\ Len(Append(c, x)) = d + 1
        /\ \A j \in 1 .. d : Append(c, x)[j] = c[j]
        /\ Append(c, x)[d + 1] = x
    <3>1. IsSeq(c)
      BY <2>1, Zenon
    <3>2. d = Len(c)
      BY Zenon
    <3> HIDE DEF d
    <3> QED
      BY <3>1, <3>2, Pushed
  <2> QED
    BY <2>1, <2>2, Zenon
<1>3. ASSUME NEW i \in 0 .. d
      PROVE  Taken(h, c2, i) = Taken(h, c, i) /\ Listed(h, c2, i) = Listed(h, c, i)
  <2>1. i \in Nat /\ \A j \in 1 .. i : c2[j] = c[j]
    BY <1>1, <1>2
  <2> QED
    BY <2>1, SamePrefix, Zenon
<1>4. e \in L /\ h[e].kind = "call"
  BY Zenon DEF Matched, Pushes
<1>5. /\ e \in DOMAIN h /\ r \in L /\ r # e
      /\ h[e].id \in Ids(h)
      /\ Taken(h, c2, d + 1) = Taken(h, c, d) \cup {h[e].id}
      /\ L2 = (L \ {e}) \ {r}
  <2>1. /\ d + 1 \in Nat \ {0} /\ (d + 1) - 1 = d /\ d \in 0 .. d
    BY <1>1
  <2>2. c2[d + 1].entry \in Listed(h, c2, (d + 1) - 1) /\ h[c2[d + 1].entry].kind = "call"
    BY <1>2, <1>3, <1>4, <2>1, Zenon
  <2> HIDE DEF c2, d, e, c
  <2> QED
    BY <1>2, <1>3, <2>1, <2>2, Level
<1> HIDE DEF c, d, c2, e, r, m, L
<1>6. Stacked(h, c2)
  <2>1. ASSUME NEW i \in 1 .. d + 1
        PROVE  c2[i].entry \in Listed(h, c2, i - 1) /\ h[c2[i].entry].kind = "call"
    <3>1. CASE i \in 1 .. d
      <4>1. i - 1 \in 0 .. d
        BY <1>1, <3>1
      <4> QED
        BY <1>1, <1>2, <1>3, <3>1, <4>1, Zenon
    <3>2. CASE i = d + 1
      <4>1. i - 1 = d /\ d \in 0 .. d
        BY <1>1, <3>2
      <4> QED
        BY <1>2, <1>3, <1>4, <3>2, <4>1, Zenon DEF L
    <3> QED
      BY <1>1, <3>1, <3>2
  <2> QED
    BY <1>2, <2>1, Zenon DEF Stacked
<1>7. /\ Linked(t.list, m, L2) /\ Points(t.list, L \ {e}, e) /\ Points(t.list, L2, r)
      /\ SamePointers(t.list, s.list, (1 .. m) \ L)
  <2>1. Linked(s.list, m, L) /\ t.list = lift(s.list, e, r)
    BY Zenon DEF Matched, Pushes, m, L, c, d, e, r
  <2> HIDE DEF L2
  <2> DEFINE l == lift(s.list, e, r)
  <2>2. /\ Linked(l, m, (L \ {e}) \ {r})
        /\ Points(l, L \ {e}, e) /\ Points(l, (L \ {e}) \ {r}, r)
        /\ SamePointers(l, s.list, (1 .. m) \ L)
    BY <1>1, <1>4, <1>5, <2>1, LiftLinks, Zenon
  <2> QED
    BY <1>5, <2>1, <2>2, Zenon
<1>8. Lifted(h, t.list, c2)
  <2>1. ASSUME NEW i \in 1 .. d + 1
        PROVE  /\ Points(t.list, Listed(h, c2, i - 1) \ {c2[i].entry}, c2[i].entry)
               /\ Points(t.list, Listed(h, c2, i), Match(h, c2[i].entry))
    <3>1. CASE i \in 1 .. d
      <4>1. i - 1 \in 0 .. d /\ i \in 0 .. d
        BY <1>1, <3>1
      <4>2. /\ Points(s.list, Listed(h, c, i - 1) \ {c[i].entry}, c[i].entry)
            /\ Points(s.list, Listed(h, c, i), Match(h, c[i].entry))
        BY <3>1, Zenon DEF Matched, Lifted, c, d
      <4>3. /\ Points(t.list, Listed(h, c, i - 1) \ {c[i].entry}, c[i].entry)
            /\ Points(t.list, Listed(h, c, i), Match(h, c[i].entry))
        BY <1>1, <1>7, <3>1, <4>2, Zenon DEF Points, SamePointers
      <4> QED
        BY <1>2, <1>3, <3>1, <4>1, <4>3, Zenon
    <3>2. CASE i = d + 1
      <4>1. i - 1 = d /\ d \in 0 .. d
        BY <1>1, <3>2
      <4>2. Listed(h, c2, i - 1) = L /\ c2[i].entry = e /\ Listed(h, c2, i) = L2
        BY <1>2, <1>3, <3>2, <4>1, Zenon DEF L
      <4> HIDE DEF L2
      <4> QED
        BY <1>7, <4>2, Zenon DEF r
    <3>3. i \in 1 .. d \/ i = d + 1
      BY <1>1
    <3> QED
      BY <3>1, <3>2, <3>3, Zenon
  <2> QED
    BY <1>2, <2>1, Zenon DEF Lifted
<1>9. t.entry \in L2 \cup {Nil} /\ (t.entry = Nil => L2 = {}) /\ \A k \in L2 : t.entry <= k
  <2>1. L2 \in SUBSET (1 .. m)
    BY <1>1, <1>5, Zenon
  <2>2. t.entry = t.list.next[headEntry]
    BY Zenon DEF Pushes
  <2> HIDE DEF L2
  <2> QED
    BY <1>1, <1>7, <2>1, <2>2, FirstListed, Zenon
<1>10. t.linearized \in BitsetFor(h) /\ Bits(h, t.linearized) = Taken(h, c2, d + 1)
  <2>1. s.linearized \in BitsetFor(h) /\ Bits(h, s.linearized) = Taken(h, c, d)
    BY Zenon DEF Matched, c, d
  <2> DEFINE b == set(s.linearized, h[e].id)
  <2>2. b \in BitsetFor(h) /\ Bits(h, b) = Bits(h, s.linearized) \cup {h[e].id}
    BY <1>1, <1>5, <2>1, SetBit DEF m
  <2>3. t.linearized = b
    BY Zenon DEF Pushes, e
  <2> QED
    BY <1>5, <2>1, <2>2, <2>3, Zenon
<1>11. ASSUME NEW i \in 0 .. d PROVE StateAt(t, i) = StateAt(s, i)
  <2>1. CASE i < d
    <3>1. i + 1 \in 1 .. d /\ i < d + 1
      BY <1>1, <2>1
    <3> QED
      BY <1>2, <2>1, <3>1, Zenon DEF StateAt, c, c2, d
  <2>2. CASE i = d
    <3>1. d < d + 1 /\ ~(d < d)
      BY <1>1
    <3> QED
      BY <1>2, <2>2, <3>1, Zenon DEF StateAt, c, c2, d
  <2> QED
    BY <1>1, <2>1, <2>2
<1>12. StateAt(t, d + 1) = t.state /\ StateAt(s, d) = s.state
  BY <1>1, <1>2 DEF StateAt, c2, d, c
<1>13. ASSUME NEW i \in 1 .. d + 1
       PROVE  LET step == Step(h, StateAt(t, i - 1), h[c2[i].entry].id)
              IN  step.ok /\ step.state = StateAt(t, i)
  <2>1. CASE i \in 1 .. d
    <3>1. i - 1 \in 0 .. d /\ i \in 0 .. d
      BY <1>1, <2>1
    <3>2. LET step == Step(h, StateAt(s, i - 1), h[c[i].entry].id)
          IN  step.ok /\ step.state = StateAt(s, i)
      BY <2>1, Zenon DEF Matched, c, d
    <3> QED
      BY <1>2, <1>11, <2>1, <3>1, <3>2, Zenon
  <2>2. CASE i = d + 1
    <3>1. i - 1 = d /\ d \in 0 .. d
      BY <1>1, <2>2
    <3>2. Step(h, s.state, h[e].id).ok /\ t.state = Step(h, s.state, h[e].id).state
      BY Zenon DEF Pushes, e
    <3> QED
      BY <1>2, <1>11, <1>12, <2>2, <3>1, <3>2, Zenon
  <2> QED
    BY <1>1, <2>1, <2>2
<1>14. StateAt(t, 0) = KvInit
  BY <1>1, <1>11 DEF Matched
<1>15. Matched(h, t)
  BY <1>2, <1>6, <1>7, <1>8, <1>9, <1>10, <1>13, <1>14, Zenon DEF Matched, c2, m
<1>16. SameLevels(h, s, t, d)
  BY <1>3, <1>11, Zenon DEF SameLevels, c, c2
<1>17. ASSUME NEW i \in 0 .. d PROVE At(t, i) = At(s, i)
  <2>1. CASE i < d
    <3>1. i + 1 \in 1 .. d /\ i < d + 1
      BY <1>1, <2>1
    <3> QED
      BY <1>2, <2>1, <3>1, Zenon DEF At, c, c2, d
  <2>2. CASE i = d
    <3>1. d < d + 1 /\ ~(d < d)
      BY <1>1
    <3> QED
      BY <1>2, <2>2, <3>1, Zenon DEF At, c, c2, d, e
  <2> QED
    BY <1>1, <2>1, <2>2
<1> QED
  BY <1>2, <1>9, <1>15, <1>16, <1>17, Zenon DEF Above, c, c2, d

\* The step that goes on to the next entry.
Skips(h, s, t) ==
    /\ s.entry # Nil /\ h[s.entry].kind = "call"
    /\ t.calls = s.calls /\ t.state = s.state /\ t.linearized = s.linearized
    /\ t.list = s.list /\ t.entry = s.list.next[s.entry]
    /\ t.cache = s.cache /\ t.longest = s.longest

\* So does passing a call by.
LEMMA SkipMatched ==
    ASSUME NEW h, WellFormed(h), NEW s, Matched(h, s), NEW t, Skips(h, s, t)
    PROVE  /\ Matched(h, t)
           /\ \A k \in Listed(h, s.calls, Len(s.calls)) : k < t.entry <=> k <= s.entry
<1> DEFINE L == Listed(h, s.calls, Len(s.calls))
           e == s.entry
           r == Match(h, e)
<1>1. L \in SUBSET (1 .. Len(h)) /\ Len(h) \in Nat /\ DOMAIN h = 1 .. Len(h)
  BY Parts, Zenon DEF WellFormed
<1>2. e \in L /\ IsNext(L, e, t.entry) /\ h[e].kind = "call"
  BY Zenon DEF Matched, Linked, Skips
<1>3. r \in L /\ e < r
  <2>1. e \in DOMAIN h /\ h[e].id \notin Taken(h, s.calls, Len(s.calls))
    BY <1>2, Zenon DEF Listed
  <2>2. h[e].id \in Ids(h) /\ e = CallOf(h, h[e].id) /\ r = ReturnOf(h, h[e].id)
    BY <1>2, <2>1, Matches, Zenon
  <2>3. r \in DOMAIN h /\ h[r].id = h[e].id /\ e < r
    BY <2>2, Pairs
  <2> QED
    BY <2>1, <2>3, Zenon DEF Listed
<1> HIDE DEF L, e, r
<1>4. e \in Int /\ r \in Int /\ \A k \in L : k \in Int
  BY <1>1, <1>2, <1>3
<1>5. t.entry \in L /\ e < t.entry /\ \A k \in L : e < k => t.entry <= k
  BY <1>2, <1>3, <1>4 DEF IsNext
<1>6. \A k \in L : k < t.entry <=> k <= e
  BY <1>4, <1>5
<1>7. t.entry # Nil
  BY <1>1, <1>5 DEF Nil
<1>8. \A i : StateAt(t, i) = StateAt(s, i)
  BY Zenon DEF StateAt, Skips
<1>9. Matched(h, t)
  BY <1>5, <1>7, <1>8, Zenon DEF Matched, Skips, L
<1> QED
  BY <1>6, <1>9, Zenon DEF L, e

\* The search goes on behind the entry e.
Passed(h, t, e) == \A k \in Listed(h, t.calls, Len(t.calls)) : k < t.entry <=> k <= e

\* The step that takes back the last call, and where that leaves the search.
Pops(h, s, top, t) ==
    /\ s.calls # <<>> /\ top = s.calls[Len(s.calls)]
    /\ t.calls = SubSeq(s.calls, 1, Len(s.calls) - 1)
    /\ t.state = top.state
    /\ t.linearized = clear(s.linearized, h[top.entry].id)
    /\ t.list = unlift(s.list, top.entry, Match(h, top.entry))
    /\ t.entry = t.list.next[top.entry]

Below(h, s, t) ==
    /\ Len(s.calls) \in Nat \ {0} /\ Len(t.calls) = Len(s.calls) - 1
    /\ SameLevels(h, s, t, Len(t.calls))
    /\ \A i \in 0 .. Len(t.calls) - 1 : At(t, i) = At(s, i)
    /\ Passed(h, t, s.calls[Len(s.calls)].entry)

\* So does backtracking, which goes on after the call that was taken back.
LEMMA PopMatched ==
    ASSUME NEW h, WellFormed(h), NEW s, Matched(h, s), NEW top, NEW t, Pops(h, s, top, t)
    PROVE  Matched(h, t) /\ Below(h, s, t)
<1> DEFINE c  == s.calls
           d  == Len(c)
           c2 == t.calls
           e  == top.entry
           r  == Match(h, e)
           m  == Len(h)
           L  == Listed(h, c, d - 1)
           L2 == Listed(h, c, d)
<1>1. /\ d \in Nat \ {0} /\ IsSeq(c2) /\ Len(c2) = d - 1
      /\ \A j \in 1 .. d - 1 : c2[j] = c[j]
  <2>1. IsSeq(c) /\ c # <<>> /\ c2 = SubSeq(c, 1, Len(c) - 1)
    BY Zenon DEF Matched, Stacked, Pops
  <2> HIDE DEF c, c2
  <2> QED
    BY <2>1, Popped, Zenon
<1>2. m \in Nat /\ L \in SUBSET (1 .. m)
  <2>1. d - 1 \in Nat
    BY <1>1
  <2> QED
    BY <2>1, Parts, Zenon
<1>3. ASSUME NEW i \in 1 .. d - 1
      PROVE  /\ c[i].entry \in Listed(h, c, i - 1) /\ h[c[i].entry].kind = "call"
             /\ c[i].entry \in (1 .. m) \ L /\ Match(h, c[i].entry) \in (1 .. m) \ L
  <2>1. i \in 1 .. d /\ d - 1 \in i .. d
    BY <1>1
  <2>2. /\ c[i].entry \in Listed(h, c, i - 1) /\ h[c[i].entry].kind = "call"
        /\ \A j \in i .. d : /\ c[i].entry \in (1 .. m) \ Listed(h, c, j)
                             /\ Match(h, c[i].entry) \in (1 .. m) \ Listed(h, c, j)
    BY <2>1, Parts, Zenon
  <2> HIDE DEF c, d, m
  <2> QED
    BY <2>1, <2>2, Zenon
<1>4. c[d].entry \in Listed(h, c, d - 1) /\ h[c[d].entry].kind = "call"
  <2>1. d \in 1 .. d
    BY <1>1
  <2> QED
    BY <2>1, Zenon DEF Matched, Stacked
<1>5. /\ e \in L /\ r \in L /\ e < r /\ r # e
      /\ h[e].id \in Ids(h) /\ h[e].id \notin Taken(h, c, d - 1)
      /\ Taken(h, c, d) = Taken(h, c, d - 1) \cup {h[e].id}
      /\ L2 = (L \ {e}) \ {r}
  <2>1. e = c[d].entry
    BY Zenon DEF Pops
  <2> DEFINE x == c[d].entry
             y == Match(h, x)
  <2> HIDE DEF c, d, e
  <2>2. /\ x \in L /\ y \in L /\ x < y /\ y # x
        /\ h[x].id \in Ids(h) /\ h[x].id \notin Taken(h, c, d - 1)
        /\ Taken(h, c, d) = Taken(h, c, d - 1) \cup {h[x].id}
        /\ L2 = (L \ {x}) \ {y}
    BY <1>1, <1>4, Level
  <2>3. x = e /\ y = r
    BY <2>1, Zenon
  <2> HIDE DEF x, y, r, L, L2
  <2> QED
    BY <2>2, <2>3, Zenon
<1>6. ASSUME NEW i \in 0 .. d - 1
      PROVE  Taken(h, c2, i) = Taken(h, c, i) /\ Listed(h, c2, i) = Listed(h, c, i)
  <2>1. i \in Nat /\ \A j \in 1 .. i : c2[j] = c[j]
    BY <1>1
  <2> QED
    BY <2>1, SamePrefix, Zenon
<1>7. Points(s.list, L \ {e}, e) /\ Points(s.list, L2, r) /\ Linked(s.list, m, L2)
  <2>1. d \in 1 .. d
    BY <1>1
  <2>2. /\ Points(s.list, Listed(h, c, d - 1) \ {c[d].entry}, c[d].entry)
        /\ Points(s.list, Listed(h, c, d), Match(h, c[d].entry))
    BY <2>1, Zenon DEF Matched, Lifted
  <2> QED
    BY <2>2, Zenon DEF Matched, Pops
<1>8. t.list = unlift(s.list, e, r) /\ t.entry = t.list.next[e] /\ e = c[d].entry
  BY Zenon DEF Pops
<1>9. t.state = c[d].state /\ t.linearized = clear(s.linearized, h[e].id)
  BY Zenon DEF Pops
<1> HIDE DEF c, d, c2, e, r, m, L, L2
<1>10. Linked(t.list, m, L) /\ SamePointers(t.list, s.list, (1 .. m) \ L)
  <2>1. Points(s.list, (L \ {e}) \ {r}, r) /\ Linked(s.list, m, (L \ {e}) \ {r})
    BY <1>5, <1>7, Zenon
  <2> DEFINE l == unlift(s.list, e, r)
  <2>2. Linked(l, m, L) /\ SamePointers(l, s.list, (1 .. m) \ L)
    BY <1>2, <1>5, <1>7, <2>1, UnliftLinks, Zenon
  <2> QED
    BY <1>8, <2>2, Zenon
<1>11. d - 1 \in 0 .. d - 1 /\ Listed(h, c2, d - 1) = L /\ Taken(h, c2, d - 1) = Taken(h, c, d - 1)
  BY <1>1, <1>6 DEF L
<1>12. Stacked(h, c2)
  <2>1. ASSUME NEW i \in 1 .. d - 1
        PROVE  c2[i].entry \in Listed(h, c2, i - 1) /\ h[c2[i].entry].kind = "call"
    <3>1. i - 1 \in 0 .. d - 1
      BY <1>1
    <3> QED
      BY <1>1, <1>3, <1>6, <3>1, Zenon
  <2> QED
    BY <1>1, <2>1, Zenon DEF Stacked
<1>13. Lifted(h, t.list, c2)
  <2>1. ASSUME NEW i \in 1 .. d - 1
        PROVE  /\ Points(t.list, Listed(h, c2, i - 1) \ {c2[i].entry}, c2[i].entry)
               /\ Points(t.list, Listed(h, c2, i), Match(h, c2[i].entry))
    <3>1. i - 1 \in 0 .. d - 1 /\ i \in 0 .. d - 1 /\ i \in 1 .. d
      BY <1>1
    <3>2. /\ Points(s.list, Listed(h, c, i - 1) \ {c[i].entry}, c[i].entry)
          /\ Points(s.list, Listed(h, c, i), Match(h, c[i].entry))
      BY <3>1, Zenon DEF Matched, Lifted, c, d
    <3>3. /\ Points(t.list, Listed(h, c, i - 1) \ {c[i].entry}, c[i].entry)
          /\ Points(t.list, Listed(h, c, i), Match(h, c[i].entry))
      BY <1>3, <1>10, <3>2, Zenon DEF Points, SamePointers
    <3> QED
      BY <1>1, <1>6, <3>1, <3>3, Zenon
  <2> QED
    BY <1>1, <2>1, Zenon DEF Lifted
<1>14. e \in Int /\ r \in Int /\ \A k \in L : k \in Int
  BY <1>2, <1>5
<1> DEFINE y == t.entry
<1>15. y \in L /\ e < y /\ \A k \in L : e < k => y <= k
  <2>1. IsNext(L, e, t.list.next[e])
    BY <1>5, <1>10, Zenon DEF Linked
  <2>2. IsNext(L, e, y)
    BY <1>8, <2>1, Zenon
  <2> HIDE DEF y
  <2>3. y \in L \/ (y = Nil /\ \A k \in L : k <= e)
    BY <2>2, Zenon DEF IsNext
  <2>4. y \in L
    BY <1>5, <1>14, <2>3
  <2>5. y \notin L \/ y # Nil
    BY <1>2 DEF Nil
  <2> QED
    BY <2>2, <2>4, <2>5, Zenon DEF IsNext
<1> HIDE DEF y
<1>16. y # Nil
  BY <1>2, <1>15 DEF Nil
<1>17. \A k \in L : k < y <=> k <= e
  BY <1>14, <1>15
<1>18. t.linearized \in BitsetFor(h) /\ Bits(h, t.linearized) = Taken(h, c2, d - 1)
  <2>1. s.linearized \in BitsetFor(h) /\ Bits(h, s.linearized) = Taken(h, c, d)
    BY Zenon DEF Matched, c, d
  <2> DEFINE b == clear(s.linearized, h[e].id)
  <2>2. b \in BitsetFor(h) /\ Bits(h, b) = Bits(h, s.linearized) \ {h[e].id}
    BY <1>2, <1>5, <2>1, ClearBit DEF m
  <2>3. Taken(h, c, d - 1) = Taken(h, c, d) \ {h[e].id}
    BY <1>5, Zenon
  <2> QED
    BY <1>9, <1>11, <2>1, <2>2, <2>3, Zenon
<1>19. ASSUME NEW i \in 0 .. d - 1 PROVE StateAt(t, i) = StateAt(s, i)
  <2>1. i < d
    BY <1>1
  <2>2. CASE i < d - 1
    <3>1. i + 1 \in 1 .. d - 1
      BY <1>1, <2>2
    <3> QED
      BY <1>1, <2>1, <2>2, <3>1, Zenon DEF StateAt, c, c2, d
  <2>3. CASE i = d - 1
    <3>1. ~(i < d - 1) /\ i + 1 = d
      BY <1>1, <2>3
    <3> QED
      BY <1>1, <1>9, <2>1, <3>1, Zenon DEF StateAt, c, c2, d
  <2> QED
    BY <1>1, <2>2, <2>3
<1>20. ASSUME NEW i \in 1 .. d - 1
       PROVE  LET step == Step(h, StateAt(t, i - 1), h[c2[i].entry].id)
              IN  step.ok /\ step.state = StateAt(t, i)
  <2>1. i - 1 \in 0 .. d - 1 /\ i \in 0 .. d - 1 /\ i \in 1 .. d
    BY <1>1
  <2>2. LET step == Step(h, StateAt(s, i - 1), h[c[i].entry].id)
        IN  step.ok /\ step.state = StateAt(s, i)
    BY <2>1, Zenon DEF Matched, c, d
  <2> QED
    BY <1>1, <1>19, <2>1, <2>2, Zenon
<1>21. StateAt(t, 0) = KvInit
  <2>1. 0 \in 0 .. d - 1
    BY <1>1
  <2> QED
    BY <1>19, <2>1, Zenon DEF Matched
<1>22. Matched(h, t)
  BY <1>1, <1>10, <1>11, <1>12, <1>13, <1>15, <1>16, <1>18, <1>20, <1>21, Zenon DEF Matched, c2, m, y
<1>23. SameLevels(h, s, t, d - 1)
  BY <1>6, <1>19, Zenon DEF SameLevels, c, c2
<1>24. ASSUME NEW i \in 0 .. d - 2 PROVE At(t, i) = At(s, i)
  <2>1. i + 1 \in 1 .. d - 1 /\ i < d - 1 /\ i < d
    BY <1>1
  <2> QED
    BY <1>1, <2>1, Zenon DEF At, c, c2, d
<1>25. (d - 1) - 1 = d - 2
  BY <1>1
<1> QED
  BY <1>1, <1>11, <1>17, <1>22, <1>23, <1>24, <1>25, <1>8, Zenon DEF Below, c, c2, d, e, y, Passed

---------------------------------------------------------------------------------
(* Ways to go on *)

\* After the first operation of a way to go on, the others are one.
LEMMA GoesOnTail ==
    ASSUME NEW h, NEW D, NEW st, NEW n \in Nat \ {0}, NEW q, NEW sg, GoesOn(h, D, st, n, q, sg)
    PROVE  /\ q[1] \in Ids(h) \ D /\ Step(h, st, q[1]).ok
           /\ GoesOn(h, D \cup {q[1]}, Step(h, st, q[1]).state, n - 1,
                     [i \in 1 .. n - 1 |-> q[i + 1]], [i \in 0 .. n - 1 |-> sg[i + 1]])
<1> DEFINE q2 == [i \in 1 .. n - 1 |-> q[i + 1]]
           s2 == [i \in 0 .. n - 1 |-> sg[i + 1]]
           D2 == D \cup {q[1]}
           st2 == Step(h, st, q[1]).state
<1>1. 1 \in 1 .. n /\ 1 - 1 = 0
  OBVIOUS
<1>2. q[1] \in Ids(h) \ D /\ Step(h, st, q[1]).ok /\ sg[1] = st2
  BY <1>1, Zenon DEF GoesOn
<1>3. /\ q \in [1 .. n -> Ids(h) \ D]
      /\ \A i, j \in 1 .. n : q[i] = q[j] => i = j
      /\ \A i \in 1 .. n, id \in Ids(h) :
           ReturnOf(h, id) < CallOf(h, q[i]) => id \in D \/ \E j \in 1 .. i - 1 : q[j] = id
      /\ \A i \in 1 .. n : Step(h, sg[i - 1], q[i]).ok /\ sg[i] = Step(h, sg[i - 1], q[i]).state
  BY Zenon DEF GoesOn
<1>4. \A i \in 1 .. n - 1 : q2[i] = q[i + 1] /\ i + 1 \in 1 .. n /\ i + 1 # 1
  OBVIOUS
<1>5. s2[0] = sg[1] /\ \A i \in 1 .. n - 1 : s2[i] = sg[i + 1] /\ s2[i - 1] = sg[(i + 1) - 1]
  OBVIOUS
<1>6. q2 \in [1 .. n - 1 -> Ids(h) \ D2]
  BY <1>1, <1>3, <1>4, Zenon
<1>7. \A i, j \in 1 .. n - 1 : q2[i] = q2[j] => i = j
  <2> SUFFICES ASSUME NEW i \in 1 .. n - 1, NEW j \in 1 .. n - 1, q2[i] = q2[j] PROVE i = j
    BY Zenon
  <2>1. i + 1 = j + 1
    BY <1>3, <1>4, Zenon
  <2> QED
    BY <2>1
<1>8. \A i \in 1 .. n - 1, id \in Ids(h) :
        ReturnOf(h, id) < CallOf(h, q2[i]) => id \in D2 \/ \E j \in 1 .. i - 1 : q2[j] = id
  <2> SUFFICES ASSUME NEW i \in 1 .. n - 1, NEW id \in Ids(h),
                      ReturnOf(h, id) < CallOf(h, q2[i]), id \notin D2
               PROVE  \E j \in 1 .. i - 1 : q2[j] = id
    BY Zenon
  <2>1. PICK j \in 1 .. (i + 1) - 1 : q[j] = id
    BY <1>3, <1>4
  <2>2. j # 1 /\ j - 1 \in 1 .. i - 1 /\ q2[j - 1] = id
    BY <2>1
  <2> QED
    BY <2>2, Zenon
<1>9. \A i \in 1 .. n - 1 : Step(h, s2[i - 1], q2[i]).ok /\ s2[i] = Step(h, s2[i - 1], q2[i]).state
  BY <1>3, <1>4, <1>5, ZenonT(30)
<1>10. s2[0] = st2
  BY <1>2, <1>5, Zenon
<1> HIDE DEF q2, s2, D2, st2
<1>11. GoesOn(h, D2, st2, n - 1, q2, s2)
  BY <1>6, <1>7, <1>8, <1>9, <1>10, Zenon DEF GoesOn
<1> QED
  BY <1>2, <1>11, Zenon DEF q2, s2, D2, st2

\* At a return there is nothing to do but what was called before it: if all that leads nowhere, so
\* does this.
LEMMA SettledAtReturn ==
    ASSUME CountingLaws, NEW h, WellFormed(h), NEW D \in SUBSET Ids(h), NEW st, NEW longest, NEW v \in BOOLEAN,
           NEW rt \in DOMAIN h, h[rt].id \notin D, h[rt].kind = "return",
           \A k \in DOMAIN h : h[k].id \notin D /\ k < rt => Futile(h, D, st, k, longest, v),
           Reached(longest, D, Cardinality(D), v)
    PROVE  Settled(h, D, st, longest, v)
<1> SUFFICES ASSUME NEW n \in Nat, NEW q, NEW sg, GoesOn(h, D, st, n, q, sg)
             PROVE  /\ \E id \in Ids(h) \ D : \A i \in 1 .. n : q[i] # id
                    /\ v => \A id \in D \cup {q[i] : i \in 1 .. n} :
                               Len(longest[id]) >= Cardinality(D) + n
  BY Zenon DEF Settled
<1>1. IsFiniteSet(D) /\ Cardinality(D) \in Nat
  <2>1. IsFiniteSet(Ids(h))
    BY CountInterval DEF Ids, WellFormed
  <2> QED
    BY <2>1, CountSubset, CountIsNat, Zenon
<1>2. /\ h[rt].id \in Ids(h) \ D /\ rt = ReturnOf(h, h[rt].id) /\ rt \in Int
  BY Matches, Zenon
<1>3. CASE n = 0
  <2>1. 1 .. n = {} /\ Cardinality(D) + n = Cardinality(D)
    BY <1>1, <1>3
  <2> QED
    BY <1>2, <2>1, Zenon DEF Reached
<1>4. CASE n # 0
  <2> DEFINE id1 == q[1]
             c  == CallOf(h, id1)
             st2 == Step(h, st, id1).state
             q2 == [i \in 1 .. n - 1 |-> q[i + 1]]
             s2 == [i \in 0 .. n - 1 |-> sg[i + 1]]
             D2 == D \cup {id1}
  <2>1. /\ id1 \in Ids(h) \ D /\ Step(h, st, id1).ok
        /\ GoesOn(h, D2, st2, n - 1, q2, s2)
    BY <1>4, GoesOnTail, Zenon
  <2>2. c \in DOMAIN h /\ h[c].id = id1 /\ h[c].kind = "call" /\ c \in Int
    BY <2>1, Pairs, Matches
  <2>3. c < rt
    <3>1. ~(rt < c)
      <4>1. 1 \in 1 .. n /\ 1 .. 1 - 1 = {}
        BY <1>4
      <4>2. ReturnOf(h, h[rt].id) < CallOf(h, q[1]) => h[rt].id \in D
        BY <1>2, <4>1, Zenon DEF GoesOn
      <4> QED
        BY <1>2, <4>2, Zenon
    <3>2. c # rt
      BY <2>2, Zenon
    <3> QED
      BY <1>2, <2>2, <3>1, <3>2
  <2>4. Settled(h, D2, st2, longest, v)
    BY <2>1, <2>2, <2>3, Zenon DEF Futile
  <2>5. n - 1 \in Nat
    BY <1>4
  <2>6. /\ \E id \in Ids(h) \ D2 : \A i \in 1 .. n - 1 : q2[i] # id
        /\ v => \A id \in D2 \cup {q2[i] : i \in 1 .. n - 1} :
                  Len(longest[id]) >= Cardinality(D2) + (n - 1)
    <3> HIDE DEF D2, st2, q2, s2
    <3> QED
      BY <2>1, <2>4, <2>5, Zenon DEF Settled
  <2>7. Cardinality(D2) + (n - 1) = Cardinality(D) + n
    <3>1. Cardinality(D2) = Cardinality(D) + 1
      BY <1>1, <2>1, CountAdd, Zenon
    <3> QED
      BY <1>1, <3>1
  <2>8. \A i \in 1 .. n : i = 1 \/ (i - 1 \in 1 .. n - 1 /\ q[i] = q2[i - 1])
    OBVIOUS
  <2>9. \E id \in Ids(h) \ D : \A i \in 1 .. n : q[i] # id
    BY <2>6, <2>8
  <2>10. D \cup {q[i] : i \in 1 .. n} \subseteq D2 \cup {q2[i] : i \in 1 .. n - 1}
    <3>1. D \subseteq D2 /\ q[1] \in D2
      BY Zenon
    <3> HIDE DEF D2, q2
    <3>2. ASSUME NEW i \in 1 .. n PROVE q[i] \in D2 \cup {q2[j] : j \in 1 .. n - 1}
      BY <2>8, <3>1, Zenon
    <3> QED
      BY <3>1, <3>2, Zenon
  <2> QED
    BY <2>6, <2>7, <2>9, <2>10, Zenon
<1> QED
  BY <1>3, <1>4, Zenon

\* Longer linearizations are as good.
LEMMA SettledGrows ==
    ASSUME CountingLaws, NEW h, NEW D \in SUBSET Ids(h), NEW st, NEW v, IsFiniteSet(D),
           NEW a, NEW b,
           \A id \in Ids(h) : Len(a[id]) \in Nat /\ Len(b[id]) \in Nat /\ Len(b[id]) >= Len(a[id]),
           Settled(h, D, st, a, v)
    PROVE  Settled(h, D, st, b, v)
<1> SUFFICES ASSUME NEW n \in Nat, NEW q, NEW sg, GoesOn(h, D, st, n, q, sg)
             PROVE  /\ \E id \in Ids(h) \ D : \A i \in 1 .. n : q[i] # id
                    /\ v => \A id \in D \cup {q[i] : i \in 1 .. n} :
                               Len(b[id]) >= Cardinality(D) + n
  BY Zenon DEF Settled
<1>1. D \cup {q[i] : i \in 1 .. n} \subseteq Ids(h)
  BY DEF GoesOn
<1>2. Cardinality(D) \in Nat
  BY CountIsNat, Zenon
<1>3. /\ \E id \in Ids(h) \ D : \A i \in 1 .. n : q[i] # id
      /\ v => \A id \in D \cup {q[i] : i \in 1 .. n} : Len(a[id]) >= Cardinality(D) + n
  BY Zenon DEF Settled
<1>4. ASSUME v, NEW id \in D \cup {q[i] : i \in 1 .. n} PROVE Len(b[id]) >= Cardinality(D) + n
  <2>1. Len(a[id]) >= Cardinality(D) + n /\ id \in Ids(h)
    BY <1>1, <1>3, <1>4, Zenon
  <2> QED
    BY <1>2, <2>1
<1> QED
  BY <1>3, <1>4, Zenon

---------------------------------------------------------------------------------
(* What a search has found out *)

\* The stack holds an operation once.
LEMMA TakenIds ==
    ASSUME CountingLaws, NEW h, WellFormed(h), NEW s, Matched(h, s), NEW i \in 0 .. Len(s.calls)
    PROVE  /\ Taken(h, s.calls, i) \in SUBSET Ids(h)
           /\ IsFiniteSet(Taken(h, s.calls, i)) /\ Cardinality(Taken(h, s.calls, i)) = i
           /\ \A j, k \in 1 .. i :
                h[s.calls[j].entry].id = h[s.calls[k].entry].id => j = k
<1> DEFINE c == s.calls
           f == [j \in 1 .. i |-> h[c[j].entry].id]
           T == Taken(h, c, i)
<1>1. Len(c) \in Nat /\ \A j \in 1 .. Len(c) : c[j].entry \in Listed(h, c, j - 1)
  BY Parts, Zenon
<1>2. ASSUME NEW j \in 1 .. i PROVE h[c[j].entry].id \in Ids(h)
  <2>1. c[j].entry \in DOMAIN h
    BY <1>1 DEF Listed
  <2> QED
    BY <2>1, Matches, Zenon
<1>3. ASSUME NEW j \in 1 .. i, NEW k \in 1 .. i, j < k PROVE h[c[j].entry].id # h[c[k].entry].id
  <2>1. h[c[k].entry].id \notin Taken(h, c, k - 1)
    BY <1>1 DEF Listed
  <2>2. j \in 1 .. k - 1
    BY <1>1, <1>3
  <2> QED
    BY <2>1, <2>2, Zenon DEF Taken
<1>4. T \in SUBSET Ids(h)
  BY <1>2, Zenon DEF Taken
<1>5. \A j, k \in 1 .. i : h[c[j].entry].id = h[c[k].entry].id => j = k
  <2>1. \A j, k \in 1 .. i : j < k \/ k < j \/ j = k
    BY <1>1
  <2> QED
    BY <1>3, <2>1, Zenon
<1>6. f \in Bijection(1 .. i, T)
  <2>1. f \in [1 .. i -> T]
    BY Zenon DEF Taken
  <2>2. \A j, k \in 1 .. i : f[j] = f[k] => j = k
    BY <1>5, Zenon
  <2>3. \A x \in T : \E j \in 1 .. i : f[j] = x
    BY Zenon DEF Taken
  <2> HIDE DEF f, T
  <2> QED
    BY <2>1, <2>2, <2>3, Zenon DEF Bijection, Injection, Surjection, IsInjective
<1>7. ExistsBijection(1 .. i, T)
  BY <1>6, Zenon DEF ExistsBijection
<1>8. IsFiniteSet(T) /\ Cardinality(T) = i
  <2>1. i \in Nat
    BY <1>1
  <2> QED
    BY <1>7, <2>1, CountList, Zenon
<1> QED
  BY <1>4, <1>5, <1>8, Zenon

\* The calls of the stack are a linearization of a part of the history.
LEMMA StackGoesOn ==
    ASSUME CountingLaws, NEW h, WellFormed(h), NEW s, Matched(h, s), NEW v, Tried(h, s, v)
    PROVE  LET q == CallIds(s.calls, h)
           IN  /\ IsSeq(q) /\ Len(q) = Len(s.calls) /\ Range(q) = Taken(h, s.calls, Len(s.calls))
               /\ \A i \in 1 .. Len(q) : q[i] = h[s.calls[i].entry].id
               /\ GoesOn(h, {}, KvInit, Len(q), q, [i \in 0 .. Len(q) |-> StateAt(s, i)])
<1> DEFINE c == s.calls
           d == Len(c)
           q == CallIds(c, h)
           sg == [i \in 0 .. d |-> StateAt(s, i)]
<1>1. d \in Nat /\ DOMAIN c = 1 .. d
  BY Parts DEF IsSeq
<1>2. q = [i \in 1 .. d |-> h[c[i].entry].id]
  BY <1>1, Zenon DEF CallIds
<1>3. /\ \A i \in 1 .. d : h[c[i].entry].id \in Ids(h)
      /\ \A i, j \in 1 .. d : h[c[i].entry].id = h[c[j].entry].id => i = j
  <2>1. d \in 0 .. d
    BY <1>1
  <2>2. Taken(h, c, d) \in SUBSET Ids(h)
    BY <2>1, TakenIds, Zenon
  <2>3. \A i, j \in 1 .. d : h[c[i].entry].id = h[c[j].entry].id => i = j
    BY <2>1, TakenIds
  <2> QED
    BY <2>2, <2>3, Zenon DEF Taken
<1>4. q \in Seq(Ids(h)) /\ Len(q) = d
  BY <1>1, <1>2, <1>3
<1>5. Range(q) = Taken(h, c, d)
  BY <1>2, Zenon DEF Range, Taken
<1>6. ASSUME NEW i \in 1 .. d, NEW id \in Ids(h), ReturnOf(h, id) < CallOf(h, q[i])
      PROVE  \E j \in 1 .. i - 1 : q[j] = id
  <2> DEFINE k == ReturnOf(h, id)
             e == c[i].entry
  <2>1. e \in Listed(h, c, i - 1) /\ h[e].kind = "call"
    BY Parts
  <2>2. e \in DOMAIN h
    BY <2>1, Zenon DEF Listed
  <2>3. CallOf(h, q[i]) = e
    BY <1>2, <2>1, <2>2, Matches
  <2>4. k \in DOMAIN h /\ h[k].kind = "return" /\ h[k].id = id
    BY Pairs
  <2>5. i - 1 \in 0 .. d /\ i - 1 < d /\ (i - 1) + 1 = i
    BY <1>1
  <2>6. At(s, i - 1) = e
    BY <2>5, Zenon DEF At
  <2>7. k \notin Listed(h, c, i - 1)
    <3> SUFFICES ASSUME k \in Listed(h, c, i - 1) PROVE FALSE
      BY Zenon
    <3>1. h[k].kind = "call"
      BY <1>6, <2>3, <2>5, <2>6, Zenon DEF Tried, Futile
    <3> QED
      BY <2>4, <3>1, Zenon
  <2>8. id \in Taken(h, c, i - 1)
    BY <2>4, <2>7, Zenon DEF Listed
  <2> QED
    BY <1>1, <1>2, <2>8 DEF Taken
<1>7. ASSUME NEW i \in 1 .. d
      PROVE  Step(h, sg[i - 1], q[i]).ok /\ sg[i] = Step(h, sg[i - 1], q[i]).state
  <2>1. i \in 0 .. d /\ i - 1 \in 0 .. d
    BY <1>1
  <2>2. sg[i] = StateAt(s, i) /\ sg[i - 1] = StateAt(s, i - 1) /\ q[i] = h[c[i].entry].id
    BY <1>2, <2>1, Zenon
  <2> QED
    BY <2>2, Zenon DEF Matched
<1>8. sg[0] = KvInit
  BY <1>1 DEF Matched
<1>9. IsSeq(q)
  BY <1>4, Zenon DEF IsSeq
<1>10. q \in [1 .. d -> Ids(h) \ {}] /\ \A i, j \in 1 .. d : q[i] = q[j] => i = j
  BY <1>2, <1>3, Zenon
<1> HIDE DEF q, d, sg
<1>11. GoesOn(h, {}, KvInit, d, q, sg)
  BY <1>6, <1>7, <1>8, <1>10, Zenon DEF GoesOn
<1> QED
  BY <1>2, <1>4, <1>5, <1>9, <1>11, Zenon DEF d, q, sg

\* Backtracking records linearizations, and only longer ones for each operation.
LEMMA RecordKept ==
    ASSUME NEW h, NEW longest, Kept(h, longest), NEW q, IsSeq(q), NEW sg,
           GoesOn(h, {}, KvInit, Len(q), q, sg)
    PROVE  /\ Kept(h, Record(longest, q))
           /\ \A id \in Ids(h) : /\ Len(longest[id]) \in Nat /\ Len(Record(longest, q)[id]) \in Nat
                                 /\ Len(Record(longest, q)[id]) >= Len(longest[id])
                                 /\ id \in Range(q) => Len(Record(longest, q)[id]) >= Len(q)
<1> DEFINE r == Record(longest, q)
<1>1. \A id \in Ids(h) : r[id] = IF id \in Range(q) /\ Len(q) > Len(longest[id]) THEN q ELSE longest[id]
  BY Zenon DEF Record, Kept
<1>2. DOMAIN r = Ids(h)
  BY Zenon DEF Record, Kept
<1>3. Len(q) \in Nat /\ DOMAIN q = 1 .. Len(q)
  BY DEF IsSeq
<1>4. \A id \in Ids(h) : IsSeq(longest[id]) /\ Len(longest[id]) \in Nat
  BY DEF Kept, IsSeq
<1> HIDE DEF r
<1>5. ASSUME NEW id \in Ids(h)
      PROVE  /\ IsSeq(r[id]) /\ Len(r[id]) \in Nat
             /\ Len(r[id]) >= Len(longest[id])
             /\ id \in Range(q) => Len(r[id]) >= Len(q)
  BY <1>1, <1>3, <1>4
<1>6. ASSUME NEW id \in Ids(h)
      PROVE  \E g : GoesOn(h, {}, KvInit, Len(r[id]), r[id], g)
  BY <1>1, Zenon DEF Kept
<1>7. ASSUME NEW id \in Ids(h), r[id] # <<>>
      PROVE  \E j \in 1 .. Len(r[id]) : r[id][j] = id
  <2>1. CASE r[id] = longest[id]
    BY <1>7, <2>1, Zenon DEF Kept
  <2>2. CASE r[id] # longest[id]
    <3>1. r[id] = q /\ id \in Range(q)
      BY <1>1, <2>2, Zenon
    <3> QED
      BY <1>3, <3>1, Zenon DEF Range
  <2> QED
    BY <2>1, <2>2, Zenon
<1>8. ASSUME NEW id \in Ids(h), NEW id2 \in Ids(h), NEW j \in 1 .. Len(r[id2]), r[id2][j] = id
      PROVE  Len(r[id]) >= Len(r[id2])
  <2>1. CASE r[id2] = longest[id2]
    <3>1. Len(longest[id]) >= Len(longest[id2])
      BY <1>8, <2>1, Zenon DEF Kept
    <3> QED
      BY <1>4, <1>5, <2>1, <3>1
  <2>2. CASE r[id2] # longest[id2]
    <3>1. r[id2] = q
      BY <1>1, <2>2, Zenon
    <3>2. id \in Range(q)
      BY <1>3, <1>8, <3>1, Zenon DEF Range
    <3> QED
      BY <1>5, <3>1, <3>2, Zenon
  <2> QED
    BY <2>1, <2>2, Zenon
<1>9. Kept(h, r)
  BY <1>2, <1>5, <1>6, <1>7, <1>8, Zenon DEF Kept
<1> QED
  BY <1>4, <1>5, <1>9, Zenon DEF r

\* What is kept got longer at most.
Grown(h, a, b) ==
    \A id \in Ids(h) : Len(a[id]) \in Nat /\ Len(b[id]) \in Nat /\ Len(b[id]) >= Len(a[id])

\* A search starts with nothing tried.
LEMMA StartTried ==
    ASSUME NEW h, WellFormed(h), NEW v
    PROVE  Tried(h, StartSingle(h), v) /\ Kept(h, StartSingle(h).longest)
<1> DEFINE s == StartSingle(h)
<1>1. /\ s.entry = (IF h = <<>> THEN Nil ELSE 1) /\ s.calls = <<>> /\ s.cache = {}
      /\ s.longest = [id \in Ids(h) |-> <<>>]
  BY Zenon DEF StartSingle, Ids
<1> HIDE DEF s
<1>2. Len(s.calls) = 0
  BY <1>1
<1>3. At(s, 0) = s.entry
  BY <1>2 DEF At
<1>4. \A k \in DOMAIN h : ~(k < s.entry)
  BY <1>1 DEF WellFormed, Nil
<1>5. Tried(h, s, v)
  BY <1>1, <1>2, <1>3, <1>4 DEF Tried, Listed
<1>6. ASSUME NEW id \in Ids(h)
      PROVE  /\ IsSeq(s.longest[id]) /\ Len(s.longest[id]) = 0 /\ s.longest[id] = <<>>
             /\ \E sg : GoesOn(h, {}, KvInit, Len(s.longest[id]), s.longest[id], sg)
  <2>1. s.longest[id] = <<>> /\ Len(s.longest[id]) = 0 /\ 1 .. Len(s.longest[id]) = {}
    BY <1>1
  <2>2. <<>> \in Seq({}) /\ <<>> \in [1 .. 0 -> Ids(h) \ {}]
    OBVIOUS
  <2> DEFINE g == [i \in {0} |-> KvInit]
  <2>3. g[0] = KvInit
    BY Zenon
  <2>4. GoesOn(h, {}, KvInit, 0, <<>>, g)
    BY <2>2, <2>3 DEF GoesOn
  <2> QED
    BY <2>1, <2>2, <2>4, Zenon DEF IsSeq
<1>7. Kept(h, s.longest)
  BY <1>1, <1>6 DEF Kept
<1> QED
  BY <1>5, <1>7, Zenon DEF s

\* Entries are numbers.
LEMMA EntryInt ==
    ASSUME NEW h, WellFormed(h), NEW s, Matched(h, s)
    PROVE  s.entry \in Int
<1>1. s.entry = Nil \/ s.entry \in DOMAIN h
  BY Zenon DEF Matched, Listed
<1>2. Nil \in Int
  BY DEF Nil
<1>3. \A k \in DOMAIN h : k \in Int
  BY Matches, Zenon
<1> QED
  BY <1>1, <1>2, <1>3, Zenon

\* A bitset holds ids.
LEMMA BitIds ==
    ASSUME CountingLaws
    PROVE  \A h, b : Len(h) \in Nat => IsFiniteSet(Bits(h, b)) /\ Bits(h, b) \in SUBSET Ids(h)
<1> SUFFICES ASSUME NEW h, NEW b, Len(h) \in Nat
             PROVE  IsFiniteSet(Bits(h, b)) /\ Bits(h, b) \in SUBSET Ids(h)
  BY Zenon
<1>1. IsFiniteSet(Ids(h))
  BY CountInterval DEF Ids
<1>2. Bits(h, b) \in SUBSET Ids(h)
  BY Zenon DEF Bits
<1> QED
  BY <1>1, <1>2, CountSubset, Zenon

\* What is futile stays so when what is kept grows.
LEMMA FutileGrows ==
    ASSUME CountingLaws, NEW h, WellFormed(h), NEW D \in SUBSET Ids(h), IsFiniteSet(D), NEW st,
           NEW k \in DOMAIN h, NEW v, NEW a, NEW b, Grown(h, a, b), Futile(h, D, st, k, a, v)
    PROVE  Futile(h, D, st, k, b, v)
<1> DEFINE D2 == D \cup {h[k].id}
           step == Step(h, st, h[k].id)
<1>1. h[k].id \in Ids(h)
  BY Matches, Zenon
<1>2. IsFiniteSet(D2) /\ D2 \in SUBSET Ids(h)
  BY <1>1, CountAdd, Zenon
<1>3. h[k].kind = "call" /\ (step.ok => Settled(h, D2, step.state, a, v))
  BY Zenon DEF Futile
<1> HIDE DEF D2, step
<1>4. step.ok => Settled(h, D2, step.state, b, v)
  BY <1>2, <1>3, SettledGrows, Zenon DEF Grown
<1> QED
  BY <1>3, <1>4, Zenon DEF Futile, D2, step

\* The search looks at a return.
AtReturn(h, s) == s.entry # Nil /\ h[s.entry].kind = "return"

\* A search at a return has tried everything from where it stands.
LEMMA ReturnSettles ==
    ASSUME CountingLaws, NEW h, WellFormed(h), NEW s, Matched(h, s), NEW v \in BOOLEAN, Tried(h, s, v),
           AtReturn(h, s), NEW longest, Grown(h, s.longest, longest),
           Reached(longest, Taken(h, s.calls, Len(s.calls)), Len(s.calls), v)
    PROVE  Settled(h, Taken(h, s.calls, Len(s.calls)), s.state, longest, v)
<1> DEFINE d == Len(s.calls)
           D == Taken(h, s.calls, d)
<1>1. d \in Nat /\ d \in 0 .. d
  BY Parts
<1>2. D \in SUBSET Ids(h) /\ IsFiniteSet(D) /\ Cardinality(D) = d
  BY <1>1, TakenIds
<1>3. s.entry \in DOMAIN h /\ h[s.entry].id \notin D /\ h[s.entry].kind = "return"
  BY Zenon DEF Matched, Listed, AtReturn
<1>4. At(s, d) = s.entry /\ StateAt(s, d) = s.state
  BY <1>1 DEF At, StateAt
<1>5. ASSUME NEW k \in DOMAIN h, h[k].id \notin D, k < s.entry
      PROVE  Futile(h, D, s.state, k, longest, v)
  <2>1. k \in Listed(h, s.calls, d)
    BY <1>5, Zenon DEF Listed
  <2>2. Futile(h, D, s.state, k, s.longest, v)
    BY <1>1, <1>4, <1>5, <2>1, Zenon DEF Tried
  <2> HIDE DEF D
  <2> QED
    BY <1>2, <2>2, FutileGrows, Zenon
<1>6. Reached(longest, D, Cardinality(D), v)
  BY <1>2, Zenon
<1> HIDE DEF D
<1>7. Settled(h, D, s.state, longest, v)
  BY <1>2, <1>3, <1>5, <1>6, SettledAtReturn, Zenon
<1> QED
  BY <1>7, Zenon DEF D

\* The call looked at is not accepted, or leads where the search was before.
Rejected(h, s) ==
    LET step == Step(h, s.state, h[s.entry].id)
    IN  step.ok => cacheContains(s.cache, set(s.linearized, h[s.entry].id), step.state)

\* An operation that the model rejects leads nowhere.
LEMMA RejectedFutile ==
    ASSUME NEW h, WellFormed(h), NEW s, Matched(h, s), NEW v, Tried(h, s, v), Rejected(h, s),
           s.entry \in Listed(h, s.calls, Len(s.calls)), h[s.entry].kind = "call"
    PROVE  Futile(h, Taken(h, s.calls, Len(s.calls)), s.state, s.entry, s.longest, v)
<1> DEFINE d == Len(s.calls)
           id == h[s.entry].id
           D == Taken(h, s.calls, d)
           step == Step(h, s.state, id)
           b == set(s.linearized, id)
           x == [linearized |-> b, state |-> step.state]
<1>1. d \in Nat /\ Len(h) \in Nat
  BY Parts, Zenon
<1>2. id \in Ids(h) /\ id \notin D
  <2>1. s.entry \in DOMAIN h /\ id \notin D
    BY Zenon DEF Listed
  <2> QED
    BY <2>1, Matches, Zenon
<1>3. step.ok => x \in s.cache
  BY Zenon DEF Rejected, cacheContains
<1>4. x.linearized = b /\ x.state = step.state
  BY Zenon
<1>5. Bits(h, b) = D \cup {id}
  <2>1. s.linearized \in BitsetFor(h) /\ Bits(h, s.linearized) = D
    BY Zenon DEF Matched
  <2> HIDE DEF id, D
  <2> QED
    BY <1>1, <1>2, <2>1, SetBit
<1>6. ASSUME NEW i \in 1 .. d PROVE D \cup {id} # Taken(h, s.calls, i)
  <2>1. Taken(h, s.calls, i) \subseteq D
    BY <1>1 DEF Taken
  <2> HIDE DEF id, D
  <2> QED
    BY <1>2, <2>1, Zenon
<1> HIDE DEF x, step, b
<1>7. ~OnStack(h, s, x)
  BY <1>4, <1>5, <1>6, Zenon DEF OnStack
<1>8. step.ok => Settled(h, D \cup {id}, step.state, s.longest, v)
  BY <1>3, <1>4, <1>5, <1>7, Zenon DEF Tried, Dead
<1> QED
  BY <1>8, Zenon DEF Futile, step

\* A call that is illegal or leads to a cached state need not be tried.
LEMMA SkipTried ==
    ASSUME NEW h, WellFormed(h), NEW s, Matched(h, s), NEW v, Tried(h, s, v), Rejected(h, s),
           NEW t, Skips(h, s, t)
    PROVE  Tried(h, t, v)
<1> DEFINE d == Len(s.calls)
           L == Listed(h, s.calls, d)
           e == s.entry
<1>1. d \in Nat /\ d \in 0 .. d
  BY Parts
<1>2. /\ t.calls = s.calls /\ t.cache = s.cache /\ t.longest = s.longest /\ t.state = s.state
      /\ h[e].kind = "call" /\ e \in L
  BY Zenon DEF Skips, Matched
<1>3. \A i : StateAt(t, i) = StateAt(s, i)
  BY <1>2, Zenon DEF StateAt
<1>4. \A k \in L : k < t.entry <=> k <= e
  BY SkipMatched, Zenon
<1>5. At(s, d) = e /\ At(t, d) = t.entry /\ StateAt(s, d) = s.state
  BY <1>1, <1>2 DEF At, StateAt
<1>6. \A i \in 0 .. d : i # d => At(t, i) = At(s, i)
  BY <1>1, <1>2 DEF At
<1>7. Futile(h, Taken(h, s.calls, d), s.state, e, s.longest, v)
  BY <1>2, RejectedFutile, Zenon
<1>8. \A k \in L : k \in Int
  BY Matches, Zenon DEF Listed
<1> HIDE DEF d, L, e
<1>9. ASSUME NEW i \in 0 .. d, NEW k \in Listed(h, s.calls, i), k < At(t, i)
      PROVE  Futile(h, Taken(h, s.calls, i), StateAt(s, i), k, s.longest, v)
  <2>1. CASE k < At(s, i)
    BY <2>1, Zenon DEF Tried, d
  <2>2. CASE ~(k < At(s, i))
    <3>1. i = d /\ k \in L
      BY <1>6, <1>9, <2>2, Zenon DEF L
    <3>2. k <= e /\ ~(k < e)
      BY <1>4, <1>5, <1>9, <2>2, <3>1, Zenon
    <3>3. k = e
      BY <1>2, <1>8, <3>1, <3>2
    <3> QED
      BY <1>5, <1>7, <3>1, <3>3, Zenon
  <2> QED
    BY <2>1, <2>2, Zenon
<1>10. \A c : OnStack(h, s, c) => OnStack(h, t, c)
  BY <1>2, <1>3, Zenon DEF OnStack
<1> QED
  BY <1>2, <1>3, <1>9, <1>10, Zenon DEF Tried, d

\* The search caches where it got to.
Remembers(s, t) ==
    /\ t.cache = s.cache \cup {[linearized |-> t.linearized, state |-> t.state]}
    /\ t.longest = s.longest

\* After a call is linearized nothing has been tried from there.
LEMMA PushTried ==
    ASSUME NEW h, WellFormed(h), NEW s, Matched(h, s), NEW v, Tried(h, s, v),
           NEW t, Matched(h, t), Above(h, s, t), Remembers(s, t)
    PROVE  Tried(h, t, v)
<1> DEFINE d == Len(s.calls)
           x == [linearized |-> t.linearized, state |-> t.state]
<1>1. d \in Nat /\ d + 1 \in 1 .. d + 1 /\ ~(d + 1 < d + 1)
  BY Parts
<1>2. Len(t.calls) = d + 1
  BY Zenon DEF Above
<1>3. At(t, d + 1) = t.entry /\ StateAt(t, d + 1) = t.state
  BY <1>1, <1>2, Zenon DEF At, StateAt
<1>4. OnStack(h, t, x)
  <2>1. x.linearized = t.linearized /\ x.state = t.state
    BY Zenon
  <2>2. Bits(h, t.linearized) = Taken(h, t.calls, d + 1)
    BY <1>2, Zenon DEF Matched
  <2> HIDE DEF x
  <2> QED
    BY <1>1, <1>2, <1>3, <2>1, <2>2, Zenon DEF OnStack
<1>5. t.longest = s.longest /\ \A c \in t.cache : c \in s.cache \/ c = x
  BY Zenon DEF Remembers
<1> HIDE DEF d, x
<1>6. ASSUME NEW i \in 0 .. d
      PROVE  /\ Taken(h, t.calls, i) = Taken(h, s.calls, i)
             /\ Listed(h, t.calls, i) = Listed(h, s.calls, i)
             /\ StateAt(t, i) = StateAt(s, i) /\ At(t, i) = At(s, i)
  BY Zenon DEF Above, SameLevels, d
<1>7. ASSUME NEW i \in 0 .. d + 1, NEW k \in Listed(h, t.calls, i), k < At(t, i)
      PROVE  Futile(h, Taken(h, t.calls, i), StateAt(t, i), k, t.longest, v)
  <2>1. i # d + 1
    <3> SUFFICES ASSUME i = d + 1 PROVE FALSE
      BY Zenon
    <3>1. t.entry <= k /\ k < t.entry
      BY <1>2, <1>3, <1>7, Zenon DEF Above
    <3>2. k \in Int
      BY Matches, Zenon DEF Listed
    <3>3. t.entry \in Int
      BY EntryInt, Zenon
    <3> QED
      BY <3>1, <3>2, <3>3
  <2>2. i \in 0 .. d
    BY <1>1, <2>1
  <2> QED
    BY <1>5, <1>6, <1>7, <2>2, Zenon DEF Tried, d
<1>8. ASSUME NEW c, OnStack(h, s, c) PROVE OnStack(h, t, c)
  <2>1. \A i \in 1 .. d : i \in 1 .. d + 1 /\ i \in 0 .. d
    BY <1>1
  <2> QED
    BY <1>2, <1>6, <1>8, <2>1, Zenon DEF OnStack, d
<1>9. ASSUME NEW c \in t.cache PROVE Dead(h, c, t.longest, v) \/ OnStack(h, t, c)
  BY <1>4, <1>5, <1>8, Zenon DEF Tried
<1> QED
  BY <1>2, <1>7, <1>9, Zenon DEF Tried

\* What has been tried from the call that is taken back is settled.
LEMMA PopTried ==
    ASSUME CountingLaws, NEW h, WellFormed(h), NEW s, Matched(h, s), NEW v \in BOOLEAN, Tried(h, s, v),
           AtReturn(h, s), NEW t, Matched(h, t), Below(h, s, t), t.cache = s.cache,
           Grown(h, s.longest, t.longest),
           Reached(t.longest, Taken(h, s.calls, Len(s.calls)), Len(s.calls), v)
    PROVE  Tried(h, t, v)
<1> DEFINE d == Len(s.calls)
           e == s.calls[d].entry
           D == Taken(h, s.calls, d)
<1>1. Settled(h, D, s.state, t.longest, v)
  BY ReturnSettles, Zenon
<1>2. d \in Nat \ {0} /\ Len(t.calls) = d - 1 /\ Len(h) \in Nat
  BY Parts, Zenon DEF Below
<1>3. d - 1 \in 0 .. d - 1 /\ d - 1 \in 0 .. d /\ d \in 1 .. d /\ d \in 0 .. d
  BY <1>2
<1>4. StateAt(s, d) = s.state /\ At(s, d - 1) = e
  BY <1>2 DEF StateAt, At
<1>5. e \in Listed(h, s.calls, d - 1) /\ h[e].kind = "call"
  BY <1>3, Zenon DEF Matched, Stacked
<1>6. D = Taken(h, s.calls, d - 1) \cup {h[e].id}
  <2> DEFINE c == s.calls
  <2>1. c[d].entry \in Listed(h, c, d - 1) /\ h[c[d].entry].kind = "call"
    BY <1>5, Zenon
  <2> HIDE DEF c, d
  <2>2. Taken(h, c, d) = Taken(h, c, d - 1) \cup {h[c[d].entry].id}
    BY <1>2, <2>1, Level
  <2> QED
    BY <2>2, Zenon DEF c
<1>7. Step(h, StateAt(s, d - 1), h[e].id).state = StateAt(s, d)
  BY <1>3, Zenon DEF Matched
<1>8. At(t, d - 1) = t.entry
  <2>1. ~(d - 1 < Len(t.calls))
    BY <1>2
  <2> QED
    BY <2>1, Zenon DEF At
<1>9. \A k \in Listed(h, t.calls, d - 1) : k < t.entry <=> k <= e
  BY <1>2, Zenon DEF Below, Passed
<1> HIDE DEF d, e, D
<1>10. ASSUME NEW i \in 0 .. d - 1
       PROVE  /\ Taken(h, t.calls, i) = Taken(h, s.calls, i)
              /\ Listed(h, t.calls, i) = Listed(h, s.calls, i)
              /\ StateAt(t, i) = StateAt(s, i)
  BY <1>2, Zenon DEF Below, SameLevels
<1>11. ASSUME NEW i \in 0 .. d - 1, i # d - 1 PROVE At(t, i) = At(s, i)
  <2>1. i \in 0 .. (d - 1) - 1
    BY <1>2, <1>11
  <2> QED
    BY <1>2, <2>1, Zenon DEF Below
<1>12. Futile(h, Taken(h, s.calls, d - 1), StateAt(s, d - 1), e, t.longest, v)
  BY <1>1, <1>4, <1>5, <1>6, <1>7, Zenon DEF Futile
<1>13. ASSUME NEW i \in 0 .. d - 1, NEW k \in Listed(h, t.calls, i), k < At(t, i)
       PROVE  Futile(h, Taken(h, t.calls, i), StateAt(t, i), k, t.longest, v)
  <2>1. k \in Listed(h, s.calls, i) /\ k \in DOMAIN h
    BY <1>10, Zenon DEF Listed
  <2>2. CASE k < At(s, i)
    <3>1. i \in 0 .. d
      BY <1>2
    <3>2. Futile(h, Taken(h, s.calls, i), StateAt(s, i), k, s.longest, v)
      BY <2>1, <2>2, <3>1, Zenon DEF Tried, d
    <3>3. IsFiniteSet(Taken(h, s.calls, i)) /\ Taken(h, s.calls, i) \in SUBSET Ids(h)
      BY <3>1, TakenIds, Zenon DEF d
    <3>4. Futile(h, Taken(h, s.calls, i), StateAt(s, i), k, t.longest, v)
      BY <2>1, <3>2, <3>3, FutileGrows, Zenon
    <3> QED
      BY <1>10, <3>4, Zenon
  <2>3. CASE ~(k < At(s, i))
    <3>1. i = d - 1
      BY <1>11, <1>13, <2>3, Zenon
    <3>2. k <= e /\ ~(k < e)
      BY <1>4, <1>8, <1>9, <1>13, <2>3, <3>1, Zenon
    <3>3. k \in Int /\ e \in Int
      BY <1>5, <2>1, Matches, Zenon DEF Listed
    <3>4. k = e
      BY <3>2, <3>3
    <3> QED
      BY <1>10, <1>12, <3>1, <3>4, Zenon
  <2> QED
    BY <2>2, <2>3, Zenon
<1>14. ASSUME NEW c \in s.cache PROVE Dead(h, c, t.longest, v) \/ OnStack(h, t, c)
  <2>1. CASE Dead(h, c, s.longest, v)
    <3>1. IsFiniteSet(Bits(h, c.linearized)) /\ Bits(h, c.linearized) \in SUBSET Ids(h)
      BY <1>2, BitIds, Zenon
    <3> QED
      BY <2>1, <3>1, SettledGrows, Zenon DEF Grown, Dead
  <2>2. ASSUME NEW i \in 1 .. d,
               Bits(h, c.linearized) = Taken(h, s.calls, i), c.state = StateAt(s, i)
        PROVE  Dead(h, c, t.longest, v) \/ OnStack(h, t, c)
    <3>1. CASE i = d
      BY <1>1, <1>4, <2>2, <3>1, Zenon DEF D, Dead
    <3>2. CASE i # d
      <4>1. i \in 1 .. d - 1 /\ i \in 0 .. d - 1
        BY <1>2, <3>2
      <4> QED
        BY <1>2, <1>10, <2>2, <4>1, Zenon DEF OnStack
    <3> QED
      BY <3>1, <3>2, Zenon
  <2> QED
    BY <2>1, <2>2, Zenon DEF Tried, OnStack, d
<1> QED
  BY <1>2, <1>13, <1>14, Zenon DEF Tried

---------------------------------------------------------------------------------
(* What a search has found *)

\* When the list is empty, the stack is a linearization of everything.
LEMMA CompleteSolves ==
    ASSUME CountingLaws, NEW h, WellFormed(h), NEW s, Matched(h, s), NEW v, Tried(h, s, v),
           s.list.next[headEntry] = Nil, DOMAIN s.longest = Ids(h)
    PROVE  LET longest == [id \in DOMAIN s.longest |-> CallIds(s.calls, h)]
           IN  Kept(h, longest) /\ Solved(h, longest)
<1> DEFINE q == CallIds(s.calls, h)
           d == Len(s.calls)
           n == Len(h) \div 2
           sg == [i \in 0 .. Len(q) |-> StateAt(s, i)]
           longest == [id \in DOMAIN s.longest |-> q]
<1>1. /\ IsSeq(q) /\ Len(q) = d /\ Range(q) = Taken(h, s.calls, d)
      /\ \A i \in 1 .. Len(q) : q[i] = h[s.calls[i].entry].id
      /\ GoesOn(h, {}, KvInit, Len(q), q, sg)
  BY StackGoesOn, Zenon
<1>2. d \in Nat /\ Listed(h, s.calls, d) = {}
  BY Parts, Zenon
<1>3. Taken(h, s.calls, d) \in SUBSET Ids(h) /\ Cardinality(Taken(h, s.calls, d)) = d
  BY <1>2, TakenIds
<1>4. n \in Nat
  BY DEF WellFormed
<1>5. Taken(h, s.calls, d) = Ids(h)
  <2>1. ASSUME NEW id \in Ids(h) PROVE id \in Taken(h, s.calls, d)
    <3>1. CallOf(h, id) \in DOMAIN h /\ h[CallOf(h, id)].id = id
      BY Pairs
    <3> QED
      BY <1>2, <3>1, Zenon DEF Listed
  <2> QED
    BY <1>3, <2>1, Zenon
<1>6. d = n
  <2>1. Cardinality(Ids(h)) = n
    BY <1>4, CountInterval DEF Ids
  <2> QED
    BY <1>3, <1>5, <2>1, Zenon
<1>7. \A id \in Ids(h) : longest[id] = q
  BY Zenon
<1>8. DOMAIN longest = Ids(h)
  BY Zenon
<1> HIDE DEF q, d, n, sg, longest
<1>9. Len(q) = n
  BY <1>1, <1>6, Zenon
<1>10. \A id \in Ids(h) : \E j \in 1 .. Len(q) : q[j] = id
  <2> SUFFICES ASSUME NEW id \in Ids(h) PROVE \E j \in 1 .. Len(q) : q[j] = id
    BY Zenon
  <2>1. id \in Range(q)
    BY <1>1, <1>5, Zenon
  <2>2. DOMAIN q = 1 .. Len(q)
    BY <1>1 DEF IsSeq
  <2> QED
    BY <2>1, <2>2, Zenon DEF Range
<1>11. Len(q) \in Nat
  BY <1>4, <1>9, Zenon
<1>12. Kept(h, longest)
  <2>1. \A id \in Ids(h) : IsSeq(longest[id]) /\ Len(longest[id]) = Len(q)
    BY <1>1, <1>7, Zenon
  <2>2. \A id \in Ids(h) : \E g : GoesOn(h, {}, KvInit, Len(longest[id]), longest[id], g)
    BY <1>1, <1>7, Zenon
  <2>3. \A id \in Ids(h) : \E j \in 1 .. Len(longest[id]) : longest[id][j] = id
    BY <1>7, <1>10, Zenon
  <2>4. \A id, id2 \in Ids(h) : Len(longest[id]) >= Len(longest[id2])
    BY <1>11, <2>1
  <2> QED
    BY <1>8, <2>1, <2>2, <2>3, <2>4, Zenon DEF Kept
<1>13. Solved(h, longest)
  <2>1. Linearized(h)
    BY <1>1, <1>9, Zenon DEF Linearized, n
  <2>2. \A id \in Ids(h) : Len(longest[id]) = n
    BY <1>7, <1>9, Zenon
  <2> QED
    BY <2>1, <2>2, Zenon DEF Solved, n
<1> QED
  BY <1>12, <1>13, Zenon DEF longest, q

\* When nothing is left to try from the start, there is no linearization.
LEMMA SettledRefutes ==
    ASSUME NEW h, NEW longest, NEW v, Settled(h, {}, KvInit, longest, v)
    PROVE  Refuted(h)
<1> SUFFICES ASSUME NEW n \in Nat, NEW q, NEW sg, GoesOn(h, {}, KvInit, n, q, sg)
             PROVE  \E id \in Ids(h) : \A i \in 1 .. n : q[i] # id
  BY Zenon DEF Refuted
<1>1. \E id \in Ids(h) \ {} : \A i \in 1 .. n : q[i] # id
  BY Zenon DEF Settled
<1> QED
  BY <1>1, Zenon

---------------------------------------------------------------------------------
(* The steps of a search *)

\* A search starts with nothing found.
LEMMA StartFound ==
    ASSUME NEW h, WellFormed(h), NEW v, NEW k
    PROVE  Found(h, StartSingle(h), v, k) /\ StartSingle(h).done = FALSE
<1>1. Matched(h, StartSingle(h)) /\ Tried(h, StartSingle(h), v) /\ Kept(h, StartSingle(h).longest)
  BY StartMatched, StartTried, Zenon
<1>2. /\ DOMAIN StartSingle(h) = {"list", "entry", "linearized", "cache", "calls", "longest", "state", "done"}
      /\ StartSingle(h).done = FALSE
  BY Zenon DEF StartSingle
<1> QED
  BY <1>1, <1>2, Zenon DEF Found

\* What a search has found, part by part.
LEMMA BusyParts ==
    ASSUME NEW h, NEW s, NEW v, NEW k, Busy(h, s, v, k)
    PROVE  /\ WellFormed(h) /\ Matched(h, s) /\ Kept(h, s.longest) /\ Tried(h, s, v)
           /\ DOMAIN s = {"list", "entry", "linearized", "cache", "calls", "longest", "state", "done"}
           /\ s.done = FALSE /\ s.list.next[headEntry] # Nil /\ v \in BOOLEAN
BY Zenon DEF Busy, Found

\* The entry it looks at.
\* The entry a search looks at.
LEMMA Looking ==
    ASSUME NEW h, NEW s, NEW v, NEW k, Busy(h, s, v, k)
    PROVE  /\ s.entry # Nil /\ s.entry \in DOMAIN h
           /\ AtCall(h, s) => /\ h[s.entry].kind = "call"
                              /\ StepOf(h, s) = Step(h, s.state, h[s.entry].id)
           /\ ~AtCall(h, s) => h[s.entry].kind = "return"
<1> DEFINE e == s.entry
<1>1. WellFormed(h) /\ Matched(h, s) /\ s.list.next[headEntry] # Nil
  BY BusyParts, Zenon
<1>2. e # Nil
  BY <1>1, Parts, Zenon
<1>3. e \in DOMAIN h
  BY <1>1, <1>2, Zenon DEF Matched, Listed
<1>4. /\ \/ h[e].kind = "call" /\ e = CallOf(h, h[e].id) /\ Match(h, e) = ReturnOf(h, h[e].id)
         \/ h[e].kind = "return" /\ e = ReturnOf(h, h[e].id) /\ Match(h, e) = Nil
      /\ Match(h, e) # Nil <=> h[e].kind = "call"
  BY <1>1, <1>3, Matches, Zenon
<1>5. AtCall(h, s) => h[e].kind = "call" /\ StepOf(h, s) = Step(h, s.state, h[e].id)
  BY <1>4, Zenon DEF Step, AtCall, StepOf
<1>6. ~AtCall(h, s) => h[e].kind = "return"
  BY <1>4, Zenon DEF AtCall
<1> QED
  BY <1>2, <1>3, <1>5, <1>6, Zenon

\* Linearizing a call, passing one by and backtracking keep what was found.
LEMMA AdvancedFound ==
    ASSUME NEW h, NEW s, NEW v, NEW k, Busy(h, s, v, k), AtCall(h, s), Accepts(h, s)
    PROVE  Found(h, Advanced(h, s), v, k) /\ Advanced(h, s).done = FALSE
<1> DEFINE step == StepOf(h, s)
           b == WithEntry(h, s)
           list == lift(s.list, s.entry, Match(h, s.entry))
           t == Advanced(h, s)
<1>1. /\ WellFormed(h) /\ Matched(h, s) /\ Kept(h, s.longest) /\ Tried(h, s, v)
      /\ DOMAIN s = {"list", "entry", "linearized", "cache", "calls", "longest", "state", "done"}
      /\ s.done = FALSE
  BY BusyParts, Zenon
<1>2. /\ s.entry # Nil /\ s.entry \in DOMAIN h /\ h[s.entry].kind = "call"
      /\ step = Step(h, s.state, h[s.entry].id) /\ step.ok
  BY Looking, Zenon DEF Accepts
<1>3. b = set(s.linearized, h[s.entry].id)
  BY Zenon DEF WithEntry
<1>4. t = [s EXCEPT !.cache = @ \cup {[linearized |-> b, state |-> step.state]},
                    !.calls = Append(@, [entry |-> s.entry, state |-> s.state]),
                    !.state = step.state,
                    !.linearized = b,
                    !.list = list,
                    !.entry = list.next[headEntry]]
  BY Zenon DEF Advanced
<1> HIDE DEF step, b, list, t
<1>5. /\ t.cache = s.cache \cup {[linearized |-> b, state |-> step.state]}
      /\ t.calls = Append(s.calls, [entry |-> s.entry, state |-> s.state])
      /\ t.state = step.state /\ t.linearized = b /\ t.list = list
      /\ t.entry = t.list.next[headEntry] /\ t.longest = s.longest /\ t.done = FALSE
      /\ DOMAIN t = DOMAIN s
  BY <1>1, <1>4, Zenon
<1>6. Pushes(h, s, t)
  BY <1>2, <1>3, <1>5, Zenon DEF Pushes, list
<1>7. Matched(h, t) /\ Above(h, s, t)
  BY <1>1, <1>6, PushMatched, Zenon
<1>8. Tried(h, t, v)
  <2>1. Remembers(s, t)
    BY <1>5, Zenon DEF Remembers
  <2> QED
    BY <1>1, <1>7, <2>1, PushTried, Zenon
<1>9. Found(h, t, v, k)
  BY <1>1, <1>5, <1>7, <1>8, Zenon DEF Found
<1> QED
  BY <1>5, <1>9, Zenon DEF t

\* A call that is not accepted, or leads to what is cached, is passed over.
LEMMA SkippedFound ==
    ASSUME NEW h, NEW s, NEW v, NEW k, Busy(h, s, v, k), AtCall(h, s), ~Accepts(h, s)
    PROVE  Found(h, Skipped(s), v, k) /\ Skipped(s).done = FALSE
<1> DEFINE step == StepOf(h, s)
           b == WithEntry(h, s)
           t == Skipped(s)
<1>1. /\ WellFormed(h) /\ Matched(h, s) /\ Kept(h, s.longest) /\ Tried(h, s, v)
      /\ DOMAIN s = {"list", "entry", "linearized", "cache", "calls", "longest", "state", "done"}
      /\ s.done = FALSE
  BY BusyParts, Zenon
<1>2. /\ s.entry # Nil /\ s.entry \in DOMAIN h /\ h[s.entry].kind = "call"
      /\ step = Step(h, s.state, h[s.entry].id)
  BY Looking, Zenon
<1>3. step.ok => cacheContains(s.cache, b, step.state)
  BY Zenon DEF Accepts
<1>4. b = set(s.linearized, h[s.entry].id) /\ t = [s EXCEPT !.entry = s.list.next[s.entry]]
  BY Zenon DEF WithEntry, Skipped
<1> HIDE DEF step, b, t
<1>5. /\ t.cache = s.cache /\ t.calls = s.calls /\ t.state = s.state
      /\ t.linearized = s.linearized /\ t.list = s.list
      /\ t.entry = s.list.next[s.entry] /\ t.longest = s.longest /\ t.done = FALSE
      /\ DOMAIN t = DOMAIN s
  BY <1>1, <1>4, Zenon
<1>6. Skips(h, s, t) /\ Matched(h, t)
  <2>1. Skips(h, s, t)
    BY <1>2, <1>5, Zenon DEF Skips
  <2> QED
    BY <1>1, <2>1, SkipMatched, Zenon
<1>7. Tried(h, t, v)
  <2>1. Rejected(h, s)
    BY <1>2, <1>3, <1>4, Zenon DEF Rejected
  <2> QED
    BY <1>1, <1>6, <2>1, SkipTried, Zenon
<1>8. Found(h, t, v, k)
  BY <1>1, <1>5, <1>6, <1>7, Zenon DEF Found
<1> QED
  BY <1>5, <1>8, Zenon DEF t

\* At a return the last call is taken back, and what was reached is recorded.
LEMMA UndoneFound ==
    ASSUME CountingLaws, NEW h, NEW s, NEW v, NEW k, Busy(h, s, v, k), ~AtCall(h, s), s.calls # <<>>
    PROVE  Found(h, Undone(h, s, v), v, k) /\ Undone(h, s, v).done = FALSE
<1> DEFINE top == s.calls[Len(s.calls)]
           list == unlift(s.list, top.entry, Match(h, top.entry))
           q == CallIds(s.calls, h)
           longest == IF v THEN Record(s.longest, q) ELSE s.longest
           t == Undone(h, s, v)
           sg == [i \in 0 .. Len(q) |-> StateAt(s, i)]
<1>1. /\ WellFormed(h) /\ Matched(h, s) /\ Kept(h, s.longest) /\ Tried(h, s, v)
      /\ DOMAIN s = {"list", "entry", "linearized", "cache", "calls", "longest", "state", "done"}
      /\ s.done = FALSE /\ v \in BOOLEAN
  BY BusyParts, Zenon
<1>2. AtReturn(h, s)
  BY Looking, Zenon DEF AtReturn
<1>3. t = [s EXCEPT !.longest = longest,
                    !.state = top.state,
                    !.linearized = clear(@, h[top.entry].id),
                    !.calls = SubSeq(@, 1, Len(@) - 1),
                    !.list = list,
                    !.entry = list.next[top.entry]]
  BY Zenon DEF Undone
<1>4. /\ IsSeq(q) /\ Len(q) = Len(s.calls) /\ Range(q) = Taken(h, s.calls, Len(s.calls))
      /\ GoesOn(h, {}, KvInit, Len(q), q, sg)
  BY <1>1, StackGoesOn, Zenon
<1> HIDE DEF top, list, q, sg
<1>5. /\ Kept(h, Record(s.longest, q))
      /\ \A id \in Ids(h) : /\ Len(s.longest[id]) \in Nat /\ Len(Record(s.longest, q)[id]) \in Nat
                            /\ Len(Record(s.longest, q)[id]) >= Len(s.longest[id])
                            /\ id \in Range(q) => Len(Record(s.longest, q)[id]) >= Len(q)
  BY <1>1, <1>4, RecordKept, Zenon
<1>6. Kept(h, longest) /\ Grown(h, s.longest, longest)
  <2>1. CASE v
    <3>1. longest = Record(s.longest, q)
      BY <2>1, Zenon
    <3> HIDE DEF longest
    <3> QED
      BY <1>5, <3>1, Zenon DEF Grown
  <2>2. CASE ~v
    <3>1. longest = s.longest
      BY <2>2, Zenon
    <3>2. \A id \in Ids(h) : Len(s.longest[id]) >= Len(s.longest[id])
      BY <1>5
    <3> HIDE DEF longest
    <3> QED
      BY <1>1, <1>5, <3>1, <3>2, Zenon DEF Grown
  <2> QED
    BY <2>1, <2>2, Zenon
<1>7. Reached(longest, Taken(h, s.calls, Len(s.calls)), Len(s.calls), v)
  <2>1. Taken(h, s.calls, Len(s.calls)) \in SUBSET Ids(h)
    <3>1. Len(s.calls) \in 0 .. Len(s.calls)
      <4>1. Len(s.calls) \in Nat
        BY <1>1, Parts, Zenon
      <4> QED
        BY <4>1
    <3> QED
      BY <1>1, <3>1, TakenIds, Zenon
  <2> QED
    BY <1>4, <1>5, <2>1, Zenon DEF Reached
<1> HIDE DEF longest, t
<1>8. /\ t.cache = s.cache
      /\ t.calls = SubSeq(s.calls, 1, Len(s.calls) - 1)
      /\ t.state = top.state /\ t.linearized = clear(s.linearized, h[top.entry].id)
      /\ t.list = list
      /\ t.entry = t.list.next[top.entry] /\ t.longest = longest /\ t.done = FALSE
      /\ DOMAIN t = DOMAIN s
  BY <1>1, <1>3, Zenon
<1>9. Matched(h, t) /\ Below(h, s, t)
  <2>1. Pops(h, s, top, t)
    BY <1>8, Zenon DEF Pops, top, list
  <2> QED
    BY <1>1, <2>1, PopMatched, Zenon
<1>10. Tried(h, t, v)
  BY <1>1, <1>2, <1>6, <1>7, <1>8, <1>9, PopTried, Zenon
<1>11. Found(h, t, v, k)
  BY <1>1, <1>6, <1>8, <1>9, <1>10, Zenon DEF Found
<1> QED
  BY <1>8, <1>11, Zenon DEF t

\* What a search leaves behind when it ends.
\* The end of a search leaves its parts as they are.
LEMMA EndedMatched ==
    ASSUME NEW h, NEW s, NEW v, NEW k, Found(h, s, v, k), NEW longest
    PROVE  LET t == Ended(s, longest)
           IN  /\ Matched(h, t) /\ t.list = s.list /\ t.longest = longest /\ t.done = TRUE
               /\ DOMAIN t = DOMAIN s
<1> DEFINE t == Ended(s, longest)
<1>1. DOMAIN s = {"list", "entry", "linearized", "cache", "calls", "longest", "state", "done"}
  BY Zenon DEF Found
<1>2. t = [s EXCEPT !.longest = longest, !.done = TRUE]
  BY Zenon DEF Ended
<1> HIDE DEF t
<1>3. /\ t.cache = s.cache /\ t.calls = s.calls /\ t.state = s.state
      /\ t.linearized = s.linearized /\ t.list = s.list
      /\ t.entry = s.entry /\ t.longest = longest /\ t.done = TRUE
      /\ DOMAIN t = DOMAIN s
  BY <1>1, <1>2, Zenon
<1>4. \A i : StateAt(t, i) = StateAt(s, i)
  BY <1>3, Zenon DEF StateAt
<1>5. Matched(h, s)
  BY Zenon DEF Found
<1>6. Matched(h, t)
  BY <1>3, <1>4, <1>5, Zenon DEF Matched
<1> QED
  BY <1>3, <1>6, Zenon DEF t

\* A search ends with nothing left to undo, because it is no longer wanted, or with an empty list.
LEMMA ExhaustedFound ==
    ASSUME CountingLaws, NEW h, NEW s, NEW v, NEW k, Busy(h, s, v, k), ~AtCall(h, s), s.calls = <<>>
    PROVE  /\ Found(h, Ended(s, s.longest), v, k) /\ Ended(s, s.longest).done = TRUE
           /\ Refuted(h)
<1> DEFINE t == Ended(s, s.longest)
<1>1. /\ WellFormed(h) /\ Matched(h, s) /\ Kept(h, s.longest) /\ Tried(h, s, v)
      /\ DOMAIN s = {"list", "entry", "linearized", "cache", "calls", "longest", "state", "done"}
      /\ s.list.next[headEntry] # Nil /\ v \in BOOLEAN
  BY BusyParts, Zenon DEF Busy
<1>2. AtReturn(h, s)
  BY Looking, Zenon DEF AtReturn
<1>3. Len(s.calls) = 0 /\ Taken(h, s.calls, Len(s.calls)) = {}
  BY DEF Taken
<1>4. s.state = KvInit
  <2>1. StateAt(s, 0) = KvInit
    BY <1>1, Zenon DEF Matched
  <2>2. ~(0 < Len(s.calls))
    BY <1>3
  <2> QED
    BY <2>1, <2>2, Zenon DEF StateAt
<1>5. Settled(h, {}, KvInit, s.longest, v)
  <2>1. Grown(h, s.longest, s.longest)
    <3>1. ASSUME NEW id \in Ids(h) PROVE Len(s.longest[id]) \in Nat
      <4>1. IsSeq(s.longest[id])
        BY <1>1, Zenon DEF Kept
      <4> QED
        BY <4>1 DEF IsSeq
    <3> QED
      BY <3>1 DEF Grown
  <2>2. Reached(s.longest, Taken(h, s.calls, Len(s.calls)), Len(s.calls), v)
    BY <1>3, Zenon DEF Reached
  <2>3. Settled(h, Taken(h, s.calls, Len(s.calls)), s.state, s.longest, v)
    BY <1>1, <1>2, <2>1, <2>2, ReturnSettles, Zenon
  <2> QED
    BY <1>3, <1>4, <2>3, Zenon
<1>6. Matched(h, t) /\ t.list = s.list /\ t.longest = s.longest /\ t.done = TRUE /\ DOMAIN t = DOMAIN s
  <2>1. Found(h, s, v, k)
    BY Zenon DEF Busy
  <2> QED
    BY <2>1, EndedMatched, Zenon
<1> HIDE DEF t
<1>7. Found(h, t, v, k)
  BY <1>1, <1>5, <1>6, Zenon DEF Found
<1>8. Refuted(h)
  BY <1>5, SettledRefutes, Zenon
<1> QED
  BY <1>6, <1>7, <1>8, Zenon DEF t

\* A search that is killed keeps what it has found.
LEMMA KilledFound ==
    ASSUME NEW h, NEW s, NEW v, Busy(h, s, v, TRUE)
    PROVE  Found(h, Ended(s, s.longest), v, TRUE) /\ Ended(s, s.longest).done = TRUE
<1> DEFINE t == Ended(s, s.longest)
<1>1. /\ WellFormed(h) /\ Kept(h, s.longest)
      /\ DOMAIN s = {"list", "entry", "linearized", "cache", "calls", "longest", "state", "done"}
      /\ s.list.next[headEntry] # Nil
  BY BusyParts, Zenon
<1>2. Matched(h, t) /\ t.list = s.list /\ t.longest = s.longest /\ t.done = TRUE /\ DOMAIN t = DOMAIN s
  <2>1. Found(h, s, v, TRUE)
    BY Zenon DEF Busy
  <2> QED
    BY <2>1, EndedMatched, Zenon
<1> HIDE DEF t
<1>3. Found(h, t, v, TRUE)
  BY <1>1, <1>2, Zenon DEF Found
<1> QED
  BY <1>2, <1>3, Zenon DEF t

\* A search whose list is empty has linearized everything.
LEMMA CompleteFound ==
    ASSUME CountingLaws, NEW h, NEW s, NEW v, NEW k, Found(h, s, v, k), ~s.done, s.list.next[headEntry] = Nil
    PROVE  LET t == Ended(s, Whole(h, s))
           IN  Found(h, t, v, k) /\ t.done = TRUE /\ t.list.next[headEntry] = Nil
<1> DEFINE longest == Whole(h, s)
           t == Ended(s, longest)
<1>1. /\ WellFormed(h) /\ Matched(h, s) /\ Kept(h, s.longest) /\ Tried(h, s, v)
      /\ DOMAIN s = {"list", "entry", "linearized", "cache", "calls", "longest", "state", "done"}
  BY Zenon DEF Found
<1>2. Kept(h, longest) /\ Solved(h, longest)
  <2>1. DOMAIN s.longest = Ids(h)
    BY <1>1, Zenon DEF Kept
  <2>2. longest = [id \in DOMAIN s.longest |-> CallIds(s.calls, h)]
    BY Zenon DEF Whole
  <2> HIDE DEF longest
  <2> QED
    BY <1>1, <2>1, <2>2, CompleteSolves, Zenon
<1> HIDE DEF longest
<1>3. Matched(h, t) /\ t.list = s.list /\ t.longest = longest /\ t.done = TRUE /\ DOMAIN t = DOMAIN s
  BY EndedMatched, Zenon
<1> HIDE DEF t
<1>4. Found(h, t, v, k)
  BY <1>1, <1>2, <1>3, Zenon DEF Found
<1> QED
  BY <1>3, <1>4, Zenon DEF t, longest

---------------------------------------------------------------------------------
(* The parts of a search *)

\* The entries of a call on the stack are those of its operation.
LEMMA Traced ==
    ASSUME NEW h, WellFormed(h), NEW s, Matched(h, s)
    PROVE  /\ Len(h) \in Nat /\ Len(s.calls) \in Nat /\ IsSeq(s.calls)
           /\ Listed(h, s.calls, Len(s.calls)) \in SUBSET (1 .. Len(h))
           /\ \A i \in 1 .. Len(s.calls) : \A st :
                KvStep(st, h[s.calls[i].entry].value, h[Match(h, s.calls[i].entry)].value)
                    = Step(h, st, h[s.calls[i].entry].id)
<1> DEFINE c == s.calls
           d == Len(s.calls)
<1>1. Len(h) \in Nat /\ d \in Nat /\ IsSeq(c) /\ Listed(h, c, d) \in SUBSET (1 .. Len(h))
  BY Parts, Zenon
<1>2. ASSUME NEW i \in 1 .. d, NEW st
      PROVE  KvStep(st, h[c[i].entry].value, h[Match(h, c[i].entry)].value) = Step(h, st, h[c[i].entry].id)
  <2>1. c[i].entry \in Listed(h, c, i - 1) /\ h[c[i].entry].kind = "call" /\ i \in Nat \ {0}
    BY <1>1 DEF Matched, Stacked
  <2>2. /\ CallOf(h, h[c[i].entry].id) = c[i].entry
        /\ ReturnOf(h, h[c[i].entry].id) = Match(h, c[i].entry)
    BY <2>1, Level
  <2> QED
    BY <2>2, Zenon DEF Step
<1> QED
  BY <1>1, <1>2, Zenon

---------------------------------------------------------------------------------
(* The laws *)

\* The laws of SearchTheory.
LEMMA SearchLawsHold ==
    ASSUME CountingLaws
    PROVE  SearchLaws
<1>1. StartLaw
  BY StartFound, Zenon DEF StartLaw
<1>2. AdvanceLaw
  BY AdvancedFound, Zenon DEF AdvanceLaw
<1>3. SkipLaw
  BY SkippedFound, Zenon DEF SkipLaw
<1>4. UndoLaw
  BY UndoneFound, Zenon DEF UndoLaw
<1>5. ExhaustLaw
  BY ExhaustedFound, Zenon DEF ExhaustLaw
<1>6. KillLaw
  BY KilledFound, Zenon DEF KillLaw
<1>7. CompleteLaw
  BY CompleteFound, Zenon DEF CompleteLaw
<1>8. TraceLaw
  BY Traced, Zenon DEF TraceLaw
<1> QED
  BY <1>1, <1>2, <1>3, <1>4, <1>5, <1>6, <1>7, <1>8, Zenon DEF SearchLaws

=================================================================================
