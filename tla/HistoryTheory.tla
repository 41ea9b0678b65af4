----------------------------- MODULE HistoryTheory ------------------------------
(***************************************************************************)
(* What it is for the entries of the partitions to stand for a history, and *)
(* the laws of histories that the correctness of the checker rests on.     *)
(***************************************************************************)
EXTENDS PorcupineHistory, LegalOrders

\* Operations that return after they were called, at times that all differ.
Timed(o) ==
    /\ IsSeq(o)
    /\ \A i \in DOMAIN o : o[i].call \in Int /\ o[i].ret \in Int /\ o[i].call < o[i].ret
    /\ \A i, j \in DOMAIN o : /\ o[i].call = o[j].call => i = j
                              /\ o[i].ret = o[j].ret => i = j
                              /\ o[i].call # o[j].ret

\* The times of the entries tell their order.
Clocked(h) ==
    \A a, b \in DOMAIN h : h[a].time \in Int /\ (a < b <=> h[a].time < h[b].time)

\* The entries h stand for the operations X of o: f takes the ids to them, the values are
\* theirs, and one returned before another was called in h iff it did in o.
Stands(h, o, X, f) ==
    /\ WellFormed(h) /\ Clocked(h)
    /\ f \in [Ids(h) -> X]
    /\ \A a, b \in Ids(h) : f[a] = f[b] => a = b
    /\ \A i \in X : \E a \in Ids(h) : f[a] = i
    /\ \A a \in Ids(h) : /\ h[CallOf(h, a)].value = o[f[a]].input
                         /\ h[ReturnOf(h, a)].value = o[f[a]].output
    /\ \A a, b \in Ids(h) : ReturnOf(h, a) < CallOf(h, b) <=> o[f[a]].ret < o[f[b]].call

\* The entries hs of the partitions: each stands for the operations of a key, another
\* one for each partition, and no key is left out.
Divides(o, hs) ==
    \E key :
        /\ \A p, q \in DOMAIN hs : key[p] = key[q] => p = q
        /\ \A i \in DOMAIN o : \E p \in DOMAIN hs : key[p] = o[i].input.key
        /\ \A p \in DOMAIN hs : \E f :
             Stands(hs[p], o, {i \in DOMAIN o : o[i].input.key = key[p]}, f)

-----------------------------------------------------------------------------
(* What PorcupineHistoryProofs proves and CheckerProofs uses *)

\* Facts about numbers and finite sets.
InductionLaw == \A S \in SUBSET Nat : 0 \in S /\ (\A n \in S : n + 1 \in S) => S = Nat
MinLaw ==
    \A S \in SUBSET Int, b \in Int :
        S # {} /\ (\A x \in S : b <= x) => Min(S) \in S /\ \A n \in S : Min(S) <= n
MaxLaw ==
    \A S \in SUBSET Int, b \in Int :
        S # {} /\ (\A x \in S : x <= b) => Max(S) \in S /\ \A n \in S : n <= Max(S)
CountLaw ==
    /\ Cardinality({}) = 0
    /\ \A n \in Nat : \A S \in SUBSET (1 .. n) :
         /\ Cardinality(S) \in Nat /\ Cardinality(S) <= n
         /\ Cardinality(S) = n => S = 1 .. n
         /\ \A x \in (1 .. n) \ S : Cardinality(S \cup {x}) = Cardinality(S) + 1
SmallerLaw == \A n \in Nat : \A S \in SUBSET (0 .. n - 1) : Cardinality(S) \in Nat /\ Cardinality(S) <= n
InjectionLaw ==
    \A c \in Nat, n \in Nat : \A q \in [1 .. c -> 0 .. n - 1] :
        (\A i, j \in 1 .. c : q[i] = q[j] => i = j) =>
            c <= n /\ Cardinality({q[i] : i \in 1 .. c}) = c
LeastLaw ==
    \A n \in Nat : \A R \in SUBSET (1 .. n) : \A f \in [R -> Int] :
        R # {} => \E x \in R : \A y \in R : f[x] <= f[y]

\* The histories of Init are clocked, and both ways to make entries of one divide it.
TimedLaw ==
    \A n \in Nat : \A l : \A t \in Timings(n) :
        Timed([i \in 1 .. n |-> [input |-> l[i][1], output |-> l[i][2],
                                 call |-> t[i][1], ret |-> t[i][2]]])
PartitionLaw ==
    \A o : Timed(o) /\ (\A i \in DOMAIN o : o[i].input.key \in Int) =>
        LET parts == KvPartition(o)
            hs == [p \in DOMAIN parts |-> makeEntries(parts[p])]
        IN  IsSeq(hs) /\ Divides(o, hs)
EventsLaw ==
    \A o : Timed(o) /\ (\A i, j \in DOMAIN o : o[i].input.key = o[j].input.key) =>
        LET hs == <<convertEntries(renumber(Events(o)))>> IN IsSeq(hs) /\ Divides(o, hs)

HistoryLaws ==
    /\ InductionLaw /\ MinLaw /\ MaxLaw /\ CountLaw /\ SmallerLaw /\ InjectionLaw /\ LeastLaw
    /\ TimedLaw /\ PartitionLaw /\ EventsLaw

\* A history is linearizable if each of its parts is, and only then.
VerdictLaw(o) ==
    Timed(o) /\ (\A i \in DOMAIN o : o[i].input \in Input) =>
        \A hs : Divides(o, hs) =>
            /\ (\A p \in DOMAIN hs : Linearized(hs[p])) => Linearizable(o)
            /\ (\E p \in DOMAIN hs : Refuted(hs[p])) => ~Linearizable(o)

=================================================================================
