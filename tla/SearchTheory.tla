------------------------------ MODULE SearchTheory ------------------------------
(***************************************************************************)
(* What a search of checkSingle has found at any time, and the laws that its *)
(* steps obey.                                                             *)
(***************************************************************************)
EXTENDS PorcupineSearch, LegalOrders

\* The node after x among the nodes L, and the one before x, where 0 is the head.
IsNext(L, x, y) ==
    \/ y = Nil /\ \A k \in L : k <= x
    \/ y \in L /\ x < y /\ \A k \in L : x < k => y <= k
IsPrev(L, x, y) == y \in L \cup {0} /\ y < x /\ \A k \in L \cup {0} : k < x => k <= y

\* The list links the nodes L in order, both ways.
Linked(list, m, L) ==
    /\ list.next \in [0 .. m -> (1 .. m) \cup {Nil}]
    /\ list.prev \in [0 .. m -> (0 .. m) \cup {Nil}]
    /\ \A x \in L \cup {0} : IsNext(L, x, list.next[x])
    /\ \A x \in L : IsPrev(L, x, list.prev[x])

\* Node n still points to its neighbours among the nodes L.
Points(list, L, n) == IsNext(L, n, list.next[n]) /\ IsPrev(L, n, list.prev[n])

\* The operations whose bit is set, and the shape of a bitset for the entries h.
Bits(h, b) == {id \in Ids(h) : id % Word \in b[id \div Word]}
BitsetFor(h) == [0 .. (((Len(h) \div 2) + Word - 1) \div Word) - 1 -> SUBSET (0 .. Word - 1)]

\* The operations of the first i calls of the stack, and the entries left in the list
\* when only these are on it.
Taken(h, calls, i)  == {h[calls[j].entry].id : j \in 1 .. i}
Listed(h, calls, i) == {k \in DOMAIN h : h[k].id \notin Taken(h, calls, i)}

\* Each call of the stack was taken from the list its predecessors left.
Stacked(h, calls) ==
    /\ IsSeq(calls)
    /\ \A i \in 1 .. Len(calls) :
         calls[i].entry \in Listed(h, calls, i - 1) /\ h[calls[i].entry].kind = "call"

\* The state after the first i calls of the stack, and the entry the search is at there.
StateAt(s, i) == IF i < Len(s.calls) THEN s.calls[i + 1].state ELSE s.state
At(s, i)      == IF i < Len(s.calls) THEN s.calls[i + 1].entry ELSE s.entry

\* Every call that was lifted still points to its neighbours of that moment, and so
\* does its return.
Lifted(h, list, calls) ==
    \A i \in 1 .. Len(calls) :
        /\ Points(list, Listed(h, calls, i - 1) \ {calls[i].entry}, calls[i].entry)
        /\ Points(list, Listed(h, calls, i), Match(h, calls[i].entry))

\* What SearchMatchesCalls says, with what a backtracking search needs to keep it up.
Matched(h, s) ==
    /\ Stacked(h, s.calls)
    /\ Linked(s.list, Len(h), Listed(h, s.calls, Len(s.calls)))
    /\ Lifted(h, s.list, s.calls)
    /\ s.entry \in Listed(h, s.calls, Len(s.calls)) \cup {Nil}
    /\ s.entry = Nil => Listed(h, s.calls, Len(s.calls)) = {}
    /\ s.linearized \in BitsetFor(h)
    /\ Bits(h, s.linearized) = Taken(h, s.calls, Len(s.calls))
    /\ StateAt(s, 0) = KvInit
    /\ \A i \in 1 .. Len(s.calls) :
         LET step == Step(h, StateAt(s, i - 1), h[s.calls[i].entry].id)
         IN  step.ok /\ step.state = StateAt(s, i)

\* From there no way to go on does all operations and, with computeInfo (v), the longest
\* linearization kept for each operation is as long as any that this leads to.
Settled(h, D, st, longest, v) ==
    \A n \in Nat : \A q, sg :
        GoesOn(h, D, st, n, q, sg) =>
            /\ \E id \in Ids(h) \ D : \A i \in 1 .. n : q[i] # id
            /\ v => \A id \in D \cup {q[i] : i \in 1 .. n} : Len(longest[id]) >= Cardinality(D) + n

\* The call at k, taken there, is not accepted or leads nowhere.
Futile(h, D, st, k, longest, v) ==
    /\ h[k].kind = "call"
    /\ LET step == Step(h, st, h[k].id)
       IN  step.ok => Settled(h, D \cup {h[k].id}, step.state, longest, v)

\* With computeInfo, a linearization of n operations is kept for each operation of D.
Reached(longest, D, n, v) == v => \A id \in D : Len(longest[id]) >= n

\* What is cached leads nowhere or is on the stack.
Dead(h, c, longest, v) == Settled(h, Bits(h, c.linearized), c.state, longest, v)

OnStack(h, s, c) ==
    \E i \in 1 .. Len(s.calls) :
        Bits(h, c.linearized) = Taken(h, s.calls, i) /\ c.state = StateAt(s, i)

\* Wherever the search stands, at every level of its stack all entries before the current
\* one are calls that lead nowhere.
Tried(h, s, v) ==
    /\ \A i \in 0 .. Len(s.calls) : \A k \in Listed(h, s.calls, i) :
         k < At(s, i) => Futile(h, Taken(h, s.calls, i), StateAt(s, i), k, s.longest, v)
    /\ \A c \in s.cache : Dead(h, c, s.longest, v) \/ OnStack(h, s, c)

\* What is kept for an operation is empty or a linearizable prefix with it, and no
\* operation in it has a shorter one.
Kept(h, longest) ==
    /\ DOMAIN longest = Ids(h)
    /\ \A id \in Ids(h) : IsSeq(longest[id])
    /\ \A id \in Ids(h) : \E sg : GoesOn(h, {}, KvInit, Len(longest[id]), longest[id], sg)
    /\ \A id \in Ids(h) : longest[id] # <<>> => \E j \in 1 .. Len(longest[id]) : longest[id][j] = id
    /\ \A id, id2 \in Ids(h) : \A j \in 1 .. Len(longest[id2]) :
         longest[id2][j] = id => Len(longest[id]) >= Len(longest[id2])

\* Every operation of h is kept with a linearization of all of h.
Solved(h, longest) == Linearized(h) /\ \A id \in Ids(h) : Len(longest[id]) = Len(h) \div 2

\* What holds of the locals s of a checkSingle on the entries h, given verbose and kill.
Found(h, s, v, k) ==
    /\ DOMAIN s = {"list", "entry", "linearized", "cache", "calls", "longest", "state", "done"}
    /\ WellFormed(h) /\ Matched(h, s) /\ Kept(h, s.longest)
    /\ s.done \in BOOLEAN
    /\ ~s.done => Tried(h, s, v)
    /\ s.done /\ s.list.next[headEntry] = Nil => Solved(h, s.longest)
    /\ s.done /\ s.list.next[headEntry] # Nil => k \/ Settled(h, {}, KvInit, s.longest, v)

\* A search that goes on: undecided, and with entries left.
Busy(h, s, v, k) == Found(h, s, v, k) /\ v \in BOOLEAN /\ ~s.done /\ s.list.next[headEntry] # Nil

-----------------------------------------------------------------------------
(* What PorcupineSearchProofs proves and CheckerProofs uses *)

\* A search starts with nothing found.
StartLaw ==
    \A h, v, k : WellFormed(h) => Found(h, StartSingle(h), v, k) /\ StartSingle(h).done = FALSE

\* An iteration of the loop keeps what was found, and a search that has nothing left
\* to undo has refuted h.
AdvanceLaw ==
    \A h, s, v, k : Busy(h, s, v, k) /\ AtCall(h, s) /\ Accepts(h, s) =>
        Found(h, Advanced(h, s), v, k) /\ Advanced(h, s).done = FALSE
SkipLaw ==
    \A h, s, v, k : Busy(h, s, v, k) /\ AtCall(h, s) /\ ~Accepts(h, s) =>
        Found(h, Skipped(s), v, k) /\ Skipped(s).done = FALSE
UndoLaw ==
    \A h, s, v, k : Busy(h, s, v, k) /\ ~AtCall(h, s) /\ s.calls # <<>> =>
        Found(h, Undone(h, s, v), v, k) /\ Undone(h, s, v).done = FALSE
ExhaustLaw ==
    \A h, s, v, k : Busy(h, s, v, k) /\ ~AtCall(h, s) /\ s.calls = <<>> =>
        /\ Found(h, Ended(s, s.longest), v, k) /\ Ended(s, s.longest).done = TRUE
        /\ Refuted(h)
KillLaw ==
    \A h, s, v : Busy(h, s, v, TRUE) =>
        Found(h, Ended(s, s.longest), v, TRUE) /\ Ended(s, s.longest).done = TRUE
CompleteLaw ==
    \A h, s, v, k : Found(h, s, v, k) /\ ~s.done /\ s.list.next[headEntry] = Nil =>
        LET t == Ended(s, Whole(h, s))
        IN  Found(h, t, v, k) /\ t.done = TRUE /\ t.list.next[headEntry] = Nil

\* The entries of a call on the stack are those of its operation.
TraceLaw ==
    \A h, s : WellFormed(h) /\ Matched(h, s) =>
        /\ Len(h) \in Nat /\ Len(s.calls) \in Nat /\ IsSeq(s.calls)
        /\ Listed(h, s.calls, Len(s.calls)) \in SUBSET (1 .. Len(h))
        /\ \A i \in 1 .. Len(s.calls) : \A st :
             KvStep(st, h[s.calls[i].entry].value, h[Match(h, s.calls[i].entry)].value)
                 = Step(h, st, h[s.calls[i].entry].id)

SearchLaws ==
    /\ StartLaw /\ AdvanceLaw /\ SkipLaw /\ UndoLaw
    /\ ExhaustLaw /\ KillLaw /\ CompleteLaw /\ TraceLaw

=================================================================================
