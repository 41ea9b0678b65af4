-------------------------- MODULE PorcupineSearch ---------------------------
(***************************************************************************)
(* The search of checkSingle (porcupine/checker.go) for a linearization of *)
(* the entries h: the bitset of linearized operations, the doubly linked   *)
(* list of entries, the cache, the stack of calls and the longest          *)
(* linearizations, and what an iteration of the loop makes of them.        *)
(***************************************************************************)
EXTENDS KvModel, FiniteSetsExt

CONSTANT
    Word        \* bits of a word of a bitset (64 in the code)

ASSUME WordAssumption == Word \in Nat \ {0}

Nil  == -1
headEntry == 0       \* the sentinel; entry k of a history is node k

-----------------------------------------------------------------------------
(* bitset.go: bit pos is bit pos % Word of the word pos / Word. *)

newBitset_NoExtra(bits) == [w \in 0 .. (bits \div Word) - 1 |-> {}]

newBitset(bits) ==
    LET extra == IF bits % Word # 0 THEN 1 ELSE 0
    IN  [w \in 0 .. (bits \div Word) + extra - 1 |-> {}]

set(b, pos) == [b EXCEPT ![pos \div Word] = @ \cup {pos % Word}]

clear(b, pos) == [b EXCEPT ![pos \div Word] = @ \ {pos % Word}]

-----------------------------------------------------------------------------
(* The linked list of entries. *)

Match_Next(h, k) ==
    IF h[k].kind = "call"
    THEN Min({r \in DOMAIN h : r > k /\ h[r].kind = "return"})
    ELSE Nil

\* node.match: of a call the node of its return, of a return nothing.
Match(h, k) ==
    IF h[k].kind = "call"
    THEN CHOOSE r \in DOMAIN h : h[r].kind = "return" /\ h[r].id = h[k].id
    ELSE Nil

\* makeLinkedEntries, with headEntry inserted before the first entry.
makeLinkedEntries(h) ==
    [next |-> [k \in 0 .. Len(h) |-> IF k < Len(h) THEN k + 1 ELSE Nil],
     prev |-> [k \in 0 .. Len(h) |-> k - 1]]

\* x.next = y and y.prev = x, where y may be nil.
Link(list, x, y) ==
    [next |-> [list.next EXCEPT ![x] = y],
     prev |-> IF y = Nil THEN list.prev ELSE [list.prev EXCEPT ![y] = x]]

\* lift: take a call out of the list, then its return.
Unlink(list, n) == Link(list, list.prev[n], list.next[n])
lift(list, entry, match) == Unlink(Unlink(list, entry), match)

\* Put node n back between the neighbours it still points to.
Relink(list, n) ==
    [next |-> [list.next EXCEPT ![list.prev[n]] = n],
     prev |-> IF list.next[n] = Nil THEN list.prev
                                    ELSE [list.prev EXCEPT ![list.next[n]] = n]]

unlift_OneWay(list, entry, match) ==
    LET l == Relink(list, match)
    IN  [l EXCEPT !.next[l.prev[entry]] = entry]

\* unlift: put the return back, then the call.
unlift(list, entry, match) == Relink(Relink(list, match), entry)

-----------------------------------------------------------------------------
(* The state of a search. *)

\* The locals of checkSingle before its loop, on the entries h.
StartSingle(h) ==
    LET n == Len(h) \div 2
    IN  [list       |-> makeLinkedEntries(h),
         entry      |-> IF h = <<>> THEN Nil ELSE 1,
         linearized |-> newBitset(n),
         cache      |-> {},
         calls      |-> <<>>,
         longest    |-> [id \in 0 .. n - 1 |-> <<>>],     \* <<>> is nil
         state      |-> KvInit,
         done       |-> FALSE]

cacheContains_BitsOnly(cache, linearized, state) ==
    \E c \in cache : c.linearized = linearized

\* cacheContains: the same operations were linearized before, with the same
\* state.  Hashing only narrows the search: equal bitsets have equal hashes.
cacheContains(cache, linearized, state) ==
    [linearized |-> linearized, state |-> state] \in cache

\* The ids of the calls on the stack, in order.
CallIds(calls, h) == [i \in DOMAIN calls |-> h[calls[i].entry].id]

Record_First(longest, seq) ==
    [id \in DOMAIN longest |->
        IF id \in Range(seq) /\ longest[id] = <<>> THEN seq ELSE longest[id]]

\* Before backtracking, the stack is kept for each of its calls for which it is
\* longer than what is kept already.
Record(longest, seq) ==
    [id \in DOMAIN longest |->
        IF id \in Range(seq) /\ Len(seq) > Len(longest[id]) THEN seq ELSE longest[id]]

-----------------------------------------------------------------------------
(* An iteration of the loop; s are the locals. *)

\* The entry the search looks at is a call.
AtCall(h, s) == Match(h, s.entry) # Nil

\* The step of the model for that call, and newLinearized.
StepOf(h, s)    == KvStep(s.state, h[s.entry].value, h[Match(h, s.entry)].value)
WithEntry(h, s) == set(s.linearized, h[s.entry].id)

\* The call is legal here and leads to something new.
Accepts(h, s) ==
    /\ StepOf(h, s).ok
    /\ ~cacheContains(s.cache, WithEntry(h, s), StepOf(h, s).state)

\* The call is put on the stack and out of the list, and the search starts over
\* at the head of the list.
Advanced(h, s) ==
    LET list == lift(s.list, s.entry, Match(h, s.entry))
    IN  [s EXCEPT !.cache = @ \cup {[linearized |-> WithEntry(h, s), state |-> StepOf(h, s).state]},
                  !.calls = Append(@, [entry |-> s.entry, state |-> s.state]),
                  !.state = StepOf(h, s).state,
                  !.linearized = WithEntry(h, s),
                  !.list = list,
                  !.entry = list.next[headEntry]]

\* The search goes on behind the entry.
Skipped(s) == [s EXCEPT !.entry = s.list.next[s.entry]]

\* The last call of the stack is undone, and the search goes on behind it.
Undone(h, s, verbose) ==
    LET top  == s.calls[Len(s.calls)]
        list == unlift(s.list, top.entry, Match(h, top.entry))
    IN  [s EXCEPT !.longest = IF verbose THEN Record(@, CallIds(s.calls, h)) ELSE @,
                  !.state = top.state,
                  !.linearized = clear(@, h[top.entry].id),
                  !.calls = SubSeq(@, 1, Len(@) - 1),
                  !.list = list,
                  !.entry = list.next[top.entry]]

\* The search ends with these longest linearizations; when the list is empty,
\* the stack is the longest one of every call.
Ended(s, longest) == [s EXCEPT !.longest = longest, !.done = TRUE]
Whole(h, s) == [id \in DOMAIN s.longest |-> CallIds(s.calls, h)]

-----------------------------------------------------------------------------
(* What a search has to get right. *)

\* The locals have their types; in particular the bitset has a word for every
\* operation, and the list points to its own nodes.
SingleType(h, s) ==
    LET m == Len(h)
        n == m \div 2
    IN  /\ s.list.next \in [0 .. m -> (1 .. m) \cup {Nil}]
        /\ s.list.prev \in [0 .. m -> (0 .. m) \cup {Nil}]
        /\ s.entry \in (1 .. m) \cup {Nil}
        /\ s.linearized \in [0 .. ((n + Word - 1) \div Word) - 1 -> SUBSET (0 .. Word - 1)]
        /\ DOMAIN s.longest = 0 .. n - 1
        /\ s.done \in BOOLEAN

\* The list holds, in order and linked both ways, exactly the entries whose
\* calls are not on the stack, the bitset holds exactly the calls that are, and
\* state is what they lead to.
MatchesCalls(h, s) ==
    LET ids  == CallIds(s.calls, h)
        Left == {k \in DOMAIN h : h[k].id \notin Range(ids)}
        Apply(st, c) == KvStep(st, h[c.entry].value, h[Match(h, c.entry)].value).state
        reached[i \in 0 .. Len(s.calls)] ==
            IF i = 0 THEN KvInit ELSE Apply(reached[i - 1], s.calls[i])
    IN  /\ \A x \in Left \cup {headEntry} :
             LET later == {k \in Left : k > x}
             IN  IF later = {} THEN s.list.next[x] = Nil
                 ELSE s.list.next[x] = Min(later) /\ s.list.prev[Min(later)] = x
        /\ \A id \in DOMAIN s.longest :
             id \in Range(ids) <=> id % Word \in s.linearized[id \div Word]
        /\ s.state = reached[Len(s.calls)]

=============================================================================
