-------------------------- MODULE PorcupineHistory --------------------------
(***************************************************************************)
(* The histories the kvraft and shardkv tests have Porcupine check, the    *)
(* entries porcupine/checker.go makes of them, and what it is for a        *)
(* history, a sequence of Operations, to be linearizable.                  *)
(***************************************************************************)
EXTENDS KvModel, FiniteSetsExt

CONSTANTS
    Input,      \* inputs clients give: [op, key, value]
    Output,     \* answers a get may have got
    MaxOps      \* bound: operations of a history

VARIABLE
    ops         \* the history to check, a sequence of Operations

ASSUME InputAssumption == MaxOps \in Nat /\ \A in \in Input : in.key \in Int

\* The times of n operations, listed in the order in which they returned as the
\* clients of the tests list them.
Timings(n) ==
    {t \in [1 .. n -> {cr \in (1 .. 2 * n) \X (1 .. 2 * n) : cr[1] < cr[2]}] :
        /\ Cardinality(UNION {{t[i][1], t[i][2]} : i \in 1 .. n}) = 2 * n
        /\ \A i \in 2 .. n : t[i - 1][2] < t[i][2]}

\* What a client logs: a get with its answer, a put or append with the zero
\* KvOutput.
Logged == {io \in Input \X (Output \cup {<<>>}) : io[1].op # "get" => io[2] = <<>>}

-----------------------------------------------------------------------------
(* From the histories of the two interfaces to entries. *)

\* makeEntries: two entries for each operation, sorted by time.  The clocks of
\* the tests count nanoseconds, so that times differ.
makeEntries(part) ==
    LET Times == UNION {{part[i].call, part[i].ret} : i \in DOMAIN part}
        Op(t) == CHOOSE i \in DOMAIN part : t \in {part[i].call, part[i].ret}
        Entry(t, i) ==
            IF t = part[i].call
            THEN [kind |-> "call", value |-> part[i].input, id |-> i - 1, time |-> t]
            ELSE [kind |-> "return", value |-> part[i].output, id |-> i - 1, time |-> t]
    IN  [k \in 1 .. 2 * Len(part) |-> LET t == Nth(Times, k) IN Entry(t, Op(t))]

\* The same history as a client of CheckEvents would record it: a list of
\* events, whose ids only have to match a return with its call.
Events(part) ==
    LET e == makeEntries(part)
    IN  [k \in DOMAIN e |-> [kind |-> e[k].kind, value |-> e[k].value, id |-> 7 * (e[k].id + 1)]]

\* renumber: ids become 0, 1, ... in the order in which they first appear.
renumber(events) ==
    LET First(id) == Min({k \in DOMAIN events : events[k].id = id})
        New(id)   == Cardinality({events[k].id : k \in 1 .. First(id) - 1})
    IN  [k \in DOMAIN events |-> [events[k] EXCEPT !.id = New(@)]]

\* convertEntries: the index of an event serves as its time.
convertEntries(events) ==
    [k \in DOMAIN events |->
        [kind |-> events[k].kind, value |-> events[k].value, id |-> events[k].id, time |-> k]]

-----------------------------------------------------------------------------
(* Linearizability *)

\* The order in time and the meaning of a whole history, for all keys at once.
LegalRun(hist, order) ==
    LET Apply(acc, i) ==
            LET step == KvStep(acc.store[hist[i].input.key], hist[i].input, hist[i].output)
            IN  [ok |-> acc.ok /\ step.ok,
                 store |-> [acc.store EXCEPT ![hist[i].input.key] = step.state]]
        empty == [k \in {in.key : in \in Input} |-> KvInit]
        run[m \in 0 .. Len(order)] ==
            IF m = 0 THEN [ok |-> TRUE, store |-> empty] ELSE Apply(run[m - 1], order[m])
    IN  run[Len(order)].ok

Linearizable(hist) ==
    \E order \in Bijection(DOMAIN hist, DOMAIN hist) :
        /\ \A i, j \in DOMAIN order : i < j => ~(hist[order[j]].ret < hist[order[i]].call)
        /\ LegalRun(hist, order)

=============================================================================
