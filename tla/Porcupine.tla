------------------------------ MODULE Porcupine ------------------------------
(***************************************************************************)
(* The linearizability checker the kvraft and shardkv tests rely on        *)
(* (porcupine/checker.go): the history is partitioned by key, a goroutine  *)
(* per partition searches for a linearization with a doubly linked list of *)
(* entries, a cache and a stack of calls, and the caller collects the      *)
(* results, against a timeout.                                             *)
(*                                                                         *)
(* A step of a goroutine is one iteration of the loop of checkSingle.  The *)
(* only state it shares with others is the flag kill, loaded once per      *)
(* iteration, and the buffered channel results.  The timeout may fire at   *)
(* any time and never has to, which covers calls without a timeout.        *)
(***************************************************************************)
EXTENDS PorcupineHistory, PorcupineSearch, PartialLinearizations

VARIABLES
    verbose,    \* computeInfo: partial linearizations are wanted
    pc,         \* where the caller is: idle, loop, drain, returned, shown, panicked
    history,    \* for each partition, its entries
    single,     \* for each partition, the local state of its checkSingle
    results,    \* the channel results
    kill, ok, timedOut, count,  \* locals of checkParallel
    verdict,    \* the CheckResult returned
    partials,   \* info.partialLinearizations, a set for each partition
    largest     \* size of the linearization the picture shows for an operation

input  == <<ops, verbose>>
caller == <<pc, ok, timedOut, count, verdict, partials, largest>>
vars   == <<input, history, single, results, kill, caller>>

Partition == DOMAIN history

-----------------------------------------------------------------------------
(* checkSingle *)

\* The goroutine of partition p is in the loop, with entries left and no kill.
Searching(p) ==
    /\ pc # "idle"
    /\ ~single[p].done
    /\ single[p].list.next[headEntry] # Nil
    /\ ~kill

\* The call is legal here and leads to something new: it is linearized.
Linearize(p) ==
    /\ Searching(p) /\ AtCall(history[p], single[p])
    /\ Accepts(history[p], single[p])
    /\ single' = [single EXCEPT ![p] = Advanced(history[p], @)]
    /\ UNCHANGED <<input, history, results, kill, caller>>

\* The call is not legal here, or was tried before with the same outcome.
Skip(p) ==
    /\ Searching(p) /\ AtCall(history[p], single[p])
    /\ ~Accepts(history[p], single[p])
    /\ single' = [single EXCEPT ![p] = Skipped(@)]
    /\ UNCHANGED <<input, history, results, kill, caller>>

\* A return is reached: its call had to be linearized before it and was not.
Backtrack(p) ==
    /\ Searching(p) /\ ~AtCall(history[p], single[p])
    /\ single[p].calls # <<>>
    /\ single' = [single EXCEPT ![p] = Undone(history[p], @, verbose)]
    /\ UNCHANGED <<input, history, results, kill, caller>>

\* checkSingle returns: the goroutine stores what it found and sends the result.
Send(p, result, longest) ==
    /\ single' = [single EXCEPT ![p] = Ended(@, longest)]
    /\ results' = Append(results, result)
    /\ UNCHANGED <<input, history, kill, caller>>

\* A return is reached and there is nothing to undo: no linearization exists.
Exhausted(p) ==
    /\ Searching(p) /\ ~AtCall(history[p], single[p])
    /\ single[p].calls = <<>>
    /\ Send(p, FALSE, single[p].longest)

\* The list is empty: the stack is a linearization.
Complete(p) ==
    /\ pc # "idle" /\ ~single[p].done
    /\ single[p].list.next[headEntry] = Nil
    /\ Send(p, TRUE, Whole(history[p], single[p]))

\* The search gives up because the caller no longer wants the answer.
Killed(p) ==
    /\ pc # "idle" /\ ~single[p].done
    /\ single[p].list.next[headEntry] # Nil
    /\ kill
    /\ Send(p, FALSE, single[p].longest)

checkSingle(p) ==
    \/ Linearize(p) \/ Skip(p) \/ Backtrack(p)
    \/ Exhausted(p) \/ Complete(p) \/ Killed(p)

-----------------------------------------------------------------------------
(* checkOperations, checkEvents and checkParallel *)

\* checkParallel starts one goroutine for each partition.
StartParallel(hs) ==
    /\ pc = "idle"
    /\ pc' = "loop"
    /\ \E h \in {hs} :
         /\ history' = h
         /\ single' = [p \in DOMAIN h |-> StartSingle(h[p])]
    /\ UNCHANGED <<input, results, kill, ok, timedOut, count, verdict, partials, largest>>

checkOperations ==
    \E parts \in {KvPartition(ops)} :
        StartParallel([p \in DOMAIN parts |-> makeEntries(parts[p])])

\* KvModel has no PartitionEvent, so that all events are one partition; the
\* model of a store with one key then fits histories of one key only.
checkEvents ==
    /\ pc = "idle"
    /\ \A i, j \in DOMAIN ops : ops[i].input.key = ops[j].input.key
    /\ StartParallel(<<convertEntries(renumber(Events(ops)))>>)

receiveResult_OneMore ==
    /\ pc = "loop" /\ results # <<>>
    /\ results' = Tail(results)
    /\ count' = count + 1
    /\ ok' = (ok /\ results[1])
    /\ kill' = (kill \/ (~ok' /\ ~verbose))
    /\ pc' = IF (~ok' /\ ~verbose) \/ count' > Len(history) THEN "drain" ELSE pc
    /\ UNCHANGED <<input, history, single, timedOut, verdict, partials, largest>>

\* The select loop receives a result.  A bad one ends the loop and stops the
\* other goroutines, unless partial linearizations are wanted.
receiveResult ==
    /\ pc = "loop" /\ results # <<>>
    /\ results' = Tail(results)
    /\ count' = count + 1
    /\ ok' = (ok /\ results[1])
    /\ kill' = (kill \/ (~ok' /\ ~verbose))
    /\ pc' = IF (~ok' /\ ~verbose) \/ count' >= Len(history) THEN "drain" ELSE pc
    /\ UNCHANGED <<input, history, single, timedOut, verdict, partials, largest>>

\* The select loop sees the timeout.
timeout ==
    /\ pc = "loop"
    /\ timedOut' = TRUE
    /\ kill' = TRUE
    /\ pc' = "drain"
    /\ UNCHANGED <<input, history, single, results, ok, count, verdict, partials, largest>>

\* With computeInfo the remaining goroutines are waited for, their results unread.
drain ==
    /\ pc = "drain" /\ verbose
    /\ count < Len(history)
    /\ results # <<>>
    /\ results' = Tail(results)
    /\ count' = count + 1
    /\ UNCHANGED <<input, history, single, kill, pc, ok, timedOut, verdict, partials, largest>>

Verdict == IF ~ok THEN "Illegal" ELSE IF timedOut THEN "Unknown" ELSE "Ok"

\* checkParallel returns, with the sets of partial linearizations if wanted.
return ==
    /\ pc = "drain"
    /\ verbose => count >= Len(history)
    /\ pc' = "returned"
    /\ verdict' = Verdict
    /\ partials' = IF verbose
                   THEN [p \in Partition |->
                           {single[p].longest[id] : id \in DOMAIN single[p].longest} \ {<<>>}]
                   ELSE partials
    /\ UNCHANGED <<input, history, single, results, kill, ok, timedOut, count, largest>>

checkParallel == receiveResult \/ timeout \/ drain \/ return

-----------------------------------------------------------------------------
(* computeVisualizationData *)

\* The values of the call and of the return with an id.
CallValue(h, id) ==
    h[CHOOSE k \in DOMAIN h : h[k].id = id /\ h[k].kind = "call"].value
ReturnValue(h, id) ==
    h[CHOOSE k \in DOMAIN h : h[k].id = id /\ h[k].kind = "return"].value

\* A linearization is replayed from the initial state of the model.
Replay(h, seq) ==
    LET Apply(acc, id) ==
            LET step == KvStep(acc.state, CallValue(h, id), ReturnValue(h, id))
            IN  [ok |-> acc.ok /\ step.ok, state |-> step.state]
        run[k \in 0 .. Len(seq)] ==
            IF k = 0 THEN [ok |-> TRUE, state |-> KvInit] ELSE Apply(run[k - 1], seq[k])
    IN  run[Len(seq)]

largestSize_Last(lins, id) == Min({Len(q) : q \in {r \in lins : id \in Range(r)}} \cup {0})

\* largestSize: what the loop over the linearizations with the operation ends
\* with; 0 when there is none.
largestSize(lins, id) == Max({Len(q) : q \in {r \in lins : id \in Range(r)}} \cup {0})

\* The tests visualize what they find Illegal; a linearization the model does not
\* accept is a panic.
Visualize ==
    /\ pc = "returned" /\ verbose /\ verdict = "Illegal"
    /\ pc' = IF \A p \in Partition : \A q \in partials[p] : Replay(history[p], q).ok
             THEN "shown" ELSE "panicked"
    /\ largest' = [p \in Partition |->
                     [id \in DOMAIN single[p].longest |-> largestSize(partials[p], id)]]
    /\ UNCHANGED <<input, history, single, results, kill, ok, timedOut, count, verdict, partials>>

-----------------------------------------------------------------------------

Init ==
    /\ \E n \in 0 .. MaxOps : \E l \in [1 .. n -> Logged], t \in Timings(n) :
          ops = [i \in 1 .. n |-> [input |-> l[i][1], output |-> l[i][2],
                                   call |-> t[i][1], ret |-> t[i][2]]]
    /\ verbose \in BOOLEAN
    /\ pc = "idle"
    /\ history = <<>> /\ single = <<>> /\ results = <<>>
    /\ kill = FALSE /\ ok = TRUE /\ timedOut = FALSE /\ count = 0
    /\ verdict = "none" /\ partials = <<>> /\ largest = <<>>

Next ==
    \/ checkOperations \/ checkEvents
    \/ checkParallel \/ Visualize
    \/ \E p \in Partition : checkSingle(p)

Spec == Init /\ [][Next]_vars

\* Somebody other than the timeout goes on as long as anybody can: the caller
\* calls, goroutines are scheduled, and a receive with a result ready returns.
Progress ==
    \/ receiveResult \/ drain \/ return \/ Visualize
    \/ \E p \in Partition : checkSingle(p)
    \/ checkOperations \/ checkEvents

FairSpec == Spec /\ WF_vars(Progress)

-----------------------------------------------------------------------------
(* Properties *)

\* Every variable of the checker stays in its domain; in particular the channel
\* of results never blocks, the bitset of a search has a word for every operation,
\* and its list points to its own nodes.
TypeOK ==
    /\ pc \in {"idle", "loop", "drain", "returned", "shown", "panicked"}
    /\ {verbose, kill, ok, timedOut} \subseteq BOOLEAN
    /\ verdict \in {"none", "Ok", "Illegal", "Unknown"}
    /\ count \in 0 .. Len(history)
    /\ Len(results) + count <= Len(history)     \* the channel never blocks
    /\ \A p \in Partition : SingleType(history[p], single[p])

\* What CheckOperations answers is right, whatever the interleaving of the
\* goroutines, the kill flag and the timeout: Ok only for a history of all keys
\* that has a linearization, Illegal only for one that has none, and Unknown
\* only after a timeout.  This is also the claim model.go makes of Partition.
VerdictIsRight ==
    pc = "returned" =>
        /\ verdict = "Ok" => Linearizable(ops)
        /\ verdict = "Illegal" => ~Linearizable(ops)
        /\ verdict = "Unknown" => timedOut

\* lift and unlift: at every point of the search the list holds, in order and
\* linked both ways, exactly the entries whose calls are not on the stack, the
\* bitset holds exactly the calls that are, and state is what they lead to.
SearchMatchesCalls == \A p \in Partition : MatchesCalls(history[p], single[p])

\* Sequences of ids of the entries h, with operations Id, that are linearizable
\* prefixes: legal, and with every operation that returned before one of them was
\* called before it.
LinearizablePrefix(h, Id, seq) ==
    LET C(id) == CHOOSE k \in DOMAIN h : h[k].id = id /\ h[k].kind = "call"
        R(id) == CHOOSE k \in DOMAIN h : h[k].id = id /\ h[k].kind = "return"
    IN  /\ \A i \in DOMAIN seq : \A id \in Id :
             R(id) < C(seq[i]) => \E j \in 1 .. i - 1 : seq[j] = id
        /\ Replay(h, seq).ok

\* Every partial linearization handed to the visualizer is one: the stack that
\* is recorded before backtracking is legal and respects the order in time,
\* also when the search was cut short by the timeout.
PartialsAreLinearizable ==
    pc \in {"returned", "shown", "panicked"} /\ verbose =>
        \A p \in Partition : \A seq \in partials[p] :
            LinearizablePrefix(history[p], DOMAIN single[p].longest, seq)

\* The linearizable prefixes of h without repetitions.
Prefixes(h, Id) ==
    {q \in UNION {Bijection(1 .. Cardinality(S), S) : S \in SUBSET Id} : LinearizablePrefix(h, Id, q)}

\* "longest linearizable prefix that includes the given entry" (checkSingle):
\* when no timeout cuts the search short, what is kept for an operation is as
\* long as any linearizable prefix with it, in spite of what the cache prunes.
LongestIsLongest ==
    pc = "returned" /\ verbose /\ ~timedOut =>
        \A p \in Partition :
            LET Id  == DOMAIN single[p].longest
                All == Prefixes(history[p], Id)
            IN  \A id \in Id :
                  LET with == {q \in All : id \in Range(q)}
                  IN  Len(single[p].longest[id]) = Max({Len(q) : q \in with} \cup {0})

\* The visualizer accepts every linearization it is given ("valid partial
\* linearization returned non-ok result from model step" is never reached), and
\* the one it shows for an operation is as long as the one checkSingle kept for
\* it, although it looks at the set of all that were kept.
VisualizerShowsLongest ==
    /\ pc # "panicked"
    /\ pc = "shown" =>
         \A p \in Partition : \A id \in DOMAIN largest[p] :
             largest[p][id] = Len(single[p].longest[id])

\* The boxes the page draws for the entries h.
Boxes(h) ==
    LET Time(kind, id) == h[CHOOSE k \in DOMAIN h : h[k].id = id /\ h[k].kind = kind].time
    IN  [i \in 1 .. Len(h) \div 2 |-> [start |-> Time("call", i - 1), end |-> Time("return", i - 1)]]

\* What the page draws as "Invalid LP" after a partial linearization is an operation
\* the model does not accept there: if it did, checkSingle would have kept a longer
\* linearization.  (A search that a timeout cuts short may draw legal ones.)
IllegalPointsAreIllegal ==
    pc = "shown" /\ ~timedOut =>
        \A p \in Partition : \A seq \in partials[p] :
            \A i \in PossibleNext(Boxes(history[p]), [k \in DOMAIN seq |-> seq[k] + 1]) :
                ~Replay(history[p], Append(seq, i - 1)).ok

\* A check of a history that is not empty returns, without any timeout, and all
\* its goroutines end: the search backtracks only finitely often, no result is
\* missed, and none blocks on the channel.  (An empty history has no partition,
\* no goroutine and no result: its check waits for the timeout.)
CheckReturns ==
    <>(ops = <<>> \/ (pc \in {"returned", "shown"} /\ \A p \in Partition : single[p].done))

=============================================================================
