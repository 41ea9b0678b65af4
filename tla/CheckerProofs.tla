-------------------------- MODULE CheckerProofs --------------------------
(***************************************************************************)
(* The checker as a whole: an inductive invariant, and from it the properties *)
(* of Porcupine.tla, for any history, input and Word.                      *)
(***************************************************************************)
EXTENDS Porcupine, HistoryTheory, SearchTheory, TLAPS

\* What the proofs about histories and about single searches contribute.
Theory == HistoryLaws /\ SearchLaws

\* Induction, with the numbers that have a property as a set.
LEMMA Induct ==
    ASSUME Theory, NEW S \in SUBSET Nat, 0 \in S, \A n \in S : n + 1 \in S
    PROVE  S = Nat
BY Zenon DEF Theory, HistoryLaws, InductionLaw

\* Min and Max of a set of integers with a bound.
LEMMA MinIs ==
    ASSUME Theory, NEW S \in SUBSET Int, NEW b \in Int, \A x \in S : b <= x, S # {}
    PROVE  Min(S) \in S /\ \A n \in S : Min(S) <= n
BY Zenon DEF Theory, HistoryLaws, MinLaw

\* The same for Max.
LEMMA MaxIs ==
    ASSUME Theory, NEW S \in SUBSET Int, NEW b \in Int, \A x \in S : x <= b, S # {}
    PROVE  Max(S) \in S /\ \A n \in S : n <= Max(S)
BY Zenon DEF Theory, HistoryLaws, MaxLaw

---------------------------------------------------------------------------------
(* Replays *)

\* One step of the replay of a linearization, and the whole of it.
Replayed(h, acc, id) ==
    LET step == KvStep(acc.state, CallValue(h, id), ReturnValue(h, id))
    IN  [ok |-> acc.ok /\ step.ok, state |-> step.state]

IsReplay(h, seq, n, run) ==
    run = [k \in 0 .. n |->
             IF k = 0 THEN [ok |-> TRUE, state |-> KvInit] ELSE Replayed(h, run[k - 1], seq[k])]

\* Replay computes the states one after the other.
LEMMA ReplayExists ==
    ASSUME Theory, NEW h, NEW seq, NEW n \in Nat
    PROVE  \E run : IsReplay(h, seq, n, run)
<1> DEFINE S == {m \in Nat : \E run : IsReplay(h, seq, m, run)}
<1>1. 0 \in S
  <2> DEFINE run == [k \in 0 .. 0 |-> [ok |-> TRUE, state |-> KvInit]]
  <2>1. IsReplay(h, seq, 0, run)
    BY DEF IsReplay
  <2> QED
    BY <2>1, Zenon
<1>2. ASSUME NEW m \in S PROVE m + 1 \in S
  <2>1. PICK f : IsReplay(h, seq, m, f)
    BY <1>2, Zenon
  <2> DEFINE run == [k \in 0 .. m + 1 |-> IF k = m + 1 THEN Replayed(h, f[m], seq[m + 1]) ELSE f[k]]
             rhs == [k \in 0 .. m + 1 |->
                       IF k = 0 THEN [ok |-> TRUE, state |-> KvInit] ELSE Replayed(h, run[k - 1], seq[k])]
  <2>2. ASSUME NEW k \in 0 .. m + 1 PROVE run[k] = rhs[k]
    <3>1. CASE k = m + 1
      <4>1. k # 0 /\ k - 1 = m /\ m \in 0 .. m + 1 /\ m # m + 1
        BY <3>1
      <4>2. run[m] = f[m]
        BY <4>1, Zenon
      <4> QED
        BY <3>1, <4>1, <4>2, Zenon
    <3>2. CASE k # m + 1
      <4>1. k \in 0 .. m /\ run[k] = f[k]
        BY <3>2
      <4>2. f[k] = IF k = 0 THEN [ok |-> TRUE, state |-> KvInit] ELSE Replayed(h, f[k - 1], seq[k])
        BY <2>1, <4>1, Zenon DEF IsReplay
      <4>3. k # 0 => run[k - 1] = f[k - 1]
        <5>1. k # 0 => k - 1 \in 0 .. m + 1 /\ k - 1 # m + 1
          BY <4>1
        <5> QED
          BY <5>1, Zenon
      <4> HIDE DEF run
      <4> QED
        BY <4>1, <4>2, <4>3, Zenon
    <3> QED
      BY <3>1, <3>2, Zenon
  <2>3. run = rhs
    BY <2>2, Zenon
  <2> HIDE DEF run
  <2>4. IsReplay(h, seq, m + 1, run)
    BY <2>3, Zenon DEF IsReplay
  <2>5. m + 1 \in Nat
    OBVIOUS
  <2> QED
    BY <2>4, <2>5, Zenon
<1> HIDE DEF S
<1>3. S \in SUBSET Nat
  BY Zenon DEF S
<1>4. S = Nat
  BY <1>1, <1>2, <1>3, Induct, Zenon
<1> QED
  BY <1>4, Zenon DEF S

\* Replay gives the last element of a run of Replayed.
LEMMA ReplayRun ==
    ASSUME Theory, NEW h, NEW seq, Len(seq) \in Nat
    PROVE  \E run : IsReplay(h, seq, Len(seq), run) /\ Replay(h, seq) = run[Len(seq)]
<1> DEFINE run == CHOOSE f : f = [k \in 0 .. Len(seq) |->
             IF k = 0 THEN [ok |-> TRUE, state |-> KvInit] ELSE Replayed(h, f[k - 1], seq[k])]
<1>1. IsReplay(h, seq, Len(seq), run)
  <2>1. \E f : f = [k \in 0 .. Len(seq) |->
             IF k = 0 THEN [ok |-> TRUE, state |-> KvInit] ELSE Replayed(h, f[k - 1], seq[k])]
    <3>1. \E f : IsReplay(h, seq, Len(seq), f)
      BY ReplayExists, Zenon
    <3> QED
      BY <3>1, Zenon DEF IsReplay
  <2>2. run = [k \in 0 .. Len(seq) |->
             IF k = 0 THEN [ok |-> TRUE, state |-> KvInit] ELSE Replayed(h, run[k - 1], seq[k])]
    BY <2>1, Zenon
  <2> HIDE DEF run
  <2> QED
    BY <2>2, Zenon DEF IsReplay
<1>2. Replay(h, seq) = run[Len(seq)]
  BY Zenon DEF Replay, Replayed
<1> QED
  BY <1>1, <1>2, Zenon

\* What one step of a replay gives.
LEMMA ReplayedFields ==
    ASSUME NEW h, NEW acc, NEW id
    PROVE  /\ Replayed(h, acc, id).ok <=> acc.ok /\ Step(h, acc.state, id).ok
           /\ Replayed(h, acc, id).state = Step(h, acc.state, id).state
<1> DEFINE step == KvStep(acc.state, CallValue(h, id), ReturnValue(h, id))
           a == acc.ok /\ step.ok
           b == step.state
<1>1. Replayed(h, acc, id) = [ok |-> a, state |-> b]
  BY Zenon DEF Replayed
<1>2. step = Step(h, acc.state, id)
  BY Zenon DEF Step, CallValue, ReturnValue, CallOf, ReturnOf
<1> HIDE DEF step
<1>3. a <=> acc.ok /\ Step(h, acc.state, id).ok
  BY <1>2, Zenon
<1>4. b = Step(h, acc.state, id).state
  BY <1>2, Zenon
<1> HIDE DEF a, b
<1>5. Replayed(h, acc, id).ok = a /\ Replayed(h, acc, id).state = b
  BY <1>1
<1> QED
  BY <1>3, <1>4, <1>5, Zenon

\* A legal sequence of operations is one the replay accepts, and the other way round.
LEMMA ReplayAccepts ==
    ASSUME Theory, NEW h, NEW seq, Len(seq) \in Nat, NEW sg,
           GoesOn(h, {}, KvInit, Len(seq), seq, sg)
    PROVE  Replay(h, seq).ok
<1> DEFINE n == Len(seq)
<1>1. PICK run : IsReplay(h, seq, n, run) /\ Replay(h, seq) = run[n]
  BY ReplayRun, Zenon
<1>2. /\ sg[0] = KvInit
      /\ \A i \in 1 .. n : Step(h, sg[i - 1], seq[i]).ok /\ sg[i] = Step(h, sg[i - 1], seq[i]).state
  BY Zenon DEF GoesOn
<1>3. \A acc, id : /\ Replayed(h, acc, id).ok <=> acc.ok /\ Step(h, acc.state, id).ok
                   /\ Replayed(h, acc, id).state = Step(h, acc.state, id).state
  BY ReplayedFields, Zenon
<1> HIDE DEF n
<1> DEFINE S == {k \in Nat : k <= n => run[k].ok /\ run[k].state = sg[k]}
<1>4. n \in Nat
  BY Zenon DEF n
<1>5. 0 \in S
  <2>1. run[0] = [ok |-> TRUE, state |-> KvInit]
    BY <1>1, <1>4 DEF IsReplay
  <2> QED
    BY <1>2, <2>1
<1>6. ASSUME NEW k \in S PROVE k + 1 \in S
  <2>1. CASE k + 1 <= n
    <3>1. k \in Nat /\ k <= n /\ k + 1 \in 1 .. n /\ k + 1 \in 0 .. n /\ (k + 1) - 1 = k /\ k + 1 # 0
      BY <1>4, <2>1
    <3>2. run[k].ok /\ run[k].state = sg[k]
      BY <3>1, Zenon
    <3>3. run[k + 1] = Replayed(h, run[k], seq[k + 1])
      BY <1>1, <3>1, Zenon DEF IsReplay
    <3>4. Step(h, sg[k], seq[k + 1]).ok /\ sg[k + 1] = Step(h, sg[k], seq[k + 1]).state
      BY <1>2, <3>1, Zenon
    <3>5. run[k + 1].ok /\ run[k + 1].state = sg[k + 1]
      BY <1>3, <3>2, <3>3, <3>4
    <3> QED
      BY <3>1, <3>5
  <2> QED
    BY <1>4, <2>1
<1> HIDE DEF S
<1>7. S \in SUBSET Nat
  BY Zenon DEF S
<1>8. S = Nat
  BY <1>5, <1>6, <1>7, Induct, Zenon
<1>9. n \in S
  BY <1>4, <1>8, Zenon
<1> QED
  BY <1>1, <1>4, <1>9 DEF S

\* The model accepts a sequence if it accepts each operation after those before it.
LEMMA AcceptedIsLegal ==
    ASSUME Theory, NEW h, NEW seq, Len(seq) \in Nat, Replay(h, seq).ok
    PROVE  \E sg : /\ sg[0] = KvInit
                   /\ \A i \in 1 .. Len(seq) :
                        /\ Step(h, sg[i - 1], seq[i]).ok
                        /\ sg[i] = Step(h, sg[i - 1], seq[i]).state
<1> DEFINE n == Len(seq)
<1>1. PICK run : IsReplay(h, seq, n, run) /\ Replay(h, seq) = run[n]
  BY ReplayRun, Zenon
<1>3. \A acc, id : /\ Replayed(h, acc, id).ok <=> acc.ok /\ Step(h, acc.state, id).ok
                   /\ Replayed(h, acc, id).state = Step(h, acc.state, id).state
  BY ReplayedFields, Zenon
<1> HIDE DEF n
<1> DEFINE sg == [k \in 0 .. n |-> run[k].state]
           S == {k \in Nat : k <= n => run[n - k].ok}
<1>4. n \in Nat
  BY Zenon DEF n
<1>5. ASSUME NEW k \in 1 .. n
      PROVE  /\ run[k] = Replayed(h, run[k - 1], seq[k])
             /\ run[k].ok => run[k - 1].ok /\ Step(h, run[k - 1].state, seq[k]).ok
             /\ run[k].state = Step(h, run[k - 1].state, seq[k]).state
  <2>1. k \in 0 .. n /\ k # 0
    BY <1>4
  <2>2. run[k] = Replayed(h, run[k - 1], seq[k])
    BY <1>1, <2>1, Zenon DEF IsReplay
  <2> QED
    BY <1>3, <2>2
<1>6. 0 \in S
  <2>1. n - 0 = n
    BY <1>4
  <2> QED
    BY <1>1, <2>1, Zenon
<1>7. ASSUME NEW k \in S PROVE k + 1 \in S
  <2>1. CASE k + 1 <= n
    <3>1. k \in Nat /\ k <= n /\ n - k \in 1 .. n /\ (n - k) - 1 = n - (k + 1)
      BY <1>4, <2>1
    <3>2. run[n - k].ok
      BY <3>1, Zenon
    <3>3. run[n - (k + 1)].ok
      BY <1>5, <3>1, <3>2, Zenon
    <3> QED
      BY <3>1, <3>3
  <2> QED
    BY <1>4, <2>1
<1> HIDE DEF S
<1>8. S = Nat
  <2>1. S \in SUBSET Nat
    BY Zenon DEF S
  <2> QED
    BY <1>6, <1>7, <2>1, Induct, Zenon
<1>9. \A i \in 0 .. n : run[i].ok
  <2> SUFFICES ASSUME NEW i \in 0 .. n PROVE run[i].ok
    BY Zenon
  <2>1. n - i \in Nat /\ n - i <= n /\ n - (n - i) = i
    BY <1>4
  <2>2. n - i \in S
    BY <1>8, <2>1, Zenon
  <2>3. run[n - (n - i)].ok
    BY <2>1, <2>2, Zenon DEF S
  <2> QED
    BY <2>1, <2>3, Zenon
<1>10. sg[0] = KvInit
  <2>1. run[0] = [ok |-> TRUE, state |-> KvInit] /\ 0 \in 0 .. n
    BY <1>1, <1>4 DEF IsReplay
  <2> QED
    BY <2>1
<1>11. ASSUME NEW i \in 1 .. n
       PROVE  Step(h, sg[i - 1], seq[i]).ok /\ sg[i] = Step(h, sg[i - 1], seq[i]).state
  <2>1. i \in 0 .. n /\ i - 1 \in 0 .. n
    BY <1>4
  <2>2. sg[i] = run[i].state /\ sg[i - 1] = run[i - 1].state
    BY <2>1, Zenon
  <2> QED
    BY <1>5, <1>9, <2>1, <2>2, Zenon
<1> HIDE DEF sg
<1> QED
  BY <1>10, <1>11, Zenon DEF n

\* What is kept for the visualizer is accepted by it.
LEMMA KeptIsAccepted ==
    ASSUME Theory, NEW h, NEW longest, Kept(h, longest), NEW id \in Ids(h)
    PROVE  Replay(h, longest[id]).ok
<1>1. IsSeq(longest[id])
  BY Zenon DEF Kept
<1>2. Len(longest[id]) \in Nat
  BY <1>1 DEF IsSeq
<1>3. \E sg : GoesOn(h, {}, KvInit, Len(longest[id]), longest[id], sg)
  BY Zenon DEF Kept
<1> QED
  BY <1>2, <1>3, ReplayAccepts, Zenon

---------------------------------------------------------------------------------
(* The invariant of the checker *)

\* The searches that have returned, and those whose list is empty.
Done == {p \in Partition : single[p].done}
Emptied(p) == single[p].list.next[headEntry] = Nil

\* The types, what is checked, and what holds before anything is.
Settings ==
    /\ pc \in {"idle", "loop", "drain", "returned", "shown", "panicked"}
    /\ verbose \in BOOLEAN /\ kill \in BOOLEAN /\ ok \in BOOLEAN /\ timedOut \in BOOLEAN
    /\ verdict \in {"none", "Ok", "Illegal", "Unknown"}
    /\ results \in Seq(BOOLEAN) /\ count \in Nat
    /\ Timed(ops) /\ \A i \in DOMAIN ops : ops[i].input \in Input
    /\ IsSeq(history) /\ DOMAIN single = DOMAIN history
    /\ pc = "idle" => /\ history = <<>> /\ results = <<>> /\ count = 0
                      /\ ~kill /\ ok /\ ~timedOut
    /\ pc # "idle" => Divides(ops, history)

\* What holds of each search.
Searches == \A p \in Partition : Found(history[p], single[p], verbose, kill)

\* Every search that has returned has sent one result.
Counted == Cardinality(Done) = Len(results) + count

\* What the results, ok, timedOut and kill say of the partitions.
Answers ==
    /\ pc = "loop" => ~kill /\ ~timedOut
    /\ pc = "loop" /\ ok /\ (\A i \in DOMAIN results : results[i]) => \A p \in Done : Emptied(p)
    /\ (pc = "loop" /\ \E i \in DOMAIN results : ~results[i]) \/ ~ok =>
         \E p \in Partition : Refuted(history[p])
    /\ pc \notin {"idle", "loop"} /\ ok /\ ~timedOut =>
         \A p \in Partition : single[p].done /\ Emptied(p)
    /\ kill => timedOut \/ (~ok /\ ~verbose)

\* What is returned and drawn is what the searches found.
Report ==
    /\ pc # "panicked"
    /\ pc \in {"returned", "shown"} => verdict = Verdict
    /\ pc \in {"returned", "shown"} /\ verbose =>
         /\ \A p \in Partition : single[p].done
         /\ partials = [p \in Partition |->
                          {single[p].longest[id] : id \in DOMAIN single[p].longest} \ {<<>>}]
    /\ pc = "shown" =>
         /\ verbose
         /\ largest = [p \in Partition |-> [id \in DOMAIN single[p].longest |-> largestSize(partials[p], id)]]

CheckerInv == Settings /\ Searches /\ Counted /\ Answers /\ Report

\* The invariant holds at the start.
LEMMA InitInv ==
    ASSUME Theory, Init
    PROVE  CheckerInv
<1>1. /\ verbose \in BOOLEAN /\ pc = "idle"
      /\ history = <<>> /\ single = <<>> /\ results = <<>>
      /\ kill = FALSE /\ ok = TRUE /\ timedOut = FALSE /\ count = 0
      /\ verdict = "none" /\ partials = <<>> /\ largest = <<>>
  BY Zenon DEF Init
<1>2. Timed(ops) /\ \A i \in DOMAIN ops : ops[i].input \in Input
  <2>1. PICK n \in 0 .. MaxOps : \E l \in [1 .. n -> Logged], t \in Timings(n) :
              ops = [i \in 1 .. n |-> [input |-> l[i][1], output |-> l[i][2],
                                       call |-> t[i][1], ret |-> t[i][2]]]
    BY Zenon DEF Init
  <2>2. PICK l \in [1 .. n -> Logged], t \in Timings(n) :
              ops = [i \in 1 .. n |-> [input |-> l[i][1], output |-> l[i][2],
                                       call |-> t[i][1], ret |-> t[i][2]]]
    BY <2>1, Zenon
  <2>3. n \in Nat
    BY InputAssumption
  <2>4. Timed(ops)
    <3>1. Timed([i \in 1 .. n |-> [input |-> l[i][1], output |-> l[i][2],
                                   call |-> t[i][1], ret |-> t[i][2]]])
      BY <2>3, Zenon DEF Theory, HistoryLaws, TimedLaw
    <3> QED
      BY <2>2, <3>1, Zenon
  <2>5. \A i \in 1 .. n : l[i][1] \in Input
    BY Zenon DEF Logged
  <2> QED
    BY <2>2, <2>4, <2>5, Zenon
<1>3. Partition = {} /\ Done = {} /\ DOMAIN single = DOMAIN history
  <2>1. DOMAIN history = {}
    BY <1>1
  <2> QED
    BY <1>1, <2>1, Zenon DEF Partition, Done
<1>4. Settings
  <2>1. IsSeq(history) /\ results \in Seq(BOOLEAN)
    <3>1. <<>> \in Seq(BOOLEAN)
      OBVIOUS
    <3> QED
      BY <1>1, <3>1, Zenon DEF IsSeq
  <2> QED
    BY <1>1, <1>2, <1>3, <2>1, Zenon DEF Settings
<1>5. Searches
  BY <1>3, Zenon DEF Searches
<1>6. Counted
  <2>1. Cardinality(Done) = 0 /\ Len(results) = 0
    BY <1>1, <1>3, Zenon DEF Theory, HistoryLaws, CountLaw
  <2> QED
    BY <1>1, <2>1 DEF Counted
<1>7. Answers /\ Report
  BY <1>1, Zenon DEF Answers, Report
<1> QED
  BY <1>4, <1>5, <1>6, <1>7, Zenon DEF CheckerInv

\* Finished searches can be counted.
LEMMA FinishedCount ==
    ASSUME Theory, Settings
    PROVE  /\ Len(history) \in Nat /\ Partition = 1 .. Len(history)
           /\ Cardinality(Done) \in Nat /\ Cardinality(Done) <= Len(history)
           /\ Cardinality(Done) = Len(history) => Done = Partition
           /\ \A p \in Partition \ Done : Cardinality(Done \cup {p}) = Cardinality(Done) + 1
<1>1. Len(history) \in Nat /\ Partition = 1 .. Len(history)
  BY DEF Settings, IsSeq, Partition
<1>2. Done \in SUBSET Partition
  BY Zenon DEF Done
<1> QED
  BY <1>1, <1>2, Zenon DEF Theory, HistoryLaws, CountLaw

\* It is kept by a step of a search,
LEMMA SearchStep ==
    ASSUME Theory, CheckerInv, NEW p \in Partition, ~single[p].done, NEW t,
           single' = [single EXCEPT ![p] = t],
           Found(history[p], t, verbose, kill), t.done = FALSE,
           UNCHANGED <<input, history, results, kill, caller>>
    PROVE  CheckerInv'
<1>1. /\ ops' = ops /\ verbose' = verbose /\ history' = history /\ results' = results
      /\ kill' = kill /\ pc' = pc /\ ok' = ok /\ timedOut' = timedOut /\ count' = count
      /\ verdict' = verdict /\ partials' = partials /\ largest' = largest
  BY Zenon DEF input, caller
<1>2. Partition' = Partition /\ DOMAIN single = Partition
  BY <1>1, Zenon DEF CheckerInv, Settings, Partition
<1>3. single'[p] = t /\ \A q \in Partition \ {p} : single'[q] = single[q]
  BY <1>2, Zenon
<1>4. Done' = Done /\ \A q \in Done : Emptied(q)' <=> Emptied(q)
  <2>1. \A q \in Partition : single'[q].done <=> single[q].done
    BY <1>3, Zenon
  <2>2. Done' = Done
    BY <1>2, <2>1, Zenon DEF Done
  <2>3. \A q \in Done : q \in Partition \ {p}
    BY Zenon DEF Done
  <2> QED
    BY <1>3, <2>2, <2>3, Zenon DEF Emptied
<1>5. Settings'
  BY <1>1, <1>2 DEF CheckerInv, Settings
<1>6. Searches'
  BY <1>1, <1>2, <1>3, Zenon DEF CheckerInv, Searches
<1>7. Counted'
  BY <1>1, <1>4, Zenon DEF CheckerInv, Counted
<1>8. Answers'
  <2>1. pc = "loop" => ~kill /\ ~timedOut
    BY Zenon DEF CheckerInv, Answers
  <2>2. pc = "loop" /\ ok /\ (\A i \in DOMAIN results : results[i]) => \A q \in Done' : Emptied(q)'
    BY <1>4, Zenon DEF CheckerInv, Answers
  <2>3. (pc = "loop" /\ \E i \in DOMAIN results : ~results[i]) \/ ~ok =>
          \E q \in Partition : Refuted(history[q])
    BY Zenon DEF CheckerInv, Answers
  <2>4. ~(pc \notin {"idle", "loop"} /\ ok /\ ~timedOut)
    BY Zenon DEF CheckerInv, Answers
  <2>5. kill => timedOut \/ (~ok /\ ~verbose)
    BY Zenon DEF CheckerInv, Answers
  <2> QED
    BY <1>1, <1>2, <2>1, <2>2, <2>3, <2>4, <2>5 DEF Answers
<1>9. Report'
  <2>1. ~(pc \in {"returned", "shown"} /\ verbose) /\ pc # "shown" /\ pc # "panicked"
    BY Zenon DEF CheckerInv, Report
  <2>2. pc \in {"returned", "shown"} => verdict' = Verdict'
    BY <1>1, Zenon DEF CheckerInv, Report, Verdict
  <2> QED
    BY <1>1, <2>1, <2>2, Zenon DEF Report
<1> QED
  BY <1>5, <1>6, <1>7, <1>8, <1>9, Zenon DEF CheckerInv

\* The search of partition p ends in t and sends its result.
Returns(p, t, result) ==
    /\ single' = [single EXCEPT ![p] = t] /\ results' = Append(results, result)
    /\ t.done = TRUE /\ Found(history[p], t, verbose, kill)

\* by a search that returns,
LEMMA ReturnStep ==
    ASSUME Theory, CheckerInv, NEW p \in Partition, ~single[p].done, pc # "idle",
           NEW t, NEW result \in BOOLEAN, Returns(p, t, result),
           result => t.list.next[headEntry] = Nil,
           ~result => kill \/ Refuted(history[p]),
           UNCHANGED <<input, history, kill, caller>>
    PROVE  CheckerInv'
<1>1. /\ ops' = ops /\ verbose' = verbose /\ history' = history
      /\ kill' = kill /\ pc' = pc /\ ok' = ok /\ timedOut' = timedOut /\ count' = count
      /\ verdict' = verdict /\ partials' = partials /\ largest' = largest
  BY Zenon DEF input, caller
<1>2. Partition' = Partition /\ DOMAIN single = Partition
  BY <1>1, Zenon DEF CheckerInv, Settings, Partition
<1>3. /\ single'[p] = t /\ \A q \in Partition \ {p} : single'[q] = single[q]
      /\ results' = Append(results, result) /\ t.done = TRUE
      /\ DOMAIN single' = Partition /\ Found(history[p], t, verbose, kill)
  BY <1>2, Zenon DEF Returns
<1>4. Done' = Done \cup {p} /\ p \notin Done /\ \A q \in Done : Emptied(q)' <=> Emptied(q)
  <2>1. \A q \in Partition : single'[q].done <=> single[q].done \/ q = p
    BY <1>3, Zenon
  <2>2. Done' = Done \cup {p} /\ p \notin Done
    BY <1>2, <2>1, Zenon DEF Done
  <2>3. \A q \in Done : q \in Partition \ {p}
    BY Zenon DEF Done
  <2> QED
    BY <1>3, <2>2, <2>3, Zenon DEF Emptied
<1>5. /\ results \in Seq(BOOLEAN) /\ results' \in Seq(BOOLEAN) /\ Len(results) \in Nat
      /\ Len(results') = Len(results) + 1
      /\ DOMAIN results' = 1 .. Len(results) + 1 /\ DOMAIN results = 1 .. Len(results)
      /\ \A i \in 1 .. Len(results) : results'[i] = results[i]
      /\ results'[Len(results) + 1] = result
  <2>1. results \in Seq(BOOLEAN)
    BY Zenon DEF CheckerInv, Settings
  <2> QED
    BY <1>3, <2>1
<1>6. Settings'
  BY <1>1, <1>2, <1>3, <1>5, Zenon DEF CheckerInv, Settings
<1>7. Searches'
  BY <1>1, <1>2, <1>3, Zenon DEF CheckerInv, Searches
<1>8. Counted'
  <2>1. Cardinality(Done \cup {p}) = Cardinality(Done) + 1
    BY <1>4, FinishedCount, Zenon DEF CheckerInv
  <2>2. Cardinality(Done) = Len(results) + count /\ count \in Nat
    BY Zenon DEF CheckerInv, Counted, Settings
  <2>3. Cardinality(Done') = Len(results') + count
    BY <1>4, <1>5, <2>1, <2>2
  <2> QED
    BY <1>1, <2>3, Zenon DEF Counted
<1>9. (\A i \in DOMAIN results' : results'[i]) =>
        (\A i \in DOMAIN results : results[i]) /\ result
  <2> SUFFICES ASSUME \A i \in DOMAIN results' : results'[i]
               PROVE  (\A i \in DOMAIN results : results[i]) /\ result
    BY Zenon
  <2>1. Len(results) + 1 \in DOMAIN results' /\ \A i \in DOMAIN results : i \in DOMAIN results'
    BY <1>5
  <2>2. \A i \in DOMAIN results : results'[i] = results[i]
    BY <1>5, Zenon
  <2> QED
    BY <1>5, <2>1, <2>2, Zenon
<1>10. (\E i \in DOMAIN results' : ~results'[i]) =>
         (\E i \in DOMAIN results : ~results[i]) \/ ~result
  <2> SUFFICES ASSUME NEW i \in DOMAIN results', ~results'[i]
               PROVE  (\E j \in DOMAIN results : ~results[j]) \/ ~result
    BY Zenon
  <2>1. i \in 1 .. Len(results) \/ i = Len(results) + 1
    BY <1>5
  <2> QED
    BY <1>5, <2>1, Zenon
<1>11. Answers'
  <2>1. pc = "loop" => ~kill /\ ~timedOut
    BY Zenon DEF CheckerInv, Answers
  <2>2. ASSUME pc = "loop" /\ ok /\ (\A i \in DOMAIN results' : results'[i]), NEW q \in Done'
        PROVE  Emptied(q)'
    <3>1. (\A i \in DOMAIN results : results[i]) /\ result
      BY <1>9, <2>2, Zenon
    <3>2. \A r \in Done : Emptied(r)
      BY <2>2, <3>1, Zenon DEF CheckerInv, Answers
    <3>3. CASE q = p
      BY <1>3, <3>1, <3>3, Zenon DEF Emptied
    <3>4. CASE q \in Done
      BY <1>4, <3>2, <3>4, Zenon
    <3> QED
      BY <1>4, <3>3, <3>4, Zenon
  <2>3. ASSUME (pc = "loop" /\ \E i \in DOMAIN results' : ~results'[i]) \/ ~ok
        PROVE  \E q \in Partition : Refuted(history[q])
    <3>1. CASE pc = "loop" /\ ~result
      BY <2>1, <3>1, Zenon
    <3>2. CASE (pc = "loop" /\ \E i \in DOMAIN results : ~results[i]) \/ ~ok
      BY <3>2, Zenon DEF CheckerInv, Answers
    <3> QED
      BY <1>10, <2>3, <3>1, <3>2, Zenon
  <2>4. ~(pc \notin {"idle", "loop"} /\ ok /\ ~timedOut)
    BY Zenon DEF CheckerInv, Answers
  <2>5. kill => timedOut \/ (~ok /\ ~verbose)
    BY Zenon DEF CheckerInv, Answers
  <2> QED
    BY <1>1, <1>2, <2>1, <2>2, <2>3, <2>4, <2>5 DEF Answers
<1>12. Report'
  <2>1. ~(pc \in {"returned", "shown"} /\ verbose) /\ pc # "shown" /\ pc # "panicked"
    BY Zenon DEF CheckerInv, Report
  <2>2. pc \in {"returned", "shown"} => verdict' = Verdict'
    BY <1>1, Zenon DEF CheckerInv, Report, Verdict
  <2> QED
    BY <1>1, <2>1, <2>2, Zenon DEF Report
<1> QED
  BY <1>6, <1>7, <1>8, <1>11, <1>12, Zenon DEF CheckerInv

\* and so by checkSingle.
LEMMA CheckSingleStep ==
    ASSUME Theory, CheckerInv, NEW p \in Partition, checkSingle(p)
    PROVE  CheckerInv'
<1> DEFINE h == history[p]
           s == single[p]
<1>1. Found(h, s, verbose, kill) /\ verbose \in BOOLEAN /\ kill \in BOOLEAN /\ p \in DOMAIN single
  BY Zenon DEF CheckerInv, Searches, Settings, Partition
<1>2. Searching(p) => ~s.done /\ pc # "idle" /\ Busy(h, s, verbose, kill)
  BY <1>1, Zenon DEF Searching, Busy
<1>3. CASE Linearize(p)
  <2>1. /\ ~s.done /\ Busy(h, s, verbose, kill) /\ AtCall(h, s) /\ Accepts(h, s)
        /\ single' = [single EXCEPT ![p] = Advanced(h, s)]
        /\ UNCHANGED <<input, history, results, kill, caller>>
    BY <1>2, <1>3, Zenon DEF Linearize
  <2>2. Found(h, Advanced(h, s), verbose, kill) /\ Advanced(h, s).done = FALSE
    BY <2>1, Zenon DEF Theory, SearchLaws, AdvanceLaw
  <2> QED
    BY <2>1, <2>2, SearchStep, Zenon
<1>4. CASE Skip(p)
  <2>1. /\ ~s.done /\ Busy(h, s, verbose, kill) /\ AtCall(h, s) /\ ~Accepts(h, s)
        /\ single' = [single EXCEPT ![p] = Skipped(s)]
        /\ UNCHANGED <<input, history, results, kill, caller>>
    BY <1>2, <1>4, Zenon DEF Skip
  <2>2. Found(h, Skipped(s), verbose, kill) /\ Skipped(s).done = FALSE
    BY <2>1, Zenon DEF Theory, SearchLaws, SkipLaw
  <2> QED
    BY <2>1, <2>2, SearchStep, Zenon
<1>5. CASE Backtrack(p)
  <2>1. /\ ~s.done /\ Busy(h, s, verbose, kill) /\ ~AtCall(h, s) /\ s.calls # <<>>
        /\ single' = [single EXCEPT ![p] = Undone(h, s, verbose)]
        /\ UNCHANGED <<input, history, results, kill, caller>>
    BY <1>2, <1>5, Zenon DEF Backtrack
  <2>2. Found(h, Undone(h, s, verbose), verbose, kill) /\ Undone(h, s, verbose).done = FALSE
    BY <2>1, Zenon DEF Theory, SearchLaws, UndoLaw
  <2> QED
    BY <2>1, <2>2, SearchStep, Zenon
<1>6. CASE Exhausted(p)
  <2>1. /\ ~s.done /\ pc # "idle" /\ Busy(h, s, verbose, kill) /\ ~AtCall(h, s) /\ s.calls = <<>>
        /\ single' = [single EXCEPT ![p] = Ended(s, s.longest)] /\ results' = Append(results, FALSE)
        /\ UNCHANGED <<input, history, kill, caller>>
    BY <1>2, <1>6, Zenon DEF Exhausted, Send
  <2>2. /\ Found(h, Ended(s, s.longest), verbose, kill) /\ Ended(s, s.longest).done = TRUE
        /\ Refuted(h)
    BY <2>1, Zenon DEF Theory, SearchLaws, ExhaustLaw
  <2> QED
    BY <2>1, <2>2, ReturnStep, Zenon DEF Returns
<1>7. CASE Complete(p)
  <2> DEFINE t == Ended(s, Whole(h, s))
  <2>1. /\ ~s.done /\ pc # "idle" /\ s.list.next[headEntry] = Nil
        /\ single' = [single EXCEPT ![p] = t] /\ results' = Append(results, TRUE)
        /\ UNCHANGED <<input, history, kill, caller>>
    BY <1>7, Zenon DEF Complete, Send
  <2>2. Found(h, t, verbose, kill) /\ t.done = TRUE /\ t.list.next[headEntry] = Nil
    BY <1>1, <2>1, Zenon DEF Theory, SearchLaws, CompleteLaw
  <2> QED
    BY <2>1, <2>2, ReturnStep, Zenon DEF Returns
<1>8. CASE Killed(p)
  <2>1. /\ ~s.done /\ pc # "idle" /\ s.list.next[headEntry] # Nil /\ kill = TRUE
        /\ single' = [single EXCEPT ![p] = Ended(s, s.longest)] /\ results' = Append(results, FALSE)
        /\ UNCHANGED <<input, history, kill, caller>>
    BY <1>1, <1>8, Zenon DEF Killed, Send
  <2>2. Busy(h, s, verbose, TRUE)
    BY <1>1, <2>1, Zenon DEF Busy
  <2>3. Found(h, Ended(s, s.longest), verbose, TRUE) /\ Ended(s, s.longest).done = TRUE
    BY <2>2, Zenon DEF Theory, SearchLaws, KillLaw
  <2>4. Returns(p, Ended(s, s.longest), FALSE)
    BY <2>1, <2>3, Zenon DEF Returns
  <2> QED
    BY <2>1, <2>4, ReturnStep, Zenon
<1> QED
  BY <1>3, <1>4, <1>5, <1>6, <1>7, <1>8, Zenon DEF checkSingle

\* checkParallel starts the searches.
LEMMA StartStep ==
    ASSUME Theory, CheckerInv, NEW hs, IsSeq(hs), Divides(ops, hs), StartParallel(hs)
    PROVE  CheckerInv'
<1>1. /\ pc = "idle" /\ pc' = "loop" /\ history' = hs
      /\ single' = [p \in DOMAIN hs |-> StartSingle(hs[p])]
      /\ ops' = ops /\ verbose' = verbose /\ results' = results
      /\ kill' = kill /\ ok' = ok /\ timedOut' = timedOut /\ count' = count
      /\ verdict' = verdict /\ partials' = partials /\ largest' = largest
  BY Zenon DEF StartParallel, input
<1>2. results = <<>> /\ count = 0 /\ kill = FALSE /\ ok = TRUE /\ timedOut = FALSE
  BY <1>1, Zenon DEF CheckerInv, Settings
<1>3. Partition' = DOMAIN hs
  BY <1>1, Zenon DEF Partition
<1>4. \A p \in DOMAIN hs : WellFormed(hs[p])
  BY Zenon DEF Divides, Stands
<1>5. ASSUME NEW p \in DOMAIN hs
      PROVE  single'[p] = StartSingle(hs[p]) /\ single'[p].done = FALSE
             /\ Found(hs[p], single'[p], verbose, kill)
  <2>1. single'[p] = StartSingle(hs[p])
    BY <1>1, Zenon
  <2>2. Found(hs[p], StartSingle(hs[p]), verbose, kill) /\ StartSingle(hs[p]).done = FALSE
    BY <1>4, Zenon DEF Theory, SearchLaws, StartLaw
  <2> QED
    BY <2>1, <2>2, Zenon
<1>6. Done' = {}
  BY <1>3, <1>5, Zenon DEF Done
<1>7. Settings'
  <2>1. DOMAIN single' = DOMAIN history'
    BY <1>1, Zenon
  <2> QED
    BY <1>1, <2>1, Zenon DEF CheckerInv, Settings
<1>8. Searches'
  BY <1>1, <1>3, <1>5, Zenon DEF Searches
<1>9. Counted'
  <2>1. Cardinality(Done') = 0 /\ Len(results) = 0
    BY <1>2, <1>6, Zenon DEF Theory, HistoryLaws, CountLaw
  <2> QED
    BY <1>1, <1>2, <2>1 DEF Counted
<1>10. Answers'
  <2>1. DOMAIN results' = {}
    BY <1>1, <1>2
  <2> QED
    BY <1>1, <1>2, <1>6, <2>1, Zenon DEF Answers
<1>11. Report'
  BY <1>1, Zenon DEF Report
<1> QED
  BY <1>7, <1>8, <1>9, <1>10, <1>11, Zenon DEF CheckerInv

\* CheckOperations and CheckEvents.
LEMMA CheckOperationsStep ==
    ASSUME Theory, CheckerInv, checkOperations
    PROVE  CheckerInv'
<1> DEFINE parts == KvPartition(ops)
           hs == [p \in DOMAIN parts |-> makeEntries(parts[p])]
<1>1. StartParallel(hs)
  BY Zenon DEF checkOperations
<1>2. IsSeq(hs) /\ Divides(ops, hs)
  <2>1. Timed(ops) /\ \A i \in DOMAIN ops : ops[i].input.key \in Int
    BY InputAssumption, Zenon DEF CheckerInv, Settings
  <2> QED
    BY <2>1, Zenon DEF Theory, HistoryLaws, PartitionLaw
<1> HIDE DEF hs
<1> QED
  BY <1>1, <1>2, StartStep, Zenon

\* checkEvents keeps the invariant.
LEMMA CheckEventsStep ==
    ASSUME Theory, CheckerInv, checkEvents
    PROVE  CheckerInv'
<1> DEFINE hs == <<convertEntries(renumber(Events(ops)))>>
<1>1. StartParallel(hs) /\ \A i, j \in DOMAIN ops : ops[i].input.key = ops[j].input.key
  BY Zenon DEF checkEvents
<1>2. IsSeq(hs) /\ Divides(ops, hs)
  <2>1. Timed(ops)
    BY Zenon DEF CheckerInv, Settings
  <2> QED
    BY <1>1, <2>1, Zenon DEF Theory, HistoryLaws, EventsLaw
<1> HIDE DEF hs
<1> QED
  BY <1>1, <1>2, StartStep, Zenon

\* The caller leaves the searches alone, except that it may stop them.
LEMMA SameSearches ==
    ASSUME Theory, CheckerInv, UNCHANGED <<input, history, single>>, kill => kill'
    PROVE  Searches' /\ Partition' = Partition /\ Done' = Done /\ \A p : Emptied(p)' <=> Emptied(p)
<1>1. ops' = ops /\ verbose' = verbose /\ history' = history /\ single' = single
  BY Zenon DEF input
<1>2. Partition' = Partition
  BY <1>1, Zenon DEF Partition
<1>3. ASSUME NEW p \in Partition PROVE Found(history[p], single[p], verbose, kill')
  <2>1. Found(history[p], single[p], verbose, kill)
    BY Zenon DEF CheckerInv, Searches
  <2> QED
    BY <2>1, Zenon DEF Found
<1>4. Searches'
  BY <1>1, <1>2, <1>3, Zenon DEF Searches
<1> QED
  BY <1>1, <1>2, <1>4, Zenon DEF Done, Emptied

\* The result that is received from the channel, and those that stay in it.
LEMMA Received ==
    ASSUME Theory, results \in Seq(BOOLEAN), results # <<>>
    PROVE  /\ Tail(results) \in Seq(BOOLEAN) /\ Len(results) \in Nat \ {0}
           /\ Len(Tail(results)) = Len(results) - 1
           /\ 1 \in DOMAIN results /\ results[1] \in BOOLEAN
           /\ \A i \in DOMAIN Tail(results) : /\ i + 1 \in DOMAIN results
                                              /\ Tail(results)[i] = results[i + 1]
           /\ \A i \in DOMAIN results : i = 1 \/ (i - 1 \in DOMAIN Tail(results) /\ results[i] = Tail(results)[i - 1])
<1>1. /\ Tail(results) \in Seq(BOOLEAN) /\ Len(results) \in Nat \ {0}
      /\ Len(Tail(results)) = Len(results) - 1
      /\ DOMAIN results = 1 .. Len(results) /\ DOMAIN Tail(results) = 1 .. Len(results) - 1
      /\ \A i \in 1 .. Len(results) - 1 : Tail(results)[i] = results[i + 1]
  OBVIOUS
<1>2. 1 \in DOMAIN results /\ results[1] \in BOOLEAN
  BY <1>1
<1>3. \A i \in DOMAIN Tail(results) : i + 1 \in DOMAIN results /\ Tail(results)[i] = results[i + 1]
  BY <1>1
<1>4. \A i \in DOMAIN results : i = 1 \/ (i - 1 \in DOMAIN Tail(results) /\ results[i] = Tail(results)[i - 1])
  <2> SUFFICES ASSUME NEW i \in DOMAIN results, i # 1
               PROVE  i - 1 \in DOMAIN Tail(results) /\ results[i] = Tail(results)[i - 1]
    BY Zenon
  <2>1. i - 1 \in 1 .. Len(results) - 1 /\ (i - 1) + 1 = i
    BY <1>1
  <2> QED
    BY <1>1, <2>1, Zenon
<1> QED
  BY <1>1, <1>2, <1>3, <1>4, Zenon

\* The loop that receives results, its timeout, and the wait for the other searches.
LEMMA ReceiveStep ==
    ASSUME Theory, CheckerInv, receiveResult
    PROVE  CheckerInv'
<1>1. /\ pc = "loop" /\ results # <<>> /\ results' = Tail(results) /\ count' = count + 1
      /\ ok' = (ok /\ results[1])
      /\ kill' = (kill \/ (~ok' /\ ~verbose))
      /\ pc' = IF (~ok' /\ ~verbose) \/ count' >= Len(history) THEN "drain" ELSE pc
      /\ ops' = ops /\ verbose' = verbose /\ history' = history /\ single' = single
      /\ timedOut' = timedOut /\ verdict' = verdict /\ partials' = partials /\ largest' = largest
  BY Zenon DEF receiveResult, input
<1>2. /\ results \in Seq(BOOLEAN) /\ count \in Nat /\ ok \in BOOLEAN /\ kill \in BOOLEAN
      /\ verbose \in BOOLEAN
  BY Zenon DEF CheckerInv, Settings
<1>3. /\ Tail(results) \in Seq(BOOLEAN) /\ Len(results) \in Nat \ {0}
      /\ Len(Tail(results)) = Len(results) - 1
      /\ 1 \in DOMAIN results /\ results[1] \in BOOLEAN
      /\ \A i \in DOMAIN Tail(results) : /\ i + 1 \in DOMAIN results
                                         /\ Tail(results)[i] = results[i + 1]
      /\ \A i \in DOMAIN results : i = 1 \/ (i - 1 \in DOMAIN Tail(results) /\ results[i] = Tail(results)[i - 1])
  BY <1>1, <1>2, Received, Zenon
<1>4. Searches' /\ Partition' = Partition /\ Done' = Done /\ \A p : Emptied(p)' <=> Emptied(p)
  <2>1. kill => kill'
    BY <1>1, Zenon
  <2>2. UNCHANGED <<input, history, single>>
    BY <1>1, Zenon DEF input
  <2> QED
    BY <2>1, <2>2, SameSearches, Zenon
<1>5. ok' \in BOOLEAN /\ kill' \in BOOLEAN /\ pc' \in {"loop", "drain"}
  <2>1. ok' \in BOOLEAN
    BY <1>1, <1>2, <1>3, Zenon
  <2>2. kill' \in BOOLEAN
    BY <1>1, Zenon
  <2> QED
    BY <1>1, <2>1, <2>2, Zenon
<1>6. Settings'
  BY <1>1, <1>2, <1>3, <1>5 DEF CheckerInv, Settings
<1>7. Counted'
  <2>1. Cardinality(Done) = Len(results) + count
    BY Zenon DEF CheckerInv, Counted
  <2>2. Cardinality(Done) = Len(Tail(results)) + (count + 1)
    BY <1>2, <1>3, <2>1
  <2> QED
    BY <1>1, <1>4, <2>2, Zenon DEF Counted
<1>8. ~kill /\ ~timedOut
  BY <1>1, Zenon DEF CheckerInv, Answers
<1>9. ASSUME ok', \A i \in DOMAIN results' : results'[i] PROVE \A p \in Done : Emptied(p)
  <2>1. ok /\ results[1]
    BY <1>1, <1>9, Zenon
  <2>2. \A i \in DOMAIN results : results[i]
    BY <1>1, <1>3, <1>9, <2>1, Zenon
  <2> QED
    BY <1>1, <2>1, <2>2, Zenon DEF CheckerInv, Answers
<1>10. ASSUME (\E i \in DOMAIN results' : ~results'[i]) \/ ~ok'
       PROVE  \E p \in Partition : Refuted(history[p])
  <2>1. (\E i \in DOMAIN results : ~results[i]) \/ ~ok
    BY <1>1, <1>3, <1>10, Zenon
  <2> QED
    BY <1>1, <2>1, Zenon DEF CheckerInv, Answers
<1>11. ASSUME pc' # "loop", ok' PROVE \A p \in Partition : single[p].done /\ Emptied(p)
  <2>1. count + 1 >= Len(history)
    BY <1>1, <1>11, Zenon
  <2>2. /\ Len(history) \in Nat /\ Cardinality(Done) \in Nat /\ Cardinality(Done) <= Len(history)
        /\ Cardinality(Done) = Len(history) => Done = Partition
    BY FinishedCount, Zenon DEF CheckerInv
  <2>3. Cardinality(Done) = Len(results) + count
    BY Zenon DEF CheckerInv, Counted
  <2>4. Cardinality(Done) = Len(history) /\ Len(results) = 1
    BY <1>2, <1>3, <2>1, <2>2, <2>3
  <2>5. Done = Partition /\ DOMAIN results' = {}
    <3>1. Tail(results) \in Seq(BOOLEAN) /\ Len(Tail(results)) = 0
      BY <1>3, <2>4
    <3> QED
      BY <1>1, <2>2, <2>4, <3>1
  <2> QED
    BY <1>9, <1>11, <2>5, Zenon DEF Done
<1>12. Answers'
  <2>1. pc' = "loop" => ~kill' /\ ~timedOut'
    BY <1>1, <1>8, Zenon
  <2>2. pc' = "loop" /\ ok' /\ (\A i \in DOMAIN results' : results'[i]) => \A p \in Done' : Emptied(p)'
    BY <1>4, <1>9, Zenon
  <2>3. (pc' = "loop" /\ \E i \in DOMAIN results' : ~results'[i]) \/ ~ok' =>
          \E p \in Partition' : Refuted(history'[p])
    BY <1>1, <1>4, <1>10, Zenon
  <2>4. pc' \notin {"idle", "loop"} /\ ok' /\ ~timedOut' =>
          \A p \in Partition' : single'[p].done /\ Emptied(p)'
    BY <1>1, <1>4, <1>11, Zenon
  <2>5. kill' => timedOut' \/ (~ok' /\ ~verbose')
    BY <1>1, <1>8, Zenon
  <2> QED
    BY <2>1, <2>2, <2>3, <2>4, <2>5, Zenon DEF Answers
<1>13. Report'
  BY <1>5, Zenon DEF Report
<1> QED
  BY <1>4, <1>6, <1>7, <1>12, <1>13, Zenon DEF CheckerInv

\* A timeout keeps the invariant.
LEMMA TimeoutStep ==
    ASSUME Theory, CheckerInv, timeout
    PROVE  CheckerInv'
<1>1. /\ pc = "loop" /\ timedOut' = TRUE /\ kill' = TRUE /\ pc' = "drain"
      /\ results' = results /\ count' = count /\ ok' = ok
      /\ ops' = ops /\ verbose' = verbose /\ history' = history /\ single' = single
      /\ verdict' = verdict /\ partials' = partials /\ largest' = largest
  BY Zenon DEF timeout, input
<1>2. Searches' /\ Partition' = Partition /\ Done' = Done /\ \A p : Emptied(p)' <=> Emptied(p)
  <2>1. UNCHANGED <<input, history, single>>
    BY <1>1, Zenon DEF input
  <2> QED
    BY <1>1, <2>1, SameSearches, Zenon
<1>3. Settings'
  BY <1>1, Zenon DEF CheckerInv, Settings
<1>4. Counted'
  BY <1>1, <1>2, Zenon DEF CheckerInv, Counted
<1>5. Answers'
  <2>1. ~ok => \E p \in Partition : Refuted(history[p])
    BY Zenon DEF CheckerInv, Answers
  <2> QED
    BY <1>1, <1>2, <2>1, Zenon DEF Answers
<1>6. Report'
  BY <1>1, Zenon DEF Report
<1> QED
  BY <1>2, <1>3, <1>4, <1>5, <1>6, Zenon DEF CheckerInv

\* Collecting the results that are left keeps the invariant.
LEMMA DrainStep ==
    ASSUME Theory, CheckerInv, drain
    PROVE  CheckerInv'
<1>1. /\ pc = "drain" /\ pc' = pc /\ results # <<>> /\ results' = Tail(results) /\ count' = count + 1
      /\ timedOut' = timedOut /\ kill' = kill /\ ok' = ok
      /\ ops' = ops /\ verbose' = verbose /\ history' = history /\ single' = single
      /\ verdict' = verdict /\ partials' = partials /\ largest' = largest
  BY Zenon DEF drain, input
<1>2. Searches' /\ Partition' = Partition /\ Done' = Done /\ \A p : Emptied(p)' <=> Emptied(p)
  <2>1. UNCHANGED <<input, history, single>> /\ (kill => kill')
    BY <1>1, Zenon DEF input
  <2> QED
    BY <2>1, SameSearches, Zenon
<1>3. results \in Seq(BOOLEAN) /\ count \in Nat
  BY Zenon DEF CheckerInv, Settings
<1>4. /\ Tail(results) \in Seq(BOOLEAN) /\ Len(results) \in Nat \ {0}
      /\ Len(Tail(results)) = Len(results) - 1
  BY <1>1, <1>3, Received, Zenon
<1>5. Settings'
  BY <1>1, <1>3, <1>4 DEF CheckerInv, Settings
<1>6. Counted'
  <2>1. Cardinality(Done) = Len(results) + count
    BY Zenon DEF CheckerInv, Counted
  <2>2. Cardinality(Done) = Len(Tail(results)) + (count + 1)
    BY <1>3, <1>4, <2>1
  <2> QED
    BY <1>1, <1>2, <2>2, Zenon DEF Counted
<1>7. Answers'
  <2>1. ~ok => \E p \in Partition : Refuted(history[p])
    BY Zenon DEF CheckerInv, Answers
  <2>2. ok /\ ~timedOut => \A p \in Partition : single[p].done /\ Emptied(p)
    BY <1>1, Zenon DEF CheckerInv, Answers
  <2>3. kill => timedOut \/ (~ok /\ ~verbose)
    BY Zenon DEF CheckerInv, Answers
  <2> QED
    BY <1>1, <1>2, <2>1, <2>2, <2>3, Zenon DEF Answers
<1>8. Report'
  BY <1>1, Zenon DEF Report
<1> QED
  BY <1>2, <1>5, <1>6, <1>7, <1>8, Zenon DEF CheckerInv

\* What holds of a caller that has its answer is not disturbed by anything it does later.
LEMMA AfterDrain ==
    ASSUME Theory, CheckerInv, pc \notin {"idle", "loop"}, pc' \in {"drain", "returned", "shown", "panicked"},
           verdict' \in {"none", "Ok", "Illegal", "Unknown"},
           UNCHANGED <<input, history, single, results, kill, ok, timedOut, count>>
    PROVE  /\ Settings' /\ Searches' /\ Counted' /\ Answers'
           /\ Partition' = Partition
<1>1. /\ ops' = ops /\ verbose' = verbose /\ history' = history /\ single' = single
      /\ results' = results /\ kill' = kill /\ ok' = ok /\ timedOut' = timedOut /\ count' = count
  BY Zenon DEF input
<1>2. Searches' /\ Partition' = Partition /\ Done' = Done /\ \A p : Emptied(p)' <=> Emptied(p)
  BY <1>1, SameSearches DEF input
<1>3. Settings'
  BY <1>1, Zenon DEF CheckerInv, Settings
<1>4. Counted'
  BY <1>1, <1>2, Zenon DEF CheckerInv, Counted
<1>5. Answers'
  <2>1. ~ok => \E p \in Partition : Refuted(history[p])
    BY Zenon DEF CheckerInv, Answers
  <2>2. ok /\ ~timedOut => \A p \in Partition : single[p].done /\ Emptied(p)
    BY <1>1, Zenon DEF CheckerInv, Answers
  <2>3. kill => timedOut \/ (~ok /\ ~verbose)
    BY Zenon DEF CheckerInv, Answers
  <2> QED
    BY <1>1, <1>2, <2>1, <2>2, <2>3 DEF Answers
<1> QED
  BY <1>2, <1>3, <1>4, <1>5, Zenon

\* The result, and the picture of it.
LEMMA ReturnedStep ==
    ASSUME Theory, CheckerInv, return
    PROVE  CheckerInv'
<1>1. /\ pc = "drain" /\ pc' = "returned" /\ verdict' = Verdict
      /\ verbose => count >= Len(history)
      /\ partials' = IF verbose
                     THEN [p \in Partition |->
                             {single[p].longest[id] : id \in DOMAIN single[p].longest} \ {<<>>}]
                     ELSE partials
      /\ UNCHANGED <<input, history, single, results, kill, ok, timedOut, count>>
  BY Zenon DEF return
<1>2. verdict' \in {"none", "Ok", "Illegal", "Unknown"}
  BY <1>1, Zenon DEF Verdict
<1>3. Settings' /\ Searches' /\ Counted' /\ Answers' /\ Partition' = Partition
  BY <1>1, <1>2, AfterDrain, Zenon
<1>4. verbose => \A p \in Partition : single[p].done
  <2> SUFFICES ASSUME verbose PROVE Done = Partition
    BY Zenon DEF Done
  <2>1. /\ Len(history) \in Nat /\ Cardinality(Done) \in Nat /\ Cardinality(Done) <= Len(history)
        /\ Cardinality(Done) = Len(history) => Done = Partition
    BY FinishedCount, Zenon DEF CheckerInv
  <2>2. Cardinality(Done) = Len(results) + count
    BY Zenon DEF CheckerInv, Counted
  <2>3. results \in Seq(BOOLEAN) /\ count \in Nat
    BY Zenon DEF CheckerInv, Settings
  <2>4. Len(results) \in Nat
    BY <2>3
  <2> QED
    BY <1>1, <2>1, <2>2, <2>3, <2>4
<1>5. Report'
  <2>1. verdict' = Verdict'
    BY <1>1, Zenon DEF Verdict
  <2>2. verbose' = verbose /\ single' = single
    BY <1>1, Zenon DEF input
  <2> QED
    BY <1>1, <1>3, <1>4, <2>1, <2>2, Zenon DEF Report
<1> QED
  BY <1>3, <1>5, Zenon DEF CheckerInv

\* Drawing the picture keeps the invariant.
LEMMA VisualizeStep ==
    ASSUME Theory, CheckerInv, Visualize
    PROVE  CheckerInv'
<1>1. /\ pc = "returned" /\ verbose
      /\ pc' = IF \A p \in Partition : \A q \in partials[p] : Replay(history[p], q).ok
               THEN "shown" ELSE "panicked"
      /\ largest' = [p \in Partition |-> [id \in DOMAIN single[p].longest |-> largestSize(partials[p], id)]]
      /\ UNCHANGED <<input, history, single, results, kill, ok, timedOut, count, verdict, partials>>
  BY Zenon DEF Visualize
<1>2. Settings' /\ Searches' /\ Counted' /\ Answers' /\ Partition' = Partition
  <2>1. verdict' \in {"none", "Ok", "Illegal", "Unknown"}
    BY <1>1, Zenon DEF CheckerInv, Settings
  <2>2. pc \notin {"idle", "loop"} /\ pc' \in {"drain", "returned", "shown", "panicked"}
    BY <1>1, Zenon
  <2> QED
    BY <1>1, <2>1, <2>2, AfterDrain, Zenon
<1>3. /\ \A p \in Partition : single[p].done
      /\ partials = [p \in Partition |->
                       {single[p].longest[id] : id \in DOMAIN single[p].longest} \ {<<>>}]
      /\ verdict = Verdict
  BY <1>1, Zenon DEF CheckerInv, Report
<1>4. ASSUME NEW p \in Partition, NEW q \in partials[p] PROVE Replay(history[p], q).ok
  <2>1. Kept(history[p], single[p].longest)
    BY Zenon DEF CheckerInv, Searches, Found
  <2>2. PICK id \in DOMAIN single[p].longest : q = single[p].longest[id]
    BY <1>3, <1>4, Zenon
  <2>3. id \in Ids(history[p])
    BY <2>1, <2>2, Zenon DEF Kept
  <2> QED
    BY <2>1, <2>2, <2>3, KeptIsAccepted, Zenon
<1>5. pc' = "shown"
  BY <1>1, <1>4, Zenon
<1>6. Report'
  <2>1. verbose' = verbose /\ single' = single /\ partials' = partials
    BY <1>1, Zenon DEF input
  <2>2. verdict' = Verdict'
    BY <1>1, <1>3, Zenon DEF Verdict
  <2>3. largest' = [p \in Partition' |-> [id \in DOMAIN single'[p].longest |-> largestSize(partials'[p], id)]]
    BY <1>1, <1>2, <2>1, Zenon
  <2> QED
    BY <1>1, <1>2, <1>3, <1>5, <2>1, <2>2, <2>3 DEF Report
<1> QED
  BY <1>2, <1>6, Zenon DEF CheckerInv

\* Steps of nothing.
LEMMA StutterStep ==
    ASSUME Theory, CheckerInv, UNCHANGED vars
    PROVE  CheckerInv'
<1>1. /\ ops' = ops /\ verbose' = verbose /\ history' = history /\ single' = single
      /\ results' = results /\ kill' = kill /\ ok' = ok /\ timedOut' = timedOut /\ count' = count
      /\ pc' = pc /\ verdict' = verdict /\ partials' = partials /\ largest' = largest
  BY Zenon DEF vars, input, caller
<1>2. Searches' /\ Partition' = Partition /\ Done' = Done /\ \A p : Emptied(p)' <=> Emptied(p)
  BY <1>1, SameSearches, Zenon DEF input
<1>3. Settings'
  BY <1>1, Zenon DEF CheckerInv, Settings
<1>4. Counted'
  BY <1>1, <1>2, Zenon DEF CheckerInv, Counted
<1>5. Answers'
  BY <1>1, <1>2, Zenon DEF CheckerInv, Answers
<1>6. Report'
  BY <1>1, <1>2 DEF CheckerInv, Report, Verdict
<1> QED
  BY <1>2, <1>3, <1>4, <1>5, <1>6, Zenon DEF CheckerInv

\* Every step of the checker keeps the invariant.
LEMMA InvStep ==
    ASSUME Theory, CheckerInv, [Next]_vars
    PROVE  CheckerInv'
<1>1. CASE checkOperations
  BY <1>1, CheckOperationsStep, Zenon
<1>2. CASE checkEvents
  BY <1>2, CheckEventsStep, Zenon
<1>3. CASE checkParallel
  BY <1>3, ReceiveStep, TimeoutStep, DrainStep, ReturnedStep, Zenon DEF checkParallel
<1>4. CASE Visualize
  BY <1>4, VisualizeStep, Zenon
<1>5. CASE \E p \in Partition : checkSingle(p)
  BY <1>5, CheckSingleStep, Zenon
<1>6. CASE UNCHANGED vars
  BY <1>6, StutterStep, Zenon
<1> QED
  BY <1>1, <1>2, <1>3, <1>4, <1>5, <1>6, Zenon DEF Next

---------------------------------------------------------------------------------
(* The properties *)

\* The invariant implies the types.
LEMMA InvTypes ==
    ASSUME Theory, CheckerInv
    PROVE  TypeOK
<1>1. /\ pc \in {"idle", "loop", "drain", "returned", "shown", "panicked"}
      /\ {verbose, kill, ok, timedOut} \subseteq BOOLEAN
      /\ verdict \in {"none", "Ok", "Illegal", "Unknown"}
  BY Zenon DEF CheckerInv, Settings
<1>2. count \in 0 .. Len(history) /\ Len(results) + count <= Len(history)
  <2>1. /\ Len(history) \in Nat /\ Cardinality(Done) \in Nat /\ Cardinality(Done) <= Len(history)
    BY FinishedCount, Zenon DEF CheckerInv
  <2>2. Cardinality(Done) = Len(results) + count
    BY Zenon DEF CheckerInv, Counted
  <2>3. results \in Seq(BOOLEAN) /\ count \in Nat
    BY Zenon DEF CheckerInv, Settings
  <2>4. Len(results) \in Nat
    BY <2>3
  <2> QED
    BY <2>1, <2>2, <2>3, <2>4
<1>3. ASSUME NEW p \in Partition PROVE SingleType(history[p], single[p])
  <2> DEFINE h == history[p]
             s == single[p]
  <2>1. WellFormed(h) /\ Matched(h, s) /\ Kept(h, s.longest) /\ s.done \in BOOLEAN
    BY Zenon DEF CheckerInv, Searches, Found
  <2> HIDE DEF h, s
  <2>2. /\ s.list.next \in [0 .. Len(h) -> (1 .. Len(h)) \cup {Nil}]
        /\ s.list.prev \in [0 .. Len(h) -> (0 .. Len(h)) \cup {Nil}]
    BY <2>1, Zenon DEF Matched, Linked
  <2>3. s.entry \in (1 .. Len(h)) \cup {Nil}
    BY <2>1, Zenon DEF Matched, Listed, WellFormed
  <2>4. s.linearized \in BitsetFor(h)
    BY <2>1, Zenon DEF Matched
  <2>5. DOMAIN s.longest = Ids(h)
    BY <2>1, Zenon DEF Kept
  <2> QED
    BY <2>1, <2>2, <2>3, <2>4, <2>5, Zenon DEF SingleType, h, s, BitsetFor, Ids
<1> QED
  BY <1>1, <1>2, <1>3, Zenon DEF TypeOK

\* The neighbours of a node of a linked list, in the words of SearchMatchesCalls.
InOrder(list, L, x) ==
    LET later == {k \in L : k > x}
    IN  IF later = {} THEN list.next[x] = Nil
        ELSE list.next[x] = Min(later) /\ list.prev[Min(later)] = x

\* The pointers of a list lead from each node to the next and back.
LEMMA Neighbours ==
    ASSUME Theory, NEW m \in Nat, NEW L \in SUBSET (1 .. m), NEW list, Linked(list, m, L), NEW x \in L \cup {0}
    PROVE  InOrder(list, L, x)
<1> DEFINE later == {k \in L : k > x}
           y == list.next[x]
<1>1. IsNext(L, x, y) /\ \A k \in L : IsPrev(L, k, list.prev[k])
  BY Zenon DEF Linked
<1>2. x \in 0 .. m /\ L \in SUBSET Int
  OBVIOUS
<1> HIDE DEF y
<1>3. CASE later = {}
  <2>1. y = Nil
    <3>1. ~(y \in L /\ x < y)
      BY <1>2, <1>3, Zenon
    <3> QED
      BY <1>1, <3>1, Zenon DEF IsNext
  <2> QED
    BY <1>3, <2>1, Zenon DEF y, InOrder
<1>4. CASE later # {}
  <2>1. y \in L /\ x < y /\ \A k \in L : x < k => y <= k
    <3>1. PICK k \in L : k > x
      BY <1>4, Zenon
    <3>2. ~(k <= x)
      BY <1>2, <3>1
    <3> QED
      BY <1>1, <3>2, Zenon DEF IsNext
  <2>2. y \in later /\ \A k \in later : y <= k
    BY <1>2, <2>1, Zenon
  <2> DEFINE z == Min(later)
  <2>3. z \in later /\ \A k \in later : z <= k
    <3>1. later \in SUBSET Int
      BY <1>2, Zenon
    <3>2. \A k \in later : 0 <= k
      <4> SUFFICES ASSUME NEW k \in L PROVE 0 <= k
        BY Zenon
      <4>1. k \in 1 .. m
        BY Zenon
      <4> QED
        BY <4>1
    <3>3. later # {} /\ 0 \in Int
      BY <1>4
    <3> HIDE DEF later
    <3>4. Min(later) \in later /\ \A k \in later : Min(later) <= k
      BY <3>1, <3>2, <3>3, MinIs, Zenon
    <3> QED
      BY <3>4, Zenon
  <2> HIDE DEF z
  <2>4. z = y
    <3>1. z \in Int /\ y \in Int /\ z <= y /\ y <= z
      BY <1>2, <2>2, <2>3, Zenon
    <3> QED
      BY <3>1
  <2>5. list.prev[y] = x
    <3> DEFINE w == list.prev[y]
    <3>1. w \in L \cup {0} /\ w < y /\ \A k \in L \cup {0} : k < y => k <= w
      BY <1>1, <2>1, Zenon DEF IsPrev
    <3> HIDE DEF w
    <3>2. x <= w
      BY <2>1, <3>1, Zenon
    <3>3. ~(x < w)
      <4> SUFFICES ASSUME x < w PROVE FALSE
        BY Zenon
      <4>1. w \in L
        BY <1>2, <3>1
      <4>2. y <= w
        BY <2>1, <4>1, Zenon
      <4> QED
        BY <1>2, <2>1, <3>1, <4>1, <4>2
    <3>4. w = x
      BY <1>2, <3>1, <3>2, <3>3
    <3> QED
      BY <3>4, Zenon DEF w
  <2>6. y = Min(later) /\ list.prev[Min(later)] = x
    BY <2>4, <2>5, Zenon DEF z
  <2> QED
    BY <1>4, <2>6, Zenon DEF y, InOrder
<1> QED
  BY <1>3, <1>4, Zenon

\* The state a search has reached is what the calls of its stack lead to.
LEMMA StateReached ==
    ASSUME Theory, NEW h, WellFormed(h), NEW s, Matched(h, s)
    PROVE  LET Apply(st, c) == KvStep(st, h[c.entry].value, h[Match(h, c.entry)].value).state
               reached[i \in 0 .. Len(s.calls)] ==
                   IF i = 0 THEN KvInit ELSE Apply(reached[i - 1], s.calls[i])
           IN  s.state = reached[Len(s.calls)]
<1> DEFINE c == s.calls
           d == Len(s.calls)
           Apply(st, x) == KvStep(st, h[x.entry].value, h[Match(h, x.entry)].value).state
           Rec(f) == [i \in 0 .. d |-> IF i = 0 THEN KvInit ELSE Apply(f[i - 1], s.calls[i])]
           reached == CHOOSE f : f = Rec(f)
           at == [i \in 0 .. d |-> StateAt(s, i)]
<1>1. d \in Nat
  BY Zenon DEF Theory, SearchLaws, TraceLaw
<1>2. ASSUME NEW i \in 1 .. d, NEW st
      PROVE  Apply(st, c[i]) = Step(h, st, h[c[i].entry].id).state
  <2>1. KvStep(st, h[c[i].entry].value, h[Match(h, c[i].entry)].value) = Step(h, st, h[c[i].entry].id)
    BY Zenon DEF Theory, SearchLaws, TraceLaw
  <2> QED
    BY <2>1, Zenon
<1>3. ASSUME NEW i \in 1 .. d PROVE StateAt(s, i) = Apply(StateAt(s, i - 1), c[i])
  <2>1. Step(h, StateAt(s, i - 1), h[c[i].entry].id).state = StateAt(s, i)
    BY Zenon DEF Matched
  <2> QED
    BY <1>2, <2>1, Zenon
<1>4. StateAt(s, 0) = KvInit
  BY Zenon DEF Matched
<1> HIDE DEF Apply
<1>5. at = Rec(at)
  <2>1. ASSUME NEW i \in 0 .. d PROVE at[i] = Rec(at)[i]
    <3>1. CASE i = 0
      BY <1>4, <3>1, Zenon
    <3>2. CASE i # 0
      <4>1. i \in 1 .. d /\ i - 1 \in 0 .. d
        BY <1>1, <3>2
      <4>2. at[i] = StateAt(s, i) /\ at[i - 1] = StateAt(s, i - 1)
        BY <4>1, Zenon
      <4> HIDE DEF at
      <4> QED
        BY <1>3, <3>2, <4>1, <4>2, Zenon
    <3> QED
      BY <3>1, <3>2, Zenon
  <2> QED
    BY <2>1, Zenon
<1>6. reached = Rec(reached)
  <2>1. \E f : f = Rec(f)
    BY <1>5, Zenon
  <2> HIDE DEF Rec
  <2> QED
    BY <2>1, Zenon
<1> HIDE DEF reached
<1> DEFINE S == {i \in Nat : i <= d => reached[i] = StateAt(s, i)}
<1>7. 0 \in S
  <2>1. reached[0] = KvInit
    BY <1>1, <1>6
  <2> QED
    BY <1>4, <2>1, Zenon
<1>8. ASSUME NEW i \in S PROVE i + 1 \in S
  <2>1. CASE i + 1 <= d
    <3>1. i \in Nat /\ i <= d /\ i + 1 \in 1 .. d /\ i + 1 \in 0 .. d /\ (i + 1) - 1 = i /\ i + 1 # 0
      BY <1>1, <2>1
    <3>2. reached[i] = StateAt(s, i)
      BY <3>1, Zenon
    <3>3. reached[i + 1] = Apply(reached[i], c[i + 1])
      BY <1>6, <3>1, Zenon
    <3> QED
      BY <1>3, <3>1, <3>2, <3>3
  <2> QED
    BY <1>1, <2>1
<1> HIDE DEF S
<1>9. S = Nat
  <2>1. S \in SUBSET Nat
    BY Zenon DEF S
  <2> QED
    BY <1>7, <1>8, <2>1, Induct, Zenon
<1>10. reached[d] = s.state
  <2>1. d \in S
    BY <1>1, <1>9, Zenon
  <2>2. StateAt(s, d) = s.state
    BY <1>1 DEF StateAt
  <2> QED
    BY <1>1, <2>1, <2>2 DEF S
<1> QED
  BY <1>10, Zenon DEF reached, Apply

\* The invariant implies that the parts of the search match its stack.
LEMMA InvMatches ==
    ASSUME Theory, CheckerInv
    PROVE  SearchMatchesCalls
<1> SUFFICES ASSUME NEW p \in Partition
             PROVE  MatchesCalls(history[p], single[p])
  BY Zenon DEF SearchMatchesCalls
<1> DEFINE s == single[p]
           h == history[p]
           d == Len(s.calls)
           ids == CallIds(s.calls, h)
           L == Listed(h, s.calls, d)
<1>1. WellFormed(h) /\ Matched(h, s) /\ DOMAIN s.longest = Ids(h)
  BY Zenon DEF CheckerInv, Searches, Found, Kept
<1>2. LET Apply(st, c) == KvStep(st, h[c.entry].value, h[Match(h, c.entry)].value).state
          reached[i \in 0 .. Len(s.calls)] ==
              IF i = 0 THEN KvInit ELSE Apply(reached[i - 1], s.calls[i])
      IN  s.state = reached[Len(s.calls)]
  <2> HIDE DEF s, h
  <2> QED
    BY <1>1, StateReached, Zenon
<1> HIDE DEF s, h
<1>3. d \in Nat /\ IsSeq(s.calls) /\ Len(h) \in Nat /\ L \in SUBSET (1 .. Len(h))
  BY <1>1, Zenon DEF Theory, SearchLaws, TraceLaw, d, L
<1>4. Range(ids) = Taken(h, s.calls, d)
  <2>1. DOMAIN s.calls = 1 .. d
    BY <1>3 DEF IsSeq
  <2> QED
    BY <2>1, Zenon DEF Range, CallIds, Taken
<1>5. L = {k \in DOMAIN h : h[k].id \notin Range(ids)}
  BY <1>4, Zenon DEF Listed
<1>6. Linked(s.list, Len(h), L) /\ Bits(h, s.linearized) = Taken(h, s.calls, d)
  BY <1>1, Zenon DEF Matched
<1> HIDE DEF d, ids, L
<1>7. \A x \in L \cup {headEntry} :
        LET later == {k \in L : k > x}
        IN  IF later = {} THEN s.list.next[x] = Nil
            ELSE s.list.next[x] = Min(later) /\ s.list.prev[Min(later)] = x
  <2> SUFFICES ASSUME NEW x \in L \cup {0}
               PROVE  InOrder(s.list, L, x)
    BY Zenon DEF headEntry, InOrder
  <2> QED
    BY <1>3, <1>6, Neighbours, Zenon
<1>8. \A id \in DOMAIN s.longest :
        id \in Range(ids) <=> id % Word \in s.linearized[id \div Word]
  BY <1>1, <1>4, <1>6, Zenon DEF Bits
<1> QED
  BY <1>2, <1>5, <1>7, <1>8, Zenon DEF MatchesCalls, s, h, ids

\* A sequence that is kept is a linearizable prefix.
LEMMA KeptIsPrefix ==
    ASSUME Theory, NEW h, NEW longest, Kept(h, longest), NEW id \in Ids(h)
    PROVE  LinearizablePrefix(h, DOMAIN longest, longest[id])
<1> DEFINE seq == longest[id]
<1>1. Replay(h, seq).ok
  BY KeptIsAccepted, Zenon
<1>2. IsSeq(seq) /\ DOMAIN longest = Ids(h)
  BY Zenon DEF Kept
<1>3. PICK sg : GoesOn(h, {}, KvInit, Len(seq), seq, sg)
  BY Zenon DEF Kept
<1>4. DOMAIN seq = 1 .. Len(seq)
  BY <1>2 DEF IsSeq
<1> HIDE DEF seq
<1>5. \A i \in DOMAIN seq : \A a \in DOMAIN longest :
        ReturnOf(h, a) < CallOf(h, seq[i]) => \E j \in 1 .. i - 1 : seq[j] = a
  BY <1>2, <1>3, <1>4, Zenon DEF GoesOn
<1> QED
  BY <1>1, <1>5, Zenon DEF LinearizablePrefix, CallOf, ReturnOf, seq

\* The invariant implies that partial linearizations are linearizable.
LEMMA InvPartials ==
    ASSUME Theory, CheckerInv
    PROVE  PartialsAreLinearizable
<1> SUFFICES ASSUME pc \in {"returned", "shown", "panicked"}, verbose,
                    NEW p \in Partition, NEW seq \in partials[p]
             PROVE  LinearizablePrefix(history[p], DOMAIN single[p].longest, seq)
  BY Zenon DEF PartialsAreLinearizable
<1>1. partials = [q \in Partition |->
                    {single[q].longest[id] : id \in DOMAIN single[q].longest} \ {<<>>}]
  BY Zenon DEF CheckerInv, Report
<1>2. Kept(history[p], single[p].longest)
  BY Zenon DEF CheckerInv, Searches, Found
<1>3. PICK id \in DOMAIN single[p].longest : seq = single[p].longest[id]
  BY <1>1, Zenon
<1>4. id \in Ids(history[p])
  BY <1>2, Zenon DEF Kept
<1> QED
  BY <1>2, <1>3, <1>4, KeptIsPrefix, Zenon

\* The invariant implies that the picture shows the longest linearizations.
LEMMA InvShown ==
    ASSUME Theory, CheckerInv
    PROVE  VisualizerShowsLongest
<1> SUFFICES /\ pc # "panicked"
             /\ pc = "shown" => \A p \in Partition : \A id \in DOMAIN largest[p] :
                                  largest[p][id] = Len(single[p].longest[id])
  BY Zenon DEF VisualizerShowsLongest
<1>1. pc # "panicked"
  BY Zenon DEF CheckerInv, Report
<1>2. ASSUME pc = "shown", NEW p \in Partition, NEW id \in DOMAIN largest[p]
      PROVE  largest[p][id] = Len(single[p].longest[id])
  <2> DEFINE h == history[p]
             longest == single[p].longest
             P == partials[p]
             n == Len(longest[id])
             M == {Len(q) : q \in {r \in P : id \in Range(r)}} \cup {0}
  <2>1. /\ largest = [q \in Partition |-> [a \in DOMAIN single[q].longest |-> largestSize(partials[q], a)]]
        /\ partials = [q \in Partition |->
                         {single[q].longest[a] : a \in DOMAIN single[q].longest} \ {<<>>}]
    BY <1>2, Zenon DEF CheckerInv, Report
  <2>2. Kept(h, longest)
    BY Zenon DEF CheckerInv, Searches, Found
  <2>3. id \in DOMAIN longest /\ largest[p][id] = Max(M)
    BY <2>1, Zenon DEF largestSize
  <2>4. P = {longest[a] : a \in DOMAIN longest} \ {<<>>}
    BY <2>1, Zenon
  <2> HIDE DEF h, longest, P
  <2>5. id \in Ids(h) /\ DOMAIN longest = Ids(h)
    BY <2>2, <2>3, Zenon DEF Kept
  <2>6. \A a \in Ids(h) : IsSeq(longest[a]) /\ Len(longest[a]) \in Nat /\ DOMAIN longest[a] = 1 .. Len(longest[a])
    BY <2>2 DEF Kept, IsSeq
  <2>7. ASSUME NEW x \in M PROVE x \in Nat /\ x <= n
    <3>1. CASE x = 0
      BY <2>5, <2>6, <3>1
    <3>2. CASE x # 0
      <4>1. PICK q \in P : id \in Range(q) /\ x = Len(q)
        BY <3>2, Zenon
      <4>2. PICK a \in Ids(h) : q = longest[a]
        BY <2>4, <2>5, Zenon
      <4>3. PICK j \in 1 .. Len(longest[a]) : longest[a][j] = id
        BY <2>6, <4>1, <4>2, Zenon DEF Range
      <4>4. Len(longest[id]) >= Len(longest[a])
        BY <2>2, <2>5, <4>3, Zenon DEF Kept
      <4> QED
        BY <2>5, <2>6, <4>1, <4>2, <4>4, Zenon
    <3> QED
      BY <3>1, <3>2, Zenon
  <2>8. n \in M
    <3>1. CASE longest[id] = <<>>
      BY <3>1, Zenon
    <3>2. CASE longest[id] # <<>>
      <4>1. longest[id] \in P
        BY <2>4, <2>5, <3>2, Zenon
      <4>2. id \in Range(longest[id])
        <5>1. PICK j \in 1 .. Len(longest[id]) : longest[id][j] = id
          BY <2>2, <2>5, <3>2, Zenon DEF Kept
        <5> QED
          BY <2>5, <2>6, <5>1, Zenon DEF Range
      <4> QED
        BY <4>1, <4>2, Zenon
    <3> QED
      BY <3>1, <3>2, Zenon
  <2> HIDE DEF M, n
  <2>9. n \in Int /\ M \in SUBSET Int /\ M # {} /\ \A x \in M : x <= n
    BY <2>7, <2>8
  <2>10. Max(M) \in M /\ \A x \in M : x <= Max(M)
    BY <2>9, MaxIs, Zenon
  <2>11. Max(M) = n
    <3> DEFINE z == Max(M)
    <3>1. z \in Int /\ z <= n /\ n <= z
      BY <2>8, <2>9, <2>10, Zenon
    <3> HIDE DEF z
    <3>2. z = n
      BY <2>9, <3>1
    <3> QED
      BY <3>2, Zenon DEF z
  <2> QED
    BY <2>3, <2>11, Zenon DEF n, longest
<1> QED
  BY <1>1, <1>2, Zenon

\* A linearization of a part of a partition, in terms of the search.
LEMMA PrefixGoesOn ==
    ASSUME Theory, NEW h, WellFormed(h), NEW q \in Prefixes(h, Ids(h))
    PROVE  /\ Len(q) \in Nat /\ DOMAIN q = 1 .. Len(q) /\ Len(q) <= Len(h) \div 2
           /\ \E sg : GoesOn(h, {}, KvInit, Len(q), q, sg)
<1> DEFINE Id == Ids(h)
           n == Len(h) \div 2
<1>1. PICK S \in SUBSET Id : q \in Bijection(1 .. Cardinality(S), S)
  BY Zenon DEF Prefixes
<1>2. LinearizablePrefix(h, Id, q)
  BY Zenon DEF Prefixes
<1>3. n \in Nat /\ Id = 0 .. n - 1
  BY DEF WellFormed, Ids
<1> DEFINE c == Cardinality(S)
<1> HIDE DEF n, Id
<1>4. c \in Nat /\ c <= n
  BY <1>1, <1>3, Zenon DEF Theory, HistoryLaws, SmallerLaw
<1>5. q \in [1 .. c -> S] /\ \A i, j \in 1 .. c : q[i] = q[j] => i = j
  BY <1>1, Zenon DEF Bijection, Injection, Surjection, IsInjective
<1> HIDE DEF c
<1>6. Len(q) = c /\ DOMAIN q = 1 .. c
  BY <1>4, <1>5
<1>7. \A i \in DOMAIN q : \A id \in Id :
        ReturnOf(h, id) < CallOf(h, q[i]) => \E j \in 1 .. i - 1 : q[j] = id
  BY <1>2, Zenon DEF LinearizablePrefix, CallOf, ReturnOf
<1>8. PICK sg : /\ sg[0] = KvInit
                /\ \A i \in 1 .. Len(q) : /\ Step(h, sg[i - 1], q[i]).ok
                                          /\ sg[i] = Step(h, sg[i - 1], q[i]).state
  <2>1. Replay(h, q).ok
    BY <1>2, Zenon DEF LinearizablePrefix
  <2>2. Len(q) \in Nat
    BY <1>4, <1>6, Zenon
  <2> QED
    BY <2>1, <2>2, AcceptedIsLegal
<1>9. GoesOn(h, {}, KvInit, Len(q), q, sg)
  <2>1. q \in [1 .. c -> Id \ {}]
    BY <1>1, <1>5, Zenon
  <2>2. \A i \in 1 .. c, id \in Id :
         ReturnOf(h, id) < CallOf(h, q[i]) => id \in {} \/ \E j \in 1 .. i - 1 : q[j] = id
    BY <1>6, <1>7, Zenon
  <2> QED
    BY <1>5, <1>6, <1>8, <2>1, <2>2, Zenon DEF GoesOn, Id
<1> QED
  BY <1>4, <1>6, <1>9, Zenon DEF n

\* What is kept is one.
LEMMA KeptIsInPrefixes ==
    ASSUME Theory, NEW h, WellFormed(h), NEW longest, Kept(h, longest), NEW id \in Ids(h)
    PROVE  longest[id] \in Prefixes(h, Ids(h))
<1> DEFINE seq == longest[id]
           c == Len(seq)
           n == Len(h) \div 2
           S == {seq[i] : i \in 1 .. c}
<1>1. LinearizablePrefix(h, Ids(h), seq)
  <2>1. DOMAIN longest = Ids(h)
    BY Zenon DEF Kept
  <2> QED
    BY <2>1, KeptIsPrefix, Zenon
<1>2. IsSeq(seq)
  BY Zenon DEF Kept
<1>3. PICK sg : GoesOn(h, {}, KvInit, c, seq, sg)
  BY Zenon DEF Kept
<1>4. c \in Nat /\ DOMAIN seq = 1 .. c
  BY <1>2 DEF IsSeq
<1>5. n \in Nat /\ Ids(h) = 0 .. n - 1
  BY DEF WellFormed, Ids
<1> HIDE DEF seq, c, n
<1>6. seq \in [1 .. c -> Ids(h)] /\ \A i, j \in 1 .. c : seq[i] = seq[j] => i = j
  BY <1>3, Zenon DEF GoesOn
<1>7. seq \in Bijection(1 .. c, S)
  <2>1. seq \in [1 .. c -> S]
    BY <1>6, Zenon
  <2> QED
    BY <1>6, <2>1, Zenon DEF Bijection, Injection, Surjection, IsInjective
<1>8. S \in SUBSET Ids(h)
  BY <1>6, Zenon
<1>9. Cardinality(S) = c
  <2>1. seq \in [1 .. c -> 0 .. n - 1]
    BY <1>5, <1>6, Zenon
  <2>2. InjectionLaw
    BY Zenon DEF Theory, HistoryLaws
  <2>3. \A q \in [1 .. c -> 0 .. n - 1] :
           (\A i, j \in 1 .. c : q[i] = q[j] => i = j) => Cardinality({q[i] : i \in 1 .. c}) = c
    BY <1>4, <1>5, <2>2 DEF InjectionLaw
  <2> QED
    BY <1>6, <2>1, <2>3, Zenon
<1> HIDE DEF S
<1>10. seq \in Prefixes(h, Ids(h))
  BY <1>1, <1>7, <1>8, <1>9, Zenon DEF Prefixes
<1> QED
  BY <1>10, Zenon DEF seq

\* The invariant implies that the longest linearizations are the longest.
LEMMA InvLongest ==
    ASSUME Theory, CheckerInv
    PROVE  LongestIsLongest
<1> SUFFICES ASSUME pc = "returned", verbose, ~timedOut, NEW p \in Partition,
                    NEW id \in DOMAIN single[p].longest
             PROVE  LET Id == DOMAIN single[p].longest
                        with == {q \in Prefixes(history[p], Id) : id \in Range(q)}
                    IN  Len(single[p].longest[id]) = Max({Len(q) : q \in with} \cup {0})
  BY Zenon DEF LongestIsLongest
<1> DEFINE h == history[p]
           s == single[p]
           longest == s.longest
           n == Len(longest[id])
           Id == DOMAIN longest
           with == {q \in Prefixes(h, Id) : id \in Range(q)}
           M == {Len(q) : q \in with} \cup {0}
<1>1. s.done /\ ~kill
  <2>1. s.done
    BY Zenon DEF CheckerInv, Report
  <2>2. verbose \in BOOLEAN /\ (kill => timedOut \/ (~ok /\ ~verbose))
    BY Zenon DEF CheckerInv, Answers, Settings
  <2> QED
    BY <2>1, <2>2, Zenon
<1>2. /\ WellFormed(h) /\ Kept(h, longest)
      /\ Solved(h, longest) \/ Settled(h, {}, KvInit, longest, verbose)
  BY <1>1, Zenon DEF CheckerInv, Searches, Found
<1>3. Id = Ids(h) /\ id \in Ids(h)
  BY <1>2, Zenon DEF Kept
<1>4. n \in Nat /\ DOMAIN longest[id] = 1 .. n
  <2>1. IsSeq(longest[id])
    BY <1>2, <1>3, Zenon DEF Kept
  <2> HIDE DEF longest
  <2> QED
    BY <2>1 DEF IsSeq
<1>5. ASSUME NEW q \in with PROVE Len(q) \in Nat /\ Len(q) <= n
  <2>1. q \in Prefixes(h, Ids(h)) /\ id \in Range(q)
    BY <1>3, Zenon
  <2>2. /\ Len(q) \in Nat /\ DOMAIN q = 1 .. Len(q) /\ Len(q) <= Len(h) \div 2
        /\ \E sg : GoesOn(h, {}, KvInit, Len(q), q, sg)
    BY <1>2, <1>3, <2>1, PrefixGoesOn, Zenon
  <2>3. PICK j \in 1 .. Len(q) : q[j] = id
    BY <2>1, <2>2, Zenon DEF Range
  <2> HIDE DEF n, longest, h, with
  <2>4. CASE Solved(h, longest)
    BY <1>3, <2>2, <2>4, Zenon DEF Solved, n
  <2>5. CASE Settled(h, {}, KvInit, longest, verbose)
    <3>1. \A a \in {} \cup {q[i] : i \in 1 .. Len(q)} : Len(longest[a]) >= Cardinality({}) + Len(q)
      BY <2>2, <2>5, Zenon DEF Settled
    <3>2. Len(longest[id]) >= Cardinality({}) + Len(q)
      BY <2>3, <3>1, Zenon
    <3>3. Cardinality({}) = 0
      BY Zenon DEF Theory, HistoryLaws, CountLaw
    <3> QED
      BY <1>4, <2>2, <3>2, <3>3 DEF n
  <2> QED
    BY <1>2, <2>2, <2>4, <2>5, Zenon
<1>6. n \in M
  <2>1. CASE longest[id] = <<>>
    BY <2>1, Zenon
  <2>2. CASE longest[id] # <<>>
    <3>1. longest[id] \in Prefixes(h, Id)
      BY <1>2, <1>3, KeptIsInPrefixes, Zenon
    <3>2. PICK j \in 1 .. n : longest[id][j] = id
      BY <1>2, <1>3, <2>2, Zenon DEF Kept
    <3>3. id \in Range(longest[id])
      BY <1>4, <3>2, Zenon DEF Range
    <3> QED
      BY <3>1, <3>3, Zenon
  <2> QED
    BY <2>1, <2>2, Zenon
<1> HIDE DEF n, with
<1>7. n \in Int /\ M \in SUBSET Int /\ M # {} /\ \A x \in M : x <= n
  BY <1>4, <1>5, <1>6
<1> HIDE DEF M
<1>8. Max(M) \in M /\ \A x \in M : x <= Max(M)
  BY <1>7, MaxIs, Zenon
<1>9. Max(M) = n
  <2> DEFINE z == Max(M)
  <2>1. z \in Int /\ z <= n /\ n <= z
    BY <1>6, <1>7, <1>8, Zenon
  <2> HIDE DEF z
  <2>2. z = n
    BY <1>7, <2>1
  <2> QED
    BY <2>2, Zenon DEF z
<1> QED
  BY <1>9, Zenon DEF n, M, with, longest, s, h, Id

\* The invariant implies that verdicts are right.
LEMMA InvVerdict ==
    ASSUME Theory, CheckerInv, VerdictLaw(ops)
    PROVE  VerdictIsRight
<1> SUFFICES ASSUME pc = "returned"
             PROVE  /\ verdict = "Ok" => Linearizable(ops)
                    /\ verdict = "Illegal" => ~Linearizable(ops)
                    /\ verdict = "Unknown" => timedOut
  BY Zenon DEF VerdictIsRight
<1>1. Timed(ops) /\ (\A i \in DOMAIN ops : ops[i].input \in Input) /\ Divides(ops, history)
  BY Zenon DEF CheckerInv, Settings
<1>2. verdict = IF ~ok THEN "Illegal" ELSE IF timedOut THEN "Unknown" ELSE "Ok"
  BY Zenon DEF CheckerInv, Report, Verdict
<1>3. ASSUME verdict = "Ok" PROVE Linearizable(ops)
  <2>1. ok /\ ~timedOut
    BY <1>2, <1>3, Zenon
  <2>2. \A p \in Partition : single[p].done /\ Emptied(p)
    BY <2>1, Zenon DEF CheckerInv, Answers
  <2>3. ASSUME NEW p \in Partition PROVE Linearized(history[p])
    BY <2>2, Zenon DEF CheckerInv, Searches, Found, Emptied, Solved
  <2> QED
    BY <1>1, <2>3, Zenon DEF VerdictLaw, Partition
<1>4. ASSUME verdict = "Illegal" PROVE ~Linearizable(ops)
  <2>1. ~ok
    BY <1>2, <1>4, Zenon
  <2>2. PICK p \in Partition : Refuted(history[p])
    BY <2>1, Zenon DEF CheckerInv, Answers
  <2> QED
    BY <1>1, <2>2, Zenon DEF VerdictLaw, Partition
<1>5. verdict = "Unknown" => timedOut
  BY <1>2, Zenon
<1> QED
  BY <1>3, <1>4, <1>5, Zenon

---------------------------------------------------------------------------------
(* What the page draws *)

\* After seq the operation id may come next: it is not in it, and no operation that is missing
\* returned before its call.
MayFollow(h, seq, id) ==
    /\ id \in Ids(h) /\ id \notin Range(seq)
    /\ \A b \in Ids(h) : ReturnOf(h, b) < CallOf(h, id) => b \in Range(seq)

\* An operation that the page draws as a next one may come next by its times.
LEMMA DrawnMayFollow ==
    ASSUME Theory, NEW h, WellFormed(h), Clocked(h), NEW seq, IsSeq(seq), Range(seq) \in SUBSET Ids(h),
           NEW i \in PossibleNext(Boxes(h), [k \in DOMAIN seq |-> seq[k] + 1])
    PROVE  MayFollow(h, seq, i - 1)
<1> DEFINE E == Boxes(h)
           lin == [k \in DOMAIN seq |-> seq[k] + 1]
           rest == DOMAIN E \ Range(lin)
           T == {E[j].end : j \in rest}
           n == Len(h) \div 2
<1>1. i \in rest /\ E[i].start < Min(T)
  BY Zenon DEF PossibleNext
<1>2. n \in Nat /\ Ids(h) = 0 .. n - 1
  BY DEF WellFormed, Ids
<1>3. Range(lin) = {seq[k] + 1 : k \in DOMAIN seq}
  BY Zenon DEF Range
<1>4. DOMAIN E = 1 .. n /\ \A j \in 1 .. n : /\ E[j].start = h[CallOf(h, j - 1)].time
                                              /\ E[j].end = h[ReturnOf(h, j - 1)].time
  BY Zenon DEF Boxes, CallOf, ReturnOf
<1> HIDE DEF E, lin, n
<1>5. \A j \in 1 .. n : j - 1 \in Ids(h) /\ (j \in rest <=> j - 1 \notin Range(seq))
  <2> SUFFICES ASSUME NEW j \in 1 .. n
               PROVE  j - 1 \in Ids(h) /\ (j \in rest <=> j - 1 \notin Range(seq))
    BY Zenon
  <2>1. j - 1 \in Ids(h)
    BY <1>2
  <2>2. \A k \in DOMAIN seq : seq[k] \in Int /\ (seq[k] + 1 = j <=> seq[k] = j - 1)
    <3> SUFFICES ASSUME NEW k \in DOMAIN seq PROVE seq[k] \in Int /\ (seq[k] + 1 = j <=> seq[k] = j - 1)
      BY Zenon
    <3>1. seq[k] \in 0 .. n - 1
      BY <1>2, Zenon DEF Range
    <3> QED
      BY <1>2, <3>1
  <2>3. j \in Range(lin) <=> j - 1 \in Range(seq)
    BY <1>3, <2>2, Zenon DEF Range
  <2> QED
    BY <1>4, <2>1, <2>3, Zenon
<1>6. i \in 1 .. n
  BY <1>1, <1>4, Zenon
<1>7. \A id \in Ids(h) : CallOf(h, id) \in DOMAIN h /\ ReturnOf(h, id) \in DOMAIN h
  <2> SUFFICES ASSUME NEW id \in Ids(h)
               PROVE  CallOf(h, id) \in DOMAIN h /\ ReturnOf(h, id) \in DOMAIN h
    BY Zenon
  <2>1. PICK c, r \in DOMAIN h : /\ h[c].kind = "call" /\ h[r].kind = "return"
                                 /\ h[c].id = id /\ h[r].id = id
    BY DEF WellFormed
  <2> QED
    BY <2>1, Zenon DEF CallOf, ReturnOf
<1>8. \A j \in rest : E[j].end \in Int
  BY <1>4, <1>5, <1>7, Zenon DEF Clocked
<1>9. PICK x \in rest : \A y \in rest : E[x].end <= E[y].end
  <2> DEFINE f == [j \in rest |-> E[j].end]
  <2>1. f \in [rest -> Int] /\ rest \in SUBSET (1 .. n) /\ rest # {}
    BY <1>1, <1>4, <1>8, Zenon
  <2>2. \A j \in rest : f[j] = E[j].end
    BY Zenon
  <2> HIDE DEF f, rest
  <2>3. \E x \in rest : \A y \in rest : f[x] <= f[y]
    BY <1>2, <2>1, Zenon DEF Theory, HistoryLaws, LeastLaw
  <2> QED
    BY <2>2, <2>3, Zenon
<1>10. Min(T) \in T /\ \A t \in T : Min(T) <= t
  <2>1. E[x].end \in T /\ \A t \in T : E[x].end <= t
    BY <1>9, Zenon
  <2> HIDE DEF T
  <2> QED
    BY <2>1, Zenon DEF Min
<1>11. ASSUME NEW b \in Ids(h), ReturnOf(h, b) < CallOf(h, i - 1), b \notin Range(seq) PROVE FALSE
  <2>1. b + 1 \in 1 .. n /\ (b + 1) - 1 = b
    BY <1>2
  <2>2. b + 1 \in rest
    BY <1>5, <1>11, <2>1, Zenon
  <2>3. E[b + 1].end \in T
    BY <2>2, Zenon
  <2>4. E[b + 1].end < E[i].start
    BY <1>4, <1>5, <1>6, <1>7, <1>11, <2>1 DEF Clocked
  <2>5. E[b + 1].end \in Int /\ E[i].start \in Int
    BY <1>4, <1>5, <1>6, <1>7, <2>1, Zenon DEF Clocked
  <2> DEFINE z == Min(T)
  <2>6. z \in Int /\ z <= E[b + 1].end /\ E[i].start < z
    BY <1>1, <1>8, <1>10, <2>3, Zenon
  <2> HIDE DEF z
  <2> QED
    BY <2>4, <2>5, <2>6
<1> QED
  BY <1>1, <1>5, <1>6, <1>11, Zenon DEF MayFollow

\* The elements of a sequence with one more.
LEMMA Longer ==
    ASSUME NEW c, IsSeq(c), NEW x
    PROVE  /\ Len(c) \in Nat /\ Len(Append(c, x)) = Len(c) + 1
           /\ DOMAIN Append(c, x) = 1 .. Len(c) + 1 /\ IsSeq(Append(c, x))
           /\ \A j \in 1 .. Len(c) : Append(c, x)[j] = c[j]
           /\ Append(c, x)[Len(c) + 1] = x
<1>1. PICK S : c \in Seq(S)
  BY Zenon DEF IsSeq
<1>2. c \in Seq(S \cup {x}) /\ x \in S \cup {x}
  BY <1>1
<1> QED
  BY <1>2 DEF IsSeq

\* An order of operations goes on with one that may follow it, if the model accepts that.
LEMMA FollowerGoesOn ==
    ASSUME Theory, NEW h, NEW seq, IsSeq(seq), NEW tg, GoesOn(h, {}, KvInit, Len(seq), seq, tg),
           NEW id, MayFollow(h, seq, id), Replay(h, Append(seq, id)).ok
    PROVE  \E sg : GoesOn(h, {}, KvInit, Len(seq) + 1, Append(seq, id), sg)
<1> DEFINE n == Len(seq)
           q == Append(seq, id)
<1>1. n \in Nat /\ DOMAIN seq = 1 .. n
  BY DEF IsSeq
<1>2. /\ Len(q) = n + 1 /\ DOMAIN q = 1 .. n + 1 /\ q[n + 1] = id
      /\ \A i \in 1 .. n : q[i] = seq[i]
  BY Longer, Zenon
<1>3. PICK sg : /\ sg[0] = KvInit
                /\ \A i \in 1 .. Len(q) : /\ Step(h, sg[i - 1], q[i]).ok
                                          /\ sg[i] = Step(h, sg[i - 1], q[i]).state
  <2>1. Len(q) \in Nat
    BY <1>1, <1>2
  <2> HIDE DEF q
  <2>2. Replay(h, q).ok
    BY Zenon DEF q
  <2> QED
    BY <2>1, <2>2, AcceptedIsLegal, SMTT(20)
<1> HIDE DEF n, q
<1>4. /\ seq \in [1 .. n -> Ids(h)]
      /\ \A i, k \in 1 .. n : seq[i] = seq[k] => i = k
      /\ \A i \in 1 .. n, b \in Ids(h) :
           ReturnOf(h, b) < CallOf(h, seq[i]) => \E k \in 1 .. i - 1 : seq[k] = b
  BY Zenon DEF GoesOn, n
<1>5. /\ id \in Ids(h) /\ \A i \in 1 .. n : seq[i] # id
      /\ \A b \in Ids(h) : ReturnOf(h, b) < CallOf(h, id) => \E i \in 1 .. n : seq[i] = b
  BY <1>1, Zenon DEF MayFollow, Range
<1>6. \A i \in 1 .. n + 1 : i \in 1 .. n \/ i = n + 1
  BY <1>1
<1>7. q \in [1 .. n + 1 -> Ids(h)]
  <2>1. ASSUME NEW i \in 1 .. n + 1 PROVE q[i] \in Ids(h)
    BY <1>2, <1>4, <1>5, <1>6, Zenon
  <2>2. q = [i \in 1 .. n + 1 |-> q[i]]
    <3>1. IsSeq(q)
      BY Longer, Zenon DEF q
    <3> QED
      BY <1>2, <3>1 DEF IsSeq
  <2> QED
    BY <2>1, <2>2, Zenon
<1>8. ASSUME NEW i \in 1 .. n + 1, NEW k \in 1 .. n + 1, q[i] = q[k] PROVE i = k
  <2>1. (i \in 1 .. n \/ i = n + 1) /\ (k \in 1 .. n \/ k = n + 1)
    BY <1>6, Zenon
  <2>2. i \in 1 .. n => q[i] = seq[i] /\ q[i] # id
    BY <1>2, <1>5, Zenon
  <2>3. k \in 1 .. n => q[k] = seq[k] /\ q[k] # id
    BY <1>2, <1>5, Zenon
  <2>4. i \in 1 .. n /\ k \in 1 .. n => i = k
    BY <1>4, <1>8, <2>2, <2>3, Zenon
  <2> QED
    BY <1>2, <1>8, <2>1, <2>2, <2>3, <2>4, Zenon
<1>9. ASSUME NEW i \in 1 .. n + 1, NEW b \in Ids(h), ReturnOf(h, b) < CallOf(h, q[i])
      PROVE  \E k \in 1 .. i - 1 : q[k] = b
  <2>1. CASE i \in 1 .. n
    <3>1. q[i] = seq[i]
      BY <1>2, <2>1, Zenon
    <3>2. PICK k \in 1 .. i - 1 : seq[k] = b
      BY <1>4, <1>9, <2>1, <3>1, Zenon
    <3>3. k \in 1 .. n
      BY <1>1, <2>1
    <3> QED
      BY <1>2, <3>2, <3>3, Zenon
  <2>2. CASE i = n + 1
    <3>1. ReturnOf(h, b) < CallOf(h, id)
      BY <1>2, <1>9, <2>2, Zenon
    <3>2. PICK k \in 1 .. n : seq[k] = b
      BY <1>5, <3>1, Zenon
    <3>3. k \in 1 .. i - 1
      BY <1>1, <2>2
    <3> QED
      BY <1>2, <3>2, <3>3, Zenon
  <2> QED
    BY <1>6, <2>1, <2>2, Zenon
<1>10. q \in [1 .. n + 1 -> Ids(h) \ {}]
  BY <1>7, Zenon
<1>11. GoesOn(h, {}, KvInit, n + 1, q, sg)
  BY <1>2, <1>3, <1>8, <1>9, <1>10, Zenon DEF GoesOn
<1> QED
  BY <1>11, Zenon DEF n, q

\* What may follow a kept linearization without the model objecting would have been kept.
LEMMA FollowerIsIllegal ==
    ASSUME Theory, NEW h, WellFormed(h), NEW longest, Kept(h, longest),
           NEW a \in Ids(h), longest[a] # <<>>,
           Solved(h, longest) \/ Settled(h, {}, KvInit, longest, TRUE),
           NEW id, MayFollow(h, longest[a], id)
    PROVE  ~Replay(h, Append(longest[a], id)).ok
<1> DEFINE seq == longest[a]
           n == Len(seq)
           q == Append(seq, id)
<1> SUFFICES ASSUME Replay(h, q).ok PROVE FALSE
  BY Zenon
<1>1. IsSeq(seq) /\ \E tg : GoesOn(h, {}, KvInit, n, seq, tg)
  BY Zenon DEF Kept
<1>2. PICK j \in 1 .. n : seq[j] = a
  BY Zenon DEF Kept
<1>3. PICK sg : GoesOn(h, {}, KvInit, n + 1, q, sg)
  BY <1>1, FollowerGoesOn, Zenon
<1>4. n \in Nat /\ \A i \in 1 .. n : q[i] = seq[i]
  <2> HIDE DEF seq
  <2> QED
    BY <1>1, Longer
<1>5. n + 1 \in Nat /\ j \in 1 .. n + 1
  BY <1>4
<1>6. q[j] = a
  BY <1>2, <1>4, Zenon
<1>7. Len(longest[a]) = n
  BY Zenon
<1> HIDE DEF seq, n, q
<1>8. CASE Solved(h, longest)
  <2>1. n = Len(h) \div 2
    BY <1>7, <1>8, Zenon DEF Solved
  <2>2. Ids(h) = 0 .. n - 1
    BY <2>1, Zenon DEF Ids
  <2>3. /\ q \in [1 .. n + 1 -> Ids(h) \ {}]
        /\ \A i, k \in 1 .. n + 1 : q[i] = q[k] => i = k
    BY <1>3, Zenon DEF GoesOn
  <2>4. q \in [1 .. n + 1 -> 0 .. n - 1]
    BY <2>2, <2>3, Zenon
  <2>5. n + 1 <= n
    BY <1>4, <1>5, <2>3, <2>4, Zenon DEF Theory, HistoryLaws, InjectionLaw
  <2> QED
    BY <1>4, <2>5
<1>9. CASE Settled(h, {}, KvInit, longest, TRUE)
  <2>1. \A b \in {} \cup {q[i] : i \in 1 .. n + 1} : Len(longest[b]) >= Cardinality({}) + (n + 1)
    BY <1>3, <1>5, <1>9, Zenon DEF Settled
  <2>2. a \in {} \cup {q[i] : i \in 1 .. n + 1}
    BY <1>5, <1>6, Zenon
  <2>3. Cardinality({}) = 0
    BY Zenon DEF Theory, HistoryLaws, CountLaw
  <2>4. n >= 0 + (n + 1)
    BY <1>7, <2>1, <2>2, <2>3, Zenon
  <2> QED
    BY <1>4, <2>4
<1> QED
  BY <1>8, <1>9, Zenon

\* The invariant implies that drawn errors are errors.
LEMMA InvIllegal ==
    ASSUME Theory, CheckerInv
    PROVE  IllegalPointsAreIllegal
<1> SUFFICES ASSUME pc = "shown", ~timedOut, NEW p \in Partition, NEW seq \in partials[p],
                    NEW i \in PossibleNext(Boxes(history[p]), [k \in DOMAIN seq |-> seq[k] + 1])
             PROVE  ~Replay(history[p], Append(seq, i - 1)).ok
  BY Zenon DEF IllegalPointsAreIllegal
<1> DEFINE h == history[p]
           longest == single[p].longest
<1>1. single[p].done /\ ~kill /\ verbose = TRUE
  <2>1. single[p].done /\ verbose
    BY Zenon DEF CheckerInv, Report
  <2>2. verbose \in BOOLEAN /\ (kill => timedOut \/ (~ok /\ ~verbose))
    BY Zenon DEF CheckerInv, Answers, Settings
  <2> QED
    BY <2>1, <2>2, Zenon
<1>2. /\ WellFormed(h) /\ Kept(h, longest)
      /\ Solved(h, longest) \/ Settled(h, {}, KvInit, longest, TRUE)
  BY <1>1, Zenon DEF CheckerInv, Searches, Found
<1>3. PICK a \in DOMAIN longest : seq = longest[a] /\ seq # <<>>
  <2>1. partials = [q \in Partition |->
                      {single[q].longest[b] : b \in DOMAIN single[q].longest} \ {<<>>}]
    BY <1>1, Zenon DEF CheckerInv, Report
  <2> QED
    BY <2>1, Zenon
<1>4. a \in Ids(h)
  BY <1>2, <1>3, Zenon DEF Kept
<1>5. Clocked(h)
  BY Zenon DEF CheckerInv, Settings, Divides, Stands, Partition
<1>6. IsSeq(seq) /\ Range(seq) \in SUBSET Ids(h)
  <2>1. IsSeq(seq) /\ \E sg : GoesOn(h, {}, KvInit, Len(seq), seq, sg)
    BY <1>2, <1>3, <1>4, Zenon DEF Kept
  <2> QED
    BY <2>1 DEF GoesOn, IsSeq, Range
<1>7. MayFollow(h, seq, i - 1)
  BY <1>2, <1>5, <1>6, DrawnMayFollow, Zenon
<1> QED
  BY <1>2, <1>3, <1>4, <1>7, FollowerIsIllegal, Zenon

=================================================================================
