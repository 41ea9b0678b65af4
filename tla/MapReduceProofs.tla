---------------------------- MODULE MapReduceProofs -----------------------------
(***************************************************************************)
(* Theorems about MapReduce, for any number of workers, input files, reduce *)
(* tasks and faults: types and the life of a task, the files that the      *)
(* workers write, the counters of the master, and what follows from them   *)
(* while no live worker is late.                                           *)
(***************************************************************************)
EXTENDS MapReduce, FiniteSetTheorems, TLAPS, WellFoundedInduction

USE SizeAssumption, BoundAssumption

---------------------------------------------------------------------------------
(* Tasks and files *)

\* What a task is: a kind and an index of it, with at least one part.
LEMMA TaskFacts ==
    /\ \A t \in Task : /\ t[1] \in Kind /\ t[2] \in Index(t[1]) /\ t = <<t[1], t[2]>>
                       /\ Parts(t) \in Nat /\ Parts(t) > 0 /\ t \in TasksOf(t[1])
    /\ \A k \in Kind : \A n \in Index(k) : <<k, n>> \in Task
    /\ \A k \in Kind : Index(k) \subseteq Nat
BY DEF Task, TasksOf, Kind, Index, Parts

\* Which files belong to a task.
LEMMA FileFacts ==
    /\ \A t \in Task : \A i \in Nat : i < Parts(t) => <<t, i>> \in Files(t) /\ <<t, i>> \in File
    /\ \A t \in Task : \A f \in Files(t) :
         f \in File /\ f[2] \in Nat /\ f[2] < Parts(t) /\ f = <<t, f[2]>>
<1>1. \A t \in Task : Parts(t) \in Nat
  BY TaskFacts, Zenon
<1> QED
  BY <1>1 DEF Files, File

\* A nonempty set of naturals has a least element, which Min returns.
LEMMA MinOfNat ==
    ASSUME NEW S \in SUBSET Nat, S # {}
    PROVE  /\ Min(S) \in S
           /\ \A n \in S : Min(S) <= n
<1> DEFINE Below == {0..n : n \in S}
<1>1. Below \subseteq FiniteSubsetsOf(Nat) /\ Below # {}
  <2>1. ASSUME NEW n \in S
        PROVE  0..n \in SUBSET Nat /\ IsFiniteSet(0..n)
    BY FS_Interval
  <2>2. QED
    BY <2>1, Zenon DEF FiniteSubsetsOf
<1>2. PICK B \in Below :
        \A C \in Below : <<C, B>> \notin StrictSubsetOrdering(Nat)
  BY <1>1, FS_StrictSubsetOrderingWellFounded, WFMin, Zenon
<1>3. PICK x \in S : B = 0..x
  BY Zenon
<1>4. ASSUME NEW y \in S
      PROVE  x <= y
  <2>1. 0..y \in Below
    BY Zenon
  <2>2. ~(0..y \subseteq 0..x /\ 0..y # 0..x)
    <3>1. 0..y \in SUBSET Nat /\ 0..x \in SUBSET Nat
      OBVIOUS
    <3>2. QED
      BY <1>2, <1>3, <2>1, <3>1, Zenon DEF StrictSubsetOrdering
  <2>3. CASE y < x
    <3>1. 0..y \subseteq 0..x /\ x \in 0..x /\ x \notin 0..y
      BY <2>3
    <3>2. QED
      BY <2>2, <3>1, Zenon
  <2>4. QED
    BY <2>3
<1>5. QED
  BY <1>4, Zenon DEF Min

\* The scan of HandleAsk() finds an idle task if there is one.
LEMMA ScanFinds ==
    ASSUME NEW k \in Kind, Idle(k) # {}
    PROVE  <<k, Min(Idle(k))>> \in Task /\ state[<<k, Min(Idle(k))>>] = "IDLE"
<1>1. Idle(k) \in SUBSET Nat
  BY TaskFacts, Zenon DEF Idle
<1>2. Min(Idle(k)) \in Idle(k)
  BY <1>1, MinOfNat, Zenon
<1> QED
  BY <1>2, TaskFacts, Zenon DEF Idle

---------------------------------------------------------------------------------
(* Types *)

\* The master and the workers start in their domains.
LEMMA TypeInit == Init => TypeOK
<1> SUFFICES ASSUME Init PROVE TypeOK
  BY Zenon
<1>1. <<"map", 0>> \in Task
  BY DEF Task, TasksOf, Index
<1>2. state \in [Task -> {"IDLE", "IN_PROGRESS", "COMPLETED"}] /\ fresh \in [Task -> BOOLEAN]
      /\ waiting \in [Task -> Nat]
  BY Zenon DEF Init
<1>3. remain \in [Kind -> Int] /\ exited \in BOOLEAN /\ {late, errors} \subseteq Nat
  <2>1. remain \in [Kind -> Int]
    BY DEF Init
  <2>2. exited \in BOOLEAN
    BY Zenon DEF Init
  <2>3. {late, errors} \subseteq Nat
    BY DEF Init
  <2> QED
    BY <2>1, <2>2, <2>3, Zenon
<1>4. temp \in [File -> Content] /\ file \in [File -> Content]
  BY Zenon DEF Init, Content
<1>5. seen \in [Worker -> Kind] /\ task \in [Worker -> Task]
  BY <1>1, Zenon DEF Init, Kind
<1> QED
  BY <1>2, <1>3, <1>4, <1>5, Zenon DEF Init, TypeOK

\* The steps of the master that wait for no worker.
LEMMA TypeMaster ==
    ASSUME TypeOK, Done \/ \E t \in Task : wait(t) \/ Elapse(t)
    PROVE  TypeOK'
<1> USE DEF TypeOK, workVars, fileVars, faults
<1>1. CASE Done
  BY <1>1, Zenon DEF Done
<1>2. ASSUME NEW t \in Task, wait(t) PROVE TypeOK'
  <2>1. waiting' \in [Task -> Nat]
    BY <1>2 DEF wait
  <2>2. state' \in [Task -> {"IDLE", "IN_PROGRESS", "COMPLETED"}]
    BY <1>2, Zenon DEF wait, GivenUp
  <2> QED
    BY <1>2, <2>1, <2>2, Zenon DEF wait
<1>3. ASSUME NEW t \in Task, Elapse(t) PROVE TypeOK'
  <2>1. {late', errors'} \subseteq Nat
    BY <1>3 DEF Elapse
  <2> QED
    BY <1>3, <2>1, Zenon DEF Elapse
<1> QED
  BY <1>1, <1>2, <1>3, Zenon

\* The handlers.
LEMMA TypeHandler ==
    ASSUME TypeOK, NEW w \in Worker,
           \/ HandleAsk(w) \/ HandleAskScan(w)
           \/ HandleResponse(w) \/ HandleResponseTask(w) \/ HandleResponseCount(w)
    PROVE  TypeOK'
<1> USE DEF TypeOK, masterVars, workVars, fileVars, faults, At, Goto
<1>1. CASE HandleAsk(w)
  BY <1>1, Zenon DEF HandleAsk, Phase, Kind
<1>2. CASE HandleAskScan(w)
  <2> DEFINE k == seen[w]
             t == <<k, Min(Idle(k))>>
  <2>1. CASE Idle(k) = {}
    BY <1>2, <2>1 DEF HandleAskScan
  <2>2. CASE Idle(k) # {}
    <3>1. k \in Kind /\ t \in Task /\ t[1] = k
      BY <2>2, ScanFinds, Zenon
    <3>2. /\ Allocate(t) /\ task' = [task EXCEPT ![w] = t] /\ part' = [part EXCEPT ![w] = 0]
          /\ pc' = [pc EXCEPT ![w] = IF k = "map" THEN "open" ELSE "read"]
          /\ UNCHANGED <<remain, exited, alive, seen, ok, fileVars, faults>>
      BY <1>2, <2>2, Zenon DEF HandleAskScan
    <3> HIDE DEF t
    <3>3. state' \in [Task -> {"IDLE", "IN_PROGRESS", "COMPLETED"}] /\ fresh' \in [Task -> BOOLEAN]
          /\ waiting' \in [Task -> Nat]
      BY <3>1, <3>2 DEF Allocate
    <3>4. Parts(t) > 0
      BY <3>1, TaskFacts, Zenon
    <3>5. k = "reduce" \/ k = "map"
      BY <3>1, Zenon DEF Kind
    <3> HIDE DEF k
    <3>6. \A v \in Worker :
            /\ pc'[v] = "read" => task'[v][1] = "reduce" /\ part'[v] < NMap
            /\ pc'[v] \in {"open", "write", "rename"} => part'[v] < Parts(task'[v])
            /\ pc'[v] = "unlink" => part'[v] \in 1..Parts(task'[v])
      BY <3>1, <3>2, <3>4, <3>5
    <3> QED
      BY <3>1, <3>2, <3>3, <3>6, Zenon
  <2> QED
    BY <2>1, <2>2, Zenon
<1>3. CASE HandleResponse(w)
  BY <1>3, Zenon DEF HandleResponse
<1>4. CASE HandleResponseTask(w)
  BY <1>4, Zenon DEF HandleResponseTask
<1>5. CASE HandleResponseCount(w)
  <2>1. task[w][1] \in Kind
    BY TaskFacts, Zenon
  <2>2. remain' \in [Kind -> Int]
    BY <1>5, <2>1 DEF HandleResponseCount, Counted
  <2> QED
    BY <1>5, <2>2, Zenon DEF HandleResponseCount
<1> QED
  BY <1>1, <1>2, <1>3, <1>4, <1>5, Zenon

\* The workers.
LEMMA TypeWorker ==
    ASSUME TypeOK, NEW w \in Worker,
           \/ performReduceRead(w) \/ OpenTemp(w) \/ WriteTemp(w) \/ RenameTemp(w)
           \/ RemoveTemp(w) \/ IOError(w) \/ IgnoredError(w) \/ crash(w) \/ Exit(w)
    PROVE  TypeOK'
<1> USE DEF TypeOK, masterVars, workVars, fileVars, faults, At, Goto, Content
<1>1. task[w] \in Task /\ Parts(task[w]) \in Nat /\ Parts(task[w]) > 0 /\ part[w] \in Nat
  BY TaskFacts, Zenon
<1>2. CASE performReduceRead(w)
  <2>1. CASE file[<<<<"map", part[w]>>, task[w][2]>>] = "none"
    BY <1>2, <2>1 DEF performReduceRead
  <2>2. CASE part[w] + 1 = NMap /\ file[<<<<"map", part[w]>>, task[w][2]>>] # "none"
    BY <1>1, <1>2, <2>2 DEF performReduceRead, LastRead
  <2>3. CASE part[w] + 1 # NMap /\ file[<<<<"map", part[w]>>, task[w][2]>>] # "none"
    <3>1. /\ pc[w] = "read" /\ part' = [part EXCEPT ![w] = part[w] + 1] /\ pc' = pc
          /\ UNCHANGED <<masterVars, alive, seen, task, ok, fileVars, faults>>
      BY <1>2, <2>3, Zenon DEF performReduceRead, LastRead
    <3>2. part[w] + 1 \in Nat /\ part[w] + 1 < NMap
      BY <1>1, <2>3, <3>1
    <3>3. part' \in [Worker -> Nat] /\ part'[w] = part[w] + 1
      BY <3>1, <3>2, Zenon
    <3>4. ASSUME NEW v \in Worker
          PROVE  /\ pc[v] = "read" => task[v][1] = "reduce" /\ part'[v] < NMap
                 /\ pc[v] \in {"open", "write", "rename"} => part'[v] < Parts(task[v])
                 /\ pc[v] = "unlink" => part'[v] \in 1 .. Parts(task[v])
      BY <3>1, <3>2, <3>3, Zenon
    <3>5. UNCHANGED <<state, fresh, waiting, remain, exited, late, errors, alive, pc, seen, task,
                      ok, handle, temp, file>>
      BY <3>1, Zenon
    <3> QED
      BY <3>3, <3>4, <3>5, Zenon
  <2> QED
    BY <2>1, <2>2, <2>3, Zenon
<1>3. CASE OpenTemp(w)
  BY <1>3, Zenon DEF OpenTemp
<1>4. CASE WriteTemp(w)
  BY <1>4, Zenon DEF WriteTemp
<1>5. CASE RenameTemp(w)
  <2>1. handle' \in [Worker -> {"temp", "final", "gone"}]
    BY <1>5 DEF RenameTemp, Renamed
  <2>2. part[w] < Parts(task[w]) /\ Current(w) \in File
    BY <1>1, <1>5, FileFacts, Zenon DEF RenameTemp, Current
  <2>3. temp' \in [File -> Content] /\ file' \in [File -> Content]
    BY <1>5, <2>2 DEF RenameTemp
  <2>4. part' = [part EXCEPT ![w] = part[w] + 1] /\ part[w] + 1 \in 1..Parts(task[w])
        /\ UNCHANGED <<masterVars, alive, seen, task, faults>>
    BY <1>1, <1>5, <2>2 DEF RenameTemp
  <2>5. \/ pc' = [pc EXCEPT ![w] = "unlink"]
        \/ pc' = [pc EXCEPT ![w] = "open"] /\ part[w] + 1 # Parts(task[w])
    BY <1>5, Zenon DEF RenameTemp
  <2>6. \A v \in Worker :
          /\ pc'[v] = "read" => task'[v][1] = "reduce" /\ part'[v] < NMap
          /\ pc'[v] \in {"open", "write", "rename"} => part'[v] < Parts(task'[v])
          /\ pc'[v] = "unlink" => part'[v] \in 1..Parts(task'[v])
    BY <1>1, <2>4, <2>5
  <2>7. ok' \in [Worker -> BOOLEAN]
    BY <1>5 DEF RenameTemp
  <2>8. part' \in [Worker -> Nat]
        /\ pc' \in [Worker -> {"ask", "scan", "read", "open", "write", "rename", "unlink",
                               "respond", "complete", "count"}]
    BY <1>1, <2>4, <2>5
  <2> QED
    BY <2>1, <2>3, <2>4, <2>6, <2>7, <2>8, Zenon
<1>6. CASE RemoveTemp(w)
  <2>1. handle' \in [Worker -> {"temp", "final", "gone"}]
    BY <1>6, Zenon DEF RemoveTemp, Moved
  <2>2. part[w] \in 1..Parts(task[w])
    BY <1>6, Zenon DEF RemoveTemp
  <2>3. /\ part' = [part EXCEPT ![w] = part[w] - 1] /\ temp' \in [File -> Content]
        /\ UNCHANGED <<masterVars, alive, seen, task, ok, file, faults>>
    BY <1>6, Zenon DEF RemoveTemp
  <2>4. \/ pc' = pc /\ part[w] - 1 > 0
        \/ pc' = [pc EXCEPT ![w] = "respond"] \/ pc' = [pc EXCEPT ![w] = "ask"]
    BY <1>6, Zenon DEF RemoveTemp, Report
  <2>5. \A v \in Worker :
          /\ pc'[v] = "read" => task'[v][1] = "reduce" /\ part'[v] < NMap
          /\ pc'[v] \in {"open", "write", "rename"} => part'[v] < Parts(task'[v])
          /\ pc'[v] = "unlink" => part'[v] \in 1..Parts(task'[v])
    BY <1>1, <2>2, <2>3, <2>4
  <2> QED
    BY <1>1, <2>1, <2>2, <2>3, <2>4, <2>5
<1>7. CASE IOError(w)
  <2>1. {late', errors'} \subseteq Nat
    BY <1>7 DEF IOError
  <2> QED
    BY <1>1, <1>7, <2>1 DEF IOError
<1>8. CASE IgnoredError(w)
  <2>1. {late', errors'} \subseteq Nat
    BY <1>8 DEF IgnoredError
  <2> QED
    BY <1>8, <2>1, Zenon DEF IgnoredError
<1>9. CASE crash(w)
  BY <1>9, Zenon DEF crash
<1>10. CASE Exit(w)
  BY <1>10, Zenon DEF Exit
<1> QED
  BY <1>2, <1>3, <1>4, <1>5, <1>6, <1>7, <1>8, <1>9, <1>10, Zenon

\* Every step keeps the variables in their domains.
LEMMA TypeStep == TypeOK /\ [Next]_vars => TypeOK'
<1> SUFFICES ASSUME TypeOK, [Next]_vars PROVE TypeOK'
  BY Zenon
<1>1. CASE UNCHANGED vars
  BY <1>1, Zenon DEF TypeOK, vars, masterVars, workVars, fileVars, faults
<1> QED
  BY <1>1, TypeMaster, TypeHandler, TypeWorker, Zenon DEF Next

\* Every variable keeps its type and the loops over the files of a task stay in
\* range, for any number of input files and reduce tasks.
THEOREM TypeCorrect == Spec => []TypeOK
BY TypeInit, TypeStep, PTL DEF Spec

\* A step of one worker, or of a handler that works for it.
Own(w) ==
    \/ HandleAsk(w) \/ HandleAskScan(w)
    \/ HandleResponse(w) \/ HandleResponseTask(w) \/ HandleResponseCount(w)
    \/ performReduceRead(w) \/ OpenTemp(w) \/ WriteTemp(w) \/ RenameTemp(w)
    \/ RemoveTemp(w) \/ IOError(w) \/ IgnoredError(w)

\* It leaves the others where they are.
LEMMA OwnKeeps ==
    ASSUME TypeOK, NEW w \in Worker, Own(w)
    PROVE  /\ \A v \in Worker \ {w} : /\ pc'[v] = pc[v] /\ task'[v] = task[v] /\ seen'[v] = seen[v]
                                     /\ part'[v] = part[v] /\ ok'[v] = ok[v]
           /\ alive' = alive /\ late' = late /\ exited' = exited
<1> USE DEF TypeOK, masterVars, workVars, fileVars, faults, Goto
<1>1. CASE HandleAsk(w) \/ HandleResponse(w) \/ HandleResponseTask(w) \/ HandleResponseCount(w)
  BY <1>1 DEF HandleAsk, HandleResponse, HandleResponseTask, HandleResponseCount
<1>2. CASE HandleAskScan(w)
  BY <1>2 DEF HandleAskScan
<1>3. CASE performReduceRead(w) \/ OpenTemp(w) \/ WriteTemp(w) \/ IgnoredError(w)
  BY <1>3 DEF performReduceRead, OpenTemp, WriteTemp, IgnoredError
<1>4. CASE RenameTemp(w)
  BY <1>4 DEF RenameTemp
<1>5. CASE RemoveTemp(w)
  BY <1>5 DEF RemoveTemp
<1>6. CASE IOError(w)
  BY <1>6, Zenon DEF IOError
<1> QED
  BY <1>1, <1>2, <1>3, <1>4, <1>5, <1>6, Zenon DEF Own

\* The other steps leave all workers where they are.
LEMMA NextOwn ==
    ASSUME [Next]_vars
    PROVE  \/ \E w \in Worker : Own(w)
           \/ UNCHANGED <<pc, workVars>>
BY Zenon DEF Next, Own, crash, Exit, wait, Elapse, Done, vars

---------------------------------------------------------------------------------
(* The tasks of the master *)

\* There is one wait() goroutine for a task in progress and none for an idle one.
WatchInv ==
    \A t \in Task : /\ state[t] = "IDLE" => waiting[t] = 0
                    /\ state[t] = "IN_PROGRESS" => waiting[t] = 1

\* How the state of a task may change.
LEMMA StateStep ==
    ASSUME TypeOK, [Next]_vars
    PROVE  \/ UNCHANGED <<state, waiting>>
           \/ \E t \in Task : wait(t)
           \/ \E t \in Task : state[t] = "IDLE" /\ Allocate(t)
           \/ \E w \in Worker : HandleResponseTask(w)
<1>1. ASSUME NEW w \in Worker, HandleAskScan(w)
      PROVE  UNCHANGED <<state, waiting>> \/ \E t \in Task : state[t] = "IDLE" /\ Allocate(t)
  <2>1. seen[w] \in Kind
    BY Zenon DEF TypeOK
  <2> QED
    BY <1>1, <2>1, ScanFinds, Zenon DEF HandleAskScan
<1>2. CASE UNCHANGED vars
  BY <1>2, Zenon DEF vars, masterVars
<1>3. CASE Done \/ \E t \in Task : wait(t) \/ Elapse(t)
  BY <1>3, Zenon DEF Done, Elapse
<1>4. ASSUME NEW w \in Worker,
             \/ HandleAsk(w) \/ HandleResponse(w) \/ HandleResponseCount(w)
             \/ performReduceRead(w) \/ OpenTemp(w) \/ WriteTemp(w) \/ RenameTemp(w)
             \/ RemoveTemp(w) \/ IOError(w) \/ IgnoredError(w) \/ crash(w) \/ Exit(w)
      PROVE  UNCHANGED <<state, waiting>>
  BY <1>4, Zenon DEF HandleAsk, HandleResponse, HandleResponseCount, performReduceRead, OpenTemp,
              WriteTemp, RenameTemp, RemoveTemp, IOError, IgnoredError, crash, Exit, masterVars
<1> QED
  BY <1>1, <1>2, <1>3, <1>4, Zenon DEF Next

\* Every step keeps one wait() goroutine for each task that is handed out.
LEMMA WatchStep ==
    ASSUME TypeOK, WatchInv, [Next]_vars
    PROVE  WatchInv'
<1> USE DEF TypeOK, WatchInv
<1>1. CASE UNCHANGED <<state, waiting>>
  BY <1>1, Zenon
<1>2. ASSUME NEW t \in Task, wait(t) PROVE WatchInv'
  BY <1>2 DEF wait, GivenUp
<1>3. ASSUME NEW t \in Task, state[t] = "IDLE", Allocate(t) PROVE WatchInv'
  BY <1>3 DEF Allocate
<1>4. ASSUME NEW w \in Worker, HandleResponseTask(w) PROVE WatchInv'
  BY <1>4, Zenon DEF HandleResponseTask
<1> QED
  BY <1>1, <1>2, <1>3, <1>4, StateStep, Zenon

\* A task that is handed out has a wait() goroutine that gives it up.
THEOREM HandedOutIsTimed == Spec => []InProgressIsTimed
<1>1. Init => WatchInv
  BY DEF Init, WatchInv
<1>2. TypeOK /\ WatchInv /\ [Next]_vars => WatchInv'
  BY WatchStep, Zenon
<1>3. WatchInv => InProgressIsTimed
  BY Zenon DEF WatchInv, InProgressIsTimed
<1> QED
  BY <1>1, <1>2, <1>3, TypeInit, TypeStep, PTL DEF Spec

\* No step takes a completed task back.
LEMMA CompletedStep ==
    ASSUME TypeOK, [Next]_vars
    PROVE  \A t \in Task : state[t] = "COMPLETED" => state'[t] = "COMPLETED"
<1> USE DEF TypeOK
<1>1. CASE UNCHANGED <<state, waiting>>
  BY <1>1, Zenon
<1>2. ASSUME NEW t \in Task, wait(t)
      PROVE  \A u \in Task : state[u] = "COMPLETED" => state'[u] = "COMPLETED"
  BY <1>2, Zenon DEF wait, GivenUp
<1>3. ASSUME NEW t \in Task, state[t] = "IDLE", Allocate(t)
      PROVE  \A u \in Task : state[u] = "COMPLETED" => state'[u] = "COMPLETED"
  BY <1>3, Zenon DEF Allocate
<1>4. ASSUME NEW w \in Worker, HandleResponseTask(w)
      PROVE  \A u \in Task : state[u] = "COMPLETED" => state'[u] = "COMPLETED"
  BY <1>4, Zenon DEF HandleResponseTask
<1> QED
  BY <1>1, <1>2, <1>3, <1>4, StateStep, Zenon

\* A completed task is never given up or handed out again.
THEOREM CompletionIsFinal == Spec => CompletedIsFinal
<1>1. TypeOK /\ [Next]_vars
      => [\A t \in Task : state[t] = "COMPLETED" => state'[t] = "COMPLETED"]_vars
  BY CompletedStep, Zenon
<1> QED
  BY <1>1, TypeInit, TypeStep, PTL DEF Spec, CompletedIsFinal

---------------------------------------------------------------------------------
(* While no worker is late *)

\* A busy worker is the only one at its task, which is not given up meanwhile.
Holds(w) ==
    Busy(w) =>
        /\ fresh[task[w]]
        /\ state[task[w]] = (IF pc[w] = "count" THEN "COMPLETED" ELSE "IN_PROGRESS")
        /\ \A v \in Worker \ {w} : Busy(v) => task[v] # task[w]

AloneInv == late = 0 => \A w \in Worker : Holds(w)

\* Steps that neither change the tasks nor make a worker busy.
LEMMA AloneFrame ==
    ASSUME AloneInv, late' = late, UNCHANGED <<state, fresh, task>>,
           \A v \in Worker : Busy(v)' => Busy(v) /\ (pc'[v] = "count" <=> pc[v] = "count")
    PROVE  AloneInv'
BY Zenon DEF AloneInv, Holds

\* The steps of a worker on its task.
LEMMA AloneWorker ==
    ASSUME TypeOK, AloneInv, NEW w \in Worker,
           \/ HandleAsk(w) \/ HandleResponse(w) \/ HandleResponseCount(w)
           \/ performReduceRead(w) \/ OpenTemp(w) \/ WriteTemp(w) \/ RenameTemp(w)
           \/ RemoveTemp(w) \/ IOError(w) \/ IgnoredError(w)
    PROVE  AloneInv'
<1>1. Own(w)
  BY Zenon DEF Own
<1>2. UNCHANGED <<state, fresh, task, late, alive>>
  BY <1>1, OwnKeeps, Zenon DEF HandleAsk, HandleResponse, HandleResponseCount, performReduceRead, OpenTemp,
         WriteTemp, RenameTemp, RemoveTemp, IOError, IgnoredError, masterVars, workVars
<1>3. Busy(w)' => Busy(w) /\ (pc'[w] = "count" <=> pc[w] = "count")
  <2> USE DEF TypeOK, At, Goto, Busy
  <2>1. CASE HandleAsk(w) \/ HandleResponse(w) \/ HandleResponseCount(w)
    BY <1>2, <2>1 DEF HandleAsk, HandleResponse, HandleResponseCount
  <2>2. CASE performReduceRead(w) \/ OpenTemp(w) \/ WriteTemp(w) \/ IgnoredError(w)
    BY <1>2, <2>2 DEF performReduceRead, OpenTemp, WriteTemp, IgnoredError
  <2>3. CASE RenameTemp(w)
    BY <1>2, <2>3, Zenon DEF RenameTemp
  <2>4. CASE RemoveTemp(w)
    BY <1>2, <2>4, Zenon DEF RemoveTemp, Report
  <2>5. CASE IOError(w)
    BY <1>2, <2>5, Zenon DEF IOError
  <2> QED
    BY <2>1, <2>2, <2>3, <2>4, <2>5, Zenon
<1>4. \A v \in Worker \ {w} : (Busy(v)' <=> Busy(v)) /\ pc'[v] = pc[v]
  BY <1>1, OwnKeeps, Zenon DEF Busy
<1> QED
  BY <1>2, <1>3, <1>4, AloneFrame, Zenon

\* A task is handed out to a worker that was not busy.
LEMMA AloneScan ==
    ASSUME TypeOK, AloneInv, NEW w \in Worker, HandleAskScan(w)
    PROVE  AloneInv'
<1> DEFINE k == seen[w]
           t == <<k, Min(Idle(k))>>
<1>1. /\ late' = late /\ alive' = alive /\ pc[w] = "scan" /\ ~Busy(w)
      /\ \A v \in Worker \ {w} : pc'[v] = pc[v] /\ task'[v] = task[v] /\ (Busy(v)' <=> Busy(v))
  BY OwnKeeps, Zenon DEF Own, HandleAskScan, Busy
<1>2. CASE Idle(k) = {}
  <2>1. UNCHANGED <<state, fresh, task>> /\ pc'[w] = "ask"
    BY <1>2 DEF HandleAskScan, Goto, TypeOK
  <2>2. ~Busy(w)'
    BY <2>1, Zenon DEF Busy
  <2> QED
    BY <1>1, <2>1, <2>2, AloneFrame, Zenon
<1>3. CASE Idle(k) # {}
  <2>1. t \in Task /\ state[t] = "IDLE"
    BY <1>3, ScanFinds, Zenon DEF TypeOK
  <2>2. Allocate(t) /\ task'[w] = t /\ pc'[w] # "count"
    BY <1>3 DEF HandleAskScan, Goto, TypeOK
  <2> HIDE DEF t
  <2> SUFFICES ASSUME late = 0, NEW v \in Worker, Busy(v)' PROVE Holds(v)'
    BY <1>1, Zenon DEF AloneInv, Holds
  <2>3. ASSUME NEW u \in Worker \ {w}, Busy(u)' PROVE task'[u] # t
    BY <1>1, <2>1, <2>3 DEF AloneInv, Holds
  <2>4. state'[t] = "IN_PROGRESS" /\ fresh'[t]
    BY <2>1, <2>2, Zenon DEF Allocate, TypeOK
  <2>5. CASE v = w
    BY <2>2, <2>3, <2>4, <2>5, Zenon DEF Holds
  <2>6. CASE v # w
    <3>1. task'[v] = task[v] /\ pc'[v] = pc[v] /\ Busy(v) /\ task[v] \in Task /\ task[v] # t
      BY <1>1, <2>3, <2>6, Zenon DEF TypeOK
    <3>2. state'[task[v]] = state[task[v]] /\ fresh'[task[v]] = fresh[task[v]]
      BY <2>1, <2>2, <3>1, Zenon DEF Allocate, TypeOK
    <3>3. Holds(v)
      BY Zenon DEF AloneInv
    <3>4. \A u \in Worker \ {v} : Busy(u)' => task'[u] # task'[v]
      BY <1>1, <2>2, <3>1, <3>3, Zenon DEF Holds
    <3> QED
      BY <3>1, <3>2, <3>3, <3>4, Zenon DEF Holds
  <2> QED
    BY <2>5, <2>6, Zenon
<1> QED
  BY <1>2, <1>3, Zenon

\* A task is completed, given up, or its time is over.
LEMMA AloneTask ==
    ASSUME TypeOK, AloneInv,
           (\E w \in Worker : HandleResponseTask(w)) \/ \E t \in Task : wait(t) \/ Elapse(t)
    PROVE  AloneInv'
<1> SUFFICES ASSUME late' = 0 PROVE AloneInv'
  BY Zenon DEF AloneInv
<1>1. ASSUME NEW w \in Worker, HandleResponseTask(w) PROVE AloneInv'
  <2>1. /\ late = 0 /\ task' = task /\ fresh' = fresh /\ pc[w] = "complete"
        /\ state' = [state EXCEPT ![task[w]] = "COMPLETED"] /\ pc' = [pc EXCEPT ![w] = "count"]
        /\ alive' = alive
    BY <1>1, Zenon DEF HandleResponseTask, workVars, faults, Goto
  <2>2. pc'[w] = "count" /\ \A v \in Worker \ {w} : pc'[v] = pc[v]
    BY <2>1, Zenon DEF TypeOK
  <2>3. \A v \in Worker : Busy(v)' <=> Busy(v)
    BY <2>1, <2>2, Zenon DEF Busy
  <2>4. Holds(w) /\ Busy(w) /\ task[w] \in Task
    BY <2>1, Zenon DEF AloneInv, Busy, TypeOK
  <2>5. ASSUME NEW v \in Worker, Busy(v)
        PROVE  state'[task[v]] = (IF pc'[v] = "count" THEN "COMPLETED" ELSE "IN_PROGRESS")
    <3>1. CASE v = w
      BY <2>1, <2>2, <2>4, <3>1, Zenon DEF TypeOK
    <3>2. CASE v # w
      <4>1. task[v] # task[w] /\ Holds(v) /\ task[v] \in Task
        BY <2>1, <2>4, <2>5, <3>2, Zenon DEF Holds, AloneInv, TypeOK
      <4> QED
        BY <2>1, <2>2, <2>5, <3>2, <4>1, Zenon DEF Holds, TypeOK
    <3> QED
      BY <3>1, <3>2, Zenon
  <2> QED
    BY <2>1, <2>3, <2>5, Zenon DEF AloneInv, Holds
<1>2. ASSUME NEW t \in Task, wait(t) PROVE AloneInv'
  <2>1. /\ late = 0 /\ ~fresh[t] /\ UNCHANGED <<fresh, pc, alive, task>>
        /\ state' = [state EXCEPT ![t] = GivenUp(t)]
    BY <1>2, Zenon DEF wait, workVars, faults, Expired
  <2>2. \A v \in Worker : Busy(v) => task[v] # t /\ state'[task[v]] = state[task[v]]
    BY <2>1 DEF AloneInv, Holds, TypeOK
  <2> QED
    BY <2>1, <2>2 DEF AloneInv, Holds, Busy
<1>3. ASSUME NEW t \in Task, Elapse(t) PROVE AloneInv'
  <2>1. late = 0 /\ ~Overdue(t)
    BY <1>3 DEF Elapse, TypeOK
  <2>2. fresh' = [fresh EXCEPT ![t] = FALSE] /\ UNCHANGED <<state, pc, alive, task>>
    BY <1>3, Zenon DEF Elapse, workVars
  <2>3. \A v \in Worker : Busy(v) => task[v] # t /\ fresh'[task[v]] = fresh[task[v]]
    BY <2>1, <2>2, Zenon DEF Overdue, TypeOK
  <2> QED
    BY <2>1, <2>2, <2>3, Zenon DEF AloneInv, Holds, Busy
<1> QED
  BY <1>1, <1>2, <1>3, Zenon

\* Every step keeps at most one worker at a task while none is late.
LEMMA AloneStep ==
    ASSUME TypeOK, AloneInv, [Next]_vars
    PROVE  AloneInv'
<1>1. ASSUME NEW w \in Worker, crash(w) \/ Exit(w) PROVE AloneInv'
  <2>1. UNCHANGED <<state, fresh, task, late, pc>> /\ alive' = [alive EXCEPT ![w] = FALSE]
    BY <1>1, Zenon DEF crash, Exit, masterVars, workVars, faults
  <2>2. \A v \in Worker : Busy(v)' => Busy(v)
    BY <2>1, Zenon DEF Busy, TypeOK
  <2> QED
    BY <2>1, <2>2, AloneFrame, Zenon
<1>2. ASSUME Done \/ UNCHANGED vars PROVE AloneInv'
  <2>1. UNCHANGED <<state, fresh, task, late, pc, alive>>
    BY <1>2, Zenon DEF Done, vars, masterVars, workVars, faults
  <2>2. \A v \in Worker : Busy(v)' => Busy(v)
    BY <2>1, Zenon DEF Busy
  <2> QED
    BY <2>1, <2>2, AloneFrame, Zenon
<1> QED
  BY <1>1, <1>2, AloneWorker, AloneScan, AloneTask, Zenon DEF Next

\* So it always holds.
LEMMA AloneAlways == Spec => [](TypeOK /\ AloneInv)
<1>1. Init => AloneInv
  BY DEF Init, AloneInv, Holds, Busy
<1>2. TypeOK /\ AloneInv /\ [Next]_vars => AloneInv'
  BY AloneStep, Zenon
<1> QED
  BY <1>1, <1>2, TypeInit, TypeStep, PTL DEF Spec

---------------------------------------------------------------------------------
(* The files of the workers *)

\* The first n files of a task are in place.
InPlace(t, n) == \A i \in Nat : i < n => file[<<t, i>>] # "none"

\* What a worker has renamed is in place: the parts before the one it is at, and
\* all of them when it reports the task.
WorkOK(w) ==
    /\ pc[w] \in {"open", "write", "rename"} => InPlace(task[w], part[w])
    /\ (pc[w] = "unlink" /\ ok[w]) \/ pc[w] \in {"respond", "complete"}
         => InPlace(task[w], Parts(task[w]))

\* Nobody removes a final name.
LEMMA FilesStay ==
    ASSUME TypeOK, [Next]_vars
    PROVE  \A f \in File : file[f] # "none" => file'[f] # "none"
<1> USE DEF TypeOK, Content
<1>1. ASSUME NEW w \in Worker, WriteTemp(w) \/ RenameTemp(w)
      PROVE  \A f \in File : file[f] # "none" => file'[f] # "none"
  BY <1>1 DEF WriteTemp, RenameTemp, fileVars
<1>2. ASSUME NEW w \in Worker,
             \/ HandleAsk(w) \/ HandleAskScan(w)
             \/ HandleResponse(w) \/ HandleResponseTask(w) \/ HandleResponseCount(w)
             \/ performReduceRead(w) \/ OpenTemp(w)
             \/ RemoveTemp(w) \/ IOError(w) \/ IgnoredError(w) \/ crash(w) \/ Exit(w)
      PROVE  file' = file
  BY <1>2, Zenon DEF HandleAsk, HandleAskScan, HandleResponse, HandleResponseTask, HandleResponseCount,
              performReduceRead, OpenTemp, RemoveTemp, IOError, IgnoredError, crash, Exit, fileVars
<1>3. ASSUME Done \/ (\E t \in Task : wait(t) \/ Elapse(t)) \/ UNCHANGED vars
      PROVE  file' = file
  BY <1>3, Zenon DEF Done, wait, Elapse, vars, fileVars
<1> QED
  BY <1>1, <1>2, <1>3, Zenon DEF Next

\* Files that are in place stay in place.
LEMMA PlacesStay ==
    ASSUME TypeOK, [Next]_vars, NEW t \in Task, NEW n \in Nat, n <= Parts(t), InPlace(t, n)
    PROVE  \A i \in Nat : i < n => file'[<<t, i>>] # "none"
<1>1. Parts(t) \in Nat
  BY TaskFacts, Zenon
<1>2. \A i \in Nat : i < n => <<t, i>> \in File
  BY <1>1, FileFacts
<1> QED
  BY <1>2, FilesStay, Zenon DEF InPlace

\* Steps that leave a worker where it is keep what holds of its files.
LEMMA WorkFrame ==
    ASSUME TypeOK, [Next]_vars, NEW v \in Worker, WorkOK(v),
           task'[v] = task[v], part'[v] = part[v], ok'[v] = ok[v], pc'[v] = pc[v]
    PROVE  WorkOK(v)'
<1>1. task[v] \in Task /\ part[v] \in Nat /\ Parts(task[v]) \in Nat
      /\ (pc[v] \in {"open", "write", "rename"} => part[v] < Parts(task[v]))
  BY TaskFacts, Zenon DEF TypeOK
<1>2. CASE pc[v] \in {"open", "write", "rename"}
  <2>1. \A i \in Nat : i < part[v] => file'[<<task[v], i>>] # "none"
    BY <1>1, <1>2, PlacesStay DEF WorkOK
  <2> QED
    BY <1>2, <2>1, Zenon DEF WorkOK, InPlace
<1>3. CASE (pc[v] = "unlink" /\ ok[v]) \/ pc[v] \in {"respond", "complete"}
  <2>1. \A i \in Nat : i < Parts(task[v]) => file'[<<task[v], i>>] # "none"
    BY <1>1, <1>3, PlacesStay DEF WorkOK
  <2>2. Parts(task[v])' = Parts(task[v])
    BY Zenon DEF Parts
  <2> QED
    BY <1>3, <2>1, <2>2, Zenon DEF WorkOK, InPlace
<1>4. CASE ~(pc[v] \in {"open", "write", "rename"})
           /\ ~((pc[v] = "unlink" /\ ok[v]) \/ pc[v] \in {"respond", "complete"})
  BY <1>4, Zenon DEF WorkOK
<1> QED
  BY <1>2, <1>3, <1>4, Zenon

\* A worker renames a file.
LEMMA WorkRename ==
    ASSUME TypeOK, NEW w \in Worker, WorkOK(w), RenameTemp(w), [Next]_vars
    PROVE  WorkOK(w)'
<1> DEFINE f == Current(w)
<1>1. /\ task[w] \in Task /\ part[w] \in Nat /\ pc[w] = "rename" /\ part[w] < Parts(task[w])
      /\ f \in File /\ f = <<task[w], part[w]>> /\ Parts(task[w]) \in Nat
  BY TaskFacts, FileFacts, Zenon DEF TypeOK, RenameTemp, At, Current
<1>2. task' = task /\ part' = [part EXCEPT ![w] = part[w] + 1] /\ part'[w] = part[w] + 1
  BY Zenon DEF RenameTemp, TypeOK
<1>3. CASE temp[f] = "none"
  BY <1>1, <1>3 DEF RenameTemp, Goto, TypeOK, WorkOK
<1>4. CASE temp[f] # "none"
  <2>1. file' = [file EXCEPT ![f] = temp[f]]
    BY <1>4, Zenon DEF RenameTemp
  <2>2. \/ pc'[w] = "unlink" /\ part[w] + 1 = Parts(task[w])
        \/ pc'[w] = "open"
    BY <1>4 DEF RenameTemp, Goto, TypeOK
  <2>3. \A i \in Nat : i < part[w] => file'[<<task[w], i>>] # "none"
    <3>1. part[w] <= Parts(task[w]) /\ InPlace(task[w], part[w])
      BY <1>1 DEF WorkOK
    <3> QED
      BY <1>1, <3>1, PlacesStay, Zenon
  <2>4. file'[<<task[w], part[w]>>] # "none"
    BY <1>1, <1>4, <2>1 DEF TypeOK
  <2>5. \A i \in Nat : i < part[w] + 1 => file'[<<task[w], i>>] # "none"
    <3> TAKE i \in Nat
    <3>1. i < part[w] + 1 => i < part[w] \/ i = part[w]
      BY <1>1
    <3> QED
      BY <2>3, <2>4, <3>1, Zenon
  <2>6. Parts(task[w])' = Parts(task[w])
    BY <1>2, Zenon DEF Parts
  <2> QED
    BY <1>2, <2>2, <2>5, <2>6, Zenon DEF WorkOK, InPlace
<1> QED
  BY <1>3, <1>4, Zenon

\* The other steps of a worker and its handlers.
LEMMA WorkOwn ==
    ASSUME TypeOK, NEW w \in Worker, WorkOK(w), [Next]_vars, Own(w), ~RenameTemp(w)
    PROVE  WorkOK(w)'
<1> USE DEF At, Goto
<1>1. task[w] \in Task /\ part[w] \in Nat /\ Parts(task[w]) \in Nat
      /\ (pc[w] \in {"open", "write", "rename"} => part[w] < Parts(task[w]))
      /\ pc \in [Worker -> {"ask", "scan", "read", "open", "write", "rename", "unlink",
                             "respond", "complete", "count"}]
      /\ DOMAIN part = Worker /\ DOMAIN ok = Worker /\ DOMAIN task = Worker
  BY TaskFacts, Zenon DEF TypeOK
<1>2. CASE HandleAsk(w) \/ HandleResponseTask(w) \/ HandleResponseCount(w)
  BY <1>1, <1>2, Zenon DEF HandleAsk, HandleResponseTask, HandleResponseCount, WorkOK
<1>3. CASE HandleAskScan(w)
  <2>1. pc'[w] \in {"ask", "read"} \/ (pc'[w] = "open" /\ part'[w] = 0)
    BY <1>1, <1>3, Zenon DEF HandleAskScan
  <2>2. part'[w] = 0 => InPlace(task[w], part[w])'
    BY DEF InPlace
  <2> QED
    BY <2>1, <2>2, Zenon DEF WorkOK
<1>4. CASE performReduceRead(w)
  <2>1. pc'[w] \in {"ask", "read"} \/ (pc'[w] = "open" /\ part'[w] = 0)
    BY <1>1, <1>4, Zenon DEF performReduceRead
  <2>2. part'[w] = 0 => InPlace(task[w], part[w])'
    BY DEF InPlace
  <2> QED
    BY <2>1, <2>2, Zenon DEF WorkOK
<1>5. CASE OpenTemp(w) \/ WriteTemp(w) \/ IgnoredError(w)
  <2>1. /\ pc[w] \in {"open", "write"} /\ pc'[w] \in {"write", "rename"}
        /\ task'[w] = task[w] /\ part'[w] = part[w]
    BY <1>1, <1>5, Zenon DEF OpenTemp, WriteTemp, IgnoredError, workVars
  <2>2. part[w] <= Parts(task[w]) /\ InPlace(task[w], part[w])
    <3>1. part[w] < Parts(task[w]) /\ part[w] \in Nat /\ Parts(task[w]) \in Nat
      BY <1>1, <2>1, Zenon
    <3>2. InPlace(task[w], part[w])
      BY <2>1, Zenon DEF WorkOK
    <3> QED
      BY <3>1, <3>2
  <2>3. \A i \in Nat : i < part[w] => file'[<<task[w], i>>] # "none"
    BY <1>1, <2>2, PlacesStay, Zenon
  <2> QED
    BY <2>1, <2>3, Zenon DEF WorkOK, InPlace
<1>6. CASE HandleResponse(w) \/ RemoveTemp(w)
  <2>1. /\ pc[w] = "respond" \/ pc[w] = "unlink"
        /\ pc'[w] \in {"ask"} \/ (pc'[w] = "unlink" /\ pc[w] = "unlink" /\ ok'[w] = ok[w])
             \/ (pc'[w] \in {"respond", "complete"} /\ (pc[w] = "unlink" => ok[w]))
        /\ task'[w] = task[w]
    BY <1>1, <1>6, Zenon DEF HandleResponse, RemoveTemp, Report, workVars
  <2>2. CASE (pc'[w] = "unlink" /\ ok'[w]) \/ pc'[w] \in {"respond", "complete"}
    <3>1. InPlace(task[w], Parts(task[w]))
      BY <2>1, <2>2, Zenon DEF WorkOK
    <3>2. \A i \in Nat : i < Parts(task[w]) => file'[<<task[w], i>>] # "none"
      <4>1. task[w] \in Task /\ Parts(task[w]) \in Nat /\ Parts(task[w]) <= Parts(task[w])
        BY <1>1
      <4> QED
        BY <3>1, <4>1, PlacesStay, Zenon
    <3>3. Parts(task[w])' = Parts(task[w])
      BY <2>1, Zenon DEF Parts
    <3> QED
      BY <2>1, <3>2, <3>3, Zenon DEF WorkOK, InPlace
  <2>3. CASE ~((pc'[w] = "unlink" /\ ok'[w]) \/ pc'[w] \in {"respond", "complete"})
    BY <2>1, <2>3, Zenon DEF WorkOK
  <2> QED
    BY <2>2, <2>3, Zenon
<1>7. CASE IOError(w)
  <2>1. ok'[w] = FALSE
    BY <1>1, <1>7, Zenon DEF IOError
  <2>2. pc'[w] \in {"ask", "unlink"}
    BY <1>1, <1>7, Zenon DEF IOError
  <2> QED
    BY <2>1, <2>2, Zenon DEF WorkOK
<1> QED
  BY <1>2, <1>3, <1>4, <1>5, <1>6, <1>7, Zenon DEF Own

\* Every step keeps what the workers have done in their files.
LEMMA WorkStep ==
    ASSUME TypeOK, \A w \in Worker : WorkOK(w), [Next]_vars
    PROVE  \A w \in Worker : WorkOK(w)'
<1>1. CASE UNCHANGED <<pc, workVars>>
  BY <1>1, WorkFrame, Zenon DEF workVars
<1>2. ASSUME NEW w \in Worker, Own(w), NEW v \in Worker PROVE WorkOK(v)'
  <2>1. CASE v # w
    BY <1>2, <2>1, OwnKeeps, WorkFrame, Zenon
  <2>2. CASE v = w
    BY <1>2, <2>2, WorkOwn, WorkRename, Zenon
  <2> QED
    BY <2>1, <2>2, Zenon
<1> QED
  BY <1>1, <1>2, NextOwn, Zenon

\* The files of a completed task are in place.
FileInv == (\A w \in Worker : WorkOK(w)) /\ CompletedHasFiles

\* No file is there at the start.
LEMMA FileInit == Init => FileInv
BY DEF Init, FileInv, WorkOK, CompletedHasFiles

\* Every step keeps the invariant of the files.
LEMMA FileStep ==
    ASSUME TypeOK, FileInv, [Next]_vars
    PROVE  FileInv'
<1> USE DEF TypeOK
<1>1. \A w \in Worker : WorkOK(w)'
  BY WorkStep, Zenon DEF FileInv
<1>2. ASSUME NEW t \in Task, state[t] = "COMPLETED", NEW f \in Files(t) PROVE file'[f] # "none"
  BY <1>2, FileFacts, FilesStay, Zenon DEF FileInv, CompletedHasFiles
<1>3. ASSUME NEW t \in Task, state'[t] = "COMPLETED", state[t] # "COMPLETED", NEW f \in Files(t)
      PROVE  file'[f] # "none"
  <2>1. PICK w \in Worker : HandleResponseTask(w) /\ task[w] = t
    <3>1. ASSUME NEW u \in Task, wait(u) PROVE FALSE
      BY <1>3, <3>1, Zenon DEF wait, GivenUp
    <3>2. ASSUME NEW u \in Task, Allocate(u) PROVE FALSE
      BY <1>3, <3>2, Zenon DEF Allocate
    <3>3. PICK w \in Worker : HandleResponseTask(w)
      BY <1>3, <3>1, <3>2, StateStep, Zenon
    <3> QED
      BY <1>3, <3>3, Zenon DEF HandleResponseTask
  <2>2. pc[w] = "complete" /\ file' = file
    BY <2>1, Zenon DEF HandleResponseTask, fileVars
  <2>3. InPlace(t, Parts(t))
    BY <2>1, <2>2, Zenon DEF FileInv, WorkOK
  <2>4. f[2] \in Nat /\ f[2] < Parts(t) /\ f = <<t, f[2]>>
    BY FileFacts, Zenon
  <2> QED
    BY <2>2, <2>3, <2>4, Zenon DEF InPlace
<1>4. CompletedHasFiles'
  BY <1>2, <1>3, Zenon DEF CompletedHasFiles
<1> QED
  BY <1>1, <1>4, Zenon DEF FileInv

\* A worker reports only what it has renamed, so that a completed task has all of
\* its files, whatever crashes, errors and late responses there are.
THEOREM CompletionHasFiles == Spec => []CompletedHasFiles
<1>1. TypeOK /\ FileInv /\ [Next]_vars => FileInv'
  BY FileStep, Zenon
<1>2. FileInv => CompletedHasFiles
  BY Zenon DEF FileInv
<1> QED
  BY <1>1, <1>2, FileInit, TypeInit, TypeStep, PTL DEF Spec

---------------------------------------------------------------------------------
(* The two-phase trick *)

\* A worker that is alone writes to the temporary name and renames what it wrote.
WholeInv ==
    late = 0 /\ errors = 0 =>
        /\ \A f \in File : file[f] # "part"
        /\ \A w \in Worker : alive[w] =>
             /\ pc[w] = "write" => handle[w] = "temp"
             /\ pc[w] = "rename" => temp[Current(w)] = "whole"

\* The steps on a file by the worker that is alone at its task.
LEMMA WholeOwn ==
    ASSUME TypeOK, AloneInv, WholeInv, NEW w \in Worker, late = 0, errors = 0,
           OpenTemp(w) \/ WriteTemp(w) \/ RenameTemp(w) \/ RemoveTemp(w)
    PROVE  WholeInv'
<1>1. Own(w) /\ alive[w] /\ Busy(w)
  BY Zenon DEF Own, OpenTemp, WriteTemp, RenameTemp, RemoveTemp, At, Busy
<1>2. /\ \A v \in Worker \ {w} : pc'[v] = pc[v] /\ task'[v] = task[v] /\ part'[v] = part[v]
      /\ alive' = alive
  BY <1>1, OwnKeeps, Zenon
<1>3. ASSUME NEW v \in Worker \ {w}, alive[v], pc[v] \in {"write", "rename"}
      PROVE  /\ task[v] # task[w] /\ Current(v)' = Current(v) /\ Current(v)[1] # task[w]
             /\ Current(v) \in File
  <2>1. Busy(v) /\ Holds(w)
    BY <1>3, Zenon DEF Busy, AloneInv
  <2>2. task[v] # task[w]
    BY <1>1, <2>1, Zenon DEF Holds
  <2>3. Current(v) \in File
    BY <1>3, FileFacts, Zenon DEF TypeOK, Current
  <2> QED
    BY <1>2, <2>2, <2>3, Zenon DEF Current
<1>4. part[w] \in Nat /\ task[w] \in Task
  BY Zenon DEF TypeOK
<1>5. CASE OpenTemp(w)
  <2>1. /\ file' = file /\ handle' = [handle EXCEPT ![w] = "temp"] /\ pc' = [pc EXCEPT ![w] = "write"]
        /\ \E x : temp' = [temp EXCEPT ![Current(w)] = x]
    BY <1>5, Zenon DEF OpenTemp, Goto
  <2>2. pc'[w] = "write" /\ handle'[w] = "temp" /\ \A v \in Worker \ {w} : handle'[v] = handle[v]
    BY <2>1 DEF TypeOK
  <2>3. \A v \in Worker \ {w} : alive[v] /\ pc[v] = "rename" => temp'[Current(v)] = temp[Current(v)]
    <3>1. Current(w)[1] = task[w] /\ DOMAIN temp = File
      BY Zenon DEF Current, TypeOK
    <3> QED
      BY <1>3, <2>1, <3>1, Zenon
  <2> QED
    BY <1>2, <1>3, <2>1, <2>2, <2>3 DEF WholeInv
<1>6. CASE WriteTemp(w)
  <2>1. handle[w] = "temp" /\ pc[w] = "write" /\ Current(w) \in File
    BY <1>1, <1>4, <1>6, FileFacts, Zenon DEF WriteTemp, At, WholeInv, TypeOK, Current
  <2>2. /\ file' = file /\ temp' = [temp EXCEPT ![Current(w)] = "whole"]
        /\ handle' = [handle EXCEPT ![w] = "gone"] /\ pc' = [pc EXCEPT ![w] = "rename"]
        /\ Current(w)' = Current(w)
    BY <1>6, <2>1, Zenon DEF WriteTemp, Goto, workVars, Current
  <2>3. pc'[w] = "rename" /\ \A v \in Worker \ {w} : handle'[v] = handle[v]
    BY <2>2 DEF TypeOK
  <2>4. \A v \in Worker \ {w} : alive[v] /\ pc[v] = "rename" => temp'[Current(v)] = temp[Current(v)]
    <3>1. Current(w)[1] = task[w] /\ DOMAIN temp = File
      BY Zenon DEF Current, TypeOK
    <3> QED
      BY <1>3, <2>2, <3>1, Zenon
  <2>5. temp'[Current(w)] = "whole"
    BY <2>1, <2>2, Zenon DEF TypeOK
  <2> QED
    BY <1>2, <1>3, <2>2, <2>3, <2>4, <2>5 DEF WholeInv
<1>7. CASE RenameTemp(w)
  <2>1. temp[Current(w)] = "whole" /\ Current(w) = <<task[w], part[w]>>
    BY <1>1, <1>7, Zenon DEF RenameTemp, At, WholeInv, Current
  <2>2. /\ file' = [file EXCEPT ![Current(w)] = "whole"] /\ temp' = [temp EXCEPT ![Current(w)] = "none"]
        /\ handle' = Renamed(Current(w)) /\ pc'[w] \in {"unlink", "open"}
    BY <1>7, <2>1 DEF RenameTemp, Goto, TypeOK
  <2>3. \A v \in Worker \ {w} : alive[v] /\ pc[v] \in {"write", "rename"} =>
          temp'[Current(v)] = temp[Current(v)] /\ handle'[v] = handle[v]
    <3> SUFFICES ASSUME NEW v \in Worker \ {w}, alive[v], pc[v] \in {"write", "rename"}
                 PROVE  temp'[Current(v)] = temp[Current(v)] /\ handle'[v] = handle[v]
      BY Zenon
    <3>1. Current(w)[1] = task[w] /\ DOMAIN temp = File
      BY Zenon DEF Current, TypeOK
    <3>2. Current(v) # Current(w) /\ Current(v) \in File
      BY <1>3, <3>1, Zenon
    <3>3. handle'[v] = handle[v]
      BY <2>2, <3>2, Zenon DEF Renamed
    <3> QED
      BY <2>2, <3>1, <3>2, <3>3, Zenon
  <2>4. \A f \in File : file'[f] # "part"
    BY <2>2 DEF WholeInv, TypeOK
  <2> QED
    BY <1>2, <1>3, <2>2, <2>3, <2>4 DEF WholeInv
<1>8. CASE RemoveTemp(w)
  <2> DEFINE f == <<task[w], part[w] - 1>>
  <2>1. /\ file' = file /\ temp' = [temp EXCEPT ![f] = "none"] /\ handle' = Moved(f, "temp", "gone")
        /\ pc'[w] \in {"unlink", "respond", "ask"}
    BY <1>8, Zenon DEF RemoveTemp, Report, Goto, TypeOK, At
  <2>2. \A v \in Worker \ {w} : alive[v] /\ pc[v] \in {"write", "rename"} =>
          temp'[Current(v)] = temp[Current(v)] /\ handle'[v] = handle[v]
    <3> SUFFICES ASSUME NEW v \in Worker \ {w}, alive[v], pc[v] \in {"write", "rename"}
                 PROVE  temp'[Current(v)] = temp[Current(v)] /\ handle'[v] = handle[v]
      BY Zenon
    <3>1. f[1] = task[w] /\ DOMAIN temp = File
      BY Zenon DEF TypeOK
    <3> HIDE DEF f
    <3>2. Current(v) # f /\ Current(v) \in File
      BY <1>3, <3>1, Zenon
    <3>3. handle'[v] = handle[v]
      BY <2>1, <3>2, Zenon DEF Moved
    <3> QED
      BY <2>1, <3>1, <3>2, <3>3, Zenon
  <2>3. \A v \in Worker \ {w} : alive[v] /\ pc[v] = "rename" => Current(v)' = Current(v)
    BY <1>3, Zenon
  <2> HIDE DEF f
  <2> QED
    BY <1>2, <2>1, <2>2, <2>3 DEF WholeInv
<1> QED
  BY <1>5, <1>6, <1>7, <1>8, Zenon

\* Every step without a late worker or an ignored error keeps the invariant of whole files.
LEMMA WholeStep ==
    ASSUME TypeOK, AloneInv, WholeInv, [Next]_vars, late' = 0, errors' = 0
    PROVE  WholeInv'
<1>1. late \in Nat /\ errors \in Nat
  BY Zenon DEF TypeOK
<1>2. late = 0 /\ errors = 0
  <2>1. (late' = late \/ late' = late + 1) /\ (errors' = errors \/ errors' = errors + 1)
    BY DEF Next, HandleAsk, HandleAskScan, HandleResponse, HandleResponseTask, HandleResponseCount,
           performReduceRead, OpenTemp, WriteTemp, RenameTemp, RemoveTemp, IOError, IgnoredError,
           crash, Exit, wait, Elapse, Done, vars, faults
  <2> QED
    BY <1>1, <2>1, SMTT(20)
<1>3. ASSUME NEW w \in Worker, IOError(w) \/ IgnoredError(w) PROVE FALSE
  <2>1. errors' = errors + 1
    BY <1>3, Zenon DEF IOError, IgnoredError
  <2> QED
    BY <1>1, <2>1
<1>4. ASSUME NEW w \in Worker,
             \/ HandleAsk(w) \/ HandleAskScan(w) \/ HandleResponse(w) \/ HandleResponseTask(w)
             \/ HandleResponseCount(w) \/ performReduceRead(w)
      PROVE  WholeInv'
  <2>1. UNCHANGED fileVars
    BY <1>4, Zenon DEF HandleAsk, HandleAskScan, HandleResponse, HandleResponseTask, HandleResponseCount,
                performReduceRead
  <2>2. pc'[w] \notin {"write", "rename"}
    BY <1>4 DEF HandleAsk, HandleAskScan, HandleResponse, HandleResponseTask, HandleResponseCount,
                performReduceRead, Goto, At, TypeOK
  <2>3. /\ \A v \in Worker \ {w} : pc'[v] = pc[v] /\ task'[v] = task[v] /\ part'[v] = part[v]
        /\ alive' = alive
    BY <1>4, OwnKeeps, Zenon DEF Own
  <2> QED
    BY <1>2, <2>1, <2>2, <2>3, Zenon DEF WholeInv, fileVars, Current
<1>5. ASSUME NEW w \in Worker, crash(w) \/ Exit(w) PROVE WholeInv'
  <2>1. UNCHANGED <<pc, task, part, handle, temp, file>> /\ \A v \in Worker : alive'[v] => alive[v]
    BY <1>5, Zenon DEF crash, Exit, workVars, fileVars, TypeOK
  <2> QED
    BY <1>2, <2>1, Zenon DEF WholeInv, Current
<1>6. ASSUME Done \/ (\E t \in Task : wait(t) \/ Elapse(t)) \/ UNCHANGED vars PROVE WholeInv'
  <2>1. UNCHANGED <<pc, task, part, handle, temp, file, alive>>
    BY <1>6, Zenon DEF Done, wait, Elapse, vars, workVars, fileVars
  <2> QED
    BY <1>2, <2>1, Zenon DEF WholeInv, Current
<1> QED
  BY <1>2, <1>3, <1>4, <1>5, <1>6, WholeOwn, Zenon DEF Next

\* While no live worker is late and no error was ignored, no file is ever seen
\* half written under its final name, whenever workers crash.
THEOREM FinalFilesAreWhole == Spec => []FilesAreWholeInTime
<1>1. Init => WholeInv
  BY Zenon DEF Init, WholeInv
<1>2. TypeOK /\ AloneInv /\ WholeInv /\ [Next]_vars => WholeInv'
  <2>1. ASSUME ~(late' = 0 /\ errors' = 0) PROVE WholeInv'
    BY <2>1, Zenon DEF WholeInv
  <2> QED
    BY <2>1, WholeStep, Zenon
<1>3. WholeInv => FilesAreWholeInTime
  BY Zenon DEF WholeInv, FilesAreWholeInTime
<1> QED
  BY <1>1, <1>2, <1>3, AloneAlways, PTL DEF Spec

---------------------------------------------------------------------------------
(* The counters *)

\* The sets that the counters count are finite.
LEMMA CountsAreFinite ==
    \A k \in Kind : /\ IsFiniteSet(TasksOf(k)) /\ IsFiniteSet(Uncompleted(k)) /\ IsFiniteSet(Counting(k))
                    /\ Cardinality(Uncompleted(k)) \in Nat /\ Cardinality(Counting(k)) \in Nat
                    /\ Cardinality(TasksOf(k)) = (IF k = "map" THEN NMap ELSE NReduce)
<1> TAKE k \in Kind
<1>1. IsFiniteSet(Index(k)) /\ Cardinality(Index(k)) = (IF k = "map" THEN NMap ELSE NReduce)
  <2>1. /\ IsFiniteSet(0..(NMap - 1)) /\ Cardinality(0..(NMap - 1)) = NMap
        /\ IsFiniteSet(0..(NReduce - 1)) /\ Cardinality(0..(NReduce - 1)) = NReduce
    <3>1. ASSUME NEW n \in Nat \ {0} PROVE IsFiniteSet(0..(n - 1)) /\ Cardinality(0..(n - 1)) = n
      <4>1. 0 \in Int /\ n - 1 \in Int /\ ~(0 > n - 1) /\ (n - 1) - 0 + 1 = n
        OBVIOUS
      <4> QED
        BY <4>1, FS_Interval, Zenon
    <3> QED
      BY <3>1, SizeAssumption, Zenon
  <2> QED
    BY <2>1, Zenon DEF Index
<1>2. IsFiniteSet({k}) /\ Cardinality({k}) = 1
  BY FS_Singleton, Zenon
<1>3. IsFiniteSet(TasksOf(k)) /\ Cardinality(TasksOf(k)) = 1 * Cardinality(Index(k))
  BY <1>1, <1>2, FS_Product, Zenon DEF TasksOf
<1>4. Uncompleted(k) \subseteq TasksOf(k) /\ Counting(k) \subseteq Worker
  BY Zenon DEF Uncompleted, Counting
<1>5. IsFiniteSet(Uncompleted(k)) /\ IsFiniteSet(Counting(k))
  BY <1>3, <1>4, FS_Subset, WorkerAssumption, Zenon
<1> QED
  BY <1>1, <1>3, <1>5, FS_CardinalityType

\* How a completed task and a counted one change what is counted.
LEMMA CountedTask ==
    ASSUME TypeOK, NEW w \in Worker, HandleResponseTask(w), NEW k \in Kind
    PROVE  /\ remain'[k] = remain[k]
           /\ Uncompleted(k)' = Uncompleted(k) \ {task[w]}
           /\ Counting(k)' = Counting(k) \cup (IF task[w][1] = k THEN {w} ELSE {})
           /\ task[w] \in TasksOf(task[w][1]) /\ (task[w][1] # k => task[w] \notin TasksOf(k))
           /\ w \notin Counting(k)
<1>1. /\ pc[w] = "complete" /\ pc' = [pc EXCEPT ![w] = "count"] /\ task' = task /\ remain' = remain
      /\ state' = [state EXCEPT ![task[w]] = "COMPLETED"]
  BY Zenon DEF HandleResponseTask, Goto, workVars
<1>2. TasksOf(k) \subseteq Task
  BY Zenon DEF Task, Kind
<1>3. task[w] \in TasksOf(task[w][1]) /\ (task[w][1] # k => task[w] \notin TasksOf(k))
  BY TaskFacts, Zenon DEF TypeOK, TasksOf
<1>4. Uncompleted(k)' = Uncompleted(k) \ {task[w]}
  BY <1>1, <1>2, Zenon DEF Uncompleted, TypeOK
<1>5. Counting(k)' = Counting(k) \cup (IF task[w][1] = k THEN {w} ELSE {}) /\ w \notin Counting(k)
  BY <1>1 DEF Counting, TypeOK
<1> QED
  BY <1>1, <1>3, <1>4, <1>5, Zenon

\* What HandleResponseCount does to the counter and to the sets that it counts.
LEMMA CountedResponse ==
    ASSUME TypeOK, NEW w \in Worker, HandleResponseCount(w), NEW k \in Kind
    PROVE  /\ Uncompleted(k)' = Uncompleted(k)
           /\ Counting(k)' = Counting(k) \ {w}
           /\ remain'[k] = (IF task[w][1] = k THEN remain[k] - 1 ELSE remain[k])
           /\ w \in Counting(k) <=> task[w][1] = k
<1>1. /\ pc[w] = "count" /\ pc' = [pc EXCEPT ![w] = "ask"] /\ task' = task /\ state' = state
      /\ remain' = [remain EXCEPT ![task[w][1]] = @ - 1]
  BY Zenon DEF HandleResponseCount, Counted, Goto, workVars
<1>2. remain'[k] = (IF task[w][1] = k THEN remain[k] - 1 ELSE remain[k])
  BY <1>1, Zenon DEF TypeOK
<1>3. Uncompleted(k)' = Uncompleted(k)
  BY <1>1, Zenon DEF Uncompleted
<1>4. Counting(k)' = Counting(k) \ {w} /\ (w \in Counting(k) <=> task[w][1] = k)
  BY <1>1, Zenon DEF Counting, TypeOK
<1> QED
  BY <1>2, <1>3, <1>4, Zenon

\* Nothing else does.
LEMMA NothingCounted ==
    ASSUME TypeOK, [Next]_vars,
           ~(\E w \in Worker : HandleResponseTask(w) \/ HandleResponseCount(w)),
           NEW k \in Kind
    PROVE  remain' = remain /\ Uncompleted(k)' = Uncompleted(k) /\ Counting(k)' = Counting(k)
<1>1. TasksOf(k) \subseteq Task
  BY Zenon DEF Task, Kind
<1>2. \A t \in Task : state'[t] = "COMPLETED" <=> state[t] = "COMPLETED"
  <2>1. ASSUME NEW t \in Task, wait(t) \/ Allocate(t), NEW u \in Task
        PROVE  state'[u] = "COMPLETED" => state[u] = "COMPLETED"
    BY <2>1 DEF wait, GivenUp, Allocate, TypeOK
  <2> QED
    BY <2>1, StateStep, CompletedStep, Zenon
<1>3. Uncompleted(k)' = Uncompleted(k)
  BY <1>1, <1>2, Zenon DEF Uncompleted
<1>4. ASSUME NEW w \in Worker, Own(w), ~HandleResponseTask(w), ~HandleResponseCount(w)
      PROVE  remain' = remain /\ pc[w] # "count" /\ pc'[w] # "count"
  <2> USE DEF TypeOK, At, Goto
  <2>1. CASE HandleAsk(w) \/ HandleResponse(w)
    BY <2>1, Zenon DEF HandleAsk, HandleResponse, masterVars
  <2>2. CASE HandleAskScan(w)
    BY <2>2 DEF HandleAskScan
  <2>3. CASE performReduceRead(w) \/ OpenTemp(w) \/ WriteTemp(w) \/ IgnoredError(w)
    BY <2>3 DEF performReduceRead, OpenTemp, WriteTemp, IgnoredError, masterVars
  <2>4. CASE RenameTemp(w)
    BY <2>4 DEF RenameTemp, masterVars
  <2>5. CASE RemoveTemp(w)
    BY <2>5, Zenon DEF RemoveTemp, Report, masterVars
  <2>6. CASE IOError(w)
    BY <2>6, Zenon DEF IOError, masterVars
  <2> QED
    BY <1>4, <2>1, <2>2, <2>3, <2>4, <2>5, <2>6, Zenon DEF Own
<1>5. CASE \E w \in Worker : Own(w)
  <2>1. PICK w \in Worker : Own(w)
    BY <1>5, Zenon
  <2>2. remain' = remain /\ pc[w] # "count" /\ pc'[w] # "count"
    BY <1>4, <2>1, Zenon
  <2>3. \A v \in Worker \ {w} : pc'[v] = pc[v] /\ task'[v] = task[v]
    BY <2>1, OwnKeeps, Zenon
  <2>4. Counting(k)' = Counting(k)
    BY <2>2, <2>3, Zenon DEF Counting
  <2> QED
    BY <1>3, <2>2, <2>4, Zenon
<1>6. CASE ~ \E w \in Worker : Own(w)
  <2>1. UNCHANGED <<pc, task, remain>>
    BY <1>6, Zenon DEF Next, Own, crash, Exit, wait, Elapse, Done, vars, masterVars, workVars
  <2> QED
    BY <1>3, <2>1, Zenon DEF Counting
<1> QED
  BY <1>5, <1>6, Zenon

CountInv == RemainNeverLags /\ RemainIsExact

\* The counters are right at the start.
LEMMA CountInit == Init => CountInv
<1> SUFFICES ASSUME Init PROVE CountInv
  BY Zenon
<1>1. ASSUME NEW k \in Kind PROVE remain[k] = Cardinality(Uncompleted(k)) + Cardinality(Counting(k))
  <2>1. TasksOf(k) \subseteq Task
    BY Zenon DEF Task, Kind
  <2>2. Uncompleted(k) = TasksOf(k) /\ Counting(k) = {}
    BY <2>1, Zenon DEF Init, Uncompleted, Counting
  <2>3. remain[k] = (IF k = "map" THEN NMap ELSE NReduce)
    BY Zenon DEF Init
  <2> QED
    BY <2>2, <2>3, CountsAreFinite, FS_EmptySet
<1>2. \A k \in Kind : remain[k] \in Int
  BY TypeInit, Zenon DEF TypeOK
<1> QED
  BY <1>1, <1>2 DEF CountInv, RemainNeverLags, RemainIsExact

\* Every step keeps the counters right.
LEMMA CountStep ==
    ASSUME TypeOK, AloneInv, CountInv, [Next]_vars
    PROVE  CountInv'
<1> USE DEF CountInv, RemainNeverLags, RemainIsExact
<1>0. (late' = 0 => late = 0) /\ \A k \in Kind : remain[k] \in Int
  <2>1. \A k \in Kind : remain[k] \in Int
    BY Zenon DEF TypeOK
  <2>2. late \in Nat
    BY Zenon DEF TypeOK
  <2>3. late' = late \/ late' = late + 1
    BY NextOwn, OwnKeeps, Zenon DEF Next, Own, crash, Exit, wait, Elapse, Done, vars, faults
  <2> QED
    BY <2>1, <2>2, <2>3
<1>1. ASSUME NEW w \in Worker, HandleResponseTask(w) PROVE CountInv'
  <2> SUFFICES ASSUME NEW k \in Kind
               PROVE  /\ remain'[k] <= Cardinality(Uncompleted(k)') + Cardinality(Counting(k)')
                      /\ late = 0 => remain'[k] = Cardinality(Uncompleted(k)') + Cardinality(Counting(k)')
    BY <1>0, Zenon
  <2> DEFINE U == Uncompleted(k)
             C == Counting(k)
  <2>1. /\ remain'[k] = remain[k] /\ Uncompleted(k)' = U \ {task[w]}
        /\ Counting(k)' = C \cup (IF task[w][1] = k THEN {w} ELSE {}) /\ w \notin C
    BY <1>1, CountedTask, Zenon
  <2>2. IsFiniteSet(U) /\ IsFiniteSet(C) /\ Cardinality(U) \in Nat /\ Cardinality(C) \in Nat
    BY CountsAreFinite, Zenon
  <2>3. Cardinality(U \ {task[w]}) = (IF task[w] \in U THEN Cardinality(U) - 1 ELSE Cardinality(U))
    BY <2>2, FS_RemoveElement, Zenon
  <2>4. CASE task[w][1] # k
    <3>1. task[w] \notin U /\ Counting(k)' = C
      BY <1>1, <2>1, <2>4, CountedTask DEF Uncompleted
    <3> HIDE DEF U, C
    <3>2. Cardinality(Uncompleted(k)') = Cardinality(U) /\ Cardinality(Counting(k)') = Cardinality(C)
      BY <2>1, <2>3, <3>1, Zenon
    <3> QED
      BY <1>0, <2>1, <3>2, Zenon DEF U, C
  <2>5. CASE task[w][1] = k
    <3>1. Cardinality(C \cup {w}) = Cardinality(C) + 1
      BY <2>1, <2>2, FS_AddElement, Zenon
    <3>2. late = 0 => task[w] \in U
      <4>1. late = 0 => state[task[w]] = "IN_PROGRESS"
        BY <1>1, Zenon DEF HandleResponseTask, AloneInv, Holds, Busy
      <4>2. task[w] \in TasksOf(k)
        BY <1>1, <2>5, CountedTask, Zenon
      <4> QED
        BY <4>1, <4>2, Zenon DEF Uncompleted
    <3>3. Cardinality(Counting(k)') = Cardinality(C) + 1
      BY <2>1, <2>5, <3>1, Zenon
    <3>4. /\ Cardinality(Uncompleted(k)') \in {Cardinality(U), Cardinality(U) - 1}
          /\ late = 0 => Cardinality(Uncompleted(k)') = Cardinality(U) - 1
      BY <2>1, <2>3, <3>2, Zenon
    <3>5. remain[k] <= Cardinality(U) + Cardinality(C)
          /\ (late = 0 => remain[k] = Cardinality(U) + Cardinality(C))
      BY Zenon
    <3> HIDE DEF U, C
    <3> QED
      BY <1>0, <2>1, <2>2, <3>3, <3>4, <3>5
  <2> QED
    BY <2>4, <2>5, Zenon
<1>2. ASSUME NEW w \in Worker, HandleResponseCount(w) PROVE CountInv'
  <2> SUFFICES ASSUME NEW k \in Kind
               PROVE  /\ remain'[k] <= Cardinality(Uncompleted(k)') + Cardinality(Counting(k)')
                      /\ late = 0 => remain'[k] = Cardinality(Uncompleted(k)') + Cardinality(Counting(k)')
    BY <1>0, Zenon
  <2> DEFINE U == Uncompleted(k)
             C == Counting(k)
  <2>1. /\ Uncompleted(k)' = U /\ Counting(k)' = C \ {w}
        /\ remain'[k] = (IF w \in C THEN remain[k] - 1 ELSE remain[k])
    BY <1>2, CountedResponse, Zenon
  <2>2. IsFiniteSet(C) /\ Cardinality(U) \in Nat /\ Cardinality(C) \in Nat
    BY CountsAreFinite, Zenon
  <2>3. Cardinality(C \ {w}) = (IF w \in C THEN Cardinality(C) - 1 ELSE Cardinality(C))
    BY <2>2, FS_RemoveElement, Zenon
  <2>4. remain[k] <= Cardinality(U) + Cardinality(C)
        /\ (late = 0 => remain[k] = Cardinality(U) + Cardinality(C))
    BY Zenon
  <2> HIDE DEF U, C
  <2> QED
    BY <1>0, <2>1, <2>2, <2>3, <2>4
<1>3. ASSUME ~(\E w \in Worker : HandleResponseTask(w) \/ HandleResponseCount(w)) PROVE CountInv'
  <2>1. \A k \in Kind : remain' = remain /\ Uncompleted(k)' = Uncompleted(k) /\ Counting(k)' = Counting(k)
    BY <1>3, NothingCounted, Zenon
  <2> QED
    BY <1>0, <2>1, Zenon
<1> QED
  BY <1>1, <1>2, <1>3, Zenon

\* The counters never run behind what is completed, and they are exact while no
\* live worker is late, for any number of workers and tasks.
LEMMA CountAlways == Spec => [](TypeOK /\ AloneInv /\ CountInv)
<1>1. TypeOK /\ AloneInv /\ CountInv /\ [Next]_vars => CountInv'
  BY CountStep, Zenon
<1> QED
  BY <1>1, CountInit, AloneAlways, PTL DEF Spec

\* Done() and HandleAsk() never wait for a task that is completed.
THEOREM CountersNeverLag == Spec => []RemainNeverLags
<1>1. CountInv => RemainNeverLags
  BY Zenon DEF CountInv
<1> QED
  BY <1>1, CountAlways, PTL

\* HandleResponse() counts every task once while no live worker is late, whatever
\* workers crash and whatever files cannot be written.
THEOREM CountersAreExact == Spec => []RemainIsExact
<1>1. CountInv => RemainIsExact
  BY Zenon DEF CountInv
<1> QED
  BY <1>1, CountAlways, PTL

---------------------------------------------------------------------------------
(* The two phases and the end of the job *)

AllMapped == \A u \in TasksOf("map") : state[u] = "COMPLETED"

\* A handler that goes through the reduce tasks has seen the map tasks completed.
PhaseInv ==
    late = 0 =>
        /\ \A w \in Worker : pc[w] = "scan" /\ seen[w] = "reduce" => AllMapped
        /\ \A t \in TasksOf("reduce") : state[t] # "IDLE" => AllMapped
        /\ exited => \A t \in TasksOf("reduce") : state[t] = "COMPLETED"

\* A counter that is exact is zero only when all tasks are completed.
LEMMA ZeroMeansCompleted ==
    ASSUME RemainIsExact, late = 0, NEW k \in Kind, remain[k] = 0
    PROVE  \A t \in TasksOf(k) : state[t] = "COMPLETED"
<1>1. Cardinality(Uncompleted(k)) = 0 /\ IsFiniteSet(Uncompleted(k))
  BY CountsAreFinite DEF RemainIsExact
<1>2. Uncompleted(k) = {}
  BY <1>1, FS_EmptySet, Zenon
<1> QED
  BY <1>2, Zenon DEF Uncompleted

\* Every step keeps the invariant of the phases.
LEMMA PhaseStep ==
    ASSUME TypeOK, AloneInv, CountInv, PhaseInv, [Next]_vars, late' = 0
    PROVE  PhaseInv'
<1>1. late = 0
  <2>1. late \in Nat
    BY Zenon DEF TypeOK
  <2>2. late' = late \/ late' = late + 1
    BY NextOwn, OwnKeeps, Zenon DEF Next, Own, crash, Exit, wait, Elapse, Done, vars, faults
  <2> QED
    BY <2>1, <2>2
<1>2. TasksOf("map") \subseteq Task /\ TasksOf("reduce") \subseteq Task
  BY Zenon DEF Task
<1>3. AllMapped => AllMapped'
  BY <1>2, CompletedStep, Zenon DEF AllMapped
<1>4. ASSUME NEW w \in Worker, pc'[w] = "scan", seen'[w] = "reduce" PROVE AllMapped
  <2>1. CASE pc[w] = "scan" /\ seen[w] = "reduce"
    BY <1>1, <2>1, Zenon DEF PhaseInv
  <2>2. CASE ~(pc[w] = "scan" /\ seen[w] = "reduce")
    <3>1. Own(w)
      BY <1>4, <2>2, NextOwn, OwnKeeps, Zenon DEF workVars
    <3>2. HandleAsk(w)
      <4> USE DEF TypeOK, At, Goto
      <4>1. CASE HandleResponse(w) \/ HandleResponseTask(w) \/ HandleResponseCount(w)
        BY <1>4, <4>1, Zenon DEF HandleResponse, HandleResponseTask, HandleResponseCount
      <4>2. CASE HandleAskScan(w)
        BY <1>4, <4>2, Zenon DEF HandleAskScan
      <4>3. CASE performReduceRead(w) \/ OpenTemp(w) \/ WriteTemp(w) \/ IgnoredError(w)
        BY <1>4, <4>3 DEF performReduceRead, OpenTemp, WriteTemp, IgnoredError
      <4>4. CASE RenameTemp(w)
        BY <1>4, <4>4 DEF RenameTemp
      <4>5. CASE RemoveTemp(w)
        BY <1>4, <4>5 DEF RemoveTemp, Report
      <4>6. CASE IOError(w)
        BY <1>4, <4>6, Zenon DEF IOError
      <4> QED
        BY <3>1, <4>1, <4>2, <4>3, <4>4, <4>5, <4>6 DEF Own
    <3>3. remain["map"] = 0
      BY <1>4, <3>2, Zenon DEF HandleAsk, Phase, TypeOK
    <3> QED
      BY <1>1, <3>3, ZeroMeansCompleted, Zenon DEF CountInv, AllMapped, Kind
  <2> QED
    BY <2>1, <2>2, Zenon
<1>5. ASSUME NEW t \in TasksOf("reduce"), state'[t] # "IDLE" PROVE AllMapped
  <2>1. CASE state[t] # "IDLE"
    BY <1>1, <2>1, Zenon DEF PhaseInv
  <2>2. CASE state[t] = "IDLE"
    <3>1. ASSUME NEW u \in Task, wait(u) PROVE FALSE
      BY <1>2, <1>5, <2>2, <3>1, Zenon DEF wait, GivenUp, TypeOK
    <3>2. ASSUME NEW w \in Worker, HandleResponseTask(w) PROVE FALSE
      <4>1. state[task[w]] = "IN_PROGRESS"
        BY <1>1, <3>2, Zenon DEF HandleResponseTask, AloneInv, Holds, Busy
      <4> QED
        BY <1>2, <1>5, <2>2, <3>2, <4>1, Zenon DEF HandleResponseTask, TypeOK
    <3>3. ASSUME NEW w \in Worker, HandleAskScan(w) PROVE AllMapped
      <4> DEFINE k == seen[w]
                 u == <<k, Min(Idle(k))>>
      <4>1. Idle(k) # {} /\ Allocate(u)
        BY <1>5, <2>2, <3>3, Zenon DEF HandleAskScan
      <4>2. u = t
        <5>1. state' = [state EXCEPT ![u] = "IN_PROGRESS"]
          BY <4>1, Zenon DEF Allocate
        <5> HIDE DEF u
        <5> QED
          BY <1>2, <1>5, <2>2, <5>1, Zenon DEF TypeOK
      <4>3. k = "reduce"
        BY <4>2, Zenon DEF TasksOf
      <4> QED
        BY <1>1, <3>3, <4>3, Zenon DEF HandleAskScan, PhaseInv
    <3>4. CASE \E w \in Worker : HandleAskScan(w)
      BY <3>3, <3>4, ZenonT(30)
    <3>5. CASE ~ \E w \in Worker : HandleAskScan(w)
      <4>1. state' # state
        BY <1>5, <2>2, Zenon
      <4> QED
        BY <3>1, <3>2, <3>5, <4>1
           DEF Next, HandleAsk, HandleResponse, HandleResponseCount, performReduceRead, OpenTemp,
               WriteTemp, RenameTemp, RemoveTemp, IOError, IgnoredError, crash, Exit, Elapse, Done,
               masterVars, vars
    <3> QED
      BY <3>4, <3>5, Zenon
  <2> QED
    BY <2>1, <2>2, Zenon
<1>6. ASSUME exited' PROVE \A t \in TasksOf("reduce") : state'[t] = "COMPLETED"
  <2>1. CASE exited
    BY <1>1, <1>2, <2>1, CompletedStep, Zenon DEF PhaseInv
  <2>2. CASE ~exited
    <3>1. Done
      BY <1>6, <2>2, OwnKeeps, Zenon DEF Next, Own, crash, Exit, wait, Elapse, vars, masterVars
    <3>2. remain["reduce"] = 0 /\ state' = state
      BY <3>1, Zenon DEF Done
    <3> QED
      BY <1>1, <3>2, ZeroMeansCompleted, Zenon DEF CountInv, Kind
  <2> QED
    BY <2>1, <2>2, Zenon
<1> QED
  BY <1>3, <1>4, <1>5, <1>6, Zenon DEF PhaseInv

\* So it always holds.
LEMMA PhaseAlways == Spec => []PhaseInv
<1>1. Init => PhaseInv
  BY Zenon DEF Init, PhaseInv, Task
<1>2. TypeOK /\ AloneInv /\ CountInv /\ PhaseInv /\ [Next]_vars => PhaseInv'
  <2>1. ASSUME late' # 0 PROVE PhaseInv'
    BY <2>1, Zenon DEF PhaseInv
  <2> QED
    BY <2>1, PhaseStep, Zenon
<1> QED
  BY <1>1, <1>2, CountAlways, PTL DEF Spec

\* While no live worker is late, no reduce task is handed out before every map
\* task is completed.
THEOREM ReduceFollowsMap == Spec => []ReduceAfterMap
<1>1. PhaseInv => ReduceAfterMap
  BY Zenon DEF PhaseInv, ReduceAfterMap, AllMapped
<1> QED
  BY <1>1, PhaseAlways, PTL

\* While no live worker is late, the master exits only when the output of every
\* reduce task is in place.
THEOREM ExitHasOutput == Spec => []DoneMeansOutputInTime
<1>1. PhaseInv /\ CompletedHasFiles => DoneMeansOutputInTime
  BY Zenon DEF PhaseInv, CompletedHasFiles, DoneMeansOutputInTime, DoneMeansOutput, Task
<1> QED
  BY <1>1, PhaseAlways, CompletionHasFiles, PTL

=================================================================================
