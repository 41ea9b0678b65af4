------------------------------- MODULE MapReduce --------------------------------
(***************************************************************************)
(* The MapReduce master (labs/src/mr/master.go), its workers (worker.go) and *)
(* the directory they share.                                                 *)
(*                                                                           *)
(* A worker and the RPC handler it waits for are one thread of control, pc:  *)
(* "scan", "complete" and "count" are steps of the handler in the master,    *)
(* which go on when the worker dies; the other steps are the worker's own.   *)
(* A step is one critical section, one unprotected read of shared data or    *)
(* one system call.                                                          *)
(*                                                                           *)
(* Time is what the master compares: fresh[t] says that the last timestamp   *)
(* of task t is less than ten seconds old.                                   *)
(***************************************************************************)
EXTENDS Integers, FiniteSets, FiniteSetsExt

CONSTANTS
    Worker,      \* the worker processes
    Mortal,      \* the workers that may crash
    NMap,        \* number of input files
    NReduce,     \* number of reduce tasks
    MaxFaults    \* bound: how often, together, opening or writing a file fails and
                 \* a task outlasts its ten seconds while somebody works on it

ASSUME WorkerAssumption == IsFiniteSet(Worker) /\ Mortal \subseteq Worker
ASSUME SizeAssumption == NMap \in Nat \ {0} /\ NReduce \in Nat \ {0}
ASSUME BoundAssumption == MaxFaults \in Nat

Kind == {"map", "reduce"}
Index(k) == IF k = "map" THEN 0..(NMap - 1) ELSE 0..(NReduce - 1)
TasksOf(k) == {k} \X Index(k)
Task == TasksOf("map") \cup TasksOf("reduce")

\* A map task writes one file inter_<task>_<part> for each reduce task, a reduce
\* task the one file mr-out-<task>.
Parts(t) == IF t[1] = "map" THEN NReduce ELSE 1
Files(t) == {t} \X (0..(Parts(t) - 1))
File == UNION {Files(t) : t \in Task}

Content == {"none", "part", "whole"}

VARIABLES
    state, fresh, waiting,   \* Task structs, and the wait() goroutine of each
    remain,                  \* map_remain and reduce_remain
    exited,                  \* the master process has exited
    alive, pc,               \* the workers
    seen,                    \* what HandleAsk read from map_remain
    task, part, ok,          \* AskReply, progress and result of performMap/Reduce
    handle,                  \* where the file a worker writes to is by now
    temp, file,              \* the directory: temporary and final names
    late, errors             \* how often each fault has happened

masterVars == <<state, fresh, waiting, remain, exited>>
faults == <<late, errors>>
workVars == <<seen, task, part, ok>>
fileVars == <<handle, temp, file>>
vars == <<masterVars, alive, pc, workVars, fileVars, faults>>

---------------------------------------------------------------------------------
\* MakeMaster(), and workers that are about to ask for the first time.
Init ==
    /\ state = [t \in Task |-> "IDLE"]
    /\ fresh = [t \in Task |-> FALSE]
    /\ waiting = [t \in Task |-> 0]
    /\ remain = [k \in Kind |-> IF k = "map" THEN NMap ELSE NReduce]
    /\ exited = FALSE
    /\ alive = [w \in Worker |-> TRUE]
    /\ pc = [w \in Worker |-> "ask"]
    /\ seen = [w \in Worker |-> "map"]
    /\ task = [w \in Worker |-> <<"map", 0>>]
    /\ part = [w \in Worker |-> 0]
    /\ ok = [w \in Worker |-> FALSE]
    /\ handle = [w \in Worker |-> "gone"]
    /\ temp = [f \in File |-> "none"]
    /\ file = [f \in File |-> "none"]
    /\ late = 0 /\ errors = 0

At(w, step) == alive[w] /\ pc[w] = step
Goto(w, step) == pc' = [pc EXCEPT ![w] = step]

---------------------------------------------------------------------------------
(***************************************************************************)
(* The master                                                               *)
(***************************************************************************)
\* Mutant of Phase: the last map task is not waited for.
Phase_Eager == IF remain["map"] > 1 THEN "map" ELSE "reduce"

\* HandleAsk() up to its test of map_remain, which takes no lock.
Phase == IF remain["map"] # 0 THEN "map" ELSE "reduce"
HandleAsk(w) ==
    /\ At(w, "ask") /\ ~exited
    /\ seen' = [seen EXCEPT ![w] = Phase]
    /\ Goto(w, "scan")
    /\ UNCHANGED <<masterVars, alive, task, part, ok, fileVars, faults>>

\* Mutant of Allocate: no goroutine is started.
Allocate_Unwatched(t) ==
    /\ state' = [state EXCEPT ![t] = "IN_PROGRESS"]
    /\ fresh' = [fresh EXCEPT ![t] = TRUE]
    /\ UNCHANGED waiting

\* What the master notes of a task it hands out.
Allocate(t) ==
    /\ state' = [state EXCEPT ![t] = "IN_PROGRESS"]
    /\ fresh' = [fresh EXCEPT ![t] = TRUE]
    /\ waiting' = [waiting EXCEPT ![t] = @ + 1]

\* The scan of HandleAsk().  It keeps every lock it takes, so that what it saw
\* still holds when it takes the last one: the scan is one step.
Idle(k) == {n \in Index(k) : state[<<k, n>>] = "IDLE"}
HandleAskScan(w) ==
    LET k == seen[w]
        t == <<k, Min(Idle(k))>>
    IN  /\ pc[w] = "scan" /\ ~exited
        /\ \/ /\ Idle(k) = {}
              /\ Goto(w, "ask")
              /\ UNCHANGED <<state, fresh, waiting, task, part>>
           \/ /\ Idle(k) # {}
              /\ Allocate(t)
              /\ task' = [task EXCEPT ![w] = t]
              /\ part' = [part EXCEPT ![w] = 0]
              /\ Goto(w, IF k = "map" THEN "open" ELSE "read")
        /\ UNCHANGED <<remain, exited, alive, seen, ok, fileVars, faults>>

\* Mutants of GivenUp: the task is always, or never, given up.
GivenUp_Always(t) == "IDLE"
GivenUp_Never(t) == state[t]

\* Mutant of Expired: wait() does not sleep.
Expired_Early(t) == TRUE

\* wait(): ten seconds after the timestamp, a task that is not completed is given
\* up and may be handed out again.
GivenUp(t) == IF state[t] = "COMPLETED" THEN "COMPLETED" ELSE "IDLE"
Expired(t) == ~fresh[t]
wait(t) ==
    /\ ~exited
    /\ waiting[t] > 0 /\ Expired(t)
    /\ waiting' = [waiting EXCEPT ![t] = @ - 1]
    /\ state' = [state EXCEPT ![t] = GivenUp(t)]
    /\ UNCHANGED <<fresh, remain, exited, alive, pc, workVars, fileVars, faults>>

\* Ten seconds pass since the timestamp of a task.
Busy(w) == pc[w] \in {"complete", "count"} \/ (alive[w] /\ pc[w] # "ask" /\ pc[w] # "scan")
Overdue(t) == \E w \in Worker : task[w] = t /\ Busy(w)
Elapse(t) ==
    /\ fresh[t] /\ ~exited
    /\ fresh' = [fresh EXCEPT ![t] = FALSE]
    /\ IF Overdue(t) THEN late + errors < MaxFaults /\ late' = late + 1 ELSE UNCHANGED late
    /\ UNCHANGED <<state, waiting, remain, exited, alive, pc, workVars, fileVars, errors>>

\* HandleResponse() up to its test of the timestamp, which takes no lock: a late
\* response is ignored.
HandleResponse(w) ==
    /\ At(w, "respond") /\ ~exited
    /\ Goto(w, IF fresh[task[w]] THEN "complete" ELSE "ask")
    /\ UNCHANGED <<masterVars, alive, workVars, fileVars, faults>>

\* Its two critical sections: task.lock, then m.mu.
HandleResponseTask(w) ==
    /\ pc[w] = "complete" /\ ~exited
    /\ state' = [state EXCEPT ![task[w]] = "COMPLETED"]
    /\ Goto(w, "count")
    /\ UNCHANGED <<fresh, waiting, remain, exited, alive, workVars, fileVars, faults>>

\* Mutants of Counted: the task is not counted, or for the wrong kind.
Counted_Not(k) == remain
Counted_Wrong(k) == [remain EXCEPT !["reduce"] = @ - 1]

Counted(k) == [remain EXCEPT ![k] = @ - 1]
HandleResponseCount(w) ==
    /\ pc[w] = "count" /\ ~exited
    /\ remain' = Counted(task[w][1])
    /\ Goto(w, "ask")
    /\ UNCHANGED <<state, fresh, waiting, exited, alive, workVars, fileVars, faults>>

\* mrmaster polls Done() and exits a second after it is true.
Done ==
    /\ ~exited
    /\ remain["reduce"] = 0
    /\ exited' = TRUE
    /\ UNCHANGED <<state, fresh, waiting, remain, alive, pc, workVars, fileVars, faults>>

---------------------------------------------------------------------------------
(***************************************************************************)
(* The workers                                                              *)
(***************************************************************************)
Current(w) == <<task[w], part[w]>>

\* The workers that write to the file which has name f by now, as the file is
\* renamed or its name removed.
Moved(f, from, to) ==
    [v \in Worker |-> IF Current(v) = f /\ handle[v] = from THEN to ELSE handle[v]]

\* Another file takes a final name, and this file its place.
Renamed(f) ==
    [v \in Worker |-> IF Current(v) # f THEN handle[v]
                      ELSE IF handle[v] = "temp" THEN "final" ELSE "gone"]

\* Mutant of LastRead: one file too many is read.
LastRead_Late(n) == n > NMap

LastRead(n) == n = NMap
\* performReduce() opens and decodes one intermediate file; it gives up when the
\* file is not there.
performReduceRead(w) ==
    LET f == <<<<"map", part[w]>>, task[w][2]>>
        next == part[w] + 1
    IN  /\ At(w, "read")
        /\ IF file[f] = "none"
           THEN Goto(w, "ask") /\ UNCHANGED part
           ELSE /\ part' = [part EXCEPT ![w] = IF LastRead(next) THEN 0 ELSE next]
                /\ IF LastRead(next) THEN Goto(w, "open") ELSE UNCHANGED pc
        /\ UNCHANGED <<masterVars, alive, seen, task, ok, fileVars, faults>>

\* Mutant of OpenTemp: the final name is written in place.
OpenTemp_InPlace(w) ==
    /\ At(w, "open")
    /\ temp' = [temp EXCEPT ![Current(w)] = "whole"]
    /\ file' = [file EXCEPT ![Current(w)] = "part"]
    /\ handle' = [handle EXCEPT ![w] = "final"]
    /\ Goto(w, "write")
    /\ UNCHANGED <<masterVars, alive, workVars, faults>>

\* Opening the temporary file: all workers on a task share its name, and an
\* existing file is not truncated.
OpenTemp(w) ==
    LET f == Current(w)
    IN  /\ At(w, "open")
        /\ temp' = [temp EXCEPT ![f] = IF @ = "none" THEN "part" ELSE @]
        /\ handle' = [handle EXCEPT ![w] = "temp"]
        /\ Goto(w, "write")
        /\ UNCHANGED <<masterVars, alive, workVars, file, faults>>

\* Writing it.  Workers on the same task write the same bytes (mapf and reducef
\* are deterministic), wherever the file is by now.
WriteTemp(w) ==
    LET f == Current(w)
    IN  /\ At(w, "write")
        /\ temp' = IF handle[w] = "temp" THEN [temp EXCEPT ![f] = "whole"] ELSE temp
        /\ file' = IF handle[w] = "final" THEN [file EXCEPT ![f] = "whole"] ELSE file
        /\ handle' = [handle EXCEPT ![w] = "gone"]
        /\ Goto(w, "rename")
        /\ UNCHANGED <<masterVars, alive, workVars, faults>>

\* Renaming it, and on to the next part; it fails when the temporary name is gone.
\* `part' is the number of temporary names to remove once the loop is left.
RenameTemp(w) ==
    LET f == Current(w)
        next == part[w] + 1
        last == next = Parts(task[w])
    IN  /\ At(w, "rename")
        /\ \/ /\ temp[f] = "none"
              /\ ok' = [ok EXCEPT ![w] = FALSE]
              /\ Goto(w, "unlink")
              /\ UNCHANGED fileVars
           \/ /\ temp[f] # "none"
              /\ file' = [file EXCEPT ![f] = temp[f]]
              /\ temp' = [temp EXCEPT ![f] = "none"]
              /\ handle' = Renamed(f)
              /\ ok' = [ok EXCEPT ![w] = TRUE]
              /\ Goto(w, IF last THEN "unlink" ELSE "open")
        /\ part' = [part EXCEPT ![w] = next]
        /\ UNCHANGED <<masterVars, alive, seen, task, faults>>

\* Mutant of Report: a failed task is reported like any other.
Report_Always(w) == "respond"

\* Worker() reports what was performed successfully.
Report(w) == IF ok[w] THEN "respond" ELSE "ask"

\* One deferred os.Remove().
RemoveTemp(w) ==
    LET left == part[w] - 1
        f == <<task[w], left>>
    IN  /\ At(w, "unlink")
        /\ temp' = [temp EXCEPT ![f] = "none"]
        /\ handle' = Moved(f, "temp", "gone")
        /\ part' = [part EXCEPT ![w] = left]
        /\ IF left > 0 THEN UNCHANGED pc
           ELSE Goto(w, Report(w))
        /\ UNCHANGED <<masterVars, alive, seen, task, ok, file, faults>>

\* Opening or writing a file fails: performMap() and performReduce() give up, and
\* remove the temporary names they have opened.
IOError(w) ==
    LET opened == IF pc[w] = "write" THEN part[w] + 1
                  ELSE IF pc[w] = "open" THEN part[w] ELSE 0
    IN  /\ late + errors < MaxFaults
        /\ alive[w] /\ pc[w] \in {"read", "open", "write"}
        /\ ~(pc[w] = "write" /\ task[w][1] = "reduce")
        /\ errors' = errors + 1
        /\ ok' = [ok EXCEPT ![w] = FALSE]
        /\ part' = [part EXCEPT ![w] = opened]
        /\ handle' = [handle EXCEPT ![w] = "gone"]
        /\ Goto(w, IF opened = 0 THEN "ask" ELSE "unlink")
        /\ UNCHANGED <<masterVars, alive, seen, task, temp, file, late>>

\* performReduce() does not look at the result of its Fprintf().
IgnoredError(w) ==
    /\ late + errors < MaxFaults
    /\ errors' = errors + 1
    /\ At(w, "write") /\ task[w][1] = "reduce"
    /\ handle' = [handle EXCEPT ![w] = "gone"]
    /\ Goto(w, "rename")
    /\ UNCHANGED <<masterVars, alive, workVars, temp, file, late>>

crash(w) ==
    /\ w \in Mortal /\ alive[w]
    /\ alive' = [alive EXCEPT ![w] = FALSE]
    /\ UNCHANGED <<masterVars, pc, workVars, fileVars, faults>>

\* A worker whose call fails takes the job for finished and exits.
Exit(w) ==
    /\ exited /\ alive[w]
    /\ pc[w] \in {"ask", "scan", "respond", "complete", "count"}
    /\ alive' = [alive EXCEPT ![w] = FALSE]
    /\ UNCHANGED <<masterVars, pc, workVars, fileVars, faults>>

Next ==
    \/ \E w \in Worker :
         \/ HandleAsk(w) \/ HandleAskScan(w)
         \/ HandleResponse(w) \/ HandleResponseTask(w) \/ HandleResponseCount(w)
         \/ performReduceRead(w) \/ OpenTemp(w) \/ WriteTemp(w) \/ RenameTemp(w)
         \/ RemoveTemp(w) \/ IOError(w) \/ IgnoredError(w) \/ crash(w) \/ Exit(w)
    \/ \E t \in Task : wait(t) \/ Elapse(t)
    \/ Done

Spec == Init /\ [][Next]_vars

---------------------------------------------------------------------------------
(***************************************************************************)
(* Properties                                                               *)
(***************************************************************************)
\* Every variable has its type, and the loops over files stay in range.
TypeOK ==
    /\ state \in [Task -> {"IDLE", "IN_PROGRESS", "COMPLETED"}]
    /\ fresh \in [Task -> BOOLEAN] /\ waiting \in [Task -> Nat]
    /\ remain \in [Kind -> Int] /\ exited \in BOOLEAN /\ {late, errors} \subseteq Nat
    /\ alive \in [Worker -> BOOLEAN]
    /\ pc \in [Worker -> {"ask", "scan", "read", "open", "write", "rename", "unlink",
                          "respond", "complete", "count"}]
    /\ seen \in [Worker -> Kind] /\ task \in [Worker -> Task]
    /\ part \in [Worker -> Nat] /\ ok \in [Worker -> BOOLEAN]
    /\ handle \in [Worker -> {"temp", "final", "gone"}]
    /\ temp \in [File -> Content] /\ file \in [File -> Content]
    /\ \A w \in Worker :
         /\ pc[w] = "read" => task[w][1] = "reduce" /\ part[w] < NMap
         /\ pc[w] \in {"open", "write", "rename"} => part[w] < Parts(task[w])
         /\ pc[w] = "unlink" => part[w] \in 1..Parts(task[w])

\* A task that is handed out is watched: its wait() goroutine is still to come,
\* so that HandleAsk() can hand it out again if its worker never answers.
InProgressIsTimed ==
    \A t \in Task : state[t] = "IN_PROGRESS" => waiting[t] = 1

\* A completed task stays completed, whatever wait() goroutines and second
\* workers do.
CompletedIsFinal ==
    [][\A t \in Task : state[t] = "COMPLETED" => state'[t] = "COMPLETED"]_vars

\* The files of a completed task are in place: a worker reports only what it has
\* renamed, and nobody removes a final name.
CompletedHasFiles ==
    \A t \in Task : state[t] = "COMPLETED" => \A f \in Files(t) : file[f] # "none"

\* Uncompleted tasks of a kind, and responses that are still to be counted.
Uncompleted(k) == {t \in TasksOf(k) : state[t] # "COMPLETED"}
Counting(k) == {w \in Worker : pc[w] = "count" /\ task[w][1] = k}

\* The counters never run behind: Done() and HandleAsk() do not wait for tasks
\* that are completed.
RemainNeverLags ==
    \A k \in Kind : remain[k] <= Cardinality(Uncompleted(k)) + Cardinality(Counting(k))

\* labs/README.md, "a consistent data structure about all tasks, including their
\* state and the number of remaining tasks": as long as no live worker has been
\* late, HandleResponse() counts every task once.
RemainIsExact ==
    late = 0 => \A k \in Kind : remain[k] = Cardinality(Uncompleted(k)) + Cardinality(Counting(k))

\* HandleAsk() hands out no reduce task before every map task is completed, as
\* long as no live worker has been late.
ReduceAfterMap ==
    late = 0 => \A t \in TasksOf("reduce") :
        state[t] # "IDLE" => \A u \in TasksOf("map") : state[u] = "COMPLETED"

\* Done() finds out "if the entire job has finished": when the master exits, the
\* output of every reduce task is there.
DoneMeansOutput ==
    exited => \A t \in TasksOf("reduce") : \A f \in Files(t) : file[f] # "none"

\* As long as no live worker has been late, when the master exits the output is
\* there, whatever workers crash or fail to write.
DoneMeansOutputInTime == late = 0 => DoneMeansOutput

\* "The two-phase trick ensures all files are written atomically": as long as no
\* live worker has been late and no error was ignored, a file is never seen half
\* written under its final name, whenever workers crash between opening, writing
\* and renaming.  A late worker shares the temporary name with its successor, and
\* then it can be seen half written.
FilesAreWholeInTime == late = 0 /\ errors = 0 => \A f \in File : file[f] # "part"

---------------------------------------------------------------------------------
(***************************************************************************)
(* Liveness: workers that do not crash keep running, handlers and wait()     *)
(* goroutines are scheduled, mrmaster keeps polling Done() and time passes.  *)
(***************************************************************************)
Fairness ==
    /\ \A w \in Worker :
         /\ WF_vars(HandleAsk(w) \/ HandleAskScan(w))
         /\ WF_vars(HandleResponse(w) \/ HandleResponseTask(w) \/ HandleResponseCount(w))
         /\ WF_vars(performReduceRead(w) \/ OpenTemp(w) \/ WriteTemp(w)
                      \/ RenameTemp(w) \/ RemoveTemp(w))
    /\ \A t \in Task : WF_vars(wait(t)) /\ WF_vars(Elapse(t))
    /\ WF_vars(Done)
FairSpec == Spec /\ Fairness

\* labs/README.md: the master "decreases the remaining count until it reaches 0
\* and the master exits".  It does when no live worker is ever late, in spite of
\* crashes and of finitely many errors.
JobFinishes == [](late = 0) => <>exited
=================================================================================
