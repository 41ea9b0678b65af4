--------------------------------- MODULE Network --------------------------------
(***************************************************************************)
(* The simulated network (labs/src/labrpc/labrpc.go) under the test harness  *)
(* that drives it (labs/src/raft/config.go).                                 *)
(*                                                                           *)
(* Every start of a peer makes a new server object, new client ends and a    *)
(* new persister; generation numbers tell them apart.  A call goes through   *)
(* Call(), the goroutine of processReq() and the goroutine of its handler;   *)
(* a step is one critical section of the network or one channel operation.   *)
(* The harness is one thread, pc, that runs one operation at a time.         *)
(***************************************************************************)
EXTENDS Integers, FiniteSets

CONSTANTS
    N,           \* number of peers
    Call,        \* the calls that are made, each once
    MaxStarts    \* bound: how often a peer is started

ASSUME SizeAssumption == N \in Nat \ {0} /\ MaxStarts \in Nat \ {0}
ASSUME CallAssumption == IsFiniteSet(Call)

Peer == 0..(N - 1)
Start == 1..MaxStarts
None == 0                                       \* a nil server or persister
End == [from : Peer, start : Start, to : Peer]  \* by owner, its start, and server

VARIABLES
    enabled, servers, reliable,     \* Network
    closed, serving,                \* Network.done, and the goroutine of MakeNetwork
    connected, starts,              \* config.connected, and how often start1() ran
    saved, holder,                  \* config.saved, and whose persister that is
    pc, plan, peer, todo,           \* the harness
    stage, end, target, flaky,      \* Call() and processReq()
    ran                             \* the goroutine that runs the handler

netVars == <<enabled, servers, reliable, closed, serving>>
harnessVars == <<connected, starts, holder, pc, plan, peer, todo>>
callVars == <<stage, end, target, flaky, ran>>
vars == <<netVars, harnessVars, saved, callVars>>

\* make_config() has started and connected every peer.
Init ==
    /\ enabled = {e \in End : e.start = 1}
    /\ servers = [i \in Peer |-> 1]
    /\ reliable = TRUE
    /\ closed = FALSE /\ serving = TRUE
    /\ connected = [i \in Peer |-> TRUE]
    /\ starts = [i \in Peer |-> 1]
    /\ saved = [i \in Peer |-> {}]
    /\ holder = [i \in Peer |-> 1]
    /\ pc = "idle" /\ plan = "none" /\ peer = 0 /\ todo = {}
    /\ stage = [c \in Call |-> "none"]
    /\ end = [c \in Call |-> [from |-> 0, start |-> 1, to |-> 0]]
    /\ target = [c \in Call |-> None]
    /\ flaky = [c \in Call |-> FALSE]
    /\ ran = [c \in Call |-> "no"]

---------------------------------------------------------------------------------
(***************************************************************************)
(* The harness                                                              *)
(***************************************************************************)
\* endnames[i][j]
endnames(i, j) == [from |-> i, start |-> starts[i], to |-> j]
Outgoing(i, S) == {endnames(i, j) : j \in S}
Incoming(i, S) == {endnames(j, i) : j \in S}

\* Mutant of Detached: the ends of the other peers are forgotten.
Detached_Outgoing(i) == Outgoing(i, Peer)

\* The ends that connect() and disconnect() switch.
Attached(i) ==
    LET there == {j \in Peer : connected[j] \/ j = i}
    IN  Outgoing(i, there) \cup Incoming(i, there)
Detached(i) == Outgoing(i, Peer) \cup Incoming(i, Peer)

\* An operation of the harness begins; cleanup() is the last one.
Ready == pc = "idle" /\ ~closed
connect(i) ==
    /\ Ready
    /\ servers[i] # None
    /\ pc' = "enable" /\ plan' = "connect" /\ peer' = i
    /\ connected' = [connected EXCEPT ![i] = TRUE]
    /\ todo' = Attached(i)
    /\ UNCHANGED <<netVars, starts, holder, saved, callVars>>

\* disconnect(), and crash1() and start1(), which begin with it.
disconnect(i, operation) ==
    /\ Ready
    /\ operation = "start1" => starts[i] < MaxStarts
    /\ pc' = "enable" /\ plan' = operation /\ peer' = i
    /\ connected' = [connected EXCEPT ![i] = FALSE]
    /\ todo' = Detached(i)
    /\ UNCHANGED <<netVars, starts, holder, saved, callVars>>

\* The harness goes on; between operations it keeps nothing.
Then(step) ==
    /\ pc' = step
    /\ IF step = "idle" THEN plan' = "none" /\ peer' = 0 ELSE UNCHANGED <<plan, peer>>

\* One Enable(): outgoing ends in the order of the peers, then incoming ones.
Order(e) == IF e.from = peer THEN e.to ELSE N + e.from
Enable(e) ==
    /\ pc = "enable" /\ e \in todo
    /\ \A d \in todo : Order(e) <= Order(d)
    /\ enabled' = IF plan = "connect" THEN enabled \cup {e} ELSE enabled \ {e}
    /\ todo' = todo \ {e}
    /\ UNCHANGED <<servers, reliable, closed, serving, connected, starts, holder,
                   pc, plan, peer, saved, callVars>>

Switched == pc = "enable" /\ todo = {}
Enabled ==
    /\ Switched
    /\ Then(IF plan \in {"crash1", "start1"} THEN "delete" ELSE "idle")
    /\ UNCHANGED <<netVars, connected, starts, holder, todo, saved, callVars>>

\* crash1() goes on: the server is deleted, then its persister copied.
DeleteServer ==
    /\ pc = "delete"
    /\ servers' = [servers EXCEPT ![peer] = None]
    /\ Then("copy")
    /\ UNCHANGED <<enabled, reliable, closed, serving, connected, starts, holder,
                   todo, saved, callVars>>

Copy ==
    /\ pc = "copy"
    /\ holder' = [holder EXCEPT ![peer] = None]
    /\ Then(IF plan = "start1" THEN "make" ELSE "idle")
    /\ UNCHANGED <<netVars, connected, starts, todo, saved, callVars>>

\* start1() goes on: new ends, which are not enabled, a new persister with the
\* saved contents, and a peer that uses them.
Make ==
    /\ pc = "make"
    /\ starts' = [starts EXCEPT ![peer] = @ + 1]
    /\ holder' = [holder EXCEPT ![peer] = starts[peer] + 1]
    /\ Then("add")
    /\ UNCHANGED <<netVars, connected, todo, saved, callVars>>

AddServer ==
    /\ pc = "add"
    /\ servers' = [servers EXCEPT ![peer] = starts[peer]]
    /\ Then("idle")
    /\ UNCHANGED <<enabled, reliable, closed, serving, connected, starts, holder,
                   todo, saved, callVars>>

\* setunreliable()
Reliable ==
    /\ Ready
    /\ reliable' = ~reliable
    /\ UNCHANGED <<enabled, servers, closed, serving, harnessVars, saved, callVars>>

\* cleanup()
Cleanup ==
    /\ Ready
    /\ closed' = TRUE
    /\ UNCHANGED <<enabled, servers, reliable, serving, harnessVars, saved, callVars>>

---------------------------------------------------------------------------------
(***************************************************************************)
(* Calls                                                                    *)
(***************************************************************************)
To(c) == end[c].to
Goto(c, s) == stage' = [stage EXCEPT ![c] = s]

\* Call() on an end of a peer, which may have been killed since.
Begin(c, e) ==
    /\ stage[c] = "none"
    /\ e.start <= starts[e.from]
    /\ end' = [end EXCEPT ![c] = e]
    /\ Goto(c, "send")
    /\ UNCHANGED <<netVars, harnessVars, saved, target, flaky, ran>>

\* The goroutine of MakeNetwork() takes the request, until it sees `done'.
Take(c) ==
    /\ stage[c] = "send" /\ serving
    /\ Goto(c, "taken")
    /\ UNCHANGED <<netVars, harnessVars, saved, end, target, flaky, ran>>

Finish ==
    /\ closed /\ serving
    /\ serving' = FALSE
    /\ UNCHANGED <<enabled, servers, reliable, closed, harnessVars, saved, callVars>>

\* Mutant of Destroyed: Call() does not look at `done'.
Destroyed_Ignored(c) == FALSE

\* Call() gives up when the network is destroyed.
Destroyed(c) == stage[c] = "send" /\ closed
GiveUp(c) ==
    /\ Destroyed(c)
    /\ Goto(c, "failed")
    /\ UNCHANGED <<netVars, harnessVars, saved, end, target, flaky, ran>>

\* processReq() up to its reading of the tables, after which it uses copies.
Reachable(c) == end[c] \in enabled /\ servers[To(c)] # None
processReq(c) ==
    /\ stage[c] = "taken"
    /\ IF Reachable(c)
       THEN /\ target' = [target EXCEPT ![c] = servers[To(c)]]
            /\ flaky' = [flaky EXCEPT ![c] = ~reliable]
            /\ Goto(c, "deliver")
       ELSE Goto(c, "timeout") /\ UNCHANGED <<target, flaky>>
    /\ UNCHANGED <<netVars, harnessVars, saved, end, ran>>

\* No reply: an unreachable server, or a lost request.
Timeout(c) ==
    /\ stage[c] = "timeout" \/ (stage[c] = "deliver" /\ flaky[c])
    /\ Goto(c, "failed")
    /\ UNCHANGED <<netVars, harnessVars, saved, end, target, flaky, ran>>

\* The request is handed to a goroutine of its own ...
dispatch(c) ==
    /\ stage[c] = "deliver"
    /\ Goto(c, "wait")
    /\ ran' = [ran EXCEPT ![c] = "running"]
    /\ UNCHANGED <<netVars, harnessVars, saved, end, target, flaky>>

\* ... which runs the handler: it saves what it did in the persister of its peer,
\* killed or not, and that is config.saved unless the harness has superseded it.
Handle(c) ==
    /\ ran[c] = "running"
    /\ ran' = [ran EXCEPT ![c] = "done"]
    /\ saved' = [saved EXCEPT ![To(c)] = @ \cup (IF holder[To(c)] = target[c] THEN {c} ELSE {})]
    /\ UNCHANGED <<netVars, harnessVars, stage, end, target, flaky>>

\* Mutant of isServerDead: that the server was replaced is not noticed.
isServerDead_Enabled(c) == end[c] \notin enabled

isServerDead(c) == end[c] \notin enabled \/ servers[To(c)] # target[c]

\* Mutant of Receive: a reply is passed on before the handler has returned.
Receive_Early(c) ==
    /\ stage[c] = "wait" /\ ran[c] # "no"
    /\ Goto(c, "check")
    /\ UNCHANGED <<netVars, harnessVars, saved, end, target, flaky, ran>>

\* processReq() waits for the handler, and gives up when the server is dead.
Receive(c) ==
    /\ stage[c] = "wait" /\ ran[c] = "done"
    /\ Goto(c, "check")
    /\ UNCHANGED <<netVars, harnessVars, saved, end, target, flaky, ran>>

Poll(c) ==
    /\ stage[c] = "wait" /\ isServerDead(c)
    /\ Goto(c, "failed")
    /\ UNCHANGED <<netVars, harnessVars, saved, end, target, flaky, ran>>

\* A reply of a dead server is replaced by a failure.
CheckReply(c) ==
    /\ stage[c] = "check"
    /\ Goto(c, IF isServerDead(c) THEN "failed" ELSE "reply")
    /\ UNCHANGED <<netVars, harnessVars, saved, end, target, flaky, ran>>

\* The reply is delivered, perhaps after a long delay, or lost.
Reply(c) ==
    /\ stage[c] = "reply"
    /\ \/ Goto(c, "succeeded")
       \/ flaky[c] /\ Goto(c, "failed")
    /\ UNCHANGED <<netVars, harnessVars, saved, end, target, flaky, ran>>

---------------------------------------------------------------------------------
Harness ==
    \/ \E i \in Peer : connect(i)
    \/ \E i \in Peer, operation \in {"disconnect", "crash1", "start1"} :
         disconnect(i, operation)
    \/ \E e \in todo : Enable(e)
    \/ Enabled \/ DeleteServer \/ Copy \/ Make \/ AddServer \/ Reliable \/ Cleanup

Process(c) ==
    \/ Take(c) \/ GiveUp(c) \/ processReq(c) \/ Timeout(c) \/ dispatch(c)
    \/ Receive(c) \/ Poll(c) \/ CheckReply(c) \/ Reply(c)

Next ==
    \/ Harness \/ Finish
    \/ \E c \in Call : Process(c) \/ Handle(c) \/ \E e \in End : Begin(c, e)

Spec == Init /\ [][Next]_vars

---------------------------------------------------------------------------------
(***************************************************************************)
(* Properties                                                               *)
(***************************************************************************)
\* Every variable has its type, the loops over ends are finished before anything
\* else happens, and a request is handed to a server, never to the nil that
\* DeleteServer() leaves in the table.
TypeOK ==
    /\ enabled \subseteq End /\ servers \in [Peer -> Start \cup {None}]
    /\ reliable \in BOOLEAN /\ closed \in BOOLEAN /\ serving \in BOOLEAN
    /\ connected \in [Peer -> BOOLEAN] /\ starts \in [Peer -> Start]
    /\ saved \in [Peer -> SUBSET Call] /\ holder \in [Peer -> Start \cup {None}]
    /\ pc \in {"idle", "enable", "delete", "copy", "make", "add"}
    /\ plan \in {"none", "connect", "disconnect", "crash1", "start1"}
    /\ peer \in Peer /\ todo \subseteq End /\ (todo # {} => pc = "enable")
    /\ stage \in [Call -> {"none", "send", "taken", "timeout", "deliver", "wait",
                           "check", "reply", "succeeded", "failed"}]
    /\ end \in [Call -> End] /\ target \in [Call -> Start \cup {None}]
    /\ flaky \in [Call -> BOOLEAN] /\ ran \in [Call -> {"no", "running", "done"}]
    /\ \A c \in Call : ran[c] = "running" => target[c] # None

\* "this is needed to avoid situation in which a client gets a positive reply to
\* an Append, but the server persisted the update into the old Persister"
\* (processReq): what a successful call has saved survives every later crash1()
\* and start1() of its server.
SuccessIsDurable ==
    \A c \in Call : stage[c] = "succeeded" => c \in saved[To(c)]

\* connect() and disconnect() keep both directions of a link together, and the
\* ends of earlier starts of a peer stay disabled, "so that old crashed instance's
\* ClientEnds can't send" (start1).
EndsFollowConnections ==
    pc = "idle" =>
      enabled = {e \in End : /\ e.start = starts[e.from]
                             /\ connected[e.from] /\ connected[e.to]}

\* A call as its caller sees it.
Seen(c) == IF stage[c] \in {"none", "succeeded", "failed"} THEN stage[c] ELSE "pending"
RC == INSTANCE RemoteCall WITH status <- [c \in Call |-> Seen(c)], handled <- ran

\* "Call() returns true to indicate that the server executed the request and the
\* reply is valid" (labrpc.go), once: the network implements RemoteCall through lost
\* requests and replies, deleted and restarted servers, and its own end.
ImplementsRemoteCall == RC!Spec

---------------------------------------------------------------------------------
(***************************************************************************)
(* Liveness: the goroutines of the network are scheduled.  Nothing is owed by *)
(* the harness and by handlers, which may never return.                      *)
(***************************************************************************)
Fairness == \A c \in Call : WF_vars(Process(c))
FairSpec == Spec /\ Fairness

Returned(c) == stage[c] \in {"succeeded", "failed"}

\* "Call() is guaranteed to return (perhaps after a delay) *except* if the handler
\* function on the server side does not return", also when the network is cleaned
\* up in between.
CallReturns ==
    \A c \in Call : stage[c] # "none" ~> Returned(c) \/ [](ran[c] = "running")

\* A call whose handler does not return is answered when its server is deleted,
\* even when another server of that name is there before processReq() looks again.
DeletedServerAnswers ==
    \A c \in Call : stage[c] = "wait" /\ servers[To(c)] # target[c] ~> Returned(c)
=================================================================================
