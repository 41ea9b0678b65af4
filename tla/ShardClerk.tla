------------------------------- MODULE ShardClerk -------------------------------
(***************************************************************************)
(* The clerks of the sharded store (shardkv/client.go) and of its          *)
(* configuration service (shardmaster/client.go), while the harness        *)
(* (shardkv/config.go) lets groups join and leave and shuts servers down.  *)
(* A clerk looks up the group of a key in the configuration it has, tries  *)
(* the servers of that group in turn and, if none accepts the operation,   *)
(* asks the masters for the latest configuration and starts over.          *)
(*                                                                         *)
(* The handlers of both services are left open in the repository.  Here    *)
(* they are what the clerks and shardmaster/common.go take them to be, and *)
(* external: a leader that owns the shard executes and answers OK, other   *)
(* servers name the reason and execute nothing.  Calls are as in           *)
(* RemoteCall: one that fails may have been executed, or still be.         *)
(***************************************************************************)
EXTENDS Integers, Sequences, FiniteSets

CONSTANTS
    Clerk, Mck,         \* clerks of the store, and the thread of the test with cfg.mck
    Gid,                \* the groups the harness starts
    N, NMasters,        \* servers of a group, and masters
    NShards,            \* 10 in the code
    Key,                \* keys that are used, as sequences of bytes
    MaxOps,             \* bound: operations of a clerk, and of the test
    MaxFaults           \* bound: failed calls, changes of leader and shutdowns

ASSUME ThreadAssumption == Mck \notin Clerk
ASSUME GidAssumption == Gid \subseteq Nat \ {0}
ASSUME SizeAssumption ==
    /\ N \in Nat \ {0} /\ NMasters \in Nat \ {0} /\ NShards \in Nat \ {0}
    /\ MaxOps \in Nat /\ MaxFaults \in Nat
ASSUME KeyAssumption == Key \subseteq Seq(0 .. 255)

Thread == Clerk \cup {Mck}
Op == Thread \X (1 .. MaxOps)
Server == 0 .. N - 1
Master == 0 .. NMasters - 1
None == -1

VARIABLES
    pc,         \* of a thread: idle, top, group, sleep, masters
    issued,     \* how many operations it has begun
    args,       \* of the operation of a thread
    si,         \* loop index of Get, PutAppend, Query, Join, Leave and Move
    config,     \* ck.config
    asked,      \* the number of the latest configuration when Query() was called
    call,       \* Call() of a thread: none, sent, answered
    reply,      \* the reply of an answered call
    configs,    \* of the masters
    mleader, leader, up,    \* leaders, and servers that run
    times,      \* how often an operation was executed
    present,    \* keys that have a value
    late,       \* requests of failed calls whose handlers may still run
    faults,     \* faults so far
    lost        \* history: a call failed that may have been executed

threadVars  == <<pc, issued, args, si, config, asked>>
callVars    == <<call, reply>>
serviceVars == <<configs, mleader, leader, up, times, present, late>>
vars        == <<threadVars, callVars, serviceVars, faults, lost>>

-----------------------------------------------------------------------------------
(* Configurations *)

\* The shard of a key: its first byte modulo the number of shards, 0 if it is empty.
key2shard(key) == IF key = <<>> THEN 0 ELSE key[1] % NShards

Shard == 0 .. NShards - 1
Config == [num : Nat, shards : [Shard -> Gid \cup {0}], groups : SUBSET Gid]

\* Configuration 0: no groups, all shards in group 0.
NoConfig == [num |-> 0, shards |-> [s \in Shard |-> 0], groups |-> {}]

\* A new clerk has the zero value of a configuration.
MakeClerk == NoConfig

NoReply == [err |-> "", config |-> NoConfig]

Latest == configs[Len(configs)]

\* Query(num): "Config # num, or latest config if num==-1".
Selected(num) == IF num = -1 \/ num >= Len(configs) THEN Latest ELSE configs[num + 1]

\* Configurations a change may lead to; how shards are balanced is left open.
Change(a) ==
    LET groups == CASE a.kind = "Join"  -> Latest.groups \cup {a.gid}
                    [] a.kind = "Leave" -> Latest.groups \ {a.gid}
                    [] OTHER            -> Latest.groups
        balanced == IF a.kind = "Move"
                    THEN {[Latest.shards EXCEPT ![a.shard] = a.gid]}
                    ELSE [Shard -> IF groups = {} THEN {0} ELSE groups]
    IN  {[num |-> Len(configs), shards |-> s, groups |-> groups] : s \in balanced}

-----------------------------------------------------------------------------------
(* Operations begin *)

Current(t) == <<t, issued[t]>>

Begin(t, a, start) ==
    /\ pc[t] = "idle" /\ issued[t] < MaxOps
    /\ issued' = [issued EXCEPT ![t] = @ + 1]
    /\ args' = [args EXCEPT ![t] = a]
    /\ pc' = [pc EXCEPT ![t] = start]
    /\ UNCHANGED <<si, config, asked, callVars, serviceVars, faults, lost>>

Request(kind, key, gid, shard) == [kind |-> kind, key |-> key, gid |-> gid, shard |-> shard]

Get(c, key) == Begin(c, Request("Get", key, 0, 0), "top")
PutAppend(c, key) == Begin(c, Request("PutAppend", key, 0, 0), "top")

\* cfg.mck: join() and leave() of the harness, and Move().
Join(g) == g \notin Latest.groups /\ Begin(Mck, Request("Join", <<>>, g, 0), "masters")
Leave(g) == g \in Latest.groups /\ Begin(Mck, Request("Leave", <<>>, g, 0), "masters")
Move(s, g) == g \in Latest.groups /\ Begin(Mck, Request("Move", <<>>, g, s), "masters")

-----------------------------------------------------------------------------------
(* The loops *)

\* The group of the key in the clerk's configuration; a clerk without one that
\* knows the servers of the group goes to the masters.
Gid_Of(c) == config[c].shards[key2shard(args[c].key)]
Top(c) ==
    /\ pc[c] = "top"
    /\ pc' = [pc EXCEPT ![c] = IF Gid_Of(c) \in config[c].groups THEN "group" ELSE "sleep"]
    /\ UNCHANGED <<issued, args, si, config, asked, callVars, serviceVars, faults, lost>>

Size(t) == IF pc[t] = "group" THEN N ELSE NMasters

\* No server is left to try.
Tried(t) == si[t] = Size(t)

Looping(t) == pc[t] \in {"group", "masters"} /\ call[t] = "none"

Call(t) ==
    /\ Looping(t) /\ ~Tried(t)
    /\ call' = [call EXCEPT ![t] = "sent"]
    /\ UNCHANGED <<threadVars, reply, serviceVars, faults, lost>>

\* Mutant of AfterGroup: the masters are not asked again.
AfterGroup_Again == "top"

\* Where Get() and PutAppend() go on after the servers of a group.
AfterGroup == "sleep"

\* The clerk of the masters sleeps and tries them all again.
Exhausted(t) ==
    /\ Looping(t) /\ Tried(t)
    /\ pc' = [pc EXCEPT ![t] = IF @ = "group" THEN AfterGroup ELSE "masters"]
    /\ si' = [si EXCEPT ![t] = 0]
    /\ UNCHANGED <<issued, args, config, asked, callVars, serviceVars, faults, lost>>

\* time.Sleep() is over and Query() is called.
Query(c) ==
    /\ pc[c] = "sleep"
    /\ pc' = [pc EXCEPT ![c] = "masters"]
    /\ asked' = [asked EXCEPT ![c] = Latest.num]
    /\ UNCHANGED <<issued, args, si, config, callVars, serviceVars, faults, lost>>

\* Mutants of Done: any answer will do; a missing key is an error.
Done_Any(a, err) == err # "ErrWrongGroup"
Done_KeyNeeded(a, err) == err = "OK"

\* The answer means that the operation was executed.
Done(a, err) == err = "OK" \/ (a.kind = "Get" /\ err = "ErrNoKey")

\* Mutant of Refreshed: the answer of the masters is dropped.
Refreshed_Not(c) == config[c]

\* ck.config = ck.sm.Query(-1)
Refreshed(c) == reply[c].config

\* The loops with the reply of a call that returned true: the operation returns, ...
Answered(t) ==
    /\ call[t] = "answered"
    /\ call' = [call EXCEPT ![t] = "none"]
    /\ reply' = [reply EXCEPT ![t] = NoReply]
    /\ UNCHANGED <<issued, args, asked, serviceVars, faults, lost>>

Return(t) ==
    /\ Answered(t)
    /\ pc[t] = "masters" => t = Mck
    /\ Done(args[t], reply[t].err)
    /\ pc' = [pc EXCEPT ![t] = "idle"]
    /\ si' = [si EXCEPT ![t] = 0]
    /\ UNCHANGED config

\* ... the clerk has a new configuration, ...
Refresh(c) ==
    /\ Answered(c)
    /\ pc[c] = "masters" /\ reply[c].err = "OK"
    /\ config' = [config EXCEPT ![c] = Refreshed(c)]
    /\ pc' = [pc EXCEPT ![c] = "top"]
    /\ si' = [si EXCEPT ![c] = 0]

\* ... the group is not responsible, or the server is not the leader.
WrongGroup(t) ==
    /\ Answered(t)
    /\ reply[t].err = "ErrWrongGroup"
    /\ pc' = [pc EXCEPT ![t] = AfterGroup]
    /\ si' = [si EXCEPT ![t] = 0]
    /\ UNCHANGED config

WrongLeader(t) ==
    /\ Answered(t)
    /\ pc[t] = "group" => ~Done(args[t], reply[t].err)
    /\ reply[t].err \notin {"OK", "ErrWrongGroup"}
    /\ si' = [si EXCEPT ![t] = @ + 1]
    /\ UNCHANGED <<pc, config>>

-----------------------------------------------------------------------------------
(* The services *)

\* A request as its server sees it.
Sent(t) == [op |-> Current(t), args |-> args[t], at |-> pc[t],
            gid |-> IF pc[t] = "group" THEN Gid_Of(t) ELSE 0, server |-> si[t], tag |-> faults]

Running(r) == IF r.at = "masters" THEN TRUE ELSE r.server \in up[r.gid]

\* What the handler of a request answers.
Err(r) ==
    IF r.at = "masters" THEN IF r.server = mleader THEN "OK" ELSE "ErrWrongLeader"
    ELSE IF r.server # leader[r.gid] THEN "ErrWrongLeader"
    ELSE IF Latest.shards[key2shard(r.args.key)] # r.gid THEN "ErrWrongGroup"
    ELSE IF r.args.kind = "Get" /\ r.args.key \notin present THEN "ErrNoKey"
    ELSE "OK"

\* A query of a clerk of the store is only a part of its operation.
IsQuery(r) == r.at = "masters" /\ r.op[1] # Mck
IsChange(r) == r.at = "masters" /\ r.op[1] = Mck

\* The handler runs: nothing happens unless it is to be executed.
Execute(r) ==
    LET accepted == Err(r) \in {"OK", "ErrNoKey"}
    IN  /\ times' = IF accepted /\ ~IsQuery(r) THEN [times EXCEPT ![r.op] = @ + 1] ELSE times
        /\ present' = IF accepted /\ r.args.kind = "PutAppend" /\ ~IsQuery(r)
                      THEN present \cup {r.args.key} ELSE present
        /\ IF accepted /\ IsChange(r)
           THEN \E new \in Change(r.args) : configs' = Append(configs, new)
           ELSE UNCHANGED configs

Handle(t) ==
    /\ call[t] = "sent" /\ Running(Sent(t))
    /\ Execute(Sent(t))
    /\ call' = [call EXCEPT ![t] = "answered"]
    /\ reply' = [reply EXCEPT ![t] = [err |-> Err(Sent(t)), config |-> Selected(-1)]]
    /\ UNCHANGED <<threadVars, mleader, leader, up, late, faults, lost>>

Fault == faults < MaxFaults /\ faults' = faults + 1

\* Call() returns false: the request or the reply is lost, or the server is not
\* there.  A request that was not handled may be later.
Fail(t) ==
    /\ call[t] # "none"
    /\ call' = [call EXCEPT ![t] = "none"]
    /\ si' = [si EXCEPT ![t] = @ + 1]
    /\ \/ /\ ~Running(Sent(t))
          /\ lost' = (lost \/ call[t] = "answered")
          /\ UNCHANGED <<late, faults>>
       \/ /\ Fault
          /\ lost' = TRUE
          /\ late' = IF call[t] = "sent" /\ ~IsQuery(Sent(t)) THEN late \cup {Sent(t)} ELSE late
    /\ reply' = [reply EXCEPT ![t] = NoReply]
    /\ UNCHANGED <<pc, issued, args, config, asked, configs, mleader, leader, up, times, present>>

HandleLate(r) ==
    /\ r \in late /\ Running(r)
    /\ late' = late \ {r}
    /\ Execute(r)
    /\ UNCHANGED <<threadVars, callVars, mleader, leader, up, faults, lost>>

\* Groups elect leaders; a leader that runs is replaced now and then.
Elect(g) ==
    /\ leader[g] = None
    /\ 2 * Cardinality(up[g]) > N
    /\ \E i \in up[g] : leader' = [leader EXCEPT ![g] = i]
    /\ UNCHANGED <<threadVars, callVars, configs, mleader, up, times, present, late, faults, lost>>

Depose ==
    /\ Fault
    /\ \/ (\E m \in Master : mleader' = m) /\ UNCHANGED leader
       \/ (\E g \in Gid : leader' = [leader EXCEPT ![g] = None]) /\ UNCHANGED mleader
    /\ UNCHANGED <<threadVars, callVars, configs, up, times, present, late, lost>>

\* The test shuts a server down between two of its own operations: the network
\* forgets the server before its persister is copied.
ShutdownServer(g, i) ==
    /\ pc[Mck] = "idle" /\ i \in up[g]
    /\ Fault
    /\ up' = [up EXCEPT ![g] = @ \ {i}]
    /\ leader' = IF leader[g] = i \/ 2 * Cardinality(up'[g]) <= N
                 THEN [leader EXCEPT ![g] = None] ELSE leader
    /\ UNCHANGED <<threadVars, callVars, configs, mleader, times, present, late, lost>>

StartServer(g, i) ==
    /\ pc[Mck] = "idle" /\ i \in Server \ up[g]
    /\ up' = [up EXCEPT ![g] = @ \cup {i}]
    /\ UNCHANGED <<threadVars, callVars, configs, mleader, leader, times, present, late, faults, lost>>

-----------------------------------------------------------------------------------

\* make_config() has started all servers, and makeClient() has made the clerks.
Init ==
    /\ pc = [t \in Thread |-> "idle"] /\ issued = [t \in Thread |-> 0]
    /\ args = [t \in Thread |-> Request("Get", <<>>, 0, 0)]
    /\ si = [t \in Thread |-> 0]
    /\ config = [c \in Clerk |-> MakeClerk] /\ asked = [c \in Clerk |-> 0]
    /\ call = [t \in Thread |-> "none"]
    /\ reply = [t \in Thread |-> NoReply]
    /\ configs = <<NoConfig>>
    /\ mleader = 0 /\ leader = [g \in Gid |-> 0] /\ up = [g \in Gid |-> Server]
    /\ times = [o \in Op |-> 0] /\ present = {} /\ late = {}
    /\ faults = 0 /\ lost = FALSE

Calls ==
    \/ \E c \in Clerk, key \in Key : Get(c, key) \/ PutAppend(c, key)
    \/ \E g \in Gid : Join(g) \/ Leave(g) \/ \E s \in Shard : Move(s, g)

Step(t) ==
    \/ t \in Clerk /\ (Top(t) \/ Query(t) \/ Refresh(t))
    \/ Call(t) \/ Exhausted(t) \/ Return(t) \/ WrongGroup(t) \/ WrongLeader(t)
    \/ Handle(t) \/ Fail(t)

Harness == \E g \in Gid, i \in Server : ShutdownServer(g, i) \/ StartServer(g, i)

Next ==
    \/ Calls \/ (\E t \in Thread : Step(t)) \/ (\E r \in late : HandleLate(r))
    \/ (\E g \in Gid : Elect(g)) \/ Depose \/ Harness

Spec == Init /\ [][Next]_vars

\* Threads run, calls return, and a group with a majority elects a leader.
Fairness == (\A t \in Thread : WF_vars(Step(t))) /\ \A g \in Gid : WF_vars(Elect(g))
FairSpec == Spec /\ Fairness

-----------------------------------------------------------------------------------
(* Properties *)

\* An operation as its caller sees it.
Phase(o) ==
    IF o[2] > issued[o[1]] THEN "new"
    ELSE IF o[2] = issued[o[1]] /\ pc[o[1]] # "idle" THEN "called"
    ELSE "returned"
ALO == INSTANCE AtLeastOnce WITH phase <- [o \in Op |-> Phase(o)], times <- times

\* Get(), PutAppend(), Join(), Leave() and Move() return only when their operation
\* has been executed, across changes of configuration and leader and lost replies.
ImplementsAtLeastOnce == ALO!Spec

\* Trying again is harmless as long as every call that reached a handler was
\* answered: what a clerk then repeats, after ErrWrongGroup, ErrWrongLeader or a
\* server that is down, was not executed.
OnceUnlessLost == ~lost => \A o \in Op : times[o] <= 1

\* The configuration in use is at least as new as every one that existed when the
\* masters were last asked: a clerk that was told ErrWrongGroup does not come back
\* with the configuration that misled it once the masters have a newer one.
ConfigIsFresh ==
    \A c \in Clerk : pc[c] \in {"top", "group"} => config[c].num >= asked[c]

\* The group that is responsible for the key of a clerk's operation has a leader.
Available(c) ==
    LET g == Latest.shards[key2shard(args[c].key)] IN g # 0 /\ leader[g] # None

\* "keeps trying forever in the face of all other errors": an operation does not go
\* on forever while the group responsible for its key has a leader, though shards
\* move and leaders change; and an operation of the test returns.
OperationsReturn ==
    /\ \A c \in Clerk : []<>(pc[c] = "idle" \/ ~Available(c))
    /\ []<>(pc[Mck] = "idle")

=================================================================================
