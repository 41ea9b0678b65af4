------------------------------- MODULE ClerkProofs ------------------------------
(***************************************************************************)
(* Theorems about ShardClerk, for any number of clerks, keys, groups,       *)
(* servers, operations and faults.                                          *)
(***************************************************************************)
EXTENDS ShardClerk, TLAPS

USE ThreadAssumption, SizeAssumption DEF Thread, Op

\* What the loops and the calls of a thread need: an operation that has begun is
\* one of Op, and calls are made in the loops only.
Types ==
    /\ pc \in [Thread -> {"idle", "top", "group", "sleep", "masters"}]
    /\ issued \in [Thread -> 0 .. MaxOps]
    /\ call \in [Thread -> {"none", "sent", "answered"}]
    /\ times \in [Op -> Nat]
    /\ lost \in BOOLEAN
    /\ DOMAIN reply = Thread /\ DOMAIN args = Thread
    /\ \A t \in Thread : pc[t] # "idle" => issued[t] > 0
    /\ \A t \in Thread : call[t] # "none" => pc[t] \in {"group", "masters"}
    /\ \A r \in late : r.op \in Op /\ r.op[2] <= issued[r.op[1]]

\* The call of a thread was answered, and its handler has executed the operation.
Accepted(t) ==
    /\ call[t] = "answered"
    /\ pc[t] = "group" \/ t = Mck
    /\ reply[t].err \in {"OK", "ErrNoKey"}

\* Such an operation was executed, and only a Get() may be answered ErrNoKey.
AnswerInv ==
    \A t \in Thread :
        /\ Accepted(t) => times[Current(t)] > 0
        /\ Accepted(t) /\ reply[t].err = "ErrNoKey" => pc[t] = "group" /\ args[t].kind = "Get"

Inv == Types /\ AnswerInv

\* An operation that has begun and not returned is one of Op.
LEMMA CurrentOp ==
    ASSUME Types, NEW t \in Thread, pc[t] # "idle"
    PROVE  Current(t) \in Op /\ Current(t)[1] = t /\ Current(t)[2] = issued[t]
BY DEF Types, Current

\* Nothing has begun after make_config().
LEMMA InvInit == Init => Inv
<1> SUFFICES ASSUME Init PROVE Inv
  OBVIOUS
<1>1. /\ pc = [t \in Thread |-> "idle"] /\ issued = [t \in Thread |-> 0]
      /\ call = [t \in Thread |-> "none"] /\ times = [o \in Op |-> 0]
      /\ DOMAIN args = Thread /\ DOMAIN reply = Thread
      /\ late = {} /\ lost = FALSE
  BY DEF Init
<1>2. Types
  <2>1. lost \in BOOLEAN
    BY <1>1
  <2>2. times \in [Op -> Nat]
    BY <1>1
  <2>3. issued \in [Thread -> 0 .. MaxOps]
    BY <1>1
  <2>4. \A r \in late : r.op \in Op /\ r.op[2] <= issued[r.op[1]]
    BY <1>1
  <2> QED
    BY <1>1, <2>1, <2>2, <2>3, <2>4 DEF Types
<1>3. AnswerInv
  BY <1>1 DEF AnswerInv, Accepted
<1> QED
  BY <1>2, <1>3 DEF Inv

\* The steps of a thread that are not seen by the caller of its operation, nor by
\* the services.
Quiet(t) ==
    \/ t \in Clerk /\ (Top(t) \/ Query(t) \/ Refresh(t))
    \/ Call(t) \/ Exhausted(t) \/ WrongGroup(t) \/ WrongLeader(t) \/ Fail(t)

\* What they leave alone.
Unseen(t) ==
    /\ issued' = issued /\ times' = times /\ args' = args
    /\ pc' \in [Thread -> {"idle", "top", "group", "sleep", "masters"}]
    /\ call' \in [Thread -> {"none", "sent", "answered"}]
    /\ DOMAIN reply' = Thread
    /\ \A u \in Thread \ {t} : pc'[u] = pc[u] /\ call'[u] = call[u] /\ reply'[u] = reply[u]
    /\ pc[t] # "idle" /\ pc'[t] # "idle"
    /\ call'[t] # "answered"
    /\ call'[t] # "none" => pc'[t] \in {"group", "masters"}
    /\ lost' \in BOOLEAN
    /\ \A r \in late' : r \in late \/ r.op = Current(t)

\* A step of a loop that does not end the operation is unseen.
LEMMA QuietUnseen ==
    ASSUME Types, NEW t \in Thread, Quiet(t)
    PROVE  Unseen(t)
<1> USE DEF Types, Unseen, callVars, serviceVars
<1>1. CASE Top(t)
  BY <1>1 DEF Top
<1>2. CASE Query(t)
  BY <1>2 DEF Query
<1>3. CASE Call(t)
  BY <1>3 DEF Call, Looping, threadVars
<1>4. CASE Exhausted(t)
  BY <1>4 DEF Exhausted, Looping, AfterGroup
<1>5. CASE Refresh(t)
  BY <1>5 DEF Refresh, Answered
<1>6. CASE WrongGroup(t)
  BY <1>6 DEF WrongGroup, Answered, AfterGroup
<1>7. CASE WrongLeader(t)
  BY <1>7 DEF WrongLeader, Answered
<1>8. CASE Fail(t)
  <2>1. \A r \in late' : r \in late \/ r.op = Current(t)
    <3>1. Sent(t).op = Current(t)
      BY DEF Sent
    <3>2. late' = late \/ late' = late \cup {Sent(t)}
      BY <1>8 DEF Fail
    <3> QED
      BY <3>1, <3>2
  <2>2. lost' \in BOOLEAN
    BY <1>8 DEF Fail
  <2> QED
    BY <1>8, <2>1, <2>2 DEF Fail
<1> QED
  BY <1>1, <1>2, <1>3, <1>4, <1>5, <1>6, <1>7, <1>8 DEF Quiet

\* Unseen steps preserve the invariant.
LEMMA UnseenInv ==
    ASSUME Inv, NEW t \in Thread, Unseen(t)
    PROVE  Inv'
<1> USE DEF Inv
<1>1. Types'
  <2>1. \A r \in late' : r.op \in Op /\ r.op[2] <= issued[r.op[1]]
    BY CurrentOp DEF Unseen, Types
  <2> QED
    BY <2>1 DEF Unseen, Types
<1>2. AnswerInv'
  <2> SUFFICES ASSUME NEW u \in Thread, Accepted(u)'
               PROVE  /\ times'[Current(u)'] > 0
                      /\ reply'[u].err = "ErrNoKey" => pc'[u] = "group" /\ args'[u].kind = "Get"
    BY DEF AnswerInv
  <2>1. u # t
    BY DEF Accepted, Unseen
  <2>2. Accepted(u) /\ Current(u)' = Current(u)
    BY <2>1 DEF Accepted, Unseen, Current
  <2> QED
    BY <2>1, <2>2 DEF AnswerInv, Unseen
<1> QED
  BY <1>1, <1>2

\* An operation begins: those of other threads are not concerned.
Begun(t) ==
    /\ pc[t] = "idle" /\ issued[t] < MaxOps
    /\ issued' = [issued EXCEPT ![t] = @ + 1]
    /\ pc' \in {[pc EXCEPT ![t] = "top"], [pc EXCEPT ![t] = "masters"]}
    /\ DOMAIN args' = Thread /\ \A u \in Thread \ {t} : args'[u] = args[u]
    /\ UNCHANGED <<call, reply, times, late, lost>>

\* Calls begins an operation of one thread.
LEMMA CallsBegin ==
    ASSUME Types, Calls
    PROVE  \E t \in Thread : Begun(t)
<1>1. ASSUME NEW t \in Thread, NEW a, NEW start \in {"top", "masters"}, Begin(t, a, start)
      PROVE  Begun(t)
  BY <1>1 DEF Begin, Begun, Types, callVars, serviceVars
<1>2. CASE \E c \in Clerk, key \in Key : Get(c, key) \/ PutAppend(c, key)
  BY <1>1, <1>2 DEF Get, PutAppend
<1>3. CASE \E g \in Gid : Join(g) \/ Leave(g) \/ \E s \in Shard : Move(s, g)
  BY <1>1, <1>3 DEF Join, Leave, Move
<1> QED
  BY <1>2, <1>3 DEF Calls

\* A clerk that begins a call keeps the invariant.
LEMMA BeginInv ==
    ASSUME Inv, NEW t \in Thread, Begun(t)
    PROVE  Inv'
<1> USE DEF Inv
<1>1. /\ pc[t] = "idle" /\ call[t] = "none" /\ issued[t] \in Nat
      /\ issued' = [issued EXCEPT ![t] = @ + 1] /\ issued[t] < MaxOps
      /\ pc' \in {[pc EXCEPT ![t] = "top"], [pc EXCEPT ![t] = "masters"]}
      /\ DOMAIN args' = Thread /\ \A u \in Thread \ {t} : args'[u] = args[u]
      /\ UNCHANGED <<call, reply, times, late, lost>>
  BY DEF Begun, Types
<1>2. Types'
  <2>1. issued' \in [Thread -> 0 .. MaxOps] /\ \A u \in Thread : issued[u] <= issued'[u]
    BY <1>1 DEF Types
  <2>2. \A r \in late : r.op \in Op /\ r.op[2] <= issued'[r.op[1]]
    <3> TAKE r \in late
    <3>1. r.op[1] \in Thread /\ r.op[2] \in 1 .. MaxOps /\ r.op[2] <= issued[r.op[1]] /\ r.op \in Op
      BY DEF Types
    <3> QED
      BY <2>1, <3>1 DEF Types
  <2> QED
    BY <1>1, <2>1, <2>2 DEF Types
<1>3. AnswerInv'
  <2> SUFFICES ASSUME NEW u \in Thread, Accepted(u)'
               PROVE  /\ times'[Current(u)'] > 0
                      /\ reply'[u].err = "ErrNoKey" => pc'[u] = "group" /\ args'[u].kind = "Get"
    BY DEF AnswerInv
  <2>1. u # t
    BY <1>1 DEF Accepted
  <2>2. Accepted(u) /\ Current(u)' = Current(u) /\ pc'[u] = pc[u] /\ args'[u] = args[u]
    BY <1>1, <2>1 DEF Accepted, Current, Types
  <2> QED
    BY <1>1, <2>2 DEF AnswerInv
<1> QED
  BY <1>2, <1>3

\* The operation of a thread returns.
LEMMA ReturnInv ==
    ASSUME Inv, NEW t \in Thread, Return(t)
    PROVE  Inv'
<1> USE DEF Inv
<1>1. /\ pc' = [pc EXCEPT ![t] = "idle"] /\ call' = [call EXCEPT ![t] = "none"]
      /\ reply' = [reply EXCEPT ![t] = NoReply]
      /\ UNCHANGED <<issued, args, times, late, lost>>
  BY DEF Return, Answered, serviceVars
<1>2. Types'
  BY <1>1 DEF Types
<1>3. AnswerInv'
  BY <1>1 DEF AnswerInv, Accepted, Current, Types
<1> QED
  BY <1>2, <1>3

\* What the run of a handler does to the number of executions.
LEMMA ExecuteTimes ==
    ASSUME Types, NEW r, r.op \in Op, Execute(r)
    PROVE  /\ times' = times \/ times' = [times EXCEPT ![r.op] = @ + 1]
           /\ Err(r) \in {"OK", "ErrNoKey"} /\ ~IsQuery(r) => times' = [times EXCEPT ![r.op] = @ + 1]
           /\ ~(Err(r) \in {"OK", "ErrNoKey"} /\ ~IsQuery(r)) => times' = times
           /\ times' \in [Op -> Nat] /\ \A o \in Op : times[o] <= times'[o]
<1>1. /\ times' = times \/ times' = [times EXCEPT ![r.op] = @ + 1]
      /\ Err(r) \in {"OK", "ErrNoKey"} /\ ~IsQuery(r) => times' = [times EXCEPT ![r.op] = @ + 1]
      /\ ~(Err(r) \in {"OK", "ErrNoKey"} /\ ~IsQuery(r)) => times' = times
  BY DEF Execute
<1> QED
  BY <1>1 DEF Types

\* A handler runs while its call waits.
LEMMA HandleInv ==
    ASSUME Inv, NEW t \in Thread, Handle(t)
    PROVE  Inv'
<1> USE DEF Inv
<1> DEFINE r == Sent(t)
<1>1. pc[t] \in {"group", "masters"} /\ r.op = Current(t) /\ r.op \in Op /\ r.at = pc[t]
      /\ r.args = args[t] /\ r.op[1] = t
  BY CurrentOp DEF Handle, Types, Sent
<1>2. /\ call' = [call EXCEPT ![t] = "answered"] /\ Execute(r)
      /\ reply' = [reply EXCEPT ![t] = [err |-> Err(r), config |-> Selected(-1)]]
      /\ UNCHANGED <<pc, issued, args, late, lost>>
  BY DEF Handle, threadVars
<1> HIDE DEF r
<1>3. /\ Err(r) \in {"OK", "ErrNoKey"} /\ ~IsQuery(r) => times' = [times EXCEPT ![r.op] = @ + 1]
      /\ times' \in [Op -> Nat] /\ \A o \in Op : times[o] <= times'[o]
  BY <1>1, <1>2, ExecuteTimes
<1>4. Types'
  BY <1>1, <1>2, <1>3 DEF Types
<1>5. AnswerInv'
  <2> SUFFICES ASSUME NEW u \in Thread, Accepted(u)'
               PROVE  /\ times'[Current(u)'] > 0
                      /\ reply'[u].err = "ErrNoKey" => pc'[u] = "group" /\ args'[u].kind = "Get"
    BY DEF AnswerInv
  <2>1. Current(u)' = Current(u)
    BY <1>2 DEF Current
  <2>2. CASE u = t
    <3>1. reply'[t].err = Err(r) /\ Err(r) \in {"OK", "ErrNoKey"}
      BY <1>2, <2>2 DEF Accepted, Types
    <3>2. ~IsQuery(r)
      BY <1>1, <1>2, <2>2 DEF Accepted, IsQuery
    <3>3. times'[r.op] > 0
      BY <1>1, <1>3, <3>1, <3>2 DEF Types
    <3>4. Err(r) = "ErrNoKey" => r.at # "masters" /\ r.args.kind = "Get"
      BY DEF Err
    <3> QED
      BY <1>1, <1>2, <2>1, <2>2, <3>1, <3>3, <3>4
  <2>3. CASE u # t
    <3>1. Accepted(u) /\ reply'[u] = reply[u]
      BY <1>2, <2>3 DEF Accepted, Types
    <3>2. Current(u) \in Op
      BY <3>1, CurrentOp DEF Accepted, Types
    <3>3. times'[Current(u)] > 0
      BY <1>3, <3>1, <3>2 DEF AnswerInv, Types
    <3> QED
      BY <1>2, <2>1, <3>1, <3>3 DEF AnswerInv
  <2> QED
    BY <2>2, <2>3
<1> QED
  BY <1>4, <1>5

\* A handler runs whose call has failed.
LEMMA HandleLateInv ==
    ASSUME Inv, NEW r \in late, HandleLate(r)
    PROVE  Inv'
<1> USE DEF Inv
<1>1. UNCHANGED <<pc, issued, args, call, reply, lost>> /\ late' = late \ {r} /\ Execute(r)
  BY DEF HandleLate, threadVars, callVars
<1>2. r.op \in Op
  BY DEF Types
<1>3. times' \in [Op -> Nat] /\ \A o \in Op : times[o] <= times'[o]
  BY <1>1, <1>2, ExecuteTimes
<1>4. Types'
  BY <1>1, <1>3 DEF Types
<1>5. AnswerInv'
  <2> SUFFICES ASSUME NEW u \in Thread, Accepted(u)
               PROVE  times'[Current(u)] > 0
    BY <1>1 DEF AnswerInv, Accepted, Current
  <2>1. Current(u) \in Op
    BY CurrentOp DEF Accepted, Types
  <2> QED
    BY <1>3, <2>1 DEF AnswerInv, Types
<1> QED
  BY <1>4, <1>5

\* Elections and the tests that start and stop servers leave the clerks alone.
Kept == <<pc, issued, args, call, reply, times, late, lost>>

\* Elections and the harness leave alone what the invariant is about.
LEMMA HarnessKeeps ==
    ASSUME (\E g \in Gid : Elect(g)) \/ Depose \/ Harness \/ UNCHANGED vars
    PROVE  UNCHANGED Kept
BY DEF Elect, Depose, Harness, ShutdownServer, StartServer, vars, threadVars, callVars,
       serviceVars, Kept

\* What a step may be.
LEMMA NextCases ==
    ASSUME Types, [Next]_vars
    PROVE  \/ \E t \in Thread : Begun(t) \/ Quiet(t) \/ Return(t) \/ Handle(t)
           \/ \E r \in late : HandleLate(r)
           \/ UNCHANGED Kept
BY CallsBegin, HarnessKeeps DEF Next, Step, Quiet

\* Every step keeps the invariant.
LEMMA InvStep == Inv /\ [Next]_vars => Inv'
<1> SUFFICES ASSUME Inv, [Next]_vars PROVE Inv'
  OBVIOUS
<1>1. CASE UNCHANGED Kept
  BY <1>1 DEF Kept, Inv, Types, AnswerInv, Accepted, Current
<1> QED
  BY <1>1, NextCases, BeginInv, QuietUnseen, UnseenInv, ReturnInv, HandleInv, HandleLateInv DEF Inv

-----------------------------------------------------------------------------------
(* Refinement *)

\* A step is a step of AtLeastOnce, or its caller and the services do not see it.
LEMMA StepSeen ==
    ASSUME Inv, [Next]_vars
    PROVE  [ALO!Next]_<<[o \in Op |-> Phase(o)], times>>
<1> DEFINE phase == [o \in Op |-> Phase(o)]
<1> USE DEF Inv
<1>1. ASSUME UNCHANGED <<pc, issued>> PROVE phase' = phase
  BY <1>1 DEF Phase
<1>2. ASSUME NEW t \in Thread, Begun(t) PROVE \E o \in Op : ALO!Invoke(o)
  <2> DEFINE o == <<t, issued[t] + 1>>
  <2>1. o \in Op /\ phase[o] = "new" /\ times' = times
    BY <1>2 DEF Begun, Types, Phase
  <2>2. phase' = [phase EXCEPT ![o] = "called"]
    <3> SUFFICES ASSUME NEW p \in Op
                 PROVE  Phase(p)' = IF p = o THEN "called" ELSE Phase(p)
      BY <2>1
    <3> QED
      BY <1>2 DEF Begun, Types, Phase
  <2> QED
    BY <2>1, <2>2 DEF ALO!Invoke
<1>3. ASSUME NEW t \in Thread, Quiet(t) PROVE UNCHANGED <<phase, times>>
  <2>1. Unseen(t)
    BY <1>3, QuietUnseen
  <2>2. ASSUME NEW p \in Op PROVE Phase(p)' = Phase(p)
    BY <2>1 DEF Unseen, Phase
  <2> QED
    BY <2>1, <2>2 DEF Unseen
<1>4. ASSUME NEW t \in Thread, Return(t) PROVE \E o \in Op : ALO!Return(o)
  <2> DEFINE o == Current(t)
  <2>1. Accepted(t) /\ pc[t] # "idle"
    BY <1>4 DEF Return, Answered, Done, Accepted, Types
  <2>2. o \in Op /\ o[1] = t /\ o[2] = issued[t] /\ times[o] > 0
    BY <2>1, CurrentOp DEF AnswerInv
  <2>3. phase[o] = "called"
    BY <2>1, <2>2 DEF Phase, Types
  <2>4. phase' = [phase EXCEPT ![o] = "returned"]
    <3> SUFFICES ASSUME NEW p \in Op
                 PROVE  Phase(p)' = IF p = o THEN "returned" ELSE Phase(p)
      BY <2>2
    <3>1. issued' = issued /\ pc' = [pc EXCEPT ![t] = "idle"]
      BY <1>4 DEF Return, Answered
    <3>2. p = o <=> p[1] = t /\ p[2] = issued[t]
      BY DEF Current
    <3> QED
      BY <2>1, <3>1, <3>2 DEF Phase, Types
  <2>5. times' = times
    BY <1>4 DEF Return, Answered, serviceVars
  <2> QED
    BY <2>2, <2>3, <2>4, <2>5 DEF ALO!Return
<1>5. ASSUME NEW r, r.op \in Op, phase[r.op] # "new", Execute(r), UNCHANGED <<pc, issued>>
      PROVE  [ALO!Next]_<<phase, times>>
  BY <1>1, <1>5, ExecuteTimes DEF ALO!Next, ALO!Execute
<1>6. ASSUME NEW t \in Thread, Handle(t) PROVE [ALO!Next]_<<phase, times>>
  <2>1. pc[t] # "idle"
    BY <1>6 DEF Handle, Types
  <2>2. Sent(t).op \in Op /\ phase[Sent(t).op] # "new"
    BY <2>1, CurrentOp DEF Sent, Phase, Types
  <2> QED
    BY <1>5, <1>6, <2>2 DEF Handle, threadVars
<1>7. ASSUME NEW r \in late, HandleLate(r) PROVE [ALO!Next]_<<phase, times>>
  <2>1. r.op \in Op /\ phase[r.op] # "new"
    BY DEF Types, Phase
  <2> QED
    BY <1>5, <1>7, <2>1 DEF HandleLate, threadVars
<1>8. ASSUME UNCHANGED Kept PROVE UNCHANGED <<phase, times>>
  BY <1>1, <1>8 DEF Kept
<1> HIDE DEF phase
<1>9. [ALO!Next]_<<phase, times>>
  BY <1>2, <1>3, <1>4, <1>6, <1>7, <1>8, NextCases DEF ALO!Next
<1> QED
  BY <1>9 DEF phase

\* Get(), PutAppend(), Join(), Leave() and Move() return only when the service has
\* executed their operation, whatever is lost, delayed, moved or restarted between.
THEOREM ClerksAreAtLeastOnce == Spec => ImplementsAtLeastOnce
<1>1. Init => ALO!Init
  BY DEF Init, ALO!Init, Phase
<1>2. Inv /\ [Next]_vars => [ALO!Next]_<<[o \in Op |-> Phase(o)], times>>
  BY StepSeen
<1>3. Spec => []Inv
  BY InvInit, InvStep, PTL DEF Spec
<1> QED
  BY <1>1, <1>2, <1>3, PTL DEF Spec, ImplementsAtLeastOnce, ALO!Spec

-----------------------------------------------------------------------------------
(* Executed once *)

\* Without a lost reply or a delayed request, the operation of a loop that has not
\* got its answer has not been executed: trying again cannot execute it twice.
OnceInv ==
    ~lost =>
        /\ late = {}
        /\ \A o \in Op : times[o] <= 1 /\ (o[2] > issued[o[1]] => times[o] = 0)
        /\ \A t \in Thread : pc[t] # "idle" /\ ~Accepted(t) => times[Current(t)] = 0

\* A clerk that tries again has no answer that says its operation was executed,
\* unless the answer was lost.
LEMMA RetryIsHarmless ==
    ASSUME Inv, NEW t \in Thread, Quiet(t), ~lost'
    PROVE  ~lost /\ ~Accepted(t) /\ late' = late
<1> USE DEF Inv
<1>1. CASE t \in Clerk /\ (Top(t) \/ Query(t))
  BY <1>1 DEF Top, Query, Accepted, Types, serviceVars
<1>2. CASE t \in Clerk /\ Refresh(t)
  BY <1>2 DEF Refresh, Answered, Accepted, serviceVars
<1>3. CASE Call(t) \/ Exhausted(t)
  <2>1. call[t] = "none" /\ lost' = lost /\ late' = late
    BY <1>3 DEF Call, Exhausted, Looping, serviceVars
  <2> QED
    BY <2>1 DEF Accepted
<1>4. CASE WrongGroup(t)
  BY <1>4 DEF WrongGroup, Answered, Accepted, serviceVars
<1>5. CASE WrongLeader(t)
  BY <1>5 DEF WrongLeader, Answered, Accepted, AnswerInv, Done, serviceVars
<1>6. CASE Fail(t)
  <2>1. lost' = (lost \/ call[t] = "answered") /\ late' = late
    BY <1>6 DEF Fail
  <2> QED
    BY <2>1 DEF Accepted
<1> QED
  BY <1>1, <1>2, <1>3, <1>4, <1>5, <1>6 DEF Quiet

\* Every step keeps the record of what was applied.
LEMMA OnceStep ==
    ASSUME Inv, OnceInv, [Next]_vars
    PROVE  OnceInv'
<1> SUFFICES ASSUME ~lost' PROVE OnceInv'
  BY DEF OnceInv
<1> USE DEF Inv
<1>1. ASSUME NEW t \in Thread, Begun(t) PROVE OnceInv'
  <2>1. /\ ~lost /\ late' = {} /\ times' = times /\ call[t] = "none"
        /\ call' = call /\ reply' = reply
        /\ issued' = [issued EXCEPT ![t] = @ + 1] /\ issued[t] \in Nat
        /\ issued[t] + 1 \in 1 .. MaxOps
    BY <1>1 DEF Begun, OnceInv, Types
  <2>2. \A o \in Op : times'[o] <= 1 /\ (o[2] > issued'[o[1]] => times'[o] = 0)
    <3> TAKE o \in Op
    <3>1. o[1] \in Thread /\ o[2] \in Nat /\ issued[o[1]] \in Nat
      BY DEF Types
    <3>2. o[2] > issued'[o[1]] => o[2] > issued[o[1]]
      BY <2>1, <3>1 DEF Types
    <3> HIDE DEF Op
    <3> QED
      BY <2>1, <3>2 DEF OnceInv
  <2>3. ASSUME NEW u \in Thread, pc'[u] # "idle", ~Accepted(u)' PROVE times'[Current(u)'] = 0
    <3>1. CASE u = t
      <4>1. <<t, issued[t] + 1>> \in Op /\ Current(t)' = <<t, issued[t] + 1>>
        BY <2>1 DEF Current, Types
      <4>2. <<t, issued[t] + 1>>[1] = t /\ <<t, issued[t] + 1>>[2] > issued[t]
        BY <2>1
      <4> HIDE DEF Op
      <4>3. times[<<t, issued[t] + 1>>] = 0
        BY <2>1, <4>1, <4>2 DEF OnceInv
      <4> QED
        BY <2>1, <3>1, <4>1, <4>3
    <3>2. CASE u # t
      <4>1. pc'[u] = pc[u] /\ Current(u)' = Current(u)
        BY <1>1, <3>2 DEF Begun, Current, Types
      <4>2. ~Accepted(u)
        BY <2>1, <2>3, <4>1 DEF Accepted
      <4> QED
        BY <2>1, <2>3, <4>1, <4>2 DEF OnceInv
    <3> QED
      BY <3>1, <3>2
  <2> QED
    BY <2>1, <2>2, <2>3 DEF OnceInv
<1>2. ASSUME NEW t \in Thread, Quiet(t) PROVE OnceInv'
  <2>1. Unseen(t) /\ ~lost /\ ~Accepted(t) /\ late' = late
    BY <1>2, QuietUnseen, RetryIsHarmless
  <2>2. ASSUME NEW u \in Thread, pc'[u] # "idle", ~Accepted(u)' PROVE times'[Current(u)'] = 0
    <3>1. pc[u] # "idle" /\ ~Accepted(u) /\ Current(u)' = Current(u) /\ times' = times
      BY <2>1, <2>2 DEF Unseen, Accepted, Current
    <3> QED
      BY <2>1, <3>1 DEF OnceInv
  <2> QED
    BY <2>1, <2>2 DEF OnceInv, Unseen
<1>3. ASSUME NEW t \in Thread, Return(t) PROVE OnceInv'
  <2>1. /\ pc' = [pc EXCEPT ![t] = "idle"] /\ call' = [call EXCEPT ![t] = "none"]
        /\ reply' = [reply EXCEPT ![t] = NoReply]
        /\ UNCHANGED <<issued, times, late, lost>>
    BY <1>3 DEF Return, Answered, serviceVars
  <2>2. ASSUME NEW u \in Thread, pc'[u] # "idle", ~Accepted(u)' PROVE times'[Current(u)'] = 0
    <3>1. pc[u] # "idle" /\ ~Accepted(u) /\ Current(u)' = Current(u)
      BY <2>1, <2>2 DEF Types, Accepted, Current
    <3> QED
      BY <2>1, <3>1 DEF OnceInv
  <2> QED
    BY <2>1, <2>2 DEF OnceInv
<1>4. ASSUME NEW t \in Thread, Handle(t) PROVE OnceInv'
  <2> DEFINE r == Sent(t)
              ex == Err(r) \in {"OK", "ErrNoKey"} /\ ~IsQuery(r)
  <2>1. pc[t] \in {"group", "masters"} /\ r.op = Current(t) /\ r.op \in Op /\ r.at = pc[t]
        /\ r.op[1] = t /\ r.op[2] = issued[t] /\ issued[t] \in Nat
    <3>1. pc[t] \in {"group", "masters"} /\ issued[t] \in Nat
      BY <1>4 DEF Handle, Types
    <3>2. r.op = Current(t) /\ r.at = pc[t]
      BY DEF Sent
    <3> HIDE DEF r
    <3> QED
      BY <3>1, <3>2, CurrentOp
  <2>2. /\ call[t] = "sent" /\ call' = [call EXCEPT ![t] = "answered"] /\ Execute(r)
        /\ reply' = [reply EXCEPT ![t] = [err |-> Err(r), config |-> Selected(-1)]]
        /\ UNCHANGED <<pc, issued, late, lost>>
    BY <1>4 DEF Handle, threadVars
  <2> HIDE DEF r
  <2>3. (ex => times' = [times EXCEPT ![r.op] = @ + 1]) /\ (~ex => times' = times)
    BY <2>1, <2>2, ExecuteTimes
  <2>4. ~lost /\ times[r.op] = 0
    BY <2>1, <2>2 DEF OnceInv, Accepted
  <2>5. \A o \in Op : times'[o] <= 1 /\ (o[2] > issued'[o[1]] => times'[o] = 0)
    <3> TAKE o \in Op
    <3>1. o = r.op => ~(o[2] > issued[o[1]])
      BY <2>1
    <3>2. times \in [Op -> Nat]
      BY DEF Types
    <3> HIDE DEF Op, ex
    <3>3. CASE o = r.op
      <4>1. times'[o] \in {0, 1}
        BY <2>1, <2>3, <2>4, <3>2, <3>3
      <4>2. ~(o[2] > issued'[o[1]])
        BY <2>2, <3>1, <3>3
      <4> QED
        BY <4>1, <4>2
    <3>4. CASE o # r.op
      <4>1. times'[o] = times[o]
        BY <2>1, <2>3, <3>2, <3>4
      <4> QED
        BY <2>2, <2>4, <4>1 DEF OnceInv
    <3> QED
      BY <3>3, <3>4
  <2>6. Accepted(t)' <=> ex
    BY <2>1, <2>2 DEF Accepted, IsQuery, Types
  <2> HIDE DEF ex
  <2>7. ASSUME NEW u \in Thread, pc'[u] # "idle", ~Accepted(u)' PROVE times'[Current(u)'] = 0
    <3>1. Current(u)' = Current(u) /\ Current(u) \in Op /\ Current(u)[1] = u
      BY <2>2, <2>7, CurrentOp DEF Current
    <3>2. CASE u = t
      BY <2>1, <2>3, <2>4, <2>6, <2>7, <3>1, <3>2
    <3>3. CASE u # t
      <4>1. ~Accepted(u) /\ pc[u] # "idle"
        BY <2>2, <2>7, <3>3 DEF Accepted, Types
      <4>2. times'[Current(u)] = times[Current(u)]
        BY <2>1, <2>3, <3>1, <3>3 DEF Types
      <4> QED
        BY <2>4, <3>1, <4>1, <4>2 DEF OnceInv
    <3> QED
      BY <3>2, <3>3
  <2> QED
    BY <2>2, <2>4, <2>5, <2>7 DEF OnceInv
<1>5. ASSUME NEW r \in late, HandleLate(r) PROVE OnceInv'
  BY <1>5 DEF HandleLate, OnceInv
<1>6. ASSUME UNCHANGED Kept PROVE OnceInv'
  BY <1>6 DEF Kept, OnceInv, Accepted, Current
<1> QED
  BY <1>1, <1>2, <1>3, <1>4, <1>5, <1>6, NextCases

\* As long as every call that reached a handler was answered, no operation is
\* executed twice, however often the loops try again.
THEOREM ExecutedOnce == Spec => []OnceUnlessLost
<1>1. Init => OnceInv
  <2>1. Init => /\ pc = [t \in Thread |-> "idle"] /\ times = [o \in Op |-> 0] /\ late = {}
    BY DEF Init
  <2> HIDE DEF Op
  <2> QED
    BY <2>1 DEF OnceInv
<1>2. Inv /\ OnceInv /\ [Next]_vars => OnceInv'
  BY OnceStep
<1>3. OnceInv => OnceUnlessLost
  BY DEF OnceInv, OnceUnlessLost
<1> QED
  BY <1>1, <1>2, <1>3, InvInit, InvStep, PTL DEF Spec
-----------------------------------------------------------------------------------
(* Configurations *)

\* A clerk has been given a configuration no older than the latest one at the time
\* it asked, and than the one it had.
Fresh(c) ==
    /\ asked[c] \in Nat /\ asked[c] <= Latest.num
    /\ config[c].num \in Nat /\ config[c].num <= Latest.num
    /\ pc[c] \in {"idle", "top", "group"} => config[c].num >= asked[c]
    /\ pc[c] = "masters" /\ call[c] = "answered" =>
        /\ reply[c].config.num \in Nat /\ reply[c].config.num <= Latest.num
        /\ reply[c].config.num >= asked[c] /\ reply[c].config.num >= config[c].num

\* The masters number their configurations one by one.
Numbered ==
    /\ \E S : configs \in Seq(S)
    /\ Len(configs) \in Nat \ {0} /\ Latest.num = Len(configs) - 1

FreshInv ==
    /\ Numbered
    /\ DOMAIN config = Clerk /\ DOMAIN asked = Clerk
    /\ \A c \in Clerk : Fresh(c)

\* A clerk never goes back to an older configuration.
Forward == \A c \in Clerk : config'[c].num >= config[c].num

\* Handlers only add configurations.
LEMMA ExecuteConfigs ==
    ASSUME Numbered, NEW r, Execute(r)
    PROVE  Numbered' /\ Latest.num \in Nat /\ Latest'.num \in Nat /\ Latest.num <= Latest'.num
<1>1. PICK S : configs \in Seq(S)
  BY DEF Numbered
<1>2. CASE configs' = configs
  BY <1>2 DEF Numbered, Latest
<1>3. CASE \E new \in Change(r.args) : configs' = Append(configs, new)
  <2>1. PICK new \in Change(r.args) : configs' = Append(configs, new)
    BY <1>3
  <2>2. new.num = Len(configs)
    BY <2>1 DEF Change
  <2>3. configs \in Seq(S \cup {new}) /\ new \in S \cup {new}
    BY <1>1
  <2>4. /\ configs' \in Seq(S \cup {new}) /\ Len(configs') = Len(configs) + 1
        /\ configs'[Len(configs) + 1] = new
    BY <2>1, <2>3
  <2>5. Latest'.num = Len(configs)
    BY <2>2, <2>4 DEF Latest
  <2> QED
    BY <2>4, <2>5 DEF Numbered
<1> QED
  BY <1>2, <1>3 DEF Execute

\* Steps at which the masters add nothing and the other clerks do nothing.
Local(t) ==
    /\ configs' = configs /\ DOMAIN config' = Clerk /\ DOMAIN asked' = Clerk
    /\ \A c \in Clerk \ {t} : /\ pc'[c] = pc[c] /\ call'[c] = call[c] /\ reply'[c] = reply[c]
                              /\ config'[c] = config[c] /\ asked'[c] = asked[c]

\* Steps that leave the configurations alone keep them fresh.
LEMMA LocalFresh ==
    ASSUME FreshInv, NEW t, Local(t), t \in Clerk => Fresh(t)' /\ config'[t].num >= config[t].num
    PROVE  FreshInv' /\ Forward
<1>1. Numbered' /\ Latest' = Latest
  BY DEF FreshInv, Numbered, Local, Latest
<1>2. ASSUME NEW c \in Clerk, c # t PROVE Fresh(c)' /\ config'[c].num >= config[c].num
  BY <1>1, <1>2 DEF FreshInv, Fresh, Local
<1> QED
  BY <1>1, <1>2 DEF FreshInv, Forward, Local

\* Every step keeps the configurations fresh.
LEMMA FreshStep ==
    ASSUME Inv, FreshInv, [Next]_vars
    PROVE  FreshInv' /\ Forward
<1> USE DEF Inv
<1>1. ASSUME NEW t \in Thread, NEW a, NEW start, Begin(t, a, start), t \in Clerk => start = "top"
      PROVE  FreshInv' /\ Forward
  <2>1. Local(t)
    BY <1>1 DEF Begin, Local, FreshInv, Types, callVars, serviceVars
  <2>2. t \in Clerk => Fresh(t)' /\ config'[t].num >= config[t].num
    BY <1>1 DEF Begin, FreshInv, Fresh, Types, callVars, serviceVars, Latest
  <2> QED
    BY <2>1, <2>2, LocalFresh
<1>2. ASSUME NEW t \in Thread, t \in Clerk, Top(t) PROVE FreshInv' /\ Forward
  <2>1. Local(t)
    BY <1>2 DEF Top, Local, FreshInv, Types, callVars, serviceVars
  <2>2. Fresh(t)' /\ config'[t].num >= config[t].num
    BY <1>2 DEF Top, FreshInv, Fresh, Types, callVars, serviceVars, Latest
  <2> QED
    BY <2>1, <2>2, LocalFresh
<1>3. ASSUME NEW t \in Thread, t \in Clerk, Query(t) PROVE FreshInv' /\ Forward
  <2>1. Local(t)
    BY <1>3 DEF Query, Local, FreshInv, Types, callVars, serviceVars
  <2>2. Latest.num \in Nat /\ Latest' = Latest
    BY <1>3 DEF FreshInv, Numbered, Query, Latest, serviceVars
  <2>3. Fresh(t)' /\ config'[t].num >= config[t].num
    BY <1>3, <2>2 DEF Query, FreshInv, Fresh, Types, callVars
  <2> QED
    BY <2>1, <2>3, LocalFresh
<1>4. ASSUME NEW t \in Thread, t \in Clerk, Refresh(t) PROVE FreshInv' /\ Forward
  <2>1. Local(t)
    BY <1>4 DEF Refresh, Answered, Local, FreshInv, Types, serviceVars
  <2>2. Fresh(t)' /\ config'[t].num >= config[t].num
    BY <1>4 DEF Refresh, Refreshed, Answered, FreshInv, Fresh, Types, serviceVars, Latest
  <2> QED
    BY <2>1, <2>2, LocalFresh
<1>5. ASSUME NEW t \in Thread, Call(t) \/ Exhausted(t) PROVE FreshInv' /\ Forward
  <2>1. Local(t)
    BY <1>5 DEF Call, Exhausted, Local, FreshInv, Types, threadVars, callVars, serviceVars
  <2>2. t \in Clerk => Fresh(t)' /\ config'[t].num >= config[t].num
    BY <1>5 DEF Call, Exhausted, Looping, AfterGroup, FreshInv, Fresh, Types, threadVars, callVars,
                serviceVars, Latest
  <2> QED
    BY <2>1, <2>2, LocalFresh
<1>6. ASSUME NEW t \in Thread, Return(t) \/ WrongGroup(t) \/ WrongLeader(t)
      PROVE  FreshInv' /\ Forward
  <2>1. Local(t)
    BY <1>6 DEF Return, WrongGroup, WrongLeader, Answered, Local, FreshInv, Types, serviceVars
  <2>2. /\ config' = config /\ asked' = asked /\ configs' = configs /\ call'[t] = "none"
        /\ pc' = [pc EXCEPT ![t] = "sleep"] \/ (pc[t] \in {"group", "masters"} /\ pc' = pc)
           \/ (pc' = [pc EXCEPT ![t] = "idle"] /\ (t \in Clerk => pc[t] = "group"))
    BY <1>6 DEF Return, WrongGroup, WrongLeader, AfterGroup, Answered, Types, serviceVars
  <2>3. t \in Clerk => Fresh(t)' /\ config'[t].num >= config[t].num
    BY <2>2 DEF FreshInv, Fresh, Types, Latest
  <2> QED
    BY <2>1, <2>3, LocalFresh
<1>7. ASSUME NEW t \in Thread, Fail(t) PROVE FreshInv' /\ Forward
  <2>1. Local(t)
    BY <1>7 DEF Fail, Local, FreshInv, Types
  <2>2. UNCHANGED <<pc, config, asked, configs>> /\ call'[t] = "none"
    BY <1>7 DEF Fail, Types
  <2>3. t \in Clerk => Fresh(t)' /\ config'[t].num >= config[t].num
    BY <2>2 DEF FreshInv, Fresh, Types, Latest
  <2> QED
    BY <2>1, <2>3, LocalFresh
<1>8. ASSUME NEW r, Execute(r), UNCHANGED <<pc, config, asked>>,
             \A c \in Clerk : pc[c] = "masters" /\ call'[c] = "answered" =>
                 \/ call[c] = "answered" /\ reply'[c] = reply[c]
                 \/ reply'[c].config = Latest
      PROVE  FreshInv' /\ Forward
  <2>1. Numbered' /\ Latest.num \in Nat /\ Latest'.num \in Nat /\ Latest.num <= Latest'.num
    BY <1>8, ExecuteConfigs DEF FreshInv
  <2>2. ASSUME NEW c \in Clerk PROVE Fresh(c)' /\ config'[c].num >= config[c].num
    BY <1>8, <2>1 DEF FreshInv, Fresh
  <2> QED
    BY <1>8, <2>1, <2>2 DEF FreshInv, Forward
<1>9. ASSUME NEW t \in Thread, Handle(t) PROVE FreshInv' /\ Forward
  <2>1. Execute(Sent(t)) /\ UNCHANGED <<pc, config, asked>>
    BY <1>9 DEF Handle, threadVars
  <2>2. \A c \in Clerk : call'[c] = "answered" =>
            (call[c] = "answered" /\ reply'[c] = reply[c]) \/ reply'[c].config = Latest
    BY <1>9 DEF Handle, Selected, Types
  <2> QED
    BY <1>8, <2>1, <2>2
<1>10. ASSUME NEW r \in late, HandleLate(r) PROVE FreshInv' /\ Forward
  BY <1>8, <1>10 DEF HandleLate, threadVars, callVars
<1>11. ASSUME UNCHANGED <<pc, config, asked, call, reply, configs>> PROVE FreshInv' /\ Forward
  BY <1>11 DEF FreshInv, Numbered, Fresh, Latest, Forward
<1>12. (\E g \in Gid : Elect(g)) \/ Depose \/ Harness \/ UNCHANGED vars =>
           UNCHANGED <<pc, config, asked, call, reply, configs>>
  BY DEF Elect, Depose, Harness, ShutdownServer, StartServer, vars, threadVars, callVars, serviceVars
<1>13. CASE Calls
  BY <1>1, <1>13 DEF Calls, Get, PutAppend, Join, Leave, Move
<1> QED
  BY <1>2, <1>3, <1>4, <1>5, <1>6, <1>7, <1>9, <1>10, <1>11, <1>12, <1>13 DEF Next, Step

\* The configurations are fresh at the start.
LEMMA FreshInit == Init => FreshInv
<1> SUFFICES ASSUME Init PROVE FreshInv
  OBVIOUS
<1>1. configs = <<NoConfig>> /\ config = [c \in Clerk |-> NoConfig] /\ asked = [c \in Clerk |-> 0]
      /\ call = [t \in Thread |-> "none"] /\ NoConfig.num = 0
  BY DEF Init, MakeClerk, NoConfig
<1>2. configs \in Seq({NoConfig}) /\ Len(configs) = 1 /\ Latest = NoConfig
  BY <1>1 DEF Latest
<1>3. Numbered
  <2>1. \E S : configs \in Seq(S)
    BY <1>2
  <2> QED
    BY <1>1, <1>2, <2>1 DEF Numbered
<1>4. \A c \in Clerk : Fresh(c)
  BY <1>1, <1>2 DEF Fresh
<1> QED
  BY <1>1, <1>3, <1>4 DEF FreshInv

\* After every Query() of the masters a clerk works with a configuration at least as
\* new as every one that existed when it asked.
THEOREM ConfigsAreFresh == Spec => []ConfigIsFresh
<1>1. Inv /\ FreshInv /\ [Next]_vars => FreshInv'
  BY FreshStep
<1>2. FreshInv => ConfigIsFresh
  BY DEF FreshInv, Fresh, ConfigIsFresh
<1> QED
  BY <1>1, <1>2, FreshInit, InvInit, InvStep, PTL DEF Spec

\* ck.config only advances: a clerk never replaces its configuration by an older one,
\* whatever queries fail, are answered late or are answered by another master.
THEOREM ConfigsAdvance == Spec => [][Forward]_vars
<1>1. Inv /\ FreshInv /\ [Next]_vars => FreshInv' /\ Forward
  BY FreshStep
<1> QED
  BY <1>1, FreshInit, InvInit, InvStep, PTL DEF Spec
=================================================================================
