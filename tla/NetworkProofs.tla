------------------------------ MODULE NetworkProofs -----------------------------
(***************************************************************************)
(* Theorems about Network, for any number of peers, calls and starts.       *)
(***************************************************************************)
EXTENDS Network, TLAPS

USE SizeAssumption, CallAssumption DEF Peer, Start, None

\* The three groups of variables, by who changes them.
NetTypes ==
    /\ enabled \subseteq End /\ servers \in [Peer -> Start \cup {None}]
    /\ reliable \in BOOLEAN /\ closed \in BOOLEAN /\ serving \in BOOLEAN

HarnessTypes ==
    /\ connected \in [Peer -> BOOLEAN] /\ starts \in [Peer -> Start]
    /\ holder \in [Peer -> Start \cup {None}]
    /\ pc \in {"idle", "enable", "delete", "copy", "make", "add"}
    /\ plan \in {"none", "connect", "disconnect", "crash1", "start1"}
    /\ peer \in Peer /\ todo \subseteq End /\ (todo # {} => pc = "enable")
    /\ pc \in {"make", "add"} => plan = "start1"
    /\ plan = "start1" /\ pc # "add" => starts[peer] < MaxStarts
    /\ pc = "idle" => plan = "none"
    /\ pc # "idle" => plan # "none"

\* Until the request is dispatched no handler runs.
Before == {"none", "send", "taken", "timeout", "deliver"}
CallTypes ==
    /\ saved \in [Peer -> SUBSET Call]
    /\ stage \in [Call -> Before \cup {"wait", "check", "reply", "succeeded", "failed"}]
    /\ end \in [Call -> End] /\ target \in [Call -> Start \cup {None}]
    /\ flaky \in [Call -> BOOLEAN] /\ ran \in [Call -> {"no", "running", "done"}]
    /\ \A c \in Call : ran[c] # "no" => stage[c] \notin Before /\ target[c] # None
    /\ \A c \in Call : stage[c] = "deliver" => target[c] # None

TypeInv == NetTypes /\ HarnessTypes /\ CallTypes

\* The type invariant is TypeOK with the facts about pc, plan and stage it needs.
LEMMA TypeInvType == TypeInv => TypeOK
BY DEF TypeInv, TypeOK, NetTypes, HarnessTypes, CallTypes, Before

\* The state make_config() leaves is well-typed.
LEMMA TypeInit == Init => TypeInv
<1> SUFFICES ASSUME Init PROVE TypeInv
  OBVIOUS
<1>1. NetTypes
  <2>1. enabled \subseteq End /\ servers \in [Peer -> Start \cup {None}]
    BY DEF Init, End
  <2>2. reliable \in BOOLEAN /\ closed \in BOOLEAN /\ serving \in BOOLEAN
    BY DEF Init
  <2> QED
    BY <2>1, <2>2 DEF NetTypes
<1>2. HarnessTypes
  BY DEF Init, HarnessTypes, End
<1>3. CallTypes
  BY DEF Init, CallTypes, End, Before
<1> QED
  BY <1>1, <1>2, <1>3 DEF TypeInv

\* The names of ends that the harness looks up are ends.
LEMMA EndnamesType ==
    ASSUME HarnessTypes, NEW i \in Peer
    PROVE  Attached(i) \subseteq End /\ Detached(i) \subseteq End
BY DEF HarnessTypes, Attached, Detached, Outgoing, Incoming, endnames, End

\* The steps of the harness preserve the types.
LEMMA HarnessType ==
    ASSUME TypeInv, Harness
    PROVE  TypeInv'
<1> USE DEF TypeInv
<1>1. CallTypes'
  BY DEF Harness, connect, disconnect, Enable, Enabled, DeleteServer, Copy, Make,
         AddServer, Reliable, Cleanup, callVars, CallTypes
<1>2. NetTypes'
  BY DEF Harness, connect, disconnect, Enable, Enabled, DeleteServer, Copy, Make,
         AddServer, Reliable, Cleanup, netVars, NetTypes, HarnessTypes
<1>3. HarnessTypes'
  <2>1. ASSUME NEW i \in Peer, connect(i) PROVE HarnessTypes'
    BY <2>1, EndnamesType DEF connect, Ready, HarnessTypes
  <2>2. ASSUME NEW i \in Peer, NEW operation \in {"disconnect", "crash1", "start1"},
               disconnect(i, operation)
        PROVE  HarnessTypes'
    BY <2>2, EndnamesType DEF disconnect, Ready, HarnessTypes
  <2>3. ASSUME NEW e \in todo, Enable(e) PROVE HarnessTypes'
    BY <2>3 DEF Enable, HarnessTypes
  <2>4. ASSUME Enabled PROVE HarnessTypes'
    BY <2>4 DEF Enabled, Switched, Then, HarnessTypes
  <2>5. ASSUME DeleteServer PROVE HarnessTypes'
    BY <2>5 DEF DeleteServer, Then, HarnessTypes
  <2>6. ASSUME Copy PROVE HarnessTypes'
    BY <2>6 DEF Copy, Then, HarnessTypes
  <2>7. ASSUME Make PROVE HarnessTypes'
    BY <2>7 DEF Make, Then, HarnessTypes
  <2>8. ASSUME AddServer PROVE HarnessTypes'
    BY <2>8 DEF AddServer, Then, HarnessTypes
  <2>9. ASSUME Reliable \/ Cleanup PROVE HarnessTypes'
    BY <2>9 DEF Reliable, Cleanup, harnessVars, HarnessTypes
  <2> QED
    BY <2>1, <2>2, <2>3, <2>4, <2>5, <2>6, <2>7, <2>8, <2>9 DEF Harness
<1> QED
  BY <1>1, <1>2, <1>3

\* The steps of calls and handlers preserve the types.
LEMMA CallType ==
    ASSUME TypeInv, NEW c \in Call,
           Process(c) \/ Handle(c) \/ \E e \in End : Begin(c, e)
    PROVE  TypeInv'
<1> USE DEF TypeInv
<1>1. NetTypes' /\ HarnessTypes'
  BY DEF Process, Take, GiveUp, processReq, Timeout, dispatch, Receive, Poll,
         CheckReply, Reply, Handle, Begin, netVars, harnessVars, NetTypes, HarnessTypes
<1>2. CallTypes'
  <2>1. ASSUME NEW e \in End, Begin(c, e) PROVE CallTypes'
    BY <2>1 DEF Begin, Goto, CallTypes, Before
  <2>2. ASSUME Take(c) \/ GiveUp(c) PROVE CallTypes'
    BY <2>2 DEF Take, GiveUp, Destroyed, Goto, CallTypes, Before
  <2>3. ASSUME processReq(c) PROVE CallTypes'
    <3>1. end[c].to \in Peer /\ servers[end[c].to] \in Start \cup {None}
      BY DEF NetTypes, CallTypes, End
    <3>2. (~reliable) \in BOOLEAN
      BY DEF NetTypes
    <3>3. CASE Reachable(c)
      BY <2>3, <3>1, <3>2, <3>3 DEF processReq, Reachable, To, Goto, CallTypes, Before
    <3>4. CASE ~Reachable(c)
      BY <2>3, <3>4 DEF processReq, Goto, CallTypes, Before
    <3> QED
      BY <3>3, <3>4
  <2>4. ASSUME Timeout(c) PROVE CallTypes'
    BY <2>4 DEF Timeout, Goto, CallTypes, Before
  <2>5. ASSUME dispatch(c) PROVE CallTypes'
    BY <2>5 DEF dispatch, Goto, CallTypes, Before
  <2>6. ASSUME Receive(c) \/ Poll(c) PROVE CallTypes'
    BY <2>6 DEF Receive, Poll, Goto, CallTypes, Before
  <2>7. ASSUME CheckReply(c) \/ Reply(c) PROVE CallTypes'
    BY <2>7 DEF CheckReply, Reply, Goto, CallTypes, Before
  <2>8. ASSUME Handle(c) PROVE CallTypes'
    BY <2>8 DEF Handle, CallTypes, Before
  <2> QED
    BY <2>1, <2>2, <2>3, <2>4, <2>5, <2>6, <2>7, <2>8 DEF Process
<1> QED
  BY <1>1, <1>2

\* Every step preserves the types.
LEMMA TypeStep ==
    ASSUME TypeInv, [Next]_vars
    PROVE  TypeInv'
<1>1. CASE UNCHANGED vars
  BY <1>1 DEF vars, netVars, harnessVars, callVars, TypeInv, NetTypes, HarnessTypes,
              CallTypes
<1>2. CASE Finish
  BY <1>2 DEF Finish, harnessVars, callVars, TypeInv, NetTypes, HarnessTypes, CallTypes
<1> QED
  BY <1>1, <1>2, HarnessType, CallType DEF Next

\* Network is type correct: no request is handed to a nil server, whatever
\* crash1() and start1() do between the steps of processReq().
THEOREM TypeCorrect == Spec => []TypeOK
<1>1. Spec => []TypeInv
  BY TypeInit, TypeStep, PTL DEF Spec
<1> QED
  BY <1>1, TypeInvType, PTL

---------------------------------------------------------------------------------
\* A server in the table saves into config.saved.  Before that persister is
\* superseded the server is out of the table, and it never comes back.
ServerInv ==
    /\ \A i \in Peer : servers[i] # None => servers[i] = holder[i]
    /\ \A i \in Peer : holder[i] <= starts[i]
    /\ pc \in {"copy", "make", "add"} => servers[peer] = None
    /\ pc = "add" => holder[peer] = starts[peer]
    /\ \A c \in Call : target[c] <= starts[To(c)]
    /\ \A c \in Call : stage[c] \in {"none", "send", "taken"} => target[c] = None

\* What a handler did is in config.saved, or was done by a server whose persister
\* is superseded; a reply is passed on only in the first case.
SavedInv ==
    \A c \in Call :
        /\ ran[c] = "done" => c \in saved[To(c)] \/ holder[To(c)] # target[c]
        /\ stage[c] \in {"check", "reply", "succeeded"} => ran[c] = "done"
        /\ stage[c] \in {"reply", "succeeded"} => c \in saved[To(c)]

DurableInv == TypeInv /\ ServerInv /\ SavedInv

\* After make_config() the servers have the persisters of the harness.
LEMMA DurableInit == Init => DurableInv
<1> SUFFICES ASSUME Init PROVE DurableInv
  OBVIOUS
<1>1. TypeInv
  BY TypeInit
<1>2. \A c \in Call : To(c) \in Peer
  BY <1>1 DEF TypeInv, CallTypes, End, To
<1>3. ServerInv
  BY <1>2 DEF Init, ServerInv
<1>4. SavedInv
  BY DEF Init, SavedInv
<1> QED
  BY <1>1, <1>3, <1>4 DEF DurableInv

\* The harness keeps a persister as long as its server is in the table.
LEMMA DurableHarness ==
    ASSUME DurableInv, Harness
    PROVE  ServerInv' /\ SavedInv'
<1> USE DEF DurableInv, TypeInv
<1>1. \A c \in Call : To(c) \in Peer /\ To(c)' = To(c)
  BY DEF Harness, connect, disconnect, Enable, Enabled, DeleteServer, Copy, Make,
         AddServer, Reliable, Cleanup, callVars, CallTypes, End, To
<1>2. ran' = ran /\ stage' = stage /\ target' = target /\ saved' = saved
  BY DEF Harness, connect, disconnect, Enable, Enabled, DeleteServer, Copy, Make,
         AddServer, Reliable, Cleanup, callVars
<1>3. ASSUME UNCHANGED <<servers, holder, starts>>,
             pc' \notin {"copy", "make", "add"}
      PROVE  ServerInv' /\ SavedInv'
  BY <1>1, <1>2, <1>3 DEF ServerInv, SavedInv
<1>4. CASE \E i \in Peer : connect(i)
  BY <1>3, <1>4 DEF connect, netVars
<1>5. CASE \E i \in Peer, operation \in {"disconnect", "crash1", "start1"} :
             disconnect(i, operation)
  BY <1>3, <1>5 DEF disconnect, netVars
<1>6. CASE \E e \in todo : Enable(e)
  BY <1>3, <1>6 DEF Enable
<1>7. CASE Enabled
  BY <1>3, <1>7 DEF Enabled, Then, netVars
<1>8. CASE DeleteServer
  BY <1>1, <1>2, <1>8 DEF DeleteServer, Then, ServerInv, SavedInv, NetTypes, HarnessTypes
<1>9. CASE Copy
  <2>1. ServerInv'
    BY <1>1, <1>2, <1>9 DEF Copy, Then, netVars, ServerInv, NetTypes, HarnessTypes
  <2>2. ASSUME NEW c \in Call, ran[c] = "done" PROVE target[c] # None
    BY <2>2 DEF CallTypes
  <2>3. SavedInv'
    BY <1>1, <1>2, <1>9, <2>2 DEF Copy, SavedInv, HarnessTypes
  <2> QED
    BY <2>1, <2>3
<1>10. CASE Make
  <2>1. ServerInv'
    <3>1. /\ starts' = [starts EXCEPT ![peer] = @ + 1]
          /\ holder' = [holder EXCEPT ![peer] = starts[peer] + 1]
          /\ servers' = servers /\ peer' = peer /\ pc' = "add"
          /\ servers[peer] = None /\ peer \in Peer
      BY <1>10 DEF Make, Then, netVars, ServerInv, HarnessTypes
    <3>2. \A i \in Peer : starts[i] <= starts'[i] /\ starts'[i] \in Int
      BY <3>1 DEF HarnessTypes
    <3>3. \A c \in Call : target[c] <= starts'[To(c)]
      <4> TAKE c \in Call
      <4>1. To(c) \in Peer /\ target[c] \in Int /\ target[c] <= starts[To(c)]
        BY <1>1 DEF ServerInv, CallTypes
      <4>2. starts[To(c)] \in Int
        BY <4>1 DEF HarnessTypes
      <4>3. starts[To(c)] <= starts'[To(c)] /\ starts'[To(c)] \in Int
        BY <3>2, <4>1
      <4> QED
        BY <4>1, <4>2, <4>3
    <3>4. \A i \in Peer : holder'[i] <= starts'[i]
      BY <3>1 DEF ServerInv, HarnessTypes
    <3>5. \A i \in Peer : servers[i] # None => servers[i] = holder'[i]
      BY <3>1 DEF ServerInv, HarnessTypes
    <3>6. holder'[peer] = starts'[peer]
      BY <3>1 DEF HarnessTypes
    <3> QED
      BY <1>1, <1>2, <3>1, <3>3, <3>4, <3>5, <3>6 DEF ServerInv
  <2>2. ASSUME NEW c \in Call PROVE target[c] # starts[To(c)] + 1
    BY <1>1 DEF ServerInv, CallTypes, HarnessTypes
  <2>3. SavedInv'
    BY <1>1, <1>2, <1>10, <2>2 DEF Make, SavedInv, HarnessTypes
  <2> QED
    BY <2>1, <2>3
<1>11. CASE AddServer
  BY <1>1, <1>2, <1>11 DEF AddServer, Then, ServerInv, SavedInv, NetTypes, HarnessTypes
<1>12. CASE Reliable \/ Cleanup
  BY <1>1, <1>2, <1>12 DEF Reliable, Cleanup, harnessVars, ServerInv, SavedInv
<1> QED
  BY <1>4, <1>5, <1>6, <1>7, <1>8, <1>9, <1>10, <1>11, <1>12 DEF Harness

\* A call gets the reply of a handler only while the server that ran it is in the
\* table, and then the handler has saved into config.saved.
LEMMA DurableCall ==
    ASSUME DurableInv, NEW c \in Call,
           Process(c) \/ Handle(c) \/ \E e \in End : Begin(c, e)
    PROVE  ServerInv' /\ SavedInv'
<1> USE DEF DurableInv, TypeInv
<1>1. UNCHANGED <<netVars, harnessVars>>
  BY DEF Process, Take, GiveUp, processReq, Timeout, dispatch, Receive, Poll,
         CheckReply, Reply, Handle, Begin
<1>2. \A d \in Call : To(d) \in Peer
  BY DEF CallTypes, End, To
<1>3. ASSUME NEW e \in End, Begin(c, e) PROVE ServerInv' /\ SavedInv'
  <2>1. target[c] = None /\ ran[c] = "no" /\ e.to \in Peer
    BY <1>3 DEF Begin, ServerInv, CallTypes, Before, End
  <2>2. \A d \in Call : To(d)' = IF d = c THEN e.to ELSE To(d)
    BY <1>3 DEF Begin, To, CallTypes
  <2>3. ServerInv'
    <3>1. target' = target /\ \A d \in Call : target[d] <= starts[To(d)']
      <4>1. target[c] <= starts[e.to]
        BY <2>1 DEF HarnessTypes
      <4>2. \A d \in Call : target[d] <= starts[IF d = c THEN e.to ELSE To(d)]
        BY <4>1 DEF ServerInv
      <4> QED
        BY <1>3, <2>2, <4>2 DEF Begin
    <3>2. \A d \in Call : stage'[d] \in {"none", "send", "taken"} => target[d] = None
      BY <1>3, <2>1 DEF Begin, Goto, ServerInv, CallTypes
    <3> QED
      BY <1>1, <3>1, <3>2 DEF netVars, harnessVars, ServerInv
  <2>4. SavedInv'
    BY <1>1, <1>2, <1>3, <2>1, <2>2
       DEF Begin, Goto, netVars, harnessVars, SavedInv, CallTypes, HarnessTypes
  <2> QED
    BY <2>3, <2>4
<1>4. ASSUME processReq(c) PROVE ServerInv' /\ SavedInv'
  <2>1. ran[c] = "no" /\ stage[c] = "taken"
    BY <1>4 DEF processReq, CallTypes, Before
  <2>2. \A d \in Call : To(d)' = To(d)
    BY <1>4 DEF processReq, To
  <2>3. servers[To(c)] <= starts[To(c)]
    BY <1>2 DEF ServerInv, NetTypes, HarnessTypes
  <2>4. ServerInv'
    <3>1. CASE Reachable(c)
      BY <1>1, <1>2, <1>4, <2>2, <2>3, <3>1
         DEF processReq, Goto, netVars, harnessVars, ServerInv, CallTypes
    <3>2. CASE ~Reachable(c)
      BY <1>1, <1>2, <1>4, <2>2, <3>2
         DEF processReq, Goto, netVars, harnessVars, ServerInv, CallTypes
    <3> QED
      BY <3>1, <3>2
  <2>5. SavedInv'
    BY <1>1, <1>2, <1>4, <2>1, <2>2
       DEF processReq, Goto, netVars, harnessVars, SavedInv, CallTypes
  <2> QED
    BY <2>4, <2>5
<1>5. ASSUME Handle(c) PROVE ServerInv' /\ SavedInv'
  <2>1. \A d \in Call : To(d)' = To(d)
    BY <1>5 DEF Handle, To
  <2>2. ServerInv'
    BY <1>1, <1>5, <2>1 DEF Handle, netVars, harnessVars, ServerInv
  <2>3. SavedInv'
    BY <1>1, <1>2, <1>5, <2>1 DEF Handle, harnessVars, SavedInv, CallTypes
  <2> QED
    BY <2>2, <2>3
<1>6. ASSUME CheckReply(c) PROVE ServerInv' /\ SavedInv'
  <2>1. \A d \in Call : To(d)' = To(d)
    BY <1>6 DEF CheckReply, To
  <2>2. ServerInv'
    BY <1>1, <1>6, <2>1 DEF CheckReply, Goto, netVars, harnessVars, ServerInv, CallTypes
  <2>3. ran[c] = "done" /\ target[c] # None
    BY <1>6 DEF CheckReply, SavedInv, CallTypes
  <2>4. ~isServerDead(c) => c \in saved[To(c)]
    BY <1>2, <2>3 DEF isServerDead, ServerInv, SavedInv
  <2>5. SavedInv'
    BY <1>1, <1>6, <2>1, <2>3, <2>4 DEF CheckReply, Goto, harnessVars, SavedInv, CallTypes
  <2> QED
    BY <2>2, <2>5
<1>7. ASSUME Take(c) \/ GiveUp(c) \/ Timeout(c) \/ dispatch(c) \/ Receive(c) \/ Poll(c) \/ Reply(c)
      PROVE  ServerInv' /\ SavedInv'
  <2>1. \A d \in Call : To(d)' = To(d)
    BY <1>7 DEF Take, GiveUp, Timeout, dispatch, Receive, Poll, Reply, To
  <2>2. ServerInv'
    BY <1>1, <1>7, <2>1
       DEF Take, GiveUp, Destroyed, Timeout, dispatch, Receive, Poll, Reply, Goto,
           netVars, harnessVars, ServerInv, CallTypes
  <2>3. SavedInv'
    BY <1>1, <1>7, <2>1
       DEF Take, GiveUp, Destroyed, Timeout, dispatch, Receive, Poll, Reply, Goto,
           netVars, harnessVars, SavedInv, CallTypes, Before
  <2> QED
    BY <2>2, <2>3
<1> QED
  BY <1>3, <1>4, <1>5, <1>6, <1>7 DEF Process

\* Every step preserves the invariant.
LEMMA DurableStep ==
    ASSUME DurableInv, [Next]_vars
    PROVE  DurableInv'
<1>1. TypeInv'
  BY TypeStep DEF DurableInv
<1>2. CASE UNCHANGED vars \/ Finish
  <2>1. UNCHANGED <<servers, harnessVars, saved, callVars>>
    BY <1>2 DEF vars, netVars, Finish
  <2> QED
    BY <1>1, <2>1 DEF harnessVars, callVars, DurableInv, ServerInv, SavedInv, To
<1> QED
  BY <1>1, <1>2, DurableHarness, DurableCall DEF Next, DurableInv

\* A successful call is durable: what its handler saved survives every crash and
\* restart of the server, however late the reply is delivered.
THEOREM SuccessSurvives == Spec => []SuccessIsDurable
<1>1. Spec => []DurableInv
  BY DurableInit, DurableStep, PTL DEF Spec
<1>2. DurableInv => SuccessIsDurable
  BY DEF DurableInv, SavedInv, SuccessIsDurable
<1> QED
  BY <1>1, <1>2, PTL

---------------------------------------------------------------------------------
\* The ends that should be enabled, and how far the harness has got.
Links == {e \in End : e.start = starts[e.from] /\ connected[e.from] /\ connected[e.to]}
LinkInv ==
    /\ pc = "enable" /\ plan = "connect" => enabled \cup todo = Links
    /\ pc = "enable" /\ plan # "connect" => enabled \ todo = Links
    /\ pc # "enable" => enabled = Links
    /\ (pc = "enable" /\ plan # "connect") \/ pc \in {"delete", "copy", "make"}
         => ~connected[peer]

\* The ends of a peer's current start, by their fields.
LEMMA EndFields ==
    ASSUME HarnessTypes, NEW i \in Peer, NEW e \in End
    PROVE  /\ e \in Attached(i) <=>
                 /\ e.start = starts[e.from]
                 /\ \/ e.from = i /\ (connected[e.to] \/ e.to = i)
                    \/ e.to = i /\ (connected[e.from] \/ e.from = i)
           /\ e \in Detached(i) <=> e.start = starts[e.from] /\ (e.from = i \/ e.to = i)
<1>1. e.from \in Peer /\ e.to \in Peer /\ e = [from |-> e.from, start |-> e.start, to |-> e.to]
  BY DEF End
<1>2. ASSUME NEW S \in SUBSET Peer
      PROVE  /\ e \in Outgoing(i, S) <=> e.from = i /\ e.start = starts[i] /\ e.to \in S
             /\ e \in Incoming(i, S) <=> e.to = i /\ e.start = starts[e.from] /\ e.from \in S
  BY <1>1 DEF Outgoing, Incoming, endnames
<1> DEFINE there == {j \in Peer : connected[j] \/ j = i}
<1>3. there \in SUBSET Peer /\ \A j \in Peer : j \in there <=> connected[j] \/ j = i
  OBVIOUS
<1>4. Attached(i) = Outgoing(i, there) \cup Incoming(i, there)
  BY DEF Attached
<1>5. Detached(i) = Outgoing(i, Peer) \cup Incoming(i, Peer)
  BY DEF Detached
<1> HIDE DEF there
<1>6. e \in Attached(i) <=>
        \/ e.from = i /\ e.start = starts[i] /\ e.to \in there
        \/ e.to = i /\ e.start = starts[e.from] /\ e.from \in there
  BY <1>2, <1>3, <1>4
<1>7. e \in Detached(i) <=>
        \/ e.from = i /\ e.start = starts[i] /\ e.to \in Peer
        \/ e.to = i /\ e.start = starts[e.from] /\ e.from \in Peer
  BY <1>2, <1>5
<1> QED
  BY <1>1, <1>3, <1>6, <1>7

\* Every step of the harness keeps to the links.
LEMMA LinkHarness ==
    ASSUME TypeInv, LinkInv, Harness
    PROVE  LinkInv'
<1> USE DEF TypeInv
<1>1. ASSUME NEW i \in Peer, connect(i) PROVE LinkInv'
  <2>1. enabled = Links /\ enabled' = enabled /\ starts' = starts
        /\ connected' = [connected EXCEPT ![i] = TRUE] /\ todo' = Attached(i)
        /\ pc' = "enable" /\ plan' = "connect"
    BY <1>1 DEF connect, Ready, netVars, LinkInv
  <2>2. \A e \in End : e \in Links' <=> e \in Links \/ e \in Attached(i)
    <3> TAKE e \in End
    <3>1. e.from \in Peer /\ e.to \in Peer
      BY DEF End
    <3>2. \A j \in Peer : connected'[j] <=> connected[j] \/ j = i
      BY <2>1 DEF HarnessTypes
    <3>3. e \in Links' <=> e.start = starts[e.from] /\ connected'[e.from] /\ connected'[e.to]
      BY <2>1 DEF Links
    <3>4. e \in Links <=> e.start = starts[e.from] /\ connected[e.from] /\ connected[e.to]
      BY DEF Links
    <3> QED
      BY <3>1, <3>2, <3>3, <3>4, EndFields
  <2>3. Attached(i) \subseteq End /\ Links' \subseteq End /\ Links \subseteq End
    BY EndnamesType DEF Links
  <2> QED
    BY <2>1, <2>2, <2>3 DEF LinkInv
<1>2. ASSUME NEW i \in Peer, NEW operation \in {"disconnect", "crash1", "start1"},
             disconnect(i, operation)
      PROVE  LinkInv'
  <2>1. enabled = Links /\ enabled' = enabled /\ starts' = starts
        /\ connected' = [connected EXCEPT ![i] = FALSE] /\ todo' = Detached(i)
        /\ pc' = "enable" /\ plan' # "connect" /\ peer' = i
    BY <1>2 DEF disconnect, Ready, netVars, LinkInv
  <2>2. \A e \in End : e \in Links' <=> e \in Links /\ e \notin Detached(i)
    <3> TAKE e \in End
    <3>1. e.from \in Peer /\ e.to \in Peer
      BY DEF End
    <3>2. \A j \in Peer : connected'[j] <=> connected[j] /\ j # i
      BY <2>1 DEF HarnessTypes
    <3>3. e \in Links' <=> e.start = starts[e.from] /\ connected'[e.from] /\ connected'[e.to]
      BY <2>1 DEF Links
    <3>4. e \in Links <=> e.start = starts[e.from] /\ connected[e.from] /\ connected[e.to]
      BY DEF Links
    <3> QED
      BY <3>1, <3>2, <3>3, <3>4, EndFields
  <2>3. Links' \subseteq End /\ Links \subseteq End
    BY DEF Links
  <2>4. ~connected'[i]
    BY <2>1 DEF HarnessTypes
  <2> QED
    BY <2>1, <2>2, <2>3, <2>4 DEF LinkInv
<1>3. ASSUME UNCHANGED <<connected, starts>> PROVE Links' = Links
  BY <1>3 DEF Links
<1>4. ASSUME NEW e \in todo, Enable(e) PROVE LinkInv'
  BY <1>3, <1>4 DEF Enable, LinkInv
<1>5. ASSUME Enabled PROVE LinkInv'
  BY <1>3, <1>5 DEF Enabled, Switched, Then, netVars, LinkInv
<1>6. ASSUME DeleteServer PROVE LinkInv'
  BY <1>3, <1>6 DEF DeleteServer, Then, LinkInv
<1>7. ASSUME Copy PROVE LinkInv'
  BY <1>3, <1>7 DEF Copy, Then, netVars, LinkInv
<1>8. ASSUME Make PROVE LinkInv'
  <2>1. connected' = connected /\ ~connected[peer] /\ enabled = Links /\ enabled' = enabled
        /\ starts' = [starts EXCEPT ![peer] = @ + 1] /\ pc' = "add"
    BY <1>8 DEF Make, Then, netVars, LinkInv
  <2>2. \A j \in Peer : j # peer => starts'[j] = starts[j]
    BY <2>1 DEF HarnessTypes
  <2>3. \A e \in End : e.from \in Peer
    BY DEF End
  <2>4. Links' = Links
    BY <2>1, <2>2, <2>3 DEF Links
  <2> QED
    BY <2>1, <2>4 DEF LinkInv
<1>9. ASSUME AddServer PROVE LinkInv'
  BY <1>3, <1>9 DEF AddServer, Then, LinkInv
<1>10. ASSUME Reliable \/ Cleanup PROVE LinkInv'
  BY <1>3, <1>10 DEF Reliable, Cleanup, harnessVars, LinkInv
<1> QED
  BY <1>1, <1>2, <1>4, <1>5, <1>6, <1>7, <1>8, <1>9, <1>10 DEF Harness

\* Every step preserves the invariant: only the harness touches the links.
LEMMA LinkStep ==
    ASSUME TypeInv, LinkInv, [Next]_vars
    PROVE  LinkInv'
<1>1. ASSUME UNCHANGED <<enabled, connected, starts, pc, plan, peer, todo>> PROVE LinkInv'
  BY <1>1 DEF LinkInv, Links
<1>2. CASE UNCHANGED vars \/ Finish
  BY <1>1, <1>2 DEF vars, netVars, harnessVars, Finish
<1>3. ASSUME NEW c \in Call, Process(c) \/ Handle(c) \/ \E e \in End : Begin(c, e)
      PROVE  LinkInv'
  <2>1. UNCHANGED <<netVars, harnessVars>>
    BY <1>3 DEF Process, Take, GiveUp, processReq, Timeout, dispatch, Receive, Poll,
                CheckReply, Reply, Handle, Begin
  <2> QED
    BY <1>1, <2>1 DEF netVars, harnessVars
<1> QED
  BY <1>2, <1>3, LinkHarness DEF Next

\* Between the operations of the harness exactly the ends between connected peers
\* are enabled, none of an earlier start among them.
THEOREM LinksFollowConnections == Spec => []EndsFollowConnections
<1>1. Init => LinkInv
  BY DEF Init, LinkInv, Links, End
<1>2. Spec => [](TypeInv /\ LinkInv)
  BY TypeInit, TypeStep, <1>1, LinkStep, PTL DEF Spec
<1>3. LinkInv => EndsFollowConnections
  BY DEF LinkInv, Links, EndsFollowConnections
<1> QED
  BY <1>2, <1>3, PTL

---------------------------------------------------------------------------------
\* The steps of the harness are not seen by callers and handlers.
LEMMA HarnessUnseen ==
    ASSUME Harness \/ Finish \/ UNCHANGED vars
    PROVE  UNCHANGED <<[c \in Call |-> Seen(c)], ran>>
<1>1. UNCHANGED callVars
  BY DEF Harness, connect, disconnect, Enable, Enabled, DeleteServer, Copy, Make,
         AddServer, Reliable, Cleanup, Finish, vars
<1> QED
  BY <1>1 DEF callVars, Seen

\* A step of a call is a step of RemoteCall, or unseen.
LEMMA CallSeen ==
    ASSUME DurableInv, NEW c \in Call,
           Process(c) \/ Handle(c) \/ \E e \in End : Begin(c, e)
    PROVE  [RC!Next]_<<[d \in Call |-> Seen(d)], ran>>
<1> DEFINE status == [d \in Call |-> Seen(d)]
<1>1. stage \in [Call -> Before \cup {"wait", "check", "reply", "succeeded", "failed"}]
      /\ ran \in [Call -> {"no", "running", "done"}]
  BY DEF DurableInv, TypeInv, CallTypes
<1>2. ASSUME NEW s, Goto(c, s), s \in {"none", "succeeded", "failed"}
      PROVE  status' = [status EXCEPT ![c] = s]
  BY <1>1, <1>2 DEF Goto, Seen
<1>3. ASSUME NEW s, Goto(c, s), s \notin {"none", "succeeded", "failed"}
      PROVE  status' = [status EXCEPT ![c] = "pending"]
  BY <1>1, <1>3 DEF Goto, Seen
<1>4. ASSUME stage[c] \notin {"none", "succeeded", "failed"}
      PROVE  status[c] = "pending" /\ status = [status EXCEPT ![c] = "pending"]
  BY <1>4 DEF Seen
<1>5. ASSUME NEW e \in End, Begin(c, e) PROVE RC!Invoke(c)
  <2>1. status' = [status EXCEPT ![c] = "pending"]
    BY <1>3, <1>5 DEF Begin
  <2>2. status[c] = "none"
    BY <1>5 DEF Begin, Seen
  <2> QED
    BY <1>5, <2>1, <2>2 DEF Begin, RC!Invoke
<1>6. ASSUME Take(c) \/ processReq(c) \/ Receive(c) PROVE UNCHANGED <<status, ran>>
  <2>1. stage[c] \notin {"none", "succeeded", "failed"} /\ ran' = ran
    BY <1>6 DEF Take, processReq, Receive
  <2>2. status' = [status EXCEPT ![c] = "pending"]
    BY <1>3, <1>6 DEF Take, processReq, Receive
  <2> QED
    BY <1>4, <2>1, <2>2
<1>7. ASSUME GiveUp(c) \/ Timeout(c) \/ Poll(c) PROVE RC!ReturnFalse(c)
  <2>1. status' = [status EXCEPT ![c] = "failed"]
    BY <1>2, <1>7 DEF GiveUp, Timeout, Poll
  <2>2. stage[c] \notin {"none", "succeeded", "failed"} /\ ran' = ran
    BY <1>7 DEF GiveUp, Destroyed, Timeout, Poll
  <2> QED
    BY <1>4, <2>1, <2>2 DEF RC!ReturnFalse
<1>8. ASSUME dispatch(c) PROVE RC!StartHandler(c)
  <2>1. stage[c] = "deliver" /\ ran' = [ran EXCEPT ![c] = "running"]
    BY <1>8 DEF dispatch
  <2>2. status' = status
    BY <1>3, <1>4, <1>8, <2>1 DEF dispatch
  <2>3. ran[c] = "no"
    BY <1>1, <2>1 DEF DurableInv, TypeInv, CallTypes, Before
  <2> QED
    BY <1>4, <2>1, <2>2, <2>3 DEF RC!StartHandler
<1>9. ASSUME Handle(c) PROVE RC!FinishHandler(c)
  <2>1. status' = status
    BY <1>9 DEF Handle, Seen
  <2> QED
    BY <1>9, <2>1 DEF Handle, RC!FinishHandler
<1>10. ASSUME CheckReply(c) PROVE UNCHANGED <<status, ran>> \/ RC!ReturnFalse(c)
  <2>1. stage[c] = "check" /\ ran' = ran
    BY <1>10 DEF CheckReply
  <2>2. CASE isServerDead(c)
    BY <1>2, <1>4, <1>10, <2>1, <2>2 DEF CheckReply, RC!ReturnFalse
  <2>3. CASE ~isServerDead(c)
    BY <1>3, <1>4, <1>10, <2>1, <2>3 DEF CheckReply
  <2> QED
    BY <2>2, <2>3
<1>11. ASSUME Reply(c) PROVE RC!ReturnTrue(c) \/ RC!ReturnFalse(c)
  <2>1. stage[c] = "reply" /\ ran' = ran
    BY <1>11 DEF Reply
  <2>2. ran[c] = "done"
    BY <2>1 DEF DurableInv, SavedInv
  <2>3. status' = [status EXCEPT ![c] = "succeeded"] \/ status' = [status EXCEPT ![c] = "failed"]
    BY <1>2, <1>11 DEF Reply
  <2> QED
    BY <1>4, <2>1, <2>2, <2>3 DEF RC!ReturnTrue, RC!ReturnFalse
<1>12. RC!Next \/ UNCHANGED <<status, ran>>
  BY <1>5, <1>6, <1>7, <1>8, <1>9, <1>10, <1>11 DEF Process, RC!Next
<1> QED
  BY <1>12

\* The network implements what Call() promises, for any number of calls and peers.
THEOREM CallsAreRemoteCalls == Spec => ImplementsRemoteCall
<1>1. Init => RC!Init
  BY DEF Init, RC!Init, Seen
<1>2. DurableInv /\ [Next]_vars => [RC!Next]_<<[c \in Call |-> Seen(c)], ran>>
  BY HarnessUnseen, CallSeen DEF Next
<1>3. Spec => []DurableInv
  BY DurableInit, DurableStep, PTL DEF Spec
<1> QED
  BY <1>1, <1>2, <1>3, PTL DEF Spec, ImplementsRemoteCall, RC!Spec
=================================================================================
