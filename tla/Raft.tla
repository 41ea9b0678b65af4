---------------------------------- MODULE Raft ----------------------------------
(***************************************************************************)
(* The Raft peer of labs/src/raft/raft.go, with the part of the persister   *)
(* (persister.go), of the test harness (config.go) and of the simulated     *)
(* network (labrpc) that a peer can observe.                                *)
(*                                                                          *)
(* An action is one critical section of rf.mu.  Goroutines that outlive the *)
(* section are part of the state: `electing' holds the candidate() loops    *)
(* that still poll, `starting' counts the leader() goroutines that were     *)
(* spawned and have not run yet, `leading' the leader() loops, `appending'  *)
(* the AppendEntries handlers between their two critical sections.          *)
(*                                                                          *)
(* rf.log[0] is a fake entry of term 0 and never changes, so it is left     *)
(* out: rf.log[k] is log[i][k] for k >= 1, and len(rf.log)-1 is Len(log[i]).*)
(***************************************************************************)
EXTENDS Integers, FiniteSets, Sequences, FiniteSetsExt

CONSTANTS
    Server,       \* the peers
    Command,      \* what clients hand to Start()
    None,         \* votedFor = -1
    Electable,    \* the peers whose election timer may expire
    Resend,       \* may several copies of an AppendEntries call be in flight?
    Lossy,        \* may the network lose AppendEntries calls and replies?
    MaxElections, \* bound: elections, of all peers together
    MaxLog,       \* bound: length of a log
    MaxRestarts,  \* bound: restarts, of all peers together
    MaxCalls      \* bound: AppendEntries calls and replies in flight

ASSUME ServerAssumption == IsFiniteSet(Server) /\ None \notin Server
ASSUME ElectableAssumption == Electable \subseteq Server
ASSUME BoundAssumption ==
    /\ Resend \in BOOLEAN /\ Lossy \in BOOLEAN
    /\ {MaxElections, MaxLog, MaxRestarts, MaxCalls} \subseteq Nat

VARIABLES
    state, currentTerm, votedFor, log,   \* Raft struct
    commitIndex, lastApplied, nextIndex, matchIndex, voteCount,
    persister,                           \* what SaveRaftState last stored
    electing, starting, leading,         \* goroutines of candidate() and leader()
    voteCalls, voteReplies,              \* RequestVote RPCs on the network
    appendCalls, appending, appendReplies, \* AppendEntries RPCs
    elections,                           \* for the bound MaxElections
    incarnation,                         \* number of restarts by the harness
    delivered,                           \* config.logs: what applyCh delivered
    panicked                             \* a Go panic ended the process

raftVars == <<state, currentTerm, votedFor, log, persister>>
commitVars == <<commitIndex, lastApplied, delivered>>
leaderVars == <<nextIndex, matchIndex, leading>>
candidateVars == <<voteCount, electing, starting, elections>>
voteNet == <<voteCalls, voteReplies>>
appendNet == <<appendCalls, appending, appendReplies>>
vars == <<raftVars, commitVars, leaderVars, candidateVars, voteNet, appendNet,
          incarnation, panicked>>

Entry == [term : Nat, command : Command]
Disk == [currentTerm : Nat, votedFor : Server \cup {None}, log : Seq(Entry)]

\* An RPC call is the argument struct with its route: who calls, in which
\* incarnation, and whom.  CandidateID and LeaderID are `from'.
RequestVoteArgs ==
    [from : Server, inc : Nat, to : Server,
     Term : Nat, LastLogIndex : Nat, LastLogTerm : Nat]
RequestVoteReply == [call : RequestVoteArgs, Term : Nat, VoteGranted : BOOLEAN]
AppendEntriesArgs ==
    [from : Server, inc : Nat, to : Server, Term : Nat, PrevLogIndex : Nat,
     PrevLogTerm : Nat, Entries : Seq(Entry), LeaderCommit : Nat]
AppendEntriesReply ==
    [call : AppendEntriesArgs, Term : Nat, Success : BOOLEAN,
     ConflictTerm : Nat, ConflictIndex : Nat, LogLen : Nat]

---------------------------------------------------------------------------------
(***************************************************************************)
(* Helpers                                                                  *)
(***************************************************************************)
\* rf.log[k].Term, the fake entry included.
TermAt(l, k) == IF k = 0 THEN 0 ELSE l[k].term
LastTerm(l) == TermAt(l, Len(l))

min(x, y) == IF x < y THEN x ELSE y

\* nextIndex or matchIndex with one value for all peers.
Slice(n) == [j \in Server |-> n]

\* More than half of len(peers).
Majority(S) == Cardinality(S) > Cardinality(Server) \div 2

\* Mutant of persist: the term is saved before it is advanced.
persist_OldTerm(i, term, vote, l) ==
    [persister EXCEPT ![i] =
       [currentTerm |-> currentTerm[i], votedFor |-> vote, log |-> l]]

\* The persister after peer i saved this state.
persist(i, term, vote, l) ==
    [persister EXCEPT ![i] = [currentTerm |-> term, votedFor |-> vote, log |-> l]]

\* Mutant of VoteIn: the vote of the current term is forgotten.
VoteIn_Forgotten(i, term) == None

\* Mutant of AdoptTerm: the new term is not saved.
AdoptTerm_NotSaved(i, term) ==
    /\ currentTerm' = [currentTerm EXCEPT ![i] = term]
    /\ state' = [state EXCEPT ![i] = IF term > currentTerm[i] THEN "FOLLOWER" ELSE @]
    /\ UNCHANGED persister

\* "Follow the second rule in Rules for Servers": the opening of both handlers
\* for a call whose term is not old.  votedFor is left to the handler.
VoteIn(i, term) == IF term > currentTerm[i] THEN None ELSE votedFor[i]
AdoptTerm(i, term) ==
    /\ currentTerm' = [currentTerm EXCEPT ![i] = term]
    /\ state' = [state EXCEPT ![i] = IF term > currentTerm[i] THEN "FOLLOWER" ELSE @]
    /\ persister' = IF term > currentTerm[i]
                    THEN persist(i, term, None, log[i]) ELSE persister

\* A reply reaches the caller only in the incarnation that made the call.
ToCaller(reply) ==
    IF reply.call.inc = incarnation[reply.call.from] THEN {reply} ELSE {}

\* What is in flight after AppendEntries messages are sent: the network may lose
\* some of them.  (A RequestVote message is sent once, so one that is never
\* handled is as good as lost.)
Sent(net, msgs) ==
    IF Lossy THEN {net \cup kept : kept \in SUBSET msgs} ELSE {net \cup msgs}

\* The leader loop resends a call every 10 ms until it is answered, so with
\* Resend a copy of a handled call may still be on its way.
Taken(net, m) == IF Resend THEN {net, net \ {m}} ELSE {net \ {m}}

\* All peers live in one process, so a panic of one stops every one of them.
Running == ~panicked /\ UNCHANGED panicked

---------------------------------------------------------------------------------
(***************************************************************************)
(* Make() without persisted state                                           *)
(***************************************************************************)
Init ==
    /\ state = [i \in Server |-> "FOLLOWER"]
    /\ currentTerm = [i \in Server |-> 0]
    /\ votedFor = [i \in Server |-> None]
    /\ log = [i \in Server |-> <<>>]
    /\ persister = [i \in Server |->
                      [currentTerm |-> 0, votedFor |-> None, log |-> <<>>]]
    /\ commitIndex = [i \in Server |-> 0]
    /\ lastApplied = [i \in Server |-> 0]
    /\ delivered = [i \in Server |-> <<>>]
    /\ nextIndex = [i \in Server |-> Slice(0)]
    /\ matchIndex = [i \in Server |-> Slice(0)]
    /\ voteCount = [i \in Server |-> 0]
    /\ electing = [i \in Server |-> {}]
    /\ starting = [i \in Server |-> 0]
    /\ elections = 0
    /\ leading = [i \in Server |-> 0]
    /\ incarnation = [i \in Server |-> 0]
    /\ voteCalls = {} /\ voteReplies = {}
    /\ appendCalls = {} /\ appending = {} /\ appendReplies = {}
    /\ panicked = FALSE

---------------------------------------------------------------------------------
(***************************************************************************)
(* Elections                                                                *)
(***************************************************************************)
\* A timer goroutine runs on every peer at all times, leaders included: follower()
\* and candidate() start one, and it ends by starting candidate().  When the timeout
\* expires is left open, up to the peers and the number that an instance admits.
startElectionTimer(i) == i \in Electable /\ elections < MaxElections

\* The timer expires, and candidate() runs up to its polling loop.
candidate(i) ==
    LET term == currentTerm[i] + 1
    IN  /\ Running
        /\ startElectionTimer(i)
        /\ currentTerm' = [currentTerm EXCEPT ![i] = term]
        /\ state' = [state EXCEPT ![i] = "CANDIDATE"]
        /\ votedFor' = [votedFor EXCEPT ![i] = i]
        /\ persister' = persist(i, term, i, log[i])
        /\ voteCount' = [voteCount EXCEPT ![i] = 1]
        /\ electing' = [electing EXCEPT ![i] = @ \cup {term}]
        /\ elections' = elections + 1
        /\ voteCalls' = voteCalls \cup
             {[from |-> i, inc |-> incarnation[i], to |-> j, Term |-> term,
               LastLogIndex |-> Len(log[i]), LastLogTerm |-> LastTerm(log[i])] :
                 j \in Server \ {i}}
        /\ UNCHANGED <<log, commitVars, leaderVars, starting, voteReplies,
                       appendNet, incarnation>>

\* One round of the polling loop of the candidate() of this term that ends it.
\* a) is tested first, whatever state and term the peer is in by now.
Won(i) == voteCount[i] > Cardinality(Server) \div 2
candidatePoll(i, term) ==
    /\ Running
    /\ term \in electing[i]
    /\ \/ Won(i) /\ starting' = [starting EXCEPT ![i] = @ + 1]
       \/ ~Won(i) /\ state[i] = "FOLLOWER" /\ UNCHANGED starting
       \/ ~Won(i) /\ state[i] # "FOLLOWER" /\ currentTerm[i] > term
            /\ UNCHANGED starting
    /\ electing' = [electing EXCEPT ![i] = @ \ {term}]
    /\ UNCHANGED <<raftVars, commitVars, leaderVars, voteCount, elections,
                   voteNet, appendNet, incarnation>>

\* First critical section of leader().  votedFor is cleared and not saved.
leader(i) ==
    /\ Running
    /\ starting[i] > 0
    /\ starting' = [starting EXCEPT ![i] = @ - 1]
    /\ leading' = [leading EXCEPT ![i] = @ + 1]
    /\ state' = [state EXCEPT ![i] = "LEADER"]
    /\ votedFor' = [votedFor EXCEPT ![i] = None]
    /\ nextIndex' = [nextIndex EXCEPT ![i] = Slice(Len(log[i]) + 1)]
    /\ matchIndex' = [matchIndex EXCEPT ![i] = Slice(0)]
    /\ UNCHANGED <<currentTerm, log, persister, commitVars, voteCount, electing,
                   elections, voteNet, appendNet, incarnation>>

\* The candidate's log is not behind the voter's.
UpToDate(m, l) ==
    \/ m.LastLogTerm > LastTerm(l)
    \/ m.LastLogTerm = LastTerm(l) /\ m.LastLogIndex >= Len(l)

\* The RequestVote handler.  The vote itself is not saved.
RequestVote(m) ==
    LET i == m.to
        old == m.Term < currentTerm[i]
        grant == ~old /\ VoteIn(i, m.Term) = None /\ UpToDate(m, log[i])
    IN  /\ Running
        /\ voteCalls' = voteCalls \ {m}
        /\ IF old
           THEN UNCHANGED <<currentTerm, state, votedFor, persister>>
           ELSE /\ AdoptTerm(i, m.Term)
                /\ votedFor' = [votedFor EXCEPT ![i] =
                                  IF grant THEN m.from ELSE VoteIn(i, m.Term)]
        /\ voteReplies' = voteReplies \cup ToCaller(
             [call |-> m, Term |-> currentTerm'[i], VoteGranted |-> grant])
        /\ UNCHANGED <<log, commitVars, leaderVars, candidateVars, appendNet,
                       incarnation>>

\* A reply with a newer term, as both send functions treat it: persisted before
\* the state changes, with votedFor as it is.
StepDown(i, term) ==
    /\ currentTerm' = [currentTerm EXCEPT ![i] = term]
    /\ state' = [state EXCEPT ![i] = "FOLLOWER"]
    /\ persister' = persist(i, term, votedFor[i], log[i])

\* Tail of sendRequestVote(), once Call() has returned true.
sendRequestVote(r) ==
    LET i == r.call.from
        current == r.Term = r.call.Term
        newer == current /\ r.Term > currentTerm[i]
    IN  /\ Running
        /\ voteReplies' = voteReplies \ {r}
        /\ IF newer THEN StepDown(i, r.Term)
                    ELSE UNCHANGED <<currentTerm, state, persister>>
        /\ voteCount' = IF current /\ ~newer /\ r.VoteGranted
                        THEN [voteCount EXCEPT ![i] = @ + 1] ELSE voteCount
        /\ UNCHANGED <<votedFor, log, commitVars, leaderVars, electing, starting,
                       elections, voteCalls, appendNet, incarnation>>

---------------------------------------------------------------------------------
(***************************************************************************)
(* Log replication                                                          *)
(***************************************************************************)
\* Start() on a leader; on any other peer it changes nothing.
Start(i, c) ==
    /\ Running
    /\ state[i] = "LEADER"
    /\ Len(log[i]) < MaxLog
    /\ log' = [log EXCEPT ![i] = Append(@, [term |-> currentTerm[i], command |-> c])]
    /\ persister' = persist(i, currentTerm[i], votedFor[i], log'[i])
    /\ UNCHANGED <<state, currentTerm, votedFor, commitVars, leaderVars,
                   candidateVars, voteNet, appendNet, incarnation>>

\* The call that carries everything after entry prev of the sender's log.
AppendCall(i, j, prev) ==
    [from |-> i, inc |-> incarnation[i], to |-> j, Term |-> currentTerm[i],
     PrevLogIndex |-> prev, PrevLogTerm |-> TermAt(log[i], prev),
     Entries |-> SubSeq(log[i], prev + 1, Len(log[i])),
     LeaderCommit |-> commitIndex[i]]

InFlight == Cardinality(appendCalls) + Cardinality(appending)
              + Cardinality(appendReplies)

\* One round of startHeartBeat(): an empty call to every other peer.
startHeartBeat(i) ==
    /\ Running
    /\ state[i] = "LEADER"
    /\ appendCalls' \in Sent(appendCalls,
         {AppendCall(i, j, Len(log[i])) : j \in Server \ {i}})
    /\ UNCHANGED <<raftVars, commitVars, leaderVars, candidateVars, voteNet,
                   appending, appendReplies, incarnation>>
    /\ InFlight' <= MaxCalls

\* Mutant of Committable: half of the peers are enough.
Committable_Half(i) ==
    {n \in (commitIndex[i] + 1)..Len(log[i]) :
        /\ log[i][n].term = currentTerm[i]
        /\ Cardinality({j \in Server : matchIndex[i][j] >= n})
             >= Cardinality(Server) \div 2}

\* The entries a leader loop may commit: of its current term, on a majority.
Committable(i) ==
    {n \in (commitIndex[i] + 1)..Len(log[i]) :
        /\ log[i][n].term = currentTerm[i]
        /\ Majority({j \in Server : matchIndex[i][j] >= n})}

\* Mutant of Behind: the leader does not send to itself.
Behind_Others(i) == {j \in Server \ {i} : Len(log[i]) >= nextIndex[i][j]}

\* The peers the leader loop sends to, the leader itself included.
Behind(i) == {j \in Server : Len(log[i]) >= nextIndex[i][j]}

\* One round of the loop of leader(), which only a FOLLOWER state ends.
leaderLoop(i) ==
    /\ Running
    /\ leading[i] > 0
    /\ state[i] # "FOLLOWER"
    /\ \A j \in Server : nextIndex[i][j] > 0
    /\ appendCalls' \in Sent(appendCalls,
         {AppendCall(i, j, nextIndex[i][j] - 1) : j \in Behind(i)})
    /\ commitIndex' = [commitIndex EXCEPT ![i] =
                         IF Committable(i) = {} THEN @ ELSE Max(Committable(i))]
    /\ UNCHANGED <<raftVars, lastApplied, delivered, leaderVars, candidateVars,
                   voteNet, appending, appendReplies, incarnation>>
    /\ InFlight' <= MaxCalls

leaderExit(i) ==
    /\ Running
    /\ leading[i] > 0
    /\ state[i] = "FOLLOWER"
    /\ leading' = [leading EXCEPT ![i] = @ - 1]
    /\ UNCHANGED <<raftVars, commitVars, nextIndex, matchIndex, candidateVars,
                   voteNet, appendNet, incarnation>>

\* The same round when some nextIndex is 0: rf.log[index-1] is out of range.
leaderPanic(i) ==
    /\ ~panicked
    /\ leading[i] > 0
    /\ state[i] # "FOLLOWER"
    /\ \E j \in Server : nextIndex[i][j] = 0
    /\ panicked' = TRUE
    /\ UNCHANGED <<raftVars, commitVars, leaderVars, candidateVars, voteNet,
                   appendNet, incarnation>>

\* The AppendEntries handler up to its first unlock.
AppendEntries(m) ==
    LET i == m.to
    IN  /\ Running
        /\ appendCalls' \in Taken(appendCalls, m)
        /\ \/ /\ m.Term < currentTerm[i]
              /\ appendReplies' \in Sent(appendReplies, ToCaller(
                   [call |-> m, Term |-> currentTerm[i], Success |-> FALSE,
                    ConflictTerm |-> 0, ConflictIndex |-> 0, LogLen |-> 0]))
              /\ UNCHANGED <<raftVars, appending>>
           \/ /\ m.Term >= currentTerm[i]
              /\ AdoptTerm(i, m.Term)
              /\ votedFor' = [votedFor EXCEPT ![i] = VoteIn(i, m.Term)]
              /\ appending' = appending \cup {m}
              /\ UNCHANGED <<log, appendReplies>>
        /\ UNCHANGED <<commitVars, leaderVars, candidateVars, voteNet,
                       incarnation>>

\* The consistency check.
TooShort(m, l) == Len(l) < m.PrevLogIndex
Conflicting(m, l) == ~TooShort(m, l) /\ TermAt(l, m.PrevLogIndex) # m.PrevLogTerm
Consistent(m, l) == ~TooShort(m, l) /\ ~Conflicting(m, l)

\* First entry of the run of equal terms that ends at k (0 if there is none).
FirstOfTerm(l, k) ==
    LET starts == {n \in 1..k : TermAt(l, n - 1) # TermAt(l, k)}
    IN  IF starts = {} THEN 0 ELSE Max(starts)

AppendReply(m, i) ==
    LET l == log[i]
    IN  [call |-> m, Term |-> currentTerm[i], Success |-> Consistent(m, l),
         ConflictTerm |-> IF Conflicting(m, l) THEN TermAt(l, m.PrevLogIndex) ELSE 0,
         ConflictIndex |-> IF Conflicting(m, l) THEN FirstOfTerm(l, m.PrevLogIndex) ELSE 0,
         LogLen |-> IF TooShort(m, l) THEN Len(l) ELSE 0]

\* The entries of a consistent call that the log lacks or has with another term:
\* the log is cut at the first of them and extended with the rest of the call.
NewEntries(m, l) ==
    {n \in 1..Len(m.Entries) :
        \/ Len(l) < m.PrevLogIndex + n
        \/ m.Entries[n].term # l[m.PrevLogIndex + n].term}
Merge(m, l) ==
    LET first == Min(NewEntries(m, l))
    IN  IF NewEntries(m, l) = {} THEN l
        ELSE SubSeq(l, 1, m.PrevLogIndex + first - 1)
               \o SubSeq(m.Entries, first, Len(m.Entries))

\* Mutant of NewCommit: the guard on LeaderCommit is dropped.
NewCommit_Unguarded(m, i) ==
    min(m.LeaderCommit, m.PrevLogIndex + Len(m.Entries))

\* commitIndex after the entries of a call are in the log.
NewCommit(m, i) ==
    IF m.LeaderCommit > commitIndex[i]
    THEN min(m.LeaderCommit, m.PrevLogIndex + Len(m.Entries)) ELSE commitIndex[i]

\* The Entries of a call are a slice of the sender's own log, encoded after rf.mu
\* is released.  When peer i overwrites its log in place, turning it into l, a
\* call of its that is not encoded yet may carry any mixture of the old and the
\* new fields.  (Whether append() has moved the log to another array in between
\* is up to the Go runtime.)
Overwritten(c, i, l) ==
    {q \in 1..Len(c.Entries) :
        LET n == c.PrevLogIndex + q
        IN  /\ c.from = i /\ c.inc = incarnation[i]
            /\ n <= Len(log[i]) /\ n <= Len(l) /\ log[i][n] # l[n]}
Mixture(c, l, new) ==
    [q \in 1..Len(c.Entries) |->
      [term |-> IF q \in new.term
                THEN l[c.PrevLogIndex + q].term ELSE c.Entries[q].term,
       command |-> IF q \in new.command
                   THEN l[c.PrevLogIndex + q].command ELSE c.Entries[q].command]]
Torn(c, i, l) ==
    LET some == SUBSET Overwritten(c, i, l)
    IN  {[c EXCEPT !.Entries = Mixture(c, l, new)] :
           new \in [term : some, command : some]}
Overwrite(i, l) ==
    {{f[c] : c \in appendCalls} :
       f \in {g \in [appendCalls -> UNION {Torn(c, i, l) : c \in appendCalls}] :
                \A c \in appendCalls : g[c] \in Torn(c, i, l)}}

\* The AppendEntries handler from its second Lock() on.  A call without entries
\* returns before it could advance commitIndex.
AppendEntries2(m) ==
    LET i == m.to
    IN  /\ Running
        /\ m \in appending
        /\ appending' = appending \ {m}
        /\ appendReplies' \in Sent(appendReplies, ToCaller(AppendReply(m, i)))
        /\ IF Consistent(m, log[i]) /\ m.Entries # <<>>
           THEN /\ log' = [log EXCEPT ![i] = Merge(m, @)]
                /\ persister' = persist(i, currentTerm[i], votedFor[i], log'[i])
                /\ commitIndex' = [commitIndex EXCEPT ![i] = NewCommit(m, i)]
                /\ appendCalls' \in Overwrite(i, log'[i])
           ELSE UNCHANGED <<log, persister, commitIndex, appendCalls>>
        /\ UNCHANGED <<state, currentTerm, votedFor, lastApplied, delivered,
                       leaderVars, candidateVars, voteNet, incarnation>>

\* Mutant of RollBack: one entry too far back.
RollBack_TooFar(r, l) == r.LogLen - 1

\* Where the leader's log continues after a conflict: after its last entry of
\* the conflicting term, or at the start of that term in the follower's log.
RollBack(r, l) ==
    LET same == {n \in 1..Len(l) : l[n].term = r.ConflictTerm}
    IN  IF r.ConflictIndex = 0 THEN r.LogLen
        ELSE IF same # {} THEN Max(same) + 1 ELSE r.ConflictIndex

\* Tail of sendAppendEntries(), once Call() has returned true.
sendAppendEntries(r) ==
    LET i == r.call.from
        j == r.call.to
        current == r.Term = r.call.Term
        newer == current /\ r.Term > currentTerm[i]
        last == r.call.PrevLogIndex + Len(r.call.Entries)
    IN  /\ Running
        /\ appendReplies' \in Taken(appendReplies, r)
        /\ IF newer THEN StepDown(i, r.Term)
                    ELSE UNCHANGED <<currentTerm, state, persister>>
        /\ matchIndex' = IF current /\ ~newer /\ r.Success
             THEN [matchIndex EXCEPT ![i][j] = last] ELSE matchIndex
        /\ nextIndex' = IF current /\ ~newer
             THEN [nextIndex EXCEPT ![i][j] =
                     IF r.Success THEN last + 1 ELSE RollBack(r, log[i])]
             ELSE nextIndex
        /\ UNCHANGED <<votedFor, log, commitVars, leading, candidateVars, voteNet,
                       appendCalls, appending, incarnation>>

---------------------------------------------------------------------------------
(***************************************************************************)
(* Applying, crashing and restarting                                        *)
(***************************************************************************)
\* Mutant of applier: the last entry of the log is delivered, not the next one.
applier_LastEntry(i) ==
    LET top == min(commitIndex[i], Len(log[i]))
        old == delivered[i]
    IN  /\ ~panicked
        /\ lastApplied[i] < commitIndex[i]
        /\ delivered' = [delivered EXCEPT ![i] =
             [n \in 1..(IF top > Len(old) THEN top ELSE Len(old)) |->
                IF n \in (lastApplied[i] + 1)..top THEN log[i][Len(log[i])].command ELSE old[n]]]
        /\ lastApplied' = [lastApplied EXCEPT ![i] = commitIndex[i]]
        /\ panicked' = (commitIndex[i] > Len(log[i]))
        /\ UNCHANGED <<raftVars, commitIndex, leaderVars, candidateVars, voteNet,
                       appendNet, incarnation>>

\* applier() holds the lock while it delivers everything up to commitIndex;
\* it panics at an index beyond the log.
applier(i) ==
    LET top == min(commitIndex[i], Len(log[i]))
        old == delivered[i]
    IN  /\ ~panicked
        /\ lastApplied[i] < commitIndex[i]
        /\ delivered' = [delivered EXCEPT ![i] =
             [n \in 1..(IF top > Len(old) THEN top ELSE Len(old)) |->
                IF n \in (lastApplied[i] + 1)..top THEN log[i][n].command ELSE old[n]]]
        /\ lastApplied' = [lastApplied EXCEPT ![i] = commitIndex[i]]
        /\ panicked' = (commitIndex[i] > Len(log[i]))
        /\ UNCHANGED <<raftVars, commitIndex, leaderVars, candidateVars, voteNet,
                       appendNet, incarnation>>

\* Calls to i that die with it: the handler that would run them belongs to the
\* old server object, and no live peer is there to send them again.
DeadCalls(i, calls) ==
    {m \in calls : m.to = i /\ (m.from = i \/ m.inc # incarnation[m.from])}

\* Restarts so far, for the bound.
Restarts == FoldFunction(LAMBDA m, n : m + n, 0, incarnation)

\* The persistent part of a peer is what SaveRaftState stored last.
readPersist(i) ==
    /\ currentTerm' = [currentTerm EXCEPT ![i] = persister[i].currentTerm]
    /\ votedFor' = [votedFor EXCEPT ![i] = persister[i].votedFor]
    /\ log' = [log EXCEPT ![i] = persister[i].log]

\* crash1() and start1() of the harness, then Make() with the saved state.
Restart(i) ==
    /\ Running
    /\ Restarts < MaxRestarts
    /\ incarnation' = [incarnation EXCEPT ![i] = @ + 1]
    /\ readPersist(i)
    /\ state' = [state EXCEPT ![i] = "FOLLOWER"]
    /\ commitIndex' = [commitIndex EXCEPT ![i] = 0]
    /\ lastApplied' = [lastApplied EXCEPT ![i] = 0]
    /\ nextIndex' = [nextIndex EXCEPT ![i] = Slice(0)]
    /\ matchIndex' = [matchIndex EXCEPT ![i] = Slice(0)]
    /\ voteCount' = [voteCount EXCEPT ![i] = 0]
    /\ electing' = [electing EXCEPT ![i] = {}]
    /\ starting' = [starting EXCEPT ![i] = 0]
    /\ leading' = [leading EXCEPT ![i] = 0]
    /\ voteCalls' = voteCalls \ DeadCalls(i, voteCalls)
    /\ appendCalls' = appendCalls \ DeadCalls(i, appendCalls)
    /\ appending' = {m \in appending : m.to # i}
    /\ voteReplies' = {r \in voteReplies : r.call.from # i}
    /\ appendReplies' = {r \in appendReplies : r.call.from # i}
    /\ UNCHANGED <<persister, delivered, elections>>

---------------------------------------------------------------------------------
Next ==
    \/ \E i \in Server :
         \/ candidate(i) \/ leader(i)
         \/ \E t \in electing[i] : candidatePoll(i, t)
         \/ \E c \in Command : Start(i, c)
         \/ startHeartBeat(i) \/ leaderLoop(i) \/ leaderExit(i) \/ leaderPanic(i)
         \/ applier(i) \/ Restart(i)
    \/ \E m \in voteCalls : RequestVote(m)
    \/ \E r \in voteReplies : sendRequestVote(r)
    \/ \E m \in appendCalls : AppendEntries(m)
    \/ \E m \in appending : AppendEntries2(m)
    \/ \E r \in appendReplies : sendAppendEntries(r)

Spec == Init /\ [][Next]_vars
---------------------------------------------------------------------------------
(***************************************************************************)
(* Properties                                                               *)
(***************************************************************************)
\* Every variable has its type (the Raft struct of raft.go and the RPC structs).
TypeOK ==
    /\ state \in [Server -> {"FOLLOWER", "CANDIDATE", "LEADER"}]
    /\ currentTerm \in [Server -> Nat]
    /\ votedFor \in [Server -> Server \cup {None}]
    /\ log \in [Server -> Seq(Entry)]
    /\ persister \in [Server -> Disk]
    /\ commitIndex \in [Server -> Nat]
    /\ lastApplied \in [Server -> Nat]
    /\ delivered \in [Server -> Seq(Command)]
    /\ nextIndex \in [Server -> [Server -> Nat]]
    /\ matchIndex \in [Server -> [Server -> Nat]]
    /\ voteCount \in [Server -> Nat]
    /\ electing \in [Server -> SUBSET Nat]
    /\ starting \in [Server -> Nat] /\ elections \in Nat
    /\ leading \in [Server -> Nat]
    /\ incarnation \in [Server -> Nat]
    /\ voteCalls \subseteq RequestVoteArgs
    /\ voteReplies \subseteq RequestVoteReply
    /\ appendCalls \subseteq AppendEntriesArgs
    /\ appending \subseteq AppendEntriesArgs
    /\ appendReplies \subseteq AppendEntriesReply
    /\ panicked \in BOOLEAN

\* persist() is called on every path that changes the term or the log: whenever
\* rf.mu is free, the persister holds the term and the log of the memory.
DiskMatchesMemory ==
    \A i \in Server : /\ persister[i].currentTerm = currentTerm[i]
                      /\ persister[i].log = log[i]

\* Terms only grow, whatever is restarted when (candidate(), the two handlers,
\* readPersist()).
TermNeverRegresses == [][\A i \in Server : currentTerm'[i] >= currentTerm[i]]_vars

\* The step-down branches of sendRequestVote() and sendAppendEntries(), behind
\* the test that drops every reply whose term is not the call's, never run.
RepliesNeverStepDown ==
    \A r \in voteReplies \cup appendReplies :
        r.Term = r.call.Term => r.Term <= currentTerm[r.call.from]

\* A vote binds the voter for the rest of the term, with two exceptions that
\* raft.go makes: leader() forgets it (line 176), and so does a restart, because
\* RequestVote() does not save it (line 443).  The vote of a candidate for itself
\* binds it as long as it is a candidate.
VoteBinds ==
    /\ \A r \in voteReplies :
         LET i == r.call.to
         IN  r.VoteGranted /\ r.Term = currentTerm[i] =>
               votedFor[i] = r.call.from \/ state[i] = "LEADER" \/ incarnation[i] > 0
    /\ \A i \in Server : state[i] = "CANDIDATE" => votedFor[i] = i

\* The apply checker of config.go: no two peers deliver different commands at
\* one index.
StateMachineSafety ==
    \A i, j \in Server : \A n \in 1..min(Len(delivered[i]), Len(delivered[j])) :
        delivered[i][n] = delivered[j][n]

\* What a peer takes for committed is in its own log, and in the log of a
\* majority of the peers.
CommittedOnMajority ==
    \A i \in Server :
        /\ commitIndex[i] <= Len(log[i])
        /\ Majority({j \in Server :
             /\ commitIndex[i] <= Len(log[j])
             /\ \A n \in 1..commitIndex[i] : log[j][n] = log[i][n]})

\* min(args.LeaderCommit, index of last new entry) never moves commitIndex back
\* while the peer lives: the "BUG?" of AppendEntries().
CommitNeverRetreats ==
    [][\A i \in Server :
         incarnation'[i] = incarnation[i] => commitIndex'[i] >= commitIndex[i]]_vars

\* checkOneLeader(): no term has two leaders.
ElectionSafety ==
    \A i, j \in Server :
        /\ state[i] = "LEADER" /\ state[j] = "LEADER"
        /\ currentTerm[i] = currentTerm[j]
        => i = j

\* A leader's nextIndex stays within the indices of the log, which count from 1
\* because index 0 holds the fake entry of Make().
NextIndexIsValid ==
    \A i, j \in Server : leading[i] > 0 => nextIndex[i][j] >= 1

---------------------------------------------------------------------------------
(***************************************************************************)
(* Liveness: every goroutine keeps running and every call is handled and    *)
(* answered, which the Go scheduler and a reliable labrpc network provide.   *)
(* Elections and client calls are not owed.  (The leader loop gets strong    *)
(* fairness because the bound MaxCalls may disable it now and then, which    *)
(* nothing in the code does.)                                                *)
(***************************************************************************)
Fairness ==
    \A i \in Server :
        /\ WF_vars(leader(i))
        /\ WF_vars(\E t \in electing[i] : candidatePoll(i, t))
        /\ WF_vars(startHeartBeat(i))
        /\ SF_vars(leaderLoop(i) \/ leaderExit(i) \/ leaderPanic(i))
        /\ WF_vars(applier(i))
        /\ WF_vars(\E m \in voteCalls : m.to = i /\ RequestVote(m))
        /\ WF_vars(\E r \in voteReplies : r.call.from = i /\ sendRequestVote(r))
        /\ \A beat \in BOOLEAN :
             LET Of(m, j) == j = i /\ (m.Entries = <<>>) = beat
             IN  /\ WF_vars(\E m \in appendCalls :
                              Of(m, m.to) /\ AppendEntries(m))
                 /\ WF_vars(\E m \in appending :
                              Of(m, m.to) /\ AppendEntries2(m))
                 /\ WF_vars(\E r \in appendReplies :
                              Of(r.call, r.call.from) /\ sendAppendEntries(r))
FairSpec == Spec /\ Fairness

\* Start() promises agreement as long as the leader stays leader: a command it
\* has accepted is committed there in time, unless the process panics.
StartedIsCommitted ==
    \A i \in Server, n \in 1..MaxLog :
        state[i] = "LEADER" /\ Len(log[i]) >= n ~> commitIndex[i] >= n \/ panicked

\* raft.go, "each time a new entry is committed to the log, each Raft peer should
\* send an ApplyMsg": what one peer has delivered, every peer delivers in time
\* (unless the process panics).
DeliveredEverywhere ==
    \A i, j \in Server, n \in 1..MaxLog :
        Len(delivered[i]) >= n ~> Len(delivered[j]) >= n \/ panicked
=================================================================================
