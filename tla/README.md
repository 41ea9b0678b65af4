# Verification of the 6.824 labs

TLA+ models of the distributed programs under `labs/src`, TLC runs that check
them on small instances, and TLAPS proofs of the most important properties for
every instance. Paths below are relative to the repository, line numbers refer to
the files as they are there.

## 1. The system

| part | files | state | operations | status |
|---|---|---|---|---|
| Raft peer | `raft/raft.go`, `raft/util.go` | term, vote, log, commit and apply indices, leader's `nextIndex`/`matchIndex`, the goroutines of `candidate`, `leader`, `applier` | timers, `RequestVote`, `AppendEntries`, the tails of the two send functions, heartbeats, the leader loop, `Start`, `applier`, `Make` | modelled: `Raft` |
| Persister | `raft/persister.go` | one saved state | save, read, copy | in `Raft` (contents) and `Network` (object identity); snapshots have no caller |
| Simulated network | `labrpc/labrpc.go` | enabled ends, server table, `done` | `Call`, `processReq`, `dispatch`, table operations, `Cleanup` | modelled: `Network` |
| Raft harness | `raft/config.go` | connections, saved persisters, delivered logs | `connect`, `disconnect`, `crash1`, `start1`, `cleanup`, the apply checker | partly: `Network`, `Raft` |
| MapReduce master | `mr/master.go`, `main/mrmaster.go` | task states, timestamps, two counters | `HandleAsk`, `HandleResponse`, `wait`, `Done` | modelled: `MapReduce` |
| MapReduce worker | `mr/worker.go` | task in hand, files | `Worker`, `performMap`, `performReduce` | modelled: `MapReduce` |
| Linearizability checker | `porcupine/checker.go`, `bitset.go`, `model.go`, `models/kv.go` | linked list of entries, stack of calls, cache, bitset; results channel, kill flag | `checkSingle`, `checkParallel`, `CheckOperations`, `CheckEvents` | modelled: `Porcupine` with `PorcupineHistory`, `PorcupineSearch`, `KvModel` |
| Checker visualization | `porcupine/visualization.go` | layout, selection, tooltip, hidden layers | `computeVisualizationData`, the layout, the event handlers of the page | modelled: `Porcupine`, `PartialLinearizations`, `Visualization`, `Page` |
| Clerks of the shard services, and their harness | `shardmaster/client.go`, `shardkv/client.go`, `shardkv/config.go` | configuration in use, loop positions; groups, servers that run | `Get`, `PutAppend`, `Query`, `Join`, `Leave`, `Move`; `ShutdownServer`, `StartServer` | modelled: `ShardClerk`; the servers are empty stubs, taken as external |
| kvraft | `kvraft/` | - | empty stubs | nothing to model |
| labgob, mrapps, other `main/` programs, `notes/` | | | encoding, pure functions, lecture samples | not modelled |

How they interact. Raft peers call each other through ends of the simulated
network; the harness starts, kills, connects and disconnects peers, and carries a
persister from a killed peer to its successor. A Raft peer is a set of goroutines
that share one lock; the RPC handlers, the reply handlers and the loops interleave
at every unlock. MapReduce workers ask the master for tasks over RPC and exchange
data through files in one directory, which several workers may write at once. The
clerks of the sharded store go from server to server of a group, and to the masters
for a new configuration, over the same network. The tests of the key/value labs
hand the histories of their clients to the linearizability checker, one goroutine
per key, and what it found to an HTML page.

What is hard here: interleavings at unlocks (a handler has two critical
sections; loops of an old term are still running in a new one), late, lost,
duplicated and reordered calls, restarts with what was saved, answers that arrive
after their timeout, temporary files shared by two workers, a clerk with an old
configuration, and a search that undoes its steps on shared structures while a
timeout may cut it short. The list, with the
line where each hazard bites and the properties that cover it, is in
`PROJECT.json`.

## 2. Modules

    Raft            raft.go, and what a peer sees of persister, network and harness
      MCRaft          instances for TLC
      RaftProofs      types; disk, terms, replies, votes; commits and deliveries
                      with one candidate                (EXTENDS Raft)
    MapReduce       master, workers and their directory
      MCMapReduce     instances for TLC
      MapReduceProofs   watched tasks, completion; files; counters, phases, exit
                                                        (EXTENDS MapReduce)
    RemoteCall      what a call promises                (abstract)
    Network         labrpc under the harness            (implements RemoteCall)
      MCNetwork       instances for TLC
      NetworkProofs   types, durability, links, refinement  (EXTENDS Network)
    AtLeastOnce     what a clerk promises               (abstract)
    ShardClerk      clerks and harness of the shard services  (implements AtLeastOnce)
      MCShardClerk    instances for TLC
      ClerkProofs     refinement, executed once, configurations  (EXTENDS ShardClerk)
    KvModel         the sequential store, models/kv.go
    PorcupineHistory  histories, their entries, linearizability   (EXTENDS KvModel)
    PorcupineSearch   an iteration of checkSingle, bitset.go      (EXTENDS KvModel)
    PartialLinearizations  what the script works out from them
    Porcupine       checker.go                          (EXTENDS the three above)
      MCPorcupine     instances for TLC
      LegalOrders, HistoryTheory, SearchTheory, Counting
                      what the proofs say of orders, histories, searches and sets
      PorcupineHistoryProofs  entries and partitions    (EXTENDS HistoryTheory)
      PorcupineSearchProofs   a single search           (EXTENDS SearchTheory)
      CheckerProofs   the checker, from the laws of the two theories
      PorcupineProofs the laws hold, and the theorems   (EXTENDS the three above)
    Visualization   the layout of visualization.go      (EXTENDS PartialLinearizations)
    Page            the page and its event handlers     (EXTENDS Visualization)
      MCPage          instances for TLC

`Raft` and `Network` look at the same wire from two sides. `Network` models how
labrpc produces failures, call by call. `Raft` models what a peer can observe of
that: a call may be handled late, not at all or, if the leader loop has sent it
again, more than once; a reply may be lost or arrive late; a reply never reaches a
new incarnation of the caller. `RemoteCall` is the contract between the two sides:
a handler runs at most once per call, never before it, and has finished when
`Call()` returns true; `Network` implements it, and `Raft` and `ShardClerk` rely on
nothing else.

### Raft

A variable of the `Raft` struct is a function on peers with the field's name. The
fake entry `rf.log[0]` is left out, so that indices agree with the code and
`len(rf.log) - 1` is `Len(log[i])`. An action is one critical section of `rf.mu`:

| code | action |
|---|---|
| timer expires, `candidate()` to its loop | `candidate` (guard `startElectionTimer`) |
| one deciding round of the polling loop | `candidatePoll` |
| `leader()`, first section / one round of its loop / its end | `leader` / `leaderLoop`, `leaderPanic` / `leaderExit` |
| `RequestVote()` | `RequestVote` |
| `AppendEntries()`, first and second section | `AppendEntries`, `AppendEntries2` |
| `sendRequestVote()`, `sendAppendEntries()` after the call | actions of the same names |
| `startHeartBeat()`, `Start()`, `applier()` | actions of the same names |
| `crash1()` + `start1()` + `Make()` + `readPersist()` | `Restart` |

Goroutines between two sections are state: `electing` (polling loops by term),
`starting` (spawned `leader()`), `leading` (leader loops), `appending` (handlers
between their sections). A Go panic (`leaderPanic`, `applier` beyond the log)
stops the process, in which all peers live.

The entries of an `AppendEntries` call are a slice of the sender's log that is
encoded without the lock. When the sender overwrites that part of its log in the
meantime, the call carries any mixture of old and new fields (`Overwrite`).

A call to a server that has not answered may be sent again, so with `Resend` a
handled message may stay in flight; with `Lossy` any message may be dropped when
sent. Ordering is never assumed: messages are sets.

### MapReduce

A worker and the handler that serves it are one thread of control, `pc[w]`; the
steps of the handler go on when the worker dies. A step is a critical section, an
unprotected read of shared data, or one file system call. A file is absent,
partly written or whole; `handle` says where the file that a worker has open is by
now, since renaming a file does not disturb its writers. Ten seconds are the flag
`fresh`, which `Elapse` clears; `late` tells how often that happened to a task
somebody still works on, `errors` how often a file operation failed, and `MaxFaults`
bounds their sum. Properties that
need every live worker to be in time say `late = 0`.

`HandleAsk()` keeps each lock of the tasks it passes until it returns, so what its
scan saw still holds at its end: the scan is one step.

### Network

Each start of a peer has a number that names its server object, its ends and its
persister. `servers`, `enabled` and `reliable` are the tables of labrpc; `holder[i]`
says which start's persister the harness holds for peer i, and `saved` what is in
it. The harness is one thread (`pc`, `plan`, `peer`, `todo`) that switches ends one
at a time. A call goes through `stage`, from `Begin` (entering `Call()`) to
`"succeeded"` or `"failed"`; its handler runs on its own (`ran`) and may never
return. Under the refinement mapping the status of a call is `stage` with everything
between `Begin` and the return read as pending (`Seen`), and `handled` is `ran`.

### ShardClerk

A thread is a clerk of the store or the test's own thread with the clerk of the
masters (`Mck`). `pc` says which loop it is in: `top` (looking up the group of the
key), `group` (trying the servers of that group), `sleep` (before asking the
masters) and `masters` (trying the masters). `si` is the loop index, `call` the RPC
in progress. The alternatives of a loop body are the actions `Return`, `Refresh`,
`WrongGroup`, `WrongLeader` and `Fail`.

The handlers of both services are empty in the repository. They are modelled from
what the clerks and `common.go` take them to do (`Execute`, `Err`, `Change`), and
marked external: the leader of the group that owns the shard executes and answers
`OK` or `ErrNoKey`, everybody else executes nothing and says why. A request whose
call failed may be handled later (`late`). How shards are balanced over groups is
left open: `Change` allows every assignment. Shards are handed over at the moment
the configuration changes.

Under the refinement mapping an operation is the pair of a thread and a number;
it is `new` before, `called` while `pc` is not `idle`, and `returned` after.

### Porcupine, PorcupineHistory, PorcupineSearch, KvModel

A step of a goroutine of `checkSingle()` is one iteration of its loop; it loads
`kill` at the start and otherwise touches its own data (`single[p]`) only, until it
sends its result. The alternatives of the loop body are `Linearize`, `Skip`,
`Backtrack`, `Exhausted`, and `Complete` and `Killed` for the ends; what each makes of
the locals is an operator of `PorcupineSearch` (`Advanced`, `Skipped`, `Undone`,
`Ended`), so that a single search can be reasoned about by itself. The doubly linked
list is `list.next` and `list.prev` on the numbers of entries, and `lift` and `unlift`
are the assignments of the code in their order, composed from `Unlink` and `Relink`.
A bitset is words of `Word` bits. The cache is a set of pairs of bitset and state:
the hash only selects the bucket. The caller is `checkParallel()`: `receiveResult`,
`timeout`, `drain`, `return`. `checkEvents` takes the same history through
`renumber` and `convertEntries`, `checkOperations` through `makeEntries`. `Visualize` is
`computeVisualizationData()`, whose panic is the state `panicked`.

The reference is `Linearizable`: some order of all operations of the whole history,
over all keys, respects real time and is a run of the store.

### PartialLinearizations, Visualization, Page

These have the functions of the script as operators: the linearization to
show for an operation and what may come next (`PartialLinearizations`), and the layout
(`Tweak`, `Place`), which `Fits` restates as constraints. `Page` has one action for each event handler
(`handleMouseOver`, `handleMouseMove`, `handleMouseOut`, `handleClick`,
`handleBgClick`, `jumpClick`); its variables are those of the script and the classes
it sets on elements. The histories and the families of partial linearizations are
all those the properties of `Porcupine` allow.

## 3. Runs

Passing runs:

| run | instance | what it shows | distinct states |
|---|---|---|---|
| `RaftTerms` | 2 peers, 2 elections (in one term or in two), 1 command, 1 restart | types; the disk has the term and log of the memory; votes bind; terms never regress | 228 k |
| `RaftPrimary` | 2 peers, 1 may be elected, 2 commands, lossy, resent and reordered calls | committed means on a majority; same commands everywhere; `commitIndex` never retreats | 772 k |
| `RaftProgress` | 2 peers, 1 may be elected, 1 command, fair, reliable | what `Start()` accepts is committed | small |
| `MapReduceTasks` | 2 workers, one mortal, 2 map and 2 reduce tasks, 1 fault: an I/O error or a late task; fair | tasks in progress are watched, completed is final and has its files, counters never lag; while nobody is late, counters are exact, reduce follows map, the master exits with all output and the job finishes; without errors no file is seen half written | 1.33 M |
| `NetworkCalls` | 2 peers, 1 call, 2 starts each, fair | the network implements `RemoteCall`; success is durable, links are switched both ways, calls return, also when their server is deleted | 330 k |
| `ShardClerks` | 1 clerk and the test, 2 operations each, 2 groups of 3, 2 masters, 2 shards, 1 fault, fair | the clerks implement `AtLeastOnce`; operations are executed once unless a call was lost, configurations in use are fresh, operations return | 1.26 M |
| `PorcupineChecks` | every history of at most 3 operations on 2 keys, words of 2 bits, fair | verdicts are right; list, bitset and state follow the stack of calls; partial linearizations are linearizable and the longest, the visualizer accepts and shows them, and calls illegal only what is; checks return | 620 k |
| `PorcupinePage` | every page of at most 3 operations in at most 2 partitions | the layout fits, is tight and keeps the order; what is shown, marked, jumped to and told follows the selection | 839 k |

Runs that end in a violation, each for something the repository says of itself:

| run | statement | what happens |
|---|---|---|
| `RaftTwoLeaders` | a term has at most one leader (`notes/06_Raft_1.md:132`, `config.go:323`) | `leader()` clears `votedFor` (`raft.go:176`); a `RequestVote` call of the same term that arrives later is granted by the leader, and its candidate wins too |
| `RaftNextIndex` | log indices count from 1 (`raft.go:728`) | a peer with an empty log answers a heartbeat with `LogLen` 0, which becomes `nextIndex`; the leader loop then reads `rf.log[-1]` |
| `RaftDelivery` | each peer delivers each committed entry (`raft.go:15`) | a heartbeat returns before it advances `commitIndex`: without another command followers never learn of the last commit |
| `MapReduceEarlyExit` | `Done()` is true when the job has finished (`master.go:147`) | a task that was handed out again is counted twice; the master exits with output missing |

What the last run refutes does hold as long as every live worker is in time; that is
`DoneMeansOutputInTime` in `MapReduceTasks`. The Raft properties that depend on
`ElectionSafety` are checked where the code can keep them: with one peer that ever
campaigns (`RaftPrimary`). All other properties hold without such a restriction.

Other behaviours met while modelling, which no document contradicts:

- `RequestVote()` does not save the vote (line 443 comes after the last
  `persist()`), so a restarted peer may vote twice; `VoteBinds` makes this
  exception, and the one for `leader()`, explicit.
- Both send functions first drop a reply whose term is not the call's; the
  branches that follow for newer terms are dead code (theorem
  `RepliesAreNotNewer`). A deposed leader learns of it from calls only.
- With a late worker `map_remain` can step from 1 over 0 to -1; `HandleAsk()`
  tests for 0, and no reduce task is ever handed out.
- `performReduce()` ignores the result of `Fprintf`, and renames whatever has been
  written (`IgnoredError`).
- `labs/README.md:52` says that renaming makes writes atomic. The temporary name is
  the same for all workers of a task, so a late worker and its successor can make a
  file visible half written; `FilesAreWholeInTime` says when it is not.
- A check of an empty history has no partition and no goroutine; `checkParallel()`
  then waits for its timeout, and without one forever. `CheckReturns` excepts it.
- After a timeout the page may draw as invalid what the model would accept, since
  the search did not get there; `IllegalPointsAreIllegal` excepts it.
- The clerks give their requests no identity, so an operation whose reply is lost is
  executed again; `AtLeastOnce` is all they promise.

### Bounds

`MaxElections`, `MaxLog`, `MaxRestarts`, `MaxCalls` (Raft), `MaxFaults` (MapReduce,
ShardClerk), `MaxStarts` (Network) and `MaxOps` (ShardClerk) are guards of the actions they bound. Two elections let
peers compete for one term, or depose a leader while its loops and calls go on;
one restart is enough to lose what was not saved. Two messages in
flight with `Resend` give every reordering of a call with its copy and its reply;
a log of two entries allows a shorter call to follow a longer one, which is what
truncation and `commitIndex` could get wrong. Two starts of a peer tell a server
from its successor, and one call suffices because calls do not interact in labrpc.
In `MapReduce` two workers on one task are what the timeout produces; one mortal
worker leaves one to finish the job, and a second task of each kind lets one be
handed out while another is counted. In `ShardClerk` two operations of the test can
join both groups or move a shard away under the clerk, one fault loses a reply,
replaces a leader or shuts a server down, and the clerk's second operation starts
with the configuration the first one left. `MaxOps` bounds the input of `Porcupine`
and `Page`, whose runs then take every history and every schedule: three operations
of one key are needed to lift, backtrack and hit the cache, a second key makes two
goroutines compete for the kill flag, and three operations with words of two bits
use two words. Three operations also are the fewest whose boxes overlap in a chain.
Symmetry permutes peers of the same role and
commands, in runs of safety properties only.

Deadlock is not checked: every system here may stop (bounds exhausted, job
finished, network cleaned up).

### Fairness

- Raft: goroutines are scheduled, and calls on a reliable network are handled and
  answered. Heartbeats and calls with entries get fairness separately, because
  each call has a goroutine of its own. The leader loop gets strong fairness
  because the bound `MaxCalls` disables it at times, which no code does.
  Elections, clients and restarts owe nothing.
- ShardClerk: clerks run, calls return, and a group with a majority of its servers
  elects a leader. Nothing is owed by the test, by late requests and by servers that
  were shut down: `OperationsReturn` speaks of the times at which the group of the key
  has a leader.
- Porcupine: the caller and its goroutines are scheduled; the timeout never has to
  fire. One condition for all of them is enough, since they take finitely many steps.
- MapReduce: workers that are alive go on, handlers and `wait()` are scheduled,
  `mrmaster` keeps polling and time passes. Crashes owe nothing.
- Network: the goroutines of `Call()` and `processReq()` are scheduled. The
  harness and the handlers owe nothing; `CallReturns` excepts handlers that never
  return, as the comment on `Call()` does.

## 4. Proofs

All theorems hold for every set of peers, commands, calls, workers, tasks, clerks,
keys, groups, inputs and histories and every value of the bounds, from the `ASSUME`s of the
modules alone (finite sets, bounds are natural numbers, `None` is not a peer, a word has
a bit, keys are integers). The last three theorems of `RaftProofs` assume
`OnePrimary` in addition: there is a peer such that no other starts an election. Without
it the argument has no footing in this code: a term can have two leaders
(`RaftTwoLeaders`).

| theorem | statement |
|---|---|
| `RaftProofs!TypeCorrect` | `Spec => []TypeOK` |
| `RaftProofs!DiskCorrect` | `Spec => []DiskMatchesMemory` |
| `RaftProofs!TermsGrow` | `Spec => TermNeverRegresses` |
| `RaftProofs!RepliesAreNotNewer` | `Spec => []RepliesNeverStepDown` |
| `RaftProofs!VotesBind` | `Spec => []VoteBinds` |
| `RaftProofs!DeliveriesAgree` | `OnePrimary`: `Spec => []StateMachineSafety` |
| `RaftProofs!CommitsAreHeld` | `OnePrimary`: `Spec => []CommittedOnMajority` |
| `RaftProofs!CommitsGrow` | `OnePrimary`: `Spec => CommitNeverRetreats` |
| `NetworkProofs!TypeCorrect` | `Spec => []TypeOK` |
| `NetworkProofs!SuccessSurvives` | `Spec => []SuccessIsDurable` |
| `NetworkProofs!LinksFollowConnections` | `Spec => []EndsFollowConnections` |
| `NetworkProofs!CallsAreRemoteCalls` | `Spec => ImplementsRemoteCall` |
| `ClerkProofs!ClerksAreAtLeastOnce` | `Spec => ImplementsAtLeastOnce` |
| `ClerkProofs!ExecutedOnce` | `Spec => []OnceUnlessLost` |
| `ClerkProofs!ConfigsAreFresh` | `Spec => []ConfigIsFresh` |
| `ClerkProofs!ConfigsAdvance` | `Spec => [][Forward]_vars` |
| `MapReduceProofs!TypeCorrect` | `Spec => []TypeOK` |
| `MapReduceProofs!HandedOutIsTimed` | `Spec => []InProgressIsTimed` |
| `MapReduceProofs!CompletionIsFinal` | `Spec => CompletedIsFinal` |
| `MapReduceProofs!CompletionHasFiles` | `Spec => []CompletedHasFiles` |
| `MapReduceProofs!FinalFilesAreWhole` | `Spec => []FilesAreWholeInTime` |
| `MapReduceProofs!CountersNeverLag` | `Spec => []RemainNeverLags` |
| `MapReduceProofs!CountersAreExact` | `Spec => []RemainIsExact` |
| `MapReduceProofs!ReduceFollowsMap` | `Spec => []ReduceAfterMap` |
| `MapReduceProofs!ExitHasOutput` | `Spec => []DoneMeansOutputInTime` |
| `PorcupineProofs!CheckerTypes` | `Spec => []TypeOK` |
| `PorcupineProofs!VerdictsAreRight` | `Spec => []VerdictIsRight` |
| `PorcupineProofs!SearchesMatch` | `Spec => []SearchMatchesCalls` |
| `PorcupineProofs!PartialsAreRight` | `Spec => []PartialsAreLinearizable` |
| `PorcupineProofs!LongestIsKept` | `Spec => []LongestIsLongest` |
| `PorcupineProofs!PictureShowsLongest` | `Spec => []VisualizerShowsLongest` |
| `PorcupineProofs!DrawnErrorsAreErrors` | `Spec => []IllegalPointsAreIllegal` |

Raft, types. `TypeOK` is not inductive: `applier` fills the delivered log up to
`commitIndex`, so `Seq(Command)` needs `lastApplied <= Len(delivered)`. `TypeInv`
adds this and groups the conjuncts by the variables that change together. The
work is in the helpers: `FirstOfTerm`, `RollBack`, `Merge` and `Overwrite` return
indices, logs and calls.

Raft, votes. `DiskMatchesMemory` is inductive with the types: every action that
changes term or log saves both, and `Restart` reads what was saved. `TermsGrow`
follows, since only `Restart` could lower a term. `CallInv` says that a call is
never newer than its caller in the incarnation that made it, and a reply's call
never newer than the caller; an incarnation that has ended gets no replies.
`VotesBind` needs in addition that no reply of a voter is newer than the voter: as
long as the term stays, only `leader()` and `Restart` change a vote once given.

Raft, one primary. The primary may campaign and restart any number of times, the others
restart, and calls and replies are lost, repeated and reordered. `LogInv` says that every
log is a prefix of the primary's, and `SegmentInv` that every call carries a piece of that
log and a commit index that the piece reaches and a majority has. So a consistent call
agrees with the log it meets, and `Merge` keeps or extends it, never cuts it
(`MergeGrows`); no entry is ever overwritten, and no call is torn (`TornSame`). Since logs
only grow, a reported success stays true (`SuccessInv`), `matchIndex` is a lower bound of
what a peer has (`MatchInv`) and a majority by `matchIndex` is one by logs (`CommitInv`).
`DeliverInv` says that all deliveries are taken from the primary's log. `LeaderCommit` is
never beyond the entries of its call, which is why the minimum in `AppendEntries()` does
not move `commitIndex` back. `RaftPrimary` checks the same with two peers and no restart.

Network, durability. `ServerInv` says that a server in the table saves into the
persister the harness holds, and is out of the table before the harness supersedes
that persister, never to come back. `SavedInv` says that what a handler did is in
the harness's persister unless that has been superseded since. `processReq()`
looks at the table after the handler is done: if the server is still there, the
first case applies, and stays true however late the reply is delivered.

Network, links. `LinkInv` follows the loops: while `connect()` runs, the enabled
ends and those to come are the ends between connected peers; while the other
operations run, the enabled ends without those to come are.

Network, refinement. The handler of a call starts only while the call is pending, and
a reply is received only after `ran` is done; `processReq()` has no other way to
`"succeeded"`.

Clerks. `Types` says that an operation that has begun is one of `Op` and that calls are
made in the loops only. `AnswerInv` says that an answer `OK` or `ErrNoKey` that waits to
be read belongs to an operation that was executed, and that `ErrNoKey` answers a
`Get()` only: it is what `Return` needs to map to the abstract `Return`. All other steps
of a thread are invisible (`Unseen`), and late handlers map to `Execute`. `OnceInv`
strengthens `OnceUnlessLost`: while no call was lost there are no late requests, and an
operation in progress was executed only if an accepting answer is waiting.
`FreshInv` says that the masters number their configurations one by one, and that an
answer of theirs that waits to be read is no older than the latest configuration at the
time the clerk asked, nor than the one it has; so it never goes back (`Forward`).

MapReduce, tasks. `WatchInv` adds to `InProgressIsTimed` that an idle task has no
`wait()` goroutine; `CompletedIsFinal` follows, because only `Allocate`, which needs an
idle task, and `wait()`, which leaves a completed one alone, could undo it. `AloneInv` is
what being in time means: while `late = 0` a busy worker holds a task that is in
progress and fresh, and nobody else is at it. It carries all that follows.

MapReduce, files. `WorkOK` says which files of its task a worker has put in place at
each step, and final names are never removed, so `CompletedHasFiles` holds with late
workers too. `WholeInv` needs `AloneInv`: a worker that is alone at its task writes to the
temporary name, and what it is about to rename is whole.

MapReduce, counters. A response completes its task and is counted later; the lemmas
on cardinalities say how `Uncompleted` and `Counting` change at each of the two steps.
Without `AloneInv` a second response only makes the counter smaller, which is
`RemainNeverLags`; with it the counter is exact. `PhaseInv` says that a scan for reduce
tasks that has begun saw all map tasks completed, and that an exit saw all reduce
tasks completed, since an exact counter is zero only then.

The checker. Four modules, of which the first three do not see each other's proofs: a
theory module states the laws one side needs of the other, and `PorcupineProofs` puts
them together. `Counting` lists in the same way the facts about least numbers and
cardinalities that the proofs use, each a theorem of the library of finite sets.

- A history (`PorcupineHistoryProofs`). The entries that `makeEntries` gives for a key,
  and those of `renumber` and `convertEntries`, stand for its operations (`Stands`): a
  call and a later return for each, with their values, in the order of time. So the
  entries of all partitions divide the history (`PartitionLaw`, `EventsLaw`). Then the
  claim that `model.go` makes of `Partition` (`VerdictLaw`): linearizations of the keys
  are merged into one of the whole history by always taking the next operation of the
  key whose operation returned first among those that are not placed; and a
  linearization of the whole, restricted to a key, is one of the key.
- A search (`PorcupineSearchProofs`). `Matched` strengthens `SearchMatchesCalls`: every
  call on the stack was taken from the list its predecessors left, and it and its
  return still point to their neighbours of that moment, which is why `unlift` in
  reverse order restores the list. `Tried` is why the search is complete: at every level
  of the stack all entries before the current one are calls that lead nowhere
  (`Futile`), and everything cached leads nowhere or is on the stack, so what the cache
  skips was rightly skipped. A return that is reached ends a level: whatever could come
  next was tried (`ReturnSettles`). *To lead nowhere* (`Settled`) also says, with
  `computeInfo`, that for every operation of what was tried something as long is kept,
  which gives `LongestIsLongest`. `Kept` says that what is kept is linearizable.
- The checker (`CheckerProofs`). `CheckerInv` adds the caller: as many searches are done as
  results were sent (`Counted`), a bad result comes from a partition that has no
  linearization unless the search was killed, and it is killed only after a timeout or
  an answer that no longer matters (`Answers`). The properties follow from it.

All of it is by induction on numbers, with the numbers that have a property as a set
(`NatInd`), and needs no recursion but that of the runs of the store, which are unique.

Only model-checked: everything under fairness and `ENABLED` (out of the prover's
reach), so that `CheckReturns` and the other liveness properties stay with TLC; and the
page. The layout of the page is a fold over sorted time stamps, and that it fits is a
statement about the result of a recursion over data; its handlers work on what the
layout and the search give for small pages, all of which `PorcupinePage` takes.

## 5. Possible extensions

- A replicated log that `Raft` with one electable peer implements; the invariant of
  `RaftProofs` has what the mapping needs.
- A job, in which tasks are done once, that `MapReduce` implements while `late = 0`.

## 6. What is not modelled

- `labgob` wraps an encoder and warns about types; what is visible of it, that a slice
  is encoded after the lock is released, is in `Raft`.
- The handlers of `kvraft`, `shardmaster` and `shardkv`, and the clerk of `kvraft`, are
  empty stubs. Their `config.go` repeat that of `raft`, which `Network` models.
- Map and reduce functions and the contents of files, and keys and values of the
  sequential runner, are data that no property tells apart.
- Command-line programs other than `mrmaster` and `mrworker` parse arguments for packages
  that are not in the repository; `notes/` has lecture samples.
- How the page draws shapes, where it puts rows, and the wording.
- Real time. Timers may fire at any moment, and long delays are late steps. How long a
  leader stays in office although its own heartbeats do not reset its election timer
  is a question of milliseconds that the models do not ask.
- A service on top of Raft that calls back while `applier()` holds the lock: there is
  none in the repository. The applier of a killed peer delivers nothing after
  `Restart`; in the code it may finish its batch.
- Reads that change nothing (`GetState`, `nCommitted`, `checkOneLeader`, statistics), and
  the snapshots of `persister.go`, which nobody calls.
