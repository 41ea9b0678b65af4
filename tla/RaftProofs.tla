------------------------------- MODULE RaftProofs -------------------------------
(***************************************************************************)
(* The Raft peer, for any number of peers, commands and restarts and any   *)
(* bounds: type correctness, terms, persistence, calls and votes; and,     *)
(* when a single peer ever campaigns, that what is committed and delivered *)
(* is the same everywhere, whatever the network does.                      *)
(***************************************************************************)
EXTENDS Raft, TLAPS

---------------------------------------------------------------------------------
(***************************************************************************)
(* Facts about the helpers                                                  *)
(***************************************************************************)
\* What the proofs use of the numbers and of finite sets: numbers have a least one, and some
\* peers are no more than all the peers they are among.  It is proved at the end, where the
\* library of finite sets comes in.
Counting ==
    /\ \A S \in SUBSET Nat : S # {} => \E x \in S : \A n \in S : x <= n
    /\ \A S \in SUBSET Server : Cardinality(S) \in Nat /\ (S # {} => Cardinality(S) # 0)
    /\ \A T \in SUBSET Server : \A S \in SUBSET T : Cardinality(S) <= Cardinality(T)

\* A nonempty set of naturals has a least element, which Min returns.
LEMMA MinOfNat ==
    ASSUME Counting, NEW S \in SUBSET Nat, S # {}
    PROVE  /\ Min(S) \in S
           /\ \A n \in S : Min(S) <= n
<1>1. \E x \in S : \A n \in S : x <= n
  BY Zenon DEF Counting
<1> QED
  BY <1>1, Zenon DEF Min

\* Sequences are functions on their indices, and the functions on 1 .. n are sequences.
LEMMA SeqIs ==
    ASSUME NEW S, NEW seq \in Seq(S)
    PROVE  Len(seq) \in Nat /\ seq \in [1..Len(seq) -> S] /\ DOMAIN seq = 1..Len(seq)
OBVIOUS

\* Elements of a sequence are elements of its range.
LEMMA SeqAt ==
    ASSUME NEW S, NEW seq \in Seq(S), NEW n \in 1..Len(seq)
    PROVE  seq[n] \in S
OBVIOUS

\* A function on 1 .. n is a sequence of length n.
LEMMA SeqFrom ==
    ASSUME NEW S, NEW n \in Nat, NEW f \in [1..n -> S]
    PROVE  f \in Seq(S) /\ Len(f) = n
OBVIOUS

\* A nonempty set of naturals with an upper bound has a greatest element, which
\* Max returns.
LEMMA MaxOfNat ==
    ASSUME Counting, NEW k \in Nat, NEW S, S \subseteq 0..k, S # {}
    PROVE  /\ Max(S) \in S
           /\ \A n \in S : n <= Max(S)
<1> DEFINE T == {k - n : n \in S}
<1>1. T \in SUBSET Nat
  <2>1. ASSUME NEW n \in S
        PROVE  k - n \in Nat
    OBVIOUS
  <2>2. QED
    BY <2>1, Zenon
<1>2. T # {}
  BY Zenon
<1>3. PICK x \in T : \A y \in T : x <= y
  BY <1>1, <1>2, MinOfNat, Zenon
<1>4. PICK z \in S : x = k - z
  BY Zenon
<1>5. ASSUME NEW y \in S
      PROVE  z >= y
  <2>1. k - y \in T
    BY Zenon
  <2>2. k - z <= k - y
    BY <1>3, <1>4, <2>1, Zenon
  <2>3. z \in Int /\ y \in Int
    OBVIOUS
  <2>4. QED
    BY <2>2, <2>3
<1>6. QED
  BY <1>5, Zenon DEF Max

\* The term at an index of a log, or at the fake entry, is a natural number.
LEMMA TermAtType ==
    ASSUME NEW l \in Seq(Entry), NEW k \in 0..Len(l)
    PROVE  TermAt(l, k) \in Nat
<1>1. CASE k = 0
  BY <1>1, Zenon DEF TermAt
<1>2. CASE k # 0
  <2>1. l[k] \in Entry
    BY <1>2, SeqAt
  <2>2. QED
    BY <1>2, <2>1, Zenon DEF TermAt, Entry
<1>3. QED
  BY <1>1, <1>2, Zenon

\* FirstOfTerm returns an index of the log, or 0.
LEMMA FirstOfTermType ==
    ASSUME Counting, NEW l \in Seq(Entry), NEW k \in 0..Len(l)
    PROVE  FirstOfTerm(l, k) \in 0..k
<1> DEFINE starts == {n \in 1..k : TermAt(l, n - 1) # TermAt(l, k)}
<1>1. CASE starts = {}
  BY <1>1 DEF FirstOfTerm
<1>2. CASE starts # {}
  <2>1. k \in Nat /\ starts \subseteq 0..k
    OBVIOUS
  <2>2. Max(starts) \in starts
    BY <1>2, <2>1, MaxOfNat, Zenon
  <2>3. QED
    BY <1>2, <2>1, <2>2, Zenon DEF FirstOfTerm
<1>3. QED
  BY <1>1, <1>2, Zenon

\* RollBack returns an index for nextIndex.
LEMMA RollBackType ==
    ASSUME Counting, NEW r \in AppendEntriesReply, NEW l \in Seq(Entry)
    PROVE  RollBack(r, l) \in Nat
<1> DEFINE same == {n \in 1..Len(l) : l[n].term = r.ConflictTerm}
<1>1. r.LogLen \in Nat /\ r.ConflictIndex \in Nat
  BY Zenon DEF AppendEntriesReply
<1>2. CASE same = {}
  BY <1>1, <1>2, Zenon DEF RollBack
<1>3. CASE same # {}
  <2>1. Max(same) \in same
    <3>1. Len(l) \in Nat
      BY SeqIs, Zenon
    <3>2. same \subseteq 0..Len(l)
      BY <3>1
    <3> HIDE DEF same
    <3> QED
      BY <1>3, <3>1, <3>2, MaxOfNat, Zenon
  <2>2. QED
    BY <1>1, <1>3, <2>1 DEF RollBack
<1>4. QED
  BY <1>2, <1>3, Zenon

\* The part of a log after an index is a sequence of entries.
LEMMA SubSeqType ==
    ASSUME NEW l \in Seq(Entry), NEW j \in Nat, NEW k \in Nat, j >= 1, k <= Len(l)
    PROVE  /\ SubSeq(l, j, k) \in Seq(Entry)
           /\ Len(SubSeq(l, j, k)) = IF j <= k THEN k - j + 1 ELSE 0
           /\ \A n \in 1..(k - j + 1) : SubSeq(l, j, k)[n] = l[j + n - 1]
<1>1. \A n \in j..k : l[n] \in Entry
  BY SeqAt
<1>2. QED
  BY <1>1

\* A consistent call merges into a log.
LEMMA MergeType ==
    ASSUME Counting, NEW m \in AppendEntriesArgs, NEW l \in Seq(Entry), Consistent(m, l)
    PROVE  Merge(m, l) \in Seq(Entry)
<1> DEFINE first == Min(NewEntries(m, l))
<1>1. m.PrevLogIndex \in Nat /\ m.Entries \in Seq(Entry) /\ m.PrevLogIndex <= Len(l)
  BY DEF AppendEntriesArgs, Consistent, TooShort
<1>2. CASE NewEntries(m, l) = {}
  BY <1>2, Zenon DEF Merge
<1>3. CASE NewEntries(m, l) # {}
  <2>0. NewEntries(m, l) \in SUBSET Nat
    BY DEF NewEntries
  <2>1. first \in NewEntries(m, l) /\ \A n \in NewEntries(m, l) : first <= n
    BY <1>3, <2>0, MinOfNat, Zenon
  <2>2. first \in 1..Len(m.Entries)
    BY <2>1, Zenon DEF NewEntries
  <2>3. m.PrevLogIndex + first - 1 <= Len(l)
    <3>1. CASE first = 1
      BY <1>1, <3>1
    <3>2. CASE first # 1
      <4>1. PICK p \in 1..Len(m.Entries) : first = p + 1
        <5>1. first - 1 \in 1..Len(m.Entries) /\ first = (first - 1) + 1
          BY <2>2, <3>2
        <5>2. QED
          BY <5>1, Zenon
      <4>2. p \notin NewEntries(m, l)
        BY <2>1, <4>1
      <4>3. m.PrevLogIndex + p <= Len(l)
        BY <1>1, <4>2, SeqIs DEF NewEntries
      <4>4. QED
        BY <1>1, <4>1, <4>3
    <3>3. QED
      BY <3>1, <3>2, Zenon
  <2>4. SubSeq(l, 1, m.PrevLogIndex + first - 1) \in Seq(Entry)
    BY <1>1, <2>2, <2>3, SubSeqType
  <2>5. SubSeq(m.Entries, first, Len(m.Entries)) \in Seq(Entry)
    BY <1>1, <2>2, SubSeqType
  <2>6. QED
    BY <1>3, <2>4, <2>5 DEF Merge
<1>4. QED
  BY <1>2, <1>3, Zenon

\* A call that was encoded while its sender overwrote its log is still a call.
LEMMA TornType ==
    ASSUME NEW c \in AppendEntriesArgs, NEW i, NEW l \in Seq(Entry),
           NEW d \in Torn(c, i, l)
    PROVE  /\ d \in AppendEntriesArgs
           /\ d = [c EXCEPT !.Entries = d.Entries]
           /\ Len(d.Entries) = Len(c.Entries)
<1>1. c.Entries \in Seq(Entry) /\ c.PrevLogIndex \in Nat
  BY Zenon DEF AppendEntriesArgs
<1> DEFINE some == SUBSET Overwritten(c, i, l)
<1>2. PICK new \in [term : some, command : some] :
        d = [c EXCEPT !.Entries = Mixture(c, l, new)]
  BY Zenon DEF Torn
<1> DEFINE e == Mixture(c, l, new)
<1>3. ASSUME NEW q \in 1..Len(c.Entries)
      PROVE  e[q] \in Entry
  <2>1. c.Entries[q] \in Entry
    BY <1>1, SeqAt, Zenon
  <2>2. q \in Overwritten(c, i, l) => l[c.PrevLogIndex + q] \in Entry
    BY <1>1, SeqAt DEF Overwritten
  <2>3. e[q] = [term |-> IF q \in new.term THEN l[c.PrevLogIndex + q].term
                                           ELSE c.Entries[q].term,
                command |-> IF q \in new.command THEN l[c.PrevLogIndex + q].command
                                                 ELSE c.Entries[q].command]
    BY Zenon DEF Mixture
  <2>4. QED
    BY <1>2, <2>1, <2>2, <2>3 DEF Entry
<1>4. e \in Seq(Entry) /\ Len(e) = Len(c.Entries)
  <2>1. Len(c.Entries) \in Nat /\ DOMAIN e = 1..Len(c.Entries)
    BY <1>1, SeqIs, Zenon DEF Mixture
  <2>2. e = [q \in 1..Len(c.Entries) |-> e[q]]
    BY Zenon DEF Mixture
  <2>3. e \in [1..Len(c.Entries) -> Entry]
    BY <1>3, <2>1, <2>2, Zenon
  <2>4. QED
    BY <2>1, <2>3, SeqIs
<1>5. d = [c EXCEPT !.Entries = e]
  BY <1>2, Zenon
<1> HIDE DEF e
<1>6. d.Entries = e
  BY <1>5, Zenon DEF AppendEntriesArgs
<1>7. QED
  BY <1>4, <1>5, <1>6, Zenon DEF AppendEntriesArgs
\* The network holds no message that was not in flight or sent.

\* Sending adds nothing but what is sent.
LEMMA SentSubset ==
    ASSUME NEW net, NEW msgs, NEW after \in Sent(net, msgs)
    PROVE  net \subseteq after /\ after \subseteq net \cup msgs
BY Zenon DEF Sent

\* Handling a message adds none.
LEMMA TakenSubset ==
    ASSUME NEW net, NEW m, NEW after \in Taken(net, m)
    PROVE  net \ {m} \subseteq after /\ after \subseteq net
BY Zenon DEF Taken

\* Overwriting a log turns calls into calls that differ in their entries only.
LEMMA OverwriteType ==
    ASSUME appendCalls \subseteq AppendEntriesArgs, NEW i, NEW l \in Seq(Entry),
           NEW after \in Overwrite(i, l)
    PROVE  \A d \in after : \E c \in appendCalls : d \in Torn(c, i, l)
BY DEF Overwrite

\* The greatest entry that may be committed is an index of the log.
LEMMA CommittableType ==
    ASSUME Counting, NEW i \in Server, commitIndex[i] \in Nat, Len(log[i]) \in Nat,
           Committable(i) # {}
    PROVE  Max(Committable(i)) \in 1..Len(log[i])
<1>1. \A n \in Committable(i) : n \in (commitIndex[i] + 1)..Len(log[i])
  BY Zenon DEF Committable
<1> DEFINE M == Committable(i)
<1>2. M \subseteq 0..Len(log[i]) /\ M \subseteq 1..Len(log[i]) /\ M # {}
  BY <1>1
<1> HIDE DEF M
<1>3. Max(M) \in M
  BY <1>2, MaxOfNat, Zenon
<1>4. QED
  BY <1>2, <1>3, Zenon DEF M

---------------------------------------------------------------------------------
(***************************************************************************)
(* Type correctness                                                         *)
(***************************************************************************)
\* The types of the variables, in the groups that actions leave alone together.
RaftTypes ==
    /\ state \in [Server -> {"FOLLOWER", "CANDIDATE", "LEADER"}]
    /\ currentTerm \in [Server -> Nat]
    /\ votedFor \in [Server -> Server \cup {None}]
    /\ log \in [Server -> Seq(Entry)]
    /\ persister \in [Server -> Disk]
\* That applier() leaves no gap in what it has delivered depends on lastApplied
\* not being ahead of it, which TypeOK does not say.
CommitTypes ==
    /\ commitIndex \in [Server -> Nat]
    /\ lastApplied \in [Server -> Nat]
    /\ delivered \in [Server -> Seq(Command)]
    /\ panicked \in BOOLEAN
    /\ ~panicked => \A i \in Server : lastApplied[i] <= Len(delivered[i])
LeaderTypes ==
    /\ nextIndex \in [Server -> [Server -> Nat]]
    /\ matchIndex \in [Server -> [Server -> Nat]]
    /\ leading \in [Server -> Nat]
CandidateTypes ==
    /\ voteCount \in [Server -> Nat]
    /\ electing \in [Server -> SUBSET Nat]
    /\ starting \in [Server -> Nat] /\ elections \in Nat
VoteTypes ==
    /\ voteCalls \subseteq RequestVoteArgs
    /\ voteReplies \subseteq RequestVoteReply
AppendTypes ==
    /\ appendCalls \subseteq AppendEntriesArgs
    /\ appending \subseteq AppendEntriesArgs
    /\ appendReplies \subseteq AppendEntriesReply
IncarnationTypes == incarnation \in [Server -> Nat]

TypeInv == /\ RaftTypes /\ CommitTypes /\ LeaderTypes /\ CandidateTypes
           /\ VoteTypes /\ AppendTypes /\ IncarnationTypes

\* Each group of types depends on its own variables only.
LEMMA TypeFrame ==
    /\ RaftTypes /\ UNCHANGED raftVars => RaftTypes'
    /\ CommitTypes /\ UNCHANGED <<commitVars, panicked>> => CommitTypes'
    /\ LeaderTypes /\ UNCHANGED leaderVars => LeaderTypes'
    /\ CandidateTypes /\ UNCHANGED candidateVars => CandidateTypes'
    /\ VoteTypes /\ UNCHANGED voteNet => VoteTypes'
    /\ AppendTypes /\ UNCHANGED appendNet => AppendTypes'
    /\ IncarnationTypes /\ UNCHANGED incarnation => IncarnationTypes'
<1>1. RaftTypes /\ UNCHANGED raftVars => RaftTypes'
  BY Zenon DEF RaftTypes, raftVars
<1>2. CommitTypes /\ UNCHANGED <<commitVars, panicked>> => CommitTypes'
  BY DEF CommitTypes, commitVars
<1>3. LeaderTypes /\ UNCHANGED leaderVars => LeaderTypes'
  BY Zenon DEF LeaderTypes, leaderVars
<1>4. CandidateTypes /\ UNCHANGED candidateVars => CandidateTypes'
  BY Zenon DEF CandidateTypes, candidateVars
<1>5. VoteTypes /\ UNCHANGED voteNet => VoteTypes'
  BY Zenon DEF VoteTypes, voteNet
<1>6. AppendTypes /\ UNCHANGED appendNet => AppendTypes'
  BY Zenon DEF AppendTypes, appendNet
<1>7. IncarnationTypes /\ UNCHANGED incarnation => IncarnationTypes'
  BY Zenon DEF IncarnationTypes
<1>8. QED
  BY <1>1, <1>2, <1>3, <1>4, <1>5, <1>6, <1>7, Zenon

\* A reply with a newer term keeps the types.
LEMMA StepDownType ==
    ASSUME RaftTypes, NEW i \in Server, NEW t \in Nat, StepDown(i, t),
           UNCHANGED <<votedFor, log>>
    PROVE  RaftTypes'
<1>1. persister' \in [Server -> Disk]
  BY Zenon DEF StepDown, persist, Disk, RaftTypes
<1>2. QED
  BY <1>1, Zenon DEF StepDown, RaftTypes

\* So does adopting the term of a call.
LEMMA AdoptTermType ==
    ASSUME RaftTypes, NEW i \in Server, NEW t \in Nat, AdoptTerm(i, t),
           votedFor' \in [Server -> Server \cup {None}], UNCHANGED log
    PROVE  RaftTypes'
<1>1. persister' \in [Server -> Disk]
  BY Zenon DEF AdoptTerm, persist, Disk, RaftTypes
<1>2. state' \in [Server -> {"FOLLOWER", "CANDIDATE", "LEADER"}]
  BY Zenon DEF AdoptTerm, RaftTypes
<1>3. QED
  BY <1>1, <1>2, Zenon DEF AdoptTerm, RaftTypes

\* What applier() has delivered is a sequence of commands that covers lastApplied.
LEMMA ApplierType ==
    ASSUME RaftTypes, CommitTypes, NEW i \in Server, applier(i)
    PROVE  CommitTypes'
<1> DEFINE top == min(commitIndex[i], Len(log[i]))
           len == IF top > Len(delivered[i]) THEN top ELSE Len(delivered[i])
           after == [n \in 1..len |->
                       IF n \in (lastApplied[i] + 1)..top
                       THEN log[i][n].command ELSE delivered[i][n]]
<1>1. /\ log[i] \in Seq(Entry) /\ Len(log[i]) \in Nat
      /\ delivered[i] \in Seq(Command) /\ Len(delivered[i]) \in Nat
      /\ commitIndex[i] \in Nat /\ lastApplied[i] \in Nat
  BY SeqIs, Zenon DEF RaftTypes, CommitTypes
<1>2. /\ top \in Nat /\ top <= Len(log[i]) /\ len \in Nat /\ top <= len
      /\ Len(delivered[i]) <= len /\ (len = top \/ len = Len(delivered[i]))
      /\ commitIndex[i] <= Len(log[i]) => top = commitIndex[i]
  BY <1>1 DEF min
<1>3. lastApplied[i] <= Len(delivered[i])
  BY Zenon DEF applier, CommitTypes
<1>4. /\ delivered' = [delivered EXCEPT ![i] = after]
      /\ lastApplied' = [lastApplied EXCEPT ![i] = commitIndex[i]]
      /\ panicked' = (commitIndex[i] > Len(log[i]))
      /\ UNCHANGED commitIndex
      /\ ~panicked
  BY Zenon DEF applier
<1> HIDE DEF top, len
<1>5. ASSUME NEW n \in 1..len
      PROVE  after[n] \in Command
  <2>1. CASE n \in (lastApplied[i] + 1)..top
    <3>1. log[i][n] \in Entry
      BY <1>1, <1>2, <2>1, SeqAt
    <3>2. QED
      BY <2>1, <3>1, Zenon DEF Entry
  <2>2. CASE n \notin (lastApplied[i] + 1)..top
    <3>1. n \in 1..Len(delivered[i])
      BY <1>1, <1>2, <1>3, <2>2
    <3>2. delivered[i][n] \in Command
      BY <1>1, <3>1, SeqAt, Zenon
    <3>3. QED
      BY <2>2, <3>2, Zenon
  <2>3. QED
    BY <2>1, <2>2, Zenon
<1>6. after \in Seq(Command) /\ Len(after) = len
  <2>1. after \in [1..len -> Command]
    BY <1>5, Zenon
  <2>2. QED
    BY <1>2, <2>1, SeqFrom, SeqIs
<1> HIDE DEF after
<1>7. delivered' \in [Server -> Seq(Command)] /\ delivered'[i] = after
  BY <1>4, <1>6, Zenon DEF CommitTypes
<1>8. panicked' \in BOOLEAN
  BY <1>4
<1>9. ASSUME ~panicked', NEW j \in Server
      PROVE  lastApplied'[j] <= Len(delivered'[j])
  <2>0. ~(commitIndex[i] > Len(log[i]))
    BY <1>4, <1>9, Zenon
  <2>1. commitIndex[i] <= Len(log[i])
    BY <1>1, <2>0
  <2>2. CASE j = i
    BY <1>1, <1>2, <1>4, <1>6, <1>7, <2>1, <2>2, Zenon DEF CommitTypes
  <2>3. CASE j # i
    BY <1>4, <2>3, Zenon DEF CommitTypes
  <2>4. QED
    BY <2>2, <2>3, Zenon
<1>10. QED
  BY <1>1, <1>4, <1>7, <1>8, <1>9, Zenon DEF CommitTypes

\* The state Make() builds is well-typed.
LEMMA TypeInit == Init => TypeInv
<1> SUFFICES ASSUME Init
             PROVE  TypeInv
  BY Zenon
<1>1. RaftTypes
  BY DEF Init, RaftTypes, Disk
<1>2. CommitTypes
  <2>1. panicked \in BOOLEAN
    BY Zenon DEF Init
  <2>2. QED
    BY <2>1 DEF Init, CommitTypes
<1>3. LeaderTypes /\ CandidateTypes /\ IncarnationTypes
  BY Zenon DEF Init, Slice, LeaderTypes, CandidateTypes, IncarnationTypes
<1>4. VoteTypes /\ AppendTypes
  BY Zenon DEF Init, VoteTypes, AppendTypes
<1>5. QED
  BY <1>1, <1>2, <1>3, <1>4, Zenon DEF TypeInv

\* Every step preserves the types, one action at a time.
LEMMA TypeStep ==
    ASSUME Counting
    PROVE  TypeInv /\ [Next]_vars => TypeInv'
<1> SUFFICES ASSUME TypeInv, [Next]_vars
             PROVE  TypeInv'
  BY Zenon
<1> USE DEF TypeInv, Running
<1>1. ASSUME NEW i \in Server, candidate(i)
      PROVE  TypeInv'
  <2>1. LastTerm(log[i]) \in Nat
    BY TermAtType, SeqIs DEF LastTerm, RaftTypes
  <2>2. VoteTypes'
    BY <1>1, <2>1, SeqIs
       DEF candidate, VoteTypes, RequestVoteArgs, RaftTypes, IncarnationTypes
  <2>3. persister' \in [Server -> Disk]
    BY <1>1 DEF candidate, persist, Disk, RaftTypes
  <2>4. RaftTypes'
    BY <1>1, <2>3 DEF candidate, RaftTypes
  <2>5. CandidateTypes'
    BY <1>1 DEF candidate, CandidateTypes, RaftTypes
  <2>6. QED
    BY <1>1, <2>2, <2>4, <2>5, TypeFrame, Zenon DEF candidate
<1>2. ASSUME NEW i \in Server, leader(i)
      PROVE  TypeInv'
  <2>1. RaftTypes'
    BY <1>2, Zenon DEF leader, RaftTypes
  <2>2. LeaderTypes'
    BY <1>2, SeqIs DEF leader, Slice, LeaderTypes, RaftTypes
  <2>3. CandidateTypes'
    BY <1>2 DEF leader, CandidateTypes
  <2>4. QED
    BY <1>2, <2>1, <2>2, <2>3, TypeFrame, Zenon DEF leader
<1>3. ASSUME NEW i \in Server, NEW t \in electing[i], candidatePoll(i, t)
      PROVE  TypeInv'
  <2>1. CandidateTypes'
    BY <1>3 DEF candidatePoll, CandidateTypes
  <2>2. QED
    BY <1>3, <2>1, TypeFrame, Zenon DEF candidatePoll
<1>4. ASSUME NEW i \in Server, NEW c \in Command, Start(i, c)
      PROVE  TypeInv'
  <2>1. [term |-> currentTerm[i], command |-> c] \in Entry
    BY Zenon DEF Entry, RaftTypes
  <2>2. log' \in [Server -> Seq(Entry)]
    BY <1>4, <2>1 DEF Start, RaftTypes
  <2>3. persister' \in [Server -> Disk]
    BY <1>4, <2>2, Zenon DEF Start, persist, Disk, RaftTypes
  <2>4. RaftTypes'
    BY <1>4, <2>2, <2>3, Zenon DEF Start, RaftTypes
  <2>5. QED
    BY <1>4, <2>4, TypeFrame, Zenon DEF Start
<1>5. ASSUME NEW i \in Server, startHeartBeat(i)
      PROVE  TypeInv'
  <2>1. ASSUME NEW j \in Server
        PROVE  AppendCall(i, j, Len(log[i])) \in AppendEntriesArgs
    <3>1. log[i] \in Seq(Entry) /\ Len(log[i]) \in Nat
      BY SeqIs, Zenon DEF RaftTypes
    <3>2. SubSeq(log[i], Len(log[i]) + 1, Len(log[i])) \in Seq(Entry)
      BY <3>1, SubSeqType
    <3>3. TermAt(log[i], Len(log[i])) \in Nat
      BY <3>1, TermAtType
    <3>4. QED
      BY <3>1, <3>2, <3>3, Zenon
         DEF AppendCall, AppendEntriesArgs, RaftTypes, CommitTypes, IncarnationTypes
  <2>2. AppendTypes'
    BY <1>5, <2>1, SentSubset DEF startHeartBeat, AppendTypes
  <2>3. QED
    BY <1>5, <2>2, TypeFrame, Zenon DEF startHeartBeat
<1>6. ASSUME NEW i \in Server, leaderLoop(i)
      PROVE  TypeInv'
  <2>1. ASSUME NEW j \in Behind(i)
        PROVE  AppendCall(i, j, nextIndex[i][j] - 1) \in AppendEntriesArgs
    <3> DEFINE prev == nextIndex[i][j] - 1
    <3>1. log[i] \in Seq(Entry) /\ Len(log[i]) \in Nat
      BY SeqIs, Zenon DEF RaftTypes
    <3>2. j \in Server /\ nextIndex[i][j] \in 1..Len(log[i])
      BY <1>6, <3>1 DEF leaderLoop, Behind, LeaderTypes
    <3>3. prev \in 0..Len(log[i])
      BY <3>1, <3>2
    <3> HIDE DEF prev
    <3>4. SubSeq(log[i], prev + 1, Len(log[i])) \in Seq(Entry)
      BY <3>1, <3>3, SubSeqType
    <3>5. TermAt(log[i], prev) \in Nat
      BY <3>1, <3>3, TermAtType, Zenon
    <3>a. /\ prev \in Nat /\ j \in Server /\ currentTerm[i] \in Nat
          /\ commitIndex[i] \in Nat /\ incarnation[i] \in Nat
      BY <3>2, <3>3 DEF RaftTypes, CommitTypes, IncarnationTypes
    <3>6. AppendCall(i, j, prev) \in AppendEntriesArgs
      BY <3>a, <3>4, <3>5, Zenon DEF AppendCall, AppendEntriesArgs
    <3>7. QED
      BY <3>6, Zenon DEF prev
  <2>2. AppendTypes'
    BY <1>6, <2>1, SentSubset DEF leaderLoop, AppendTypes
  <2>3. Committable(i) # {} => Max(Committable(i)) \in Nat
    <3>a. Len(log[i]) \in Nat /\ commitIndex[i] \in Nat
      BY SeqIs, Zenon DEF RaftTypes, CommitTypes
    <3>1. QED
      BY <3>a, CommittableType
  <2>4. CommitTypes'
    BY <1>6, <2>3, Zenon DEF leaderLoop, CommitTypes
  <2>5. QED
    BY <1>6, <2>2, <2>4, TypeFrame, Zenon DEF leaderLoop
<1>7. ASSUME NEW i \in Server, leaderExit(i)
      PROVE  TypeInv'
  <2>1. LeaderTypes'
    BY <1>7 DEF leaderExit, LeaderTypes
  <2>2. QED
    BY <1>7, <2>1, TypeFrame, Zenon DEF leaderExit
<1>8. ASSUME NEW i \in Server, leaderPanic(i)
      PROVE  TypeInv'
  <2>1. CommitTypes'
    BY <1>8, Zenon DEF leaderPanic, CommitTypes, commitVars
  <2>2. QED
    BY <1>8, <2>1, TypeFrame, Zenon DEF leaderPanic
<1>9. ASSUME NEW i \in Server, applier(i)
      PROVE  TypeInv'
  <2>1. CommitTypes'
    BY <1>9, ApplierType, Zenon DEF RaftTypes, CommitTypes
  <2>2. QED
    BY <1>9, <2>1, TypeFrame, Zenon DEF applier
<1>10. ASSUME NEW i \in Server, Restart(i)
       PROVE  TypeInv'
  <2>1. persister[i] \in Disk
    BY Zenon DEF RaftTypes
  <2>2. RaftTypes'
    BY <1>10, <2>1, Zenon DEF Restart, readPersist, Disk, RaftTypes
  <2>3. CommitTypes'
    <3>a. /\ delivered' = delivered /\ ~panicked
          /\ lastApplied' = [lastApplied EXCEPT ![i] = 0]
      BY <1>10, Zenon DEF Restart
    <3>b. \A j \in Server : 0 <= Len(delivered[j]) /\ lastApplied[j] <= Len(delivered[j])
      BY <3>a, SeqIs DEF CommitTypes
    <3>1. \A j \in Server : lastApplied'[j] <= Len(delivered'[j])
      BY <3>a, <3>b, Zenon DEF CommitTypes
    <3>2. QED
      BY <1>10, <3>1, Zenon DEF Restart, CommitTypes
  <2>4. LeaderTypes'
    BY <1>10, Zenon DEF Restart, Slice, LeaderTypes
  <2>5. CandidateTypes'
    BY <1>10, Zenon DEF Restart, CandidateTypes
  <2>6. IncarnationTypes'
    BY <1>10 DEF Restart, IncarnationTypes
  <2>7. VoteTypes'
    BY <1>10, Zenon DEF Restart, VoteTypes
  <2>8. AppendTypes'
    BY <1>10, Zenon DEF Restart, AppendTypes
  <2>9. QED
    BY <2>2, <2>3, <2>4, <2>5, <2>6, <2>7, <2>8, Zenon
<1>11. ASSUME NEW m \in voteCalls, RequestVote(m)
       PROVE  TypeInv'
  <2> DEFINE i == m.to
  <2>1. m \in RequestVoteArgs
    BY Zenon DEF VoteTypes
  <2>2. i \in Server /\ m.from \in Server /\ m.Term \in Nat
    BY <2>1, Zenon DEF RequestVoteArgs
  <2> HIDE DEF i
  <2>3. RaftTypes'
    <3>1. CASE m.Term < currentTerm[i]
      BY <1>11, <3>1, Zenon DEF RequestVote, RaftTypes, i
    <3>2. CASE ~(m.Term < currentTerm[i])
      <4>1. votedFor' \in [Server -> Server \cup {None}]
        BY <1>11, <2>2, <3>2, Zenon DEF RequestVote, VoteIn, RaftTypes, i
      <4>2. AdoptTerm(i, m.Term) /\ UNCHANGED log
        BY <1>11, <3>2, Zenon DEF RequestVote, i
      <4>3. QED
        BY <2>2, <4>1, <4>2, AdoptTermType, Zenon
    <3>3. QED
      BY <3>1, <3>2, Zenon
  <2>4. ASSUME NEW g \in BOOLEAN, NEW t \in Nat
        PROVE  ToCaller([call |-> m, Term |-> t, VoteGranted |-> g])
                 \subseteq RequestVoteReply
    BY <2>1 DEF ToCaller, RequestVoteReply
  <2>5. currentTerm'[i] \in Nat
    BY <2>2, <2>3, Zenon DEF RaftTypes
  <2>6. VoteTypes'
    BY <1>11, <2>1, <2>4, <2>5, Zenon DEF RequestVote, VoteTypes, i
  <2>7. QED
    BY <1>11, <2>3, <2>6, TypeFrame, Zenon DEF RequestVote
<1>12. ASSUME NEW r \in voteReplies, sendRequestVote(r)
       PROVE  TypeInv'
  <2> DEFINE i == r.call.from
  <2>1. i \in Server /\ r.Term \in Nat
    BY Zenon DEF VoteTypes, RequestVoteReply, RequestVoteArgs
  <2> HIDE DEF i
  <2>2. RaftTypes'
    BY <1>12, <2>1, StepDownType, Zenon DEF sendRequestVote, RaftTypes, i
  <2>3. CandidateTypes'
    <3>1. voteCount' \in {voteCount, [voteCount EXCEPT ![i] = @ + 1]}
          /\ UNCHANGED <<electing, starting, elections>>
      BY <1>12, Zenon DEF sendRequestVote, i
    <3>2. QED
      BY <2>1, <3>1 DEF CandidateTypes
  <2>4. VoteTypes'
    BY <1>12, Zenon DEF sendRequestVote, VoteTypes
  <2>5. QED
    BY <1>12, <2>2, <2>3, <2>4, TypeFrame, Zenon DEF sendRequestVote
<1>13. ASSUME NEW m \in appendCalls, AppendEntries(m)
       PROVE  TypeInv'
  <2> DEFINE i == m.to
  <2>1. m \in AppendEntriesArgs
    BY Zenon DEF AppendTypes
  <2>2. i \in Server /\ m.Term \in Nat
    BY <2>1, Zenon DEF AppendEntriesArgs
  <2> HIDE DEF i
  <2>3. CASE m.Term < currentTerm[i]
    <3> DEFINE old == [call |-> m, Term |-> currentTerm[i], Success |-> FALSE,
                       ConflictTerm |-> 0, ConflictIndex |-> 0, LogLen |-> 0]
    <3>0. currentTerm[i] \in Nat
      BY <2>2, Zenon DEF RaftTypes
    <3>a. old \in AppendEntriesReply
      BY <2>1, <3>0, Zenon DEF AppendEntriesReply
    <3> HIDE DEF old
    <3>1. ToCaller(old) \subseteq AppendEntriesReply
      BY <3>a, Zenon DEF ToCaller
    <3>2. /\ appendReplies' \in Sent(appendReplies, ToCaller(old))
          /\ UNCHANGED <<raftVars, appending>>
      BY <1>13, <2>2, <2>3 DEF AppendEntries, RaftTypes, old, i
    <3>b. appendCalls' \subseteq appendCalls
      BY <1>13, TakenSubset, Zenon DEF AppendEntries
    <3>c. appendReplies' \subseteq appendReplies \cup ToCaller(old)
      BY <3>2, SentSubset, Zenon
    <3>3. AppendTypes'
      BY <3>1, <3>2, <3>b, <3>c, Zenon DEF AppendTypes
    <3>4. QED
      BY <1>13, <3>2, <3>3, TypeFrame, Zenon DEF AppendEntries
  <2>4. CASE m.Term >= currentTerm[i]
    <3>1. /\ AdoptTerm(i, m.Term)
          /\ votedFor' = [votedFor EXCEPT ![i] = VoteIn(i, m.Term)]
          /\ appending' = appending \cup {m}
          /\ UNCHANGED <<log, appendReplies>>
      BY <1>13, <2>2, <2>4 DEF AppendEntries, RaftTypes, i
    <3>2. votedFor' \in [Server -> Server \cup {None}]
      BY <2>2, <3>1, Zenon DEF VoteIn, RaftTypes
    <3>3. RaftTypes'
      BY <2>2, <3>1, <3>2, AdoptTermType, Zenon
    <3>4. AppendTypes'
      BY <1>13, <2>1, <3>1, TakenSubset, Zenon DEF AppendEntries, AppendTypes
    <3>5. QED
      BY <1>13, <3>3, <3>4, TypeFrame, Zenon DEF AppendEntries
  <2>5. QED
    BY <2>2, <2>3, <2>4 DEF RaftTypes
<1>14. ASSUME NEW m \in appending, AppendEntries2(m)
       PROVE  TypeInv'
  <2> DEFINE i == m.to
  <2>1. m \in AppendEntriesArgs
    BY Zenon DEF AppendTypes
  <2>2. /\ i \in Server /\ m.PrevLogIndex \in Nat /\ m.LeaderCommit \in Nat
        /\ m.Entries \in Seq(Entry)
    BY <2>1, Zenon DEF AppendEntriesArgs
  <2> HIDE DEF i
  <2>3. log[i] \in Seq(Entry) /\ Len(log[i]) \in Nat /\ currentTerm[i] \in Nat
    BY <2>2, SeqIs, Zenon DEF RaftTypes
  <2>4. AppendReply(m, i) \in AppendEntriesReply
    <3>1. Conflicting(m, log[i]) => /\ TermAt(log[i], m.PrevLogIndex) \in Nat
                                    /\ FirstOfTerm(log[i], m.PrevLogIndex) \in Nat
      BY <2>2, <2>3, TermAtType, FirstOfTermType DEF Conflicting, TooShort
    <3>2. Consistent(m, log[i]) \in BOOLEAN
      BY Zenon DEF Consistent, TooShort, Conflicting
    <3>3. QED
      BY <2>1, <2>3, <3>1, <3>2, Zenon DEF AppendReply, AppendEntriesReply
  <2>5. appendReplies' \subseteq AppendEntriesReply /\ appending' \subseteq AppendEntriesArgs
    <3>1. ToCaller(AppendReply(m, i)) \subseteq AppendEntriesReply
      BY <2>4, Zenon DEF ToCaller
    <3>2. /\ appendReplies' \in Sent(appendReplies, ToCaller(AppendReply(m, i)))
          /\ appending' = appending \ {m}
      BY <1>14, Zenon DEF AppendEntries2, i
    <3>3. appendReplies' \subseteq appendReplies \cup ToCaller(AppendReply(m, i))
      BY <3>2, SentSubset
    <3>4. QED
      BY <3>1, <3>2, <3>3, Zenon DEF AppendTypes
  <2>6. CASE Consistent(m, log[i]) /\ m.Entries # <<>>
    <3>1. /\ log' = [log EXCEPT ![i] = Merge(m, @)]
          /\ persister' = persist(i, currentTerm[i], votedFor[i], log'[i])
          /\ commitIndex' = [commitIndex EXCEPT ![i] = NewCommit(m, i)]
          /\ appendCalls' \in Overwrite(i, log'[i])
      BY <1>14, <2>6, Zenon DEF AppendEntries2, i
    <3>2. Merge(m, log[i]) \in Seq(Entry)
      BY <2>1, <2>3, <2>6, MergeType, Zenon
    <3>3. log' \in [Server -> Seq(Entry)] /\ log'[i] \in Seq(Entry)
      BY <2>2, <3>1, <3>2, Zenon DEF RaftTypes
    <3>4. persister' \in [Server -> Disk]
      BY <2>2, <3>1, <3>3, Zenon DEF persist, Disk, RaftTypes
    <3>5. RaftTypes'
      BY <1>14, <3>3, <3>4, Zenon DEF AppendEntries2, RaftTypes
    <3>6. NewCommit(m, i) \in Nat
      BY <2>2, SeqIs DEF NewCommit, min, CommitTypes
    <3>7. CommitTypes'
      BY <1>14, <2>2, <3>1, <3>6, Zenon DEF AppendEntries2, CommitTypes
    <3>8. appendCalls' \subseteq AppendEntriesArgs
      <4>1. ASSUME NEW d \in appendCalls'
            PROVE  d \in AppendEntriesArgs
        <5>1. PICK c \in appendCalls : d \in Torn(c, i, log'[i])
          BY <3>1, <3>3, OverwriteType, Zenon DEF AppendTypes
        <5>2. c \in AppendEntriesArgs
          BY Zenon DEF AppendTypes
        <5>3. QED
          BY <3>3, <5>1, <5>2, TornType, Zenon
      <4>2. QED
        BY <4>1, Zenon
    <3>9. AppendTypes'
      BY <2>5, <3>8, Zenon DEF AppendTypes
    <3>10. QED
      BY <1>14, <3>5, <3>7, <3>9, TypeFrame, Zenon DEF AppendEntries2
  <2>7. CASE ~(Consistent(m, log[i]) /\ m.Entries # <<>>)
    <3>1. UNCHANGED <<log, persister, commitIndex, appendCalls>>
      BY <1>14, <2>7, Zenon DEF AppendEntries2, i
    <3>2. AppendTypes'
      BY <2>5, <3>1, Zenon DEF AppendTypes
    <3>3. UNCHANGED <<raftVars, commitVars>>
      BY <1>14, <3>1, Zenon DEF AppendEntries2, raftVars, commitVars
    <3>4. QED
      BY <1>14, <3>2, <3>3, TypeFrame, Zenon DEF AppendEntries2
  <2>8. QED
    BY <2>6, <2>7, Zenon
<1>15. ASSUME NEW r \in appendReplies, sendAppendEntries(r)
       PROVE  TypeInv'
  <2> DEFINE i == r.call.from
             last == r.call.PrevLogIndex + Len(r.call.Entries)
  <2>1. r \in AppendEntriesReply
    BY Zenon DEF AppendTypes
  <2>2. /\ i \in Server /\ r.call.to \in Server
        /\ r.Term \in Nat /\ last \in Nat
    BY <2>1, SeqIs DEF AppendEntriesReply, AppendEntriesArgs
  <2> HIDE DEF i, last
  <2>3. RaftTypes'
    BY <1>15, <2>2, StepDownType, Zenon DEF sendAppendEntries, RaftTypes, i
  <2>4. RollBack(r, log[i]) \in Nat
    BY <2>1, <2>2, RollBackType, Zenon DEF RaftTypes
  <2>5. nextIndex' \in [Server -> [Server -> Nat]]
    <3> DEFINE next == IF r.Success THEN last + 1 ELSE RollBack(r, log[i])
    <3>1. next \in Nat
      BY <2>2, <2>4
    <3>2. nextIndex' = nextIndex \/ nextIndex' = [nextIndex EXCEPT ![i][r.call.to] = next]
      BY <1>15, Zenon DEF sendAppendEntries, i, last
    <3> HIDE DEF next
    <3>3. QED
      BY <2>2, <3>1, <3>2 DEF LeaderTypes
  <2>6. matchIndex' \in [Server -> [Server -> Nat]]
    BY <1>15, <2>2, Zenon DEF sendAppendEntries, LeaderTypes, i, last
  <2>7. LeaderTypes'
    BY <1>15, <2>5, <2>6, Zenon DEF sendAppendEntries, LeaderTypes
  <2>8. AppendTypes'
    BY <1>15, TakenSubset, Zenon DEF sendAppendEntries, AppendTypes
  <2>9. QED
    BY <1>15, <2>3, <2>7, <2>8, TypeFrame, Zenon DEF sendAppendEntries
<1>16. CASE UNCHANGED vars
  BY <1>16, TypeFrame, Zenon DEF vars
<1>17. QED
  BY <1>1, <1>2, <1>3, <1>4, <1>5, <1>6, <1>7, <1>8, <1>9, <1>10, <1>11, <1>12,
     <1>13, <1>14, <1>15, <1>16, Zenon DEF Next

---------------------------------------------------------------------------------
(***************************************************************************)
(* Terms, persistence and votes                                             *)
(***************************************************************************)
\* What any call carries.
Routed(m) == m.from \in Server /\ m.to \in Server /\ m.inc \in Nat /\ m.Term \in Nat

\* The types that the proofs below use.
LEMMA TypeFacts ==
    ASSUME TypeInv
    PROVE  /\ currentTerm \in [Server -> Nat] /\ votedFor \in [Server -> Server \cup {None}]
           /\ log \in [Server -> Seq(Entry)] /\ persister \in [Server -> Disk]
           /\ state \in [Server -> {"FOLLOWER", "CANDIDATE", "LEADER"}]
           /\ incarnation \in [Server -> Nat]
           /\ \A m \in voteCalls : Routed(m)
           /\ \A r \in voteReplies : Routed(r.call) /\ r.Term \in Nat
           /\ \A m \in appendCalls \cup appending : Routed(m)
           /\ \A r \in appendReplies : Routed(r.call) /\ r.Term \in Nat
<1>1. /\ currentTerm \in [Server -> Nat] /\ votedFor \in [Server -> Server \cup {None}]
      /\ log \in [Server -> Seq(Entry)] /\ persister \in [Server -> Disk]
      /\ state \in [Server -> {"FOLLOWER", "CANDIDATE", "LEADER"}]
      /\ incarnation \in [Server -> Nat]
  BY Zenon DEF TypeInv, RaftTypes, IncarnationTypes
<1>2. \A m \in voteCalls : Routed(m)
  BY Zenon DEF TypeInv, VoteTypes, RequestVoteArgs, Routed
<1>3. \A r \in voteReplies : Routed(r.call) /\ r.Term \in Nat
  BY Zenon DEF TypeInv, VoteTypes, RequestVoteReply, RequestVoteArgs, Routed
<1>4. \A m \in appendCalls \cup appending : Routed(m)
  BY Zenon DEF TypeInv, AppendTypes, AppendEntriesArgs, Routed
<1>5. \A r \in appendReplies : Routed(r.call) /\ r.Term \in Nat
  BY Zenon DEF TypeInv, AppendTypes, AppendEntriesReply, AppendEntriesArgs, Routed
<1>6. QED
  BY <1>1, <1>2, <1>3, <1>4, <1>5, Zenon

---------------------------------------------------------------------------------
(***************************************************************************)
(* What is on disk                                                          *)
(***************************************************************************)

\* What a handler or a reply does to the term and the disk of its peer, and to
\* nobody else's.
LEMMA AdoptTermShape ==
    ASSUME TypeInv, DiskMatchesMemory, NEW i \in Server, NEW t \in Nat,
           t >= currentTerm[i], AdoptTerm(i, t), UNCHANGED log
    PROVE  /\ DiskMatchesMemory'
           /\ currentTerm' = [currentTerm EXCEPT ![i] = t]
           /\ \A j \in Server : currentTerm'[j] >= currentTerm[j]
BY TypeFacts DEF AdoptTerm, persist, DiskMatchesMemory

\* The same for a reply with a newer term.
LEMMA StepDownShape ==
    ASSUME TypeInv, DiskMatchesMemory, NEW i \in Server, NEW t \in Nat,
           t >= currentTerm[i], StepDown(i, t), UNCHANGED log
    PROVE  /\ DiskMatchesMemory'
           /\ currentTerm' = [currentTerm EXCEPT ![i] = t]
           /\ \A j \in Server : currentTerm'[j] >= currentTerm[j]
BY TypeFacts DEF StepDown, persist, DiskMatchesMemory

\* One step of any peer: the disk stays in step with the memory, and no term is
\* lowered.
LEMMA TermStep ==
    ASSUME TypeInv, DiskMatchesMemory, [Next]_vars
    PROVE  /\ DiskMatchesMemory'
           /\ \A i \in Server : currentTerm'[i] >= currentTerm[i]
<1> DEFINE Grows == \A i \in Server : currentTerm'[i] >= currentTerm[i]
<1>0. /\ currentTerm \in [Server -> Nat] /\ log \in [Server -> Seq(Entry)]
      /\ persister \in [Server -> Disk] /\ votedFor \in [Server -> Server \cup {None}]
  BY TypeFacts, Zenon
<1>1. ASSUME NEW i \in Server, candidate(i)
      PROVE  DiskMatchesMemory' /\ Grows
  BY <1>0, <1>1 DEF candidate, persist, DiskMatchesMemory
<1>2. ASSUME NEW i \in Server, NEW c \in Command, Start(i, c)
      PROVE  DiskMatchesMemory' /\ Grows
  BY <1>0, <1>2 DEF Start, persist, DiskMatchesMemory
<1>3. ASSUME NEW i \in Server, Restart(i)
      PROVE  DiskMatchesMemory' /\ Grows
  BY <1>0, <1>3 DEF Restart, readPersist, DiskMatchesMemory
<1>4. ASSUME NEW m \in voteCalls, RequestVote(m)
      PROVE  DiskMatchesMemory' /\ Grows
  <2>1. m.to \in Server /\ m.Term \in Nat
    BY TypeFacts, Zenon DEF Routed
  <2>2. CASE m.Term < currentTerm[m.to]
    <3>1. UNCHANGED <<currentTerm, persister, log>>
      BY <1>4, <2>2, Zenon DEF RequestVote
    <3>2. QED
      BY <1>0, <3>1 DEF DiskMatchesMemory
  <2>3. CASE ~(m.Term < currentTerm[m.to])
    <3>1. AdoptTerm(m.to, m.Term) /\ UNCHANGED log
      BY <1>4, <2>3, Zenon DEF RequestVote
    <3>2. QED
      BY <1>0, <2>1, <2>3, <3>1, AdoptTermShape
  <2>4. QED
    BY <2>2, <2>3, Zenon
<1>5. ASSUME NEW m \in appendCalls, AppendEntries(m)
      PROVE  DiskMatchesMemory' /\ Grows
  <2>1. m.to \in Server /\ m.Term \in Nat
    BY TypeFacts, Zenon DEF Routed
  <2>2. CASE UNCHANGED raftVars
    BY <1>0, <2>2 DEF raftVars, DiskMatchesMemory
  <2>3. CASE m.Term >= currentTerm[m.to] /\ AdoptTerm(m.to, m.Term) /\ UNCHANGED log
    BY <2>1, <2>3, AdoptTermShape, Zenon
  <2>4. QED
    BY <1>5, <2>2, <2>3, Zenon DEF AppendEntries
<1>6. ASSUME NEW m \in appending, AppendEntries2(m)
      PROVE  DiskMatchesMemory' /\ Grows
  <2>1. m.to \in Server
    BY TypeFacts, Zenon DEF Routed
  <2>2. UNCHANGED <<currentTerm, votedFor>>
    BY <1>6, Zenon DEF AppendEntries2
  <2>3. CASE UNCHANGED <<log, persister>>
    BY <1>0, <2>2, <2>3 DEF DiskMatchesMemory
  <2>4. CASE /\ log' = [log EXCEPT ![m.to] = Merge(m, @)]
             /\ persister' = persist(m.to, currentTerm[m.to], votedFor[m.to], log'[m.to])
    BY <1>0, <2>1, <2>2, <2>4 DEF persist, DiskMatchesMemory
  <2>5. QED
    BY <1>6, <2>3, <2>4, Zenon DEF AppendEntries2
<1>7. ASSUME NEW r \in voteReplies, sendRequestVote(r)
      PROVE  DiskMatchesMemory' /\ Grows
  <2>1. r.call.from \in Server /\ r.Term \in Nat
    BY TypeFacts, Zenon DEF Routed
  <2>2. CASE UNCHANGED <<currentTerm, persister, log>>
    BY <1>0, <2>2 DEF DiskMatchesMemory
  <2>3. CASE /\ r.Term > currentTerm[r.call.from] /\ StepDown(r.call.from, r.Term)
             /\ UNCHANGED log
    BY <1>0, <2>1, <2>3, StepDownShape
  <2>4. QED
    BY <1>7, <2>2, <2>3, Zenon DEF sendRequestVote
<1>8. ASSUME NEW r \in appendReplies, sendAppendEntries(r)
      PROVE  DiskMatchesMemory' /\ Grows
  <2>1. r.call.from \in Server /\ r.Term \in Nat
    BY TypeFacts, Zenon DEF Routed
  <2>2. CASE UNCHANGED <<currentTerm, persister, log>>
    BY <1>0, <2>2 DEF DiskMatchesMemory
  <2>3. CASE /\ r.Term > currentTerm[r.call.from] /\ StepDown(r.call.from, r.Term)
             /\ UNCHANGED log
    BY <1>0, <2>1, <2>3, StepDownShape
  <2>4. QED
    BY <1>8, <2>2, <2>3, Zenon DEF sendAppendEntries
<1>9. CASE UNCHANGED <<currentTerm, persister, log>>
  BY <1>0, <1>9 DEF DiskMatchesMemory
<1>10. QED
  BY <1>1, <1>2, <1>3, <1>4, <1>5, <1>6, <1>7, <1>8, <1>9, Zenon
     DEF Next, vars, raftVars, candidatePoll, leader, startHeartBeat,
         leaderLoop, leaderExit, leaderPanic, applier

\* The disk starts empty, like the memory.
LEMMA DiskInit == Init => DiskMatchesMemory
BY DEF Init, DiskMatchesMemory

---------------------------------------------------------------------------------
(***************************************************************************)
(* Calls and replies                                                        *)
(***************************************************************************)
Calls == voteCalls \cup appendCalls \cup appending
Replies == voteReplies \cup appendReplies

\* A call never has a newer term than its caller, if that still lives; neither
\* has the call of a reply, which only reaches the incarnation that called.
CallInv ==
    /\ \A m \in Calls :
         /\ m.inc <= incarnation[m.from]
         /\ m.inc = incarnation[m.from] => m.Term <= currentTerm[m.from]
    /\ \A r \in Replies : r.call.Term <= currentTerm[r.call.from]

SameRoute(c, d) == d.from = c.from /\ d.inc = c.inc /\ d.to = c.to /\ d.Term = c.Term
Fresh(d) == /\ d.from \in Server /\ d.inc = incarnation[d.from]
            /\ d.Term = currentTerm'[d.from] /\ UNCHANGED incarnation

\* A step sends calls of the current term only.
LEMMA CallShape ==
    ASSUME Counting, TypeInv, [Next]_vars
    PROVE  \A d \in Calls' : Fresh(d) \/ \E c \in Calls : SameRoute(c, d)
<1> DEFINE Goal == \A d \in Calls' : Fresh(d) \/ \E c \in Calls : SameRoute(c, d)
<1>0. ASSUME Calls' \subseteq Calls
      PROVE  Goal
  BY <1>0, Zenon DEF SameRoute
<1>1. ASSUME NEW i \in Server, candidate(i)
      PROVE  Goal
  <2>1. currentTerm'[i] = currentTerm[i] + 1
    BY <1>1, TypeFacts, Zenon DEF candidate
  <2>2. \A d \in voteCalls' : d \in voteCalls \/ Fresh(d)
    BY <1>1, <2>1 DEF candidate, Fresh
  <2>3. UNCHANGED appendCalls /\ UNCHANGED appending
    BY <1>1, Zenon DEF candidate, appendNet
  <2>4. QED
    BY <2>2, <2>3, Zenon DEF Calls, SameRoute
<1>2. ASSUME NEW i \in Server, NEW S, appendCalls' \in Sent(appendCalls, S),
             \A d \in S : \E j, prev : d = AppendCall(i, j, prev),
             UNCHANGED <<voteCalls, appending, currentTerm, incarnation>>
      PROVE  Goal
  <2>1. \A d \in S : Fresh(d)
    BY <1>2 DEF AppendCall, Fresh
  <2>2. \A d \in appendCalls' : d \in appendCalls \/ Fresh(d)
    BY <1>2, <2>1, SentSubset, Zenon
  <2>3. QED
    BY <1>2, <2>2, Zenon DEF Calls, SameRoute
<1>3. ASSUME NEW i \in Server, startHeartBeat(i)
      PROVE  Goal
  <2> DEFINE S == {AppendCall(i, j, Len(log[i])) : j \in Server \ {i}}
  <2>1. /\ appendCalls' \in Sent(appendCalls, S)
        /\ UNCHANGED <<voteCalls, appending, currentTerm, incarnation>>
    BY <1>3, Zenon DEF startHeartBeat, raftVars, voteNet
  <2>2. \A d \in S : \E j, prev : d = AppendCall(i, j, prev)
    BY Zenon
  <2> HIDE DEF S
  <2>3. QED
    BY <1>2, <2>1, <2>2, Zenon
<1>4. ASSUME NEW i \in Server, leaderLoop(i)
      PROVE  Goal
  <2> DEFINE S == {AppendCall(i, j, nextIndex[i][j] - 1) : j \in Behind(i)}
  <2>1. /\ appendCalls' \in Sent(appendCalls, S)
        /\ UNCHANGED <<voteCalls, appending, currentTerm, incarnation>>
    BY <1>4, Zenon DEF leaderLoop, raftVars, voteNet
  <2>2. \A d \in S : \E j, prev : d = AppendCall(i, j, prev)
    BY Zenon
  <2> HIDE DEF S
  <2>3. QED
    BY <1>2, <2>1, <2>2, Zenon
<1>5. ASSUME NEW m \in appendCalls, AppendEntries(m)
      PROVE  Goal
  <2>1. Calls' \subseteq Calls
    BY <1>5, TakenSubset, Zenon DEF AppendEntries, Calls, voteNet
  <2>2. QED
    BY <1>0, <2>1, Zenon
<1>6. ASSUME NEW m \in appending, AppendEntries2(m)
      PROVE  Goal
  <2>1. appending' \subseteq appending /\ voteCalls' = voteCalls
    BY <1>6, Zenon DEF AppendEntries2, voteNet
  <2>2. CASE UNCHANGED appendCalls
    BY <1>0, <2>1, <2>2, Zenon DEF Calls
  <2>3. CASE appendCalls' \in Overwrite(m.to, log'[m.to])
    <3>1. log'[m.to] \in Seq(Entry) /\ appendCalls \subseteq AppendEntriesArgs
      <4>1. m.to \in Server
        BY TypeFacts, Zenon DEF Routed
      <4>2. log' \in [Server -> Seq(Entry)]
        BY TypeStep, Zenon DEF TypeInv, RaftTypes
      <4>3. QED
        BY <4>1, <4>2, Zenon DEF TypeInv, AppendTypes
    <3>2. ASSUME NEW d \in appendCalls'
          PROVE  \E c \in Calls : SameRoute(c, d)
      <4>1. PICK c \in appendCalls : d \in Torn(c, m.to, log'[m.to])
        BY <2>3, <3>1, OverwriteType, Zenon
      <4>2. c \in AppendEntriesArgs /\ d = [c EXCEPT !.Entries = d.Entries]
        BY <3>1, <4>1, TornType, Zenon
      <4>3. SameRoute(c, d)
        BY <4>2, Zenon DEF SameRoute, AppendEntriesArgs
      <4>4. QED
        BY <4>3, Zenon DEF Calls
    <3>3. QED
      BY <2>1, <3>2, Zenon DEF Calls, SameRoute
  <2>4. QED
    BY <1>6, <2>2, <2>3, Zenon DEF AppendEntries2
<1>7. ASSUME NEW i \in Server, Restart(i)
      PROVE  Goal
  <2>1. Calls' \subseteq Calls
    BY <1>7, Zenon DEF Restart, Calls
  <2>2. QED
    BY <1>0, <2>1, Zenon
<1>8. ASSUME NEW m \in voteCalls, RequestVote(m)
      PROVE  Goal
  <2>1. Calls' \subseteq Calls
    BY <1>8, Zenon DEF RequestVote, Calls, appendNet
  <2>2. QED
    BY <1>0, <2>1, Zenon
<1>9. CASE UNCHANGED <<voteCalls, appendCalls, appending>>
  BY <1>0, <1>9, Zenon DEF Calls
<1>10. QED
  BY <1>1, <1>3, <1>4, <1>5, <1>6, <1>7, <1>8, <1>9, Zenon
     DEF Next, vars, voteNet, appendNet, candidatePoll, leader, Start, leaderExit,
         leaderPanic, applier, sendRequestVote, sendAppendEntries

\* A step answers calls whose caller is still in the incarnation that made them.
LEMMA ReplyShape ==
    ASSUME TypeInv, [Next]_vars
    PROVE  \A r \in Replies' :
             \/ r \in Replies
             \/ r.call \in Calls /\ r.call.inc = incarnation[r.call.from]
<1> DEFINE Goal == \A r \in Replies' :
                     \/ r \in Replies
                     \/ r.call \in Calls /\ r.call.inc = incarnation[r.call.from]
<1>1. ASSUME NEW m \in voteCalls, RequestVote(m)
      PROVE  Goal
  <2>1. appendReplies' = appendReplies
    BY <1>1, Zenon DEF RequestVote, appendNet
  <2>2. \A r \in voteReplies' : r \in voteReplies \/ (r.call = m /\ m.inc = incarnation[m.from])
    <3>1. PICK v \in {[call |-> m, Term |-> currentTerm'[m.to], VoteGranted |-> b] : b \in BOOLEAN} :
            voteReplies' = voteReplies \cup ToCaller(v)
      BY <1>1, Zenon DEF RequestVote
    <3>2. v.call = m
      OBVIOUS
    <3>3. QED
      BY <3>1, <3>2, Zenon DEF ToCaller
  <2>3. QED
    BY <2>1, <2>2, Zenon DEF Calls, Replies
<1>2. ASSUME NEW m \in appendCalls, AppendEntries(m)
      PROVE  Goal
  <2>1. voteReplies' = voteReplies
    BY <1>2, Zenon DEF AppendEntries, voteNet
  <2>2. \A r \in appendReplies' : r \in appendReplies \/ (r.call = m /\ m.inc = incarnation[m.from])
    BY <1>2, SentSubset DEF AppendEntries, ToCaller
  <2>3. QED
    BY <2>1, <2>2, Zenon DEF Calls, Replies
<1>3. ASSUME NEW m \in appending, AppendEntries2(m)
      PROVE  Goal
  <2>1. voteReplies' = voteReplies
    BY <1>3, Zenon DEF AppendEntries2, voteNet
  <2>2. AppendReply(m, m.to).call = m
    BY Zenon DEF AppendReply
  <2>3. \A r \in appendReplies' : r \in appendReplies \/ (r.call = m /\ m.inc = incarnation[m.from])
    <3>1. appendReplies' \in Sent(appendReplies, ToCaller(AppendReply(m, m.to)))
      BY <1>3, Zenon DEF AppendEntries2
    <3>2. appendReplies' \subseteq appendReplies \cup ToCaller(AppendReply(m, m.to))
      BY <3>1, SentSubset
    <3>3. QED
      BY <2>2, <3>2, Zenon DEF ToCaller
  <2>4. QED
    BY <2>1, <2>3, Zenon DEF Calls, Replies
<1>4. CASE Replies' \subseteq Replies
  BY <1>4, Zenon
<1>5. ASSUME NEW r \in voteReplies, sendRequestVote(r)
      PROVE  Replies' \subseteq Replies
  BY <1>5, Zenon DEF sendRequestVote, Replies, appendNet
<1>6. ASSUME NEW r \in appendReplies, sendAppendEntries(r)
      PROVE  Replies' \subseteq Replies
  BY <1>6, TakenSubset, Zenon DEF sendAppendEntries, Replies, voteNet
<1>7. ASSUME NEW i \in Server, Restart(i)
      PROVE  Replies' \subseteq Replies
  BY <1>7, Zenon DEF Restart, Replies
<1>8. CASE UNCHANGED <<voteReplies, appendReplies>>
  BY <1>8, Zenon DEF Replies
<1>9. QED
  BY <1>1, <1>2, <1>3, <1>4, <1>5, <1>6, <1>7, <1>8
     DEF Next, vars, voteNet, appendNet, candidate, candidatePoll, leader, Start,
         startHeartBeat, leaderLoop, leaderExit, leaderPanic, applier

\* Incarnations only grow.
LEMMA IncarnationStep ==
    ASSUME TypeInv, [Next]_vars
    PROVE  \A i \in Server : incarnation'[i] >= incarnation[i]
<1>0. incarnation \in [Server -> Nat]
  BY TypeFacts, Zenon
<1>1. ASSUME NEW i \in Server, Restart(i)
      PROVE  \A j \in Server : incarnation'[j] >= incarnation[j]
  <2>1. incarnation' = [incarnation EXCEPT ![i] = @ + 1]
    BY <1>1, Zenon DEF Restart
  <2>2. QED
    BY <1>0, <2>1
<1>2. CASE UNCHANGED incarnation
  BY <1>0, <1>2
<1>3. QED
  BY <1>1, <1>2
     DEF Next, vars, candidate, candidatePoll, leader, Start, startHeartBeat,
         leaderLoop, leaderExit, leaderPanic, applier, RequestVote, sendRequestVote,
         AppendEntries, AppendEntries2, sendAppendEntries

\* Every step keeps calls and replies no newer than their caller.
LEMMA CallStep ==
    ASSUME Counting, TypeInv, DiskMatchesMemory, CallInv, [Next]_vars
    PROVE  CallInv'
<1>1. TypeInv'
  BY TypeStep, Zenon
<1>2. /\ currentTerm \in [Server -> Nat] /\ incarnation \in [Server -> Nat]
      /\ currentTerm' \in [Server -> Nat] /\ incarnation' \in [Server -> Nat]
  BY <1>1, Zenon DEF TypeInv, RaftTypes, IncarnationTypes
<1>3. /\ \A i \in Server : currentTerm'[i] >= currentTerm[i]
      /\ \A i \in Server : incarnation'[i] >= incarnation[i]
  BY TermStep, IncarnationStep, Zenon
<1>4. \A m \in Calls : Routed(m)
  BY TypeFacts, Zenon DEF Calls
<1>5. \A r \in Replies : Routed(r.call)
  BY TypeFacts, Zenon DEF Replies
<1>6. ASSUME NEW d \in Calls'
      PROVE  /\ d.inc <= incarnation'[d.from]
             /\ d.inc = incarnation'[d.from] => d.Term <= currentTerm'[d.from]
  <2>1. CASE Fresh(d)
    BY <1>2, <2>1, SMTT(20) DEF Fresh
  <2>2. ASSUME NEW c \in Calls, SameRoute(c, d)
        PROVE  /\ d.inc <= incarnation'[d.from]
               /\ d.inc = incarnation'[d.from] => d.Term <= currentTerm'[d.from]
    <3>1. /\ c.inc <= incarnation[c.from]
          /\ c.inc = incarnation[c.from] => c.Term <= currentTerm[c.from]
          /\ c.from \in Server /\ c.inc \in Nat /\ c.Term \in Nat
      BY <1>4, Zenon DEF CallInv, Routed
    <3>2. /\ incarnation[c.from] <= incarnation'[c.from]
          /\ currentTerm[c.from] <= currentTerm'[c.from]
          /\ incarnation[c.from] \in Nat /\ incarnation'[c.from] \in Nat
          /\ currentTerm[c.from] \in Nat /\ currentTerm'[c.from] \in Nat
      BY <1>2, <1>3, <3>1, Zenon
    <3>3. QED
      BY <2>2, <3>1, <3>2 DEF SameRoute
  <2>3. QED
    BY <2>1, <2>2, CallShape, Zenon
<1>7. ASSUME NEW r \in Replies'
      PROVE  r.call.Term <= currentTerm'[r.call.from]
  <2>1. r.call.Term <= currentTerm[r.call.from] /\ Routed(r.call)
    BY <1>4, <1>5, ReplyShape, Zenon DEF CallInv
  <2>2. QED
    BY <1>2, <1>3, <2>1 DEF Routed
<1>8. QED
  BY <1>6, <1>7, Zenon DEF CallInv

\* No call is in flight at first.
LEMMA CallInit == Init => CallInv
BY Zenon DEF Init, CallInv, Calls, Replies

---------------------------------------------------------------------------------
(***************************************************************************)
(* Votes                                                                    *)
(***************************************************************************)
\* No reply of RequestVote() has a newer term than the peer that gave it.
VoteInv == \A r \in voteReplies : r.Term <= currentTerm[r.call.to]

\* What a step does to the vote of a peer that stays in its term.
LEMMA VoteShape ==
    ASSUME TypeInv, DiskMatchesMemory, CallInv, [Next]_vars, NEW i \in Server,
           currentTerm'[i] = currentTerm[i], incarnation'[i] = incarnation[i]
    PROVE  /\ state[i] = "LEADER" => state'[i] = "LEADER"
           /\ votedFor'[i] = votedFor[i] \/ votedFor[i] = None \/ state'[i] = "LEADER"
<1> DEFINE Goal == /\ state[i] = "LEADER" => state'[i] = "LEADER"
                   /\ \/ votedFor'[i] = votedFor[i] \/ votedFor[i] = None
                      \/ state'[i] = "LEADER"
<1>0. /\ state \in [Server -> {"FOLLOWER", "CANDIDATE", "LEADER"}]
      /\ votedFor \in [Server -> Server \cup {None}]
      /\ currentTerm \in [Server -> Nat] /\ incarnation \in [Server -> Nat]
  BY TypeFacts, Zenon
<1>1. ASSUME NEW j \in Server, candidate(j)
      PROVE  Goal
  <2>1. /\ currentTerm' = [currentTerm EXCEPT ![j] = currentTerm[j] + 1]
        /\ state' = [state EXCEPT ![j] = "CANDIDATE"]
        /\ votedFor' = [votedFor EXCEPT ![j] = j]
    BY <1>1, Zenon DEF candidate
  <2>2. i # j
    BY <1>0, <2>1
  <2>3. QED
    BY <1>0, <2>1, <2>2, Zenon
<1>2. ASSUME NEW j \in Server, leader(j)
      PROVE  Goal
  <2>1. /\ state' = [state EXCEPT ![j] = "LEADER"]
        /\ votedFor' = [votedFor EXCEPT ![j] = None]
    BY <1>2, Zenon DEF leader
  <2>2. QED
    BY <1>0, <2>1, Zenon
<1>3. ASSUME NEW j \in Server, Restart(j)
      PROVE  Goal
  BY <1>0, <1>3 DEF Restart, readPersist
<1>4. ASSUME NEW m \in voteCalls, RequestVote(m)
      PROVE  Goal
  <2>1. m.to \in Server /\ m.Term \in Nat
    BY TypeFacts, Zenon DEF Routed
  <2>2. CASE UNCHANGED <<currentTerm, state, votedFor, persister>>
    BY <2>2, Zenon
  <2>3. CASE ~(m.Term < currentTerm[m.to])
    <3>1. CASE m.to # i
      BY <1>0, <1>4, <2>1, <3>1, Zenon DEF RequestVote, AdoptTerm
    <3>2. CASE m.to = i
      <4>1. m.Term = currentTerm[i]
        BY <1>0, <1>4, <2>3, <3>2, Zenon DEF RequestVote, AdoptTerm
      <4>2. state'[i] = state[i]
        BY <1>0, <1>4, <2>3, <3>2, <4>1, Zenon DEF RequestVote, AdoptTerm
      <4>3. votedFor'[i] = votedFor[i] \/ votedFor[i] = None
        BY <1>0, <1>4, <2>3, <3>2, <4>1, Zenon DEF RequestVote, VoteIn
      <4>4. QED
        BY <4>2, <4>3, Zenon
    <3>3. QED
      BY <3>1, <3>2, Zenon
  <2>4. QED
    BY <1>4, <2>2, <2>3, Zenon DEF RequestVote
<1>5. ASSUME NEW m \in appendCalls, AppendEntries(m)
      PROVE  Goal
  <2>1. m.to \in Server /\ m.Term \in Nat
    BY TypeFacts, Zenon DEF Routed
  <2>2. CASE UNCHANGED raftVars
    BY <2>2, Zenon DEF raftVars
  <2>3. CASE AdoptTerm(m.to, m.Term)
               /\ votedFor' = [votedFor EXCEPT ![m.to] = VoteIn(m.to, m.Term)]
    <3>1. CASE m.to # i
      BY <1>0, <2>1, <2>3, <3>1, Zenon DEF AdoptTerm
    <3>2. CASE m.to = i
      BY <1>0, <2>1, <2>3, <3>2 DEF AdoptTerm, VoteIn
    <3>3. QED
      BY <3>1, <3>2, Zenon
  <2>4. QED
    BY <1>5, <2>2, <2>3, Zenon DEF AppendEntries
<1>6. ASSUME NEW r \in voteReplies, sendRequestVote(r)
      PROVE  Goal
  <2>1. r.Term = r.call.Term => ~(r.Term > currentTerm[r.call.from])
    BY <1>0, TypeFacts, SMTT(20) DEF CallInv, Replies, Routed
  <2>2. UNCHANGED <<state, votedFor>>
    BY <1>6, <2>1, Zenon DEF sendRequestVote
  <2>3. QED
    BY <2>2, Zenon
<1>7. ASSUME NEW r \in appendReplies, sendAppendEntries(r)
      PROVE  Goal
  <2>1. r.Term = r.call.Term => ~(r.Term > currentTerm[r.call.from])
    <3>1. /\ r.call.Term <= currentTerm[r.call.from]
          /\ r.call.from \in Server /\ r.Term \in Nat
      BY TypeFacts, Zenon DEF CallInv, Replies, Routed
    <3>2. QED
      BY <1>0, <3>1
  <2>2. UNCHANGED <<state, votedFor>>
    BY <1>7, <2>1, Zenon DEF sendAppendEntries
  <2>3. QED
    BY <2>2, Zenon
<1>8. CASE UNCHANGED <<state, votedFor>>
  BY <1>8, Zenon
<1>9. QED
  BY <1>1, <1>2, <1>3, <1>4, <1>5, <1>6, <1>7, <1>8, Zenon
     DEF Next, vars, raftVars, candidatePoll, Start, startHeartBeat, leaderLoop,
         leaderExit, leaderPanic, applier, AppendEntries2

\* A new reply of RequestVote() has the voter's term, and a granted one is the
\* vote it just recorded.
LEMMA GrantShape ==
    ASSUME TypeInv, [Next]_vars, NEW r \in voteReplies', r \notin voteReplies
    PROVE  /\ Routed(r.call)
           /\ r.Term = currentTerm'[r.call.to]
           /\ r.VoteGranted => votedFor'[r.call.to] = r.call.from
<1>1. ASSUME NEW m \in voteCalls, RequestVote(m)
      PROVE  /\ Routed(r.call)
             /\ r.Term = currentTerm'[r.call.to]
             /\ r.VoteGranted => votedFor'[r.call.to] = r.call.from
  <2>1. Routed(m)
    BY TypeFacts, Zenon
  <2> DEFINE grant == /\ ~(m.Term < currentTerm[m.to])
                      /\ VoteIn(m.to, m.Term) = None /\ UpToDate(m, log[m.to])
             reply == [call |-> m, Term |-> currentTerm'[m.to], VoteGranted |-> grant]
  <2>2. voteReplies' = voteReplies \cup ToCaller(reply)
    BY <1>1, Zenon DEF RequestVote
  <2>3. r = reply
    <3> HIDE DEF reply
    <3>1. QED
      BY <2>2, Zenon DEF ToCaller
  <2>4. r.call = m /\ r.Term = currentTerm'[m.to]
    BY <2>3, Zenon
  <2>5. r.VoteGranted => grant
    <3> HIDE DEF grant
    <3>1. QED
      BY <2>3, Zenon
  <2>6. ASSUME grant
        PROVE  votedFor'[m.to] = m.from
    BY <1>1, <2>1, <2>6, TypeFacts, Zenon DEF RequestVote, Routed
  <2>7. QED
    BY <2>1, <2>4, <2>5, <2>6, Zenon
<1>2. ASSUME NEW i \in Server, Restart(i)
      PROVE  FALSE
  BY <1>2, Zenon DEF Restart, readPersist
<1>3. ASSUME NEW q \in voteReplies, sendRequestVote(q)
      PROVE  FALSE
  BY <1>3, Zenon DEF sendRequestVote
<1>4. QED
  BY <1>1, <1>2, <1>3
     DEF Next, vars, voteNet, candidate, candidatePoll, leader, Start,
         startHeartBeat, leaderLoop, leaderExit, leaderPanic, applier,
         AppendEntries, AppendEntries2, sendAppendEntries

\* A candidate keeps its own vote.
LEMMA CandidateStep ==
    ASSUME TypeInv, [Next]_vars,
           \A i \in Server : state[i] = "CANDIDATE" => votedFor[i] = i,
           NEW i \in Server, state'[i] = "CANDIDATE"
    PROVE  votedFor'[i] = i
<1>0. /\ state \in [Server -> {"FOLLOWER", "CANDIDATE", "LEADER"}]
      /\ votedFor \in [Server -> Server \cup {None}]
      /\ currentTerm \in [Server -> Nat]
  BY TypeFacts, Zenon
<1>1. ASSUME UNCHANGED votedFor,
             state' = state \/ \E j \in Server : state' = [state EXCEPT ![j] = "FOLLOWER"]
      PROVE  votedFor'[i] = i
  BY <1>0, <1>1, Zenon
<1>2. ASSUME NEW j \in Server, candidate(j)
      PROVE  votedFor'[i] = i
  <2>1. /\ state' = [state EXCEPT ![j] = "CANDIDATE"]
        /\ votedFor' = [votedFor EXCEPT ![j] = j]
    BY <1>2, Zenon DEF candidate
  <2>2. QED
    BY <1>0, <2>1, Zenon
<1>3. ASSUME NEW j \in Server, leader(j)
      PROVE  votedFor'[i] = i
  <2>1. /\ state' = [state EXCEPT ![j] = "LEADER"]
        /\ votedFor' = [votedFor EXCEPT ![j] = None]
    BY <1>3, Zenon DEF leader
  <2>2. QED
    BY <1>0, <2>1, Zenon
<1>4. ASSUME NEW j \in Server, Restart(j)
      PROVE  votedFor'[i] = i
  <2>1. /\ state' = [state EXCEPT ![j] = "FOLLOWER"]
        /\ votedFor' = [votedFor EXCEPT ![j] = persister[j].votedFor]
    BY <1>4, Zenon DEF Restart, readPersist
  <2>2. QED
    BY <1>0, <2>1, Zenon
<1>5. ASSUME NEW j \in Server, NEW t \in Nat, AdoptTerm(j, t),
             \/ votedFor' = [votedFor EXCEPT ![j] = VoteIn(j, t)]
             \/ VoteIn(j, t) = None
                  /\ \E k \in Server : votedFor' = [votedFor EXCEPT ![j] = k]
      PROVE  votedFor'[i] = i
  <2>1. state' = [state EXCEPT ![j] = IF t > currentTerm[j] THEN "FOLLOWER" ELSE @]
    BY <1>5, Zenon DEF AdoptTerm
  <2>2. CASE i # j
    BY <1>0, <1>5, <2>1, <2>2, Zenon
  <2>3. CASE i = j
    <3>1. ~(t > currentTerm[j]) /\ state[j] = "CANDIDATE"
      BY <1>0, <2>1, <2>3, Zenon
    <3>2. VoteIn(j, t) = votedFor[j] /\ votedFor[j] = j /\ j # None
      BY <3>1, ServerAssumption, Zenon DEF VoteIn
    <3>3. QED
      BY <1>0, <1>5, <2>3, <3>2, Zenon
  <2>4. QED
    BY <2>2, <2>3, Zenon
<1>6. ASSUME NEW m \in voteCalls, RequestVote(m)
      PROVE  votedFor'[i] = i
  <2>1. m.to \in Server /\ m.from \in Server /\ m.Term \in Nat
    BY TypeFacts, Zenon DEF Routed
  <2>2. CASE UNCHANGED <<state, votedFor>>
    BY <1>1, <2>2, Zenon
  <2>3. CASE ~UNCHANGED <<state, votedFor>>
    <3>1. /\ AdoptTerm(m.to, m.Term)
          /\ \/ votedFor' = [votedFor EXCEPT ![m.to] = VoteIn(m.to, m.Term)]
             \/ VoteIn(m.to, m.Term) = None
                  /\ votedFor' = [votedFor EXCEPT ![m.to] = m.from]
      BY <1>6, <2>3, Zenon DEF RequestVote
    <3>2. QED
      BY <1>5, <2>1, <3>1, Zenon
  <2>4. QED
    BY <2>2, <2>3, Zenon
<1>7. ASSUME NEW m \in appendCalls, AppendEntries(m)
      PROVE  votedFor'[i] = i
  <2>1. m.to \in Server /\ m.Term \in Nat
    BY TypeFacts, Zenon DEF Routed
  <2>2. CASE UNCHANGED raftVars
    BY <1>1, <2>2, Zenon DEF raftVars
  <2>3. CASE AdoptTerm(m.to, m.Term)
               /\ votedFor' = [votedFor EXCEPT ![m.to] = VoteIn(m.to, m.Term)]
    BY <1>5, <2>1, <2>3, Zenon
  <2>4. QED
    BY <1>7, <2>2, <2>3, Zenon DEF AppendEntries
<1>8. ASSUME NEW r \in voteReplies, sendRequestVote(r)
      PROVE  votedFor'[i] = i
  <2>1. r.call.from \in Server
    BY TypeFacts, Zenon DEF Routed
  <2>2. QED
    BY <1>1, <1>8, <2>1, Zenon DEF sendRequestVote, StepDown
<1>9. ASSUME NEW r \in appendReplies, sendAppendEntries(r)
      PROVE  votedFor'[i] = i
  <2>1. r.call.from \in Server
    BY TypeFacts, Zenon DEF Routed
  <2>2. QED
    BY <1>1, <1>9, <2>1, Zenon DEF sendAppendEntries, StepDown
<1>10. CASE UNCHANGED <<state, votedFor>>
  BY <1>1, <1>10, Zenon
<1>11. QED
  BY <1>2, <1>3, <1>4, <1>6, <1>7, <1>8, <1>9, <1>10, Zenon
     DEF Next, vars, raftVars, candidatePoll, Start, startHeartBeat, leaderLoop,
         leaderExit, leaderPanic, applier, AppendEntries2

\* Every step preserves the binding of votes.
LEMMA VoteStep ==
    ASSUME Counting, TypeInv, DiskMatchesMemory, CallInv, VoteInv, VoteBinds, [Next]_vars
    PROVE  VoteInv' /\ VoteBinds'
<1>1. TypeInv'
  BY TypeStep, Zenon
<1>2. /\ currentTerm \in [Server -> Nat] /\ currentTerm' \in [Server -> Nat]
      /\ incarnation \in [Server -> Nat] /\ incarnation' \in [Server -> Nat]
      /\ votedFor \in [Server -> Server \cup {None}]
  BY <1>1, Zenon DEF TypeInv, RaftTypes, IncarnationTypes
<1>3. /\ \A i \in Server : currentTerm'[i] >= currentTerm[i]
      /\ \A i \in Server : incarnation'[i] >= incarnation[i]
  BY TermStep, IncarnationStep, Zenon
<1>4. \A r \in voteReplies : Routed(r.call) /\ r.Term \in Nat
  BY TypeFacts, Zenon
<1>5. ASSUME NEW r \in voteReplies'
      PROVE  r.Term <= currentTerm'[r.call.to]
  <2>1. CASE r \in voteReplies
    BY <1>2, <1>3, <1>4, <2>1 DEF VoteInv, Routed
  <2>2. CASE r \notin voteReplies
    BY <1>2, <2>2, GrantShape DEF Routed
  <2>3. QED
    BY <2>1, <2>2, Zenon
<1>6. ASSUME NEW r \in voteReplies', r.VoteGranted,
             r.Term = currentTerm'[r.call.to]
      PROVE  \/ votedFor'[r.call.to] = r.call.from
             \/ state'[r.call.to] = "LEADER" \/ incarnation'[r.call.to] > 0
  <2> DEFINE i == r.call.to
  <2>1. CASE r \in voteReplies
    <3>1. i \in Server /\ r.call.from \in Server /\ r.Term \in Nat
      BY <1>4, <2>1, Zenon DEF Routed
    <3> HIDE DEF i
    <3>2. currentTerm'[i] = currentTerm[i] /\ r.Term = currentTerm[i]
      BY <1>2, <1>3, <1>6, <2>1, <3>1 DEF VoteInv, i
    <3>3. votedFor[i] = r.call.from \/ state[i] = "LEADER" \/ incarnation[i] > 0
      BY <1>6, <2>1, <3>2, Zenon DEF VoteBinds, i
    <3>4. CASE incarnation'[i] > 0
      BY <3>4, Zenon DEF i
    <3>5. CASE ~(incarnation'[i] > 0)
      <4>1. incarnation'[i] = incarnation[i] /\ ~(incarnation[i] > 0)
        BY <1>2, <1>3, <3>1, <3>5
      <4>2. /\ state[i] = "LEADER" => state'[i] = "LEADER"
            /\ votedFor'[i] = votedFor[i] \/ votedFor[i] = None \/ state'[i] = "LEADER"
        BY <3>1, <3>2, <4>1, VoteShape, Zenon
      <4>3. r.call.from # None
        BY <3>1, ServerAssumption, Zenon
      <4>4. QED
        BY <3>3, <4>1, <4>2, <4>3, Zenon DEF i
    <3>6. QED
      BY <3>4, <3>5, Zenon
  <2>2. CASE r \notin voteReplies
    BY <1>6, <2>2, GrantShape, Zenon
  <2>3. QED
    BY <2>1, <2>2, Zenon
<1>7. VoteInv'
  BY <1>5, Zenon DEF VoteInv
<1>8. VoteBinds'
  <2>1. \A i \in Server : state'[i] = "CANDIDATE" => votedFor'[i] = i
    BY CandidateStep, Zenon DEF VoteBinds
  <2>2. QED
    BY <1>6, <2>1, Zenon DEF VoteBinds
<1>9. QED
  BY <1>7, <1>8, Zenon

\* At most one peer has a timer that expires.
OnePrimary == \E p \in Server : Electable \subseteq {p}
Primary == CHOOSE p \in Server : Electable \subseteq {p}

\* The primary is a peer, and no other peer ever starts an election.
LEMMA PrimaryFact ==
    ASSUME OnePrimary
    PROVE  Primary \in Server /\ Electable \subseteq {Primary}
BY Zenon DEF OnePrimary, Primary

---------------------------------------------------------------------------------
(***************************************************************************)
(* The inductive invariant                                                  *)
(***************************************************************************)
\* Nobody else campaigns or leads.
RoleInv ==
    \A i \in Server : i # Primary => /\ electing[i] = {} /\ starting[i] = 0
                                     /\ state[i] # "LEADER"

\* A sequence of entries that starts after entry k is part of a log.
Part(entries, k, l) ==
    /\ k + Len(entries) <= Len(l)
    /\ \A n \in 1..Len(entries) : entries[n] = l[k + n]

\* Every log is a prefix of the primary's.
LogInv == \A i \in Server : Part(log[i], 0, log[Primary])

\* The first n entries are in the logs of a majority.
Held(n) == Majority({j \in Server : n <= Len(log[j])})

\* A call carries a part of the primary's log, up to its end at that time, and a
\* commit index that was reached by then.
CallOK(m) ==
    /\ Part(m.Entries, m.PrevLogIndex, log[Primary])
    /\ m.LeaderCommit <= m.PrevLogIndex + Len(m.Entries)
    /\ Held(m.LeaderCommit)
SegmentInv == \A m \in appendCalls \cup appending : CallOK(m)

\* A peer that reported success has the entries of the call.
SuccessInv ==
    \A r \in appendReplies :
        r.Success => r.call.PrevLogIndex + Len(r.call.Entries) <= Len(log[r.call.to])

\* A leader does not overestimate what a peer has.
MatchInv == \A i, j \in Server : matchIndex[i][j] <= Len(log[j])

CommitInv == \A i \in Server : commitIndex[i] <= Len(log[i]) /\ Held(commitIndex[i])

DeliverInv ==
    \A i \in Server :
        /\ Len(delivered[i]) <= Len(log[Primary])
        /\ \A n \in 1..Len(delivered[i]) : delivered[i][n] = log[Primary][n].command

PrimaryInv == /\ RoleInv /\ LogInv /\ SegmentInv /\ SuccessInv /\ MatchInv
              /\ CommitInv /\ DeliverInv

---------------------------------------------------------------------------------
(***************************************************************************)
(* Logs only grow                                                           *)
(***************************************************************************)

\* The types that the proofs below use.
LEMMA LogFacts ==
    ASSUME TypeInv
    PROVE  /\ log \in [Server -> Seq(Entry)]
           /\ \A i \in Server : Len(log[i]) \in Nat /\ log[i] \in Seq(Entry)
           /\ commitIndex \in [Server -> Nat]
           /\ matchIndex \in [Server -> [Server -> Nat]]
           /\ \A m \in appendCalls \cup appending :
                /\ m \in AppendEntriesArgs /\ m.to \in Server /\ m.PrevLogIndex \in Nat
                /\ m.LeaderCommit \in Nat /\ m.Entries \in Seq(Entry)
                /\ Len(m.Entries) \in Nat
           /\ \A r \in appendReplies :
                /\ r.call.to \in Server /\ r.call.from \in Server
                /\ r.call.PrevLogIndex \in Nat /\ Len(r.call.Entries) \in Nat
<1>1. /\ log \in [Server -> Seq(Entry)] /\ commitIndex \in [Server -> Nat]
      /\ matchIndex \in [Server -> [Server -> Nat]]
  BY Zenon DEF TypeInv, RaftTypes, CommitTypes, LeaderTypes
<1>2. \A i \in Server : Len(log[i]) \in Nat /\ log[i] \in Seq(Entry)
  BY <1>1, SeqIs, Zenon
<1>3. ASSUME NEW m \in AppendEntriesArgs
      PROVE  /\ m.to \in Server /\ m.from \in Server /\ m.PrevLogIndex \in Nat
             /\ m.LeaderCommit \in Nat /\ m.Entries \in Seq(Entry)
             /\ Len(m.Entries) \in Nat
  BY SeqIs, Zenon DEF AppendEntriesArgs
<1>4. \A m \in appendCalls \cup appending : m \in AppendEntriesArgs
  BY Zenon DEF TypeInv, AppendTypes
<1>5. \A r \in appendReplies : r.call \in AppendEntriesArgs
  BY Zenon DEF TypeInv, AppendTypes, AppendEntriesReply
<1> QED
  BY <1>1, <1>2, <1>3, <1>4, <1>5, Zenon

\* What a peer makes of a consistent call is its log with the entries it lacks: a
\* late or repeated call cuts nothing off.
LEMMA MergeGrows ==
    ASSUME Counting, NEW m \in AppendEntriesArgs, NEW l \in Seq(Entry), NEW p \in Seq(Entry),
           Part(l, 0, p), Part(m.Entries, m.PrevLogIndex, p), Consistent(m, l)
    PROVE  LET last == m.PrevLogIndex + Len(m.Entries)
           IN  /\ Part(Merge(m, l), 0, p)
               /\ Len(Merge(m, l)) = IF Len(l) < last THEN last ELSE Len(l)
<1> DEFINE e == m.Entries
           k == m.PrevLogIndex
           M == Merge(m, l)
<1>1. /\ e \in Seq(Entry) /\ Len(e) \in Nat /\ k \in Nat /\ Len(l) \in Nat
      /\ Len(p) \in Nat /\ k <= Len(l)
  BY SeqIs DEF AppendEntriesArgs, Consistent, TooShort
<1>2. /\ k + Len(e) <= Len(p) /\ \A n \in 1..Len(e) : e[n] = p[k + n]
      /\ Len(l) <= Len(p) /\ \A n \in 1..Len(l) : l[n] = p[n]
  BY <1>1 DEF Part
<1>3. NewEntries(m, l) = {n \in 1..Len(e) : Len(l) < k + n}
  <2>1. ASSUME NEW n \in 1..Len(e), ~(Len(l) < k + n)
        PROVE  e[n] = l[k + n]
    <3>1. k + n \in 1..Len(l)
      BY <1>1, <2>1
    <3> QED
      BY <1>2, <3>1, Zenon
  <2> QED
    BY <2>1, Zenon DEF NewEntries
<1> HIDE DEF e, k
<1>4. CASE Len(l) >= k + Len(e)
  <2>1. NewEntries(m, l) = {}
    BY <1>1, <1>3, <1>4
  <2>2. M = l
    BY <2>1, Zenon DEF Merge
  <2> QED
    BY <1>1, <1>4, <2>2 DEF e, k
<1>5. CASE Len(l) < k + Len(e)
  <2> DEFINE f == Len(l) - k + 1
  <2>1. f \in 1..Len(e) /\ k + f - 1 = Len(l)
    BY <1>1, <1>5
  <2>2. f \in NewEntries(m, l) /\ \A n \in NewEntries(m, l) : f <= n
    BY <1>1, <1>3, <1>5
  <2>3. NewEntries(m, l) \in SUBSET Nat /\ NewEntries(m, l) # {}
    <3>1. NewEntries(m, l) \subseteq 1..Len(e)
      BY <1>3, Zenon
    <3> QED
      BY <1>1, <2>2, <3>1
  <2>4. Min(NewEntries(m, l)) = f
    <3>1. /\ Min(NewEntries(m, l)) \in NewEntries(m, l)
          /\ \A n \in NewEntries(m, l) : Min(NewEntries(m, l)) <= n
      BY <2>3, MinOfNat, Zenon
    <3> DEFINE g == Min(NewEntries(m, l))
    <3>2. g \in Nat /\ f <= g /\ g <= f
      BY <2>2, <2>3, <3>1, Zenon
    <3> HIDE DEF g, f
    <3>3. g = f
      BY <2>1, <3>2
    <3> QED
      BY <3>3, Zenon DEF g
  <2>5. M = SubSeq(l, 1, Len(l)) \o SubSeq(e, f, Len(e))
    BY <2>1, <2>3, <2>4, Zenon DEF Merge, e, k
  <2> HIDE DEF f, M
  <2>6. /\ SubSeq(l, 1, Len(l)) \in Seq(Entry) /\ Len(SubSeq(l, 1, Len(l))) = Len(l)
        /\ \A n \in 1..Len(l) : SubSeq(l, 1, Len(l))[n] = l[n]
    <3>1. CASE Len(l) = 0
      BY <1>1, <3>1, SubSeqType
    <3>2. CASE Len(l) # 0
      <4>1. /\ SubSeq(l, 1, Len(l)) \in Seq(Entry)
            /\ Len(SubSeq(l, 1, Len(l))) = Len(l) - 1 + 1
            /\ \A n \in 1..(Len(l) - 1 + 1) : SubSeq(l, 1, Len(l))[n] = l[1 + n - 1]
        BY <1>1, <3>2, SubSeqType
      <4> QED
        BY <1>1, <4>1
    <3> QED
      BY <3>1, <3>2, Zenon
  <2>7. /\ SubSeq(e, f, Len(e)) \in Seq(Entry) /\ Len(SubSeq(e, f, Len(e))) = Len(e) - f + 1
        /\ \A n \in 1..(Len(e) - f + 1) : SubSeq(e, f, Len(e))[n] = e[f + n - 1]
    BY <1>1, <2>1, SubSeqType
  <2> DEFINE a == SubSeq(l, 1, Len(l))
             b == SubSeq(e, f, Len(e))
  <2>8. /\ Len(M) = Len(a) + Len(b)
        /\ \A n \in 1..(Len(a) + Len(b)) : M[n] = IF n <= Len(a) THEN a[n] ELSE b[n - Len(a)]
    BY <2>5, <2>6, <2>7
  <2>a. /\ Len(a) = Len(l) /\ Len(b) = Len(e) - f + 1
        /\ \A n \in 1..Len(l) : a[n] = l[n]
        /\ \A n \in 1..(Len(e) - f + 1) : b[n] = e[f + n - 1]
    BY <2>6, <2>7, Zenon
  <2> HIDE DEF a, b
  <2>9. Len(M) = k + Len(e) /\ Len(a) + Len(b) = Len(M)
    <3>1. Len(M) = Len(a) + Len(b) /\ Len(a) = Len(l) /\ Len(b) = Len(e) - f + 1
      BY <2>8, <2>a, Zenon
    <3>2. f \in Int /\ k + f - 1 = Len(l)
      BY <2>1
    <3>3. k \in Int /\ Len(e) \in Int
      BY <1>1
    <3>4. \A x, y, z, w \in Int : x + y - 1 = z => z + (w - y + 1) = x + w
      OBVIOUS
    <3>5. Len(l) + (Len(e) - f + 1) = k + Len(e)
      BY <3>2, <3>3, <3>4
    <3> QED
      BY <3>1, <3>5, Zenon
  <2>10. ASSUME NEW n \in 1..Len(M)
         PROVE  M[n] = p[n]
    <3>1. CASE n <= Len(l)
      <4>1. M[n] = a[n] /\ n \in 1..Len(l)
        BY <1>1, <2>8, <2>9, <2>a, <3>1
      <4> QED
        BY <1>2, <2>a, <4>1, Zenon
    <3>2. CASE n > Len(l)
      <4> DEFINE q == n - Len(l)
      <4>1. q \in 1..(Len(e) - f + 1) /\ f + q - 1 \in 1..Len(e) /\ k + (f + q - 1) = n
        <5>1. f \in Int /\ f >= 1 /\ k + f - 1 = Len(l) /\ n <= k + Len(e) /\ n \in Nat
          BY <1>1, <2>1, <2>9
        <5>2. n - Len(l) >= 1 /\ n - Len(l) <= Len(e) - f + 1 /\ n - Len(l) \in Int
          BY <1>1, <3>2, <5>1
        <5>3. \A x, y, z, w, v \in Int : x + y - 1 = z /\ y >= 1 /\ v - z >= 1 /\ v - z <= w - y + 1
                => /\ v - z \in 1..(w - y + 1) /\ y + (v - z) - 1 \in 1..w
                   /\ x + (y + (v - z) - 1) = v
          OBVIOUS
        <5>4. k \in Int /\ Len(e) \in Int /\ Len(l) \in Int /\ n \in Int
          BY <1>1
        <5> QED
          BY <5>1, <5>2, <5>3, <5>4
      <4>2. M[n] = b[q]
        BY <1>1, <2>8, <2>9, <2>a, <3>2
      <4>3. b[q] = e[f + q - 1]
        BY <2>a, <4>1, Zenon
      <4>4. e[f + q - 1] = p[k + (f + q - 1)]
        BY <1>2, <4>1, Zenon DEF e, k
      <4> QED
        BY <4>1, <4>2, <4>3, <4>4, Zenon
    <3> QED
      BY <1>1, <2>9, <3>1, <3>2
  <2>11. Part(M, 0, p)
    BY <1>1, <1>2, <2>9, <2>10, SMTT(30) DEF Part, e, k
  <2> QED
    BY <1>5, <2>9, <2>11, Zenon DEF M, e, k
<1> QED
  BY <1>1, <1>4, <1>5

\* Only the primary becomes a leader.
LEMMA RoleStep ==
    ASSUME OnePrimary, TypeInv, RoleInv, [Next]_vars
    PROVE  RoleInv'
<1>0. /\ state \in [Server -> {"FOLLOWER", "CANDIDATE", "LEADER"}]
      /\ electing \in [Server -> SUBSET Nat] /\ starting \in [Server -> Nat]
  BY Zenon DEF TypeInv, RaftTypes, CandidateTypes
<1>1. ASSUME NEW i \in Server, candidate(i) \/ leader(i) \/ \E t \in electing[i] : candidatePoll(i, t)
      PROVE  RoleInv'
  <2>1. i = Primary
    BY <1>1, PrimaryFact DEF candidate, startElectionTimer, leader, candidatePoll, RoleInv
  <2>2. \A j \in Server : j # i => /\ electing'[j] = electing[j] /\ starting'[j] = starting[j]
                                   /\ state'[j] = state[j]
    BY <1>0, <1>1, Zenon DEF candidate, leader, candidatePoll, raftVars
  <2> QED
    BY <2>1, <2>2, Zenon DEF RoleInv
<1>2. ASSUME UNCHANGED <<electing, starting>>, \A j \in Server : state'[j] \in {"FOLLOWER", state[j]}
      PROVE  RoleInv'
  BY <1>0, <1>2, Zenon DEF RoleInv
<1>3. ASSUME NEW i \in Server, Restart(i)
      PROVE  RoleInv'
  BY <1>0, <1>3, Zenon DEF Restart, RoleInv
<1>4. ASSUME NEW m \in voteCalls, RequestVote(m)
      PROVE  RoleInv'
  BY <1>0, <1>2, <1>4, Zenon DEF RequestVote, AdoptTerm, candidateVars
<1>5. ASSUME NEW m \in appendCalls, AppendEntries(m)
      PROVE  RoleInv'
  BY <1>0, <1>2, <1>5, Zenon DEF AppendEntries, AdoptTerm, candidateVars, raftVars
<1>6. ASSUME NEW r \in voteReplies, sendRequestVote(r)
      PROVE  RoleInv'
  BY <1>0, <1>2, <1>6, Zenon DEF sendRequestVote, StepDown
<1>7. ASSUME NEW r \in appendReplies, sendAppendEntries(r)
      PROVE  RoleInv'
  BY <1>0, <1>2, <1>7, Zenon DEF sendAppendEntries, StepDown, candidateVars
<1>8. CASE UNCHANGED <<electing, starting, state>>
  BY <1>2, <1>8, SMTT(30)
<1> QED
  BY <1>1, <1>3, <1>4, <1>5, <1>6, <1>7, <1>8, ZenonT(30)
     DEF Next, vars, raftVars, candidateVars, Start, startHeartBeat, leaderLoop, leaderExit,
         leaderPanic, applier, AppendEntries2

\* What a step keeps of every log: all of it.
LogsGrow == \A i \in Server : Part(log[i], 0, log'[i])

\* A step leaves all logs prefixes of the primary's, and cuts none.
LEMMA LogStep ==
    ASSUME Counting, OnePrimary, TypeInv, DiskMatchesMemory, RoleInv, LogInv, SegmentInv, [Next]_vars
    PROVE  LogInv' /\ LogsGrow
<1>0. /\ log \in [Server -> Seq(Entry)] /\ Primary \in Server
      /\ \A i \in Server : Len(log[i]) \in Nat /\ log[i] \in Seq(Entry)
  BY LogFacts, PrimaryFact, Zenon
<1>1. CASE log' = log
  BY <1>0, <1>1 DEF LogInv, LogsGrow, Part
<1>2. ASSUME NEW i \in Server, NEW c \in Command, Start(i, c)
      PROVE  LogInv' /\ LogsGrow
  <2> DEFINE e == [term |-> currentTerm[i], command |-> c]
  <2>1. i = Primary
    BY <1>2, Zenon DEF Start, RoleInv
  <2>2. log' = [log EXCEPT ![i] = Append(log[i], e)]
    BY <1>2, Zenon DEF Start
  <2>3. e \in Entry
    BY Zenon DEF Entry, TypeInv, RaftTypes
  <2> HIDE DEF e
  <2>4. /\ Len(Append(log[i], e)) = Len(log[i]) + 1
        /\ \A n \in 1..Len(log[i]) : Append(log[i], e)[n] = log[i][n]
    BY <1>0, <2>3
  <2>5. Part(log[i], 0, log'[i])
    BY <1>0, <2>2, <2>4 DEF Part
  <2>6. \A j \in Server : j # i => log'[j] = log[j]
    BY <1>0, <2>2, Zenon
  <2>7. LogsGrow
    <3>1. ASSUME NEW l, Len(l) \in Nat PROVE Part(l, 0, l)
      BY <3>1 DEF Part
    <3> QED
      BY <1>0, <2>5, <2>6, <3>1, Zenon DEF LogsGrow
  <2>8. ASSUME NEW j \in Server
        PROVE  Part(log'[j], 0, log'[i])
    <3>1. CASE j = i
      <4>1. Len(log'[i]) \in Nat
        BY <1>0, <2>2, <2>4
      <4> QED
        BY <3>1, <4>1 DEF Part
    <3>2. CASE j # i
      <4>1. Part(log[j], 0, log[i])
        BY <2>1, Zenon DEF LogInv
      <4> QED
        BY <1>0, <2>5, <2>6, <3>2, <4>1 DEF Part
    <3> QED
      BY <3>1, <3>2, Zenon
  <2> QED
    BY <2>1, <2>7, <2>8, Zenon DEF LogInv
<1>3. ASSUME NEW m \in appending, AppendEntries2(m)
      PROVE  LogInv' /\ LogsGrow
  <2> DEFINE i == m.to
             M == Merge(m, log[i])
  <2>1. m \in AppendEntriesArgs /\ i \in Server /\ log[i] \in Seq(Entry)
    BY <1>0, LogFacts, Zenon
  <2>2. CASE Consistent(m, log[i]) /\ m.Entries # <<>>
    <3>1. log' = [log EXCEPT ![i] = M]
      BY <1>3, <2>2, Zenon DEF AppendEntries2
    <3>2. Part(M, 0, log[Primary]) /\ Len(log[i]) <= Len(M)
      <4>1. Part(log[i], 0, log[Primary]) /\ Part(m.Entries, m.PrevLogIndex, log[Primary])
        BY <2>1, Zenon DEF LogInv, SegmentInv, CallOK
      <4>2. m.PrevLogIndex + Len(m.Entries) \in Nat
        BY LogFacts
      <4>3. /\ Part(M, 0, log[Primary])
            /\ Len(M) = IF Len(log[i]) < m.PrevLogIndex + Len(m.Entries)
                        THEN m.PrevLogIndex + Len(m.Entries) ELSE Len(log[i])
        BY <1>0, <2>1, <2>2, <4>1, MergeGrows, Zenon
      <4> QED
        BY <1>0, <2>1, <4>2, <4>3
    <3>3. M \in Seq(Entry) /\ Len(M) \in Nat
      BY <2>1, <2>2, MergeType, SeqIs, Zenon
    <3> HIDE DEF M
    <3>4. \A j \in Server : log'[j] = IF j = i THEN M ELSE log[j]
      BY <1>0, <2>1, <3>1, Zenon
    <3> HIDE DEF i
    <3>5. Part(log[i], 0, log[Primary])
      BY <2>1, Zenon DEF LogInv
    <3>6. Part(log[i], 0, M)
      BY <1>0, <2>1, <3>2, <3>3, <3>5 DEF Part
    <3>7. LogsGrow
      BY <1>0, <3>4, <3>6 DEF LogsGrow, Part
    <3>8. Part(log[Primary], 0, log'[Primary]) /\ Len(log'[Primary]) \in Nat
      BY <1>0, <3>3, <3>4, <3>7, Zenon DEF LogsGrow
    <3>9. \A j \in Server : Part(log'[j], 0, log[Primary]) /\ Len(log'[j]) \in Nat
      BY <1>0, <3>2, <3>3, <3>4, Zenon DEF LogInv
    <3>10. \A j \in Server : Part(log'[j], 0, log'[Primary])
      BY <1>0, <3>8, <3>9 DEF Part
    <3> QED
      BY <3>7, <3>10, Zenon DEF LogInv
  <2>3. CASE ~(Consistent(m, log[i]) /\ m.Entries # <<>>)
    BY <1>1, <1>3, <2>3, Zenon DEF AppendEntries2
  <2> QED
    BY <2>2, <2>3, Zenon
<1>4. ASSUME NEW i \in Server, Restart(i)
      PROVE  log' = log
  BY <1>0, <1>4, Zenon DEF Restart, readPersist, DiskMatchesMemory
<1> QED
  BY <1>1, <1>2, <1>3, <1>4, ZenonT(30)
     DEF Next, vars, raftVars, candidate, candidatePoll, leader, startHeartBeat, leaderLoop,
         leaderExit, leaderPanic, applier, RequestVote, sendRequestVote, AppendEntries,
         sendAppendEntries

---------------------------------------------------------------------------------
(***************************************************************************)
(* What growing logs preserve                                               *)
(***************************************************************************)

\* A set of peers that includes a majority is one.
LEMMA MajorityGrows ==
    ASSUME Counting, NEW S \in SUBSET Server, NEW T \in SUBSET Server, S \subseteq T, Majority(S)
    PROVE  Majority(T)
<1>2. Cardinality(S) <= Cardinality(T)
  BY Zenon DEF Counting
<1>3. Cardinality(S) \in Nat /\ Cardinality(T) \in Nat /\ Cardinality(Server) \in Nat
  BY Zenon DEF Counting
<1>4. Cardinality(Server) \div 2 \in Int
  BY <1>3
<1> QED
  BY <1>2, <1>3, <1>4 DEF Majority

\* A majority that has the first n entries keeps them.
LEMMA HeldGrows ==
    ASSUME Counting, TypeInv, TypeInv', LogsGrow, NEW n \in Nat, Held(n)
    PROVE  Held(n)'
<1>1. \A j \in Server : Len(log[j]) \in Nat /\ Len(log'[j]) \in Nat
  <2>1. log' \in [Server -> Seq(Entry)]
    BY Zenon DEF TypeInv, RaftTypes
  <2> QED
    BY <2>1, LogFacts, SeqIs, Zenon
<1>2. \A j \in Server : Len(log[j]) <= Len(log'[j])
  BY <1>1 DEF LogsGrow, Part
<1>3. {j \in Server : n <= Len(log[j])} \subseteq {j \in Server : n <= Len(log'[j])}
  BY <1>1, <1>2
<1>4. Majority({j \in Server : n <= Len(log'[j])})
  BY <1>3, MajorityGrows, Zenon DEF Held
<1> QED
  BY <1>4, Zenon DEF Held, Majority

\* A call stays part of the primary's log, and its commit index stays reached.
LEMMA CallGrows ==
    ASSUME Counting, OnePrimary, TypeInv, TypeInv', LogsGrow, NEW m \in AppendEntriesArgs, CallOK(m)
    PROVE  CallOK(m)'
<1>0. /\ m.PrevLogIndex \in Nat /\ m.LeaderCommit \in Nat /\ Len(m.Entries) \in Nat
      /\ Len(log[Primary]) \in Nat /\ Primary \in Server
  BY LogFacts, PrimaryFact, SeqIs, Zenon DEF AppendEntriesArgs
<1>1. /\ Len(log[Primary]) <= Len(log'[Primary]) /\ Len(log'[Primary]) \in Nat
      /\ \A n \in 1..Len(log[Primary]) : log'[Primary][n] = log[Primary][n]
  <2>1. log' \in [Server -> Seq(Entry)]
    BY Zenon DEF TypeInv, RaftTypes
  <2>2. Len(log'[Primary]) \in Nat
    BY <1>0, <2>1, SeqIs, Zenon
  <2> QED
    BY <1>0, <2>2 DEF LogsGrow, Part
<1>2. Part(m.Entries, m.PrevLogIndex, log'[Primary])
  <2>1. /\ m.PrevLogIndex + Len(m.Entries) <= Len(log[Primary])
        /\ \A n \in 1..Len(m.Entries) : m.Entries[n] = log[Primary][m.PrevLogIndex + n]
    BY Zenon DEF CallOK, Part
  <2>2. \A n \in 1..Len(m.Entries) : m.PrevLogIndex + n \in 1..Len(log[Primary])
    BY <1>0, <2>1
  <2>3. \A n \in 1..Len(m.Entries) : m.Entries[n] = log'[Primary][m.PrevLogIndex + n]
    BY <1>1, <2>1, <2>2, Zenon
  <2> QED
    BY <1>0, <1>1, <2>1, <2>3 DEF Part
<1>3. Held(m.LeaderCommit)'
  BY <1>0, HeldGrows, Zenon DEF CallOK
<1> QED
  BY <1>2, <1>3, Zenon DEF CallOK

\* A log that only grows tears no call that is being encoded.
LEMMA TornSame ==
    ASSUME TypeInv, NEW i \in Server, NEW l \in Seq(Entry), Part(log[i], 0, l),
           NEW c \in AppendEntriesArgs, NEW d \in Torn(c, i, l)
    PROVE  d = c
<1>1. /\ c.Entries \in Seq(Entry) /\ c.PrevLogIndex \in Nat /\ Len(c.Entries) \in Nat
      /\ Len(log[i]) \in Nat /\ Len(l) \in Nat
  BY LogFacts, SeqIs, Zenon DEF AppendEntriesArgs
<1>2. Overwritten(c, i, l) = {}
  <2>1. \A n \in 1..Len(log[i]) : log[i][n] = l[n]
    BY <1>1 DEF Part
  <2>2. \A q \in 1..Len(c.Entries) : c.PrevLogIndex + q >= 1 /\ c.PrevLogIndex + q \in Nat
    BY <1>1
  <2> QED
    BY <1>1, <2>1, <2>2 DEF Overwritten
<1>3. PICK new \in [term : {{}}, command : {{}}] : d = [c EXCEPT !.Entries = Mixture(c, l, new)]
  BY <1>2, Zenon DEF Torn
<1>4. Mixture(c, l, new) = c.Entries
  <2>1. \A q \in 1..Len(c.Entries) : c.Entries[q] \in Entry
    BY <1>1, SeqAt, Zenon
  <2>2. \A e \in Entry : e = [term |-> e.term, command |-> e.command]
    BY DEF Entry
  <2>3. \A q \in 1..Len(c.Entries) : Mixture(c, l, new)[q] = c.Entries[q]
    BY <1>3, <2>1, <2>2, Zenon DEF Mixture
  <2>4. /\ Mixture(c, l, new) = [q \in 1..Len(c.Entries) |-> Mixture(c, l, new)[q]]
        /\ c.Entries = [q \in 1..Len(c.Entries) |-> c.Entries[q]]
    <3>1. c.Entries = [q \in DOMAIN c.Entries |-> c.Entries[q]] /\ DOMAIN c.Entries = 1..Len(c.Entries)
      BY <1>1, SeqIs, SMTT(30)
    <3> QED
      BY <3>1, Zenon DEF Mixture
  <2> QED
    BY <2>3, <2>4, Zenon
<1> QED
  BY <1>3, <1>4, Zenon DEF AppendEntriesArgs

---------------------------------------------------------------------------------
(***************************************************************************)
(* The steps                                                                *)
(***************************************************************************)

\* Every call is an old one, as it was, or a new one with the rest of a log.
LEMMA SegmentStep ==
    ASSUME Counting, OnePrimary, TypeInv, TypeInv', LogInv, SegmentInv, CommitInv, LogsGrow, [Next]_vars
    PROVE  SegmentInv'
<1>0. /\ appendCalls \cup appending \subseteq AppendEntriesArgs
      /\ appendCalls \subseteq AppendEntriesArgs
  BY LogFacts, Zenon
<1>1. ASSUME \A d \in appendCalls' \cup appending' :
               \/ d \in appendCalls \cup appending
               \/ d \in AppendEntriesArgs /\ CallOK(d)
      PROVE  SegmentInv'
  <2>1. ASSUME NEW d \in appendCalls' \cup appending'
        PROVE  CallOK(d)'
    <3>1. d \in AppendEntriesArgs /\ CallOK(d)
      BY <1>0, <1>1, <2>1, Zenon DEF SegmentInv
    <3> QED
      BY <3>1, CallGrows, Zenon
  <2> QED
    BY <2>1, Zenon DEF SegmentInv
<1>2. ASSUME NEW i \in Server, NEW j \in Server, NEW prev \in Nat, prev <= Len(log[i])
      PROVE  AppendCall(i, j, prev) \in AppendEntriesArgs /\ CallOK(AppendCall(i, j, prev))
  <2> DEFINE d == AppendCall(i, j, prev)
             e == SubSeq(log[i], prev + 1, Len(log[i]))
  <2>1. /\ log[i] \in Seq(Entry) /\ Len(log[i]) \in Nat /\ commitIndex[i] \in Nat
        /\ currentTerm[i] \in Nat /\ incarnation[i] \in Nat /\ Len(log[Primary]) \in Nat
    BY LogFacts, TypeFacts, PrimaryFact, Zenon
  <2>2. /\ e \in Seq(Entry) /\ Len(e) = Len(log[i]) - prev
        /\ \A n \in 1..Len(e) : e[n] = log[i][prev + n]
    <3>1. /\ e \in Seq(Entry)
          /\ Len(e) = IF prev + 1 <= Len(log[i]) THEN Len(log[i]) - (prev + 1) + 1 ELSE 0
          /\ \A n \in 1..(Len(log[i]) - (prev + 1) + 1) : e[n] = log[i][prev + 1 + n - 1]
      <4>1. prev + 1 \in Nat /\ prev + 1 >= 1 /\ Len(log[i]) <= Len(log[i])
        BY <1>2, <2>1
      <4> QED
        BY <2>1, <4>1, SubSeqType, ZenonT(30)
    <3>2. Len(log[i]) - (prev + 1) + 1 = Len(log[i]) - prev /\ \A n \in Int : prev + 1 + n - 1 = prev + n
      BY <2>1
    <3> HIDE DEF e
    <3>3. \A x, y, z \in Int : y <= x /\ z = (IF y + 1 <= x THEN x - (y + 1) + 1 ELSE 0) => z = x - y
      OBVIOUS
    <3>4. Len(e) \in Int
      BY <3>1, SeqIs
    <3>5. Len(e) = Len(log[i]) - prev
      BY <1>2, <2>1, <3>1, <3>3, <3>4
    <3>6. ASSUME NEW n \in 1..Len(e)
          PROVE  e[n] = log[i][prev + n]
      <4>1. n \in 1..(Len(log[i]) - (prev + 1) + 1)
        BY <3>2, <3>5, Zenon
      <4>2. e[n] = log[i][prev + 1 + n - 1]
        BY <3>1, <4>1, Zenon
      <4>3. prev + 1 + n - 1 = prev + n
        BY <3>2
      <4> QED
        BY <4>2, <4>3, Zenon
    <3> QED
      BY <3>1, <3>5, <3>6, SMTT(30)
  <2>3. TermAt(log[i], prev) \in Nat
    BY <1>2, <2>1, TermAtType, SMTT(30)
  <2> HIDE DEF e
  <2>4. d = [from |-> i, inc |-> incarnation[i], to |-> j, Term |-> currentTerm[i],
             PrevLogIndex |-> prev, PrevLogTerm |-> TermAt(log[i], prev),
             Entries |-> e, LeaderCommit |-> commitIndex[i]]
    BY Zenon DEF AppendCall, e
  <2> HIDE DEF d
  <2>5. d \in AppendEntriesArgs
    BY <2>1, <2>2, <2>3, <2>4, Zenon DEF AppendEntriesArgs
  <2>6. d.Entries = e /\ d.PrevLogIndex = prev /\ d.LeaderCommit = commitIndex[i]
    BY <2>4, Zenon
  <2>7. Part(e, prev, log[Primary])
    <3>1. Len(log[i]) <= Len(log[Primary]) /\ \A n \in 1..Len(log[i]) : log[i][n] = log[Primary][n]
      BY <2>1 DEF LogInv, Part
    <3>2. \A n \in 1..Len(e) : prev + n \in 1..Len(log[i])
      BY <2>1, <2>2
    <3>3. prev + Len(e) <= Len(log[Primary])
      BY <2>1, <2>2, <3>1
    <3> QED
      BY <2>2, <3>1, <3>2, <3>3, Zenon DEF Part
  <2>8. commitIndex[i] <= prev + Len(e) /\ Held(commitIndex[i])
    BY <2>1, <2>2 DEF CommitInv
  <2>9. CallOK(d)
    BY <2>6, <2>7, <2>8, Zenon DEF CallOK
  <2> QED
    BY <2>5, <2>9, Zenon DEF d
<1>3. ASSUME NEW i \in Server, startHeartBeat(i)
      PROVE  SegmentInv'
  <2> DEFINE S == {AppendCall(i, j, Len(log[i])) : j \in Server \ {i}}
  <2>1. appendCalls' \in Sent(appendCalls, S) /\ UNCHANGED appending
    BY <1>3, Zenon DEF startHeartBeat
  <2>2. \A d \in S : d \in AppendEntriesArgs /\ CallOK(d)
    BY <1>2, LogFacts
  <2> HIDE DEF S
  <2>3. appendCalls' \subseteq appendCalls \cup S
    BY <2>1, SentSubset, Zenon
  <2> QED
    BY <1>1, <2>1, <2>2, <2>3, Zenon
<1>4. ASSUME NEW i \in Server, leaderLoop(i)
      PROVE  SegmentInv'
  <2> DEFINE S == {AppendCall(i, j, nextIndex[i][j] - 1) : j \in Behind(i)}
  <2>1. appendCalls' \in Sent(appendCalls, S) /\ UNCHANGED appending
    BY <1>4, Zenon DEF leaderLoop
  <2>2. \A j \in Behind(i) : /\ j \in Server /\ nextIndex[i][j] - 1 \in Nat
                             /\ nextIndex[i][j] - 1 <= Len(log[i])
    <3>1. \A j \in Server : nextIndex[i][j] \in Nat /\ nextIndex[i][j] > 0
      BY <1>4, Zenon DEF leaderLoop, TypeInv, LeaderTypes
    <3> QED
      BY <3>1, LogFacts, SMTT(30) DEF Behind
  <2>3. \A d \in S : d \in AppendEntriesArgs /\ CallOK(d)
    BY <1>2, <2>2, SMTT(30)
  <2> HIDE DEF S
  <2>4. appendCalls' \subseteq appendCalls \cup S
    BY <2>1, SentSubset, Zenon
  <2> QED
    BY <1>1, <2>1, <2>3, <2>4, Zenon
<1>5. ASSUME NEW m \in appending, AppendEntries2(m)
      PROVE  appendCalls' \cup appending' \subseteq appendCalls \cup appending
  <2>1. m.to \in Server /\ log' \in [Server -> Seq(Entry)] /\ appending' \subseteq appending
    BY <1>5, LogFacts, Zenon DEF AppendEntries2, TypeInv, RaftTypes
  <2>2. CASE appendCalls' \in Overwrite(m.to, log'[m.to])
    <3>1. Part(log[m.to], 0, log'[m.to]) /\ log'[m.to] \in Seq(Entry)
      BY <2>1, Zenon DEF LogsGrow
    <3>2. ASSUME NEW d \in appendCalls'
          PROVE  d \in appendCalls
      <4>1. PICK c \in appendCalls : d \in Torn(c, m.to, log'[m.to])
        BY <1>0, <2>2, <3>1, OverwriteType, Zenon
      <4> QED
        BY <1>0, <2>1, <3>1, <4>1, TornSame, SMTT(30)
    <3> QED
      BY <2>1, <3>2, Zenon
  <2>3. appendCalls' = appendCalls \/ appendCalls' \in Overwrite(m.to, log'[m.to])
    BY <1>5, Zenon DEF AppendEntries2
  <2> QED
    BY <2>1, <2>2, <2>3, Zenon
<1>6. ASSUME NEW m \in appendCalls, AppendEntries(m)
      PROVE  appendCalls' \cup appending' \subseteq appendCalls \cup appending
  <2>1. appendCalls' \in Taken(appendCalls, m)
    BY <1>6, Zenon DEF AppendEntries
  <2>2. appending' = appending \/ appending' = appending \cup {m}
    BY <1>6, Zenon DEF AppendEntries
  <2> QED
    BY <1>6, <2>1, <2>2, TakenSubset, Zenon
<1>7. ASSUME NEW i \in Server, Restart(i)
      PROVE  appendCalls' \cup appending' \subseteq appendCalls \cup appending
  BY <1>7, Zenon DEF Restart
<1>8. CASE appendCalls' \cup appending' \subseteq appendCalls \cup appending
  BY <1>1, <1>8, Zenon
<1> QED
  BY <1>3, <1>4, <1>5, <1>6, <1>7, <1>8, ZenonT(30)
     DEF Next, vars, appendNet, candidate, candidatePoll, leader, Start, leaderExit,
         leaderPanic, applier, RequestVote, sendRequestVote, sendAppendEntries

\* A peer that finds a call consistent has its entries afterwards.
LEMMA ConsistentCall ==
    ASSUME Counting, OnePrimary, TypeInv, LogInv, SegmentInv, NEW m \in appending, AppendEntries2(m),
           Consistent(m, log[m.to])
    PROVE  m.PrevLogIndex + Len(m.Entries) <= Len(log'[m.to])
<1> DEFINE i == m.to
<1>0. /\ m \in AppendEntriesArgs /\ i \in Server /\ log[i] \in Seq(Entry) /\ Len(log[i]) \in Nat
      /\ m.PrevLogIndex \in Nat /\ Len(m.Entries) \in Nat
      /\ log \in [Server -> Seq(Entry)] /\ log[Primary] \in Seq(Entry)
  BY LogFacts, PrimaryFact, Zenon
<1>1. CASE m.Entries = <<>>
  <2>1. log' = log
    BY <1>1, Zenon DEF AppendEntries2
  <2>2. m.PrevLogIndex <= Len(log[i]) /\ Len(m.Entries) = 0
    BY <1>0, <1>1 DEF Consistent, TooShort
  <2> QED
    BY <1>0, <2>1, <2>2, SMTT(30)
<1>2. CASE m.Entries # <<>>
  <2>1. log' = [log EXCEPT ![i] = Merge(m, log[i])]
    BY <1>2, Zenon DEF AppendEntries2
  <2>2. Part(log[i], 0, log[Primary]) /\ Part(m.Entries, m.PrevLogIndex, log[Primary])
    BY <1>0, Zenon DEF LogInv, SegmentInv, CallOK
  <2>3. m.PrevLogIndex + Len(m.Entries) \in Nat
    BY <1>0
  <2>4. Len(Merge(m, log[i])) = IF Len(log[i]) < m.PrevLogIndex + Len(m.Entries)
                                THEN m.PrevLogIndex + Len(m.Entries) ELSE Len(log[i])
    BY <1>0, <2>2, MergeGrows, Zenon
  <2>5. log'[i] = Merge(m, log[i])
    BY <1>0, <2>1, SMTT(30)
  <2> QED
    BY <1>0, <2>3, <2>4, <2>5, SMTT(30)
<1> QED
  BY <1>1, <1>2, Zenon

\* A success is reported once the entries are in the log, and stays true.
LEMMA SuccessStep ==
    ASSUME Counting, OnePrimary, TypeInv, TypeInv', LogInv, SegmentInv, SuccessInv, LogsGrow, [Next]_vars
    PROVE  SuccessInv'
<1> DEFINE Has(c) == c.PrevLogIndex + Len(c.Entries) <= Len(log'[c.to])
<1>0. \A r \in appendReplies : r.Success => Has(r.call)
  <2>1. ASSUME NEW r \in appendReplies, r.Success
        PROVE  Has(r.call)
    <3>1. /\ r.call.to \in Server /\ r.call.PrevLogIndex + Len(r.call.Entries) \in Nat
          /\ Len(log[r.call.to]) \in Nat
      BY LogFacts, SMTT(20)
    <3>2. Len(log[r.call.to]) <= Len(log'[r.call.to]) /\ Len(log'[r.call.to]) \in Nat
      <4>1. log' \in [Server -> Seq(Entry)]
        BY Zenon DEF TypeInv, RaftTypes
      <4>2. Len(log'[r.call.to]) \in Nat
        BY <3>1, <4>1, SeqIs, Zenon
      <4> QED
        BY <3>1, <4>2 DEF LogsGrow, Part
    <3>3. r.call.PrevLogIndex + Len(r.call.Entries) <= Len(log[r.call.to])
      BY <2>1, Zenon DEF SuccessInv
    <3> QED
      BY <3>1, <3>2, <3>3
  <2> QED
    BY <2>1, Zenon
<1>1. ASSUME \A r \in appendReplies' : r \in appendReplies \/ ~r.Success \/ Has(r.call)
      PROVE  SuccessInv'
  BY <1>0, <1>1, Zenon DEF SuccessInv
<1> HIDE DEF Has
<1>2. ASSUME NEW m \in appendCalls, AppendEntries(m)
      PROVE  \A r \in appendReplies' : r \in appendReplies \/ ~r.Success
  <2> DEFINE v == [call |-> m, Term |-> currentTerm[m.to], Success |-> FALSE,
                   ConflictTerm |-> 0, ConflictIndex |-> 0, LogLen |-> 0]
  <2>1. appendReplies' = appendReplies \/ appendReplies' \in Sent(appendReplies, ToCaller(v))
    BY <1>2, ZenonT(30) DEF AppendEntries
  <2>2. ToCaller(v) \subseteq {v} /\ ~v.Success
    BY Zenon DEF ToCaller
  <2> HIDE DEF v
  <2>3. appendReplies' \subseteq appendReplies \cup ToCaller(v)
    BY <2>1, SentSubset, Zenon
  <2> QED
    BY <2>2, <2>3, Zenon
<1>3. ASSUME NEW m \in appending, AppendEntries2(m)
      PROVE  \A r \in appendReplies' : r \in appendReplies \/ ~r.Success \/ Has(r.call)
  <2>1. AppendReply(m, m.to).call = m /\ AppendReply(m, m.to).Success = Consistent(m, log[m.to])
    BY Zenon DEF AppendReply
  <2>2. AppendReply(m, m.to).Success => Has(m)
    <3>1. Consistent(m, log[m.to]) => Has(m)
      BY <1>3, ConsistentCall, Zenon DEF Has
    <3> QED
      BY <2>1, <3>1, Zenon
  <2>3. appendReplies' \subseteq appendReplies \cup ToCaller(AppendReply(m, m.to))
    <3>1. appendReplies' \in Sent(appendReplies, ToCaller(AppendReply(m, m.to)))
      BY <1>3, ZenonT(30) DEF AppendEntries2
    <3> QED
      BY <3>1, SentSubset, SMTT(30)
  <2>4. ToCaller(AppendReply(m, m.to)) \subseteq {AppendReply(m, m.to)}
    BY Zenon DEF ToCaller
  <2> QED
    BY <2>1, <2>2, <2>3, <2>4, ZenonT(30)
<1>4. ASSUME NEW r \in appendReplies, sendAppendEntries(r)
      PROVE  appendReplies' \subseteq appendReplies
  BY <1>4, TakenSubset, SMTT(30) DEF sendAppendEntries
<1>5. ASSUME NEW i \in Server, Restart(i)
      PROVE  appendReplies' \subseteq appendReplies
  BY <1>5, Zenon DEF Restart
<1>6. CASE appendReplies' \subseteq appendReplies
  BY <1>1, <1>6, Zenon
<1>7. ASSUME NEW m \in appendCalls, AppendEntries(m)
      PROVE  SuccessInv'
  BY <1>1, <1>2, <1>7, Zenon
<1>8. ASSUME NEW m \in appending, AppendEntries2(m)
      PROVE  SuccessInv'
  BY <1>1, <1>3, <1>8, SMTT(30)
<1> QED
  BY <1>4, <1>5, <1>6, <1>7, <1>8, ZenonT(30)
     DEF Next, vars, appendNet, candidate, candidatePoll, leader, Start, startHeartBeat,
         leaderLoop, leaderExit, leaderPanic, applier, RequestVote, sendRequestVote

\* What a leader notes of a peer comes from a reply of success.
LEMMA MatchStep ==
    ASSUME OnePrimary, TypeInv, TypeInv', SuccessInv, MatchInv, LogsGrow, [Next]_vars
    PROVE  MatchInv'
<1>0. /\ \A j \in Server : Len(log[j]) \in Nat /\ Len(log'[j]) \in Nat /\ Len(log[j]) <= Len(log'[j])
      /\ matchIndex \in [Server -> [Server -> Nat]]
      /\ \A i, j \in Server : matchIndex[i][j] \in Nat
  <2>1. log' \in [Server -> Seq(Entry)] /\ matchIndex \in [Server -> [Server -> Nat]]
    BY Zenon DEF TypeInv, RaftTypes, LeaderTypes
  <2>2. \A j \in Server : Len(log[j]) \in Nat /\ Len(log'[j]) \in Nat
    BY <2>1, LogFacts, SeqIs, Zenon
  <2> QED
    BY <2>1, <2>2 DEF LogsGrow, Part
<1>1. ASSUME \A i, j \in Server : \/ matchIndex'[i][j] = matchIndex[i][j]
                                  \/ matchIndex'[i][j] = 0
                                  \/ matchIndex'[i][j] <= Len(log'[j])
      PROVE  MatchInv'
  <2>1. ASSUME NEW i \in Server, NEW j \in Server
        PROVE  matchIndex'[i][j] <= Len(log'[j])
    <3>1. matchIndex[i][j] <= Len(log[j])
      BY Zenon DEF MatchInv
    <3>2. \A x, y, z \in Nat : x <= y /\ y <= z => x <= z /\ 0 <= z
      OBVIOUS
    <3>3. matchIndex[i][j] <= Len(log'[j]) /\ 0 <= Len(log'[j])
      BY <1>0, <3>1, <3>2, Zenon
    <3> QED
      BY <1>1, <3>3, Zenon
  <2> QED
    BY <2>1, Zenon DEF MatchInv
<1>2. ASSUME NEW i \in Server, matchIndex' = [matchIndex EXCEPT ![i] = Slice(0)]
      PROVE  MatchInv'
  BY <1>0, <1>1, <1>2, Zenon DEF Slice
<1>3. ASSUME NEW r \in appendReplies, sendAppendEntries(r)
      PROVE  MatchInv'
  <2> DEFINE i == r.call.from
             j == r.call.to
             last == r.call.PrevLogIndex + Len(r.call.Entries)
  <2>1. i \in Server /\ j \in Server /\ last \in Nat
    BY LogFacts
  <2>2. \/ matchIndex' = matchIndex
        \/ r.Success /\ matchIndex' = [matchIndex EXCEPT ![i][j] = last]
    BY <1>3, Zenon DEF sendAppendEntries
  <2>3. r.Success => last <= Len(log[j])
    BY Zenon DEF SuccessInv
  <2>4. log' = log
    BY <1>3, Zenon DEF sendAppendEntries
  <2> HIDE DEF i, j, last
  <2>5. CASE matchIndex' = matchIndex
    BY <1>1, <2>5, Zenon
  <2>6. CASE r.Success /\ matchIndex' = [matchIndex EXCEPT ![i][j] = last]
    <3>1. \A k, n \in Server : matchIndex'[k][n] = IF k = i /\ n = j THEN last ELSE matchIndex[k][n]
      BY <1>0, <2>1, <2>6, SMTT(30)
    <3> QED
      BY <1>1, <2>3, <2>4, <2>6, <3>1
  <2> QED
    BY <2>2, <2>5, <2>6, Zenon
<1>4. CASE matchIndex' = matchIndex
  BY <1>1, <1>4, Zenon
<1>5. ASSUME NEW i \in Server, leader(i) \/ Restart(i)
      PROVE  MatchInv'
  BY <1>2, <1>5, Zenon DEF leader, Restart
<1> QED
  BY <1>3, <1>4, <1>5, ZenonT(30)
     DEF Next, vars, leaderVars, candidate, candidatePoll, Start, startHeartBeat,
         leaderLoop, leaderExit, leaderPanic, applier, RequestVote, sendRequestVote,
         AppendEntries, AppendEntries2

\* Every peer has the empty prefix, which is all that a restarted peer takes for
\* committed.
LEMMA HeldNone ==
    ASSUME Counting, OnePrimary, TypeInv
    PROVE  Held(0)
<1>1. {j \in Server : 0 <= Len(log[j])} = Server
  BY LogFacts
<1>2. Cardinality(Server) \in Nat /\ Cardinality(Server) # 0
  BY PrimaryFact, Zenon DEF Counting
<1>3. \A n \in Nat : n # 0 => n > n \div 2
  OBVIOUS
<1> QED
  BY <1>1, <1>2, <1>3, Zenon DEF Held, Majority

\* commitIndex advances to an entry that a majority has, on a leader by matchIndex
\* and on a follower by LeaderCommit, and never moves back.
LEMMA CommitStep ==
    ASSUME Counting, OnePrimary, TypeInv, TypeInv', LogInv, SegmentInv, MatchInv, CommitInv, LogsGrow,
           [Next]_vars
    PROVE  /\ CommitInv'
           /\ \A i \in Server : incarnation'[i] = incarnation[i] => commitIndex'[i] >= commitIndex[i]
<1> DEFINE Kept(i) == incarnation'[i] = incarnation[i] => commitIndex'[i] >= commitIndex[i]
           Good(i) == commitIndex'[i] <= Len(log'[i]) /\ Held(commitIndex'[i])
<1>0. /\ commitIndex \in [Server -> Nat] /\ \A i \in Server : commitIndex[i] \in Nat
      /\ commitIndex' \in [Server -> Nat] /\ \A i \in Server : commitIndex'[i] \in Nat
      /\ \A j \in Server : Len(log[j]) \in Nat /\ Len(log'[j]) \in Nat /\ Len(log[j]) <= Len(log'[j])
  <2>1. /\ log' \in [Server -> Seq(Entry)] /\ commitIndex' \in [Server -> Nat]
        /\ commitIndex \in [Server -> Nat]
    BY Zenon DEF TypeInv, RaftTypes, CommitTypes
  <2>2. \A j \in Server : Len(log[j]) \in Nat /\ Len(log'[j]) \in Nat
    BY <2>1, LogFacts, SeqIs, SMTT(30)
  <2> QED
    BY <2>1, <2>2 DEF LogsGrow, Part
<1>1. ASSUME NEW i \in Server, commitIndex'[i] = commitIndex[i]
      PROVE  Good(i) /\ Kept(i)
  <2>1. commitIndex[i] <= Len(log[i]) /\ Held(commitIndex[i])
    BY Zenon DEF CommitInv
  <2>2. \A x, y, z \in Nat : x <= y /\ y <= z => x <= z /\ x >= x
    OBVIOUS
  <2>3. commitIndex[i] <= Len(log'[i]) /\ commitIndex[i] >= commitIndex[i]
    BY <1>0, <2>1, <2>2, Zenon
  <2> QED
    BY <1>1, <2>1, <2>3, Zenon
<1>2. ASSUME \A i \in Server : Good(i) /\ Kept(i)
      PROVE  CommitInv' /\ \A i \in Server : Kept(i)
  <2>1. ASSUME NEW i \in Server
        PROVE  commitIndex'[i] <= Len(log'[i]) /\ Held(commitIndex[i])'
    <3> DEFINE n == commitIndex'[i]
    <3>1. n \in Nat /\ Held(n) /\ n <= Len(log'[i])
      BY <1>0, <1>2, Zenon
    <3>2. \A k \in Nat : Held(k) => Majority({j \in Server : k <= Len(log'[j])})
      <4>1. ASSUME NEW k \in Nat, Held(k)
            PROVE  Held(k)'
        BY <4>1, HeldGrows, Zenon
      <4> QED
        BY <4>1, Zenon DEF Held, Majority
    <3>3. Majority({j \in Server : n <= Len(log'[j])})
      BY <3>1, <3>2, Zenon
    <3> QED
      BY <3>1, <3>3, Zenon DEF Held, Majority
  <2> QED
    BY <1>2, <2>1, Zenon DEF CommitInv
<1>3. ASSUME NEW i \in Server, leaderLoop(i)
      PROVE  Good(i) /\ Kept(i)
  <2>1. commitIndex' = [commitIndex EXCEPT ![i] =
                          IF Committable(i) = {} THEN @ ELSE Max(Committable(i))]
    BY <1>3, Zenon DEF leaderLoop
  <2>2. CASE Committable(i) = {}
    BY <1>0, <1>1, <2>1, <2>2, Zenon
  <2>3. CASE Committable(i) # {}
    <3> DEFINE n == Max(Committable(i))
    <3>1. n \in 1..Len(log[i]) /\ n \in Committable(i)
      <4>1. n \in 1..Len(log[i])
        BY <1>0, <2>3, CommittableType, Zenon
      <4>2. Committable(i) \subseteq 0..Len(log[i])
        BY <1>0 DEF Committable
      <4> QED
        BY <1>0, <2>3, <4>1, <4>2, MaxOfNat, SMTT(30)
    <3>2. commitIndex'[i] = n
      BY <1>0, <2>1, <2>3, Zenon
    <3> HIDE DEF n
    <3>3. n \in (commitIndex[i] + 1)..Len(log[i]) /\ Majority({j \in Server : matchIndex[i][j] >= n})
      BY <3>1, Zenon DEF Committable
    <3>4. {j \in Server : matchIndex[i][j] >= n} \subseteq {j \in Server : n <= Len(log[j])}
      <4>1. ASSUME NEW j \in Server, matchIndex[i][j] >= n
            PROVE  n <= Len(log[j])
        <5>1. matchIndex[i][j] <= Len(log[j]) /\ matchIndex[i][j] \in Nat
          BY LogFacts, Zenon DEF MatchInv
        <5>2. \A x, y, z \in Nat : y >= x /\ y <= z => x <= z
          OBVIOUS
        <5> QED
          BY <1>0, <3>1, <4>1, <5>1, <5>2
      <4> QED
        BY <4>1, Zenon
    <3>5. Held(n)
      BY <3>3, <3>4, MajorityGrows, Zenon DEF Held
    <3>6. n <= Len(log'[i]) /\ n >= commitIndex[i]
      BY <1>0, <3>3, SMTT(30)
    <3> QED
      BY <3>2, <3>5, <3>6, Zenon
  <2> QED
    BY <2>2, <2>3, Zenon
<1>4. ASSUME NEW m \in appending, AppendEntries2(m)
      PROVE  m.to \in Server /\ Good(m.to) /\ Kept(m.to)
  <2> DEFINE i == m.to
             last == m.PrevLogIndex + Len(m.Entries)
  <2>0. i \in Server /\ last \in Nat /\ m.LeaderCommit \in Nat
    BY LogFacts
  <2>1. m.LeaderCommit <= last /\ Held(m.LeaderCommit)
    BY Zenon DEF SegmentInv, CallOK
  <2>2. CASE commitIndex' = commitIndex
    BY <1>1, <2>0, <2>2, Zenon
  <2>3. CASE Consistent(m, log[i]) /\ commitIndex' = [commitIndex EXCEPT ![i] = NewCommit(m, i)]
    <3>1. last <= Len(log'[i])
      BY <1>4, <2>3, ConsistentCall, SMTT(30)
    <3>2. commitIndex'[i] = IF m.LeaderCommit > commitIndex[i] THEN min(m.LeaderCommit, last)
                                                               ELSE commitIndex[i]
      BY <1>0, <2>0, <2>3, Zenon DEF NewCommit
    <3> HIDE DEF i, last
    <3>3. CASE m.LeaderCommit > commitIndex[i]
      <4>1. commitIndex'[i] = m.LeaderCommit
        BY <2>0, <2>1, <3>2, <3>3 DEF min
      <4>2. \A x, y, z \in Nat : x <= y /\ y <= z => x <= z
        OBVIOUS
      <4>3. m.LeaderCommit <= Len(log'[i])
        BY <1>0, <2>0, <2>1, <3>1, <4>2, Zenon
      <4>4. m.LeaderCommit >= commitIndex[i]
        BY <1>0, <2>0, <3>3
      <4>5. Good(i) /\ Kept(i)
        BY <2>1, <4>1, <4>3, <4>4, Zenon
      <4> QED
        BY <2>0, <4>5, Zenon DEF i
    <3>4. CASE ~(m.LeaderCommit > commitIndex[i])
      <4>1. Good(i) /\ Kept(i)
        BY <1>1, <2>0, <3>2, <3>4, SMTT(30)
      <4> QED
        BY <2>0, <4>1, Zenon DEF i
    <3> QED
      BY <3>3, <3>4, Zenon
  <2> QED
    BY <1>4, <2>2, <2>3, ZenonT(30) DEF AppendEntries2
<1>5. ASSUME NEW i \in Server, Restart(i)
      PROVE  Good(i) /\ Kept(i)
  <2>1. commitIndex'[i] = 0 /\ incarnation'[i] = incarnation[i] + 1 /\ incarnation[i] \in Nat
    BY <1>0, <1>5, TypeFacts, ZenonT(30) DEF Restart
  <2>2. incarnation'[i] # incarnation[i] /\ 0 <= Len(log'[i])
    BY <1>0, <2>1, SMTT(30)
  <2> QED
    BY <2>1, <2>2, HeldNone, SMTT(30)
<1>6. ASSUME NEW i \in Server, NEW j \in Server, j # i,
             \/ leaderLoop(i) \/ Restart(i)
             \/ \E m \in appending : m.to = i /\ AppendEntries2(m)
      PROVE  commitIndex'[j] = commitIndex[j]
  BY <1>0, <1>6, ZenonT(30) DEF leaderLoop, Restart, AppendEntries2
<1>7. CASE commitIndex' = commitIndex
  BY <1>1, <1>2, <1>7, Zenon
<1> HIDE DEF Good, Kept
<1>8. ASSUME NEW i \in Server,
             \/ leaderLoop(i) \/ Restart(i)
             \/ \E m \in appending : m.to = i /\ AppendEntries2(m)
      PROVE  CommitInv' /\ \A j \in Server : Kept(j)
  <2>1. Good(i) /\ Kept(i)
    BY <1>3, <1>4, <1>5, <1>8, SMTT(30)
  <2>2. \A j \in Server : j # i => Good(j) /\ Kept(j)
    BY <1>1, <1>6, <1>8, Zenon
  <2> QED
    BY <1>2, <2>1, <2>2, Zenon
<1>9. CASE \E m \in appending : AppendEntries2(m)
  BY <1>4, <1>8, <1>9, Zenon DEF Kept
<1>10. CASE \E i \in Server : leaderLoop(i) \/ Restart(i)
  BY <1>8, <1>10, SMTT(30) DEF Kept
<1> QED
  BY <1>7, <1>9, <1>10, ZenonT(30)
     DEF Kept, Next, vars, commitVars, candidate, candidatePoll, leader, Start, startHeartBeat,
         leaderExit, leaderPanic, applier, RequestVote, sendRequestVote, AppendEntries,
         sendAppendEntries

\* applier() delivers entries of the primary's log, at their indices.
LEMMA DeliverStep ==
    ASSUME OnePrimary, TypeInv, TypeInv', LogInv, DeliverInv, LogsGrow, [Next]_vars
    PROVE  DeliverInv'
<1>0. /\ Primary \in Server /\ Len(log[Primary]) \in Nat /\ Len(log'[Primary]) \in Nat
      /\ Len(log[Primary]) <= Len(log'[Primary])
      /\ \A n \in 1..Len(log[Primary]) : log'[Primary][n] = log[Primary][n]
      /\ delivered \in [Server -> Seq(Command)]
      /\ \A i \in Server : Len(delivered[i]) \in Nat
  <2>1. log' \in [Server -> Seq(Entry)] /\ delivered \in [Server -> Seq(Command)]
    BY SMTT(30) DEF TypeInv, RaftTypes, CommitTypes
  <2>2. Primary \in Server /\ Len(log[Primary]) \in Nat /\ Len(log'[Primary]) \in Nat
    BY <2>1, PrimaryFact, LogFacts, SeqIs, SMTT(30)
  <2> QED
    BY <2>1, <2>2, SeqIs DEF LogsGrow, Part
<1> DEFINE Correct(d) == /\ Len(d) <= Len(log[Primary])
                         /\ \A n \in 1..Len(d) : d[n] = log[Primary][n].command
<1>1. ASSUME \A i \in Server : Len(delivered'[i]) \in Nat /\ Correct(delivered'[i])
      PROVE  DeliverInv'
  <2>1. ASSUME NEW i \in Server
        PROVE  /\ Len(delivered'[i]) <= Len(log'[Primary])
               /\ \A n \in 1..Len(delivered'[i]) : delivered'[i][n] = log'[Primary][n].command
    <3>1. /\ Len(delivered'[i]) \in Nat /\ Len(delivered'[i]) <= Len(log[Primary])
          /\ \A n \in 1..Len(delivered'[i]) : delivered'[i][n] = log[Primary][n].command
      BY <1>1, Zenon
    <3>2. \A n \in 1..Len(delivered'[i]) : n \in 1..Len(log[Primary])
      BY <1>0, <3>1
    <3>3. Len(delivered'[i]) <= Len(log'[Primary])
      BY <1>0, <3>1
    <3> QED
      BY <1>0, <3>1, <3>2, <3>3, Zenon
  <2> QED
    BY <2>1, Zenon DEF DeliverInv
<1>2. \A i \in Server : Correct(delivered[i])
  BY Zenon DEF DeliverInv
<1>3. ASSUME NEW i \in Server, applier(i)
      PROVE  DeliverInv'
  <2> DEFINE top == min(commitIndex[i], Len(log[i]))
             old == delivered[i]
             len == IF top > Len(old) THEN top ELSE Len(old)
             after == [n \in 1..len |-> IF n \in (lastApplied[i] + 1)..top
                                        THEN log[i][n].command ELSE old[n]]
  <2>1. /\ Len(log[i]) \in Nat /\ Len(old) \in Nat /\ commitIndex[i] \in Nat
        /\ lastApplied[i] \in Nat /\ lastApplied[i] <= Len(old)
    BY <1>0, <1>3, LogFacts, Zenon DEF applier, TypeInv, CommitTypes
  <2>2. /\ top \in Nat /\ top <= Len(log[i]) /\ len \in Nat /\ top <= len
        /\ Len(old) <= len /\ (len = top \/ len = Len(old))
    BY <2>1, SMTT(30) DEF min
  <2>3. delivered' = [delivered EXCEPT ![i] = after]
    BY <1>3, Zenon DEF applier
  <2> HIDE DEF top, len
  <2>4. Len(log[i]) <= Len(log[Primary]) /\ \A n \in 1..Len(log[i]) : log[i][n] = log[Primary][n]
    BY <1>0, <2>1 DEF LogInv, Part
  <2>5. Correct(old)
    BY <1>2, Zenon
  <2>6. ASSUME NEW n \in 1..len
        PROVE  after[n] = log[Primary][n].command
    <3>1. CASE n \in (lastApplied[i] + 1)..top
      <4>1. n \in 1..Len(log[i])
        BY <2>1, <2>2, <3>1
      <4> QED
        BY <2>4, <3>1, <4>1, Zenon
    <3>2. CASE n \notin (lastApplied[i] + 1)..top
      <4>1. n \in 1..Len(old)
        BY <2>1, <2>2, <3>2
      <4> QED
        BY <2>5, <3>2, <4>1, Zenon
    <3> QED
      BY <3>1, <3>2, Zenon
  <2>7. Len(after) = len
    BY <2>2, SeqIs
  <2> HIDE DEF after, old
  <2>8. len <= Len(log[Primary])
    BY <1>0, <2>1, <2>2, <2>4, <2>5
  <2>9. Correct(after)
    BY <2>6, <2>7, <2>8, Zenon
  <2>10. \A j \in Server : delivered'[j] = IF j = i THEN after ELSE delivered[j]
    BY <1>0, <2>3, Zenon
  <2>11. Len(after) \in Nat
    BY <2>2, <2>7, Zenon
  <2> HIDE DEF Correct
  <2>12. \A j \in Server : Len(delivered'[j]) \in Nat /\ Correct(delivered'[j])
    BY <1>0, <1>2, <2>9, <2>10, <2>11, SMTT(30)
  <2> QED
    BY <1>1, <2>12, SMTT(30)
<1>4. CASE delivered' = delivered
  BY <1>0, <1>1, <1>2, <1>4, Zenon
<1> QED
  BY <1>3, <1>4, ZenonT(30)
     DEF Next, vars, commitVars, candidate, candidatePoll, leader, Start, startHeartBeat,
         leaderLoop, leaderExit, leaderPanic, RequestVote, sendRequestVote, AppendEntries,
         AppendEntries2, sendAppendEntries, Restart

\* The state Make() builds satisfies it, with all logs empty.
LEMMA PrimaryInit ==
    ASSUME Counting, OnePrimary, Init
    PROVE  PrimaryInv
<1>1. TypeInv
  BY TypeInit, Zenon
<1>2. /\ \A i \in Server : /\ log[i] = <<>> /\ Len(log[i]) = 0 /\ delivered[i] = <<>>
                           /\ Len(delivered[i]) = 0 /\ commitIndex[i] = 0
      /\ appendCalls = {} /\ appending = {} /\ appendReplies = {} /\ Primary \in Server
  BY PrimaryFact, Zenon DEF Init
<1>3. RoleInv
  BY Zenon DEF Init, RoleInv
<1>4. LogInv /\ SegmentInv /\ SuccessInv /\ DeliverInv
  BY <1>2 DEF LogInv, Part, SegmentInv, SuccessInv, DeliverInv
<1>5. MatchInv
  BY <1>2 DEF Init, MatchInv, Slice
<1>6. CommitInv
  <2>1. Held(0)
    BY <1>1, HeldNone, Zenon
  <2>2. \A i \in Server : commitIndex[i] <= Len(log[i]) /\ Held(commitIndex[i])
    <3>1. \A i \in Server : commitIndex[i] <= Len(log[i])
      BY <1>2
    <3> QED
      BY <1>2, <2>1, <3>1, Zenon
  <2> QED
    BY <2>2, Zenon DEF CommitInv
<1> QED
  BY <1>3, <1>4, <1>5, <1>6, Zenon DEF PrimaryInv

\* Every step preserves the invariant.
LEMMA PrimaryStep ==
    ASSUME Counting, OnePrimary, TypeInv, DiskMatchesMemory, PrimaryInv, [Next]_vars
    PROVE  /\ TypeInv' /\ DiskMatchesMemory' /\ PrimaryInv'
           /\ \A i \in Server : incarnation'[i] = incarnation[i] => commitIndex'[i] >= commitIndex[i]
<1>1. TypeInv' /\ DiskMatchesMemory'
  BY TypeStep, TermStep, Zenon
<1>2. RoleInv'
  BY RoleStep, Zenon DEF PrimaryInv
<1>3. LogInv' /\ LogsGrow
  BY LogStep, Zenon DEF PrimaryInv
<1>4. SegmentInv' /\ SuccessInv' /\ MatchInv' /\ DeliverInv'
  BY <1>1, <1>3, SegmentStep, SuccessStep, MatchStep, DeliverStep, Zenon DEF PrimaryInv
<1>5. /\ CommitInv'
      /\ \A i \in Server : incarnation'[i] = incarnation[i] => commitIndex'[i] >= commitIndex[i]
  BY <1>1, <1>3, CommitStep, Zenon DEF PrimaryInv
<1> QED
  BY <1>1, <1>2, <1>3, <1>4, <1>5, Zenon DEF PrimaryInv

\* No two peers deliver different commands at one index: their deliveries are all
\* taken from the primary's log, of which every log is a prefix.
LEMMA DeliveredSame ==
    ASSUME OnePrimary, TypeInv, DeliverInv
    PROVE  StateMachineSafety
<1>1. ASSUME NEW i \in Server, NEW j \in Server,
             NEW n \in 1..min(Len(delivered[i]), Len(delivered[j]))
      PROVE  delivered[i][n] = delivered[j][n]
  <2>1. Len(delivered[i]) \in Nat /\ Len(delivered[j]) \in Nat
    BY SeqIs, Zenon DEF TypeInv, CommitTypes
  <2>2. n \in 1..Len(delivered[i]) /\ n \in 1..Len(delivered[j])
    BY <2>1 DEF min
  <2> QED
    BY <2>2, Zenon DEF DeliverInv
<1> QED
  BY <1>1, Zenon DEF StateMachineSafety

\* What is committed is in the logs of a majority, with the same entries.
LEMMA CommittedHeld ==
    ASSUME Counting, OnePrimary, TypeInv, LogInv, CommitInv
    PROVE  CommittedOnMajority
<1>1. ASSUME NEW i \in Server
      PROVE  Majority({j \in Server : /\ commitIndex[i] <= Len(log[j])
                                      /\ \A n \in 1..commitIndex[i] : log[j][n] = log[i][n]})
  <2> DEFINE c == commitIndex[i]
             S == {j \in Server : c <= Len(log[j])}
             T == {j \in Server : c <= Len(log[j]) /\ \A n \in 1..c : log[j][n] = log[i][n]}
  <2>1. c \in Nat /\ Majority(S) /\ c <= Len(log[i])
    BY LogFacts, Zenon DEF CommitInv, Held
  <2>2. \A j \in Server : /\ Len(log[j]) \in Nat
                          /\ \A n \in 1..Len(log[j]) : log[j][n] = log[Primary][n]
    <3>1. ASSUME NEW j \in Server PROVE Len(log[j]) \in Nat /\ Part(log[j], 0, log[Primary])
      BY LogFacts, Zenon DEF LogInv
    <3>2. ASSUME NEW j \in Server, NEW n \in 1..Len(log[j]) PROVE log[j][n] = log[Primary][n]
      <4>1. log[j][n] = log[Primary][0 + n]
        BY <3>1, Zenon DEF Part
      <4>2. 0 + n = n
        BY <3>1
      <4> QED
        BY <4>1, <4>2, Zenon
    <3> QED
      BY <3>1, <3>2, Zenon
  <2>3. \A j \in Server : c <= Len(log[j]) => \A n \in 1..c : n \in 1..Len(log[j])
    BY <2>1, <2>2
  <2>4. \A n \in 1..c : log[i][n] = log[Primary][n]
    BY <2>1, <2>2, <2>3, Zenon
  <2>5. S \subseteq T
    BY <2>2, <2>3, <2>4, Zenon
  <2>6. S \in SUBSET Server /\ T \in SUBSET Server
    BY Zenon
  <2> HIDE DEF S, T
  <2>7. Majority(T)
    BY <2>1, <2>5, <2>6, MajorityGrows, Zenon
  <2> QED
    BY <2>7, Zenon DEF T
<1> QED
  BY <1>1, Zenon DEF CommittedOnMajority, CommitInv

---------------------------------------------------------------------------------
(***************************************************************************)
(* The theorems                                                            *)
(***************************************************************************)
INSTANCE FiniteSetTheorems

\* Numbers have a least one, as 0 .. n strictly includes 0 .. m for a smaller m, which finite
\* sets do not do forever.
LEMMA LeastNat ==
    ASSUME NEW S \in SUBSET Nat, S # {}
    PROVE  \E x \in S : \A n \in S : x <= n
<1> DEFINE Below == {0..n : n \in S}
<1>1. Below \subseteq FiniteSubsetsOf(Nat) /\ Below # {}
  <2>1. ASSUME NEW n \in S
        PROVE  0..n \in SUBSET Nat /\ IsFiniteSet(0..n)
    BY FS_Interval
  <2>2. QED
    BY <2>1, Zenon DEF FiniteSubsetsOf
<1>2. PICK B \in Below :
        \A C \in Below : <<C, B>> \notin StrictSubsetOrdering(Nat)
  BY <1>1, FS_StrictSubsetOrderingWellFounded, WFMin, Zenon
<1>3. PICK x \in S : B = 0..x
  BY Zenon
<1>4. ASSUME NEW y \in S
      PROVE  x <= y
  <2>1. 0..y \in Below
    BY Zenon
  <2>2. ~(0..y \subseteq 0..x /\ 0..y # 0..x)
    <3>1. 0..y \in SUBSET Nat /\ 0..x \in SUBSET Nat
      OBVIOUS
    <3>2. QED
      BY <1>2, <1>3, <2>1, <3>1, Zenon DEF StrictSubsetOrdering
  <2>3. CASE y < x
    <3>1. 0..y \subseteq 0..x /\ x \in 0..x /\ x \notin 0..y
      BY <2>3
    <3>2. QED
      BY <2>2, <3>1, Zenon
  <2>4. QED
    BY <2>3
<1> QED
  BY <1>4, Zenon

\* What was used of finite sets holds.
LEMMA CountingHolds == Counting
<1>1. \A S \in SUBSET Nat : S # {} => \E x \in S : \A n \in S : x <= n
  BY LeastNat, Zenon
<1>2. ASSUME NEW T \in SUBSET Server
      PROVE  /\ IsFiniteSet(T) /\ Cardinality(T) \in Nat
             /\ T # {} => Cardinality(T) # 0
             /\ \A S \in SUBSET T : Cardinality(S) <= Cardinality(T)
  <2>1. IsFiniteSet(T)
    BY ServerAssumption, FS_Subset, Zenon
  <2> QED
    BY <2>1, FS_Subset, FS_CardinalityType, FS_EmptySet, Zenon
<1> QED
  BY <1>1, <1>2, Zenon DEF Counting

\* Every value the peers, the persisters and the network hold has its type, in
\* every state: no nextIndex, log index or commit index is ever negative.
THEOREM TypeCorrect == Spec => []TypeOK
<1>1. TypeInv => TypeOK
  BY Zenon DEF TypeInv, TypeOK, RaftTypes, CommitTypes, LeaderTypes, CandidateTypes,
         VoteTypes, AppendTypes, IncarnationTypes
<1>2. TypeInv /\ [Next]_vars => TypeInv'
  BY CountingHolds, TypeStep, Zenon
<1>3. QED
  BY <1>1, <1>2, TypeInit, PTL DEF Spec

\* Persistence: whenever rf.mu is free, a crash would find the current term and
\* the whole log on disk.  (votedFor is not covered: RequestVote() does not save it.)
THEOREM DiskCorrect == Spec => []DiskMatchesMemory
<1>1. TypeInv /\ DiskMatchesMemory /\ [Next]_vars => TypeInv' /\ DiskMatchesMemory'
  BY CountingHolds, TypeStep, TermStep, Zenon
<1>2. QED
  BY <1>1, TypeInit, DiskInit, PTL DEF Spec

\* No step of any peer lowers its term, whatever crashes when: every term a peer
\* has acted on is on disk before rf.mu is released.
THEOREM TermsGrow == Spec => TermNeverRegresses
<1>1. TypeInv /\ DiskMatchesMemory /\ [Next]_vars
        => [\A i \in Server : currentTerm'[i] >= currentTerm[i]]_vars
  BY TermStep, Zenon
<1>2. TypeInv /\ DiskMatchesMemory /\ [Next]_vars => TypeInv' /\ DiskMatchesMemory'
  BY CountingHolds, TypeStep, TermStep, Zenon
<1>3. QED
  BY <1>1, <1>2, TypeInit, DiskInit, PTL DEF Spec, TermNeverRegresses

\* The "drop old reply" tests of sendRequestVote() and sendAppendEntries() make
\* the step-down branches behind them unreachable: a reply that passes the test
\* has the call's term, and that is never ahead of the caller.
THEOREM RepliesAreNotNewer == Spec => []RepliesNeverStepDown
<1>1. TypeInv /\ DiskMatchesMemory /\ CallInv /\ [Next]_vars
        => TypeInv' /\ DiskMatchesMemory' /\ CallInv'
  BY CountingHolds, TypeStep, TermStep, CallStep, Zenon
<1>2. CallInv => RepliesNeverStepDown
  BY Zenon DEF CallInv, RepliesNeverStepDown, Replies
<1>3. QED
  BY <1>1, <1>2, TypeInit, DiskInit, CallInit, PTL DEF Spec

\* A granted vote binds the voter until its term ends, for any number of peers,
\* except where it becomes leader itself or is restarted.
THEOREM VotesBind == Spec => []VoteBinds
<1>1. Init => VoteInv /\ VoteBinds
  BY Zenon DEF Init, VoteInv, VoteBinds
<1>2. TypeInv /\ DiskMatchesMemory /\ CallInv /\ VoteInv /\ VoteBinds /\ [Next]_vars
        => TypeInv' /\ DiskMatchesMemory' /\ CallInv' /\ VoteInv' /\ VoteBinds'
  BY CountingHolds, TypeStep, TermStep, CallStep, VoteStep, Zenon
<1>3. QED
  BY <1>1, <1>2, TypeInit, DiskInit, CallInit, PTL DEF Spec

\* When a single peer ever campaigns, no two peers deliver different commands at
\* one index (applier() and the apply checker of config.go).
THEOREM DeliveriesAgree ==
    ASSUME OnePrimary
    PROVE  Spec => []StateMachineSafety
<1> DEFINE I == TypeInv /\ DiskMatchesMemory /\ PrimaryInv
<1>1. Init => I
  BY CountingHolds, TypeInit, DiskInit, PrimaryInit, Zenon
<1>2. I /\ [Next]_vars => I'
  BY CountingHolds, PrimaryStep
<1>3. I => StateMachineSafety
  BY DeliveredSame DEF PrimaryInv
<1> QED
  BY <1>1, <1>2, <1>3, PTL DEF Spec

\* What a peer then takes for committed, by the count of matchIndex in leader() or
\* by LeaderCommit in AppendEntries(), is in its log and in those of a majority.
THEOREM CommitsAreHeld ==
    ASSUME OnePrimary
    PROVE  Spec => []CommittedOnMajority
<1> DEFINE I == TypeInv /\ DiskMatchesMemory /\ PrimaryInv
<1>1. Init => I
  BY CountingHolds, TypeInit, DiskInit, PrimaryInit
<1>2. I /\ [Next]_vars => I'
  BY CountingHolds, PrimaryStep
<1>3. I => CommittedOnMajority
  BY CountingHolds, CommittedHeld DEF PrimaryInv
<1> QED
  BY <1>1, <1>2, <1>3, PTL DEF Spec

\* And no call, however late, moves commitIndex back ("BUG?" in AppendEntries()):
\* every call reaches at least as far as its LeaderCommit.
THEOREM CommitsGrow ==
    ASSUME OnePrimary
    PROVE  Spec => CommitNeverRetreats
<1> DEFINE I == TypeInv /\ DiskMatchesMemory /\ PrimaryInv
<1>1. Init => I
  BY CountingHolds, TypeInit, DiskInit, PrimaryInit
<1>2. I /\ [Next]_vars => I'
  BY CountingHolds, PrimaryStep
<1>3. I /\ [Next]_vars
        => [\A i \in Server : incarnation'[i] = incarnation[i]
              => commitIndex'[i] >= commitIndex[i]]_vars
  BY CountingHolds, PrimaryStep
<1> QED
  BY <1>1, <1>2, <1>3, PTL DEF Spec, CommitNeverRetreats

=================================================================================
