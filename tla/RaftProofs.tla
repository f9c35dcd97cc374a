----------------------------- MODULE RaftProofs -----------------------------
(***************************************************************************)
(* Proofs about Raft for every set of nodes, every set of commands, every  *)
(* state machine and every value of the bounds.                            *)
(***************************************************************************)
EXTENDS Raft, OrderLemmas, FiniteSetTheorems, SequenceTheorems

\* The operators on logs return what their Python counterparts return.
LEMMA TermAtType ==
    ASSUME NEW l \in Seq(Entry), NEW i \in Int
    PROVE  /\ TermAt(l, i) \in Int
           /\ TermAt(l, i) # -1 => i \in 0..Len(l)
           /\ i \in 1..Len(l) => TermAt(l, i) = l[i].term /\ l[i].term \in Nat
<1>1. Len(l) \in Nat
  BY LenProperties
<1>2. ASSUME i \in 1..Len(l) PROVE l[i] \in Entry
  BY <1>2, ElementOfSeq
<1> QED  BY <1>1, <1>2 DEF TermAt, Entry

LEMMA LastTermType ==
    ASSUME NEW l \in Seq(Entry)
    PROVE  LastTerm(l) \in Nat
<1>1. ASSUME l # <<>> PROVE l[Len(l)] \in Entry
  BY <1>1, ElementOfSeq, LenProperties, EmptySeq
<1> QED  BY <1>1 DEF LastTerm, Entry

LEMMA EntriesFromType ==
    ASSUME NEW l \in Seq(Entry), NEW i \in Int
    PROVE  EntriesFrom(l, i) \in Seq(Entry)
<1>1. Len(l) \in Nat /\ \A k \in 1..Len(l) : l[k] \in Entry
  BY LenProperties, ElementOfSeq
<1> DEFINE j == IF i <= 0 THEN 1 ELSE i
<1>2. j \in Int /\ \A k \in j..Len(l) : l[k] \in Entry
  BY <1>1
<1>3. SubSeq(l, j, Len(l)) \in Seq(Entry)
  <2> HIDE DEF j
  <2> QED  BY <1>1, <1>2, SubSeqProperties
<1> QED  BY <1>3 DEF EntriesFrom

LEMMA FirstIndexOfTermType ==
    ASSUME NEW l, NEW i \in Nat, i > 0
    PROVE  FirstIndexOfTerm(l, i) \in Nat \ {0}
<1> DEFINE S == {k \in 1..i : \A j \in k..i : l[j].term = l[i].term}
<1>1. i \in S
  <2>1. \A j \in i..i : j = i
    OBVIOUS
  <2> QED  BY <2>1
<1>2. S \subseteq Nat \ {0}
  OBVIOUS
<1>3. Min(S) \in S
  <2> HIDE DEF S
  <2> QED  BY <1>1, <1>2, MinOfNaturals
<1> QED  BY <1>2, <1>3 DEF FirstIndexOfTerm

LEMMA LastIndexOfTermType ==
    ASSUME NEW l \in Seq(Entry), NEW t
    PROVE  LastIndexOfTerm(l, t) \in Nat
<1> DEFINE hits == {i \in 1..Len(l) : /\ l[i].term = t
                                      /\ \A j \in (i+1)..Len(l) : l[j].term > t}
<1>1. hits \subseteq Nat
  BY LenProperties
<1>2. LastIndexOfTerm(l, t) = IF hits = {} THEN 0 ELSE CHOOSE i \in hits : TRUE
  BY DEF LastIndexOfTerm
<1> HIDE DEF hits
<1>3. ASSUME hits # {} PROVE (CHOOSE i \in hits : TRUE) \in hits
  BY <1>3
<1>4. CASE hits = {}
  BY <1>2, <1>4
<1>5. CASE hits # {}
  <2>1. LastIndexOfTerm(l, t) = CHOOSE i \in hits : TRUE
    BY <1>2, <1>5
  <2>2. LastIndexOfTerm(l, t) \in hits
    BY <1>3, <1>5, <2>1, Zenon
  <2> QED  BY <1>1, <2>2
<1> QED  BY <1>4, <1>5

LEMMA MergeEntriesType ==
    ASSUME NEW l \in Seq(Entry), NEW entries \in Seq(Entry),
           NEW prev \in Nat, prev <= Len(l)
    PROVE  MergeEntries(l, prev, entries) \in Seq(Entry)
<1> DEFINE S == Mismatches(l, prev, entries)
           k == Min(S)
<1>1. CASE S = {}
  BY <1>1 DEF MergeEntries
<1>2. CASE S # {}
  <2>1. Len(l) \in Nat /\ Len(entries) \in Nat
    BY LenProperties
  <2>2. S \subseteq 1..Len(entries)
    BY DEF Mismatches
  <2>3. k \in S /\ \A j \in S : k <= j
    <3>1. S \subseteq Nat
      BY <2>1, <2>2
    <3> HIDE DEF S
    <3> QED  BY <1>2, <3>1, MinOfNaturals
  <2>4. k \in 1..Len(entries)
    BY <2>2, <2>3
  <2>5. prev + k - 1 <= Len(l)
    <3>1. CASE k = 1
      BY <3>1, <2>1
    <3>2. CASE k # 1
      <4> DEFINE j == k - 1
      <4> HIDE DEF k
      <4>1. j \in 1..Len(entries) /\ j \notin S
        BY <3>2, <2>3, <2>4, <2>1
      <4> HIDE DEF j
      <4>2. TermAt(l, prev + j) = entries[j].term
        BY <4>1 DEF Mismatches
      <4>3. entries[j] \in Entry
        BY <4>1, ElementOfSeq
      <4>4. TermAt(l, prev + j) # -1
        BY <4>2, <4>3 DEF Entry
      <4>5. prev + j \in 0..Len(l)
        <5>1. prev + j \in Int
          BY <4>1, <2>1
        <5> QED  BY <4>4, <5>1, TermAtType
      <4> QED  BY <4>5, <2>1, <2>4 DEF j
    <3> QED  BY <3>1, <3>2
  <2> HIDE DEF k
  <2>6. \A i \in 1..(prev + k - 1) : l[i] \in Entry
    BY <2>1, <2>4, <2>5, ElementOfSeq
  <2>7. SubSeq(l, 1, prev + k - 1) \in Seq(Entry)
    <3>1. prev + k - 1 \in Int
      BY <2>4, <2>1
    <3> QED  BY <2>6, <3>1, SubSeqProperties
  <2>8. EntriesFrom(entries, k) \in Seq(Entry)
    BY <2>4, <2>1, EntriesFromType
  <2>9. SubSeq(l, 1, prev + k - 1) \o EntriesFrom(entries, k) \in Seq(Entry)
    BY <2>7, <2>8, ConcatProperties
  <2> QED  BY <1>2, <2>9 DEF MergeEntries, k
<1> QED  BY <1>1, <1>2

\* A leader's new commit index is an index of its log, whatever the majority
\* holds: the comparison with term_at lets nothing else through.
LEMMA CommitByCountingType ==
    ASSUME NEW l \in Seq(Entry), NEW match, NEW term \in Nat, NEW commit \in Nat
    PROVE  /\ CommitByCounting(l, match, term, commit) \in Nat
           /\ CommitByCounting(l, match, term, commit) \in {commit} \cup 0..Len(l)
<1> DEFINE n == MajorityMatch(Len(l), match)
<1>1. ASSUME TermAt(l, n) = term PROVE n \in Nat /\ n \in 0..Len(l)
  <2>1. Len(l) \in Nat
    BY LenProperties
  <2> HIDE DEF n
  <2>2. n = 0 \/ n \in 1..Len(l)
    BY <1>1 DEF TermAt
  <2> QED  BY <2>1, <2>2
<1> HIDE DEF n
<1>2. CommitByCounting(l, match, term, commit) =
        IF n > commit /\ TermAt(l, n) = term THEN n ELSE commit
  BY DEF CommitByCounting, n
<1> QED  BY <1>1, <1>2

LEMMA FollowerCommitType ==
    ASSUME NEW l \in Seq(Entry), NEW commit \in Nat, NEW leaderCommit \in Nat
    PROVE  /\ FollowerCommit(l, commit, leaderCommit) \in Nat
           /\ FollowerCommit(l, commit, leaderCommit) \in {commit} \cup 0..Len(l)
<1>1. Len(l) \in Nat
  BY LenProperties
<1>2. /\ Min({leaderCommit, Len(l)}) \in {leaderCommit, Len(l)}
      /\ Min({leaderCommit, Len(l)}) <= Len(l)
  BY <1>1, MinOfNaturals
<1> QED  BY <1>1, <1>2 DEF FollowerCommit

LEMMA NextAfterConflictType ==
    ASSUME NEW l \in Seq(Entry), NEW m \in AppendReply
    PROVE  NextAfterConflict(l, m) \in Nat \ {0}
<1>1. LastIndexOfTerm(l, m.conflictTerm) \in Nat
  BY LastIndexOfTermType
<1>2. m.conflictIndex \in Nat /\ (m.conflictTerm # -1 => m.conflictIndex > 0)
  BY DEF AppendReply
<1>3. Max({1, m.conflictIndex}) \in Nat \ {0}
  <2> DEFINE S == {1, m.conflictIndex}
  <2>1. \E x \in S : \A y \in S : x >= y
    <3>1. CASE m.conflictIndex >= 1
      BY <3>1, <1>2
    <3>2. CASE m.conflictIndex < 1
      BY <3>2, <1>2
    <3> QED  BY <3>1, <3>2, <1>2
  <2>2. Max(S) \in S /\ Max(S) >= 1
    <3>1. 1 \in S
      OBVIOUS
    <3> HIDE DEF S
    <3> QED  BY <2>1, <3>1, Zenon DEF Max
  <2> QED  BY <1>2, <2>2
<1> QED  BY <1>1, <1>2, <1>3 DEF NextAfterConflict

-----------------------------------------------------------------------------
(* Messages.                                                               *)

LEMMA MessageFields ==
    ASSUME NEW m \in Message
    PROVE  /\ m.src \in Node /\ m.dst \in Node /\ m.src # m.dst /\ m.term \in Nat
           /\ m.type = "AppendEntriesArgs" => m \in AppendArgs
           /\ m.type = "AppendEntriesReply" => m \in AppendReply
BY DEF Message, VoteArgs, VoteReply, AppendArgs, AppendReply

LEMMA VoteRequestsType ==
    ASSUME TypeOK, NEW n \in Node, NEW term \in Nat,
           NEW kind \in {"PreVoteArgs", "RequestVoteArgs"}
    PROVE  VoteRequests(n, kind, term) \subseteq Message
<1>1. Len(log[n]) \in Nat /\ LastTerm(log[n]) \in Nat
  BY LenProperties, LastTermType DEF TypeOK
<1> QED  BY <1>1 DEF VoteRequests, Peers, Message, VoteArgs

LEMMA VoteReplyType ==
    ASSUME NEW m \in Message, NEW term \in Nat, NEW granted \in BOOLEAN,
           NEW kind \in {"PreVoteReply", "RequestVoteReply"}
    PROVE  VoteReplyTo(m, kind, term, granted) \in Message
BY MessageFields DEF VoteReplyTo, Message, VoteReply

LEMMA AppendToType ==
    ASSUME TypeOK, NEW n \in Node, NEW p \in Peers(n), NEW l \in Seq(Entry),
           NEW next \in Nat \ {0}, NEW term \in Nat
    PROVE  AppendTo(n, p, l, next, term) \in Message
<1>1. next - 1 \in Nat /\ next - 1 \in Int
  OBVIOUS
<1>2. TermAt(l, next - 1) \in Int
  BY <1>1, TermAtType
<1>3. EntriesFrom(l, next) \in Seq(Entry)
  BY EntriesFromType
<1>4. commitIndex[n] \in Nat
  BY DEF TypeOK
<1> QED  BY <1>1, <1>2, <1>3, <1>4 DEF AppendTo, Message, AppendArgs, Peers

LEMMA NetworkType ==
    ASSUME msgs \subseteq Message, NEW m, NEW ms, ms \subseteq Message,
           Send(ms) \/ Consume(m, ms)
    PROVE  msgs' \subseteq Message
BY DEF Send, Consume, Sent

-----------------------------------------------------------------------------
(* Type correctness.                                                       *)

LEMMA InitType == Init => TypeOK
<1>1. <<>> \in Seq(Entry)
  BY EmptySeq
<1> QED  BY <1>1 DEF Init, TypeOK, NodeState, Message

\* The part of TypeOK that an election changes.
ElectionType ==
    /\ currentTerm \in [Node -> Nat]
    /\ votedFor \in [Node -> Node \cup {None}]
    /\ state \in [Node -> NodeState]
    /\ leaderId \in [Node -> Node \cup {None}]
    /\ votesReceived \in [Node -> SUBSET Node]
    /\ elected \subseteq Nat \X Node

LEMMA CandidateType ==
    ASSUME TypeOK, NEW n \in Node, BecomeCandidate(n)
    PROVE  ElectionType'
<1>1. currentTerm[n] + 1 \in Nat
  BY DEF TypeOK
<1>2. elected' \subseteq Nat \X Node
  BY <1>1 DEF BecomeCandidate, TypeOK
<1>3. /\ currentTerm' \in [Node -> Nat]
      /\ votedFor' \in [Node -> Node \cup {None}]
      /\ votesReceived' \in [Node -> SUBSET Node]
  BY <1>1 DEF BecomeCandidate, TypeOK
<1>4. /\ state' \in [Node -> NodeState]
      /\ leaderId' \in [Node -> Node \cup {None}]
  BY DEF BecomeCandidate, TypeOK, NodeState
<1> QED  BY <1>2, <1>3, <1>4 DEF ElectionType

LEMMA TimerType ==
    ASSUME TypeOK, NEW n \in Node,
           LeaderContactLapses(n) \/ ElectionTimeout(n) \/ HeartbeatTimeout(n)
    PROVE  TypeOK'
<1>1. CASE LeaderContactLapses(n)
  BY <1>1 DEF LeaderContactLapses, TypeOK, storageVars, commitVars, leaderVars
<1>2. CASE ElectionTimeout(n)
  <2>1. msgs' \subseteq Message
    <3>1. currentTerm[n] + 1 \in Nat
      BY DEF TypeOK
    <3>2. VoteRequests(n, "PreVoteArgs", currentTerm[n] + 1) \subseteq Message
      BY <3>1, VoteRequestsType
    <3> QED  BY <1>2, <3>2, NetworkType DEF ElectionTimeout, TypeOK
  <2>2. /\ prevoteTarget' \in [Node -> Nat \cup {-1}]
        /\ prevotesReceived' \in [Node -> SUBSET Node]
    BY <1>2 DEF ElectionTimeout, TypeOK
  <2>3. ElectionType'
    <3>1. CASE Majority = 1
      BY <1>2, <3>1, CandidateType DEF ElectionTimeout
    <3>2. CASE Majority # 1
      BY <1>2, <3>2 DEF ElectionTimeout, PreVoteRole, ElectionType, TypeOK, NodeState, storageVars
    <3> QED  BY <3>1, <3>2
  <2>4. log' = log
    BY <1>2 DEF ElectionTimeout, storageVars
  <2> QED  BY <1>2, <2>1, <2>2, <2>3, <2>4 DEF ElectionTimeout, ElectionType, TypeOK,
               commitVars, leaderVars
<1>3. CASE HeartbeatTimeout(n)
  <2>1. ASSUME NEW p \in Peers(n)
        PROVE  AppendTo(n, p, log[n], nextIndex[n][p], currentTerm[n]) \in Message
    <3>1. nextIndex[n][p] \in Nat \ {0} /\ log[n] \in Seq(Entry)
            /\ currentTerm[n] \in Nat
      BY DEF TypeOK, Peers
    <3> QED  BY <3>1, AppendToType
  <2>2. msgs' \subseteq Message
    <3>1. {AppendTo(n, p, log[n], nextIndex[n][p], currentTerm[n]) : p \in Peers(n)}
            \subseteq Message
      BY <2>1
    <3> QED  BY <1>3, <3>1, NetworkType DEF HeartbeatTimeout, TypeOK
  <2> QED  BY <1>3, <2>2 DEF HeartbeatTimeout, TypeOK, storageVars, electionVars,
               commitVars, leaderVars
<1> QED  BY <1>1, <1>2, <1>3

LEMMA ProposeType ==
    ASSUME TypeOK, NEW n \in Node, NEW c \in Command, Propose(n, c)
    PROVE  TypeOK'
<1> DEFINE l == Append(log[n], [term |-> currentTerm[n], command |-> c])
<1>1. l \in Seq(Entry)
  <2>1. log[n] \in Seq(Entry) /\ [term |-> currentTerm[n], command |-> c] \in Entry
    BY DEF TypeOK, Entry
  <2> QED  BY <2>1, AppendProperties
<1>2. log' = [log EXCEPT ![n] = l]
  BY DEF Propose
<1>3. Send({AppendTo(n, p, l, nextIndex[n][p], currentTerm[n]) : p \in Peers(n)})
  BY DEF Propose
<1> HIDE DEF l
<1>4. {AppendTo(n, p, l, nextIndex[n][p], currentTerm[n]) : p \in Peers(n)} \subseteq Message
  <2>1. ASSUME NEW p \in Peers(n)
        PROVE  AppendTo(n, p, l, nextIndex[n][p], currentTerm[n]) \in Message
    <3>1. nextIndex[n][p] \in Nat \ {0} /\ currentTerm[n] \in Nat
      BY DEF TypeOK, Peers
    <3> QED  BY <1>1, <3>1, AppendToType
  <2> QED  BY <2>1
<1>5. msgs' \subseteq Message
  BY <1>3, <1>4, NetworkType DEF TypeOK
<1> QED  BY <1>1, <1>2, <1>5 DEF Propose, TypeOK, electionVars, commitVars, leaderVars

LEMMA FaultType ==
    ASSUME TypeOK, NEW n \in Node, Kill(n) \/ Revive(n)
    PROVE  TypeOK'
<1>1. CASE Kill(n)
  BY <1>1, BoundAssumption DEF Kill, TypeOK, storageVars, electionVars, commitVars, leaderVars
<1>2. CASE Revive(n)
  BY <1>2 DEF Revive, TypeOK, NodeState, storageVars
<1> QED  BY <1>1, <1>2

LEMMA VoteRequestType ==
    ASSUME TypeOK, NEW m \in msgs, ReceivePreVote(m) \/ ReceiveRequestVote(m)
    PROVE  TypeOK'
<1>1. m \in Message /\ m.dst \in Node /\ m.src \in Node /\ m.src # m.dst /\ m.term \in Nat
  BY MessageFields DEF TypeOK
<1>2. CASE ReceivePreVote(m)
  <2>1. Consume(m, {VoteReplyTo(m, "PreVoteReply", currentTerm[m.dst], GrantsPreVote(m))})
    BY <1>2 DEF ReceivePreVote
  <2>2. VoteReplyTo(m, "PreVoteReply", currentTerm[m.dst], GrantsPreVote(m)) \in Message
    <3>1. currentTerm[m.dst] \in Nat
      BY <1>1 DEF TypeOK
    <3>2. GrantsPreVote(m) \in BOOLEAN
      BY DEF GrantsPreVote
    <3> QED  BY <1>1, <3>1, <3>2, VoteReplyType
  <2>3. msgs' \subseteq Message
    BY <2>1, <2>2 DEF Consume, Sent, TypeOK
  <2> QED  BY <1>2, <2>3 DEF ReceivePreVote, TypeOK, storageVars, electionVars,
               commitVars, leaderVars
<1>3. CASE ReceiveRequestVote(m)
  <2> DEFINE n == m.dst
             newer == m.term > currentTerm[n]
             term == IF newer THEN m.term ELSE currentTerm[n]
             grant == GrantsVote(m, term, IF newer THEN None ELSE votedFor[n])
  <2>1. term \in Nat
    BY <1>1 DEF TypeOK
  <2>2. Consume(m, {VoteReplyTo(m, "RequestVoteReply", term, grant)})
    BY <1>3 DEF ReceiveRequestVote
  <2>3. VoteReplyTo(m, "RequestVoteReply", term, grant) \in Message
    <3>1. grant \in BOOLEAN
      BY DEF GrantsVote
    <3> HIDE DEF term, grant
    <3> QED  BY <1>1, <2>1, <3>1, VoteReplyType
  <2>4. msgs' \subseteq Message
    <3> HIDE DEF term, grant
    <3> QED  BY <2>2, <2>3 DEF Consume, Sent, TypeOK
  <2>5. currentTerm' \in [Node -> Nat]
    <3>1. currentTerm' = [currentTerm EXCEPT ![n] = term]
      BY <1>3 DEF ReceiveRequestVote
    <3> HIDE DEF term
    <3> QED  BY <1>1, <2>1, <3>1 DEF TypeOK
  <2>6. votedFor' \in [Node -> Node \cup {None}]
    BY <1>1, <1>3 DEF ReceiveRequestVote, TypeOK
  <2>7. /\ state' \in [Node -> NodeState]
        /\ leaderId' \in [Node -> Node \cup {None}]
        /\ votesReceived' \in [Node -> SUBSET Node]
    BY <1>1, <1>3 DEF ReceiveRequestVote, TypeOK, NodeState
  <2>8. UNCHANGED <<log, prevoteVars, commitVars, leaderVars, down, elected>>
    BY <1>3 DEF ReceiveRequestVote
  <2> QED  BY <2>4, <2>5, <2>6, <2>7, <2>8 DEF TypeOK, prevoteVars, commitVars, leaderVars
<1> QED  BY <1>2, <1>3

\* What following a leader does to the types, apart from the log and the commit.
LEMMA FollowLeaderType ==
    ASSUME TypeOK, NEW m \in msgs, FollowLeader(m),
           log' \in [Node -> Seq(Entry)],
           commitIndex' \in [Node -> Nat], lastApplied' \in [Node -> Nat],
           msgs' \subseteq Message
    PROVE  TypeOK'
<1>1. m.dst \in Node /\ m.src \in Node /\ m.src # m.dst /\ m.term \in Nat
  BY MessageFields DEF TypeOK
<1>2. /\ currentTerm' \in [Node -> Nat]
      /\ votedFor' \in [Node -> Node \cup {None}]
      /\ votesReceived' \in [Node -> SUBSET Node]
  BY <1>1 DEF FollowLeader, TypeOK
<1>3. /\ state' \in [Node -> NodeState]
      /\ leaderId' \in [Node -> Node \cup {None}]
      /\ leaderContact' \in [Node -> BOOLEAN]
  BY <1>1 DEF FollowLeader, TypeOK, NodeState
<1> QED  BY <1>2, <1>3 DEF FollowLeader, TypeOK, leaderVars

LEMMA AppendRequestType ==
    ASSUME TypeOK, NEW m \in msgs,
           RejectStaleAppend(m) \/ RejectConflictingAppend(m) \/ AcceptAppend(m)
    PROVE  TypeOK'
<1>1. /\ m \in Message /\ m.dst \in Node /\ m.src \in Node /\ m.src # m.dst /\ m.term \in Nat
      /\ m.type = "AppendEntriesArgs" => m \in AppendArgs
  BY MessageFields DEF TypeOK
<1>2. currentTerm[m.dst] \in Nat /\ log[m.dst] \in Seq(Entry) /\ Len(log[m.dst]) \in Nat
  BY <1>1, LenProperties DEF TypeOK
<1>3. CASE RejectStaleAppend(m)
  <2>1. AppendReplyTo(m, currentTerm[m.dst], FALSE, 0, 0, -1) \in Message
    BY <1>1, <1>2 DEF AppendReplyTo, Message, AppendReply
  <2>2. msgs' \subseteq Message
    BY <1>3, <2>1 DEF RejectStaleAppend, Consume, Sent, TypeOK
  <2> QED  BY <1>3, <2>2 DEF RejectStaleAppend, TypeOK, storageVars, electionVars,
               commitVars, leaderVars
<1>4. CASE RejectConflictingAppend(m)
  <2> DEFINE l == log[m.dst]
             missing == m.prevIndex > Len(l)
             index == IF missing THEN Len(l) + 1 ELSE FirstIndexOfTerm(l, m.prevIndex)
             term == IF missing THEN -1 ELSE l[m.prevIndex].term
  <2>1. m.prevIndex \in Nat /\ m.prevIndex > 0
    <3>1. m \in AppendArgs /\ m.prevIndex > 0
      BY <1>1, <1>4 DEF RejectConflictingAppend, FollowLeader
    <3> QED  BY <3>1 DEF AppendArgs
  <2>2. index \in Nat \ {0}
    BY <1>2, <2>1, FirstIndexOfTermType
  <2>3. term \in Int
    <3>1. CASE missing
      BY <3>1
    <3>2. CASE ~missing
      <4>1. m.prevIndex \in 1..Len(l)
        BY <1>2, <2>1, <3>2
      <4>2. l[m.prevIndex] \in Entry
        BY <1>2, <4>1, ElementOfSeq
      <4> QED  BY <3>2, <4>2 DEF Entry
    <3> QED  BY <3>1, <3>2
  <2>4. Consume(m, {AppendReplyTo(m, m.term, FALSE, 0, index, term)})
    BY <1>4 DEF RejectConflictingAppend
  <2> HIDE DEF index, term
  <2>5. AppendReplyTo(m, m.term, FALSE, 0, index, term) \in Message
    BY <1>1, <2>2, <2>3 DEF AppendReplyTo, Message, AppendReply
  <2>6. msgs' \subseteq Message
    BY <2>4, <2>5 DEF Consume, Sent, TypeOK
  <2>7. FollowLeader(m) /\ UNCHANGED <<log, commitIndex, lastApplied>>
    BY <1>4 DEF RejectConflictingAppend, commitVars
  <2> QED  BY <2>6, <2>7, FollowLeaderType DEF TypeOK
<1>5. CASE AcceptAppend(m)
  <2> DEFINE n == m.dst
             l == MergeEntries(log[n], m.prevIndex, m.entries)
             commit == FollowerCommit(l, commitIndex[n], m.commit)
  <2>1. /\ m.prevIndex \in Nat /\ m.prevIndex <= Len(log[n])
        /\ m.entries \in Seq(Entry) /\ m.commit \in Nat
    <3>1. m \in AppendArgs /\ (m.prevIndex = 0 \/ m.prevIndex <= Len(log[n]))
      BY <1>1, <1>5 DEF AcceptAppend, FollowLeader
    <3>2. m.prevIndex \in Nat /\ m.entries \in Seq(Entry) /\ m.commit \in Nat
      BY <3>1 DEF AppendArgs
    <3> QED  BY <1>2, <3>1, <3>2
  <2>2. l \in Seq(Entry)
    BY <1>2, <2>1, MergeEntriesType
  <2>3. log' = [log EXCEPT ![n] = l] /\ CommitUpTo(n, l, commit)
    BY <1>5 DEF AcceptAppend
  <2>4. Consume(m, {AppendReplyTo(m, m.term, TRUE, MatchAfter(l, m), 0, -1)})
    BY <1>5 DEF AcceptAppend
  <2> HIDE DEF l
  <2>5. commit \in Nat
    BY <1>1, <2>1, <2>2, FollowerCommitType DEF TypeOK
  <2>6. AppendReplyTo(m, m.term, TRUE, MatchAfter(l, m), 0, -1) \in Message
    <3>1. MatchAfter(l, m) \in Nat
      BY <2>1, LenProperties DEF MatchAfter
    <3> QED  BY <1>1, <3>1 DEF AppendReplyTo, Message, AppendReply
  <2>7. msgs' \subseteq Message
    BY <2>4, <2>6 DEF Consume, Sent, TypeOK
  <2> HIDE DEF commit
  <2>8. commitIndex' \in [Node -> Nat] /\ lastApplied' \in [Node -> Nat]
    BY <1>1, <2>3, <2>5 DEF CommitUpTo, TypeOK
  <2>9. log' \in [Node -> Seq(Entry)]
    BY <1>1, <2>2, <2>3 DEF TypeOK
  <2> QED  BY <1>5, <2>7, <2>8, <2>9, FollowLeaderType DEF AcceptAppend
<1> QED  BY <1>3, <1>4, <1>5

LEMMA ReplyType ==
    ASSUME TypeOK, NEW m \in msgs,
           \/ ReceiveNewerTerm(m) \/ IgnoreReply(m)
           \/ ReceivePreVoteReply(m) \/ ReceiveRequestVoteReply(m)
    PROVE  TypeOK'
<1>1. m \in Message /\ m.dst \in Node /\ m.src \in Node /\ m.src # m.dst /\ m.term \in Nat
  BY MessageFields DEF TypeOK
<1>2. CASE ReceiveNewerTerm(m)
  <2>1. msgs' \subseteq Message
    BY <1>2 DEF ReceiveNewerTerm, Consume, Sent, TypeOK
  <2>2. ElectionType'
    BY <1>1, <1>2 DEF ReceiveNewerTerm, BecomeFollower, ElectionType, TypeOK, NodeState
  <2> QED  BY <1>2, <2>1, <2>2 DEF ReceiveNewerTerm, ElectionType, TypeOK,
               prevoteVars, commitVars, leaderVars
<1>3. CASE IgnoreReply(m)
  <2>1. msgs' \subseteq Message
    BY <1>3 DEF IgnoreReply, Consume, Sent, TypeOK
  <2> QED  BY <1>3, <2>1 DEF IgnoreReply, TypeOK, storageVars, electionVars,
               commitVars, leaderVars
<1>4. CASE ReceivePreVoteReply(m)
  <2> DEFINE n == m.dst
             granted == prevotesReceived[n] \cup {m.src}
             won == Cardinality(granted) >= Majority
             requests == VoteRequests(n, "RequestVoteArgs", currentTerm[n] + 1)
  <2>1. requests \subseteq Message
    <3>1. currentTerm[n] + 1 \in Nat
      BY <1>1 DEF TypeOK
    <3> QED  BY <1>1, <3>1, VoteRequestsType
  <2>2. Consume(m, IF won THEN requests ELSE {})
    BY <1>4 DEF ReceivePreVoteReply
  <2>3. msgs' \subseteq Message
    <3> HIDE DEF requests, won
    <3> QED  BY <2>1, <2>2 DEF Consume, Sent, TypeOK
  <2>4. prevotesReceived' \in [Node -> SUBSET Node]
    BY <1>1, <1>4 DEF ReceivePreVoteReply, TypeOK
  <2>5. ElectionType'
    <3>1. CASE won
      <4>1. BecomeCandidate(n)
        BY <1>4, <3>1 DEF ReceivePreVoteReply
      <4> QED  BY <1>1, <4>1, CandidateType
    <3>2. CASE ~won
      BY <1>4, <3>2 DEF ReceivePreVoteReply, ElectionType, TypeOK
    <3> QED  BY <3>1, <3>2
  <2>6. UNCHANGED <<log, prevoteTarget, leaderContact, commitVars, leaderVars, down>>
    BY <1>4 DEF ReceivePreVoteReply
  <2> QED  BY <2>3, <2>4, <2>5, <2>6 DEF ElectionType, TypeOK, commitVars, leaderVars
<1>5. CASE ReceiveRequestVoteReply(m)
  <2> DEFINE n == m.dst
             granted == votesReceived[n] \cup {m.src}
             won == Cardinality(granted) >= Majority
             heartbeats == {AppendTo(n, p, log[n], Len(log[n]) + 1, currentTerm[n]) :
                              p \in Peers(n)}
  <2>1. Len(log[n]) \in Nat
    BY <1>1, LenProperties DEF TypeOK
  <2>2. heartbeats \subseteq Message
    <3>1. ASSUME NEW p \in Peers(n)
          PROVE  AppendTo(n, p, log[n], Len(log[n]) + 1, currentTerm[n]) \in Message
      <4>1. log[n] \in Seq(Entry) /\ currentTerm[n] \in Nat
              /\ Len(log[n]) + 1 \in Nat \ {0}
        BY <1>1, <2>1 DEF TypeOK, Peers
      <4> QED  BY <1>1, <4>1, AppendToType
    <3> QED  BY <3>1
  <2>3. Consume(m, IF won THEN heartbeats ELSE {})
    BY <1>5 DEF ReceiveRequestVoteReply
  <2>4. msgs' \subseteq Message
    <3> HIDE DEF heartbeats, won
    <3> QED  BY <2>2, <2>3 DEF Consume, Sent, TypeOK
  <2>5. votesReceived' \in [Node -> SUBSET Node]
    BY <1>1, <1>5 DEF ReceiveRequestVoteReply, TypeOK
  <2>6. /\ state' \in [Node -> NodeState]
        /\ leaderId' \in [Node -> Node \cup {None}]
        /\ DOMAIN nextIndex' = Node /\ DOMAIN matchIndex' = Node
        /\ \A p \in Node : /\ nextIndex'[p] \in [Peers(p) -> Nat \ {0}]
                           /\ matchIndex'[p] \in [Peers(p) -> Nat]
        /\ elected' \subseteq Nat \X Node
    <3>1. CASE won
      <4>1. BecomeLeader(n)
        BY <1>5, <3>1 DEF ReceiveRequestVoteReply
      <4>2. currentTerm[n] \in Nat
        BY <1>1 DEF TypeOK
      <4>3. state' \in [Node -> NodeState] /\ leaderId' \in [Node -> Node \cup {None}]
        BY <1>1, <4>1 DEF BecomeLeader, TypeOK, NodeState
      <4>4. elected' \subseteq Nat \X Node
        BY <1>1, <4>1, <4>2 DEF BecomeLeader, TypeOK
      <4>5. /\ DOMAIN nextIndex' = Node
            /\ \A p \in Node : nextIndex'[p] \in [Peers(p) -> Nat \ {0}]
        <5>1. Len(log[n]) + 1 \in Nat \ {0}
          BY <2>1
        <5>2. /\ DOMAIN nextIndex = Node
              /\ \A p \in Node : nextIndex[p] \in [Peers(p) -> Nat \ {0}]
          BY DEF TypeOK
        <5> QED  BY <1>1, <4>1, <5>1, <5>2 DEF BecomeLeader
      <4>6. /\ DOMAIN matchIndex' = Node
            /\ \A p \in Node : matchIndex'[p] \in [Peers(p) -> Nat]
        BY <1>1, <4>1 DEF BecomeLeader, TypeOK
      <4> QED  BY <4>3, <4>4, <4>5, <4>6
    <3>2. CASE ~won
      BY <1>5, <3>2 DEF ReceiveRequestVoteReply, TypeOK, leaderVars
    <3> QED  BY <3>1, <3>2
  <2>7. UNCHANGED <<storageVars, prevoteVars, commitVars, down>>
    BY <1>5 DEF ReceiveRequestVoteReply
  <2> QED  BY <2>4, <2>5, <2>6, <2>7 DEF TypeOK, storageVars, prevoteVars, commitVars
<1> QED  BY <1>2, <1>3, <1>4, <1>5

LEMMA AppendReplyHandlingType ==
    ASSUME TypeOK, NEW m \in msgs, ReceiveAppendSuccess(m) \/ ReceiveAppendFailure(m)
    PROVE  TypeOK'
<1>1. m \in Message /\ m.dst \in Node /\ m.src \in Node /\ m.src # m.dst
  BY MessageFields DEF TypeOK
<1>2. m \in AppendReply
  BY <1>1, MessageFields DEF ReceiveAppendSuccess, ReceiveAppendFailure, AppendReplyCounts
<1> DEFINE n == m.dst
<1>3. m.src \in Peers(n) /\ log[n] \in Seq(Entry) /\ currentTerm[n] \in Nat
  BY <1>1 DEF TypeOK, Peers
<1>4. nextIndex[n] \in [Peers(n) -> Nat \ {0}] /\ matchIndex[n] \in [Peers(n) -> Nat]
  BY <1>1 DEF TypeOK
<1>5. CASE ReceiveAppendSuccess(m)
  <2> DEFINE match == [matchIndex[n] EXCEPT ![m.src] = IF m.match > @ THEN m.match ELSE @]
             commit == CommitByCounting(log[n], match, currentTerm[n], commitIndex[n])
  <2>1. match \in [Peers(n) -> Nat]
    <3>1. m.match \in Nat
      BY <1>2 DEF AppendReply
    <3> QED  BY <1>3, <1>4, <3>1
  <2>2. /\ matchIndex' = [matchIndex EXCEPT ![n] = match]
        /\ nextIndex' = [nextIndex EXCEPT ![n][m.src] = match[m.src] + 1]
        /\ CommitUpTo(n, log[n], commit)
        /\ Consume(m, {})
        /\ UNCHANGED <<storageVars, electionVars, down, elected>>
    BY <1>5 DEF ReceiveAppendSuccess
  <2> HIDE DEF match
  <2>3. commit \in Nat
    BY <1>1, <1>3, CommitByCountingType DEF TypeOK
  <2> HIDE DEF commit
  <2>4. commitIndex' \in [Node -> Nat] /\ lastApplied' \in [Node -> Nat]
    BY <1>1, <2>2, <2>3 DEF CommitUpTo, TypeOK
  <2>5. match[m.src] + 1 \in Nat \ {0}
    BY <1>3, <2>1
  <2>6. DOMAIN nextIndex' = Node /\ DOMAIN matchIndex' = Node
    BY <2>2 DEF TypeOK
  <2>7. \A p \in Node : /\ nextIndex'[p] \in [Peers(p) -> Nat \ {0}]
                        /\ matchIndex'[p] \in [Peers(p) -> Nat]
    BY <1>1, <1>3, <1>4, <2>1, <2>2, <2>5 DEF TypeOK
  <2>8. msgs' \subseteq Message
    BY <2>2 DEF Consume, Sent, TypeOK
  <2> QED  BY <2>2, <2>4, <2>6, <2>7, <2>8 DEF TypeOK, storageVars, electionVars
<1>6. CASE ReceiveAppendFailure(m)
  <2> DEFINE next == NextAfterConflict(log[n], m)
  <2>1. next \in Nat \ {0}
    BY <1>2, <1>3, NextAfterConflictType
  <2>2. /\ nextIndex' = [nextIndex EXCEPT ![n][m.src] = next]
        /\ Consume(m, {AppendTo(n, m.src, log[n], next, currentTerm[n])})
        /\ UNCHANGED <<storageVars, electionVars, commitVars, matchIndex, down, elected>>
    BY <1>6 DEF ReceiveAppendFailure
  <2> HIDE DEF next
  <2>3. AppendTo(n, m.src, log[n], next, currentTerm[n]) \in Message
    BY <1>1, <1>3, <2>1, AppendToType
  <2>4. msgs' \subseteq Message
    BY <2>2, <2>3 DEF Consume, Sent, TypeOK
  <2>5. DOMAIN nextIndex' = Node /\ \A p \in Node : nextIndex'[p] \in [Peers(p) -> Nat \ {0}]
    BY <1>1, <1>3, <1>4, <2>1, <2>2 DEF TypeOK
  <2> QED  BY <2>2, <2>4, <2>5 DEF TypeOK, storageVars, electionVars, commitVars
<1> QED  BY <1>5, <1>6

\* Every step keeps every variable's type.
LEMMA NextType ==
    ASSUME TypeOK, [Next]_vars
    PROVE  TypeOK'
<1>1. CASE Step
  <2>1. ASSUME NEW n \in Node,
               LeaderContactLapses(n) \/ ElectionTimeout(n) \/ HeartbeatTimeout(n)
        PROVE  TypeOK'
    BY <2>1, TimerType
  <2>2. ASSUME NEW n \in Node, NEW c \in Command, Propose(n, c)
        PROVE  TypeOK'
    BY <2>2, ProposeType
  <2>3. ASSUME NEW n \in Node, Kill(n) \/ Revive(n)
        PROVE  TypeOK'
    BY <2>3, FaultType
  <2>4. ASSUME NEW m \in msgs, Receive(m)
        PROVE  TypeOK'
    BY <2>4, VoteRequestType, AppendRequestType, ReplyType, AppendReplyHandlingType DEF Receive
  <2> QED  BY <1>1, <2>1, <2>2, <2>3, <2>4 DEF Step
<1>2. CASE UNCHANGED vars
  BY <1>2 DEF vars, TypeOK
<1> QED  BY <1>1, <1>2 DEF Next

\* Type correctness of raft/node.py's state and messages: next_index never
\* falls below 1, so no request is sent with a negative prev_log_index,
\* whichever stale or duplicated-looking reply the leader takes in.
THEOREM TypeCorrect == Spec => []TypeOK
<1>1. Init => TypeOK
  BY InitType
<1>2. TypeOK /\ [Next]_vars => TypeOK'
  BY NextType
<1> QED  BY <1>1, <1>2, PTL DEF Spec

-----------------------------------------------------------------------------
(* Terms and votes.                                                        *)

\* A step leaves a node's term and vote alone, moves it to a later term, or
\* casts a vote where there was none.
TermAndVoteStep(n) ==
    \/ currentTerm'[n] > currentTerm[n]
    \/ currentTerm'[n] = currentTerm[n] /\ votedFor'[n] = votedFor[n]
    \/ currentTerm'[n] = currentTerm[n] /\ votedFor[n] = None

LEMMA CandidateVotes ==
    ASSUME TypeOK, NEW n \in Node, BecomeCandidate(n)
    PROVE  \A v \in Node : TermAndVoteStep(v)
BY DEF BecomeCandidate, TypeOK, TermAndVoteStep

LEMMA StepVotes ==
    ASSUME TypeOK, [Next]_vars, NEW v \in Node
    PROVE  TermAndVoteStep(v)
<1>1. ASSUME UNCHANGED <<currentTerm, votedFor>> PROVE TermAndVoteStep(v)
  BY <1>1 DEF TermAndVoteStep
<1>2. CASE UNCHANGED vars
  BY <1>1, <1>2 DEF vars
<1>3. ASSUME NEW n \in Node,
             \/ LeaderContactLapses(n) \/ HeartbeatTimeout(n) \/ Kill(n) \/ Revive(n)
             \/ \E c \in Command : Propose(n, c)
      PROVE  TermAndVoteStep(v)
  BY <1>1, <1>3 DEF LeaderContactLapses, HeartbeatTimeout, Kill, Revive, Propose, storageVars
<1>4. ASSUME NEW n \in Node, ElectionTimeout(n)
      PROVE  TermAndVoteStep(v)
  BY <1>1, <1>4, CandidateVotes DEF ElectionTimeout, storageVars
<1>5. ASSUME NEW m \in msgs, Receive(m)
      PROVE  TermAndVoteStep(v)
  <2>1. m.dst \in Node /\ m.src \in Node /\ m.term \in Nat
    BY MessageFields DEF TypeOK
  <2>2. CASE \/ ReceivePreVote(m) \/ RejectStaleAppend(m) \/ IgnoreReply(m)
             \/ ReceiveRequestVoteReply(m) \/ ReceiveAppendSuccess(m) \/ ReceiveAppendFailure(m)
    BY <1>1, <2>2 DEF ReceivePreVote, RejectStaleAppend, IgnoreReply, ReceiveRequestVoteReply,
       ReceiveAppendSuccess, ReceiveAppendFailure, storageVars
  <2>3. CASE ReceiveRequestVote(m)
    BY <2>1, <2>3 DEF ReceiveRequestVote, GrantsVote, CanVote, TypeOK, TermAndVoteStep
  <2>4. CASE FollowLeader(m)
    BY <2>1, <2>4 DEF FollowLeader, TypeOK, TermAndVoteStep
  <2>5. CASE ReceiveNewerTerm(m)
    BY <2>1, <2>5 DEF ReceiveNewerTerm, BecomeFollower, TypeOK, TermAndVoteStep
  <2>6. CASE ReceivePreVoteReply(m)
    BY <1>1, <2>1, <2>6, CandidateVotes DEF ReceivePreVoteReply
  <2> QED  BY <1>5, <2>2, <2>3, <2>4, <2>5, <2>6
           DEF Receive, RejectConflictingAppend, AcceptAppend
<1> QED  BY <1>2, <1>3, <1>4, <1>5 DEF Next, Step

\* A node's term never goes back and its vote never changes within a term,
\* restarts included, for every cluster.
THEOREM VotesAreStable == Spec => VoteStable
<1>1. TypeOK /\ [Next]_vars =>
        [\A n \in Node :
           /\ currentTerm'[n] >= currentTerm[n]
           /\ currentTerm'[n] = currentTerm[n] /\ votedFor[n] # None
                => votedFor'[n] = votedFor[n]]_vars
  <2> SUFFICES ASSUME TypeOK, [Next]_vars, NEW n \in Node
               PROVE  /\ currentTerm'[n] >= currentTerm[n]
                      /\ currentTerm'[n] = currentTerm[n] /\ votedFor[n] # None
                           => votedFor'[n] = votedFor[n]
    OBVIOUS
  <2>1. TermAndVoteStep(n)
    BY StepVotes
  <2>2. currentTerm[n] \in Nat /\ currentTerm'[n] \in Nat
    BY NextType DEF TypeOK
  <2> QED  BY <2>1, <2>2 DEF TermAndVoteStep
<1> QED  BY <1>1, TypeCorrect, PTL DEF Spec, VoteStable

-----------------------------------------------------------------------------
(* A cluster of one.                                                       *)

NothingCommitted == \A n \in Node : commitIndex[n] = 0

\* _advance_commit_index runs on replies of peers only.  A node without peers
\* elects itself and accepts proposals, and no entry is ever committed.
THEOREM LoneNodeNeverCommits ==
    ASSUME Cardinality(Node) = 1 PROVE Spec => []NothingCommitted
<1>1. \A p, q \in Node : p = q
  <2>1. PICK x : Node = {x}
    BY NodeAssumption, FS_Singleton
  <2> QED  BY <2>1
<1>2. Init => NothingCommitted
  BY DEF Init, NothingCommitted
<1>3. TypeOK /\ NothingCommitted /\ [Next]_vars => NothingCommitted'
  <2> SUFFICES ASSUME TypeOK, NothingCommitted, [Next]_vars PROVE NothingCommitted'
    OBVIOUS
  <2>1. \A m \in msgs : FALSE
    BY <1>1, MessageFields DEF TypeOK
  <2>2. CASE UNCHANGED commitIndex
    BY <2>2 DEF NothingCommitted
  <2>3. ASSUME NEW n \in Node, Revive(n) PROVE NothingCommitted'
    BY <2>3 DEF Revive, NothingCommitted, TypeOK
  <2> QED  BY <2>1, <2>2, <2>3 DEF Next, Step, vars, commitVars, LeaderContactLapses,
             ElectionTimeout, HeartbeatTimeout, Kill, Propose
<1> QED  BY <1>2, <1>3, TypeCorrect, PTL DEF Spec
=============================================================================
