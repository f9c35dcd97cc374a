--------------------------- MODULE RaftLogProofs ----------------------------
(***************************************************************************)
(* Log matching: logs with an entry of one term at one index are equal up  *)
(* to it, for every cluster and every schedule of messages, losses and     *)
(* restarts.  The inductive invariant is LogInv of RaftHistory: each log   *)
(* is, up to any entry of it, the log of the leader of that entry's term.  *)
(***************************************************************************)
EXTENDS RaftHistory, RaftElectionProofs

-----------------------------------------------------------------------------
(* What the steps of Raft do to logs, leaders and requests.                *)

\* A node's term never goes back, and it becomes a candidate in a new term.
RoleStep ==
    \A n \in Node :
        /\ currentTerm'[n] >= currentTerm[n]
        /\ state'[n] = "CANDIDATE" =>
             currentTerm'[n] > currentTerm[n] \/ state[n] = "CANDIDATE"

\* Leaders step down and no log changes.
CalmStep ==
    /\ UNCHANGED <<log, elected>>
    /\ \A n \in Node : state'[n] = "LEADER" =>
         state[n] = "LEADER" /\ currentTerm'[n] = currentTerm[n]

\* n wins the election of its term.
WinStep(n) ==
    /\ UNCHANGED log
    /\ state'[n] = "LEADER"
    /\ elected' = elected \cup {<<currentTerm'[n], n>>}
    /\ currentTerm'[n] > currentTerm[n] \/ state[n] = "CANDIDATE"
    /\ \A p \in Node : p # n => state'[p] = state[p] /\ currentTerm'[p] = currentTerm[p]

\* n, a leader, puts a command at the end of its log.
LeaderAppends(n, c) ==
    /\ state[n] = "LEADER"
    /\ log' = [log EXCEPT ![n] = Append(log[n], [term |-> currentTerm[n], command |-> c])]
    /\ UNCHANGED <<currentTerm, state, votesReceived, commitIndex, elected>>

LogStep ==
    \/ CalmStep
    \/ \E n \in Node : WinStep(n) \/ \E c \in Command : LeaderAppends(n, c)
    \/ \E m \in msgs : AcceptAppend(m)

\* Only a leader sends requests, out of its log.
RequestStep ==
    \A m \in msgs' \ msgs : IsAppend(m) =>
        /\ m.src \in Node /\ state'[m.src] = "LEADER"
        /\ commitIndex'[m.src] = commitIndex[m.src]
        /\ \E next \in Nat \ {0} :
             m = AppendTo(m.src, m.dst, log'[m.src], next, currentTerm'[m.src])

\* None of the messages sent is a request.
NoRequest == \A m \in msgs' \ msgs : ~IsAppend(m)

LEMMA CandidateShape ==
    ASSUME TypeOK, NEW n \in Node, BecomeCandidate(n), UNCHANGED log
    PROVE  RoleStep /\ LogStep
<1>1. currentTerm[n] \in Nat /\ \A p \in Node : currentTerm[p] \in Nat
  BY DEF TypeOK
<1>2. /\ currentTerm'[n] = currentTerm[n] + 1
      /\ \A p \in Node : p # n => state'[p] = state[p] /\ currentTerm'[p] = currentTerm[p]
  BY DEF BecomeCandidate, TypeOK
<1>3. RoleStep
  BY <1>1, <1>2 DEF RoleStep
<1>4. CASE Majority = 1
  <2>1. WinStep(n)
    BY <1>1, <1>2, <1>4 DEF BecomeCandidate, WinStep, TypeOK
  <2> QED  BY <1>3, <2>1 DEF LogStep
<1>5. CASE Majority # 1
  <2>1. CalmStep
    BY <1>2, <1>5 DEF BecomeCandidate, CalmStep, TypeOK
  <2> QED  BY <1>3, <2>1 DEF LogStep
<1> QED  BY <1>4, <1>5

\* What a leader n sends to its peers in one step.
LEMMA LeaderRequests ==
    ASSUME TypeOK, NEW n \in Node, state'[n] = "LEADER", UNCHANGED <<currentTerm, commitIndex>>,
           NEW S, msgs' \subseteq msgs \cup S,
           \A m \in S : \E p \in Peers(n), next \in Nat \ {0} :
             m = AppendTo(n, p, log'[n], next, currentTerm[n])
    PROVE  RequestStep
<1> SUFFICES ASSUME NEW m \in msgs' \ msgs
             PROVE  /\ m.src \in Node /\ state'[m.src] = "LEADER"
                    /\ commitIndex'[m.src] = commitIndex[m.src]
                    /\ \E next \in Nat \ {0} :
                         m = AppendTo(m.src, m.dst, log'[m.src], next, currentTerm'[m.src])
  BY DEF RequestStep
<1>1. PICK p \in Peers(n), next \in Nat \ {0} :
        m = AppendTo(n, p, log'[n], next, currentTerm[n])
  OBVIOUS
<1>2. m.src = n /\ m.dst = p
  BY <1>1 DEF AppendTo
<1> QED  BY <1>1, <1>2

LEMMA QuietRequests ==
    ASSUME NoRequest
    PROVE  RequestStep
BY DEF NoRequest, RequestStep

LEMMA TimerShape ==
    ASSUME TypeOK, NEW n \in Node,
           LeaderContactLapses(n) \/ ElectionTimeout(n) \/ HeartbeatTimeout(n)
             \/ Kill(n) \/ Revive(n)
    PROVE  RoleStep /\ LogStep /\ RequestStep
<1>1. \A p \in Node : currentTerm[p] \in Nat
  BY DEF TypeOK
<1>2. CASE LeaderContactLapses(n) \/ Kill(n)
  <2>1. UNCHANGED <<currentTerm, state, log, elected, msgs>>
    BY <1>2 DEF LeaderContactLapses, Kill, storageVars, electionVars
  <2>2. RoleStep /\ CalmStep /\ NoRequest
    BY <1>1, <2>1 DEF RoleStep, CalmStep, NoRequest
  <2> QED  BY <2>2, QuietRequests DEF LogStep
<1>3. CASE Revive(n)
  <2>1. UNCHANGED <<currentTerm, log, elected, msgs>> /\ state' = [state EXCEPT ![n] = "FOLLOWER"]
    BY <1>3 DEF Revive, storageVars
  <2>2. RoleStep /\ CalmStep /\ NoRequest
    BY <1>1, <2>1 DEF RoleStep, CalmStep, NoRequest, TypeOK
  <2> QED  BY <2>2, QuietRequests DEF LogStep
<1>4. CASE HeartbeatTimeout(n)
  <2> DEFINE S == {AppendTo(n, p, log[n], nextIndex[n][p], currentTerm[n]) : p \in Peers(n)}
  <2>1. /\ UNCHANGED <<currentTerm, state, log, elected, commitIndex>> /\ state[n] = "LEADER"
        /\ msgs' \subseteq msgs \cup S
    BY <1>4 DEF HeartbeatTimeout, Send, Sent, storageVars, electionVars, commitVars
  <2>2. RoleStep /\ CalmStep
    BY <1>1, <2>1 DEF RoleStep, CalmStep
  <2>3. \A m \in S : \E p \in Peers(n), next \in Nat \ {0} :
          m = AppendTo(n, p, log'[n], next, currentTerm[n])
    <3>1. \A p \in Peers(n) : nextIndex[n][p] \in Nat \ {0}
      BY DEF TypeOK
    <3> QED  BY <2>1, <3>1
  <2> HIDE DEF S
  <2>4. RequestStep
    BY <2>1, <2>3, LeaderRequests
  <2> QED  BY <2>2, <2>4 DEF LogStep
<1>5. CASE ElectionTimeout(n)
  <2>1. NoRequest
    BY <1>5 DEF ElectionTimeout, Send, Sent, VoteRequests, NoRequest, IsAppend
  <2>2. CASE Majority = 1
    BY <1>5, <2>1, <2>2, CandidateShape, QuietRequests DEF ElectionTimeout
  <2>3. CASE Majority # 1
    <3>1. UNCHANGED <<currentTerm, log, elected>> /\ state' = [state EXCEPT ![n] = "FOLLOWER"]
      BY <1>5, <2>3 DEF ElectionTimeout, PreVoteRole, storageVars
    <3>2. RoleStep /\ CalmStep
      BY <1>1, <3>1 DEF RoleStep, CalmStep, TypeOK
    <3> QED  BY <2>1, <3>2, QuietRequests DEF LogStep
  <2> QED  BY <2>2, <2>3
<1> QED  BY <1>2, <1>3, <1>4, <1>5

LEMMA ProposeShape ==
    ASSUME TypeOK, NEW n \in Node, NEW c \in Command, Propose(n, c)
    PROVE  RoleStep /\ LogStep /\ RequestStep
<1> DEFINE l == Append(log[n], [term |-> currentTerm[n], command |-> c])
           S == {AppendTo(n, p, l, nextIndex[n][p], currentTerm[n]) : p \in Peers(n)}
<1>1. /\ UNCHANGED <<currentTerm, state, elected, commitIndex>> /\ state[n] = "LEADER"
      /\ log' = [log EXCEPT ![n] = l] /\ msgs' \subseteq msgs \cup S
  BY DEF Propose, Send, Sent, electionVars, commitVars
<1>2. RoleStep
  BY <1>1 DEF RoleStep, TypeOK
<1>3. \A m \in S : \E p \in Peers(n), next \in Nat \ {0} :
        m = AppendTo(n, p, log'[n], next, currentTerm[n])
  <2>1. log'[n] = l
    BY <1>1 DEF TypeOK
  <2>2. \A p \in Peers(n) : nextIndex[n][p] \in Nat \ {0}
    BY DEF TypeOK
  <2> QED  BY <2>1, <2>2
<1>4. LogStep
  <2>1. LeaderAppends(n, c)
    BY DEF Propose, LeaderAppends, electionVars, commitVars
  <2> QED  BY <2>1 DEF LogStep
<1>5. RequestStep
  <2>1. state'[n] = "LEADER" /\ UNCHANGED <<currentTerm, commitIndex>>
    BY <1>1
  <2>2. msgs' \subseteq msgs \cup S
    BY <1>1
  <2> HIDE DEF S, l
  <2> QED  BY ONLY TypeOK, n \in Node, <1>3, <2>1, <2>2, LeaderRequests
<1> QED  BY <1>2, <1>4, <1>5

LEMMA ReceiveShape ==
    ASSUME TypeOK, NEW m \in msgs, Receive(m)
    PROVE  RoleStep /\ LogStep /\ RequestStep
<1> DEFINE n == m.dst
<1>1. /\ \A p \in Node : currentTerm[p] \in Nat
      /\ n \in Node /\ m.src \in Node /\ m.src # n /\ m.term \in Nat
      /\ m.type = "AppendEntriesReply" => m \in AppendReply
  BY MessageFields DEF TypeOK
<1>2. CASE ReceivePreVote(m) \/ RejectStaleAppend(m) \/ IgnoreReply(m) \/ ReceiveAppendSuccess(m)
  <2>1. UNCHANGED <<currentTerm, state, log, elected>>
    BY <1>2 DEF ReceivePreVote, RejectStaleAppend, IgnoreReply, ReceiveAppendSuccess,
       storageVars, electionVars
  <2>2. NoRequest
    BY <1>2 DEF ReceivePreVote, RejectStaleAppend, IgnoreReply, ReceiveAppendSuccess,
       Consume, Sent, VoteReplyTo, AppendReplyTo, NoRequest, IsAppend
  <2>3. RoleStep /\ CalmStep
    BY <1>1, <2>1 DEF RoleStep, CalmStep
  <2> QED  BY <2>2, <2>3, QuietRequests DEF LogStep
<1>3. CASE ReceiveRequestVote(m)
  <2> DEFINE newer == m.term > currentTerm[n]
             term == IF newer THEN m.term ELSE currentTerm[n]
  <2>1. /\ currentTerm' = [currentTerm EXCEPT ![n] = term]
        /\ state' = [state EXCEPT ![n] = IF newer THEN "FOLLOWER" ELSE @]
        /\ UNCHANGED <<log, elected>>
    BY <1>3 DEF ReceiveRequestVote
  <2>2. NoRequest
    BY <1>3 DEF ReceiveRequestVote, Consume, Sent, VoteReplyTo, NoRequest, IsAppend
  <2>3. RoleStep /\ CalmStep
    <3>1. currentTerm \in [Node -> Nat] /\ state \in [Node -> NodeState]
      BY DEF TypeOK
    <3> QED  BY <1>1, <2>1, <3>1 DEF RoleStep, CalmStep
  <2> QED  BY <2>2, <2>3, QuietRequests DEF LogStep
<1>4. CASE RejectConflictingAppend(m) \/ AcceptAppend(m)
  <2>1. NoRequest
    BY <1>4 DEF RejectConflictingAppend, AcceptAppend, Consume, Sent, AppendReplyTo,
       NoRequest, IsAppend
  <2>2. /\ currentTerm' = [currentTerm EXCEPT ![n] = m.term] /\ m.term >= currentTerm[n]
        /\ state' = [state EXCEPT ![n] = "FOLLOWER"] /\ UNCHANGED elected
    BY <1>4 DEF RejectConflictingAppend, AcceptAppend, FollowLeader
  <2>3. RoleStep
    <3>1. currentTerm \in [Node -> Nat] /\ state \in [Node -> NodeState]
      BY DEF TypeOK
    <3> QED  BY <1>1, <2>2, <3>1 DEF RoleStep
  <2>4. CASE RejectConflictingAppend(m)
    <3>1. CalmStep
      BY <1>1, <2>2, <2>4 DEF RejectConflictingAppend, CalmStep, TypeOK
    <3> QED  BY <2>1, <2>3, <3>1, QuietRequests DEF LogStep
  <2>5. CASE AcceptAppend(m)
    BY <2>1, <2>3, <2>5, QuietRequests DEF LogStep
  <2> QED  BY <1>4, <2>4, <2>5
<1>5. CASE ReceiveNewerTerm(m)
  <2>1. NoRequest
    BY <1>5 DEF ReceiveNewerTerm, Consume, Sent, NoRequest
  <2>2. RoleStep /\ CalmStep
    <3>1. currentTerm \in [Node -> Nat] /\ state \in [Node -> NodeState]
      BY DEF TypeOK
    <3> QED  BY <1>1, <1>5, <3>1 DEF ReceiveNewerTerm, BecomeFollower, RoleStep, CalmStep
  <2> QED  BY <2>1, <2>2, QuietRequests DEF LogStep
<1>6. CASE ReceivePreVoteReply(m)
  <2>1. NoRequest
    BY <1>6 DEF ReceivePreVoteReply, Consume, Sent, VoteRequests, NoRequest, IsAppend
  <2>2. CASE BecomeCandidate(n)
    BY <1>1, <1>6, <2>1, <2>2, CandidateShape, QuietRequests DEF ReceivePreVoteReply
  <2>3. CASE UNCHANGED <<currentTerm, votedFor, state, leaderId, votesReceived, elected>>
    <3>1. RoleStep /\ CalmStep
      BY <1>1, <1>6, <2>3 DEF ReceivePreVoteReply, RoleStep, CalmStep
    <3> QED  BY <2>1, <3>1, QuietRequests DEF LogStep
  <2> QED  BY <1>6, <2>2, <2>3 DEF ReceivePreVoteReply
<1>7. CASE ReceiveRequestVoteReply(m)
  <2> DEFINE won == Cardinality(votesReceived[n] \cup {m.src}) >= Majority
             S == {AppendTo(n, p, log[n], Len(log[n]) + 1, currentTerm[n]) : p \in Peers(n)}
  <2>1. UNCHANGED <<currentTerm, log, commitIndex>> /\ state[n] = "CANDIDATE"
    BY <1>7 DEF ReceiveRequestVoteReply, VoteCounts, storageVars, commitVars
  <2>2. CASE won
    <3>1. BecomeLeader(n) /\ msgs' \subseteq msgs \cup S
      BY <1>7, <2>2 DEF ReceiveRequestVoteReply, Consume, Sent
    <3>2. state'[n] = "LEADER" /\ \A p \in Node : p # n => state'[p] = state[p]
      BY <1>1, <3>1 DEF BecomeLeader, TypeOK
    <3>3. RoleStep /\ WinStep(n)
      BY <1>1, <2>1, <3>1, <3>2 DEF RoleStep, WinStep, BecomeLeader
    <3>4. \A r \in S : \E p \in Peers(n), next \in Nat \ {0} :
            r = AppendTo(n, p, log'[n], next, currentTerm[n])
      <4>1. Len(log[n]) + 1 \in Nat \ {0}
        BY <1>1, LenProperties DEF TypeOK
      <4> QED  BY <2>1, <4>1
    <3> HIDE DEF S
    <3>5. RequestStep
      <4>1. n \in Node /\ UNCHANGED <<currentTerm, commitIndex>> /\ msgs' \subseteq msgs \cup S
        BY <1>1, <2>1, <3>1
      <4> QED  BY ONLY TypeOK, <3>2, <3>4, <4>1, LeaderRequests
    <3> QED  BY <1>1, <3>3, <3>5 DEF LogStep
  <2>3. CASE ~won
    <3>1. NoRequest /\ UNCHANGED <<state, elected>>
      BY <1>7, <2>3 DEF ReceiveRequestVoteReply, Consume, Sent, NoRequest
    <3>2. RoleStep /\ CalmStep
      BY <1>1, <2>1, <3>1 DEF RoleStep, CalmStep
    <3> QED  BY <3>1, <3>2, QuietRequests DEF LogStep
  <2> QED  BY <2>2, <2>3
<1>8. CASE ReceiveAppendFailure(m)
  <2> DEFINE next == NextAfterConflict(log[n], m)
             S == {AppendTo(n, m.src, log[n], next, currentTerm[n])}
  <2>1. /\ UNCHANGED <<currentTerm, log, commitIndex, state, elected>> /\ state[n] = "LEADER"
        /\ msgs' \subseteq msgs \cup S
    BY <1>8 DEF ReceiveAppendFailure, AppendReplyCounts, Consume, Sent, storageVars,
       electionVars, commitVars
  <2>2. RoleStep /\ CalmStep
    BY <1>1, <2>1 DEF RoleStep, CalmStep
  <2>3. next \in Nat \ {0} /\ m.src \in Peers(n)
    BY <1>1, <1>8, NextAfterConflictType DEF ReceiveAppendFailure, AppendReplyCounts, TypeOK, Peers
  <2>4. \A r \in S : \E p \in Peers(n), i \in Nat \ {0} :
          r = AppendTo(n, p, log'[n], i, currentTerm[n])
    <3> HIDE DEF next
    <3> QED  BY <2>1, <2>3
  <2> HIDE DEF S
  <2>5. RequestStep
    BY <1>1, <2>1, <2>4, LeaderRequests
  <2> QED  BY <2>2, <2>5 DEF LogStep
<1> QED  BY <1>2, <1>3, <1>4, <1>5, <1>6, <1>7, <1>8 DEF Receive

LEMMA NextShape ==
    ASSUME TypeOK, [Next]_vars
    PROVE  RoleStep /\ LogStep /\ RequestStep
<1>1. CASE UNCHANGED vars
  <2>1. RoleStep /\ CalmStep /\ NoRequest
    BY <1>1 DEF vars, TypeOK, RoleStep, CalmStep, NoRequest
  <2> QED  BY <2>1, QuietRequests DEF LogStep
<1>2. CASE Step
  BY <1>2, TimerShape, ProposeShape, ReceiveShape DEF Step
<1> QED  BY <1>1, <1>2 DEF Next

-----------------------------------------------------------------------------
(* Logs and the history.                                                   *)

LEMMA EntriesTyped ==
    ASSUME NEW l \in Seq(Entry)
    PROVE  Len(l) \in Nat /\ \A i \in 1..Len(l) : l[i] \in Entry /\ l[i].term \in Nat
<1>1. \A i \in 1..Len(l) : l[i] \in Entry
  BY ElementOfSeq
<1> QED  BY <1>1, LenProperties DEF Entry

\* The bookkeeping of one step, a stuttering step included.
RecordStep ==
    /\ led \subseteq led'
    /\ LeaderEntries' \subseteq led'
    /\ led' \subseteq led \cup LeaderEntries'
    /\ acks \subseteq acks' /\ acks' \subseteq acks \cup AcksInFlight'

LEMMA LeaderEntriesLed ==
    ASSUME TypeOK, ElectedKeepLog, LeadersElected
    PROVE  LeaderEntries \subseteq led
<1> SUFFICES ASSUME NEW n \in Node, state[n] = "LEADER", NEW i \in 1..Len(log[n])
             PROVE  <<currentTerm[n], i, log[n][i]>> \in led
  BY DEF LeaderEntries
<1>1. PICK e \in elected : e = <<currentTerm[n], n>>
  BY DEF LeadersElected
<1>2. e[1] = currentTerm[n] /\ e[2] = n
  BY <1>1
<1> QED  BY <1>2 DEF ElectedKeepLog, Held

LEMMA HistoryRecords ==
    ASSUME TypeOK, LogInv, HistoryStep
    PROVE  RecordStep /\ [Next]_vars
<1>1. CASE Record
  BY <1>1 DEF HistoryStep, Record, RecordStep
<1>2. CASE UNCHANGED historyVars
  <2>1. UNCHANGED <<log, state, currentTerm, led, acks>> /\ UNCHANGED vars
    BY <1>2 DEF historyVars, vars
  <2>2. LeaderEntries' = LeaderEntries
    BY <2>1 DEF LeaderEntries
  <2>3. LeaderEntries \subseteq led
    BY LeaderEntriesLed DEF LogInv
  <2> QED  BY <2>1, <2>2, <2>3 DEF RecordStep
<1> QED  BY <1>1, <1>2 DEF HistoryStep

\* The invariants on led, entry by entry.
LEMMA HeldFacts ==
    ASSUME LogInv, NEW t, NEW i, NEW e, Held(t, i, e)
    PROVE  /\ t \in Nat /\ i \in Nat \ {0} /\ e \in Entry /\ e.term \in Nat /\ e.term <= t
           /\ \A f : Held(t, i, f) => f = e
           /\ \A j \in 1..i : \E f \in Entry : Held(t, j, f)
           /\ \A j \in 1..i : \A f : Held(t, j, f) => Held(e.term, j, f)
           /\ \E n \in Node : <<t, n>> \in elected
<1> DEFINE h == <<t, i, e>>
<1>1. h \in led /\ h[1] = t /\ h[2] = i /\ h[3] = e
  BY DEF Held
<1>2. t \in Nat /\ i \in Nat \ {0} /\ e \in Entry
  BY <1>1 DEF LogInv, HistoryType
<1>3. e.term \in Nat /\ e.term <= t /\ \E n \in Node : <<t, n>> \in elected
  BY <1>1, <1>2 DEF LogInv, LedByElected, Entry
<1>4. ASSUME NEW j \in 1..i, NEW f, Held(t, j, f)
      PROVE  Held(e.term, j, f) /\ (i = j => f = e)
  <2>1. PICK g \in led : g = <<t, j, f>>
    BY <1>4 DEF Held
  <2>2. g[1] = t /\ g[2] = j /\ g[3] = f
    BY <2>1
  <2> QED  BY <1>1, <1>2, <2>2 DEF LogInv, OneLogPerTerm, LedInherited
<1>5. ASSUME NEW j \in 1..i PROVE \E f \in Entry : Held(t, j, f)
  <2>1. PICK g \in led : g[1] = t /\ g[2] = j
    BY <1>1 DEF LogInv, OneLogPerTerm
  <2>2. g = <<g[1], g[2], g[3]>> /\ g[3] \in Entry
    BY DEF LogInv, HistoryType
  <2> QED  BY <2>1, <2>2 DEF Held
<1>6. i \in 1..i
  BY <1>2
<1> QED  BY <1>2, <1>3, <1>4, <1>5, <1>6

\* A log that holds an entry of the same term as the leader of term t at an
\* index is the leader's log up to it.
LEMMA LogsAgree ==
    ASSUME TypeOK, LogInv, NEW n \in Node, NEW i \in 1..Len(log[n]), NEW t, NEW e,
           Held(t, i, e), e.term = log[n][i].term
    PROVE  \A j \in 1..i : Held(t, j, log[n][j])
<1> TAKE j \in 1..i
<1>1. Held(e.term, j, log[n][j])
  BY DEF LogInv, LogsInherited
<1>2. PICK f \in Entry : Held(t, j, f)
  BY HeldFacts
<1>3. Held(e.term, j, f)
  BY <1>2, HeldFacts
<1>4. f = log[n][j]
  BY <1>1, <1>3, HeldFacts
<1> QED  BY <1>2, <1>4

\* What the merge of received entries leaves of a log: everything, if each
\* entry is there, and otherwise the agreeing part followed by the rest.
LEMMA MergeShape ==
    ASSUME NEW l \in Seq(Entry), NEW entries \in Seq(Entry),
           NEW prev \in Nat, prev <= Len(l)
    PROVE  \E b \in prev..(prev + Len(entries)) :
             /\ b <= Len(l)
             /\ \A k \in 1..(b - prev) : l[prev + k].term = entries[k].term
             /\ \/ b = prev + Len(entries) /\ MergeEntries(l, prev, entries) = l
                \/ /\ b < prev + Len(entries)
                   /\ Len(MergeEntries(l, prev, entries)) = prev + Len(entries)
                   /\ \A i \in 1..b : MergeEntries(l, prev, entries)[i] = l[i]
                   /\ \A i \in (b + 1)..(prev + Len(entries)) :
                        MergeEntries(l, prev, entries)[i] = entries[i - prev]
                   /\ b + 1 <= Len(l) => l[b + 1].term # entries[b + 1 - prev].term
<1> DEFINE S == Mismatches(l, prev, entries)
           r == MergeEntries(l, prev, entries)
           N == Len(entries)
<1>1. Len(l) \in Nat /\ N \in Nat /\ \A k \in 1..N : entries[k] \in Entry
  BY LenProperties, ElementOfSeq
<1>2. ASSUME NEW k \in 1..N, k \notin S
      PROVE  prev + k <= Len(l) /\ l[prev + k].term = entries[k].term
  <2>1. TermAt(l, prev + k) = entries[k].term /\ entries[k].term \in Nat
    BY <1>1, <1>2 DEF Mismatches, Entry
  <2> QED  BY <1>1, <2>1 DEF TermAt
<1>3. CASE S = {}
  <2> DEFINE b == prev + N
  <2>1. b \in prev..(prev + N) /\ r = l
    BY <1>1, <1>3 DEF MergeEntries
  <2>2. b <= Len(l)
    <3>1. CASE N = 0
      BY <3>1
    <3>2. CASE N # 0
      <4>1. N \in 1..N
        BY <1>1, <3>2
      <4> QED  BY <1>2, <1>3, <4>1
    <3> QED  BY <3>1, <3>2
  <2>3. \A k \in 1..(b - prev) : l[prev + k].term = entries[k].term
    <3>1. b - prev = N
      BY <1>1
    <3> QED  BY <1>2, <1>3, <3>1
  <2> WITNESS b \in prev..(prev + N)
  <2> HIDE DEF S, r
  <2> QED  BY <2>1, <2>2, <2>3 DEF r
<1>4. CASE S # {}
  <2> DEFINE k == Min(S)
             b == prev + k - 1
  <2>1. k \in S /\ k \in 1..N /\ \A j \in S : k <= j
    <3>1. S \subseteq 1..N /\ S \subseteq Nat
      BY <1>1 DEF Mismatches
    <3> HIDE DEF S
    <3> QED  BY <1>4, <3>1, MinOfNaturals
  <2>2. r = SubSeq(l, 1, b) \o EntriesFrom(entries, k)
    BY <1>4 DEF MergeEntries
  <2>3. EntriesFrom(entries, k) = SubSeq(entries, k, N)
    <3> HIDE DEF k, S
    <3>1. ~(k <= 0)
      BY <1>1, <2>1
    <3> QED  BY <3>1 DEF EntriesFrom
  <2>4. TermAt(l, prev + k) # entries[k].term
    BY <2>1 DEF Mismatches
  <2> HIDE DEF k, r, S
  <2>5. \A j \in 1..(k - 1) : prev + j <= Len(l) /\ l[prev + j].term = entries[j].term
    <3> SUFFICES ASSUME NEW j \in 1..(k - 1)
                 PROVE  j \in 1..N /\ j \notin S
      BY <1>2
    <3> QED  BY <1>1, <2>1
  <2>6. b \in prev..(prev + N) /\ b <= Len(l) /\ b < prev + N
    <3>1. CASE k = 1
      BY <1>1, <2>1, <3>1
    <3>2. CASE k # 1
      <4>1. k - 1 \in 1..(k - 1)
        BY <1>1, <2>1, <3>2
      <4> QED  BY <1>1, <2>1, <2>5, <4>1
    <3> QED  BY <3>1, <3>2
  <2>7. /\ SubSeq(l, 1, b) \in Seq(Entry) /\ Len(SubSeq(l, 1, b)) = b
        /\ \A i \in 1..b : SubSeq(l, 1, b)[i] = l[i]
    <3>1. \A i \in 1..b : l[i] \in Entry
      BY <1>1, <2>6, ElementOfSeq
    <3>2. b \in Int /\ b >= 0
      BY <1>1, <2>6
    <3> HIDE DEF b
    <3> QED  BY <1>1, <2>6, <3>1, <3>2, SubSeqProperties
  <2>8. /\ SubSeq(entries, k, N) \in Seq(Entry) /\ Len(SubSeq(entries, k, N)) = N - k + 1
        /\ \A i \in 1..(N - k + 1) : SubSeq(entries, k, N)[i] = entries[k + i - 1]
    <3>1. \A i \in k..N : entries[i] \in Entry
      BY <1>1, <2>1
    <3>2. k \in Int /\ k <= N
      BY <1>1, <2>1
    <3> HIDE DEF N
    <3> QED  BY <1>1, <3>1, <3>2, SubSeqProperties
  <2>9. Len(r) = prev + N
    <3>1. Len(r) = b + (N - k + 1)
      <4> HIDE DEF b, N
      <4> QED  BY <2>2, <2>3, <2>7, <2>8, ConcatProperties
    <3> QED  BY <1>1, <2>1, <3>1
  <2>10. \A i \in 1..b : r[i] = l[i]
    BY <1>1, <2>2, <2>3, <2>6, <2>7, <2>8, ConcatProperties
  <2>11. \A i \in (b + 1)..(prev + N) : r[i] = entries[i - prev]
    <3> SUFFICES ASSUME NEW i \in (b + 1)..(prev + N) PROVE r[i] = entries[i - prev]
      OBVIOUS
    <3>1. r[i] = SubSeq(entries, k, N)[i - b]
      <4>1. PICK s1, s2 : s1 = SubSeq(l, 1, b) /\ s2 = SubSeq(entries, k, N)
        OBVIOUS
      <4>2. /\ s1 \in Seq(Entry) /\ s2 \in Seq(Entry) /\ r = s1 \o s2
            /\ Len(s1) = b /\ Len(s2) = N - k + 1
        BY <2>2, <2>3, <2>7, <2>8, <4>1
      <4>3. i \in 1..(Len(s1) + Len(s2)) /\ ~(i <= Len(s1))
        BY <1>1, <2>1, <2>6, <4>2
      <4>4. (s1 \o s2)[i] = s2[i - Len(s1)]
        <5> HIDE DEF b, N, r
        <5> QED  BY <4>2, <4>3, ConcatProperties
      <4> QED  BY <4>1, <4>2, <4>4
    <3>2. i - b \in 1..(N - k + 1) /\ k + (i - b) - 1 = i - prev
      BY <1>1, <2>1, <2>6
    <3> QED  BY <2>8, <3>1, <3>2
  <2>12. b + 1 <= Len(l) => l[b + 1].term # entries[b + 1 - prev].term
    BY <1>1, <2>1, <2>4 DEF TermAt
  <2>13. \A j \in 1..(b - prev) : l[prev + j].term = entries[j].term
    BY <1>1, <2>1, <2>5
  <2> HIDE DEF b, N
  <2> QED  BY <2>6, <2>9, <2>10, <2>11, <2>12, <2>13 DEF r, N
<1> QED  BY <1>3, <1>4

\* handle_append_entries when it accepts: the recipient's log becomes that of
\* the request's term up to the last entry sent.
AcceptShape(m, b) ==
    LET n == m.dst
        last == m.prevIndex + Len(m.entries)
    IN  /\ log' = [log EXCEPT ![n] = log'[n]]
        /\ b <= Len(log[n]) /\ b <= last /\ last <= Len(log'[n])
        /\ \A j \in 1..last : Held(m.term, j, log'[n][j])
        /\ \/ log'[n] = log[n]
           \/ /\ b < last /\ Len(log'[n]) = last
              /\ \A i \in 1..b : log'[n][i] = log[n][i]
              /\ b + 1 <= Len(log[n]) => log[n][b + 1].term # log'[n][b + 1].term

LEMMA AcceptMerges ==
    ASSUME TypeOK, LogInv, NEW m \in msgs, AcceptAppend(m)
    PROVE  \E b \in Nat : AcceptShape(m, b)
<1>0. PICK n, l, prev, entries :
           n = m.dst /\ l = log[n] /\ prev = m.prevIndex /\ entries = m.entries
  OBVIOUS
<1> DEFINE N == Len(entries)
           last == prev + N
           r == MergeEntries(l, prev, entries)
<1>1. n \in Node /\ l \in Seq(Entry) /\ Len(l) \in Nat
  BY <1>0, MessageFields, LenProperties DEF TypeOK
<1>2. m \in AppendArgs /\ IsAppend(m)
  BY MessageFields DEF AcceptAppend, FollowLeader, TypeOK, IsAppend
<1>3. /\ prev \in Nat /\ entries \in Seq(Entry) /\ N \in Nat
      /\ \A k \in 1..N : Held(m.term, prev + k, entries[k])
  BY <1>0, <1>2, LenProperties DEF AppendArgs, LogInv, RequestsInherited, RequestInherited
<1>4. prev <= Len(l) /\ (prev > 0 => TermAt(l, prev) = m.prevTerm)
  <2>1. m.prevIndex > 0 => m.prevIndex \in 1..Len(log[m.dst]) /\ TermAt(log[m.dst], m.prevIndex) = m.prevTerm
    BY <1>0, <1>3 DEF AcceptAppend
  <2> QED  BY <1>0, <1>1, <1>3, <2>1
<1>5. log' = [log EXCEPT ![n] = r] /\ log'[n] = r
  BY <1>0, <1>1 DEF AcceptAppend, TypeOK
<1>6. PICK b \in prev..last :
             /\ b <= Len(l)
             /\ \A k \in 1..(b - prev) : l[prev + k].term = entries[k].term
             /\ \/ b = last /\ r = l
                \/ /\ b < last
                   /\ Len(r) = last
                   /\ \A i \in 1..b : r[i] = l[i]
                   /\ \A i \in (b + 1)..last : r[i] = entries[i - prev]
                   /\ b + 1 <= Len(l) => l[b + 1].term # entries[b + 1 - prev].term
  BY <1>1, <1>3, <1>4, MergeShape
<1>7. /\ b \in Nat /\ last \in Nat /\ prev <= b /\ b <= last /\ last = prev + N /\ b <= Len(l)
  BY <1>1, <1>3, <1>6
<1> HIDE DEF N, last, r
<1>8. \A j \in 1..b : Held(m.term, j, l[j])
  <2>1. CASE b = 0
    BY <2>1
  <2>2. CASE b > prev
    <3>1. b - prev \in 1..(b - prev) /\ b - prev \in 1..N /\ prev + (b - prev) = b
      BY ONLY <1>3, <1>7, <2>2
    <3>2. l[b].term = entries[b - prev].term /\ Held(m.term, b, entries[b - prev])
      BY <1>3, <1>6, <3>1
    <3>3. b \in 1..Len(log[n])
      BY <1>0, <1>1, <1>3, <1>7, <2>2
    <3> QED  BY <1>0, <1>1, <3>2, <3>3, LogsAgree
  <2>3. CASE b = prev /\ b > 0
    <3>1. b \in 1..Len(log[n]) /\ l[b].term = m.prevTerm /\ l[b].term \in Nat
      <4>1. b \in Int /\ b \in 1..Len(l) /\ prev > 0
        BY <1>1, <1>7, <2>3
      <4>2. TermAt(l, b) = l[b].term /\ l[b].term \in Nat
        BY <1>1, <4>1, TermAtType
      <4> QED  BY <1>0, <1>4, <2>3, <4>1, <4>2
    <3>2. PICK h \in led : h[1] = m.term /\ h[2] = prev /\ h[3].term = m.prevTerm
      <4>1. m.prevIndex > 0 /\ m.prevTerm # -1
        BY <1>0, <1>3, <2>3, <3>1
      <4>2. RequestInherited(m)
        BY <1>2 DEF LogInv, RequestsInherited
      <4> QED  BY <1>0, <4>1, <4>2 DEF RequestInherited
    <3>3. h = <<h[1], h[2], h[3]>>
      BY DEF LogInv, HistoryType
    <3>4. Held(m.term, b, h[3]) /\ h[3].term = log[n][b].term
      BY <1>0, <2>3, <3>1, <3>2, <3>3 DEF Held
    <3> QED  BY <1>0, <1>1, <3>1, <3>4, LogsAgree
  <2>4. b = 0 \/ b > prev \/ (b = prev /\ b > 0)
    BY ONLY <1>3, <1>7
  <2> QED  BY <2>1, <2>2, <2>3, <2>4
<1>9. \A j \in 1..last : Held(m.term, j, r[j])
  <2>1. CASE b = last /\ r = l
    BY <1>8, <2>1
  <2>2. CASE b < last /\ (\A i \in 1..b : r[i] = l[i])
               /\ (\A i \in (b + 1)..last : r[i] = entries[i - prev])
    <3> SUFFICES ASSUME NEW j \in 1..last PROVE Held(m.term, j, r[j])
      OBVIOUS
    <3>1. CASE j \in 1..b
      BY <1>8, <2>2, <3>1
    <3>2. CASE j \in (b + 1)..last
      <4>1. j - prev \in 1..N /\ prev + (j - prev) = j
        BY ONLY <1>3, <1>7, <3>2
      <4>2. Held(m.term, j, entries[j - prev])
        BY <1>3, <4>1
      <4> QED  BY <2>2, <3>2, <4>2
    <3>3. j \in 1..b \/ j \in (b + 1)..last
      BY ONLY <1>7, j \in 1..last
    <3> QED  BY <3>1, <3>2, <3>3
  <2> QED  BY <1>6, <2>1, <2>2
<1>10. AcceptShape(m, b)
  <2>1. CASE b = last /\ r = l
    <3>1. last <= Len(r)
      BY <1>7, <2>1
    <3> QED  BY <1>0, <1>5, <1>7, <1>9, <2>1, <3>1 DEF AcceptShape, last, N
  <2>2. CASE /\ b < last /\ Len(r) = last
             /\ \A i \in 1..b : r[i] = l[i]
             /\ \A i \in (b + 1)..last : r[i] = entries[i - prev]
             /\ b + 1 <= Len(l) => l[b + 1].term # entries[b + 1 - prev].term
    <3>1. b + 1 \in (b + 1)..last /\ last <= Len(r)
      BY <1>7, <2>2
    <3>2. b + 1 <= Len(l) => l[b + 1].term # r[b + 1].term
      <4>1. r[b + 1] = entries[b + 1 - prev]
        <5>1. \A i \in (b + 1)..last : r[i] = entries[i - prev]
          BY <2>2
        <5> QED  BY ONLY <1>3, <1>7, <3>1, <5>1
      <4> QED  BY <2>2, <4>1
    <3> QED  BY <1>0, <1>5, <1>7, <1>9, <2>2, <3>1, <3>2 DEF AcceptShape, last, N
  <2> QED  BY <1>6, <2>1, <2>2
<1> QED  BY <1>7, <1>10

\* An accepted request leaves alone what agrees with the log of its term.
LEMMA AcceptKeeps ==
    ASSUME TypeOK, LogInv, NEW m \in msgs, AcceptAppend(m),
           NEW i \in 1..Len(log[m.dst]), NEW e, Held(m.term, i, e),
           e.term = log[m.dst][i].term
    PROVE  i <= Len(log'[m.dst]) /\ \A j \in 1..i : log'[m.dst][j] = log[m.dst][j]
<1> DEFINE n == m.dst
           last == m.prevIndex + Len(m.entries)
<1>1. n \in Node /\ Len(log[n]) \in Nat
  BY MessageFields, LenProperties DEF TypeOK
<1>2. PICK b \in Nat : AcceptShape(m, b)
  BY AcceptMerges
<1>3. CASE log'[n] = log[n]
  BY <1>1, <1>3
<1>4. CASE /\ b < last /\ Len(log'[n]) = last
           /\ \A k \in 1..b : log'[n][k] = log[n][k]
           /\ b + 1 <= Len(log[n]) => log[n][b + 1].term # log'[n][b + 1].term
  <2>1. m \in AppendArgs
    BY MessageFields DEF AcceptAppend, FollowLeader, TypeOK
  <2>2. last \in Nat
    BY <2>1, LenProperties DEF AppendArgs
  <2>3. i <= b
    <3> SUFFICES ASSUME b + 1 <= i PROVE FALSE
      BY <1>1
    <3>1. b + 1 \in 1..i /\ b + 1 \in 1..last /\ b + 1 <= Len(log[n])
      BY <1>1, <1>4, <2>2
    <3>2. Held(m.term, b + 1, log[n][b + 1])
      BY <1>1, <3>1, LogsAgree
    <3>3. Held(m.term, b + 1, log'[n][b + 1])
      BY <1>2, <3>1 DEF AcceptShape
    <3>4. log'[n][b + 1] = log[n][b + 1]
      BY <3>2, <3>3, HeldFacts
    <3> QED  BY <1>4, <3>1, <3>4
  <2>4. i <= Len(log'[n])
    BY <1>1, <1>4, <2>2, <2>3
  <2>5. \A j \in 1..i : j \in 1..b
    BY <1>1, <2>3
  <2> QED  BY <1>4, <2>4, <2>5
<1> QED  BY <1>2, <1>3, <1>4 DEF AcceptShape

-----------------------------------------------------------------------------
(* Every step keeps LogInv.                                                *)

LEMMA LedGrows ==
    ASSUME RecordStep
    PROVE  /\ \A h \in led' : \/ h \in led
                              \/ \E n \in Node : \E i \in 1..Len(log'[n]) :
                                   /\ state'[n] = "LEADER"
                                   /\ h = <<currentTerm'[n], i, log'[n][i]>>
           /\ \A n \in Node : \A i \in 1..Len(log'[n]) :
                state'[n] = "LEADER" => <<currentTerm'[n], i, log'[n][i]>> \in led'
BY DEF RecordStep, LeaderEntries

\* Requests in flight stay pieces of the logs of their terms, and new ones
\* are.
LEMMA RequestsStayInherited ==
    ASSUME TypeOK, LogInv, TypeOK', RecordStep, RequestStep, elected \subseteq elected',
           LeadersElected'
    PROVE  RequestsInherited'
<1> SUFFICES ASSUME NEW m \in msgs', IsAppend(m)
             PROVE  RequestInherited(m)'
  BY DEF RequestsInherited, IsAppend
<1>1. CASE m \in msgs
  <2>1. RequestInherited(m)
    BY <1>1 DEF LogInv, RequestsInherited
  <2>2. led \subseteq led'
    BY DEF RecordStep
  <2> QED  BY <2>1, <2>2 DEF RequestInherited, Held
<1>2. CASE m \notin msgs
  <2> DEFINE n == m.src
             l == log'[n]
  <2>1. n \in Node /\ state'[n] = "LEADER"
    BY <1>2 DEF RequestStep
  <2>2. PICK next \in Nat \ {0} : m = AppendTo(n, m.dst, log'[n], next, currentTerm'[n])
    BY <1>2 DEF RequestStep
  <2>3. /\ m.term = currentTerm'[n] /\ m.prevIndex = next - 1
        /\ m.prevTerm = TermAt(l, next - 1) /\ m.entries = EntriesFrom(l, next)
    BY <2>2 DEF AppendTo
  <2>4. l \in Seq(Entry) /\ Len(l) \in Nat /\ \A i \in 1..Len(l) : l[i] \in Entry
    BY <2>1, LenProperties, ElementOfSeq DEF TypeOK
  <2>5. \A i \in 1..Len(l) : <<m.term, i, l[i]>> \in led'
    BY <2>1, <2>3, LedGrows
  <2>6. <<m.term, n>> \in elected'
    BY <2>1, <2>3 DEF LeadersElected
  <2>7. \A k \in 1..Len(m.entries) : <<m.term, m.prevIndex + k, m.entries[k]>> \in led'
    <3> SUFFICES ASSUME NEW k \in 1..Len(m.entries)
                 PROVE  <<m.term, m.prevIndex + k, m.entries[k]>> \in led'
      OBVIOUS
    <3> HIDE DEF l
    <3>1. m.entries = SubSeq(l, next, Len(l))
      <4>1. (IF next <= 0 THEN 1 ELSE next) = next
        OBVIOUS
      <4> QED  BY <2>3, <4>1, Zenon DEF EntriesFrom
    <3>2. Len(m.entries) = IF next <= Len(l) THEN Len(l) - next + 1 ELSE 0
      BY <2>4, <3>1, SubSeqProperties
    <3>3. next - 1 + k \in 1..Len(l) /\ k \in 1..(Len(l) - next + 1)
      BY <2>4, <3>2
    <3>4. m.entries[k] = l[next + k - 1] /\ next + k - 1 = next - 1 + k
      BY <2>4, <3>1, <3>3, SubSeqProperties
    <3> QED  BY <2>3, <2>5, <3>3, <3>4
  <2>8. ASSUME m.prevIndex > 0, m.prevTerm # -1
        PROVE  \E h \in led' : h[1] = m.term /\ h[2] = m.prevIndex /\ h[3].term = m.prevTerm
    <3>1. m.prevIndex \in 1..Len(l) /\ m.prevTerm = l[m.prevIndex].term
      BY <2>3, <2>4, <2>8 DEF TermAt
    <3>2. <<m.term, m.prevIndex, l[m.prevIndex]>> \in led'
      BY <2>5, <3>1
    <3> QED  BY <3>1, <3>2
  <2> QED  BY <2>6, <2>7, <2>8 DEF RequestInherited, Held
<1> QED  BY <1>1, <1>2

LEMMA HistoryTypeKept ==
    ASSUME LogInv, TypeOK', RecordStep
    PROVE  HistoryType'
<1>1. ASSUME NEW h \in led' PROVE h \in Nat \X (Nat \ {0}) \X Entry
  <2>1. CASE h \in led
    BY <2>1 DEF LogInv, HistoryType
  <2>2. ASSUME NEW n \in Node, NEW i \in 1..Len(log'[n]),
               h = <<currentTerm'[n], i, log'[n][i]>>
        PROVE  h \in Nat \X (Nat \ {0}) \X Entry
    <3>1. currentTerm'[n] \in Nat /\ log'[n] \in Seq(Entry) /\ Len(log'[n]) \in Nat
      BY LenProperties DEF TypeOK
    <3>2. log'[n][i] \in Entry
      BY <3>1, ElementOfSeq
    <3> QED  BY <2>2, <3>1, <3>2
  <2> QED  BY <2>1, <2>2, LedGrows
<1>2. ASSUME NEW a \in acks' PROVE a \in Node \X Nat \X Nat
  <2>1. CASE a \in acks
    BY <2>1 DEF LogInv, HistoryType
  <2>2. CASE a \in AcksInFlight'
    <3>1. PICK m \in msgs' : m.type = "AppendEntriesReply" /\ a = <<m.src, m.term, m.match>>
      BY <2>2 DEF AcksInFlight
    <3>2. m \in AppendReply
      BY <3>1, MessageFields DEF TypeOK
    <3> QED  BY <3>1, <3>2 DEF AppendReply
  <2> QED  BY <2>1, <2>2 DEF RecordStep
<1> QED  BY <1>1, <1>2 DEF HistoryType

LogPart ==
    /\ OneLogPerTerm /\ LedByElected /\ LedInherited /\ LogsInherited
    /\ ElectedKeepLog /\ LeadersElected

\* As long as no log grows, what is recorded of the leaders stays what it was.
LEMMA CalmLed ==
    ASSUME TypeOK, LogInv, RecordStep,
           \A n \in Node : state'[n] = "LEADER" =>
             /\ state[n] = "LEADER" /\ currentTerm'[n] = currentTerm[n]
             /\ log'[n] = log[n]
    PROVE  led' = led
<1>1. LeaderEntries \subseteq led
  BY LeaderEntriesLed DEF LogInv
<1>2. LeaderEntries' \subseteq LeaderEntries
  BY DEF LeaderEntries
<1> QED  BY <1>1, <1>2 DEF RecordStep

LEMMA CalmKeepsLog ==
    ASSUME TypeOK, LogInv, TypeOK', RoleStep, RecordStep, CalmStep
    PROVE  LogPart'
<1>1. led' = led
  BY CalmLed DEF CalmStep
<1>2. log' = log /\ elected' = elected
  BY DEF CalmStep
<1>3. /\ \A n \in Node : /\ currentTerm[n] \in Nat /\ currentTerm'[n] \in Nat
                         /\ currentTerm'[n] >= currentTerm[n]
      /\ \A e \in elected : e[1] \in Nat /\ e[2] \in Node
  BY DEF TypeOK, RoleStep
<1>4. OneLogPerTerm' /\ LedByElected' /\ LedInherited'
  BY <1>1, <1>2 DEF LogInv, OneLogPerTerm, LedByElected, LedInherited, Held
<1>5. LogsInherited'
  <2> SUFFICES ASSUME NEW n \in Node, NEW i \in 1..Len(log[n])
               PROVE  /\ log[n][i].term <= currentTerm'[n]
                      /\ \A j \in 1..i : <<log[n][i].term, j, log[n][j]>> \in led
    BY <1>1, <1>2 DEF LogsInherited, Held
  <2>1. log[n][i].term \in Nat
    BY EntriesTyped DEF TypeOK
  <2> QED  BY <1>3, <2>1 DEF LogInv, LogsInherited, Held
<1>6. ElectedKeepLog'
  <2> SUFFICES ASSUME NEW e \in elected
               PROVE  /\ currentTerm'[e[2]] >= e[1]
                      /\ currentTerm'[e[2]] = e[1] =>
                           /\ state'[e[2]] # "CANDIDATE"
                           /\ \A i \in 1..Len(log[e[2]]) : <<e[1], i, log[e[2]][i]>> \in led
                           /\ \A h \in led : h[1] = e[1] =>
                                h[2] <= Len(log[e[2]]) /\ h[3] = log[e[2]][h[2]]
    BY <1>1, <1>2 DEF ElectedKeepLog, Held
  <2>1. currentTerm[e[2]] >= e[1]
    BY DEF LogInv, ElectedKeepLog
  <2>2. ASSUME currentTerm'[e[2]] = e[1] PROVE currentTerm[e[2]] = e[1] /\ state'[e[2]] # "CANDIDATE"
    <3>1. currentTerm[e[2]] = e[1]
      BY <1>3, <2>1, <2>2
    <3>2. state[e[2]] # "CANDIDATE"
      BY <3>1 DEF LogInv, ElectedKeepLog
    <3> QED  BY <1>3, <2>2, <3>1, <3>2 DEF RoleStep
  <2> QED  BY <1>3, <2>1, <2>2 DEF LogInv, ElectedKeepLog, Held
<1>7. LeadersElected'
  BY <1>2 DEF LogInv, LeadersElected, CalmStep
<1> QED  BY <1>4, <1>5, <1>6, <1>7 DEF LogPart

LEMMA AcceptKeepsLog ==
    ASSUME ElectionInv, LogInv, TypeOK', RoleStep, RecordStep, NEW m \in msgs, AcceptAppend(m)
    PROVE  LogPart'
<1> DEFINE n == m.dst
           last == m.prevIndex + Len(m.entries)
<1> USE DEF ElectionInv
<1>1. n \in Node /\ m.src \in Node /\ m.src # n /\ m.term \in Nat /\ m \in AppendArgs /\ IsAppend(m)
  BY MessageFields DEF AcceptAppend, FollowLeader, TypeOK, IsAppend
<1>2. /\ currentTerm' = [currentTerm EXCEPT ![n] = m.term] /\ m.term >= currentTerm[n]
      /\ state' = [state EXCEPT ![n] = "FOLLOWER"] /\ elected' = elected
  BY DEF AcceptAppend, FollowLeader
<1>3. PICK b \in Nat : AcceptShape(m, b)
  BY AcceptMerges
<1>4. /\ \A p \in Node : p # n => /\ log'[p] = log[p] /\ state'[p] = state[p]
                                  /\ currentTerm'[p] = currentTerm[p]
      /\ currentTerm'[n] = m.term /\ state'[n] = "FOLLOWER"
  BY <1>1, <1>2, <1>3 DEF AcceptShape, TypeOK
<1>5. led' = led
  BY <1>4, CalmLed
<1>6. /\ \A p \in Node : currentTerm[p] \in Nat /\ Len(log[p]) \in Nat
      /\ \A e \in elected : e[1] \in Nat /\ e[2] \in Node
      /\ last \in Nat /\ Len(log'[n]) \in Nat
  <2>1. \A p \in Node : currentTerm[p] \in Nat /\ log[p] \in Seq(Entry)
    BY DEF TypeOK
  <2>2. log'[n] \in Seq(Entry) /\ \A e \in elected : e[1] \in Nat /\ e[2] \in Node
    BY <1>1 DEF TypeOK
  <2>3. m.prevIndex \in Nat /\ m.entries \in Seq(Entry)
    BY <1>1 DEF AppendArgs
  <2> QED  BY <2>1, <2>2, <2>3, LenProperties
<1>7. \A e \in elected : e[2] = n => e[1] # m.term
  <2>1. <<m.term, m.src>> \in elected
    BY <1>1 DEF LogInv, RequestsInherited, RequestInherited
  <2> QED  BY <1>1, <2>1 DEF ElectionSafety
<1>8. OneLogPerTerm' /\ LedByElected' /\ LedInherited'
  BY <1>2, <1>5 DEF LogInv, OneLogPerTerm, LedByElected, LedInherited, Held
<1>9. \A i \in 1..Len(log'[n]) : /\ log'[n][i].term <= m.term
                                 /\ \A j \in 1..i : Held(log'[n][i].term, j, log'[n][j])
  <2> SUFFICES ASSUME NEW i \in 1..Len(log'[n])
               PROVE  /\ log'[n][i].term <= m.term
                      /\ \A j \in 1..i : Held(log'[n][i].term, j, log'[n][j])
    OBVIOUS
  <2>1. CASE i <= last
    <3>1. \A j \in 1..i : Held(m.term, j, log'[n][j])
      BY <1>3, <1>6, <2>1 DEF AcceptShape
    <3>2. i \in 1..i
      BY <1>6
    <3> QED  BY <3>1, <3>2, HeldFacts
  <2>2. CASE i > last
    <3>1. log'[n] = log[n]
      BY <1>3, <1>6, <2>2 DEF AcceptShape
    <3>2. log[n][i].term \in Nat
      BY <1>1, <3>1, EntriesTyped DEF TypeOK
    <3>3. /\ log[n][i].term <= currentTerm[n]
          /\ \A j \in 1..i : Held(log[n][i].term, j, log[n][j])
      BY <1>1, <3>1 DEF LogInv, LogsInherited
    <3>4. log[n][i].term <= m.term
      BY <1>1, <1>2, <1>6, <3>2, <3>3
    <3> QED  BY <3>1, <3>3, <3>4
  <2> QED  BY <1>6, <2>1, <2>2
<1>10. LogsInherited'
  <2> SUFFICES ASSUME NEW p \in Node, NEW i \in 1..Len(log'[p])
               PROVE  /\ log'[p][i].term <= currentTerm'[p]
                      /\ \A j \in 1..i : <<log'[p][i].term, j, log'[p][j]>> \in led
    BY <1>5 DEF LogsInherited, Held
  <2>1. CASE p = n
    BY <1>4, <1>9, <2>1 DEF Held
  <2>2. CASE p # n
    BY <1>4, <2>2 DEF LogInv, LogsInherited, Held
  <2> QED  BY <2>1, <2>2
<1>11. ElectedKeepLog'
  <2> SUFFICES ASSUME NEW e \in elected
               PROVE  /\ currentTerm'[e[2]] >= e[1]
                      /\ currentTerm'[e[2]] = e[1] =>
                           /\ state'[e[2]] # "CANDIDATE"
                           /\ \A i \in 1..Len(log'[e[2]]) : <<e[1], i, log'[e[2]][i]>> \in led
                           /\ \A h \in led : h[1] = e[1] =>
                                h[2] <= Len(log'[e[2]]) /\ h[3] = log'[e[2]][h[2]]
    BY <1>2, <1>5 DEF ElectedKeepLog, Held
  <2>1. CASE e[2] = n
    <3>1. currentTerm[n] >= e[1]
      BY <2>1 DEF LogInv, ElectedKeepLog
    <3> QED  BY <1>1, <1>2, <1>4, <1>6, <1>7, <2>1, <3>1
  <2>2. CASE e[2] # n
    <3>1. /\ log'[e[2]] = log[e[2]] /\ state'[e[2]] = state[e[2]]
          /\ currentTerm'[e[2]] = currentTerm[e[2]]
      BY <1>4, <1>6, <2>2
    <3> QED  BY <3>1 DEF LogInv, ElectedKeepLog, Held
  <2> QED  BY <2>1, <2>2
<1>12. LeadersElected'
  BY <1>2, <1>4 DEF LogInv, LeadersElected
<1> QED  BY <1>8, <1>10, <1>11, <1>12 DEF LogPart

\* propose() and _append_entry: the index after the leader's last is new to
\* its term.
LEMMA ProposeLed ==
    ASSUME TypeOK, LogInv, RecordStep, NEW n \in Node, NEW c \in Command, LeaderAppends(n, c)
    PROVE  LET e == [term |-> currentTerm[n], command |-> c]
           IN  /\ UNCHANGED <<currentTerm, state, elected>> /\ state[n] = "LEADER"
               /\ log' = [log EXCEPT ![n] = Append(log[n], e)]
               /\ Len(log'[n]) = Len(log[n]) + 1 /\ log'[n][Len(log[n]) + 1] = e
               /\ \A i \in 1..Len(log[n]) : log'[n][i] = log[n][i]
               /\ led' = led \cup {<<currentTerm[n], Len(log[n]) + 1, e>>}
<1> DEFINE e == [term |-> currentTerm[n], command |-> c]
           N == Len(log[n])
<1>1. /\ UNCHANGED <<currentTerm, state, elected>> /\ state[n] = "LEADER"
      /\ log' = [log EXCEPT ![n] = Append(log[n], e)]
  BY DEF LeaderAppends
<1>2. log[n] \in Seq(Entry) /\ e \in Entry /\ N \in Nat
  BY LenProperties DEF TypeOK, Entry
<1>3. log'[n] = Append(log[n], e) /\ \A p \in Node : p # n => log'[p] = log[p]
  BY <1>1 DEF TypeOK
<1>4. /\ Len(log'[n]) = N + 1 /\ log'[n][N + 1] = e
      /\ \A i \in 1..N : log'[n][i] = log[n][i]
  BY <1>2, <1>3, AppendProperties
<1>5. led' \subseteq led \cup {<<currentTerm[n], N + 1, e>>}
  <2> SUFFICES ASSUME NEW p \in Node, NEW i \in 1..Len(log'[p]), state'[p] = "LEADER"
               PROVE  <<currentTerm'[p], i, log'[p][i]>> \in led \cup {<<currentTerm[n], N + 1, e>>}
    BY LedGrows
  <2>1. ASSUME i \in 1..Len(log[p]), log'[p][i] = log[p][i]
        PROVE  <<currentTerm'[p], i, log'[p][i]>> \in led
    BY <1>1, <2>1, LeaderEntriesLed DEF LogInv, LeaderEntries
  <2>2. CASE p = n /\ i = N + 1
    BY <1>1, <1>4, <2>2
  <2>3. CASE p = n /\ i # N + 1
    <3>1. i \in 1..N
      BY <1>2, <1>4, <2>3
    <3> QED  BY <1>4, <2>1, <2>3, <3>1
  <2>4. CASE p # n
    BY <1>3, <2>1, <2>4
  <2> QED  BY <2>2, <2>3, <2>4
<1>6. <<currentTerm[n], N + 1, e>> \in led'
  <2>1. N + 1 \in 1..Len(log'[n]) /\ state'[n] = "LEADER"
    BY <1>1, <1>2, <1>4
  <2>2. <<currentTerm'[n], N + 1, log'[n][N + 1]>> \in led'
    BY <2>1, LedGrows
  <2> QED  BY <1>1, <1>4, <2>2
<1>7. led \subseteq led'
  BY DEF RecordStep
<1> HIDE DEF e
<1>8. led' = led \cup {<<currentTerm[n], N + 1, e>>}
  BY <1>5, <1>6, <1>7
<1> QED  BY <1>1, <1>4, <1>8 DEF e

LEMMA ProposeKeepsLog ==
    ASSUME ElectionInv, LogInv, TypeOK', RoleStep, RecordStep,
           NEW n \in Node, NEW c \in Command, LeaderAppends(n, c)
    PROVE  LogPart'
<1> DEFINE t == currentTerm[n]
           e == [term |-> t, command |-> c]
           N == Len(log[n])
<1> USE DEF ElectionInv
<1>1. /\ UNCHANGED <<currentTerm, state, elected>> /\ state[n] = "LEADER"
      /\ log' = [log EXCEPT ![n] = Append(log[n], e)]
      /\ Len(log'[n]) = N + 1 /\ log'[n][N + 1] = e
      /\ \A i \in 1..N : log'[n][i] = log[n][i]
      /\ led' = led \cup {<<t, N + 1, e>>}
  BY ProposeLed
<1>2. /\ t \in Nat /\ N \in Nat /\ e.term = t
      /\ \A p \in Node : currentTerm[p] \in Nat
      /\ \A h \in led : h[1] \in Nat /\ h[2] \in Nat \ {0} /\ h = <<h[1], h[2], h[3]>>
      /\ \A f \in elected : f[1] \in Nat /\ f[2] \in Node
  <2>1. log[n] \in Seq(Entry) /\ \A p \in Node : currentTerm[p] \in Nat
    BY DEF TypeOK
  <2>2. \A f \in elected : f[1] \in Nat /\ f[2] \in Node
    BY DEF TypeOK
  <2>3. \A h \in led : h[1] \in Nat /\ h[2] \in Nat \ {0} /\ h = <<h[1], h[2], h[3]>>
    BY DEF LogInv, HistoryType
  <2> QED  BY <2>1, <2>2, <2>3, LenProperties
<1>3. PICK f \in elected : f = <<t, n>>
  BY <1>1 DEF LogInv, LeadersElected
<1>4. /\ \A i \in 1..N : <<t, i, log[n][i]>> \in led
      /\ \A h \in led : h[1] = t => h[2] <= N /\ h[3] = log[n][h[2]]
  <2>1. f[1] = t /\ f[2] = n
    BY <1>3
  <2> QED  BY <2>1 DEF LogInv, ElectedKeepLog, Held
<1>5. \A p \in Node : p # n => log'[p] = log[p]
  BY <1>1 DEF TypeOK
<1> DEFINE new == <<t, N + 1, e>>
<1>6. new[1] = t /\ new[2] = N + 1 /\ new[3] = e /\ led' = led \cup {new}
  BY <1>1
<1> HIDE DEF e, t, N, new
<1>7. OneLogPerTerm'
  <2>1. \A g, h \in led' : g[1] = h[1] /\ g[2] = h[2] => g[3] = h[3]
    <3>1. \A h \in led : ~(h[1] = t /\ h[2] = N + 1)
      BY <1>2, <1>4
    <3> QED  BY <1>6, <3>1 DEF LogInv, OneLogPerTerm
  <2>2. ASSUME NEW h \in led', NEW j \in 1..h[2]
        PROVE  \E g \in led' : g[1] = h[1] /\ g[2] = j
    <3>1. CASE h \in led
      BY <1>6, <2>2, <3>1 DEF LogInv, OneLogPerTerm
    <3>2. CASE h = new /\ j = N + 1
      BY <1>6, <3>2
    <3>3. CASE h = new /\ j # N + 1
      <4>1. j \in 1..N
        BY <1>2, <1>6, <3>3
      <4>2. <<t, j, log[n][j]>> \in led'
        BY <1>4, <1>6, <4>1
      <4> QED  BY <1>6, <3>3, <4>2
    <3> QED  BY <1>6, <3>1, <3>2, <3>3
  <2> QED  BY <2>1, <2>2 DEF OneLogPerTerm
<1>8. LedByElected'
  <2> SUFFICES ASSUME NEW h \in led'
               PROVE  h[3].term <= h[1] /\ \E p \in Node : <<h[1], p>> \in elected
    BY <1>1 DEF LedByElected
  <2>1. CASE h = new
    BY <1>2, <1>3, <1>6, <2>1
  <2>2. CASE h \in led
    BY <2>2 DEF LogInv, LedByElected
  <2> QED  BY <1>6, <2>1, <2>2
<1>9. LedInherited'
  <2> SUFFICES ASSUME NEW g \in led', NEW h \in led', g[1] = h[1], g[2] <= h[2]
               PROVE  <<h[3].term, g[2], g[3]>> \in led'
    BY DEF LedInherited, Held
  <2>1. CASE h = new
    <3>1. g = <<g[1], g[2], g[3]>>
      BY <1>2, <1>6 DEF new
    <3> QED  BY <1>2, <1>6, <2>1, <3>1
  <2>2. CASE h \in led
    <3>1. g # new
      BY <1>2, <1>4, <1>6, <2>2
    <3> QED  BY <1>6, <2>2, <3>1 DEF LogInv, LedInherited, Held
  <2> QED  BY <1>6, <2>1, <2>2
<1>10. LogsInherited'
  <2> SUFFICES ASSUME NEW p \in Node, NEW i \in 1..Len(log'[p])
               PROVE  /\ log'[p][i].term <= currentTerm[p]
                      /\ \A j \in 1..i : <<log'[p][i].term, j, log'[p][j]>> \in led'
    BY <1>1 DEF LogsInherited, Held
  <2>1. CASE p # n
    BY <1>5, <1>6, <2>1 DEF LogInv, LogsInherited, Held
  <2>2. CASE p = n /\ i # N + 1
    <3>1. i \in 1..N
      BY <1>1, <1>2, <2>2
    <3>2. \A j \in 1..i : j \in 1..N
      BY <1>2, <3>1
    <3> QED  BY <1>1, <1>6, <2>2, <3>1, <3>2 DEF LogInv, LogsInherited, Held, N
  <2>3. CASE p = n /\ i = N + 1
    <3>1. log'[p][i].term = t /\ t <= currentTerm[p]
      BY <1>1, <1>2, <2>3 DEF t
    <3>2. ASSUME NEW j \in 1..i PROVE <<t, j, log'[n][j]>> \in led'
      <4>1. CASE j \in 1..N
        BY <1>1, <1>4, <1>6, <4>1
      <4>2. CASE j = N + 1
        BY <1>1, <1>6, <4>2 DEF new
      <4> QED  BY <1>2, <2>3, <4>1, <4>2
    <3> QED  BY <2>3, <3>1, <3>2
  <2> QED  BY <2>1, <2>2, <2>3
<1>11. ElectedKeepLog'
  <2> SUFFICES ASSUME NEW k \in elected
               PROVE  /\ currentTerm[k[2]] >= k[1]
                      /\ currentTerm[k[2]] = k[1] =>
                           /\ state[k[2]] # "CANDIDATE"
                           /\ \A i \in 1..Len(log'[k[2]]) : <<k[1], i, log'[k[2]][i]>> \in led'
                           /\ \A h \in led' : h[1] = k[1] =>
                                h[2] <= Len(log'[k[2]]) /\ h[3] = log'[k[2]][h[2]]
    BY <1>1 DEF ElectedKeepLog, Held
  <2>1. CASE k[2] # n
    <3>1. k[1] # t
      BY <1>3, <2>1 DEF ElectionSafety
    <3>2. k[2] \in Node /\ log'[k[2]] = log[k[2]]
      BY <1>2, <1>5, <2>1
    <3>3. \A h \in led' : h[1] = k[1] => h \in led
      BY <1>6, <3>1
    <3> QED  BY <1>6, <3>2, <3>3 DEF LogInv, ElectedKeepLog, Held
  <2>2. CASE k[2] = n /\ k[1] # t
    BY <2>2 DEF LogInv, ElectedKeepLog, t
  <2>3. CASE k[2] = n /\ k[1] = t
    <3>1. \A i \in 1..Len(log'[n]) : <<t, i, log'[n][i]>> \in led'
      <4> SUFFICES ASSUME NEW i \in 1..Len(log'[n]) PROVE <<t, i, log'[n][i]>> \in led'
        OBVIOUS
      <4>1. CASE i \in 1..N
        BY <1>1, <1>4, <1>6, <4>1
      <4>2. CASE i = N + 1
        BY <1>1, <1>6, <4>2 DEF new
      <4>3. i \in 1..N \/ i = N + 1
        <5>1. Len(log'[n]) = N + 1 /\ N \in Nat
          BY <1>1, <1>2
        <5> HIDE DEF N
        <5> QED  BY <5>1
      <4> QED  BY <4>1, <4>2, <4>3
    <3>2. ASSUME NEW h \in led', h[1] = t
          PROVE  h[2] <= Len(log'[n]) /\ h[3] = log'[n][h[2]]
      <4>1. CASE h = new
        BY <1>1, <1>2, <1>6, <4>1
      <4>2. CASE h \in led
        <5>1. h[2] <= N /\ h[3] = log[n][h[2]] /\ h[2] \in 1..N
          BY <1>2, <1>4, <3>2, <4>2
        <5> QED  BY <1>1, <1>2, <5>1
      <4> QED  BY <1>6, <4>1, <4>2
    <3> QED  BY <1>1, <1>2, <2>3, <3>1, <3>2 DEF t
  <2> QED  BY <2>1, <2>2, <2>3
<1>12. LeadersElected'
  BY <1>1 DEF LogInv, LeadersElected
<1> QED  BY <1>7, <1>8, <1>9, <1>10, <1>11, <1>12 DEF LogPart

\* _become_leader: the term had no leader before, and the new leader's log
\* becomes the log of the term.
LEMMA WinLed ==
    ASSUME ElectionInv, LogInv, ElectionInv', RoleStep, RecordStep, NEW n \in Node, WinStep(n)
    PROVE  /\ \A h \in led : h[1] # currentTerm'[n]
           /\ \A e \in elected : e[1] # currentTerm'[n]
           /\ \A h \in led' : \/ h \in led
                              \/ \E i \in 1..Len(log[n]) : h = <<currentTerm'[n], i, log[n][i]>>
           /\ \A i \in 1..Len(log[n]) : <<currentTerm'[n], i, log[n][i]>> \in led'
<1> USE DEF ElectionInv
<1> DEFINE t == currentTerm'[n]
<1>1. t \in Nat /\ currentTerm[n] \in Nat /\ \A e \in elected : e[1] \in Nat /\ e[2] \in Node
  BY DEF TypeOK
<1>2. /\ log' = log /\ state'[n] = "LEADER" /\ elected' = elected \cup {<<t, n>>}
      /\ t > currentTerm[n] \/ state[n] = "CANDIDATE"
      /\ \A p \in Node : p # n => state'[p] = state[p] /\ currentTerm'[p] = currentTerm[p]
  BY DEF WinStep
<1>3. ASSUME NEW e \in elected, e[1] = t PROVE FALSE
  <2>1. e[2] = n
    <3>1. PICK f \in elected' : f = <<t, n>>
      BY <1>2
    <3>2. e \in elected' /\ f[1] = t /\ f[2] = n
      BY <1>2, <3>1
    <3> QED  BY <1>3, <3>2 DEF ElectionSafety
  <2>2. currentTerm[n] >= t /\ t >= currentTerm[n]
    BY <1>3, <2>1 DEF LogInv, ElectedKeepLog, RoleStep
  <2>3. currentTerm[n] = t
    BY <1>1, <2>2
  <2>4. state[n] # "CANDIDATE"
    BY <1>3, <2>1, <2>3 DEF LogInv, ElectedKeepLog
  <2> QED  BY <1>1, <1>2, <2>3, <2>4
<1>4. ASSUME NEW h \in led, h[1] = t PROVE FALSE
  <2>1. PICK p \in Node : <<t, p>> \in elected
    BY <1>4 DEF LogInv, LedByElected
  <2>2. PICK e \in elected : e = <<t, p>>
    BY <2>1
  <2> QED  BY <1>3, <2>2
<1>5. \A h \in led' : h \in led \/ \E i \in 1..Len(log[n]) : h = <<t, i, log[n][i]>>
  <2> SUFFICES ASSUME NEW p \in Node, p # n, NEW i \in 1..Len(log[p]), state[p] = "LEADER"
               PROVE  <<currentTerm[p], i, log[p][i]>> \in led
    BY <1>2, LedGrows
  <2> QED  BY LeaderEntriesLed DEF LogInv, LeaderEntries
<1>6. \A i \in 1..Len(log[n]) : <<t, i, log[n][i]>> \in led'
  BY <1>2, LedGrows
<1> QED  BY <1>3, <1>4, <1>5, <1>6

LEMMA WinKeepsLog ==
    ASSUME ElectionInv, LogInv, ElectionInv', RoleStep, RecordStep, NEW n \in Node, WinStep(n)
    PROVE  LogPart'
<1> USE DEF ElectionInv
<1> DEFINE t == currentTerm'[n]
           l == log[n]
<1>1. /\ \A h \in led : h[1] # t
      /\ \A e \in elected : e[1] # t
      /\ \A h \in led' : h \in led \/ \E i \in 1..Len(l) : h = <<t, i, l[i]>>
      /\ \A i \in 1..Len(l) : <<t, i, l[i]>> \in led'
      /\ led \subseteq led'
  BY WinLed DEF RecordStep
<1>2. /\ log' = log /\ state'[n] = "LEADER" /\ elected' = elected \cup {<<t, n>>}
      /\ \A p \in Node : p # n => state'[p] = state[p] /\ currentTerm'[p] = currentTerm[p]
  BY DEF WinStep
<1>3. /\ t \in Nat /\ Len(l) \in Nat /\ \A i \in 1..Len(l) : l[i].term \in Nat
      /\ \A p \in Node : currentTerm[p] \in Nat /\ currentTerm'[p] \in Nat
                           /\ currentTerm'[p] >= currentTerm[p]
      /\ \A e \in elected : e[1] \in Nat /\ e[2] \in Node
      /\ \A h \in led : h[2] \in Nat \ {0}
  <2>1. l \in Seq(Entry) /\ \A p \in Node : currentTerm[p] \in Nat /\ currentTerm'[p] \in Nat
    BY DEF TypeOK
  <2>2. \A e \in elected : e[1] \in Nat /\ e[2] \in Node
    BY DEF TypeOK
  <2>3. \A h \in led : h[2] \in Nat \ {0}
    BY DEF LogInv, HistoryType
  <2>4. \A p \in Node : currentTerm'[p] >= currentTerm[p]
    BY DEF RoleStep
  <2> HIDE DEF l
  <2> QED  BY <2>1, <2>2, <2>3, <2>4, EntriesTyped
<1>4. \A i \in 1..Len(l) : /\ l[i].term <= currentTerm[n]
                           /\ \A j \in 1..i : <<l[i].term, j, l[j]>> \in led
  BY DEF LogInv, LogsInherited, Held
<1>5. \A h \in led' : \/ h \in led
                      \/ h[1] = t /\ h[2] \in 1..Len(l) /\ h[3] = l[h[2]]
  BY <1>1
<1> HIDE DEF t, l
<1>6. OneLogPerTerm'
  <2>1. \A g, h \in led' : g[1] = h[1] /\ g[2] = h[2] => g[3] = h[3]
    BY <1>1, <1>5 DEF LogInv, OneLogPerTerm
  <2>2. ASSUME NEW h \in led', NEW j \in 1..h[2]
        PROVE  \E g \in led' : g[1] = h[1] /\ g[2] = j
    <3>1. CASE h \in led
      BY <1>1, <2>2, <3>1 DEF LogInv, OneLogPerTerm
    <3>2. CASE h[1] = t /\ h[2] \in 1..Len(l)
      <4>1. j \in 1..Len(l)
        BY <1>3, <3>2
      <4>2. <<t, j, l[j]>> \in led'
        BY <1>1, <4>1
      <4> QED  BY <3>2, <4>2
    <3> QED  BY <1>5, <3>1, <3>2
  <2> QED  BY <2>1, <2>2 DEF OneLogPerTerm
<1>7. LedByElected'
  <2> SUFFICES ASSUME NEW h \in led'
               PROVE  h[3].term <= h[1] /\ \E p \in Node : <<h[1], p>> \in elected'
    BY DEF LedByElected
  <2>1. CASE h \in led
    BY <1>2, <2>1 DEF LogInv, LedByElected
  <2>2. CASE h[1] = t /\ h[2] \in 1..Len(l) /\ h[3] = l[h[2]]
    <3>1. l[h[2]].term <= currentTerm[n] /\ currentTerm[n] <= t /\ l[h[2]].term \in Nat
      BY <1>3, <1>4, <2>2 DEF t
    <3> QED  BY <1>2, <1>3, <2>2, <3>1
  <2> QED  BY <1>5, <2>1, <2>2
<1>8. LedInherited'
  <2> SUFFICES ASSUME NEW g \in led', NEW h \in led', g[1] = h[1], g[2] <= h[2]
               PROVE  <<h[3].term, g[2], g[3]>> \in led'
    BY DEF LedInherited, Held
  <2>1. CASE h \in led
    <3>1. g \in led
      BY <1>1, <1>5, <2>1
    <3> QED  BY <1>1, <2>1, <3>1 DEF LogInv, LedInherited, Held
  <2>2. CASE h \notin led
    <3>1. /\ h[1] = t /\ h[2] \in 1..Len(l) /\ h[3] = l[h[2]]
          /\ g[2] \in 1..Len(l) /\ g[3] = l[g[2]]
      BY <1>1, <1>5, <2>2
    <3>2. g[2] \in 1..h[2]
      BY <1>3, <3>1
    <3> QED  BY <1>1, <1>4, <3>1, <3>2
  <2> QED  BY <2>1, <2>2
<1>9. LogsInherited'
  <2> SUFFICES ASSUME NEW p \in Node, NEW i \in 1..Len(log[p])
               PROVE  /\ log[p][i].term <= currentTerm'[p]
                      /\ \A j \in 1..i : <<log[p][i].term, j, log[p][j]>> \in led'
    BY <1>2 DEF LogsInherited, Held
  <2>1. log[p][i].term \in Nat
    BY EntriesTyped DEF TypeOK
  <2> QED  BY <1>1, <1>3, <2>1 DEF LogInv, LogsInherited, Held
<1>10. ElectedKeepLog'
  <2> SUFFICES ASSUME NEW k \in elected'
               PROVE  /\ currentTerm'[k[2]] >= k[1]
                      /\ currentTerm'[k[2]] = k[1] =>
                           /\ state'[k[2]] # "CANDIDATE"
                           /\ \A i \in 1..Len(log[k[2]]) : <<k[1], i, log[k[2]][i]>> \in led'
                           /\ \A h \in led' : h[1] = k[1] =>
                                h[2] <= Len(log[k[2]]) /\ h[3] = log[k[2]][h[2]]
    BY <1>2 DEF ElectedKeepLog, Held
  <2>1. CASE k = <<t, n>>
    <3>1. k[1] = t /\ k[2] = n
      BY <2>1
    <3>2. ASSUME NEW h \in led', h[1] = t
          PROVE  h[2] <= Len(l) /\ h[3] = l[h[2]]
      BY <1>1, <1>3, <1>5, <3>2
    <3> QED  BY <1>1, <1>2, <1>3, <3>1, <3>2 DEF t, l
  <2>2. CASE k \in elected
    <3>1. currentTerm[k[2]] >= k[1] /\ currentTerm'[k[2]] >= k[1]
      <4>1. currentTerm[k[2]] >= k[1]
        BY <2>2 DEF LogInv, ElectedKeepLog
      <4> QED  BY <1>3, <2>2, <4>1
    <3>2. ASSUME currentTerm'[k[2]] = k[1]
          PROVE  k[2] # n /\ currentTerm[k[2]] = k[1]
      <4>1. k[2] # n
        BY <1>1, <2>2, <3>2 DEF t
      <4> QED  BY <1>2, <1>3, <2>2, <3>2, <4>1
    <3>3. \A h \in led' : h[1] = k[1] => h \in led
      BY <1>1, <1>5, <2>2
    <3> QED  BY <1>1, <1>2, <1>3, <2>2, <3>1, <3>2, <3>3 DEF LogInv, ElectedKeepLog, Held
  <2> QED  BY <1>2, <2>1, <2>2
<1>11. LeadersElected'
  BY <1>2 DEF LogInv, LeadersElected, t
<1> QED  BY <1>6, <1>7, <1>8, <1>9, <1>10, <1>11 DEF LogPart

LEMMA InitLog == HistoryInit => LogInv
<1> SUFFICES ASSUME HistoryInit PROVE LogInv
  OBVIOUS
<1>1. led = {} /\ acks = {} /\ elected = {} /\ msgs = {}
  BY DEF HistoryInit, Init
<1>2. \A n \in Node : Len(log[n]) = 0 /\ state[n] = "FOLLOWER"
  BY DEF HistoryInit, Init
<1>3. \A n \in Node : 1..Len(log[n]) = {}
  BY <1>2
<1> QED  BY <1>1, <1>2, <1>3 DEF LogInv, HistoryType, OneLogPerTerm, LedByElected, LedInherited,
         LogsInherited, ElectedKeepLog, LeadersElected, RequestsInherited

LEMMA StepKeepsLogInv ==
    ASSUME ElectionInv, LogInv, ElectionInv', RecordStep, RoleStep, LogStep, RequestStep
    PROVE  LogInv'
<1>1. TypeOK /\ TypeOK'
  BY DEF ElectionInv
<1>2. LogPart' /\ elected \subseteq elected'
  <2>1. CASE CalmStep
    BY <1>1, <2>1, CalmKeepsLog DEF CalmStep
  <2>2. ASSUME NEW n \in Node, WinStep(n) PROVE LogPart' /\ elected \subseteq elected'
    BY <1>1, <2>2, WinKeepsLog DEF WinStep
  <2>3. ASSUME NEW n \in Node, NEW c \in Command, LeaderAppends(n, c)
        PROVE  LogPart' /\ elected \subseteq elected'
    BY <1>1, <2>3, ProposeKeepsLog DEF LeaderAppends
  <2>4. ASSUME NEW m \in msgs, AcceptAppend(m) PROVE LogPart' /\ elected \subseteq elected'
    BY <1>1, <2>4, AcceptKeepsLog DEF AcceptAppend, FollowLeader
  <2> QED  BY <2>1, <2>2, <2>3, <2>4 DEF LogStep
<1>3. RequestsInherited'
  BY <1>1, <1>2, RequestsStayInherited DEF LogPart
<1>4. HistoryType'
  BY <1>1, HistoryTypeKept
<1> QED  BY <1>2, <1>3, <1>4 DEF LogInv, LogPart

LEMMA NextLog ==
    ASSUME ElectionInv, LogInv, HistoryStep
    PROVE  ElectionInv' /\ LogInv'
<1>1. TypeOK
  BY DEF ElectionInv
<1>2. RecordStep /\ [Next]_vars
  BY <1>1, HistoryRecords
<1>3. ElectionInv'
  BY <1>2, NextElection
<1>4. RoleStep /\ LogStep /\ RequestStep
  BY <1>1, <1>2, NextShape
<1> QED  BY <1>2, <1>3, <1>4, StepKeepsLogInv

-----------------------------------------------------------------------------
(* Log matching.                                                           *)

LEMMA EqualPrefixes ==
    ASSUME NEW k \in Seq(Entry), NEW l \in Seq(Entry), NEW i \in Nat,
           i <= Len(k), i <= Len(l), \A j \in 1..i : k[j] = l[j]
    PROVE  SubSeq(k, 1, i) = SubSeq(l, 1, i)
<1>1. \A j \in 1..i : k[j] \in Entry /\ l[j] \in Entry
  BY EntriesTyped
<1>2. SubSeq(k, 1, i) \in Seq(Entry) /\ SubSeq(l, 1, i) \in Seq(Entry)
  BY <1>1, SubSeqProperties
<1>3. Len(SubSeq(k, 1, i)) = i /\ Len(SubSeq(l, 1, i)) = i
  BY <1>1, SubSeqProperties
<1>4. \A j \in 1..i : SubSeq(k, 1, i)[j] = k[j] /\ SubSeq(l, 1, i)[j] = l[j]
  BY <1>1, SubSeqProperties
<1> QED  BY <1>2, <1>3, <1>4, SeqEqual

LEMMA LogsMatch ==
    ASSUME TypeOK, LogInv
    PROVE  LogMatching
<1> SUFFICES ASSUME NEW a \in Node, NEW b \in Node,
                    NEW i \in 1..Min({Len(log[a]), Len(log[b])}),
                    log[a][i].term = log[b][i].term
             PROVE  SubSeq(log[a], 1, i) = SubSeq(log[b], 1, i)
  BY DEF LogMatching
<1>1. /\ log[a] \in Seq(Entry) /\ log[b] \in Seq(Entry)
      /\ Len(log[a]) \in Nat /\ Len(log[b]) \in Nat
  BY LenProperties DEF TypeOK
<1>2. i \in Nat /\ i \in 1..Len(log[a]) /\ i \in 1..Len(log[b])
  <2> DEFINE S == {Len(log[a]), Len(log[b])}
  <2>1. S \subseteq Nat /\ S # {} /\ Len(log[a]) \in S /\ Len(log[b]) \in S
    BY <1>1
  <2>2. Min(S) \in Nat /\ Min(S) <= Len(log[a]) /\ Min(S) <= Len(log[b])
    <3> HIDE DEF S
    <3> QED  BY <2>1, MinOfNaturals
  <2>3. i \in 1..Min(S)
    OBVIOUS
  <2> HIDE DEF S
  <2> QED  BY <1>1, <2>2, <2>3
<1>3. ASSUME NEW j \in 1..i PROVE log[a][j] = log[b][j]
  <2> DEFINE t == log[a][i].term
  <2>1. Held(t, j, log[a][j]) /\ Held(t, j, log[b][j])
    BY <1>2 DEF LogInv, LogsInherited
  <2> HIDE DEF t
  <2> QED  BY <2>1, HeldFacts
<1> QED  BY <1>1, <1>2, <1>3, EqualPrefixes

LEMMA LogInvariant == HistorySpec => [](ElectionInv /\ LogInv)
<1>1. HistoryInit => ElectionInv /\ LogInv
  BY InitElection, InitLog DEF HistoryInit
<1>2. (ElectionInv /\ LogInv) /\ HistoryStep => (ElectionInv /\ LogInv)'
  BY NextLog
<1> QED  BY <1>1, <1>2, PTL DEF HistorySpec, HistoryInit, HistoryKept, HistoryStep, Spec

\* Two logs that agree on an entry's term agree on everything before it, for
\* every cluster, log length and order of requests: handle_append_entries'
\* check at prev_log_index and its truncation do what they are for.
THEOREM LogsAlwaysMatch == HistorySpec => []LogMatching
<1>1. ElectionInv /\ LogInv => LogMatching
  BY LogsMatch DEF ElectionInv
<1> QED  BY <1>1, LogInvariant, PTL
=============================================================================
