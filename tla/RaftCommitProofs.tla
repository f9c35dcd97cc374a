-------------------------- MODULE RaftCommitProofs --------------------------
(***************************************************************************)
(* Committed entries are safe: leader completeness, state machine safety,  *)
(* sound match indexes, and no committed entry is ever truncated, for      *)
(* every cluster and every schedule of messages, losses and restarts.  The *)
(* inductive invariant is CommitInv of RaftHistory: whatever may still be  *)
(* chosen in a term is in the logs of all later leaders.                   *)
(***************************************************************************)
EXTENDS RaftLogProofs

-----------------------------------------------------------------------------
(* What the steps of Raft do to acknowledgements, votes and commits.       *)

IsAck(m) == m.type = "AppendEntriesReply" /\ m.success
IsVoteRequest(m) == m.type = "RequestVoteArgs"

\* Only an accepted request is acknowledged, up to the last entry sent.
AckStep ==
    \A r \in msgs' \ msgs : IsAck(r) => \E m \in msgs :
        /\ AcceptAppend(m) /\ r.src = m.dst /\ r.term = m.term
        /\ r.match = m.prevIndex + Len(m.entries)

\* A candidate asks for votes with its last index and term.
VoteRequestStep ==
    \A r \in msgs' \ msgs : IsVoteRequest(r) =>
        /\ r.src \in Node /\ r.term = currentTerm'[r.src]
        /\ r.lastIndex = Len(log[r.src]) /\ r.lastTerm = LastTerm(log[r.src])

\* A vote goes to a candidate whose log is at least as recent.
GrantStep ==
    \A r \in msgs' \ msgs : IsGrant(r) => \E m \in msgs :
        /\ IsVoteRequest(m) /\ r.src = m.dst /\ r.dst = m.src /\ r.term = m.term
        /\ LogUpToDate(log[m.dst], m.lastIndex, m.lastTerm)
        /\ currentTerm'[m.src] = currentTerm[m.src] /\ state'[m.src] = state[m.src]

\* v's vote counts for c: granted before, or c's own in a new election.
Supports(v, c) ==
    \/ state[c] = "CANDIDATE" /\ currentTerm'[c] = currentTerm[c] /\ VotedFor(v, c)
    \/ currentTerm'[c] > currentTerm[c] /\ v = c

TallyStep ==
    \A c \in Node : state'[c] = "CANDIDATE" => \A v \in votesReceived'[c] : Supports(v, c)

\* A new leader has a majority of such votes.
WinVotes ==
    \A n \in Node : <<currentTerm'[n], n>> \in elected' \ elected =>
        \E Q \in Quorum : \A v \in Q : Supports(v, n)

\* A leader's match index comes from an acknowledgement in its term.
MatchStep ==
    \A l \in Node : \A p \in Peers(l) : state'[l] = "LEADER" /\ matchIndex'[l][p] > 0 =>
        /\ state[l] = "LEADER" /\ currentTerm'[l] = currentTerm[l]
        /\ \/ matchIndex'[l][p] = matchIndex[l][p]
           \/ \E m \in msgs : /\ IsAck(m) /\ m.src = p /\ m.dst = l
                              /\ m.term = currentTerm[l] /\ m.match = matchIndex'[l][p]

CommitStep ==
    \A n \in Node :
        \/ commitIndex'[n] \in {commitIndex[n], 0}
        \/ \E m \in msgs : m.dst = n /\ (AcceptAppend(m) \/ ReceiveAppendSuccess(m))

CommitShape ==
    /\ AckStep /\ VoteRequestStep /\ GrantStep /\ TallyStep /\ WinVotes
    /\ MatchStep /\ CommitStep

\* Nothing is sent that matters to a vote or a commit.
SilentStep == \A r \in msgs' \ msgs : ~IsAck(r) /\ ~IsVoteRequest(r) /\ ~IsGrant(r)

\* Whoever does not step down goes on as before.
SteadyRoles ==
    /\ elected' = elected
    /\ \A n \in Node : state'[n] # "FOLLOWER" =>
         /\ state'[n] = state[n] /\ currentTerm'[n] = currentTerm[n]
         /\ votesReceived'[n] = votesReceived[n] /\ matchIndex'[n] = matchIndex[n]

NoCommit == \A n \in Node : commitIndex'[n] \in {commitIndex[n], 0}

LEMMA SilentShape ==
    ASSUME SilentStep
    PROVE  AckStep /\ VoteRequestStep /\ GrantStep
BY DEF SilentStep, AckStep, VoteRequestStep, GrantStep

LEMMA SteadyShape ==
    ASSUME SteadyRoles
    PROVE  TallyStep /\ WinVotes /\ MatchStep
<1>1. TallyStep
  BY DEF SteadyRoles, TallyStep, Supports, VotedFor
<1>2. WinVotes
  BY DEF SteadyRoles, WinVotes
<1>3. MatchStep
  BY DEF SteadyRoles, MatchStep
<1> QED  BY <1>1, <1>2, <1>3

LEMMA NoCommitShape ==
    ASSUME NoCommit
    PROVE  CommitStep
BY DEF NoCommit, CommitStep

LEMMA QuietShape ==
    ASSUME SilentStep, SteadyRoles, NoCommit
    PROVE  CommitShape
BY SilentShape, SteadyShape, NoCommitShape DEF CommitShape

\* _become_candidate; the requests S are the only messages sent.
LEMMA CandidateCommitShape ==
    ASSUME TypeOK, NEW n \in Node, BecomeCandidate(n), UNCHANGED <<matchIndex, commitIndex>>,
           AckStep, GrantStep, VoteRequestStep
    PROVE  CommitShape
<1>1. currentTerm[n] \in Nat
  BY DEF TypeOK
<1>2. /\ currentTerm'[n] = currentTerm[n] + 1 /\ currentTerm'[n] > currentTerm[n]
      /\ votesReceived'[n] = {n}
      /\ \A p \in Node : p # n => /\ state'[p] = state[p] /\ currentTerm'[p] = currentTerm[p]
                                  /\ votesReceived'[p] = votesReceived[p]
  BY <1>1 DEF BecomeCandidate, TypeOK
<1>3. TallyStep
  <2> SUFFICES ASSUME NEW c \in Node, state'[c] = "CANDIDATE", NEW v \in votesReceived'[c]
               PROVE  Supports(v, c)
    BY DEF TallyStep
  <2> QED  BY <1>2 DEF Supports, VotedFor
<1>4. WinVotes
  <2> SUFFICES ASSUME NEW c \in Node, <<currentTerm'[c], c>> \in elected' \ elected
               PROVE  \E Q \in Quorum : \A v \in Q : Supports(v, c)
    BY DEF WinVotes
  <2>1. Majority = 1 /\ c = n
    BY DEF BecomeCandidate
  <2>2. {n} \in Quorum
    BY <2>1, FS_Singleton DEF Quorum
  <2> QED  BY <1>2, <2>1, <2>2 DEF Supports
<1>5. MatchStep
  <2>1. CASE Majority = 1
    <3>1. Cardinality(Node) \in Nat /\ Cardinality(Node) # 0
      BY NodeAssumption, FS_CardinalityType, FS_EmptySet
    <3>2. Cardinality(Node) = 1
      BY <2>1, <3>1 DEF Majority
    <3>3. \A p \in Node : Peers(p) = {}
      BY <3>2, NodeAssumption, FS_Singleton DEF Peers
    <3> QED  BY <3>3 DEF MatchStep
  <2>2. CASE Majority # 1
    <3>1. state'[n] = "CANDIDATE"
      BY <2>2 DEF BecomeCandidate, TypeOK
    <3> QED  BY <1>2, <3>1 DEF MatchStep
  <2> QED  BY <2>1, <2>2
<1>6. CommitStep
  BY DEF CommitStep
<1> QED  BY <1>3, <1>4, <1>5, <1>6 DEF CommitShape

LEMMA TimerCommitShape ==
    ASSUME TypeOK, NEW n \in Node,
           \/ LeaderContactLapses(n) \/ ElectionTimeout(n) \/ HeartbeatTimeout(n)
           \/ Kill(n) \/ Revive(n) \/ \E c \in Command : Propose(n, c)
    PROVE  CommitShape
<1>1. CASE LeaderContactLapses(n) \/ Kill(n)
  <2>1. UNCHANGED <<currentTerm, state, votesReceived, matchIndex, commitIndex, elected, msgs>>
    BY <1>1 DEF LeaderContactLapses, Kill, storageVars, electionVars, commitVars, leaderVars
  <2> QED  BY <2>1, QuietShape DEF SilentStep, SteadyRoles, NoCommit
<1>2. CASE Revive(n)
  <2>1. SilentStep /\ NoCommit
    BY <1>2 DEF Revive, SilentStep, NoCommit, TypeOK
  <2>2. SteadyRoles
    BY <1>2 DEF Revive, SteadyRoles, storageVars, TypeOK
  <2> QED  BY <2>1, <2>2, QuietShape
<1>3. CASE HeartbeatTimeout(n)
  <2>1. UNCHANGED <<currentTerm, state, votesReceived, matchIndex, commitIndex, elected>>
    BY <1>3 DEF HeartbeatTimeout, storageVars, electionVars, commitVars, leaderVars
  <2>2. SilentStep
    BY <1>3 DEF HeartbeatTimeout, Send, Sent, AppendTo, SilentStep, IsAck, IsVoteRequest, IsGrant
  <2> QED  BY <2>1, <2>2, QuietShape DEF SteadyRoles, NoCommit
<1>4. ASSUME NEW c \in Command, Propose(n, c) PROVE CommitShape
  <2>1. UNCHANGED <<currentTerm, state, votesReceived, matchIndex, commitIndex, elected>>
    BY <1>4 DEF Propose, electionVars, commitVars, leaderVars
  <2>2. SilentStep
    BY <1>4 DEF Propose, Send, Sent, AppendTo, SilentStep, IsAck, IsVoteRequest, IsGrant
  <2> QED  BY <2>1, <2>2, QuietShape DEF SteadyRoles, NoCommit
<1>5. CASE ElectionTimeout(n)
  <2>1. SilentStep
    BY <1>5 DEF ElectionTimeout, Send, Sent, VoteRequests, SilentStep, IsAck, IsVoteRequest, IsGrant
  <2>2. UNCHANGED <<matchIndex, commitIndex>>
    BY <1>5 DEF ElectionTimeout, commitVars, leaderVars
  <2>3. CASE Majority = 1
    BY <1>5, <2>1, <2>2, <2>3, SilentShape, CandidateCommitShape DEF ElectionTimeout
  <2>4. CASE Majority # 1
    <3>1. /\ UNCHANGED <<currentTerm, votesReceived, elected>>
          /\ state' = [state EXCEPT ![n] = "FOLLOWER"]
      BY <1>5, <2>4 DEF ElectionTimeout, PreVoteRole, storageVars
    <3>2. SteadyRoles
      BY <2>2, <3>1 DEF SteadyRoles, TypeOK
    <3> QED  BY <2>1, <2>2, <3>2, QuietShape DEF NoCommit
  <2> QED  BY <2>3, <2>4
<1> QED  BY <1>1, <1>2, <1>3, <1>4, <1>5

LEMMA RequestCommitShape ==
    ASSUME TypeOK, NEW m \in msgs,
           \/ ReceivePreVote(m) \/ ReceiveRequestVote(m) \/ RejectStaleAppend(m)
           \/ RejectConflictingAppend(m) \/ AcceptAppend(m)
    PROVE  CommitShape
<1> DEFINE n == m.dst
<1>1. n \in Node /\ m.src \in Node /\ m.src # n /\ m.term \in Nat /\ currentTerm[n] \in Nat
  BY MessageFields DEF TypeOK
<1>2. CASE ReceivePreVote(m) \/ RejectStaleAppend(m)
  <2>1. UNCHANGED <<currentTerm, state, votesReceived, matchIndex, commitIndex, elected>>
    BY <1>2 DEF ReceivePreVote, RejectStaleAppend, storageVars, electionVars, commitVars, leaderVars
  <2>2. SilentStep
    BY <1>2 DEF ReceivePreVote, RejectStaleAppend, Consume, Sent, VoteReplyTo, AppendReplyTo,
       SilentStep, IsAck, IsVoteRequest, IsGrant
  <2> QED  BY <2>1, <2>2, QuietShape DEF SteadyRoles, NoCommit
<1>3. CASE RejectConflictingAppend(m) \/ AcceptAppend(m)
  <2>1. /\ currentTerm' = [currentTerm EXCEPT ![n] = m.term]
        /\ state' = [state EXCEPT ![n] = "FOLLOWER"]
        /\ votesReceived' = [votesReceived EXCEPT ![n] =
                               IF m.term > currentTerm[n] THEN {} ELSE @]
        /\ UNCHANGED <<elected, matchIndex>>
    BY <1>3 DEF RejectConflictingAppend, AcceptAppend, FollowLeader, leaderVars
  <2>2. SteadyRoles
    BY <1>1, <2>1 DEF SteadyRoles, TypeOK
  <2>3. CASE RejectConflictingAppend(m)
    <3>1. SilentStep
      <4>1. \E match, ci, ct : Consume(m, {AppendReplyTo(m, m.term, FALSE, match, ci, ct)})
        BY <2>3 DEF RejectConflictingAppend
      <4> QED  BY <4>1 DEF Consume, Sent, AppendReplyTo, SilentStep, IsAck, IsVoteRequest, IsGrant
    <3>2. NoCommit
      BY <2>3 DEF RejectConflictingAppend, NoCommit, commitVars
    <3> QED  BY <2>2, <3>1, <3>2, QuietShape
  <2>4. CASE AcceptAppend(m)
    <3> DEFINE l == MergeEntries(log[n], m.prevIndex, m.entries)
               reply == AppendReplyTo(m, m.term, TRUE, MatchAfter(l, m), 0, -1)
    <3>1. \A r \in msgs' \ msgs : r = reply
      <4>1. Consume(m, {reply})
        BY <2>4 DEF AcceptAppend
      <4> HIDE DEF reply
      <4> QED  BY <4>1 DEF Consume, Sent
    <3>2. /\ reply.type = "AppendEntriesReply" /\ reply.src = n /\ reply.term = m.term
          /\ reply.match = m.prevIndex + Len(m.entries)
      BY DEF AppendReplyTo, MatchAfter
    <3> HIDE DEF reply
    <3>3. AckStep /\ VoteRequestStep /\ GrantStep
      BY <2>4, <3>1, <3>2 DEF AckStep, VoteRequestStep, GrantStep, IsVoteRequest, IsGrant
    <3>4. CommitStep
      <4>1. commitIndex' = [commitIndex EXCEPT ![n] = commitIndex'[n]]
        BY <1>1, <2>4 DEF AcceptAppend, CommitUpTo, TypeOK
      <4> QED  BY <1>1, <2>4, <4>1 DEF CommitStep, TypeOK
    <3> QED  BY <2>2, <3>3, <3>4, SteadyShape DEF CommitShape
  <2> QED  BY <1>3, <2>3, <2>4
<1>4. CASE ReceiveRequestVote(m)
  <2> DEFINE newer == m.term > currentTerm[n]
             term == IF newer THEN m.term ELSE currentTerm[n]
             voted == IF newer THEN None ELSE votedFor[n]
             grant == GrantsVote(m, term, voted)
             reply == VoteReplyTo(m, "RequestVoteReply", term, grant)
  <2>1. /\ currentTerm' = [currentTerm EXCEPT ![n] = term]
        /\ state' = [state EXCEPT ![n] = IF newer THEN "FOLLOWER" ELSE @]
        /\ votesReceived' = [votesReceived EXCEPT ![n] = IF newer THEN {} ELSE @]
        /\ UNCHANGED <<elected, matchIndex, commitIndex>>
        /\ IsVoteRequest(m)
    BY <1>4 DEF ReceiveRequestVote, commitVars, leaderVars, IsVoteRequest
  <2>2. SteadyRoles
    BY <1>1, <2>1 DEF SteadyRoles, TypeOK
  <2>3. \A r \in msgs' \ msgs : r = reply
    BY <1>4 DEF ReceiveRequestVote, Consume, Sent
  <2>4. /\ reply.type = "RequestVoteReply" /\ reply.src = n /\ reply.dst = m.src
        /\ reply.term = term /\ reply.granted = grant
    <3> HIDE DEF grant
    <3> QED  BY DEF VoteReplyTo
  <2>5. grant => m.term = term /\ LogUpToDate(log[n], m.lastIndex, m.lastTerm)
    BY DEF GrantsVote
  <2>6. currentTerm'[m.src] = currentTerm[m.src] /\ state'[m.src] = state[m.src]
    BY <1>1, <2>1 DEF TypeOK
  <2> HIDE DEF reply, grant, term
  <2>7. AckStep /\ VoteRequestStep /\ GrantStep
    BY <2>1, <2>3, <2>4, <2>5, <2>6 DEF AckStep, VoteRequestStep, GrantStep, IsAck,
       IsVoteRequest, IsGrant
  <2>8. CommitStep
    BY <2>1 DEF CommitStep
  <2> QED  BY <2>2, <2>7, <2>8, SteadyShape DEF CommitShape
<1> QED  BY <1>2, <1>3, <1>4

LEMMA ReplyCommitShape ==
    ASSUME TypeOK, NEW m \in msgs,
           \/ ReceiveNewerTerm(m) \/ IgnoreReply(m) \/ ReceivePreVoteReply(m)
           \/ ReceiveAppendFailure(m) \/ ReceiveAppendSuccess(m)
    PROVE  CommitShape
<1> DEFINE n == m.dst
<1>1. n \in Node /\ m.src \in Node /\ m.src # n /\ m.term \in Nat /\ currentTerm[n] \in Nat
  BY MessageFields DEF TypeOK
<1>2. CASE IgnoreReply(m) \/ ReceiveAppendFailure(m)
  <2>1. UNCHANGED <<currentTerm, state, votesReceived, matchIndex, commitIndex, elected>>
    BY <1>2 DEF IgnoreReply, ReceiveAppendFailure, storageVars, electionVars, commitVars, leaderVars
  <2>2. SilentStep
    BY <1>2 DEF IgnoreReply, ReceiveAppendFailure, Consume, Sent, AppendTo,
       SilentStep, IsAck, IsVoteRequest, IsGrant
  <2> QED  BY <2>1, <2>2, QuietShape DEF SteadyRoles, NoCommit
<1>3. CASE ReceiveNewerTerm(m)
  <2>1. SilentStep /\ NoCommit
    BY <1>3 DEF ReceiveNewerTerm, Consume, Sent, SilentStep, NoCommit, commitVars
  <2>2. SteadyRoles
    BY <1>1, <1>3 DEF ReceiveNewerTerm, BecomeFollower, SteadyRoles, leaderVars, TypeOK
  <2> QED  BY <2>1, <2>2, QuietShape
<1>4. CASE ReceivePreVoteReply(m)
  <2>1. UNCHANGED <<matchIndex, commitIndex>>
    BY <1>4 DEF ReceivePreVoteReply, commitVars, leaderVars
  <2>2. CASE BecomeCandidate(n)
    <3>1. \A r \in msgs' \ msgs : r \in VoteRequests(n, "RequestVoteArgs", currentTerm[n] + 1)
      BY <1>4 DEF ReceivePreVoteReply, Consume, Sent
    <3>2. currentTerm'[n] = currentTerm[n] + 1
      BY <1>1, <2>2 DEF BecomeCandidate, TypeOK
    <3>3. AckStep /\ VoteRequestStep /\ GrantStep
      BY <1>1, <3>1, <3>2 DEF AckStep, VoteRequestStep, GrantStep, IsAck, IsVoteRequest,
         IsGrant, VoteRequests
    <3> QED  BY <1>1, <2>1, <2>2, <3>3, CandidateCommitShape
  <2>3. CASE ~BecomeCandidate(n)
    <3>1. /\ UNCHANGED <<currentTerm, votedFor, state, leaderId, votesReceived, elected>>
          /\ msgs' \subseteq msgs
      BY <1>4, <2>3 DEF ReceivePreVoteReply, Consume, Sent
    <3> QED  BY <2>1, <3>1, QuietShape DEF SilentStep, SteadyRoles, NoCommit
  <2> QED  BY <2>2, <2>3
<1>5. CASE ReceiveAppendSuccess(m)
  <2> DEFINE match == [matchIndex[n] EXCEPT ![m.src] = IF m.match > @ THEN m.match ELSE @]
  <2>1. /\ UNCHANGED <<currentTerm, state, votesReceived, elected>>
        /\ msgs' \subseteq msgs
        /\ matchIndex' = [matchIndex EXCEPT ![n] = match]
        /\ IsAck(m) /\ m.term = currentTerm[n]
    BY <1>5 DEF ReceiveAppendSuccess, AppendReplyCounts, Consume, Sent, storageVars,
       electionVars, IsAck
  <2>2. SilentStep
    BY <2>1 DEF SilentStep
  <2>3. TallyStep /\ WinVotes
    BY <2>1 DEF TallyStep, WinVotes, Supports, VotedFor
  <2>4. MatchStep
    <3> SUFFICES ASSUME NEW l \in Node, NEW p \in Peers(l), state'[l] = "LEADER"
                 PROVE  \/ matchIndex'[l][p] = matchIndex[l][p]
                        \/ l = n /\ p = m.src /\ m.match = matchIndex'[l][p]
      BY <2>1 DEF MatchStep
    <3>1. DOMAIN matchIndex = Node /\ matchIndex[n] \in [Peers(n) -> Nat] /\ m.src \in Peers(n)
      BY <1>1 DEF TypeOK, Peers
    <3> QED  BY <1>1, <2>1, <3>1
  <2>5. CommitStep
    <3>1. commitIndex' = [commitIndex EXCEPT ![n] = commitIndex'[n]]
      BY <1>1, <1>5 DEF ReceiveAppendSuccess, CommitUpTo, TypeOK
    <3> QED  BY <1>1, <1>5, <3>1 DEF CommitStep, TypeOK
  <2> QED  BY <2>2, <2>3, <2>4, <2>5, SilentShape DEF CommitShape
<1> QED  BY <1>2, <1>3, <1>4, <1>5

\* _handle_request_vote_reply: the votes counted are grants of this election.
LEMMA TallyCommitShape ==
    ASSUME TypeOK, NEW m \in msgs, ReceiveRequestVoteReply(m)
    PROVE  CommitShape
<1> DEFINE n == m.dst
           granted == votesReceived[n] \cup {m.src}
           won == Cardinality(granted) >= Majority
<1>1. n \in Node /\ m.src \in Node /\ m.src # n /\ m.term \in Nat /\ currentTerm[n] \in Nat
  BY MessageFields DEF TypeOK
<1>2. /\ UNCHANGED <<currentTerm, commitIndex>>
      /\ votesReceived' = [votesReceived EXCEPT ![n] = granted]
      /\ state[n] = "CANDIDATE" /\ m.term = currentTerm[n]
      /\ m.type = "RequestVoteReply" /\ m.granted
  BY DEF ReceiveRequestVoteReply, VoteCounts, storageVars, commitVars
<1>3. \A v \in granted : VotedFor(v, n)
  BY <1>2 DEF VotedFor
<1>4. /\ votesReceived'[n] = granted /\ granted \subseteq Node
      /\ \A p \in Node : p # n => votesReceived'[p] = votesReceived[p]
  <2>1. votesReceived \in [Node -> SUBSET Node]
    BY DEF TypeOK
  <2> QED  BY <1>1, <1>2, <2>1
<1>5. SilentStep
  BY DEF ReceiveRequestVoteReply, Consume, Sent, AppendTo, SilentStep, IsAck, IsVoteRequest, IsGrant
<1>6. \A p \in Node : p # n => state'[p] = state[p]
  <2>1. BecomeLeader(n) \/ UNCHANGED state
    BY DEF ReceiveRequestVoteReply
  <2>2. BecomeLeader(n) => state' = [state EXCEPT ![n] = "LEADER"]
    BY DEF BecomeLeader
  <2>3. state \in [Node -> NodeState]
    BY DEF TypeOK
  <2> QED  BY <1>1, <2>1, <2>2, <2>3
<1>7. TallyStep
  <2> SUFFICES ASSUME NEW c \in Node, state'[c] = "CANDIDATE", NEW v \in votesReceived'[c]
               PROVE  Supports(v, c)
    BY DEF TallyStep
  <2>1. CASE c = n
    BY <1>2, <1>3, <1>4, <2>1 DEF Supports
  <2>2. CASE c # n
    BY <1>2, <1>4, <1>6, <2>2 DEF Supports, VotedFor
  <2> QED  BY <2>1, <2>2
<1>8. WinVotes
  <2> SUFFICES ASSUME NEW c \in Node, <<currentTerm'[c], c>> \in elected' \ elected
               PROVE  \E Q \in Quorum : \A v \in Q : Supports(v, c)
    BY DEF WinVotes
  <2>1. c = n /\ won
    BY DEF ReceiveRequestVoteReply, BecomeLeader
  <2>2. granted \in Quorum
    BY <1>4, <2>1 DEF Quorum
  <2> QED  BY <1>2, <1>3, <2>1, <2>2 DEF Supports
<1>9. MatchStep
  <2> SUFFICES ASSUME NEW l \in Node, NEW p \in Peers(l), state'[l] = "LEADER",
                      matchIndex'[l][p] > 0
               PROVE  state[l] = "LEADER" /\ matchIndex'[l][p] = matchIndex[l][p]
    BY <1>2 DEF MatchStep
  <2>1. CASE won
    <3>1. matchIndex' = [matchIndex EXCEPT ![n] = [q \in Peers(n) |-> 0]]
      BY <2>1 DEF ReceiveRequestVoteReply, BecomeLeader
    <3>2. l # n
      BY <1>1, <3>1 DEF TypeOK
    <3> QED  BY <1>6, <3>1, <3>2 DEF TypeOK
  <2>2. CASE ~won
    BY <2>2 DEF ReceiveRequestVoteReply, leaderVars
  <2> QED  BY <2>1, <2>2
<1>10. CommitStep
  BY <1>2 DEF CommitStep
<1> QED  BY <1>5, <1>7, <1>8, <1>9, <1>10, SilentShape DEF CommitShape

LEMMA NextCommitShape ==
    ASSUME TypeOK, [Next]_vars
    PROVE  CommitShape
<1>1. CASE UNCHANGED vars
  <2>1. UNCHANGED <<currentTerm, state, votesReceived, matchIndex, commitIndex, elected, msgs>>
    BY <1>1 DEF vars
  <2> QED  BY <2>1, QuietShape DEF SilentStep, SteadyRoles, NoCommit
<1>2. ASSUME NEW m \in msgs, Receive(m) PROVE CommitShape
  BY <1>2, RequestCommitShape, ReplyCommitShape, TallyCommitShape DEF Receive
<1> QED  BY <1>1, <1>2, TimerCommitShape DEF Next, Step

-----------------------------------------------------------------------------
(* What a step does to the history.                                        *)

\* A step from a state in which the invariants hold.
InvStep ==
    /\ ElectionInv /\ LogInv /\ CommitInv /\ ElectionInv' /\ LogInv'
    /\ RoleStep /\ LogStep /\ RequestStep /\ CommitShape /\ RecordStep

LEMMA Typed ==
    ASSUME InvStep
    PROVE  /\ TypeOK /\ TypeOK' /\ led \subseteq led' /\ acks \subseteq acks'
           /\ \A n \in Node : /\ currentTerm[n] \in Nat /\ currentTerm'[n] \in Nat
                              /\ currentTerm'[n] >= currentTerm[n]
                              /\ log[n] \in Seq(Entry) /\ log'[n] \in Seq(Entry)
                              /\ Len(log[n]) \in Nat /\ Len(log'[n]) \in Nat
           /\ \A e \in elected : e[1] \in Nat /\ e[2] \in Node /\ e = <<e[1], e[2]>>
           /\ \A h \in led : h[1] \in Nat /\ h[2] \in Nat \ {0} /\ h[3] \in Entry
                               /\ h = <<h[1], h[2], h[3]>> /\ Held(h[1], h[2], h[3])
           /\ \A a \in acks : a[1] \in Node /\ a[2] \in Nat /\ a[3] \in Nat
                                /\ a = <<a[1], a[2], a[3]>>
<1>1. TypeOK /\ TypeOK' /\ led \subseteq led' /\ acks \subseteq acks'
  BY DEF InvStep, ElectionInv, RecordStep
<1>2. \A n \in Node : /\ currentTerm[n] \in Nat /\ currentTerm'[n] \in Nat
                      /\ log[n] \in Seq(Entry) /\ log'[n] \in Seq(Entry)
  BY <1>1 DEF TypeOK
<1>3. \A n \in Node : currentTerm'[n] >= currentTerm[n]
  BY DEF InvStep, RoleStep
<1>4. \A e \in elected : e[1] \in Nat /\ e[2] \in Node /\ e = <<e[1], e[2]>>
  BY <1>1 DEF TypeOK
<1>5. \A h \in led : h[1] \in Nat /\ h[2] \in Nat \ {0} /\ h[3] \in Entry /\ h = <<h[1], h[2], h[3]>>
  BY DEF InvStep, LogInv, HistoryType
<1>6. \A h \in led : Held(h[1], h[2], h[3])
  BY <1>5 DEF Held
<1>7. \A a \in acks : a[1] \in Node /\ a[2] \in Nat /\ a[3] \in Nat /\ a = <<a[1], a[2], a[3]>>
  BY DEF InvStep, LogInv, HistoryType
<1> QED  BY <1>1, <1>2, <1>3, <1>4, <1>5, <1>6, <1>7, LenProperties

LEMMA AcceptFacts ==
    ASSUME ElectionInv, LogInv, NEW m \in msgs, AcceptAppend(m)
    PROVE  /\ m.dst \in Node /\ m.src \in Node /\ m.term \in Nat /\ IsAppend(m)
           /\ m.prevIndex \in Nat /\ m.entries \in Seq(Entry) /\ Len(m.entries) \in Nat
           /\ m.commit \in Nat
           /\ currentTerm'[m.dst] = m.term /\ m.term >= currentTerm[m.dst]
           /\ state'[m.dst] = "FOLLOWER" /\ elected' = elected
           /\ <<m.term, m.src>> \in elected
           /\ \A p \in Node : p # m.dst => log'[p] = log[p]
<1>1. TypeOK
  BY DEF ElectionInv
<1>2. m.dst \in Node /\ m.src \in Node /\ m.term \in Nat /\ m \in AppendArgs /\ IsAppend(m)
  BY <1>1, MessageFields DEF AcceptAppend, FollowLeader, TypeOK, IsAppend
<1>3. m.prevIndex \in Nat /\ m.entries \in Seq(Entry) /\ m.commit \in Nat
  BY <1>2 DEF AppendArgs
<1>4. /\ currentTerm' = [currentTerm EXCEPT ![m.dst] = m.term] /\ m.term >= currentTerm[m.dst]
      /\ state' = [state EXCEPT ![m.dst] = "FOLLOWER"] /\ elected' = elected
  BY DEF AcceptAppend, FollowLeader
<1>5. <<m.term, m.src>> \in elected
  BY <1>2 DEF LogInv, RequestsInherited, RequestInherited
<1>6. \A p \in Node : p # m.dst => log'[p] = log[p]
  BY <1>1 DEF AcceptAppend, TypeOK
<1> QED  BY <1>1, <1>2, <1>3, <1>4, <1>5, <1>6, LenProperties DEF TypeOK

LEMMA AcksGrow ==
    ASSUME InvStep, NEW a \in acks', a \notin acks
    PROVE  \E m \in msgs : AcceptAppend(m) /\ a = <<m.dst, m.term, m.prevIndex + Len(m.entries)>>
<1>1. a \in AcksInFlight'
  BY DEF InvStep, RecordStep
<1>2. PICK r \in msgs' : IsAck(r) /\ a = <<r.src, r.term, r.match>>
  BY <1>1 DEF AcksInFlight, IsAck
<1>3. r \notin msgs
  BY <1>2 DEF InvStep, CommitInv, RecordsTrue, AcksInFlight, IsAck
<1>4. PICK m \in msgs : /\ AcceptAppend(m) /\ r.src = m.dst /\ r.term = m.term
                        /\ r.match = m.prevIndex + Len(m.entries)
  BY <1>2, <1>3 DEF InvStep, CommitShape, AckStep
<1> QED  BY <1>2, <1>4

LEMMA ElectedGrows ==
    ASSUME InvStep
    PROVE  /\ elected \subseteq elected'
           /\ \A e \in elected' : e \in elected \/ \E n \in Node : WinStep(n) /\ e = <<currentTerm'[n], n>>
BY DEF InvStep, LogStep, CalmStep, WinStep, LeaderAppends, AcceptAppend, FollowLeader

\* Nothing is acknowledged in a term that the node has left.
LEMMA AckedPast ==
    ASSUME InvStep, NEW v \in Node, NEW t \in Nat, NEW i, currentTerm'[v] > t, Acked(v, t, i)'
    PROVE  Acked(v, t, i)
<1>1. currentTerm'[v] # t
  BY Typed
<1>2. CASE <<t, v>> \in elected'
  <2>1. <<t, v>> \in elected
    BY <1>1, <1>2, ElectedGrows
  <2> QED  BY <2>1 DEF Acked
<1>3. ASSUME NEW a \in acks', a[1] = v, a[2] = t, a[3] >= i
      PROVE  Acked(v, t, i)
  <2>1. a \in acks
    <3> SUFFICES ASSUME a \notin acks PROVE FALSE
      OBVIOUS
    <3>1. PICK m \in msgs : AcceptAppend(m) /\ a = <<m.dst, m.term, m.prevIndex + Len(m.entries)>>
      BY AcksGrow
    <3>2. currentTerm'[m.dst] = m.term
      BY <3>1, AcceptFacts DEF InvStep
    <3> QED  BY <1>1, <1>3, <3>1, <3>2
  <2> QED  BY <1>3, <2>1 DEF Acked
<1> QED  BY <1>2, <1>3 DEF Acked

LEMMA AckedStays ==
    ASSUME InvStep, NEW v, NEW t, NEW i, Acked(v, t, i)
    PROVE  Acked(v, t, i)'
BY ElectedGrows, Typed DEF Acked

LEMMA ChosenStays ==
    ASSUME InvStep, NEW t, NEW i, Chosen(t, i)
    PROVE  Chosen(t, i)'
<1>1. PICK Q \in Quorum : \A v \in Q : Acked(v, t, i)
  BY DEF Chosen
<1>2. \A v \in Q : Acked(v, t, i)'
  BY <1>1, AckedStays
<1> QED  BY <1>2 DEF Chosen, Quorum

LEMMA UnchoosableStays ==
    ASSUME InvStep, NEW t \in Nat, NEW i, Unchoosable(t, i)
    PROVE  Unchoosable(t, i)'
<1>1. PICK Q \in Quorum : \A v \in Q : currentTerm[v] > t /\ ~Acked(v, t, i)
  BY DEF Unchoosable
<1>2. Q \subseteq Node
  BY DEF Quorum
<1>3. \A v \in Q : currentTerm'[v] > t
  BY <1>1, <1>2, Typed
<1>4. \A v \in Q : ~Acked(v, t, i)'
  BY <1>1, <1>2, <1>3, AckedPast
<1> QED  BY <1>3, <1>4 DEF Unchoosable, Quorum

\* What is chosen was not ruled out.
LEMMA ChosenNotRuledOut ==
    ASSUME NEW t, NEW i, Chosen(t, i)
    PROVE  ~Unchoosable(t, i)
<1> SUFFICES ASSUME Unchoosable(t, i) PROVE FALSE
  OBVIOUS
<1>1. PICK P \in Quorum : \A v \in P : Acked(v, t, i)
  BY DEF Chosen
<1>2. PICK Q \in Quorum : \A v \in Q : ~Acked(v, t, i)
  BY DEF Unchoosable
<1>3. \E v \in P : v \in Q
  BY MajoritiesIntersect DEF Quorum
<1> QED  BY <1>1, <1>2, <1>3

\* A leader's own entries are those it proposes.
LEMMA OwnGrows ==
    ASSUME InvStep, NEW h \in Own', h \notin Own
    PROVE  \E n \in Node, c \in Command :
             /\ LeaderAppends(n, c)
             /\ h = <<currentTerm[n], Len(log[n]) + 1, [term |-> currentTerm[n], command |-> c]>>
<1> USE Typed DEF InvStep
<1>1. h \in led' /\ h[3].term = h[1] /\ h \notin led
  BY DEF Own
<1>2. ~CalmStep
  <2> SUFFICES ASSUME CalmStep PROVE FALSE
    OBVIOUS
  <2>1. led' = led
    BY CalmLed DEF CalmStep
  <2> QED  BY <1>1, <2>1
<1>3. ASSUME NEW m \in msgs, AcceptAppend(m) PROVE FALSE
  <2>1. /\ m.dst \in Node /\ \A p \in Node : p # m.dst => log'[p] = log[p]
        /\ state'[m.dst] = "FOLLOWER"
    BY <1>3, AcceptFacts
  <2>2. \A p \in Node : p # m.dst => state'[p] = state[p] /\ currentTerm'[p] = currentTerm[p]
    BY <1>3, <2>1 DEF AcceptAppend, FollowLeader, TypeOK
  <2>3. led' = led
    BY <2>1, <2>2, CalmLed
  <2> QED  BY <1>1, <2>3
<1>4. ASSUME NEW n \in Node, WinStep(n) PROVE FALSE
  <2>1. /\ \A g \in led : g[1] # currentTerm'[n]
        /\ \A g \in led' : \/ g \in led
                           \/ \E i \in 1..Len(log[n]) : g = <<currentTerm'[n], i, log[n][i]>>
    BY <1>4, WinLed
  <2>2. PICK i \in 1..Len(log[n]) : h = <<currentTerm'[n], i, log[n][i]>>
    BY <1>1, <2>1
  <2>3. log[n][i].term = currentTerm'[n] /\ i \in 1..i
    BY <1>1, <2>2
  <2>4. PICK g \in led : g = <<log[n][i].term, i, log[n][i]>>
    BY <2>3 DEF LogInv, LogsInherited, Held
  <2> QED  BY <2>1, <2>3, <2>4
<1>5. ASSUME NEW n \in Node, NEW c \in Command, LeaderAppends(n, c)
      PROVE  h = <<currentTerm[n], Len(log[n]) + 1, [term |-> currentTerm[n], command |-> c]>>
  <2>1. led' = led \cup {<<currentTerm[n], Len(log[n]) + 1, [term |-> currentTerm[n], command |-> c]>>}
    BY <1>5, ProposeLed
  <2> QED  BY <1>1, <2>1
<1> QED  BY <1>2, <1>3, <1>4, <1>5 DEF LogStep

\* While a node stays in the term it leads or led, its log is all of the
\* term's log.
LEMMA ElectedHasAll ==
    ASSUME LogInv, NEW n, NEW t, <<t, n>> \in elected, currentTerm[n] = t
    PROVE  /\ \A i \in 1..Len(log[n]) : Held(t, i, log[n][i])
           /\ \A i, e : Held(t, i, e) => i <= Len(log[n]) /\ e = log[n][i]
<1>1. PICK f \in elected : f[1] = t /\ f[2] = n
  <2>1. PICK f \in elected : f = <<t, n>>
    OBVIOUS
  <2> QED  BY <2>1
<1>2. \A i \in 1..Len(log[n]) : Held(t, i, log[n][i])
  BY <1>1 DEF LogInv, ElectedKeepLog
<1>3. ASSUME NEW i, NEW e, Held(t, i, e) PROVE i <= Len(log[n]) /\ e = log[n][i]
  <2>1. PICK h \in led : h = <<t, i, e>>
    BY <1>3 DEF Held
  <2>2. h[1] = t /\ h[2] = i /\ h[3] = e
    BY <2>1
  <2> QED  BY <1>1, <2>2 DEF LogInv, ElectedKeepLog
<1> QED  BY <1>2, <1>3

\* Nobody but the leader has acknowledged an entry that it just proposed.
LEMMA ProposedFresh ==
    ASSUME InvStep, NEW n \in Node, NEW c \in Command, LeaderAppends(n, c), NEW v \in Node,
           NEW t, t = currentTerm[n], NEW N, N = Len(log[n]), Acked(v, t, N + 1)'
    PROVE  v = n
<1> USE Typed DEF InvStep
<1>1. elected' = elected /\ state[n] = "LEADER" /\ currentTerm' = currentTerm /\ log'[n] \in Seq(Entry)
  BY DEF LeaderAppends
<1>2. <<t, n>> \in elected
  BY <1>1 DEF LogInv, LeadersElected
<1>3. ASSUME NEW i \in Nat, i > N, NEW e, Held(t, i, e) PROVE FALSE
  BY <1>2, <1>3, ElectedHasAll
<1>4. ASSUME <<t, v>> \in elected PROVE v = n
  <2>1. PICK e \in elected, f \in elected : e = <<t, v>> /\ f = <<t, n>>
    BY <1>2, <1>4
  <2>2. e[1] = f[1] /\ e[2] = v /\ f[2] = n
    BY <2>1
  <2> QED  BY <2>2 DEF ElectionInv, ElectionSafety
<1>5. ASSUME NEW a \in acks', a[1] = v, a[2] = t, a[3] >= N + 1
      PROVE  FALSE
  <2>1. CASE a \in acks
    <3>1. a[3] \in Nat /\ a[3] > 0 /\ a[3] > N
      BY <1>5, <2>1
    <3>2. PICK h \in led : h[1] = a[2] /\ h[2] = a[3]
      BY <2>1, <3>1 DEF CommitInv, AcksTrue
    <3>3. Held(t, a[3], h[3])
      BY <1>5, <3>2
    <3> QED  BY <1>3, <3>1, <3>3
  <2>2. CASE a \notin acks
    <3>1. PICK m \in msgs : AcceptAppend(m) /\ a = <<m.dst, m.term, m.prevIndex + Len(m.entries)>>
      BY <2>2, AcksGrow
    <3> DEFINE last == m.prevIndex + Len(m.entries)
    <3>2. m.prevIndex \in Nat /\ Len(m.entries) \in Nat
      BY <3>1, AcceptFacts
    <3>3. last \in Nat /\ m.term = t /\ last >= N + 1
      BY <1>5, <3>1, <3>2
    <3>4. PICK b \in Nat : AcceptShape(m, b)
      BY <3>1, AcceptMerges
    <3>5. last \in 1..last /\ last > N
      BY <3>3
    <3>6. Held(t, last, log'[m.dst][last])
      BY <3>3, <3>4, <3>5 DEF AcceptShape
    <3> HIDE DEF last
    <3> QED  BY <1>3, <3>3, <3>5, <3>6
  <2> QED  BY <2>1, <2>2
<1> QED  BY <1>1, <1>4, <1>5 DEF Acked

-----------------------------------------------------------------------------
(* Acknowledged entries.                                                   *)

LEMMA LogChange ==
    ASSUME InvStep, NEW n \in Node, log'[n] # log[n]
    PROVE  \/ \E c \in Command : LeaderAppends(n, c)
           \/ \E m \in msgs : AcceptAppend(m) /\ m.dst = n
<1> USE DEF InvStep
<1>1. ~CalmStep /\ \A p \in Node : ~WinStep(p)
  BY DEF CalmStep, WinStep
<1>2. ASSUME NEW p \in Node, NEW c \in Command, LeaderAppends(p, c) PROVE p = n
  BY <1>2, Typed DEF LeaderAppends, TypeOK
<1>3. ASSUME NEW m \in msgs, AcceptAppend(m) PROVE m.dst = n
  BY <1>3, AcceptFacts
<1> QED  BY <1>1, <1>2, <1>3 DEF LogStep

LEMMA CandidateLogKept ==
    ASSUME InvStep, NEW n \in Node, state'[n] = "CANDIDATE"
    PROVE  log'[n] = log[n]
<1> SUFFICES ASSUME log'[n] # log[n] PROVE FALSE
  OBVIOUS
<1>1. ASSUME NEW c \in Command, LeaderAppends(n, c) PROVE FALSE
  BY <1>1 DEF LeaderAppends
<1>2. ASSUME NEW m \in msgs, AcceptAppend(m), m.dst = n PROVE FALSE
  BY <1>2, AcceptFacts DEF InvStep
<1> QED  BY <1>1, <1>2, LogChange

\* A proposal extends the log.
LEMMA ProposeExtends ==
    ASSUME InvStep, NEW n \in Node, NEW c \in Command, LeaderAppends(n, c)
    PROVE  /\ Len(log'[n]) = Len(log[n]) + 1
           /\ \A i \in 1..Len(log[n]) : log'[n][i] = log[n][i]
BY Typed, ProposeLed DEF InvStep

LEMMA AcksStayTrue ==
    ASSUME InvStep
    PROVE  AcksTrue'
<1> USE Typed DEF InvStep
<1> SUFFICES ASSUME NEW a \in acks'
             PROVE  /\ currentTerm'[a[1]] >= a[2]
                    /\ a[3] > 0 => \E h \in led' : h[1] = a[2] /\ h[2] = a[3]
                    /\ currentTerm'[a[1]] = a[2] =>
                         /\ a[3] <= Len(log'[a[1]])
                         /\ \A j \in 1..a[3] : <<a[2], j, log'[a[1]][j]>> \in led'
  BY DEF AcksTrue, Held
<1>1. CASE a \in acks
  <2> DEFINE v == a[1]
  <2>1. /\ v \in Node /\ a[2] \in Nat /\ a[3] \in Nat /\ currentTerm[v] >= a[2]
        /\ currentTerm'[v] >= a[2]
        /\ a[3] > 0 => \E h \in led' : h[1] = a[2] /\ h[2] = a[3]
    <3>1. /\ currentTerm[v] >= a[2]
          /\ a[3] > 0 => \E h \in led : h[1] = a[2] /\ h[2] = a[3]
      BY <1>1 DEF CommitInv, AcksTrue
    <3> QED  BY <1>1, <3>1
  <2>2. SUFFICES ASSUME currentTerm'[v] = a[2]
                 PROVE  /\ a[3] <= Len(log'[v])
                        /\ \A j \in 1..a[3] : log'[v][j] = log[v][j] /\ Held(a[2], j, log[v][j])
    BY <2>1 DEF Held
  <2>3. currentTerm[v] = a[2]
    BY <2>1, <2>2
  <2>4. a[3] <= Len(log[v]) /\ \A j \in 1..a[3] : Held(a[2], j, log[v][j])
    BY <1>1, <2>3 DEF CommitInv, AcksTrue
  <2>5. CASE log'[v] = log[v]
    BY <2>4, <2>5
  <2>6. ASSUME NEW c \in Command, LeaderAppends(v, c)
        PROVE  a[3] <= Len(log'[v]) /\ \A j \in 1..a[3] : log'[v][j] = log[v][j]
    <3>1. /\ Len(log'[v]) = Len(log[v]) + 1
          /\ \A j \in 1..Len(log[v]) : log'[v][j] = log[v][j]
      BY <2>1, <2>6, ProposeExtends
    <3> QED  BY <2>1, <2>4, <3>1
  <2>7. ASSUME NEW m \in msgs, AcceptAppend(m), m.dst = v, a[3] > 0
        PROVE  a[3] <= Len(log'[v]) /\ \A j \in 1..a[3] : log'[v][j] = log[v][j]
    <3>1. m.term = a[2]
      BY <2>2, <2>7, AcceptFacts
    <3>2. a[3] \in 1..Len(log[m.dst]) /\ Held(m.term, a[3], log[m.dst][a[3]])
      BY <2>1, <2>4, <2>7, <3>1
    <3> QED  BY <2>7, <3>2, AcceptKeeps
  <2>8. CASE a[3] = 0
    BY <2>1, <2>8
  <2> QED  BY <2>1, <2>4, <2>5, <2>6, <2>7, <2>8, LogChange
<1>2. CASE a \notin acks
  <2>1. PICK m \in msgs : AcceptAppend(m) /\ a = <<m.dst, m.term, m.prevIndex + Len(m.entries)>>
    BY <1>2, AcksGrow
  <2> DEFINE last == m.prevIndex + Len(m.entries)
  <2>2. last \in Nat /\ m.dst \in Node /\ m.term \in Nat /\ currentTerm'[m.dst] = m.term
    <3>1. /\ m.prevIndex \in Nat /\ Len(m.entries) \in Nat /\ m.dst \in Node /\ m.term \in Nat
          /\ currentTerm'[m.dst] = m.term
      BY <2>1, AcceptFacts
    <3> QED  BY <3>1
  <2>3. PICK b \in Nat : AcceptShape(m, b)
    BY <2>1, AcceptMerges
  <2>4. last <= Len(log'[m.dst]) /\ \A j \in 1..last : <<m.term, j, log'[m.dst][j]>> \in led'
    BY <2>3 DEF AcceptShape, Held
  <2>5. a[1] = m.dst /\ a[2] = m.term /\ a[3] = last
    BY <2>1
  <2> HIDE DEF last
  <2>6. a[3] > 0 => \E h \in led' : h[1] = a[2] /\ h[2] = a[3]
    <3> SUFFICES ASSUME last > 0 PROVE \E h \in led' : h[1] = m.term /\ h[2] = last
      BY <2>5
    <3>1. <<m.term, last, log'[m.dst][last]>> \in led'
      BY <2>2, <2>4
    <3> QED  BY <3>1
  <2> QED  BY <2>2, <2>4, <2>5, <2>6
<1> QED  BY <1>1, <1>2

LEMMA MatchesStayAcked ==
    ASSUME InvStep
    PROVE  MatchesAcked'
<1> USE Typed DEF InvStep
<1> SUFFICES ASSUME NEW l \in Node, NEW p \in Peers(l), state'[l] = "LEADER",
                    matchIndex'[l][p] > 0
             PROVE  <<p, currentTerm'[l], matchIndex'[l][p]>> \in acks'
  BY DEF MatchesAcked
<1>1. /\ state[l] = "LEADER" /\ currentTerm'[l] = currentTerm[l]
      /\ \/ matchIndex'[l][p] = matchIndex[l][p]
         \/ \E m \in msgs : /\ IsAck(m) /\ m.src = p /\ m.dst = l
                            /\ m.term = currentTerm[l] /\ m.match = matchIndex'[l][p]
  BY DEF CommitShape, MatchStep
<1>2. CASE matchIndex'[l][p] = matchIndex[l][p]
  BY <1>1, <1>2 DEF CommitInv, MatchesAcked
<1>3. ASSUME NEW m \in msgs, IsAck(m), m.src = p, m.term = currentTerm[l],
             m.match = matchIndex'[l][p]
      PROVE  <<p, currentTerm[l], matchIndex'[l][p]>> \in acks
  BY <1>3 DEF CommitInv, RecordsTrue, AcksInFlight, IsAck
<1> QED  BY <1>1, <1>2, <1>3

\* A node overwrites an entry of its log only if it can no longer be chosen.
LEMMA LogHasStays ==
    ASSUME InvStep, NEW h \in Own, NEW v \in Node, LogHas(log[v], h[2], h[1])
    PROVE  LogHas(log'[v], h[2], h[1]) \/ Unchoosable(h[1], h[2])
<1> USE Typed DEF InvStep
<1>1. h \in led /\ h[3].term = h[1]
  BY DEF Own
<1>2. h[1] \in Nat /\ h[2] \in Nat \ {0} /\ Held(h[1], h[2], h[3])
  BY <1>1
<1>3. h[2] \in 1..Len(log[v]) /\ log[v][h[2]].term = h[1]
  BY <1>2 DEF LogHas
<1>4. CASE log'[v] = log[v]
  BY <1>4
<1>5. ASSUME NEW c \in Command, LeaderAppends(v, c) PROVE LogHas(log'[v], h[2], h[1])
  BY <1>2, <1>3, <1>5, ProposeExtends DEF LogHas
<1>6. ASSUME NEW m \in msgs, AcceptAppend(m), m.dst = v
      PROVE  LogHas(log'[v], h[2], h[1]) \/ Unchoosable(h[1], h[2])
  <2>1. /\ m.term \in Nat /\ m.term >= currentTerm[v] /\ <<m.term, m.src>> \in elected
        /\ m.src \in Node
    BY <1>6, AcceptFacts
  <2>2. h[1] <= currentTerm[v]
    BY <1>3 DEF LogInv, LogsInherited
  <2>3. ASSUME NEW e, Held(m.term, h[2], e), e.term = h[1] PROVE LogHas(log'[v], h[2], h[1])
    <3>1. /\ h[2] <= Len(log'[m.dst])
          /\ \A j \in 1..h[2] : log'[m.dst][j] = log[m.dst][j]
      BY <1>3, <1>6, <2>3, AcceptKeeps
    <3> QED  BY <1>2, <1>3, <1>6, <3>1 DEF LogHas
  <2>4. CASE m.term = h[1]
    BY <1>1, <1>2, <2>3, <2>4
  <2>5. CASE h[1] < m.term
    <3>1. PICK e \in elected : e = <<m.term, m.src>>
      BY <2>1
    <3>2. h[1] < e[1] /\ e[1] = m.term
      BY <2>5, <3>1
    <3>3. \/ \E g \in led : g[1] = m.term /\ g[2] = h[2] /\ g[3].term = h[1]
          \/ Unchoosable(h[1], h[2])
      BY <3>2 DEF CommitInv, LaterLeadersHold
    <3>4. ASSUME NEW g \in led, g[1] = m.term, g[2] = h[2], g[3].term = h[1]
          PROVE  LogHas(log'[v], h[2], h[1])
      BY <2>3, <3>4
    <3> QED  BY <3>3, <3>4
  <2> QED  BY <1>2, <2>1, <2>2, <2>4, <2>5
<1> QED  BY <1>4, <1>5, <1>6, LogChange

LEMMA AckedStayHeld ==
    ASSUME InvStep
    PROVE  AckedStay'
<1> USE Typed DEF InvStep
<1> SUFFICES ASSUME NEW h \in Own', NEW v \in Node, NEW t, t = h[1], NEW i, i = h[2],
                    Acked(v, t, i)'
             PROVE  LogHas(log'[v], i, t) \/ Unchoosable(t, i)'
  BY DEF AckedStay, LogHas
<1>1. CASE h \in Own
  <2>1. /\ t \in Nat /\ i \in Nat \ {0} /\ Held(t, i, h[3]) /\ h[3].term = t /\ h \in led
    BY <1>1 DEF Own
  <2>2. CASE Acked(v, t, i)
    <3>1. LogHas(log[v], i, t) \/ Unchoosable(t, i)
      BY <1>1, <2>2 DEF CommitInv, AckedStay
    <3>2. LogHas(log'[v], i, t) \/ Unchoosable(t, i)
      BY <1>1, <3>1, LogHasStays
    <3> QED  BY <2>1, <3>2, UnchoosableStays
  <2>3. CASE ~Acked(v, t, i)
    <3>1. ASSUME <<t, v>> \in elected' PROVE FALSE
      <4>1. <<t, v>> \notin elected
        BY <2>3 DEF Acked
      <4>2. WinStep(v) /\ t = currentTerm'[v]
        BY <3>1, <4>1, ElectedGrows
      <4> QED  BY <1>1, <2>1, <4>2, WinLed
    <3>2. PICK a \in acks' : a[1] = v /\ a[2] = t /\ a[3] >= i
      BY <3>1 DEF Acked
    <3>3. a \notin acks
      BY <2>3, <3>2 DEF Acked
    <3>4. PICK m \in msgs : AcceptAppend(m) /\ a = <<m.dst, m.term, m.prevIndex + Len(m.entries)>>
      BY <3>3, AcksGrow
    <3> DEFINE last == m.prevIndex + Len(m.entries)
    <3>5. last \in Nat /\ m.dst = v /\ m.term = t /\ i \in 1..last
      <4>1. m.prevIndex \in Nat /\ Len(m.entries) \in Nat
        BY <3>4, AcceptFacts
      <4> QED  BY <2>1, <3>2, <3>4, <4>1
    <3>6. PICK b \in Nat : AcceptShape(m, b)
      BY <3>4, AcceptMerges
    <3>7. last <= Len(log'[v]) /\ Held(t, i, log'[v][i])
      BY <3>5, <3>6 DEF AcceptShape
    <3>8. log'[v][i] = h[3]
      BY <2>1, <3>7, HeldFacts
    <3> HIDE DEF last
    <3> QED  BY <2>1, <3>5, <3>7, <3>8 DEF LogHas
  <2> QED  BY <2>2, <2>3
<1>2. CASE h \notin Own
  <2>1. PICK n \in Node, c \in Command :
          /\ LeaderAppends(n, c)
          /\ h = <<currentTerm[n], Len(log[n]) + 1, [term |-> currentTerm[n], command |-> c]>>
    BY <1>2, OwnGrows
  <2>2. PICK N : N = Len(log[n]) /\ t = currentTerm[n] /\ i = N + 1
    BY <2>1
  <2>3. v = n
    <3>1. Acked(v, t, N + 1)'
      BY <2>2
    <3> QED  BY <2>1, <2>2, <3>1, ProposedFresh
  <2>4. /\ Len(log'[n]) = Len(log[n]) + 1
        /\ log'[n][Len(log[n]) + 1] = [term |-> currentTerm[n], command |-> c]
    BY <2>1, ProposeLed
  <2> QED  BY <2>2, <2>3, <2>4 DEF LogHas
<1> QED  BY <1>1, <1>2

-----------------------------------------------------------------------------
(* Votes and the logs of new leaders.                                      *)

\* _log_up_to_date: a log at least as recent as that of a node that holds an
\* entry holds the entry too, unless it can no longer be chosen.
LEMMA UpToDateHolds ==
    ASSUME ElectionInv, LogInv, CommitInv, NEW h \in Own, NEW c \in Node, NEW v \in Node,
           LogHas(log[v], h[2], h[1]),
           LogUpToDate(log[v], Len(log[c]), LastTerm(log[c]))
    PROVE  LogHas(log[c], h[2], h[1]) \/ Unchoosable(h[1], h[2])
<1>1. PICK t, i : t = h[1] /\ i = h[2]
  OBVIOUS
<1>2. t \in Nat /\ i \in Nat \ {0} /\ Held(t, i, h[3]) /\ h[3].term = t
  <2>1. h \in led /\ h[3].term = h[1] /\ h \in Nat \X (Nat \ {0}) \X Entry
    BY DEF Own, LogInv, HistoryType
  <2> QED  BY <1>1, <2>1 DEF Held
<1>3. /\ log[v] \in Seq(Entry) /\ log[c] \in Seq(Entry)
      /\ Len(log[v]) \in Nat /\ Len(log[c]) \in Nat
  BY LenProperties DEF ElectionInv, TypeOK
<1>4. i \in 1..Len(log[v]) /\ log[v][i].term = t /\ log[v] # <<>>
  BY <1>1, <1>2, <1>3 DEF LogHas
<1>5. PICK x : x = LastTerm(log[v])
  OBVIOUS
<1>6. x \in Nat /\ t <= x
  <2>1. x = log[v][Len(log[v])].term /\ Len(log[v]) \in 1..Len(log[v]) /\ i \in 1..Len(log[v])
    BY <1>3, <1>4, <1>5 DEF LastTerm
  <2>2. Held(x, i, log[v][i])
    BY <2>1 DEF LogInv, LogsInherited
  <2> QED  BY <1>4, <2>2, HeldFacts
<1>7. log[c] # <<>>
  <2> SUFFICES ASSUME log[c] = <<>> PROVE FALSE
    OBVIOUS
  <2>1. LastTerm(log[c]) = 0 /\ Len(log[c]) = 0
    BY DEF LastTerm
  <2> QED  BY <1>3, <1>4, <1>5, <1>6, <2>1 DEF LogUpToDate
<1>8. PICK k, w : k = Len(log[c]) /\ w = log[c][k].term
  OBVIOUS
<1>9. /\ k \in Nat \ {0} /\ \A j \in 1..k : Held(w, j, log[c][j])
      /\ w \in Nat /\ LastTerm(log[c]) = w
  <2>1. k # 0 /\ k \in Nat
    BY <1>3, <1>7, <1>8, EmptySeq
  <2>2. k \in 1..Len(log[c])
    BY <1>8, <2>1
  <2>3. w \in Nat
    BY <1>3, <1>8, <2>2, EntriesTyped
  <2> QED  BY <1>7, <1>8, <2>1, <2>2, <2>3 DEF LogInv, LogsInherited, LastTerm
<1>10. x < w \/ (x = w /\ Len(log[v]) <= k)
  BY <1>3, <1>5, <1>6, <1>8, <1>9 DEF LogUpToDate
<1>11. CASE w = t
  <2>1. i \in 1..k
    BY <1>2, <1>3, <1>4, <1>6, <1>9, <1>10, <1>11
  <2>2. log[c][i] = h[3]
    BY <1>2, <1>9, <1>11, <2>1, HeldFacts
  <2> QED  BY <1>1, <1>2, <1>8, <2>1, <2>2 DEF LogHas
<1>12. CASE t < w
  <2>1. PICK n \in Node : <<w, n>> \in elected
    <3>1. 1 \in 1..k
      BY <1>9
    <3> QED  BY <1>9, <3>1, HeldFacts
  <2>2. PICK e \in elected : e = <<w, n>>
    BY <2>1
  <2>3. h[1] < e[1] /\ e[1] = w
    BY <1>1, <1>12, <2>2
  <2>4. \/ \E g \in led : g[1] = w /\ g[2] = i /\ g[3].term = t
        \/ Unchoosable(h[1], h[2])
    BY <1>1, <2>3 DEF CommitInv, LaterLeadersHold
  <2>5. ASSUME NEW g \in led, g[1] = w, g[2] = i, g[3].term = t
        PROVE  LogHas(log[c], i, t)
    <3>1. Held(w, i, g[3])
      <4>1. g \in Nat \X (Nat \ {0}) \X Entry
        BY DEF LogInv, HistoryType
      <4> QED  BY <2>5, <4>1 DEF Held
    <3>2. i <= k
      <4> SUFFICES ASSUME k < i PROVE FALSE
        BY <1>2, <1>9
      <4>1. k \in 1..i /\ k \in 1..k
        BY <1>2, <1>9
      <4>2. Held(t, k, log[c][k])
        BY <1>9, <2>5, <3>1, <4>1, HeldFacts
      <4>3. w <= t
        BY <1>8, <4>2, HeldFacts
      <4> QED  BY <1>2, <1>9, <1>12, <4>3
    <3>3. log[c][i] = g[3]
      <4>1. i \in 1..k
        BY <1>2, <1>9, <3>2
      <4> QED  BY <1>9, <3>1, <4>1, HeldFacts
    <3> QED  BY <1>8, <2>5, <3>2, <3>3 DEF LogHas
  <2> QED  BY <1>1, <2>4, <2>5
<1> QED  BY <1>2, <1>6, <1>9, <1>10, <1>11, <1>12

LEMMA RequestsStayTrue ==
    ASSUME InvStep
    PROVE  RequestsTrue'
<1> USE Typed DEF InvStep
<1> SUFFICES ASSUME NEW m \in msgs'
             PROVE  /\ IsVoteRequest(m) =>
                         /\ currentTerm'[m.src] >= m.term
                         /\ state'[m.src] = "CANDIDATE" /\ currentTerm'[m.src] = m.term
                              => /\ m.lastIndex = Len(log'[m.src])
                                 /\ m.lastTerm = LastTerm(log'[m.src])
                    /\ IsGrant(m) => currentTerm'[m.dst] >= m.term
  BY DEF RequestsTrue, IsVoteRequest, IsGrant
<1>1. m.src \in Node /\ m.dst \in Node /\ m.term \in Nat
  BY MessageFields DEF TypeOK
<1>2. CASE m \in msgs
  <2>1. /\ IsVoteRequest(m) =>
             /\ currentTerm[m.src] >= m.term
             /\ state[m.src] = "CANDIDATE" /\ currentTerm[m.src] = m.term
                  => m.lastIndex = Len(log[m.src]) /\ m.lastTerm = LastTerm(log[m.src])
        /\ IsGrant(m) => currentTerm[m.dst] >= m.term
    BY <1>2 DEF CommitInv, RequestsTrue, IsVoteRequest, IsGrant
  <2>2. IsVoteRequest(m) => currentTerm'[m.src] >= m.term
    BY <1>1, <2>1
  <2>3. IsGrant(m) => currentTerm'[m.dst] >= m.term
    BY <1>1, <2>1
  <2>4. ASSUME IsVoteRequest(m), state'[m.src] = "CANDIDATE", currentTerm'[m.src] = m.term
        PROVE  /\ m.lastIndex = Len(log'[m.src])
               /\ m.lastTerm = LastTerm(log'[m.src])
    <3>1. currentTerm[m.src] = m.term
      BY <1>1, <2>1, <2>4
    <3>2. state[m.src] = "CANDIDATE"
      BY <1>1, <2>4, <3>1 DEF RoleStep
    <3>3. log'[m.src] = log[m.src]
      BY <1>1, <2>4, CandidateLogKept
    <3> QED  BY <2>1, <2>4, <3>1, <3>2, <3>3
  <2> QED  BY <2>2, <2>3, <2>4
<1>3. CASE m \notin msgs
  <2>1. ASSUME IsVoteRequest(m)
        PROVE  /\ currentTerm'[m.src] >= m.term
               /\ state'[m.src] = "CANDIDATE" =>
                    m.lastIndex = Len(log'[m.src]) /\ m.lastTerm = LastTerm(log'[m.src])
    <3>1. /\ m.term = currentTerm'[m.src]
          /\ m.lastIndex = Len(log[m.src]) /\ m.lastTerm = LastTerm(log[m.src])
      BY <1>3, <2>1 DEF CommitShape, VoteRequestStep
    <3> QED  BY <1>1, <3>1, CandidateLogKept
  <2>2. ASSUME IsGrant(m) PROVE currentTerm'[m.dst] >= m.term
    <3>1. PICK q \in msgs : IsVoteRequest(q) /\ m.dst = q.src /\ m.term = q.term
      BY <1>3, <2>2 DEF CommitShape, GrantStep
    <3>2. currentTerm[q.src] >= q.term
      BY <3>1 DEF CommitInv, RequestsTrue, IsVoteRequest
    <3> QED  BY <1>1, <3>1, <3>2
  <2> QED  BY <2>1, <2>2
<1> QED  BY <1>2, <1>3

\* Whoever voted for a candidate has reached its term.
LEMMA VotersReachTerm ==
    ASSUME ElectionInv, NEW c \in Node, state[c] = "CANDIDATE", NEW v \in Node, VotedFor(v, c)
    PROVE  currentTerm[v] >= currentTerm[c]
<1>1. Backs(v, currentTerm[c], c)
  BY DEF ElectionInv, VotesBacked, TalliesBacked, GrantsBacked, VotedFor
<1>2. currentTerm[v] \in Nat /\ currentTerm[c] \in Nat
  BY DEF ElectionInv, TypeOK
<1> QED  BY <1>1, <1>2 DEF Backs

LEMMA NewVotersReachTerm ==
    ASSUME ElectionInv', NEW c \in Node, state'[c] = "CANDIDATE", NEW v \in Node,
           VotedFor(v, c)'
    PROVE  currentTerm'[v] >= currentTerm'[c]
<1>1. PICK t : t = currentTerm'[c]
  OBVIOUS
<1>2. Backs(v, t, c)'
  <2>1. CASE v \in votesReceived'[c]
    BY <1>1, <2>1 DEF ElectionInv, VotesBacked, TalliesBacked, Backs
  <2>2. ASSUME NEW m \in msgs', m.type = "RequestVoteReply", m.granted,
               m.src = v, m.dst = c, m.term = currentTerm'[c]
        PROVE  Backs(v, t, c)'
    BY <1>1, <2>2 DEF ElectionInv, VotesBacked, GrantsBacked
  <2> QED  BY <2>1, <2>2 DEF VotedFor
<1>3. currentTerm'[v] \in Nat /\ currentTerm'[c] \in Nat
  BY DEF ElectionInv, TypeOK
<1> QED  BY <1>1, <1>2, <1>3 DEF Backs

LEMMA CandidatesStillHold ==
    ASSUME InvStep
    PROVE  CandidatesHold'
<1> USE Typed DEF InvStep
<1> SUFFICES ASSUME NEW h \in Own', NEW t, t = h[1], NEW i, i = h[2], NEW c \in Node,
                    NEW v \in Node, state'[c] = "CANDIDATE", t < currentTerm'[c],
                    VotedFor(v, c)', Acked(v, t, i)'
             PROVE  LogHas(log'[c], i, t) \/ Unchoosable(t, i)'
  BY DEF CandidatesHold, LogHas
<1>1. log'[c] = log[c]
  BY CandidateLogKept
<1>2. currentTerm'[v] >= currentTerm'[c]
  BY NewVotersReachTerm
<1>3. h \in Own
  <2> SUFFICES ASSUME h \notin Own PROVE FALSE
    OBVIOUS
  <2>1. PICK n \in Node, d \in Command :
          /\ LeaderAppends(n, d)
          /\ h = <<currentTerm[n], Len(log[n]) + 1, [term |-> currentTerm[n], command |-> d]>>
    BY OwnGrows
  <2>2. PICK N : N = Len(log[n]) /\ t = currentTerm[n] /\ i = N + 1
    BY <2>1
  <2>3. v = n
    <3>1. Acked(v, t, N + 1)'
      BY <2>2
    <3> QED  BY <2>1, <2>2, <3>1, ProposedFresh
  <2>4. currentTerm'[n] = currentTerm[n]
    BY <2>1 DEF LeaderAppends
  <2> QED  BY <1>2, <2>2, <2>3, <2>4
<1>4. t \in Nat /\ h \in led
  BY <1>3 DEF Own
<1>5. Acked(v, t, i)
  <2>1. currentTerm'[v] > t
    BY <1>2, <1>4
  <2> QED  BY <1>4, <2>1, AckedPast
<1>6. LogHas(log[v], i, t) \/ Unchoosable(t, i)
  BY <1>3, <1>5 DEF CommitInv, AckedStay
<1>7. ASSUME state[c] = "CANDIDATE", currentTerm'[c] = currentTerm[c], VotedFor(v, c)
      PROVE  LogHas(log[c], i, t) \/ Unchoosable(t, i)
  BY <1>3, <1>5, <1>7 DEF CommitInv, CandidatesHold
<1>8. LogHas(log[c], i, t) \/ Unchoosable(t, i)
  <2>1. CASE v \in votesReceived'[c]
    <3>1. Supports(v, c)
      BY <2>1 DEF CommitShape, TallyStep
    <3> QED  BY <1>6, <1>7, <3>1 DEF Supports
  <2>2. ASSUME NEW m \in msgs', IsGrant(m), m.src = v, m.dst = c, m.term = currentTerm'[c]
        PROVE  LogHas(log[c], i, t) \/ Unchoosable(t, i)
    <3>1. CASE m \in msgs
      <4>1. currentTerm[c] >= m.term
        BY <2>2, <3>1 DEF CommitInv, RequestsTrue, IsGrant
      <4>2. currentTerm'[c] = currentTerm[c]
        BY <2>2, <4>1
      <4>3. state[c] = "CANDIDATE"
        BY <4>2 DEF RoleStep
      <4>4. VotedFor(v, c)
        BY <2>2, <3>1, <4>2 DEF VotedFor, IsGrant
      <4> QED  BY <1>7, <4>2, <4>3, <4>4
    <3>2. CASE m \notin msgs
      <4>1. PICK q \in msgs :
              /\ IsVoteRequest(q) /\ v = q.dst /\ c = q.src /\ m.term = q.term
              /\ LogUpToDate(log[v], q.lastIndex, q.lastTerm)
              /\ currentTerm'[c] = currentTerm[c] /\ state'[c] = state[c]
        BY <2>2, <3>2 DEF CommitShape, GrantStep
      <4>2. q.lastIndex = Len(log[c]) /\ q.lastTerm = LastTerm(log[c])
        BY <2>2, <4>1 DEF CommitInv, RequestsTrue, IsVoteRequest
      <4>3. LogUpToDate(log[v], Len(log[c]), LastTerm(log[c]))
        BY <4>1, <4>2
      <4> QED  BY <1>3, <1>6, <4>3, UpToDateHolds
    <3> QED  BY <3>1, <3>2
  <2> QED  BY <2>1, <2>2 DEF VotedFor, IsGrant
<1> QED  BY <1>1, <1>4, <1>8, UnchoosableStays

\* The heart of the argument: a new leader's majority meets every majority
\* that chose an entry before.
LEMMA LaterLeadersStillHold ==
    ASSUME InvStep
    PROVE  LaterLeadersHold'
<1> USE Typed DEF InvStep
<1> SUFFICES ASSUME NEW h \in Own', NEW t, t = h[1], NEW i, i = h[2], NEW e \in elected',
                    t < e[1]
             PROVE  \/ \E g \in led' : g[1] = e[1] /\ g[2] = i /\ g[3].term = t
                    \/ Unchoosable(t, i)'
  BY DEF LaterLeadersHold
<1>1. CASE h \in Own /\ e \in elected
  <2>1. t \in Nat
    BY <1>1 DEF Own
  <2>2. \/ \E g \in led : g[1] = e[1] /\ g[2] = i /\ g[3].term = t
        \/ Unchoosable(t, i)
    BY <1>1 DEF CommitInv, LaterLeadersHold
  <2> QED  BY <2>1, <2>2, UnchoosableStays
<1>2. CASE h \in Own /\ e \notin elected
  <2>1. t \in Nat /\ i \in Nat \ {0}
    BY <1>2 DEF Own
  <2>2. PICK n \in Node : WinStep(n) /\ e = <<currentTerm'[n], n>>
    BY <1>2, ElectedGrows
  <2>3. t < currentTerm'[n]
    BY <2>2
  <2>4. PICK Q \in Quorum : \A v \in Q : Supports(v, n)
    BY <1>2, <2>2 DEF CommitShape, WinVotes
  <2>5. Q \subseteq Node
    BY DEF Quorum
  <2>6. CASE \E v \in Q : Acked(v, t, i)
    <3>1. PICK v \in Q : Acked(v, t, i)
      BY <2>6
    <3>2. LogHas(log[n], i, t) \/ Unchoosable(t, i)
      <4>1. CASE state[n] = "CANDIDATE" /\ currentTerm'[n] = currentTerm[n] /\ VotedFor(v, n)
        BY <1>2, <2>3, <2>5, <3>1, <4>1 DEF CommitInv, CandidatesHold
      <4>2. CASE v = n
        BY <1>2, <3>1, <4>2 DEF CommitInv, AckedStay
      <4> QED  BY <2>4, <3>1, <4>1, <4>2 DEF Supports
    <3>3. ASSUME LogHas(log[n], i, t)
          PROVE  \E g \in led' : g[1] = e[1] /\ g[2] = i /\ g[3].term = t
      <4>1. i \in 1..Len(log[n]) /\ log[n][i].term = t
        BY <2>1, <3>3 DEF LogHas
      <4>2. <<currentTerm'[n], i, log[n][i]>> \in led'
        BY <2>2, <4>1, WinLed
      <4> QED  BY <2>2, <4>1, <4>2
    <3> QED  BY <2>1, <3>2, <3>3, UnchoosableStays
  <2>7. CASE \A v \in Q : ~Acked(v, t, i)
    <3>1. ASSUME NEW v \in Q PROVE currentTerm'[v] > t
      <4>1. CASE state[n] = "CANDIDATE" /\ currentTerm'[n] = currentTerm[n] /\ VotedFor(v, n)
        <5>1. v \in Node /\ currentTerm[v] >= currentTerm[n]
          BY <2>5, <4>1, VotersReachTerm
        <5>2. currentTerm'[v] >= currentTerm[v]
          BY <5>1
        <5> QED  BY <2>1, <2>3, <4>1, <5>1, <5>2
      <4>2. CASE v = n
        BY <2>1, <2>3, <4>2
      <4> QED  BY <2>4, <4>1, <4>2 DEF Supports
    <3>2. \A v \in Q : ~Acked(v, t, i)'
      BY <2>1, <2>5, <2>7, <3>1, AckedPast
    <3>3. Unchoosable(t, i)'
      BY <3>1, <3>2 DEF Unchoosable, Quorum
    <3> QED  BY <3>3
  <2> QED  BY <2>6, <2>7
<1>3. CASE h \notin Own
  <2>1. PICK n \in Node, d \in Command :
          /\ LeaderAppends(n, d)
          /\ h = <<currentTerm[n], Len(log[n]) + 1, [term |-> currentTerm[n], command |-> d]>>
    BY <1>3, OwnGrows
  <2>2. PICK N : N = Len(log[n]) /\ t = currentTerm[n] /\ i = N + 1
    BY <2>1
  <2>3. elected' = elected /\ currentTerm' = currentTerm
    BY <2>1 DEF LeaderAppends
  <2>4. PICK Q \in SUBSET Node : Cardinality(Q) >= Majority /\ \A v \in Q : Backs(v, e[1], e[2])
    BY <2>3 DEF ElectionInv, VotesBacked, LeadersBacked
  <2>5. e[1] \in Nat /\ t \in Nat
    BY <2>2, <2>3
  <2>6. ASSUME NEW v \in Q PROVE currentTerm'[v] > t /\ ~Acked(v, t, i)'
    <3>1. v \in Node /\ currentTerm[v] >= e[1]
      BY <2>4, <2>5 DEF Backs
    <3>2. currentTerm'[v] > t
      BY <2>3, <2>5, <3>1
    <3>3. v # n
      BY <2>2, <2>3, <2>5, <3>2
    <3>4. ~Acked(v, t, N + 1)'
      BY <2>1, <2>2, <3>1, <3>3, ProposedFresh
    <3> QED  BY <2>2, <3>2, <3>4
  <2>7. Unchoosable(t, i)'
    BY <2>4, <2>6 DEF Unchoosable, Quorum
  <2> QED  BY <2>7
<1> QED  BY <1>1, <1>2, <1>3

-----------------------------------------------------------------------------
(* Commits.                                                                *)

\* The log of a term whose leader chose an entry is, up to that entry, part of
\* the log of every later term.
LEMMA ChosenInLaterTerm ==
    ASSUME LogInv, CommitInv, NEW h \in Own, Chosen(h[1], h[2]),
           NEW u \in Nat, h[1] <= u, NEW n, <<u, n>> \in elected,
           NEW j \in 1..h[2], NEW f, Held(h[1], j, f)
    PROVE  Held(u, j, f)
<1>1. h \in led /\ h[3].term = h[1] /\ h[1] \in Nat /\ h[2] \in Nat \ {0}
  BY DEF Own, LogInv, HistoryType
<1>2. CASE h[1] = u
  BY <1>2
<1>3. CASE h[1] < u
  <2>1. PICK e \in elected : e = <<u, n>>
    OBVIOUS
  <2>2. h[1] < e[1] /\ e[1] = u
    BY <1>3, <2>1
  <2>3. PICK g \in led : g[1] = u /\ g[2] = h[2] /\ g[3].term = h[1]
    BY <2>2, ChosenNotRuledOut DEF CommitInv, LaterLeadersHold
  <2>4. Held(u, h[2], g[3])
    <3>1. g \in Nat \X (Nat \ {0}) \X Entry
      BY DEF LogInv, HistoryType
    <3> QED  BY <2>3, <3>1 DEF Held
  <2>5. PICK d \in Entry : Held(u, j, d)
    BY <2>4, HeldFacts
  <2>6. Held(h[1], j, d)
    BY <2>3, <2>4, <2>5, HeldFacts
  <2>7. d = f
    BY <2>6, HeldFacts
  <2> QED  BY <2>5, <2>7
<1> QED  BY <1>1, <1>2, <1>3

\* The part of CommitsChosen that is about one node.
LEMMA CommittedFacts ==
    ASSUME TypeOK, CommitInv, NEW n \in Node, commitIndex[n] > 0
    PROVE  /\ commitIndex[n] \in 1..Len(log[n]) /\ Len(log[n]) \in Nat
           /\ \E h \in Own : /\ h[1] <= currentTerm[n] /\ commitIndex[n] <= h[2]
                             /\ Chosen(h[1], h[2])
                             /\ \A i \in 1..commitIndex[n] : Held(h[1], i, log[n][i])
<1>1. commitIndex[n] \in Nat /\ Len(log[n]) \in Nat
  BY LenProperties DEF TypeOK
<1> QED  BY <1>1 DEF CommitInv, CommitsChosen

\* Up to index k, the log of n is part of what was chosen in a term it reached.
Settled(n, k) ==
    /\ k <= Len(log[n])
    /\ \E h \in Own : /\ h[1] <= currentTerm[n] /\ k <= h[2] /\ Chosen(h[1], h[2])
                      /\ \A i \in 1..k : Held(h[1], i, log[n][i])

\* Such a prefix is never touched, also when commit_index no longer covers it.
LEMMA SettledKept ==
    ASSUME InvStep, NEW n \in Node, NEW c \in Nat \ {0}, Settled(n, c)
    PROVE  c <= Len(log'[n]) /\ \A i \in 1..c : log'[n][i] = log[n][i]
<1> USE Typed DEF InvStep
<1>1. c \in 1..Len(log[n]) /\ Len(log[n]) \in Nat
  BY DEF Settled
<1>2. CASE log'[n] = log[n]
  BY <1>1, <1>2
<1>3. ASSUME NEW d \in Command, LeaderAppends(n, d)
      PROVE  c <= Len(log'[n]) /\ \A i \in 1..c : log'[n][i] = log[n][i]
  BY <1>1, <1>3, ProposeExtends
<1>4. ASSUME NEW m \in msgs, AcceptAppend(m), m.dst = n
      PROVE  c <= Len(log'[n]) /\ \A i \in 1..c : log'[n][i] = log[n][i]
  <2>1. m.term \in Nat /\ m.term >= currentTerm[n] /\ <<m.term, m.src>> \in elected
    BY <1>4, AcceptFacts
  <2>2. PICK h \in Own : /\ h[1] <= currentTerm[n] /\ c <= h[2] /\ Chosen(h[1], h[2])
                         /\ \A k \in 1..c : Held(h[1], k, log[n][k])
    BY DEF Settled
  <2>3. h[1] \in Nat /\ h[2] \in Nat
    BY DEF Own
  <2>4. c \in 1..h[2] /\ h[1] <= m.term /\ Held(h[1], c, log[n][c])
    BY <1>1, <2>1, <2>2, <2>3
  <2>5. Held(m.term, c, log[n][c])
    BY <2>1, <2>2, <2>4, ChosenInLaterTerm
  <2> QED  BY <1>1, <1>4, <2>5, AcceptKeeps
<1> QED  BY <1>2, <1>3, <1>4, LogChange

LEMMA CommittedIsSettled ==
    ASSUME TypeOK, CommitInv, NEW n \in Node, NEW c, c = commitIndex[n], c > 0
    PROVE  c \in Nat \ {0} /\ Settled(n, c)
<1>1. c \in Nat
  BY DEF TypeOK
<1> QED  BY <1>1, CommittedFacts DEF Settled

LEMMA CommittedKept ==
    ASSUME InvStep, NEW n \in Node, NEW i \in 1..commitIndex[n]
    PROVE  i <= Len(log'[n]) /\ log'[n][i] = log[n][i]
<1>1. PICK c : c = commitIndex[n]
  OBVIOUS
<1>2. c \in Nat /\ c > 0 /\ i \in 1..c
  BY <1>1, Typed DEF TypeOK
<1>3. c <= Len(log'[n]) /\ \A j \in 1..c : log'[n][j] = log[n][j]
  BY <1>1, <1>2, Typed, CommittedIsSettled, SettledKept DEF InvStep
<1> QED  BY <1>2, <1>3, Typed

\* _advance_commit_index: a majority, the leader included, has the index that
\* it computes, provided that no peer is believed to have more than the leader.
LEMMA MajorityMatchHeld ==
    ASSUME NEW n \in Node, NEW len \in Nat, NEW match \in [Peers(n) -> Nat],
           \A p \in Peers(n) : match[p] <= len
    PROVE  /\ MajorityMatch(len, match) \in 0..len
           /\ {p \in Peers(n) : match[p] >= MajorityMatch(len, match)} \cup {n} \in Quorum
<1> DEFINE held == {len} \cup {match[p] : p \in Peers(n)}
           at(i) == {p \in Peers(n) : match[p] >= i}
           S == {i \in held : Cardinality(at(i)) + (IF len >= i THEN 1 ELSE 0) >= Majority}
<1>1. MajorityMatch(len, match) = Max(S)
  <2>1. DOMAIN match = Peers(n)
    OBVIOUS
  <2> QED  BY <2>1 DEF MajorityMatch
<1>2. held \subseteq 0..len /\ held # {}
  OBVIOUS
<1>3. IsFiniteSet(Node) /\ IsFiniteSet(Peers(n)) /\ Cardinality(Node) \in Nat
      /\ Cardinality(Peers(n)) = Cardinality(Node) - 1
  BY NodeAssumption, FS_RemoveElement, FS_CardinalityType DEF Peers
<1>4. \A i : IsFiniteSet(at(i)) /\ Cardinality(at(i)) \in Nat /\ n \notin at(i) /\ at(i) \subseteq Node
  <2> TAKE i
  <2>1. at(i) \in SUBSET Peers(n) /\ n \notin at(i) /\ at(i) \subseteq Node
    BY DEF Peers
  <2> HIDE DEF at
  <2> QED  BY <1>3, <2>1, FS_Subset, FS_CardinalityType
<1>5. S # {}
  <2>1. held \subseteq Nat
    BY <1>2
  <2>2. PICK x \in held : \A k \in held : x <= k
    <3> HIDE DEF held
    <3> QED  BY <1>2, <2>1, MinOfNaturals
  <2>3. at(x) = Peers(n) /\ len >= x
    BY <2>2
  <2>4. Cardinality(Node) > 0
    BY <1>3, NodeAssumption, FS_EmptySet
  <2>5. Cardinality(at(x)) + 1 >= Majority
    <3>1. PICK c \in Nat : c = Cardinality(Node) /\ c > 0
      BY <1>3, <2>4
    <3>2. (c - 1) + 1 >= (c \div 2) + 1
      BY <3>1
    <3>3. Cardinality(at(x)) = c - 1
      BY <1>3, <2>3, <3>1
    <3> HIDE DEF at, held, S
    <3> QED  BY <3>1, <3>2, <3>3 DEF Majority
  <2>6. Cardinality(at(x)) + (IF len >= x THEN 1 ELSE 0) >= Majority
    BY <2>3, <2>5
  <2>7. x \in S
    BY <2>2, <2>6
  <2> QED  BY <2>7
<1>6. S \subseteq 0..len
  BY <1>2
<1>7. PICK N : N = Max(S)
  OBVIOUS
<1>8. N \in S
  <2> HIDE DEF S
  <2> QED  BY <1>5, <1>6, <1>7, MaxOfBounded
<1>9. N \in 0..len /\ Cardinality(at(N)) + 1 >= Majority
  <2>1. N \in held /\ Cardinality(at(N)) + (IF len >= N THEN 1 ELSE 0) >= Majority
    BY <1>8
  <2>2. N \in 0..len
    BY <1>2, <2>1
  <2> HIDE DEF at, held
  <2> QED  BY <2>1, <2>2
<1>10. at(N) \cup {n} \in Quorum
  <2> HIDE DEF at
  <2>1. Cardinality(at(N) \cup {n}) = Cardinality(at(N)) + 1
    BY <1>4, FS_AddElement
  <2> QED  BY <1>4, <1>9, <2>1 DEF Quorum
<1> HIDE DEF S
<1> QED  BY <1>1, <1>7, <1>9, <1>10

\* What a node has committed in the state after the step.
CommittedAfter(n) ==
    /\ commitIndex'[n] <= Len(log'[n])
    /\ \E h \in Own' :
         /\ h[1] <= currentTerm'[n] /\ commitIndex'[n] <= h[2]
         /\ \E Q \in Quorum : \A v \in Q : Acked(v, h[1], h[2])'
         /\ \A i \in 1..commitIndex'[n] : <<h[1], i, log'[n][i]>> \in led'

LEMMA OwnStays ==
    ASSUME InvStep
    PROVE  Own \subseteq Own'
BY Typed DEF Own

LEMMA SettledStays ==
    ASSUME InvStep, NEW n \in Node, NEW c \in Nat \ {0}, Settled(n, c)
    PROVE  Settled(n, c)'
<1> USE Typed DEF InvStep
<1>1. PICK h \in Own : /\ h[1] <= currentTerm[n] /\ c <= h[2] /\ Chosen(h[1], h[2])
                       /\ \A i \in 1..c : Held(h[1], i, log[n][i])
  BY DEF Settled
<1>2. c <= Len(log'[n]) /\ \A i \in 1..c : log'[n][i] = log[n][i]
  BY SettledKept
<1>3. PICK t, k : t = h[1] /\ k = h[2]
  OBVIOUS
<1>4. Chosen(t, k)'
  BY <1>1, <1>3, ChosenStays
<1>5. h \in Own' /\ h[1] <= currentTerm'[n]
  <2>1. h[1] \in Nat
    BY DEF Own
  <2> QED  BY <1>1, <2>1, OwnStays
<1> QED  BY <1>1, <1>2, <1>3, <1>4, <1>5 DEF Settled, Chosen, Held

LEMMA CommitStays ==
    ASSUME InvStep, NEW n \in Node, commitIndex'[n] = commitIndex[n], commitIndex[n] > 0
    PROVE  CommittedAfter(n)
<1>1. PICK c : c = commitIndex[n]
  OBVIOUS
<1>2. Settled(n, c)'
  BY <1>1, Typed, CommittedIsSettled, SettledStays DEF InvStep
<1> QED  BY <1>1, <1>2 DEF Settled, CommittedAfter, Chosen, Held

\* handle_append_entries: a follower commits up to leader_commit, never beyond
\* the entries it knows to share with the leader.
LEMMA FollowerCommits ==
    ASSUME InvStep, NEW m \in msgs, AcceptAppend(m), commitIndex'[m.dst] > 0
    PROVE  CommittedAfter(m.dst)
<1> USE Typed DEF InvStep
<1>1. PICK n \in Node : n = m.dst
  BY AcceptFacts
<1>2. /\ m.commit \in Nat /\ m.term \in Nat /\ IsAppend(m) /\ m.prevIndex \in Nat
      /\ Len(m.entries) \in Nat /\ <<m.term, m.src>> \in elected /\ currentTerm'[n] = m.term
      /\ commitIndex[n] \in Nat
  BY <1>1, AcceptFacts DEF TypeOK
<1>3. PICK b \in Nat : AcceptShape(m, b)
  BY AcceptMerges
<1>4. commitIndex'[n] = IF m.commit > commitIndex[n] THEN Min({m.commit, Len(log'[n])})
                        ELSE commitIndex[n]
  <2>1. log'[n] = MergeEntries(log[n], m.prevIndex, m.entries)
    BY <1>1 DEF AcceptAppend, TypeOK
  <2> QED  BY <1>1, <2>1 DEF AcceptAppend, CommitUpTo, FollowerCommit, TypeOK
<1>5. CASE m.commit > commitIndex[n]
  <2>1. PICK last : last = m.prevIndex + Len(m.entries)
    OBVIOUS
  <2>2. last <= Len(log'[n]) /\ \A j \in 1..last : Held(m.term, j, log'[n][j])
    BY <1>1, <1>3, <2>1 DEF AcceptShape
  <2>3. m.prevIndex = 0 \/ m.prevTerm # -1
    <3> SUFFICES ASSUME m.prevIndex # 0 PROVE m.prevTerm # -1
      OBVIOUS
    <3>1. m.prevIndex \in 1..Len(log[n]) /\ TermAt(log[n], m.prevIndex) = m.prevTerm
      BY <1>1, <1>2 DEF AcceptAppend
    <3>2. m.prevTerm \in Nat
      <4>1. log[n] \in Seq(Entry) /\ m.prevIndex \in Int
        BY <1>2
      <4>2. TermAt(log[n], m.prevIndex) \in Nat
        BY <3>1, <4>1, TermAtType
      <4> QED  BY <3>1, <4>2
    <3> QED  BY <3>2
  <2>4. m.commit <= last /\ CommittedBy(m.term, m.commit)
    BY <1>2, <1>5, <2>1, <2>3 DEF CommitInv, CommitsChosen
  <2>5. commitIndex'[n] = m.commit /\ m.commit <= Len(log'[n])
    <3>1. last \in Nat
      BY <1>2, <2>1
    <3>2. m.commit <= Len(log'[n])
      BY <1>2, <2>2, <2>4, <3>1
    <3> DEFINE S == {m.commit, Len(log'[n])}
    <3>3. S \subseteq Nat /\ S # {} /\ m.commit \in S /\ Min(S) = commitIndex'[n]
      BY <1>2, <1>4, <1>5
    <3>4. Min(S) \in S /\ Min(S) <= m.commit
      <4> HIDE DEF S
      <4> QED  BY <3>3, MinOfNaturals
    <3> QED  BY <1>2, <3>2, <3>3, <3>4
  <2>6. PICK h \in Own : h[1] <= m.term /\ m.commit <= h[2] /\ Chosen(h[1], h[2])
    BY <2>4 DEF CommittedBy
  <2>7. PICK t, k : t = h[1] /\ k = h[2]
    OBVIOUS
  <2>8. t \in Nat /\ k \in Nat \ {0} /\ Held(t, k, h[3])
    BY <2>7 DEF Own
  <2>9. ASSUME NEW j \in 1..m.commit PROVE Held(t, j, log'[n][j])
    <3>1. j \in 1..k /\ j \in 1..last
      <4>1. m.commit <= k /\ m.commit <= last /\ m.commit \in Nat /\ last \in Nat
        BY <1>2, <2>1, <2>4, <2>6, <2>7
      <4>2. PICK c \in Nat : c = m.commit
        BY <4>1
      <4>3. c <= k /\ c <= last /\ j \in 1..c
        BY <4>1, <4>2
      <4> QED  BY ONLY <2>8, <4>1, <4>2, <4>3
    <3>2. PICK f \in Entry : Held(t, j, f)
      BY <2>8, <3>1, HeldFacts
    <3>3. Held(m.term, j, f)
      BY <1>2, <2>6, <2>7, <3>1, <3>2, ChosenInLaterTerm
    <3>4. Held(m.term, j, log'[n][j])
      BY <2>2, <3>1
    <3> QED  BY <3>2, <3>3, <3>4, HeldFacts
  <2>10. Chosen(t, k)'
    BY <2>6, <2>7, ChosenStays
  <2> QED  BY <1>1, <1>2, <2>5, <2>6, <2>7, <2>9, <2>10, OwnStays DEF CommittedAfter, Chosen, Held
<1>6. CASE ~(m.commit > commitIndex[n])
  BY <1>1, <1>4, <1>6, CommitStays
<1> QED  BY <1>5, <1>6

\* _advance_commit_index: what a majority holds of the leader's term is chosen.
LEMMA LeaderCommits ==
    ASSUME InvStep, NEW m \in msgs, ReceiveAppendSuccess(m), commitIndex'[m.dst] > 0
    PROVE  CommittedAfter(m.dst)
<1> USE Typed DEF InvStep
<1>1. PICK n \in Node : n = m.dst
  BY MessageFields DEF TypeOK
<1>2. PICK t \in Nat : t = currentTerm[n]
  OBVIOUS
<1>3. PICK len \in Nat : len = Len(log[n])
  OBVIOUS
<1>4. PICK match : match = [matchIndex[n] EXCEPT ![m.src] = IF m.match > @ THEN m.match ELSE @]
  OBVIOUS
<1>5. /\ state[n] = "LEADER" /\ m.term = t /\ IsAck(m) /\ m.src \in Peers(n) /\ m.match \in Nat
      /\ commitIndex[n] \in Nat
  <2>1. m.src \in Node /\ m.src # m.dst /\ m \in AppendReply
    BY MessageFields DEF ReceiveAppendSuccess, AppendReplyCounts, TypeOK
  <2>2. m.match \in Nat
    BY <2>1 DEF AppendReply
  <2>3. state[n] = "LEADER" /\ m.term = t /\ IsAck(m)
    BY <1>1, <1>2 DEF ReceiveAppendSuccess, AppendReplyCounts, IsAck
  <2>4. m.src \in Peers(n)
    BY <1>1, <2>1 DEF Peers
  <2>5. commitIndex[n] \in Nat
    BY DEF TypeOK
  <2> QED  BY <2>2, <2>3, <2>4, <2>5
<1>6. UNCHANGED <<log, currentTerm, elected>>
  BY DEF ReceiveAppendSuccess, storageVars
<1>7. commitIndex'[n] = CommitByCounting(log[n], match, t, commitIndex[n])
  BY <1>1, <1>2, <1>4 DEF ReceiveAppendSuccess, CommitUpTo, TypeOK
<1>8. match \in [Peers(n) -> Nat]
  <2>1. matchIndex[n] \in [Peers(n) -> Nat]
    BY DEF TypeOK
  <2> QED  BY <1>4, <1>5, <2>1
<1>9. ASSUME NEW p \in Peers(n), match[p] > 0 PROVE <<p, t, match[p]>> \in acks
  <2>1. matchIndex[n] \in [Peers(n) -> Nat]
    BY DEF TypeOK
  <2>2. CASE match[p] = matchIndex[n][p]
    BY <1>2, <1>5, <1>9, <2>2 DEF CommitInv, MatchesAcked
  <2>3. CASE p = m.src /\ match[p] = m.match
    BY <1>5, <2>3 DEF CommitInv, RecordsTrue, AcksInFlight, IsAck
  <2> QED  BY <1>4, <1>5, <2>1, <2>2, <2>3
<1>10. /\ <<t, n>> \in elected
       /\ \A i \in 1..len : Held(t, i, log[n][i])
       /\ \A i, e : Held(t, i, e) => i <= len
  <2>1. <<t, n>> \in elected
    BY <1>2, <1>5 DEF LogInv, LeadersElected
  <2> QED  BY <1>2, <1>3, <2>1, ElectedHasAll
<1>11. \A p \in Peers(n) : match[p] <= len
  <2> SUFFICES ASSUME NEW p \in Peers(n), match[p] > 0 PROVE match[p] <= len
    BY <1>8
  <2>1. PICK a \in acks : a = <<p, t, match[p]>>
    BY <1>9
  <2>2. a[2] = t /\ a[3] = match[p] /\ a[3] > 0
    BY <2>1
  <2>3. PICK h \in led : h[1] = t /\ h[2] = match[p]
    BY <2>2 DEF CommitInv, AcksTrue
  <2>4. Held(t, match[p], h[3])
    BY <2>3
  <2> QED  BY <1>10, <2>4
<1>12. PICK N : N = MajorityMatch(len, match)
  OBVIOUS
<1>13. N \in 0..len /\ {p \in Peers(n) : match[p] >= N} \cup {n} \in Quorum
  BY <1>8, <1>11, <1>12, MajorityMatchHeld
<1>14. CASE commitIndex'[n] = commitIndex[n]
  BY <1>1, <1>14, CommitStays
<1>15. CASE commitIndex'[n] # commitIndex[n]
  <2>1. commitIndex'[n] = N /\ N > commitIndex[n] /\ TermAt(log[n], N) = t
    BY <1>3, <1>7, <1>12, <1>15 DEF CommitByCounting
  <2>2. N \in 1..len
    BY <1>5, <1>13, <2>1
  <2>3. log[n][N].term = t
    BY <1>3, <2>1, <2>2, TermAtType
  <2>4. PICK h : h = <<t, N, log[n][N]>>
    OBVIOUS
  <2>5. h[1] = t /\ h[2] = N /\ h[3] = log[n][N]
    BY <2>4
  <2>6. h \in Own
    BY <1>10, <2>2, <2>3, <2>4, <2>5 DEF Own, Held
  <2>7. Chosen(t, N)
    <3>1. Acked(n, t, N)
      BY <1>10 DEF Acked
    <3>2. ASSUME NEW p \in Peers(n), match[p] >= N PROVE Acked(p, t, N)
      <4>1. match[p] > 0
        BY <1>8, <2>2, <3>2
      <4>2. PICK a \in acks : a = <<p, t, match[p]>>
        BY <1>9, <4>1
      <4>3. a[1] = p /\ a[2] = t /\ a[3] >= N
        BY <3>2, <4>2
      <4> QED  BY <4>3 DEF Acked
    <3>3. \A v \in {p \in Peers(n) : match[p] >= N} \cup {n} : Acked(v, t, N)
      BY <3>1, <3>2
    <3> QED  BY <1>13, <3>3 DEF Chosen
  <2>8. Chosen(t, N)'
    BY <2>7, ChosenStays
  <2>9. \A i \in 1..N : <<t, i, log'[n][i]>> \in led'
    BY <1>6, <1>10, <2>2 DEF Held
  <2>10. N <= Len(log'[n]) /\ t <= currentTerm'[n] /\ N <= h[2]
    BY <1>2, <1>3, <1>6, <2>2, <2>5
  <2> QED  BY <1>1, <2>1, <2>5, <2>6, <2>8, <2>9, <2>10, OwnStays DEF CommittedAfter, Chosen
<1> QED  BY <1>14, <1>15

LEMMA NodesCommit ==
    ASSUME InvStep, NEW n \in Node, commitIndex'[n] > 0
    PROVE  CommittedAfter(n)
<1>1. commitIndex'[n] \in Nat /\ commitIndex[n] \in Nat
  BY Typed DEF TypeOK
<1>2. CASE commitIndex'[n] \in {commitIndex[n], 0}
  BY <1>1, <1>2, CommitStays
<1>3. ASSUME NEW m \in msgs, m.dst = n, AcceptAppend(m) \/ ReceiveAppendSuccess(m)
      PROVE  CommittedAfter(n)
  BY <1>3, FollowerCommits, LeaderCommits
<1> QED  BY <1>2, <1>3 DEF InvStep, CommitShape, CommitStep

LEMMA CommitsStayChosen ==
    ASSUME InvStep
    PROVE  CommitsChosen'
<1> USE Typed DEF InvStep
<1>1. ASSUME NEW n \in Node, commitIndex'[n] > 0
      PROVE  /\ commitIndex'[n] <= Len(log'[n])
             /\ \E h \in Own' : /\ h[1] <= currentTerm'[n] /\ commitIndex'[n] <= h[2]
                                /\ Chosen(h[1], h[2])'
                                /\ \A i \in 1..commitIndex'[n] : <<h[1], i, log'[n][i]>> \in led'
  <2>1. CommittedAfter(n)
    BY <1>1, NodesCommit
  <2> QED  BY <2>1 DEF CommittedAfter, Chosen, Quorum
<1>2. ASSUME NEW m \in msgs', IsAppend(m), m.commit > 0
      PROVE  /\ \E h \in Own' : h[1] <= m.term /\ m.commit <= h[2] /\ Chosen(h[1], h[2])'
             /\ m.prevIndex = 0 \/ m.prevTerm # -1 => m.commit <= m.prevIndex + Len(m.entries)
  <2>1. CASE m \in msgs
    <3>1. /\ CommittedBy(m.term, m.commit)
          /\ m.prevIndex = 0 \/ m.prevTerm # -1 => m.commit <= m.prevIndex + Len(m.entries)
      BY <1>2, <2>1 DEF CommitInv, CommitsChosen
    <3>2. PICK h \in Own : h[1] <= m.term /\ m.commit <= h[2] /\ Chosen(h[1], h[2])
      BY <3>1 DEF CommittedBy
    <3>3. h \in Own' /\ Chosen(h[1], h[2])'
      BY <3>2, OwnStays, ChosenStays
    <3> QED  BY <3>1, <3>2, <3>3
  <2>2. CASE m \notin msgs
    <3>1. PICK n, l, next : n = m.src /\ l = log'[n] /\ next \in Nat \ {0} /\ n \in Node
                            /\ commitIndex'[n] = commitIndex[n]
                            /\ m = AppendTo(n, m.dst, l, next, currentTerm'[n])
      BY <1>2, <2>2 DEF RequestStep
    <3>2. /\ m.term = currentTerm'[n] /\ m.commit = commitIndex'[n] /\ m.prevIndex = next - 1
          /\ m.prevTerm = TermAt(l, next - 1) /\ m.entries = EntriesFrom(l, next)
      BY <3>1 DEF AppendTo
    <3>3. l \in Seq(Entry) /\ Len(l) \in Nat
      BY <3>1
    <3>4. ASSUME m.prevIndex = 0 \/ m.prevTerm # -1
          PROVE  m.commit <= m.prevIndex + Len(m.entries)
      <4>1. next - 1 \in 0..Len(l)
        <5>1. next - 1 \in Int
          BY <3>1
        <5> QED  BY <3>2, <3>3, <3>4, <5>1, TermAtType
      <4>2. m.entries = SubSeq(l, next, Len(l))
        <5>1. ~(next <= 0) /\ m.entries = EntriesFrom(l, next)
          BY <3>1, <3>2
        <5> QED  BY ONLY <5>1 DEF EntriesFrom
      <4>3. Len(m.entries) = Len(l) - next + 1
        <5>1. \A i \in next..Len(l) : l[i] \in Entry
          BY <3>1, <3>3, EntriesTyped
        <5>2. Len(m.entries) = IF next <= Len(l) THEN Len(l) - next + 1 ELSE 0
          BY <3>1, <3>3, <4>2, <5>1, SubSeqProperties
        <5> QED  BY <3>1, <3>3, <4>1, <5>2
      <4>4. m.commit <= Len(l)
        BY <1>1, <1>2, <3>1, <3>2
      <4>5. m.prevIndex + Len(m.entries) = Len(l)
        BY <3>1, <3>2, <3>3, <4>3
      <4> QED  BY <4>4, <4>5
    <3>5. \E h \in Own' : h[1] <= m.term /\ m.commit <= h[2] /\ Chosen(h[1], h[2])'
      BY <1>1, <1>2, <3>1, <3>2
    <3> QED  BY <3>4, <3>5
  <2> QED  BY <2>1, <2>2
<1> QED  BY <1>1, <1>2 DEF CommitsChosen, CommittedBy, Held

LEMMA RecordsStayTrue ==
    ASSUME CommitInv, HistoryStep
    PROVE  RecordsTrue'
<1>1. CASE Record
  BY <1>1 DEF Record, RecordsTrue
<1>2. CASE UNCHANGED historyVars
  <2>1. UNCHANGED <<msgs, acks>>
    BY <1>2 DEF historyVars, vars
  <2> QED  BY <2>1 DEF CommitInv, RecordsTrue, AcksInFlight
<1> QED  BY <1>1, <1>2 DEF HistoryStep

LEMMA InitCommit == HistoryInit => CommitInv
<1> SUFFICES ASSUME HistoryInit PROVE CommitInv
  OBVIOUS
<1>1. led = {} /\ acks = {} /\ elected = {} /\ msgs = {} /\ Own = {} /\ AcksInFlight = {}
  BY DEF HistoryInit, Init, Own, AcksInFlight
<1>2. \A n \in Node : state[n] = "FOLLOWER" /\ commitIndex[n] = 0
  BY DEF HistoryInit, Init
<1> QED  BY <1>1, <1>2 DEF CommitInv, RecordsTrue, AcksTrue, MatchesAcked, AckedStay,
         LaterLeadersHold, CandidatesHold, RequestsTrue, CommitsChosen

LEMMA StepsKeepInv ==
    ASSUME ElectionInv, LogInv, CommitInv, HistoryStep
    PROVE  InvStep
<1>1. TypeOK
  BY DEF ElectionInv
<1>2. RecordStep /\ [Next]_vars
  BY <1>1, HistoryRecords
<1>3. ElectionInv' /\ LogInv'
  BY NextLog
<1> QED  BY <1>1, <1>2, <1>3, NextShape, NextCommitShape DEF InvStep

LEMMA StepKeepsCommitInv ==
    ASSUME InvStep, RecordsTrue'
    PROVE  CommitInv'
BY AcksStayTrue, MatchesStayAcked, AckedStayHeld,
   LaterLeadersStillHold, CandidatesStillHold, RequestsStayTrue, CommitsStayChosen
   DEF CommitInv

LEMMA NextCommit ==
    ASSUME ElectionInv, LogInv, CommitInv, HistoryStep
    PROVE  CommitInv'
BY StepsKeepInv, RecordsStayTrue, StepKeepsCommitInv

-----------------------------------------------------------------------------
(* Theorems.                                                               *)

SafetyInv == ElectionInv /\ LogInv /\ CommitInv

LEMMA CommitInvariant == HistorySpec => []SafetyInv
<1>1. HistoryInit => SafetyInv
  BY InitElection, InitLog, InitCommit DEF HistoryInit, SafetyInv
<1>2. SafetyInv /\ HistoryStep => SafetyInv'
  BY NextLog, NextCommit DEF SafetyInv
<1> QED  BY <1>1, <1>2, PTL DEF HistorySpec, HistoryInit, HistoryKept, HistoryStep, Spec

LEMMA PrefixByEntries ==
    ASSUME NEW k \in Seq(Entry), NEW l \in Seq(Entry), NEW c \in Nat,
           c <= Len(k), c <= Len(l), \A j \in 1..c : k[j] = l[j]
    PROVE  IsPrefix(SubSeq(k, 1, c), l)
<1>1. PICK s : s = SubSeq(k, 1, c)
  OBVIOUS
<1>2. \A j \in 1..c : k[j] \in Entry
  BY EntriesTyped
<1>3. s \in Seq(Entry) /\ Len(s) = c /\ \A j \in 1..c : s[j] = k[j]
  BY <1>1, <1>2, SubSeqProperties
<1>4. SubSeq(s, 1, Len(s)) = SubSeq(l, 1, Len(s))
  BY <1>3, EqualPrefixes
<1> QED  BY <1>1, <1>3, <1>4 DEF IsPrefix

\* Of what was chosen, in whatever terms, there is one log.
LEMMA ChosenAgree ==
    ASSUME SafetyInv, NEW i \in Nat \ {0}, NEW x, NEW y,
           NEW g \in Own, i <= g[2], Chosen(g[1], g[2]), Held(g[1], i, x),
           NEW h \in Own, i <= h[2], Chosen(h[1], h[2]), Held(h[1], i, y)
    PROVE  x = y
<1> USE DEF SafetyInv
<1>1. ASSUME NEW d, NEW e, NEW f \in Own, i <= f[2], Chosen(f[1], f[2]), Held(f[1], i, d),
             NEW k \in Own, f[1] <= k[1], Held(k[1], i, e)
      PROVE  d = e
  <2>1. PICK n \in Node : <<k[1], n>> \in elected
    BY <1>1, HeldFacts
  <2>2. k[1] \in Nat /\ f[2] \in Nat
    BY DEF Own, LogInv, HistoryType
  <2>3. i \in 1..f[2]
    BY <1>1, <2>2
  <2>4. Held(k[1], i, d)
    BY <1>1, <2>1, <2>2, <2>3, ChosenInLaterTerm
  <2> QED  BY <1>1, <2>4, HeldFacts
<1>2. g[1] \in Nat /\ h[1] \in Nat
  BY DEF Own, LogInv, HistoryType
<1>3. CASE g[1] <= h[1]
  BY <1>1, <1>3
<1>4. CASE h[1] <= g[1]
  <2>1. y = x
    BY <1>1, <1>4
  <2> QED  BY <2>1
<1> QED  BY <1>2, <1>3, <1>4

LEMMA SettledAgree ==
    ASSUME SafetyInv, NEW a \in Node, NEW b \in Node, NEW j \in Nat, NEW k \in Nat,
           Settled(a, j), Settled(b, k), NEW i \in Nat \ {0}, i <= j, i <= k
    PROVE  log[a][i] = log[b][i]
<1> USE DEF SafetyInv
<1>1. PICK g \in Own : j <= g[2] /\ Chosen(g[1], g[2]) /\ Held(g[1], i, log[a][i])
  BY DEF Settled
<1>2. PICK h \in Own : k <= h[2] /\ Chosen(h[1], h[2]) /\ Held(h[1], i, log[b][i])
  BY DEF Settled
<1>3. g[2] \in Nat /\ h[2] \in Nat
  BY DEF Own, LogInv, HistoryType
<1>4. i <= g[2] /\ i <= h[2]
  BY <1>1, <1>2, <1>3
<1> QED  BY <1>1, <1>2, <1>4, ChosenAgree

LEMMA CommittedEntriesAgree ==
    ASSUME SafetyInv
    PROVE  StateMachineSafety
<1> USE DEF SafetyInv, ElectionInv
<1> SUFFICES ASSUME NEW a \in Node, NEW b \in Node,
                    NEW i \in 1..Min({commitIndex[a], commitIndex[b]})
             PROVE  log[a][i] = log[b][i]
  BY DEF StateMachineSafety
<1>1. PICK j \in Nat, k \in Nat : j = commitIndex[a] /\ k = commitIndex[b]
  BY DEF TypeOK
<1>2. Min({j, k}) \in Nat /\ Min({j, k}) <= j /\ Min({j, k}) <= k
  BY MinOfTwo
<1>3. i \in 1..Min({j, k})
  BY <1>1
<1>4. i \in Nat \ {0} /\ i <= j /\ i <= k
  BY <1>2, <1>3
<1>5. Settled(a, j) /\ Settled(b, k)
  BY <1>1, <1>4, CommittedIsSettled
<1> QED  BY <1>4, <1>5, SettledAgree

LEMMA LeadersComplete ==
    ASSUME SafetyInv
    PROVE  LeaderCompleteness
<1> USE DEF SafetyInv, ElectionInv
<1> SUFFICES ASSUME NEW l \in Node, NEW n \in Node, state[l] = "LEADER",
                    currentTerm[n] <= currentTerm[l]
             PROVE  IsPrefix(SubSeq(log[n], 1, commitIndex[n]), log[l])
  BY DEF LeaderCompleteness
<1>1. /\ log[l] \in Seq(Entry) /\ log[n] \in Seq(Entry) /\ commitIndex[n] \in Nat
      /\ currentTerm[l] \in Nat /\ currentTerm[n] \in Nat /\ Len(log[l]) \in Nat
      /\ Len(log[n]) \in Nat
  BY LenProperties DEF TypeOK
<1>2. PICK u \in Nat : u = currentTerm[l]
  BY <1>1
<1>3. <<u, l>> \in elected
  BY <1>2 DEF LogInv, LeadersElected
<1>4. CASE commitIndex[n] > 0
  <2>1. commitIndex[n] \in 1..Len(log[n])
    BY <1>4, CommittedFacts
  <2>2. PICK h \in Own : /\ h[1] <= currentTerm[n] /\ commitIndex[n] <= h[2]
                         /\ Chosen(h[1], h[2])
                         /\ \A i \in 1..commitIndex[n] : Held(h[1], i, log[n][i])
    BY <1>4, CommittedFacts
  <2>3. h[1] \in Nat /\ h[2] \in Nat
    BY DEF Own, LogInv, HistoryType
  <2>4. ASSUME NEW i \in 1..commitIndex[n] PROVE i <= Len(log[l]) /\ log[n][i] = log[l][i]
    <3>1. i \in 1..h[2] /\ h[1] <= u
      BY <1>1, <1>2, <2>2, <2>3
    <3>2. Held(u, i, log[n][i])
      BY <1>3, <2>2, <3>1, ChosenInLaterTerm
    <3> QED  BY <1>2, <1>3, <3>2, ElectedHasAll
  <2>5. commitIndex[n] <= Len(log[l]) /\ commitIndex[n] <= Len(log[n])
    <3>1. commitIndex[n] \in 1..commitIndex[n]
      BY <1>1, <1>4
    <3> QED  BY <2>1, <2>4, <3>1
  <2> QED  BY <1>1, <2>4, <2>5, PrefixByEntries
<1>5. CASE commitIndex[n] = 0
  BY <1>1, <1>5, PrefixByEntries
<1> QED  BY <1>1, <1>4, <1>5

LEMMA MatchesSound ==
    ASSUME SafetyInv
    PROVE  MatchIndexSound
<1> USE DEF SafetyInv, ElectionInv
<1> SUFFICES ASSUME NEW l \in Node, NEW p \in Peers(l), state[l] = "LEADER",
                    currentTerm[p] = currentTerm[l], NEW k, k = matchIndex[l][p]
             PROVE  k <= Len(log[p]) /\ IsPrefix(SubSeq(log[p], 1, k), log[l])
  BY DEF MatchIndexSound
<1>1. /\ log[l] \in Seq(Entry) /\ log[p] \in Seq(Entry) /\ k \in Nat
      /\ Len(log[l]) \in Nat /\ Len(log[p]) \in Nat /\ p \in Node
  BY LenProperties DEF TypeOK, Peers
<1>2. PICK u : u = currentTerm[l]
  OBVIOUS
<1>3. CASE k > 0
  <2>1. PICK a \in acks : a = <<p, u, k>>
    BY <1>2, <1>3 DEF CommitInv, MatchesAcked
  <2>2. a[1] = p /\ a[2] = u /\ a[3] = k
    BY <2>1
  <2>3. k <= Len(log[p]) /\ \A j \in 1..k : Held(u, j, log[p][j])
    BY <1>2, <2>2 DEF CommitInv, AcksTrue
  <2>4. <<u, l>> \in elected
    BY <1>2 DEF LogInv, LeadersElected
  <2>5. \A j \in 1..k : j <= Len(log[l]) /\ log[p][j] = log[l][j]
    BY <1>2, <2>3, <2>4, ElectedHasAll
  <2>6. k <= Len(log[l])
    <3>1. k \in 1..k
      BY <1>1, <1>3
    <3> QED  BY <2>5, <3>1
  <2> QED  BY <1>1, <2>3, <2>5, <2>6, PrefixByEntries
<1>4. CASE k = 0
  BY <1>1, <1>4, PrefixByEntries
<1> QED  BY <1>1, <1>3, <1>4

\* No two nodes commit different entries at one index, for every cluster, every
\* log and every schedule of losses, reorderings and restarts: the replicas of
\* the ledger apply one sequence of commands.
THEOREM CommitsAlwaysAgree == HistorySpec => []StateMachineSafety
<1>1. SafetyInv => StateMachineSafety
  BY CommittedEntriesAgree
<1> QED  BY <1>1, CommitInvariant, PTL

\* A leader holds everything committed in its term or before: a failover loses
\* no settlement that a client was told is committed.
THEOREM LeadersAlwaysComplete == HistorySpec => []LeaderCompleteness
<1>1. SafetyInv => LeaderCompleteness
  BY LeadersComplete
<1> QED  BY <1>1, CommitInvariant, PTL

\* A leader never counts a peer for an entry that the peer lacks, however late
\* the replies arrive that match_index is computed from.
THEOREM MatchIndexesAlwaysSound == HistorySpec => []MatchIndexSound
<1>1. SafetyInv => MatchIndexSound
  BY MatchesSound
<1> QED  BY <1>1, CommitInvariant, PTL

\* No request, however late, makes a node drop or replace an entry that it has
\* committed.
THEOREM CommitsAlwaysKept == HistorySpec => CommittedNeverTruncated
<1> DEFINE Kept == \A n \in Node : \A i \in 1..commitIndex[n] :
                      i <= Len(log'[n]) /\ log'[n][i] = log[n][i]
<1>1. SafetyInv /\ HistoryStep => [Kept]_vars
  <2> SUFFICES ASSUME SafetyInv, HistoryStep PROVE Kept
    OBVIOUS
  <2>1. InvStep
    BY StepsKeepInv DEF SafetyInv
  <2> QED  BY <2>1, CommittedKept
<1> QED  BY <1>1, CommitInvariant, PTL
         DEF HistorySpec, HistoryKept, HistoryStep, Spec, CommittedNeverTruncated
=============================================================================
