------------------------- MODULE RaftElectionProofs -------------------------
(***************************************************************************)
(* No term has two leaders: ElectionSafety, from the inductive invariant   *)
(* VotesBacked, for every cluster and every schedule of messages, losses   *)
(* and restarts.                                                           *)
(***************************************************************************)
EXTENDS RaftProofs

ElectionInv == TypeOK /\ VotesBacked /\ ElectionSafety

IsGrant(m) == m.type = "RequestVoteReply" /\ m.granted

\* Two majorities of the cluster share a node.
LEMMA MajoritiesIntersect ==
    ASSUME NEW P \in SUBSET Node, NEW Q \in SUBSET Node,
           Cardinality(P) >= Majority, Cardinality(Q) >= Majority
    PROVE  \E v \in P : v \in Q
<1>1. IsFiniteSet(P) /\ IsFiniteSet(Q) /\ IsFiniteSet(Node)
  BY NodeAssumption, FS_Subset
<1>2. Cardinality(P) \in Nat /\ Cardinality(Q) \in Nat /\ Cardinality(Node) \in Nat
  BY <1>1, FS_CardinalityType
<1>3. Cardinality(P) + Cardinality(Q) > Cardinality(Node)
  BY <1>2 DEF Majority
<1>4. P \cap Q # {}
  BY <1>1, <1>3, FS_MajoritiesIntersect
<1> QED  BY <1>4

\* A backed vote stays backed as long as no new grant and no new tally
\* contradicts it: storage alone never takes it back.
LEMMA BacksPreserved ==
    ASSUME TypeOK, NEW v \in Node, NEW t \in Nat, NEW c \in Node, Backs(v, t, c),
           TypeOK', TermAndVoteStep(v),
           \A m \in msgs' \ msgs : IsGrant(m) /\ m.src = v /\ m.term = t => m.dst = c,
           \A d \in Node : state'[d] # "FOLLOWER" /\ currentTerm'[d] = t
                             /\ v \in votesReceived'[d] => d = c
    PROVE  Backs(v, t, c)'
<1>1. currentTerm[v] \in Nat /\ currentTerm'[v] \in Nat
  BY DEF TypeOK
<1>2. (currentTerm[v] > t \/ (currentTerm[v] = t /\ votedFor[v] = c))'
  BY <1>1, NodeAssumption DEF Backs, TermAndVoteStep
<1>3. \A m \in msgs' : m.type = "RequestVoteReply" /\ m.granted /\ m.src = v /\ m.term = t
                         => m.dst = c
  BY DEF Backs, IsGrant
<1> QED  BY <1>2, <1>3 DEF Backs

\* What every kind of step has to show: backed votes stay backed, and what is
\* new - a grant, a tallied vote, a leader - is backed.
LEMMA StepKeepsInv ==
    ASSUME ElectionInv, TypeOK',
           \A v \in Node, t \in Nat, c \in Node : Backs(v, t, c) => Backs(v, t, c)',
           \A m \in msgs' \ msgs : IsGrant(m) => Backs(m.src, m.term, m.dst)',
           \A c \in Node : state'[c] # "FOLLOWER" => \A v \in votesReceived'[c] :
              \/ /\ state[c] # "FOLLOWER" /\ currentTerm'[c] = currentTerm[c]
                 /\ v \in votesReceived[c]
              \/ Backs(v, currentTerm[c], c)',
           elected \subseteq elected',
           \A e \in elected' \ elected :
              /\ \E Q \in SUBSET Node :
                   Cardinality(Q) >= Majority /\ \A v \in Q : Backs(v, e[1], e[2])'
              /\ \A f \in elected' : e[1] = f[1] => e[2] = f[2]
    PROVE  ElectionInv'
<1>1. TypeOK
  BY DEF ElectionInv
<1>2. GrantsBacked'
  <2> SUFFICES ASSUME NEW m \in msgs', IsGrant(m)
               PROVE  Backs(m.src, m.term, m.dst)'
    BY DEF GrantsBacked, IsGrant
  <2>1. CASE m \in msgs
    <3>1. Backs(m.src, m.term, m.dst)
      BY <2>1 DEF ElectionInv, VotesBacked, GrantsBacked, IsGrant
    <3>2. m.src \in Node /\ m.term \in Nat /\ m.dst \in Node
      BY <1>1, <2>1, MessageFields DEF TypeOK
    <3> QED  BY <3>1, <3>2
  <2>2. CASE m \notin msgs
    BY <2>2
  <2> QED  BY <2>1, <2>2
<1>3. TalliesBacked'
  <2> SUFFICES ASSUME NEW c \in Node, state'[c] # "FOLLOWER", NEW v \in votesReceived'[c],
                      state[c] # "FOLLOWER", currentTerm'[c] = currentTerm[c],
                      v \in votesReceived[c]
               PROVE  Backs(v, currentTerm[c], c)'
    BY DEF TalliesBacked
  <2>1. v \in Node /\ currentTerm[c] \in Nat
    BY <1>1 DEF TypeOK
  <2>2. PICK t \in Nat : t = currentTerm[c]
    BY <2>1
  <2>3. Backs(v, t, c)
    BY <2>2 DEF ElectionInv, VotesBacked, TalliesBacked
  <2>4. Backs(v, t, c)'
    BY <2>1, <2>3
  <2> QED  BY <2>2, <2>4
<1>4. LeadersBacked'
  <2> SUFFICES ASSUME NEW e \in elected'
               PROVE  \E Q \in SUBSET Node :
                        Cardinality(Q) >= Majority /\ \A v \in Q : Backs(v, e[1], e[2])'
    BY DEF LeadersBacked
  <2>1. CASE e \in elected
    <3>1. PICK Q \in SUBSET Node :
            Cardinality(Q) >= Majority /\ \A v \in Q : Backs(v, e[1], e[2])
      BY <2>1 DEF ElectionInv, VotesBacked, LeadersBacked
    <3>2. e[1] \in Nat /\ e[2] \in Node
      BY <1>1, <2>1 DEF TypeOK
    <3>3. \A v \in Q : Backs(v, e[1], e[2])'
      BY <3>1, <3>2
    <3> QED  BY <3>1, <3>3
  <2>2. CASE e \notin elected
    BY <2>2
  <2> QED  BY <2>1, <2>2
<1>5. ElectionSafety'
  BY DEF ElectionSafety, ElectionInv
<1> QED  BY <1>2, <1>3, <1>4, <1>5 DEF ElectionInv, VotesBacked

\* A step that sends no grant, adds to no tally and elects nobody.
QuietStep ==
    /\ \A m \in msgs' \ msgs : ~IsGrant(m)
    /\ \A d \in Node : state'[d] # "FOLLOWER"
         => /\ state[d] # "FOLLOWER" /\ currentTerm'[d] = currentTerm[d]
            /\ votesReceived'[d] \subseteq votesReceived[d]
    /\ elected' = elected

LEMMA QuietKeepsInv ==
    ASSUME ElectionInv, [Next]_vars, QuietStep
    PROVE  ElectionInv'
<1>1. TypeOK /\ TypeOK'
  BY NextType DEF ElectionInv
<1>2. ASSUME NEW v \in Node, NEW t \in Nat, NEW c \in Node, Backs(v, t, c)
      PROVE  Backs(v, t, c)'
  <2>1. TermAndVoteStep(v)
    BY <1>1, StepVotes
  <2>2. \A d \in Node : state'[d] # "FOLLOWER" /\ currentTerm'[d] = t
                          /\ v \in votesReceived'[d] => d = c
    BY <1>2 DEF Backs, QuietStep
  <2> QED  BY <1>1, <1>2, <2>1, <2>2, BacksPreserved DEF QuietStep
<1> QED  BY <1>1, <1>2, StepKeepsInv DEF QuietStep

\* handle_request_vote when it grants: the new grant agrees with whatever the
\* voter has already said in that term.
LEMMA GrantKeepsInv ==
    ASSUME ElectionInv, [Next]_vars, NEW m \in msgs, ReceiveRequestVote(m),
           m.term >= currentTerm[m.dst],
           m.term > currentTerm[m.dst] \/ votedFor[m.dst] \in {None, m.src},
           votedFor'[m.dst] = m.src
    PROVE  ElectionInv'
<1> DEFINE n == m.dst
<1>1. TypeOK /\ TypeOK'
  BY NextType DEF ElectionInv
<1>2. /\ m \in Message /\ n \in Node /\ m.src \in Node /\ m.term \in Nat
      /\ currentTerm[n] \in Nat /\ m.src # None
  BY <1>1, MessageFields, NodeAssumption DEF TypeOK
<1>3. currentTerm'[n] = m.term
  BY <1>1, <1>2 DEF ReceiveRequestVote, TypeOK
<1>4. \A r \in msgs' \ msgs : IsGrant(r) => r.src = n /\ r.dst = m.src /\ r.term = m.term
  BY <1>2 DEF ReceiveRequestVote, Consume, Sent, VoteReplyTo
<1>5. /\ \A d \in Node : state'[d] # "FOLLOWER"
           => /\ state[d] # "FOLLOWER" /\ currentTerm'[d] = currentTerm[d]
              /\ votesReceived'[d] \subseteq votesReceived[d]
      /\ elected' = elected
  BY <1>1, <1>2 DEF ReceiveRequestVote, TypeOK
<1>6. ASSUME NEW c \in Node, Backs(n, m.term, c)
      PROVE  c = m.src
  BY <1>2, <1>6, NodeAssumption DEF Backs
<1>7. ASSUME NEW v \in Node, NEW t \in Nat, NEW c \in Node, Backs(v, t, c)
      PROVE  Backs(v, t, c)'
  <2>1. TermAndVoteStep(v)
    BY <1>1, StepVotes
  <2>2. \A d \in Node : state'[d] # "FOLLOWER" /\ currentTerm'[d] = t
                          /\ v \in votesReceived'[d] => d = c
    BY <1>5, <1>7 DEF Backs
  <2>3. \A r \in msgs' \ msgs : IsGrant(r) /\ r.src = v /\ r.term = t => r.dst = c
    BY <1>4, <1>6, <1>7
  <2> QED  BY <1>1, <1>7, <2>1, <2>2, <2>3, BacksPreserved
<1>8. Backs(n, m.term, m.src)'
  <2>1. ASSUME NEW r \in msgs', IsGrant(r), r.src = n, r.term = m.term
        PROVE  r.dst = m.src
    <3>1. CASE r \in msgs
      <4>1. Backs(r.src, r.term, r.dst) /\ r.dst \in Node
        BY <1>1, <2>1, <3>1, MessageFields DEF ElectionInv, VotesBacked, GrantsBacked,
           IsGrant, TypeOK
      <4> QED  BY <1>6, <2>1, <4>1
    <3>2. CASE r \notin msgs
      BY <1>4, <2>1, <3>2
    <3> QED  BY <3>1, <3>2
  <2>2. ASSUME NEW d \in Node, state'[d] # "FOLLOWER", currentTerm'[d] = m.term,
               n \in votesReceived'[d]
        PROVE  d = m.src
    <3>1. Backs(n, m.term, d)
      BY <1>5, <2>2 DEF ElectionInv, VotesBacked, TalliesBacked
    <3> QED  BY <1>6, <3>1
  <2> QED  BY <1>3, <2>1, <2>2 DEF Backs, IsGrant
<1>9. \A r \in msgs' \ msgs : IsGrant(r) => Backs(r.src, r.term, r.dst)'
  BY <1>4, <1>8
<1> QED  BY <1>1, <1>5, <1>7, <1>9, StepKeepsInv

\* _become_candidate: nobody has heard of this node in its new term yet.
LEMMA CandidateKeepsInv ==
    ASSUME ElectionInv, [Next]_vars, NEW n \in Node, BecomeCandidate(n),
           \A m \in msgs' \ msgs : ~IsGrant(m)
    PROVE  ElectionInv'
<1>1. TypeOK /\ TypeOK'
  BY NextType DEF ElectionInv
<1>2. PICK term \in Nat : term = currentTerm[n] + 1
  BY <1>1 DEF TypeOK
<1>3. \A c \in Node : ~Backs(n, term, c)
  <2>1. currentTerm[n] \in Nat
    BY <1>1 DEF TypeOK
  <2>2. ~(currentTerm[n] > term) /\ currentTerm[n] # term
    BY <1>2, <2>1
  <2> QED  BY <2>2 DEF Backs
<1>4. /\ currentTerm'[n] = term /\ votedFor'[n] = n /\ votesReceived'[n] = {n}
      /\ \A d \in Node : d # n => /\ state'[d] = state[d] /\ currentTerm'[d] = currentTerm[d]
                                  /\ votesReceived'[d] = votesReceived[d]
  BY <1>1, <1>2 DEF BecomeCandidate, TypeOK
<1>5. ASSUME NEW v \in Node, NEW t \in Nat, NEW c \in Node, Backs(v, t, c)
      PROVE  Backs(v, t, c)'
  <2>1. TermAndVoteStep(v)
    BY <1>1, StepVotes
  <2>2. ASSUME NEW d \in Node, state'[d] # "FOLLOWER", currentTerm'[d] = t,
               v \in votesReceived'[d]
        PROVE  d = c
    <3>1. CASE d = n
      BY <1>3, <1>4, <1>5, <2>2, <3>1
    <3>2. CASE d # n
      BY <1>4, <1>5, <2>2, <3>2 DEF Backs
    <3> QED  BY <3>1, <3>2
  <2> QED  BY <1>1, <1>5, <2>1, <2>2, BacksPreserved
<1>6. Backs(n, term, n)'
  <2>1. ASSUME NEW r \in msgs', IsGrant(r), r.src = n, r.term = term
        PROVE  FALSE
    <3>1. r \in msgs
      BY <2>1
    <3>2. Backs(r.src, r.term, r.dst) /\ r.dst \in Node
      BY <1>1, <2>1, <3>1, MessageFields DEF ElectionInv, VotesBacked, GrantsBacked,
         IsGrant, TypeOK
    <3> QED  BY <1>3, <2>1, <3>2
  <2>2. ASSUME NEW d \in Node, d # n, state'[d] # "FOLLOWER", currentTerm'[d] = term,
               n \in votesReceived'[d]
        PROVE  FALSE
    <3>1. Backs(n, term, d)
      BY <1>4, <2>2 DEF ElectionInv, VotesBacked, TalliesBacked
    <3> QED  BY <1>3, <3>1
  <2> QED  BY <1>4, <2>1, <2>2 DEF Backs, IsGrant
<1>7. \A c \in Node : state'[c] # "FOLLOWER" => \A v \in votesReceived'[c] :
         \/ /\ state[c] # "FOLLOWER" /\ currentTerm'[c] = currentTerm[c]
            /\ v \in votesReceived[c]
         \/ Backs(v, currentTerm[c], c)'
  <2> SUFFICES ASSUME NEW c \in Node, state'[c] # "FOLLOWER", NEW v \in votesReceived'[c],
                      c = n
               PROVE  Backs(v, currentTerm[c], c)'
    BY <1>4
  <2> QED  BY <1>4, <1>6
<1>8. CASE Majority # 1
  <2>1. elected' = elected
    BY <1>8 DEF BecomeCandidate
  <2> QED  BY <1>1, <1>5, <1>7, <2>1, StepKeepsInv
<1>9. CASE Majority = 1
  <2>1. elected' = elected \cup {<<term, n>>}
    BY <1>2, <1>9 DEF BecomeCandidate
  <2>2. {n} \in SUBSET Node /\ Cardinality({n}) >= Majority
    BY <1>9, FS_Singleton
  <2>3. ASSUME NEW f \in elected, f[1] = term
        PROVE  FALSE
    <3>1. PICK Q \in SUBSET Node :
            Cardinality(Q) >= Majority /\ \A v \in Q : Backs(v, f[1], f[2])
      BY DEF ElectionInv, VotesBacked, LeadersBacked
    <3>2. n \in Q
      BY <2>2, <3>1, MajoritiesIntersect
    <3>3. f[2] \in Node
      BY <1>1 DEF TypeOK
    <3> QED  BY <1>3, <2>3, <3>1, <3>2, <3>3
  <2>4. \A e \in elected' \ elected :
          /\ \E Q \in SUBSET Node :
               Cardinality(Q) >= Majority /\ \A v \in Q : Backs(v, e[1], e[2])'
          /\ \A f \in elected' : e[1] = f[1] => e[2] = f[2]
    <3> SUFFICES ASSUME NEW e \in elected', e = <<term, n>>
                 PROVE  /\ \E Q \in SUBSET Node :
                             Cardinality(Q) >= Majority /\ \A v \in Q : Backs(v, e[1], e[2])'
                        /\ \A f \in elected' : e[1] = f[1] => e[2] = f[2]
      BY <2>1
    <3>1. e[1] = term /\ e[2] = n
      OBVIOUS
    <3>2. \A v \in {n} : Backs(v, e[1], e[2])'
      BY <1>6, <3>1
    <3>3. \A f \in elected' : e[1] = f[1] => e[2] = f[2]
      BY <2>1, <2>3, <3>1
    <3> QED  BY <2>2, <3>2, <3>3
  <2> QED  BY <1>1, <1>5, <1>7, <2>1, <2>4, StepKeepsInv
<1> QED  BY <1>8, <1>9

\* _handle_request_vote_reply when it counts: the vote was the candidate's,
\* and a majority of such votes shares a voter with any leader of that term.
LEMMA TallyKeepsInv ==
    ASSUME ElectionInv, [Next]_vars, NEW m \in msgs, ReceiveRequestVoteReply(m)
    PROVE  ElectionInv'
<1> DEFINE n == m.dst
           granted == votesReceived[n] \cup {m.src}
           won == Cardinality(granted) >= Majority
<1>1. TypeOK /\ TypeOK'
  BY NextType DEF ElectionInv
<1>2. m \in Message /\ n \in Node /\ m.src \in Node /\ m.term \in Nat
  BY <1>1, MessageFields DEF TypeOK
<1>3. IsGrant(m) /\ m.term = currentTerm[n] /\ state[n] = "CANDIDATE"
  BY DEF ReceiveRequestVoteReply, VoteCounts, IsGrant
<1>4. \A r \in msgs' \ msgs : ~IsGrant(r)
  BY DEF ReceiveRequestVoteReply, Consume, Sent, AppendTo, IsGrant
<1>5. /\ currentTerm' = currentTerm /\ votesReceived'[n] = granted
      /\ \A d \in Node : d # n => state'[d] = state[d] /\ votesReceived'[d] = votesReceived[d]
  <2>1. currentTerm' = currentTerm
    BY DEF ReceiveRequestVoteReply, storageVars
  <2>2. votesReceived' = [votesReceived EXCEPT ![n] = granted]
    BY DEF ReceiveRequestVoteReply
  <2>3. \A d \in Node : d # n => state'[d] = state[d]
    <3>1. state' = [state EXCEPT ![n] = "LEADER"] \/ state' = state
      BY DEF ReceiveRequestVoteReply, BecomeLeader
    <3>2. DOMAIN state = Node
      BY <1>1 DEF TypeOK
    <3> QED  BY <1>2, <3>1, <3>2
  <2>4. DOMAIN votesReceived = Node
    BY <1>1 DEF TypeOK
  <2> HIDE DEF granted
  <2> QED  BY <1>2, <2>1, <2>2, <2>3, <2>4
<1>6. ASSUME NEW c \in Node, NEW v \in granted, Backs(v, m.term, c)
      PROVE  c = n
  BY <1>2, <1>3, <1>6 DEF Backs, IsGrant
<1>7. ASSUME NEW v \in Node, NEW t \in Nat, NEW c \in Node, Backs(v, t, c)
      PROVE  Backs(v, t, c)'
  <2>1. TermAndVoteStep(v)
    BY <1>1, StepVotes
  <2>2. ASSUME NEW d \in Node, state'[d] # "FOLLOWER", currentTerm'[d] = t,
               v \in votesReceived'[d]
        PROVE  d = c
    <3>1. CASE d = n
      BY <1>3, <1>5, <1>6, <1>7, <2>2, <3>1
    <3>2. CASE d # n
      BY <1>5, <1>7, <2>2, <3>2 DEF Backs
    <3> QED  BY <3>1, <3>2
  <2> QED  BY <1>1, <1>4, <1>7, <2>1, <2>2, BacksPreserved
<1>8. \A v \in granted : Backs(v, m.term, n)
  BY <1>2, <1>3 DEF ElectionInv, VotesBacked, GrantsBacked, TalliesBacked, IsGrant
<1>9. \A v \in granted : Backs(v, m.term, n)'
  <2>1. granted \subseteq Node
    BY <1>1, <1>2 DEF TypeOK
  <2> QED  BY <1>2, <1>7, <1>8, <2>1
<1>10. \A c \in Node : state'[c] # "FOLLOWER" => \A v \in votesReceived'[c] :
         \/ /\ state[c] # "FOLLOWER" /\ currentTerm'[c] = currentTerm[c]
            /\ v \in votesReceived[c]
         \/ Backs(v, currentTerm[c], c)'
  <2> SUFFICES ASSUME NEW c \in Node, state'[c] # "FOLLOWER", NEW v \in votesReceived'[c],
                      c = n
               PROVE  Backs(v, currentTerm[c], c)'
    BY <1>5
  <2> QED  BY <1>3, <1>5, <1>9
<1>11. CASE ~won
  <2>1. elected' = elected
    BY <1>11 DEF ReceiveRequestVoteReply
  <2> QED  BY <1>1, <1>4, <1>7, <1>10, <2>1, StepKeepsInv
<1>12. CASE won
  <2>1. elected' = elected \cup {<<m.term, n>>}
    BY <1>3, <1>12 DEF ReceiveRequestVoteReply, BecomeLeader
  <2>2. granted \in SUBSET Node /\ Cardinality(granted) >= Majority
    BY <1>1, <1>2, <1>12 DEF TypeOK
  <2>3. ASSUME NEW f \in elected, f[1] = m.term
        PROVE  f[2] = n
    <3>1. PICK Q \in SUBSET Node :
            Cardinality(Q) >= Majority /\ \A v \in Q : Backs(v, f[1], f[2])
      BY DEF ElectionInv, VotesBacked, LeadersBacked
    <3>2. PICK v \in granted : v \in Q
      <4> HIDE DEF granted
      <4> QED  BY <2>2, <3>1, MajoritiesIntersect
    <3>3. f[2] \in Node /\ Backs(v, m.term, f[2])
      BY <1>1, <2>3, <3>1, <3>2 DEF TypeOK
    <3> QED  BY <1>6, <3>2, <3>3
  <2>4. \A e \in elected' \ elected :
          /\ \E Q \in SUBSET Node :
               Cardinality(Q) >= Majority /\ \A v \in Q : Backs(v, e[1], e[2])'
          /\ \A f \in elected' : e[1] = f[1] => e[2] = f[2]
    <3> SUFFICES ASSUME NEW e \in elected', e = <<m.term, n>>
                 PROVE  /\ \E Q \in SUBSET Node :
                             Cardinality(Q) >= Majority /\ \A v \in Q : Backs(v, e[1], e[2])'
                        /\ \A f \in elected' : e[1] = f[1] => e[2] = f[2]
      BY <2>1
    <3>1. e[1] = m.term /\ e[2] = n
      OBVIOUS
    <3>2. \A v \in granted : Backs(v, e[1], e[2])'
      BY <1>9, <3>1
    <3>3. \A f \in elected' : e[1] = f[1] => e[2] = f[2]
      BY <2>1, <2>3, <3>1
    <3> HIDE DEF granted
    <3> QED  BY <2>2, <3>2, <3>3
  <2> QED  BY <1>1, <1>4, <1>7, <1>10, <2>1, <2>4, StepKeepsInv
<1> QED  BY <1>11, <1>12

LEMMA InitElection == Init => ElectionInv
BY InitType DEF Init, ElectionInv, VotesBacked, GrantsBacked, TalliesBacked, LeadersBacked,
   ElectionSafety

LEMMA NextElection ==
    ASSUME ElectionInv, [Next]_vars
    PROVE  ElectionInv'
<1>1. TypeOK
  BY DEF ElectionInv
<1>2. CASE UNCHANGED vars
  <2>1. QuietStep
    BY <1>2 DEF vars, QuietStep
  <2> QED  BY <2>1, QuietKeepsInv
<1>3. ASSUME NEW n \in Node,
             \/ LeaderContactLapses(n) \/ HeartbeatTimeout(n) \/ Kill(n) \/ Revive(n)
             \/ \E c \in Command : Propose(n, c)
      PROVE  ElectionInv'
  <2>1. CASE LeaderContactLapses(n) \/ Kill(n)
    <3>1. QuietStep
      BY <2>1 DEF LeaderContactLapses, Kill, QuietStep, storageVars, electionVars
    <3> QED  BY <3>1, QuietKeepsInv
  <2>2. CASE Revive(n)
    <3>1. QuietStep
      BY <1>1, <2>2 DEF Revive, QuietStep, storageVars, TypeOK
    <3> QED  BY <3>1, QuietKeepsInv
  <2>3. CASE HeartbeatTimeout(n)
    <3>1. \A m \in msgs' \ msgs : ~IsGrant(m)
      BY <2>3 DEF HeartbeatTimeout, Send, Sent, AppendTo, IsGrant
    <3>2. QuietStep
      BY <2>3, <3>1 DEF HeartbeatTimeout, QuietStep, storageVars, electionVars
    <3> QED  BY <3>2, QuietKeepsInv
  <2>4. ASSUME NEW c \in Command, Propose(n, c)
        PROVE  ElectionInv'
    <3>1. \A m \in msgs' \ msgs : ~IsGrant(m)
      BY <2>4 DEF Propose, Send, Sent, AppendTo, IsGrant
    <3>2. QuietStep
      BY <2>4, <3>1 DEF Propose, QuietStep, electionVars
    <3> QED  BY <3>2, QuietKeepsInv
  <2> QED  BY <1>3, <2>1, <2>2, <2>3, <2>4
<1>4. ASSUME NEW n \in Node, ElectionTimeout(n)
      PROVE  ElectionInv'
  <2>1. \A m \in msgs' \ msgs : ~IsGrant(m)
    BY <1>4 DEF ElectionTimeout, Send, Sent, VoteRequests, IsGrant
  <2>2. CASE Majority = 1
    BY <1>4, <2>1, <2>2, CandidateKeepsInv DEF ElectionTimeout
  <2>3. CASE Majority # 1
    <3>1. QuietStep
      BY <1>1, <1>4, <2>1, <2>3 DEF ElectionTimeout, PreVoteRole, QuietStep, TypeOK, storageVars
    <3> QED  BY <3>1, QuietKeepsInv
  <2> QED  BY <2>2, <2>3
<1>5. ASSUME NEW m \in msgs, Receive(m)
      PROVE  ElectionInv'
  <2>1. m \in Message /\ m.dst \in Node /\ m.src \in Node /\ m.term \in Nat
    BY <1>1, MessageFields DEF TypeOK
  <2>2. CASE \/ ReceivePreVote(m) \/ RejectStaleAppend(m) \/ IgnoreReply(m)
             \/ ReceiveAppendSuccess(m) \/ ReceiveAppendFailure(m)
    <3>1. \A r \in msgs' \ msgs : ~IsGrant(r)
      BY <2>2 DEF ReceivePreVote, RejectStaleAppend, IgnoreReply, ReceiveAppendSuccess,
         ReceiveAppendFailure, Consume, Sent, VoteReplyTo, AppendReplyTo, AppendTo, IsGrant
    <3>2. UNCHANGED <<currentTerm, state, votesReceived, elected>>
      BY <2>2 DEF ReceivePreVote, RejectStaleAppend, IgnoreReply, ReceiveAppendSuccess,
         ReceiveAppendFailure, storageVars, electionVars
    <3>3. QuietStep
      BY <3>1, <3>2 DEF QuietStep
    <3> QED  BY <3>3, QuietKeepsInv
  <2>3. CASE RejectConflictingAppend(m) \/ AcceptAppend(m)
    <3>1. \A r \in msgs' \ msgs : ~IsGrant(r)
      BY <2>3 DEF RejectConflictingAppend, AcceptAppend, Consume, Sent, AppendReplyTo, IsGrant
    <3>2. FollowLeader(m)
      BY <2>3 DEF RejectConflictingAppend, AcceptAppend
    <3>3. QuietStep
      BY <1>1, <2>1, <3>1, <3>2 DEF FollowLeader, QuietStep, TypeOK
    <3> QED  BY <3>3, QuietKeepsInv
  <2>4. CASE ReceiveNewerTerm(m)
    <3>1. QuietStep
      BY <1>1, <2>1, <2>4 DEF ReceiveNewerTerm, BecomeFollower, Consume, Sent, QuietStep, TypeOK
    <3> QED  BY <3>1, QuietKeepsInv
  <2>5. CASE ReceivePreVoteReply(m)
    <3>1. \A r \in msgs' \ msgs : ~IsGrant(r)
      BY <2>5 DEF ReceivePreVoteReply, Consume, Sent, VoteRequests, IsGrant
    <3>2. CASE BecomeCandidate(m.dst)
      BY <2>1, <3>1, <3>2, CandidateKeepsInv
    <3>3. CASE UNCHANGED <<currentTerm, votedFor, state, leaderId, votesReceived, elected>>
      <4>1. QuietStep
        BY <3>1, <3>3 DEF QuietStep
      <4> QED  BY <4>1, QuietKeepsInv
    <3> QED  BY <2>5, <3>2, <3>3 DEF ReceivePreVoteReply
  <2>6. CASE ReceiveRequestVoteReply(m)
    BY <2>6, TallyKeepsInv
  <2>7. CASE ReceiveRequestVote(m)
    <3> DEFINE n == m.dst
               newer == m.term > currentTerm[n]
               term == IF newer THEN m.term ELSE currentTerm[n]
               voted == IF newer THEN None ELSE votedFor[n]
               grant == GrantsVote(m, term, voted)
    <3>1. /\ currentTerm' = [currentTerm EXCEPT ![n] = term]
          /\ votedFor' = [votedFor EXCEPT ![n] = IF grant THEN m.src ELSE voted]
          /\ state' = [state EXCEPT ![n] = IF newer THEN "FOLLOWER" ELSE @]
          /\ votesReceived' = [votesReceived EXCEPT ![n] = IF newer THEN {} ELSE @]
          /\ Consume(m, {VoteReplyTo(m, "RequestVoteReply", term, grant)})
          /\ elected' = elected
      BY <2>7 DEF ReceiveRequestVote
    <3>2. CASE grant
      <4>1. m.term = term /\ voted \in {None, m.src}
        BY <3>2 DEF GrantsVote, CanVote
      <4>2. m.term >= currentTerm[n] /\ (newer \/ votedFor[n] \in {None, m.src})
        BY <1>1, <2>1, <4>1 DEF TypeOK
      <4>3. votedFor'[n] = m.src
        BY <1>1, <2>1, <3>1, <3>2 DEF TypeOK
      <4> QED  BY <2>7, <4>2, <4>3, GrantKeepsInv
    <3>3. CASE ~grant
      <4>1. \A r \in msgs' \ msgs : ~IsGrant(r)
        <5> HIDE DEF grant
        <5>1. \A r \in msgs' \ msgs : r = VoteReplyTo(m, "RequestVoteReply", term, grant)
          BY <3>1 DEF Consume, Sent
        <5>2. VoteReplyTo(m, "RequestVoteReply", term, grant).granted = grant
          BY DEF VoteReplyTo
        <5> QED  BY <3>3, <5>1, <5>2 DEF IsGrant
      <4>2. QuietStep
        <5> HIDE DEF grant
        <5> QED  BY <1>1, <2>1, <3>1, <4>1 DEF QuietStep, TypeOK
      <4> QED  BY <4>2, QuietKeepsInv
    <3> QED  BY <3>2, <3>3
  <2> QED  BY <1>5, <2>2, <2>3, <2>4, <2>5, <2>6, <2>7 DEF Receive
<1> QED  BY <1>2, <1>3, <1>4, <1>5 DEF Next, Step

\* The votes behind every leader, every tally and every grant in flight
\* agree, in every reachable state of every cluster.
THEOREM VotesAlwaysBacked == Spec => []VotesBacked
<1>1. Init => ElectionInv
  BY InitElection
<1>2. ElectionInv /\ [Next]_vars => ElectionInv'
  BY NextElection
<1>3. ElectionInv => VotesBacked
  BY DEF ElectionInv
<1> QED  BY <1>1, <1>2, <1>3, PTL DEF Spec

\* At most one leader per term, whatever the size of the cluster and whatever
\* is lost, delayed, reordered or restarted, as long as storage survives.
THEOREM OneLeaderPerTerm == Spec => []ElectionSafety
<1>1. Init => ElectionInv
  BY InitElection
<1>2. ElectionInv /\ [Next]_vars => ElectionInv'
  BY NextElection
<1>3. ElectionInv => ElectionSafety
  BY DEF ElectionInv
<1> QED  BY <1>1, <1>2, <1>3, PTL DEF Spec
=============================================================================
