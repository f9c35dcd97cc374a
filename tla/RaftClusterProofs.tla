------------------------- MODULE RaftClusterProofs --------------------------
(***************************************************************************)
(* The cluster with its clients: a transaction recorded as failed is       *)
(* final, and neither double spending nor a second leader of a term comes  *)
(* of a runtime that was replaced while a client had it in hand.  Unless   *)
(* one is used that was, the cluster is Raft: logs, commits and ledgers    *)
(* agree.                                                                  *)
(***************************************************************************)
EXTENDS RaftLedgerProofs, RaftCluster

-----------------------------------------------------------------------------
(* Where the commands in logs and requests come from.                      *)

KnownLogs(K) == \A n \in Node : \A i \in 1..Len(log[n]) : log[n][i].command \in K

KnownRequests(K) ==
    \A m \in msgs : IsAppend(m) => \A i \in 1..Len(m.entries) : m.entries[i].command \in K

\* A request holds entries of its sender's log.
LEMMA FromKnown ==
    ASSUME NEW l \in Seq(Entry), NEW K, \A i \in 1..Len(l) : l[i].command \in K, NEW next \in Nat \ {0}
    PROVE  \A i \in 1..Len(EntriesFrom(l, next)) : EntriesFrom(l, next)[i].command \in K
<1>1. Len(l) \in Nat /\ \A i \in 1..Len(l) : l[i] \in Entry
  BY EntriesTyped
<1>2. EntriesFrom(l, next) = SubSeq(l, next, Len(l))
  BY DEF EntriesFrom
<1>3. PICK s : s = SubSeq(l, next, Len(l))
  OBVIOUS
<1>4. CASE next > Len(l)
  <2>1. s = <<>>
    BY <1>1, <1>3, <1>4, SubSeqEmpty
  <2> QED  BY <1>2, <1>3, <2>1, EmptySeq
<1>5. CASE next <= Len(l)
  <2>1. \A i \in next..Len(l) : l[i] \in Entry
    BY <1>1
  <2>2. Len(s) = Len(l) - next + 1 /\ \A i \in 1..(Len(l) - next + 1) : s[i] = l[next + i - 1]
    BY <1>1, <1>3, <1>5, <2>1, SubSeqProperties
  <2>3. ASSUME NEW i \in 1..Len(s) PROVE s[i].command \in K
    <3>1. next + i - 1 \in 1..Len(l) /\ i \in 1..(Len(l) - next + 1)
      BY <1>1, <1>5, <2>2
    <3> QED  BY <2>2, <3>1
  <2> QED  BY <1>2, <1>3, <2>3
<1> QED  BY <1>1, <1>4, <1>5

LEMMA RequestsStayKnown ==
    ASSUME TypeOK', RequestStep, NEW K, NEW L, K \subseteq L, KnownRequests(K), KnownLogs(L)'
    PROVE  KnownRequests(L)'
<1> SUFFICES ASSUME NEW m \in msgs', IsAppend(m)
             PROVE  \A i \in 1..Len(m.entries) : m.entries[i].command \in L
  BY DEF KnownRequests, IsAppend
<1>1. CASE m \in msgs
  BY <1>1 DEF KnownRequests
<1>2. CASE m \notin msgs
  <2>1. PICK n, l, next : /\ n = m.src /\ l = log'[n] /\ n \in Node /\ next \in Nat \ {0}
                          /\ m = AppendTo(n, m.dst, l, next, currentTerm'[n])
    BY <1>2 DEF RequestStep
  <2>2. m.entries = EntriesFrom(l, next)
    BY <2>1 DEF AppendTo
  <2>3. l \in Seq(Entry) /\ \A i \in 1..Len(l) : l[i].command \in L
    BY <2>1 DEF TypeOK, KnownLogs
  <2> QED  BY <2>1, <2>2, <2>3, FromKnown
<1> QED  BY <1>1, <1>2

\* One log grows by one command.
LEMMA AppendKnown ==
    ASSUME TypeOK, NEW n \in Node, NEW c \in Command, NEW K, NEW L, K \subseteq L, c \in L,
           KnownLogs(K),
           log' = [log EXCEPT ![n] = Append(log[n], [term |-> currentTerm[n], command |-> c])]
    PROVE  KnownLogs(L)' /\ log' \in [Node -> Seq(Entry)] /\ log'[n] \in Seq(Entry)
<1>1. PICK e, l : e = [term |-> currentTerm[n], command |-> c] /\ l = log[n]
  OBVIOUS
<1>2. e \in Entry /\ e.command = c /\ l \in Seq(Entry) /\ Len(l) \in Nat
  BY <1>1, LenProperties DEF TypeOK, Entry
<1>3. /\ Append(l, e) \in Seq(Entry) /\ Len(Append(l, e)) = Len(l) + 1
      /\ \A i \in 1..Len(l) : Append(l, e)[i] = l[i]
      /\ Append(l, e)[Len(l) + 1] = e
  BY <1>2, AppendProperties
<1>4. log' \in [Node -> Seq(Entry)] /\ log'[n] = Append(l, e)
  BY <1>1, <1>3 DEF TypeOK
<1>5. ASSUME NEW i \in 1..Len(log'[n]) PROVE log'[n][i].command \in L
  <2>1. i \in 1..Len(l) \/ i = Len(l) + 1
    BY <1>2, <1>3, <1>4
  <2>2. CASE i \in 1..Len(l)
    BY <1>1, <1>3, <1>4, <2>2 DEF KnownLogs
  <2> QED  BY <1>2, <1>3, <1>4, <2>1, <2>2
<1>6. ASSUME NEW p \in Node, p # n, NEW i \in 1..Len(log'[p]) PROVE log'[p][i].command \in L
  <2>1. log'[p] = log[p]
    BY <1>6 DEF TypeOK
  <2> QED  BY <2>1 DEF KnownLogs
<1> QED  BY <1>3, <1>4, <1>5, <1>6 DEF KnownLogs

\* Every entry of a merged log was in the log or in the request.
LEMMA MergedFrom ==
    ASSUME NEW l \in Seq(Entry), NEW entries \in Seq(Entry),
           NEW prev \in Nat, prev <= Len(l),
           NEW r, r = MergeEntries(l, prev, entries), NEW i \in 1..Len(r)
    PROVE  \/ i \in 1..Len(l) /\ r[i] = l[i]
           \/ i - prev \in 1..Len(entries) /\ r[i] = entries[i - prev]
<1>1. Len(l) \in Nat /\ Len(entries) \in Nat
  BY LenProperties
<1>2. PICK b \in prev..(prev + Len(entries)) :
             /\ b <= Len(l)
             /\ \A k \in 1..(b - prev) : l[prev + k].term = entries[k].term
             /\ \/ b = prev + Len(entries) /\ MergeEntries(l, prev, entries) = l
                \/ /\ b < prev + Len(entries)
                   /\ Len(MergeEntries(l, prev, entries)) = prev + Len(entries)
                   /\ \A j \in 1..b : MergeEntries(l, prev, entries)[j] = l[j]
                   /\ \A j \in (b + 1)..(prev + Len(entries)) :
                        MergeEntries(l, prev, entries)[j] = entries[j - prev]
                   /\ b + 1 <= Len(l) => l[b + 1].term # entries[b + 1 - prev].term
  BY MergeShape
<1>3. CASE r = l
  BY <1>3
<1>4. CASE r # l
  <2>1. /\ Len(r) = prev + Len(entries)
        /\ \A j \in 1..b : r[j] = l[j]
        /\ \A j \in (b + 1)..(prev + Len(entries)) : r[j] = entries[j - prev]
    BY <1>2, <1>4
  <2>2. b \in Nat /\ prev <= b /\ b <= Len(l) /\ i \in Nat /\ 1 <= i /\ i <= prev + Len(entries)
    BY <1>1, <1>2, <2>1
  <2>3. CASE i <= b
    <3>1. i \in 1..b /\ i \in 1..Len(l)
      BY <1>1, <2>2, <2>3
    <3> QED  BY <2>1, <3>1
  <2>4. CASE b < i
    <3>1. i \in (b + 1)..(prev + Len(entries)) /\ i - prev \in 1..Len(entries)
      BY <1>1, <2>2, <2>4
    <3> QED  BY <2>1, <3>1
  <2> QED  BY <2>2, <2>3, <2>4
<1> QED  BY <1>3, <1>4

\* A follower takes entries of the request or keeps its own.
LEMMA AcceptKnown ==
    ASSUME TypeOK, NEW m \in msgs, AcceptAppend(m), NEW K, KnownLogs(K), KnownRequests(K)
    PROVE  KnownLogs(K)'
<1>1. m.dst \in Node /\ m \in AppendArgs /\ IsAppend(m)
  BY MessageFields DEF TypeOK, AcceptAppend, FollowLeader, IsAppend
<1>2. PICK n, l, s, prev : n = m.dst /\ l = log[n] /\ s = m.entries /\ prev = m.prevIndex
  OBVIOUS
<1>3. /\ n \in Node /\ l \in Seq(Entry) /\ s \in Seq(Entry) /\ prev \in Nat
      /\ Len(l) \in Nat /\ Len(s) \in Nat
  BY <1>1, <1>2, LenProperties DEF TypeOK, AppendArgs
<1>4. prev <= Len(l) /\ log' = [log EXCEPT ![n] = MergeEntries(l, prev, s)]
  BY <1>2, <1>3 DEF AcceptAppend
<1>5. PICK k : k = MergeEntries(l, prev, s)
  OBVIOUS
<1>6. ASSUME NEW i \in 1..Len(k) PROVE k[i].command \in K
  <2>1. \A j \in 1..Len(l) : l[j].command \in K
    BY <1>2, <1>3 DEF KnownLogs
  <2>2. \A j \in 1..Len(s) : s[j].command \in K
    BY <1>1, <1>2 DEF KnownRequests
  <2>3. \/ i \in 1..Len(l) /\ k[i] = l[i]
        \/ i - prev \in 1..Len(s) /\ k[i] = s[i - prev]
    BY <1>3, <1>4, <1>5, MergedFrom
  <2> QED  BY <2>1, <2>2, <2>3
<1>7. log'[n] = k /\ \A p \in Node : p # n => log'[p] = log[p]
  BY <1>3, <1>4, <1>5 DEF TypeOK
<1> QED  BY <1>6, <1>7 DEF KnownLogs

-----------------------------------------------------------------------------
(* The client.                                                             *)

\* What the client has in hand while it proposes: the command, a runtime, and
\* what is left of its RaftNode if it was replaced.
ClientType ==
    /\ proposing \in Command \cup {None}
    /\ held # None =>
         /\ proposing # None
         /\ held = [id |-> held.id, old |-> held.old] /\ held.id \in Node
         /\ held.old # None =>
              held.old.next \in [Peers(held.id) -> Nat \ {0}] /\ held.old.commit \in Nat

\* Every entry anywhere is one that the client counts as submitted, or belongs
\* to a call that it gave up.
EntriesKnown ==
    /\ KnownLogs(submitted \cup timedOut)
    /\ KnownRequests(submitted \cup timedOut)

ClusterInv == TypeOK /\ ClientType /\ EntriesKnown

\* A proposal is counted in the step that appends it; calls stay timed out.
Accounts(K, L) == K = submitted \cup timedOut /\ L = submitted' \cup timedOut'

LEMMA ProposalKnown ==
    ASSUME ClusterInv, NEW n \in Node, NEW c \in Command, Propose(n, c),
           Cardinality(msgs') <= MaxInFlight,
           NEW K, NEW L, Accounts(K, L), K \subseteq L, c \in L
    PROVE  TypeOK' /\ EntriesKnown'
<1>1. TypeOK /\ TypeOK'
  BY ProposeType DEF ClusterInv
<1>2. KnownLogs(K) /\ KnownRequests(K)
  BY DEF ClusterInv, EntriesKnown, Accounts
<1>3. log' = [log EXCEPT ![n] = Append(log[n], [term |-> currentTerm[n], command |-> c])]
  BY DEF Propose
<1>4. KnownLogs(L)'
  BY <1>1, <1>2, <1>3, AppendKnown
<1>5. RequestStep
  BY <1>1, ProposeShape
<1>6. KnownRequests(L)'
  BY <1>1, <1>2, <1>4, <1>5, RequestsStayKnown
<1> QED  BY <1>1, <1>4, <1>6 DEF EntriesKnown, Accounts, KnownLogs, KnownRequests

\* Nothing but a proposal brings a new command.
WithoutProposal ==
    \/ UNCHANGED vars
    \/ \E n \in Node : \/ LeaderContactLapses(n) \/ ElectionTimeout(n)
                       \/ HeartbeatTimeout(n) \/ Kill(n) \/ Revive(n)
    \/ \E m \in msgs : Receive(m)

LEMMA NodeStepKnown ==
    ASSUME ClusterInv, submitted \subseteq submitted', timedOut \subseteq timedOut',
           WithoutProposal, UNCHANGED vars \/ Cardinality(msgs') <= MaxInFlight
    PROVE  TypeOK' /\ EntriesKnown'
<1>1. [Next]_vars
  BY DEF Next, Step, WithoutProposal
<1>2. TypeOK /\ TypeOK' /\ RequestStep
  BY <1>1, NextType, NextShape DEF ClusterInv
<1>3. PICK K : K = submitted \cup timedOut
  OBVIOUS
<1>4. KnownLogs(K) /\ KnownRequests(K)
  BY <1>3 DEF ClusterInv, EntriesKnown
<1>5. ASSUME UNCHANGED log PROVE KnownLogs(K)'
  BY <1>4, <1>5 DEF KnownLogs
<1>6. ASSUME UNCHANGED vars PROVE KnownLogs(K)'
  <2>1. UNCHANGED log
    BY <1>6 DEF vars
  <2> QED  BY <1>5, <2>1
<1>7. ASSUME NEW n \in Node, \/ LeaderContactLapses(n) \/ ElectionTimeout(n)
                             \/ HeartbeatTimeout(n) \/ Kill(n) \/ Revive(n)
      PROVE  KnownLogs(K)'
  <2>1. UNCHANGED log
    BY <1>7 DEF LeaderContactLapses, ElectionTimeout, HeartbeatTimeout, Kill, Revive, storageVars
  <2> QED  BY <1>5, <2>1
<1>8. ASSUME NEW m \in msgs, Receive(m) PROVE KnownLogs(K)'
  <2>1. CASE AcceptAppend(m)
    BY <1>2, <1>4, <2>1, AcceptKnown
  <2>2. CASE ~AcceptAppend(m)
    <3>1. UNCHANGED log
      BY <1>8, <2>2 DEF Receive, ReceivePreVote, ReceiveRequestVote, RejectStaleAppend,
         RejectConflictingAppend, ReceiveNewerTerm, IgnoreReply, ReceivePreVoteReply,
         ReceiveRequestVoteReply, ReceiveAppendSuccess, ReceiveAppendFailure, storageVars
    <3> QED  BY <1>5, <3>1
  <2> QED  BY <2>1, <2>2
<1>9. KnownLogs(K)'
  BY <1>6, <1>7, <1>8 DEF WithoutProposal
<1>10. KnownRequests(K)'
  BY <1>2, <1>4, <1>9, RequestsStayKnown
<1>11. K \subseteq submitted' \cup timedOut'
  BY <1>3
<1> QED  BY <1>2, <1>9, <1>10, <1>11 DEF EntriesKnown, KnownLogs, KnownRequests

\* The RaftNode behind a runtime in hand, current or replaced.
LEMMA HeldNodeType ==
    ASSUME TypeOK, ClientType, held # None
    PROVE  /\ held.id \in Node /\ HeldNode.next \in [Peers(held.id) -> Nat \ {0}]
           /\ HeldNode.commit \in Nat
<1>1. held.id \in Node
  BY DEF ClientType
<1>2. CASE held.old # None
  BY <1>1, <1>2 DEF ClientType, HeldNode
<1>3. CASE held.old = None
  <2>1. nextIndex[held.id] \in [Peers(held.id) -> Nat \ {0}] /\ commitIndex[held.id] \in Nat
    BY <1>1 DEF TypeOK
  <2> QED  BY <1>1, <1>3, <2>1 DEF HeldNode
<1> QED  BY <1>2, <1>3

\* A request in the name of a RaftNode that was replaced.
LateAppend(n, p, l, next, term, commit) ==
    [AppendTo(n, p, l, next, term) EXCEPT !.commit = commit]

LEMMA StoppedRequest ==
    ASSUME TypeOK, NEW n \in Node, NEW p \in Peers(n), NEW l \in Seq(Entry),
           NEW next \in Nat \ {0}, NEW term \in Nat, NEW commit \in Nat
    PROVE  /\ LateAppend(n, p, l, next, term, commit) \in Message
           /\ LateAppend(n, p, l, next, term, commit).entries = EntriesFrom(l, next)
<1>0. PICK m : m = LateAppend(n, p, l, next, term, commit)
  OBVIOUS
<1>1. PICK r : r = AppendTo(n, p, l, next, term)
  OBVIOUS
<1>2. /\ r \in Message /\ r.type = "AppendEntriesArgs" /\ r.entries = EntriesFrom(l, next)
      /\ r.src = n /\ r.dst = p
  BY <1>1, AppendToType DEF AppendTo
<1>3. r \in AppendArgs /\ p # n
  BY <1>2, MessageFields DEF Peers
<1>4. m = [r EXCEPT !.commit = commit]
  BY <1>0, <1>1 DEF LateAppend
<1>5. m \in AppendArgs /\ m.entries = r.entries /\ m.src = n /\ m.dst = p
  BY <1>2, <1>3, <1>4 DEF AppendArgs
<1>6. m \in Message
  BY <1>2, <1>3, <1>5 DEF Message
<1> QED  BY <1>0, <1>2, <1>5, <1>6

LEMMA StoppedProposalKnown ==
    ASSUME ClusterInv, ProposeToStopped PROVE TypeOK' /\ EntriesKnown'
<1>1. TypeOK /\ ClientType /\ held # None
  BY DEF ClusterInv, ProposeToStopped, AppendToStopped
<1>2. PICK n, c, t, next, commit :
        /\ n = held.id /\ c = proposing /\ t = currentTerm[n]
        /\ next = HeldNode.next /\ commit = HeldNode.commit
  OBVIOUS
<1>3. /\ n \in Node /\ c \in Command /\ t \in Nat
      /\ next \in [Peers(n) -> Nat \ {0}] /\ commit \in Nat
  BY <1>1, <1>2, HeldNodeType DEF ClientType, TypeOK
<1>4. PICK K, L : Accounts(K, L)
  BY DEF Accounts
<1>5. K \subseteq L /\ c \in L
  BY <1>2, <1>4 DEF ProposeToStopped, CountSubmitted, Accounts
<1>6. KnownLogs(K) /\ KnownRequests(K)
  BY <1>4 DEF ClusterInv, EntriesKnown, Accounts
<1>7. PICK l : l = Append(log[n], [term |-> t, command |-> c])
  OBVIOUS
<1>8. /\ log' = [log EXCEPT ![n] = l]
      /\ UNCHANGED <<currentTerm, votedFor, electionVars, commitVars, leaderVars, down, elected>>
  BY <1>2, <1>7 DEF ProposeToStopped, AppendToStopped
<1>9. KnownLogs(L)' /\ log' \in [Node -> Seq(Entry)] /\ log'[n] \in Seq(Entry)
  BY <1>1, <1>2, <1>3, <1>5, <1>6, <1>7, <1>8, AppendKnown
<1>10. log'[n] = l /\ l \in Seq(Entry) /\ \A i \in 1..Len(l) : l[i].command \in L
  BY <1>1, <1>3, <1>8, <1>9 DEF TypeOK, KnownLogs
<1> DEFINE S == {[AppendTo(n, p, l, next[p], t) EXCEPT !.commit = commit] : p \in Peers(n)}
<1>11. msgs' \subseteq msgs \cup S
  <2>1. CASE n \in down
    BY <1>2, <2>1 DEF ProposeToStopped, AppendToStopped
  <2>2. CASE n \notin down
    <3>1. Send(S)
      BY <1>2, <1>7, <2>2 DEF ProposeToStopped, AppendToStopped
    <3> HIDE DEF S
    <3> QED  BY <3>1 DEF Send, Sent
  <2> QED  BY <2>1, <2>2
<1>12. ASSUME NEW m \in S
       PROVE  m \in Message /\ \A i \in 1..Len(m.entries) : m.entries[i].command \in L
  <2>1. PICK p \in Peers(n) : m = [AppendTo(n, p, l, next[p], t) EXCEPT !.commit = commit]
    OBVIOUS
  <2>2. PICK x \in Nat \ {0} : x = next[p]
    BY <1>3
  <2>3. m \in Message /\ m.entries = EntriesFrom(l, x)
    <3>1. m = LateAppend(n, p, l, x, t, commit)
      BY <2>1, <2>2 DEF LateAppend
    <3>2. /\ TypeOK /\ n \in Node /\ l \in Seq(Entry) /\ t \in Nat /\ commit \in Nat
          /\ p \in Peers(n) /\ x \in Nat \ {0}
      BY <1>1, <1>3, <1>10
    <3> HIDE DEF S
    <3>3. /\ LateAppend(n, p, l, x, t, commit) \in Message
          /\ LateAppend(n, p, l, x, t, commit).entries = EntriesFrom(l, x)
      BY ONLY <3>2, StoppedRequest
    <3> QED  BY <3>1, <3>3
  <2>4. \A i \in 1..Len(EntriesFrom(l, x)) : EntriesFrom(l, x)[i].command \in L
    BY <1>10, FromKnown
  <2> QED  BY <2>3, <2>4
<1> HIDE DEF S
<1>13. msgs' \subseteq Message
  BY <1>1, <1>11, <1>12 DEF TypeOK
<1>14. KnownRequests(L)'
  BY <1>5, <1>6, <1>11, <1>12 DEF KnownRequests
<1>15. TypeOK'
  BY <1>1, <1>8, <1>9, <1>13 DEF TypeOK, electionVars, commitVars, leaderVars
<1> QED  BY <1>4, <1>9, <1>14, <1>15 DEF EntriesKnown, Accounts, KnownLogs, KnownRequests

\* The client keeps a runtime in hand only while it proposes.
ClientMoves ==
    \/ proposing' \in Command /\ held' = None
    \/ proposing' = None /\ held' = None
    \/ UNCHANGED <<proposing, held>>
    \/ /\ UNCHANGED proposing /\ proposing # None
       /\ \E n \in Node : held' = [id |-> n, old |-> None]
    \/ UNCHANGED proposing /\ held' = None
    \/ /\ UNCHANGED proposing /\ held # None
       /\ held.old = None /\ held' = [held EXCEPT !.old = HeldNode]

LEMMA ClientTypeKept ==
    ASSUME TypeOK, ClientType, ClientMoves PROVE ClientType'
<1>1. CASE held' = None /\ proposing' \in Command \cup {None}
  BY <1>1 DEF ClientType
<1>2. CASE UNCHANGED <<proposing, held>>
  BY <1>2 DEF ClientType
<1>3. ASSUME UNCHANGED proposing, proposing # None,
             NEW n \in Node, held' = [id |-> n, old |-> None]
      PROVE  ClientType'
  BY <1>3 DEF ClientType
<1>4. CASE /\ UNCHANGED proposing /\ held # None
           /\ held.old = None /\ held' = [held EXCEPT !.old = HeldNode]
  <2>1. PICK n, old : n = held.id /\ old = HeldNode
    OBVIOUS
  <2>2. n \in Node /\ old.next \in [Peers(n) -> Nat \ {0}] /\ old.commit \in Nat
    BY <1>4, <2>1, HeldNodeType
  <2>3. held = [id |-> n, old |-> None] /\ proposing # None
    BY <1>4, <2>1 DEF ClientType
  <2>4. held' = [id |-> n, old |-> old]
    BY <1>4, <2>1, <2>3
  <2> QED  BY <1>4, <2>2, <2>3, <2>4 DEF ClientType
<1>5. proposing \in Command \cup {None}
  BY DEF ClientType
<1> QED  BY <1>1, <1>2, <1>3, <1>4, <1>5 DEF ClientMoves

LEMMA ClusterStep ==
    ASSUME ClusterInv, [ClusterNext]_clusterVars PROVE ClusterInv'
<1> USE DEF ClusterInv
<1>1. CASE UNCHANGED clusterVars
  <2>1. UNCHANGED vars /\ UNCHANGED <<submitted, timedOut, proposing, held>>
    BY <1>1 DEF clusterVars, clientVars
  <2> QED  BY <2>1, NodeStepKnown, ClientTypeKept DEF ClientMoves, WithoutProposal
<1>2. CASE ClusterNext /\ NodeStep
  <2>1. UNCHANGED <<submitted, timedOut, proposing, held>> /\ WithoutProposal
    BY <1>2 DEF NodeStep, clientVars, WithoutProposal
  <2>2. Cardinality(msgs') <= MaxInFlight
    BY <1>2 DEF ClusterNext
  <2> QED  BY <2>1, <2>2, NodeStepKnown, ClientTypeKept DEF ClientMoves
<1>3. ASSUME NEW n \in Node, ClusterNext, KillNode(n) \/ ReviveNode(n) PROVE ClusterInv'
  <2>1. UNCHANGED <<submitted, timedOut>> /\ WithoutProposal
    BY <1>3 DEF KillNode, ReviveNode, clientVars, WithoutProposal
  <2>2. ClientMoves
    BY <1>3 DEF KillNode, ReviveNode, clientVars, ClientMoves
  <2>3. Cardinality(msgs') <= MaxInFlight
    BY <1>3 DEF ClusterNext
  <2> QED  BY <2>1, <2>2, <2>3, NodeStepKnown, ClientTypeKept
<1>4. ASSUME \/ \E c \in Command : TakeCleared(c)
             \/ GiveUp \/ ProposalRefused \/ CallTimesOut
             \/ \E n \in Node : FindLeader(n)
      PROVE  ClusterInv'
  <2>1. UNCHANGED vars /\ UNCHANGED submitted /\ timedOut \subseteq timedOut'
    BY <1>4 DEF TakeCleared, GiveUp, ProposalRefused, CallTimesOut, FindLeader
  <2>2. ClientMoves
    <3>1. CASE \E c \in Command : TakeCleared(c)
      BY <3>1 DEF TakeCleared, ClientMoves, ClientType
    <3>2. CASE GiveUp
      BY <3>2 DEF GiveUp, ClientMoves
    <3>3. CASE ProposalRefused
      BY <3>3 DEF ProposalRefused, ClientMoves
    <3>4. CASE CallTimesOut
      BY <3>4 DEF CallTimesOut, ClientMoves
    <3>5. CASE \E n \in Node : FindLeader(n)
      BY <3>5 DEF FindLeader, ClientMoves
    <3> QED  BY <1>4, <3>1, <3>2, <3>3, <3>4, <3>5
  <2> QED  BY <2>1, <2>2, NodeStepKnown, ClientTypeKept DEF WithoutProposal
<1>5. ASSUME NEW n \in Node, NEW c \in Command, ClusterNext, Propose(n, c),
             \/ c = proposing /\ CountSubmitted
             \/ c \in timedOut /\ UNCHANGED clientVars
      PROVE  ClusterInv'
  <2>1. PICK K, L : Accounts(K, L)
    BY DEF Accounts
  <2>2. K \subseteq L /\ c \in L /\ ClientMoves
    BY <1>5, <2>1 DEF Accounts, CountSubmitted, clientVars, ClientMoves
  <2>3. Cardinality(msgs') <= MaxInFlight
    BY <1>5 DEF ClusterNext
  <2> QED  BY <1>5, <2>1, <2>2, <2>3, ProposalKnown, ClientTypeKept
<1>6. CASE ClusterNext /\ ProposeToLeader
  <2>1. /\ Propose(held.id, proposing) /\ CountSubmitted /\ held.id \in Node
        /\ proposing \in Command
    BY <1>6 DEF ProposeToLeader, ClientType
  <2> QED  BY <1>5, <1>6, <2>1
<1>7. ASSUME NEW n \in Node, ClusterNext, CallAccepted(n) PROVE ClusterInv'
  <2>1. Propose(n, proposing) /\ CountSubmitted /\ proposing \in Command
    BY <1>7 DEF CallAccepted, ClientType
  <2> QED  BY <1>5, <1>7, <2>1
<1>8. ASSUME NEW n \in Node, NEW c \in Command, ClusterNext, LateCallAccepted(n, c)
      PROVE  ClusterInv'
  BY <1>5, <1>8 DEF LateCallAccepted
<1>9. CASE ProposeToStopped
  <2>1. ClientMoves
    BY <1>9 DEF ProposeToStopped, CountSubmitted, ClientMoves
  <2> QED  BY <1>9, <2>1, StoppedProposalKnown, ClientTypeKept
<1> QED  BY <1>1, <1>2, <1>3, <1>4, <1>6, <1>7, <1>8, <1>9 DEF ClusterNext, ClientStep

LEMMA ClusterStart == Init /\ ClientInit => ClusterInv
<1> SUFFICES ASSUME Init, ClientInit PROVE ClusterInv
  OBVIOUS
<1>1. TypeOK /\ ClientType
  BY InitType DEF ClientInit, ClientType
<1>2. \A n \in Node : Len(log[n]) = 0
  BY EmptySeq DEF Init
<1>3. msgs = {}
  BY DEF Init
<1>4. EntriesKnown
  BY <1>2, <1>3 DEF EntriesKnown, KnownLogs, KnownRequests
<1> QED  BY <1>1, <1>4 DEF ClusterInv

LEMMA ClusterInvariant == ClusterSpec => []ClusterInv
BY ClusterStart, ClusterStep, PTL DEF ClusterSpec

\* A transaction that is recorded as failed and never as submitted has no entry
\* in any log, unless a call of the client went unanswered, for every cluster and
\* whatever became of the runtimes that propose() had in hand.
THEOREM FailuresAreFinal == ClusterSpec => []FailureIsFinal
<1>1. ClusterInv => FailureIsFinal
  BY DEF ClusterInv, EntriesKnown, KnownLogs, FailureIsFinal, InSomeLog
<1> QED  BY <1>1, ClusterInvariant, PTL

\* Whatever the clients do, no step but a commit or a restart touches what a
\* replica has applied.
LEMMA ClusterAppliesOnly ==
    ASSUME [ClusterNext]_clusterVars PROVE AppliesOnly
<1>1. CASE UNCHANGED vars
  BY <1>1 DEF AppliesOnly, vars, commitVars
<1>2. ASSUME NEW n, NEW c, Propose(n, c) PROVE AppliesOnly
  BY <1>2 DEF AppliesOnly, Propose
<1>3. CASE NodeStep
  BY <1>3 DEF AppliesOnly, NodeStep, LeaderContactLapses, ElectionTimeout, HeartbeatTimeout
<1>4. ASSUME NEW n \in Node, KillNode(n) \/ ReviveNode(n) PROVE AppliesOnly
  BY <1>4 DEF AppliesOnly, KillNode, ReviveNode, Kill
<1>5. CASE ClientStep
  <2>1. ASSUME \/ \E c \in Command : TakeCleared(c)
               \/ GiveUp \/ ProposalRefused \/ CallTimesOut
               \/ \E n \in Node : FindLeader(n)
        PROVE  UNCHANGED vars
    BY <2>1 DEF TakeCleared, GiveUp, ProposalRefused, CallTimesOut, FindLeader
  <2>2. ASSUME ProposeToStopped PROVE AppliesOnly
    BY <2>2 DEF AppliesOnly, ProposeToStopped, AppendToStopped
  <2> QED  BY <1>1, <1>2, <1>5, <2>1, <2>2 DEF ClientStep, ProposeToLeader, CallAccepted,
             LateCallAccepted
<1> QED  BY <1>1, <1>3, <1>4, <1>5 DEF ClusterNext, clusterVars

\* Double spending stays impossible in the composition with both clients, also
\* when a replaced runtime writes into a log that then no longer matches the
\* others: the books of a replica rest on apply() alone.
THEOREM ClientsNeverSpendTwice ==
    ASSUME LedgerMachine PROVE ClusterSpec => []NoDoubleSpend
<1>1. Init /\ ClientInit => BooksBalance
  BY InitBalances
<1>2. ClusterInv /\ BooksBalance /\ [ClusterNext]_clusterVars => BooksBalance'
  BY ClusterAppliesOnly, BooksKept DEF ClusterInv
<1> QED  BY <1>1, <1>2, ClusterInvariant, BalancedNotSpentTwice, PTL DEF ClusterSpec

-----------------------------------------------------------------------------
(* Elections in the composition.                                           *)

\* The step that Raft does not have: a replaced RaftNode proposes.  It sends
\* requests to append and touches no term, vote or tally.
LEMMA StoppedProposalQuiet ==
    ASSUME ClusterInv, VotesBacked, ElectionSafety, ProposeToStopped
    PROVE  ElectionInv'
<1>1. TypeOK /\ TypeOK'
  BY StoppedProposalKnown DEF ClusterInv
<1>2. UNCHANGED <<currentTerm, votedFor, state, votesReceived, elected>>
  BY DEF ProposeToStopped, AppendToStopped, electionVars
<1>3. \A m \in msgs' \ msgs : ~IsGrant(m)
  <2>1. PICK S : /\ \A m \in S : m.type = "AppendEntriesArgs"
                 /\ UNCHANGED msgs \/ Send(S)
    <3>1. PICK n, l, node : /\ n = held.id /\ node = HeldNode
                            /\ l = Append(log[n], [term |-> currentTerm[n], command |-> proposing])
      OBVIOUS
    <3> DEFINE T == {[AppendTo(n, p, l, node.next[p], currentTerm[n])
                        EXCEPT !.commit = node.commit] : p \in Peers(n)}
    <3>2. UNCHANGED msgs \/ Send(T)
      BY <3>1 DEF ProposeToStopped, AppendToStopped
    <3>3. \A m \in T : m.type = "AppendEntriesArgs"
      BY DEF AppendTo
    <3> QED  BY <3>2, <3>3
  <2>2. \A m \in msgs' \ msgs : m \in S
    BY <2>1 DEF Send, Sent
  <2> QED  BY <2>1, <2>2 DEF IsGrant
<1>4. ASSUME NEW v \in Node, NEW t \in Nat, NEW c \in Node, Backs(v, t, c)
      PROVE  Backs(v, t, c)'
  <2>1. TermAndVoteStep(v)
    BY <1>2 DEF TermAndVoteStep
  <2>2. \A d \in Node : state'[d] # "FOLLOWER" /\ currentTerm'[d] = t
                          /\ v \in votesReceived'[d] => d = c
    BY <1>2, <1>4 DEF Backs
  <2> QED  BY <1>1, <1>3, <1>4, <2>1, <2>2, BacksPreserved
<1>5. ElectionInv
  BY <1>1 DEF ElectionInv
<1> QED  BY <1>1, <1>2, <1>3, <1>4, <1>5, StepKeepsInv

\* Every other step is one of Raft, or Raft does not notice it.
LEMMA ClusterStepIsRaft ==
    ASSUME ClusterInv, [ClusterNext]_clusterVars, ~ProposeToStopped
    PROVE  [Next]_vars
<1>1. ASSUME NodeStep \/ \E n \in Node : KillNode(n) \/ ReviveNode(n) PROVE Step
  BY <1>1 DEF NodeStep, KillNode, ReviveNode, Step
<1>2. ASSUME ClientStep PROVE Step \/ UNCHANGED vars
  <2>1. proposing # None => proposing \in Command
    BY DEF ClusterInv, ClientType
  <2>2. ProposeToLeader => held.id \in Node /\ proposing \in Command
    BY <2>1 DEF ClusterInv, ClientType, ProposeToLeader
  <2> QED  BY <1>2, <2>1, <2>2 DEF ClientStep, TakeCleared, GiveUp, FindLeader,
             CallAccepted, ProposeToLeader, ProposalRefused, CallTimesOut,
             LateCallAccepted, Step
<1> QED  BY <1>1, <1>2 DEF ClusterNext, clusterVars, Next

LEMMA ClusterElection ==
    ASSUME ClusterInv, VotesBacked, ElectionSafety, [ClusterNext]_clusterVars
    PROVE  (VotesBacked /\ ElectionSafety)'
<1>1. CASE ProposeToStopped
  BY <1>1, StoppedProposalQuiet DEF ElectionInv
<1>2. CASE ~ProposeToStopped
  <2>1. [Next]_vars
    BY <1>2, ClusterStepIsRaft
  <2>2. ElectionInv
    BY DEF ClusterInv, ElectionInv
  <2> QED  BY <2>1, <2>2, NextElection DEF ElectionInv
<1> QED  BY <1>1, <1>2

\* No term ever has two leaders, in the composition with both clients and with
\* proposals that a replaced runtime writes into the storage of the current one.
THEOREM ClientsKeepElectionsSafe == ClusterSpec => []ElectionSafety
<1>1. Init => VotesBacked /\ ElectionSafety
  BY InitElection DEF ElectionInv
<1>2. ClusterInv /\ VotesBacked /\ ElectionSafety /\ [ClusterNext]_clusterVars
        => (VotesBacked /\ ElectionSafety)'
  BY ClusterElection
<1> QED  BY <1>1, <1>2, ClusterInvariant, PTL DEF ClusterSpec

-----------------------------------------------------------------------------
(* Agreement in the composition.  A killed runtime that was not replaced   *)
(* is still the leader of its storage's term, so what it writes belongs    *)
(* into the log of that term.  Only one that revive() replaced may write   *)
(* in a term of another leader.                                            *)

ProposeToReplaced == ProposeToStopped /\ held.old # None

LEMMA KilledProposal ==
    ASSUME ClusterInv, ProposeToStopped, held.old = None
    PROVE  /\ RoleStep /\ LogStep /\ RequestStep /\ CommitShape
           /\ UNCHANGED commitVars
<1>1. PICK n : n = held.id
  OBVIOUS
<1>2. n \in Node /\ n \in down /\ proposing \in Command
  BY <1>1 DEF ClusterInv, ClientType, ProposeToStopped, AppendToStopped, Stopped
<1>3. state[n] = "LEADER"
  BY <1>1 DEF ProposeToStopped, AppendToStopped, HeldNode
<1>4. /\ log' = [log EXCEPT ![n] = Append(log[n], [term |-> currentTerm[n], command |-> proposing])]
      /\ UNCHANGED <<currentTerm, state, votesReceived, matchIndex, elected, commitVars, msgs>>
  BY <1>1, <1>2 DEF ProposeToStopped, AppendToStopped, electionVars, leaderVars
<1>5. UNCHANGED commitIndex
  BY <1>4 DEF commitVars
<1>6. LogStep
  <2>1. LeaderAppends(n, proposing)
    BY <1>3, <1>4, <1>5 DEF LeaderAppends
  <2> QED  BY <1>2, <2>1 DEF LogStep
<1>7. RoleStep
  <2>1. \A p \in Node : currentTerm[p] \in Nat
    BY DEF ClusterInv, TypeOK
  <2> QED  BY <1>4, <2>1 DEF RoleStep
<1>8. RequestStep
  BY <1>4 DEF RequestStep
<1>9. CommitShape
  BY <1>4, <1>5, QuietShape DEF SilentStep, SteadyRoles, NoCommit
<1> QED  BY <1>4, <1>6, <1>7, <1>8, <1>9

LEMMA ClusterRecords ==
    ASSUME SafetyInv, [Record]_historyVars
    PROVE  RecordStep /\ RecordsTrue'
<1>1. CASE Record
  BY <1>1 DEF Record, RecordStep, RecordsTrue
<1>2. CASE UNCHANGED historyVars
  <2>1. UNCHANGED vars /\ UNCHANGED <<msgs, acks>>
    BY <1>2 DEF historyVars, vars
  <2>2. RecordStep
    BY <2>1, HistoryRecords DEF SafetyInv, ElectionInv, HistoryStep
  <2>3. RecordsTrue'
    BY <2>1 DEF SafetyInv, CommitInv, RecordsTrue, AcksInFlight
  <2> QED  BY <2>2, <2>3
<1> QED  BY <1>1, <1>2

LEMMA ClusterShape ==
    ASSUME ClusterInv, SafetyInv, [ClusterNext]_clusterVars, [~ProposeToReplaced]_clusterVars,
           [Record]_historyVars
    PROVE  /\ InvStep /\ RecordsTrue'
           /\ [Next]_vars \/ UNCHANGED commitVars
<1>1. TypeOK /\ RecordStep /\ RecordsTrue'
  BY ClusterRecords DEF ClusterInv
<1>2. ElectionInv'
  <2>1. (VotesBacked /\ ElectionSafety)'
    BY ClusterElection DEF SafetyInv, ElectionInv
  <2>2. TypeOK'
    BY ClusterStep DEF ClusterInv
  <2> QED  BY <2>1, <2>2 DEF ElectionInv
<1>3. /\ RoleStep /\ LogStep /\ RequestStep /\ CommitShape
      /\ [Next]_vars \/ UNCHANGED commitVars
  <2>1. CASE [Next]_vars
    BY <1>1, <2>1, NextShape, NextCommitShape
  <2>2. CASE ProposeToStopped /\ held.old = None
    BY <2>2, KilledProposal
  <2>3. [Next]_vars \/ (ProposeToStopped /\ held.old = None)
    <3>1. CASE UNCHANGED clusterVars
      BY <3>1 DEF clusterVars
    <3>2. CASE ~ProposeToStopped
      BY <3>2, ClusterStepIsRaft
    <3> QED  BY <3>1, <3>2 DEF ProposeToReplaced
  <2> QED  BY <2>1, <2>2, <2>3
<1>4. LogInv'
  BY <1>1, <1>2, <1>3, StepKeepsLogInv DEF SafetyInv
<1> QED  BY <1>1, <1>2, <1>3, <1>4 DEF InvStep, SafetyInv

LEMMA ClusterSafety ==
    ClusterSpec /\ HistoryKept /\ [][~ProposeToReplaced]_clusterVars => []SafetyInv
<1>1. Init /\ led = {} /\ acks = {} => SafetyInv
  BY InitElection, InitLog, InitCommit DEF HistoryInit, SafetyInv
<1>2. ClusterInv /\ SafetyInv /\ [ClusterNext]_clusterVars /\ [~ProposeToReplaced]_clusterVars
        /\ [Record]_historyVars => SafetyInv'
  <2> SUFFICES ASSUME ClusterInv, SafetyInv, [ClusterNext]_clusterVars,
                      [~ProposeToReplaced]_clusterVars, [Record]_historyVars
               PROVE  SafetyInv'
    OBVIOUS
  <2>1. InvStep /\ RecordsTrue'
    BY ClusterShape
  <2> QED  BY <2>1, StepKeepsCommitInv DEF InvStep, SafetyInv
<1> QED  BY <1>1, <1>2, ClusterInvariant, PTL DEF ClusterSpec, HistoryKept

\* The composition with both clients commits one sequence of entries, whoever is
\* killed, revived or asked late, as long as no client proposes through a runtime
\* that revive() replaced: that step of RaftCluster.propose is the only one that
\* can break the agreement.
THEOREM ClientsCommitOneSequence ==
    ClusterSpec /\ HistoryKept /\ [][~ProposeToReplaced]_clusterVars
      => [](LogMatching /\ StateMachineSafety /\ LeaderCompleteness)
<1>1. SafetyInv => LogMatching /\ StateMachineSafety /\ LeaderCompleteness
  BY LogsMatch, CommittedEntriesAgree, LeadersComplete DEF SafetyInv, ElectionInv
<1> QED  BY <1>1, ClusterSafety, PTL

\* The same for what is done with the sequence: replicas never disagree on a
\* result, each ledger is that of a prefix of its own log, and results are final.
THEOREM ClientsSeeOneLedger ==
    ASSUME LedgerMachine
    PROVE  ClusterSpec /\ HistoryKept /\ [][~ProposeToReplaced]_clusterVars
             => [](ReplicasAgreeOnResults /\ LedgerIsLogPrefix) /\ ResultsFinal
<1> DEFINE StepOf == /\ [ClusterNext]_clusterVars /\ [~ProposeToReplaced]_clusterVars
                     /\ [Record]_historyVars
           Final == \A a, b \in Node : \A id \in DOMAIN machine[a].results :
                      /\ id \in DOMAIN machine'[a].results
                      /\ id \in DOMAIN machine'[b].results
                           => machine'[b].results[id] = machine[a].results[id]
<1>1. Init /\ led = {} /\ acks = {} => LedgerInv
  BY InitLedger DEF HistoryInit
<1>2. ASSUME ClusterInv, LedgerInv, StepOf
      PROVE  InvStep /\ MachineStep /\ RecordsTrue'
  <2>1. SafetyInv /\ OneMachineEach
    BY <1>2 DEF LedgerInv, MachineInv
  <2>2. InvStep /\ RecordsTrue' /\ ([Next]_vars \/ UNCHANGED commitVars)
    BY <1>2, <2>1, ClusterShape
  <2> QED  BY <2>1, <2>2, NextMachine, RestingMachine
<1>3. ClusterInv /\ LedgerInv /\ StepOf => LedgerInv'
  BY <1>2, StepKeepsLedgerInv
<1>4. LedgerInv => ReplicasAgreeOnResults /\ LedgerIsLogPrefix
  BY ResultsAgree, LedgersOfPrefixes
<1>5. ClusterInv /\ LedgerInv /\ ReplicasAgreeOnResults' /\ StepOf => [Final]_vars
  <2> SUFFICES ASSUME ClusterInv, LedgerInv, ReplicasAgreeOnResults', StepOf PROVE Final
    OBVIOUS
  <2>1. \A n \in Node : ResultsKept(machine[n], machine'[n])
    BY <1>2, ResultsStay
  <2> QED  BY <2>1 DEF ResultsKept, ReplicasAgreeOnResults
<1> QED  BY <1>1, <1>3, <1>4, <1>5, ClusterInvariant, PTL DEF ClusterSpec, HistoryKept, ResultsFinal

-----------------------------------------------------------------------------
(* The two ways to use the cluster in which that never happens.            *)

\* A gRPC client has no runtime in its hands.
LEMMA RemoteHoldsNothing ==
    ClusterSpec /\ remote => [][~ProposeToStopped]_clusterVars
<1>1. remote /\ [ClusterNext]_clusterVars => remote'
  BY DEF ClusterNext, clusterVars, clientVars, NodeStep, ClientStep, TakeCleared, GiveUp,
     CountSubmitted, FindLeader, ProposeToLeader, ProposeToStopped, ProposalRefused, CallAccepted,
     CallTimesOut, LateCallAccepted, KillNode, ReviveNode
<1>2. remote => [~ProposeToStopped]_clusterVars
  BY DEF ProposeToStopped, AppendToStopped
<1> QED  BY <1>1, <1>2, PTL DEF ClusterSpec

\* The cluster with GrpcRaftClusterClient implements Raft: nothing that the
\* client, its retries and its late calls do is more than a proposal.  All
\* theorems about Raft's Spec therefore hold of it.
THEOREM RemoteClientsAreRaft == ClusterSpec /\ remote => Spec
<1>1. ClusterInv /\ [ClusterNext]_clusterVars /\ [~ProposeToStopped]_clusterVars => [Next]_vars
  BY ClusterStepIsRaft DEF clusterVars
<1> QED  BY <1>1, RemoteHoldsNothing, ClusterInvariant, PTL DEF ClusterSpec, Spec

\* With GrpcRaftClusterClient committed entries always agree.
THEOREM RemoteClientsCommitOneSequence ==
    ClusterSpec /\ HistoryKept /\ remote
      => [](LogMatching /\ StateMachineSafety /\ LeaderCompleteness)
<1>1. [~ProposeToStopped]_clusterVars => [~ProposeToReplaced]_clusterVars
  BY DEF ProposeToReplaced
<1> QED  BY <1>1, RemoteHoldsNothing, ClientsCommitOneSequence, PTL

\* With RaftCluster.propose they agree as long as nobody calls revive(), as nobody
\* in the repository does: the runtime that find_leader returned may be deposed
\* or killed before it is used, and what a killed one accepts does no harm.
THEOREM KillsKeepOneSequence ==
    ClusterSpec /\ HistoryKept /\ [][~\E n \in Node : ReviveNode(n)]_clusterVars
      => [](LogMatching /\ StateMachineSafety /\ LeaderCompleteness)
<1> DEFINE NotReplaced == held # None => held.old = None
           NoRevive == ~\E n \in Node : ReviveNode(n)
<1>1. ClientInit => NotReplaced
  BY DEF ClientInit
<1>2. NotReplaced /\ [ClusterNext]_clusterVars /\ [NoRevive]_clusterVars => NotReplaced'
  <2> SUFFICES ASSUME NotReplaced, [ClusterNext]_clusterVars, NoRevive \/ UNCHANGED clusterVars
               PROVE  NotReplaced'
    BY DEF clusterVars
  <2>1. CASE UNCHANGED held
    BY <2>1
  <2>2. ASSUME NEW n \in Node, FindLeader(n) PROVE NotReplaced'
    BY <2>2 DEF FindLeader
  <2>3. CASE held' = None
    BY <2>3
  <2> QED  BY <2>1, <2>2, <2>3 DEF ClusterNext, clusterVars, clientVars, NodeStep, ClientStep,
             TakeCleared, GiveUp, CountSubmitted, ProposeToLeader, ProposeToStopped,
             ProposalRefused, CallAccepted, CallTimesOut, LateCallAccepted, KillNode
<1>3. NotReplaced => [~ProposeToReplaced]_clusterVars
  BY DEF ProposeToReplaced, ProposeToStopped, AppendToStopped
<1> QED  BY <1>1, <1>2, <1>3, ClientsCommitOneSequence, PTL DEF ClusterSpec
=============================================================================
