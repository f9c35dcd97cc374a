-------------------------------- MODULE Raft --------------------------------
(***************************************************************************)
(* The Raft core of raft/node.py over raft/storage.py and raft/transport.py *)
(* with kill() and revive() of coordinator/raft_cluster.py.                *)
(*                                                                         *)
(* Every handler of RaftNode runs under its runtime's lock, so each one is *)
(* a single action here, from the message it takes to the messages it      *)
(* sends.  Time is abstracted to the one comparison the algorithm makes    *)
(* with it: leaderContact[n] says whether a leader was heard from less     *)
(* than election_timeout_min ago.  An election deadline is never earlier   *)
(* than that, so a node can only time out once its contact has lapsed.     *)
(*                                                                         *)
(* Delivery removes a message and takes any one in flight: gRPC calls run  *)
(* on a thread pool (no order), may fail (lost as they are sent) and are   *)
(* not duplicated.  The in-process transport is ordered and loses nothing. *)
(***************************************************************************)
EXTENDS Integers, Sequences, FiniteSets, FiniteSetsExt, SequencesExt

CONSTANTS
    Node,               \* the cluster: node_id and peer_ids
    Command,            \* what clients propose
    None,               \* Python's None
    ApplyCommand(_, _), \* StateMachine.apply: the state after one command
    InitialMachine,     \* a freshly built state machine
    Lossy,              \* may calls fail (gRPC), or not (InMemoryTransport)
    MaxTerm,            \* bound: no election beyond this term
    MaxLog,             \* bound: no proposal beyond this log length
    Campaigner,         \* bound: the nodes whose election timer may fire
    Mortal,             \* bound: the nodes that may be killed
    MaxInFlight         \* bound: messages in flight at the same time

ASSUME NodeAssumption == IsFiniteSet(Node) /\ Node # {} /\ None \notin Node
ASSUME BoundAssumption ==
    /\ MaxTerm \in Nat /\ MaxLog \in Nat /\ MaxInFlight \in Nat /\ Lossy \in BOOLEAN
    /\ Campaigner \subseteq Node /\ Mortal \subseteq Node

VARIABLES
    currentTerm, votedFor, log,        \* persistent: InMemoryStorage
    state, leaderId, votesReceived,    \* volatile: the election
    prevotesReceived, prevoteTarget, leaderContact,
    commitIndex, lastApplied,          \* volatile: the commit
    nextIndex, matchIndex,             \* volatile: a leader's view of its peers
    machine,                           \* the replicated state machine
    msgs,                              \* messages in flight
    down,                              \* nodes killed and not yet revived
    elected                            \* history: every <<term, node>> that led

storageVars == <<currentTerm, votedFor, log>>
prevoteVars == <<prevotesReceived, prevoteTarget, leaderContact>>
electionVars == <<state, leaderId, votesReceived, prevotesReceived, prevoteTarget, leaderContact>>
commitVars == <<commitIndex, lastApplied, machine>>
leaderVars == <<nextIndex, matchIndex>>
vars == <<currentTerm, votedFor, log, state, leaderId, votesReceived,
          prevotesReceived, prevoteTarget, leaderContact, commitIndex,
          lastApplied, nextIndex, matchIndex, machine, msgs, down, elected>>

NodeState == {"FOLLOWER", "CANDIDATE", "LEADER"}
Entry == [term : Nat, command : Command]
Peers(n) == Node \ {n}
Majority == (Cardinality(Node) \div 2) + 1

-----------------------------------------------------------------------------
(* Messages: raft/types.py, with the sender and recipient of the Envelope. *)

VoteArgs(kind) ==
    [type : {kind}, src : Node, dst : Node, term : Nat,
     lastIndex : Nat, lastTerm : Nat]
VoteReply(kind) ==
    [type : {kind}, src : Node, dst : Node, term : Nat, granted : BOOLEAN]
AppendArgs ==
    [type : {"AppendEntriesArgs"}, src : Node, dst : Node, term : Nat,
     prevIndex : Nat, prevTerm : Int, entries : Seq(Entry), commit : Nat]
AppendReply ==
    {m \in [type : {"AppendEntriesReply"}, src : Node, dst : Node, term : Nat,
            success : BOOLEAN, match : Nat, conflictIndex : Nat, conflictTerm : Int] :
        m.conflictTerm # -1 => m.conflictIndex > 0}

Message ==
    {m \in VoteArgs("PreVoteArgs") \cup VoteArgs("RequestVoteArgs")
             \cup VoteReply("PreVoteReply") \cup VoteReply("RequestVoteReply")
             \cup AppendArgs \cup AppendReply : m.src # m.dst}

-----------------------------------------------------------------------------
(* The log: raft/storage.py and the log helpers of raft/node.py.           *)

LastTerm(l) == IF l = <<>> THEN 0 ELSE l[Len(l)].term

TermAt(l, i) ==
    IF i = 0 THEN 0 ELSE IF i \in 1..Len(l) THEN l[i].term ELSE -1

EntriesFrom(l, i) == SubSeq(l, IF i <= 0 THEN 1 ELSE i, Len(l))

\* Fault: recency judged by length alone.
LongerLog(l, lastIndex, lastTerm) == lastIndex >= Len(l)

\* Is the candidate's log, given by its last index and term, at least as
\* recent as l?
LogUpToDate(l, lastIndex, lastTerm) ==
    \/ lastTerm > LastTerm(l)
    \/ lastTerm = LastTerm(l) /\ lastIndex >= Len(l)

\* The start of the run of equal terms that ends at index i.
FirstIndexOfTerm(l, i) ==
    Min({k \in 1..i : \A j \in k..i : l[j].term = l[i].term})

\* The backward walk stops at the first entry of the term, and gives up at
\* an entry of an earlier one.
LastIndexOfTerm(l, t) ==
    LET hits == {i \in 1..Len(l) : /\ l[i].term = t
                                   /\ \A j \in (i+1)..Len(l) : l[j].term > t}
    IN  IF hits = {} THEN 0 ELSE CHOOSE i \in hits : TRUE

\* Offsets of the received entries that l lacks or has with another term.
Mismatches(l, prev, entries) ==
    {k \in 1..Len(entries) : TermAt(l, prev + k) # entries[k].term}

\* Fault: received entries replace everything after prev_log_index, matching
\* or not.
ReplaceTail(l, prev, entries) == SubSeq(l, 1, prev) \o entries

\* Fault: only what extends the log is stored; a conflicting entry stays.
KeepConflict(l, prev, entries) ==
    l \o SubSeq(entries, Len(l) - prev + 1, Len(entries))

\* From the first mismatch on, the received entries replace what l holds;
\* without a mismatch l keeps even what follows them.
MergeEntries(l, prev, entries) ==
    IF Mismatches(l, prev, entries) = {} THEN l
    ELSE LET k == Min(Mismatches(l, prev, entries))
         IN  SubSeq(l, 1, prev + k - 1) \o EntriesFrom(entries, k)

\* The Majority-th largest of the leader's own length and its peers' match
\* indexes.
MajorityMatch(len, match) ==
    LET held == {len} \cup {match[p] : p \in DOMAIN match}
        holders(i) == Cardinality({p \in DOMAIN match : match[p] >= i})
                        + (IF len >= i THEN 1 ELSE 0)
    IN  Max({i \in held : holders(i) >= Majority})

\* Fault: an entry of any term is committed by counting.
CommitAnyTerm(l, match, term, commit) ==
    LET n == MajorityMatch(Len(l), match) IN IF n > commit THEN n ELSE commit

\* Only an entry of the leader's own term is committed by counting.
CommitByCounting(l, match, term, commit) ==
    LET n == MajorityMatch(Len(l), match)
    IN  IF n > commit /\ TermAt(l, n) = term THEN n ELSE commit

\* What a follower commits on hearing of its leader's commit index.
FollowerCommit(l, commit, leaderCommit) ==
    IF leaderCommit > commit THEN Min({leaderCommit, Len(l)}) ELSE commit

\* Fault: the whole log is reported, also what lies beyond the entries sent.
MatchWholeLog(l, m) == Len(l)

\* The prefix the leader now knows to be here: what it sent and no more.
MatchAfter(l, m) == m.prevIndex + Len(m.entries)

\* Fault: a second vote in the same term.
VoteForAnyone(voted, candidate) == TRUE

CanVote(voted, candidate) == voted \in {None, candidate}

ApplyEntries(m, entries) ==
    FoldLeft(LAMBDA s, e : ApplyCommand(s, e.command), m, entries)

-----------------------------------------------------------------------------
(* The network.                                                            *)

\* What becomes of the messages ms: send() drops what goes to a node that is
\* cut off.  Nothing else is lost in process; over gRPC any call may fail with
\* RpcError and lose its request or its reply.
Sent(ms) ==
    LET live == {m \in ms : m.dst \notin down}
    IN  IF Lossy THEN SUBSET live ELSE {live}

Send(ms) == \E sent \in Sent(ms) : msgs' = msgs \cup sent

\* Take m off the network and send ms.
Consume(m, ms) == \E sent \in Sent(ms) : msgs' = (msgs \ {m}) \cup sent

VoteRequests(n, kind, term) ==
    {[type |-> kind, src |-> n, dst |-> p, term |-> term,
      lastIndex |-> Len(log[n]), lastTerm |-> LastTerm(log[n])] : p \in Peers(n)}

VoteReplyTo(m, kind, term, granted) ==
    [type |-> kind, src |-> m.dst, dst |-> m.src, term |-> term, granted |-> granted]

\* _send_append_entries_to: everything from the peer's next index on.
AppendTo(n, p, l, next, term) ==
    [type |-> "AppendEntriesArgs", src |-> n, dst |-> p, term |-> term,
     prevIndex |-> next - 1, prevTerm |-> TermAt(l, next - 1),
     entries |-> EntriesFrom(l, next), commit |-> commitIndex[n]]

AppendReplyTo(m, term, success, match, conflictIndex, conflictTerm) ==
    [type |-> "AppendEntriesReply", src |-> m.dst, dst |-> m.src, term |-> term,
     success |-> success, match |-> match,
     conflictIndex |-> conflictIndex, conflictTerm |-> conflictTerm]

-----------------------------------------------------------------------------
(* State transitions shared by the handlers.                               *)

BecomeFollower(n, term) ==
    /\ currentTerm' = [currentTerm EXCEPT ![n] = term]
    /\ votedFor' = [votedFor EXCEPT ![n] = None]
    /\ state' = [state EXCEPT ![n] = "FOLLOWER"]
    /\ leaderId' = [leaderId EXCEPT ![n] = None]
    /\ votesReceived' = [votesReceived EXCEPT ![n] = {}]

\* A new term, a vote for itself; a cluster of one has already won.
BecomeCandidate(n) ==
    LET term == currentTerm[n] + 1
        alone == Majority = 1
    IN  /\ currentTerm' = [currentTerm EXCEPT ![n] = term]
        /\ votedFor' = [votedFor EXCEPT ![n] = n]
        /\ state' = [state EXCEPT ![n] = IF alone THEN "LEADER" ELSE "CANDIDATE"]
        /\ leaderId' = [leaderId EXCEPT ![n] = IF alone THEN n ELSE None]
        /\ votesReceived' = [votesReceived EXCEPT ![n] = {n}]
        /\ elected' = IF alone THEN elected \cup {<<term, n>>} ELSE elected

BecomeLeader(n) ==
    /\ state' = [state EXCEPT ![n] = "LEADER"]
    /\ leaderId' = [leaderId EXCEPT ![n] = n]
    /\ nextIndex' = [nextIndex EXCEPT ![n] = [p \in Peers(n) |-> Len(log[n]) + 1]]
    /\ matchIndex' = [matchIndex EXCEPT ![n] = [p \in Peers(n) |-> 0]]
    /\ elected' = elected \cup {<<currentTerm[n], n>>}

\* Raise the commit index and apply what it newly covers.
CommitUpTo(n, l, commit) ==
    /\ commitIndex' = [commitIndex EXCEPT ![n] = commit]
    /\ lastApplied' = [lastApplied EXCEPT ![n] = IF @ < commit THEN commit ELSE @]
    /\ machine' = [machine EXCEPT ![n] =
                     ApplyEntries(@, SubSeq(l, lastApplied[n] + 1, commit))]

-----------------------------------------------------------------------------
Init ==
    /\ currentTerm = [n \in Node |-> 0]
    /\ votedFor = [n \in Node |-> None]
    /\ log = [n \in Node |-> <<>>]
    /\ state = [n \in Node |-> "FOLLOWER"]
    /\ leaderId = [n \in Node |-> None]
    /\ votesReceived = [n \in Node |-> {}]
    /\ prevotesReceived = [n \in Node |-> {}]
    /\ prevoteTarget = [n \in Node |-> -1]
    /\ leaderContact = [n \in Node |-> FALSE]
    /\ commitIndex = [n \in Node |-> 0]
    /\ lastApplied = [n \in Node |-> 0]
    /\ nextIndex = [n \in Node |-> [p \in Peers(n) |-> 1]]
    /\ matchIndex = [n \in Node |-> [p \in Peers(n) |-> 0]]
    /\ machine = [n \in Node |-> InitialMachine]
    /\ msgs = {}
    /\ down = {}
    /\ elected = {}

\* election_timeout_min passes without hearing from the leader again.
LeaderContactLapses(n) ==
    /\ n \notin down
    /\ leaderContact[n]
    /\ leaderContact' = [leaderContact EXCEPT ![n] = FALSE]
    /\ UNCHANGED <<storageVars, state, leaderId, votesReceived, prevotesReceived,
                   prevoteTarget, commitVars, leaderVars, msgs, down, elected>>

\* Fault: a candidate that tries again stays a candidate.
StaysAsItIs(role) == role

\* A prevote round is held as a follower, also by a candidate that failed.
PreVoteRole(role) == "FOLLOWER"

\* tick() past the election deadline: _start_prevote.  A cluster of one goes
\* through candidacy to leadership in the same call.
ElectionTimeout(n) ==
    /\ n \in Campaigner \ down
    /\ state[n] # "LEADER"
    /\ ~leaderContact[n]
    /\ currentTerm[n] < MaxTerm
    /\ prevoteTarget' = [prevoteTarget EXCEPT ![n] = currentTerm[n] + 1]
    /\ prevotesReceived' = [prevotesReceived EXCEPT ![n] = {n}]
    /\ IF Majority = 1
       THEN BecomeCandidate(n) /\ UNCHANGED log
       ELSE /\ state' = [state EXCEPT ![n] = PreVoteRole(@)]
            /\ leaderId' = [leaderId EXCEPT ![n] = None]
            /\ UNCHANGED <<storageVars, votesReceived, elected>>
    /\ Send(VoteRequests(n, "PreVoteArgs", currentTerm[n] + 1))
    /\ UNCHANGED <<leaderContact, commitVars, leaderVars, down>>

\* tick() of a leader past its heartbeat deadline.
HeartbeatTimeout(n) ==
    /\ n \notin down
    /\ state[n] = "LEADER"
    /\ Send({AppendTo(n, p, log[n], nextIndex[n][p], currentTerm[n]) : p \in Peers(n)})
    /\ UNCHANGED <<storageVars, electionVars, commitVars, leaderVars, down, elected>>

Propose(n, c) ==
    /\ n \notin down
    /\ state[n] = "LEADER"
    /\ Len(log[n]) < MaxLog
    /\ LET l == Append(log[n], [term |-> currentTerm[n], command |-> c])
       IN  /\ log' = [log EXCEPT ![n] = l]
           /\ Send({AppendTo(n, p, l, nextIndex[n][p], currentTerm[n]) : p \in Peers(n)})
    /\ UNCHANGED <<currentTerm, votedFor, electionVars, commitVars, leaderVars,
                   down, elected>>

-----------------------------------------------------------------------------
(* Requests.                                                               *)

\* Refused while a leader is believed to be active.
GrantsPreVote(m) ==
    LET n == m.dst
    IN  /\ leaderId[n] = None \/ ~leaderContact[n]
        /\ m.term > currentTerm[n]
        /\ LogUpToDate(log[n], m.lastIndex, m.lastTerm)

\* Nothing is persisted and no state changes: only the answer matters.
ReceivePreVote(m) ==
    /\ m.type = "PreVoteArgs"
    /\ Consume(m, {VoteReplyTo(m, "PreVoteReply", currentTerm[m.dst], GrantsPreVote(m))})
    /\ UNCHANGED <<storageVars, electionVars, commitVars, leaderVars, down, elected>>

\* The voter's term and vote are those it has after adopting a later term.
GrantsVote(m, term, voted) ==
    /\ m.term = term
    /\ CanVote(voted, m.src)
    /\ LogUpToDate(log[m.dst], m.lastIndex, m.lastTerm)

ReceiveRequestVote(m) ==
    LET n == m.dst
        newer == m.term > currentTerm[n]
        term == IF newer THEN m.term ELSE currentTerm[n]
        voted == IF newer THEN None ELSE votedFor[n]
        grant == GrantsVote(m, term, voted)
    IN  /\ m.type = "RequestVoteArgs"
        /\ currentTerm' = [currentTerm EXCEPT ![n] = term]
        /\ votedFor' = [votedFor EXCEPT ![n] = IF grant THEN m.src ELSE voted]
        /\ state' = [state EXCEPT ![n] = IF newer THEN "FOLLOWER" ELSE @]
        /\ leaderId' = [leaderId EXCEPT ![n] = IF newer THEN None ELSE @]
        /\ votesReceived' = [votesReceived EXCEPT ![n] = IF newer THEN {} ELSE @]
        /\ Consume(m, {VoteReplyTo(m, "RequestVoteReply", term, grant)})
        /\ UNCHANGED <<log, prevoteVars, commitVars, leaderVars, down, elected>>

\* A request of an earlier term changes nothing and is answered with ours.
RejectStaleAppend(m) ==
    LET n == m.dst
    IN  /\ m.type = "AppendEntriesArgs"
        /\ m.term < currentTerm[n]
        /\ Consume(m, {AppendReplyTo(m, currentTerm[n], FALSE, 0, 0, -1)})
        /\ UNCHANGED <<storageVars, electionVars, commitVars, leaderVars, down, elected>>

\* What every request of a current leader does first: adopt its term, follow
\* it and note the contact.
FollowLeader(m) ==
    LET n == m.dst
        newer == m.term > currentTerm[n]
    IN  /\ m.type = "AppendEntriesArgs"
        /\ m.term >= currentTerm[n]
        /\ currentTerm' = [currentTerm EXCEPT ![n] = m.term]
        /\ votedFor' = [votedFor EXCEPT ![n] = IF newer THEN None ELSE @]
        /\ votesReceived' = [votesReceived EXCEPT ![n] = IF newer THEN {} ELSE @]
        /\ state' = [state EXCEPT ![n] = "FOLLOWER"]
        /\ leaderId' = [leaderId EXCEPT ![n] = m.src]
        /\ leaderContact' = [leaderContact EXCEPT ![n] = TRUE]
        /\ UNCHANGED <<prevotesReceived, prevoteTarget, leaderVars, down, elected>>

\* The log does not match at prev_log_index: too short, or another term.
RejectConflictingAppend(m) ==
    LET l == log[m.dst]
        missing == m.prevIndex > Len(l)
    IN  /\ FollowLeader(m)
        /\ m.prevIndex > 0
        /\ missing \/ TermAt(l, m.prevIndex) # m.prevTerm
        /\ Consume(m, {AppendReplyTo(m, m.term, FALSE, 0,
                         IF missing THEN Len(l) + 1 ELSE FirstIndexOfTerm(l, m.prevIndex),
                         IF missing THEN -1 ELSE l[m.prevIndex].term)})
        /\ UNCHANGED <<log, commitVars>>

AcceptAppend(m) ==
    LET n == m.dst
        l == MergeEntries(log[n], m.prevIndex, m.entries)
    IN  /\ FollowLeader(m)
        /\ m.prevIndex = 0 \/ (m.prevIndex <= Len(log[n])
                                 /\ TermAt(log[n], m.prevIndex) = m.prevTerm)
        /\ log' = [log EXCEPT ![n] = l]
        /\ CommitUpTo(n, l, FollowerCommit(l, commitIndex[n], m.commit))
        /\ Consume(m, {AppendReplyTo(m, m.term, TRUE, MatchAfter(l, m), 0, -1)})

-----------------------------------------------------------------------------
(* Replies.                                                                *)

IsReply(m) == m.type \in {"PreVoteReply", "RequestVoteReply", "AppendEntriesReply"}

\* Any reply of a later term makes its recipient a follower of that term.
ReceiveNewerTerm(m) ==
    /\ IsReply(m)
    /\ m.term > currentTerm[m.dst]
    /\ BecomeFollower(m.dst, m.term)
    /\ Consume(m, {})
    /\ UNCHANGED <<log, prevoteVars, commitVars, leaderVars, down, elected>>

\* The guards of the three reply handlers: is this reply still of interest?
PreVoteCounts(m) ==
    LET n == m.dst
    IN  /\ m.type = "PreVoteReply"
        /\ state[n] = "FOLLOWER"
        /\ prevoteTarget[n] = currentTerm[n] + 1
        /\ m.granted

\* Fault: a vote of an earlier election counts in this one.
VoteCountsLate(m) ==
    /\ m.type = "RequestVoteReply"
    /\ state[m.dst] = "CANDIDATE"
    /\ m.granted

VoteCounts(m) ==
    LET n == m.dst
    IN  /\ m.type = "RequestVoteReply"
        /\ state[n] = "CANDIDATE"
        /\ m.term = currentTerm[n]
        /\ m.granted

AppendReplyCounts(m) ==
    LET n == m.dst
    IN  /\ m.type = "AppendEntriesReply"
        /\ state[n] = "LEADER"
        /\ m.term = currentTerm[n]

IgnoreReply(m) ==
    /\ IsReply(m)
    /\ m.term <= currentTerm[m.dst]
    /\ ~PreVoteCounts(m) /\ ~VoteCounts(m) /\ ~AppendReplyCounts(m)
    /\ Consume(m, {})
    /\ UNCHANGED <<storageVars, electionVars, commitVars, leaderVars, down, elected>>

\* A granted prevote; the one that completes a majority starts the election.
ReceivePreVoteReply(m) ==
    LET n == m.dst
        granted == prevotesReceived[n] \cup {m.src}
        won == Cardinality(granted) >= Majority
    IN  /\ PreVoteCounts(m)
        /\ m.term <= currentTerm[n]
        /\ prevotesReceived' = [prevotesReceived EXCEPT ![n] = granted]
        /\ IF won
           THEN BecomeCandidate(n)
           ELSE UNCHANGED <<currentTerm, votedFor, state, leaderId, votesReceived, elected>>
        /\ Consume(m, IF won THEN VoteRequests(n, "RequestVoteArgs", currentTerm[n] + 1)
                      ELSE {})
        /\ UNCHANGED <<log, prevoteTarget, leaderContact, commitVars, leaderVars, down>>

\* A granted vote; the one that completes a majority makes the leader, which
\* announces itself to every peer.
ReceiveRequestVoteReply(m) ==
    LET n == m.dst
        granted == votesReceived[n] \cup {m.src}
        won == Cardinality(granted) >= Majority
    IN  /\ VoteCounts(m)
        /\ votesReceived' = [votesReceived EXCEPT ![n] = granted]
        /\ IF won THEN BecomeLeader(n)
           ELSE UNCHANGED <<state, leaderId, leaderVars, elected>>
        /\ Consume(m, IF won
                      THEN {AppendTo(n, p, log[n], Len(log[n]) + 1, currentTerm[n]) :
                              p \in Peers(n)}
                      ELSE {})
        /\ UNCHANGED <<storageVars, prevoteVars, commitVars, down>>

ReceiveAppendSuccess(m) ==
    LET n == m.dst
        match == [matchIndex[n] EXCEPT ![m.src] = IF m.match > @ THEN m.match ELSE @]
    IN  /\ AppendReplyCounts(m)
        /\ m.success
        /\ matchIndex' = [matchIndex EXCEPT ![n] = match]
        /\ nextIndex' = [nextIndex EXCEPT ![n][m.src] = match[m.src] + 1]
        /\ CommitUpTo(n, log[n],
                      CommitByCounting(log[n], match, currentTerm[n], commitIndex[n]))
        /\ Consume(m, {})
        /\ UNCHANGED <<storageVars, electionVars, down, elected>>

\* Fault: conflict_index is taken as it comes, 0 included.
NextBelowOne(l, m) ==
    LET last == LastIndexOfTerm(l, m.conflictTerm)
    IN  IF m.conflictTerm # -1 /\ last > 0 THEN last + 1 ELSE m.conflictIndex

\* Fault: resume after the entry that is missing.
NextSkipsOne(l, m) ==
    LET last == LastIndexOfTerm(l, m.conflictTerm)
    IN  IF m.conflictTerm # -1 /\ last > 0 THEN last + 1 ELSE m.conflictIndex + 1

\* Where to resume after a rejection: after our own last entry of the
\* conflicting term, or where the follower says.
NextAfterConflict(l, m) ==
    LET last == LastIndexOfTerm(l, m.conflictTerm)
    IN  IF m.conflictTerm # -1 /\ last > 0 THEN last + 1
        ELSE IF m.conflictTerm # -1 THEN m.conflictIndex
        ELSE Max({1, m.conflictIndex})

\* A rejection moves next_index back and is retried at once.
ReceiveAppendFailure(m) ==
    LET n == m.dst
        next == NextAfterConflict(log[n], m)
    IN  /\ AppendReplyCounts(m)
        /\ ~m.success
        /\ nextIndex' = [nextIndex EXCEPT ![n][m.src] = next]
        /\ Consume(m, {AppendTo(n, m.src, log[n], next, currentTerm[n])})
        /\ UNCHANGED <<storageVars, electionVars, commitVars, matchIndex, down, elected>>

Receive(m) ==
    /\ m.dst \notin down
    /\ \/ ReceivePreVote(m)
       \/ ReceiveRequestVote(m)
       \/ RejectStaleAppend(m)
       \/ RejectConflictingAppend(m)
       \/ AcceptAppend(m)
       \/ ReceiveNewerTerm(m)
       \/ IgnoreReply(m)
       \/ ReceivePreVoteReply(m)
       \/ ReceiveRequestVoteReply(m)
       \/ ReceiveAppendSuccess(m)
       \/ ReceiveAppendFailure(m)

-----------------------------------------------------------------------------
(* Faults: RaftCluster.kill and revive.                                    *)

\* The driver thread stops between two handlers and the node is cut off.
Kill(n) ==
    /\ n \in Mortal \ down
    /\ down' = down \cup {n}
    /\ UNCHANGED <<storageVars, electionVars, commitVars, leaderVars, msgs, elected>>

\* A new RaftNode over the same storage, state machine and inbox.
Revive(n) ==
    /\ n \in down
    /\ down' = down \ {n}
    /\ state' = [state EXCEPT ![n] = "FOLLOWER"]
    /\ leaderId' = [leaderId EXCEPT ![n] = None]
    /\ votesReceived' = [votesReceived EXCEPT ![n] = {}]
    /\ prevotesReceived' = [prevotesReceived EXCEPT ![n] = {}]
    /\ prevoteTarget' = [prevoteTarget EXCEPT ![n] = -1]
    /\ leaderContact' = [leaderContact EXCEPT ![n] = FALSE]
    /\ commitIndex' = [commitIndex EXCEPT ![n] = 0]
    /\ lastApplied' = [lastApplied EXCEPT ![n] = 0]
    /\ nextIndex' = [nextIndex EXCEPT ![n] = [p \in Peers(n) |-> 1]]
    /\ matchIndex' = [matchIndex EXCEPT ![n] = [p \in Peers(n) |-> 0]]
    /\ UNCHANGED <<storageVars, machine, msgs, elected>>

Step ==
    \/ \E n \in Node : \/ LeaderContactLapses(n)
                       \/ ElectionTimeout(n)
                       \/ HeartbeatTimeout(n)
                       \/ Kill(n)
                       \/ Revive(n)
                       \/ \E c \in Command : Propose(n, c)
    \/ \E m \in msgs : Receive(m)

Next == Step /\ Cardinality(msgs') <= MaxInFlight

Spec == Init /\ [][Next]_vars
\* What find_leader looks for: a node that is not cut off and believes to lead.
LiveLeader(n) == n \in Node \ down /\ state[n] = "LEADER"

-----------------------------------------------------------------------------
(* Properties.                                                             *)

\* Every variable keeps the type its Python counterpart has; the machine is
\* whatever ApplyCommand makes of it.
TypeOK ==
    /\ currentTerm \in [Node -> Nat]
    /\ votedFor \in [Node -> Node \cup {None}]
    /\ log \in [Node -> Seq(Entry)]
    /\ state \in [Node -> NodeState]
    /\ leaderId \in [Node -> Node \cup {None}]
    /\ votesReceived \in [Node -> SUBSET Node]
    /\ prevotesReceived \in [Node -> SUBSET Node]
    /\ prevoteTarget \in [Node -> Nat \cup {-1}]
    /\ leaderContact \in [Node -> BOOLEAN]
    /\ commitIndex \in [Node -> Nat]
    /\ lastApplied \in [Node -> Nat]
    /\ DOMAIN nextIndex = Node /\ DOMAIN matchIndex = Node
    /\ \A n \in Node : /\ nextIndex[n] \in [Peers(n) -> Nat \ {0}]
                       /\ matchIndex[n] \in [Peers(n) -> Nat]
    /\ msgs \subseteq Message
    /\ down \subseteq Node
    /\ elected \subseteq Nat \X Node

\* No term ever has two leaders, restarts and votes in flight included
\* (_handle_request_vote_reply, handle_request_vote, _become_candidate).
ElectionSafety ==
    \A e, f \in elected : e[1] = f[1] => e[2] = f[2]

\* A vote of v for c in term t that nothing in the system contradicts: v is
\* past that term or has it on record, and neither a granted reply in flight
\* nor another candidate's tally of that term says that v voted otherwise.
Backs(v, t, c) ==
    /\ currentTerm[v] > t \/ (currentTerm[v] = t /\ votedFor[v] = c)
    /\ \A m \in msgs : /\ m.type = "RequestVoteReply" /\ m.granted
                        /\ m.src = v /\ m.term = t
                        => m.dst = c
    /\ \A d \in Node : /\ state[d] # "FOLLOWER" /\ currentTerm[d] = t
                        /\ v \in votesReceived[d]
                        => d = c

GrantsBacked ==
    \A m \in msgs : m.type = "RequestVoteReply" /\ m.granted => Backs(m.src, m.term, m.dst)

TalliesBacked ==
    \A c \in Node : state[c] # "FOLLOWER"
                     => \A v \in votesReceived[c] : Backs(v, currentTerm[c], c)

LeadersBacked ==
    \A e \in elected : \E Q \in SUBSET Node :
        Cardinality(Q) >= Majority /\ \A v \in Q : Backs(v, e[1], e[2])

\* Every vote that is in flight, counted, or was part of a majority is the
\* only one its voter gave in that term, although storage keeps no more than
\* the last vote: the reason why no term has two leaders.
VotesBacked == GrantsBacked /\ TalliesBacked /\ LeadersBacked

\* Logs that hold an entry of one term at one index are equal up to it: what
\* handle_append_entries' check at prev_log_index and its truncation are for.
LogMatching ==
    \A a, b \in Node : \A i \in 1..Min({Len(log[a]), Len(log[b])}) :
        log[a][i].term = log[b][i].term => SubSeq(log[a], 1, i) = SubSeq(log[b], 1, i)

\* Nodes agree on every entry that both have committed, whichever of
\* _advance_commit_index and leader_commit made them commit it.
StateMachineSafety ==
    \A a, b \in Node : \A i \in 1..Min({commitIndex[a], commitIndex[b]}) :
        log[a][i] = log[b][i]

\* A leader holds every entry committed by a node whose term is not later than
\* its own: the purpose of _log_up_to_date and of the own-term commit rule.
LeaderCompleteness ==
    \A l, n \in Node :
        state[l] = "LEADER" /\ currentTerm[n] <= currentTerm[l]
          => IsPrefix(SubSeq(log[n], 1, commitIndex[n]), log[l])

\* What a leader believes a peer to hold, the peer does hold, as long as the
\* peer is still in the leader's term: late and stale replies included.
MatchIndexSound ==
    \A l \in Node : \A p \in Peers(l) :
        state[l] = "LEADER" /\ currentTerm[p] = currentTerm[l]
          => /\ matchIndex[l][p] <= Len(log[p])
             /\ IsPrefix(SubSeq(log[p], 1, matchIndex[l][p]), log[l])

\* An entry a node has committed is never truncated or replaced in its log by
\* a late, reordered or conflicting AppendEntries.
CommittedNeverTruncated ==
    [][\A n \in Node : \A i \in 1..commitIndex[n] :
          i <= Len(log'[n]) /\ log'[n][i] = log[n][i]]_vars

\* A node's term never goes back and within a term its vote never changes, so
\* a crash between two handlers cannot make it vote twice.
VoteStable ==
    [][\A n \in Node :
          /\ currentTerm'[n] >= currentTerm[n]
          /\ currentTerm'[n] = currentTerm[n] /\ votedFor[n] # None
               => votedFor'[n] = votedFor[n]]_vars

\* What PreVote is for, in the words of the README: a node that was away does
\* not disrupt a healthy cluster.  No node becomes a candidate while a live
\* leader of its term is being heard by a majority (_handle_prevote_reply,
\* handle_prevote).
HealthyLeaderNotDisrupted ==
    [][\A n, l \in Node :
          LET hearing == {p \in Peers(l) : leaderContact[p] /\ leaderId[p] = l}
          IN  /\ state[n] # "CANDIDATE" /\ state'[n] = "CANDIDATE"
              /\ LiveLeader(l) /\ currentTerm[l] = currentTerm[n]
              => Cardinality(hearing \ down) + 1 < Majority]_vars
=============================================================================
