---------------------------- MODULE RaftCluster -----------------------------
(***************************************************************************)
(* The replicated ledger with its client: the settlement submitter and the *)
(* two propose() it may be given, that of coordinator/raft_cluster.py,     *)
(* which shares an address space with the nodes, and that of               *)
(* GrpcRaftClusterClient, which calls them.                                *)
(*                                                                         *)
(* find_leader hands out a runtime.  Before it is used its node may have   *)
(* been deposed, stopped, or replaced by revive(): the old RaftNode then   *)
(* lives on in the caller's hands, over the storage of the new one.        *)
(***************************************************************************)
EXTENDS RaftLedger

VARIABLES
    remote,             \* is the client a GrpcRaftClusterClient?
    proposing,          \* the command in propose(), or None
    held,               \* the runtime that find_leader returned, or None
    lastKnownLeader,    \* the client's cache
    submitted,          \* commands counted by submitted_count
    failed,             \* commands recorded in failed_transaction_ids
    timedOut            \* commands of gRPC calls that were not answered in time

clientVars == <<remote, proposing, held, lastKnownLeader, submitted, failed, timedOut>>
clusterVars == <<vars, clientVars>>

ClientInit ==
    /\ remote \in BOOLEAN
    /\ proposing = None /\ held = None /\ lastKnownLeader = None
    /\ submitted = {} /\ failed = {} /\ timedOut = {}

\* The runtimes' threads.
NodeStep ==
    /\ \/ \E n \in Node : \/ LeaderContactLapses(n)
                          \/ ElectionTimeout(n)
                          \/ HeartbeatTimeout(n)
       \/ \E m \in msgs : Receive(m)
    /\ UNCHANGED clientVars

-----------------------------------------------------------------------------
(* The submitter.                                                          *)

\* A cleared transaction comes off the queue.  Bound: each of them once; that
\* commands are proposed again and again is left to Raft's own Propose.
TakeCleared(c) ==
    /\ proposing = None
    /\ c \notin submitted \cup failed
    /\ proposing' = c
    /\ UNCHANGED <<vars, remote, held, lastKnownLeader, submitted, failed, timedOut>>

\* propose() returned an entry.
CountSubmitted ==
    /\ submitted' = submitted \cup {proposing}
    /\ proposing' = None
    /\ held' = None
    /\ UNCHANGED <<remote, failed, timedOut>>

\* propose() raised TimeoutError.
GiveUp ==
    /\ proposing # None /\ held = None
    /\ failed' = failed \cup {proposing}
    /\ proposing' = None
    /\ UNCHANGED <<vars, remote, held, lastKnownLeader, submitted, timedOut>>

-----------------------------------------------------------------------------
(* RaftCluster.propose.                                                    *)

\* The cached leader if it still leads, any live leader otherwise.
FindLeader(n) ==
    /\ ~remote /\ proposing # None /\ held = None
    /\ LiveLeader(n)
    /\ LiveLeader(lastKnownLeader) => n = lastKnownLeader
    /\ held' = [id |-> n, old |-> None]
    /\ lastKnownLeader' = n
    /\ UNCHANGED <<vars, remote, proposing, submitted, failed, timedOut>>

\* The RaftNode behind the runtime in hand.
HeldNode ==
    LET n == held.id
    IN  IF held.old # None THEN held.old
        ELSE [state |-> state[n], commit |-> commitIndex[n], next |-> nextIndex[n]]

Stopped == held.old # None \/ held.id \in down

ProposeToLeader ==
    /\ ~remote /\ held # None
    /\ ~Stopped
    /\ Propose(held.id, proposing)
    /\ CountSubmitted
    /\ UNCHANGED lastKnownLeader

\* The runtime in hand is stopped, but its RaftNode is a leader still: the
\* entry goes into its storage, in the storage's term.  Nothing is sent while
\* the node is cut off.
AppendToStopped ==
    LET n == held.id
        l == Append(log[n], [term |-> currentTerm[n], command |-> proposing])
        append(p) == [AppendTo(n, p, l, HeldNode.next[p], currentTerm[n])
                        EXCEPT !.commit = HeldNode.commit]
    IN  /\ ~remote /\ held # None
        /\ Stopped
        /\ HeldNode.state = "LEADER"
        /\ Len(log[n]) < MaxLog
        /\ log' = [log EXCEPT ![n] = l]
        /\ IF n \in down THEN UNCHANGED msgs ELSE Send({append(p) : p \in Peers(n)})
        /\ UNCHANGED <<currentTerm, votedFor, electionVars, commitVars, leaderVars,
                       down, elected, lastKnownLeader>>

\* Fault: propose() finds that the node died meanwhile and tries the next one.
RetryAfterStop ==
    /\ AppendToStopped
    /\ held' = None
    /\ UNCHANGED <<remote, proposing, submitted, failed, timedOut>>

ProposeToStopped == AppendToStopped /\ CountSubmitted

\* propose() of a node that no longer leads returns None.
ProposalRefused ==
    /\ ~remote /\ held # None
    /\ HeldNode.state # "LEADER"
    /\ lastKnownLeader' = None
    /\ held' = None
    /\ UNCHANGED <<vars, remote, proposing, submitted, failed, timedOut>>

-----------------------------------------------------------------------------
(* GrpcRaftClusterClient.propose and RaftGrpcServicer.Propose.  The nodes  *)
(* are asked in an order that cache and hints decide: any, here.  A node   *)
(* that is not the leader or cannot be reached changes nothing.            *)

CallAccepted(n) ==
    /\ remote /\ proposing # None
    /\ Propose(n, proposing)
    /\ lastKnownLeader' = n
    /\ CountSubmitted

\* RpcError without an answer in time: the call may still be handled.
CallTimesOut ==
    /\ remote /\ proposing # None
    /\ timedOut' = timedOut \cup {proposing}
    /\ UNCHANGED <<vars, remote, proposing, held, lastKnownLeader, submitted, failed>>

\* A node handles a call on which the client has given up.
LateCallAccepted(n, c) ==
    /\ c \in timedOut
    /\ Propose(n, c)
    /\ UNCHANGED clientVars

-----------------------------------------------------------------------------
(* Faults.                                                                 *)

\* chaos.kill_raft_leader, or the end of a node's process.
KillNode(n) == Kill(n) /\ UNCHANGED clientVars

\* revive() replaces the runtime, also the one that propose() has in hand.
ReviveNode(n) ==
    /\ Revive(n)
    /\ held' = IF ~remote /\ held # None /\ held.id = n /\ held.old = None
               THEN [held EXCEPT !.old = HeldNode]
               ELSE held
    /\ UNCHANGED <<remote, proposing, lastKnownLeader, submitted, failed, timedOut>>

ClientStep ==
    \/ \E c \in Command : TakeCleared(c)
    \/ GiveUp
    \/ \E n \in Node : FindLeader(n) \/ CallAccepted(n)
    \/ ProposeToLeader \/ ProposeToStopped \/ ProposalRefused
    \/ CallTimesOut
    \/ \E n \in Node, c \in Command : LateCallAccepted(n, c)

ClusterNext ==
    /\ \/ NodeStep
       \/ ClientStep
       \/ \E n \in Node : KillNode(n) \/ ReviveNode(n)
    /\ Cardinality(msgs') <= MaxInFlight

ClusterSpec == Init /\ ClientInit /\ [][ClusterNext]_clusterVars
-----------------------------------------------------------------------------
(* Properties.                                                             *)

InSomeLog(c) == \E n \in Node : \E i \in 1..Len(log[n]) : log[n][i].command = c

\* A transaction that the submitter records as failed, and never as submitted,
\* has no entry that could still settle it, whatever became of the runtimes it
\* was offered to, unless a call of the client went unanswered
\* (SettlementSubmitter._handle, both propose()).
FailureIsFinal ==
    \A c \in failed \ submitted : InSomeLog(c) => c \in timedOut

\* The contract of propose(), "returns a committed-or-committing LogEntry": what
\* it returned is on its way into the ledger for good, also when the leader that
\* took it had been deposed already.  It never vanishes from all logs and from
\* the network at once (SettlementSubmitter._handle, both propose()).
SubmittedNotLost ==
    \A c \in submitted :
        \/ InSomeLog(c)
        \/ \E m \in msgs : /\ m.type = "AppendEntriesArgs"
                           /\ \E i \in 1..Len(m.entries) : m.entries[i].command = c
=============================================================================
