------------------------------ MODULE Streaming -----------------------------
(***************************************************************************)
(* The in-process stream: the partitioned log of streaming/broker.py with  *)
(* its committed offsets, and the consumer group of streaming/group.py.    *)
(*                                                                         *)
(* Each method of the two classes runs under one lock, so each operator    *)
(* here is atomic.  A record is its value: partition and offset are where  *)
(* it stands.  Of time only the session time-out is kept: current is the   *)
(* set of members whose last heartbeat is not older than that.             *)
(***************************************************************************)
EXTENDS Integers, Sequences, FiniteSets, FiniteSetsExt

CONSTANTS
    Worker,         \* member ids, numbered in their sorting order
    NumPartitions,
    PartitionOf(_)  \* key_to_partition: the md5 of an account id

ASSUME StreamAssumption == Worker \subseteq Nat /\ NumPartitions \in Nat \ {0}

VARIABLES
    records,    \* PartitionedLog._partitions
    committed,  \* PartitionedLog._committed_offsets of the group
    members,    \* ConsumerGroup._members
    current,    \* members heard from within session_timeout_seconds
    assignment  \* ConsumerGroup._assignment, {} for who is not a member

brokerVars == <<records, committed>>
groupVars == <<members, current, assignment>>

Partition == 0..(NumPartitions - 1)

StreamInit ==
    /\ records = [p \in Partition |-> <<>>]
    /\ committed = [p \in Partition |-> 0]
    /\ members = {}
    /\ current = {}
    /\ assignment = [w \in Worker |-> {}]

-----------------------------------------------------------------------------
(* The broker.                                                             *)

\* Producer.produce: the partition of the account gets one more record.
AppendRecord(key, value) ==
    records' = [records EXCEPT ![PartitionOf(key)] = Append(@, value)]

\* Fault: the batch is taken to be full.
FullBatch(p, fromOffset, maxRecords) == fromOffset + maxRecords

\* read(): where the batch of at most maxRecords from fromOffset on ends.
BatchEnd(p, fromOffset, maxRecords) ==
    Min({Len(records[p]), fromOffset + maxRecords})

\* Fault: a new owner begins at the end of the log.
ResumeAtLatest(p) == Len(records[p])

\* poll_partition: where the last commit of any owner left off.
ResumeOffset(p) == committed[p]

\* Fault: the offset is stored as it comes.
LastCommitWins(old, offset) == offset

\* A late commit of a former owner does not move the offset back.
CommitMax(old, offset) == Max({old, offset})

CommitOffset(p, offset) ==
    committed' = [committed EXCEPT ![p] = CommitMax(@, offset)]

-----------------------------------------------------------------------------
(* The consumer group.                                                     *)

\* _rebalance: partitions round-robin over the sorted members.
Rebalance(ms) ==
    [w \in Worker |->
        {p \in Partition :
            /\ w \in ms
            /\ p % Cardinality(ms) = Cardinality({v \in ms : v < w})}]

\* A member that joins again only renews its session and the assignment.
Join(w) ==
    /\ members' = members \cup {w}
    /\ current' = current \cup {w}
    /\ assignment' = Rebalance(members')

\* Evicted members have to join again: heartbeat() raises for them.
Heartbeat(w) ==
    /\ w \in members
    /\ current' = current \cup {w}
    /\ UNCHANGED <<members, assignment>>

\* session_timeout_seconds pass without a heartbeat of w.
SessionLapses(w) ==
    /\ w \in current
    /\ current' = current \ {w}
    /\ UNCHANGED <<members, assignment>>

\* Fault: the partitions of evicted members stay where they are.
EvictOnly ==
    /\ members # current
    /\ members' = current
    /\ UNCHANGED <<current, assignment>>

\* Members without a heartbeat in time lose their partitions to the others.
CheckExpiredMembers ==
    /\ members # current
    /\ members' = current
    /\ assignment' = Rebalance(members')
    /\ UNCHANGED current
=============================================================================
