--------------------------- MODULE RaftRefinement ---------------------------
(***************************************************************************)
(* The replicated ledger of RaftLedger implements ReplicatedLedger.  What  *)
(* is agreed on is the longest prefix of a log that a node ever committed. *)
(* Commit indexes are volatile, so it is not a function of the state: it   *)
(* is kept in a history variable, which no action reads.                   *)
(***************************************************************************)
EXTENDS RaftLedger

VARIABLE chosen

CommandsOf(entries) == [i \in 1..Len(entries) |-> entries[i].command]

\* A step that makes a node commit beyond chosen extends it.
RecordChosen ==
    LET ahead == {n \in Node : commitIndex'[n] > Len(chosen)}
        n == CHOOSE n \in ahead : TRUE
    IN  chosen' = IF ahead = {} THEN chosen
                  ELSE CommandsOf(SubSeq(log'[n], 1, commitIndex'[n]))

ChosenNext == Next /\ RecordChosen

ChosenSpec == Init /\ chosen = <<>> /\ [][ChosenNext]_<<vars, chosen>>

Abstract == INSTANCE ReplicatedLedger WITH Replica <- Node

\* Raft with the ledger implements the abstract replicated ledger: one order
\* for all commands, and replicas that only move forward in it, although a
\* restart resets commit_index and last_applied and replays the log
\* (_advance_commit_index, handle_append_entries, RaftCluster.revive, apply).
ImplementsReplicatedLedger == Abstract!Spec
=============================================================================
