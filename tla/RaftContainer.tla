---------------------------- MODULE RaftContainer ---------------------------
(***************************************************************************)
(* The containerised deployment: docker/raft_node_entrypoint.py builds its *)
(* node on a new InMemoryStorage and a new ledger, so a container that is  *)
(* restarted comes back without its term, its vote and its log.            *)
(***************************************************************************)
EXTENDS Raft

\* main() of a fresh process; the calls it was part of have failed.
ContainerRestart(n) ==
    /\ n \in Mortal
    /\ currentTerm' = [currentTerm EXCEPT ![n] = 0]
    /\ votedFor' = [votedFor EXCEPT ![n] = None]
    /\ log' = [log EXCEPT ![n] = <<>>]
    /\ state' = [state EXCEPT ![n] = "FOLLOWER"]
    /\ leaderId' = [leaderId EXCEPT ![n] = None]
    /\ votesReceived' = [votesReceived EXCEPT ![n] = {}]
    /\ prevotesReceived' = [prevotesReceived EXCEPT ![n] = {}]
    /\ prevoteTarget' = [prevoteTarget EXCEPT ![n] = -1]
    /\ leaderContact' = [leaderContact EXCEPT ![n] = FALSE]
    /\ commitIndex' = [commitIndex EXCEPT ![n] = 0]
    /\ lastApplied' = [lastApplied EXCEPT ![n] = 0]
    /\ nextIndex' = [nextIndex EXCEPT ![n] = [p \in Peers(n) |-> 1]]
    /\ matchIndex' = [matchIndex EXCEPT ![n] = [p \in Peers(n) |-> 0]]
    /\ machine' = [machine EXCEPT ![n] = InitialMachine]
    /\ msgs' = {m \in msgs : n \notin {m.src, m.dst}}
    /\ UNCHANGED <<down, elected>>

ContainerNext == Next \/ \E n \in Node : ContainerRestart(n)

ContainerSpec == Init /\ [][ContainerNext]_vars
=============================================================================
