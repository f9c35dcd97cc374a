----------------------------- MODULE MCCluster ------------------------------
(***************************************************************************)
(* The cluster and its client from the moment n1, elected by n3, leads     *)
(* term 1 and its announcements are lost.                                  *)
(***************************************************************************)
EXTENDS MCRaft, RaftCluster

CONSTANTS n1, n2, n3

InitCluster ==
    /\ currentTerm = [n \in Node |-> IF n = n2 THEN 0 ELSE 1]
    /\ votedFor = [n \in Node |-> IF n = n2 THEN None ELSE n1]
    /\ log = [n \in Node |-> <<>>]
    /\ state = Only(n1, "LEADER", "FOLLOWER")
    /\ leaderId = Only(n1, n1, None)
    /\ votesReceived = Only(n1, {n1, n3}, {})
    /\ prevotesReceived = Only(n1, {n1, n3}, {})
    /\ prevoteTarget = Only(n1, 1, -1)
    /\ leaderContact = [n \in Node |-> FALSE]
    /\ commitIndex = [n \in Node |-> 0]
    /\ lastApplied = [n \in Node |-> 0]
    /\ nextIndex = [n \in Node |-> [p \in Peers(n) |-> 1]]
    /\ matchIndex = [n \in Node |-> [p \in Peers(n) |-> 0]]
    /\ machine = [n \in Node |-> InitialMachine]
    /\ msgs = {}
    /\ down = {}
    /\ elected = {<<1, n1>>}
    /\ ClientInit

SpecCluster == InitCluster /\ [][ClusterNext]_clusterVars

\* The gRPC client only.
SpecRemote == InitCluster /\ remote = TRUE /\ [][ClusterNext]_clusterVars
=============================================================================
