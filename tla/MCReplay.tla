------------------------------ MODULE MCReplay ------------------------------
(***************************************************************************)
(* The replicated ledger from the beginning of a term.  n2 led term 1 with *)
(* an entry that it did not get to replicate and was restarted; n3 then    *)
(* elected n1 for term 2, and the leader's announcements were lost.  The   *)
(* tail of n2 has to be repaired while entries are replicated, requests    *)
(* and replies overtake each other and n2 dies and comes back.             *)
(***************************************************************************)
EXTENDS MCRaft, RaftRefinement

CONSTANTS n1, n2, t1

InitReplay ==
    /\ currentTerm = [n \in Node |-> 2]
    /\ votedFor = Only(n2, None, n1)
    /\ log = Only(n2, <<[term |-> 1, command |-> CHOOSE c \in Command : c.entryId = t1]>>,
                  <<>>)
    /\ state = Only(n1, "LEADER", "FOLLOWER")
    /\ leaderId = Only(n1, n1, None)
    /\ votesReceived = Only(n1, Node \ {n2}, {})
    /\ prevotesReceived = Only(n1, Node \ {n2}, {})
    /\ prevoteTarget = Only(n1, 2, -1)
    /\ leaderContact = [n \in Node |-> FALSE]
    /\ commitIndex = [n \in Node |-> 0]
    /\ lastApplied = [n \in Node |-> 0]
    /\ nextIndex = [n \in Node |-> [p \in Peers(n) |-> 1]]
    /\ matchIndex = [n \in Node |-> [p \in Peers(n) |-> 0]]
    /\ machine = [n \in Node |-> InitialMachine]
    /\ msgs = {}
    /\ down = {}
    /\ elected = {<<1, n2>>, <<2, n1>>}
    /\ chosen = <<>>

SpecReplay == InitReplay /\ [][ChosenNext]_<<vars, chosen>>
=============================================================================
