----------------------------- MODULE MCFigure8 ------------------------------
(***************************************************************************)
(* The replicated ledger from the middle of Figure 8 of the Raft paper.    *)
(* n1 led term 1 and n2 term 2, with one and two entries that they did not *)
(* get to replicate; the whole cluster was restarted; n3 then elected n1   *)
(* for term 3, n2 refused, and the leader's announcements were lost.       *)
(***************************************************************************)
EXTENDS MCRaft, RaftRefinement

CONSTANTS n1, n2, n3, t1, t2

Debit(t) == CHOOSE c \in Command : c.entryId = t

InitFigure8 ==
    /\ currentTerm = [n \in Node |-> 3]
    /\ votedFor = [n \in Node |-> IF n = n2 THEN None ELSE n1]
    /\ log = [n \in Node |-> CASE n = n1 -> <<[term |-> 1, command |-> Debit(t1)]>>
                               [] n = n2 -> <<[term |-> 2, command |-> Debit(t2)],
                                             [term |-> 2, command |-> Debit(t1)]>>
                               [] OTHER -> <<>>]
    /\ state = Only(n1, "LEADER", "FOLLOWER")
    /\ leaderId = Only(n1, n1, None)
    /\ votesReceived = Only(n1, {n1, n3}, {})
    /\ prevotesReceived = Only(n1, {n1, n3}, {})
    /\ prevoteTarget = Only(n1, 3, -1)
    /\ leaderContact = [n \in Node |-> FALSE]
    /\ commitIndex = [n \in Node |-> 0]
    /\ lastApplied = [n \in Node |-> 0]
    /\ nextIndex = [n \in Node |-> [p \in Peers(n) |-> IF n = n1 THEN 2 ELSE 1]]
    /\ matchIndex = [n \in Node |-> [p \in Peers(n) |-> 0]]
    /\ machine = [n \in Node |-> InitialMachine]
    /\ msgs = {}
    /\ down = {}
    /\ elected = {<<1, n1>>, <<2, n2>>, <<3, n1>>}
    /\ chosen = <<>>

SpecFigure8 == InitFigure8 /\ [][ChosenNext]_<<vars, chosen>>
=============================================================================
