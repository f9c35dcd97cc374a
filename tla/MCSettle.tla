------------------------------ MODULE MCSettle ------------------------------
(***************************************************************************)
(* The replicated ledger in one process after an election that came to     *)
(* nothing.  n1 led term 1 with an entry that only n3 got; n1 was          *)
(* restarted, won a prevote and became a candidate of term 2 just when the *)
(* others were down, so that its requests for votes were dropped.  n3 is   *)
(* up again, n2 may come back at any time.                                 *)
(***************************************************************************)
EXTENDS MCRaft, RaftLiveness

CONSTANTS n1, n2, n3, t1

InitSettle ==
    /\ currentTerm = Only(n1, 2, 1)
    /\ votedFor = [n \in Node |-> n1]
    /\ log = [n \in Node |->
                IF n = n2 THEN <<>>
                ELSE <<[term |-> 1, command |-> CHOOSE c \in Command : c.entryId = t1]>>]
    /\ state = Only(n1, "CANDIDATE", "FOLLOWER")
    /\ leaderId = [n \in Node |-> None]
    /\ votesReceived = Only(n1, {n1}, {})
    /\ prevotesReceived = Only(n1, {n1, n3}, {})
    /\ prevoteTarget = Only(n1, 2, -1)
    /\ leaderContact = [n \in Node |-> FALSE]
    /\ commitIndex = [n \in Node |-> 0]
    /\ lastApplied = [n \in Node |-> 0]
    /\ nextIndex = [n \in Node |-> [p \in Peers(n) |-> 1]]
    /\ matchIndex = [n \in Node |-> [p \in Peers(n) |-> 0]]
    /\ machine = [n \in Node |-> InitialMachine]
    /\ msgs = {}
    /\ down = {n2}
    /\ elected = {<<1, n1>>}

FairSettle == InitSettle /\ [][FairNext]_vars /\ Fairness
=============================================================================
