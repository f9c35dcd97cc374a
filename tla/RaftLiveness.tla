---------------------------- MODULE RaftLiveness ----------------------------
(***************************************************************************)
(* What a Raft cluster gets done when its threads keep running: elections  *)
(* that come to nothing are repeated, and what a leader appends is applied *)
(* everywhere.                                                             *)
(***************************************************************************)
EXTENDS RaftLedger

MessageType ==
    {"PreVoteArgs", "PreVoteReply", "RequestVoteArgs", "RequestVoteReply",
     "AppendEntriesArgs", "AppendEntriesReply"}

\* Bound: MaxInFlight holds back timers and clients, never a handler.
Fairly(A) == A /\ Cardinality(msgs') <= MaxInFlight

FairNext == Next \/ \E m \in msgs : Receive(m)

\* The driver loop of every live node goes on: its timers fire, its inbox is
\* emptied in the order in which it was filled, so that no kind of message is
\* left there for ever, and contact with a leader lapses when there is no leader
\* any more that could renew it.  Nothing is asked of clients, kill and revive.
Fairness ==
    \A n \in Node :
        /\ WF_vars((\A l \in Node : ~LiveLeader(l)) /\ LeaderContactLapses(n))
        /\ WF_vars(Fairly(ElectionTimeout(n)))
        /\ WF_vars(Fairly(HeartbeatTimeout(n)))
        /\ \A p \in Peers(n), k \in MessageType :
              WF_vars(\E m \in msgs : m.type = k /\ m.src = p /\ m.dst = n /\ Receive(m))

\* As long as a majority is up the cluster comes to have a leader, also when a
\* candidate was left without votes, or abandons its election before they come
\* in, and has to step back to try again (_start_prevote,
\* _handle_prevote_reply, handle_request_vote, _handle_request_vote_reply).
ElectionRetried ==
    []<>(\/ \E n \in Node : LiveLeader(n)
         \/ Cardinality(Node \ down) < Majority)

\* As long as a majority is up, what a leader appends in its own term is applied
\* by every live node, with all that earlier terms left before it, also by one
\* that has been away and must be brought up to date first, unless the leader
\* loses its office (_handle_append_entries_reply, _advance_commit_index,
\* handle_append_entries).
OwnTermSettles ==
    []<>(\/ \A n \in Node, p \in Node \ down :
              LiveLeader(n) /\ LastTerm(log[n]) = currentTerm[n]
                => lastApplied[p] >= Len(log[n])
         \/ Cardinality(Node \ down) < Majority)
=============================================================================
