---------------------------- MODULE RaftHistory -----------------------------
(***************************************************************************)
(* Raft with two history variables, for the proofs about the log.  A node  *)
(* may overwrite an entry that it once acknowledged, and commit_index does *)
(* not survive a restart, so the state alone does not tell what was        *)
(* replicated.  HistoryKept defines the history along a behaviour of any   *)
(* kind: it says where led and acks begin and which value each step gives  *)
(* them, and says nothing of the other variables.                          *)
(***************************************************************************)
EXTENDS Raft

VARIABLES
    led,    \* every <<term, index, entry>> in the log of a term's leader
    acks    \* every <<node, term, index>> of a successful AppendEntriesReply

historyVars == <<vars, led, acks>>

LeaderEntries ==
    UNION {{<<currentTerm[n], i, log[n][i]>> : i \in 1..Len(log[n])} :
             n \in {p \in Node : state[p] = "LEADER"}}

AcksInFlight ==
    {<<m.src, m.term, m.match>> :
       m \in {r \in msgs : r.type = "AppendEntriesReply" /\ r.success}}

HistoryInit == Init /\ led = {} /\ acks = {}

Record ==
    /\ led' = led \cup LeaderEntries'
    /\ acks' = acks \cup AcksInFlight'

HistoryKept == led = {} /\ acks = {} /\ [][Record]_historyVars

\* Raft as it is, with its history kept beside it; and one step of that.
HistorySpec == Spec /\ HistoryKept
HistoryStep == [Next]_vars /\ [Record]_historyVars

-----------------------------------------------------------------------------
(* The logs of the leaders, and where all other entries come from.         *)

Held(term, i, e) == <<term, i, e>> \in led

HistoryType ==
    /\ led \subseteq Nat \X (Nat \ {0}) \X Entry
    /\ acks \subseteq Node \X Nat \X Nat

\* The entries of one term's leaders form one log without gaps.
OneLogPerTerm ==
    /\ \A g, h \in led : g[1] = h[1] /\ g[2] = h[2] => g[3] = h[3]
    /\ \A h \in led : \A j \in 1..h[2] : \E g \in led : g[1] = h[1] /\ g[2] = j

LedByElected ==
    \A h \in led : h[3].term <= h[1] /\ \E n \in Node : <<h[1], n>> \in elected

\* Up to an entry of term t, a leader's log is that of the leader of t.
LedInherited ==
    \A g, h \in led : g[1] = h[1] /\ g[2] <= h[2] => Held(h[3].term, g[2], g[3])

\* So is every node's log.
LogsInherited ==
    \A n \in Node : \A i \in 1..Len(log[n]) :
        /\ log[n][i].term <= currentTerm[n]
        /\ \A j \in 1..i : Held(log[n][i].term, j, log[n][j])

\* As long as a leader stays in its term its log is the log of the term, also
\* after a restart, and it is no candidate in that term again.
ElectedKeepLog ==
    \A e \in elected :
        /\ currentTerm[e[2]] >= e[1]
        /\ currentTerm[e[2]] = e[1] =>
             /\ state[e[2]] # "CANDIDATE"
             /\ \A i \in 1..Len(log[e[2]]) : Held(e[1], i, log[e[2]][i])
             /\ \A h \in led : h[1] = e[1] =>
                  h[2] <= Len(log[e[2]]) /\ h[3] = log[e[2]][h[2]]

LeadersElected ==
    \A n \in Node : state[n] = "LEADER" => <<currentTerm[n], n>> \in elected

\* A request carries a piece of the log of its term.
IsAppend(m) == m.type = "AppendEntriesArgs"
RequestInherited(m) ==
    /\ <<m.term, m.src>> \in elected
    /\ \A k \in 1..Len(m.entries) : Held(m.term, m.prevIndex + k, m.entries[k])
    /\ m.prevIndex > 0 /\ m.prevTerm # -1 =>
         \E h \in led : h[1] = m.term /\ h[2] = m.prevIndex /\ h[3].term = m.prevTerm

RequestsInherited == \A m \in msgs : IsAppend(m) => RequestInherited(m)

LogInv ==
    /\ HistoryType /\ OneLogPerTerm /\ LedByElected /\ LedInherited /\ LogsInherited
    /\ ElectedKeepLog /\ LeadersElected /\ RequestsInherited

-----------------------------------------------------------------------------
(* What is chosen, and what no longer can be.                              *)

\* v has told the leader of the term that it holds index i, or is that leader.
Acked(v, term, i) ==
    \/ <<term, v>> \in elected
    \/ \E a \in acks : a[1] = v /\ a[2] = term /\ a[3] >= i

Quorum == {Q \in SUBSET Node : Cardinality(Q) >= Majority}

Chosen(term, i) == \E Q \in Quorum : \A v \in Q : Acked(v, term, i)

\* A majority is past the term and has never acknowledged index i in it.
Unchoosable(term, i) ==
    \E Q \in Quorum : \A v \in Q : currentTerm[v] > term /\ ~Acked(v, term, i)

\* The entries that a leader appended in its own term.
Own == {h \in led : h[3].term = h[1]}

LogHas(l, i, term) == i <= Len(l) /\ l[i].term = term

AcksTrue ==
    \A a \in acks :
        /\ currentTerm[a[1]] >= a[2]
        /\ a[3] > 0 => \E h \in led : h[1] = a[2] /\ h[2] = a[3]
        /\ currentTerm[a[1]] = a[2] =>
             a[3] <= Len(log[a[1]]) /\ \A j \in 1..a[3] : Held(a[2], j, log[a[1]][j])

MatchesAcked ==
    \A l \in Node : \A p \in Peers(l) :
        state[l] = "LEADER" /\ matchIndex[l][p] > 0
          => <<p, currentTerm[l], matchIndex[l][p]>> \in acks

\* What a node acknowledged it still holds, or it can no longer be chosen.
AckedStay ==
    \A h \in Own : \A v \in Node :
        Acked(v, h[1], h[2]) => LogHas(log[v], h[2], h[1]) \/ Unchoosable(h[1], h[2])

\* A later leader has every entry of an earlier one that may be chosen.
LaterLeadersHold ==
    \A h \in Own : \A e \in elected :
        h[1] < e[1] => \/ \E g \in led : g[1] = e[1] /\ g[2] = h[2] /\ g[3].term = h[1]
                       \/ Unchoosable(h[1], h[2])

\* The same of a candidate and whoever voted for it.
VotedFor(v, c) ==
    \/ v \in votesReceived[c]
    \/ \E m \in msgs : /\ m.type = "RequestVoteReply" /\ m.granted
                       /\ m.src = v /\ m.dst = c /\ m.term = currentTerm[c]

CandidatesHold ==
    \A h \in Own : \A c, v \in Node :
        /\ state[c] = "CANDIDATE" /\ h[1] < currentTerm[c]
        /\ VotedFor(v, c) /\ Acked(v, h[1], h[2])
        => LogHas(log[c], h[2], h[1]) \/ Unchoosable(h[1], h[2])

\* A request for votes tells the candidate's log as long as it is of interest,
\* and no vote is for a term that its candidate has not reached.
RequestsTrue ==
    \A m \in msgs :
        /\ m.type = "RequestVoteArgs" =>
             /\ currentTerm[m.src] >= m.term
             /\ state[m.src] = "CANDIDATE" /\ currentTerm[m.src] = m.term
                  => m.lastIndex = Len(log[m.src]) /\ m.lastTerm = LastTerm(log[m.src])
        /\ m.type = "RequestVoteReply" /\ m.granted => currentTerm[m.dst] >= m.term

\* Everything up to index i is committed for a node in this term.
CommittedBy(term, i) ==
    \E h \in Own : h[1] <= term /\ i <= h[2] /\ Chosen(h[1], h[2])

CommitsChosen ==
    /\ \A n \in Node : commitIndex[n] > 0 =>
         /\ commitIndex[n] <= Len(log[n])
         /\ \E h \in Own : /\ h[1] <= currentTerm[n] /\ commitIndex[n] <= h[2]
                           /\ Chosen(h[1], h[2])
                           /\ \A i \in 1..commitIndex[n] : Held(h[1], i, log[n][i])
    /\ \A m \in msgs : IsAppend(m) /\ m.commit > 0 =>
         /\ CommittedBy(m.term, m.commit)
         /\ m.prevIndex = 0 \/ m.prevTerm # -1 => m.commit <= m.prevIndex + Len(m.entries)

RecordsTrue == AcksInFlight \subseteq acks

CommitInv ==
    /\ RecordsTrue /\ AcksTrue /\ MatchesAcked /\ AckedStay /\ LaterLeadersHold
    /\ CandidatesHold /\ RequestsTrue /\ CommitsChosen
=============================================================================
