----------------------------- MODULE RaftLedger -----------------------------
(***************************************************************************)
(* The settlement ledger replicated by Raft: Raft with LedgerStateMachine  *)
(* as each node's state machine (ApplyCommand is Apply).                   *)
(***************************************************************************)
EXTENDS Raft, LedgerStateMachine

\* An entry_id names one transaction, and no account begins overdrawn.
ASSUME LedgerAssumption ==
    /\ \A c, d \in Command : c.entryId = d.entryId => c = d
    /\ \A c \in Command : c.delta \in Int
    /\ InitialMachine.results = << >>
    /\ \A a \in DOMAIN InitialMachine.balances : InitialMachine.balances[a] \in Nat

\* The ledger of a log prefix: each of its entries applied once, in order.
LedgerOf(l, k) == ApplyEntries(InitialMachine, SubSeq(l, 1, k))

\* A replica's ledger is always that of a prefix of its own log, although a
\* restart keeps the ledger, resets last_applied and replays the log into it.
LedgerIsLogPrefix ==
    \A n \in Node : \E k \in 0..Len(log[n]) : machine[n] = LedgerOf(log[n], k)

\* No double spend: on every replica a balance is what the account began with
\* plus the entries accepted, each counted once however often it was proposed
\* or replayed, and never negative (LedgerStateMachine.apply).
NoDoubleSpend ==
    \A n \in Node :
        LET ledger == machine[n]
            accepted == {c \in Command : Applied(ledger, c)
                                          /\ ledger.results[c.entryId].accepted}
            account(a) == {c \in accepted : c.account = a}
        IN  \A a \in {c.account : c \in Command} :
              /\ Balance(ledger, a) >= 0
              /\ Balance(ledger, a) = Balance(InitialMachine, a)
                                         + MapThenSumSet(LAMBDA c : c.delta, account(a))

\* Of two conflicting entries every replica accepts the same one: replicas
\* that have a result for an entry have the same result, balance included.
ReplicasAgreeOnResults ==
    \A a, b \in Node :
        \A id \in DOMAIN machine[a].results \cap DOMAIN machine[b].results :
            machine[a].results[id] = machine[b].results[id]

\* A settlement is final: a replica never loses the result of an entry, and no
\* replica ever comes to another one, so that whoever reads first one leader's
\* ledger and after a failover the next one's, or a ledger before and after a
\* restart and its replay, sees no result change (apply, RaftCluster.revive).
ResultsFinal ==
    [][\A a, b \in Node : \A id \in DOMAIN machine[a].results :
         /\ id \in DOMAIN machine'[a].results
         /\ id \in DOMAIN machine'[b].results
              => machine'[b].results[id] = machine[a].results[id]]_vars
=============================================================================
