------------------------- MODULE LedgerStateMachine -------------------------
(***************************************************************************)
(* settlement/ledger_state_machine.py: balances by account and the cached  *)
(* result of every entry applied, keyed by entry_id.                       *)
(*                                                                         *)
(* A ledger is [balances, results], two functions whose domains are the    *)
(* keys of the two dictionaries.  An entry is [entryId, account, delta].   *)
(* Amounts are integers: Decimal sums of the amounts used are exact.       *)
(***************************************************************************)
EXTENDS Integers

\* LedgerStateMachine(initial_balances).
NewLedger(initialBalances) == [balances |-> initialBalances, results |-> << >>]

\* dict[key] = value.
Put(f, key, value) ==
    [k \in DOMAIN f \cup {key} |-> IF k = key THEN value ELSE f[k]]

Balance(ledger, account) ==
    IF account \in DOMAIN ledger.balances THEN ledger.balances[account] ELSE 0

Applied(ledger, entry) == entry.entryId \in DOMAIN ledger.results

\* An entry that would overdraw its account is rejected, and that is its
\* result too.
Accepts(ledger, entry) == Balance(ledger, entry.account) + entry.delta >= 0

\* The first application of an entry.
Settle(ledger, entry) ==
    LET current == Balance(ledger, entry.account)
        accepted == Accepts(ledger, entry)
        balance == IF accepted THEN current + entry.delta ELSE current
    IN  [balances |-> IF accepted THEN Put(ledger.balances, entry.account, balance)
                      ELSE ledger.balances,
         results |-> Put(ledger.results, entry.entryId,
                         [accepted |-> accepted, balance |-> balance])]

\* Fault: no look-up of the cached result.
ApplyTwice(ledger, entry) == Settle(ledger, entry)

\* apply(): an entry with a cached result changes nothing.
Apply(ledger, entry) == IF Applied(ledger, entry) THEN ledger ELSE Settle(ledger, entry)
=============================================================================
