------------------------------- MODULE MCRaft -------------------------------
(***************************************************************************)
(* The replicated ledger, instantiated for TLC: transactions that each     *)
(* debit 1 from an account that holds 1, so that any two of them conflict. *)
(***************************************************************************)
EXTENDS RaftLedger, TLC

CONSTANT Transaction

Debits == {[entryId |-> t, account |-> "a", delta |-> -1] : t \in Transaction}
FundedLedger == NewLedger([a \in {"a"} |-> 1])

\* A function on the nodes that has one value for a node and one for the others.
Only(node, value, others) == [n \in Node |-> IF n = node THEN value ELSE others]

\* The permutations that respect the bounds on who campaigns and who dies.
Symmetry ==
    {p \in Permutations(Node) : /\ {p[n] : n \in Campaigner} = Campaigner
                                /\ {p[n] : n \in Mortal} = Mortal}
      \cup Permutations(Transaction)
=============================================================================
