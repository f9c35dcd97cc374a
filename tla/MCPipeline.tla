----------------------------- MODULE MCPipeline -----------------------------
(***************************************************************************)
(* The fraud pipeline, instantiated for TLC.  Account "a" is on partition  *)
(* 1, which two workers pass to each other as they come and go, account    *)
(* "b" on partition 0.  Only the velocity rule flags these transactions.   *)
(***************************************************************************)
EXTENDS FraudPipeline

CONSTANT Burst \* how many transactions account "a" submits

AccountPartition(account) == IF account = "a" THEN 1 ELSE 0

Plain(account, i) ==
    [account |-> account, number |-> i, large |-> FALSE, deviceFlagged |-> FALSE]

BurstOnA == {Plain("a", i) : i \in 1..Burst}
BurstOnAAndB == BurstOnA \cup {Plain("b", 1)}
=============================================================================
