# Verification of the distributed transaction pipeline

TLA+ modules, TLC runs and TLAPS proofs about the code in `src/`: a
partitioned stream, fraud workers in a consumer group, a settlement submitter
and a Raft-replicated ledger. `PROJECT.json` lists the components, the runs,
the source lines of every definition, the hazards and the theorems.

    tlc -workers 2 -config MCElection.cfg MCRaft     # a run
    tlapm RaftElectionProofs.tla                     # a proof module

## 1. Inventory

A transaction is appended to the partition of its account (`submit_transaction`,
`Producer`, `PartitionedLog`). A fraud worker, the member of the consumer group
to which the partition is assigned, reads it from the committed offset on,
scores it, puts the verdict on a bounded queue and commits the offset. The
submitter takes verdicts off the queue, drops what is fraud and proposes the
rest to the Raft cluster. The leader replicates the entry; each node applies
the committed log to its own ledger.

| Part | State | Operations | Hard behaviour | What makes it correct |
|---|---|---|---|---|
| `raft/node.py`, `storage.py`, `types.py` | term, vote and log (persistent); role, tallies, commit and apply indexes, a leader's view of its peers (volatile) | tick, propose, three request handlers, three reply handlers | lost, late and reordered messages, restarts, rivals, conflicting tails | one leader per term, one vote per term, logs match, committed entries stay, replicas agree |
| `raft/transport.py`, `coordinator/grpc/` | inboxes, cut-off nodes; a pool of sender threads | send, deliver, partition, rejoin | loss, no order over gRPC, arbitrary delay | nothing is invented |
| `coordinator/raft_runtime.py`, `raft_cluster.py` | one lock and one thread per node; cached leader | start, stop, kill, revive, find_leader, propose | restart on the same storage and ledger; a stopped runtime still in someone's hands | handlers are atomic; a restart forgets nothing that was promised |
| `settlement/ledger_state_machine.py` | balances, cached results | apply | replay after a restart, proposals repeated | an entry takes effect once, with one result |
| `docker/raft_node_entrypoint.py` | none survives | main | restart of a container | as for kill and revive |
| `streaming/broker.py` | partitions, committed offsets | append, read, commit_offset | commits of former owners | the offset never moves back |
| `streaming/group.py`, `consumer.py` | members, heartbeats, assignment | join, heartbeat, check_expired_members | expiry of a living member | every partition has an owner that is alive |
| `fraud/worker.py`, `scorer.py`, `coordinator/fraud_runtime.py` | position in the batch, room, velocity windows | run_once, heartbeat, stop | two owners at once, a full queue, exceptions that end the thread | at least once, in order |
| `settlement/submitter.py` | counters | _run, _handle | time-outs, two verdicts for one transaction | fraud never reaches the ledger |
| `coordinator/coordinator.py` | the parts above | start, submit, kill, revive, health loop | start and kill while records flow | no transaction is dropped |

The interactions are: calls under a lock per object (group, broker partition,
queue, node runtime), messages between nodes, and threads that read shared
state, compute and come back to it. The hazards that follow from them are
listed in `PROJECT.json` with the properties that watch them.

## 2. Modules

| Module | What it is |
|---|---|
| `Raft` | `RaftNode` over `InMemoryStorage`, the network, kill and revive; the properties of the core |
| `LedgerStateMachine` | `apply` and its results as operators on a record |
| `RaftLedger` | Raft with the ledger as state machine, properties of the replicas |
| `RaftLiveness` | the fairness of the driver loops and what gets done under it |
| `RaftCluster` | `RaftLedger` composed with its client: the submitter, `RaftCluster.propose` and `GrpcRaftClusterClient.propose` |
| `ReplicatedLedger` | abstract specification: one growing sequence of commands, replicas that move forward in it |
| `RaftRefinement` | the refinement mapping from `RaftLedger` to `ReplicatedLedger` |
| `RaftContainer` | Raft plus a restart that loses the storage, as the container does |
| `Streaming` | the partitioned log with committed offsets, and the consumer group |
| `FraudPipeline` | workers, queue, submitter and coordinator on top of `Streaming` |
| `MCRaft`, `MCFigure8`, `MCReplay`, `MCSettle`, `MCCluster`, `MCContainer`, `MCPipeline` | instances for TLC |
| `OrderLemmas` | what `Min` and `Max` of the community modules return; induction over a set of naturals |
| `RaftProofs`, `RaftElectionProofs` | types, votes and election safety of `Raft` |
| `RaftHistory` | `Raft` with history variables, and the inductive invariants of the log; models no code |
| `RaftLogProofs`, `RaftCommitProofs` | log matching, and the safety of commitment |
| `RaftLedgerProofs` | the replicas' ledgers, the refinement of `ReplicatedLedger` and the sums of `NoDoubleSpend` |
| `RaftClusterProofs` | the cluster with its clients: failures are final, no double spending, one leader per term |
| `FraudPipelineProofs` | types, at-least-once delivery and order of `FraudPipeline` |

**Raft.** Every handler runs under its runtime's lock, so it is one action
including the messages it sends. `currentTerm`, `votedFor` and `log` are the
storage; the other functions of `Node` are the attributes of `RaftNode`.
`handle_append_entries` is three actions, one per way out
(`RejectStaleAppend`, `RejectConflictingAppend`, `AcceptAppend`); the reply
handlers share `ReceiveNewerTerm` and `IgnoreReply`. Time is reduced to
`leaderContact`: whether a leader was heard from within
`election_timeout_min`. Election deadlines are at least that far away, so a
node times out only when its contact has lapsed; beyond that timers fire at
any moment. With `Lossy` a message is lost when it is sent or stays in flight
until it is taken, in any order: the gRPC transport, whose calls may fail and
overtake each other. Without it only messages to and from cut-off nodes are
lost: `InMemoryTransport`. Neither duplicates a message, and replies are not
retransmitted. `elected` is a history variable. `ApplyCommand` and
`InitialMachine` are parameters, so nothing about Raft depends on the ledger.

**RaftCluster.** The actions of `RaftLedger` with `propose` taken apart.
`RaftCluster.propose` is `FindLeader`, which hands out a runtime (`held`), and
one of `ProposeToLeader`, `ProposeToStopped` and `ProposalRefused`, with kills,
revivals and elections in between. `revive()` builds a new runtime over the
same storage, so a runtime in hand that is replaced keeps what its old
`RaftNode` knew (`held.old`) and still writes into that storage.
`GrpcRaftClusterClient.propose` asks the nodes in the order of its cache and
the hints it gets; the model asks them in any order, which includes that one.
A call that times out is remembered in `timedOut` and may be handled at any
later time. `submitted` and `failed` are the submitter's counters, as sets.

**RaftRefinement.** What is agreed on is the longest prefix that a node ever
committed. `commit_index` is volatile: after the whole cluster restarts no node
knows that prefix, so it is not a function of the state and `chosen` is a
history variable. The mapping is `chosen` and the replicas' ledgers.
`LedgerStateMachine.apply` is idempotent, so a restarted node that replays its
log is a replica that stands still: exactly what the refinement has to show.

**FraudPipeline.** One action per visit of a thread to shared state. A thread
reads in turn: the room in the queue, its assignment, the committed offset,
the records, then for each record puts a verdict and commits. Between any two
of these the other threads may run. The group knows member ids (`Worker`), the
coordinator runtimes (`Runtime`): the first of each member and those that
`revive_fraud_worker` spawns later, each with its thread, `run_once` variables
and velocity windows. `kill_fraud_worker` sets the stop event of the newest
runtime (`stopping`), whose thread sees it at the top of its loop
(`LeaveLoop`); `stop()` gives up waiting for that after 2 s, and reviving does
not ask, so two threads may work under one member id. The two exceptions that
nobody catches (`queue.Full`, and `ValueError` for a heartbeat after eviction)
end the thread. Outside `run_once` its local variables are at their initial
values (`EndCycle`). Session
time-outs are the action `MissHeartbeats`. The weights of the scorer are those
of `ScorerConfig`, in tenths; `StillInWindow` is the sliding of the velocity
window. `RaftCluster.propose` is its two outcomes.

The operators whose comment begins with "Fault:" are plausible errors in the
definition below them. `PROJECT.json` ("mutants") says which property each one
breaks.

## 3. Runs

| Run | Bounds | What it shows |
|---|---|---|
| `election` | 3 nodes, 2 campaigners, terms 0..2, 2 messages in flight, a voter and a campaigner mortal, empty logs | `TypeOK`, `ElectionSafety`, `VotesBacked`, `VoteStable` |
| `figure8` | 3 nodes, from term 3 to 4, logs of up to 2 entries, 1 message in flight | `LogMatching`, `StateMachineSafety`, `LeaderCompleteness`, `ReplicasAgreeOnResults`, `ImplementsReplicatedLedger` |
| `replay` | one leader of term 2, two conflicting debits, a mortal follower with a tail of term 1, 2 messages in flight | `MatchIndexSound`, `LedgerIsLogPrefix`, `NoDoubleSpend`, `CommittedNeverTruncated`, `ImplementsReplicatedLedger`, `ResultsFinal` |
| `settle` | a candidate of term 2 left without votes, terms up to 4, 3 messages in flight, logs of up to 2 entries, a node that is away and may come back, nothing lost | `ElectionRetried`, `OwnTermSettles` under `Fairness` |
| `client` | both clients, one debit, a mortal leader of term 1, a rival for term 2, 1 message in flight | `FailureIsFinal`, `NoDoubleSpend` |
| `pipeline` | 2 workers, 2 partitions, a burst of 2 transactions, queue of 2, batches of 2; one worker stalls and is revived once, at any time; every verdict is fraud | `TypeOK`, `AtLeastOnce`, `HandedOnInOrder`, `ResumePointAdvances` |
| `rebalance` | 2 workers, 2 partitions, a transaction on the partition of the worker that is mortal, stalls and is revived once, queue of 4; the submitter proposes | `EveryTransactionHandled` under `FairSpec` |
| `disrupted`, `container`, `lost`, `backpressure`, `flagged` | the smallest instance that shows it | a counterexample to what the repository says (section 5) |

*Why the bounds are enough for the cases meant.* Two terms and two campaigners
make a vote of one election late for the next; killing a voter and a rival
puts a restart between any two steps of an election. Two messages in flight
allow a request and an older reply to be reordered. One entry per leader at
the same index is a conflict; two entries are a request overtaken by a longer
one. Two debits of 1 from an account that holds 1 conflict in every order, and
nothing keeps a client from proposing the same debit twice.

Four instances do not start from `Init`, because the case they are about lies
behind one or more elections and the states before it would use up TLC's
range. Each starts where a history of the code leads, and the comment of its
module tells that history:
- `figure8`: two leaders failed to replicate, and the third was just elected;
- `replay`: a new leader whose follower has a tail of the term before;
- `settle`: a candidacy whose requests for votes were dropped, with an entry of
  an earlier term on a minority of the logs and a node that is down;
- `client` and `lost`: a leader of term 1 that one of its two followers has
  not heard of.

In `client` each transaction comes off the queue once (proposals repeated by a
second delivery are in `replay`, where `Propose` is free to repeat) and the
leader that is mortal is the one in the client's hands.
In the pipeline, partition 1 belongs to worker 2 while it is a member and to
worker 1 otherwise, so it changes hands with every birth and death, and with a
revival three threads may be at work on it; a burst of 2 lets a batch be
interrupted in the middle. In `pipeline` nobody is killed: a killed thread takes
no more steps, and the safety properties already cover every behaviour in which
a thread takes none from some point on, with the worker evicted (`Stalling`).
What becomes of a verdict does not matter to them either, so there every
transaction is flagged; proposals and their failures are in `rebalance`.

`CHECK_DEADLOCK FALSE` is set because the bounds stop the Raft model (no term
beyond `MaxTerm`), and because a pipeline in which all workers are killed or
dead and none may be revived does stop.

*Fairness of `settle`* (`Fairness` of `RaftLiveness`): weak fairness of the
driver loop of each node, which runs every few milliseconds while its node is
up. Its timers fire. It empties its inbox in the order in which it was filled,
so every kind of message from every peer is handled sooner or later. Contact
with a leader lapses once there is no live leader; while there is one it may
lapse but need not, as heartbeats renew it. Clients, `kill` and `revive` are not
fair, and nothing is lost between live nodes, as in `InMemoryTransport`; over
gRPC, where every call may fail, nothing is promised. The bound `MaxInFlight`
holds back timers and clients only (`FairNext`): a handler that answers is never
kept waiting for room. Only one node campaigns: two with equally random
time-outs could depose each other for ever, and it is chance that prevents it.
For the same reason the terms are bounded. The candidate of term 2 got no votes
and steps back. It runs again in term 3, and may time out there before the votes
it was given come in. In term 4, the last, it waits for them: an election
time-out is at least 150 ms and delivery in one process takes one pass of a
loop, so that it is a candidate that *for ever* gives up too early which the
bound excludes. Both properties excuse the times when no majority is up, and
nothing else: if the votes of term 4 were refused, not asked for or not counted,
`ElectionRetried` would fail.

*Fairness of `rebalance`* (`FairSpec` of `FraudPipeline`): weak fairness of each worker
thread, of the submitter thread, of the health loop, of `start()` and of the
passing of time for a member none of whose threads runs. These are threads in loops
without a wait on each other, and `start()` is called once and runs to its
end. Submitting, killing, reviving and stalling are not fair: nobody has to do
them. `EveryTransactionHandled` needs one worker that neither stalls nor is
killed and a queue that cannot fill up (4 places for at most 3 verdicts here,
1000 in the coordinator); with a full queue threads end (section 5) and a
record may stay where it is. Revivals are bounded, because a partition that
changes hands for ever need never be read.

## 4. Proofs

The theorems about Raft hold for every finite non-empty set of nodes, all
commands, every state machine and all values of the bounds; the only
assumptions are `NodeAssumption` and `BoundAssumption`. Both transports are
covered: the proofs do not look at `Lossy`. The theorems about the pipeline
hold for every number of workers, partitions and transactions under
`StreamAssumption` and `PipelineAssumption`.

The theorems about the ledger also use `LedgerAssumption`: an entry id names one
command (`LedgerEntry` takes the id of its transaction unless it is given
another, `models.py:146-147`, and the submitter gives none), amounts are
integers (the code's `Decimal`, in its smallest unit), and a ledger starts
without results and without negative balances. TLC evaluates it in every run of a Raft module. Their
hypothesis `LedgerMachine` says that the parameter `ApplyCommand` of `Raft` is
`Apply` of `LedgerStateMachine`, which is what the configurations substitute. It
is a hypothesis of the theorems and not an `ASSUME` of the module because TLC
cannot evaluate an equation for all arguments.

`RaftProofs`:
- `TypeCorrect`: `Spec => []TypeOK`. `TypeOK` is inductive as it stands,
  because messages are typed too: a rejection with a conflict term carries a
  positive index, hence `next_index` stays positive and no request has a
  negative `prev_log_index`. The lemmas about `MergeEntries`,
  `FirstIndexOfTerm`, `LastIndexOfTerm` and `NextAfterConflict` say what the
  loops of `node.py` return; `MinOfNaturals` stands for their termination.
- `VotesAreStable`: `Spec => VoteStable`, a fact about every single step
  (`StepVotes`).
- `LoneNodeNeverCommits`: with `Cardinality(Node) = 1`, `commitIndex` stays 0. No
  message has the same sender and recipient (`TypeOK`), so no handler of a reply
  ever runs, and only those move the commit index of a leader.

`RaftElectionProofs`:
- `VotesAlwaysBacked` and `OneLeaderPerTerm`: `Spec => []VotesBacked` and
  `Spec => []ElectionSafety`. Two leaders of a term would share a voter, but
  storage keeps only the last vote, so `ElectionSafety` alone is not
  inductive. `VotesBacked` adds what is needed: each grant in flight, each
  vote in the tally of a candidate or leader and a majority behind each
  leader that ever was is *backed*: its voter is past that term or has that
  vote on record, and no grant in flight and no other tally contradicts it.
  `BacksPreserved` shows that `VoteStable` keeps a backed vote backed unless a
  new grant or tally contradicts it; the actions are then quiet
  (`QuietKeepsInv`), a grant (`GrantKeepsInv`), a candidacy
  (`CandidateKeepsInv`) or a tally (`TallyKeepsInv`), and
  `MajoritiesIntersect` closes the case of a second leader.
  The conjunction is checked by the run `election` as well.

`RaftHistory`, `RaftLogProofs` and `RaftCommitProofs`. Which entries were
replicated is not a function of the state: a node may overwrite an entry it
once acknowledged, and `commit_index` is lost in a restart. `HistorySpec` is
`Spec /\ HistoryKept`, with two history variables: `led`, every entry that was in
the log of a term's leader, and `acks`, every successful reply. `HistoryKept`
constrains these two alone: it gives them their first values, and with every
step the value that the new state determines. It mentions the variables of Raft
only to compute those values, so for each behaviour of `Spec` there are values of
`led` and `acks` that satisfy it, and the properties, which do not mention them,
hold of all behaviours of `Spec`. That last sentence is the usual argument for
history variables and is not machine-checked: it quantifies over variables
(`\EE`), which the prover does not support.
- `LogsAlwaysMatch`: `HistorySpec => []LogMatching`. The invariant `LogInv` says
  that the leaders of one term share one log without gaps (`OneLogPerTerm`,
  from `ElectionSafety`), that every node's log up to an entry of term t is
  the log of the leader of t (`LogsInherited`, `LedInherited`), that a leader
  in its term keeps that log through a restart (`ElectedKeepLog`) and that a
  request in flight is a piece of the log of its term
  (`RequestsInherited`). `LogMatching` alone says nothing of requests in
  flight, which is where a late one could break it.
- `CommitsAlwaysAgree`, `LeadersAlwaysComplete`, `MatchIndexesAlwaysSound`,
  `CommitsAlwaysKept`: `HistorySpec` implies `[]StateMachineSafety`,
  `[]LeaderCompleteness`, `[]MatchIndexSound` and `CommittedNeverTruncated`. An
  entry is *chosen* when a majority acknowledged it to the leader that wrote
  it in its own term. The invariant `CommitInv` says of every such entry, as
  long as it can still be chosen: whoever acknowledged it still has it
  (`AckedStay`), every later leader has it (`LaterLeadersHold`), and a candidate
  has it that got a vote from someone who acknowledged it (`CandidatesHold`,
  with `RequestsTrue` for the comparison of logs that the voter made).
  `Unchoosable`, a majority that has moved past the term without
  acknowledging, is stable, and is what makes the statement inductive: a
  prophecy about what will be chosen is replaced by what no longer can be.
  `CommitsChosen` ties `commit_index` and the commit index in requests to
  chosen entries. The condition of `_advance_commit_index` that the entry is
  of the leader's own term is used exactly there.
  `LogInv` and `CommitInv` were checked with TLC before the proof, from the
  start of `figure8` and from `Init`.

`FraudPipelineProofs`:
- `PipelineTypeCorrect`, `NoCommittedRecordIsLost`, `OrderAcrossRebalances` and
  `OffsetsNeverMoveBack`: `Spec` of `FraudPipeline` implies `[]TypeOK`,
  `[]AtLeastOnce`, `[]HandedOnInOrder` and `ResumePointAdvances`.
  `AtLeastOnce` is not inductive: a worker commits an offset that it computed
  from one read many steps earlier, while others commit, take over its
  partition and die. `PipelineInv` adds `MidCycle`, what each thread may rely on
  wherever it is interrupted: all records before the one at hand have been
  handed on (they were when it read the offset, and nothing is ever taken
  back), the batch ends inside the log and inside the room that the thread
  counted. Order needs `RecordedOnce` too: a transaction is submitted once, so
  handing on one record never hands on a later one of the same partition by
  its value. Everything else is that a thread which rests keeps what it
  relies on (`MidCycleKept`). `PipelineInv` was checked on the instance of the run
  `pipeline` before the proof. That `None` is no verdict is part of
  `PipelineAssumption`: the queue holds `ScoredTransaction` objects only.

`RaftLedgerProofs`, on top of `CommitInv`:
- `LedgersArePrefixes` and `ResultsAlwaysAgree`: `HistorySpec` implies
  `[]LedgerIsLogPrefix` and `[]ReplicasAgreeOnResults`. `revive()` keeps the
  ledger and resets `last_applied` and `commit_index`, so a ledger may be ahead
  of both and the state does not tell how far it got. `MachineInv` says that
  there is an index at which the replica *stands* (`StandsAt`): its ledger is
  the one of that prefix, the prefix is settled in the sense of `CommitInv`
  (so that no repair of the log can touch it) and `last_applied` is not
  beyond it. `Replay` is the heart: applying a piece of the log that begins
  at or before that index gives the ledger of whichever end lies further, because
  `apply` returns the cached result of what it has seen. The ledger of a log
  is a fold of the community modules. The provers cannot instantiate an
  induction over an operator, so its unfolding is obtained from the set of
  indexes for which it holds (`StepByStep`, `FoldExists`, `FoldUnique`).
- `ResultsAreFinal`: `HistorySpec => ResultsFinal`. A replica moves from the
  ledger of one prefix to that of a longer prefix of the same settled sequence
  (`ResultsStay`), and by `ReplicasAgreeOnResults` of the new state no other
  replica has a different result there.
- `RaftImplementsReplicatedLedger`: `HistorySpec /\ ChosenSpec` implies
  `ImplementsReplicatedLedger`, for every cluster. `ChosenSpec` only adds
  `chosen`, as `HistorySpec` adds its history, so the hypothesis is every
  behaviour of Raft with both records kept. The invariant `ChosenInv` says
  that `chosen` consists of entries that are agreed on and that no replica is
  beyond it; `ChosenGrows` shows that a step only extends it, and `NextRefines`
  that at most one replica moves, forward and inside the new `chosen`. A
  restart and the replay after it are stuttering steps.
- `NeverSpentTwice`: `Spec => []NoDoubleSpend`. By `Sound`, each ledger that
  `apply` can make has the balances that its accepted results add up to. The
  library takes that sum in an order of its own choice, and `TotalAdds` shows
  that the order does not matter: an entry that is newly accepted adds its
  delta wherever it comes in that order. The invariant `BooksBalance` adds that
  what is committed is applied. With it `_apply_committed` never looks beyond
  the log (the assertion there), although a commit index may stay above a log
  that was cut. Nothing in this proof rests on the agreement of the logs.

`RaftClusterProofs`:
- `FailuresAreFinal`: `ClusterSpec => []FailureIsFinal`. A failed proposal could
  come back through a request in flight, or through a stopped runtime that
  still has the storage in its hands. `ClusterInv` therefore says
  (`EntriesKnown`) that every entry in a log *and* every entry in a request is
  of a transaction that counts as submitted or whose call timed out, and types
  what the client holds, the replaced `RaftNode` included (`ClientType`).
- `ClientsNeverSpendTwice` and `ClientsKeepElectionsSafe`: `ClusterSpec` implies
  `[]NoDoubleSpend` and `[]ElectionSafety`. The composition has a step that Raft
  does not have, a proposal through a runtime that was replaced, after which
  logs need not match (section 5). `BooksBalance` and `VotesBacked` survive it:
  it touches neither what a replica has applied nor a term, vote or tally.
- `ClientsCommitOneSequence` and `ClientsSeeOneLedger`: `ClusterSpec` with the
  history kept beside it (`HistoryKept`), and without a proposal through a
  *replaced* runtime (`ProposeToReplaced`), implies `LogMatching`,
  `StateMachineSafety`, `LeaderCompleteness`, and then `ReplicasAgreeOnResults`,
  `LedgerIsLogPrefix` and `ResultsFinal`. Section 5 shows that without the
  hypothesis commits may disagree; the theorems say that this step is the only
  cause. A proposal to a runtime that was killed and not replaced is no step of
  Raft either, but its node is still the leader of its storage's term, so the
  entry belongs into that term's log: `LeaderAppends` covers it together with
  `propose()`, and the lemmas on the log and on commitment are about
  `LeaderAppends` (`KilledProposal`, `ClusterShape`).
- `RemoteClientsAreRaft` and `RemoteClientsCommitOneSequence`: with the gRPC client
  the hypothesis is met, `ClusterSpec /\ remote` implies `Spec` of Raft, and
  all that is proved of `Spec` holds.
- `KillsKeepOneSequence`: it is also met with `RaftCluster.propose` if
  `revive()` is never called, which is how the repository uses the cluster.
  Before the proof TLC confirmed the three invariants on the instance of
  `MCLost.cfg`, with both clients, `Mortal = {n1}` and `ProposeToReplaced` excluded
  (2 555 468 states).

Only model-checked is liveness (`ElectionRetried`, `OwnTermSettles`,
`EveryTransactionHandled`): the prover has no rules for fairness and `ENABLED`.
The disagreements of section 5 are counterexamples, which TLC finds.

## 5. Where code and documentation differ

- `disrupted`: a node becomes a candidate while a majority hears the leader. A
  leader never hears from a leader, so it grants prevotes against itself, and
  a prevote round does not go stale on hearing from a leader of its term.
- `container`: a container restarts on an empty in-memory storage, votes
  twice and the term gets two leaders; with persistent storage the theorem
  `OneLeaderPerTerm` excludes that.
- `lost`: a leader that was deposed and has not heard of it accepts a
  transaction. It counts as submitted, its stream offset is committed, and the
  leader of the newer term overwrites the entry; nobody was killed. Raft is in
  its right there, and `test_replication.py` and `test_failure_recovery.py`
  expect that such entries may be lost; it is the contract of `propose()`, "a
  committed-or-committing LogEntry", on which the submitter relies, that the
  entry does not meet.
- `backpressure`: a worker that loses the race for the last place in the queue
  ends instead of producing nothing in this cycle.
- `flagged`: a transaction that is scored by two owners of its partition can be
  both flagged and proposed, because the velocity window does not move with
  the partition.

The quotations are under "findings" in `PROJECT.json`.

Three more observations contradict nothing that the repository says, or need a
caller that it does not have, and have no run:
- A runtime that `revive()` replaced and that still accepts a proposal writes an
  entry with the term that the storage reached meanwhile, in which another
  node may lead. Two different entries then have the same index and term. With
  `StateMachineSafety` in the place of `SubmittedNotLost` in `MCLost.cfg`, both
  clients (`SpecCluster`) and `Mortal = {n1}`, TLC shows two replicas that commit
  different entries (21 states). It takes a
  `propose()` that spans a whole `kill` and `revive`; nothing in the repository
  calls `RaftCluster.revive` yet (the test of restarts has a harness of its own).
  `ClientsCommitOneSequence` proves that nothing else in the composition can do it.
- A cluster of one node elects itself and never commits, since only replies of
  peers call `_advance_commit_index` (`LoneNodeNeverCommits`).
- `Coordinator.balance()` reads the leader of the moment, which after a failover
  may have applied less than the one before.

## 6. Plan

Done: the Raft core with its faults, the ledger on top of it and the abstract
specification that both implement, the clients and the submitter composed with
the cluster, liveness of the cluster, the containers, the stream and the
pipeline. Proved: types, election safety, log matching and the safety of
commitment of Raft; that the replicated ledger implements the abstract one and
never spends twice, and that its results are final; that a failed proposal
stays failed, that double spending and second leaders stay impossible under
the clients, and under which use of the clients the cluster is Raft; types,
at-least-once delivery and order of the pipeline. Every safety property that a
passing run checks is a theorem.

Next would be the pipeline and the cluster in one module, from the record of a
transaction to its result. It needs a queue between the two that both models now
leave abstract, and what it could promise is limited by `lost`.

Not modelled, and why:
- generated gRPC code; `serialization.py`, which copies fields one to one and
  pickles commands;
- the demo scripts and the coordinator's container, which only call what is
  modelled; logging, `status()`, `snapshot()` and `balance()`, which only read;
- the coordinator's orderly `stop()`, after which the process ends and nothing
  is kept;
- the pool of eight sender threads: how long calls wait for each other is a
  question of time, and the model has no clock. A call may be late by any time;
- `ConsumerGroup.leave` and the static `Consumer`, which nothing in the pipeline
  calls;
- validation of the domain models, and the counterparty's leg of a TRANSFER,
  which the code does not have.
