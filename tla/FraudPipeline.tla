---------------------------- MODULE FraudPipeline ---------------------------
(***************************************************************************)
(* From submit_transaction to the proposal: the producer, the fraud        *)
(* workers with their runtime threads, the bounded output queue and the    *)
(* settlement submitter, as wired by coordinator/coordinator.py.           *)
(*                                                                         *)
(* A runtime <<w, n>> is the n-th one spawned for member w, with a thread, *)
(* a worker and a scorer of its own; nothing ends the thread of an earlier *)
(* one before the next joins under the same member id.  One action is one  *)
(* visit of a thread to shared state (the group, the queue, the broker)    *)
(* with the local computation that precedes it.  pc[r] is where the thread *)
(* of r is in _run and run_once:                                           *)
(*   new     not started yet             stopped  ended by stop()          *)
(*   loop    at the top of _run          dead     ended by an exception    *)
(*   run     calls run_once              assign   reads its assignment     *)
(*   poll    reads the committed offset  read     reads the records        *)
(*   score   has a record to score       commit   has handed it on         *)
(*                                                                         *)
(* RaftCluster.propose either accepts an entry or gives up after its       *)
(* time-out; what becomes of an accepted entry is the business of Raft.    *)
(***************************************************************************)
EXTENDS Streaming

CONSTANTS
    Transaction,         \* records with account, large and deviceFlagged
    None,
    QueueSize,           \* output_queue.maxsize
    MaxBatch,            \* FraudWorker._max_batch
    MaxVelocity,         \* ScorerConfig.velocity_max_transactions
    WindowSlides,        \* bound: may velocity_window_seconds pass?
    Mortal,              \* bound: the workers that may be killed
    Stalling,            \* bound: the workers that may miss their heartbeats
    Revivable,           \* bound: the workers that may be revived
    MaxRevivals          \* bound: how many times each of them is

ASSUME PipelineAssumption ==
    /\ QueueSize \in Nat \ {0} /\ MaxBatch \in Nat \ {0} /\ MaxVelocity \in Nat
    /\ WindowSlides \in BOOLEAN /\ MaxRevivals \in Nat
    /\ None \notin [txn : Transaction, isFraud : BOOLEAN]
    /\ Mortal \subseteq Worker /\ Stalling \subseteq Worker /\ Revivable \subseteq Worker

VARIABLES
    pc,             \* the thread of each runtime
    capacity,       \* run_once: room it still believes to have
    todo,           \* run_once: partitions it has still to go through
    position,       \* run_once: offset of the record at hand
    batchEnd,       \* run_once: where the batch it has read ends
    window,         \* scorer: recent transactions of each account
    queue,          \* output_queue
    handling,       \* the submitter: what it took off the queue, or None
    flagged, submitted, failed,  \* the submitter: outcomes so far
    stopping        \* runtimes whose _stop_event is set

workerVars == <<pc, capacity, todo, position, batchEnd, window>>
submitterVars == <<handling, flagged, submitted, failed>>
vars == <<records, committed, members, current, assignment, pc, capacity, todo,
          position, batchEnd, window, queue, handling, flagged, submitted,
          failed, stopping>>

Account == {t.account : t \in Transaction}
Produced == UNION {{records[p][i] : i \in 1..Len(records[p])} : p \in Partition}
Runtime == (Worker \X {0}) \cup (Revivable \X (1..MaxRevivals))
MemberOf(r) == r[1]
Running(r) == pc[r] \notin {"new", "stopped", "dead"}

\* A later runtime has the place of r in fraud_runtimes.
Replaced(r) ==
    \E s \in Runtime : MemberOf(s) = MemberOf(r) /\ s[2] > r[2] /\ pc[s] # "new"

\* Some thread heartbeats for member w.
Heard(w) == \E r \in Runtime : MemberOf(r) = w /\ Running(r)

Init ==
    /\ StreamInit
    /\ pc = [r \in Runtime |-> "new"]
    /\ capacity = [r \in Runtime |-> 0]
    /\ todo = [r \in Runtime |-> {}]
    /\ position = [r \in Runtime |-> 0]
    /\ batchEnd = [r \in Runtime |-> 0]
    /\ window = [r \in Runtime |-> [a \in Account |-> 0]]
    /\ queue = <<>>
    /\ handling = None
    /\ flagged = {} /\ submitted = {} /\ failed = {}
    /\ stopping = {}

-----------------------------------------------------------------------------
(* The coordinator.                                                        *)

SubmitTransaction(t) ==
    /\ t \notin Produced
    /\ AppendRecord(t.account, t)
    /\ UNCHANGED <<committed, groupVars, workerVars, queue, submitterVars, stopping>>

\* A worker with a new scorer joins the group and its thread begins.
Launch(r) ==
    /\ pc[r] = "new"
    /\ Join(MemberOf(r))
    /\ pc' = [pc EXCEPT ![r] = "loop"]
    /\ window' = [window EXCEPT ![r] = [a \in Account |-> 0]]
    /\ UNCHANGED <<brokerVars, capacity, todo, position, batchEnd, queue, submitterVars,
                   stopping>>

\* start() goes through the workers in order.
StartWorker(w) ==
    /\ \A v \in Worker : v < w => pc[<<v, 0>>] # "new"
    /\ Launch(<<w, 0>>)

\* stop() sets the event of the runtime in charge, gives up the join after
\* 2 s and says nothing to the group; an ended thread does not notice.
KillFraudWorker(r) ==
    /\ MemberOf(r) \in Mortal
    /\ Running(r) /\ ~Replaced(r) /\ r \notin stopping
    /\ stopping' = stopping \cup {r}
    /\ UNCHANGED <<brokerVars, groupVars, workerVars, queue, submitterVars>>

\* Whether the thread before has ended, or was ever told to, is not asked.
ReviveFraudWorker(r) ==
    /\ r[2] > 0 /\ pc[<<MemberOf(r), r[2] - 1>>] # "new"
    /\ Launch(r)

\* A worker that runs and does not stall heartbeats many times per session.
MissHeartbeats(w) ==
    /\ w \in Stalling \/ ~Heard(w)
    /\ SessionLapses(w)
    /\ UNCHANGED <<brokerVars, workerVars, queue, submitterVars, stopping>>

HealthCheck ==
    /\ CheckExpiredMembers
    /\ UNCHANGED <<brokerVars, workerVars, queue, submitterVars, stopping>>

-----------------------------------------------------------------------------
(* The worker threads.                                                     *)

\* _run: the stop event is seen at the top of the loop only.
LeaveLoop(r) ==
    /\ pc[r] = "loop" /\ r \in stopping
    /\ pc' = [pc EXCEPT ![r] = "stopped"]
    /\ UNCHANGED <<brokerVars, groupVars, capacity, todo, position, batchEnd, window,
                   queue, submitterVars, stopping>>

\* _run: heartbeat_interval has passed.  The ValueError that an evicted
\* member gets is caught nowhere.
SendHeartbeat(r) ==
    /\ pc[r] = "loop" /\ r \notin stopping
    /\ IF MemberOf(r) \in members
       THEN Heartbeat(MemberOf(r)) /\ pc' = [pc EXCEPT ![r] = "run"]
       ELSE UNCHANGED groupVars /\ pc' = [pc EXCEPT ![r] = "dead"]
    /\ UNCHANGED <<brokerVars, capacity, todo, position, batchEnd, window, queue,
                   submitterVars, stopping>>

\* _run: no heartbeat is due.
SkipHeartbeat(r) ==
    /\ pc[r] = "loop" /\ r \notin stopping
    /\ pc' = [pc EXCEPT ![r] = "run"]
    /\ UNCHANGED <<brokerVars, groupVars, capacity, todo, position, batchEnd, window,
                   queue, submitterVars, stopping>>

AvailableCapacity == Min({MaxBatch, QueueSize - Len(queue)})

\* run_once: with no room nothing is pulled in this cycle.
ReadCapacity(r) ==
    /\ pc[r] = "run"
    /\ capacity' = [capacity EXCEPT ![r] = AvailableCapacity]
    /\ pc' = [pc EXCEPT ![r] = IF AvailableCapacity = 0 THEN "loop" ELSE "assign"]
    /\ UNCHANGED <<brokerVars, groupVars, todo, position, batchEnd, window, queue,
                   submitterVars, stopping>>

\* run_once is over: its local variables are gone.
EndCycle(r, to) ==
    /\ pc' = [pc EXCEPT ![r] = to]
    /\ capacity' = [capacity EXCEPT ![r] = 0]
    /\ todo' = [todo EXCEPT ![r] = {}]
    /\ position' = [position EXCEPT ![r] = 0]
    /\ batchEnd' = [batchEnd EXCEPT ![r] = 0]

\* Partitions to go through: this cycle goes on; none: it is over.
GoOn(r, partitions, room) ==
    IF partitions = {} \/ room = 0
    THEN EndCycle(r, "loop")
    ELSE /\ pc' = [pc EXCEPT ![r] = "poll"]
         /\ capacity' = [capacity EXCEPT ![r] = room]
         /\ todo' = [todo EXCEPT ![r] = partitions]
         /\ position' = [position EXCEPT ![r] = 0]
         /\ batchEnd' = [batchEnd EXCEPT ![r] = 0]

ReadAssignment(r) ==
    /\ pc[r] = "assign"
    /\ GoOn(r, assignment[MemberOf(r)], capacity[r])
    /\ UNCHANGED <<brokerVars, groupVars, window, queue, submitterVars, stopping>>

\* The partition at hand; assignments are in ascending order.
Current(r) == Min(todo[r])

ReadOffset(r) ==
    /\ pc[r] = "poll"
    /\ position' = [position EXCEPT ![r] = ResumeOffset(Current(r))]
    /\ pc' = [pc EXCEPT ![r] = "read"]
    /\ UNCHANGED <<brokerVars, groupVars, capacity, todo, batchEnd, window, queue,
                   submitterVars, stopping>>

ReadRecords(r) ==
    LET end == BatchEnd(Current(r), position[r], capacity[r])
    IN  /\ pc[r] = "read"
        /\ IF end = position[r]
           THEN GoOn(r, todo[r] \ {Current(r)}, capacity[r])
           ELSE /\ pc' = [pc EXCEPT ![r] = "score"]
                /\ batchEnd' = [batchEnd EXCEPT ![r] = end]
                /\ UNCHANGED <<capacity, todo, position>>
        /\ UNCHANGED <<brokerVars, groupVars, window, queue, submitterVars, stopping>>

\* RuleBasedScorer.score in tenths, with the weights of ScorerConfig.
IsFraud(t, velocity) ==
    (IF t.large THEN 5 ELSE 0) + (IF t.deviceFlagged THEN 6 ELSE 0)
      + (IF velocity > MaxVelocity THEN 6 ELSE 0) >= 5

\* How many of the recent transactions are still inside the window.
StillInWindow(n) == IF WindowSlides THEN 0..n ELSE {n}

\* Score the record at hand and put the verdict on the queue.  put_nowait
\* raises queue.Full, caught nowhere, when others took the room meanwhile.
ScoreAndPut(r) ==
    LET t == records[Current(r)][position[r] + 1]
    IN  /\ pc[r] = "score"
        /\ \E kept \in StillInWindow(window[r][t.account]) :
             /\ window' = [window EXCEPT ![r][t.account] = kept + 1]
             /\ \/ /\ Len(queue) < QueueSize
                   /\ queue' = Append(queue, [txn |-> t, isFraud |-> IsFraud(t, kept + 1)])
                   /\ pc' = [pc EXCEPT ![r] = "commit"]
                   /\ UNCHANGED <<capacity, todo, position, batchEnd>>
                \/ /\ Len(queue) >= QueueSize
                   /\ EndCycle(r, "dead")
                   /\ UNCHANGED queue
        /\ UNCHANGED <<brokerVars, groupVars, submitterVars, stopping>>

\* Fault: the whole batch is committed with its first record.
CommitBatch(r) == batchEnd[r]

\* The offset to commit is the one after the record at hand.
OffsetDone(r) == position[r] + 1

CommitRecord(r) ==
    LET next == position[r] + 1
        room == capacity[r] - 1
    IN  /\ pc[r] = "commit"
        /\ CommitOffset(Current(r), OffsetDone(r))
        /\ IF next = batchEnd[r]
           THEN GoOn(r, todo[r] \ {Current(r)}, room)
           ELSE /\ pc' = [pc EXCEPT ![r] = "score"]
                /\ position' = [position EXCEPT ![r] = next]
                /\ capacity' = [capacity EXCEPT ![r] = room]
                /\ UNCHANGED <<todo, batchEnd>>
        /\ UNCHANGED <<records, groupVars, window, queue, submitterVars, stopping>>

WorkerStep(r) ==
    \/ LeaveLoop(r) \/ SendHeartbeat(r) \/ SkipHeartbeat(r)
    \/ ReadCapacity(r) \/ ReadAssignment(r) \/ ReadOffset(r) \/ ReadRecords(r) \/ ScoreAndPut(r) \/ CommitRecord(r)

-----------------------------------------------------------------------------
(* The submitter thread.                                                   *)

TakeScored ==
    /\ handling = None
    /\ queue # <<>>
    /\ handling' = Head(queue)
    /\ queue' = Tail(queue)
    /\ UNCHANGED <<brokerVars, groupVars, workerVars, flagged, submitted, failed, stopping>>

\* RaftCluster.propose: a leader takes the entry into its log, or none is
\* found within the time-out, which is recorded and not retried.
Proposed(t) ==
    \/ submitted' = submitted \cup {t} /\ UNCHANGED failed
    \/ failed' = failed \cup {t} /\ UNCHANGED submitted

\* Fraud stops here; the rest is proposed.
HandleScored ==
    /\ handling # None
    /\ handling' = None
    /\ IF handling.isFraud
       THEN flagged' = flagged \cup {handling.txn} /\ UNCHANGED <<submitted, failed>>
       ELSE Proposed(handling.txn) /\ UNCHANGED flagged
    /\ UNCHANGED <<brokerVars, groupVars, workerVars, queue, stopping>>

SubmitterStep == TakeScored \/ HandleScored

Next ==
    \/ \E t \in Transaction : SubmitTransaction(t)
    \/ \E w \in Worker : StartWorker(w) \/ MissHeartbeats(w)
    \/ \E r \in Runtime : KillFraudWorker(r) \/ ReviveFraudWorker(r) \/ WorkerStep(r)
    \/ HealthCheck
    \/ SubmitterStep

Spec == Init /\ [][Next]_vars

\* The threads run, and time passes for a member whose threads have ended.
Fairness ==
    /\ \A w \in Worker : /\ WF_vars(StartWorker(w))
                         /\ WF_vars(~Heard(w) /\ MissHeartbeats(w))
    /\ \A r \in Runtime : WF_vars(WorkerStep(r))
    /\ WF_vars(HealthCheck)
    /\ WF_vars(SubmitterStep)

FairSpec == Spec /\ Fairness
-----------------------------------------------------------------------------
(* Properties.                                                             *)

\* What has been handed on: on the queue, in the submitter's hands or done.
Outcome == flagged \cup submitted \cup failed
HandedOn ==
    {queue[i].txn : i \in 1..Len(queue)} \cup Outcome
      \cup (IF handling = None THEN {} ELSE {handling.txn})

\* Every variable keeps its type, the queue its bound and an offset its log.
TypeOK ==
    /\ records \in [Partition -> Seq(Transaction)]
    /\ \A p \in Partition : committed[p] \in 0..Len(records[p])
    /\ current \subseteq members /\ members \subseteq Worker
    /\ assignment \in [Worker -> SUBSET Partition]
    /\ pc \in [Runtime -> {"new", "loop", "run", "assign", "poll", "read", "score",
                         "commit", "stopped", "dead"}]
    /\ capacity \in [Runtime -> 0..MaxBatch]
    /\ todo \in [Runtime -> SUBSET Partition]
    /\ position \in [Runtime -> Nat] /\ batchEnd \in [Runtime -> Nat]
    /\ \A r \in Runtime : pc[r] \in {"score", "commit"}
         => position[r] < batchEnd[r] /\ batchEnd[r] <= Len(records[Current(r)])
    /\ window \in [Runtime -> [Account -> Nat]]
    /\ queue \in Seq([txn : Transaction, isFraud : BOOLEAN]) /\ Len(queue) <= QueueSize
    /\ handling \in [txn : Transaction, isFraud : BOOLEAN] \cup {None}
    /\ Outcome \subseteq Transaction
    /\ stopping \subseteq Runtime

\* At-least-once (fraud/worker.py): a record below the committed offset, which
\* no worker will read again, has been handed on, whoever owned its partition
\* and however late its commit came.
AtLeastOnce ==
    \A p \in Partition : \A i \in 1..committed[p] : records[p][i] \in HandedOn

\* In order (Transaction.partition_key): no record is handed on before an
\* earlier one of its partition, so a double spend is met in the order in
\* which it was submitted, across rebalances.
HandedOnInOrder ==
    \A p \in Partition : \A j \in 1..Len(records[p]) :
        records[p][j] \in HandedOn => \A i \in 1..j : records[p][i] \in HandedOn

\* The point where a new owner resumes never moves back, whatever a former
\* owner still commits (PartitionedLog.commit_offset).
ResumePointAdvances ==
    [][\A p \in Partition : committed'[p] >= committed[p]]_vars

\* No transaction is dropped: with one worker that neither stalls nor is
\* killed, whatever is produced is flagged, proposed or reported as failed,
\* because the partitions of the others come to it (README, rebalancing).
EveryTransactionHandled ==
    \A t \in Transaction : (t \in Produced) ~> (t \in Outcome)

\* What fraud/worker.py says of backpressure: a worker that finds the queue
\* full produces nothing in this cycle; it does not end.
BackpressureSparesWorkers ==
    [][\A r \in Runtime : pc[r] = "score" => pc'[r] # "dead"]_vars

\* What settlement/submitter.py says: a transaction flagged as fraud never
\* reaches the ledger.
FlaggedNeverSubmitted == flagged \cap submitted = {}
=============================================================================
