------------------------ MODULE FraudPipelineProofs -------------------------
(***************************************************************************)
(* At-least-once delivery in order, for every number of workers,           *)
(* partitions, transactions and revivals.  The inductive invariant says    *)
(* what a worker's thread knows wherever it may be interrupted by others:  *)
(* everything before the record at hand has been handed on.                *)
(***************************************************************************)
EXTENDS FraudPipeline, OrderLemmas, SequenceTheorems

Scored == [txn : Transaction, isFraud : BOOLEAN]

\* TypeOK without what it says of a batch.
BasicType ==
    /\ records \in [Partition -> Seq(Transaction)]
    /\ committed \in [Partition -> Nat]
    /\ current \subseteq members /\ members \subseteq Worker
    /\ assignment \in [Worker -> SUBSET Partition]
    /\ pc \in [Runtime -> {"new", "loop", "run", "assign", "poll", "read", "score",
                         "commit", "stopped", "dead"}]
    /\ capacity \in [Runtime -> 0..MaxBatch]
    /\ todo \in [Runtime -> SUBSET Partition]
    /\ position \in [Runtime -> Nat] /\ batchEnd \in [Runtime -> Nat]
    /\ window \in [Runtime -> [Account -> Nat]]
    /\ queue \in Seq(Scored) /\ Len(queue) <= QueueSize
    /\ handling \in Scored \cup {None}
    /\ Outcome \subseteq Transaction
    /\ stopping \subseteq Runtime

\* What holds in the middle of run_once, wherever the thread stands.
MidCycle(r) ==
    LET log == records[Current(r)]
    IN  /\ pc[r] \in {"assign", "poll", "read", "score", "commit"} => capacity[r] >= 1
        /\ pc[r] \in {"poll", "read", "score", "commit"} => todo[r] # {}
        /\ pc[r] \in {"read", "score", "commit"} =>
             position[r] <= Len(log) /\ \A i \in 1..position[r] : log[i] \in HandedOn
        /\ pc[r] \in {"score", "commit"} =>
             /\ position[r] < batchEnd[r] /\ batchEnd[r] <= Len(log)
             /\ batchEnd[r] - position[r] <= capacity[r]
        /\ pc[r] = "commit" => log[position[r] + 1] \in HandedOn

OffsetsInLog == \A p \in Partition : committed[p] <= Len(records[p])

\* A transaction is submitted once, and only what was submitted is handed on.
RecordedOnce ==
    \A p, q \in Partition : \A i \in 1..Len(records[p]), j \in 1..Len(records[q]) :
        records[p][i] = records[q][j] => p = q /\ i = j

StreamInv ==
    /\ OffsetsInLog /\ AtLeastOnce /\ HandedOnInOrder /\ RecordedOnce
    /\ HandedOn \subseteq Produced

PipelineInv == BasicType /\ StreamInv /\ \A r \in Runtime : MidCycle(r)

-----------------------------------------------------------------------------
(* Facts about the state.                                                  *)

LEMMA PartitionsAreNumbers == Partition \subseteq Nat
BY StreamAssumption DEF Partition

LEMMA CurrentPartition ==
    ASSUME BasicType, NEW r \in Runtime, todo[r] # {}
    PROVE  Current(r) \in todo[r] /\ Current(r) \in Partition
<1>1. todo[r] \subseteq Partition
  BY DEF BasicType
<1> QED  BY <1>1, PartitionsAreNumbers, MinOfNaturals DEF Current

LEMMA RecordsTyped ==
    ASSUME BasicType, NEW p \in Partition
    PROVE  /\ records[p] \in Seq(Transaction) /\ Len(records[p]) \in Nat
           /\ \A i \in 1..Len(records[p]) : records[p][i] \in Transaction /\ records[p][i] \in Produced
<1>1. records[p] \in Seq(Transaction)
  BY DEF BasicType
<1>2. \A i \in 1..Len(records[p]) : records[p][i] \in Transaction
  BY <1>1, ElementOfSeq
<1> QED  BY <1>1, <1>2, LenProperties DEF Produced

LEMMA InvGivesType ==
    ASSUME PipelineInv
    PROVE  TypeOK
<1>1. ASSUME NEW p \in Partition PROVE committed[p] \in 0..Len(records[p])
  BY RecordsTyped DEF PipelineInv, BasicType, StreamInv, OffsetsInLog
<1>2. \A r \in Runtime : pc[r] \in {"score", "commit"}
        => position[r] < batchEnd[r] /\ batchEnd[r] <= Len(records[Current(r)])
  BY DEF PipelineInv, MidCycle
<1> QED  BY <1>1, <1>2 DEF PipelineInv, BasicType, TypeOK, Scored

-----------------------------------------------------------------------------
(* What most steps leave alone.                                            *)

RecordsKept ==
    \A p \in Partition :
        /\ Len(records[p]) <= Len(records'[p])
        /\ \A i \in 1..Len(records[p]) : records'[p][i] = records[p][i]

\* The thread of v does nothing.
Rests(v) ==
    /\ pc'[v] = pc[v] /\ capacity'[v] = capacity[v] /\ todo'[v] = todo[v]
    /\ position'[v] = position[v] /\ batchEnd'[v] = batchEnd[v]

\* Nothing is produced, handed on or committed.
StreamRests == UNCHANGED <<records, committed, HandedOn>>

LEMMA StreamKept ==
    ASSUME StreamInv, StreamRests
    PROVE  StreamInv'
<1>1. Produced' = Produced
  BY DEF Produced, StreamRests
<1> QED  BY <1>1 DEF StreamInv, StreamRests, OffsetsInLog, AtLeastOnce, HandedOnInOrder, RecordedOnce

LEMMA RestingRecords ==
    ASSUME BasicType, UNCHANGED records
    PROVE  RecordsKept
BY RecordsTyped DEF RecordsKept

LEMMA MidCycleKept ==
    ASSUME BasicType, BasicType', NEW v \in Runtime, MidCycle(v), Rests(v), RecordsKept,
           HandedOn \subseteq HandedOn'
    PROVE  MidCycle(v)'
<1>1. PICK p : p = Current(v)
  OBVIOUS
<1>2. Current(v)' = p
  BY <1>1 DEF Current, Rests
<1>3. position[v] \in Nat /\ batchEnd[v] \in Nat
  BY DEF BasicType
<1>4. CASE pc[v] \in {"read", "score", "commit"}
  <2>1. p \in Partition
    BY <1>1, <1>4, CurrentPartition DEF MidCycle
  <2>2. Len(records[p]) \in Nat /\ Len(records'[p]) \in Nat
    BY <2>1, LenProperties DEF BasicType
  <2>3. /\ position[v] <= Len(records'[p])
        /\ \A i \in 1..position[v] : records'[p][i] \in HandedOn'
    BY <1>1, <1>3, <1>4, <2>1, <2>2 DEF MidCycle, RecordsKept
  <2>4. pc[v] \in {"score", "commit"} =>
          /\ position[v] < batchEnd[v] /\ batchEnd[v] <= Len(records'[p])
          /\ position[v] + 1 \in 1..Len(records[p])
    BY <1>1, <1>3, <2>1, <2>2 DEF MidCycle, RecordsKept
  <2>5. pc[v] = "commit" => records'[p][position[v] + 1] \in HandedOn'
    BY <1>1, <2>1, <2>4 DEF MidCycle, RecordsKept
  <2> QED  BY <1>1, <1>2, <2>3, <2>4, <2>5 DEF MidCycle, Rests
<1>5. CASE pc[v] \notin {"read", "score", "commit"}
  BY <1>5 DEF MidCycle, Rests
<1> QED  BY <1>4, <1>5

\* A thread outside run_once relies on nothing.
LEMMA OutsideCycle ==
    ASSUME NEW r, pc'[r] \in {"new", "loop", "run", "stopped", "dead"}
    PROVE  MidCycle(r)'
BY DEF MidCycle

LEMMA InvKept ==
    ASSUME PipelineInv, BasicType', StreamInv', RecordsKept, HandedOn \subseteq HandedOn',
           \A v \in Runtime : Rests(v) \/ MidCycle(v)'
    PROVE  PipelineInv'
BY MidCycleKept DEF PipelineInv

LEMMA SameHandedOn ==
    ASSUME UNCHANGED <<queue, handling, flagged, submitted, failed>>
    PROVE  UNCHANGED <<HandedOn, Outcome>>
BY DEF HandedOn, Outcome

\* A step of one thread, or of the group, that the stream does not notice.
LEMMA QuietKept ==
    ASSUME PipelineInv, BasicType', UNCHANGED <<records, committed, queue, submitterVars>>,
           \A v \in Runtime : Rests(v) \/ MidCycle(v)'
    PROVE  PipelineInv'
<1>1. UNCHANGED <<queue, handling, flagged, submitted, failed>>
  BY DEF submitterVars
<1>2. StreamRests /\ HandedOn \subseteq HandedOn'
  BY <1>1, SameHandedOn DEF StreamRests
<1>3. StreamInv' /\ RecordsKept
  BY <1>2, StreamKept, RestingRecords DEF PipelineInv
<1> QED  BY <1>2, <1>3, InvKept

-----------------------------------------------------------------------------
(* The coordinator and the group.                                          *)

LEMMA InitPipeline == Init => PipelineInv
<1> SUFFICES ASSUME Init PROVE PipelineInv
  OBVIOUS
<1>1. /\ \A p \in Partition : records[p] = <<>> /\ committed[p] = 0
      /\ records = [p \in Partition |-> <<>>]
      /\ queue = <<>> /\ handling = None /\ flagged = {} /\ submitted = {} /\ failed = {}
      /\ \A r \in Runtime : pc[r] = "new"
  BY DEF Init, StreamInit
<1>2. HandedOn = {} /\ Outcome = {}
  <2>1. 1..Len(queue) = {}
    BY <1>1
  <2> QED  BY <1>1, <2>1 DEF HandedOn, Outcome
<1>3. \A p \in Partition : Len(records[p]) = 0 /\ 1..Len(records[p]) = {}
  BY <1>1
<1>4. BasicType
  <2>1. <<>> \in Seq(Transaction) /\ <<>> \in Seq(Scored)
    OBVIOUS
  <2>2. /\ records \in [Partition -> Seq(Transaction)] /\ queue \in Seq(Scored)
        /\ Len(queue) <= QueueSize
    BY <1>1, <2>1, PipelineAssumption
  <2>3. /\ committed \in [Partition -> Nat] /\ members = {} /\ current = {}
        /\ assignment \in [Worker -> SUBSET Partition]
    BY DEF Init, StreamInit
  <2> QED  BY <1>1, <1>2, <2>2, <2>3, PipelineAssumption DEF Init, BasicType
<1>5. StreamInv
  <2>1. AtLeastOnce
    <3>1. \A p \in Partition : 1..committed[p] = {}
      BY <1>1
    <3> QED  BY <3>1 DEF AtLeastOnce
  <2>2. OffsetsInLog
    BY <1>1, <1>3 DEF OffsetsInLog
  <2> QED  BY <1>2, <1>3, <2>1, <2>2 DEF StreamInv, HandedOnInOrder, RecordedOnce
<1>6. \A r \in Runtime : MidCycle(r)
  BY <1>1 DEF MidCycle
<1> QED  BY <1>4, <1>5, <1>6 DEF PipelineInv

\* submit_transaction: the new record is not handed on yet.
LEMMA SubmitKept ==
    ASSUME PipelineInv, NEW t \in Transaction, SubmitTransaction(t)
    PROVE  PipelineInv'
<1> DEFINE k == PartitionOf(t.account)
<1>1. /\ t \notin Produced /\ records' = [records EXCEPT ![k] = Append(@, t)]
      /\ UNCHANGED <<committed, members, current, assignment, pc, capacity, todo, position,
                     batchEnd, window, queue, handling, flagged, submitted, failed, stopping>>
  BY DEF SubmitTransaction, AppendRecord, groupVars, workerVars, submitterVars
<1>2. BasicType /\ StreamInv
  BY DEF PipelineInv
<1>3. UNCHANGED <<HandedOn, Outcome>>
  BY <1>1, SameHandedOn
<1>4. ASSUME NEW p \in Partition
      PROVE  /\ records'[p] \in Seq(Transaction)
             /\ \/ records'[p] = records[p]
                \/ /\ p = k /\ Len(records'[p]) = Len(records[p]) + 1
                   /\ records'[p][Len(records[p]) + 1] = t
                   /\ \A i \in 1..Len(records[p]) : records'[p][i] = records[p][i]
  <2>1. records[p] \in Seq(Transaction)
    BY <1>2, RecordsTyped
  <2>2. p # k => records'[p] = records[p]
    BY <1>1, <1>2 DEF BasicType
  <2>3. p = k => records'[p] = Append(records[p], t)
    BY <1>1, <1>2 DEF BasicType
  <2> HIDE DEF k
  <2> QED  BY <2>1, <2>2, <2>3, AppendProperties
<1> HIDE DEF k
<1>5. BasicType'
  <2>1. records' \in [Partition -> Seq(Transaction)]
    <3>1. DOMAIN records' = Partition /\ records' = [p \in Partition |-> records'[p]]
      BY <1>1, <1>2 DEF BasicType
    <3> QED  BY <1>4, <3>1
  <2> QED  BY <1>1, <1>2, <1>3, <2>1 DEF BasicType
<1>6. \A p \in Partition : /\ Len(records[p]) \in Nat /\ Len(records'[p]) \in Nat
                           /\ committed[p] \in Nat /\ committed[p] <= Len(records[p])
  BY <1>2, <1>4, RecordsTyped, LenProperties DEF BasicType, StreamInv, OffsetsInLog
<1>7. RecordsKept
  BY <1>4, <1>6 DEF RecordsKept
<1>8. t \notin HandedOn
  BY <1>1, <1>2 DEF StreamInv
<1>9. \A p \in Partition : \A i \in 1..Len(records'[p]) :
        \/ i \in 1..Len(records[p]) /\ records'[p][i] = records[p][i]
        \/ p = k /\ i = Len(records[p]) + 1 /\ records'[p][i] = t
  BY <1>4, <1>6
<1>10. OffsetsInLog'
  BY <1>1, <1>6, <1>7 DEF OffsetsInLog, RecordsKept
<1>11. AtLeastOnce'
  <2> SUFFICES ASSUME NEW p \in Partition, NEW i \in 1..committed[p]
               PROVE  records'[p][i] \in HandedOn
    BY <1>1, <1>3 DEF AtLeastOnce
  <2>1. i \in 1..Len(records[p])
    BY <1>6
  <2> QED  BY <1>2, <1>7, <2>1 DEF StreamInv, AtLeastOnce, RecordsKept
<1>12. HandedOnInOrder'
  <2> SUFFICES ASSUME NEW p \in Partition, NEW j \in 1..Len(records'[p]),
                      records'[p][j] \in HandedOn, NEW i \in 1..j
               PROVE  records'[p][i] \in HandedOn
    BY <1>3 DEF HandedOnInOrder
  <2>1. j \in 1..Len(records[p]) /\ records'[p][j] = records[p][j]
    BY <1>8, <1>9
  <2>2. i \in 1..Len(records[p])
    BY <1>6, <2>1
  <2>3. records[p][i] \in HandedOn
    BY <1>2, <2>1 DEF StreamInv, HandedOnInOrder
  <2> QED  BY <1>7, <2>2, <2>3 DEF RecordsKept
<1>13. RecordedOnce'
  <2>1. \A p \in Partition : \A i \in 1..Len(records[p]) : records[p][i] # t
    BY <1>1, <1>2, RecordsTyped
  <2> SUFFICES ASSUME NEW p \in Partition, NEW q \in Partition,
                      NEW i \in 1..Len(records'[p]), NEW j \in 1..Len(records'[q]),
                      records'[p][i] = records'[q][j]
               PROVE  p = q /\ i = j
    BY DEF RecordedOnce
  <2>2. \/ i \in 1..Len(records[p]) /\ records'[p][i] = records[p][i]
        \/ p = k /\ i = Len(records[p]) + 1 /\ records'[p][i] = t
    BY <1>9
  <2>3. \/ j \in 1..Len(records[q]) /\ records'[q][j] = records[q][j]
        \/ q = k /\ j = Len(records[q]) + 1 /\ records'[q][j] = t
    BY <1>9
  <2> QED  BY <1>2, <2>1, <2>2, <2>3 DEF StreamInv, RecordedOnce
<1>14. HandedOn' \subseteq Produced'
  <2> SUFFICES ASSUME NEW x \in Produced PROVE x \in Produced'
    BY <1>2, <1>3 DEF StreamInv
  <2>1. PICK p \in Partition : \E i \in 1..Len(records[p]) : x = records[p][i]
    BY DEF Produced
  <2>2. PICK i \in 1..Len(records[p]) : x = records[p][i]
    BY <2>1
  <2>3. i \in 1..Len(records'[p]) /\ x = records'[p][i]
    BY <1>6, <1>7, <2>2 DEF RecordsKept
  <2> QED  BY <2>3 DEF Produced
<1>15. \A v \in Runtime : Rests(v)
  BY <1>1 DEF Rests
<1> QED  BY <1>3, <1>5, <1>7, <1>10, <1>11, <1>12, <1>13, <1>14, <1>15, InvKept DEF StreamInv

LEMMA RebalanceTyped ==
    ASSUME NEW ms PROVE Rebalance(ms) \in [Worker -> SUBSET Partition]
BY DEF Rebalance

LEMMA MembersAreWorkers ==
    ASSUME NEW r \in Runtime PROVE MemberOf(r) \in Worker
BY PipelineAssumption DEF Runtime, MemberOf

\* Threads start and end, and sessions come and go, outside run_once.
LEMMA LaunchKept ==
    ASSUME PipelineInv, NEW r \in Runtime, Launch(r)
    PROVE  PipelineInv'
<1>1. PICK m \in Worker : m = MemberOf(r)
  BY MembersAreWorkers
<1>2. /\ members' = members \cup {m} /\ current' = current \cup {m}
      /\ assignment' = Rebalance(members') /\ pc' = [pc EXCEPT ![r] = "loop"]
      /\ window' = [window EXCEPT ![r] = [a \in Account |-> 0]]
      /\ UNCHANGED <<records, committed, capacity, todo, position, batchEnd, queue,
                     handling, flagged, submitted, failed, stopping>>
  BY <1>1 DEF Launch, Join, brokerVars, submitterVars
<1>3. BasicType
  BY DEF PipelineInv
<1>4. BasicType'
  <2>1. window' \in [Runtime -> [Account -> Nat]]
    BY <1>2, <1>3 DEF BasicType
  <2>2. assignment' \in [Worker -> SUBSET Partition]
    BY <1>2, RebalanceTyped
  <2>3. Outcome' = Outcome
    BY <1>2, SameHandedOn
  <2> QED  BY <1>2, <1>3, <2>1, <2>2, <2>3 DEF BasicType
<1>5. ASSUME NEW v \in Runtime PROVE Rests(v) \/ MidCycle(v)'
  <2>1. v # r => Rests(v)
    BY <1>2, <1>3 DEF BasicType, Rests
  <2>2. pc'[r] = "loop"
    BY <1>2, <1>3 DEF BasicType
  <2> QED  BY <2>1, <2>2, OutsideCycle
<1> QED  BY <1>2, <1>4, <1>5, QuietKept DEF submitterVars

LEMMA GroupKept ==
    ASSUME PipelineInv, current' \subseteq members', members' \subseteq Worker,
           assignment' \in [Worker -> SUBSET Partition], stopping' \subseteq Runtime,
           UNCHANGED <<brokerVars, workerVars, queue, submitterVars>>
    PROVE  PipelineInv'
<1>1. UNCHANGED <<records, committed, pc, capacity, todo, position, batchEnd, window, queue,
                  handling, flagged, submitted, failed>>
  BY DEF brokerVars, workerVars, submitterVars
<1>2. Outcome' = Outcome
  BY <1>1, SameHandedOn
<1>3. BasicType'
  BY <1>1, <1>2 DEF BasicType, PipelineInv
<1>4. \A v \in Runtime : Rests(v)
  BY <1>1 DEF Rests
<1> QED  BY <1>1, <1>3, <1>4, QuietKept DEF submitterVars

\* The thread of r moves pc, capacity, todo, position and batchEnd within their types.
ThreadMoves(r) ==
    /\ \E x \in {"loop", "run", "assign", "poll", "read", "score", "stopped", "dead"} :
         pc' = [pc EXCEPT ![r] = x]
    /\ \E x \in 0..MaxBatch : capacity' = [capacity EXCEPT ![r] = x]
    /\ \E x \in SUBSET Partition : todo' = [todo EXCEPT ![r] = x]
    /\ \E x \in Nat : position' = [position EXCEPT ![r] = x]
    /\ \E x \in Nat : batchEnd' = [batchEnd EXCEPT ![r] = x]

ThreadStep(r) ==
    /\ ThreadMoves(r)
    /\ current' \subseteq members'
    /\ UNCHANGED <<brokerVars, members, assignment, window, queue, submitterVars, stopping>>

LEMMA MovesTyped ==
    ASSUME BasicType, NEW r \in Runtime, ThreadMoves(r)
    PROVE  /\ pc' \in [Runtime -> {"new", "loop", "run", "assign", "poll", "read", "score",
                                   "commit", "stopped", "dead"}]
           /\ capacity' \in [Runtime -> 0..MaxBatch] /\ todo' \in [Runtime -> SUBSET Partition]
           /\ position' \in [Runtime -> Nat] /\ batchEnd' \in [Runtime -> Nat]
           /\ \A v \in Runtime : v # r => Rests(v)
BY DEF ThreadMoves, BasicType, Rests

LEMMA SameThread ==
    ASSUME BasicType, NEW r \in Runtime
    PROVE  /\ UNCHANGED pc => \E x : pc' = [pc EXCEPT ![r] = x]
           /\ UNCHANGED capacity => \E x \in 0..MaxBatch : capacity' = [capacity EXCEPT ![r] = x]
           /\ UNCHANGED todo => \E x \in SUBSET Partition : todo' = [todo EXCEPT ![r] = x]
           /\ UNCHANGED position => \E x \in Nat : position' = [position EXCEPT ![r] = x]
           /\ UNCHANGED batchEnd => \E x \in Nat : batchEnd' = [batchEnd EXCEPT ![r] = x]
<1>1. /\ capacity[r] \in 0..MaxBatch /\ todo[r] \in SUBSET Partition
      /\ position[r] \in Nat /\ batchEnd[r] \in Nat
  BY DEF BasicType
<1>2. /\ pc = [pc EXCEPT ![r] = pc[r]] /\ capacity = [capacity EXCEPT ![r] = capacity[r]]
      /\ todo = [todo EXCEPT ![r] = todo[r]]
      /\ position = [position EXCEPT ![r] = position[r]]
      /\ batchEnd = [batchEnd EXCEPT ![r] = batchEnd[r]]
  BY DEF BasicType
<1> QED  BY <1>1, <1>2

LEMMA ThreadKept ==
    ASSUME PipelineInv, NEW r \in Runtime, ThreadStep(r), MidCycle(r)'
    PROVE  PipelineInv'
<1>1. BasicType
  BY DEF PipelineInv
<1>2. UNCHANGED <<records, committed, members, assignment, window, queue, handling, flagged,
                  submitted, failed, stopping>>
  BY DEF ThreadStep, brokerVars, submitterVars
<1>3. Outcome' = Outcome
  BY <1>2, SameHandedOn
<1>4. BasicType'
  <2>1. ThreadMoves(r) /\ current' \subseteq members'
    BY DEF ThreadStep
  <2> QED  BY <1>1, <1>2, <1>3, <2>1, MovesTyped DEF BasicType
<1>5. ASSUME NEW v \in Runtime PROVE Rests(v) \/ MidCycle(v)'
  <2>1. v # r => Rests(v)
    BY <1>1, MovesTyped DEF ThreadStep
  <2> QED  BY <2>1
<1> QED  BY <1>2, <1>4, <1>5, QuietKept DEF submitterVars

\* _run: the thread is outside run_once before and after.
LEMMA LoopKept ==
    ASSUME PipelineInv, NEW r \in Runtime,
           LeaveLoop(r) \/ SendHeartbeat(r) \/ SkipHeartbeat(r)
    PROVE  PipelineInv'
<1>1. BasicType
  BY DEF PipelineInv
<1>2. PICK x \in {"stopped", "run", "dead"} : pc' = [pc EXCEPT ![r] = x]
  BY DEF LeaveLoop, SendHeartbeat, SkipHeartbeat
<1>3. /\ UNCHANGED <<members, assignment>> /\ current' \subseteq members'
      /\ UNCHANGED <<brokerVars, capacity, todo, position, batchEnd, window, queue,
                     submitterVars, stopping>>
  BY <1>1 DEF LeaveLoop, SendHeartbeat, SkipHeartbeat, Heartbeat, groupVars, BasicType
<1>4. ThreadStep(r)
  BY <1>1, <1>2, <1>3, SameThread DEF ThreadStep, ThreadMoves
<1>5. pc'[r] \in {"stopped", "run", "dead"}
  BY <1>1, <1>2 DEF BasicType
<1> QED  BY <1>4, <1>5, OutsideCycle, ThreadKept

-----------------------------------------------------------------------------
(* run_once.                                                               *)

LEMMA RoomLeft ==
    ASSUME BasicType
    PROVE  AvailableCapacity \in 0..MaxBatch
<1>1. Len(queue) \in Nat
  BY LenProperties DEF BasicType
<1>2. QueueSize - Len(queue) \in Nat /\ MaxBatch \in Nat
  BY <1>1, PipelineAssumption DEF BasicType
<1>3. PICK room : room = QueueSize - Len(queue)
  OBVIOUS
<1>4. Min({MaxBatch, room}) \in Nat /\ Min({MaxBatch, room}) <= MaxBatch
  BY <1>2, <1>3, MinOfTwo
<1> QED  BY <1>2, <1>3, <1>4 DEF AvailableCapacity

LEMMA ReadCapacityKept ==
    ASSUME PipelineInv, NEW r \in Runtime, ReadCapacity(r)
    PROVE  PipelineInv'
<1>1. BasicType
  BY DEF PipelineInv
<1>2. PICK room \in 0..MaxBatch :
        /\ capacity' = [capacity EXCEPT ![r] = room]
        /\ pc' = [pc EXCEPT ![r] = IF room = 0 THEN "loop" ELSE "assign"]
  BY <1>1, RoomLeft DEF ReadCapacity
<1>3. UNCHANGED <<brokerVars, members, current, assignment, todo, position, batchEnd, window,
                  queue, submitterVars, stopping>>
  BY DEF ReadCapacity, groupVars
<1>4. ThreadStep(r)
  BY <1>1, <1>2, <1>3, SameThread DEF ThreadStep, ThreadMoves, BasicType
<1>5. capacity'[r] = room /\ pc'[r] = IF room = 0 THEN "loop" ELSE "assign"
  BY <1>1, <1>2 DEF BasicType
<1>6. room \in Nat
  BY <1>2, PipelineAssumption
<1>7. MidCycle(r)'
  BY <1>5, <1>6 DEF MidCycle
<1> QED  BY <1>4, <1>7, ThreadKept

\* Out of run_once, or on to the next partition with room left for it.
LEMMA CycleEnds ==
    ASSUME NEW r \in Runtime, NEW to \in {"loop", "dead"}, BasicType, EndCycle(r, to)
    PROVE  ThreadMoves(r) /\ MidCycle(r)'
<1>1. 0 \in 0..MaxBatch /\ 0 \in Nat /\ {} \in SUBSET Partition
  BY PipelineAssumption
<1>2. ThreadMoves(r)
  BY <1>1 DEF EndCycle, ThreadMoves
<1>3. pc'[r] = to
  BY DEF EndCycle, BasicType
<1> QED  BY <1>2, <1>3, OutsideCycle

LEMMA CycleGoesOn ==
    ASSUME BasicType, NEW r \in Runtime, NEW partitions \in SUBSET Partition,
           NEW room \in 0..MaxBatch, GoOn(r, partitions, room)
    PROVE  ThreadMoves(r) /\ MidCycle(r)'
<1>1. CASE partitions = {} \/ room = 0
  BY <1>1, CycleEnds DEF GoOn
<1>2. CASE partitions # {} /\ room # 0
  <2>1. /\ pc' = [pc EXCEPT ![r] = "poll"]
        /\ capacity' = [capacity EXCEPT ![r] = room]
        /\ todo' = [todo EXCEPT ![r] = partitions]
        /\ position' = [position EXCEPT ![r] = 0] /\ batchEnd' = [batchEnd EXCEPT ![r] = 0]
    BY <1>2 DEF GoOn
  <2>2. ThreadMoves(r)
    BY <2>1 DEF ThreadMoves
  <2>3. pc'[r] = "poll" /\ capacity'[r] = room /\ todo'[r] = partitions
    BY <2>1 DEF BasicType
  <2>4. room >= 1
    BY <1>2, PipelineAssumption
  <2> QED  BY <1>2, <2>2, <2>3, <2>4 DEF MidCycle
<1> QED  BY <1>1, <1>2

LEMMA ReadAssignmentKept ==
    ASSUME PipelineInv, NEW r \in Runtime, ReadAssignment(r)
    PROVE  PipelineInv'
<1>1. BasicType
  BY DEF PipelineInv
<1>2. PICK ps \in SUBSET Partition : ps = assignment[MemberOf(r)]
  BY <1>1, MembersAreWorkers DEF BasicType
<1>3. capacity[r] \in 0..MaxBatch
  BY <1>1 DEF BasicType
<1>4. /\ GoOn(r, ps, capacity[r])
      /\ UNCHANGED <<brokerVars, members, current, assignment, window, queue, submitterVars,
                     stopping>>
  BY <1>2 DEF ReadAssignment, groupVars
<1>5. ThreadMoves(r) /\ MidCycle(r)'
  BY <1>1, <1>3, <1>4, CycleGoesOn
<1>6. ThreadStep(r)
  BY <1>1, <1>4, <1>5 DEF ThreadStep, BasicType
<1> QED  BY <1>5, <1>6, ThreadKept

\* poll_partition resumes where everything before has been handed on.
LEMMA ReadOffsetKept ==
    ASSUME PipelineInv, NEW r \in Runtime, ReadOffset(r)
    PROVE  PipelineInv'
<1>1. BasicType /\ MidCycle(r) /\ StreamInv
  BY DEF PipelineInv
<1>2. PICK p : p = Current(r)
  OBVIOUS
<1>3. /\ pc[r] = "poll" /\ position' = [position EXCEPT ![r] = committed[p]]
      /\ pc' = [pc EXCEPT ![r] = "read"]
      /\ UNCHANGED <<brokerVars, members, current, assignment, capacity, todo, batchEnd,
                     window, queue, submitterVars, stopping>>
  BY <1>2 DEF ReadOffset, ResumeOffset, groupVars
<1>4. p \in Partition /\ committed[p] \in Nat /\ todo[r] # {}
  BY <1>1, <1>2, <1>3, CurrentPartition DEF MidCycle, BasicType
<1>5. ThreadStep(r)
  BY <1>1, <1>3, <1>4, SameThread DEF ThreadStep, ThreadMoves, BasicType
<1>6. pc'[r] = "read" /\ position'[r] = committed[p] /\ Current(r)' = p
  BY <1>1, <1>2, <1>3 DEF BasicType, Current
<1>7. UNCHANGED <<records, HandedOn>>
  BY <1>3, SameHandedOn DEF brokerVars, submitterVars
<1>8. committed[p] <= Len(records[p]) /\ \A i \in 1..committed[p] : records[p][i] \in HandedOn
  BY <1>1, <1>4 DEF StreamInv, OffsetsInLog, AtLeastOnce
<1>9. MidCycle(r)'
  BY <1>1, <1>3, <1>4, <1>6, <1>7, <1>8 DEF MidCycle
<1> QED  BY <1>5, <1>9, ThreadKept

LEMMA ReadRecordsKept ==
    ASSUME PipelineInv, NEW r \in Runtime, ReadRecords(r)
    PROVE  PipelineInv'
<1>1. BasicType /\ MidCycle(r)
  BY DEF PipelineInv
<1>2. PICK p : p = Current(r)
  OBVIOUS
<1>3. PICK end : end = BatchEnd(p, position[r], capacity[r])
  OBVIOUS
<1>4. /\ pc[r] = "read"
      /\ IF end = position[r]
         THEN GoOn(r, todo[r] \ {p}, capacity[r])
         ELSE /\ pc' = [pc EXCEPT ![r] = "score"]
              /\ batchEnd' = [batchEnd EXCEPT ![r] = end]
              /\ UNCHANGED <<capacity, todo, position>>
      /\ UNCHANGED <<brokerVars, members, current, assignment, window, queue, submitterVars,
                     stopping>>
  BY <1>2, <1>3 DEF ReadRecords, groupVars
<1>5. p \in Partition /\ todo[r] # {}
  BY <1>1, <1>2, <1>4, CurrentPartition DEF MidCycle
<1>6. /\ Len(records[p]) \in Nat /\ position[r] \in Nat /\ capacity[r] \in Nat
      /\ position[r] <= Len(records[p]) /\ capacity[r] >= 1
      /\ \A i \in 1..position[r] : records[p][i] \in HandedOn
  <2>1. Len(records[p]) \in Nat
    BY <1>1, <1>5, RecordsTyped
  <2>2. position[r] \in Nat /\ capacity[r] \in Nat
    BY <1>1, PipelineAssumption DEF BasicType
  <2> QED  BY <1>1, <1>2, <1>4, <2>1, <2>2 DEF MidCycle
<1>7. end \in Nat /\ position[r] <= end /\ end <= Len(records[p]) /\ end - position[r] <= capacity[r]
  <2>1. PICK top : top = position[r] + capacity[r]
    OBVIOUS
  <2>2. top \in Nat
    BY <1>6, <2>1
  <2>3. /\ Min({Len(records[p]), top}) \in Nat
        /\ Min({Len(records[p]), top}) \in {Len(records[p]), top}
        /\ Min({Len(records[p]), top}) <= Len(records[p])
        /\ Min({Len(records[p]), top}) <= top
    BY <1>6, <2>2, MinOfTwo
  <2>4. end = Min({Len(records[p]), top})
    BY <1>3, <2>1 DEF BatchEnd
  <2> QED  BY <1>6, <2>1, <2>3, <2>4
<1>8. UNCHANGED <<records, HandedOn>>
  BY <1>4, SameHandedOn DEF brokerVars, submitterVars
<1>9. ThreadMoves(r) /\ MidCycle(r)'
  <2>1. CASE end = position[r]
    <3>1. GoOn(r, todo[r] \ {p}, capacity[r])
      BY <1>4, <2>1
    <3>2. todo[r] \ {p} \in SUBSET Partition /\ capacity[r] \in 0..MaxBatch
      BY <1>1 DEF BasicType
    <3> QED  BY <1>1, <3>1, <3>2, CycleGoesOn
  <2>2. CASE end # position[r]
    <3>1. /\ pc' = [pc EXCEPT ![r] = "score"] /\ batchEnd' = [batchEnd EXCEPT ![r] = end]
          /\ UNCHANGED <<capacity, todo, position>>
      BY <1>4, <2>2
    <3>2. pc'[r] = "score" /\ batchEnd'[r] = end /\ Current(r)' = p
      BY <1>1, <1>2, <3>1 DEF BasicType, Current
    <3>3. position[r] < end
      BY <1>6, <1>7, <2>2
    <3>4. MidCycle(r)'
      BY <1>5, <1>6, <1>7, <1>8, <3>1, <3>2, <3>3 DEF MidCycle
    <3>5. ThreadMoves(r)
      BY <1>1, <1>7, <3>1, SameThread DEF ThreadMoves
    <3> QED  BY <3>4, <3>5
  <2> QED  BY <2>1, <2>2
<1>10. ThreadStep(r)
  BY <1>1, <1>4, <1>9 DEF ThreadStep, BasicType
<1> QED  BY <1>9, <1>10, ThreadKept

LEMMA OnTheQueue ==
    ASSUME queue \in Seq(Scored), NEW s \in Scored, queue' = Append(queue, s),
           UNCHANGED submitterVars
    PROVE  HandedOn' = HandedOn \cup {s.txn} /\ Outcome' = Outcome
<1>1. UNCHANGED <<handling, flagged, submitted, failed>>
  BY DEF submitterVars
<1>2. /\ Len(queue) \in Nat /\ Len(queue') = Len(queue) + 1 /\ queue'[Len(queue) + 1] = s
      /\ \A i \in 1..Len(queue) : queue'[i] = queue[i]
  BY AppendProperties, LenProperties
<1>3. {queue'[i].txn : i \in 1..Len(queue')} = {queue[i].txn : i \in 1..Len(queue)} \cup {s.txn}
  <2>1. 1..Len(queue') = (1..Len(queue)) \cup {Len(queue) + 1}
    BY <1>2
  <2>2. ASSUME NEW x \in {queue'[i].txn : i \in 1..Len(queue')}
        PROVE  x \in {queue[i].txn : i \in 1..Len(queue)} \cup {s.txn}
    <3>1. PICK i \in 1..Len(queue') : x = queue'[i].txn
      OBVIOUS
    <3> QED  BY <1>2, <2>1, <3>1
  <2>3. ASSUME NEW x \in {queue[i].txn : i \in 1..Len(queue)}
        PROVE  x \in {queue'[i].txn : i \in 1..Len(queue')}
    <3>1. PICK i \in 1..Len(queue) : x = queue[i].txn
      OBVIOUS
    <3> QED  BY <1>2, <2>1, <3>1
  <2>4. s.txn \in {queue'[i].txn : i \in 1..Len(queue')}
    BY <1>2, <2>1
  <2> QED  BY <2>2, <2>3, <2>4
<1> QED  BY <1>1, <1>3 DEF HandedOn, Outcome

\* Handing on the first record of a partition that was not handed on yet, or
\* one that was, keeps the order.
LEMMA NextInOrder ==
    ASSUME BasicType, StreamInv, NEW p \in Partition, NEW k \in 1..Len(records[p]),
           \A i \in 1..(k - 1) : records[p][i] \in HandedOn,
           HandedOn' = HandedOn \cup {records[p][k]}, UNCHANGED <<records, committed>>
    PROVE  StreamInv'
<1>1. \A q \in Partition : Len(records[q]) \in Nat /\ committed[q] \in Nat
  BY RecordsTyped DEF BasicType
<1>2. OffsetsInLog' /\ AtLeastOnce' /\ RecordedOnce'
  BY DEF StreamInv, OffsetsInLog, AtLeastOnce, RecordedOnce
<1>3. HandedOn' \subseteq Produced'
  <2>1. Produced' = Produced /\ records[p][k] \in Produced
    BY RecordsTyped DEF Produced
  <2> QED  BY <2>1 DEF StreamInv
<1>4. HandedOnInOrder'
  <2> SUFFICES ASSUME NEW q \in Partition, NEW j \in 1..Len(records[q]),
                      records[q][j] \in HandedOn', NEW i \in 1..j
               PROVE  records[q][i] \in HandedOn'
    BY DEF HandedOnInOrder
  <2>1. CASE records[q][j] \in HandedOn
    BY <2>1 DEF StreamInv, HandedOnInOrder
  <2>2. CASE records[q][j] = records[p][k]
    <3>1. q = p /\ j = k
      BY <2>2 DEF StreamInv, RecordedOnce
    <3>2. i \in 1..(k - 1) \/ i = k
      BY <1>1, <3>1
    <3> QED  BY <3>1, <3>2
  <2> QED  BY <2>1, <2>2
<1> QED  BY <1>2, <1>3, <1>4 DEF StreamInv

LEMMA ScoreAndPutKept ==
    ASSUME PipelineInv, NEW r \in Runtime, ScoreAndPut(r)
    PROVE  PipelineInv'
<1>1. BasicType /\ StreamInv /\ MidCycle(r)
  BY DEF PipelineInv
<1>2. PICK p : p = Current(r)
  OBVIOUS
<1>3. PICK t : t = records[p][position[r] + 1]
  OBVIOUS
<1>4. /\ pc[r] = "score"
      /\ \E kept \in StillInWindow(window[r][t.account]) :
           /\ window' = [window EXCEPT ![r][t.account] = kept + 1]
           /\ \/ /\ Len(queue) < QueueSize
                 /\ queue' = Append(queue, [txn |-> t, isFraud |-> IsFraud(t, kept + 1)])
                 /\ pc' = [pc EXCEPT ![r] = "commit"]
                 /\ UNCHANGED <<capacity, todo, position, batchEnd>>
              \/ /\ Len(queue) >= QueueSize
                 /\ EndCycle(r, "dead")
                 /\ UNCHANGED queue
      /\ UNCHANGED <<records, committed, members, current, assignment, submitterVars, stopping>>
  BY <1>2, <1>3 DEF ScoreAndPut, brokerVars, groupVars
<1>5. p \in Partition
  BY <1>1, <1>2, <1>4, CurrentPartition DEF MidCycle
<1>6. /\ position[r] \in Nat /\ batchEnd[r] \in Nat /\ Len(records[p]) \in Nat
      /\ Len(queue) \in Nat /\ QueueSize \in Nat
  BY <1>1, <1>5, RecordsTyped, LenProperties, PipelineAssumption DEF BasicType
<1>7. position[r] + 1 \in 1..Len(records[p])
  BY <1>1, <1>2, <1>4, <1>6 DEF MidCycle
<1>8. t \in Transaction /\ t.account \in Account
  BY <1>1, <1>3, <1>5, <1>7, RecordsTyped DEF Account
<1>9. PICK kept \in StillInWindow(window[r][t.account]) :
        /\ window' = [window EXCEPT ![r][t.account] = kept + 1]
        /\ \/ /\ Len(queue) < QueueSize
              /\ queue' = Append(queue, [txn |-> t, isFraud |-> IsFraud(t, kept + 1)])
              /\ pc' = [pc EXCEPT ![r] = "commit"]
              /\ UNCHANGED <<capacity, todo, position, batchEnd>>
           \/ /\ Len(queue) >= QueueSize
              /\ EndCycle(r, "dead")
              /\ UNCHANGED queue
  BY <1>4
<1>10. window' \in [Runtime -> [Account -> Nat]]
  <2>1. window[r][t.account] \in Nat
    BY <1>1, <1>8 DEF BasicType
  <2>2. kept \in Nat
    BY <1>9, <2>1 DEF StillInWindow
  <2>3. kept + 1 \in Nat
    BY <2>2
  <2> QED  BY <1>1, <1>8, <1>9, <2>3 DEF BasicType
<1>11. CASE Len(queue) >= QueueSize
  <2>1. queue' = queue /\ EndCycle(r, "dead")
    BY <1>6, <1>9, <1>11
  <2>2. UNCHANGED <<queue, handling, flagged, submitted, failed>>
    BY <1>4, <2>1 DEF submitterVars
  <2>3. Outcome' = Outcome
    BY <2>2, SameHandedOn
  <2>4. ThreadMoves(r) /\ MidCycle(r)'
    BY <1>1, <2>1, CycleEnds
  <2>5. BasicType'
    BY <1>1, <1>4, <1>10, <2>2, <2>3, <2>4, MovesTyped DEF BasicType
  <2> QED  BY <1>1, <1>4, <2>1, <2>4, <2>5, MovesTyped, QuietKept
<1>12. CASE Len(queue) < QueueSize
  <2>1. PICK s : s = [txn |-> t, isFraud |-> IsFraud(t, kept + 1)]
    OBVIOUS
  <2>2. IsFraud(t, kept + 1) \in BOOLEAN
    BY DEF IsFraud
  <2>3. s \in Scored /\ s.txn = t
    BY <1>8, <2>1, <2>2 DEF Scored
  <2>4. /\ queue' = Append(queue, s) /\ pc' = [pc EXCEPT ![r] = "commit"]
        /\ UNCHANGED <<capacity, todo, position, batchEnd>>
    BY <1>6, <1>9, <1>12, <2>1
  <2>5. queue \in Seq(Scored)
    BY <1>1 DEF BasicType
  <2>6. HandedOn' = HandedOn \cup {t} /\ Outcome' = Outcome
    BY <1>4, <2>3, <2>4, <2>5, OnTheQueue
  <2>7. queue' \in Seq(Scored) /\ Len(queue') <= QueueSize
    <3>1. queue' \in Seq(Scored) /\ Len(queue') = Len(queue) + 1
      BY <2>3, <2>4, <2>5, AppendProperties
    <3> QED  BY <1>6, <1>12, <3>1
  <2>8. UNCHANGED <<handling, flagged, submitted, failed>>
    BY <1>4 DEF submitterVars
  <2>9. BasicType'
    <3>1. pc' \in [Runtime -> {"new", "loop", "run", "assign", "poll", "read", "score",
                               "commit", "stopped", "dead"}]
      BY <1>1, <2>4 DEF BasicType
    <3> QED  BY <1>1, <1>4, <1>10, <2>4, <2>6, <2>7, <2>8, <3>1 DEF BasicType
  <2>10. \A i \in 1..position[r] : records[p][i] \in HandedOn
    BY <1>1, <1>2, <1>4 DEF MidCycle
  <2>11. StreamInv'
    <3>1. PICK k : k = position[r] + 1
      OBVIOUS
    <3>2. k \in 1..Len(records[p]) /\ k - 1 = position[r]
      BY <1>6, <1>7, <3>1
    <3>3. HandedOn' = HandedOn \cup {records[p][k]}
      BY <1>3, <2>6, <3>1
    <3> QED  BY <1>1, <1>4, <1>5, <2>10, <3>2, <3>3, NextInOrder
  <2>12. MidCycle(r)'
    <3>1. pc'[r] = "commit" /\ Current(r)' = p
      BY <1>1, <1>2, <1>4, <2>4 DEF BasicType, Current
    <3>2. /\ capacity[r] >= 1 /\ todo[r] # {} /\ position[r] <= Len(records[p])
          /\ position[r] < batchEnd[r] /\ batchEnd[r] <= Len(records[p])
          /\ batchEnd[r] - position[r] <= capacity[r]
      BY <1>1, <1>2, <1>4 DEF MidCycle
    <3> QED  BY <1>3, <1>4, <2>4, <2>6, <2>10, <3>1, <3>2 DEF MidCycle
  <2>13. RecordsKept
    BY <1>1, <1>4, RestingRecords
  <2>14. ASSUME NEW v \in Runtime, v # r PROVE Rests(v)
    BY <1>1, <2>4, <2>14 DEF BasicType, Rests
  <2> QED  BY <2>6, <2>9, <2>11, <2>12, <2>13, <2>14, InvKept
<1> QED  BY <1>6, <1>11, <1>12

\* Whatever the offset in force, a commit never passes what was handed on.
LEMMA CommitsHandedOn ==
    ASSUME BasicType, StreamInv, NEW p \in Partition, NEW n \in 0..Len(records[p]),
           \A i \in 1..n : records[p][i] \in HandedOn,
           CommitOffset(p, n), UNCHANGED <<records, HandedOn>>
    PROVE  /\ StreamInv' /\ committed' \in [Partition -> Nat]
           /\ \A q \in Partition : committed'[q] >= committed[q]
<1>1. \A q \in Partition : Len(records[q]) \in Nat /\ committed[q] \in Nat
  BY RecordsTyped DEF BasicType
<1>2. n \in Nat
  BY <1>1
<1>3. PICK m : m = Max({committed[p], n})
  OBVIOUS
<1>4. m \in Nat /\ m \in {committed[p], n} /\ m >= committed[p]
  BY <1>1, <1>2, <1>3, MaxOfTwo
<1>5. committed' = [committed EXCEPT ![p] = m]
  BY <1>3 DEF CommitOffset, CommitMax
<1>6. committed' \in [Partition -> Nat]
  BY <1>4, <1>5 DEF BasicType
<1>7. \A q \in Partition : committed'[q] = IF q = p THEN m ELSE committed[q]
  BY <1>5 DEF BasicType
<1>8. OffsetsInLog'
  BY <1>1, <1>4, <1>7 DEF StreamInv, OffsetsInLog
<1>9. AtLeastOnce'
  BY <1>4, <1>7 DEF StreamInv, AtLeastOnce
<1>10. HandedOnInOrder' /\ RecordedOnce'
  BY DEF StreamInv, HandedOnInOrder, RecordedOnce
<1>11. Produced' = Produced
  BY DEF Produced
<1> QED  BY <1>1, <1>4, <1>6, <1>7, <1>8, <1>9, <1>10, <1>11 DEF StreamInv

LEMMA CommitRecordKept ==
    ASSUME PipelineInv, NEW r \in Runtime, CommitRecord(r)
    PROVE  PipelineInv' /\ \A q \in Partition : committed'[q] >= committed[q]
<1>1. BasicType /\ StreamInv /\ MidCycle(r)
  BY DEF PipelineInv
<1>2. PICK p : p = Current(r)
  OBVIOUS
<1>3. PICK next : next = position[r] + 1
  OBVIOUS
<1>4. PICK room : room = capacity[r] - 1
  OBVIOUS
<1>5. /\ pc[r] = "commit" /\ CommitOffset(p, next)
      /\ IF next = batchEnd[r]
         THEN GoOn(r, todo[r] \ {p}, room)
         ELSE /\ pc' = [pc EXCEPT ![r] = "score"]
              /\ position' = [position EXCEPT ![r] = next]
              /\ capacity' = [capacity EXCEPT ![r] = room]
              /\ UNCHANGED <<todo, batchEnd>>
      /\ UNCHANGED <<records, members, current, assignment, window, queue, handling,
                     flagged, submitted, failed, stopping>>
  BY <1>2, <1>3, <1>4 DEF CommitRecord, OffsetDone, groupVars, submitterVars
<1>6. p \in Partition
  BY <1>1, <1>2, <1>5, CurrentPartition DEF MidCycle
<1>7. /\ position[r] \in Nat /\ batchEnd[r] \in Nat /\ Len(records[p]) \in Nat
      /\ capacity[r] \in 0..MaxBatch /\ MaxBatch \in Nat
  BY <1>1, <1>6, RecordsTyped, PipelineAssumption DEF BasicType
<1>8. /\ position[r] < batchEnd[r] /\ batchEnd[r] <= Len(records[p])
      /\ batchEnd[r] - position[r] <= capacity[r] /\ capacity[r] >= 1 /\ todo[r] # {}
      /\ \A i \in 1..position[r] : records[p][i] \in HandedOn
      /\ records[p][position[r] + 1] \in HandedOn
  BY <1>1, <1>2, <1>5 DEF MidCycle
<1>9. next \in Nat /\ next \in 0..Len(records[p]) /\ room \in 0..MaxBatch /\ room \in Nat
  BY <1>3, <1>4, <1>7, <1>8
<1>10. \A i \in 1..next : records[p][i] \in HandedOn
  <2> SUFFICES ASSUME NEW i \in 1..next PROVE records[p][i] \in HandedOn
    OBVIOUS
  <2>1. i \in 1..position[r] \/ i = position[r] + 1
    BY <1>3, <1>7
  <2> QED  BY <1>8, <2>1
<1>11. UNCHANGED <<HandedOn, Outcome>>
  BY <1>5, SameHandedOn
<1>12. /\ StreamInv' /\ committed' \in [Partition -> Nat]
       /\ \A q \in Partition : committed'[q] >= committed[q]
  BY <1>1, <1>5, <1>6, <1>9, <1>10, <1>11, CommitsHandedOn
<1>13. ThreadMoves(r) /\ MidCycle(r)'
  <2>1. CASE next = batchEnd[r]
    <3>1. GoOn(r, todo[r] \ {p}, room)
      BY <1>5, <2>1
    <3>2. todo[r] \ {p} \in SUBSET Partition
      BY <1>1 DEF BasicType
    <3> QED  BY <1>1, <1>9, <3>1, <3>2, CycleGoesOn
  <2>2. CASE next # batchEnd[r]
    <3>1. /\ pc' = [pc EXCEPT ![r] = "score"] /\ position' = [position EXCEPT ![r] = next]
          /\ capacity' = [capacity EXCEPT ![r] = room] /\ UNCHANGED <<todo, batchEnd>>
      BY <1>5, <2>2
    <3>2. /\ pc'[r] = "score" /\ Current(r)' = p
          /\ capacity'[r] = room /\ position'[r] = next
      BY <1>1, <1>2, <3>1 DEF BasicType, Current
    <3>3. /\ next < batchEnd[r] /\ batchEnd[r] - next <= room /\ room >= 1
          /\ next <= Len(records[p])
      <4>1. PICK pos, end, cap, len : /\ pos = position[r] /\ end = batchEnd[r]
                                      /\ cap = capacity[r] /\ len = Len(records[p])
        OBVIOUS
      <4>2. /\ pos \in Nat /\ end \in Nat /\ len \in Nat /\ cap \in Nat
            /\ pos < end /\ end <= len /\ end - pos <= cap
            /\ next = pos + 1 /\ room = cap - 1 /\ next # end
        BY <1>3, <1>4, <1>7, <1>8, <2>2, <4>1
      <4>3. next < end /\ end - next <= room /\ room >= 1 /\ next <= len
        BY ONLY <4>2
      <4> QED  BY <4>1, <4>3
    <3>4. MidCycle(r)'
      BY <1>5, <1>8, <1>10, <1>11, <3>1, <3>2, <3>3 DEF MidCycle
    <3>5. ThreadMoves(r)
      BY <1>1, <1>9, <3>1, SameThread DEF ThreadMoves
    <3> QED  BY <3>4, <3>5
  <2> QED  BY <2>1, <2>2
<1>14. BasicType'
  BY <1>1, <1>5, <1>11, <1>12, <1>13, MovesTyped DEF BasicType
<1>15. \A v \in Runtime : Rests(v) \/ MidCycle(v)'
  BY <1>1, <1>13, MovesTyped
<1>16. RecordsKept
  BY <1>1, <1>5, RestingRecords
<1> QED  BY <1>11, <1>12, <1>14, <1>15, <1>16, InvKept

-----------------------------------------------------------------------------
(* The submitter moves a transaction on and loses none.                    *)

LEMMA NoneIsNotScored == None \notin Scored
BY PipelineAssumption DEF Scored

LEMMA TakeKept ==
    ASSUME PipelineInv, TakeScored
    PROVE  PipelineInv'
<1>1. BasicType
  BY DEF PipelineInv
<1>2. /\ handling = None /\ queue # <<>> /\ handling' = Head(queue) /\ queue' = Tail(queue)
      /\ UNCHANGED <<records, committed, members, current, assignment, pc, capacity, todo,
                     position, batchEnd, window, flagged, submitted, failed, stopping>>
  BY DEF TakeScored, brokerVars, groupVars, workerVars
<1>3. queue \in Seq(Scored) /\ Len(queue) <= QueueSize
  BY <1>1 DEF BasicType
<1>4. /\ Len(queue) \in Nat /\ Len(queue) >= 1 /\ queue' \in Seq(Scored)
      /\ Len(queue') = Len(queue) - 1 /\ \A i \in 1..Len(queue') : queue'[i] = queue[i + 1]
      /\ handling' = queue[1] /\ handling' \in Scored
  <2>1. Len(queue) \in Nat /\ Len(queue) # 0
    BY <1>2, <1>3, LenProperties, EmptySeq
  <2>2. Len(queue) >= 1
    BY <2>1
  <2>3. Tail(queue) \in Seq(Scored) /\ Len(Tail(queue)) = Len(queue) - 1
        /\ \A i \in 1..Len(Tail(queue)) : Tail(queue)[i] = queue[i + 1]
    BY <1>2, <1>3, HeadTailProperties
  <2>4. Head(queue) = queue[1] /\ Head(queue) \in Scored
    BY <1>2, <1>3, HeadTailProperties
  <2> QED  BY <1>2, <2>1, <2>2, <2>3, <2>4
<1>5. handling' # None
  BY <1>4, NoneIsNotScored
<1>6. {queue[i].txn : i \in 1..Len(queue)}
        = {queue'[i].txn : i \in 1..Len(queue')} \cup {handling'.txn}
  <2>1. ASSUME NEW x \in {queue[i].txn : i \in 1..Len(queue)}
        PROVE  x \in {queue'[i].txn : i \in 1..Len(queue')} \cup {handling'.txn}
    <3>1. PICK i \in 1..Len(queue) : x = queue[i].txn
      OBVIOUS
    <3>2. CASE i = 1
      BY <1>4, <3>1, <3>2
    <3>3. CASE i # 1
      <4>1. i - 1 \in 1..Len(queue') /\ (i - 1) + 1 = i
        BY <1>4, <3>3
      <4>2. queue'[i - 1] = queue[i]
        BY <1>4, <4>1
      <4> QED  BY <3>1, <4>1, <4>2
    <3> QED  BY <3>2, <3>3
  <2>2. ASSUME NEW x \in {queue'[i].txn : i \in 1..Len(queue')}
        PROVE  x \in {queue[i].txn : i \in 1..Len(queue)}
    <3>1. PICK i \in 1..Len(queue') : x = queue'[i].txn
      OBVIOUS
    <3>2. i + 1 \in 1..Len(queue) /\ queue'[i] = queue[i + 1]
      BY <1>4
    <3> QED  BY <3>1, <3>2
  <2>3. handling'.txn \in {queue[i].txn : i \in 1..Len(queue)}
    <3>1. 1 \in 1..Len(queue)
      BY <1>4
    <3> QED  BY <1>4, <3>1
  <2> QED  BY <2>1, <2>2, <2>3
<1>7. UNCHANGED <<HandedOn, Outcome>>
  BY <1>2, <1>5, <1>6 DEF HandedOn, Outcome
<1>8. BasicType'
  <2>1. Len(queue') <= QueueSize
    BY <1>3, <1>4, PipelineAssumption
  <2> QED  BY <1>1, <1>2, <1>4, <1>7, <2>1 DEF BasicType
<1>9. StreamRests
  BY <1>2, <1>7 DEF StreamRests
<1>10. StreamInv' /\ RecordsKept
  BY <1>1, <1>2, <1>9, StreamKept, RestingRecords DEF PipelineInv
<1>11. \A v \in Runtime : Rests(v)
  BY <1>2 DEF Rests
<1> QED  BY <1>7, <1>8, <1>10, <1>11, InvKept

LEMMA HandleKept ==
    ASSUME PipelineInv, HandleScored
    PROVE  PipelineInv'
<1>1. BasicType
  BY DEF PipelineInv
<1>2. /\ handling # None /\ handling' = None
      /\ UNCHANGED <<records, committed, members, current, assignment, pc, capacity, todo,
                     position, batchEnd, window, queue, stopping>>
  BY DEF HandleScored, brokerVars, groupVars, workerVars
<1>3. handling.txn \in Transaction
  BY <1>1, <1>2 DEF BasicType, Scored
<1>4. Outcome' = Outcome \cup {handling.txn}
  BY DEF HandleScored, Proposed, Outcome
<1>5. UNCHANGED HandedOn
  BY <1>2, <1>4 DEF HandedOn
<1>6. BasicType'
  BY <1>1, <1>2, <1>3, <1>4 DEF BasicType
<1>7. StreamRests
  BY <1>2, <1>5 DEF StreamRests
<1>8. StreamInv' /\ RecordsKept
  BY <1>1, <1>2, <1>7, StreamKept, RestingRecords DEF PipelineInv
<1>9. \A v \in Runtime : Rests(v)
  BY <1>2 DEF Rests
<1> QED  BY <1>5, <1>6, <1>8, <1>9, InvKept

-----------------------------------------------------------------------------
(* The theorems.                                                           *)

LEMMA NextPipeline == PipelineInv /\ [Next]_vars => PipelineInv'
<1> SUFFICES ASSUME PipelineInv, [Next]_vars PROVE PipelineInv'
  OBVIOUS
<1>1. BasicType
  BY DEF PipelineInv
<1>2. CASE \E t \in Transaction : SubmitTransaction(t)
  BY <1>2, SubmitKept
<1>3. ASSUME NEW r \in Runtime, Launch(r)
      PROVE  PipelineInv'
  BY <1>3, LaunchKept
<1>4. ASSUME NEW w \in Worker, StartWorker(w)
      PROVE  PipelineInv'
  <2>1. <<w, 0>> \in Runtime /\ Launch(<<w, 0>>)
    BY <1>4 DEF StartWorker, Runtime
  <2> QED  BY <1>3, <2>1
<1>5. ASSUME NEW w \in Worker, MissHeartbeats(w)
      PROVE  PipelineInv'
  <2>1. current' = current \ {w} /\ UNCHANGED <<members, assignment, stopping>>
    BY <1>5 DEF MissHeartbeats, SessionLapses
  <2>2. UNCHANGED <<brokerVars, workerVars, queue, submitterVars>>
    BY <1>5 DEF MissHeartbeats
  <2> QED  BY <1>1, <2>1, <2>2, GroupKept DEF BasicType
<1>6. CASE HealthCheck
  <2>1. members' = current /\ assignment' = Rebalance(members') /\ UNCHANGED <<current, stopping>>
    BY <1>6 DEF HealthCheck, CheckExpiredMembers
  <2>2. UNCHANGED <<brokerVars, workerVars, queue, submitterVars>>
    BY <1>6 DEF HealthCheck
  <2>3. assignment' \in [Worker -> SUBSET Partition]
    BY <2>1, RebalanceTyped
  <2> QED  BY <1>1, <2>1, <2>2, <2>3, GroupKept DEF BasicType
<1>7. ASSUME NEW r \in Runtime, WorkerStep(r)
      PROVE  PipelineInv'
  BY <1>7, LoopKept, ReadCapacityKept, ReadAssignmentKept, ReadOffsetKept, ReadRecordsKept,
     ScoreAndPutKept, CommitRecordKept DEF WorkerStep
<1>8. ASSUME NEW r \in Runtime, KillFraudWorker(r)
      PROVE  PipelineInv'
  <2>1. /\ stopping' = stopping \cup {r} /\ UNCHANGED <<members, current, assignment>>
        /\ UNCHANGED <<brokerVars, workerVars, queue, submitterVars>>
    BY <1>8 DEF KillFraudWorker, groupVars
  <2> QED  BY <1>1, <2>1, GroupKept DEF BasicType
<1>9. CASE SubmitterStep
  BY <1>9, TakeKept, HandleKept DEF SubmitterStep
<1>10. CASE UNCHANGED vars
  <2>1. /\ UNCHANGED <<brokerVars, workerVars, queue, submitterVars>>
        /\ UNCHANGED <<members, current, assignment, stopping>>
    BY <1>10 DEF vars, brokerVars, workerVars, submitterVars
  <2> QED  BY <1>1, <2>1, GroupKept DEF BasicType
<1> QED  BY <1>2, <1>3, <1>4, <1>6, <1>7, <1>8, <1>9, <1>10, <1>5 DEF Next, ReviveFraudWorker

LEMMA PipelineInvariant == Spec => []PipelineInv
BY InitPipeline, NextPipeline, PTL DEF Spec

\* Every variable of the pipeline keeps its type: the output queue never
\* exceeds its maxsize, no committed offset the log, and no worker reads past
\* the batch it was given.
THEOREM PipelineTypeCorrect == Spec => []TypeOK
BY PipelineInvariant, InvGivesType, PTL

\* At-least-once: whatever was committed has been handed on, for any number of
\* workers dying, stalling, being revived and committing late.
THEOREM NoCommittedRecordIsLost == Spec => []AtLeastOnce
<1>1. PipelineInv => AtLeastOnce
  BY DEF PipelineInv, StreamInv
<1> QED  BY <1>1, PipelineInvariant, PTL

\* The records of a partition are handed on in the order of the log, for any
\* number of owners at once.
THEOREM OrderAcrossRebalances == Spec => []HandedOnInOrder
<1>1. PipelineInv => HandedOnInOrder
  BY DEF PipelineInv, StreamInv
<1> QED  BY <1>1, PipelineInvariant, PTL

\* commit_offset: no step of any thread moves a committed offset back.
LEMMA OffsetsAdvance ==
    ASSUME PipelineInv, [Next]_vars, NEW p \in Partition
    PROVE  committed'[p] >= committed[p]
<1>1. committed[p] \in Nat
  BY DEF PipelineInv, BasicType
<1>2. UNCHANGED committed \/ \E r \in Runtime : CommitRecord(r)
  BY DEF Next, vars, SubmitTransaction, StartWorker, KillFraudWorker, ReviveFraudWorker, Launch,
     MissHeartbeats, HealthCheck, WorkerStep, LeaveLoop, SendHeartbeat, SkipHeartbeat, ReadCapacity,
     ReadAssignment, ReadOffset, ReadRecords, ScoreAndPut, SubmitterStep, TakeScored, HandleScored,
     brokerVars
<1> QED  BY <1>1, <1>2, CommitRecordKept

\* The resume point of a partition never moves back.
THEOREM OffsetsNeverMoveBack == Spec => ResumePointAdvances
<1>1. PipelineInv /\ [Next]_vars => [\A p \in Partition : committed'[p] >= committed[p]]_vars
  BY OffsetsAdvance
<1> QED  BY <1>1, PipelineInvariant, PTL DEF Spec, ResumePointAdvances
=============================================================================
