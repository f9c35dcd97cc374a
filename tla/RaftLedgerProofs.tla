-------------------------- MODULE RaftLedgerProofs --------------------------
(***************************************************************************)
(* The replicated ledger: each replica's ledger is that of a settled       *)
(* prefix of its log, although a restart replays the log into it, so       *)
(* replicas agree on every result.                                         *)
(***************************************************************************)
EXTENDS RaftCommitProofs, RaftRefinement

-----------------------------------------------------------------------------
(* What ApplyEntries, a fold, computes.                                    *)

\* The function behind the fold, on the subsets of 1..k.
IsFold(g, m, l, k) ==
    g = [s \in SUBSET (1..k) |->
           IF s = {} THEN m ELSE ApplyCommand(g[s \ {Max(s)}], l[Max(s)].command)]

LEMMA MaxOfIndexes ==
    ASSUME NEW k \in Nat, NEW s, s \subseteq 1..k, s # {}
    PROVE  Max(s) \in s /\ s \ {Max(s)} \subseteq 1..(Max(s) - 1) /\ Max(s) \in 1..k
<1>1. s \subseteq 0..k
  OBVIOUS
<1>2. Max(s) \in s /\ \A x \in s : x <= Max(s)
  BY <1>1, MaxOfBounded
<1>3. PICK b : b = Max(s)
  OBVIOUS
<1>4. b \in s /\ b \in 1..k
  BY <1>2, <1>3
<1>5. ASSUME NEW x \in s \ {b} PROVE x \in 1..(b - 1)
  <2>1. x \in 1..k /\ x # b /\ x <= b
    BY <1>2, <1>3
  <2> QED  BY <1>4, <2>1
<1> QED  BY <1>2, <1>3, <1>4, <1>5

LEMMA FoldExists ==
    ASSUME NEW m, NEW l, NEW k \in Nat
    PROVE  \E g : IsFold(g, m, l, k)
<1> DEFINE S == {i \in Nat : \E g : IsFold(g, m, l, i)}
<1>1. 0 \in S
  <2> DEFINE g == [s \in SUBSET (1..0) |-> m]
  <2>1. 1..0 = {} /\ SUBSET (1..0) = {{}}
    OBVIOUS
  <2>2. IsFold(g, m, l, 0)
    BY <2>1 DEF IsFold
  <2> QED  BY <2>2
<1>2. ASSUME NEW i \in Nat, i \in S PROVE i + 1 \in S
  <2>1. PICK g : IsFold(g, m, l, i)
    BY <1>2
  <2> DEFINE h == [s \in SUBSET (1..(i + 1)) |->
                     IF s = {} THEN m ELSE ApplyCommand(g[s \ {Max(s)}], l[Max(s)].command)]
  <2>2. ASSUME NEW s \in SUBSET (1..i) PROVE h[s] = g[s]
    <3>1. s \in SUBSET (1..(i + 1))
      OBVIOUS
    <3>2. g[s] = IF s = {} THEN m ELSE ApplyCommand(g[s \ {Max(s)}], l[Max(s)].command)
      BY <2>1 DEF IsFold
    <3> QED  BY <3>1, <3>2
  <2>3. ASSUME NEW s \in SUBSET (1..(i + 1)), s # {} PROVE h[s \ {Max(s)}] = g[s \ {Max(s)}]
    <3>1. i + 1 \in Nat
      OBVIOUS
    <3>2. s \ {Max(s)} \subseteq 1..(Max(s) - 1) /\ Max(s) \in 1..(i + 1)
      BY <2>3, <3>1, MaxOfIndexes
    <3>3. s \ {Max(s)} \in SUBSET (1..i)
      BY <3>2
    <3> HIDE DEF h
    <3> QED  BY <2>2, <3>3
  <2>4. h = [s \in SUBSET (1..(i + 1)) |->
               IF s = {} THEN m ELSE ApplyCommand(h[s \ {Max(s)}], l[Max(s)].command)]
    BY <2>3
  <2>5. IsFold(h, m, l, i + 1)
    <3> HIDE DEF h
    <3> QED  BY <2>4 DEF IsFold
  <2> QED  BY <2>5
<1>3. \A i \in 0..k : i \in S
  <2> HIDE DEF S
  <2> QED  BY <1>1, <1>2, StepByStep
<1>4. k \in S
  BY <1>3
<1> QED  BY <1>4

SamePrefix(l1, l2, k) == \A i \in 1..k : l1[i] = l2[i]

LEMMA FoldUnique ==
    ASSUME NEW m, NEW l1, NEW l2, NEW k1 \in Nat, NEW k2 \in Nat, NEW g1, NEW g2,
           IsFold(g1, m, l1, k1), IsFold(g2, m, l2, k2),
           NEW k \in Nat, k <= k1, k <= k2, SamePrefix(l1, l2, k)
    PROVE  g1[1..k] = g2[1..k]
<1> DEFINE S == {i \in Nat : \A s \in SUBSET (1..i) : g1[s] = g2[s]}
<1>1. ASSUME NEW i \in 0..k, NEW s \in SUBSET (1..i),
             \A r \in SUBSET (1..(i - 1)) : g1[r] = g2[r]
      PROVE  g1[s] = g2[s]
  <2>1. s \in SUBSET (1..k1) /\ s \in SUBSET (1..k2) /\ i \in Nat
    OBVIOUS
  <2>2. /\ g1[s] = IF s = {} THEN m ELSE ApplyCommand(g1[s \ {Max(s)}], l1[Max(s)].command)
        /\ g2[s] = IF s = {} THEN m ELSE ApplyCommand(g2[s \ {Max(s)}], l2[Max(s)].command)
    BY <2>1 DEF IsFold
  <2>3. CASE s # {}
    <3>1. PICK x : x = Max(s)
      OBVIOUS
    <3>2. s \ {x} \subseteq 1..(x - 1) /\ x \in 1..i
      BY <2>1, <2>3, <3>1, MaxOfIndexes
    <3>3. s \ {x} \in SUBSET (1..(i - 1)) /\ x \in 1..k
      BY <2>1, <3>2
    <3>4. g1[s \ {x}] = g2[s \ {x}] /\ l1[x] = l2[x]
      BY <1>1, <3>3 DEF SamePrefix
    <3> QED  BY <2>2, <2>3, <3>1, <3>4
  <2> QED  BY <2>2, <2>3
<1>2. 0 \in S
  <2> SUFFICES ASSUME NEW s \in SUBSET (1..0) PROVE g1[s] = g2[s]
    OBVIOUS
  <2>1. 1..0 = {} /\ s = {} /\ s \in SUBSET (1..k1) /\ s \in SUBSET (1..k2)
    OBVIOUS
  <2>2. g1[s] = m /\ g2[s] = m
    BY <2>1 DEF IsFold
  <2> QED  BY <2>2
<1>3. ASSUME NEW i \in 0..(k - 1), i \in S PROVE i + 1 \in S
  <2>1. i + 1 \in 0..k /\ i + 1 \in Nat /\ (i + 1) - 1 = i
    OBVIOUS
  <2>2. \A r \in SUBSET (1..i) : g1[r] = g2[r]
    BY <1>3
  <2>3. \A s \in SUBSET (1..(i + 1)) : g1[s] = g2[s]
    BY <1>1, <2>1, <2>2
  <2> QED  BY <2>1, <2>3
<1>4. \A i \in 0..k : i \in S
  <2> HIDE DEF S
  <2> QED  BY <1>2, <1>3, StepByStep
<1>5. k \in S /\ 1..k \in SUBSET (1..k)
  BY <1>4
<1> QED  BY <1>5

LEMMA ApplyIsFold ==
    ASSUME NEW m, NEW l \in Seq(Entry)
    PROVE  \E g : IsFold(g, m, l, Len(l)) /\ ApplyEntries(m, l) = g[1..Len(l)]
<1>1. DOMAIN l = 1..Len(l) /\ Len(l) \in Nat
  BY LenProperties
<1>2. PICK g : IsFold(g, m, l, Len(l))
  BY <1>1, FoldExists
<1> DEFINE h == CHOOSE f : IsFold(f, m, l, Len(l))
<1>3. IsFold(h, m, l, Len(l))
  BY <1>2
<1>4. ApplyEntries(m, l) = h[1..Len(l)]
  BY <1>1 DEF ApplyEntries, FoldLeft, MapThenFoldSet, IsFold
<1> QED  BY <1>3, <1>4

LEMMA ApplyNone ==
    ASSUME NEW m, NEW l, NEW i \in Int, NEW k \in Int, k < i
    PROVE  ApplyEntries(m, SubSeq(l, i, k)) = m
<1>1. SubSeq(l, i, k) = <<>> /\ <<>> \in Seq(Entry) /\ Len(<<>>) = 0
  BY SubSeqEmpty, EmptySeq
<1>2. PICK g : IsFold(g, m, <<>>, 0) /\ ApplyEntries(m, <<>>) = g[1..0]
  BY <1>1, ApplyIsFold
<1>3. 1..0 = {} /\ {} \in SUBSET (1..0)
  OBVIOUS
<1>4. g[1..0] = m
  BY <1>2, <1>3 DEF IsFold
<1> QED  BY <1>1, <1>2, <1>4

LEMMA ApplyNext ==
    ASSUME NEW m, NEW l \in Seq(Entry), NEW i \in Nat \ {0}, NEW k \in Nat,
           i <= k + 1, k + 1 <= Len(l)
    PROVE  ApplyEntries(m, SubSeq(l, i, k + 1))
             = ApplyCommand(ApplyEntries(m, SubSeq(l, i, k)), l[k + 1].command)
<1>1. PICK l1, l2, n : l1 = SubSeq(l, i, k + 1) /\ l2 = SubSeq(l, i, k) /\ n = (k - i) + 1
  OBVIOUS
<1>2. Len(l) \in Nat /\ n \in Nat /\ \A j \in 1..Len(l) : l[j] \in Entry
  BY <1>1, EntriesTyped
<1>3. l1 \in Seq(Entry) /\ Len(l1) = n + 1 /\ \A j \in 1..(n + 1) : l1[j] = l[i + j - 1]
  BY <1>1, <1>2, SubSeqProperties
<1>4. l2 \in Seq(Entry) /\ Len(l2) = n /\ \A j \in 1..n : l2[j] = l[i + j - 1]
  BY <1>1, <1>2, SubSeqProperties
<1>5. PICK g1 : IsFold(g1, m, l1, n + 1) /\ ApplyEntries(m, l1) = g1[1..(n + 1)]
  BY <1>3, ApplyIsFold
<1>6. PICK g2 : IsFold(g2, m, l2, n) /\ ApplyEntries(m, l2) = g2[1..n]
  BY <1>4, ApplyIsFold
<1>7. g1[1..n] = g2[1..n]
  <2>1. ASSUME NEW j \in 1..n PROVE l1[j] = l2[j]
    <3>1. j \in 1..(n + 1)
      BY <1>2
    <3> QED  BY <1>3, <1>4, <3>1
  <2>2. PICK k1 \in Nat, k2 \in Nat : k1 = n + 1 /\ k2 = n
    BY <1>2
  <2>3. n <= k1 /\ n <= k2 /\ n \in Nat
    BY <1>2, <2>2
  <2>4. IsFold(g1, m, l1, k1) /\ IsFold(g2, m, l2, k2)
    BY <1>5, <1>6, <2>2
  <2>5. SamePrefix(l1, l2, n)
    BY <2>1 DEF SamePrefix
  <2> QED  BY <2>2, <2>3, <2>4, <2>5, FoldUnique
<1>8. PICK s : s = 1..(n + 1)
  OBVIOUS
<1>9. Max(s) = n + 1 /\ s \ {n + 1} = 1..n /\ s # {} /\ s \in SUBSET (1..(n + 1))
  <2>1. n + 1 \in Nat /\ n + 1 \in s /\ s \subseteq 0..(n + 1) /\ s # {}
    BY <1>2, <1>8
  <2>2. Max(s) \in s /\ \A x \in s : x <= Max(s)
    BY <2>1, MaxOfBounded
  <2>3. PICK x : x = Max(s)
    OBVIOUS
  <2>4. x \in 1..(n + 1) /\ n + 1 <= x
    BY <1>8, <2>1, <2>2, <2>3
  <2>5. x = n + 1
    BY <1>2, <2>4
  <2>6. ASSUME NEW y PROVE y \in s \ {n + 1} <=> y \in 1..n
    BY <1>2, <1>8
  <2>7. s \ {n + 1} = 1..n
    BY <2>6
  <2> QED  BY <1>8, <2>1, <2>3, <2>5, <2>7
<1>10. g1[s] = ApplyCommand(g1[s \ {Max(s)}], l1[Max(s)].command)
  BY <1>5, <1>9 DEF IsFold
<1>11. l1[n + 1] = l[k + 1]
  <2>1. n + 1 \in 1..(n + 1) /\ i + (n + 1) - 1 = k + 1
    BY <1>1, <1>2
  <2> QED  BY <1>3, <2>1
<1> QED  BY <1>1, <1>5, <1>6, <1>7, <1>8, <1>9, <1>10, <1>11

LEMMA LedgerZero ==
    ASSUME NEW l PROVE LedgerOf(l, 0) = InitialMachine
BY ApplyNone DEF LedgerOf

LEMMA LedgerNext ==
    ASSUME NEW l \in Seq(Entry), NEW k \in Nat, k + 1 <= Len(l)
    PROVE  LedgerOf(l, k + 1) = ApplyCommand(LedgerOf(l, k), l[k + 1].command)
<1>1. 1 \in Nat \ {0} /\ 1 <= k + 1
  OBVIOUS
<1> QED  BY <1>1, ApplyNext DEF LedgerOf

LEMMA LedgerSame ==
    ASSUME NEW l1 \in Seq(Entry), NEW l2 \in Seq(Entry), NEW k \in Nat,
           k <= Len(l1), k <= Len(l2), SamePrefix(l1, l2, k)
    PROVE  LedgerOf(l1, k) = LedgerOf(l2, k)
<1>1. SubSeq(l1, 1, k) = SubSeq(l2, 1, k)
  BY EqualPrefixes DEF SamePrefix
<1> QED  BY <1>1 DEF LedgerOf

-----------------------------------------------------------------------------
(* The ledger keeps the result of every entry it was ever given.           *)

\* The state machine of the cluster is the ledger.
LedgerMachine == \A m, c : ApplyCommand(m, c) = Apply(m, c)

\* Every result of m1 is a result of m2.
ResultsKept(m1, m2) ==
    /\ DOMAIN m1.results \subseteq DOMAIN m2.results
    /\ \A id \in DOMAIN m1.results : m2.results[id] = m1.results[id]

LEMMA ApplyKeepsResults ==
    ASSUME NEW m, NEW e
    PROVE  ResultsKept(m, Apply(m, e)) /\ Applied(Apply(m, e), e)
<1>1. CASE Applied(m, e)
  BY <1>1 DEF Apply, ResultsKept
<1>2. CASE ~Applied(m, e)
  <2>1. PICK v : Settle(m, e).results = Put(m.results, e.entryId, v)
    BY DEF Settle
  <2>2. Apply(m, e) = Settle(m, e)
    BY <1>2 DEF Apply
  <2> QED  BY <1>2, <2>1, <2>2 DEF Put, Applied, ResultsKept
<1> QED  BY <1>1, <1>2

LEMMA PrefixKeepsResults ==
    ASSUME LedgerMachine, NEW l \in Seq(Entry), NEW j \in Nat, NEW k \in Nat, j <= k, k <= Len(l)
    PROVE  ResultsKept(LedgerOf(l, j), LedgerOf(l, k))
<1> DEFINE S == {i \in Nat : ResultsKept(LedgerOf(l, j), LedgerOf(l, i))}
<1>1. j \in S
  BY DEF ResultsKept
<1>2. ASSUME NEW i \in j..(k - 1), i \in S PROVE i + 1 \in S
  <2>1. i \in Nat /\ i + 1 \in Nat /\ i + 1 <= Len(l)
    BY EntriesTyped
  <2>2. LedgerOf(l, i + 1) = Apply(LedgerOf(l, i), l[i + 1].command)
    BY <2>1, LedgerNext DEF LedgerMachine
  <2>3. ResultsKept(LedgerOf(l, i), LedgerOf(l, i + 1))
    BY <2>2, ApplyKeepsResults
  <2>4. ResultsKept(LedgerOf(l, j), LedgerOf(l, i + 1))
    BY <1>2, <2>3 DEF ResultsKept
  <2> QED  BY <2>1, <2>4
<1>3. \A i \in j..k : i \in S
  <2> HIDE DEF S
  <2> QED  BY <1>1, <1>2, StepByStep
<1>4. k \in S
  BY <1>3
<1> QED  BY <1>4

LEMMA PrefixApplied ==
    ASSUME LedgerMachine, NEW l \in Seq(Entry), NEW k \in Nat, k <= Len(l), NEW i \in 1..k
    PROVE  Applied(LedgerOf(l, k), l[i].command)
<1>1. PICK j \in Nat : j + 1 = i
  <2>1. i - 1 \in Nat /\ (i - 1) + 1 = i
    OBVIOUS
  <2> QED  BY <2>1
<1>2. Len(l) \in Nat /\ i \in Nat /\ i <= k /\ j + 1 <= Len(l)
  BY <1>1, EntriesTyped
<1>3. LedgerOf(l, i) = Apply(LedgerOf(l, j), l[i].command)
  BY <1>1, <1>2, LedgerNext DEF LedgerMachine
<1>4. Applied(LedgerOf(l, i), l[i].command)
  BY <1>3, ApplyKeepsResults
<1>5. ResultsKept(LedgerOf(l, i), LedgerOf(l, k))
  BY <1>2, PrefixKeepsResults
<1> QED  BY <1>4, <1>5 DEF Applied, ResultsKept

\* Replaying from i what a ledger already holds, and what follows it, up to c:
\* the restart that keeps the ledger and resets last_applied.
LEMMA Replay ==
    ASSUME LedgerMachine, NEW l \in Seq(Entry), NEW i \in Nat, NEW k \in Nat, NEW c \in Nat,
           i <= k, k <= Len(l), c <= Len(l)
    PROVE  ApplyEntries(LedgerOf(l, k), SubSeq(l, i + 1, c))
             = LedgerOf(l, IF c <= k THEN k ELSE c)
<1> DEFINE Upto(x) == ApplyEntries(LedgerOf(l, k), SubSeq(l, i + 1, x))
           S == {x \in Nat : Upto(x) = LedgerOf(l, IF x <= k THEN k ELSE x)}
<1>0. Len(l) \in Nat
  BY EntriesTyped
<1>1. ASSUME NEW x \in Nat, x <= i PROVE x \in S
  <2>1. x \in Int /\ i + 1 \in Int /\ x < i + 1 /\ x <= k
    BY <1>1
  <2>2. Upto(x) = LedgerOf(l, k)
    BY <2>1, ApplyNone
  <2> QED  BY <2>1, <2>2
<1>2. ASSUME NEW x \in i..(c - 1), x \in S PROVE x + 1 \in S
  <2>1. x \in Nat /\ x + 1 \in Nat /\ x + 1 <= Len(l) /\ i + 1 \in Nat \ {0} /\ i + 1 <= x + 1
    BY <1>0
  <2>2. Upto(x + 1) = Apply(Upto(x), l[x + 1].command)
    BY <2>1, ApplyNext DEF LedgerMachine
  <2>3. CASE x + 1 <= k
    <3>1. x <= k /\ x + 1 \in 1..k
      BY <2>1, <2>3
    <3>2. Upto(x) = LedgerOf(l, k)
      BY <1>2, <3>1
    <3>3. Applied(LedgerOf(l, k), l[x + 1].command)
      BY <3>1, PrefixApplied
    <3>4. Upto(x + 1) = LedgerOf(l, k)
      <4> HIDE DEF Upto
      <4> QED  BY <2>2, <3>2, <3>3 DEF Apply
    <3> QED  BY <2>1, <2>3, <3>4
  <2>4. CASE ~ (x + 1 <= k)
    <3>1. (IF x <= k THEN k ELSE x) = x
      BY <2>1, <2>4
    <3>2. Upto(x) = LedgerOf(l, x)
      BY <1>2, <3>1
    <3>3. LedgerOf(l, x + 1) = Apply(LedgerOf(l, x), l[x + 1].command)
      BY <2>1, LedgerNext DEF LedgerMachine
    <3>4. Upto(x + 1) = LedgerOf(l, x + 1)
      <4> HIDE DEF Upto
      <4> QED  BY <2>2, <3>2, <3>3
    <3> QED  BY <2>1, <2>4, <3>4
  <2> QED  BY <2>3, <2>4
<1>3. c \in S
  <2>1. CASE c <= i
    BY <1>1, <2>1
  <2>2. CASE i <= c
    <3>1. i \in S
      BY <1>1
    <3>2. \A x \in i..c : x \in S
      <4> HIDE DEF S
      <4> QED  BY <1>2, <3>1, StepByStep
    <3> QED  BY <2>2, <3>2
  <2> QED  BY <2>1, <2>2
<1> QED  BY <1>3

-----------------------------------------------------------------------------
(* Each replica's ledger through the steps of Raft.                        *)

\* A replica stands at index k of its log: everything up to k is settled, and
\* its ledger is the one of that prefix.  After a restart last_applied is behind.
StandsAt(n, k) ==
    /\ lastApplied[n] <= k
    /\ k = 0 \/ Settled(n, k)
    /\ machine[n] = LedgerOf(log[n], k)

OneMachineEach == machine = [n \in Node |-> machine[n]]

MachineInv ==
    /\ OneMachineEach
    /\ \A n \in Node : \E k \in Nat : StandsAt(n, k)

\* A step leaves a ledger alone, or applies what a new commit index covers.
Applies(n) ==
    /\ commitIndex'[n] <= Len(log'[n])
    /\ machine'[n] = ApplyEntries(machine[n], SubSeq(log'[n], lastApplied[n] + 1, commitIndex'[n]))
    /\ lastApplied'[n] = IF lastApplied[n] < commitIndex'[n] THEN commitIndex'[n] ELSE lastApplied[n]

\* No other replica commits or applies anything.
OnlyMoves(n) ==
    \A p \in Node \ {n} : machine'[p] = machine[p] /\ commitIndex'[p] = commitIndex[p]

MachineStep ==
    /\ OneMachineEach'
    /\ \E n \in Node : OnlyMoves(n)
    /\ \A n \in Node :
         \/ machine'[n] = machine[n] /\ lastApplied'[n] \in {lastApplied[n], 0}
         \/ Applies(n)

\* CommitUpTo of one node leaves the other ledgers alone.
LEMMA CommitUpToApplies ==
    ASSUME TypeOK, OneMachineEach, NEW n \in Node, NEW c, c <= Len(log'[n]),
           CommitUpTo(n, log'[n], c)
    PROVE  MachineStep
<1>1. /\ commitIndex' = [commitIndex EXCEPT ![n] = c]
      /\ lastApplied' = [lastApplied EXCEPT ![n] = IF @ < c THEN c ELSE @]
      /\ machine' = [machine EXCEPT ![n] = ApplyEntries(@, SubSeq(log'[n], lastApplied[n] + 1, c))]
  BY DEF CommitUpTo
<1>2. ASSUME NEW p \in Node, p # n
      PROVE  /\ machine'[p] = machine[p] /\ lastApplied'[p] = lastApplied[p]
             /\ commitIndex'[p] = commitIndex[p]
  BY <1>1, <1>2 DEF TypeOK, OneMachineEach
<1>3. commitIndex'[n] = c /\ lastApplied'[n] = IF lastApplied[n] < c THEN c ELSE lastApplied[n]
  BY <1>1 DEF TypeOK
<1>4. machine'[n] = ApplyEntries(machine[n], SubSeq(log'[n], lastApplied[n] + 1, c))
  BY <1>1 DEF OneMachineEach
<1>5. OneMachineEach'
  BY <1>1 DEF OneMachineEach
<1>6. OnlyMoves(n)
  BY <1>2 DEF OnlyMoves
<1> QED  BY <1>2, <1>3, <1>4, <1>5, <1>6 DEF MachineStep, Applies

LEMMA RestingMachine ==
    ASSUME OneMachineEach, UNCHANGED commitVars PROVE MachineStep
<1>1. PICK n \in Node : OnlyMoves(n)
  BY NodeAssumption DEF OnlyMoves, commitVars
<1> QED  BY <1>1 DEF MachineStep, OneMachineEach, commitVars

LEMMA NextMachine ==
    ASSUME InvStep, OneMachineEach, [Next]_vars
    PROVE  MachineStep
<1> USE Typed DEF InvStep
<1>2. ASSUME NEW n \in Node PROVE commitIndex'[n] <= Len(log'[n])
  <2>1. commitIndex'[n] \in Nat /\ Len(log'[n]) \in Nat
    BY DEF TypeOK
  <2>2. CASE commitIndex'[n] > 0
    BY <2>2, NodesCommit DEF CommittedAfter
  <2> QED  BY <2>1, <2>2
<1>3. ASSUME NEW m \in msgs, AcceptAppend(m) PROVE MachineStep
  <2>1. m.dst \in Node
    BY <1>3, MessageFields DEF TypeOK
  <2>2. PICK n : n = m.dst
    OBVIOUS
  <2>3. PICK l, c : log' = [log EXCEPT ![n] = l] /\ CommitUpTo(n, l, c)
    BY <1>3, <2>2 DEF AcceptAppend
  <2>4. log'[n] = l /\ commitIndex'[n] = c
    BY <2>1, <2>2, <2>3 DEF TypeOK, CommitUpTo
  <2> QED  BY <1>2, <2>1, <2>2, <2>3, <2>4, CommitUpToApplies
<1>4. ASSUME NEW m \in msgs, ReceiveAppendSuccess(m) PROVE MachineStep
  <2>1. m.dst \in Node
    BY <1>4, MessageFields DEF TypeOK
  <2>2. PICK n : n = m.dst
    OBVIOUS
  <2>3. PICK c : CommitUpTo(n, log[n], c) /\ UNCHANGED log
    BY <1>4, <2>2 DEF ReceiveAppendSuccess, storageVars
  <2>4. log'[n] = log[n] /\ commitIndex'[n] = c
    BY <2>1, <2>2, <2>3 DEF TypeOK, CommitUpTo
  <2> QED  BY <1>2, <2>1, <2>2, <2>3, <2>4, CommitUpToApplies
<1>5. ASSUME NEW n \in Node, Revive(n) PROVE MachineStep
  <2>1. /\ UNCHANGED machine /\ lastApplied' = [lastApplied EXCEPT ![n] = 0]
        /\ commitIndex' = [commitIndex EXCEPT ![n] = 0]
    BY <1>5 DEF Revive
  <2>2. \A p \in Node : lastApplied'[p] \in {lastApplied[p], 0}
    BY <2>1 DEF TypeOK
  <2>3. OnlyMoves(n)
    BY <2>1 DEF TypeOK, OnlyMoves
  <2> QED  BY <2>1, <2>2, <2>3 DEF MachineStep, OneMachineEach
<1>6. CASE UNCHANGED vars
  BY <1>6, RestingMachine DEF vars, commitVars
<1>7. ASSUME NEW n \in Node,
             \/ LeaderContactLapses(n) \/ ElectionTimeout(n) \/ HeartbeatTimeout(n) \/ Kill(n)
             \/ \E c \in Command : Propose(n, c)
      PROVE  MachineStep
  <2>1. UNCHANGED commitVars
    BY <1>7 DEF LeaderContactLapses, ElectionTimeout, HeartbeatTimeout, Kill, Propose
  <2> QED  BY <2>1, RestingMachine
<1>8. ASSUME NEW m \in msgs, Receive(m), ~AcceptAppend(m), ~ReceiveAppendSuccess(m)
      PROVE  MachineStep
  <2>1. UNCHANGED commitVars
    BY <1>8 DEF Receive, ReceivePreVote, ReceiveRequestVote, RejectStaleAppend,
       RejectConflictingAppend, ReceiveNewerTerm, IgnoreReply, ReceivePreVoteReply,
       ReceiveRequestVoteReply, ReceiveAppendFailure
  <2> QED  BY <2>1, RestingMachine
<1> QED  BY <1>3, <1>4, <1>5, <1>6, <1>7, <1>8 DEF Next, Step

LEMMA StandsOn ==
    ASSUME LedgerMachine, InvStep, MachineStep, NEW n \in Node, NEW k \in Nat, StandsAt(n, k)
    PROVE  \E j \in Nat : /\ k <= j /\ StandsAt(n, j)'
                          /\ j = k \/ j <= commitIndex'[n]
<1> USE Typed DEF InvStep
<1>1. /\ k <= Len(log[n]) /\ k <= Len(log'[n]) /\ SamePrefix(log[n], log'[n], k)
      /\ k = 0 \/ Settled(n, k)'
  <2>1. CASE k = 0
    BY <2>1 DEF SamePrefix
  <2>2. CASE k # 0
    <3>1. k \in Nat \ {0} /\ Settled(n, k)
      BY <2>2 DEF StandsAt
    <3> QED  BY <3>1, SettledKept, SettledStays DEF SamePrefix, Settled
  <2> QED  BY <2>1, <2>2
<1>2. machine[n] = LedgerOf(log'[n], k)
  BY <1>1, LedgerSame DEF StandsAt
<1>3. lastApplied[n] \in Nat /\ commitIndex'[n] \in Nat /\ lastApplied[n] <= k
  BY DEF TypeOK, StandsAt
<1>4. CASE machine'[n] = machine[n] /\ lastApplied'[n] \in {lastApplied[n], 0}
  <2>1. lastApplied'[n] <= k
    BY <1>3, <1>4
  <2>2. StandsAt(n, k)' /\ k <= k
    BY <1>1, <1>2, <1>4, <2>1 DEF StandsAt
  <2> QED  BY <2>2
<1>5. CASE Applies(n)
  <2>1. PICK i, c : i = lastApplied[n] /\ c = commitIndex'[n]
    OBVIOUS
  <2>2. i \in Nat /\ c \in Nat /\ i <= k /\ c <= Len(log'[n])
    BY <1>3, <1>5, <2>1 DEF Applies
  <2>3. PICK j : j = IF c <= k THEN k ELSE c
    OBVIOUS
  <2>4. j \in Nat /\ k <= j /\ (j = k \/ j <= commitIndex'[n])
    BY <2>1, <2>2, <2>3
  <2>5. machine'[n] = LedgerOf(log'[n], j)
    BY <1>1, <1>2, <1>5, <2>1, <2>2, <2>3, Replay DEF Applies
  <2>6. lastApplied'[n] <= j
    BY <1>5, <2>1, <2>2, <2>3 DEF Applies
  <2>7. j = 0 \/ Settled(n, j)'
    <3>1. CASE c <= k
      BY <1>1, <2>3, <3>1
    <3>2. CASE ~ (c <= k)
      <4>1. j = c /\ commitIndex'[n] > 0
        BY <2>1, <2>2, <2>3, <3>2
      <4>2. CommittedAfter(n)
        BY <4>1, NodesCommit
      <4> QED  BY <2>1, <4>1, <4>2 DEF CommittedAfter, Settled, Chosen, Held
    <3> QED  BY <3>1, <3>2
  <2>8. StandsAt(n, j)'
    BY <2>5, <2>6, <2>7 DEF StandsAt
  <2> QED  BY <2>4, <2>8
<1> QED  BY <1>4, <1>5 DEF MachineStep

LedgerInv == SafetyInv /\ MachineInv

LEMMA InitLedger == HistoryInit => LedgerInv
<1> SUFFICES ASSUME HistoryInit PROVE LedgerInv
  OBVIOUS
<1>1. SafetyInv
  BY InitElection, InitLog, InitCommit DEF HistoryInit, SafetyInv
<1>2. OneMachineEach /\ \A n \in Node : machine[n] = InitialMachine /\ lastApplied[n] = 0
  BY DEF HistoryInit, Init, OneMachineEach
<1>3. \A n \in Node : StandsAt(n, 0)
  BY <1>2, LedgerZero DEF StandsAt
<1> QED  BY <1>1, <1>2, <1>3 DEF LedgerInv, MachineInv

LEMMA StepKeepsLedgerInv ==
    ASSUME LedgerMachine, LedgerInv, InvStep, MachineStep, RecordsTrue'
    PROVE  LedgerInv'
<1>1. SafetyInv'
  BY StepKeepsCommitInv DEF InvStep, SafetyInv
<1>2. ASSUME NEW n \in Node PROVE \E j \in Nat : StandsAt(n, j)'
  <2>1. PICK k \in Nat : StandsAt(n, k)
    BY DEF LedgerInv, MachineInv
  <2> QED  BY <2>1, StandsOn
<1>3. MachineInv'
  BY <1>2 DEF MachineInv, MachineStep
<1> QED  BY <1>1, <1>3 DEF LedgerInv

LEMMA NextLedger ==
    ASSUME LedgerMachine, LedgerInv, HistoryStep
    PROVE  /\ LedgerInv'
           /\ InvStep /\ MachineStep
<1>1. InvStep /\ [Next]_vars
  <2>1. TypeOK
    BY DEF LedgerInv, SafetyInv, ElectionInv
  <2> QED  BY <2>1, StepsKeepInv, HistoryRecords DEF LedgerInv, SafetyInv
<1>2. MachineStep
  BY <1>1, NextMachine DEF LedgerInv, MachineInv
<1>3. RecordsTrue'
  BY RecordsStayTrue DEF LedgerInv, SafetyInv
<1> QED  BY <1>1, <1>2, <1>3, StepKeepsLedgerInv

LEMMA LedgerInvariant ==
    ASSUME LedgerMachine PROVE HistorySpec => []LedgerInv
<1>1. LedgerInv /\ HistoryStep => LedgerInv'
  BY NextLedger
<1> QED  BY <1>1, InitLedger, PTL DEF HistorySpec, HistoryInit, HistoryKept, HistoryStep, Spec

\* The ledgers of two replicas are those of prefixes of one sequence.
LEMMA StandsInOneLog ==
    ASSUME SafetyInv, NEW a \in Node, NEW b \in Node, NEW j \in Nat, NEW k \in Nat, j <= k,
           StandsAt(a, j), StandsAt(b, k)
    PROVE  /\ log[b] \in Seq(Entry) /\ k <= Len(log[b])
           /\ machine[a] = LedgerOf(log[b], j) /\ machine[b] = LedgerOf(log[b], k)
<1>1. /\ log[a] \in Seq(Entry) /\ log[b] \in Seq(Entry)
      /\ Len(log[a]) \in Nat /\ Len(log[b]) \in Nat
  BY LenProperties DEF SafetyInv, ElectionInv, TypeOK
<1>2. j <= Len(log[a]) /\ k <= Len(log[b]) /\ j <= Len(log[b])
  BY <1>1 DEF StandsAt, Settled
<1>3. SamePrefix(log[a], log[b], j)
  <2> SUFFICES ASSUME NEW i \in 1..j PROVE log[a][i] = log[b][i]
    BY DEF SamePrefix
  <2>1. Settled(a, j) /\ Settled(b, k) /\ i \in Nat \ {0} /\ i <= j /\ i <= k
    BY DEF StandsAt
  <2> QED  BY <2>1, SettledAgree
<1>4. LedgerOf(log[a], j) = LedgerOf(log[b], j)
  BY <1>1, <1>2, <1>3, LedgerSame
<1> QED  BY <1>1, <1>2, <1>4 DEF StandsAt

LEMMA ResultsAgree ==
    ASSUME LedgerMachine, LedgerInv PROVE ReplicasAgreeOnResults
<1>1. ASSUME NEW a \in Node, NEW b \in Node, NEW j \in Nat, NEW k \in Nat, j <= k,
             StandsAt(a, j), StandsAt(b, k)
      PROVE  ResultsKept(machine[a], machine[b])
  BY <1>1, StandsInOneLog, PrefixKeepsResults DEF LedgerInv
<1> SUFFICES ASSUME NEW a \in Node, NEW b \in Node,
                    NEW id \in DOMAIN machine[a].results \cap DOMAIN machine[b].results
             PROVE  machine[a].results[id] = machine[b].results[id]
  BY DEF ReplicasAgreeOnResults
<1>2. PICK j \in Nat : StandsAt(a, j)
  BY DEF LedgerInv, MachineInv
<1>3. PICK k \in Nat : StandsAt(b, k)
  BY DEF LedgerInv, MachineInv
<1>4. ResultsKept(machine[a], machine[b]) \/ ResultsKept(machine[b], machine[a])
  <2>1. j <= k \/ k <= j
    BY <1>2, <1>3
  <2> QED  BY <1>1, <1>2, <1>3, <2>1
<1> QED  BY <1>4 DEF ResultsKept

LEMMA LedgersOfPrefixes ==
    ASSUME LedgerInv PROVE LedgerIsLogPrefix
<1> SUFFICES ASSUME NEW n \in Node
             PROVE  \E k \in 0..Len(log[n]) : machine[n] = LedgerOf(log[n], k)
  BY DEF LedgerIsLogPrefix
<1>1. PICK k \in Nat : StandsAt(n, k)
  BY DEF LedgerInv, MachineInv
<1>2. k \in 0..Len(log[n]) /\ machine[n] = LedgerOf(log[n], k)
  BY <1>1, StandsInOneLog, LenProperties DEF LedgerInv
<1> QED  BY <1>2

\* A replica's ledger is that of a prefix of its own log, for every cluster, all
\* entries and every schedule of restarts, replays and repaired tails.
THEOREM LedgersArePrefixes ==
    ASSUME LedgerMachine PROVE HistorySpec => []LedgerIsLogPrefix
<1>1. LedgerInv => LedgerIsLogPrefix
  BY LedgersOfPrefixes
<1> QED  BY <1>1, LedgerInvariant, PTL

\* Replicas that have a result for an entry have the same one: of two debits
\* that cannot both be paid, all accept the same.
THEOREM ResultsAlwaysAgree ==
    ASSUME LedgerMachine PROVE HistorySpec => []ReplicasAgreeOnResults
<1>1. LedgerInv => ReplicasAgreeOnResults
  BY ResultsAgree
<1> QED  BY <1>1, LedgerInvariant, PTL

\* Moving on in the log, a replica keeps the results it has.
LEMMA ResultsStay ==
    ASSUME LedgerMachine, LedgerInv, InvStep, MachineStep, NEW n \in Node
    PROVE  ResultsKept(machine[n], machine'[n])
<1> USE Typed DEF InvStep
<1>1. PICK k \in Nat : StandsAt(n, k)
  BY DEF LedgerInv, MachineInv
<1>2. PICK j \in Nat : k <= j /\ StandsAt(n, j)'
  BY <1>1, StandsOn
<1>3. k <= Len(log[n]) /\ k <= Len(log'[n]) /\ SamePrefix(log[n], log'[n], k)
  <2>1. CASE k = 0
    BY <2>1 DEF SamePrefix
  <2>2. CASE k # 0
    <3>1. k \in Nat \ {0} /\ Settled(n, k)
      BY <1>1, <2>2 DEF StandsAt
    <3> QED  BY <3>1, SettledKept DEF SamePrefix, Settled
  <2> QED  BY <2>1, <2>2
<1>4. machine[n] = LedgerOf(log'[n], k)
  BY <1>1, <1>3, LedgerSame DEF StandsAt
<1>5. machine'[n] = LedgerOf(log'[n], j) /\ j <= Len(log'[n])
  BY <1>2 DEF StandsAt, Settled, LedgerOf
<1> QED  BY <1>2, <1>4, <1>5, PrefixKeepsResults

\* The result of an entry is final, for every cluster, through failovers,
\* restarts and replays: no replica loses it and none comes to another one.
THEOREM ResultsAreFinal ==
    ASSUME LedgerMachine PROVE HistorySpec => ResultsFinal
<1> DEFINE Final == \A a, b \in Node : \A id \in DOMAIN machine[a].results :
                      /\ id \in DOMAIN machine'[a].results
                      /\ id \in DOMAIN machine'[b].results
                           => machine'[b].results[id] = machine[a].results[id]
<1>1. LedgerInv /\ ReplicasAgreeOnResults' /\ HistoryStep => [Final]_vars
  <2> SUFFICES ASSUME LedgerInv, ReplicasAgreeOnResults', HistoryStep PROVE Final
    OBVIOUS
  <2>1. \A n \in Node : ResultsKept(machine[n], machine'[n])
    BY NextLedger, ResultsStay
  <2> QED  BY <2>1 DEF ResultsKept, ReplicasAgreeOnResults
<1> QED  BY <1>1, LedgerInvariant, ResultsAlwaysAgree, PTL
         DEF HistorySpec, HistoryKept, HistoryStep, Spec, ResultsFinal

-----------------------------------------------------------------------------
(* The refinement: Raft with the ledger is a replicated ledger.            *)

\* ReplicatedLedger folds over commands what Raft folds over entries.
LEMMA CommandsTyped ==
    ASSUME NEW l \in Seq(Entry)
    PROVE  /\ CommandsOf(l) \in Seq(Command) /\ Len(CommandsOf(l)) = Len(l)
           /\ \A i \in 1..Len(l) : CommandsOf(l)[i] = l[i].command
<1>1. Len(l) \in Nat /\ \A i \in 1..Len(l) : l[i].command \in Command
  BY EntriesTyped DEF Entry
<1>2. CommandsOf(l) \in [1..Len(l) -> Command] /\ DOMAIN CommandsOf(l) = 1..Len(l)
  BY <1>1 DEF CommandsOf
<1>3. CommandsOf(l) \in Seq(Command)
  BY <1>1, <1>2, SeqDef
<1>4. Len(CommandsOf(l)) = Len(l)
  BY <1>1, <1>2, <1>3, LenProperties
<1> QED  BY <1>3, <1>4 DEF CommandsOf

LEMMA StateAfterIsLedger ==
    ASSUME NEW l \in Seq(Entry), NEW k \in Nat, k <= Len(l)
    PROVE  Abstract!StateAfter(CommandsOf(l), k) = LedgerOf(l, k)
<1>1. PICK d, e : d = SubSeq(CommandsOf(l), 1, k) /\ e = SubSeq(l, 1, k)
  OBVIOUS
<1>2. Len(l) \in Nat /\ \A i \in 1..Len(l) : l[i] \in Entry /\ l[i].command \in Command
  BY EntriesTyped DEF Entry
<1>3. e \in Seq(Entry) /\ Len(e) = k /\ \A i \in 1..k : e[i] = l[i]
  BY <1>1, <1>2, SubSeqProperties
<1>4. d \in Seq(Command) /\ Len(d) = k /\ \A i \in 1..k : d[i] = l[i].command
  BY <1>1, <1>2, CommandsTyped, SubSeqProperties
<1>5. DOMAIN d = 1..k /\ \A i \in 1..k : d[i] = e[i].command
  BY <1>3, <1>4, LenProperties
<1> DEFINE P(g) == g = [s \in SUBSET (1..k) |->
                          IF s = {} THEN InitialMachine
                          ELSE ApplyCommand(g[s \ {Abstract!Max(s)}], d[Abstract!Max(s)])]
<1>6. ASSUME NEW g PROVE P(g) <=> IsFold(g, InitialMachine, e, k)
  <2>1. ASSUME NEW s \in SUBSET (1..k), s # {} PROVE d[Max(s)] = e[Max(s)].command
    BY <1>5, <2>1, MaxOfIndexes
  <2>2. \A s : Abstract!Max(s) = Max(s)
    BY DEF Abstract!Max, Max
  <2>3. [s \in SUBSET (1..k) |->
           IF s = {} THEN InitialMachine
           ELSE ApplyCommand(g[s \ {Abstract!Max(s)}], d[Abstract!Max(s)])]
        = [s \in SUBSET (1..k) |->
             IF s = {} THEN InitialMachine
             ELSE ApplyCommand(g[s \ {Max(s)}], e[Max(s)].command)]
    BY <2>1, <2>2
  <2> QED  BY <2>3 DEF IsFold
<1>7. PICK g : IsFold(g, InitialMachine, e, k) /\ ApplyEntries(InitialMachine, e) = g[1..k]
  BY <1>3, ApplyIsFold
<1> DEFINE h == CHOOSE f : P(f)
<1>8. P(h)
  <2>1. P(g)
    BY <1>6, <1>7
  <2> HIDE DEF P
  <2> QED  BY <2>1
<1>9. IsFold(h, InitialMachine, e, k)
  <2> HIDE DEF P, h
  <2> QED  BY <1>6, <1>8
<1>10. Abstract!StateAfter(CommandsOf(l), k) = h[1..k]
  <2>1. d = SubSeq(CommandsOf(l), 1, k) /\ DOMAIN d = 1..k
    BY <1>1, <1>5
  <2> QED  BY ONLY <2>1 DEF Abstract!StateAfter, Abstract!FoldLeft, Abstract!MapThenFoldSet
<1>11. SamePrefix(e, e, k) /\ k <= k
  BY DEF SamePrefix
<1>12. h[1..k] = g[1..k]
  <2> HIDE DEF h
  <2> QED  BY <1>7, <1>9, <1>11, FoldUnique
<1> HIDE DEF h
<1> QED  BY <1>1, <1>7, <1>10, <1>12 DEF LedgerOf

\* Entries that were chosen, from the first on.
Agreed(l) ==
    \/ Len(l) = 0
    \/ \E h \in Own : /\ Len(l) <= h[2] /\ Chosen(h[1], h[2])
                      /\ \A i \in 1..Len(l) : Held(h[1], i, l[i])

\* They are prefixes of one log, and so are the logs that the replicas' ledgers
\* come from.
OneAgreedLog ==
    \A l1, l2 \in Seq(Entry) : Agreed(l1) /\ Agreed(l2) =>
        \A k \in Nat : k <= Len(l1) /\ k <= Len(l2) => SamePrefix(l1, l2, k)

LedgersInIt ==
    \A n \in Node : \A k \in Nat : StandsAt(n, k) =>
        \A l \in Seq(Entry) : Agreed(l) /\ k <= Len(l) => machine[n] = LedgerOf(l, k)

LEMMA AgreedAgree ==
    ASSUME SafetyInv, NEW l1 \in Seq(Entry), NEW l2 \in Seq(Entry), Agreed(l1), Agreed(l2),
           NEW k \in Nat, k <= Len(l1), k <= Len(l2)
    PROVE  SamePrefix(l1, l2, k)
<1> SUFFICES ASSUME NEW i \in 1..k PROVE l1[i] = l2[i]
  BY DEF SamePrefix
<1>1. Len(l1) \in Nat /\ Len(l2) \in Nat
  BY LenProperties
<1>2. i \in Nat \ {0} /\ i \in 1..Len(l1) /\ i \in 1..Len(l2)
  BY <1>1
<1>3. PICK g \in Own : Len(l1) <= g[2] /\ Chosen(g[1], g[2]) /\ Held(g[1], i, l1[i])
  BY <1>2 DEF Agreed
<1>4. PICK h \in Own : Len(l2) <= h[2] /\ Chosen(h[1], h[2]) /\ Held(h[1], i, l2[i])
  BY <1>2 DEF Agreed
<1>5. g[2] \in Nat /\ h[2] \in Nat
  BY DEF Own, SafetyInv, LogInv, HistoryType
<1>6. i <= g[2] /\ i <= h[2]
  BY <1>1, <1>2, <1>3, <1>4, <1>5
<1> QED  BY <1>2, <1>3, <1>4, <1>6, ChosenAgree

LEMMA SettledIsAgreed ==
    ASSUME SafetyInv, NEW n \in Node, NEW k \in Nat, k = 0 \/ Settled(n, k),
           NEW l, l = SubSeq(log[n], 1, k)
    PROVE  /\ l \in Seq(Entry) /\ Len(l) = k /\ Agreed(l)
           /\ k <= Len(log[n]) /\ log[n] \in Seq(Entry) /\ SamePrefix(log[n], l, k)
<1>1. log[n] \in Seq(Entry) /\ Len(log[n]) \in Nat /\ \A i \in 1..Len(log[n]) : log[n][i] \in Entry
  BY EntriesTyped DEF SafetyInv, ElectionInv, TypeOK
<1>2. k <= Len(log[n])
  BY <1>1 DEF Settled
<1>3. \A i \in 1..k : log[n][i] \in Entry
  BY <1>1, <1>2
<1>4. l \in Seq(Entry) /\ Len(l) = k /\ \A i \in 1..k : l[i] = log[n][i]
  BY <1>1, <1>2, <1>3, SubSeqProperties
<1>5. Agreed(l)
  BY <1>4 DEF Settled, Agreed
<1> QED  BY <1>1, <1>2, <1>4, <1>5 DEF SamePrefix

LEMMA InOneLog == SafetyInv => OneAgreedLog /\ LedgersInIt
<1> SUFFICES ASSUME SafetyInv PROVE OneAgreedLog /\ LedgersInIt
  OBVIOUS
<1>1. OneAgreedLog
  BY AgreedAgree DEF OneAgreedLog
<1>2. ASSUME NEW n \in Node, NEW k \in Nat, StandsAt(n, k),
             NEW l \in Seq(Entry), Agreed(l), k <= Len(l)
      PROVE  machine[n] = LedgerOf(l, k)
  <2>1. PICK e : e = SubSeq(log[n], 1, k)
    OBVIOUS
  <2>2. k = 0 \/ Settled(n, k)
    BY <1>2 DEF StandsAt
  <2>3. /\ e \in Seq(Entry) /\ Len(e) = k /\ Agreed(e)
        /\ k <= Len(log[n]) /\ log[n] \in Seq(Entry) /\ SamePrefix(log[n], e, k)
    BY <2>1, <2>2, SettledIsAgreed
  <2>4. SamePrefix(e, l, k)
    BY <1>2, <2>3, AgreedAgree
  <2>5. SamePrefix(log[n], l, k)
    BY <2>3, <2>4 DEF SamePrefix
  <2>6. LedgerOf(log[n], k) = LedgerOf(l, k)
    BY <1>2, <2>3, <2>5, LedgerSame
  <2> QED  BY <1>2, <2>6 DEF StandsAt
<1> QED  BY <1>1, <1>2 DEF LedgersInIt

LEMMA AgreedStays ==
    ASSUME InvStep, NEW l, Agreed(l) PROVE Agreed(l)'
<1>1. CASE Len(l) = 0
  BY <1>1 DEF Agreed
<1>2. CASE Len(l) # 0
  <2>1. PICK h \in Own : /\ Len(l) <= h[2] /\ Chosen(h[1], h[2])
                         /\ \A i \in 1..Len(l) : Held(h[1], i, l[i])
    BY <1>2 DEF Agreed
  <2>2. PICK t, k : t = h[1] /\ k = h[2]
    OBVIOUS
  <2>3. Chosen(t, k)'
    BY <2>1, <2>2, ChosenStays
  <2>4. h \in Own' /\ led \subseteq led'
    BY OwnStays, Typed
  <2>5. \A i \in 1..Len(l) : Held(t, i, l[i])'
    BY <2>1, <2>2, <2>4 DEF Held
  <2> QED  BY <2>1, <2>2, <2>3, <2>4, <2>5 DEF Agreed
<1> QED  BY <1>1, <1>2

\* What the history calls chosen was chosen, and no replica is beyond it.
ChosenCovers(l) ==
    /\ Agreed(l)
    /\ \A n \in Node : commitIndex[n] <= Len(l) /\ \E k \in 0..Len(l) : StandsAt(n, k)

ChosenInv == \E l \in Seq(Entry) : chosen = CommandsOf(l) /\ ChosenCovers(l)

\* The history follows the one node that commits in a step.
LEMMA ChosenGrows ==
    ASSUME InvStep, MachineStep, SafetyInv, SafetyInv', [RecordChosen]_<<vars, chosen>>,
           NEW l \in Seq(Entry), chosen = CommandsOf(l), ChosenCovers(l)
    PROVE  \E e \in Seq(Entry) : /\ chosen' = CommandsOf(e) /\ Agreed(e)' /\ Len(l) <= Len(e)
                                 /\ \A n \in Node : commitIndex'[n] <= Len(e)
<1> USE Typed
<1>1. Len(l) \in Nat /\ Len(l) <= Len(l) /\ Len(chosen) = Len(l) /\ Agreed(l)'
  BY LenProperties, CommandsTyped, AgreedStays DEF ChosenCovers
<1>2. \A n \in Node : commitIndex[n] <= Len(l) /\ commitIndex[n] \in Nat /\ commitIndex'[n] \in Nat
  BY DEF ChosenCovers, TypeOK
<1>3. CASE UNCHANGED <<vars, chosen>>
  <2>1. \A n \in Node : commitIndex'[n] <= Len(l)
    BY <1>2, <1>3 DEF vars
  <2> QED  BY <1>1, <1>3, <2>1
<1>4. CASE RecordChosen
  <2> DEFINE ahead == {n \in Node : commitIndex'[n] > Len(chosen)}
             n == CHOOSE n \in ahead : TRUE
  <2>1. CASE ahead = {}
    <3>1. chosen' = chosen
      BY <1>4, <2>1 DEF RecordChosen
    <3>2. \A p \in Node : commitIndex'[p] <= Len(l)
      BY <1>1, <1>2, <2>1
    <3> QED  BY <1>1, <3>1, <3>2
  <2>2. CASE ahead # {}
    <3>1. n \in ahead /\ chosen' = CommandsOf(SubSeq(log'[n], 1, commitIndex'[n]))
      BY <1>4, <2>2 DEF RecordChosen
    <3>2. PICK q, c, e : q = n /\ c = commitIndex'[q] /\ e = SubSeq(log'[q], 1, c)
      OBVIOUS
    <3>3. q \in Node /\ c > Len(l) /\ c \in Nat /\ chosen' = CommandsOf(e)
      BY <1>1, <1>2, <3>1, <3>2
    <3> HIDE DEF n, ahead
    <3>4. \A p \in Node : commitIndex'[p] <= c
      <4>1. PICK r \in Node : OnlyMoves(r)
        BY DEF MachineStep
      <4>2. r = q
        BY <1>1, <1>2, <3>2, <3>3, <4>1 DEF OnlyMoves
      <4>3. \A p \in Node \ {q} : commitIndex'[p] = commitIndex[p]
        BY <4>1, <4>2 DEF OnlyMoves
      <4>4. \A p \in Node \ {q} : commitIndex'[p] <= c
        BY ONLY <1>1, <1>2, <3>3, <4>3
      <4>5. commitIndex'[q] <= c
        BY ONLY <3>2, <3>3
      <4> QED  BY ONLY <4>4, <4>5
    <3>5. CommittedAfter(q)
      BY <1>1, <3>2, <3>3, NodesCommit
    <3>6. PICK h \in Own' : /\ c <= Len(log'[q]) /\ c <= h[2]
                            /\ \E Q \in Quorum : \A v \in Q : Acked(v, h[1], h[2])'
                            /\ \A i \in 1..c : <<h[1], i, log'[q][i]>> \in led'
      BY <3>2, <3>5 DEF CommittedAfter
    <3>7. log'[q] \in Seq(Entry) /\ \A i \in 1..c : log'[q][i] \in Entry
      BY <3>3, <3>6, EntriesTyped
    <3>8. e \in Seq(Entry) /\ Len(e) = c /\ \A i \in 1..c : e[i] = log'[q][i]
      BY <3>2, <3>3, <3>6, <3>7, SubSeqProperties
    <3>9. Agreed(e)'
      BY <3>6, <3>8 DEF Agreed, Chosen, Held
    <3>10. Len(l) <= Len(e) /\ \A p \in Node : commitIndex'[p] <= Len(e)
      BY ONLY <1>1, <3>3, <3>4, <3>8
    <3> QED  BY ONLY <3>3, <3>8, <3>9, <3>10
  <2> QED  BY <2>1, <2>2
<1> QED  BY <1>3, <1>4

LEMMA PrefixesOfCommands ==
    ASSUME NEW l \in Seq(Entry), NEW e \in Seq(Entry), Len(l) <= Len(e), SamePrefix(l, e, Len(l))
    PROVE  IsPrefix(CommandsOf(l), CommandsOf(e))
<1>1. PICK c, d, k : c = CommandsOf(l) /\ d = CommandsOf(e) /\ k = Len(l)
  OBVIOUS
<1>2. /\ c \in Seq(Command) /\ d \in Seq(Command) /\ k \in Nat /\ Len(c) = k /\ k <= Len(d)
      /\ Len(d) \in Nat
  BY <1>1, CommandsTyped, LenProperties
<1>3. \A i \in 1..k : c[i] = l[i].command /\ l[i] = e[i]
  BY <1>1, CommandsTyped DEF SamePrefix
<1>4. \A i \in 1..k : i \in 1..Len(e)
  BY <1>1, <1>2, LenProperties
<1>5. \A i \in 1..k : d[i] = c[i]
  BY <1>1, <1>3, <1>4, CommandsTyped
<1>6. \A i \in 1..k : c[i] \in Command /\ d[i] \in Command
  BY <1>2, <1>5, ElementOfSeq
<1>7. PICK s, t : s = SubSeq(c, 1, k) /\ t = SubSeq(d, 1, k)
  OBVIOUS
<1>8. s \in Seq(Command) /\ Len(s) = k /\ \A i \in 1..k : s[i] = c[i]
  BY <1>2, <1>6, <1>7, SubSeqProperties
<1>9. t \in Seq(Command) /\ Len(t) = k /\ \A i \in 1..k : t[i] = d[i]
  BY <1>2, <1>6, <1>7, SubSeqProperties
<1>10. s = t
  BY <1>5, <1>8, <1>9, SeqEqual
<1> QED  BY <1>1, <1>2, <1>7, <1>10 DEF IsPrefix

\* One replica moves on along what is agreed on, before and after the step.
LEMMA ReplicaCatchesUp ==
    ASSUME LedgerMachine, InvStep, MachineStep, NEW l \in Seq(Entry), ChosenCovers(l),
           NEW e \in Seq(Entry), Len(l) <= Len(e), NEW n \in Node, commitIndex'[n] <= Len(e)
    PROVE  \E k \in 0..Len(l), j \in 0..Len(e) : k <= j /\ StandsAt(n, k) /\ StandsAt(n, j)'
<1>1. Len(l) \in Nat /\ Len(e) \in Nat /\ commitIndex'[n] \in Nat
  BY LenProperties, Typed DEF TypeOK
<1>2. PICK k \in 0..Len(l) : StandsAt(n, k)
  BY DEF ChosenCovers
<1>3. k \in Nat /\ k <= Len(e)
  BY <1>1
<1>4. PICK j \in Nat : k <= j /\ StandsAt(n, j)' /\ (j = k \/ j <= commitIndex'[n])
  BY <1>2, <1>3, StandsOn
<1>5. j \in 0..Len(e)
  BY <1>1, <1>3, <1>4
<1> QED  BY <1>2, <1>4, <1>5

LEMMA NextRefines ==
    ASSUME LedgerMachine, LedgerInv, ChosenInv, LedgersInIt, LedgersInIt', OneAgreedLog',
           HistoryStep, [ChosenNext]_<<vars, chosen>>
    PROVE  ChosenInv' /\ Abstract!Next
<1>1. InvStep /\ MachineStep /\ LedgerInv' /\ SafetyInv /\ SafetyInv'
  BY NextLedger DEF LedgerInv
<1>2. PICK l \in Seq(Entry) : chosen = CommandsOf(l) /\ ChosenCovers(l)
  BY DEF ChosenInv
<1>3. [RecordChosen]_<<vars, chosen>>
  BY DEF ChosenNext
<1>4. PICK e \in Seq(Entry) : /\ chosen' = CommandsOf(e) /\ Agreed(e)' /\ Len(l) <= Len(e)
                              /\ \A n \in Node : commitIndex'[n] <= Len(e)
  BY <1>1, <1>2, <1>3, ChosenGrows
<1>5. \A n \in Node : \E k \in 0..Len(l), j \in 0..Len(e) :
        k <= j /\ StandsAt(n, k) /\ StandsAt(n, j)'
  BY <1>1, <1>2, <1>4, ReplicaCatchesUp
<1>6. ChosenInv'
  BY <1>4, <1>5 DEF ChosenInv, ChosenCovers
<1>7. Len(l) \in Nat /\ Len(e) \in Nat /\ Len(chosen) = Len(l) /\ Len(chosen') = Len(e)
  BY <1>2, <1>4, CommandsTyped, LenProperties
<1>8. Agreed(l) /\ Agreed(l)'
  BY <1>1, <1>2, AgreedStays DEF ChosenCovers
<1>9. IsPrefix(chosen, chosen')
  <2>1. Len(l) <= Len(l)
    BY <1>7
  <2>2. SamePrefix(l, e, Len(l))
    BY <1>4, <1>7, <1>8, <2>1 DEF OneAgreedLog
  <2> QED  BY <1>2, <1>4, <2>2, PrefixesOfCommands
<1>10. PICK r \in Node : OnlyMoves(r)
  BY <1>1 DEF MachineStep
<1>11. PICK k \in 0..Len(l), j \in 0..Len(e) : k <= j /\ StandsAt(r, k) /\ StandsAt(r, j)'
  BY <1>5
<1>12. k \in Nat /\ j \in Nat /\ k <= Len(l) /\ j <= Len(e)
  BY <1>7
<1>13. machine[r] = LedgerOf(l, k) /\ machine'[r] = LedgerOf(e, j)
  BY <1>4, <1>8, <1>11, <1>12 DEF LedgersInIt
<1>14. machine[r] = Abstract!StateAfter(chosen, k) /\ machine'[r] = Abstract!StateAfter(chosen', j)
  BY <1>2, <1>4, <1>12, <1>13, StateAfterIsLedger
<1>15. machine' = [machine EXCEPT ![r] = Abstract!StateAfter(chosen', j)]
  <2>1. PICK v : v = Abstract!StateAfter(chosen', j) /\ machine'[r] = v
    BY <1>14
  <2>2. OneMachineEach /\ OneMachineEach'
    BY <1>1 DEF LedgerInv, MachineInv, MachineStep
  <2>3. \A p \in Node \ {r} : machine'[p] = machine[p]
    BY <1>10 DEF OnlyMoves
  <2>4. machine' = [machine EXCEPT ![r] = v]
    BY <2>1, <2>2, <2>3 DEF OneMachineEach
  <2> QED  BY <2>1, <2>4
<1>16. Abstract!CatchUp(r)
  <2>1. k \in 0..Len(chosen) /\ j \in k..Len(chosen')
    BY <1>7, <1>11, <1>12
  <2> QED  BY <1>14, <1>15, <2>1 DEF Abstract!CatchUp
<1>17. Abstract!IsPrefix(chosen, chosen')
  BY <1>9 DEF IsPrefix, Abstract!IsPrefix
<1> QED  BY <1>6, <1>16, <1>17 DEF Abstract!Next

\* The replicated ledger that Raft keeps in many logs, under restarts, lost and
\* late messages, is the one of ReplicatedLedger: one order for all commands, and
\* replicas that only move forward in it.
THEOREM RaftImplementsReplicatedLedger ==
    ASSUME LedgerMachine PROVE HistorySpec /\ ChosenSpec => ImplementsReplicatedLedger
<1>1. HistoryInit /\ chosen = <<>> => ChosenInv /\ Abstract!Init
  <2> SUFFICES ASSUME HistoryInit, chosen = <<>> PROVE ChosenInv /\ Abstract!Init
    OBVIOUS
  <2>1. <<>> \in Seq(Entry) /\ Len(<<>>) = 0 /\ CommandsOf(<<>>) = <<>>
    <3>1. <<>> \in Seq(Entry) /\ Len(<<>>) = 0
      BY EmptySeq
    <3>2. CommandsOf(<<>>) \in Seq(Command) /\ Len(CommandsOf(<<>>)) = 0
      BY <3>1, CommandsTyped
    <3> QED  BY <3>1, <3>2, EmptySeq
  <2>2. \A n \in Node : commitIndex[n] = 0 /\ lastApplied[n] = 0 /\ machine[n] = InitialMachine
    BY DEF HistoryInit, Init
  <2>3. \A n \in Node : StandsAt(n, 0)
    BY <2>2, LedgerZero DEF StandsAt
  <2>4. ChosenCovers(<<>>)
    BY <2>1, <2>2, <2>3 DEF ChosenCovers, Agreed
  <2> QED  BY <2>1, <2>4 DEF ChosenInv, Abstract!Init, HistoryInit, Init
<1>2. /\ LedgerInv /\ ChosenInv /\ LedgersInIt /\ LedgersInIt' /\ OneAgreedLog'
      /\ HistoryStep /\ [ChosenNext]_<<vars, chosen>>
      => ChosenInv' /\ [Abstract!Next]_<<chosen, machine>>
  BY NextRefines
<1>3. LedgerInv => SafetyInv
  BY DEF LedgerInv
<1> QED  BY <1>1, <1>2, <1>3, InOneLog, LedgerInvariant, PTL
         DEF HistorySpec, HistoryInit, HistoryKept, HistoryStep, Spec, ChosenSpec, ImplementsReplicatedLedger, Abstract!Spec

-----------------------------------------------------------------------------
(* What MapThenSumSet computes: the sum of the deltas of a finite set.     *)

Some(s) == CHOOSE x \in s : TRUE

Total(S) == MapThenSumSet(LAMBDA c : c.delta, S)

\* The function behind the fold, on the subsets of S of up to i elements.
Small(S, i) == {T \in SUBSET S : Cardinality(T) <= i}
IsSum(g, D) ==
    g = [s \in D |-> IF s = {} THEN 0 ELSE Some(s).delta + g[s \ {Some(s)}]]

LEMMA WithoutOne ==
    ASSUME NEW S, IsFiniteSet(S), NEW s \in SUBSET S, s # {}, NEW i \in Nat, Cardinality(s) <= i + 1
    PROVE  /\ Some(s) \in s /\ s \ {Some(s)} \in Small(S, i) /\ IsFiniteSet(s)
           /\ Cardinality(s) \in Nat /\ Cardinality(s \ {Some(s)}) = Cardinality(s) - 1
<1>1. PICK x : x = Some(s)
  OBVIOUS
<1>2. x \in s
  BY <1>1 DEF Some
<1>3. IsFiniteSet(s) /\ Cardinality(s) \in Nat
  BY FS_Subset, FS_CardinalityType
<1>4. Cardinality(s \ {x}) = Cardinality(s) - 1
  BY <1>2, <1>3, FS_RemoveElement
<1>5. Cardinality(s \ {x}) <= i
  BY <1>3, <1>4
<1> QED  BY <1>1, <1>2, <1>3, <1>4, <1>5 DEF Small

LEMMA SumExists ==
    ASSUME NEW S, IsFiniteSet(S) PROVE \E g : IsSum(g, SUBSET S)
<1> DEFINE A == {i \in Nat : \E g : IsSum(g, Small(S, i))}
<1>1. PICK n : n = Cardinality(S)
  OBVIOUS
<1>2. n \in Nat
  BY <1>1, FS_CardinalityType
<1>3. 0 \in A
  <2> DEFINE g == [s \in Small(S, 0) |-> 0]
  <2>1. ASSUME NEW s \in Small(S, 0) PROVE s = {}
    <3>1. IsFiniteSet(s) /\ Cardinality(s) \in Nat /\ Cardinality(s) <= 0
      BY FS_Subset, FS_CardinalityType DEF Small
    <3>2. Cardinality(s) = 0
      BY <3>1
    <3> QED  BY <3>1, <3>2, FS_EmptySet
  <2>2. g = [s \in Small(S, 0) |-> IF s = {} THEN 0 ELSE Some(s).delta + g[s \ {Some(s)}]]
    BY <2>1
  <2>3. IsSum(g, Small(S, 0))
    BY <2>2 DEF IsSum
  <2> QED  BY <2>3
<1>4. ASSUME NEW i \in 0..(n - 1), i \in A PROVE i + 1 \in A
  <2>1. PICK g : IsSum(g, Small(S, i))
    BY <1>4
  <2>2. i \in Nat /\ i + 1 \in Nat
    BY <1>2
  <2>3. \A s \in Small(S, i + 1) : s # {} => s \ {Some(s)} \in Small(S, i)
    BY <2>2, WithoutOne DEF Small
  <2>4. \A s \in Small(S, i) : s \in Small(S, i + 1)
    <3>1. ASSUME NEW s \in SUBSET S, Cardinality(s) <= i PROVE Cardinality(s) <= i + 1
      <4>1. Cardinality(s) \in Nat
        BY FS_Subset, FS_CardinalityType
      <4> QED  BY <2>2, <3>1, <4>1
    <3> QED  BY <3>1 DEF Small
  <2> DEFINE h == [s \in Small(S, i + 1) |->
                     IF s = {} THEN 0 ELSE Some(s).delta + g[s \ {Some(s)}]]
  <2>5. \A s \in Small(S, i) : h[s] = g[s]
    <3>1. \A s \in Small(S, i) :
            g[s] = IF s = {} THEN 0 ELSE Some(s).delta + g[s \ {Some(s)}]
      BY <2>1 DEF IsSum
    <3> QED  BY <2>4, <3>1
  <2>6. \A s \in Small(S, i + 1) : s # {} => h[s \ {Some(s)}] = g[s \ {Some(s)}]
    <3> HIDE DEF h
    <3> QED  BY <2>3, <2>5
  <2>7. h = [s \in Small(S, i + 1) |->
               IF s = {} THEN 0 ELSE Some(s).delta + h[s \ {Some(s)}]]
    BY <2>6
  <2>8. IsSum(h, Small(S, i + 1))
    <3> HIDE DEF h
    <3> QED  BY <2>7 DEF IsSum
  <2> QED  BY <2>2, <2>8
<1>5. \A i \in 0..n : i \in A
  <2> HIDE DEF A
  <2> QED  BY <1>2, <1>3, <1>4, StepByStep
<1>6. n \in A
  BY <1>2, <1>5
<1>7. Small(S, n) = SUBSET S
  BY <1>1, FS_Subset DEF Small
<1> QED  BY <1>6, <1>7

LEMMA SumUnique ==
    ASSUME NEW S1, NEW S2, IsFiniteSet(S1), IsFiniteSet(S2), NEW g1, NEW g2,
           IsSum(g1, SUBSET S1), IsSum(g2, SUBSET S2), NEW T, T \subseteq S1, T \subseteq S2
    PROVE  g1[T] = g2[T]
<1> DEFINE A == {i \in Nat : \A s \in Small(T, i) : g1[s] = g2[s]}
<1>1. IsFiniteSet(T) /\ Cardinality(T) \in Nat /\ T \in Small(T, Cardinality(T))
  <2>1. IsFiniteSet(T) /\ Cardinality(T) \in Nat
    BY FS_Subset, FS_CardinalityType
  <2> QED  BY <2>1 DEF Small
<1>2. ASSUME NEW s \in SUBSET T
      PROVE  /\ g1[s] = IF s = {} THEN 0 ELSE Some(s).delta + g1[s \ {Some(s)}]
             /\ g2[s] = IF s = {} THEN 0 ELSE Some(s).delta + g2[s \ {Some(s)}]
  <2>1. s \in SUBSET S1 /\ s \in SUBSET S2
    OBVIOUS
  <2> QED  BY <2>1 DEF IsSum
<1>3. 0 \in A
  <2> SUFFICES ASSUME NEW s \in Small(T, 0) PROVE g1[s] = g2[s]
    OBVIOUS
  <2>1. IsFiniteSet(s) /\ Cardinality(s) \in Nat /\ Cardinality(s) <= 0 /\ s \in SUBSET T
    BY <1>1, FS_Subset, FS_CardinalityType DEF Small
  <2>2. s = {}
    BY <2>1, FS_EmptySet
  <2> QED  BY <1>2, <2>1, <2>2
<1>4. ASSUME NEW i \in 0..(Cardinality(T) - 1), i \in A PROVE i + 1 \in A
  <2>1. i \in Nat /\ i + 1 \in Nat
    BY <1>1
  <2>2. ASSUME NEW s \in Small(T, i + 1) PROVE g1[s] = g2[s]
    <3>1. s \in SUBSET T /\ (s # {} => s \ {Some(s)} \in Small(T, i))
      BY <1>1, <2>1, WithoutOne DEF Small
    <3>2. s # {} => g1[s \ {Some(s)}] = g2[s \ {Some(s)}]
      BY <1>4, <3>1
    <3> QED  BY <1>2, <3>1, <3>2
  <2> QED  BY <2>1, <2>2
<1>5. \A i \in 0..Cardinality(T) : i \in A
  <2> HIDE DEF A
  <2> QED  BY <1>1, <1>3, <1>4, StepByStep
<1>6. Cardinality(T) \in A
  BY <1>1, <1>5
<1> QED  BY <1>1, <1>6

LEMMA TotalIsSum ==
    ASSUME NEW S, IsFiniteSet(S)
    PROVE  \E g : IsSum(g, SUBSET S) /\ Total(S) = g[S]
<1> DEFINE h == CHOOSE f : IsSum(f, SUBSET S)
<1>1. IsSum(h, SUBSET S)
  BY SumExists
<1>2. Total(S) = h[S]
  BY DEF Total, MapThenSumSet, MapThenFoldSet, IsSum, Some
<1> QED  BY <1>1, <1>2

LEMMA TotalPicks ==
    ASSUME NEW S, IsFiniteSet(S)
    PROVE  Total(S) = IF S = {} THEN 0 ELSE Some(S).delta + Total(S \ {Some(S)})
<1>1. PICK g : IsSum(g, SUBSET S) /\ Total(S) = g[S]
  BY TotalIsSum
<1>2. g[S] = IF S = {} THEN 0 ELSE Some(S).delta + g[S \ {Some(S)}]
  BY <1>1 DEF IsSum
<1>3. PICK T : T = S \ {Some(S)}
  OBVIOUS
<1>4. IsFiniteSet(T) /\ T \subseteq S /\ T \subseteq T
  BY <1>3, FS_Subset
<1>5. PICK h : IsSum(h, SUBSET T) /\ Total(T) = h[T]
  BY <1>4, TotalIsSum
<1>6. g[T] = h[T]
  BY <1>1, <1>4, <1>5, SumUnique
<1> QED  BY <1>1, <1>2, <1>3, <1>5, <1>6

\* The order in which a sum picks its elements does not matter.
Additive(T) ==
    /\ Total(T) \in Int
    /\ \A x \in Command \ T : Total(T \cup {x}) = Total(T) + x.delta

LEMMA TotalAdds ==
    ASSUME NEW S, S \subseteq Command, IsFiniteSet(S) PROVE Additive(S)
<1> DEFINE A == {i \in Nat : \A T \in Small(S, i) : Additive(T)}
<1>0. \A c \in Command : c.delta \in Int
  BY LedgerAssumption
<1>1. Cardinality(S) \in Nat /\ S \in Small(S, Cardinality(S))
  BY FS_CardinalityType DEF Small
<1>2. 0 \in A
  <2> SUFFICES ASSUME NEW T \in Small(S, 0) PROVE Additive(T)
    OBVIOUS
  <2>1. IsFiniteSet(T) /\ Cardinality(T) \in Nat /\ Cardinality(T) <= 0
    BY FS_Subset, FS_CardinalityType DEF Small
  <2>2. T = {}
    BY <2>1, FS_EmptySet
  <2>3. Total({}) = 0
    BY FS_EmptySet, TotalPicks
  <2>4. ASSUME NEW x \in Command PROVE Total({x}) = x.delta
    <3>1. IsFiniteSet({x}) /\ {x} # {} /\ Some({x}) = x /\ {x} \ {x} = {}
      BY FS_Singleton DEF Some
    <3>2. Total({x}) = x.delta + Total({})
      BY <3>1, TotalPicks
    <3> QED  BY <1>0, <2>3, <3>2
  <2> QED  BY <1>0, <2>2, <2>3, <2>4 DEF Additive
<1>3. ASSUME NEW i \in 0..(Cardinality(S) - 1), i \in A PROVE i + 1 \in A
  <2>0. i \in Nat /\ i + 1 \in Nat
    BY <1>1
  <2> SUFFICES ASSUME NEW T \in Small(S, i + 1) PROVE Additive(T)
    BY <2>0
  <2>1. T \in SUBSET S /\ T \subseteq Command /\ IsFiniteSet(T)
    BY FS_Subset DEF Small
  <2>2. CASE T = {}
    <3>1. {} \in Small(S, i)
      BY <2>0, FS_EmptySet DEF Small
    <3> QED  BY <1>3, <2>2, <3>1
  <2>3. CASE T # {}
    <3>1. \A y \in T : T \ {y} \in Small(S, i)
      <4> SUFFICES ASSUME NEW y \in T PROVE Cardinality(T \ {y}) <= i
        BY <2>1 DEF Small
      <4>1. Cardinality(T) \in Nat /\ Cardinality(T) <= i + 1
        BY <2>1, FS_CardinalityType DEF Small
      <4>2. Cardinality(T \ {y}) = Cardinality(T) - 1
        BY <2>1, FS_RemoveElement
      <4> QED  BY <2>0, <4>1, <4>2
    <3>2. \A y \in T : Additive(T \ {y})
      BY <1>3, <3>1
    <3>3. ASSUME NEW y \in T PROVE Total(T) = Total(T \ {y}) + y.delta /\ Total(T \ {y}) \in Int
      <4>1. y \in Command \ (T \ {y}) /\ (T \ {y}) \cup {y} = T
        BY <2>1
      <4>2. PICK U : U = T \ {y}
        OBVIOUS
      <4>3. Total(U \cup {y}) = Total(U) + y.delta /\ Total(U) \in Int
        BY <3>2, <4>1, <4>2 DEF Additive
      <4> QED  BY <4>1, <4>2, <4>3
    <3>4. Total(T) \in Int
      <4>1. PICK y \in T : y.delta \in Int
        BY <1>0, <2>1, <2>3
      <4>2. PICK d, t : d = y.delta /\ t = Total(T \ {y})
        OBVIOUS
      <4>3. d \in Int /\ t \in Int /\ Total(T) = t + d
        BY <3>3, <4>1, <4>2
      <4> QED  BY <4>3
    <3>5. ASSUME NEW x \in Command \ T PROVE Total(T \cup {x}) = Total(T) + x.delta
      <4>1. PICK V, y : V = T \cup {x} /\ y = Some(V)
        OBVIOUS
      <4>2. IsFiniteSet(V) /\ V # {} /\ y \in V
        BY <2>1, <4>1, FS_AddElement DEF Some
      <4>3. Total(V) = y.delta + Total(V \ {y})
        BY <4>1, <4>2, TotalPicks
      <4>4. Total(T) \in Int /\ x.delta \in Int
        BY <1>0, <3>4
      <4>5. CASE y = x
        <5>1. V \ {y} = T
          BY <3>5, <4>1, <4>5
        <5>2. Total(V) = x.delta + Total(T)
          BY <4>3, <4>5, <5>1
        <5> QED  BY <4>1, <4>4, <5>2
      <4>6. CASE y # x
        <5>1. PICK U : U = T \ {y}
          OBVIOUS
        <5>2. y \in T /\ V \ {y} = U \cup {x} /\ x \in Command \ U /\ y.delta \in Int
          BY <1>0, <2>1, <3>5, <4>1, <4>2, <4>6, <5>1
        <5>3. Additive(U) /\ Total(T) = Total(U) + y.delta /\ Total(U) \in Int
          BY <3>2, <3>3, <5>1, <5>2
        <5>4. Total(U \cup {x}) = Total(U) + x.delta
          BY <5>2, <5>3 DEF Additive
        <5>5. Total(V) = y.delta + (Total(U) + x.delta)
          BY <4>3, <5>2, <5>4
        <5> QED  BY <4>1, <4>4, <5>2, <5>3, <5>5
      <4> QED  BY <4>5, <4>6
    <3> QED  BY <3>4, <3>5 DEF Additive
  <2> QED  BY <2>2, <2>3
<1>4. \A i \in 0..Cardinality(S) : i \in A
  <2> HIDE DEF A
  <2> QED  BY <1>1, <1>2, <1>3, StepByStep
<1> QED  BY <1>1, <1>4

-----------------------------------------------------------------------------
(* No double spend.                                                        *)

AcceptedBy(m) == {c \in Command : Applied(m, c) /\ m.results[c.entryId].accepted}
AcceptedFor(m, a) == {c \in AcceptedBy(m) : c.account = a}

\* The books of a ledger balance.
Sound(m) ==
    /\ IsFiniteSet(AcceptedBy(m))
    /\ \A a : /\ Balance(m, a) \in Nat
              /\ Balance(m, a) = Balance(InitialMachine, a) + Total(AcceptedFor(m, a))

LEMMA InitialSound == Sound(InitialMachine)
<1>1. AcceptedBy(InitialMachine) = {}
  <2>1. DOMAIN InitialMachine.results = {}
    BY LedgerAssumption
  <2> QED  BY <2>1 DEF AcceptedBy, Applied
<1>2. IsFiniteSet({}) /\ Total({}) = 0
  BY FS_EmptySet, TotalPicks
<1>3. ASSUME NEW a PROVE Balance(InitialMachine, a) \in Nat
  BY LedgerAssumption DEF Balance
<1>4. ASSUME NEW a PROVE AcceptedFor(InitialMachine, a) = {}
  BY <1>1 DEF AcceptedFor
<1>5. ASSUME NEW a PROVE Balance(InitialMachine, a) = Balance(InitialMachine, a) + 0
  BY <1>3
<1> QED  BY <1>1, <1>2, <1>3, <1>4, <1>5 DEF Sound

\* Apply books an entry that it has not seen, once, if the account covers it.
LEMMA ApplySound ==
    ASSUME NEW m, Sound(m), NEW e \in Command PROVE Sound(Apply(m, e))
<1>1. CASE Applied(m, e)
  BY <1>1 DEF Apply
<1>2. CASE ~Applied(m, e)
  <2>1. PICK k, b, ok : /\ k = Apply(m, e) /\ b = Balance(m, e.account)
                        /\ ok = Accepts(m, e)
    OBVIOUS
  <2>2. b \in Nat /\ e.delta \in Int /\ ok = (b + e.delta >= 0) /\ ok \in BOOLEAN
    BY <2>1, LedgerAssumption DEF Sound, Accepts
  <2>3. PICK r : /\ r.accepted = ok
                 /\ k.results = Put(m.results, e.entryId, r)
                 /\ k.balances = IF ok THEN Put(m.balances, e.account, b + e.delta) ELSE m.balances
    <3>1. PICK r : r = [accepted |-> ok, balance |-> IF ok THEN b + e.delta ELSE b]
      OBVIOUS
    <3>2. r.accepted = ok
      BY <3>1
    <3> QED  BY <1>2, <2>1, <3>1, <3>2 DEF Apply, Settle
  <2>4. \A c \in Command : c # e =>
          /\ Applied(k, c) <=> Applied(m, c)
          /\ Applied(m, c) => k.results[c.entryId] = m.results[c.entryId]
    BY <2>3, LedgerAssumption DEF Applied, Put
  <2>5. Applied(k, e) /\ k.results[e.entryId].accepted = ok
    BY <2>3 DEF Applied, Put
  <2>6. AcceptedBy(k) = IF ok THEN AcceptedBy(m) \cup {e} ELSE AcceptedBy(m)
    <3>1. ASSUME NEW c \in Command, c # e PROVE c \in AcceptedBy(k) <=> c \in AcceptedBy(m)
      BY <2>4, <3>1 DEF AcceptedBy
    <3>2. e \in AcceptedBy(k) <=> ok
      BY <2>2, <2>5 DEF AcceptedBy
    <3>3. e \notin AcceptedBy(m)
      BY <1>2 DEF AcceptedBy
    <3>4. AcceptedBy(k) \subseteq Command /\ AcceptedBy(m) \subseteq Command
      BY DEF AcceptedBy
    <3> QED  BY <2>2, <3>1, <3>2, <3>3, <3>4
  <2>7. IsFiniteSet(AcceptedBy(k))
    BY <2>6, FS_AddElement DEF Sound
  <2>8. CASE ~ok
    <3>1. k.balances = m.balances /\ AcceptedBy(k) = AcceptedBy(m)
      BY <2>3, <2>6, <2>8
    <3> QED  BY <2>1, <2>7, <3>1 DEF Sound, Balance, AcceptedFor
  <2>9. CASE ok
    <3>1. k.balances = Put(m.balances, e.account, b + e.delta) /\ AcceptedBy(k) = AcceptedBy(m) \cup {e}
      BY <2>3, <2>6, <2>9
    <3>2. ASSUME NEW a, a # e.account
          PROVE  Balance(k, a) = Balance(m, a) /\ AcceptedFor(k, a) = AcceptedFor(m, a)
      <4>1. Balance(k, a) = Balance(m, a)
        BY <3>1, <3>2 DEF Balance, Put
      <4>2. AcceptedFor(k, a) = AcceptedFor(m, a)
        BY <3>1, <3>2 DEF AcceptedFor
      <4> QED  BY <4>1, <4>2
    <3>3. PICK a, S : a = e.account /\ S = AcceptedFor(m, a)
      OBVIOUS
    <3>4. Balance(k, a) = b + e.delta
      BY <3>1, <3>3 DEF Balance, Put
    <3>5. AcceptedFor(k, a) = S \cup {e} /\ e \in Command \ S
      <4>1. e \notin AcceptedBy(m)
        BY <1>2 DEF AcceptedBy
      <4> QED  BY <3>1, <3>3, <4>1 DEF AcceptedFor
    <3>6. S \subseteq Command /\ IsFiniteSet(S)
      <4>1. S \in SUBSET AcceptedBy(m) /\ AcceptedBy(m) \subseteq Command
        BY <3>3 DEF AcceptedFor, AcceptedBy
      <4> QED  BY <4>1, FS_Subset DEF Sound
    <3>7. Total(S \cup {e}) = Total(S) + e.delta /\ Total(S) \in Int
      BY <3>5, <3>6, TotalAdds DEF Additive
    <3>8. b = Balance(InitialMachine, a) + Total(S) /\ Balance(InitialMachine, a) \in Nat
      BY <2>1, <3>3, InitialSound DEF Sound
    <3>9. /\ Balance(k, a) \in Nat
          /\ Balance(k, a) = Balance(InitialMachine, a) + Total(AcceptedFor(k, a))
      <4>1. b + e.delta >= 0
        BY <2>2, <2>9
      <4>2. b + e.delta \in Nat
        BY <2>2, <4>1
      <4>3. PICK d, t, v : d = e.delta /\ t = Total(S) /\ v = Balance(InitialMachine, a)
        OBVIOUS
      <4>4. d \in Int /\ t \in Int /\ v \in Nat /\ b = v + t
        BY <2>2, <3>7, <3>8, <4>3
      <4>5. b + d = v + (t + d)
        BY <4>4
      <4> QED  BY <3>4, <3>5, <3>7, <4>2, <4>3, <4>5
    <3> QED  BY <2>1, <2>7, <3>2, <3>3, <3>9 DEF Sound
  <2> QED  BY <2>2, <2>8, <2>9
<1> QED  BY <1>1, <1>2

\* So does a whole piece of a log that is applied, be it a replay.
LEMMA PieceSound ==
    ASSUME LedgerMachine, NEW m, Sound(m), NEW l \in Seq(Entry), NEW i \in Nat, NEW k \in Nat,
           k <= Len(l) \/ k <= i
    PROVE  Sound(ApplyEntries(m, SubSeq(l, i + 1, k)))
<1>1. CASE k <= i
  <2>1. i + 1 \in Int /\ k \in Int /\ k < i + 1
    BY <1>1
  <2> QED  BY <2>1, ApplyNone
<1>2. CASE i < k /\ k <= Len(l)
  <2> DEFINE A == {d \in Nat : Sound(ApplyEntries(m, SubSeq(l, i + 1, i + d)))}
  <2>1. 0 \in A
    <3>1. i + 1 \in Int /\ i + 0 \in Int /\ i + 0 < i + 1
      OBVIOUS
    <3> QED  BY <3>1, ApplyNone
  <2>2. ASSUME NEW d \in 0..(k - i - 1), d \in A PROVE d + 1 \in A
    <3>1. PICK j : j = i + d
      OBVIOUS
    <3>2. /\ j \in Nat /\ i + 1 \in Nat \ {0} /\ i + 1 <= j + 1 /\ j + 1 <= Len(l)
          /\ i + (d + 1) = j + 1 /\ d + 1 \in Nat /\ j + 1 \in 1..Len(l)
      BY <1>2, <3>1, EntriesTyped
    <3>3. l[j + 1].command \in Command
      BY <3>2, EntriesTyped DEF Entry
    <3>4. ApplyEntries(m, SubSeq(l, i + 1, j + 1))
            = Apply(ApplyEntries(m, SubSeq(l, i + 1, j)), l[j + 1].command)
      BY <3>2, ApplyNext DEF LedgerMachine
    <3>5. Sound(ApplyEntries(m, SubSeq(l, i + 1, j)))
      BY <2>2, <3>1
    <3> QED  BY <3>2, <3>3, <3>4, <3>5, ApplySound
  <2>3. k - i \in Nat /\ i + (k - i) = k
    BY <1>2
  <2>4. \A d \in 0..(k - i) : d \in A
    <3> HIDE DEF A
    <3> QED  BY <2>1, <2>2, <2>3, StepByStep
  <2>5. k - i \in A
    <3> HIDE DEF A
    <3> QED  BY <2>3, <2>4
  <2> QED  BY <2>3, <2>5
<1> QED  BY <1>1, <1>2, EntriesTyped

\* The books of every replica balance.  What is committed is applied, so that a
\* commit index that stays where it is applies nothing.
BooksBalance ==
    /\ OneMachineEach
    /\ \A n \in Node : commitIndex[n] <= lastApplied[n] /\ Sound(machine[n])

LEMMA CommitBalances ==
    ASSUME LedgerMachine, TypeOK, BooksBalance, NEW n \in Node, NEW l \in Seq(Entry),
           NEW c \in Nat, c <= Len(l) \/ c = commitIndex[n], CommitUpTo(n, l, c)
    PROVE  BooksBalance'
<1>1. PICK i : i = lastApplied[n]
  OBVIOUS
<1>2. i \in Nat /\ commitIndex[n] <= i /\ Sound(machine[n])
  BY <1>1 DEF TypeOK, BooksBalance
<1>3. Sound(ApplyEntries(machine[n], SubSeq(l, i + 1, c)))
  BY <1>2, PieceSound
<1>4. /\ commitIndex' = [commitIndex EXCEPT ![n] = c]
      /\ lastApplied' = [lastApplied EXCEPT ![n] = IF i < c THEN c ELSE i]
      /\ machine' = [machine EXCEPT ![n] = ApplyEntries(machine[n], SubSeq(l, i + 1, c))]
  BY <1>1 DEF CommitUpTo
<1>5. OneMachineEach'
  BY <1>4 DEF BooksBalance, OneMachineEach
<1>6. commitIndex'[n] <= lastApplied'[n] /\ Sound(machine'[n])
  BY <1>2, <1>3, <1>4 DEF TypeOK, BooksBalance, OneMachineEach
<1>7. ASSUME NEW p \in Node, p # n
      PROVE  commitIndex'[p] <= lastApplied'[p] /\ Sound(machine'[p])
  <2>1. /\ commitIndex'[p] = commitIndex[p] /\ lastApplied'[p] = lastApplied[p]
        /\ machine'[p] = machine[p]
    BY <1>4, <1>7 DEF TypeOK, BooksBalance, OneMachineEach
  <2> QED  BY <2>1 DEF BooksBalance
<1>8. ASSUME NEW p \in Node PROVE Sound(machine[p])' <=> Sound(machine'[p])
  BY DEF Sound, AcceptedFor, AcceptedBy
<1> QED  BY <1>5, <1>6, <1>7, <1>8 DEF BooksBalance

\* Only committing and restarting touch what a replica has applied.  Nothing
\* here rests on the agreement of the logs.
AppliesOnly ==
    \/ UNCHANGED commitVars
    \/ \E m \in msgs : Receive(m)
    \/ \E n \in Node : Revive(n)

LEMMA BooksKept ==
    ASSUME LedgerMachine, TypeOK, BooksBalance, AppliesOnly PROVE BooksBalance'
<1>1. ASSUME UNCHANGED commitVars PROVE BooksBalance'
  BY <1>1 DEF commitVars, BooksBalance, OneMachineEach
<1>2. ASSUME NEW m \in msgs, AcceptAppend(m) PROVE BooksBalance'
  <2>1. m.dst \in Node /\ m \in AppendArgs
    BY <1>2, MessageFields DEF TypeOK, AcceptAppend, FollowLeader
  <2>2. PICK n : n = m.dst
    OBVIOUS
  <2>3. log[n] \in Seq(Entry) /\ Len(log[n]) \in Nat /\ commitIndex[n] \in Nat
    BY <2>1, <2>2, LenProperties DEF TypeOK
  <2>4. /\ m.prevIndex \in Nat /\ m.prevIndex <= Len(log[n])
        /\ m.entries \in Seq(Entry) /\ m.commit \in Nat
    BY <1>2, <2>1, <2>2, <2>3 DEF AcceptAppend, AppendArgs
  <2>5. PICK l : l = MergeEntries(log[n], m.prevIndex, m.entries)
    OBVIOUS
  <2>6. PICK c : c = FollowerCommit(l, commitIndex[n], m.commit)
    OBVIOUS
  <2>7. l \in Seq(Entry) /\ CommitUpTo(n, l, c)
    BY <1>2, <2>2, <2>3, <2>4, <2>5, <2>6, MergeEntriesType DEF AcceptAppend
  <2>8. c \in Nat /\ c \in {commitIndex[n]} \cup 0..Len(l)
    BY <2>3, <2>4, <2>6, <2>7, FollowerCommitType
  <2>9. c <= Len(l) \/ c = commitIndex[n]
    BY <2>8
  <2> QED  BY <2>1, <2>2, <2>7, <2>8, <2>9, CommitBalances
<1>3. ASSUME NEW m \in msgs, ReceiveAppendSuccess(m) PROVE BooksBalance'
  <2>1. m.dst \in Node
    BY <1>3, MessageFields DEF TypeOK
  <2>2. PICK n : n = m.dst
    OBVIOUS
  <2>3. log[n] \in Seq(Entry) /\ currentTerm[n] \in Nat /\ commitIndex[n] \in Nat
    BY <2>1, <2>2 DEF TypeOK
  <2>4. PICK match, c : /\ c = CommitByCounting(log[n], match, currentTerm[n], commitIndex[n])
                        /\ CommitUpTo(n, log[n], c)
    BY <1>3, <2>2 DEF ReceiveAppendSuccess
  <2>5. c \in Nat /\ c \in {commitIndex[n]} \cup 0..Len(log[n])
    BY <2>3, <2>4, CommitByCountingType
  <2>6. c <= Len(log[n]) \/ c = commitIndex[n]
    BY <2>5
  <2> QED  BY <2>1, <2>2, <2>3, <2>4, <2>5, <2>6, CommitBalances
<1>4. ASSUME NEW n \in Node, Revive(n) PROVE BooksBalance'
  <2>1. /\ UNCHANGED machine /\ lastApplied' = [lastApplied EXCEPT ![n] = 0]
        /\ commitIndex' = [commitIndex EXCEPT ![n] = 0]
    BY <1>4 DEF Revive
  <2>2. ASSUME NEW p \in Node PROVE commitIndex'[p] <= lastApplied'[p]
    BY <2>1 DEF TypeOK, BooksBalance
  <2> QED  BY <2>1, <2>2 DEF BooksBalance, OneMachineEach
<1>5. ASSUME NEW m \in msgs, Receive(m), ~AcceptAppend(m), ~ReceiveAppendSuccess(m)
      PROVE  UNCHANGED commitVars
  BY <1>5 DEF Receive, ReceivePreVote, ReceiveRequestVote, RejectStaleAppend,
     RejectConflictingAppend, ReceiveNewerTerm, IgnoreReply, ReceivePreVoteReply,
     ReceiveRequestVoteReply, ReceiveAppendFailure
<1> QED  BY <1>1, <1>2, <1>3, <1>4, <1>5 DEF AppliesOnly

LEMMA BalancedNotSpentTwice == BooksBalance => NoDoubleSpend
<1> SUFFICES ASSUME BooksBalance, NEW n \in Node, NEW a \in {c.account : c \in Command}
             PROVE  /\ Balance(machine[n], a) >= 0
                    /\ Balance(machine[n], a)
                         = Balance(InitialMachine, a) + Total(AcceptedFor(machine[n], a))
  BY DEF NoDoubleSpend, AcceptedFor, AcceptedBy, Total
<1>1. Sound(machine[n])
  BY DEF BooksBalance
<1> QED  BY <1>1 DEF Sound

LEMMA InitBalances == Init => BooksBalance
<1> SUFFICES ASSUME Init PROVE BooksBalance
  OBVIOUS
<1>1. OneMachineEach /\ \A n \in Node : /\ machine[n] = InitialMachine
                                        /\ commitIndex[n] = 0 /\ lastApplied[n] = 0
  BY DEF Init, OneMachineEach
<1> QED  BY <1>1, InitialSound DEF BooksBalance

\* On every replica a balance is never negative and is what the account began
\* with plus the entries accepted, each counted once, however often an entry
\* is proposed, replicated and replayed.
THEOREM NeverSpentTwice ==
    ASSUME LedgerMachine PROVE Spec => []NoDoubleSpend
<1>1. Init => TypeOK /\ BooksBalance
  BY InitType, InitBalances
<1>2. TypeOK /\ BooksBalance /\ [Next]_vars => (TypeOK /\ BooksBalance)'
  <2> SUFFICES ASSUME TypeOK, BooksBalance, [Next]_vars PROVE (TypeOK /\ BooksBalance)'
    OBVIOUS
  <2>1. AppliesOnly
    BY DEF AppliesOnly, Next, Step, vars, commitVars, LeaderContactLapses, ElectionTimeout,
       HeartbeatTimeout, Kill, Propose
  <2> QED  BY <2>1, NextType, BooksKept
<1> QED  BY <1>1, <1>2, BalancedNotSpentTwice, PTL DEF Spec
=============================================================================
