-------------------------- MODULE ReplicatedLedger --------------------------
(***************************************************************************)
(* What the cluster promises to its users, without nodes, terms, messages  *)
(* or crashes: one sequence of commands is agreed on, it only grows, and   *)
(* the state of every replica is that of a prefix of it and never goes     *)
(* back to a shorter one.                                                  *)
(***************************************************************************)
EXTENDS Naturals, Sequences, SequencesExt

CONSTANTS
    Replica,
    ApplyCommand(_, _),
    InitialMachine

VARIABLES
    chosen,     \* the commands agreed on, in their order
    machine     \* the state of each replica

\* The state after the first k commands of s.
StateAfter(s, k) == FoldLeft(ApplyCommand, InitialMachine, SubSeq(s, 1, k))

Init ==
    /\ chosen = <<>>
    /\ machine = [r \in Replica |-> InitialMachine]

\* Replica r moves on along what is agreed on.
CatchUp(r) ==
    \E k \in 0..Len(chosen) : \E j \in k..Len(chosen') :
        /\ machine[r] = StateAfter(chosen, k)
        /\ machine' = [machine EXCEPT ![r] = StateAfter(chosen', j)]

Next == IsPrefix(chosen, chosen') /\ \E r \in Replica : CatchUp(r)

Spec == Init /\ [][Next]_<<chosen, machine>>
=============================================================================
