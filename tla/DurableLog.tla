----------------------------- MODULE DurableLog -----------------------------
(***************************************************************************)
(* What the HA write path promises, without replicas, Redis or writers: an *)
(* ordered log of accepted mutations, and a durable tree that moves along  *)
(* it one mutation at a time, never back and never past one.               *)
(*                                                                         *)
(* states[k + 1] is the tree the first k accepted mutations lead to.       *)
(***************************************************************************)
EXTENDS Naturals, Sequences

CONSTANTS Trees, Initial

VARIABLES states, applied, durable

Init == states = <<Initial>> /\ applied = 0 /\ durable = Initial

\* A mutation is accepted: its result joins the log.
Accept == /\ Len(states') = Len(states) + 1
          /\ states' = Append(states, states'[Len(states) + 1])
          /\ states'[Len(states) + 1] \in Trees
          /\ UNCHANGED <<applied, durable>>

\* The next mutation becomes durable.
Persist == /\ applied + 1 < Len(states)
           /\ applied' = applied + 1
           /\ durable' = states[applied + 2]
           /\ UNCHANGED states

Next == Accept \/ Persist

Spec == Init /\ [][Next]_<<states, applied, durable>>
=============================================================================
