--------------------------- MODULE MCProjectTasks ---------------------------
(***************************************************************************)
(* TLC instance of ProjectTasks: a project task that can be handed over    *)
(* twice, two requests about it, and one admin who decides and executes.   *)
(* Every row of the queue is about this task, and there is one fault or    *)
(* one edit by hand.                                                       *)
(***************************************************************************)
EXTENDS ProjectTasks, TLC

CONSTANTS e1, e2, a1, m1, m2

MCCompany == [t \in Deals |-> e1]

MCBounds ==
  /\ \A t \in Tasks : status[t] = "none" \/ t \in handed
  /\ faults + edits <= 1

MCSymmetry == Permutations(Members) \cup Permutations(Tasks)
=============================================================================
