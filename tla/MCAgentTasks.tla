---------------------------- MODULE MCAgentTasks ----------------------------
(***************************************************************************)
(* TLC instance of AgentTasks.  Rows: an errand and a CRM deal             *)
(* (or two CRM deals for the same company).                                *)
(***************************************************************************)
EXTENDS AgentTasks, TLC

CONSTANTS errand, deal1, deal2, acme, a1, a2, k1, k2

MCCompany == [t \in Deals |-> acme]

MCSymmetry == Permutations(Admins) \cup Permutations(Ticks)

(* One row at a time, from its insert; and both, inserted and edited, after *)
(* a fault.                                                                 *)
OneRow ==
  /\ faults = 0
  /\ data = [t \in Tasks |-> 0]
  /\ \E only \in Tasks : status = [t \in Tasks |-> IF t = only THEN "none" ELSE "deleted"]
AllRows ==
  /\ faults = MaxFaults - 1
  /\ data = [t \in Tasks |-> MaxEdits]
  /\ status = [t \in Tasks |-> "pending_approval"]

MCInit ==
  /\ deals = [c \in Companies |-> 0]
  /\ proc = [p \in Procs |-> Idle]
  /\ queue = [k \in Ticks |-> {}]
  /\ grants = [t \in Tasks |-> 0]
  /\ runs = [t \in Tasks |-> 0]
  /\ OneRow \/ AllRows

MCSpec == MCInit /\ [][Next]_vars /\ Fairness
=============================================================================
