---------------------------- MODULE ApprovalLedger ----------------------------
(***************************************************************************)
(* What the agent task queue promises, without its processes: an approval  *)
(* is spent by at most one execution.  Approving again a task whose        *)
(* approval is still unspent does not accumulate a second execution, and   *)
(* an approval can be withdrawn before it is spent.                        *)
(***************************************************************************)
EXTENDS Naturals

CONSTANT Tasks

VARIABLES
  unspent,  \* the tasks whose approval no execution has spent yet
  grants,   \* approvals given to each task
  runs      \* executions begun of each task

ledger == <<unspent, grants, runs>>

Init ==
  /\ unspent = {}
  /\ grants = [t \in Tasks |-> 0]
  /\ runs = [t \in Tasks |-> 0]

Count(f, t) == [f EXCEPT ![t] = @ + 1]

Approve(t) ==
  /\ unspent' = unspent \cup {t}
  /\ grants' = Count(grants, t)
  /\ UNCHANGED runs

Spend(t) ==
  /\ t \in unspent
  /\ unspent' = unspent \ {t}
  /\ runs' = Count(runs, t)
  /\ UNCHANGED grants

(* An inline approval is spent at once.                                     *)
ApproveAndSpend(t) ==
  /\ t \notin unspent
  /\ grants' = Count(grants, t)
  /\ runs' = Count(runs, t)
  /\ UNCHANGED unspent

Withdraw(T) ==
  /\ unspent' = unspent \ T
  /\ UNCHANGED <<grants, runs>>

Next ==
  \/ \E t \in Tasks : Approve(t) \/ Spend(t) \/ ApproveAndSpend(t)
  \/ \E T \in SUBSET Tasks : Withdraw(T)

Spec == Init /\ [][Next]_ledger
=============================================================================
