-------------------------- MODULE AgentTasksProofs --------------------------
(***************************************************************************)
(* Proofs about AgentTasks for any number of rows, admin requests and      *)
(* scheduler ticks.  The argument for OneRunPerApproval is the inductive   *)
(* invariant Backed: what was executed, plus the approval a row still      *)
(* holds while its status is 'approved', was granted.  Only two kinds of   *)
(* step matter: an approval, which raises grants, and the compare-and-set  *)
(* of claimAgentTask, which turns 'approved' into one execution.           *)
(* That a row approved once has one executor, which keeps it in hand, adds *)
(* the count of the handlers that have claimed it (ClaimsCounted).  That   *)
(* deals are paid for counts those about to create one (DealsCovered).     *)
(***************************************************************************)
EXTENDS AgentTasks, Totals, FiniteSetTheorems, TLAPS

USE TasksAssumption, BoundsAssumption

Held(t) == IF status[t] = "approved" THEN 1 ELSE 0
Backed == \A t \in Tasks : runs[t] + Held(t) <= grants[t]

(* What a step may do to the status, grants and runs of the rows, read off *)
(* the actions once so that the theorems need not look at them again.      *)
StatusStep(t) ==
  \/ (* nothing is released *)
     /\ grants'[t] = grants[t] /\ runs'[t] = runs[t]
     /\ status'[t] = status[t] \/ status'[t] \notin {"approved", "in_progress"}
  \/ (* an approval *)
     /\ grants'[t] = grants[t] + 1 /\ runs'[t] = runs[t]
     /\ status'[t] = "approved"
  \/ (* a claim of an approved row *)
     /\ grants'[t] = grants[t] /\ runs'[t] = runs[t] + 1
     /\ status[t] = "approved" /\ status'[t] = "in_progress"
  \/ (* an inline approval *)
     /\ grants'[t] = grants[t] + 1 /\ runs'[t] = runs[t] + 1
     /\ status[t] = "pending_approval" /\ status'[t] = "in_progress"

RowsOK ==
  /\ status \in [Tasks -> Status]
  /\ data \in [Tasks -> Nat]
  /\ grants \in [Tasks -> Nat]
  /\ runs \in [Tasks -> Nat]
  /\ faults \in Nat

LEMMA InitType == Init => TypeOK
BY DEF Init, TypeOK, Idle, Status, Live, PC, Op

(* The rows: every action leaves them, or rewrites them with values of the *)
(* right type.                                                             *)
LEMMA RowsType ==
  ASSUME TypeOK, Next
  PROVE  RowsOK'
<1> USE DEF RowsOK, TypeOK, Status, Live, SetStatus, Grant, Fault
<1>1. CASE RowChanges
  BY <1>1 DEF RowChanges, Create, CreateApproved, Reject, BulkDelete
<1>2. ASSUME NEW a \in Admins, AdminStarts(a)
      PROVE  RowsOK'
  BY <1>2 DEF AdminStarts, Approve, BeginUpdate, BeginCancel, BeginExecute, BeginInline
<1>3. ASSUME NEW a \in Admins, AdminContinues(a)
      PROVE  RowsOK'
  BY <1>3, SMTT(20) DEF AdminContinues, WriteUpdate, WriteCancel, WinClaim, LoseClaim, ClaimAgentTask,
              RunTask, LookUpDeal, CreateDeal, RecordOutcome, WriteLog, Outcome
<1>4. ASSUME NEW k \in Ticks, TickRead(k) \/ TickContinues(k)
      PROVE  RowsOK'
  BY <1>4, SMTT(20) DEF TickRead, TickContinues, TickClaim, TickSkip, ClaimAgentTask,
              RunTask, LookUpDeal, CreateDeal, TickRecord, WriteLog, TickCatchWrite, Outcome
<1>5. ASSUME NEW k \in Ticks, TickCatch(k) \/ TickAborts(k)
      PROVE  RowsOK'
  BY <1>5 DEF TickCatch, TickAborts
<1>6. ASSUME NEW p \in Procs, DealCatch(p) \/ RequestFails(p)
      PROVE  RowsOK'
  BY <1>6 DEF DealCatch, RequestFails
<1>7. CASE Restart
  BY <1>7 DEF Restart
<1>. HIDE DEF RowsOK, TypeOK, SetStatus, Fault, Grant
<1>. QED  BY <1>1, <1>2, <1>3, <1>4, <1>5, <1>6, <1>7 DEF Next, Failures, Procs

(* The handlers: where they are, what they hold, and the deals they made.  *)
HandlersOK ==
  /\ deals \in [Companies -> Nat]
  /\ proc \in [Procs -> [pc : PC, op : Op, task : Tasks \cup {NoTask}]]
  /\ queue \in [Ticks -> SUBSET Tasks]

LEMMA HandlersType ==
  ASSUME TypeOK, Next
  PROVE  HandlersOK'
<1> USE DEF HandlersOK, TypeOK, Procs, PC, Op, Idle, At, Goto, IsIdle
<1>1. CASE RowChanges
  BY <1>1 DEF RowChanges, Create, CreateApproved, Reject, BulkDelete
<1>2. ASSUME NEW a \in Admins, AdminStarts(a)
      PROVE  HandlersOK'
  BY <1>2 DEF AdminStarts, Approve, BeginUpdate, BeginCancel, BeginExecute, BeginInline
<1>3. ASSUME NEW a \in Admins, WriteUpdate(a) \/ WriteCancel(a) \/ LoseClaim(a) \/ RecordOutcome(a) \/ WriteLog(a)
      PROVE  HandlersOK'
  BY <1>3 DEF WriteUpdate, WriteCancel, LoseClaim, RecordOutcome, WriteLog
<1>4. ASSUME NEW a \in Admins, WinClaim(a)
      PROVE  HandlersOK'
  BY <1>4 DEF WinClaim
<1>5. ASSUME NEW p \in Procs, RunTask(p) \/ LookUpDeal(p) \/ CreateDeal(p)
      PROVE  HandlersOK'
  BY <1>5 DEF RunTask, LookUpDeal, CreateDeal
<1>6. ASSUME NEW k \in Ticks, TickRead(k)
      PROVE  HandlersOK'
  BY <1>6 DEF TickRead
<1>7. ASSUME NEW k \in Ticks, NEW t \in Tasks, TickClaim(k, t) \/ TickSkip(k, t)
      PROVE  HandlersOK'
  BY <1>7, SMTT(30) DEF TickClaim, TickSkip
<1>8. ASSUME NEW k \in Ticks, TickRecord(k) \/ WriteLog(k) \/ TickCatch(k) \/ TickCatchWrite(k) \/ TickAborts(k)
      PROVE  HandlersOK'
  BY <1>8 DEF TickRecord, WriteLog, TickCatch, TickCatchWrite, TickAborts
<1>9. ASSUME NEW p \in Procs, DealCatch(p) \/ RequestFails(p)
      PROVE  HandlersOK'
  BY <1>9 DEF DealCatch, RequestFails
<1>10. CASE Restart
  BY <1>10 DEF Restart
<1>. HIDE DEF HandlersOK, TypeOK, Goto
<1>. QED  BY <1>1, <1>2, <1>3, <1>4, <1>5, <1>6, <1>7, <1>8, <1>9, <1>10
          DEF Next, AdminContinues, TickContinues, Failures, Procs

(* Type correctness: no handler, error path or restart leaves a value that *)
(* the columns and the handlers' local variables cannot hold.              *)
THEOREM TypeCorrect == Spec => []TypeOK
<1>1. TypeOK /\ [Next]_vars => TypeOK'
  <2> SUFFICES ASSUME TypeOK, [Next]_vars
               PROVE  TypeOK'
    OBVIOUS
  <2>1. CASE Next
    <3>1. RowsOK' /\ HandlersOK'
      BY <2>1, RowsType, HandlersType
    <3>. QED  BY <3>1 DEF RowsOK, HandlersOK, TypeOK
  <2>2. CASE UNCHANGED vars
    BY <2>2 DEF TypeOK, vars
  <2>. QED  BY <2>1, <2>2
<1>. QED  BY InitType, <1>1, PTL DEF Spec

-----------------------------------------------------------------------------
(* Every step is one of the four kinds of StatusStep for every row.        *)
LEMMA EveryStep ==
  ASSUME TypeOK, [Next]_vars, NEW t \in Tasks
  PROVE  StatusStep(t)
<1> USE DEF StatusStep, TypeOK, Status, Live, SetStatus, Grant
<1>1. CASE RowChanges
  <2>1. ASSUME NEW u \in Tasks, Create(u) \/ CreateApproved(u) \/ Reject(u)
        PROVE  StatusStep(t)
    BY <2>1 DEF Create, CreateApproved, Reject
  <2>2. CASE BulkDelete
    BY <2>2 DEF BulkDelete
  <2>. QED  BY <1>1, <2>1, <2>2 DEF RowChanges
<1>2. ASSUME NEW a \in Admins, AdminStarts(a)
      PROVE  StatusStep(t)
  BY <1>2 DEF AdminStarts, Approve, BeginUpdate, BeginCancel, BeginExecute, BeginInline
<1>3. ASSUME NEW a \in Admins, WinClaim(a)
      PROVE  StatusStep(t)
  BY <1>3 DEF WinClaim, ClaimAgentTask
<1>4. ASSUME NEW p \in Procs, RunTask(p) \/ LookUpDeal(p) \/ CreateDeal(p)
      PROVE  StatusStep(t)
  BY <1>4 DEF RunTask, LookUpDeal, CreateDeal
<1>5. ASSUME NEW a \in Admins, WriteUpdate(a) \/ WriteCancel(a) \/ LoseClaim(a) \/ RecordOutcome(a) \/ WriteLog(a)
      PROVE  StatusStep(t)
  BY <1>5 DEF WriteUpdate, WriteCancel, LoseClaim, RecordOutcome, WriteLog, Outcome
<1>6. ASSUME NEW k \in Ticks, NEW u \in Tasks, TickClaim(k, u) \/ TickSkip(k, u)
      PROVE  StatusStep(t)
  BY <1>6 DEF TickClaim, TickSkip, ClaimAgentTask
<1>7. ASSUME NEW k \in Ticks, TickRead(k) \/ TickRecord(k) \/ WriteLog(k) \/ TickCatch(k) \/ TickCatchWrite(k) \/ TickAborts(k)
      PROVE  StatusStep(t)
  BY <1>7 DEF TickRead, TickRecord, WriteLog, TickCatch, TickCatchWrite, TickAborts, Outcome
<1>8. ASSUME NEW p \in Procs, DealCatch(p) \/ RequestFails(p)
      PROVE  StatusStep(t)
  BY <1>8 DEF DealCatch, RequestFails
<1>9. CASE Restart
  BY <1>9 DEF Restart
<1>10. CASE UNCHANGED vars
  BY <1>10 DEF vars
<1>. HIDE DEF StatusStep, TypeOK, SetStatus, Grant
<1>. QED  BY <1>1, <1>2, <1>3, <1>4, <1>5, <1>6, <1>7, <1>8, <1>9, <1>10
          DEF Next, AdminContinues, TickContinues, Failures, Procs

LEMMA BackedStep == TypeOK /\ Backed /\ [Next]_vars => Backed'
<1> SUFFICES ASSUME TypeOK, Backed, [Next]_vars, NEW t \in Tasks
             PROVE  runs'[t] + Held(t)' <= grants'[t]
  BY DEF Backed
<1>1. StatusStep(t)
  BY EveryStep
<1>2. runs[t] \in Nat /\ grants[t] \in Nat /\ runs[t] + Held(t) <= grants[t]
  BY DEF TypeOK, Backed
<1>. QED  BY <1>1, <1>2 DEF StatusStep, Held

(* No row is ever executed more often than it was approved, whatever the   *)
(* number of rows, requests and ticks: Backed is inductive, and a claim    *)
(* raises runs only where Held drops from 1 to 0.                          *)
THEOREM RunsAreApproved == Spec => []OneRunPerApproval
<1>1. Init => Backed
  BY DEF Init, Backed, Held
<1>2. TypeOK /\ Backed /\ [Next]_vars => Backed'
  BY BackedStep
<1>3. TypeOK /\ Backed => OneRunPerApproval
  BY DEF TypeOK, Backed, Held, OneRunPerApproval
<1>. QED  BY <1>1, <1>2, <1>3, TypeCorrect, PTL DEF Spec

(* A row enters 'approved' or 'in_progress' from any other status only by  *)
(* a step that approves it: recording, cancelling, the catch blocks and a  *)
(* restart never put a row back in line.                                   *)
THEOREM ApprovalReleases == Spec => OnlyApprovalReleases
<1>1. ASSUME TypeOK, [Next]_vars
      PROVE  [\A t \in Tasks :
                status[t] \notin {"approved", "in_progress"} /\ status'[t] \in {"approved", "in_progress"}
                  => grants'[t] = grants[t] + 1]_vars
  <2>1. ASSUME NEW t \in Tasks,
               status[t] \notin {"approved", "in_progress"}, status'[t] \in {"approved", "in_progress"}
        PROVE  grants'[t] = grants[t] + 1
    <3>1. StatusStep(t)
      BY <1>1, EveryStep
    <3>. QED  BY <3>1, <2>1 DEF StatusStep
  <2>. QED  BY <2>1
<1>. QED  BY <1>1, TypeCorrect, PTL DEF Spec, OnlyApprovalReleases

-----------------------------------------------------------------------------
(* Refinement.  A step of the queue changes grants, runs and the set of    *)
(* approved rows the way one action of the ledger does.                    *)
Unspent == {t \in Tasks : status[t] = "approved"}

(* Only one row at a time is approved or claimed.                          *)
OneAtATime ==
  \/ grants' = grants /\ runs' = runs /\ Unspent' \subseteq Unspent
  \/ \E t \in Tasks :
       /\ \A u \in Tasks \ {t} : status'[u] = status[u]
       /\ \/ status'[t] = "approved"
             /\ grants' = [grants EXCEPT ![t] = @ + 1] /\ runs' = runs
          \/ status[t] = "approved" /\ status'[t] = "in_progress"
             /\ grants' = grants /\ runs' = [runs EXCEPT ![t] = @ + 1]
          \/ status[t] = "pending_approval" /\ status'[t] = "in_progress"
             /\ grants' = [grants EXCEPT ![t] = @ + 1] /\ runs' = [runs EXCEPT ![t] = @ + 1]

LEMMA StepsOneAtATime ==
  ASSUME TypeOK, [Next]_vars
  PROVE  OneAtATime
<1> USE DEF OneAtATime, Unspent, TypeOK, Status, Live, SetStatus, Grant
<1>1. ASSUME NEW t \in Tasks, CreateApproved(t)
      PROVE  OneAtATime
  BY <1>1 DEF CreateApproved
<1>2. ASSUME NEW t \in Tasks, Create(t) \/ Reject(t)
      PROVE  OneAtATime
  BY <1>2 DEF Create, Reject
<1>3. CASE BulkDelete
  BY <1>3 DEF BulkDelete
<1>4. ASSUME NEW a \in Admins, NEW t \in Tasks, Approve(a, t)
      PROVE  OneAtATime
  BY <1>4 DEF Approve
<1>5. ASSUME NEW a \in Admins, NEW t \in Tasks,
             BeginUpdate(a, t) \/ BeginCancel(a, t) \/ BeginExecute(a, t) \/ BeginInline(a, t)
      PROVE  OneAtATime
  BY <1>5 DEF BeginUpdate, BeginCancel, BeginExecute, BeginInline
<1>6. ASSUME NEW a \in Admins, WinClaim(a)
      PROVE  OneAtATime
  <2>1. CASE proc[a].task \in Tasks
    BY <1>6, <2>1 DEF WinClaim, ClaimAgentTask
  <2>2. CASE proc[a].task \notin Tasks
    <3>1. UNCHANGED <<status, grants, runs>>
      BY <1>6, <2>2 DEF WinClaim, ClaimAgentTask
    <3>. QED  BY <3>1
  <2>. QED  BY <2>1, <2>2
<1>7. ASSUME NEW k \in Ticks, NEW t \in Tasks, TickClaim(k, t)
      PROVE  OneAtATime
  BY <1>7 DEF TickClaim, ClaimAgentTask
<1>8. ASSUME NEW p \in Procs, RunTask(p) \/ LookUpDeal(p) \/ CreateDeal(p)
      PROVE  OneAtATime
  BY <1>8 DEF RunTask, LookUpDeal, CreateDeal
<1>9. ASSUME NEW a \in Admins, WriteUpdate(a) \/ WriteCancel(a) \/ LoseClaim(a) \/ RecordOutcome(a) \/ WriteLog(a)
      PROVE  OneAtATime
  BY <1>9 DEF WriteUpdate, WriteCancel, LoseClaim, RecordOutcome, WriteLog, Outcome
<1>10. ASSUME NEW k \in Ticks, TickRead(k) \/ TickRecord(k) \/ WriteLog(k) \/ TickCatch(k) \/ TickCatchWrite(k) \/ TickAborts(k)
       PROVE  OneAtATime
  BY <1>10 DEF TickRead, TickRecord, WriteLog, TickCatch, TickCatchWrite, TickAborts, Outcome
<1>11. ASSUME NEW k \in Ticks, NEW t \in Tasks, TickSkip(k, t)
       PROVE  OneAtATime
  BY <1>11 DEF TickSkip
<1>12. ASSUME NEW p \in Procs, DealCatch(p) \/ RequestFails(p)
       PROVE  OneAtATime
  BY <1>12 DEF DealCatch, RequestFails
<1>13. CASE Restart
  BY <1>13 DEF Restart
<1>14. CASE UNCHANGED vars
  BY <1>14 DEF vars
<1>. HIDE DEF OneAtATime, TypeOK, SetStatus, Grant
<1>. QED  BY <1>1, <1>2, <1>3, <1>4, <1>5, <1>6, <1>7, <1>8, <1>9, <1>10, <1>11, <1>12, <1>13, <1>14
          DEF Next, RowChanges, AdminStarts, AdminContinues, TickContinues, Failures, Procs

(* The queue implements the ledger: with the approved rows as the unspent  *)
(* approvals, every step of the queue is a step of the ledger or a stutter.*)
THEOREM QueueImplementsLedger == Spec => ImplementsLedger
<1>1. Init => Ledger!Init
  BY DEF Init, Ledger!Init
<1>2. TypeOK /\ [Next]_vars => [Ledger!Next]_(Ledger!ledger)
  <2> SUFFICES ASSUME TypeOK, [Next]_vars
               PROVE  [Ledger!Next]_(Ledger!ledger)
    OBVIOUS
  <2>1. OneAtATime
    BY StepsOneAtATime
  <2>. USE DEF TypeOK, Unspent, Ledger!Next, Ledger!Count
  <2>2. CASE grants' = grants /\ runs' = runs /\ Unspent' \subseteq Unspent
    <3>1. PICK T \in SUBSET Tasks : Unspent' = Unspent \ T
      <4>. DEFINE withdrawn == {t \in Tasks : t \in Unspent /\ t \notin Unspent'}
      <4>1. withdrawn \in SUBSET Tasks /\ Unspent' = Unspent \ withdrawn
        BY <2>2
      <4>. HIDE DEF withdrawn
      <4>. QED  BY <4>1
    <3>2. Ledger!Withdraw(T)
      BY <2>2, <3>1 DEF Ledger!Withdraw
    <3>. QED  BY <3>2
  <2>3. ASSUME NEW t \in Tasks, \A u \in Tasks \ {t} : status'[u] = status[u],
               status'[t] = "approved", grants' = [grants EXCEPT ![t] = @ + 1], runs' = runs
        PROVE  [Ledger!Next]_(Ledger!ledger)
    <3>1. Ledger!Approve(t)
      BY <2>3 DEF Ledger!Approve
    <3>. QED  BY <3>1
  <2>4. ASSUME NEW t \in Tasks, \A u \in Tasks \ {t} : status'[u] = status[u],
               status[t] = "approved", status'[t] = "in_progress",
               grants' = grants, runs' = [runs EXCEPT ![t] = @ + 1]
        PROVE  [Ledger!Next]_(Ledger!ledger)
    <3>1. Ledger!Spend(t)
      BY <2>4 DEF Ledger!Spend
    <3>. QED  BY <3>1
  <2>5. ASSUME NEW t \in Tasks, \A u \in Tasks \ {t} : status'[u] = status[u],
               status[t] = "pending_approval", status'[t] = "in_progress",
               grants' = [grants EXCEPT ![t] = @ + 1], runs' = [runs EXCEPT ![t] = @ + 1]
        PROVE  [Ledger!Next]_(Ledger!ledger)
    <3>1. Ledger!ApproveAndSpend(t)
      BY <2>5 DEF Ledger!ApproveAndSpend
    <3>. QED  BY <3>1
  <2>. QED  BY <2>1, <2>2, <2>3, <2>4, <2>5 DEF OneAtATime
<1>. QED  BY <1>1, <1>2, TypeCorrect, PTL DEF Spec, ImplementsLedger, Ledger!Spec

-----------------------------------------------------------------------------
(* Executors.  A process that won the claim of t holds it until it has      *)
(* recorded, logged or given up: there are no more of them than claims won. *)
Executing == {"run", "create", "ok", "fail", "log", "catch"}
Claimed(t) ==
  {p \in Procs : proc[p].task = t /\ proc[p].op \in {"execute", "inline", "tick"} /\ proc[p].pc \in Executing}
ClaimsCounted == \A t \in Tasks : IsFiniteSet(Claimed(t)) /\ Cardinality(Claimed(t)) <= runs[t]

(* Who executes has claimed the row, or works on a deal that approve itself *)
(* creates.                                                                 *)
Known(s) ==
  /\ s.op = "approve" => s.task \in Deals
  /\ s.pc \in Executing => s.op \in {"approve", "execute", "inline", "tick"}
  /\ s.pc # "idle" => s.task \in Tasks
ExecutorsKnown == \A p \in Procs : Known(proc[p])

InHand == {"in_progress", "rejected", "cancelled", "deleted"}
RunnersSeen == \A t \in Tasks \ Deals : grants[t] = 1 /\ Running(t) # {} => status[t] \in InHand

ProcType == [pc : PC, op : Op, task : Tasks \cup {NoTask}]
LEMMA ProcTyped == TypeOK => proc \in [Procs -> ProcType]
BY DEF TypeOK, ProcType

(* A step moves one handler, or stops them all: p begins something new, goes*)
(* on with what it does, or is done.                                        *)
GoesOn(p, s) == s.task = proc[p].task /\ s.op = proc[p].op /\ proc[p].pc \in Executing
                /\ (s.pc \in {"run", "create", "ok", "fail"} =>
                      proc[p].pc \in {"run", "create", "ok", "fail"} \/ proc[p].op = "approve")
HandlerStep ==
  \/ proc' = proc
  \/ \A p \in Procs : proc'[p] = Idle
  \/ \E p \in Procs : proc'[p] = Idle /\ \A q \in Procs \ {p} : proc'[q] = proc[q]
  \/ \E p \in Procs : GoesOn(p, proc'[p]) /\ \A q \in Procs \ {p} : proc'[q] = proc[q]
  \/ \E p \in Procs, t \in Tasks :
       /\ \A q \in Procs \ {p} : proc'[q] = proc[q]
       /\ proc'[p].task = t /\ proc[p].pc \in {"idle", "claim"}
       /\ \/ proc'[p].pc \in {"claim", "edit", "cancel"} /\ proc'[p].op \in {"execute", "inline", "update", "cancel"}
          \/ proc'[p].pc = "run" /\ proc'[p].op = "approve" /\ t \in Deals
          \/ proc'[p].pc = "run" /\ proc'[p].op \in {"execute", "inline", "tick"} /\ runs'[t] = runs[t] + 1

LEMMA EveryHandlerStep ==
  ASSUME TypeOK, ExecutorsKnown, [Next]_vars
  PROVE  HandlerStep
<1>. proc \in [Procs -> ProcType] /\ \A p \in Procs : proc[p] \in ProcType /\ Known(proc[p])
  BY ProcTyped DEF ExecutorsKnown
<1>. USE DEF Goto, At, Idle, IsIdle, ProcType, Executing
<1>1. ASSUME RowChanges
      PROVE  HandlerStep
  BY <1>1 DEF RowChanges, Create, CreateApproved, Reject, BulkDelete, HandlerStep
<1>2. ASSUME NEW a \in Procs, NEW t \in Tasks, Approve(a, t)
      PROVE  HandlerStep
  <2>1. CASE t \in Deals
    <3>1. proc'[a] = At("run", "approve", t) /\ proc[a].pc = "idle" /\ \A q \in Procs \ {a} : proc'[q] = proc[q]
      BY <1>2, <2>1 DEF Approve
    <3>. QED  BY <2>1, <3>1 DEF HandlerStep
  <2>2. CASE t \notin Deals
    <3>1. proc' = proc
      BY <1>2, <2>2 DEF Approve
    <3>. QED  BY <3>1 DEF HandlerStep
  <2>. QED  BY <2>1, <2>2
<1>3. ASSUME NEW a \in Procs, NEW t \in Tasks,
             BeginUpdate(a, t) \/ BeginCancel(a, t) \/ BeginExecute(a, t) \/ BeginInline(a, t)
      PROVE  HandlerStep
  <2>1. /\ proc'[a] \in {At("edit", "update", t), At("cancel", "cancel", t), At("claim", "execute", t), At("claim", "inline", t)}
        /\ proc[a].pc = "idle" /\ \A q \in Procs \ {a} : proc'[q] = proc[q]
    BY <1>3 DEF BeginUpdate, BeginCancel, BeginExecute, BeginInline
  <2>. QED  BY <2>1 DEF HandlerStep
<1>4. ASSUME NEW p \in Procs, proc' = [proc EXCEPT ![p] = Idle]
      PROVE  HandlerStep
  BY <1>4 DEF HandlerStep
<1>5. ASSUME NEW a \in Procs, WinClaim(a)
      PROVE  HandlerStep
  <2>. DEFINE t == proc[a].task
  <2>1. t \in Tasks /\ proc[a].pc = "claim" /\ proc[a].op \in {"execute", "inline"}
    BY <1>5 DEF WinClaim, Known
  <2>2. runs'[t] = runs[t] + 1
    BY <1>5, <2>1 DEF WinClaim, ClaimAgentTask, TypeOK
  <2>3. proc'[a] = At("run", proc[a].op, t) /\ \A q \in Procs \ {a} : proc'[q] = proc[q]
    BY <1>5 DEF WinClaim
  <2>. QED  BY <2>1, <2>2, <2>3 DEF HandlerStep
<1>6. ASSUME NEW k \in Procs, NEW t \in Tasks, TickClaim(k, t)
      PROVE  HandlerStep
  <2>1. proc[k].pc = "idle" /\ runs'[t] = runs[t] + 1
    BY <1>6 DEF TickClaim, ClaimAgentTask, TypeOK
  <2>2. proc'[k] = At("run", "tick", t) /\ \A q \in Procs \ {k} : proc'[q] = proc[q]
    BY <1>6 DEF TickClaim
  <2>. QED  BY <2>1, <2>2 DEF HandlerStep
<1>7. ASSUME NEW p \in Procs, NEW pc \in {"create", "ok", "fail", "log", "catch"},
             proc[p].pc \in Executing,
             pc \in {"log", "catch"} \/ proc[p].pc \in {"run", "create", "ok", "fail"} \/ proc[p].op = "approve",
             proc' = [proc EXCEPT ![p] = [proc[p] EXCEPT !.pc = pc]]
      PROVE  HandlerStep
  <2>1. proc'[p].task = proc[p].task /\ proc'[p].op = proc[p].op /\ proc'[p].pc = pc /\ \A q \in Procs \ {p} : proc'[q] = proc[q]
    BY <1>7
  <2>. QED  BY <1>7, <2>1 DEF HandlerStep, GoesOn
<1>. HIDE DEF At, Idle, ProcType
<1>8. ASSUME NEW p \in Procs, RunTask(p) \/ LookUpDeal(p) \/ CreateDeal(p)
      PROVE  HandlerStep
  BY <1>4, <1>7, <1>8 DEF RunTask, LookUpDeal, CreateDeal
<1>9. ASSUME NEW a \in Procs, WriteUpdate(a) \/ WriteCancel(a) \/ LoseClaim(a) \/ RecordOutcome(a) \/ WriteLog(a)
      PROVE  HandlerStep
  BY <1>4, <1>7, <1>9 DEF WriteUpdate, WriteCancel, LoseClaim, RecordOutcome, WriteLog
<1>10. ASSUME NEW k \in Procs, TickRecord(k) \/ TickCatch(k) \/ TickCatchWrite(k) \/ TickAborts(k)
       PROVE  HandlerStep
  BY <1>4, <1>7, <1>10 DEF TickRecord, TickCatch, TickCatchWrite, TickAborts
<1>11. ASSUME NEW k \in Ticks, TickRead(k) \/ \E t \in Tasks : TickSkip(k, t)
       PROVE  HandlerStep
  BY <1>11 DEF TickRead, TickSkip, HandlerStep
<1>12. ASSUME NEW p \in Procs, DealCatch(p) \/ RequestFails(p)
       PROVE  HandlerStep
  BY <1>4, <1>7, <1>12 DEF DealCatch, RequestFails
<1>13. ASSUME Restart
       PROVE  HandlerStep
  BY <1>13 DEF Restart, HandlerStep
<1>14. ASSUME UNCHANGED vars
       PROVE  HandlerStep
  BY <1>14 DEF vars, HandlerStep
<1>. QED
  <2>1. ASSUME NEW a \in Admins, AdminStarts(a) \/ AdminContinues(a)
        PROVE  HandlerStep
    BY <2>1, <1>2, <1>3, <1>5, <1>8, <1>9, Zenon DEF AdminStarts, AdminContinues, Procs
  <2>2. ASSUME NEW k \in Ticks, TickRead(k) \/ TickContinues(k)
        PROVE  HandlerStep
    BY <2>2, <1>6, <1>8, <1>9, <1>10, <1>11, Zenon DEF TickContinues, Procs
  <2>3. ASSUME Failures
        PROVE  HandlerStep
    BY <2>3, <1>10, <1>12, <1>13, Zenon DEF Failures, Procs
  <2>4. Next \/ UNCHANGED vars
    OBVIOUS
  <2>. QED  BY <2>1, <2>2, <2>3, <2>4, <1>1, <1>14, Zenon DEF Next

LEMMA KnownStep ==
  ASSUME TypeOK, ExecutorsKnown, [Next]_vars
  PROVE  ExecutorsKnown'
<1>. SUFFICES ASSUME NEW q \in Procs
              PROVE  Known(proc'[q])
  BY DEF ExecutorsKnown
<1>1. Known(proc[q]) /\ proc[q] \in ProcType
  BY ProcTyped DEF ExecutorsKnown
<1>2. HandlerStep
  BY EveryHandlerStep
<1>3. Known(Idle)
  BY DEF Known, Idle, Executing
<1>4. ASSUME GoesOn(q, proc'[q])
      PROVE  Known(proc'[q])
  BY <1>1, <1>4 DEF Known, GoesOn, Executing
<1>5. ASSUME NEW t \in Tasks, proc'[q].task = t,
             \/ proc'[q].pc \in {"claim", "edit", "cancel"} /\ proc'[q].op \in {"execute", "inline", "update", "cancel"}
             \/ proc'[q].pc = "run" /\ proc'[q].op = "approve" /\ t \in Deals
             \/ proc'[q].pc = "run" /\ proc'[q].op \in {"execute", "inline", "tick"}
      PROVE  Known(proc'[q])
  BY <1>5 DEF Known, Executing
<1>. QED  BY <1>1, <1>2, <1>3, <1>4, <1>5 DEF HandlerStep

(* A step wins at most one claim of t, and counts it.                       *)
LEMMA ClaimStep ==
  ASSUME TypeOK, ExecutorsKnown, [Next]_vars, NEW t \in Tasks
  PROVE  \/ Claimed(t)' \subseteq Claimed(t) /\ Running(t)' \subseteq Running(t)
         \/ \E p \in Procs : Claimed(t)' = Claimed(t) \cup {p} /\ runs'[t] = runs[t] + 1
<1>. USE DEF Claimed, Running, Executing
<1>1. HandlerStep
  BY EveryHandlerStep
<1>2. CASE proc' = proc
  BY <1>2
<1>3. CASE \A p \in Procs : proc'[p] = Idle
  BY <1>3 DEF Idle
<1>4. ASSUME NEW p \in Procs, proc'[p] = Idle, \A q \in Procs \ {p} : proc'[q] = proc[q]
      PROVE  Claimed(t)' \subseteq Claimed(t) /\ Running(t)' \subseteq Running(t)
  BY <1>4 DEF Idle
<1>5. ASSUME NEW p \in Procs, GoesOn(p, proc'[p]), \A q \in Procs \ {p} : proc'[q] = proc[q]
      PROVE  Claimed(t)' \subseteq Claimed(t) /\ Running(t)' \subseteq Running(t)
  BY <1>5 DEF GoesOn
<1>6. ASSUME NEW p \in Procs, NEW u \in Tasks, \A q \in Procs \ {p} : proc'[q] = proc[q],
             proc'[p].task = u, proc[p].pc \in {"idle", "claim"},
             \/ proc'[p].pc \in {"claim", "edit", "cancel"} /\ proc'[p].op \in {"execute", "inline", "update", "cancel"}
             \/ proc'[p].pc = "run" /\ proc'[p].op = "approve" /\ u \in Deals
      PROVE  Claimed(t)' \subseteq Claimed(t) /\ Running(t)' \subseteq Running(t)
  BY <1>6
<1>7. ASSUME NEW p \in Procs, NEW u \in Tasks, \A q \in Procs \ {p} : proc'[q] = proc[q],
             proc'[p].task = u, proc[p].pc \in {"idle", "claim"},
             proc'[p].pc = "run", proc'[p].op \in {"execute", "inline", "tick"}, runs'[u] = runs[u] + 1
      PROVE  \/ Claimed(t)' \subseteq Claimed(t) /\ Running(t)' \subseteq Running(t)
             \/ Claimed(t)' = Claimed(t) \cup {p} /\ runs'[t] = runs[t] + 1
  BY <1>7
<1>. HIDE DEF Claimed, Running
<1>. QED  BY <1>1, <1>2, <1>3, <1>4, <1>5, <1>6, <1>7 DEF HandlerStep

LEMMA CountedStep ==
  ASSUME TypeOK, ExecutorsKnown, ClaimsCounted, [Next]_vars
  PROVE  ClaimsCounted'
<1>. SUFFICES ASSUME NEW t \in Tasks
              PROVE  IsFiniteSet(Claimed(t)') /\ Cardinality(Claimed(t)') <= runs'[t]
  BY DEF ClaimsCounted
<1>1. IsFiniteSet(Claimed(t)) /\ Cardinality(Claimed(t)) <= runs[t] /\ runs[t] \in Nat /\ Cardinality(Claimed(t)) \in Nat
  BY FS_CardinalityType DEF ClaimsCounted, TypeOK
<1>2. runs'[t] \in Nat /\ runs'[t] >= runs[t]
  <2>1. StatusStep(t)
    BY EveryStep
  <2>. QED  BY <1>1, <2>1 DEF StatusStep
<1>3. CASE Claimed(t)' \subseteq Claimed(t)
  <2>1. IsFiniteSet(Claimed(t)') /\ Cardinality(Claimed(t)') <= Cardinality(Claimed(t))
    BY <1>1, <1>3, FS_Subset
  <2>2. Cardinality(Claimed(t)') \in Nat
    BY <2>1, FS_CardinalityType
  <2>. QED  BY <1>1, <1>2, <2>1, <2>2
<1>4. ASSUME NEW p \in Procs, Claimed(t)' = Claimed(t) \cup {p}, runs'[t] = runs[t] + 1
      PROVE  IsFiniteSet(Claimed(t)') /\ Cardinality(Claimed(t)') <= runs'[t]
  <2>1. /\ IsFiniteSet(Claimed(t) \cup {p})
        /\ \/ Cardinality(Claimed(t) \cup {p}) = Cardinality(Claimed(t))
           \/ Cardinality(Claimed(t) \cup {p}) = Cardinality(Claimed(t)) + 1
    BY <1>1, FS_AddElement
  <2>. QED  BY <1>1, <1>4, <2>1
<1>. QED  BY <1>3, <1>4, ClaimStep

(* Two claims of a row that was approved once there cannot be.              *)
LEMMA OneClaim ==
  ASSUME TypeOK, Backed, ClaimsCounted, NEW t \in Tasks, grants[t] = 1,
         NEW p \in Claimed(t), NEW q \in Claimed(t)
  PROVE  p = q /\ status[t] # "approved"
<1>1. IsFiniteSet(Claimed(t)) /\ Cardinality(Claimed(t)) \in Nat
  BY FS_CardinalityType DEF ClaimsCounted
<1>2. runs[t] \in Nat /\ runs[t] + Held(t) <= 1 /\ Cardinality(Claimed(t)) <= runs[t]
  BY DEF ClaimsCounted, Backed, TypeOK
<1>3. Cardinality(Claimed(t)) # 0
  BY <1>1, FS_EmptySet
<1>4. Cardinality(Claimed(t)) = 1 /\ Held(t) = 0
  BY <1>1, <1>2, <1>3 DEF Held
<1>5. \E x : Claimed(t) = {x}
  BY <1>1, <1>4, FS_Singleton
<1>. QED  BY <1>4, <1>5 DEF Held

(* A row changes hands by an approval or a claim, is withdrawn, or is       *)
(* written by a handler that has finished executing it.                     *)
LEMMA RowWritten ==
  ASSUME TypeOK, ExecutorsKnown, [Next]_vars, NEW t \in Tasks
  PROVE  \/ status'[t] = status[t] \/ status[t] = "none"
         \/ status'[t] \in InHand \cup {"approved"}
         \/ \E p \in Procs : /\ proc[p].task = t /\ proc[p].pc \in {"ok", "fail", "catch"}
                             /\ proc'[p].pc \notin {"run", "create", "ok", "fail"}
<1>. DEFINE Goal == \/ status'[t] = status[t] \/ status[t] = "none"
                    \/ status'[t] \in InHand \cup {"approved"}
                    \/ \E p \in Procs : /\ proc[p].task = t /\ proc[p].pc \in {"ok", "fail", "catch"}
                                        /\ proc'[p].pc \notin {"run", "create", "ok", "fail"}
<1>. SUFFICES Goal
  OBVIOUS
<1>. status \in [Tasks -> Status] /\ proc \in [Procs -> ProcType]
  BY ProcTyped DEF TypeOK
<1>. USE DEF InHand, SetStatus
<1>1. ASSUME UNCHANGED status
      PROVE  Goal
  BY <1>1
<1>2. ASSUME RowChanges
      PROVE  Goal
  BY <1>2 DEF RowChanges, Create, CreateApproved, Reject, BulkDelete
<1>3. ASSUME NEW a \in Procs, NEW u \in Tasks, Approve(a, u)
      PROVE  Goal
  BY <1>3 DEF Approve
<1>4. ASSUME NEW a \in Procs, WriteCancel(a) \/ WinClaim(a)
      PROVE  Goal
  BY <1>4 DEF WriteCancel, WinClaim, ClaimAgentTask
<1>5. ASSUME NEW p \in Procs, RecordOutcome(p) \/ TickRecord(p) \/ TickCatchWrite(p)
      PROVE  Goal
  <2>1. proc[p].pc \in {"ok", "fail", "catch"} /\ proc'[p].pc \notin {"run", "create", "ok", "fail"}
    BY <1>5 DEF RecordOutcome, TickRecord, TickCatchWrite, Goto, Idle, ProcType
  <2>2. CASE proc[p].task = t
    BY <2>1, <2>2
  <2>3. CASE proc[p].task # t
    BY <1>5, <2>3 DEF RecordOutcome, TickRecord, TickCatchWrite
  <2>. QED  BY <2>2, <2>3
<1>6. ASSUME NEW k \in Procs, NEW u \in Tasks, TickClaim(k, u)
      PROVE  Goal
  BY <1>6 DEF TickClaim, ClaimAgentTask
<1>. HIDE DEF InHand, SetStatus, Goal
<1>7. ASSUME NEW a \in Admins, AdminStarts(a) \/ AdminContinues(a)
      PROVE  Goal
  BY <1>7, <1>1, <1>3, <1>4, <1>5, Zenon
  DEF AdminStarts, AdminContinues, Procs, BeginUpdate, BeginCancel, BeginExecute, BeginInline,
      WriteUpdate, LoseClaim, RunTask, LookUpDeal, CreateDeal, WriteLog
<1>8. ASSUME NEW k \in Ticks, TickRead(k) \/ TickContinues(k)
      PROVE  Goal
  BY <1>8, <1>1, <1>5, <1>6, Zenon
  DEF TickRead, TickContinues, Procs, TickSkip, RunTask, LookUpDeal, CreateDeal, WriteLog
<1>9. ASSUME Failures
      PROVE  Goal
  BY <1>9, <1>1, Zenon DEF Failures, TickCatch, TickAborts, DealCatch, RequestFails, Restart
<1>10. Next \/ UNCHANGED vars
  OBVIOUS
<1>11. UNCHANGED vars => UNCHANGED status
  BY DEF vars
<1>. QED  BY <1>1, <1>2, <1>7, <1>8, <1>9, <1>10, <1>11, Zenon DEF Next

(* Whoever executes a row approved once keeps it in hand: a second claim or *)
(* another recorder would need a second approval.                           *)
LEMMA SeenStep ==
  ASSUME TypeOK, Backed, ExecutorsKnown, ClaimsCounted, RunnersSeen, [Next]_vars
  PROVE  RunnersSeen'
<1>. SUFFICES ASSUME NEW t \in Tasks, t \notin Deals, grants'[t] = 1, NEW q \in Running(t)'
              PROVE  status'[t] \in InHand
  BY DEF RunnersSeen
<1>. /\ Backed' /\ ExecutorsKnown' /\ ClaimsCounted'
     /\ runs[t] \in Nat /\ grants[t] \in Nat /\ runs[t] + Held(t) <= grants[t]
  BY BackedStep, KnownStep, CountedStep DEF TypeOK, Backed
<1>1. q \in Claimed(t)' /\ Running(t)' \subseteq Claimed(t)' /\ Running(t) \subseteq Claimed(t)
  BY DEF Running, Claimed, Executing
<1>2. runs'[t] \in Nat /\ runs'[t] >= 1
  <2>1. IsFiniteSet(Claimed(t)') /\ Cardinality(Claimed(t)') <= runs'[t] /\ Cardinality(Claimed(t)') \in Nat
    BY FS_CardinalityType DEF ClaimsCounted
  <2>2. Cardinality(Claimed(t)') # 0
    BY <1>1, <2>1, FS_EmptySet
  <2>3. runs'[t] \in Nat
    BY EveryStep DEF StatusStep
  <2>. QED  BY <2>1, <2>2, <2>3
<1>3. status'[t] # "approved"
  <2>1. runs'[t] + Held(t)' <= 1
    BY DEF Backed
  <2>. QED  BY <1>2, <2>1 DEF Held
<1>4. CASE status'[t] = "in_progress"
  BY <1>4 DEF InHand
<1>5. CASE grants'[t] = grants[t] /\ runs'[t] = runs[t] /\ status'[t] # "in_progress"
  <2>1. Claimed(t)' \subseteq Claimed(t) /\ Running(t)' \subseteq Running(t)
    BY <1>5, ClaimStep
  <2>2. status[t] \in InHand
    BY <1>5, <2>1 DEF RunnersSeen
  <2>3. ASSUME NEW p \in Procs, proc[p].task = t, proc[p].pc \in {"ok", "fail", "catch"},
               proc'[p].pc \notin {"run", "create", "ok", "fail"}
        PROVE  FALSE
    <3>1. p \in Claimed(t)
      BY <2>3 DEF Claimed, Executing, ExecutorsKnown, Known
    <3>2. p = q
      BY <1>1, <1>5, <2>1, <3>1, OneClaim
    <3>. QED  BY <2>3, <3>2 DEF Running
  <2>4. status[t] # "none"
    BY <2>2 DEF InHand
  <2>. QED  BY <1>3, <2>2, <2>3, <2>4, RowWritten
<1>6. StatusStep(t)
  BY EveryStep
<1>. QED  BY <1>3, <1>4, <1>5, <1>6 DEF StatusStep

(* A row that was approved once and is being executed has one executor, and *)
(* its status says it is taken unless it was withdrawn meanwhile: neither   *)
(* an overlapping tick, a second request nor a late recording gets at it.   *)
THEOREM SingleExecutor == Spec => []SingleApprovalSingleExecutor
<1>. DEFINE IInv == Backed /\ ExecutorsKnown /\ ClaimsCounted /\ RunnersSeen
<1>1. Init => IInv
  <2>. SUFFICES ASSUME Init
                PROVE  IInv
    OBVIOUS
  <2>1. Backed /\ ExecutorsKnown /\ RunnersSeen
    BY DEF Init, Backed, Held, ExecutorsKnown, Known, Idle, Executing, RunnersSeen
  <2>2. \A t \in Tasks : Claimed(t) = {} /\ runs[t] = 0
    BY DEF Init, Claimed, Idle
  <2>. QED  BY <2>1, <2>2, FS_EmptySet DEF ClaimsCounted
<1>2. TypeOK /\ IInv /\ [Next]_vars => IInv'
  BY BackedStep, KnownStep, CountedStep, SeenStep
<1>3. TypeOK /\ IInv => SingleApprovalSingleExecutor
  <2>. SUFFICES ASSUME TypeOK, IInv, NEW t \in Tasks \ Deals, grants[t] = 1
                PROVE  Cardinality(Running(t)) <= 1 /\ (Running(t) # {} => status[t] \in InHand)
    BY DEF SingleApprovalSingleExecutor, InHand
  <2>1. Running(t) \subseteq Claimed(t) /\ IsFiniteSet(Claimed(t)) /\ Cardinality(Claimed(t)) <= runs[t]
    BY DEF Running, Claimed, Executing, ClaimsCounted
  <2>2. /\ IsFiniteSet(Running(t)) /\ Cardinality(Running(t)) <= Cardinality(Claimed(t))
        /\ Cardinality(Running(t)) \in Nat /\ Cardinality(Claimed(t)) \in Nat
    BY <2>1, FS_Subset, FS_CardinalityType
  <2>3. runs[t] \in Nat /\ runs[t] <= 1
    BY DEF Backed, Held, TypeOK
  <2>. QED  BY <2>1, <2>2, <2>3 DEF RunnersSeen
<1>. HIDE DEF IInv
<1>. QED  BY <1>1, <1>2, <1>3, TypeCorrect, PTL DEF Spec
-----------------------------------------------------------------------------
(* Deals.  What a company's rows were approved and executed for pays for    *)
(* the deals it has and for those that handlers are still about to create.  *)
Paid(c) == Total({t \in Deals : Company[t] = c}, [t \in Deals |-> grants[t] + runs[t]])
Making(c) == {p \in Procs : proc[p].pc \in {"run", "create"} /\ proc[p].task \in Deals /\ Company[proc[p].task] = c}
DealsCovered ==
  \A c \in Companies : IsFiniteSet(Making(c)) /\ deals[c] + Cardinality(Making(c)) <= Paid(c)

CreatesADeal(s) == s.pc = "create" => s.task \in Deals
CreatorsKnown == \A p \in Procs : CreatesADeal(proc[p])

(* A step creates the deal of one handler that came to create it, starts    *)
(* one handler on a row it approves or claims, or does neither.             *)
GetsNearer(p) ==
  /\ proc'[p].pc \in {"run", "create"} => proc[p].pc \in {"run", "create"} /\ proc'[p].task = proc[p].task
  /\ CreatesADeal(proc'[p])
DealStep ==
  \/ deals' = deals /\ \A p \in Procs : GetsNearer(p)
  \/ \E p \in Procs :
       /\ proc[p].pc = "create" /\ proc'[p].pc = "ok"
       /\ deals' = [deals EXCEPT ![Company[proc[p].task]] = @ + 1]
       /\ \A q \in Procs \ {p} : proc'[q] = proc[q]
  \/ \E p \in Procs, t \in Tasks :
       /\ deals' = deals
       /\ proc'[p].pc = "run" /\ proc'[p].task = t
       /\ grants'[t] + runs'[t] = grants[t] + runs[t] + 1 \/ grants'[t] + runs'[t] = grants[t] + runs[t] + 2
       /\ \A q \in Procs \ {p} : proc'[q] = proc[q]

LEMMA EveryDealStep ==
  ASSUME TypeOK, CreatorsKnown, ExecutorsKnown, [Next]_vars
  PROVE  DealStep
<1>. proc \in [Procs -> ProcType] /\ \A p \in Procs : proc[p] \in ProcType /\ CreatesADeal(proc[p]) /\ Known(proc[p])
  BY ProcTyped DEF CreatorsKnown, ExecutorsKnown
<1>. grants \in [Tasks -> Nat] /\ runs \in [Tasks -> Nat]
  BY DEF TypeOK
<1>. USE DEF Goto, At, Idle, IsIdle, ProcType, CreatesADeal
<1>1. ASSUME deals' = deals, proc' = proc
      PROVE  DealStep
  BY <1>1 DEF DealStep, GetsNearer
<1>2. ASSUME NEW p \in Procs, NEW s \in ProcType, deals' = deals, proc' = [proc EXCEPT ![p] = s],
             s.pc \in {"run", "create"} => proc[p].pc \in {"run", "create"} /\ s.task = proc[p].task,
             CreatesADeal(s)
      PROVE  DealStep
  <2>1. \A q \in Procs : GetsNearer(q)
    BY <1>2 DEF GetsNearer
  <2>. QED  BY <1>2, <2>1 DEF DealStep
<1>3. ASSUME NEW p \in Procs, deals' = deals, proc' = [proc EXCEPT ![p] = Idle]
      PROVE  DealStep
  <2>1. Idle \in ProcType
    BY DEF PC, Op
  <2>. QED  BY <1>2, <1>3, <2>1
<1>4. ASSUME NEW p \in Procs, NEW pc \in {"create", "ok", "fail", "log", "catch"}, deals' = deals,
             proc' = [proc EXCEPT ![p] = [proc[p] EXCEPT !.pc = pc]],
             pc = "create" => proc[p].pc = "run" /\ proc[p].task \in Deals
      PROVE  DealStep
  <2>1. [proc[p] EXCEPT !.pc = pc] \in ProcType
    BY DEF PC
  <2>2. [proc[p] EXCEPT !.pc = pc].pc = pc /\ [proc[p] EXCEPT !.pc = pc].task = proc[p].task
    OBVIOUS
  <2>. QED  BY <1>2, <1>4, <2>1, <2>2
<1>5. ASSUME NEW a \in Procs, NEW t \in Tasks, Approve(a, t)
      PROVE  DealStep
  <2>1. CASE t \in Deals
    <3>1. proc'[a] = At("run", "approve", t) /\ \A q \in Procs \ {a} : proc'[q] = proc[q]
      BY <1>5, <2>1 DEF Approve
    <3>2. deals' = deals /\ runs'[t] = runs[t] /\ grants'[t] = grants[t] + 1
      BY <1>5 DEF Approve, Grant
    <3>3. grants'[t] + runs'[t] = grants[t] + runs[t] + 1
      BY <3>2
    <3>. QED  BY <3>1, <3>2, <3>3 DEF DealStep
  <2>2. CASE t \notin Deals
    <3>1. deals' = deals /\ proc' = proc
      BY <1>5, <2>2 DEF Approve
    <3>. QED  BY <1>1, <3>1
  <2>. QED  BY <2>1, <2>2
<1>6. ASSUME NEW a \in Procs, NEW t \in Tasks,
             BeginUpdate(a, t) \/ BeginCancel(a, t) \/ BeginExecute(a, t) \/ BeginInline(a, t)
      PROVE  DealStep
  <2>1. PICK s \in {At("edit", "update", t), At("cancel", "cancel", t), At("claim", "execute", t), At("claim", "inline", t)} :
          proc' = [proc EXCEPT ![a] = s] /\ deals' = deals
    BY <1>6 DEF BeginUpdate, BeginCancel, BeginExecute, BeginInline
  <2>2. s \in ProcType /\ s.pc \notin {"run", "create"}
    BY DEF PC, Op
  <2>. QED  BY <1>2, <2>1, <2>2
<1>7. ASSUME NEW a \in Procs, WinClaim(a)
      PROVE  DealStep
  <2>. DEFINE t == proc[a].task
  <2>1. t \in Tasks /\ proc[a].pc = "claim"
    BY <1>7 DEF WinClaim, Known
  <2>2. runs'[t] = runs[t] + 1 /\ (grants'[t] = grants[t] \/ grants'[t] = grants[t] + 1)
    BY <1>7, <2>1 DEF WinClaim, ClaimAgentTask, Grant
  <2>3. deals' = deals /\ proc'[a] = At("run", proc[a].op, t) /\ \A q \in Procs \ {a} : proc'[q] = proc[q]
    BY <1>7 DEF WinClaim
  <2>4. grants'[t] + runs'[t] = grants[t] + runs[t] + 1 \/ grants'[t] + runs'[t] = grants[t] + runs[t] + 2
    BY <2>1, <2>2
  <2>. QED  BY <2>1, <2>3, <2>4 DEF DealStep
<1>8. ASSUME NEW k \in Procs, NEW t \in Tasks, TickClaim(k, t)
      PROVE  DealStep
  <2>1. runs'[t] = runs[t] + 1 /\ grants'[t] = grants[t]
    BY <1>8 DEF TickClaim, ClaimAgentTask
  <2>2. deals' = deals /\ proc'[k] = At("run", "tick", t) /\ \A q \in Procs \ {k} : proc'[q] = proc[q]
    BY <1>8 DEF TickClaim
  <2>3. grants'[t] + runs'[t] = grants[t] + runs[t] + 1
    BY <2>1
  <2>. QED  BY <2>2, <2>3 DEF DealStep
<1>9. ASSUME NEW p \in Procs, CreateDeal(p)
      PROVE  DealStep
  <2>1. /\ proc[p].pc = "create" /\ proc'[p].pc = "ok"
        /\ deals' = [deals EXCEPT ![Company[proc[p].task]] = @ + 1]
        /\ \A q \in Procs \ {p} : proc'[q] = proc[q]
    BY <1>9 DEF CreateDeal
  <2>. QED  BY <2>1 DEF DealStep
<1>10. ASSUME Restart
       PROVE  DealStep
  BY <1>10 DEF Restart, DealStep, GetsNearer
<1>. HIDE DEF At, Idle, ProcType
<1>11. ASSUME NEW p \in Procs, RunTask(p) \/ LookUpDeal(p)
       PROVE  DealStep
  BY <1>3, <1>4, <1>11 DEF RunTask, LookUpDeal
<1>12. ASSUME NEW a \in Procs, WriteUpdate(a) \/ WriteCancel(a) \/ LoseClaim(a) \/ RecordOutcome(a) \/ WriteLog(a)
       PROVE  DealStep
  BY <1>3, <1>4, <1>12 DEF WriteUpdate, WriteCancel, LoseClaim, RecordOutcome, WriteLog
<1>13. ASSUME NEW k \in Procs, TickRecord(k) \/ TickCatch(k) \/ TickCatchWrite(k) \/ TickAborts(k)
       PROVE  DealStep
  BY <1>3, <1>4, <1>13 DEF TickRecord, TickCatch, TickCatchWrite, TickAborts
<1>14. ASSUME NEW p \in Procs, DealCatch(p) \/ RequestFails(p)
       PROVE  DealStep
  BY <1>3, <1>4, <1>14 DEF DealCatch, RequestFails
<1>15. RowChanges \/ (\E k \in Ticks : TickRead(k) \/ \E t \in Tasks : TickSkip(k, t)) \/ UNCHANGED vars
         => deals' = deals /\ proc' = proc
  BY DEF RowChanges, Create, CreateApproved, Reject, BulkDelete, TickRead, TickSkip, vars
<1>. QED
  <2>1. ASSUME NEW a \in Admins, AdminStarts(a) \/ AdminContinues(a)
        PROVE  DealStep
    BY <2>1, <1>5, <1>6, <1>7, <1>9, <1>11, <1>12, Zenon DEF AdminStarts, AdminContinues, Procs
  <2>2. ASSUME NEW k \in Ticks, TickRead(k) \/ TickContinues(k)
        PROVE  DealStep
    BY <2>2, <1>1, <1>8, <1>9, <1>11, <1>12, <1>13, <1>15, Zenon DEF TickContinues, Procs
  <2>3. ASSUME Failures
        PROVE  DealStep
    BY <2>3, <1>10, <1>13, <1>14, Zenon DEF Failures, Procs
  <2>4. Next \/ UNCHANGED vars
    OBVIOUS
  <2>. QED  BY <2>1, <2>2, <2>3, <2>4, <1>1, <1>15, Zenon DEF Next

LEMMA PaidType ==
  ASSUME TypeOK, NEW c \in Companies
  PROVE  Paid(c) \in Nat
<1>. DEFINE S == {t \in Deals : Company[t] = c}
            q == [t \in Deals |-> grants[t] + runs[t]]
<1>1. IsFiniteSet(S) /\ \A t \in S : q[t] \in Nat
  BY FS_Subset DEF TypeOK
<1>. HIDE DEF S, q
<1>2. Total(S, q) \in Nat
  BY <1>1, TotalType
<1>. QED  BY <1>2 DEF Paid, S, q

(* Approvals and executions are only ever added, so what is paid for stays. *)
LEMMA PaidStep ==
  ASSUME TypeOK, [Next]_vars, NEW c \in Companies
  PROVE  /\ Paid(c) \in Nat /\ Paid(c)' \in Nat /\ Paid(c) <= Paid(c)'
         /\ \A t \in Deals : Company[t] = c /\ grants'[t] + runs'[t] > grants[t] + runs[t] => Paid(c) + 1 <= Paid(c)'
<1>. DEFINE S == {t \in Deals : Company[t] = c}
            q == [t \in Deals |-> grants[t] + runs[t]]
            r == [t \in Deals |-> grants'[t] + runs'[t]]
<1>1. IsFiniteSet(S) /\ Paid(c) = Total(S, q) /\ Paid(c)' = Total(S, r)
  BY FS_Subset DEF Paid
<1>2. \A t \in Deals : q[t] \in Nat /\ r[t] \in Nat /\ q[t] <= r[t]
  <2>. SUFFICES ASSUME NEW t \in Deals
                PROVE  q[t] \in Nat /\ r[t] \in Nat /\ q[t] <= r[t]
    OBVIOUS
  <2>1. t \in Tasks /\ grants[t] \in Nat /\ runs[t] \in Nat
    BY DEF TypeOK
  <2>2. StatusStep(t)
    BY <2>1, EveryStep
  <2>3. grants'[t] \in Nat /\ runs'[t] \in Nat /\ grants[t] <= grants'[t] /\ runs[t] <= runs'[t]
    BY <2>1, <2>2 DEF StatusStep
  <2>. QED  BY <2>1, <2>3
<1>3. S \subseteq Deals /\ \A t \in Deals : Company[t] = c => t \in S
  OBVIOUS
<1>4. \A t \in Deals : grants'[t] + runs'[t] > grants[t] + runs[t] <=> r[t] > q[t]
  OBVIOUS
<1>. HIDE DEF S, q, r
<1>5. Total(S, q) \in Nat /\ Total(S, r) \in Nat /\ Total(S, q) <= Total(S, r)
  BY <1>1, <1>2, <1>3, TotalType, TotalGrows
<1>6. ASSUME NEW t \in S, r[t] > q[t]
      PROVE  Total(S, q) + 1 <= Total(S, r)
  <2>1. /\ Total(S, q) = Total(S \ {t}, q) + q[t] /\ Total(S, r) = Total(S \ {t}, r) + r[t]
        /\ IsFiniteSet(S \ {t})
    BY <1>1, <1>2, <1>3, TotalRemove, FS_RemoveElement
  <2>2. Total(S \ {t}, q) \in Nat /\ Total(S \ {t}, r) \in Nat /\ Total(S \ {t}, q) <= Total(S \ {t}, r)
    BY <1>2, <1>3, <2>1, TotalType, TotalGrows
  <2>3. q[t] \in Nat /\ r[t] \in Nat
    BY <1>2, <1>3
  <2>. QED  BY <1>6, <2>1, <2>2, <2>3
<1>. QED  BY <1>1, <1>3, <1>4, <1>5, <1>6

LEMMA CoveredStep ==
  ASSUME TypeOK, CreatorsKnown, ExecutorsKnown, DealsCovered, [Next]_vars
  PROVE  CreatorsKnown' /\ DealsCovered'
<1>1. DealStep
  BY EveryDealStep
<1>2. CreatorsKnown'
  BY <1>1 DEF DealStep, GetsNearer, CreatorsKnown, CreatesADeal
<1>3. ASSUME NEW c \in Companies
      PROVE  IsFiniteSet(Making(c)') /\ deals'[c] + Cardinality(Making(c)') <= Paid(c)'
  <2>. DEFINE M == Making(c)
              N == Making(c)'
  <2>. deals[c] \in Nat /\ deals \in [Companies -> Nat]
    BY DEF TypeOK
  <2>1. IsFiniteSet(M) /\ Cardinality(M) \in Nat /\ deals[c] + Cardinality(M) <= Paid(c)
    BY FS_CardinalityType DEF DealsCovered
  <2>2. Paid(c) \in Nat /\ Paid(c)' \in Nat /\ Paid(c) <= Paid(c)'
    BY PaidStep
  <2>3. ASSUME N \subseteq M
        PROVE  IsFiniteSet(N) /\ Cardinality(N) \in Nat /\ Cardinality(N) <= Cardinality(M)
    BY <2>1, <2>3, FS_Subset, FS_CardinalityType
  <2>4. ASSUME deals' = deals, \A p \in Procs : GetsNearer(p)
        PROVE  IsFiniteSet(N) /\ deals'[c] + Cardinality(N) <= Paid(c)'
    <3>1. N \subseteq M
      BY <2>4 DEF Making, GetsNearer
    <3>. HIDE DEF M, N
    <3>. QED  BY <2>1, <2>2, <2>3, <2>4, <3>1
  <2>5. ASSUME NEW p \in Procs, proc[p].pc = "create", proc'[p].pc = "ok",
               deals' = [deals EXCEPT ![Company[proc[p].task]] = @ + 1],
               \A q \in Procs \ {p} : proc'[q] = proc[q]
        PROVE  IsFiniteSet(N) /\ deals'[c] + Cardinality(N) <= Paid(c)'
    <3>1. proc[p].task \in Deals
      BY <2>5 DEF CreatorsKnown, CreatesADeal
    <3>2. CASE Company[proc[p].task] = c
      <4>1. p \in M /\ N = M \ {p}
        BY <2>5, <3>1, <3>2 DEF Making
      <4>2. deals'[c] = deals[c] + 1
        BY <2>5, <3>2
      <4>. HIDE DEF M, N
      <4>3. IsFiniteSet(N) /\ Cardinality(N) = Cardinality(M) - 1
        BY <2>1, <4>1, FS_RemoveElement
      <4>. QED  BY <2>1, <2>2, <4>2, <4>3
    <3>3. CASE Company[proc[p].task] # c
      <4>1. N \subseteq M
        BY <2>5 DEF Making
      <4>2. deals'[c] = deals[c]
        BY <2>5, <3>3
      <4>. HIDE DEF M, N
      <4>. QED  BY <2>1, <2>2, <2>3, <4>1, <4>2
    <3>. QED  BY <3>2, <3>3
  <2>6. ASSUME NEW p \in Procs, NEW t \in Tasks, deals' = deals, proc'[p].pc = "run", proc'[p].task = t,
               \/ grants'[t] + runs'[t] = grants[t] + runs[t] + 1
               \/ grants'[t] + runs'[t] = grants[t] + runs[t] + 2,
               \A q \in Procs \ {p} : proc'[q] = proc[q]
        PROVE  IsFiniteSet(N) /\ deals'[c] + Cardinality(N) <= Paid(c)'
    <3>1. CASE t \in Deals /\ Company[t] = c
      <4>1. N = M \cup {p}
        BY <2>6, <3>1 DEF Making
      <4>2. grants[t] \in Nat /\ runs[t] \in Nat
        BY DEF TypeOK
      <4>3. grants'[t] + runs'[t] > grants[t] + runs[t]
        BY <2>6, <4>2
      <4>4. Paid(c) + 1 <= Paid(c)'
        BY <3>1, <4>3, PaidStep
      <4>. HIDE DEF M, N
      <4>5. IsFiniteSet(N) /\ (Cardinality(N) = Cardinality(M) \/ Cardinality(N) = Cardinality(M) + 1)
        BY <2>1, <4>1, FS_AddElement
      <4>. QED  BY <2>1, <2>2, <2>6, <4>4, <4>5
    <3>2. CASE ~(t \in Deals /\ Company[t] = c)
      <4>1. N \subseteq M
        BY <2>6, <3>2 DEF Making
      <4>. HIDE DEF M, N
      <4>. QED  BY <2>1, <2>2, <2>3, <2>6, <4>1
    <3>. QED  BY <3>1, <3>2
  <2>. HIDE DEF M, N
  <2>. QED  BY <1>1, <2>4, <2>5, <2>6 DEF DealStep, M, N
<1>. QED  BY <1>2, <1>3 DEF DealsCovered

(* Every deal is backed by an approval or a claimed execution of a row for  *)
(* its company, for any number of requests, overlapping ticks and companies:*)
(* a handler that comes to create a deal was started by one of the two, and *)
(* no error path or restart lets it create a second.                        *)
THEOREM DealsBacked == Spec => []DealsAreBacked
<1>. DEFINE IInv == ExecutorsKnown /\ CreatorsKnown /\ DealsCovered
<1>1. Init => IInv
  <2>. SUFFICES ASSUME Init
                PROVE  IInv
    OBVIOUS
  <2>1. ExecutorsKnown /\ CreatorsKnown
    BY DEF Init, ExecutorsKnown, Known, Idle, Executing, CreatorsKnown, CreatesADeal
  <2>2. ASSUME NEW c \in Companies
        PROVE  IsFiniteSet(Making(c)) /\ deals[c] + Cardinality(Making(c)) <= Paid(c)
    <3>1. Making(c) = {} /\ deals[c] = 0
      BY DEF Init, Making, Idle
    <3>2. Paid(c) \in Nat
      BY InitType, PaidType
    <3>. QED  BY <3>1, <3>2, FS_EmptySet
  <2>. QED  BY <2>1, <2>2 DEF DealsCovered
<1>2. TypeOK /\ IInv /\ [Next]_vars => IInv'
  BY KnownStep, CoveredStep
<1>3. TypeOK /\ IInv => DealsAreBacked
  <2>. SUFFICES ASSUME TypeOK, IInv, NEW c \in Companies
                PROVE  deals[c] <= Paid(c)
    BY DEF DealsAreBacked, Paid
  <2>1. IsFiniteSet(Making(c)) /\ deals[c] + Cardinality(Making(c)) <= Paid(c)
    BY DEF DealsCovered
  <2>2. deals[c] \in Nat /\ Cardinality(Making(c)) \in Nat /\ Paid(c) \in Nat
    BY <2>1, FS_CardinalityType, PaidType DEF TypeOK
  <2>. QED  BY <2>1, <2>2
<1>. HIDE DEF IInv
<1>. QED  BY <1>1, <1>2, <1>3, TypeCorrect, PTL DEF Spec
=============================================================================
