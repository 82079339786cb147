------------------------------ MODULE AgentTasks ------------------------------
(***************************************************************************)
(* Life cycle of an aiAgentTasks row: created by a user, a rule or the     *)
(* project bridge, approved or rejected by an admin, claimed with a        *)
(* compare-and-set, executed, and recorded.  The writers are               *)
(*   - the admin procedures of routers/aiAgent.ts (and the cancellation    *)
(*     of taskAgentBridge.ts): one process of Admins per request, and      *)
(*   - executeApprovedTasks of aiAgentScheduler.ts: one process of Ticks   *)
(*     per setInterval callback.  Callbacks can overlap, because nothing   *)
(*     guards the interval.                                                *)
(* A handler is split at its database calls: that is where Node lets       *)
(* another handler run.                                                    *)
(***************************************************************************)
EXTENDS Sums

CONSTANTS
  Tasks,      \* row ids (autoincrement: an id is never used twice)
  Errands,    \* the rows of type concierge_errand
  Deals,      \* the rows of type create_crm_deal
  Company,    \* Company[t]: the organization a deal row would be opened for
  Admins,     \* admin requests that can be in flight at once
  Ticks,      \* scheduler callbacks that can be in flight at once
  NoTask,     \* stands for "no row" in an idle process
  Batch,      \* maxConcurrentTasks: rows one tick reads
  MaxGrants,  \* bound on the approvals given to one row
  MaxEdits,   \* bound on the edits of one row's taskData
  MaxFaults   \* bound on database errors and restarts

ASSUME TasksAssumption ==
  /\ Errands \subseteq Tasks
  /\ Deals \subseteq Tasks
  /\ Errands \cap Deals = {}
  /\ NoTask \notin Tasks
  /\ Admins \cap Ticks = {}
  /\ IsFiniteSet(Tasks)

ASSUME BoundsAssumption ==
  /\ Batch \in Nat \ {0}
  /\ MaxGrants \in Nat
  /\ MaxEdits \in Nat
  /\ MaxFaults \in Nat

VARIABLES
  status,   \* status[t]: the status column; "none" before the insert, "deleted" after the delete
  data,     \* data[t]: version of the taskData column
  deals,    \* deals[c]: CRM deals created for company c
  proc,     \* proc[p]: where the handler of process p is, and the row it works on
  queue,    \* queue[k]: rows tick k has read as approved and not yet reached
  grants,   \* history: approvals given to t (by an admin, or by an auto-approving insert)
  runs,     \* history: executions of t begun by whoever won a claim
  faults    \* history: database errors and restarts so far

vars == <<status, data, deals, proc, queue, grants, runs, faults>>

Procs == Admins \cup Ticks
Companies == {Company[t] : t \in Deals}

Live == {"pending_approval", "approved", "rejected", "in_progress", "completed", "failed", "cancelled"}
Status == Live \cup {"none", "deleted"}
OpenAgentStatuses == {"pending_approval", "approved", "in_progress"}
Editable == {"pending_approval", "approved"}

(* pc: the database call the handler makes next.                            *)
PC == {"idle", "claim", "edit", "cancel", "run", "create", "ok", "fail", "log", "catch"}
Op == {"none", "approve", "execute", "inline", "update", "cancel", "tick"}
Idle == [pc |-> "idle", op |-> "none", task |-> NoTask]
At(pc, op, t) == [pc |-> pc, op |-> op, task |-> t]

TypeOK ==
  /\ status \in [Tasks -> Status]
  /\ data \in [Tasks -> Nat]
  /\ deals \in [Companies -> Nat]
  /\ proc \in [Procs -> [pc : PC, op : Op, task : Tasks \cup {NoTask}]]
  /\ queue \in [Ticks -> SUBSET Tasks]
  /\ grants \in [Tasks -> Nat]
  /\ runs \in [Tasks -> Nat]
  /\ faults \in Nat

Init ==
  /\ status = [t \in Tasks |-> "none"]
  /\ data = [t \in Tasks |-> 0]
  /\ deals = [c \in Companies |-> 0]
  /\ proc = [p \in Procs |-> Idle]
  /\ queue = [k \in Ticks |-> {}]
  /\ grants = [t \in Tasks |-> 0]
  /\ runs = [t \in Tasks |-> 0]
  /\ faults = 0

IsIdle(p) == proc[p] = Idle
Goto(p, state) == proc' = [proc EXCEPT ![p] = state]
(* UPDATE ... WHERE id = t: a deleted row is not matched.                   *)
SetStatus(t, s) == status' = [status EXCEPT ![t] = IF @ \in Live THEN s ELSE @]
Grant(t) == grants' = [grants EXCEPT ![t] = @ + 1]
MayGrant(t) == grants[t] < MaxGrants
Fault == faults < MaxFaults /\ faults' = faults + 1

-----------------------------------------------------------------------------
(* Inserting and deleting rows.                                             *)

(* tasks.create, the rules, executeCreateTask, plan_errand and the bridge   *)
(* insert a row that waits for approval ...                                 *)
Create(t) ==
  /\ status[t] = "none"
  /\ status' = [status EXCEPT ![t] = "pending_approval"]
  /\ UNCHANGED <<data, deals, proc, queue, grants, runs, faults>>

(* ... or, when approval is not required, one that is already approved.     *)
CreateApproved(t) ==
  /\ status[t] = "none"
  /\ MayGrant(t)
  /\ status' = [status EXCEPT ![t] = "approved"]
  /\ Grant(t)
  /\ UNCHANGED <<data, deals, proc, queue, runs, faults>>

(* bulkDelete: every row of one type, of one status, or of both.            *)
BulkDelete ==
  \E kind \in {Tasks, Errands, Deals, Tasks \ (Errands \cup Deals)}, filter \in {Live} \cup {{s} : s \in Live} :
    LET doomed == {t \in kind : status[t] \in filter} IN
    /\ <<kind, filter>> # <<Tasks, Live>>
    /\ doomed # {}
    /\ status' = [t \in Tasks |-> IF t \in doomed THEN "deleted" ELSE status[t]]
    /\ UNCHANGED <<data, deals, proc, queue, grants, runs, faults>>

-----------------------------------------------------------------------------
(* Decisions of an admin.                                                   *)

(* tasks.approve writes 'approved' whatever the status was; the handler of  *)
(* a CRM deal goes on to create the deal itself.                            *)
Approve(a, t) ==
  /\ IsIdle(a)
  /\ status[t] \in Live
  /\ MayGrant(t)
  /\ SetStatus(t, "approved")
  /\ Grant(t)
  /\ Goto(a, IF t \in Deals THEN At("run", "approve", t) ELSE Idle)
  /\ UNCHANGED <<data, deals, queue, runs, faults>>

(* tasks.reject writes 'rejected' whatever the status was.                  *)
Reject(t) ==
  /\ status[t] \in Live
  /\ SetStatus(t, "rejected")
  /\ UNCHANGED <<data, deals, proc, queue, grants, runs, faults>>

(* tasks.update reads the row and checks its status ...                     *)
BeginUpdate(a, t) ==
  /\ IsIdle(a)
  /\ status[t] \in Editable
  /\ data[t] < MaxEdits
  /\ Goto(a, At("edit", "update", t))
  /\ UNCHANGED <<status, data, deals, queue, grants, runs, faults>>

(* ... and then writes taskData without looking at the status again.  That  *)
(* an edit may name a contact of another organization is left out: a row    *)
(* stays one for its Company.                                               *)
WriteUpdate(a) ==
  LET t == proc[a].task IN
  /\ proc[a].pc = "edit"
  /\ data' = [data EXCEPT ![t] = IF status[t] \in Live THEN @ + 1 ELSE @]
  /\ Goto(a, Idle)
  /\ UNCHANGED <<status, deals, queue, grants, runs, faults>>

(* cancelAgentTaskIfOpen reads the agent row ...                            *)
BeginCancel(a, t) ==
  /\ IsIdle(a)
  /\ status[t] \in OpenAgentStatuses
  /\ Goto(a, At("cancel", "cancel", t))
  /\ UNCHANGED <<status, data, deals, queue, grants, runs, faults>>

(* ... and writes 'cancelled' without looking at the status again.          *)
WriteCancel(a) ==
  /\ proc[a].pc = "cancel"
  /\ SetStatus(proc[a].task, "cancelled")
  /\ Goto(a, Idle)
  /\ UNCHANGED <<data, deals, queue, grants, runs, faults>>

-----------------------------------------------------------------------------
(* Claiming a row: the read that precedes the claim, and claimAgentTask.    *)

(* tasks.execute reads the row and refuses one that is not approved.        *)
BeginExecute(a, t) ==
  /\ IsIdle(a)
  /\ status[t] = "approved"
  /\ Goto(a, At("claim", "execute", t))
  /\ UNCHANGED <<status, data, deals, queue, grants, runs, faults>>

(* tasks.approveAndExecute reads the row and refuses one that is not a      *)
(* pending errand.                                                          *)
BeginInline(a, t) ==
  /\ IsIdle(a)
  /\ t \in Errands
  /\ status[t] = "pending_approval"
  /\ MayGrant(t)
  /\ Goto(a, At("claim", "inline", t))
  /\ UNCHANGED <<status, data, deals, queue, grants, runs, faults>>

(* Mutant: a tick that finds more rows than it may read reads none.         *)
TickReadWithinBatch(k) ==
  /\ IsIdle(k)
  /\ queue[k] = {}
  /\ LET rows == {t \in Tasks : status[t] = "approved"} IN
     /\ rows # {}
     /\ Cardinality(rows) <= Batch
     /\ queue' = [queue EXCEPT ![k] = rows]
  /\ UNCHANGED <<status, data, deals, proc, grants, runs, faults>>

(* executeApprovedTasks reads up to Batch approved rows.  ORDER BY priority *)
(* only fixes which ones and in which order: both are left open.            *)
TickRead(k) ==
  /\ IsIdle(k)
  /\ queue[k] = {}
  /\ \E rows \in SUBSET {t \in Tasks : status[t] = "approved"} :
       /\ rows # {}
       /\ Cardinality(rows) <= Batch
       /\ \A t \in Tasks \ rows : status[t] = "approved" => Cardinality(rows) = Batch
       /\ queue' = [queue EXCEPT ![k] = rows]
  /\ UNCHANGED <<status, data, deals, proc, grants, runs, faults>>

(* Mutant: the claim without its onlyIfStatus condition.                    *)
ClaimUnguarded(t, from) ==
  /\ status[t] \in Live
  /\ status' = [status EXCEPT ![t] = "in_progress"]
  /\ runs' = [runs EXCEPT ![t] = @ + 1]

(* The compare-and-set of claimAgentTask: in_progress if still `from'.      *)
ClaimAgentTask(t, from) ==
  /\ status[t] = from
  /\ status' = [status EXCEPT ![t] = "in_progress"]
  /\ runs' = [runs EXCEPT ![t] = @ + 1]

(* A request that wins its claim executes the row; an inline approval is    *)
(* given by the claim itself.                                               *)
WinClaim(a) ==
  LET t == proc[a].task IN
  /\ proc[a].pc = "claim"
  /\ \/ /\ proc[a].op = "execute"
        /\ ClaimAgentTask(t, "approved")
        /\ UNCHANGED grants
     \/ /\ proc[a].op = "inline"
        /\ ClaimAgentTask(t, "pending_approval")
        /\ Grant(t)
  /\ Goto(a, At("run", proc[a].op, t))
  /\ UNCHANGED <<data, deals, queue, faults>>

(* Mutant: the number of claimed rows is not looked at.                     *)
LoseClaimUnnoticed(a) ==
  /\ proc[a].pc = "claim"
  /\ Goto(a, At("run", proc[a].op, proc[a].task))
  /\ UNCHANGED <<status, data, deals, queue, grants, runs, faults>>

(* A request that loses it answers CONFLICT.                                *)
LoseClaim(a) ==
  LET from == IF proc[a].op = "inline" THEN "pending_approval" ELSE "approved" IN
  /\ proc[a].pc = "claim"
  /\ status[proc[a].task] # from
  /\ Goto(a, Idle)
  /\ UNCHANGED <<status, data, deals, queue, grants, runs, faults>>

(* The tick takes the next row it has read and claims it ...                *)
TickClaim(k, t) ==
  /\ IsIdle(k)
  /\ t \in queue[k]
  /\ ClaimAgentTask(t, "approved")
  /\ queue' = [queue EXCEPT ![k] = @ \ {t}]
  /\ Goto(k, At("run", "tick", t))
  /\ UNCHANGED <<data, deals, grants, faults>>

(* ... or loses the claim, or gets an error from it, and skips the row.     *)
TickSkip(k, t) ==
  /\ IsIdle(k)
  /\ t \in queue[k]
  /\ queue' = [queue EXCEPT ![k] = @ \ {t}]
  /\ \/ status[t] # "approved" /\ UNCHANGED faults
     \/ Fault
  /\ UNCHANGED <<status, data, deals, proc, grants, runs>>

-----------------------------------------------------------------------------
(* executeAgentTask.                                                        *)

(* Any type but create_crm_deal: the side effects succeed or fail.          *)
RunTask(p) ==
  /\ proc[p].pc = "run"
  /\ proc[p].task \notin Deals
  /\ \E outcome \in {"ok", "fail"} : Goto(p, [proc[p] EXCEPT !.pc = outcome])
  /\ UNCHANGED <<status, data, deals, queue, grants, runs, faults>>

(* create_crm_deal looks for a deal of the same company and refuses a       *)
(* duplicate; other refusals (no contact, no pipeline) fail the task too.   *)
(* approve reads the row again first, and stops if it is gone.              *)
LookUpDeal(p) ==
  LET t == proc[p].task
      gone == proc[p].op = "approve" /\ status[t] \notin Live
  IN
  /\ proc[p].pc = "run"
  /\ t \in Deals
  /\ \/ gone /\ Goto(p, Idle)
     \/ ~gone /\ deals[Company[t]] = 0 /\ Goto(p, [proc[p] EXCEPT !.pc = "create"])
     \/ ~gone /\ Goto(p, [proc[p] EXCEPT !.pc = "fail"])
  /\ UNCHANGED <<status, data, deals, queue, grants, runs, faults>>

(* Mutant: the insert is repeated when its answer is late.                  *)
CreateDealRepeated(p) ==
  /\ proc[p].pc = "create"
  /\ deals[Company[proc[p].task]] < 9
  /\ deals' = [deals EXCEPT ![Company[proc[p].task]] = @ + 1]
  /\ Goto(p, [proc[p] EXCEPT !.pc = IF proc[p].op = "tick" THEN "create" ELSE "ok"])
  /\ UNCHANGED <<status, data, queue, grants, runs, faults>>

CreateDeal(p) ==
  /\ proc[p].pc = "create"
  /\ deals' = [deals EXCEPT ![Company[proc[p].task]] = @ + 1]
  /\ Goto(p, [proc[p] EXCEPT !.pc = "ok"])
  /\ UNCHANGED <<status, data, queue, grants, runs, faults>>

-----------------------------------------------------------------------------
(* Recording the outcome.                                                   *)

(* Mutants: a failed row goes back in line; a status outside the enum.      *)
OutcomeRetried(p) == IF proc[p].pc = "ok" THEN "completed" ELSE "approved"
OutcomeMisspelt(p) == IF proc[p].pc = "ok" THEN "complete" ELSE "failed"

Outcome(p) == IF proc[p].pc = "ok" THEN "completed" ELSE "failed"

(* recordExecutionSuccess, recordExecutionFailure and the two writes of     *)
(* approve: no check of the status the row has by now.  In approve the log  *)
(* that follows a success is still inside the try block.                    *)
RecordOutcome(a) ==
  /\ proc[a].pc \in {"ok", "fail"}
  /\ SetStatus(proc[a].task, Outcome(a))
  /\ Goto(a, IF proc[a].op = "approve" /\ proc[a].pc = "ok" THEN [proc[a] EXCEPT !.pc = "log"] ELSE Idle)
  /\ UNCHANGED <<data, deals, queue, grants, runs, faults>>

(* Mutant: only a success is written back.                                  *)
TickRecordSuccess(k) ==
  /\ proc[k].pc \in {"ok", "fail"}
  /\ IF proc[k].pc = "ok" THEN SetStatus(proc[k].task, "completed") ELSE UNCHANGED status
  /\ Goto(k, [proc[k] EXCEPT !.pc = "log"])
  /\ UNCHANGED <<data, deals, queue, grants, runs, faults>>

(* The same writes in the scheduler; its execution log is still to come.    *)
TickRecord(k) ==
  /\ proc[k].pc \in {"ok", "fail"}
  /\ SetStatus(proc[k].task, Outcome(k))
  /\ Goto(k, [proc[k] EXCEPT !.pc = "log"])
  /\ UNCHANGED <<data, deals, queue, grants, runs, faults>>

WriteLog(p) ==
  /\ proc[p].pc = "log"
  /\ Goto(p, Idle)
  /\ UNCHANGED <<status, data, deals, queue, grants, runs, faults>>

-----------------------------------------------------------------------------
(* Errors and restarts.                                                     *)

(* A database error while a tick records or logs a row is caught by the     *)
(* loop ...                                                                 *)
TickCatch(k) ==
  /\ Fault
  /\ proc[k].pc \in {"ok", "fail", "log"}
  /\ Goto(k, [proc[k] EXCEPT !.pc = "catch"])
  /\ UNCHANGED <<status, data, deals, queue, grants, runs>>

(* ... which writes 'failed' and goes on to the next row ...                *)
TickCatchWrite(k) ==
  /\ proc[k].pc = "catch"
  /\ SetStatus(proc[k].task, "failed")
  /\ Goto(k, Idle)
  /\ UNCHANGED <<data, deals, queue, grants, runs, faults>>

(* ... unless that write fails too, which ends the tick.                    *)
TickAborts(k) ==
  /\ Fault
  /\ proc[k].pc = "catch"
  /\ Goto(k, Idle)
  /\ queue' = [queue EXCEPT ![k] = {}]
  /\ UNCHANGED <<status, data, deals, grants, runs>>

(* A database error while a deal is created, or afterwards in the try block *)
(* of approve, is caught, and the task is to be marked failed.              *)
DealCatch(p) ==
  /\ Fault
  /\ \/ proc[p].pc = "create"
     \/ proc[p].op = "approve" /\ proc[p].pc \in {"run", "ok", "log"}
  /\ Goto(p, [proc[p] EXCEPT !.pc = "fail"])
  /\ UNCHANGED <<status, data, deals, queue, grants, runs>>

(* Any other database error ends the request, whatever it has claimed.      *)
(* executeAgentTask itself reports errors and does not throw.               *)
RequestFails(a) ==
  /\ Fault
  /\ \/ proc[a].pc \in {"claim", "edit", "cancel", "fail"}
     \/ proc[a].pc = "run" /\ proc[a].op \in {"approve", "inline"}
     \/ proc[a].pc = "ok" /\ proc[a].op # "approve"
  /\ Goto(a, Idle)
  /\ UNCHANGED <<status, data, deals, queue, grants, runs>>

(* Mutant: a restart puts interrupted rows back in line.                    *)
RestartRequeues ==
  /\ Fault
  /\ \E p \in Procs : ~IsIdle(p)
  /\ status' = [t \in Tasks |-> IF status[t] = "in_progress" THEN "approved" ELSE status[t]]
  /\ proc' = [p \in Procs |-> Idle]
  /\ queue' = [k \in Ticks |-> {}]
  /\ UNCHANGED <<data, deals, grants, runs>>

(* The server restarts: every handler is gone, the rows stay.               *)
Restart ==
  /\ Fault
  /\ \E p \in Procs : ~IsIdle(p)
  /\ proc' = [p \in Procs |-> Idle]
  /\ queue' = [k \in Ticks |-> {}]
  /\ UNCHANGED <<status, data, deals, grants, runs>>

-----------------------------------------------------------------------------
AdminContinues(a) ==
  \/ WriteUpdate(a) \/ WriteCancel(a)
  \/ WinClaim(a) \/ LoseClaim(a)
  \/ RunTask(a) \/ LookUpDeal(a) \/ CreateDeal(a)
  \/ RecordOutcome(a) \/ WriteLog(a)

AdminStarts(a) ==
  \E t \in Tasks :
    Approve(a, t) \/ BeginUpdate(a, t) \/ BeginCancel(a, t) \/ BeginExecute(a, t) \/ BeginInline(a, t)

TickContinues(k) ==
  \/ \E t \in Tasks : TickClaim(k, t) \/ TickSkip(k, t)
  \/ RunTask(k) \/ LookUpDeal(k) \/ CreateDeal(k)
  \/ TickRecord(k) \/ WriteLog(k) \/ TickCatchWrite(k)

RowChanges == (\E t \in Tasks : Create(t) \/ CreateApproved(t) \/ Reject(t)) \/ BulkDelete

Failures ==
  \/ \E k \in Ticks : TickCatch(k) \/ TickAborts(k)
  \/ \E p \in Procs : DealCatch(p)
  \/ \E a \in Admins : RequestFails(a)
  \/ Restart

Next ==
  \/ RowChanges
  \/ \E a \in Admins : AdminStarts(a) \/ AdminContinues(a)
  \/ \E k \in Ticks : TickRead(k) \/ TickContinues(k)
  \/ Failures

Spec == Init /\ [][Next]_vars

(* The event loop runs every continuation of a handler that has begun, and  *)
(* the interval keeps starting ticks; nobody has to approve or click.       *)
Fairness ==
  /\ \A a \in Admins : WF_vars(AdminContinues(a))
  /\ \A k \in Ticks : WF_vars(TickRead(k)) /\ WF_vars(TickContinues(k))

FairSpec == Spec /\ Fairness

-----------------------------------------------------------------------------
(* Properties.                                                              *)

Running(t) == {p \in Procs : proc[p].task = t /\ proc[p].op \in {"execute", "inline", "tick"}
                             /\ proc[p].pc \in {"run", "create", "ok", "fail"}}

(* Every execution claimed by claimAgentTask is paid for by an approval of  *)
(* its own: however requests, overlapping ticks, edits and restarts         *)
(* interleave, a row is never executed more often than it was approved.     *)
OneRunPerApproval == \A t \in Tasks : runs[t] <= grants[t]

(* While a row that was approved once is being executed, it has that one    *)
(* executor, and the row says so unless somebody rejected, cancelled or     *)
(* deleted it meanwhile: nobody finds it claimable or already finished.     *)
SingleApprovalSingleExecutor ==
  \A t \in Tasks \ Deals : grants[t] = 1 =>
    /\ Cardinality(Running(t)) <= 1
    /\ Running(t) # {} => status[t] \in {"in_progress", "rejected", "cancelled", "deleted"}

(* Every deal is backed by an approval or by a claimed execution of a row   *)
(* for that company: the handlers of approve and the executor create no     *)
(* deal on their own account, whatever errors and restarts cut them short.  *)
DealsAreBacked ==
  \A c \in Companies :
    deals[c] <= Total({t \in Deals : Company[t] = c}, [t \in Deals |-> grants[t] + runs[t]])

(* The same promise as a specification of its own: the queue implements the *)
(* ledger in which every approval pays for at most one execution.           *)
Ledger == INSTANCE ApprovalLedger WITH unspent <- {t \in Tasks : status[t] = "approved"}
ImplementsLedger == Ledger!Spec

(* A row enters the statuses from which or in which it is executed only by  *)
(* a fresh approval: no recording, cancellation, error path or restart      *)
(* puts a finished, rejected or cancelled row back in line.                 *)
OnlyApprovalReleases ==
  [][\A t \in Tasks :
       status[t] \notin {"approved", "in_progress"} /\ status'[t] \in {"approved", "in_progress"}
         => grants'[t] = grants[t] + 1]_vars

(* The interval takes every approved row up, also after database errors and *)
(* restarts that cut its ticks short ...                                    *)
ApprovedIsTakenUp == \A t \in Tasks : (status[t] = "approved") ~> (status[t] # "approved")

(* ... and no claimed row stays in progress, as long as no database call    *)
(* fails and the server stays up.                                           *)
InProgressEnds ==
  \A t \in Tasks : LET stuck == status[t] = "in_progress" /\ faults = 0 IN stuck ~> ~stuck

(* What comments of the code say, and the code does not do.                 *)

(* "so the errand can never be double-executed": no two executors work on   *)
(* one errand (approveAndExecute in routers/aiAgent.ts).                    *)
ErrandNeverDoubleExecuted == \A t \in Errands : Cardinality(Running(t)) <= 1

(* "Re-check duplicates at execution time": one deal for a company          *)
(* (executeCreateCrmDeal in aiAgentTaskExecutor.ts).                        *)
OneDealPerCompany == \A c \in Companies : deals[c] <= 1
=============================================================================
