----------------------------- MODULE PayableBills -----------------------------
(***************************************************************************)
(* Vendor bills and the money paid out for them.  The writers are          *)
(*   - the procedures of routers/bills.ts and the invoice matching         *)
(*     workflow: one process of Callers per request, and                   *)
(*   - runs of the payment processing workflow, started by the             *)
(*     orchestrator's interval or by hand: one process of Runs each.       *)
(* payBill (billsService.ts) is the path both share: read the bill, insert *)
(* a payments row, read the bill again, write it.  There is no transaction *)
(* around it, so each database call is a step of its own.                  *)
(* Amounts are whole units: the half-cent tolerance of the code only       *)
(* absorbs the rounding of decimals.  Every bill is due.                   *)
(***************************************************************************)
EXTENDS Naturals, Sequences

CONSTANTS
  Bills,        \* bill ids
  Amounts,      \* totals a bill can be keyed in with
  AutoPay,      \* autoPayThreshold: a run pays up to this without asking
  AutoApprove,  \* up to this the approval thresholds approve at once
  Callers,      \* requests that can be in flight at once
  Runs,         \* slots for payment runs in flight, and for rows of dead ones
  NoBill,       \* stands for "no bill" in an idle process
  MaxActs,      \* bound on what people do: requests, decisions, manual runs
  MaxFaults     \* bound on database errors and restarts

ASSUME BillsAssumption ==
  /\ NoBill \notin Bills
  /\ Callers \cap Runs = {}
  /\ Amounts \subseteq Nat \ {0}
  /\ AutoPay \in Nat /\ AutoApprove \in Nat
  /\ MaxActs \in Nat /\ MaxFaults \in Nat

VARIABLES
  status,    \* status[b]: status column; "none" before the insert
  total,     \* total[b]: totalAmount column
  paid,      \* paid[b]: amountPaid column
  matched,   \* bills whose matchStatus is no longer 'unmatched'
  cash,      \* cash[b]: what the payments rows of b add up to
  requests,  \* rows of the approval queue, in the order of their ids
  proc,      \* proc[p]: the database call p makes next, and what it works with
  due,       \* due[r]: bills run r has fetched and not reached, as it read them
  running,   \* the runs whose workflowRuns row says 'running'; when a run dies
             \* its row may say so for good, and keeps the slot
  asked,     \* asked[r]: the requests that carry the id of such a row
  edited,    \* history: bills whose status or total was written by update
  count      \* history: acts of people, faults

vars == <<status, total, paid, matched, cash, requests, proc, due, running, asked, edited, count>>
bill == <<status, total, paid, matched, cash>>
workflow == <<requests, due, running, asked>>

Procs == Callers \cup Runs
Status == {"draft", "pending_approval", "approved", "scheduled", "partially_paid", "paid",
           "overdue", "cancelled", "disputed"}
Closed == {"paid", "cancelled"}
Fetched == {"approved", "scheduled"}

PC == {"idle", "start", "fetch", "next", "pay", "file", "demote",  \* the run
       "insert", "read", "write",                                  \* payBill
       "approve", "cancel", "queue"}                               \* the other requests
At(pc, b, amount) == [pc |-> pc, bill |-> b, amount |-> amount, base |-> 0, owed |-> 0]
Idle == At("idle", NoBill, 0)

TypeOK ==
  /\ status \in [Bills -> Status \cup {"none"}]
  /\ total \in [Bills -> Amounts \cup {0}]
  /\ paid \in [Bills -> Nat]
  /\ matched \subseteq Bills
  /\ cash \in [Bills -> Nat]
  /\ requests \in Seq([bill : Bills, amount : Nat, status : {"pending", "approved", "rejected", "auto_approved"}])
  /\ proc \in [Procs -> [pc : PC, bill : Bills \cup {NoBill}, amount : Nat, base : Nat, owed : Nat]]
  /\ due \in [Runs -> SUBSET [bill : Bills, amount : Nat]]
  /\ running \subseteq Runs
  /\ asked \in [Runs -> SUBSET Nat]
  /\ edited \subseteq Bills
  /\ count \in [acts : Nat, faults : Nat]

Init ==
  /\ status = [b \in Bills |-> "none"]
  /\ total = [b \in Bills |-> 0]
  /\ paid = [b \in Bills |-> 0]
  /\ matched = {}
  /\ cash = [b \in Bills |-> 0]
  /\ requests = <<>>
  /\ proc = [p \in Procs |-> Idle]
  /\ due = [r \in Runs |-> {}]
  /\ running = {}
  /\ asked = [r \in Runs |-> {}]
  /\ edited = {}
  /\ count = [acts |-> 0, faults |-> 0]

Open(b) == status[b] \in Status \ Closed
Outstanding(b) == IF total[b] > paid[b] THEN total[b] - paid[b] ELSE 0

IsIdle(p) == proc[p] = Idle
Goto(p, state) == proc' = [proc EXCEPT ![p] = state]
(* The end of a request, or of a run's work on one bill.                    *)
Done(p) == Goto(p, IF p \in Runs THEN At("next", NoBill, 0) ELSE Idle)
(* The rows of these runs get another status than 'running'.                *)
RowsMove(moved) ==
  /\ running' = running \ moved
  /\ asked' = [r \in Runs |-> IF r \in moved THEN {} ELSE asked[r]]
SetStatus(b, s) == status' = [status EXCEPT ![b] = s]
Act == count.acts < MaxActs /\ count' = [count EXCEPT !.acts = @ + 1]
Fault == count.faults < MaxFaults /\ count' = [count EXCEPT !.faults = @ + 1]

-----------------------------------------------------------------------------
(* Keying in, editing, approving, cancelling and matching a bill.           *)

(* bills.create: a draft, or a bill handed straight to finance.  Imports,   *)
(* scanned emails and the chat tool insert drafts.                          *)
Create(b) ==
  /\ status[b] = "none"
  /\ \E s \in {"draft", "pending_approval"}, t \in Amounts :
       SetStatus(b, s) /\ total' = [total EXCEPT ![b] = t]
  /\ UNCHANGED <<paid, matched, cash, proc, workflow, edited, count>>

(* bills.update writes the fields it is given, the status and the total     *)
(* among them, whatever the bill's status is.                               *)
Update(b) ==
  /\ status[b] # "none"
  /\ Act
  /\ \E s \in Status, t \in Amounts :
       /\ <<s, t>> # <<status[b], total[b]>>
       /\ SetStatus(b, s) /\ total' = [total EXCEPT ![b] = t]
  /\ edited' = edited \cup {b}
  /\ UNCHANGED <<paid, matched, cash, proc, workflow>>

(* bills.approve, and the stricter approveBill of the chat tools, read the  *)
(* bill and refuse a closed one ...                                         *)
BeginApprove(c, b) ==
  /\ IsIdle(c)
  /\ Open(b)
  /\ Act
  /\ Goto(c, At("approve", b, 0))
  /\ UNCHANGED <<bill, workflow, edited>>

(* ... and then write 'approved'.                                           *)
WriteApprove(c) ==
  /\ proc[c].pc = "approve"
  /\ SetStatus(proc[c].bill, "approved")
  /\ Done(c)
  /\ UNCHANGED <<total, paid, matched, cash, workflow, edited, count>>

(* bills.cancel reads the bill and refuses a closed one ...                 *)
BeginCancel(c, b) ==
  /\ IsIdle(c)
  /\ Open(b)
  /\ Act
  /\ Goto(c, At("cancel", b, 0))
  /\ UNCHANGED <<bill, workflow, edited>>

(* Mutant: a status the column does not have.                               *)
WriteCancelMisspelt(c) ==
  /\ proc[c].pc = "cancel"
  /\ SetStatus(proc[c].bill, "canceled")
  /\ Done(c)
  /\ UNCHANGED <<total, paid, matched, cash, workflow, edited, count>>

(* ... and then writes 'cancelled'.                                         *)
WriteCancel(c) ==
  /\ proc[c].pc = "cancel"
  /\ SetStatus(proc[c].bill, "cancelled")
  /\ Done(c)
  /\ UNCHANGED <<total, paid, matched, cash, workflow, edited, count>>

(* Invoice matching matches an unmatched bill to a purchase order (or finds *)
(* a variance); one it read as a matched draft it moves on later ...        *)
Match(c, b) ==
  /\ IsIdle(c)
  /\ status[b] \in {"draft", "pending_approval", "approved"}
  /\ b \notin matched
  /\ matched' = matched \cup {b}
  /\ \/ UNCHANGED proc
     \/ status[b] = "draft" /\ Goto(c, At("queue", b, 0))
  /\ UNCHANGED <<status, total, paid, cash, workflow, edited, count>>

(* ... whatever its status is by then.                                      *)
WriteQueue(c) ==
  /\ proc[c].pc = "queue"
  /\ SetStatus(proc[c].bill, "pending_approval")
  /\ Done(c)
  /\ UNCHANGED <<total, paid, matched, cash, workflow, edited, count>>

-----------------------------------------------------------------------------
(* payBill.                                                                 *)

(* It reads the bill, refuses a closed one and an amount above what is      *)
(* outstanding; in a run the refusal is caught and the next bill follows.   *)
Payable(b, amount) == Open(b) /\ amount > 0 /\ amount <= Outstanding(b)

(* bills.markPaid: the outstanding balance, or part of it.                  *)
MarkPaid(c, b) ==
  /\ IsIdle(c)
  /\ Act
  /\ \E amount \in 1..Outstanding(b) :
       Payable(b, amount) /\ Goto(c, At("insert", b, amount))
  /\ UNCHANGED <<bill, workflow, edited>>

RunPays(r) ==
  LET b == proc[r].bill  amount == proc[r].amount IN
  /\ proc[r].pc = "pay"
  /\ IF Payable(b, amount) THEN Goto(r, At("insert", b, amount)) ELSE Done(r)
  /\ UNCHANGED <<bill, workflow, edited, count>>

(* Mutant: the insert answers although there was no database.               *)
InsertNothing(p) ==
  /\ proc[p].pc = "insert"
  /\ \E inserted \in {0, proc[p].amount} : cash' = [cash EXCEPT ![proc[p].bill] = @ + inserted]
  /\ Goto(p, [proc[p] EXCEPT !.pc = "read"])
  /\ UNCHANGED <<status, total, paid, matched, workflow, edited, count>>

(* createPayment: the money leaves.                                         *)
InsertPayment(p) ==
  /\ proc[p].pc = "insert"
  /\ cash' = [cash EXCEPT ![proc[p].bill] = @ + proc[p].amount]
  /\ Goto(p, [proc[p] EXCEPT !.pc = "read"])
  /\ UNCHANGED <<status, total, paid, matched, workflow, edited, count>>

(* recordBillPayment reads the bill again ...                               *)
ReadBill(p) ==
  /\ proc[p].pc = "read"
  /\ Goto(p, [proc[p] EXCEPT !.pc = "write", !.base = paid[proc[p].bill], !.owed = total[proc[p].bill]])
  /\ UNCHANGED <<bill, workflow, edited, count>>

(* Mutant: the payment is added once more before the comparison.            *)
NextStatusTwice(p) ==
  IF proc[p].base + 2 * proc[p].amount >= proc[p].owed THEN "paid" ELSE "partially_paid"

NextStatus(p) ==
  IF proc[p].base + proc[p].amount >= proc[p].owed THEN "paid" ELSE "partially_paid"

(* ... and writes the sum, an absolute number, with the status it leads to. *)
WriteBill(p) ==
  LET b == proc[p].bill IN
  /\ proc[p].pc = "write"
  /\ paid' = [paid EXCEPT ![b] = proc[p].base + proc[p].amount]
  /\ SetStatus(b, NextStatus(p))
  /\ Done(p)
  /\ UNCHANGED <<total, matched, cash, workflow, edited, count>>

-----------------------------------------------------------------------------
(* A payment run.                                                           *)

StartRun(r) ==
  /\ IsIdle(r)
  /\ r \notin running
  /\ Goto(r, At("start", NoBill, 0))
  /\ UNCHANGED <<bill, workflow, edited>>

(* The orchestrator skips a workflow one of whose rows says 'running' ...   *)
ScheduleRun(r) ==
  /\ running = {}
  /\ StartRun(r)
  /\ UNCHANGED count

(* ... and triggerWorkflow does not look.                                   *)
TriggerRun(r) == Act /\ StartRun(r)

(* The row of the run is inserted several calls later.                      *)
InsertRun(r) ==
  /\ proc[r].pc = "start"
  /\ Goto(r, At("fetch", NoBill, 0))
  /\ running' = running \cup {r}
  /\ UNCHANGED <<bill, requests, due, asked, edited, count>>

(* The approved and scheduled bills with something outstanding, as read now.*)
Fetch(r) ==
  /\ proc[r].pc = "fetch"
  /\ due' = [due EXCEPT ![r] = {[bill |-> b, amount |-> Outstanding(b)] :
                                  b \in {x \in Bills : status[x] \in Fetched /\ Outstanding(x) > 0}}]
  /\ Done(r)
  /\ UNCHANGED <<bill, requests, running, asked, edited, count>>

(* The next bill is paid, or an approval is requested, by the amount read.  *)
TakeBill(r) ==
  /\ proc[r].pc = "next"
  /\ \E d \in due[r] :
       /\ due' = [due EXCEPT ![r] = @ \ {d}]
       /\ Goto(r, At(IF d.amount <= AutoPay THEN "pay" ELSE "file", d.bill, d.amount))
  /\ UNCHANGED <<bill, requests, running, asked, edited, count>>

(* requestApproval: at once approved, or filed, which moves the run's row   *)
(* to awaiting_approval.  The insert and that update are one step.  Nothing *)
(* moves the row back to 'running' afterwards.                              *)
FileRequest(r) ==
  LET auto == proc[r].amount <= AutoApprove IN
  /\ proc[r].pc = "file"
  /\ requests' = Append(requests, [bill |-> proc[r].bill, amount |-> proc[r].amount,
                                   status |-> IF auto THEN "auto_approved" ELSE "pending"])
  /\ IF auto
     THEN asked' = [asked EXCEPT ![r] = IF r \in running THEN @ \cup {Len(requests) + 1} ELSE @] /\ UNCHANGED running
     ELSE RowsMove({r})
  /\ Goto(r, [proc[r] EXCEPT !.pc = IF auto THEN "pay" ELSE "demote"])
  /\ UNCHANGED <<bill, due, edited, count>>

(* The bill whose payment was asked for goes back to pending_approval,      *)
(* whatever its status is by then.                                          *)
Demote(r) ==
  /\ proc[r].pc = "demote"
  /\ SetStatus(proc[r].bill, "pending_approval")
  /\ Done(r)
  /\ UNCHANGED <<total, paid, matched, cash, workflow, edited, count>>

(* Mutant: the run ends without its row being completed.                    *)
EndRunUnrecorded(r) ==
  /\ proc[r].pc = "next"
  /\ due[r] = {}
  /\ Goto(r, Idle)
  /\ UNCHANGED <<bill, workflow, edited, count>>

(* startWorkflow writes the end of the run, 'completed' even while approvals*)
(* are pending.                                                             *)
EndRun(r) ==
  /\ proc[r].pc = "next"
  /\ due[r] = {}
  /\ RowsMove({r})
  /\ Goto(r, Idle)
  /\ UNCHANGED <<bill, requests, due, edited, count>>

(* processApproval writes the decision to the request, whatever its status  *)
(* is, and then to the row of its run, which says 'running' no longer; that *)
(* write may fail.  Nothing else happens to the bill or to the payment.     *)
Decide(i) ==
  /\ i \in DOMAIN requests
  /\ \E s \in {"approved", "rejected"} : requests' = [requests EXCEPT ![i].status = s]
  /\ count.acts < MaxActs
  /\ \/ RowsMove({r \in running : i \in asked[r]}) /\ count' = [count EXCEPT !.acts = @ + 1]
     \/ /\ count.faults < MaxFaults
        /\ count' = [acts |-> count.acts + 1, faults |-> count.faults + 1]
        /\ UNCHANGED <<running, asked>>
  /\ UNCHANGED <<bill, proc, due, edited>>

-----------------------------------------------------------------------------
(* Errors and restarts.                                                     *)

(* An error in a request ends it.                                           *)
RequestFails(c) ==
  /\ ~IsIdle(c)
  /\ Fault
  /\ Goto(c, Idle)
  /\ UNCHANGED <<bill, workflow, edited>>

(* An error on one bill is caught, and the run goes on with the next.       *)
BillFails(r) ==
  /\ proc[r].pc \in {"pay", "file", "demote", "insert", "read", "write"}
  /\ Fault
  /\ Done(r)
  /\ UNCHANGED <<bill, workflow, edited>>

(* An error before the row is inserted ends the run without one; one outside*)
(* the loop ends it as well, and its row is written as failed, or, when that*)
(* fails too, keeps what it said.                                           *)
RunFails(r) ==
  /\ proc[r].pc \in {"start", "fetch"} \/ (proc[r].pc = "next" /\ due[r] = {})
  /\ Fault
  /\ RowsMove({r}) \/ UNCHANGED <<running, asked>>
  /\ Goto(r, Idle)
  /\ UNCHANGED <<bill, requests, due, edited>>

(* A restart: every handler is gone, the rows stay as they are.             *)
Restart ==
  /\ \E p \in Procs : ~IsIdle(p)
  /\ Fault
  /\ proc' = [p \in Procs |-> Idle]
  /\ due' = [r \in Runs |-> {}]
  /\ UNCHANGED <<bill, requests, running, asked, edited>>

-----------------------------------------------------------------------------
Pays(p) == InsertPayment(p) \/ ReadBill(p) \/ WriteBill(p)

RequestStarts(c) == \E b \in Bills : BeginApprove(c, b) \/ BeginCancel(c, b) \/ MarkPaid(c, b) \/ Match(c, b)
RequestContinues(c) == WriteApprove(c) \/ WriteCancel(c) \/ WriteQueue(c) \/ Pays(c)

RunContinues(r) ==
  \/ InsertRun(r) \/ Fetch(r) \/ TakeBill(r) \/ RunPays(r) \/ FileRequest(r) \/ Demote(r) \/ EndRun(r)
  \/ Pays(r)

RowChanges ==
  \/ \E b \in Bills : Create(b) \/ Update(b)
  \/ \E i \in DOMAIN requests : Decide(i)

Failures ==
  \/ \E c \in Callers : RequestFails(c)
  \/ \E r \in Runs : BillFails(r) \/ RunFails(r)
  \/ Restart

Next ==
  \/ RowChanges
  \/ \E c \in Callers : RequestStarts(c) \/ RequestContinues(c)
  \/ \E r \in Runs : ScheduleRun(r) \/ TriggerRun(r) \/ RunContinues(r)
  \/ Failures

Spec == Init /\ [][Next]_vars

(* The interval keeps starting runs, and the event loop continues whatever  *)
(* has begun; nobody has to click.                                          *)
Fairness ==
  /\ \A c \in Callers : WF_vars(RequestContinues(c))
  /\ \A r \in Runs : WF_vars(ScheduleRun(r)) /\ WF_vars(RunContinues(r))

FairSpec == Spec /\ Fairness

-----------------------------------------------------------------------------
(* Properties.                                                              *)

(* No bill shows more money as paid than its payments rows add up to,       *)
(* however requests, runs, errors and restarts interleave: the payment is   *)
(* inserted before the bill is advanced, and a lost update only lowers it.  *)
ShownIsPaidOut == \A b \in Bills : paid[b] <= cash[b]

(* A bill whose status and total nobody edited by hand is only 'paid' once  *)
(* payments rows cover it.                                                  *)
PaidIsCovered == \A b \in Bills \ edited : status[b] = "paid" => cash[b] >= total[b]

(* As long as nothing fails, every bill finance approved leaves the         *)
(* statuses the runs look at: a run pays it, or asks and hands it back.     *)
WaitingForRun(b) == status[b] \in Fetched /\ Outstanding(b) > 0
ApprovedBillsAreReached ==
  [](count.faults = 0) => \A b \in Bills : WaitingForRun(b) ~> ~WaitingForRun(b)

(* What a document says, and the code does not do.                          *)

(* "paid bills cannot be cancelled or re-paid" (docs/PROCESS_FLOWS.md):     *)
(* the payments of a bill never exceed its total.                           *)
NeverRepaid == \A b \in Bills \ edited : cash[b] <= total[b]
=============================================================================
