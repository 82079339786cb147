# Formal model of the AI ERP system

TLA+ specifications of the parts of this repository whose correctness depends on
order: what happens when requests, interval callbacks, errors and restarts fall
between two database calls of a handler. TLC checks them on small instances; TLAPS
proves some of the results for all values of the constants.

1. [The system](#1-the-system)
2. [Modelling conventions](#2-modelling-conventions)
3. [AgentTasks: the agent's approval queue](#3-agenttasks)
4. [AgentRules: the scheduler's callback](#4-agentrules)
5. [ProjectTasks: project tasks handed to the agent](#5-projecttasks)
6. [LotStock: lot stock and the movement ledger](#6-lotstock)
7. [CycleCounts: counting that stock](#7-cyclecounts)
8. [PayableBills: bills and payment runs](#8-payablebills)
9. [Outreach: email sequences and campaigns](#9-outreach)
10. [Disagreements found](#10-disagreements-found)
11. [What is proved and what is only checked](#11-proofs)
12. [Inventory of the components](#12-inventory)
13. [Plan](#13-plan)

## 1. The system

A TypeScript monolith: a React client, an Express/tRPC server (`src/server`), a
MySQL schema in Drizzle (`src/drizzle/schema.ts`). `server/db.ts` is the database
layer, `server/routers/*.ts` the procedures people call. Besides them the process
runs `setInterval` loops: the agent scheduler, the orchestrator of the workflows,
the runner of email sequences, the mail queue worker, and others.

There is one Node process, so JavaScript between two `await`s is atomic, and every
`await` on the database is a place where any other handler may run. Few handlers use
a transaction. What protects the others is, by component, a compare-and-set on a
status column, a lease, a status read earlier, or nothing. An interval fires whether
or not its previous callback is done; some loops guard against that, some do not.

How the modelled parts meet:

    people ──tRPC──► aiAgent router ───┐                 ┌─ rules (AgentRules)
    chat, meetings ──────────insert────┼─► aiAgentTasks ◄┤   one callback:
    projects router ─insert, cancel────┘     │  ▲        └─ executeApprovedTasks
        ▲                                    │  └─ claim        │ execute
        └── projectTasks ◄─── write back ────┘        deals, emails, orders, …
                                                      (AgentTasks, ProjectTasks)
    people ──tRPC──► bills router ──┐
    invoice matching ───────────────┼──► bills, payments ◄── payment runs
                                    │                         ▲  start, skip
    people ──approve──► approval queue ◄── request ── payment runs ◄── orchestrator
                                                                  (PayableBills)
    people ──tRPC──► inventory routers ──► lot balances, aggregate, movement ledger
    people ──tRPC──► cycle counts ──adjust──────────▲       (LotStock, CycleCounts)

    interval ──► sequence steps, then due campaigns ──► mails ◄── people send
    people ──tRPC──► sequences, enrollments, campaigns, opt-outs       (Outreach)

Four groups share no row that two of them write, so they are modelled apart. Within
a group the modules are composed: `AgentRules` and `ProjectTasks` each extend
`AgentTasks` and change its rows only through its actions; `CycleCounts` posts its
variances with the steps of `LotStock`; `Outreach` runs `SequenceRunner` and
`CampaignSender` one after the other in one tick, over the same contacts.

## 2. Modelling conventions

- A handler is a process. It is *idle*, or `proc[p]` (in LotStock `todo[c]`) says
  which database call it makes next and what it carries from its earlier reads. Each
  database call that another handler can tell apart is one action. JavaScript between
  two calls belongs to the action of the call before it.
- A row that does not exist has the status `"none"`. Autoincrement ids are never used
  again, so a deleted row is not `"none"`.
- Data is reduced to what the properties tell apart: `taskData` is a version number,
  amounts and quantities are small whole numbers, texts are left out.
- Failures: a database error sends the handler to the `catch` the code has; a restart
  ends every handler at once and leaves every row as it is. Both are bounded by
  `MaxFaults`.
- Variables commented *history* are not in the program; they record what the
  properties speak of. Guards never read them, except for bounds.
- Bounds are constants named `Max…` (`MaxGrants`, `MaxEdits`, `MaxVisits`,
  `MaxCardEdits`, `MaxLapses`, `MaxActs`, `MaxCalls`, `MaxQty`, `MaxLines`, `MaxEvents`,
  `MaxFaults`, …). Once people have used them up the system may rest, hence
  `CHECK_DEADLOCK FALSE` in every configuration. That handlers do not get stuck is
  a property of its own (the liveness properties below).
- `agent_errand`, `agent_project` and `stock_count` explore a large model in smaller
  regions, with a `CONSTRAINT` named `MCBounds` in their MC module. TLC checks the
  invariants in the first state outside as well, and does not go on from it. No liveness
  is checked under a constraint. What the regions leave out is said with each run.
- An operator whose comment begins with "Mutant" stands beside the definition it
  varies: the same code with a plausible bug. Substituting it for the original makes
  the property it was written for fail. No specification uses it.

## 3. AgentTasks

Modules: `AgentTasks`, the abstract `ApprovalLedger`, `MCAgentTasks`,
`AgentTasksProofs`.

**Code.** `routers/aiAgent.ts`, `aiAgentScheduler.ts` (`executeApprovedTasks`),
`aiAgentTaskExecutor.ts` (`claimAgentTask`, `executeAgentTask`), the cancellation in
`taskAgentBridge.ts`, `db.ts` (`updateAiAgentTask`, `bulkDeleteAiAgentTasks`).

The agent drafts; nothing it drafts is executed before an admin approves it or a rule
without the approval requirement inserts it approved. Executions send emails and
create orders, so one approval must pay for one execution. What secures it is one
statement, `UPDATE … SET status='in_progress' WHERE id=? AND status=?`, and the number
of rows it affected.

| State | Code |
|---|---|
| `status[t]` | `aiAgentTasks.status`, with `"none"` and `"deleted"` |
| `data[t]` | version of `taskData` |
| `deals[c]` | CRM deals created for a company |
| `proc[p]` | the handler of an admin request or of a tick: next call, operation, row |
| `queue[k]` | rows a tick has read as approved and not reached |
| `grants[t]`, `runs[t]` | history: approvals given, executions begun after a won claim |

| Actions | Code |
|---|---|
| `Create`, `CreateApproved`, `BulkDelete` | the inserts and the delete |
| `Approve`, `Reject` | one write each, whatever the status is |
| `BeginUpdate`/`WriteUpdate`, `BeginCancel`/`WriteCancel` | status read, then write |
| `BeginExecute`, `BeginInline`, `WinClaim`, `LoseClaim` | `execute` and `approveAndExecute` |
| `TickRead`, `TickClaim`, `TickSkip` | a tick's batch of `maxConcurrentTasks`, claimed row by row |
| `RunTask`, `LookUpDeal`, `CreateDeal` | the execution; for a deal, the duplicate check and the insert |
| `RecordOutcome`, `TickRecord`, `WriteLog` | the recording and the log row |
| `TickCatch`, `TickCatchWrite`, `TickAborts`, `DealCatch`, `RequestFails`, `Restart` | the error paths |

**Properties.** `OneRunPerApproval`: no row is executed more often than approved.
`SingleApprovalSingleExecutor`: a row approved once has one executor at a time, and its
status says so. `OnlyApprovalReleases` (action property): only a fresh approval brings
a row into `approved` or `in_progress`; recording over a rejected row, the `catch` of
the loop and a restart do not. `ImplementsLedger`: refinement of `ApprovalLedger` under
`unspent <- {t : status[t] = "approved"}`. `DealsAreBacked`: no deal without an
approval or claimed execution for its company. `ApprovedIsTakenUp`, `InProgressEnds`:
the interval takes up every approved row and every claimed row is recorded.

| Run | Instance | Shows |
|---|---|---|
| `agent_flow` | an errand and a deal, 1 request, 1 tick that reads one row at a time, 2 approvals, fair; one of them alone from its insert, with an edit and 2 faults; both, inserted and edited, with 1 fault | `TypeOK`, `DealsAreBacked`, `ImplementsLedger`, `ApprovedIsTakenUp`, `InProgressEnds` |
| `agent_errand` | section 4 | the safety properties, next to the rules |
| `agent_errand_twice` | an errand, 2 requests, 2 ticks | finding 1 |
| `agent_two_deals` | a deal, 1 request, 1 tick | finding 2 |

*Bounds.* A second approval is needed for the stale-approval cases, a third only repeats
the second. With one row to a batch the limit leaves the other approved row to a later
tick, which is where taking up every row could fail. Ticks that read two rows and carry
one across the execution of the other are in `agent_errand`, with its rules. Two faults
let the `catch` of the loop fail as well. The theorems lift the bounds for the
invariants.

*Left out.* A deal row is for one company (`Company`) throughout: an update of `taskData`
that names another contact is not in the model. `DealsAreBacked` counts approvals and deals
by company, so it says nothing of an approval that such an edit turns to another company.

*Fairness.* Weak fairness of each begun handler's next step (the event loop runs
every continuation; database calls return) and of the ticks' read (the interval keeps
firing). None for people: nobody has to approve. `ApprovedIsTakenUp` holds with
faults: whatever cuts a tick short, a later one reads the row again. `InProgressEnds`
is stated for behaviours without faults: after a crash between claim and recording,
nothing in the code reclaims an `in_progress` row, and no document says it should.

## 4. AgentRules

Modules: `AgentRules` (extends `AgentTasks`), `MCAgentRules`, `AgentRulesProofs`.

**Code.** `aiAgentScheduler.ts`: the callback of `startScheduler`, `evaluateRules`,
`hasOpenTaskForRule`, `hasOpenTaskForEntity`, the `create…Task` functions.

A callback evaluates the active rules one after the other and then executes what is
approved. For each rule it looks for an open row of the rule, evaluates the condition,
asks a language model for a draft, inserts the row, reads it back, logs it, and stamps
the rule. Rows carry no rule id; the log row links the two. The model call takes
seconds and the interval does not wait for its callback, so callbacks overlap.

| State | Code |
|---|---|
| `eval[k]` | where callback `k` is: rules left, rule, target and row at hand |
| `recent` | rules whose `lastTriggeredAt` is younger than `checkFrequencyMinutes` |
| `logged` | rows a `rule_triggered` log row points to |
| `origin[t]`, `about[t]` | the rule that drafted `t`; the vendor, RFQ or order it is for |
| `crowd`, `lapses`, `reopened` | history: most callbacks evaluating at once; evaluations cut short; rows approved after they were decided |

| Actions | Code |
|---|---|
| `BeginEvaluate` | the interval fires, the active rules are read |
| `AskRule`, `AskTarget` | the two searches for an open row |
| `InsertTask`, `LoadTask`, `LogTrigger`, `StampRule` | the insert (pending, or approved for a rule that may), and what follows it |
| `EvaluationFails`, `LogError`, `AbandonRules` | the `catch` around one rule, and the one around all |
| `TakeUp` | `executeApprovedTasks` is called: `TickRead` of `AgentTasks` |
| `RestartAll`, `Elapse`, `Decide` | restart, time, an approval that may reopen a row |

**Properties.** `OneWaitingPerRule`: a rule has one row waiting, plus one for each
further callback that overlapped and for each evaluation cut short.
`OneWaitingPerTarget`: about one vendor (RFQ, order) the rules have one row waiting,
plus one for each callback that overlapped; errors and different rules add none, because
this search goes by the rows. The slack is what the code does.
`docs/PROCESS_FLOWS.md:110` says the evaluation creates "one pending task and never a
duplicate", and the comment at lines 81-83 that the check prevents duplicates; both hold
only while callbacks do not overlap and the log is written. `NeverADuplicate` states
line 110 as it stands and is violated (finding 5); the other two bound by how much. A
row approved again after it was decided, and (for targets) one whose `taskData` was
edited by hand, are not counted: the update procedure stores the text as typed, and the
search of line 373 is for a fragment as the scheduler formats it, so an edit may hide
the row.

| Run | Instance | Shows |
|---|---|---|
| `agent_errand` | batches of 2; errand alone: 2 requests, 2 overlapping callbacks, 2 approvals, 1 edit, 2 faults | `OneRunPerApproval`, `SingleApprovalSingleExecutor`, `OnlyApprovalReleases` |
| | rules alone: 2 rules, 1 vendor, 3 drafted rows; one callback at a time with an evaluation cut short, a decided row or an edit; or two that overlap | `RuleTypeOK`, `OneWaitingPerRule`, `OneWaitingPerTarget` |
| `agent_duplicate` | 1 rule, 2 rows, 2 callbacks, no faults, no edits | finding 5 |

*Bounds.* A claim race needs two claimants: with two requests and two callbacks every
pair meets (request/request, request/tick, tick/tick), with a third to interfere. Two
faults allow an error and a restart of the same row. One rule drafts orders (and may
insert them approved), the other re-quotes without a target. Three rows are a row, its duplicate, and the
one too many. The errand and the rules touch different rows, so they
are explored one at a time; theorem `RulesUseTheQueue` covers them together.

## 5. ProjectTasks

Modules: `ProjectTasks` (extends `AgentTasks`), `MCProjectTasks`,
`ProjectTasksProofs`.

**Code.** `taskAgentBridge.ts`, the task procedures of `routers/projects.ts`, the calls
of the bridge in `routers/aiAgent.ts` and `aiAgentScheduler.ts`.

Handing a project task to the agent cancels the row of an earlier hand-over, inserts an
agent row and links the task to it. Whoever changes the row afterwards
(the admin's request, the scheduler) writes its status back to the task, and every read
of a project page does so too. The end of a row notifies the project's members once:
the affected rows of a conditional update decide who.

| State | Code |
|---|---|
| `card` | `projectTasks`: `status`, `assigneeType`, `assigneeAgentTaskId` |
| `desk[m]` | a member's request or a write-back: next call, row, what it has read |
| `handed` | agent rows whose `relatedEntity` is this task |
| `visits`, `edits`, `told[t]` | requests; statuses written by hand; history: notifications |

| Actions | Code |
|---|---|
| `BeginAssign`, `CheckOpen`, `ReadLink`, `InsertRow` | `assignTaskToAgent` |
| `ReadOpenRow`, `CancelRow` | `cancelAgentTaskIfOpen`: the steps `BeginCancel`, `WriteCancel` of the queue |
| `TakeBack`, `HandToHuman` | `reassignProjectTaskToHuman` |
| `BeginSync`, `BeginReconcile`, `ReadCard`, `ReadRow`, `WriteBack`, `Notify` | the write-back, both ways of starting it |
| `EditCard`, `DeleteCard`, `DeskFails`, `RestartAll` | `updateTask`, `deleteTask`, errors, restart |

A write-back may begin at any time: it follows a decision or a recording after the log
writes of that handler, and precedes every read of a page.

**Properties.** `ToldOnce`: the end of a row is told once, and once more for each status
set by hand ("concurrent callers cannot notify twice"). `CompletedWasRun`: a task
nobody edited that shows as completed by the agent is linked to a row that was executed:
no late write-back of a superseded row lands on it.

| Run | Instance | Shows |
|---|---|---|
| `agent_project` | 2 rows, 2 members' requests of 3 in all, 1 admin, one fault or one edit | `ProjTypeOK`, `ToldOnce`, `CompletedWasRun` |

*Bounds.* Two rows are a hand-over and its successor. Two requests at once meet in every
pair of calls; a third follows both. The constraint gives every row of the queue to this
task and allows a fault or an edit, not both; scheduler ticks are left out, since an
inline execution makes the same changes to the row. The theorems cover all of it.

What the model shows besides, and no property states: two assignments at once each cancel
the row they have read, so an open row remains that the task is not linked to and that can
be approved and run, although `taskAgentBridge.ts:43-44` says a superseded errand never
can be; and `bulkDelete` of a linked row leaves the task with the agent.

## 6. LotStock

Modules: `LotStock`, `Sums` (totals over a finite set and its listing in order, the two
data operators stock needs), `MCLotStock`; `StockProofs`, `BalanceProofs`,
`Totals` (section 11).

**Code.** The stock primitives of `db.ts` (`createWorkOrderOutput`,
`pickInventoryFEFO`, `shipInventory`, `reserveInventory`, `releaseReservation`,
`adjustInventoryQuantity`, `moveBetweenBins`, `sweepExpiredLots`,
`upsertInventoryBalance`, `updateInventoryQuantity`), `fefo.ts`, and the procedures
that call them in `routers/inventory.ts`, `inventoryLots.ts`, `warehouseLocations.ts`.

The stock of a product in a warehouse is stored twice, in lot balances
(`inventoryBalances`: lot, bin, status, quantity) and in an aggregate row
(`inventory.quantity`), with a movement ledger (`inventoryTransactions`) that should
explain both. No primitive runs in a transaction. A handler reads, decides, and then
makes a list of writes; `todo[c]` is that list, and each element is a step.

| State | Code |
|---|---|
| `rows` | the balances in the order of their ids; rows are emptied, never deleted |
| `lotStatus[l]` | `inventoryLots.status` |
| `agg` | `inventory.quantity` |
| `posted` | the net quantities of the ledger: entries with a lot, all entries |
| `todo[c]` | the calls a handler still has to make |
| `pick[c]`, `count` | history: last pick's request and shipments; calls, faults, production |

The operations are the actions `Produce`, `Pick`, `Reserve`, `Release`, `Adjust`,
`SetQuantity`, `Move`, `Sweep`, `UpdateStatus` up to their first read; `…Resolve` is a
later read on which the rest of the handler depends; `LookupRow`, `PutRow`,
`InsertRow`, `SetRow`, `WriteAgg`, `Increment`, `ExpireLot`, `PostEntry` are the single
calls. `CutShort` ends a handler between two calls: an error, a crash. FEFO
selection is a set of pure operators (`Before`, `SortByFefo`, `Ahead`, `Select`) used by
`Pick`: where the code sorts the rows and takes from each until the quantity is covered,
`Ahead(r)` is what the rows sorted before `r` hold, and a row is selected when that is
less than the quantity asked for. The sort is total on the rows (no two bins share a
place on the walk, the sort is stable), so the list is the one the code computes.

**Properties.** `LotsAttributable` and `StockAttributable`: at rest the lot balances
equal the ledger's entries for lots, and the aggregate equals the whole ledger.
`PickFollowsFefo`: when an allocation is about to ship, no lot that should have gone
first has available stock. `NoStockFromNothing`: while no bin is used, a reservation,
release or shipment cut short anywhere loses stock at worst. `PickIsWhole`: a pick that
nothing disturbs ships everything or nothing, even though it ships allocation by
allocation.

| Run | Instance | Shows |
|---|---|---|
| `stock_count` | section 7 | all of the above, with the counts |
| `stock_stores` | one lot, one bin, production, reservations, adjustments and moves | finding 3 |

`StoresInStep`: at rest a lot's balances and the aggregate differ only by what was posted
without a lot, so reservations, releases and moves change neither and adjustments change
both. TLC's trace has a second reservation overwrite the first. An
adjustment after the lot was put away in a bin violates it as well: `db.ts:8574` reads a
balance in any bin and `db.ts:8606` writes the sum to the unbinned one.

*Left out.* `inventory.create` with an initial quantity (`routers/inventory.ts:29-44`) writes
an aggregate without a ledger entry, so `StockAttributable` speaks of stock that came in by
the other operations. A move into a blocked bin is refused by the code (`db.ts:7767`) and has
no bin status to look at in the model; the refusal changes nothing. Two first inserts of an
aggregate (`db.ts:8613`) would be two rows; the model has one number. (Duplicate
first inserts of a *balance* are in the model, since `rows` is a list.)

*Concurrency.* The runs have one caller: with two, attributability fails at once
through the lost updates listed in the hazards, and the repository promises nothing
for that case (`inventory.ts` and `updateInventoryQuantity` use row locks; the other
primitives do not). The module has any number of `Callers`. There is no liveness to
state: handlers are finite lists. Expiry dates are constants because nothing in
`src/server` writes the lots' `expiryDate`, although `README.md:476` of the repository
speaks of assigning them during receiving.

## 7. CycleCounts

Modules: `CycleCounts` (extends `LotStock`), `MCCycleCounts`, `StockProofs`,
`BalanceProofs`.

**Code.** `routers/cycleCounts.ts`, `cycleCountLogic.ts`, and in `db.ts`
`generateCycleCountLines` and `approveCycleCount`.

A count snapshots the balances into lines (or the aggregate, when the product has no
balance), people record what they find, and approval posts each line's variance with
`adjustInventoryQuantity`, skipping a line whose posting throws. No transaction, and no
look at what a line's status was.

| State | Code |
|---|---|
| `sheet` | `cycleCounts.status` |
| `lines` | `cycleCountLines`: system and counted quantity, status; as history, the balance a line was taken from and the calls before |
| `desk[c]` | the request about the count: next call, what it has read |
| `posts` | history: ledger entries posted for each line |

| Actions | Code |
|---|---|
| `Create`, `BeginGenerate`, `ClearPending`, `ReadBalances`, `ReadAggregate`, `InsertLines` | `create`, `generateLines` |
| `BeginRecord`, `WriteRecord`, `FlagForRecount` | `recordLine`, `flagForRecount` |
| `BeginMove`, `ReadLines`, `WriteStatus` | `start`, `submitForReview`, `cancel`, and the ends of `approve` |
| `PostVariance`, `PostedLine`, `SkipLine`, `StampLine` | the loop of `approveCycleCount` around the calls of an adjustment |
| `RequestFails` | an error elsewhere, a restart |

**Properties.** `ApprovedIsPosted`: a line marked approved that shows a variance has a
ledger entry for it, whatever was skipped, cut short and begun again. `CountSettles`:
a count approved as a whole, with every line counted, no balance in two lines or in a
bin, and nothing else moved since the snapshot, leaves each lot at what was counted,
wherever it was counted. `PostedAgainOnlyAfterFault`: one entry for each line, and a second one
only when an approval was cut short and begun again.

The conditions are what the code does not secure, and the model reaches each of them: a
retried approval (or, with two callers, an overlapping one) posts a variance twice,
because the loop never looks at `line.status`; a line flagged for recount while the
draft is generated again survives (`db.ts:8727` speaks of regenerating without
duplicates), so a balance stands in two lines; a line flagged during review is approved
uncounted; and posting the variance of a binned lot writes the sum of one row into another
(finding 3).

| Run | Instance | Shows |
|---|---|---|
| `stock_count`, `Floor` | lots 1 (undated), 2 (dated), 3 (expired), up to 5 calls of up to 2, no bins, no reservations, no faults | `LotsAttributable`, `StockAttributable` |
| `stock_count`, `Shelf` | lots 1 and 2, two bins, up to 5 calls, one cut short | `PickFollowsFefo`, `NoStockFromNothing`, `PickIsWhole` |
| `stock_count`, `Counting` | lot 1 or the aggregate alone, up to 2 stock calls, 2 lines, a fault in review | `ApprovedIsPosted`, `CountSettles`, `PostedAgainOnlyAfterFault` |

*Bounds.* Five calls cover the longest chain whose parts interact: produce two lots,
reserve or put away, release or adjust, pick. Quantities up to 2 make an allocation
smaller than, equal to and larger than a row. Three lots cover the classes of the
expiry comparison: none, future, past. Two lines are two balances of a lot (available and
reserved or in quarantine), or a line and its repetition. A count of stock in bins is left out
of the run: adjustments read and write different rows then (finding 3).

## 8. PayableBills

Modules: `PayableBills`, `MCPayableBills`, `PayableBillsProofs` (with `Totals`).

**Code.** `billsService.ts` (`payBill`), `billsLogic.ts`, `routers/bills.ts`, `db.ts`
(`recordBillPayment`, `updateBill`), the payment and invoice-matching processors of
`workflowProcessors.ts`, `autonomousWorkflowEngine.ts` (`startWorkflow`,
`requestApproval`, `processApproval`), `supplyChainOrchestrator.ts`
(`runScheduledWorkflows`, `triggerWorkflow`).

`payBill` serves both the button and the workflow: read the bill, refuse a closed one
or too large an amount, insert a payments row, read the bill again, write
`amountPaid` and the status. The workflow reads the approved and scheduled bills once,
then pays each small one and asks for approval of each large one. The orchestrator's check
for a running row and the insert of a run's own row (`StartRun`, `InsertRun`) are several
calls apart, so two runs can both pass the check. `processApproval` writes its decision
to the request and to the row of the request's run (`Decide`); the second write may fail.

| State | Code |
|---|---|
| `status`, `total`, `paid`, `matched` | the columns of `bills` |
| `cash[b]` | sum of the bill's `payments` rows |
| `requests` | rows of the approval queue |
| `proc[p]` | a request or a run: next call, bill, amount, and what it read (`base`, `owed`) |
| `due[r]` | what a run fetched and has not reached |
| `running` | runs whose row of `workflowRuns` says running, with or without a live run behind it |
| `asked[r]` | requests that carry the id of such a row: a decision on one moves it |
| `edited`, `count` | history: bills edited by hand; acts of people, faults |

**Properties.** `ShownIsPaidOut`: no bill shows more as paid than its payments add up
to; it rests on the order insert-then-advance and holds across lost updates, errors and
restarts. `PaidIsCovered`: a bill nobody edited by hand is `paid` only when payments
cover its total. `ApprovedBillsAreReached`: without failures, a bill in a status the
runs look at leaves it: it is paid or handed back, whatever runs overlap.

| Run | Instance | Shows |
|---|---|---|
| `bills_ledger` | one bill of 2 or 3, pays 1 unasked and approves 2 at once, 1 request, 2 runs, 2 acts of people, 2 faults | `TypeOK`, `ShownIsPaidOut`, `PaidIsCovered`, `ApprovedBillsAreReached` |
| `bills_repaid` | one bill, 1 request, 1 run, no faults | finding 4 |

*Bounds.* No action relates two bills except the order in which a run
takes them, so one bill meets all interleavings of the three handlers; the thresholds
put its outstanding balance in each class (pay, auto-approve, ask) as it
shrinks. Two runs are needed for the skip rule and for a manual run beside it, two
faults for a failed write after an insert followed by a restart.

*Fairness.* Weak fairness of every begun handler's next step and of the scheduled
start of each run: the orchestrator's interval keeps firing and its body is short. None
for people and none for `triggerWorkflow`. `ApprovedBillsAreReached` is stated for
behaviours without faults: after a restart a row may say `running` for good
(`running` without a run), and the interval then skips the workflow for ever. The model has it;
no document says what should happen.

What the model shows besides, and no property states: approving a request resumes nothing.
No loop reads approved requests, although the comment at
`autonomousWorkflowEngine.ts:614` says the scheduler picks them up; the bill stays in
`pending_approval`, where no run looks.

Not in the model: escalation of requests (`checkEscalations`), due dates (every
bill is due), the purchase order a bill is matched to, half-cent tolerances (amounts
are whole).

## 9. Outreach

Modules: `SequenceRunner`, `CampaignSender`, `Outreach` (composes the two),
`MCOutreach`, `OutreachProofs`.

**Code.** `sequenceRunner.ts` (`runEmailOutreachTick`, `runDueSequenceSteps`), the claims in
`db.ts`, `routers/emailSequences.ts`, `campaignSender.ts` (`sendCampaign`,
`runDueCampaigns`), the campaign procedures of `routers/crm.ts`, the opt-outs.

A tick sends the due steps of all sequences, at most 200 rows (`TickLimit`) of those
due, then the due campaigns. A flag keeps ticks
of a process apart. An enrollment is claimed by pushing its `nextSendAt` out by a lease,
so that another tick takes it up if this one dies. A campaign is claimed by a
compare-and-set on its status, or taken over when it has been `sending` for 30 minutes;
several workers then claim and mail its recipients one by one. An error in one worker
ends `sendCampaign` while the others go on.

| State | Code |
|---|---|
| `phase` | what the tick is at |
| `sequence`, `steps`, `enr` | `emailSequences`, `emailSequenceSteps`, `emailSequenceEnrollments`; time stamps by how they compare with the tick's `now` |
| `tick`, `req[q]` | the tick's next call and what it has cached; a request's pending write |
| `campaign`, `dated`, `stale`, `rcp` | `crmEmailCampaigns` (status, `scheduledAt` set, updated half an hour ago), `crmCampaignRecipients` |
| `run[s]`, `job[s][r]`, `clerk[q]` | a call of `sendCampaign` (also when detached: it has ended, workers are left), its workers, other requests |
| `opted` | contacts `mailableSkipReason` refuses |
| `copies`, `late`, `mailed`, `lost`, `forced` | history: copies of a step and of a campaign, mails after an opt-out, copies whose success was answered with an error, `sending` written by hand |

| Actions | Code |
|---|---|
| `ClaimEnrollment`, `SkipEnrollment`, `LoadSequence`, `LoadSteps`, `ReadContact`, `SendStep`, `RecordSent`, `RecordRefused`, `WriteEnd`, `Defer` | one enrollment in `runDueSequenceSteps`; `TickCatches` its `catch` |
| `SetSequence`, `AddStep`, `DeleteStep`, `BeginDelete`/`FinishDelete`, `BeginEnroll`, `BeginPause`, `BeginResume`, `BeginUnenroll`, `WriteRequest` | `routers/emailSequences.ts` |
| `ClaimCampaign`, `ResetFailed`, `ListPending`, `ReadContacts`, `Finish`, `Catch` | `sendCampaign` |
| `ClaimRecipient`, `Mail`, `WriteRecipient`, `WorkerFails`, `DetachedEnds` | its workers |
| `UpdateCampaign`, `BeginSchedule`, `BeginUnschedule`, `BeginAdd`, `BeginRemove`, `WriteClerk`, `BeginSend` | `routers/crm.ts` |
| `TickStarts`, `CampaignDue`, `NothingDue`, `TickDone`, `Restart` | the tick and the process |

**Properties.** `CopiesArePaidFor`: a contact gets a second copy of a step only after a
crash, an error or a lost answer between send and recording; claims, leases, retries and
edits of the steps add none. (`_core/index.ts:1597-1598` says restarts and overlap "never
double-send"; `NeverDoubleSent` states it and is violated: finding 6.)
`OneLateStep`: after an opt-out at most the mail whose contact had been read leaves.
`RecipientMailedOnce`: a recipient gets one copy, and one more for each lost answer,
whatever runs overlap, are taken over or live on detached. `EnrollmentsEnd`: while the
sequence stays active every active enrollment leaves that status, whatever crashes.
`ScheduledGoesOut`: a campaign scheduled for a date is taken up or withdrawn.
`SendingEnds`: without faults a campaign does not stay in `sending`, unless somebody
wrote that status by hand.

| Run | Instance | Shows |
|---|---|---|
| `outreach_tick` | three contacts, two steps (one on the same day), ticks that read two rows, two recipients, two runs, two workers, one request of each kind, in five worlds: one enrollment and 2 events; a campaign in preparation or with one recipient and 2; one with two recipients and 1; both and none; three enrollments in a sequence of one step and 1 | all of the above and `TypeOK` |
| `outreach_resent` | the same with one attempt for each send | finding 6 |

*Bounds.* `TickRead` takes any `TickLimit` of the due rows: the code orders them by
`nextSendAt`, which the model's two classes of due and later do not tell apart. Where
three contacts are enrolled a tick leaves one over, and rows share a tick's cached
sequence and steps. An event is an act of a person or a fault, and there is at most one
fault. Two events are two acts that meet in the calls of a tick, or an act and a crash.
Two runs are a sender and the one that takes over from it, two recipients one that is
mailed and one that is waiting. The theorems lift the bounds for `TypeOK` and the three
safety properties.

*Fairness.* One weak fairness condition for the tick and for the passing of time
(the interval fires, a begun tick goes on, rows become due), one for some run of
`sendCampaign` going on. None for people, faults, or the half hour after which a
campaign may be taken over.

What the model shows besides, and no property states. `resume` reads the status and writes
without it, so a resume that overlaps an unenroll reactivates a contact that was stopped
"for good" (`routers/emailSequences.ts:241`). `addRecipients` reads the recipients and
inserts the new ones in a second call, with no unique key, so two of them give one contact
two rows, although `db.ts:14350` says it skips contacts already on the campaign;
`RecipientMailedOnce` is per row. A recipient whose outcome could not be written stays
`sending` and is never mailed, by design.

## 10. Disagreements found

Each is a run whose only property states what a comment or document says; TLC gives a
behaviour of the code that violates it.

1. `agent_errand_twice`: `approve` writes `approved` whatever the status is, so a stale
   approval of an errand that `approveAndExecute` is executing makes it claimable again.
   `routers/aiAgent.ts:254-258` says it "can never be double-executed".
2. `agent_two_deals`: `approve` of a deal creates the deal itself without claiming the
   row; the scheduler claims it; both check for duplicates before either inserts.
3. `stock_stores`: `reserveInventory` passes its quantity to a helper that writes it as
   the absolute quantity of the reserved row: a second reservation overwrites the first, and
   stock leaves the lot balances without a shipment (`db.ts:7481`). Adjusting a lot that
   lies in a bin breaks the same property (section 6).
4. `bills_repaid`: two callers of `payBill` read the same outstanding balance and both
   pay it. `docs/PROCESS_FLOWS.md:72` says paid bills cannot be re-paid.
5. `agent_duplicate`: two callbacks of the scheduler overlap, both find no open row of a
   rule and each insert one. `docs/PROCESS_FLOWS.md:110` says "Evaluation creates one
   pending task and never a duplicate".
6. `outreach_resent`: a restart between the send of a step and its recording; the lease
   elapses and the step is sent again. `_core/index.ts:1597-1598` says restarts never
   double-send.

Four more promises the model contradicts have no run: the superseded errand (section 5), the
resumed payment (section 8), the contact stopped for good, and the recipients already on a
campaign (section 9). Each follows from one or two overlapping requests.

## 11. Proofs

Assumptions: only the named assumptions on the constants (`TasksAssumption`,
`BoundsAssumption`, `MembersAssumption`, `BillsAssumption`, `StockAssumption`,
`LinesAssumption`, `SequenceAssumption`, `CampaignAssumption`), which say that sets of ids
are disjoint, finite or numbers where that is used, that bounds and amounts are naturals,
and that bins have different places on the walk. The number of rows, requests, ticks,
runs, lots, contacts and recipients is arbitrary. Results about stock that hold for one
request at a time have `OneCaller` as a hypothesis, for the reason given there.

`AgentTasksProofs`:

- `TypeCorrect`, `Spec => []TypeOK`.
- `RunsAreApproved`, `Spec => []OneRunPerApproval`. The bound is not inductive: a state
  with as many runs as grants and status `approved` satisfies it and the next claim
  breaks it. The inductive invariant is `Backed`: *runs plus the approval the row still
  holds do not exceed grants*. Only two kinds of step touch it, an approval (both sides
  rise, or the right one does) and the compare-and-set (which turns the held approval
  into a run). Lemma `EveryStep` reads off each action what it does to status, grants
  and runs (`StatusStep`), so the theorems do not open the actions again.
- `ApprovalReleases`, the action property, from the same lemma.
- `QueueImplementsLedger`: every step of the queue is a step of the ledger or leaves
  it alone.
- `SingleExecutor`, `Spec => []SingleApprovalSingleExecutor`. A process that executes a
  row is there because it won a claim (`ExecutorsKnown`), and processes are counted
  against the history: *those past their claim of a row are finitely many and at most its
  runs* (`ClaimsCounted`). With `Backed` a row approved once has at most one. The other
  half of the property, that the status says so, is `RunnersSeen`: a row that was approved
  once and that somebody executes is `in_progress`, or was decided or deleted meanwhile.
- `DealsBacked`, `Spec => []DealsAreBacked`. A deal is created one call after the duplicate
  check, and several rows of a company may be on the way at once. So those on the way
  are counted with the deals: *deals of a company, plus handlers that may still create
  one (`Making`), do not exceed the approvals and executions of its rows* (`DealsCovered`,
  a total over rows). An approval or a won claim puts one handler on the way and pays for
  it; the insert turns the handler into a deal; error paths and restarts only remove some
  (`GetsNearer`). Lemma `EveryDealStep` reads that off the actions.

`AgentRulesProofs`:

- `RulesUseTheQueue`: every step of the callback, restarts included, is a step of the
  queue or leaves it alone. `RuleRunsAreApproved`, `RuleSingleExecutor` and
  `RulesReleaseNothing` follow from the theorems about the queue.
- `RuleTypeCorrect`, with what a callback has in hand at each point (`DraftKnown`).
- `TargetWaitsOnce`, `RuleWaitsOnce`: the two bounds on duplicates. A callback that has
  looked for an open row and found none will insert one whatever happens since, so it is
  counted with the rows: *rows waiting about a target, plus callbacks about to insert one,
  do not exceed the most callbacks that evaluated at once* (`TargetCovered`). For the rule,
  the search goes by the log: rows that wait, have no log row, and that no callback is
  about to log are *forgotten*, and each took an evaluation that was cut short
  (`LapsesSeen`, `RuleCovered`).

`ProjectTasksProofs`:

- `ProjectTyped`, with `Linked` (a card and a request only point to rows that were
  handed over); `ProjectsUseTheQueue` and `ProjectRunsAreApproved` as for the rules.
- `EndIsToldOnce`, `ProjSpec => []ToldOnce`. What can still happen must be counted: the
  inductive invariant `ToldInv` is *notifications sent, plus requests about to send one,
  plus one if the row's end may still be written back, do not exceed one plus the
  edits*. The conditional update moves one unit from the third term to the second.
- `CompletedByItsRow`, `ProjSpec => []CompletedWasRun`. `Worked` says that a row that is
  completed, or about to be, was executed; `Shown` that so was the row behind every
  write-back that carries `completed` and behind every completed card. Executions are
  never undone, which is why a stale write-back does no harm.

`PayableBillsProofs`:

- `TypeCorrect`. It needs `WorksOnBills` (a handler that has begun works on a bill that
  exists); a handler writing to `NoBill` would leave the row untouched and the amounts it
  read undefined. One lemma each for the rows, the runs and the processes, one step per
  action.
- `ShownPaidOut`, `Spec => []ShownIsPaidOut`. A bill is advanced two calls after its
  money has left, by several processes, each with the amount it read. The inductive
  invariant `Banked` adds up what all begun payments of a bill have inserted and not yet
  advanced, a total over the handlers: *with that total, what the bill shows as paid, and
  also what any handler has read, is covered by its payments*. Lost updates keep it
  because they only lower what is shown.
- `PaidBillsAreCovered`, `Spec => []PaidIsCovered`: a handler about to mark an unedited
  bill paid has compared with the total the bill still has (`CoverInv`).

`Sums` and `Totals`: `Total(S, q)` and `InOrder(S, before)` are defined for all finite sets
and have no recursion, which the provers could not unfold. `Totals` proves what the
components need: a total is a natural number, is unchanged when the quantities are, moves
by the difference when one element is added, removed or changed, is monotone, and does not
depend on the names of the elements (`TotalRenamed`); and the
listing of a finite strictly ordered set contains each element once, in order.

`StockProofs`:

- `CountInvariant`, `CountTypeCorrect`, for any number of callers. That quantities are
  never negative depends on what the lists of pending calls carry: the invariant says that
  each call writes to a row that exists and that no quantity it will write, or compute
  from what it carries, is negative (`Sound`). `PickListSound` and `SweepListSound` show it
  of the lists that a FEFO selection and a sweep produce, with the lemmas on `InOrder`.
- `StampedIsPosted` and `PostedOnce` (`ApprovedIsPosted`, `PostedAgainOnlyAfterFault`).
  The invariant `PostInv` says what an approval knows about the lines it has left: each
  is a line of the sheet, once, with the variance it shows, and none of them has been
  posted more often than approvals were cut short; the line in hand is posted before it
  is stamped; and outside an approval every line of a sheet that may still be approved has
  that bound.
- `AggregateAttributable` (`StockAttributable`). At rest the two sides agree; between,
  the list of a handler is *in step* with them (`InStep`): either it touches neither, or
  the writes of rows it starts with are followed by the write of the one and the entry in
  the other that make them agree. Replacing a call by what its result leads to keeps a
  list in step (`PlainInStep`, `QuietFollowed`, `BooksFollowed`, `LoudInStep`).
- Its last part is what `BalanceProofs` rests on. A write is absolute,
  so its effect is known only when nobody wrote the row since it was read (`UpToDate`:
  only the head of a list may carry such a number). A row is found again by lot, bin and
  status, so two rows must differ in one of them (`Distinct`); the code inserts without
  a unique key, and for one caller the lookup before it is what keeps them apart. And
  production is the one list that adds without taking, so a lot must have been made before
  any row, line or call refers to it (`StockMade`, `CountMade`). `Behind` relates the list
  after a call to the list before it.

`BalanceProofs` (extends `StockProofs`):

- `BooksInvariant`, with `LotBalancesAttributable` (`LotsAttributable`) and
  `StockFromProduction` (`NoStockFromNothing`). Both properties speak of the sum of all
  rows between requests; the invariant `BooksInv` speaks of it between any two calls, from
  what the rest of a handler's list will still write. `Explained`: the sum is what the
  ledger shows, or the list goes on to enter the difference, or to write off the rows of
  a quarantined lot. `Paid`: what the list will add, it has taken out before.
- `FefoFollowed` (`PickFollowsFefo`). The property looks at a pick in the middle of its
  list; the invariant `Planned` looks at the whole of what is left: each allocation to be
  shipped comes after those that clear every row before it in the order (`InTurn`), no two
  calls concern one row (`Apart`), and what comes before only takes (`TakesOnly`), so
  nothing that was cleared fills again. When a pick begins, this is what a sorted
  selection gives (`PickPlanned`); a call that is replaced by its writes keeps it
  (`PlanMoved`), and with one caller nothing else touches the rows.
- `PicksAreWhole` (`PickIsWhole`). The quantities that the list is still to ship add up to
  what is missing (`Owes`, from `SelectionCovers`), so a list that ends has shipped
  everything; what is left is that it does not end early. A call of a pick is refused
  when its row is short, and each row still holds its allocation (`Filled`), or when the
  aggregate is, and the aggregate covers the balances (`Covered`). The second is about
  all handlers: as long as nothing is adjusted or put in a bin, none lowers the aggregate
  by more than the balances, a sweep of rows it has read before included (`SweepSafe`).
- `CountsSettle` (`CountSettles`). `SettleInv` follows a count from its snapshot. While the
  lines are the last thing that happened (`Dated`) they show the stock: the snapshot in a
  request's hands does (`Snapped`), and so do the lines (`Drawn`), of which each balance
  has one if none has two. So at the approval a lot's balances add up to its lines'
  system quantities (`TotalRenamed`: two totals with the same quantities under other
  names). Each line that is posted moves its lot's sum, and no other's, from the
  system quantity to the counted one; between the calls of an adjustment the sum is off by
  what the list will still write (`Off`, `Mid`), also where the adjustment writes another
  row of the lot than the one counted. TLC checked `SettleInv` on two lots and two lines
  before it was proved.

`PostInvariant`, `LedgerInvariant`, `BooksInvariant` and what follows from them have
`OneCaller` as a hypothesis. Without it TLC finds each of the eight properties violated with
two callers, and the code is
why: two adjustments read the same aggregate and one write is lost
(`updateInventoryQuantity` and `inventory.ts` lock the row, the primitives do not), two
first writes of a balance insert two rows, a pick ships a row that another has just taken
from, and two approvals of a count both post its variances. The hazards list them.

`OutreachProofs`:

- `MailedOnce`, `Spec => []RecipientMailedOnce`. A worker holds the row it works on
  (`Held`), and a copy that no lost answer explains makes the row `sending` or `sent`,
  from which no run takes it up again (`SentOnce`): stale claims and detached workers
  change who works, not that.
- `SequenceTyped`, `CopiesExplained`, `OneAfterOptOut`, from one invariant (`SequenceInv`)
  of what the tick has in hand.
- `OutreachTyped`, `Spec => []TypeOK`. That `workers` stays a natural number when a worker
  fails depends on the rows: *a run counts a worker for each recipient that is in hand,
  and has none in hand unless it is at work, catching, or detached* (`RunsStaffed`). It
  counts recipients, hence the assumption that their table is finite.

Every invariant and every action property of a passing run is a theorem. Only
model-checked are the liveness properties: TLAPS cannot reason about `ENABLED`, hence not
about weak fairness.

## 12. Inventory

What each component keeps, does, and should guarantee; *status* is as in
`PROJECT.json`.

**Modelled (partly).**

| Component | State | Operations | Hard | Correct when |
|---|---|---|---|---|
| Agent task queue | `aiAgentTasks`, `aiAgentLogs` | section 3 | claims, stale approvals, overlapping ticks, crash while executing | one execution per approval; approved rows are taken up |
| Rule evaluation | `aiAgentRules`, their logs | section 4 | overlapping callbacks, log row lost, edits | one open row per rule and target |
| Project bridge | `projectTasks` and their agent rows | section 5 | superseded rows, concurrent write-backs, edits by hand | a task follows its row; its end is told once |
| Lot stock | balances, lots, aggregate, ledger | section 6 | several calls without a transaction, two stores | stores agree with the ledger; FEFO; no stock from nothing |
| Cycle counts | counts, lines | section 7 | approval line by line, cut short, begun again | each variance is posted, once; the count settles the stock |
| Bills and payment runs | `bills`, `payments`, `workflowRuns`, approval queue | section 8 | two payers, lost updates, stale lists, dead runs | payments cover what is shown; approved bills are reached |
| Email sequences and campaigns | sequences, steps, enrollments, campaigns, recipients | section 9 | crash after a send, leases, take-over, detached workers, stale caches | one copy per step and recipient; none after an opt-out; everything due goes out |
| Orchestrator and workflow engine | `workflowRuns`, `workflowEvents`, approval queue, exceptions | start, skip, trigger, request, decide (modelled for payments); events, escalation, dependent workflows (not yet) | overlapping loops, dead runs, decisions racing escalation | an event starts its workflows once; a decision is not overwritten |

What each of them leaves out is in the notes of `PROJECT.json`: among others the side
effects of most agent task types, what a rule's condition looks at, several cards
written back by one read, transfers and receiving, counts of several products, the
purchase orders behind bills, opens and clicks of mails. Where such a part writes the same
rows (transfers and receiving write lot balances), the properties speak of a system in
which it is not used.

**Not modelled yet, planned.**

| Component | State | Operations | Hard | Correct when |
|---|---|---|---|---|
| Mail queue (`emailQueueWorker.ts`) | queued messages, attempts | claim, send, retry, fail | retry of a message that had left | bounded attempts; nothing stays `sending` |
| Transfers, receiving, fulfilment, duplicate merge | transfers, receipts, orders | ship, receive, fulfil, merge | repeated calls, partial receipts | stock leaves once and arrives once |
| Costing (`inventoryCostingService.ts`) | cost layers, COGS rows | receive, consume FIFO/LIFO/average | boundaries of layers, read-compute-write | consumed cost equals what the layers lose |
| Offline queue of the client (`client/src/lib/offline`) | IndexedDB rows, per-tab memory, a cross-tab lock | enqueue, drain, replay, delete | tab closed between acceptance and delete, several tabs, storage refused | accepted in the order queued; nothing lost while a tab lives |
| Production (`routers/workOrders.ts`, `db.ts`) | work orders, reserved and consumed material | release, consume, produce, cancel | availability read earlier | consumption matches the bill of material; nothing negative |

**Not modelled, and why.**

| Component | Reason |
|---|---|
| Purchase orders, quotes, negotiation | status columns written by independent procedures; candidates for a later extension |
| Invoices, banking, reconciliation | receivables mirror payables; matching is arithmetic with unit tests |
| EDI | parsing and formatting of X12 documents |
| Chat agent and tools | replies of a language model are arbitrary; the rows it writes are in sections 3 and 8 |
| Operations automations | one record at a time, no state of its own beyond counters |
| Freight, documents, sheets, CRM, meetings, HR, legal, grants, investors, data room | record keeping, parsing, reporting |
| Authentication, teams, entity scope | access control is not a subject of this development |
| External integrations | clients of external services |
| Web client | user interface |
| Schema and database access | the helpers the modelled components use are mapped with them |

The hazards, each with its source line and the properties that cover it or the reason
none does, are in `PROJECT.json`.

## 13. Plan

Done so far: the queue, its rules and the project bridge; lot stock and its counts; bills
and payment runs; sequences and campaigns; the theorems about their safety properties.
Left, in order of importance:

1. **WorkflowLoops**: the event loop, escalations and dependent workflows around the
   approval queue of `PayableBills`; property: a decision is never overwritten.
2. **LotStock**: transfers and purchase-order receipt on the same balances and
   aggregate; property: a transfer moves once. `fefo.ts` selection against a reference
   definition over bounded inputs.
3. **OfflineQueue**: the client's queue with several tabs, the lock, lost answers and
   closed tabs, against the order in which the user made the changes.
4. **LayerCosting**: FIFO, LIFO and average consumption as operators, checked against a
   reference; the read-compute-write of `recordCogs`.
5. **MailQueue**: claims and retries of the outgoing messages.

An abstract ledger of sends, which the sequences and campaigns implement as the queue
implements `ApprovalLedger`, would restate `CopiesArePaidFor` and `RecipientMailedOnce`
and is not planned.
