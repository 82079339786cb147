---------------------------- MODULE CampaignSender ----------------------------
(***************************************************************************)
(* One CRM email campaign and its recipients: sendCampaign of              *)
(* campaignSender.ts, called by the `send' procedure and by the outreach   *)
(* tick, and the campaign procedures of routers/crm.ts.  A run of          *)
(* sendCampaign claims the campaign, or takes over one that has been       *)
(* `sending' for half an hour, and then lets several workers claim and     *)
(* mail the pending recipients.  An error in one worker ends the run while *)
(* the other workers go on.                                                *)
(***************************************************************************)
EXTENDS Naturals, FiniteSets

CONSTANTS
  Contacts,
  Recipients,   \* ids of crmCampaignRecipients, numbers (autoincrement: never used twice)
  ContactOf,    \* ContactOf[r]: the contact of row r
  Senders,      \* slots, numbers, for the runs of sendCampaign in progress
  Clerks,       \* other requests that can be in flight at once
  Concurrency,  \* SEND_CONCURRENCY
  MaxEvents,    \* bound on what people do and on faults, together
  MaxFaults     \* bound on restarts, database errors and lost answers

VARIABLES
  campaign,  \* status of the crmEmailCampaigns row; "none" without one
  dated,     \* scheduledAt is set
  stale,     \* updatedAt is more than STALE_SENDING_MS ago
  rcp,       \* rcp[r]: status of recipient row r
  opted,     \* opted[c]: mailableSkipReason would give a reason
  run,       \* run[s]: where the run of sendCampaign in slot s is
  job,       \* job[s][r]: what a worker of that run does with recipient r next
  clerk,     \* clerk[q]: the write that request q still has to make
  mailed,    \* history: mailed[r]: copies that reached recipient r
  lost,      \* history: lost[r]: copies to r whose success was answered with an error
  forced,    \* history: somebody wrote `sending' by hand
  acts,      \* acts of people so far, counted towards MaxEvents
  faults     \* history: restarts, database errors and lost answers

campVars == <<campaign, dated, stale, rcp, opted, run, job, clerk, mailed, lost, forced, acts, faults>>

CampaignStatus == {"draft", "scheduled", "sending", "sent", "partially_failed", "paused", "cancelled"}
Sendable == {"draft", "scheduled", "paused", "partially_failed"}
RecipientEditable == {"draft", "scheduled", "paused", "partially_failed"}
Updatable == CampaignStatus \ {"partially_failed"}

RecipientStatus == {"none", "deleted", "pending", "sending", "sent", "failed", "skipped", "unsubscribed"}
Unsent == {r \in Recipients : rcp[r] \in {"pending", "failed"}}
OnCampaign(c) == \E r \in Recipients : ContactOf[r] = c /\ rcp[r] \notin {"none", "deleted"}

(* A run: its next call; who called it; the pending rows no worker has      *)
(* reached; the contacts as read; live workers; the outcome to be written.  *)
RunPC == {"idle", "claim", "reset", "list", "contacts", "work", "finish", "catch", "detached"}
Callers == {"person", "tick"}
NoneOptedOut == [c \in Contacts |-> FALSE]
IdleRun == [pc |-> "idle", by |-> "person", todo |-> {}, seen |-> NoneOptedOut, workers |-> 0, failed |-> FALSE]

JobPC == {"none", "skip", "send", "sent", "refused"}
NoJobs == [r \in Recipients |-> "none"]
Busy(s) == {r \in Recipients : job[s][r] # "none"}

ClerkPC == {"idle", "schedule", "unschedule", "add", "remove"}
IdleClerk == [pc |-> "idle", rows |-> {}]

CampTypeOK ==
  /\ campaign \in CampaignStatus \cup {"none"}
  /\ dated \in BOOLEAN
  /\ stale \in BOOLEAN
  /\ rcp \in [Recipients -> RecipientStatus]
  /\ opted \in [Contacts -> BOOLEAN]
  /\ run \in [Senders -> [pc : RunPC, by : Callers, todo : SUBSET Recipients,
                          seen : [Contacts -> BOOLEAN], workers : Nat, failed : BOOLEAN]]
  /\ job \in [Senders -> [Recipients -> JobPC]]
  /\ clerk \in [Clerks -> [pc : ClerkPC, rows : SUBSET Recipients]]
  /\ mailed \in [Recipients -> Nat]
  /\ lost \in [Recipients -> Nat]
  /\ forced \in BOOLEAN
  /\ acts \in Nat
  /\ faults \in Nat

(* No campaign, one that is being put together, or one that is scheduled.   *)
CampInit ==
  /\ campaign \in {"none", "draft", "scheduled"}
  /\ dated = (campaign = "scheduled")
  /\ stale = FALSE
  /\ rcp \in [Recipients -> {"none", "pending"}]
  /\ \A r1, r2 \in Recipients : ContactOf[r1] = ContactOf[r2] /\ rcp[r1] = "pending" /\ rcp[r2] = "pending" => r1 = r2
  /\ campaign = "scheduled" => Unsent # {}
  /\ campaign = "none" => Unsent = {}
  /\ opted \in [Contacts -> BOOLEAN]
  /\ run = [s \in Senders |-> IdleRun]
  /\ job = [s \in Senders |-> NoJobs]
  /\ clerk = [q \in Clerks |-> IdleClerk]
  /\ mailed = [r \in Recipients |-> 0]
  /\ lost = [r \in Recipients |-> 0]
  /\ forced = FALSE
  /\ acts \in 0..MaxEvents
  /\ faults = 0

Room == acts + faults < MaxEvents
Act == Room /\ acts' = acts + 1
Fault == Room /\ faults < MaxFaults /\ faults' = faults + 1
At(s, pc) == run' = [run EXCEPT ![s].pc = pc]
Ends(s) == run' = [run EXCEPT ![s] = IdleRun]
(* Slots are alike: a new run takes the first free one.                     *)
FirstFree(s) == run[s] = IdleRun /\ \A t \in Senders : t < s => run[t] # IdleRun
(* Every write of the row touches updatedAt.                                *)
SetCampaign(status) == campaign' = status /\ stale' = FALSE

-----------------------------------------------------------------------------
(* Requests.                                                                *)

(* update writes any status of its input type, and the date if it is given. *)
UpdateCampaign ==
  /\ Act
  /\ campaign # "none"
  /\ \E status \in Updatable :
       SetCampaign(status) /\ forced' = (forced \/ status = "sending")
  /\ dated' \in {dated, TRUE}
  /\ UNCHANGED <<rcp, opted, run, job, clerk, mailed, lost, faults>>

ClerkReads(q, pc, rows) ==
  /\ Act
  /\ clerk[q] = IdleClerk
  /\ clerk' = [clerk EXCEPT ![q] = [pc |-> pc, rows |-> rows]]
  /\ UNCHANGED <<campaign, dated, stale, rcp, opted, run, job, mailed, lost, forced, faults>>

(* schedule, unschedule, addRecipients and removeRecipient read: the        *)
(* campaign, its rows, the contacts ...                                     *)
BeginSchedule(q) == campaign \in Sendable /\ Unsent # {} /\ ClerkReads(q, "schedule", {})
BeginUnschedule(q) == campaign = "scheduled" /\ ClerkReads(q, "unschedule", {})

BeginAdd(q) ==
  /\ campaign \in RecipientEditable
  /\ \E rows \in SUBSET {r \in Recipients : rcp[r] = "none" /\ ~opted[ContactOf[r]] /\ ~OnCampaign(ContactOf[r])} :
       /\ rows # {}
       /\ \A r1, r2 \in rows : ContactOf[r1] = ContactOf[r2] => r1 = r2
       /\ ClerkReads(q, "add", rows)

BeginRemove(q, r) ==
  /\ campaign \in RecipientEditable
  /\ rcp[r] \notin {"none", "deleted"}
  /\ ClerkReads(q, "remove", {r})

(* ... and write without reading again; the delete keeps to unsent rows.    *)
WriteClerk(q) ==
  LET rows == clerk[q].rows
      removable == {r \in rows : rcp[r] \in {"pending", "failed", "skipped"}}
  IN
  /\ \/ /\ clerk[q].pc = "schedule"
        /\ SetCampaign("scheduled")
        /\ dated' = TRUE
        /\ UNCHANGED rcp
     \/ /\ clerk[q].pc = "unschedule"
        /\ SetCampaign("draft")
        /\ dated' = FALSE
        /\ UNCHANGED rcp
     \/ /\ clerk[q].pc = "add"
        /\ rcp' = [r \in Recipients |-> IF r \in rows /\ rcp[r] = "none" THEN "pending" ELSE rcp[r]]
        /\ stale' = FALSE
        /\ UNCHANGED <<campaign, dated>>
     \/ /\ clerk[q].pc = "remove"
        /\ rcp' = [r \in Recipients |-> IF r \in removable THEN "deleted" ELSE rcp[r]]
        /\ stale' = (stale /\ removable = {})
        /\ UNCHANGED <<campaign, dated>>
  /\ clerk' = [clerk EXCEPT ![q] = IdleClerk]
  /\ UNCHANGED <<opted, run, job, mailed, lost, forced, acts, faults>>

-----------------------------------------------------------------------------
(* sendCampaign.                                                            *)

(* send: a sendable campaign, or one being sent, with unsent recipients.    *)
BeginSend(s) ==
  /\ Act
  /\ FirstFree(s)
  /\ campaign \in Sendable \cup {"sending"}
  /\ Unsent # {}
  /\ run' = [run EXCEPT ![s] = [IdleRun EXCEPT !.pc = "claim", !.by = "person"]]
  /\ UNCHANGED <<campaign, dated, stale, rcp, opted, job, clerk, mailed, lost, forced, faults>>

(* runDueCampaigns finds the campaign scheduled and due; a date in the      *)
(* future has come by then.                                                 *)
IsDue == campaign = "scheduled" /\ dated
BeginDue(s) ==
  /\ FirstFree(s)
  /\ IsDue
  /\ run' = [run EXCEPT ![s] = [IdleRun EXCEPT !.pc = "claim", !.by = "tick"]]
  /\ UNCHANGED <<campaign, dated, stale, rcp, opted, job, clerk, mailed, lost, forced, acts, faults>>

Claimable(by) ==
  \/ campaign \in IF by = "tick" THEN {"scheduled"} ELSE Sendable
  \/ campaign = "sending" /\ stale

(* claimCrmEmailCampaignForSend, and the answer to who did not get it.      *)
ClaimCampaign(s) ==
  /\ run[s].pc = "claim"
  /\ \/ /\ Claimable(run[s].by)
        /\ SetCampaign("sending")
        /\ At(s, "reset")
     \/ /\ ~Claimable(run[s].by)
        /\ Ends(s)
        /\ UNCHANGED <<campaign, stale>>
  /\ UNCHANGED <<dated, rcp, opted, job, clerk, mailed, lost, forced, acts, faults>>

ResetFailed(s) ==
  /\ run[s].pc = "reset"
  /\ rcp' = [r \in Recipients |-> IF rcp[r] = "failed" THEN "pending" ELSE rcp[r]]
  /\ At(s, "list")
  /\ UNCHANGED <<campaign, dated, stale, opted, job, clerk, mailed, lost, forced, acts, faults>>

ListPending(s) ==
  /\ run[s].pc = "list"
  /\ run' = [run EXCEPT ![s].pc = "contacts", ![s].todo = {r \in Recipients : rcp[r] = "pending"}]
  /\ UNCHANGED <<campaign, dated, stale, rcp, opted, job, clerk, mailed, lost, forced, acts, faults>>

(* The contacts of all pending recipients are read before the first mail.   *)
ReadContacts(s) ==
  LET pending == Cardinality(run[s].todo) IN
  /\ run[s].pc = "contacts"
  /\ run' = [run EXCEPT ![s].pc = "work", ![s].seen = opted,
                        ![s].workers = IF pending < Concurrency THEN pending ELSE Concurrency]
  /\ UNCHANGED <<campaign, dated, stale, rcp, opted, job, clerk, mailed, lost, forced, acts, faults>>

HasWorker(s) == run[s].pc \in {"work", "catch", "detached"} /\ Cardinality(Busy(s)) < run[s].workers
(* Workers take the rows in the order of their ids.                         *)
TakesNext(s, r) == HasWorker(s) /\ r \in run[s].todo /\ \A other \in run[s].todo : r <= other
NextJob(s, r) == IF run[s].seen[ContactOf[r]] THEN "skip" ELSE "send"

(* Mutant: the worker does not look at how many rows its claim changed.     *)
ClaimUnnoticed(s, r) ==
  /\ TakesNext(s, r)
  /\ run' = [run EXCEPT ![s].todo = @ \ {r}]
  /\ rcp' = [rcp EXCEPT ![r] = IF @ = "pending" THEN "sending" ELSE @]
  /\ job' = [job EXCEPT ![s][r] = NextJob(s, r)]
  /\ UNCHANGED <<campaign, dated, stale, opted, clerk, mailed, lost, forced, acts, faults>>

(* claimCrmCampaignRecipient: a worker that finds the row still pending has *)
(* it; one that does not takes the next row.                                *)
ClaimRecipient(s, r) ==
  /\ TakesNext(s, r)
  /\ run' = [run EXCEPT ![s].todo = @ \ {r}]
  /\ \/ /\ rcp[r] = "pending"
        /\ rcp' = [rcp EXCEPT ![r] = "sending"]
        /\ job' = [job EXCEPT ![s][r] = NextJob(s, r)]
     \/ /\ rcp[r] # "pending"
        /\ UNCHANGED <<rcp, job>>
  /\ UNCHANGED <<campaign, dated, stale, opted, clerk, mailed, lost, forced, acts, faults>>

(* safeSend: the mail leaves, or is refused; or it leaves and the answer is *)
(* lost, which looks like a refusal.                                        *)
Mail(s, r) ==
  LET leaves == mailed' = [mailed EXCEPT ![r] = @ + 1]
      answers(outcome) == job' = [job EXCEPT ![s][r] = outcome]
  IN
  /\ job[s][r] = "send"
  /\ \/ leaves /\ answers("sent") /\ UNCHANGED <<lost, faults>>
     \/ answers("refused") /\ UNCHANGED <<mailed, lost, faults>>
     \/ Fault /\ leaves /\ answers("refused") /\ lost' = [lost EXCEPT ![r] = @ + 1]
  /\ UNCHANGED <<campaign, dated, stale, rcp, opted, run, clerk, forced, acts>>

Outcome(s, r) == CASE job[s][r] = "sent" -> {"sent"}
                   [] job[s][r] = "refused" -> {"failed"}
                   [] job[s][r] = "skip" -> {"skipped", "unsubscribed"}
                   [] OTHER -> {}

(* The worker writes what became of the row.                                *)
WriteRecipient(s, r) ==
  /\ \E status \in Outcome(s, r) :
       rcp' = [rcp EXCEPT ![r] = IF @ = "deleted" THEN @ ELSE status]
  /\ job' = [job EXCEPT ![s][r] = "none"]
  /\ UNCHANGED <<campaign, dated, stale, opted, run, clerk, mailed, lost, forced, acts, faults>>

(* A database error in a worker, at its claim or at its write, ends that    *)
(* worker, and with the first one the run: Promise.all rejects.             *)
WorkerFails(s, r) ==
  /\ Fault
  /\ \/ TakesNext(s, r)
     \/ job[s][r] \in {"skip", "sent", "refused"}
  /\ run' = [run EXCEPT ![s].pc = IF @ = "work" THEN "catch" ELSE @, ![s].workers = @ - 1, ![s].todo = @ \ {r}]
  /\ job' = [job EXCEPT ![s][r] = "none"]
  /\ UNCHANGED <<campaign, dated, stale, rcp, opted, clerk, mailed, lost, forced, acts>>

(* An error in the calls before the workers start ends the run too.         *)
PreparationFails(s) ==
  /\ Fault
  /\ run[s].pc \in {"reset", "list", "contacts"}
  /\ run' = [run EXCEPT ![s].pc = "catch", ![s].todo = {}]
  /\ UNCHANGED <<campaign, dated, stale, rcp, opted, job, clerk, mailed, lost, forced, acts>>

(* The catch block; workers that are left go on in the background.          *)
Catch(s) ==
  /\ run[s].pc = "catch"
  /\ SetCampaign("partially_failed")
  /\ At(s, "detached")
  /\ UNCHANGED <<dated, rcp, opted, job, clerk, mailed, lost, forced, acts, faults>>

Drained(s) == Busy(s) = {} /\ (run[s].todo = {} \/ run[s].workers = 0)

DetachedEnds(s) ==
  /\ run[s].pc = "detached"
  /\ Drained(s)
  /\ Ends(s)
  /\ UNCHANGED <<campaign, dated, stale, rcp, opted, job, clerk, mailed, lost, forced, acts, faults>>

(* When all workers are done the recipients are read again ...              *)
Tally(s) ==
  /\ run[s].pc = "work"
  /\ Drained(s)
  /\ run' = [run EXCEPT ![s].pc = "finish", ![s].failed = \E r \in Recipients : rcp[r] = "failed"]
  /\ UNCHANGED <<campaign, dated, stale, rcp, opted, job, clerk, mailed, lost, forced, acts, faults>>

(* Mutant: a run with failed recipients leaves the status alone.            *)
FinishIfAllSent(s) ==
  /\ run[s].pc = "finish"
  /\ IF run[s].failed THEN UNCHANGED <<campaign, stale>> ELSE SetCampaign("sent")
  /\ Ends(s)
  /\ UNCHANGED <<dated, rcp, opted, job, clerk, mailed, lost, forced, acts, faults>>

(* ... and the campaign gets its final status.                              *)
Finish(s) ==
  /\ run[s].pc = "finish"
  /\ SetCampaign(IF run[s].failed THEN "partially_failed" ELSE "sent")
  /\ Ends(s)
  /\ UNCHANGED <<dated, rcp, opted, job, clerk, mailed, lost, forced, acts, faults>>

(* Errors outside the try block, and in the catch block, end the run.       *)
RunFails(s) ==
  /\ Fault
  /\ \/ run[s].pc \in {"claim", "finish"} /\ Ends(s)
     \/ run[s].pc = "work" /\ Drained(s) /\ Ends(s)
     \/ run[s].pc = "catch" /\ At(s, "detached")
  /\ UNCHANGED <<campaign, dated, stale, rcp, opted, job, clerk, mailed, lost, forced, acts>>

-----------------------------------------------------------------------------
HalfAnHour ==
  /\ campaign = "sending"
  /\ ~stale
  /\ stale' = TRUE
  /\ UNCHANGED <<campaign, dated, rcp, opted, run, job, clerk, mailed, lost, forced, acts, faults>>

CampOptOut(c) ==
  /\ Act
  /\ ~opted[c]
  /\ opted' = [opted EXCEPT ![c] = TRUE]
  /\ UNCHANGED <<campaign, dated, stale, rcp, run, job, clerk, mailed, lost, forced, faults>>

ClerkFails(q) ==
  /\ Fault
  /\ clerk[q] # IdleClerk
  /\ clerk' = [clerk EXCEPT ![q] = IdleClerk]
  /\ UNCHANGED <<campaign, dated, stale, rcp, opted, run, job, mailed, lost, forced, acts>>

CampRestart ==
  /\ run' = [s \in Senders |-> IdleRun]
  /\ job' = [s \in Senders |-> NoJobs]
  /\ clerk' = [q \in Clerks |-> IdleClerk]
  /\ UNCHANGED <<campaign, dated, stale, rcp, opted, mailed, lost, forced, acts>>

CampRequests ==
  \/ UpdateCampaign
  \/ \E q \in Clerks :
       \/ BeginSchedule(q) \/ BeginUnschedule(q) \/ BeginAdd(q)
       \/ \E r \in Recipients : BeginRemove(q, r)
       \/ WriteClerk(q) \/ ClerkFails(q)

RunWorks(s) ==
  \/ ClaimCampaign(s) \/ ResetFailed(s) \/ ListPending(s) \/ ReadContacts(s)
  \/ \E r \in Recipients : ClaimRecipient(s, r) \/ Mail(s, r) \/ WriteRecipient(s, r)
  \/ Catch(s) \/ DetachedEnds(s) \/ Tally(s) \/ Finish(s)

RunBreaks(s) ==
  PreparationFails(s) \/ RunFails(s) \/ \E r \in Recipients : WorkerFails(s, r)

CampNext ==
  \/ CampRequests
  \/ \E s \in Senders : BeginSend(s) \/ BeginDue(s) \/ RunWorks(s) \/ RunBreaks(s)
  \/ HalfAnHour
  \/ \E c \in Contacts : CampOptOut(c)
  \/ Fault /\ CampRestart

CampSpec == CampInit /\ [][CampNext]_campVars

-----------------------------------------------------------------------------
(* Properties.                                                              *)

(* "A recipient that reached `sending' or `sent' is never mailed again":    *)
(* whatever runs overlap, are taken over, fail half-way or are repeated, a  *)
(* recipient gets one copy, and one more for each lost answer.              *)
RecipientMailedOnce == \A r \in Recipients : mailed[r] <= 1 + lost[r]
=============================================================================
