---------------------------- MODULE SequenceRunner ----------------------------
(***************************************************************************)
(* One email sequence: the enrollments of its contacts, the requests of    *)
(* routers/emailSequences.ts, and runDueSequenceSteps of sequenceRunner.ts.*)
(* The runner's ticks do not overlap in a process (the flag `running'), and*)
(* there is one process; a claimed enrollment is leased, so that the next  *)
(* process takes it up again when this one dies.                           *)
(* A time stamp is reduced to how it compares with the `now' that the tick *)
(* in progress, or else the next one, reads when it starts.                *)
(***************************************************************************)
EXTENDS Integers, FiniteSets

CONSTANTS
  Contacts,     \* contacts of the CRM: the unique key allows each one enrollment
  StepIds,      \* rows of emailSequenceSteps (autoincrement: never used twice)
  Orders,       \* values of stepOrder
  SameDay,      \* the steps with delayDays = 0
  Requests,     \* requests that can be in flight at once
  NoContact,
  NoStep,
  MaxAttempts,  \* MAX_SEND_ATTEMPTS
  TickLimit,    \* rows one tick reads
  MaxEvents,    \* bound on what people do and on faults, together
  MaxFaults     \* bound on restarts, database errors and lost answers

VARIABLES
  sequence,  \* status of the emailSequences row; "deleted" once it is gone
  steps,     \* steps[k]: stepOrder; Unborn before the insert, Gone after the delete
  enr,       \* enr[c]: the enrollment row of contact c; status "none" without one
  opted,     \* opted[c]: mailableSkipReason would give a reason
  tick,      \* the tick in progress: next call, what it has read, the row at hand
  req,       \* req[q]: the write that request q still has to make
  copies,    \* history: copies[c][k]: copies of step k that c got on its enrollment
  late,      \* history: late[c]: step mails that left for c after c had opted out
  acts,      \* acts of people so far, counted towards MaxEvents
  faults     \* history: restarts, database errors and lost answers

seqVars == <<sequence, steps, enr, opted, tick, req, copies, late, acts, faults>>

Unborn == 0
Gone == -1
SequenceStatus == {"draft", "active", "paused", "archived"}
EnrollmentStatus == {"active", "paused", "completed", "stopped", "failed"}

(* nextSendAt: null, not after the tick's now, or after it.                 *)
NextSend == {"null", "due", "later"}
Row(status, step, next, attempts) == [status |-> status, step |-> step, next |-> next, attempts |-> attempts]
NoRow == Row("none", 0, "null", 0)
Exists(c) == enr[c].status # "none"

(* The tick holds the rows it read as due, and caches the sequence and its  *)
(* steps for the rest of the tick; `gone' when the row at hand was deleted. *)
TickPC == {"idle", "loop", "load", "steps", "contact", "send", "sent", "refused", "stop", "complete", "hold"}
Unread == [k \in StepIds |-> Unborn]
IdleTick ==
  [pc |-> "idle", due |-> {}, rows |-> [c \in Contacts |-> NoRow], seq |-> "unread",
   stepsRead |-> FALSE, steps |-> Unread, contact |-> NoContact, gone |-> FALSE, step |-> NoStep]

RequestPC == {"idle", "insert", "pause", "resume", "unenroll", "delete"}
IdleRequest == [pc |-> "idle", contact |-> NoContact, next |-> "null"]

SeqTypeOK ==
  /\ sequence \in SequenceStatus \cup {"deleted"}
  /\ steps \in [StepIds -> Orders \cup {Unborn, Gone}]
  /\ enr \in [Contacts -> [status : EnrollmentStatus \cup {"none"}, step : Orders \cup {0},
                           next : NextSend, attempts : Nat]]
  /\ opted \in [Contacts -> BOOLEAN]
  /\ tick.pc \in TickPC /\ tick.due \subseteq Contacts
  /\ tick.contact \in Contacts \cup {NoContact} /\ tick.step \in StepIds \cup {NoStep}
  /\ tick.gone \in BOOLEAN
  /\ req \in [Requests -> [pc : RequestPC, contact : Contacts \cup {NoContact}, next : NextSend]]
  /\ copies \in [Contacts -> [StepIds -> Nat]]
  /\ late \in [Contacts -> Nat]
  /\ acts \in Nat
  /\ faults \in Nat

(* No sequence, or an active one with its first steps and contacts that     *)
(* wait for them or are not enrolled yet.                                   *)
SeqInit ==
  /\ \/ /\ sequence = "deleted"
        /\ steps = Unread
        /\ enr = [c \in Contacts |-> NoRow]
     \/ /\ sequence = "active"
        /\ steps \in [StepIds -> Orders \cup {Unborn}]
        /\ steps # Unread
        /\ enr \in [Contacts -> {NoRow, Row("active", 0, "later", 0)}]
  /\ opted \in [Contacts -> BOOLEAN]
  /\ tick = IdleTick
  /\ req = [q \in Requests |-> IdleRequest]
  /\ copies = [c \in Contacts |-> [k \in StepIds |-> 0]]
  /\ late = [c \in Contacts |-> 0]
  /\ acts \in 0..MaxEvents
  /\ faults = 0

Room == acts + faults < MaxEvents
Act == Room /\ acts' = acts + 1
Fault == Room /\ faults < MaxFaults /\ faults' = faults + 1

(* nextStep: the lowest order above the current one; among equal orders the *)
(* row that was inserted first, which is left open here.                    *)
NextSteps(table, current) ==
  {k \in StepIds : /\ table[k] > current
                   /\ \A j \in StepIds : table[j] > current => table[k] <= table[j]}

(* addDays(now, delayDays).                                                 *)
After(k) == IF k \in SameDay THEN "due" ELSE "later"

(* The tick's UPDATE ... WHERE id: a deleted row is not matched.            *)
Write(c, row) == enr' = IF tick.gone THEN enr ELSE [enr EXCEPT ![c] = row]

-----------------------------------------------------------------------------
(* Requests.                                                                *)

(* update writes the status; delete is below.                               *)
SetSequence(s) ==
  /\ Act
  /\ sequence \notin {s, "deleted"}
  /\ sequence' = s
  /\ UNCHANGED <<steps, enr, opted, tick, req, copies, late, faults>>

(* addStep: at the position asked for, or after the existing ones.          *)
AddStep(k) ==
  /\ Act
  /\ sequence # "deleted"
  /\ steps[k] = Unborn
  /\ \E o \in Orders : steps' = [steps EXCEPT ![k] = o]
  /\ UNCHANGED <<sequence, enr, opted, tick, req, copies, late, faults>>

DeleteStep(k) ==
  /\ Act
  /\ sequence # "deleted"
  /\ steps[k] \in Orders
  /\ steps' = [steps EXCEPT ![k] = Gone]
  /\ UNCHANGED <<sequence, enr, opted, tick, req, copies, late, faults>>

(* What others do next with the id of a deleted enrollment has no effect;   *)
(* only the row that the tick has at hand may still be mailed.              *)
ForgetTick ==
  tick' = IF tick.contact = NoContact THEN IdleTick
          ELSE [tick EXCEPT !.due = {}, !.gone = TRUE,
                            !.rows = [c \in Contacts |-> IF c = tick.contact THEN @[c] ELSE NoRow]]
Forget(r) == IF r.pc \in {"pause", "resume", "unenroll"} THEN IdleRequest ELSE r

(* delete: the enrollments first ...                                        *)
BeginDelete(q) ==
  /\ Act
  /\ req[q] = IdleRequest
  /\ sequence # "deleted"
  /\ enr' = [c \in Contacts |-> NoRow]
  /\ ForgetTick
  /\ req' = [p \in Requests |-> IF p = q THEN [IdleRequest EXCEPT !.pc = "delete"] ELSE Forget(req[p])]
  /\ copies' = [c \in Contacts |-> [k \in StepIds |-> 0]]
  /\ UNCHANGED <<sequence, steps, opted, late, faults>>

(* ... then the steps and the sequence.                                     *)
FinishDelete(q) ==
  /\ req[q].pc = "delete"
  /\ \/ /\ \E k \in StepIds : steps[k] \in Orders
        /\ steps' = [k \in StepIds |-> IF steps[k] \in Orders THEN Gone ELSE steps[k]]
        /\ UNCHANGED <<sequence, req>>
     \/ /\ \A k \in StepIds : steps[k] \notin Orders
        /\ sequence' = "deleted"
        /\ req' = [req EXCEPT ![q] = IdleRequest]
        /\ UNCHANGED steps
  /\ UNCHANGED <<enr, opted, tick, copies, late, acts, faults>>

Asks(q, pc, c, next) ==
  /\ Act
  /\ req[q] = IdleRequest
  /\ req' = [req EXCEPT ![q] = [pc |-> pc, contact |-> c, next |-> next]]
  /\ UNCHANGED <<sequence, steps, enr, opted, tick, copies, late, faults>>

(* enroll: an active sequence with a step, a contact that may be mailed ... *)
BeginEnroll(q, c) ==
  /\ sequence = "active"
  /\ ~opted[c]
  /\ ~Exists(c)
  /\ \E k \in NextSteps(steps, 0) : Asks(q, "insert", c, After(k))

(* pause, resume and unenroll read the row and look at its status ...       *)
BeginPause(q, c) == enr[c].status = "active" /\ Asks(q, "pause", c, "null")

BeginResume(q, c) ==
  /\ enr[c].status = "paused"
  /\ Asks(q, "resume", c, IF enr[c].next = "null" THEN "due" ELSE enr[c].next)

BeginUnenroll(q, c) ==
  /\ enr[c].status \notin {"none", "completed", "stopped"}
  /\ Asks(q, "unenroll", c, "null")

(* ... and write without looking at it again.                               *)
WriteRequest(q) ==
  LET c == req[q].contact IN
  /\ req[q].pc \in {"insert", "pause", "resume", "unenroll"}
  /\ \/ /\ req[q].pc = "insert"
        /\ enr' = IF Exists(c) THEN enr ELSE [enr EXCEPT ![c] = Row("active", 0, req[q].next, 0)]
     \/ /\ req[q].pc = "pause"
        /\ enr' = [enr EXCEPT ![c].status = "paused"]
     \/ /\ req[q].pc = "resume"
        /\ enr' = [enr EXCEPT ![c].status = "active", ![c].next = req[q].next]
     \/ /\ req[q].pc = "unenroll"
        /\ enr' = [enr EXCEPT ![c].status = "stopped", ![c].next = "null"]
  /\ req' = [req EXCEPT ![q] = IdleRequest]
  /\ UNCHANGED <<sequence, steps, opted, tick, copies, late, acts, faults>>

-----------------------------------------------------------------------------
(* A tick.                                                                  *)

(* Between two ticks time passes: a row that was not due becomes due.       *)
Elapse(c) ==
  /\ tick.pc = "idle"
  /\ enr[c].next = "later"
  /\ enr' = [enr EXCEPT ![c].next = "due"]
  /\ UNCHANGED <<sequence, steps, opted, tick, req, copies, late, acts, faults>>

Due(c) == enr[c].status = "active" /\ enr[c].next = "due"

(* getDueEmailSequenceEnrollments: active rows with nextSendAt <= now, up   *)
(* to a limit.  The order by nextSendAt only fixes which ones, and in which *)
(* order: both are left open.  A tick that finds none does nothing here.    *)
DueRows == {c \in Contacts : Due(c)}

(* Mutant: a tick that finds more rows than it may read reads none.         *)
ReadsAll(due) == due = DueRows /\ due # {} /\ Cardinality(due) <= TickLimit

Reads(due) ==
  /\ due # {}
  /\ Cardinality(due) <= TickLimit
  /\ due # DueRows => Cardinality(due) = TickLimit

TickRead ==
  /\ tick.pc = "idle"
  /\ \E due \in SUBSET DueRows :
       /\ Reads(due)
       /\ tick' = [IdleTick EXCEPT !.pc = "loop", !.due = due,
                                   !.rows = [c \in Contacts |-> IF c \in due THEN enr[c] ELSE NoRow]]
  /\ UNCHANGED <<sequence, steps, enr, opted, req, copies, late, acts, faults>>

(* On to the next row, or out of the loop after the last one.               *)
Loop(due) ==
  tick' = IF due = {} THEN IdleTick
          ELSE [tick EXCEPT !.pc = "loop", !.due = due, !.contact = NoContact, !.gone = FALSE,
                            !.step = NoStep, !.rows = [c \in Contacts |-> IF c \in due THEN @[c] ELSE NoRow]]

(* claimEmailSequenceEnrollment: if still active and due, nextSendAt is     *)
(* pushed out by the lease.                                                 *)
ClaimEnrollment(c) ==
  /\ tick.pc = "loop"
  /\ c \in tick.due
  /\ Due(c)
  /\ enr' = [enr EXCEPT ![c].next = "later"]
  /\ tick' = [tick EXCEPT !.pc = "load", !.contact = c, !.due = @ \ {c}]
  /\ UNCHANGED <<sequence, steps, opted, req, copies, late, acts, faults>>

(* The claim matched no row, or failed: on to the next one.                 *)
SkipEnrollment(c) ==
  /\ tick.pc = "loop"
  /\ c \in tick.due
  /\ \/ ~Due(c) /\ UNCHANGED faults
     \/ Fault
  /\ Loop(tick.due \ {c})
  /\ UNCHANGED <<sequence, steps, enr, opted, req, copies, late, acts>>

(* A sequence that is gone or archived ends the enrollment; one that is not *)
(* active leaves it to the lease.                                           *)
LoadSequence ==
  LET seen == IF tick.seq = "unread" THEN sequence ELSE tick.seq
      ends == seen \in {"deleted", "archived"}
  IN
  /\ tick.pc = "load"
  /\ tick' = [tick EXCEPT !.seq = seen, !.pc = IF ends THEN "stop" ELSE IF seen = "active" THEN "steps" ELSE "hold"]
  /\ UNCHANGED <<sequence, steps, enr, opted, req, copies, late, acts, faults>>

(* Mutant: the step is chosen one below the row's currentStepOrder.         *)
LoadStepsAgain ==
  LET seen == IF tick.stepsRead THEN tick.steps ELSE steps
      following == NextSteps(seen, tick.rows[tick.contact].step - 1)
  IN
  /\ tick.pc = "steps"
  /\ \/ following = {} /\ tick' = [tick EXCEPT !.stepsRead = TRUE, !.steps = seen, !.pc = "complete"]
     \/ \E k \in following :
          tick' = [tick EXCEPT !.stepsRead = TRUE, !.steps = seen, !.pc = "contact", !.step = k]
  /\ UNCHANGED <<sequence, steps, enr, opted, req, copies, late, acts, faults>>

(* The step after the currentStepOrder that was read with the due rows.     *)
LoadSteps ==
  LET seen == IF tick.stepsRead THEN tick.steps ELSE steps
      following == NextSteps(seen, tick.rows[tick.contact].step)
  IN
  /\ tick.pc = "steps"
  /\ \/ following = {} /\ tick' = [tick EXCEPT !.stepsRead = TRUE, !.steps = seen, !.pc = "complete"]
     \/ \E k \in following :
          tick' = [tick EXCEPT !.stepsRead = TRUE, !.steps = seen, !.pc = "contact", !.step = k]
  /\ UNCHANGED <<sequence, steps, enr, opted, req, copies, late, acts, faults>>

(* Mutant: the contact is not looked at before every step.                  *)
ReadContactOnce ==
  /\ tick.pc = "contact"
  /\ tick' = [tick EXCEPT !.pc = IF opted[tick.contact] /\ tick.rows[tick.contact].step = 0 THEN "stop" ELSE "send"]
  /\ UNCHANGED <<sequence, steps, enr, opted, req, copies, late, acts, faults>>

ReadContact ==
  /\ tick.pc = "contact"
  /\ tick' = [tick EXCEPT !.pc = IF opted[tick.contact] THEN "stop" ELSE "send"]
  /\ UNCHANGED <<sequence, steps, enr, opted, req, copies, late, acts, faults>>

(* sendEmail: the mail leaves, or is refused; or it leaves and the answer   *)
(* is lost, which looks like a refusal.                                     *)
SendStep ==
  LET c == tick.contact
      leaves == /\ copies' = [copies EXCEPT ![c][tick.step] = IF tick.gone THEN @ ELSE @ + 1]
                /\ late' = [late EXCEPT ![c] = IF opted[c] THEN @ + 1 ELSE @]
  IN
  /\ tick.pc = "send"
  /\ \/ leaves /\ tick' = [tick EXCEPT !.pc = "sent"] /\ UNCHANGED faults
     \/ tick' = [tick EXCEPT !.pc = "refused"] /\ UNCHANGED <<copies, late, faults>>
     \/ Fault /\ leaves /\ tick' = [tick EXCEPT !.pc = "refused"]
  /\ UNCHANGED <<sequence, steps, enr, opted, req, acts>>

(* Mutant: the order of the step is read again after the send.              *)
RecordDeletedStep ==
  LET c == tick.contact
      order == steps[tick.step]
      following == NextSteps(tick.steps, order)
  IN
  /\ tick.pc = "sent"
  /\ \/ /\ following = {}
        /\ Write(c, Row("completed", order, "null", 0))
     \/ \E k \in following : Write(c, Row(enr[c].status, order, After(k), 0))
  /\ Loop(tick.due)
  /\ UNCHANGED <<sequence, steps, opted, req, copies, late, acts, faults>>

(* After a success only completing writes the status, so that a pause made  *)
(* meanwhile stays.                                                         *)
RecordSent ==
  LET c == tick.contact
      order == tick.steps[tick.step]
      following == NextSteps(tick.steps, order)
  IN
  /\ tick.pc = "sent"
  /\ \/ /\ following = {}
        /\ Write(c, Row("completed", order, "null", 0))
     \/ \E k \in following : Write(c, Row(enr[c].status, order, After(k), 0))
  /\ Loop(tick.due)
  /\ UNCHANGED <<sequence, steps, opted, req, copies, late, acts, faults>>

(* A refused mail is tried again after a while, MAX_SEND_ATTEMPTS times.    *)
RecordRefused ==
  LET c == tick.contact
      attempts == tick.rows[c].attempts + 1
  IN
  /\ tick.pc = "refused"
  /\ Write(c, IF attempts >= MaxAttempts
              THEN Row("failed", enr[c].step, "null", attempts)
              ELSE Row(enr[c].status, enr[c].step, "later", attempts))
  /\ Loop(tick.due)
  /\ UNCHANGED <<sequence, steps, opted, req, copies, late, acts, faults>>

(* stop, and the completion of an enrollment without a further step.        *)
WriteEnd ==
  LET c == tick.contact IN
  /\ tick.pc \in {"stop", "complete"}
  /\ Write(c, [enr[c] EXCEPT !.status = IF tick.pc = "stop" THEN "stopped" ELSE "completed", !.next = "null"])
  /\ Loop(tick.due)
  /\ UNCHANGED <<sequence, steps, opted, req, copies, late, acts, faults>>

(* A sequence that is held back: nothing is written.                        *)
Defer ==
  /\ tick.pc = "hold"
  /\ Loop(tick.due)
  /\ UNCHANGED <<sequence, steps, enr, opted, req, copies, late, acts, faults>>

(* A database error is caught by the loop; the row keeps its lease.         *)
TickCatches ==
  /\ Fault
  /\ tick.pc \notin {"idle", "loop", "send", "hold"}
  /\ Loop(tick.due)
  /\ UNCHANGED <<sequence, steps, enr, opted, req, copies, late, acts>>

-----------------------------------------------------------------------------
(* The contact opts out; opting in again is left out.                       *)
OptOut(c) ==
  /\ Act
  /\ ~opted[c]
  /\ opted' = [opted EXCEPT ![c] = TRUE]
  /\ UNCHANGED <<sequence, steps, enr, tick, req, copies, late, faults>>

(* A database error ends a request; a restart ends everything.              *)
RequestFails(q) ==
  /\ Fault
  /\ req[q] # IdleRequest
  /\ req' = [req EXCEPT ![q] = IdleRequest]
  /\ UNCHANGED <<sequence, steps, enr, opted, tick, copies, late, acts>>

SeqRestart ==
  /\ tick' = IdleTick
  /\ req' = [q \in Requests |-> IdleRequest]
  /\ UNCHANGED <<sequence, steps, enr, opted, copies, late, acts>>

Restart == Fault /\ (tick # IdleTick \/ \E q \in Requests : req[q] # IdleRequest) /\ SeqRestart

SeqRequests ==
  \/ \E s \in SequenceStatus : SetSequence(s)
  \/ \E k \in StepIds : AddStep(k) \/ DeleteStep(k)
  \/ \E q \in Requests : BeginDelete(q) \/ FinishDelete(q) \/ WriteRequest(q) \/ RequestFails(q)
  \/ \E q \in Requests, c \in Contacts :
       BeginEnroll(q, c) \/ BeginPause(q, c) \/ BeginResume(q, c) \/ BeginUnenroll(q, c)

TickWorks ==
  \/ \E c \in Contacts : ClaimEnrollment(c) \/ SkipEnrollment(c)
  \/ LoadSequence \/ LoadSteps \/ ReadContact \/ SendStep
  \/ RecordSent \/ RecordRefused \/ WriteEnd \/ Defer

SeqNext ==
  \/ SeqRequests
  \/ TickRead \/ TickWorks \/ TickCatches
  \/ \E c \in Contacts : Elapse(c) \/ OptOut(c)
  \/ Restart

SeqSpec == SeqInit /\ [][SeqNext]_seqVars

(* The interval fires, time passes between its ticks, begun handlers go on. *)
SeqFairness ==
  /\ WF_seqVars(TickRead) /\ WF_seqVars(TickWorks)
  /\ \A c \in Contacts : SF_seqVars(Elapse(c))

SeqFairSpec == SeqSpec /\ SeqFairness

-----------------------------------------------------------------------------
(* Properties.                                                              *)

(* A contact gets a second copy of a step only after a crash, an error or a *)
(* lost answer between the send and its recording: claims, leases, retries  *)
(* and races with pause, resume and the edits of the steps add none to      *)
(* those of NeverDoubleSent.                                                *)
CopiesArePaidFor == \A c \in Contacts, k \in StepIds : copies[c][k] <= 1 + faults

(* Once a contact has opted out, at most the mail whose contact had already *)
(* been read leaves.                                                        *)
OneLateStep == \A c \in Contacts : late[c] <= 1

(* "If the claimer dies the lease simply expires and the row is picked up   *)
(* again": while the sequence stays active, every active enrollment leaves  *)
(* that status, whatever crashes and errors cut its ticks short.            *)
EnrollmentsEnd ==
  \A c \in Contacts :
    LET waits == sequence = "active" /\ enr[c].status = "active" IN waits ~> ~waits

(* What a comment says, and the code does not do.                           *)

(* "Rows are claimed with guarded UPDATEs, so restarts/overlap never        *)
(* double-send" (_core/index.ts): a contact gets a step once.               *)
NeverDoubleSent == \A c \in Contacts, k \in StepIds : copies[c][k] <= 1
=============================================================================
