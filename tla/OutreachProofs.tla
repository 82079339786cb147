---------------------------- MODULE OutreachProofs ----------------------------
(***************************************************************************)
(* Proofs about Outreach, for every number of contacts, steps, recipients, *)
(* requests, runs and faults.  Of the campaigns: whatever the tick, the    *)
(* people and the runs of sendCampaign do, a recipient is mailed once, and *)
(* once more for each lost answer (MailingInv).  Of the sequences: that at *)
(* most one mail leaves after an opt-out, and that a second copy of a step *)
(* is explained by a fault (SequenceInv).  Of the two: their type, for     *)
(* which a run counts a worker for each row that is in hand (SenderInv).   *)
(***************************************************************************)
EXTENDS Outreach, FiniteSetTheorems, TLAPS

-----------------------------------------------------------------------------
(* Campaigns.                                                               *)

(* What the invariant speaks of: the recipients, the workers and the mails. *)
mailing == <<rcp, job, mailed, lost>>

MailingType ==
  /\ rcp \in [Recipients -> Camp!RecipientStatus]
  /\ job \in [Senders -> [Recipients -> Camp!JobPC]]
  /\ mailed \in [Recipients -> Nat]
  /\ lost \in [Recipients -> Nat]

(* A worker holds the row it works on: nobody else does, and it is sending. *)
Held ==
  \A s \in Senders, r \in Recipients :
    job[s][r] # "none" =>
      /\ rcp[r] = "sending"
      /\ \A t \in Senders : job[t][r] # "none" => t = s

(* A mail that is not explained by a lost answer makes the row `sending' or *)
(* `sent', from which no run takes it up again ...                          *)
Explained(r) == mailed[r] <= lost[r]
SentOnce ==
  \A r \in Recipients :
    /\ mailed[r] <= 1 + lost[r]
    /\ rcp[r] \notin {"sending", "sent"} => Explained(r)

(* ... and a worker that has not sent, or was refused, has none to explain. *)
Unsent ==
  \A s \in Senders, r \in Recipients : job[s][r] \in {"send", "skip", "refused"} => Explained(r)

MailingInv == MailingType /\ Held /\ SentOnce /\ Unsent

-----------------------------------------------------------------------------
(* The start: nobody works on a row and nothing was mailed.                 *)
LEMMA MailingInit == ASSUME Init PROVE MailingInv
  BY DEF Init, MailingInv, MailingType, Held, SentOnce, Unsent, Explained, Camp!CampInit, Camp!NoJobs,
         Camp!RecipientStatus, Camp!JobPC

(* Most steps of the sender leave the mailing alone.                        *)
LEMMA QuietRun ==
  ASSUME NEW s \in Senders,
         \/ Camp!ClaimCampaign(s) \/ Camp!ListPending(s) \/ Camp!ReadContacts(s)
         \/ Camp!Catch(s) \/ Camp!DetachedEnds(s) \/ Camp!Tally(s) \/ Camp!Finish(s)
         \/ Camp!PreparationFails(s) \/ Camp!RunFails(s) \/ Camp!BeginSend(s) \/ Camp!BeginDue(s)
  PROVE  UNCHANGED mailing
  BY DEF mailing, Camp!ClaimCampaign, Camp!ListPending, Camp!ReadContacts, Camp!Catch, Camp!DetachedEnds,
         Camp!Tally, Camp!Finish, Camp!PreparationFails, Camp!RunFails, Camp!BeginSend, Camp!BeginDue

LEMMA QuietRequest ==
  ASSUME \/ Camp!UpdateCampaign \/ Camp!HalfAnHour
         \/ \E q \in Clerks : \/ Camp!BeginSchedule(q) \/ Camp!BeginUnschedule(q) \/ Camp!BeginAdd(q)
                              \/ Camp!ClerkFails(q) \/ \E r \in Recipients : Camp!BeginRemove(q, r)
         \/ \E c \in Contacts : Camp!CampOptOut(c)
  PROVE  UNCHANGED mailing
  BY DEF mailing, Camp!UpdateCampaign, Camp!HalfAnHour, Camp!BeginSchedule, Camp!BeginUnschedule, Camp!BeginAdd,
         Camp!BeginRemove, Camp!ClerkFails, Camp!CampOptOut, Camp!ClerkReads

LEMMA Unmoved == ASSUME MailingInv, UNCHANGED mailing PROVE MailingInv'
  BY DEF mailing, MailingInv, MailingType, Held, SentOnce, Unsent, Explained

(* A step that only takes rows from a status without a worker to another.   *)
LEMMA RowsMove ==
  ASSUME MailingInv,
         rcp' \in [Recipients -> Camp!RecipientStatus],
         \A r \in Recipients : rcp'[r] # rcp[r] => rcp[r] \notin {"sending", "sent"},
         UNCHANGED <<job, mailed, lost>>
  PROVE  MailingInv'
  BY DEF MailingInv, MailingType, Held, SentOnce, Unsent, Explained

(* A step that ends work without writing.                                   *)
LEMMA WorkEnds ==
  ASSUME MailingInv,
         job' \in [Senders -> [Recipients -> Camp!JobPC]],
         \A s \in Senders, r \in Recipients : job'[s][r] \in {job[s][r], "none"},
         UNCHANGED <<rcp, mailed, lost>>
  PROVE  MailingInv'
  BY DEF MailingInv, MailingType, Held, SentOnce, Unsent, Explained

(* Changing one worker's job on one row.                                    *)
LEMMA OneJob ==
  ASSUME MailingType, NEW s \in Senders, NEW r \in Recipients, NEW pc \in Camp!JobPC,
         job' = [job EXCEPT ![s][r] = pc]
  PROVE  /\ job' \in [Senders -> [Recipients -> Camp!JobPC]]
         /\ job'[s][r] = pc
         /\ \A t \in Senders, u \in Recipients : t # s \/ u # r => job'[t][u] = job[t][u]
  BY DEF MailingType

-----------------------------------------------------------------------------
(* The requests that write recipients, and the reset of failed ones.        *)
LEMMA ClerkStep == ASSUME MailingInv, NEW q \in Clerks, Camp!WriteClerk(q) PROVE MailingInv'
<1> DEFINE rows == clerk[q].rows
<1>1. rcp' \in [Recipients -> Camp!RecipientStatus]
  BY DEF MailingInv, MailingType, Camp!WriteClerk, Camp!RecipientStatus
<1>2. \A r \in Recipients : rcp'[r] # rcp[r] => rcp[r] \notin {"sending", "sent"}
  BY DEF MailingInv, MailingType, Camp!WriteClerk
<1>3. UNCHANGED <<job, mailed, lost>>
  BY DEF Camp!WriteClerk
<1> QED BY <1>1, <1>2, <1>3, RowsMove

LEMMA ResetStep == ASSUME MailingInv, NEW s \in Senders, Camp!ResetFailed(s) PROVE MailingInv'
<1>1. rcp' \in [Recipients -> Camp!RecipientStatus]
  BY DEF MailingInv, MailingType, Camp!ResetFailed, Camp!RecipientStatus
<1>2. \A r \in Recipients : rcp'[r] # rcp[r] => rcp[r] \notin {"sending", "sent"}
  BY DEF MailingInv, MailingType, Camp!ResetFailed
<1>3. UNCHANGED <<job, mailed, lost>>
  BY DEF Camp!ResetFailed
<1> QED BY <1>1, <1>2, <1>3, RowsMove

-----------------------------------------------------------------------------
(* The workers.                                                             *)

(* The claim is what makes the holder unique: it takes a pending row, which *)
(* nobody holds and for which no mail is unexplained.                       *)
LEMMA MailingClaims ==
  ASSUME MailingInv, NEW s \in Senders, NEW r \in Recipients, Camp!ClaimRecipient(s, r)
  PROVE  MailingInv'
<1>1. CASE rcp[r] # "pending"
  <2>1. UNCHANGED mailing
    BY <1>1 DEF Camp!ClaimRecipient, mailing
  <2> QED BY <2>1, Unmoved
<1>2. CASE rcp[r] = "pending"
  <2>1. /\ rcp' = [rcp EXCEPT ![r] = "sending"]
        /\ UNCHANGED <<mailed, lost>>
    BY <1>2 DEF Camp!ClaimRecipient
  <2>2. PICK pc \in {"send", "skip"} : job' = [job EXCEPT ![s][r] = pc]
    BY <1>2 DEF Camp!ClaimRecipient, Camp!NextJob
  <2>3. /\ job' \in [Senders -> [Recipients -> Camp!JobPC]]
        /\ job'[s][r] = pc
        /\ \A t \in Senders, u \in Recipients : t # s \/ u # r => job'[t][u] = job[t][u]
    BY <2>2, OneJob DEF MailingInv, Camp!JobPC
  <2>4. MailingType'
    BY <2>1, <2>3 DEF MailingInv, MailingType, Camp!RecipientStatus
  <2>5. Held'
    BY <1>2, <2>1, <2>3 DEF MailingInv, MailingType, Held
  <2>6. SentOnce'
    BY <1>2, <2>1 DEF MailingInv, MailingType, SentOnce, Explained
  <2>7. Unsent'
    BY <1>2, <2>1, <2>3 DEF MailingInv, MailingType, SentOnce, Unsent, Explained
  <2> QED BY <2>4, <2>5, <2>6, <2>7 DEF MailingInv
<1> QED BY <1>1, <1>2

(* A mail leaves for a row that was not mailed, or has its lost answer      *)
(* counted with it.                                                         *)
LEMMA MailStep ==
  ASSUME MailingInv, NEW s \in Senders, NEW r \in Recipients, Camp!Mail(s, r)
  PROVE  MailingInv'
<1>1. job[s][r] = "send" /\ rcp' = rcp
  BY DEF Camp!Mail
<1>2. rcp[r] = "sending" /\ Explained(r)
  BY <1>1 DEF MailingInv, Held, Unsent
<1>3. PICK pc \in {"sent", "refused"} :
        /\ job' = [job EXCEPT ![s][r] = pc]
        /\ \/ pc = "sent" /\ mailed' = [mailed EXCEPT ![r] = @ + 1] /\ lost' = lost
           \/ pc = "refused" /\ mailed' = mailed /\ lost' = lost
           \/ pc = "refused" /\ mailed' = [mailed EXCEPT ![r] = @ + 1] /\ lost' = [lost EXCEPT ![r] = @ + 1]
  BY DEF Camp!Mail
<1>4. /\ job' \in [Senders -> [Recipients -> Camp!JobPC]]
      /\ job'[s][r] = pc
      /\ \A t \in Senders, u \in Recipients : t # s \/ u # r => job'[t][u] = job[t][u]
  <2>1. job' = [job EXCEPT ![s][r] = pc]
    BY <1>3
  <2>2. pc \in Camp!JobPC
    BY <1>3 DEF Camp!JobPC
  <2> QED BY <2>1, <2>2, OneJob, ZenonT(40) DEF MailingInv
<1>5. /\ mailed' \in [Recipients -> Nat] /\ lost' \in [Recipients -> Nat]
      /\ mailed'[r] <= 1 + lost'[r]
      /\ pc = "refused" => mailed'[r] <= lost'[r]
      /\ \A u \in Recipients : u # r => mailed'[u] = mailed[u] /\ lost'[u] = lost[u]
  BY <1>2, <1>3, SMTT(20) DEF MailingInv, MailingType, Explained
<1>6. MailingType'
  BY <1>1, <1>4, <1>5 DEF MailingInv, MailingType
<1>7. Held'
  BY <1>1, <1>4 DEF MailingInv, MailingType, Held
<1>8. SentOnce'
  BY <1>1, <1>2, <1>5 DEF MailingInv, SentOnce, Explained
<1>9. Unsent'
  <2> SUFFICES ASSUME NEW t \in Senders, NEW u \in Recipients, job'[t][u] \in {"send", "skip", "refused"}
               PROVE  mailed'[u] <= lost'[u]
    BY DEF Unsent, Explained
  <2>1. CASE t = s /\ u = r
    BY <2>1, <1>4, <1>5
  <2>2. CASE u # r
    BY <2>2, <1>4, <1>5 DEF MailingInv, Unsent, Explained
  <2>3. CASE t # s /\ u = r
    BY <2>3, <1>1, <1>4 DEF MailingInv, Held
  <2> QED BY <2>1, <2>2, <2>3
<1> QED BY <1>6, <1>7, <1>8, <1>9 DEF MailingInv

(* The outcome is written by the holder: `sent' after a mail, another       *)
(* status when there is none to explain.                                    *)
LEMMA MailingWrites ==
  ASSUME MailingInv, NEW s \in Senders, NEW r \in Recipients, Camp!WriteRecipient(s, r)
  PROVE  MailingInv'
<1>1. PICK status \in Camp!Outcome(s, r) : rcp' = [rcp EXCEPT ![r] = IF @ = "deleted" THEN @ ELSE status]
  BY DEF Camp!WriteRecipient
<1>2. job' = [job EXCEPT ![s][r] = "none"] /\ UNCHANGED <<mailed, lost>>
  BY DEF Camp!WriteRecipient
<1>3. job[s][r] # "none" /\ status \in {"sent", "failed", "skipped", "unsubscribed"}
  BY <1>1 DEF Camp!Outcome
<1>4. /\ job' \in [Senders -> [Recipients -> Camp!JobPC]]
      /\ job'[s][r] = "none"
      /\ \A t \in Senders, u \in Recipients : t # s \/ u # r => job'[t][u] = job[t][u]
  BY <1>2, OneJob DEF MailingInv, Camp!JobPC
<1>5. status # "sent" => Explained(r)
  BY <1>1 DEF Camp!Outcome, MailingInv, Unsent
<1>6. MailingType'
  BY <1>1, <1>2, <1>3, <1>4 DEF MailingInv, MailingType, Camp!RecipientStatus
<1>7. Held'
  BY <1>1, <1>3, <1>4 DEF MailingInv, MailingType, Held
<1>8. SentOnce'
  BY <1>1, <1>2, <1>3, <1>5 DEF MailingInv, MailingType, SentOnce, Held, Explained
<1>9. Unsent'
  BY <1>2, <1>4 DEF MailingInv, MailingType, Unsent, Explained
<1> QED BY <1>6, <1>7, <1>8, <1>9 DEF MailingInv

LEMMA WorkerEnds ==
  ASSUME MailingInv, NEW s \in Senders, NEW r \in Recipients, Camp!WorkerFails(s, r)
  PROVE  MailingInv'
<1>1. job' = [job EXCEPT ![s][r] = "none"] /\ UNCHANGED <<rcp, mailed, lost>>
  BY DEF Camp!WorkerFails
<1>2. /\ job' \in [Senders -> [Recipients -> Camp!JobPC]]
      /\ job'[s][r] = "none"
      /\ \A t \in Senders, u \in Recipients : t # s \/ u # r => job'[t][u] = job[t][u]
  BY <1>1, OneJob DEF MailingInv, Camp!JobPC
<1> QED BY <1>1, <1>2, WorkEnds

LEMMA MailingRestarts == ASSUME MailingInv, Restart PROVE MailingInv'
<1>1. job' = [s \in Senders |-> Camp!NoJobs] /\ UNCHANGED <<rcp, mailed, lost>>
  BY DEF Restart, Camp!CampRestart
<1>2. job' \in [Senders -> [Recipients -> Camp!JobPC]]
  BY <1>1 DEF Camp!NoJobs, Camp!JobPC
<1>3. \A s \in Senders, r \in Recipients : job'[s][r] \in {job[s][r], "none"}
  BY <1>1 DEF Camp!NoJobs
<1> QED BY <1>1, <1>2, <1>3, WorkEnds

-----------------------------------------------------------------------------
LEMMA RunStep ==
  ASSUME MailingInv, NEW s \in Senders, Camp!RunWorks(s) \/ Camp!RunBreaks(s)
  PROVE  MailingInv'
<1>1. CASE Camp!ResetFailed(s)
  BY <1>1, ResetStep
<1>2. CASE \E r \in Recipients : Camp!ClaimRecipient(s, r) \/ Camp!Mail(s, r) \/ Camp!WriteRecipient(s, r) \/ Camp!WorkerFails(s, r)
  BY <1>2, MailingClaims, MailStep, MailingWrites, WorkerEnds
<1>3. CASE \/ Camp!ClaimCampaign(s) \/ Camp!ListPending(s) \/ Camp!ReadContacts(s)
           \/ Camp!Catch(s) \/ Camp!DetachedEnds(s) \/ Camp!Tally(s) \/ Camp!Finish(s)
           \/ Camp!PreparationFails(s) \/ Camp!RunFails(s)
  BY <1>3, QuietRun, Unmoved
<1> QED BY <1>1, <1>2, <1>3 DEF Camp!RunWorks, Camp!RunBreaks

LEMMA RequestStep == ASSUME MailingInv, Camp!CampRequests PROVE MailingInv'
<1>1. CASE \E q \in Clerks : Camp!WriteClerk(q)
  BY <1>1, ClerkStep
<1>2. CASE \/ Camp!UpdateCampaign
           \/ \E q \in Clerks : \/ Camp!BeginSchedule(q) \/ Camp!BeginUnschedule(q) \/ Camp!BeginAdd(q)
                                \/ Camp!ClerkFails(q) \/ \E r \in Recipients : Camp!BeginRemove(q, r)
  BY <1>2, QuietRequest, Unmoved
<1> QED BY <1>1, <1>2 DEF Camp!CampRequests

LEMMA MailingNext == ASSUME MailingInv, [Next]_vars PROVE MailingInv'
<1>1. CASE UNCHANGED campOnly
  BY <1>1, Unmoved DEF campOnly, mailing
<1>2. CASE \E s \in Senders : SenderWorks(s) \/ SenderBreaks(s)
  BY <1>2, RunStep DEF SenderWorks, SenderBreaks
<1>3. CASE Camp!CampRequests
  BY <1>3, RequestStep
<1>4. CASE \/ \E s \in Senders : Camp!BeginSend(s) \/ Camp!BeginDue(s)
           \/ \E c \in Contacts : Camp!CampOptOut(c)
           \/ Camp!HalfAnHour
  BY <1>4, QuietRun, QuietRequest, Unmoved
<1>5. CASE Restart
  BY <1>5, MailingRestarts
<1> QED
  BY <1>1, <1>2, <1>3, <1>4, <1>5
     DEF Next, TickAdvances, TickStarts, SequencesWork, SequencesCatch, CampaignDue, NothingDue, TickDone,
         People, RowElapses, CampaignAges, vars

(* A recipient gets one copy of a campaign, and one more for each answer    *)
(* that was lost, for any number of recipients, overlapping runs, workers,  *)
(* people and faults.                                                       *)
THEOREM MailedOnce == Spec => []RecipientMailedOnce
<1>1. Init => MailingInv
  BY MailingInit
<1>2. MailingInv /\ [Next]_vars => MailingInv'
  BY MailingNext
<1>3. MailingInv => RecipientMailedOnce
  BY DEF MailingInv, SentOnce, RecipientMailedOnce, Camp!RecipientMailedOnce
<1> QED BY <1>1, <1>2, <1>3, PTL DEF Spec

-----------------------------------------------------------------------------
(* Sequences.                                                               *)

RowType == [status : Runner!EnrollmentStatus \cup {"none"}, step : Orders \cup {0},
            next : Runner!NextSend, attempts : Nat]
Table == [StepIds -> Orders \cup {Runner!Unborn, Runner!Gone}]
TickType ==
  [pc : Runner!TickPC, due : SUBSET Contacts, rows : [Contacts -> RowType],
   seq : Runner!SequenceStatus \cup {"deleted", "unread"}, stepsRead : BOOLEAN, steps : Table,
   contact : Contacts \cup {NoContact}, gone : BOOLEAN, step : StepIds \cup {NoStep}]
RequestType == [pc : Runner!RequestPC, contact : Contacts \cup {NoContact}, next : Runner!NextSend]

(* Runner!SeqTypeOK, and the type of all that the tick holds.               *)
Typed ==
  /\ sequence \in Runner!SequenceStatus \cup {"deleted"}
  /\ steps \in Table
  /\ enr \in [Contacts -> RowType]
  /\ opted \in [Contacts -> BOOLEAN]
  /\ tick \in TickType
  /\ req \in [Requests -> RequestType]
  /\ copies \in [Contacts -> [StepIds -> Nat]]
  /\ late \in [Contacts -> Nat]
  /\ acts \in Nat
  /\ faults \in Nat

(* The row at hand, and the rows still to come, are those that were read;   *)
(* the step at hand comes after the one the row has reached.                *)
InHand ==
  /\ tick.pc \in {"idle", "loop"} => tick.contact = NoContact
  /\ tick.pc = "idle" => ~tick.stepsRead
  /\ tick.pc \notin {"idle", "loop"} => tick.contact \in Contacts
  /\ tick.contact \notin tick.due
  /\ \A c \in Contacts :
       c \in tick.due \/ (c = tick.contact /\ ~tick.gone) => Runner!Exists(c) /\ tick.rows[c].step = enr[c].step
  /\ tick.pc \in {"contact", "send", "sent", "refused"} =>
       tick.stepsRead /\ tick.step \in StepIds /\ tick.steps[tick.step] > tick.rows[tick.contact].step

(* A step that the tick has cached keeps its order until it is deleted.     *)
Cached ==
  tick.stepsRead => \A k \in StepIds : tick.steps[k] \in Orders => steps[k] \in {tick.steps[k], Runner!Gone}

Fresh ==
  \A c \in Contacts : ~Runner!Exists(c) => enr[c].step = 0 /\ \A k \in StepIds : copies[c][k] = 0

(* Step k may still be sent to c: by its order now, or as the tick read it, *)
(* and it is not the one that has just left.                                *)
Ahead(c, k) ==
  \/ steps[k] = Runner!Unborn
  \/ steps[k] > enr[c].step
  \/ tick.stepsRead /\ tick.steps[k] > enr[c].step
JustLeft(c, k) == tick.pc = "sent" /\ ~tick.gone /\ tick.contact = c /\ tick.step = k

Paid ==
  \A c \in Contacts, k \in StepIds :
    /\ copies[c][k] <= 1 + faults
    /\ Ahead(c, k) /\ ~JustLeft(c, k) => copies[c][k] <= faults

(* Only a tick that read the contact before the opt-out mails it after.     *)
Late ==
  \A c \in Contacts :
    /\ late[c] <= 1
    /\ late[c] > 0 => opted[c]
    /\ tick.pc = "send" /\ tick.contact = c => late[c] = 0

SequenceInv == Typed /\ InHand /\ Cached /\ Fresh /\ Paid /\ Late

USE DEF Runner!Unborn, Runner!Gone

-----------------------------------------------------------------------------
LEMMA SequenceInit == ASSUME Init PROVE SequenceInv
<1> USE SequenceAssumption, BoundsAssumption DEF Init, Runner!SeqInit
<1>1. Typed
  BY DEF Typed, RowType, Table, TickType, RequestType, Runner!SequenceStatus, Runner!EnrollmentStatus, Runner!NextSend,
         Runner!TickPC, Runner!RequestPC, Runner!IdleTick, Runner!IdleRequest, Runner!Unread, Runner!NoRow, Runner!Row
<1>2. tick = Runner!IdleTick /\ tick.pc = "idle" /\ tick.contact = NoContact /\ ~tick.stepsRead /\ tick.due = {}
  BY DEF Runner!IdleTick
<1>3. InHand /\ Cached
  BY <1>2 DEF InHand, Cached
<1>4. \A c \in Contacts : enr[c].step = 0 /\ late[c] = 0 /\ \A k \in StepIds : copies[c][k] = 0
  BY DEF Runner!NoRow, Runner!Row
<1>5. Fresh /\ Paid /\ Late
  BY <1>4 DEF Fresh, Paid, Late
<1> QED BY <1>1, <1>3, <1>5 DEF SequenceInv

(* Steps that leave the tick, the steps and the mails alone, and every row  *)
(* at the step it has reached.                                              *)
Quiet ==
  /\ UNCHANGED <<tick, steps, copies, late>>
  /\ enr' \in [Contacts -> RowType]
  /\ \A c \in Contacts : /\ enr'[c].step = enr[c].step
                         /\ enr[c].status # "none" => enr'[c].status # "none"
  /\ sequence' \in Runner!SequenceStatus \cup {"deleted"}
  /\ opted' \in [Contacts -> BOOLEAN]
  /\ \A c \in Contacts : opted[c] => opted'[c]
  /\ req' \in [Requests -> RequestType]
  /\ acts' \in Nat
  /\ faults' \in Nat /\ faults' >= faults

LEMMA QuietHolds == ASSUME SequenceInv, Quiet PROVE SequenceInv'
<1>1. Typed'
  BY DEF SequenceInv, Typed, Quiet
<1>2. InHand'
  BY DEF SequenceInv, InHand, Quiet, Runner!Exists
<1>3. Cached'
  BY DEF SequenceInv, Cached, Quiet
<1>4. Fresh'
  BY DEF SequenceInv, Fresh, Quiet, Runner!Exists
<1>5. Paid'
  <2> SUFFICES ASSUME NEW c \in Contacts, NEW k \in StepIds
               PROVE  /\ copies'[c][k] <= 1 + faults'
                      /\ Ahead(c, k)' /\ ~JustLeft(c, k)' => copies'[c][k] <= faults'
    BY DEF Paid
  <2>1. (Ahead(c, k)' => Ahead(c, k)) /\ (JustLeft(c, k)' <=> JustLeft(c, k)) /\ copies'[c][k] = copies[c][k]
    BY DEF Quiet, Ahead, JustLeft
  <2>2. copies[c][k] \in Nat /\ faults \in Nat /\ faults' \in Nat /\ faults' >= faults
    BY DEF SequenceInv, Typed, Quiet
  <2> QED BY <2>1, <2>2 DEF SequenceInv, Paid
<1>6. Late'
  BY DEF SequenceInv, Typed, Late, Quiet
<1> QED BY <1>1, <1>2, <1>3, <1>4, <1>5, <1>6 DEF SequenceInv

(* What people ask for, the writes of requests, opt-outs and time.          *)
LEMMA AskStep ==
  ASSUME SequenceInv, NEW q \in Requests, NEW c \in Contacts,
         Runner!BeginEnroll(q, c) \/ Runner!BeginPause(q, c) \/ Runner!BeginResume(q, c) \/ Runner!BeginUnenroll(q, c)
  PROVE  Quiet
<1>1. PICK pc \in Runner!RequestPC, next \in Runner!NextSend : Runner!Asks(q, pc, c, next)
  BY DEF Runner!BeginEnroll, Runner!BeginPause, Runner!BeginResume, Runner!BeginUnenroll, Runner!RequestPC,
         Runner!NextSend, Runner!After, SequenceInv, Typed, RowType
<1>2. req' = [req EXCEPT ![q] = [pc |-> pc, contact |-> c, next |-> next]]
  BY <1>1 DEF Runner!Asks
<1>3. req' \in [Requests -> RequestType]
  BY <1>2 DEF SequenceInv, Typed, RequestType
<1> QED BY <1>1, <1>3 DEF Quiet, SequenceInv, Typed, Runner!Asks, Runner!Act

LEMMA SequenceStep ==
  ASSUME SequenceInv, \E s \in Runner!SequenceStatus : Runner!SetSequence(s)
  PROVE  Quiet
  BY DEF SequenceInv, Typed, Quiet, Runner!SetSequence, Runner!Act

LEMMA TickWrites == ASSUME SequenceInv, NEW q \in Requests, Runner!WriteRequest(q) PROVE Quiet
<1> DEFINE c == req[q].contact
<1>1. req[q] \in RequestType
  BY DEF SequenceInv, Typed
<1>2. req' \in [Requests -> RequestType]
  BY DEF Runner!WriteRequest, SequenceInv, Typed, RequestType, Runner!IdleRequest, Runner!RequestPC, Runner!NextSend
<1>3. /\ enr' \in [Contacts -> RowType]
      /\ \A d \in Contacts : enr'[d].step = enr[d].step /\ (enr[d].status # "none" => enr'[d].status # "none")
  <2>1. CASE enr' = enr
    BY <2>1 DEF SequenceInv, Typed
  <2>2. CASE c \in Contacts /\ ~Runner!Exists(c) /\ enr' = [enr EXCEPT ![c] = Runner!Row("active", 0, req[q].next, 0)]
    BY <1>1, <2>2 DEF SequenceInv, Typed, Fresh, Runner!Exists, Runner!Row, RowType, RequestType, Runner!EnrollmentStatus
  <2>3. CASE c \in Contacts /\ enr' = [enr EXCEPT ![c].status = "paused"]
    BY <2>3, ZenonT(40) DEF SequenceInv, Typed, RowType, Runner!EnrollmentStatus
  <2>4. CASE c \in Contacts /\ enr' = [enr EXCEPT ![c].status = "active", ![c].next = req[q].next]
    <3>1. enr' = [enr EXCEPT ![c] = [enr[c] EXCEPT !.status = "active", !.next = req[q].next]]
      BY <2>4 DEF SequenceInv, Typed
    <3>2. enr[c] \in RowType /\ req[q].next \in Runner!NextSend
      BY <1>1, <2>4 DEF SequenceInv, Typed, RequestType
    <3>3. /\ [enr[c] EXCEPT !.status = "active", !.next = req[q].next] \in RowType
          /\ [enr[c] EXCEPT !.status = "active", !.next = req[q].next].step = enr[c].step
          /\ [enr[c] EXCEPT !.status = "active", !.next = req[q].next].status = "active"
      BY <3>2 DEF RowType, Runner!EnrollmentStatus
    <3>4. c \in Contacts
      BY <2>4
    <3> HIDE DEF c
    <3> QED BY <3>1, <3>3, <3>4 DEF SequenceInv, Typed
  <2>5. CASE c \in Contacts /\ enr' = [enr EXCEPT ![c].status = "stopped", ![c].next = "null"]
    <3>1. enr' = [enr EXCEPT ![c] = [enr[c] EXCEPT !.status = "stopped", !.next = "null"]]
      BY <2>5 DEF SequenceInv, Typed
    <3> QED BY <2>5, <3>1 DEF SequenceInv, Typed, RowType, Runner!EnrollmentStatus, Runner!NextSend
  <2>6. CASE c \notin Contacts
    <3>1. \A new : [enr EXCEPT ![c] = new] = enr
      BY <2>6 DEF SequenceInv, Typed
    <3> QED BY <3>1, <2>1 DEF Runner!WriteRequest
  <2> QED BY <2>1, <2>2, <2>3, <2>4, <2>5, <2>6 DEF Runner!WriteRequest
<1> QED BY <1>2, <1>3 DEF Quiet, SequenceInv, Typed, Runner!WriteRequest

LEMMA FailStep == ASSUME SequenceInv, NEW q \in Requests, Runner!RequestFails(q) PROVE Quiet
<1>1. req' \in [Requests -> RequestType]
  BY DEF Runner!RequestFails, SequenceInv, Typed, RequestType, Runner!IdleRequest, Runner!RequestPC, Runner!NextSend
<1> QED BY <1>1 DEF Quiet, SequenceInv, Typed, Runner!RequestFails, Runner!Fault

LEMMA ElapseStep == ASSUME SequenceInv, NEW c \in Contacts, Runner!Elapse(c) PROVE Quiet
<1>1. /\ enr' \in [Contacts -> RowType]
      /\ \A d \in Contacts : enr'[d].step = enr[d].step /\ enr'[d].status = enr[d].status
  BY ZenonT(40) DEF Runner!Elapse, SequenceInv, Typed, RowType, Runner!NextSend
<1> QED BY <1>1 DEF Quiet, SequenceInv, Typed, Runner!Elapse

(* What the campaigns, their senders and clerks do does not touch the rows. *)
CampaignActs ==
  \/ Camp!CampRequests \/ Camp!HalfAnHour
  \/ \E s \in Senders : Camp!BeginSend(s) \/ Camp!BeginDue(s) \/ Camp!RunWorks(s) \/ Camp!RunBreaks(s)
  \/ \E c \in Contacts : Camp!CampOptOut(c)

LEMMA CampaignCounts ==
  ASSUME CampaignActs PROVE acts' \in {acts, acts + 1} /\ faults' \in {faults, faults + 1}
<1> USE DEF Camp!Act, Camp!Fault
<1>1. CASE Camp!CampRequests
  BY <1>1, Zenon DEF Camp!CampRequests, Camp!UpdateCampaign, Camp!BeginSchedule, Camp!BeginUnschedule, Camp!BeginAdd,
              Camp!BeginRemove, Camp!ClerkReads, Camp!WriteClerk, Camp!ClerkFails
<1>2. CASE \E s \in Senders : Camp!RunWorks(s)
  BY <1>2, ZenonT(40) DEF Camp!RunWorks, Camp!ClaimCampaign, Camp!ResetFailed, Camp!ListPending, Camp!ReadContacts,
              Camp!ClaimRecipient, Camp!Mail, Camp!WriteRecipient, Camp!Catch, Camp!DetachedEnds, Camp!Tally, Camp!Finish
<1>3. CASE \E s \in Senders : Camp!BeginSend(s) \/ Camp!BeginDue(s) \/ Camp!RunBreaks(s)
  BY <1>3, Zenon DEF Camp!BeginSend, Camp!BeginDue, Camp!RunBreaks, Camp!PreparationFails, Camp!RunFails, Camp!WorkerFails
<1>4. CASE Camp!HalfAnHour \/ \E c \in Contacts : Camp!CampOptOut(c)
  BY <1>4, Zenon DEF Camp!HalfAnHour, Camp!CampOptOut
<1> QED BY <1>1, <1>2, <1>3, <1>4 DEF CampaignActs

LEMMA CampaignOptOuts ==
  ASSUME CampaignActs, opted \in [Contacts -> BOOLEAN]
  PROVE  opted' \in [Contacts -> BOOLEAN] /\ \A c \in Contacts : opted[c] => opted'[c]
<1>1. CASE Camp!CampRequests
  <2>1. UNCHANGED opted
    BY <1>1, Zenon DEF Camp!CampRequests, Camp!UpdateCampaign, Camp!BeginSchedule, Camp!BeginUnschedule, Camp!BeginAdd,
                Camp!BeginRemove, Camp!ClerkReads, Camp!WriteClerk, Camp!ClerkFails
  <2> QED BY <2>1
<1>2. CASE \E s \in Senders : Camp!RunWorks(s)
  <2>1. UNCHANGED opted
    BY <1>2, ZenonT(40) DEF Camp!RunWorks, Camp!ClaimCampaign, Camp!ResetFailed, Camp!ListPending, Camp!ReadContacts,
                Camp!ClaimRecipient, Camp!Mail, Camp!WriteRecipient, Camp!Catch, Camp!DetachedEnds, Camp!Tally, Camp!Finish
  <2> QED BY <2>1
<1>3. CASE Camp!HalfAnHour \/ \E s \in Senders : Camp!BeginSend(s) \/ Camp!BeginDue(s) \/ Camp!RunBreaks(s)
  <2>1. UNCHANGED opted
    BY <1>3, Zenon DEF Camp!HalfAnHour, Camp!BeginSend, Camp!BeginDue, Camp!RunBreaks, Camp!PreparationFails,
                Camp!RunFails, Camp!WorkerFails
  <2> QED BY <2>1
<1>4. CASE \E c \in Contacts : Camp!CampOptOut(c)
  BY <1>4 DEF Camp!CampOptOut
<1> QED BY <1>1, <1>2, <1>3, <1>4 DEF CampaignActs

LEMMA CampaignStep == ASSUME SequenceInv, CampaignActs, UNCHANGED seqOnly PROVE Quiet
<1>1. acts' \in {acts, acts + 1} /\ faults' \in {faults, faults + 1}
  BY CampaignCounts
<1>2. opted' \in [Contacts -> BOOLEAN] /\ \A c \in Contacts : opted[c] => opted'[c]
  BY CampaignOptOuts DEF SequenceInv, Typed
<1> QED BY <1>1, <1>2 DEF Quiet, SequenceInv, Typed, seqOnly

-----------------------------------------------------------------------------
(* Steps that have the tick go on to the next row.                          *)
LEMMA LoopTick ==
  ASSUME tick \in TickType, NEW due \in SUBSET Contacts, Runner!Loop(due)
  PROVE  /\ tick' \in TickType
         /\ tick'.pc \in {"idle", "loop"} /\ (tick'.pc = "idle" => ~tick'.stepsRead)
         /\ tick'.contact = NoContact /\ ~tick'.gone
         /\ tick'.due = due
         /\ \A c \in due : tick'.rows[c] = tick.rows[c]
         /\ tick'.stepsRead => tick.stepsRead /\ tick'.steps = tick.steps
<1> USE DEF TickType, RowType
<1>1. CASE due = {}
  BY <1>1 DEF Runner!Loop, Runner!IdleTick, Runner!TickPC, Table, Runner!Unread, Runner!NoRow, Runner!Row,
              Runner!EnrollmentStatus, Runner!NextSend
<1>2. CASE due # {}
  <2>1. [c \in Contacts |-> IF c \in due THEN tick.rows[c] ELSE Runner!NoRow] \in [Contacts -> RowType]
    BY DEF Runner!NoRow, Runner!Row, Runner!EnrollmentStatus, Runner!NextSend
  <2> QED BY <1>2, <2>1 DEF Runner!Loop, Runner!TickPC
<1> QED BY <1>1, <1>2

(* What the write of the row at hand may do to the rows.                    *)
GoesOn(due) ==
  /\ due \subseteq tick.due
  /\ Runner!Loop(due)
  /\ UNCHANGED <<sequence, steps, opted, req, copies, late, acts>>
  /\ faults' \in Nat
  /\ enr' \in [Contacts -> RowType]
  /\ \A c \in Contacts : /\ c # tick.contact \/ tick.gone => enr'[c] = enr[c]
                         /\ enr[c].status # "none" => enr'[c].status # "none"

LEMMA GoesOnHolds == ASSUME SequenceInv, NEW due, GoesOn(due), Paid' PROVE SequenceInv'
<1>1. due \in SUBSET Contacts /\ tick \in TickType
  BY DEF SequenceInv, Typed, TickType, GoesOn
<1>2. /\ tick' \in TickType
      /\ tick'.pc \in {"idle", "loop"} /\ (tick'.pc = "idle" => ~tick'.stepsRead)
      /\ tick'.contact = NoContact /\ ~tick'.gone
      /\ tick'.due = due
      /\ \A c \in due : tick'.rows[c] = tick.rows[c]
      /\ tick'.stepsRead => tick.stepsRead /\ tick'.steps = tick.steps
  BY <1>1, LoopTick DEF GoesOn
<1>3. Typed'
  BY <1>2 DEF SequenceInv, Typed, GoesOn
<1>4. InHand'
  BY <1>1, <1>2, SequenceAssumption DEF SequenceInv, InHand, GoesOn, Runner!Exists
<1>5. Cached'
  BY <1>2 DEF SequenceInv, Cached, GoesOn
<1>6. Fresh'
  BY DEF SequenceInv, InHand, Fresh, GoesOn, Runner!Exists
<1>7. Late'
  BY <1>2 DEF SequenceInv, Late, GoesOn
<1> QED BY <1>3, <1>4, <1>5, <1>6, <1>7 DEF SequenceInv

(* What is still ahead does not grow when the tick goes on and the rows     *)
(* stay at their steps ...                                                  *)
LEMMA StillPaid ==
  ASSUME SequenceInv, NEW due, GoesOn(due), \A c \in Contacts : enr'[c].step = enr[c].step,
         (faults' = faults /\ (tick.pc # "sent" \/ tick.gone)) \/ faults' = faults + 1
  PROVE  Paid'
<1> SUFFICES ASSUME NEW c \in Contacts, NEW k \in StepIds
             PROVE  /\ copies'[c][k] <= 1 + faults'
                    /\ Ahead(c, k)' => copies'[c][k] <= faults'
  BY DEF Paid
<1>1. copies'[c][k] = copies[c][k] /\ copies[c][k] \in Nat /\ faults \in Nat
  BY DEF GoesOn, SequenceInv, Typed
<1>2. CASE faults' = faults + 1
  BY <1>1, <1>2 DEF SequenceInv, Paid
<1>3. CASE faults' = faults /\ (tick.pc # "sent" \/ tick.gone)
  <2>1. Ahead(c, k)' => Ahead(c, k)
    <3>1. tick'.stepsRead => tick.stepsRead /\ tick'.steps = tick.steps
      BY LoopTick DEF GoesOn, SequenceInv, Typed, TickType
    <3> QED BY <3>1 DEF Ahead, GoesOn
  <2> QED BY <1>1, <1>3, <2>1 DEF SequenceInv, Paid, JustLeft
<1> QED BY <1>2, <1>3

LEMMA SkipStep == ASSUME SequenceInv, NEW c \in Contacts, Runner!SkipEnrollment(c) PROVE SequenceInv'
<1>1. faults' \in {faults, faults + 1} /\ tick.pc # "sent"
  BY DEF Runner!SkipEnrollment, Runner!Fault
<1>2. GoesOn(tick.due \ {c}) /\ \A d \in Contacts : enr'[d].step = enr[d].step
  BY <1>1 DEF GoesOn, Runner!SkipEnrollment, SequenceInv, Typed
<1> QED BY <1>1, <1>2, StillPaid, GoesOnHolds

LEMMA DeferStep == ASSUME SequenceInv, Runner!Defer PROVE SequenceInv'
<1>1. GoesOn(tick.due) /\ \A d \in Contacts : enr'[d].step = enr[d].step
  BY DEF GoesOn, Runner!Defer, SequenceInv, Typed
<1>2. faults' = faults /\ tick.pc # "sent"
  BY DEF Runner!Defer
<1> QED BY <1>1, <1>2, StillPaid, GoesOnHolds

LEMMA CatchStep == ASSUME SequenceInv, Runner!TickCatches PROVE SequenceInv'
<1>1. GoesOn(tick.due) /\ \A d \in Contacts : enr'[d].step = enr[d].step
  BY DEF GoesOn, Runner!TickCatches, Runner!Fault, SequenceInv, Typed
<1>2. faults' = faults + 1
  BY DEF Runner!TickCatches, Runner!Fault
<1> QED BY <1>1, <1>2, StillPaid, GoesOnHolds

(* A write of the row at hand that keeps it where it is.                    *)
LEMMA RowWritten ==
  ASSUME SequenceInv, tick.contact \in Contacts, NEW row \in RowType, row.status # "none", Runner!Write(tick.contact, row)
  PROVE  /\ enr' \in [Contacts -> RowType]
         /\ \A c \in Contacts : /\ c # tick.contact \/ tick.gone => enr'[c] = enr[c]
                                /\ c = tick.contact /\ ~tick.gone => enr'[c] = row
                                /\ enr[c].status # "none" => enr'[c].status # "none"
  BY DEF Runner!Write, SequenceInv, Typed

LEMMA RefusedStep == ASSUME SequenceInv, Runner!RecordRefused PROVE SequenceInv'
<1> DEFINE c == tick.contact
<1>1. c \in Contacts /\ tick.pc = "refused"
  BY DEF Runner!RecordRefused, SequenceInv, InHand
<1>2. tick.rows[c] \in RowType /\ enr[c] \in RowType
  BY <1>1 DEF SequenceInv, Typed, TickType
<1>3. CASE tick.gone
  <2>1. GoesOn(tick.due) /\ enr' = enr /\ faults' = faults
    BY <1>3 DEF GoesOn, Runner!RecordRefused, Runner!Write, SequenceInv, Typed
  <2> QED BY <1>1, <2>1, StillPaid, GoesOnHolds
<1>4. CASE ~tick.gone
  <2>1. PICK row \in RowType : row.status # "none" /\ row.step = enr[c].step /\ Runner!Write(c, row)
    <3>1. enr[c].status # "none"
      BY <1>1, <1>4 DEF SequenceInv, InHand, Runner!Exists
    <3>2. tick.rows[c].attempts + 1 \in Nat
      BY <1>2 DEF RowType
    <3> QED
      BY <1>2, <3>1, <3>2 DEF Runner!RecordRefused, RowType, Runner!Row, Runner!EnrollmentStatus, Runner!NextSend
  <2>2. GoesOn(tick.due) /\ \A d \in Contacts : enr'[d].step = enr[d].step
    BY <1>1, <2>1, RowWritten DEF GoesOn, Runner!RecordRefused, SequenceInv, Typed
  <2>3. faults' = faults
    BY DEF Runner!RecordRefused
  <2> QED BY <1>1, <2>2, <2>3, StillPaid, GoesOnHolds
<1> QED BY <1>3, <1>4

LEMMA EndStep == ASSUME SequenceInv, Runner!WriteEnd PROVE SequenceInv'
<1> DEFINE c == tick.contact
<1>1. c \in Contacts /\ tick.pc # "sent"
  BY DEF Runner!WriteEnd, SequenceInv, InHand
<1>2. enr[c] \in RowType
  BY <1>1 DEF SequenceInv, Typed
<1>3. PICK row \in RowType : row.status # "none" /\ row.step = enr[c].step /\ Runner!Write(c, row)
  BY <1>2 DEF Runner!WriteEnd, RowType, Runner!EnrollmentStatus, Runner!NextSend
<1>4. GoesOn(tick.due) /\ \A d \in Contacts : enr'[d].step = enr[d].step
  BY <1>1, <1>3, RowWritten DEF GoesOn, Runner!WriteEnd, SequenceInv, Typed
<1>5. faults' = faults
  BY DEF Runner!WriteEnd
<1> QED BY <1>1, <1>4, <1>5, StillPaid, GoesOnHolds

LEMMA PositiveOrders == \A x \in Orders \cup {0, -1} : x \in Int /\ x >= -1 /\ (x > 0 <=> x \in Orders)
  BY SequenceAssumption

(* ... nor when the row moves to the step that has just left: that one is   *)
(* behind it then, by the order that was cached.                            *)
LEMMA SentStep == ASSUME SequenceInv, Runner!RecordSent PROVE SequenceInv'
<1> DEFINE c == tick.contact
           order == tick.steps[tick.step]
<1>1. /\ tick.pc = "sent" /\ c \in Contacts /\ faults' = faults
      /\ tick.stepsRead /\ tick.step \in StepIds /\ order > tick.rows[c].step
      /\ tick.steps \in Table /\ tick.rows[c] \in RowType /\ enr[c] \in RowType
  BY DEF Runner!RecordSent, SequenceInv, InHand, Typed, TickType
<1>2. order \in Orders
  <2>1. order \in Orders \cup {0, -1} /\ tick.rows[c].step \in Orders \cup {0}
    BY <1>1 DEF Table, RowType
  <2>2. tick.rows[c].step \in Int /\ tick.rows[c].step >= 0 /\ order \in Int
    BY <2>1, PositiveOrders
  <2>3. order > 0
    BY <1>1, <2>2
  <2> QED BY <2>1, <2>3, PositiveOrders
<1>3. CASE tick.gone
  <2>1. GoesOn(tick.due) /\ enr' = enr
    BY <1>3 DEF GoesOn, Runner!RecordSent, Runner!Write, SequenceInv, Typed
  <2> QED BY <1>1, <1>3, <2>1, StillPaid, GoesOnHolds
<1>4. CASE ~tick.gone
  <2>1. enr[c].status # "none" /\ tick.rows[c].step = enr[c].step
    BY <1>1, <1>4 DEF SequenceInv, InHand, Runner!Exists
  <2>2. PICK row \in RowType : row.status # "none" /\ row.step = order /\ Runner!Write(c, row)
    <3>1. CASE Runner!Write(c, Runner!Row("completed", order, "null", 0))
      BY <1>2, <3>1 DEF RowType, Runner!Row, Runner!EnrollmentStatus, Runner!NextSend
    <3>2. CASE \E k \in StepIds : Runner!Write(c, Runner!Row(enr[c].status, order, Runner!After(k), 0))
      BY <1>1, <1>2, <2>1, <3>2 DEF RowType, Runner!Row, Runner!After, Runner!NextSend
    <3> QED BY <3>1, <3>2 DEF Runner!RecordSent, Runner!NextSteps
  <2>3. GoesOn(tick.due)
    BY <1>1, <2>2, RowWritten DEF GoesOn, Runner!RecordSent, SequenceInv, Typed
  <2>4. enr'[c].step = order
    BY <1>1, <1>4, <2>2, RowWritten
  <2>5. \A d \in Contacts : d # c => enr'[d] = enr[d]
    BY <2>3 DEF GoesOn
  <2>6. tick'.stepsRead => tick'.steps = tick.steps
    BY <2>3, LoopTick DEF GoesOn, SequenceInv, Typed, TickType
  <2>7. Paid'
    <3> SUFFICES ASSUME NEW d \in Contacts, NEW k \in StepIds
                 PROVE  copies[d][k] <= 1 + faults /\ (Ahead(d, k)' => copies[d][k] <= faults)
      BY <1>1, <2>3 DEF Paid, GoesOn
    <3>1. CASE d # c
      BY <1>1, <2>3, <2>5, <2>6, <3>1 DEF SequenceInv, Paid, Ahead, JustLeft, GoesOn
    <3>2. CASE d = c /\ k = tick.step
      <4>1. steps[k] \in {order, Runner!Gone}
        BY <1>1, <1>2, <3>2 DEF SequenceInv, Cached
      <4>2. order \in Int /\ order > 0
        BY <1>2, PositiveOrders
      <4>3. ~Ahead(d, k)'
        BY <2>3, <2>4, <2>6, <3>2, <4>1, <4>2 DEF Ahead, GoesOn
      <4> QED BY <4>3 DEF SequenceInv, Paid
    <3>3. CASE d = c /\ k # tick.step
      <4>1. /\ order \in Int /\ enr[c].step \in Int
            /\ steps[k] \in Int /\ tick.steps[k] \in Int
        <5>1. steps[k] \in Orders \cup {0, -1} /\ tick.steps[k] \in Orders \cup {0, -1} /\ enr[c].step \in Orders \cup {0}
          BY <1>1 DEF SequenceInv, Typed, Table, RowType
        <5> QED BY <1>2, <5>1, PositiveOrders
      <4>2. Ahead(d, k)' => Ahead(d, k)
        BY <1>1, <2>1, <2>3, <2>4, <2>6, <3>3, <4>1 DEF Ahead, GoesOn
      <4> QED BY <3>3, <4>2 DEF SequenceInv, Paid, JustLeft
    <3> QED BY <3>1, <3>2, <3>3
  <2> QED BY <2>3, <2>7, GoesOnHolds
<1> QED BY <1>3, <1>4

-----------------------------------------------------------------------------
(* Steps that read for the row at hand change the tick alone.               *)
LEMMA LoadStep == ASSUME SequenceInv, Runner!LoadSequence PROVE SequenceInv'
<1>1. /\ tick' \in TickType /\ tick'.pc \in {"stop", "steps", "hold"} /\ tick.pc = "load"
      /\ tick'.contact = tick.contact /\ tick'.gone = tick.gone /\ tick'.due = tick.due /\ tick'.rows = tick.rows
      /\ tick'.stepsRead = tick.stepsRead /\ tick'.steps = tick.steps
  BY ZenonT(40) DEF Runner!LoadSequence, SequenceInv, Typed, TickType, Runner!TickPC
<1>2. UNCHANGED <<sequence, steps, enr, opted, req, copies, late, acts, faults>>
  BY DEF Runner!LoadSequence
<1> QED BY <1>1, <1>2 DEF SequenceInv, Typed, InHand, Cached, Fresh, Paid, Late, Ahead, JustLeft, Runner!Exists

LEMMA StepsStep == ASSUME SequenceInv, Runner!LoadSteps PROVE SequenceInv'
<1> DEFINE seen == IF tick.stepsRead THEN tick.steps ELSE steps
           current == tick.rows[tick.contact].step
<1>1. UNCHANGED <<sequence, steps, enr, opted, req, copies, late, acts, faults>> /\ tick.pc = "steps"
  BY DEF Runner!LoadSteps
<1>2. seen \in Table /\ tick \in TickType
  BY DEF SequenceInv, Typed, TickType
<1>3. PICK pc \in {"complete", "contact"}, k \in StepIds \cup {NoStep} :
        /\ tick' = [tick EXCEPT !.stepsRead = TRUE, !.steps = seen, !.pc = pc, !.step = k]
        /\ pc = "contact" => k \in StepIds /\ seen[k] > current
  <2>1. CASE tick' = [tick EXCEPT !.stepsRead = TRUE, !.steps = seen, !.pc = "complete"]
    <3>1. tick' = [tick EXCEPT !.stepsRead = TRUE, !.steps = seen, !.pc = "complete", !.step = tick.step]
      BY <1>2, <2>1 DEF TickType
    <3> QED BY <1>2, <3>1 DEF TickType
  <2>2. CASE \E k \in Runner!NextSteps(seen, current) :
               tick' = [tick EXCEPT !.stepsRead = TRUE, !.steps = seen, !.pc = "contact", !.step = k]
    BY <2>2 DEF Runner!NextSteps
  <2> QED BY <2>1, <2>2 DEF Runner!LoadSteps
<1>4. /\ tick' \in TickType /\ tick'.pc = pc /\ tick'.step = k /\ tick'.stepsRead /\ tick'.steps = seen
      /\ tick'.contact = tick.contact /\ tick'.gone = tick.gone /\ tick'.due = tick.due /\ tick'.rows = tick.rows
  BY <1>2, <1>3, ZenonT(40) DEF TickType, Runner!TickPC
<1>5. Typed'
  BY <1>1, <1>4 DEF SequenceInv, Typed
<1>6. InHand'
  BY <1>1, <1>3, <1>4 DEF SequenceInv, InHand, Runner!Exists
<1>7. Cached'
  BY <1>1, <1>4 DEF SequenceInv, Cached
<1>8. Paid'
  <2> SUFFICES ASSUME NEW c \in Contacts, NEW j \in StepIds PROVE Ahead(c, j)' => Ahead(c, j) /\ ~JustLeft(c, j)
    BY <1>1 DEF SequenceInv, Paid
  <2> QED BY <1>1, <1>4 DEF Ahead, JustLeft
<1>9. Fresh' /\ Late'
  BY <1>1, <1>3, <1>4 DEF SequenceInv, Fresh, Late, Runner!Exists
<1> QED BY <1>5, <1>6, <1>7, <1>8, <1>9 DEF SequenceInv

LEMMA ContactStep == ASSUME SequenceInv, Runner!ReadContact PROVE SequenceInv'
<1>1. /\ tick' \in TickType /\ tick.pc = "contact"
      /\ tick'.pc = IF opted[tick.contact] THEN "stop" ELSE "send"
      /\ tick'.contact = tick.contact /\ tick'.gone = tick.gone /\ tick'.due = tick.due /\ tick'.rows = tick.rows
      /\ tick'.stepsRead = tick.stepsRead /\ tick'.steps = tick.steps /\ tick'.step = tick.step
  BY DEF Runner!ReadContact, SequenceInv, Typed, TickType, Runner!TickPC
<1>2. UNCHANGED <<sequence, steps, enr, opted, req, copies, late, acts, faults>>
  BY DEF Runner!ReadContact
<1>3. Late'
  BY <1>1, <1>2 DEF SequenceInv, Typed, Late
<1> QED BY <1>1, <1>2, <1>3 DEF SequenceInv, Typed, InHand, Cached, Fresh, Paid, Ahead, JustLeft, Runner!Exists

(* The mail leaves: the step was ahead, and is the one that has just left.  *)
LEMMA SendingStep == ASSUME SequenceInv, Runner!SendStep PROVE SequenceInv'
<1> DEFINE c == tick.contact
           k == tick.step
<1>1. /\ tick.pc = "send" /\ c \in Contacts /\ k \in StepIds
      /\ tick.stepsRead /\ tick.steps[k] > tick.rows[c].step
      /\ UNCHANGED <<sequence, steps, enr, opted, req, acts>>
  BY DEF Runner!SendStep, SequenceInv, InHand
<1>2. PICK pc \in {"sent", "refused"} : tick' = [tick EXCEPT !.pc = pc]
  BY DEF Runner!SendStep
<1>3. /\ tick' \in TickType /\ tick'.pc = pc
      /\ tick'.contact = c /\ tick'.gone = tick.gone /\ tick'.due = tick.due /\ tick'.rows = tick.rows
      /\ tick'.stepsRead = tick.stepsRead /\ tick'.steps = tick.steps /\ tick'.step = k
  BY <1>2 DEF SequenceInv, Typed, TickType, Runner!TickPC
<1>4. \/ UNCHANGED <<copies, late, faults>> /\ pc = "refused"
      \/ /\ copies' = [copies EXCEPT ![c][k] = IF tick.gone THEN @ ELSE @ + 1]
         /\ late' = [late EXCEPT ![c] = IF opted[c] THEN @ + 1 ELSE @]
         /\ (faults' = faults /\ pc = "sent") \/ faults' = faults + 1
  <2>1. tick'.pc = "sent" => pc = "sent"
    BY <1>3
  <2>2. CASE UNCHANGED <<copies, late, faults>> /\ tick' = [tick EXCEPT !.pc = "refused"]
    BY <1>3, <2>2 DEF SequenceInv, Typed, TickType
  <2>3. CASE /\ copies' = [copies EXCEPT ![c][k] = IF tick.gone THEN @ ELSE @ + 1]
             /\ late' = [late EXCEPT ![c] = IF opted[c] THEN @ + 1 ELSE @]
             /\ tick' = [tick EXCEPT !.pc = "sent"] /\ faults' = faults
    BY <1>3, <2>3 DEF SequenceInv, Typed, TickType
  <2>4. CASE /\ copies' = [copies EXCEPT ![c][k] = IF tick.gone THEN @ ELSE @ + 1]
             /\ late' = [late EXCEPT ![c] = IF opted[c] THEN @ + 1 ELSE @]
             /\ faults' = faults + 1
    BY <2>4
  <2> QED BY <2>2, <2>3, <2>4 DEF Runner!SendStep, Runner!Fault
<1>5. /\ copies' \in [Contacts -> [StepIds -> Nat]]
      /\ \A d \in Contacts, j \in StepIds : d # c \/ j # k \/ tick.gone => copies'[d][j] = copies[d][j]
      /\ copies'[c][k] \in {copies[c][k], copies[c][k] + 1}
  <2>1. CASE copies' = copies
    BY <1>1, <2>1 DEF SequenceInv, Typed
  <2>2. CASE copies' = [copies EXCEPT ![c][k] = IF tick.gone THEN @ ELSE @ + 1]
    <3>1. copies \in [Contacts -> [StepIds -> Nat]] /\ tick.gone \in BOOLEAN
      BY DEF SequenceInv, Typed, TickType
    <3>2. copies' = [copies EXCEPT ![c] = [copies[c] EXCEPT ![k] = IF tick.gone THEN copies[c][k] ELSE copies[c][k] + 1]]
      BY <2>2, <3>1, <1>1
    <3>3. copies[c] \in [StepIds -> Nat]
      BY <1>1, <3>1
    <3> HIDE DEF c, k
    <3>4. [copies[c] EXCEPT ![k] = IF tick.gone THEN copies[c][k] ELSE copies[c][k] + 1] \in [StepIds -> Nat]
      BY <1>1, <3>3
    <3> QED BY <1>1, <3>1, <3>2, <3>3, <3>4
  <2> QED BY <1>4, <2>1, <2>2
<1>6. late' \in [Contacts -> Nat] /\ faults \in Nat /\ faults' \in {faults, faults + 1}
  BY <1>1, <1>4 DEF SequenceInv, Typed
<1>7. Typed'
  BY <1>1, <1>3, <1>5, <1>6 DEF SequenceInv, Typed
<1>8. InHand' /\ Cached'
  BY <1>1, <1>3 DEF SequenceInv, InHand, Cached, Runner!Exists
<1>9. Fresh'
  BY <1>1, <1>5 DEF SequenceInv, InHand, Fresh, Runner!Exists
<1>10. Late'
  <2>1. late[c] = 0
    BY <1>1 DEF SequenceInv, Late
  <2>2. late' = late \/ late' = [late EXCEPT ![c] = IF opted[c] THEN @ + 1 ELSE @]
    BY <1>4
  <2> QED BY <1>1, <1>3, <2>1, <2>2 DEF SequenceInv, Typed, Late
<1>11. Paid'
  <2> SUFFICES ASSUME NEW d \in Contacts, NEW j \in StepIds
               PROVE  /\ copies'[d][j] <= 1 + faults'
                      /\ Ahead(d, j)' /\ ~JustLeft(d, j)' => copies'[d][j] <= faults'
    BY DEF Paid
  <2>1. (Ahead(d, j)' <=> Ahead(d, j)) /\ ~JustLeft(d, j)
    BY <1>1, <1>3 DEF Ahead, JustLeft
  <2>2. copies[d][j] <= 1 + faults /\ (Ahead(d, j) => copies[d][j] <= faults)
    BY <2>1 DEF SequenceInv, Paid
  <2>3. copies[d][j] \in Nat
    BY DEF SequenceInv, Typed
  <2>4. CASE d # c \/ j # k \/ tick.gone
    BY <1>5, <1>6, <2>1, <2>2, <2>3, <2>4
  <2>5. CASE d = c /\ j = k /\ ~tick.gone
    <3>1. Ahead(d, j)
      BY <1>1, <2>5 DEF Ahead, SequenceInv, InHand
    <3>2. copies'[d][j] \in {copies[d][j], copies[d][j] + 1}
      BY <1>5, <2>5
    <3>3. CASE faults' = faults + 1
      BY <1>6, <2>2, <2>3, <3>1, <3>2, <3>3
    <3>4. CASE faults' = faults /\ pc = "sent"
      <4>1. JustLeft(d, j)'
        BY <1>3, <2>5, <3>4 DEF JustLeft
      <4> QED BY <1>6, <2>2, <2>3, <3>1, <3>2, <3>4, <4>1
    <3>5. CASE UNCHANGED <<copies, faults>>
      BY <2>1, <2>2, <3>1, <3>5
    <3> QED BY <1>4, <3>3, <3>4, <3>5
  <2> QED BY <2>4, <2>5
<1> QED BY <1>7, <1>8, <1>9, <1>10, <1>11 DEF SequenceInv

-----------------------------------------------------------------------------
(* The tick reads the due rows, and claims one of them.                     *)
LEMMA ReadStep == ASSUME SequenceInv, Runner!TickRead PROVE SequenceInv'
<1>1. /\ tick.pc = "idle" /\ UNCHANGED <<sequence, steps, enr, opted, req, copies, late, acts, faults>>
  BY DEF Runner!TickRead
<1>2. PICK due \in SUBSET Runner!DueRows :
        tick' = [Runner!IdleTick EXCEPT !.pc = "loop", !.due = due,
                                        !.rows = [c \in Contacts |-> IF c \in due THEN enr[c] ELSE Runner!NoRow]]
  BY DEF Runner!TickRead
<1>3. \A c \in due : c \in Contacts /\ Runner!Exists(c)
  BY DEF Runner!DueRows, Runner!Due, Runner!Exists
<1>4. /\ tick' \in TickType /\ tick'.pc = "loop" /\ tick'.contact = NoContact /\ ~tick'.gone /\ ~tick'.stepsRead
      /\ tick'.due = due /\ \A c \in due : tick'.rows[c] = enr[c]
  BY <1>2, <1>3 DEF Runner!IdleTick, SequenceInv, Typed, TickType, RowType, Table, Runner!TickPC, Runner!Unread,
         Runner!NoRow, Runner!Row, Runner!EnrollmentStatus, Runner!NextSend
<1>5. InHand'
  BY <1>1, <1>3, <1>4, SequenceAssumption DEF InHand, Runner!Exists
<1> QED BY <1>1, <1>4, <1>5 DEF SequenceInv, Typed, Cached, Fresh, Paid, Late, Ahead, JustLeft, Runner!Exists

LEMMA TickClaims == ASSUME SequenceInv, NEW c \in Contacts, Runner!ClaimEnrollment(c) PROVE SequenceInv'
<1>1. /\ tick.pc = "loop" /\ c \in tick.due /\ UNCHANGED <<sequence, steps, opted, req, copies, late, acts, faults>>
  BY DEF Runner!ClaimEnrollment
<1>2. /\ tick' \in TickType /\ tick'.pc = "load" /\ tick'.contact = c /\ tick'.due = tick.due \ {c}
      /\ tick'.gone = tick.gone /\ tick'.rows = tick.rows /\ tick'.stepsRead = tick.stepsRead /\ tick'.steps = tick.steps
  BY DEF Runner!ClaimEnrollment, SequenceInv, Typed, TickType, Runner!TickPC
<1>3. /\ enr' \in [Contacts -> RowType]
      /\ \A d \in Contacts : enr'[d].step = enr[d].step /\ enr'[d].status = enr[d].status
  BY ZenonT(40) DEF Runner!ClaimEnrollment, SequenceInv, Typed, RowType, Runner!NextSend
<1>4. InHand'
  BY <1>1, <1>2, <1>3 DEF SequenceInv, InHand, Runner!Exists
<1>5. Paid'
  <2> SUFFICES ASSUME NEW d \in Contacts, NEW j \in StepIds PROVE (Ahead(d, j)' => Ahead(d, j)) /\ ~JustLeft(d, j)
    BY <1>1 DEF SequenceInv, Paid
  <2> QED BY <1>1, <1>2, <1>3 DEF Ahead, JustLeft
<1> QED BY <1>1, <1>2, <1>3, <1>4, <1>5 DEF SequenceInv, Typed, Cached, Fresh, Late, Runner!Exists

-----------------------------------------------------------------------------
LEMMA SequenceRestarts == ASSUME SequenceInv, Restart PROVE SequenceInv'
<1>1. /\ tick' = Runner!IdleTick /\ req' = [q \in Requests |-> Runner!IdleRequest] /\ faults' = faults + 1
      /\ UNCHANGED <<sequence, steps, enr, opted, copies, late, acts>>
  BY DEF Restart, Fault, Runner!SeqRestart
<1>2. /\ tick' \in TickType /\ tick'.pc = "idle" /\ tick'.contact = NoContact /\ ~tick'.stepsRead /\ tick'.due = {}
  BY <1>1 DEF Runner!IdleTick, TickType, RowType, Table, Runner!TickPC, Runner!Unread,
              Runner!NoRow, Runner!Row, Runner!EnrollmentStatus, Runner!NextSend
<1>3. req' \in [Requests -> RequestType]
  BY <1>1 DEF Runner!IdleRequest, RequestType, Runner!RequestPC, Runner!NextSend
<1>4. Typed'
  BY <1>1, <1>2, <1>3 DEF SequenceInv, Typed
<1>5. InHand'
  BY <1>1, <1>2, SequenceAssumption DEF InHand
<1>6. Paid'
  BY <1>1 DEF SequenceInv, Typed, Paid
<1> QED BY <1>1, <1>2, <1>4, <1>5, <1>6 DEF SequenceInv, Cached, Fresh, Late, Runner!Exists

(* A step that is added or deleted: what is ahead does not grow, since the  *)
(* order of a step is given once.                                           *)
LEMMA StepsWritten ==
  ASSUME SequenceInv, UNCHANGED <<enr, opted, tick, copies, late, faults>>,
         sequence' \in Runner!SequenceStatus \cup {"deleted"}, req' \in [Requests -> RequestType], acts' \in Nat,
         steps' \in Table,
         \A k \in StepIds : \/ steps'[k] = steps[k]
                            \/ steps[k] = Runner!Unborn
                            \/ steps'[k] = Runner!Gone
  PROVE  SequenceInv'
<1>1. Typed'
  BY DEF SequenceInv, Typed
<1>2. InHand' /\ Fresh' /\ Late'
  BY DEF SequenceInv, InHand, Fresh, Late, Runner!Exists
<1>3. Cached'
  <2> SUFFICES ASSUME tick.stepsRead, NEW k \in StepIds, tick.steps[k] \in Orders
               PROVE  steps'[k] \in {tick.steps[k], Runner!Gone}
    BY DEF Cached
  <2>1. tick.steps[k] # Runner!Unborn
    BY SequenceAssumption
  <2>2. steps[k] \in {tick.steps[k], Runner!Gone}
    BY DEF SequenceInv, Cached
  <2> QED BY <2>1, <2>2
<1>4. Paid'
  <2> SUFFICES ASSUME NEW c \in Contacts, NEW k \in StepIds, Ahead(c, k)' PROVE Ahead(c, k)
    BY DEF SequenceInv, Paid, JustLeft
  <2>1. enr[c].step \in Int /\ enr[c].step >= 0
    <3>1. enr[c].step \in Orders \cup {0}
      BY DEF SequenceInv, Typed, RowType
    <3> QED BY <3>1, PositiveOrders
  <2> QED BY <2>1 DEF Ahead
<1> QED BY <1>1, <1>2, <1>3, <1>4 DEF SequenceInv

LEMMA AddStep == ASSUME SequenceInv, NEW k \in StepIds, Runner!AddStep(k) \/ Runner!DeleteStep(k) PROVE SequenceInv'
<1>1. PICK order \in Orders \cup {Runner!Gone} :
        steps' = [steps EXCEPT ![k] = order] /\ (steps[k] = Runner!Unborn \/ order = Runner!Gone)
  BY DEF Runner!AddStep, Runner!DeleteStep
<1>2. /\ steps' \in Table
      /\ \A j \in StepIds : steps'[j] = steps[j] \/ steps[j] = Runner!Unborn \/ steps'[j] = Runner!Gone
  BY <1>1 DEF SequenceInv, Typed, Table
<1>3. acts' = acts + 1 /\ UNCHANGED <<sequence, enr, opted, tick, req, copies, late, faults>>
  BY DEF Runner!AddStep, Runner!DeleteStep, Runner!Act
<1> QED BY <1>2, <1>3, StepsWritten DEF SequenceInv, Typed

LEMMA FinishStep == ASSUME SequenceInv, NEW q \in Requests, Runner!FinishDelete(q) PROVE SequenceInv'
<1>1. /\ steps' \in Table
      /\ \A j \in StepIds : steps'[j] = steps[j] \/ steps'[j] = Runner!Gone
  BY DEF Runner!FinishDelete, SequenceInv, Typed, Table
<1>2. req' \in [Requests -> RequestType]
  BY DEF Runner!FinishDelete, SequenceInv, Typed, RequestType, Runner!IdleRequest, Runner!RequestPC, Runner!NextSend
<1> QED BY <1>1, <1>2, StepsWritten DEF Runner!FinishDelete, SequenceInv, Typed

(* With the rows their mails are forgotten, and the tick keeps at most the  *)
(* row it has at hand.                                                      *)
LEMMA DeleteStep == ASSUME SequenceInv, NEW q \in Requests, Runner!BeginDelete(q) PROVE SequenceInv'
<1>1. /\ enr' = [c \in Contacts |-> Runner!NoRow] /\ copies' = [c \in Contacts |-> [k \in StepIds |-> 0]]
      /\ UNCHANGED <<sequence, steps, opted, late, faults>> /\ acts' = acts + 1
      /\ Runner!ForgetTick
      /\ req' = [p \in Requests |-> IF p = q THEN [Runner!IdleRequest EXCEPT !.pc = "delete"] ELSE Runner!Forget(req[p])]
  BY DEF Runner!BeginDelete, Runner!Act
<1>2. /\ enr' \in [Contacts -> RowType] /\ copies' \in [Contacts -> [StepIds -> Nat]]
      /\ \A c \in Contacts : enr'[c].step = 0 /\ \A k \in StepIds : copies'[c][k] = 0
  BY <1>1 DEF Runner!NoRow, Runner!Row, RowType, Runner!EnrollmentStatus, Runner!NextSend
<1>3. req' \in [Requests -> RequestType]
  BY <1>1 DEF SequenceInv, Typed, Runner!Forget, Runner!IdleRequest, RequestType, Runner!RequestPC, Runner!NextSend
<1>4. /\ tick' \in TickType /\ tick'.due = {} /\ tick'.contact = tick.contact
      /\ \/ /\ tick.contact = NoContact /\ tick'.pc = "idle" /\ ~tick'.stepsRead
         \/ /\ tick.contact # NoContact /\ tick'.gone /\ tick'.pc = tick.pc /\ tick'.step = tick.step
            /\ tick'.stepsRead = tick.stepsRead /\ tick'.steps = tick.steps
            /\ tick.contact \in Contacts /\ tick'.rows[tick.contact] = tick.rows[tick.contact]
  <2>1. CASE tick.contact = NoContact
    BY <1>1, <2>1 DEF Runner!ForgetTick, Runner!IdleTick, TickType, RowType, Table, Runner!TickPC, Runner!Unread,
                      Runner!NoRow, Runner!Row, Runner!EnrollmentStatus, Runner!NextSend
  <2>2. CASE tick.contact # NoContact
    <3>1. tick.contact \in Contacts /\ tick \in TickType
      BY <2>2 DEF SequenceInv, Typed, TickType
    <3>2. [c \in Contacts |-> IF c = tick.contact THEN tick.rows[c] ELSE Runner!NoRow] \in [Contacts -> RowType]
      BY <3>1 DEF TickType, RowType, Runner!NoRow, Runner!Row, Runner!EnrollmentStatus, Runner!NextSend
    <3> QED BY <1>1, <2>2, <3>1, <3>2 DEF Runner!ForgetTick, TickType
  <2> QED BY <2>1, <2>2
<1>5. Typed'
  BY <1>1, <1>2, <1>3, <1>4 DEF SequenceInv, Typed
<1>6. InHand'
  BY <1>4, SequenceAssumption DEF SequenceInv, InHand
<1>7. Cached'
  BY <1>1, <1>4 DEF SequenceInv, Cached
<1>8. Fresh' /\ Paid'
  BY <1>1, <1>2 DEF SequenceInv, Typed, Fresh, Paid
<1>9. Late'
  BY <1>1, <1>4 DEF SequenceInv, Late
<1> QED BY <1>5, <1>6, <1>7, <1>8, <1>9 DEF SequenceInv

-----------------------------------------------------------------------------
LEMMA RequestsStep == ASSUME SequenceInv, Runner!SeqRequests PROVE SequenceInv'
<1>1. CASE \E s \in Runner!SequenceStatus : Runner!SetSequence(s)
  BY <1>1, SequenceStep, QuietHolds
<1>2. CASE \E k \in StepIds : Runner!AddStep(k) \/ Runner!DeleteStep(k)
  BY <1>2, AddStep
<1>3. CASE \E q \in Requests : Runner!BeginDelete(q) \/ Runner!FinishDelete(q)
  BY <1>3, DeleteStep, FinishStep
<1>4. CASE \E q \in Requests : Runner!WriteRequest(q) \/ Runner!RequestFails(q)
  BY <1>4, TickWrites, FailStep, QuietHolds
<1>5. CASE \E q \in Requests, c \in Contacts :
             Runner!BeginEnroll(q, c) \/ Runner!BeginPause(q, c) \/ Runner!BeginResume(q, c) \/ Runner!BeginUnenroll(q, c)
  BY <1>5, AskStep, QuietHolds
<1> QED BY <1>1, <1>2, <1>3, <1>4, <1>5 DEF Runner!SeqRequests

LEMMA WorkStep == ASSUME SequenceInv, Runner!TickWorks PROVE SequenceInv'
  BY TickClaims, SkipStep, LoadStep, StepsStep, ContactStep, SendingStep, SentStep, RefusedStep, EndStep, DeferStep
     DEF Runner!TickWorks

LEMMA SequenceNext == ASSUME SequenceInv, [Next]_vars PROVE SequenceInv'
<1>1. CASE UNCHANGED <<seqOnly, opted, acts, faults>>
  BY <1>1, QuietHolds DEF Quiet, seqOnly, SequenceInv, Typed
<1>2. CASE NothingDue
  <2>1. faults' \in {faults, faults + 1} /\ UNCHANGED <<seqOnly, opted, acts>>
    BY <1>2 DEF NothingDue, Fault
  <2> QED BY <2>1, QuietHolds DEF Quiet, seqOnly, SequenceInv, Typed
<1>3. CASE CampaignActs /\ UNCHANGED seqOnly
  BY <1>3, CampaignStep, QuietHolds
<1>4. CASE Runner!SeqRequests \/ Runner!TickWorks \/ Runner!TickCatches \/ Runner!TickRead
  BY <1>4, RequestsStep, WorkStep, CatchStep, ReadStep
<1>5. CASE \E c \in Contacts : Runner!Elapse(c)
  BY <1>5, ElapseStep, QuietHolds
<1>6. CASE Restart
  BY <1>6, SequenceRestarts
<1> QED
  BY <1>1, <1>2, <1>3, <1>4, <1>5, <1>6
     DEF Next, TickAdvances, TickStarts, SequencesWork, SequencesCatch, CampaignDue, TickDone, SenderWorks, SenderBreaks,
         People, RowElapses, CampaignAges, CampaignActs, vars

LEMMA SequenceInductive == Spec => []SequenceInv
<1>1. Init => SequenceInv
  BY SequenceInit
<1>2. SequenceInv /\ [Next]_vars => SequenceInv'
  BY SequenceNext
<1> QED BY <1>1, <1>2, PTL DEF Spec

(* The rows, the tick and the requests of a sequence keep their types: the  *)
(* tick never writes the order of a step that was deleted under it.         *)
THEOREM SequenceTyped == Spec => []Runner!SeqTypeOK
<1>1. SequenceInv => Runner!SeqTypeOK
  BY DEF SequenceInv, Typed, TickType, RowType, Table, RequestType, Runner!SeqTypeOK
<1> QED BY <1>1, SequenceInductive, PTL

(* A contact gets a second copy of a step only after a crash, an error or a *)
(* lost answer, whatever is edited, paused, resumed or deleted meanwhile.   *)
THEOREM CopiesExplained == Spec => []CopiesArePaidFor
<1>1. SequenceInv => CopiesArePaidFor
  BY DEF SequenceInv, Paid, CopiesArePaidFor, Runner!CopiesArePaidFor
<1> QED BY <1>1, SequenceInductive, PTL

(* After an opt-out at most the mail leaves whose contact had been read.    *)
THEOREM OneAfterOptOut == Spec => []OneLateStep
<1>1. SequenceInv => OneLateStep
  BY DEF SequenceInv, Late, OneLateStep, Runner!OneLateStep
<1> QED BY <1>1, SequenceInductive, PTL

-----------------------------------------------------------------------------
(* The runs of sendCampaign.  A run has a live worker for each row in hand: *)
(* that is why the failure of a worker never counts below zero.             *)

RunType == [pc : Camp!RunPC, by : Camp!Callers, todo : SUBSET Recipients,
            seen : [Contacts -> BOOLEAN], workers : Nat, failed : BOOLEAN]
ClerkType == [pc : Camp!ClerkPC, rows : SUBSET Recipients]
CampaignType ==
  /\ campaign \in Camp!CampaignStatus \cup {"none"}
  /\ dated \in BOOLEAN
  /\ stale \in BOOLEAN
  /\ forced \in BOOLEAN
  /\ clerk \in [Clerks -> ClerkType]
InWork(jobs) == {r \in Recipients : jobs[r] # "none"}
Staffed(d, jobs) ==
  IF d.pc \in {"work", "catch", "detached"} THEN Cardinality(InWork(jobs)) <= d.workers ELSE InWork(jobs) = {}
RunsStaffed == run \in [Senders -> RunType] /\ \A s \in Senders : Staffed(run[s], job[s])
SenderInv == phase \in Phase /\ CampaignType /\ RunsStaffed

(* The sender counts with the operator of its own instance of FiniteSets.   *)
LEMMA SameCount == ASSUME NEW S PROVE Camp!Cardinality(S) = Cardinality(S)
  BY DEF Camp!Cardinality, Cardinality

LEMMA InWorkFinite ==
  ASSUME NEW jobs
  PROVE  IsFiniteSet(InWork(jobs)) /\ Cardinality(InWork(jobs)) \in Nat
<1>1. InWork(jobs) \in SUBSET Recipients /\ IsFiniteSet(Recipients)
  BY CampaignAssumption DEF InWork
<1> QED BY <1>1, FS_Subset, FS_CardinalityType

LEMMA NobodyAtWork == ASSUME NEW jobs, InWork(jobs) = {} PROVE Cardinality(InWork(jobs)) = 0
  BY FS_EmptySet

(* A step of one run that leaves its workers with what they have in hand.   *)
Moves(s) == \E d \in RunType : run' = [run EXCEPT ![s] = d] /\ job' = job /\ Staffed(d, job[s])

LEMMA RunMoves == ASSUME RunsStaffed, NEW s \in Senders, Moves(s) PROVE RunsStaffed'
  BY DEF RunsStaffed, Moves

LEMMA RunStarts ==
  ASSUME RunsStaffed, NEW s \in Senders, Camp!BeginSend(s) \/ Camp!BeginDue(s)
  PROVE  Moves(s)
<1>1. run[s] = Camp!IdleRun /\ InWork(job[s]) = {}
  BY DEF Camp!BeginSend, Camp!BeginDue, Camp!FirstFree, RunsStaffed, Staffed, Camp!IdleRun
<1>2. PICK by \in {"person", "tick"} :
        run' = [run EXCEPT ![s] = [Camp!IdleRun EXCEPT !.pc = "claim", !.by = by]] /\ job' = job
  BY DEF Camp!BeginSend, Camp!BeginDue
<1> DEFINE d == [Camp!IdleRun EXCEPT !.pc = "claim", !.by = by]
<1>3. d \in RunType /\ d.pc = "claim"
  BY DEF RunType, Camp!IdleRun, Camp!RunPC, Camp!Callers, Camp!NoneOptedOut
<1> QED BY <1>1, <1>2, <1>3 DEF Moves, Staffed

LEMMA RunGoesOn ==
  ASSUME RunsStaffed, opted \in [Contacts -> BOOLEAN], NEW s \in Senders,
         \/ Camp!ClaimCampaign(s) \/ Camp!ResetFailed(s) \/ Camp!ListPending(s) \/ Camp!ReadContacts(s)
         \/ Camp!Catch(s) \/ Camp!DetachedEnds(s) \/ Camp!Tally(s) \/ Camp!Finish(s)
         \/ Camp!PreparationFails(s) \/ Camp!RunFails(s)
  PROVE  Moves(s)
<1> DEFINE n == Cardinality(InWork(job[s]))
<1>1. /\ run[s] \in RunType /\ Staffed(run[s], job[s]) /\ n \in Nat
      /\ Camp!Busy(s) = InWork(job[s])
      /\ InWork(job[s]) = {} => n = 0
      /\ job' = job
  BY InWorkFinite, NobodyAtWork
     DEF RunsStaffed, Camp!Busy, InWork, Camp!ClaimCampaign, Camp!ResetFailed, Camp!ListPending, Camp!ReadContacts,
         Camp!Catch, Camp!DetachedEnds, Camp!Tally, Camp!Finish, Camp!PreparationFails, Camp!RunFails
<1>2. Camp!IdleRun \in RunType /\ Camp!IdleRun.pc = "idle"
  BY DEF RunType, Camp!IdleRun, Camp!RunPC, Camp!Callers, Camp!NoneOptedOut
<1> HIDE DEF n
<1>3. ASSUME InWork(job[s]) = {}, Camp!Ends(s)
      PROVE  Moves(s)
  BY <1>1, <1>2, <1>3 DEF Moves, Staffed, Camp!Ends
<1>4. ASSUME NEW d \in RunType, run' = [run EXCEPT ![s] = d], Staffed(d, job[s])
      PROVE  Moves(s)
  BY <1>1, <1>4 DEF Moves
<1>5. ASSUME NEW pc \in Camp!RunPC, Camp!At(s, pc), Staffed([run[s] EXCEPT !.pc = pc], job[s])
      PROVE  Moves(s)
  <2>1. [run[s] EXCEPT !.pc = pc] \in RunType
    BY <1>1 DEF RunType
  <2>2. run' = [run EXCEPT ![s] = [run[s] EXCEPT !.pc = pc]]
    BY <1>5 DEF Camp!At
  <2> QED BY <1>4, <1>5, <2>1, <2>2
<1>6. CASE Camp!ClaimCampaign(s) \/ Camp!ResetFailed(s)
  <2>1. InWork(job[s]) = {}
    BY <1>1, <1>6 DEF Staffed, Camp!ClaimCampaign, Camp!ResetFailed
  <2>2. \A pc \in {"reset", "list"} : pc \in Camp!RunPC /\ Staffed([run[s] EXCEPT !.pc = pc], job[s])
    BY <1>1, <2>1 DEF Staffed, Camp!RunPC, RunType
  <2> QED BY <1>3, <1>5, <1>6, <2>1, <2>2 DEF Camp!ClaimCampaign, Camp!ResetFailed
<1>7. CASE Camp!ListPending(s)
  <2> DEFINE d == [run[s] EXCEPT !.pc = "contacts", !.todo = {r \in Recipients : rcp[r] = "pending"}]
  <2>1. run' = [run EXCEPT ![s] = d] /\ run[s].pc = "list"
    BY <1>1, <1>7 DEF Camp!ListPending, RunsStaffed
  <2>2. d \in RunType /\ d.pc = "contacts"
    BY <1>1 DEF RunType, Camp!RunPC
  <2>3. Staffed(d, job[s])
    BY <1>1, <2>1, <2>2 DEF Staffed
  <2> QED BY <1>4, <2>1, <2>2, <2>3
<1>8. CASE Camp!ReadContacts(s)
  <2> DEFINE pending == Cardinality(run[s].todo)
             w == IF pending < Concurrency THEN pending ELSE Concurrency
             d == [run[s] EXCEPT !.pc = "work", !.seen = opted, !.workers = w]
  <2>0. run[s].pc = "contacts" /\ run' = [run EXCEPT ![s].pc = "work", ![s].seen = opted, ![s].workers = w]
    BY <1>8, SameCount DEF Camp!ReadContacts
  <2>2. w \in Nat
    <3>1. run[s].todo \in SUBSET Recipients /\ IsFiniteSet(Recipients)
      BY <1>1, CampaignAssumption DEF RunType
    <3>2. pending \in Nat
      BY <3>1, FS_Subset, FS_CardinalityType
    <3> QED BY <3>2, CampaignAssumption
  <2> HIDE DEF w
  <2>1. run' = [run EXCEPT ![s] = d] /\ run[s].pc = "contacts"
    BY <2>0 DEF RunsStaffed
  <2>3. d \in RunType /\ d.workers = w /\ d.pc = "work"
    BY <1>1, <2>2 DEF RunType, Camp!RunPC
  <2>4. n <= w
    BY <1>1, <2>1, <2>2 DEF Staffed
  <2>5. Staffed(d, job[s])
    BY <2>3, <2>4 DEF Staffed, n
  <2> QED BY <1>4, <2>1, <2>3, <2>5
<1>9. CASE Camp!Catch(s) \/ (run[s].pc = "catch" /\ Camp!At(s, "detached"))
  <2>1. Camp!At(s, "detached") /\ run[s].pc = "catch"
    BY <1>9 DEF Camp!Catch
  <2>2. "detached" \in Camp!RunPC /\ Staffed([run[s] EXCEPT !.pc = "detached"], job[s])
    BY <1>1, <2>1 DEF Staffed, Camp!RunPC, RunType
  <2> QED BY <1>5, <2>1, <2>2
<1>10. CASE \/ Camp!DetachedEnds(s) \/ Camp!Finish(s)
            \/ Camp!Ends(s) /\ (run[s].pc \in {"claim", "finish"} \/ Camp!Drained(s))
  <2>1. Camp!Ends(s) /\ InWork(job[s]) = {}
    BY <1>1, <1>10 DEF Staffed, Camp!DetachedEnds, Camp!Finish, Camp!Drained
  <2> QED BY <1>3, <2>1
<1>11. CASE Camp!Tally(s)
  <2> DEFINE b == \E r \in Recipients : rcp[r] = "failed"
             d == [run[s] EXCEPT !.pc = "finish", !.failed = b]
  <2>1. run' = [run EXCEPT ![s] = d] /\ InWork(job[s]) = {}
    BY <1>1, <1>11 DEF Camp!Tally, Camp!Drained, RunsStaffed
  <2>2. b \in BOOLEAN
    OBVIOUS
  <2> HIDE DEF b
  <2>3. d \in RunType /\ d.pc = "finish"
    BY <1>1, <2>2 DEF RunType, Camp!RunPC
  <2>4. Staffed(d, job[s])
    BY <2>1, <2>3 DEF Staffed
  <2> QED BY <1>4, <2>1, <2>3, <2>4
<1>12. CASE Camp!PreparationFails(s)
  <2> DEFINE d == [run[s] EXCEPT !.pc = "catch", !.todo = {}]
  <2>1. run' = [run EXCEPT ![s] = d] /\ run[s].pc \in {"reset", "list", "contacts"}
    BY <1>1, <1>12 DEF Camp!PreparationFails, RunsStaffed
  <2>2. d \in RunType /\ d.pc = "catch" /\ d.workers \in Nat
    BY <1>1 DEF RunType, Camp!RunPC
  <2>3. n = 0
    BY <1>1, <2>1 DEF Staffed
  <2>4. Staffed(d, job[s])
    BY <2>2, <2>3 DEF Staffed, n
  <2> QED BY <1>4, <2>1, <2>2, <2>4
<1>13. Camp!RunFails(s) =>
         \/ Camp!Ends(s) /\ (run[s].pc \in {"claim", "finish"} \/ Camp!Drained(s))
         \/ run[s].pc = "catch" /\ Camp!At(s, "detached")
  BY DEF Camp!RunFails
<1> QED BY <1>6, <1>7, <1>8, <1>9, <1>10, <1>11, <1>12, <1>13

(* A worker takes a row in hand, ends with one, or fails.                   *)
LEMMA JobTaken ==
  ASSUME NEW jobs, NEW more, NEW r \in Recipients, \A u \in Recipients : u # r => more[u] = jobs[u]
  PROVE  Cardinality(InWork(more)) <= Cardinality(InWork(jobs)) + 1
<1> DEFINE J == InWork(jobs)
           K == J \cup {r}
<1>1. InWork(more) \in SUBSET K
  BY DEF InWork
<1>2. IsFiniteSet(J) /\ Cardinality(J) \in Nat
  BY InWorkFinite
<1>3. K = J \/ (r \notin J /\ K = J \cup {r})
  OBVIOUS
<1> HIDE DEF J, K
<1>4. r \notin J => IsFiniteSet(J \cup {r}) /\ Cardinality(J \cup {r}) = Cardinality(J) + 1
  BY <1>2, FS_AddElement
<1>5. IsFiniteSet(K) /\ Cardinality(K) <= Cardinality(J) + 1 /\ Cardinality(K) \in Nat
  BY <1>2, <1>3, <1>4
<1>6. Cardinality(InWork(more)) <= Cardinality(K) /\ Cardinality(InWork(more)) \in Nat
  BY <1>1, <1>5, FS_Subset, InWorkFinite
<1> QED BY <1>2, <1>5, <1>6 DEF J

LEMMA JobEnded ==
  ASSUME NEW jobs, NEW less, NEW r \in Recipients, less[r] = "none", \A u \in Recipients : u # r => less[u] = jobs[u]
  PROVE  /\ InWork(less) \subseteq InWork(jobs)
         /\ Cardinality(InWork(less)) <= Cardinality(InWork(jobs))
         /\ jobs[r] # "none" => Cardinality(InWork(less)) = Cardinality(InWork(jobs)) - 1
<1>1. InWork(less) = InWork(jobs) \ {r}
  BY DEF InWork
<1>2. jobs[r] # "none" <=> r \in InWork(jobs)
  BY DEF InWork
<1>3. Cardinality(InWork(less)) <= Cardinality(InWork(jobs))
  BY <1>1, InWorkFinite, FS_Subset
<1>4. r \in InWork(jobs) => Cardinality(InWork(jobs) \ {r}) = Cardinality(InWork(jobs)) - 1
  BY InWorkFinite, FS_RemoveElement
<1> QED BY <1>1, <1>2, <1>3, <1>4

LEMMA WorkerStep ==
  ASSUME MailingInv, RunsStaffed, NEW s \in Senders, NEW r \in Recipients,
         Camp!ClaimRecipient(s, r) \/ Camp!Mail(s, r) \/ Camp!WriteRecipient(s, r) \/ Camp!WorkerFails(s, r)
  PROVE  RunsStaffed'
<1> DEFINE n == Cardinality(InWork(job[s]))
           m == Cardinality(InWork(job'[s]))
<1>1. /\ run \in [Senders -> RunType] /\ run[s] \in RunType /\ Staffed(run[s], job[s])
      /\ n \in Nat /\ m \in Nat /\ run[s].workers \in Nat /\ MailingType
      /\ Camp!Busy(s) = InWork(job[s])
  <2>1. run \in [Senders -> RunType] /\ run[s] \in RunType /\ Staffed(run[s], job[s])
    BY DEF RunsStaffed
  <2>2. n \in Nat /\ m \in Nat
    BY InWorkFinite
  <2>3. run[s].workers \in Nat
    BY <2>1 DEF RunType
  <2>4. Camp!Busy(s) = InWork(job[s])
    BY DEF Camp!Busy, InWork
  <2> QED BY <2>1, <2>2, <2>3, <2>4 DEF MailingInv
<1>2. ASSUME run' \in [Senders -> RunType], Staffed(run'[s], job'[s]),
             \A t \in Senders : t # s => run'[t] = run[t] /\ InWork(job'[t]) = InWork(job[t])
      PROVE  RunsStaffed'
  BY <1>2 DEF RunsStaffed, Staffed
<1>3. ASSUME NEW pc \in Camp!JobPC, job' = [job EXCEPT ![s][r] = pc]
      PROVE  /\ job'[s][r] = pc
             /\ \A u \in Recipients : u # r => job'[s][u] = job[s][u]
             /\ \A t \in Senders : t # s => InWork(job'[t]) = InWork(job[t])
  <2>1. /\ job'[s][r] = pc
        /\ \A t \in Senders, u \in Recipients : t # s \/ u # r => job'[t][u] = job[t][u]
    <3>1. job' = [job EXCEPT ![s][r] = pc]
      BY <1>3
    <3>2. job \in [Senders -> [Recipients -> Camp!JobPC]]
      BY <1>1 DEF MailingType
    <3> QED BY <3>1, <3>2
  <2> QED BY <2>1 DEF InWork
<1> HIDE DEF n, m
<1>4. CASE Camp!ClaimRecipient(s, r)
  <2> DEFINE d == [run[s] EXCEPT !.todo = @ \ {r}]
  <2>1. /\ run' = [run EXCEPT ![s] = d]
        /\ run[s].pc \in {"work", "catch", "detached"} /\ n < run[s].workers
    BY <1>1, <1>4, SameCount DEF Camp!ClaimRecipient, Camp!TakesNext, Camp!HasWorker, n
  <2>2. d \in RunType /\ d.pc = run[s].pc /\ d.workers = run[s].workers
    BY <1>1 DEF RunType
  <2> HIDE DEF d
  <2>3. run' \in [Senders -> RunType] /\ run'[s] = d /\ \A t \in Senders : t # s => run'[t] = run[t]
    BY <1>1, <2>1, <2>2
  <2>4. job' = job \/ \E pc \in {"send", "skip"} : job' = [job EXCEPT ![s][r] = pc]
    BY <1>4 DEF Camp!ClaimRecipient, Camp!NextJob
  <2>5. /\ \A u \in Recipients : u # r => job'[s][u] = job[s][u]
        /\ \A t \in Senders : t # s => InWork(job'[t]) = InWork(job[t])
    BY <1>3, <2>4 DEF Camp!JobPC
  <2>6. m <= n + 1
    BY <2>5, JobTaken DEF m, n
  <2>7. m <= d.workers
    BY <1>1, <2>1, <2>2, <2>6
  <2>8. Staffed(d, job'[s])
    BY <2>1, <2>2, <2>7 DEF Staffed, m
  <2> QED BY <1>2, <2>3, <2>5, <2>8
<1>5. CASE Camp!Mail(s, r)
  <2>1. run' = run /\ job[s][r] = "send" /\ \E pc \in {"sent", "refused"} : job' = [job EXCEPT ![s][r] = pc]
    BY <1>5 DEF Camp!Mail
  <2>2. PICK pc \in {"sent", "refused"} : job' = [job EXCEPT ![s][r] = pc]
    BY <2>1
  <2>3. /\ job'[s][r] = pc
        /\ \A u \in Recipients : u # r => job'[s][u] = job[s][u]
        /\ \A t \in Senders : t # s => InWork(job'[t]) = InWork(job[t])
    BY <1>3, <2>2 DEF Camp!JobPC
  <2>4. InWork(job'[s]) = InWork(job[s])
    BY <2>1, <2>3 DEF InWork
  <2> QED BY <1>1, <1>2, <2>1, <2>3, <2>4 DEF Staffed
<1>6. ASSUME job' = [job EXCEPT ![s][r] = "none"]
      PROVE  /\ InWork(job'[s]) \subseteq InWork(job[s])
             /\ m <= n
             /\ job[s][r] # "none" => m = n - 1
             /\ \A t \in Senders : t # s => InWork(job'[t]) = InWork(job[t])
  <2>1. /\ job'[s][r] = "none"
        /\ \A u \in Recipients : u # r => job'[s][u] = job[s][u]
        /\ \A t \in Senders : t # s => InWork(job'[t]) = InWork(job[t])
    BY <1>3, <1>6 DEF Camp!JobPC
  <2> QED BY <2>1, JobEnded DEF n, m
<1>7. CASE Camp!WriteRecipient(s, r)
  <2>1. run' = run /\ job' = [job EXCEPT ![s][r] = "none"]
    BY <1>7 DEF Camp!WriteRecipient
  <2>2. m <= n /\ InWork(job'[s]) \subseteq InWork(job[s])
    BY <1>6, <2>1
  <2>3. Staffed(run[s], job'[s])
    <3>1. CASE run[s].pc \in {"work", "catch", "detached"}
      <4>1. n <= run[s].workers
        BY <1>1, <3>1 DEF Staffed, n
      <4>2. m <= run[s].workers
        BY <1>1, <2>2, <4>1
      <4> QED BY <3>1, <4>2 DEF Staffed, m
    <3>2. CASE run[s].pc \notin {"work", "catch", "detached"}
      BY <1>1, <2>2, <3>2 DEF Staffed
    <3> QED BY <3>1, <3>2
  <2> QED BY <1>1, <1>2, <1>6, <2>1, <2>3
<1>8. CASE Camp!WorkerFails(s, r)
  <2> DEFINE p == IF run[s].pc = "work" THEN "catch" ELSE run[s].pc
             w == run[s].workers - 1
             d == [run[s] EXCEPT !.pc = p, !.workers = w, !.todo = @ \ {r}]
  <2>1. /\ run' = [run EXCEPT ![s] = d] /\ job' = [job EXCEPT ![s][r] = "none"]
        /\ Camp!TakesNext(s, r) \/ job[s][r] # "none"
    BY <1>1, <1>8 DEF Camp!WorkerFails
  <2>2. m <= n /\ (job[s][r] # "none" => m = n - 1)
    BY <1>6, <2>1
  <2>3. run[s].pc \in {"work", "catch", "detached"}
    <3>1. Camp!TakesNext(s, r) => run[s].pc \in {"work", "catch", "detached"}
      BY DEF Camp!TakesNext, Camp!HasWorker
    <3>2. job[s][r] # "none" => run[s].pc \in {"work", "catch", "detached"}
      BY <1>1 DEF Staffed, InWork
    <3> QED BY <2>1, <3>1, <3>2
  <2>4. w \in Nat /\ m <= w
    <3>1. n <= run[s].workers
      BY <1>1, <2>3 DEF Staffed, n
    <3>2. Camp!TakesNext(s, r) => n < run[s].workers
      BY <1>1, SameCount DEF Camp!TakesNext, Camp!HasWorker, n
    <3> QED BY <1>1, <2>1, <2>2, <3>1, <3>2
  <2>5. p \in {"catch", "detached"}
    BY <2>3
  <2> HIDE DEF p, w
  <2>6. d \in RunType /\ d.pc = p /\ d.workers = w
    BY <1>1, <2>4, <2>5 DEF RunType, Camp!RunPC
  <2> HIDE DEF d
  <2>7. run' \in [Senders -> RunType] /\ run'[s] = d /\ \A t \in Senders : t # s => run'[t] = run[t]
    BY <1>1, <2>1, <2>6
  <2>8. Staffed(d, job'[s])
    BY <2>4, <2>5, <2>6 DEF Staffed, m
  <2> QED BY <1>2, <1>6, <2>1, <2>7, <2>8
<1> QED BY <1>4, <1>5, <1>7, <1>8

(* What else is written: the campaign, its dates, and the people's requests.*)
senderOnly == <<run, job>>

LEMMA CampaignWritten ==
  ASSUME CampaignType, NEW s \in Senders, Camp!RunWorks(s) \/ Camp!RunBreaks(s) \/ Camp!BeginSend(s) \/ Camp!BeginDue(s)
  PROVE  CampaignType'
<1> USE DEF CampaignType, Camp!SetCampaign, Camp!CampaignStatus
<1>1. CASE \/ Camp!ClaimCampaign(s) \/ Camp!ResetFailed(s) \/ Camp!ListPending(s) \/ Camp!ReadContacts(s)
           \/ Camp!Catch(s) \/ Camp!DetachedEnds(s) \/ Camp!Tally(s) \/ Camp!Finish(s)
  BY <1>1 DEF Camp!ClaimCampaign, Camp!ResetFailed, Camp!ListPending, Camp!ReadContacts, Camp!Catch, Camp!DetachedEnds,
              Camp!Tally, Camp!Finish
<1>2. CASE \E r \in Recipients : Camp!ClaimRecipient(s, r) \/ Camp!Mail(s, r) \/ Camp!WriteRecipient(s, r) \/ Camp!WorkerFails(s, r)
  BY <1>2 DEF Camp!ClaimRecipient, Camp!Mail, Camp!WriteRecipient, Camp!WorkerFails
<1>3. CASE Camp!PreparationFails(s) \/ Camp!RunFails(s) \/ Camp!BeginSend(s) \/ Camp!BeginDue(s)
  BY <1>3 DEF Camp!PreparationFails, Camp!RunFails, Camp!BeginSend, Camp!BeginDue
<1> QED BY <1>1, <1>2, <1>3, Zenon DEF Camp!RunWorks, Camp!RunBreaks

LEMMA PeopleWrite ==
  ASSUME CampaignType, MailingType,
         Camp!CampRequests \/ Camp!HalfAnHour \/ \E c \in Contacts : Camp!CampOptOut(c)
  PROVE  CampaignType' /\ UNCHANGED senderOnly
<1> USE DEF CampaignType, senderOnly, Camp!SetCampaign, Camp!CampaignStatus
<1>1. CASE Camp!UpdateCampaign
  BY <1>1 DEF Camp!UpdateCampaign, Camp!Updatable
<1>2. CASE Camp!HalfAnHour \/ \E c \in Contacts : Camp!CampOptOut(c)
  BY <1>2 DEF Camp!HalfAnHour, Camp!CampOptOut
<1>3. ASSUME NEW q \in Clerks, NEW pc \in Camp!ClerkPC, NEW rows \in SUBSET Recipients, Camp!ClerkReads(q, pc, rows)
      PROVE  CampaignType' /\ UNCHANGED senderOnly
  <2>1. [pc |-> pc, rows |-> rows] \in ClerkType
    BY DEF ClerkType
  <2> QED BY <1>3, <2>1 DEF Camp!ClerkReads
<1>4. ASSUME NEW q \in Clerks, \/ Camp!BeginSchedule(q) \/ Camp!BeginUnschedule(q) \/ Camp!BeginAdd(q)
                               \/ \E r \in Recipients : Camp!BeginRemove(q, r)
      PROVE  CampaignType' /\ UNCHANGED senderOnly
  <2>1. \E pc \in Camp!ClerkPC : \E rows \in SUBSET Recipients : Camp!ClerkReads(q, pc, rows)
    BY <1>4 DEF Camp!BeginSchedule, Camp!BeginUnschedule, Camp!BeginAdd, Camp!BeginRemove, Camp!ClerkPC
  <2> QED BY <1>3, <2>1
<1>5. Camp!IdleClerk \in ClerkType
  BY DEF ClerkType, Camp!IdleClerk, Camp!ClerkPC
<1>6. ASSUME NEW q \in Clerks, Camp!WriteClerk(q) \/ Camp!ClerkFails(q)
      PROVE  CampaignType' /\ UNCHANGED senderOnly
  <2>1. clerk' = [clerk EXCEPT ![q] = Camp!IdleClerk] /\ forced' = forced /\ UNCHANGED senderOnly
    BY <1>6 DEF Camp!WriteClerk, Camp!ClerkFails
  <2>2. campaign' \in {campaign, "scheduled", "draft"} /\ dated' \in {dated, TRUE, FALSE} /\ stale' \in BOOLEAN
    BY <1>6 DEF Camp!WriteClerk, Camp!ClerkFails
  <2> QED BY <1>5, <2>1, <2>2
<1> QED BY <1>1, <1>2, <1>4, <1>6, Zenon DEF Camp!CampRequests

LEMMA SenderRestarts == ASSUME SenderInv, Restart PROVE SenderInv'
<1>1. /\ phase' = "idle" /\ UNCHANGED <<campaign, dated, stale, forced>>
      /\ run' = [s \in Senders |-> Camp!IdleRun] /\ job' = [s \in Senders |-> Camp!NoJobs]
      /\ clerk' = [q \in Clerks |-> Camp!IdleClerk]
  BY DEF Restart, Camp!CampRestart
<1>2. Camp!IdleRun \in RunType /\ Camp!IdleRun.pc = "idle" /\ InWork(Camp!NoJobs) = {} /\ Camp!IdleClerk \in ClerkType
  BY DEF RunType, ClerkType, InWork, Camp!IdleRun, Camp!RunPC, Camp!Callers, Camp!NoneOptedOut, Camp!NoJobs,
         Camp!IdleClerk, Camp!ClerkPC
<1>3. RunsStaffed'
  BY <1>1, <1>2 DEF RunsStaffed, Staffed
<1> QED BY <1>1, <1>2, <1>3 DEF SenderInv, CampaignType, Phase

LEMMA SenderInit == ASSUME Init PROVE SenderInv
<1>1. /\ phase = "idle" /\ campaign \in {"none", "draft", "scheduled"} /\ dated \in BOOLEAN /\ ~stale /\ ~forced
      /\ stale \in BOOLEAN /\ forced \in BOOLEAN
      /\ run = [s \in Senders |-> Camp!IdleRun] /\ job = [s \in Senders |-> Camp!NoJobs]
      /\ clerk = [q \in Clerks |-> Camp!IdleClerk]
  BY DEF Init, Camp!CampInit
<1>2. Camp!IdleRun \in RunType /\ Camp!IdleRun.pc = "idle" /\ InWork(Camp!NoJobs) = {} /\ Camp!IdleClerk \in ClerkType
  BY DEF RunType, ClerkType, InWork, Camp!IdleRun, Camp!RunPC, Camp!Callers, Camp!NoneOptedOut, Camp!NoJobs,
         Camp!IdleClerk, Camp!ClerkPC
<1>3. RunsStaffed
  BY <1>1, <1>2 DEF RunsStaffed, Staffed
<1> QED BY <1>1, <1>2, <1>3 DEF SenderInv, CampaignType, Phase, Camp!CampaignStatus

LEMMA SenderNext == ASSUME MailingInv, SequenceInv, SenderInv, [Next]_vars PROVE SenderInv'
<1>1. CampaignType /\ RunsStaffed /\ MailingType /\ opted \in [Contacts -> BOOLEAN]
  BY DEF SenderInv, MailingInv, SequenceInv, Typed
<1>2. phase' \in Phase
  BY DEF SenderInv, Phase, Next, TickAdvances, TickStarts, SequencesWork, SequencesCatch, CampaignDue, NothingDue, TickDone,
         SenderWorks, SenderBreaks, People, RowElapses, CampaignAges, Restart, vars
<1>3. ASSUME CampaignType', RunsStaffed'
      PROVE  SenderInv'
  BY <1>2, <1>3 DEF SenderInv
<1>4. ASSUME CampaignType', UNCHANGED senderOnly
      PROVE  SenderInv'
  BY <1>1, <1>3, <1>4 DEF senderOnly, RunsStaffed
<1>5. CASE UNCHANGED campOnly
  BY <1>1, <1>4, <1>5 DEF campOnly, senderOnly, CampaignType
<1>6. ASSUME NEW s \in Senders, Camp!RunWorks(s) \/ Camp!RunBreaks(s) \/ Camp!BeginSend(s) \/ Camp!BeginDue(s)
      PROVE  SenderInv'
  <2>1. \/ \E r \in Recipients : Camp!ClaimRecipient(s, r) \/ Camp!Mail(s, r) \/ Camp!WriteRecipient(s, r) \/ Camp!WorkerFails(s, r)
        \/ Moves(s)
    BY <1>1, <1>6, RunStarts, RunGoesOn, Zenon DEF Camp!RunWorks, Camp!RunBreaks
  <2>2. RunsStaffed'
    BY <1>1, <2>1, RunMoves, WorkerStep
  <2> QED BY <1>1, <1>3, <1>6, <2>2, CampaignWritten
<1>7. CASE Camp!CampRequests \/ Camp!HalfAnHour \/ \E c \in Contacts : Camp!CampOptOut(c)
  BY <1>1, <1>4, <1>7, PeopleWrite
<1>8. CASE Restart
  BY <1>8, SenderRestarts
<1> QED
  BY <1>5, <1>6, <1>7, <1>8, Zenon
     DEF Next, TickAdvances, TickStarts, SequencesWork, SequencesCatch, CampaignDue, NothingDue, TickDone,
         SenderWorks, SenderBreaks, People, RowElapses, CampaignAges, vars

(* Sequences, campaigns and the tick that runs both keep their types, for   *)
(* any number of runs of sendCampaign at once: in particular the workers of *)
(* a run are never fewer than the recipients they have in hand, whichever   *)
(* of them fail, before and after the run itself has ended in its catch.    *)
THEOREM OutreachTyped == Spec => []TypeOK
<1>1. Init => MailingInv /\ SenderInv
  BY MailingInit, SenderInit
<1>2. MailingInv /\ SequenceInv /\ SenderInv /\ [Next]_vars => (MailingInv /\ SenderInv)'
  BY MailingNext, SenderNext
<1>3. MailingInv /\ SequenceInv /\ SenderInv => TypeOK
  BY DEF TypeOK, MailingInv, MailingType, SequenceInv, SenderInv, CampaignType, RunsStaffed, RunType, ClerkType,
         Typed, TickType, RowType, Table, RequestType, Runner!SeqTypeOK, Camp!CampTypeOK
<1> QED BY <1>1, <1>2, <1>3, SequenceInductive, PTL DEF Spec
=============================================================================
