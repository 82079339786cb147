------------------------------- MODULE Outreach -------------------------------
(***************************************************************************)
(* The outreach tick of sequenceRunner.ts: the due sequence steps, then the*)
(* due campaigns, never two ticks at once.  It composes the two components *)
(* over the contacts they both mail, next to everything people do to them. *)
(***************************************************************************)
EXTENDS Integers, FiniteSets

CONSTANTS
  Contacts, StepIds, Orders, SameDay, Requests, NoContact, NoStep, MaxAttempts, TickLimit,
  Recipients, ContactOf, Senders, Clerks, Concurrency,
  MaxEvents, MaxFaults

ASSUME SequenceAssumption ==
  /\ Orders \subseteq Nat \ {0}
  /\ SameDay \subseteq StepIds
  /\ NoContact \notin Contacts
  /\ NoStep \notin StepIds
  /\ MaxAttempts \in Nat \ {0}
  /\ TickLimit \in Nat \ {0}

ASSUME CampaignAssumption ==
  /\ Recipients \subseteq Nat
  /\ IsFiniteSet(Recipients)
  /\ Senders \subseteq Nat
  /\ ContactOf \in [Recipients -> Contacts]
  /\ Concurrency \in Nat \ {0}

ASSUME BoundsAssumption ==
  /\ MaxEvents \in Nat
  /\ MaxFaults \in Nat

VARIABLES
  phase,                                                  \* what the tick in progress is at
  sequence, steps, enr, tick, req, copies, late,          \* SequenceRunner
  campaign, dated, stale, rcp, run, job, clerk, mailed, lost, forced,  \* CampaignSender
  opted, acts, faults                                     \* both

Runner == INSTANCE SequenceRunner
Camp == INSTANCE CampaignSender

seqOnly == <<sequence, steps, enr, tick, req, copies, late>>
campOnly == <<campaign, dated, stale, rcp, run, job, clerk, mailed, lost, forced>>
vars == <<phase, seqOnly, campOnly, opted, acts, faults>>

Phase == {"idle", "tick", "campaign"}

TypeOK == phase \in Phase /\ Runner!SeqTypeOK /\ Camp!CampTypeOK

Init == phase = "idle" /\ Runner!SeqInit /\ Camp!CampInit

Fault == acts + faults < MaxEvents /\ faults < MaxFaults /\ faults' = faults + 1

-----------------------------------------------------------------------------
(* The tick.                                                                *)

TickStarts ==
  /\ phase = "idle"
  /\ Runner!TickRead
  /\ phase' = "tick"
  /\ UNCHANGED campOnly

SequencesWork == Runner!TickWorks /\ UNCHANGED <<phase, campOnly>>
SequencesCatch == Runner!TickCatches /\ UNCHANGED <<phase, campOnly>>

(* Mutant: a tick without due enrollments returns early.                    *)
AfterSequences == phase = "tick" /\ tick.pc = "idle"

(* The sequences are through, or no enrollment is due in this tick, and     *)
(* runDueCampaigns is next.                                                 *)
AtCampaigns ==
  /\ tick.pc = "idle"
  /\ phase = "tick" \/ (phase = "idle" /\ Runner!DueRows = {})

(* The campaign is sent if it is scheduled for now or earlier ...           *)
CampaignDue ==
  /\ AtCampaigns
  /\ \E s \in Senders : Camp!BeginDue(s)
  /\ phase' = "campaign"
  /\ UNCHANGED seqOnly

(* ... and nothing is done if it is not, or if it cannot be read.           *)
NothingDue ==
  /\ phase = "tick"
  /\ tick.pc = "idle"
  /\ \/ ~Camp!IsDue /\ UNCHANGED faults
     \/ Fault
  /\ phase' = "idle"
  /\ UNCHANGED <<seqOnly, campOnly, opted, acts>>

(* The tick ends with its run of sendCampaign, even if workers are left.    *)
TickDone ==
  /\ phase = "campaign"
  /\ \A s \in Senders : run[s].by = "tick" => run[s].pc = "detached"
  /\ phase' = "idle"
  /\ UNCHANGED <<seqOnly, campOnly, opted, acts, faults>>

SenderWorks(s) == Camp!RunWorks(s) /\ UNCHANGED <<phase, seqOnly>>
SenderBreaks(s) == Camp!RunBreaks(s) /\ UNCHANGED <<phase, seqOnly>>

-----------------------------------------------------------------------------
(* People and time.                                                         *)

People ==
  \/ Runner!SeqRequests /\ UNCHANGED <<phase, campOnly>>
  \/ Camp!CampRequests /\ UNCHANGED <<phase, seqOnly>>
  \/ (\E s \in Senders : Camp!BeginSend(s)) /\ UNCHANGED <<phase, seqOnly>>
  \/ (\E c \in Contacts : Camp!CampOptOut(c)) /\ UNCHANGED <<phase, seqOnly>>

RowElapses(c) == Runner!Elapse(c) /\ UNCHANGED <<phase, campOnly>>
CampaignAges == Camp!HalfAnHour /\ UNCHANGED <<phase, seqOnly>>

(* The one server restarts: handlers, workers and the tick are gone.        *)
Restart ==
  /\ Fault
  /\ Runner!SeqRestart
  /\ Camp!CampRestart
  /\ phase' = "idle"

TickAdvances ==
  TickStarts \/ SequencesWork \/ CampaignDue \/ NothingDue \/ TickDone

Next ==
  \/ TickAdvances
  \/ SequencesCatch
  \/ \E s \in Senders : SenderWorks(s) \/ SenderBreaks(s)
  \/ People
  \/ \E c \in Contacts : RowElapses(c)
  \/ CampaignAges
  \/ Restart

Spec == Init /\ [][Next]_vars

(* The interval fires and a begun tick goes on, and time passes between     *)
(* ticks; some run of sendCampaign goes on as long as one can (which one is *)
(* left open); people need not do anything.                                 *)
Fairness ==
  /\ WF_vars(TickAdvances \/ \E c \in Contacts : RowElapses(c))
  /\ WF_vars(\E s \in Senders : SenderWorks(s))

FairSpec == Spec /\ Fairness

-----------------------------------------------------------------------------
(* Properties.                                                              *)

CopiesArePaidFor == Runner!CopiesArePaidFor
OneLateStep == Runner!OneLateStep
EnrollmentsEnd == Runner!EnrollmentsEnd
RecipientMailedOnce == Camp!RecipientMailedOnce

(* What a comment says, and the code does not do.                           *)
NeverDoubleSent == Runner!NeverDoubleSent

(* A campaign that is scheduled for a date is taken up by a tick (or sent,  *)
(* or withdrawn, by hand), whatever ticks crash, fail or are long with      *)
(* sequence steps.                                                          *)
ScheduledGoesOut == Camp!IsDue ~> ~Camp!IsDue

(* Without crashes and errors a campaign does not stay in `sending', unless *)
(* somebody wrote that status by hand.                                      *)
SendingEnds ==
  LET stuck == campaign = "sending" /\ faults = 0 /\ ~forced IN stuck ~> ~stuck
=============================================================================
