--------------------------- MODULE AgentRulesProofs ---------------------------
(***************************************************************************)
(* Theorems of AgentRules, for every set of rules, rows and callbacks.     *)
(* What the rules do to a row is a step of the queue, so the theorems of   *)
(* AgentTasks carry over.  The rows that rules have waiting are counted    *)
(* together with the callbacks that are about to insert one (RuleCovered,  *)
(* TargetCovered): a callback joins the count when its check finds no row, *)
(* and nobody else can be counted then but the callbacks that overlap it   *)
(* and the rows that a lapse has hidden from the check (LapsesSeen).       *)
(***************************************************************************)
EXTENDS AgentRules, AgentTasksProofs, TLAPS

ruleVars == <<vars, ruleOnly>>

(* Whatever the callback does while it evaluates the rules is a step of the *)
(* queue (an insert, the read of a batch, a restart) or leaves it alone.    *)
LEMMA RuleStepOfQueue ==
  ASSUME NEW k \in Ticks, RuleStep(k)
  PROVE  [Next]_vars
<1>1. CASE InsertTask(k)
  <2>1. PICK t \in Tasks : Create(t) \/ CreateApproved(t)
    BY <1>1, Zenon DEF InsertTask
  <2>. QED  BY <2>1, Zenon DEF Next, RowChanges
<1>2. CASE TakeUp(k)
  <2>1. TickRead(k) \/ UNCHANGED vars
    BY <1>2, Zenon DEF TakeUp
  <2>. QED  BY <2>1, Zenon DEF Next
<1>3. CASE BeginEvaluate(k)
  BY <1>3, Zenon DEF BeginEvaluate
<1>4. CASE AskRule(k)
  BY <1>4, Zenon DEF AskRule
<1>5. CASE AskTarget(k)
  BY <1>5, Zenon DEF AskTarget
<1>6. CASE LoadTask(k) \/ LogTrigger(k) \/ StampRule(k)
  BY <1>6, Zenon DEF LoadTask, LogTrigger, StampRule
<1>7. CASE EvaluationFails(k) \/ LogError(k) \/ AbandonRules(k)
  BY <1>7, Zenon DEF EvaluationFails, LogError, AbandonRules
<1>. QED  BY <1>1, <1>2, <1>3, <1>4, <1>5, <1>6, <1>7, Zenon DEF RuleStep

LEMMA RuleNextOfQueue == [RuleNext]_ruleVars => [Next]_vars
<1>. SUFFICES ASSUME [RuleNext]_ruleVars
              PROVE  [Next]_vars
  OBVIOUS
<1>1. CASE \E k \in Ticks : RuleStep(k)
  BY <1>1, RuleStepOfQueue, Zenon
<1>2. CASE \E r \in Rules : Elapse(r)
  BY <1>2, Zenon DEF Elapse
<1>3. CASE \E a \in Admins : Decide(a)
  BY <1>3, Zenon DEF Decide, Next
<1>4. CASE QueueStep
  BY <1>4, Zenon DEF QueueStep, Next, Failures
<1>5. CASE RestartAll
  BY <1>5, Zenon DEF RestartAll, Next, Failures
<1>6. CASE UNCHANGED ruleVars
  BY <1>6, Zenon DEF ruleVars
<1>. QED  BY <1>1, <1>2, <1>3, <1>4, <1>5, <1>6, Zenon DEF RuleNext

(* The rules only use the queue: what is proved of it holds next to them.   *)
THEOREM RulesUseTheQueue == RuleSpec => Spec
<1>1. RuleInit => Init
  BY DEF RuleInit
<1>. QED  BY <1>1, RuleNextOfQueue, PTL DEF RuleSpec, Spec, ruleVars

(* A row that a rule drafted, approved by an admin or inserted approved, is *)
(* executed no more often than it was approved, however callbacks overlap.  *)
THEOREM RuleRunsAreApproved == RuleSpec => []OneRunPerApproval
BY RulesUseTheQueue, RunsAreApproved, PTL

(* Drafting rows by rule releases none but those a rule inserts approved.   *)
THEOREM RulesReleaseNothing == RuleSpec => OnlyApprovalReleases
BY RulesUseTheQueue, ApprovalReleases, PTL

(* ... and while a row that was approved once is executed, it has one       *)
(* executor, which keeps it in hand.                                        *)
THEOREM RuleSingleExecutor == RuleSpec => []SingleApprovalSingleExecutor
BY RulesUseTheQueue, SingleExecutor, PTL

-----------------------------------------------------------------------------
(* The evaluation of the rules.                                             *)
USE RulesAssumption

(* What a callback has in its local variables, by where it is.              *)
DraftKnown(e) ==
  /\ e.pc = "ask" => e.target = NoTarget
  /\ e.pc \in {"target", "insert", "load", "log", "stamp"} => e.rule \in Rules
  /\ e.pc \in {"load", "log"} => e.task \in Tasks

EvalType == [pc : EvalPC, todo : SUBSET Rules, rule : Rules \cup {NoRule},
             target : Targets \cup {NoTarget}, task : Tasks \cup {NoTask}]
EvalOK == eval \in [Ticks -> EvalType] /\ \A k \in Ticks : DraftKnown(eval[k])
HistoryOK ==
  /\ recent \subseteq Rules /\ logged \subseteq Tasks /\ reopened \subseteq Tasks
  /\ origin \in [Tasks -> Rules \cup {NoRule}] /\ about \in [Tasks -> Targets \cup {NoTarget}]
  /\ crowd \in Nat /\ lapses \in Nat
RuleIInv == TypeOK /\ EvalOK /\ HistoryOK

LEMMA EvaluatingFinite == IsFiniteSet(Evaluating) /\ Cardinality(Evaluating) \in Nat
BY FS_Subset, FS_CardinalityType DEF Evaluating

LEMMA MoveOK ==
  ASSUME EvalOK, NEW k \in Ticks, NEW e \in EvalType, DraftKnown(e), eval' = [eval EXCEPT ![k] = e]
  PROVE  EvalOK'
BY DEF EvalOK

LEMMA RemainOK ==
  ASSUME EvalOK, NEW k \in Ticks, NEW todo \in SUBSET Rules, Remain(k, todo)
  PROVE  EvalOK'
<1>. DEFINE e == [NotEvaluating EXCEPT !.pc = IF todo = {} THEN "execute" ELSE "ask", !.todo = todo]
<1>1. eval' = [eval EXCEPT ![k] = e]
  BY DEF Remain
<1>2. e \in EvalType /\ DraftKnown(e)
  BY DEF DraftKnown, EvalType, EvalPC, NotEvaluating
<1>. QED  BY <1>1, <1>2, MoveOK

LEMMA EvalStep ==
  ASSUME RuleIInv, RuleNext
  PROVE  EvalOK'
<1>. USE DEF RuleIInv, EvalAt, Moves
<1>. EvalOK /\ \A k \in Ticks : eval[k] \in EvalType
  BY DEF EvalOK
<1>1. ASSUME NEW k \in Ticks, BeginEvaluate(k)
      PROVE  EvalOK'
  <2>1. PICK active \in SUBSET Rules : Remain(k, active \ recent)
    BY <1>1, Zenon DEF BeginEvaluate
  <2>. QED  BY <2>1, RemainOK
<1>2. ASSUME NEW k \in Ticks, AskRule(k)
      PROVE  EvalOK'
  <2>1. PICK r \in eval[k].todo : \/ Remain(k, eval[k].todo \ {r})
                                  \/ eval' = [eval EXCEPT ![k].rule = r, ![k].pc = IF TargetsOf[r] = {} THEN "insert" ELSE "target"]
    BY <1>2, Zenon DEF AskRule
  <2>2. r \in Rules /\ eval[k].todo \ {r} \in SUBSET Rules
    BY DEF EvalType
  <2>3. CASE Remain(k, eval[k].todo \ {r})
    BY <2>2, <2>3, RemainOK
  <2>4. CASE eval' = [eval EXCEPT ![k].rule = r, ![k].pc = IF TargetsOf[r] = {} THEN "insert" ELSE "target"]
    <3>. DEFINE e == [eval[k] EXCEPT !.rule = r, !.pc = IF TargetsOf[r] = {} THEN "insert" ELSE "target"]
    <3>1. eval' = [eval EXCEPT ![k] = e]
      BY <2>4 DEF EvalOK
    <3>2. e \in EvalType /\ DraftKnown(e)
      BY <2>2 DEF DraftKnown, EvalType, EvalPC
    <3>. QED  BY <3>1, <3>2, MoveOK
  <2>. QED  BY <2>1, <2>3, <2>4
<1>3. ASSUME NEW k \in Ticks, NextRule(k)
      PROVE  EvalOK'
  BY <1>3, RemainOK DEF NextRule, EvalType
<1>4. ASSUME NEW k \in Ticks, AskTarget(k)
      PROVE  EvalOK'
  <2>1. PICK e \in TargetsOf[eval[k].rule] : NextRule(k) \/ eval' = [eval EXCEPT ![k].target = e, ![k].pc = "insert"]
    BY <1>4, Zenon DEF AskTarget
  <2>2. eval[k].rule \in Rules
    BY <1>4 DEF AskTarget, EvalOK, DraftKnown
  <2>3. e \in Targets
    BY <2>2 DEF Targets
  <2>4. CASE eval' = [eval EXCEPT ![k].target = e, ![k].pc = "insert"]
    <3>. DEFINE f == [eval[k] EXCEPT !.target = e, !.pc = "insert"]
    <3>1. eval' = [eval EXCEPT ![k] = f]
      BY <2>4 DEF EvalOK
    <3>2. f \in EvalType /\ DraftKnown(f)
      BY <2>2, <2>3 DEF DraftKnown, EvalType, EvalPC
    <3>. QED  BY <3>1, <3>2, MoveOK
  <2>. QED  BY <1>3, <2>1, <2>4
<1>5. ASSUME NEW k \in Ticks, InsertTask(k)
      PROVE  EvalOK'
  <2>1. PICK t \in Tasks : eval' = [eval EXCEPT ![k].task = t, ![k].pc = "load"]
    BY <1>5, Zenon DEF InsertTask
  <2>2. eval[k].rule \in Rules
    BY <1>5 DEF InsertTask, EvalOK, DraftKnown
  <2>. DEFINE e == [eval[k] EXCEPT !.task = t, !.pc = "load"]
  <2>3. eval' = [eval EXCEPT ![k] = e]
    BY <2>1 DEF EvalOK
  <2>4. e \in EvalType /\ DraftKnown(e)
    BY <2>2 DEF DraftKnown, EvalType, EvalPC
  <2>. QED  BY <2>3, <2>4, MoveOK
<1>6. ASSUME NEW k \in Ticks, NEW pc \in {"log", "stamp", "error", "execute"}, Moves(k, pc),
             pc = "log" => eval[k].pc = "load", pc = "stamp" => eval[k].pc = "log"
      PROVE  EvalOK'
  <2>. DEFINE e == [eval[k] EXCEPT !.pc = pc]
  <2>1. eval' = [eval EXCEPT ![k] = e]
    BY <1>6 DEF EvalOK
  <2>2. e \in EvalType
    BY DEF EvalType, EvalPC
  <2>3. DraftKnown(e)
    BY <1>6 DEF EvalOK, DraftKnown, EvalType
  <2>. QED  BY <2>1, <2>2, <2>3, MoveOK
<1>7. ASSUME NEW k \in Ticks, EvalAt(k, "ask"), NEW r \in eval[k].todo, eval' = [eval EXCEPT ![k].rule = r, ![k].pc = "error"]
      PROVE  EvalOK'
  <2>. DEFINE e == [eval[k] EXCEPT !.rule = r, !.pc = "error"]
  <2>1. eval' = [eval EXCEPT ![k] = e]
    BY <1>7 DEF EvalOK
  <2>2. e \in EvalType /\ DraftKnown(e)
    BY DEF DraftKnown, EvalType, EvalPC
  <2>. QED  BY <2>1, <2>2, MoveOK
<1>8. ASSUME NEW k \in Ticks, TakeUp(k)
      PROVE  EvalOK'
  <2>1. eval' = [eval EXCEPT ![k] = NotEvaluating]
    BY <1>8, Zenon DEF TakeUp
  <2>2. NotEvaluating \in EvalType /\ DraftKnown(NotEvaluating)
    BY DEF DraftKnown, EvalType, EvalPC, NotEvaluating
  <2>. QED  BY <2>1, <2>2, MoveOK
<1>9. ASSUME RestartAll
      PROVE  EvalOK'
  <2>1. eval' = [k \in Ticks |-> NotEvaluating]
    BY <1>9, Zenon DEF RestartAll
  <2>. QED  BY <2>1 DEF EvalOK, DraftKnown, EvalType, EvalPC, NotEvaluating
<1>10. ASSUME UNCHANGED eval
       PROVE  EvalOK'
  BY <1>10 DEF EvalOK, DraftKnown
<1>. HIDE DEF EvalAt, Moves
<1>11. ASSUME NEW k \in Ticks, LoadTask(k) \/ LogTrigger(k) \/ StampRule(k)
       PROVE  EvalOK'
  BY <1>11, <1>3, <1>6 DEF LoadTask, LogTrigger, StampRule, EvalAt
<1>12. ASSUME NEW k \in Ticks, EvaluationFails(k) \/ LogError(k) \/ AbandonRules(k)
       PROVE  EvalOK'
  BY <1>12, <1>3, <1>6, <1>7 DEF EvaluationFails, LogError, AbandonRules
<1>13. (\E k \in Ticks : RuleStep(k)) => EvalOK'
  BY <1>1, <1>2, <1>4, <1>5, <1>8, <1>11, <1>12, Zenon DEF RuleStep
<1>14. (\E r \in Rules : Elapse(r)) \/ (\E a \in Admins : Decide(a)) \/ (QueueStep /\ UNCHANGED ruleOnly) => UNCHANGED eval
  BY Zenon DEF Elapse, Decide, ruleOnly
<1>. QED  BY <1>9, <1>10, <1>13, <1>14, Zenon DEF RuleNext

LEMMA HistoryStep ==
  ASSUME RuleIInv, RuleNext
  PROVE  HistoryOK'
<1>. USE DEF RuleIInv, HistoryOK
<1>. \A k \in Ticks : eval[k] \in EvalType
  BY DEF EvalOK
<1>1. ASSUME NEW k \in Ticks, BeginEvaluate(k)
      PROVE  HistoryOK'
  BY <1>1, EvaluatingFinite DEF BeginEvaluate
<1>2. ASSUME NEW k \in Ticks, AskRule(k) \/ AskTarget(k) \/ LoadTask(k) \/ LogError(k) \/ AbandonRules(k)
      PROVE  HistoryOK'
  BY <1>2 DEF AskRule, AskTarget, LoadTask, LogError, AbandonRules
<1>3. ASSUME NEW k \in Ticks, InsertTask(k)
      PROVE  HistoryOK'
  BY <1>3 DEF InsertTask, EvalType
<1>4. ASSUME NEW k \in Ticks, LogTrigger(k)
      PROVE  HistoryOK'
  BY <1>4 DEF LogTrigger, EvalOK, DraftKnown, EvalAt
<1>5. ASSUME NEW k \in Ticks, StampRule(k)
      PROVE  HistoryOK'
  <2>1. eval[k].pc = "stamp" /\ recent' = recent \cup {eval[k].rule} /\ UNCHANGED <<logged, origin, about, reopened, crowd, lapses>>
    BY <1>5 DEF StampRule, EvalAt
  <2>2. eval[k].rule \in Rules
    BY <2>1 DEF EvalOK, DraftKnown
  <2>. QED  BY <2>1, <2>2
<1>6. ASSUME NEW k \in Ticks, EvaluationFails(k) \/ TakeUp(k)
      PROVE  HistoryOK'
  <2>1. lapses' \in {lapses, lapses + 1} /\ UNCHANGED <<recent, logged, origin, about, reopened, crowd>>
    BY <1>6 DEF EvaluationFails, TakeUp, Lapse, vars
  <2>. QED  BY <2>1
<1>7. ASSUME NEW r \in Rules, Elapse(r)
      PROVE  HistoryOK'
  BY <1>7 DEF Elapse
<1>8. ASSUME NEW a \in Admins, Decide(a)
      PROVE  HistoryOK'
  BY <1>8 DEF Decide
<1>9. ASSUME UNCHANGED ruleOnly
      PROVE  HistoryOK'
  BY <1>9 DEF ruleOnly
<1>10. ASSUME RestartAll
       PROVE  HistoryOK'
  BY <1>10, EvaluatingFinite DEF RestartAll
<1>. HIDE DEF HistoryOK
<1>. QED  BY <1>1, <1>2, <1>3, <1>4, <1>5, <1>6, <1>7, <1>8, <1>9, <1>10, Zenon DEF RuleNext, RuleStep

LEMMA RuleInvariant == RuleSpec => []RuleIInv
<1>1. RuleInit => EvalOK /\ HistoryOK
  BY DEF RuleInit, EvalOK, HistoryOK, DraftKnown, EvalType, EvalPC, NotEvaluating
<1>2. RuleIInv /\ [RuleNext]_ruleVars => EvalOK' /\ HistoryOK'
  <2>. SUFFICES ASSUME RuleIInv, [RuleNext]_ruleVars
                PROVE  EvalOK' /\ HistoryOK'
    OBVIOUS
  <2>1. CASE RuleNext
    BY <2>1, EvalStep, HistoryStep
  <2>2. CASE UNCHANGED ruleVars
    BY <2>2 DEF ruleVars, ruleOnly, RuleIInv, EvalOK, HistoryOK
  <2>. QED  BY <2>1, <2>2
<1>3. RuleSpec => []TypeOK
  BY RulesUseTheQueue, TypeCorrect, PTL
<1>. QED  BY <1>1, <1>2, <1>3, PTL DEF RuleSpec, ruleVars, RuleIInv

(* Type correctness of the evaluation, next to that of the queue: where a  *)
(* callback looks for a target or inserts a row it has a rule to do it for.*)
THEOREM RuleTypeCorrect == RuleSpec => []RuleTypeOK
<1>1. RuleIInv => RuleTypeOK
  BY DEF RuleIInv, EvalOK, HistoryOK, EvalType, RuleTypeOK
<1>. QED  BY <1>1, RuleInvariant, PTL

-----------------------------------------------------------------------------
(* Rows that wait.  What a rule drafts is counted from the moment on at     *)
(* which its check has found nothing: while the callback that is to insert  *)
(* the row has not done so, it stands for the row.                          *)
WaitingFor(r) == {t \in Waiting : origin[t] = r}
Drafting(r) == {k \in Ticks : eval[k].rule = r /\ eval[k].pc \in {"target", "insert"}}
WaitingAbout(e) == {t \in Waiting : about[t] = e /\ data[t] = 0}
Aiming(e) == {k \in Ticks : eval[k].target = e /\ eval[k].pc = "insert"}

(* hasOpenTaskForRule misses a row that no log links to its rule: either    *)
(* the callback that inserted it is about to log it, or an evaluation was   *)
(* cut short in between.                                                    *)
Logging == {k \in Ticks : eval[k].pc \in {"load", "log"}}
Forgotten == {t \in Waiting \ logged : origin[t] \in Rules /\ \A k \in Logging : eval[k].task # t}

Undrafted == \A t \in Tasks : status[t] = "none" => origin[t] = NoRule /\ about[t] = NoTarget
CrowdSeen == Cardinality(Evaluating) <= crowd
LapsesSeen == Cardinality(Forgotten) <= lapses
RuleCovered == \A r \in Rules : Cardinality(WaitingFor(r)) + Cardinality(Drafting(r)) <= crowd + lapses
TargetCovered == \A e \in Targets : Cardinality(WaitingAbout(e)) + Cardinality(Aiming(e)) <= crowd

(* No step of the queue but an approval lets a row wait that did not, and   *)
(* none unborns a row or undoes an edit.                                    *)
StaysOut(t) ==
  /\ status'[t] = "none" => status[t] = "none"
  /\ data'[t] = 0 => data[t] = 0
  /\ status'[t] \in OPEN_TASK_STATUSES => status[t] \in OPEN_TASK_STATUSES \cup {"none"}

LEMMA QueueRow ==
  ASSUME TypeOK, QueueStep, NEW t \in Tasks
  PROVE  StaysOut(t)
<1>. status \in [Tasks -> Status] /\ data \in [Tasks -> Nat]
  BY DEF TypeOK
<1>. USE DEF StaysOut, OPEN_TASK_STATUSES, SetStatus, Live
<1>1. ASSUME RowChanges
      PROVE  StaysOut(t)
  BY <1>1 DEF RowChanges, Create, CreateApproved, Reject, BulkDelete
<1>2. ASSUME NEW p \in Procs, WriteUpdate(p)
      PROVE  StaysOut(t)
  BY <1>2 DEF WriteUpdate
<1>3. ASSUME NEW p \in Procs, WriteCancel(p) \/ WinClaim(p)
      PROVE  StaysOut(t)
  BY <1>3 DEF WriteCancel, WinClaim, ClaimAgentTask
<1>4. ASSUME NEW p \in Procs, RecordOutcome(p) \/ TickRecord(p) \/ TickCatchWrite(p)
      PROVE  StaysOut(t)
  BY <1>4 DEF RecordOutcome, TickRecord, TickCatchWrite, Outcome
<1>5. ASSUME NEW p \in Procs, NEW u \in Tasks, TickClaim(p, u)
      PROVE  StaysOut(t)
  BY <1>5 DEF TickClaim, ClaimAgentTask
<1>6. ASSUME UNCHANGED <<status, data>>
      PROVE  StaysOut(t)
  BY <1>6
<1>. HIDE DEF StaysOut, SetStatus
<1>7. ASSUME NEW p \in Procs,
             \/ LoseClaim(p) \/ RunTask(p) \/ LookUpDeal(p) \/ CreateDeal(p) \/ WriteLog(p)
             \/ RequestFails(p) \/ DealCatch(p) \/ TickCatch(p) \/ TickAborts(p) \/ \E u \in Tasks : TickSkip(p, u)
      PROVE  UNCHANGED <<status, data>>
  BY <1>7, Zenon DEF LoseClaim, RunTask, LookUpDeal, CreateDeal, WriteLog, RequestFails, DealCatch, TickCatch, TickAborts, TickSkip
<1>. QED  BY <1>1, <1>2, <1>3, <1>4, <1>5, <1>6, <1>7, Zenon DEF QueueStep, AdminContinues, TickContinues, Procs

(* Next to the insert of a row, a step leaves the rows what they are, and   *)
(* what a rule has drafted begins to wait only when it is inserted.         *)
OldRows ==
  /\ origin' = origin /\ about' = about
  /\ \A t \in Waiting' : origin[t] # NoRule \/ about[t] # NoTarget => t \in Waiting
  /\ \A t \in Tasks : data'[t] = 0 => data[t] = 0
NewRow(k, t) ==
  /\ eval[k].pc = "insert" /\ eval' = [eval EXCEPT ![k].task = t, ![k].pc = "load"]
  /\ status[t] = "none" /\ status'[t] \in OPEN_TASK_STATUSES /\ \A u \in Tasks \ {t} : status'[u] = status[u]
  /\ origin' = [origin EXCEPT ![t] = eval[k].rule] /\ about' = [about EXCEPT ![t] = eval[k].target]
  /\ UNCHANGED <<data, reopened, logged, crowd, lapses>>

LEMMA InsertIsNewRow ==
  ASSUME RuleIInv, NEW k \in Ticks, InsertTask(k)
  PROVE  \E t \in Tasks : NewRow(k, t)
<1>1. PICK t \in Tasks : /\ Create(t) \/ (eval[k].rule \in AutoRules /\ CreateApproved(t))
                         /\ origin' = [origin EXCEPT ![t] = eval[k].rule]
                         /\ about' = [about EXCEPT ![t] = eval[k].target]
                         /\ eval' = [eval EXCEPT ![k].task = t, ![k].pc = "load"]
  BY Zenon DEF InsertTask
<1>2. /\ status[t] = "none" /\ status'[t] \in OPEN_TASK_STATUSES /\ \A u \in Tasks \ {t} : status'[u] = status[u]
      /\ data' = data
  BY <1>1 DEF Create, CreateApproved, OPEN_TASK_STATUSES, RuleIInv, TypeOK
<1>. QED  BY <1>1, <1>2 DEF NewRow, InsertTask, EvalAt

LEMMA RowsStep ==
  ASSUME RuleIInv, Undrafted, [RuleNext]_ruleVars
  PROVE  Undrafted' /\ (OldRows \/ \E k \in Ticks : InsertTask(k))
<1>. DEFINE Goal == Undrafted' /\ (OldRows \/ \E k \in Ticks : InsertTask(k))
<1>. SUFFICES Goal
  OBVIOUS
<1>. /\ status \in [Tasks -> Status] /\ data \in [Tasks -> Nat]
     /\ origin \in [Tasks -> Rules \cup {NoRule}] /\ about \in [Tasks -> Targets \cup {NoTarget}]
  BY DEF RuleIInv, HistoryOK, TypeOK
<1>1. ASSUME UNCHANGED <<origin, about, reopened>>, \A t \in Tasks : StaysOut(t)
      PROVE  Goal
  BY <1>1 DEF OldRows, Undrafted, Waiting, StaysOut
<1>2. ASSUME UNCHANGED <<origin, about, reopened, status, data>>
      PROVE  Goal
  <2>1. \A t \in Tasks : StaysOut(t)
    BY <1>2 DEF StaysOut
  <2>. QED  BY <1>1, <1>2, <2>1
<1>3. ASSUME NEW a \in Admins, Decide(a)
      PROVE  Goal
  <2>1. ASSUME NEW t \in Tasks
        PROVE  (status'[t] = "none" => status[t] = "none") /\ (data'[t] = 0 => data[t] = 0)
               /\ (status'[t] # "approved" => status'[t] = status[t])
    BY <1>3 DEF Decide, AdminStarts, Approve, SetStatus, BeginUpdate, BeginCancel, BeginExecute, BeginInline
  <2>2. /\ origin' = origin /\ about' = about
        /\ reopened' = reopened \cup {t \in Tasks : status[t] \notin OPEN_TASK_STATUSES /\ status'[t] = "approved"}
    BY <1>3, Zenon DEF Decide
  <2>. QED  BY <2>1, <2>2 DEF OldRows, Undrafted, Waiting, OPEN_TASK_STATUSES
<1>4. ASSUME NEW k \in Ticks, InsertTask(k)
      PROVE  Goal
  <2>1. PICK t \in Tasks : NewRow(k, t)
    BY <1>4, InsertIsNewRow
  <2>2. Undrafted'
    BY <2>1 DEF NewRow, Undrafted, OPEN_TASK_STATUSES
  <2>. QED  BY <1>4, <2>2
<1>. HIDE DEF Goal
<1>5. ASSUME QueueStep, UNCHANGED ruleOnly
      PROVE  Goal
  <2>1. UNCHANGED <<origin, about, reopened>>
    BY <1>5 DEF ruleOnly
  <2>. QED  BY <1>1, <1>5, <2>1, QueueRow DEF RuleIInv
<1>6. ASSUME NEW k \in Ticks, RuleStep(k), ~InsertTask(k)
      PROVE  Goal
  <2>1. TakeUp(k) => UNCHANGED <<origin, about, reopened, status, data>>
    BY DEF TakeUp, TickRead, vars
  <2>2. RuleStep(k) /\ ~TakeUp(k) => UNCHANGED <<origin, about, reopened, vars>>
    BY <1>6, Zenon DEF RuleStep, BeginEvaluate, AskRule, AskTarget, LoadTask, LogTrigger, StampRule, EvaluationFails, LogError, AbandonRules
  <2>3. UNCHANGED vars => UNCHANGED <<status, data>>
    BY DEF vars
  <2>. QED  BY <1>2, <1>6, <2>1, <2>2, <2>3, Zenon
<1>7. ASSUME (\E r \in Rules : Elapse(r)) \/ RestartAll \/ UNCHANGED ruleVars
      PROVE  Goal
  <2>1. (\E r \in Rules : Elapse(r)) => UNCHANGED <<origin, about, reopened, status, data>>
    BY DEF Elapse, vars
  <2>2. RestartAll => UNCHANGED <<origin, about, reopened, status, data>>
    BY DEF RestartAll, Restart, vars
  <2>3. UNCHANGED ruleVars => UNCHANGED <<origin, about, reopened, status, data>>
    BY DEF ruleVars, ruleOnly, vars
  <2>. QED  BY <1>2, <1>7, <2>1, <2>2, <2>3
<1>8. RuleNext \/ UNCHANGED ruleVars
  OBVIOUS
<1>. QED  BY <1>3, <1>4, <1>5, <1>6, <1>7, <1>8, Zenon DEF RuleNext

(* What one callback does to its place in the evaluation.                   *)
Begins(k, e) ==
  /\ eval[k].pc = "idle" /\ e.pc \in {"ask", "execute"}
  /\ crowd' >= crowd /\ (e.pc = "ask" => crowd' >= Cardinality(Evaluating) + 1)
  /\ UNCHANGED <<logged, lapses>>
LeavesRule(k, e) ==
  /\ e.pc \in {"ask", "execute", "idle", "stamp"} /\ (e.pc \in {"ask", "stamp"} => k \in Evaluating)
  /\ k \in Logging /\ status[eval[k].task] \in Live => eval[k].task \in logged'
  /\ logged \subseteq logged' /\ crowd' = crowd /\ lapses' >= lapses
TakesRule(k, e) ==
  /\ eval[k].pc = "ask" /\ e.pc \in {"target", "insert"} /\ e.target = NoTarget /\ OpenTaskForRule(e.rule) = {}
  /\ UNCHANGED <<logged, crowd, lapses>>
TakesTarget(k, e) ==
  /\ eval[k].pc = "target" /\ e.pc = "insert" /\ e.rule = eval[k].rule
  /\ {t \in OpenTaskForEntity(e.target) : data[t] = 0} = {}
  /\ UNCHANGED <<logged, crowd, lapses>>
Loads(k, e) ==
  /\ eval[k].pc = "load" /\ e.pc = "log" /\ e.task = eval[k].task
  /\ UNCHANGED <<logged, crowd, lapses>>
Errs(k, e) == k \in Evaluating /\ e.pc = "error" /\ lapses' = lapses + 1 /\ UNCHANGED <<logged, crowd>>
Moved(k, e) ==
  Begins(k, e) \/ LeavesRule(k, e) \/ TakesRule(k, e) \/ TakesTarget(k, e) \/ Loads(k, e) \/ Errs(k, e)

LEMMA EvalView ==
  ASSUME RuleIInv, [RuleNext]_ruleVars
  PROVE  \/ \E k \in Ticks : InsertTask(k)
         \/ UNCHANGED <<eval, logged, crowd, lapses>>
         \/ (\A k \in Ticks : eval'[k].pc = "idle") /\ logged' = logged /\ crowd' = crowd
            /\ lapses' = lapses + Cardinality(Evaluating)
         \/ \E k \in Ticks : Moved(k, eval'[k]) /\ \A q \in Ticks \ {k} : eval'[q] = eval[q]
<1>. DEFINE One == \E k \in Ticks : Moved(k, eval'[k]) /\ \A q \in Ticks \ {k} : eval'[q] = eval[q]
            Stop == (\A k \in Ticks : eval'[k].pc = "idle") /\ logged' = logged /\ crowd' = crowd
                    /\ lapses' = lapses + Cardinality(Evaluating)
            Still == UNCHANGED <<eval, logged, crowd, lapses>>
<1>. /\ eval \in [Ticks -> EvalType] /\ \A k \in Ticks : eval[k] \in EvalType
     /\ crowd \in Nat /\ lapses \in Nat /\ Cardinality(Evaluating) \in Nat
  BY EvaluatingFinite DEF RuleIInv, EvalOK, HistoryOK
<1>. USE DEF Moved, EvalAt, Moves
<1>1. ASSUME NEW k \in Ticks, NEW todo, Remain(k, todo)
      PROVE  eval'[k].pc \in {"ask", "execute"} /\ \A q \in Ticks \ {k} : eval'[q] = eval[q]
  BY <1>1 DEF Remain, NotEvaluating
<1>2. ASSUME NEW k \in Ticks, BeginEvaluate(k)
      PROVE  One
  <2>1. PICK active \in SUBSET Rules :
               /\ Remain(k, active \ recent)
               /\ crowd' = IF active \subseteq recent \/ Cardinality(Evaluating) < crowd
                           THEN crowd ELSE Cardinality(Evaluating) + 1
    BY <1>2, Zenon DEF BeginEvaluate
  <2>2. eval'[k].pc = (IF active \ recent = {} THEN "execute" ELSE "ask")
    BY <2>1 DEF Remain, NotEvaluating
  <2>3. eval[k].pc = "idle" /\ UNCHANGED <<logged, lapses>>
    BY <1>2 DEF BeginEvaluate
  <2>4. Begins(k, eval'[k])
    BY <2>1, <2>2, <2>3 DEF Begins
  <2>. QED  BY <1>1, <2>1, <2>4
<1>3. ASSUME NEW k \in Ticks, NextRule(k), eval[k].pc \in {"target", "load", "stamp", "error"},
             eval[k].pc = "load" => status[eval[k].task] \notin Live,
             UNCHANGED <<logged, crowd, lapses>>
      PROVE  One
  <2>1. eval'[k].pc \in {"ask", "execute"} /\ \A q \in Ticks \ {k} : eval'[q] = eval[q]
    BY <1>1, <1>3 DEF NextRule
  <2>2. LeavesRule(k, eval'[k])
    BY <1>3, <2>1 DEF LeavesRule, Logging, Evaluating
  <2>. QED  BY <2>1, <2>2
<1>4. ASSUME NEW k \in Ticks, AskRule(k)
      PROVE  One
  <2>1. PICK r \in eval[k].todo :
               \/ Remain(k, eval[k].todo \ {r})
               \/ /\ OpenTaskForRule(r) = {}
                  /\ eval' = [eval EXCEPT ![k].rule = r, ![k].pc = IF TargetsOf[r] = {} THEN "insert" ELSE "target"]
    BY <1>4, Zenon DEF AskRule
  <2>2. eval[k].pc = "ask" /\ UNCHANGED <<logged, crowd, lapses>> /\ eval[k].target = NoTarget
    BY <1>4 DEF AskRule, RuleIInv, EvalOK, DraftKnown
  <2>3. CASE Remain(k, eval[k].todo \ {r})
    <3>1. eval'[k].pc \in {"ask", "execute"} /\ \A q \in Ticks \ {k} : eval'[q] = eval[q]
      BY <1>1, <2>3
    <3>2. LeavesRule(k, eval'[k])
      BY <2>2, <3>1 DEF LeavesRule, Logging, Evaluating
    <3>. QED  BY <3>1, <3>2
  <2>4. ASSUME OpenTaskForRule(r) = {},
               eval' = [eval EXCEPT ![k].rule = r, ![k].pc = IF TargetsOf[r] = {} THEN "insert" ELSE "target"]
        PROVE  One
    <3>1. /\ eval'[k].rule = r /\ eval'[k].pc \in {"target", "insert"} /\ eval'[k].target = NoTarget
          /\ \A q \in Ticks \ {k} : eval'[q] = eval[q]
      BY <2>2, <2>4 DEF EvalType
    <3>2. TakesRule(k, eval'[k])
      BY <2>2, <2>4, <3>1 DEF TakesRule
    <3>. QED  BY <3>1, <3>2
  <2>. QED  BY <2>1, <2>3, <2>4
<1>5. ASSUME NEW k \in Ticks, AskTarget(k)
      PROVE  One
  <2>1. PICK e \in TargetsOf[eval[k].rule] :
               \/ NextRule(k)
               \/ /\ {t \in OpenTaskForEntity(e) : data[t] = 0} = {}
                  /\ eval' = [eval EXCEPT ![k].target = e, ![k].pc = "insert"]
    BY <1>5, Zenon DEF AskTarget
  <2>2. eval[k].pc = "target" /\ UNCHANGED <<logged, crowd, lapses>>
    BY <1>5 DEF AskTarget
  <2>3. ASSUME {t \in OpenTaskForEntity(e) : data[t] = 0} = {},
               eval' = [eval EXCEPT ![k].target = e, ![k].pc = "insert"]
        PROVE  One
    <3>1. /\ eval'[k].rule = eval[k].rule /\ eval'[k].pc = "insert" /\ eval'[k].target = e
          /\ \A q \in Ticks \ {k} : eval'[q] = eval[q]
      BY <2>3 DEF EvalType
    <3>2. TakesTarget(k, eval'[k])
      BY <2>2, <2>3, <3>1 DEF TakesTarget
    <3>. QED  BY <3>1, <3>2
  <2>. QED  BY <1>3, <2>1, <2>2, <2>3
<1>6. ASSUME NEW k \in Ticks, LoadTask(k)
      PROVE  One
  <2>1. eval[k].pc = "load" /\ UNCHANGED <<logged, crowd, lapses>>
    BY <1>6 DEF LoadTask
  <2>2. CASE status[eval[k].task] \notin Live
    BY <1>3, <1>6, <2>1, <2>2 DEF LoadTask
  <2>3. CASE status[eval[k].task] \in Live
    <3>1. eval' = [eval EXCEPT ![k].pc = "log"]
      BY <1>6, <2>3 DEF LoadTask
    <3>2. /\ eval'[k].pc = "log" /\ eval'[k].task = eval[k].task
          /\ \A q \in Ticks \ {k} : eval'[q] = eval[q]
      BY <3>1 DEF EvalType
    <3>3. Loads(k, eval'[k])
      BY <2>1, <3>2 DEF Loads
    <3>. QED  BY <3>2, <3>3
  <2>. QED  BY <2>2, <2>3
<1>7. ASSUME NEW k \in Ticks, LogTrigger(k)
      PROVE  One
  <2>1. /\ eval[k].pc = "log" /\ logged' = logged \cup {eval[k].task} /\ UNCHANGED <<crowd, lapses>>
        /\ eval'[k].pc = "stamp" /\ \A q \in Ticks \ {k} : eval'[q] = eval[q]
    BY <1>7 DEF LogTrigger
  <2>2. LeavesRule(k, eval'[k])
    BY <2>1 DEF LeavesRule, Evaluating
  <2>. QED  BY <2>1, <2>2
<1>8. ASSUME NEW k \in Ticks, StampRule(k) \/ LogError(k)
      PROVE  One
  <2>1. NextRule(k) /\ eval[k].pc \in {"stamp", "error"} /\ UNCHANGED <<logged, crowd, lapses>>
    BY <1>8 DEF StampRule, LogError
  <2>. QED  BY <1>3, <2>1
<1>9. ASSUME NEW k \in Ticks, EvaluationFails(k)
      PROVE  One
  <2>1. /\ eval[k].pc \in {"ask", "target", "insert", "load", "log", "stamp"}
        /\ lapses' = lapses + 1 /\ UNCHANGED <<logged, crowd>>
        /\ (\E r \in eval[k].todo : eval' = [eval EXCEPT ![k].rule = r, ![k].pc = "error"])
           \/ eval' = [eval EXCEPT ![k].pc = "error"]
    BY <1>9 DEF EvaluationFails, Lapse
  <2>2. eval'[k].pc = "error" /\ \A q \in Ticks \ {k} : eval'[q] = eval[q]
    <3>1. ASSUME NEW r \in eval[k].todo, eval' = [eval EXCEPT ![k].rule = r, ![k].pc = "error"]
          PROVE  eval'[k].pc = "error" /\ \A q \in Ticks \ {k} : eval'[q] = eval[q]
      BY <3>1 DEF EvalType
    <3>2. ASSUME eval' = [eval EXCEPT ![k].pc = "error"]
          PROVE  eval'[k].pc = "error" /\ \A q \in Ticks \ {k} : eval'[q] = eval[q]
      BY <3>2 DEF EvalType
    <3>. QED  BY <2>1, <3>1, <3>2
  <2>3. Errs(k, eval'[k])
    BY <2>1, <2>2 DEF Errs, Evaluating
  <2>. QED  BY <2>2, <2>3
<1>10. ASSUME NEW k \in Ticks, AbandonRules(k) \/ TakeUp(k)
       PROVE  One
  <2>1. /\ eval[k].pc \in {"error", "execute"} /\ lapses' >= lapses /\ UNCHANGED <<logged, crowd>>
        /\ eval'[k].pc \in {"execute", "idle"} /\ \A q \in Ticks \ {k} : eval'[q] = eval[q]
    <3>1. CASE AbandonRules(k)
      BY <3>1 DEF AbandonRules, EvalType
    <3>2. CASE TakeUp(k)
      <4>1. /\ eval[k].pc = "execute" /\ eval' = [eval EXCEPT ![k] = NotEvaluating]
            /\ UNCHANGED lapses \/ Lapse
            /\ UNCHANGED <<recent, logged, origin, about, reopened, crowd>>
        BY <3>2, Zenon DEF TakeUp
      <4>. QED  BY <4>1 DEF Lapse, NotEvaluating
    <3>. QED  BY <1>10, <3>1, <3>2
  <2>2. LeavesRule(k, eval'[k])
    BY <2>1 DEF LeavesRule, Logging
  <2>. QED  BY <2>1, <2>2
<1>11. ASSUME RestartAll
       PROVE  Stop
  <2>1. /\ eval' = [k \in Ticks |-> NotEvaluating] /\ lapses' = lapses + Cardinality(Evaluating)
        /\ logged' = logged /\ crowd' = crowd
    BY <1>11, Zenon DEF RestartAll
  <2>. QED  BY <2>1 DEF NotEvaluating
<1>12. ASSUME \/ \E r \in Rules : Elapse(r)
              \/ \E a \in Admins : Decide(a)
              \/ QueueStep /\ UNCHANGED ruleOnly
              \/ UNCHANGED ruleVars
       PROVE  Still
  BY <1>12, Zenon DEF Elapse, Decide, ruleOnly, ruleVars
<1>13. RuleNext \/ UNCHANGED ruleVars
  OBVIOUS
<1>. HIDE DEF One, Stop, Still
<1>14. (\E k \in Ticks : InsertTask(k)) \/ Still \/ Stop \/ One
  BY <1>2, <1>4, <1>5, <1>6, <1>7, <1>8, <1>9, <1>10, <1>11, <1>12, <1>13, Zenon DEF RuleNext, RuleStep
<1>. QED  BY <1>14 DEF Still, Stop, One

LEMMA Smaller ==
  ASSUME NEW S, IsFiniteSet(S), NEW T, T \subseteq S
  PROVE  IsFiniteSet(T) /\ Cardinality(T) <= Cardinality(S) /\ Cardinality(T) \in Nat /\ Cardinality(S) \in Nat
BY FS_Subset, FS_CardinalityType

LEMMA OneMore ==
  ASSUME NEW S, IsFiniteSet(S), NEW x, NEW T, T \subseteq S \cup {x}
  PROVE  IsFiniteSet(T) /\ Cardinality(T) <= Cardinality(S) + 1 /\ Cardinality(T) \in Nat /\ Cardinality(S) \in Nat
<1>1. IsFiniteSet(S \cup {x}) /\ Cardinality(S \cup {x}) \in {Cardinality(S), Cardinality(S) + 1}
  BY FS_AddElement
<1>2. Cardinality(S) \in Nat
  BY FS_CardinalityType
<1>. QED  BY <1>1, <1>2, Smaller

(* The two counts of callbacks that differ in what they do add up.          *)
LEMMA Apart ==
  ASSUME NEW S, NEW T, NEW U, IsFiniteSet(U), S \subseteq U, T \subseteq U, S \cap T = {}
  PROVE  Cardinality(S) + Cardinality(T) <= Cardinality(U)
<1>1. IsFiniteSet(S) /\ IsFiniteSet(T) /\ S \cup T \subseteq U
  BY Smaller
<1>2. Cardinality(S \cup T) = Cardinality(S) + Cardinality(T) - 0
  BY <1>1, FS_Union, FS_EmptySet
<1>3. Cardinality(S) \in Nat /\ Cardinality(T) \in Nat /\ Cardinality(S \cup T) <= Cardinality(U)
  BY <1>1, Smaller
<1>. QED  BY <1>2, <1>3

(* A callback holds no more than one row.                                   *)
InHandOf(K) == {eval[k].task : k \in K}
LEMMA OneRowEach ==
  ASSUME NEW K, IsFiniteSet(K)
  PROVE  IsFiniteSet(InHandOf(K)) /\ Cardinality(InHandOf(K)) <= Cardinality(K)
         /\ Cardinality(InHandOf(K)) \in Nat /\ Cardinality(K) \in Nat
<1>. DEFINE f == [k \in K |-> eval[k].task]
<1>1. f \in Surjection(K, InHandOf(K))
  BY DEF InHandOf, Surjection
<1>. QED  BY <1>1, FS_Surjection, FS_CardinalityType

LEMMA RowsFinite ==
  ASSUME NEW r, NEW e
  PROVE  IsFiniteSet(WaitingFor(r)) /\ IsFiniteSet(WaitingAbout(e)) /\ IsFiniteSet(Forgotten)
         /\ IsFiniteSet(Drafting(r)) /\ IsFiniteSet(Aiming(e)) /\ IsFiniteSet(Logging) /\ IsFiniteSet(Evaluating)
<1>1. WaitingFor(r) \subseteq Tasks /\ WaitingAbout(e) \subseteq Tasks /\ Forgotten \subseteq Tasks
  BY DEF WaitingFor, WaitingAbout, Forgotten, Waiting
<1>2. Drafting(r) \subseteq Ticks /\ Aiming(e) \subseteq Ticks /\ Logging \subseteq Ticks /\ Evaluating \subseteq Ticks
  BY DEF Drafting, Aiming, Logging, Evaluating
<1>3. IsFiniteSet(Tasks) /\ IsFiniteSet(Ticks)
  BY TasksAssumption
<1>. QED  BY <1>1, <1>2, <1>3, Smaller

LEMMA RowsFiniteNext ==
  ASSUME NEW r, NEW e
  PROVE  IsFiniteSet(WaitingFor(r)') /\ IsFiniteSet(WaitingAbout(e)') /\ IsFiniteSet(Forgotten')
         /\ IsFiniteSet(Drafting(r)') /\ IsFiniteSet(Aiming(e)') /\ IsFiniteSet(Logging') /\ IsFiniteSet(Evaluating')
<1>1. WaitingFor(r)' \subseteq Tasks /\ WaitingAbout(e)' \subseteq Tasks /\ Forgotten' \subseteq Tasks
  BY DEF WaitingFor, WaitingAbout, Forgotten, Waiting
<1>2. Drafting(r)' \subseteq Ticks /\ Aiming(e)' \subseteq Ticks /\ Logging' \subseteq Ticks /\ Evaluating' \subseteq Ticks
  BY DEF Drafting, Aiming, Logging, Evaluating
<1>3. IsFiniteSet(Tasks) /\ IsFiniteSet(Ticks)
  BY TasksAssumption
<1>. QED  BY <1>1, <1>2, <1>3, Smaller

(* crowd never falls behind the callbacks that evaluate rules.              *)
LEMMA CrowdStep ==
  ASSUME RuleIInv, CrowdSeen, [RuleNext]_ruleVars
  PROVE  CrowdSeen' /\ crowd' >= crowd /\ crowd' \in Nat /\ crowd \in Nat
<1>. crowd \in Nat /\ crowd' \in Nat /\ IsFiniteSet(Evaluating) /\ Cardinality(Evaluating) \in Nat
  <2>1. crowd \in Nat
    BY DEF RuleIInv, HistoryOK
  <2>2. RuleNext \/ UNCHANGED crowd
    BY DEF ruleVars, ruleOnly
  <2>3. crowd' \in Nat
    BY <2>1, <2>2, HistoryStep DEF HistoryOK
  <2>. QED  BY <2>1, <2>3, EvaluatingFinite
<1>1. ASSUME Evaluating' \subseteq Evaluating, crowd' >= crowd
      PROVE  CrowdSeen' /\ crowd' >= crowd
  <2>1. Cardinality(Evaluating') <= Cardinality(Evaluating) /\ Cardinality(Evaluating') \in Nat
    BY <1>1, Smaller
  <2>. QED  BY <1>1, <2>1 DEF CrowdSeen
<1>2. ASSUME NEW k \in Ticks, InsertTask(k)
      PROVE  CrowdSeen' /\ crowd' >= crowd
  <2>. PICK t \in Tasks : NewRow(k, t)
    BY <1>2, InsertIsNewRow
  <2>1. crowd' = crowd /\ k \in Evaluating /\ \A q \in Ticks \ {k} : eval'[q] = eval[q]
    BY DEF NewRow, Evaluating, RuleIInv, EvalOK
  <2>. QED  BY <1>1, <2>1 DEF Evaluating
<1>3. ASSUME UNCHANGED <<eval, crowd>> \/ ((\A k \in Ticks : eval'[k].pc = "idle") /\ crowd' = crowd)
      PROVE  CrowdSeen' /\ crowd' >= crowd
  BY <1>1, <1>3 DEF Evaluating
<1>4. ASSUME NEW k \in Ticks, \A q \in Ticks \ {k} : eval'[q] = eval[q], Moved(k, eval'[k])
      PROVE  CrowdSeen' /\ crowd' >= crowd
  <2>1. CASE Begins(k, eval'[k]) /\ eval'[k].pc = "ask"
    <3>1. Evaluating' \subseteq Evaluating \cup {k}
      BY <1>4 DEF Evaluating
    <3>2. Cardinality(Evaluating') <= Cardinality(Evaluating) + 1 /\ Cardinality(Evaluating') \in Nat
      BY <3>1, OneMore
    <3>. QED  BY <2>1, <3>2 DEF Begins, CrowdSeen
  <2>2. CASE ~(Begins(k, eval'[k]) /\ eval'[k].pc = "ask")
    <3>1. crowd' >= crowd /\ (k \in Evaluating \/ eval'[k].pc \in {"idle", "execute"})
      BY <1>4, <2>2 DEF Moved, Begins, LeavesRule, TakesRule, TakesTarget, Loads, Errs, Evaluating
    <3>. QED  BY <1>1, <1>4, <3>1 DEF Evaluating
  <2>. QED  BY <2>1, <2>2
<1>. QED  BY <1>2, <1>3, <1>4, EvalView

(* Each row that is forgotten cost a lapse.                                 *)
LEMMA LapsesStep ==
  ASSUME RuleIInv, Undrafted, LapsesSeen, [RuleNext]_ruleVars
  PROVE  LapsesSeen' /\ lapses' >= lapses /\ lapses' \in Nat /\ lapses \in Nat
<1>. DEFINE Goal == LapsesSeen' /\ lapses' >= lapses
<1>. lapses \in Nat /\ lapses' \in Nat
  <2>1. lapses \in Nat
    BY DEF RuleIInv, HistoryOK
  <2>2. RuleNext \/ UNCHANGED lapses
    BY DEF ruleVars, ruleOnly
  <2>. QED  BY <2>1, <2>2, HistoryStep DEF HistoryOK
<1>. IsFiniteSet(Forgotten) /\ IsFiniteSet(Forgotten') /\ IsFiniteSet(Logging) /\ IsFiniteSet(Evaluating)
  BY RowsFinite, RowsFiniteNext
<1>0. /\ eval \in [Ticks -> EvalType] /\ \A k \in Ticks : eval[k] \in EvalType
      /\ Cardinality(Forgotten) \in Nat /\ Cardinality(Forgotten) <= lapses
      /\ origin \in [Tasks -> Rules \cup {NoRule}]
  BY FS_CardinalityType DEF RuleIInv, EvalOK, HistoryOK, LapsesSeen
<1>1. ASSUME Forgotten' \subseteq Forgotten, lapses' >= lapses
      PROVE  Goal
  <2>1. Cardinality(Forgotten') <= Cardinality(Forgotten) /\ Cardinality(Forgotten') \in Nat
    BY <1>1, Smaller
  <2>. QED  BY <1>0, <1>1, <2>1 DEF LapsesSeen
<1>2. ASSUME NEW k \in Ticks, InsertTask(k)
      PROVE  Goal
  <2>. PICK t \in Tasks : NewRow(k, t)
    BY <1>2, InsertIsNewRow
  <2>1. /\ eval'[k].pc = "load" /\ eval'[k].task = t /\ eval[k].pc = "insert" /\ \A q \in Ticks \ {k} : eval'[q] = eval[q]
        /\ lapses' = lapses /\ logged' = logged
    BY <1>0 DEF NewRow, EvalType
  <2>2. \A u \in Tasks \ {t} : u \in Waiting' => u \in Waiting /\ origin'[u] = origin[u]
    BY <1>0 DEF NewRow, Waiting
  <2>. HIDE DEF NewRow
  <2>3. Forgotten' \subseteq Forgotten
    BY <2>1, <2>2 DEF Forgotten, Logging, Waiting
  <2>. QED  BY <1>1, <2>1, <2>3
<1>3. ASSUME OldRows
      PROVE  \A t \in Forgotten' : t \in Waiting /\ origin[t] \in Rules /\ t \notin logged'
  BY <1>3 DEF OldRows, Forgotten
<1>4. ASSUME OldRows, UNCHANGED <<eval, logged, lapses>>
      PROVE  Goal
  <2>1. Forgotten' \subseteq Forgotten
    BY <1>3, <1>4 DEF Forgotten, Logging
  <2>. QED  BY <1>1, <1>4, <2>1
<1>5. ASSUME OldRows, logged' = logged, lapses' = lapses + Cardinality(Evaluating)
      PROVE  Goal
  <2>1. Forgotten' \subseteq Forgotten \cup InHandOf(Logging)
    BY <1>3, <1>5 DEF Forgotten, InHandOf
  <2>2. /\ Cardinality(InHandOf(Logging)) <= Cardinality(Logging) /\ IsFiniteSet(InHandOf(Logging))
        /\ Cardinality(InHandOf(Logging)) \in Nat /\ Cardinality(Logging) \in Nat
    BY OneRowEach
  <2>3. Cardinality(Logging) <= Cardinality(Evaluating) /\ Cardinality(Evaluating) \in Nat
    <3>1. Logging \subseteq Evaluating
      BY DEF Logging, Evaluating
    <3>. QED  BY <3>1, Smaller
  <2>4. Cardinality(Forgotten') <= Cardinality(Forgotten) + Cardinality(InHandOf(Logging)) /\ Cardinality(Forgotten') \in Nat
    <3>1. /\ IsFiniteSet(Forgotten \cup InHandOf(Logging)) /\ Cardinality(Forgotten \cap InHandOf(Logging)) \in Nat
          /\ Cardinality(Forgotten \cup InHandOf(Logging))
               = Cardinality(Forgotten) + Cardinality(InHandOf(Logging)) - Cardinality(Forgotten \cap InHandOf(Logging))
      BY <2>2, FS_Union, FS_Intersection, FS_CardinalityType
    <3>2. Cardinality(Forgotten') <= Cardinality(Forgotten \cup InHandOf(Logging)) /\ Cardinality(Forgotten') \in Nat
      BY <2>1, <3>1, Smaller
    <3>. QED  BY <1>0, <2>2, <3>1, <3>2
  <2>. QED  BY <1>0, <1>5, <2>2, <2>3, <2>4 DEF LapsesSeen
<1>6. ASSUME OldRows, NEW k \in Ticks, \A q \in Ticks \ {k} : eval'[q] = eval[q], Moved(k, eval'[k])
      PROVE  Goal
  <2>1. logged \subseteq logged' /\ lapses' >= lapses
    BY <1>6 DEF Moved, Begins, LeavesRule, TakesRule, TakesTarget, Loads, Errs
  <2>2. CASE Errs(k, eval'[k])
    <3>1. Forgotten' \subseteq Forgotten \cup {eval[k].task}
      BY <1>3, <1>6, <2>1 DEF Forgotten, Logging
    <3>2. Cardinality(Forgotten') <= Cardinality(Forgotten) + 1 /\ Cardinality(Forgotten') \in Nat
      BY <3>1, OneMore
    <3>. QED  BY <1>0, <2>1, <2>2, <3>2 DEF Errs, LapsesSeen
  <2>3. CASE ~Errs(k, eval'[k])
    <3>1. k \in Logging => \/ k \in Logging' /\ eval'[k].task = eval[k].task
                           \/ status[eval[k].task] \notin Live
                           \/ eval[k].task \in logged'
      BY <1>6, <2>3 DEF Moved, Begins, LeavesRule, TakesRule, TakesTarget, Loads, Logging
    <3>2. \A t \in Waiting : status[t] \in Live
      BY DEF Waiting, OPEN_TASK_STATUSES, Live
    <3>3. Forgotten' \subseteq Forgotten
      BY <1>3, <1>6, <2>1, <3>1, <3>2 DEF Forgotten, Logging
    <3>. QED  BY <1>1, <2>1, <3>3
  <2>. QED  BY <2>2, <2>3
<1>. HIDE DEF Goal
<1>7. Goal
  BY <1>2, <1>4, <1>5, <1>6, RowsStep, EvalView
<1>. QED  BY <1>7 DEF Goal

(* About one target: a row joins those that wait only when the callback     *)
(* that found none inserts it.                                              *)
LEMMA TargetStep ==
  ASSUME RuleIInv, Undrafted, CrowdSeen, TargetCovered, [RuleNext]_ruleVars
  PROVE  TargetCovered'
<1>. SUFFICES ASSUME NEW e \in Targets
              PROVE  Cardinality(WaitingAbout(e)') + Cardinality(Aiming(e)') <= crowd'
  BY DEF TargetCovered
<1>. DEFINE Goal == Cardinality(WaitingAbout(e)') + Cardinality(Aiming(e)') <= crowd'
<1>. /\ IsFiniteSet(WaitingAbout(e)) /\ IsFiniteSet(Aiming(e)) /\ IsFiniteSet(WaitingAbout(e)') /\ IsFiniteSet(Aiming(e)')
     /\ IsFiniteSet(Evaluating')
  BY RowsFinite, RowsFiniteNext
<1>0. /\ eval \in [Ticks -> EvalType] /\ \A k \in Ticks : eval[k] \in EvalType
      /\ about \in [Tasks -> Targets \cup {NoTarget}]
      /\ Cardinality(WaitingAbout(e)) + Cardinality(Aiming(e)) <= crowd
      /\ Cardinality(WaitingAbout(e)) \in Nat /\ Cardinality(Aiming(e)) \in Nat
      /\ Cardinality(WaitingAbout(e)') \in Nat /\ Cardinality(Aiming(e)') \in Nat
      /\ e # NoTarget
  BY FS_CardinalityType DEF RuleIInv, EvalOK, HistoryOK, TargetCovered
<1>c. crowd' >= crowd /\ crowd' \in Nat /\ crowd \in Nat /\ CrowdSeen'
  BY CrowdStep
<1>1. ASSUME WaitingAbout(e)' \subseteq WaitingAbout(e), Aiming(e)' \subseteq Aiming(e)
      PROVE  Goal
  <2>1. /\ Cardinality(WaitingAbout(e)') <= Cardinality(WaitingAbout(e))
        /\ Cardinality(Aiming(e)') <= Cardinality(Aiming(e))
    BY <1>1, Smaller
  <2>. QED  BY <1>0, <1>c, <2>1
<1>2. ASSUME NEW k \in Ticks, InsertTask(k)
      PROVE  Goal
  <2>. PICK t \in Tasks : NewRow(k, t)
    BY <1>2, InsertIsNewRow
  <2>1. /\ eval'[k].pc = "load" /\ eval[k].pc = "insert" /\ \A q \in Ticks \ {k} : eval'[q] = eval[q]
        /\ about'[t] = eval[k].target
    BY <1>0 DEF NewRow, EvalType
  <2>2. \A u \in Tasks \ {t} : (u \in Waiting' => u \in Waiting) /\ about'[u] = about[u] /\ data'[u] = data[u]
    BY <1>0 DEF NewRow, Waiting
  <2>. HIDE DEF NewRow
  <2>3. Aiming(e)' \subseteq Aiming(e) \ {k}
    BY <2>1 DEF Aiming
  <2>4. CASE eval[k].target = e
    <3>1. WaitingAbout(e)' \subseteq WaitingAbout(e) \cup {t}
      BY <2>2 DEF WaitingAbout, Waiting
    <3>2. Cardinality(WaitingAbout(e)') <= Cardinality(WaitingAbout(e)) + 1
      BY <3>1, OneMore
    <3>3. k \in Aiming(e)
      BY <2>1, <2>4 DEF Aiming
    <3>4. Cardinality(Aiming(e) \ {k}) = Cardinality(Aiming(e)) - 1 /\ IsFiniteSet(Aiming(e) \ {k})
      BY <3>3, FS_RemoveElement
    <3>5. Cardinality(Aiming(e)') <= Cardinality(Aiming(e)) - 1
      BY <2>3, <3>4, Smaller
    <3>. QED  BY <1>0, <1>c, <3>2, <3>5
  <2>5. CASE eval[k].target # e
    <3>1. WaitingAbout(e)' \subseteq WaitingAbout(e)
      BY <2>1, <2>2, <2>5 DEF WaitingAbout, Waiting
    <3>. QED  BY <1>1, <2>3, <3>1
  <2>. QED  BY <2>4, <2>5
<1>3. ASSUME OldRows
      PROVE  WaitingAbout(e)' \subseteq WaitingAbout(e)
  BY <1>0, <1>3 DEF OldRows, WaitingAbout, Waiting
<1>4. ASSUME OldRows, eval' = eval \/ \A k \in Ticks : eval'[k].pc = "idle"
      PROVE  Goal
  <2>1. Aiming(e)' \subseteq Aiming(e)
    BY <1>4 DEF Aiming
  <2>. QED  BY <1>1, <1>3, <1>4, <2>1
<1>5. ASSUME OldRows, NEW k \in Ticks, \A q \in Ticks \ {k} : eval'[q] = eval[q], Moved(k, eval'[k])
      PROVE  Goal
  <2>1. CASE TakesTarget(k, eval'[k]) /\ eval'[k].target = e
    <3>1. WaitingAbout(e) = {}
      BY <2>1 DEF TakesTarget, OpenTaskForEntity, WaitingAbout, Waiting
    <3>2. Cardinality(WaitingAbout(e)') = 0
      BY <1>3, <1>5, <3>1, FS_EmptySet
    <3>3. Cardinality(Aiming(e)') <= Cardinality(Evaluating')
      <4>1. Aiming(e)' \subseteq Evaluating'
        BY DEF Aiming, Evaluating
      <4>. QED  BY <4>1, Smaller
    <3>4. Cardinality(Evaluating') <= crowd' /\ Cardinality(Evaluating') \in Nat
      BY <1>c, FS_CardinalityType DEF CrowdSeen
    <3>. QED  BY <1>0, <1>c, <3>2, <3>3, <3>4
  <2>2. CASE ~(TakesTarget(k, eval'[k]) /\ eval'[k].target = e)
    <3>1. ~(eval'[k].pc = "insert" /\ eval'[k].target = e)
      BY <1>0, <1>5, <2>2 DEF Moved, Begins, LeavesRule, TakesRule, Loads, Errs, TakesTarget
    <3>2. Aiming(e)' \subseteq Aiming(e)
      BY <1>5, <3>1 DEF Aiming
    <3>. QED  BY <1>1, <1>3, <1>5, <3>2
  <2>. QED  BY <2>1, <2>2
<1>. HIDE DEF Goal
<1>6. Goal
  BY <1>2, <1>4, <1>5, RowsStep, EvalView
<1>. QED  BY <1>6 DEF Goal

(* For one rule: when its check finds no row in the log, those that wait    *)
(* are forgotten or still in the hand of another callback.                  *)
LEMMA DraftStep ==
  ASSUME RuleIInv, Undrafted, CrowdSeen, LapsesSeen, RuleCovered, [RuleNext]_ruleVars
  PROVE  RuleCovered'
<1>. SUFFICES ASSUME NEW r \in Rules
              PROVE  Cardinality(WaitingFor(r)') + Cardinality(Drafting(r)') <= crowd' + lapses'
  BY DEF RuleCovered
<1>. DEFINE Goal == Cardinality(WaitingFor(r)') + Cardinality(Drafting(r)') <= crowd' + lapses'
<1>. /\ IsFiniteSet(WaitingFor(r)) /\ IsFiniteSet(Drafting(r)) /\ IsFiniteSet(WaitingFor(r)') /\ IsFiniteSet(Drafting(r)')
     /\ IsFiniteSet(Evaluating') /\ IsFiniteSet(Logging) /\ IsFiniteSet(Forgotten)
  BY RowsFinite, RowsFiniteNext
<1>0. /\ eval \in [Ticks -> EvalType] /\ \A k \in Ticks : eval[k] \in EvalType
      /\ origin \in [Tasks -> Rules \cup {NoRule}]
      /\ Cardinality(WaitingFor(r)) + Cardinality(Drafting(r)) <= crowd + lapses
      /\ Cardinality(WaitingFor(r)) \in Nat /\ Cardinality(Drafting(r)) \in Nat
      /\ Cardinality(WaitingFor(r)') \in Nat /\ Cardinality(Drafting(r)') \in Nat
      /\ r # NoRule
  BY FS_CardinalityType DEF RuleIInv, EvalOK, HistoryOK, RuleCovered
<1>c. /\ crowd' >= crowd /\ crowd' \in Nat /\ crowd \in Nat /\ CrowdSeen'
      /\ lapses' >= lapses /\ lapses' \in Nat /\ lapses \in Nat
  BY CrowdStep, LapsesStep
<1>1. ASSUME WaitingFor(r)' \subseteq WaitingFor(r), Drafting(r)' \subseteq Drafting(r)
      PROVE  Goal
  <2>1. /\ Cardinality(WaitingFor(r)') <= Cardinality(WaitingFor(r))
        /\ Cardinality(Drafting(r)') <= Cardinality(Drafting(r))
    BY <1>1, Smaller
  <2>. QED  BY <1>0, <1>c, <2>1
<1>2. ASSUME NEW k \in Ticks, InsertTask(k)
      PROVE  Goal
  <2>. PICK t \in Tasks : NewRow(k, t)
    BY <1>2, InsertIsNewRow
  <2>1. /\ eval'[k].pc = "load" /\ eval[k].pc = "insert" /\ \A q \in Ticks \ {k} : eval'[q] = eval[q]
        /\ origin'[t] = eval[k].rule
    BY <1>0 DEF NewRow, EvalType
  <2>2. \A u \in Tasks \ {t} : (u \in Waiting' => u \in Waiting) /\ origin'[u] = origin[u]
    BY <1>0 DEF NewRow, Waiting
  <2>. HIDE DEF NewRow
  <2>3. Drafting(r)' \subseteq Drafting(r) \ {k}
    BY <2>1 DEF Drafting
  <2>4. CASE eval[k].rule = r
    <3>1. WaitingFor(r)' \subseteq WaitingFor(r) \cup {t}
      BY <2>2 DEF WaitingFor, Waiting
    <3>2. Cardinality(WaitingFor(r)') <= Cardinality(WaitingFor(r)) + 1
      BY <3>1, OneMore
    <3>3. k \in Drafting(r)
      BY <2>1, <2>4 DEF Drafting
    <3>4. Cardinality(Drafting(r) \ {k}) = Cardinality(Drafting(r)) - 1 /\ IsFiniteSet(Drafting(r) \ {k})
      BY <3>3, FS_RemoveElement
    <3>5. Cardinality(Drafting(r)') <= Cardinality(Drafting(r)) - 1
      BY <2>3, <3>4, Smaller
    <3>. QED  BY <1>0, <1>c, <3>2, <3>5
  <2>5. CASE eval[k].rule # r
    <3>1. WaitingFor(r)' \subseteq WaitingFor(r)
      BY <2>1, <2>2, <2>5 DEF WaitingFor, Waiting
    <3>. QED  BY <1>1, <2>3, <3>1
  <2>. QED  BY <2>4, <2>5
<1>3. ASSUME OldRows
      PROVE  WaitingFor(r)' \subseteq WaitingFor(r)
  BY <1>0, <1>3 DEF OldRows, WaitingFor, Waiting
<1>4. ASSUME OldRows, eval' = eval \/ \A k \in Ticks : eval'[k].pc = "idle"
      PROVE  Goal
  <2>1. Drafting(r)' \subseteq Drafting(r)
    BY <1>4 DEF Drafting
  <2>. QED  BY <1>1, <1>3, <1>4, <2>1
<1>5. ASSUME OldRows, NEW k \in Ticks, \A q \in Ticks \ {k} : eval'[q] = eval[q], Moved(k, eval'[k])
      PROVE  Goal
  <2>1. CASE TakesRule(k, eval'[k]) /\ eval'[k].rule = r
    <3>1. WaitingFor(r) \subseteq Forgotten \cup InHandOf(Logging)
      BY <2>1 DEF TakesRule, OpenTaskForRule, WaitingFor, Forgotten, Waiting, InHandOf
    <3>2. /\ Cardinality(InHandOf(Logging)) <= Cardinality(Logging) /\ IsFiniteSet(InHandOf(Logging))
          /\ Cardinality(InHandOf(Logging)) \in Nat /\ Cardinality(Logging) \in Nat
      BY OneRowEach
    <3>3. Cardinality(Forgotten) <= lapses /\ Cardinality(Forgotten) \in Nat
      BY FS_CardinalityType DEF LapsesSeen
    <3>4. /\ IsFiniteSet(Forgotten \cup InHandOf(Logging)) /\ Cardinality(Forgotten \cap InHandOf(Logging)) \in Nat
          /\ Cardinality(Forgotten \cup InHandOf(Logging))
               = Cardinality(Forgotten) + Cardinality(InHandOf(Logging)) - Cardinality(Forgotten \cap InHandOf(Logging))
      BY <3>2, FS_Union, FS_Intersection, FS_CardinalityType
    <3>5. Cardinality(WaitingFor(r)') <= Cardinality(Forgotten \cup InHandOf(Logging))
      <4>1. WaitingFor(r)' \subseteq Forgotten \cup InHandOf(Logging)
        BY <1>3, <1>5, <3>1
      <4>. QED  BY <3>4, <4>1, Smaller
    <3>6. Cardinality(Drafting(r)') + Cardinality(Logging) <= Cardinality(Evaluating')
      <4>1. Drafting(r)' \subseteq Evaluating' /\ Drafting(r)' \cap Logging = {} /\ Logging \subseteq Evaluating'
        BY <1>5, <2>1 DEF Drafting, Logging, Evaluating, TakesRule
      <4>. QED  BY <4>1, Apart
    <3>7. Cardinality(Evaluating') <= crowd' /\ Cardinality(Evaluating') \in Nat
      BY <1>c, FS_CardinalityType DEF CrowdSeen
    <3>8. Cardinality(WaitingFor(r)') <= lapses + Cardinality(Logging)
      <4>. HIDE DEF InHandOf
      <4>. QED  BY <1>0, <1>c, <3>2, <3>3, <3>4, <3>5
    <3>. QED  BY <1>0, <1>c, <3>2, <3>6, <3>7, <3>8
  <2>2. CASE ~(TakesRule(k, eval'[k]) /\ eval'[k].rule = r)
    <3>1. eval'[k].pc \in {"target", "insert"} /\ eval'[k].rule = r => eval[k].pc = "target" /\ eval[k].rule = r
      BY <1>5, <2>2 DEF Moved, Begins, LeavesRule, TakesRule, Loads, Errs, TakesTarget
    <3>2. Drafting(r)' \subseteq Drafting(r)
      BY <1>5, <3>1 DEF Drafting
    <3>. QED  BY <1>1, <1>3, <1>5, <3>2
  <2>. QED  BY <2>1, <2>2
<1>. HIDE DEF Goal
<1>6. Goal
  BY <1>2, <1>4, <1>5, RowsStep, EvalView
<1>. QED  BY <1>6 DEF Goal

Counted == Undrafted /\ CrowdSeen /\ LapsesSeen /\ RuleCovered /\ TargetCovered

LEMMA CountInvariant == RuleSpec => [](RuleIInv /\ Counted)
<1>1. RuleInit => Counted
  <2>. SUFFICES ASSUME RuleInit
                PROVE  Counted
    OBVIOUS
  <2>1. /\ Undrafted /\ crowd = 0 /\ lapses = 0 /\ Evaluating = {} /\ Forgotten = {}
        /\ \A r : WaitingFor(r) = {} /\ Drafting(r) = {}
        /\ \A e : WaitingAbout(e) = {} /\ Aiming(e) = {}
    BY DEF RuleInit, Init, Undrafted, NotEvaluating, Evaluating, Forgotten, Waiting, OPEN_TASK_STATUSES,
           WaitingFor, Drafting, WaitingAbout, Aiming
  <2>. QED  BY <2>1, FS_EmptySet DEF Counted, CrowdSeen, LapsesSeen, RuleCovered, TargetCovered
<1>2. RuleIInv /\ Counted /\ [RuleNext]_ruleVars => Counted'
  BY RowsStep, CrowdStep, LapsesStep, DraftStep, TargetStep DEF Counted
<1>. HIDE DEF Counted
<1>. QED  BY <1>1, <1>2, RuleInvariant, PTL DEF RuleSpec, ruleVars

(* About one vendor, RFQ or order the rules have one row waiting, and one   *)
(* more only per callback that overlapped another, for every set of rules,  *)
(* targets and callbacks.                                                   *)
THEOREM TargetWaitsOnce == RuleSpec => []OneWaitingPerTarget
<1>1. RuleIInv /\ Counted => OneWaitingPerTarget
  <2>. SUFFICES ASSUME RuleIInv, Counted, NEW e \in Targets
                PROVE  Cardinality(WaitingAbout(e)) <= crowd
    BY DEF OneWaitingPerTarget, WaitingAbout
  <2>1. Cardinality(WaitingAbout(e)) \in Nat /\ Cardinality(Aiming(e)) \in Nat
    BY RowsFinite, FS_CardinalityType
  <2>. QED  BY <2>1 DEF Counted, TargetCovered, RuleIInv, HistoryOK
<1>. QED  BY <1>1, CountInvariant, PTL

(* Each rule has one row waiting, and one more only per overlapping         *)
(* callback or evaluation cut short: what the log does not know of was      *)
(* forgotten by a lapse or is in another callback's hand.                   *)
THEOREM RuleWaitsOnce == RuleSpec => []OneWaitingPerRule
<1>1. RuleIInv /\ Counted => OneWaitingPerRule
  <2>. SUFFICES ASSUME RuleIInv, Counted, NEW r \in Rules
                PROVE  Cardinality(WaitingFor(r)) <= crowd + lapses
    BY DEF OneWaitingPerRule, WaitingFor
  <2>1. Cardinality(WaitingFor(r)) \in Nat /\ Cardinality(Drafting(r)) \in Nat
    BY RowsFinite, FS_CardinalityType
  <2>. QED  BY <2>1 DEF Counted, RuleCovered, RuleIInv, HistoryOK
<1>. QED  BY <1>1, CountInvariant, PTL
=============================================================================
