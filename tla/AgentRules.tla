------------------------------ MODULE AgentRules ------------------------------
(***************************************************************************)
(* The callback of the agent scheduler: evaluateRules, which asks for each *)
(* active rule whether something is to be done and drafts a row for it,    *)
(* and then executeApprovedTasks, composed with the queue of AgentTasks.   *)
(* A callback waits for a language model between its checks and its        *)
(* insert, so the next one may start before it is through.                 *)
(* What a rule looks at (stock, quotes, orders) is left open.              *)
(***************************************************************************)
EXTENDS AgentTasks

CONSTANTS
  Rules,      \* the aiAgentRules rows
  TargetsOf,  \* TargetsOf[r]: what r may draft a row about (a vendor, an RFQ, an
              \* order); none for the re-quote rules, whose rows name no one thing
  AutoRules,  \* the rules whose rows may be inserted approved
  NoRule, NoTarget,
  MaxLapses   \* bound on the errors and restarts that cut an evaluation short

Targets == UNION {TargetsOf[r] : r \in Rules}

ASSUME RulesAssumption ==
  /\ IsFiniteSet(Rules)
  /\ IsFiniteSet(Ticks)
  /\ DOMAIN TargetsOf = Rules
  /\ AutoRules \subseteq Rules
  /\ NoRule \notin Rules
  /\ NoTarget \notin Targets
  /\ MaxLapses \in Nat

VARIABLES
  eval,      \* eval[k]: where callback k is in evaluateRules
  recent,    \* the rules triggered less than checkFrequencyMinutes ago
  logged,    \* the rows that a "rule_triggered" log row links to their rule
  origin,    \* origin[t]: the rule that drafted row t
  about,     \* about[t]: what row t is about, as far as a rule looks for it
  reopened,  \* history: rows approved after they had been decided
  crowd,     \* history: the most callbacks that ever evaluated rules at once
  lapses     \* history: evaluations cut short

ruleOnly == <<eval, recent, logged, origin, about, reopened, crowd, lapses>>

OPEN_TASK_STATUSES == {"pending_approval", "approved"}

(* ask .. stamp: on the rule `rule'; error: the catch around one rule;      *)
(* execute: the rules are done and executeApprovedTasks is called.          *)
EvalPC == {"idle", "ask", "target", "insert", "load", "log", "stamp", "error", "execute"}
NotEvaluating == [pc |-> "idle", todo |-> {}, rule |-> NoRule, target |-> NoTarget, task |-> NoTask]
Evaluating == {k \in Ticks : eval[k].pc \notin {"idle", "execute"}}

RuleTypeOK ==
  /\ TypeOK
  /\ eval \in [Ticks -> [pc : EvalPC, todo : SUBSET Rules, rule : Rules \cup {NoRule},
                         target : Targets \cup {NoTarget}, task : Tasks \cup {NoTask}]]
  /\ recent \subseteq Rules
  /\ logged \subseteq Tasks
  /\ origin \in [Tasks -> Rules \cup {NoRule}]
  /\ about \in [Tasks -> Targets \cup {NoTarget}]
  /\ reopened \subseteq Tasks
  /\ crowd \in Nat
  /\ lapses \in Nat

RuleInit ==
  /\ Init
  /\ eval = [k \in Ticks |-> NotEvaluating]
  /\ recent = {}
  /\ logged = {}
  /\ origin = [t \in Tasks |-> NoRule]
  /\ about = [t \in Tasks |-> NoTarget]
  /\ reopened = {}
  /\ crowd = 0
  /\ lapses = 0

EvalAt(k, pc) == eval[k].pc = pc
Moves(k, pc) == eval' = [eval EXCEPT ![k].pc = pc]
(* The loop goes on with the rules that are left.                           *)
Remain(k, todo) ==
  eval' = [eval EXCEPT ![k] = [NotEvaluating EXCEPT !.pc = IF todo = {} THEN "execute" ELSE "ask", !.todo = todo]]
NextRule(k) == Remain(k, eval[k].todo \ {eval[k].rule})
Lapse == lapses < MaxLapses /\ lapses' = lapses + 1

-----------------------------------------------------------------------------
(* The interval fires and the active rules are read: people switch rules on *)
(* and off at any time.  A rule that was triggered recently is passed over. *)
BeginEvaluate(k) ==
  /\ IsIdle(k) /\ queue[k] = {}
  /\ EvalAt(k, "idle")
  /\ \E active \in SUBSET Rules :
       /\ Remain(k, active \ recent)
       /\ crowd' = IF active \subseteq recent \/ Cardinality(Evaluating) < crowd
                   THEN crowd ELSE Cardinality(Evaluating) + 1
  /\ UNCHANGED <<vars, recent, logged, origin, about, reopened, lapses>>

(* Mutants: only rows that wait for approval are looked for.                *)
PendingForRule(r) == {t \in logged : origin[t] = r /\ status[t] = "pending_approval"}
PendingForEntity(e) == {t \in Tasks : about[t] = e /\ status[t] = "pending_approval"}

(* hasOpenTaskForRule goes by the log.                                      *)
OpenTaskForRule(r) == {t \in logged : origin[t] = r /\ status[t] \in OPEN_TASK_STATUSES}

(* hasOpenTaskForEntity goes by the rows: their column, or a fragment of    *)
(* their taskData as the scheduler formats it.                              *)
OpenTaskForEntity(e) == {t \in Tasks : about[t] = e /\ status[t] \in OPEN_TASK_STATUSES}

(* A rule with an open row is passed over; without one its condition is     *)
(* evaluated, and may not hold.                                             *)
AskRule(k) ==
  /\ EvalAt(k, "ask")
  /\ \E r \in eval[k].todo :
       \/ Remain(k, eval[k].todo \ {r})
       \/ /\ OpenTaskForRule(r) = {}
          /\ eval' = [eval EXCEPT ![k].rule = r, ![k].pc = IF TargetsOf[r] = {} THEN "insert" ELSE "target"]
  /\ UNCHANGED <<vars, recent, logged, origin, about, reopened, crowd, lapses>>

(* createTaskFromRule finds what the row is to be about.  An edit of the    *)
(* taskData may hide the row from the search.                               *)
AskTarget(k) ==
  /\ EvalAt(k, "target")
  /\ \E e \in TargetsOf[eval[k].rule] :
       \/ OpenTaskForEntity(e) # {} /\ NextRule(k)
       \/ /\ {t \in OpenTaskForEntity(e) : data[t] = 0} = {}
          /\ eval' = [eval EXCEPT ![k].target = e, ![k].pc = "insert"]
  /\ UNCHANGED <<vars, recent, logged, origin, about, reopened, crowd, lapses>>

(* The row waits for approval unless the rule lets it pass.                 *)
InsertTask(k) ==
  /\ EvalAt(k, "insert")
  /\ \E t \in Tasks :
       /\ Create(t) \/ (eval[k].rule \in AutoRules /\ CreateApproved(t))
       /\ origin' = [origin EXCEPT ![t] = eval[k].rule]
       /\ about' = [about EXCEPT ![t] = eval[k].target]
       /\ eval' = [eval EXCEPT ![k].task = t, ![k].pc = "load"]
  /\ UNCHANGED <<recent, logged, reopened, crowd, lapses>>

(* The row is read back; if it is gone by now the rule has not triggered.   *)
LoadTask(k) ==
  /\ EvalAt(k, "load")
  /\ IF status[eval[k].task] \in Live THEN Moves(k, "log") ELSE NextRule(k)
  /\ UNCHANGED <<vars, recent, logged, origin, about, reopened, crowd, lapses>>

LogTrigger(k) ==
  /\ EvalAt(k, "log")
  /\ logged' = logged \cup {eval[k].task}
  /\ Moves(k, "stamp")
  /\ UNCHANGED <<vars, recent, origin, about, reopened, crowd, lapses>>

StampRule(k) ==
  /\ EvalAt(k, "stamp")
  /\ recent' = recent \cup {eval[k].rule}
  /\ NextRule(k)
  /\ UNCHANGED <<vars, logged, origin, about, reopened, crowd, lapses>>

Elapse(r) ==
  /\ r \in recent
  /\ recent' = recent \ {r}
  /\ UNCHANGED <<vars, eval, logged, origin, about, reopened, crowd, lapses>>

-----------------------------------------------------------------------------
(* An error of the database or of the language model is caught and logged,  *)
(* and the next rule is evaluated ...                                       *)
EvaluationFails(k) ==
  /\ Lapse
  /\ \/ EvalAt(k, "ask") /\ \E r \in eval[k].todo : eval' = [eval EXCEPT ![k].rule = r, ![k].pc = "error"]
     \/ eval[k].pc \in {"target", "insert", "load", "log", "stamp"} /\ Moves(k, "error")
  /\ UNCHANGED <<vars, recent, logged, origin, about, reopened, crowd>>

LogError(k) ==
  /\ EvalAt(k, "error")
  /\ NextRule(k)
  /\ UNCHANGED <<vars, recent, logged, origin, about, reopened, crowd, lapses>>

(* ... unless that log fails as well.                                       *)
AbandonRules(k) ==
  /\ EvalAt(k, "error")
  /\ Moves(k, "execute")
  /\ UNCHANGED <<vars, recent, logged, origin, about, reopened, crowd, lapses>>

(* The approved rows are taken up, if any; the read of them may fail.       *)
TakeUp(k) ==
  /\ EvalAt(k, "execute")
  /\ eval' = [eval EXCEPT ![k] = NotEvaluating]
  /\ \/ TickRead(k) /\ UNCHANGED lapses
     \/ (\A t \in Tasks : status[t] # "approved") /\ UNCHANGED <<vars, lapses>>
     \/ Lapse /\ UNCHANGED vars
  /\ UNCHANGED <<recent, logged, origin, about, reopened, crowd>>

(* A restart cuts every callback short, wherever it is.                     *)
RestartAll ==
  /\ Restart \/ (lapses < MaxLapses /\ Evaluating # {} /\ (\A p \in Procs : IsIdle(p)) /\ UNCHANGED vars)
  /\ eval' = [k \in Ticks |-> NotEvaluating]
  /\ lapses' = lapses + Cardinality(Evaluating)
  /\ UNCHANGED <<recent, logged, origin, about, reopened, crowd>>

(* An approval of the queue: the status is written whatever it was.         *)
Decide(a) ==
  /\ AdminStarts(a)
  /\ reopened' = reopened \cup {t \in Tasks : status[t] \notin OPEN_TASK_STATUSES /\ status'[t] = "approved"}
  /\ UNCHANGED <<eval, recent, logged, origin, about, crowd, lapses>>

(* The rest of the queue; rows are inserted by others too.                  *)
QueueStep ==
  \/ RowChanges
  \/ \E a \in Admins : AdminContinues(a) \/ RequestFails(a)
  \/ \E k \in Ticks : TickContinues(k) \/ TickCatch(k) \/ TickAborts(k)
  \/ \E p \in Procs : DealCatch(p)

RuleStep(k) ==
  \/ BeginEvaluate(k) \/ AskRule(k) \/ AskTarget(k) \/ InsertTask(k) \/ LoadTask(k) \/ LogTrigger(k) \/ StampRule(k)
  \/ EvaluationFails(k) \/ LogError(k) \/ AbandonRules(k)
  \/ TakeUp(k)

RuleNext ==
  \/ \E k \in Ticks : RuleStep(k)
  \/ \E r \in Rules : Elapse(r)
  \/ \E a \in Admins : Decide(a)
  \/ QueueStep /\ UNCHANGED ruleOnly
  \/ RestartAll

RuleSpec == RuleInit /\ [][RuleNext]_<<vars, ruleOnly>>

-----------------------------------------------------------------------------
(* Properties.                                                              *)

Waiting == {t \in Tasks \ reopened : status[t] \in OPEN_TASK_STATUSES}

(* A rule has one row that waits (rows approved a second time apart), and   *)
(* one more only for each further callback that evaluated the rules at the  *)
(* same time, or for each evaluation that was cut short: the code adds to   *)
(* the duplicates of NeverADuplicate no others.                             *)
OneWaitingPerRule ==
  \A r \in Rules : Cardinality({t \in Waiting : origin[t] = r}) <= crowd + lapses

(* "Don't queue a second PO for a vendor that already has one awaiting      *)
(* approval/execution": about one thing the rules have one row waiting,     *)
(* whatever rules and errors there are; only callbacks that overlap, as in  *)
(* NeverADuplicate, queue another.  A row whose taskData an admin has       *)
(* edited no longer counts.                                                 *)
OneWaitingPerTarget ==
  \A e \in Targets : Cardinality({t \in Waiting : about[t] = e /\ data[t] = 0}) <= crowd

(* What documents and comments say, and the code does not do.               *)

(* "Evaluation creates one pending task and never a duplicate"              *)
(* (docs/PROCESS_FLOWS.md), and evaluateRules on its check for an open row: *)
(* without it "every scheduler cycle would otherwise create a duplicate     *)
(* task for the same condition".  A rule never has two rows that wait.      *)
NeverADuplicate == \A r \in Rules : Cardinality({t \in Waiting : origin[t] = r}) <= 1
=============================================================================
