----------------------------- MODULE ProjectTasks -----------------------------
(***************************************************************************)
(* A project task that is handed to the agent and taken back, next to the  *)
(* agent queue: taskAgentBridge.ts and the task procedures of              *)
(* routers/projects.ts, composed with AgentTasks.  Handing it over inserts *)
(* a row of the queue and links it; the status of the row is written back  *)
(* to the task by whoever changed it, and by every read of a project page. *)
(* Requests of project members are processes of their own among Admins:    *)
(* what they do to the queue are steps of AgentTasks.                      *)
(***************************************************************************)
EXTENDS AgentTasks

CONSTANTS
  Members,       \* project requests and write-backs that can be in flight at once
  MaxVisits,     \* bound on those requests
  MaxCardEdits   \* bound on the statuses written to the project task by hand

ASSUME MembersAssumption ==
  Members \subseteq Admins /\ IsFiniteSet(Members) /\ MaxCardEdits \in Nat /\ MaxVisits \in Nat

VARIABLES
  card,    \* the projectTasks row: status, assigneeType and assigneeAgentTaskId
  desk,    \* desk[m]: next call of the request in slot m, and what it has read
  handed,  \* the rows of the queue whose relatedEntity is this task
  visits,  \* requests so far
  edits,   \* statuses written by hand so far
  told     \* history: told[t]: times the project was notified of the end of t

projVars == <<vars, card, desk, handed, visits, edits, told>>

CardStatus == {"todo", "in_progress", "review", "completed", "cancelled", "deleted"}
Closed == {"completed", "cancelled"}
Owner == {"human", "agent"}

(* check, assign, insert: assignTaskToAgent; hand: the end of               *)
(* reassignProjectTaskToHuman; cancel, cancelling: cancelAgentTaskIfOpen,   *)
(* and then on to `then'; card, agent, write, notify: the write-back.       *)
DeskPC == {"idle", "check", "assign", "insert", "take", "hand", "cancel", "cancelling",
           "card", "agent", "write", "notify"}
NoCard == [status |-> "todo", owner |-> "human", link |-> NoTask]
(* There is no project task (any more).                                     *)
Gone == [NoCard EXCEPT !.status = "deleted"]
IdleDesk == [pc |-> "idle", then |-> "idle", task |-> NoTask, seen |-> NoCard, outcome |-> "none"]

CardType == [status : CardStatus, owner : Owner, link : Tasks \cup {NoTask}]
DeskType == [pc : DeskPC, then : {"idle", "insert", "hand"}, task : Tasks \cup {NoTask},
             seen : CardType, outcome : Live \cup {"none"}]

ProjTypeOK ==
  /\ TypeOK
  /\ card \in CardType
  /\ desk \in [Members -> DeskType]
  /\ handed \subseteq Tasks
  /\ visits \in Nat
  /\ edits \in Nat
  /\ told \in [Tasks -> Nat]

ProjInit ==
  /\ Init
  /\ card \in {NoCard, Gone}
  /\ desk = [m \in Members |-> IdleDesk]
  /\ handed = {}
  /\ visits = 0
  /\ edits = 0
  /\ told = [t \in Tasks |-> 0]

Free(m) == desk[m] = IdleDesk
Visit(m) == Free(m) /\ visits < MaxVisits /\ visits' = visits + 1
Desk(m, d) == desk' = [desk EXCEPT ![m] = d]
Turns(m, pc) == Desk(m, [desk[m] EXCEPT !.pc = pc])
(* UPDATE ... WHERE id: a deleted task is not matched.                      *)
SetCard(c) == card' = IF card.status = "deleted" THEN card ELSE c
HeldBy(t) == card.owner = "agent" /\ card.link = t

-----------------------------------------------------------------------------
(* assignTaskToAgent.                                                       *)

(* It refuses a closed task, and one whose agent row is still open ...      *)
BeginAssign(m) ==
  /\ Visit(m)
  /\ card.status \notin Closed \cup {"deleted"}
  /\ Desk(m, IF card.owner = "agent" /\ card.link # NoTask
             THEN [IdleDesk EXCEPT !.pc = "check", !.task = card.link]
             ELSE [IdleDesk EXCEPT !.pc = "assign"])
  /\ UNCHANGED <<vars, card, handed, edits, told>>

CheckOpen(m) ==
  /\ desk[m].pc = "check"
  /\ Desk(m, IF status[desk[m].task] \in OpenAgentStatuses THEN IdleDesk ELSE [IdleDesk EXCEPT !.pc = "assign"])
  /\ UNCHANGED <<vars, card, handed, visits, edits, told>>

(* ... assignProjectTaskToAgent reads the link again, to cancel its row ... *)
ReadLink(m) ==
  /\ desk[m].pc = "assign"
  /\ Desk(m, IF card.status = "deleted" THEN IdleDesk
             ELSE IF card.link = NoTask THEN [IdleDesk EXCEPT !.pc = "insert"]
             ELSE [IdleDesk EXCEPT !.pc = "cancel", !.then = "insert", !.task = card.link])
  /\ UNCHANGED <<vars, card, handed, visits, edits, told>>

(* ... and inserts and links a new row in one transaction, pending or, for  *)
(* an admin who says so, approved.                                          *)
InsertRow(m) ==
  /\ desk[m].pc = "insert"
  /\ \E t \in Errands :
       /\ \/ Create(t) /\ SetCard([status |-> "review", owner |-> "agent", link |-> t])
          \/ CreateApproved(t) /\ SetCard([status |-> "in_progress", owner |-> "agent", link |-> t])
       /\ handed' = handed \cup {t}
  /\ Desk(m, IdleDesk)
  /\ UNCHANGED <<visits, edits, told>>

(* cancelAgentTaskIfOpen.                                                   *)
ReadOpenRow(m) ==
  /\ desk[m].pc = "cancel"
  /\ \/ BeginCancel(m, desk[m].task) /\ Turns(m, "cancelling")
     \/ status[desk[m].task] \notin OpenAgentStatuses /\ Turns(m, desk[m].then) /\ UNCHANGED vars
  /\ UNCHANGED <<card, handed, visits, edits, told>>

CancelRow(m) ==
  /\ desk[m].pc = "cancelling"
  /\ WriteCancel(m)
  /\ Turns(m, desk[m].then)
  /\ UNCHANGED <<card, handed, visits, edits, told>>

(* reassignProjectTaskToHuman (unassignFromAgent refuses a task a person    *)
(* holds; assignTasks does not look) reads the task ...                     *)
TakeBack(m) ==
  /\ Visit(m)
  /\ card.status # "deleted"
  /\ Desk(m, [IdleDesk EXCEPT !.pc = IF card.link = NoTask THEN "hand" ELSE "cancel",
                              !.then = "hand", !.task = card.link, !.seen = card])
  /\ UNCHANGED <<vars, card, handed, edits, told>>

(* ... and, after the cancellation, writes the status it follows from.      *)
HandToHuman(m) ==
  LET seen == desk[m].seen
      unfinished == seen.owner = "agent" /\ seen.status \in {"review", "in_progress"}
  IN
  /\ desk[m].pc = "hand"
  /\ SetCard([status |-> IF unfinished THEN "todo" ELSE seen.status, owner |-> "human", link |-> NoTask])
  /\ Desk(m, IdleDesk)
  /\ UNCHANGED <<vars, handed, visits, edits, told>>

-----------------------------------------------------------------------------
(* The write-back.  It follows every decision and every record of an        *)
(* outcome, after the log writes of that handler, and reconciles before     *)
(* every read of a project page: it may begin at any time.                  *)

(* syncAgentStatusToProjectTask reads the row, then the task ...            *)
BeginSync(m) ==
  /\ Visit(m)
  /\ \E t \in handed :
       /\ status[t] \in Live
       /\ Desk(m, [IdleDesk EXCEPT !.pc = "card", !.task = t, !.outcome = status[t]])
  /\ UNCHANGED <<vars, card, handed, edits, told>>

(* ... reconcileAgentLinkedTasks the task, then the row.                    *)
BeginReconcile(m) ==
  /\ Visit(m)
  /\ card.status # "deleted"
  /\ card.owner = "agent" /\ card.link # NoTask
  /\ Desk(m, [IdleDesk EXCEPT !.pc = "agent", !.task = card.link, !.seen = card])
  /\ UNCHANGED <<vars, card, handed, edits, told>>

(* Mutant: the word of the queue for a row that waits.                      *)
ShowsWaiting(outcome) ==
  CASE outcome = "pending_approval" -> "pending_approval"
    [] outcome \in {"approved", "in_progress"} -> "in_progress"
    [] outcome = "completed" -> "completed"
    [] OTHER -> "todo"

(* What a task shows while its row is in that status.                       *)
Shows(outcome) ==
  CASE outcome = "pending_approval" -> "review"
    [] outcome \in {"approved", "in_progress"} -> "in_progress"
    [] outcome = "completed" -> "completed"
    [] OTHER -> "todo"

(* applyAgentStatus leaves a task alone that the row does not hold, that a  *)
(* person has closed, or that shows the status already.                     *)
Applies(t, outcome, seen) ==
  /\ seen.owner = "agent" /\ seen.link = t
  /\ seen.status \notin Closed \cup {"deleted"}
  /\ outcome \in OpenAgentStatuses => seen.status # Shows(outcome)

ReadCard(m) ==
  LET t == desk[m].task IN
  /\ desk[m].pc = "card"
  /\ IF Applies(t, desk[m].outcome, card) THEN Turns(m, "write") ELSE Desk(m, IdleDesk)
  /\ UNCHANGED <<vars, card, handed, visits, edits, told>>

ReadRow(m) ==
  LET t == desk[m].task IN
  /\ desk[m].pc = "agent"
  /\ Desk(m, IF status[t] \in Live /\ Applies(t, status[t], desk[m].seen)
             THEN [IdleDesk EXCEPT !.pc = "write", !.task = t, !.outcome = status[t]]
             ELSE IdleDesk)
  /\ UNCHANGED <<vars, card, handed, visits, edits, told>>

(* Mutant: the condition forgets which row the task is linked to.           *)
StillOpen(t) == card.owner = "agent" /\ card.status \notin Closed \cup {"deleted"}

(* stillOwned, the condition of the write.                                  *)
StillOwned(t) == HeldBy(t) /\ card.status \notin Closed \cup {"deleted"}

(* Mutant: the number of written rows is not looked at.                     *)
WriteBackUnnoticed(m) ==
  LET t == desk[m].task
      outcome == desk[m].outcome
      ends == outcome \notin OpenAgentStatuses
  IN
  /\ desk[m].pc = "write"
  /\ card' = IF StillOwned(t)
             THEN [card EXCEPT !.status = Shows(outcome),
                               !.owner = IF ends /\ outcome # "completed" THEN "human" ELSE @]
             ELSE card
  /\ IF ends THEN Turns(m, "notify") ELSE Desk(m, IdleDesk)
  /\ UNCHANGED <<vars, handed, visits, edits, told>>

WriteBack(m) ==
  LET t == desk[m].task
      outcome == desk[m].outcome
      ends == outcome \notin OpenAgentStatuses
  IN
  /\ desk[m].pc = "write"
  /\ \/ /\ StillOwned(t)
        /\ card' = [card EXCEPT !.status = Shows(outcome),
                                !.owner = IF ends /\ outcome # "completed" THEN "human" ELSE @]
        /\ IF ends THEN Turns(m, "notify") ELSE Desk(m, IdleDesk)
     \/ /\ ~StillOwned(t)
        /\ Desk(m, IdleDesk)
        /\ UNCHANGED card
  /\ UNCHANGED <<vars, handed, visits, edits, told>>

Notify(m) ==
  /\ desk[m].pc = "notify"
  /\ told' = [told EXCEPT ![desk[m].task] = @ + 1]
  /\ Desk(m, IdleDesk)
  /\ UNCHANGED <<vars, card, handed, visits, edits>>

-----------------------------------------------------------------------------
(* updateTask writes any status.                                            *)
EditCard ==
  /\ edits < MaxCardEdits
  /\ card.status # "deleted"
  /\ \E s \in CardStatus \ {card.status, "deleted"} : card' = [card EXCEPT !.status = s]
  /\ edits' = edits + 1
  /\ UNCHANGED <<vars, desk, handed, visits, told>>

(* deleteTask; deleting the project deletes its tasks too.                  *)
DeleteCard ==
  /\ card.status # "deleted"
  /\ card' = [card EXCEPT !.status = "deleted"]
  /\ UNCHANGED <<vars, desk, handed, visits, edits, told>>

(* An error ends a request, or leaves the write-back undone.                *)
DeskFails(m) ==
  /\ ~Free(m)
  /\ IF desk[m].pc = "cancelling" THEN RequestFails(m) ELSE UNCHANGED vars
  /\ Desk(m, IdleDesk)
  /\ UNCHANGED <<card, handed, visits, edits, told>>

RestartAll ==
  /\ Restart
  /\ desk' = [m \in Members |-> IdleDesk]
  /\ UNCHANGED <<card, handed, visits, edits, told>>

(* The queue: rows from elsewhere, decisions, executions, ticks, deletions. *)
QueueStep ==
  \/ RowChanges
  \/ \E a \in Admins \ Members :
       \/ \E t \in Tasks : Approve(a, t) \/ BeginUpdate(a, t) \/ BeginExecute(a, t) \/ BeginInline(a, t)
       \/ AdminContinues(a) \/ RequestFails(a)
  \/ \E k \in Ticks : TickRead(k) \/ TickContinues(k) \/ TickCatch(k) \/ TickAborts(k)

MemberStep(m) ==
  \/ BeginAssign(m) \/ CheckOpen(m) \/ ReadLink(m) \/ InsertRow(m)
  \/ ReadOpenRow(m) \/ CancelRow(m) \/ TakeBack(m) \/ HandToHuman(m)
  \/ BeginSync(m) \/ BeginReconcile(m) \/ ReadCard(m) \/ ReadRow(m) \/ WriteBack(m) \/ Notify(m)
  \/ DeskFails(m)

ProjNext ==
  \/ QueueStep /\ UNCHANGED <<card, desk, handed, visits, edits, told>>
  \/ \E m \in Members : MemberStep(m)
  \/ EditCard
  \/ DeleteCard
  \/ RestartAll

ProjSpec == ProjInit /\ [][ProjNext]_projVars

-----------------------------------------------------------------------------
(* Properties.                                                              *)

(* "concurrent callers cannot notify twice": the end of a row is told once, *)
(* and once more for each time somebody set the task's status by hand.      *)
ToldOnce == \A t \in Tasks : told[t] <= 1 + edits

(* A task that nobody edited by hand and that shows as completed by the     *)
(* agent is linked to a row that the agent has executed: no write-back of a *)
(* row that was superseded meanwhile lands on it.                           *)
CompletedWasRun ==
  edits = 0 /\ card.owner = "agent" /\ card.status = "completed" => runs[card.link] >= 1
=============================================================================
