------------------------- MODULE ProjectTasksProofs -------------------------
(***************************************************************************)
(* Proofs about ProjectTasks for any number of rows and requests.  To the  *)
(* queue the requests of the projects are requests like others, so what is *)
(* proved of AgentTasks holds next to them.                                *)
(***************************************************************************)
EXTENDS ProjectTasks, AgentTasksProofs, FiniteSetTheorems

USE MembersAssumption

(* The steps of a request that work on a row of the queue.                 *)
WithRow == {"check", "cancel", "cancelling", "card", "agent", "write", "notify"}

Linked ==
  /\ handed \subseteq Errands
  /\ card.link \in handed \cup {NoTask}
  /\ card.owner = "agent" => card.link \in handed
  /\ \A m \in Members :
       /\ desk[m].task \in handed \cup {NoTask}
       /\ desk[m].pc \in WithRow => desk[m].task \in handed

(* What a step of ProjectTasks does to the queue.                          *)
LEMMA QueueStepIsNext == QueueStep => Next
<1>1. ASSUME NEW a \in Admins \ Members, NEW t \in Tasks,
             Approve(a, t) \/ BeginUpdate(a, t) \/ BeginExecute(a, t) \/ BeginInline(a, t)
      PROVE  Next
  <2>1. AdminStarts(a)
    BY <1>1, Zenon DEF AdminStarts
  <2>. QED  BY <2>1, Zenon DEF Next
<1>2. ASSUME NEW a \in Admins \ Members, AdminContinues(a) \/ RequestFails(a)
      PROVE  Next
  BY <1>2, Zenon DEF Next, Failures
<1>3. ASSUME NEW k \in Ticks, TickRead(k) \/ TickContinues(k) \/ TickCatch(k) \/ TickAborts(k)
      PROVE  Next
  BY <1>3, Zenon DEF Next, Failures
<1>. QED  BY <1>1, <1>2, <1>3, Zenon DEF QueueStep, Next

LEMMA StepsOfQueue ==
  ASSUME ProjTypeOK, Linked, [ProjNext]_projVars
  PROVE  [Next]_vars
<1>1. CASE QueueStep
  BY <1>1, QueueStepIsNext
<1>2. ASSUME NEW m \in Members, MemberStep(m)
      PROVE  [Next]_vars
  <2>. m \in Admins
    OBVIOUS
  <2>1. CASE InsertRow(m)
    <3>1. PICK t \in Errands : Create(t) \/ CreateApproved(t)
      BY <2>1, Zenon DEF InsertRow
    <3>2. t \in Tasks
      BY TasksAssumption
    <3>. QED  BY <3>1, <3>2, Zenon DEF Next, RowChanges
  <2>2. CASE ReadOpenRow(m)
    <3>1. BeginCancel(m, desk[m].task) \/ UNCHANGED vars
      BY <2>2, Zenon DEF ReadOpenRow
    <3>2. desk[m].task \in Tasks
      BY <2>2, TasksAssumption DEF ReadOpenRow, Linked, WithRow
    <3>3. BeginCancel(m, desk[m].task) => AdminStarts(m)
      BY <3>2, Zenon DEF AdminStarts
    <3>. QED  BY <3>1, <3>3, Zenon DEF Next
  <2>3. CASE CancelRow(m)
    BY <2>3, Zenon DEF CancelRow, Next, AdminContinues
  <2>4. CASE DeskFails(m)
    <3>1. RequestFails(m) \/ UNCHANGED vars
      BY <2>4, Zenon DEF DeskFails
    <3>. QED  BY <3>1, Zenon DEF Next, Failures
  <2>5. CASE BeginAssign(m) \/ CheckOpen(m) \/ ReadLink(m) \/ TakeBack(m) \/ HandToHuman(m)
             \/ BeginSync(m) \/ BeginReconcile(m) \/ ReadCard(m) \/ ReadRow(m) \/ WriteBack(m) \/ Notify(m)
    BY <2>5, Zenon DEF BeginAssign, CheckOpen, ReadLink, TakeBack, HandToHuman,
             BeginSync, BeginReconcile, ReadCard, ReadRow, WriteBack, Notify
  <2>. QED  BY <1>2, <2>1, <2>2, <2>3, <2>4, <2>5, Zenon DEF MemberStep
<1>3. CASE EditCard \/ DeleteCard
  BY <1>3, Zenon DEF EditCard, DeleteCard
<1>4. CASE RestartAll
  BY <1>4, Zenon DEF RestartAll, Next, Failures
<1>5. CASE UNCHANGED projVars
  BY <1>5, Zenon DEF projVars
<1>. QED  BY <1>1, <1>2, <1>3, <1>4, <1>5, Zenon DEF ProjNext

LEMMA QueueType ==
  ASSUME TypeOK, [Next]_vars
  PROVE  TypeOK'
<1>1. CASE Next
  <2>1. RowsOK' /\ HandlersOK'
    BY <1>1, RowsType, HandlersType
  <2>. QED  BY <2>1 DEF RowsOK, HandlersOK, TypeOK
<1>2. CASE UNCHANGED vars
  BY <1>2 DEF TypeOK, vars
<1>. QED  BY <1>1, <1>2

-----------------------------------------------------------------------------
(* Types and links.                                                         *)
DeskOK ==
  /\ card \in CardType
  /\ desk \in [Members -> DeskType]
  /\ handed \subseteq Tasks
  /\ visits \in Nat
  /\ edits \in Nat
  /\ told \in [Tasks -> Nat]

(* A slot that gets a record d of the right type, about a row it may work on. *)
Fits(d, rows) ==
  /\ d \in DeskType
  /\ d.task \in rows \cup {NoTask}
  /\ d.pc \in WithRow => d.task \in rows

LEMMA NewDesk ==
  ASSUME ProjTypeOK, Linked, NEW m \in Members, NEW d, Desk(m, d),
         handed \subseteq handed', Fits(d, handed')
  PROVE  /\ desk' \in [Members -> DeskType]
         /\ \A n \in Members : /\ desk'[n].task \in handed' \cup {NoTask}
                               /\ desk'[n].pc \in WithRow => desk'[n].task \in handed'
<1>1. desk \in [Members -> DeskType] /\ desk' = [desk EXCEPT ![m] = d]
  BY DEF ProjTypeOK, Desk
<1>2. desk' \in [Members -> DeskType] /\ desk'[m] = d /\ \A n \in Members \ {m} : desk'[n] = desk[n]
  BY <1>1 DEF Fits
<1>. QED  BY <1>2 DEF Fits, Linked

LEMMA IdleFits == \A rows : Fits(IdleDesk, rows) /\ IdleDesk \in DeskType /\ NoCard \in CardType
BY TasksAssumption DEF Fits, IdleDesk, DeskType, DeskPC, NoCard, CardType, CardStatus, Owner, WithRow

LEMMA StartFits ==
  ASSUME NEW rows, NEW pc \in DeskPC \ WithRow
  PROVE  Fits([IdleDesk EXCEPT !.pc = pc], rows)
BY IdleFits DEF Fits, IdleDesk, DeskType

LEMMA RowFits ==
  ASSUME NEW rows \in SUBSET Tasks, NEW pc \in DeskPC, NEW then \in {"idle", "insert", "hand"}, NEW t \in rows \cup {NoTask},
         NEW seen \in CardType, NEW outcome \in Live \cup {"none"}, pc \in WithRow => t \in rows
  PROVE  Fits([IdleDesk EXCEPT !.pc = pc, !.then = then, !.task = t, !.seen = seen, !.outcome = outcome], rows)
BY DEF Fits, IdleDesk, DeskType

LEMMA TurnFits ==
  ASSUME NEW d \in DeskType, NEW pc \in DeskPC, NEW rows, d.task \in rows \cup {NoTask}, pc \in WithRow => d.task \in rows
  PROVE  Fits([d EXCEPT !.pc = pc], rows)
BY DEF Fits, DeskType

(* What the steps leave alone or change on their own account.              *)
Frame == visits' \in Nat /\ edits' \in Nat /\ told' \in [Tasks -> Nat]
CardOK(c, rows) ==
  /\ c \in CardType
  /\ c.link \in rows \cup {NoTask}
  /\ c.owner = "agent" => c.link \in rows

LEMMA MemberFrame ==
  ASSUME ProjTypeOK, NEW m \in Members, MemberStep(m)
  PROVE  Frame
<1>0. visits \in Nat /\ edits \in Nat /\ told \in [Tasks -> Nat]
  BY DEF ProjTypeOK
<1>. USE <1>0 DEF Frame
<1>1. CASE Notify(m)
  <2>1. told' = [told EXCEPT ![desk[m].task] = @ + 1] /\ visits' = visits /\ edits' = edits
    BY <1>1 DEF Notify
  <2>2. CASE desk[m].task \in Tasks
    BY <2>1, <2>2
  <2>3. CASE desk[m].task \notin Tasks
    <3>1. told' = told
      BY <2>1, <2>3
    <3>. QED  BY <2>1, <3>1
  <2>. QED  BY <2>2, <2>3
<1>2. CASE BeginAssign(m) \/ TakeBack(m) \/ BeginSync(m) \/ BeginReconcile(m)
  <2>1. visits' = visits + 1 /\ edits' = edits /\ told' = told
    BY <1>2, Zenon DEF BeginAssign, TakeBack, BeginSync, BeginReconcile, Visit
  <2>. QED  BY <2>1
<1>3. CASE CheckOpen(m) \/ ReadLink(m) \/ InsertRow(m) \/ ReadOpenRow(m) \/ CancelRow(m) \/ HandToHuman(m)
           \/ ReadCard(m) \/ ReadRow(m) \/ WriteBack(m) \/ DeskFails(m)
  BY <1>3, Zenon DEF CheckOpen, ReadLink, InsertRow, ReadOpenRow, CancelRow, HandToHuman,
           ReadCard, ReadRow, WriteBack, DeskFails
<1>. QED  BY <1>1, <1>2, <1>3, Zenon DEF MemberStep

LEMMA MemberCard ==
  ASSUME ProjTypeOK, Linked, NEW m \in Members, MemberStep(m)
  PROVE  handed \subseteq handed' /\ handed' \subseteq Errands /\ CardOK(card', handed')
<1>0. CardOK(card, handed) /\ handed \subseteq Errands
  BY DEF ProjTypeOK, Linked, CardOK
<1>. USE <1>0
<1>1. CASE InsertRow(m)
  <2>1. PICK t \in Errands : /\ \/ SetCard([status |-> "review", owner |-> "agent", link |-> t])
                                \/ SetCard([status |-> "in_progress", owner |-> "agent", link |-> t])
                             /\ handed' = handed \cup {t}
    BY <1>1, Zenon DEF InsertRow
  <2>. QED  BY <2>1, TasksAssumption DEF SetCard, CardOK, CardType, CardStatus, Owner
<1>2. CASE HandToHuman(m)
  <2>1. desk[m].seen \in CardType
    BY DEF ProjTypeOK, DeskType
  <2>. QED  BY <1>2, <2>1 DEF HandToHuman, SetCard, CardOK, CardType, CardStatus, Owner
<1>3. CASE WriteBack(m)
  <2>1. PICK st \in CardStatus, ow \in Owner :
          card' = card \/ (card' = [card EXCEPT !.status = st, !.owner = ow] /\ card.owner = "agent")
    BY <1>3 DEF WriteBack, StillOwned, HeldBy, CardOK, CardType, CardStatus, Owner, Shows
  <2>2. handed' = handed
    BY <1>3, Zenon DEF WriteBack
  <2>3. ASSUME card' = [card EXCEPT !.status = st, !.owner = ow], card.owner = "agent"
        PROVE  CardOK(card', handed)
    <3>1. card' \in CardType /\ card'.link = card.link
      BY <2>3 DEF CardOK, CardType
    <3>. QED  BY <3>1, <2>3 DEF CardOK
  <2>. QED  BY <2>1, <2>2, <2>3
<1>4. CASE BeginAssign(m) \/ CheckOpen(m) \/ ReadLink(m) \/ ReadOpenRow(m) \/ CancelRow(m) \/ TakeBack(m)
           \/ BeginSync(m) \/ BeginReconcile(m) \/ ReadCard(m) \/ ReadRow(m) \/ Notify(m) \/ DeskFails(m)
  <2>1. card' = card /\ handed' = handed
    BY <1>4, Zenon DEF BeginAssign, CheckOpen, ReadLink, ReadOpenRow, CancelRow, TakeBack,
           BeginSync, BeginReconcile, ReadCard, ReadRow, Notify, DeskFails
  <2>. QED  BY <2>1
<1>. QED  BY <1>1, <1>2, <1>3, <1>4, Zenon DEF MemberStep

(* Whatever a step of m does, it leaves its slot with a record that fits.  *)
LEMMA MemberDesk ==
  ASSUME ProjTypeOK, Linked, NEW m \in Members, MemberStep(m)
  PROVE  \E d : Desk(m, d) /\ Fits(d, handed')
<1>0. /\ handed \subseteq handed' /\ handed' \in SUBSET Tasks
      /\ desk[m] \in DeskType /\ desk[m].then \in {"idle", "insert", "hand"}
      /\ desk[m].task \in handed \cup {NoTask}
      /\ desk[m].pc \in WithRow => desk[m].task \in handed
      /\ card \in CardType /\ CardOK(card, handed) /\ desk[m].seen \in CardType
  BY MemberCard, TasksAssumption DEF ProjTypeOK, Linked, DeskType, CardOK
<1>. USE <1>0
<1>1. CASE BeginAssign(m)
  <2>1. Fits([IdleDesk EXCEPT !.pc = "assign"], handed')
    BY StartFits DEF DeskPC, WithRow
  <2>2. card.link # NoTask => Fits([IdleDesk EXCEPT !.pc = "check", !.task = card.link], handed')
    BY IdleFits DEF Fits, IdleDesk, DeskType, CardOK, DeskPC, CardType
  <2>. QED  BY <1>1, <2>1, <2>2, Zenon DEF BeginAssign
<1>2. CASE CheckOpen(m)
  <2>1. Fits([IdleDesk EXCEPT !.pc = "assign"], handed')
    BY StartFits DEF DeskPC, WithRow
  <2>. QED  BY <1>2, <2>1, IdleFits, Zenon DEF CheckOpen
<1>3. CASE ReadLink(m)
  <2>1. Fits([IdleDesk EXCEPT !.pc = "insert"], handed')
    BY StartFits DEF DeskPC, WithRow
  <2>2. card.link # NoTask => Fits([IdleDesk EXCEPT !.pc = "cancel", !.then = "insert", !.task = card.link], handed')
    BY IdleFits DEF Fits, IdleDesk, DeskType, CardOK, DeskPC, CardType
  <2>. QED  BY <1>3, <2>1, <2>2, IdleFits, Zenon DEF ReadLink
<1>4. CASE InsertRow(m) \/ HandToHuman(m) \/ Notify(m) \/ DeskFails(m)
  <2>1. Desk(m, IdleDesk)
    BY <1>4, Zenon DEF InsertRow, HandToHuman, Notify, DeskFails
  <2>. QED  BY <2>1, IdleFits
<1>5. CASE ReadOpenRow(m) \/ CancelRow(m)
  <2>1. \E pc \in {"cancelling", "idle", "insert", "hand"} : Turns(m, pc)
    BY <1>5 DEF ReadOpenRow, CancelRow
  <2>2. desk[m].task \in handed
    BY <1>5 DEF ReadOpenRow, CancelRow, WithRow
  <2>3. ASSUME NEW pc \in {"cancelling", "idle", "insert", "hand"}
        PROVE  Fits([desk[m] EXCEPT !.pc = pc], handed')
    BY <2>2, TurnFits DEF DeskPC
  <2>. QED  BY <2>1, <2>3, Zenon DEF Turns
<1>6. CASE TakeBack(m)
  <2>1. Fits([IdleDesk EXCEPT !.pc = IF card.link = NoTask THEN "hand" ELSE "cancel",
                              !.then = "hand", !.task = card.link, !.seen = card], handed')
    BY IdleFits, ZenonT(40) DEF Fits, IdleDesk, DeskType, CardOK, DeskPC, WithRow, CardType
  <2>. QED  BY <1>6, <2>1, Zenon DEF TakeBack
<1>7. CASE BeginSync(m)
  <2>1. PICK t \in handed : status[t] \in Live /\ Desk(m, [IdleDesk EXCEPT !.pc = "card", !.task = t, !.outcome = status[t]])
    BY <1>7, Zenon DEF BeginSync
  <2>2. Fits([IdleDesk EXCEPT !.pc = "card", !.task = t, !.outcome = status[t]], handed')
    BY <2>1, IdleFits DEF Fits, IdleDesk, DeskType, DeskPC
  <2>. QED  BY <2>1, <2>2, Zenon
<1>8. CASE BeginReconcile(m)
  <2>1. Fits([IdleDesk EXCEPT !.pc = "agent", !.task = card.link, !.seen = card], handed')
    BY <1>8, IdleFits DEF BeginReconcile, Fits, IdleDesk, DeskType, CardOK, DeskPC, CardType
  <2>. QED  BY <1>8, <2>1, Zenon DEF BeginReconcile
<1>9. CASE ReadCard(m) \/ WriteBack(m)
  <2>1. Desk(m, IdleDesk) \/ Turns(m, "write") \/ Turns(m, "notify")
    BY <1>9, Zenon DEF ReadCard, WriteBack
  <2>2. desk[m].task \in handed
    BY <1>9 DEF ReadCard, WriteBack, WithRow
  <2>3. Fits([desk[m] EXCEPT !.pc = "write"], handed') /\ Fits([desk[m] EXCEPT !.pc = "notify"], handed')
    BY <2>2, TurnFits DEF DeskPC
  <2>. QED  BY <2>1, <2>3, IdleFits, Zenon DEF Turns
<1>10. CASE ReadRow(m)
  <2>1. desk[m].task \in handed
    BY <1>10 DEF ReadRow, WithRow
  <2>2. status[desk[m].task] \in Live =>
          Fits([IdleDesk EXCEPT !.pc = "write", !.task = desk[m].task, !.outcome = status[desk[m].task]], handed')
    BY <2>1, IdleFits DEF Fits, IdleDesk, DeskType, DeskPC
  <2>. QED  BY <1>10, <2>2, IdleFits, Zenon DEF ReadRow
<1>. QED  BY <1>1, <1>2, <1>3, <1>4, <1>5, <1>6, <1>7, <1>8, <1>9, <1>10, Zenon DEF MemberStep

LEMMA MemberType ==
  ASSUME ProjTypeOK, Linked, NEW m \in Members, MemberStep(m)
  PROVE  DeskOK' /\ Linked'
<1>1. PICK d : Desk(m, d) /\ Fits(d, handed')
  BY MemberDesk
<1>2. handed \subseteq handed' /\ handed' \subseteq Errands /\ CardOK(card', handed') /\ Frame
  BY MemberCard, MemberFrame
<1>3. /\ desk' \in [Members -> DeskType]
      /\ \A n \in Members : /\ desk'[n].task \in handed' \cup {NoTask}
                            /\ desk'[n].pc \in WithRow => desk'[n].task \in handed'
  BY <1>1, <1>2, NewDesk
<1>. QED  BY <1>2, <1>3, TasksAssumption DEF DeskOK, Linked, CardOK, Frame

LEMMA ProjectType ==
  ASSUME ProjTypeOK, Linked, [ProjNext]_projVars
  PROVE  ProjTypeOK' /\ Linked'
<1>1. TypeOK'
  BY StepsOfQueue, QueueType DEF ProjTypeOK
<1>2. DeskOK' /\ Linked'
  <2>1. CASE UNCHANGED <<card, desk, handed, visits, edits, told>>
    BY <2>1 DEF ProjTypeOK, DeskOK, Linked
  <2>2. CASE \E m \in Members : MemberStep(m)
    BY <2>2, MemberType
  <2>3. CASE EditCard \/ DeleteCard
    <3>1. PICK s \in CardStatus : card' = [card EXCEPT !.status = s]
      BY <2>3 DEF EditCard, DeleteCard, CardStatus
    <3>2. card' \in CardType /\ card'.link = card.link /\ card'.owner = card.owner
      BY <3>1 DEF ProjTypeOK, CardType
    <3>3. UNCHANGED <<desk, handed, visits, told>> /\ edits' \in Nat
      BY <2>3 DEF EditCard, DeleteCard, ProjTypeOK
    <3>. QED  BY <3>2, <3>3 DEF ProjTypeOK, DeskOK, Linked
  <2>4. CASE RestartAll
    BY <2>4 DEF RestartAll, ProjTypeOK, DeskOK, Linked, DeskType, DeskPC, CardType, CardStatus, Owner, IdleDesk, NoCard, WithRow
  <2>. QED  BY <2>1, <2>2, <2>3, <2>4, Zenon DEF ProjNext, projVars
<1>. QED  BY <1>1, <1>2 DEF DeskOK, ProjTypeOK

LEMMA ProjectInitType == ProjInit => ProjTypeOK /\ Linked
BY InitType, TasksAssumption
   DEF ProjInit, ProjTypeOK, Linked, NoCard, Gone, CardType, CardStatus, Owner, IdleDesk, DeskType, DeskPC, WithRow

(* Every reachable state of the project task, of its requests and of the   *)
(* queue is well typed.                                                     *)
THEOREM ProjectTyped == ProjSpec => []ProjTypeOK
BY ProjectInitType, ProjectType, PTL DEF ProjSpec

(* To the queue the projects are requests like others: what is proved of   *)
(* the queue on its own holds next to them.                                 *)
THEOREM ProjectsUseTheQueue == ProjSpec => Spec
<1>1. ProjInit => Init
  BY DEF ProjInit
<1>. QED  BY <1>1, ProjectInitType, ProjectType, StepsOfQueue, PTL DEF ProjSpec, Spec

(* An errand handed over from a project is executed no more often than it  *)
(* was approved, however hand-overs, cancellations and write-backs         *)
(* interleave with the queue.                                               *)
THEOREM ProjectRunsAreApproved == ProjSpec => []OneRunPerApproval
BY ProjectsUseTheQueue, RunsAreApproved, PTL

-----------------------------------------------------------------------------
(* A row that was inserted stays inserted.                                  *)
LEMMA NoneStays ==
  ASSUME TypeOK, [Next]_vars, NEW t \in Tasks, status'[t] = "none"
  PROVE  status[t] = "none"
<1> USE DEF TypeOK, Status, Live, SetStatus
<1>1. CASE RowChanges
  BY <1>1 DEF RowChanges, Create, CreateApproved, Reject, BulkDelete
<1>2. ASSUME NEW a \in Admins, AdminStarts(a)
      PROVE  status[t] = "none"
  BY <1>2 DEF AdminStarts, Approve, BeginUpdate, BeginCancel, BeginExecute, BeginInline
<1>3. ASSUME NEW a \in Admins, AdminContinues(a)
      PROVE  status[t] = "none"
  BY <1>3 DEF AdminContinues, WriteUpdate, WriteCancel, WinClaim, LoseClaim, ClaimAgentTask,
              RunTask, LookUpDeal, CreateDeal, RecordOutcome, WriteLog, Outcome
<1>4. ASSUME NEW k \in Ticks, TickRead(k) \/ TickContinues(k)
      PROVE  status[t] = "none"
  BY <1>4 DEF TickRead, TickContinues, TickClaim, TickSkip, ClaimAgentTask,
              RunTask, LookUpDeal, CreateDeal, TickRecord, WriteLog, TickCatchWrite, Outcome
<1>5. CASE Failures \/ UNCHANGED vars
  <2>1. status' = status
    BY <1>5, Zenon DEF Failures, TickCatch, TickAborts, DealCatch, RequestFails, Restart, vars
  <2>. QED  BY <2>1
<1>. HIDE DEF TypeOK, SetStatus
<1>. QED  BY <1>1, <1>2, <1>3, <1>4, <1>5, Zenon DEF Next

(* The inductive invariant for ToldOnce: the times a row's end was told,   *)
(* the requests about to tell it, and the end that may still come (the row *)
(* is yet to be inserted, or holds the open task) are paid for by the one  *)
(* end of the row and by the edits.                                         *)
Telling(t) == {m \in Members : desk[m].pc = "notify" /\ desk[m].task = t}
MayEnd(t) == status[t] = "none" \/ StillOwned(t)
Due(t) == IF MayEnd(t) THEN 1 ELSE 0
ToldInv ==
  /\ \A t \in handed : status[t] # "none"
  /\ \A t \in Tasks : told[t] + Cardinality(Telling(t)) + Due(t) <= 1 + edits

LEMMA TellingFinite == \A t : IsFiniteSet(Telling(t)) /\ Cardinality(Telling(t)) \in Nat
BY FS_Subset, FS_CardinalityType DEF Telling

LEMMA TellingFinitePrime == \A t : IsFiniteSet(Telling(t)') /\ Cardinality(Telling(t)') \in Nat
BY FS_Subset, FS_CardinalityType DEF Telling

(* A step that begins to tell nothing, tells nothing and reopens nothing.   *)
LEMMA QuietStep ==
  ASSUME ProjTypeOK, ToldInv, NEW t \in Tasks,
         told' = told, edits' = edits, Telling(t)' \subseteq Telling(t), MayEnd(t)' => MayEnd(t)
  PROVE  told'[t] + Cardinality(Telling(t)') + Due(t)' <= 1 + edits'
<1>1. Cardinality(Telling(t)') <= Cardinality(Telling(t))
  BY TellingFinite, FS_Subset
<1>. QED  BY <1>1, TellingFinite, TellingFinitePrime DEF ProjTypeOK, ToldInv, Due

LEMMA HandedInserted ==
  ASSUME ProjTypeOK, Linked, ToldInv, [ProjNext]_projVars
  PROVE  \A t \in handed' : status'[t] # "none"
<1>0. TypeOK /\ [Next]_vars
  BY StepsOfQueue DEF ProjTypeOK
<1>1. ASSUME NEW t \in handed
      PROVE  status'[t] # "none"
  BY <1>0, <1>1, NoneStays DEF ToldInv, ProjTypeOK
<1>2. ASSUME NEW m \in Members, InsertRow(m)
      PROVE  \A t \in handed' : status'[t] # "none"
  <2>1. PICK t \in Errands : (Create(t) \/ CreateApproved(t)) /\ handed' = handed \cup {t}
    BY <1>2, Zenon DEF InsertRow
  <2>2. status'[t] # "none"
    BY <2>1, <1>0, TasksAssumption DEF Create, CreateApproved, TypeOK
  <2>. QED  BY <1>1, <2>1, <2>2
<1>3. CASE handed' = handed
  BY <1>1, <1>3
<1>4. ASSUME NEW m \in Members, MemberStep(m), ~InsertRow(m)
      PROVE  handed' = handed
  BY <1>4, Zenon DEF MemberStep, BeginAssign, CheckOpen, ReadLink, ReadOpenRow, CancelRow, TakeBack, HandToHuman,
           BeginSync, BeginReconcile, ReadCard, ReadRow, WriteBack, Notify, DeskFails
<1>5. handed' = handed \/ \E m \in Members : InsertRow(m)
  BY <1>4, Zenon DEF ProjNext, projVars, EditCard, DeleteCard, RestartAll
<1>. QED  BY <1>2, <1>3, <1>5

(* The requests that do not tell.                                           *)
LEMMA QuietRequest ==
  ASSUME ProjTypeOK, Linked, ToldInv, NEW m \in Members, NEW t \in Tasks,
         MemberStep(m), ~Notify(m), ~(WriteBack(m) /\ Turns(m, "notify")), [Next]_vars
  PROVE  told' = told /\ edits' = edits /\ Telling(t)' \subseteq Telling(t) /\ (MayEnd(t)' => MayEnd(t))
<1>0. status'[t] = "none" => status[t] = "none"
  BY NoneStays DEF ProjTypeOK
<1>1. told' = told /\ edits' = edits
  BY Zenon DEF MemberStep, BeginAssign, CheckOpen, ReadLink, InsertRow, ReadOpenRow, CancelRow, TakeBack, HandToHuman,
           BeginSync, BeginReconcile, ReadCard, ReadRow, WriteBack, Notify, DeskFails, Visit
<1>2. Telling(t)' \subseteq Telling(t)
  <2>1. PICK d : Desk(m, d) /\ d.pc # "notify"
    <3>0. IdleDesk.pc # "notify"
      BY DEF IdleDesk
    <3>1. CASE BeginAssign(m) \/ CheckOpen(m) \/ ReadLink(m) \/ ReadRow(m)
      <4>1. PICK pc \in {"idle", "check", "assign", "insert", "cancel", "write"}, then \in {"idle", "insert"} :
              \E t1, outcome :
                \/ Desk(m, IdleDesk)
                \/ Desk(m, [IdleDesk EXCEPT !.pc = pc])
                \/ Desk(m, [IdleDesk EXCEPT !.pc = pc, !.task = t1])
                \/ Desk(m, [IdleDesk EXCEPT !.pc = pc, !.then = then, !.task = t1])
                \/ Desk(m, [IdleDesk EXCEPT !.pc = pc, !.task = t1, !.outcome = outcome])
        BY <3>1 DEF BeginAssign, CheckOpen, ReadLink, ReadRow
      <4>2. \A t1, outcome :
              /\ [IdleDesk EXCEPT !.pc = pc].pc = pc
              /\ [IdleDesk EXCEPT !.pc = pc, !.task = t1].pc = pc
              /\ [IdleDesk EXCEPT !.pc = pc, !.then = then, !.task = t1].pc = pc
              /\ [IdleDesk EXCEPT !.pc = pc, !.task = t1, !.outcome = outcome].pc = pc
        BY DEF IdleDesk
      <4>. QED  BY <4>1, <4>2, <3>0, ZenonT(40)
    <3>2. CASE TakeBack(m) \/ BeginSync(m) \/ BeginReconcile(m)
      <4>1. \E pc \in {"hand", "cancel", "card", "agent"} : \E t1, outcome :
               \/ Desk(m, [IdleDesk EXCEPT !.pc = pc, !.then = "hand", !.task = t1, !.seen = card])
               \/ Desk(m, [IdleDesk EXCEPT !.pc = pc, !.task = t1, !.outcome = outcome])
               \/ Desk(m, [IdleDesk EXCEPT !.pc = pc, !.task = t1, !.seen = card])
        BY <3>2 DEF TakeBack, BeginSync, BeginReconcile
      <4>2. \A pc, t1, outcome :
              /\ [IdleDesk EXCEPT !.pc = pc, !.then = "hand", !.task = t1, !.seen = card].pc = pc
              /\ [IdleDesk EXCEPT !.pc = pc, !.task = t1, !.outcome = outcome].pc = pc
              /\ [IdleDesk EXCEPT !.pc = pc, !.task = t1, !.seen = card].pc = pc
        BY DEF IdleDesk
      <4>. QED  BY <4>1, <4>2
    <3>4. CASE InsertRow(m) \/ HandToHuman(m) \/ DeskFails(m)
      BY <3>0, <3>4 DEF InsertRow, HandToHuman, DeskFails
    <3>3. CASE ReadOpenRow(m) \/ CancelRow(m) \/ ReadCard(m) \/ WriteBack(m)
      <4>1. Desk(m, IdleDesk) \/ \E pc \in {"cancelling", "idle", "insert", "hand", "write"} : Turns(m, pc)
        BY <3>3 DEF ReadOpenRow, CancelRow, ReadCard, WriteBack, ProjTypeOK, DeskType
      <4>2. \A pc \in DeskPC : [desk[m] EXCEPT !.pc = pc].pc = pc
        BY DEF ProjTypeOK, DeskType
      <4>3. ASSUME NEW pc \in {"cancelling", "idle", "insert", "hand", "write"}, Turns(m, pc)
            PROVE  Desk(m, [desk[m] EXCEPT !.pc = pc]) /\ [desk[m] EXCEPT !.pc = pc].pc # "notify"
        BY <4>2, <4>3 DEF Turns, DeskPC
      <4>. QED  BY <3>0, <4>1, <4>3
    <3>. QED  BY <3>1, <3>2, <3>3, <3>4, Zenon DEF MemberStep
  <2>2. desk' = [desk EXCEPT ![m] = d]
    BY <2>1 DEF Desk
  <2>. QED  BY <2>1, <2>2 DEF Telling, ProjTypeOK
<1>3. MayEnd(t)' => MayEnd(t)
  <2>1. CASE InsertRow(m)
    <3>1. PICK u \in Errands : /\ status[u] = "none"
                               /\ \/ SetCard([status |-> "review", owner |-> "agent", link |-> u])
                                  \/ SetCard([status |-> "in_progress", owner |-> "agent", link |-> u])
      BY <2>1, Zenon DEF InsertRow, Create, CreateApproved
    <3>. QED  BY <1>0, <3>1 DEF MayEnd, StillOwned, HeldBy, SetCard
  <2>2. CASE HandToHuman(m)
    BY <1>0, <2>2 DEF HandToHuman, SetCard, MayEnd, StillOwned, HeldBy
  <2>3. CASE WriteBack(m)
    <3>1. card' = card \/ (StillOwned(desk[m].task) /\ \E st, ow : card' = [card EXCEPT !.status = st, !.owner = ow])
      BY <2>3 DEF WriteBack
    <3>. QED  BY <1>0, <3>1 DEF MayEnd, StillOwned, HeldBy, ProjTypeOK, CardType
  <2>4. CASE card' = card
    BY <1>0, <2>4 DEF MayEnd, StillOwned, HeldBy
  <2>5. MemberStep(m) => InsertRow(m) \/ HandToHuman(m) \/ WriteBack(m) \/ card' = card
    BY Zenon DEF MemberStep, BeginAssign, CheckOpen, ReadLink, ReadOpenRow, CancelRow, TakeBack,
           BeginSync, BeginReconcile, ReadCard, ReadRow, Notify, DeskFails
  <2>. QED  BY <2>1, <2>2, <2>3, <2>4, <2>5
<1>. QED  BY <1>1, <1>2, <1>3

LEMMA ToldStep ==
  ASSUME ProjTypeOK, Linked, ToldInv, [ProjNext]_projVars
  PROVE  ToldInv'
<1>0. [Next]_vars /\ \A t \in handed' : status'[t] # "none"
  BY StepsOfQueue, HandedInserted
<1>. SUFFICES ASSUME NEW t \in Tasks
              PROVE  told'[t] + Cardinality(Telling(t)') + Due(t)' <= 1 + edits'
  BY <1>0 DEF ToldInv
<1>1. status'[t] = "none" => status[t] = "none"
  BY <1>0, NoneStays DEF ProjTypeOK
<1>2. CASE UNCHANGED <<card, desk, edits, told>>
  BY <1>1, <1>2, QuietStep DEF MayEnd, StillOwned, HeldBy, Telling
<1>3. CASE RestartAll
  <2>1. Telling(t)' = {}
    BY <1>3 DEF RestartAll, Telling, IdleDesk
  <2>2. UNCHANGED <<card, edits, told>>
    BY <1>3 DEF RestartAll
  <2>. QED  BY <1>1, <2>1, <2>2, QuietStep DEF MayEnd, StillOwned, HeldBy
<1>4. CASE EditCard
  <2>1. edits' = edits + 1 /\ told' = told /\ desk' = desk
    BY <1>4 DEF EditCard
  <2>2. Telling(t)' = Telling(t)
    BY <2>1 DEF Telling
  <2>. QED  BY <2>1, <2>2, TellingFinite DEF ToldInv, Due, ProjTypeOK
<1>40. CASE DeleteCard
  <2>1. edits' = edits /\ told' = told /\ desk' = desk /\ ~StillOwned(t)'
    BY <1>40 DEF DeleteCard, StillOwned, ProjTypeOK, CardType
  <2>. QED  BY <1>1, <2>1, QuietStep DEF MayEnd, Telling
<1>5. ASSUME NEW m \in Members, Notify(m)
      PROVE  told'[t] + Cardinality(Telling(t)') + Due(t)' <= 1 + edits'
  <2>1. /\ desk' = [desk EXCEPT ![m] = IdleDesk] /\ desk[m].pc = "notify" /\ desk[m].task \in Tasks
        /\ told' = [told EXCEPT ![desk[m].task] = @ + 1] /\ edits' = edits /\ card' = card
    BY <1>5, TasksAssumption DEF Notify, Desk, Linked, WithRow
  <2>2. Due(t)' = Due(t) \/ (Due(t)' = 0 /\ Due(t) = 1)
    BY <1>1, <2>1 DEF Due, MayEnd, StillOwned, HeldBy
  <2>3. desk' = [n \in Members |-> IF n = m THEN IdleDesk ELSE desk[n]]
    BY <2>1 DEF ProjTypeOK
  <2>4. CASE desk[m].task = t
    <3>1. Telling(t)' = Telling(t) \ {m} /\ m \in Telling(t)
      BY <2>1, <2>3, <2>4 DEF Telling, IdleDesk
    <3>2. Cardinality(Telling(t)') = Cardinality(Telling(t)) - 1
      BY <3>1, TellingFinite, FS_RemoveElement
    <3>. QED  BY <2>1, <2>2, <2>4, <3>2, TellingFinite DEF ToldInv, Due, ProjTypeOK
  <2>5. CASE desk[m].task # t
    <3>1. Telling(t)' = Telling(t)
      BY <2>1, <2>3, <2>5 DEF Telling, IdleDesk
    <3>2. told'[t] = told[t]
      BY <2>1, <2>5 DEF ProjTypeOK
    <3>. QED  BY <2>1, <2>2, <3>1, <3>2, TellingFinite DEF ToldInv, Due, ProjTypeOK
  <2>. QED  BY <2>4, <2>5
<1>6. ASSUME NEW m \in Members, WriteBack(m), Turns(m, "notify")
      PROVE  told'[t] + Cardinality(Telling(t)') + Due(t)' <= 1 + edits'
  <2>. PICK u \in Tasks : u = desk[m].task
    BY <1>6, TasksAssumption DEF WriteBack, Linked, WithRow
  <2>1. u = desk[m].task /\ u \in handed /\ u \in Tasks /\ desk[m].pc = "write" /\ edits' = edits /\ told' = told /\ handed' = handed
    BY <1>6, TasksAssumption DEF WriteBack, Linked, WithRow
  <2>2. desk' = [desk EXCEPT ![m] = [desk[m] EXCEPT !.pc = "notify"]]
    BY <1>6 DEF Turns, Desk
  <2>3. desk'[m].pc = "notify" /\ desk'[m].task = u /\ \A n \in Members \ {m} : desk'[n] = desk[n]
    BY <2>2 DEF ProjTypeOK, DeskType
  <2>4. StillOwned(u) /\ ~StillOwned(u)'
    <3>1. desk'[m] # IdleDesk
      BY <2>3 DEF IdleDesk
    <3>2. ~Desk(m, IdleDesk)
      BY <3>1 DEF Desk, ProjTypeOK
    <3>3. /\ StillOwned(u)
          /\ card' = [card EXCEPT !.status = Shows(desk[m].outcome),
                                  !.owner = IF desk[m].outcome # "completed" THEN "human" ELSE @]
      BY <1>6, <3>2 DEF WriteBack
    <3>. QED  BY <3>3 DEF StillOwned, HeldBy, Shows, Closed, ProjTypeOK, CardType
  <2>5. CASE t = u
    <3>1. Telling(t)' = Telling(t) \cup {m} /\ m \notin Telling(t)
      BY <2>1, <2>3, <2>5 DEF Telling
    <3>2. Cardinality(Telling(t)') = Cardinality(Telling(t)) + 1
      BY <3>1, TellingFinite, FS_AddElement
    <3>3. Due(t) = 1 /\ Due(t)' = 0
      BY <2>1, <2>4, <2>5, <1>0, <1>1 DEF Due, MayEnd, ToldInv
    <3>. QED  BY <2>1, <3>2, <3>3, TellingFinite DEF ToldInv, ProjTypeOK
  <2>6. CASE t # u
    <3>1. Telling(t)' = Telling(t)
      BY <2>1, <2>3, <2>6 DEF Telling
    <3>2. MayEnd(t)' => MayEnd(t)
      <4>1. card.link = u
        BY <2>4 DEF StillOwned, HeldBy
      <4>2. \E st, ow : card' = [card EXCEPT !.status = st, !.owner = ow]
        BY <2>4, <1>6, Zenon DEF WriteBack
      <4>. QED  BY <1>1, <2>6, <4>1, <4>2 DEF MayEnd, StillOwned, HeldBy, ProjTypeOK, CardType
    <3>. QED  BY <2>1, <3>1, <3>2, QuietStep
  <2>. QED  BY <2>5, <2>6
<1>7. ASSUME NEW m \in Members, MemberStep(m), ~Notify(m), ~(WriteBack(m) /\ Turns(m, "notify"))
      PROVE  told'[t] + Cardinality(Telling(t)') + Due(t)' <= 1 + edits'
  BY <1>0, <1>7, QuietRequest, QuietStep
<1>. QED  BY <1>2, <1>3, <1>4, <1>40, <1>5, <1>6, <1>7, Zenon DEF ProjNext, projVars

(* However many requests write the end of a row back at once, the project  *)
(* is told of it once, and once more for every status somebody set by hand.*)
THEOREM EndIsToldOnce == ProjSpec => []ToldOnce
<1>1. ProjInit => ToldInv
  <2>. SUFFICES ASSUME ProjInit PROVE ToldInv
    OBVIOUS
  <2>1. \A t \in Tasks : Telling(t) = {}
    BY DEF ProjInit, Telling, IdleDesk
  <2>2. Cardinality({}) = 0
    BY FS_EmptySet
  <2>. QED  BY <2>1, <2>2 DEF ProjInit, ToldInv, Due
<1>2. ProjTypeOK /\ ToldInv => ToldOnce
  <2>. SUFFICES ASSUME ProjTypeOK, ToldInv, NEW t \in Tasks
                PROVE  told[t] <= 1 + edits
    BY DEF ToldOnce
  <2>. QED  BY TellingFinite DEF ToldInv, Due, ProjTypeOK
<1>. QED  BY <1>1, <1>2, ProjectInitType, ProjectType, ToldStep, PTL DEF ProjSpec

-----------------------------------------------------------------------------
(* The inductive invariant for CompletedWasRun: an errand that is completed, *)
(* or in the hands of a handler that will complete it, has been executed;   *)
(* so has the row of every request that has read it as completed; and so    *)
(* has the row of a completed card.                                          *)
Worked ==
  /\ \A t \in Errands : status[t] = "completed" => runs[t] >= 1
  /\ \A p \in Procs : proc[p].task \in Errands /\ proc[p].pc \in {"run", "create", "ok"} => runs[proc[p].task] >= 1

LEMMA RunsGrow ==
  ASSUME TypeOK, [Next]_vars, NEW t \in Tasks, runs[t] >= 1
  PROVE  runs'[t] >= 1
BY EveryStep DEF StatusStep, TypeOK

(* Handlers: who begins to run an errand has just claimed it.               *)
LEMMA ProcWorked ==
  ASSUME TypeOK, Worked, [Next]_vars, NEW p \in Procs,
         proc'[p].task \in Errands, proc'[p].pc \in {"run", "create", "ok"}
  PROVE  runs'[proc'[p].task] >= 1
<1>0. /\ proc'[p].task \in Tasks
      /\ proc \in [Procs -> [pc : PC, op : Op, task : Tasks \cup {NoTask}]]
      /\ runs \in [Tasks -> Nat]
  BY TasksAssumption DEF TypeOK
<1>1. CASE proc'[p].task = proc[p].task /\ proc[p].pc \in {"run", "create", "ok"}
  BY <1>0, <1>1, RunsGrow DEF Worked
<1>. SUFFICES ASSUME ~(proc'[p].task = proc[p].task /\ proc[p].pc \in {"run", "create", "ok"})
              PROVE  runs'[proc'[p].task] >= 1
  BY <1>1
<1>2. proc'[p] # proc[p]
  OBVIOUS
<1>. USE DEF Goto, At, Idle
<1>3. CASE RowChanges \/ UNCHANGED vars
  BY <1>2, <1>3, Zenon DEF RowChanges, Create, CreateApproved, Reject, BulkDelete, vars
<1>4. ASSUME NEW a \in Admins, AdminStarts(a)
      PROVE  runs'[proc'[p].task] >= 1
  BY <1>0, <1>2, <1>4, TasksAssumption DEF AdminStarts, Approve, BeginUpdate, BeginCancel, BeginExecute, BeginInline, Procs
<1>5. ASSUME NEW a \in Admins, WinClaim(a)
      PROVE  runs'[proc'[p].task] >= 1
  <2>. a \in Procs
    BY DEF Procs
  <2>1. proc' = [proc EXCEPT ![a] = [pc |-> "run", op |-> proc[a].op, task |-> proc[a].task]]
    BY <1>5 DEF WinClaim
  <2>2. p = a /\ proc'[p].task = proc[a].task
    BY <1>0, <1>2, <2>1
  <2>3. runs' = [runs EXCEPT ![proc[a].task] = @ + 1]
    BY <1>5 DEF WinClaim, ClaimAgentTask
  <2>. QED  BY <1>0, <2>2, <2>3
<1>6. ASSUME NEW k \in Ticks, NEW t \in Tasks, TickClaim(k, t)
      PROVE  runs'[proc'[p].task] >= 1
  <2>. k \in Procs
    BY DEF Procs
  <2>1. proc' = [proc EXCEPT ![k] = [pc |-> "run", op |-> "tick", task |-> t]]
    BY <1>6 DEF TickClaim
  <2>2. p = k /\ proc'[p].task = t
    BY <1>0, <1>2, <2>1
  <2>3. runs' = [runs EXCEPT ![t] = @ + 1]
    BY <1>6 DEF TickClaim, ClaimAgentTask
  <2>. QED  BY <1>0, <2>2, <2>3
<1>7. ASSUME NEW q \in Procs, RunTask(q) \/ LookUpDeal(q) \/ CreateDeal(q)
      PROVE  runs'[proc'[p].task] >= 1
  <2>1. /\ proc[q].pc \in {"run", "create"}
        /\ \E pc \in PC : proc' = [proc EXCEPT ![q] = [proc[q] EXCEPT !.pc = pc]] \/ proc' = [proc EXCEPT ![q] = Idle]
    BY <1>7 DEF RunTask, LookUpDeal, CreateDeal, PC
  <2>. QED  BY <1>0, <1>2, <2>1, TasksAssumption
<1>8. ASSUME NEW q \in Procs, \E pc \in {"idle", "log", "catch", "fail"} :
                 proc' = [proc EXCEPT ![q] = [proc[q] EXCEPT !.pc = pc]] \/ proc' = [proc EXCEPT ![q] = Idle]
      PROVE  runs'[proc'[p].task] >= 1
  BY <1>0, <1>2, <1>8, TasksAssumption
<1>9. ASSUME NEW a \in Admins, WriteUpdate(a) \/ WriteCancel(a) \/ LoseClaim(a) \/ RecordOutcome(a) \/ WriteLog(a)
      PROVE  runs'[proc'[p].task] >= 1
  <2>1. proc' = [proc EXCEPT ![a] = [proc[a] EXCEPT !.pc = "log"]] \/ proc' = [proc EXCEPT ![a] = Idle]
    BY <1>9, Zenon DEF WriteUpdate, WriteCancel, LoseClaim, RecordOutcome, WriteLog
  <2>. QED  BY <1>8, <2>1 DEF Procs
<1>10. ASSUME NEW k \in Ticks, TickRecord(k) \/ WriteLog(k) \/ TickCatch(k) \/ TickCatchWrite(k) \/ TickAborts(k)
       PROVE  runs'[proc'[p].task] >= 1
  <2>1. \/ proc' = [proc EXCEPT ![k] = [proc[k] EXCEPT !.pc = "log"]]
        \/ proc' = [proc EXCEPT ![k] = [proc[k] EXCEPT !.pc = "catch"]]
        \/ proc' = [proc EXCEPT ![k] = Idle]
    BY <1>10, Zenon DEF TickRecord, WriteLog, TickCatch, TickCatchWrite, TickAborts
  <2>. QED  BY <1>8, <2>1 DEF Procs
<1>11. ASSUME NEW q \in Procs, DealCatch(q) \/ RequestFails(q)
       PROVE  runs'[proc'[p].task] >= 1
  <2>1. proc' = [proc EXCEPT ![q] = [proc[q] EXCEPT !.pc = "fail"]] \/ proc' = [proc EXCEPT ![q] = Idle]
    BY <1>11, Zenon DEF DealCatch, RequestFails
  <2>. QED  BY <1>8, <2>1
<1>12. ASSUME NEW k \in Ticks, TickRead(k) \/ \E t \in Tasks : TickSkip(k, t)
       PROVE  runs'[proc'[p].task] >= 1
  BY <1>2, <1>12, Zenon DEF TickRead, TickSkip
<1>13. CASE Restart
  BY <1>0, <1>13, TasksAssumption DEF Restart
<1>. QED  BY <1>3, <1>4, <1>5, <1>6, <1>7, <1>9, <1>10, <1>11, <1>12, <1>13, Zenon
          DEF Next, AdminContinues, TickContinues, Failures, Procs

LEMMA StatusWorked ==
  ASSUME TypeOK, Worked, [Next]_vars, NEW t \in Errands, status'[t] = "completed"
  PROVE  runs'[t] >= 1
<1>0. t \in Tasks /\ status \in [Tasks -> Status]
  BY TasksAssumption DEF TypeOK
<1>1. CASE status[t] = "completed"
  BY <1>0, <1>1, RunsGrow DEF Worked
<1>. SUFFICES ASSUME status[t] # "completed"
              PROVE  runs'[t] >= 1
  BY <1>1
<1>2. ASSUME NEW p \in Procs, proc[p].pc \in {"ok", "fail"}, SetStatus(proc[p].task, Outcome(p))
      PROVE  runs'[t] >= 1
  <2>1. proc[p].task = t /\ proc[p].pc = "ok"
    BY <1>0, <1>2 DEF SetStatus, Outcome
  <2>. QED  BY <1>0, <2>1, RunsGrow DEF Worked
<1>3. ASSUME NEW u, NEW s \in {"approved", "rejected", "cancelled", "failed", "in_progress", "pending_approval"},
             status' = [status EXCEPT ![u] = s] \/ SetStatus(u, s)
      PROVE  runs'[t] >= 1
  BY <1>0, <1>3 DEF SetStatus
<1>4. ASSUME status' = status
      PROVE  runs'[t] >= 1
  BY <1>4
<1>5. CASE BulkDelete
  BY <1>0, <1>5 DEF BulkDelete
<1>6. ASSUME NEW u \in Tasks, Create(u) \/ CreateApproved(u) \/ Reject(u)
      PROVE  runs'[t] >= 1
  BY <1>3, <1>6 DEF Create, CreateApproved, Reject
<1>7. ASSUME NEW a \in Admins, AdminStarts(a)
      PROVE  runs'[t] >= 1
  BY <1>3, <1>4, <1>7, Zenon DEF AdminStarts, Approve, BeginUpdate, BeginCancel, BeginExecute, BeginInline
<1>8. ASSUME NEW a \in Admins, RecordOutcome(a)
      PROVE  runs'[t] >= 1
  BY <1>2, <1>8, Zenon DEF RecordOutcome, Procs
<1>9. ASSUME NEW a \in Admins, WriteUpdate(a) \/ WriteCancel(a) \/ WinClaim(a) \/ LoseClaim(a) \/ WriteLog(a)
      PROVE  runs'[t] >= 1
  BY <1>3, <1>4, <1>9, Zenon DEF WriteUpdate, WriteCancel, WinClaim, LoseClaim, WriteLog, ClaimAgentTask
<1>10. ASSUME NEW p \in Procs, RunTask(p) \/ LookUpDeal(p) \/ CreateDeal(p) \/ DealCatch(p) \/ RequestFails(p)
       PROVE  runs'[t] >= 1
  BY <1>4, <1>10, Zenon DEF RunTask, LookUpDeal, CreateDeal, DealCatch, RequestFails
<1>11. ASSUME NEW k \in Ticks, TickRecord(k)
       PROVE  runs'[t] >= 1
  BY <1>2, <1>11, Zenon DEF TickRecord, Procs
<1>12. ASSUME NEW k \in Ticks, TickRead(k) \/ WriteLog(k) \/ TickCatch(k) \/ TickCatchWrite(k) \/ TickAborts(k)
       PROVE  runs'[t] >= 1
  BY <1>3, <1>4, <1>12, Zenon DEF TickRead, WriteLog, TickCatch, TickCatchWrite, TickAborts
<1>13. ASSUME NEW k \in Ticks, NEW u \in Tasks, TickClaim(k, u) \/ TickSkip(k, u)
       PROVE  runs'[t] >= 1
  BY <1>3, <1>4, <1>13, Zenon DEF TickClaim, TickSkip, ClaimAgentTask
<1>14. CASE Restart \/ UNCHANGED vars
  BY <1>4, <1>14, Zenon DEF Restart, vars
<1>. QED  BY <1>5, <1>6, <1>7, <1>8, <1>9, <1>10, <1>11, <1>12, <1>13, <1>14, Zenon
          DEF Next, RowChanges, AdminContinues, TickContinues, Failures, Procs

LEMMA WorkedStep ==
  ASSUME TypeOK, Worked, [Next]_vars
  PROVE  Worked'
<1>1. Procs' = Procs
  BY DEF Procs
<1>. QED  BY <1>1, ProcWorked, StatusWorked DEF Worked

ShownDesk == \A m \in Members : desk[m].outcome = "completed" => desk[m].task \in Tasks /\ runs[desk[m].task] >= 1
ShownCard == edits = 0 /\ card.owner = "agent" /\ card.status = "completed" => runs[card.link] >= 1
Shown == ShownDesk /\ ShownCard

(* The record a step leaves in its slot is about a row that was executed,   *)
(* if it says completed.                                                    *)
LEMMA DeskShown ==
  ASSUME ProjTypeOK, Linked, Worked, Shown, NEW m \in Members, MemberStep(m), [Next]_vars
  PROVE  \A n \in Members : desk'[n].outcome = "completed" => desk'[n].task \in Tasks /\ runs'[desk'[n].task] >= 1
<1>0. /\ \A t \in Tasks : runs[t] >= 1 => runs'[t] >= 1
      /\ \A t \in handed : t \in Tasks /\ t \in Errands
  BY RunsGrow, TasksAssumption DEF ProjTypeOK, Linked
<1>1. ASSUME NEW d, Desk(m, d), d.outcome = "completed" => d.task \in Tasks /\ runs[d.task] >= 1
      PROVE  \A n \in Members : desk'[n].outcome = "completed" => desk'[n].task \in Tasks /\ runs'[desk'[n].task] >= 1
  <2>1. desk'[m] = d /\ \A n \in Members \ {m} : desk'[n] = desk[n]
    BY <1>1 DEF Desk, ProjTypeOK
  <2>. QED  BY <1>0, <1>1, <2>1 DEF Shown, ShownDesk, ShownCard
<1>2. ASSUME Desk(m, IdleDesk)
      PROVE  \A n \in Members : desk'[n].outcome = "completed" => desk'[n].task \in Tasks /\ runs'[desk'[n].task] >= 1
  <2>1. IdleDesk.outcome # "completed"
    BY DEF IdleDesk
  <2>. QED  BY <1>1, <1>2, <2>1
<1>3. ASSUME NEW pc, Turns(m, pc)
      PROVE  \A n \in Members : desk'[n].outcome = "completed" => desk'[n].task \in Tasks /\ runs'[desk'[n].task] >= 1
  <2>1. [desk[m] EXCEPT !.pc = pc].outcome = desk[m].outcome /\ [desk[m] EXCEPT !.pc = pc].task = desk[m].task
    BY DEF ProjTypeOK, DeskType
  <2>2. Desk(m, [desk[m] EXCEPT !.pc = pc])
    BY <1>3 DEF Turns
  <2>. QED  BY <1>1, <2>1, <2>2 DEF Shown, ShownDesk, ShownCard
<1>4. CASE BeginAssign(m) \/ CheckOpen(m) \/ ReadLink(m) \/ TakeBack(m) \/ BeginReconcile(m)
  <2>1. PICK pc, then, t, seen : \/ Desk(m, IdleDesk)
                                 \/ Desk(m, [IdleDesk EXCEPT !.pc = pc])
                                 \/ Desk(m, [IdleDesk EXCEPT !.pc = pc, !.task = t])
                                 \/ Desk(m, [IdleDesk EXCEPT !.pc = pc, !.then = then, !.task = t])
                                 \/ Desk(m, [IdleDesk EXCEPT !.pc = pc, !.task = t, !.seen = seen])
                                 \/ Desk(m, [IdleDesk EXCEPT !.pc = pc, !.then = then, !.task = t, !.seen = seen])
    BY <1>4 DEF BeginAssign, CheckOpen, ReadLink, TakeBack, BeginReconcile
  <2>2. /\ IdleDesk.outcome = "none"
        /\ [IdleDesk EXCEPT !.pc = pc].outcome = "none"
        /\ [IdleDesk EXCEPT !.pc = pc, !.task = t].outcome = "none"
        /\ [IdleDesk EXCEPT !.pc = pc, !.then = then, !.task = t].outcome = "none"
        /\ [IdleDesk EXCEPT !.pc = pc, !.task = t, !.seen = seen].outcome = "none"
        /\ [IdleDesk EXCEPT !.pc = pc, !.then = then, !.task = t, !.seen = seen].outcome = "none"
    BY DEF IdleDesk
  <2>3. PICK d : Desk(m, d) /\ d.outcome = "none"
    BY <2>1, <2>2, Zenon
  <2>. QED  BY <1>1, <2>3
<1>5. CASE InsertRow(m) \/ HandToHuman(m) \/ Notify(m) \/ DeskFails(m)
  BY <1>2, <1>5, Zenon DEF InsertRow, HandToHuman, Notify, DeskFails
<1>6. CASE ReadOpenRow(m) \/ CancelRow(m) \/ ReadCard(m) \/ WriteBack(m)
  BY <1>2, <1>3, <1>6, Zenon DEF ReadOpenRow, CancelRow, ReadCard, WriteBack
<1>7. ASSUME NEW t \in handed, NEW pc, Desk(m, [IdleDesk EXCEPT !.pc = pc, !.task = t, !.outcome = status[t]])
      PROVE  \A n \in Members : desk'[n].outcome = "completed" => desk'[n].task \in Tasks /\ runs'[desk'[n].task] >= 1
  <2>1. /\ [IdleDesk EXCEPT !.pc = pc, !.task = t, !.outcome = status[t]].outcome = status[t]
        /\ [IdleDesk EXCEPT !.pc = pc, !.task = t, !.outcome = status[t]].task = t
    BY DEF IdleDesk
  <2>2. status[t] = "completed" => runs[t] >= 1
    BY <1>0 DEF Worked
  <2>. QED  BY <1>0, <1>1, <1>7, <2>1, <2>2
<1>8. CASE BeginSync(m)
  BY <1>7, <1>8, Zenon DEF BeginSync
<1>9. CASE ReadRow(m)
  <2>1. desk[m].task \in handed
    BY <1>9 DEF ReadRow, Linked, WithRow
  <2>. QED  BY <1>2, <1>7, <1>9, <2>1, Zenon DEF ReadRow
<1>. QED  BY <1>4, <1>5, <1>6, <1>8, <1>9, Zenon DEF MemberStep

LEMMA CardShown ==
  ASSUME ProjTypeOK, Linked, Shown, NEW m \in Members, MemberStep(m), [Next]_vars,
         edits' = 0, card'.owner = "agent", card'.status = "completed"
  PROVE  runs'[card'.link] >= 1
<1>0. /\ \A t \in Tasks : runs[t] >= 1 => runs'[t] >= 1
      /\ handed \subseteq Tasks /\ card \in CardType
  BY RunsGrow DEF ProjTypeOK
<1>1. edits = 0
  BY Zenon DEF MemberStep, BeginAssign, CheckOpen, ReadLink, InsertRow, ReadOpenRow, CancelRow, TakeBack, HandToHuman,
           BeginSync, BeginReconcile, ReadCard, ReadRow, WriteBack, Notify, DeskFails
<1>2. CASE card' = card
  BY <1>0, <1>1, <1>2 DEF Shown, ShownDesk, ShownCard, Linked
<1>3. CASE InsertRow(m)
  <2>1. PICK t : \/ SetCard([status |-> "review", owner |-> "agent", link |-> t])
                 \/ SetCard([status |-> "in_progress", owner |-> "agent", link |-> t])
    BY <1>3, Zenon DEF InsertRow
  <2>. QED  BY <1>2, <2>1 DEF SetCard
<1>4. CASE HandToHuman(m)
  BY <1>2, <1>4 DEF HandToHuman, SetCard
<1>5. CASE WriteBack(m) /\ card' # card
  <2>1. /\ StillOwned(desk[m].task)
        /\ \E ow : card' = [card EXCEPT !.status = Shows(desk[m].outcome), !.owner = ow]
    BY <1>5, Zenon DEF WriteBack
  <2>2. Shows(desk[m].outcome) = "completed" /\ card'.link = desk[m].task
    BY <1>0, <2>1 DEF CardType, StillOwned, HeldBy
  <2>3. desk[m].outcome = "completed"
    BY <2>2 DEF Shows
  <2>. QED  BY <1>0, <2>2, <2>3 DEF Shown, ShownDesk, ShownCard
<1>6. InsertRow(m) \/ HandToHuman(m) \/ WriteBack(m) \/ card' = card
  BY Zenon DEF MemberStep, BeginAssign, CheckOpen, ReadLink, ReadOpenRow, CancelRow, TakeBack,
           BeginSync, BeginReconcile, ReadCard, ReadRow, Notify, DeskFails
<1>. QED  BY <1>2, <1>3, <1>4, <1>5, <1>6

LEMMA ShownStep ==
  ASSUME ProjTypeOK, Linked, Worked, Shown, [ProjNext]_projVars
  PROVE  Worked' /\ Shown'
<1>0. TypeOK /\ [Next]_vars
  BY StepsOfQueue DEF ProjTypeOK
<1>1. Worked'
  BY <1>0, WorkedStep
<1>2. \A t \in Tasks : runs[t] >= 1 => runs'[t] >= 1
  BY <1>0, RunsGrow
<1>20. ASSUME card' = card, edits' = edits
       PROVE  ShownCard'
  <2>1. card.owner = "agent" => card.link \in Tasks
    BY TasksAssumption DEF Linked
  <2>. QED  BY <1>2, <1>20, <2>1 DEF Shown, ShownCard
<1>21. ASSUME desk' = desk
       PROVE  ShownDesk'
  <2>. SUFFICES ASSUME NEW m \in Members, desk[m].outcome = "completed"
                PROVE  desk[m].task \in Tasks /\ runs'[desk[m].task] >= 1
    BY <1>21 DEF ShownDesk
  <2>. QED  BY <1>2 DEF Shown, ShownDesk
<1>3. CASE UNCHANGED <<card, desk, edits>>
  BY <1>1, <1>3, <1>20, <1>21 DEF Shown
<1>4. ASSUME NEW m \in Members, MemberStep(m)
      PROVE  Shown'
  <2>1. ShownDesk'
    BY <1>0, <1>4, DeskShown DEF ShownDesk
  <2>2. ShownCard'
    BY <1>0, <1>4, CardShown DEF ShownCard
  <2>. QED  BY <2>1, <2>2 DEF Shown
<1>5. CASE EditCard
  <2>1. desk' = desk /\ edits' # 0
    BY <1>5 DEF EditCard, ProjTypeOK
  <2>. QED  BY <1>1, <1>21, <2>1 DEF Shown, ShownCard
<1>50. CASE DeleteCard
  <2>1. desk' = desk /\ card'.status # "completed"
    BY <1>50 DEF DeleteCard, ProjTypeOK, CardType
  <2>. QED  BY <1>1, <1>21, <2>1 DEF Shown, ShownCard
<1>6. CASE RestartAll
  <2>1. \A m \in Members : desk'[m].outcome # "completed"
    BY <1>6 DEF RestartAll, IdleDesk
  <2>2. card' = card /\ edits' = edits
    BY <1>6 DEF RestartAll
  <2>. QED  BY <1>1, <1>20, <2>1, <2>2 DEF Shown, ShownDesk
<1>7. Shown'
  BY <1>3, <1>4, <1>5, <1>50, <1>6, Zenon DEF ProjNext, projVars
<1>. QED  BY <1>1, <1>7

(* A task that shows as completed by the agent was completed by the         *)
(* execution of the row it is linked to: no late write-back of a superseded *)
(* row lands on it, for any number of rows and requests.                    *)
THEOREM CompletedByItsRow == ProjSpec => []CompletedWasRun
<1>1. ProjInit => Worked /\ Shown
  BY TasksAssumption DEF ProjInit, Init, Worked, Shown, ShownDesk, ShownCard, Idle, IdleDesk, NoCard, Gone
<1>2. Shown => CompletedWasRun
  BY DEF Shown, ShownDesk, ShownCard, CompletedWasRun
<1>. QED  BY <1>1, <1>2, ProjectInitType, ProjectType, ShownStep, PTL DEF ProjSpec
=============================================================================
