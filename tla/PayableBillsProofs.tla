-------------------------- MODULE PayableBillsProofs --------------------------
(***************************************************************************)
(* Proofs about PayableBills for any set of bills, requests, runs and      *)
(* amounts.                                                                *)
(*                                                                         *)
(* Type correctness needs WorksOnBills: a handler that has begun works on  *)
(* a bill that exists, so that what it writes is written to a row.         *)
(*                                                                         *)
(* ShownIsPaidOut needs Banked, because a bill is advanced long after the  *)
(* money has left, by several processes, each with the amountPaid it read: *)
(* whatever one of them has read, and all they still have to add, is there *)
(* in payments rows.  PaidIsCovered adds that a process compares with the  *)
(* total the bill still has, unless somebody edited it.                    *)
(***************************************************************************)
EXTENDS PayableBills, SequenceTheorems, Totals, TLAPS

State == [pc : PC, bill : Bills \cup {NoBill}, amount : Nat, base : Nat, owed : Nat]
Working == {"pay", "file", "demote", "insert", "read", "write", "approve", "cancel", "queue"}
Works(s) == s.pc \in Working => s.bill \in Bills
WorksOnBills == \A p \in Procs : Works(proc[p])
TypeInv == TypeOK /\ WorksOnBills

LEMMA AtType ==
  ASSUME NEW pc \in PC, NEW b \in Bills \cup {NoBill}, NEW amount \in Nat,
         pc \in Working => b \in Bills
  PROVE  At(pc, b, amount) \in State /\ Works(At(pc, b, amount))
BY DEF At, State, Works

LEMMA IdleType == Idle \in State /\ Works(Idle)
BY AtType DEF Idle, Working, PC

LEMMA OutstandingType ==
  ASSUME TypeOK, NEW b \in Bills
  PROVE  total[b] \in Nat /\ paid[b] \in Nat /\ Outstanding(b) \in Nat
<1>1. Amounts \subseteq Nat
  BY BillsAssumption
<1>2. total[b] \in Amounts \cup {0} /\ paid[b] \in Nat
  BY DEF TypeOK
<1>3. total[b] \in Nat
  <2>1. CASE total[b] \in Amounts
    BY <1>1, <2>1
  <2>2. CASE total[b] \in {0}
    BY <2>2
  <2>3. QED
    BY <1>2, <2>1, <2>2
<1>4. QED
  BY <1>2, <1>3 DEF Outstanding

(* Going on, or ending, keeps the processes typed.                          *)
LEMMA GotoType ==
  ASSUME TypeInv, NEW p \in Procs, NEW s \in State, Works(s), Goto(p, s)
  PROVE  proc' \in [Procs -> State] /\ WorksOnBills'
BY DEF TypeInv, TypeOK, WorksOnBills, Goto, State

LEMMA DoneType ==
  ASSUME TypeInv, NEW p \in Procs, Done(p)
  PROVE  proc' \in [Procs -> State] /\ WorksOnBills'
<1>1. At("next", NoBill, 0) \in State /\ Works(At("next", NoBill, 0))
  BY AtType DEF PC, Working
<1>2. QED
  BY <1>1, IdleType, GotoType DEF Done

(* What a handler that has begun works on.                                  *)
LEMMA WorkingOn ==
  ASSUME TypeInv, NEW p \in Procs
  PROVE  /\ proc[p] \in State
         /\ proc[p].pc \in Working => proc[p].bill \in Bills
BY DEF TypeInv, TypeOK, WorksOnBills, Works, State

LEMMA StatusType ==
  ASSUME TypeOK, NEW b \in Bills, NEW s \in Status, SetStatus(b, s)
  PROVE  status' \in [Bills -> Status \cup {"none"}]
BY DEF TypeOK, SetStatus

LEMMA ActType ==
  ASSUME TypeOK, Act
  PROVE  count' \in [acts : Nat, faults : Nat]
<1>1. count \in [acts : Nat, faults : Nat]
  BY DEF TypeOK
<1>2. count' = [count EXCEPT !.acts = count.acts + 1]
  BY DEF Act
<1>3. QED
  BY <1>1, <1>2

LEMMA FaultType ==
  ASSUME TypeOK, Fault
  PROVE  count' \in [acts : Nat, faults : Nat]
<1>1. count \in [acts : Nat, faults : Nat]
  BY DEF TypeOK
<1>2. count' = [count EXCEPT !.faults = count.faults + 1]
  BY DEF Fault
<1>3. QED
  BY <1>1, <1>2

LEMMA InitType == Init => TypeInv
<1> SUFFICES ASSUME Init PROVE TypeInv
  OBVIOUS
<1>1. proc \in [Procs -> State] /\ WorksOnBills
  BY IdleType DEF Init, WorksOnBills
<1>2. status \in [Bills -> Status \cup {"none"}] /\ total \in [Bills -> Amounts \cup {0}]
  BY DEF Init
<1>3. requests \in Seq([bill : Bills, amount : Nat, status : {"pending", "approved", "rejected", "auto_approved"}])
  BY DEF Init
<1>4. due \in [Runs -> SUBSET [bill : Bills, amount : Nat]]
  BY DEF Init
<1>5. running \subseteq Runs /\ asked \in [Runs -> SUBSET Nat]
  BY DEF Init
<1>6. QED
  BY <1>1, <1>2, <1>3, <1>4, <1>5 DEF Init, TypeInv, TypeOK, State

Request == [bill : Bills, amount : Nat, status : {"pending", "approved", "rejected", "auto_approved"}]
RowsType ==
  /\ status \in [Bills -> Status \cup {"none"}]
  /\ total \in [Bills -> Amounts \cup {0}]
  /\ paid \in [Bills -> Nat]
  /\ matched \subseteq Bills
  /\ cash \in [Bills -> Nat]
  /\ edited \subseteq Bills
  /\ count \in [acts : Nat, faults : Nat]
RunsType ==
  /\ requests \in Seq(Request)
  /\ due \in [Runs -> SUBSET [bill : Bills, amount : Nat]]
  /\ running \subseteq Runs
  /\ asked \in [Runs -> SUBSET Nat]

(* The bill rows.                                                           *)
LEMMA RowsPreserved ==
  ASSUME TypeInv, Next
  PROVE  RowsType'
<1> USE DEF TypeInv, TypeOK, RowsType, Status, SetStatus, Act, Fault, bill, workflow
<1>1. CASE RowChanges
  <2>1. ASSUME NEW b \in Bills, Create(b)
        PROVE  RowsType'
    <3>1. PICK s \in {"draft", "pending_approval"}, t \in Amounts :
            SetStatus(b, s) /\ total' = [total EXCEPT ![b] = t]
      BY <2>1 DEF Create
    <3>2. status' \in [Bills -> Status \cup {"none"}]
      BY <3>1
    <3>3. total' \in [Bills -> Amounts \cup {0}]
      BY <3>1
    <3>4. QED
      BY <2>1, <3>2, <3>3 DEF Create
  <2>2. ASSUME NEW b \in Bills, Update(b)
        PROVE  RowsType'
    <3>1. PICK s \in Status, t \in Amounts :
            SetStatus(b, s) /\ total' = [total EXCEPT ![b] = t]
      BY <2>2 DEF Update
    <3>2. status' \in [Bills -> Status \cup {"none"}]
      BY <3>1
    <3>3. total' \in [Bills -> Amounts \cup {0}]
      BY <3>1
    <3>4. edited' \subseteq Bills /\ UNCHANGED <<paid, matched, cash>>
      BY <2>2 DEF Update
    <3>5. QED
      BY <2>2, <3>2, <3>3, <3>4, ActType DEF Update
  <2>3. ASSUME NEW i \in DOMAIN requests, Decide(i)
        PROVE  RowsType'
    <3>1. UNCHANGED <<bill, edited>> /\ count' \in [acts : Nat, faults : Nat]
      BY <2>3 DEF Decide
    <3>2. QED
      BY <3>1
  <2>4. QED
    BY <1>1, <2>1, <2>2, <2>3 DEF RowChanges
<1>2. ASSUME NEW c \in Callers, RequestStarts(c)
      PROVE  RowsType'
  BY <1>2 DEF RequestStarts, BeginApprove, BeginCancel, MarkPaid, Match
<1>3. ASSUME NEW p \in Procs, Pays(p)
      PROVE  RowsType'
  <2> proc[p] \in State /\ (proc[p].pc \in Working => proc[p].bill \in Bills)
    BY WorkingOn
  <2>1. CASE InsertPayment(p)
    BY <2>1 DEF InsertPayment, State, Working
  <2>2. CASE ReadBill(p)
    BY <2>2 DEF ReadBill
  <2>3. CASE WriteBill(p)
    BY <2>3 DEF WriteBill, NextStatus, State, Working
  <2>4. QED
    BY <1>3, <2>1, <2>2, <2>3 DEF Pays
<1>4. ASSUME NEW c \in Callers, RequestContinues(c)
      PROVE  RowsType'
  <2> c \in Procs
    BY DEF Procs
  <2> proc[c].pc \in Working => proc[c].bill \in Bills
    BY WorkingOn
  <2>1. QED
    BY <1>3, <1>4 DEF RequestContinues, WriteApprove, WriteCancel, WriteQueue, Working
<1>5. ASSUME NEW r \in Runs, ScheduleRun(r) \/ TriggerRun(r)
      PROVE  RowsType'
  <2>1. CASE ScheduleRun(r)
    BY <2>1 DEF ScheduleRun, StartRun
  <2>2. CASE TriggerRun(r)
    BY <2>2, ActType DEF TriggerRun, StartRun
  <2>3. QED
    BY <1>5, <2>1, <2>2
<1>6. ASSUME NEW r \in Runs, RunContinues(r)
      PROVE  RowsType'
  <2> r \in Procs
    BY DEF Procs
  <2> proc[r].pc \in Working => proc[r].bill \in Bills
    BY WorkingOn
  <2>1. QED
    BY <1>3, <1>6 DEF RunContinues, InsertRun, Fetch, TakeBill, RunPays, FileRequest, Demote, EndRun, Working
<1>7. CASE Failures
  <2>1. UNCHANGED <<bill, edited>> /\ Fault
    BY <1>7 DEF Failures, RequestFails, BillFails, RunFails, Restart
  <2>2. count' \in [acts : Nat, faults : Nat]
    BY <2>1, FaultType
  <2>3. QED
    BY <2>1, <2>2
<1>8. QED
  BY <1>1, <1>2, <1>4, <1>5, <1>6, <1>7 DEF Next

LEMMA DecisionType ==
  ASSUME requests \in Seq(Request), NEW i \in DOMAIN requests, Decide(i)
  PROVE  requests' \in Seq(Request)
<1>1. PICK s \in {"approved", "rejected"} : requests' = [requests EXCEPT ![i].status = s]
  BY DEF Decide
<1>2. requests[i] \in Request
  BY ElementOfSeq
<1>3. [requests[i] EXCEPT !.status = s] \in Request
  BY <1>2 DEF Request
<1>4. requests' = [requests EXCEPT ![i] = [requests[i] EXCEPT !.status = s]]
  BY <1>1
<1>5. QED
  BY <1>3, <1>4, ExceptSeq

(* The runs and the approval queue.                                         *)
LEMMA RunsPreserved ==
  ASSUME TypeInv, Next
  PROVE  RunsType'
<1> USE DEF TypeInv, TypeOK, RunsType, Request, bill, workflow
<1>1. CASE RowChanges
  <2>1. ASSUME NEW b \in Bills, Create(b) \/ Update(b)
        PROVE  RunsType'
    BY <2>1 DEF Create, Update
  <2>2. ASSUME NEW i \in DOMAIN requests, Decide(i)
        PROVE  RunsType'
    <3>1. requests' \in Seq(Request) /\ due' = due
      BY <2>2, DecisionType DEF Decide
    <3>2. running' \subseteq Runs /\ asked' \in [Runs -> SUBSET Nat]
      BY <2>2 DEF Decide, RowsMove
    <3>3. QED
      BY <3>1, <3>2
  <2>3. QED
    BY <1>1, <2>1, <2>2 DEF RowChanges
<1>2. ASSUME NEW c \in Callers, RequestStarts(c) \/ RequestContinues(c)
      PROVE  RunsType'
  BY <1>2 DEF RequestStarts, BeginApprove, BeginCancel, MarkPaid, Match, RequestContinues,
              WriteApprove, WriteCancel, WriteQueue, Pays, InsertPayment, ReadBill, WriteBill
<1>3. ASSUME NEW r \in Runs, ScheduleRun(r) \/ TriggerRun(r)
      PROVE  RunsType'
  BY <1>3 DEF ScheduleRun, TriggerRun, StartRun
<1>4. ASSUME NEW r \in Runs, RunContinues(r)
      PROVE  RunsType'
  <2> r \in Procs /\ proc[r] \in State /\ (proc[r].pc \in Working => proc[r].bill \in Bills)
    BY WorkingOn DEF Procs
  <2>1. CASE Fetch(r)
    BY <2>1, OutstandingType, SMTT(20) DEF Fetch
  <2>2. CASE TakeBill(r)
    BY <2>2 DEF TakeBill
  <2>3. CASE FileRequest(r)
    <3>1. requests' \in Seq(Request) /\ due' = due
      BY <2>3 DEF FileRequest, State, Working
    <3>2. CASE RowsMove({r})
      BY <3>1, <3>2 DEF RowsMove
    <3>3. CASE /\ asked' = [asked EXCEPT ![r] = IF r \in running THEN @ \cup {Len(requests) + 1} ELSE @]
               /\ UNCHANGED running
      <4>1. Len(requests) + 1 \in Nat
        OBVIOUS
      <4>2. asked[r] \cup {Len(requests) + 1} \in SUBSET Nat /\ asked[r] \in SUBSET Nat
        BY <4>1
      <4>3. asked' \in [Runs -> SUBSET Nat]
        BY <3>3, <4>2, Zenon
      <4>4. QED
        BY <3>1, <3>3, <4>3
    <3>4. QED
      BY <2>3, <3>2, <3>3 DEF FileRequest
  <2>4. CASE InsertRun(r) \/ EndRun(r)
    BY <2>4 DEF InsertRun, EndRun, RowsMove
  <2>5. CASE RunPays(r) \/ Demote(r) \/ Pays(r)
    BY <2>5 DEF RunPays, Demote, Pays, InsertPayment, ReadBill, WriteBill
  <2>6. QED
    BY <1>4, <2>1, <2>2, <2>3, <2>4, <2>5 DEF RunContinues
<1>5. CASE Failures
  BY <1>5 DEF Failures, RequestFails, BillFails, RunFails, RowsMove, Restart
<1>6. QED
  BY <1>1, <1>2, <1>3, <1>4, <1>5 DEF Next

ProcsTyped == proc \in [Procs -> State] /\ WorksOnBills

LEMMA PayingTyped ==
  ASSUME TypeInv, NEW p \in Procs, Pays(p)
  PROVE  ProcsTyped'
<1> proc[p] \in State /\ (proc[p].pc \in Working => proc[p].bill \in Bills)
  BY WorkingOn
<1> USE DEF ProcsTyped
<1>1. CASE InsertPayment(p)
  <2> DEFINE s == [proc[p] EXCEPT !.pc = "read"]
  <2>1. s \in State /\ Works(s)
    BY <1>1 DEF InsertPayment, State, Works, Working, PC
  <2>2. QED
    BY <1>1, <2>1, GotoType DEF InsertPayment
<1>2. CASE ReadBill(p)
  <2> DEFINE s == [proc[p] EXCEPT !.pc = "write", !.base = paid[proc[p].bill], !.owed = total[proc[p].bill]]
  <2>1. proc[p].bill \in Bills
    BY <1>2 DEF ReadBill, Working
  <2>2. paid[proc[p].bill] \in Nat /\ total[proc[p].bill] \in Nat
    BY <2>1, OutstandingType DEF TypeInv
  <2>3. s \in State /\ Works(s)
    BY <2>1, <2>2 DEF State, Works, Working, PC
  <2>4. QED
    BY <1>2, <2>3, GotoType DEF ReadBill
<1>3. CASE WriteBill(p)
  BY <1>3, DoneType DEF WriteBill
<1>4. QED
  BY <1>1, <1>2, <1>3 DEF Pays

(* The processes.                                                           *)
LEMMA ProcsPreserved ==
  ASSUME TypeInv, Next
  PROVE  ProcsTyped'
<1> USE DEF ProcsTyped
<1> proc \in [Procs -> State] /\ WorksOnBills
  BY DEF TypeInv, TypeOK, State
<1> UNCHANGED proc => ProcsTyped'
  BY DEF WorksOnBills
<1>1. CASE RowChanges
  BY <1>1 DEF RowChanges, Create, Update, Decide
<1>2. ASSUME NEW c \in Callers, RequestStarts(c)
      PROVE  ProcsTyped'
  <2> c \in Procs
    BY DEF Procs
  <2>1. PICK b \in Bills : BeginApprove(c, b) \/ BeginCancel(c, b) \/ MarkPaid(c, b) \/ Match(c, b)
    BY <1>2 DEF RequestStarts
  <2>2. CASE BeginApprove(c, b)
    BY <2>2, AtType, GotoType DEF BeginApprove, PC
  <2>3. CASE BeginCancel(c, b)
    BY <2>3, AtType, GotoType DEF BeginCancel, PC
  <2>4. CASE MarkPaid(c, b)
    <3>1. PICK amount \in 1..Outstanding(b) : Goto(c, At("insert", b, amount))
      BY <2>4 DEF MarkPaid
    <3>2. amount \in Nat
      BY OutstandingType DEF TypeInv
    <3>3. QED
      BY <3>1, <3>2, AtType, GotoType DEF PC
  <2>5. CASE Match(c, b)
    BY <2>5, AtType, GotoType DEF Match, PC
  <2>6. QED
    BY <2>1, <2>2, <2>3, <2>4, <2>5
<1>3. ASSUME NEW c \in Callers, RequestContinues(c)
      PROVE  ProcsTyped'
  <2> c \in Procs
    BY DEF Procs
  <2>1. CASE Pays(c)
    BY <2>1, PayingTyped
  <2>2. CASE WriteApprove(c) \/ WriteCancel(c) \/ WriteQueue(c)
    BY <2>2, DoneType DEF WriteApprove, WriteCancel, WriteQueue
  <2>3. QED
    BY <1>3, <2>1, <2>2 DEF RequestContinues
<1>4. ASSUME NEW r \in Runs, ScheduleRun(r) \/ TriggerRun(r)
      PROVE  ProcsTyped'
  <2> r \in Procs
    BY DEF Procs
  <2>1. At("start", NoBill, 0) \in State /\ Works(At("start", NoBill, 0))
    BY AtType DEF PC, Working
  <2>2. QED
    BY <1>4, <2>1, GotoType DEF ScheduleRun, TriggerRun, StartRun
<1>5. ASSUME NEW r \in Runs, RunContinues(r)
      PROVE  ProcsTyped'
  <2> r \in Procs
    BY DEF Procs
  <2> proc[r] \in State /\ (proc[r].pc \in Working => proc[r].bill \in Bills)
    BY WorkingOn
  <2>1. CASE Fetch(r) \/ Demote(r)
    BY <2>1, DoneType DEF Fetch, Demote
  <2>2. CASE TakeBill(r)
    <3>1. PICK d \in due[r] : Goto(r, At(IF d.amount <= AutoPay THEN "pay" ELSE "file", d.bill, d.amount))
      BY <2>2 DEF TakeBill
    <3>2. d.bill \in Bills /\ d.amount \in Nat
      BY DEF TypeInv, TypeOK
    <3>3. QED
      BY <3>1, <3>2, AtType, GotoType DEF PC
  <2>3. CASE RunPays(r)
    <3>1. At("insert", proc[r].bill, proc[r].amount) \in State /\ Works(At("insert", proc[r].bill, proc[r].amount))
      BY <2>3, AtType DEF RunPays, PC, State, Working
    <3>2. QED
      BY <2>3, <3>1, DoneType, GotoType DEF RunPays
  <2>4. CASE FileRequest(r)
    <3> DEFINE s == [proc[r] EXCEPT !.pc = IF proc[r].amount <= AutoApprove THEN "pay" ELSE "demote"]
    <3>1. s \in State /\ Works(s)
      BY <2>4 DEF FileRequest, State, Works, Working, PC
    <3>2. QED
      BY <2>4, <3>1, GotoType DEF FileRequest
  <2>5. CASE EndRun(r)
    BY <2>5, IdleType, GotoType DEF EndRun
  <2>6. CASE InsertRun(r)
    <3>1. At("fetch", NoBill, 0) \in State /\ Works(At("fetch", NoBill, 0))
      BY AtType DEF PC, Working
    <3>2. QED
      BY <2>6, <3>1, GotoType DEF InsertRun
  <2>7. CASE Pays(r)
    BY <2>7, PayingTyped
  <2>8. QED
    BY <1>5, <2>1, <2>2, <2>3, <2>4, <2>5, <2>6, <2>7 DEF RunContinues
<1>6. CASE Failures
  <2>1. ASSUME NEW c \in Callers, RequestFails(c)
        PROVE  ProcsTyped'
    BY <2>1, IdleType, GotoType DEF RequestFails, Procs
  <2>2. ASSUME NEW r \in Runs, BillFails(r) \/ RunFails(r)
        PROVE  ProcsTyped'
    BY <2>2, IdleType, GotoType, DoneType DEF BillFails, RunFails, Procs
  <2>3. CASE Restart
    BY <2>3, IdleType DEF Restart, WorksOnBills
  <2>4. QED
    BY <1>6, <2>1, <2>2, <2>3 DEF Failures
<1>7. QED
  BY <1>1, <1>2, <1>3, <1>4, <1>5, <1>6 DEF Next

LEMMA TypeInvAlways == Spec => []TypeInv
<1>1. TypeInv /\ [Next]_vars => TypeInv'
  <2> SUFFICES ASSUME TypeInv, [Next]_vars PROVE TypeInv'
    OBVIOUS
  <2>1. CASE Next
    BY <2>1, RowsPreserved, RunsPreserved, ProcsPreserved
       DEF RowsType, RunsType, ProcsTyped, TypeInv, TypeOK, State, Request
  <2>2. CASE UNCHANGED vars
    BY <2>2 DEF vars, TypeInv, TypeOK, WorksOnBills, Works
  <2>. QED  BY <2>1, <2>2
<1>. QED  BY <1>1, InitType, PTL DEF Spec

(* Every reachable state of PayableBills is type correct, whatever the      *)
(* constants are.                                                           *)
THEOREM TypeCorrect == Spec => []TypeOK
<1>1. TypeInv => TypeOK
  BY DEF TypeInv
<1>. QED  BY <1>1, TypeInvAlways, PTL

-----------------------------------------------------------------------------
(* The payments of b that are inserted and not yet on the bill, and what    *)
(* they add up to.                                                          *)
Crediting(b) == {p \in Procs : proc[p].pc \in {"read", "write"} /\ proc[p].bill = b}
Amount == [p \in Procs |-> proc[p].amount]
InFlight(b) == Total(Crediting(b), Amount)

BankedFor(b) ==
  /\ IsFiniteSet(Crediting(b))
  /\ paid[b] + InFlight(b) <= cash[b]
  /\ \A p \in Crediting(b) : proc[p].pc = "write" => proc[p].base + InFlight(b) <= cash[b]
Banked == \A b \in Bills : BankedFor(b)

LEMMA InFlightType ==
  ASSUME TypeInv, NEW b \in Bills, IsFiniteSet(Crediting(b))
  PROVE  /\ InFlight(b) \in Nat
         /\ \A p \in Procs : Amount[p] \in Nat /\ proc[p].amount = Amount[p] /\ proc[p].base \in Nat
         /\ paid[b] \in Nat /\ cash[b] \in Nat
<1>1. \A p \in Procs : Amount[p] \in Nat /\ proc[p].amount = Amount[p] /\ proc[p].base \in Nat
  BY WorkingOn DEF Amount, State
<1>2. InFlight(b) \in Nat
  BY <1>1, TotalType DEF InFlight, Crediting
<1>. QED  BY <1>1, <1>2 DEF TypeInv, TypeOK

(* A step that neither pays nor advances a bill at most forgets payments    *)
(* that were under way.                                                     *)
Quiet ==
  /\ UNCHANGED <<paid, cash>>
  /\ \A p \in Procs : proc'[p] = proc[p] \/ proc'[p].pc \notin {"read", "write"}

LEMMA QuietKeepsBanked ==
  ASSUME TypeInv, Banked, Quiet, NEW b \in Bills
  PROVE  BankedFor(b)'
<1>. DEFINE S == Crediting(b)
            T == Crediting(b)'
<1>1. T \in SUBSET S /\ \A p \in T : proc'[p] = proc[p]
  BY DEF Quiet, Crediting
<1>2. IsFiniteSet(S) /\ BankedFor(b)
  BY DEF Banked, BankedFor
<1>3. \A p \in S : Amount[p] \in Nat
  BY <1>2, InFlightType DEF Crediting
<1>4. IsFiniteSet(T) /\ Total(T, Amount) <= InFlight(b)
  BY <1>1, <1>2, <1>3, TotalPart DEF InFlight
<1>5. \A p \in T : Amount[p] = Amount'[p]
  BY <1>1 DEF Amount, Crediting
<1>6. InFlight(b)' = Total(T, Amount)
  <2>1. Total(T, Amount) = Total(T, Amount')
    BY <1>5, TotalSame
  <2>. QED  BY <2>1 DEF InFlight
<1>7. InFlight(b) \in Nat /\ paid[b] \in Nat /\ cash[b] \in Nat /\ \A p \in Procs : proc[p].base \in Nat
  BY <1>2, InFlightType
<1>8. Total(T, Amount) \in Nat
  BY <1>1, <1>3, <1>4, TotalType
<1>9. paid'[b] + InFlight(b)' <= cash'[b]
  BY <1>2, <1>4, <1>6, <1>7, <1>8 DEF BankedFor, Quiet
<1>10. ASSUME NEW p \in T, proc'[p].pc = "write"
       PROVE  proc'[p].base + InFlight(b)' <= cash'[b]
  <2>1. p \in S /\ proc[p].pc = "write" /\ proc'[p].base = proc[p].base /\ p \in Procs
    BY <1>1, <1>10 DEF Crediting
  <2>. QED  BY <2>1, <1>2, <1>4, <1>6, <1>7, <1>8 DEF BankedFor, Quiet
<1>. QED  BY <1>4, <1>9, <1>10 DEF BankedFor

(* The insert of a payment adds to the cash what it adds to what is in      *)
(* flight.                                                                  *)
LEMMA InsertKeepsBanked ==
  ASSUME TypeInv, Banked, NEW p \in Procs, InsertPayment(p), NEW b \in Bills
  PROVE  BankedFor(b)'
<1>1. proc[p] \in State /\ proc[p].bill \in Bills /\ proc[p].pc = "insert"
  BY WorkingOn DEF InsertPayment, Working
<1>2. proc' = [proc EXCEPT ![p] = [proc[p] EXCEPT !.pc = "read"]] /\ proc \in [Procs -> State]
  BY DEF InsertPayment, Goto, TypeInv, TypeOK, State
<1>3. \A q \in Procs : /\ proc'[q].bill = proc[q].bill /\ proc'[q].amount = proc[q].amount
                       /\ proc'[q].base = proc[q].base
                       /\ q # p => proc'[q].pc = proc[q].pc
  BY <1>1, <1>2 DEF State
<1>4. Amount' = Amount
  BY <1>3 DEF Amount
<1>5. proc'[p].pc = "read"
  BY <1>1, <1>2 DEF State
<1>6. IsFiniteSet(Crediting(b)) /\ BankedFor(b)
  BY DEF Banked, BankedFor
<1>7. InFlight(b) \in Nat /\ (\A q \in Procs : Amount[q] \in Nat /\ proc[q].amount = Amount[q] /\ proc[q].base \in Nat)
      /\ paid[b] \in Nat /\ cash[b] \in Nat
  BY <1>6, InFlightType
<1>8. paid' = paid
  BY DEF InsertPayment
<1>9. CASE proc[p].bill = b
  <2>1. Crediting(b)' = Crediting(b) \cup {p} /\ p \notin Crediting(b)
    BY <1>1, <1>3, <1>5, <1>9 DEF Crediting
  <2>2. cash'[b] = cash[b] + Amount[p]
    BY <1>1, <1>7, <1>9 DEF InsertPayment, TypeInv, TypeOK
  <2>3. \A q \in Crediting(b) \cup {p} : Amount[q] \in Nat
    BY <1>7 DEF Crediting
  <2>4. Total(Crediting(b) \cup {p}, Amount) = InFlight(b) + Amount[p]
    BY <1>6, <2>1, <2>3, TotalAdd DEF InFlight
  <2>5. InFlight(b)' = InFlight(b) + Amount[p]
    BY <1>4, <2>1, <2>4 DEF InFlight
  <2>6. IsFiniteSet(Crediting(b)')
    BY <1>6, <2>1, FS_AddElement
  <2>7. ASSUME NEW q \in Crediting(b)', proc'[q].pc = "write"
        PROVE  proc'[q].base + InFlight(b)' <= cash'[b]
    <3>1. q \in Crediting(b) /\ proc[q].pc = "write" /\ q \in Procs
      BY <1>3, <1>5, <2>1, <2>7 DEF Crediting
    <3>2. proc[q].base + InFlight(b) <= cash[b] /\ proc[q].base \in Nat /\ Amount[p] \in Nat
      BY <3>1, <1>6, <1>7 DEF BankedFor
    <3>. QED  BY <3>1, <3>2, <1>3, <1>7, <2>2, <2>5
  <2>8. paid'[b] + InFlight(b)' <= cash'[b]
    BY <1>6, <1>7, <1>8, <2>2, <2>5 DEF BankedFor
  <2>. QED  BY <2>6, <2>7, <2>8 DEF BankedFor
<1>10. CASE proc[p].bill # b
  <2>1. Crediting(b)' = Crediting(b)
    BY <1>1, <1>3, <1>10 DEF Crediting
  <2>2. cash'[b] = cash[b]
    BY <1>10 DEF InsertPayment, TypeInv, TypeOK
  <2>3. InFlight(b)' = InFlight(b)
    BY <1>4, <2>1 DEF InFlight
  <2>4. \A q \in Crediting(b) : proc'[q].pc = proc[q].pc /\ proc'[q].base = proc[q].base
    BY <1>3, <1>10 DEF Crediting
  <2>. QED  BY <1>6, <1>8, <2>1, <2>2, <2>3, <2>4 DEF BankedFor
<1>. QED  BY <1>9, <1>10

(* The second read keeps the amountPaid the bill has at that moment.        *)
LEMMA ReadKeepsBanked ==
  ASSUME TypeInv, Banked, NEW p \in Procs, ReadBill(p), NEW b \in Bills
  PROVE  BankedFor(b)'
<1>1. proc[p] \in State /\ proc[p].bill \in Bills /\ proc[p].pc = "read"
  BY WorkingOn DEF ReadBill, Working
<1>2. /\ proc' = [proc EXCEPT ![p] = [proc[p] EXCEPT !.pc = "write", !.base = paid[proc[p].bill],
                                                     !.owed = total[proc[p].bill]]]
      /\ proc \in [Procs -> State]
  BY DEF ReadBill, Goto, TypeInv, TypeOK, State
<1>3. \A q \in Procs : /\ proc'[q].bill = proc[q].bill /\ proc'[q].amount = proc[q].amount
                       /\ q # p => proc'[q] = proc[q]
  BY <1>1, <1>2 DEF State
<1>4. proc'[p].pc = "write" /\ proc'[p].base = paid[proc[p].bill]
  BY <1>1, <1>2 DEF State
<1>5. Amount' = Amount /\ Crediting(b)' = Crediting(b)
  BY <1>1, <1>3, <1>4 DEF Amount, Crediting
<1>6. InFlight(b)' = InFlight(b) /\ paid' = paid /\ cash' = cash
  BY <1>5 DEF InFlight, ReadBill, bill
<1>7. BankedFor(b)
  BY DEF Banked
<1>8. ASSUME NEW q \in Crediting(b)', proc'[q].pc = "write"
      PROVE  proc'[q].base + InFlight(b)' <= cash'[b]
  <2>1. CASE q = p
    <3>1. proc[p].bill = b
      BY <1>3, <1>8, <2>1 DEF Crediting
    <3>. QED  BY <3>1, <1>4, <1>6, <1>7, <2>1 DEF BankedFor
  <2>2. CASE q # p
    <3>1. q \in Crediting(b) /\ proc'[q] = proc[q]
      BY <1>3, <1>5, <1>8, <2>2 DEF Crediting
    <3>. QED  BY <3>1, <1>6, <1>7, <1>8 DEF BankedFor
  <2>. QED  BY <2>1, <2>2
<1>. QED  BY <1>5, <1>6, <1>7, <1>8 DEF BankedFor

(* The write replaces the bill's amountPaid by what its process has read    *)
(* and adds; a lost update lowers it.                                       *)
LEMMA WriteKeepsBanked ==
  ASSUME TypeInv, Banked, NEW p \in Procs, WriteBill(p), NEW b \in Bills
  PROVE  BankedFor(b)'
<1>1. proc[p] \in State /\ proc[p].bill \in Bills /\ proc[p].pc = "write"
  BY WorkingOn DEF WriteBill, Working
<1>2. /\ \A q \in Procs : q # p => proc'[q] = proc[q]
      /\ proc'[p].pc \notin {"read", "write"}
  BY DEF WriteBill, Done, Goto, At, Idle, TypeInv, TypeOK
<1>3. cash' = cash /\ paid' = [paid EXCEPT ![proc[p].bill] = proc[p].base + proc[p].amount]
  BY DEF WriteBill
<1>4. CASE proc[p].bill # b
  <2>1. Crediting(b)' = Crediting(b) /\ \A q \in Crediting(b) : proc'[q] = proc[q]
    BY <1>2, <1>4 DEF Crediting
  <2>2. \A q \in Crediting(b) : Amount[q] = Amount'[q]
    BY <2>1 DEF Amount, Crediting
  <2>3. Total(Crediting(b), Amount) = Total(Crediting(b), Amount')
    BY <2>2, TotalSame
  <2>4. InFlight(b)' = InFlight(b)
    BY <2>1, <2>3 DEF InFlight
  <2>5. paid'[b] = paid[b]
    BY <1>3, <1>4 DEF TypeInv, TypeOK
  <2>. QED  BY <1>3, <2>1, <2>4, <2>5 DEF Banked, BankedFor
<1>5. CASE proc[p].bill = b
  <2>. DEFINE S == Crediting(b)
  <2>1. p \in S /\ Crediting(b)' = S \ {p} /\ \A q \in S \ {p} : proc'[q] = proc[q]
    BY <1>1, <1>2, <1>5 DEF Crediting
  <2>2. IsFiniteSet(S) /\ BankedFor(b)
    BY DEF Banked, BankedFor
  <2>3. InFlight(b) \in Nat /\ (\A q \in Procs : Amount[q] \in Nat /\ proc[q].amount = Amount[q] /\ proc[q].base \in Nat)
        /\ paid[b] \in Nat /\ cash[b] \in Nat
    BY <2>2, InFlightType
  <2>4. \A q \in S : Amount[q] \in Nat
    BY <2>3 DEF Crediting
  <2>5. InFlight(b) = Total(S \ {p}, Amount) + Amount[p]
    BY <2>1, <2>2, <2>4, TotalRemove DEF InFlight
  <2>6. IsFiniteSet(S \ {p})
    BY <2>2, FS_RemoveElement
  <2>7. Total(S \ {p}, Amount) \in Nat
    BY <2>4, <2>6, TotalType
  <2>8. \A q \in S \ {p} : Amount[q] = Amount'[q]
    BY <2>1 DEF Amount, Crediting
  <2>9. InFlight(b)' = Total(S \ {p}, Amount)
    <3>1. Total(S \ {p}, Amount) = Total(S \ {p}, Amount')
      BY <2>8, TotalSame
    <3>. QED  BY <2>1, <3>1 DEF InFlight
  <2>10. paid'[b] = proc[p].base + Amount[p]
    BY <1>3, <1>5, <2>3 DEF TypeInv, TypeOK
  <2>11. proc[p].base + InFlight(b) <= cash[b]
    BY <1>1, <2>1, <2>2 DEF BankedFor
  <2>12. paid'[b] + InFlight(b)' <= cash'[b]
    BY <1>3, <2>3, <2>5, <2>7, <2>9, <2>10, <2>11
  <2>13. ASSUME NEW q \in Crediting(b)', proc'[q].pc = "write"
         PROVE  proc'[q].base + InFlight(b)' <= cash'[b]
    <3>1. q \in S /\ q \in Procs /\ proc'[q] = proc[q]
      BY <2>1, <2>13 DEF Crediting
    <3>2. proc[q].base + InFlight(b) <= cash[b] /\ proc[q].base \in Nat /\ Amount[p] \in Nat
      BY <2>2, <2>3, <2>13, <3>1 DEF BankedFor
    <3>. QED  BY <1>3, <2>3, <2>5, <2>7, <2>9, <3>1, <3>2
  <2>. QED  BY <2>1, <2>6, <2>12, <2>13 DEF BankedFor
<1>. QED  BY <1>4, <1>5

(* Every other step is quiet.                                               *)
LEMMA OtherStepsQuiet ==
  ASSUME TypeInv, [Next]_vars
  PROVE  Quiet \/ \E p \in Procs : Pays(p)
<1>. USE DEF Quiet, At, Idle, Goto, bill, workflow
<1>. proc \in [Procs -> State]
  BY DEF TypeInv, TypeOK, State
<1>1. CASE RowChanges
  BY <1>1 DEF RowChanges, Create, Update, Decide
<1>2. ASSUME NEW c \in Callers, NEW b \in Bills,
             BeginApprove(c, b) \/ BeginCancel(c, b) \/ MarkPaid(c, b) \/ Match(c, b)
      PROVE  Quiet
  BY <1>2 DEF BeginApprove, BeginCancel, MarkPaid, Match
<1>3. ASSUME NEW c \in Callers, WriteApprove(c) \/ WriteCancel(c) \/ WriteQueue(c)
      PROVE  Quiet
  BY <1>3 DEF WriteApprove, WriteCancel, WriteQueue, Done
<1>4. ASSUME NEW r \in Runs, ScheduleRun(r) \/ TriggerRun(r)
      PROVE  Quiet
  BY <1>4 DEF ScheduleRun, TriggerRun, StartRun
<1>5. ASSUME NEW r \in Runs, InsertRun(r) \/ Fetch(r) \/ TakeBill(r) \/ RunPays(r) \/ Demote(r) \/ EndRun(r)
      PROVE  Quiet
  BY <1>5 DEF InsertRun, Fetch, TakeBill, RunPays, Demote, EndRun, Done
<1>6. ASSUME NEW r \in Runs, FileRequest(r)
      PROVE  Quiet
  <2>1. proc' = [proc EXCEPT ![r] = [proc[r] EXCEPT !.pc = IF proc[r].amount <= AutoApprove THEN "pay" ELSE "demote"]]
    BY <1>6 DEF FileRequest
  <2>2. r \in Procs /\ proc[r] \in State
    BY DEF Procs
  <2>3. proc'[r].pc \in {"pay", "demote"}
    BY <2>1, <2>2 DEF State
  <2>. QED  BY <1>6, <2>1, <2>3 DEF FileRequest
<1>7. CASE Failures
  <2>1. ASSUME NEW c \in Callers, RequestFails(c)
        PROVE  Quiet
    BY <2>1 DEF RequestFails
  <2>2. ASSUME NEW r \in Runs, BillFails(r)
        PROVE  Quiet
    BY <2>2 DEF BillFails, Done
  <2>3. ASSUME NEW r \in Runs, RunFails(r)
        PROVE  Quiet
    BY <2>3 DEF RunFails
  <2>4. CASE Restart
    BY <2>4 DEF Restart
  <2>. QED  BY <1>7, <2>1, <2>2, <2>3, <2>4 DEF Failures
<1>8. CASE UNCHANGED vars
  BY <1>8 DEF vars
<1>. HIDE DEF Quiet, At, Idle, Goto, bill, workflow
<1>. QED  BY <1>1, <1>2, <1>3, <1>4, <1>5, <1>6, <1>7, <1>8
          DEF Next, RequestStarts, RequestContinues, RunContinues, Procs

LEMMA BankedInit == Init => Banked
<1>. SUFFICES ASSUME Init, NEW b \in Bills
              PROVE  BankedFor(b)
  BY DEF Banked
<1>1. Crediting(b) = {}
  BY DEF Init, Crediting, Idle, At
<1>2. InFlight(b) = 0 /\ IsFiniteSet(Crediting(b))
  BY <1>1, TotalEmpty, FS_EmptySet DEF InFlight
<1>. QED  BY <1>1, <1>2 DEF Init, BankedFor

LEMMA BankedStep == TypeInv /\ Banked /\ [Next]_vars => Banked'
<1>. SUFFICES ASSUME TypeInv, Banked, [Next]_vars, NEW b \in Bills
              PROVE  BankedFor(b)'
  BY DEF Banked
<1>1. CASE Quiet
  BY <1>1, QuietKeepsBanked
<1>2. ASSUME NEW p \in Procs, Pays(p)
      PROVE  BankedFor(b)'
  BY <1>2, InsertKeepsBanked, ReadKeepsBanked, WriteKeepsBanked DEF Pays
<1>. QED  BY <1>1, <1>2, OtherStepsQuiet

LEMMA BankedShows == TypeInv /\ Banked => ShownIsPaidOut
<1>. SUFFICES ASSUME TypeInv, Banked, NEW b \in Bills
              PROVE  paid[b] <= cash[b]
  BY DEF ShownIsPaidOut
<1>1. BankedFor(b)
  BY DEF Banked
<1>2. InFlight(b) \in Nat /\ paid[b] \in Nat /\ cash[b] \in Nat
  BY <1>1, InFlightType DEF BankedFor
<1>. QED  BY <1>1, <1>2 DEF BankedFor

(* No bill ever shows more money as paid than its payments rows add up to,  *)
(* for any number of requests, runs, errors and restarts.                   *)
THEOREM ShownPaidOut == Spec => []ShownIsPaidOut
BY TypeInvAlways, BankedInit, BankedStep, BankedShows, PTL DEF Spec

-----------------------------------------------------------------------------
(* Nothing works on a bill that is not there, and a process that is about   *)
(* to advance a bill nobody edited holds the total the bill has.            *)
Known ==
  /\ \A p \in Procs : proc[p].pc \in Working => status[proc[p].bill] # "none"
  /\ \A r \in Runs : \A d \in due[r] : status[d.bill] # "none"
OwedIsTotal ==
  \A p \in Procs : proc[p].pc = "write" /\ proc[p].bill \notin edited => proc[p].owed = total[proc[p].bill]
CoverInv == Known /\ OwedIsTotal /\ PaidIsCovered

(* What a step may do to the bills themselves.                              *)
LEMMA BillsStay ==
  ASSUME TypeInv, [Next]_vars, NEW b \in Bills
  PROVE  /\ status[b] # "none" => status'[b] # "none"
         /\ status[b] # "none" /\ b \notin edited' => total'[b] = total[b]
         /\ edited \subseteq edited'
         /\ cash'[b] \in Nat /\ cash'[b] >= cash[b]
         /\ status'[b] = "paid" /\ b \notin edited'
              => status[b] = "paid" \/ \E p \in Procs : WriteBill(p) /\ proc[p].bill = b
<1>. DEFINE Stays == /\ status[b] # "none" => status'[b] # "none"
                     /\ status[b] # "none" /\ b \notin edited' => total'[b] = total[b]
                     /\ edited \subseteq edited'
                     /\ cash'[b] \in Nat /\ cash'[b] >= cash[b]
                     /\ status'[b] = "paid" /\ b \notin edited'
                          => status[b] = "paid" \/ \E p \in Procs : WriteBill(p) /\ proc[p].bill = b
<1>. status \in [Bills -> Status \cup {"none"}] /\ total \in [Bills -> Amounts \cup {0}] /\ cash \in [Bills -> Nat]
  BY DEF TypeInv, TypeOK
<1>. USE DEF SetStatus, bill, workflow, Status
<1>1. ASSUME NEW x \in Bills, Create(x) \/ Update(x)
      PROVE  Stays
  BY <1>1 DEF Create, Update
<1>2. ASSUME NEW i \in DOMAIN requests, Decide(i)
      PROVE  Stays
  BY <1>2 DEF Decide
<1>3. ASSUME NEW c \in Callers, RequestStarts(c)
      PROVE  Stays
  BY <1>3 DEF RequestStarts, BeginApprove, BeginCancel, MarkPaid, Match
<1>4. ASSUME NEW c \in Callers, WriteApprove(c) \/ WriteCancel(c) \/ WriteQueue(c)
      PROVE  Stays
  BY <1>4 DEF WriteApprove, WriteCancel, WriteQueue
<1>5. ASSUME NEW p \in Procs, InsertPayment(p)
      PROVE  Stays
  <2>1. proc[p].amount \in Nat /\ proc[p].bill \in Bills
    BY <1>5, WorkingOn DEF InsertPayment, Working, State
  <2>2. cash'[b] = IF b = proc[p].bill THEN cash[b] + proc[p].amount ELSE cash[b]
    BY <1>5, <2>1 DEF InsertPayment
  <2>3. cash'[b] \in Nat /\ cash'[b] >= cash[b]
    BY <2>1, <2>2
  <2>. QED  BY <1>5, <2>3 DEF InsertPayment
<1>6. ASSUME NEW p \in Procs, ReadBill(p)
      PROVE  Stays
  BY <1>6 DEF ReadBill
<1>7. ASSUME NEW p \in Procs, WriteBill(p)
      PROVE  Stays
  <2>1. \A x \in Bills : x # proc[p].bill => status'[x] = status[x]
    BY <1>7 DEF WriteBill
  <2>2. proc[p].bill \in Bills /\ status'[proc[p].bill] \in {"paid", "partially_paid"}
    BY <1>7, WorkingOn DEF WriteBill, NextStatus, Working
  <2>3. UNCHANGED <<total, cash, edited>>
    BY <1>7 DEF WriteBill
  <2>. QED  BY <1>7, <2>1, <2>2, <2>3
<1>8. ASSUME NEW r \in Runs, ScheduleRun(r) \/ TriggerRun(r) \/ InsertRun(r) \/ Fetch(r) \/ TakeBill(r)
                             \/ RunPays(r) \/ FileRequest(r) \/ EndRun(r)
      PROVE  Stays
  BY <1>8 DEF ScheduleRun, TriggerRun, StartRun, InsertRun, Fetch, TakeBill, RunPays, FileRequest, EndRun
<1>9. ASSUME NEW r \in Runs, Demote(r)
      PROVE  Stays
  BY <1>9 DEF Demote
<1>10. ASSUME Failures
       PROVE  Stays
  <2>1. UNCHANGED <<bill, edited>>
    BY <1>10 DEF Failures, RequestFails, BillFails, RunFails, Restart
  <2>. QED  BY <2>1
<1>11. ASSUME UNCHANGED vars
       PROVE  Stays
  BY <1>11 DEF vars
<1>. HIDE DEF Stays, SetStatus, bill, workflow, Status
<1>12. Stays
  <2>1. CASE RowChanges
    BY <2>1, <1>1, <1>2, Zenon DEF RowChanges
  <2>2. ASSUME NEW p \in Procs, Pays(p)
        PROVE  Stays
    BY <2>2, <1>5, <1>6, <1>7, Zenon DEF Pays
  <2>3. ASSUME NEW c \in Callers, RequestStarts(c) \/ RequestContinues(c)
        PROVE  Stays
    BY <2>2, <2>3, <1>3, <1>4, Zenon DEF RequestContinues, Procs
  <2>4. ASSUME NEW r \in Runs, ScheduleRun(r) \/ TriggerRun(r) \/ RunContinues(r)
        PROVE  Stays
    BY <2>2, <2>4, <1>8, <1>9, Zenon DEF RunContinues, Procs
  <2>5. Next \/ UNCHANGED vars
    OBVIOUS
  <2>. QED  BY <2>1, <2>3, <2>4, <2>5, <1>10, <1>11, Zenon DEF Next
<1>. QED  BY <1>12 DEF Stays

(* A handler only turns to a bill that is there.                            *)
LEMMA KnownStep ==
  ASSUME TypeInv, Known, [Next]_vars
  PROVE  Known'
<1>. DEFINE There(s) == s.pc \in Working => status'[s.bill] # "none"
<1>1. \A b \in Bills : status[b] # "none" => status'[b] # "none"
  BY BillsStay
<1>2. \A p \in Procs : proc[p] \in State /\ (proc[p].pc \in Working => proc[p].bill \in Bills)
  BY WorkingOn
<1>3. \A p \in Procs : There(proc[p])
  BY <1>1, <1>2 DEF Known
<1>4. \A r \in Runs : \A d \in due[r] : d.bill \in Bills /\ status[d.bill] # "none" /\ status'[d.bill] # "none"
  BY <1>1 DEF Known, TypeInv, TypeOK
<1>. HIDE DEF There
<1>5. \A b, amount : There(At("next", b, amount)) /\ There(At("start", b, amount)) /\ There(At("fetch", b, amount)) /\ There(Idle)
  BY DEF There, At, Idle, Working
<1>6. ASSUME NEW p \in Procs, NEW s, There(s), Goto(p, s)
      PROVE  \A q \in Procs : There(proc'[q])
  BY <1>3, <1>6 DEF Goto, TypeInv, TypeOK
<1>7. ASSUME NEW p \in Procs, Done(p)
      PROVE  \A q \in Procs : There(proc'[q])
  BY <1>5, <1>6, <1>7 DEF Done
<1>8. \A amount : \A b \in Bills : Open(b) =>
        There(At("approve", b, amount)) /\ There(At("cancel", b, amount)) /\ There(At("insert", b, amount))
  BY <1>1 DEF There, At, Open, Status, Closed
<1>. DEFINE Goal == (\A q \in Procs : There(proc'[q])) /\ \A r \in Runs : due'[r] \subseteq due[r] \/ Fetch(r)
<1>9. ASSUME RowChanges
      PROVE  Goal
  BY <1>3, <1>9 DEF RowChanges, Create, Update, Decide, workflow
<1>10. ASSUME NEW c \in Callers, NEW b \in Bills, BeginApprove(c, b) \/ BeginCancel(c, b) \/ MarkPaid(c, b)
       PROVE  Goal
  <2>1. \E s : Goto(c, s) /\ There(s)
    BY <1>8, <1>10 DEF BeginApprove, BeginCancel, MarkPaid, Payable
  <2>. QED  BY <2>1, <1>6, <1>10 DEF BeginApprove, BeginCancel, MarkPaid, workflow, Procs
<1>11. ASSUME NEW c \in Callers, NEW b \in Bills, Match(c, b)
       PROVE  Goal
  <2>1. There(At("queue", b, 0))
    BY <1>1, <1>11 DEF Match, There, At
  <2>. QED  BY <2>1, <1>3, <1>6, <1>11 DEF Match, workflow, Procs
<1>12. ASSUME NEW c \in Callers, WriteApprove(c) \/ WriteCancel(c) \/ WriteQueue(c)
       PROVE  Goal
  BY <1>7, <1>12 DEF WriteApprove, WriteCancel, WriteQueue, workflow, Procs
<1>13. ASSUME NEW p \in Procs, Pays(p)
       PROVE  Goal
  <2>1. proc[p] \in State /\ There(proc[p])
    BY <1>2, <1>3
  <2>2. CASE InsertPayment(p)
    <3>1. There([proc[p] EXCEPT !.pc = "read"])
      BY <2>1, <2>2 DEF InsertPayment, There, State, Working
    <3>. QED  BY <2>2, <3>1, <1>6 DEF InsertPayment, workflow
  <2>3. CASE ReadBill(p)
    <3>1. There([proc[p] EXCEPT !.pc = "write", !.base = paid[proc[p].bill], !.owed = total[proc[p].bill]])
      BY <2>1, <2>3 DEF ReadBill, There, State, Working
    <3>. QED  BY <2>3, <3>1, <1>6 DEF ReadBill, workflow
  <2>4. CASE WriteBill(p)
    BY <2>4, <1>7 DEF WriteBill, workflow
  <2>. QED  BY <1>13, <2>2, <2>3, <2>4 DEF Pays
<1>14. ASSUME NEW r \in Runs, ScheduleRun(r) \/ TriggerRun(r)
       PROVE  Goal
  BY <1>5, <1>6, <1>14 DEF ScheduleRun, TriggerRun, StartRun, workflow, Procs
<1>15. ASSUME NEW r \in Runs, InsertRun(r) \/ Fetch(r) \/ Demote(r) \/ EndRun(r)
       PROVE  Goal
  BY <1>5, <1>6, <1>7, <1>15 DEF InsertRun, Fetch, Demote, EndRun, workflow, Procs, TypeInv, TypeOK
<1>16. ASSUME NEW r \in Runs, TakeBill(r)
       PROVE  Goal
  <2>1. PICK d \in due[r] : /\ due' = [due EXCEPT ![r] = @ \ {d}]
                            /\ Goto(r, At(IF d.amount <= AutoPay THEN "pay" ELSE "file", d.bill, d.amount))
    BY <1>16 DEF TakeBill
  <2>2. There(At(IF d.amount <= AutoPay THEN "pay" ELSE "file", d.bill, d.amount))
    BY <1>4 DEF There, At
  <2>3. \A q \in Runs : due'[q] \subseteq due[q]
    BY <2>1 DEF TypeInv, TypeOK
  <2>. QED  BY <2>1, <2>2, <2>3, <1>6 DEF Procs
<1>17. ASSUME NEW r \in Runs, RunPays(r)
       PROVE  Goal
  <2>1. r \in Procs /\ There(proc[r]) /\ proc[r].pc = "pay"
    BY <1>3, <1>17 DEF RunPays, Procs
  <2>2. There(At("insert", proc[r].bill, proc[r].amount))
    BY <2>1 DEF There, At, Working
  <2>. QED  BY <2>1, <2>2, <1>6, <1>7, <1>17 DEF RunPays, workflow
<1>18. ASSUME NEW r \in Runs, FileRequest(r)
       PROVE  Goal
  <2>1. r \in Procs /\ There(proc[r]) /\ proc[r] \in State /\ proc[r].pc = "file"
    BY <1>2, <1>3, <1>18 DEF FileRequest, Procs
  <2>2. There([proc[r] EXCEPT !.pc = IF proc[r].amount <= AutoApprove THEN "pay" ELSE "demote"])
    BY <2>1 DEF There, State, Working
  <2>. QED  BY <2>1, <2>2, <1>6, <1>18 DEF FileRequest
<1>19. ASSUME Failures
       PROVE  Goal
  <2>1. CASE Restart
    BY <2>1, <1>5 DEF Restart, Idle
  <2>2. ASSUME NEW c \in Callers, RequestFails(c)
        PROVE  Goal
    BY <2>2, <1>5, <1>6 DEF RequestFails, workflow, Procs
  <2>3. ASSUME NEW r \in Runs, BillFails(r) \/ RunFails(r)
        PROVE  Goal
    BY <2>3, <1>5, <1>6, <1>7 DEF BillFails, RunFails, workflow, Procs
  <2>. QED  BY <1>19, <2>1, <2>2, <2>3 DEF Failures
<1>20. ASSUME UNCHANGED vars
       PROVE  Goal
  BY <1>3, <1>20 DEF vars
<1>. HIDE DEF Goal
<1>21. Goal
  <2>1. Next \/ UNCHANGED vars
    OBVIOUS
  <2>2. ASSUME NEW c \in Callers, RequestStarts(c) \/ RequestContinues(c)
        PROVE  Goal
    BY <2>2, <1>10, <1>11, <1>12, <1>13, Zenon DEF RequestStarts, RequestContinues, Procs
  <2>3. ASSUME NEW r \in Runs, ScheduleRun(r) \/ TriggerRun(r) \/ RunContinues(r)
        PROVE  Goal
    BY <2>3, <1>13, <1>14, <1>15, <1>16, <1>17, <1>18, Zenon DEF RunContinues, Procs
  <2>. QED  BY <2>1, <2>2, <2>3, <1>9, <1>19, <1>20, Zenon DEF Next
<1>22. ASSUME NEW r \in Runs, NEW d \in due'[r]
       PROVE  status'[d.bill] # "none"
  <2>1. CASE d \in due[r]
    BY <2>1, <1>4
  <2>2. CASE Fetch(r)
    <3>1. PICK b \in Bills : d.bill = b /\ status[b] \in Fetched
      BY <2>2, <1>22 DEF Fetch, TypeInv, TypeOK
    <3>. QED  BY <3>1, <1>1 DEF Fetched
  <2>. QED  BY <2>1, <2>2, <1>21, <1>22 DEF Goal
<1>. QED  BY <1>21, <1>22 DEF Goal, Known, There

LEMMA OwedStep ==
  ASSUME TypeInv, Known, OwedIsTotal, [Next]_vars
  PROVE  OwedIsTotal'
<1>. SUFFICES ASSUME NEW p \in Procs, proc'[p].pc = "write", proc'[p].bill \notin edited'
              PROVE  proc'[p].owed = total'[proc'[p].bill]
  BY DEF OwedIsTotal
<1>. proc[p] \in State /\ (proc[p].pc \in Working => proc[p].bill \in Bills /\ status[proc[p].bill] # "none")
  BY WorkingOn DEF Known
<1>1. CASE proc'[p] = proc[p]
  <2>1. proc[p].bill \in Bills /\ status[proc[p].bill] # "none" /\ proc[p].bill \notin edited'
    BY <1>1 DEF Working
  <2>2. proc[p].bill \notin edited /\ total'[proc[p].bill] = total[proc[p].bill]
    BY <2>1, BillsStay
  <2>. QED  BY <1>1, <2>2 DEF OwedIsTotal
<1>2. CASE proc'[p] # proc[p]
  <2>1. PICK q \in Procs : Pays(q)
    BY <1>2, OtherStepsQuiet DEF Quiet
  <2>2. ReadBill(q) /\ q = p
    <3>1. proc \in [Procs -> State]
      BY DEF TypeInv, TypeOK, State
    <3>2. CASE InsertPayment(q)
      <4>1. proc' = [proc EXCEPT ![q] = [proc[q] EXCEPT !.pc = "read"]]
        BY <3>2 DEF InsertPayment, Goto
      <4>. QED  BY <3>1, <4>1, <1>2 DEF State
    <3>3. CASE WriteBill(q)
      BY <3>1, <3>3, <1>2 DEF WriteBill, Done, Goto, At, Idle
    <3>4. CASE ReadBill(q)
      BY <3>1, <3>4, <1>2 DEF ReadBill, Goto
    <3>. QED  BY <2>1, <3>2, <3>3, <3>4 DEF Pays
  <2>3. proc'[p] = [proc[p] EXCEPT !.pc = "write", !.base = paid[proc[p].bill], !.owed = total[proc[p].bill]]
    BY <2>2 DEF ReadBill, Goto, TypeInv, TypeOK
  <2>4. proc'[p].owed = total[proc[p].bill] /\ proc'[p].bill = proc[p].bill /\ total' = total
    BY <2>2, <2>3 DEF State, ReadBill, bill
  <2>. QED  BY <2>4
<1>. QED  BY <1>1, <1>2

LEMMA CoveredStep ==
  ASSUME TypeInv, Banked, CoverInv, [Next]_vars
  PROVE  PaidIsCovered'
<1>. SUFFICES ASSUME NEW b \in Bills, b \notin edited', status'[b] = "paid"
              PROVE  cash'[b] >= total'[b]
  BY DEF PaidIsCovered
<1>1. b \notin edited /\ cash'[b] \in Nat /\ cash'[b] >= cash[b] /\ (status[b] # "none" => total'[b] = total[b])
  BY BillsStay
<1>2. total[b] \in Nat /\ cash[b] \in Nat /\ paid[b] \in Nat
  BY OutstandingType DEF TypeInv, TypeOK
<1>3. CASE status[b] = "paid"
  BY <1>1, <1>2, <1>3 DEF CoverInv, PaidIsCovered
<1>4. ASSUME NEW p \in Procs, WriteBill(p), proc[p].bill = b
      PROVE  cash'[b] >= total'[b]
  <2>1. proc[p].pc = "write" /\ p \in Crediting(b) /\ proc[p] \in State
    BY <1>4, WorkingOn DEF WriteBill, Crediting
  <2>2. proc[p].owed = total[b]
    BY <1>1, <1>4, <2>1 DEF CoverInv, OwedIsTotal
  <2>3. BankedFor(b)
    BY DEF Banked
  <2>4. /\ InFlight(b) \in Nat
        /\ \A q \in Procs : Amount[q] \in Nat /\ proc[q].amount = Amount[q] /\ proc[q].base \in Nat
    BY <2>3, InFlightType DEF BankedFor
  <2>5. Amount[p] <= InFlight(b)
    BY <2>1, <2>3, <2>4, TotalBound DEF BankedFor, InFlight, Crediting
  <2>6. proc[p].base + InFlight(b) <= cash[b]
    BY <2>1, <2>3 DEF BankedFor
  <2>7. NextStatus(p) = "paid"
    BY <1>4 DEF WriteBill, SetStatus, TypeInv, TypeOK
  <2>8. proc[p].base + Amount[p] >= total[b]
    BY <2>2, <2>4, <2>7 DEF NextStatus
  <2>9. cash'[b] = cash[b] /\ total'[b] = total[b]
    BY <1>4 DEF WriteBill
  <2>. QED  BY <1>2, <2>4, <2>5, <2>6, <2>8, <2>9
<1>. QED  BY <1>1, <1>3, <1>4, BillsStay

(* A bill whose status and total nobody edited is only marked 'paid' when   *)
(* payments rows cover its total, however partial payments interleave.      *)
THEOREM PaidBillsAreCovered == Spec => []PaidIsCovered
<1>1. Init => CoverInv
  BY DEF Init, CoverInv, Known, OwedIsTotal, PaidIsCovered, Idle, At, Working
<1>2. TypeInv /\ Banked /\ CoverInv /\ [Next]_vars => CoverInv'
  BY KnownStep, OwedStep, CoveredStep DEF CoverInv
<1>3. CoverInv => PaidIsCovered
  BY DEF CoverInv
<1>. QED  BY <1>1, <1>2, <1>3, TypeInvAlways, BankedInit, BankedStep, PTL DEF Spec
=============================================================================
