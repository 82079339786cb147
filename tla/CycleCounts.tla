------------------------------ MODULE CycleCounts ------------------------------
(***************************************************************************)
(* One cycle count of the product: its sheet, its lines, and the procedures*)
(* of routers/cycleCounts.ts, composed with the stock they count.  Approval*)
(* posts the variance of each line with adjustInventoryQuantity: those     *)
(* calls are the steps of LotStock.                                        *)
(***************************************************************************)
EXTENDS LotStock

CONSTANT MaxLines  \* bound on the lines ever inserted

ASSUME LinesAssumption == MaxLines \in Nat

VARIABLES
  sheet,  \* status of the cycleCounts row; "none" before it is created
  lines,  \* the cycleCountLines rows in the order of their ids
  desk,   \* desk[c]: the request of c about the count: next call, what it has read
  posts   \* history: ledger entries posted for each line

countVars == <<sheet, lines, desk, posts>>

SheetStatus == {"draft", "in_progress", "pending_review", "approved", "cancelled"}
LineStatus == {"pending", "counted", "recount", "approved", "deleted"}
Uncounted == -1  \* a null countedQuantity

ALLOWED_TRANSITIONS ==
  [draft          |-> {"in_progress", "cancelled"},
   in_progress    |-> {"pending_review", "cancelled"},
   pending_review |-> {"approved", "in_progress", "cancelled"},
   approved       |-> {},
   cancelled      |-> {}]

(* A line; and, as history, the balance it was taken from (0: from the      *)
(* aggregate) and the number of stock calls before.                         *)
Line(l, r, q) ==
  [lot |-> l, system |-> q, counted |-> Uncounted, status |-> "pending", row |-> r, after |-> count.calls]
LineType == [lot : Lots \cup {NoLot}, system : Nat, counted : Nat \cup {Uncounted}, status : LineStatus,
             row : Nat, after : Nat]
(* The variance column is written with the counted quantity and is null     *)
(* without one.                                                             *)
Variance(line) == IF line.counted = Uncounted THEN 0 ELSE line.counted - line.system
Live == {i \in DOMAIN lines : lines[i].status # "deleted"}
Uncleared == {i \in Live : lines[i].status \in {"pending", "recount"}}

(* clear .. insert: generate; record: recordLine; lines, write: the changes *)
(* of status; post, adjusting, stamp: approve, line by line.                *)
DeskPC == {"idle", "clear", "balances", "aggregate", "insert", "record", "lines", "write",
           "post", "adjusting", "stamp"}
IdleDesk == [pc |-> "idle", to |-> "draft", line |-> 0, qty |-> 0, zeros |-> FALSE, snap |-> <<>>, left |-> <<>>]

CountTypeOK ==
  /\ TypeOK
  /\ sheet \in SheetStatus \cup {"none"}
  /\ lines \in Seq(LineType)
  /\ desk \in [Callers -> [pc : DeskPC, to : SheetStatus, line : Nat, qty : Nat, zeros : BOOLEAN,
                           snap : Seq(LineType), left : Seq([id : Nat, lot : Lots \cup {NoLot}, variance : Int])]]
  /\ posts \in Seq(Nat)
  /\ Len(posts) = Len(lines)

CountInit ==
  /\ Init
  /\ sheet = "none"
  /\ lines = <<>>
  /\ desk = [c \in Callers |-> IdleDesk]
  /\ posts = <<>>

(* A caller makes one request at a time, about stock or about the count.    *)
Free(c) == desk[c] = IdleDesk /\ IsIdle(c)
Does(c, pc) == desk[c].pc = pc
Turns(c, pc) == desk' = [desk EXCEPT ![c].pc = pc]
Ends(c) == desk' = [desk EXCEPT ![c] = IdleDesk]

-----------------------------------------------------------------------------
(* create, and generateLines: clear the pending lines, then take a snapshot.*)

Create(c) ==
  /\ Free(c)
  /\ sheet = "none"
  /\ sheet' = "draft"
  /\ UNCHANGED <<vars, lines, desk, posts>>

BeginGenerate(c) ==
  /\ Free(c)
  /\ sheet = "draft"
  /\ \E zeros \in BOOLEAN : desk' = [desk EXCEPT ![c] = [IdleDesk EXCEPT !.pc = "clear", !.zeros = zeros]]
  /\ UNCHANGED <<vars, sheet, lines, posts>>

ClearPending(c) ==
  /\ Does(c, "clear")
  /\ lines' = [i \in DOMAIN lines |->
                 IF lines[i].status = "pending" THEN [lines[i] EXCEPT !.status = "deleted"] ELSE lines[i]]
  /\ Turns(c, "balances")
  /\ UNCHANGED <<vars, sheet, posts>>

(* Mutant: the snapshot leaves out what is reserved or in quarantine.       *)
ReadAvailable(c) ==
  /\ Does(c, "balances")
  /\ LET ids == Ascending({r \in DOMAIN rows : rows[r].status = "available" /\ (rows[r].qty > 0 \/ desk[c].zeros)}) IN
     desk' = [desk EXCEPT
       ![c].pc = IF rows = <<>> THEN "aggregate" ELSE "insert",
       ![c].snap = [i \in DOMAIN ids |-> Line(rows[ids[i]].lot, ids[i], rows[ids[i]].qty)]]
  /\ UNCHANGED <<vars, sheet, lines, posts>>

(* One line for each lot balance; a product without one gets one line for   *)
(* its aggregate.                                                           *)
ReadBalances(c) ==
  /\ Does(c, "balances")
  /\ LET ids == Ascending({r \in DOMAIN rows : rows[r].qty > 0 \/ desk[c].zeros}) IN
     desk' = [desk EXCEPT
       ![c].pc = IF rows = <<>> THEN "aggregate" ELSE "insert",
       ![c].snap = [i \in DOMAIN ids |-> Line(rows[ids[i]].lot, ids[i], rows[ids[i]].qty)]]
  /\ UNCHANGED <<vars, sheet, lines, posts>>

ReadAggregate(c) ==
  /\ Does(c, "aggregate")
  /\ desk' = [desk EXCEPT
       ![c].pc = "insert",
       ![c].snap = IF agg > 0 \/ desk[c].zeros THEN <<Line(NoLot, 0, agg)>> ELSE <<>>]
  /\ UNCHANGED <<vars, sheet, lines, posts>>

InsertLines(c) ==
  LET snap == desk[c].snap IN
  /\ Does(c, "insert")
  /\ Len(lines) + Len(snap) <= MaxLines
  /\ lines' = lines \o snap
  /\ posts' = posts \o [i \in DOMAIN snap |-> 0]
  /\ Ends(c)
  /\ UNCHANGED <<vars, sheet>>

-----------------------------------------------------------------------------
(* recordLine reads the line and its sheet, then writes the line by its id. *)
BeginRecord(c) ==
  /\ Free(c)
  /\ sheet \in {"in_progress", "pending_review"}
  /\ \E i \in Live, q \in 0..MaxQty :
       desk' = [desk EXCEPT ![c] = [IdleDesk EXCEPT !.pc = "record", !.line = i, !.qty = q]]
  /\ UNCHANGED <<vars, sheet, lines, posts>>

SetLine(i, line) == lines' = IF i \in Live THEN [lines EXCEPT ![i] = line] ELSE lines

WriteRecord(c) ==
  LET i == desk[c].line IN
  /\ Does(c, "record")
  /\ SetLine(i, [lines[i] EXCEPT !.counted = desk[c].qty, !.status = "counted"])
  /\ Ends(c)
  /\ UNCHANGED <<vars, sheet, posts>>

(* flagForRecount looks at nothing.                                         *)
FlagForRecount(c) ==
  /\ Free(c)
  /\ \E i \in Live : SetLine(i, [lines[i] EXCEPT !.counted = Uncounted, !.status = "recount"])
  /\ UNCHANGED <<vars, sheet, desk, posts>>

-----------------------------------------------------------------------------
(* start, submitForReview, cancel and approve read the sheet ...            *)
BeginMove(c) ==
  /\ Free(c)
  /\ sheet # "none"
  /\ \E to \in ALLOWED_TRANSITIONS[sheet] :
       desk' = [desk EXCEPT ![c] = [IdleDesk EXCEPT !.pc = IF to = "cancelled" THEN "write" ELSE "lines", !.to = to]]
  /\ UNCHANGED <<vars, sheet, lines, posts>>

(* ... then its lines ...                                                   *)
ReadLines(c) ==
  LET to == desk[c].to
      ids == Ascending(Live)
  IN
  /\ Does(c, "lines")
  /\ desk' = [desk EXCEPT ![c] =
       CASE to = "in_progress" -> IF Live = {} THEN IdleDesk ELSE [@ EXCEPT !.pc = "write"]
         [] to = "pending_review" -> IF Uncleared # {} THEN IdleDesk ELSE [@ EXCEPT !.pc = "write"]
         [] OTHER -> [@ EXCEPT !.pc = "post",
                        !.left = [j \in DOMAIN ids |-> [id |-> ids[j], lot |-> lines[ids[j]].lot,
                                                        variance |-> Variance(lines[ids[j]])]]]]
  /\ UNCHANGED <<vars, sheet, lines, posts>>

(* Mutant: an approval leaves the sheet in review.                          *)
WriteNoApproval(c) ==
  /\ Does(c, "write") \/ (Does(c, "post") /\ desk[c].left = <<>>)
  /\ sheet' = IF desk[c].to = "approved" THEN sheet ELSE desk[c].to
  /\ Ends(c)
  /\ UNCHANGED <<vars, lines, posts>>

(* ... and write the new status; approve does when it is through the lines. *)
WriteStatus(c) ==
  /\ Does(c, "write") \/ (Does(c, "post") /\ desk[c].left = <<>>)
  /\ sheet' = desk[c].to
  /\ Ends(c)
  /\ UNCHANGED <<vars, lines, posts>>

-----------------------------------------------------------------------------
(* approveCycleCount, for each line as read: post the variance, if any ...  *)

NextLine(c) == desk' = [desk EXCEPT ![c].pc = "post", ![c].left = Tail(@)]

PostVariance(c) ==
  /\ Does(c, "post")
  /\ desk[c].left # <<>>
  /\ LET line == Head(desk[c].left) IN
     \/ /\ line.variance = 0
        /\ Turns(c, "stamp")
        /\ UNCHANGED <<todo, count>>
     \/ /\ line.variance # 0
        /\ \E current \in InLot(line.lot) :
             IF line.lot = NoLot \/ current + line.variance >= 0
             THEN /\ Turns(c, "adjusting")
                  /\ todo' = [todo EXCEPT ![c] = <<Adjustment(line.lot, line.variance, current)>>]
                  /\ count' = [count EXCEPT !.adjusted = TRUE]
             ELSE NextLine(c) /\ UNCHANGED <<todo, count>>
  /\ UNCHANGED <<rows, lotStatus, agg, posted, pick, sheet, lines, posts>>

(* Mutant: the error is caught, and the line approved.                      *)
SkipNothing(c) ==
  /\ Does(c, "adjusting")
  /\ todo[c] = <<>>
  /\ Turns(c, "stamp")
  /\ UNCHANGED <<vars, sheet, lines, posts>>

(* ... skip the line when adjustInventoryQuantity throws ...                *)
SkipLine(c) ==
  /\ Does(c, "adjusting")
  /\ todo[c] = <<>>
  /\ NextLine(c)
  /\ UNCHANGED <<vars, sheet, lines, posts>>

(* (the ledger entry is the last call of an adjustment)                     *)
PostedLine(c) ==
  /\ Does(c, "adjusting")
  /\ PostEntry(c)
  /\ Turns(c, "stamp")
  /\ posts' = [posts EXCEPT ![Head(desk[c].left).id] = @ + 1]
  /\ UNCHANGED <<sheet, lines>>

(* ... and mark the line approved.                                          *)
StampLine(c) ==
  LET i == Head(desk[c].left).id IN
  /\ Does(c, "stamp")
  /\ SetLine(i, [lines[i] EXCEPT !.status = "approved"])
  /\ NextLine(c)
  /\ UNCHANGED <<vars, sheet, posts>>

(* An error outside an adjustment, or a restart, ends the request.          *)
RequestFails(c) ==
  /\ desk[c] # IdleDesk
  /\ count.faults < MaxFaults
  /\ count' = [count EXCEPT !.faults = @ + 1]
  /\ Throw(c)
  /\ Ends(c)
  /\ UNCHANGED <<rows, lotStatus, agg, posted, pick, sheet, lines, posts>>

-----------------------------------------------------------------------------
(* Stock moves by itself, or as a part of an approval.                      *)
StockStep(c) ==
  \/ desk[c] = IdleDesk /\ Starts(c)
  \/ Resolves(c)
  \/ desk[c] = IdleDesk /\ Writes(c)
  \/ Does(c, "adjusting") /\ (InsertRow(c) \/ SetRow(c) \/ WriteAgg(c))
  \/ CutShort(c)

CountStep(c) ==
  \/ Create(c) \/ BeginGenerate(c) \/ ClearPending(c) \/ ReadBalances(c) \/ ReadAggregate(c) \/ InsertLines(c)
  \/ BeginRecord(c) \/ WriteRecord(c) \/ FlagForRecount(c)
  \/ BeginMove(c) \/ ReadLines(c) \/ WriteStatus(c)
  \/ PostVariance(c) \/ SkipLine(c) \/ PostedLine(c) \/ StampLine(c)
  \/ RequestFails(c)

CountNext == \E c \in Callers : (StockStep(c) /\ UNCHANGED countVars) \/ CountStep(c)

CountSpec == CountInit /\ [][CountNext]_<<vars, countVars>>

-----------------------------------------------------------------------------
(* Properties.                                                              *)

(* A line marked as approved that shows a variance has a ledger entry for   *)
(* it, although lines that cannot be posted are skipped, adjustments are    *)
(* cut short, and an approval that was is begun again (one caller).         *)
ApprovedIsPosted ==
  \A i \in DOMAIN lines :
    lines[i].status = "approved" /\ Variance(lines[i]) # 0 => posts[i] >= 1

(* "stock is corrected": when a count has been approved as a whole, every   *)
(* line counted, no balance in two lines or in a bin, and nothing else      *)
(* moved since the snapshot, each lot holds what was counted, wherever it   *)
(* was counted.                                                             *)
Complete == \A i \in Live : lines[i].status = "approved" /\ lines[i].counted # Uncounted
NoBalanceTwice == \A i, j \in Live : lines[i].row = lines[j].row => i = j
InLots(l) == Total({r \in DOMAIN rows : rows[r].lot = l}, Stock)
Counted(l) == Total({i \in Live : lines[i].lot = l}, [i \in DOMAIN lines |-> lines[i].counted])
CountSettles ==
  /\ sheet = "approved" /\ Complete /\ NoBalanceTwice /\ Unbinned
  /\ count.faults = 0 /\ Quiescent /\ \A i \in Live : lines[i].after = count.calls
  => IF rows = <<>> THEN \A i \in Live : agg = lines[i].counted
     ELSE \A l \in Lots : InLots(l) = Counted(l)

(* "post every non-zero variance to the inventory ledger as a count_adjust  *)
(* transaction": one for each line, and a second one only when an approval  *)
(* that was cut short is begun again (one caller).                          *)
PostedAgainOnlyAfterFault == \A i \in DOMAIN lines : posts[i] <= 1 + count.faults
=============================================================================
