---------------------------- MODULE MCCycleCounts ----------------------------
(***************************************************************************)
(* TLC instance of CycleCounts: lot 1 is undated, lot 2 expires in 10 days,*)
(* lot 3 expired yesterday; bin1 precedes bin2 on the walk and holds 3.    *)
(* The operations are explored in three sets of bounds: what happens to    *)
(* three lots on the floor; to two lots with bins and reservations, with a *)
(* handler cut short; to a count, while little else moves.                 *)
(***************************************************************************)
EXTENDS CycleCounts

CONSTANTS bin1, bin2, c1, c2,
          CountedCalls  \* stock calls next to a count

Undated == 1000
MCExpiry == [l \in Lots |-> CASE l = 1 -> Undated [] l = 2 -> 10 [] OTHER -> -1]
MCWalk == [b \in Bins |-> IF b = bin1 THEN 1 ELSE 2]
MCCapacity == [b \in Bins |-> 3]

MayCall(n) == count.calls <= n
Floor == sheet = "none" /\ OnTheFloor /\ count.faults = 0 /\ (MayCall(4) \/ ~(Made(1) \/ Made(2)))
Shelf == sheet = "none" /\ ~Made(3) /\ ~count.adjusted /\ (MayCall(4) \/ ~Made(2))
Counting ==
  /\ sheet \in {"draft", "in_progress", "pending_review"}
  /\ Unbinned /\ ~Made(2) /\ ~Made(3) /\ MayCall(CountedCalls)
  /\ IF Made(1) THEN lotStatus[1] = "active" /\ \A i \in DOMAIN lines : lines[i].row # 0
     ELSE MayCall(1) /\ Len(lines) <= 1
  /\ count.faults = 0 \/ sheet = "pending_review"

MCBounds == Floor \/ Shelf \/ Counting
=============================================================================
