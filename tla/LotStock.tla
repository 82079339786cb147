------------------------------ MODULE LotStock ------------------------------
(***************************************************************************)
(* Stock of one product in one warehouse, kept twice: in lot balances      *)
(* (rows of inventoryBalances) and in one aggregate row of `inventory'.    *)
(* The calls are the stock primitives of db.ts behind routers/inventory.ts,*)
(* routers/inventoryLots.ts and routers/warehouseLocations.ts: none runs   *)
(* in a transaction.  A handler reads, decides, and then has a list of     *)
(* database calls still to make; each call is a step of its own, because   *)
(* between two of them any other handler may run.                          *)
(* Quantities are whole: the code rounds to the columns' scale (roundQty). *)
(***************************************************************************)
EXTENDS Integers, FiniteSets, Sequences, Sums

CONSTANTS
  Lots,       \* lot ids, numbers: an older lot has a smaller id
  Bins,       \* bin codes
  NoBin,      \* the null binId of a balance that was never put away
  NoLot,      \* the lot of an adjustment that names none
  Expiry,     \* Expiry[l]: days until lot l expires, negative once it has; an
              \* undated lot has a date no dated one reaches.  The code reads
              \* the column and never writes it: production leaves it null and
              \* an import dates the lot, here from the start
  Walk,       \* Walk[b]: place of bin b in the list of bins in walk order
  Capacity,   \* Capacity[b]: stated capacity of bin b
  Callers,    \* requests that can be in flight at once
  Workload,   \* the kinds of call the requests make
  MaxQty,     \* bound on the quantity of one call
  MaxCalls,   \* bound on the number of calls
  MaxFaults   \* bound on the handlers a database error or a crash cuts short

ASSUME StockAssumption ==
  /\ Lots \subseteq Nat
  /\ NoLot \notin Lots
  /\ NoBin \notin Bins
  /\ Expiry \in [Lots -> Int]
  /\ Walk \in [Bins -> Nat]
  /\ \A a, b \in Bins : Walk[a] = Walk[b] => a = b
  /\ Capacity \in [Bins -> Nat]
  /\ MaxQty \in Nat /\ MaxCalls \in Nat /\ MaxFaults \in Nat

VARIABLES
  rows,       \* the lot balances in the order of their ids; none is ever deleted
  lotStatus,  \* lotStatus[l]: status column of the lot; "none" before it is made
  agg,        \* quantity of the aggregate row
  todo,       \* todo[c]: the database calls the handler of c still has to make
  posted,     \* net quantity the movement ledger shows: of entries with a lot, of all entries
  pick,       \* history: what the last pick of c asked for, and what it posted as shipped
  count       \* history: calls made, handlers cut short, quantity produced, adjustments

vars == <<rows, lotStatus, agg, todo, posted, pick, count>>

Places == Bins \cup {NoBin}
Statuses == {"available", "reserved", "quarantine"}
LotStatuses == {"active", "expired", "consumed", "quarantine"}
Quantities == 1..MaxQty

(* A pending call.  The fields it does not use keep the values of Blank.    *)
Blank == [call |-> "none", lot |-> NoLot, bin |-> NoBin, status |-> "available", row |-> 0, qty |-> 0, delta |-> 0]
CallNames == {"none", "ship", "shipAgg", "adjustAgg", "moveInto", "quarantine", "set", "put", "insert",
              "setAgg", "addAgg", "lookup", "expire", "post"}
Calls == [call : CallNames, lot : Lots \cup {NoLot}, bin : Places, status : Statuses,
          row : Nat, qty : Nat, delta : Int]

Ship(a) == [Blank EXCEPT !.call = "ship", !.lot = a.lot, !.bin = a.bin, !.status = a.status, !.qty = a.qty]
Set(r, q) == [Blank EXCEPT !.call = "set", !.row = r, !.qty = q]
Put(l, b, s, q) == [Blank EXCEPT !.call = "put", !.lot = l, !.bin = b, !.status = s, !.qty = q]
Lookup(l, s, q) == [Blank EXCEPT !.call = "lookup", !.lot = l, !.status = s, !.qty = q]
SetAgg(q) == [Blank EXCEPT !.call = "setAgg", !.qty = q]
AddAgg(q) == [Blank EXCEPT !.call = "addAgg", !.qty = q]
Quarantine(r) == [Blank EXCEPT !.call = "quarantine", !.lot = rows[r].lot, !.row = r, !.qty = rows[r].qty]
Expire(l) == [Blank EXCEPT !.call = "expire", !.lot = l]
Post(l, d) == [Blank EXCEPT !.call = "post", !.lot = l, !.delta = d]

TypeOK ==
  /\ rows \in Seq([lot : Lots, bin : Places, status : Statuses, qty : Nat])
  /\ lotStatus \in [Lots -> LotStatuses \cup {"none"}]
  /\ agg \in Nat
  /\ todo \in [Callers -> Seq(Calls)]
  /\ posted \in [lots : Int, all : Int]
  /\ pick \in [Callers -> [want : Nat, shipped : Int]]
  /\ count \in [calls : Nat, faults : Nat, made : Nat, adjusted : BOOLEAN]

Init ==
  /\ rows = <<>>
  /\ lotStatus = [l \in Lots |-> "none"]
  /\ agg = 0
  /\ todo = [c \in Callers |-> <<>>]
  /\ posted = [lots |-> 0, all |-> 0]
  /\ pick = [c \in Callers |-> [want |-> 0, shipped |-> 0]]
  /\ count = [calls |-> 0, faults |-> 0, made |-> 0, adjusted |-> FALSE]

Made(l) == lotStatus[l] # "none"
RowsOf(l, s) == {r \in DOMAIN rows : rows[r].lot = l /\ rows[r].status = s}
RowsAt(l, b, s) == {r \in RowsOf(l, s) : rows[r].bin = b}
Quantity(r) == rows[r].qty

(* SELECT ... LIMIT 1: some row of R, or what an absent row counts for.     *)
AnyQuantity(R) == IF R = {} THEN {0} ELSE {Quantity(r) : r \in R}

-----------------------------------------------------------------------------
(* FEFO: soonest expiry first, then the walk order, then the older lot; rows *)
(* without a bin come last.                                                 *)
Before(a, b) ==
  \/ Expiry[a.lot] < Expiry[b.lot]
  \/ /\ Expiry[a.lot] = Expiry[b.lot]
     /\ \/ a.bin \in Bins /\ b.bin \notin Bins
        \/ a.bin \in Bins /\ b.bin \in Bins /\ Walk[a.bin] < Walk[b.bin]
        \/ a.bin = b.bin /\ a.lot < b.lot

IsExpired(l) == Expiry[l] < 0

(* getPickableLots and reservedLotsForPicking: the first keeps to active,   *)
(* unexpired lots and names the bin, the second does neither.               *)
Pickable(status) ==
  {r \in DOMAIN rows :
     /\ rows[r].status = status
     /\ rows[r].qty > 0
     /\ status = "available" => lotStatus[rows[r].lot] = "active" /\ ~IsExpired(rows[r].lot)}
Position(r, status) == [rows[r] EXCEPT !.bin = IF status = "available" THEN @ ELSE NoBin, !.qty = 0]

(* Mutant: the older lot first, whatever its expiry date.                   *)
SortByLotId(r, s, status) ==
  rows[r].lot < rows[s].lot \/ (rows[r].lot = rows[s].lot /\ r < s)

(* The sort is stable: rows it does not tell apart stay as they were read.  *)
SortByFefo(r, s, status) ==
  LET a == Position(r, status)
      b == Position(s, status)
  IN Before(a, b) \/ (a.lot = b.lot /\ a.bin = b.bin /\ r < s)

Sooner(status) == {p \in Pickable(status) \X Pickable(status) : SortByFefo(p[1], p[2], status)}
Stock == [r \in DOMAIN rows |-> Quantity(r)]
Ahead(r, status) == Total({s \in Pickable(status) : <<s, r>> \in Sooner(status)}, Stock)

(* selectFefoLots: rows are taken until the quantity is covered, each whole *)
(* but the last.                                                            *)
Selected(status, qty) == {r \in Pickable(status) : Ahead(r, status) < qty}
Allocation(r, status, qty) ==
  LET left == qty - Ahead(r, status) IN
  [Position(r, status) EXCEPT !.qty = IF Quantity(r) < left THEN Quantity(r) ELSE left]
Select(status, qty) ==
  LET ids == InOrder(Selected(status, qty), Sooner(status)) IN
  [i \in DOMAIN ids |-> Allocation(ids[i], status, qty)]
IsShort(status, qty) == Total(Pickable(status), Stock) < qty

-----------------------------------------------------------------------------
(* The calls, up to their first read.                                       *)

IsIdle(c) == todo[c] = <<>>
BeginMaking(c, kind, list, made) ==
  /\ kind \in Workload
  /\ IsIdle(c)
  /\ count.calls < MaxCalls
  /\ count' = [count EXCEPT !.calls = @ + 1, !.made = @ + made,
                             !.adjusted = @ \/ kind \in {"adjust", "setQuantity"}]
  /\ todo' = [todo EXCEPT ![c] = list]
Begin(c, kind, list) == BeginMaking(c, kind, list, 0)
Pure == UNCHANGED <<rows, lotStatus, agg, posted>>

(* createWorkOrderOutput: a new lot, its balance, the ledger entry, and the *)
(* row-locked increment of the aggregate.                                   *)
Produce(c) ==
  \E l \in Lots, q \in Quantities :
    /\ ~Made(l)
    /\ lotStatus' = [lotStatus EXCEPT ![l] = "active"]
    /\ BeginMaking(c, "produce", <<Put(l, NoBin, "available", q), Post(l, q), AddAgg(q)>>, q)
    /\ UNCHANGED <<rows, agg, posted, pick>>

(* Mutant: a short pick ships what there is.                                *)
PickWhatThereIs(c) ==
  \E q \in Quantities, s \in {"available", "reserved"} :
    LET allocations == Select(s, q) IN
    /\ Begin(c, "pick", [i \in DOMAIN allocations |-> Ship(allocations[i])])
    /\ pick' = [pick EXCEPT ![c] = [want |-> q, shipped |-> 0]]
    /\ Pure

(* pickInventoryFEFO: plan, refuse a shortfall, then ship each allocation.  *)
Pick(c) ==
  \E q \in Quantities, s \in {"available", "reserved"} :
    LET allocations == Select(s, q) IN
    /\ ~IsShort(s, q)
    /\ Begin(c, "pick", [i \in DOMAIN allocations |-> Ship(allocations[i])])
    /\ pick' = [pick EXCEPT ![c] = [want |-> q, shipped |-> 0]]
    /\ Pure

(* reserveInventory: take the quantity out of an available row, whatever    *)
(* its bin, and write it into the unbinned reserved row.                    *)
Reserve(c) ==
  \E l \in Lots, q \in Quantities : \E r \in RowsOf(l, "available") :
    /\ Quantity(r) >= q
    /\ Begin(c, "reserve", <<Set(r, Quantity(r) - q), Put(l, NoBin, "reserved", q)>>)
    /\ Pure /\ UNCHANGED pick

(* Mutant: the stock is given back before the reservation is reduced.       *)
ReleaseGivesFirst(c) ==
  \E l \in Lots, q \in Quantities : \E r \in RowsOf(l, "reserved") :
    /\ Quantity(r) >= q
    /\ Begin(c, "release", <<Lookup(l, "available", q), Set(r, Quantity(r) - q)>>)
    /\ Pure /\ UNCHANGED pick

(* releaseReservation: reduce a reserved row, then read an available row    *)
(* and write the sum into the unbinned one.                                 *)
Release(c) ==
  \E l \in Lots, q \in Quantities : \E r \in RowsOf(l, "reserved") :
    /\ Quantity(r) >= q
    /\ Begin(c, "release", <<Set(r, Quantity(r) - q), Lookup(l, "available", q)>>)
    /\ Pure /\ UNCHANGED pick

(* adjustInventoryQuantity and scrapInventory, up to the read of the lot's  *)
(* available row: it must exist or count as 0, and may not go negative.     *)
Adjustment(l, d, current) ==
  [Blank EXCEPT !.call = "adjustAgg", !.lot = l, !.delta = d, !.qty = IF l = NoLot THEN 0 ELSE current + d]
InLot(l) == IF l = NoLot THEN {0} ELSE AnyQuantity(RowsOf(l, "available"))

Adjust(c) ==
  \E l \in {m \in Lots : Made(m)} \cup {NoLot}, d \in {q \in -MaxQty..MaxQty : q # 0} :
    \E current \in InLot(l) :
      /\ l # NoLot => current + d >= 0
      /\ Begin(c, "adjust", <<Adjustment(l, d, current)>>)
      /\ Pure /\ UNCHANGED pick

(* inventory.update with a quantity reads the aggregate and adjusts by the  *)
(* difference.  Its row exists from the start: inventory.create, which      *)
(* inserts one with any quantity and no ledger entry, is left out.          *)
SetQuantity(c) ==
  \E target \in 0..MaxQty :
    /\ target # agg
    /\ Begin(c, "setQuantity", <<Adjustment(NoLot, target - agg, 0)>>)
    /\ Pure /\ UNCHANGED pick

(* moveBetweenBins, up to the read of its source row.  A blocked bin, which *)
(* it only refuses, is left out.                                            *)
Move(c) ==
  \E l \in Lots, from \in Places, to \in Bins, s \in Statuses, q \in Quantities : \E r \in RowsAt(l, from, s) :
    /\ from # to
    /\ Quantity(r) >= q
    /\ Begin(c, "move",
             <<[Blank EXCEPT !.call = "moveInto", !.lot = l, !.bin = to, !.status = s,
                             !.row = r, !.qty = q, !.delta = Quantity(r) - q]>>)
    /\ Pure /\ UNCHANGED pick

(* sweepExpiredLots reads the available rows of expired lots ...            *)
Sweep(c) ==
  LET stale == Ascending({r \in DOMAIN rows : /\ rows[r].status = "available" /\ rows[r].qty > 0
                                              /\ lotStatus[rows[r].lot] = "active" /\ IsExpired(rows[r].lot)})
  IN
  /\ stale # <<>>
  /\ Begin(c, "sweep", [i \in DOMAIN stale |-> Quarantine(stale[i])])
  /\ Pure /\ UNCHANGED pick

(* lots.updateStatus writes any status.                                     *)
UpdateStatus(c) ==
  \E l \in Lots, s \in LotStatuses :
    /\ Made(l)
    /\ lotStatus[l] # s
    /\ Begin(c, "status", <<>>)
    /\ lotStatus' = [lotStatus EXCEPT ![l] = s]
    /\ UNCHANGED <<rows, agg, posted, pick>>

-----------------------------------------------------------------------------
(* The pending calls, one step each.  `next' is the call at the head of the *)
(* handler's list; Follow replaces it by the calls its result leads to.     *)

next(c) == Head(todo[c])
Follow(c, list) == todo' = [todo EXCEPT ![c] = list \o Tail(@)]
(* An error ends the handler; what it has already written stays.            *)
Throw(c) == todo' = [todo EXCEPT ![c] = <<>>]
Doing(c, name) == todo[c] # <<>> /\ next(c).call = name

(* Mutant: the comparison of the balance with the quantity is dropped.      *)
ShipUnchecked(c) ==
  /\ Doing(c, "ship")
  /\ \E r \in RowsAt(next(c).lot, next(c).bin, next(c).status) :
       Follow(c, <<[next(c) EXCEPT !.call = "shipAgg", !.row = r, !.delta = Quantity(r)]>>)
  /\ UNCHANGED <<rows, lotStatus, agg, posted, pick, count>>

(* shipInventory reads exactly the row the pick selected ...                *)
ShipRead(c) ==
  /\ Doing(c, "ship")
  /\ LET R == RowsAt(next(c).lot, next(c).bin, next(c).status) IN
       \/ \E r \in R :
            /\ Quantity(r) >= next(c).qty
            /\ Follow(c, <<[next(c) EXCEPT !.call = "shipAgg", !.row = r, !.delta = Quantity(r)]>>)
       \/ (R = {} \/ \E r \in R : Quantity(r) < next(c).qty) /\ Throw(c)
  /\ UNCHANGED <<rows, lotStatus, agg, posted, pick, count>>

(* Mutant: only the lot balance moves.                                      *)
ShipLotOnly(c) ==
  /\ Doing(c, "shipAgg")
  /\ Follow(c, <<Set(next(c).row, next(c).delta - next(c).qty), Post(next(c).lot, -next(c).qty)>>)
  /\ UNCHANGED <<rows, lotStatus, agg, posted, pick, count>>

(* ... then the aggregate, and writes neither unless both can absorb it.    *)
ShipResolve(c) ==
  /\ Doing(c, "shipAgg")
  /\ IF agg >= next(c).qty
     THEN Follow(c, <<Set(next(c).row, next(c).delta - next(c).qty), SetAgg(agg - next(c).qty),
                      Post(next(c).lot, -next(c).qty)>>)
     ELSE Throw(c)
  /\ UNCHANGED <<rows, lotStatus, agg, posted, pick, count>>

(* adjustInventoryQuantity reads the aggregate; the lot's new quantity goes *)
(* to the unbinned available row.                                           *)
AdjustResolve(c) ==
  /\ Doing(c, "adjustAgg")
  /\ LET call == next(c)
         lotWrite == IF call.lot = NoLot THEN <<>> ELSE <<Put(call.lot, NoBin, "available", call.qty)>>
     IN IF agg + call.delta >= 0
        THEN Follow(c, lotWrite \o <<SetAgg(agg + call.delta), Post(call.lot, call.delta)>>)
        ELSE Throw(c)
  /\ UNCHANGED <<rows, lotStatus, agg, posted, pick, count>>

(* moveBetweenBins reads the destination row and compares the sum with the  *)
(* capacity of the bin.                                                     *)
MoveResolve(c) ==
  /\ Doing(c, "moveInto")
  /\ LET call == next(c) IN
       \E there \in AnyQuantity(RowsAt(call.lot, call.bin, call.status)) :
         IF there + call.qty <= Capacity[call.bin]
         THEN Follow(c, <<Set(call.row, call.delta), Put(call.lot, call.bin, call.status, there + call.qty)>>)
         ELSE Throw(c)
  /\ UNCHANGED <<rows, lotStatus, agg, posted, pick, count>>

(* The sum with a row of the lot in that status, whatever its bin, is to be *)
(* put into the unbinned one.                                               *)
LookupRow(c) ==
  /\ Doing(c, "lookup")
  /\ \E there \in AnyQuantity(RowsOf(next(c).lot, next(c).status)) :
       Follow(c, <<Put(next(c).lot, NoBin, next(c).status, there + next(c).qty)>>)
  /\ UNCHANGED <<rows, lotStatus, agg, posted, pick, count>>

(* Mutant: the sweep writes the row's quantity over the quarantined one.    *)
QuarantineOverwrites(c) ==
  /\ Doing(c, "quarantine")
  /\ LET call == next(c) IN
     Follow(c, <<Put(call.lot, NoBin, "quarantine", call.qty), Set(call.row, 0), Expire(call.lot)>>)
  /\ UNCHANGED <<rows, lotStatus, agg, posted, pick, count>>

(* ... and for each: the quantity it had is added to a quarantined row of   *)
(* the lot, the row emptied, and the lot marked expired.                    *)
QuarantineRow(c) ==
  /\ Doing(c, "quarantine")
  /\ LET call == next(c) IN
       \E there \in AnyQuantity(RowsOf(call.lot, "quarantine")) :
         Follow(c, <<Put(call.lot, NoBin, "quarantine", there + call.qty), Set(call.row, 0), Expire(call.lot)>>)
  /\ UNCHANGED <<rows, lotStatus, agg, posted, pick, count>>

(* upsertInventoryBalance looks for the row ...                             *)
PutRow(c) ==
  /\ Doing(c, "put")
  /\ LET R == RowsAt(next(c).lot, next(c).bin, next(c).status) IN
       \/ \E r \in R : Follow(c, <<Set(r, next(c).qty)>>)
       \/ R = {} /\ Follow(c, <<[next(c) EXCEPT !.call = "insert"]>>)
  /\ UNCHANGED <<rows, lotStatus, agg, posted, pick, count>>

(* ... and inserts it when there was none.                                  *)
InsertRow(c) ==
  /\ Doing(c, "insert")
  /\ rows' = Append(rows, [lot |-> next(c).lot, bin |-> next(c).bin, status |-> next(c).status, qty |-> next(c).qty])
  /\ Follow(c, <<>>)
  /\ UNCHANGED <<lotStatus, agg, posted, pick, count>>

(* Every update of a row or of the aggregate writes an absolute quantity.   *)
SetRow(c) ==
  /\ Doing(c, "set")
  /\ rows' = [rows EXCEPT ![next(c).row].qty = next(c).qty]
  /\ Follow(c, <<>>)
  /\ UNCHANGED <<lotStatus, agg, posted, pick, count>>

WriteAgg(c) ==
  /\ Doing(c, "setAgg")
  /\ agg' = next(c).qty
  /\ Follow(c, <<>>)
  /\ UNCHANGED <<rows, lotStatus, posted, pick, count>>

(* updateInventoryQuantity locks the row: the only increment there is.      *)
Increment(c) ==
  /\ Doing(c, "addAgg")
  /\ agg' = agg + next(c).qty
  /\ Follow(c, <<>>)
  /\ UNCHANGED <<rows, lotStatus, posted, pick, count>>

ExpireLot(c) ==
  /\ Doing(c, "expire")
  /\ lotStatus' = [lotStatus EXCEPT ![next(c).lot] = "expired"]
  /\ Follow(c, <<>>)
  /\ UNCHANGED <<rows, agg, posted, pick, count>>

(* createInventoryTransaction, for the movements that change stock.         *)
PostEntry(c) ==
  /\ Doing(c, "post")
  /\ posted' = [lots |-> IF next(c).lot = NoLot THEN posted.lots ELSE posted.lots + next(c).delta,
                all |-> posted.all + next(c).delta]
  /\ pick' = [pick EXCEPT ![c].shipped = IF next(c).delta < 0 THEN @ - next(c).delta ELSE @]
  /\ Follow(c, <<>>)
  /\ UNCHANGED <<rows, lotStatus, agg, count>>

(* A database error, or a restart, cuts a handler short.                    *)
CutShort(c) ==
  /\ count.faults < MaxFaults
  /\ count' = [count EXCEPT !.faults = @ + 1]
  /\ todo[c] # <<>>
  /\ Throw(c)
  /\ UNCHANGED <<rows, lotStatus, agg, posted, pick>>

-----------------------------------------------------------------------------
Starts(c) ==
  \/ Produce(c) \/ Pick(c) \/ Reserve(c) \/ Release(c) \/ Adjust(c)
  \/ SetQuantity(c) \/ Move(c) \/ Sweep(c) \/ UpdateStatus(c)

Resolves(c) ==
  \/ ShipRead(c) \/ ShipResolve(c) \/ AdjustResolve(c) \/ MoveResolve(c)
  \/ LookupRow(c) \/ QuarantineRow(c) \/ PutRow(c)

Writes(c) ==
  \/ InsertRow(c) \/ SetRow(c) \/ WriteAgg(c) \/ Increment(c)
  \/ ExpireLot(c) \/ PostEntry(c)

Next == \E c \in Callers : Starts(c) \/ Resolves(c) \/ Writes(c) \/ CutShort(c)

Spec == Init /\ [][Next]_vars

-----------------------------------------------------------------------------
(* Properties.                                                              *)

Quiescent == \A c \in Callers : todo[c] = <<>>
LotTotal == Total(DOMAIN rows, Stock)

(* "so shrinkage, damage and count variances are attributable": when no     *)
(* call is in progress and none was cut short, and nothing was reserved or  *)
(* put away in a bin, the lot balances add up to what the ledger shows for  *)
(* the lots (comment of adjustInventoryQuantity).                           *)
OnTheFloor == \A r \in DOMAIN rows : rows[r].bin = NoBin /\ rows[r].status # "reserved"
LotsAttributable == Quiescent /\ count.faults = 0 /\ OnTheFloor => LotTotal = posted.lots

(* ... and the aggregate is what the whole ledger shows.  (One that was     *)
(* created with a quantity stays ahead by that much.)                       *)
StockAttributable == Quiescent /\ count.faults = 0 => agg = posted.all

Unbinned == \A r \in DOMAIN rows : rows[r].bin = NoBin

(* As long as nothing was put away in a bin, quarantined or adjusted,       *)
(* reserving, releasing and shipping never make stock: at no point, not     *)
(* even when a handler is cut short, do the lot balances hold more than was *)
(* produced.                                                                *)
NoStockFromNothing ==
  Unbinned /\ ~count.adjusted /\ (\A r \in DOMAIN rows : rows[r].status # "quarantine") => LotTotal <= count.made

(* "A short pick is refused outright rather than shipping what is           *)
(* available" (pickInventoryFEFO): while no handler was cut short and       *)
(* nothing was put away or adjusted, a finished pick of a single caller     *)
(* shipped what it was asked for, or nothing.                               *)
PickIsWhole ==
  count.faults = 0 /\ Unbinned /\ ~count.adjusted =>
    \A c \in Callers : todo[c] = <<>> => pick[c].shipped \in {0, pick[c].want}

(* Pickers take the soonest-expiring lot first: an allocation that is about *)
(* to be shipped leaves no earlier available lot with stock in it.          *)
PickFollowsFefo ==
  \A c \in Callers : Doing(c, "shipAgg") /\ next(c).status = "available" =>
    \A r \in DOMAIN rows :
      /\ rows[r].status = "available"
      /\ lotStatus[rows[r].lot] = "active" /\ ~IsExpired(rows[r].lot)
      /\ Before(rows[r], next(c))
      => rows[r].qty = 0

(* What comments of the code say, and the code does not do.                 *)

(* "Shipping is the one movement that reduces total on-hand, so unlike      *)
(* reserve/release it must move BOTH stores" (shipInventory), and adjusting *)
(* "keeps the two stock stores in step" (adjustInventoryQuantity): as far   *)
(* as the ledger's entries name a lot, the lot balances and the aggregate   *)
(* have moved by the same quantity.                                         *)
StoresInStep == Quiescent => LotTotal - agg = posted.lots - posted.all
=============================================================================
