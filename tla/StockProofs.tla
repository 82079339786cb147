------------------------------ MODULE StockProofs ------------------------------
(***************************************************************************)
(* Proofs about LotStock and CycleCounts, for any number of lots, bins,    *)
(* lines and calls.                                                        *)
(* For any number of callers: the types, for which every pending call of a *)
(* handler must be on a lot and a row that exist and write no negative     *)
(* quantity (Sound), and a desk must hold what its next step needs (Ready).*)
(* For one caller (OneCaller; overlapping requests do break them): what an *)
(* approval has posted for the lines it is through with (PostInv), and     *)
(* that the aggregate and the ledger are apart only by the call that is    *)
(* about to be entered (InStep).                                           *)
(* What BalanceProofs goes on from is here too: a list of pending calls as *)
(* it shortens (Behind); that it is up to date with the rows it was        *)
(* computed from (UpToDate); what the list of a request that has just      *)
(* begun is; that rows differ in lot, bin or status (Distinct); and that a *)
(* lot exists before its rows do (StockMade, CountMade).                   *)
(***************************************************************************)
EXTENDS CycleCounts, Totals, SequenceTheorems

-----------------------------------------------------------------------------
(* A handler's list of pending calls.  `ids' are the rows there are: what a *)
(* call writes to is one of them, and no quantity it will write is negative.*)

WithLot == {"ship", "shipAgg", "moveInto", "quarantine", "put", "insert", "lookup", "expire"}
WithRow == {"shipAgg", "moveInto", "quarantine", "set"}
Sound(k, ids) ==
  /\ k \in Calls
  /\ k.call \in WithLot => k.lot \in Lots
  /\ k.call \in WithRow => k.row \in ids
  /\ k.call = "shipAgg" => k.delta >= k.qty
  /\ k.call = "moveInto" => k.delta >= 0 /\ k.bin \in Bins
SoundList(s, ids) == s \in Seq(Calls) /\ \A i \in 1..Len(s) : Sound(s[i], ids)

LEMMA BlankIsCall == Blank \in Calls
BY DEF Blank, Calls, CallNames, Places, Statuses

LEMMA SetSound ==
  ASSUME NEW ids \in SUBSET Nat, NEW r \in ids, NEW q \in Nat
  PROVE  Sound(Set(r, q), ids)
BY BlankIsCall DEF Sound, Set, Blank, Calls, CallNames, WithLot, WithRow, Places, Statuses

LEMMA PutSound ==
  ASSUME NEW ids, NEW l \in Lots, NEW b \in Places, NEW s \in Statuses, NEW q \in Nat
  PROVE  Sound(Put(l, b, s, q), ids)
BY BlankIsCall DEF Sound, Put, Blank, Calls, CallNames, WithLot, WithRow

LEMMA LookupSound ==
  ASSUME NEW ids, NEW l \in Lots, NEW s \in Statuses, NEW q \in Nat
  PROVE  Sound(Lookup(l, s, q), ids)
BY BlankIsCall DEF Sound, Lookup, Blank, Calls, CallNames, WithLot, WithRow

LEMMA AggSound ==
  ASSUME NEW ids, NEW q \in Nat
  PROVE  Sound(SetAgg(q), ids) /\ Sound(AddAgg(q), ids)
BY BlankIsCall DEF Sound, SetAgg, AddAgg, Blank, Calls, CallNames, WithLot, WithRow

LEMMA ExpireSound ==
  ASSUME NEW ids, NEW l \in Lots
  PROVE  Sound(Expire(l), ids)
BY BlankIsCall DEF Sound, Expire, Blank, Calls, CallNames, WithLot, WithRow

LEMMA PostSound ==
  ASSUME NEW ids, NEW l \in Lots \cup {NoLot}, NEW d \in Int
  PROVE  Sound(Post(l, d), ids)
BY BlankIsCall DEF Sound, Post, Blank, Calls, CallNames, WithLot, WithRow

LEMMA ShipSound ==
  ASSUME NEW ids, NEW a, a.lot \in Lots, a.bin \in Places, a.status \in Statuses, a.qty \in Nat
  PROVE  Sound(Ship(a), ids)
BY BlankIsCall DEF Sound, Ship, Blank, Calls, CallNames, WithLot, WithRow

LEMMA AdjustmentSound ==
  ASSUME NEW ids, NEW l \in Lots \cup {NoLot}, NEW d \in Int, NEW q \in Nat, l # NoLot => q + d >= 0
  PROVE  Sound(Adjustment(l, d, q), ids)
<1>1. (IF l = NoLot THEN 0 ELSE q + d) \in Nat
  OBVIOUS
<1>. DEFINE n == IF l = NoLot THEN 0 ELSE q + d
<1>. HIDE DEF n
<1>2. [Blank EXCEPT !.call = "adjustAgg", !.lot = l, !.delta = d, !.qty = n] \in Calls
  BY <1>1, BlankIsCall DEF Blank, Calls, CallNames, n
<1>. QED  BY <1>2 DEF Sound, Adjustment, Blank, WithLot, WithRow, n

LEMMA MoveIntoSound ==
  ASSUME NEW ids, NEW l \in Lots, NEW b \in Bins, NEW s \in Statuses, NEW r \in ids, r \in Nat,
         NEW q \in Nat, NEW d \in Nat
  PROVE  Sound([Blank EXCEPT !.call = "moveInto", !.lot = l, !.bin = b, !.status = s,
                             !.row = r, !.qty = q, !.delta = d], ids)
<1>. DEFINE k == [Blank EXCEPT !.call = "moveInto", !.lot = l, !.bin = b, !.status = s,
                               !.row = r, !.qty = q, !.delta = d]
<1>0. d \in Int /\ r \in Nat /\ b \in Places /\ l \in Lots \cup {NoLot} /\ "moveInto" \in CallNames
  BY DEF Places, CallNames
<1>1. k \in Calls
  BY <1>0, BlankIsCall DEF Calls
<1>2. k.call = "moveInto" /\ k.lot = l /\ k.row = r /\ k.delta = d /\ k.bin = b
  BY DEF Blank
<1>. HIDE DEF k
<1>3. Sound(k, ids)
  BY <1>1, <1>2 DEF Sound
<1>. QED  BY <1>3 DEF k

LEMMA ShipAggSound ==
  ASSUME NEW ids, NEW k \in Calls, k.lot \in Lots, NEW r \in ids, r \in Nat, NEW d \in Nat, d >= k.qty
  PROVE  Sound([k EXCEPT !.call = "shipAgg", !.row = r, !.delta = d], ids)
<1>. DEFINE m == [k EXCEPT !.call = "shipAgg", !.row = r, !.delta = d]
<1>0. d \in Int /\ r \in Nat /\ "shipAgg" \in CallNames
  BY DEF CallNames
<1>1. m \in Calls
  BY <1>0 DEF Calls
<1>2. m.call = "shipAgg" /\ m.lot = k.lot /\ m.row = r /\ m.delta = d /\ m.qty = k.qty
  BY DEF Calls
<1>. HIDE DEF m
<1>3. Sound(m, ids)
  BY <1>1, <1>2 DEF Sound
<1>. QED  BY <1>3 DEF m

LEMMA SoundMore ==
  ASSUME NEW k, NEW ids, NEW more, ids \subseteq more, Sound(k, ids)
  PROVE  Sound(k, more)
BY DEF Sound

LEMMA ConcatOneTwo == \A x, y, z : <<x>> \o <<y, z>> = <<x, y, z>>
<1>. SUFFICES ASSUME NEW x, NEW y, NEW z
              PROVE  <<x>> \o <<y, z>> = <<x, y, z>>
  OBVIOUS
<1>. DEFINE S == {x, y, z}
            a == <<x>>
            b == <<y, z>>
            t == <<x, y, z>>
<1>1. a \in Seq(S) /\ b \in Seq(S) /\ t \in Seq(S) /\ Len(a) = 1 /\ Len(b) = 2 /\ Len(t) = 3
  OBVIOUS
<1>2. a[1] = x /\ b[1] = y /\ b[2] = z /\ t[1] = x /\ t[2] = y /\ t[3] = z
  OBVIOUS
<1>. HIDE DEF a, b, t, S
<1>3. /\ a \o b \in Seq(S) /\ Len(a \o b) = Len(a) + Len(b)
      /\ \A i \in 1..(Len(a) + Len(b)) : (a \o b)[i] = IF i <= Len(a) THEN a[i] ELSE b[i - Len(a)]
  BY <1>1, ConcatProperties, Zenon
<1>4. \A i \in 1..3 : i = 1 \/ i = 2 \/ i = 3
  OBVIOUS
<1>5. Len(a \o b) = Len(t) /\ \A i \in 1..Len(a \o b) : (a \o b)[i] = t[i]
  BY <1>1, <1>2, <1>3, <1>4
<1>6. a \o b = t
  BY <1>1, <1>3, <1>5, SeqEqual
<1>. QED  BY <1>6 DEF a, b, t

LEMMA EmptySound == \A ids : SoundList(<<>>, ids)
BY DEF SoundList

LEMMA OneSound ==
  ASSUME NEW ids, NEW k, Sound(k, ids)
  PROVE  SoundList(<<k>>, ids)
BY DEF SoundList, Sound

LEMMA TwoSound ==
  ASSUME NEW ids, NEW k, Sound(k, ids), NEW l, Sound(l, ids)
  PROVE  SoundList(<<k, l>>, ids)
<1>. DEFINE s == <<k, l>>
<1>1. s \in Seq(Calls) /\ Len(s) = 2 /\ s[1] = k /\ s[2] = l
  BY DEF Sound
<1>. HIDE DEF s
<1>2. \A i \in 1..Len(s) : i = 1 \/ i = 2
  BY <1>1
<1>3. SoundList(s, ids)
  BY <1>1, <1>2 DEF SoundList
<1>. QED  BY <1>3 DEF s

LEMMA ThreeSound ==
  ASSUME NEW ids, NEW k, Sound(k, ids), NEW l, Sound(l, ids), NEW m, Sound(m, ids)
  PROVE  SoundList(<<k, l, m>>, ids)
<1>. DEFINE s == <<k, l, m>>
<1>1. s \in Seq(Calls) /\ Len(s) = 3 /\ s[1] = k /\ s[2] = l /\ s[3] = m
  BY DEF Sound
<1>. HIDE DEF s
<1>2. \A i \in 1..Len(s) : i = 1 \/ i = 2 \/ i = 3
  BY <1>1
<1>3. SoundList(s, ids)
  BY <1>1, <1>2 DEF SoundList
<1>. QED  BY <1>3 DEF s

(* The calls a result leads to, in front of the rest of the list.           *)
LEMMA FollowSound ==
  ASSUME NEW ids, NEW more, ids \subseteq more,
         NEW s, SoundList(s, ids), s # <<>>, NEW new, SoundList(new, more)
  PROVE  /\ SoundList(new \o Tail(s), more)
         /\ Len(new \o Tail(s)) = Len(new) + Len(s) - 1
         /\ \A i \in 1..Len(new \o Tail(s)) :
              (new \o Tail(s))[i] = IF i <= Len(new) THEN new[i] ELSE s[i - Len(new) + 1]
<1>1. s \in Seq(Calls) /\ new \in Seq(Calls)
  BY DEF SoundList
<1>2. Tail(s) \in Seq(Calls) /\ Len(Tail(s)) = Len(s) - 1 /\ \A i \in 1..Len(Tail(s)) : Tail(s)[i] = s[i + 1]
  BY <1>1, HeadTailProperties
<1>3. Len(s) \in Nat /\ Len(new) \in Nat /\ Len(s) > 0
  BY <1>1, EmptySeq, LenProperties
<1>. DEFINE t == new \o Tail(s)
<1>4. /\ t \in Seq(Calls)
      /\ Len(t) = Len(new) + Len(Tail(s))
      /\ \A i \in 1..Len(new) + Len(Tail(s)) : t[i] = IF i <= Len(new) THEN new[i] ELSE Tail(s)[i - Len(new)]
  BY <1>1, <1>2, ConcatProperties
<1>. HIDE DEF t
<1>5. \A i \in 1..Len(t) : t[i] = IF i <= Len(new) THEN new[i] ELSE s[i - Len(new) + 1]
  BY <1>2, <1>3, <1>4
<1>6. \A i \in 1..Len(t) : Sound(t[i], more)
  <2>. SUFFICES ASSUME NEW i \in 1..Len(t)
                PROVE  Sound(t[i], more)
    OBVIOUS
  <2>1. CASE i <= Len(new)
    BY <1>3, <1>4, <1>5, <2>1 DEF SoundList
  <2>2. CASE i > Len(new)
    <3>1. i - Len(new) + 1 \in 1..Len(s) /\ t[i] = s[i - Len(new) + 1]
      BY <1>2, <1>3, <1>4, <1>5, <2>2
    <3>2. Sound(t[i], ids)
      BY <3>1 DEF SoundList
    <3>. QED  BY <3>2, SoundMore
  <2>. QED  BY <1>3, <2>1, <2>2
<1>7. SoundList(t, more) /\ Len(t) = Len(new) + Len(s) - 1
  BY <1>2, <1>3, <1>4, <1>6 DEF SoundList
<1>. QED  BY <1>5, <1>7 DEF t

-----------------------------------------------------------------------------
(* The plan of a pick.                                                      *)

Row == [lot : Lots, bin : Places, status : Statuses, qty : Nat]

LEMMA RowsFinite ==
  ASSUME TypeOK
  PROVE  /\ DOMAIN rows = 1..Len(rows) /\ Len(rows) \in Nat /\ DOMAIN rows \in SUBSET Nat
         /\ IsFiniteSet(DOMAIN rows)
         /\ \A r \in DOMAIN rows : rows[r] \in Row /\ Stock[r] = rows[r].qty /\ Stock[r] \in Nat
<1>1. rows \in Seq(Row)
  BY DEF TypeOK, Row
<1>2. DOMAIN rows = 1..Len(rows) /\ Len(rows) \in Nat /\ \A r \in DOMAIN rows : rows[r] \in Row
  BY <1>1, LenProperties, ElementOfSeq
<1>3. IsFiniteSet(DOMAIN rows)
  BY <1>2, FS_Interval
<1>. QED  BY <1>2, <1>3 DEF Row, Stock, Quantity

LEMMA PickableFinite ==
  ASSUME TypeOK, NEW status
  PROVE  Pickable(status) \in SUBSET DOMAIN rows /\ IsFiniteSet(Pickable(status))
<1>1. Pickable(status) \in SUBSET DOMAIN rows
  BY DEF Pickable
<1>. QED  BY <1>1, RowsFinite, FS_Subset

(* FEFO leaves no two rows apart.                                           *)
LEMMA FefoOrders ==
  ASSUME TypeOK, NEW status \in Statuses
  PROVE  StrictlyOrders(Sooner(status), Pickable(status))
<1>. DEFINE P == Pickable(status)
            at(r) == Position(r, status)
<1>1. \A r \in P : /\ r \in Nat /\ at(r).lot \in Lots /\ at(r).bin \in Places
                   /\ at(r).lot = rows[r].lot
  BY RowsFinite, PickableFinite DEF Position, Row, Places
<1>2. /\ NoBin \notin Bins
      /\ Lots \in SUBSET Nat
      /\ \A l \in Lots : Expiry[l] \in Int
      /\ \A b \in Bins : Walk[b] \in Nat
      /\ \A a, b \in Bins : Walk[a] = Walk[b] => a = b
  BY StockAssumption
<1>3. \A r, t \in P : <<r, t>> \in Sooner(status) <=>
        Before(at(r), at(t)) \/ (at(r).lot = at(t).lot /\ at(r).bin = at(t).bin /\ r < t)
  BY DEF Sooner, SortByFefo
<1>. DEFINE days(r) == Expiry[at(r).lot]
            bin(r) == at(r).bin
            lot(r) == at(r).lot
            walk(r) == Walk[bin(r)]
<1>4. \A r, t \in P : <<r, t>> \in Sooner(status) <=>
        \/ days(r) < days(t)
        \/ /\ days(r) = days(t)
           /\ \/ bin(r) \in Bins /\ bin(t) \notin Bins
              \/ bin(r) \in Bins /\ bin(t) \in Bins /\ walk(r) < walk(t)
              \/ bin(r) = bin(t) /\ lot(r) < lot(t)
        \/ lot(r) = lot(t) /\ bin(r) = bin(t) /\ r < t
  BY <1>3, Zenon DEF Before
<1>5. \A r \in P : /\ r \in Int /\ lot(r) \in Int /\ days(r) \in Int
                   /\ bin(r) \in Bins => walk(r) \in Int
                   /\ bin(r) \notin Bins => bin(r) = NoBin
  <2>. SUFFICES ASSUME NEW r \in P
                PROVE  /\ r \in Int /\ lot(r) \in Int /\ days(r) \in Int
                       /\ bin(r) \in Bins => walk(r) \in Int
                       /\ bin(r) \notin Bins => bin(r) = NoBin
    OBVIOUS
  <2>1. r \in Nat /\ lot(r) \in Lots /\ bin(r) \in Places
    BY <1>1, Zenon
  <2>. HIDE DEF at, bin, lot
  <2>2. lot(r) \in Nat
    BY <1>2, <2>1
  <2>3. days(r) \in Int
    BY <1>2, <2>1 DEF lot
  <2>4. bin(r) \in Bins => walk(r) \in Nat
    BY <1>2, Zenon
  <2>. QED  BY <2>1, <2>2, <2>3, <2>4 DEF Places
<1>6. \A r, t \in P : /\ lot(r) = lot(t) => days(r) = days(t)
                      /\ bin(r) \in Bins /\ bin(t) \in Bins /\ walk(r) = walk(t) => bin(r) = bin(t)
                      /\ bin(r) = bin(t) => walk(r) = walk(t)
  BY <1>2
<1>. HIDE DEF at, P, days, bin, lot, walk
<1>7. \A r \in P : <<r, r>> \notin Sooner(status)
  BY <1>4, <1>5
<1>8. \A r, t \in P : r # t => <<r, t>> \in Sooner(status) \/ <<t, r>> \in Sooner(status)
  BY <1>4, <1>5, <1>6
<1>9. ASSUME NEW r \in P, NEW t \in P, NEW u \in P, <<r, t>> \in Sooner(status), <<t, u>> \in Sooner(status)
      PROVE  <<r, u>> \in Sooner(status)
  <2>1. /\ r \in Int /\ t \in Int /\ u \in Int
        /\ lot(r) \in Int /\ lot(t) \in Int /\ lot(u) \in Int
        /\ days(r) \in Int /\ days(t) \in Int /\ days(u) \in Int
        /\ bin(r) \in Bins => walk(r) \in Int
        /\ bin(t) \in Bins => walk(t) \in Int
        /\ bin(u) \in Bins => walk(u) \in Int
        /\ lot(r) = lot(t) => days(r) = days(t)
        /\ lot(t) = lot(u) => days(t) = days(u)
        /\ bin(r) = bin(t) => walk(r) = walk(t)
        /\ bin(t) = bin(u) => walk(t) = walk(u)
    BY <1>5, <1>6
  <2>2. \/ days(r) < days(t)
        \/ /\ days(r) = days(t)
           /\ \/ bin(r) \in Bins /\ bin(t) \notin Bins
              \/ bin(r) \in Bins /\ bin(t) \in Bins /\ walk(r) < walk(t)
              \/ bin(r) = bin(t) /\ lot(r) < lot(t)
        \/ lot(r) = lot(t) /\ bin(r) = bin(t) /\ r < t
    BY <1>4, <1>9
  <2>3. \/ days(t) < days(u)
        \/ /\ days(t) = days(u)
           /\ \/ bin(t) \in Bins /\ bin(u) \notin Bins
              \/ bin(t) \in Bins /\ bin(u) \in Bins /\ walk(t) < walk(u)
              \/ bin(t) = bin(u) /\ lot(t) < lot(u)
        \/ lot(t) = lot(u) /\ bin(t) = bin(u) /\ t < u
    BY <1>4, <1>9
  <2>4. \/ days(r) < days(u)
        \/ /\ days(r) = days(u)
           /\ \/ bin(r) \in Bins /\ bin(u) \notin Bins
              \/ bin(r) \in Bins /\ bin(u) \in Bins /\ walk(r) < walk(u)
              \/ bin(r) = bin(u) /\ lot(r) < lot(u)
        \/ lot(r) = lot(u) /\ bin(r) = bin(u) /\ r < u
    BY <2>1, <2>2, <2>3
  <2>. QED  BY <1>4, <2>4, Zenon
<1>. QED  BY <1>7, <1>8, <1>9 DEF StrictlyOrders, P

LEMMA AheadType ==
  ASSUME TypeOK, NEW status, NEW r
  PROVE  Ahead(r, status) \in Nat
<1>. DEFINE S == {t \in Pickable(status) : <<t, r>> \in Sooner(status)}
<1>1. S \in SUBSET DOMAIN rows
  BY DEF Pickable
<1>. HIDE DEF S
<1>2. IsFiniteSet(S) /\ \A t \in S : Stock[t] \in Nat
  BY <1>1, RowsFinite, FS_Subset
<1>3. Total(S, Stock) \in Nat
  BY <1>2, TotalType
<1>. QED  BY <1>3 DEF Ahead, S

(* A plan lists the rows selected, and takes something from each.           *)
LEMMA SelectLists ==
  ASSUME TypeOK, NEW status \in Statuses, NEW q \in Nat
  PROVE  LET ids == InOrder(Selected(status, q), Sooner(status)) IN
         /\ Listing(ids, Cardinality(Selected(status, q)), Selected(status, q), Sooner(status))
         /\ DOMAIN Select(status, q) = DOMAIN ids
         /\ \A i \in DOMAIN ids : Select(status, q)[i] = Allocation(ids[i], status, q)
<1>1. Selected(status, q) \in SUBSET Pickable(status)
  BY DEF Selected
<1>2. IsFiniteSet(Selected(status, q))
  BY <1>1, PickableFinite, FS_Subset
<1>3. StrictlyOrders(Sooner(status), Selected(status, q))
  BY <1>1, FefoOrders DEF StrictlyOrders
<1>4. Listing(InOrder(Selected(status, q), Sooner(status)), Cardinality(Selected(status, q)),
              Selected(status, q), Sooner(status))
  BY <1>2, <1>3, InOrderLists, Zenon
<1>. QED  BY <1>4 DEF Select

LEMMA AllocationType ==
  ASSUME TypeOK, NEW status \in Statuses, NEW q \in Nat, NEW r \in Selected(status, q)
  PROVE  LET a == Allocation(r, status, q) IN
         /\ a.lot = rows[r].lot /\ a.lot \in Lots
         /\ a.bin = (IF status = "available" THEN rows[r].bin ELSE NoBin) /\ a.bin \in Places
         /\ a.status = rows[r].status /\ a.status = status
         /\ a.qty \in Nat \ {0}
         /\ a.qty = IF Stock[r] < q - Ahead(r, status) THEN Stock[r] ELSE q - Ahead(r, status)
<1>1. r \in Pickable(status) /\ Ahead(r, status) < q
  BY DEF Selected
<1>2. r \in DOMAIN rows /\ rows[r].status = status /\ rows[r].qty > 0
  BY <1>1 DEF Pickable
<1>3. rows[r] \in Row /\ Stock[r] = rows[r].qty /\ Quantity(r) = rows[r].qty
  BY <1>2, RowsFinite DEF Quantity
<1>4. Ahead(r, status) \in Nat
  BY AheadType
<1>. DEFINE n == IF Quantity(r) < q - Ahead(r, status) THEN Quantity(r) ELSE q - Ahead(r, status)
            p == Position(r, status)
<1>5. n \in Nat \ {0}
  BY <1>1, <1>2, <1>3, <1>4 DEF Row
<1>6. /\ p \in [lot : Lots, bin : Places, status : Statuses, qty : Nat]
      /\ p.lot = rows[r].lot /\ p.status = rows[r].status
      /\ p.bin = IF status = "available" THEN rows[r].bin ELSE NoBin
  BY <1>3 DEF Position, Row, Places
<1>7. Allocation(r, status, q) = [p EXCEPT !.qty = n]
  BY DEF Allocation
<1>. HIDE DEF p, n
<1>8. /\ [p EXCEPT !.qty = n].lot = p.lot /\ [p EXCEPT !.qty = n].bin = p.bin
      /\ [p EXCEPT !.qty = n].status = p.status /\ [p EXCEPT !.qty = n].qty = n
  BY <1>6
<1>9. p.lot \in Lots /\ p.bin \in Places
  BY <1>6
<1>10. n = IF Stock[r] < q - Ahead(r, status) THEN Stock[r] ELSE q - Ahead(r, status)
  BY <1>3 DEF n
<1>. QED  BY <1>2, <1>5, <1>6, <1>7, <1>8, <1>9, <1>10

-----------------------------------------------------------------------------
(* Types, for any number of callers.                                        *)

Pending == \A c \in Callers : SoundList(todo[c], DOMAIN rows)
StockInv == TypeOK /\ Pending

LEMMA BeginStep ==
  ASSUME StockInv, NEW c \in Callers, NEW kind, NEW list, SoundList(list, DOMAIN rows),
         NEW made \in Nat, BeginMaking(c, kind, list, made), rows' = rows
  PROVE  /\ todo' = [todo EXCEPT ![c] = list]
         /\ todo' \in [Callers -> Seq(Calls)]
         /\ Pending'
         /\ count' \in [calls : Nat, faults : Nat, made : Nat, adjusted : BOOLEAN]
<1>1. todo \in [Callers -> Seq(Calls)] /\ list \in Seq(Calls)
  BY DEF StockInv, TypeOK, SoundList
<1>2. todo' = [todo EXCEPT ![c] = list]
  BY DEF BeginMaking
<1>3. todo' \in [Callers -> Seq(Calls)] /\ todo'[c] = list /\ \A d \in Callers : d # c => todo'[d] = todo[d]
  BY <1>1, <1>2
<1>4. Pending'
  BY <1>3, Zenon DEF StockInv, Pending
<1>5. count' \in [calls : Nat, faults : Nat, made : Nat, adjusted : BOOLEAN]
  <2>1. count \in [calls : Nat, faults : Nat, made : Nat, adjusted : BOOLEAN]
    BY DEF StockInv, TypeOK
  <2>. DEFINE b == count.adjusted \/ kind \in {"adjust", "setQuantity"}
  <2>2. b \in BOOLEAN
    BY Zenon
  <2>3. count' = [count EXCEPT !.calls = @ + 1, !.made = @ + made, !.adjusted = b]
    BY DEF BeginMaking
  <2>. HIDE DEF b
  <2>4. count' = [calls |-> count.calls + 1, faults |-> count.faults, made |-> count.made + made, adjusted |-> b]
    BY <2>1, <2>3
  <2>5. count.calls + 1 \in Nat /\ count.faults \in Nat /\ count.made + made \in Nat
    BY <2>1
  <2>. QED  BY <2>2, <2>4, <2>5, Zenon
<1>. QED  BY <1>2, <1>3, <1>4, <1>5, Zenon

LEMMA FollowStep ==
  ASSUME StockInv, NEW c \in Callers, todo[c] # <<>>, DOMAIN rows \subseteq DOMAIN rows',
         NEW list, SoundList(list, DOMAIN rows'), Follow(c, list)
  PROVE  todo' \in [Callers -> Seq(Calls)] /\ Pending'
<1>1. todo \in [Callers -> Seq(Calls)] /\ SoundList(todo[c], DOMAIN rows)
  BY DEF StockInv, TypeOK, Pending
<1>. DEFINE s == list \o Tail(todo[c])
<1>2. SoundList(s, DOMAIN rows')
  BY <1>1, FollowSound, Zenon
<1>3. todo' = [todo EXCEPT ![c] = s]
  BY <1>1 DEF Follow
<1>. HIDE DEF s
<1>4. s \in Seq(Calls)
  BY <1>2 DEF SoundList
<1>5. todo' \in [Callers -> Seq(Calls)] /\ todo'[c] = s /\ \A d \in Callers : d # c => todo'[d] = todo[d]
  BY <1>1, <1>3, <1>4
<1>6. ASSUME NEW d \in Callers
      PROVE  SoundList(todo'[d], DOMAIN rows')
  <2>1. CASE d = c
    BY <1>2, <1>5, <2>1
  <2>2. CASE d # c
    <3>1. SoundList(todo[d], DOMAIN rows) /\ todo'[d] = todo[d]
      BY <1>5, <2>2 DEF StockInv, Pending
    <3>. QED  BY <3>1, SoundMore DEF SoundList
  <2>. QED  BY <2>1, <2>2
<1>. QED  BY <1>5, <1>6 DEF Pending

LEMMA ThrowStep ==
  ASSUME StockInv, NEW c \in Callers, Throw(c), rows' = rows
  PROVE  todo' \in [Callers -> Seq(Calls)] /\ Pending'
<1>1. todo \in [Callers -> Seq(Calls)]
  BY DEF StockInv, TypeOK
<1>2. todo' = [todo EXCEPT ![c] = <<>>]
  BY DEF Throw
<1>3. todo' \in [Callers -> Seq(Calls)] /\ todo'[c] = <<>> /\ \A d \in Callers : d # c => todo'[d] = todo[d]
  BY <1>1, <1>2, EmptySeq
<1>. QED  BY <1>3, EmptySound DEF StockInv, Pending

(* The call at the head of a list.                                          *)
LEMMA HeadSound ==
  ASSUME StockInv, NEW c \in Callers, NEW name, Doing(c, name)
  PROVE  /\ todo[c] # <<>>
         /\ Sound(next(c), DOMAIN rows)
         /\ next(c).call = name
         /\ next(c).lot \in Lots \cup {NoLot} /\ next(c).bin \in Places /\ next(c).status \in Statuses
         /\ next(c).row \in Nat /\ next(c).qty \in Nat /\ next(c).delta \in Int
         /\ next(c) = todo[c][1] /\ Len(todo[c]) \in Nat \ {0}
<1>1. SoundList(todo[c], DOMAIN rows) /\ todo[c] \in Seq(Calls) /\ todo[c] # <<>>
  BY DEF StockInv, Pending, SoundList, Doing
<1>2. Len(todo[c]) \in Nat \ {0} /\ next(c) = todo[c][1]
  BY <1>1, EmptySeq, HeadTailProperties DEF next
<1>3. 1 \in 1..Len(todo[c])
  BY <1>2
<1>4. Sound(next(c), DOMAIN rows)
  BY <1>1, <1>2, <1>3 DEF SoundList
<1>. QED  BY <1>1, <1>2, <1>4 DEF Sound, Calls, Doing

LEMMA AnyQuantityType ==
  ASSUME TypeOK, NEW R \in SUBSET DOMAIN rows, NEW q \in AnyQuantity(R)
  PROVE  q \in Nat
BY RowsFinite DEF AnyQuantity, Quantity, Row

LEMMA InLotType ==
  ASSUME TypeOK, NEW l, NEW q \in InLot(l)
  PROVE  q \in Nat
<1>1. RowsOf(l, "available") \in SUBSET DOMAIN rows
  BY DEF RowsOf
<1>. QED  BY <1>1, AnyQuantityType DEF InLot

(* A list made from one call for each of a listing.                         *)
LEMMA ListedSound ==
  ASSUME NEW ids, NEW n \in Nat, NEW s, DOMAIN s = 1..n, s = [i \in 1..n |-> s[i]],
         \A i \in 1..n : Sound(s[i], ids)
  PROVE  SoundList(s, ids)
<1>1. \A i \in 1..n : s[i] \in Calls
  BY DEF Sound
<1>2. s \in [1..n -> Calls]
  BY <1>1, Zenon
<1>3. s \in Seq(Calls)
  BY <1>2
<1>4. Len(s) = n
  BY <1>3, LenProperties
<1>. QED  BY <1>3, <1>4 DEF SoundList

StaleRows == {r \in DOMAIN rows : /\ rows[r].status = "available" /\ rows[r].qty > 0
                                  /\ lotStatus[rows[r].lot] = "active" /\ IsExpired(rows[r].lot)}

LEMMA PickListSound ==
  ASSUME StockInv, NEW status \in Statuses, NEW q \in Nat
  PROVE  LET allocations == Select(status, q) IN
         SoundList([i \in DOMAIN allocations |-> Ship(allocations[i])], DOMAIN rows)
<1>. DEFINE ids == InOrder(Selected(status, q), Sooner(status))
            n == Cardinality(Selected(status, q))
            a == Select(status, q)
            s == [i \in DOMAIN a |-> Ship(a[i])]
<1>1. /\ n \in Nat /\ DOMAIN ids = 1..n /\ ids \in [1..n -> Selected(status, q)]
      /\ DOMAIN a = 1..n
      /\ \A i \in 1..n : a[i] = Allocation(ids[i], status, q)
  BY SelectLists, SMTT(20) DEF StockInv, Listing
<1>. HIDE DEF ids, n, a
<1>2. \A i \in 1..n : a[i].lot \in Lots /\ a[i].bin \in Places /\ a[i].status \in Statuses /\ a[i].qty \in Nat
  <2>. SUFFICES ASSUME NEW i \in 1..n
                PROVE  a[i].lot \in Lots /\ a[i].bin \in Places /\ a[i].status \in Statuses /\ a[i].qty \in Nat
    OBVIOUS
  <2>1. ids[i] \in Selected(status, q) /\ a[i] = Allocation(ids[i], status, q)
    BY <1>1
  <2>2. TypeOK
    BY DEF StockInv
  <2>. QED  BY <2>1, <2>2, AllocationType
<1>3. \A i \in 1..n : Sound(Ship(a[i]), DOMAIN rows)
  BY <1>2, ShipSound
<1>4. SoundList(s, DOMAIN rows)
  <2>1. DOMAIN s = 1..n /\ s = [i \in 1..n |-> s[i]] /\ \A i \in 1..n : Sound(s[i], DOMAIN rows)
    BY <1>1, <1>3
  <2>. HIDE DEF s
  <2>. QED  BY <1>1, <2>1, ListedSound, Zenon
<1>. QED  BY <1>4 DEF s, a

LEMMA QuarantineSound ==
  ASSUME TypeOK, NEW r \in DOMAIN rows
  PROVE  Sound(Quarantine(r), DOMAIN rows)
<1>1. rows[r] \in Row /\ r \in Nat
  BY RowsFinite
<1>. QED  BY <1>1, BlankIsCall DEF Row, Sound, Quarantine, Blank, Calls, CallNames, WithLot, WithRow

LEMMA SweepListSound ==
  ASSUME StockInv
  PROVE  LET stale == Ascending(StaleRows) IN
         SoundList([i \in DOMAIN stale |-> Quarantine(stale[i])], DOMAIN rows)
<1>. DEFINE stale == Ascending(StaleRows)
            n == Cardinality(StaleRows)
            s == [i \in DOMAIN stale |-> Quarantine(stale[i])]
<1>1. StaleRows \in SUBSET DOMAIN rows /\ StaleRows \in SUBSET Nat /\ IsFiniteSet(StaleRows)
  <2>1. StaleRows \in SUBSET DOMAIN rows
    BY DEF StaleRows
  <2>. QED  BY <2>1, RowsFinite, FS_Subset DEF StockInv
<1>2. n \in Nat /\ DOMAIN stale = 1..n /\ stale \in [1..n -> StaleRows]
  BY <1>1, AscendingLists, Zenon DEF Listing
<1>. HIDE DEF n, stale
<1>3. \A i \in 1..n : Sound(Quarantine(stale[i]), DOMAIN rows)
  BY <1>1, <1>2, QuarantineSound DEF StockInv
<1>4. SoundList(s, DOMAIN rows)
  <2>1. DOMAIN s = 1..n /\ s = [i \in 1..n |-> s[i]] /\ \A i \in 1..n : Sound(s[i], DOMAIN rows)
    BY <1>2, <1>3
  <2>. HIDE DEF s
  <2>. QED  BY <1>2, <2>1, ListedSound, Zenon
<1>. QED  BY <1>4 DEF s, stale

LEMMA StartsStep ==
  ASSUME StockInv, NEW c \in Callers, Starts(c)
  PROVE  StockInv'
<1>. DEFINE Goal == StockInv'
<1>1. /\ TypeOK /\ Pending /\ MaxQty \in Nat
      /\ Lots \in SUBSET Nat /\ "available" \in Statuses /\ "reserved" \in Statuses /\ NoBin \in Places
  BY StockAssumption DEF StockInv, Statuses, Places
<1>2. ASSUME NEW kind, NEW list, SoundList(list, DOMAIN rows), NEW made \in Nat, BeginMaking(c, kind, list, made),
             rows' = rows, agg' = agg, posted' = posted,
             lotStatus' \in [Lots -> LotStatuses \cup {"none"}],
             pick' \in [Callers -> [want : Nat, shipped : Int]]
      PROVE  Goal
  <2>1. /\ todo' \in [Callers -> Seq(Calls)] /\ Pending'
        /\ count' \in [calls : Nat, faults : Nat, made : Nat, adjusted : BOOLEAN]
    BY <1>2, BeginStep, Zenon
  <2>2. TypeOK'
    BY <1>1, <1>2, <2>1 DEF TypeOK
  <2>. QED  BY <2>1, <2>2 DEF StockInv
<1>3. /\ lotStatus \in [Lots -> LotStatuses \cup {"none"}] /\ pick \in [Callers -> [want : Nat, shipped : Int]]
      /\ agg \in Nat
  BY <1>1 DEF TypeOK
<1>4. ASSUME NEW kind, NEW list, SoundList(list, DOMAIN rows), Begin(c, kind, list), Pure, UNCHANGED pick
      PROVE  Goal
  BY <1>2, <1>3, <1>4 DEF Begin, Pure
<1>. HIDE DEF Goal
<1>5. ASSUME Produce(c)
      PROVE  Goal
  <2>1. PICK l \in Lots, q \in Quantities :
          /\ lotStatus' = [lotStatus EXCEPT ![l] = "active"]
          /\ BeginMaking(c, "produce", <<Put(l, NoBin, "available", q), Post(l, q), AddAgg(q)>>, q)
          /\ UNCHANGED <<rows, agg, posted, pick>>
    BY <1>5, Zenon DEF Produce
  <2>2. q \in Nat /\ q \in Int
    BY <1>1 DEF Quantities
  <2>3. SoundList(<<Put(l, NoBin, "available", q), Post(l, q), AddAgg(q)>>, DOMAIN rows)
    BY <1>1, <2>2, PutSound, PostSound, AggSound, ThreeSound
  <2>4. lotStatus' \in [Lots -> LotStatuses \cup {"none"}]
    BY <1>3, <2>1 DEF LotStatuses
  <2>. QED  BY <1>2, <1>3, <2>1, <2>2, <2>3, <2>4
<1>6. ASSUME Pick(c)
      PROVE  Goal
  <2>1. PICK q \in Quantities, s \in {"available", "reserved"} :
          LET allocations == Select(s, q) IN
          /\ Begin(c, "pick", [i \in DOMAIN allocations |-> Ship(allocations[i])])
          /\ pick' = [pick EXCEPT ![c] = [want |-> q, shipped |-> 0]]
          /\ Pure
    BY <1>6, Zenon DEF Pick
  <2>2. q \in Nat /\ s \in Statuses
    BY <1>1 DEF Quantities
  <2>. DEFINE allocations == Select(s, q)
              list == [i \in DOMAIN allocations |-> Ship(allocations[i])]
  <2>3. SoundList(list, DOMAIN rows)
    BY <2>2, PickListSound
  <2>4. BeginMaking(c, "pick", list, 0)
    BY <2>1 DEF Begin
  <2>5. pick' \in [Callers -> [want : Nat, shipped : Int]]
    BY <1>3, <2>1, <2>2
  <2>6. rows' = rows /\ agg' = agg /\ posted' = posted /\ lotStatus' = lotStatus
    BY <2>1 DEF Pure
  <2>7. lotStatus' \in [Lots -> LotStatuses \cup {"none"}] /\ 0 \in Nat
    BY <1>3, <2>6
  <2>. HIDE DEF list
  <2>. QED  BY <1>2, <2>3, <2>4, <2>5, <2>6, <2>7, Zenon
<1>7. ASSUME Reserve(c)
      PROVE  Goal
  <2>1. PICK l \in Lots, q \in Quantities : \E r \in RowsOf(l, "available") :
          /\ Quantity(r) >= q
          /\ Begin(c, "reserve", <<Set(r, Quantity(r) - q), Put(l, NoBin, "reserved", q)>>)
          /\ Pure /\ UNCHANGED pick
    BY <1>7, Zenon DEF Reserve
  <2>10. PICK r \in RowsOf(l, "available") :
          /\ Quantity(r) >= q
          /\ Begin(c, "reserve", <<Set(r, Quantity(r) - q), Put(l, NoBin, "reserved", q)>>)
          /\ Pure /\ UNCHANGED pick
    BY <2>1, Zenon
  <2>2. q \in Nat /\ r \in DOMAIN rows /\ Quantity(r) - q \in Nat
    BY <1>1, <2>10, RowsFinite DEF Quantities, RowsOf, Quantity
  <2>3. SoundList(<<Set(r, Quantity(r) - q), Put(l, NoBin, "reserved", q)>>, DOMAIN rows)
    BY <1>1, <2>2, RowsFinite, SetSound, PutSound, TwoSound
  <2>. QED  BY <1>4, <2>10, <2>3
<1>8. ASSUME Release(c)
      PROVE  Goal
  <2>1. PICK l \in Lots, q \in Quantities : \E r \in RowsOf(l, "reserved") :
          /\ Quantity(r) >= q
          /\ Begin(c, "release", <<Set(r, Quantity(r) - q), Lookup(l, "available", q)>>)
          /\ Pure /\ UNCHANGED pick
    BY <1>8, Zenon DEF Release
  <2>10. PICK r \in RowsOf(l, "reserved") :
          /\ Quantity(r) >= q
          /\ Begin(c, "release", <<Set(r, Quantity(r) - q), Lookup(l, "available", q)>>)
          /\ Pure /\ UNCHANGED pick
    BY <2>1, Zenon
  <2>2. q \in Nat /\ r \in DOMAIN rows /\ Quantity(r) - q \in Nat
    BY <1>1, <2>10, RowsFinite DEF Quantities, RowsOf, Quantity
  <2>3. SoundList(<<Set(r, Quantity(r) - q), Lookup(l, "available", q)>>, DOMAIN rows)
    BY <1>1, <2>2, RowsFinite, SetSound, LookupSound, TwoSound
  <2>. QED  BY <1>4, <2>10, <2>3
<1>9. ASSUME Adjust(c)
      PROVE  Goal
  <2>1. PICK l \in {m \in Lots : Made(m)} \cup {NoLot}, d \in {q \in -MaxQty..MaxQty : q # 0} : \E current \in InLot(l) :
          /\ l # NoLot => current + d >= 0
          /\ Begin(c, "adjust", <<Adjustment(l, d, current)>>)
          /\ Pure /\ UNCHANGED pick
    BY <1>9, Zenon DEF Adjust
  <2>10. PICK current \in InLot(l) :
          /\ l # NoLot => current + d >= 0
          /\ Begin(c, "adjust", <<Adjustment(l, d, current)>>)
          /\ Pure /\ UNCHANGED pick
    BY <2>1, Zenon
  <2>2. current \in Nat /\ d \in Int /\ l \in Lots \cup {NoLot}
    BY <1>1, InLotType
  <2>3. SoundList(<<Adjustment(l, d, current)>>, DOMAIN rows)
    BY <2>10, <2>2, AdjustmentSound, OneSound
  <2>. QED  BY <1>4, <2>10, <2>3
<1>10. ASSUME SetQuantity(c)
      PROVE  Goal
  <2>1. PICK target \in 0..MaxQty :
          Begin(c, "setQuantity", <<Adjustment(NoLot, target - agg, 0)>>) /\ Pure /\ UNCHANGED pick
    BY <1>10, Zenon DEF SetQuantity
  <2>2. target - agg \in Int
    BY <1>3
  <2>3. SoundList(<<Adjustment(NoLot, target - agg, 0)>>, DOMAIN rows)
    BY <2>2, AdjustmentSound, OneSound
  <2>. QED  BY <1>4, <2>1, <2>3
<1>11. ASSUME Move(c)
      PROVE  Goal
  <2>1. PICK l \in Lots, from \in Places, to \in Bins, s \in Statuses, q \in Quantities : \E r \in RowsAt(l, from, s) :
          /\ Quantity(r) >= q
          /\ Begin(c, "move",
                   <<[Blank EXCEPT !.call = "moveInto", !.lot = l, !.bin = to, !.status = s,
                                   !.row = r, !.qty = q, !.delta = Quantity(r) - q]>>)
          /\ Pure /\ UNCHANGED pick
    BY <1>11, ZenonT(40) DEF Move
  <2>10. PICK r \in RowsAt(l, from, s) :
          /\ Quantity(r) >= q
          /\ Begin(c, "move",
                   <<[Blank EXCEPT !.call = "moveInto", !.lot = l, !.bin = to, !.status = s,
                                   !.row = r, !.qty = q, !.delta = Quantity(r) - q]>>)
          /\ Pure /\ UNCHANGED pick
    BY <2>1, Zenon
  <2>2. q \in Nat /\ r \in DOMAIN rows /\ r \in Nat /\ Quantity(r) - q \in Nat
    BY <1>1, <2>10, RowsFinite DEF Quantities, RowsOf, RowsAt, Quantity
  <2>. DEFINE k == [Blank EXCEPT !.call = "moveInto", !.lot = l, !.bin = to, !.status = s,
                                 !.row = r, !.qty = q, !.delta = Quantity(r) - q]
  <2>3. Sound(k, DOMAIN rows)
    BY <2>2, MoveIntoSound
  <2>. HIDE DEF k
  <2>4. SoundList(<<k>>, DOMAIN rows)
    BY <2>3, OneSound
  <2>. QED  BY <1>4, <2>10, <2>4 DEF k
<1>12. ASSUME Sweep(c)
      PROVE  Goal
  <2>. DEFINE stale == Ascending(StaleRows)
              list == [i \in DOMAIN stale |-> Quarantine(stale[i])]
  <2>1. Begin(c, "sweep", list) /\ Pure /\ UNCHANGED pick
    BY <1>12 DEF Sweep, StaleRows
  <2>2. SoundList(list, DOMAIN rows)
    BY SweepListSound
  <2>. HIDE DEF list
  <2>. QED  BY <1>4, <2>1, <2>2
<1>13. ASSUME UpdateStatus(c)
      PROVE  Goal
  <2>1. PICK l \in Lots, s \in LotStatuses :
          /\ Begin(c, "status", <<>>)
          /\ lotStatus' = [lotStatus EXCEPT ![l] = s]
          /\ UNCHANGED <<rows, agg, posted, pick>>
    BY <1>13, Zenon DEF UpdateStatus
  <2>2. lotStatus' \in [Lots -> LotStatuses \cup {"none"}]
    BY <1>3, <2>1
  <2>3. BeginMaking(c, "status", <<>>, 0)
    BY <2>1 DEF Begin
  <2>. QED  BY <1>2, <1>3, <2>1, <2>2, <2>3, EmptySound
<1>14. Goal
  BY <1>5, <1>6, <1>7, <1>8, <1>9, <1>10, <1>11, <1>12, <1>13, Zenon DEF Starts
<1>. QED  BY <1>14 DEF Goal

LEMMA ResolvesStep ==
  ASSUME StockInv, NEW c \in Callers, Resolves(c)
  PROVE  StockInv'
<1>. DEFINE Goal == StockInv'
            D == DOMAIN rows
<1>1. /\ TypeOK /\ Pending /\ D \in SUBSET Nat
      /\ Lots \in SUBSET Nat /\ NoBin \in Places /\ "available" \in Statuses /\ "quarantine" \in Statuses
      /\ agg \in Nat /\ \A b \in Bins : b \in Places
  BY StockAssumption, RowsFinite DEF StockInv, TypeOK, Statuses, Places
<1>2. ASSUME UNCHANGED <<rows, lotStatus, agg, posted, pick, count>>,
             todo' \in [Callers -> Seq(Calls)] /\ Pending'
      PROVE  Goal
  <2>1. TypeOK'
    BY <1>1, <1>2 DEF TypeOK
  <2>. QED  BY <1>2, <2>1 DEF StockInv
<1>3. ASSUME UNCHANGED <<rows, lotStatus, agg, posted, pick, count>>,
             todo[c] # <<>>, NEW list, SoundList(list, D), Follow(c, list)
      PROVE  Goal
  BY <1>2, <1>3, FollowStep
<1>4. ASSUME UNCHANGED <<rows, lotStatus, agg, posted, pick, count>>, Throw(c)
      PROVE  Goal
  BY <1>2, <1>4, ThrowStep
<1>5. \A R \in SUBSET D : \A q \in AnyQuantity(R) : q \in Nat
  BY <1>1, AnyQuantityType
<1>6. (\A l, s : RowsOf(l, s) \in SUBSET D) /\ (\A l, b, s : RowsAt(l, b, s) \in SUBSET D)
  BY DEF RowsOf, RowsAt
<1>. HIDE DEF Goal, D
<1>7. ASSUME ShipRead(c)
      PROVE  Goal
  <2>1. Doing(c, "ship") /\ UNCHANGED <<rows, lotStatus, agg, posted, pick, count>>
    BY <1>7 DEF ShipRead
  <2>2. CASE Throw(c)
    BY <1>4, <2>1, <2>2
  <2>3. ASSUME NEW r \in RowsAt(next(c).lot, next(c).bin, next(c).status),
               Quantity(r) >= next(c).qty,
               Follow(c, <<[next(c) EXCEPT !.call = "shipAgg", !.row = r, !.delta = Quantity(r)]>>)
        PROVE  Goal
    <3>1. r \in D /\ r \in Nat /\ Quantity(r) \in Nat
      BY <1>1, <1>6, <2>3, RowsFinite DEF Quantity, Row, D
    <3>2. Sound(next(c), D) /\ todo[c] # <<>>
      BY <2>1, HeadSound DEF D
    <3>3. next(c) \in Calls /\ next(c).lot \in Lots /\ next(c).qty \in Nat
      BY <2>1, HeadSound DEF Sound, WithLot
    <3>. DEFINE k == [next(c) EXCEPT !.call = "shipAgg", !.row = r, !.delta = Quantity(r)]
    <3>4. Sound(k, D)
      BY <2>3, <3>1, <3>3, ShipAggSound
    <3>. HIDE DEF k
    <3>5. SoundList(<<k>>, D)
      BY <3>4, OneSound
    <3>. QED  BY <1>3, <2>1, <2>3, <3>2, <3>5 DEF k
  <2>. QED  BY <1>7, <2>2, <2>3, Zenon DEF ShipRead
<1>8. ASSUME ShipResolve(c)
      PROVE  Goal
  <2>1. Doing(c, "shipAgg") /\ UNCHANGED <<rows, lotStatus, agg, posted, pick, count>>
    BY <1>8 DEF ShipResolve
  <2>2. CASE Throw(c)
    BY <1>4, <2>1, <2>2
  <2>3. ASSUME agg >= next(c).qty,
               Follow(c, <<Set(next(c).row, next(c).delta - next(c).qty), SetAgg(agg - next(c).qty),
                           Post(next(c).lot, -next(c).qty)>>)
        PROVE  Goal
    <3>1. /\ todo[c] # <<>> /\ next(c).lot \in Lots /\ next(c).row \in D
          /\ next(c).delta - next(c).qty \in Nat /\ -next(c).qty \in Int /\ agg - next(c).qty \in Nat
      BY <1>1, <2>1, <2>3, HeadSound DEF Sound, WithLot, WithRow, D
    <3>2. /\ Sound(Set(next(c).row, next(c).delta - next(c).qty), D)
          /\ Sound(SetAgg(agg - next(c).qty), D)
          /\ Sound(Post(next(c).lot, -next(c).qty), D)
      BY <1>1, <3>1, SetSound, AggSound, PostSound
    <3>3. SoundList(<<Set(next(c).row, next(c).delta - next(c).qty), SetAgg(agg - next(c).qty),
                      Post(next(c).lot, -next(c).qty)>>, D)
      BY <3>2, ThreeSound
    <3>. QED  BY <1>3, <2>1, <2>3, <3>1, <3>3
  <2>. QED  BY <1>8, <2>2, <2>3 DEF ShipResolve
<1>9. ASSUME AdjustResolve(c)
      PROVE  Goal
  <2>. DEFINE k == next(c)
              lotWrite == IF k.lot = NoLot THEN <<>> ELSE <<Put(k.lot, NoBin, "available", k.qty)>>
              writes == lotWrite \o <<SetAgg(agg + k.delta), Post(k.lot, k.delta)>>
  <2>1. Doing(c, "adjustAgg") /\ UNCHANGED <<rows, lotStatus, agg, posted, pick, count>>
    BY <1>9 DEF AdjustResolve
  <2>2. CASE Throw(c)
    BY <1>4, <2>1, <2>2
  <2>3. ASSUME agg + k.delta >= 0, Follow(c, writes)
        PROVE  Goal
    <3>1. /\ todo[c] # <<>> /\ k.lot \in Lots \cup {NoLot}
          /\ k.qty \in Nat /\ k.delta \in Int /\ agg + k.delta \in Nat
      BY <1>1, <2>1, <2>3, HeadSound
    <3>. HIDE DEF k
    <3>2. Sound(SetAgg(agg + k.delta), D) /\ Sound(Post(k.lot, k.delta), D)
      BY <3>1, AggSound, PostSound
    <3>3. CASE k.lot = NoLot
      <4>1. writes = <<SetAgg(agg + k.delta), Post(k.lot, k.delta)>>
        BY <3>3
      <4>2. SoundList(writes, D)
        BY <3>2, <4>1, TwoSound
      <4>. QED  BY <1>3, <2>1, <2>3, <3>1, <4>2
    <3>4. CASE k.lot # NoLot
      <4>1. writes = <<Put(k.lot, NoBin, "available", k.qty), SetAgg(agg + k.delta), Post(k.lot, k.delta)>>
        BY <3>4, ConcatOneTwo
      <4>2. Sound(Put(k.lot, NoBin, "available", k.qty), D)
        BY <1>1, <3>1, <3>4, PutSound
      <4>3. SoundList(writes, D)
        BY <3>2, <4>1, <4>2, ThreeSound
      <4>. QED  BY <1>3, <2>1, <2>3, <3>1, <4>3
    <3>. QED  BY <3>3, <3>4
  <2>. QED  BY <1>9, <2>2, <2>3 DEF AdjustResolve
<1>10. ASSUME MoveResolve(c)
      PROVE  Goal
  <2>. DEFINE k == next(c)
  <2>1. Doing(c, "moveInto") /\ UNCHANGED <<rows, lotStatus, agg, posted, pick, count>>
    BY <1>10 DEF MoveResolve
  <2>2. CASE Throw(c)
    BY <1>4, <2>1, <2>2
  <2>3. ASSUME NEW there \in AnyQuantity(RowsAt(k.lot, k.bin, k.status)),
               Follow(c, <<Set(k.row, k.delta), Put(k.lot, k.bin, k.status, there + k.qty)>>)
        PROVE  Goal
    <3>1. /\ todo[c] # <<>> /\ k.lot \in Lots /\ k.row \in D /\ k.delta \in Nat
          /\ k.bin \in Places /\ k.status \in Statuses /\ k.qty \in Nat
      BY <1>1, <2>1, HeadSound DEF Sound, WithLot, WithRow, D
    <3>2. there + k.qty \in Nat
      BY <1>5, <1>6, <2>3, <3>1
    <3>. HIDE DEF k
    <3>3. SoundList(<<Set(k.row, k.delta), Put(k.lot, k.bin, k.status, there + k.qty)>>, D)
      BY <1>1, <3>1, <3>2, SetSound, PutSound, TwoSound
    <3>. QED  BY <1>3, <2>1, <2>3, <3>1, <3>3
  <2>. QED  BY <1>10, <2>2, <2>3 DEF MoveResolve
<1>11. ASSUME LookupRow(c)
      PROVE  Goal
  <2>. DEFINE k == next(c)
  <2>1. Doing(c, "lookup") /\ UNCHANGED <<rows, lotStatus, agg, posted, pick, count>>
    BY <1>11 DEF LookupRow
  <2>2. PICK there \in AnyQuantity(RowsOf(k.lot, k.status)) :
          Follow(c, <<Put(k.lot, NoBin, k.status, there + k.qty)>>)
    BY <1>11 DEF LookupRow
  <2>3. todo[c] # <<>> /\ k.lot \in Lots /\ k.status \in Statuses /\ k.qty \in Nat
    BY <2>1, HeadSound DEF Sound, WithLot
  <2>4. there + k.qty \in Nat
    BY <1>5, <1>6, <2>2, <2>3
  <2>. HIDE DEF k
  <2>5. SoundList(<<Put(k.lot, NoBin, k.status, there + k.qty)>>, D)
    BY <1>1, <2>3, <2>4, PutSound, OneSound
  <2>. QED  BY <1>3, <2>1, <2>2, <2>3, <2>5
<1>12. ASSUME QuarantineRow(c)
      PROVE  Goal
  <2>. DEFINE k == next(c)
  <2>1. Doing(c, "quarantine") /\ UNCHANGED <<rows, lotStatus, agg, posted, pick, count>>
    BY <1>12 DEF QuarantineRow
  <2>2. PICK there \in AnyQuantity(RowsOf(k.lot, "quarantine")) :
          Follow(c, <<Put(k.lot, NoBin, "quarantine", there + k.qty), Set(k.row, 0), Expire(k.lot)>>)
    BY <1>12 DEF QuarantineRow
  <2>3. todo[c] # <<>> /\ k.lot \in Lots /\ k.row \in D /\ k.qty \in Nat
    BY <2>1, HeadSound DEF Sound, WithLot, WithRow, D
  <2>4. there + k.qty \in Nat
    BY <1>5, <1>6, <2>2, <2>3
  <2>. HIDE DEF k
  <2>5. /\ Sound(Put(k.lot, NoBin, "quarantine", there + k.qty), D)
        /\ Sound(Set(k.row, 0), D)
        /\ Sound(Expire(k.lot), D)
    BY <1>1, <2>3, <2>4, PutSound, SetSound, ExpireSound
  <2>6. SoundList(<<Put(k.lot, NoBin, "quarantine", there + k.qty), Set(k.row, 0), Expire(k.lot)>>, D)
    BY <2>5, ThreeSound
  <2>. QED  BY <1>3, <2>1, <2>2, <2>3, <2>6
<1>13. ASSUME PutRow(c)
      PROVE  Goal
  <2>. DEFINE k == next(c)
  <2>1. Doing(c, "put") /\ UNCHANGED <<rows, lotStatus, agg, posted, pick, count>>
    BY <1>13 DEF PutRow
  <2>2. todo[c] # <<>> /\ Sound(k, D) /\ k \in Calls /\ k.lot \in Lots /\ k.qty \in Nat /\ k.call = "put"
    BY <2>1, HeadSound DEF Sound, WithLot, D
  <2>3. ASSUME NEW r \in RowsAt(k.lot, k.bin, k.status), Follow(c, <<Set(r, k.qty)>>)
        PROVE  Goal
    <3>1. r \in D
      BY <1>6, <2>3
    <3>2. SoundList(<<Set(r, k.qty)>>, D)
      BY <1>1, <2>2, <3>1, SetSound, OneSound
    <3>. QED  BY <1>3, <2>1, <2>2, <2>3, <3>2
  <2>4. ASSUME Follow(c, <<[k EXCEPT !.call = "insert"]>>)
        PROVE  Goal
    <3>. HIDE DEF k
    <3>. DEFINE m == [k EXCEPT !.call = "insert"]
    <3>1. Sound(m, D)
      BY <2>2 DEF Sound, Calls, CallNames, WithLot, WithRow
    <3>. HIDE DEF m
    <3>2. SoundList(<<m>>, D)
      BY <3>1, OneSound
    <3>. QED  BY <1>3, <2>1, <2>2, <2>4, <3>2 DEF m
  <2>. QED  BY <1>13, <2>3, <2>4, Zenon DEF PutRow
<1>14. Goal
  BY <1>7, <1>8, <1>9, <1>10, <1>11, <1>12, <1>13, Zenon DEF Resolves
<1>. QED  BY <1>14 DEF Goal

LEMMA WritesStep ==
  ASSUME StockInv, NEW c \in Callers, Writes(c)
  PROVE  StockInv'
<1>. DEFINE Goal == StockInv'
            D == DOMAIN rows
            k == next(c)
<1>1. /\ TypeOK /\ Pending
      /\ rows \in Seq(Row) /\ D = 1..Len(rows) /\ Len(rows) \in Nat
      /\ lotStatus \in [Lots -> LotStatuses \cup {"none"}] /\ pick \in [Callers -> [want : Nat, shipped : Int]]
      /\ agg \in Nat /\ posted \in [lots : Int, all : Int]
  BY RowsFinite DEF StockInv, TypeOK, Row
<1>2. ASSUME NEW name, Doing(c, name)
      PROVE  /\ todo[c] # <<>>
             /\ Sound(k, D) /\ k.call = name
             /\ k.lot \in Lots \cup {NoLot} /\ k.bin \in Places /\ k.status \in Statuses
             /\ k.qty \in Nat /\ k.delta \in Int
  BY <1>2, HeadSound
<1>3. ASSUME NEW name, Doing(c, name), Follow(c, <<>>), D \subseteq DOMAIN rows', UNCHANGED count,
             rows' \in Seq(Row), lotStatus' \in [Lots -> LotStatuses \cup {"none"}], agg' \in Nat,
             posted' \in [lots : Int, all : Int], pick' \in [Callers -> [want : Nat, shipped : Int]]
      PROVE  Goal
  <2>1. todo' \in [Callers -> Seq(Calls)] /\ Pending'
    BY <1>2, <1>3, FollowStep, EmptySound
  <2>2. TypeOK'
    BY <1>1, <1>3, <2>1 DEF TypeOK, Row
  <2>. QED  BY <2>1, <2>2 DEF StockInv
<1>4. ASSUME InsertRow(c)
      PROVE  Goal
  <2>. DEFINE row == [lot |-> k.lot, bin |-> k.bin, status |-> k.status, qty |-> k.qty]
  <2>1. Doing(c, "insert") /\ rows' = Append(rows, row) /\ Follow(c, <<>>)
        /\ UNCHANGED <<lotStatus, agg, posted, pick, count>>
    BY <1>4 DEF InsertRow
  <2>2. k.lot \in Lots /\ k.bin \in Places /\ k.status \in Statuses /\ k.qty \in Nat
    BY <1>2, <2>1 DEF Sound, WithLot
  <2>. HIDE DEF k
  <2>3. row \in Row
    BY <2>2 DEF Row
  <2>. HIDE DEF row
  <2>4. rows' \in Seq(Row) /\ Len(rows') = Len(rows) + 1
    BY <1>1, <2>1, <2>3, AppendProperties
  <2>5. D \subseteq DOMAIN rows'
    BY <1>1, <2>4, LenProperties
  <2>. HIDE DEF D, Goal
  <2>. QED  BY <1>1, <1>3, <2>1, <2>4, <2>5
<1>5. ASSUME SetRow(c)
      PROVE  Goal
  <2>1. Doing(c, "set") /\ rows' = [rows EXCEPT ![k.row].qty = k.qty] /\ Follow(c, <<>>)
        /\ UNCHANGED <<lotStatus, agg, posted, pick, count>>
    BY <1>5 DEF SetRow
  <2>2. k.row \in D /\ k.qty \in Nat
    BY <1>2, <2>1 DEF Sound, WithRow
  <2>. HIDE DEF k
  <2>. DEFINE row == [rows[k.row] EXCEPT !.qty = k.qty]
  <2>3. rows[k.row] \in Row
    BY <1>1, <2>2, ElementOfSeq
  <2>4. row \in Row
    BY <2>2, <2>3 DEF Row
  <2>5. rows' = [rows EXCEPT ![k.row] = row]
    BY <2>1
  <2>. HIDE DEF row
  <2>6. rows' \in Seq(Row) /\ Len(rows') = Len(rows)
    BY <1>1, <2>2, <2>4, <2>5, ExceptSeq
  <2>7. D \subseteq DOMAIN rows'
    BY <1>1, <2>6, LenProperties
  <2>. HIDE DEF D, Goal
  <2>. QED  BY <1>1, <1>3, <2>1, <2>6, <2>7
<1>6. ASSUME WriteAgg(c)
      PROVE  Goal
  <2>1. Doing(c, "setAgg") /\ agg' = k.qty /\ Follow(c, <<>>) /\ UNCHANGED <<rows, lotStatus, posted, pick, count>>
    BY <1>6 DEF WriteAgg
  <2>2. agg' \in Nat /\ D \subseteq DOMAIN rows'
    BY <1>2, <2>1
  <2>. HIDE DEF D, Goal, k
  <2>. QED  BY <1>1, <1>3, <2>1, <2>2
<1>7. ASSUME Increment(c)
      PROVE  Goal
  <2>1. Doing(c, "addAgg") /\ agg' = agg + k.qty /\ Follow(c, <<>>) /\ UNCHANGED <<rows, lotStatus, posted, pick, count>>
    BY <1>7 DEF Increment
  <2>2. agg' \in Nat /\ D \subseteq DOMAIN rows'
    BY <1>1, <1>2, <2>1
  <2>. HIDE DEF D, Goal, k
  <2>. QED  BY <1>1, <1>3, <2>1, <2>2
<1>8. ASSUME ExpireLot(c)
      PROVE  Goal
  <2>1. Doing(c, "expire") /\ lotStatus' = [lotStatus EXCEPT ![k.lot] = "expired"] /\ Follow(c, <<>>)
        /\ UNCHANGED <<rows, agg, posted, pick, count>>
    BY <1>8 DEF ExpireLot
  <2>2. lotStatus' \in [Lots -> LotStatuses \cup {"none"}] /\ D \subseteq DOMAIN rows'
    BY <1>1, <2>1 DEF LotStatuses
  <2>. HIDE DEF D, Goal, k
  <2>. QED  BY <1>1, <1>3, <2>1, <2>2
<1>9. ASSUME PostEntry(c)
      PROVE  Goal
  <2>1. Doing(c, "post") /\ Follow(c, <<>>) /\ UNCHANGED <<rows, lotStatus, agg, count>>
        /\ posted' = [lots |-> IF k.lot = NoLot THEN posted.lots ELSE posted.lots + k.delta,
                      all |-> posted.all + k.delta]
        /\ pick' = [pick EXCEPT ![c].shipped = IF k.delta < 0 THEN @ - k.delta ELSE @]
    BY <1>9 DEF PostEntry
  <2>2. k.delta \in Int
    BY <1>2, <2>1
  <2>. HIDE DEF k
  <2>3. posted' \in [lots : Int, all : Int]
    BY <1>1, <2>1, <2>2
  <2>4. pick' \in [Callers -> [want : Nat, shipped : Int]]
    <3>. DEFINE n == IF k.delta < 0 THEN pick[c].shipped - k.delta ELSE pick[c].shipped
    <3>1. n \in Int
      BY <1>1, <2>2
    <3>2. pick' = [pick EXCEPT ![c].shipped = n]
      BY <1>1, <2>1
    <3>. HIDE DEF n
    <3>. QED  BY <1>1, <3>1, <3>2
  <2>5. D \subseteq DOMAIN rows'
    BY <2>1
  <2>. HIDE DEF D, Goal
  <2>. QED  BY <1>1, <1>3, <2>1, <2>3, <2>4, <2>5
<1>. HIDE DEF Goal
<1>10. Goal
  BY <1>4, <1>5, <1>6, <1>7, <1>8, <1>9, Zenon DEF Writes
<1>. QED  BY <1>10 DEF Goal

LEMMA CutShortStep ==
  ASSUME StockInv, NEW c \in Callers, Throw(c), count' = [count EXCEPT !.faults = @ + 1],
         UNCHANGED <<rows, lotStatus, agg, posted, pick>>
  PROVE  StockInv'
<1>1. todo' \in [Callers -> Seq(Calls)] /\ Pending'
  BY ThrowStep
<1>2. count' \in [calls : Nat, faults : Nat, made : Nat, adjusted : BOOLEAN]
  <2>1. count \in [calls : Nat, faults : Nat, made : Nat, adjusted : BOOLEAN]
    BY DEF StockInv, TypeOK
  <2>. QED  BY <2>1
<1>3. TypeOK'
  BY <1>1, <1>2 DEF StockInv, TypeOK
<1>. QED  BY <1>1, <1>3 DEF StockInv

LEMMA SameStock ==
  ASSUME StockInv, UNCHANGED vars
  PROVE  StockInv'
BY DEF StockInv, TypeOK, Pending, vars

-----------------------------------------------------------------------------
(* The count.  A request that is posting a line has one to post.            *)

DeskType == [pc : DeskPC, to : SheetStatus, line : Nat, qty : Nat, zeros : BOOLEAN,
             snap : Seq(LineType), left : Seq([id : Nat, lot : Lots \cup {NoLot}, variance : Int])]
Ready(d) == d.pc \in {"adjusting", "stamp"} => d.left # <<>>
CountInv ==
  /\ StockInv
  /\ sheet \in SheetStatus \cup {"none"}
  /\ lines \in Seq(LineType) /\ posts \in Seq(Nat) /\ Len(posts) = Len(lines)
  /\ desk \in [Callers -> DeskType]
  /\ \A c \in Callers : Ready(desk[c])

LEMMA CountInvTypes == CountInv => CountTypeOK
BY DEF CountInv, CountTypeOK, StockInv, DeskType

LEMMA DeskStep ==
  ASSUME CountInv, NEW c \in Callers, NEW d \in DeskType, Ready(d), desk' = [desk EXCEPT ![c] = d]
  PROVE  desk' \in [Callers -> DeskType] /\ \A e \in Callers : Ready(desk'[e])
BY Zenon DEF CountInv

LEMMA IdleType == IdleDesk \in DeskType /\ Ready(IdleDesk)
<1>1. <<>> \in Seq(LineType) /\ <<>> \in Seq([id : Nat, lot : Lots \cup {NoLot}, variance : Int])
  BY EmptySeq
<1>. QED  BY <1>1 DEF IdleDesk, DeskType, Ready, DeskPC, SheetStatus

LEMMA LineOfType ==
  ASSUME CountInv, NEW i \in DOMAIN lines
  PROVE  /\ lines[i] \in LineType /\ i \in Nat /\ i \in 1..Len(lines)
         /\ Variance(lines[i]) \in Int
<1>1. lines[i] \in LineType /\ i \in Nat /\ i \in 1..Len(lines)
  BY LenProperties, ElementOfSeq DEF CountInv
<1>2. lines[i].system \in Nat /\ lines[i].counted \in Int
  BY <1>1 DEF LineType, Uncounted
<1>. QED  BY <1>1, <1>2 DEF Variance

LEMMA SetLineStep ==
  ASSUME CountInv, NEW i, NEW line, i \in Live => line \in LineType, SetLine(i, line)
  PROVE  lines' \in Seq(LineType) /\ Len(lines') = Len(lines)
<1>1. CASE i \in Live
  <2>1. lines' = [lines EXCEPT ![i] = line] /\ i \in 1..Len(lines)
    BY <1>1, LineOfType DEF SetLine, Live
  <2>. QED  BY <1>1, <2>1, ExceptSeq DEF CountInv
<1>2. CASE i \notin Live
  BY <1>2 DEF SetLine, CountInv
<1>. QED  BY <1>1, <1>2

LEMMA StockStepType ==
  ASSUME CountInv, NEW c \in Callers, StockStep(c)
  PROVE  StockInv'
<1>1. StockInv
  BY DEF CountInv
<1>2. Starts(c) \/ Resolves(c) \/ Writes(c) \/ CutShort(c)
  BY Zenon DEF StockStep, Writes
<1>. QED  BY <1>1, <1>2, StartsStep, ResolvesStep, WritesStep, CutShortStep, Zenon DEF CutShort

LEMMA SnapType ==
  ASSUME CountInv, NEW S \in SUBSET DOMAIN rows
  PROVE  LET ids == Ascending(S) IN
         [i \in DOMAIN ids |-> Line(rows[ids[i]].lot, ids[i], rows[ids[i]].qty)] \in Seq(LineType)
<1>. DEFINE ids == Ascending(S)
            n == Cardinality(S)
            e == [i \in DOMAIN ids |-> Line(rows[ids[i]].lot, ids[i], rows[ids[i]].qty)]
<1>1. TypeOK /\ DOMAIN rows \in SUBSET Nat /\ IsFiniteSet(DOMAIN rows)
  BY RowsFinite DEF CountInv, StockInv
<1>2. IsFiniteSet(S) /\ S \in SUBSET Nat
  BY <1>1, FS_Subset
<1>3. n \in Nat /\ DOMAIN ids = 1..n /\ ids \in [1..n -> S]
  BY <1>2, AscendingLists, Zenon DEF Listing
<1>. HIDE DEF ids, n
<1>4. ASSUME NEW i \in 1..n
      PROVE  Line(rows[ids[i]].lot, ids[i], rows[ids[i]].qty) \in LineType
  <2>1. ids[i] \in DOMAIN rows
    BY <1>3
  <2>2. rows[ids[i]] \in Row /\ ids[i] \in Nat
    BY <1>1, <2>1, RowsFinite
  <2>3. rows[ids[i]].lot \in Lots /\ rows[ids[i]].qty \in Nat /\ count.calls \in Nat
    BY <1>1, <2>2 DEF Row, TypeOK
  <2>. QED  BY <2>2, <2>3 DEF Line, LineType, LineStatus, Uncounted
<1>5. e \in [1..n -> LineType]
  BY <1>3, <1>4
<1>6. e \in Seq(LineType)
  BY <1>3, <1>5
<1>. QED  BY <1>6 DEF e, ids

LEMMA LeftType ==
  ASSUME CountInv
  PROVE  LET ids == Ascending(Live) IN
         [j \in DOMAIN ids |-> [id |-> ids[j], lot |-> lines[ids[j]].lot, variance |-> Variance(lines[ids[j]])]]
           \in Seq([id : Nat, lot : Lots \cup {NoLot}, variance : Int])
<1>. DEFINE ids == Ascending(Live)
            n == Cardinality(Live)
            E == [id : Nat, lot : Lots \cup {NoLot}, variance : Int]
            e == [j \in DOMAIN ids |-> [id |-> ids[j], lot |-> lines[ids[j]].lot, variance |-> Variance(lines[ids[j]])]]
<1>1. IsFiniteSet(Live) /\ Live \in SUBSET Nat /\ Live \in SUBSET DOMAIN lines
  <2>1. DOMAIN lines = 1..Len(lines) /\ Len(lines) \in Nat
    BY LenProperties DEF CountInv
  <2>2. IsFiniteSet(DOMAIN lines) /\ Live \in SUBSET DOMAIN lines
    BY <2>1, FS_Interval DEF Live
  <2>. QED  BY <2>1, <2>2, FS_Subset
<1>2. n \in Nat /\ DOMAIN ids = 1..n /\ ids \in [1..n -> Live]
  BY <1>1, AscendingLists, Zenon DEF Listing
<1>. HIDE DEF ids, n
<1>3. ASSUME NEW j \in 1..n
      PROVE  [id |-> ids[j], lot |-> lines[ids[j]].lot, variance |-> Variance(lines[ids[j]])] \in E
  <2>1. ids[j] \in DOMAIN lines
    BY <1>1, <1>2
  <2>2. lines[ids[j]] \in LineType /\ ids[j] \in Nat /\ Variance(lines[ids[j]]) \in Int
    BY <2>1, LineOfType
  <2>3. lines[ids[j]].lot \in Lots \cup {NoLot}
    BY <2>2 DEF LineType
  <2>. QED  BY <2>2, <2>3
<1>4. e \in [1..n -> E]
  BY <1>2, <1>3
<1>5. e \in Seq(E)
  BY <1>2, <1>4
<1>. QED  BY <1>5 DEF e, ids

LEMMA CountStepType ==
  ASSUME CountInv, NEW c \in Callers, CountStep(c)
  PROVE  CountInv'
<1>. DEFINE Goal == CountInv'
            d == desk[c]
            LeftOf == [id : Nat, lot : Lots \cup {NoLot}, variance : Int]
            Sheets == SheetStatus \cup {"none"}
<1>1. /\ StockInv /\ TypeOK /\ count.calls \in Nat /\ agg \in Nat
      /\ sheet \in Sheets /\ lines \in Seq(LineType) /\ posts \in Seq(Nat) /\ Len(posts) = Len(lines)
      /\ desk \in [Callers -> DeskType] /\ Ready(d) /\ d \in DeskType
  BY DEF CountInv, StockInv, TypeOK
<1>2. /\ d.pc \in DeskPC /\ d.to \in SheetStatus /\ d.line \in Nat /\ d.qty \in Nat /\ d.zeros \in BOOLEAN
      /\ d.snap \in Seq(LineType) /\ d.left \in Seq(LeftOf)
  BY <1>1 DEF DeskType
<1>3. ASSUME StockInv', sheet' \in Sheets, lines' \in Seq(LineType), posts' \in Seq(Nat), Len(posts') = Len(lines'),
             NEW e \in DeskType, Ready(e), desk' = [desk EXCEPT ![c] = e]
      PROVE  Goal
  BY <1>3, DeskStep DEF CountInv
<1>4. ASSUME UNCHANGED vars
      PROVE  StockInv'
  BY <1>1, <1>4, SameStock
<1>5. ASSUME NEW e \in DeskType, Ready(e), desk' = [desk EXCEPT ![c] = e], UNCHANGED <<vars, sheet, lines, posts>>
      PROVE  Goal
  <2>1. StockInv' /\ sheet' = sheet /\ lines' = lines /\ posts' = posts
    BY <1>4, <1>5
  <2>. QED  BY <1>1, <1>3, <1>5, <2>1
<1>. DEFINE At(pc) == [d EXCEPT !.pc = pc]
            After(pc) == [d EXCEPT !.pc = pc, !.left = Tail(@)]
<1>6. ASSUME NEW pc \in DeskPC, pc \notin {"adjusting", "stamp"} \/ d.left # <<>>
      PROVE  At(pc) \in DeskType /\ Ready(At(pc))
  BY <1>1, <1>6 DEF DeskType, Ready
<1>7. ASSUME d.left # <<>>
      PROVE  After("post") \in DeskType /\ Ready(After("post"))
  <2>1. Tail(d.left) \in Seq(LeftOf) /\ "post" \in DeskPC
    BY <1>2, <1>7, HeadTailProperties DEF DeskPC
  <2>. QED  BY <1>1, <2>1 DEF DeskType, Ready
<1>8. \A pc : Turns(c, pc) => desk' = [desk EXCEPT ![c] = At(pc)]
  BY <1>1 DEF Turns
<1>9. NextLine(c) => desk' = [desk EXCEPT ![c] = After("post")]
  BY <1>1 DEF NextLine
<1>10. Ends(c) => desk' = [desk EXCEPT ![c] = IdleDesk]
  BY DEF Ends
<1>11. d.pc \in {"adjusting", "stamp"} => d.left # <<>>
  BY <1>1 DEF Ready
<1>. HIDE DEF Goal, At, After
<1>20. ASSUME Create(c)
       PROVE  Goal
  <2>1. StockInv' /\ sheet' = "draft" /\ lines' = lines /\ posts' = posts /\ desk' = desk
    BY <1>4, <1>20 DEF Create
  <2>2. desk' = [desk EXCEPT ![c] = d] /\ sheet' \in Sheets
    BY <1>1, <2>1 DEF SheetStatus
  <2>. QED  BY <1>1, <1>3, <2>1, <2>2
<1>21. ASSUME BeginGenerate(c)
       PROVE  Goal
  <2>1. PICK zeros \in BOOLEAN : desk' = [desk EXCEPT ![c] = [IdleDesk EXCEPT !.pc = "clear", !.zeros = zeros]]
    BY <1>21 DEF BeginGenerate
  <2>. DEFINE e == [IdleDesk EXCEPT !.pc = "clear", !.zeros = zeros]
  <2>2. e \in DeskType /\ Ready(e)
    BY IdleType DEF IdleDesk, DeskType, DeskPC, Ready
  <2>. HIDE DEF e
  <2>. QED  BY <1>5, <1>21, <2>1, <2>2 DEF BeginGenerate, e
<1>22. ASSUME ClearPending(c)
       PROVE  Goal
  <2>1. StockInv' /\ sheet' = sheet /\ posts' = posts /\ Turns(c, "balances")
        /\ lines' = [i \in DOMAIN lines |->
                       IF lines[i].status = "pending" THEN [lines[i] EXCEPT !.status = "deleted"] ELSE lines[i]]
    BY <1>4, <1>22 DEF ClearPending
  <2>2. lines' \in Seq(LineType) /\ Len(lines') = Len(lines)
    <3>1. DOMAIN lines = 1..Len(lines) /\ Len(lines) \in Nat
      BY <1>1, LenProperties
    <3>2. \A i \in 1..Len(lines) : lines'[i] \in LineType
      <4>. SUFFICES ASSUME NEW i \in 1..Len(lines)
                    PROVE  lines'[i] \in LineType
        OBVIOUS
      <4>1. lines[i] \in LineType
        BY <3>1, LineOfType
      <4>2. lines'[i] = IF lines[i].status = "pending" THEN [lines[i] EXCEPT !.status = "deleted"] ELSE lines[i]
        BY <2>1, <3>1
      <4>3. [lines[i] EXCEPT !.status = "deleted"] \in LineType
        BY <4>1 DEF LineType, LineStatus
      <4>. QED  BY <4>1, <4>2, <4>3
    <3>3. lines' \in [1..Len(lines) -> LineType]
      BY <2>1, <3>1, <3>2
    <3>4. lines' \in Seq(LineType)
      BY <3>1, <3>3
    <3>. QED  BY <3>1, <3>3, <3>4, LenProperties
  <2>3. At("balances") \in DeskType /\ Ready(At("balances"))
    BY <1>6 DEF DeskPC
  <2>. QED  BY <1>1, <1>3, <1>8, <2>1, <2>2, <2>3
<1>23. ASSUME ReadBalances(c)
       PROVE  Goal
  <2>. DEFINE S == {r \in DOMAIN rows : rows[r].qty > 0 \/ desk[c].zeros}
              ids == Ascending(S)
              snap == [i \in DOMAIN ids |-> Line(rows[ids[i]].lot, ids[i], rows[ids[i]].qty)]
              pc == IF rows = <<>> THEN "aggregate" ELSE "insert"
              e == [d EXCEPT !.pc = pc, !.snap = snap]
  <2>1. desk' = [desk EXCEPT ![c].pc = pc, ![c].snap = snap] /\ UNCHANGED <<vars, sheet, lines, posts>>
    BY <1>23 DEF ReadBalances
  <2>2. snap \in Seq(LineType)
    BY SnapType
  <2>3. pc \in DeskPC /\ pc \notin {"adjusting", "stamp"}
    BY DEF DeskPC
  <2>. HIDE DEF snap, pc
  <2>4. desk' = [desk EXCEPT ![c] = e]
    BY <1>1, <2>1
  <2>5. e \in DeskType /\ Ready(e)
    BY <1>1, <2>2, <2>3 DEF DeskType, Ready
  <2>. HIDE DEF e
  <2>. QED  BY <1>5, <2>1, <2>4, <2>5
<1>24. ASSUME ReadAggregate(c)
       PROVE  Goal
  <2>. DEFINE snap == IF agg > 0 \/ desk[c].zeros THEN <<Line(NoLot, 0, agg)>> ELSE <<>>
              e == [d EXCEPT !.pc = "insert", !.snap = snap]
  <2>1. desk' = [desk EXCEPT ![c].pc = "insert", ![c].snap = snap] /\ UNCHANGED <<vars, sheet, lines, posts>>
    BY <1>24 DEF ReadAggregate
  <2>2. Line(NoLot, 0, agg) \in LineType
    BY <1>1 DEF Line, LineType, LineStatus, Uncounted
  <2>3. snap \in Seq(LineType)
    BY <2>2, EmptySeq
  <2>. HIDE DEF snap
  <2>4. desk' = [desk EXCEPT ![c] = e]
    BY <1>1, <2>1
  <2>5. e \in DeskType /\ Ready(e)
    BY <1>1, <2>3 DEF DeskType, DeskPC, Ready
  <2>. HIDE DEF e
  <2>. QED  BY <1>5, <2>1, <2>4, <2>5
<1>25. ASSUME InsertLines(c)
       PROVE  Goal
  <2>1. StockInv' /\ sheet' = sheet /\ Ends(c) /\ lines' = lines \o d.snap
        /\ posts' = posts \o [i \in DOMAIN d.snap |-> 0]
    BY <1>4, <1>25 DEF InsertLines
  <2>2. lines' \in Seq(LineType) /\ Len(lines') = Len(lines) + Len(d.snap)
    BY <1>1, <1>2, <2>1, ConcatProperties
  <2>. DEFINE zeros == [i \in DOMAIN d.snap |-> 0]
  <2>3. zeros \in Seq(Nat) /\ Len(zeros) = Len(d.snap)
    <3>1. Len(d.snap) \in Nat /\ DOMAIN d.snap = 1..Len(d.snap)
      BY <1>2, LenProperties
    <3>2. zeros \in [1..Len(d.snap) -> Nat]
      BY <3>1
    <3>3. zeros \in Seq(Nat)
      BY <3>1, <3>2
    <3>. QED  BY <3>1, <3>2, <3>3, LenProperties
  <2>. HIDE DEF zeros
  <2>4. posts' \in Seq(Nat) /\ Len(posts') = Len(posts) + Len(zeros)
    BY <1>1, <2>1, <2>3, ConcatProperties DEF zeros
  <2>5. Len(posts') = Len(lines')
    BY <1>1, <2>2, <2>3, <2>4
  <2>. QED  BY <1>1, <1>3, <1>10, <2>1, <2>2, <2>4, <2>5, IdleType
<1>26. ASSUME BeginRecord(c)
       PROVE  Goal
  <2>1. PICK i \in Live, q \in 0..MaxQty :
          desk' = [desk EXCEPT ![c] = [IdleDesk EXCEPT !.pc = "record", !.line = i, !.qty = q]]
    BY <1>26 DEF BeginRecord
  <2>. DEFINE e == [IdleDesk EXCEPT !.pc = "record", !.line = i, !.qty = q]
  <2>2. i \in Nat /\ q \in Nat
    BY <2>1, LineOfType, StockAssumption DEF Live
  <2>3. e \in DeskType /\ Ready(e)
    BY <2>2, IdleType DEF IdleDesk, DeskType, DeskPC, Ready
  <2>. HIDE DEF e
  <2>. QED  BY <1>5, <1>26, <2>1, <2>3 DEF BeginRecord, e
<1>27. ASSUME WriteRecord(c)
       PROVE  Goal
  <2>. DEFINE line == [lines[d.line] EXCEPT !.counted = d.qty, !.status = "counted"]
  <2>1. StockInv' /\ sheet' = sheet /\ posts' = posts /\ Ends(c) /\ SetLine(d.line, line)
    BY <1>4, <1>27 DEF WriteRecord
  <2>2. d.line \in Live => line \in LineType
    BY <1>2, LineOfType, ZenonT(40) DEF Live, LineType, LineStatus
  <2>. HIDE DEF line
  <2>3. lines' \in Seq(LineType) /\ Len(lines') = Len(lines)
    BY <2>1, <2>2, SetLineStep
  <2>. QED  BY <1>1, <1>3, <1>10, <2>1, <2>3, IdleType
<1>28. ASSUME FlagForRecount(c)
       PROVE  Goal
  <2>1. PICK i \in Live : SetLine(i, [lines[i] EXCEPT !.counted = Uncounted, !.status = "recount"])
    BY <1>28 DEF FlagForRecount
  <2>. DEFINE line == [lines[i] EXCEPT !.counted = Uncounted, !.status = "recount"]
  <2>2. line \in LineType
    BY LineOfType, ZenonT(40) DEF Live, LineType, LineStatus
  <2>. HIDE DEF line
  <2>3. lines' \in Seq(LineType) /\ Len(lines') = Len(lines)
    BY <2>1, <2>2, SetLineStep DEF line
  <2>4. StockInv' /\ sheet' = sheet /\ posts' = posts /\ desk' = desk
    BY <1>4, <1>28 DEF FlagForRecount
  <2>5. desk' = [desk EXCEPT ![c] = d]
    BY <1>1, <2>4
  <2>. QED  BY <1>1, <1>3, <2>3, <2>4, <2>5
<1>29. ASSUME BeginMove(c)
       PROVE  Goal
  <2>1. PICK to \in ALLOWED_TRANSITIONS[sheet] :
          desk' = [desk EXCEPT ![c] = [IdleDesk EXCEPT !.pc = IF to = "cancelled" THEN "write" ELSE "lines", !.to = to]]
    BY <1>29 DEF BeginMove
  <2>. DEFINE pc == IF to = "cancelled" THEN "write" ELSE "lines"
              e == [IdleDesk EXCEPT !.pc = pc, !.to = to]
  <2>2. to \in SheetStatus
    BY <1>1, <1>29, <2>1 DEF BeginMove, ALLOWED_TRANSITIONS, SheetStatus
  <2>3. pc \in DeskPC /\ pc \notin {"adjusting", "stamp"}
    BY DEF DeskPC
  <2>. HIDE DEF pc
  <2>4. e \in DeskType /\ Ready(e)
    BY <2>2, <2>3, IdleType DEF IdleDesk, DeskType, Ready
  <2>. HIDE DEF e
  <2>. QED  BY <1>5, <1>29, <2>1, <2>4 DEF BeginMove, e, pc
<1>30. ASSUME ReadLines(c)
       PROVE  Goal
  <2>. DEFINE ids == Ascending(Live)
              left == [j \in DOMAIN ids |-> [id |-> ids[j], lot |-> lines[ids[j]].lot,
                                             variance |-> Variance(lines[ids[j]])]]
              e == [d EXCEPT !.pc = "post", !.left = left]
  <2>1. left \in Seq(LeftOf)
    BY LeftType
  <2>2. UNCHANGED <<vars, sheet, lines, posts>> /\
        \/ desk' = [desk EXCEPT ![c] = IdleDesk]
        \/ desk' = [desk EXCEPT ![c] = At("write")]
        \/ desk' = [desk EXCEPT ![c] = e]
    <3>. HIDE DEF ids
    <3>. QED  BY <1>1, <1>30 DEF ReadLines, At, ids
  <2>. HIDE DEF left
  <2>3. e \in DeskType /\ Ready(e)
    BY <1>1, <2>1 DEF DeskType, DeskPC, Ready
  <2>4. At("write") \in DeskType /\ Ready(At("write"))
    BY <1>6 DEF DeskPC
  <2>. HIDE DEF e
  <2>. QED  BY <1>5, <2>2, <2>3, <2>4, IdleType
<1>31. ASSUME WriteStatus(c)
       PROVE  Goal
  <2>1. StockInv' /\ sheet' = d.to /\ lines' = lines /\ posts' = posts /\ Ends(c)
    BY <1>4, <1>31 DEF WriteStatus
  <2>. QED  BY <1>1, <1>2, <1>3, <1>10, <2>1, IdleType
<1>32. ASSUME PostVariance(c)
       PROVE  Goal
  <2>1. d.left # <<>> /\ UNCHANGED <<rows, lotStatus, agg, posted, pick, sheet, lines, posts>>
    BY <1>32 DEF PostVariance
  <2>2. Head(d.left) \in LeftOf
    BY <1>2, <2>1, HeadTailProperties
  <2>. DEFINE line == Head(d.left)
  <2>3. \/ Turns(c, "stamp") /\ UNCHANGED <<todo, count>>
        \/ NextLine(c) /\ UNCHANGED <<todo, count>>
        \/ \E current \in InLot(line.lot) :
             /\ line.lot = NoLot \/ current + line.variance >= 0
             /\ Turns(c, "adjusting")
             /\ todo' = [todo EXCEPT ![c] = <<Adjustment(line.lot, line.variance, current)>>]
             /\ count' = [count EXCEPT !.adjusted = TRUE]
    BY <1>32 DEF PostVariance
  <2>. HIDE DEF line
  <2>4. /\ At("stamp") \in DeskType /\ Ready(At("stamp")) /\ At("adjusting") \in DeskType /\ Ready(At("adjusting"))
        /\ After("post") \in DeskType /\ Ready(After("post"))
    BY <1>6, <1>7, <2>1 DEF DeskPC
  <2>5. ASSUME Turns(c, "stamp") \/ NextLine(c), UNCHANGED <<todo, count>>
        PROVE  Goal
    <3>1. UNCHANGED <<vars, sheet, lines, posts>>
      BY <2>1, <2>5 DEF vars
    <3>. QED  BY <1>5, <1>8, <1>9, <2>4, <2>5, <3>1
  <2>6. ASSUME NEW current \in InLot(line.lot), line.lot = NoLot \/ current + line.variance >= 0, Turns(c, "adjusting"),
               todo' = [todo EXCEPT ![c] = <<Adjustment(line.lot, line.variance, current)>>],
               count' = [count EXCEPT !.adjusted = TRUE]
        PROVE  Goal
    <3>. DEFINE list == <<Adjustment(line.lot, line.variance, current)>>
    <3>1. current \in Nat /\ line.lot \in Lots \cup {NoLot} /\ line.variance \in Int
      BY <1>1, <2>2, <2>6, InLotType DEF line
    <3>2. SoundList(list, DOMAIN rows)
      BY <2>6, <3>1, AdjustmentSound, OneSound
    <3>. HIDE DEF list
    <3>3. StockInv'
      <4>1. todo \in [Callers -> Seq(Calls)] /\ list \in Seq(Calls)
        BY <1>1, <3>2 DEF TypeOK, SoundList
      <4>2. todo' \in [Callers -> Seq(Calls)] /\ Pending'
        BY <1>1, <2>1, <2>6, <3>2, <4>1, Zenon DEF StockInv, Pending, list
      <4>3. count' \in [calls : Nat, faults : Nat, made : Nat, adjusted : BOOLEAN]
        BY <1>1, <2>6 DEF TypeOK
      <4>4. TypeOK'
        BY <1>1, <2>1, <4>2, <4>3 DEF TypeOK
      <4>. QED  BY <4>2, <4>4 DEF StockInv
    <3>. QED  BY <1>1, <1>3, <1>8, <2>1, <2>4, <2>6, <3>3
  <2>. QED  BY <2>3, <2>5, <2>6, Zenon
<1>33. ASSUME SkipLine(c)
       PROVE  Goal
  <2>1. d.left # <<>> /\ NextLine(c) /\ UNCHANGED <<vars, sheet, lines, posts>>
    BY <1>11, <1>33 DEF SkipLine, Does
  <2>. QED  BY <1>5, <1>7, <1>9, <2>1
<1>34. ASSUME PostedLine(c)
       PROVE  Goal
  <2>1. d.left # <<>> /\ PostEntry(c) /\ Turns(c, "stamp") /\ sheet' = sheet /\ lines' = lines
        /\ posts' = [posts EXCEPT ![Head(d.left).id] = @ + 1]
    BY <1>11, <1>34 DEF PostedLine, Does
  <2>2. StockInv'
    BY <1>1, <2>1, WritesStep DEF Writes
  <2>3. At("stamp") \in DeskType /\ Ready(At("stamp"))
    BY <1>6, <2>1 DEF DeskPC
  <2>4. posts' \in Seq(Nat) /\ Len(posts') = Len(posts)
    <3>. DEFINE i == Head(d.left).id
    <3>1. DOMAIN posts = 1..Len(posts)
      BY <1>1, LenProperties
    <3>2. CASE i \in 1..Len(posts)
      <4>1. posts[i] + 1 \in Nat
        BY <1>1, <3>2, ElementOfSeq
      <4>. HIDE DEF i
      <4>. QED  BY <1>1, <2>1, <3>2, <4>1, ExceptSeq DEF i
    <3>3. CASE i \notin 1..Len(posts)
      <4>1. posts' = posts
        <5>1. posts \in [1..Len(posts) -> Nat]
          BY <1>1, LenProperties
        <5>. HIDE DEF i
        <5>. QED  BY <2>1, <3>3, <5>1 DEF i
      <4>. QED  BY <1>1, <4>1
    <3>. QED  BY <3>2, <3>3
  <2>. QED  BY <1>1, <1>3, <1>8, <2>1, <2>2, <2>3, <2>4
<1>35. ASSUME StampLine(c)
       PROVE  Goal
  <2>. DEFINE i == Head(d.left).id
              line == [lines[i] EXCEPT !.status = "approved"]
  <2>1. d.left # <<>> /\ StockInv' /\ sheet' = sheet /\ posts' = posts /\ NextLine(c) /\ SetLine(i, line)
    BY <1>4, <1>11, <1>35 DEF StampLine, Does
  <2>. HIDE DEF i
  <2>2. i \in Live => line \in LineType
    BY LineOfType DEF Live, LineType, LineStatus
  <2>. HIDE DEF line
  <2>3. lines' \in Seq(LineType) /\ Len(lines') = Len(lines)
    BY <2>1, <2>2, SetLineStep
  <2>. QED  BY <1>1, <1>3, <1>7, <1>9, <2>1, <2>3
<1>36. ASSUME RequestFails(c)
       PROVE  Goal
  <2>1. Throw(c) /\ Ends(c) /\ count' = [count EXCEPT !.faults = @ + 1]
        /\ UNCHANGED <<rows, lotStatus, agg, posted, pick>> /\ sheet' = sheet /\ lines' = lines /\ posts' = posts
    BY <1>36 DEF RequestFails
  <2>2. StockInv'
    BY <1>1, <2>1, CutShortStep
  <2>. QED  BY <1>1, <1>3, <1>10, <2>1, <2>2, IdleType
<1>40. Goal
  BY <1>20, <1>21, <1>22, <1>23, <1>24, <1>25, <1>26, <1>27, <1>28, <1>29, <1>30, <1>31, <1>32, <1>33, <1>34,
     <1>35, <1>36, Zenon DEF CountStep
<1>. QED  BY <1>40 DEF Goal

LEMMA CountInvInit == CountInit => CountInv
<1>. SUFFICES ASSUME CountInit
              PROVE  CountInv
  OBVIOUS
<1>1. \A S : <<>> \in Seq(S) /\ Len(<<>>) = 0
  BY EmptySeq
<1>2. TypeOK
  BY <1>1 DEF CountInit, Init, TypeOK
<1>3. Pending
  BY EmptySound DEF CountInit, Init, Pending
<1>4. desk = [c \in Callers |-> IdleDesk] /\ sheet = "none" /\ lines = <<>> /\ posts = <<>>
  BY DEF CountInit
<1>5. desk \in [Callers -> DeskType] /\ \A c \in Callers : Ready(desk[c])
  BY <1>4, IdleType
<1>. QED  BY <1>1, <1>2, <1>3, <1>4, <1>5 DEF CountInv, StockInv

LEMMA CountInvStep ==
  ASSUME CountInv, [CountNext]_<<vars, countVars>>
  PROVE  CountInv'
<1>1. ASSUME NEW c \in Callers, StockStep(c), UNCHANGED countVars
      PROVE  CountInv'
  BY <1>1, StockStepType DEF CountInv, countVars
<1>2. ASSUME UNCHANGED <<vars, countVars>>
      PROVE  CountInv'
  BY <1>2, SameStock DEF CountInv, countVars
<1>. QED  BY <1>1, <1>2, CountStepType, Zenon DEF CountNext

THEOREM CountInvariant == CountSpec => []CountInv
<1>1. CountInv /\ [CountNext]_<<vars, countVars>> => CountInv'
  BY CountInvStep
<1>. QED  BY <1>1, CountInvInit, PTL DEF CountSpec

(* Every variable keeps its type whatever calls are in flight: no balance,  *)
(* aggregate or pending write of one is ever negative (the checks of        *)
(* shipInventory and adjustInventoryQuantity), every call writes to a row   *)
(* that exists, and there is one posting counter for each line.             *)
THEOREM CountTypeCorrect == CountSpec => []CountTypeOK
BY CountInvariant, CountInvTypes, PTL

-----------------------------------------------------------------------------
(* What an approval has posted, for one caller: requests do not overlap.    *)

OneCaller == \A c, d \in Callers : c = d

(* A request at desk d, when the sheet is sh, its lines ls, the entries     *)
(* posted ps, and f requests were cut short.  Of the lines an approval has  *)
(* still to post none was posted more often than an approval was cut short. *)
Posting(d) == d.pc \in {"post", "adjusting", "stamp"}
LeftOK(d, ls, ps, f) ==
  /\ \A j \in 1..Len(d.left) : /\ d.left[j].id \in DOMAIN ls
                               /\ d.left[j].variance = Variance(ls[d.left[j].id])
  /\ \A j, k \in 1..Len(d.left) : d.left[j].id = d.left[k].id => j = k
  /\ d.pc = "stamp" => d.left[1].variance = 0 \/ ps[d.left[1].id] >= 1
  /\ \A j \in 1..Len(d.left) : (j = 1 /\ d.pc = "stamp") \/ ps[d.left[j].id] <= f
DeskOK(d, sh, ls, ps, f) ==
  /\ d.pc \in {"lines", "write", "post", "adjusting", "stamp"} =>
       sh \in SheetStatus /\ d.to \in ALLOWED_TRANSITIONS[sh]
  /\ d.pc = "insert" => \A i \in 1..Len(d.snap) : d.snap[i].status = "pending"
  /\ d.pc = "lines" => d.to # "cancelled"
  /\ d.pc = "write" => d.to # "approved"
  /\ Posting(d) => d.to = "approved" /\ LeftOK(d, ls, ps, f)
Bounded(d, sh, ps, f) ==
  \A i \in DOMAIN ps :
    /\ ps[i] <= 1 + f
    /\ sh # "approved" /\ ~Posting(d) => ps[i] <= f
PostInv ==
  /\ ApprovedIsPosted
  /\ \A c \in Callers : /\ DeskOK(desk[c], sheet, lines, posts, count.faults)
                        /\ Bounded(desk[c], sheet, posts, count.faults)

LEMMA CountFacts ==
  ASSUME CountInv, NEW c \in Callers
  PROVE  /\ count.faults \in Nat /\ sheet \in SheetStatus \cup {"none"}
         /\ lines \in Seq(LineType) /\ posts \in Seq(Nat)
         /\ Len(lines) \in Nat /\ DOMAIN lines = 1..Len(lines) /\ DOMAIN posts = 1..Len(lines)
         /\ \A i \in 1..Len(lines) : posts[i] \in Nat /\ lines[i] \in LineType
         /\ desk \in [Callers -> DeskType] /\ desk[c] \in DeskType /\ Ready(desk[c])
         /\ desk[c].snap \in Seq(LineType) /\ Len(desk[c].snap) \in Nat
         /\ desk[c].left \in Seq([id : Nat, lot : Lots \cup {NoLot}, variance : Int])
         /\ Len(desk[c].left) \in Nat
<1>1. /\ StockInv /\ sheet \in SheetStatus \cup {"none"} /\ lines \in Seq(LineType) /\ posts \in Seq(Nat)
      /\ Len(posts) = Len(lines) /\ desk \in [Callers -> DeskType] /\ Ready(desk[c])
  BY DEF CountInv
<1>2. count.faults \in Nat
  BY <1>1 DEF StockInv, TypeOK
<1>3. Len(lines) \in Nat /\ DOMAIN lines = 1..Len(lines) /\ \A i \in 1..Len(lines) : lines[i] \in LineType
  BY <1>1, LenProperties, ElementOfSeq
<1>4. DOMAIN posts = 1..Len(lines) /\ \A i \in 1..Len(lines) : posts[i] \in Nat
  BY <1>1, LenProperties, ElementOfSeq
<1>5. desk[c] \in DeskType
  BY <1>1
<1>6. /\ desk[c].snap \in Seq(LineType)
      /\ desk[c].left \in Seq([id : Nat, lot : Lots \cup {NoLot}, variance : Int])
  BY <1>5 DEF DeskType
<1>7. Len(desk[c].snap) \in Nat /\ Len(desk[c].left) \in Nat
  BY <1>6, LenProperties
<1>. QED  BY <1>1, <1>2, <1>3, <1>4, <1>5, <1>6, <1>7

LEMMA Joined ==
  ASSUME NEW S, NEW s \in Seq(S), NEW t \in Seq(S), NEW n, n = Len(s), NEW m, m = Len(t), NEW u, u = s \o t
  PROVE  /\ n \in Nat /\ m \in Nat /\ DOMAIN u = 1..(n + m)
         /\ \A i \in 1..n : u[i] = s[i]
         /\ \A i \in 1..m : u[n + i] = t[i]
         /\ \A i \in 1..(n + m) : i \in 1..n \/ (i - n \in 1..m /\ n + (i - n) = i)
<1>1. n \in Nat /\ m \in Nat
  BY LenProperties
<1>2. /\ u \in Seq(S) /\ Len(u) = n + m
      /\ \A i \in 1..(n + m) : u[i] = IF i <= n THEN s[i] ELSE t[i - n]
  BY ConcatProperties
<1>3. DOMAIN u = 1..(n + m)
  BY <1>2, LenProperties
<1>4. ASSUME NEW i \in 1..n
      PROVE  u[i] = s[i]
  BY <1>1, <1>2
<1>5. ASSUME NEW i \in 1..m
      PROVE  u[n + i] = t[i]
  <2>1. n + i \in 1..(n + m) /\ ~(n + i <= n) /\ (n + i) - n = i
    BY <1>1
  <2>. QED  BY <1>2, <2>1
<1>6. \A i \in 1..(n + m) : i \in 1..n \/ (i - n \in 1..m /\ n + (i - n) = i)
  BY <1>1
<1>. QED  BY <1>1, <1>3, <1>4, <1>5, <1>6

(* A list of lines still to post, shortened by the first.                   *)
LEMMA TailOK ==
  ASSUME NEW S, NEW d, d.left \in Seq(S), d.left # <<>>, NEW ls, NEW ps, NEW f, LeftOK(d, ls, ps, f),
         NEW e, e.left = Tail(d.left), e.pc = "post"
  PROVE  LeftOK(e, ls, ps, f)
<1>1. Len(d.left) \in Nat /\ Len(e.left) = Len(d.left) - 1
      /\ \A j \in 1..Len(e.left) : e.left[j] = d.left[j + 1]
  BY HeadTailProperties, LenProperties
<1>2. \A j \in 1..Len(e.left) : j + 1 \in 1..Len(d.left) /\ j + 1 # 1 /\ j \in Int
  BY <1>1
<1>. DEFINE u == d.left
            v == e.left
<1>3. \A j \in 1..Len(v) : v[j].id \in DOMAIN ls /\ v[j].variance = Variance(ls[v[j].id])
  BY <1>1, <1>2 DEF LeftOK
<1>4. \A j, k \in 1..Len(v) : v[j].id = v[k].id => j = k
  <2>. SUFFICES ASSUME NEW j \in 1..Len(v), NEW k \in 1..Len(v), v[j].id = v[k].id
                PROVE  j = k
    OBVIOUS
  <2>1. u[j + 1].id = u[k + 1].id /\ j + 1 \in 1..Len(u) /\ k + 1 \in 1..Len(u)
    BY <1>1, <1>2
  <2>2. j + 1 = k + 1
    BY <2>1 DEF LeftOK
  <2>. QED  BY <1>2, <2>2
<1>5. \A j \in 1..Len(v) : ps[v[j].id] <= f
  BY <1>1, <1>2 DEF LeftOK
<1>. QED  BY <1>3, <1>4, <1>5 DEF LeftOK

(* What a step of stock or a lapsed request leaves.                         *)
LEMMA FaultsGrow ==
  ASSUME CountInv, NEW c \in Callers, StockStep(c)
  PROVE  count'.faults = count.faults \/ count'.faults = count.faults + 1
<1>1. count \in [calls : Nat, faults : Nat, made : Nat, adjusted : BOOLEAN]
  BY DEF CountInv, StockInv, TypeOK
<1>2. ASSUME NEW kind, NEW list, NEW made, BeginMaking(c, kind, list, made)
      PROVE  count'.faults = count.faults
  BY <1>1, <1>2 DEF BeginMaking
<1>3. CASE Starts(c)
  BY <1>2, <1>3, Zenon
  DEF Starts, Produce, Pick, Reserve, Release, Adjust, SetQuantity, Move, Sweep, UpdateStatus, Begin
<1>4. CASE Resolves(c)
  BY <1>4 DEF Resolves, ShipRead, ShipResolve, AdjustResolve, MoveResolve, LookupRow, QuarantineRow, PutRow
<1>5. CASE Writes(c)
  BY <1>5 DEF Writes, InsertRow, SetRow, WriteAgg, Increment, ExpireLot, PostEntry
<1>6. CASE CutShort(c)
  BY <1>1, <1>6 DEF CutShort
<1>. QED  BY <1>3, <1>4, <1>5, <1>6, Zenon DEF StockStep, Writes

LEMMA PostStep ==
  ASSUME CountInv, CountInv', PostInv, NEW c \in Callers, \A e \in Callers : e = c,
         CountStep(c) \/ (StockStep(c) /\ UNCHANGED countVars) \/ UNCHANGED <<vars, countVars>>
  PROVE  PostInv'
<1>. DEFINE Goal == PostInv'
            d == desk[c]
            f == count.faults
            n == Len(lines)
            LeftOf == [id : Nat, lot : Lots \cup {NoLot}, variance : Int]
            At(pc) == [d EXCEPT !.pc = pc]
            After(pc) == [d EXCEPT !.pc = pc, !.left = Tail(@)]
<1>1. /\ f \in Nat /\ sheet \in SheetStatus \cup {"none"}
      /\ lines \in Seq(LineType) /\ posts \in Seq(Nat)
      /\ n \in Nat /\ DOMAIN lines = 1..n /\ DOMAIN posts = 1..n
      /\ \A i \in 1..n : posts[i] \in Nat /\ lines[i] \in LineType
      /\ desk \in [Callers -> DeskType] /\ d \in DeskType /\ Ready(d)
      /\ d.snap \in Seq(LineType) /\ Len(d.snap) \in Nat
      /\ d.left \in Seq(LeftOf) /\ Len(d.left) \in Nat
  BY CountFacts
<1>2. ApprovedIsPosted /\ DeskOK(d, sheet, lines, posts, f) /\ Bounded(d, sheet, posts, f)
  BY DEF PostInv
<1>3. ASSUME NEW e, desk'[c] = e, ApprovedIsPosted',
             DeskOK(e, sheet', lines', posts', f'), Bounded(e, sheet', posts', f')
      PROVE  Goal
  BY <1>3, Zenon DEF PostInv
<1>4. \A e : desk' = [desk EXCEPT ![c] = e] => desk'[c] = e
  BY <1>1
<1>5. lines' = lines /\ posts' = posts => ApprovedIsPosted'
  BY <1>2 DEF ApprovedIsPosted, Variance
<1>6. ASSUME NEW e, ~Posting(d), ~Posting(e), posts' = posts, sheet' = sheet, f' = f
      PROVE  Bounded(e, sheet', posts', f')
  BY <1>2, <1>6 DEF Bounded
<1>7. ASSUME NEW e, e.pc \in {"idle", "clear", "balances", "aggregate", "record"}
      PROVE  ~Posting(e) /\ DeskOK(e, sheet', lines', posts', f')
  BY <1>7 DEF DeskOK, Posting
<1>8. IdleDesk.pc = "idle"
  BY DEF IdleDesk
<1>9. UNCHANGED vars => f' = f
  BY DEF vars
<1>10. /\ \A pc : Turns(c, pc) => desk' = [desk EXCEPT ![c] = At(pc)]
       /\ NextLine(c) => desk' = [desk EXCEPT ![c] = After("post")]
       /\ Ends(c) => desk' = [desk EXCEPT ![c] = IdleDesk]
  BY <1>1 DEF Turns, NextLine, Ends
<1>11. \A pc : At(pc).pc = pc /\ At(pc).to = d.to /\ At(pc).left = d.left /\ At(pc).snap = d.snap
  BY <1>1 DEF DeskType
<1>12. After("post").pc = "post" /\ After("post").to = d.to /\ After("post").left = Tail(d.left)
  BY <1>1 DEF DeskType
<1>13. d.pc \in {"adjusting", "stamp"} => d.left # <<>>
  BY <1>1 DEF Ready
<1>14. d.left # <<>> => Head(d.left) = d.left[1] /\ 1 \in 1..Len(d.left)
  BY <1>1, EmptySeq
<1>15. ASSUME Posting(d)
       PROVE  sheet \in SheetStatus /\ d.to \in ALLOWED_TRANSITIONS[sheet] /\ d.to = "approved"
              /\ LeftOK(d, lines, posts, f)
  BY <1>2, <1>15 DEF DeskOK, Posting
<1>. HIDE DEF Goal, At, After, n, LeftOf
<1>16. ASSUME NEW e, ~Posting(d), e.pc \in {"idle", "clear", "balances", "aggregate", "record"},
              desk' = [desk EXCEPT ![c] = e], f' = f, UNCHANGED <<sheet, posts>>, ApprovedIsPosted'
       PROVE  Goal
  <2>1. ~Posting(e) /\ DeskOK(e, sheet', lines', posts', f')
    BY <1>7, <1>16
  <2>2. sheet' = sheet /\ posts' = posts
    BY <1>16
  <2>3. Bounded(e, sheet', posts', f')
    BY <1>6, <1>16, <2>1, <2>2, Zenon
  <2>. QED  BY <1>3, <1>4, <1>16, <2>1, <2>3, Zenon
<1>17. ASSUME NEW e, Posting(d), Posting(e), e.to = d.to, desk' = [desk EXCEPT ![c] = e],
              f' = f, UNCHANGED <<sheet, lines, posts>>, LeftOK(e, lines, posts, f)
       PROVE  Goal
  <2>1. DeskOK(e, sheet, lines, posts, f)
    BY <1>15, <1>17 DEF DeskOK, Posting
  <2>2. Bounded(e, sheet, posts, f)
    BY <1>2, <1>17 DEF Bounded
  <2>. QED  BY <1>3, <1>4, <1>5, <1>17, <2>1, <2>2
<1>18. ASSUME Posting(d), d.left # <<>>
       PROVE  LeftOK(After("post"), lines, posts, f) /\ Posting(After("post"))
  <2>1. LeftOK(d, lines, posts, f)
    BY <1>15, <1>18
  <2>. HIDE DEF d
  <2>2. LeftOK(After("post"), lines, posts, f)
    BY <1>1, <1>12, <1>18, <2>1, TailOK
  <2>. QED  BY <1>12, <2>2 DEF Posting
<1>19. ASSUME d.pc = "idle"
       PROVE  ~Posting(d)
  BY <1>19 DEF Posting
<1>20. ASSUME UNCHANGED <<sheet, lines, posts, desk>>, f' \in Nat, f' >= f
       PROVE  Goal
  <2>1. ASSUME LeftOK(d, lines, posts, f)
        PROVE  LeftOK(d, lines, posts, f')
    <3>1. ASSUME NEW j \in 1..Len(d.left), posts[d.left[j].id] <= f
          PROVE  posts[d.left[j].id] <= f'
      <4>1. d.left[j].id \in 1..n
        BY <1>1, <2>1 DEF LeftOK
      <4>2. posts[d.left[j].id] \in Nat
        BY <1>1, <4>1
      <4>. QED  BY <1>1, <1>20, <3>1, <4>2
    <3>. QED  BY <2>1, <3>1 DEF LeftOK
  <2>2. DeskOK(d, sheet, lines, posts, f')
    BY <1>2, <2>1, Zenon DEF DeskOK
  <2>3. Bounded(d, sheet, posts, f')
    BY <1>1, <1>2, <1>20 DEF Bounded
  <2>4. UNCHANGED <<sheet, lines, posts>> /\ desk'[c] = d
    BY <1>20
  <2>. QED  BY <1>3, <1>5, <2>2, <2>3, <2>4
<1>21. ASSUME StockStep(c), UNCHANGED countVars
       PROVE  Goal
  <2>1. f' = f \/ f' = f + 1
    BY <1>21, FaultsGrow
  <2>. QED  BY <1>1, <1>20, <1>21, <2>1 DEF countVars
<1>22. ASSUME UNCHANGED <<vars, countVars>>
       PROVE  Goal
  BY <1>1, <1>20, <1>22 DEF vars, countVars
<1>23. ASSUME Create(c)
       PROVE  Goal
  <2>1. d = IdleDesk /\ UNCHANGED <<lines, desk, posts>> /\ f' = f /\ sheet # "approved" /\ desk'[c] = d
    BY <1>9, <1>23 DEF Create, Free
  <2>2. ~Posting(d) /\ DeskOK(d, sheet', lines', posts', f')
    BY <1>7, <1>8, <2>1
  <2>3. Bounded(d, sheet', posts', f')
    BY <1>2, <2>1, <2>2 DEF Bounded
  <2>. QED  BY <1>3, <1>5, <2>1, <2>2, <2>3
<1>24. ASSUME BeginGenerate(c)
       PROVE  Goal
  <2>1. PICK zeros \in BOOLEAN : desk' = [desk EXCEPT ![c] = [IdleDesk EXCEPT !.pc = "clear", !.zeros = zeros]]
    BY <1>24 DEF BeginGenerate
  <2>2. d.pc = "idle" /\ UNCHANGED <<sheet, lines, posts>> /\ f' = f
    BY <1>8, <1>9, <1>24 DEF BeginGenerate, Free
  <2>3. [IdleDesk EXCEPT !.pc = "clear", !.zeros = zeros].pc = "clear"
    BY DEF IdleDesk
  <2>. QED  BY <1>5, <1>16, <1>19, <2>1, <2>2, <2>3
<1>25. ASSUME ClearPending(c)
       PROVE  Goal
  <2>1. /\ d.pc = "clear" /\ desk' = [desk EXCEPT ![c] = At("balances")] /\ UNCHANGED <<sheet, posts>> /\ f' = f
        /\ lines' = [i \in DOMAIN lines |->
                       IF lines[i].status = "pending" THEN [lines[i] EXCEPT !.status = "deleted"] ELSE lines[i]]
    BY <1>9, <1>10, <1>25 DEF ClearPending, Does
  <2>2. ASSUME NEW i \in DOMAIN lines'
        PROVE  /\ i \in DOMAIN lines
               /\ lines'[i].status = "approved" => lines[i].status = "approved"
               /\ lines'[i].counted = lines[i].counted /\ lines'[i].system = lines[i].system
    BY <1>1, <2>1, <2>2 DEF LineType
  <2>3. ApprovedIsPosted'
    BY <1>2, <2>1, <2>2 DEF ApprovedIsPosted, Variance
  <2>4. ~Posting(d) /\ At("balances").pc = "balances"
    BY <1>11, <2>1 DEF Posting
  <2>. QED  BY <1>16, <2>1, <2>3, <2>4
<1>26. ASSUME NEW e, ~Posting(d), e.pc \in {"aggregate", "insert"}, \A i \in DOMAIN e.snap : e.snap[i].status = "pending",
              desk' = [desk EXCEPT ![c] = e], f' = f, UNCHANGED <<sheet, lines, posts>>
       PROVE  Goal
  <2>1. desk'[c] \in DeskType /\ desk'[c] = e
    BY <1>4, <1>26 DEF CountInv
  <2>2. e.snap \in Seq(LineType)
    BY <2>1 DEF DeskType
  <2>3. DOMAIN e.snap = 1..Len(e.snap)
    BY <2>2, LenProperties
  <2>4. ~Posting(e)
    BY <1>26 DEF Posting
  <2>5. DeskOK(e, sheet', lines', posts', f')
    BY <1>26, <2>3, <2>4 DEF DeskOK
  <2>6. UNCHANGED <<sheet, posts>> /\ lines' = lines
    BY <1>26
  <2>7. Bounded(e, sheet', posts', f')
    BY <1>6, <1>26, <2>4, <2>6, Zenon
  <2>. QED  BY <1>3, <1>5, <2>1, <2>5, <2>6, <2>7, Zenon
<1>27. ASSUME ReadBalances(c)
       PROVE  Goal
  <2>. DEFINE ids == Ascending({r \in DOMAIN rows : rows[r].qty > 0 \/ d.zeros})
              snap == [i \in DOMAIN ids |-> Line(rows[ids[i]].lot, ids[i], rows[ids[i]].qty)]
              pc == IF rows = <<>> THEN "aggregate" ELSE "insert"
              e == [d EXCEPT !.pc = pc, !.snap = snap]
  <2>1. d.pc = "balances" /\ desk' = [desk EXCEPT ![c].pc = pc, ![c].snap = snap]
        /\ UNCHANGED <<sheet, lines, posts>> /\ f' = f
    BY <1>9, <1>27 DEF ReadBalances, Does
  <2>2. \A i \in DOMAIN snap : snap[i].status = "pending"
    BY DEF Line
  <2>3. pc \in {"aggregate", "insert"}
    OBVIOUS
  <2>. HIDE DEF ids, snap, pc
  <2>4. desk' = [desk EXCEPT ![c] = e] /\ e.pc = pc /\ e.snap = snap
    BY <1>1, <2>1 DEF DeskType
  <2>5. ~Posting(d)
    BY <2>1 DEF Posting
  <2>. HIDE DEF e
  <2>. QED  BY <1>26, <2>1, <2>2, <2>3, <2>4, <2>5
<1>28. ASSUME ReadAggregate(c)
       PROVE  Goal
  <2>. DEFINE snap == IF agg > 0 \/ d.zeros THEN <<Line(NoLot, 0, agg)>> ELSE <<>>
              e == [d EXCEPT !.pc = "insert", !.snap = snap]
  <2>1. d.pc = "aggregate" /\ desk' = [desk EXCEPT ![c].pc = "insert", ![c].snap = snap]
        /\ UNCHANGED <<sheet, lines, posts>> /\ f' = f
    BY <1>9, <1>28 DEF ReadAggregate, Does
  <2>2. \A i \in DOMAIN snap : snap[i].status = "pending"
    BY DEF Line
  <2>. HIDE DEF snap
  <2>3. desk' = [desk EXCEPT ![c] = e] /\ e.pc = "insert" /\ e.snap = snap
    BY <1>1, <2>1 DEF DeskType
  <2>4. ~Posting(d)
    BY <2>1 DEF Posting
  <2>. HIDE DEF e
  <2>. QED  BY <1>26, <2>1, <2>2, <2>3, <2>4
<1>29. ASSUME InsertLines(c)
       PROVE  Goal
  <2>. DEFINE zeros == [i \in DOMAIN d.snap |-> 0]
              m == Len(d.snap)
  <2>1. d.pc = "insert" /\ lines' = lines \o d.snap /\ posts' = posts \o zeros /\ sheet' = sheet /\ f' = f
        /\ desk' = [desk EXCEPT ![c] = IdleDesk]
    BY <1>9, <1>10, <1>29 DEF InsertLines, Does
  <2>2. ~Posting(d) /\ \A i \in 1..m : d.snap[i].status = "pending"
    BY <1>2, <2>1 DEF DeskOK, Posting
  <2>3. m \in Nat /\ DOMAIN d.snap = 1..m
    BY <1>1, LenProperties
  <2>4. zeros \in Seq(Nat) /\ Len(zeros) = m /\ \A i \in 1..m : zeros[i] = 0
    BY <2>3
  <2>. HIDE DEF m, zeros
  <2>5. /\ DOMAIN lines' = 1..(n + m)
        /\ \A i \in 1..n : lines'[i] = lines[i]
        /\ \A i \in 1..m : lines'[n + i] = d.snap[i]
        /\ \A i \in 1..(n + m) : i \in 1..n \/ (i - n \in 1..m /\ n + (i - n) = i)
    <3>1. n = Len(lines) /\ m = Len(d.snap)
      BY DEF n, m
    <3>2. lines \in Seq(LineType) /\ d.snap \in Seq(LineType) /\ lines' = lines \o d.snap
      BY <1>1, <2>1
    <3>. QED  BY <3>1, <3>2, Joined
  <2>6. Len(posts) = n
    BY <1>1, LenProperties
  <2>7. /\ DOMAIN posts' = 1..(n + m)
        /\ \A i \in 1..n : posts'[i] = posts[i]
        /\ \A i \in 1..m : posts'[n + i] = zeros[i]
    <3>1. posts \in Seq(Nat) /\ zeros \in Seq(Nat) /\ posts' = posts \o zeros
          /\ n = Len(posts) /\ m = Len(zeros)
      BY <1>1, <2>1, <2>4, <2>6
    <3>2. \A u : u = posts \o zeros =>
            /\ DOMAIN u = 1..(n + m)
            /\ \A i \in 1..n : u[i] = posts[i]
            /\ \A i \in 1..m : u[n + i] = zeros[i]
      BY <3>1, Joined
    <3>. QED  BY <3>1, <3>2
  <2>8. ASSUME NEW i \in 1..(n + m)
        PROVE  \/ i \in 1..n /\ lines'[i] = lines[i] /\ posts'[i] = posts[i]
               \/ lines'[i].status = "pending" /\ posts'[i] = 0
    BY <2>2, <2>4, <2>5, <2>7
  <2>9. ApprovedIsPosted'
    <3>1. ASSUME NEW i \in 1..(n + m), lines'[i].status = "approved", Variance(lines'[i]) # 0
          PROVE  posts'[i] >= 1
      BY <1>1, <1>2, <2>8, <3>1 DEF ApprovedIsPosted
    <3>. QED  BY <2>5, <3>1 DEF ApprovedIsPosted, Variance
  <2>10. Bounded(IdleDesk, sheet', posts', f')
    <3>1. ASSUME NEW i \in 1..(n + m)
          PROVE  posts'[i] <= 1 + f /\ (sheet # "approved" => posts'[i] <= f)
      <4>1. CASE i \in 1..n /\ posts'[i] = posts[i]
        BY <1>1, <1>2, <2>2, <4>1 DEF Bounded
      <4>2. CASE posts'[i] = 0
        BY <1>1, <4>2
      <4>. QED  BY <2>8, <4>1, <4>2
    <3>. QED  BY <2>1, <2>7, <3>1 DEF Bounded
  <2>11. DeskOK(IdleDesk, sheet', lines', posts', f')
    BY <1>7, <1>8
  <2>12. desk'[c] = IdleDesk
    BY <1>4, <2>1
  <2>. QED  BY <1>3, <2>9, <2>10, <2>11, <2>12, Zenon
<1>30. ASSUME BeginRecord(c)
       PROVE  Goal
  <2>1. PICK i \in Live : \E q \in 0..MaxQty :
          desk' = [desk EXCEPT ![c] = [IdleDesk EXCEPT !.pc = "record", !.line = i, !.qty = q]]
    BY <1>30 DEF BeginRecord
  <2>2. PICK q \in 0..MaxQty :
          desk' = [desk EXCEPT ![c] = [IdleDesk EXCEPT !.pc = "record", !.line = i, !.qty = q]]
    BY <2>1
  <2>3. d.pc = "idle" /\ UNCHANGED <<sheet, lines, posts>> /\ f' = f
    BY <1>8, <1>9, <1>30 DEF BeginRecord, Free
  <2>4. [IdleDesk EXCEPT !.pc = "record", !.line = i, !.qty = q].pc = "record"
    BY DEF IdleDesk
  <2>. QED  BY <1>5, <1>16, <1>19, <2>2, <2>3, <2>4
<1>31. ASSUME NEW i, NEW q, NEW s, s # "approved", posts' = posts,
              SetLine(i, [lines[i] EXCEPT !.counted = q, !.status = s])
       PROVE  ApprovedIsPosted'
  <2>1. ASSUME NEW k \in DOMAIN lines', lines'[k].status = "approved"
        PROVE  k \in DOMAIN lines /\ lines'[k] = lines[k]
    <3>1. CASE i \in Live
      <4>1. lines' = [lines EXCEPT ![i] = [lines[i] EXCEPT !.counted = q, !.status = s]] /\ i \in 1..n
        BY <1>1, <1>31, <3>1 DEF SetLine, Live
      <4>2. [lines[i] EXCEPT !.counted = q, !.status = s].status = s
        BY <1>1, <4>1 DEF LineType
      <4>. QED  BY <1>1, <1>31, <2>1, <4>1, <4>2
    <3>2. CASE i \notin Live
      BY <1>31, <2>1, <3>2 DEF SetLine
    <3>. QED  BY <3>1, <3>2
  <2>. QED  BY <1>2, <1>31, <2>1 DEF ApprovedIsPosted, Variance
<1>32. ASSUME WriteRecord(c)
       PROVE  Goal
  <2>1. d.pc = "record" /\ desk' = [desk EXCEPT ![c] = IdleDesk] /\ UNCHANGED <<sheet, posts>> /\ f' = f
        /\ SetLine(d.line, [lines[d.line] EXCEPT !.counted = d.qty, !.status = "counted"])
    BY <1>9, <1>10, <1>32 DEF WriteRecord, Does
  <2>2. ApprovedIsPosted'
    BY <1>31, <2>1
  <2>3. ~Posting(d)
    BY <2>1 DEF Posting
  <2>. QED  BY <1>8, <1>16, <2>1, <2>2, <2>3
<1>33. ASSUME FlagForRecount(c)
       PROVE  Goal
  <2>1. PICK i \in Live : SetLine(i, [lines[i] EXCEPT !.counted = Uncounted, !.status = "recount"])
    BY <1>33 DEF FlagForRecount
  <2>2. d.pc = "idle" /\ UNCHANGED <<sheet, desk, posts>> /\ f' = f
    BY <1>8, <1>9, <1>33 DEF FlagForRecount, Free
  <2>3. ApprovedIsPosted'
    BY <1>31, <2>1, <2>2
  <2>4. desk' = [desk EXCEPT ![c] = d]
    BY <1>1, <2>2
  <2>. QED  BY <1>16, <1>19, <2>2, <2>3, <2>4
<1>34. ASSUME BeginMove(c)
       PROVE  Goal
  <2>1. PICK to \in ALLOWED_TRANSITIONS[sheet] :
          desk' = [desk EXCEPT ![c] = [IdleDesk EXCEPT !.pc = IF to = "cancelled" THEN "write" ELSE "lines", !.to = to]]
    BY <1>34 DEF BeginMove
  <2>. DEFINE e == [IdleDesk EXCEPT !.pc = IF to = "cancelled" THEN "write" ELSE "lines", !.to = to]
  <2>2. d.pc = "idle" /\ UNCHANGED <<sheet, lines, posts>> /\ f' = f /\ sheet \in SheetStatus
    BY <1>1, <1>8, <1>9, <1>34 DEF BeginMove, Free
  <2>3. e.to = to /\ e.pc = IF to = "cancelled" THEN "write" ELSE "lines"
    BY DEF IdleDesk
  <2>4. ~Posting(d) /\ ~Posting(e)
    BY <2>2, <2>3 DEF Posting
  <2>5. DeskOK(e, sheet, lines, posts, f)
    BY <2>1, <2>2, <2>3, <2>4 DEF DeskOK
  <2>6. Bounded(e, sheet', posts', f')
    BY <1>6, <2>2, <2>4
  <2>7. desk'[c] = e
    BY <1>4, <2>1
  <2>8. ApprovedIsPosted' /\ sheet' = sheet /\ lines' = lines /\ posts' = posts
    BY <1>5, <2>2
  <2>. HIDE DEF e
  <2>. QED  BY <1>3, <2>2, <2>5, <2>6, <2>7, <2>8
<1>35. ASSUME WriteStatus(c)
       PROVE  Goal
  <2>1. d.pc = "write" \/ d.pc = "post"
    BY <1>35 DEF WriteStatus, Does
  <2>2. sheet' = d.to /\ UNCHANGED <<lines, posts>> /\ f' = f /\ desk'[c] = IdleDesk
    BY <1>4, <1>9, <1>10, <1>35 DEF WriteStatus
  <2>3. sheet \in SheetStatus /\ d.to \in ALLOWED_TRANSITIONS[sheet]
    BY <1>2, <2>1 DEF DeskOK
  <2>4. sheet # "approved"
    BY <2>3 DEF ALLOWED_TRANSITIONS
  <2>5. d.pc = "write" => ~Posting(d) /\ d.to # "approved"
    BY <1>2 DEF DeskOK, Posting
  <2>6. d.pc = "post" => d.to = "approved"
    BY <1>15 DEF Posting
  <2>7. Bounded(IdleDesk, sheet', posts', f')
    BY <1>2, <2>1, <2>2, <2>4, <2>5, <2>6, <1>8 DEF Bounded, Posting
  <2>. QED  BY <1>3, <1>5, <1>7, <1>8, <2>2, <2>7
<1>36. ASSUME ReadLines(c)
       PROVE  Goal
  <2>. DEFINE ids == Ascending(Live)
              left == [j \in DOMAIN ids |-> [id |-> ids[j], lot |-> lines[ids[j]].lot,
                                             variance |-> Variance(lines[ids[j]])]]
              e == [d EXCEPT !.pc = "post", !.left = left]
  <2>1. /\ d.pc = "lines" /\ UNCHANGED <<sheet, lines, posts>> /\ f' = f
        /\ \/ desk' = [desk EXCEPT ![c] = IdleDesk]
           \/ d.to \in {"in_progress", "pending_review"} /\ desk' = [desk EXCEPT ![c] = At("write")]
           \/ d.to \notin {"in_progress", "pending_review"} /\ desk' = [desk EXCEPT ![c] = e]
    <3>1. d.pc = "lines" /\ UNCHANGED <<sheet, lines, posts>> /\ f' = f
      BY <1>9, <1>36 DEF ReadLines, Does
    <3>2. desk' = [desk EXCEPT ![c] =
            CASE d.to = "in_progress" -> IF Live = {} THEN IdleDesk ELSE At("write")
              [] d.to = "pending_review" -> IF Uncleared # {} THEN IdleDesk ELSE At("write")
              [] OTHER -> e]
      BY <1>1, <1>36 DEF ReadLines, At
    <3>. HIDE DEF e, d
    <3>. QED  BY <3>1, <3>2
  <2>2. ~Posting(d)
    BY <2>1 DEF Posting
  <2>3. sheet \in SheetStatus /\ d.to \in ALLOWED_TRANSITIONS[sheet] /\ d.to # "cancelled"
    BY <1>2, <2>1 DEF DeskOK
  <2>4. CASE desk' = [desk EXCEPT ![c] = IdleDesk]
    BY <1>5, <1>8, <1>16, <2>1, <2>2, <2>4
  <2>5. CASE d.to \in {"in_progress", "pending_review"} /\ desk' = [desk EXCEPT ![c] = At("write")]
    <3>1. ~Posting(At("write"))
      BY <1>11 DEF Posting
    <3>2. DeskOK(At("write"), sheet, lines, posts, f)
      BY <1>11, <2>3, <2>5, <3>1 DEF DeskOK
    <3>3. Bounded(At("write"), sheet', posts', f')
      BY <1>6, <2>1, <2>2, <3>1
    <3>. QED  BY <1>3, <1>4, <1>5, <2>1, <2>5, <3>2, <3>3
  <2>6. CASE d.to \notin {"in_progress", "pending_review"} /\ desk' = [desk EXCEPT ![c] = e]
    <3>1. d.to = "approved" /\ sheet # "approved"
      BY <2>3, <2>6 DEF ALLOWED_TRANSITIONS, SheetStatus
    <3>2. desk'[c] = e /\ e \in DeskType
      BY <1>4, <2>6 DEF CountInv
    <3>3. e.pc = "post" /\ e.to = d.to /\ e.left = left
      BY <1>1 DEF DeskType
    <3>4. Live \in SUBSET Nat /\ IsFiniteSet(Live) /\ Live \in SUBSET (1..n)
      <4>1. Live \in SUBSET (1..n) /\ Live \in SUBSET Nat
        BY <1>1 DEF Live
      <4>2. IsFiniteSet(1..n)
        BY <1>1, FS_Interval
      <4>. QED  BY <4>1, <4>2, FS_Subset
    <3>5. ids \in [1..Cardinality(Live) -> Live] /\ DOMAIN ids = 1..Cardinality(Live)
          /\ \A i, j \in 1..Cardinality(Live) : ids[i] = ids[j] => i = j
      BY <3>4, AscendingLists, Zenon DEF Listing
    <3>6. left \in Seq(LeftOf)
      BY <3>2, <3>3 DEF DeskType, LeftOf
    <3>. DEFINE m == Cardinality(Live)
    <3>. HIDE DEF ids, e, m, d
    <3>7. DOMAIN left = 1..m
      BY <3>5 DEF m
    <3>8. Len(left) \in Nat /\ DOMAIN left = 1..Len(left)
      BY <3>6, LenProperties
    <3>9. \A j \in 1..Len(left) : ids[j] \in 1..n /\ left[j].id = ids[j]
                                  /\ left[j].variance = Variance(lines[ids[j]])
      BY <3>4, <3>5, <3>7, <3>8 DEF m
    <3>10. \A j, k \in 1..Len(left) : left[j].id = left[k].id => j = k
      BY <3>5, <3>7, <3>8, <3>9 DEF m
    <3>. HIDE DEF left
    <3>11. \A j \in 1..Len(left) : posts[left[j].id] <= f
      BY <1>1, <1>2, <2>2, <3>1, <3>9 DEF Bounded
    <3>12. LeftOK(e, lines, posts, f)
      BY <1>1, <3>3, <3>9, <3>10, <3>11 DEF LeftOK
    <3>13. DeskOK(e, sheet, lines, posts, f)
      BY <2>3, <3>1, <3>3, <3>12 DEF DeskOK
    <3>14. Bounded(e, sheet, posts, f)
      BY <1>2, <2>2, <3>3 DEF Bounded, Posting
    <3>. QED  BY <1>3, <1>5, <2>1, <3>2, <3>13, <3>14
  <2>. QED  BY <2>1, <2>4, <2>5, <2>6
<1>37. ASSUME Posting(d), d.pc # "stamp", d.left # <<>>, NEW pc, pc \in {"adjusting", "stamp"},
              pc = "stamp" => d.left[1].variance = 0
       PROVE  LeftOK(At(pc), lines, posts, f) /\ Posting(At(pc)) /\ At(pc).to = d.to
  <2>1. LeftOK(d, lines, posts, f)
    BY <1>15, <1>37
  <2>2. Posting(At(pc)) /\ At(pc).to = d.to /\ At(pc).left = d.left /\ At(pc).pc = pc
    BY <1>11, <1>37 DEF Posting
  <2>. HIDE DEF d
  <2>3. \A j \in 1..Len(d.left) : posts[d.left[j].id] <= f
    BY <1>37, <2>1 DEF LeftOK
  <2>4. LeftOK(At(pc), lines, posts, f)
    BY <1>37, <2>1, <2>2, <2>3 DEF LeftOK
  <2>. QED  BY <2>2, <2>4
<1>38. ASSUME PostVariance(c)
       PROVE  Goal
  <2>1. d.pc = "post" /\ d.left # <<>> /\ UNCHANGED <<sheet, lines, posts>> /\ Posting(d)
    BY <1>38 DEF PostVariance, Does, Posting
  <2>2. count \in [calls : Nat, faults : Nat, made : Nat, adjusted : BOOLEAN]
    BY DEF CountInv, StockInv, TypeOK
  <2>3. \/ Turns(c, "stamp") /\ Head(d.left).variance = 0 /\ f' = f
        \/ Turns(c, "adjusting") /\ f' = f
        \/ NextLine(c) /\ f' = f
    BY <1>38, <2>2 DEF PostVariance
  <2>4. CASE Turns(c, "stamp") /\ Head(d.left).variance = 0 /\ f' = f
    BY <1>10, <1>14, <1>17, <1>37, <2>1, <2>4
  <2>5. CASE Turns(c, "adjusting") /\ f' = f
    BY <1>10, <1>17, <1>37, <2>1, <2>5
  <2>6. CASE NextLine(c) /\ f' = f
    BY <1>10, <1>12, <1>17, <1>18, <2>1, <2>6
  <2>. QED  BY <2>3, <2>4, <2>5, <2>6
<1>39. ASSUME SkipLine(c)
       PROVE  Goal
  <2>1. d.pc = "adjusting" /\ UNCHANGED <<sheet, lines, posts>> /\ Posting(d) /\ NextLine(c) /\ f' = f /\ d.left # <<>>
    BY <1>9, <1>13, <1>39 DEF SkipLine, Does, Posting
  <2>. QED  BY <1>10, <1>12, <1>17, <1>18, <2>1
<1>40. ASSUME PostedLine(c)
       PROVE  Goal
  <2>. DEFINE i == d.left[1].id
              e == At("stamp")
  <2>1. d.pc = "adjusting" /\ UNCHANGED <<sheet, lines>> /\ Posting(d) /\ f' = f /\ d.left # <<>>
        /\ desk' = [desk EXCEPT ![c] = e] /\ posts' = [posts EXCEPT ![i] = @ + 1]
    BY <1>10, <1>13, <1>14, <1>40 DEF PostedLine, Does, Posting, PostEntry
  <2>2. 1 \in 1..Len(d.left) /\ LeftOK(d, lines, posts, f)
    BY <1>14, <1>15, <2>1
  <2>3. i \in 1..n /\ posts[i] <= f
    BY <1>1, <2>1, <2>2 DEF LeftOK
  <2>4. e.pc = "stamp" /\ e.to = d.to /\ e.left = d.left /\ Posting(e)
    BY <1>11 DEF Posting
  <2>5. /\ DOMAIN posts' = 1..n /\ posts'[i] = posts[i] + 1
        /\ \A k \in 1..n : k # i => posts'[k] = posts[k]
    BY <1>1, <2>1, <2>3
  <2>6. \A k \in 1..n : posts'[k] \in Nat /\ posts'[k] >= posts[k]
    <3>. HIDE DEF i, d
    <3>. QED  BY <1>1, <2>3, <2>5
  <2>7. ApprovedIsPosted'
    <3>. HIDE DEF i, d, e
    <3>1. ASSUME NEW k \in DOMAIN lines, lines[k].status = "approved", Variance(lines[k]) # 0
          PROVE  posts'[k] >= 1
      BY <1>1, <1>2, <2>6, <3>1 DEF ApprovedIsPosted
    <3>. QED  BY <2>1, <3>1 DEF ApprovedIsPosted, Variance
  <2>8. LeftOK(e, lines, posts', f)
    <3>1. \A j \in 1..Len(d.left) : d.left[j].id \in 1..n /\ (j # 1 => d.left[j].id # i)
      BY <1>1, <2>2 DEF LeftOK
    <3>2. posts'[i] >= 1
      BY <1>1, <2>3, <2>5
    <3>3. \A j \in 1..Len(d.left) : j = 1 \/ posts'[d.left[j].id] <= f
      BY <2>1, <2>2, <2>5, <3>1 DEF LeftOK
    <3>. HIDE DEF e, d
    <3>. QED  BY <2>2, <2>4, <3>1, <3>2, <3>3 DEF LeftOK
  <2>9. DeskOK(e, sheet, lines, posts', f)
    BY <1>15, <2>1, <2>4, <2>8 DEF DeskOK
  <2>10. Bounded(e, sheet, posts', f)
    <3>1. ASSUME NEW k \in 1..n
          PROVE  posts'[k] <= 1 + f
      <4>1. posts[k] <= 1 + f
        BY <1>1, <1>2 DEF Bounded
      <4>. HIDE DEF i, d
      <4>2. CASE k = i
        BY <1>1, <2>3, <2>5, <4>2
      <4>3. CASE k # i
        BY <2>5, <4>1, <4>3
      <4>. QED  BY <4>2, <4>3
    <3>. QED  BY <2>4, <2>5, <3>1 DEF Bounded
  <2>11. desk'[c] = e
    BY <1>4, <2>1
  <2>. HIDE DEF e
  <2>. QED  BY <1>3, <2>1, <2>7, <2>9, <2>10, <2>11
<1>41. ASSUME StampLine(c)
       PROVE  Goal
  <2>. DEFINE i == d.left[1].id
              e == After("post")
              line == [lines[i] EXCEPT !.status = "approved"]
  <2>1. d.pc = "stamp" /\ UNCHANGED <<sheet, posts>> /\ Posting(d) /\ f' = f /\ d.left # <<>>
        /\ desk' = [desk EXCEPT ![c] = e] /\ SetLine(i, line)
    BY <1>9, <1>10, <1>13, <1>14, <1>41 DEF StampLine, Does, Posting
  <2>2. LeftOK(d, lines, posts, f) /\ 1 \in 1..Len(d.left) /\ LeftOK(e, lines, posts, f) /\ Posting(e)
    BY <1>14, <1>15, <1>18, <2>1
  <2>3. i \in 1..n /\ (Variance(lines[i]) = 0 \/ posts[i] >= 1)
    BY <1>1, <2>1, <2>2 DEF LeftOK
  <2>4. /\ DOMAIN lines' = 1..n
        /\ \A k \in 1..n : Variance(lines'[k]) = Variance(lines[k]) /\ (k # i => lines'[k] = lines[k])
    <3>1. CASE i \in Live
      <4>1. lines' = [lines EXCEPT ![i] = line]
        BY <2>1, <3>1 DEF SetLine
      <4>2. line.counted = lines[i].counted /\ line.system = lines[i].system
        BY <1>1, <2>3 DEF LineType
      <4>. HIDE DEF line, i
      <4>3. \A k \in 1..n : lines'[k] = IF k = i THEN line ELSE lines[k]
        BY <1>1, <2>3, <4>1
      <4>4. Variance(line) = Variance(lines[i])
        BY <4>2 DEF Variance
      <4>. QED  BY <1>1, <4>1, <4>3, <4>4
    <3>2. CASE i \notin Live
      BY <1>1, <2>1, <3>2 DEF SetLine
    <3>. QED  BY <3>1, <3>2
  <2>5. ApprovedIsPosted'
    <3>. HIDE DEF i, d, e
    <3>1. ASSUME NEW k \in 1..n, lines'[k].status = "approved", Variance(lines[k]) # 0
          PROVE  posts[k] >= 1
      <4>1. CASE k = i
        BY <2>3, <3>1, <4>1
      <4>2. CASE k # i
        BY <1>1, <1>2, <2>4, <3>1, <4>2 DEF ApprovedIsPosted
      <4>. QED  BY <4>1, <4>2
    <3>2. ASSUME NEW k \in DOMAIN lines', lines'[k].status = "approved", Variance(lines'[k]) # 0
          PROVE  posts'[k] >= 1
      BY <2>1, <2>4, <3>1, <3>2
    <3>. QED  BY <3>2 DEF ApprovedIsPosted, Variance
  <2>6. LeftOK(e, lines', posts, f)
    <3>1. \A j \in 1..Len(e.left) : e.left[j].id \in 1..n
      BY <1>1, <2>2 DEF LeftOK
    <3>2. \A j \in 1..Len(e.left) : e.left[j].id \in DOMAIN lines' /\ e.left[j].variance = Variance(lines'[e.left[j].id])
      BY <2>2, <2>4, <3>1 DEF LeftOK
    <3>. QED  BY <2>2, <3>2 DEF LeftOK
  <2>7. DeskOK(e, sheet, lines', posts, f)
    BY <1>12, <1>15, <2>1, <2>2, <2>6 DEF DeskOK
  <2>8. Bounded(e, sheet, posts, f)
    BY <1>2, <2>2 DEF Bounded
  <2>9. desk'[c] = e
    BY <1>4, <2>1
  <2>. HIDE DEF e
  <2>. QED  BY <1>3, <2>1, <2>5, <2>7, <2>8, <2>9
<1>42. ASSUME RequestFails(c)
       PROVE  Goal
  <2>1. count \in [calls : Nat, faults : Nat, made : Nat, adjusted : BOOLEAN]
    BY DEF CountInv, StockInv, TypeOK
  <2>2. f' = f + 1 /\ UNCHANGED <<sheet, lines, posts>> /\ desk'[c] = IdleDesk
    BY <1>4, <1>10, <1>42, <2>1 DEF RequestFails
  <2>3. \A k \in 1..n : posts[k] <= 1 + f
    BY <1>1, <1>2 DEF Bounded
  <2>4. Bounded(IdleDesk, sheet, posts, f')
    BY <1>1, <2>2, <2>3 DEF Bounded
  <2>. QED  BY <1>3, <1>5, <1>7, <1>8, <2>2, <2>4
<1>50. Goal
  BY <1>21, <1>22, <1>23, <1>24, <1>25, <1>27, <1>28, <1>29, <1>30, <1>32, <1>33, <1>34, <1>35, <1>36, <1>38, <1>39,
     <1>40, <1>41, <1>42, Zenon DEF CountStep
<1>. QED  BY <1>50 DEF Goal

LEMMA PostInvInit == CountInit => PostInv
BY DEF CountInit, PostInv, ApprovedIsPosted, DeskOK, Bounded, Posting, IdleDesk

THEOREM PostInvariant ==
  ASSUME OneCaller
  PROVE  CountSpec => [](CountInv /\ PostInv)
<1>1. CountInit => CountInv /\ PostInv
  BY CountInvInit, PostInvInit
<1>2. CountInv /\ PostInv /\ [CountNext]_<<vars, countVars>> => (CountInv /\ PostInv)'
  <2>. SUFFICES ASSUME CountInv, PostInv, [CountNext]_<<vars, countVars>>
                PROVE  (CountInv /\ PostInv)'
    OBVIOUS
  <2>1. CountInv'
    BY CountInvStep
  <2>2. ASSUME Callers = {}
        PROVE  PostInv'
    <3>1. UNCHANGED <<vars, countVars>>
      BY <2>2, Zenon DEF CountNext
    <3>2. lines' = lines /\ posts' = posts
      BY <3>1 DEF countVars
    <3>. QED  BY <2>2, <3>2, Zenon DEF PostInv, ApprovedIsPosted
  <2>3. ASSUME NEW c \in Callers
        PROVE  PostInv'
    <3>1. \A e \in Callers : e = c
      BY DEF OneCaller
    <3>2. CountStep(c) \/ (StockStep(c) /\ UNCHANGED countVars) \/ UNCHANGED <<vars, countVars>>
      BY <3>1, Zenon DEF CountNext
    <3>. QED  BY <2>1, <3>1, <3>2, PostStep
  <2>. QED  BY <2>1, <2>2, <2>3, Zenon
<1>. QED  BY <1>1, <1>2, PTL DEF CountSpec

(* With one request at a time, a line stamped as approved with a variance   *)
(* has its ledger entry, whatever was skipped, cut short and begun again    *)
(* (approveCycleCount stamps a line after posting it).                      *)
THEOREM StampedIsPosted ==
  ASSUME OneCaller
  PROVE  CountSpec => []ApprovedIsPosted
<1>1. PostInv => ApprovedIsPosted
  BY DEF PostInv
<1>. QED  BY <1>1, PostInvariant, PTL

(* ... and no line is posted more than once for each approval that was cut  *)
(* short and once more: the sheet of a whole approval is not approved again.*)
THEOREM PostedOnce ==
  ASSUME OneCaller, Callers # {}
  PROVE  CountSpec => []PostedAgainOnlyAfterFault
<1>1. PICK c \in Callers : TRUE
  OBVIOUS
<1>2. CountInv /\ PostInv => PostedAgainOnlyAfterFault
  BY <1>1, CountFacts DEF PostInv, Bounded, PostedAgainOnlyAfterFault
<1>. QED  BY <1>2, PostInvariant, PTL

-----------------------------------------------------------------------------
(* The aggregate and the ledger, for one caller.  A list of calls is in     *)
(* step with the aggregate a and the ledger p when a = p and no call of it  *)
(* touches either, or when at most writes of rows come before the k-th call *)
(* and from there the list writes the one and enters the other so that they *)
(* agree when it is done.                                                   *)

Loud == {"setAgg", "addAgg", "post"}
Plain == {"set", "put", "insert"}
QuietAfter(s, m) == \A i \in 1..Len(s) : i > m => s[i].call \notin Loud
Ends1(s, k, a, p) ==
  /\ QuietAfter(s, k)
  /\ (s[k].call = "post" /\ a = p + s[k].delta) \/ (s[k].call = "addAgg" /\ a + s[k].qty = p)
Ends2(s, k, a, p) ==
  /\ k + 1 \in 1..Len(s)
  /\ QuietAfter(s, k + 1)
  /\ \/ s[k].call = "setAgg" /\ s[k + 1].call = "post" /\ s[k].qty = p + s[k + 1].delta
     \/ s[k].call = "post" /\ s[k + 1].call = "addAgg" /\ a + s[k + 1].qty = p + s[k].delta
Owing(s, k, a, p) ==
  /\ \A i \in 1..(k - 1) : s[i].call \in Plain
  /\ Ends1(s, k, a, p) \/ Ends2(s, k, a, p)
InStep(s, a, p) ==
  \/ QuietAfter(s, 0) /\ a = p
  \/ \E k \in 1..Len(s) : Owing(s, k, a, p)

LEMMA Replaced ==
  ASSUME NEW S, NEW s \in Seq(S), s # <<>>, NEW R, NEW list \in Seq(R), NEW m, m = Len(list), NEW n, n = Len(s),
         NEW t, t = list \o Tail(s)
  PROVE  /\ m \in Nat /\ n \in Nat \ {0} /\ Len(t) = m + n - 1
         /\ \A i \in 1..m : t[i] = list[i]
         /\ \A i \in 1..n : i # 1 => t[m + i - 1] = s[i]
         /\ \A i \in 1..(m + n - 1) : i \in 1..m \/ (i - m + 1 \in 2..n /\ t[i] = s[i - m + 1])
<1>1. m \in Nat /\ n \in Nat \ {0}
  BY LenProperties, EmptySeq
<1>2. Tail(s) \in Seq(S) /\ Len(Tail(s)) = n - 1 /\ \A i \in 1..(n - 1) : Tail(s)[i] = s[i + 1]
  BY HeadTailProperties
<1>3. Tail(s) \in Seq(R \cup S) /\ list \in Seq(R \cup S)
  BY <1>2
<1>4. /\ Len(t) = m + (n - 1)
      /\ \A i \in 1..(m + (n - 1)) : t[i] = IF i <= m THEN list[i] ELSE Tail(s)[i - m]
  BY <1>2, <1>3, ConcatProperties
<1>5. ASSUME NEW i \in 1..m
      PROVE  t[i] = list[i]
  BY <1>1, <1>4
<1>6. ASSUME NEW i \in 1..(m + n - 1)
      PROVE  i \in 1..m \/ (i - m + 1 \in 2..n /\ t[i] = s[i - m + 1])
  <2>1. CASE i <= m
    BY <1>1, <2>1
  <2>2. CASE ~(i <= m)
    <3>1. i - m \in 1..(n - 1)
      BY <1>1, <2>2
    <3>2. t[i] = Tail(s)[i - m] /\ Tail(s)[i - m] = s[(i - m) + 1]
      BY <1>1, <1>2, <1>4, <2>2, <3>1
    <3>. QED  BY <1>1, <3>1, <3>2
  <2>. QED  BY <2>1, <2>2
<1>7. ASSUME NEW i \in 1..n, i # 1
      PROVE  t[m + i - 1] = s[i]
  <2>1. m + i - 1 \in 1..(m + n - 1) /\ m + i - 1 \notin 1..m /\ (m + i - 1) - m + 1 = i
    BY <1>1, <1>7
  <2>. QED  BY <1>6, <2>1
<1>8. Len(t) = m + n - 1
  BY <1>1, <1>4
<1>. QED  BY <1>1, <1>5, <1>6, <1>7, <1>8

(* A call that writes or finds a row is replaced by such calls.             *)
LEMMA PlainInStep ==
  ASSUME NEW S, NEW s \in Seq(S), s # <<>>, NEW a, NEW p, InStep(s, a, p), s[1].call \in Plain,
         NEW R, NEW list \in Seq(R), \A i \in 1..Len(list) : list[i].call \in Plain
  PROVE  InStep(list \o Tail(s), a, p)
<1>. DEFINE t == list \o Tail(s)
            m == Len(list)
            n == Len(s)
<1>0. m = Len(list) /\ n = Len(s) /\ t = list \o Tail(s)
  OBVIOUS
<1>. HIDE DEF t, m, n
<1>1. /\ m \in Nat /\ n \in Nat \ {0} /\ Len(t) = m + n - 1
      /\ \A i \in 1..m : t[i] = list[i]
      /\ \A i \in 1..n : i # 1 => t[m + i - 1] = s[i]
      /\ \A i \in 1..(m + n - 1) : i \in 1..m \/ (i - m + 1 \in 2..n /\ t[i] = s[i - m + 1])
  BY <1>0, Replaced, SMTT(60)
<1>2. \A i \in 1..m : t[i].call \in Plain
  BY <1>1 DEF m
<1>3. Plain \cap Loud = {}
  BY DEF Plain, Loud
<1>4. ASSUME NEW k \in 1..n, QuietAfter(s, k)
      PROVE  QuietAfter(t, m + k - 1)
  <2>. SUFFICES ASSUME NEW i \in 1..(m + n - 1), i > m + k - 1
                PROVE  t[i].call \notin Loud
    BY <1>1 DEF QuietAfter
  <2>1. i \notin 1..m /\ i - m + 1 \in 1..n /\ i - m + 1 > k
    BY <1>1
  <2>. QED  BY <1>1, <1>4, <2>1 DEF QuietAfter, n
<1>5. CASE QuietAfter(s, 0) /\ a = p
  <2>1. QuietAfter(s, 1)
    BY <1>1, <1>5 DEF QuietAfter, n
  <2>2. QuietAfter(t, m + 1 - 1)
    BY <1>1, <1>4, <2>1
  <2>3. QuietAfter(t, 0)
    BY <1>1, <1>2, <1>3, <2>2 DEF QuietAfter
  <2>. QED  BY <1>5, <2>3 DEF InStep, t
<1>6. ASSUME NEW k \in 1..n, Owing(s, k, a, p)
      PROVE  InStep(t, a, p)
  <2>1. k # 1
    BY <1>3, <1>6 DEF Owing, Ends1, Ends2, Loud
  <2>2. m + k - 1 \in 1..(m + n - 1) /\ t[m + k - 1] = s[k] /\ k \in Int
    BY <1>1, <2>1, SMTT(20)
  <2>3. \A i \in 1..((m + k - 1) - 1) : t[i].call \in Plain
    <3>. SUFFICES ASSUME NEW i \in 1..((m + k - 1) - 1), i \notin 1..m
                  PROVE  t[i].call \in Plain
      BY <1>2
    <3>1. i - m + 1 \in 1..(k - 1) /\ i \in 1..(m + n - 1)
      BY <1>1
    <3>. QED  BY <1>1, <1>6, <3>1 DEF Owing
  <2>4. Ends1(s, k, a, p) => Ends1(t, m + k - 1, a, p)
    BY <1>4, <2>2 DEF Ends1
  <2>5. ASSUME Ends2(s, k, a, p)
        PROVE  Ends2(t, m + k - 1, a, p)
    <3>1. k + 1 \in 1..n /\ QuietAfter(s, k + 1) /\ k + 1 # 1
      BY <1>1, <2>5 DEF Ends2, n
    <3>2. t[m + (k + 1) - 1] = s[k + 1] /\ QuietAfter(t, m + (k + 1) - 1)
      BY <1>1, <1>4, <3>1
    <3>3. m + (k + 1) - 1 = (m + k - 1) + 1 /\ (m + k - 1) + 1 \in 1..(m + n - 1)
      BY <1>1, <3>1
    <3>. QED  BY <1>1, <2>2, <2>5, <3>2, <3>3 DEF Ends2
  <2>6. Owing(t, m + k - 1, a, p)
    BY <1>6, <2>3, <2>4, <2>5 DEF Owing
  <2>. QED  BY <1>1, <2>2, <2>6 DEF InStep
<1>. QED  BY <1>5, <1>6 DEF InStep, t, n

(* Any other call that is not on the books stands in a list without such.   *)
LEMMA QuietInStep ==
  ASSUME NEW S, NEW s \in Seq(S), s # <<>>, NEW a, NEW p, InStep(s, a, p), s[1].call \notin Plain \cup Loud
  PROVE  QuietAfter(s, 0) /\ a = p
<1>1. Len(s) \in Nat \ {0}
  BY EmptySeq, LenProperties
<1>2. ASSUME NEW k \in 1..Len(s), Owing(s, k, a, p)
      PROVE  FALSE
  <2>1. CASE k = 1
    BY <1>2, <2>1 DEF Owing, Ends1, Ends2, Loud
  <2>2. CASE k # 1
    <3>1. 1 \in 1..(k - 1)
      BY <1>1, <2>2
    <3>. QED  BY <1>2, <3>1 DEF Owing
  <2>. QED  BY <2>1, <2>2
<1>. QED  BY <1>2 DEF InStep

LEMMA QuietFollowed ==
  ASSUME NEW S, NEW s \in Seq(S), s # <<>>, QuietAfter(s, 0),
         NEW R, NEW list \in Seq(R), QuietAfter(list, 0)
  PROVE  QuietAfter(list \o Tail(s), 0)
<1>. DEFINE t == list \o Tail(s)
            m == Len(list)
            n == Len(s)
<1>0. m = Len(list) /\ n = Len(s) /\ t = list \o Tail(s)
  OBVIOUS
<1>. HIDE DEF t, m, n
<1>1. /\ m \in Nat /\ n \in Nat \ {0} /\ Len(t) = m + n - 1
      /\ \A i \in 1..m : t[i] = list[i]
      /\ \A i \in 1..(m + n - 1) : i \in 1..m \/ (i - m + 1 \in 2..n /\ t[i] = s[i - m + 1])
  BY <1>0, Replaced, SMTT(30)
<1>2. ASSUME NEW i \in 1..(m + n - 1)
      PROVE  t[i].call \notin Loud
  <2>1. CASE i \in 1..m
    BY <1>1, <2>1 DEF QuietAfter, m
  <2>2. CASE i \notin 1..m
    <3>1. i - m + 1 \in 1..n /\ i - m + 1 > 0 /\ t[i] = s[i - m + 1]
      BY <1>1, <2>2
    <3>. QED  BY <3>1 DEF QuietAfter, n
  <2>. QED  BY <2>1, <2>2
<1>. QED  BY <1>0, <1>1, <1>2 DEF QuietAfter

(* A shipment or an adjustment puts the writes of rows, the new aggregate,  *)
(* and the entry of the difference in front of the list.                    *)
LEMMA BooksFollowed ==
  ASSUME NEW S, NEW s \in Seq(S), s # <<>>, QuietAfter(s, 0), NEW a, NEW p \in Int,
         NEW R, NEW list \in Seq(R), NEW k \in 1..2, Len(list) = k + 1,
         \A i \in 1..(k - 1) : list[i].call \in Plain,
         list[k].call = "setAgg", list[k + 1].call = "post", list[k].qty = p + list[k + 1].delta
  PROVE  InStep(list \o Tail(s), a, p)
<1>. DEFINE t == list \o Tail(s)
            m == Len(list)
            n == Len(s)
<1>0. m = Len(list) /\ n = Len(s) /\ t = list \o Tail(s)
  OBVIOUS
<1>. HIDE DEF t, m, n
<1>1. /\ m \in Nat /\ n \in Nat \ {0} /\ Len(t) = m + n - 1
      /\ \A i \in 1..m : t[i] = list[i]
      /\ \A i \in 1..(m + n - 1) : i \in 1..m \/ (i - m + 1 \in 2..n /\ t[i] = s[i - m + 1])
  BY <1>0, Replaced, SMTT(30)
<1>2. m = k + 1
  BY <1>0
<1>3. \A i \in 1..(k - 1) : t[i].call \in Plain
  BY <1>1, <1>2
<1>4. t[k] = list[k] /\ t[k + 1] = list[k + 1] /\ k + 1 \in 1..Len(t) /\ k \in 1..Len(t)
  BY <1>1, <1>2
<1>5. QuietAfter(t, k + 1)
  <2>. SUFFICES ASSUME NEW i \in 1..(m + n - 1), i > k + 1
                PROVE  t[i].call \notin Loud
    BY <1>1 DEF QuietAfter
  <2>1. i - m + 1 \in 1..n /\ i - m + 1 > 0 /\ t[i] = s[i - m + 1]
    BY <1>1, <1>2
  <2>. QED  BY <2>1 DEF QuietAfter, n
<1>6. Ends2(t, k, a, p)
  BY <1>4, <1>5 DEF Ends2
<1>. QED  BY <1>3, <1>4, <1>6 DEF InStep, Owing, t

(* A call that writes the aggregate or enters in the ledger is done with.   *)
LEMMA LoudInStep ==
  ASSUME NEW S, NEW s \in Seq(S), s # <<>>, NEW a \in Int, NEW p \in Int, InStep(s, a, p), s[1].call \in Loud,
         s[1].qty \in Int, s[1].delta \in Int, NEW b, NEW q,
         s[1].call = "setAgg" => b = s[1].qty /\ q = p,
         s[1].call = "addAgg" => b = a + s[1].qty /\ q = p,
         s[1].call = "post" => b = a /\ q = p + s[1].delta
  PROVE  InStep(<<>> \o Tail(s), b, q)
<1>. DEFINE t == <<>> \o Tail(s)
            n == Len(s)
            none == <<>>
<1>0. n = Len(s) /\ t = none \o Tail(s) /\ none \in Seq(S) /\ 0 = Len(none)
  BY EmptySeq
<1>. HIDE DEF none, t, n
<1>1. n \in Nat \ {0} /\ Len(t) = 0 + n - 1 /\ \A i \in 1..n : i # 1 => t[0 + i - 1] = s[i]
  BY <1>0, Replaced, SMTT(30)
<1>2. Len(t) = n - 1 /\ \A i \in 1..(n - 1) : i + 1 \in 1..n /\ t[i] = s[i + 1]
  <2>1. ASSUME NEW i \in 1..(n - 1)
        PROVE  i + 1 \in 1..n /\ t[i] = s[i + 1]
    <3>1. i + 1 \in 1..n /\ i + 1 # 1 /\ 0 + (i + 1) - 1 = i
      BY <1>1
    <3>. QED  BY <1>1, <3>1
  <2>. QED  BY <1>1, <2>1
<1>3. ASSUME NEW k \in 1..2, QuietAfter(s, k)
      PROVE  QuietAfter(t, k - 1)
  BY <1>0, <1>1, <1>2, <1>3 DEF QuietAfter
<1>4. 1 \in 1..n /\ ~QuietAfter(s, 0)
  BY <1>0, <1>1 DEF QuietAfter
<1>5. PICK k \in 1..n : Owing(s, k, a, p)
  BY <1>0, <1>4 DEF InStep
<1>6. k = 1
  <2>1. k # 1 => 1 \in 1..(k - 1)
    BY <1>1
  <2>. QED  BY <1>5, <2>1 DEF Owing, Plain, Loud
<1>7. CASE Ends1(s, 1, a, p)
  <2>1. QuietAfter(t, 0) /\ b = q
    BY <1>3, <1>7 DEF Ends1
  <2>. QED  BY <2>1 DEF InStep, t
<1>8. CASE Ends2(s, 1, a, p)
  <2>1. QuietAfter(t, 1) /\ 2 \in 1..n /\ 1 \in 1..Len(t) /\ t[1] = s[2]
    BY <1>0, <1>1, <1>2, <1>3, <1>8 DEF Ends2
  <2>2. Ends1(t, 1, b, q)
    BY <1>8, <2>1 DEF Ends1, Ends2
  <2>. QED  BY <2>1, <2>2 DEF InStep, Owing, t
<1>. QED  BY <1>5, <1>6, <1>7, <1>8 DEF Owing

LEMMA BeginsWith ==
  ASSUME StockInv, StockInv', NEW c \in Callers, NEW kind, NEW list, NEW made, BeginMaking(c, kind, list, made)
  PROVE  todo'[c] = list /\ list \in Seq(Calls) /\ DOMAIN list = 1..Len(list) /\ Len(list) \in Nat /\ todo[c] = <<>>
<1>1. todo \in [Callers -> Seq(Calls)] /\ todo' \in [Callers -> Seq(Calls)]
  BY DEF StockInv, TypeOK
<1>2. todo' = [todo EXCEPT ![c] = list] /\ todo[c] = <<>>
  BY DEF BeginMaking, IsIdle
<1>3. todo'[c] = list /\ list \in Seq(Calls)
  BY <1>1, <1>2
<1>. QED  BY <1>2, <1>3, LenProperties

LEMMA GoesOnWith ==
  ASSUME StockInv, NEW c \in Callers, NEW name, Doing(c, name), NEW list, Follow(c, list)
  PROVE  todo'[c] = list \o Tail(todo[c])
BY DEF StockInv, TypeOK, Follow

LEMMA StartsInStep ==
  ASSUME StockInv, StockInv', NEW c \in Callers, Starts(c), InStep(todo[c], agg, posted.all)
  PROVE  InStep(todo'[c], agg', posted'.all)
<1>. DEFINE Goal == InStep(todo'[c], agg', posted'.all)
<1>1. todo[c] = <<>>
  BY ZenonT(40) DEF Starts, Produce, Pick, Reserve, Release, Adjust, SetQuantity, Move, Sweep, UpdateStatus, Begin, BeginMaking, IsIdle
<1>2. agg' = agg /\ posted' = posted
  BY DEF Starts, Produce, Pick, Reserve, Release, Adjust, SetQuantity, Move, Sweep, UpdateStatus, Pure
<1>3. Len(<<>>) = 0 /\ 1..0 = {}
  BY EmptySeq
<1>4. agg = posted.all
  BY <1>1, <1>3 DEF InStep
<1>5. ASSUME NEW kind, NEW list, Begin(c, kind, list), \A i \in DOMAIN list : list[i].call \notin Loud
      PROVE  Goal
  <2>1. todo'[c] = list /\ DOMAIN list = 1..Len(list)
    BY <1>5, BeginsWith DEF Begin
  <2>. QED  BY <1>2, <1>4, <1>5, <2>1 DEF InStep, QuietAfter
<1>6. ASSUME NEW kind, NEW list, Begin(c, kind, list),
             \/ Len(list) = 1 /\ list[1].call \notin Loud
             \/ Len(list) = 2 /\ list[1].call \notin Loud /\ list[2].call \notin Loud
      PROVE  Goal
  <2>1. DOMAIN list = 1..Len(list)
    BY <1>6, BeginsWith DEF Begin
  <2>2. \A i \in DOMAIN list : list[i].call \notin Loud
    BY <1>6, <2>1
  <2>. QED  BY <1>5, <1>6, <2>2
<1>. HIDE DEF Goal
<1>. USE DEF Blank, Loud
<1>10. ASSUME Produce(c)
       PROVE  Goal
  <2>1. PICK l \in Lots : \E q \in Quantities :
          BeginMaking(c, "produce", <<Put(l, NoBin, "available", q), Post(l, q), AddAgg(q)>>, q)
    BY <1>10 DEF Produce
  <2>2. PICK q \in Quantities :
          BeginMaking(c, "produce", <<Put(l, NoBin, "available", q), Post(l, q), AddAgg(q)>>, q)
    BY <2>1
  <2>. DEFINE list == <<Put(l, NoBin, "available", q), Post(l, q), AddAgg(q)>>
  <2>3. todo'[c] = list
    BY <2>2, BeginsWith
  <2>4. /\ Len(list) = 3 /\ list[1].call = "put"
        /\ list[2].call = "post" /\ list[2].delta = q
        /\ list[3].call = "addAgg" /\ list[3].qty = q
    BY DEF Put, Post, AddAgg
  <2>. HIDE DEF list
  <2>5. q \in Int /\ agg \in Int
    BY DEF Quantities, StockInv, TypeOK
  <2>6. QuietAfter(list, 3)
    BY <2>4 DEF QuietAfter
  <2>7. \A i \in 1..(2 - 1) : i = 1
    OBVIOUS
  <2>8. Owing(list, 2, agg, posted.all)
    BY <1>4, <2>4, <2>5, <2>6, <2>7 DEF Owing, Ends2, Plain
  <2>. QED  BY <1>2, <2>3, <2>4, <2>8 DEF InStep, Goal
<1>11. ASSUME Pick(c)
       PROVE  Goal
  <2>1. PICK q \in Quantities : \E s \in {"available", "reserved"} :
          Begin(c, "pick", [i \in DOMAIN Select(s, q) |-> Ship(Select(s, q)[i])])
    BY <1>11 DEF Pick
  <2>2. PICK s \in {"available", "reserved"} :
          Begin(c, "pick", [i \in DOMAIN Select(s, q) |-> Ship(Select(s, q)[i])])
    BY <2>1
  <2>. DEFINE list == [i \in DOMAIN Select(s, q) |-> Ship(Select(s, q)[i])]
  <2>3. \A i \in DOMAIN list : list[i].call \notin Loud
    BY DEF Ship
  <2>4. Begin(c, "pick", list)
    BY <2>2
  <2>. HIDE DEF list
  <2>. QED  BY <1>5, <2>3, <2>4
<1>12. ASSUME Reserve(c)
       PROVE  Goal
  <2>1. PICK l, q, r : Begin(c, "reserve", <<Set(r, Quantity(r) - q), Put(l, NoBin, "reserved", q)>>)
    BY <1>12 DEF Reserve
  <2>. DEFINE list == <<Set(r, Quantity(r) - q), Put(l, NoBin, "reserved", q)>>
  <2>2. Len(list) = 2 /\ list[1].call = "set" /\ list[2].call = "put"
    BY DEF Set, Put
  <2>3. Begin(c, "reserve", list)
    BY <2>1
  <2>. HIDE DEF list
  <2>. QED  BY <1>6, <2>2, <2>3
<1>13. ASSUME Release(c)
       PROVE  Goal
  <2>1. PICK l, q, r : Begin(c, "release", <<Set(r, Quantity(r) - q), Lookup(l, "available", q)>>)
    BY <1>13 DEF Release
  <2>. DEFINE list == <<Set(r, Quantity(r) - q), Lookup(l, "available", q)>>
  <2>2. Len(list) = 2 /\ list[1].call = "set" /\ list[2].call = "lookup"
    BY DEF Set, Lookup
  <2>3. Begin(c, "release", list)
    BY <2>1
  <2>. HIDE DEF list
  <2>. QED  BY <1>6, <2>2, <2>3
<1>14. ASSUME Adjust(c)
       PROVE  Goal
  <2>1. PICK l, d, current : Begin(c, "adjust", <<Adjustment(l, d, current)>>)
    BY <1>14 DEF Adjust
  <2>. DEFINE list == <<Adjustment(l, d, current)>>
  <2>2. Len(list) = 1 /\ list[1].call = "adjustAgg"
    BY DEF Adjustment
  <2>3. Begin(c, "adjust", list)
    BY <2>1
  <2>. HIDE DEF list
  <2>. QED  BY <1>6, <2>2, <2>3
<1>15. ASSUME SetQuantity(c)
       PROVE  Goal
  <2>1. PICK target : Begin(c, "setQuantity", <<Adjustment(NoLot, target - agg, 0)>>)
    BY <1>15 DEF SetQuantity
  <2>. DEFINE list == <<Adjustment(NoLot, target - agg, 0)>>
  <2>2. Len(list) = 1 /\ list[1].call = "adjustAgg"
    BY DEF Adjustment
  <2>3. Begin(c, "setQuantity", list)
    BY <2>1
  <2>. HIDE DEF list
  <2>. QED  BY <1>6, <2>2, <2>3
<1>16. ASSUME Move(c)
       PROVE  Goal
  <2>1. PICK l, to, s, q, r : Begin(c, "move",
             <<[Blank EXCEPT !.call = "moveInto", !.lot = l, !.bin = to, !.status = s,
                             !.row = r, !.qty = q, !.delta = Quantity(r) - q]>>)
    BY <1>16, ZenonT(40) DEF Move
  <2>. DEFINE list == <<[Blank EXCEPT !.call = "moveInto", !.lot = l, !.bin = to, !.status = s,
                                      !.row = r, !.qty = q, !.delta = Quantity(r) - q]>>
  <2>2. Len(list) = 1 /\ list[1].call = "moveInto"
    OBVIOUS
  <2>3. Begin(c, "move", list)
    BY <2>1
  <2>. HIDE DEF list
  <2>. QED  BY <1>6, <2>2, <2>3
<1>17. ASSUME Sweep(c)
       PROVE  Goal
  <2>. DEFINE list == [i \in DOMAIN Ascending(StaleRows) |-> Quarantine(Ascending(StaleRows)[i])]
  <2>1. Begin(c, "sweep", list)
    BY <1>17 DEF Sweep, StaleRows
  <2>2. \A i \in DOMAIN list : list[i].call \notin Loud
    BY DEF Quarantine
  <2>. HIDE DEF list
  <2>. QED  BY <1>5, <2>1, <2>2
<1>18. ASSUME UpdateStatus(c)
       PROVE  Goal
  <2>. DEFINE list == <<>>
  <2>1. Begin(c, "status", list) /\ DOMAIN list = {}
    BY <1>18 DEF UpdateStatus
  <2>. HIDE DEF list
  <2>. QED  BY <1>5, <2>1
<1>. QED  BY <1>10, <1>11, <1>12, <1>13, <1>14, <1>15, <1>16, <1>17, <1>18, Zenon DEF Starts, Goal

LEMMA OfCalls ==
  /\ \A x : <<x>> \in Seq({x}) /\ Len(<<x>>) = 1 /\ <<x>>[1] = x
  /\ \A x, y : <<x, y>> \in Seq({x, y}) /\ Len(<<x, y>>) = 2 /\ <<x, y>>[1] = x /\ <<x, y>>[2] = y
  /\ \A x, y, z : /\ <<x, y, z>> \in Seq({x, y, z}) /\ Len(<<x, y, z>>) = 3
                  /\ <<x, y, z>>[1] = x /\ <<x, y, z>>[2] = y /\ <<x, y, z>>[3] = z
OBVIOUS

LEMMA ResolvesInStep ==
  ASSUME StockInv, NEW c \in Callers, Resolves(c), InStep(todo[c], agg, posted.all)
  PROVE  InStep(todo'[c], agg', posted'.all)
<1>. DEFINE Goal == InStep(todo'[c], agg', posted'.all)
            a == agg
            p == posted.all
<1>1. todo \in [Callers -> Seq(Calls)] /\ todo[c] \in Seq(Calls) /\ a \in Int /\ p \in Int
  BY DEF StockInv, TypeOK
<1>2. agg' = agg /\ posted' = posted
  BY DEF Resolves, ShipRead, ShipResolve, AdjustResolve, MoveResolve, LookupRow, QuarantineRow, PutRow
<1>3. ASSUME NEW name, Doing(c, name)
      PROVE  /\ todo[c] # <<>> /\ next(c) = todo[c][1] /\ todo[c][1].call = name /\ next(c) \in Calls
             /\ next(c).qty \in Nat
  <2>1. todo[c] # <<>> /\ Sound(next(c), DOMAIN rows) /\ next(c) = todo[c][1] /\ next(c).call = name
        /\ next(c).qty \in Nat
    BY <1>3, HeadSound
  <2>. QED  BY <2>1 DEF Sound
<1>4. ASSUME NEW name, Doing(c, name), name \notin Plain \cup Loud
      PROVE  QuietAfter(todo[c], 0) /\ a = p
  <2>1. todo[c] # <<>> /\ todo[c][1].call \notin Plain \cup Loud
    BY <1>3, <1>4
  <2>. QED  BY <1>1, <2>1, QuietInStep
<1>5. ASSUME Throw(c), a = p
      PROVE  Goal
  <2>1. todo'[c] = <<>>
    BY <1>1, <1>5 DEF Throw
  <2>2. Len(<<>>) = 0
    BY EmptySeq
  <2>. QED  BY <1>2, <1>5, <2>1, <2>2 DEF InStep, QuietAfter
<1>6. ASSUME NEW name, Doing(c, name), name \notin Plain \cup Loud,
             NEW R, NEW list \in Seq(R), Follow(c, list), QuietAfter(list, 0)
      PROVE  Goal
  <2>1. todo'[c] = list \o Tail(todo[c])
    BY <1>6, GoesOnWith
  <2>2. QuietAfter(todo[c], 0) /\ a = p /\ todo[c] # <<>>
    BY <1>3, <1>4, <1>6
  <2>3. QuietAfter(list \o Tail(todo[c]), 0)
    BY <1>1, <1>6, <2>2, QuietFollowed
  <2>. QED  BY <1>2, <2>1, <2>2, <2>3 DEF InStep
<1>7. ASSUME NEW name, Doing(c, name), name \notin Plain \cup Loud,
             NEW R, NEW list \in Seq(R), Follow(c, list), NEW k \in 1..2, Len(list) = k + 1,
             \A i \in 1..(k - 1) : list[i].call \in Plain,
             list[k].call = "setAgg", list[k + 1].call = "post", list[k].qty = a + list[k + 1].delta
      PROVE  Goal
  <2>1. todo'[c] = list \o Tail(todo[c])
    BY <1>7, GoesOnWith
  <2>2. QuietAfter(todo[c], 0) /\ a = p /\ todo[c] # <<>>
    BY <1>3, <1>4, <1>7
  <2>3. list[k].qty = p + list[k + 1].delta
    BY <1>7, <2>2
  <2>4. InStep(list \o Tail(todo[c]), a, p)
    BY <1>1, <1>7, <2>2, <2>3, BooksFollowed
  <2>. QED  BY <1>2, <2>1, <2>4
<1>. HIDE DEF Goal
<1>. USE DEF Blank, Loud, Plain
<1>10. ASSUME ShipRead(c)
       PROVE  Goal
  <2>1. Doing(c, "ship") /\ next(c) \in Calls
    BY <1>3, <1>10 DEF ShipRead
  <2>2. ASSUME NEW r, Follow(c, <<[next(c) EXCEPT !.call = "shipAgg", !.row = r, !.delta = Quantity(r)]>>)
        PROVE  Goal
    <3>. DEFINE x == [next(c) EXCEPT !.call = "shipAgg", !.row = r, !.delta = Quantity(r)]
    <3>1. x.call = "shipAgg"
      BY <2>1 DEF Calls
    <3>2. Follow(c, <<x>>)
      BY <2>2
    <3>. HIDE DEF x
    <3>3. QuietAfter(<<x>>, 0)
      BY <3>1, OfCalls DEF QuietAfter
    <3>. QED  BY <1>6, <2>1, <3>2, <3>3, OfCalls
  <2>. QED  BY <1>4, <1>5, <1>10, <2>1, <2>2 DEF ShipRead
<1>11. ASSUME ShipResolve(c)
       PROVE  Goal
  <2>1. Doing(c, "shipAgg") /\ next(c).qty \in Nat
    BY <1>3, <1>11 DEF ShipResolve
  <2>. DEFINE x == Set(next(c).row, next(c).delta - next(c).qty)
              y == SetAgg(agg - next(c).qty)
              z == Post(next(c).lot, -next(c).qty)
  <2>2. Throw(c) \/ Follow(c, <<x, y, z>>)
    BY <1>11 DEF ShipResolve
  <2>3. x.call = "set" /\ y.call = "setAgg" /\ z.call = "post" /\ y.qty = agg - next(c).qty /\ z.delta = -next(c).qty
    BY DEF Set, SetAgg, Post
  <2>4. y.qty = a + z.delta
    BY <1>1, <2>1, <2>3
  <2>. HIDE DEF x, y, z
  <2>5. ASSUME Follow(c, <<x, y, z>>)
        PROVE  Goal
    <3>. DEFINE list == <<x, y, z>>
    <3>1. list \in Seq({x, y, z}) /\ Len(list) = 2 + 1 /\ list[1] = x /\ list[2] = y /\ list[2 + 1] = z
      BY OfCalls
    <3>2. Follow(c, list)
      BY <2>5
    <3>. HIDE DEF list
    <3>3. \A i \in 1..(2 - 1) : list[i].call \in Plain
      BY <2>3, <3>1
    <3>. QED  BY <1>7, <2>1, <2>3, <2>4, <3>1, <3>2, <3>3
  <2>. QED  BY <1>4, <1>5, <2>1, <2>2, <2>5
<1>12. ASSUME AdjustResolve(c)
       PROVE  Goal
  <2>1. Doing(c, "adjustAgg")
    BY <1>12 DEF AdjustResolve
  <2>. DEFINE x == Put(next(c).lot, NoBin, "available", next(c).qty)
              y == SetAgg(agg + next(c).delta)
              z == Post(next(c).lot, next(c).delta)
  <2>2. Throw(c) \/ Follow(c, <<y, z>>) \/ Follow(c, <<x, y, z>>)
    <3>1. <<>> \o <<y, z>> = <<y, z>> /\ <<x>> \o <<y, z>> = <<x, y, z>>
      BY ConcatOneTwo
    <3>. HIDE DEF x, y, z
    <3>2. Throw(c) \/ Follow(c, (IF next(c).lot = NoLot THEN <<>> ELSE <<x>>) \o <<y, z>>)
      BY <1>12 DEF AdjustResolve, x, y, z
    <3>. QED  BY <3>1, <3>2
  <2>3. x.call = "put" /\ y.call = "setAgg" /\ z.call = "post" /\ y.qty = a + z.delta
    BY DEF Put, SetAgg, Post
  <2>. HIDE DEF x, y, z
  <2>4. ASSUME Follow(c, <<y, z>>)
        PROVE  Goal
    <3>. DEFINE list == <<y, z>>
    <3>1. list \in Seq({y, z}) /\ Len(list) = 1 + 1 /\ list[1] = y /\ list[1 + 1] = z
      BY OfCalls
    <3>2. Follow(c, list)
      BY <2>4
    <3>. HIDE DEF list
    <3>3. \A i \in 1..(1 - 1) : list[i].call \in Plain
      OBVIOUS
    <3>. QED  BY <1>7, <2>1, <2>3, <3>1, <3>2, <3>3
  <2>5. ASSUME Follow(c, <<x, y, z>>)
        PROVE  Goal
    <3>. DEFINE list == <<x, y, z>>
    <3>1. list \in Seq({x, y, z}) /\ Len(list) = 2 + 1 /\ list[1] = x /\ list[2] = y /\ list[2 + 1] = z
      BY OfCalls
    <3>2. Follow(c, list)
      BY <2>5
    <3>. HIDE DEF list
    <3>3. \A i \in 1..(2 - 1) : list[i].call \in Plain
      BY <2>3, <3>1
    <3>. QED  BY <1>7, <2>1, <2>3, <3>1, <3>2, <3>3
  <2>. QED  BY <1>4, <1>5, <2>1, <2>2, <2>4, <2>5
<1>13. ASSUME MoveResolve(c)
       PROVE  Goal
  <2>1. Doing(c, "moveInto")
    BY <1>13 DEF MoveResolve
  <2>2. PICK x, y : (x.call = "set" /\ y.call = "put" /\ Follow(c, <<x, y>>)) \/ Throw(c)
    BY <1>13 DEF MoveResolve, Set, Put
  <2>3. ASSUME x.call = "set", y.call = "put", Follow(c, <<x, y>>)
        PROVE  Goal
    <3>1. QuietAfter(<<x, y>>, 0)
      BY <2>3, OfCalls DEF QuietAfter
    <3>. QED  BY <1>6, <2>1, <2>3, <3>1, OfCalls
  <2>. QED  BY <1>4, <1>5, <2>1, <2>2, <2>3
<1>14. ASSUME LookupRow(c)
       PROVE  Goal
  <2>1. Doing(c, "lookup")
    BY <1>14 DEF LookupRow
  <2>2. PICK x : x.call = "put" /\ Follow(c, <<x>>)
    BY <1>14 DEF LookupRow, Put
  <2>3. QuietAfter(<<x>>, 0)
    BY <2>2, OfCalls DEF QuietAfter
  <2>. QED  BY <1>6, <2>1, <2>2, <2>3, OfCalls
<1>15. ASSUME QuarantineRow(c)
       PROVE  Goal
  <2>1. Doing(c, "quarantine")
    BY <1>15 DEF QuarantineRow
  <2>2. PICK x, y, z : x.call = "put" /\ y.call = "set" /\ z.call = "expire" /\ Follow(c, <<x, y, z>>)
    BY <1>15 DEF QuarantineRow, Put, Set, Expire
  <2>3. QuietAfter(<<x, y, z>>, 0)
    BY <2>2, OfCalls DEF QuietAfter
  <2>. QED  BY <1>6, <2>1, <2>2, <2>3, OfCalls
<1>16. ASSUME PutRow(c)
       PROVE  Goal
  <2>1. Doing(c, "put") /\ next(c) \in Calls /\ todo[c] # <<>> /\ todo[c][1].call = "put"
    BY <1>3, <1>16 DEF PutRow
  <2>2. PICK x : x.call \in {"set", "insert"} /\ Follow(c, <<x>>)
    <3>1. [next(c) EXCEPT !.call = "insert"].call = "insert" /\ \A r : Set(r, next(c).qty).call = "set"
      BY <2>1 DEF Set, Calls
    <3>. DEFINE R == RowsAt(next(c).lot, next(c).bin, next(c).status)
                y == [next(c) EXCEPT !.call = "insert"]
                z(r) == Set(r, next(c).qty)
    <3>2. (\E r \in R : Follow(c, <<z(r)>>)) \/ (R = {} /\ Follow(c, <<y>>))
      BY <1>16 DEF PutRow
    <3>3. y.call = "insert" /\ \A r : z(r).call = "set"
      BY <3>1
    <3>. HIDE DEF R, y, z
    <3>. QED  BY <3>2, <3>3
  <2>3. todo'[c] = <<x>> \o Tail(todo[c])
    BY <2>1, <2>2, GoesOnWith
  <2>. DEFINE list == <<x>>
  <2>4. list \in Seq({x}) /\ Len(list) = 1 /\ list[1] = x
    BY OfCalls
  <2>. HIDE DEF list
  <2>5. \A i \in 1..Len(list) : list[i].call \in Plain
    BY <2>2, <2>4
  <2>6. InStep(list \o Tail(todo[c]), a, p)
    BY <1>1, <2>1, <2>4, <2>5, PlainInStep
  <2>. QED  BY <1>2, <2>3, <2>6 DEF list, Goal
<1>. QED  BY <1>10, <1>11, <1>12, <1>13, <1>14, <1>15, <1>16, Zenon DEF Resolves, Goal

LEMMA WritesInStep ==
  ASSUME StockInv, NEW c \in Callers, Writes(c), InStep(todo[c], agg, posted.all)
  PROVE  InStep(todo'[c], agg', posted'.all)
<1>. DEFINE Goal == InStep(todo'[c], agg', posted'.all)
            a == agg
            p == posted.all
<1>1. todo[c] \in Seq(Calls) /\ a \in Int /\ p \in Int
  BY DEF StockInv, TypeOK
<1>2. ASSUME NEW name, Doing(c, name), Follow(c, <<>>)
      PROVE  /\ todo[c] # <<>> /\ next(c) = todo[c][1] /\ todo[c][1].call = name
             /\ todo[c][1].qty \in Int /\ todo[c][1].delta \in Int
             /\ todo'[c] = <<>> \o Tail(todo[c])
  <2>1. todo[c] # <<>> /\ next(c) = todo[c][1] /\ next(c).call = name /\ next(c).qty \in Nat /\ next(c).delta \in Int
    BY <1>2, HeadSound
  <2>2. todo'[c] = <<>> \o Tail(todo[c])
    BY <1>2, GoesOnWith
  <2>. HIDE DEF Goal
  <2>. QED  BY <2>1, <2>2
<1>3. ASSUME NEW name \in Plain, Doing(c, name), Follow(c, <<>>), agg' = agg, posted' = posted
      PROVE  Goal
  <2>. DEFINE list == <<>>
  <2>1. list \in Seq(Calls) /\ Len(list) = 0
    BY EmptySeq
  <2>2. todo'[c] = list \o Tail(todo[c]) /\ todo[c] # <<>> /\ todo[c][1].call \in Plain
    BY <1>2, <1>3
  <2>. HIDE DEF list
  <2>3. \A i \in 1..Len(list) : list[i].call \in Plain
    BY <2>1
  <2>4. InStep(list \o Tail(todo[c]), a, p)
    BY <1>1, <2>1, <2>2, <2>3, PlainInStep
  <2>. QED  BY <1>3, <2>2, <2>4
<1>4. ASSUME NEW name \in Loud, Doing(c, name), Follow(c, <<>>),
             name = "setAgg" => agg' = next(c).qty /\ posted'.all = posted.all,
             name = "addAgg" => agg' = agg + next(c).qty /\ posted'.all = posted.all,
             name = "post" => agg' = agg /\ posted'.all = posted.all + next(c).delta
      PROVE  Goal
  <2>1. InStep(<<>> \o Tail(todo[c]), agg', posted'.all)
    BY <1>1, <1>2, <1>4, LoudInStep
  <2>. QED  BY <1>2, <1>4, <2>1
<1>. HIDE DEF Goal
<1>5. ASSUME InsertRow(c)
      PROVE  Goal
  BY <1>3, <1>5 DEF InsertRow, Plain
<1>6. ASSUME SetRow(c)
      PROVE  Goal
  BY <1>3, <1>6 DEF SetRow, Plain
<1>7. ASSUME WriteAgg(c)
      PROVE  Goal
  BY <1>4, <1>7 DEF WriteAgg, Loud
<1>8. ASSUME Increment(c)
      PROVE  Goal
  BY <1>4, <1>8 DEF Increment, Loud
<1>9. ASSUME PostEntry(c)
      PROVE  Goal
  BY <1>4, <1>9 DEF PostEntry, Loud
<1>10. ASSUME ExpireLot(c)
       PROVE  Goal
  <2>1. Doing(c, "expire") /\ Follow(c, <<>>) /\ agg' = agg /\ posted' = posted
    BY <1>10 DEF ExpireLot
  <2>2. todo[c] # <<>> /\ todo[c][1].call \notin Plain \cup Loud /\ todo'[c] = <<>> \o Tail(todo[c])
    BY <1>2, <2>1 DEF Plain, Loud
  <2>3. QuietAfter(todo[c], 0) /\ a = p
    BY <1>1, <2>2, QuietInStep
  <2>. DEFINE list == <<>>
  <2>4. list \in Seq(Calls) /\ QuietAfter(list, 0)
    BY EmptySeq DEF QuietAfter
  <2>5. todo'[c] = list \o Tail(todo[c])
    BY <2>2
  <2>. HIDE DEF list
  <2>6. QuietAfter(list \o Tail(todo[c]), 0)
    BY <1>1, <2>2, <2>3, <2>4, QuietFollowed
  <2>. QED  BY <2>1, <2>3, <2>5, <2>6 DEF InStep, Goal
<1>. QED  BY <1>5, <1>6, <1>7, <1>8, <1>9, <1>10, Zenon DEF Writes, Goal

(* The calls of an adjustment that is a part of an approval: the entry is   *)
(* the last.  A request about the count that is not at one has no calls.    *)
Closing(s) ==
  \A i \in 1..Len(s) : /\ s[i].call \in {"adjustAgg", "setAgg", "post"} \cup Plain
                       /\ s[i].call \in {"adjustAgg", "post"} => i = Len(s)
Occupied(d, s) == d.pc = "idle" \/ (d.pc = "adjusting" /\ Closing(s)) \/ s = <<>>
LedgerInv ==
  \A c \in Callers : /\ Occupied(desk[c], todo[c])
                     /\ count.faults = 0 => InStep(todo[c], agg, posted.all)

LEMMA ClosingFollowed ==
  ASSUME NEW S, NEW s \in Seq(S), s # <<>>, Closing(s), NEW R, NEW list \in Seq(R),
         \/ \A i \in 1..Len(list) : list[i].call \in Plain
         \/ Len(s) = 1 /\ Closing(list)
  PROVE  Closing(list \o Tail(s))
<1>. DEFINE t == list \o Tail(s)
            m == Len(list)
            n == Len(s)
<1>0. m = Len(list) /\ n = Len(s) /\ t = list \o Tail(s)
  OBVIOUS
<1>. HIDE DEF t, m, n
<1>1. /\ m \in Nat /\ n \in Nat \ {0} /\ Len(t) = m + n - 1
      /\ \A i \in 1..m : t[i] = list[i]
      /\ \A i \in 1..(m + n - 1) : i \in 1..m \/ (i - m + 1 \in 2..n /\ t[i] = s[i - m + 1])
  BY <1>0, Replaced, SMTT(30)
<1>2. ASSUME NEW i \in 1..Len(t)
      PROVE  /\ t[i].call \in {"adjustAgg", "setAgg", "post"} \cup Plain
             /\ t[i].call \in {"adjustAgg", "post"} => i = Len(t)
  <2>1. CASE i \in 1..m
    <3>1. CASE n = 1 /\ Closing(list)
      BY <1>0, <1>1, <2>1, <3>1 DEF Closing
    <3>2. CASE \A j \in 1..m : list[j].call \in Plain
      BY <1>1, <2>1, <3>2 DEF Plain
    <3>. QED  BY <1>0, <3>1, <3>2
  <2>2. CASE i \notin 1..m
    <3>1. i - m + 1 \in 1..n /\ t[i] = s[i - m + 1]
      BY <1>1, <2>2
    <3>2. t[i].call \in {"adjustAgg", "post"} => i - m + 1 = n
      BY <1>0, <3>1 DEF Closing
    <3>. QED  BY <1>0, <1>1, <3>1, <3>2 DEF Closing
  <2>. QED  BY <2>1, <2>2
<1>. QED  BY <1>0, <1>2 DEF Closing

LEMMA ClosingStep ==
  ASSUME StockInv, NEW c \in Callers, Closing(todo[c]), Resolves(c) \/ InsertRow(c) \/ SetRow(c) \/ WriteAgg(c)
  PROVE  Closing(todo'[c])
<1>. DEFINE Goal == Closing(todo'[c])
<1>1. todo \in [Callers -> Seq(Calls)] /\ todo[c] \in Seq(Calls)
  BY DEF StockInv, TypeOK
<1>2. ASSUME NEW name, Doing(c, name)
      PROVE  /\ todo[c] # <<>> /\ next(c) \in Calls
             /\ name \in {"adjustAgg", "setAgg", "post"} \cup Plain
             /\ name \in {"adjustAgg", "post"} => Len(todo[c]) = 1
  <2>1. /\ todo[c] # <<>> /\ Sound(next(c), DOMAIN rows) /\ next(c).call = name
        /\ next(c) = todo[c][1] /\ Len(todo[c]) \in Nat \ {0}
    BY <1>2, HeadSound
  <2>2. 1 \in 1..Len(todo[c])
    BY <2>1
  <2>. QED  BY <2>1, <2>2 DEF Closing, Sound
<1>3. ASSUME Throw(c)
      PROVE  Goal
  BY <1>1, <1>3, EmptySeq DEF Throw, Closing
<1>4. ASSUME NEW name, Doing(c, name), NEW R, NEW list \in Seq(R), Follow(c, list),
             \/ \A i \in 1..Len(list) : list[i].call \in Plain
             \/ Len(todo[c]) = 1 /\ Closing(list)
      PROVE  Goal
  <2>1. todo'[c] = list \o Tail(todo[c]) /\ todo[c] # <<>>
    BY <1>2, <1>4, GoesOnWith
  <2>2. Closing(list \o Tail(todo[c]))
    BY <1>1, <1>4, <2>1, ClosingFollowed
  <2>. QED  BY <2>1, <2>2
<1>5. ASSUME NEW name, Doing(c, name), Follow(c, <<>>)
      PROVE  Goal
  <2>. DEFINE list == <<>>
  <2>1. list \in Seq(Calls) /\ \A i \in 1..Len(list) : list[i].call \in Plain
    BY EmptySeq
  <2>2. Follow(c, list)
    BY <1>5
  <2>. HIDE DEF list, Goal
  <2>. QED  BY <1>4, <1>5, <2>1, <2>2
<1>. HIDE DEF Goal
<1>6. ASSUME AdjustResolve(c)
      PROVE  Goal
  <2>1. Doing(c, "adjustAgg") /\ Len(todo[c]) = 1
    BY <1>2, <1>6 DEF AdjustResolve
  <2>. DEFINE x == Put(next(c).lot, NoBin, "available", next(c).qty)
              y == SetAgg(agg + next(c).delta)
              z == Post(next(c).lot, next(c).delta)
  <2>2. Throw(c) \/ Follow(c, <<y, z>>) \/ Follow(c, <<x, y, z>>)
    <3>1. <<>> \o <<y, z>> = <<y, z>> /\ <<x>> \o <<y, z>> = <<x, y, z>>
      BY ConcatOneTwo
    <3>. HIDE DEF x, y, z
    <3>2. Throw(c) \/ Follow(c, (IF next(c).lot = NoLot THEN <<>> ELSE <<x>>) \o <<y, z>>)
      BY <1>6 DEF AdjustResolve, x, y, z
    <3>. QED  BY <3>1, <3>2
  <2>3. x.call = "put" /\ y.call = "setAgg" /\ z.call = "post"
    BY DEF Put, SetAgg, Post, Blank
  <2>. HIDE DEF x, y, z
  <2>4. Closing(<<y, z>>) /\ Closing(<<x, y, z>>)
    BY <2>3, OfCalls DEF Closing, Plain
  <2>5. <<y, z>> \in Seq({y, z}) /\ <<x, y, z>> \in Seq({x, y, z})
    BY OfCalls
  <2>. QED  BY <1>3, <1>4, <2>1, <2>2, <2>4, <2>5
<1>7. ASSUME PutRow(c)
      PROVE  Goal
  <2>. DEFINE R == RowsAt(next(c).lot, next(c).bin, next(c).status)
              y == [next(c) EXCEPT !.call = "insert"]
              z(r) == Set(r, next(c).qty)
  <2>1. Doing(c, "put") /\ ((\E r \in R : Follow(c, <<z(r)>>)) \/ (R = {} /\ Follow(c, <<y>>)))
    BY <1>7 DEF PutRow
  <2>2. y.call \in Plain /\ \A r : z(r).call \in Plain
    BY <1>2, <2>1 DEF Set, Blank, Calls, Plain
  <2>. HIDE DEF R, y, z
  <2>3. PICK x : x.call \in Plain /\ Follow(c, <<x>>)
    BY <2>1, <2>2
  <2>4. \A i \in 1..Len(<<x>>) : <<x>>[i].call \in Plain
    BY <2>3, OfCalls
  <2>5. <<x>> \in Seq({x})
    BY OfCalls
  <2>. QED  BY <1>4, <2>1, <2>3, <2>4, <2>5
<1>8. ASSUME InsertRow(c) \/ SetRow(c) \/ WriteAgg(c)
      PROVE  Goal
  BY <1>5, <1>8 DEF InsertRow, SetRow, WriteAgg
<1>9. ~ShipRead(c) /\ ~ShipResolve(c) /\ ~MoveResolve(c) /\ ~LookupRow(c) /\ ~QuarantineRow(c)
  <2>1. ~Doing(c, "ship") /\ ~Doing(c, "shipAgg") /\ ~Doing(c, "moveInto") /\ ~Doing(c, "lookup")
        /\ ~Doing(c, "quarantine")
    BY <1>2 DEF Plain
  <2>. QED  BY <2>1, Zenon DEF ShipRead, ShipResolve, MoveResolve, LookupRow, QuarantineRow
<1>. QED  BY <1>6, <1>7, <1>8, <1>9, Zenon DEF Resolves, Goal

LEMMA LedgerStep ==
  ASSUME CountInv, CountInv', LedgerInv, NEW c \in Callers, \A e \in Callers : e = c,
         CountStep(c) \/ (StockStep(c) /\ UNCHANGED countVars) \/ UNCHANGED <<vars, countVars>>
  PROVE  LedgerInv'
<1>. DEFINE Goal == LedgerInv'
            d == desk[c]
            f == count.faults
<1>1. StockInv /\ StockInv' /\ f \in Nat /\ todo \in [Callers -> Seq(Calls)]
      /\ count \in [calls : Nat, faults : Nat, made : Nat, adjusted : BOOLEAN] /\ desk \in [Callers -> DeskType]
  BY DEF CountInv, StockInv, TypeOK
<1>2. Occupied(d, todo[c]) /\ (f = 0 => InStep(todo[c], agg, posted.all))
  BY DEF LedgerInv
<1>3. ASSUME Occupied(desk'[c], todo'[c]), f' = 0 => InStep(todo'[c], agg', posted'.all)
      PROVE  Goal
  BY <1>3, Zenon DEF LedgerInv
<1>. HIDE DEF Goal
<1>4. ASSUME todo[c] = <<>>, todo' = todo, agg' = agg, posted' = posted, f' = f
      PROVE  Goal
  <2>1. Occupied(desk'[c], todo'[c])
    BY <1>4 DEF Occupied
  <2>. QED  BY <1>2, <1>3, <1>4, <2>1
<1>5. UNCHANGED vars => todo' = todo /\ agg' = agg /\ posted' = posted /\ f' = f
  BY DEF vars
<1>6. ASSUME StockStep(c), UNCHANGED countVars
      PROVE  Goal
  <2>1. desk' = desk
    BY <1>6 DEF countVars
  <2>2. f' = 0 => InStep(todo'[c], agg', posted'.all)
    <3>1. ASSUME f' = 0
          PROVE  InStep(todo'[c], agg', posted'.all)
      <4>1. f = 0
        BY <1>1, <1>6, <3>1, FaultsGrow
      <4>2. ~CutShort(c)
        BY <1>1, <3>1, <4>1 DEF CutShort
      <4>3. Starts(c) \/ Resolves(c) \/ Writes(c)
        BY <1>6, <4>2, Zenon DEF StockStep, Writes
      <4>. QED  BY <1>1, <1>2, <4>1, <4>3, StartsInStep, ResolvesInStep, WritesInStep
    <3>. QED  BY <3>1
  <2>3. Occupied(d, todo'[c])
    <3>1. CASE d.pc = "idle"
      BY <3>1 DEF Occupied
    <3>2. CASE d.pc = "adjusting" /\ Closing(todo[c])
      <4>1. d # IdleDesk
        BY <3>2 DEF IdleDesk
      <4>2. Resolves(c) \/ InsertRow(c) \/ SetRow(c) \/ WriteAgg(c) \/ CutShort(c)
        BY <1>6, <4>1, Zenon DEF StockStep
      <4>3. CutShort(c) => todo'[c] = <<>>
        BY <1>1 DEF CutShort, Throw
      <4>4. Closing(todo'[c]) \/ todo'[c] = <<>>
        BY <1>1, <3>2, <4>2, <4>3, ClosingStep
      <4>. QED  BY <3>2, <4>4 DEF Occupied
    <3>3. CASE d.pc \notin {"idle", "adjusting"} /\ todo[c] = <<>>
      <4>1. d # IdleDesk /\ ~Does(c, "adjusting")
        BY <3>3 DEF IdleDesk, Does
      <4>2. Resolves(c) \/ CutShort(c)
        BY <1>6, <4>1, Zenon DEF StockStep
      <4>3. \A name : ~Doing(c, name)
        BY <3>3 DEF Doing
      <4>. QED
        BY <3>3, <4>2, <4>3
        DEF Resolves, ShipRead, ShipResolve, AdjustResolve, MoveResolve, LookupRow, QuarantineRow, PutRow, CutShort
    <3>4. CASE d.pc = "adjusting" /\ todo[c] = <<>>
      <4>1. Len(<<>>) = 0
        BY EmptySeq
      <4>2. Closing(todo[c])
        BY <3>4, <4>1 DEF Closing
      <4>. QED  BY <3>2, <3>4, <4>2
    <3>. QED  BY <1>2, <3>1, <3>2, <3>3, <3>4 DEF Occupied
  <2>. QED  BY <1>3, <2>1, <2>2, <2>3
<1>7. ASSUME UNCHANGED <<vars, countVars>>
      PROVE  Goal
  <2>1. UNCHANGED vars /\ desk' = desk
    BY <1>7 DEF countVars
  <2>. QED  BY <1>2, <1>3, <1>5, <2>1
<1>8. ASSUME todo[c] = <<>>, UNCHANGED vars
      PROVE  Goal
  BY <1>4, <1>5, <1>8
<1>9. d.pc \notin {"idle", "adjusting"} => todo[c] = <<>>
  BY <1>2 DEF Occupied
<1>10. Free(c) => todo[c] = <<>>
  BY DEF Free, IsIdle
<1>11. ASSUME \/ Create(c) \/ BeginGenerate(c) \/ ClearPending(c) \/ ReadBalances(c) \/ ReadAggregate(c)
              \/ InsertLines(c) \/ BeginRecord(c) \/ WriteRecord(c) \/ FlagForRecount(c)
              \/ BeginMove(c) \/ ReadLines(c) \/ WriteStatus(c) \/ SkipLine(c) \/ StampLine(c)
       PROVE  Goal
  <2>1. UNCHANGED vars
    BY <1>11 DEF Create, BeginGenerate, ClearPending, ReadBalances, ReadAggregate, InsertLines, BeginRecord,
                 WriteRecord, FlagForRecount, BeginMove, ReadLines, WriteStatus, SkipLine, StampLine
  <2>2. todo[c] = <<>>
    BY <1>9, <1>10, <1>11
    DEF Create, BeginGenerate, ClearPending, ReadBalances, ReadAggregate, InsertLines, BeginRecord,
        WriteRecord, FlagForRecount, BeginMove, ReadLines, WriteStatus, SkipLine, StampLine, Does
  <2>. QED  BY <1>8, <2>1, <2>2
<1>12. ASSUME PostVariance(c)
       PROVE  Goal
  <2>1. d.pc = "post" /\ todo[c] = <<>> /\ agg' = agg /\ posted' = posted
    BY <1>9, <1>12 DEF PostVariance, Does
  <2>2. f' = f
    BY <1>1, <1>12 DEF PostVariance
  <2>3. CASE todo' = todo
    BY <1>4, <2>1, <2>2, <2>3
  <2>4. CASE todo' # todo
    <3>1. PICK current : Turns(c, "adjusting") /\
            todo' = [todo EXCEPT ![c] = <<Adjustment(Head(d.left).lot, Head(d.left).variance, current)>>]
      BY <1>12, <2>4 DEF PostVariance
    <3>. DEFINE x == Adjustment(Head(d.left).lot, Head(d.left).variance, current)
    <3>2. x.call = "adjustAgg"
      BY DEF Adjustment, Blank
    <3>3. todo'[c] = <<x>> /\ desk'[c].pc = "adjusting"
      BY <1>1, <3>1 DEF Turns, DeskType
    <3>. HIDE DEF x
    <3>4. Closing(<<x>>) /\ QuietAfter(<<x>>, 0)
      BY <3>2, OfCalls DEF Closing, QuietAfter, Loud
    <3>5. Len(<<>>) = 0
      BY EmptySeq
    <3>6. f = 0 => agg = posted.all
      BY <1>2, <2>1, <3>5 DEF InStep
    <3>. QED  BY <1>3, <2>1, <2>2, <3>3, <3>4, <3>6 DEF Occupied, InStep
  <2>. QED  BY <2>3, <2>4
<1>13. ASSUME PostedLine(c)
       PROVE  Goal
  <2>1. d.pc = "adjusting" /\ PostEntry(c) /\ Doing(c, "post") /\ Follow(c, <<>>) /\ f' = f
    BY <1>13 DEF PostedLine, PostEntry, Does
  <2>2. /\ todo[c] # <<>> /\ next(c).call = "post" /\ next(c) = todo[c][1] /\ Len(todo[c]) \in Nat \ {0}
        /\ todo[c] \in Seq(Calls)
    BY <1>1, <2>1, HeadSound
  <2>3. Len(todo[c]) = 1
    <3>1. Closing(todo[c])
      BY <1>2, <2>1, <2>2 DEF Occupied
    <3>2. 1 \in 1..Len(todo[c])
      BY <2>2
    <3>. QED  BY <2>2, <3>1, <3>2 DEF Closing
  <2>4. todo'[c] = <<>> \o Tail(todo[c])
    BY <1>1, <2>1, GoesOnWith
  <2>5. Len(Tail(todo[c])) = 0 /\ Tail(todo[c]) \in Seq(Calls)
    BY <2>2, <2>3, HeadTailProperties
  <2>6. todo'[c] = <<>>
    <3>1. Tail(todo[c]) = <<>>
      BY <2>5, EmptySeq
    <3>2. <<>> \o <<>> = <<>>
      OBVIOUS
    <3>. QED  BY <2>4, <3>1, <3>2
  <2>7. f = 0 => InStep(todo'[c], agg', posted'.all)
    BY <1>1, <1>2, <2>1, WritesInStep DEF Writes
  <2>. QED  BY <1>3, <2>1, <2>6, <2>7 DEF Occupied
<1>14. ASSUME RequestFails(c)
       PROVE  Goal
  <2>1. f' = f + 1 /\ todo'[c] = <<>>
    BY <1>1, <1>14 DEF RequestFails, Throw
  <2>. QED  BY <1>1, <1>3, <2>1 DEF Occupied
<1>. QED  BY <1>6, <1>7, <1>11, <1>12, <1>13, <1>14, Zenon DEF CountStep, Goal

LEMMA LedgerInvInit == CountInit => LedgerInv
<1>. SUFFICES ASSUME CountInit, NEW c \in Callers
              PROVE  Occupied(desk[c], todo[c]) /\ InStep(todo[c], agg, posted.all)
  BY DEF LedgerInv
<1>1. todo[c] = <<>> /\ agg = 0 /\ posted.all = 0
  BY DEF CountInit, Init
<1>2. Len(<<>>) = 0
  BY EmptySeq
<1>. QED  BY <1>1, <1>2 DEF Occupied, InStep, QuietAfter

THEOREM LedgerInvariant ==
  ASSUME OneCaller
  PROVE  CountSpec => [](CountInv /\ LedgerInv)
<1>1. CountInit => CountInv /\ LedgerInv
  BY CountInvInit, LedgerInvInit
<1>2. CountInv /\ LedgerInv /\ [CountNext]_<<vars, countVars>> => (CountInv /\ LedgerInv)'
  <2>. SUFFICES ASSUME CountInv, LedgerInv, [CountNext]_<<vars, countVars>>
                PROVE  (CountInv /\ LedgerInv)'
    OBVIOUS
  <2>1. CountInv'
    BY CountInvStep
  <2>2. ASSUME NEW c \in Callers
        PROVE  LedgerInv'
    <3>1. \A e \in Callers : e = c
      BY DEF OneCaller
    <3>2. CountStep(c) \/ (StockStep(c) /\ UNCHANGED countVars) \/ UNCHANGED <<vars, countVars>>
      BY <3>1, Zenon DEF CountNext
    <3>. QED  BY <2>1, <3>1, <3>2, LedgerStep
  <2>. QED  BY <2>1, <2>2, Zenon DEF LedgerInv
<1>. QED  BY <1>1, <1>2, PTL DEF CountSpec

(* With one request at a time, and none cut short, whenever no call is in   *)
(* progress the aggregate is what the ledger shows: shipInventory,          *)
(* adjustInventoryQuantity and createWorkOrderOutput write the one and      *)
(* enter in the other the same quantity, alone or as a part of an approval. *)
THEOREM AggregateAttributable ==
  ASSUME OneCaller, Callers # {}
  PROVE  CountSpec => []StockAttributable
<1>1. PICK c \in Callers : TRUE
  OBVIOUS
<1>2. LedgerInv => StockAttributable
  <2>1. Len(<<>>) = 0
    BY EmptySeq
  <2>. QED  BY <1>1, <2>1 DEF LedgerInv, StockAttributable, Quiescent, InStep
<1>. QED  BY <1>2, LedgerInvariant, PTL

-----------------------------------------------------------------------------
(* What the rows hold: all of them, and those of a lot in a bin and status. *)

Distinct(rs) ==
  \A r, s \in DOMAIN rs : rs[r].lot = rs[s].lot /\ rs[r].bin = rs[s].bin /\ rs[r].status = rs[s].status => r = s
QtyOf(rs) == [r \in DOMAIN rs |-> rs[r].qty]
AllOf(rs) == Total(DOMAIN rs, QtyOf(rs))
RowsIn(rs, l, b, s) == {r \in DOMAIN rs : rs[r].lot = l /\ rs[r].bin = b /\ rs[r].status = s}
Held(rs, l, b, s) == Total(RowsIn(rs, l, b, s), QtyOf(rs))

LEMMA RowsOfType ==
  ASSUME NEW rs \in Seq(Row)
  PROVE  /\ DOMAIN rs = 1..Len(rs) /\ Len(rs) \in Nat /\ IsFiniteSet(DOMAIN rs)
         /\ \A r \in DOMAIN rs : rs[r] \in Row /\ QtyOf(rs)[r] = rs[r].qty /\ rs[r].qty \in Nat
<1>1. DOMAIN rs = 1..Len(rs) /\ Len(rs) \in Nat /\ \A r \in DOMAIN rs : rs[r] \in Row
  BY LenProperties, ElementOfSeq
<1>2. IsFiniteSet(DOMAIN rs)
  BY <1>1, FS_Interval
<1>. QED  BY <1>1, <1>2 DEF Row, QtyOf

LEMMA HeldType ==
  ASSUME NEW rs \in Seq(Row), NEW l, NEW b, NEW s
  PROVE  Held(rs, l, b, s) \in Nat
<1>1. RowsIn(rs, l, b, s) \in SUBSET DOMAIN rs
  BY DEF RowsIn
<1>2. IsFiniteSet(RowsIn(rs, l, b, s)) /\ \A r \in RowsIn(rs, l, b, s) : QtyOf(rs)[r] \in Nat
  BY <1>1, RowsOfType, FS_Subset
<1>. QED  BY <1>2, TotalType DEF Held

LEMMA AllType ==
  ASSUME NEW rs \in Seq(Row)
  PROVE  AllOf(rs) \in Nat
BY RowsOfType, TotalType DEF AllOf

LEMMA HeldNone ==
  ASSUME NEW rs, NEW l, NEW b, NEW s, RowsIn(rs, l, b, s) = {}
  PROVE  Held(rs, l, b, s) = 0
BY TotalEmpty DEF Held

LEMMA HeldOne ==
  ASSUME NEW rs \in Seq(Row), Distinct(rs), NEW l, NEW b, NEW s, NEW r \in RowsIn(rs, l, b, s)
  PROVE  Held(rs, l, b, s) = rs[r].qty
<1>. DEFINE none == {}
            q == QtyOf(rs)
<1>1. r \in DOMAIN rs /\ q[r] = rs[r].qty /\ rs[r].qty \in Nat
  BY RowsOfType DEF RowsIn
<1>2. RowsIn(rs, l, b, s) = none \cup {r}
  BY DEF RowsIn, Distinct
<1>3. IsFiniteSet(none) /\ r \notin none /\ (\A y \in none \cup {r} : q[y] \in Nat)
  BY <1>1, FS_EmptySet
<1>4. Total(none, q) = 0
  BY TotalEmpty
<1>. HIDE DEF none, q
<1>5. Total(none \cup {r}, q) = 0 + q[r]
  BY <1>3, <1>4, TotalAdd
<1>. QED  BY <1>1, <1>2, <1>5 DEF Held, q

LEMMA AllAppend ==
  ASSUME NEW rs \in Seq(Row), NEW x \in Row
  PROVE  /\ AllOf(Append(rs, x)) = AllOf(rs) + x.qty
         /\ DOMAIN Append(rs, x) = DOMAIN rs \cup {Len(rs) + 1} /\ Len(rs) + 1 \notin DOMAIN rs
         /\ Append(rs, x)[Len(rs) + 1] = x /\ \A r \in DOMAIN rs : Append(rs, x)[r] = rs[r]
<1>. DEFINE n == Len(rs) + 1
            t == Append(rs, x)
            q == QtyOf(t)
<1>1. DOMAIN rs = 1..Len(rs) /\ Len(rs) \in Nat /\ IsFiniteSet(DOMAIN rs)
      /\ \A r \in DOMAIN rs : QtyOf(rs)[r] = rs[r].qty /\ rs[r].qty \in Nat
  BY RowsOfType
<1>2. t \in Seq(Row) /\ Len(t) = n /\ t[n] = x /\ \A r \in 1..Len(rs) : t[r] = rs[r]
  BY AppendProperties
<1>. HIDE DEF t
<1>3. DOMAIN t = 1..Len(t) /\ \A r \in DOMAIN t : q[r] = t[r].qty /\ t[r].qty \in Nat
  BY <1>2, RowsOfType
<1>4. DOMAIN t = DOMAIN rs \cup {n} /\ n \notin DOMAIN rs
  BY <1>1, <1>2, <1>3
<1>. HIDE DEF n, q
<1>5. (\A r \in DOMAIN rs : q[r] = QtyOf(rs)[r]) /\ q[n] = x.qty /\ \A r \in DOMAIN rs \cup {n} : q[r] \in Nat
  BY <1>1, <1>2, <1>3, <1>4
<1>6. Total(DOMAIN rs \cup {n}, q) = Total(DOMAIN rs, q) + q[n]
  BY <1>1, <1>4, <1>5, TotalAdd
<1>7. Total(DOMAIN rs, q) = Total(DOMAIN rs, QtyOf(rs))
  BY <1>5, TotalSame
<1>8. AllOf(t) = AllOf(rs) + x.qty
  BY <1>4, <1>5, <1>6, <1>7 DEF AllOf, q
<1>. QED  BY <1>1, <1>2, <1>4, <1>8 DEF t, n

Written(rs, r, v, t) == t = [rs EXCEPT ![r].qty = v]

LEMMA AllSet ==
  ASSUME NEW rs \in Seq(Row), NEW r \in DOMAIN rs, NEW v \in Nat, NEW t, Written(rs, r, v, t)
  PROVE  /\ t \in Seq(Row) /\ DOMAIN t = DOMAIN rs
         /\ AllOf(t) = AllOf(rs) - rs[r].qty + v
         /\ t[r].qty = v /\ \A s \in DOMAIN rs : s # r => t[s] = rs[s]
         /\ \A s \in DOMAIN rs : t[s].lot = rs[s].lot /\ t[s].bin = rs[s].bin /\ t[s].status = rs[s].status
<1>1. DOMAIN rs = 1..Len(rs) /\ Len(rs) \in Nat /\ IsFiniteSet(DOMAIN rs)
      /\ \A s \in DOMAIN rs : rs[s] \in Row /\ QtyOf(rs)[s] = rs[s].qty /\ rs[s].qty \in Nat
  BY RowsOfType
<1>2. t = [rs EXCEPT ![r] = [rs[r] EXCEPT !.qty = v]]
  BY <1>1 DEF Written
<1>3. [rs[r] EXCEPT !.qty = v] \in Row /\ rs \in [1..Len(rs) -> Row]
  BY <1>1 DEF Row
<1>4. t \in Seq(Row) /\ DOMAIN t = DOMAIN rs /\ t[r] = [rs[r] EXCEPT !.qty = v]
      /\ \A s \in DOMAIN rs : s # r => t[s] = rs[s]
  BY <1>1, <1>2, <1>3, ExceptSeq
<1>5. t[r].qty = v /\ t[r].lot = rs[r].lot /\ t[r].bin = rs[r].bin /\ t[r].status = rs[r].status
  BY <1>1, <1>4 DEF Row
<1>6. \A s \in DOMAIN rs : t[s].lot = rs[s].lot /\ t[s].bin = rs[s].bin /\ t[s].status = rs[s].status
  BY <1>4, <1>5
<1>7. \A s \in DOMAIN rs : QtyOf(t)[s] = t[s].qty /\ t[s].qty \in Nat
  BY <1>4, RowsOfType
<1>8. (\A s \in DOMAIN rs : QtyOf(rs)[s] \in Nat /\ QtyOf(t)[s] \in Nat)
      /\ \A s \in DOMAIN rs \ {r} : QtyOf(t)[s] = QtyOf(rs)[s]
  <2>1. \A s \in DOMAIN rs : QtyOf(rs)[s] \in Nat /\ QtyOf(t)[s] \in Nat
    BY <1>1, <1>7
  <2>2. ASSUME NEW s \in DOMAIN rs, s # r
        PROVE  QtyOf(t)[s] = QtyOf(rs)[s]
    <3>1. t[s].qty = rs[s].qty
      BY <1>4, <2>2
    <3>. QED  BY <1>1, <1>7, <3>1
  <2>. QED  BY <2>1, <2>2
<1>. DEFINE q == QtyOf(rs)
            u == QtyOf(t)
            D == DOMAIN rs
<1>9. (\A s \in D : q[s] \in Nat /\ u[s] \in Nat) /\ (\A s \in D \ {r} : u[s] = q[s]) /\ IsFiniteSet(D) /\ r \in D
  BY <1>1, <1>8
<1>. HIDE DEF q, u, D
<1>10. Total(D, u) = Total(D, q) - q[r] + u[r]
  BY <1>9, TotalChange
<1>11. AllOf(t) = AllOf(rs) - rs[r].qty + v
  BY <1>1, <1>4, <1>5, <1>7, <1>10 DEF AllOf, q, u, D
<1>. QED  BY <1>4, <1>5, <1>6, <1>11

-----------------------------------------------------------------------------
(* What a list has behind its m-th call, another has behind its n-th.       *)
Behind(t, m, s, n) ==
  /\ m \in Nat /\ n \in Nat /\ Len(t) \in Nat /\ Len(s) \in Nat
  /\ n <= Len(s) /\ Len(t) - m = Len(s) - n
  /\ \A i \in 1..(Len(s) - n) : t[m + i] = s[n + i]

LEMMA RestBehind ==
  ASSUME NEW S, NEW s \in Seq(S), s # <<>>, NEW R, NEW list \in Seq(R)
  PROVE  /\ Behind(list \o Tail(s), Len(list), s, 1)
         /\ Len(list) \in Nat /\ Len(s) \in Nat /\ Len(s) >= 1 /\ Len(list \o Tail(s)) = Len(list) + Len(s) - 1
         /\ \A i \in 1..Len(list) : (list \o Tail(s))[i] = list[i]
<1>. DEFINE n == Len(s)
            m == Len(list)
            t == list \o Tail(s)
<1>0. m = Len(list) /\ n = Len(s) /\ t = list \o Tail(s)
  OBVIOUS
<1>. HIDE DEF n, m, t
<1>1. /\ m \in Nat /\ n \in Nat \ {0} /\ Len(t) = m + n - 1
      /\ \A i \in 1..m : t[i] = list[i]
      /\ \A i \in 1..n : i # 1 => t[m + i - 1] = s[i]
  BY <1>0, Replaced, SMTT(30)
<1>2. ASSUME NEW i \in 1..(n - 1)
      PROVE  t[m + i] = s[1 + i]
  <2>1. 1 + i \in 1..n /\ 1 + i # 1 /\ m + (1 + i) - 1 = m + i
    BY <1>1
  <2>. QED  BY <1>1, <2>1
<1>. QED  BY <1>0, <1>1, <1>2 DEF Behind

LEMMA BehindNext ==
  ASSUME NEW t, NEW m, NEW s, NEW n, Behind(t, m, s, n), n + 1 \in 1..Len(s)
  PROVE  Behind(t, m + 1, s, n + 1) /\ m + 1 \in 1..Len(t) /\ t[m + 1] = s[n + 1]
<1>1. /\ m \in Nat /\ n \in Nat /\ Len(t) \in Nat /\ Len(s) \in Nat /\ n + 1 <= Len(s) /\ Len(t) - m = Len(s) - n
      /\ \A i \in 1..(Len(s) - n) : t[m + i] = s[n + i]
  BY DEF Behind
<1>2. ASSUME NEW i \in 1..(Len(s) - (n + 1))
      PROVE  t[(m + 1) + i] = s[(n + 1) + i]
  <2>1. i + 1 \in 1..(Len(s) - n) /\ m + (i + 1) = (m + 1) + i /\ n + (i + 1) = (n + 1) + i
    BY <1>1
  <2>. QED  BY <1>1, <2>1, SMTT(20)
<1>3. 1 \in 1..(Len(s) - n)
  BY <1>1
<1>. QED  BY <1>1, <1>2, <1>3 DEF Behind

LEMMA BehindSame ==
  ASSUME NEW t, NEW m, NEW s, NEW n, Behind(t, m, s, n), NEW i \in 1..Len(t), i > m
  PROVE  i - m + n \in 1..Len(s) /\ i - m + n > n /\ t[i] = s[i - m + n]
<1>1. /\ m \in Nat /\ n \in Nat /\ Len(t) \in Nat /\ Len(s) \in Nat /\ Len(t) - m = Len(s) - n
      /\ \A j \in 1..(Len(s) - n) : t[m + j] = s[n + j]
  BY DEF Behind
<1>2. i - m \in 1..(Len(s) - n) /\ m + (i - m) = i /\ n + (i - m) = i - m + n
  BY <1>1
<1>. QED  BY <1>1, <1>2, SMTT(20)

-----------------------------------------------------------------------------
(* With one caller, rows differ in lot, bin or status, what a handler has   *)
(* just read is still so, and it reads again before it depends on more.     *)

LotRows(rs, l, s) == {r \in DOMAIN rs : rs[r].lot = l /\ rs[r].status = s}
Found(rs, l, s, v) == (LotRows(rs, l, s) = {} /\ v = 0) \/ \E r \in LotRows(rs, l, s) : v = rs[r].qty
JustRead == {"insert", "shipAgg", "moveInto", "adjustAgg"}
Fresh(rs, k) ==
  /\ k.call = "insert" => RowsIn(rs, k.lot, k.bin, k.status) = {}
  /\ k.call = "shipAgg" => rs[k.row].qty = k.delta
  /\ k.call = "moveInto" => rs[k.row].qty - k.qty = k.delta
  /\ k.call = "adjustAgg" /\ k.lot # NoLot => Found(rs, k.lot, "available", k.qty - k.delta)
UpToDate(rs, s) ==
  \A i \in 1..Len(s) : (i = 1 /\ Fresh(rs, s[1])) \/ s[i].call \notin JustRead
RowsInv == Distinct(rows) /\ \A c \in Callers : UpToDate(rows, todo[c])

LEMMA RowsSame ==
  /\ \A l, b, s : RowsAt(l, b, s) = RowsIn(rows, l, b, s)
  /\ \A l, s : RowsOf(l, s) = LotRows(rows, l, s)
  /\ \A l, s, v : v \in AnyQuantity(RowsOf(l, s)) => Found(rows, l, s, v)
BY DEF RowsAt, RowsOf, RowsIn, LotRows, AnyQuantity, Found, Quantity

LEMMA LastingFresh ==
  ASSUME NEW rs, NEW k, k.call \notin JustRead
  PROVE  Fresh(rs, k)
BY DEF Fresh, JustRead

LEMMA UpToDateFollowed ==
  ASSUME NEW S, NEW s \in Seq(S), s # <<>>, NEW rs, UpToDate(rs, s), NEW us,
         NEW R, NEW list \in Seq(R),
         \A i \in 1..Len(list) : (i = 1 /\ Fresh(us, list[1])) \/ list[i].call \notin JustRead
  PROVE  UpToDate(us, list \o Tail(s))
<1>. DEFINE t == list \o Tail(s)
            m == Len(list)
<1>0. m = Len(list) /\ t = list \o Tail(s)
  OBVIOUS
<1>1. /\ Behind(t, m, s, 1) /\ m \in Nat /\ Len(s) \in Nat /\ Len(s) >= 1 /\ Len(t) = m + Len(s) - 1
      /\ \A i \in 1..m : t[i] = list[i]
  BY RestBehind
<1>. HIDE DEF t, m
<1>2. ASSUME NEW i \in 1..Len(t)
      PROVE  (i = 1 /\ Fresh(us, t[1])) \/ t[i].call \notin JustRead
  <2>1. CASE i <= m
    BY <1>0, <1>1, <2>1
  <2>2. CASE i > m
    <3>1. i - m + 1 \in 1..Len(s) /\ i - m + 1 > 1 /\ t[i] = s[i - m + 1]
      BY <1>1, <2>2, BehindSame
    <3>2. i - m + 1 # 1
      BY <3>1
    <3>. QED  BY <3>1, <3>2 DEF UpToDate
  <2>. QED  BY <1>1, <2>1, <2>2
<1>. QED  BY <1>0, <1>2 DEF UpToDate

LEMMA NothingFollowed ==
  ASSUME StockInv, NEW c \in Callers, NEW name, Doing(c, name), UpToDate(rows, todo[c]), NEW us, Follow(c, <<>>)
  PROVE  UpToDate(us, todo'[c])
<1>. DEFINE list == <<>>
<1>1. list \in Seq(Calls) /\ Len(list) = 0
  BY EmptySeq
<1>2. todo'[c] = list \o Tail(todo[c]) /\ todo[c] # <<>> /\ todo[c] \in Seq(Calls)
  <2>1. Follow(c, list)
    OBVIOUS
  <2>. HIDE DEF list
  <2>2. todo'[c] = list \o Tail(todo[c])
    BY <2>1, GoesOnWith
  <2>. QED  BY <2>2, HeadSound DEF StockInv, TypeOK
<1>. HIDE DEF list
<1>3. \A i \in 1..Len(list) : (i = 1 /\ Fresh(us, list[1])) \/ list[i].call \notin JustRead
  BY <1>1
<1>. QED  BY <1>1, <1>2, <1>3, UpToDateFollowed

LEMMA WritesRows ==
  ASSUME StockInv, NEW c \in Callers, Writes(c), RowsInv
  PROVE  Distinct(rows') /\ UpToDate(rows', todo'[c])
<1>. DEFINE Goal == Distinct(rows') /\ UpToDate(rows', todo'[c])
<1>1. rows \in Seq(Row) /\ UpToDate(rows, todo[c]) /\ Distinct(rows) /\ todo[c] \in Seq(Calls)
  BY DEF StockInv, TypeOK, Row, RowsInv
<1>2. ASSUME NEW name, Doing(c, name), Follow(c, <<>>)
      PROVE  UpToDate(rows', todo'[c])
  BY <1>1, <1>2, NothingFollowed
<1>3. ASSUME NEW name, Doing(c, name), Follow(c, <<>>), rows' = rows
      PROVE  Goal
  BY <1>1, <1>2, <1>3
<1>. HIDE DEF Goal
<1>4. ASSUME InsertRow(c)
      PROVE  Goal
  <2>. DEFINE k == next(c)
              x == [lot |-> k.lot, bin |-> k.bin, status |-> k.status, qty |-> k.qty]
              n == Len(rows) + 1
  <2>1. Doing(c, "insert") /\ rows' = Append(rows, x) /\ Follow(c, <<>>)
    BY <1>4 DEF InsertRow
  <2>2. /\ todo[c] # <<>> /\ Sound(k, DOMAIN rows) /\ k.call = "insert" /\ k = todo[c][1] /\ Len(todo[c]) \in Nat \ {0}
        /\ k.bin \in Places /\ k.status \in Statuses /\ k.qty \in Nat
    BY <2>1, HeadSound
  <2>3. k.lot \in Lots
    BY <2>2 DEF Sound, WithLot
  <2>4. x \in Row /\ x.lot = k.lot /\ x.bin = k.bin /\ x.status = k.status
    BY <2>2, <2>3 DEF Row
  <2>5. Fresh(rows, k)
    BY <1>1, <2>2 DEF UpToDate, JustRead
  <2>6. \A r \in DOMAIN rows : ~(rows[r].lot = k.lot /\ rows[r].bin = k.bin /\ rows[r].status = k.status)
    BY <2>2, <2>5 DEF Fresh, RowsIn
  <2>. HIDE DEF k, x, n
  <2>7. /\ DOMAIN rows' = DOMAIN rows \cup {n} /\ n \notin DOMAIN rows
        /\ rows'[n] = x /\ \A r \in DOMAIN rows : rows'[r] = rows[r]
    BY <1>1, <2>1, <2>4, AllAppend DEF n
  <2>8. Distinct(rows')
    BY <1>1, <2>4, <2>6, <2>7 DEF Distinct
  <2>. QED  BY <1>2, <2>1, <2>8 DEF Goal
<1>5. ASSUME SetRow(c)
      PROVE  Goal
  <2>1. Doing(c, "set") /\ rows' = [rows EXCEPT ![next(c).row].qty = next(c).qty] /\ Follow(c, <<>>)
    BY <1>5 DEF SetRow
  <2>2. next(c).call = "set" /\ Sound(next(c), DOMAIN rows) /\ next(c).qty \in Nat
    BY <2>1, HeadSound
  <2>3. next(c).row \in DOMAIN rows
    BY <2>2 DEF Sound, WithRow
  <2>4. /\ DOMAIN rows' = DOMAIN rows
        /\ \A s \in DOMAIN rows :
             rows'[s].lot = rows[s].lot /\ rows'[s].bin = rows[s].bin /\ rows'[s].status = rows[s].status
    BY <1>1, <2>1, <2>2, <2>3, AllSet DEF Written
  <2>5. Distinct(rows')
    BY <1>1, <2>4 DEF Distinct
  <2>. QED  BY <1>2, <2>1, <2>5 DEF Goal
<1>6. ASSUME WriteAgg(c) \/ Increment(c) \/ ExpireLot(c) \/ PostEntry(c)
      PROVE  Goal
  BY <1>3, <1>6 DEF WriteAgg, Increment, ExpireLot, PostEntry
<1>. QED  BY <1>4, <1>5, <1>6, Zenon DEF Writes, Goal

LEMMA ResolvesRows ==
  ASSUME StockInv, NEW c \in Callers, Resolves(c), RowsInv
  PROVE  Distinct(rows') /\ UpToDate(rows', todo'[c])
<1>. DEFINE Goal == Distinct(rows') /\ UpToDate(rows', todo'[c])
<1>1. UpToDate(rows, todo[c]) /\ Distinct(rows) /\ todo \in [Callers -> Seq(Calls)] /\ todo[c] \in Seq(Calls)
  BY DEF StockInv, TypeOK, RowsInv
<1>2. rows' = rows
  BY DEF Resolves, ShipRead, ShipResolve, AdjustResolve, MoveResolve, LookupRow, QuarantineRow, PutRow
<1>3. ASSUME Throw(c)
      PROVE  Goal
  <2>1. todo'[c] = <<>> /\ Len(<<>>) = 0
    BY <1>1, <1>3, EmptySeq DEF Throw
  <2>2. UpToDate(rows, <<>>)
    BY <2>1 DEF UpToDate
  <2>. QED  BY <1>1, <1>2, <2>1, <2>2
<1>4. ASSUME NEW name, Doing(c, name), NEW R, NEW list \in Seq(R), Follow(c, list),
             \A i \in 1..Len(list) : (i = 1 /\ Fresh(rows, list[1])) \/ list[i].call \notin JustRead
      PROVE  Goal
  <2>1. todo'[c] = list \o Tail(todo[c])
    BY <1>4, GoesOnWith
  <2>2. todo[c] # <<>>
    BY <1>4 DEF Doing
  <2>3. UpToDate(rows, list \o Tail(todo[c]))
    BY <1>1, <1>4, <2>2, UpToDateFollowed
  <2>. QED  BY <1>1, <1>2, <2>1, <2>3
<1>5. ASSUME NEW name, Doing(c, name), NEW x, Follow(c, <<x>>), Fresh(rows, x)
      PROVE  Goal
  <2>1. <<x>> \in Seq({x}) /\ \A i \in 1..Len(<<x>>) : i = 1 /\ <<x>>[1] = x
    BY OfCalls
  <2>. QED  BY <1>4, <1>5, <2>1
<1>6. ASSUME NEW name, Doing(c, name), NEW x, NEW y, Follow(c, <<x, y>>), x.call \notin JustRead, y.call \notin JustRead
      PROVE  Goal
  <2>1. <<x, y>> \in Seq({x, y}) /\ \A i \in 1..Len(<<x, y>>) : <<x, y>>[i].call \notin JustRead
    BY <1>6, OfCalls
  <2>. QED  BY <1>4, <1>6, <2>1
<1>7. ASSUME NEW name, Doing(c, name), NEW x, NEW y, NEW z, Follow(c, <<x, y, z>>),
             x.call \notin JustRead, y.call \notin JustRead, z.call \notin JustRead
      PROVE  Goal
  <2>1. <<x, y, z>> \in Seq({x, y, z}) /\ \A i \in 1..Len(<<x, y, z>>) : <<x, y, z>>[i].call \notin JustRead
    BY <1>7, OfCalls
  <2>. QED  BY <1>4, <1>7, <2>1
<1>8. \A r, q : Set(r, q).call \notin JustRead
  BY DEF Set, Blank, JustRead
<1>9. \A q : SetAgg(q).call \notin JustRead
  BY DEF SetAgg, Blank, JustRead
<1>10. \A l, b, s, q : Put(l, b, s, q).call \notin JustRead
  BY DEF Put, Blank, JustRead
<1>11. \A l, d : Post(l, d).call \notin JustRead /\ Expire(l).call \notin JustRead
  BY DEF Post, Expire, Blank, JustRead
<1>. HIDE DEF Goal
<1>12. ASSUME ShipRead(c)
       PROVE  Goal
  <2>. DEFINE k == next(c)
  <2>1. Doing(c, "ship") /\
        ((\E r \in DOMAIN rows : Follow(c, <<[k EXCEPT !.call = "shipAgg", !.row = r, !.delta = rows[r].qty]>>)) \/ Throw(c))
    BY <1>12 DEF ShipRead, RowsAt, RowsOf, Quantity
  <2>2. k \in Calls
    BY <2>1, HeadSound DEF Sound
  <2>. HIDE DEF k
  <2>3. ASSUME NEW r \in DOMAIN rows, Follow(c, <<[k EXCEPT !.call = "shipAgg", !.row = r, !.delta = rows[r].qty]>>)
        PROVE  Goal
    <3>. DEFINE x == [k EXCEPT !.call = "shipAgg", !.row = r, !.delta = rows[r].qty]
    <3>1. x.call = "shipAgg" /\ x.row = r /\ x.delta = rows[r].qty
      BY <2>2 DEF Calls
    <3>2. Follow(c, <<x>>)
      BY <2>3
    <3>. HIDE DEF x
    <3>3. Fresh(rows, x)
      BY <3>1 DEF Fresh
    <3>. QED  BY <1>5, <2>1, <3>2, <3>3
  <2>. QED  BY <1>3, <2>1, <2>3
<1>13. ASSUME ShipResolve(c)
       PROVE  Goal
  <2>. DEFINE x == Set(next(c).row, next(c).delta - next(c).qty)
              y == SetAgg(agg - next(c).qty)
              z == Post(next(c).lot, -next(c).qty)
  <2>1. Doing(c, "shipAgg") /\ (Follow(c, <<x, y, z>>) \/ Throw(c))
    BY <1>13 DEF ShipResolve
  <2>2. x.call \notin JustRead /\ y.call \notin JustRead /\ z.call \notin JustRead
    BY <1>8, <1>9, <1>11
  <2>. HIDE DEF x, y, z
  <2>. QED  BY <1>3, <1>7, <2>1, <2>2
<1>14. ASSUME AdjustResolve(c)
       PROVE  Goal
  <2>. DEFINE x == Put(next(c).lot, NoBin, "available", next(c).qty)
              y == SetAgg(agg + next(c).delta)
              z == Post(next(c).lot, next(c).delta)
  <2>1. Doing(c, "adjustAgg") /\ (Throw(c) \/ Follow(c, <<y, z>>) \/ Follow(c, <<x, y, z>>))
    <3>1. <<>> \o <<y, z>> = <<y, z>> /\ <<x>> \o <<y, z>> = <<x, y, z>>
      BY ConcatOneTwo
    <3>. HIDE DEF x, y, z
    <3>2. Throw(c) \/ Follow(c, (IF next(c).lot = NoLot THEN <<>> ELSE <<x>>) \o <<y, z>>)
      BY <1>14 DEF AdjustResolve, x, y, z
    <3>3. Doing(c, "adjustAgg")
      BY <1>14 DEF AdjustResolve
    <3>. QED  BY <3>1, <3>2, <3>3
  <2>2. x.call \notin JustRead /\ y.call \notin JustRead /\ z.call \notin JustRead
    BY <1>9, <1>10, <1>11
  <2>. HIDE DEF x, y, z
  <2>. QED  BY <1>3, <1>6, <1>7, <2>1, <2>2
<1>15. ASSUME MoveResolve(c)
       PROVE  Goal
  <2>. DEFINE x == Set(next(c).row, next(c).delta)
              y(q) == Put(next(c).lot, next(c).bin, next(c).status, q)
  <2>1. Doing(c, "moveInto") /\ ((\E q : Follow(c, <<x, y(q)>>)) \/ Throw(c))
    BY <1>15 DEF MoveResolve
  <2>2. x.call \notin JustRead /\ \A q : y(q).call \notin JustRead
    BY <1>8, <1>10
  <2>. HIDE DEF x, y
  <2>. QED  BY <1>3, <1>6, <2>1, <2>2
<1>16. ASSUME LookupRow(c)
       PROVE  Goal
  <2>. DEFINE y(q) == Put(next(c).lot, NoBin, next(c).status, q)
  <2>1. Doing(c, "lookup") /\ \E q : Follow(c, <<y(q)>>)
    BY <1>16 DEF LookupRow
  <2>2. \A q : y(q).call \notin JustRead
    BY <1>10
  <2>. HIDE DEF y
  <2>. QED  BY <1>5, <2>1, <2>2, LastingFresh
<1>17. ASSUME QuarantineRow(c)
       PROVE  Goal
  <2>. DEFINE x(q) == Put(next(c).lot, NoBin, "quarantine", q)
              y == Set(next(c).row, 0)
              z == Expire(next(c).lot)
  <2>1. Doing(c, "quarantine") /\ \E q : Follow(c, <<x(q), y, z>>)
    BY <1>17 DEF QuarantineRow
  <2>2. y.call \notin JustRead /\ z.call \notin JustRead /\ \A q : x(q).call \notin JustRead
    BY <1>8, <1>10, <1>11
  <2>. HIDE DEF x, y, z
  <2>. QED  BY <1>7, <2>1, <2>2
<1>18. ASSUME PutRow(c)
       PROVE  Goal
  <2>. DEFINE k == next(c)
              y == [k EXCEPT !.call = "insert"]
              z(r) == Set(r, k.qty)
  <2>1. Doing(c, "put") /\ ((\E r : Follow(c, <<z(r)>>)) \/ (RowsIn(rows, k.lot, k.bin, k.status) = {} /\ Follow(c, <<y>>)))
    BY <1>18, RowsSame DEF PutRow
  <2>2. k \in Calls
    BY <2>1, HeadSound DEF Sound
  <2>3. y.call = "insert" /\ y.lot = k.lot /\ y.bin = k.bin /\ y.status = k.status
    BY <2>2 DEF Calls
  <2>4. \A r : z(r).call \notin JustRead
    BY <1>8
  <2>. HIDE DEF k, y, z
  <2>5. RowsIn(rows, k.lot, k.bin, k.status) = {} => Fresh(rows, y)
    BY <2>3 DEF Fresh
  <2>. QED  BY <1>5, <2>1, <2>4, <2>5, LastingFresh
<1>. QED  BY <1>12, <1>13, <1>14, <1>15, <1>16, <1>17, <1>18, Zenon DEF Resolves, Goal

-----------------------------------------------------------------------------
(* The plan of a pick: the call that ships a row comes behind those that    *)
(* take the rest of the rows before it, no two calls are about one row, and *)
(* nothing is put into a row ahead of a call that ships.                    *)
Level(rs) == \A r \in DOMAIN rs : rs[r].bin = NoBin
Ships(k) == k.call \in {"ship", "shipAgg"}
NoShips(s) == \A i \in 1..Len(s) : ~Ships(s[i])
Concerns(rs, k, r) ==
  \/ k.call = "ship" /\ r \in RowsIn(rs, k.lot, k.bin, k.status)
  \/ k.call \in {"shipAgg", "set"} /\ k.row = r
Clears(rs, k, r) == Concerns(rs, k, r) /\ k.qty = IF k.call = "set" THEN 0 ELSE rs[r].qty
Waits(rs, ls, k, r) ==
  /\ rs[r].status = "available" /\ rs[r].qty # 0
  /\ ls[rs[r].lot] = "active" /\ ~IsExpired(rs[r].lot) /\ Before(rs[r], k)
InTurn(rs, ls, s) ==
  \A i \in 1..Len(s) : Ships(s[i]) /\ s[i].status = "available" =>
    \A r \in DOMAIN rs : Waits(rs, ls, s[i], r) => \E j \in 1..Len(s) : j < i /\ Clears(rs, s[j], r)
Apart(rs, s) ==
  \A i, j \in 1..Len(s) : i # j /\ s[j].call = "ship" /\ (s[j].status = "available" \/ Level(rs)) =>
    \A r \in DOMAIN rs : ~(Concerns(rs, s[i], r) /\ Concerns(rs, s[j], r))
Taking(rs, k) ==
  k.call \in {"ship", "shipAgg", "setAgg", "post"} \/ (k.call = "set" /\ k.qty <= rs[k.row].qty)
TakesOnly(rs, s) ==
  \A i, j \in 1..Len(s) : s[j].call = "ship" /\ i < j =>
    Taking(rs, s[i]) /\ (s[i].call = "set" => i = 1)
Planned(rs, ls, s) == InTurn(rs, ls, s) /\ Apart(rs, s) /\ TakesOnly(rs, s)

LEMMA NothingPlanned ==
  ASSUME NEW rs, NEW ls, NEW s, NoShips(s)
  PROVE  Planned(rs, ls, s)
BY DEF NoShips, Ships, Planned, InTurn, Apart, TakesOnly

(* A row before a selected one is selected, and taken whole.                *)
LEMMA SoonerIsTaken ==
  ASSUME TypeOK, NEW status \in Statuses, NEW q \in Nat, NEW x \in Selected(status, q),
         NEW r \in Pickable(status), <<r, x>> \in Sooner(status)
  PROVE  r \in Selected(status, q) /\ Allocation(r, status, q).qty = rows[r].qty
<1>. DEFINE P == Pickable(status)
            S == {t \in P : <<t, r>> \in Sooner(status)}
            X == {t \in P : <<t, x>> \in Sooner(status)}
            A == S \cup {r}
<1>1. x \in P /\ Ahead(x, status) < q
  BY DEF Selected
<1>2. StrictlyOrders(Sooner(status), P)
  BY FefoOrders
<1>3. r \notin S /\ A \in SUBSET X
  BY <1>1, <1>2 DEF StrictlyOrders
<1>4. \A t \in P : t \in DOMAIN rows /\ Stock[t] \in Nat
  BY PickableFinite, RowsFinite
<1>5. IsFiniteSet(S) /\ IsFiniteSet(X)
  <2>1. S \in SUBSET P /\ X \in SUBSET P
    OBVIOUS
  <2>. HIDE DEF S, X
  <2>. QED  BY <2>1, PickableFinite, FS_Subset
<1>6. Ahead(r, status) = Total(S, Stock) /\ Ahead(x, status) = Total(X, Stock)
  BY DEF Ahead
<1>7. (\A t \in A : Stock[t] \in Nat) /\ \A t \in X : Stock[t] \in Nat
  BY <1>4
<1>. DEFINE f == Stock
<1>8. f = Stock
  OBVIOUS
<1>. HIDE DEF S, X, P, f
<1>9. Total(A, f) = Total(S, f) + f[r]
  BY <1>3, <1>5, <1>7, <1>8, TotalAdd
<1>. HIDE DEF A
<1>10. Total(A, f) <= Total(X, f)
  BY <1>3, <1>5, <1>7, <1>8, TotalPart
<1>11. f[r] \in Nat /\ f[r] = rows[r].qty /\ r \in DOMAIN rows
  BY <1>4, <1>8, RowsFinite DEF P
<1>12. Total(S, f) \in Nat /\ Total(A, f) \in Int /\ Total(X, f) \in Nat
  <2>1. Total(S, f) \in Nat /\ Total(X, f) \in Nat
    BY <1>6, <1>8, AheadType
  <2>. QED  BY <1>9, <1>11, <2>1
<1>13. Ahead(r, status) + rows[r].qty < q /\ Ahead(r, status) \in Nat /\ rows[r].qty \in Nat
  BY <1>1, <1>6, <1>8, <1>9, <1>10, <1>11, <1>12
<1>14. r \in Selected(status, q)
  <2>1. Ahead(r, status) < q
    BY <1>13
  <2>. QED  BY <2>1 DEF Selected, P
<1>15. Allocation(r, status, q).qty = IF Stock[r] < q - Ahead(r, status) THEN Stock[r] ELSE q - Ahead(r, status)
  BY <1>14, AllocationType
<1>. QED  BY <1>8, <1>11, <1>13, <1>14, <1>15

(* What a pick has planned.                                                 *)
LEMMA PickPlanned ==
  ASSUME TypeOK, Distinct(rows), NEW status \in {"available", "reserved"}, NEW q \in Nat, NEW s,
         s = [i \in DOMAIN Select(status, q) |-> Ship(Select(status, q)[i])], DOMAIN s = 1..Len(s)
  PROVE  Planned(rows, lotStatus, s)
<1>. DEFINE ids == InOrder(Selected(status, q), Sooner(status))
            n == Cardinality(Selected(status, q))
            a(i) == Allocation(ids[i], status, q)
<1>1. status \in Statuses /\ Listing(ids, n, Selected(status, q), Sooner(status))
      /\ DOMAIN Select(status, q) = DOMAIN ids
      /\ \A i \in DOMAIN ids : Select(status, q)[i] = a(i)
  BY SelectLists DEF Statuses
<1>. HIDE DEF ids, n, a
<1>2. /\ DOMAIN ids = DOMAIN s
      /\ \A i \in DOMAIN s : ids[i] \in Selected(status, q)
      /\ \A x \in Selected(status, q) : \E i \in DOMAIN s : ids[i] = x
      /\ \A i, j \in DOMAIN s : i < j <=> <<ids[i], ids[j]>> \in Sooner(status)
      /\ \A i, j \in DOMAIN s : ids[i] = ids[j] => i = j
  BY <1>1 DEF Listing
<1>3. \A i \in DOMAIN s : s[i] = Ship(a(i))
  BY <1>1, <1>2
<1>4. \A b : /\ Ship(b).call = "ship" /\ Ship(b).lot = b.lot /\ Ship(b).bin = b.bin
             /\ Ship(b).status = b.status /\ Ship(b).qty = b.qty
  BY DEF Ship, Blank
<1>5. \A i \in DOMAIN s : /\ a(i).lot = rows[ids[i]].lot /\ a(i).status = rows[ids[i]].status /\ a(i).status = status
                          /\ a(i).bin = IF status = "available" THEN rows[ids[i]].bin ELSE NoBin
  <2>. SUFFICES ASSUME NEW i \in DOMAIN s
                PROVE  /\ a(i).lot = rows[ids[i]].lot /\ a(i).status = rows[ids[i]].status /\ a(i).status = status
                       /\ a(i).bin = IF status = "available" THEN rows[ids[i]].bin ELSE NoBin
    OBVIOUS
  <2>1. ids[i] \in Selected(status, q)
    BY <1>2
  <2>. QED  BY <1>1, <2>1, AllocationType DEF a
<1>6. \A x \in Selected(status, q) : x \in Pickable(status) /\ x \in DOMAIN rows
  BY DEF Selected, Pickable
<1>7. \A i \in DOMAIN s : /\ s[i].call = "ship" /\ s[i].status = status /\ s[i].qty = a(i).qty
                          /\ s[i].lot = rows[ids[i]].lot /\ rows[ids[i]].status = status
                          /\ ids[i] \in DOMAIN rows
                          /\ (status = "available" \/ Level(rows)) => s[i].bin = rows[ids[i]].bin
  <2>. SUFFICES ASSUME NEW i \in DOMAIN s
                PROVE  /\ s[i].call = "ship" /\ s[i].status = status /\ s[i].qty = a(i).qty
                       /\ s[i].lot = rows[ids[i]].lot /\ rows[ids[i]].status = status
                       /\ ids[i] \in DOMAIN rows
                       /\ (status = "available" \/ Level(rows)) => s[i].bin = rows[ids[i]].bin
    OBVIOUS
  <2>1. ids[i] \in DOMAIN rows
    BY <1>2, <1>6
  <2>2. s[i].call = "ship" /\ s[i].lot = a(i).lot /\ s[i].bin = a(i).bin /\ s[i].status = a(i).status /\ s[i].qty = a(i).qty
    BY <1>3, <1>4
  <2>3. Level(rows) => rows[ids[i]].bin = NoBin
    BY <2>1 DEF Level
  <2>. QED  BY <1>5, <2>1, <2>2, <2>3
<1>8. ASSUME NEW i \in DOMAIN s, NEW r \in DOMAIN rows, Concerns(rows, s[i], r),
             status = "available" \/ Level(rows)
      PROVE  r = ids[i]
  <2>1. r \in RowsIn(rows, s[i].lot, s[i].bin, s[i].status)
    BY <1>7, <1>8 DEF Concerns
  <2>2. rows[r].lot = s[i].lot /\ rows[r].bin = s[i].bin /\ rows[r].status = s[i].status
    BY <2>1 DEF RowsIn
  <2>. QED  BY <1>7, <1>8, <2>2 DEF Distinct
<1>9. Apart(rows, s)
  <2>. SUFFICES ASSUME NEW i \in DOMAIN s, NEW j \in DOMAIN s, i # j, s[j].status = "available" \/ Level(rows),
                       NEW r \in DOMAIN rows, Concerns(rows, s[i], r), Concerns(rows, s[j], r)
                PROVE  FALSE
    BY DEF Apart
  <2>1. status = "available" \/ Level(rows)
    BY <1>7
  <2>2. r = ids[i] /\ r = ids[j]
    BY <1>8, <2>1
  <2>. QED  BY <1>2, <2>2
<1>10. TakesOnly(rows, s)
  BY <1>7 DEF TakesOnly, Taking
<1>11. InTurn(rows, lotStatus, s)
  <2>. SUFFICES ASSUME NEW i \in DOMAIN s, s[i].status = "available", NEW r \in DOMAIN rows,
                       Waits(rows, lotStatus, s[i], r)
                PROVE  \E j \in DOMAIN s : j < i /\ Clears(rows, s[j], r)
    BY DEF InTurn
  <2>1. status = "available"
    BY <1>7
  <2>2. /\ rows[r].status = "available" /\ rows[r].qty # 0 /\ lotStatus[rows[r].lot] = "active"
        /\ ~IsExpired(rows[r].lot) /\ Before(rows[r], s[i])
    BY DEF Waits
  <2>3. rows[r].qty \in Nat /\ rows[r] \in Row /\ rows[ids[i]] \in Row
    BY <1>7, RowsFinite DEF Row
  <2>4. r \in Pickable(status)
    <3>1. rows[r].qty > 0
      BY <2>2, <2>3
    <3>. QED  BY <2>1, <2>2, <3>1 DEF Pickable
  <2>5. <<r, ids[i]>> \in Sooner(status)
    <3>1. \A x \in DOMAIN rows : Position(x, status).lot = rows[x].lot /\ Position(x, status).bin = rows[x].bin
      <4>. SUFFICES ASSUME NEW x \in DOMAIN rows
                    PROVE  Position(x, status).lot = rows[x].lot /\ Position(x, status).bin = rows[x].bin
        OBVIOUS
      <4>1. rows[x] \in [lot : Lots, bin : Places, status : Statuses, qty : Nat]
        BY RowsFinite DEF Row
      <4>. QED  BY <2>1, <4>1 DEF Position
    <3>2. ids[i] \in DOMAIN rows /\ ids[i] \in Pickable(status) /\ s[i].lot = rows[ids[i]].lot /\ s[i].bin = rows[ids[i]].bin
      BY <1>2, <1>6, <1>7, <2>1
    <3>. DEFINE x == Position(r, status)
                y == Position(ids[i], status)
    <3>3. x.lot = rows[r].lot /\ x.bin = rows[r].bin /\ y.lot = s[i].lot /\ y.bin = s[i].bin
      BY <3>1, <3>2
    <3>. HIDE DEF x, y
    <3>4. Before(x, y)
      BY <2>2, <3>3 DEF Before
    <3>. QED  BY <2>4, <3>2, <3>4 DEF Sooner, SortByFefo, x, y
  <2>6. r \in Selected(status, q) /\ Allocation(r, status, q).qty = rows[r].qty
    BY <1>1, <1>2, <2>4, <2>5, SoonerIsTaken
  <2>7. PICK j \in DOMAIN s : ids[j] = r
    BY <1>2, <2>6
  <2>8. j < i
    BY <1>2, <2>5, <2>7
  <2>9. a(j).qty = rows[r].qty
    BY <2>6, <2>7 DEF a
  <2>10. Clears(rows, s[j], r)
    <3>1. r \in RowsIn(rows, s[j].lot, s[j].bin, s[j].status)
      BY <1>7, <2>1, <2>7 DEF RowsIn
    <3>. QED  BY <1>7, <2>9, <3>1 DEF Clears, Concerns
  <2>. QED  BY <2>8, <2>10
<1>. QED  BY <1>9, <1>10, <1>11 DEF Planned

-----------------------------------------------------------------------------
(* What a list will enter as shipped brings the pick from b to w, and every *)
(* row it is still to read holds what is to be taken from it.               *)
Weight(k) == IF Ships(k) THEN k.qty ELSE IF k.call = "post" THEN -k.delta ELSE 0
Owes(s, b, w) ==
  \E tally \in [0..Len(s) -> Int] :
    /\ tally[0] = b /\ tally[Len(s)] = w
    /\ \A i \in 1..Len(s) : tally[i] = tally[i - 1] + Weight(s[i])
Filled(rs, s) ==
  \A i \in 1..Len(s) : s[i].call = "ship" =>
    \E r \in RowsIn(rs, s[i].lot, s[i].bin, s[i].status) : rs[r].qty >= s[i].qty
Asked(rs, s, p) == p.shipped = 0 /\ Owes(s, 0, p.want) /\ (Level(rs) => Filled(rs, s))

(* A selection that is not short covers the quantity.                       *)
LEMMA SelectionCovers ==
  ASSUME TypeOK, NEW status \in Statuses, NEW q \in Nat, ~IsShort(status, q)
  PROVE  Total(Selected(status, q), Stock) >= q
<1>. DEFINE P == Pickable(status)
            S == Selected(status, q)
            D == P \ S
            f == Stock
<1>1. IsFiniteSet(P) /\ S \in SUBSET P /\ (\A r \in P : f[r] \in Nat) /\ f = Stock
  BY PickableFinite, RowsFinite DEF Selected
<1>2. StrictlyOrders(Sooner(status), P) /\ \A x \in P : x \in S \/ Ahead(x, status) >= q
  <2>1. \A x \in P : Ahead(x, status) \in Nat
    BY AheadType
  <2>. QED  BY <2>1, FefoOrders DEF Selected
<1>3. Total(P, f) \in Nat /\ Total(P, f) >= q
  <2>1. Total(P, f) \in Nat
    <3>. HIDE DEF P, f
    <3>. QED  BY <1>1, TotalType
  <2>. QED  BY <2>1 DEF IsShort
<1>4. CASE D = {}
  <2>1. S = P
    BY <1>1, <1>4
  <2>. QED  BY <1>3, <2>1
<1>5. CASE D # {}
  <2>1. IsFiniteSet(D) /\ D \in SUBSET P
    <3>. HIDE DEF P, S
    <3>. QED  BY <1>1, FS_Subset
  <2>2. StrictlyOrders(Sooner(status), D)
    BY <1>2, <2>1 DEF StrictlyOrders
  <2>. DEFINE list == InOrder(D, Sooner(status))
              n == Cardinality(D)
  <2>3. Listing(list, n, D, Sooner(status))
    <3>. HIDE DEF D
    <3>. QED  BY <2>1, <2>2, InOrderLists
  <2>. HIDE DEF list, n
  <2>4. PICK x \in D : \A y \in D : <<y, x>> \notin Sooner(status)
    <3>1. n \in Nat /\ list \in [1..n -> D]
          /\ \A i \in 1..n : \A y \in D : <<y, list[i]>> \in Sooner(status) <=> \E j \in 1..n : j < i /\ y = list[j]
      BY <2>3 DEF Listing
    <3>2. \E i \in 1..n : TRUE
      BY <1>5, <2>3 DEF Listing
    <3>3. 1 \in 1..n /\ \A j \in 1..n : ~(j < 1)
      BY <3>1, <3>2
    <3>4. list[1] \in D /\ \A y \in D : <<y, list[1]>> \notin Sooner(status)
      BY <3>1, <3>3
    <3>. QED  BY <3>4
  <2>. DEFINE X == {t \in P : <<t, x>> \in Sooner(status)}
  <2>5. X \in SUBSET S /\ Total(X, f) = Ahead(x, status) /\ Ahead(x, status) >= q /\ Ahead(x, status) \in Nat
    <3>1. X \in SUBSET S
      BY <2>4
    <3>2. Ahead(x, status) >= q
      BY <1>2, <2>1, <2>4
    <3>. QED  BY <3>1, <3>2, AheadType DEF Ahead
  <2>6. IsFiniteSet(S) /\ \A r \in S : f[r] \in Nat
    <3>. HIDE DEF P, S
    <3>. QED  BY <1>1, FS_Subset
  <2>. HIDE DEF X, S, f
  <2>7. Total(X, f) <= Total(S, f) /\ Total(S, f) \in Nat
    BY <2>5, <2>6, TotalPart, TotalType
  <2>8. Total(S, f) >= q
    BY <2>5, <2>7
  <2>. QED  BY <1>1, <2>8 DEF S
<1>. QED  BY <1>4, <1>5

LEMMA PickAsked ==
  ASSUME TypeOK, NEW status \in {"available", "reserved"}, NEW q \in Nat \ {0}, ~IsShort(status, q), NEW s,
         s = [i \in DOMAIN Select(status, q) |-> Ship(Select(status, q)[i])], DOMAIN s = 1..Len(s), Len(s) \in Nat,
         NEW p, p.want = q, p.shipped = 0
  PROVE  Asked(rows, s, p)
<1>. DEFINE S == Selected(status, q)
            P == Pickable(status)
            ids == InOrder(S, Sooner(status))
            m == Cardinality(S)
            n == Len(s)
            f == Stock
            a(i) == Allocation(ids[i], status, q)
            A(i) == Ahead(ids[i], status)
            X(i) == {t \in P : <<t, ids[i]>> \in Sooner(status)}
<1>1. status \in Statuses /\ Listing(ids, m, S, Sooner(status)) /\ q \in Nat
      /\ DOMAIN Select(status, q) = DOMAIN ids
      /\ \A i \in DOMAIN ids : Select(status, q)[i] = a(i)
  BY SelectLists DEF Statuses
<1>2. /\ IsFiniteSet(P) /\ S \in SUBSET P /\ f = Stock
      /\ \A r \in P : r \in DOMAIN rows /\ f[r] \in Nat /\ f[r] = rows[r].qty
  BY PickableFinite, RowsFinite DEF Selected
<1>3. Total(S, f) >= q
  BY <1>1, SelectionCovers
<1>4. \A i \in 1..n : A(i) = Total(X(i), f) /\ A(i) \in Nat
  BY AheadType DEF Ahead
<1>. HIDE DEF ids, m, n, a
<1>5. /\ DOMAIN ids = 1..n /\ n \in Nat
      /\ \A i \in 1..n : ids[i] \in S
      /\ \A x \in S : \E i \in 1..n : ids[i] = x
      /\ \A i, j \in 1..n : i < j <=> <<ids[i], ids[j]>> \in Sooner(status)
      /\ \A i, j \in 1..n : ids[i] = ids[j] => i = j
  BY <1>1 DEF Listing, n
<1>6. \A i \in 1..n : s[i] = Ship(a(i)) /\ i \in DOMAIN ids
  BY <1>1, <1>5 DEF n
<1>7. \A b : /\ Ship(b).call = "ship" /\ Ship(b).lot = b.lot /\ Ship(b).bin = b.bin
             /\ Ship(b).status = b.status /\ Ship(b).qty = b.qty
  BY DEF Ship, Blank
<1>8. \A i \in 1..n : /\ a(i).lot = rows[ids[i]].lot /\ a(i).status = rows[ids[i]].status
                      /\ a(i).bin = (IF status = "available" THEN rows[ids[i]].bin ELSE NoBin)
                      /\ a(i).qty = IF f[ids[i]] < q - A(i) THEN f[ids[i]] ELSE q - A(i)
  <2>. SUFFICES ASSUME NEW i \in 1..n
                PROVE  /\ a(i).lot = rows[ids[i]].lot /\ a(i).status = rows[ids[i]].status
                       /\ a(i).bin = (IF status = "available" THEN rows[ids[i]].bin ELSE NoBin)
                       /\ a(i).qty = IF f[ids[i]] < q - A(i) THEN f[ids[i]] ELSE q - A(i)
    OBVIOUS
  <2>1. ids[i] \in Selected(status, q)
    BY <1>5
  <2>. QED  BY <1>1, <2>1, AllocationType DEF a
<1>9. \A i \in 1..n : \A t : t \in X(i) <=> \E j \in 1..n : j < i /\ t = ids[j]
  <2>. SUFFICES ASSUME NEW i \in 1..n, NEW t
                PROVE  t \in X(i) <=> \E j \in 1..n : j < i /\ t = ids[j]
    OBVIOUS
  <2>1. ASSUME t \in X(i)
        PROVE  \E j \in 1..n : j < i /\ t = ids[j]
    <3>1. t \in Pickable(status) /\ <<t, ids[i]>> \in Sooner(status) /\ ids[i] \in Selected(status, q)
      BY <1>5, <2>1
    <3>2. t \in S
      BY <1>1, <3>1, SoonerIsTaken
    <3>. QED  BY <1>5, <3>1, <3>2
  <2>2. ASSUME NEW j \in 1..n, j < i, t = ids[j]
        PROVE  t \in X(i)
    BY <1>2, <1>5, <2>2
  <2>. QED  BY <2>1, <2>2
<1>10. \A i \in 1..n : ids[i] \notin X(i) /\ X(i) \in SUBSET P /\ ids[i] \in P
  BY <1>2, <1>5, <1>9
<1>11. \A i \in 1..n : Total(X(i) \cup {ids[i]}, f) = A(i) + f[ids[i]] /\ f[ids[i]] \in Nat
  <2>. SUFFICES ASSUME NEW i \in 1..n
                PROVE  Total(X(i) \cup {ids[i]}, f) = A(i) + f[ids[i]] /\ f[ids[i]] \in Nat
    OBVIOUS
  <2>. DEFINE x == ids[i]
              Y == X(i)
  <2>1. IsFiniteSet(P) /\ Y \in SUBSET P /\ x \in P /\ x \notin Y /\ A(i) = Total(Y, f) /\ \A r \in P : f[r] \in Nat
    BY <1>2, <1>4, <1>10
  <2>. HIDE DEF x, Y, P, f
  <2>2. IsFiniteSet(Y) /\ \A y \in Y \cup {x} : f[y] \in Nat
    BY <2>1, FS_Subset
  <2>3. Total(Y \cup {x}, f) = Total(Y, f) + f[x]
    BY <2>1, <2>2, TotalAdd
  <2>. QED  BY <2>1, <2>2, <2>3 DEF x, Y
<1>12. n >= 1
  <2>1. CASE n = 0
    <3>1. S = {}
      BY <1>5, <2>1
    <3>2. Total(S, f) = 0
      BY <3>1, TotalEmpty
    <3>. QED  BY <1>3, <3>2
  <2>. QED  BY <1>5, <2>1
<1>13. A(1) = 0
  <2>1. X(1) = {}
    BY <1>9, <1>12
  <2>. QED  BY <1>4, <1>12, <2>1, TotalEmpty
<1>14. ASSUME NEW i \in 1..n, i < n
       PROVE  A(i + 1) = A(i) + f[ids[i]] /\ a(i).qty = f[ids[i]]
  <2>1. i + 1 \in 1..n /\ \A j \in 1..n : j < i + 1 <=> j < i \/ j = i
    BY <1>5, <1>14
  <2>2. X(i + 1) = X(i) \cup {ids[i]}
    <3>1. \A t : t \in X(i + 1) <=> \E j \in 1..n : j < i + 1 /\ t = ids[j]
      BY <1>9, <2>1
    <3>2. \A t : t \in X(i) <=> \E j \in 1..n : j < i /\ t = ids[j]
      BY <1>9
    <3>. HIDE DEF X
    <3>3. \A t : t \in X(i + 1) <=> t \in X(i) \cup {ids[i]}
      BY <2>1, <3>1, <3>2
    <3>. QED  BY <3>3
  <2>3. A(i + 1) = A(i) + f[ids[i]]
    BY <1>4, <1>11, <2>1, <2>2
  <2>4. ids[i + 1] \in Selected(status, q) /\ ids[i] \in Pickable(status) /\ <<ids[i], ids[i + 1]>> \in Sooner(status)
    BY <1>2, <1>5, <2>1
  <2>5. Allocation(ids[i], status, q).qty = rows[ids[i]].qty
    BY <1>1, <2>4, SoonerIsTaken
  <2>. QED  BY <1>2, <2>3, <2>4, <2>5 DEF a
<1>15. A(n) + a(n).qty = q
  <2>1. n \in 1..n
    BY <1>5, <1>12
  <2>2. S = X(n) \cup {ids[n]}
    <3>1. \A t : t \in X(n) <=> \E j \in 1..n : j < n /\ t = ids[j]
      BY <1>9, <2>1
    <3>2. \A j \in 1..n : j < n \/ j = n
      BY <1>5
    <3>3. \A t : t \in S <=> \E j \in 1..n : t = ids[j]
      BY <1>5
    <3>. HIDE DEF X, S
    <3>4. \A t : t \in S <=> t \in X(n) \cup {ids[n]}
      BY <2>1, <3>1, <3>2, <3>3
    <3>. QED  BY <3>4
  <2>3. Total(S, f) = A(n) + f[ids[n]] /\ f[ids[n]] \in Nat /\ A(n) \in Nat
    BY <1>4, <1>11, <2>1, <2>2
  <2>. DEFINE v == f[ids[n]]
              b == A(n)
  <2>4. a(n).qty = IF v < q - b THEN v ELSE q - b
    BY <1>8, <2>1
  <2>5. v \in Nat /\ b \in Nat /\ b + v >= q
    BY <1>3, <2>3
  <2>. HIDE DEF v, b, f, A
  <2>6. b + a(n).qty = q
    BY <2>4, <2>5
  <2>. QED  BY <2>6 DEF b
<1>16. \A i \in 1..n : Weight(s[i]) = a(i).qty
  BY <1>6, <1>7 DEF Weight, Ships
<1>17. Owes(s, 0, q)
  <2>. DEFINE tally == [i \in 0..n |-> IF i = n THEN q ELSE A(i + 1)]
  <2>1. tally \in [0..n -> Int]
    <3>1. ASSUME NEW i \in 0..n, i # n
          PROVE  A(i + 1) \in Int
      <4>1. i + 1 \in 1..n
        BY <1>5, <3>1
      <4>. DEFINE j == i + 1
      <4>. HIDE DEF j, A
      <4>2. j \in 1..n
        BY <4>1 DEF j
      <4>3. A(j) \in Nat
        BY <1>4, <4>2, Zenon
      <4>. QED  BY <4>3 DEF j
    <3>. QED  BY <1>1, <3>1
  <2>2. tally[0] = 0 /\ tally[n] = q
    <3>1. 0 \in 0..n /\ n \in 0..n /\ 0 # n /\ 0 + 1 = 1
      BY <1>5, <1>12
    <3>. QED  BY <1>13, <3>1
  <2>3. ASSUME NEW i \in 1..n
        PROVE  tally[i] = tally[i - 1] + Weight(s[i])
    <3>1. i \in 0..n /\ i - 1 \in 0..n /\ i - 1 # n /\ (i - 1) + 1 = i
      BY <1>5
    <3>2. tally[i - 1] = A(i)
      BY <3>1
    <3>3. CASE i = n
      BY <1>15, <1>16, <3>1, <3>2, <3>3
    <3>4. CASE i # n
      <4>1. i < n
        BY <1>5, <3>4
      <4>2. A(i + 1) = A(i) + f[ids[i]] /\ a(i).qty = f[ids[i]]
        BY <1>14, <4>1
      <4>. QED  BY <1>16, <3>1, <3>2, <3>4, <4>2
    <3>. QED  BY <3>3, <3>4
  <2>. HIDE DEF tally
  <2>. QED  BY <2>1, <2>2, <2>3 DEF Owes, n
<1>18. ASSUME Level(rows)
       PROVE  Filled(rows, s)
  <2>. SUFFICES ASSUME NEW i \in 1..n
                PROVE  \E r \in RowsIn(rows, s[i].lot, s[i].bin, s[i].status) : rows[r].qty >= s[i].qty
    BY DEF Filled, n
  <2>. DEFINE r == ids[i]
  <2>1. r \in DOMAIN rows /\ f[r] = rows[r].qty /\ f[r] \in Nat
    BY <1>2, <1>10
  <2>2. rows[r].bin = NoBin
    BY <1>18, <2>1 DEF Level
  <2>3. s[i].lot = rows[r].lot /\ s[i].bin = rows[r].bin /\ s[i].status = rows[r].status /\ s[i].qty = a(i).qty
    <3>1. s[i] = Ship(a(i))
      BY <1>6
    <3>2. a(i).lot = rows[r].lot /\ a(i).status = rows[r].status
          /\ a(i).bin = IF status = "available" THEN rows[r].bin ELSE NoBin
      BY <1>8
    <3>. HIDE DEF r
    <3>3. a(i).bin = rows[r].bin
      BY <2>2, <3>2
    <3>. QED  BY <1>7, <3>1, <3>2, <3>3
  <2>4. a(i).qty <= f[r]
    <3>. DEFINE v == f[r]
                b == A(i)
    <3>1. a(i).qty = (IF v < q - b THEN v ELSE q - b) /\ v \in Nat /\ b \in Nat
      BY <1>4, <1>8, <2>1
    <3>. HIDE DEF v, b, f, A
    <3>2. a(i).qty <= v
      BY <1>1, <3>1
    <3>. QED  BY <3>2 DEF v
  <2>. HIDE DEF r
  <2>5. r \in RowsIn(rows, s[i].lot, s[i].bin, s[i].status)
    BY <2>1, <2>3 DEF RowsIn
  <2>. QED  BY <2>1, <2>3, <2>4, <2>5
<1>. QED  BY <1>17, <1>18 DEF Asked

-----------------------------------------------------------------------------
(* What the list of a request is that has just begun.                       *)
Sweeping(s) ==
  /\ \A i \in 1..Len(s) : /\ s[i].call = "quarantine" /\ s[i].row \in DOMAIN rows
                          /\ rows[s[i].row].status = "available"
                          /\ rows[s[i].row].lot = s[i].lot /\ rows[s[i].row].qty = s[i].qty
  /\ \A i, j \in 1..Len(s) : s[i].row = s[j].row => i = j
Producing(s) ==
  \E l \in Lots, q \in Nat :
    /\ ~Made(l) /\ lotStatus'[l] # "none" /\ count'.made = count.made + q
    /\ Len(s) = 3 /\ s[1] = Put(l, NoBin, "available", q) /\ s[2] = Post(l, q) /\ s[3] = AddAgg(q)
Shifting(s) ==
  \E r \in DOMAIN rows, q \in Nat :
    /\ Len(s) = 2 /\ rows[r].qty >= q /\ s[1] = Set(r, rows[r].qty - q)
    /\ \/ rows[r].status = "available" /\ s[2] = Put(rows[r].lot, NoBin, "reserved", q)
       \/ rows[r].status = "reserved" /\ s[2] = Lookup(rows[r].lot, "available", q)
Shipping(s) == (\A i \in 1..Len(s) : s[i].call = "ship") /\ Planned(rows, lotStatus', s)
Adjusting(s) ==
  /\ Len(s) = 1 /\ s[1].call = "adjustAgg" /\ Fresh(rows, s[1]) /\ count'.adjusted
  /\ s[1].lot \in Lots => Made(s[1].lot)
Moving(s) ==
  /\ Len(s) = 1 /\ s[1].call = "moveInto" /\ Fresh(rows, s[1])
  /\ s[1].row \in DOMAIN rows /\ rows[s[1].row].lot = s[1].lot
Begun(s) ==
  \/ Producing(s)
  \/ count'.made = count.made /\ (Shipping(s) \/ Shifting(s) \/ Adjusting(s) \/ Moving(s) \/ Sweeping(s))

(* Nothing but a pick asks for a shipment.                                  *)
LEMMA OthersShipNothing ==
  ASSUME NEW s, Producing(s) \/ Shifting(s) \/ Adjusting(s) \/ Moving(s) \/ Sweeping(s)
  PROVE  NoShips(s)
<1>1. /\ \A l, b, st, q : Put(l, b, st, q).call = "put"
      /\ \A l, d : Post(l, d).call = "post"
      /\ \A l, st, q : Lookup(l, st, q).call = "lookup"
      /\ \A r, q : Set(r, q).call = "set"
      /\ \A q : AddAgg(q).call = "addAgg"
  BY DEF Put, Post, Lookup, Set, AddAgg, Blank
<1>2. CASE Producing(s)
  <2>1. Len(s) = 3 /\ s[1].call = "put" /\ s[2].call = "post" /\ s[3].call = "addAgg"
    BY <1>1, <1>2 DEF Producing
  <2>2. \A i \in 1..3 : i = 1 \/ i = 2 \/ i = 3
    OBVIOUS
  <2>. QED  BY <2>1, <2>2 DEF NoShips, Ships
<1>3. CASE Shifting(s)
  <2>1. Len(s) = 2 /\ s[1].call = "set" /\ s[2].call \in {"put", "lookup"}
    BY <1>1, <1>3 DEF Shifting
  <2>2. \A i \in 1..2 : i = 1 \/ i = 2
    OBVIOUS
  <2>. QED  BY <2>1, <2>2 DEF NoShips, Ships
<1>4. CASE Adjusting(s) \/ Moving(s) \/ Sweeping(s)
  BY <1>4 DEF Adjusting, Moving, Sweeping, NoShips, Ships
<1>. QED  BY <1>2, <1>3, <1>4

LEMMA AdjustmentOpens ==
  ASSUME TypeOK, NEW l, NEW d \in Int, NEW current \in InLot(l), NEW s, s = <<Adjustment(l, d, current)>>, count'.adjusted,
         l \in Lots => Made(l)
  PROVE  Adjusting(s)
<1>. DEFINE x == Adjustment(l, d, current)
<1>1. Len(s) = 1 /\ s[1] = x
  OBVIOUS
<1>2. x.call = "adjustAgg" /\ x.lot = l /\ x.delta = d /\ (l # NoLot => x.qty = current + d)
  BY DEF Adjustment, Blank
<1>. HIDE DEF x
<1>3. ASSUME l # NoLot
      PROVE  Found(rows, l, "available", x.qty - x.delta)
  <2>1. current \in AnyQuantity(RowsOf(l, "available")) /\ current \in Nat
    BY <1>3, InLotType DEF InLot
  <2>2. x.qty - x.delta = current
    BY <1>2, <1>3, <2>1
  <2>. QED  BY <2>1, <2>2, RowsSame
<1>. QED  BY <1>1, <1>2, <1>3 DEF Adjusting, Fresh

LEMMA StartsBegin ==
  ASSUME StockInv, StockInv', Distinct(rows), NEW c \in Callers, Starts(c)
  PROVE  /\ todo[c] = <<>> /\ Begun(todo'[c])
         /\ rows' = rows /\ agg' = agg /\ posted' = posted /\ count'.faults = count.faults
         /\ ~count'.adjusted => ~count.adjusted
         /\ \/ pick'[c] = pick[c] /\ NoShips(todo'[c])
            \/ (\A i \in 1..Len(todo'[c]) : todo'[c][i].call = "ship") /\ Asked(rows, todo'[c], pick'[c])
<1>. DEFINE Goal == Begun(todo'[c]) /\ NoShips(todo'[c])
<1>0. /\ TypeOK /\ MaxQty \in Nat /\ Quantities \subseteq Nat
      /\ count \in [calls : Nat, faults : Nat, made : Nat, adjusted : BOOLEAN]
      /\ \A r \in DOMAIN rows : rows[r] \in Row /\ rows[r].lot \in Lots /\ rows[r].qty \in Nat
  <2>1. MaxQty \in Nat
    BY StockAssumption
  <2>2. TypeOK /\ Quantities \subseteq Nat
    BY <2>1 DEF StockInv, Quantities
  <2>3. count \in [calls : Nat, faults : Nat, made : Nat, adjusted : BOOLEAN]
    BY <2>2 DEF TypeOK
  <2>. QED  BY <2>1, <2>2, <2>3, RowsFinite DEF Row
<1>1. todo[c] = <<>>
  BY ZenonT(40) DEF Starts, Produce, Pick, Reserve, Release, Adjust, SetQuantity, Move, Sweep, UpdateStatus, Begin, BeginMaking, IsIdle
<1>2. rows' = rows /\ agg' = agg /\ posted' = posted
  BY DEF Starts, Produce, Pick, Reserve, Release, Adjust, SetQuantity, Move, Sweep, UpdateStatus, Pure
<1>3. ASSUME NEW kind, NEW list, NEW made \in Nat, BeginMaking(c, kind, list, made)
      PROVE  /\ todo'[c] = list /\ DOMAIN list = 1..Len(list) /\ Len(list) \in Nat
             /\ count'.made = count.made + made /\ count'.faults = count.faults
             /\ count'.adjusted = (count.adjusted \/ kind \in {"adjust", "setQuantity"})
  <2>1. todo'[c] = list /\ DOMAIN list = 1..Len(list) /\ Len(list) \in Nat
    BY <1>3, BeginsWith
  <2>2. count' = [count EXCEPT !.calls = @ + 1, !.made = @ + made,
                               !.adjusted = @ \/ kind \in {"adjust", "setQuantity"}]
    BY <1>3 DEF BeginMaking
  <2>. QED  BY <1>0, <2>1, <2>2
<1>4. ASSUME NEW kind, NEW list, Begin(c, kind, list)
      PROVE  /\ todo'[c] = list /\ DOMAIN list = 1..Len(list) /\ Len(list) \in Nat
             /\ count'.made = count.made /\ (kind \in {"adjust", "setQuantity"} => count'.adjusted)
  <2>1. BeginMaking(c, kind, list, 0) /\ count.made + 0 = count.made
    BY <1>0, <1>4 DEF Begin
  <2>. QED  BY <1>3, <2>1
<1>5. count'.faults = count.faults /\ (~count'.adjusted => ~count.adjusted)
  <2>1. \E kind, list : \E made \in Nat : BeginMaking(c, kind, list, made)
    <3>1. Produce(c) => \E kind, list : \E made \in Nat : BeginMaking(c, kind, list, made)
      BY <1>0 DEF Produce
    <3>2. (\E kind, list : Begin(c, kind, list)) => \E kind, list : \E made \in Nat : BeginMaking(c, kind, list, made)
      BY DEF Begin
    <3>3. Starts(c) => Produce(c) \/ \E kind, list : Begin(c, kind, list)
      BY Zenon DEF Starts, Pick, Reserve, Release, Adjust, SetQuantity, Move, Sweep, UpdateStatus
    <3>. QED  BY <3>1, <3>2, <3>3
  <2>2. PICK kind, list : \E made \in Nat : BeginMaking(c, kind, list, made)
    BY <2>1
  <2>3. PICK made \in Nat : BeginMaking(c, kind, list, made)
    BY <2>2
  <2>. QED  BY <1>3, <2>3
<1>6. ASSUME \/ Producing(todo'[c])
             \/ count'.made = count.made
                /\ (Shifting(todo'[c]) \/ Adjusting(todo'[c]) \/ Moving(todo'[c]) \/ Sweeping(todo'[c]))
      PROVE  Goal
  <2>1. NoShips(todo'[c])
    BY <1>6, OthersShipNothing
  <2>. QED  BY <1>6, <2>1 DEF Begun
<1>. HIDE DEF Goal
<1>10. ASSUME Produce(c)
       PROVE  Goal
  <2>1. PICK l \in Lots, q \in Quantities :
          /\ ~Made(l) /\ lotStatus' = [lotStatus EXCEPT ![l] = "active"]
          /\ BeginMaking(c, "produce", <<Put(l, NoBin, "available", q), Post(l, q), AddAgg(q)>>, q)
    BY <1>10 DEF Produce
  <2>. DEFINE list == <<Put(l, NoBin, "available", q), Post(l, q), AddAgg(q)>>
  <2>2. Len(list) = 3 /\ list[1] = Put(l, NoBin, "available", q) /\ list[2] = Post(l, q) /\ list[3] = AddAgg(q)
    OBVIOUS
  <2>3. BeginMaking(c, "produce", list, q) /\ q \in Nat
    BY <1>0, <2>1
  <2>5. lotStatus'[l] # "none"
    BY <1>0, <2>1 DEF TypeOK
  <2>. HIDE DEF list
  <2>4. todo'[c] = list /\ count'.made = count.made + q
    BY <1>3, <2>3
  <2>. QED  BY <1>6, <2>1, <2>2, <2>3, <2>4, <2>5 DEF Producing
<1>11. ASSUME Pick(c)
       PROVE  /\ Begun(todo'[c]) /\ Asked(rows, todo'[c], pick'[c])
              /\ \A i \in 1..Len(todo'[c]) : todo'[c][i].call = "ship"
  <2>1. PICK q \in Quantities, s \in {"available", "reserved"} :
          /\ Begin(c, "pick", [i \in DOMAIN Select(s, q) |-> Ship(Select(s, q)[i])])
          /\ ~IsShort(s, q) /\ lotStatus' = lotStatus /\ pick' = [pick EXCEPT ![c] = [want |-> q, shipped |-> 0]]
    BY <1>11 DEF Pick, Pure
  <2>. DEFINE list == [i \in DOMAIN Select(s, q) |-> Ship(Select(s, q)[i])]
              p == pick'[c]
  <2>2. \A i \in DOMAIN list : list[i].call = "ship"
    BY DEF Ship, Blank
  <2>3. Begin(c, "pick", list) /\ q \in Nat \ {0} /\ q \in Nat
    BY <1>0, <2>1 DEF Quantities
  <2>4. todo'[c] = list /\ DOMAIN list = 1..Len(list) /\ Len(list) \in Nat /\ count'.made = count.made
    <3>. HIDE DEF list
    <3>. QED  BY <1>4, <2>3
  <2>5. Planned(rows, lotStatus', list)
    BY <1>0, <2>1, <2>3, <2>4, PickPlanned
  <2>6. p.want = q /\ p.shipped = 0
    BY <1>0, <2>1 DEF TypeOK
  <2>. HIDE DEF p
  <2>7. Asked(rows, list, p)
    BY <1>0, <2>1, <2>3, <2>4, <2>6, PickAsked
  <2>. HIDE DEF list
  <2>8. \A i \in 1..Len(list) : list[i].call = "ship"
    BY <2>2, <2>4
  <2>9. Begun(todo'[c])
    BY <2>4, <2>5, <2>8 DEF Shipping, Begun
  <2>. QED  BY <2>4, <2>7, <2>8, <2>9 DEF p
<1>12. ASSUME Reserve(c) \/ Release(c)
       PROVE  Goal
  <2>1. PICK r, q, k, kind :
          /\ r \in DOMAIN rows /\ q \in Quantities /\ rows[r].qty >= q
          /\ \/ rows[r].status = "available" /\ k = Put(rows[r].lot, NoBin, "reserved", q)
             \/ rows[r].status = "reserved" /\ k = Lookup(rows[r].lot, "available", q)
          /\ Begin(c, kind, <<Set(r, rows[r].qty - q), k>>)
    BY <1>12 DEF Reserve, Release, RowsOf, Quantity
  <2>. DEFINE x == Set(r, rows[r].qty - q)
              list == <<x, k>>
  <2>2. Len(list) = 2 /\ list[1] = x /\ list[2] = k
    OBVIOUS
  <2>3. Begin(c, kind, list) /\ q \in Nat
    BY <1>0, <2>1
  <2>. HIDE DEF list
  <2>4. todo'[c] = list /\ count'.made = count.made
    BY <1>4, <2>3
  <2>. QED  BY <1>6, <2>1, <2>2, <2>3, <2>4 DEF Shifting
<1>13. ASSUME NEW l, NEW d, NEW current, NEW kind \in {"adjust", "setQuantity"}, current \in InLot(l),
              l \in Lots => Made(l), d \in Int, Begin(c, kind, <<Adjustment(l, d, current)>>)
       PROVE  Goal
  <2>. DEFINE list == <<Adjustment(l, d, current)>>
  <2>1. Begin(c, kind, list) /\ list = <<Adjustment(l, d, current)>>
    BY <1>13
  <2>. HIDE DEF list
  <2>2. todo'[c] = list /\ count'.made = count.made /\ count'.adjusted
    BY <1>4, <1>13, <2>1
  <2>3. Adjusting(list)
    BY <1>0, <1>13, <2>1, <2>2, AdjustmentOpens
  <2>. QED  BY <1>6, <2>2, <2>3
<1>14. ASSUME Adjust(c)
       PROVE  Goal
  <2>1. PICK d, l, current : /\ d \in Int /\ current \in InLot(l) /\ (l \in Lots => Made(l))
                                 /\ Begin(c, "adjust", <<Adjustment(l, d, current)>>)
    <3>1. \E l \in {m \in Lots : Made(m)} \cup {NoLot}, d \in {q \in -MaxQty..MaxQty : q # 0} :
            \E current \in InLot(l) : Begin(c, "adjust", <<Adjustment(l, d, current)>>)
      BY <1>14 DEF Adjust
    <3>3. NoLot \notin Lots
      BY StockAssumption
    <3>2. \A d \in {q \in -MaxQty..MaxQty : q # 0} : d \in Int
      OBVIOUS
    <3>. QED  BY <3>1, <3>2, <3>3
  <2>. QED  BY <1>13, <2>1
<1>15. ASSUME SetQuantity(c)
       PROVE  Goal
  <2>1. PICK target \in 0..MaxQty : Begin(c, "setQuantity", <<Adjustment(NoLot, target - agg, 0)>>)
    BY <1>15 DEF SetQuantity
  <2>2. target - agg \in Int
    BY <1>0 DEF TypeOK
  <2>3. 0 \in InLot(NoLot) /\ NoLot \notin Lots
    BY StockAssumption DEF InLot
  <2>. QED  BY <1>13, <2>1, <2>2, <2>3
<1>16. ASSUME Move(c)
       PROVE  Goal
  <2>1. PICK q, r, l, to, s : q \in Quantities /\ r \in DOMAIN rows /\ rows[r].lot = l /\ Begin(c, "move",
             <<[Blank EXCEPT !.call = "moveInto", !.lot = l, !.bin = to, !.status = s,
                             !.row = r, !.qty = q, !.delta = Quantity(r) - q]>>)
    <3>1. \E l, from, to, s : \E q \in Quantities : \E r \in RowsAt(l, from, s) : Begin(c, "move",
             <<[Blank EXCEPT !.call = "moveInto", !.lot = l, !.bin = to, !.status = s,
                             !.row = r, !.qty = q, !.delta = Quantity(r) - q]>>)
      BY <1>16, ZenonT(40) DEF Move
    <3>2. \A l, b, s : \A r \in RowsAt(l, b, s) : r \in DOMAIN rows /\ rows[r].lot = l
      BY DEF RowsAt, RowsOf
    <3>. QED  BY <3>1, <3>2, ZenonT(40)
  <2>. DEFINE x == [Blank EXCEPT !.call = "moveInto", !.lot = l, !.bin = to, !.status = s,
                                 !.row = r, !.qty = q, !.delta = Quantity(r) - q]
              list == <<x>>
  <2>2. Len(list) = 1 /\ list[1] = x
    OBVIOUS
  <2>3. Begin(c, "move", list)
    BY <2>1
  <2>4. x.call = "moveInto" /\ x.row = r /\ x.lot = l /\ x.qty = q /\ x.delta = rows[r].qty - q
    BY DEF Blank, Quantity
  <2>. HIDE DEF list, x
  <2>5. todo'[c] = list /\ count'.made = count.made
    BY <1>4, <2>3
  <2>6. Fresh(rows, x)
    BY <2>4 DEF Fresh
  <2>. QED  BY <1>6, <2>1, <2>2, <2>4, <2>5, <2>6 DEF Moving
<1>17. ASSUME Sweep(c)
       PROVE  Goal
  <2>. DEFINE stale == Ascending(StaleRows)
              list == [i \in DOMAIN stale |-> Quarantine(stale[i])]
  <2>1. Begin(c, "sweep", list)
    BY <1>17 DEF Sweep, StaleRows
  <2>2. DOMAIN list = DOMAIN stale
    OBVIOUS
  <2>3. \A i \in DOMAIN list : /\ list[i].call = "quarantine" /\ list[i].row = stale[i]
                               /\ list[i].lot = rows[stale[i]].lot /\ list[i].qty = rows[stale[i]].qty
    BY DEF Quarantine, Blank
  <2>4. /\ \A i \in DOMAIN stale : stale[i] \in StaleRows
        /\ \A i, j \in DOMAIN stale : stale[i] = stale[j] => i = j
    <3>1. StaleRows \in SUBSET DOMAIN rows /\ IsFiniteSet(StaleRows) /\ StaleRows \in SUBSET Nat
      BY <1>0, RowsFinite, FS_Subset DEF StaleRows
    <3>2. Listing(stale, Cardinality(StaleRows), StaleRows, {p \in StaleRows \X StaleRows : p[1] < p[2]})
      BY <3>1, AscendingLists
    <3>. HIDE DEF stale
    <3>. QED  BY <3>2 DEF Listing
  <2>. HIDE DEF list, stale
  <2>5. todo'[c] = list /\ DOMAIN list = 1..Len(list) /\ count'.made = count.made
    BY <1>4, <2>1
  <2>6. \A i \in DOMAIN list : /\ list[i].row \in DOMAIN rows
                               /\ rows[list[i].row].status = "available"
    BY <2>2, <2>3, <2>4 DEF StaleRows
  <2>. QED  BY <1>6, <2>2, <2>3, <2>4, <2>5, <2>6 DEF Sweeping
<1>18. ASSUME UpdateStatus(c)
       PROVE  Goal
  <2>. DEFINE list == <<>>
  <2>1. Begin(c, "status", list) /\ DOMAIN list = {}
    BY <1>18 DEF UpdateStatus
  <2>. HIDE DEF list
  <2>2. todo'[c] = list /\ DOMAIN list = 1..Len(list) /\ count'.made = count.made
    BY <1>4, <2>1
  <2>3. NoShips(list)
    BY <2>1, <2>2 DEF NoShips
  <2>4. Planned(rows, lotStatus', list)
    BY <2>3, NothingPlanned
  <2>5. \A i \in 1..Len(list) : list[i].call = "ship"
    BY <2>1, <2>2
  <2>6. Begun(list)
    BY <2>2, <2>4, <2>5 DEF Shipping, Begun
  <2>. QED  BY <2>2, <2>3, <2>6 DEF Goal
<1>19. Pick(c) \/ (Goal /\ pick' = pick)
  <2>1. Pick(c) \/ Goal
    BY <1>10, <1>12, <1>14, <1>15, <1>16, <1>17, <1>18, Zenon DEF Starts
  <2>2. Pick(c) \/ pick' = pick
    BY DEF Starts, Produce, Reserve, Release, Adjust, SetQuantity, Move, Sweep, UpdateStatus
  <2>. QED  BY <2>1, <2>2
<1>. QED  BY <1>1, <1>2, <1>5, <1>11, <1>19 DEF Goal

(* With one caller, a step opens a list, goes on with it, or cuts it short. *)
Opens(c) ==
  /\ todo[c] = <<>> /\ Begun(todo'[c])
  /\ rows' = rows /\ agg' = agg /\ posted' = posted /\ count'.faults = count.faults
  /\ ~count'.adjusted => ~count.adjusted
  /\ \/ pick'[c] = pick[c] /\ NoShips(todo'[c])
     \/ (\A i \in 1..Len(todo'[c]) : todo'[c][i].call = "ship") /\ Asked(rows, todo'[c], pick'[c])
Cuts(c) ==
  /\ todo'[c] = <<>>
  /\ rows' = rows /\ count'.faults = count.faults + 1 /\ count'.made = count.made /\ count'.adjusted = count.adjusted
Turn(c) == UNCHANGED vars \/ Opens(c) \/ Resolves(c) \/ Writes(c) \/ Cuts(c)

LEMMA EachTurn ==
  ASSUME CountInv, CountInv', Distinct(rows), NEW c \in Callers, Occupied(desk[c], todo[c]),
         \A i \in 1..Len(desk[c].left) : desk[c].left[i].lot \in Lots => Made(desk[c].left[i].lot),
         CountStep(c) \/ (StockStep(c) /\ UNCHANGED countVars) \/ UNCHANGED <<vars, countVars>>
  PROVE  Turn(c)
<1>1. /\ StockInv /\ StockInv' /\ todo \in [Callers -> Seq(Calls)] /\ TypeOK
      /\ count \in [calls : Nat, faults : Nat, made : Nat, adjusted : BOOLEAN]
      /\ desk \in [Callers -> DeskType] /\ Ready(desk[c])
  BY DEF CountInv, StockInv, TypeOK
<1>2. ASSUME Starts(c)
      PROVE  Opens(c)
  BY <1>1, <1>2, StartsBegin DEF Opens
<1>3. ASSUME Throw(c), count' = [count EXCEPT !.faults = @ + 1], rows' = rows
      PROVE  Cuts(c)
  BY <1>1, <1>3 DEF Cuts, Throw
<1>4. ASSUME StockStep(c)
      PROVE  Turn(c)
  BY <1>2, <1>3, <1>4 DEF StockStep, CutShort, Turn, Writes
<1>5. ASSUME \/ Create(c) \/ BeginGenerate(c) \/ ClearPending(c) \/ ReadBalances(c) \/ ReadAggregate(c)
             \/ InsertLines(c) \/ BeginRecord(c) \/ WriteRecord(c) \/ FlagForRecount(c)
             \/ BeginMove(c) \/ ReadLines(c) \/ WriteStatus(c) \/ SkipLine(c) \/ StampLine(c)
       PROVE  UNCHANGED vars
  BY <1>5, Zenon
  DEF Create, BeginGenerate, ClearPending, ReadBalances, ReadAggregate, InsertLines, BeginRecord,
              WriteRecord, FlagForRecount, BeginMove, ReadLines, WriteStatus, SkipLine, StampLine
<1>6. ASSUME PostVariance(c)
      PROVE  UNCHANGED vars \/ Opens(c)
  <2>. DEFINE line == Head(desk[c].left)
  <2>1. /\ desk[c].pc = "post" /\ desk[c].left # <<>>
        /\ rows' = rows /\ lotStatus' = lotStatus /\ agg' = agg /\ posted' = posted /\ pick' = pick
    BY <1>6 DEF PostVariance, Does
  <2>2. todo[c] = <<>>
    BY <2>1 DEF Occupied
  <2>3. line.variance \in Int /\ (line.lot \in Lots => Made(line.lot))
    <3>1. desk[c].left \in Seq([id : Nat, lot : Lots \cup {NoLot}, variance : Int])
      BY <1>1 DEF DeskType
    <3>2. line \in [id : Nat, lot : Lots \cup {NoLot}, variance : Int]
      BY <2>1, <3>1, HeadTailProperties
    <3>3. line = desk[c].left[1] /\ Len(desk[c].left) \in Nat \ {0}
      BY <2>1, <3>1, LenProperties, EmptySeq
    <3>. HIDE DEF line
    <3>. QED  BY <3>2, <3>3
  <2>4. CASE todo' = todo /\ count' = count
    BY <2>1, <2>4 DEF vars
  <2>5. CASE ~(todo' = todo /\ count' = count)
    <3>1. PICK current \in InLot(line.lot) :
            /\ todo' = [todo EXCEPT ![c] = <<Adjustment(line.lot, line.variance, current)>>]
            /\ count' = [count EXCEPT !.adjusted = TRUE]
      BY <1>6, <2>5 DEF PostVariance
    <3>2. todo'[c] = <<Adjustment(line.lot, line.variance, current)>>
      BY <1>1, <3>1
    <3>3. count'.adjusted /\ count'.made = count.made /\ count'.faults = count.faults
      BY <1>1, <3>1
    <3>. HIDE DEF line
    <3>4. Adjusting(todo'[c])
      BY <1>1, <2>3, <3>2, <3>3, AdjustmentOpens
    <3>5. NoShips(todo'[c])
      BY <3>4, OthersShipNothing
    <3>. QED  BY <2>1, <2>2, <3>3, <3>4, <3>5 DEF Opens, Begun
  <2>. QED  BY <2>4, <2>5
<1>7. ASSUME PostedLine(c)
      PROVE  Writes(c)
  BY <1>7 DEF PostedLine, Writes
<1>8. ASSUME RequestFails(c)
      PROVE  Cuts(c)
  BY <1>3, <1>8 DEF RequestFails
<1>9. UNCHANGED <<vars, countVars>> => UNCHANGED vars
  OBVIOUS
<1>. QED  BY <1>4, <1>5, <1>6, <1>7, <1>8, <1>9, Zenon DEF CountStep, Turn

LEMMA EmptyList == Len(<<>>) = 0 /\ \A i : i \notin 1..Len(<<>>)
BY EmptySeq

LEMMA RowsTurn ==
  ASSUME StockInv, StockInv', NEW c \in Callers, \A e \in Callers : e = c, Turn(c), RowsInv
  PROVE  RowsInv'
<1>1. Distinct(rows) /\ UpToDate(rows, todo[c])
  BY DEF RowsInv
<1>2. ASSUME Distinct(rows'), UpToDate(rows', todo'[c])
      PROVE  RowsInv'
  BY <1>2, Zenon DEF RowsInv
<1>3. CASE UNCHANGED vars
  BY <1>1, <1>2, <1>3 DEF vars
<1>4. CASE Opens(c)
  <2>1. rows' = rows /\ Begun(todo'[c])
    BY <1>4 DEF Opens
  <2>2. UpToDate(rows, todo'[c])
    <3>. DEFINE s == todo'[c]
    <3>. SUFFICES ASSUME NEW i \in 1..Len(s)
                  PROVE  (i = 1 /\ Fresh(rows, s[1])) \/ s[i].call \notin JustRead
      BY DEF UpToDate
    <3>. HIDE DEF s
    <3>1. CASE Producing(s)
      <4>1. \A l, q : /\ Put(l, NoBin, "available", q).call = "put" /\ Post(l, q).call = "post"
                      /\ AddAgg(q).call = "addAgg"
        BY DEF Put, Post, AddAgg, Blank
      <4>2. Len(s) = 3 /\ s[1].call = "put" /\ s[2].call = "post" /\ s[3].call = "addAgg"
        BY <3>1, <4>1 DEF Producing
      <4>. QED  BY <4>2 DEF JustRead
    <3>2. CASE Shipping(s) \/ Sweeping(s)
      BY <3>2 DEF Shipping, Sweeping, JustRead
    <3>3. CASE Shifting(s)
      <4>1. \A r, l, q : /\ Set(r, q).call = "set" /\ Put(l, NoBin, "reserved", q).call = "put"
                         /\ Lookup(l, "available", q).call = "lookup"
        BY DEF Set, Put, Lookup, Blank
      <4>2. Len(s) = 2 /\ s[1].call = "set" /\ s[2].call \in {"put", "lookup"}
        BY <3>3, <4>1 DEF Shifting
      <4>. QED  BY <4>2 DEF JustRead
    <3>4. CASE Adjusting(s) \/ Moving(s)
      BY <3>4 DEF Adjusting, Moving
    <3>. QED  BY <2>1, <3>1, <3>2, <3>3, <3>4 DEF Begun, s
  <2>. QED  BY <1>1, <1>2, <2>1, <2>2
<1>5. CASE Resolves(c)
  BY <1>2, <1>5, ResolvesRows
<1>6. CASE Writes(c)
  BY <1>2, <1>6, WritesRows
<1>7. CASE Cuts(c)
  BY <1>1, <1>2, <1>7, EmptyList DEF Cuts, UpToDate
<1>. QED  BY <1>3, <1>4, <1>5, <1>6, <1>7 DEF Turn

-----------------------------------------------------------------------------
(* Every row is of a lot that was made, and so is every row still to come.  *)
Storing == {"put", "insert", "lookup", "adjustAgg", "moveInto", "quarantine"}
Stored(ls, k) == k.call \in Storing /\ k.lot \in Lots => ls[k.lot] # "none"
MadeOf(ls, s) == \A i \in DOMAIN s : s[i].lot \in Lots => ls[s[i].lot] # "none"
StockMade ==
  /\ MadeOf(lotStatus, rows)
  /\ \A c \in Callers : \A i \in 1..Len(todo[c]) : Stored(lotStatus, todo[c][i])
CountMade ==
  MadeOf(lotStatus, lines) /\ \A c \in Callers : MadeOf(lotStatus, desk[c].snap) /\ MadeOf(lotStatus, desk[c].left)

LEMMA MadeStays ==
  ASSUME CountInv, NEW c \in Callers,
         CountStep(c) \/ (StockStep(c) /\ UNCHANGED countVars) \/ UNCHANGED <<vars, countVars>>
  PROVE  \A l \in Lots : Made(l) => lotStatus'[l] # "none"
<1>1. lotStatus \in [Lots -> LotStatuses \cup {"none"}] /\ "none" \notin LotStatuses
  BY DEF CountInv, StockInv, TypeOK, LotStatuses
<1>2. CASE lotStatus' = lotStatus
  BY <1>2 DEF Made
<1>3. CASE \E l \in Lots, s \in LotStatuses : lotStatus' = [lotStatus EXCEPT ![l] = s]
  BY <1>1, <1>3 DEF Made
<1>4. Produce(c) \/ UpdateStatus(c) => \E l \in Lots, s \in LotStatuses : lotStatus' = [lotStatus EXCEPT ![l] = s]
  BY DEF Produce, UpdateStatus, LotStatuses
<1>5. ExpireLot(c) => \E l \in Lots, s \in LotStatuses : lotStatus' = [lotStatus EXCEPT ![l] = s]
  <2>. SUFFICES ASSUME ExpireLot(c)
                PROVE  \E l \in Lots, s \in LotStatuses : lotStatus' = [lotStatus EXCEPT ![l] = s]
    OBVIOUS
  <2>1. Doing(c, "expire") /\ lotStatus' = [lotStatus EXCEPT ![next(c).lot] = "expired"]
    BY DEF ExpireLot
  <2>2. next(c).lot \in Lots
    BY <2>1, HeadSound DEF Sound, WithLot, CountInv
  <2>. QED  BY <2>1, <2>2 DEF LotStatuses
<1>6. Pure \/ (\E x : x = lotStatus /\ lotStatus' = x) => lotStatus' = lotStatus
  BY DEF Pure
<1>7. Pick(c) \/ Reserve(c) \/ Release(c) \/ Adjust(c) \/ SetQuantity(c) \/ Move(c) \/ Sweep(c) => lotStatus' = lotStatus
  <2>1. Pick(c) \/ Reserve(c) \/ Release(c) => lotStatus' = lotStatus
    BY Zenon DEF Pick, Reserve, Release, Pure
  <2>2. Adjust(c) \/ SetQuantity(c) \/ Move(c) \/ Sweep(c) => lotStatus' = lotStatus
    BY Zenon DEF Adjust, SetQuantity, Move, Sweep, Pure
  <2>. QED  BY <2>1, <2>2
<1>8. Resolves(c) \/ CutShort(c) => lotStatus' = lotStatus
  BY DEF Resolves, ShipRead, ShipResolve, AdjustResolve, MoveResolve, LookupRow, QuarantineRow, PutRow, CutShort
<1>9. InsertRow(c) \/ SetRow(c) \/ WriteAgg(c) \/ Increment(c) \/ PostEntry(c) => lotStatus' = lotStatus
  BY DEF InsertRow, SetRow, WriteAgg, Increment, PostEntry
<1>10. CountStep(c) => lotStatus' = lotStatus
  BY <1>9, Zenon
  DEF CountStep, Create, BeginGenerate, ClearPending, ReadBalances, ReadAggregate, InsertLines, BeginRecord,
      WriteRecord, FlagForRecount, BeginMove, ReadLines, WriteStatus, PostVariance, SkipLine, PostedLine,
      StampLine, RequestFails, vars
<1>11. UNCHANGED <<vars, countVars>> => lotStatus' = lotStatus
  BY DEF vars
<1>. QED
  BY <1>2, <1>3, <1>4, <1>5, <1>7, <1>8, <1>9, <1>10, <1>11, Zenon DEF StockStep, Starts, Writes

(* The calls of a list that goes on are new ones or old ones.               *)
LEMMA Followed ==
  ASSUME NEW S, NEW s \in Seq(S), s # <<>>, NEW R, NEW list \in Seq(R), NEW i \in 1..Len(list \o Tail(s))
  PROVE  (\E j \in 1..Len(list) : (list \o Tail(s))[i] = list[j]) \/ (\E j \in 1..Len(s) : (list \o Tail(s))[i] = s[j])
<1>. DEFINE t == list \o Tail(s)
            m == Len(list)
<1>0. m = Len(list) /\ t = list \o Tail(s) /\ i \in 1..Len(t)
  OBVIOUS
<1>1. /\ Behind(t, m, s, 1) /\ m \in Nat /\ Len(s) \in Nat /\ Len(s) >= 1 /\ Len(t) = m + Len(s) - 1
      /\ \A j \in 1..m : t[j] = list[j]
  BY RestBehind
<1>. DEFINE Goal == (\E j \in 1..Len(list) : t[i] = list[j]) \/ (\E j \in 1..Len(s) : t[i] = s[j])
<1>. HIDE DEF t, m
<1>2. ASSUME i <= m
      PROVE  Goal
  <2>1. i \in 1..m
    BY <1>0, <1>1, <1>2
  <2>. QED  BY <1>0, <1>1, <2>1
<1>3. ASSUME i > m
      PROVE  Goal
  <2>1. i - m + 1 \in 1..Len(s) /\ t[i] = s[i - m + 1]
    BY <1>0, <1>1, <1>3, BehindSame
  <2>. QED  BY <2>1
<1>4. i <= m \/ i > m
  BY <1>0, <1>1
<1>. HIDE DEF Goal
<1>5. Goal
  BY <1>2, <1>3, <1>4
<1>. QED  BY <1>5 DEF t, Goal

LEMMA MadeTurn ==
  ASSUME StockInv, StockInv', NEW c \in Callers, \A e \in Callers : e = c, Turn(c), StockMade,
         \A l \in Lots : Made(l) => lotStatus'[l] # "none"
  PROVE  StockMade'
<1>. DEFINE Goal == StockMade'
<1>1. /\ rows \in Seq(Row) /\ todo \in [Callers -> Seq(Calls)] /\ todo[c] \in Seq(Calls)
      /\ \A r \in DOMAIN rows : rows[r].lot \in Lots
  BY RowsOfType DEF StockInv, TypeOK, Row
<1>2. /\ \A r \in DOMAIN rows : lotStatus[rows[r].lot] # "none" /\ lotStatus'[rows[r].lot] # "none"
      /\ \A i \in 1..Len(todo[c]) : Stored(lotStatus, todo[c][i])
  BY <1>1 DEF StockMade, MadeOf, Made
<1>3. ASSUME MadeOf(lotStatus', rows'), \A i \in 1..Len(todo'[c]) : Stored(lotStatus', todo'[c][i])
      PROVE  Goal
  BY <1>3, Zenon DEF StockMade
<1>4. \A k : Stored(lotStatus, k) => Stored(lotStatus', k)
  BY DEF Stored, Made
<1>. HIDE DEF Goal
<1>5. ASSUME rows' = rows, \A i \in 1..Len(todo'[c]) : Stored(lotStatus', todo'[c][i])
      PROVE  Goal
  <2>1. MadeOf(lotStatus', rows')
    BY <1>2, <1>5 DEF MadeOf
  <2>. QED  BY <1>3, <1>5, <2>1
<1>6. ASSUME UNCHANGED vars
      PROVE  Goal
  BY <1>2, <1>4, <1>5, <1>6 DEF vars
<1>7. ASSUME Cuts(c)
      PROVE  Goal
  BY <1>5, <1>7, EmptyList DEF Cuts
<1>8. ASSUME Opens(c)
      PROVE  Goal
  <2>. DEFINE s == todo'[c]
  <2>1. rows' = rows /\ Begun(s)
    BY <1>8 DEF Opens
  <2>. SUFFICES ASSUME NEW i \in 1..Len(s), s[i].call \in Storing, s[i].lot \in Lots
                PROVE  lotStatus'[s[i].lot] # "none"
    <3>1. ASSUME \A i \in 1..Len(s) : Stored(lotStatus', s[i])
          PROVE  Goal
      BY <1>5, <2>1, <3>1
    <3>. QED  BY <3>1 DEF Stored
  <2>. HIDE DEF s
  <2>2. CASE Producing(s)
    <3>1. \A l, q : /\ Put(l, NoBin, "available", q).lot = l
                    /\ Post(l, q).call = "post" /\ AddAgg(q).call = "addAgg"
      BY DEF Put, Post, AddAgg, Blank
    <3>2. PICK l \in Lots : /\ lotStatus'[l] # "none" /\ Len(s) = 3
                            /\ s[1].lot = l /\ s[2].call = "post" /\ s[3].call = "addAgg"
      BY <2>2, <3>1 DEF Producing
    <3>. QED  BY <3>2 DEF Storing
  <2>3. CASE Shipping(s)
    BY <2>3 DEF Shipping, Storing
  <2>4. CASE Sweeping(s)
    BY <1>2, <2>4 DEF Sweeping
  <2>5. CASE Shifting(s)
    <3>1. \A r, l, q : /\ Set(r, q).call = "set" /\ Put(l, NoBin, "reserved", q).lot = l
                       /\ Lookup(l, "available", q).lot = l
      BY DEF Set, Put, Lookup, Blank
    <3>2. PICK r \in DOMAIN rows : Len(s) = 2 /\ s[1].call = "set" /\ s[2].lot = rows[r].lot
      BY <2>5, <3>1 DEF Shifting
    <3>3. i = 1 \/ i = 2
      BY <3>2
    <3>. QED  BY <1>2, <3>2, <3>3 DEF Storing
  <2>6. CASE Adjusting(s)
    <3>1. i = 1
      BY <2>6 DEF Adjusting
    <3>. QED  BY <2>6, <3>1 DEF Adjusting
  <2>7. CASE Moving(s)
    <3>1. i = 1
      BY <2>7 DEF Moving
    <3>. QED  BY <1>2, <2>7, <3>1 DEF Moving
  <2>. QED  BY <2>1, <2>2, <2>3, <2>4, <2>5, <2>6, <2>7 DEF Begun
<1>9. ASSUME NEW name, Doing(c, name), NEW R, NEW list \in Seq(R), Follow(c, list),
             \A j \in 1..Len(list) : Stored(lotStatus, list[j])
      PROVE  \A i \in 1..Len(todo'[c]) : Stored(lotStatus', todo'[c][i])
  <2>1. todo'[c] = list \o Tail(todo[c]) /\ todo[c] # <<>>
    BY <1>9, GoesOnWith DEF Doing
  <2>. SUFFICES ASSUME NEW i \in 1..Len(list \o Tail(todo[c]))
                PROVE  Stored(lotStatus, (list \o Tail(todo[c]))[i])
    BY <1>4, <2>1
  <2>. QED  BY <1>1, <1>2, <1>9, <2>1, Followed
<1>10. ASSUME NEW name, Doing(c, name)
       PROVE  /\ next(c).call = name /\ next(c) \in Calls /\ Sound(next(c), DOMAIN rows)
              /\ name \in Storing /\ next(c).lot \in Lots => lotStatus[next(c).lot] # "none"
  <2>1. todo[c] # <<>> /\ next(c) = todo[c][1] /\ 1 \in 1..Len(todo[c]) /\ next(c).call = name
        /\ next(c) \in Calls /\ Sound(next(c), DOMAIN rows)
    BY <1>10, HeadSound DEF Sound
  <2>. QED  BY <1>2, <2>1 DEF Stored
<1>11. ASSUME Writes(c)
      PROVE  Goal
  <2>. DEFINE list == <<>>
  <2>1. list \in Seq(Calls) /\ \A j \in 1..Len(list) : Stored(lotStatus, list[j])
    BY EmptyList
  <2>2. PICK name : Doing(c, name) /\ Follow(c, <<>>)
    BY <1>11 DEF Writes, InsertRow, SetRow, WriteAgg, Increment, ExpireLot, PostEntry
  <2>3. Follow(c, list)
    BY <2>2
  <2>. HIDE DEF list
  <2>4. \A i \in 1..Len(todo'[c]) : Stored(lotStatus', todo'[c][i])
    BY <1>9, <2>1, <2>2, <2>3
  <2>5. ASSUME InsertRow(c)
        PROVE  Goal
    <3>. DEFINE x == [lot |-> next(c).lot, bin |-> next(c).bin, status |-> next(c).status, qty |-> next(c).qty]
    <3>1. Doing(c, "insert") /\ rows' = Append(rows, x)
      BY <2>5 DEF InsertRow
    <3>2. next(c).lot \in Lots /\ lotStatus'[next(c).lot] # "none"
      BY <1>10, <3>1 DEF Sound, WithLot, Storing, Made
    <3>3. x.lot = next(c).lot /\ x \in Row
      BY <1>10, <3>1, <3>2 DEF Calls, Row
    <3>. HIDE DEF x
    <3>4. \A r \in DOMAIN rows' : (r \in DOMAIN rows /\ rows'[r] = rows[r]) \/ rows'[r] = x
      BY <1>1, <3>1, <3>3, AllAppend
    <3>5. MadeOf(lotStatus', rows')
      BY <1>2, <3>2, <3>3, <3>4 DEF MadeOf
    <3>. QED  BY <1>3, <2>4, <3>5
  <2>6. ASSUME SetRow(c)
        PROVE  Goal
    <3>1. Doing(c, "set") /\ rows' = [rows EXCEPT ![next(c).row].qty = next(c).qty]
      BY <2>6 DEF SetRow
    <3>2. next(c).row \in DOMAIN rows /\ next(c).qty \in Nat
      BY <1>10, <3>1 DEF Sound, WithRow, Calls
    <3>3. DOMAIN rows' = DOMAIN rows /\ \A r \in DOMAIN rows : rows'[r].lot = rows[r].lot
      BY <1>1, <3>1, <3>2, AllSet DEF Written
    <3>4. MadeOf(lotStatus', rows')
      BY <1>2, <3>3 DEF MadeOf
    <3>. QED  BY <1>3, <2>4, <3>4
  <2>7. ASSUME WriteAgg(c) \/ Increment(c) \/ ExpireLot(c) \/ PostEntry(c)
        PROVE  Goal
    <3>1. rows' = rows
      BY <2>7 DEF WriteAgg, Increment, ExpireLot, PostEntry
    <3>. QED  BY <1>5, <2>4, <3>1
  <2>. QED  BY <1>11, <2>5, <2>6, <2>7 DEF Writes
<1>12. ASSUME Resolves(c)
      PROVE  Goal
  <2>. DEFINE k == next(c)
              ls == lotStatus
  <2>1. rows' = rows
    BY <1>12 DEF Resolves, ShipRead, ShipResolve, AdjustResolve, MoveResolve, LookupRow, QuarantineRow, PutRow
  <2>2. ASSUME Throw(c)
        PROVE  Goal
    <3>1. todo'[c] = <<>>
      BY <1>1, <2>2 DEF Throw
    <3>. QED  BY <1>5, <2>1, <3>1, EmptyList
  <2>3. ASSUME NEW name, Doing(c, name), NEW R, NEW list \in Seq(R), Follow(c, list),
               \A j \in 1..Len(list) : Stored(ls, list[j])
        PROVE  Goal
    BY <1>5, <1>9, <2>1, <2>3
  <2>4. ASSUME NEW name, Doing(c, name), NEW x, Stored(ls, x), Follow(c, <<x>>)
        PROVE  Goal
    <3>1. <<x>> \in Seq({x}) /\ \A j \in 1..Len(<<x>>) : <<x>>[j] = x
      BY OfCalls
    <3>. QED  BY <2>3, <2>4, <3>1
  <2>5. ASSUME NEW name, Doing(c, name), NEW x, Stored(ls, x), NEW y, Stored(ls, y), Follow(c, <<x, y>>)
        PROVE  Goal
    <3>1. <<x, y>> \in Seq({x, y}) /\ \A j \in 1..Len(<<x, y>>) : <<x, y>>[j] \in {x, y}
      BY OfCalls
    <3>. QED  BY <2>3, <2>5, <3>1
  <2>6. ASSUME NEW name, Doing(c, name), NEW x, Stored(ls, x), NEW y, Stored(ls, y), NEW z, Stored(ls, z),
               Follow(c, <<x, y, z>>)
        PROVE  Goal
    <3>1. <<x, y, z>> \in Seq({x, y, z}) /\ \A j \in 1..Len(<<x, y, z>>) : <<x, y, z>>[j] \in {x, y, z}
      BY OfCalls
    <3>. QED  BY <2>3, <2>6, <3>1
  <2>7. /\ \A r, q : Stored(ls, Set(r, q)) /\ Stored(ls, SetAgg(q))
        /\ \A l, d : Stored(ls, Post(l, d)) /\ Stored(ls, Expire(l))
    BY DEF Set, SetAgg, Post, Expire, Blank, Stored, Storing
  <2>8. ASSUME NEW name \in Storing, Doing(c, name), NEW b, NEW s, NEW q
        PROVE  Stored(ls, Put(k.lot, b, s, q))
    BY <1>10, <2>8 DEF Put, Blank, Stored
  <2>. HIDE DEF k, ls
  <2>9. ASSUME ShipRead(c)
        PROVE  Goal
    <3>1. Doing(c, "ship") /\ (Throw(c) \/ \E r : Follow(c, <<[k EXCEPT !.call = "shipAgg", !.row = r, !.delta = Quantity(r)]>>))
      BY <2>9 DEF ShipRead, k
    <3>2. k \in Calls
      BY <1>10, <3>1 DEF k
    <3>3. \A r, q : Stored(ls, [k EXCEPT !.call = "shipAgg", !.row = r, !.delta = q])
      BY <3>2 DEF Stored, Storing, Calls
    <3>. QED  BY <2>2, <2>4, <3>1, <3>3
  <2>10. ASSUME ShipResolve(c)
         PROVE  Goal
    <3>1. Doing(c, "shipAgg") /\ (Throw(c) \/ Follow(c, <<Set(k.row, k.delta - k.qty), SetAgg(agg - k.qty), Post(k.lot, -k.qty)>>))
      BY <2>10 DEF ShipResolve, k
    <3>. QED  BY <2>2, <2>6, <2>7, <3>1
  <2>11. ASSUME AdjustResolve(c)
         PROVE  Goal
    <3>. DEFINE x == Put(k.lot, NoBin, "available", k.qty)
                y == SetAgg(agg + k.delta)
                z == Post(k.lot, k.delta)
    <3>1. <<>> \o <<y, z>> = <<y, z>> /\ <<x>> \o <<y, z>> = <<x, y, z>>
      BY ConcatOneTwo
    <3>2. Doing(c, "adjustAgg") /\ (Throw(c) \/ Follow(c, (IF k.lot = NoLot THEN <<>> ELSE <<x>>) \o <<y, z>>))
      BY <2>11 DEF AdjustResolve, k
    <3>3. Stored(ls, x) /\ Stored(ls, y) /\ Stored(ls, z)
      BY <2>7, <2>8, <3>2 DEF Storing
    <3>. HIDE DEF x, y, z
    <3>. QED  BY <2>2, <2>5, <2>6, <3>1, <3>2, <3>3
  <2>12. ASSUME MoveResolve(c)
         PROVE  Goal
    <3>1. Doing(c, "moveInto") /\ (Throw(c) \/ \E q : Follow(c, <<Set(k.row, k.delta), Put(k.lot, k.bin, k.status, q)>>))
      BY <2>12 DEF MoveResolve, k
    <3>2. \A q : Stored(ls, Put(k.lot, k.bin, k.status, q))
      BY <2>8, <3>1 DEF Storing
    <3>. QED  BY <2>2, <2>5, <2>7, <3>1, <3>2
  <2>13. ASSUME LookupRow(c)
         PROVE  Goal
    <3>1. Doing(c, "lookup") /\ \E q : Follow(c, <<Put(k.lot, NoBin, k.status, q)>>)
      BY <2>13 DEF LookupRow, k
    <3>2. \A q : Stored(ls, Put(k.lot, NoBin, k.status, q))
      BY <2>8, <3>1 DEF Storing
    <3>. QED  BY <2>4, <3>1, <3>2
  <2>14. ASSUME QuarantineRow(c)
         PROVE  Goal
    <3>1. Doing(c, "quarantine") /\ \E q : Follow(c, <<Put(k.lot, NoBin, "quarantine", q), Set(k.row, 0), Expire(k.lot)>>)
      BY <2>14 DEF QuarantineRow, k
    <3>2. \A q : Stored(ls, Put(k.lot, NoBin, "quarantine", q))
      BY <2>8, <3>1 DEF Storing
    <3>. QED  BY <2>6, <2>7, <3>1, <3>2
  <2>15. ASSUME PutRow(c)
         PROVE  Goal
    <3>1. Doing(c, "put") /\ ((\E r : Follow(c, <<Set(r, k.qty)>>)) \/ Follow(c, <<[k EXCEPT !.call = "insert"]>>))
      BY <2>15 DEF PutRow, k
    <3>2. k \in Calls /\ Stored(ls, k) /\ k.call = "put"
      BY <1>10, <3>1 DEF k, ls, Stored, Storing
    <3>3. Stored(ls, [k EXCEPT !.call = "insert"])
      BY <3>2 DEF Stored, Storing, Calls
    <3>4. ASSUME NEW r, Follow(c, <<Set(r, k.qty)>>)
          PROVE  Goal
      BY <2>4, <2>7, <3>1, <3>4
    <3>. QED  BY <2>4, <3>1, <3>3, <3>4
  <2>. QED  BY <1>12, <2>9, <2>10, <2>11, <2>12, <2>13, <2>14, <2>15, Zenon DEF Resolves
<1>. QED  BY <1>6, <1>7, <1>8, <1>11, <1>12 DEF Turn, Goal

LEMMA CountMadeStep ==
  ASSUME CountInv, NEW c \in Callers, StockMade, CountMade,
         CountStep(c) \/ (StockStep(c) /\ UNCHANGED countVars) \/ UNCHANGED <<vars, countVars>>
  PROVE  CountMade'
<1>. DEFINE Goal == CountMade'
            d == desk[c]
            ls == lotStatus
<1>1. /\ StockInv /\ TypeOK /\ lines \in Seq(LineType) /\ desk \in [Callers -> DeskType] /\ d \in DeskType
      /\ DOMAIN lines = 1..Len(lines) /\ Len(lines) \in Nat
      /\ d.snap \in Seq(LineType) /\ d.left \in Seq([id : Nat, lot : Lots \cup {NoLot}, variance : Int]) /\ Ready(d)
  BY LenProperties DEF CountInv, StockInv, DeskType
<1>2. MadeOf(ls, lines) /\ MadeOf(ls, d.snap) /\ MadeOf(ls, d.left) /\ MadeOf(ls, rows)
  BY DEF CountMade, StockMade
<1>3. \A l \in Lots : Made(l) => lotStatus'[l] # "none"
  BY MadeStays
<1>4. \A s : MadeOf(ls, s) => MadeOf(lotStatus', s)
  BY <1>3 DEF MadeOf, Made
<1>5. \A e \in Callers : MadeOf(lotStatus', desk[e].snap) /\ MadeOf(lotStatus', desk[e].left)
  BY <1>4 DEF CountMade
<1>6. ASSUME MadeOf(ls, lines'), NEW e, desk' = [desk EXCEPT ![c] = e], MadeOf(ls, e.snap), MadeOf(ls, e.left)
      PROVE  Goal
  <2>1. \A x \in Callers : desk'[x] = IF x = c THEN e ELSE desk[x]
    BY <1>1, <1>6
  <2>2. \A x \in Callers : MadeOf(lotStatus', desk'[x].snap) /\ MadeOf(lotStatus', desk'[x].left)
    BY <1>4, <1>5, <1>6, <2>1
  <2>. QED  BY <1>4, <1>6, <2>2 DEF CountMade
<1>7. MadeOf(ls, <<>>)
  BY DEF MadeOf
<1>8. MadeOf(ls, IdleDesk.snap) /\ MadeOf(ls, IdleDesk.left)
  BY <1>7 DEF IdleDesk
<1>9. /\ \A pc : Turns(c, pc) => desk' = [desk EXCEPT ![c] = [d EXCEPT !.pc = pc]]
      /\ NextLine(c) => desk' = [desk EXCEPT ![c] = [d EXCEPT !.pc = "post", !.left = Tail(@)]]
      /\ Ends(c) => desk' = [desk EXCEPT ![c] = IdleDesk]
      /\ desk' = desk => desk' = [desk EXCEPT ![c] = d]
  BY <1>1 DEF Turns, NextLine, Ends
<1>10. \A pc : [d EXCEPT !.pc = pc].snap = d.snap /\ [d EXCEPT !.pc = pc].left = d.left
  BY <1>1 DEF DeskType
<1>11. ASSUME d.left # <<>>
       PROVE  /\ [d EXCEPT !.pc = "post", !.left = Tail(@)].snap = d.snap
              /\ [d EXCEPT !.pc = "post", !.left = Tail(@)].left = Tail(d.left) /\ MadeOf(ls, Tail(d.left))
  <2>1. /\ Tail(d.left) \in Seq([id : Nat, lot : Lots \cup {NoLot}, variance : Int]) /\ Len(d.left) \in Nat \ {0}
        /\ Len(Tail(d.left)) = Len(d.left) - 1 /\ \A i \in 1..(Len(d.left) - 1) : Tail(d.left)[i] = d.left[i + 1]
    BY <1>1, <1>11, HeadTailProperties, LenProperties, EmptySeq
  <2>2. DOMAIN Tail(d.left) = 1..(Len(d.left) - 1) /\ DOMAIN d.left = 1..Len(d.left)
    BY <1>1, <2>1, LenProperties
  <2>3. MadeOf(ls, Tail(d.left))
    <3>1. \A i \in DOMAIN Tail(d.left) : i + 1 \in DOMAIN d.left /\ Tail(d.left)[i] = d.left[i + 1]
      BY <2>1, <2>2, SMTT(20)
    <3>. QED  BY <1>2, <3>1 DEF MadeOf
  <2>. QED  BY <1>1, <2>3 DEF DeskType
<1>12. ASSUME NEW i, NEW line, i \in Live => line.lot = lines[i].lot, SetLine(i, line)
       PROVE  MadeOf(ls, lines')
  <2>1. CASE i \in Live
    <3>1. lines' = [lines EXCEPT ![i] = line] /\ i \in DOMAIN lines
      BY <1>12, <2>1 DEF SetLine, Live
    <3>2. DOMAIN lines' = DOMAIN lines /\ \A j \in DOMAIN lines : lines'[j].lot = lines[j].lot
      BY <1>12, <2>1, <3>1
    <3>. QED  BY <1>2, <3>2 DEF MadeOf
  <2>2. CASE i \notin Live
    BY <1>2, <1>12, <2>2 DEF SetLine
  <2>. QED  BY <2>1, <2>2
<1>13. \A i \in Live : lines[i] \in LineType
  BY LineOfType DEF Live
<1>. HIDE DEF Goal
<1>14. ASSUME lines' = lines, NEW e, desk' = [desk EXCEPT ![c] = e], MadeOf(ls, e.snap), MadeOf(ls, e.left)
       PROVE  Goal
  BY <1>2, <1>6, <1>14
<1>15. ASSUME lines' = lines, NEW e, desk' = [desk EXCEPT ![c] = e], e.snap = <<>>, e.left = <<>>
       PROVE  Goal
  BY <1>7, <1>14, <1>15
<1>16. ASSUME lines' = lines, desk' = desk
       PROVE  Goal
  BY <1>2, <1>9, <1>14, <1>16
<1>17. ASSUME MadeOf(ls, lines'), NEW pc, desk' = [desk EXCEPT ![c] = [d EXCEPT !.pc = pc]]
       PROVE  Goal
  <2>. DEFINE e == [d EXCEPT !.pc = pc]
  <2>1. desk' = [desk EXCEPT ![c] = e] /\ e.snap = d.snap /\ e.left = d.left
    BY <1>10, <1>17
  <2>. HIDE DEF e
  <2>. QED  BY <1>2, <1>6, <1>17, <2>1
<1>20. ASSUME Create(c) \/ UNCHANGED countVars
       PROVE  Goal
  BY <1>16, <1>20 DEF Create, countVars
<1>21. ASSUME BeginGenerate(c)
       PROVE  Goal
  <2>1. PICK zeros : desk' = [desk EXCEPT ![c] = [IdleDesk EXCEPT !.pc = "clear", !.zeros = zeros]]
    BY <1>21 DEF BeginGenerate
  <2>2. [IdleDesk EXCEPT !.pc = "clear", !.zeros = zeros].snap = <<>>
        /\ [IdleDesk EXCEPT !.pc = "clear", !.zeros = zeros].left = <<>>
    BY DEF IdleDesk
  <2>. QED  BY <1>15, <1>21, <2>1, <2>2 DEF BeginGenerate
<1>22. ASSUME ClearPending(c)
       PROVE  Goal
  <2>1. Turns(c, "balances")
        /\ lines' = [i \in DOMAIN lines |->
                       IF lines[i].status = "pending" THEN [lines[i] EXCEPT !.status = "deleted"] ELSE lines[i]]
    BY <1>22 DEF ClearPending
  <2>2. \A i \in DOMAIN lines : [lines[i] EXCEPT !.status = "deleted"].lot = lines[i].lot
    BY LineOfType DEF LineType
  <2>3. DOMAIN lines' = DOMAIN lines /\ \A i \in DOMAIN lines : lines'[i].lot = lines[i].lot
    BY <2>1, <2>2
  <2>4. MadeOf(ls, lines')
    BY <1>2, <2>3 DEF MadeOf
  <2>. QED  BY <1>9, <1>17, <2>1, <2>4
<1>23. ASSUME ReadBalances(c)
       PROVE  Goal
  <2>. DEFINE S == {r \in DOMAIN rows : rows[r].qty > 0 \/ desk[c].zeros}
              ids == Ascending(S)
              snap == [i \in DOMAIN ids |-> Line(rows[ids[i]].lot, ids[i], rows[ids[i]].qty)]
              pc == IF rows = <<>> THEN "aggregate" ELSE "insert"
              e == [d EXCEPT !.pc = pc, !.snap = snap]
  <2>1. desk' = [desk EXCEPT ![c].pc = pc, ![c].snap = snap] /\ lines' = lines
    BY <1>23 DEF ReadBalances
  <2>2. MadeOf(ls, snap)
    <3>1. IsFiniteSet(DOMAIN rows) /\ DOMAIN rows \in SUBSET Nat
      BY <1>1, RowsFinite
    <3>2. IsFiniteSet(S) /\ S \in SUBSET Nat
      BY <3>1, FS_Subset
    <3>3. \A i \in DOMAIN ids : ids[i] \in S
      <4>. DEFINE n == Cardinality(S)
      <4>1. DOMAIN ids = 1..n /\ ids \in [1..n -> S]
        BY <3>2, AscendingLists, Zenon DEF Listing
      <4>. HIDE DEF ids, S, n
      <4>. QED  BY <4>1
    <3>. HIDE DEF ids
    <3>4. DOMAIN snap = DOMAIN ids /\ \A i \in DOMAIN ids : snap[i].lot = rows[ids[i]].lot /\ ids[i] \in DOMAIN rows
      BY <3>3 DEF Line
    <3>. QED  BY <1>2, <3>4 DEF MadeOf
  <2>. HIDE DEF snap, pc
  <2>3. desk' = [desk EXCEPT ![c] = e] /\ e.snap = snap /\ e.left = d.left
    BY <1>1, <2>1 DEF DeskType
  <2>. HIDE DEF e
  <2>. QED  BY <1>2, <1>14, <2>1, <2>2, <2>3
<1>24. ASSUME ReadAggregate(c)
       PROVE  Goal
  <2>. DEFINE snap == IF agg > 0 \/ desk[c].zeros THEN <<Line(NoLot, 0, agg)>> ELSE <<>>
              e == [d EXCEPT !.pc = "insert", !.snap = snap]
  <2>1. desk' = [desk EXCEPT ![c].pc = "insert", ![c].snap = snap] /\ lines' = lines
    BY <1>24 DEF ReadAggregate
  <2>2. MadeOf(ls, <<Line(NoLot, 0, agg)>>)
    <3>1. DOMAIN <<Line(NoLot, 0, agg)>> = {1} /\ <<Line(NoLot, 0, agg)>>[1] = Line(NoLot, 0, agg)
      OBVIOUS
    <3>2. Line(NoLot, 0, agg).lot = NoLot
      BY DEF Line
    <3>. QED  BY <3>1, <3>2, StockAssumption DEF MadeOf
  <2>3. MadeOf(ls, snap)
    BY <1>7, <2>2
  <2>. HIDE DEF snap
  <2>4. desk' = [desk EXCEPT ![c] = e] /\ e.snap = snap /\ e.left = d.left
    BY <1>1, <2>1 DEF DeskType
  <2>. HIDE DEF e
  <2>. QED  BY <1>2, <1>14, <2>1, <2>3, <2>4
<1>25. ASSUME InsertLines(c)
       PROVE  Goal
  <2>1. Ends(c) /\ lines' = lines \o d.snap
    BY <1>25 DEF InsertLines
  <2>2. /\ Len(lines \o d.snap) = Len(lines) + Len(d.snap) /\ Len(d.snap) \in Nat
        /\ lines \o d.snap \in Seq(LineType)
        /\ \A i \in 1..(Len(lines) + Len(d.snap)) :
             (lines \o d.snap)[i] = IF i <= Len(lines) THEN lines[i] ELSE d.snap[i - Len(lines)]
    BY <1>1, ConcatProperties, LenProperties
  <2>3. DOMAIN lines' = 1..(Len(lines) + Len(d.snap)) /\ DOMAIN d.snap = 1..Len(d.snap)
    BY <1>1, <2>1, <2>2, LenProperties
  <2>4. \A i \in DOMAIN lines' : (\E j \in DOMAIN lines : lines'[i] = lines[j]) \/ (\E j \in DOMAIN d.snap : lines'[i] = d.snap[j])
    <3>. SUFFICES ASSUME NEW i \in DOMAIN lines'
                  PROVE  (\E j \in DOMAIN lines : lines'[i] = lines[j]) \/ (\E j \in DOMAIN d.snap : lines'[i] = d.snap[j])
      OBVIOUS
    <3>1. CASE i <= Len(lines)
      BY <1>1, <2>1, <2>2, <2>3, <3>1
    <3>2. CASE ~(i <= Len(lines))
      <4>1. i - Len(lines) \in DOMAIN d.snap
        BY <1>1, <2>2, <2>3, <3>2
      <4>. QED  BY <2>1, <2>2, <2>3, <3>2, <4>1
    <3>. QED  BY <3>1, <3>2
  <2>5. MadeOf(ls, lines')
    BY <1>2, <2>4 DEF MadeOf
  <2>. QED  BY <1>6, <1>8, <1>9, <2>1, <2>5
<1>26. ASSUME BeginRecord(c)
       PROVE  Goal
  <2>1. PICK i, q : desk' = [desk EXCEPT ![c] = [IdleDesk EXCEPT !.pc = "record", !.line = i, !.qty = q]]
    BY <1>26 DEF BeginRecord
  <2>. DEFINE e == [IdleDesk EXCEPT !.pc = "record", !.line = i, !.qty = q]
  <2>2. e.snap = <<>> /\ e.left = <<>>
    BY DEF IdleDesk
  <2>. QED  BY <1>15, <1>26, <2>1, <2>2 DEF BeginRecord
<1>27. ASSUME WriteRecord(c)
       PROVE  Goal
  <2>1. Ends(c) /\ SetLine(d.line, [lines[d.line] EXCEPT !.counted = d.qty, !.status = "counted"])
    BY <1>27 DEF WriteRecord
  <2>2. d.line \in Live => [lines[d.line] EXCEPT !.counted = d.qty, !.status = "counted"].lot = lines[d.line].lot
    BY <1>13 DEF LineType
  <2>3. MadeOf(ls, lines')
    BY <1>12, <2>1, <2>2
  <2>. QED  BY <1>6, <1>8, <1>9, <2>1, <2>3
<1>28. ASSUME FlagForRecount(c)
       PROVE  Goal
  <2>1. PICK i \in Live : SetLine(i, [lines[i] EXCEPT !.counted = Uncounted, !.status = "recount"])
    BY <1>28 DEF FlagForRecount
  <2>2. [lines[i] EXCEPT !.counted = Uncounted, !.status = "recount"].lot = lines[i].lot
    BY <1>13 DEF LineType
  <2>3. MadeOf(ls, lines')
    BY <1>12, <2>1, <2>2
  <2>4. desk' = [desk EXCEPT ![c] = d]
    BY <1>9, <1>28 DEF FlagForRecount
  <2>. QED  BY <1>2, <1>6, <2>3, <2>4
<1>29. ASSUME BeginMove(c)
       PROVE  Goal
  <2>1. PICK pc, to : desk' = [desk EXCEPT ![c] = [IdleDesk EXCEPT !.pc = pc, !.to = to]]
    BY <1>29 DEF BeginMove
  <2>. DEFINE e == [IdleDesk EXCEPT !.pc = pc, !.to = to]
  <2>2. e.snap = <<>> /\ e.left = <<>>
    BY DEF IdleDesk
  <2>. QED  BY <1>15, <1>29, <2>1, <2>2 DEF BeginMove
<1>30. ASSUME ReadLines(c)
       PROVE  Goal
  <2>. DEFINE ids == Ascending(Live)
              left == [j \in DOMAIN ids |-> [id |-> ids[j], lot |-> lines[ids[j]].lot,
                                             variance |-> Variance(lines[ids[j]])]]
              e == [d EXCEPT !.pc = "post", !.left = left]
  <2>1. MadeOf(ls, left)
    <3>1. IsFiniteSet(DOMAIN lines) /\ DOMAIN lines \in SUBSET Nat
      BY <1>1, FS_Interval
    <3>2. IsFiniteSet(Live) /\ Live \in SUBSET Nat
      BY <3>1, FS_Subset DEF Live
    <3>3. \A i \in DOMAIN ids : ids[i] \in Live
      <4>. DEFINE n == Cardinality(Live)
      <4>1. DOMAIN ids = 1..n /\ ids \in [1..n -> Live]
        BY <3>2, AscendingLists, Zenon DEF Listing
      <4>. HIDE DEF ids, n
      <4>. QED  BY <4>1
    <3>. HIDE DEF ids
    <3>4. DOMAIN left = DOMAIN ids /\ \A i \in DOMAIN ids : left[i].lot = lines[ids[i]].lot /\ ids[i] \in DOMAIN lines
      BY <3>3 DEF Live
    <3>. QED  BY <1>2, <3>4 DEF MadeOf
  <2>2. lines' = lines /\
        \/ desk' = [desk EXCEPT ![c] = IdleDesk]
        \/ desk' = [desk EXCEPT ![c] = [d EXCEPT !.pc = "write"]]
        \/ desk' = [desk EXCEPT ![c] = e]
    <3>. HIDE DEF ids
    <3>. QED  BY <1>1, <1>30 DEF ReadLines, ids
  <2>. HIDE DEF left
  <2>3. e.snap = d.snap /\ e.left = left
    BY <1>1 DEF DeskType
  <2>. HIDE DEF e
  <2>. QED  BY <1>2, <1>8, <1>14, <1>17, <2>1, <2>2, <2>3
<1>31. ASSUME WriteStatus(c)
       PROVE  Goal
  BY <1>8, <1>9, <1>14, <1>31 DEF WriteStatus
<1>32. ASSUME PostVariance(c)
       PROVE  Goal
  <2>1. d.left # <<>> /\ lines' = lines /\ (Turns(c, "stamp") \/ NextLine(c) \/ Turns(c, "adjusting"))
    BY <1>32, Zenon DEF PostVariance
  <2>2. ASSUME NextLine(c)
        PROVE  Goal
    BY <1>2, <1>9, <1>11, <1>14, <2>1, <2>2
  <2>. QED  BY <1>2, <1>9, <1>17, <2>1, <2>2
<1>33. ASSUME SkipLine(c)
       PROVE  Goal
  <2>1. d.left # <<>> /\ lines' = lines /\ NextLine(c)
    BY <1>1, <1>33 DEF SkipLine, Does, Ready
  <2>. QED  BY <1>2, <1>9, <1>11, <1>14, <2>1
<1>34. ASSUME PostedLine(c)
       PROVE  Goal
  <2>1. lines' = lines /\ Turns(c, "stamp")
    BY <1>34 DEF PostedLine
  <2>. QED  BY <1>2, <1>9, <1>17, <2>1
<1>35. ASSUME StampLine(c)
       PROVE  Goal
  <2>. DEFINE i == Head(d.left).id
  <2>1. d.left # <<>> /\ NextLine(c) /\ SetLine(i, [lines[i] EXCEPT !.status = "approved"])
    BY <1>1, <1>35 DEF StampLine, Does, Ready
  <2>. HIDE DEF i
  <2>2. i \in Live => [lines[i] EXCEPT !.status = "approved"].lot = lines[i].lot
    BY <1>13 DEF LineType
  <2>3. MadeOf(ls, lines')
    BY <1>12, <2>1, <2>2
  <2>. QED  BY <1>2, <1>6, <1>9, <1>11, <2>1, <2>3
<1>36. ASSUME RequestFails(c)
       PROVE  Goal
  BY <1>8, <1>9, <1>14, <1>36 DEF RequestFails
<1>40. Goal
  BY <1>20, <1>21, <1>22, <1>23, <1>24, <1>25, <1>26, <1>27, <1>28, <1>29, <1>30, <1>31, <1>32, <1>33, <1>34,
     <1>35, <1>36, Zenon DEF CountStep
<1>. QED  BY <1>40 DEF Goal

=============================================================================
