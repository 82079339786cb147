---------------------------- MODULE BalanceProofs ----------------------------
(***************************************************************************)
(* Proofs about the lot balances of LotStock and CycleCounts, for one      *)
(* caller and any number of lots, bins, rows and calls.                    *)
(* The balances add up to what the ledger shows of the lots                *)
(* (LotBalancesAttributable), never to more than was produced              *)
(* (StockFromProduction): both say something of the sum of all rows        *)
(* between requests, and the proof has to say it between any two calls of  *)
(* a handler.  What the rest of the handler's list will still write        *)
(* explains by how much the sum is off (Explained), or stays within what   *)
(* was taken out (Paid).                                                   *)
(* A pick ships in expiry order (FefoFollowed) and ships the whole         *)
(* quantity (PicksAreWhole): its plan keeps clearing the rows that come    *)
(* first (Planned), what it will still enter is what is missing (Owes),    *)
(* and neither a row nor the aggregate runs out under it (Filled, Covered).*)
(* An approved count leaves its lots at what was counted (CountsSettle):   *)
(* the lines show the stock they were drawn from (Drawn), and each that is *)
(* posted moves its lot from the system's quantity to the counted one      *)
(* (Off, Mid).                                                             *)
(***************************************************************************)
EXTENDS StockProofs

-----------------------------------------------------------------------------
(* What a list does to the balances: while it has calls to make, the ledger *)
(* differs from them by what it has yet to write, to enter, or to put away. *)

Still(k) ==
  \/ k.call \in {"ship", "shipAgg", "moveInto", "adjustAgg", "setAgg", "addAgg", "expire"}
  \/ k.call = "post" /\ k.lot = NoLot
StillAfter(s, m) == \A i \in 1..Len(s) : i > m => Still(s[i])
Swept(rs, k) ==
  k.call = "quarantine" /\ k.row \in DOMAIN rs /\ rs[k.row].status = "available" /\ rs[k.row].qty = k.qty
SweptAfter(rs, s, m) ==
  /\ \A i \in 1..Len(s) : i > m => s[i].call = "expire" \/ Swept(rs, s[i])
  /\ \A i, j \in 1..Len(s) :
       i > m /\ j > m /\ s[i].call = "quarantine" /\ s[j].call = "quarantine" /\ s[i].row = s[j].row => i = j
Sparing(s, m, r) == \A i \in 1..Len(s) : i > m /\ s[i].call = "quarantine" => s[i].row # r

Posts(s, n, d) ==
  n \in 1..Len(s) /\ s[n].call = "post" /\ s[n].lot # NoLot /\ s[n].delta = d /\ StillAfter(s, n)
Enters(s, m, d) ==
  \/ Posts(s, m + 1, d)
  \/ m + 1 \in 1..Len(s) /\ s[m + 1].call = "setAgg" /\ Posts(s, m + 2, d)
Empties(rs, s, m, d) ==
  /\ m + 1 \in 1..Len(s) /\ s[m + 1].call = "set" /\ s[m + 1].row \in DOMAIN rs
  /\ rs[s[m + 1].row].status = "available" /\ d + (s[m + 1].qty - rs[s[m + 1].row].qty) = 0
  /\ SweptAfter(rs, s, m + 1) /\ Sparing(s, m + 1, s[m + 1].row)

Effect(rs, k) ==
  IF k.call = "set" THEN k.qty - rs[k.row].qty ELSE k.qty - Held(rs, k.lot, k.bin, k.status)
IntoQuarantine(rs, k) == IF k.call = "set" THEN rs[k.row].status = "quarantine" ELSE k.status = "quarantine"
OffFloor(k) == k.call \in {"put", "insert"} /\ (k.bin # NoBin \/ k.status = "reserved")
Opening(rs, s, d) ==
  /\ s[1].call \in Plain
  /\ \/ Enters(s, 1, d + Effect(rs, s[1]))
     \/ IntoQuarantine(rs, s[1]) /\ Empties(rs, s, 1, d + Effect(rs, s[1]))
LeavesFloor(s) == OffFloor(s[1]) \/ (s[1].call = "set" /\ 2 \in 1..Len(s) /\ OffFloor(s[2]))
Explained(rs, s, d) ==
  \/ d = 0 /\ (StillAfter(s, 0) \/ SweptAfter(rs, s, 0))
  \/ Enters(s, 0, d) \/ Empties(rs, s, 0, d)
  \/ s # <<>> /\ (Opening(rs, s, d) \/ LeavesFloor(s))
FloorInv ==
  count.faults = 0 /\ OnTheFloor => \A c \in Callers : Explained(rows, todo[c], AllOf(rows) - posted.lots)

LEMMA RestStill ==
  ASSUME NEW t, NEW m, NEW s, NEW n, Behind(t, m, s, n), NEW k \in Nat, k <= n, StillAfter(s, k)
  PROVE  StillAfter(t, m)
<1>1. n \in Nat
  BY DEF Behind
<1>2. \A i \in 1..Len(t) : i > m => \E j \in 1..Len(s) : j > k /\ t[i] = s[j]
  BY <1>1, BehindSame
<1>. QED  BY <1>2 DEF StillAfter

LEMMA RestSwept ==
  ASSUME NEW t, NEW m, NEW s, NEW n, Behind(t, m, s, n), NEW k \in Nat, k <= n, NEW rs
  PROVE  /\ SweptAfter(rs, s, k) => SweptAfter(rs, t, m)
         /\ \A r : Sparing(s, k, r) => Sparing(t, m, r)
<1>1. n \in Nat /\ m \in Nat
  BY DEF Behind
<1>2. \A i \in 1..Len(t) : i > m => i - m + n \in 1..Len(s) /\ i - m + n > k /\ t[i] = s[i - m + n]
  BY <1>1, BehindSame
<1>3. \A i \in 1..Len(t) : i \in Int
  BY DEF Behind
<1>4. ASSUME SweptAfter(rs, s, k)
      PROVE  SweptAfter(rs, t, m)
  <2>1. \A i \in 1..Len(t) : i > m => t[i].call = "expire" \/ Swept(rs, t[i])
    BY <1>2, <1>4 DEF SweptAfter
  <2>2. ASSUME NEW i \in 1..Len(t), NEW j \in 1..Len(t), i > m, j > m,
               t[i].call = "quarantine", t[j].call = "quarantine", t[i].row = t[j].row
        PROVE  i = j
    <3>1. i - m + n = j - m + n
      BY <1>2, <1>4, <2>2 DEF SweptAfter
    <3>. QED  BY <1>1, <1>3, <3>1
  <2>. QED  BY <2>1, <2>2 DEF SweptAfter
<1>5. \A r : Sparing(s, k, r) => Sparing(t, m, r)
  BY <1>2 DEF Sparing
<1>. QED  BY <1>4, <1>5

LEMMA RestPosts ==
  ASSUME NEW t, NEW m, NEW s, NEW n, Behind(t, m, s, n), NEW d
  PROVE  /\ Posts(s, n + 1, d) => Posts(t, m + 1, d)
         /\ Enters(s, n, d) => Enters(t, m, d)
         /\ \A rs : Empties(rs, s, n, d) => Empties(rs, t, m, d)
<1>1. n \in Nat /\ m \in Nat /\ n + 1 \in Nat /\ n + 1 <= n + 1 /\ (m + 1) + 1 = m + 2 /\ (n + 1) + 1 = n + 2
  BY DEF Behind
<1>2. n + 1 \in 1..Len(s) => Behind(t, m + 1, s, n + 1) /\ m + 1 \in 1..Len(t) /\ t[m + 1] = s[n + 1]
  BY BehindNext
<1>3. n + 1 \in 1..Len(s) /\ n + 2 \in 1..Len(s)
      => Behind(t, m + 2, s, n + 2) /\ m + 2 \in 1..Len(t) /\ t[m + 2] = s[n + 2]
  <2>. SUFFICES ASSUME n + 1 \in 1..Len(s), n + 2 \in 1..Len(s)
                PROVE  Behind(t, m + 2, s, n + 2) /\ m + 2 \in 1..Len(t) /\ t[m + 2] = s[n + 2]
    OBVIOUS
  <2>1. Behind(t, m + 1, s, n + 1) /\ (n + 1) + 1 \in 1..Len(s)
    BY <1>1, <1>2
  <2>2. /\ Behind(t, (m + 1) + 1, s, (n + 1) + 1) /\ (m + 1) + 1 \in 1..Len(t)
        /\ t[(m + 1) + 1] = s[(n + 1) + 1]
    BY <2>1, BehindNext
  <2>. QED  BY <1>1, <2>2
<1>4. Posts(s, n + 1, d) => Posts(t, m + 1, d)
  <2>1. n + 1 \in 1..Len(s) /\ StillAfter(s, n + 1) => StillAfter(t, m + 1)
    BY <1>1, <1>2, RestStill
  <2>. QED  BY <1>2, <2>1 DEF Posts
<1>5. n + 1 \in 1..Len(s) /\ Posts(s, n + 2, d) => Posts(t, m + 2, d)
  <2>1. n + 2 \in Nat /\ n + 2 <= n + 2
    BY <1>1
  <2>2. n + 1 \in 1..Len(s) /\ n + 2 \in 1..Len(s) /\ StillAfter(s, n + 2) => StillAfter(t, m + 2)
    BY <1>3, <2>1, RestStill
  <2>. QED  BY <1>3, <2>2 DEF Posts
<1>6. Enters(s, n, d) => Enters(t, m, d)
  BY <1>2, <1>4, <1>5 DEF Enters
<1>7. ASSUME NEW rs, Empties(rs, s, n, d)
      PROVE  Empties(rs, t, m, d)
  <2>1. n + 1 \in 1..Len(s)
    BY <1>7 DEF Empties
  <2>2. SweptAfter(rs, t, m + 1) /\ Sparing(t, m + 1, s[n + 1].row)
    BY <1>1, <1>2, <1>7, <2>1, RestSwept DEF Empties
  <2>. QED  BY <1>2, <1>7, <2>1, <2>2 DEF Empties
<1>. QED  BY <1>4, <1>6, <1>7

LEMMA HeadExplained ==
  ASSUME NEW rs, NEW s, NEW d, Explained(rs, s, d), Len(s) \in Nat \ {0}
  PROVE  /\ s[1].call \in {"ship", "shipAgg", "moveInto", "adjustAgg", "addAgg"} => d = 0 /\ StillAfter(s, 0)
         /\ s[1].call = "setAgg" => (d = 0 /\ StillAfter(s, 0)) \/ Posts(s, 2, d)
         /\ s[1].call = "post" => (d = 0 /\ StillAfter(s, 0) /\ s[1].lot = NoLot) \/ Posts(s, 1, d)
         /\ s[1].call # "lookup"
         /\ s[1].call = "quarantine" => d = 0 /\ SweptAfter(rs, s, 0)
         /\ s[1].call = "expire" => d = 0 /\ (StillAfter(s, 0) \/ SweptAfter(rs, s, 0))
         /\ s[1].call \in {"put", "insert"} => Opening(rs, s, d) \/ OffFloor(s[1])
         /\ s[1].call = "set" => Empties(rs, s, 0, d) \/ Opening(rs, s, d) \/ (2 \in 1..Len(s) /\ OffFloor(s[2]))
<1>. DEFINE k == s[1]
<1>1. 1 \in 1..Len(s) /\ 0 + 1 = 1 /\ 0 + 2 = 2 /\ 1 > 0
  OBVIOUS
<1>2. StillAfter(s, 0) => Still(k)
  BY <1>1 DEF StillAfter
<1>3. SweptAfter(rs, s, 0) => k.call = "expire" \/ k.call = "quarantine"
  BY <1>1 DEF SweptAfter, Swept
<1>4. Enters(s, 0, d) => (k.call = "post" /\ Posts(s, 1, d)) \/ (k.call = "setAgg" /\ Posts(s, 2, d))
  BY <1>1 DEF Enters, Posts
<1>5. Empties(rs, s, 0, d) => k.call = "set"
  BY <1>1 DEF Empties
<1>6. Opening(rs, s, d) => k.call \in Plain
  BY DEF Opening
<1>7. LeavesFloor(s) => (k.call \in {"put", "insert"} /\ OffFloor(k)) \/ (k.call = "set" /\ 2 \in 1..Len(s) /\ OffFloor(s[2]))
  BY DEF LeavesFloor, OffFloor
<1>. HIDE DEF k
<1>8. \/ d = 0 /\ Still(k) /\ StillAfter(s, 0)
      \/ d = 0 /\ (k.call = "expire" \/ k.call = "quarantine") /\ SweptAfter(rs, s, 0)
      \/ k.call = "post" /\ Posts(s, 1, d)
      \/ k.call = "setAgg" /\ Posts(s, 2, d)
      \/ k.call = "set" /\ Empties(rs, s, 0, d)
      \/ k.call \in Plain /\ Opening(rs, s, d)
      \/ k.call \in {"put", "insert"} /\ OffFloor(k)
      \/ k.call = "set" /\ 2 \in 1..Len(s) /\ OffFloor(s[2])
  BY <1>2, <1>3, <1>4, <1>5, <1>6, <1>7 DEF Explained
<1>. QED  BY <1>8 DEF k, Still, Plain

LEMMA NothingExplained ==
  ASSUME NEW rs, NEW d
  PROVE  Explained(rs, <<>>, d) <=> d = 0
<1>1. \A i : i \notin 1..Len(<<>>)
  BY EmptyList
<1>2. StillAfter(<<>>, 0)
  BY <1>1 DEF StillAfter
<1>3. ~Enters(<<>>, 0, d) /\ ~Empties(rs, <<>>, 0, d)
  BY <1>1 DEF Enters, Empties, Posts
<1>. QED  BY <1>2, <1>3 DEF Explained

LEMMA FollowShape ==
  ASSUME StockInv, NEW c \in Callers, NEW name, Doing(c, name), NEW s, s = todo[c], NEW t, t = todo'[c]
  PROVE  /\ s \in Seq(Calls) /\ s # <<>> /\ Len(s) \in Nat \ {0} /\ s[1] = next(c) /\ 1 \in 1..Len(s)
         /\ Follow(c, <<>>) => Behind(t, 0, s, 1)
         /\ \A x : Follow(c, <<x>>) => Behind(t, 1, s, 1) /\ t # <<>> /\ 1 \in 1..Len(t) /\ t[1] = x
         /\ \A x, y : Follow(c, <<x, y>>) =>
              Behind(t, 2, s, 1) /\ t # <<>> /\ 1 \in 1..Len(t) /\ 2 \in 1..Len(t) /\ t[1] = x /\ t[2] = y
         /\ \A x, y, z : Follow(c, <<x, y, z>>) =>
              /\ Behind(t, 3, s, 1) /\ t # <<>> /\ 1 \in 1..Len(t) /\ 2 \in 1..Len(t) /\ 3 \in 1..Len(t)
              /\ t[1] = x /\ t[2] = y /\ t[3] = z
<1>1. s \in Seq(Calls) /\ s # <<>> /\ Len(s) \in Nat \ {0} /\ s[1] = next(c) /\ 1 \in 1..Len(s)
  BY HeadSound DEF StockInv, TypeOK
<1>2. ASSUME NEW R, NEW list \in Seq(R), Follow(c, list)
      PROVE  /\ Behind(t, Len(list), s, 1) /\ Len(list) \in Nat /\ Len(t) = Len(list) + Len(s) - 1
             /\ \A i \in 1..Len(list) : i \in 1..Len(t) /\ t[i] = list[i]
  <2>1. t = list \o Tail(s)
    BY <1>2, GoesOnWith
  <2>2. /\ Behind(t, Len(list), s, 1) /\ Len(list) \in Nat /\ Len(t) = Len(list) + Len(s) - 1
        /\ \A i \in 1..Len(list) : t[i] = list[i]
    BY <1>1, <2>1, RestBehind
  <2>3. \A i \in 1..Len(list) : i \in 1..Len(t)
    BY <1>1, <2>2
  <2>. QED  BY <2>2, <2>3
<1>3. 1 \in 1..Len(t) => t # <<>>
  BY EmptyList
<1>4. Follow(c, <<>>) => Behind(t, 0, s, 1)
  BY <1>2, EmptySeq
<1>5. ASSUME NEW x, Follow(c, <<x>>)
      PROVE  Behind(t, 1, s, 1) /\ t # <<>> /\ 1 \in 1..Len(t) /\ t[1] = x
  <2>. DEFINE list == <<x>>
  <2>1. list \in Seq({x}) /\ Len(list) = 1 /\ list[1] = x /\ Follow(c, list)
    BY <1>5, OfCalls
  <2>. HIDE DEF list
  <2>. QED  BY <1>2, <1>3, <2>1
<1>6. ASSUME NEW x, NEW y, Follow(c, <<x, y>>)
      PROVE  Behind(t, 2, s, 1) /\ t # <<>> /\ 1 \in 1..Len(t) /\ 2 \in 1..Len(t) /\ t[1] = x /\ t[2] = y
  <2>. DEFINE list == <<x, y>>
  <2>1. list \in Seq({x, y}) /\ Len(list) = 2 /\ list[1] = x /\ list[2] = y /\ Follow(c, list)
    BY <1>6, OfCalls
  <2>. HIDE DEF list
  <2>2. 1 \in 1..Len(list) /\ 2 \in 1..Len(list)
    BY <2>1
  <2>3. Behind(t, Len(list), s, 1) /\ \A i \in 1..Len(list) : i \in 1..Len(t) /\ t[i] = list[i]
    BY <1>2, <2>1
  <2>. QED  BY <1>3, <2>1, <2>2, <2>3
<1>7. ASSUME NEW x, NEW y, NEW z, Follow(c, <<x, y, z>>)
      PROVE  /\ Behind(t, 3, s, 1) /\ t # <<>> /\ 1 \in 1..Len(t) /\ 2 \in 1..Len(t) /\ 3 \in 1..Len(t)
             /\ t[1] = x /\ t[2] = y /\ t[3] = z
  <2>. DEFINE list == <<x, y, z>>
  <2>1. list \in Seq({x, y, z}) /\ Len(list) = 3 /\ list[1] = x /\ list[2] = y /\ list[3] = z /\ Follow(c, list)
    BY <1>7, OfCalls
  <2>. HIDE DEF list
  <2>2. 1 \in 1..Len(list) /\ 2 \in 1..Len(list) /\ 3 \in 1..Len(list)
    BY <2>1
  <2>3. Behind(t, Len(list), s, 1) /\ \A i \in 1..Len(list) : i \in 1..Len(t) /\ t[i] = list[i]
    BY <1>2, <2>1
  <2>. QED  BY <1>3, <2>1, <2>2, <2>3
<1>. QED  BY <1>1, <1>4, <1>5, <1>6, <1>7

(* With nothing in a bin, a lot has one row in a status, and it is read.    *)
LEMMA FoundIsHeld ==
  ASSUME rows \in Seq(Row), Distinct(rows), Unbinned, NEW l, NEW st, NEW v, Found(rows, l, st, v)
  PROVE  Held(rows, l, NoBin, st) = v
<1>1. LotRows(rows, l, st) = RowsIn(rows, l, NoBin, st)
  BY DEF LotRows, RowsIn, Unbinned
<1>. QED  BY <1>1, HeldNone, HeldOne DEF Found

LEMMA FloorResolves ==
  ASSUME StockInv, NEW c \in Callers, Resolves(c), RowsInv, OnTheFloor, NEW d \in Int, Explained(rows, todo[c], d)
  PROVE  Explained(rows, todo'[c], d)
<1>. DEFINE Goal == Explained(rows, todo'[c], d)
            s == todo[c]
            t == todo'[c]
            k == next(c)
<1>1. /\ rows \in Seq(Row) /\ Distinct(rows) /\ UpToDate(rows, s) /\ Unbinned /\ NoLot \notin Lots
      /\ todo \in [Callers -> Seq(Calls)] /\ NoBin \notin Bins
  BY StockAssumption DEF StockInv, TypeOK, Row, RowsInv, OnTheFloor, Unbinned
<1>2. ASSUME NEW name, Doing(c, name)
      PROVE  /\ s[1] = k /\ Len(s) \in Nat \ {0} /\ 1 \in 1..Len(s) /\ k.call = name /\ Sound(k, DOMAIN rows)
             /\ k \in Calls /\ k.qty \in Nat /\ k.delta \in Int /\ (name \in WithLot => k.lot \in Lots /\ k.lot # NoLot)
  BY <1>1, <1>2, HeadSound DEF Sound
<1>3. ASSUME Throw(c), d = 0
      PROVE  Goal
  <2>1. todo'[c] = <<>>
    BY <1>1, <1>3 DEF Throw
  <2>. QED  BY <1>3, <2>1, NothingExplained
<1>4. ASSUME NEW name, Doing(c, name)
      PROVE  /\ \A x : Follow(c, <<x>>) => Behind(t, 1, s, 1) /\ t # <<>> /\ 1 \in 1..Len(t) /\ t[1] = x
             /\ \A x, y : Follow(c, <<x, y>>) =>
                  Behind(t, 2, s, 1) /\ t # <<>> /\ 1 \in 1..Len(t) /\ 2 \in 1..Len(t) /\ t[1] = x /\ t[2] = y
             /\ \A x, y, z : Follow(c, <<x, y, z>>) =>
                  /\ Behind(t, 3, s, 1) /\ t # <<>> /\ 1 \in 1..Len(t) /\ 2 \in 1..Len(t) /\ 3 \in 1..Len(t)
                  /\ t[1] = x /\ t[2] = y /\ t[3] = z
  BY <1>4, FollowShape
<1>5. ASSUME NEW m, Behind(t, m, s, 1), StillAfter(s, 0)
      PROVE  StillAfter(t, m)
  BY <1>5, RestStill
<1>6. ASSUME NEW name, Doing(c, name)
      PROVE  /\ k.call \in {"ship", "shipAgg", "moveInto", "adjustAgg", "addAgg"} => d = 0 /\ StillAfter(s, 0)
             /\ k.call # "lookup"
             /\ k.call = "quarantine" => d = 0 /\ SweptAfter(rows, s, 0)
             /\ k.call = "put" => Opening(rows, s, d) \/ OffFloor(k)
  BY <1>2, <1>6, HeadExplained
<1>. HIDE DEF t
<1>7. ASSUME NEW name, Doing(c, name), d = 0, StillAfter(s, 0), NEW x, NEW y, NEW z, Follow(c, <<x, y, z>>),
             x.call \in Plain, y.call = "setAgg", z.call = "post", z.lot # NoLot, z.delta = d + Effect(rows, x)
      PROVE  Goal
  <2>1. /\ Behind(t, 3, s, 1) /\ t # <<>> /\ 1 \in 1..Len(t) /\ 2 \in 1..Len(t) /\ 3 \in 1..Len(t)
        /\ t[1] = x /\ t[2] = y /\ t[3] = z
    BY <1>4, <1>7
  <2>2. StillAfter(t, 3)
    BY <1>5, <1>7, <2>1
  <2>3. Posts(t, 1 + 2, d + Effect(rows, t[1]))
    BY <1>7, <2>1, <2>2 DEF Posts
  <2>4. Enters(t, 1, d + Effect(rows, t[1]))
    BY <1>7, <2>1, <2>3 DEF Enters
  <2>. QED  BY <1>7, <2>1, <2>4 DEF Opening, Explained, t
<1>8. ASSUME NEW name, Doing(c, name), d = 0, StillAfter(s, 0), NEW x, Follow(c, <<x>>), Still(x)
      PROVE  Goal
  <2>1. Behind(t, 1, s, 1) /\ t[1] = x
    BY <1>4, <1>8
  <2>2. StillAfter(t, 1)
    BY <1>5, <1>8, <2>1
  <2>3. StillAfter(t, 0)
    <3>1. \A i \in 1..Len(t) : i = 1 \/ i > 1
      BY <2>1 DEF Behind
    <3>. QED  BY <1>8, <2>1, <2>2, <3>1 DEF StillAfter
  <2>. QED  BY <1>8, <2>3 DEF Explained, t
<1>. HIDE DEF Goal, s, k
<1>9. \A r, q : Set(r, q).call = "set" /\ Set(r, q).row = r /\ Set(r, q).qty = q
  BY DEF Set, Blank
<1>10. \A q : SetAgg(q).call = "setAgg"
  BY DEF SetAgg, Blank
<1>11. \A l, e : Post(l, e).call = "post" /\ Post(l, e).lot = l /\ Post(l, e).delta = e
                 /\ Expire(l).call = "expire"
  BY DEF Post, Expire, Blank
<1>12. \A l, b, st, q : /\ Put(l, b, st, q).call = "put" /\ Put(l, b, st, q).lot = l /\ Put(l, b, st, q).bin = b
                        /\ Put(l, b, st, q).status = st /\ Put(l, b, st, q).qty = q
  BY DEF Put, Blank
<1>20. ASSUME ShipRead(c)
       PROVE  Goal
  <2>1. Doing(c, "ship") /\ (Throw(c) \/ \E r : Follow(c, <<[k EXCEPT !.call = "shipAgg", !.row = r, !.delta = Quantity(r)]>>))
    BY <1>20 DEF ShipRead, k
  <2>2. k \in Calls /\ d = 0 /\ StillAfter(s, 0)
    BY <1>2, <1>6, <2>1
  <2>3. \A r, q : Still([k EXCEPT !.call = "shipAgg", !.row = r, !.delta = q])
    BY <2>2 DEF Still, Calls
  <2>. QED  BY <1>3, <1>8, <2>1, <2>2, <2>3
<1>21. ASSUME ShipResolve(c)
       PROVE  Goal
  <2>. DEFINE x == Set(k.row, k.delta - k.qty)
              y == SetAgg(agg - k.qty)
              z == Post(k.lot, -k.qty)
  <2>1. Doing(c, "shipAgg") /\ (Throw(c) \/ Follow(c, <<x, y, z>>))
    BY <1>21 DEF ShipResolve, k
  <2>2. k \in Calls /\ d = 0 /\ StillAfter(s, 0) /\ k.lot # NoLot /\ k.qty \in Nat /\ k.delta \in Int /\ s[1] = k
        /\ 1 \in 1..Len(s) /\ k.call = "shipAgg"
    BY <1>2, <1>6, <2>1 DEF WithLot
  <2>3. rows[k.row].qty = k.delta
    BY <1>1, <2>2 DEF UpToDate, JustRead, Fresh
  <2>4. x.call = "set" /\ Effect(rows, x) = (k.delta - k.qty) - k.delta
    BY <1>9, <2>3 DEF Effect
  <2>5. x.call \in Plain /\ y.call = "setAgg" /\ z.call = "post" /\ z.lot # NoLot /\ z.delta = d + Effect(rows, x)
    <3>1. z.delta = -k.qty /\ -k.qty = d + ((k.delta - k.qty) - k.delta)
      BY <1>11, <2>2
    <3>. QED  BY <1>10, <1>11, <2>2, <2>4, <3>1 DEF Plain
  <2>. HIDE DEF x, y, z
  <2>. QED  BY <1>3, <1>7, <2>1, <2>2, <2>5
<1>22. ASSUME AdjustResolve(c)
       PROVE  Goal
  <2>. DEFINE x == Put(k.lot, NoBin, "available", k.qty)
              y == SetAgg(agg + k.delta)
              z == Post(k.lot, k.delta)
  <2>1. Doing(c, "adjustAgg") /\ (Throw(c) \/ (k.lot = NoLot /\ Follow(c, <<y, z>>)) \/ (k.lot # NoLot /\ Follow(c, <<x, y, z>>)))
    <3>1. <<>> \o <<y, z>> = <<y, z>> /\ <<x>> \o <<y, z>> = <<x, y, z>>
      BY ConcatOneTwo
    <3>. HIDE DEF x, y, z
    <3>2. Throw(c) \/ Follow(c, (IF k.lot = NoLot THEN <<>> ELSE <<x>>) \o <<y, z>>)
      BY <1>22 DEF AdjustResolve, x, y, z, k
    <3>3. Doing(c, "adjustAgg")
      BY <1>22 DEF AdjustResolve
    <3>. QED  BY <3>1, <3>2, <3>3
  <2>2. k \in Calls /\ d = 0 /\ StillAfter(s, 0) /\ k.qty \in Nat /\ k.delta \in Int /\ s[1] = k
        /\ 1 \in 1..Len(s) /\ k.call = "adjustAgg"
    BY <1>2, <1>6, <2>1
  <2>3. ASSUME k.lot = NoLot, Follow(c, <<y, z>>)
        PROVE  Goal
    <3>1. Still(y) /\ Still(z)
      BY <1>10, <1>11, <2>3 DEF Still
    <3>. HIDE DEF y, z
    <3>2. Behind(t, 2, s, 1) /\ t[1] = y /\ t[2] = z
      BY <1>4, <2>1, <2>3 DEF s
    <3>3. StillAfter(t, 2)
      BY <1>5, <2>2, <3>2 DEF s
    <3>4. StillAfter(t, 0)
      <4>1. \A i \in 1..Len(t) : i = 1 \/ i = 2 \/ i > 2
        BY <3>2 DEF Behind
      <4>. QED  BY <3>1, <3>2, <3>3, <4>1 DEF StillAfter
    <3>. QED  BY <2>2, <3>4 DEF Explained, t, Goal
  <2>4. ASSUME k.lot # NoLot, Follow(c, <<x, y, z>>)
        PROVE  Goal
    <3>1. Found(rows, k.lot, "available", k.qty - k.delta)
      BY <1>1, <2>2, <2>4 DEF UpToDate, JustRead, Fresh
    <3>2. Held(rows, k.lot, NoBin, "available") = k.qty - k.delta
      BY <1>1, <3>1, FoundIsHeld
    <3>3. x.call = "put" /\ Effect(rows, x) = k.qty - (k.qty - k.delta)
      BY <1>12, <3>2 DEF Effect
    <3>4. x.call \in Plain /\ y.call = "setAgg" /\ z.call = "post" /\ z.lot # NoLot /\ z.delta = d + Effect(rows, x)
      <4>1. z.delta = k.delta /\ k.delta = d + (k.qty - (k.qty - k.delta))
        BY <1>11, <2>2
      <4>. QED  BY <1>10, <1>11, <2>4, <3>3, <4>1 DEF Plain
    <3>. HIDE DEF x, y, z
    <3>. QED  BY <1>7, <2>1, <2>2, <2>4, <3>4
  <2>. HIDE DEF x, y, z
  <2>. QED  BY <1>3, <2>1, <2>2, <2>3, <2>4
<1>23. ASSUME MoveResolve(c)
       PROVE  Goal
  <2>1. Doing(c, "moveInto") /\ (Throw(c) \/ \E q : Follow(c, <<Set(k.row, k.delta), Put(k.lot, k.bin, k.status, q)>>))
    BY <1>23 DEF MoveResolve, k
  <2>2. d = 0 /\ k.bin # NoBin
    BY <1>1, <1>2, <1>6, <2>1 DEF Sound
  <2>3. ASSUME NEW q, Follow(c, <<Set(k.row, k.delta), Put(k.lot, k.bin, k.status, q)>>)
        PROVE  Goal
    <3>. DEFINE x == Set(k.row, k.delta)
                y == Put(k.lot, k.bin, k.status, q)
    <3>1. x.call = "set" /\ OffFloor(y)
      BY <1>9, <1>12, <2>2 DEF OffFloor
    <3>. HIDE DEF x, y
    <3>2. t # <<>> /\ 2 \in 1..Len(t) /\ t[1] = x /\ t[2] = y
      BY <1>4, <2>1, <2>3 DEF x, y
    <3>. QED  BY <3>1, <3>2 DEF Explained, LeavesFloor, t, Goal
  <2>. QED  BY <1>3, <2>1, <2>2, <2>3
<1>24. ASSUME LookupRow(c)
       PROVE  Goal
  <2>1. Doing(c, "lookup")
    BY <1>24 DEF LookupRow
  <2>. QED  BY <1>2, <1>6, <2>1
<1>25. ASSUME QuarantineRow(c)
       PROVE  Goal
  <2>1. Doing(c, "quarantine") /\ \E there \in AnyQuantity(RowsOf(k.lot, "quarantine")) :
          Follow(c, <<Put(k.lot, NoBin, "quarantine", there + k.qty), Set(k.row, 0), Expire(k.lot)>>)
    BY <1>25 DEF QuarantineRow, k
  <2>2. PICK there \in AnyQuantity(RowsOf(k.lot, "quarantine")) :
          Follow(c, <<Put(k.lot, NoBin, "quarantine", there + k.qty), Set(k.row, 0), Expire(k.lot)>>)
    BY <2>1
  <2>3. k \in Calls /\ d = 0 /\ SweptAfter(rows, s, 0) /\ k.qty \in Nat /\ s[1] = k
        /\ 1 \in 1..Len(s) /\ k.call = "quarantine" /\ there \in Nat
    <3>1. there \in Nat
      BY <2>2, AnyQuantityType DEF StockInv, RowsOf
    <3>. QED  BY <1>2, <1>6, <2>1, <3>1
  <2>4. Held(rows, k.lot, NoBin, "quarantine") = there
    BY <1>1, <2>2, RowsSame, FoundIsHeld
  <2>. DEFINE x == Put(k.lot, NoBin, "quarantine", there + k.qty)
              y == Set(k.row, 0)
              z == Expire(k.lot)
  <2>5. x.call = "put" /\ x.status = "quarantine" /\ Effect(rows, x) = (there + k.qty) - there
    BY <1>12, <2>4 DEF Effect
  <2>6. y.call = "set" /\ y.row = k.row /\ y.qty = 0 /\ z.call = "expire"
    BY <1>9, <1>11
  <2>7. Follow(c, <<x, y, z>>)
    BY <2>2
  <2>. HIDE DEF x, y, z
  <2>8. /\ Behind(t, 3, s, 1) /\ t # <<>> /\ 1 \in 1..Len(t) /\ 2 \in 1..Len(t) /\ 3 \in 1..Len(t)
        /\ t[1] = x /\ t[2] = y /\ t[3] = z
    BY <1>4, <2>1, <2>7
  <2>9. k.row \in DOMAIN rows /\ rows[k.row].status = "available" /\ rows[k.row].qty = k.qty /\ Sparing(s, 1, k.row)
    BY <2>3 DEF SweptAfter, Swept, Sparing
  <2>10. SweptAfter(rows, t, 3) /\ Sparing(t, 3, k.row)
    BY <2>3, <2>8, <2>9, RestSwept
  <2>11. SweptAfter(rows, t, 2) /\ Sparing(t, 2, k.row)
    <3>1. \A i \in 1..Len(t) : i > 2 => i = 3 \/ i > 3
      BY <2>8 DEF Behind
    <3>2. \A i \in 1..Len(t) : i > 2 /\ t[i].call = "quarantine" => i > 3
      BY <2>6, <2>8, <3>1
    <3>3. SweptAfter(rows, t, 2)
      BY <2>6, <2>8, <2>10, <3>1, <3>2 DEF SweptAfter
    <3>4. Sparing(t, 2, k.row)
      BY <2>10, <3>2 DEF Sparing
    <3>. QED  BY <3>3, <3>4
  <2>12. Empties(rows, t, 1, d + Effect(rows, x))
    <3>1. (d + ((there + k.qty) - there)) + (0 - k.qty) = 0
      BY <2>3
    <3>. QED  BY <2>5, <2>6, <2>8, <2>9, <2>11, <3>1 DEF Empties
  <2>13. Opening(rows, t, d)
    BY <2>5, <2>8, <2>12 DEF Opening, IntoQuarantine, Plain
  <2>. QED  BY <2>8, <2>13 DEF Explained, t, Goal
<1>26. ASSUME PutRow(c)
       PROVE  Goal
  <2>1. Doing(c, "put") /\ ((\E r \in RowsIn(rows, k.lot, k.bin, k.status) : Follow(c, <<Set(r, k.qty)>>))
                            \/ (RowsIn(rows, k.lot, k.bin, k.status) = {} /\ Follow(c, <<[k EXCEPT !.call = "insert"]>>)))
    BY <1>26, RowsSame DEF PutRow, k
  <2>2. k \in Calls /\ k.qty \in Nat /\ s[1] = k /\ 1 \in 1..Len(s) /\ k.call = "put"
        /\ (Opening(rows, s, d) \/ OffFloor(k))
    BY <1>2, <1>6, <2>1
  <2>3. ASSUME NEW x, Behind(t, 1, s, 1), t # <<>>, t[1] = x, x.call \in Plain, Opening(rows, s, d),
               Effect(rows, x) = Effect(rows, k), IntoQuarantine(rows, k) => IntoQuarantine(rows, x)
        PROVE  Goal
    <3>1. Enters(s, 1, d + Effect(rows, k)) => Enters(t, 1, d + Effect(rows, k))
      BY <2>3, RestPosts
    <3>2. Empties(rows, s, 1, d + Effect(rows, k)) => Empties(rows, t, 1, d + Effect(rows, k))
      BY <2>3, RestPosts
    <3>3. Opening(rows, t, d)
      BY <2>2, <2>3, <3>1, <3>2 DEF Opening
    <3>. QED  BY <2>3, <3>3 DEF Explained, t, Goal
  <2>4. ASSUME NEW r \in RowsIn(rows, k.lot, k.bin, k.status), Follow(c, <<Set(r, k.qty)>>)
        PROVE  Goal
    <3>. DEFINE x == Set(r, k.qty)
    <3>1. x.call = "set" /\ x.row = r /\ x.qty = k.qty
      BY <1>9
    <3>2. r \in DOMAIN rows /\ rows[r].bin = k.bin /\ rows[r].status = k.status
      BY DEF RowsIn
    <3>3. Held(rows, k.lot, k.bin, k.status) = rows[r].qty
      BY <1>1, HeldOne
    <3>4. Effect(rows, x) = Effect(rows, k) /\ (IntoQuarantine(rows, k) => IntoQuarantine(rows, x))
      BY <2>2, <3>1, <3>2, <3>3 DEF Effect, IntoQuarantine
    <3>5. Opening(rows, s, d)
      BY <2>2, <3>2 DEF OffFloor, OnTheFloor
    <3>. HIDE DEF x
    <3>6. Behind(t, 1, s, 1) /\ t # <<>> /\ t[1] = x
      BY <1>4, <2>1, <2>4 DEF x, s
    <3>. QED  BY <2>3, <3>1, <3>4, <3>5, <3>6 DEF Plain
  <2>5. ASSUME Follow(c, <<[k EXCEPT !.call = "insert"]>>)
        PROVE  Goal
    <3>. DEFINE x == [k EXCEPT !.call = "insert"]
    <3>1. x.call = "insert" /\ x.lot = k.lot /\ x.bin = k.bin /\ x.status = k.status /\ x.qty = k.qty
      BY <2>2 DEF Calls
    <3>. HIDE DEF x
    <3>2. Behind(t, 1, s, 1) /\ t # <<>> /\ t[1] = x
      BY <1>4, <2>1, <2>5 DEF x, s
    <3>3. CASE OffFloor(k)
      <4>1. OffFloor(t[1])
        BY <3>1, <3>2, <3>3 DEF OffFloor
      <4>. QED  BY <3>2, <4>1 DEF Explained, LeavesFloor, t, Goal
    <3>4. CASE Opening(rows, s, d)
      <4>1. Effect(rows, x) = Effect(rows, k) /\ (IntoQuarantine(rows, k) => IntoQuarantine(rows, x))
        BY <2>2, <3>1 DEF Effect, IntoQuarantine
      <4>. QED  BY <2>3, <3>1, <3>2, <3>4, <4>1 DEF Plain
    <3>. QED  BY <2>2, <3>3, <3>4
  <2>. QED  BY <2>1, <2>4, <2>5
<1>. QED
  BY <1>20, <1>21, <1>22, <1>23, <1>24, <1>25, <1>26, Zenon DEF Resolves, Goal

LEMMA SweptMoved ==
  ASSUME NEW rs, NEW us, NEW s, NEW m, SweptAfter(rs, s, m),
         \A r \in DOMAIN rs : rs[r].status = "available" => (r \in DOMAIN us /\ us[r] = rs[r]) \/ Sparing(s, m, r)
  PROVE  SweptAfter(us, s, m)
<1>1. ASSUME NEW i \in 1..Len(s), i > m, Swept(rs, s[i])
      PROVE  Swept(us, s[i])
  <2>1. s[i].call = "quarantine" /\ s[i].row \in DOMAIN rs /\ rs[s[i].row].status = "available"
        /\ rs[s[i].row].qty = s[i].qty /\ ~Sparing(s, m, s[i].row)
    BY <1>1 DEF Swept, Sparing
  <2>. QED  BY <2>1 DEF Swept
<1>. QED  BY <1>1 DEF SweptAfter

LEMMA EmptiesMoved ==
  ASSUME NEW rs, NEW us, NEW s, NEW m, NEW d, Empties(rs, s, m, d),
         \A r \in DOMAIN rs : rs[r].status = "available" => r \in DOMAIN us /\ us[r] = rs[r]
  PROVE  Empties(us, s, m, d)
<1>1. SweptAfter(us, s, m + 1)
  BY SweptMoved DEF Empties
<1>. QED  BY <1>1 DEF Empties

LEMMA BehindSecond ==
  ASSUME NEW t, NEW s, Behind(t, 0, s, 1), 2 \in 1..Len(s)
  PROVE  t # <<>> /\ 1 \in 1..Len(t) /\ t[1] = s[2]
<1>1. Len(t) \in Nat /\ Len(s) \in Nat /\ Len(t) - 0 = Len(s) - 1 /\ \A i \in 1..(Len(s) - 1) : t[0 + i] = s[1 + i]
  BY DEF Behind
<1>2. 1 \in 1..(Len(s) - 1) /\ 0 + 1 = 1 /\ 1 + 1 = 2
  BY <1>1
<1>3. 1 \in 1..Len(t) /\ t[1] = s[2]
  BY <1>1, <1>2
<1>. QED  BY <1>3, EmptyList

LEMMA FloorWrites ==
  ASSUME StockInv, NEW c \in Callers, Writes(c), RowsInv, OnTheFloor',
         OnTheFloor => Explained(rows, todo[c], AllOf(rows) - posted.lots)
  PROVE  Explained(rows', todo'[c], AllOf(rows') - posted'.lots)
<1>. DEFINE d == AllOf(rows) - posted.lots
            e == AllOf(rows') - posted'.lots
            s == todo[c]
            t == todo'[c]
            k == next(c)
            Goal == Explained(rows', t, e)
<1>1. /\ rows \in Seq(Row) /\ Distinct(rows) /\ UpToDate(rows, s) /\ NoLot \notin Lots /\ AllOf(rows) \in Nat
      /\ posted \in [lots : Int, all : Int] /\ posted.lots \in Int /\ d \in Int
      /\ \A r \in DOMAIN rows : rows[r].qty \in Nat
  <2>1. rows \in Seq(Row) /\ posted \in [lots : Int, all : Int]
    BY DEF StockInv, TypeOK, Row
  <2>. QED  BY <2>1, AllType, RowsOfType, StockAssumption DEF RowsInv
<1>2. PICK name : Doing(c, name) /\ Follow(c, <<>>)
  BY DEF Writes, InsertRow, SetRow, WriteAgg, Increment, ExpireLot, PostEntry
<1>3. /\ s[1] = k /\ Len(s) \in Nat \ {0} /\ 1 \in 1..Len(s) /\ k.call = name /\ Sound(k, DOMAIN rows)
      /\ k \in Calls /\ k.qty \in Nat /\ k.delta \in Int /\ Behind(t, 0, s, 1)
      /\ k.bin \in Places /\ k.status \in Statuses
  BY <1>2, HeadSound, FollowShape DEF Sound
<1>4. Behind(t, 0, s, 1)
  BY <1>2, FollowShape
<1>5. OnTheFloor =>
      /\ k.call = "addAgg" => d = 0 /\ StillAfter(s, 0)
      /\ k.call = "setAgg" => (d = 0 /\ StillAfter(s, 0)) \/ Posts(s, 2, d)
      /\ k.call = "post" => (d = 0 /\ StillAfter(s, 0) /\ k.lot = NoLot) \/ Posts(s, 1, d)
      /\ k.call = "expire" => d = 0 /\ (StillAfter(s, 0) \/ SweptAfter(rows, s, 0))
      /\ k.call \in {"put", "insert"} => Opening(rows, s, d) \/ OffFloor(k)
      /\ k.call = "set" => Empties(rows, s, 0, d) \/ Opening(rows, s, d) \/ (2 \in 1..Len(s) /\ OffFloor(s[2]))
  BY <1>3, HeadExplained
<1>6. ASSUME StillAfter(s, 0) \/ StillAfter(s, 1)
      PROVE  StillAfter(t, 0)
  BY <1>4, <1>6, RestStill
<1>7. ASSUME NEW n \in {0, 1}
      PROVE  /\ SweptAfter(rows, s, n) => SweptAfter(rows, t, 0)
             /\ \A r : Sparing(s, n, r) => Sparing(t, 0, r)
  BY <1>4, RestSwept
<1>8. \A v : /\ Posts(s, 1 + 1, v) => Posts(t, 0 + 1, v)
             /\ Enters(s, 1, v) => Enters(t, 0, v)
             /\ Empties(rows, s, 1, v) => Empties(rows, t, 0, v)
  BY <1>4, RestPosts
<1>9. 2 \in 1..Len(s) => t # <<>> /\ t[1] = s[2]
  BY <1>4, BehindSecond
<1>. HIDE DEF s, t, k, d, e, Goal
<1>10. ASSUME rows' = rows
       PROVE  OnTheFloor /\ (posted' = posted => e = d)
  <2>1. OnTheFloor
    BY <1>10 DEF OnTheFloor
  <2>. QED  BY <1>10, <2>1 DEF e, d
<1>11. ASSUME e = 0, StillAfter(t, 0) \/ SweptAfter(rows', t, 0)
       PROVE  Goal
  BY <1>11 DEF Explained, Goal
<1>12. ASSUME Enters(t, 0, e) \/ Empties(rows', t, 0, e)
       PROVE  Goal
  BY <1>12 DEF Explained, Goal
<1>20. ASSUME InsertRow(c)
       PROVE  Goal
  <2>. DEFINE x == [lot |-> k.lot, bin |-> k.bin, status |-> k.status, qty |-> k.qty]
              n == Len(rows) + 1
  <2>1. Doing(c, "insert") /\ rows' = Append(rows, x) /\ posted' = posted
    BY <1>20 DEF InsertRow, k
  <2>2. k.call = "insert"
    BY <2>1, HeadSound DEF k
  <2>3. k.lot \in Lots
    BY <1>3, <2>2 DEF Sound, WithLot
  <2>4. x \in Row /\ x.lot = k.lot /\ x.bin = k.bin /\ x.status = k.status /\ x.qty = k.qty
    BY <1>3, <2>3 DEF Row
  <2>5. RowsIn(rows, k.lot, k.bin, k.status) = {}
    BY <1>1, <1>3, <2>2 DEF UpToDate, JustRead, Fresh
  <2>6. Effect(rows, k) = k.qty
    BY <1>3, <2>2, <2>5, HeldNone DEF Effect
  <2>. HIDE DEF x, n
  <2>7. /\ AllOf(rows') = AllOf(rows) + k.qty /\ DOMAIN rows' = DOMAIN rows \cup {n} /\ n \notin DOMAIN rows
        /\ rows'[n] = x /\ \A r \in DOMAIN rows : rows'[r] = rows[r]
    BY <1>1, <2>1, <2>4, AllAppend DEF n
  <2>8. OnTheFloor /\ k.bin = NoBin /\ k.status # "reserved"
    <3>1. \A r \in DOMAIN rows' : rows'[r].bin = NoBin /\ rows'[r].status # "reserved"
      BY DEF OnTheFloor
    <3>. QED  BY <2>4, <2>7, <3>1 DEF OnTheFloor
  <2>9. Opening(rows, s, d)
    BY <1>5, <2>2, <2>8 DEF OffFloor
  <2>10. e = d + Effect(rows, k)
    BY <1>1, <1>3, <2>1, <2>6, <2>7 DEF e, d
  <2>11. Empties(rows, t, 0, e) => Empties(rows', t, 0, e)
    BY <2>7, EmptiesMoved
  <2>. QED  BY <1>3, <1>8, <1>12, <2>9, <2>10, <2>11 DEF Opening
<1>21. ASSUME SetRow(c)
       PROVE  Goal
  <2>. DEFINE r == k.row
  <2>1. Doing(c, "set") /\ rows' = [rows EXCEPT ![k.row].qty = k.qty] /\ posted' = posted
    BY <1>21 DEF SetRow, k
  <2>2. k.call = "set" /\ r \in DOMAIN rows
    BY <1>3, <2>1, HeadSound DEF k, Sound, WithRow
  <2>3. /\ rows' \in Seq(Row) /\ DOMAIN rows' = DOMAIN rows
        /\ AllOf(rows') = AllOf(rows) - rows[r].qty + k.qty
        /\ \A q \in DOMAIN rows : q # r => rows'[q] = rows[q]
        /\ \A q \in DOMAIN rows : rows'[q].bin = rows[q].bin /\ rows'[q].status = rows[q].status
    <3>1. Written(rows, r, k.qty, rows')
      BY <2>1 DEF Written
    <3>. QED  BY <1>1, <1>3, <2>2, <3>1, AllSet
  <2>4. OnTheFloor
    <3>1. \A q \in DOMAIN rows' : rows'[q].bin = NoBin /\ rows'[q].status # "reserved"
      BY DEF OnTheFloor
    <3>. QED  BY <2>3, <3>1 DEF OnTheFloor
  <2>5. e = d + (k.qty - rows[r].qty) /\ Effect(rows, k) = k.qty - rows[r].qty
    <3>1. Effect(rows, k) = k.qty - rows[r].qty
      BY <2>2 DEF Effect
    <3>2. rows[r].qty \in Int /\ k.qty \in Int /\ AllOf(rows) \in Int /\ posted.lots \in Int
      BY <1>1, <1>3, <2>2
    <3>3. d = AllOf(rows) - posted.lots /\ e = AllOf(rows') - posted.lots
      BY <2>1 DEF d, e
    <3>4. AllOf(rows') = AllOf(rows) - rows[r].qty + k.qty
      BY <2>3
    <3>. HIDE DEF r
    <3>5. e = d + (k.qty - rows[r].qty)
      BY <3>2, <3>3, <3>4
    <3>. QED  BY <3>1, <3>5
  <2>6. CASE Empties(rows, s, 0, d)
    <3>1. d + (k.qty - rows[r].qty) = 0 /\ SweptAfter(rows, s, 1) /\ Sparing(s, 1, r)
      BY <1>3, <2>6 DEF Empties
    <3>2. SweptAfter(rows, t, 0) /\ Sparing(t, 0, r)
      BY <1>7, <3>1
    <3>. HIDE DEF r
    <3>3. SweptAfter(rows', t, 0)
      BY <2>3, <3>2, SweptMoved
    <3>. QED  BY <1>11, <2>5, <3>1, <3>3
  <2>7. CASE Opening(rows, s, d)
    <3>1. Enters(s, 1, e) \/ (rows[r].status = "quarantine" /\ Empties(rows, s, 1, e))
      BY <1>3, <2>2, <2>5, <2>7 DEF Opening, IntoQuarantine
    <3>2. CASE Enters(s, 1, e)
      BY <1>8, <1>12, <3>2
    <3>3. CASE rows[r].status = "quarantine" /\ Empties(rows, s, 1, e)
      <4>1. Empties(rows, t, 0, e)
        BY <1>8, <3>3
      <4>2. \A q \in DOMAIN rows : rows[q].status = "available" => q \in DOMAIN rows' /\ rows'[q] = rows[q]
        BY <2>3, <3>3
      <4>. QED  BY <1>12, <4>1, <4>2, EmptiesMoved
    <3>. QED  BY <3>1, <3>2, <3>3
  <2>8. CASE 2 \in 1..Len(s) /\ OffFloor(s[2])
    BY <1>9, <2>8 DEF Explained, LeavesFloor, Goal
  <2>. QED  BY <1>5, <2>2, <2>4, <2>6, <2>7, <2>8
<1>22. ASSUME WriteAgg(c)
       PROVE  Goal
  <2>1. k.call = "setAgg" /\ rows' = rows /\ posted' = posted
    BY <1>22, HeadSound DEF WriteAgg, k
  <2>2. e = d /\ ((d = 0 /\ StillAfter(s, 0)) \/ Posts(s, 2, d))
    BY <1>5, <1>10, <2>1
  <2>3. Posts(s, 2, d) => Enters(t, 0, e)
    BY <1>8, <2>2 DEF Enters
  <2>. QED  BY <1>6, <1>11, <1>12, <2>2, <2>3
<1>23. ASSUME Increment(c)
       PROVE  Goal
  <2>1. k.call = "addAgg" /\ rows' = rows /\ posted' = posted
    BY <1>23, HeadSound DEF Increment, k
  <2>. QED  BY <1>5, <1>6, <1>10, <1>11, <2>1
<1>24. ASSUME ExpireLot(c)
       PROVE  Goal
  <2>1. k.call = "expire" /\ rows' = rows /\ posted' = posted
    BY <1>24, HeadSound DEF ExpireLot, k
  <2>. QED  BY <1>5, <1>6, <1>7, <1>10, <1>11, <2>1
<1>25. ASSUME PostEntry(c)
       PROVE  Goal
  <2>1. /\ k.call = "post" /\ rows' = rows
        /\ posted'.lots = IF k.lot = NoLot THEN posted.lots ELSE posted.lots + k.delta
    BY <1>25, HeadSound DEF PostEntry, k
  <2>2. CASE d = 0 /\ StillAfter(s, 0) /\ k.lot = NoLot
    <3>1. e = d
      BY <2>1, <2>2 DEF e, d
    <3>. QED  BY <1>6, <1>11, <2>2, <3>1
  <2>3. CASE Posts(s, 1, d)
    <3>1. k.lot # NoLot /\ k.delta = d /\ StillAfter(s, 1)
      BY <1>3, <2>3 DEF Posts
    <3>2. e = d - k.delta
      BY <1>1, <1>3, <2>1, <3>1 DEF e, d
    <3>3. e = 0
      BY <1>1, <3>1, <3>2
    <3>. QED  BY <1>6, <1>11, <3>1, <3>3
  <2>. QED  BY <1>5, <1>10, <2>1, <2>2, <2>3
<1>. QED  BY <1>20, <1>21, <1>22, <1>23, <1>24, <1>25, Zenon DEF Writes, Goal, t, e

LEMMA FloorOpens ==
  ASSUME StockInv, NEW c \in Callers, Opens(c), StockMade, OnTheFloor, Explained(rows, todo[c], AllOf(rows) - posted.lots)
  PROVE  Explained(rows, todo'[c], AllOf(rows) - posted.lots)
<1>. DEFINE s == todo'[c]
            d == AllOf(rows) - posted.lots
<1>1. Begun(s) /\ d = 0
  BY NothingExplained DEF Opens
<1>2. rows \in Seq(Row) /\ NoLot \notin Lots
  BY StockAssumption DEF StockInv, TypeOK, Row
<1>. HIDE DEF s
<1>3. CASE Producing(s)
  <2>1. PICK l \in Lots, q \in Nat :
          /\ ~Made(l) /\ Len(s) = 3 /\ s[1] = Put(l, NoBin, "available", q) /\ s[2] = Post(l, q) /\ s[3] = AddAgg(q)
    BY <1>3 DEF Producing
  <2>2. /\ s[1].call = "put" /\ s[1].lot = l /\ s[1].bin = NoBin /\ s[1].status = "available" /\ s[1].qty = q
        /\ s[2].call = "post" /\ s[2].lot = l /\ s[2].delta = q /\ s[3].call = "addAgg"
    BY <2>1 DEF Put, Post, AddAgg, Blank
  <2>3. RowsIn(rows, l, NoBin, "available") = {}
    BY <2>1 DEF RowsIn, StockMade, MadeOf, Made
  <2>4. d + Effect(rows, s[1]) = q
    BY <1>1, <2>1, <2>2, <2>3, HeldNone DEF Effect
  <2>5. Posts(s, 1 + 1, q)
    <3>1. \A i \in 1..Len(s) : i > 2 => i = 3
      BY <2>1
    <3>2. StillAfter(s, 2)
      BY <2>2, <3>1 DEF StillAfter, Still
    <3>. QED  BY <1>2, <2>1, <2>2, <3>2 DEF Posts
  <2>6. Opening(rows, s, d)
    BY <2>2, <2>4, <2>5 DEF Opening, Enters, Plain
  <2>7. s # <<>>
    <3>1. 1 \in 1..Len(s)
      BY <2>1
    <3>. QED  BY <3>1, EmptyList
  <2>. QED  BY <2>6, <2>7 DEF Explained, s
<1>4. CASE Shipping(s) \/ Adjusting(s) \/ Moving(s)
  <2>1. StillAfter(s, 0)
    BY <1>4 DEF Shipping, Adjusting, Moving, StillAfter, Still
  <2>. QED  BY <1>1, <2>1 DEF Explained, s
<1>5. CASE Sweeping(s)
  <2>1. SweptAfter(rows, s, 0)
    BY <1>5 DEF Sweeping, SweptAfter, Swept
  <2>. QED  BY <1>1, <2>1 DEF Explained, s
<1>6. CASE Shifting(s)
  <2>1. \A r, q, l : /\ Set(r, q).call = "set" /\ Put(l, NoBin, "reserved", q).call = "put"
                     /\ Put(l, NoBin, "reserved", q).status = "reserved"
    BY DEF Set, Put, Blank
  <2>2. Len(s) = 2 /\ s[1].call = "set" /\ OffFloor(s[2])
    BY <1>6, <2>1 DEF Shifting, OnTheFloor, OffFloor
  <2>3. 2 \in 1..Len(s)
    BY <2>2
  <2>4. s # <<>>
    BY <2>3, EmptyList
  <2>. QED  BY <2>2, <2>3, <2>4 DEF Explained, LeavesFloor, s
<1>. QED  BY <1>1, <1>3, <1>4, <1>5, <1>6 DEF Begun

LEMMA FloorTurn ==
  ASSUME StockInv, NEW c \in Callers, \A e \in Callers : e = c, Turn(c), RowsInv, StockMade, FloorInv
  PROVE  FloorInv'
<1>. DEFINE d == AllOf(rows) - posted.lots
            D(rs, ps) == AllOf(rs) - ps.lots
<1>. SUFFICES ASSUME count'.faults = 0, OnTheFloor'
              PROVE  Explained(rows', todo'[c], D(rows', posted'))
  BY Zenon DEF FloorInv
<1>1. rows \in Seq(Row) /\ posted.lots \in Int /\ AllOf(rows) \in Nat /\ d \in Int /\ count.faults \in Nat
  <2>1. rows \in Seq(Row) /\ posted.lots \in Int /\ count.faults \in Nat
    BY DEF StockInv, TypeOK, Row
  <2>. QED  BY <2>1, AllType
<1>2. count.faults = 0 /\ ~Cuts(c)
  <2>1. UNCHANGED vars => count' = count
    BY DEF vars
  <2>2. Resolves(c) => count' = count
    BY DEF Resolves, ShipRead, ShipResolve, AdjustResolve, MoveResolve, LookupRow, QuarantineRow, PutRow
  <2>3. Writes(c) => count' = count
    BY DEF Writes, InsertRow, SetRow, WriteAgg, Increment, ExpireLot, PostEntry
  <2>4. ~Cuts(c)
    BY <1>1 DEF Cuts
  <2>. QED  BY <2>1, <2>2, <2>3, <2>4 DEF Turn, Opens
<1>3. OnTheFloor => Explained(rows, todo[c], d)
  BY <1>2 DEF FloorInv
<1>4. ASSUME rows' = rows
      PROVE  OnTheFloor /\ Explained(rows, todo[c], d)
  <2>1. OnTheFloor
    BY <1>4 DEF OnTheFloor
  <2>. QED  BY <1>3, <2>1
<1>5. CASE UNCHANGED vars
  <2>1. rows' = rows /\ todo' = todo /\ posted' = posted
    BY <1>5 DEF vars
  <2>. QED  BY <1>4, <2>1
<1>6. CASE Opens(c)
  <2>1. rows' = rows /\ posted' = posted
    BY <1>6 DEF Opens
  <2>2. Explained(rows, todo'[c], d)
    BY <1>4, <1>6, <2>1, FloorOpens
  <2>. QED  BY <2>1, <2>2
<1>7. CASE Resolves(c)
  <2>1. rows' = rows /\ posted' = posted
    BY <1>7 DEF Resolves, ShipRead, ShipResolve, AdjustResolve, MoveResolve, LookupRow, QuarantineRow, PutRow
  <2>. HIDE DEF d
  <2>2. Explained(rows, todo'[c], d)
    BY <1>1, <1>4, <1>7, <2>1, FloorResolves
  <2>. QED  BY <2>1, <2>2 DEF d
<1>8. CASE Writes(c)
  BY <1>3, <1>8, FloorWrites
<1>. QED  BY <1>2, <1>5, <1>6, <1>7, <1>8 DEF Turn

-----------------------------------------------------------------------------
(* As long as nothing was put in a bin, quarantined or adjusted, a list     *)
(* puts into rows no more than was produced and they do not hold.           *)

Calm == {"ship", "shipAgg", "moveInto", "setAgg", "addAgg", "post", "quarantine", "expire"}
CalmAfter(s, m) == \A i \in 1..Len(s) : i > m => s[i].call \in Calm
OffShop(k) == k.call \in {"put", "insert"} /\ (k.bin # NoBin \/ k.status = "quarantine")
Gives(rs, s, z) ==
  /\ CalmAfter(s, 1)
  /\ \/ s[1].call \in Plain /\ Effect(rs, s[1]) <= z
     \/ s[1].call = "lookup" /\ s[1].qty <= z
TakesFirst(rs, s, z) ==
  /\ s[1].call = "set" /\ Effect(rs, s[1]) <= 0 /\ 2 \in 1..Len(s)
  /\ \/ OffShop(s[2])
     \/ s[2].call \in {"put", "lookup"} /\ s[2].qty <= z - Effect(rs, s[1]) /\ CalmAfter(s, 2)
Paid(rs, s, z) ==
  /\ z >= 0
  /\ CalmAfter(s, 0) \/ (s # <<>> /\ (OffShop(s[1]) \/ Gives(rs, s, z) \/ TakesFirst(rs, s, z)))
Shop == Unbinned /\ ~count.adjusted /\ \A r \in DOMAIN rows : rows[r].status # "quarantine"
ShopInv == Shop => \A c \in Callers : Paid(rows, todo[c], count.made - AllOf(rows))

LEMMA RestCalm ==
  ASSUME NEW t, NEW m, NEW s, NEW n, Behind(t, m, s, n), NEW k \in Nat, k <= n, CalmAfter(s, k)
  PROVE  CalmAfter(t, m)
<1>1. n \in Nat
  BY DEF Behind
<1>2. \A i \in 1..Len(t) : i > m => \E j \in 1..Len(s) : j > k /\ t[i] = s[j]
  BY <1>1, BehindSame
<1>. QED  BY <1>2 DEF CalmAfter

LEMMA HeadPaid ==
  ASSUME NEW rs, NEW s, NEW z, Paid(rs, s, z), Len(s) \in Nat \ {0}
  PROVE  /\ s[1].call \in Calm => CalmAfter(s, 0)
         /\ s[1].call # "adjustAgg"
         /\ s[1].call = "lookup" => s[1].qty <= z /\ CalmAfter(s, 1)
         /\ s[1].call \in {"put", "insert"} => OffShop(s[1]) \/ (Effect(rs, s[1]) <= z /\ CalmAfter(s, 1))
         /\ s[1].call = "set" => (Effect(rs, s[1]) <= z /\ CalmAfter(s, 1)) \/ TakesFirst(rs, s, z)
<1>. DEFINE k == s[1]
            e == Effect(rs, k)
<1>1. CalmAfter(s, 0) => k.call \in Calm
  BY DEF CalmAfter
<1>2. TakesFirst(rs, s, z) => k.call = "set"
  BY DEF TakesFirst
<1>3. Gives(rs, s, z) => CalmAfter(s, 1) /\ ((k.call \in Plain /\ e <= z) \/ (k.call = "lookup" /\ k.qty <= z))
  BY DEF Gives
<1>4. OffShop(k) => k.call \in {"put", "insert"}
  BY DEF OffShop
<1>5. CalmAfter(s, 0) \/ OffShop(k) \/ Gives(rs, s, z) \/ TakesFirst(rs, s, z)
  BY DEF Paid
<1>. HIDE DEF k, e
<1>6. \/ k.call \in Calm /\ CalmAfter(s, 0)
      \/ k.call \in {"put", "insert"} /\ OffShop(k)
      \/ k.call \in Plain /\ e <= z /\ CalmAfter(s, 1)
      \/ k.call = "lookup" /\ k.qty <= z /\ CalmAfter(s, 1)
      \/ k.call = "set" /\ TakesFirst(rs, s, z)
  BY <1>1, <1>2, <1>3, <1>4, <1>5
<1>. QED  BY <1>6 DEF k, e, Plain, Calm

LEMMA EffectType ==
  ASSUME NEW rs \in Seq(Row), NEW k, k.qty \in Nat, k.call = "set" => k.row \in DOMAIN rs
  PROVE  Effect(rs, k) \in Int /\ (k.call # "set" => Effect(rs, k) <= k.qty)
<1>1. CASE k.call = "set"
  <2>1. rs[k.row].qty \in Nat
    BY <1>1, RowsOfType
  <2>. QED  BY <1>1, <2>1 DEF Effect
<1>2. CASE k.call # "set"
  <2>1. Held(rs, k.lot, k.bin, k.status) \in Nat
    BY HeldType
  <2>. QED  BY <1>2, <2>1 DEF Effect
<1>. QED  BY <1>1, <1>2

LEMMA ShopResolves ==
  ASSUME StockInv, NEW c \in Callers, Resolves(c), RowsInv, Shop, NEW z \in Int, Paid(rows, todo[c], z)
  PROVE  Paid(rows, todo'[c], z)
<1>. DEFINE Goal == Paid(rows, todo'[c], z)
            s == todo[c]
            t == todo'[c]
            k == next(c)
<1>1. /\ rows \in Seq(Row) /\ Distinct(rows) /\ UpToDate(rows, s) /\ Unbinned
      /\ todo \in [Callers -> Seq(Calls)] /\ NoBin \notin Bins /\ z >= 0
  BY StockAssumption DEF StockInv, TypeOK, Row, RowsInv, Shop, Paid
<1>2. ASSUME NEW name, Doing(c, name)
      PROVE  /\ s[1] = k /\ Len(s) \in Nat \ {0} /\ 1 \in 1..Len(s) /\ k.call = name /\ Sound(k, DOMAIN rows)
             /\ k \in Calls /\ k.qty \in Nat /\ k.delta \in Int /\ k.lot \in Lots \cup {NoLot}
             /\ k.call \in Calm => CalmAfter(s, 0)
             /\ k.call # "adjustAgg"
             /\ k.call = "lookup" => k.qty <= z /\ CalmAfter(s, 1)
             /\ k.call = "put" => OffShop(k) \/ (Effect(rows, k) <= z /\ CalmAfter(s, 1))
  BY <1>1, <1>2, HeadSound, HeadPaid DEF Sound
<1>3. ASSUME Throw(c)
      PROVE  Goal
  <2>1. todo'[c] = <<>>
    BY <1>1, <1>3 DEF Throw
  <2>2. CalmAfter(<<>>, 0)
    BY EmptyList DEF CalmAfter
  <2>. QED  BY <1>1, <2>1, <2>2 DEF Paid
<1>4. ASSUME NEW name, Doing(c, name)
      PROVE  /\ \A x : Follow(c, <<x>>) => Behind(t, 1, s, 1) /\ t # <<>> /\ 1 \in 1..Len(t) /\ t[1] = x
             /\ \A x, y : Follow(c, <<x, y>>) =>
                  Behind(t, 2, s, 1) /\ t # <<>> /\ 1 \in 1..Len(t) /\ 2 \in 1..Len(t) /\ t[1] = x /\ t[2] = y
             /\ \A x, y, v : Follow(c, <<x, y, v>>) =>
                  /\ Behind(t, 3, s, 1) /\ t # <<>> /\ 1 \in 1..Len(t) /\ 2 \in 1..Len(t) /\ 3 \in 1..Len(t)
                  /\ t[1] = x /\ t[2] = y /\ t[3] = v
  BY <1>4, FollowShape
<1>5. ASSUME NEW m, Behind(t, m, s, 1), CalmAfter(s, 0) \/ CalmAfter(s, 1)
      PROVE  CalmAfter(t, m)
  BY <1>5, RestCalm
<1>. HIDE DEF Goal, s, t, k
<1>6. ASSUME NEW x, Behind(t, 1, s, 1), t # <<>>, t[1] = x, x.call \in Plain, Effect(rows, x) <= z,
             CalmAfter(s, 0) \/ CalmAfter(s, 1)
      PROVE  Goal
  BY <1>1, <1>5, <1>6 DEF Paid, Gives, Goal, t
<1>7. ASSUME t # <<>>, OffShop(t[1])
      PROVE  Goal
  BY <1>1, <1>7 DEF Paid, Goal, t
<1>9. \A r, q : Set(r, q).call = "set" /\ Set(r, q).row = r /\ Set(r, q).qty = q
  BY DEF Set, Blank
<1>10. \A q, l, v : SetAgg(q).call = "setAgg" /\ Post(l, v).call = "post"
  BY DEF SetAgg, Post, Blank
<1>12. \A l, b, st, q : /\ Put(l, b, st, q).call = "put" /\ Put(l, b, st, q).lot = l /\ Put(l, b, st, q).bin = b
                        /\ Put(l, b, st, q).status = st /\ Put(l, b, st, q).qty = q
  BY DEF Put, Blank
<1>20. ASSUME ShipRead(c)
       PROVE  Goal
  <2>1. Doing(c, "ship") /\ (Throw(c) \/ \E r : Follow(c, <<[k EXCEPT !.call = "shipAgg", !.row = r, !.delta = Quantity(r)]>>))
    BY <1>20 DEF ShipRead, k
  <2>2. k \in Calls /\ CalmAfter(s, 0)
    BY <1>2, <2>1 DEF Calm
  <2>3. ASSUME NEW r, Follow(c, <<[k EXCEPT !.call = "shipAgg", !.row = r, !.delta = Quantity(r)]>>)
        PROVE  Goal
    <3>. DEFINE x == [k EXCEPT !.call = "shipAgg", !.row = r, !.delta = Quantity(r)]
    <3>1. x.call = "shipAgg"
      BY <2>2 DEF Calls
    <3>. HIDE DEF x
    <3>2. Behind(t, 1, s, 1) /\ t[1] = x
      BY <1>4, <2>1, <2>3 DEF x
    <3>3. CalmAfter(t, 1) /\ \A i \in 1..Len(t) : i = 1 \/ i > 1
      BY <1>5, <2>2, <3>2 DEF Behind
    <3>4. CalmAfter(t, 0)
      BY <3>1, <3>2, <3>3 DEF CalmAfter, Calm
    <3>. QED  BY <1>1, <3>4 DEF Paid, Goal, t
  <2>. QED  BY <1>3, <2>1, <2>3
<1>21. ASSUME ShipResolve(c)
       PROVE  Goal
  <2>. DEFINE x == Set(k.row, k.delta - k.qty)
              y == SetAgg(agg - k.qty)
              v == Post(k.lot, -k.qty)
  <2>1. Doing(c, "shipAgg") /\ (Throw(c) \/ Follow(c, <<x, y, v>>))
    BY <1>21 DEF ShipResolve, k
  <2>2. k \in Calls /\ CalmAfter(s, 0) /\ k.qty \in Nat /\ k.delta \in Int /\ s[1] = k
        /\ 1 \in 1..Len(s) /\ k.call = "shipAgg"
    BY <1>2, <2>1 DEF Calm
  <2>3. rows[k.row].qty = k.delta
    BY <1>1, <2>2 DEF UpToDate, JustRead, Fresh
  <2>4. x.call = "set" /\ Effect(rows, x) = (k.delta - k.qty) - k.delta
    BY <1>9, <2>3 DEF Effect
  <2>5. x.call = "set" /\ y.call = "setAgg" /\ v.call = "post" /\ Effect(rows, x) <= z
    <3>1. (k.delta - k.qty) - k.delta <= z
      BY <1>1, <2>2
    <3>. QED  BY <1>10, <2>4, <3>1
  <2>. HIDE DEF x, y, v
  <2>6. ASSUME Follow(c, <<x, y, v>>)
        PROVE  Goal
    <3>1. Behind(t, 3, s, 1) /\ t # <<>> /\ t[1] = x /\ t[2] = y /\ t[3] = v
      BY <1>4, <2>1, <2>6
    <3>2. CalmAfter(t, 3) /\ \A i \in 1..Len(t) : i > 1 => i = 2 \/ i = 3 \/ i > 3
      BY <1>5, <2>2, <3>1, SMTT(20) DEF Behind
    <3>3. CalmAfter(t, 1)
      BY <2>5, <3>1, <3>2 DEF CalmAfter, Calm
    <3>. QED  BY <1>1, <2>5, <3>1, <3>3 DEF Paid, Gives, Plain, Goal, t
  <2>. QED  BY <1>3, <2>1, <2>6
<1>22. ASSUME AdjustResolve(c)
       PROVE  Goal
  <2>1. Doing(c, "adjustAgg")
    BY <1>22 DEF AdjustResolve
  <2>. QED  BY <1>2, <2>1
<1>23. ASSUME MoveResolve(c)
       PROVE  Goal
  <2>1. Doing(c, "moveInto") /\ (Throw(c) \/ \E q : Follow(c, <<Set(k.row, k.delta), Put(k.lot, k.bin, k.status, q)>>))
    BY <1>23 DEF MoveResolve, k
  <2>2. k \in Calls /\ k.bin # NoBin /\ k.qty \in Nat /\ k.delta \in Int /\ s[1] = k /\ 1 \in 1..Len(s) /\ k.call = "moveInto"
        /\ k.row \in DOMAIN rows
    BY <1>1, <1>2, <2>1 DEF Sound, WithRow
  <2>3. rows[k.row].qty - k.qty = k.delta /\ rows[k.row].qty \in Nat
    BY <1>1, <2>2, RowsOfType DEF UpToDate, JustRead, Fresh
  <2>4. ASSUME NEW q, Follow(c, <<Set(k.row, k.delta), Put(k.lot, k.bin, k.status, q)>>)
        PROVE  Goal
    <3>. DEFINE x == Set(k.row, k.delta)
                y == Put(k.lot, k.bin, k.status, q)
    <3>1. x.call = "set" /\ Effect(rows, x) = k.delta - rows[k.row].qty /\ OffShop(y)
      BY <1>9, <1>12, <2>2 DEF OffShop, Effect
    <3>2. k.delta - rows[k.row].qty <= 0
      BY <2>2, <2>3
    <3>. HIDE DEF x, y
    <3>3. t # <<>> /\ 2 \in 1..Len(t) /\ t[1] = x /\ t[2] = y
      BY <1>4, <2>1, <2>4 DEF x, y
    <3>4. TakesFirst(rows, t, z)
      BY <3>1, <3>2, <3>3 DEF TakesFirst
    <3>. QED  BY <1>1, <3>3, <3>4 DEF Paid, t, Goal
  <2>. QED  BY <1>3, <2>1, <2>4
<1>24. ASSUME LookupRow(c)
       PROVE  Goal
  <2>1. Doing(c, "lookup") /\ \E there \in AnyQuantity(RowsOf(k.lot, k.status)) :
          Follow(c, <<Put(k.lot, NoBin, k.status, there + k.qty)>>)
    BY <1>24 DEF LookupRow, k
  <2>2. PICK there \in AnyQuantity(RowsOf(k.lot, k.status)) : Follow(c, <<Put(k.lot, NoBin, k.status, there + k.qty)>>)
    BY <2>1
  <2>3. k.qty <= z /\ CalmAfter(s, 1) /\ k.qty \in Nat /\ there \in Nat
    <3>1. there \in Nat
      BY <2>2, AnyQuantityType DEF StockInv, RowsOf
    <3>. QED  BY <1>2, <2>1, <3>1
  <2>4. Held(rows, k.lot, NoBin, k.status) = there
    BY <1>1, <2>2, RowsSame, FoundIsHeld
  <2>. DEFINE x == Put(k.lot, NoBin, k.status, there + k.qty)
  <2>5. x.call = "put" /\ Effect(rows, x) = (there + k.qty) - there
    BY <1>12, <2>4 DEF Effect
  <2>6. Effect(rows, x) <= z
    BY <1>1, <2>3, <2>5
  <2>. HIDE DEF x
  <2>7. Behind(t, 1, s, 1) /\ t # <<>> /\ t[1] = x
    BY <1>4, <2>1, <2>2 DEF x
  <2>. QED  BY <1>6, <2>3, <2>5, <2>6, <2>7 DEF Plain
<1>25. ASSUME QuarantineRow(c)
       PROVE  Goal
  <2>1. Doing(c, "quarantine") /\ \E q : Follow(c, <<Put(k.lot, NoBin, "quarantine", q), Set(k.row, 0), Expire(k.lot)>>)
    BY <1>25 DEF QuarantineRow, k
  <2>2. \A q : OffShop(Put(k.lot, NoBin, "quarantine", q))
    BY <1>12 DEF OffShop
  <2>3. t # <<>> /\ \E q : t[1] = Put(k.lot, NoBin, "quarantine", q)
    BY <1>4, <2>1
  <2>. QED  BY <1>7, <2>2, <2>3
<1>26. ASSUME PutRow(c)
       PROVE  Goal
  <2>1. Doing(c, "put") /\ ((\E r \in RowsIn(rows, k.lot, k.bin, k.status) : Follow(c, <<Set(r, k.qty)>>))
                            \/ (RowsIn(rows, k.lot, k.bin, k.status) = {} /\ Follow(c, <<[k EXCEPT !.call = "insert"]>>)))
    BY <1>26, RowsSame DEF PutRow, k
  <2>2. k \in Calls /\ k.call = "put" /\ (OffShop(k) \/ (Effect(rows, k) <= z /\ CalmAfter(s, 1)))
    BY <1>2, <2>1
  <2>3. ASSUME NEW r \in RowsIn(rows, k.lot, k.bin, k.status), Follow(c, <<Set(r, k.qty)>>)
        PROVE  Goal
    <3>. DEFINE x == Set(r, k.qty)
    <3>1. x.call = "set" /\ x.row = r /\ x.qty = k.qty
      BY <1>9
    <3>2. r \in DOMAIN rows /\ rows[r].bin = k.bin /\ rows[r].status = k.status
      BY DEF RowsIn
    <3>3. Held(rows, k.lot, k.bin, k.status) = rows[r].qty
      BY <1>1, HeldOne
    <3>4. Effect(rows, x) = Effect(rows, k)
      BY <2>2, <3>1, <3>3 DEF Effect
    <3>5. Effect(rows, k) <= z /\ CalmAfter(s, 1)
      BY <2>2, <3>2 DEF OffShop, Shop, Unbinned
    <3>. HIDE DEF x
    <3>6. Behind(t, 1, s, 1) /\ t # <<>> /\ t[1] = x
      BY <1>4, <2>1, <2>3 DEF x
    <3>. QED  BY <1>6, <3>1, <3>4, <3>5, <3>6 DEF Plain
  <2>4. ASSUME Follow(c, <<[k EXCEPT !.call = "insert"]>>)
        PROVE  Goal
    <3>. DEFINE x == [k EXCEPT !.call = "insert"]
    <3>1. x.call = "insert" /\ x.lot = k.lot /\ x.bin = k.bin /\ x.status = k.status /\ x.qty = k.qty
      BY <2>2 DEF Calls
    <3>. HIDE DEF x
    <3>2. Behind(t, 1, s, 1) /\ t # <<>> /\ t[1] = x
      BY <1>4, <2>1, <2>4 DEF x
    <3>3. CASE OffShop(k)
      <4>1. OffShop(t[1])
        BY <3>1, <3>2, <3>3 DEF OffShop
      <4>. QED  BY <1>7, <3>2, <4>1
    <3>4. CASE Effect(rows, k) <= z /\ CalmAfter(s, 1)
      <4>1. Effect(rows, x) = Effect(rows, k)
        BY <2>2, <3>1 DEF Effect
      <4>. QED  BY <1>6, <3>1, <3>2, <3>4, <4>1 DEF Plain
    <3>. QED  BY <2>2, <3>3, <3>4
  <2>. QED  BY <2>1, <2>3, <2>4
<1>. QED
  BY <1>20, <1>21, <1>22, <1>23, <1>24, <1>25, <1>26, Zenon DEF Resolves, Goal

LEMMA NothingPaid ==
  ASSUME NEW rs, NEW z
  PROVE  Paid(rs, <<>>, z) <=> z >= 0
<1>1. CalmAfter(<<>>, 0)
  BY EmptyList DEF CalmAfter
<1>. QED  BY <1>1 DEF Paid

LEMMA ShopWrites ==
  ASSUME StockInv, NEW c \in Callers, Writes(c), RowsInv, Shop',
         Shop => Paid(rows, todo[c], count.made - AllOf(rows))
  PROVE  Paid(rows', todo'[c], count'.made - AllOf(rows'))
<1>. DEFINE z == count.made - AllOf(rows)
            y == count'.made - AllOf(rows')
            s == todo[c]
            t == todo'[c]
            k == next(c)
            Goal == Paid(rows', t, y)
<1>1. /\ rows \in Seq(Row) /\ UpToDate(rows, s) /\ AllOf(rows) \in Nat /\ count.made \in Nat /\ z \in Int
      /\ s \in Seq(Calls) /\ \A r \in DOMAIN rows : rows[r].qty \in Nat
  <2>1. rows \in Seq(Row) /\ count.made \in Nat /\ s \in Seq(Calls)
    BY DEF StockInv, TypeOK, Row
  <2>. QED  BY <2>1, AllType, RowsOfType DEF RowsInv
<1>2. PICK name : Doing(c, name) /\ Follow(c, <<>>)
  BY DEF Writes, InsertRow, SetRow, WriteAgg, Increment, ExpireLot, PostEntry
<1>3. /\ s[1] = k /\ Len(s) \in Nat \ {0} /\ 1 \in 1..Len(s) /\ k.call = name /\ Sound(k, DOMAIN rows)
      /\ k.qty \in Nat /\ k.bin \in Places /\ k.status \in Statuses
  BY <1>2, HeadSound DEF Sound
<1>4. Behind(t, 0, s, 1)
  BY <1>2, FollowShape
<1>5. Shop =>
      /\ z >= 0
      /\ k.call \in Calm => CalmAfter(s, 0)
      /\ k.call \in {"put", "insert"} => OffShop(k) \/ (Effect(rows, k) <= z /\ CalmAfter(s, 1))
      /\ k.call = "set" => (Effect(rows, k) <= z /\ CalmAfter(s, 1)) \/ TakesFirst(rows, s, z)
  BY <1>3, HeadPaid DEF Paid
<1>6. ASSUME CalmAfter(s, 0) \/ CalmAfter(s, 1)
      PROVE  CalmAfter(t, 0)
  BY <1>4, <1>6, RestCalm
<1>7. count' = count
  BY DEF Writes, InsertRow, SetRow, WriteAgg, Increment, ExpireLot, PostEntry
<1>8. 2 \in 1..Len(s) => t # <<>> /\ t[1] = s[2] /\ s[2] \in Calls
  <2>1. 2 \in 1..Len(s) => s[2] \in Calls
    BY <1>1, ElementOfSeq
  <2>. QED  BY <1>4, <2>1, BehindSecond
<1>9. ASSUME 2 \in 1..Len(s), CalmAfter(s, 2)
      PROVE  CalmAfter(t, 1)
  <2>1. 1 + 1 \in 1..Len(s) /\ 0 + 1 = 1 /\ 1 + 1 = 2
    BY <1>9
  <2>2. Behind(t, 0 + 1, s, 1 + 1)
    BY <1>4, <2>1, BehindNext
  <2>3. Behind(t, 1, s, 2)
    BY <2>1, <2>2
  <2>. QED  BY <1>9, <2>3, RestCalm
<1>. HIDE DEF s, t, k, y, z, Goal
<1>10. ASSUME y >= 0, CalmAfter(t, 0)
       PROVE  Goal
  BY <1>10 DEF Paid, Goal
<1>11. ASSUME y >= 0, t # <<>>, OffShop(t[1]) \/ Gives(rows', t, y)
       PROVE  Goal
  BY <1>11 DEF Paid, Goal
<1>20. ASSUME InsertRow(c)
       PROVE  Goal
  <2>. DEFINE x == [lot |-> k.lot, bin |-> k.bin, status |-> k.status, qty |-> k.qty]
              n == Len(rows) + 1
  <2>1. Doing(c, "insert") /\ rows' = Append(rows, x)
    BY <1>20 DEF InsertRow, k
  <2>2. k.call = "insert"
    BY <2>1, HeadSound DEF k
  <2>3. k.lot \in Lots
    BY <1>3, <2>2 DEF Sound, WithLot
  <2>4. x \in Row /\ x.lot = k.lot /\ x.bin = k.bin /\ x.status = k.status /\ x.qty = k.qty
    BY <1>3, <2>3 DEF Row
  <2>5. RowsIn(rows, k.lot, k.bin, k.status) = {}
    BY <1>1, <1>3, <2>2 DEF UpToDate, JustRead, Fresh
  <2>6. Effect(rows, k) = k.qty
    BY <1>3, <2>2, <2>5, HeldNone DEF Effect
  <2>. HIDE DEF x, n
  <2>7. /\ AllOf(rows') = AllOf(rows) + k.qty /\ DOMAIN rows' = DOMAIN rows \cup {n} /\ n \notin DOMAIN rows
        /\ rows'[n] = x /\ \A r \in DOMAIN rows : rows'[r] = rows[r]
    BY <1>1, <2>1, <2>4, AllAppend DEF n
  <2>8. Shop /\ k.bin = NoBin /\ k.status # "quarantine"
    <3>1. ~count'.adjusted /\ \A r \in DOMAIN rows' : rows'[r].bin = NoBin /\ rows'[r].status # "quarantine"
      BY DEF Shop, Unbinned
    <3>. QED  BY <1>7, <2>4, <2>7, <3>1 DEF Shop, Unbinned
  <2>9. Effect(rows, k) <= z /\ CalmAfter(s, 1)
    BY <1>5, <2>2, <2>8 DEF OffShop
  <2>10. y = z - Effect(rows, k)
    BY <1>1, <1>3, <1>7, <2>6, <2>7 DEF y, z
  <2>11. y >= 0
    BY <1>1, <1>3, <2>6, <2>9, <2>10
  <2>. QED  BY <1>6, <1>10, <2>9, <2>11
<1>21. ASSUME SetRow(c)
       PROVE  Goal
  <2>. DEFINE r == k.row
              f == Effect(rows, k)
  <2>1. Doing(c, "set") /\ rows' = [rows EXCEPT ![k.row].qty = k.qty]
    BY <1>21 DEF SetRow, k
  <2>2. k.call = "set" /\ r \in DOMAIN rows
    BY <1>3, <2>1, HeadSound DEF k, Sound, WithRow
  <2>3. /\ rows' \in Seq(Row) /\ DOMAIN rows' = DOMAIN rows
        /\ AllOf(rows') = AllOf(rows) - rows[r].qty + k.qty
        /\ \A q \in DOMAIN rows : rows'[q].bin = rows[q].bin /\ rows'[q].status = rows[q].status
    <3>1. Written(rows, r, k.qty, rows')
      BY <2>1 DEF Written
    <3>. QED  BY <1>1, <1>3, <2>2, <3>1, AllSet
  <2>4. Shop
    <3>1. ~count'.adjusted /\ \A q \in DOMAIN rows' : rows'[q].bin = NoBin /\ rows'[q].status # "quarantine"
      BY DEF Shop, Unbinned
    <3>. QED  BY <1>7, <2>3, <3>1 DEF Shop, Unbinned
  <2>5. y = z - f /\ f \in Int
    <3>1. f = k.qty - rows[r].qty /\ rows[r].qty \in Nat
      BY <1>1, <2>2 DEF Effect
    <3>2. y = count.made - (AllOf(rows) - rows[r].qty + k.qty) /\ z = count.made - AllOf(rows)
      BY <1>7, <2>3 DEF y, z
    <3>3. count.made \in Int /\ AllOf(rows) \in Int /\ k.qty \in Int /\ rows[r].qty \in Int
      BY <1>1, <1>3, <3>1
    <3>. HIDE DEF f, r
    <3>. QED  BY <3>1, <3>2, <3>3
  <2>. HIDE DEF r
  <2>6. CASE f <= z /\ CalmAfter(s, 1)
    <3>. HIDE DEF f
    <3>1. y >= 0
      BY <1>1, <2>5, <2>6
    <3>. QED  BY <1>6, <1>10, <2>6, <3>1
  <2>7. CASE TakesFirst(rows, s, z)
    <3>1. /\ f <= 0 /\ 2 \in 1..Len(s)
          /\ OffShop(s[2]) \/ (s[2].call \in {"put", "lookup"} /\ s[2].qty <= z - f /\ CalmAfter(s, 2))
      BY <1>3, <2>7 DEF TakesFirst
    <3>2. t # <<>> /\ t[1] = s[2] /\ s[2].qty \in Nat /\ rows' \in Seq(Row)
      BY <1>8, <2>3, <3>1 DEF Calls
    <3>3. y >= 0 /\ z >= 0
      <4>. HIDE DEF f
      <4>. QED  BY <1>1, <1>5, <2>4, <2>5, <3>1
    <3>. HIDE DEF f
    <3>4. CASE OffShop(s[2])
      BY <1>11, <3>2, <3>3, <3>4
    <3>5. CASE s[2].call \in {"put", "lookup"} /\ s[2].qty <= y /\ CalmAfter(s, 2)
      <4>1. CalmAfter(t, 1)
        BY <1>9, <3>1, <3>5
      <4>2. t[1].call = "put" => Effect(rows', t[1]) \in Int /\ Effect(rows', t[1]) <= t[1].qty
        BY <3>2, EffectType
      <4>3. t[1].call = "put" => Effect(rows', t[1]) <= y
        BY <1>1, <2>5, <3>2, <3>5, <4>2
      <4>4. Gives(rows', t, y)
        BY <3>2, <3>5, <4>1, <4>3 DEF Gives, Plain
      <4>. QED  BY <1>11, <3>2, <3>3, <4>4
    <3>. QED  BY <2>5, <3>1, <3>4, <3>5
  <2>. QED  BY <1>5, <2>2, <2>4, <2>6, <2>7
<1>22. ASSUME WriteAgg(c) \/ Increment(c) \/ ExpireLot(c) \/ PostEntry(c)
       PROVE  Goal
  <2>1. rows' = rows /\ name \in {"setAgg", "addAgg", "expire", "post"}
    <3>1. \A m : Doing(c, m) => m = name
      BY <1>2 DEF Doing
    <3>. QED  BY <1>22, <3>1 DEF WriteAgg, Increment, ExpireLot, PostEntry
  <2>2. Shop
    BY <1>7, <2>1 DEF Shop, Unbinned
  <2>3. y = z
    BY <1>7, <2>1 DEF y, z
  <2>. QED  BY <1>3, <1>5, <1>6, <1>10, <2>1, <2>2, <2>3 DEF Calm
<1>. QED  BY <1>20, <1>21, <1>22, Zenon DEF Writes, Goal, t, y

LEMMA ShopOpens ==
  ASSUME StockInv, NEW c \in Callers, Opens(c), StockMade, Shop', Paid(rows, todo[c], count.made - AllOf(rows))
  PROVE  Paid(rows, todo'[c], count'.made - AllOf(rows))
<1>. DEFINE s == todo'[c]
            z == count'.made - AllOf(rows)
            Goal == Paid(rows, s, z)
<1>1. Begun(s) /\ count.made - AllOf(rows) >= 0
  BY NothingPaid DEF Opens
<1>2. /\ rows \in Seq(Row) /\ AllOf(rows) \in Nat /\ count.made \in Nat /\ ~count'.adjusted
      /\ \A r \in DOMAIN rows : rows[r].qty \in Nat
  <2>1. rows \in Seq(Row) /\ count.made \in Nat
    BY DEF StockInv, TypeOK, Row
  <2>. QED  BY <2>1, AllType, RowsOfType DEF Shop
<1>. HIDE DEF s, z, Goal
<1>3. ASSUME z >= 0, CalmAfter(s, 0)
      PROVE  Goal
  BY <1>3 DEF Paid, Goal
<1>4. count'.made = count.made => z >= 0 /\ z \in Int
  BY <1>1, <1>2 DEF z
<1>5. ASSUME Producing(s)
      PROVE  Goal
  <2>1. PICK l \in Lots, q \in Nat :
          /\ ~Made(l) /\ count'.made = count.made + q
          /\ Len(s) = 3 /\ s[1] = Put(l, NoBin, "available", q) /\ s[2] = Post(l, q) /\ s[3] = AddAgg(q)
    BY <1>5 DEF Producing
  <2>2. /\ s[1].call = "put" /\ s[1].lot = l /\ s[1].bin = NoBin /\ s[1].status = "available" /\ s[1].qty = q
        /\ s[2].call = "post" /\ s[3].call = "addAgg"
    BY <2>1 DEF Put, Post, AddAgg, Blank
  <2>3. RowsIn(rows, l, NoBin, "available") = {}
    BY <2>1 DEF RowsIn, StockMade, MadeOf, Made
  <2>4. Effect(rows, s[1]) = q
    BY <2>1, <2>2, <2>3, HeldNone DEF Effect
  <2>5. z >= 0 /\ q <= z
    BY <1>1, <1>2, <2>1 DEF z
  <2>6. CalmAfter(s, 1)
    <3>1. \A i \in 1..Len(s) : i > 1 => i = 2 \/ i = 3
      BY <2>1
    <3>. QED  BY <2>2, <3>1 DEF CalmAfter, Calm
  <2>7. s # <<>>
    <3>1. 1 \in 1..Len(s)
      BY <2>1
    <3>. QED  BY <3>1, EmptyList
  <2>. QED  BY <2>2, <2>4, <2>5, <2>6, <2>7 DEF Paid, Gives, Plain, Goal
<1>6. ASSUME count'.made = count.made, Shipping(s) \/ Moving(s) \/ Sweeping(s)
      PROVE  Goal
  <2>1. CalmAfter(s, 0)
    BY <1>6 DEF Shipping, Moving, Sweeping, CalmAfter, Calm
  <2>. QED  BY <1>3, <1>4, <1>6, <2>1
<1>7. ASSUME count'.made = count.made, Shifting(s)
      PROVE  Goal
  <2>1. \A r, q, l, st : /\ Set(r, q).call = "set" /\ Set(r, q).row = r /\ Set(r, q).qty = q
                         /\ Put(l, NoBin, st, q).call = "put" /\ Put(l, NoBin, st, q).qty = q
                         /\ Lookup(l, st, q).call = "lookup" /\ Lookup(l, st, q).qty = q
    BY DEF Set, Put, Lookup, Blank
  <2>2. PICK r \in DOMAIN rows, q \in Nat :
          /\ Len(s) = 2 /\ s[1].call = "set" /\ s[1].row = r /\ s[1].qty = rows[r].qty - q
          /\ s[2].call \in {"put", "lookup"} /\ s[2].qty = q
    BY <1>7, <2>1 DEF Shifting
  <2>3. Effect(rows, s[1]) = (rows[r].qty - q) - rows[r].qty
    BY <2>2 DEF Effect
  <2>4. Effect(rows, s[1]) <= 0 /\ s[2].qty <= z - Effect(rows, s[1])
    <3>1. rows[r].qty \in Nat
      BY <1>2
    <3>2. (rows[r].qty - q) - rows[r].qty = -q
      BY <2>2, <3>1
    <3>. QED  BY <1>4, <1>7, <2>2, <2>3, <3>2
  <2>5. 2 \in 1..Len(s) /\ \A i \in 1..Len(s) : ~(i > 2)
    BY <2>2
  <2>6. TakesFirst(rows, s, z)
    BY <2>2, <2>4, <2>5 DEF TakesFirst, CalmAfter
  <2>7. s # <<>>
    BY <2>5, EmptyList
  <2>. QED  BY <1>4, <1>7, <2>6, <2>7 DEF Paid, Goal
<1>8. ~Adjusting(s)
  BY <1>2 DEF Adjusting
<1>. QED  BY <1>1, <1>5, <1>6, <1>7, <1>8 DEF Begun, Goal, s, z

LEMMA ShopTurn ==
  ASSUME StockInv, NEW c \in Callers, \A e \in Callers : e = c, Turn(c), RowsInv, StockMade, ShopInv
  PROVE  ShopInv'
<1>. DEFINE Z(n, rs) == n - AllOf(rs)
            z == Z(count.made, rows)
<1>. SUFFICES ASSUME Shop'
              PROVE  Paid(rows', todo'[c], Z(count'.made, rows'))
  BY Zenon DEF ShopInv
<1>1. /\ Shop => Paid(rows, todo[c], z)
      /\ count \in [calls : Nat, faults : Nat, made : Nat, adjusted : BOOLEAN] /\ z \in Int
  <2>1. rows \in Seq(Row) /\ count \in [calls : Nat, faults : Nat, made : Nat, adjusted : BOOLEAN]
    BY DEF StockInv, TypeOK, Row
  <2>2. AllOf(rows) \in Nat
    BY <2>1, AllType
  <2>. QED  BY <2>1, <2>2 DEF ShopInv
<1>2. ASSUME rows' = rows, ~count'.adjusted => ~count.adjusted
      PROVE  Shop /\ Paid(rows, todo[c], z)
  <2>1. Shop
    BY <1>2 DEF Shop, Unbinned
  <2>. QED  BY <1>1, <2>1
<1>3. CASE UNCHANGED vars
  <2>1. rows' = rows /\ todo' = todo /\ count' = count
    BY <1>3 DEF vars
  <2>. QED  BY <1>2, <2>1
<1>4. CASE Opens(c)
  <2>1. rows' = rows /\ (~count'.adjusted => ~count.adjusted)
    BY <1>4 DEF Opens
  <2>2. Paid(rows, todo'[c], Z(count'.made, rows))
    BY <1>2, <1>4, <2>1, ShopOpens
  <2>. QED  BY <2>1, <2>2
<1>5. CASE Resolves(c)
  <2>1. rows' = rows /\ count' = count
    BY <1>5 DEF Resolves, ShipRead, ShipResolve, AdjustResolve, MoveResolve, LookupRow, QuarantineRow, PutRow
  <2>. HIDE DEF z
  <2>2. Paid(rows, todo'[c], z)
    BY <1>1, <1>2, <1>5, <2>1, ShopResolves
  <2>. QED  BY <2>1, <2>2 DEF z
<1>6. CASE Writes(c)
  BY <1>1, <1>6, ShopWrites
<1>7. CASE Cuts(c)
  <2>1. rows' = rows /\ count'.made = count.made /\ count'.adjusted = count.adjusted /\ todo'[c] = <<>>
    BY <1>7 DEF Cuts
  <2>2. Paid(rows, todo[c], z)
    BY <1>2, <2>1
  <2>. HIDE DEF z
  <2>3. Paid(rows, <<>>, z)
    BY <2>2, NothingPaid DEF Paid
  <2>. QED  BY <2>1, <2>3 DEF z
<1>. QED  BY <1>3, <1>4, <1>5, <1>6, <1>7 DEF Turn

-----------------------------------------------------------------------------
(* A step keeps the plan of a pick.                                         *)
PlanInv == \A c \in Callers : Planned(rows, lotStatus, todo[c])

(* Behind another head there are no calls that ship.                        *)
LEMMA ShipsBehind ==
  ASSUME NEW rs, NEW ls, NEW s, Planned(rs, ls, s), UpToDate(rs, s), Len(s) \in Nat \ {0},
         s[1].call \notin {"ship", "shipAgg", "setAgg", "post", "set"}
  PROVE  NoShips(s)
<1>. SUFFICES ASSUME NEW i \in 1..Len(s), Ships(s[i])
              PROVE  FALSE
  BY DEF NoShips
<1>1. 1 \in 1..Len(s) /\ i # 1 /\ 1 < i
  BY DEF Ships
<1>2. s[i].call = "ship"
  BY <1>1 DEF Ships, UpToDate, JustRead
<1>3. Taking(rs, s[1])
  BY <1>1, <1>2 DEF Planned, TakesOnly
<1>. QED  BY <1>3 DEF Taking

LEMMA RestShipless ==
  ASSUME NEW t, NEW m, NEW s, NEW n, Behind(t, m, s, n), NoShips(s), \A i \in 1..Len(t) : i <= m => ~Ships(t[i])
  PROVE  NoShips(t)
<1>1. m \in Nat
  BY DEF Behind
<1>3. \A i \in 1..Len(t) : i > m => \E j \in 1..Len(s) : t[i] = s[j]
  BY BehindSame
<1>2. \A i \in 1..Len(t) : i <= m \/ i > m
  BY <1>1
<1>. QED  BY <1>2, <1>3 DEF NoShips

(* The calls that ship keep their turn when the head of the list is done or *)
(* replaced by calls that clear the rows it cleared, and are about no other.*)
LEMMA PlanMoved ==
  ASSUME NEW rs, NEW ls, NEW s, NEW us, NEW t, NEW m, Planned(rs, ls, s), Behind(t, m, s, 1), Len(s) \in Nat \ {0},
         UpToDate(rs, s),
         DOMAIN us = DOMAIN rs,
         \A r \in DOMAIN rs : us[r].lot = rs[r].lot /\ us[r].bin = rs[r].bin /\ us[r].status = rs[r].status,
         \A i \in 2..Len(s), r \in DOMAIN rs :
           s[i].call = "ship" /\ (s[i].status = "available" \/ Level(rs)) /\ Concerns(rs, s[i], r) => us[r].qty = rs[r].qty,
         \A r \in DOMAIN rs : us[r].qty # 0 => rs[r].qty # 0 \/ ~\E i \in 2..Len(s) : s[i].call = "ship",
         \A r \in DOMAIN rs : Clears(rs, s[1], r) /\ us[r].qty # 0 => \E j \in 1..m : Clears(us, t[j], r),
         \A i \in 1..m : (Taking(us, t[i]) /\ (t[i].call = "set" => i = 1)) \/ ~\E j \in 2..Len(s) : s[j].call = "ship",
         \A i \in 1..m : t[i].call # "ship",
         \A i \in 1..m, r \in DOMAIN rs : Concerns(us, t[i], r) => Concerns(rs, s[1], r),
         \A i \in 1..m : t[i].call = "shipAgg" => i = 1 /\ Ships(s[1]) /\ t[i].lot = s[1].lot /\ t[i].bin = s[1].bin
                                                 /\ t[i].status = s[1].status /\ us = rs
  PROVE  Planned(us, ls, t)
<1>0. m \in Nat /\ Len(t) \in Nat /\ 1 \in 1..Len(s) /\ Len(t) - m = Len(s) - 1
  BY DEF Behind
<1>1. /\ m \in Nat /\ Len(t) \in Nat /\ 1 \in 1..Len(s)
      /\ \A i \in 1..Len(t) : i > m => i - m + 1 \in 2..Len(s) /\ t[i] = s[i - m + 1]
      /\ \A i \in 1..Len(t) : i <= m => i \in 1..m
  <2>1. \A i \in 1..Len(t) : i > m => i - m + 1 \in 1..Len(s) /\ i - m + 1 > 1 /\ t[i] = s[i - m + 1]
    BY BehindSame
  <2>2. \A n \in 1..Len(s) : n > 1 => n \in 2..Len(s)
    OBVIOUS
  <2>3. \A i \in 1..Len(t) : i <= m => i \in 1..m
    BY <1>0
  <2>. QED  BY <1>0, <2>1, <2>2, <2>3, Zenon
<1>2. \A i \in 2..Len(s) : i - 1 + m \in 1..Len(t) /\ t[i - 1 + m] = s[i]
  <2>. SUFFICES ASSUME NEW i \in 2..Len(s)
                PROVE  i - 1 + m \in 1..Len(t) /\ t[i - 1 + m] = s[i]
    OBVIOUS
  <2>1. i - 1 \in 1..(Len(s) - 1) /\ m + (i - 1) = i - 1 + m /\ 1 + (i - 1) = i
    BY <1>0
  <2>2. Len(t) - m = Len(s) - 1 /\ \A j \in 1..(Len(s) - 1) : t[m + j] = s[1 + j]
    BY DEF Behind
  <2>3. i - 1 + m \in 1..Len(t)
    BY <1>0
  <2>4. t[m + (i - 1)] = s[1 + (i - 1)]
    BY <2>1, <2>2, Zenon
  <2>. QED  BY <2>1, <2>3, <2>4, SMTT(20)
<1>3. \A k, r : RowsIn(us, k.lot, k.bin, k.status) = RowsIn(rs, k.lot, k.bin, k.status)
  BY DEF RowsIn
<1>4. \A k : \A r \in DOMAIN rs : Concerns(us, k, r) <=> Concerns(rs, k, r)
  BY <1>3 DEF Concerns
<1>5. Level(us) <=> Level(rs)
  BY DEF Level
<1>6. \A i \in 2..Len(s) : Ships(s[i]) => s[i].call = "ship"
  BY DEF UpToDate, JustRead, Ships
<1>7. TakesOnly(us, t)
  <2>. SUFFICES ASSUME NEW i \in 1..Len(t), NEW j \in 1..Len(t), t[j].call = "ship", i < j
                PROVE  Taking(us, t[i]) /\ (t[i].call = "set" => i = 1)
    BY DEF TakesOnly
  <2>1. j > m /\ j - m + 1 \in 2..Len(s) /\ s[j - m + 1].call = "ship"
    BY <1>1
  <2>2. CASE i <= m
    BY <1>1, <2>1, <2>2
  <2>3. CASE i > m
    <3>1. i - m + 1 \in 2..Len(s) /\ t[i] = s[i - m + 1] /\ i - m + 1 < j - m + 1 /\ i - m + 1 \in 1..Len(s)
          /\ j - m + 1 \in 1..Len(s)
      BY <1>1, <2>1, <2>3
    <3>2. Taking(rs, t[i]) /\ t[i].call # "set"
      BY <2>1, <3>1 DEF Planned, TakesOnly
    <3>. QED  BY <3>2 DEF Taking
  <2>. QED  BY <1>1, <2>2, <2>3
<1>8. Apart(us, t)
  <2>. SUFFICES ASSUME NEW i \in 1..Len(t), NEW j \in 1..Len(t), i # j, t[j].call = "ship",
                       t[j].status = "available" \/ Level(rs), NEW r \in DOMAIN rs, Concerns(us, t[i], r), Concerns(us, t[j], r)
                PROVE  FALSE
    BY <1>5 DEF Apart
  <2>1. j > m /\ j - m + 1 \in 2..Len(s) /\ t[j] = s[j - m + 1] /\ j - m + 1 \in 1..Len(s) /\ j - m + 1 # 1
    BY <1>1
  <2>2. Concerns(rs, s[j - m + 1], r)
    BY <1>4, <2>1
  <2>3. ASSUME NEW p \in 1..Len(s), p # j - m + 1, Concerns(rs, s[p], r)
        PROVE  FALSE
    <3>1. s[j - m + 1].call = "ship" /\ (s[j - m + 1].status = "available" \/ Level(rs))
      BY <2>1
    <3>. QED  BY <2>1, <2>2, <2>3, <3>1, Zenon DEF Planned, Apart
  <2>4. CASE i <= m
    <3>1. Concerns(rs, s[1], r) /\ 1 \in 1..Len(s)
      BY <1>1, <2>4
    <3>. QED  BY <2>1, <2>3, <3>1
  <2>5. CASE i > m
    <3>1. i - m + 1 \in 1..Len(s) /\ t[i] = s[i - m + 1]
      BY <1>1, <2>5
    <3>2. i - m + 1 # j - m + 1
      BY <1>0, <2>1
    <3>3. Concerns(rs, s[i - m + 1], r)
      BY <1>4, <3>1
    <3>. QED  BY <2>3, <3>1, <3>2, <3>3
  <2>. QED  BY <1>0, <2>4, <2>5
<1>9. InTurn(us, ls, t)
  <2>. SUFFICES ASSUME NEW i \in 1..Len(t), Ships(t[i]), t[i].status = "available",
                       NEW r \in DOMAIN rs, Waits(us, ls, t[i], r)
                PROVE  \E j \in 1..Len(t) : j < i /\ Clears(us, t[j], r)
    BY DEF InTurn
  <2>1. CASE i <= m
    <3>1. i = 1 /\ Ships(s[1]) /\ t[1].lot = s[1].lot /\ t[1].bin = s[1].bin /\ t[1].status = s[1].status /\ us = rs
      BY <1>1, <2>1 DEF Ships
    <3>2. Waits(rs, ls, s[1], r)
      BY <3>1 DEF Waits, Before
    <3>3. \E j \in 1..Len(s) : j < 1
      BY <1>1, <3>1, <3>2 DEF Planned, InTurn
    <3>. QED  BY <3>3
  <2>2. CASE i > m
    <3>. DEFINE g == i - m + 1
    <3>1. g \in 2..Len(s) /\ t[i] = s[g] /\ s[g].call = "ship" /\ g \in 1..Len(s) /\ i = g - 1 + m
      BY <1>1, <1>6, <2>2
    <3>. HIDE DEF g
    <3>2. Waits(rs, ls, s[g], r)
      BY <3>1 DEF Waits, Before
    <3>3. PICK j \in 1..Len(s) : j < g /\ Clears(rs, s[j], r)
      BY <3>1, <3>2 DEF Planned, InTurn, Ships
    <3>4. CASE j = 1
      <4>1. PICK h \in 1..m : Clears(us, t[h], r)
        BY <3>3, <3>4 DEF Waits
      <4>2. h \in 1..Len(t) /\ h < i
        BY <1>1, <2>2, <4>1
      <4>. QED  BY <4>1, <4>2
    <3>5. CASE j # 1
      <4>1. j \in 2..Len(s)
        BY <3>5
      <4>. DEFINE h == j - 1 + m
      <4>2. h \in 1..Len(t) /\ t[h] = s[j] /\ h < i
        BY <1>1, <1>2, <3>1, <3>3, <4>1
      <4>. HIDE DEF h
      <4>3. Taking(rs, s[j]) /\ Concerns(rs, s[j], r)
        BY <3>1, <3>3 DEF Planned, TakesOnly, Clears
      <4>4. CASE s[j].call = "set"
        <5>1. Clears(us, t[h], r)
          BY <1>4, <3>3, <4>2, <4>4 DEF Clears
        <5>. QED  BY <4>2, <5>1
      <4>5. CASE s[j].call # "set"
        <5>1. s[j].call = "ship"
          BY <1>6, <4>1, <4>3, <4>5 DEF Concerns, Ships
        <5>2. s[j].status = "available"
          BY <4>3, <5>1 DEF Waits, Concerns, RowsIn
        <5>3. us[r].qty = rs[r].qty
          BY <4>1, <4>3, <5>1, <5>2
        <5>4. Clears(us, t[h], r)
          BY <1>4, <3>3, <4>2, <5>1, <5>3 DEF Clears
        <5>. QED  BY <4>2, <5>4
      <4>. QED  BY <4>4, <4>5
    <3>. QED  BY <3>4, <3>5
  <2>. QED  BY <1>1, <2>1, <2>2
<1>. QED  BY <1>7, <1>8, <1>9 DEF Planned

LEMMA PlanResolves ==
  ASSUME StockInv, NEW c \in Callers, Resolves(c), RowsInv, Planned(rows, lotStatus, todo[c])
  PROVE  Planned(rows, lotStatus, todo'[c])
<1>. DEFINE Goal == Planned(rows, lotStatus, todo'[c])
            s == todo[c]
            t == todo'[c]
            k == next(c)
<1>1. rows \in Seq(Row) /\ UpToDate(rows, s) /\ Distinct(rows) /\ todo \in [Callers -> Seq(Calls)]
      /\ Planned(rows, lotStatus, s)
  BY DEF StockInv, TypeOK, Row, RowsInv
<1>2. ASSUME NEW name, Doing(c, name)
      PROVE  /\ s[1] = k /\ Len(s) \in Nat \ {0} /\ k.call = name /\ Sound(k, DOMAIN rows)
             /\ k \in Calls /\ k.qty \in Nat /\ k.delta \in Int
  BY <1>1, <1>2, HeadSound DEF Sound
<1>3. ASSUME Throw(c)
      PROVE  Goal
  <2>1. todo'[c] = <<>>
    BY <1>1, <1>3 DEF Throw
  <2>2. NoShips(<<>>)
    BY EmptyList DEF NoShips
  <2>. QED  BY <2>1, <2>2, NothingPlanned
<1>4. ASSUME NEW name, Doing(c, name)
      PROVE  /\ \A x : Follow(c, <<x>>) => Behind(t, 1, s, 1) /\ t[1] = x
             /\ \A x, y : Follow(c, <<x, y>>) => Behind(t, 2, s, 1) /\ t[1] = x /\ t[2] = y
             /\ \A x, y, z : Follow(c, <<x, y, z>>) => Behind(t, 3, s, 1) /\ t[1] = x /\ t[2] = y /\ t[3] = z
  BY <1>4, FollowShape
<1>. HIDE DEF t
<1>5. ASSUME NEW name, Doing(c, name), name \in {"adjustAgg", "moveInto", "lookup", "quarantine", "put"}
      PROVE  NoShips(s)
  BY <1>1, <1>2, <1>5, ShipsBehind
<1>6. ASSUME NEW m, Behind(t, m, s, 1), NoShips(s), \A i \in 1..Len(t) : i <= m => ~Ships(t[i])
      PROVE  Goal
  <2>1. NoShips(t)
    BY <1>6, RestShipless
  <2>. QED  BY <2>1, NothingPlanned DEF t
<1>7. ASSUME NEW name, Doing(c, name), name \in {"adjustAgg", "moveInto", "lookup", "quarantine", "put"}
      PROVE  /\ \A x : Follow(c, <<x>>) /\ ~Ships(x) => Goal
             /\ \A x, y : Follow(c, <<x, y>>) /\ ~Ships(x) /\ ~Ships(y) => Goal
             /\ \A x, y, z : Follow(c, <<x, y, z>>) /\ ~Ships(x) /\ ~Ships(y) /\ ~Ships(z) => Goal
  <2>1. NoShips(s)
    BY <1>5, <1>7
  <2>2. \A i \in 1..Len(t) : /\ i <= 1 => i = 1
                             /\ i <= 2 => i = 1 \/ i = 2
                             /\ i <= 3 => i = 1 \/ i = 2 \/ i = 3
    OBVIOUS
  <2>3. ASSUME NEW x, Follow(c, <<x>>), ~Ships(x)
        PROVE  Goal
    <3>1. Behind(t, 1, s, 1) /\ t[1] = x
      BY <1>4, <1>7, <2>3
    <3>. HIDE DEF Goal, s
    <3>. QED  BY <1>6, <2>1, <2>2, <2>3, <3>1
  <2>4. ASSUME NEW x, NEW y, Follow(c, <<x, y>>), ~Ships(x), ~Ships(y)
        PROVE  Goal
    <3>1. Behind(t, 2, s, 1) /\ t[1] = x /\ t[2] = y
      BY <1>4, <1>7, <2>4
    <3>. HIDE DEF Goal, s
    <3>. QED  BY <1>6, <2>1, <2>2, <2>4, <3>1
  <2>5. ASSUME NEW x, NEW y, NEW z, Follow(c, <<x, y, z>>), ~Ships(x), ~Ships(y), ~Ships(z)
        PROVE  Goal
    <3>1. Behind(t, 3, s, 1) /\ t[1] = x /\ t[2] = y /\ t[3] = z
      BY <1>4, <1>7, <2>5
    <3>. HIDE DEF Goal, s
    <3>. QED  BY <1>6, <2>1, <2>2, <2>5, <3>1
  <2>. HIDE DEF Goal
  <2>. QED  BY <2>3, <2>4, <2>5
<1>8. /\ \A r, q : ~Ships(Set(r, q)) /\ Set(r, q).call = "set" /\ Set(r, q).row = r /\ Set(r, q).qty = q
      /\ \A q : ~Ships(SetAgg(q)) /\ SetAgg(q).call = "setAgg"
      /\ \A l, d : ~Ships(Post(l, d)) /\ Post(l, d).call = "post"
      /\ \A l, b, st, q : ~Ships(Put(l, b, st, q))
      /\ \A l : ~Ships(Expire(l))
  BY DEF Ships, Set, SetAgg, Post, Put, Expire, Blank
<1>. HIDE DEF Goal, s, k
<1>20. ASSUME ShipRead(c)
       PROVE  Goal
  <2>1. CASE Throw(c)
    BY <1>3, <2>1
  <2>2. CASE ~Throw(c)
    <3>1. PICK r \in RowsIn(rows, k.lot, k.bin, k.status) :
            Follow(c, <<[k EXCEPT !.call = "shipAgg", !.row = r, !.delta = Quantity(r)]>>)
      BY <1>20, <2>2, RowsSame DEF ShipRead, k
    <3>. DEFINE x == [k EXCEPT !.call = "shipAgg", !.row = r, !.delta = Quantity(r)]
    <3>2. Doing(c, "ship") /\ Follow(c, <<x>>)
      BY <1>20, <3>1 DEF ShipRead
    <3>3. k \in Calls /\ s[1] = k /\ k.call = "ship" /\ Len(s) \in Nat \ {0}
      BY <1>2, <3>2
    <3>4. /\ x.call = "shipAgg" /\ x.row = r /\ x.lot = k.lot /\ x.bin = k.bin /\ x.status = k.status /\ x.qty = k.qty
      BY <3>3 DEF Calls
    <3>. HIDE DEF x
    <3>5. Behind(t, 1, s, 1) /\ t[1] = x
      BY <1>4, <3>2
    <3>6. \A i \in 1..1 : i = 1
      OBVIOUS
    <3>7. \A u \in DOMAIN rows : Concerns(rows, k, u) <=> u = r
      BY <1>1, <3>1, <3>3 DEF Concerns, RowsIn, Distinct
    <3>8. \A u \in DOMAIN rows : Concerns(rows, x, u) <=> u = r
      BY <3>4 DEF Concerns
    <3>9. \A u \in DOMAIN rows : Clears(rows, k, u) => Clears(rows, x, u)
      BY <3>3, <3>4, <3>7, <3>8 DEF Clears
    <3>10. Taking(rows, x)
      BY <3>4 DEF Taking
    <3>11. Ships(k) /\ 1 \in 1..1
      BY <3>3 DEF Ships
    <3>12. \A i \in 1..1 : /\ Taking(rows, t[i]) /\ (t[i].call = "set" => i = 1) /\ t[i].call # "ship"
                           /\ \A u \in DOMAIN rows : Concerns(rows, t[i], u) => Concerns(rows, s[1], u)
                           /\ t[i].call = "shipAgg" => i = 1 /\ Ships(s[1]) /\ t[i].lot = s[1].lot /\ t[i].bin = s[1].bin
                                                    /\ t[i].status = s[1].status
      BY <3>3, <3>4, <3>5, <3>6, <3>7, <3>8, <3>10, <3>11
    <3>13. \A u \in DOMAIN rows : Clears(rows, s[1], u) => \E j \in 1..1 : Clears(rows, t[j], u)
      BY <3>3, <3>5, <3>9, <3>11
    <3>14. Planned(rows, lotStatus, t)
      BY <1>1, <3>3, <3>5, <3>12, <3>13, PlanMoved
    <3>. QED  BY <3>14 DEF Goal, t
  <2>. QED  BY <2>1, <2>2
<1>21. ASSUME ShipResolve(c)
       PROVE  Goal
  <2>1. CASE Throw(c)
    BY <1>3, <2>1
  <2>2. CASE ~Throw(c)
    <3>. DEFINE x == Set(k.row, k.delta - k.qty)
                y == SetAgg(agg - k.qty)
                z == Post(k.lot, -k.qty)
    <3>1. Doing(c, "shipAgg") /\ Follow(c, <<x, y, z>>)
      BY <1>21, <2>2 DEF ShipResolve, k
    <3>2. k \in Calls /\ s[1] = k /\ k.call = "shipAgg" /\ Len(s) \in Nat \ {0} /\ k.row \in DOMAIN rows /\ k.qty \in Nat
      BY <1>2, <3>1 DEF Sound, WithRow
    <3>3. rows[k.row].qty = k.delta /\ rows[k.row].qty \in Nat
      <4>1. 1 \in 1..Len(s)
        BY <3>2
      <4>2. Fresh(rows, k)
        BY <1>1, <3>2, <4>1 DEF UpToDate, JustRead
      <4>. QED  BY <1>1, <3>2, <4>2, RowsOfType DEF Fresh
    <3>4. x.call = "set" /\ x.row = k.row /\ x.qty = k.delta - k.qty /\ y.call = "setAgg" /\ z.call = "post"
      BY <1>8
    <3>. HIDE DEF x, y, z
    <3>5. Behind(t, 3, s, 1) /\ t[1] = x /\ t[2] = y /\ t[3] = z
      BY <1>4, <3>1
    <3>6. \A i \in 1..3 : i = 1 \/ i = 2 \/ i = 3
      OBVIOUS
    <3>7. Taking(rows, x) /\ Taking(rows, y) /\ Taking(rows, z)
      BY <3>2, <3>3, <3>4 DEF Taking
    <3>8. \A u \in DOMAIN rows : /\ ~Concerns(rows, y, u) /\ ~Concerns(rows, z, u)
                                 /\ Concerns(rows, x, u) <=> u = k.row
                                 /\ Concerns(rows, k, u) <=> u = k.row
      BY <3>2, <3>4 DEF Concerns
    <3>9. \A u \in DOMAIN rows : Clears(rows, k, u) => Clears(rows, x, u)
      BY <3>2, <3>3, <3>4, <3>8 DEF Clears
    <3>10. 1 \in 1..3
      OBVIOUS
    <3>11. \A i \in 1..3 : /\ Taking(rows, t[i]) /\ (t[i].call = "set" => i = 1)
                           /\ t[i].call # "ship" /\ t[i].call # "shipAgg"
                           /\ \A u \in DOMAIN rows : Concerns(rows, t[i], u) => Concerns(rows, k, u)
      BY <3>4, <3>5, <3>6, <3>7, <3>8
    <3>12. \A u \in DOMAIN rows : Clears(rows, s[1], u) => \E j \in 1..3 : Clears(rows, t[j], u)
      BY <3>2, <3>5, <3>9, <3>10
    <3>13. \A i \in 1..3, u \in DOMAIN rows : Concerns(rows, t[i], u) => Concerns(rows, s[1], u)
      BY <3>2, <3>11
    <3>14. Planned(rows, lotStatus, t)
      BY <1>1, <3>2, <3>5, <3>11, <3>12, <3>13, PlanMoved
    <3>. QED  BY <3>14 DEF Goal, t
  <2>. QED  BY <2>1, <2>2
<1>22. ASSUME AdjustResolve(c)
       PROVE  Goal
  <2>. DEFINE x == Put(k.lot, NoBin, "available", k.qty)
              y == SetAgg(agg + k.delta)
              z == Post(k.lot, k.delta)
              two == <<y, z>>
  <2>1. Doing(c, "adjustAgg") /\ ~Ships(x) /\ ~Ships(y) /\ ~Ships(z)
    BY <1>8, <1>22 DEF AdjustResolve
  <2>2. Throw(c) \/ Follow(c, <<>> \o two) \/ Follow(c, <<x>> \o two)
    BY <1>22 DEF AdjustResolve, k
  <2>3. <<>> \o two = <<y, z>> /\ <<x>> \o two = <<x, y, z>>
    BY ConcatOneTwo
  <2>. HIDE DEF x, y, z
  <2>. QED  BY <1>3, <1>7, <2>1, <2>2, <2>3
<1>23. ASSUME MoveResolve(c) \/ LookupRow(c) \/ QuarantineRow(c)
       PROVE  Goal
  <2>1. MoveResolve(c) => Throw(c) \/ \E q, u : Doing(c, "moveInto")
                                       /\ Follow(c, <<Set(k.row, q), Put(k.lot, k.bin, k.status, u)>>)
    BY DEF MoveResolve, k
  <2>2. LookupRow(c) => \E q : Doing(c, "lookup") /\ Follow(c, <<Put(k.lot, NoBin, k.status, q)>>)
    BY DEF LookupRow, k
  <2>3. QuarantineRow(c) => \E q : Doing(c, "quarantine")
                              /\ Follow(c, <<Put(k.lot, NoBin, "quarantine", q), Set(k.row, 0), Expire(k.lot)>>)
    BY DEF QuarantineRow, k
  <2>4. ASSUME MoveResolve(c)
        PROVE  Goal
    BY <1>3, <1>7, <1>8, <2>1, <2>4
  <2>5. ASSUME LookupRow(c)
        PROVE  Goal
    BY <1>7, <1>8, <2>2, <2>5
  <2>6. ASSUME QuarantineRow(c)
        PROVE  Goal
    BY <1>7, <1>8, <2>3, <2>6
  <2>. QED  BY <1>23, <2>4, <2>5, <2>6
<1>24. ASSUME PutRow(c)
       PROVE  Goal
  <2>1. Doing(c, "put") /\ \/ \E r : Follow(c, <<Set(r, k.qty)>>)
                           \/ Follow(c, <<[k EXCEPT !.call = "insert"]>>)
    BY <1>24 DEF PutRow, k
  <2>2. ~Ships([k EXCEPT !.call = "insert"])
    BY <1>2, <2>1 DEF Ships, Calls
  <2>. QED  BY <1>7, <1>8, <2>1, <2>2
<1>. QED  BY <1>20, <1>21, <1>22, <1>23, <1>24, Zenon DEF Resolves, Goal

LEMMA PlanWrites ==
  ASSUME StockInv, NEW c \in Callers, Writes(c), RowsInv, Planned(rows, lotStatus, todo[c])
  PROVE  Planned(rows', lotStatus', todo'[c])
<1>. DEFINE Goal == Planned(rows', lotStatus', todo'[c])
            s == todo[c]
            t == todo'[c]
            k == next(c)
<1>1. rows \in Seq(Row) /\ UpToDate(rows, s) /\ Distinct(rows) /\ todo \in [Callers -> Seq(Calls)]
  BY DEF StockInv, TypeOK, Row, RowsInv
<1>2. PICK name : Doing(c, name) /\ Follow(c, <<>>) /\ name \in {"insert", "addAgg", "expire", "set", "setAgg", "post"}
                  /\ (name \notin {"insert", "set"} => rows' = rows) /\ (name # "expire" => lotStatus' = lotStatus)
                  /\ (name = "set" => rows' = [rows EXCEPT ![k.row].qty = k.qty])
  BY DEF Writes, InsertRow, SetRow, WriteAgg, Increment, ExpireLot, PostEntry, k
<1>3. /\ s[1] = k /\ Len(s) \in Nat \ {0} /\ k.call = name /\ Sound(k, DOMAIN rows) /\ k.qty \in Nat
      /\ \A r \in DOMAIN rows : rows[r].qty \in Nat
  BY <1>1, <1>2, HeadSound, RowsOfType DEF Sound
<1>4. Behind(t, 0, s, 1)
  BY <1>2, FollowShape
<1>. HIDE DEF s, t, k, Goal
<1>5. CASE name \in {"insert", "addAgg", "expire"}
  <2>1. NoShips(s)
    BY <1>1, <1>3, <1>5, ShipsBehind DEF s
  <2>2. \A i \in 1..Len(t) : ~(i <= 0)
    OBVIOUS
  <2>3. NoShips(t)
    BY <1>4, <2>1, <2>2, RestShipless
  <2>. QED  BY <2>3, NothingPlanned DEF Goal, t
<1>6. \A i : i \notin 1..0
  OBVIOUS
<1>7. CASE name \in {"setAgg", "post"}
  <2>1. rows' = rows /\ lotStatus' = lotStatus
    BY <1>2, <1>7
  <2>2. \A r \in DOMAIN rows : ~Clears(rows, k, r)
    BY <1>3, <1>7 DEF Clears, Concerns
  <2>3. Planned(rows, lotStatus, s)
    BY DEF s
  <2>4. Planned(rows, lotStatus, t)
    BY <1>1, <1>3, <1>4, <1>6, <2>2, <2>3, PlanMoved
  <2>. QED  BY <2>1, <2>4 DEF Goal, t
<1>8. CASE name = "set"
  <2>1. k.row \in DOMAIN rows /\ Written(rows, k.row, k.qty, rows') /\ lotStatus' = lotStatus
    BY <1>2, <1>3, <1>8 DEF Sound, WithRow, Written
  <2>2. /\ DOMAIN rows' = DOMAIN rows /\ rows'[k.row].qty = k.qty
        /\ \A r \in DOMAIN rows : r # k.row => rows'[r] = rows[r]
        /\ \A r \in DOMAIN rows : rows'[r].lot = rows[r].lot /\ rows'[r].bin = rows[r].bin /\ rows'[r].status = rows[r].status
    BY <1>1, <1>3, <2>1, AllSet
  <2>3. Planned(rows, lotStatus, s)
    BY DEF s
  <2>4. \A r \in DOMAIN rows : Concerns(rows, k, r) <=> r = k.row
    BY <1>3, <1>8 DEF Concerns
  <2>5. \A i \in 2..Len(s), r \in DOMAIN rows :
           s[i].call = "ship" /\ (s[i].status = "available" \/ Level(rows)) /\ Concerns(rows, s[i], r) => rows'[r].qty = rows[r].qty
    <3>. SUFFICES ASSUME NEW i \in 2..Len(s), NEW r \in DOMAIN rows, s[i].call = "ship",
                         s[i].status = "available" \/ Level(rows), Concerns(rows, s[i], r)
                  PROVE  rows'[r].qty = rows[r].qty
      OBVIOUS
    <3>1. 1 \in 1..Len(s) /\ i \in 1..Len(s) /\ i # 1
      BY <1>3
    <3>2. ~Concerns(rows, s[1], r)
      BY <2>3, <3>1 DEF Planned, Apart
    <3>. QED  BY <1>3, <2>2, <2>4, <3>2
  <2>6. \A i \in 2..Len(s) : s[i].call = "ship" => k.qty <= rows[k.row].qty
    <3>1. \A i \in 2..Len(s) : 1 \in 1..Len(s) /\ i \in 1..Len(s) /\ 1 < i
      BY <1>3
    <3>2. \A i \in 2..Len(s) : s[i].call = "ship" => Taking(rows, k)
      BY <1>3, <2>3, <3>1 DEF Planned, TakesOnly
    <3>. QED  BY <1>3, <1>8, <3>2 DEF Taking
  <2>7. \A r \in DOMAIN rows : rows'[r].qty # 0 => rows[r].qty # 0 \/ ~\E i \in 2..Len(s) : s[i].call = "ship"
    BY <1>3, <2>1, <2>2, <2>6
  <2>8. \A r \in DOMAIN rows : Clears(rows, k, r) => rows'[r].qty = 0
    BY <1>3, <1>8, <2>2, <2>4 DEF Clears
  <2>9. Planned(rows', lotStatus, t)
    BY <1>1, <1>3, <1>4, <1>6, <2>2, <2>3, <2>5, <2>7, <2>8, PlanMoved
  <2>. QED  BY <2>1, <2>9 DEF Goal, t
<1>. QED  BY <1>2, <1>5, <1>7, <1>8 DEF Goal

LEMMA PlanTurn ==
  ASSUME StockInv, NEW c \in Callers, \A e \in Callers : e = c, Turn(c), RowsInv, PlanInv
  PROVE  PlanInv'
<1>1. Planned(rows, lotStatus, todo[c])
  BY DEF PlanInv
<1>2. ASSUME Planned(rows', lotStatus', todo'[c])
      PROVE  PlanInv'
  BY <1>2, Zenon DEF PlanInv
<1>3. CASE UNCHANGED vars
  BY <1>1, <1>2, <1>3 DEF vars
<1>4. CASE Opens(c)
  <2>. DEFINE s == todo'[c]
  <2>1. rows' = rows /\ Begun(s)
    BY <1>4 DEF Opens
  <2>. HIDE DEF s
  <2>2. CASE Shipping(s)
    BY <1>2, <2>1, <2>2 DEF Shipping, s
  <2>3. CASE Producing(s)
    <3>1. \A l, q : ~Ships(Put(l, NoBin, "available", q)) /\ ~Ships(Post(l, q)) /\ ~Ships(AddAgg(q))
      BY DEF Ships, Put, Post, AddAgg, Blank
    <3>2. Len(s) = 3 /\ ~Ships(s[1]) /\ ~Ships(s[2]) /\ ~Ships(s[3])
      BY <2>3, <3>1 DEF Producing
    <3>3. NoShips(s)
      BY <3>2 DEF NoShips
    <3>. QED  BY <1>2, <3>3, NothingPlanned DEF s
  <2>4. CASE Shifting(s)
    <3>1. \A r, l, q : ~Ships(Set(r, q)) /\ ~Ships(Put(l, NoBin, "reserved", q)) /\ ~Ships(Lookup(l, "available", q))
      BY DEF Ships, Set, Put, Lookup, Blank
    <3>2. Len(s) = 2 /\ ~Ships(s[1]) /\ ~Ships(s[2])
      BY <2>4, <3>1 DEF Shifting
    <3>3. NoShips(s)
      BY <3>2 DEF NoShips
    <3>. QED  BY <1>2, <3>3, NothingPlanned DEF s
  <2>5. CASE Adjusting(s) \/ Moving(s) \/ Sweeping(s)
    <3>1. NoShips(s)
      BY <2>5 DEF NoShips, Ships, Adjusting, Moving, Sweeping
    <3>. QED  BY <1>2, <3>1, NothingPlanned DEF s
  <2>. QED  BY <2>1, <2>2, <2>3, <2>4, <2>5 DEF Begun
<1>5. CASE Resolves(c)
  <2>1. rows' = rows /\ lotStatus' = lotStatus
    BY <1>5 DEF Resolves, ShipRead, ShipResolve, AdjustResolve, MoveResolve, LookupRow, QuarantineRow, PutRow
  <2>. QED  BY <1>1, <1>2, <1>5, <2>1, PlanResolves
<1>6. CASE Writes(c)
  BY <1>1, <1>2, <1>6, PlanWrites
<1>7. CASE Cuts(c)
  <2>1. NoShips(todo'[c])
    BY <1>7, EmptyList DEF Cuts, NoShips
  <2>. QED  BY <1>2, <2>1, NothingPlanned
<1>. QED  BY <1>3, <1>4, <1>5, <1>6, <1>7 DEF Turn

-----------------------------------------------------------------------------
(* The rows a sweep has read and not yet come to stay as they were read.    *)
Spares(k, r) ==
  \/ k.call \in {"set", "quarantine"} /\ k.row # r
  \/ k.call = "put" /\ k.status = "quarantine"
  \/ k.call \in {"insert", "expire"}
SweepSafe(rs, s) ==
  \A i \in 1..Len(s) : s[i].call = "quarantine" =>
    Swept(rs, s[i]) /\ \A j \in 1..Len(s) : j # i => Spares(s[j], s[i].row)
SweepInv == \A c \in Callers : SweepSafe(rows, todo[c])
NoSweep(s) == \A i \in 1..Len(s) : s[i].call # "quarantine"

LEMMA NothingSwept ==
  ASSUME NEW rs, NEW s, NoSweep(s)
  PROVE  SweepSafe(rs, s)
BY DEF NoSweep, SweepSafe

(* No row is swept behind a head that is no call of a sweep.                *)
LEMMA SweepsBehind ==
  ASSUME NEW rs, NEW s, SweepSafe(rs, s), Len(s) \in Nat \ {0},
         s[1].call \notin {"set", "quarantine", "put", "insert", "expire"}
  PROVE  NoSweep(s)
<1>. SUFFICES ASSUME NEW i \in 1..Len(s), s[i].call = "quarantine"
              PROVE  FALSE
  BY DEF NoSweep
<1>1. 1 \in 1..Len(s) /\ i # 1
  OBVIOUS
<1>2. Spares(s[1], s[i].row)
  BY <1>1 DEF SweepSafe
<1>. QED  BY <1>2 DEF Spares

(* The list goes on with calls that spare the rows to come.                 *)
LEMMA SweepMoved ==
  ASSUME NEW rs, NEW s, NEW us, NEW t, NEW m, SweepSafe(rs, s), Behind(t, m, s, 1), Len(s) \in Nat \ {0},
         \A i \in 2..Len(s) : s[i].call = "quarantine" => Swept(us, s[i]),
         \A i \in 1..m : t[i].call # "quarantine"
                         /\ \A j \in 2..Len(s) : s[j].call = "quarantine" => Spares(t[i], s[j].row)
  PROVE  SweepSafe(us, t)
<1>0. m \in Nat /\ Len(t) \in Nat
  BY DEF Behind
<1>1. \A i \in 1..Len(t) : i > m => i - m + 1 \in 1..Len(s) /\ i - m + 1 > 1 /\ t[i] = s[i - m + 1]
  BY BehindSame
<1>2. \A n \in 1..Len(s) : n > 1 => n \in 2..Len(s)
  OBVIOUS
<1>3. \A i \in 1..Len(t) : i <= m => i \in 1..m
  BY <1>0
<1>. SUFFICES ASSUME NEW i \in 1..Len(t), t[i].call = "quarantine"
              PROVE  Swept(us, t[i]) /\ \A j \in 1..Len(t) : j # i => Spares(t[j], t[i].row)
  BY DEF SweepSafe
<1>4. i > m
  BY <1>0, <1>3
<1>. DEFINE g == i - m + 1
<1>5. g \in 1..Len(s) /\ g \in 2..Len(s) /\ t[i] = s[g]
  BY <1>1, <1>2, <1>4
<1>6. ASSUME NEW j \in 1..Len(t), j # i
      PROVE  Spares(t[j], t[i].row)
  <2>1. CASE j <= m
    <3>. HIDE DEF g
    <3>. QED  BY <1>3, <1>5, <2>1
  <2>2. CASE j > m
    <3>. DEFINE h == j - m + 1
    <3>1. h \in 1..Len(s) /\ t[j] = s[h] /\ h # g
      BY <1>0, <1>1, <1>6, <2>2
    <3>. HIDE DEF g, h
    <3>. QED  BY <1>5, <3>1 DEF SweepSafe
  <2>. QED  BY <1>0, <2>1, <2>2
<1>. HIDE DEF g
<1>. QED  BY <1>5, <1>6

LEMMA SweepTurn ==
  ASSUME StockInv, NEW c \in Callers, \A e \in Callers : e = c, Turn(c), RowsInv, SweepInv
  PROVE  SweepInv'
<1>. DEFINE Goal == SweepSafe(rows', todo'[c])
            s == todo[c]
            t == todo'[c]
            k == next(c)
<1>1. SweepSafe(rows, s) /\ rows \in Seq(Row) /\ todo \in [Callers -> Seq(Calls)]
  BY DEF SweepInv, StockInv, TypeOK, Row
<1>2. ASSUME Goal
      PROVE  SweepInv'
  BY <1>2, Zenon DEF SweepInv
<1>3. ASSUME NEW name, Doing(c, name)
      PROVE  s[1] = k /\ Len(s) \in Nat \ {0} /\ 1 \in 1..Len(s) /\ k.call = name /\ Sound(k, DOMAIN rows) /\ k \in Calls
  BY <1>3, HeadSound DEF Sound
<1>4. ASSUME todo'[c] = <<>>
      PROVE  Goal
  BY <1>4, EmptyList, NothingSwept DEF NoSweep
<1>5. ASSUME NEW name, Doing(c, name)
      PROVE  /\ Follow(c, <<>>) => Behind(t, 0, s, 1)
             /\ \A x : Follow(c, <<x>>) => Behind(t, 1, s, 1) /\ t[1] = x
             /\ \A x, y : Follow(c, <<x, y>>) => Behind(t, 2, s, 1) /\ t[1] = x /\ t[2] = y
             /\ \A x, y, z : Follow(c, <<x, y, z>>) => Behind(t, 3, s, 1) /\ t[1] = x /\ t[2] = y /\ t[3] = z
  BY <1>5, FollowShape
<1>6. /\ \A r, q : Set(r, q).call = "set" /\ Set(r, q).row = r
      /\ \A q : SetAgg(q).call = "setAgg" /\ AddAgg(q).call = "addAgg"
      /\ \A l, d : Post(l, d).call = "post"
      /\ \A l, b, st, q : Put(l, b, st, q).call = "put" /\ Put(l, b, st, q).status = st
      /\ \A l : Expire(l).call = "expire"
      /\ \A l, st, q : Lookup(l, st, q).call = "lookup"
  BY DEF Set, SetAgg, AddAgg, Post, Put, Expire, Lookup, Blank
<1>7. /\ \A i \in 1..1 : i = 1
      /\ \A i \in 1..2 : i = 1 \/ i = 2
      /\ \A i \in 1..3 : i = 1 \/ i = 2 \/ i = 3
      /\ \A i : i \notin 1..0
  OBVIOUS
<1>8. \A i \in 1..Len(s) : s[i].call = "quarantine" => Swept(rows, s[i])
  BY <1>1 DEF SweepSafe
<1>9. ASSUME NEW name, Doing(c, name), name \notin {"set", "quarantine", "put", "insert", "expire"}
      PROVE  \A i \in 2..Len(s) : s[i].call # "quarantine"
  BY <1>1, <1>3, <1>9, SweepsBehind DEF NoSweep
<1>. HIDE DEF t, s, k
<1>10. ASSUME NEW name, Doing(c, name), rows' = rows, NEW m, Behind(t, m, s, 1),
              \A i \in 1..m : t[i].call # "quarantine"
                         /\ \A j \in 2..Len(s) : s[j].call = "quarantine" => Spares(t[i], s[j].row)
       PROVE  Goal
  <2>1. \A i \in 2..Len(s) : i \in 1..Len(s)
    OBVIOUS
  <2>2. SweepSafe(rows, t)
    BY <1>1, <1>3, <1>8, <1>10, <2>1, SweepMoved
  <2>. QED  BY <1>10, <2>2 DEF t
<1>11. CASE Opens(c)
  <2>1. Begun(t) /\ rows' = rows
    BY <1>11 DEF Opens, t
  <2>2. CASE Sweeping(t)
    <3>1. \A i \in 1..Len(t) : Swept(rows, t[i])
      BY <2>2 DEF Sweeping, Swept
    <3>2. \A i, j \in 1..Len(t) : j # i => Spares(t[j], t[i].row)
      BY <2>2 DEF Sweeping, Spares
    <3>3. SweepSafe(rows, t)
      BY <3>1, <3>2 DEF SweepSafe
    <3>. QED  BY <1>2, <2>1, <3>3 DEF t
  <2>3. CASE ~Sweeping(t)
    <3>1. NoSweep(t)
      <4>1. CASE Producing(t)
        <5>1. Len(t) = 3 /\ t[1].call = "put" /\ t[2].call = "post" /\ t[3].call = "addAgg"
          BY <1>6, <4>1 DEF Producing
        <5>. QED  BY <1>7, <5>1 DEF NoSweep
      <4>2. CASE Shifting(t)
        <5>1. Len(t) = 2 /\ t[1].call = "set" /\ t[2].call \in {"put", "lookup"}
          BY <1>6, <4>2 DEF Shifting
        <5>. QED  BY <1>7, <5>1 DEF NoSweep
      <4>3. CASE Shipping(t) \/ Adjusting(t) \/ Moving(t)
        BY <4>3 DEF Shipping, Adjusting, Moving, NoSweep
      <4>. QED  BY <2>1, <2>3, <4>1, <4>2, <4>3 DEF Begun
    <3>. QED  BY <1>2, <2>1, <3>1, NothingSwept DEF t
  <2>. QED  BY <2>2, <2>3
<1>12. ASSUME Resolves(c)
       PROVE  Goal
  <2>1. rows' = rows
    BY <1>12 DEF Resolves, ShipRead, ShipResolve, AdjustResolve, MoveResolve, LookupRow, QuarantineRow, PutRow
  <2>2. ASSUME Throw(c)
        PROVE  Goal
    BY <1>1, <1>4, <2>2 DEF Throw
  <2>3. ASSUME NEW name, Doing(c, name), name \notin {"set", "quarantine", "put", "insert", "expire"}
        PROVE  /\ \A x : Follow(c, <<x>>) /\ x.call # "quarantine" => Goal
               /\ \A x, y : Follow(c, <<x, y>>) /\ x.call # "quarantine" /\ y.call # "quarantine" => Goal
               /\ \A x, y, z : Follow(c, <<x, y, z>>) /\ x.call # "quarantine" /\ y.call # "quarantine"
                               /\ z.call # "quarantine" => Goal
    <3>. HIDE DEF Goal
    <3>1. ASSUME NEW m, Behind(t, m, s, 1), \A i \in 1..m : t[i].call # "quarantine"
          PROVE  Goal
      BY <1>9, <1>10, <2>1, <2>3, <3>1
    <3>2. ASSUME NEW x, Follow(c, <<x>>), x.call # "quarantine"
          PROVE  Goal
      BY <1>5, <1>7, <2>3, <3>1, <3>2
    <3>3. ASSUME NEW x, NEW y, Follow(c, <<x, y>>), x.call # "quarantine", y.call # "quarantine"
          PROVE  Goal
      BY <1>5, <1>7, <2>3, <3>1, <3>3
    <3>4. ASSUME NEW x, NEW y, NEW z, Follow(c, <<x, y, z>>), x.call # "quarantine", y.call # "quarantine",
                 z.call # "quarantine"
          PROVE  Goal
      BY <1>5, <1>7, <2>3, <3>1, <3>4
    <3>. QED  BY <3>2, <3>3, <3>4
  <2>. HIDE DEF Goal
  <2>4. ASSUME ShipRead(c)
        PROVE  Goal
    <3>1. Doing(c, "ship") /\ (Throw(c) \/ \E r : Follow(c, <<[k EXCEPT !.call = "shipAgg", !.row = r, !.delta = Quantity(r)]>>))
      BY <2>4 DEF ShipRead, k
    <3>2. \A r : [k EXCEPT !.call = "shipAgg", !.row = r, !.delta = Quantity(r)].call # "quarantine"
      BY <1>3, <3>1 DEF Calls
    <3>. QED  BY <2>2, <2>3, <3>1, <3>2
  <2>5. ASSUME ShipResolve(c)
        PROVE  Goal
    <3>1. Doing(c, "shipAgg") /\ (Throw(c) \/ Follow(c, <<Set(k.row, k.delta - k.qty), SetAgg(agg - k.qty),
                                                           Post(k.lot, -k.qty)>>))
      BY <2>5 DEF ShipResolve, k
    <3>. QED  BY <1>6, <2>2, <2>3, <3>1
  <2>6. ASSUME AdjustResolve(c)
        PROVE  Goal
    <3>. DEFINE x == Put(k.lot, NoBin, "available", k.qty)
                y == SetAgg(agg + k.delta)
                z == Post(k.lot, k.delta)
                two == <<y, z>>
    <3>1. Doing(c, "adjustAgg") /\ x.call = "put" /\ y.call = "setAgg" /\ z.call = "post"
      BY <1>6, <2>6 DEF AdjustResolve
    <3>2. Throw(c) \/ Follow(c, <<>> \o two) \/ Follow(c, <<x>> \o two)
      BY <2>6 DEF AdjustResolve, k
    <3>3. <<>> \o two = <<y, z>> /\ <<x>> \o two = <<x, y, z>>
      BY ConcatOneTwo
    <3>. HIDE DEF x, y, z
    <3>. QED  BY <2>2, <2>3, <3>1, <3>2, <3>3
  <2>7. ASSUME MoveResolve(c)
        PROVE  Goal
    <3>1. Doing(c, "moveInto") /\ (Throw(c) \/ \E q, u : Follow(c, <<Set(k.row, q), Put(k.lot, k.bin, k.status, u)>>))
      BY <2>7 DEF MoveResolve, k
    <3>. QED  BY <1>6, <2>2, <2>3, <3>1
  <2>8. ASSUME LookupRow(c)
        PROVE  Goal
    <3>1. Doing(c, "lookup") /\ \E q : Follow(c, <<Put(k.lot, NoBin, k.status, q)>>)
      BY <2>8 DEF LookupRow, k
    <3>. QED  BY <1>6, <2>3, <3>1
  <2>9. ASSUME QuarantineRow(c)
        PROVE  Goal
    <3>1. PICK q : Follow(c, <<Put(k.lot, NoBin, "quarantine", q), Set(k.row, 0), Expire(k.lot)>>)
      BY <2>9 DEF QuarantineRow, k
    <3>. DEFINE x == Put(k.lot, NoBin, "quarantine", q)
                y == Set(k.row, 0)
                z == Expire(k.lot)
    <3>2. Doing(c, "quarantine") /\ Follow(c, <<x, y, z>>)
      BY <2>9, <3>1 DEF QuarantineRow
    <3>3. x.call = "put" /\ x.status = "quarantine" /\ y.call = "set" /\ y.row = k.row /\ z.call = "expire"
      BY <1>6
    <3>. HIDE DEF x, y, z
    <3>4. Behind(t, 3, s, 1) /\ t[1] = x /\ t[2] = y /\ t[3] = z
      BY <1>5, <3>2
    <3>5. ASSUME NEW j \in 2..Len(s), s[j].call = "quarantine"
          PROVE  k.row # s[j].row
      <4>1. s[1] = k /\ k.call = "quarantine" /\ 1 \in 1..Len(s) /\ j \in 1..Len(s) /\ 1 # j
        BY <1>3, <3>2
      <4>2. Spares(s[1], s[j].row)
        BY <1>1, <3>5, <4>1 DEF SweepSafe
      <4>. QED  BY <4>1, <4>2 DEF Spares
    <3>6. \A i \in 1..3 : t[i].call # "quarantine"
                          /\ \A j \in 2..Len(s) : s[j].call = "quarantine" => Spares(t[i], s[j].row)
      BY <1>7, <3>3, <3>4, <3>5 DEF Spares
    <3>. QED  BY <1>10, <2>1, <3>2, <3>4, <3>6
  <2>10. ASSUME PutRow(c)
         PROVE  Goal
    <3>1. Doing(c, "put") /\ \/ \E r \in RowsIn(rows, k.lot, k.bin, k.status) : Follow(c, <<Set(r, k.qty)>>)
                             \/ Follow(c, <<[k EXCEPT !.call = "insert"]>>)
      BY <2>10, RowsSame DEF PutRow, k
    <3>2. PICK x : /\ Follow(c, <<x>>)
                   /\ \/ x.call = "insert"
                      \/ x.call = "set" /\ x.row \in RowsIn(rows, k.lot, k.bin, k.status)
      <4>1. [k EXCEPT !.call = "insert"].call = "insert"
        BY <1>3, <3>1 DEF Calls
      <4>2. ASSUME NEW r \in RowsIn(rows, k.lot, k.bin, k.status), Follow(c, <<Set(r, k.qty)>>)
            PROVE  \E x : Follow(c, <<x>>) /\ x.call = "set" /\ x.row \in RowsIn(rows, k.lot, k.bin, k.status)
        <5>1. Set(r, k.qty).call = "set" /\ Set(r, k.qty).row = r
          BY <1>6
        <5>. QED  BY <4>2, <5>1
      <4>. QED  BY <3>1, <4>1, <4>2
    <3>3. Behind(t, 1, s, 1) /\ t[1] = x
      BY <1>5, <3>1, <3>2
    <3>4. ASSUME NEW j \in 2..Len(s), s[j].call = "quarantine"
          PROVE  Spares(x, s[j].row)
      <4>1. s[1] = k /\ k.call = "put" /\ 1 \in 1..Len(s) /\ j \in 1..Len(s) /\ 1 # j
        BY <1>3, <3>1
      <4>2. Spares(s[1], s[j].row) /\ Swept(rows, s[j])
        BY <1>1, <3>4, <4>1 DEF SweepSafe
      <4>. QED  BY <3>2, <4>1, <4>2 DEF Spares, Swept, RowsIn
    <3>5. \A i \in 1..1 : t[i].call # "quarantine"
                          /\ \A j \in 2..Len(s) : s[j].call = "quarantine" => Spares(t[i], s[j].row)
      BY <1>7, <3>2, <3>3, <3>4
    <3>. QED  BY <1>10, <2>1, <3>1, <3>3, <3>5
  <2>. QED  BY <1>12, <2>4, <2>5, <2>6, <2>7, <2>8, <2>9, <2>10, Zenon DEF Resolves
<1>13. ASSUME Writes(c)
       PROVE  Goal
  <2>1. PICK name : Doing(c, name) /\ Follow(c, <<>>) /\ (name \notin {"insert", "set"} => rows' = rows)
                    /\ (name = "set" => rows' = [rows EXCEPT ![k.row].qty = k.qty])
                    /\ (name = "insert" => rows' = Append(rows, [lot |-> k.lot, bin |-> k.bin, status |-> k.status, qty |-> k.qty]))
    BY <1>13 DEF Writes, InsertRow, SetRow, WriteAgg, Increment, ExpireLot, PostEntry, k
  <2>2. Behind(t, 0, s, 1) /\ s[1] = k /\ k.call = name /\ Len(s) \in Nat \ {0}
    BY <1>3, <1>5, <2>1
  <2>3. ASSUME NEW i \in 2..Len(s), s[i].call = "quarantine"
        PROVE  Swept(rows', s[i])
    <3>1. i \in 1..Len(s) /\ 1 \in 1..Len(s) /\ 1 # i
      BY <2>2
    <3>2. Swept(rows, s[i]) /\ Spares(k, s[i].row)
      BY <1>1, <2>2, <2>3, <3>1 DEF SweepSafe
    <3>3. s[i].row \in DOMAIN rows' /\ rows'[s[i].row] = rows[s[i].row]
      <4>1. CASE name = "insert"
        <5>. DEFINE x == [lot |-> k.lot, bin |-> k.bin, status |-> k.status, qty |-> k.qty]
        <5>1. x \in Row
          BY <1>3, <2>1, <4>1, HeadSound DEF Sound, WithLot, Row, k
        <5>2. rows' = Append(rows, x)
          BY <2>1, <4>1
        <5>. HIDE DEF x
        <5>3. DOMAIN rows \subseteq DOMAIN rows' /\ \A r \in DOMAIN rows : rows'[r] = rows[r]
          BY <1>1, <5>1, <5>2, AllAppend
        <5>. QED  BY <3>2, <5>3 DEF Swept
      <4>2. CASE name = "set"
        <5>1. k.row \in DOMAIN rows /\ k.qty \in Nat /\ Written(rows, k.row, k.qty, rows')
          BY <1>3, <2>1, <4>2 DEF Sound, WithRow, Calls, Written
        <5>2. DOMAIN rows' = DOMAIN rows /\ \A r \in DOMAIN rows : r # k.row => rows'[r] = rows[r]
          BY <1>1, <5>1, AllSet
        <5>. QED  BY <2>2, <3>2, <4>2, <5>2 DEF Swept, Spares
      <4>3. CASE name \notin {"insert", "set"}
        BY <2>1, <3>2, <4>3 DEF Swept
      <4>. QED  BY <4>1, <4>2, <4>3
    <3>. QED  BY <3>2, <3>3 DEF Swept
  <2>4. SweepSafe(rows', t)
    BY <1>1, <1>7, <2>2, <2>3, SweepMoved
  <2>. QED  BY <2>4 DEF t
<1>14. CASE UNCHANGED vars
  <2>1. rows' = rows /\ todo' = todo
    BY <1>14 DEF vars
  <2>. QED  BY <1>1, <1>2, <2>1 DEF s
<1>15. CASE Cuts(c)
  BY <1>2, <1>4, <1>15 DEF Cuts
<1>. QED  BY <1>2, <1>11, <1>12, <1>13, <1>14, <1>15 DEF Turn

-----------------------------------------------------------------------------
(* The aggregate covers the lot balances: what a list still does to their   *)
(* difference never leaves it below zero.                                   *)
Even == {"ship", "shipAgg", "moveInto", "post", "quarantine", "expire"}
EvenAfter(s, m) == \A i \in 1..Len(s) : i > m => s[i].call \in Even
Worth(rs, a, k) ==
  CASE k.call \in {"put", "insert", "lookup"} -> -k.qty
    [] k.call = "set" -> rs[k.row].qty - k.qty
    [] k.call = "addAgg" -> k.qty
    [] k.call = "setAgg" -> k.qty - a
    [] OTHER -> 0
WorthNow(rs, a, k) == IF k.call \in {"put", "insert"} THEN -Effect(rs, k) ELSE Worth(rs, a, k)
OneToGo(rs, a, s, z) ==
  /\ 1 \in 1..Len(s) /\ s[1].call \in Plain \cup {"lookup", "addAgg", "setAgg", "post"}
  /\ z + WorthNow(rs, a, s[1]) >= 0 /\ EvenAfter(s, 1)
TwoToGo(rs, a, s, z) ==
  /\ 1 \in 1..Len(s) /\ s[1].call \in Plain \cup {"post"}
  /\ 2 \in 1..Len(s) /\ s[2].call \in {"put", "lookup", "set", "setAgg", "addAgg"}
  /\ s[2].call = "set" =>
       s[1].call \in Plain /\ IntoQuarantine(rs, s[1]) /\ rs[s[2].row].status = "available"
  /\ z + WorthNow(rs, a, s[1]) + Worth(rs, a, s[2]) >= 0 /\ EvenAfter(s, 2)
ThreeToGo(rs, a, s, z) ==
  /\ 1 \in 1..Len(s) /\ s[1].call \in Plain
  /\ 2 \in 1..Len(s) /\ s[2].call = "post"
  /\ 3 \in 1..Len(s) /\ s[3].call = "addAgg"
  /\ z + WorthNow(rs, a, s[1]) + s[3].qty >= 0 /\ EvenAfter(s, 3)
OffBin(k) == k.call \in {"put", "insert"} /\ k.bin # NoBin
ToBin(s) == 1 \in 1..Len(s) /\ (OffBin(s[1]) \/ (s[1].call = "set" /\ 2 \in 1..Len(s) /\ OffBin(s[2])))
Covered(rs, a, s, z) ==
  \/ z >= 0 /\ EvenAfter(s, 0)
  \/ OneToGo(rs, a, s, z) \/ TwoToGo(rs, a, s, z) \/ ThreeToGo(rs, a, s, z)
  \/ ToBin(s)
Calmly == count.faults = 0 /\ Unbinned /\ ~count.adjusted
CoverInv == Calmly => \A c \in Callers : Covered(rows, agg, todo[c], agg - AllOf(rows))

LEMMA RestEven ==
  ASSUME NEW t, NEW m, NEW s, NEW n, Behind(t, m, s, n), NEW k \in Nat, k <= n, EvenAfter(s, k)
  PROVE  EvenAfter(t, m)
<1>1. n \in Nat
  BY DEF Behind
<1>2. \A i \in 1..Len(t) : i > m => \E j \in 1..Len(s) : j > k /\ t[i] = s[j]
  BY <1>1, BehindSame
<1>. QED  BY <1>2 DEF EvenAfter

LEMMA BehindLater ==
  ASSUME NEW t, NEW s
  PROVE  /\ Behind(t, 0, s, 1) /\ 2 \in 1..Len(s) => Behind(t, 1, s, 2) /\ 1 \in 1..Len(t) /\ t[1] = s[2]
         /\ Behind(t, 1, s, 2) /\ 3 \in 1..Len(s) => Behind(t, 2, s, 3) /\ 2 \in 1..Len(t) /\ t[2] = s[3]
<1>. DEFINE none == 0
            one == 1
            two == 2
            three == 3
<1>1. none + 1 = one /\ one + 1 = two /\ two + 1 = three
  OBVIOUS
<1>. HIDE DEF none, one, two, three
<1>2. Behind(t, none, s, one) /\ one + 1 \in 1..Len(s)
      => Behind(t, none + 1, s, one + 1) /\ none + 1 \in 1..Len(t) /\ t[none + 1] = s[one + 1]
  BY BehindNext
<1>3. Behind(t, one, s, two) /\ two + 1 \in 1..Len(s)
      => Behind(t, one + 1, s, two + 1) /\ one + 1 \in 1..Len(t) /\ t[one + 1] = s[two + 1]
  BY BehindNext
<1>. QED  BY <1>1, <1>2, <1>3 DEF none, one, two, three

LEMMA WorthType ==
  ASSUME NEW rs \in Seq(Row), NEW a \in Nat, NEW k \in Calls, k.call = "set" => k.row \in DOMAIN rs
  PROVE  /\ Worth(rs, a, k) \in Int /\ WorthNow(rs, a, k) \in Int
         /\ WorthNow(rs, a, k) >= Worth(rs, a, k)
         /\ k.call \in Plain => WorthNow(rs, a, k) = -Effect(rs, k)
<1>1. k.qty \in Nat
  BY DEF Calls
<1>2. Effect(rs, k) \in Int /\ (k.call # "set" => Effect(rs, k) <= k.qty)
  BY <1>1, EffectType
<1>3. CASE k.call = "set"
  <2>1. rs[k.row].qty \in Nat
    BY <1>3, RowsOfType
  <2>. QED  BY <1>1, <1>3, <2>1 DEF Worth, WorthNow, Plain, Effect
<1>4. CASE k.call \in {"put", "insert"}
  <2>1. Worth(rs, a, k) = -k.qty /\ WorthNow(rs, a, k) = -Effect(rs, k)
    BY <1>4 DEF Worth, WorthNow
  <2>. QED  BY <1>1, <1>2, <1>4, <2>1
<1>5. CASE k.call \notin {"set", "put", "insert"}
  <2>1. Worth(rs, a, k) \in Int
    BY <1>1, <1>5 DEF Worth
  <2>. QED  BY <1>5, <2>1 DEF WorthNow, Plain
<1>. QED  BY <1>3, <1>4, <1>5

LEMMA CoverWrites ==
  ASSUME StockInv, NEW c \in Callers, Writes(c), RowsInv, Unbinned',
         Unbinned => Covered(rows, agg, todo[c], agg - AllOf(rows))
  PROVE  Covered(rows', agg', todo'[c], agg' - AllOf(rows'))
<1>. DEFINE z == agg - AllOf(rows)
            y == agg' - AllOf(rows')
            s == todo[c]
            t == todo'[c]
            k == next(c)
            w == WorthNow(rows, agg, k)
            Goal == Covered(rows', agg', t, y)
<1>1. /\ rows \in Seq(Row) /\ UpToDate(rows, s) /\ AllOf(rows) \in Nat /\ agg \in Nat /\ z \in Int
      /\ s \in Seq(Calls) /\ \A r \in DOMAIN rows : rows[r].qty \in Nat
  <2>1. rows \in Seq(Row) /\ agg \in Nat /\ s \in Seq(Calls)
    BY DEF StockInv, TypeOK, Row
  <2>. QED  BY <2>1, AllType, RowsOfType DEF RowsInv
<1>2. PICK name : Doing(c, name) /\ Follow(c, <<>>)
  BY DEF Writes, InsertRow, SetRow, WriteAgg, Increment, ExpireLot, PostEntry
<1>3. /\ s[1] = k /\ Len(s) \in Nat \ {0} /\ 1 \in 1..Len(s) /\ k.call = name /\ Sound(k, DOMAIN rows) /\ k \in Calls
      /\ k.qty \in Nat /\ k.bin \in Places /\ k.status \in Statuses
  BY <1>2, HeadSound DEF Sound
<1>4. Behind(t, 0, s, 1)
  BY <1>2, FollowShape
<1>. HIDE DEF s, t, k, y, z, w, Goal
<1>5. 2 \in 1..Len(s) => /\ Behind(t, 1, s, 2) /\ 1 \in 1..Len(t) /\ t[1] = s[2] /\ s[2] \in Calls
                         /\ Sound(s[2], DOMAIN rows)
  <2>. SUFFICES ASSUME 2 \in 1..Len(s)
                PROVE  /\ Behind(t, 1, s, 2) /\ 1 \in 1..Len(t) /\ t[1] = s[2] /\ s[2] \in Calls
                       /\ Sound(s[2], DOMAIN rows)
    OBVIOUS
  <2>2. Behind(t, 1, s, 2) /\ 1 \in 1..Len(t) /\ t[1] = s[2]
    BY <1>4, BehindLater
  <2>3. SoundList(s, DOMAIN rows)
    BY DEF StockInv, Pending, s
  <2>. QED  BY <1>1, <2>2, <2>3, ElementOfSeq DEF SoundList, Sound
<1>6. 2 \in 1..Len(s) /\ 3 \in 1..Len(s) => Behind(t, 2, s, 3) /\ 2 \in 1..Len(t) /\ t[2] = s[3] /\ s[3] \in Calls
  <2>. SUFFICES ASSUME 2 \in 1..Len(s), 3 \in 1..Len(s)
                PROVE  Behind(t, 2, s, 3) /\ 2 \in 1..Len(t) /\ t[2] = s[3] /\ s[3] \in Calls
    OBVIOUS
  <2>2. Behind(t, 2, s, 3) /\ 2 \in 1..Len(t) /\ t[2] = s[3]
    BY <1>5, BehindLater
  <2>. QED  BY <1>1, <2>2, ElementOfSeq
<1>7. k.call = "set" => k.row \in DOMAIN rows
  BY <1>3 DEF Sound, WithRow
<1>8. w \in Int /\ (k.call \in Plain => w = -Effect(rows, k))
  BY <1>1, <1>3, <1>7, WorthType DEF w
<1>. DEFINE Effected == /\ DOMAIN rows \subseteq DOMAIN rows' /\ agg' \in Nat /\ rows' \in Seq(Row)
                        /\ \A r \in DOMAIN rows : rows'[r].bin = rows[r].bin
                        /\ \A r \in DOMAIN rows : ~(k.call = "set" /\ r = k.row) => rows'[r] = rows[r]
                        /\ k.call \notin {"setAgg", "addAgg"} => agg' = agg
                        /\ ~OffBin(k)
                        /\ y = z + w
<1>9. ASSUME InsertRow(c)
      PROVE  Effected
  <2>. DEFINE x == [lot |-> k.lot, bin |-> k.bin, status |-> k.status, qty |-> k.qty]
              n == Len(rows) + 1
  <2>1. Doing(c, "insert") /\ rows' = Append(rows, x) /\ agg' = agg
    BY <1>9 DEF InsertRow, k
  <2>2. k.call = "insert"
    BY <2>1, HeadSound DEF k
  <2>3. k.lot \in Lots
    BY <1>3, <2>2 DEF Sound, WithLot
  <2>4. x \in Row /\ x.lot = k.lot /\ x.bin = k.bin /\ x.status = k.status /\ x.qty = k.qty
    BY <1>3, <2>3 DEF Row
  <2>5. RowsIn(rows, k.lot, k.bin, k.status) = {}
    BY <1>1, <1>3, <2>2 DEF UpToDate, JustRead, Fresh
  <2>6. Effect(rows, k) = k.qty
    BY <1>3, <2>2, <2>5, HeldNone DEF Effect
  <2>. HIDE DEF x, n
  <2>7. /\ AllOf(rows') = AllOf(rows) + k.qty /\ DOMAIN rows' = DOMAIN rows \cup {n} /\ n \notin DOMAIN rows
        /\ rows'[n] = x /\ \A r \in DOMAIN rows : rows'[r] = rows[r]
    BY <1>1, <2>1, <2>4, AllAppend DEF n
  <2>8. k.bin = NoBin
    <3>1. n \in DOMAIN rows' => rows'[n].bin = NoBin
      BY DEF Unbinned
    <3>. QED  BY <2>4, <2>7, <3>1
  <2>9. w = -k.qty
    BY <1>8, <2>2, <2>6 DEF Plain
  <2>10. y = z + w
    <3>1. AllOf(rows) \in Int /\ agg \in Int /\ k.qty \in Int
      BY <1>1, <1>3
    <3>2. y = agg - (AllOf(rows) + k.qty)
      BY <2>1, <2>7 DEF y
    <3>. QED  BY <2>9, <3>1, <3>2 DEF z
  <2>11. rows' \in Seq(Row)
    BY <1>1, <2>1, <2>4, AppendProperties
  <2>. QED  BY <1>1, <2>1, <2>2, <2>7, <2>8, <2>10, <2>11 DEF OffBin
<1>10. ASSUME SetRow(c)
       PROVE  Effected
  <2>. DEFINE r == k.row
  <2>1. Doing(c, "set") /\ rows' = [rows EXCEPT ![k.row].qty = k.qty] /\ agg' = agg
    BY <1>10 DEF SetRow, k
  <2>2. k.call = "set" /\ r \in DOMAIN rows
    BY <1>3, <2>1, HeadSound DEF k, Sound, WithRow
  <2>3. /\ DOMAIN rows' = DOMAIN rows /\ rows' \in Seq(Row)
        /\ AllOf(rows') = AllOf(rows) - rows[r].qty + k.qty
        /\ \A q \in DOMAIN rows : q # r => rows'[q] = rows[q]
        /\ \A q \in DOMAIN rows : rows'[q].bin = rows[q].bin
    <3>1. Written(rows, r, k.qty, rows')
      BY <2>1 DEF Written
    <3>. QED  BY <1>1, <1>3, <2>2, <3>1, AllSet
  <2>4. Effect(rows, k) = k.qty - rows[r].qty
    BY <2>2 DEF Effect
  <2>5. rows[r].qty \in Int /\ k.qty \in Int /\ AllOf(rows) \in Int /\ agg \in Int
    BY <1>1, <1>3, <2>2
  <2>6. z = agg - AllOf(rows) /\ y = agg - AllOf(rows') /\ w = -Effect(rows, k)
    BY <1>8, <2>1, <2>2 DEF y, z, Plain
  <2>. HIDE DEF r
  <2>7. y = z + w
    BY <2>3, <2>4, <2>5, <2>6
  <2>. QED  BY <1>1, <2>1, <2>2, <2>3, <2>7 DEF OffBin, r
<1>11. ASSUME WriteAgg(c)
       PROVE  Effected
  <2>1. k.call = "setAgg" /\ rows' = rows /\ agg' = k.qty
    BY <1>11, HeadSound DEF WriteAgg, k
  <2>2. w = k.qty - agg /\ y = k.qty - AllOf(rows)
    BY <2>1 DEF w, y, WorthNow, Worth
  <2>3. y = z + w
    <3>1. AllOf(rows) \in Int /\ agg \in Int /\ k.qty \in Int
      BY <1>1, <1>3
    <3>. QED  BY <2>2, <3>1 DEF z
  <2>. QED  BY <1>1, <1>3, <2>1, <2>3 DEF OffBin
<1>12. ASSUME Increment(c)
       PROVE  Effected
  <2>1. k.call = "addAgg" /\ rows' = rows /\ agg' = agg + k.qty
    BY <1>12, HeadSound DEF Increment, k
  <2>2. w = k.qty /\ y = (agg + k.qty) - AllOf(rows)
    BY <2>1 DEF w, y, WorthNow, Worth
  <2>3. y = z + w /\ agg' \in Nat
    <3>1. AllOf(rows) \in Nat /\ agg \in Nat /\ k.qty \in Nat
      BY <1>1, <1>3
    <3>. QED  BY <2>1, <2>2, <3>1 DEF z
  <2>. QED  BY <1>1, <2>1, <2>3 DEF OffBin
<1>13. ASSUME ExpireLot(c) \/ PostEntry(c)
       PROVE  Effected
  <2>1. k.call \in {"expire", "post"} /\ rows' = rows /\ agg' = agg
    BY <1>13, HeadSound DEF ExpireLot, PostEntry, k
  <2>2. w = 0 /\ y = z
    BY <2>1 DEF w, y, z, WorthNow, Worth
  <2>. QED  BY <1>1, <2>1, <2>2 DEF OffBin
<1>14. Effected
  <2>. HIDE DEF Effected
  <2>. QED  BY <1>9, <1>10, <1>11, <1>12, <1>13, Zenon DEF Writes
<1>15. Unbinned
  <2>1. \A r \in DOMAIN rows' : rows'[r].bin = NoBin
    BY DEF Unbinned
  <2>2. DOMAIN rows \subseteq DOMAIN rows' /\ \A r \in DOMAIN rows : rows'[r].bin = rows[r].bin
    BY <1>14
  <2>. QED  BY <2>1, <2>2 DEF Unbinned
<1>16. Covered(rows, agg, s, z) /\ k.call \in {"insert", "set", "setAgg", "addAgg", "expire", "post"}
  <2>1. k.call \in {"insert", "set", "setAgg", "addAgg", "expire", "post"}
    BY HeadSound DEF Writes, InsertRow, SetRow, WriteAgg, Increment, ExpireLot, PostEntry, k
  <2>. QED  BY <1>15, <2>1 DEF s, z
<1>17. ASSUME NEW n \in {1, 2, 3}, EvenAfter(s, n), n - 1 \in {0, 1, 2},
              n = 1 \/ 2 \in 1..Len(s), n = 3 => 3 \in 1..Len(s)
       PROVE  EvenAfter(t, n - 1)
  <2>1. CASE n = 1
    BY <1>4, <1>17, <2>1, RestEven
  <2>2. CASE n = 2
    BY <1>5, <1>17, <2>2, RestEven
  <2>3. CASE n = 3
    <3>1. 2 \in 1..Len(s) /\ 3 \in 1..Len(s) /\ EvenAfter(s, 3)
      BY <1>3, <1>17, <2>3
    <3>. QED  BY <1>6, <2>3, <3>1, RestEven
  <2>. QED  BY <2>1, <2>2, <2>3
<1>18. ASSUME z >= 0, EvenAfter(s, 0)
       PROVE  Goal
  <2>1. k.call \in Even
    BY <1>3, <1>18 DEF EvenAfter
  <2>2. w = 0
    BY <1>16, <2>1 DEF w, WorthNow, Worth, Even
  <2>3. EvenAfter(t, 0)
    BY <1>4, <1>18, RestEven
  <2>4. y >= 0
    BY <1>1, <1>14, <1>18, <2>2
  <2>. QED  BY <2>3, <2>4 DEF Goal, Covered
<1>19. ASSUME OneToGo(rows, agg, s, z)
       PROVE  Goal
  <2>1. z + w >= 0 /\ EvenAfter(s, 1)
    BY <1>3, <1>19 DEF OneToGo, w
  <2>2. EvenAfter(t, 0)
    BY <1>4, <2>1, RestEven
  <2>3. y >= 0
    BY <1>14, <2>1
  <2>. QED  BY <2>2, <2>3 DEF Goal, Covered
<1>20. ASSUME TwoToGo(rows, agg, s, z)
       PROVE  Goal
  <2>. DEFINE m == s[2]
  <2>1. /\ 2 \in 1..Len(s) /\ m.call \in {"put", "lookup", "set", "setAgg", "addAgg"} /\ k.call \in Plain \cup {"post"}
        /\ m.call = "set" => k.call \in Plain /\ IntoQuarantine(rows, k) /\ rows[m.row].status = "available"
        /\ z + w + Worth(rows, agg, m) >= 0 /\ EvenAfter(s, 2)
    BY <1>3, <1>20 DEF TwoToGo, w
  <2>2. m \in Calls /\ Sound(m, DOMAIN rows) /\ t[1] = m /\ 1 \in 1..Len(t) /\ Behind(t, 1, s, 2)
    BY <1>5, <2>1
  <2>. HIDE DEF m
  <2>3. m.call = "set" => m.row \in DOMAIN rows
    BY <2>2 DEF Sound, WithRow
  <2>4. agg' = agg
    BY <1>14, <2>1 DEF Plain
  <2>5. m.call = "set" => rows'[m.row] = rows[m.row]
    <3>1. m.call = "set" => ~(k.call = "set" /\ m.row = k.row)
      BY <2>1 DEF IntoQuarantine
    <3>. QED  BY <1>14, <2>3, <3>1
  <2>6. Worth(rows', agg', m) = Worth(rows, agg, m)
    BY <2>4, <2>5 DEF Worth
  <2>7. Worth(rows, agg, m) \in Int
    BY <1>1, <2>2, <2>3, WorthType
  <2>8. WorthNow(rows', agg', m) \in Int /\ WorthNow(rows', agg', m) >= Worth(rows', agg', m)
    <3>1. m.call = "set" => m.row \in DOMAIN rows'
      BY <1>14, <2>3
    <3>2. agg' \in Nat
      BY <1>14
    <3>3. rows' \in Seq(Row)
      BY <1>14
    <3>. QED  BY <2>2, <3>1, <3>2, <3>3, WorthType
  <2>9. y + WorthNow(rows', agg', m) >= 0
    <3>1. y = z + w
      BY <1>14
    <3>. QED  BY <1>1, <1>8, <2>1, <2>6, <2>7, <2>8, <3>1
  <2>10. EvenAfter(t, 1)
    BY <2>1, <2>2, RestEven
  <2>11. OneToGo(rows', agg', t, y)
    BY <2>1, <2>2, <2>9, <2>10 DEF OneToGo, Plain
  <2>. QED  BY <2>11 DEF Goal, Covered
<1>21. ASSUME ThreeToGo(rows, agg, s, z)
       PROVE  Goal
  <2>1. /\ 2 \in 1..Len(s) /\ s[2].call = "post" /\ 3 \in 1..Len(s) /\ s[3].call = "addAgg"
        /\ z + w + s[3].qty >= 0 /\ EvenAfter(s, 3)
    BY <1>3, <1>21 DEF ThreeToGo, w
  <2>2. t[1] = s[2] /\ 1 \in 1..Len(t) /\ t[2] = s[3] /\ 2 \in 1..Len(t) /\ Behind(t, 2, s, 3) /\ s[3].qty \in Nat
    BY <1>5, <1>6, <2>1 DEF Calls
  <2>3. WorthNow(rows', agg', t[1]) = 0 /\ Worth(rows', agg', t[2]) = s[3].qty
    BY <2>1, <2>2 DEF WorthNow, Worth
  <2>4. y + WorthNow(rows', agg', t[1]) + Worth(rows', agg', t[2]) >= 0
    <3>1. y = z + w
      BY <1>14
    <3>. QED  BY <1>1, <1>8, <2>1, <2>2, <2>3, <3>1
  <2>5. EvenAfter(t, 2)
    BY <2>1, <2>2, RestEven
  <2>6. TwoToGo(rows', agg', t, y)
    BY <2>1, <2>2, <2>4, <2>5 DEF TwoToGo
  <2>. QED  BY <2>6 DEF Goal, Covered
<1>22. ASSUME ToBin(s)
       PROVE  Goal
  <2>1. ~OffBin(k)
    BY <1>14
  <2>2. 2 \in 1..Len(s) /\ OffBin(s[2])
    BY <1>3, <1>22, <2>1 DEF ToBin
  <2>3. ToBin(t)
    BY <1>5, <2>2 DEF ToBin
  <2>. QED  BY <2>3 DEF Goal, Covered
<1>. QED  BY <1>16, <1>18, <1>19, <1>20, <1>21, <1>22, Zenon DEF Covered, Goal, t, y

LEMMA HeadCovered ==
  ASSUME NEW rs, NEW a, NEW s, NEW z, Covered(rs, a, s, z), Len(s) \in Nat \ {0}
  PROVE  /\ s[1].call \in {"ship", "shipAgg", "moveInto", "quarantine"} => z >= 0 /\ EvenAfter(s, 0)
         /\ s[1].call # "adjustAgg"
         /\ s[1].call = "lookup" => OneToGo(rs, a, s, z)
         /\ s[1].call = "put" => \/ OneToGo(rs, a, s, z) \/ TwoToGo(rs, a, s, z) \/ ThreeToGo(rs, a, s, z)
                                 \/ OffBin(s[1])
<1>. DEFINE k == s[1]
<1>1. 1 \in 1..Len(s) /\ 1 > 0
  OBVIOUS
<1>2. EvenAfter(s, 0) => k.call \in Even
  BY <1>1 DEF EvenAfter
<1>3. OneToGo(rs, a, s, z) => k.call \in Plain \cup {"lookup", "addAgg", "setAgg", "post"}
  BY DEF OneToGo
<1>4. TwoToGo(rs, a, s, z) \/ ThreeToGo(rs, a, s, z) => k.call \in Plain \cup {"post"}
  BY DEF TwoToGo, ThreeToGo
<1>5. ToBin(s) => (k.call \in {"put", "insert"} /\ OffBin(k)) \/ k.call = "set"
  BY DEF ToBin, OffBin
<1>. HIDE DEF k
<1>6. \/ z >= 0 /\ EvenAfter(s, 0) /\ k.call \in Even
      \/ OneToGo(rs, a, s, z) /\ k.call \in Plain \cup {"lookup", "addAgg", "setAgg", "post"}
      \/ (TwoToGo(rs, a, s, z) \/ ThreeToGo(rs, a, s, z)) /\ k.call \in Plain \cup {"post"}
      \/ OffBin(k) /\ k.call \in {"put", "insert"}
      \/ k.call = "set"
  BY <1>2, <1>3, <1>4, <1>5 DEF Covered
<1>. QED  BY <1>6 DEF k, Even, Plain

LEMMA NothingCovered ==
  ASSUME NEW rs, NEW a, NEW z
  PROVE  Covered(rs, a, <<>>, z) <=> z >= 0
<1>1. \A i : i \notin 1..Len(<<>>)
  BY EmptyList
<1>2. EvenAfter(<<>>, 0)
  BY <1>1 DEF EvenAfter
<1>. QED  BY <1>1, <1>2 DEF Covered, OneToGo, TwoToGo, ThreeToGo, ToBin

(* When one call takes the place of another the rest of the list stays.     *)
LEMMA BehindAlong ==
  ASSUME NEW t, NEW s, Behind(t, 1, s, 1)
  PROVE  /\ 2 \in 1..Len(s) => Behind(t, 2, s, 2) /\ 2 \in 1..Len(t) /\ t[2] = s[2]
         /\ 2 \in 1..Len(s) /\ 3 \in 1..Len(s) => Behind(t, 3, s, 3) /\ 3 \in 1..Len(t) /\ t[3] = s[3]
<1>. DEFINE one == 1
            two == 2
            three == 3
<1>1. one + 1 = two /\ two + 1 = three
  OBVIOUS
<1>. HIDE DEF one, two, three
<1>2. Behind(t, one, s, one) /\ one + 1 \in 1..Len(s)
      => Behind(t, one + 1, s, one + 1) /\ one + 1 \in 1..Len(t) /\ t[one + 1] = s[one + 1]
  BY BehindNext
<1>3. Behind(t, two, s, two) /\ two + 1 \in 1..Len(s)
      => Behind(t, two + 1, s, two + 1) /\ two + 1 \in 1..Len(t) /\ t[two + 1] = s[two + 1]
  BY BehindNext
<1>. QED  BY <1>1, <1>2, <1>3 DEF one, two, three

LEMMA CoverResolves ==
  ASSUME StockInv, NEW c \in Callers, Resolves(c), RowsInv, Unbinned, SweepSafe(rows, todo[c]),
         NEW z \in Int, Covered(rows, agg, todo[c], z)
  PROVE  Covered(rows, agg, todo'[c], z)
<1>. DEFINE Goal == Covered(rows, agg, todo'[c], z)
            s == todo[c]
            t == todo'[c]
            k == next(c)
<1>1. /\ rows \in Seq(Row) /\ Distinct(rows) /\ UpToDate(rows, s) /\ agg \in Nat
      /\ todo \in [Callers -> Seq(Calls)] /\ NoBin \notin Bins
      /\ \A r \in DOMAIN rows : rows[r].qty \in Nat
  <2>1. rows \in Seq(Row) /\ agg \in Nat /\ todo \in [Callers -> Seq(Calls)]
    BY DEF StockInv, TypeOK, Row
  <2>. QED  BY <2>1, RowsOfType, StockAssumption DEF RowsInv
<1>2. ASSUME NEW name, Doing(c, name)
      PROVE  /\ s[1] = k /\ Len(s) \in Nat \ {0} /\ 1 \in 1..Len(s) /\ k.call = name /\ Sound(k, DOMAIN rows)
             /\ k \in Calls /\ k.qty \in Nat /\ k.delta \in Int
  BY <1>1, <1>2, HeadSound DEF Sound
<1>3. ASSUME Throw(c), z >= 0
      PROVE  Goal
  <2>1. todo'[c] = <<>>
    BY <1>1, <1>3 DEF Throw
  <2>. QED  BY <1>3, <2>1, NothingCovered
<1>4. ASSUME NEW name, Doing(c, name)
      PROVE  /\ \A x : Follow(c, <<x>>) => Behind(t, 1, s, 1) /\ 1 \in 1..Len(t) /\ t[1] = x
             /\ \A x, y : Follow(c, <<x, y>>) =>
                  Behind(t, 2, s, 1) /\ 1 \in 1..Len(t) /\ 2 \in 1..Len(t) /\ t[1] = x /\ t[2] = y
             /\ \A x, y, u : Follow(c, <<x, y, u>>) =>
                  /\ Behind(t, 3, s, 1) /\ 1 \in 1..Len(t) /\ 2 \in 1..Len(t) /\ 3 \in 1..Len(t)
                  /\ t[1] = x /\ t[2] = y /\ t[3] = u
  BY <1>4, FollowShape
<1>5. ASSUME NEW m, NEW n, Behind(t, m, s, n), NEW j \in Nat, j <= n, EvenAfter(s, j)
      PROVE  EvenAfter(t, m)
  BY <1>5, RestEven
<1>6. ASSUME NEW name, Doing(c, name)
      PROVE  /\ k.call \in {"ship", "shipAgg", "moveInto", "quarantine"} => z >= 0 /\ EvenAfter(s, 0)
             /\ k.call # "adjustAgg"
             /\ k.call = "lookup" => OneToGo(rows, agg, s, z)
             /\ k.call = "put" => \/ OneToGo(rows, agg, s, z) \/ TwoToGo(rows, agg, s, z) \/ ThreeToGo(rows, agg, s, z)
                                  \/ OffBin(k)
  BY <1>2, <1>6, HeadCovered
<1>. HIDE DEF t
<1>7. ASSUME NEW name, Doing(c, name), EvenAfter(s, 0), NEW x, NEW y, NEW u, Follow(c, <<x, y, u>>),
             x.call \in Plain, y.call \in {"set", "setAgg"},
             y.call = "set" => IntoQuarantine(rows, x) /\ rows[y.row].status = "available",
             u.call \in {"post", "expire"}, z + WorthNow(rows, agg, x) + Worth(rows, agg, y) >= 0
      PROVE  Goal
  <2>1. /\ Behind(t, 3, s, 1) /\ 1 \in 1..Len(t) /\ 2 \in 1..Len(t) /\ 3 \in 1..Len(t)
        /\ t[1] = x /\ t[2] = y /\ t[3] = u
    BY <1>4, <1>7
  <2>2. EvenAfter(t, 3)
    BY <1>5, <1>7, <2>1
  <2>3. EvenAfter(t, 2)
    <3>1. \A i \in 1..Len(t) : i > 2 => i = 3 \/ i > 3
      BY <2>1 DEF Behind
    <3>. QED  BY <1>7, <2>1, <2>2, <3>1 DEF EvenAfter, Even
  <2>4. TwoToGo(rows, agg, t, z)
    BY <1>7, <2>1, <2>3 DEF TwoToGo
  <2>. QED  BY <2>4 DEF Covered, t
<1>8. ASSUME NEW name, Doing(c, name), NEW x, Follow(c, <<x>>), x.call \in Plain,
             \/ OneToGo(rows, agg, s, z) /\ WorthNow(rows, agg, x) = WorthNow(rows, agg, k)
             \/ /\ TwoToGo(rows, agg, s, z) \/ ThreeToGo(rows, agg, s, z)
                /\ WorthNow(rows, agg, x) = WorthNow(rows, agg, k)
                /\ IntoQuarantine(rows, k) => IntoQuarantine(rows, x)
      PROVE  Goal
  <2>1. Behind(t, 1, s, 1) /\ 1 \in 1..Len(t) /\ t[1] = x
    BY <1>4, <1>8
  <2>2. s[1] = k
    BY <1>2, <1>8
  <2>. HIDE DEF s, k
  <2>3. CASE OneToGo(rows, agg, s, z)
    <3>1. z + WorthNow(rows, agg, t[1]) >= 0 /\ EvenAfter(s, 1)
      BY <1>8, <2>1, <2>2, <2>3 DEF OneToGo
    <3>2. EvenAfter(t, 1)
      BY <1>5, <2>1, <3>1
    <3>3. OneToGo(rows, agg, t, z)
      BY <1>8, <2>1, <3>1, <3>2 DEF OneToGo
    <3>. QED  BY <3>3 DEF Covered, t
  <2>4. ASSUME TwoToGo(rows, agg, s, z), WorthNow(rows, agg, x) = WorthNow(rows, agg, k),
               IntoQuarantine(rows, k) => IntoQuarantine(rows, x)
        PROVE  Goal
    <3>1. /\ 2 \in 1..Len(s) /\ s[2].call \in {"put", "lookup", "set", "setAgg", "addAgg"}
          /\ s[2].call = "set" => IntoQuarantine(rows, x) /\ rows[s[2].row].status = "available"
          /\ z + WorthNow(rows, agg, x) + Worth(rows, agg, s[2]) >= 0 /\ EvenAfter(s, 2)
      BY <2>2, <2>4 DEF TwoToGo
    <3>2. Behind(t, 2, s, 2) /\ 2 \in 1..Len(t) /\ t[2] = s[2]
      BY <2>1, <3>1, BehindAlong
    <3>3. EvenAfter(t, 2)
      BY <3>1, <3>2, RestEven
    <3>4. TwoToGo(rows, agg, t, z)
      BY <1>8, <2>1, <3>1, <3>2, <3>3 DEF TwoToGo
    <3>. QED  BY <3>4 DEF Covered, t
  <2>5. ASSUME ThreeToGo(rows, agg, s, z), WorthNow(rows, agg, x) = WorthNow(rows, agg, k)
        PROVE  Goal
    <3>1. /\ 2 \in 1..Len(s) /\ s[2].call = "post" /\ 3 \in 1..Len(s) /\ s[3].call = "addAgg"
          /\ z + WorthNow(rows, agg, x) + s[3].qty >= 0 /\ EvenAfter(s, 3)
      BY <2>2, <2>5 DEF ThreeToGo
    <3>2. 2 \in 1..Len(t) /\ t[2] = s[2] /\ Behind(t, 3, s, 3) /\ 3 \in 1..Len(t) /\ t[3] = s[3]
      BY <2>1, <3>1, BehindAlong
    <3>3. EvenAfter(t, 3)
      BY <3>1, <3>2, RestEven
    <3>4. ThreeToGo(rows, agg, t, z)
      BY <1>8, <2>1, <3>1, <3>2, <3>3 DEF ThreeToGo
    <3>. QED  BY <3>4 DEF Covered, t
  <2>. HIDE DEF Goal
  <2>. QED  BY <1>8, <2>3, <2>4, <2>5
<1>. HIDE DEF Goal, s, k
<1>9. \A r, q : Set(r, q).call = "set" /\ Set(r, q).row = r /\ Set(r, q).qty = q
  BY DEF Set, Blank
<1>10. \A q : SetAgg(q).call = "setAgg" /\ SetAgg(q).qty = q
  BY DEF SetAgg, Blank
<1>11. \A l, e : Post(l, e).call = "post" /\ Expire(l).call = "expire"
  BY DEF Post, Expire, Blank
<1>12. \A l, b, st, q : /\ Put(l, b, st, q).call = "put" /\ Put(l, b, st, q).lot = l /\ Put(l, b, st, q).bin = b
                        /\ Put(l, b, st, q).status = st /\ Put(l, b, st, q).qty = q
  BY DEF Put, Blank
<1>20. ASSUME ShipRead(c)
       PROVE  Goal
  <2>1. Doing(c, "ship") /\ (Throw(c) \/ \E r : Follow(c, <<[k EXCEPT !.call = "shipAgg", !.row = r, !.delta = Quantity(r)]>>))
    BY <1>20 DEF ShipRead, k
  <2>2. k \in Calls /\ z >= 0 /\ EvenAfter(s, 0)
    BY <1>2, <1>6, <2>1
  <2>3. ASSUME NEW x, Follow(c, <<x>>), x.call = "shipAgg"
        PROVE  Goal
    <3>1. Behind(t, 1, s, 1) /\ t[1] = x
      BY <1>4, <2>1, <2>3
    <3>2. EvenAfter(t, 1)
      BY <1>5, <2>2, <3>1
    <3>3. EvenAfter(t, 0)
      <4>1. \A i \in 1..Len(t) : i = 1 \/ i > 1
        BY <3>1 DEF Behind
      <4>. QED  BY <2>3, <3>1, <3>2, <4>1 DEF EvenAfter, Even
    <3>. QED  BY <2>2, <3>3 DEF Covered, Goal, t
  <2>4. \A r : [k EXCEPT !.call = "shipAgg", !.row = r, !.delta = Quantity(r)].call = "shipAgg"
    BY <2>2 DEF Calls
  <2>. QED  BY <1>3, <2>1, <2>2, <2>3, <2>4
<1>21. ASSUME ShipResolve(c)
       PROVE  Goal
  <2>. DEFINE x == Set(k.row, k.delta - k.qty)
              y == SetAgg(agg - k.qty)
              u == Post(k.lot, -k.qty)
  <2>1. Doing(c, "shipAgg") /\ (Throw(c) \/ Follow(c, <<x, y, u>>))
    BY <1>21 DEF ShipResolve, k
  <2>2. z >= 0 /\ EvenAfter(s, 0) /\ k.qty \in Nat /\ k.delta \in Int /\ s[1] = k
        /\ 1 \in 1..Len(s) /\ k.call = "shipAgg"
    BY <1>2, <1>6, <2>1
  <2>3. rows[k.row].qty = k.delta
    BY <1>1, <2>2 DEF UpToDate, JustRead, Fresh
  <2>4. WorthNow(rows, agg, x) = k.delta - (k.delta - k.qty) /\ Worth(rows, agg, y) = (agg - k.qty) - agg
    BY <1>9, <1>10, <2>3 DEF WorthNow, Worth
  <2>5. z + WorthNow(rows, agg, x) + Worth(rows, agg, y) >= 0
    <3>1. z + (k.delta - (k.delta - k.qty)) + ((agg - k.qty) - agg) >= 0
      BY <1>1, <2>2
    <3>. QED  BY <2>4, <3>1
  <2>6. x.call \in Plain /\ y.call = "setAgg" /\ u.call = "post"
    BY <1>9, <1>10, <1>11 DEF Plain
  <2>. HIDE DEF x, y, u
  <2>. QED  BY <1>3, <1>7, <2>1, <2>2, <2>5, <2>6
<1>22. ASSUME AdjustResolve(c)
       PROVE  Goal
  <2>1. Doing(c, "adjustAgg")
    BY <1>22 DEF AdjustResolve
  <2>. QED  BY <1>2, <1>6, <2>1
<1>23. ASSUME MoveResolve(c)
       PROVE  Goal
  <2>1. Doing(c, "moveInto") /\ (Throw(c) \/ \E q : Follow(c, <<Set(k.row, k.delta), Put(k.lot, k.bin, k.status, q)>>))
    BY <1>23 DEF MoveResolve, k
  <2>2. z >= 0 /\ k.bin # NoBin
    BY <1>1, <1>2, <1>6, <2>1 DEF Sound
  <2>3. ASSUME NEW q, Follow(c, <<Set(k.row, k.delta), Put(k.lot, k.bin, k.status, q)>>)
        PROVE  Goal
    <3>. DEFINE x == Set(k.row, k.delta)
                y == Put(k.lot, k.bin, k.status, q)
    <3>1. x.call = "set" /\ OffBin(y)
      BY <1>9, <1>12, <2>2 DEF OffBin
    <3>. HIDE DEF x, y
    <3>2. 1 \in 1..Len(t) /\ 2 \in 1..Len(t) /\ t[1] = x /\ t[2] = y
      BY <1>4, <2>1, <2>3 DEF x, y
    <3>3. ToBin(t)
      BY <3>1, <3>2 DEF ToBin
    <3>. QED  BY <3>3 DEF Covered, t, Goal
  <2>. QED  BY <1>3, <2>1, <2>2, <2>3
<1>24. ASSUME LookupRow(c)
       PROVE  Goal
  <2>1. PICK there \in AnyQuantity(RowsOf(k.lot, k.status)) : Follow(c, <<Put(k.lot, NoBin, k.status, there + k.qty)>>)
    BY <1>24 DEF LookupRow, k
  <2>2. Doing(c, "lookup")
    BY <1>24 DEF LookupRow
  <2>3. k.call = "lookup" /\ OneToGo(rows, agg, s, z) /\ k.qty \in Nat /\ there \in Nat /\ s[1] = k
    <3>1. there \in Nat
      BY <2>1, AnyQuantityType DEF StockInv, RowsOf
    <3>. QED  BY <1>2, <1>6, <2>2, <3>1
  <2>4. Held(rows, k.lot, NoBin, k.status) = there
    BY <1>1, <2>1, RowsSame, FoundIsHeld
  <2>. DEFINE x == Put(k.lot, NoBin, k.status, there + k.qty)
  <2>5. x.call = "put" /\ Effect(rows, x) = (there + k.qty) - there
    BY <1>12, <2>4 DEF Effect
  <2>6. WorthNow(rows, agg, x) = -((there + k.qty) - there) /\ WorthNow(rows, agg, k) = -k.qty
    BY <2>3, <2>5 DEF WorthNow, Worth
  <2>7. Follow(c, <<x>>)
    BY <2>1
  <2>. HIDE DEF x
  <2>8. WorthNow(rows, agg, x) = WorthNow(rows, agg, k)
    BY <2>3, <2>6
  <2>. QED  BY <1>8, <2>2, <2>3, <2>5, <2>7, <2>8 DEF Plain
<1>25. ASSUME QuarantineRow(c)
       PROVE  Goal
  <2>1. PICK there \in AnyQuantity(RowsOf(k.lot, "quarantine")) :
          Follow(c, <<Put(k.lot, NoBin, "quarantine", there + k.qty), Set(k.row, 0), Expire(k.lot)>>)
    BY <1>25 DEF QuarantineRow, k
  <2>2. Doing(c, "quarantine")
    BY <1>25 DEF QuarantineRow
  <2>3. z >= 0 /\ EvenAfter(s, 0) /\ k.qty \in Nat /\ s[1] = k
        /\ 1 \in 1..Len(s) /\ k.call = "quarantine" /\ there \in Nat
    <3>1. there \in Nat
      BY <2>1, AnyQuantityType DEF StockInv, RowsOf
    <3>. QED  BY <1>2, <1>6, <2>2, <3>1
  <2>4. Held(rows, k.lot, NoBin, "quarantine") = there
    BY <1>1, <2>1, RowsSame, FoundIsHeld
  <2>. DEFINE x == Put(k.lot, NoBin, "quarantine", there + k.qty)
              y == Set(k.row, 0)
              u == Expire(k.lot)
  <2>5. x.call = "put" /\ x.status = "quarantine" /\ Effect(rows, x) = (there + k.qty) - there
    BY <1>12, <2>4 DEF Effect
  <2>6. y.call = "set" /\ y.row = k.row /\ y.qty = 0 /\ u.call = "expire"
    BY <1>9, <1>11
  <2>7. Follow(c, <<x, y, u>>)
    BY <2>1
  <2>. HIDE DEF x, y, u
  <2>8. Swept(rows, k)
    BY <2>3 DEF SweepSafe, s
  <2>9. rows[k.row].status = "available" /\ rows[k.row].qty = k.qty
    BY <2>8 DEF Swept
  <2>10. WorthNow(rows, agg, x) = -((there + k.qty) - there) /\ Worth(rows, agg, y) = k.qty - 0
    BY <2>5, <2>6, <2>9 DEF WorthNow, Worth
  <2>11. z + WorthNow(rows, agg, x) + Worth(rows, agg, y) >= 0
    <3>1. z + (-((there + k.qty) - there)) + (k.qty - 0) >= 0
      BY <2>3
    <3>. QED  BY <2>10, <3>1
  <2>12. x.call \in Plain /\ IntoQuarantine(rows, x)
    BY <2>5 DEF IntoQuarantine, Plain
  <2>. QED  BY <1>7, <2>2, <2>3, <2>6, <2>7, <2>9, <2>11, <2>12
<1>26. ASSUME PutRow(c)
       PROVE  Goal
  <2>1. Doing(c, "put") /\ ((\E r \in RowsIn(rows, k.lot, k.bin, k.status) : Follow(c, <<Set(r, k.qty)>>))
                            \/ (RowsIn(rows, k.lot, k.bin, k.status) = {} /\ Follow(c, <<[k EXCEPT !.call = "insert"]>>)))
    BY <1>26, RowsSame DEF PutRow, k
  <2>2. k \in Calls /\ k.qty \in Nat /\ s[1] = k /\ 1 \in 1..Len(s) /\ k.call = "put"
        /\ (OneToGo(rows, agg, s, z) \/ TwoToGo(rows, agg, s, z) \/ ThreeToGo(rows, agg, s, z) \/ OffBin(k))
    BY <1>2, <1>6, <2>1
  <2>3. WorthNow(rows, agg, k) = -(k.qty - Held(rows, k.lot, k.bin, k.status))
    BY <2>2 DEF WorthNow, Effect
  <2>4. ASSUME NEW r \in RowsIn(rows, k.lot, k.bin, k.status), Follow(c, <<Set(r, k.qty)>>)
        PROVE  Goal
    <3>. DEFINE x == Set(r, k.qty)
    <3>1. x.call = "set" /\ x.row = r /\ x.qty = k.qty
      BY <1>9
    <3>2. r \in DOMAIN rows /\ rows[r].bin = k.bin /\ rows[r].status = k.status /\ rows[r].qty \in Nat
      BY <1>1 DEF RowsIn
    <3>3. Held(rows, k.lot, k.bin, k.status) = rows[r].qty
      BY <1>1, HeldOne
    <3>4. WorthNow(rows, agg, x) = rows[r].qty - k.qty
      BY <3>1 DEF WorthNow, Worth
    <3>5. WorthNow(rows, agg, x) = WorthNow(rows, agg, k)
      <4>1. rows[r].qty - k.qty = -(k.qty - rows[r].qty)
        BY <2>2, <3>2
      <4>. QED  BY <2>3, <3>3, <3>4, <4>1
    <3>6. IntoQuarantine(rows, k) => IntoQuarantine(rows, x)
      BY <2>2, <3>1, <3>2 DEF IntoQuarantine
    <3>7. ~OffBin(k)
      BY <3>2 DEF OffBin, Unbinned
    <3>. HIDE DEF x
    <3>8. Follow(c, <<x>>) /\ x.call \in Plain
      BY <2>4, <3>1 DEF x, Plain
    <3>. QED  BY <1>8, <2>1, <2>2, <3>5, <3>6, <3>7, <3>8
  <2>5. ASSUME Follow(c, <<[k EXCEPT !.call = "insert"]>>)
        PROVE  Goal
    <3>. DEFINE x == [k EXCEPT !.call = "insert"]
    <3>1. x.call = "insert" /\ x.lot = k.lot /\ x.bin = k.bin /\ x.status = k.status /\ x.qty = k.qty
      BY <2>2 DEF Calls
    <3>2. Follow(c, <<x>>)
      BY <2>5
    <3>. HIDE DEF x
    <3>3. ASSUME OffBin(k)
          PROVE  Goal
      <4>1. OffBin(x)
        BY <3>1, <3>3 DEF OffBin
      <4>2. 1 \in 1..Len(t) /\ t[1] = x
        BY <1>4, <2>1, <3>2
      <4>3. ToBin(t)
        BY <4>1, <4>2 DEF ToBin
      <4>. QED  BY <4>3 DEF Covered, t, Goal
    <3>4. WorthNow(rows, agg, x) = WorthNow(rows, agg, k) /\ x.call \in Plain
      BY <2>3, <3>1 DEF WorthNow, Effect, Plain
    <3>5. IntoQuarantine(rows, k) => IntoQuarantine(rows, x)
      BY <2>2, <3>1 DEF IntoQuarantine
    <3>. QED  BY <1>8, <2>1, <2>2, <3>2, <3>3, <3>4, <3>5
  <2>. QED  BY <2>1, <2>4, <2>5
<1>. QED
  BY <1>20, <1>21, <1>22, <1>23, <1>24, <1>25, <1>26, Zenon DEF Resolves, Goal

LEMMA CoverOpens ==
  ASSUME StockInv, NEW c \in Callers, Opens(c), StockMade, ~count'.adjusted,
         NEW z \in Int, Covered(rows, agg, todo[c], z)
  PROVE  Covered(rows, agg, todo'[c], z)
<1>. DEFINE s == todo'[c]
            Goal == Covered(rows, agg, s, z)
<1>1. Begun(s) /\ z >= 0
  BY NothingCovered DEF Opens
<1>2. rows \in Seq(Row) /\ \A r \in DOMAIN rows : rows[r].qty \in Nat
  <2>1. rows \in Seq(Row)
    BY DEF StockInv, TypeOK, Row
  <2>. QED  BY <2>1, RowsOfType
<1>. HIDE DEF s, Goal
<1>3. ASSUME Producing(s)
      PROVE  Goal
  <2>1. PICK l \in Lots, q \in Nat :
          /\ ~Made(l)
          /\ Len(s) = 3 /\ s[1] = Put(l, NoBin, "available", q) /\ s[2] = Post(l, q) /\ s[3] = AddAgg(q)
    BY <1>3 DEF Producing
  <2>2. /\ s[1].call = "put" /\ s[1].lot = l /\ s[1].bin = NoBin /\ s[1].status = "available" /\ s[1].qty = q
        /\ s[2].call = "post" /\ s[3].call = "addAgg" /\ s[3].qty = q
    BY <2>1 DEF Put, Post, AddAgg, Blank
  <2>3. RowsIn(rows, l, NoBin, "available") = {}
    BY <2>1 DEF RowsIn, StockMade, MadeOf, Made
  <2>4. Effect(rows, s[1]) = q
    BY <2>1, <2>2, <2>3, HeldNone DEF Effect
  <2>5. z + WorthNow(rows, agg, s[1]) + s[3].qty >= 0
    <3>1. WorthNow(rows, agg, s[1]) = -q
      BY <2>2, <2>4 DEF WorthNow
    <3>. QED  BY <1>1, <2>1, <2>2, <3>1
  <2>6. 1 \in 1..Len(s) /\ 2 \in 1..Len(s) /\ 3 \in 1..Len(s) /\ \A i \in 1..Len(s) : ~(i > 3)
    BY <2>1
  <2>7. ThreeToGo(rows, agg, s, z)
    BY <2>2, <2>5, <2>6 DEF ThreeToGo, EvenAfter, Plain
  <2>. QED  BY <2>7 DEF Covered, Goal
<1>4. ASSUME Shipping(s) \/ Moving(s) \/ Sweeping(s)
      PROVE  Goal
  <2>1. EvenAfter(s, 0)
    BY <1>4 DEF Shipping, Moving, Sweeping, EvenAfter, Even
  <2>. QED  BY <1>1, <2>1 DEF Covered, Goal
<1>5. ASSUME Shifting(s)
      PROVE  Goal
  <2>1. \A r, q, l, st : /\ Set(r, q).call = "set" /\ Set(r, q).row = r /\ Set(r, q).qty = q
                         /\ Put(l, NoBin, st, q).call = "put" /\ Put(l, NoBin, st, q).qty = q
                         /\ Lookup(l, st, q).call = "lookup" /\ Lookup(l, st, q).qty = q
    BY DEF Set, Put, Lookup, Blank
  <2>2. PICK r \in DOMAIN rows, q \in Nat :
          /\ Len(s) = 2 /\ s[1].call = "set" /\ s[1].row = r /\ s[1].qty = rows[r].qty - q
          /\ s[2].call \in {"put", "lookup"} /\ s[2].qty = q
    BY <1>5, <2>1 DEF Shifting
  <2>3. WorthNow(rows, agg, s[1]) = rows[r].qty - (rows[r].qty - q) /\ Worth(rows, agg, s[2]) = -q
    BY <2>2 DEF WorthNow, Worth
  <2>4. z + WorthNow(rows, agg, s[1]) + Worth(rows, agg, s[2]) >= 0
    <3>1. rows[r].qty \in Nat
      BY <1>2
    <3>2. z + (rows[r].qty - (rows[r].qty - q)) + (-q) >= 0
      BY <1>1, <2>2, <3>1
    <3>. QED  BY <2>3, <3>2
  <2>5. 1 \in 1..Len(s) /\ 2 \in 1..Len(s) /\ \A i \in 1..Len(s) : ~(i > 2)
    BY <2>2
  <2>6. TwoToGo(rows, agg, s, z)
    BY <2>2, <2>4, <2>5 DEF TwoToGo, EvenAfter, Plain
  <2>. QED  BY <2>6 DEF Covered, Goal
<1>6. ~Adjusting(s)
  BY DEF Adjusting
<1>. QED  BY <1>1, <1>3, <1>4, <1>5, <1>6 DEF Begun, Goal, s

LEMMA CoverTurn ==
  ASSUME StockInv, NEW c \in Callers, \A e \in Callers : e = c, Turn(c), RowsInv, StockMade, SweepInv, CoverInv
  PROVE  CoverInv'
<1>. DEFINE Z(a, rs) == a - AllOf(rs)
            z == Z(agg, rows)
<1>. SUFFICES ASSUME Calmly'
              PROVE  Covered(rows', agg', todo'[c], Z(agg', rows'))
  BY Zenon DEF CoverInv
<1>1. /\ Calmly => Covered(rows, agg, todo[c], z)
      /\ count \in [calls : Nat, faults : Nat, made : Nat, adjusted : BOOLEAN] /\ z \in Int
      /\ count'.faults = 0 /\ ~count'.adjusted /\ Unbinned' /\ agg \in Nat
  <2>1. rows \in Seq(Row) /\ agg \in Nat /\ count \in [calls : Nat, faults : Nat, made : Nat, adjusted : BOOLEAN]
    BY DEF StockInv, TypeOK, Row
  <2>2. AllOf(rows) \in Nat
    BY <2>1, AllType
  <2>. QED  BY <2>1, <2>2 DEF CoverInv, Calmly
<1>2. ASSUME rows' = rows, ~count'.adjusted => ~count.adjusted, count'.faults = count.faults
      PROVE  Unbinned /\ Covered(rows, agg, todo[c], z)
  <2>1. Unbinned
    BY <1>1, <1>2 DEF Unbinned
  <2>. QED  BY <1>1, <1>2, <2>1 DEF Calmly
<1>3. CASE UNCHANGED vars
  <2>1. rows' = rows /\ agg' = agg /\ todo' = todo /\ count' = count
    BY <1>3 DEF vars
  <2>. QED  BY <1>2, <2>1
<1>4. CASE Opens(c)
  <2>1. rows' = rows /\ agg' = agg /\ (~count'.adjusted => ~count.adjusted) /\ count'.faults = count.faults
    BY <1>4 DEF Opens
  <2>. HIDE DEF z
  <2>2. Covered(rows, agg, todo'[c], z)
    BY <1>1, <1>2, <1>4, <2>1, CoverOpens
  <2>. QED  BY <2>1, <2>2 DEF z
<1>5. CASE Resolves(c)
  <2>1. rows' = rows /\ agg' = agg /\ count' = count
    BY <1>5 DEF Resolves, ShipRead, ShipResolve, AdjustResolve, MoveResolve, LookupRow, QuarantineRow, PutRow
  <2>2. SweepSafe(rows, todo[c])
    BY DEF SweepInv
  <2>. HIDE DEF z
  <2>3. Covered(rows, agg, todo'[c], z)
    BY <1>1, <1>2, <1>5, <2>1, <2>2, CoverResolves
  <2>. QED  BY <2>1, <2>3 DEF z
<1>6. CASE Writes(c)
  <2>1. count' = count
    BY <1>6 DEF Writes, InsertRow, SetRow, WriteAgg, Increment, ExpireLot, PostEntry
  <2>2. Unbinned => Covered(rows, agg, todo[c], agg - AllOf(rows))
    BY <1>1, <2>1 DEF Calmly
  <2>. QED  BY <1>1, <1>6, <2>2, CoverWrites
<1>7. CASE Cuts(c)
  <2>1. count'.faults = count.faults + 1
    BY <1>7 DEF Cuts
  <2>. QED  BY <1>1, <2>1
<1>. QED  BY <1>3, <1>4, <1>5, <1>6, <1>7 DEF Turn

-----------------------------------------------------------------------------
(* A pick ships the whole quantity: what its list still enters as shipped   *)
(* is what is missing, and nothing makes the list end early.                *)
Aside(k) == k.call \notin {"ship", "shipAgg", "adjustAgg"} /\ (k.call = "post" => k.delta >= 0)
OfPick(k) == k.call \in {"ship", "shipAgg", "set", "setAgg", "post"} /\ (k.call = "post" => k.delta <= 0)
Bystander(s) == \A i \in 1..Len(s) : Aside(s[i])
PickCalls(s) == \A i \in 1..Len(s) : OfPick(s[i])
Whole(rs, s, p) ==
  \/ p.shipped \in {0, p.want} /\ Bystander(s)
  \/ PickCalls(s) /\ Owes(s, p.shipped, p.want) /\ Filled(rs, s)
WholeInv == Calmly => \A c \in Callers : Whole(rows, todo[c], pick[c])

LEMMA BehindOr ==
  ASSUME NEW t, NEW m, NEW s, NEW n, Behind(t, m, s, n)
  PROVE  \A i \in 1..Len(t) : i \in 1..m \/ (i > m /\ \E j \in 1..Len(s) : j > n /\ t[i] = s[j])
<1>1. m \in Nat /\ Len(t) \in Nat
  BY DEF Behind
<1>2. \A i \in 1..Len(t) : i > m => \E j \in 1..Len(s) : j > n /\ t[i] = s[j]
  BY BehindSame
<1>3. \A i \in 1..Len(t) : i \in 1..m \/ i > m
  BY <1>1
<1>. QED  BY <1>2, <1>3

LEMMA BystanderMoved ==
  ASSUME NEW t, NEW m, NEW s, NEW n, Behind(t, m, s, n), Bystander(s), \A i \in 1..m : Aside(t[i])
  PROVE  Bystander(t)
BY BehindOr DEF Bystander

LEMMA PickMoved ==
  ASSUME NEW t, NEW m, NEW s, NEW n, Behind(t, m, s, n), PickCalls(s), \A i \in 1..m : OfPick(t[i])
  PROVE  PickCalls(t)
BY BehindOr DEF PickCalls

LEMMA NothingOwed ==
  ASSUME NEW b, NEW w, Owes(<<>>, b, w)
  PROVE  b = w
BY EmptyList DEF Owes

LEMMA OwesMoved ==
  ASSUME NEW t, NEW m, NEW s, Behind(t, m, s, 1), Len(s) \in Nat \ {0}, NEW b \in Int, NEW w, Owes(s, b, w),
         Weight(s[1]) \in Int, NEW e, e = IF m = 0 THEN b + Weight(s[1]) ELSE b,
         \A i \in 1..m : Weight(t[i]) = IF i = m THEN Weight(s[1]) ELSE 0
  PROVE  Owes(t, e, w)
<1>. DEFINE N == Len(s)
            L == Len(t)
            v == Weight(s[1])
<1>1. m \in Nat /\ N \in Nat \ {0} /\ L \in Nat /\ L = m + N - 1 /\ v \in Int
  BY DEF Behind
<1>2. PICK tally \in [0..N -> Int] :
        tally[0] = b /\ tally[N] = w /\ \A i \in 1..N : tally[i] = tally[i - 1] + Weight(s[i])
  BY DEF Owes
<1>3. \A i \in 1..L : i > m => i - m + 1 \in 1..N /\ t[i] = s[i - m + 1]
  BY BehindSame
<1>4. tally[1] = b + v
  <2>1. 1 \in 1..N /\ 1 - 1 = 0
    BY <1>1
  <2>2. tally[1] = tally[1 - 1] + v
    BY <1>2, <2>1
  <2>. QED  BY <1>2, <2>1, <2>2
<1>. HIDE DEF N, L, v
<1>. DEFINE u == [j \in 0..L |-> IF j < m THEN b ELSE tally[j - m + 1]]
<1>5. \A j \in 0..L : j >= m => j - m + 1 \in 0..N
  BY <1>1
<1>6. u \in [0..L -> Int]
  BY <1>1, <1>2, <1>5
<1>7. u[0] = e
  <2>1. 0 \in 0..L
    BY <1>1
  <2>2. CASE m = 0
    <3>1. u[0] = tally[0 - m + 1] /\ 0 - m + 1 = 1
      BY <2>1, <2>2
    <3>. QED  BY <1>4, <2>2, <3>1 DEF v
  <2>3. CASE m # 0
    BY <1>1, <2>1, <2>3
  <2>. QED  BY <2>2, <2>3
<1>8. u[L] = w
  <2>1. L \in 0..L /\ ~(L < m) /\ L - m + 1 = N
    BY <1>1
  <2>. QED  BY <1>2, <2>1
<1>9. ASSUME NEW i \in 1..L
      PROVE  u[i] = u[i - 1] + Weight(t[i])
  <2>0. i \in 0..L /\ i - 1 \in 0..L
    BY <1>1
  <2>1. CASE i < m
    <3>1. u[i] = b
      BY <2>0, <2>1
    <3>2. i - 1 < m
      BY <1>1, <2>1
    <3>3. u[i - 1] = b
      BY <2>0, <3>2
    <3>4. i \in 1..m /\ i # m
      BY <1>1, <2>1
    <3>5. Weight(t[i]) = 0
      BY <3>4
    <3>. QED  BY <3>1, <3>3, <3>5
  <2>2. CASE i = m
    <3>0. i - 1 < m /\ ~(i < m) /\ i - m + 1 = 1 /\ i \in 1..m
      BY <1>1, <2>2
    <3>1. u[i - 1] = b
      BY <2>0, <3>0
    <3>2. u[i] = tally[i - m + 1] /\ i - m + 1 = 1
      BY <2>0, <3>0
    <3>3. Weight(t[i]) = v
      BY <2>2, <3>0 DEF v
    <3>. HIDE DEF u
    <3>. QED  BY <1>4, <3>1, <3>2, <3>3
  <2>3. CASE i > m
    <3>. DEFINE g == i - m + 1
    <3>1. g \in 1..N /\ t[i] = s[g] /\ g - 1 = (i - 1) - m + 1
      BY <1>1, <1>3, <2>3
    <3>2. u[i] = tally[g]
      BY <1>1, <2>0, <2>3
    <3>3. u[i - 1] = tally[(i - 1) - m + 1]
      BY <1>1, <2>0, <2>3
    <3>. HIDE DEF g, u
    <3>4. tally[g] = tally[g - 1] + Weight(s[g])
      BY <1>2, <3>1
    <3>. QED  BY <3>1, <3>2, <3>3, <3>4
  <2>. QED  BY <1>1, <2>1, <2>2, <2>3
<1>. HIDE DEF u
<1>10. Owes(t, e, w)
  <2>1. u \in [0..Len(t) -> Int] /\ u[0] = e /\ u[Len(t)] = w /\ \A i \in 1..Len(t) : u[i] = u[i - 1] + Weight(t[i])
    BY <1>6, <1>7, <1>8, <1>9 DEF L
  <2>. QED  BY <2>1 DEF Owes
<1>. QED  BY <1>10

(* A row the list has still to read keeps what is to be taken from it.      *)
LEMMA FilledMoved ==
  ASSUME NEW rs, NEW s, NEW us, NEW t, NEW m, NEW n, Filled(rs, s), Behind(t, m, s, n),
         DOMAIN rs \subseteq DOMAIN us,
         \A r \in DOMAIN rs : us[r].lot = rs[r].lot /\ us[r].bin = rs[r].bin /\ us[r].status = rs[r].status,
         \A i \in 1..Len(s), r \in DOMAIN rs :
           i > n /\ s[i].call = "ship" /\ r \in RowsIn(rs, s[i].lot, s[i].bin, s[i].status) => us[r].qty = rs[r].qty,
         \A i \in 1..m : t[i].call # "ship"
  PROVE  Filled(us, t)
<1>. SUFFICES ASSUME NEW i \in 1..Len(t), t[i].call = "ship"
              PROVE  \E r \in RowsIn(us, t[i].lot, t[i].bin, t[i].status) : us[r].qty >= t[i].qty
  BY DEF Filled
<1>1. PICK j \in 1..Len(s) : j > n /\ t[i] = s[j]
  BY BehindOr
<1>2. PICK r \in RowsIn(rs, s[j].lot, s[j].bin, s[j].status) : rs[r].qty >= s[j].qty
  BY <1>1 DEF Filled
<1>3. r \in DOMAIN rs /\ us[r].qty = rs[r].qty
  BY <1>1, <1>2 DEF RowsIn
<1>4. r \in RowsIn(us, t[i].lot, t[i].bin, t[i].status)
  BY <1>1, <1>2, <1>3 DEF RowsIn
<1>. QED  BY <1>1, <1>2, <1>3, <1>4

LEMMA WholeResolves ==
  ASSUME StockInv, NEW c \in Callers, Resolves(c), RowsInv, NEW p, p.shipped \in Int,
         Covered(rows, agg, todo[c], agg - AllOf(rows)), Whole(rows, todo[c], p)
  PROVE  Whole(rows, todo'[c], p)
<1>. DEFINE Goal == Whole(rows, todo'[c], p)
            s == todo[c]
            t == todo'[c]
            k == next(c)
<1>1. /\ rows \in Seq(Row) /\ Distinct(rows) /\ UpToDate(rows, s) /\ agg \in Nat
      /\ todo \in [Callers -> Seq(Calls)]
      /\ \A r \in DOMAIN rows : rows[r].qty \in Nat
  <2>1. rows \in Seq(Row) /\ agg \in Nat /\ todo \in [Callers -> Seq(Calls)]
    BY DEF StockInv, TypeOK, Row
  <2>. QED  BY <2>1, RowsOfType DEF RowsInv
<1>2. ASSUME NEW name, Doing(c, name)
      PROVE  /\ s[1] = k /\ Len(s) \in Nat \ {0} /\ 1 \in 1..Len(s) /\ k.call = name /\ Sound(k, DOMAIN rows)
             /\ k \in Calls /\ k.qty \in Nat /\ k.delta \in Int
  BY <1>1, <1>2, HeadSound DEF Sound
<1>3. ASSUME NEW name, Doing(c, name)
      PROVE  /\ \A x : Follow(c, <<x>>) => Behind(t, 1, s, 1) /\ t[1] = x
             /\ \A x, y : Follow(c, <<x, y>>) => Behind(t, 2, s, 1) /\ t[1] = x /\ t[2] = y
             /\ \A x, y, u : Follow(c, <<x, y, u>>) => Behind(t, 3, s, 1) /\ t[1] = x /\ t[2] = y /\ t[3] = u
  BY <1>3, FollowShape
<1>4. /\ \A i \in 1..1 : i = 1
      /\ \A i \in 1..2 : i = 1 \/ i = 2
      /\ \A i \in 1..3 : i = 1 \/ i = 2 \/ i = 3
  OBVIOUS
<1>5. \/ p.shipped \in {0, p.want} /\ Bystander(s)
      \/ PickCalls(s) /\ Owes(s, p.shipped, p.want) /\ Filled(rows, s)
  BY DEF Whole
<1>6. Throw(c) => t = <<>>
  BY <1>1 DEF Throw
<1>7. /\ \A r, q : Set(r, q).call = "set"
      /\ \A q : SetAgg(q).call = "setAgg"
      /\ \A l, d : Post(l, d).call = "post" /\ Post(l, d).delta = d
      /\ \A l, b, st, q : Put(l, b, st, q).call = "put"
      /\ \A l : Expire(l).call = "expire"
  BY DEF Set, SetAgg, Post, Put, Expire, Blank
<1>. HIDE DEF t, s, k
<1>8. ASSUME p.shipped \in {0, p.want}, Bystander(s)
      PROVE  Goal
  <2>1. Bystander(t) => Goal
    BY <1>8 DEF Whole, t
  <2>2. Throw(c) => Goal
    <3>1. Throw(c) => Bystander(t)
      BY <1>6, EmptyList DEF Bystander
    <3>. QED  BY <2>1, <3>1
  <2>3. ASSUME NEW name, Doing(c, name)
        PROVE  /\ name \notin {"ship", "shipAgg", "adjustAgg"}
               /\ \A x : Follow(c, <<x>>) /\ Aside(x) => Goal
               /\ \A x, y : Follow(c, <<x, y>>) /\ Aside(x) /\ Aside(y) => Goal
               /\ \A x, y, u : Follow(c, <<x, y, u>>) /\ Aside(x) /\ Aside(y) /\ Aside(u) => Goal
    <3>. HIDE DEF Goal
    <3>1. name \notin {"ship", "shipAgg", "adjustAgg"}
      BY <1>2, <1>8, <2>3 DEF Bystander, Aside
    <3>2. ASSUME NEW m, Behind(t, m, s, 1), \A i \in 1..m : Aside(t[i])
          PROVE  Goal
      BY <1>8, <2>1, <3>2, BystanderMoved
    <3>3. ASSUME NEW x, Follow(c, <<x>>), Aside(x)
          PROVE  Goal
      BY <1>3, <1>4, <2>3, <3>2, <3>3
    <3>4. ASSUME NEW x, NEW y, Follow(c, <<x, y>>), Aside(x), Aside(y)
          PROVE  Goal
      BY <1>3, <1>4, <2>3, <3>2, <3>4
    <3>5. ASSUME NEW x, NEW y, NEW u, Follow(c, <<x, y, u>>), Aside(x), Aside(y), Aside(u)
          PROVE  Goal
      BY <1>3, <1>4, <2>3, <3>2, <3>5
    <3>. QED  BY <3>1, <3>3, <3>4, <3>5
  <2>. HIDE DEF Goal
  <2>4. \A l, b, st, q : Aside(Put(l, b, st, q))
    BY <1>7 DEF Aside
  <2>5. \A r, q, l : Aside(Set(r, q)) /\ Aside(Expire(l))
    BY <1>7 DEF Aside
  <2>6. ASSUME ShipRead(c) \/ ShipResolve(c) \/ AdjustResolve(c)
        PROVE  Goal
    <3>1. Doing(c, "ship") \/ Doing(c, "shipAgg") \/ Doing(c, "adjustAgg")
      BY <2>6 DEF ShipRead, ShipResolve, AdjustResolve
    <3>. QED  BY <2>3, <3>1
  <2>7. ASSUME MoveResolve(c)
        PROVE  Goal
    <3>1. Doing(c, "moveInto") /\ (Throw(c) \/ \E q : Follow(c, <<Set(k.row, k.delta), Put(k.lot, k.bin, k.status, q)>>))
      BY <2>7 DEF MoveResolve, k
    <3>. QED  BY <2>2, <2>3, <2>4, <2>5, <3>1
  <2>8. ASSUME LookupRow(c)
        PROVE  Goal
    <3>1. Doing(c, "lookup") /\ \E q : Follow(c, <<Put(k.lot, NoBin, k.status, q)>>)
      BY <2>8 DEF LookupRow, k
    <3>. QED  BY <2>3, <2>4, <3>1
  <2>9. ASSUME QuarantineRow(c)
        PROVE  Goal
    <3>1. Doing(c, "quarantine")
          /\ \E q : Follow(c, <<Put(k.lot, NoBin, "quarantine", q), Set(k.row, 0), Expire(k.lot)>>)
      BY <2>9 DEF QuarantineRow, k
    <3>. QED  BY <2>3, <2>4, <2>5, <3>1
  <2>10. ASSUME PutRow(c)
         PROVE  Goal
    <3>1. Doing(c, "put") /\ ((\E r : Follow(c, <<Set(r, k.qty)>>)) \/ Follow(c, <<[k EXCEPT !.call = "insert"]>>))
      BY <2>10 DEF PutRow, k
    <3>2. Aside([k EXCEPT !.call = "insert"])
      <4>1. [k EXCEPT !.call = "insert"].call = "insert"
        BY <1>2, <3>1 DEF Calls
      <4>. QED  BY <4>1 DEF Aside
    <3>. QED  BY <2>3, <2>5, <3>1, <3>2
  <2>. QED  BY <2>6, <2>7, <2>8, <2>9, <2>10, Zenon DEF Resolves
<1>9. ASSUME PickCalls(s), Owes(s, p.shipped, p.want), Filled(rows, s)
      PROVE  Goal
  <2>1. ASSUME NEW name, Doing(c, name)
        PROVE  name \in {"ship", "shipAgg", "set", "setAgg", "post"}
    BY <1>2, <1>9, <2>1 DEF PickCalls, OfPick
  <2>2. ASSUME NEW name, Doing(c, name), NEW m, Behind(t, m, s, 1), m # 0, \A i \in 1..m : OfPick(t[i]) /\ t[i].call # "ship",
               \A i \in 1..m : Weight(t[i]) = IF i = m THEN Weight(k) ELSE 0
        PROVE  Goal
    <3>1. Weight(k) \in Int /\ s[1] = k /\ Len(s) \in Nat \ {0}
      BY <1>2, <2>2 DEF Weight
    <3>2. PickCalls(t)
      BY <1>9, <2>2, PickMoved
    <3>3. Owes(t, p.shipped, p.want)
      BY <1>9, <2>2, <3>1, OwesMoved
    <3>4. Filled(rows, t)
      BY <1>9, <2>2, FilledMoved
    <3>. QED  BY <3>2, <3>3, <3>4 DEF Whole, t
  <2>. HIDE DEF Goal
  <2>3. ASSUME ShipRead(c)
        PROVE  Goal
    <3>. DEFINE R == RowsIn(rows, k.lot, k.bin, k.status)
    <3>1. /\ Doing(c, "ship")
          /\ \/ \E r \in R : Follow(c, <<[k EXCEPT !.call = "shipAgg", !.row = r, !.delta = Quantity(r)]>>)
             \/ R = {} \/ \E r \in R : Quantity(r) < k.qty
      BY <2>3, RowsSame DEF ShipRead, k
    <3>2. k \in Calls /\ k.qty \in Nat /\ k.call = "ship" /\ s[1] = k /\ 1 \in 1..Len(s)
      BY <1>2, <3>1
    <3>3. PICK r \in R : rows[r].qty >= k.qty
      BY <1>9, <3>2 DEF Filled
    <3>4. \A q \in R : q = r
      BY <1>1 DEF RowsIn, Distinct
    <3>5. rows[r].qty \in Nat
      BY <1>1, <3>3 DEF RowsIn
    <3>6. ~(R = {}) /\ \A q \in R : ~(Quantity(q) < k.qty)
      BY <3>2, <3>3, <3>4, <3>5 DEF Quantity
    <3>. DEFINE x(q) == [k EXCEPT !.call = "shipAgg", !.row = q, !.delta = Quantity(q)]
    <3>7. PICK q \in R : Follow(c, <<x(q)>>)
      BY <3>1, <3>6
    <3>8. x(q).call = "shipAgg" /\ x(q).qty = k.qty
      BY <3>2 DEF Calls
    <3>9. Behind(t, 1, s, 1) /\ t[1] = x(q)
      BY <1>3, <3>1, <3>7
    <3>. HIDE DEF x
    <3>10. OfPick(t[1]) /\ t[1].call # "ship" /\ Weight(t[1]) = Weight(k)
      BY <3>2, <3>8, <3>9 DEF OfPick, Weight, Ships
    <3>11. \A i \in 1..1 : OfPick(t[i]) /\ t[i].call # "ship" /\ Weight(t[i]) = IF i = 1 THEN Weight(k) ELSE 0
      BY <1>4, <3>10
    <3>12. Doing(c, "ship") /\ Behind(t, 1, s, 1)
      BY <3>1, <3>9, Zenon
    <3>13. 1 # 0
      OBVIOUS
    <3>. HIDE DEF R
    <3>. QED  BY <2>2, <3>11, <3>12, <3>13
  <2>4. ASSUME ShipResolve(c)
        PROVE  Goal
    <3>. DEFINE x == Set(k.row, k.delta - k.qty)
                y == SetAgg(agg - k.qty)
                u == Post(k.lot, -k.qty)
    <3>1. Doing(c, "shipAgg") /\ (Follow(c, <<x, y, u>>) \/ ~(agg >= k.qty))
      BY <2>4 DEF ShipResolve, k
    <3>2. /\ k \in Calls /\ k.qty \in Nat /\ k.call = "shipAgg" /\ s[1] = k /\ 1 \in 1..Len(s) /\ Len(s) \in Nat \ {0}
          /\ k.delta >= k.qty /\ k.row \in DOMAIN rows
      BY <1>2, <3>1 DEF Sound, WithRow
    <3>3. rows[k.row].qty = k.delta
      BY <1>1, <3>2 DEF UpToDate, JustRead, Fresh
    <3>4. agg - AllOf(rows) >= 0
      BY <3>2, HeadCovered DEF s
    <3>5. AllOf(rows) \in Nat /\ rows[k.row].qty <= AllOf(rows) /\ rows[k.row].qty \in Nat
      <4>. DEFINE D == DOMAIN rows
                  q == QtyOf(rows)
      <4>1. IsFiniteSet(D) /\ k.row \in D /\ (\A r \in D : q[r] \in Nat) /\ q[k.row] = rows[k.row].qty
        BY <1>1, <3>2, RowsOfType
      <4>. HIDE DEF D, q
      <4>2. q[k.row] <= Total(D, q) /\ Total(D, q) \in Nat
        BY <4>1, TotalBound, TotalType
      <4>. QED  BY <1>1, <3>2, <4>1, <4>2 DEF AllOf, D, q
    <3>6. agg >= k.qty
      BY <1>1, <3>2, <3>3, <3>4, <3>5
    <3>7. x.call = "set" /\ y.call = "setAgg" /\ u.call = "post" /\ u.delta = -k.qty
      BY <1>7
    <3>8. Follow(c, <<x, y, u>>)
      BY <3>1, <3>6
    <3>. HIDE DEF x, y, u
    <3>9. Behind(t, 3, s, 1) /\ t[1] = x /\ t[2] = y /\ t[3] = u
      BY <1>3, <3>1, <3>8
    <3>10. -k.qty <= 0 /\ -(-k.qty) = k.qty
      BY <3>2
    <3>11. OfPick(x) /\ OfPick(y) /\ OfPick(u) /\ Weight(x) = 0 /\ Weight(y) = 0 /\ Weight(u) = k.qty /\ Weight(k) = k.qty
      BY <3>2, <3>7, <3>10 DEF OfPick, Weight, Ships
    <3>12. \A i \in 1..3 : OfPick(t[i]) /\ t[i].call # "ship" /\ Weight(t[i]) = IF i = 3 THEN Weight(k) ELSE 0
      BY <1>4, <3>7, <3>9, <3>11
    <3>. QED  BY <2>2, <3>1, <3>9, <3>12
  <2>5. ASSUME AdjustResolve(c) \/ MoveResolve(c) \/ LookupRow(c) \/ QuarantineRow(c) \/ PutRow(c)
        PROVE  Goal
    <3>1. Doing(c, "adjustAgg") \/ Doing(c, "moveInto") \/ Doing(c, "lookup") \/ Doing(c, "quarantine") \/ Doing(c, "put")
      BY <2>5 DEF AdjustResolve, MoveResolve, LookupRow, QuarantineRow, PutRow
    <3>. QED  BY <2>1, <3>1
  <2>. QED  BY <2>3, <2>4, <2>5, Zenon DEF Resolves
<1>. HIDE DEF Goal
<1>10. Goal
  BY <1>5, <1>8, <1>9
<1>. QED  BY <1>10 DEF Goal

LEMMA WholeWrites ==
  ASSUME StockInv, NEW c \in Callers, Writes(c), RowsInv, Unbinned, Planned(rows, lotStatus, todo[c]),
         Whole(rows, todo[c], pick[c])
  PROVE  Whole(rows', todo'[c], pick'[c])
<1>. DEFINE s == todo[c]
            t == todo'[c]
            k == next(c)
            p == pick[c]
            Goal == Whole(rows', t, pick'[c])
<1>1. /\ rows \in Seq(Row) /\ pick \in [Callers -> [want : Nat, shipped : Int]]
      /\ \A r \in DOMAIN rows : rows[r].qty \in Nat
  <2>1. rows \in Seq(Row) /\ pick \in [Callers -> [want : Nat, shipped : Int]]
    BY DEF StockInv, TypeOK, Row
  <2>. QED  BY <2>1, RowsOfType
<1>2. PICK name : /\ Doing(c, name) /\ Follow(c, <<>>)
                  /\ name \in {"insert", "set", "setAgg", "addAgg", "expire", "post"}
                  /\ name \notin {"insert", "set"} => rows' = rows
                  /\ name = "set" => rows' = [rows EXCEPT ![k.row].qty = k.qty]
                  /\ name # "post" => pick' = pick
                  /\ name = "post" => pick' = [pick EXCEPT ![c].shipped = IF k.delta < 0 THEN @ - k.delta ELSE @]
  BY DEF Writes, InsertRow, SetRow, WriteAgg, Increment, ExpireLot, PostEntry
<1>3. /\ s[1] = k /\ Len(s) \in Nat \ {0} /\ 1 \in 1..Len(s) /\ k.call = name /\ Sound(k, DOMAIN rows)
      /\ k.qty \in Nat /\ k.delta \in Int
  BY <1>2, HeadSound DEF Sound
<1>4. Behind(t, 0, s, 1)
  BY <1>2, FollowShape
<1>5. /\ p.shipped \in Int /\ pick'[c].want = p.want
      /\ pick'[c].shipped = IF name = "post" /\ k.delta < 0 THEN p.shipped - k.delta ELSE p.shipped
  <2>1. p \in [want : Nat, shipped : Int]
    BY <1>1
  <2>2. CASE name = "post"
    <3>1. pick'[c] = [p EXCEPT !.shipped = IF k.delta < 0 THEN p.shipped - k.delta ELSE p.shipped]
      BY <1>1, <1>2, <2>2
    <3>. HIDE DEF p, k
    <3>. QED  BY <2>1, <2>2, <3>1
  <2>3. CASE name # "post"
    BY <1>2, <2>1, <2>3
  <2>. QED  BY <2>2, <2>3
<1>6. \A i : i \notin 1..0
  OBVIOUS
<1>7. \/ p.shipped \in {0, p.want} /\ Bystander(s)
      \/ PickCalls(s) /\ Owes(s, p.shipped, p.want) /\ Filled(rows, s)
  BY DEF Whole
<1>8. Apart(rows, s) /\ Level(rows)
  BY DEF Planned, Unbinned, Level
<1>. HIDE DEF s, t, k, p
<1>9. ASSUME p.shipped \in {0, p.want}, Bystander(s)
      PROVE  Goal
  <2>1. Bystander(t)
    BY <1>4, <1>6, <1>9, BystanderMoved
  <2>2. name = "post" => k.delta >= 0
    BY <1>3, <1>9 DEF Bystander, Aside
  <2>3. pick'[c].shipped = p.shipped
    BY <1>3, <1>5, <2>2
  <2>. QED  BY <1>5, <1>9, <2>1, <2>3 DEF Whole
<1>10. ASSUME PickCalls(s), Owes(s, p.shipped, p.want), Filled(rows, s)
       PROVE  Goal
  <2>1. PickCalls(t)
    BY <1>4, <1>6, <1>10, PickMoved
  <2>2. name \in {"set", "setAgg", "post"} /\ (name = "post" => k.delta <= 0)
    BY <1>2, <1>3, <1>10 DEF PickCalls, OfPick
  <2>3. Weight(k) \in Int /\ pick'[c].shipped = p.shipped + Weight(k)
    <3>1. Weight(k) = IF name = "post" THEN -k.delta ELSE 0
      BY <1>3, <2>2 DEF Weight, Ships
    <3>. QED  BY <1>3, <1>5, <2>2, <3>1
  <2>4. Owes(t, pick'[c].shipped, p.want)
    BY <1>3, <1>4, <1>5, <1>6, <1>10, <2>3, OwesMoved
  <2>5. Filled(rows', t)
    <3>1. CASE name = "set"
      <4>1. k.row \in DOMAIN rows /\ Written(rows, k.row, k.qty, rows')
        BY <1>2, <1>3, <3>1 DEF Sound, WithRow, Written
      <4>2. /\ DOMAIN rows' = DOMAIN rows
            /\ \A r \in DOMAIN rows : r # k.row => rows'[r] = rows[r]
            /\ \A r \in DOMAIN rows : rows'[r].lot = rows[r].lot /\ rows'[r].bin = rows[r].bin /\ rows'[r].status = rows[r].status
        BY <1>1, <1>3, <4>1, AllSet
      <4>3. ASSUME NEW i \in 1..Len(s), NEW r \in DOMAIN rows, i > 1, s[i].call = "ship",
                   r \in RowsIn(rows, s[i].lot, s[i].bin, s[i].status)
            PROVE  rows'[r].qty = rows[r].qty
        <5>1. Concerns(rows, s[i], r)
          BY <4>3 DEF Concerns
        <5>2. ~Concerns(rows, s[1], r)
          BY <1>3, <1>8, <4>3, <5>1 DEF Apart
        <5>3. r # k.row
          BY <1>3, <3>1, <5>2 DEF Concerns
        <5>. QED  BY <4>2, <5>3
      <4>. QED  BY <1>4, <1>6, <1>10, <4>2, <4>3, FilledMoved
    <3>2. CASE name # "set"
      <4>1. rows' = rows
        BY <1>2, <2>2, <3>2
      <4>2. Filled(rows, t)
        BY <1>4, <1>6, <1>10, FilledMoved
      <4>. QED  BY <4>1, <4>2
    <3>. QED  BY <3>1, <3>2
  <2>. QED  BY <1>5, <2>1, <2>4, <2>5 DEF Whole
<1>. HIDE DEF Goal
<1>11. Goal
  BY <1>7, <1>9, <1>10
<1>. QED  BY <1>11 DEF Goal, t

LEMMA WholeOpens ==
  ASSUME StockInv, NEW c \in Callers, Opens(c), ~count'.adjusted, Unbinned, Whole(rows, todo[c], pick[c])
  PROVE  Whole(rows, todo'[c], pick'[c])
<1>. DEFINE s == todo'[c]
            Goal == Whole(rows, s, pick'[c])
<1>1. Begun(s) /\ todo[c] = <<>>
  BY DEF Opens
<1>2. pick[c].shipped \in {0, pick[c].want}
  <2>1. Owes(<<>>, pick[c].shipped, pick[c].want) => pick[c].shipped = pick[c].want
    BY NothingOwed
  <2>. QED  BY <1>1, <2>1 DEF Whole
<1>3. \/ pick'[c] = pick[c] /\ NoShips(s)
      \/ (\A i \in 1..Len(s) : s[i].call = "ship") /\ Asked(rows, s, pick'[c])
  BY DEF Opens
<1>. HIDE DEF s
<1>4. ASSUME \A i \in 1..Len(s) : s[i].call = "ship", Asked(rows, s, pick'[c])
      PROVE  Goal
  <2>1. PickCalls(s)
    BY <1>4 DEF PickCalls, OfPick
  <2>2. Owes(s, pick'[c].shipped, pick'[c].want) /\ Filled(rows, s)
    BY <1>4 DEF Asked, Unbinned, Level
  <2>. QED  BY <2>1, <2>2 DEF Whole
<1>5. ASSUME pick'[c] = pick[c], NoShips(s)
      PROVE  Goal
  <2>1. /\ \A l, b, st, q : Put(l, b, st, q).call = "put"
        /\ \A l, d : Post(l, d).call = "post" /\ Post(l, d).delta = d
        /\ \A l, st, q : Lookup(l, st, q).call = "lookup"
        /\ \A r, q : Set(r, q).call = "set"
        /\ \A q : AddAgg(q).call = "addAgg"
    BY DEF Put, Post, Lookup, Set, AddAgg, Blank
  <2>2. Bystander(s)
    <3>1. CASE Producing(s)
      <4>1. \A q \in Nat : q >= 0
        OBVIOUS
      <4>2. Len(s) = 3 /\ Aside(s[1]) /\ Aside(s[2]) /\ Aside(s[3])
        BY <2>1, <3>1, <4>1 DEF Producing, Aside
      <4>3. \A i \in 1..3 : i = 1 \/ i = 2 \/ i = 3
        OBVIOUS
      <4>. QED  BY <4>2, <4>3 DEF Bystander
    <3>2. CASE Shifting(s)
      <4>1. Len(s) = 2 /\ Aside(s[1]) /\ Aside(s[2])
        BY <2>1, <3>2 DEF Shifting, Aside
      <4>2. \A i \in 1..2 : i = 1 \/ i = 2
        OBVIOUS
      <4>. QED  BY <4>1, <4>2 DEF Bystander
    <3>3. CASE Moving(s) \/ Sweeping(s)
      BY <3>3 DEF Moving, Sweeping, Bystander, Aside
    <3>4. CASE Shipping(s)
      BY <1>5, <3>4 DEF Shipping, NoShips, Ships, Bystander
    <3>5. ~Adjusting(s)
      BY DEF Adjusting
    <3>. QED  BY <1>1, <3>1, <3>2, <3>3, <3>4, <3>5 DEF Begun
  <2>. QED  BY <1>2, <1>5, <2>2 DEF Whole
<1>. HIDE DEF Goal
<1>6. Goal
  BY <1>3, <1>4, <1>5
<1>. QED  BY <1>6 DEF Goal, s

LEMMA WritesKeepBins ==
  ASSUME StockInv, NEW c \in Callers, Writes(c)
  PROVE  DOMAIN rows \subseteq DOMAIN rows' /\ \A r \in DOMAIN rows : rows'[r].bin = rows[r].bin
<1>. DEFINE k == next(c)
<1>1. rows \in Seq(Row)
  BY DEF StockInv, TypeOK, Row
<1>2. CASE InsertRow(c)
  <2>. DEFINE x == [lot |-> k.lot, bin |-> k.bin, status |-> k.status, qty |-> k.qty]
  <2>1. Doing(c, "insert") /\ rows' = Append(rows, x)
    BY <1>2 DEF InsertRow
  <2>2. x \in Row
    BY <2>1, HeadSound DEF Sound, WithLot, Row
  <2>. HIDE DEF x
  <2>. QED  BY <1>1, <2>1, <2>2, AllAppend
<1>3. CASE SetRow(c)
  <2>1. Doing(c, "set") /\ Written(rows, k.row, k.qty, rows')
    BY <1>3 DEF SetRow, Written
  <2>2. k.row \in DOMAIN rows /\ k.qty \in Nat
    BY <2>1, HeadSound DEF Sound, WithRow
  <2>. HIDE DEF k
  <2>. QED  BY <1>1, <2>1, <2>2, AllSet
<1>4. CASE WriteAgg(c) \/ Increment(c) \/ ExpireLot(c) \/ PostEntry(c)
  BY <1>4 DEF WriteAgg, Increment, ExpireLot, PostEntry
<1>. QED  BY <1>2, <1>3, <1>4 DEF Writes

LEMMA WholeTurn ==
  ASSUME StockInv, NEW c \in Callers, \A e \in Callers : e = c, Turn(c), RowsInv, CoverInv, PlanInv, WholeInv
  PROVE  WholeInv'
<1>. SUFFICES ASSUME Calmly'
              PROVE  Whole(rows', todo'[c], pick'[c])
  BY Zenon DEF WholeInv
<1>1. /\ Calmly => Whole(rows, todo[c], pick[c]) /\ Covered(rows, agg, todo[c], agg - AllOf(rows))
      /\ count \in [calls : Nat, faults : Nat, made : Nat, adjusted : BOOLEAN]
      /\ count'.faults = 0 /\ ~count'.adjusted /\ Unbinned'
      /\ rows \in Seq(Row) /\ pick \in [Callers -> [want : Nat, shipped : Int]]
  BY DEF StockInv, TypeOK, Row, WholeInv, CoverInv, Calmly
<1>2. ASSUME Unbinned, ~count'.adjusted => ~count.adjusted, count'.faults = count.faults
      PROVE  Whole(rows, todo[c], pick[c]) /\ Covered(rows, agg, todo[c], agg - AllOf(rows))
  BY <1>1, <1>2 DEF Calmly
<1>3. rows' = rows => Unbinned
  BY <1>1 DEF Unbinned
<1>4. CASE UNCHANGED vars
  <2>1. rows' = rows /\ todo' = todo /\ count' = count /\ pick' = pick
    BY <1>4 DEF vars
  <2>. QED  BY <1>2, <1>3, <2>1
<1>5. CASE Opens(c)
  <2>1. rows' = rows /\ (~count'.adjusted => ~count.adjusted) /\ count'.faults = count.faults
    BY <1>5 DEF Opens
  <2>2. Whole(rows, todo'[c], pick'[c])
    BY <1>1, <1>2, <1>3, <1>5, <2>1, WholeOpens
  <2>. QED  BY <2>1, <2>2
<1>6. CASE Resolves(c)
  <2>1. rows' = rows /\ pick' = pick /\ count' = count
    BY <1>6 DEF Resolves, ShipRead, ShipResolve, AdjustResolve, MoveResolve, LookupRow, QuarantineRow, PutRow
  <2>. DEFINE p == pick[c]
  <2>2. p.shipped \in Int
    BY <1>1
  <2>3. Whole(rows, todo[c], p) /\ Covered(rows, agg, todo[c], agg - AllOf(rows))
    BY <1>2, <1>3, <2>1
  <2>. HIDE DEF p
  <2>4. Whole(rows, todo'[c], p)
    BY <1>6, <2>2, <2>3, WholeResolves
  <2>. QED  BY <2>1, <2>4 DEF p
<1>7. CASE Writes(c)
  <2>1. count' = count
    BY <1>7 DEF Writes, InsertRow, SetRow, WriteAgg, Increment, ExpireLot, PostEntry
  <2>2. Unbinned
    <3>1. DOMAIN rows \subseteq DOMAIN rows' /\ \A r \in DOMAIN rows : rows'[r].bin = rows[r].bin
      BY <1>7, WritesKeepBins
    <3>. QED  BY <1>1, <3>1 DEF Unbinned
  <2>3. Planned(rows, lotStatus, todo[c])
    BY DEF PlanInv
  <2>. QED  BY <1>2, <1>7, <2>1, <2>2, <2>3, WholeWrites
<1>8. CASE Cuts(c)
  <2>1. count'.faults = count.faults + 1
    BY <1>8 DEF Cuts
  <2>. QED  BY <1>1, <2>1
<1>. QED  BY <1>4, <1>5, <1>6, <1>7, <1>8 DEF Turn

-----------------------------------------------------------------------------
(* The books: the rows are in order, every row and line is of a lot that    *)
(* was made, every list is explained and paid for, a pick is planned and    *)
(* goes through, and the rows of a sweep and the aggregate bear it.         *)
BooksInv ==
  /\ RowsInv /\ StockMade /\ CountMade /\ FloorInv /\ ShopInv
  /\ PlanInv /\ SweepInv /\ CoverInv /\ WholeInv

LEMMA BooksInvInit == CountInit => BooksInv
<1>. SUFFICES ASSUME CountInit
              PROVE  BooksInv
  OBVIOUS
<1>1. /\ rows = <<>> /\ lines = <<>> /\ posted.lots = 0 /\ count.made = 0 /\ agg = 0
      /\ \A c \in Callers : pick[c].shipped = 0
      /\ \A c \in Callers : todo[c] = <<>> /\ desk[c].snap = <<>> /\ desk[c].left = <<>>
  BY DEF CountInit, Init, IdleDesk
<1>2. DOMAIN <<>> = {} /\ \A i : i \notin 1..Len(<<>>)
  BY EmptyList
<1>3. AllOf(<<>>) = 0
  BY <1>2, TotalEmpty DEF AllOf
<1>4. RowsInv
  BY <1>1, <1>2 DEF RowsInv, Distinct, UpToDate
<1>5. StockMade /\ CountMade
  BY <1>1, <1>2 DEF StockMade, CountMade, MadeOf
<1>6. AllOf(rows) - posted.lots = 0 /\ count.made - AllOf(rows) = 0
  BY <1>1, <1>3
<1>7. FloorInv
  BY <1>1, <1>6, NothingExplained DEF FloorInv
<1>8. ShopInv
  <2>1. count.made - AllOf(rows) >= 0
    BY <1>6
  <2>. QED  BY <1>1, <2>1, NothingPaid DEF ShopInv
<1>9. PlanInv
  BY <1>1, <1>2, NothingPlanned DEF PlanInv, NoShips
<1>10. SweepInv
  BY <1>1, <1>2, NothingSwept DEF SweepInv, NoSweep
<1>11. CoverInv
  <2>1. agg - AllOf(rows) >= 0
    BY <1>1, <1>3
  <2>. QED  BY <1>1, <2>1, NothingCovered DEF CoverInv
<1>12. WholeInv
  BY <1>1, <1>2 DEF WholeInv, Whole, Bystander
<1>. QED  BY <1>4, <1>5, <1>7, <1>8, <1>9, <1>10, <1>11, <1>12 DEF BooksInv

LEMMA BooksStep ==
  ASSUME CountInv, CountInv', LedgerInv, BooksInv, NEW c \in Callers, \A e \in Callers : e = c,
         CountStep(c) \/ (StockStep(c) /\ UNCHANGED countVars) \/ UNCHANGED <<vars, countVars>>
  PROVE  BooksInv'
<1>1. /\ RowsInv /\ StockMade /\ CountMade /\ FloorInv /\ ShopInv /\ StockInv /\ StockInv'
      /\ PlanInv /\ SweepInv /\ CoverInv /\ WholeInv
  BY DEF BooksInv, CountInv
<1>2. Occupied(desk[c], todo[c])
  BY DEF LedgerInv
<1>3. \A i \in 1..Len(desk[c].left) : desk[c].left[i].lot \in Lots => Made(desk[c].left[i].lot)
  <2>1. desk \in [Callers -> DeskType]
    BY DEF CountInv
  <2>2. DOMAIN desk[c].left = 1..Len(desk[c].left)
    BY <2>1, LenProperties DEF DeskType
  <2>. QED  BY <1>1, <2>2 DEF CountMade, MadeOf, Made
<1>4. Turn(c)
  BY <1>1, <1>2, <1>3, EachTurn DEF RowsInv
<1>5. \A l \in Lots : Made(l) => lotStatus'[l] # "none"
  BY MadeStays
<1>6. RowsInv'
  BY <1>1, <1>4, RowsTurn
<1>7. StockMade'
  BY <1>1, <1>4, <1>5, MadeTurn
<1>8. CountMade'
  BY <1>1, CountMadeStep
<1>9. FloorInv'
  BY <1>1, <1>4, FloorTurn
<1>10. ShopInv'
  BY <1>1, <1>4, ShopTurn
<1>11. PlanInv'
  BY <1>1, <1>4, PlanTurn
<1>12. SweepInv'
  BY <1>1, <1>4, SweepTurn
<1>13. CoverInv'
  BY <1>1, <1>4, CoverTurn
<1>14. WholeInv'
  BY <1>1, <1>4, WholeTurn
<1>. QED  BY <1>6, <1>7, <1>8, <1>9, <1>10, <1>11, <1>12, <1>13, <1>14 DEF BooksInv

THEOREM BooksInvariant ==
  ASSUME OneCaller
  PROVE  CountSpec => [](CountInv /\ BooksInv)
<1>1. CountInit => BooksInv
  BY BooksInvInit
<1>2. /\ CountInv /\ LedgerInv /\ (CountInv /\ LedgerInv)' /\ BooksInv /\ [CountNext]_<<vars, countVars>>
      => BooksInv'
  <2>. SUFFICES ASSUME CountInv, LedgerInv, CountInv', BooksInv, [CountNext]_<<vars, countVars>>
                PROVE  BooksInv'
    OBVIOUS
  <2>1. ASSUME NEW c \in Callers
        PROVE  BooksInv'
    <3>1. \A e \in Callers : e = c
      BY DEF OneCaller
    <3>2. CountStep(c) \/ (StockStep(c) /\ UNCHANGED countVars) \/ UNCHANGED <<vars, countVars>>
      BY <3>1, Zenon DEF CountNext
    <3>. QED  BY <3>1, <3>2, BooksStep
  <2>2. CASE Callers = {}
    <3>1. UNCHANGED <<vars, countVars>>
      BY <2>2 DEF CountNext
    <3>2. rows' = rows /\ lotStatus' = lotStatus /\ lines' = lines /\ desk' = desk /\ todo' = todo
          /\ count' = count /\ posted' = posted
      BY <3>1 DEF vars, countVars
    <3>3. Distinct(rows)' /\ MadeOf(lotStatus, rows)' /\ MadeOf(lotStatus, lines)'
      BY <3>2 DEF BooksInv, RowsInv, StockMade, CountMade
    <3>. QED  BY <2>2, <3>3 DEF BooksInv, RowsInv, StockMade, CountMade, FloorInv, ShopInv, PlanInv,
                                   SweepInv, CoverInv, WholeInv
  <2>. QED  BY <2>1, <2>2
<1>. QED  BY <1>1, <1>2, LedgerInvariant, PTL DEF CountSpec

LEMMA LotTotalIsAll == LotTotal = AllOf(rows)
BY DEF LotTotal, AllOf, Stock, QtyOf, Quantity

(* With one request at a time, and none cut short, whenever no call is in   *)
(* progress and no balance is in a bin or reserved, the lot balances add up *)
(* to what the ledger shows of the lots: shipInventory,                     *)
(* adjustInventoryQuantity, createWorkOrderOutput and expireLotsSweep       *)
(* change the balances by what they enter, alone or as a part of an         *)
(* approval of a count, whatever they find in a lot.                        *)
THEOREM LotBalancesAttributable ==
  ASSUME OneCaller, Callers # {}
  PROVE  CountSpec => []LotsAttributable
<1>1. PICK c \in Callers : TRUE
  OBVIOUS
<1>2. CountInv /\ BooksInv => LotsAttributable
  <2>. SUFFICES ASSUME CountInv, BooksInv, Quiescent, count.faults = 0, OnTheFloor
                PROVE  LotTotal = posted.lots
    BY DEF LotsAttributable
  <2>1. todo[c] = <<>> /\ FloorInv
    BY <1>1 DEF Quiescent, BooksInv
  <2>2. AllOf(rows) - posted.lots = 0
    BY <1>1, <2>1, NothingExplained DEF FloorInv
  <2>3. rows \in Seq(Row) /\ posted.lots \in Int
    BY DEF CountInv, StockInv, TypeOK, Row
  <2>. QED  BY <2>2, <2>3, AllType, LotTotalIsAll
<1>. QED  BY <1>2, BooksInvariant, PTL

(* With one request at a time, cut short or not, and as long as nothing was *)
(* put away in a bin, quarantined or adjusted, the lot balances never hold  *)
(* more than work orders produced: reserveInventory, releaseReservation and *)
(* shipInventory take a quantity out of one row before they add it to       *)
(* another, and never more than they took.                                  *)
THEOREM StockFromProduction ==
  ASSUME OneCaller, Callers # {}
  PROVE  CountSpec => []NoStockFromNothing
<1>1. PICK c \in Callers : TRUE
  OBVIOUS
<1>2. CountInv /\ BooksInv => NoStockFromNothing
  <2>. SUFFICES ASSUME CountInv, BooksInv, Shop
                PROVE  LotTotal <= count.made
    BY DEF NoStockFromNothing, Shop
  <2>1. count.made - AllOf(rows) >= 0
    BY <1>1 DEF BooksInv, ShopInv, Paid
  <2>2. rows \in Seq(Row) /\ count.made \in Nat
    BY DEF CountInv, StockInv, TypeOK, Row
  <2>. QED  BY <2>1, <2>2, AllType, LotTotalIsAll
<1>. QED  BY <1>2, BooksInvariant, PTL

(* With one request at a time, and whatever is cut short, moved, reserved   *)
(* or counted in between: when pickInventoryFEFO is about to ship an        *)
(* available allocation, no row of an active, unexpired lot that comes      *)
(* before it has stock left, because selectFefoLots took it whole, and the  *)
(* plan is shipped in its order.                                            *)
THEOREM FefoFollowed ==
  ASSUME OneCaller, Callers # {}
  PROVE  CountSpec => []PickFollowsFefo
<1>1. CountInv /\ BooksInv => PickFollowsFefo
  <2>. SUFFICES ASSUME CountInv, BooksInv, NEW c \in Callers, Doing(c, "shipAgg"), next(c).status = "available",
                       NEW r \in DOMAIN rows, rows[r].status = "available", lotStatus[rows[r].lot] = "active",
                       ~IsExpired(rows[r].lot), Before(rows[r], next(c)), rows[r].qty # 0
                PROVE  FALSE
    BY DEF PickFollowsFefo
  <2>1. todo[c][1] = next(c) /\ next(c).call = "shipAgg" /\ 1 \in 1..Len(todo[c])
    <3>1. StockInv
      BY DEF CountInv
    <3>. QED  BY <3>1, HeadSound
  <2>2. InTurn(rows, lotStatus, todo[c])
    BY DEF BooksInv, PlanInv, Planned
  <2>3. Waits(rows, lotStatus, todo[c][1], r) /\ Ships(todo[c][1])
    BY <2>1 DEF Waits, Ships
  <2>4. \E j \in 1..Len(todo[c]) : j < 1
    BY <2>1, <2>2, <2>3 DEF InTurn
  <2>. QED  BY <2>4
<1>. QED  BY <1>1, BooksInvariant, PTL

(* With one request at a time, none cut short, and as long as nothing was   *)
(* put away in a bin or adjusted: a pick that is over shipped what it was   *)
(* asked for or nothing, although pickInventoryFEFO ships its allocations   *)
(* one by one and shipInventory may refuse each.  The plan covers the       *)
(* quantity, each row still holds its allocation when its turn comes, and   *)
(* the aggregate is never below the balances, so none is refused.           *)
THEOREM PicksAreWhole ==
  ASSUME OneCaller, Callers # {}
  PROVE  CountSpec => []PickIsWhole
<1>1. CountInv /\ BooksInv => PickIsWhole
  <2>. SUFFICES ASSUME CountInv, BooksInv, Calmly, NEW c \in Callers, todo[c] = <<>>
                PROVE  pick[c].shipped \in {0, pick[c].want}
    BY DEF PickIsWhole, Calmly
  <2>1. Whole(rows, <<>>, pick[c])
    BY DEF BooksInv, WholeInv
  <2>2. Owes(<<>>, pick[c].shipped, pick[c].want) => pick[c].shipped = pick[c].want
    BY NothingOwed
  <2>. QED  BY <2>1, <2>2 DEF Whole
<1>. QED  BY <1>1, BooksInvariant, PTL

-----------------------------------------------------------------------------
(* What a count settles.  The balances of a lot add up to its sum.          *)
OfLot(rs, l) == {r \in DOMAIN rs : rs[r].lot = l}
LotSum(rs, l) == Total(OfLot(rs, l), QtyOf(rs))

LEMMA LotSumType ==
  ASSUME NEW rs \in Seq(Row), NEW l
  PROVE  LotSum(rs, l) \in Nat
<1>1. OfLot(rs, l) \in SUBSET DOMAIN rs
  BY DEF OfLot
<1>2. IsFiniteSet(OfLot(rs, l)) /\ \A r \in OfLot(rs, l) : QtyOf(rs)[r] \in Nat
  BY <1>1, RowsOfType, FS_Subset
<1>. QED  BY <1>2, TotalType DEF LotSum

LEMMA LotAppend ==
  ASSUME NEW rs \in Seq(Row), NEW x \in Row, NEW l
  PROVE  LotSum(Append(rs, x), l) = LotSum(rs, l) + (IF x.lot = l THEN x.qty ELSE 0)
<1>. DEFINE n == Len(rs) + 1
            t == Append(rs, x)
            S == OfLot(rs, l)
            q == QtyOf(t)
<1>1. /\ DOMAIN t = DOMAIN rs \cup {n} /\ n \notin DOMAIN rs
      /\ t[n] = x /\ \A r \in DOMAIN rs : t[r] = rs[r]
  BY AllAppend
<1>2. t \in Seq(Row)
  BY AppendProperties
<1>. HIDE DEF t, n
<1>3. /\ IsFiniteSet(DOMAIN rs) /\ \A r \in DOMAIN rs : QtyOf(rs)[r] = rs[r].qty
      /\ \A r \in DOMAIN t : q[r] = t[r].qty /\ q[r] \in Nat
  BY <1>2, RowsOfType
<1>. HIDE DEF q
<1>4. S \in SUBSET DOMAIN rs
  BY DEF OfLot
<1>5. IsFiniteSet(S)
  BY <1>3, <1>4, FS_Subset
<1>6. OfLot(t, l) = IF x.lot = l THEN S \cup {n} ELSE S
  BY <1>1 DEF OfLot
<1>7. n \notin S /\ (\A r \in S \cup {n} : q[r] \in Nat) /\ q[n] = x.qty
  BY <1>1, <1>3, <1>4
<1>8. \A r \in S : q[r] = QtyOf(rs)[r]
  BY <1>1, <1>3, <1>4
<1>. HIDE DEF S
<1>9. Total(S, q) = Total(S, QtyOf(rs))
  BY <1>8, TotalSame
<1>10. Total(S \cup {n}, q) = Total(S, q) + q[n]
  BY <1>5, <1>7, TotalAdd
<1>11. Total(S, q) \in Nat
  BY <1>5, <1>7, TotalType
<1>12. LotSum(t, l) = IF x.lot = l THEN Total(S, q) + x.qty ELSE Total(S, q)
  BY <1>6, <1>7, <1>10 DEF LotSum, q
<1>13. LotSum(rs, l) = Total(S, q)
  BY <1>9 DEF LotSum, S
<1>. QED  BY <1>11, <1>12, <1>13 DEF t

LEMMA LotSet ==
  ASSUME NEW rs \in Seq(Row), NEW r \in DOMAIN rs, NEW v \in Nat, NEW t, Written(rs, r, v, t), NEW l
  PROVE  LotSum(t, l) = LotSum(rs, l) + (IF rs[r].lot = l THEN v - rs[r].qty ELSE 0)
<1>. DEFINE S == OfLot(rs, l)
            q == QtyOf(rs)
            u == QtyOf(t)
<1>1. /\ t \in Seq(Row) /\ DOMAIN t = DOMAIN rs
      /\ t[r].qty = v /\ \A s \in DOMAIN rs : s # r => t[s] = rs[s]
      /\ \A s \in DOMAIN rs : t[s].lot = rs[s].lot
  BY AllSet
<1>2. /\ IsFiniteSet(DOMAIN rs) /\ \A s \in DOMAIN rs : q[s] = rs[s].qty /\ q[s] \in Nat
      /\ \A s \in DOMAIN rs : u[s] = t[s].qty /\ u[s] \in Nat
  BY <1>1, RowsOfType
<1>. HIDE DEF q, u
<1>3. S \in SUBSET DOMAIN rs /\ OfLot(t, l) = S /\ (r \in S <=> rs[r].lot = l)
  BY <1>1 DEF OfLot
<1>4. IsFiniteSet(S)
  BY <1>2, <1>3, FS_Subset
<1>5. (\A s \in S : q[s] \in Nat /\ u[s] \in Nat) /\ (\A s \in S : s # r => u[s] = q[s])
      /\ u[r] = v /\ q[r] = rs[r].qty /\ q[r] \in Nat
  BY <1>1, <1>2, <1>3
<1>6. LotSum(t, l) = Total(S, u) /\ LotSum(rs, l) = Total(S, q)
  BY <1>3 DEF LotSum, q, u
<1>. HIDE DEF S
<1>7. Total(S, q) \in Nat
  BY <1>4, <1>5, TotalType
<1>8. CASE rs[r].lot = l
  <2>1. r \in S
    BY <1>3, <1>8
  <2>2. \A s \in S \ {r} : u[s] = q[s]
    BY <1>5
  <2>3. Total(S, u) = Total(S, q) - q[r] + u[r]
    BY <1>4, <1>5, <2>1, <2>2, TotalChange
  <2>. QED  BY <1>5, <1>6, <1>7, <1>8, <2>3
<1>9. CASE rs[r].lot # l
  <2>1. \A s \in S : q[s] = u[s]
    BY <1>3, <1>5, <1>9
  <2>2. Total(S, q) = Total(S, u)
    BY <2>1, TotalSame
  <2>. QED  BY <1>6, <1>7, <1>9, <2>2
<1>. QED  BY <1>8, <1>9

(* The lines of a count that were not cleared, what each balance comes to   *)
(* with the lines posted so far, and how far the stock is off from it.      *)
LiveOf(ls) == {i \in DOMAIN ls : ls[i].status # "deleted"}
LinesOf(ls, l) == {i \in LiveOf(ls) : ls[i].lot = l}
Value(x, p) == IF p >= 1 /\ x.counted # Uncounted THEN x.counted ELSE x.system
Values(ls, ps) == [i \in DOMAIN ls |-> Value(ls[i], ps[i])]
LineSum(ls, ps, l) == Total(LinesOf(ls, l), Values(ls, ps))
Off(rs, a, ls, ps, m, e) ==
  IF rs = <<>> THEN \A i \in LiveOf(ls) : a = Value(ls[i], ps[i]) + e
  ELSE \A l \in Lots : LotSum(rs, l) = LineSum(ls, ps, l) + (IF l = m THEN e ELSE 0)

(* The calls still to make of an adjustment by the variance of line h.      *)
LotOf(rs, k) == IF k.call = "set" THEN rs[k.row].lot ELSE k.lot
Asks(s, h) == Len(s) = 1 /\ s[1].call = "adjustAgg" /\ s[1].lot = h.lot /\ s[1].delta = h.variance
Stores(rs, s, h) ==
  /\ Len(s) = 3 /\ s[1].call \in Plain /\ s[2].call = "setAgg" /\ s[3].call = "post" /\ h.lot # NoLot
  /\ LotOf(rs, s[1]) = h.lot /\ Effect(rs, s[1]) = h.variance
Summing(s) == Len(s) = 2 /\ s[1].call = "setAgg" /\ s[2].call = "post"
Closes(s) == Len(s) = 1 /\ s[1].call = "post"
Mid(rs, a, ls, ps, s, h) ==
  \/ (s = <<>> \/ Asks(s, h) \/ Stores(rs, s, h)) /\ Off(rs, a, ls, ps, h.lot, 0)
  \/ Summing(s) /\ h.lot = NoLot /\ s[1].qty = a + h.variance /\ Off(rs, a, ls, ps, h.lot, 0)
  \/ Summing(s) /\ h.lot # NoLot /\ Off(rs, a, ls, ps, h.lot, h.variance)
  \/ Closes(s) /\ Off(rs, a, ls, ps, h.lot, h.variance)

LEMMA PlainWrite ==
  ASSUME StockInv, NEW c \in Callers, RowsInv, InsertRow(c) \/ SetRow(c)
  PROVE  /\ agg' = agg /\ rows' # <<>> /\ Effect(rows, next(c)) \in Int
         /\ \A l : LotSum(rows', l) = LotSum(rows, l)
                                      + (IF LotOf(rows, next(c)) = l THEN Effect(rows, next(c)) ELSE 0)
<1>. DEFINE k == next(c)
            Goal == /\ agg' = agg /\ rows' # <<>> /\ Effect(rows, k) \in Int
                    /\ \A l : LotSum(rows', l) = LotSum(rows, l) + (IF LotOf(rows, k) = l THEN Effect(rows, k) ELSE 0)
<1>1. rows \in Seq(Row) /\ UpToDate(rows, todo[c]) /\ \A r \in DOMAIN rows : rows[r].qty \in Nat
  <2>1. rows \in Seq(Row)
    BY DEF StockInv, TypeOK, Row
  <2>. QED  BY <2>1, RowsOfType DEF RowsInv
<1>2. ASSUME NEW name, Doing(c, name)
      PROVE  /\ k.call = name /\ Sound(k, DOMAIN rows) /\ k.qty \in Nat /\ k.bin \in Places /\ k.status \in Statuses
             /\ todo[c][1] = k /\ 1 \in 1..Len(todo[c])
  BY <1>2, HeadSound
<1>3. DOMAIN <<>> = {}
  BY EmptyList
<1>. HIDE DEF k, Goal
<1>4. ASSUME InsertRow(c)
      PROVE  Goal
  <2>. DEFINE x == [lot |-> k.lot, bin |-> k.bin, status |-> k.status, qty |-> k.qty]
  <2>1. Doing(c, "insert") /\ rows' = Append(rows, x) /\ agg' = agg
    BY <1>4 DEF InsertRow, k
  <2>2. /\ k.call = "insert" /\ Sound(k, DOMAIN rows) /\ k.qty \in Nat /\ k.bin \in Places /\ k.status \in Statuses
        /\ todo[c][1] = k /\ 1 \in 1..Len(todo[c])
    BY <1>2, <2>1
  <2>3. x \in Row /\ x.lot = k.lot /\ x.qty = k.qty
    BY <2>2 DEF Sound, WithLot, Row
  <2>4. RowsIn(rows, k.lot, k.bin, k.status) = {}
    BY <1>1, <2>2 DEF UpToDate, JustRead, Fresh
  <2>5. Effect(rows, k) = k.qty /\ LotOf(rows, k) = k.lot
    BY <2>2, <2>4, HeldNone DEF Effect, LotOf
  <2>. HIDE DEF x
  <2>6. \A l : LotSum(rows', l) = LotSum(rows, l) + (IF x.lot = l THEN x.qty ELSE 0)
    BY <1>1, <2>1, <2>3, LotAppend
  <2>7. rows' # <<>>
    BY <1>1, <1>3, <2>1, <2>3, AllAppend
  <2>. QED  BY <2>1, <2>2, <2>3, <2>5, <2>6, <2>7 DEF Goal
<1>5. ASSUME SetRow(c)
      PROVE  Goal
  <2>1. Doing(c, "set") /\ Written(rows, k.row, k.qty, rows') /\ agg' = agg
    BY <1>5 DEF SetRow, Written, k
  <2>2. k.call = "set" /\ k.row \in DOMAIN rows /\ k.qty \in Nat
    BY <1>2, <2>1 DEF Sound, WithRow
  <2>3. Effect(rows, k) = k.qty - rows[k.row].qty /\ LotOf(rows, k) = rows[k.row].lot
    BY <2>2 DEF Effect, LotOf
  <2>4. \A l : LotSum(rows', l) = LotSum(rows, l) + (IF rows[k.row].lot = l THEN k.qty - rows[k.row].qty ELSE 0)
    BY <1>1, <2>1, <2>2, LotSet
  <2>5. DOMAIN rows' = DOMAIN rows
    BY <1>1, <2>1, <2>2, AllSet
  <2>6. rows' # <<>>
    BY <1>3, <2>2, <2>5
  <2>7. Effect(rows, k) \in Int
    BY <1>1, <2>2, <2>3
  <2>. QED  BY <2>1, <2>3, <2>4, <2>6, <2>7 DEF Goal
<1>. QED  BY <1>4, <1>5 DEF Goal, k

LEMMA BehindLength ==
  ASSUME NEW s, NEW t
  PROVE  /\ Len(s) = 1 /\ Behind(t, 2, s, 1) => Len(t) = 2
         /\ Len(s) = 1 /\ Behind(t, 3, s, 1) => Len(t) = 3
         /\ Len(s) = 3 /\ Behind(t, 1, s, 1) => Len(t) = 3
         /\ Len(s) = 3 /\ Behind(t, 0, s, 1) => Len(t) = 2
         /\ Len(s) = 2 /\ Behind(t, 0, s, 1) => Len(t) = 1
<1>1. ASSUME Len(s) = 1, Behind(t, 2, s, 1)
      PROVE  Len(t) = 2
  <2>1. Len(t) \in Nat /\ Len(t) - 2 = Len(s) - 1
    BY <1>1, Zenon DEF Behind
  <2>. QED  BY <1>1, <2>1
<1>2. ASSUME Len(s) = 1, Behind(t, 3, s, 1)
      PROVE  Len(t) = 3
  <2>1. Len(t) \in Nat /\ Len(t) - 3 = Len(s) - 1
    BY <1>2, Zenon DEF Behind
  <2>. QED  BY <1>2, <2>1
<1>3. ASSUME Len(s) = 3, Behind(t, 1, s, 1)
      PROVE  Len(t) = 3
  <2>1. Len(t) \in Nat /\ Len(t) - 1 = Len(s) - 1
    BY <1>3, Zenon DEF Behind
  <2>. QED  BY <1>3, <2>1
<1>4. ASSUME Len(s) = 3, Behind(t, 0, s, 1)
      PROVE  Len(t) = 2
  <2>1. Len(t) \in Nat /\ Len(t) - 0 = Len(s) - 1
    BY <1>4, Zenon DEF Behind
  <2>. QED  BY <1>4, <2>1
<1>5. ASSUME Len(s) = 2, Behind(t, 0, s, 1)
      PROVE  Len(t) = 1
  <2>1. Len(t) \in Nat /\ Len(t) - 0 = Len(s) - 1
    BY <1>5, Zenon DEF Behind
  <2>. QED  BY <1>5, <2>1
<1>. QED  BY <1>1, <1>2, <1>3, <1>4, <1>5

LEMMA MidMoves ==
  ASSUME StockInv, NEW c \in Callers, RowsInv, Unbinned,
         Resolves(c) \/ InsertRow(c) \/ SetRow(c) \/ WriteAgg(c),
         NEW ls, NEW ps, \A l \in Lots : LineSum(ls, ps, l) \in Nat, \A i \in LiveOf(ls) : Value(ls[i], ps[i]) \in Nat,
         NEW h, h.variance \in Int, h.lot = NoLot <=> rows = <<>>,
         Mid(rows, agg, ls, ps, todo[c], h)
  PROVE  Mid(rows', agg', ls, ps, todo'[c], h)
<1>. DEFINE Goal == Mid(rows', agg', ls, ps, todo'[c], h)
            s == todo[c]
            t == todo'[c]
            k == next(c)
            v == h.variance
<1>1. rows \in Seq(Row) /\ Distinct(rows) /\ UpToDate(rows, s) /\ agg \in Nat /\ NoLot \notin Lots
      /\ todo \in [Callers -> Seq(Calls)]
  BY StockAssumption DEF StockInv, TypeOK, Row, RowsInv
<1>2. ASSUME NEW name, Doing(c, name)
      PROVE  /\ s[1] = k /\ Len(s) \in Nat \ {0} /\ 1 \in 1..Len(s) /\ k.call = name /\ Sound(k, DOMAIN rows)
             /\ k \in Calls /\ k.qty \in Nat /\ k.delta \in Int /\ s # <<>>
  BY <1>1, <1>2, HeadSound DEF Sound
<1>3. ASSUME NEW name, Doing(c, name)
      PROVE  /\ Follow(c, <<>>) => Behind(t, 0, s, 1)
             /\ \A x : Follow(c, <<x>>) => Behind(t, 1, s, 1) /\ t[1] = x
             /\ \A x, y : Follow(c, <<x, y>>) => Behind(t, 2, s, 1) /\ t[1] = x /\ t[2] = y
             /\ \A x, y, u : Follow(c, <<x, y, u>>) => Behind(t, 3, s, 1) /\ t[1] = x /\ t[2] = y /\ t[3] = u
  BY <1>3, FollowShape
<1>4. Throw(c) => t = <<>>
  BY <1>1 DEF Throw
<1>5. /\ Len(s) = 1 /\ Behind(t, 2, s, 1) => Len(t) = 2
      /\ Len(s) = 1 /\ Behind(t, 3, s, 1) => Len(t) = 3
      /\ Len(s) = 3 /\ Behind(t, 1, s, 1) => Len(t) = 3
      /\ Len(s) = 3 /\ Behind(t, 0, s, 1) => Len(t) = 2
      /\ Len(s) = 2 /\ Behind(t, 0, s, 1) => Len(t) = 1
  BY BehindLength
<1>6. /\ \A r, q : Set(r, q).call = "set" /\ Set(r, q).row = r /\ Set(r, q).qty = q
      /\ \A q : SetAgg(q).call = "setAgg" /\ SetAgg(q).qty = q
      /\ \A l, d : Post(l, d).call = "post"
      /\ \A l, b, st, q : /\ Put(l, b, st, q).call = "put" /\ Put(l, b, st, q).lot = l /\ Put(l, b, st, q).bin = b
                          /\ Put(l, b, st, q).status = st /\ Put(l, b, st, q).qty = q
  BY DEF Set, SetAgg, Post, Put, Blank
<1>7. ASSUME NEW name, Doing(c, name), rows' = rows, agg' = agg, name \notin Plain, name \notin {"setAgg", "post"}
      PROVE  name = "adjustAgg" /\ Len(s) = 1 /\ k.lot = h.lot /\ k.delta = v /\ Off(rows', agg', ls, ps, h.lot, 0)
  BY <1>2, <1>7 DEF Mid, Asks, Stores, Summing, Closes
<1>8. ASSUME NEW name, Doing(c, name), name \in Plain
      PROVE  Stores(rows, s, h) /\ Off(rows, agg, ls, ps, h.lot, 0)
  BY <1>2, <1>8 DEF Mid, Asks, Stores, Summing, Closes, Plain
<1>. HIDE DEF Goal, s, t, k, v
<1>9. ASSUME AdjustResolve(c)
      PROVE  Goal
  <2>. DEFINE x == Put(k.lot, NoBin, "available", k.qty)
              y == SetAgg(agg + k.delta)
              u == Post(k.lot, k.delta)
  <2>1. /\ Doing(c, "adjustAgg") /\ rows' = rows /\ agg' = agg
        /\ Throw(c) \/ (k.lot = NoLot /\ Follow(c, <<y, u>>)) \/ (k.lot # NoLot /\ Follow(c, <<x, y, u>>))
    <3>1. <<>> \o <<y, u>> = <<y, u>> /\ <<x>> \o <<y, u>> = <<x, y, u>>
      BY ConcatOneTwo
    <3>. HIDE DEF x, y, u
    <3>2. Throw(c) \/ Follow(c, (IF k.lot = NoLot THEN <<>> ELSE <<x>>) \o <<y, u>>)
      BY <1>9 DEF AdjustResolve, x, y, u, k
    <3>3. Doing(c, "adjustAgg") /\ rows' = rows /\ agg' = agg
      BY <1>9 DEF AdjustResolve
    <3>. QED  BY <3>1, <3>2, <3>3
  <2>2. Len(s) = 1 /\ k.lot = h.lot /\ k.delta = v /\ Off(rows', agg', ls, ps, h.lot, 0)
    BY <1>7, <2>1 DEF Plain
  <2>3. k.qty \in Nat /\ k.delta \in Int /\ s[1] = k /\ 1 \in 1..Len(s) /\ k.call = "adjustAgg"
    BY <1>2, <2>1
  <2>4. Throw(c) => Goal
    BY <1>4, <2>2 DEF Goal, Mid, t
  <2>5. ASSUME k.lot = NoLot, Follow(c, <<y, u>>)
        PROVE  Goal
    <3>1. y.call = "setAgg" /\ y.qty = agg + v /\ u.call = "post"
      BY <1>6, <2>2
    <3>. HIDE DEF x, y, u
    <3>2. Behind(t, 2, s, 1) /\ t[1] = y /\ t[2] = u
      BY <1>3, <2>1, <2>5
    <3>3. Len(t) = 2
      BY <1>5, <2>2, <3>2
    <3>4. Summing(t)
      BY <3>1, <3>2, <3>3 DEF Summing
    <3>. QED  BY <2>1, <2>2, <2>5, <3>1, <3>2, <3>4 DEF Goal, Mid, t, v
  <2>6. ASSUME k.lot # NoLot, Follow(c, <<x, y, u>>)
        PROVE  Goal
    <3>1. Found(rows, k.lot, "available", k.qty - k.delta)
      BY <1>1, <2>3, <2>6 DEF UpToDate, JustRead, Fresh
    <3>2. Held(rows, k.lot, NoBin, "available") = k.qty - k.delta
      BY <1>1, <3>1, FoundIsHeld
    <3>3. x.call = "put" /\ x.lot = k.lot /\ Effect(rows, x) = k.qty - (k.qty - k.delta)
      BY <1>6, <3>2 DEF Effect
    <3>4. Effect(rows, x) = v /\ LotOf(rows, x) = h.lot
      BY <2>2, <2>3, <3>3 DEF LotOf
    <3>5. y.call = "setAgg" /\ u.call = "post"
      BY <1>6
    <3>. HIDE DEF x, y, u
    <3>6. Behind(t, 3, s, 1) /\ t[1] = x /\ t[2] = y /\ t[3] = u
      BY <1>3, <2>1, <2>6
    <3>7. Len(t) = 3
      BY <1>5, <2>2, <3>6
    <3>8. Stores(rows, t, h)
      BY <2>2, <2>6, <3>3, <3>4, <3>5, <3>6, <3>7 DEF Stores, Plain, v
    <3>. QED  BY <2>1, <2>2, <3>8 DEF Goal, Mid, t
  <2>. QED  BY <2>1, <2>4, <2>5, <2>6
<1>10. ASSUME PutRow(c)
       PROVE  Goal
  <2>1. /\ Doing(c, "put") /\ rows' = rows /\ agg' = agg
        /\ \/ \E r \in RowsIn(rows, k.lot, k.bin, k.status) : Follow(c, <<Set(r, k.qty)>>)
           \/ Follow(c, <<[k EXCEPT !.call = "insert"]>>)
    BY <1>10, RowsSame DEF PutRow, k
  <2>2. k \in Calls /\ s[1] = k /\ k.call = "put" /\ Stores(rows, s, h) /\ Off(rows, agg, ls, ps, h.lot, 0)
    BY <1>2, <1>8, <2>1 DEF Plain
  <2>3. ASSUME NEW x, Behind(t, 1, s, 1), t[1] = x, x.call \in Plain, Effect(rows, x) = Effect(rows, k), LotOf(rows, x) = k.lot
        PROVE  Goal
    <3>1. Len(s) = 3 /\ 2 \in 1..Len(s) /\ 3 \in 1..Len(s)
      BY <2>2 DEF Stores
    <3>2. t[2] = s[2] /\ t[3] = s[3] /\ Len(t) = 3
      BY <1>5, <2>3, <3>1, BehindAlong
    <3>3. LotOf(rows, k) = k.lot
      BY <2>2 DEF LotOf
    <3>4. Stores(rows, t, h)
      BY <2>2, <2>3, <3>2, <3>3 DEF Stores
    <3>. QED  BY <2>1, <2>2, <3>4 DEF Goal, Mid, t
  <2>4. ASSUME NEW r \in RowsIn(rows, k.lot, k.bin, k.status), Follow(c, <<Set(r, k.qty)>>)
        PROVE  Goal
    <3>. DEFINE x == Set(r, k.qty)
    <3>1. x.call = "set" /\ x.row = r /\ x.qty = k.qty
      BY <1>6
    <3>2. r \in DOMAIN rows /\ rows[r].lot = k.lot
      BY DEF RowsIn
    <3>3. Held(rows, k.lot, k.bin, k.status) = rows[r].qty
      BY <1>1, HeldOne
    <3>4. Effect(rows, x) = Effect(rows, k) /\ LotOf(rows, x) = k.lot
      BY <2>2, <3>1, <3>2, <3>3 DEF Effect, LotOf
    <3>. HIDE DEF x
    <3>5. Behind(t, 1, s, 1) /\ t[1] = x
      BY <1>3, <2>1, <2>4 DEF x
    <3>. QED  BY <2>3, <3>1, <3>4, <3>5 DEF Plain
  <2>5. ASSUME Follow(c, <<[k EXCEPT !.call = "insert"]>>)
        PROVE  Goal
    <3>. DEFINE x == [k EXCEPT !.call = "insert"]
    <3>1. x.call = "insert" /\ x.lot = k.lot /\ x.bin = k.bin /\ x.status = k.status /\ x.qty = k.qty
      BY <2>2 DEF Calls
    <3>. HIDE DEF x
    <3>2. Behind(t, 1, s, 1) /\ t[1] = x
      BY <1>3, <2>1, <2>5 DEF x
    <3>3. Effect(rows, x) = Effect(rows, k) /\ LotOf(rows, x) = k.lot
      BY <2>2, <3>1 DEF Effect, LotOf
    <3>. QED  BY <2>3, <3>1, <3>2, <3>3 DEF Plain
  <2>. QED  BY <2>1, <2>4, <2>5
<1>11. ASSUME InsertRow(c) \/ SetRow(c)
       PROVE  Goal
  <2>1. PICK name : Doing(c, name) /\ name \in Plain /\ Follow(c, <<>>)
    BY <1>11 DEF InsertRow, SetRow, Plain
  <2>2. Stores(rows, s, h) /\ Off(rows, agg, ls, ps, h.lot, 0) /\ s[1] = k
    BY <1>2, <1>8, <2>1
  <2>3. Len(s) = 3 /\ 2 \in 1..Len(s) /\ 3 \in 1..Len(s) /\ Behind(t, 0, s, 1)
    BY <1>3, <2>1, <2>2 DEF Stores
  <2>4. t[1] = s[2] /\ t[2] = s[3] /\ Len(t) = 2
    BY <1>5, <2>3, BehindLater
  <2>5. Summing(t) /\ h.lot # NoLot
    BY <2>2, <2>4 DEF Stores, Summing
  <2>6. rows # <<>>
    BY <2>5
  <2>7. /\ rows' # <<>>
        /\ \A l : LotSum(rows', l) = LotSum(rows, l) + (IF LotOf(rows, k) = l THEN Effect(rows, k) ELSE 0)
    BY <1>11, PlainWrite DEF k
  <2>8. Effect(rows, k) = h.variance /\ LotOf(rows, k) = h.lot
    BY <2>2 DEF Stores
  <2>9. ASSUME NEW l \in Lots
        PROVE  LotSum(rows', l) = LineSum(ls, ps, l) + (IF l = h.lot THEN h.variance ELSE 0)
    <3>1. LotSum(rows, l) = LineSum(ls, ps, l) + 0
      BY <2>2, <2>6 DEF Off
    <3>2. LineSum(ls, ps, l) \in Nat
      OBVIOUS
    <3>3. LotSum(rows', l) = LotSum(rows, l) + (IF l = h.lot THEN h.variance ELSE 0)
      BY <2>7, <2>8
    <3>. QED  BY <3>1, <3>2, <3>3
  <2>10. Off(rows', agg', ls, ps, h.lot, h.variance)
    BY <2>7, <2>9 DEF Off
  <2>. QED  BY <2>5, <2>10 DEF Goal, Mid, t
<1>12. ASSUME WriteAgg(c)
       PROVE  Goal
  <2>1. Doing(c, "setAgg") /\ Follow(c, <<>>) /\ agg' = k.qty /\ rows' = rows
    BY <1>12 DEF WriteAgg, k
  <2>2. s[1] = k /\ k.call = "setAgg" /\ s # <<>>
    BY <1>2, <2>1
  <2>3. /\ Summing(s)
        /\ \/ h.lot = NoLot /\ s[1].qty = agg + h.variance /\ Off(rows, agg, ls, ps, h.lot, 0)
           \/ h.lot # NoLot /\ Off(rows, agg, ls, ps, h.lot, h.variance)
    BY <2>2 DEF Mid, Asks, Stores, Closes, Plain, s
  <2>4. Behind(t, 0, s, 1) /\ Len(s) = 2 /\ 2 \in 1..Len(s) /\ s[2].call = "post"
    BY <1>3, <2>1, <2>3 DEF Summing
  <2>5. t[1] = s[2] /\ Len(t) = 1
    BY <1>5, <2>4, BehindLater
  <2>6. Closes(t)
    BY <2>4, <2>5 DEF Closes
  <2>7. CASE h.lot = NoLot
    <3>1. rows = <<>> /\ agg' = agg + h.variance
      BY <2>1, <2>2, <2>3, <2>7
    <3>2. ASSUME NEW i \in LiveOf(ls)
          PROVE  agg' = Value(ls[i], ps[i]) + h.variance
      <4>1. agg = Value(ls[i], ps[i]) + 0
        BY <2>3, <2>7, <3>1 DEF Off
      <4>2. Value(ls[i], ps[i]) \in Nat
        OBVIOUS
      <4>. QED  BY <3>1, <4>1, <4>2
    <3>3. Off(rows', agg', ls, ps, h.lot, h.variance)
      BY <2>1, <3>1, <3>2 DEF Off
    <3>. QED  BY <2>6, <3>3 DEF Goal, Mid, t
  <2>8. CASE h.lot # NoLot
    <3>1. rows # <<>> /\ Off(rows, agg, ls, ps, h.lot, h.variance)
      BY <2>3, <2>8
    <3>2. Off(rows', agg', ls, ps, h.lot, h.variance)
      BY <2>1, <3>1 DEF Off
    <3>. QED  BY <2>6, <3>2 DEF Goal, Mid, t
  <2>. QED  BY <2>7, <2>8
<1>13. ASSUME ShipRead(c) \/ ShipResolve(c) \/ MoveResolve(c) \/ LookupRow(c) \/ QuarantineRow(c)
       PROVE  FALSE
  <2>1. /\ Doing(c, "ship") \/ Doing(c, "shipAgg") \/ Doing(c, "moveInto") \/ Doing(c, "lookup") \/ Doing(c, "quarantine")
        /\ rows' = rows /\ agg' = agg
    BY <1>13 DEF ShipRead, ShipResolve, MoveResolve, LookupRow, QuarantineRow
  <2>. QED  BY <1>7, <2>1 DEF Plain
<1>. QED  BY <1>9, <1>10, <1>11, <1>12, <1>13 DEF Resolves, Goal

Recent(ls, n) == \A i \in LiveOf(ls) : ls[i].after = n
Once(ls) == \A i, j \in LiveOf(ls) : ls[i].row = ls[j].row => i = j
Placed(rs, x) == IF x.row = 0 THEN rs = <<>> /\ x.lot = NoLot ELSE x.row \in DOMAIN rs /\ x.lot = rs[x.row].lot
Shows(rs, a, x) == Placed(rs, x) /\ x.system = IF x.row = 0 THEN a ELSE rs[x.row].qty
Accounts(rs, ls) == \A r \in DOMAIN rs : rs[r].qty > 0 => \E i \in LiveOf(ls) : ls[i].row = r

(* What a request has settled before it: the sheet it works on, that there  *)
(* are lines to count, and that the lines still to post are not cleared.    *)
Snapping == {"balances", "aggregate", "insert"}
Phase(d, sh, ls) ==
  /\ d.pc = "clear" \/ d.pc \in Snapping => sh = "draft"
  /\ d.pc = "record" => sh # "approved"
  /\ sh \in {"in_progress", "pending_review", "approved"} \/ (d.pc = "write" /\ d.to = "in_progress") => LiveOf(ls) # {}
  /\ Posting(d) => \A j \in 1..Len(d.left) : d.left[j].id \in LiveOf(ls) /\ d.left[j].lot = ls[d.left[j].id].lot
  /\ d.pc = "adjusting" => d.left[1].variance # 0
Dated(d, s, ls, n) == \A i \in DOMAIN ls : ls[i].after <= n /\ (d.pc = "idle" /\ s # <<>> => ls[i].after # n)
Snapped(d, rs, a, n) ==
  /\ d.pc = "aggregate" => rs = <<>>
  /\ d.pc = "insert" => (\A i \in DOMAIN d.snap : d.snap[i].after = n /\ Shows(rs, a, d.snap[i])) /\ Accounts(rs, d.snap)
Drawn(d, ls, rs, a, n) ==
  /\ \A i \in LiveOf(ls) : ls[i].after = n => Shows(rs, a, ls[i])
  /\ Recent(ls, n) /\ LiveOf(ls) # {} /\ d.pc \notin Snapping => Accounts(rs, ls)
Standing(d, s, sh, ls, ps, rs, a) ==
  IF sh = "approved" THEN (\E i \in LiveOf(ls) : ls[i].counted = Uncounted) \/ Off(rs, a, ls, ps, NoLot, 0)
  ELSE IF d.pc = "adjusting" THEN Mid(rs, a, ls, ps, s, d.left[1])
  ELSE Off(rs, a, ls, ps, NoLot, 0)
AllPlaced(rs, ls) == \A i \in LiveOf(ls) : Placed(rs, ls[i])
Stood(d, s, sh, ls, ps, rs, a, n) ==
  (sh = "approved" \/ Posting(d)) /\ Recent(ls, n) /\ Level(rs) /\ Once(ls)
  => AllPlaced(rs, ls) /\ Standing(d, s, sh, ls, ps, rs, a)

(* Lines written over keep what they were taken from.                       *)
Kept(ls, t) ==
  /\ DOMAIN t = DOMAIN ls /\ LiveOf(t) = LiveOf(ls)
  /\ \A i \in DOMAIN ls : /\ t[i].lot = ls[i].lot /\ t[i].system = ls[i].system
                          /\ t[i].row = ls[i].row /\ t[i].after = ls[i].after

LEMMA DeskMoves ==
  ASSUME CountInv, NEW c \in Callers
  PROVE  /\ \A pc : Turns(c, pc) => /\ desk'[c].pc = pc /\ desk'[c].to = desk[c].to
                                    /\ desk'[c].left = desk[c].left /\ desk'[c].snap = desk[c].snap
         /\ NextLine(c) => desk'[c].pc = "post" /\ desk'[c].to = desk[c].to /\ desk'[c].left = Tail(desk[c].left)
         /\ Ends(c) => desk'[c] = IdleDesk
         /\ \A e : desk' = [desk EXCEPT ![c] = e] => desk'[c] = e
         /\ desk' = desk => desk'[c] = desk[c]
         /\ IdleDesk.pc = "idle"
<1>1. desk \in [Callers -> DeskType] /\ desk[c] \in DeskType
  BY DEF CountInv
<1>2. IdleDesk.pc = "idle" /\ (Ends(c) => desk'[c] = IdleDesk) /\ (desk' = desk => desk'[c] = desk[c])
      /\ \A e : desk' = [desk EXCEPT ![c] = e] => desk'[c] = e
  BY <1>1 DEF Ends, IdleDesk
<1>3. NextLine(c) => desk'[c].pc = "post" /\ desk'[c].to = desk[c].to /\ desk'[c].left = Tail(desk[c].left)
  BY <1>1 DEF NextLine, DeskType
<1>4. \A pc : Turns(c, pc) => /\ desk'[c].pc = pc /\ desk'[c].to = desk[c].to
                              /\ desk'[c].left = desk[c].left /\ desk'[c].snap = desk[c].snap
  BY <1>1 DEF Turns, DeskType
<1>. QED  BY <1>2, <1>3, <1>4

LEMMA LinesKept ==
  ASSUME CountInv, NEW c \in Callers, WriteRecord(c) \/ FlagForRecount(c) \/ StampLine(c)
  PROVE  Kept(lines, lines')
<1>1. lines \in Seq(LineType) /\ LiveOf(lines) = Live
  BY DEF CountInv, LiveOf, Live
<1>2. \A i \in DOMAIN lines : lines[i] \in LineType
  BY LineOfType
<1>3. ASSUME NEW i, NEW q, NEW st, st # "deleted", SetLine(i, [lines[i] EXCEPT !.counted = q, !.status = st])
      PROVE  Kept(lines, lines')
  <2>. DEFINE x == [lines[i] EXCEPT !.counted = q, !.status = st]
  <2>1. i \in Live => x.status # "deleted" /\ x.lot = lines[i].lot /\ x.system = lines[i].system
                      /\ x.row = lines[i].row /\ x.after = lines[i].after
    BY <1>2, <1>3 DEF Live, LineType
  <2>2. lines' = IF i \in Live THEN [lines EXCEPT ![i] = x] ELSE lines
    BY <1>3 DEF SetLine
  <2>. HIDE DEF x
  <2>. QED  BY <2>1, <2>2 DEF Kept, LiveOf, Live
<1>4. ASSUME NEW i, SetLine(i, [lines[i] EXCEPT !.status = "approved"])
      PROVE  Kept(lines, lines')
  <2>. DEFINE x == [lines[i] EXCEPT !.status = "approved"]
  <2>1. i \in Live => x.status # "deleted" /\ x.lot = lines[i].lot /\ x.system = lines[i].system
                      /\ x.row = lines[i].row /\ x.after = lines[i].after
    BY <1>2 DEF Live, LineType
  <2>2. lines' = IF i \in Live THEN [lines EXCEPT ![i] = x] ELSE lines
    BY <1>4 DEF SetLine
  <2>. HIDE DEF x
  <2>. QED  BY <2>1, <2>2 DEF Kept, LiveOf, Live
<1>5. CASE WriteRecord(c)
  BY <1>3, <1>5 DEF WriteRecord
<1>6. CASE FlagForRecount(c)
  BY <1>3, <1>6 DEF FlagForRecount
<1>7. CASE StampLine(c)
  BY <1>4, <1>7 DEF StampLine
<1>. QED  BY <1>5, <1>6, <1>7

LEMMA Allowed ==
  ASSUME NEW sh \in SheetStatus, NEW to \in ALLOWED_TRANSITIONS[sh]
  PROVE  /\ sh # "approved"
         /\ to = "approved" => sh = "pending_review"
         /\ to = "pending_review" => sh = "in_progress"
BY DEF SheetStatus, ALLOWED_TRANSITIONS

LEMMA LeftLists ==
  ASSUME CountInv, NEW left,
         LET ids == Ascending(Live) IN
         left = [j \in DOMAIN ids |-> [id |-> ids[j], lot |-> lines[ids[j]].lot, variance |-> Variance(lines[ids[j]])]]
  PROVE  \A j \in 1..Len(left) : left[j].id \in Live /\ left[j].lot = lines[left[j].id].lot
<1>. DEFINE ids == Ascending(Live)
            n == Cardinality(Live)
<1>1. IsFiniteSet(Live) /\ Live \in SUBSET Nat
  <2>1. DOMAIN lines = 1..Len(lines) /\ Len(lines) \in Nat
    BY LenProperties DEF CountInv
  <2>2. IsFiniteSet(DOMAIN lines) /\ Live \in SUBSET DOMAIN lines
    BY <2>1, FS_Interval DEF Live
  <2>. QED  BY <2>1, <2>2, FS_Subset
<1>2. n \in Nat /\ DOMAIN ids = 1..n /\ ids \in [1..n -> Live]
  BY <1>1, AscendingLists, Zenon DEF Listing
<1>3. left = [j \in DOMAIN ids |-> [id |-> ids[j], lot |-> lines[ids[j]].lot, variance |-> Variance(lines[ids[j]])]]
  OBVIOUS
<1>. HIDE DEF ids, n
<1>4. \A j \in 1..n : left[j].id = ids[j] /\ left[j].lot = lines[ids[j]].lot
  BY <1>2, <1>3
<1>5. DOMAIN left = 1..n
  BY <1>2, <1>3
<1>6. Len(left) = n
  BY <1>2, <1>3, <1>5
<1>. QED  BY <1>2, <1>4, <1>6

LEMMA PhaseStep ==
  ASSUME CountInv, CountInv', PostInv, NEW c \in Callers, count.faults = 0, count'.faults = 0,
         CountStep(c) \/ (StockStep(c) /\ UNCHANGED countVars) \/ UNCHANGED <<vars, countVars>>,
         Phase(desk[c], sheet, lines)
  PROVE  Phase(desk'[c], sheet', lines')
<1>. DEFINE d == desk[c]
            e == desk'[c]
            Goal == Phase(e, sheet', lines')
            LeftOf == [id : Nat, lot : Lots \cup {NoLot}, variance : Int]
            Working == sheet \in {"in_progress", "pending_review", "approved"}
            Busy == {"record", "write", "post", "adjusting", "stamp"}
<1>1. /\ d \in DeskType /\ d.left \in Seq(LeftOf) /\ Ready(d) /\ sheet \in SheetStatus \cup {"none"}
      /\ lines \in Seq(LineType) /\ \A i \in DOMAIN lines : lines[i] \in LineType
      /\ DeskOK(d, sheet, lines, posts, 0)
  BY CountFacts DEF PostInv
<1>2. LiveOf(lines) = Live
  BY DEF LiveOf, Live
<1>3. Phase(d, sheet, lines)
  OBVIOUS
<1>. HIDE DEF d, e, Goal
<1>4. ASSUME sheet' = sheet, e.pc = "idle" \/ e.pc = "lines", LiveOf(lines') = LiveOf(lines)
      PROVE  Goal
  BY <1>3, <1>4 DEF Goal, Phase, Posting, Snapping
<1>5. ASSUME sheet' = "draft", e.pc \notin Busy
       PROVE  Goal
  BY <1>5 DEF Goal, Phase, Posting
<1>6. ASSUME sheet' = sheet, Kept(lines, lines'), Posting(d), Posting(e),
             e.left = d.left \/ (e.left = Tail(d.left) /\ d.left # <<>>),
             e.pc = "adjusting" => e.left[1].variance # 0
      PROVE  Goal
  <2>1. \A j \in 1..Len(d.left) : d.left[j].id \in LiveOf(lines) /\ d.left[j].lot = lines[d.left[j].id].lot
    BY <1>3, <1>6 DEF Phase
  <2>2. \A j \in 1..Len(e.left) : \E k \in 1..Len(d.left) : e.left[j] = d.left[k]
    <3>1. CASE e.left = d.left
      BY <3>1
    <3>2. CASE e.left = Tail(d.left) /\ d.left # <<>>
      <4>1. Len(d.left) \in Nat /\ Len(e.left) = Len(d.left) - 1
            /\ \A j \in 1..Len(e.left) : e.left[j] = d.left[j + 1]
        BY <1>1, <3>2, HeadTailProperties, LenProperties
      <4>2. \A j \in 1..Len(e.left) : j + 1 \in 1..Len(d.left)
        BY <4>1
      <4>. QED  BY <4>1, <4>2
    <3>. QED  BY <1>6, <3>1, <3>2
  <2>3. LiveOf(lines') = LiveOf(lines) /\ \A i \in LiveOf(lines) : lines'[i].lot = lines[i].lot
    BY <1>6 DEF Kept, LiveOf
  <2>4. \A j \in 1..Len(e.left) : e.left[j].id \in LiveOf(lines') /\ e.left[j].lot = lines'[e.left[j].id].lot
    BY <2>1, <2>2, <2>3
  <2>5. Working => LiveOf(lines) # {}
    BY <1>3 DEF Phase
  <2>6. e.pc \notin Snapping \cup {"clear", "record", "write"}
    BY <1>6 DEF Posting, Snapping
  <2>. QED  BY <1>6, <2>3, <2>4, <2>5, <2>6 DEF Goal, Phase
<1>7. /\ \A pc : Turns(c, pc) => e.pc = pc /\ e.to = d.to /\ e.left = d.left
      /\ NextLine(c) => e.pc = "post" /\ e.left = Tail(d.left)
      /\ Ends(c) => e.pc = "idle"
      /\ \A x : desk' = [desk EXCEPT ![c] = x] => e = x
      /\ desk' = desk => e = d
      /\ IdleDesk.pc = "idle"
  BY DeskMoves DEF d, e
<1>8. lines' = lines => Kept(lines, lines')
  BY DEF Kept
<1>9. Kept(lines, lines') => LiveOf(lines') = LiveOf(lines)
  BY DEF Kept
<1>10. ASSUME sheet' = sheet, lines' = lines, e = d
      PROVE  Goal
  BY <1>3, <1>10 DEF Goal
<1>11. Working => LiveOf(lines) # {}
  BY <1>3 DEF Phase
<1>12. ASSUME (StockStep(c) /\ UNCHANGED countVars) \/ UNCHANGED <<vars, countVars>>
       PROVE  Goal
  <2>1. sheet' = sheet /\ lines' = lines /\ desk' = desk
    BY <1>12 DEF countVars
  <2>. QED  BY <1>7, <1>10, <2>1
<1>13. ASSUME Create(c)
       PROVE  Goal
  <2>1. sheet' = "draft" /\ lines' = lines /\ desk' = desk /\ desk[c] = IdleDesk
    BY <1>13 DEF Create, Free
  <2>2. e.pc = "idle"
    BY <1>7, <2>1 DEF d
  <2>. QED  BY <2>1, <2>2 DEF Goal, Phase, Posting, Snapping
<1>14. ASSUME BeginGenerate(c)
       PROVE  Goal
  <2>1. sheet = "draft" /\ sheet' = sheet /\ lines' = lines
        /\ \E zeros \in BOOLEAN : desk' = [desk EXCEPT ![c] = [IdleDesk EXCEPT !.pc = "clear", !.zeros = zeros]]
    BY <1>14 DEF BeginGenerate
  <2>2. \A zeros : [IdleDesk EXCEPT !.pc = "clear", !.zeros = zeros].pc = "clear"
    BY DEF IdleDesk
  <2>3. PICK zeros : desk' = [desk EXCEPT ![c] = [IdleDesk EXCEPT !.pc = "clear", !.zeros = zeros]]
    BY <2>1
  <2>4. e.pc = "clear"
    BY <1>7, <2>2, <2>3
  <2>. QED  BY <1>5, <2>1, <2>4
<1>15. ASSUME ClearPending(c) \/ ReadBalances(c) \/ ReadAggregate(c)
       PROVE  Goal
  <2>1. d.pc \in Snapping \cup {"clear"} /\ sheet' = sheet
    BY <1>15 DEF ClearPending, ReadBalances, ReadAggregate, Does, Snapping, d
  <2>2. e.pc \in Snapping
    <3>1. ASSUME ClearPending(c)
          PROVE  e.pc = "balances"
      <4>1. Turns(c, "balances")
        BY <3>1 DEF ClearPending
      <4>. QED  BY <1>7, <4>1
    <3>2. ASSUME ReadBalances(c)
          PROVE  e.pc \in {"aggregate", "insert"}
      <4>1. \E x : desk' = [desk EXCEPT ![c].pc = IF rows = <<>> THEN "aggregate" ELSE "insert", ![c].snap = x]
        BY <3>2, Zenon DEF ReadBalances
      <4>. QED  BY <1>1, <4>1 DEF d, e, DeskType, CountInv
    <3>3. ASSUME ReadAggregate(c)
          PROVE  e.pc = "insert"
      BY <1>1, <3>3 DEF ReadAggregate, d, e, DeskType, CountInv
    <3>. QED  BY <1>15, <3>1, <3>2, <3>3 DEF Snapping
  <2>3. sheet = "draft"
    BY <1>3, <2>1 DEF Phase
  <2>. QED  BY <1>5, <2>1, <2>2, <2>3 DEF Snapping
<1>16. ASSUME InsertLines(c)
       PROVE  Goal
  <2>1. d.pc = "insert" /\ sheet' = sheet /\ e.pc = "idle"
    BY <1>7, <1>16 DEF InsertLines, Does, d
  <2>2. sheet = "draft"
    BY <1>3, <2>1 DEF Phase, Snapping
  <2>. QED  BY <1>5, <2>1, <2>2
<1>17. ASSUME BeginRecord(c)
       PROVE  Goal
  <2>1. sheet \in {"in_progress", "pending_review"} /\ sheet' = sheet /\ lines' = lines
        /\ \E i \in Live, q \in 0..MaxQty :
             desk' = [desk EXCEPT ![c] = [IdleDesk EXCEPT !.pc = "record", !.line = i, !.qty = q]]
    BY <1>17 DEF BeginRecord
  <2>2. \A i, q : [IdleDesk EXCEPT !.pc = "record", !.line = i, !.qty = q].pc = "record"
    BY DEF IdleDesk
  <2>3. PICK i, q : desk' = [desk EXCEPT ![c] = [IdleDesk EXCEPT !.pc = "record", !.line = i, !.qty = q]]
    BY <2>1
  <2>4. e = [IdleDesk EXCEPT !.pc = "record", !.line = i, !.qty = q]
    BY <1>7, <2>3
  <2>5. e.pc = "record"
    BY <2>2, <2>4
  <2>. QED  BY <1>11, <2>1, <2>5 DEF Goal, Phase, Posting, Snapping
<1>18. ASSUME WriteRecord(c) \/ FlagForRecount(c)
       PROVE  Goal
  <2>1. sheet' = sheet /\ (Ends(c) \/ (desk' = desk /\ desk[c] = IdleDesk))
    BY <1>18 DEF WriteRecord, FlagForRecount, Free
  <2>2. e.pc = "idle"
    BY <1>7, <2>1 DEF d
  <2>3. LiveOf(lines') = LiveOf(lines)
    BY <1>9, <1>18, LinesKept
  <2>. QED  BY <1>4, <2>1, <2>2, <2>3 DEF Snapping
<1>19. ASSUME BeginMove(c)
       PROVE  Goal
  <2>1. sheet' = sheet /\ lines' = lines
        /\ \E to \in ALLOWED_TRANSITIONS[sheet] :
             desk' = [desk EXCEPT ![c] = [IdleDesk EXCEPT !.pc = IF to = "cancelled" THEN "write" ELSE "lines", !.to = to]]
    BY <1>19 DEF BeginMove
  <2>2. \A to, pc : /\ [IdleDesk EXCEPT !.pc = pc, !.to = to].pc = pc
                    /\ [IdleDesk EXCEPT !.pc = pc, !.to = to].to = to
    BY DEF IdleDesk
  <2>3. PICK to : desk' = [desk EXCEPT ![c] = [IdleDesk EXCEPT !.pc = IF to = "cancelled" THEN "write" ELSE "lines", !.to = to]]
    BY <2>1
  <2>4. e = [IdleDesk EXCEPT !.pc = IF to = "cancelled" THEN "write" ELSE "lines", !.to = to]
    BY <1>7, <2>3
  <2>5. e.pc = "lines" \/ (e.pc = "write" /\ e.to = "cancelled")
    BY <2>2, <2>4
  <2>. QED  BY <1>11, <2>1, <2>5 DEF Goal, Phase, Posting, Snapping
<1>20. ASSUME ReadLines(c)
       PROVE  Goal
  <2>. DEFINE ids == Ascending(Live)
              x == [d EXCEPT !.pc = "write"]
              y == [d EXCEPT !.pc = "post",
                      !.left = [j \in DOMAIN ids |-> [id |-> ids[j], lot |-> lines[ids[j]].lot,
                                                      variance |-> Variance(lines[ids[j]])]]]
  <2>1. /\ sheet' = sheet /\ lines' = lines /\ d.pc = "lines"
        /\ desk' = [desk EXCEPT ![c] = CASE d.to = "in_progress" -> IF Live = {} THEN IdleDesk ELSE x
                                         [] d.to = "pending_review" -> IF Uncleared # {} THEN IdleDesk ELSE x
                                         [] OTHER -> y]
    BY <1>1, <1>20 DEF ReadLines, Does, d, CountInv
  <2>2. x.pc = "write" /\ x.to = d.to
    BY <1>1 DEF DeskType
  <2>3. y.pc = "post" /\ y.left = [j \in DOMAIN ids |-> [id |-> ids[j], lot |-> lines[ids[j]].lot,
                                                         variance |-> Variance(lines[ids[j]])]]
    BY <1>1 DEF DeskType
  <2>4. e = IF d.to = "in_progress" THEN IF Live = {} THEN IdleDesk ELSE x
            ELSE IF d.to = "pending_review" THEN IF Uncleared # {} THEN IdleDesk ELSE x
            ELSE y
    BY <1>7, <2>1
  <2>5. ASSUME e = IdleDesk
        PROVE  Goal
    BY <1>4, <1>7, <2>1, <2>5
  <2>6. ASSUME e = x /\ (d.to = "in_progress" => Live # {})
        PROVE  Goal
    <3>. HIDE DEF x, y
    <3>1. e.pc = "write" /\ e.to = d.to
      BY <2>2, <2>6
    <3>. QED  BY <1>2, <1>11, <2>1, <2>6, <3>1 DEF Goal, Phase, Posting, Snapping
  <2>7. CASE e = y
    <3>1. e.pc = "post" /\ \A j \in 1..Len(y.left) : y.left[j].id \in Live /\ y.left[j].lot = lines[y.left[j].id].lot
      BY <2>3, <2>7, LeftLists
    <3>. HIDE DEF x, y, ids
    <3>2. \A j \in 1..Len(e.left) : e.left[j].id \in LiveOf(lines') /\ e.left[j].lot = lines'[e.left[j].id].lot
      BY <1>2, <2>1, <2>7, <3>1
    <3>. QED  BY <1>11, <2>1, <3>1, <3>2 DEF Goal, Phase, Posting, Snapping
  <2>. HIDE DEF x, y
  <2>. QED  BY <2>4, <2>5, <2>6, <2>7
<1>21. ASSUME WriteStatus(c)
       PROVE  Goal
  <2>1. /\ d.pc \in {"write", "post"} /\ sheet' = d.to /\ lines' = lines /\ e.pc = "idle"
    BY <1>7, <1>21 DEF WriteStatus, Does, d
  <2>2. d.to \in ALLOWED_TRANSITIONS[sheet] /\ sheet \in SheetStatus /\ (d.pc = "write" => d.to # "approved") /\ (d.pc = "post" => d.to = "approved")
    BY <1>1, <2>1 DEF DeskOK, Posting
  <2>3. (d.to = "approved" => sheet = "pending_review") /\ (d.to = "pending_review" => sheet = "in_progress")
    BY <2>2, Allowed
  <2>4. d.to \in {"in_progress", "pending_review", "approved"} => LiveOf(lines) # {}
    BY <1>3, <2>1, <2>2, <2>3 DEF Phase
  <2>. QED  BY <2>1, <2>4 DEF Goal, Phase, Posting, Snapping
<1>22. ASSUME PostVariance(c)
       PROVE  Goal
  <2>1. d.pc = "post" /\ d.left # <<>> /\ sheet' = sheet /\ lines' = lines
    BY <1>22 DEF PostVariance, Does, d
  <2>2. \/ Turns(c, "stamp") \/ NextLine(c)
        \/ Head(d.left).variance # 0 /\ Turns(c, "adjusting")
    BY <1>22 DEF PostVariance, d
  <2>3. Head(d.left) = d.left[1]
    BY <1>1
  <2>. QED  BY <1>6, <1>7, <1>8, <2>1, <2>2, <2>3 DEF Posting
<1>23. ASSUME SkipLine(c) \/ StampLine(c)
       PROVE  Goal
  <2>1. d.pc \in {"adjusting", "stamp"} /\ sheet' = sheet /\ NextLine(c)
    BY <1>23 DEF SkipLine, StampLine, Does, d
  <2>2. d.left # <<>>
    BY <1>1, <2>1 DEF Ready
  <2>3. Kept(lines, lines')
    BY <1>8, <1>23, LinesKept DEF SkipLine
  <2>. QED  BY <1>6, <1>7, <2>1, <2>2, <2>3 DEF Posting
<1>24. ASSUME PostedLine(c)
       PROVE  Goal
  <2>1. d.pc = "adjusting" /\ sheet' = sheet /\ lines' = lines /\ Turns(c, "stamp")
    BY <1>24 DEF PostedLine, Does, d
  <2>. QED  BY <1>6, <1>7, <1>8, <2>1 DEF Posting
<1>25. ~RequestFails(c)
  BY CountFacts DEF RequestFails, CountInv, StockInv, TypeOK
<1>. QED  BY <1>12, <1>13, <1>14, <1>15, <1>16, <1>17, <1>18, <1>19, <1>20, <1>21, <1>22, <1>23, <1>24, <1>25, Zenon
     DEF CountStep, Goal, e

(* A call begun since makes the lines older than the last call; a call that *)
(* a line came after is over, unless it is the adjustment of an approval.   *)
LEMMA StockDates ==
  ASSUME CountInv, LedgerInv, NEW c \in Callers, StockStep(c), count.faults = 0, count'.faults = 0,
         NEW ls, \A i \in DOMAIN ls : ls[i].after \in Nat, Dated(desk[c], todo[c], ls, count.calls)
  PROVE  \/ desk[c].pc = "idle" /\ \A i \in DOMAIN ls : ls[i].after <= count'.calls /\ ls[i].after # count'.calls
         \/ /\ desk[c].pc = "adjusting" /\ count' = count
            /\ Resolves(c) \/ InsertRow(c) \/ SetRow(c) \/ WriteAgg(c)
<1>1. count \in [calls : Nat, faults : Nat, made : Nat, adjusted : BOOLEAN] /\ count.calls \in Nat
  BY DEF CountInv, StockInv, TypeOK
<1>2. Occupied(desk[c], todo[c]) /\ IdleDesk.pc = "idle"
  BY DEF LedgerInv, IdleDesk
<1>3. \A i \in DOMAIN ls : ls[i].after \in Nat /\ ls[i].after <= count.calls
                           /\ (desk[c].pc = "idle" /\ todo[c] # <<>> => ls[i].after # count.calls)
  BY DEF Dated
<1>4. ASSUME desk[c] = IdleDesk, Starts(c)
      PROVE  count'.calls = count.calls + 1
  <2>1. ASSUME NEW kind, NEW list, NEW made, BeginMaking(c, kind, list, made)
        PROVE  count'.calls = count.calls + 1
    BY <1>1, <2>1 DEF BeginMaking
  <2>. QED  BY <1>4, <2>1, Zenon DEF Starts, Produce, Pick, Reserve, Release, Adjust, SetQuantity, Move, Sweep, UpdateStatus, Begin
<1>5. ASSUME Resolves(c)
      PROVE  count' = count /\ todo[c] # <<>>
  BY <1>5 DEF Resolves, ShipRead, ShipResolve, AdjustResolve, MoveResolve, LookupRow, QuarantineRow, PutRow, Doing
<1>6. ASSUME Writes(c)
      PROVE  count' = count /\ todo[c] # <<>>
  BY <1>6 DEF Writes, InsertRow, SetRow, WriteAgg, Increment, ExpireLot, PostEntry, Doing
<1>7. ~CutShort(c)
  BY <1>1 DEF CutShort
<1>8. CASE desk[c] = IdleDesk /\ Starts(c)
  <2>1. count'.calls = count.calls + 1
    BY <1>4, <1>8
  <2>. QED  BY <1>1, <1>2, <1>3, <1>8, <2>1
<1>9. CASE Resolves(c) \/ (desk[c] = IdleDesk /\ Writes(c)) \/ (Does(c, "adjusting") /\ (InsertRow(c) \/ SetRow(c) \/ WriteAgg(c)))
  <2>1. count' = count /\ todo[c] # <<>>
    BY <1>5, <1>6, <1>9 DEF Writes
  <2>2. desk[c].pc = "idle" \/ desk[c].pc = "adjusting"
    BY <1>2, <2>1 DEF Occupied
  <2>3. CASE desk[c].pc = "idle"
    BY <1>3, <2>1, <2>3
  <2>4. CASE desk[c].pc = "adjusting"
    BY <1>2, <1>9, <2>1, <2>4
  <2>. QED  BY <2>2, <2>3, <2>4
<1>. QED  BY <1>7, <1>8, <1>9 DEF StockStep

(* No step about the count is a call of stock.                              *)
LEMMA CountDates ==
  ASSUME CountInv, LedgerInv, NEW c \in Callers, CountStep(c), count.faults = 0, count'.faults = 0
  PROVE  count'.calls = count.calls /\ (desk'[c].pc = "idle" => todo'[c] = <<>>)
<1>1. count \in [calls : Nat, faults : Nat, made : Nat, adjusted : BOOLEAN] /\ desk[c] \in DeskType
  BY DEF CountInv, StockInv, TypeOK
<1>2. Occupied(desk[c], todo[c]) /\ IdleDesk.pc = "idle"
  BY DEF LedgerInv, IdleDesk
<1>3. ASSUME todo[c] = <<>>, UNCHANGED vars
      PROVE  count'.calls = count.calls /\ (desk'[c].pc = "idle" => todo'[c] = <<>>)
  BY <1>3 DEF vars
<1>4. ~RequestFails(c)
  BY <1>1 DEF RequestFails
<1>5. /\ \A pc : Turns(c, pc) => desk'[c].pc = pc
      /\ NextLine(c) => desk'[c].pc = "post"
  BY DeskMoves
<1>6. CASE PostVariance(c)
  <2>1. count'.calls = count.calls
    BY <1>1, <1>6 DEF PostVariance
  <2>2. Turns(c, "stamp") \/ Turns(c, "adjusting") \/ NextLine(c)
    BY <1>6, Zenon DEF PostVariance
  <2>. QED  BY <1>5, <2>1, <2>2
<1>7. CASE PostedLine(c)
  <2>1. count' = count /\ Turns(c, "stamp")
    BY <1>7 DEF PostedLine, PostEntry
  <2>. QED  BY <1>5, <2>1
<1>8. CASE SkipLine(c)
  BY <1>3, <1>8 DEF SkipLine
<1>9. CASE Create(c) \/ BeginGenerate(c) \/ BeginRecord(c) \/ FlagForRecount(c) \/ BeginMove(c)
  <2>1. todo[c] = <<>> /\ UNCHANGED vars
    BY <1>9 DEF Create, BeginGenerate, BeginRecord, FlagForRecount, BeginMove, Free, IsIdle
  <2>. QED  BY <1>3, <2>1
<1>10. CASE ClearPending(c) \/ ReadBalances(c) \/ ReadAggregate(c) \/ InsertLines(c) \/ WriteRecord(c) \/ ReadLines(c)
            \/ WriteStatus(c) \/ StampLine(c)
  <2>1. desk[c].pc # "idle" /\ desk[c].pc # "adjusting" /\ UNCHANGED vars
    BY <1>10 DEF ClearPending, ReadBalances, ReadAggregate, InsertLines, WriteRecord, ReadLines, WriteStatus, StampLine, Does
  <2>. QED  BY <1>2, <1>3, <2>1 DEF Occupied
<1>. QED  BY <1>4, <1>6, <1>7, <1>8, <1>9, <1>10 DEF CountStep

(* What a step about the count does to the lines.                           *)
LEMMA LinesStep ==
  ASSUME CountInv, NEW c \in Callers, CountStep(c)
  PROVE  \/ Kept(lines, lines')
         \/ /\ ClearPending(c) /\ DOMAIN lines' = DOMAIN lines /\ \A i \in DOMAIN lines : lines'[i].after = lines[i].after
            /\ LiveOf(lines') \subseteq LiveOf(lines) /\ \A i \in LiveOf(lines') : lines'[i] = lines[i]
         \/ InsertLines(c)
<1>1. \A i \in DOMAIN lines : lines[i] \in LineType
  BY LineOfType
<1>2. lines' = lines => Kept(lines, lines')
  BY DEF Kept
<1>3. CASE ClearPending(c)
  <2>. DEFINE x(i) == [lines[i] EXCEPT !.status = "deleted"]
  <2>1. \A i \in DOMAIN lines : x(i).status = "deleted" /\ x(i).after = lines[i].after
    BY <1>1 DEF LineType
  <2>2. lines' = [i \in DOMAIN lines |-> IF lines[i].status = "pending" THEN x(i) ELSE lines[i]]
    BY <1>3 DEF ClearPending
  <2>. HIDE DEF x
  <2>3. DOMAIN lines' = DOMAIN lines /\ \A i \in DOMAIN lines : lines'[i] = IF lines[i].status = "pending" THEN x(i) ELSE lines[i]
    BY <2>2
  <2>. QED  BY <1>3, <2>1, <2>3 DEF LiveOf
<1>4. CASE WriteRecord(c) \/ FlagForRecount(c) \/ StampLine(c)
  BY <1>4, LinesKept, Zenon
<1>5. CASE Create(c) \/ BeginGenerate(c) \/ ReadBalances(c) \/ ReadAggregate(c) \/ BeginRecord(c) \/ BeginMove(c) \/ ReadLines(c)
           \/ WriteStatus(c) \/ PostVariance(c) \/ SkipLine(c) \/ PostedLine(c) \/ RequestFails(c)
  BY <1>2, <1>5, Zenon
  DEF Create, BeginGenerate, ReadBalances, ReadAggregate, BeginRecord, BeginMove, ReadLines, WriteStatus,
                    PostVariance, SkipLine, PostedLine, RequestFails
<1>. QED  BY <1>3, <1>4, <1>5 DEF CountStep

(* A snapshot goes behind the lines there are.                              *)
LEMMA SnapGoesIn ==
  ASSUME CountInv, PostInv, NEW c \in Callers, InsertLines(c)
  PROVE  LET s == desk[c].snap IN
         /\ \A i \in DOMAIN lines' : \/ i \in DOMAIN lines /\ lines'[i] = lines[i]
                                     \/ \E j \in DOMAIN s : lines'[i] = s[j]
         /\ \A j \in LiveOf(s) : \E i \in LiveOf(lines') : lines'[i] = s[j]
<1>. DEFINE s == desk[c].snap
            n == Len(lines)
            m == Len(s)
<1>1. /\ lines \in Seq(LineType) /\ s \in Seq(LineType) /\ lines' = lines \o s
      /\ desk[c].pc = "insert" /\ DeskOK(desk[c], sheet, lines, posts, count.faults)
  BY CountFacts DEF InsertLines, Does, PostInv
<1>2. DOMAIN lines = 1..n /\ DOMAIN s = 1..m
  BY <1>1, LenProperties
<1>. HIDE DEF s, n, m
<1>3. /\ n \in Nat /\ m \in Nat /\ DOMAIN lines' = 1..(n + m)
      /\ \A i \in 1..n : lines'[i] = lines[i]
      /\ \A i \in 1..m : lines'[n + i] = s[i]
      /\ \A i \in 1..(n + m) : i \in 1..n \/ (i - n \in 1..m /\ n + (i - n) = i)
  BY <1>1, Joined DEF n, m
<1>4. ASSUME NEW i \in DOMAIN lines'
      PROVE  (i \in DOMAIN lines /\ lines'[i] = lines[i]) \/ \E j \in DOMAIN s : lines'[i] = s[j]
  BY <1>2, <1>3
<1>5. ASSUME NEW j \in LiveOf(s)
      PROVE  \E i \in LiveOf(lines') : lines'[i] = s[j]
  <2>1. j \in 1..m /\ s[j].status # "deleted"
    BY <1>2 DEF LiveOf
  <2>2. n + j \in DOMAIN lines' /\ lines'[n + j] = s[j]
    BY <1>3, <2>1
  <2>. QED  BY <2>1, <2>2 DEF LiveOf
<1>. QED  BY <1>4, <1>5 DEF s

LEMMA DatedStep ==
  ASSUME CountInv, PostInv, LedgerInv, NEW c \in Callers, count.faults = 0, count'.faults = 0,
         CountStep(c) \/ (StockStep(c) /\ UNCHANGED countVars) \/ UNCHANGED <<vars, countVars>>,
         Dated(desk[c], todo[c], lines, count.calls), Snapped(desk[c], rows, agg, count.calls)
  PROVE  Dated(desk'[c], todo'[c], lines', count'.calls)
<1>1. count.calls \in Nat /\ \A i \in DOMAIN lines : lines[i].after \in Nat /\ lines[i].after <= count.calls
  BY LineOfType DEF CountInv, StockInv, TypeOK, LineType, Dated
<1>2. CASE UNCHANGED <<vars, countVars>>
  BY <1>2 DEF vars, countVars
<1>3. CASE StockStep(c) /\ UNCHANGED countVars
  <2>1. desk' = desk /\ lines' = lines
    BY <1>3 DEF countVars
  <2>2. \/ desk[c].pc = "idle" /\ \A i \in DOMAIN lines : lines[i].after <= count'.calls /\ lines[i].after # count'.calls
        \/ desk[c].pc = "adjusting" /\ count' = count
    BY <1>1, <1>3, StockDates
  <2>. QED  BY <1>1, <2>1, <2>2 DEF Dated
<1>4. CASE CountStep(c)
  <2>1. count'.calls = count.calls /\ (desk'[c].pc = "idle" => todo'[c] = <<>>)
    BY <1>4, CountDates
  <2>2. \A i \in DOMAIN lines' : lines'[i].after <= count.calls
    <3>1. CASE Kept(lines, lines') \/ (DOMAIN lines' = DOMAIN lines /\ \A i \in DOMAIN lines : lines'[i].after = lines[i].after)
      BY <1>1, <3>1 DEF Kept
    <3>2. CASE InsertLines(c)
      <4>. DEFINE s == desk[c].snap
      <4>1. \A i \in DOMAIN lines' : (i \in DOMAIN lines /\ lines'[i] = lines[i]) \/ \E j \in DOMAIN s : lines'[i] = s[j]
        BY <3>2, SnapGoesIn
      <4>2. \A j \in DOMAIN s : s[j].after = count.calls
        BY <3>2 DEF InsertLines, Does, Snapped
      <4>. HIDE DEF s
      <4>. QED  BY <1>1, <4>1, <4>2
    <3>. QED  BY <1>4, <3>1, <3>2, LinesStep
  <2>. QED  BY <2>1, <2>2 DEF Dated
<1>. QED  BY <1>2, <1>3, <1>4

LEMMA KeptLines ==
  ASSUME NEW ls, NEW t, Kept(ls, t), NEW rs, NEW a, NEW n
  PROVE  /\ Recent(t, n) <=> Recent(ls, n)
         /\ Once(t) <=> Once(ls)
         /\ Accounts(rs, t) <=> Accounts(rs, ls)
         /\ \A i \in LiveOf(ls) : /\ Placed(rs, t[i]) <=> Placed(rs, ls[i])
                                  /\ Shows(rs, a, t[i]) <=> Shows(rs, a, ls[i])
                                  /\ t[i].after = ls[i].after
<1>1. LiveOf(t) = LiveOf(ls)
      /\ \A i \in LiveOf(ls) : t[i].lot = ls[i].lot /\ t[i].system = ls[i].system /\ t[i].row = ls[i].row /\ t[i].after = ls[i].after
  BY DEF Kept, LiveOf
<1>. QED  BY <1>1 DEF Recent, Once, Accounts, Placed, Shows

LEMMA KeptDrawn ==
  ASSUME NEW ls, NEW t, Kept(ls, t), NEW rs, NEW a, NEW n, NEW d, NEW e, Drawn(d, ls, rs, a, n),
         d.pc \in Snapping => e.pc \in Snapping
  PROVE  Drawn(e, t, rs, a, n)
<1>1. LiveOf(t) = LiveOf(ls)
  BY DEF Kept
<1>. QED  BY <1>1, KeptLines DEF Drawn

LEMMA SnapDrawn ==
  ASSUME CountInv, NEW c \in Callers, ReadBalances(c)
  PROVE  Snapped(desk'[c], rows, agg, count.calls) /\ desk'[c].pc \in Snapping
<1>. DEFINE d == desk[c]
            e == desk'[c]
            S == {r \in DOMAIN rows : rows[r].qty > 0 \/ d.zeros}
            ids == Ascending(S)
            n == Cardinality(S)
            s == [i \in DOMAIN ids |-> Line(rows[ids[i]].lot, ids[i], rows[ids[i]].qty)]
<1>1. /\ d \in DeskType /\ desk \in [Callers -> DeskType] /\ TypeOK /\ DOMAIN rows \in SUBSET Nat /\ IsFiniteSet(DOMAIN rows)
      /\ DOMAIN rows = 1..Len(rows)
  BY RowsFinite DEF CountInv, StockInv
<1>2. IsFiniteSet(S) /\ S \in SUBSET Nat
  BY <1>1, FS_Subset
<1>3. n \in Nat /\ DOMAIN ids = 1..n /\ ids \in [1..n -> S] /\ \A x \in S : \E i \in 1..n : ids[i] = x
  BY <1>2, AscendingLists, Zenon DEF Listing
<1>4. e.pc = (IF rows = <<>> THEN "aggregate" ELSE "insert") /\ e.snap = s
  <2>. HIDE DEF s, e
  <2>1. desk' = [desk EXCEPT ![c].pc = IF rows = <<>> THEN "aggregate" ELSE "insert", ![c].snap = s]
    BY DEF ReadBalances, s
  <2>. QED  BY <1>1, <2>1 DEF DeskType, e
<1>. HIDE DEF ids, n, e
<1>5. DOMAIN s = 1..n /\ \A i \in 1..n : s[i] = Line(rows[ids[i]].lot, ids[i], rows[ids[i]].qty)
  BY <1>3
<1>6. ASSUME NEW i \in 1..n
      PROVE  /\ s[i].after = count.calls /\ s[i].row = ids[i] /\ s[i].lot = rows[ids[i]].lot
             /\ s[i].system = rows[ids[i]].qty /\ s[i].status = "pending"
             /\ ids[i] \in DOMAIN rows /\ ids[i] # 0
  <2>1. ids[i] \in DOMAIN rows
    BY <1>3
  <2>2. ids[i] # 0
    <3>1. 0 \notin DOMAIN rows
      BY <1>1
    <3>. QED  BY <2>1, <3>1
  <2>. QED  BY <1>5, <2>1, <2>2 DEF Line
<1>. HIDE DEF s
<1>7. \A i \in DOMAIN s : s[i].after = count.calls /\ Shows(rows, agg, s[i])
  BY <1>5, <1>6 DEF Shows, Placed
<1>8. Accounts(rows, s)
  <2>. SUFFICES ASSUME NEW r \in DOMAIN rows, rows[r].qty > 0
                PROVE  \E i \in LiveOf(s) : s[i].row = r
    BY DEF Accounts
  <2>1. r \in S
    OBVIOUS
  <2>2. PICK i \in 1..n : ids[i] = r
    BY <1>3, <2>1
  <2>. QED  BY <1>5, <1>6, <2>2 DEF LiveOf
<1>. QED  BY <1>4, <1>7, <1>8 DEF Snapped, Snapping, e

LEMMA SnapStep ==
  ASSUME CountInv, CountInv', PostInv, LedgerInv, NEW c \in Callers, count.faults = 0, count'.faults = 0,
         CountStep(c) \/ (StockStep(c) /\ UNCHANGED countVars) \/ UNCHANGED <<vars, countVars>>,
         Phase(desk[c], sheet, lines), Dated(desk[c], todo[c], lines, count.calls),
         Snapped(desk[c], rows, agg, count.calls),
         sheet = "approved" \/ Posting(desk[c]) \/ Drawn(desk[c], lines, rows, agg, count.calls)
  PROVE  /\ Snapped(desk'[c], rows', agg', count'.calls)
         /\ sheet' = "approved" \/ Posting(desk'[c]) \/ Drawn(desk'[c], lines', rows', agg', count'.calls)
<1>. DEFINE d == desk[c]
            e == desk'[c]
            n == count.calls
            Goal == /\ Snapped(e, rows', agg', count'.calls)
                    /\ sheet' = "approved" \/ Posting(e) \/ Drawn(e, lines', rows', agg', count'.calls)
<1>1. /\ d \in DeskType /\ DeskOK(d, sheet, lines, posts, 0)
      /\ \A i \in DOMAIN lines : lines[i] \in LineType /\ lines[i].after \in Nat
      /\ sheet \in SheetStatus \cup {"none"}
  <2>1. d \in DeskType /\ DeskOK(d, sheet, lines, posts, 0) /\ sheet \in SheetStatus \cup {"none"}
    BY CountFacts DEF PostInv
  <2>2. \A i \in DOMAIN lines : lines[i] \in LineType
    BY LineOfType
  <2>. QED  BY <2>1, <2>2 DEF LineType
<1>2. Phase(d, sheet, lines) /\ Snapped(d, rows, agg, n) /\ (sheet = "approved" \/ Posting(d) \/ Drawn(d, lines, rows, agg, n))
  OBVIOUS
<1>3. /\ \A pc : Turns(c, pc) => e.pc = pc
      /\ NextLine(c) => e.pc = "post"
      /\ Ends(c) => e.pc = "idle"
      /\ \A x : desk' = [desk EXCEPT ![c] = x] => e = x
      /\ desk' = desk => e = d
      /\ IdleDesk.pc = "idle"
  BY DeskMoves
<1>. HIDE DEF d, e, n, Goal
<1>4. lines' = lines => Kept(lines, lines')
  BY DEF Kept
<1>5. UNCHANGED vars => rows' = rows /\ agg' = agg /\ count'.calls = n
  BY DEF vars, n
<1>6. ASSUME UNCHANGED vars, Kept(lines, lines'), e.pc \notin {"aggregate", "insert"}, sheet # "approved", ~Posting(d),
             d.pc \in Snapping => e.pc \in Snapping
      PROVE  Goal
  <2>1. Drawn(e, lines', rows, agg, n)
    BY <1>2, <1>6, KeptDrawn
  <2>. QED  BY <1>5, <1>6, <2>1 DEF Goal, Snapped
<1>7. ASSUME Posting(e)
      PROVE  Goal
  BY <1>7 DEF Goal, Snapped, Posting
<1>8. ASSUME sheet' = "approved", e.pc = "idle"
      PROVE  Goal
  BY <1>8 DEF Goal, Snapped
<1>9. ASSUME UNCHANGED <<vars, countVars>>
      PROVE  Goal
  <2>1. rows' = rows /\ agg' = agg /\ count'.calls = n /\ sheet' = sheet /\ lines' = lines /\ e = d
    BY <1>3, <1>9 DEF vars, countVars, n
  <2>. QED  BY <1>2, <2>1 DEF Goal
<1>10. ASSUME StockStep(c), UNCHANGED countVars
       PROVE  Goal
  <2>1. e = d /\ lines' = lines
    BY <1>3, <1>10 DEF countVars
  <2>2. \/ d.pc = "idle" /\ \A i \in DOMAIN lines : lines[i].after # count'.calls
        \/ d.pc = "adjusting"
    BY <1>1, <1>10, StockDates DEF d
  <2>3. ASSUME d.pc = "idle", \A i \in DOMAIN lines : lines[i].after # count'.calls
        PROVE  Goal
    <3>1. \A i \in LiveOf(lines) : lines[i].after # count'.calls
      BY <2>3 DEF LiveOf
    <3>2. Drawn(e, lines', rows', agg', count'.calls)
      BY <2>1, <3>1 DEF Drawn, Recent
    <3>. QED  BY <2>1, <2>3, <3>2 DEF Goal, Snapped
  <2>4. ASSUME d.pc = "adjusting"
        PROVE  Goal
    BY <1>7, <2>1, <2>4 DEF Posting
  <2>. QED  BY <2>2, <2>3, <2>4
<1>11. ASSUME Create(c) \/ BeginGenerate(c) \/ BeginRecord(c) \/ BeginMove(c)
       PROVE  Goal
  <2>1. UNCHANGED vars /\ lines' = lines /\ d.pc = "idle" /\ sheet # "approved"
    <3>1. UNCHANGED vars /\ lines' = lines /\ d.pc = "idle"
      BY <1>3, <1>11 DEF Create, BeginGenerate, BeginRecord, BeginMove, Free, d
    <3>2. ASSUME BeginMove(c)
          PROVE  sheet # "approved"
      <4>1. sheet # "none" /\ ALLOWED_TRANSITIONS[sheet] # {}
        BY <3>2 DEF BeginMove
      <4>. QED  BY <1>1, <4>1, Allowed
    <3>. QED  BY <1>11, <3>1, <3>2 DEF Create, BeginGenerate, BeginRecord
  <2>2. e.pc \in {"idle", "clear", "record", "write", "lines"}
    <3>1. CASE Create(c)
      BY <1>3, <2>1, <3>1 DEF Create
    <3>2. CASE BeginGenerate(c)
      <4>1. PICK z : desk' = [desk EXCEPT ![c] = [IdleDesk EXCEPT !.pc = "clear", !.zeros = z]]
        BY <3>2 DEF BeginGenerate
      <4>2. e = [IdleDesk EXCEPT !.pc = "clear", !.zeros = z]
        BY <1>3, <4>1
      <4>. QED  BY <4>2 DEF IdleDesk
    <3>3. CASE BeginRecord(c)
      <4>1. PICK i, q : desk' = [desk EXCEPT ![c] = [IdleDesk EXCEPT !.pc = "record", !.line = i, !.qty = q]]
        BY <3>3 DEF BeginRecord
      <4>2. e = [IdleDesk EXCEPT !.pc = "record", !.line = i, !.qty = q]
        BY <1>3, <4>1
      <4>. QED  BY <4>2 DEF IdleDesk
    <3>4. CASE BeginMove(c)
      <4>1. PICK to : desk' = [desk EXCEPT ![c] = [IdleDesk EXCEPT !.pc = IF to = "cancelled" THEN "write" ELSE "lines", !.to = to]]
        BY <3>4 DEF BeginMove
      <4>2. e = [IdleDesk EXCEPT !.pc = IF to = "cancelled" THEN "write" ELSE "lines", !.to = to]
        BY <1>3, <4>1
      <4>. QED  BY <4>2 DEF IdleDesk
    <3>. QED  BY <1>11, <3>1, <3>2, <3>3, <3>4
  <2>. QED  BY <1>4, <1>6, <2>1, <2>2 DEF Posting, Snapping
<1>12. ASSUME ClearPending(c)
       PROVE  Goal
  <2>1. UNCHANGED vars /\ e.pc = "balances" /\ d.pc = "clear" /\ sheet = "draft"
    BY <1>2, <1>3, <1>12 DEF ClearPending, Does, d, Phase
  <2>2. \A i \in LiveOf(lines) : lines[i].after = n => Shows(rows, agg, lines[i])
    BY <1>2, <2>1 DEF Drawn, Posting
  <2>3. LiveOf(lines') \subseteq LiveOf(lines) /\ \A i \in LiveOf(lines') : lines'[i] = lines[i]
    <3>. DEFINE x(i) == [lines[i] EXCEPT !.status = "deleted"]
    <3>1. \A i \in DOMAIN lines : x(i).status = "deleted"
      BY <1>1 DEF LineType
    <3>2. lines' = [i \in DOMAIN lines |-> IF lines[i].status = "pending" THEN x(i) ELSE lines[i]]
      BY <1>12 DEF ClearPending
    <3>. HIDE DEF x
    <3>3. DOMAIN lines' = DOMAIN lines /\ \A i \in DOMAIN lines : lines'[i] = IF lines[i].status = "pending" THEN x(i) ELSE lines[i]
      BY <3>2
    <3>. QED  BY <3>1, <3>3 DEF LiveOf
  <2>4. Drawn(e, lines', rows, agg, n)
    BY <2>1, <2>2, <2>3 DEF Drawn, Snapping
  <2>. QED  BY <1>5, <2>1, <2>4 DEF Goal, Snapped
<1>13. ASSUME ReadBalances(c)
       PROVE  Goal
  <2>1. UNCHANGED vars /\ d.pc = "balances" /\ lines' = lines
    BY <1>13 DEF ReadBalances, Does, d
  <2>2. Snapped(e, rows, agg, n) /\ e.pc \in Snapping
    BY <1>13, SnapDrawn DEF e, n
  <2>3. sheet = "draft"
    BY <1>2, <2>1 DEF Phase, Snapping
  <2>4. Drawn(e, lines', rows, agg, n)
    BY <1>2, <1>4, <2>1, <2>2, <2>3, KeptDrawn DEF Posting
  <2>. QED  BY <1>5, <2>1, <2>2, <2>4 DEF Goal
<1>14. ASSUME ReadAggregate(c)
       PROVE  Goal
  <2>1. UNCHANGED vars /\ d.pc = "aggregate" /\ lines' = lines /\ rows = <<>>
    BY <1>2, <1>14 DEF ReadAggregate, Does, d, Snapped
  <2>. DEFINE x == Line(NoLot, 0, agg)
  <2>2. e.pc = "insert" /\ (e.snap = <<x>> \/ e.snap = <<>>)
    <3>1. desk \in [Callers -> DeskType]
      BY DEF CountInv
    <3>. QED  BY <1>14, <3>1 DEF ReadAggregate, DeskType, e
  <2>3. x.after = n /\ Shows(rows, agg, x)
    BY <2>1 DEF Line, Shows, Placed, n
  <2>. HIDE DEF x
  <2>4. \A i \in DOMAIN e.snap : e.snap[i] = x
    <3>1. DOMAIN <<>> = {} /\ DOMAIN <<x>> = {1} /\ <<x>>[1] = x
      <4>1. DOMAIN <<>> = {}
        BY EmptyList
      <4>. QED  BY <4>1
    <3>. QED  BY <2>2, <3>1
  <2>5. Accounts(rows, e.snap)
    <3>1. DOMAIN rows = {}
      BY <2>1, EmptyList
    <3>. QED  BY <3>1 DEF Accounts
  <2>6. Snapped(e, rows, agg, n)
    BY <2>2, <2>3, <2>4, <2>5 DEF Snapped
  <2>7. sheet = "draft"
    BY <1>2, <2>1 DEF Phase, Snapping
  <2>8. Drawn(e, lines', rows, agg, n)
    BY <1>2, <1>4, <2>1, <2>2, <2>7, KeptDrawn DEF Posting, Snapping
  <2>. QED  BY <1>5, <2>1, <2>6, <2>8 DEF Goal
<1>15. ASSUME InsertLines(c)
       PROVE  Goal
  <2>. DEFINE s == d.snap
  <2>1. UNCHANGED vars /\ d.pc = "insert" /\ e.pc = "idle"
    BY <1>3, <1>15 DEF InsertLines, Does, d
  <2>2. sheet = "draft" /\ (\A i \in DOMAIN s : s[i].after = n /\ Shows(rows, agg, s[i])) /\ Accounts(rows, s)
    BY <1>2, <2>1 DEF Phase, Snapped, Snapping
  <2>3. \A i \in LiveOf(lines) : lines[i].after = n => Shows(rows, agg, lines[i])
    BY <1>2, <2>1, <2>2 DEF Drawn, Posting
  <2>4. /\ \A i \in DOMAIN lines' : (i \in DOMAIN lines /\ lines'[i] = lines[i]) \/ \E j \in DOMAIN s : lines'[i] = s[j]
        /\ \A j \in LiveOf(s) : \E i \in LiveOf(lines') : lines'[i] = s[j]
    BY <1>15, SnapGoesIn DEF d
  <2>. HIDE DEF s
  <2>5. ASSUME NEW i \in LiveOf(lines'), lines'[i].after = n
        PROVE  Shows(rows, agg, lines'[i])
    <3>1. i \in DOMAIN lines' /\ lines'[i].status # "deleted"
      BY DEF LiveOf
    <3>2. CASE i \in DOMAIN lines /\ lines'[i] = lines[i]
      BY <2>3, <2>5, <3>1, <3>2 DEF LiveOf
    <3>3. CASE \E j \in DOMAIN s : lines'[i] = s[j]
      BY <2>2, <3>3
    <3>. QED  BY <2>4, <3>1, <3>2, <3>3
  <2>6. Accounts(rows, lines')
    BY <2>2, <2>4 DEF Accounts
  <2>7. Drawn(e, lines', rows, agg, n)
    BY <2>5, <2>6 DEF Drawn
  <2>. QED  BY <1>5, <2>1, <2>7 DEF Goal, Snapped
<1>16. ASSUME WriteRecord(c)
       PROVE  Goal
  <2>1. UNCHANGED vars /\ d.pc = "record" /\ e.pc = "idle"
    BY <1>3, <1>16 DEF WriteRecord, Does, d
  <2>2. sheet # "approved" /\ Kept(lines, lines')
    BY <1>2, <1>16, <2>1, LinesKept DEF Phase
  <2>. QED  BY <1>6, <2>1, <2>2 DEF Posting, Snapping
<1>17. ASSUME FlagForRecount(c)
       PROVE  Goal
  <2>1. UNCHANGED vars /\ d.pc = "idle" /\ e.pc = "idle" /\ sheet' = sheet
    BY <1>3, <1>17 DEF FlagForRecount, Free, d
  <2>2. Kept(lines, lines')
    BY <1>17, LinesKept
  <2>. QED  BY <1>6, <1>8, <2>1, <2>2 DEF Posting, Snapping
<1>18. ASSUME ReadLines(c)
       PROVE  Goal
  <2>1. UNCHANGED vars /\ lines' = lines /\ d.pc = "lines"
    BY <1>18 DEF ReadLines, Does, d
  <2>2. sheet # "approved"
    BY <1>1, <2>1, Allowed DEF DeskOK
  <2>3. e.pc \in {"idle", "write", "post"}
    <3>1. desk \in [Callers -> DeskType]
      BY DEF CountInv
    <3>2. \A x : [d EXCEPT !.pc = "write"].pc = "write" /\ [d EXCEPT !.pc = "post", !.left = x].pc = "post"
      BY <1>1 DEF DeskType
    <3>3. \E x : desk' = [desk EXCEPT ![c] = IF d.to = "in_progress" THEN IF Live = {} THEN IdleDesk ELSE [d EXCEPT !.pc = "write"]
                                        ELSE IF d.to = "pending_review" THEN IF Uncleared # {} THEN IdleDesk ELSE [d EXCEPT !.pc = "write"]
                                        ELSE [d EXCEPT !.pc = "post", !.left = x]]
      BY <1>18, <3>1 DEF ReadLines, d
    <3>4. PICK x : desk' = [desk EXCEPT ![c] = IF d.to = "in_progress" THEN IF Live = {} THEN IdleDesk ELSE [d EXCEPT !.pc = "write"]
                                        ELSE IF d.to = "pending_review" THEN IF Uncleared # {} THEN IdleDesk ELSE [d EXCEPT !.pc = "write"]
                                        ELSE [d EXCEPT !.pc = "post", !.left = x]]
      BY <3>3
    <3>5. e \in {IdleDesk, [d EXCEPT !.pc = "write"], [d EXCEPT !.pc = "post", !.left = x]}
      BY <1>3, <3>4
    <3>. QED  BY <1>3, <3>2, <3>5
  <2>. QED  BY <1>4, <1>6, <1>7, <2>1, <2>2, <2>3 DEF Posting, Snapping
<1>19. ASSUME WriteStatus(c)
       PROVE  Goal
  <2>1. UNCHANGED vars /\ lines' = lines /\ d.pc \in {"write", "post"} /\ sheet' = d.to /\ e.pc = "idle"
    BY <1>3, <1>19 DEF WriteStatus, Does, d
  <2>2. sheet # "approved" /\ (d.pc = "post" => d.to = "approved")
    BY <1>1, <2>1, Allowed DEF DeskOK, Posting
  <2>. QED  BY <1>4, <1>6, <1>8, <2>1, <2>2 DEF Posting, Snapping
<1>20. ASSUME PostVariance(c) \/ SkipLine(c) \/ PostedLine(c) \/ StampLine(c)
       PROVE  Goal
  <2>1. Turns(c, "stamp") \/ Turns(c, "adjusting") \/ NextLine(c)
    BY <1>20, Zenon DEF PostVariance, SkipLine, PostedLine, StampLine
  <2>. QED  BY <1>3, <1>7, <2>1 DEF Posting
<1>21. ~RequestFails(c)
  BY CountFacts DEF RequestFails, CountInv, StockInv, TypeOK
<1>. QED  BY <1>9, <1>10, <1>11, <1>12, <1>13, <1>14, <1>15, <1>16, <1>17, <1>18, <1>19, <1>20, <1>21, Zenon
     DEF CountStep, Goal, e

LEMMA LineValues ==
  ASSUME CountInv
  PROVE  /\ \A i \in DOMAIN lines : /\ lines[i] \in LineType /\ lines[i].system \in Nat /\ posts[i] \in Nat /\ i \in DOMAIN posts
                                    /\ Value(lines[i], posts[i]) \in Nat /\ Values(lines, posts)[i] = Value(lines[i], posts[i])
                                    /\ Value(lines[i], 0) = lines[i].system
         /\ IsFiniteSet(DOMAIN lines)
         /\ \A l : LinesOf(lines, l) \in SUBSET DOMAIN lines /\ IsFiniteSet(LinesOf(lines, l)) /\ LineSum(lines, posts, l) \in Nat
<1>1. /\ DOMAIN lines = 1..Len(lines) /\ Len(lines) \in Nat /\ DOMAIN posts = 1..Len(lines)
      /\ \A i \in 1..Len(lines) : posts[i] \in Nat /\ lines[i] \in LineType
  BY LenProperties, ElementOfSeq DEF CountInv
<1>2. IsFiniteSet(DOMAIN lines)
  BY <1>1, FS_Interval
<1>3. ASSUME NEW i \in DOMAIN lines
      PROVE  /\ lines[i] \in LineType /\ lines[i].system \in Nat /\ posts[i] \in Nat /\ i \in DOMAIN posts
             /\ Value(lines[i], posts[i]) \in Nat /\ Values(lines, posts)[i] = Value(lines[i], posts[i])
             /\ Value(lines[i], 0) = lines[i].system
  <2>1. lines[i].system \in Nat /\ lines[i].counted \in Nat \cup {Uncounted}
    BY <1>1 DEF LineType
  <2>. QED  BY <1>1, <2>1 DEF Value, Values
<1>4. ASSUME NEW l
      PROVE  LinesOf(lines, l) \in SUBSET DOMAIN lines /\ IsFiniteSet(LinesOf(lines, l)) /\ LineSum(lines, posts, l) \in Nat
  <2>1. LinesOf(lines, l) \in SUBSET DOMAIN lines
    BY DEF LinesOf, LiveOf
  <2>2. IsFiniteSet(LinesOf(lines, l))
    BY <1>2, <2>1, FS_Subset
  <2>3. \A i \in LinesOf(lines, l) : Values(lines, posts)[i] \in Nat
    BY <1>3, <2>1
  <2>. QED  BY <2>1, <2>2, <2>3, TotalType DEF LineSum
<1>. QED  BY <1>2, <1>3, <1>4

LEMMA OffSame ==
  ASSUME NEW ls, NEW t, NEW ps, Kept(ls, t), NEW rs, NEW a, NEW m, NEW e,
         \A i \in LiveOf(ls) : t[i].counted = ls[i].counted,
         Off(rs, a, ls, ps, m, e)
  PROVE  Off(rs, a, t, ps, m, e)
<1>1. /\ LiveOf(t) = LiveOf(ls) /\ DOMAIN t = DOMAIN ls
      /\ \A i \in LiveOf(ls) : t[i].lot = ls[i].lot /\ t[i].system = ls[i].system
  BY DEF Kept, LiveOf
<1>2. \A i \in LiveOf(ls) : Value(t[i], ps[i]) = Value(ls[i], ps[i])
  BY <1>1 DEF Value
<1>3. ASSUME NEW l
      PROVE  LineSum(t, ps, l) = LineSum(ls, ps, l)
  <2>1. LinesOf(t, l) = LinesOf(ls, l)
    BY <1>1 DEF LinesOf
  <2>2. \A i \in LinesOf(ls, l) : Values(t, ps)[i] = Values(ls, ps)[i]
    BY <1>1, <1>2 DEF Values, LinesOf, LiveOf
  <2>. QED  BY <2>1, <2>2, TotalSame DEF LineSum
<1>. QED  BY <1>1, <1>2, <1>3 DEF Off

LEMMA OffNothing ==
  ASSUME NEW rs, NEW a, NEW ls, NEW ps, NEW m, NEW k, Off(rs, a, ls, ps, m, 0)
  PROVE  Off(rs, a, ls, ps, k, 0)
BY DEF Off

(* Before anything is posted the lines show the stock they were taken from. *)
LEMMA OffTaken ==
  ASSUME CountInv, \A i \in DOMAIN lines : posts[i] = 0,
         \A i \in LiveOf(lines) : Shows(rows, agg, lines[i]),
         Accounts(rows, lines), Once(lines)
  PROVE  Off(rows, agg, lines, posts, NoLot, 0)
<1>1. \A i \in LiveOf(lines) : /\ i \in DOMAIN lines /\ Value(lines[i], posts[i]) = lines[i].system
                               /\ lines[i].system \in Nat /\ Values(lines, posts)[i] = lines[i].system
  BY LineValues DEF LiveOf
<1>2. CASE rows = <<>>
  <2>1. DOMAIN rows = {}
    BY <1>2, EmptyList
  <2>2. ASSUME NEW i \in LiveOf(lines)
        PROVE  agg = Value(lines[i], posts[i]) + 0
    <3>1. lines[i].row = 0
      BY <2>1 DEF Shows, Placed
    <3>2. agg = lines[i].system
      BY <3>1 DEF Shows
    <3>. QED  BY <1>1, <3>2
  <2>. QED  BY <1>2, <2>2 DEF Off
<1>3. CASE rows # <<>>
  <2>1. ASSUME NEW l \in Lots
        PROVE  LotSum(rows, l) = LineSum(lines, posts, l) + 0
    <3>. DEFINE S == LinesOf(lines, l)
                T == OfLot(rows, l)
                f == [i \in DOMAIN lines |-> lines[i].row]
                q == QtyOf(rows)
                r == Values(lines, posts)
    <3>1. rows \in Seq(Row) /\ IsFiniteSet(S) /\ \A y \in DOMAIN rows : rows[y].qty \in Nat /\ q[y] = rows[y].qty
      <4>1. rows \in Seq(Row)
        BY DEF CountInv, StockInv, TypeOK, Row
      <4>. QED  BY <4>1, LineValues, RowsOfType
    <3>2. \A i \in S : i \in LiveOf(lines) /\ lines[i].lot = l /\ f[i] = lines[i].row /\ i \in DOMAIN lines
      BY DEF LinesOf, LiveOf
    <3>3. \A y : y \in T <=> y \in DOMAIN rows /\ rows[y].lot = l
      BY DEF OfLot
    <3>. HIDE DEF S, T, f, q, r
    <3>4. \A i \in LiveOf(lines) : /\ lines[i].row \in DOMAIN rows /\ lines[i].lot = rows[lines[i].row].lot
                                   /\ lines[i].system = rows[lines[i].row].qty
      BY <1>3 DEF Shows, Placed
    <3>5. \A i \in S : f[i] \in T /\ r[i] = q[f[i]] /\ r[i] \in Nat
      BY <1>1, <3>1, <3>2, <3>3, <3>4 DEF r
    <3>6. \A i, j \in S : f[i] = f[j] => i = j
      BY <3>2 DEF Once
    <3>7. \A y \in T : q[y] = 0 \/ \E i \in S : f[i] = y
      <4>. SUFFICES ASSUME NEW y \in T, q[y] # 0
                    PROVE  \E i \in S : f[i] = y
        OBVIOUS
      <4>1. rows[y].qty > 0 /\ y \in DOMAIN rows /\ rows[y].lot = l
        BY <3>1, <3>3
      <4>2. PICK i \in LiveOf(lines) : lines[i].row = y
        BY <4>1 DEF Accounts
      <4>3. i \in S
        BY <3>4, <4>1, <4>2 DEF S, LinesOf
      <4>. QED  BY <3>2, <4>2, <4>3
    <3>8. Total(S, r) = Total(T, q)
      <4>1. Renames(f, S, r, T, q)
        BY <3>5, <3>6, <3>7 DEF Renames
      <4>2. IsFiniteSet(S) /\ \A i \in S : r[i] \in Nat
        BY <3>1, <3>5
      <4>. QED  BY <4>1, <4>2, TotalRenamed
    <3>9. LineSum(lines, posts, l) \in Nat /\ LineSum(lines, posts, l) = Total(S, r) /\ LotSum(rows, l) = Total(T, q)
      BY LineValues DEF LineSum, LotSum, S, T, q, r
    <3>. QED  BY <3>8, <3>9
  <2>. QED  BY <1>3, <2>1 DEF Off
<1>. QED  BY <1>2, <1>3

(* A line posted counts for what was counted from now on.                   *)
LEMMA OffPosted ==
  ASSUME CountInv, NEW i \in LiveOf(lines), posts[i] = 0, Variance(lines[i]) # 0,
         posts' = [posts EXCEPT ![i] = @ + 1],
         AllPlaced(rows, lines), Once(lines),
         Off(rows, agg, lines, posts, lines[i].lot, Variance(lines[i]))
  PROVE  Off(rows, agg, lines, posts', NoLot, 0)
<1>. DEFINE x == lines[i]
            v == Variance(x)
            q == Values(lines, posts)
            r == Values(lines, posts')
<1>1. /\ i \in DOMAIN lines /\ i \in DOMAIN posts /\ x.system \in Nat /\ x.counted \in Nat /\ v = x.counted - x.system
      /\ x.counted # Uncounted
  <2>1. i \in DOMAIN lines
    BY DEF LiveOf
  <2>2. i \in DOMAIN posts /\ x \in LineType
    BY <2>1, LineValues
  <2>3. x.system \in Nat /\ x.counted \in Nat \cup {Uncounted} /\ x.counted # Uncounted
    BY <2>2 DEF LineType, Variance
  <2>. QED  BY <2>1, <2>2, <2>3 DEF Variance, Uncounted
<1>2. posts'[i] = 1 /\ \A j \in DOMAIN lines : j # i => posts'[j] = posts[j]
  BY <1>1, LineValues
<1>3. Value(x, posts[i]) = x.system /\ Value(x, posts'[i]) = x.counted
  <2>1. posts[i] = 0 /\ posts'[i] = 1
    BY <1>2
  <2>. QED  BY <1>1, <2>1 DEF Value
<1>4. /\ q[i] = x.system /\ r[i] = x.counted
      /\ \A j \in DOMAIN lines : q[j] \in Nat /\ q[j] = Value(lines[j], posts[j]) /\ r[j] = Value(lines[j], posts'[j])
      /\ \A j \in DOMAIN lines : j # i => r[j] = q[j]
  BY <1>1, <1>2, <1>3, LineValues DEF Values
<1>5. \A j \in DOMAIN lines : r[j] \in Nat
  BY <1>1, <1>4
<1>6. CASE rows = <<>>
  <2>1. DOMAIN rows = {}
    BY <1>6, EmptyList
  <2>2. \A j \in LiveOf(lines) : lines[j].row = 0
    BY <2>1 DEF AllPlaced, Placed
  <2>3. \A j \in LiveOf(lines) : j = i
    BY <2>2 DEF Once
  <2>4. agg = x.system + v
    BY <1>3, <1>6 DEF Off
  <2>5. agg = x.counted + 0
    <3>. HIDE DEF v, x
    <3>. QED  BY <1>1, <2>4
  <2>. QED  BY <1>3, <1>6, <2>3, <2>5 DEF Off
<1>7. CASE rows # <<>>
  <2>1. ASSUME NEW l \in Lots
        PROVE  LotSum(rows, l) = LineSum(lines, posts', l) + 0
    <3>. DEFINE S == LinesOf(lines, l)
    <3>1. IsFiniteSet(S) /\ S \in SUBSET DOMAIN lines /\ (i \in S <=> x.lot = l)
      BY LineValues DEF LinesOf
    <3>2. LotSum(rows, l) = Total(S, q) + (IF l = x.lot THEN v ELSE 0) /\ LineSum(lines, posts', l) = Total(S, r)
      BY <1>7 DEF Off, LineSum
    <3>. HIDE DEF S, q, r, x, v
    <3>3. (\A j \in S : q[j] \in Nat /\ r[j] \in Nat) /\ \A j \in S : j # i => r[j] = q[j]
      BY <1>4, <1>5, <3>1
    <3>4. Total(S, q) \in Nat
      BY <3>1, <3>3, TotalType
    <3>5. CASE x.lot = l
      <4>1. i \in S /\ \A j \in S \ {i} : r[j] = q[j]
        BY <3>1, <3>3, <3>5
      <4>2. Total(S, r) = Total(S, q) - q[i] + r[i]
        BY <3>1, <3>3, <4>1, TotalChange
      <4>. QED  BY <1>1, <1>4, <3>2, <3>4, <3>5, <4>2
    <3>6. CASE x.lot # l
      <4>1. \A j \in S : q[j] = r[j]
        BY <3>1, <3>3, <3>6
      <4>2. Total(S, q) = Total(S, r)
        BY <4>1, TotalSame
      <4>. QED  BY <3>2, <3>4, <3>6, <4>2
    <3>. QED  BY <3>5, <3>6
  <2>. QED  BY <1>7, <2>1 DEF Off
<1>. QED  BY <1>6, <1>7

LEMMA WritesKeepLots ==
  ASSUME StockInv, NEW c \in Callers, InsertRow(c) \/ SetRow(c)
  PROVE  \A r \in DOMAIN rows : r \in DOMAIN rows' /\ rows'[r].lot = rows[r].lot
<1>. DEFINE k == next(c)
<1>1. rows \in Seq(Row)
  BY DEF StockInv, TypeOK, Row
<1>2. CASE InsertRow(c)
  <2>. DEFINE x == [lot |-> k.lot, bin |-> k.bin, status |-> k.status, qty |-> k.qty]
  <2>1. Doing(c, "insert") /\ rows' = Append(rows, x)
    BY <1>2 DEF InsertRow
  <2>2. x \in Row
    BY <2>1, HeadSound DEF Sound, WithLot, Row
  <2>. HIDE DEF x
  <2>. QED  BY <1>1, <2>1, <2>2, AllAppend
<1>3. CASE SetRow(c)
  <2>1. Doing(c, "set") /\ Written(rows, k.row, k.qty, rows')
    BY <1>3 DEF SetRow, Written
  <2>2. k.row \in DOMAIN rows /\ k.qty \in Nat
    BY <2>1, HeadSound DEF Sound, WithRow
  <2>. HIDE DEF k
  <2>. QED  BY <1>1, <2>1, <2>2, AllSet
<1>. QED  BY <1>2, <1>3

LEMMA LevelIsUnbinned == Level(rows) <=> Unbinned
BY DEF Level, Unbinned

(* The first of the lines an approval has still to post.                    *)
LEMMA HeadLine ==
  ASSUME CountInv, PostInv, NEW c \in Callers, count.faults = 0, Phase(desk[c], sheet, lines),
         Posting(desk[c]), desk[c].left # <<>>
  PROVE  LET h == desk[c].left[1] IN
         /\ h = Head(desk[c].left) /\ h.id \in LiveOf(lines) /\ h.lot = lines[h.id].lot
         /\ h.variance = Variance(lines[h.id]) /\ h.variance \in Int
         /\ desk[c].pc # "stamp" => posts[h.id] = 0
<1>. DEFINE d == desk[c]
            h == d.left[1]
<1>1. /\ d.left \in Seq([id : Nat, lot : Lots \cup {NoLot}, variance : Int]) /\ DeskOK(d, sheet, lines, posts, 0)
  BY CountFacts DEF PostInv
<1>2. 1 \in 1..Len(d.left) /\ h = Head(d.left)
  <2>1. Len(d.left) \in Nat /\ Len(d.left) # 0
    BY <1>1, LenProperties, EmptySeq
  <2>. QED  BY <1>1, <2>1
<1>3. h.id \in LiveOf(lines) /\ h.lot = lines[h.id].lot
  BY <1>2 DEF Phase
<1>4. h.variance = Variance(lines[h.id]) /\ (d.pc # "stamp" => posts[h.id] <= 0)
  BY <1>1, <1>2 DEF DeskOK, LeftOK
<1>5. h.id \in DOMAIN lines /\ posts[h.id] \in Nat /\ Variance(lines[h.id]) \in Int
  <2>1. h.id \in DOMAIN lines
    BY <1>3 DEF LiveOf
  <2>. QED  BY <2>1, LineValues, LineOfType
<1>. QED  BY <1>2, <1>3, <1>4, <1>5

LEMMA PlacedLot ==
  ASSUME StockInv, NEW x, Placed(rows, x)
  PROVE  x.lot = NoLot <=> rows = <<>>
<1>1. rows \in Seq(Row) /\ NoLot \notin Lots /\ DOMAIN rows = 1..Len(rows)
  BY StockAssumption, LenProperties DEF StockInv, TypeOK, Row
<1>2. CASE x.row = 0
  BY <1>2 DEF Placed
<1>3. CASE x.row # 0
  <2>1. x.row \in DOMAIN rows /\ x.lot = rows[x.row].lot
    BY <1>3 DEF Placed
  <2>2. rows[x.row] \in Row
    BY <1>1, <2>1, ElementOfSeq
  <2>3. x.lot \in Lots
    BY <2>1, <2>2 DEF Row
  <2>4. rows # <<>>
    BY <2>1, EmptyList
  <2>. QED  BY <1>1, <2>3, <2>4
<1>. QED  BY <1>2, <1>3

(* A call of an adjustment on the way.                                      *)
LEMMA StandMoves ==
  ASSUME CountInv, PostInv, RowsInv, NEW c \in Callers, count.faults = 0, Phase(desk[c], sheet, lines),
         desk[c].pc = "adjusting", Resolves(c) \/ InsertRow(c) \/ SetRow(c) \/ WriteAgg(c), UNCHANGED countVars,
         Unbinned, AllPlaced(rows, lines), Mid(rows, agg, lines, posts, todo[c], desk[c].left[1])
  PROVE  AllPlaced(rows', lines) /\ Mid(rows', agg', lines, posts, todo'[c], desk[c].left[1])
<1>. DEFINE h == desk[c].left[1]
<1>1. h.id \in LiveOf(lines) /\ h.lot = lines[h.id].lot /\ h.variance \in Int
  <2>1. Posting(desk[c]) /\ desk[c].left # <<>>
    BY CountFacts DEF Posting, Ready
  <2>. QED  BY <2>1, HeadLine
<1>2. StockInv /\ Mid(rows, agg, lines, posts, todo[c], h)
  BY DEF CountInv
<1>. HIDE DEF h
<1>3. h.lot = NoLot <=> rows = <<>>
  BY <1>1, <1>2, PlacedLot DEF AllPlaced
<1>4. \A l \in Lots : LineSum(lines, posts, l) \in Nat
  BY LineValues
<1>5. \A i \in LiveOf(lines) : Value(lines[i], posts[i]) \in Nat
  BY LineValues DEF LiveOf
<1>6. Mid(rows', agg', lines, posts, todo'[c], h)
  BY <1>1, <1>2, <1>3, <1>4, <1>5, MidMoves
<1>7. AllPlaced(rows', lines)
  <2>1. CASE Resolves(c) \/ WriteAgg(c)
    <3>1. rows' = rows
      BY <2>1 DEF Resolves, WriteAgg, ShipRead, ShipResolve, AdjustResolve, MoveResolve, LookupRow, QuarantineRow, PutRow
    <3>. QED  BY <3>1 DEF AllPlaced
  <2>2. CASE InsertRow(c) \/ SetRow(c)
    <3>1. PICK name \in Plain : Doing(c, name)
      BY <2>2 DEF InsertRow, SetRow, Plain
    <3>2. todo[c][1].call \in Plain /\ todo[c] # <<>>
      BY <1>2, <3>1, HeadSound
    <3>3. h.lot # NoLot
      BY <1>2, <3>2 DEF Mid, Asks, Stores, Summing, Closes, Plain
    <3>4. \A r \in DOMAIN rows : r \in DOMAIN rows' /\ rows'[r].lot = rows[r].lot
      BY <1>2, <2>2, WritesKeepLots
    <3>5. \A i \in LiveOf(lines) : Placed(rows', lines[i])
      BY <1>3, <3>3, <3>4 DEF AllPlaced, Placed
    <3>. QED  BY <3>5 DEF AllPlaced
  <2>. QED  BY <2>1, <2>2
<1>. QED  BY <1>6, <1>7 DEF h

LEMMA StandStep ==
  ASSUME CountInv, CountInv', PostInv, LedgerInv, RowsInv, NEW c \in Callers, count.faults = 0, count'.faults = 0,
         CountStep(c) \/ (StockStep(c) /\ UNCHANGED countVars) \/ UNCHANGED <<vars, countVars>>,
         Phase(desk[c], sheet, lines), Dated(desk[c], todo[c], lines, count.calls),
         sheet = "approved" \/ Posting(desk[c]) \/ Drawn(desk[c], lines, rows, agg, count.calls),
         Stood(desk[c], todo[c], sheet, lines, posts, rows, agg, count.calls)
  PROVE  Stood(desk'[c], todo'[c], sheet', lines', posts', rows', agg', count'.calls)
<1>. DEFINE d == desk[c]
            e == desk'[c]
            n == count.calls
            Reached == (sheet' = "approved" \/ Posting(e)) /\ Recent(lines', count'.calls) /\ Level(rows') /\ Once(lines')
            Goal == AllPlaced(rows', lines') /\ Standing(e, todo'[c], sheet', lines', posts', rows', agg')
<1>. SUFFICES ASSUME Reached
              PROVE  Goal
  BY DEF Stood
<1>1. /\ d \in DeskType /\ DeskOK(d, sheet, lines, posts, 0) /\ Bounded(d, sheet, posts, 0) /\ Ready(d)
      /\ \A i \in DOMAIN lines : lines[i] \in LineType /\ lines[i].after \in Nat
      /\ sheet \in SheetStatus \cup {"none"}
  <2>1. /\ d \in DeskType /\ DeskOK(d, sheet, lines, posts, 0) /\ Bounded(d, sheet, posts, 0) /\ Ready(d)
        /\ sheet \in SheetStatus \cup {"none"}
    BY CountFacts DEF PostInv
  <2>2. \A i \in DOMAIN lines : lines[i] \in LineType
    BY LineOfType
  <2>. QED  BY <2>1, <2>2 DEF LineType
<1>2. /\ Phase(d, sheet, lines)
      /\ sheet = "approved" \/ Posting(d) \/ Drawn(d, lines, rows, agg, n)
      /\ Stood(d, todo[c], sheet, lines, posts, rows, agg, n)
  OBVIOUS
<1>3. /\ \A pc : Turns(c, pc) => e.pc = pc /\ e.left = d.left
      /\ NextLine(c) => e.pc = "post"
      /\ Ends(c) => e.pc = "idle"
      /\ \A x : desk' = [desk EXCEPT ![c] = x] => e = x
      /\ desk' = desk => e = d
      /\ IdleDesk.pc = "idle"
  BY DeskMoves
<1>4. Posting(d) => d.to = "approved" /\ sheet = "pending_review"
  BY <1>1, Allowed DEF DeskOK, Posting
<1>5. lines' = lines => Kept(lines, lines')
  BY DEF Kept
<1>6. Posting(e) <=> e.pc \in {"post", "adjusting", "stamp"}
  BY DEF Posting
<1>7. /\ sheet' = "approved" \/ Posting(e)
      /\ Recent(lines', count'.calls) /\ Level(rows') /\ Once(lines')
  OBVIOUS
<1>. HIDE DEF d, e, n, Goal, Reached
<1>8. ASSUME Posting(d) \/ sheet = "approved", Kept(lines, lines'), rows' = rows, count'.calls = n
      PROVE  /\ AllPlaced(rows, lines) /\ AllPlaced(rows', lines') /\ Once(lines)
             /\ Standing(d, todo[c], sheet, lines, posts, rows, agg)
  <2>1. Recent(lines, n) /\ Level(rows) /\ Once(lines)
    BY <1>7, <1>8, KeptLines
  <2>2. AllPlaced(rows, lines) /\ Standing(d, todo[c], sheet, lines, posts, rows, agg)
    BY <1>2, <1>8, <2>1 DEF Stood
  <2>3. AllPlaced(rows', lines')
    BY <1>8, <2>2, KeptLines DEF AllPlaced, Kept
  <2>. QED  BY <2>1, <2>2, <2>3
<1>9. UNCHANGED vars => rows' = rows /\ agg' = agg /\ count'.calls = n /\ todo' = todo
  BY DEF vars, n
<1>10. ASSUME UNCHANGED <<vars, countVars>>
       PROVE  Goal
  <2>1. /\ rows' = rows /\ agg' = agg /\ todo' = todo /\ count'.calls = n
        /\ sheet' = sheet /\ lines' = lines /\ posts' = posts /\ e = d
    BY <1>3, <1>10 DEF vars, countVars, n
  <2>. QED  BY <1>5, <1>7, <1>8, <2>1 DEF Goal
<1>11. ASSUME StockStep(c), UNCHANGED countVars
       PROVE  Goal
  <2>1. e = d /\ lines' = lines /\ sheet' = sheet /\ posts' = posts
    BY <1>3, <1>11 DEF countVars
  <2>2. \/ d.pc = "idle" /\ \A i \in DOMAIN lines : lines[i].after # count'.calls
        \/ d.pc = "adjusting" /\ count' = count /\ (Resolves(c) \/ InsertRow(c) \/ SetRow(c) \/ WriteAgg(c))
    BY <1>1, <1>11, StockDates DEF d
  <2>3. ASSUME d.pc = "idle", \A i \in DOMAIN lines : lines[i].after # count'.calls
        PROVE  FALSE
    <3>1. LiveOf(lines) # {}
      BY <1>2, <1>6, <1>7, <2>1, <2>3 DEF Phase
    <3>. QED  BY <1>7, <2>1, <2>3, <3>1 DEF Recent, LiveOf
  <2>4. ASSUME d.pc = "adjusting", count' = count, Resolves(c) \/ InsertRow(c) \/ SetRow(c) \/ WriteAgg(c)
        PROVE  Goal
    <3>1. Posting(d) /\ sheet = "pending_review"
      BY <1>4, <2>4 DEF Posting
    <3>2. Level(rows)
      <4>1. CASE rows' = rows
        BY <1>7, <4>1
      <4>2. CASE InsertRow(c) \/ SetRow(c)
        <5>1. DOMAIN rows \subseteq DOMAIN rows' /\ \A r \in DOMAIN rows : rows'[r].bin = rows[r].bin
          BY <4>2, WritesKeepBins DEF CountInv, Writes
        <5>. QED  BY <1>7, <5>1 DEF Level
      <4>3. CASE Resolves(c) \/ WriteAgg(c)
        <5>1. rows' = rows
          BY <4>3 DEF Resolves, WriteAgg, ShipRead, ShipResolve, AdjustResolve, MoveResolve, LookupRow, QuarantineRow, PutRow
        <5>. QED  BY <4>1, <5>1
      <4>. QED  BY <2>4, <4>2, <4>3
    <3>3. AllPlaced(rows, lines) /\ Standing(d, todo[c], sheet, lines, posts, rows, agg)
      BY <1>2, <1>7, <2>1, <2>4, <3>1, <3>2 DEF Stood, n
    <3>4. Mid(rows, agg, lines, posts, todo[c], d.left[1])
      BY <2>4, <3>1, <3>3 DEF Standing
    <3>5. AllPlaced(rows', lines) /\ Mid(rows', agg', lines, posts, todo'[c], d.left[1])
      BY <1>2, <1>11, <2>4, <3>2, <3>3, <3>4, StandMoves, LevelIsUnbinned DEF d
    <3>. QED  BY <2>1, <2>4, <3>1, <3>5 DEF Goal, Standing
  <2>. QED  BY <2>2, <2>3, <2>4
<1>12. ASSUME \/ Create(c) \/ BeginGenerate(c) \/ ClearPending(c) \/ ReadBalances(c) \/ ReadAggregate(c)
              \/ InsertLines(c) \/ BeginRecord(c) \/ WriteRecord(c) \/ BeginMove(c)
       PROVE  FALSE
  <2>1. sheet' # "approved"
    <3>1. CASE Create(c) \/ BeginGenerate(c) \/ BeginRecord(c)
      BY <3>1 DEF Create, BeginGenerate, BeginRecord
    <3>2. CASE ClearPending(c) \/ ReadBalances(c) \/ ReadAggregate(c) \/ InsertLines(c) \/ WriteRecord(c)
      <4>1. sheet' = sheet /\ d.pc \in {"clear", "balances", "aggregate", "insert", "record"}
        BY <3>2 DEF ClearPending, ReadBalances, ReadAggregate, InsertLines, WriteRecord, Does, d
      <4>. QED  BY <1>2, <4>1 DEF Phase, Snapping
    <3>3. CASE BeginMove(c)
      <4>1. sheet # "none" /\ ALLOWED_TRANSITIONS[sheet] # {} /\ sheet' = sheet
        BY <3>3 DEF BeginMove
      <4>. QED  BY <1>1, <4>1, Allowed
    <3>. QED  BY <1>12, <3>1, <3>2, <3>3
  <2>2. e.pc \notin {"post", "adjusting", "stamp"}
    <3>1. CASE Create(c)
      BY <1>3, <3>1 DEF Create, Free, d
    <3>2. CASE BeginGenerate(c)
      <4>1. PICK z : desk' = [desk EXCEPT ![c] = [IdleDesk EXCEPT !.pc = "clear", !.zeros = z]]
        BY <3>2 DEF BeginGenerate
      <4>2. e = [IdleDesk EXCEPT !.pc = "clear", !.zeros = z]
        BY <1>3, <4>1
      <4>. QED  BY <4>2 DEF IdleDesk
    <3>3. CASE BeginRecord(c)
      <4>1. PICK i, q : desk' = [desk EXCEPT ![c] = [IdleDesk EXCEPT !.pc = "record", !.line = i, !.qty = q]]
        BY <3>3 DEF BeginRecord
      <4>2. e = [IdleDesk EXCEPT !.pc = "record", !.line = i, !.qty = q]
        BY <1>3, <4>1
      <4>. QED  BY <4>2 DEF IdleDesk
    <3>4. CASE BeginMove(c)
      <4>1. PICK to : desk' = [desk EXCEPT ![c] = [IdleDesk EXCEPT !.pc = IF to = "cancelled" THEN "write" ELSE "lines", !.to = to]]
        BY <3>4 DEF BeginMove
      <4>2. e = [IdleDesk EXCEPT !.pc = IF to = "cancelled" THEN "write" ELSE "lines", !.to = to]
        BY <1>3, <4>1
      <4>. QED  BY <4>2 DEF IdleDesk
    <3>5. CASE ReadBalances(c)
      BY <3>5, SnapDrawn DEF Snapping, e
    <3>6. CASE ReadAggregate(c)
      <4>1. desk \in [Callers -> DeskType]
        BY DEF CountInv
      <4>. QED  BY <3>6, <4>1 DEF ReadAggregate, DeskType, e
    <3>7. CASE ClearPending(c) \/ InsertLines(c) \/ WriteRecord(c)
      BY <1>3, <3>7 DEF ClearPending, InsertLines, WriteRecord
    <3>. QED  BY <1>12, <3>1, <3>2, <3>3, <3>4, <3>5, <3>6, <3>7
  <2>. QED  BY <1>6, <1>7, <2>1, <2>2
<1>13. ASSUME FlagForRecount(c)
       PROVE  Goal
  <2>1. UNCHANGED vars /\ e.pc = "idle" /\ sheet' = sheet /\ posts' = posts
    BY <1>3, <1>13 DEF FlagForRecount, Free, d
  <2>2. Kept(lines, lines') /\ sheet = "approved" /\ sheet' = "approved"
    BY <1>6, <1>7, <1>13, <2>1, LinesKept
  <2>3. AllPlaced(rows', lines')
    BY <1>8, <1>9, <2>1, <2>2
  <2>4. \E i \in LiveOf(lines') : lines'[i].counted = Uncounted
    <3>1. PICK i \in Live : SetLine(i, [lines[i] EXCEPT !.counted = Uncounted, !.status = "recount"])
      BY <1>13 DEF FlagForRecount
    <3>2. i \in DOMAIN lines /\ i \in LiveOf(lines)
      BY DEF Live, LiveOf
    <3>3. lines' = [lines EXCEPT ![i] = [lines[i] EXCEPT !.counted = Uncounted, !.status = "recount"]]
      BY <3>1 DEF SetLine
    <3>4. lines'[i] = [lines[i] EXCEPT !.counted = Uncounted, !.status = "recount"]
      BY <3>2, <3>3
    <3>5. lines'[i].counted = Uncounted
      BY <1>1, <3>2, <3>4 DEF LineType
    <3>. QED  BY <2>2, <3>2, <3>5 DEF Kept
  <2>. QED  BY <2>2, <2>3, <2>4 DEF Goal, Standing
<1>14. ASSUME ReadLines(c)
       PROVE  Goal
  <2>1. UNCHANGED vars /\ lines' = lines /\ sheet' = sheet /\ posts' = posts /\ d.pc = "lines"
    BY <1>14 DEF ReadLines, Does, d
  <2>2. sheet # "approved" /\ d.to \in ALLOWED_TRANSITIONS[sheet] /\ sheet \in SheetStatus
    BY <1>1, <2>1, Allowed DEF DeskOK
  <2>3. e.pc = "post" /\ d.to \notin {"in_progress", "pending_review"}
    <3>1. desk \in [Callers -> DeskType]
      BY DEF CountInv
    <3>2. \A x : [d EXCEPT !.pc = "write"].pc = "write" /\ [d EXCEPT !.pc = "post", !.left = x].pc = "post"
      BY <1>1 DEF DeskType
    <3>3. \E x : desk' = [desk EXCEPT ![c] = IF d.to = "in_progress" THEN IF Live = {} THEN IdleDesk ELSE [d EXCEPT !.pc = "write"]
                                        ELSE IF d.to = "pending_review" THEN IF Uncleared # {} THEN IdleDesk ELSE [d EXCEPT !.pc = "write"]
                                        ELSE [d EXCEPT !.pc = "post", !.left = x]]
      BY <1>14, <3>1 DEF ReadLines, d
    <3>4. PICK x : desk' = [desk EXCEPT ![c] = IF d.to = "in_progress" THEN IF Live = {} THEN IdleDesk ELSE [d EXCEPT !.pc = "write"]
                                        ELSE IF d.to = "pending_review" THEN IF Uncleared # {} THEN IdleDesk ELSE [d EXCEPT !.pc = "write"]
                                        ELSE [d EXCEPT !.pc = "post", !.left = x]]
      BY <3>3
    <3>5. e = IF d.to = "in_progress" THEN IF Live = {} THEN IdleDesk ELSE [d EXCEPT !.pc = "write"]
              ELSE IF d.to = "pending_review" THEN IF Uncleared # {} THEN IdleDesk ELSE [d EXCEPT !.pc = "write"]
              ELSE [d EXCEPT !.pc = "post", !.left = x]
      BY <1>3, <3>4
    <3>6. e.pc \in {"post", "adjusting", "stamp"}
      BY <1>6, <1>7, <2>1, <2>2
    <3>. QED  BY <1>3, <3>2, <3>5, <3>6
  <2>4. d.to \in {"approved", "cancelled"} /\ d.to # "cancelled"
    <3>1. d.to # "cancelled"
      BY <1>1, <2>1 DEF DeskOK
    <3>2. d.to \in {"in_progress", "pending_review", "approved", "cancelled"}
      BY <2>2 DEF ALLOWED_TRANSITIONS, SheetStatus
    <3>. QED  BY <2>3, <3>1, <3>2
  <2>5. sheet = "pending_review"
    BY <2>2, <2>4, Allowed
  <2>6. LiveOf(lines) # {} /\ Drawn(d, lines, rows, agg, n) /\ Recent(lines, n)
    BY <1>2, <1>7, <1>9, <2>1, <2>2, <2>5 DEF Phase, Posting
  <2>7. Accounts(rows, lines) /\ \A i \in LiveOf(lines) : Shows(rows, agg, lines[i])
    BY <2>1, <2>6 DEF Drawn, Recent, Snapping
  <2>8. \A i \in DOMAIN lines : posts[i] = 0
    <3>1. \A i \in DOMAIN posts : posts[i] <= 0
      BY <1>1, <2>1, <2>2 DEF Bounded, Posting
    <3>2. \A i \in DOMAIN lines : posts[i] \in Nat /\ i \in DOMAIN posts
      BY LineValues
    <3>. QED  BY <3>1, <3>2
  <2>9. Off(rows, agg, lines, posts, NoLot, 0)
    BY <1>7, <2>1, <2>7, <2>8, OffTaken
  <2>10. AllPlaced(rows, lines)
    BY <2>7 DEF AllPlaced, Shows
  <2>. QED  BY <1>9, <2>1, <2>2, <2>3, <2>9, <2>10 DEF Goal, Standing
<1>15. ASSUME WriteStatus(c)
       PROVE  Goal
  <2>1. UNCHANGED vars /\ lines' = lines /\ posts' = posts /\ sheet' = d.to /\ e.pc = "idle" /\ d.pc \in {"write", "post"}
    BY <1>3, <1>15 DEF WriteStatus, Does, d
  <2>2. sheet' = "approved" /\ d.pc = "post"
    BY <1>1, <1>6, <1>7, <2>1 DEF DeskOK
  <2>3. Posting(d) /\ sheet = "pending_review"
    BY <1>4, <2>2 DEF Posting
  <2>4. AllPlaced(rows', lines') /\ Standing(d, todo[c], sheet, lines, posts, rows, agg)
    BY <1>5, <1>8, <1>9, <2>1, <2>3
  <2>5. Off(rows, agg, lines, posts, NoLot, 0)
    BY <2>2, <2>3, <2>4 DEF Standing
  <2>. QED  BY <1>9, <2>1, <2>2, <2>4, <2>5 DEF Goal, Standing
<1>16. ASSUME PostVariance(c)
       PROVE  Goal
  <2>. DEFINE h == d.left[1]
  <2>1. /\ d.pc = "post" /\ d.left # <<>> /\ sheet' = sheet /\ lines' = lines /\ posts' = posts /\ rows' = rows /\ agg' = agg
        /\ count'.calls = n
    <3>1. count'.calls = n
      BY <1>16, CountDates DEF CountStep, n
    <3>. QED  BY <1>16, <3>1 DEF PostVariance, Does, d
  <2>2. Posting(d) /\ sheet = "pending_review"
    BY <1>4, <2>1 DEF Posting
  <2>3. AllPlaced(rows', lines') /\ Standing(d, todo[c], sheet, lines, posts, rows, agg)
    BY <1>5, <1>8, <2>1, <2>2
  <2>4. Off(rows, agg, lines, posts, NoLot, 0)
    BY <2>1, <2>2, <2>3 DEF Standing
  <2>5. h = Head(d.left) /\ h.variance \in Int
    BY <1>2, <2>1, <2>2, HeadLine DEF d
  <2>6. ASSUME Turns(c, "stamp") \/ NextLine(c)
        PROVE  Goal
    <3>1. e.pc = "stamp" \/ e.pc = "post"
      BY <1>3, <2>6
    <3>. QED  BY <2>1, <2>2, <2>3, <2>4, <3>1 DEF Goal, Standing
  <2>7. ASSUME NEW current, Turns(c, "adjusting"), todo' = [todo EXCEPT ![c] = <<Adjustment(h.lot, h.variance, current)>>]
        PROVE  Goal
    <3>. DEFINE k == Adjustment(h.lot, h.variance, current)
    <3>1. k.call = "adjustAgg" /\ k.lot = h.lot /\ k.delta = h.variance
      BY DEF Adjustment, Blank
    <3>2. todo'[c] = <<k>>
      <4>1. todo \in [Callers -> Seq(Calls)]
        BY DEF CountInv, StockInv, TypeOK
      <4>. QED  BY <2>7, <4>1
    <3>. HIDE DEF k, h
    <3>3. Len(<<k>>) = 1 /\ <<k>>[1] = k
      OBVIOUS
    <3>4. Asks(todo'[c], h)
      BY <3>1, <3>2, <3>3 DEF Asks
    <3>5. Off(rows, agg, lines, posts, h.lot, 0)
      BY <2>4, OffNothing
    <3>6. e.pc = "adjusting" /\ e.left = d.left
      BY <1>3, <2>7
    <3>7. Mid(rows, agg, lines, posts, todo'[c], h)
      BY <3>4, <3>5 DEF Mid
    <3>. QED  BY <2>1, <2>2, <2>3, <3>6, <3>7 DEF Goal, Standing, h
  <2>. HIDE DEF h
  <2>8. \/ Turns(c, "stamp") \/ NextLine(c)
        \/ \E current : Turns(c, "adjusting") /\ todo' = [todo EXCEPT ![c] = <<Adjustment(h.lot, h.variance, current)>>]
    BY <1>16, <2>5 DEF PostVariance, d
  <2>. QED  BY <2>6, <2>7, <2>8
<1>17. ASSUME SkipLine(c)
       PROVE  Goal
  <2>1. UNCHANGED vars /\ d.pc = "adjusting" /\ todo[c] = <<>> /\ sheet' = sheet /\ lines' = lines /\ posts' = posts /\ e.pc = "post"
    BY <1>3, <1>17 DEF SkipLine, Does, d
  <2>2. Posting(d) /\ sheet = "pending_review"
    BY <1>4, <2>1 DEF Posting
  <2>3. AllPlaced(rows', lines') /\ Standing(d, todo[c], sheet, lines, posts, rows, agg)
    BY <1>5, <1>8, <1>9, <2>1, <2>2
  <2>4. Mid(rows, agg, lines, posts, <<>>, d.left[1])
    BY <2>1, <2>2, <2>3 DEF Standing
  <2>5. Len(<<>>) = 0
    BY EmptyList
  <2>6. Off(rows, agg, lines, posts, d.left[1].lot, 0)
    BY <2>4, <2>5 DEF Mid, Summing, Closes
  <2>7. Off(rows, agg, lines, posts, NoLot, 0)
    BY <2>6, OffNothing
  <2>. QED  BY <1>9, <2>1, <2>2, <2>3, <2>7 DEF Goal, Standing
<1>18. ASSUME PostedLine(c)
       PROVE  Goal
  <2>. DEFINE h == d.left[1]
  <2>1. /\ d.pc = "adjusting" /\ Doing(c, "post") /\ rows' = rows /\ agg' = agg /\ count' = count
        /\ e.pc = "stamp" /\ sheet' = sheet /\ lines' = lines /\ posts' = [posts EXCEPT ![Head(d.left).id] = @ + 1]
    BY <1>3, <1>18 DEF PostedLine, PostEntry, Does, d
  <2>2. Posting(d) /\ sheet = "pending_review" /\ d.left # <<>>
    BY <1>1, <1>4, <2>1 DEF Posting, Ready
  <2>3. AllPlaced(rows, lines) /\ AllPlaced(rows', lines') /\ Once(lines) /\ Standing(d, todo[c], sheet, lines, posts, rows, agg)
    BY <1>5, <1>8, <2>1, <2>2 DEF n
  <2>4. Mid(rows, agg, lines, posts, todo[c], h)
    BY <2>1, <2>2, <2>3 DEF Standing
  <2>5. /\ h = Head(d.left) /\ h.id \in LiveOf(lines) /\ h.lot = lines[h.id].lot
        /\ h.variance = Variance(lines[h.id]) /\ posts[h.id] = 0
    BY <1>2, <2>1, <2>2, HeadLine DEF d
  <2>6. h.variance # 0
    BY <1>2, <2>1 DEF Phase
  <2>7. todo[c] # <<>> /\ todo[c][1].call = "post"
    BY <2>1, HeadSound DEF CountInv
  <2>. HIDE DEF h
  <2>8. Off(rows, agg, lines, posts, h.lot, h.variance)
    BY <2>4, <2>7 DEF Mid, Asks, Stores, Summing, Closes, Plain
  <2>9. Off(rows, agg, lines, posts', NoLot, 0)
    BY <2>1, <2>3, <2>5, <2>6, <2>8, OffPosted
  <2>. QED  BY <2>1, <2>2, <2>3, <2>9 DEF Goal, Standing
<1>19. ASSUME StampLine(c)
       PROVE  Goal
  <2>1. UNCHANGED vars /\ d.pc = "stamp" /\ sheet' = sheet /\ posts' = posts /\ e.pc = "post"
    BY <1>3, <1>19 DEF StampLine, Does, d
  <2>2. Posting(d) /\ sheet = "pending_review"
    BY <1>4, <2>1 DEF Posting
  <2>3. Kept(lines, lines')
    BY <1>19, LinesKept
  <2>4. AllPlaced(rows', lines') /\ Standing(d, todo[c], sheet, lines, posts, rows, agg)
    BY <1>8, <1>9, <2>1, <2>2, <2>3
  <2>5. Off(rows, agg, lines, posts, NoLot, 0)
    BY <2>1, <2>2, <2>4 DEF Standing
  <2>6. \A i \in LiveOf(lines) : lines'[i].counted = lines[i].counted
    <3>. DEFINE j == Head(desk[c].left).id
                x == [lines[j] EXCEPT !.status = "approved"]
    <3>1. lines' = IF j \in Live THEN [lines EXCEPT ![j] = x] ELSE lines
      BY <1>19 DEF StampLine, SetLine
    <3>2. j \in Live => x.counted = lines[j].counted
      BY <1>1 DEF Live, LineType
    <3>. HIDE DEF j, x
    <3>. QED  BY <3>1, <3>2 DEF LiveOf, Live
  <2>7. Off(rows, agg, lines', posts, NoLot, 0)
    BY <2>3, <2>5, <2>6, OffSame
  <2>. QED  BY <1>9, <2>1, <2>2, <2>4, <2>7 DEF Goal, Standing
<1>20. ~RequestFails(c)
  BY CountFacts DEF RequestFails, CountInv, StockInv, TypeOK
<1>. QED  BY <1>10, <1>11, <1>12, <1>13, <1>14, <1>15, <1>16, <1>17, <1>18, <1>19, <1>20, Zenon DEF CountStep, Goal, e

(* What the stock comes to in the course of a count, when no request was    *)
(* cut short: while the lines are the last thing to have happened, they     *)
(* show the stock; from the approval on, and no line taken twice, the stock *)
(* is what the lines posted so far come to, but for the adjustment on the   *)
(* way.                                                                     *)
SettleInv ==
  /\ sheet = "approved" => Callers # {}
  /\ count.faults = 0 => \A c \in Callers :
       /\ Phase(desk[c], sheet, lines)
       /\ Dated(desk[c], todo[c], lines, count.calls)
       /\ Snapped(desk[c], rows, agg, count.calls)
       /\ sheet = "approved" \/ Posting(desk[c]) \/ Drawn(desk[c], lines, rows, agg, count.calls)
       /\ Stood(desk[c], todo[c], sheet, lines, posts, rows, agg, count.calls)

LEMMA SettleInvInit == CountInit => SettleInv
<1>. SUFFICES ASSUME CountInit
              PROVE  SettleInv
  OBVIOUS
<1>1. sheet = "none" /\ lines = <<>> /\ \A c \in Callers : desk[c].pc = "idle"
  BY DEF CountInit, IdleDesk
<1>2. DOMAIN lines = {} /\ LiveOf(lines) = {}
  BY <1>1, EmptyList DEF LiveOf
<1>. QED  BY <1>1, <1>2 DEF SettleInv, Phase, Dated, Snapped, Drawn, Stood, Posting, Snapping

LEMMA SettleStep ==
  ASSUME CountInv, CountInv', PostInv, LedgerInv, RowsInv, SettleInv, NEW c \in Callers, \A e \in Callers : e = c,
         CountStep(c) \/ (StockStep(c) /\ UNCHANGED countVars) \/ UNCHANGED <<vars, countVars>>
  PROVE  SettleInv'
<1>. SUFFICES ASSUME count'.faults = 0
              PROVE  /\ Phase(desk'[c], sheet', lines')
                     /\ Dated(desk'[c], todo'[c], lines', count'.calls)
                     /\ Snapped(desk'[c], rows', agg', count'.calls)
                     /\ sheet' = "approved" \/ Posting(desk'[c]) \/ Drawn(desk'[c], lines', rows', agg', count'.calls)
                     /\ Stood(desk'[c], todo'[c], sheet', lines', posts', rows', agg', count'.calls)
  BY DEF SettleInv
<1>1. count.faults = 0
  <2>1. count \in [calls : Nat, faults : Nat, made : Nat, adjusted : BOOLEAN]
    BY DEF CountInv, StockInv, TypeOK
  <2>2. CASE StockStep(c)
    BY <2>1, <2>2, FaultsGrow
  <2>3. CASE UNCHANGED <<vars, countVars>>
    BY <2>3 DEF vars
  <2>4. CASE CountStep(c)
    <3>1. CASE RequestFails(c)
      BY <2>1, <3>1 DEF RequestFails
    <3>2. CASE PostVariance(c)
      BY <2>1, <3>2 DEF PostVariance
    <3>3. CASE PostedLine(c)
      BY <3>3 DEF PostedLine, PostEntry
    <3>4. CASE ~(RequestFails(c) \/ PostVariance(c) \/ PostedLine(c))
      <4>1. UNCHANGED vars
        BY <2>4, <3>4, Zenon
        DEF CountStep, Create, BeginGenerate, ClearPending, ReadBalances, ReadAggregate, InsertLines, BeginRecord,
              WriteRecord, FlagForRecount, BeginMove, ReadLines, WriteStatus, SkipLine, StampLine
      <4>. QED  BY <4>1 DEF vars
    <3>. QED  BY <3>1, <3>2, <3>3, <3>4, Zenon
  <2>. QED  BY <2>2, <2>3, <2>4
<1>2. /\ Phase(desk[c], sheet, lines)
      /\ Dated(desk[c], todo[c], lines, count.calls)
      /\ Snapped(desk[c], rows, agg, count.calls)
      /\ sheet = "approved" \/ Posting(desk[c]) \/ Drawn(desk[c], lines, rows, agg, count.calls)
      /\ Stood(desk[c], todo[c], sheet, lines, posts, rows, agg, count.calls)
  BY <1>1 DEF SettleInv
<1>3. Phase(desk'[c], sheet', lines')
  BY <1>1, <1>2, PhaseStep
<1>4. Dated(desk'[c], todo'[c], lines', count'.calls)
  BY <1>1, <1>2, DatedStep
<1>5. /\ Snapped(desk'[c], rows', agg', count'.calls)
      /\ sheet' = "approved" \/ Posting(desk'[c]) \/ Drawn(desk'[c], lines', rows', agg', count'.calls)
  BY <1>1, <1>2, SnapStep
<1>6. Stood(desk'[c], todo'[c], sheet', lines', posts', rows', agg', count'.calls)
  BY <1>1, <1>2, StandStep
<1>. QED  BY <1>3, <1>4, <1>5, <1>6

LEMMA SettledCount ==
  ASSUME CountInv, PostInv, SettleInv
  PROVE  CountSettles
<1>. SUFFICES ASSUME sheet = "approved", Complete, NoBalanceTwice, Unbinned, count.faults = 0,
                     \A i \in Live : lines[i].after = count.calls
              PROVE  IF rows = <<>> THEN \A i \in Live : agg = lines[i].counted
                     ELSE \A l \in Lots : InLots(l) = Counted(l)
  BY DEF CountSettles
<1>1. LiveOf(lines) = Live /\ Recent(lines, count.calls) /\ Once(lines) /\ Level(rows)
  <2>1. LiveOf(lines) = Live
    BY DEF Live, LiveOf
  <2>. QED  BY <2>1 DEF Recent, Once, NoBalanceTwice, Level, Unbinned
<1>2. Off(rows, agg, lines, posts, NoLot, 0)
  <2>1. PICK c \in Callers : TRUE
    BY DEF SettleInv
  <2>2. Standing(desk[c], todo[c], sheet, lines, posts, rows, agg)
    BY <1>1 DEF SettleInv, Stood
  <2>. QED  BY <1>1, <2>2 DEF Standing, Complete
<1>3. ASSUME NEW i \in Live
      PROVE  i \in DOMAIN lines /\ Value(lines[i], posts[i]) = lines[i].counted /\ lines[i].counted \in Nat
  <2>1. i \in DOMAIN lines /\ lines[i].status = "approved" /\ lines[i].counted # Uncounted
    BY DEF Live, Complete
  <2>2. lines[i].system \in Nat /\ lines[i].counted \in Nat /\ posts[i] \in Nat
    BY <2>1, LineValues DEF LineType
  <2>3. lines[i].counted - lines[i].system # 0 => posts[i] >= 1
    BY <2>1 DEF PostInv, ApprovedIsPosted, Variance
  <2>. QED  BY <2>1, <2>2, <2>3 DEF Value
<1>4. CASE rows = <<>>
  BY <1>1, <1>2, <1>3, <1>4 DEF Off
<1>5. CASE rows # <<>>
  <2>1. ASSUME NEW l \in Lots
        PROVE  InLots(l) = Counted(l)
    <3>1. LotSum(rows, l) = LineSum(lines, posts, l) + 0
      BY <1>2, <1>5 DEF Off
    <3>2. LineSum(lines, posts, l) \in Nat
      BY LineValues
    <3>3. InLots(l) = LotSum(rows, l)
      <4>1. \A r \in OfLot(rows, l) : Stock[r] = QtyOf(rows)[r]
        BY RowsFinite DEF CountInv, StockInv, OfLot, QtyOf
      <4>2. Total(OfLot(rows, l), Stock) = Total(OfLot(rows, l), QtyOf(rows))
        BY <4>1, TotalSame
      <4>. QED  BY <4>2 DEF InLots, LotSum, OfLot
    <3>4. LineSum(lines, posts, l) = Counted(l)
      <4>. DEFINE S == LinesOf(lines, l)
                  q == Values(lines, posts)
                  r == [i \in DOMAIN lines |-> lines[i].counted]
      <4>1. S = {i \in Live : lines[i].lot = l}
        BY <1>1 DEF LinesOf
      <4>2. \A i \in S : q[i] = r[i]
        BY <1>3, <4>1 DEF Values
      <4>. HIDE DEF S, q, r
      <4>3. Total(S, q) = Total(S, r)
        BY <4>2, TotalSame
      <4>. QED  BY <4>1, <4>3 DEF LineSum, Counted, S, q, r
    <3>. QED  BY <3>1, <3>2, <3>3, <3>4
  <2>. QED  BY <1>5, <2>1
<1>. QED  BY <1>4, <1>5

(* With one request at a time, and none cut short, a count approved as a    *)
(* whole settles the stock: every lot holds what was counted of it, and a   *)
(* product without lots what was counted of its aggregate, when nothing     *)
(* else moved and no balance is in two lines or in a bin (approveCycleCount *)
(* posts the variances of the lines as it reads them).                      *)
THEOREM CountsSettle ==
  ASSUME OneCaller
  PROVE  CountSpec => []CountSettles
<1>1. CountInit => SettleInv
  BY SettleInvInit
<1>2. /\ CountInv /\ PostInv /\ LedgerInv /\ BooksInv /\ CountInv' /\ SettleInv /\ [CountNext]_<<vars, countVars>>
      => SettleInv'
  <2>. SUFFICES ASSUME CountInv, PostInv, LedgerInv, BooksInv, CountInv', SettleInv, [CountNext]_<<vars, countVars>>
                PROVE  SettleInv'
    OBVIOUS
  <2>1. ASSUME NEW c \in Callers
        PROVE  SettleInv'
    <3>1. \A e \in Callers : e = c
      BY DEF OneCaller
    <3>2. CountStep(c) \/ (StockStep(c) /\ UNCHANGED countVars) \/ UNCHANGED <<vars, countVars>>
      BY <3>1, Zenon DEF CountNext
    <3>. QED  BY <3>1, <3>2, SettleStep DEF BooksInv
  <2>2. CASE Callers = {}
    <3>1. UNCHANGED <<vars, countVars>>
      BY <2>2 DEF CountNext
    <3>2. sheet' = sheet
      BY <3>1 DEF countVars
    <3>. QED  BY <2>2, <3>2 DEF SettleInv
  <2>. QED  BY <2>1, <2>2
<1>3. CountInv /\ PostInv /\ SettleInv => CountSettles
  BY SettledCount
<1>. QED  BY <1>1, <1>2, <1>3, PostInvariant, LedgerInvariant, BooksInvariant, PTL DEF CountSpec
=============================================================================
