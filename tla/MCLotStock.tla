------------------------------ MODULE MCLotStock ------------------------------
(***************************************************************************)
(* TLC instance of LotStock: lot 1 is undated, lot 2 expires in 10 days,   *)
(* lot 3 expired yesterday; bin1 precedes bin2 on the walk and holds 3.    *)
(***************************************************************************)
EXTENDS LotStock

CONSTANTS bin1, bin2, c1, c2

Undated == 1000
MCExpiry == [l \in Lots |-> CASE l = 1 -> Undated [] l = 2 -> 10 [] OTHER -> -1]
MCWalk == [b \in Bins |-> IF b = bin1 THEN 1 ELSE 2]
MCCapacity == [b \in Bins |-> 3]
=============================================================================
