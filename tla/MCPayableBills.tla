---------------------------- MODULE MCPayableBills ----------------------------
(***************************************************************************)
(* TLC instance of PayableBills.  The configurations let runs pay 1        *)
(* without asking and the thresholds approve up to 2 at once, so a         *)
(* balance of 3 has to be asked for.                                       *)
(***************************************************************************)
EXTENDS PayableBills

CONSTANTS b1, c1, r1, r2
=============================================================================
