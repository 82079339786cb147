---------------------------------- MODULE Sums ----------------------------------
(***************************************************************************)
(* Sums and listings of finite sets without recursion, so that what the    *)
(* models say of them can be proved from what is known of finite sets.     *)
(***************************************************************************)
EXTENDS Integers, FiniteSets

(* The sum of q[x] over the x of S, as the number of units that the         *)
(* quantities stand for.                                                    *)
UnitsOf(S, q) == UNION {{x} \X (1..q[x]) : x \in S}
Total(S, q) == Cardinality(UnitsOf(S, q))

(* The elements of S as a sequence, each after the ones that come before it *)
(* by `sooner', a set of pairs.                                             *)
Rank(S, sooner, x) == Cardinality({y \in S : <<y, x>> \in sooner})
InOrder(S, sooner) == [i \in 1..Cardinality(S) |-> CHOOSE x \in S : Rank(S, sooner, x) = i - 1]
Ascending(S) == InOrder(S, {p \in S \X S : p[1] < p[2]})
=============================================================================
