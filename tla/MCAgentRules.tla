---------------------------- MODULE MCAgentRules ----------------------------
(***************************************************************************)
(* TLC instance of AgentRules: an errand and three rows that rules draft.  *)
(* Two rules draft orders for one vendor, a third re-quotes.  Explored are *)
(* the errand alone, taken up by callbacks that have no rule to evaluate,  *)
(* and the rules alone, with one admin.                                    *)
(***************************************************************************)
EXTENDS AgentRules, TLC

CONSTANTS errand, row1, row2, row3, a1, a2, k1, k2, reorder, autoPo, requote, vendor, acme

CONSTANTS MaxRuleGrants  \* approvals of a row that a rule drafted

MCCompany == [t \in Deals |-> acme]
MCTargetsOf == [r \in Rules |-> IF r = requote THEN {} ELSE {vendor}]

MCSymmetry == Permutations(Admins) \cup Permutations(Ticks)

Drafted == Tasks \ Errands
Decided == {t \in Drafted : status[t] \notin OPEN_TASK_STATUSES \cup {"none"}}

(* Rows are numbered as they are inserted.                                  *)
RowsInOrder == (status[row1] = "none" => status[row2] = "none") /\ (status[row2] = "none" => status[row3] = "none")

ErrandAlone == Drafted = {t \in Drafted : status[t] = "none"} /\ crowd = 0 /\ lapses = 0

NoEdit == (\A a \in Admins : IsIdle(a)) /\ (\A t \in Drafted : data[t] = 0)

(* An admin edits one of the rows that wait.                                *)
EditedOnce ==
  /\ lapses = 0 /\ crowd <= 1 /\ Decided = {} /\ status[row3] = "none"
  /\ Cardinality({t \in Drafted : data[t] # 0}) <= 1
  /\ \E a \in Admins : proc[a].pc \in {"idle", "edit"} /\ \A b \in Admins \ {a} : IsIdle(b)

RulesAlone ==
  /\ \A t \in Errands : status[t] = "none"
  /\ \A t \in Drafted : /\ status[t] = "none" \/ origin[t] # NoRule
                        /\ grants[t] <= MaxRuleGrants
  /\ RowsInOrder
  /\ faults = 0
  /\ NoEdit \/ EditedOnce

OneCallback ==
  /\ crowd <= 1
  /\ \E k \in Ticks : eval[k] = NotEvaluating /\ IsIdle(k) /\ queue[k] = {}
  /\ Cardinality(Decided) <= 1
  /\ lapses = 0 \/ Decided = {} => status[row3] = "none"
TwoCallbacks == lapses = 0 /\ Decided = {} /\ \A k \in Ticks : IsIdle(k) /\ queue[k] = {}

MCBounds == ErrandAlone \/ (RulesAlone /\ (OneCallback \/ TwoCallbacks))
=============================================================================
