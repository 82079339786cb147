------------------------------ MODULE MCOutreach ------------------------------
(***************************************************************************)
(* TLC instance of Outreach.  What people do to a sequence and to a        *)
(* campaign is explored one at a time: there is only a sequence, or only a *)
(* campaign, or there are both and next to nothing happens to them.        *)
(***************************************************************************)
EXTENDS Outreach

CONSTANTS c1, c2, c3, k1, k2, q1, p1

(* What may happen: to a sequence; to a campaign that is being prepared or  *)
(* has one recipient; to a campaign scheduled for two; to both together; to *)
(* a sequence with more enrollments than a tick reads.                      *)
CONSTANTS SequenceEvents, CampaignEvents, PairEvents, BothEvents, CrowdEvents

MCContactOf == [r \in Recipients |-> IF r = 1 THEN c1 ELSE c2]

AllPending == \A r \in Recipients : rcp[r] = "pending"

(* At most the first contact is enrolled.                                   *)
AloneInit ==
  /\ ~opted[c1]
  /\ opted[c3]
  /\ \A c \in Contacts \ {c1} : enr[c].status = "none"
  /\ \/ campaign = "none" /\ sequence = "active" /\ opted[c2] /\ acts = MaxEvents - SequenceEvents
     \/ /\ campaign = "draft" \/ (campaign = "scheduled" /\ rcp[2] = "none")
        /\ sequence = "deleted" /\ ~opted[c2] /\ acts = MaxEvents - CampaignEvents
     \/ campaign = "scheduled" /\ AllPending /\ sequence = "deleted" /\ ~opted[c2] /\ acts = MaxEvents - PairEvents
     \/ campaign = "scheduled" /\ AllPending /\ sequence = "active" /\ opted[c2] /\ acts = MaxEvents - BothEvents

(* All contacts are enrolled in a sequence of one step.                     *)
CrowdInit ==
  /\ campaign = "none" /\ sequence = "active"
  /\ steps[k1] = 1 /\ steps[k2] = 0
  /\ \A c \in Contacts : enr[c].status = "active" /\ ~opted[c]
  /\ acts = MaxEvents - CrowdEvents

MCInit == Init /\ (AloneInit \/ CrowdInit)

MCSpec == MCInit /\ [][Next]_vars /\ Fairness
=============================================================================
