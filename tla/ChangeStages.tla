---------------------------- MODULE ChangeStages ----------------------------
(***************************************************************************)
(* The pure half of the change module, src/server/modules/change/state.ts: *)
(* the lifecycle graph and the exit gates.  No state, no time: a gate is a *)
(* predicate of the row that was read, of the approval status that was     *)
(* read after it, and of the actor's acknowledgement.                      *)
(***************************************************************************)

Status == {"DRAFT", "ASSESSING", "APPROVAL", "SCHEDULED", "IMPLEMENTING",
           "PIR", "CLOSED", "ROLLED_BACK"}

Terminal == {"CLOSED", "ROLLED_BACK"}

ChangeType == {"NORMAL", "EMERGENCY"}

\* MEDIUM behaves as LOW everywhere in the server: only "HIGH" is compared.
Level == {"LOW", "HIGH"}

\* The text columns the gates look at.  Every schema that writes one trims it
\* and demands a character, so a column is either empty or filled for good.
Text == {"rfc", "impactAssessment", "rollbackPlan"}

ApprovalStatus == {"PENDING", "APPROVED", "REJECTED", "CANCELLED"}

\* What a reader of the approval state may see: null when no request exists.
ApprovalView == ApprovalStatus \cup {"NONE"}

CHANGE_TRANSITIONS ==
    [DRAFT        |-> {"ASSESSING"},
     ASSESSING    |-> {"APPROVAL"},
     APPROVAL     |-> {"SCHEDULED", "ASSESSING"},
     SCHEDULED    |-> {"IMPLEMENTING"},
     IMPLEMENTING |-> {"PIR", "ROLLED_BACK"},
     PIR          |-> {"CLOSED"},
     CLOSED       |-> {},
     ROLLED_BACK  |-> {}]

\* Mutant: a status that the schema does not have.
ForwardToDone ==
    [DRAFT        |-> "ASSESSING",
     APPROVAL     |-> "SCHEDULED",
     SCHEDULED    |-> "IMPLEMENTING",
     IMPLEMENTING |-> "PIR",
     PIR          |-> "DONE"]

\* The one forward edge of each stage that POST /advance may take; ASSESSING is
\* left through submitForApproval only.
CHANGE_FORWARD ==
    [DRAFT        |-> "ASSESSING",
     APPROVAL     |-> "SCHEDULED",
     SCHEDULED    |-> "IMPLEMENTING",
     IMPLEMENTING |-> "PIR",
     PIR          |-> "CLOSED"]

DraftGate(row, ack) == "rfc" \in row.text /\ (row.linked \/ ack)

\* Mutant: anything but a rejection lets the change through.
ApprovalGateUnlessRejected(row, approval) ==
    approval # "REJECTED" \/ row.type = "EMERGENCY"

ApprovalGate(row, approval) == approval = "APPROVED" \/ row.type = "EMERGENCY"

\* The window is past once its start is not after the clock.
ScheduledGate(row) == row.window = "future" /\ "rollbackPlan" \in row.text

\* Mutant: an opened request counts as a retrospective decision.
PirGateOnceOpened(row, approval) ==
    /\ row.pir
    /\ row.type = "EMERGENCY" => approval # "NONE"

\* One insert writes both valueRealized and lessons, so the review is one fact.
PirGate(row, approval) ==
    /\ row.pir
    /\ row.type = "EMERGENCY" => approval \notin {"NONE", "PENDING"}

\* gateFor(stage, ...).canAdvance.  ack is the acknowledgement the stage asks
\* for: standaloneConfirmed in DRAFT, wentToPlanAcknowledged in IMPLEMENTING.
CanAdvance(row, approval, ack) ==
    CASE row.status = "DRAFT"        -> DraftGate(row, ack)
      [] row.status = "APPROVAL"     -> ApprovalGate(row, approval)
      [] row.status = "SCHEDULED"    -> ScheduledGate(row)
      [] row.status = "IMPLEMENTING" -> ack
      [] row.status = "PIR"          -> PirGate(row, approval)
      [] OTHER                       -> FALSE

\* submitForApproval's own precondition, the gate of ASSESSING.
AssessingGate(row) ==
    /\ row.risk # "unset"
    /\ {"impactAssessment", "rollbackPlan"} \subseteq row.text

\* Columns a PATCH may not touch any more, and those it may not move under an
\* approval request.
EDIT_LOCKED_STATUSES == {"IMPLEMENTING", "PIR", "CLOSED", "ROLLED_BACK"}
\* Mutant: the risk level is locked by the schedule only.
LockedWhenScheduled == {"SCHEDULED"}

RISK_LOCKED_STATUSES == {"APPROVAL", "SCHEDULED"}
=============================================================================
