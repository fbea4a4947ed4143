----------------------------- MODULE Approvals ------------------------------
(***************************************************************************)
(* The subject-agnostic rules of the approval engine,                      *)
(* src/server/modules/approval/state.ts and the row shapes service.ts      *)
(* writes: a request has one or two steps, each owned by a hat, decided in *)
(* order.  A step that the policy does not have is "ABSENT".               *)
(***************************************************************************)
EXTENDS Naturals, Sequences, ChangeStages

Hat == {"DEVELOPER", "REVIEWER", "TECHNICAL_APPROVER", "BUSINESS_APPROVER"}

StepStatus == {"PENDING", "APPROVED", "REJECTED", "SKIPPED"}

Decision == {"APPROVED", "REJECTED"}

Policy == {"change.standard", "change.high_risk"}

\* Step orders.  v1 has no policy with more than two steps.
Order == 1..2

RequiredHat == <<"TECHNICAL_APPROVER", "BUSINESS_APPROVER">>

PolicyFor(risk) == IF risk = "HIGH" THEN "change.high_risk" ELSE "change.standard"

OpenSteps(policy) ==
    [k \in Order |-> IF k = 1 \/ policy = "change.high_risk" THEN "PENDING"
                                                             ELSE "ABSENT"]

Present(step) == {k \in Order : step[k] # "ABSENT"}

\* Mutant: any pending step may be answered.
IsPendingStep(step, k) == step[k] = "PENDING"

\* currentStep: the lowest pending order is k.
IsCurrent(step, k) ==
    /\ step[k] = "PENDING"
    /\ \A j \in Order : j < k => step[j] # "PENDING"

\* Mutant: one approval is enough.
ResolveOnAnyApproval(step) ==
    IF \E k \in Order : step[k] = "REJECTED" THEN "REJECTED"
    ELSE IF \E k \in Present(step) : step[k] = "APPROVED" THEN "APPROVED"
    ELSE "PENDING"

\* resolveRequestStatus: one rejection rejects, approval needs every step.
ResolveRequestStatus(step) ==
    IF \E k \in Order : step[k] = "REJECTED" THEN "REJECTED"
    ELSE IF \A k \in Present(step) : step[k] = "APPROVED" THEN "APPROVED"
    ELSE "PENDING"

\* Mutant: the update lacks its status condition.
SkipAll(step) == [k \in Order |-> IF step[k] = "ABSENT" THEN "ABSENT" ELSE "SKIPPED"]

\* updateMany({ status: PENDING }, { status: SKIPPED })
SkipPending(step) ==
    [k \in Order |-> IF step[k] = "PENDING" THEN "SKIPPED" ELSE step[k]]
=============================================================================
