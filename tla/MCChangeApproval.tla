-------------------------- MODULE MCChangeApproval --------------------------
(* Small instances of ChangeApproval for TLC. *)
EXTENDS ChangeApproval, TLC

CONSTANTS ada, bob, h1, h2

\* Two people run everything: ada wears every approver hat, bob cannot give
\* the business approval.  Either may own the change.
MCHats == [u \in {ada, bob} |->
             IF u = ada THEN {"DEVELOPER", "TECHNICAL_APPROVER", "BUSINESS_APPROVER"}
                        ELSE {"DEVELOPER", "TECHNICAL_APPROVER"}]

\* Everything the two creation paths can make.
MCNew == [type : ChangeType, text : {{"rfc"}}, linked : BOOLEAN]
            \cup {[type |-> "NORMAL", text |-> {}, linked |-> TRUE]}

\* A standalone change of either type.
MCStandalone == [type : ChangeType, text : {{"rfc"}}, linked : {FALSE}]

\* One PATCH per thing the gates and the policy can tell apart.
MCEdits == {[risk |-> "LOW",  text |-> {}],
            [risk |-> "HIGH", text |-> {}],
            [risk |-> "keep", text |-> {"impactAssessment", "rollbackPlan"}],
            [risk |-> "keep", text |-> {"rfc"}]}

\* ada owns every change and wears every hat; bob is the second technical
\* approver, so the business step of a change needs ada's override.
MCApprovers == [u \in {ada, bob} |->
                  IF u = ada THEN {"DEVELOPER", "TECHNICAL_APPROVER", "BUSINESS_APPROVER"}
                             ELSE {"TECHNICAL_APPROVER"}]

\* ada builds, bob approves: who decides is not the question.
MCBuilderApprover == [u \in {ada, bob} |->
                        IF u = ada THEN {"DEVELOPER"} ELSE {"TECHNICAL_APPROVER"}]

\* Only the emergency type can move while its request is pending.
MCEmergency == {[type |-> "EMERGENCY", text |-> {"rfc"}, linked |-> FALSE]}

MCLowEdit == {[risk |-> "LOW", text |-> Text]}

\* The engine's part of the lifecycle: no state past the first scheduling is
\* expanded, and the clock stands still.
UpToScheduled ==
    \A c \in Changes : change[c] # NoRow =>
        /\ change[c].status \in {"DRAFT", "ASSESSING", "APPROVAL", "SCHEDULED"}
        /\ change[c].window = "none"

\* One PATCH fills the assessment at either risk: the races are not about
\* which fields are empty.
MCRiskEdits == {[risk |-> r, text |-> Text] : r \in Level}

HandlerSymmetry == Permutations({h1, h2})
=============================================================================
