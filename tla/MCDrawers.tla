------------------------------ MODULE MCDrawers ------------------------------
EXTENDS Drawers

Opens(drawer, owner, hats, touches, records) ==
    {[viewer |-> [drawer |-> drawer, owner |-> owner, hats |-> hats, touches |-> touches],
      record |-> r] : r \in records}

Approves == {"TECHNICAL_APPROVER", "BUSINESS_APPROVER"}

\* The developer who owns the change and approves both tiers, an approver who
\* may also review it, an incident's developer, and for demands the submitter,
\* another approver and a developer, who decides nothing.
MCCases ==
    Opens("change", TRUE, {"DEVELOPER"}, {"rfc"}, {ChangeRow("DRAFT", TRUE, "none", 0)})
    \cup Opens("change", TRUE, {"DEVELOPER"} \cup Approves, {"risk"},
               {ChangeRow("ASSESSING", TRUE, "none", 0)})
    \cup Opens("change", FALSE, {"DEVELOPER"}, {"window", "rollback", "link"},
               {ChangeRow("SCHEDULED", FALSE, "none", 0)})
    \cup Opens("change", FALSE, {"DEVELOPER"}, {"pir", "note"},
               {ChangeRow("IMPLEMENTING", TRUE, "none", 0)})
    \cup Opens("change", FALSE, {"REVIEWER", "TECHNICAL_APPROVER"}, {},
               {ChangeRow("APPROVAL", FALSE, "TECHNICAL_APPROVER", 0)})
    \cup Opens("incident", FALSE, {"DEVELOPER"}, {"assignee"}, {IncidentRow("ASSIGNED", 0)})
    \cup Opens("incident", FALSE, {"DEVELOPER"}, {"resolution", "reason"}, {IncidentRow("RESOLVED", 0)})
    \cup Opens("incident", FALSE, {"DEVELOPER"}, {"grade"}, {IncidentRow("IN_PROGRESS", 0)})
    \cup Opens("demand", TRUE, {"BUSINESS_APPROVER"}, {"value"},
               {DemandRow("TRIAGING", "none", 0)})
    \cup Opens("demand", FALSE, {"TECHNICAL_APPROVER"}, {"effort", "costOfDelay", "reject"},
               {DemandRow("SUBMITTED", "none", 0), DemandRow("APPROVED", "PURSUE", 0)})
    \cup Opens("demand", FALSE, {"DEVELOPER"}, {"costOfDelay"}, {DemandRow("TRIAGING", "none", 0)})
=============================================================================
