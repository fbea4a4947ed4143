------------------------------ MODULE MCSweep -------------------------------
(* Small instances of Incident for the sweep's liveness. *)
EXTENDS Incident, TLC

\* What is overdue at the first mark, or at the second.
UrgentGrades == {<<"HIGH", "HIGH">>, <<"MEDIUM", "HIGH">>}
=============================================================================
