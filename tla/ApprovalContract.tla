-------------------------- MODULE ApprovalContract --------------------------
(***************************************************************************)
(* What the approval engine promises whoever opened a request              *)
(* (plans/specs/04-approvals-engine.md section 3): a step that was opened  *)
(* is decided once or skipped once, its record of decisions is written     *)
(* with the decision and never again, and a resolved step never moves.     *)
(***************************************************************************)
EXTENDS Sequences

CONSTANT Steps

VARIABLES status,   \* status of each approval step
          verdicts  \* kinds of the decision rows recorded for it, in order

vars == <<status, verdicts>>

Kinds == {"APPROVED", "REJECTED"}

Init == /\ status = [x \in Steps |-> "ABSENT"]
        /\ verdicts = [x \in Steps |-> <<>>]

\* A fresh round: some steps come into being, pending ones may be dropped.
Reissue(opened, dropped) ==
    /\ \A x \in opened : status[x] = "ABSENT"
    /\ \A x \in dropped : status[x] = "PENDING"
    /\ status' = [x \in Steps |-> IF x \in opened THEN "PENDING"
                                  ELSE IF x \in dropped THEN "SKIPPED"
                                  ELSE status[x]]
    /\ UNCHANGED verdicts

Decide(x, kind) ==
    /\ status[x] = "PENDING"
    /\ status' = [status EXCEPT ![x] = kind]
    /\ verdicts' = [verdicts EXCEPT ![x] = Append(@, kind)]

Next == \/ \E opened, dropped \in SUBSET Steps : Reissue(opened, dropped)
        \/ \E x \in Steps, kind \in Kinds : Decide(x, kind)

Spec == Init /\ [][Next]_vars
=============================================================================
