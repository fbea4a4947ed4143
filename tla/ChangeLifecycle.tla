--------------------------- MODULE ChangeLifecycle --------------------------
(***************************************************************************)
(* The lifecycle of a change as plans/specs/03-change-management.md        *)
(* sections 3 and 5 state it: one stage at a time along the declared       *)
(* edges, an approval round that opens with the submission and is settled  *)
(* once, a rejection that takes a change waiting for it back to            *)
(* assessment in the same step, a NORMAL change scheduled only on a        *)
(* granted round and an EMERGENCY change closed only on a settled one.     *)
(***************************************************************************)
EXTENDS ChangeStages

CONSTANT Changes

VARIABLES stage,   \* "NONE" until the change is created
          kind,    \* NORMAL or EMERGENCY
          round    \* the latest approval round

vars == <<stage, kind, round>>

Init == /\ stage = [c \in Changes |-> "NONE"]
        /\ kind = [c \in Changes |-> "NORMAL"]
        /\ round = [c \in Changes |-> "NONE"]

Create(c) ==
    /\ stage[c] = "NONE"
    /\ stage' = [stage EXCEPT ![c] = "DRAFT"]
    /\ \E k \in ChangeType : kind' = [kind EXCEPT ![c] = k]
    /\ UNCHANGED round

Submit(c) ==
    /\ stage[c] = "ASSESSING"
    /\ round[c] # "PENDING"
    /\ stage' = [stage EXCEPT ![c] = "APPROVAL"]
    /\ round' = [round EXCEPT ![c] = "PENDING"]
    /\ UNCHANGED kind

Settle(c, outcome) ==
    /\ round[c] = "PENDING"
    /\ round' = [round EXCEPT ![c] = outcome]
    /\ stage' = [stage EXCEPT ![c] =
                   IF outcome = "REJECTED" /\ @ = "APPROVAL" THEN "ASSESSING" ELSE @]
    /\ UNCHANGED kind

MayEnter(c, to) ==
    CASE to = "SCHEDULED" -> kind[c] = "EMERGENCY" \/ round[c] = "APPROVED"
      [] to = "CLOSED"    -> kind[c] = "EMERGENCY" => round[c] \in {"APPROVED", "REJECTED"}
      [] OTHER            -> to # "APPROVAL"

Move(c, to) ==
    /\ stage[c] \in Status
    /\ to \in CHANGE_TRANSITIONS[stage[c]]
    /\ ~(stage[c] = "APPROVAL" /\ to = "ASSESSING")
    /\ MayEnter(c, to)
    /\ stage' = [stage EXCEPT ![c] = to]
    /\ UNCHANGED <<kind, round>>

Next == \E c \in Changes :
           \/ Create(c)
           \/ Submit(c)
           \/ \E outcome \in {"APPROVED", "REJECTED"} : Settle(c, outcome)
           \/ \E to \in Status : Move(c, to)

Spec == Init /\ [][Next]_vars
=============================================================================
