---------------------------- MODULE ChangeDrawer ----------------------------
(***************************************************************************)
(* The change drawer, src/app/(internal)/changes/ChangeDrawer.tsx, with    *)
(* the stepper and the approval panel in it and the routes it calls.       *)
(*                                                                         *)
(* The record is a NORMAL change without an originating demand.  met: the  *)
(* server's own gate items of the current stage are done; step: the hat    *)
(* that the current approval step waits for.  Texts are left out: a field  *)
(* is edited or not.                                                       *)
(***************************************************************************)
EXTENDS Drawer, ChangeStages

Tier == [TECHNICAL_APPROVER |-> "technical", BUSINESS_APPROVER |-> "business",
         none |-> "business"]

ChangeRow(status, met, step, rev) ==
    [drawer |-> "change", status |-> status, met |-> met, step |-> step, rev |-> rev]

Approver == {"TECHNICAL_APPROVER", "BUSINESS_APPROVER"}

ChangeRows(rev) ==
    [drawer : {"change"}, status : Status, met : BOOLEAN, step : Approver \cup {"none"},
     rev : {rev}]

\* How a change looks that no write by id has taken out of a stage unseen:
\* while approval is awaited a step waits, or all are decided and the gate is
\* met; IMPLEMENTING asks for the acknowledgement only.
InOrder(r) ==
    /\ r.step # "none" => r.status = "APPROVAL"
    /\ r.status = "APPROVAL" => (r.met <=> r.step = "none")
    /\ r.status \in {"IMPLEMENTING"} \cup Terminal => r.met

-----------------------------------------------------------------------------
(* The server's side of the requests the drawer sends.  actor: [owner,     *)
(* hats]; the outcomes are the row afterwards and the answer.              *)

\* Nothing has come between the read and the write, nor before.
Undisturbed(was) == was = row /\ InOrder(row)

\* The status is written.  What the gate of its stage finds is the row's own
\* business, unless all is in order.
Entering(was, status) ==
    {r \in {[row EXCEPT !.status = status, !.met = m, !.rev = @ + 1] : m \in BOOLEAN} :
       Undisturbed(was) => InOrder(r)}

Developer(actor) == "DEVELOPER" \in actor.hats

GateMet(was, ack) ==
    /\ was.status \in DOMAIN CHANGE_FORWARD
    /\ was.met
    /\ was.status \in {"DRAFT", "IMPLEMENTING"} => ack = "acknowledged"

\* Neither a window nor a review is there before its stage.
Advanced(was) ==
    {r \in Entering(was, CHANGE_FORWARD[was.status]) :
       Undisturbed(was) /\ r.status \in {"SCHEDULED", "PIR"} => ~r.met}

\* Mutant: the stage the client saw is not compared.
AdvanceServedBlindly(actor, op) ==
    IF Developer(actor) /\ GateMet(op.read, op.arg) THEN Accepted(Advanced(op.read))
                                                    ELSE Refused

AdvanceServed(actor, op) ==
    IF ~Developer(actor) THEN Refused
    ELSE IF op.seen # op.read.status THEN Conflict
    ELSE IF GateMet(op.read, op.arg) THEN Accepted(Advanced(op.read))
    ELSE Refused

\* The pending request is cancelled and a new one opened.
SubmitServed(actor, op) ==
    IF actor.owner /\ op.read.status = "ASSESSING" /\ op.read.met
    THEN Accepted({ChangeRow("APPROVAL", FALSE, "TECHNICAL_APPROVER", row.rev + 1)})
    ELSE Refused

\* A PATCH fills a column, which may or may not be the last that was missing.
EditServed(actor, op) ==
    IF (actor.owner \/ Developer(actor)) /\ op.read.status \notin EDIT_LOCKED_STATUSES
         /\ (op.arg = "risk" => op.read.status \notin RISK_LOCKED_STATUSES)
    THEN Accepted({r \in {[row EXCEPT !.met = m, !.rev = @ + 1] : m \in {row.met, TRUE}} :
                     r.status \notin {"DRAFT", "ASSESSING"} => r.met = row.met})
    ELSE Refused

\* The window, and the stage if approval was read.
Windowed(was) ==
    LET status == IF was.status = "APPROVAL" THEN "SCHEDULED" ELSE row.status
    IN  [row EXCEPT !.status = status, !.met = @ \/ status = "SCHEDULED", !.rev = @ + 1]

\* The window may have begun when the request is served.
ScheduleServed(actor, op) ==
    IF Developer(actor)
         /\ (op.read.status = "SCHEDULED" \/ (op.read.status = "APPROVAL" /\ op.read.met))
    THEN Accepted({Windowed(op.read)}) \cup Refused
    ELSE Refused

\* The review is written once: of a change that has left its review meanwhile
\* one may be there or not.
PirServed(actor, op) ==
    IF ~Developer(actor) \/ op.read.status # "PIR" THEN Refused
    ELSE IF op.read.met \/ (row.status = "PIR" /\ row.met) THEN Conflict
    ELSE Accepted({[row EXCEPT !.met = @ \/ row.status = "PIR", !.rev = @ + 1]})
         \cup (IF row.status = "PIR" THEN {} ELSE Conflict)

RollbackServed(actor, op) ==
    IF Developer(actor) /\ op.read.status = "IMPLEMENTING"
    THEN Accepted(Entering(op.read, "ROLLED_BACK"))
    ELSE Refused

\* The incident may be linked already, or not exist.
LinkServed(actor) ==
    IF actor.owner \/ Developer(actor)
    THEN Accepted({row, [row EXCEPT !.rev = @ + 1]}) \cup Refused
    ELSE Refused

\* The last tier leaves no step, the first one may leave the other.
Approved ==
    UNION {{[row EXCEPT !.step = t, !.met = m, !.rev = @ + 1] : m \in BOOLEAN} :
             t \in {"BUSINESS_APPROVER", "none"} \ {row.step}}

\* The request is closed, and the change is sent back if it was read in approval.
SentBack(was) ==
    {[row EXCEPT !.step = "none", !.met = m, !.rev = @ + 1,
                 !.status = IF was.status = "APPROVAL" THEN "ASSESSING" ELSE @] :
       m \in IF Undisturbed(was) THEN {TRUE} ELSE BOOLEAN}

\* By now another request may wait for the same hat.
Superseded(was) == IF was = row THEN {} ELSE Conflict

\* The decision is recorded on the step that was current when it was looked
\* up, if that still waits; the tier of the path only picks the rule that is
\* asked first.  A business step exists on a HIGH risk change only, where both
\* tiers pass.
DecideServed(actor, op) ==
    IF op.read.step = "none" THEN Conflict
    ELSE IF actor.owner /\ op.do # "override" THEN {Outcome(row, "segregation")}
    ELSE IF op.read.step \notin actor.hats THEN Refused
    ELSE IF op.read.step # row.step THEN Conflict
    ELSE IF op.arg = "REJECTED" THEN Accepted(SentBack(op.read)) \cup Superseded(op.read)
    ELSE Accepted({r \in Approved : Undisturbed(op.read) => InOrder(r)}) \cup Superseded(op.read)

\* The review comment leaves the change as it is.
ReviewServed(actor) ==
    IF "REVIEWER" \in actor.hats THEN Accepted({row}) ELSE Refused

ChangeOutcomes(actor, op) ==
    CASE op.do = "advance"  -> AdvanceServed(actor, op)
      [] op.do = "submit"   -> SubmitServed(actor, op)
      [] op.do = "edit"     -> EditServed(actor, op)
      [] op.do = "schedule" -> ScheduleServed(actor, op)
      [] op.do = "pir"      -> PirServed(actor, op)
      [] op.do = "rollback" -> RollbackServed(actor, op)
      [] op.do = "link"     -> LinkServed(actor)
      [] op.do \in {"decide", "override"} -> DecideServed(actor, op)
      [] op.do = "post"     -> ReviewServed(actor)

-----------------------------------------------------------------------------
(* Loading and reloading.  One GET after the other; the thread only for a  *)
(* reviewer.                                                               *)

isReviewer == Hat("REVIEWER")

ChangeParts == {"row"}

\* The panel's own state lives as long as the control that keeps it.
Decidable(view) == view.step # "none" /\ view.step \in viewer.hats

needsOverride == viewer.owner

\* setChange and the effect it triggers.
ChangeShown(u, view) ==
    [u EXCEPT !.view = view, !.edit = "none", !.alert = FALSE, !.note = FALSE,
              !.ack = FALSE,
              !.mode = IF Decidable(view) THEN @ ELSE "none",
              !.dialog = IF Decidable(view) THEN @ ELSE "none"]

\* refetch: the row is in, the thread is asked for.
ChangeRowIn(s) ==
    /\ Arrived(s) /\ call[s].all = {"row"} /\ isReviewer
    /\ ui' = ChangeShown(ui, call[s].row)
    /\ Reads(s, call[s].then, {"thread"})
    /\ UNCHANGED <<viewer, row, stored, orphans, others, clicks, session>>

\* What the last GET of the chain brings.
ChangeReread(s) ==
    IF isReviewer THEN [ui EXCEPT !.thread = call[s].thread]
                  ELSE ChangeShown(ui, call[s].row)

ChangeRead(s) == Arrived(s) /\ (isReviewer => call[s].all = {"thread"})

ChangeLoaded ==
    /\ ChangeRead("load")
    /\ ui' = [ChangeReread("load") EXCEPT !.loading = FALSE]
    /\ Ends("load")
    /\ UNCHANGED <<viewer, row, stored, orphans, others, clicks, session>>

-----------------------------------------------------------------------------
(* runWrite and onDecision.                                                *)

\* Mutant: the write is not followed by a refetch.
WriteDoneUnread(s) ==
    /\ Answered(s, "ok") /\ ~Posts(s)
    /\ ui' = [ui EXCEPT !.busy = FALSE] /\ last' = "ok"
    /\ Ends(s)
    /\ UNCHANGED <<viewer, row, stored, orphans, others, clicks, warned, landed, overlapped>>

\* A refused owner would be answered "segregation", but an owner's decision
\* always comes with its justification.
ChangeWriteDone(s) ==
    /\ Answered(s, "ok") /\ ~Posts(s)
    /\ Reads(s, "write", ChangeParts)
    /\ UNCHANGED <<viewer, row, stored, ui, orphans, others, clicks, session>>

\* The catch of a 409 conflict: a note, and a refetch outside the try.
ChangeWriteConflicts(s) ==
    /\ Answered(s, "conflict")
    /\ ui' = [ui EXCEPT !.note = TRUE]
    /\ Reads(s, "conflict", ChangeParts)
    /\ UNCHANGED <<viewer, row, stored, orphans, others, clicks, session>>

ChangeWriteShown(s) ==
    /\ ChangeRead(s) /\ call[s].then \in {"write", "conflict"}
    /\ WriteEnds(s, ChangeReread(s), IF call[s].then = "write" THEN "ok" ELSE "conflict")

-----------------------------------------------------------------------------
(* The panels: when a control can be clicked, and what it sends.           *)

canEdit == viewer.owner \/ Hat("DEVELOPER")

needsAck == ui.view.status \in {"DRAFT", "IMPLEMENTING"}

\* LifecycleStepper: the boxes of the current stage.  Only the two free
\* acknowledgements do anything.
ToggleGate ==
    /\ Usable /\ needsAck
    /\ ui' = [ui EXCEPT !.ack = ~@]
    /\ UNCHANGED <<viewer, row, stored, call, orphans, others, clicks, session>>

\* canAdvance of the server, or the gate with the local box folded in; a
\* stage that is left by submission is for the owner.
effectiveCanAdvance ==
    /\ ui.view.status \notin Terminal
    /\ ui.view.met
    /\ needsAck => ui.ack
    /\ ui.view.status = "ASSESSING" => viewer.owner

\* The button is not disabled by a write that is under way.
Advance(s) ==
    /\ Usable /\ effectiveCanAdvance
    /\ RunWrite(s, IF ui.view.status = "ASSESSING" THEN Request("submit", "none")
                    ELSE Request("advance", IF ui.ack THEN "acknowledged" ELSE "none"))

SaveRfc(s) == Unlocked /\ canEdit /\ ui.edit = "rfc" /\ RunWrite(s, Request("edit", "rfc"))

\* The risk level, the impact assessment, or both: the risk level is what the
\* server may refuse.
SaveRiskImpact(s) ==
    Unlocked /\ canEdit /\ ui.edit = "risk" /\ RunWrite(s, Request("edit", "risk"))

SaveRollbackPlan(s) ==
    Unlocked /\ canEdit /\ ui.edit = "rollback" /\ RunWrite(s, Request("edit", "rollback"))

SaveWindow(s) ==
    /\ Unlocked /\ ui.edit = "window" /\ ui.view.status \in {"APPROVAL", "SCHEDULED"}
    /\ RunWrite(s, Request("schedule", "window"))

RecordPir(s) ==
    /\ Unlocked /\ ui.edit = "pir" /\ ui.view.status = "PIR"
    /\ RunWrite(s, Request("pir", "pir"))

\* The panel of the rollback shows its note first, then the confirmation.
MarkRolledBack(s) ==
    /\ Unlocked /\ ui.edit = "note" /\ ui.view.status = "IMPLEMENTING"
    /\ RunWrite(s, Request("rollback", "note"))

AddLink(s) ==
    Unlocked /\ canEdit /\ ui.edit = "link" /\ RunWrite(s, Request("link", "link"))

\* Approve and Reject of DecideControls; a second click closes the form.
Pick(decision) ==
    /\ Unlocked /\ Decidable(ui.view) /\ ~needsOverride
    /\ ui' = [ui EXCEPT !.mode = IF @ = decision THEN "none" ELSE decision]
    /\ UNCHANGED <<viewer, row, stored, call, orphans, others, clicks, session>>

ConfirmDecision(s) ==
    /\ Unlocked /\ ui.mode # "none" /\ Decidable(ui.view) /\ ~needsOverride
    /\ RunWrite(s, Request("decide", ui.mode))

\* OverrideControl: its dialog opens over the drawer, and stays open after the
\* decision as long as the next step is the viewer's, too.
OpenOverride ==
    /\ Unlocked /\ Decidable(ui.view) /\ needsOverride
    /\ ui' = [ui EXCEPT !.dialog = "override"]
    /\ UNCHANGED <<viewer, row, stored, call, orphans, others, clicks, session>>

ConfirmOverride(s) ==
    /\ Rendered /\ ui.dialog = "override" /\ ~ui.busy
    /\ RunWrite(s, Request("override", "APPROVED"))

CloseOverride ==
    /\ Rendered /\ ui.dialog = "override" /\ ~ui.busy
    /\ ui' = [ui EXCEPT !.dialog = "none"]
    /\ UNCHANGED <<viewer, row, stored, call, orphans, others, clicks, session>>

-----------------------------------------------------------------------------
ChangeClick(s) ==
    \/ Advance(s) \/ SaveRfc(s) \/ SaveRiskImpact(s) \/ SaveRollbackPlan(s)
    \/ SaveWindow(s) \/ RecordPir(s) \/ MarkRolledBack(s) \/ AddLink(s)
    \/ ConfirmDecision(s) \/ ConfirmOverride(s)

\* The fields the panels show.
ChangeFields ==
    (IF canEdit THEN {"rfc", "risk", "rollback", "link"} ELSE {})
    \cup (IF ui.view.status \in {"APPROVAL", "SCHEDULED"} THEN {"window"} ELSE {})
    \cup (IF ui.view.status = "IMPLEMENTING" THEN {"pir", "note"} ELSE {})
    \cup (IF ui.view.status = "PIR" THEN {"pir"} ELSE {})

ChangeInput ==
    \/ ToggleGate \/ OpenOverride \/ CloseOverride
    \/ \E d \in {"APPROVED", "REJECTED"} : Pick(d)
    \/ \E f \in ChangeFields : Edit(f)

ChangeAnswer ==
    \/ ChangeLoaded
    \/ \E s \in Slots : ChangeRowIn(s)
    \/ \E s \in CallSlots :
          \/ ChangeWriteDone(s) \/ ChangeWriteConflicts(s) \/ ChangeWriteShown(s)
          \/ PostDone(s, ChangeParts)
          \/ ChangeRead(s) /\ PostShown(s, ChangeReread(s))

ChangeRequests ==
    {[do |-> d, arg |-> "acknowledged", seen |-> theirs.status, read |-> theirs] :
        d \in {"advance", "submit", "schedule", "pir", "rollback"}}
    \cup {[do |-> "edit", arg |-> "rfc", read |-> theirs]}
    \cup {[do |-> "decide", arg |-> a, read |-> theirs] : a \in {"APPROVED", "REJECTED"}}

\* The clock passes the window of a scheduled change.
WindowPasses ==
    row.status = "SCHEDULED" /\ Turns([row EXCEPT !.met = FALSE, !.rev = @ + 1])

ChangeWrittenByOthers ==
    \E op \in ChangeRequests, b \in BOOLEAN :
        \E o \in ChangeOutcomes([owner |-> b, hats |-> Everyone], op) : TheyWrite(o)
=============================================================================
