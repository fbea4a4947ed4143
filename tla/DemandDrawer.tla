---------------------------- MODULE DemandDrawer ----------------------------
(***************************************************************************)
(* The demand drawer, src/app/(internal)/demands/DemandDrawer.tsx, with    *)
(* its override dialog and the routes it calls.                            *)
(*                                                                         *)
(* Of the record the status and the worth decision are kept (its field     *)
(* step); the assessment is complete from WORTH_ASSESSED on.  The viewer   *)
(* is internal, and owner says that she is the submitter.                  *)
(***************************************************************************)
EXTENDS Drawer

DemandStatus == {"SUBMITTED", "TRIAGING", "WORTH_ASSESSED", "APPROVED", "REJECTED", "CONVERTED"}

Choice == {"PURSUE", "PARK", "DROP"}

DemandRow(status, decision, rev) ==
    [drawer |-> "demand", status |-> status, step |-> decision, rev |-> rev]

DemandRows(rev) ==
    [drawer : {"demand"}, status : DemandStatus, step : Choice \cup {"none"}, rev : {rev}]

DemandBecomes(status, decision) == Accepted({DemandRow(status, decision, row.rev + 1)})

-----------------------------------------------------------------------------
(* The server's side.                                                      *)

Decider(hats) == hats \cap {"BUSINESS_APPROVER", "TECHNICAL_APPROVER"} # {}

AwaitsDecision(r) == r.status = "WORTH_ASSESSED" \/ (r.status = "APPROVED" /\ r.step = "PARK")

TriageServed(op) ==
    IF op.read.status = "SUBMITTED" THEN DemandBecomes("TRIAGING", row.step) ELSE Refused

Scorer == [value |-> {"BUSINESS_APPROVER"}, effort |-> {"TECHNICAL_APPROVER"},
           costOfDelay |-> Everyone]

\* The last of the three answers completes the assessment.
ScoreServed(actor, op) ==
    IF op.read.status = "TRIAGING"
         /\ (op.arg # "costOfDelay" => actor.hats \cap Scorer[op.arg] # {})
    THEN DemandBecomes(row.status, row.step) \cup DemandBecomes("WORTH_ASSESSED", row.step)
    ELSE Refused

\* Without a justification the submitter is referred to the override.
DecisionServed(actor, op) ==
    IF ~Decider(actor.hats) THEN Refused
    ELSE IF actor.owner /\ op.do # "override" THEN {Outcome(row, "segregation")}
    ELSE IF ~AwaitsDecision(op.read) THEN Refused
    ELSE DemandBecomes(IF op.arg = "DROP" THEN "REJECTED" ELSE "APPROVED", op.arg)

RejectServed(actor, op) ==
    IF Decider(actor.hats) /\ AwaitsDecision(op.read) THEN DemandBecomes("REJECTED", "DROP")
                                                      ELSE Refused

\* A converted demand is not converted again: its change is the answer.  When
\* both transactions have read it before, the unique key may stop the second.
ConvertServed(actor, op) ==
    IF ~Decider(actor.hats) THEN Refused
    ELSE IF op.read.status = "CONVERTED" THEN Accepted({row})
    ELSE IF ~(op.read.status = "APPROVED" /\ op.read.step = "PURSUE") THEN Refused
    ELSE IF op.read = row THEN DemandBecomes("CONVERTED", row.step)
    ELSE DemandBecomes("CONVERTED", row.step) \cup Accepted({row}) \cup Refused

DemandCommentServed == Accepted({row})

DemandOutcomes(actor, op) ==
    CASE op.do = "triage"  -> TriageServed(op)
      [] op.do = "score"   -> ScoreServed(actor, op)
      [] op.do \in {"decide", "override"} -> DecisionServed(actor, op)
      [] op.do = "reject"  -> RejectServed(actor, op)
      [] op.do = "convert" -> ConvertServed(actor, op)
      [] op.do = "post"    -> DemandCommentServed

-----------------------------------------------------------------------------
(* Loading and reloading.                                                  *)

\* setDemand and the effect it triggers.
DemandShown(u, view) == [u EXCEPT !.view = view, !.edit = "none", !.alert = FALSE]

DemandReread(s) == [DemandShown(ui, call[s].row) EXCEPT !.thread = call[s].thread]

DemandLoaded ==
    /\ Arrived("load")
    /\ ui' = [DemandReread("load") EXCEPT !.loading = FALSE]
    /\ Ends("load")
    /\ UNCHANGED <<viewer, row, stored, orphans, others, clicks, session>>

DemandWriteShown(s) == Arrived(s) /\ call[s].then = "write" /\ WriteEnds(s, DemandReread(s), "ok")

-----------------------------------------------------------------------------
(* runWrite, onConvert and sendDecision.                                   *)

Deciding(s) == UnderWay(s) /\ call[s].op.do \in {"decide", "override"}

DemandWriteDone(s) ==
    /\ Answered(s, "ok") /\ call[s].op.do \notin {"decide", "override", "convert", "post"}
    /\ Reads(s, "write", Together)
    /\ UNCHANGED <<viewer, row, stored, ui, orphans, others, clicks, session>>

\* router.push: busy is kept, the drawer goes when the next page comes.
Converted(s) ==
    /\ Answered(s, "ok") /\ call[s].op.do = "convert"
    /\ call' = [call EXCEPT ![s] = [at |-> "leaving"]]
    /\ UNCHANGED <<viewer, row, stored, ui, orphans, others, clicks, session>>

Leave(s) == call[s].at = "leaving" /\ Unmount

\* Mutant: the decision that was asked about is not forgotten.
DialogClosedOnly(u) == [u EXCEPT !.dialog = "none"]

DialogClosed(u) == [u EXCEPT !.dialog = "none", !.mode = "none"]

DecisionDone(s) ==
    /\ Answered(s, "ok") /\ Deciding(s)
    /\ ui' = DialogClosed(ui)
    /\ Reads(s, "decision", Together)
    /\ UNCHANGED <<viewer, row, stored, orphans, others, clicks, session>>

DecisionShown(s) == Arrived(s) /\ call[s].then = "decision" /\ WriteEnds(s, DemandReread(s), "ok")

\* Any failure, the one of the refetch included, closes the dialog.  The 409
\* that would open it cannot come: the submitter never decides without it.
DecisionFails(s) ==
    /\ \/ (Answered(s, "refused") \/ Answered(s, "lost")) /\ Deciding(s)
       \/ call[s].at = "reading" /\ call[s].then = "decision"
    /\ WriteEnds(s, [DialogClosed(ui) EXCEPT !.alert = TRUE], "failed")

-----------------------------------------------------------------------------
(* The panels.                                                             *)

isSubmitter == viewer.owner

canDecide == Decider(viewer.hats)

showConvert == ui.view.status = "APPROVED" /\ ui.view.step = "PURSUE"

canSubmitDecision == canDecide /\ AwaitsDecision(ui.view)

\* The message of a failed write is part of this panel.
showDecisionPanel == canDecide \/ showConvert

StartTriage(s) ==
    Unlocked /\ ui.view.status = "SUBMITTED" /\ RunWrite(s, Request("triage", "triage"))

SaveValue(s) ==
    /\ Unlocked /\ Hat("BUSINESS_APPROVER") /\ ui.view.status = "TRIAGING" /\ ui.edit = "value"
    /\ RunWrite(s, Request("score", "value"))

SaveEffort(s) ==
    /\ Unlocked /\ Hat("TECHNICAL_APPROVER") /\ ui.view.status = "TRIAGING" /\ ui.edit = "effort"
    /\ RunWrite(s, Request("score", "effort"))

SaveCostOfDelay(s) ==
    /\ Unlocked /\ ui.view.status = "TRIAGING" /\ ui.edit = "costOfDelay"
    /\ RunWrite(s, Request("score", "costOfDelay"))

\* onDecisionClick of somebody else than the submitter.
ClickDecision(s, d) ==
    /\ Unlocked /\ canSubmitDecision /\ ~isSubmitter
    /\ RunWrite(s, Request("decide", d))

\* The submitter gets the dialog at once.
ClickOwnDecision(d) ==
    /\ Unlocked /\ canSubmitDecision /\ isSubmitter
    /\ ui' = [ui EXCEPT !.alert = FALSE, !.mode = d, !.dialog = "override"]
    /\ last' = "none"
    /\ UNCHANGED <<viewer, row, stored, call, orphans, others, clicks, warned, landed, overlapped>>

ConfirmJustified(s) ==
    /\ Rendered /\ ui.dialog = "override" /\ ~ui.busy /\ ui.mode # "none"
    /\ RunWrite(s, Request("override", ui.mode))

CancelOverride ==
    /\ Rendered /\ ui.dialog = "override" /\ ~ui.busy
    /\ ui' = DialogClosed(ui)
    /\ UNCHANGED <<viewer, row, stored, call, orphans, others, clicks, session>>

ConfirmReject(s) ==
    /\ Unlocked /\ showDecisionPanel /\ ui.edit = "reject"
    /\ RunWrite(s, Request("reject", "reject"))

Convert(s) == Unlocked /\ showConvert /\ RunWrite(s, Request("convert", "convert"))

DemandFields ==
    (IF ui.view.status # "TRIAGING" THEN {}
     ELSE {"costOfDelay"} \cup {f \in {"value", "effort"} : viewer.hats \cap Scorer[f] # {}})
    \cup (IF canSubmitDecision /\ ~ui.busy THEN {"reject"} ELSE {})

-----------------------------------------------------------------------------
DemandClick(s) ==
    \/ StartTriage(s) \/ SaveValue(s) \/ SaveEffort(s) \/ SaveCostOfDelay(s)
    \/ \E d \in Choice : ClickDecision(s, d)
    \/ ConfirmJustified(s) \/ ConfirmReject(s) \/ Convert(s)

DemandInput ==
    \/ \E f \in DemandFields : Edit(f)
    \/ \E d \in Choice : ClickOwnDecision(d)
    \/ CancelOverride

DemandAnswer ==
    \/ DemandLoaded
    \/ \E s \in CallSlots :
          \/ DemandWriteDone(s) \/ Converted(s) \/ Leave(s) \/ DecisionDone(s)
          \/ DecisionShown(s)
          \/ DemandWriteShown(s)
          \/ PostDone(s, Together)
          \/ Arrived(s) /\ PostShown(s, DemandReread(s))

DemandRequests ==
    {[do |-> d, arg |-> d, read |-> theirs] : d \in {"triage", "reject", "convert"}}
    \cup {[do |-> "score", arg |-> "costOfDelay", read |-> theirs]}
    \cup {[do |-> "decide", arg |-> d, read |-> theirs] : d \in Choice}

DemandWrittenByOthers ==
    \E op \in DemandRequests :
        \E o \in DemandOutcomes([owner |-> FALSE, hats |-> Everyone], op) : TheyWrite(o)
=============================================================================
