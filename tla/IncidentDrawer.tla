--------------------------- MODULE IncidentDrawer ---------------------------
(***************************************************************************)
(* The incident drawer, src/app/(internal)/incidents/IncidentDrawer.tsx,   *)
(* and the routes it calls.  Of the record only the status is kept; the    *)
(* assignee picker always has somebody to offer.                           *)
(***************************************************************************)
EXTENDS Drawer

IncidentStatus == {"NEW", "ASSIGNED", "IN_PROGRESS", "RESOLVED", "CLOSED"}

IncidentRow(status, rev) == [drawer |-> "incident", status |-> status, rev |-> rev]

IncidentRows(rev) == [drawer : {"incident"}, status : IncidentStatus, rev : {rev}]

IncidentBecomes(status) == Accepted({IncidentRow(status, row.rev + 1)})

-----------------------------------------------------------------------------
(* The server's side.                                                      *)

Unstarted == {"NEW", "ASSIGNED"}

\* op.arg: a reason is sent along.  The status is not written.
CategorizeServed(actor, op) ==
    IF "DEVELOPER" \in actor.hats /\ (op.read.status \in Unstarted \/ op.arg = "reason")
    THEN IncidentBecomes(row.status)
    ELSE Refused

\* The status that was read is written back.
AssignServed(actor, op) ==
    IF "DEVELOPER" \in actor.hats /\ op.read.status \notin {"RESOLVED", "CLOSED"}
    THEN IncidentBecomes(IF op.read.status = "NEW" THEN "ASSIGNED" ELSE op.read.status)
    ELSE Refused

TransitionServed(actor, op) ==
    IF "DEVELOPER" \in actor.hats
         /\ <<op.read.status, op.arg>> \in {<<"ASSIGNED", "IN_PROGRESS">>,
                                            <<"IN_PROGRESS", "RESOLVED">>, <<"RESOLVED", "CLOSED">>}
    THEN IncidentBecomes(op.arg)
    ELSE Refused

\* A closed incident may be past its window.
ReopenServed(actor, op) ==
    IF "DEVELOPER" \in actor.hats /\ op.read.status \in {"ASSIGNED", "RESOLVED", "CLOSED"}
    THEN IncidentBecomes("IN_PROGRESS")
         \cup (IF op.read.status = "CLOSED" THEN Refused ELSE {})
    ELSE Refused

CommentServed == Accepted({row})

IncidentOutcomes(actor, op) ==
    CASE op.do = "categorize" -> CategorizeServed(actor, op)
      [] op.do = "assign"     -> AssignServed(actor, op)
      [] op.do = "transition" -> TransitionServed(actor, op)
      [] op.do = "reopen"     -> ReopenServed(actor, op)
      [] op.do = "post"       -> CommentServed

-----------------------------------------------------------------------------
(* Loading, reloading, and the ends of the async functions.                *)

canWrite == Hat("DEVELOPER")

\* setIncident and the effect it triggers.
IncidentShown(u, view) == [u EXCEPT !.view = view, !.edit = "none", !.alert = FALSE]

IncidentReread(s) == [IncidentShown(ui, call[s].row) EXCEPT !.thread = call[s].thread]

IncidentLoaded ==
    /\ Arrived("load")
    /\ ui' = [IncidentReread("load") EXCEPT !.loading = FALSE]
    /\ Ends("load")
    /\ UNCHANGED <<viewer, row, stored, orphans, others, clicks, session>>

IncidentRefetch(s) ==
    /\ Answered(s, "ok") /\ ~Posts(s)
    /\ Reads(s, "write", Together)
    /\ UNCHANGED <<viewer, row, stored, ui, orphans, others, clicks, session>>

IncidentWriteShown(s) == Arrived(s) /\ ~Posts(s) /\ WriteEnds(s, IncidentReread(s), "ok")

-----------------------------------------------------------------------------
(* The panels.                                                             *)

categorisationLocked == ui.view.status \notin Unstarted

\* With a reason once work has started: the form is not valid without.
SaveCategorisation(s) ==
    /\ Unlocked /\ canWrite /\ ui.edit = "grade"
    /\ RunWrite(s, Request("categorize", IF categorisationLocked THEN "reason" ELSE "none"))

\* Mutant: the button is not disabled while a write is under way.
AssignImpatiently(s) ==
    Usable /\ canWrite /\ ui.edit = "assignee" /\ RunWrite(s, Request("assign", "assignee"))

Assign(s) ==
    Unlocked /\ canWrite /\ ui.edit = "assignee" /\ RunWrite(s, Request("assign", "assignee"))

StartWork(s) ==
    /\ Unlocked /\ canWrite /\ ui.view.status = "ASSIGNED"
    /\ RunWrite(s, Request("transition", "IN_PROGRESS"))

Resolve(s) ==
    /\ Unlocked /\ canWrite /\ ui.view.status = "IN_PROGRESS" /\ ui.edit = "resolution"
    /\ RunWrite(s, Request("transition", "RESOLVED"))

CloseIncident(s) ==
    /\ Unlocked /\ canWrite /\ ui.view.status = "RESOLVED"
    /\ RunWrite(s, Request("transition", "CLOSED"))

Reopen(s) ==
    /\ Unlocked /\ canWrite /\ ui.view.status \in {"RESOLVED", "CLOSED"} /\ ui.edit = "reason"
    /\ RunWrite(s, Request("reopen", "reason"))

IncidentFields ==
    IF ~canWrite THEN {}
    ELSE {"grade", "assignee"}
         \cup (IF ui.view.status = "IN_PROGRESS" THEN {"resolution"} ELSE {})
         \cup (IF ui.view.status \in {"RESOLVED", "CLOSED"} THEN {"reason"} ELSE {})

-----------------------------------------------------------------------------
IncidentClick(s) ==
    \/ SaveCategorisation(s) \/ Assign(s) \/ StartWork(s)
    \/ Resolve(s) \/ CloseIncident(s) \/ Reopen(s)

IncidentInput == \E f \in IncidentFields : Edit(f)

IncidentAnswer ==
    \/ IncidentLoaded
    \/ \E s \in CallSlots :
          \/ IncidentRefetch(s) \/ IncidentWriteShown(s)
          \/ PostDone(s, Together)
          \/ Arrived(s) /\ PostShown(s, IncidentReread(s))

IncidentRequests ==
    {[do |-> d, arg |-> "reason", read |-> theirs] : d \in {"categorize", "assign", "reopen"}}
    \cup {[do |-> "transition", arg |-> to, read |-> theirs] : to \in IncidentStatus}

IncidentWrittenByOthers ==
    \E op \in IncidentRequests : \E o \in IncidentOutcomes([hats |-> Everyone], op) : TheyWrite(o)
=============================================================================
