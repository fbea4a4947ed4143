------------------------------- MODULE Drawers -------------------------------
(***************************************************************************)
(* The drawers against the server: a behaviour opens one of the three, as  *)
(* often as its viewer likes, while other users write to the same record.  *)
(***************************************************************************)
EXTENDS ChangeDrawer, IncidentDrawer, DemandDrawer

\* The rows of one revision, and what a behaviour may be opened on.
RowsAt(drawer, rev) ==
    CASE drawer = "change"   -> ChangeRows(rev)
      [] drawer = "incident" -> IncidentRows(rev)
      [] drawer = "demand"   -> DemandRows(rev)

ASSUME CasesAssumption ==
    \A c \in Cases :
       /\ c.viewer.drawer \in {"change", "incident", "demand"}
       /\ c.record.rev \in Nat
       /\ c.record \in RowsAt(c.viewer.drawer, c.record.rev)
       /\ c.viewer.drawer = "change" => InOrder(c.record)

Is(drawer) == viewer.drawer = drawer

Outcomes(op) ==
    CASE Is("change")   -> ChangeOutcomes(viewer, op)
      [] Is("incident") -> IncidentOutcomes(viewer, op)
      [] Is("demand")   -> DemandOutcomes(viewer, op)

Served(s) ==
    /\ call[s].at = "asked" /\ ~Reader(call[s].op)
    /\ \E o \in Outcomes(call[s].op) : Serve(s, o) /\ Stores(call[s].op, o.answer = "ok")

ServedLate(op) ==
    /\ op \in orphans /\ ~Reader(op)
    /\ \E o \in Outcomes(op) : ServeOrphan(op, o) /\ Stores(op, o.answer = "ok")

Click(s) ==
    \/ Is("change") /\ ChangeClick(s)
    \/ Is("incident") /\ IncidentClick(s)
    \/ Is("demand") /\ DemandClick(s)

MayPost == Is("change") => isReviewer

Input ==
    \/ Is("change") /\ ChangeInput
    \/ Is("incident") /\ IncidentInput
    \/ Is("demand") /\ DemandInput
    \/ MayPost /\ Type
    \/ \E s \in CallSlots : MayPost /\ SubmitComment(s)

Read(s) ==
    \E part \in {"row", "thread"} : ServeRead(s, part)

Answer ==
    \/ Is("change") /\ ChangeAnswer
    \/ Is("incident") /\ IncidentAnswer
    \/ Is("demand") /\ DemandAnswer

\* fetch rejects, or the answer is an error.
Failure ==
    \/ \E s \in Slots : Lose(s)
    \/ LoadFails
    \/ \E s \in CallSlots : PostFails(s) \/ WriteUnread(s)

\* What the catch of the write that failed does.
Caught ==
    \E s \in CallSlots :
       \/ Is("demand") /\ DecisionFails(s)
       \/ WriteFails(s) /\ ~(Is("demand") /\ Deciding(s))

Written ==
    /\ theirs # NoView
    /\ \/ Is("change") /\ ChangeWrittenByOthers
       \/ Is("incident") /\ IncidentWrittenByOthers
       \/ Is("demand") /\ DemandWrittenByOthers

MovedByOthers == TheyRead \/ Written \/ (Is("change") /\ WindowPasses)

Next ==
    \/ Open(IF Is("change") THEN ChangeParts ELSE Together)
    \/ Close
    \/ \E s \in CallSlots : Click(s)
    \/ Input
    \/ \E s \in Slots : Find(s) \/ Served(s)
    \/ \E op \in orphans : FindLate(op) \/ ServedLate(op)
    \/ \E s \in Slots : Read(s)
    \/ Answer
    \/ Failure
    \/ Caught
    \/ MovedByOthers

\* The network and the server answer, with the answer or with an error, and
\* the browser runs what waits for it.
Answers ==
    \/ \E s \in Slots : Find(s) \/ Served(s) \/ Read(s)
    \/ Answer \/ Caught \/ \E s \in CallSlots : PostFails(s)

Spec == Init /\ [][Next]_vars /\ WF_vars(Answers)

-----------------------------------------------------------------------------
\* However stale the screen was: a request of the change drawer that moves the
\* change was decided on the stage that was on screen at the click, and takes
\* the change out of that stage.  Until a write lands on another row than its
\* transaction had read: advanceChange compares the stage that it has read, and
\* writes by id.
ChangeMovesFromSeen ==
    [][Is("change") /\ ~overtaken => \A s \in Slots :
         (/\ call[s].at = "asked" /\ row'.status # row.status
          /\ call'[s].at = "answered" /\ call'[s].answer # "lost")
         => /\ call[s].op.seen = call[s].op.read.status
            /\ ~overtaken' => call[s].op.seen = row.status]_vars

\* The message of a failed call is on screen, and no dialog over it.  The one
\* of a demand is part of the decision panel.
Shown ==
    /\ Usable
    /\ ui.postAlert \/ (ui.alert /\ (Is("demand") => showDecisionPanel))

AtRest == Usable /\ Writing = {} /\ ~ui.posting

\* While nothing overlaps, a call that failed leaves its message on screen
\* until the viewer does something else, once no dialog covers it.  Of a demand
\* only those who decide see it: the triage or the cost of delay of a developer
\* fails unseen, which the comment of sendDecision warns of ("the dialog looks
\* like it did nothing", DemandDrawer.tsx:296).  The conflict of a change is
\* excepted: the refetch clears its note.
FailureShownAlone ==
    ~overlapped /\ AtRest /\ last = "failed" /\ (Is("demand") => canDecide) => Shown

\* While nothing overlaps, a drawer at rest whose last call succeeded shows all
\* of the viewer's own writes and comments, those of failed calls included.
ReadYourWritesAlone ==
    (/\ ~overlapped /\ Rendered /\ orphans = {} /\ last = "ok"
     /\ \A s \in Slots : ~UnderWay(s))
    => /\ ui.view.rev >= landed
       /\ MayPost => ui.thread = Comments

\* The override dialog of a demand is open exactly while a decision waits in
\* it for its justification.
DialogHoldsDecision ==
    Is("demand") /\ ui.open => (ui.dialog = "override" <=> ui.mode # "none")

\* A comment is stored again only when the viewer sent it again after she was
\* told that it could not be posted.
StoredTwiceWasWarned == \A t \in Texts : stored[t] <= 1 + warned[t]

\* The controls of an incident and of a demand never have two writes under way.
OneWriteAtATime == ~Is("change") => Cardinality(Writing) <= 1

\* The drawer does not stay busy: each write ends, and takes its flag back or
\* leaves the page.
BusyClears == ui.busy ~> ~ui.busy
=============================================================================
