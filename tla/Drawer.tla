------------------------------- MODULE Drawer -------------------------------
(***************************************************************************)
(* What the three record drawers of the internal workspace have in common: *)
(* the React state of the one that is mounted, and the async functions it  *)
(* has under way against the API, src/lib/api/client.ts.                   *)
(*                                                                         *)
(* An async function runs from one await to the next without interruption. *)
(* It sends its request, and when the answer has come it either fails or   *)
(* reads the record and its thread again, each with a GET of its own.      *)
(* Requests and answers may be lost; GETs may be served and may arrive in  *)
(* any order.  A request whose answer nobody awaits any more, because the  *)
(* connection broke or the drawer was closed, may still reach the server.  *)
(*                                                                         *)
(* The record is shared with every other user of the server.  A            *)
(* transaction of the server reads it, and in a later statement writes it  *)
(* by id, so that another user's commit may come in between.               *)
(***************************************************************************)
EXTENDS Naturals, FiniteSets

CONSTANTS Cases,      \* who opens which drawer, and on which record
          MaxClicks,  \* bound on the requests one behaviour sends
          MaxMoves    \* bound on the writes of other users

ASSUME ClicksAssumption == MaxClicks \in Nat \ {0} /\ MaxMoves \in Nat

VARIABLES viewer,      \* the drawer; its viewer, her hats and whether the record is
                       \* hers; and the fields she touches, a bound
          row,         \* the record
          stored,      \* how often each comment text of hers is stored
          ui,          \* the state of the mounted drawer
          call,        \* its async functions
          orphans,     \* requests on their way that nobody awaits
          moves,       \* transactions of other users so far
          theirs,      \* the row that one of them has read and not yet written
          overtaken,   \* whether a write ever landed on another row than the one
                       \* that its transaction had read
          clicks,      \* requests sent so far
          warned,      \* retries of each text after its failure was shown
          landed,      \* the newest revision one of her awaited writes made
          last,        \* how the latest write or post of hers ended
          overlapped   \* whether two of her calls ever ran at once

others == <<moves, theirs, overtaken>>
session == <<warned, landed, last, overlapped>>
vars == <<viewer, row, stored, ui, call, orphans, others, clicks, session>>

\* Two calls besides the load at once: the bound on what the viewer starts
\* before anything has ended.  The second slot is for the call that overlaps.
CallSlots == {"first", "second"}
Slots == CallSlots \cup {"load"}

Texts == 1..MaxClicks

NoView == [status |-> "NONE", rev |-> 0]

Idle == [at |-> "idle"]

Fresh == [open |-> TRUE, loading |-> TRUE, failed |-> FALSE, view |-> NoView,
          thread |-> 0, busy |-> FALSE, posting |-> FALSE, alert |-> FALSE,
          note |-> FALSE, postAlert |-> FALSE, draft |-> 0, edit |-> "none",
          ack |-> FALSE, mode |-> "none", dialog |-> "none"]

Unmounted == [Fresh EXCEPT !.open = FALSE, !.loading = FALSE]

-----------------------------------------------------------------------------
Hat(h) == h \in viewer.hats

Rendered == ui.open /\ ~ui.loading /\ ~ui.failed

\* A modal dialog covers the drawer it was opened from.
Usable == Rendered /\ ui.dialog = "none"

UnderWay(s) == call[s].at # "idle"

Posts(s) == IF call[s].at = "reading" THEN call[s].then = "post"
            ELSE call[s].at \in {"asked", "answered"} /\ call[s].op.do = "post"

Writing == {s \in CallSlots : UnderWay(s) /\ ~Posts(s)}

Comments == Cardinality({p \in Texts \X Texts : p[2] <= stored[p[1]]})

Ends(s) == call' = [call EXCEPT ![s] = Idle]

\* GETs of the record ("row") and of its comments ("thread").
Reading(then, parts) ==
    [at |-> "reading", then |-> then, missing |-> parts, all |-> parts,
     row |-> NoView, thread |-> 0]

Reads(s, then, parts) == call' = [call EXCEPT ![s] = Reading(then, parts)]

-----------------------------------------------------------------------------
Init == /\ \E c \in Cases : viewer = c.viewer /\ row = c.record
        /\ stored = [t \in Texts |-> 0]
        /\ ui = Unmounted
        /\ call = [s \in Slots |-> Idle]
        /\ orphans = {}
        /\ moves = 0 /\ theirs = NoView /\ overtaken = FALSE /\ clicks = 0
        /\ warned = [t \in Texts |-> 0]
        /\ landed = 0 /\ last = "none" /\ overlapped = FALSE

\* The register mounts the drawer, whose effect starts to load the record.  A
\* drawer that is opened again starts like the first one: it is not followed.
Open(parts) ==
    /\ ~ui.open /\ clicks = 0
    /\ ui' = Fresh
    /\ Reads("load", "load", parts)
    /\ UNCHANGED <<viewer, row, stored, orphans, others, clicks, session>>

\* What the functions were waiting for is of no effect any more.
Unmount ==
    /\ ui' = Unmounted
    /\ call' = [s \in Slots |-> Idle]
    /\ orphans' = orphans \cup {call[s].op : s \in {t \in Slots : call[t].at = "asked"}}
    /\ last' = "none"
    /\ UNCHANGED <<viewer, row, stored, others, clicks, warned, landed, overlapped>>

\* Escape, the scrim or the cross.
Close == ui.open /\ ui.dialog = "none" /\ Unmount

\* Unsaved input in one of the fields or forms of the drawer; the model
\* follows the one that was touched last.
Edit(field) ==
    /\ Usable /\ ui.edit # field /\ field \in viewer.touches
    /\ ui' = [ui EXCEPT !.edit = field]
    /\ UNCHANGED <<viewer, row, stored, call, orphans, others, clicks, session>>

\* A comment is typed, a text that was never sent.
Type ==
    /\ Usable
    /\ clicks < MaxClicks
    /\ ui.draft # clicks + 1
    /\ ui' = [ui EXCEPT !.draft = clicks + 1]
    /\ UNCHANGED <<viewer, row, stored, call, orphans, others, clicks, session>>

-----------------------------------------------------------------------------
(* fetch.                                                                  *)

Request(do, arg) ==
    [do |-> do, arg |-> arg, seen |-> ui.view.status, read |-> NoView,
     text |-> IF do = "post" THEN ui.draft ELSE 0]

Sends(s, op) ==
    /\ clicks < MaxClicks /\ clicks' = clicks + 1
    /\ call[s] = Idle /\ (s = "second" => UnderWay("first"))
    /\ call' = [call EXCEPT ![s] = [at |-> "asked", op |-> op]]
    /\ last' = "none"
    /\ overlapped' = (overlapped \/ orphans # {} \/ \E t \in Slots : UnderWay(t))

\* The transaction reads the record.  A comment is added without it.
Reader(op) == op.do # "post" /\ op.read = NoView

Find(s) ==
    /\ call[s].at = "asked" /\ Reader(call[s].op)
    /\ call' = [call EXCEPT ![s].op.read = row]
    /\ UNCHANGED <<viewer, row, stored, ui, orphans, others, clicks, session>>

FindLate(op) ==
    /\ op \in orphans /\ Reader(op)
    /\ orphans' = (orphans \ {op}) \cup {[op EXCEPT !.read = row]}
    /\ UNCHANGED <<viewer, row, stored, ui, call, others, clicks, session>>

Overtakes(was, r) == r # row /\ was # row

\* It writes what it has decided on that row over what is there now, and the
\* server answers.
Serve(s, outcome) ==
    /\ row' = outcome.row
    /\ overtaken' = (overtaken \/ Overtakes(call[s].op.read, outcome.row))
    /\ call' = [call EXCEPT ![s] = [at |-> "answered", op |-> call[s].op,
                                    answer |-> outcome.answer]]
    /\ landed' = IF outcome.row # row THEN outcome.row.rev ELSE landed
    /\ UNCHANGED <<viewer, ui, orphans, moves, theirs, clicks, warned, last, overlapped>>

ServeOrphan(op, outcome) ==
    /\ row' = outcome.row
    /\ overtaken' = (overtaken \/ Overtakes(op.read, outcome.row))
    /\ orphans' = orphans \ {op}
    /\ UNCHANGED <<viewer, ui, call, moves, theirs, clicks, session>>

Stores(op, accepted) ==
    stored' = IF accepted /\ op.do = "post" THEN [stored EXCEPT ![op.text] = @ + 1]
                                            ELSE stored

\* fetch rejects: the request, or only its answer, is lost.
Lose(s) ==
    /\ call[s].at \in {"asked", "answered"}
    /\ call[s].at = "answered" => call[s].answer # "lost"
    /\ orphans' = IF call[s].at = "asked" THEN orphans \cup {call[s].op} ELSE orphans
    /\ call' = [call EXCEPT ![s] = [at |-> "answered", op |-> call[s].op,
                                    answer |-> "lost"]]
    /\ UNCHANGED <<viewer, row, stored, ui, others, clicks, session>>

\* A GET is served.  Its answer may be overtaken until all have come.
ServeRead(s, part) ==
    /\ call[s].at = "reading" /\ part \in call[s].missing
    /\ call' = [call EXCEPT ![s].missing = @ \ {part},
                            ![s].row = IF part = "row" THEN row ELSE @,
                            ![s].thread = IF part = "thread" THEN Comments ELSE @]
    /\ UNCHANGED <<viewer, row, stored, ui, orphans, others, clicks, session>>

Arrived(s) == call[s].at = "reading" /\ call[s].missing = {}

Answered(s, answer) == call[s].at = "answered" /\ call[s].answer = answer

\* A transaction of another user reads the record.
TheyRead ==
    /\ moves < MaxMoves /\ moves' = moves + 1
    /\ theirs = NoView /\ theirs' = row
    /\ UNCHANGED <<viewer, row, stored, ui, call, orphans, overtaken, clicks, session>>

\* It writes and is committed.
TheyWrite(outcome) ==
    /\ theirs # NoView /\ theirs' = NoView
    /\ outcome.answer = "ok" /\ outcome.row # row
    /\ row' = outcome.row
    /\ overtaken' = (overtaken \/ Overtakes(theirs, outcome.row))
    /\ UNCHANGED <<viewer, stored, ui, call, orphans, moves, clicks, session>>

\* The record changes with the time.
Turns(r) ==
    /\ moves < MaxMoves /\ moves' = moves + 1
    /\ row' = r
    /\ UNCHANGED <<viewer, stored, ui, call, orphans, theirs, overtaken, clicks, session>>

-----------------------------------------------------------------------------
(* What a request does to the record, and its answer.  It is decided on    *)
(* op.read and written over row.                                           *)

Outcome(r, answer) == [row |-> r, answer |-> answer]

Refused == {Outcome(row, "refused")}

Conflict == {Outcome(row, "conflict")}

Accepted(rows) == {Outcome(r, "ok") : r \in rows}

Everyone == {"DEVELOPER", "REVIEWER", "TECHNICAL_APPROVER", "BUSINESS_APPROVER"}

-----------------------------------------------------------------------------
(* The async functions of the drawers: load, runWrite, submitComment.      *)

\* The two GETs of an incident or a demand, with Promise.all.
Together == {"row", "thread"}

LoadFails ==
    /\ call["load"].at = "reading"
    /\ ui' = [ui EXCEPT !.failed = TRUE, !.loading = FALSE]
    /\ Ends("load")
    /\ UNCHANGED <<viewer, row, stored, orphans, others, clicks, session>>

Unlocked == Usable /\ ~ui.busy

\* What the click does before the first await.
RunWrite(s, op) ==
    /\ Sends(s, op)
    /\ ui' = [ui EXCEPT !.alert = FALSE, !.note = FALSE, !.busy = TRUE]
    /\ UNCHANGED <<viewer, row, stored, orphans, others, warned, landed>>

\* Mutant: the flag is taken back only when all went well.
WriteEndsBusy(s, u, how) ==
    /\ ui' = IF how \in {"ok", "conflict"} THEN [u EXCEPT !.busy = FALSE] ELSE u
    /\ last' = how
    /\ Ends(s)
    /\ UNCHANGED <<viewer, row, stored, orphans, others, clicks, warned, landed, overlapped>>

\* finally
WriteEnds(s, u, how) ==
    /\ ui' = [u EXCEPT !.busy = FALSE]
    /\ last' = how
    /\ Ends(s)
    /\ UNCHANGED <<viewer, row, stored, orphans, others, clicks, warned, landed, overlapped>>

\* Mutant: the catch reports nothing.
WriteFailsSilently(s) ==
    /\ (Answered(s, "refused") \/ Answered(s, "lost")) /\ ~Posts(s)
    /\ WriteEnds(s, ui, "failed")

WriteFails(s) ==
    /\ (Answered(s, "refused") \/ Answered(s, "lost")) /\ ~Posts(s)
    /\ WriteEnds(s, [ui EXCEPT !.alert = TRUE], "failed")

\* A refetch that fails is a failed write, unless it was the conflict's.
WriteUnread(s) ==
    /\ call[s].at = "reading" /\ call[s].then \in {"write", "conflict"}
    /\ WriteEnds(s, IF call[s].then = "write" THEN [ui EXCEPT !.alert = TRUE] ELSE ui,
                 IF call[s].then = "write" THEN "failed" ELSE "conflict")

\* Mutant: the form can be sent while it is being sent.
SubmitCommentAgain(s) ==
    /\ Usable /\ ui.draft # 0
    /\ Sends(s, Request("post", "none"))
    /\ warned' = IF ui.postAlert THEN [warned EXCEPT ![ui.draft] = @ + 1] ELSE warned
    /\ ui' = [ui EXCEPT !.posting = TRUE, !.postAlert = FALSE]
    /\ UNCHANGED <<viewer, row, stored, orphans, others, landed>>

SubmitComment(s) ==
    /\ Usable /\ ui.draft # 0 /\ ~ui.posting
    /\ Sends(s, Request("post", "none"))
    /\ warned' = IF ui.postAlert THEN [warned EXCEPT ![ui.draft] = @ + 1] ELSE warned
    /\ ui' = [ui EXCEPT !.posting = TRUE, !.postAlert = FALSE]
    /\ UNCHANGED <<viewer, row, stored, orphans, others, landed>>

PostDone(s, parts) ==
    /\ Answered(s, "ok") /\ Posts(s)
    /\ Reads(s, "post", parts)
    /\ UNCHANGED <<viewer, row, stored, ui, orphans, others, clicks, session>>

PostEnds(s, u, how) ==
    /\ ui' = [u EXCEPT !.posting = FALSE]
    /\ last' = how
    /\ Ends(s)
    /\ UNCHANGED <<viewer, row, stored, orphans, others, clicks, warned, landed, overlapped>>

\* Whatever the field holds by now is cleared.
PostShown(s, u) == Posts(s) /\ PostEnds(s, [u EXCEPT !.draft = 0], "ok")

\* The POST, or the refetch after it, failed.
PostFails(s) ==
    /\ Posts(s)
    /\ (Answered(s, "refused") \/ Answered(s, "lost") \/ call[s].at = "reading")
    /\ PostEnds(s, [ui EXCEPT !.postAlert = TRUE], "failed")
=============================================================================
