---------------------------- MODULE DrawersProofs ----------------------------
(***************************************************************************)
(* Proofs about Drawers, for every set of cases and any number of clicks   *)
(* and of writes by others.                                                *)
(*                                                                         *)
(* The many controls and answers of the three drawers are sorted first:    *)
(* each step of Next is one of the kinds of Step, which say what of the    *)
(* mounted drawer and of its calls a step may touch. Every property then   *)
(* rests on an invariant that is shown for the kinds.                      *)
(***************************************************************************)
EXTENDS Drawers, FiniteSetTheorems, TLAPS

Drawer == {"change", "incident", "demand"}

ChangeDo   == {"advance", "submit", "edit", "schedule", "pir", "rollback", "link",
               "decide", "override", "post"}
IncidentDo == {"categorize", "assign", "transition", "reopen", "post"}
DemandDo   == {"triage", "score", "decide", "override", "reject", "convert", "post"}

DoOf(d) == IF d = "change" THEN ChangeDo ELSE IF d = "incident" THEN IncidentDo ELSE DemandDo

Arg == {"none", "acknowledged", "rfc", "risk", "rollback", "link", "window", "pir", "note",
        "APPROVED", "REJECTED", "reason", "assignee", "IN_PROGRESS", "RESOLVED", "CLOSED",
        "triage", "value", "effort", "costOfDelay", "reject", "convert"} \cup Choice

Field == {"none", "rfc", "risk", "rollback", "link", "window", "pir", "note", "grade",
          "assignee", "resolution", "reason", "value", "effort", "costOfDelay", "reject"}

Stage == {"NONE"} \cup Status \cup IncidentStatus \cup DemandStatus

ModeOf(d) == IF d = "demand" THEN Choice \cup {"none"} ELSE {"none", "APPROVED", "REJECTED"}

RecordOf(d) == UNION {RowsAt(d, n) : n \in Nat}

ViewOf(d) == {NoView} \cup RecordOf(d)

\* A worth decision names one of the three choices, and only a comment has a text.
OpOf(d) ==
    {op \in [do : DoOf(d), arg : Arg, seen : Stage, read : ViewOf(d), text : 0..MaxClicks] :
       /\ d = "demand" /\ op.do \in {"decide", "override"} => op.arg \in Choice
       /\ op.do = "post" <=> op.text # 0}

UiOf(d) ==
    [open : BOOLEAN, loading : BOOLEAN, failed : BOOLEAN, view : ViewOf(d), thread : Nat,
     busy : BOOLEAN, posting : BOOLEAN, alert : BOOLEAN, note : BOOLEAN, postAlert : BOOLEAN,
     draft : 0..MaxClicks, edit : Field, ack : BOOLEAN, mode : ModeOf(d),
     dialog : {"none", "override"}]

\* What is read together: of a change the row first, and the thread after it
\* for a reviewer.
PartsOf(v) ==
    IF v.drawer # "change" THEN {Together}
    ELSE IF "REVIEWER" \in v.hats THEN {{"row"}, {"thread"}} ELSE {{"row"}}

ServerAnswer == {"ok", "refused", "conflict", "segregation"}

AskedOf(d)    == [at : {"asked"}, op : OpOf(d)]
AnsweredOf(d) == [at : {"answered"}, op : OpOf(d), answer : ServerAnswer \cup {"lost"}]
ReadingOf(v)  == [at : {"reading"}, then : {"load", "write", "conflict", "decision", "post"},
                  missing : SUBSET {"row", "thread"}, all : PartsOf(v),
                  row : ViewOf(v.drawer), thread : Nat]

Leaving == [at |-> "leaving"]

CallOf(v) == {Idle, Leaving} \cup AskedOf(v.drawer) \cup AnsweredOf(v.drawer) \cup ReadingOf(v)

Kind == viewer.drawer

TypeInv ==
    /\ Kind \in Drawer
    /\ row \in RecordOf(Kind)
    /\ stored \in [Texts -> Nat] /\ warned \in [Texts -> Nat]
    /\ ui \in UiOf(Kind)
    /\ call \in [Slots -> CallOf(viewer)]
    /\ call["load"].at \in {"idle", "reading"}
    /\ orphans \in SUBSET OpOf(Kind) /\ IsFiniteSet(orphans)
    /\ moves \in Nat /\ theirs \in ViewOf(Kind) /\ overtaken \in BOOLEAN
    /\ clicks \in 0..MaxClicks /\ landed \in Nat
    /\ last \in {"none", "ok", "failed", "conflict"} /\ overlapped \in BOOLEAN

-----------------------------------------------------------------------------
(* What the server does to the record *)

\* From here a change never goes back to its approval.
Past == {"SCHEDULED", "IMPLEMENTING", "PIR", "CLOSED", "ROLLED_BACK"}

\* The stages a request can take a change out of.
Departs(op, status) ==
    \/ op.do = "advance" /\ op.seen = status
    \/ op.do = "submit" /\ status = "ASSESSING"
    \/ op.do = "schedule" /\ status = "APPROVAL"
    \/ op.do = "rollback" /\ status = "IMPLEMENTING"
    \/ op.do \in {"decide", "override"} /\ status = "APPROVAL"

\* A row is rewritten with the next revision or left alone.
Newer(r) == r = row \/ r.rev = row.rev + 1

\* A write that was decided on the row it finds.
Follows(r) ==
    InOrder(row) => InOrder(r) /\ (row.status \in Past => r.status \in Past)

LEMMA ChangeRowFacts ==
    ASSUME NEW n \in Nat, NEW r \in ChangeRows(n)
    PROVE  /\ r.rev = n /\ r.status \in Status /\ r.met \in BOOLEAN
           /\ r.step \in Approver \cup {"none"}
  BY DEF ChangeRows

LEMMA IncidentRowFacts ==
    ASSUME NEW n \in Nat, NEW r \in IncidentRows(n)
    PROVE  r.rev = n /\ r.status \in IncidentStatus
  BY DEF IncidentRows

LEMMA DemandRowFacts ==
    ASSUME NEW n \in Nat, NEW r \in DemandRows(n)
    PROVE  r.rev = n /\ r.status \in DemandStatus /\ r.step \in Choice \cup {"none"}
  BY DEF DemandRows

LEMMA RowTypes ==
    ASSUME NEW d \in Drawer, NEW r
    PROVE  /\ r \in RecordOf(d) => r.rev \in Nat /\ r \in RowsAt(d, r.rev) /\ r.status \in Stage
           /\ \A n \in Nat : r \in RowsAt(d, n) => r \in RecordOf(d) /\ r.rev = n
  <1>1. /\ d = "change" => \A n : RowsAt(d, n) = ChangeRows(n)
        /\ d = "incident" => \A n : RowsAt(d, n) = IncidentRows(n)
        /\ d = "demand" => \A n : RowsAt(d, n) = DemandRows(n)
    BY DEF RowsAt
  <1>2. ASSUME NEW n \in Nat, r \in RowsAt(d, n) PROVE r.rev = n /\ r.status \in Stage
    <2>1. CASE d = "change"
      BY <1>1, <1>2, <2>1, ChangeRowFacts DEF Stage
    <2>2. CASE d = "incident"
      BY <1>1, <1>2, <2>2, IncidentRowFacts DEF Stage
    <2>3. CASE d = "demand"
      BY <1>1, <1>2, <2>3, DemandRowFacts DEF Stage
    <2> QED  BY <2>1, <2>2, <2>3 DEF Drawer
  <1> QED  BY <1>2 DEF RecordOf

\* A transaction that read the stage it takes the change out of.
LEMMA ChangeServed ==
    ASSUME Kind = "change", row \in RecordOf(Kind), NEW actor, NEW op, op.do \in ChangeDo,
           NEW o \in ChangeOutcomes(actor, op)
    PROVE  /\ o.row \in RecordOf(Kind) /\ Newer(o.row) /\ o.answer \in ServerAnswer
           /\ o.row.status # row.status => Departs(op, op.read.status)
           /\ op.read = row => Follows(o.row)
  <1> DEFINE n == row.rev
             Fits(r) == /\ r.status # row.status => Departs(op, op.read.status)
                        /\ op.read = row => Follows(r)
             Fine(p) == /\ p.row = row \/ p.row \in ChangeRows(n + 1)
                        /\ p.answer \in ServerAnswer
                        /\ Fits(p.row)
  <1>1. n \in Nat /\ row \in ChangeRows(n)
    BY RowTypes DEF Drawer, RowsAt, Kind
  <1>2. row.status \in Status /\ row.met \in BOOLEAN /\ row.step \in Approver \cup {"none"}
    BY <1>1, ChangeRowFacts
  <1>3. Fits(row)
    BY DEF Follows
  <1>4. \A p \in Refused \cup Conflict \cup {Outcome(row, "segregation")} : Fine(p)
    BY <1>3 DEF Refused, Conflict, Outcome, ServerAnswer
  <1>5. ASSUME NEW R, NEW p \in Accepted(R), \A r \in R : r \in ChangeRows(n + 1) /\ Fits(r)
        PROVE  Fine(p)
    BY <1>5 DEF Accepted, Outcome, ServerAnswer
  <1>6. ASSUME NEW was, NEW status \in Status, NEW r \in Entering(was, status)
        PROVE  /\ r \in ChangeRows(n + 1) /\ r.status = status
               /\ was = row => Follows(r) \/ (row.status \in Past /\ status \notin Past)
    <2>1. PICK m \in BOOLEAN : r = [row EXCEPT !.status = status, !.met = m, !.rev = n + 1]
      BY <1>6 DEF Entering
    <2> HIDE DEF n
    <2>2. r \in ChangeRows(n + 1) /\ r.status = status
      BY <1>1, <1>2, <2>1 DEF ChangeRows
    <2>3. was = row /\ InOrder(row) => InOrder(r)
      BY <1>6 DEF Entering, Undisturbed
    <2> QED  BY <2>2, <2>3 DEF Follows
  <1> HIDE DEF n, Fits, Fine
  <1>7. Fine(o)
    <2>1. CASE op.do = "advance"
      <3>1. o \in AdvanceServed(actor, op)
        BY <2>1 DEF ChangeOutcomes
      <3>2. CASE o \in Refused \cup Conflict
        BY <1>4, <3>2
      <3>3. CASE o \notin Refused \cup Conflict
        <4>1. /\ o \in Accepted(Advanced(op.read)) /\ op.seen = op.read.status
              /\ op.read.status \in DOMAIN CHANGE_FORWARD
          BY <3>1, <3>3 DEF AdvanceServed, GateMet
        <4> DEFINE next == CHANGE_FORWARD[op.read.status]
        <4>2. next \in Status /\ (op.read.status \in Past => next \in Past)
          BY <4>1 DEF CHANGE_FORWARD, Status, Past
        <4> HIDE DEF next
        <4>3. ASSUME NEW r \in Advanced(op.read) PROVE r \in ChangeRows(n + 1) /\ Fits(r)
          <5>1. r \in Entering(op.read, next)
            BY <4>3 DEF Advanced, next
          <5>2. r \in ChangeRows(n + 1) /\ (op.read = row => Follows(r))
            BY <1>6, <4>2, <5>1
          <5> QED  BY <2>1, <4>1, <5>2 DEF Fits, Departs
        <4> QED  BY <1>5, <4>1, <4>3
      <3> QED  BY <3>2, <3>3
    <2>2. CASE op.do = "submit"
      <3>1. o \in SubmitServed(actor, op)
        BY <2>2 DEF ChangeOutcomes
      <3>2. CASE o \in Refused
        BY <1>4, <3>2
      <3>3. CASE o \notin Refused
        <4> DEFINE r == ChangeRow("APPROVAL", FALSE, "TECHNICAL_APPROVER", n + 1)
        <4>1. op.read.status = "ASSESSING" /\ o \in Accepted({r})
          BY <3>1, <3>3 DEF SubmitServed, n
        <4>2. /\ r \in ChangeRows(n + 1) /\ r.status = "APPROVAL" /\ r.met = FALSE
              /\ r.step = "TECHNICAL_APPROVER"
          BY DEF ChangeRow, ChangeRows, Approver, Status
        <4> HIDE DEF r
        <4>3. op.read = row => Follows(r)
          BY <4>1, <4>2 DEF Follows, InOrder, Past, Terminal
        <4>4. Fits(r)
          BY <2>2, <4>1, <4>3 DEF Fits, Departs
        <4> QED  BY <1>5, <4>1, <4>2, <4>4
      <3> QED  BY <3>2, <3>3
    <2>3. CASE op.do = "edit"
      <3>1. o \in EditServed(actor, op)
        BY <2>3 DEF ChangeOutcomes
      <3>2. CASE o \in Refused
        BY <1>4, <3>2
      <3>3. CASE o \notin Refused
        <4> DEFINE R == {r \in {[row EXCEPT !.met = m, !.rev = n + 1] : m \in {row.met, TRUE}} :
                           r.status \notin {"DRAFT", "ASSESSING"} => r.met = row.met}
        <4>1. o \in Accepted(R)
          BY <3>1, <3>3 DEF EditServed, n
        <4>2. ASSUME NEW r \in R PROVE r \in ChangeRows(n + 1) /\ Fits(r)
          <5>1. PICK m \in {row.met, TRUE} : r = [row EXCEPT !.met = m, !.rev = n + 1]
            BY <4>2
          <5>2. /\ r \in ChangeRows(n + 1) /\ r.status = row.status /\ r.step = row.step
                /\ r.status \notin {"DRAFT", "ASSESSING"} => r.met = row.met
            BY <1>1, <1>2, <4>2, <5>1 DEF ChangeRows
          <5>3. Follows(r)
            BY <5>2 DEF Follows, InOrder, Terminal
          <5> QED  BY <5>2, <5>3 DEF Fits
        <4> HIDE DEF R
        <4> QED  BY <1>5, <4>1, <4>2
      <3> QED  BY <3>2, <3>3
    <2>4. CASE op.do = "schedule"
      <3>1. o \in ScheduleServed(actor, op)
        BY <2>4 DEF ChangeOutcomes
      <3>2. CASE o \in Refused
        BY <1>4, <3>2
      <3>3. CASE o \notin Refused
        <4> DEFINE r == Windowed(op.read)
        <4>1. /\ o \in Accepted({r})
              /\ op.read.status = "SCHEDULED" \/ (op.read.status = "APPROVAL" /\ op.read.met)
          BY <3>1, <3>3 DEF ScheduleServed
        <4>2. PICK status \in Status, m \in BOOLEAN :
                 /\ r = [row EXCEPT !.status = status, !.met = m, !.rev = n + 1]
                 /\ status = IF op.read.status = "APPROVAL" THEN "SCHEDULED" ELSE row.status
                 /\ m = (row.met \/ status = "SCHEDULED")
          BY <1>2 DEF Windowed, Status, n
        <4>3. r \in ChangeRows(n + 1) /\ r.status = status /\ r.met = m /\ r.step = row.step
          BY <1>1, <1>2, <4>2 DEF ChangeRows
        <4> HIDE DEF r
        <4>4. op.read = row => Follows(r)
          <5>1. CASE op.read = row /\ InOrder(row)
            <6>1. row.step = "none" /\ status = "SCHEDULED"
              BY <4>1, <4>2, <5>1 DEF InOrder
            <6> QED  BY <4>3, <6>1 DEF Follows, InOrder, Past, Terminal
          <5> QED  BY <5>1 DEF Follows
        <4>5. Fits(r)
          BY <2>4, <4>1, <4>2, <4>3, <4>4 DEF Fits, Departs
        <4> QED  BY <1>5, <4>1, <4>3, <4>5
      <3> QED  BY <3>2, <3>3
    <2>5. CASE op.do = "pir"
      <3>1. o \in PirServed(actor, op)
        BY <2>5 DEF ChangeOutcomes
      <3>2. CASE o \in Refused \cup Conflict
        BY <1>4, <3>2
      <3>3. CASE o \notin Refused \cup Conflict
        <4> DEFINE m == row.met \/ row.status = "PIR"
                   r == [row EXCEPT !.met = @ \/ row.status = "PIR", !.rev = @ + 1]
        <4>1. o \in Accepted({r}) /\ op.read.status = "PIR"
          BY <3>1, <3>3 DEF PirServed
        <4>2. r = [row EXCEPT !.met = m, !.rev = n + 1] /\ m \in BOOLEAN
          BY <1>2 DEF n
        <4>3. r \in ChangeRows(n + 1) /\ r.status = row.status /\ r.met = m /\ r.step = row.step
          BY <1>1, <1>2, <4>2 DEF ChangeRows
        <4> HIDE DEF r
        <4>4. op.read = row => Follows(r)
          BY <4>1, <4>3 DEF Follows, InOrder, Terminal
        <4>5. Fits(r)
          BY <4>3, <4>4 DEF Fits
        <4> QED  BY <1>5, <4>1, <4>3, <4>5
      <3> QED  BY <3>2, <3>3
    <2>6. CASE op.do = "rollback"
      <3>1. o \in RollbackServed(actor, op)
        BY <2>6 DEF ChangeOutcomes
      <3>2. CASE o \in Refused
        BY <1>4, <3>2
      <3>3. CASE o \notin Refused
        <4>1. o \in Accepted(Entering(op.read, "ROLLED_BACK")) /\ op.read.status = "IMPLEMENTING"
          BY <3>1, <3>3 DEF RollbackServed
        <4>2. ASSUME NEW r \in Entering(op.read, "ROLLED_BACK") PROVE r \in ChangeRows(n + 1) /\ Fits(r)
          <5>1. r \in ChangeRows(n + 1) /\ (op.read = row => Follows(r))
            BY <1>6, <4>2 DEF Status, Past
          <5> QED  BY <2>6, <4>1, <5>1 DEF Fits, Departs
        <4> QED  BY <1>5, <4>1, <4>2
      <3> QED  BY <3>2, <3>3
    <2>7. CASE op.do = "link"
      <3>1. o \in LinkServed(actor)
        BY <2>7 DEF ChangeOutcomes
      <3>2. CASE o \in Refused
        BY <1>4, <3>2
      <3>3. CASE o \notin Refused
        <4> DEFINE r == [row EXCEPT !.rev = n + 1]
        <4>1. o.row \in {row, r} /\ o.answer = "ok"
          BY <3>1, <3>3 DEF LinkServed, Accepted, Outcome, n
        <4>2. r \in ChangeRows(n + 1) /\ r.status = row.status /\ r.met = row.met /\ r.step = row.step
          BY <1>1, <1>2 DEF ChangeRows
        <4> HIDE DEF r
        <4>3. Fits(r)
          BY <4>2 DEF Fits, Follows, InOrder
        <4> QED  BY <1>3, <4>1, <4>2, <4>3 DEF Fine, ServerAnswer
      <3> QED  BY <3>2, <3>3
    <2>8. CASE op.do \in {"decide", "override"}
      <3>1. o \in DecideServed(actor, op)
        BY <2>8 DEF ChangeOutcomes
      <3>2. CASE o \in Refused \cup Conflict \cup {Outcome(row, "segregation")}
        BY <1>4, <3>2
      <3>3. CASE o \notin Refused \cup Conflict \cup {Outcome(row, "segregation")}
        <4>1. op.read.step # "none" /\ op.read.step = row.step
          BY <3>1, <3>3 DEF DecideServed
        <4>2. \/ o \in Accepted(SentBack(op.read))
              \/ o \in Accepted({r \in Approved : Undisturbed(op.read) => InOrder(r)})
          BY <3>1, <3>3 DEF DecideServed, Superseded
        <4>3. ASSUME NEW r \in SentBack(op.read) PROVE r \in ChangeRows(n + 1) /\ Fits(r)
          <5>1. PICK m \in BOOLEAN, status \in Status :
                   /\ r = [row EXCEPT !.step = "none", !.met = m, !.rev = n + 1, !.status = status]
                   /\ status = IF op.read.status = "APPROVAL" THEN "ASSESSING" ELSE row.status
            BY <1>2, <4>3 DEF SentBack, Status, n
          <5>2. r \in ChangeRows(n + 1) /\ r.status = status /\ r.step = "none"
            BY <1>1, <1>2, <5>1 DEF ChangeRows
          <5>3. op.read = row => Follows(r)
            <6>1. InOrder(row) => row.status = "APPROVAL"
              BY <4>1 DEF InOrder
            <6> QED  BY <5>1, <5>2, <6>1 DEF Follows, InOrder, Past, Terminal
          <5> QED  BY <2>8, <5>1, <5>2, <5>3 DEF Fits, Departs
        <4>4. ASSUME NEW r, r \in Approved, Undisturbed(op.read) => InOrder(r)
              PROVE  r \in ChangeRows(n + 1) /\ Fits(r)
          <5>1. PICK t \in {"BUSINESS_APPROVER", "none"} :
                   r \in {[row EXCEPT !.step = t, !.met = m, !.rev = @ + 1] : m \in BOOLEAN}
            BY <4>4 DEF Approved
          <5>2. r \in ChangeRows(n + 1) /\ r.status = row.status
            BY <1>1, <1>2, <5>1 DEF ChangeRows, Approver, n
          <5> QED  BY <4>4, <5>2 DEF Fits, Follows, Undisturbed
        <4> QED  BY <1>5, <4>2, <4>3, <4>4
      <3> QED  BY <3>2, <3>3
    <2>9. CASE op.do = "post"
      <3>1. o \in Refused \cup Accepted({row})
        BY <2>9 DEF ChangeOutcomes, ReviewServed
      <3>2. \A p \in Accepted({row}) : p.row = row /\ p.answer = "ok"
        BY DEF Accepted, Outcome
      <3> QED  BY <1>3, <1>4, <3>1, <3>2 DEF Fine, ServerAnswer
    <2> QED  BY <2>1, <2>2, <2>3, <2>4, <2>5, <2>6, <2>7, <2>8, <2>9 DEF ChangeDo
  <1>8. \A r \in ChangeRows(n + 1) : r.rev = n + 1 /\ r \in RecordOf(Kind)
    BY <1>1, RowTypes DEF Drawer, RowsAt
  <1> QED  BY <1>7, <1>8 DEF Fine, Fits, Newer, n

LEMMA IncidentServed ==
    ASSUME Kind = "incident", row \in RecordOf(Kind), NEW actor, NEW op, op.do \in IncidentDo,
           op.do = "assign" => op.read \in RecordOf(Kind),
           NEW o \in IncidentOutcomes(actor, op)
    PROVE  o.row \in RecordOf(Kind) /\ Newer(o.row) /\ o.answer \in ServerAnswer
  <1> DEFINE n == row.rev
             Fine(p) == (p.row = row \/ p.row \in IncidentRows(n + 1)) /\ p.answer \in ServerAnswer
  <1>1. /\ n \in Nat /\ row.status \in IncidentStatus
        /\ op.do = "assign" => op.read.status \in IncidentStatus
    BY RowTypes, IncidentRowFacts DEF Drawer, RowsAt, Kind
  <1>2. \A p \in Refused \cup Accepted({row}) : Fine(p)
    BY DEF Refused, Accepted, Outcome, ServerAnswer
  <1>3. \A s \in IncidentStatus : \A p \in IncidentBecomes(s) : Fine(p)
    BY DEF IncidentBecomes, Accepted, Outcome, IncidentRow, IncidentRows, ServerAnswer
  <1> HIDE DEF Fine
  <1>4. Fine(o)
    <2>1. CASE op.do = "categorize"
      BY <1>1, <1>2, <1>3, <2>1 DEF IncidentOutcomes, CategorizeServed
    <2>2. CASE op.do = "assign"
      BY <1>1, <1>2, <1>3, <2>2 DEF IncidentOutcomes, AssignServed, IncidentStatus
    <2>3. CASE op.do = "transition"
      <3>1. o \in TransitionServed(actor, op)
        BY <2>3 DEF IncidentOutcomes
      <3>2. CASE o \in Refused
        BY <1>2, <3>2
      <3>3. CASE o \notin Refused
        <4>1. op.arg \in IncidentStatus /\ o \in IncidentBecomes(op.arg)
          BY <3>1, <3>3 DEF TransitionServed, IncidentStatus
        <4> QED  BY <1>3, <4>1
      <3> QED  BY <3>2, <3>3
    <2>4. CASE op.do = "reopen"
      BY <1>1, <1>2, <1>3, <2>4 DEF IncidentOutcomes, ReopenServed, IncidentStatus
    <2>5. CASE op.do = "post"
      BY <1>2, <2>5 DEF IncidentOutcomes, CommentServed
    <2> QED  BY <2>1, <2>2, <2>3, <2>4, <2>5 DEF IncidentDo
  <1>5. \A r \in IncidentRows(n + 1) : r.rev = n + 1 /\ r \in RecordOf(Kind)
    BY <1>1, RowTypes DEF Drawer, RowsAt
  <1> QED  BY <1>4, <1>5 DEF Fine, Newer

LEMMA DemandServed ==
    ASSUME Kind = "demand", row \in RecordOf(Kind), NEW actor, NEW op, op.do \in DemandDo,
           op.do \in {"decide", "override"} => op.arg \in Choice,
           NEW o \in DemandOutcomes(actor, op)
    PROVE  o.row \in RecordOf(Kind) /\ Newer(o.row) /\ o.answer \in ServerAnswer
  <1> DEFINE n == row.rev
             Fine(p) == (p.row = row \/ p.row \in DemandRows(n + 1)) /\ p.answer \in ServerAnswer
  <1>1. n \in Nat /\ row.status \in DemandStatus /\ row.step \in Choice \cup {"none"}
    BY RowTypes, DemandRowFacts DEF Drawer, RowsAt, Kind
  <1>2. \A p \in Refused \cup Accepted({row}) \cup {Outcome(row, "segregation")} : Fine(p)
    BY DEF Refused, Accepted, Outcome, ServerAnswer
  <1>3. ASSUME NEW s \in DemandStatus, NEW c \in Choice \cup {"none"}
        PROVE  \A p \in DemandBecomes(s, c) : Fine(p)
    <2>1. DemandRow(s, c, n + 1) \in DemandRows(n + 1)
      BY <1>3 DEF DemandRow, DemandRows
    <2> HIDE DEF n
    <2>2. DemandBecomes(s, c) = Accepted({DemandRow(s, c, n + 1)})
      BY DEF DemandBecomes, n
    <2>3. \A p \in DemandBecomes(s, c) : p.row = DemandRow(s, c, n + 1) /\ p.answer = "ok"
      BY <2>2 DEF Accepted, Outcome
    <2> QED  BY <2>1, <2>3 DEF ServerAnswer
  <1> HIDE DEF Fine
  <1>4. Fine(o)
    <2>1. CASE op.do = "triage"
      <3>1. o \in Refused \cup DemandBecomes("TRIAGING", row.step)
        BY <2>1 DEF DemandOutcomes, TriageServed
      <3> QED  BY <1>1, <1>2, <1>3, <3>1 DEF DemandStatus
    <2>2. CASE op.do = "score"
      <3>1. o \in Refused \cup DemandBecomes(row.status, row.step)
                  \cup DemandBecomes("WORTH_ASSESSED", row.step)
        BY <2>2 DEF DemandOutcomes, ScoreServed
      <3> QED  BY <1>1, <1>2, <1>3, <3>1 DEF DemandStatus
    <2>3. CASE op.do \in {"decide", "override"}
      <3>1. /\ op.arg \in Choice
            /\ o \in Refused \cup {Outcome(row, "segregation")} \cup DemandBecomes("REJECTED", op.arg)
                     \cup DemandBecomes("APPROVED", op.arg)
        BY <2>3 DEF DemandOutcomes, DecisionServed
      <3> QED  BY <1>2, <1>3, <3>1 DEF DemandStatus
    <2>4. CASE op.do = "reject"
      <3>1. o \in Refused \cup DemandBecomes("REJECTED", "DROP")
        BY <2>4 DEF DemandOutcomes, RejectServed
      <3> QED  BY <1>2, <1>3, <3>1 DEF DemandStatus, Choice
    <2>5. CASE op.do = "convert"
      <3>1. o \in Refused \cup Accepted({row}) \cup DemandBecomes("CONVERTED", row.step)
        BY <2>5 DEF DemandOutcomes, ConvertServed
      <3> QED  BY <1>1, <1>2, <1>3, <3>1 DEF DemandStatus
    <2>6. CASE op.do = "post"
      BY <1>2, <2>6 DEF DemandOutcomes, DemandCommentServed
    <2> QED  BY <2>1, <2>2, <2>3, <2>4, <2>5, <2>6 DEF DemandDo
  <1>5. \A r \in DemandRows(n + 1) : r.rev = n + 1 /\ r \in RecordOf(Kind)
    BY <1>1, RowTypes DEF Drawer, RowsAt
  <1> QED  BY <1>4, <1>5 DEF Fine, Newer

\* What may become of the record, by a request or on its own.
Rewritten(r) == r \in RecordOf(Kind) /\ Newer(r)

LEMMA ServedFacts ==
    ASSUME Kind \in Drawer, row \in RecordOf(Kind), NEW op \in OpOf(Kind), ~Reader(op),
           NEW o \in Outcomes(op)
    PROVE  /\ Rewritten(o.row) /\ o.answer \in ServerAnswer
           /\ Kind = "change" => /\ o.row.status # row.status => Departs(op, op.read.status)
                                 /\ op.read = row => Follows(o.row)
  <1>1. CASE Kind = "change"
    <2>1. o \in ChangeOutcomes(viewer, op) /\ op.do \in ChangeDo
      BY <1>1 DEF Outcomes, Is, Kind, OpOf, DoOf
    <2> QED  BY <1>1, <2>1, ChangeServed DEF Rewritten
  <1>2. CASE Kind = "incident"
    <2>1. /\ o \in IncidentOutcomes(viewer, op) /\ op.do \in IncidentDo
          /\ op.do = "assign" => op.read \in RecordOf(Kind)
      BY <1>2 DEF Outcomes, Is, Kind, OpOf, DoOf, Reader, ViewOf
    <2> QED  BY <1>2, <2>1, IncidentServed DEF Rewritten
  <1>3. CASE Kind = "demand"
    <2>1. /\ o \in DemandOutcomes(viewer, op) /\ op.do \in DemandDo
          /\ op.do \in {"decide", "override"} => op.arg \in Choice
      BY <1>3 DEF Outcomes, Is, Kind, OpOf, DoOf
    <2> QED  BY <1>3, <2>1, DemandServed DEF Rewritten
  <1> QED  BY <1>1, <1>2, <1>3 DEF Drawer

\* A step that other users take, or the clock: a change that no write has
\* overtaken stays in order.
Elsewhere ==
    /\ UNCHANGED <<viewer, stored, ui, call, orphans, clicks, session>>
    /\ Rewritten(row')
    /\ moves' \in Nat /\ theirs' \in ViewOf(Kind) /\ overtaken' \in BOOLEAN
    /\ Kind = "change" /\ ~overtaken' => ~overtaken /\ Follows(row')

LEMMA MovedFacts ==
    ASSUME Kind \in Drawer, row \in RecordOf(Kind), moves \in Nat, theirs \in ViewOf(Kind),
           overtaken \in BOOLEAN, MovedByOthers
    PROVE  Elsewhere
  <1>0. Rewritten(row) /\ Follows(row)
    BY DEF Rewritten, Newer, Follows
  <1>1. CASE TheyRead
    <2>1. UNCHANGED <<viewer, row, stored, ui, call, orphans, overtaken, clicks, session>>
      BY <1>1 DEF TheyRead
    <2>2. moves' \in Nat /\ theirs' \in ViewOf(Kind)
      BY <1>1 DEF TheyRead, ViewOf
    <2> QED  BY <1>0, <2>1, <2>2 DEF Elsewhere
  <1>2. CASE Is("change") /\ WindowPasses
    <2> DEFINE n == row.rev
    <2>1. n \in Nat /\ row \in ChangeRows(n) /\ Kind = "change"
      BY <1>2, RowTypes DEF Drawer, RowsAt, Is, Kind
    <2>2. /\ row.status = "SCHEDULED" /\ row' = [row EXCEPT !.met = FALSE, !.rev = n + 1]
          /\ UNCHANGED <<viewer, stored, ui, call, orphans, theirs, overtaken, clicks, session>>
          /\ moves' \in Nat
      BY <1>2 DEF WindowPasses, Turns
    <2> HIDE DEF n
    <2>3. /\ row' \in ChangeRows(n + 1) /\ row'.status = row.status /\ row'.met = FALSE
          /\ row'.step = row.step
      BY <2>1, <2>2, ChangeRowFacts DEF ChangeRows
    <2>4. Rewritten(row')
      BY <2>1, <2>3, RowTypes DEF Rewritten, Newer, Drawer, RowsAt, n
    <2>5. Follows(row')
      BY <2>2, <2>3 DEF Follows, InOrder, Terminal
    <2> QED  BY <2>2, <2>4, <2>5 DEF Elsewhere
  <1>3. ASSUME NEW o, TheyWrite(o), Rewritten(o.row),
               Kind = "change" => (theirs = row => Follows(o.row))
        PROVE  Elsewhere
    <2>1. /\ row' = o.row /\ theirs' = NoView
          /\ overtaken' = (overtaken \/ Overtakes(theirs, o.row)) /\ o.row # row
          /\ UNCHANGED <<viewer, stored, ui, call, orphans, moves, clicks, session>>
      BY <1>3 DEF TheyWrite
    <2>2. ~overtaken' => ~overtaken /\ theirs = row
      BY <2>1 DEF Overtakes
    <2> QED  BY <1>3, <2>1, <2>2 DEF Elsewhere, ViewOf
  <1>4. CASE Written
    <2>0. theirs \in RecordOf(Kind)
      BY <1>4 DEF Written, ViewOf
    <2>1. CASE Kind = "change"
      <3>1. PICK op \in ChangeRequests, b \in BOOLEAN :
               \E o \in ChangeOutcomes([owner |-> b, hats |-> Everyone], op) : TheyWrite(o)
        BY <1>4, <2>1 DEF Written, ChangeWrittenByOthers, Is, Kind
      <3>2. op.do \in ChangeDo /\ op.read = theirs
        BY DEF ChangeRequests, ChangeDo
      <3> QED  BY <1>3, <2>1, <3>1, <3>2, ChangeServed DEF Rewritten
    <2>2. CASE Kind = "incident"
      <3>1. PICK op \in IncidentRequests :
               \E o \in IncidentOutcomes([hats |-> Everyone], op) : TheyWrite(o)
        BY <1>4, <2>2 DEF Written, IncidentWrittenByOthers, Is, Kind
      <3>2. op.do \in IncidentDo /\ op.read = theirs
        BY DEF IncidentRequests, IncidentDo
      <3> QED  BY <1>3, <2>0, <2>2, <3>1, <3>2, IncidentServed DEF Rewritten
    <2>3. CASE Kind = "demand"
      <3>1. PICK op \in DemandRequests :
               \E o \in DemandOutcomes([owner |-> FALSE, hats |-> Everyone], op) : TheyWrite(o)
        BY <1>4, <2>3 DEF Written, DemandWrittenByOthers, Is, Kind
      <3>2. op.do \in DemandDo /\ (op.do \in {"decide", "override"} => op.arg \in Choice)
        BY DEF DemandRequests, DemandDo, Choice
      <3> QED  BY <1>3, <2>3, <3>1, <3>2, DemandServed DEF Rewritten
    <2> QED  BY <2>1, <2>2, <2>3 DEF Drawer
  <1> QED  BY <1>1, <1>2, <1>4 DEF MovedByOthers
-----------------------------------------------------------------------------
(* The kinds of steps *)

\* The override dialog of a demand holds a choice; the one of a change is over
\* a step that the viewer may decide.
DialogFits(u) ==
    /\ Kind = "demand" => (u.dialog = "override" <=> u.mode # "none")
    /\ Kind = "change" => (u.dialog = "override" => Decidable(u.view))

Keeps(u) == u \in UiOf(Kind) /\ (DialogFits(ui) => DialogFits(u))

Mounted(u) == u.open = ui.open /\ u.loading = ui.loading /\ u.failed = ui.failed

Shows(u) == u.view = ui.view /\ u.thread = ui.thread

Form(u) == u.posting = ui.posting /\ u.postAlert = ui.postAlert /\ u.draft = ui.draft

InThread == Kind = "change" /\ isReviewer

\* All that was asked for has come, and u shows it.
Delivers(s, u) ==
    /\ call[s].at = "reading" /\ call[s].missing = {}
    /\ IF InThread THEN /\ call[s].all = {"thread"} /\ u.view = ui.view
                        /\ u.thread = call[s].thread
                   ELSE /\ u.view = call[s].row
                        /\ Kind # "change" => u.thread = call[s].thread

\* Input that sends nothing.
Touches ==
    /\ Rendered /\ Keeps(ui') /\ Mounted(ui') /\ Shows(ui')
    /\ ui'.busy = ui.busy /\ ui'.posting = ui.posting /\ ui'.postAlert = ui.postAlert
    /\ ui'.draft = ui.draft \/ (clicks < MaxClicks /\ ui'.draft = clicks + 1)
    /\ (ui'.alert = ui.alert /\ last' = last) \/ last' = "none"
    /\ UNCHANGED <<viewer, row, stored, call, orphans, others, clicks, warned, landed, overlapped>>

\* A request for a write goes by what is on screen.
FromView(op) ==
    /\ op.seen = ui.view.status /\ op.read = NoView
    /\ op.do = "submit" => op.seen = "ASSESSING"
    /\ op.do = "schedule" => op.seen \in {"APPROVAL", "SCHEDULED"}
    /\ op.do = "rollback" => op.seen = "IMPLEMENTING"
    /\ op.do \in {"decide", "override"} => (DialogFits(ui) => ui.view.step # "none")

WriteSent(s, op) ==
    /\ Rendered /\ RunWrite(s, op)
    /\ op \in OpOf(Kind) /\ op.do # "post"
    /\ Kind # "change" => ~ui.busy
    /\ Kind = "change" => FromView(op)

\* What was awaited has been done, and is read again.
Continues(s) ==
    /\ call[s].at = "answered" /\ call[s].answer # "lost"
    /\ \E then \in {"write", "conflict", "decision", "post"}, parts \in PartsOf(viewer) :
          /\ call' = [call EXCEPT ![s] = Reading(then, parts)]
          /\ parts # {"thread"}
          /\ then = "post" => Posts(s)
          /\ Kind # "change" => (Posts(s) => then = "post")
    /\ Keeps(ui') /\ Mounted(ui') /\ Shows(ui') /\ Form(ui')
    /\ ui'.busy = ui.busy /\ ui'.alert = ui.alert
    /\ UNCHANGED <<viewer, row, stored, orphans, others, clicks, session>>

Loaded ==
    /\ Keeps(ui') /\ ui'.open = ui.open /\ ui'.failed = ui.failed /\ Form(ui')
    /\ ui'.busy = ui.busy
    /\ Delivers("load", ui') /\ Ends("load")
    /\ UNCHANGED <<viewer, row, stored, orphans, others, clicks, session>>

WriteEnded(s, how) ==
    /\ UnderWay(s) /\ ~Posts(s) /\ Ends(s) /\ last' = how
    /\ Keeps(ui') /\ Mounted(ui') /\ Form(ui')
    /\ \/ Delivers(s, ui') /\ how \in {"ok", "conflict"}
       \/ Shows(ui') /\ how = "failed" /\ ui'.alert
       \/ Shows(ui') /\ how = "conflict"
    /\ UNCHANGED <<viewer, row, stored, orphans, others, clicks, warned, landed, overlapped>>

PostEnded(s, how) ==
    /\ UnderWay(s) /\ Posts(s) /\ Ends(s) /\ last' = how
    /\ Keeps(ui') /\ Mounted(ui')
    /\ ui'.busy = ui.busy
    /\ \/ how = "ok" /\ Delivers(s, ui') /\ ui'.draft = 0
       \/ how = "failed" /\ Shows(ui') /\ ui'.postAlert /\ ui'.draft = ui.draft
    /\ UNCHANGED <<viewer, row, stored, orphans, others, clicks, warned, landed, overlapped>>

\* How a write or a post ends.
How == {"ok", "failed", "conflict"}

Step ==
    \/ Open(IF Kind = "change" THEN {"row"} ELSE Together)
    \/ Unmount
    \/ Touches
    \/ \E s \in CallSlots, op \in OpOf(Kind) : WriteSent(s, op)
    \/ \E s \in CallSlots : SubmitComment(s)
    \/ \E s \in CallSlots : call[s].at = "asked" /\ Served(s)
    \/ \E op \in orphans : ServedLate(op)
    \/ \E s \in Slots : Read(s)
    \/ \E s \in CallSlots : Lose(s)
    \/ Elsewhere
    \/ LoadFails \/ Loaded
    \/ \E s \in Slots : Kind = "change" /\ ChangeRowIn(s)
    \/ \E s \in CallSlots : Continues(s) \/ Converted(s)
    \/ \E s \in CallSlots, how \in How : WriteEnded(s, how) \/ PostEnded(s, how)
    \/ \E s \in CallSlots : Find(s)
    \/ \E op \in orphans : FindLate(op)

(* The shapes of a call. *)
LEMMA CallShapes ==
    ASSUME NEW v, NEW c \in CallOf(v)
    PROVE  /\ c.at \in {"idle", "leaving", "asked", "answered", "reading"}
           /\ c.at = "idle" => c = Idle
           /\ c.at = "asked" => c \in AskedOf(v.drawer)
           /\ c.at = "answered" => c \in AnsweredOf(v.drawer)
           /\ c.at = "reading" => c \in ReadingOf(v)
  BY DEF CallOf, Idle, Leaving, AskedOf, AnsweredOf, ReadingOf

LEMMA CallTyped ==
    ASSUME TypeInv, NEW s \in Slots
    PROVE  /\ call[s].at \in {"idle", "leaving", "asked", "answered", "reading"}
           /\ call[s].at = "idle" => call[s] = Idle
           /\ call[s].at = "asked" => call[s] \in AskedOf(Kind)
           /\ call[s].at = "answered" => call[s] \in AnsweredOf(Kind)
           /\ call[s].at = "reading" => call[s] \in ReadingOf(viewer)
  BY CallShapes DEF TypeInv, Kind

LEMMA SlotFacts == /\ CallSlots \subseteq Slots /\ "load" \in Slots /\ "load" \notin CallSlots
                   /\ \A s \in Slots : s # "load" => s \in CallSlots
  BY DEF Slots, CallSlots

\* What a request is once its transaction has read the record.
Found(op) == [op EXCEPT !.read = row]

LEMMA FoundTyped ==
    ASSUME TypeInv, NEW op \in OpOf(Kind)
    PROVE  /\ Found(op) \in OpOf(Kind)
           /\ Found(op).do = op.do /\ Found(op).seen = op.seen /\ Found(op).text = op.text
           /\ Found(op).read = row
  <1>1. row \in ViewOf(Kind)
    BY DEF TypeInv, ViewOf
  <1> QED  BY <1>1 DEF Found, OpOf

LEMMA FoundFacts ==
    ASSUME TypeInv, NEW s \in CallSlots, Find(s)
    PROVE  /\ call[s].at = "asked" /\ Reader(call[s].op)
           /\ call[s].op \in OpOf(Kind) /\ Found(call[s].op) \in OpOf(Kind)
           /\ call' = [call EXCEPT ![s] = [at |-> "asked", op |-> Found(call[s].op)]]
  <1>1. call[s].at = "asked" /\ Reader(call[s].op) /\ call' = [call EXCEPT ![s].op.read = row]
    BY DEF Find
  <1>2. call[s] \in AskedOf(Kind)
    BY <1>1, CallTyped, SlotFacts
  <1>3. call[s].op \in OpOf(Kind) /\ call[s] = [at |-> "asked", op |-> call[s].op]
    BY <1>2 DEF AskedOf
  <1>4. call' = [call EXCEPT ![s] = [call[s] EXCEPT !.op = Found(call[s].op)]]
    BY <1>1 DEF Found
  <1>5. [call[s] EXCEPT !.op = Found(call[s].op)] = [at |-> "asked", op |-> Found(call[s].op)]
    BY <1>3
  <1> QED  BY <1>1, <1>3, <1>4, <1>5, FoundTyped

LEMMA RequestTyped ==
    ASSUME TypeInv, NEW do \in DoOf(Kind), do # "post", NEW arg \in Arg,
           Kind = "demand" /\ do \in {"decide", "override"} => arg \in Choice
    PROVE  /\ Request(do, arg) \in OpOf(Kind)
           /\ Request(do, arg).do = do /\ Request(do, arg).seen = ui.view.status
           /\ Request(do, arg).read = NoView
  <1>1. ui.view \in ViewOf(Kind) /\ Kind \in Drawer
    BY DEF TypeInv, UiOf
  <1>2. ui.view.status \in Stage
    <2>1. CASE ui.view = NoView
      BY <2>1 DEF NoView, Stage
    <2>2. CASE ui.view \in RecordOf(Kind)
      BY <1>1, <2>2, RowTypes
    <2> QED  BY <1>1, <2>1, <2>2 DEF ViewOf
  <1> QED  BY <1>2, ClicksAssumption DEF Request, OpOf, ViewOf

(* Every control that writes. *)
LEMMA Clicked ==
    ASSUME TypeInv, NEW s \in CallSlots, Click(s)
    PROVE  \E op \in OpOf(Kind) : WriteSent(s, op)
  <1> DEFINE Sends0(do, arg) == Rendered /\ RunWrite(s, Request(do, arg))
  <1>0. ui \in UiOf(Kind) /\ ui.mode \in ModeOf(Kind)
    BY DEF TypeInv, UiOf
  <1>1. CASE Kind = "change"
    <2>1. ChangeClick(s)
      BY <1>1 DEF Click, Is, Kind
    <2>2. \E do \in ChangeDo, arg \in Arg :
             /\ Sends0(do, arg) /\ do # "post"
             /\ do = "submit" => ui.view.status = "ASSESSING"
             /\ do = "schedule" => ui.view.status \in {"APPROVAL", "SCHEDULED"}
             /\ do = "rollback" => ui.view.status = "IMPLEMENTING"
             /\ do \in {"decide", "override"} => Decidable(ui.view) \/ ui.dialog = "override"
      <3> USE DEF Unlocked, Usable, ChangeDo, Arg
      <3>1. CASE Advance(s)
        <4>1. CASE ui.view.status = "ASSESSING"
          BY <3>1, <4>1 DEF Advance
        <4>2. CASE ui.view.status # "ASSESSING"
          BY <3>1, <4>2 DEF Advance
        <4> QED  BY <4>1, <4>2
      <3>2. CASE SaveRfc(s)
        BY <3>2 DEF SaveRfc
      <3>3. CASE SaveRiskImpact(s)
        BY <3>3 DEF SaveRiskImpact
      <3>4. CASE SaveRollbackPlan(s)
        BY <3>4 DEF SaveRollbackPlan
      <3>5. CASE SaveWindow(s)
        BY <3>5 DEF SaveWindow
      <3>6. CASE RecordPir(s)
        BY <3>6 DEF RecordPir
      <3>7. CASE MarkRolledBack(s)
        BY <3>7 DEF MarkRolledBack
      <3>8. CASE AddLink(s)
        BY <3>8 DEF AddLink
      <3>9. CASE ConfirmDecision(s)
        <4>1. ui.mode \in {"APPROVED", "REJECTED"}
          BY <1>0, <1>1, <3>9 DEF ConfirmDecision, ModeOf
        <4> QED  BY <3>9, <4>1 DEF ConfirmDecision
      <3>10. CASE ConfirmOverride(s)
        BY <3>10 DEF ConfirmOverride
      <3> QED  BY <2>1, <3>1, <3>2, <3>3, <3>4, <3>5, <3>6, <3>7, <3>8, <3>9, <3>10 DEF ChangeClick
    <2>3. PICK do \in ChangeDo, arg \in Arg :
             /\ Sends0(do, arg) /\ do # "post"
             /\ do = "submit" => ui.view.status = "ASSESSING"
             /\ do = "schedule" => ui.view.status \in {"APPROVAL", "SCHEDULED"}
             /\ do = "rollback" => ui.view.status = "IMPLEMENTING"
             /\ do \in {"decide", "override"} => Decidable(ui.view) \/ ui.dialog = "override"
      BY <2>2
    <2>4. do \in DoOf(Kind)
      BY <1>1 DEF DoOf
    <2>5. /\ Request(do, arg) \in OpOf(Kind)
          /\ Request(do, arg).do = do /\ Request(do, arg).seen = ui.view.status
          /\ Request(do, arg).read = NoView
      BY <1>1, <2>3, <2>4, RequestTyped
    <2>6. Kind = "change" => (ui.dialog = "override" /\ DialogFits(ui) => Decidable(ui.view))
      BY DEF DialogFits
    <2>7. FromView(Request(do, arg))
      BY <1>1, <2>3, <2>5, <2>6 DEF FromView, Decidable
    <2> QED  BY <1>1, <2>3, <2>5, <2>7 DEF WriteSent
  <1>2. CASE Kind = "incident"
    <2>1. IncidentClick(s)
      BY <1>2 DEF Click, Is, Kind
    <2>2. \E do \in IncidentDo, arg \in Arg : Sends0(do, arg) /\ do # "post" /\ ~ui.busy
      <3> USE DEF Unlocked, Usable, IncidentDo, Arg
      <3>1. CASE SaveCategorisation(s)
        <4>1. CASE categorisationLocked
          BY <3>1, <4>1 DEF SaveCategorisation
        <4>2. CASE ~categorisationLocked
          BY <3>1, <4>2 DEF SaveCategorisation
        <4> QED  BY <4>1, <4>2
      <3>2. CASE Assign(s)
        BY <3>2 DEF Assign
      <3>3. CASE StartWork(s)
        BY <3>3 DEF StartWork
      <3>4. CASE Resolve(s)
        BY <3>4 DEF Resolve
      <3>5. CASE CloseIncident(s)
        BY <3>5 DEF CloseIncident
      <3>6. CASE Reopen(s)
        BY <3>6 DEF Reopen
      <3> QED  BY <2>1, <3>1, <3>2, <3>3, <3>4, <3>5, <3>6 DEF IncidentClick
    <2>3. PICK do \in IncidentDo, arg \in Arg : Sends0(do, arg) /\ do # "post" /\ ~ui.busy
      BY <2>2
    <2>4. do \in DoOf(Kind)
      BY <1>2 DEF DoOf
    <2>5. Request(do, arg) \in OpOf(Kind) /\ Request(do, arg).do = do
      BY <1>2, <2>3, <2>4, RequestTyped
    <2> QED  BY <1>2, <2>3, <2>5 DEF WriteSent
  <1>3. CASE Kind = "demand"
    <2>1. DemandClick(s)
      BY <1>3 DEF Click, Is, Kind
    <2>2. \E do \in DemandDo, arg \in Arg :
             /\ Sends0(do, arg) /\ do # "post" /\ ~ui.busy
             /\ do \in {"decide", "override"} => arg \in Choice
      <3> USE DEF Unlocked, Usable, DemandDo, Arg, Choice
      <3>1. CASE StartTriage(s)
        BY <3>1 DEF StartTriage
      <3>2. CASE SaveValue(s)
        BY <3>2 DEF SaveValue
      <3>3. CASE SaveEffort(s)
        BY <3>3 DEF SaveEffort
      <3>4. CASE SaveCostOfDelay(s)
        BY <3>4 DEF SaveCostOfDelay
      <3>5. CASE \E d \in {"PURSUE", "PARK", "DROP"} : ClickDecision(s, d)
        BY <3>5 DEF ClickDecision
      <3>6. CASE ConfirmJustified(s)
        <4>1. ui.mode \in Choice
          BY <1>0, <1>3, <3>6 DEF ConfirmJustified, ModeOf
        <4> QED  BY <3>6, <4>1 DEF ConfirmJustified
      <3>7. CASE ConfirmReject(s)
        BY <3>7 DEF ConfirmReject
      <3>8. CASE Convert(s)
        BY <3>8 DEF Convert
      <3> QED  BY <2>1, <3>1, <3>2, <3>3, <3>4, <3>5, <3>6, <3>7, <3>8 DEF DemandClick
    <2>3. PICK do \in DemandDo, arg \in Arg :
             /\ Sends0(do, arg) /\ do # "post" /\ ~ui.busy
             /\ do \in {"decide", "override"} => arg \in Choice
      BY <2>2
    <2>4. do \in DoOf(Kind)
      BY <1>3 DEF DoOf
    <2>5. Request(do, arg) \in OpOf(Kind) /\ Request(do, arg).do = do
      BY <2>3, <2>4, RequestTyped
    <2> QED  BY <1>3, <2>3, <2>5 DEF WriteSent
  <1> QED  BY <1>1, <1>2, <1>3 DEF TypeInv, Drawer

(* Every control that does not. *)
LEMMA Inputs ==
    ASSUME TypeInv, Input
    PROVE  Touches \/ \E s \in CallSlots : SubmitComment(s)
  <1>0. ui \in UiOf(Kind) /\ clicks \in Nat
    BY DEF TypeInv
  <1>1. ASSUME NEW f \in Field, Edit(f) PROVE Touches
    <2>1. Rendered /\ ui' = [ui EXCEPT !.edit = f]
      BY <1>1 DEF Edit, Usable
    <2>2. ui' \in UiOf(Kind)
      BY <1>0, <2>1 DEF UiOf
    <2>3. /\ DialogFits(ui) => DialogFits(ui')
          /\ Mounted(ui') /\ Shows(ui') /\ Form(ui') /\ ui'.busy = ui.busy /\ ui'.alert = ui.alert
      BY <1>0, <2>1 DEF UiOf, DialogFits, Mounted, Shows, Form
    <2> QED  BY <1>1, <2>1, <2>2, <2>3 DEF Edit, Touches, Keeps, Form, session
  <1>2. ASSUME Type PROVE Touches
    <2>1. Rendered /\ ui' = [ui EXCEPT !.draft = clicks + 1] /\ clicks < MaxClicks
      BY <1>2 DEF Type, Usable
    <2>2. ui' \in UiOf(Kind)
      BY <1>0, <2>1, ClicksAssumption DEF UiOf
    <2>3. /\ DialogFits(ui) => DialogFits(ui')
          /\ Mounted(ui') /\ Shows(ui') /\ ui'.busy = ui.busy /\ ui'.alert = ui.alert
          /\ ui'.posting = ui.posting /\ ui'.postAlert = ui.postAlert /\ ui'.draft = clicks + 1
      BY <1>0, <2>1 DEF UiOf, DialogFits, Mounted, Shows
    <2> QED  BY <1>2, <2>1, <2>2, <2>3 DEF Type, Touches, Keeps, session
  <1>3. ASSUME Kind = "change", ToggleGate \/ OpenOverride \/ CloseOverride
                                \/ \E d \in {"APPROVED", "REJECTED"} : Pick(d)
        PROVE Touches
    <2>1. /\ Rendered
          /\ \/ ui' = [ui EXCEPT !.ack = ~@]
             \/ ui' = [ui EXCEPT !.dialog = "override"] /\ Decidable(ui.view)
             \/ ui' = [ui EXCEPT !.dialog = "none"]
             \/ \E d \in {"APPROVED", "REJECTED", "none"} : ui' = [ui EXCEPT !.mode = d]
          /\ UNCHANGED <<viewer, row, stored, call, orphans, others, clicks, session>>
      BY <1>3 DEF ToggleGate, OpenOverride, CloseOverride, Pick, Usable, Unlocked
    <2>2. ui' \in UiOf(Kind)
      <3>1. ModeOf(Kind) = {"none", "APPROVED", "REJECTED"}
        BY <1>3 DEF ModeOf
      <3>2. CASE ui' = [ui EXCEPT !.ack = ~@]
        BY <1>0, <3>2 DEF UiOf
      <3>3. CASE \E d \in {"override", "none"} : ui' = [ui EXCEPT !.dialog = d]
        BY <1>0, <3>3 DEF UiOf
      <3>4. CASE \E d \in {"APPROVED", "REJECTED", "none"} : ui' = [ui EXCEPT !.mode = d]
        BY <1>0, <3>1, <3>4 DEF UiOf
      <3> QED  BY <2>1, <3>2, <3>3, <3>4
    <2>3. /\ DialogFits(ui) => DialogFits(ui')
          /\ Mounted(ui') /\ Shows(ui') /\ Form(ui') /\ ui'.busy = ui.busy /\ ui'.alert = ui.alert
      BY <1>0, <1>3, <2>1 DEF UiOf, DialogFits, Mounted, Shows, Form
    <2> QED  BY <2>1, <2>2, <2>3 DEF Touches, Keeps, Form, session
  <1>4. ASSUME Kind = "demand", NEW d \in Choice, ClickOwnDecision(d) PROVE Touches
    <2>1. Rendered /\ ui' = [ui EXCEPT !.alert = FALSE, !.mode = d, !.dialog = "override"]
      BY <1>4 DEF ClickOwnDecision, Unlocked, Usable
    <2>2. ui' \in UiOf(Kind)
      BY <1>0, <1>4, <2>1 DEF UiOf, ModeOf
    <2>3. /\ DialogFits(ui')
          /\ Mounted(ui') /\ Shows(ui') /\ Form(ui') /\ ui'.busy = ui.busy
      BY <1>0, <1>4, <2>1 DEF UiOf, DialogFits, Mounted, Shows, Form, Choice
    <2> QED  BY <1>4, <2>1, <2>2, <2>3 DEF ClickOwnDecision, Touches, Keeps, Form
  <1>5. ASSUME Kind = "demand", CancelOverride PROVE Touches
    <2>1. Rendered /\ ui' = [ui EXCEPT !.dialog = "none", !.mode = "none"]
      BY <1>5 DEF CancelOverride, DialogClosed
    <2>2. ui' \in UiOf(Kind)
      BY <1>0, <1>5, <2>1 DEF UiOf, ModeOf
    <2>3. /\ DialogFits(ui')
          /\ Mounted(ui') /\ Shows(ui') /\ Form(ui') /\ ui'.busy = ui.busy /\ ui'.alert = ui.alert
      BY <1>0, <1>5, <2>1 DEF UiOf, DialogFits, Mounted, Shows, Form
    <2> QED  BY <1>5, <2>1, <2>2, <2>3 DEF CancelOverride, Touches, Keeps, Form, session
  <1>6. /\ ChangeFields \subseteq Field
        /\ IncidentFields \subseteq Field /\ DemandFields \subseteq Field
    BY DEF ChangeFields, IncidentFields, DemandFields, Field
  <1> QED  BY <1>1, <1>2, <1>3, <1>4, <1>5, <1>6
              DEF Input, ChangeInput, IncidentInput, DemandInput, Is, Kind, Choice

(* What the drawer shows once its record has been read. *)
Reread(s) ==
    IF Kind = "change" THEN ChangeReread(s)
    ELSE IF Kind = "incident" THEN IncidentReread(s) ELSE DemandReread(s)

LEMMA ChangeShownFacts ==
    ASSUME Kind = "change", ui \in UiOf(Kind), NEW v \in ViewOf(Kind)
    PROVE  LET u == ChangeShown(ui, v)
           IN  /\ u \in UiOf(Kind) /\ DialogFits(u)
               /\ Mounted(u) /\ Form(u) /\ u.busy = ui.busy
               /\ u.view = v /\ u.thread = ui.thread
  <1>1. ModeOf(Kind) = {"none", "APPROVED", "REJECTED"}
    BY DEF ModeOf
  <1>2. PICK m, d : /\ m \in {ui.mode, "none"} /\ d \in {ui.dialog, "none"}
                    /\ d = "override" => Decidable(v)
                    /\ ChangeShown(ui, v) =
                          [ui EXCEPT !.view = v, !.edit = "none", !.alert = FALSE, !.note = FALSE,
                                     !.ack = FALSE, !.mode = m, !.dialog = d]
    BY DEF ChangeShown
  <1>3. ChangeShown(ui, v) \in UiOf(Kind)
    <2>1. m \in ModeOf(Kind) /\ d \in {"none", "override"}
      BY <1>1, <1>2 DEF UiOf
    <2> QED  BY <1>2, <2>1 DEF UiOf, Field
  <1>4. LET u == ChangeShown(ui, v)
        IN  /\ Mounted(u) /\ Form(u) /\ u.busy = ui.busy
            /\ u.view = v /\ u.thread = ui.thread /\ u.dialog = d
    BY <1>2 DEF UiOf, Mounted, Form
  <1> QED  BY <1>2, <1>3, <1>4 DEF DialogFits

LEMMA RereadFacts ==
    ASSUME TypeInv, NEW s \in Slots, call[s].at = "reading"
    PROVE  LET u == Reread(s)
           IN  /\ Keeps(u) /\ Mounted(u) /\ Form(u) /\ u.busy = ui.busy
               /\ InThread => u.view = ui.view /\ u.thread = call[s].thread
               /\ ~InThread => u.view = call[s].row
               /\ Kind # "change" => u.thread = call[s].thread
  <1> DEFINE v == call[s].row
             t == call[s].thread
  <1>1. v \in ViewOf(Kind) /\ t \in Nat /\ ui \in UiOf(Kind) /\ Kind \in Drawer
    BY CallTyped DEF ReadingOf, TypeInv, Kind
  <1> HIDE DEF v, t
  <1>2. CASE InThread
    <2>1. Reread(s) = [ui EXCEPT !.thread = t]
      BY <1>2 DEF InThread, Reread, ChangeReread, t
    <2>2. Reread(s) \in UiOf(Kind)
      BY <1>1, <2>1 DEF UiOf
    <2> QED  BY <1>1, <1>2, <2>1, <2>2 DEF UiOf, Keeps, Mounted, Form, DialogFits, InThread, t
  <1>3. CASE Kind = "change" /\ ~InThread
    <2>1. Reread(s) = ChangeShown(ui, v)
      BY <1>3 DEF InThread, Reread, ChangeReread, v
    <2> QED  BY <1>1, <1>3, <2>1, ChangeShownFacts DEF Keeps, v
  <1>4. CASE Kind # "change"
    <2>1. Reread(s) = [[ui EXCEPT !.view = v, !.edit = "none", !.alert = FALSE] EXCEPT !.thread = t]
      BY <1>4 DEF Reread, IncidentReread, IncidentShown, DemandReread, DemandShown, v, t
    <2>2. Reread(s) \in UiOf(Kind)
      BY <1>1, <2>1 DEF UiOf, Field
    <2>3. LET u == Reread(s)
          IN  /\ Mounted(u) /\ Form(u) /\ u.busy = ui.busy /\ u.view = v /\ u.thread = t
              /\ u.dialog = ui.dialog /\ u.mode = ui.mode
      BY <1>1, <2>1 DEF UiOf, Mounted, Form
    <2> QED  BY <1>4, <2>2, <2>3 DEF Keeps, DialogFits, InThread, v, t
  <1> QED  BY <1>2, <1>3, <1>4

LEMMA Delivered ==
    ASSUME TypeInv, NEW s \in Slots, Arrived(s), InThread => call[s].all = {"thread"},
           NEW u, u.view = Reread(s).view, u.thread = Reread(s).thread
    PROVE  Delivers(s, u)
  BY RereadFacts DEF Arrived, Delivers

\* The last touch to a drawer that has been read again.
LEMMA Settled ==
    ASSUME ui \in UiOf(Kind), NEW u, Keeps(u)
    PROVE  /\ LET w == [u EXCEPT !.busy = FALSE]
              IN  /\ Keeps(w) /\ (Mounted(u) => Mounted(w)) /\ (Form(u) => Form(w)) /\ ~w.busy
                  /\ w.view = u.view /\ w.thread = u.thread /\ w.alert = u.alert
           /\ LET w == [u EXCEPT !.loading = FALSE]
              IN  /\ Keeps(w) /\ (Form(u) => Form(w)) /\ w.busy = u.busy
                  /\ w.view = u.view /\ w.thread = u.thread
                  /\ w.open = u.open /\ w.failed = u.failed /\ ~w.loading
           /\ LET w == [[u EXCEPT !.draft = 0] EXCEPT !.posting = FALSE]
              IN  /\ Keeps(w) /\ (Mounted(u) => Mounted(w)) /\ w.busy = u.busy
                  /\ w.view = u.view /\ w.thread = u.thread
                  /\ w.draft = 0 /\ ~w.posting /\ w.postAlert = u.postAlert
  <1>1. u \in UiOf(Kind) /\ (DialogFits(ui) => DialogFits(u))
    BY DEF Keeps
  <1>2. LET w == [u EXCEPT !.busy = FALSE]
        IN  /\ w \in UiOf(Kind) /\ w.dialog = u.dialog /\ w.mode = u.mode
            /\ (Mounted(u) => Mounted(w)) /\ (Form(u) => Form(w)) /\ ~w.busy
            /\ w.view = u.view /\ w.thread = u.thread /\ w.alert = u.alert
    BY <1>1 DEF UiOf, Mounted, Form
  <1>3. LET w == [u EXCEPT !.loading = FALSE]
        IN  /\ w \in UiOf(Kind) /\ w.dialog = u.dialog /\ w.mode = u.mode
            /\ (Form(u) => Form(w)) /\ w.busy = u.busy
            /\ w.view = u.view /\ w.thread = u.thread
            /\ w.open = u.open /\ w.failed = u.failed /\ ~w.loading
    BY <1>1 DEF UiOf, Form
  <1>4. LET w == [[u EXCEPT !.draft = 0] EXCEPT !.posting = FALSE]
        IN  /\ w \in UiOf(Kind) /\ w.dialog = u.dialog /\ w.mode = u.mode
            /\ (Mounted(u) => Mounted(w)) /\ w.busy = u.busy
            /\ w.view = u.view /\ w.thread = u.thread
            /\ w.draft = 0 /\ ~w.posting /\ w.postAlert = u.postAlert
    <2> DEFINE x == [u EXCEPT !.draft = 0]
               w == [x EXCEPT !.posting = FALSE]
    <2>1. 0 \in 0..MaxClicks
      BY ClicksAssumption
    <2>2. x \in UiOf(Kind)
      BY <1>1, <2>1 DEF UiOf
    <2>3. w \in UiOf(Kind)
      BY <2>2 DEF UiOf
    <2>4. /\ w.dialog = u.dialog /\ w.mode = u.mode
          /\ (Mounted(u) => Mounted(w)) /\ w.busy = u.busy
          /\ w.view = u.view /\ w.thread = u.thread
          /\ w.draft = 0 /\ ~w.posting /\ w.postAlert = u.postAlert
      BY <1>1 DEF UiOf, Mounted
    <2> QED  BY <2>3, <2>4
  <1> QED  BY <1>1, <1>2, <1>3, <1>4 DEF Keeps, DialogFits

(* Every answer, and every failure. *)
LEMMA PartsFact ==
    ASSUME Kind \in Drawer
    PROVE  /\ Kind = "change" => {"row"} \in PartsOf(viewer)
           /\ Kind # "change" => Together \in PartsOf(viewer)
           /\ {"row"} # {"thread"} /\ Together # {"thread"}
  BY DEF PartsOf, Kind, Together

\* Where nothing is shown and nothing ends.
LEMMA Unmoved == ASSUME ui \in UiOf(Kind), ui' = ui PROVE Keeps(ui') /\ Mounted(ui') /\ Shows(ui') /\ Form(ui')
  BY DEF Keeps, Mounted, Shows, Form

LEMMA LoadAnswered ==
    ASSUME TypeInv, Arrived("load"), InThread => call["load"].all = {"thread"}, Ends("load"),
           ui' = [Reread("load") EXCEPT !.loading = FALSE],
           UNCHANGED <<viewer, row, stored, orphans, others, clicks, session>>
    PROVE  Loaded
  <1> DEFINE u == Reread("load")
  <1>1. call["load"].at = "reading" /\ "load" \in Slots /\ ui \in UiOf(Kind)
    BY SlotFacts DEF Arrived, TypeInv
  <1>2. Keeps(u) /\ Mounted(u) /\ Form(u) /\ u.busy = ui.busy
    BY <1>1, RereadFacts
  <1>3. /\ Keeps(ui') /\ Form(ui') /\ ui'.busy = u.busy /\ ui'.view = u.view
        /\ ui'.thread = u.thread /\ ui'.open = u.open /\ ui'.failed = u.failed
    <2> HIDE DEF u
    <2> QED  BY <1>1, <1>2, Settled DEF u
  <1>4. Delivers("load", ui')
    BY <1>1, <1>3, Delivered
  <1> QED  BY <1>2, <1>3, <1>4 DEF Loaded, Mounted

LEMMA WriteAnswered ==
    ASSUME TypeInv, NEW s \in CallSlots, Arrived(s), InThread => call[s].all = {"thread"},
           ~Posts(s), NEW how \in {"ok", "conflict"}, WriteEnds(s, Reread(s), how)
    PROVE  WriteEnded(s, how)
  <1> DEFINE u == Reread(s)
  <1>1. call[s].at = "reading" /\ s \in Slots /\ ui \in UiOf(Kind)
    BY SlotFacts DEF Arrived, TypeInv
  <1>2. Keeps(u) /\ Mounted(u) /\ Form(u)
    BY <1>1, RereadFacts
  <1>3. /\ Keeps(ui') /\ Mounted(ui') /\ Form(ui') /\ ui'.view = u.view /\ ui'.thread = u.thread
    <2>1. ui' = [u EXCEPT !.busy = FALSE]
      BY DEF WriteEnds
    <2> HIDE DEF u
    <2> QED  BY <1>1, <1>2, <2>1, Settled
  <1>4. Delivers(s, ui')
    BY <1>1, <1>3, Delivered
  <1> QED  BY <1>1, <1>3, <1>4 DEF WriteEnded, WriteEnds, UnderWay

LEMMA WriteFailed ==
    ASSUME TypeInv, NEW s \in CallSlots, UnderWay(s), ~Posts(s), NEW how, NEW u,
           Keeps(u), Mounted(u), Shows(u), Form(u), WriteEnds(s, u, how),
           how = "conflict" \/ (how = "failed" /\ u.alert)
    PROVE  WriteEnded(s, how)
  <1>1. ui' = [u EXCEPT !.busy = FALSE] /\ ui \in UiOf(Kind)
    BY DEF WriteEnds, TypeInv
  <1>2. /\ Keeps(ui') /\ Mounted(ui') /\ Form(ui') /\ ui'.view = u.view /\ ui'.thread = u.thread
        /\ ui'.alert = u.alert
    BY <1>1, Settled
  <1> QED  BY <1>2 DEF WriteEnded, WriteEnds, Shows

LEMMA PostAnswered ==
    ASSUME TypeInv, NEW s \in CallSlots, Arrived(s), InThread => call[s].all = {"thread"},
           PostShown(s, Reread(s))
    PROVE  PostEnded(s, "ok")
  <1> DEFINE u == Reread(s)
  <1>1. call[s].at = "reading" /\ s \in Slots /\ ui \in UiOf(Kind)
    BY SlotFacts DEF Arrived, TypeInv
  <1>2. Keeps(u) /\ Mounted(u) /\ Form(u) /\ u.busy = ui.busy
    BY <1>1, RereadFacts
  <1>3. /\ Keeps(ui') /\ Mounted(ui') /\ ui'.busy = u.busy
        /\ ui'.view = u.view /\ ui'.thread = u.thread
        /\ ui'.draft = 0
    <2>1. ui' = [[u EXCEPT !.draft = 0] EXCEPT !.posting = FALSE]
      BY DEF PostShown, PostEnds
    <2> HIDE DEF u
    <2> QED  BY <1>1, <1>2, <2>1, Settled
  <1>4. Delivers(s, ui')
    BY <1>1, <1>3, Delivered
  <1> QED  BY <1>1, <1>2, <1>3, <1>4 DEF PostEnded, PostShown, PostEnds, UnderWay

LEMMA PostFailed ==
    ASSUME TypeInv, NEW s \in CallSlots, PostFails(s)
    PROVE  PostEnded(s, "failed")
  <1>1. ui \in UiOf(Kind) /\ ui' = [[ui EXCEPT !.postAlert = TRUE] EXCEPT !.posting = FALSE]
    BY DEF PostFails, PostEnds, TypeInv
  <1>2. ui' \in UiOf(Kind)
    BY <1>1 DEF UiOf
  <1>3. /\ Mounted(ui') /\ Shows(ui') /\ ui'.postAlert /\ ui'.draft = ui.draft /\ ui'.busy = ui.busy
        /\ DialogFits(ui) => DialogFits(ui')
    BY <1>1 DEF UiOf, Mounted, Shows, DialogFits
  <1> QED  BY <1>2, <1>3 DEF PostEnded, PostFails, PostEnds, Keeps, UnderWay, Posts

LEMMA Answers1 ==
    ASSUME TypeInv, Answer
    PROVE  Step
  <1>0. /\ ui \in UiOf(Kind) /\ Kind \in Drawer
        /\ \A s \in CallSlots : s \in Slots
    BY SlotFacts DEF TypeInv
  <1>1. ASSUME NEW s \in CallSlots, NEW parts \in PartsOf(viewer), parts # {"thread"}, PostDone(s, parts)
        PROVE  Continues(s)
    <2>1. /\ call[s].at = "answered" /\ call[s].answer = "ok" /\ Posts(s)
          /\ call' = [call EXCEPT ![s] = Reading("post", parts)] /\ ui' = ui
          /\ UNCHANGED <<viewer, row, stored, orphans, others, clicks, session>>
      BY <1>1 DEF PostDone, Answered, Reads
    <2> QED  BY <1>0, <1>1, <2>1, Unmoved DEF Continues
  <1>2. CASE Kind = "change"
    <2>0. /\ {"row"} \in PartsOf(viewer) /\ {"row"} # {"thread"}
          /\ \A s \in Slots : Reread(s) = ChangeReread(s)
          /\ isReviewer <=> InThread
      BY <1>0, <1>2, PartsFact DEF Reread, InThread
    <2>1. CASE ChangeLoaded
      <3>1. Loaded
        BY <2>0, <2>1, SlotFacts, LoadAnswered DEF ChangeLoaded, ChangeRead
      <3> QED  BY <3>1 DEF Step
    <2>2. CASE \E s \in Slots : ChangeRowIn(s)
      BY <1>2, <2>2 DEF Step
    <2>3. ASSUME NEW s \in CallSlots, ChangeWriteDone(s) PROVE Continues(s)
      <3>1. /\ call[s].at = "answered" /\ call[s].answer = "ok" /\ ~Posts(s)
            /\ call' = [call EXCEPT ![s] = Reading("write", {"row"})] /\ ui' = ui
            /\ UNCHANGED <<viewer, row, stored, orphans, others, clicks, session>>
        BY <2>3 DEF ChangeWriteDone, Answered, Reads, ChangeParts
      <3> QED  BY <1>0, <1>2, <2>0, <3>1, Unmoved DEF Continues
    <2>4. ASSUME NEW s \in CallSlots, ChangeWriteConflicts(s) PROVE Continues(s)
      <3>1. /\ call[s].at = "answered" /\ call[s].answer = "conflict"
            /\ call' = [call EXCEPT ![s] = Reading("conflict", {"row"})]
            /\ ui' = [ui EXCEPT !.note = TRUE]
            /\ UNCHANGED <<viewer, row, stored, orphans, others, clicks, session>>
        BY <2>4 DEF ChangeWriteConflicts, Answered, Reads, ChangeParts
      <3>2. /\ ui' \in UiOf(Kind) /\ (DialogFits(ui) => DialogFits(ui'))
            /\ Mounted(ui') /\ Shows(ui') /\ Form(ui') /\ ui'.busy = ui.busy /\ ui'.alert = ui.alert
        BY <1>0, <3>1 DEF UiOf, DialogFits, Mounted, Shows, Form
      <3> QED  BY <1>2, <2>0, <3>1, <3>2 DEF Continues, Keeps
    <2>5. ASSUME NEW s \in CallSlots, ChangeWriteShown(s) PROVE \E how \in How : WriteEnded(s, how)
      <3>1. /\ Arrived(s) /\ (InThread => call[s].all = {"thread"}) /\ ~Posts(s)
            /\ \E how \in {"ok", "conflict"} : WriteEnds(s, Reread(s), how)
        BY <1>0, <2>0, <2>5 DEF ChangeWriteShown, ChangeRead, Arrived, Posts
      <3> QED  BY <3>1, WriteAnswered DEF How
    <2>6. ASSUME NEW s \in CallSlots, ChangeRead(s), PostShown(s, ChangeReread(s))
          PROVE  PostEnded(s, "ok")
      BY <1>0, <2>0, <2>6, PostAnswered DEF ChangeRead
    <2> QED  BY <1>1, <1>2, <2>0, <2>1, <2>2, <2>3, <2>4, <2>5, <2>6
                DEF Answer, ChangeAnswer, Is, Kind, ChangeParts, Step, How
  <1>3. ASSUME Kind # "change", NEW s \in CallSlots, NEW then \in {"write", "decision"},
               call[s].at = "answered", call[s].answer = "ok", ~Posts(s),
               Reads(s, then, Together), ui' = ui \/ (Kind = "demand" /\ ui' = DialogClosed(ui)),
               UNCHANGED <<viewer, row, stored, orphans, others, clicks, session>>
        PROVE  Continues(s)
    <2>1. Keeps(ui') /\ Mounted(ui') /\ Shows(ui') /\ Form(ui') /\ ui'.busy = ui.busy /\ ui'.alert = ui.alert
      <3>1. CASE ui' = ui
        BY <1>0, <3>1, Unmoved
      <3>2. CASE Kind = "demand" /\ ui' = [ui EXCEPT !.dialog = "none", !.mode = "none"]
        <4>1. "none" \in ModeOf(Kind)
          BY <3>2 DEF ModeOf
        <4>2. ui' \in UiOf(Kind)
          BY <1>0, <3>2, <4>1 DEF UiOf
        <4> QED  BY <1>0, <3>2, <4>2 DEF UiOf, Keeps, DialogFits, Mounted, Shows, Form
      <3> QED  BY <1>3, <3>1, <3>2 DEF DialogClosed
    <2> QED  BY <1>0, <1>3, <2>1, PartsFact DEF Continues, Reads
  <1>4. CASE Kind = "incident"
    <2>0. /\ Together \in PartsOf(viewer) /\ Together # {"thread"} /\ ~InThread
          /\ \A s \in Slots : Reread(s) = IncidentReread(s)
      BY <1>0, <1>4, PartsFact DEF Reread, InThread
    <2>1. CASE IncidentLoaded
      <3>1. Loaded
        BY <2>0, <2>1, SlotFacts, LoadAnswered DEF IncidentLoaded
      <3> QED  BY <3>1 DEF Step
    <2>2. ASSUME NEW s \in CallSlots, IncidentRefetch(s) PROVE Continues(s)
      BY <1>3, <1>4, <2>2 DEF IncidentRefetch, Answered
    <2>3. ASSUME NEW s \in CallSlots, IncidentWriteShown(s) PROVE WriteEnded(s, "ok")
      BY <1>0, <2>0, <2>3, WriteAnswered DEF IncidentWriteShown
    <2>4. ASSUME NEW s \in CallSlots, Arrived(s), PostShown(s, IncidentReread(s))
          PROVE  PostEnded(s, "ok")
      BY <1>0, <2>0, <2>4, PostAnswered
    <2> QED  BY <1>1, <1>4, <2>0, <2>1, <2>2, <2>3, <2>4 DEF Answer, IncidentAnswer, Is, Kind, Step, How
  <1>5. CASE Kind = "demand"
    <2>0. /\ Together \in PartsOf(viewer) /\ Together # {"thread"} /\ ~InThread
          /\ \A s \in Slots : Reread(s) = DemandReread(s)
      BY <1>0, <1>5, PartsFact DEF Reread, InThread
    <2>1. CASE DemandLoaded
      <3>1. Loaded
        BY <2>0, <2>1, SlotFacts, LoadAnswered DEF DemandLoaded
      <3> QED  BY <3>1 DEF Step
    <2>2. ASSUME NEW s \in CallSlots, DemandWriteDone(s) \/ DecisionDone(s) PROVE Continues(s)
      <3>1. call[s].at = "answered" /\ call[s].answer = "ok" /\ ~Posts(s)
        BY <2>2 DEF DemandWriteDone, DecisionDone, Answered, Deciding, Posts
      <3> QED  BY <1>3, <1>5, <2>2, <3>1 DEF DemandWriteDone, DecisionDone
    <2>3. ASSUME NEW s \in CallSlots, DecisionShown(s) \/ DemandWriteShown(s) PROVE WriteEnded(s, "ok")
      <3>1. Arrived(s) /\ ~Posts(s) /\ WriteEnds(s, Reread(s), "ok")
        BY <1>0, <2>0, <2>3 DEF DecisionShown, DemandWriteShown, Arrived, Posts
      <3> QED  BY <2>0, <3>1, WriteAnswered
    <2>4. ASSUME NEW s \in CallSlots, Arrived(s), PostShown(s, DemandReread(s))
          PROVE  PostEnded(s, "ok")
      BY <1>0, <2>0, <2>4, PostAnswered
    <2>5. CASE \E s \in CallSlots : Leave(s)
      BY <2>5 DEF Leave, Step
    <2> QED  BY <1>1, <1>5, <2>0, <2>1, <2>2, <2>3, <2>4, <2>5 DEF Answer, DemandAnswer, Is, Kind, Step, How
  <1> QED  BY <1>0, <1>2, <1>4, <1>5 DEF Drawer

LEMMA Failures ==
    ASSUME TypeInv, Failure \/ Caught
    PROVE  Step
  <1>0. /\ ui \in UiOf(Kind) /\ Kind \in Drawer
        /\ \A s \in CallSlots : s \in Slots
        /\ call["load"].at \in {"idle", "reading"} /\ call \in [Slots -> CallOf(viewer)]
    BY SlotFacts DEF TypeInv
  <1>1. ASSUME NEW s \in Slots, Lose(s) PROVE Step
    <2>1. s \in CallSlots
      BY <1>0, <1>1, SlotFacts DEF Lose
    <2> QED  BY <1>1, <2>1 DEF Step
  <1>2. CASE LoadFails
    BY <1>2 DEF Step
  <1>3. ASSUME NEW s \in CallSlots, PostFails(s) PROVE Step
    BY <1>3, PostFailed DEF Step, How
  <1>4. /\ Keeps(ui) /\ Mounted(ui) /\ Shows(ui) /\ Form(ui)
        /\ LET u == [ui EXCEPT !.alert = TRUE]
           IN  Keeps(u) /\ Mounted(u) /\ Shows(u) /\ Form(u) /\ u.alert
        /\ Kind = "demand" =>
             LET u == [DialogClosed(ui) EXCEPT !.alert = TRUE]
             IN  Keeps(u) /\ Mounted(u) /\ Shows(u) /\ Form(u) /\ u.alert
    <2>1. Keeps(ui) /\ Mounted(ui) /\ Shows(ui) /\ Form(ui)
      BY <1>0 DEF Keeps, Mounted, Shows, Form
    <2>2. LET u == [ui EXCEPT !.alert = TRUE]
          IN  Keeps(u) /\ Mounted(u) /\ Shows(u) /\ Form(u) /\ u.alert
      <3>1. [ui EXCEPT !.alert = TRUE] \in UiOf(Kind)
        BY <1>0 DEF UiOf
      <3> QED  BY <1>0, <3>1 DEF UiOf, Keeps, DialogFits, Mounted, Shows, Form
    <2>3. ASSUME Kind = "demand"
          PROVE  LET u == [DialogClosed(ui) EXCEPT !.alert = TRUE]
                 IN  Keeps(u) /\ Mounted(u) /\ Shows(u) /\ Form(u) /\ u.alert
      <3> DEFINE x == [ui EXCEPT !.dialog = "none", !.mode = "none"]
                 u == [x EXCEPT !.alert = TRUE]
      <3>1. "none" \in ModeOf(Kind)
        BY <2>3 DEF ModeOf
      <3>2. x \in UiOf(Kind)
        BY <1>0, <3>1 DEF UiOf
      <3>3. u \in UiOf(Kind)
        BY <3>2 DEF UiOf
      <3>4. /\ Mounted(u) /\ Shows(u) /\ Form(u) /\ u.alert
            /\ u.dialog = "none" /\ u.mode = "none"
        BY <1>0 DEF UiOf, Mounted, Shows, Form
      <3>5. u = [DialogClosed(ui) EXCEPT !.alert = TRUE]
        BY DEF DialogClosed
      <3> HIDE DEF u, x
      <3> QED  BY <2>3, <3>3, <3>4, <3>5 DEF Keeps, DialogFits
    <2> QED  BY <2>1, <2>2, <2>3
  <1>5. ASSUME NEW s \in CallSlots, WriteFails(s) PROVE Step
    <2> DEFINE u == [ui EXCEPT !.alert = TRUE]
    <2>1. Keeps(u) /\ Mounted(u) /\ Shows(u) /\ Form(u) /\ u.alert
      BY <1>4
    <2>2. UnderWay(s) /\ ~Posts(s) /\ WriteEnds(s, u, "failed")
      BY <1>5 DEF WriteFails, Answered, UnderWay
    <2> HIDE DEF u
    <2>3. WriteEnded(s, "failed")
      BY <2>1, <2>2, WriteFailed
    <2> QED  BY <2>3 DEF Step, How
  <1>6. ASSUME NEW s \in CallSlots, WriteUnread(s) PROVE Step
    <2>1. UnderWay(s) /\ ~Posts(s)
      BY <1>6 DEF WriteUnread, UnderWay, Posts
    <2>2. CASE call[s].then = "write"
      <3> DEFINE u == [ui EXCEPT !.alert = TRUE]
      <3>1. Keeps(u) /\ Mounted(u) /\ Shows(u) /\ Form(u) /\ u.alert
        BY <1>4
      <3>2. WriteEnds(s, u, "failed")
        BY <1>6, <2>2 DEF WriteUnread
      <3> HIDE DEF u
      <3>3. WriteEnded(s, "failed")
        BY <2>1, <3>1, <3>2, WriteFailed
      <3> QED  BY <3>3 DEF Step, How
    <2>3. CASE call[s].then = "conflict"
      <3>1. WriteEnds(s, ui, "conflict")
        BY <1>6, <2>3 DEF WriteUnread
      <3>2. WriteEnded(s, "conflict")
        BY <1>4, <2>1, <3>1, WriteFailed
      <3> QED  BY <3>2 DEF Step, How
    <2> QED  BY <1>6, <2>2, <2>3 DEF WriteUnread
  <1>7. ASSUME Kind = "demand", NEW s \in CallSlots, DecisionFails(s) PROVE Step
    <2> DEFINE u == [DialogClosed(ui) EXCEPT !.alert = TRUE]
    <2>1. Keeps(u) /\ Mounted(u) /\ Shows(u) /\ Form(u) /\ u.alert
      BY <1>4, <1>7
    <2>2. UnderWay(s) /\ ~Posts(s) /\ WriteEnds(s, u, "failed")
      BY <1>7 DEF DecisionFails, Deciding, Answered, UnderWay, Posts
    <2> HIDE DEF u
    <2>3. WriteEnded(s, "failed")
      BY <2>1, <2>2, WriteFailed
    <2> QED  BY <2>3 DEF Step, How
  <1> QED  BY <1>1, <1>2, <1>3, <1>5, <1>6, <1>7 DEF Failure, Caught, Is, Kind

LEMMA NextIsStep ==
    ASSUME TypeInv, Next
    PROVE  Step
  <1>1. CASE Open(IF Is("change") THEN ChangeParts ELSE Together)
    BY <1>1 DEF Step, Is, Kind, ChangeParts
  <1>2. CASE Close
    BY <1>2 DEF Close, Step
  <1>3. CASE \E s \in CallSlots : Click(s)
    BY <1>3, Clicked DEF Step
  <1>4. CASE Input
    BY <1>4, Inputs DEF Step
  <1>5. ASSUME NEW s \in Slots, Served(s) PROVE Step
    <2>1. s \in CallSlots /\ call[s].at = "asked"
      BY <1>5, SlotFacts DEF TypeInv, Served
    <2> QED  BY <1>5, <2>1 DEF Step
  <1>6. CASE \E op \in orphans : ServedLate(op)
    BY <1>6 DEF Step
  <1>7. CASE \E s \in Slots : Read(s)
    BY <1>7 DEF Step
  <1>8. CASE Answer
    BY <1>8, Answers1
  <1>9. CASE Failure \/ Caught
    BY <1>9, Failures
  <1>10. CASE MovedByOthers
    BY <1>10, MovedFacts DEF TypeInv, Step
  <1>11. ASSUME NEW s \in Slots, Find(s) PROVE Step
    <2>1. s \in CallSlots
      BY <1>11, SlotFacts DEF TypeInv, Find
    <2> QED  BY <1>11, <2>1 DEF Step
  <1>12. CASE \E op \in orphans : FindLate(op)
    BY <1>12 DEF Step
  <1> QED  BY <1>1, <1>2, <1>3, <1>4, <1>5, <1>6, <1>7, <1>8, <1>9, <1>10, <1>11, <1>12 DEF Next
-----------------------------------------------------------------------------
(* Types *)

LEMMA TypeLater ==
    ASSUME TypeInv, viewer' = viewer, row' \in RecordOf(Kind),
           stored' \in [Texts -> Nat], warned' \in [Texts -> Nat],
           ui' \in UiOf(Kind), call' \in [Slots -> CallOf(viewer)],
           call'["load"].at \in {"idle", "reading"},
           orphans' \in SUBSET OpOf(Kind), IsFiniteSet(orphans'),
           moves' \in Nat, theirs' \in ViewOf(Kind), overtaken' \in BOOLEAN,
           clicks' \in 0..MaxClicks, landed' \in Nat,
           last' \in {"none", "ok", "failed", "conflict"}, overlapped' \in BOOLEAN
    PROVE  TypeInv'
  BY DEF TypeInv, Kind

\* All that a step of the mounted drawer itself leaves alone.
LEMMA UiTypeLater ==
    ASSUME TypeInv, UNCHANGED <<viewer, row, stored, orphans, others, clicks, warned, landed, overlapped>>,
           ui' \in UiOf(Kind), NEW s \in Slots, NEW c \in CallOf(viewer),
           call' = [call EXCEPT ![s] = c], s = "load" => c.at \in {"idle", "reading"},
           last' \in {"none", "ok", "failed", "conflict"}
    PROVE  TypeInv'
  <1>1. call' \in [Slots -> CallOf(viewer)] /\ call'["load"].at \in {"idle", "reading"}
    BY SlotFacts DEF TypeInv
  <1> QED  BY <1>1, TypeLater DEF TypeInv, others

LEMMA CommentsTyped == TypeInv => Comments \in Nat
  <1> SUFFICES ASSUME TypeInv PROVE Comments \in Nat
    OBVIOUS
  <1>1. IsFiniteSet(Texts)
    BY FS_Interval, ClicksAssumption DEF Texts
  <1>2. IsFiniteSet(Texts \X Texts)
    BY <1>1, FS_Product
  <1>3. IsFiniteSet({p \in Texts \X Texts : p[2] <= stored[p[1]]})
    BY <1>2, FS_Subset
  <1> QED  BY <1>3, FS_CardinalityType DEF Comments

LEMMA ReadingTyped ==
    ASSUME Kind \in Drawer, NEW parts \in PartsOf(viewer),
           NEW then \in {"load", "write", "conflict", "decision", "post"}
    PROVE  Reading(then, parts) \in CallOf(viewer) /\ Reading(then, parts).at = "reading"
  BY DEF Reading, CallOf, ReadingOf, PartsOf, ViewOf, Together

LEMMA SentTyped ==
    ASSUME TypeInv, NEW s \in CallSlots, NEW op \in OpOf(Kind), Sends(s, op), ui' \in UiOf(Kind),
           UNCHANGED <<viewer, row, stored, orphans, others, landed>>, warned' \in [Texts -> Nat]
    PROVE  TypeInv'
  <1>1. [at |-> "asked", op |-> op] \in CallOf(viewer)
    BY DEF CallOf, AskedOf, Kind
  <1>2. /\ call' \in [Slots -> CallOf(viewer)] /\ call'["load"] = call["load"]
        /\ clicks' \in 0..MaxClicks /\ last' = "none" /\ overlapped' \in BOOLEAN
    BY <1>1, SlotFacts, ClicksAssumption DEF TypeInv, Sends
  <1> QED  BY <1>2, TypeLater DEF TypeInv, others

LEMMA PostTyped ==
    ASSUME TypeInv, ui.draft # 0
    PROVE  /\ Request("post", "none") \in OpOf(Kind)
           /\ Request("post", "none").text = ui.draft /\ Request("post", "none").do = "post"
  <1>1. ui.view \in ViewOf(Kind) /\ ui.draft \in 0..MaxClicks /\ Kind \in Drawer
    BY DEF TypeInv, UiOf
  <1>2. ui.view.status \in Stage
    <2>1. CASE ui.view = NoView
      BY <2>1 DEF NoView, Stage
    <2>2. CASE ui.view \in RecordOf(Kind)
      BY <1>1, <2>2, RowTypes
    <2> QED  BY <1>1, <2>1, <2>2 DEF ViewOf
  <1>3. "post" \in DoOf(Kind) /\ "none" \in Arg
    BY DEF DoOf, ChangeDo, IncidentDo, DemandDo, Arg
  <1> QED  BY <1>1, <1>2, <1>3 DEF Request, OpOf, ViewOf

LEMMA Counted ==
    ASSUME NEW f \in [Texts -> Nat], NEW t
    PROVE  [f EXCEPT ![t] = @ + 1] \in [Texts -> Nat]
  <1>1. CASE t \in Texts
    BY <1>1
  <1>2. CASE t \notin Texts
    BY <1>2
  <1> QED  BY <1>1, <1>2

LEMMA TypePreserved ==
    ASSUME TypeInv, Step
    PROVE  TypeInv'
  <1>0. /\ ui \in UiOf(Kind) /\ Kind \in Drawer /\ row \in RecordOf(Kind)
        /\ call \in [Slots -> CallOf(viewer)] /\ call["load"].at \in {"idle", "reading"}
        /\ \A s \in CallSlots : s \in Slots /\ s # "load"
        /\ Idle \in CallOf(viewer) /\ Idle.at = "idle" /\ Leaving \in CallOf(viewer)
    BY SlotFacts DEF TypeInv, CallOf, Idle
  <1>f. /\ NoView \in ViewOf(Kind) /\ 0 \in 0..MaxClicks /\ 0 \in Nat /\ "none" \in Field
        /\ "none" \in ModeOf(Kind)
    BY ClicksAssumption DEF ViewOf, Field, ModeOf
  <1>1. CASE Open(IF Kind = "change" THEN {"row"} ELSE Together)
    <2> DEFINE parts == IF Kind = "change" THEN {"row"} ELSE Together
    <2>1. parts \in PartsOf(viewer)
      BY <1>0, PartsFact
    <2>2. ui' \in UiOf(Kind)
      BY <1>1, <1>f DEF Open, Fresh, UiOf
    <2>3. call' = [call EXCEPT !["load"] = Reading("load", parts)]
      BY <1>1 DEF Open, Reads
    <2> HIDE DEF parts
    <2>4. Reading("load", parts) \in CallOf(viewer) /\ Reading("load", parts).at = "reading"
      BY <1>0, <2>1, ReadingTyped
    <2> QED  BY <1>1, <2>2, <2>3, <2>4, UiTypeLater, SlotFacts DEF Open, session, TypeInv, others
  <1>2. CASE Unmount
    <2> DEFINE gone == {t \in Slots : call[t].at = "asked"}
    <2>1. ui' \in UiOf(Kind)
      BY <1>2, <1>f DEF Unmount, Unmounted, Fresh, UiOf
    <2>2. call' \in [Slots -> CallOf(viewer)] /\ call'["load"].at = "idle"
      BY <1>0, <1>2, SlotFacts DEF Unmount
    <2>3. \A t \in gone : call[t].op \in OpOf(Kind)
      BY CallTyped DEF AskedOf
    <2>4. orphans' \in SUBSET OpOf(Kind)
      BY <1>2, <2>3 DEF Unmount, TypeInv
    <2>5. IsFiniteSet(orphans')
      <3> DEFINE three == {call["load"].op} \cup {call["first"].op} \cup {call["second"].op}
      <3>1. IsFiniteSet(three)
        BY FS_Singleton, FS_Union
      <3>2. orphans' \subseteq orphans \cup three
        BY <1>2 DEF Unmount, Slots, CallSlots
      <3>3. IsFiniteSet(orphans)
        BY DEF TypeInv
      <3> HIDE DEF three
      <3>4. IsFiniteSet(orphans \cup three)
        BY <3>1, <3>3, FS_Union
      <3> QED  BY <3>2, <3>4, FS_Subset
    <2> QED  BY <1>2, <2>1, <2>2, <2>4, <2>5, TypeLater DEF Unmount, TypeInv, others
  <1>3. CASE Touches
    BY <1>3, TypeLater DEF Touches, Keeps, TypeInv, others
  <1>4. ASSUME NEW s \in CallSlots, NEW op \in OpOf(Kind), WriteSent(s, op) PROVE TypeInv'
    <2>1. ui' = [ui EXCEPT !.alert = FALSE, !.note = FALSE, !.busy = TRUE] /\ Sends(s, op)
      BY <1>4 DEF WriteSent, RunWrite
    <2>2. ui' \in UiOf(Kind)
      BY <1>0, <2>1 DEF UiOf
    <2> QED  BY <1>4, <2>1, <2>2, SentTyped DEF WriteSent, RunWrite, TypeInv
  <1>5. ASSUME NEW s \in CallSlots, SubmitComment(s) PROVE TypeInv'
    <2>1. /\ ui' = [ui EXCEPT !.posting = TRUE, !.postAlert = FALSE] /\ ui.draft # 0
          /\ Sends(s, Request("post", "none"))
      BY <1>5 DEF SubmitComment
    <2>2. ui' \in UiOf(Kind)
      BY <1>0, <2>1 DEF UiOf
    <2>3. warned' \in [Texts -> Nat]
      BY <1>5, Counted DEF SubmitComment, TypeInv
    <2> QED  BY <1>5, <2>1, <2>2, <2>3, SentTyped, PostTyped DEF SubmitComment
  <1>6. ASSUME NEW s \in CallSlots, call[s].at = "asked", Served(s) PROVE TypeInv'
    <2>1. call[s].op \in OpOf(Kind)
      BY <1>0, <1>6, CallTyped DEF AskedOf
    <2>2. PICK o \in Outcomes(call[s].op) : Serve(s, o) /\ Stores(call[s].op, o.answer = "ok")
      BY <1>6 DEF Served
    <2>3. Rewritten(o.row) /\ o.answer \in ServerAnswer
      BY <1>0, <1>6, <2>1, ServedFacts DEF Served
    <2>4. o.row.rev \in Nat
      BY <1>0, <2>3, RowTypes DEF Rewritten
    <2>5. stored' \in [Texts -> Nat]
      BY <2>2, Counted DEF Stores, TypeInv
    <2>6. [at |-> "answered", op |-> call[s].op, answer |-> o.answer] \in CallOf(viewer)
      BY <2>1, <2>3 DEF CallOf, AnsweredOf, Kind
    <2>7. call' \in [Slots -> CallOf(viewer)] /\ call'["load"] = call["load"]
      BY <1>0, <2>2, <2>6 DEF Serve
    <2> QED  BY <2>2, <2>3, <2>4, <2>5, <2>7, TypeLater DEF Serve, TypeInv, Rewritten
  <1>7. ASSUME NEW op \in orphans, ServedLate(op) PROVE TypeInv'
    <2>1. op \in OpOf(Kind)
      BY DEF TypeInv
    <2>2. PICK o \in Outcomes(op) : ServeOrphan(op, o) /\ Stores(op, o.answer = "ok")
      BY <1>7 DEF ServedLate
    <2>3. Rewritten(o.row)
      BY <1>0, <1>7, <2>1, ServedFacts DEF ServedLate
    <2>4. stored' \in [Texts -> Nat]
      BY <2>2, Counted DEF Stores, TypeInv
    <2>5. orphans' \in SUBSET OpOf(Kind) /\ IsFiniteSet(orphans')
      BY <2>2, FS_RemoveElement DEF ServeOrphan, TypeInv
    <2> QED  BY <2>2, <2>3, <2>4, <2>5, TypeLater DEF ServeOrphan, TypeInv, Rewritten, session
  <1>8. ASSUME NEW s \in Slots, Read(s) PROVE TypeInv'
    <2>1. PICK part \in {"row", "thread"} : ServeRead(s, part)
      BY <1>8 DEF Read
    <2>2. call[s] \in ReadingOf(viewer)
      BY <2>1, CallTyped DEF ServeRead
    <2> DEFINE c == [call[s] EXCEPT !.missing = @ \ {part},
                                    !.row = IF part = "row" THEN row ELSE @,
                                    !.thread = IF part = "thread" THEN Comments ELSE @]
    <2>3. c \in ReadingOf(viewer)
      BY <1>0, <2>2, CommentsTyped DEF ReadingOf, ViewOf, Kind
    <2>4. call' = [call EXCEPT ![s] = c]
      BY <1>0, <2>1 DEF ServeRead
    <2>5. c \in CallOf(viewer) /\ c.at = "reading"
      BY <2>3 DEF CallOf, ReadingOf
    <2> HIDE DEF c
    <2> QED  BY <1>0, <2>1, <2>4, <2>5, UiTypeLater DEF ServeRead, session, TypeInv, others
  <1>9. ASSUME NEW s \in CallSlots, Lose(s) PROVE TypeInv'
    <2>1. call[s].op \in OpOf(Kind)
      BY <1>0, <1>9, CallTyped DEF Lose, AskedOf, AnsweredOf
    <2>2. [at |-> "answered", op |-> call[s].op, answer |-> "lost"] \in CallOf(viewer)
      BY <2>1 DEF CallOf, AnsweredOf, Kind
    <2>3. call' \in [Slots -> CallOf(viewer)] /\ call'["load"] = call["load"]
      BY <1>0, <1>9, <2>2 DEF Lose
    <2>4. orphans' \in SUBSET OpOf(Kind) /\ IsFiniteSet(orphans')
      BY <1>9, <2>1, FS_AddElement DEF Lose, TypeInv
    <2> QED  BY <1>9, <2>3, <2>4, TypeLater DEF Lose, TypeInv, session, others
  <1>10. ASSUME Elsewhere PROVE TypeInv'
    BY <1>10, TypeLater DEF Elsewhere, Rewritten, TypeInv, session
  <1>11. CASE LoadFails
    <2>1. ui' \in UiOf(Kind)
      BY <1>0, <1>11 DEF LoadFails, UiOf
    <2> QED  BY <1>0, <1>11, <2>1, UiTypeLater, SlotFacts DEF LoadFails, Ends, session, TypeInv, others
  <1>12. CASE Loaded
    BY <1>0, <1>12, UiTypeLater, SlotFacts DEF Loaded, Keeps, Ends, session, TypeInv, others
  <1>13. ASSUME NEW s \in Slots, Kind = "change", ChangeRowIn(s) PROVE TypeInv'
    <2>1. call[s] \in ReadingOf(viewer) /\ isReviewer /\ call[s].all = {"row"}
      BY <1>13, CallTyped DEF ChangeRowIn, Arrived
    <2>2. ui' \in UiOf(Kind)
      BY <1>0, <1>13, <2>1, ChangeShownFacts DEF ChangeRowIn, ReadingOf, Kind
    <2>3. {"thread"} \in PartsOf(viewer)
      BY <1>13, <2>1 DEF PartsOf, Kind, isReviewer, Hat
    <2>4. /\ Reading(call[s].then, {"thread"}) \in CallOf(viewer)
          /\ Reading(call[s].then, {"thread"}).at = "reading"
      BY <1>0, <2>1, <2>3, ReadingTyped DEF ReadingOf
    <2> QED  BY <1>13, <2>2, <2>4, UiTypeLater DEF ChangeRowIn, Reads, session, TypeInv, others
  <1>14. ASSUME NEW s \in CallSlots, Continues(s) PROVE TypeInv'
    <2>1. PICK then \in {"write", "conflict", "decision", "post"}, parts \in PartsOf(viewer) :
             call' = [call EXCEPT ![s] = Reading(then, parts)]
      BY <1>14 DEF Continues
    <2>2. Reading(then, parts) \in CallOf(viewer)
      BY <1>0, ReadingTyped
    <2> QED  BY <1>0, <1>14, <2>1, <2>2, UiTypeLater DEF Continues, Keeps, session, TypeInv, others
  <1>15. ASSUME NEW s \in CallSlots, Converted(s) PROVE TypeInv'
    BY <1>0, <1>15, UiTypeLater DEF Converted, Leaving, session, TypeInv, others
  <1>16. ASSUME NEW s \in CallSlots, NEW how \in How, WriteEnded(s, how) \/ PostEnded(s, how) PROVE TypeInv'
    BY <1>0, <1>16, UiTypeLater DEF WriteEnded, PostEnded, Keeps, Ends, How, session, TypeInv, others
  <1>17. ASSUME NEW s \in CallSlots, Find(s) PROVE TypeInv'
    <2>1. /\ Found(call[s].op) \in OpOf(Kind)
          /\ call' = [call EXCEPT ![s] = [at |-> "asked", op |-> Found(call[s].op)]]
      BY <1>17, FoundFacts
    <2>2. [at |-> "asked", op |-> Found(call[s].op)] \in CallOf(viewer)
      BY <2>1 DEF CallOf, AskedOf, Kind
    <2> QED  BY <1>0, <1>17, <2>1, <2>2, UiTypeLater DEF Find, session, others, TypeInv
  <1>18. ASSUME NEW op \in orphans, FindLate(op) PROVE TypeInv'
    <2>1. op \in OpOf(Kind) /\ IsFiniteSet(orphans \ {op})
      BY FS_RemoveElement DEF TypeInv
    <2>2. orphans' = (orphans \ {op}) \cup {Found(op)} /\ Found(op) \in OpOf(Kind)
      BY <1>18, <2>1, FoundTyped DEF FindLate, Found
    <2>3. orphans' \in SUBSET OpOf(Kind) /\ IsFiniteSet(orphans')
      BY <2>1, <2>2, FS_AddElement DEF TypeInv
    <2> QED  BY <1>18, <2>3, TypeLater DEF FindLate, session, others, TypeInv
  <1> QED  BY <1>1, <1>2, <1>3, <1>4, <1>5, <1>6, <1>7, <1>8, <1>9, <1>10, <1>11, <1>12,
              <1>13, <1>14, <1>15, <1>16, <1>17, <1>18 DEF Step

\* What a behaviour is opened on.
LEMMA InitTyped == Init => TypeInv
  <1> SUFFICES ASSUME Init PROVE TypeInv
    OBVIOUS
  <1>1. PICK c \in Cases : viewer = c.viewer /\ row = c.record
    BY DEF Init
  <1>2. /\ Kind \in Drawer /\ row.rev \in Nat /\ row \in RowsAt(Kind, row.rev)
    BY <1>1, CasesAssumption DEF Kind, Drawer
  <1>3. row \in RecordOf(Kind)
    BY <1>2, RowTypes
  <1>4. ui \in UiOf(Kind)
    <2>1. /\ NoView \in ViewOf(Kind) /\ 0 \in 0..MaxClicks /\ 0 \in Nat /\ "none" \in Field
          /\ "none" \in ModeOf(Kind)
      BY ClicksAssumption DEF ViewOf, Field, ModeOf
    <2> QED  BY <2>1 DEF Init, Unmounted, Fresh, UiOf
  <1>5. call \in [Slots -> CallOf(viewer)] /\ call["load"].at = "idle"
    BY SlotFacts DEF Init, CallOf, Idle
  <1>6. /\ stored \in [Texts -> Nat] /\ warned \in [Texts -> Nat]
        /\ clicks \in 0..MaxClicks /\ moves \in Nat /\ landed \in Nat
    BY ClicksAssumption DEF Init
  <1>7. orphans \in SUBSET OpOf(Kind) /\ IsFiniteSet(orphans)
    BY FS_EmptySet DEF Init
  <1>8. theirs \in ViewOf(Kind) /\ overtaken \in BOOLEAN
    BY DEF Init, ViewOf
  <1> QED  BY <1>2, <1>3, <1>4, <1>5, <1>6, <1>7, <1>8 DEF Init, TypeInv
-----------------------------------------------------------------------------
(* A closed drawer, the dialogs, and the writes of an incident or a demand *)

\* Nothing runs for a drawer that is not mounted.
ClosedInv == ~ui.open => last = "none" /\ \A s \in Slots : call[s] = Idle

\* A write is under way only while the drawer is busy, and it is the only one.
WriteInv ==
    Kind # "change" =>
        \A s \in CallSlots : UnderWay(s) /\ ~Posts(s) =>
            /\ ui.busy
            /\ \A t \in CallSlots : UnderWay(t) /\ ~Posts(t) => t = s

LEMMA ClosedKept ==
    ASSUME TypeInv, Step, ClosedInv
    PROVE  ClosedInv'
  <1>0. /\ ui \in UiOf(Kind) /\ call \in [Slots -> CallOf(viewer)]
        /\ \A s \in CallSlots : s \in Slots
        /\ "load" \in Slots /\ Idle.at = "idle"
        /\ \A s \in Slots : UnderWay(s) => ui.open
    BY SlotFacts DEF TypeInv, ClosedInv, UnderWay, Idle
  <1>1. CASE Open(IF Kind = "change" THEN {"row"} ELSE Together)
    BY <1>1 DEF Open, Fresh, ClosedInv
  <1>2. CASE Unmount
    BY <1>2 DEF Unmount, ClosedInv
  <1>3. CASE Touches
    BY <1>3 DEF Touches, Rendered, Mounted, ClosedInv
  <1>4. ASSUME NEW s \in CallSlots, NEW op \in OpOf(Kind), WriteSent(s, op) PROVE ClosedInv'
    BY <1>0, <1>4 DEF WriteSent, RunWrite, Rendered, UiOf, ClosedInv
  <1>5. ASSUME NEW s \in CallSlots, SubmitComment(s) PROVE ClosedInv'
    BY <1>0, <1>5 DEF SubmitComment, Usable, Rendered, UiOf, ClosedInv
  <1>6. ASSUME NEW s \in CallSlots, call[s].at = "asked", Served(s) PROVE ClosedInv'
    BY <1>0, <1>6 DEF Served, Serve, UnderWay, ClosedInv
  <1>7. ASSUME NEW op \in orphans, ServedLate(op) PROVE ClosedInv'
    BY <1>7 DEF ServedLate, ServeOrphan, session, ClosedInv
  <1>8. ASSUME NEW s \in Slots, Read(s) PROVE ClosedInv'
    BY <1>0, <1>8 DEF Read, ServeRead, UnderWay, ClosedInv
  <1>9. ASSUME NEW s \in CallSlots, Lose(s) PROVE ClosedInv'
    BY <1>0, <1>9 DEF Lose, UnderWay, ClosedInv
  <1>10. ASSUME Elsewhere PROVE ClosedInv'
    BY <1>10 DEF Elsewhere, session, ClosedInv
  <1>11. CASE LoadFails
    BY <1>0, <1>11 DEF LoadFails, UiOf, UnderWay, ClosedInv
  <1>12. CASE Loaded
    BY <1>0, <1>12 DEF Loaded, Delivers, UnderWay, ClosedInv
  <1>13. ASSUME NEW s \in Slots, Kind = "change", ChangeRowIn(s) PROVE ClosedInv'
    <2>1. ui.open
      BY <1>0, <1>13 DEF ChangeRowIn, Arrived, UnderWay
    <2>2. ui'.open = ui.open
      BY <1>0, <1>13 DEF ChangeRowIn, ChangeShown, UiOf
    <2> QED  BY <2>1, <2>2 DEF ClosedInv
  <1>14. ASSUME NEW s \in CallSlots, Continues(s) \/ Converted(s) PROVE ClosedInv'
    BY <1>0, <1>14 DEF Continues, Converted, Answered, Mounted, UnderWay, ClosedInv
  <1>15. ASSUME NEW s \in CallSlots, NEW how \in How, WriteEnded(s, how) \/ PostEnded(s, how)
         PROVE  ClosedInv'
    BY <1>0, <1>15 DEF WriteEnded, PostEnded, Mounted, ClosedInv
  <1>16. ASSUME NEW s \in CallSlots, Find(s) PROVE ClosedInv'
    BY <1>0, <1>16 DEF Find, UnderWay, ClosedInv
  <1>17. ASSUME NEW op \in orphans, FindLate(op) PROVE ClosedInv'
    BY <1>17 DEF FindLate, session, ClosedInv
  <1> QED  BY <1>1, <1>2, <1>3, <1>4, <1>5, <1>6, <1>7, <1>8, <1>9, <1>10, <1>11, <1>12,
              <1>13, <1>14, <1>15, <1>16, <1>17 DEF Step

LEMMA DialogKept ==
    ASSUME TypeInv, Step, DialogFits(ui)
    PROVE  DialogFits(ui)'
  <1>0. /\ ui \in UiOf(Kind) /\ viewer' = viewer
        /\ DialogFits(ui') => DialogFits(ui)'
    <2>1. viewer' = viewer
      BY DEF Step, Open, Unmount, Touches, WriteSent, RunWrite, Sends, SubmitComment, Served, Serve,
             ServedLate, ServeOrphan, Read, ServeRead, Lose, Find, FindLate, Elsewhere, LoadFails,
             Loaded, ChangeRowIn, Continues, Converted, WriteEnded, PostEnded
    <2> QED  BY <2>1 DEF TypeInv, DialogFits, Decidable, Kind
  <1>1. ASSUME ui'.dialog = "none", ui'.mode = "none" PROVE DialogFits(ui')
    BY <1>1 DEF DialogFits
  <1>2. ASSUME ui'.dialog = ui.dialog, ui'.mode = ui.mode, ui'.view = ui.view PROVE DialogFits(ui')
    BY <1>2 DEF DialogFits
  <1>3. ASSUME Keeps(ui') PROVE DialogFits(ui')
    BY <1>3 DEF Keeps
  <1>4. CASE Open(IF Kind = "change" THEN {"row"} ELSE Together) \/ Unmount
    <2>1. ui' = Fresh \/ ui' = Unmounted
      BY <1>4 DEF Open, Unmount
    <2>2. /\ Fresh.dialog = "none" /\ Fresh.mode = "none"
          /\ Unmounted.dialog = "none" /\ Unmounted.mode = "none"
      BY DEF Fresh, Unmounted
    <2> QED  BY <1>0, <1>1, <2>1, <2>2
  <1>5. CASE Touches \/ Loaded
    BY <1>0, <1>3, <1>5 DEF Touches, Loaded
  <1>6. ASSUME NEW s \in CallSlots, NEW op \in OpOf(Kind), WriteSent(s, op) PROVE DialogFits(ui')
    BY <1>0, <1>2, <1>6 DEF WriteSent, RunWrite, UiOf
  <1>7. ASSUME NEW s \in CallSlots, SubmitComment(s) PROVE DialogFits(ui')
    BY <1>0, <1>2, <1>7 DEF SubmitComment, UiOf
  <1>8. ASSUME UNCHANGED ui PROVE DialogFits(ui')
    BY <1>2, <1>8
  <1>9. CASE \/ \E s \in CallSlots : call[s].at = "asked" /\ Served(s)
             \/ \E op \in orphans : ServedLate(op)
             \/ \E s \in Slots : Read(s)
             \/ \E s \in CallSlots : Find(s) \/ Lose(s) \/ Converted(s)
             \/ \E op \in orphans : FindLate(op)
             \/ Elsewhere
    BY <1>0, <1>8, <1>9
       DEF Served, Serve, ServedLate, ServeOrphan, Read, ServeRead, Lose, Converted, Find,
           FindLate, Elsewhere
  <1>10. CASE LoadFails
    BY <1>0, <1>2, <1>10 DEF LoadFails, UiOf
  <1>11. ASSUME NEW s \in Slots, Kind = "change", ChangeRowIn(s) PROVE DialogFits(ui')
    <2>1. call[s].row \in ViewOf(Kind)
      BY <1>11, CallTyped DEF ChangeRowIn, Arrived, ReadingOf, Kind
    <2> QED  BY <1>0, <1>11, <2>1, ChangeShownFacts DEF ChangeRowIn
  <1>12. ASSUME NEW s \in CallSlots, Continues(s) PROVE DialogFits(ui')
    BY <1>3, <1>12 DEF Continues
  <1>13. ASSUME NEW s \in CallSlots, NEW how \in How, WriteEnded(s, how) \/ PostEnded(s, how)
         PROVE  DialogFits(ui')
    BY <1>3, <1>13 DEF WriteEnded, PostEnded
  <1> QED  BY <1>0, <1>4, <1>5, <1>6, <1>7, <1>9, <1>10, <1>11, <1>12, <1>13 DEF Step

\* A step that starts no write: what it does to the writes under way.
LEMMA WritesKept ==
    ASSUME TypeInv, WriteInv, viewer' = viewer, NEW s \in Slots, NEW c,
           call' = [call EXCEPT ![s] = c], ui'.busy = ui.busy,
           Kind # "change" => (UnderWay(s)' /\ ~Posts(s)' => UnderWay(s) /\ ~Posts(s))
    PROVE  WriteInv'
  <1>1. \A t \in Slots : t # s => (UnderWay(t)' <=> UnderWay(t)) /\ (Posts(t)' <=> Posts(t))
    BY DEF TypeInv, UnderWay, Posts
  <1>2. \A t \in CallSlots : t \in Slots
    BY SlotFacts
  <1> QED  BY <1>1, <1>2 DEF WriteInv, Kind

LEMMA WriteKept ==
    ASSUME TypeInv, ClosedInv, Step, WriteInv
    PROVE  WriteInv'
  <1>0. /\ ui \in UiOf(Kind) /\ call \in [Slots -> CallOf(viewer)]
        /\ \A s \in CallSlots : s \in Slots
        /\ "load" \in Slots /\ "load" \notin CallSlots /\ Idle.at = "idle"
    BY SlotFacts DEF TypeInv, Idle
  <1>1. ASSUME viewer' = viewer, \A s \in CallSlots : call'[s] = Idle PROVE WriteInv'
    BY <1>0, <1>1 DEF WriteInv, UnderWay
  <1>2. ASSUME UNCHANGED <<viewer, call>>, ui'.busy = ui.busy PROVE WriteInv'
    BY <1>2 DEF WriteInv, UnderWay, Posts, Kind
  <1>3. ASSUME UNCHANGED viewer, NEW c, call' = [call EXCEPT !["load"] = c], ui'.busy = ui.busy
        PROVE  WriteInv'
    BY <1>0, <1>3 DEF WriteInv, UnderWay, Posts, Kind
  <1>4. CASE Open(IF Kind = "change" THEN {"row"} ELSE Together)
    <2>1. viewer' = viewer /\ \A s \in CallSlots : call'[s] = call[s] /\ call[s] = Idle
      BY <1>0, <1>4 DEF Open, Reads, ClosedInv
    <2> QED  BY <1>1, <2>1
  <1>5. CASE Unmount
    BY <1>0, <1>1, <1>5 DEF Unmount
  <1>6. CASE Touches
    BY <1>2, <1>6 DEF Touches
  <1>7. ASSUME NEW s \in CallSlots, NEW op \in OpOf(Kind), WriteSent(s, op) PROVE WriteInv'
    <2>1. /\ Kind # "change" => ~ui.busy
          /\ UNCHANGED viewer /\ ui'.busy
          /\ call' = [call EXCEPT ![s] = [at |-> "asked", op |-> op]]
      BY <1>0, <1>7 DEF WriteSent, RunWrite, Sends, UiOf
    <2> QED  BY <1>0, <2>1 DEF WriteInv, UnderWay, Posts, Kind
  <1>8. ASSUME NEW s \in CallSlots, SubmitComment(s) PROVE WriteInv'
    <2>1. /\ ui.draft # 0 /\ UNCHANGED viewer /\ ui'.busy = ui.busy
          /\ call' = [call EXCEPT ![s] = [at |-> "asked", op |-> Request("post", "none")]]
      BY <1>0, <1>8 DEF SubmitComment, Sends, UiOf
    <2>2. Posts(s)'
      BY <1>0, <2>1, PostTyped DEF Posts
    <2> QED  BY <1>0, <2>1, <2>2, WritesKept
  <1>9. ASSUME NEW s \in CallSlots, call[s].at = "asked", Served(s) PROVE WriteInv'
    <2>1. PICK o : Serve(s, o)
      BY <1>9 DEF Served
    <2> DEFINE c == [at |-> "answered", op |-> call[s].op, answer |-> o.answer]
    <2>2. UNCHANGED <<viewer, ui>> /\ call' = [call EXCEPT ![s] = c]
      BY <2>1 DEF Serve
    <2>3. Posts(s)' <=> Posts(s)
      BY <1>0, <1>9, <2>2 DEF Posts
    <2> HIDE DEF c
    <2> QED  BY <1>0, <1>9, <2>2, <2>3, WritesKept DEF UnderWay
  <1>10. ASSUME NEW op \in orphans, ServedLate(op) PROVE WriteInv'
    BY <1>2, <1>10 DEF ServedLate, ServeOrphan
  <1>11. ASSUME NEW s \in Slots, Read(s) PROVE WriteInv'
    <2>1. PICK part \in {"row", "thread"} : ServeRead(s, part)
      BY <1>11 DEF Read
    <2>2. call[s] \in ReadingOf(viewer) /\ call[s].at = "reading"
      BY <2>1, CallTyped DEF ServeRead
    <2> DEFINE c == [call[s] EXCEPT !.missing = @ \ {part},
                                    !.row = IF part = "row" THEN row ELSE @,
                                    !.thread = IF part = "thread" THEN Comments ELSE @]
    <2>3. UNCHANGED <<viewer, ui>> /\ call' = [call EXCEPT ![s] = c]
      BY <1>0, <2>1 DEF ServeRead
    <2>4. c.at = "reading" /\ c.then = call[s].then
      BY <2>2 DEF ReadingOf
    <2> HIDE DEF c
    <2>5. Posts(s)' <=> Posts(s)
      BY <1>0, <2>2, <2>3, <2>4 DEF Posts
    <2> QED  BY <2>2, <2>3, <2>5, WritesKept DEF UnderWay
  <1>12. ASSUME NEW s \in CallSlots, Lose(s) PROVE WriteInv'
    <2> DEFINE c == [at |-> "answered", op |-> call[s].op, answer |-> "lost"]
    <2>1. UNCHANGED <<viewer, ui>> /\ call' = [call EXCEPT ![s] = c] /\ call[s].at \in {"asked", "answered"}
      BY <1>12 DEF Lose
    <2>2. Posts(s)' <=> Posts(s)
      BY <1>0, <2>1 DEF Posts
    <2> HIDE DEF c
    <2> QED  BY <1>0, <2>1, <2>2, WritesKept DEF UnderWay
  <1>13. ASSUME Elsewhere PROVE WriteInv'
    BY <1>2, <1>13 DEF Elsewhere
  <1>14. CASE LoadFails
    BY <1>0, <1>3, <1>14 DEF LoadFails, Ends, UiOf
  <1>15. CASE Loaded
    BY <1>3, <1>15 DEF Loaded, Ends
  <1>16. ASSUME NEW s \in Slots, Kind = "change", ChangeRowIn(s) PROVE WriteInv'
    BY <1>16 DEF ChangeRowIn, WriteInv, Kind
  <1>17. ASSUME NEW s \in CallSlots, Continues(s) PROVE WriteInv'
    <2>1. PICK then, parts :
             /\ call' = [call EXCEPT ![s] = Reading(then, parts)]
             /\ Kind # "change" => (then = "post" <=> Posts(s))
      BY <1>17 DEF Continues
    <2>2. UNCHANGED viewer /\ ui'.busy = ui.busy /\ UnderWay(s)
      BY <1>17 DEF Continues, UnderWay
    <2>3. Posts(s)' <=> then = "post"
      BY <1>0, <2>1 DEF Posts, Reading
    <2> QED  BY <1>0, <2>1, <2>2, <2>3, WritesKept
  <1>18. ASSUME NEW s \in CallSlots, Converted(s) PROVE WriteInv'
    <2>1. /\ UNCHANGED <<viewer, ui>> /\ UnderWay(s) /\ ~Posts(s)
          /\ call' = [call EXCEPT ![s] = [at |-> "leaving"]]
      BY <1>18 DEF Converted, Answered, UnderWay, Posts
    <2> QED  BY <1>0, <2>1, WritesKept
  <1>19. ASSUME NEW s \in CallSlots, NEW how \in How, WriteEnded(s, how) PROVE WriteInv'
    <2>1. UNCHANGED viewer /\ UnderWay(s) /\ ~Posts(s) /\ call' = [call EXCEPT ![s] = Idle]
      BY <1>19 DEF WriteEnded, Ends
    <2>2. Kind # "change" => \A t \in CallSlots : ~(UnderWay(t)' /\ ~Posts(t)')
      BY <1>0, <2>1 DEF WriteInv, UnderWay, Posts
    <2> QED  BY <2>1, <2>2 DEF WriteInv, Kind
  <1>20. ASSUME NEW s \in CallSlots, NEW how \in How, PostEnded(s, how) PROVE WriteInv'
    <2>1. /\ UNCHANGED viewer /\ ui'.busy = ui.busy
          /\ call' = [call EXCEPT ![s] = Idle]
      BY <1>20 DEF PostEnded, Ends
    <2>2. ~UnderWay(s)'
      BY <1>0, <2>1 DEF UnderWay
    <2> QED  BY <1>0, <2>1, <2>2, WritesKept
  <1>21. ASSUME NEW s \in CallSlots, Find(s) PROVE WriteInv'
    <2> DEFINE c == [at |-> "asked", op |-> Found(call[s].op)]
    <2>1. UNCHANGED <<viewer, ui>> /\ call[s].at = "asked" /\ call' = [call EXCEPT ![s] = c]
      BY <1>21, FoundFacts DEF Find
    <2>2. Found(call[s].op).do = call[s].op.do
      BY <1>21, FoundFacts, FoundTyped
    <2>3. Posts(s)' <=> Posts(s)
      BY <1>0, <2>1, <2>2 DEF Posts
    <2> HIDE DEF c
    <2> QED  BY <1>0, <2>1, <2>3, WritesKept DEF UnderWay
  <1>22. ASSUME NEW op \in orphans, FindLate(op) PROVE WriteInv'
    BY <1>2, <1>22 DEF FindLate
  <1> QED  BY <1>4, <1>5, <1>6, <1>7, <1>8, <1>9, <1>10, <1>11, <1>12, <1>13, <1>14, <1>15,
              <1>16, <1>17, <1>18, <1>19, <1>20, <1>21, <1>22 DEF Step
-----------------------------------------------------------------------------
(* Comments *)

\* Nothing of a text is stored or on its way.
Unsent(t) ==
    /\ stored[t] = 0
    /\ \A s \in CallSlots : call[s].at = "asked" => call[s].op.text # t
    /\ \A op \in orphans : op.text # t

\* At most one comment is being sent; a text is new when it is typed, and sent
\* again only after its failure was shown.
PostInv ==
    /\ \A s \in CallSlots : Posts(s) => ui.posting /\ \A t \in CallSlots : Posts(t) => t = s
    /\ ~ui.posting /\ ~ui.postAlert /\ ui.draft # 0 => Unsent(ui.draft)
    /\ ui.draft <= clicks + 1
    /\ \A t \in Texts : t > clicks => Unsent(t)

Asking(t) == \E s \in CallSlots : call[s].at = "asked" /\ call[s].op.text = t

Late(t) == {op \in orphans : op.text = t}

\* The chances of a text to be stored.
ChanceInv ==
    \A t \in Texts : stored[t] + (IF Asking(t) THEN 1 ELSE 0) + Cardinality(Late(t)) <= 1 + warned[t]

\* A step that sends nothing and touches no comment.
Quiet ==
    /\ UNCHANGED <<stored, warned, orphans, clicks>>
    /\ \A s \in CallSlots :
          /\ call'[s].at = "asked" => call[s].at = "asked" /\ call'[s].op.text = call[s].op.text
          /\ Posts(s)' => Posts(s)

LEMMA LateFinite ==
    ASSUME TypeInv, NEW t
    PROVE  IsFiniteSet(Late(t)) /\ Cardinality(Late(t)) \in Nat
  <1>1. IsFiniteSet(Late(t))
    BY FS_Subset DEF TypeInv, Late
  <1> QED  BY <1>1, FS_CardinalityType

\* The slots that ask with a comment: there is one at most.
LEMMA AskingFacts ==
    ASSUME TypeInv, PostInv, NEW s \in CallSlots, call[s].at = "asked"
    PROVE  /\ call[s].op \in OpOf(Kind)
           /\ call[s].op.text \in Texts <=> Posts(s)
           /\ call[s].op.text \notin Texts <=> call[s].op.text = 0
           /\ \A t \in Texts, r \in CallSlots :
                 /\ call[s].op.text = t
                 /\ call[r].at = "asked" /\ call[r].op.text = t
                 => r = s
  <1>1. \A r \in CallSlots : call[r].at = "asked" =>
           /\ call[r].op \in OpOf(Kind)
           /\ call[r].op.text \in Texts <=> Posts(r)
           /\ call[r].op.text \notin Texts <=> call[r].op.text = 0
    BY CallTyped, SlotFacts, ClicksAssumption DEF AskedOf, OpOf, Texts, Posts
  <1> QED  BY <1>1 DEF PostInv

LEMMA QuietKeeps ==
    ASSUME TypeInv, PostInv, ChanceInv, Quiet, Form(ui')
    PROVE  PostInv' /\ ChanceInv'
  <1>1. \A t : Unsent(t) => Unsent(t)'
    BY DEF Quiet, Unsent
  <1>2. \A t : (Asking(t)' => Asking(t)) /\ Late(t)' = Late(t)
    BY DEF Quiet, Asking, Late
  <1>3. PostInv'
    BY <1>1 DEF Quiet, PostInv, Form
  <1>4. \A t \in Texts : Cardinality(Late(t)) \in Nat
    BY LateFinite
  <1>5. ChanceInv'
    BY <1>2, <1>4 DEF Quiet, ChanceInv, TypeInv
  <1> QED  BY <1>3, <1>5

LEMMA PostKept ==
    ASSUME TypeInv, ClosedInv, Step, PostInv, ChanceInv
    PROVE  PostInv' /\ ChanceInv'
  <1>0. /\ ui \in UiOf(Kind) /\ call \in [Slots -> CallOf(viewer)] /\ clicks \in Nat
        /\ stored \in [Texts -> Nat] /\ warned \in [Texts -> Nat]
        /\ \A s \in CallSlots : s \in Slots
        /\ "load" \in Slots /\ "load" \notin CallSlots /\ Idle.at = "idle"
        /\ ui.draft \in Nat /\ (ui.draft # 0 => ui.draft \in Texts)
    BY SlotFacts, ClicksAssumption DEF TypeInv, Idle, UiOf, Texts
  <1>c. \A t \in Texts : Cardinality(Late(t)) \in Nat
    BY LateFinite
  <1>1. CASE Open(IF Kind = "change" THEN {"row"} ELSE Together)
    <2>1. /\ \A s \in CallSlots : call'[s] = call[s]
          /\ ~ui'.posting /\ ui'.draft = 0
          /\ UNCHANGED <<stored, warned, orphans, clicks>>
          /\ \A s \in CallSlots : call[s] = Idle
      BY <1>0, <1>1 DEF Open, Reads, Fresh, session, ClosedInv
    <2>2. \A t : (Unsent(t) => Unsent(t)') /\ (Asking(t)' => Asking(t)) /\ Late(t)' = Late(t)
      BY <2>1 DEF Unsent, Asking, Late
    <2>3. PostInv'
      BY <1>0, <2>1, <2>2 DEF PostInv, Posts
    <2>4. ChanceInv'
      BY <1>0, <1>c, <2>1, <2>2 DEF ChanceInv
    <2> QED  BY <2>3, <2>4
  <1>2. CASE Unmount
    <2>1. /\ \A s \in CallSlots : call'[s] = Idle
          /\ UNCHANGED <<stored, warned, clicks>>
          /\ orphans' = orphans \cup {call[s].op : s \in {r \in Slots : call[r].at = "asked"}}
      BY <1>0, <1>2 DEF Unmount
    <2>2. ~ui'.posting /\ ui'.draft = 0
      <3>1. Fresh.posting = FALSE /\ Unmounted.posting = FALSE /\ Unmounted.draft = 0
        BY DEF Fresh, Unmounted
      <3> QED  BY <1>2, <3>1 DEF Unmount
    <2>3. \A op \in orphans' : \/ op \in orphans
                               \/ \E s \in CallSlots : call[s].at = "asked" /\ op = call[s].op
      BY <2>1, SlotFacts DEF TypeInv
    <2>4. \A t : Unsent(t) => Unsent(t)'
      BY <1>0, <2>1, <2>3 DEF Unsent
    <2>5. PostInv'
      BY <1>0, <2>1, <2>2, <2>4 DEF PostInv, Posts
    <2>6. ASSUME NEW t \in Texts
          PROVE  /\ ~Asking(t)'
                 /\ Asking(t) => Cardinality(Late(t)') <= Cardinality(Late(t)) + 1
                 /\ ~Asking(t) => Late(t)' = Late(t)
                 /\ Cardinality(Late(t)') \in Nat
      <3>1. ~Asking(t)'
        BY <1>0, <2>1 DEF Asking
      <3>2. ASSUME ~Asking(t) PROVE Late(t)' = Late(t)
        BY <2>1, <2>3, <3>2 DEF Asking, Late
      <3>3. ASSUME Asking(t)
            PROVE  /\ Cardinality(Late(t)') <= Cardinality(Late(t)) + 1
                   /\ Cardinality(Late(t)') \in Nat
        <4>1. PICK s \in CallSlots : call[s].at = "asked" /\ call[s].op.text = t
          BY <3>3 DEF Asking
        <4>2. Late(t)' \subseteq Late(t) \cup {call[s].op}
          BY <2>3, <4>1, AskingFacts DEF Late
        <4>3. /\ IsFiniteSet(Late(t) \cup {call[s].op})
              /\ Cardinality(Late(t) \cup {call[s].op}) <= Cardinality(Late(t)) + 1
              /\ Cardinality(Late(t) \cup {call[s].op}) \in Nat
          <5>1. IsFiniteSet(Late(t)) /\ Cardinality(Late(t)) \in Nat
            BY LateFinite
          <5>2. /\ IsFiniteSet(Late(t) \cup {call[s].op})
                /\ Cardinality(Late(t) \cup {call[s].op})
                      = IF call[s].op \in Late(t) THEN Cardinality(Late(t)) ELSE Cardinality(Late(t)) + 1
            BY <5>1, FS_AddElement
          <5> QED  BY <5>1, <5>2
        <4>4. IsFiniteSet(Late(t)') /\ Cardinality(Late(t)') <= Cardinality(Late(t) \cup {call[s].op})
          BY <4>2, <4>3, FS_Subset
        <4>5. Cardinality(Late(t)') \in Nat
          BY <4>4, FS_CardinalityType
        <4> QED  BY <1>c, <4>3, <4>4, <4>5
      <3> QED  BY <1>c, <3>1, <3>2, <3>3
    <2>7. ChanceInv'
      BY <1>0, <1>c, <2>1, <2>6 DEF ChanceInv
    <2> QED  BY <2>5, <2>7
  <1>3. CASE Touches
    <2>1. /\ UNCHANGED <<stored, warned, orphans, clicks, call>>
          /\ ui'.posting = ui.posting /\ ui'.postAlert = ui.postAlert
          /\ ui'.draft = ui.draft \/ (clicks < MaxClicks /\ ui'.draft = clicks + 1)
      BY <1>3 DEF Touches
    <2>2. /\ \A t : (Unsent(t) <=> Unsent(t)') /\ (Asking(t)' <=> Asking(t)) /\ Late(t)' = Late(t)
          /\ \A s \in CallSlots : Posts(s)' <=> Posts(s)
      BY <2>1 DEF Unsent, Asking, Late, Posts
    <2>3. clicks < MaxClicks => clicks + 1 \in Texts
      BY <1>0, ClicksAssumption DEF Texts
    <2>4. PostInv'
      BY <1>0, <2>1, <2>2, <2>3 DEF PostInv
    <2>5. ChanceInv'
      BY <2>1, <2>2 DEF ChanceInv
    <2> QED  BY <2>4, <2>5
  <1>4. ASSUME NEW s \in CallSlots, NEW op \in OpOf(Kind), WriteSent(s, op) PROVE PostInv' /\ ChanceInv'
    <2>1. /\ UNCHANGED <<stored, warned, orphans>> /\ Form(ui')
          /\ call[s] = Idle /\ call' = [call EXCEPT ![s] = [at |-> "asked", op |-> op]]
          /\ clicks' = clicks + 1
      BY <1>0, <1>4 DEF WriteSent, RunWrite, Sends, UiOf, Form
    <2>2. op.text = 0 /\ op.do # "post"
      BY <1>4, ClicksAssumption DEF WriteSent, OpOf
    <2>3. /\ \A r \in CallSlots : r # s => call'[r] = call[r]
          /\ call'[s].at = "asked" /\ call'[s].op = op
      BY <1>0, <2>1
    <2>4. \A r \in CallSlots : Posts(r)' => Posts(r)
      BY <2>2, <2>3 DEF Posts
    <2>5. \A t \in Nat : t # 0 =>
             /\ Unsent(t) => Unsent(t)'
             /\ (Asking(t)' => Asking(t)) /\ Late(t)' = Late(t)
      BY <2>1, <2>2, <2>3 DEF Unsent, Asking, Late
    <2>6. PostInv'
      BY <1>0, <2>1, <2>4, <2>5 DEF PostInv, Form, Texts
    <2>7. ChanceInv'
      BY <1>0, <1>c, <2>1, <2>5 DEF ChanceInv, Texts
    <2> QED  BY <2>6, <2>7
  <1>5. ASSUME NEW s \in CallSlots, SubmitComment(s) PROVE PostInv' /\ ChanceInv'
    <2> DEFINE op == Request("post", "none")
               d == ui.draft
    <2>1. /\ UNCHANGED <<stored, orphans>>
          /\ call[s] = Idle /\ call' = [call EXCEPT ![s] = [at |-> "asked", op |-> op]]
          /\ clicks' = clicks + 1
          /\ d # 0 /\ ~ui.posting
          /\ ui'.posting /\ ui'.draft = d
          /\ warned' = IF ui.postAlert THEN [warned EXCEPT ![d] = @ + 1] ELSE warned
      BY <1>0, <1>5 DEF SubmitComment, Sends, UiOf
    <2>2. op.text = d /\ d \in Texts
      BY <1>0, <2>1, PostTyped, ClicksAssumption DEF Texts, TypeInv, UiOf
    <2> HIDE DEF op, d
    <2>3. /\ \A r \in CallSlots : r # s => call'[r] = call[r]
          /\ call'[s].at = "asked" /\ call'[s].op = op
      BY <1>0, <2>1
    <2>4. \A r \in CallSlots : ~Posts(r) /\ (Posts(r)' => r = s)
      BY <2>1, <2>3 DEF PostInv, Posts
    <2>5. \A t \in Texts : t # d =>
             /\ Unsent(t) => Unsent(t)'
             /\ Asking(t)' <=> Asking(t)
      <3>1. ~(call[s].at = "asked")
        BY <1>0, <2>1
      <3> QED  BY <2>1, <2>2, <2>3, <3>1 DEF Unsent, Asking
    <2>6. d <= clicks + 1
      BY DEF PostInv, d
    <2>7. PostInv'
      BY <1>0, <2>1, <2>2, <2>4, <2>5, <2>6 DEF PostInv, Texts
    <2>8. ~Asking(d) /\ \A t : Late(t)' = Late(t)
      BY <2>1, <2>2, <2>4, AskingFacts DEF Asking, Late
    <2>9. ASSUME ~ui.postAlert PROVE stored[d] = 0 /\ Cardinality(Late(d)) = 0
      <3>1. Unsent(d)
        BY <2>1, <2>9 DEF PostInv, d
      <3>2. Late(d) = {}
        BY <3>1 DEF Unsent, Late
      <3> QED  BY <3>1, <3>2, FS_EmptySet DEF Unsent
    <2>10. ASSUME NEW t \in Texts
           PROVE  stored'[t] + (IF Asking(t)' THEN 1 ELSE 0) + Cardinality(Late(t)') <= 1 + warned'[t]
      <3>1. CASE t # d
        BY <1>0, <1>c, <2>1, <2>5, <2>8, <3>1 DEF ChanceInv
      <3>2. CASE t = d /\ ui.postAlert
        <4>1. warned'[t] = warned[t] + 1
          BY <1>0, <2>1, <3>2
        <4>2. stored[t] + Cardinality(Late(t)) <= 1 + warned[t]
          BY <2>8, <1>0, <1>c, <3>2 DEF ChanceInv
        <4> QED  BY <1>0, <1>c, <2>1, <2>8, <4>1, <4>2
      <3>3. CASE t = d /\ ~ui.postAlert
        BY <1>0, <2>1, <2>8, <2>9, <3>3
      <3> QED  BY <3>1, <3>2, <3>3
    <2>11. ChanceInv'
      BY <2>10 DEF ChanceInv
    <2> QED  BY <2>7, <2>11
  <1>6. ASSUME NEW s \in CallSlots, call[s].at = "asked", Served(s) PROVE PostInv' /\ ChanceInv'
    <2> DEFINE op == call[s].op
    <2>1. PICK o : Serve(s, o) /\ Stores(op, o.answer = "ok")
      BY <1>6 DEF Served
    <2>2. /\ UNCHANGED <<ui, warned, orphans, clicks>>
          /\ \A r \in CallSlots : r # s => call'[r] = call[r]
          /\ call'[s].at = "answered" /\ call'[s].op = op
      BY <1>0, <2>1 DEF Serve
    <2>3. \/ stored' = stored
          \/ op.text \in Texts /\ stored' = [stored EXCEPT ![op.text] = @ + 1]
      BY <1>6, <2>1, AskingFacts DEF Stores, Posts
    <2>4. \A r \in CallSlots : Posts(r)' <=> Posts(r)
      BY <1>6, <2>2 DEF Posts
    <2>5. \A t \in Texts : Unsent(t) => Unsent(t)'
      BY <1>0, <1>6, <2>2, <2>3 DEF Unsent
    <2>6. PostInv'
      BY <1>0, <2>2, <2>4, <2>5 DEF PostInv
    <2>7. \A t : Late(t)' = Late(t)
      BY <2>2 DEF Late
    <2>8. ASSUME NEW t \in Texts
          PROVE  stored'[t] + (IF Asking(t)' THEN 1 ELSE 0) + Cardinality(Late(t)') <= 1 + warned'[t]
      <3>1. CASE op.text # t
        <4>1. Asking(t)' => Asking(t)
          BY <1>6, <2>2 DEF Asking
        <4> QED  BY <1>0, <1>c, <2>2, <2>3, <2>7, <3>1, <4>1 DEF ChanceInv
      <3>2. CASE op.text = t
        <4>1. Asking(t) /\ ~Asking(t)'
          BY <1>6, <2>2, <3>2, AskingFacts DEF Asking
        <4>2. stored'[t] <= stored[t] + 1 /\ stored'[t] \in Nat
          BY <1>0, <2>3
        <4> QED  BY <1>0, <1>c, <2>2, <2>7, <4>1, <4>2 DEF ChanceInv
      <3> QED  BY <3>1, <3>2
    <2>9. ChanceInv'
      BY <2>8 DEF ChanceInv
    <2> QED  BY <2>6, <2>9
  <1>7. ASSUME NEW op \in orphans, ServedLate(op) PROVE PostInv' /\ ChanceInv'
    <2>1. PICK o : ServeOrphan(op, o) /\ Stores(op, o.answer = "ok")
      BY <1>7 DEF ServedLate
    <2>2. UNCHANGED <<ui, call, warned, clicks>> /\ orphans' = orphans \ {op}
      BY <2>1 DEF ServeOrphan, session
    <2>3. \/ stored' = stored
          \/ op.text \in Texts /\ stored' = [stored EXCEPT ![op.text] = @ + 1]
      BY <2>1, ClicksAssumption DEF Stores, TypeInv, OpOf, Texts
    <2>4. \A t \in Texts : Unsent(t) => Unsent(t)'
      BY <1>0, <1>7, <2>2, <2>3 DEF Unsent
    <2>5. \A t : Asking(t)' <=> Asking(t)
      BY <2>2 DEF Asking
    <2>6. PostInv'
      BY <1>0, <2>2, <2>4 DEF PostInv, Posts
    <2>7. ASSUME NEW t \in Texts
          PROVE  stored'[t] + (IF Asking(t)' THEN 1 ELSE 0) + Cardinality(Late(t)') <= 1 + warned'[t]
      <3>1. CASE op.text # t
        <4>1. Late(t)' = Late(t)
          BY <2>2, <3>1 DEF Late
        <4> QED  BY <1>0, <2>2, <2>3, <2>5, <3>1, <4>1 DEF ChanceInv
      <3>2. CASE op.text = t
        <4>1. Late(t)' = Late(t) \ {op} /\ op \in Late(t)
          BY <2>2, <3>2 DEF Late
        <4>2. IsFiniteSet(Late(t))
          BY LateFinite
        <4>3. Cardinality(Late(t) \ {op}) = Cardinality(Late(t)) - 1
          BY <4>1, <4>2, FS_RemoveElement
        <4>4. stored'[t] <= stored[t] + 1 /\ stored'[t] \in Nat
          BY <1>0, <2>3
        <4> QED  BY <1>0, <1>c, <2>2, <2>5, <4>1, <4>3, <4>4 DEF ChanceInv
      <3> QED  BY <3>1, <3>2
    <2>8. ChanceInv'
      BY <2>7 DEF ChanceInv
    <2> QED  BY <2>6, <2>8
  <1>8. ASSUME NEW s \in CallSlots, Lose(s) PROVE PostInv' /\ ChanceInv'
    <2> DEFINE op == call[s].op
    <2>1. /\ UNCHANGED <<ui, stored, warned, clicks>>
          /\ \A r \in CallSlots : r # s => call'[r] = call[r]
          /\ call'[s].at = "answered" /\ call'[s].op = op
          /\ call[s].at \in {"asked", "answered"}
          /\ orphans' = IF call[s].at = "asked" THEN orphans \cup {op} ELSE orphans
      BY <1>0, <1>8 DEF Lose, session
    <2>2. \A r \in CallSlots : Posts(r)' <=> Posts(r)
      BY <2>1 DEF Posts
    <2>3. \A t : Unsent(t) => Unsent(t)'
      BY <2>1 DEF Unsent
    <2>4. PostInv'
      BY <1>0, <2>1, <2>2, <2>3 DEF PostInv
    <2>5. ASSUME NEW t \in Texts
          PROVE  stored'[t] + (IF Asking(t)' THEN 1 ELSE 0) + Cardinality(Late(t)') <= 1 + warned'[t]
      <3>1. CASE call[s].at = "asked" /\ op.text = t
        <4>1. Asking(t) /\ ~Asking(t)'
          BY <2>1, <3>1, AskingFacts DEF Asking
        <4>2. Late(t)' = Late(t) \cup {op}
          BY <2>1, <3>1 DEF Late
        <4>3. IsFiniteSet(Late(t))
          BY LateFinite
        <4>4. Cardinality(Late(t) \cup {op}) = IF op \in Late(t) THEN Cardinality(Late(t))
                                                                ELSE Cardinality(Late(t)) + 1
          BY <4>3, FS_AddElement
        <4> QED  BY <1>0, <1>c, <2>1, <4>1, <4>2, <4>4 DEF ChanceInv
      <3>2. CASE ~(call[s].at = "asked" /\ op.text = t)
        <4>1. Late(t)' = Late(t) /\ (Asking(t)' => Asking(t))
          BY <2>1, <3>2 DEF Late, Asking
        <4> QED  BY <1>0, <1>c, <2>1, <4>1 DEF ChanceInv
      <3> QED  BY <3>1, <3>2
    <2>6. ChanceInv'
      BY <2>5 DEF ChanceInv
    <2> QED  BY <2>4, <2>6
  <1>9. ASSUME NEW s \in CallSlots, NEW how \in How, PostEnded(s, how) PROVE PostInv' /\ ChanceInv'
    <2>1. /\ UNCHANGED <<stored, warned, clicks, orphans>>
          /\ Posts(s)
          /\ \A r \in CallSlots : r # s => call'[r] = call[r]
          /\ call'[s] = Idle
          /\ ui'.draft = 0 \/ (ui'.postAlert /\ ui'.draft = ui.draft)
      BY <1>0, <1>9 DEF PostEnded, Ends
    <2>2. \A r \in CallSlots : ~Posts(r)'
      BY <1>0, <2>1 DEF PostInv, Posts
    <2>3. \A t : (Unsent(t) => Unsent(t)') /\ (Asking(t)' => Asking(t)) /\ Late(t)' = Late(t)
      BY <1>0, <2>1 DEF Unsent, Asking, Late
    <2>4. PostInv'
      BY <1>0, <2>1, <2>2, <2>3 DEF PostInv
    <2>5. ChanceInv'
      BY <1>0, <1>c, <2>1, <2>3 DEF ChanceInv
    <2> QED  BY <2>4, <2>5
  <1>10. ASSUME Quiet, Form(ui') PROVE PostInv' /\ ChanceInv'
    BY <1>10, QuietKeeps
  <1>11. ASSUME NEW s \in Slots, Read(s) PROVE PostInv' /\ ChanceInv'
    <2>1. PICK part \in {"row", "thread"} : ServeRead(s, part)
      BY <1>11 DEF Read
    <2>2. call[s] \in ReadingOf(viewer) /\ call[s].at = "reading"
      BY <2>1, CallTyped DEF ServeRead
    <2>3. /\ UNCHANGED <<ui, stored, warned, orphans, clicks>>
          /\ \A r \in Slots : r # s => call'[r] = call[r]
          /\ call'[s].at = "reading" /\ call'[s].then = call[s].then
      <3> DEFINE c == [call[s] EXCEPT !.missing = @ \ {part},
                                      !.row = IF part = "row" THEN row ELSE @,
                                      !.thread = IF part = "thread" THEN Comments ELSE @]
      <3>1. call' = [call EXCEPT ![s] = c]
        BY <1>0, <2>1 DEF ServeRead
      <3>2. c.at = "reading" /\ c.then = call[s].then
        BY <2>2 DEF ReadingOf
      <3> HIDE DEF c
      <3> QED  BY <1>0, <2>1, <3>1, <3>2 DEF ServeRead, session
    <2>4. Quiet
      BY <1>0, <2>2, <2>3 DEF Quiet, Posts
    <2> QED  BY <1>10, <2>3, <2>4 DEF Form
  <1>12. ASSUME Elsewhere PROVE PostInv' /\ ChanceInv'
    BY <1>10, <1>12 DEF Elsewhere, session, Quiet, Posts, Form
  <1>13. CASE LoadFails
    <2>1. Form(ui')
      BY <1>0, <1>13 DEF LoadFails, UiOf, Form
    <2>2. Quiet
      BY <1>0, <1>13 DEF LoadFails, Ends, session, Quiet, Posts
    <2> QED  BY <1>10, <2>1, <2>2
  <1>14. CASE Loaded
    <2>1. Quiet
      BY <1>0, <1>14 DEF Loaded, Ends, session, Quiet, Posts
    <2> QED  BY <1>10, <1>14, <2>1 DEF Loaded
  <1>15. ASSUME NEW s \in Slots, Kind = "change", ChangeRowIn(s) PROVE PostInv' /\ ChanceInv'
    <2>1. call[s].row \in ViewOf(Kind) /\ call[s].at = "reading"
      BY <1>15, CallTyped DEF ChangeRowIn, Arrived, ReadingOf, Kind
    <2>2. Form(ui')
      BY <1>0, <1>15, <2>1, ChangeShownFacts DEF ChangeRowIn
    <2>3. Quiet
      BY <1>0, <1>15, <2>1 DEF ChangeRowIn, Reads, Reading, session, Quiet, Posts
    <2> QED  BY <1>10, <2>2, <2>3
  <1>16. ASSUME NEW s \in CallSlots, Continues(s) PROVE PostInv' /\ ChanceInv'
    <2>1. Quiet
      BY <1>0, <1>16 DEF Continues, Reading, session, Quiet, Posts
    <2> QED  BY <1>10, <1>16, <2>1 DEF Continues
  <1>17. ASSUME NEW s \in CallSlots, Converted(s) PROVE PostInv' /\ ChanceInv'
    <2>1. Quiet /\ Form(ui')
      BY <1>0, <1>17 DEF Converted, session, Quiet, Posts, Form
    <2> QED  BY <1>10, <2>1
  <1>18. ASSUME NEW s \in CallSlots, NEW how \in How, WriteEnded(s, how) PROVE PostInv' /\ ChanceInv'
    <2>1. Quiet
      BY <1>0, <1>18 DEF WriteEnded, Ends, Quiet, Posts
    <2> QED  BY <1>10, <1>18, <2>1 DEF WriteEnded
  <1>19. ASSUME NEW s \in CallSlots, Find(s) PROVE PostInv' /\ ChanceInv'
    <2>1. /\ UNCHANGED <<ui, stored, warned, orphans, clicks>> /\ call[s].at = "asked"
          /\ call' = [call EXCEPT ![s] = [at |-> "asked", op |-> Found(call[s].op)]]
      BY <1>19, FoundFacts DEF Find, session
    <2>2. Found(call[s].op).do = call[s].op.do /\ Found(call[s].op).text = call[s].op.text
      BY <1>19, FoundFacts, FoundTyped
    <2>3. Quiet
      BY <1>0, <2>1, <2>2 DEF Quiet, Posts
    <2> QED  BY <1>10, <2>1, <2>3 DEF Form
  <1>20. ASSUME NEW op \in orphans, FindLate(op) PROVE PostInv' /\ ChanceInv'
    <2>1. /\ UNCHANGED <<ui, call, stored, warned, clicks>> /\ op.do # "post"
          /\ orphans' = (orphans \ {op}) \cup {Found(op)}
      BY <1>20 DEF FindLate, Found, Reader, session
    <2>2. op.text \notin Texts /\ Found(op).text = op.text
      BY <2>1, FoundTyped, ClicksAssumption DEF TypeInv, OpOf, Texts
    <2>3. \A t \in Texts : Unsent(t) => Unsent(t)'
      BY <2>1, <2>2 DEF Unsent
    <2>4. PostInv'
      BY <1>0, <2>1, <2>3 DEF PostInv, Posts
    <2>5. ASSUME NEW t \in Texts
          PROVE  stored'[t] + (IF Asking(t)' THEN 1 ELSE 0) + Cardinality(Late(t)') <= 1 + warned'[t]
      <3>1. Late(t)' = Late(t) /\ (Asking(t)' <=> Asking(t))
        BY <2>1, <2>2 DEF Late, Asking
      <3> QED  BY <1>0, <1>c, <2>1, <3>1 DEF ChanceInv
    <2>6. ChanceInv'
      BY <2>5 DEF ChanceInv
    <2> QED  BY <2>4, <2>6
  <1> QED  BY <1>1, <1>2, <1>3, <1>4, <1>5, <1>6, <1>7, <1>8, <1>9, <1>11, <1>12, <1>13, <1>14,
              <1>15, <1>16, <1>17, <1>18, <1>19, <1>20 DEF Step
-----------------------------------------------------------------------------
(* One call at a time *)

\* While nothing overlaps one call is under way at most; none has ended since
\* the viewer's last click, then, and the message of a failed one is there.
AloneInv ==
    ~overlapped =>
        /\ \A s, t \in Slots : UnderWay(s) /\ UnderWay(t) => s = t
        /\ (\E s \in Slots : UnderWay(s)) => last = "none"
        /\ last = "failed" => ui.alert \/ ui.postAlert

LEMMA AloneKept ==
    ASSUME TypeInv, ClosedInv, Step, AloneInv
    PROVE  AloneInv'
  <1>0. /\ ui \in UiOf(Kind) /\ call \in [Slots -> CallOf(viewer)]
        /\ \A s \in CallSlots : s \in Slots
        /\ "load" \in Slots /\ Idle.at = "idle" /\ overlapped \in BOOLEAN
    BY SlotFacts DEF TypeInv, Idle
  <1>1. ASSUME UNCHANGED <<last, overlapped>>, \A s \in Slots : UnderWay(s)' => UnderWay(s),
               \/ ui'.alert = ui.alert /\ ui'.postAlert = ui.postAlert
               \/ \E s \in Slots : UnderWay(s)
        PROVE  AloneInv'
    BY <1>1 DEF AloneInv
  <1>2. ASSUME NEW s \in Slots, NEW op, Sends(s, op) PROVE AloneInv'
    <2>1. /\ overlapped' = FALSE => \A t \in Slots : ~UnderWay(t)
          /\ last' = "none"
          /\ \A t \in Slots : t # s => call'[t] = call[t]
      BY <1>0, <1>2 DEF Sends
    <2> QED  BY <1>0, <2>1 DEF AloneInv, UnderWay
  <1>3. ASSUME NEW s \in Slots, UnderWay(s), Ends(s), UNCHANGED overlapped,
               last' = "failed" => ui'.alert \/ ui'.postAlert
        PROVE  AloneInv'
    <2>1. ~UnderWay(s)' /\ \A t \in Slots : t # s => (UnderWay(t)' <=> UnderWay(t))
      BY <1>0, <1>3 DEF Ends, UnderWay
    <2> QED  BY <1>3, <2>1 DEF AloneInv
  <1>4. CASE Open(IF Kind = "change" THEN {"row"} ELSE Together)
    <2>1. /\ last' = "none" /\ \A t \in Slots : t # "load" => call'[t] = Idle
      BY <1>0, <1>4 DEF Open, Reads, session, ClosedInv
    <2> QED  BY <1>0, <2>1 DEF AloneInv, UnderWay
  <1>5. CASE Unmount
    BY <1>0, <1>5 DEF Unmount, AloneInv, UnderWay
  <1>6. CASE Touches
    <2>1. UNCHANGED overlapped /\ \A s \in Slots : UnderWay(s)' <=> UnderWay(s)
      BY <1>6 DEF Touches, UnderWay
    <2> QED  BY <1>6, <2>1 DEF Touches, AloneInv
  <1>7. ASSUME NEW s \in CallSlots, NEW op \in OpOf(Kind), WriteSent(s, op) PROVE AloneInv'
    BY <1>0, <1>2, <1>7 DEF WriteSent, RunWrite
  <1>8. ASSUME NEW s \in CallSlots, SubmitComment(s) PROVE AloneInv'
    BY <1>0, <1>2, <1>8 DEF SubmitComment
  <1>9. ASSUME NEW s \in CallSlots, call[s].at = "asked", Served(s) PROVE AloneInv'
    <2>1. UNCHANGED <<ui, last, overlapped>> /\ \A t \in Slots : t # s => call'[t] = call[t]
      BY <1>0, <1>9 DEF Served, Serve
    <2> QED  BY <1>0, <1>1, <1>9, <2>1 DEF UnderWay
  <1>10. ASSUME NEW op \in orphans, ServedLate(op) PROVE AloneInv'
    BY <1>1, <1>10 DEF ServedLate, ServeOrphan, session, UnderWay
  <1>11. ASSUME NEW s \in Slots, Read(s) PROVE AloneInv'
    <2>1. /\ UNCHANGED <<ui, last, overlapped>> /\ \A t \in Slots : t # s => call'[t] = call[t]
          /\ call[s].at = "reading"
      BY <1>0, <1>11 DEF Read, ServeRead, session
    <2> QED  BY <1>0, <1>1, <2>1 DEF UnderWay
  <1>12. ASSUME NEW s \in CallSlots, Lose(s) PROVE AloneInv'
    <2>1. /\ UNCHANGED <<ui, last, overlapped>> /\ \A t \in Slots : t # s => call'[t] = call[t]
          /\ UnderWay(s)
      BY <1>0, <1>12 DEF Lose, session, UnderWay
    <2> QED  BY <1>0, <1>1, <2>1 DEF UnderWay
  <1>13. ASSUME Elsewhere PROVE AloneInv'
    BY <1>1, <1>13 DEF Elsewhere, session, UnderWay
  <1>14. CASE LoadFails
    <2>1. UnderWay("load") /\ Ends("load") /\ UNCHANGED <<last, overlapped>>
      BY <1>14 DEF LoadFails, UnderWay, session
    <2> QED  BY <1>0, <1>3, <2>1 DEF AloneInv
  <1>15. CASE Loaded
    <2>1. UnderWay("load") /\ Ends("load") /\ UNCHANGED <<last, overlapped>>
      BY <1>15 DEF Loaded, Delivers, UnderWay, session
    <2>2. ASSUME overlapped PROVE AloneInv'
      BY <2>1, <2>2 DEF AloneInv
    <2>3. ASSUME ~overlapped PROVE last' = "none"
      BY <1>0, <2>1, <2>3 DEF AloneInv
    <2> QED  BY <1>0, <1>3, <2>1, <2>2, <2>3
  <1>16. ASSUME NEW s \in Slots, Kind = "change", ChangeRowIn(s) PROVE AloneInv'
    <2>1. /\ UNCHANGED <<last, overlapped>> /\ \A t \in Slots : t # s => call'[t] = call[t]
          /\ UnderWay(s)
      BY <1>0, <1>16 DEF ChangeRowIn, Arrived, Reads, session, UnderWay
    <2> QED  BY <1>0, <1>1, <2>1 DEF UnderWay
  <1>17. ASSUME NEW s \in CallSlots, Continues(s) \/ Converted(s) PROVE AloneInv'
    <2>1. /\ UNCHANGED <<last, overlapped>> /\ \A t \in Slots : t # s => call'[t] = call[t]
          /\ UnderWay(s)
      BY <1>0, <1>17 DEF Continues, Converted, Answered, session, UnderWay
    <2> QED  BY <1>0, <1>1, <2>1 DEF UnderWay
  <1>18. ASSUME NEW s \in CallSlots, NEW how \in How, WriteEnded(s, how) PROVE AloneInv'
    BY <1>0, <1>3, <1>18 DEF WriteEnded
  <1>19. ASSUME NEW s \in CallSlots, NEW how \in How, PostEnded(s, how) PROVE AloneInv'
    BY <1>0, <1>3, <1>19 DEF PostEnded
  <1>20. ASSUME NEW s \in CallSlots, Find(s) PROVE AloneInv'
    <2>1. /\ UNCHANGED <<ui, last, overlapped>> /\ \A t \in Slots : t # s => call'[t] = call[t]
          /\ UnderWay(s)
      BY <1>0, <1>20 DEF Find, session, UnderWay
    <2> QED  BY <1>0, <1>1, <2>1 DEF UnderWay
  <1>21. ASSUME NEW op \in orphans, FindLate(op) PROVE AloneInv'
    BY <1>1, <1>21 DEF FindLate, session, UnderWay
  <1> QED  BY <1>4, <1>5, <1>6, <1>7, <1>8, <1>9, <1>10, <1>11, <1>12, <1>13, <1>14,
              <1>15, <1>16, <1>17, <1>18, <1>19, <1>20, <1>21 DEF Step
-----------------------------------------------------------------------------
(* The viewer's own writes *)

\* Nobody but the viewer's one call can add to what she has written: no request
\* of hers is on its way unawaited, and what a read has brought is up to date.
OwnInv ==
    /\ landed <= row.rev
    /\ ~overlapped =>
        /\ \A s \in CallSlots :
              \/ call[s].at \in {"asked", "leaving", "reading"}
              \/ call[s].at = "answered" /\ call[s].answer # "lost"
              => orphans = {}
        /\ \A s \in CallSlots : call[s].at = "reading" =>
              /\ "row" \in call[s].all \ call[s].missing => landed <= call[s].row.rev
              /\ "row" \notin call[s].all => landed <= ui.view.rev
              /\ "thread" \in call[s].all \ call[s].missing => call[s].thread = Comments
        /\ last = "ok" => /\ orphans = {} /\ landed <= ui.view.rev
                          /\ MayPost => ui.thread = Comments

LEMMA SameComments == stored' = stored => Comments' = Comments
  BY DEF Comments

LEMMA SameViewer == viewer' = viewer => (MayPost' <=> MayPost)
  BY DEF MayPost, Is, isReviewer, Hat

\* A step in which one slot changes and nothing new is written.
LEMMA OwnLater ==
    ASSUME TypeInv, AloneInv, OwnInv, NEW s \in Slots, UnderWay(s),
           \A t \in CallSlots : t # s => call'[t] = call[t],
           UNCHANGED <<viewer, stored, row, orphans, landed, overlapped>>,
           ~overlapped => (last' = "ok" => /\ orphans = {} /\ landed <= ui'.view.rev
                                           /\ MayPost => ui'.thread = Comments),
           ~overlapped /\ s \in CallSlots =>
             \/ call'[s] = Idle
             \/ call'[s].at = "answered" /\ call'[s].answer = "lost"
             \/ /\ orphans = {}
                /\ call'[s].at = "reading" =>
                     /\ "row" \in call'[s].all \ call'[s].missing => landed <= call'[s].row.rev
                     /\ "row" \notin call'[s].all => landed <= ui'.view.rev
                     /\ "thread" \in call'[s].all \ call'[s].missing => call'[s].thread = Comments
    PROVE  OwnInv'
  <1>1. ASSUME ~overlapped, NEW t \in CallSlots, t # s PROVE call'[t].at = "idle"
    BY <1>1, SlotFacts DEF AloneInv, UnderWay
  <1>2. Comments' = Comments /\ (MayPost' <=> MayPost)
    BY SameComments, SameViewer
  <1> QED  BY <1>1, <1>2 DEF OwnInv, Idle

LEMMA DeliveredOwn ==
    ASSUME TypeInv, OwnInv, ~overlapped, NEW s \in CallSlots, NEW u, Delivers(s, u)
    PROVE  /\ orphans = {} /\ landed <= u.view.rev
           /\ MayPost => u.thread = Comments
  <1>1. call[s] \in ReadingOf(viewer) /\ call[s].missing = {} /\ Kind \in Drawer
    BY CallTyped, SlotFacts DEF Delivers, TypeInv
  <1>2. call[s].all \in PartsOf(viewer)
    BY <1>1 DEF ReadingOf
  <1>3. CASE InThread
    BY <1>1, <1>2, <1>3 DEF Delivers, OwnInv
  <1>4. CASE ~InThread /\ Kind = "change"
    <2>1. ~MayPost /\ call[s].all = {"row"}
      BY <1>2, <1>4 DEF InThread, MayPost, Is, isReviewer, Hat, PartsOf, Kind
    <2> QED  BY <1>1, <1>4, <2>1 DEF Delivers, OwnInv
  <1>5. CASE Kind # "change"
    <2>1. call[s].all = {"row", "thread"} /\ ~InThread
      BY <1>2, <1>5 DEF InThread, PartsOf, Together, Kind
    <2> QED  BY <1>1, <1>5, <2>1 DEF Delivers, OwnInv
  <1> QED  BY <1>3, <1>4, <1>5

LEMMA OwnKept ==
    ASSUME TypeInv, ClosedInv, AloneInv, Step, OwnInv
    PROVE  OwnInv'
  <1>0. /\ ui \in UiOf(Kind) /\ call \in [Slots -> CallOf(viewer)] /\ Kind \in Drawer
        /\ \A s \in CallSlots : s \in Slots /\ s # "load"
        /\ "load" \in Slots /\ Idle.at = "idle" /\ overlapped \in BOOLEAN
        /\ row \in RecordOf(Kind) /\ row.rev \in Nat /\ landed \in Nat /\ landed <= row.rev
    BY SlotFacts, RowTypes DEF TypeInv, Idle, OwnInv
  <1>1. ASSUME UNCHANGED <<landed, overlapped>>, row'.rev = row.rev, last' = "none",
               \A s \in CallSlots : call'[s] = Idle
        PROVE  OwnInv'
    BY <1>0, <1>1 DEF OwnInv
  <1>2. ASSUME NEW s \in CallSlots, NEW op, Sends(s, op), UNCHANGED <<row, orphans, landed>>
        PROVE  OwnInv'
    <2>1. /\ overlapped' = FALSE => orphans = {} /\ \A t \in CallSlots : call[t].at = "idle"
          /\ last' = "none"
          /\ \A t \in Slots : t # s => call'[t] = call[t]
          /\ call'[s].at = "asked"
      BY <1>0, <1>2 DEF Sends, UnderWay
    <2> QED  BY <1>0, <1>2, <2>1 DEF OwnInv
  <1>3. CASE Open(IF Kind = "change" THEN {"row"} ELSE Together)
    <2>1. /\ UNCHANGED <<row, landed, last, overlapped>> /\ last = "none"
          /\ \A t \in CallSlots : call'[t] = Idle
      BY <1>0, <1>3 DEF Open, Reads, session, ClosedInv
    <2> QED  BY <1>1, <2>1
  <1>4. CASE Unmount
    BY <1>0, <1>1, <1>4 DEF Unmount
  <1>5. CASE Touches
    <2>1. /\ UNCHANGED <<viewer, row, stored, call, orphans, landed, overlapped>>
          /\ ui'.view = ui.view /\ ui'.thread = ui.thread /\ last' \in {last, "none"}
      BY <1>5 DEF Touches, Shows
    <2>2. Comments' = Comments /\ (MayPost' <=> MayPost)
      BY <2>1, SameComments, SameViewer
    <2> QED  BY <2>1, <2>2 DEF OwnInv
  <1>6. ASSUME NEW s \in CallSlots, NEW op \in OpOf(Kind), WriteSent(s, op) PROVE OwnInv'
    BY <1>2, <1>6 DEF WriteSent, RunWrite
  <1>7. ASSUME NEW s \in CallSlots, SubmitComment(s) PROVE OwnInv'
    BY <1>2, <1>7 DEF SubmitComment
  <1>8. ASSUME NEW s \in CallSlots, call[s].at = "asked", Served(s) PROVE OwnInv'
    <2>1. call[s].op \in OpOf(Kind)
      BY <1>0, <1>8, CallTyped DEF AskedOf
    <2>2. PICK o \in Outcomes(call[s].op) : Serve(s, o)
      BY <1>8 DEF Served
    <2>3. Newer(o.row)
      BY <1>0, <1>8, <2>1, ServedFacts DEF Rewritten, Served
    <2>4. landed' <= row'.rev
      BY <1>0, <2>2, <2>3 DEF Serve, Newer
    <2>5. /\ UNCHANGED <<ui, orphans, last, overlapped>>
          /\ \A t \in Slots : t # s => call'[t] = call[t]
          /\ call'[s].at = "answered"
      BY <1>0, <2>2 DEF Serve
    <2>6. ~overlapped => /\ orphans = {} /\ last = "none"
                         /\ \A t \in CallSlots : t # s => call[t].at = "idle"
      BY <1>0, <1>8 DEF AloneInv, OwnInv, UnderWay
    <2> QED  BY <1>0, <2>4, <2>5, <2>6 DEF OwnInv
  <1>9. ASSUME NEW op \in orphans, ServedLate(op) PROVE OwnInv'
    <2>1. op \in OpOf(Kind)
      BY DEF TypeInv
    <2>2. PICK o \in Outcomes(op) : ServeOrphan(op, o)
      BY <1>9 DEF ServedLate
    <2>3. Newer(o.row)
      BY <1>0, <1>9, <2>1, ServedFacts DEF Rewritten, ServedLate
    <2>4. /\ UNCHANGED <<call, landed, last, overlapped>> /\ landed' <= row'.rev
          /\ orphans # {}
      BY <1>0, <2>2, <2>3 DEF ServeOrphan, session, Newer
    <2> QED  BY <2>4 DEF OwnInv
  <1>10. ASSUME NEW s \in Slots, Read(s) PROVE OwnInv'
    <2>1. PICK part \in {"row", "thread"} : ServeRead(s, part)
      BY <1>10 DEF Read
    <2>2. call[s] \in ReadingOf(viewer) /\ call[s].at = "reading" /\ part \in call[s].missing
      BY <2>1, CallTyped DEF ServeRead
    <2> DEFINE c == [call[s] EXCEPT !.missing = @ \ {part},
                                    !.row = IF part = "row" THEN row ELSE @,
                                    !.thread = IF part = "thread" THEN Comments ELSE @]
    <2>3. call' = [call EXCEPT ![s] = c]
      BY <1>0, <2>1 DEF ServeRead
    <2>4. /\ c.at = "reading" /\ c.all = call[s].all
          /\ c.missing = call[s].missing \ {part}
          /\ c.row = IF part = "row" THEN row ELSE call[s].row
          /\ c.thread = IF part = "thread" THEN Comments ELSE call[s].thread
      BY <2>2 DEF ReadingOf
    <2> HIDE DEF c
    <2>5. /\ UNCHANGED <<viewer, row, stored, ui, orphans, landed, last, overlapped>>
          /\ \A t \in CallSlots : t # s => call'[t] = call[t]
          /\ call'[s] = c
      BY <1>0, <2>1, <2>3 DEF ServeRead, session
    <2>6. ~overlapped /\ s \in CallSlots =>
             /\ orphans = {}
             /\ "row" \in c.all \ c.missing => landed <= c.row.rev
             /\ "row" \notin c.all => landed <= ui.view.rev
             /\ "thread" \in c.all \ c.missing => c.thread = Comments
      BY <1>0, <2>2, <2>4 DEF OwnInv
    <2>7. ~overlapped => (last = "ok" => /\ orphans = {} /\ landed <= ui.view.rev
                                         /\ MayPost => ui.thread = Comments)
      BY DEF OwnInv
    <2> QED  BY <2>2, <2>4, <2>5, <2>6, <2>7, OwnLater DEF UnderWay
  <1>11. ASSUME NEW s \in CallSlots, Lose(s) PROVE OwnInv'
    <2>1. /\ UNCHANGED <<row, landed, last, overlapped>>
          /\ \A t \in Slots : t # s => call'[t] = call[t]
          /\ call'[s].at = "answered" /\ call'[s].answer = "lost" /\ UnderWay(s)
      BY <1>0, <1>11 DEF Lose, session, UnderWay
    <2>2. ~overlapped => /\ last = "none"
                         /\ \A t \in CallSlots : t # s => call[t].at = "idle"
      BY <1>0, <2>1 DEF AloneInv, UnderWay
    <2> QED  BY <1>0, <2>1, <2>2 DEF OwnInv
  <1>12. ASSUME Elsewhere PROVE OwnInv'
    <2>1. /\ UNCHANGED <<viewer, stored, ui, call, orphans, landed, last, overlapped>>
          /\ landed' <= row'.rev
      BY <1>0, <1>12 DEF Elsewhere, session, Rewritten, Newer
    <2>2. Comments' = Comments /\ (MayPost' <=> MayPost)
      BY <2>1, SameComments, SameViewer
    <2> QED  BY <2>1, <2>2 DEF OwnInv
  <1>13. ASSUME UnderWay("load"), UNCHANGED <<viewer, row, stored, orphans, landed, last, overlapped>>,
                \A t \in CallSlots : call'[t] = call[t]
         PROVE  OwnInv'
    <2>1. ~overlapped => last = "none"
      BY <1>0, <1>13 DEF AloneInv
    <2> QED  BY <1>0, <1>13, <2>1, OwnLater
  <1>14. CASE LoadFails \/ Loaded
    BY <1>0, <1>13, <1>14 DEF LoadFails, Loaded, Delivers, UnderWay, Ends, session
  <1>15. ASSUME NEW s \in Slots, Kind = "change", ChangeRowIn(s) PROVE OwnInv'
    <2>1. /\ call[s] \in ReadingOf(viewer) /\ UnderWay(s)
          /\ call[s].all = {"row"} /\ call[s].missing = {} /\ call[s].at = "reading"
      BY <1>15, CallTyped DEF ChangeRowIn, Arrived, UnderWay
    <2>2. ui'.view = call[s].row
      BY <1>0, <1>15, <2>1, ChangeShownFacts DEF ChangeRowIn, ReadingOf, Kind
    <2>3. /\ UNCHANGED <<viewer, row, stored, orphans, landed, last, overlapped>>
          /\ \A t \in CallSlots : t # s => call'[t] = call[t]
          /\ call'[s] = Reading(call[s].then, {"thread"})
      BY <1>0, <1>15 DEF ChangeRowIn, Reads, session
    <2>4. CASE s = "load"
      BY <1>0, <1>13, <2>1, <2>3, <2>4
    <2>5. CASE s \in CallSlots
      <3>1. ~overlapped => /\ orphans = {} /\ landed <= ui'.view.rev /\ last = "none"
        BY <1>0, <2>1, <2>2, <2>5 DEF OwnInv, AloneInv
      <3>2. LET c == call'[s] IN c.at = "reading" /\ c.all = {"thread"} /\ c.missing = {"thread"}
        BY <2>3 DEF Reading
      <3> QED  BY <2>1, <2>3, <2>5, <3>1, <3>2, OwnLater
    <2> QED  BY <2>4, <2>5, SlotFacts
  <1>16. ASSUME NEW s \in CallSlots, Continues(s) PROVE OwnInv'
    <2>1. PICK then \in {"write", "conflict", "decision", "post"}, parts \in PartsOf(viewer) :
             /\ call' = [call EXCEPT ![s] = Reading(then, parts)]
             /\ parts # {"thread"}
      BY <1>16 DEF Continues
    <2>2. "row" \in parts
      BY <1>0, <2>1 DEF PartsOf, Together
    <2>3. /\ UNCHANGED <<viewer, row, stored, orphans, landed, last, overlapped>> /\ UnderWay(s)
          /\ \A t \in CallSlots : t # s => call'[t] = call[t]
          /\ LET c == call'[s] IN c.at = "reading" /\ c.all = parts /\ c.missing = parts
      BY <1>0, <1>16, <2>1 DEF Continues, Reading, session, UnderWay
    <2>4. ~overlapped => orphans = {} /\ last = "none"
      BY <1>0, <1>16, <2>3 DEF Continues, OwnInv, AloneInv
    <2> QED  BY <1>0, <2>2, <2>3, <2>4, OwnLater
  <1>17. ASSUME NEW s \in CallSlots, Converted(s) PROVE OwnInv'
    <2>1. /\ UNCHANGED <<viewer, row, stored, orphans, landed, last, overlapped>> /\ UnderWay(s)
          /\ \A t \in CallSlots : t # s => call'[t] = call[t]
          /\ call'[s].at = "leaving"
      BY <1>0, <1>17 DEF Converted, Answered, session, UnderWay
    <2>2. ~overlapped => orphans = {} /\ last = "none"
      BY <1>0, <1>17, <2>1 DEF Converted, Answered, OwnInv, AloneInv
    <2> QED  BY <1>0, <2>1, <2>2, OwnLater
  <1>18. ASSUME NEW s \in CallSlots, NEW how \in How, WriteEnded(s, how) \/ PostEnded(s, how)
         PROVE  OwnInv'
    <2>1. /\ UNCHANGED <<viewer, row, stored, orphans, landed, overlapped>> /\ UnderWay(s)
          /\ \A t \in CallSlots : t # s => call'[t] = call[t]
          /\ call'[s] = Idle
          /\ last' = "ok" => Delivers(s, ui')
      BY <1>0, <1>18 DEF WriteEnded, PostEnded, Ends
    <2>2. ~overlapped => (last' = "ok" => /\ orphans = {} /\ landed <= ui'.view.rev
                                          /\ MayPost => ui'.thread = Comments)
      BY <2>1, DeliveredOwn
    <2> QED  BY <1>0, <2>1, <2>2, OwnLater
  <1>19. ASSUME NEW s \in CallSlots, Find(s) PROVE OwnInv'
    <2>1. /\ call[s].at = "asked"
          /\ call' = [call EXCEPT ![s] = [at |-> "asked", op |-> Found(call[s].op)]]
      BY <1>19, FoundFacts
    <2>2. /\ UNCHANGED <<viewer, row, stored, ui, orphans, landed, last, overlapped>>
          /\ \A t \in CallSlots : t # s => call'[t] = call[t]
          /\ call'[s].at = "asked" /\ UnderWay(s)
      BY <1>0, <1>19, <2>1 DEF Find, session, UnderWay
    <2>3. ~overlapped => orphans = {} /\ last = "none"
      BY <1>0, <2>1, <2>2 DEF OwnInv, AloneInv
    <2> QED  BY <1>0, <2>2, <2>3, OwnLater
  <1>20. ASSUME NEW op \in orphans, FindLate(op) PROVE OwnInv'
    <2>1. /\ UNCHANGED <<viewer, row, stored, ui, call, landed, last, overlapped>>
          /\ orphans # {}
      BY <1>20 DEF FindLate, session
    <2>2. overlapped \/ \A s \in CallSlots : call[s].at # "asked" /\ call[s].at # "leaving"
                                             /\ call[s].at # "reading"
                                             /\ (call[s].at = "answered" => call[s].answer = "lost")
      BY <2>1 DEF OwnInv
    <2> QED  BY <2>1, <2>2 DEF OwnInv
  <1> QED  BY <1>3, <1>4, <1>5, <1>6, <1>7, <1>8, <1>9, <1>10, <1>11, <1>12, <1>14,
              <1>15, <1>16, <1>17, <1>18, <1>19, <1>20 DEF Step
-----------------------------------------------------------------------------
(* What the viewer of a change has seen *)

\* What was read of a change is in order, and past its approval only if the
\* change is.
Known(v) ==
    /\ v.status # "NONE" => InOrder(v)
    /\ v.status \in Past => row.status \in Past

\* The stage a request was sent from.  By a window set on a scheduled change its
\* transaction finds one past its approval.
SentFrom(op) ==
    /\ op.do = "submit" => op.seen = "ASSESSING"
    /\ op.do = "schedule" =>
          /\ op.seen \in {"APPROVAL", "SCHEDULED"}
          /\ op.seen = "SCHEDULED" =>
                IF op.read = NoView THEN row.status \in Past ELSE op.read.status \in Past
    /\ op.do = "rollback" => op.seen = "IMPLEMENTING"
    /\ op.do \in {"decide", "override"} => op.seen = "APPROVAL"

SeenBy(c) ==
    /\ c.at = "reading" =>
          /\ c.all = {"thread"} => ui.view \in RecordOf(Kind)
          /\ "row" \in c.all \ c.missing => c.row \in RecordOf(Kind)
          /\ Known(c.row)
    /\ c.at = "asked" => SentFrom(c.op)

Seen ==
    /\ InOrder(row)
    /\ Rendered => ui.view \in RecordOf(Kind)
    /\ Known(ui.view)
    /\ \A s \in Slots : SeenBy(call[s])

\* Until a write lands on another row than its transaction had read, a change
\* stays in order, and one that was seen past its approval is there still.
SeenInv == Kind = "change" /\ ~overtaken => Seen

LEMMA RowKept ==
    ASSUME TypeInv, Step, Kind = "change", ~overtaken'
    PROVE  ~overtaken /\ Follows(row')
  <1>1. ASSUME UNCHANGED <<row, overtaken>> PROVE ~overtaken /\ Follows(row')
    BY <1>1 DEF Follows
  <1>2. ASSUME NEW op \in OpOf(Kind), ~Reader(op), NEW o \in Outcomes(op), row' = o.row,
               overtaken' = (overtaken \/ Overtakes(op.read, o.row))
        PROVE  ~overtaken /\ Follows(row')
    <2>1. op.read = row => Follows(o.row)
      BY <1>2, ServedFacts DEF TypeInv
    <2>2. ~overtaken /\ (op.read = row \/ o.row = row)
      BY <1>2 DEF Overtakes
    <2> QED  BY <1>2, <2>1, <2>2 DEF Follows
  <1>3. ASSUME NEW s \in CallSlots, call[s].at = "asked", Served(s) PROVE ~overtaken /\ Follows(row')
    <2>1. call[s].op \in OpOf(Kind)
      BY <1>3, CallTyped, SlotFacts DEF AskedOf
    <2>2. PICK o \in Outcomes(call[s].op) : Serve(s, o)
      BY <1>3 DEF Served
    <2> QED  BY <1>2, <1>3, <2>1, <2>2 DEF Served, Serve
  <1>4. ASSUME NEW op \in orphans, ServedLate(op) PROVE ~overtaken /\ Follows(row')
    <2>1. op \in OpOf(Kind)
      BY DEF TypeInv
    <2>2. PICK o \in Outcomes(op) : ServeOrphan(op, o)
      BY <1>4 DEF ServedLate
    <2> QED  BY <1>2, <1>4, <2>1, <2>2 DEF ServedLate, ServeOrphan
  <1>5. CASE Elsewhere
    BY <1>5 DEF Elsewhere
  <1>6. CASE \/ Open(IF Kind = "change" THEN {"row"} ELSE Together)
             \/ Unmount \/ Touches
             \/ \E s \in CallSlots, op \in OpOf(Kind) : WriteSent(s, op)
             \/ \E s \in CallSlots : SubmitComment(s)
    BY <1>1, <1>6 DEF Open, Unmount, Touches, WriteSent, RunWrite, SubmitComment, others
  <1>7. CASE \/ \E s \in Slots : Read(s)
             \/ \E s \in CallSlots : Lose(s)
             \/ LoadFails \/ Loaded
             \/ \E s \in Slots : Kind = "change" /\ ChangeRowIn(s)
    BY <1>1, <1>7 DEF Read, ServeRead, Lose, LoadFails, Loaded, ChangeRowIn, others
  <1>8. CASE \/ \E s \in CallSlots : Continues(s) \/ Converted(s)
             \/ \E s \in CallSlots, how \in How : WriteEnded(s, how) \/ PostEnded(s, how)
             \/ \E s \in CallSlots : Find(s)
             \/ \E op \in orphans : FindLate(op)
    BY <1>1, <1>8 DEF Continues, Converted, WriteEnded, PostEnded, Find, FindLate, others
  <1> QED  BY <1>3, <1>4, <1>5, <1>6, <1>7, <1>8 DEF Step

LEMMA SeenLater ==
    ASSUME Seen, viewer' = viewer, Follows(row'),
           Rendered' => ui'.view \in RecordOf(Kind),
           ui'.view.status # "NONE" => InOrder(ui'.view),
           ui'.view.status \in Past => row'.status \in Past,
           \A t \in Slots :
              \/ call'[t] = call[t] /\ (ui.view \in RecordOf(Kind) => ui'.view \in RecordOf(Kind))
              \/ SeenBy(call[t])'
    PROVE  Seen'
  <1>1. Kind' = Kind /\ InOrder(row') /\ (row.status \in Past => row'.status \in Past)
    BY DEF Kind, Seen, Follows
  <1>2. ASSUME NEW t \in Slots, call'[t] = call[t],
               ui.view \in RecordOf(Kind) => ui'.view \in RecordOf(Kind)
        PROVE  SeenBy(call[t])'
    BY <1>1, <1>2 DEF Seen, SeenBy, SentFrom, Known
  <1> QED  BY <1>1, <1>2 DEF Seen, Known

LEMMA DeliveredSeen ==
    ASSUME TypeInv, Seen, Kind = "change", NEW s \in Slots, NEW u, Delivers(s, u)
    PROVE  u.view \in RecordOf(Kind) /\ Known(u.view)
  <1>1. call[s] \in ReadingOf(viewer) /\ call[s].missing = {} /\ call[s].at = "reading" /\ SeenBy(call[s])
    BY CallTyped DEF Delivers, Seen
  <1>2. CASE InThread
    BY <1>1, <1>2 DEF Delivers, SeenBy, Seen
  <1>3. CASE ~InThread
    <2>1. call[s].all = {"row"}
      BY <1>1, <1>3 DEF ReadingOf, InThread, isReviewer, Hat, PartsOf, Kind
    <2> QED  BY <1>1, <1>3, <2>1 DEF Delivers, SeenBy
  <1> QED  BY <1>2, <1>3

LEMMA SeenKept ==
    ASSUME TypeInv, ClosedInv, DialogFits(ui), Step, SeenInv
    PROVE  SeenInv'
  <1>0. /\ ui \in UiOf(Kind) /\ call \in [Slots -> CallOf(viewer)] /\ Kind \in Drawer
        /\ \A s \in CallSlots : s \in Slots
        /\ "load" \in Slots /\ Idle.at = "idle" /\ row \in RecordOf(Kind)
        /\ viewer' = viewer
    <2>1. viewer' = viewer
      BY DEF Step, Open, Unmount, Touches, WriteSent, RunWrite, Sends, SubmitComment, Served, Serve,
             ServedLate, ServeOrphan, Read, ServeRead, Lose, Find, FindLate, Elsewhere, LoadFails,
             Loaded, ChangeRowIn, Continues, Converted, WriteEnded, PostEnded
    <2> QED  BY <2>1, SlotFacts DEF TypeInv, Idle
  <1>x. CASE Kind # "change" \/ overtaken'
    BY <1>0, <1>x DEF SeenInv, Kind
  <1>y. CASE Kind = "change" /\ ~overtaken'
    <2> SUFFICES Seen'
      BY DEF SeenInv
    <2>0. Follows(row') /\ Seen
      BY <1>y, RowKept DEF SeenInv
    <2>k. NoView.status = "NONE" /\ "NONE" \notin Past
      BY DEF NoView, Past
    <2>v. ui.view.status # "NONE" => InOrder(ui.view)
      BY <2>0 DEF Seen, Known
    <2>w. ui.view.status \in Past => row'.status \in Past
      BY <2>0 DEF Seen, Known, Follows
    <2>i. \A s \in Slots : call'[s].at \notin {"reading", "asked"} => SeenBy(call[s])'
      BY DEF SeenBy
    <2>n. ASSUME NEW s \in Slots, NEW then, NEW parts, call'[s] = Reading(then, parts),
                 parts = {"thread"} => ui'.view \in RecordOf(Kind)
          PROVE  SeenBy(call[s])'
      <3>1. LET c == call'[s] IN c.at = "reading" /\ c.all = parts /\ c.missing = parts /\ c.row = NoView
        BY <2>n DEF Reading
      <3>2. Kind' = Kind
        BY <1>0 DEF Kind
      <3> QED  BY <2>k, <2>n, <3>1, <3>2 DEF SeenBy, Known
    <2>1. ASSUME ui'.view = ui.view, Mounted(ui'),
                 \A t \in Slots : call'[t] = call[t] \/ SeenBy(call[t])'
          PROVE  Seen'
      <3>1. Rendered' => Rendered
        BY <2>1 DEF Mounted, Rendered
      <3>2. Rendered' => ui'.view \in RecordOf(Kind)
        BY <2>0, <2>1, <3>1 DEF Seen
      <3> QED  BY <1>0, <2>0, <2>v, <2>w, <2>1, <3>2, SeenLater
    <2>2. ASSUME ui'.view \in RecordOf(Kind), Known(ui'.view),
                 \A t \in Slots : call'[t] = call[t] \/ SeenBy(call[t])'
          PROVE  Seen'
      <3>1. ui'.view.status \in Past => row'.status \in Past
        BY <2>0, <2>2 DEF Known, Seen, Follows
      <3>2. ui'.view.status # "NONE" => InOrder(ui'.view)
        BY <2>2 DEF Known
      <3> QED  BY <1>0, <2>0, <2>2, <3>1, <3>2, SeenLater
    <2>3. CASE Open(IF Kind = "change" THEN {"row"} ELSE Together)
      <3>1. ui'.view = NoView /\ ~Rendered' /\ call' = [call EXCEPT !["load"] = Reading("load", {"row"})]
        BY <1>y, <2>3 DEF Open, Fresh, Rendered, Reads
      <3>2. SeenBy(call["load"])'
        BY <1>0, <2>n, <3>1
      <3>3. \A t \in Slots : t # "load" => call'[t] = call[t]
        BY <1>0, <3>1
      <3>4. \A t \in Slots : t # "load" => call[t] = Idle
        BY <2>3 DEF Open, ClosedInv
      <3> QED  BY <1>0, <2>0, <2>i, <2>k, <3>1, <3>2, <3>3, <3>4, SeenLater
    <2>4. CASE Unmount
      <3>1. ui'.view = NoView /\ ~Rendered'
        <4>1. Unmounted.view = NoView /\ Unmounted.open = FALSE
          BY DEF Fresh, Unmounted
        <4> QED  BY <2>4, <4>1 DEF Unmount, Rendered
      <3>2. \A t \in Slots : SeenBy(call[t])'
        BY <1>0, <2>4, <2>i DEF Unmount
      <3> QED  BY <1>0, <2>0, <2>k, <3>1, <3>2, SeenLater
    <2>5. CASE Touches
      BY <2>1, <2>5 DEF Touches, Shows
    <2>6. ASSUME NEW s \in CallSlots, NEW op \in OpOf(Kind), WriteSent(s, op) PROVE Seen'
      <3>1. /\ ui'.view = ui.view /\ Mounted(ui') /\ UNCHANGED row /\ Rendered
            /\ \A t \in Slots : t # s => call'[t] = call[t]
            /\ call'[s].at = "asked" /\ call'[s].op = op
        BY <1>0, <2>6 DEF WriteSent, RunWrite, Sends, UiOf, Mounted
      <3>2. FromView(op) /\ ui.view \in RecordOf(Kind)
        BY <1>y, <2>0, <2>6, <3>1 DEF WriteSent, Seen
      <3>3. ui.view.step # "none" => ui.view.status = "APPROVAL"
        <4>1. ui.view.rev \in Nat /\ ui.view \in ChangeRows(ui.view.rev)
          BY <1>y, <3>2, RowTypes DEF Drawer, RowsAt
        <4>2. ui.view.status # "NONE"
          BY <4>1, ChangeRowFacts DEF Status
        <4> QED  BY <2>v, <4>2 DEF InOrder
      <3>4. SentFrom(op)
        <4>1. ui.view.status = "SCHEDULED" => row.status \in Past
          BY <2>0 DEF Seen, Known, Past
        <4> QED  BY <3>2, <3>3, <4>1 DEF FromView, SentFrom
      <3>5. SeenBy(call[s])'
        BY <3>1, <3>4 DEF SeenBy, SentFrom
      <3> QED  BY <2>1, <3>1, <3>5
    <2>7. ASSUME NEW s \in CallSlots, SubmitComment(s) PROVE Seen'
      <3>1. /\ ui'.view = ui.view /\ Mounted(ui')
            /\ \A t \in Slots : t # s => call'[t] = call[t]
            /\ call'[s].at = "asked" /\ call'[s].op = Request("post", "none")
        BY <1>0, <2>7 DEF SubmitComment, Sends, UiOf, Mounted
      <3>2. Request("post", "none").do = "post"
        BY DEF Request
      <3>3. SeenBy(call[s])'
        BY <3>1, <3>2 DEF SeenBy, SentFrom
      <3> QED  BY <2>1, <3>1, <3>3
    <2>8. ASSUME NEW s \in CallSlots, call[s].at = "asked", Served(s) PROVE Seen'
      <3>1. /\ UNCHANGED ui /\ \A t \in Slots : t # s => call'[t] = call[t]
            /\ call'[s].at = "answered"
        BY <1>0, <2>8 DEF Served, Serve
      <3> QED  BY <2>1, <2>i, <3>1 DEF Mounted
    <2>9. CASE (\E op \in orphans : ServedLate(op)) \/ (Elsewhere)
      BY <2>1, <2>9 DEF ServedLate, ServeOrphan, Elsewhere, Mounted
    <2>10. ASSUME NEW s \in Slots, Read(s) PROVE Seen'
      <3>1. PICK part \in {"row", "thread"} : ServeRead(s, part)
        BY <2>10 DEF Read
      <3>2. call[s] \in ReadingOf(viewer) /\ call[s].at = "reading"
        BY <3>1, CallTyped DEF ServeRead
      <3> DEFINE c == [call[s] EXCEPT !.missing = @ \ {part},
                                      !.row = IF part = "row" THEN row ELSE @,
                                      !.thread = IF part = "thread" THEN Comments ELSE @]
      <3>3. call' = [call EXCEPT ![s] = c]
        BY <1>0, <3>1 DEF ServeRead
      <3>4. /\ c.at = "reading" /\ c.all = call[s].all /\ c.missing = call[s].missing \ {part}
            /\ c.row = IF part = "row" THEN row ELSE call[s].row
        BY <3>2 DEF ReadingOf
      <3> HIDE DEF c
      <3>5. UNCHANGED <<viewer, ui, row>> /\ Kind' = Kind /\ call'[s] = c
        BY <1>0, <3>1, <3>3 DEF ServeRead, Kind
      <3>6. SeenBy(call[s]) /\ InOrder(row)
        BY <2>0 DEF Seen
      <3>7. SeenBy(call[s])'
        BY <1>0, <3>2, <3>4, <3>5, <3>6 DEF SeenBy, Known
      <3> QED  BY <1>0, <2>1, <3>3, <3>5, <3>7 DEF Mounted
    <2>11. ASSUME NEW s \in CallSlots, Lose(s) \/ Converted(s) PROVE Seen'
      <3>1. /\ UNCHANGED ui /\ \A t \in Slots : t # s => call'[t] = call[t]
            /\ call'[s].at \in {"answered", "leaving"}
        BY <1>0, <2>11 DEF Lose, Converted
      <3> QED  BY <2>1, <2>i, <3>1 DEF Mounted
    <2>12. CASE LoadFails
      <3>1. ~Rendered' /\ ui'.view = ui.view
        BY <1>0, <2>12 DEF LoadFails, UiOf, Rendered
      <3>2. \A t \in Slots : call'[t] = call[t] \/ SeenBy(call[t])'
        BY <1>0, <2>12, <2>i DEF LoadFails, Ends
      <3> QED  BY <1>0, <2>0, <2>v, <2>w, <3>1, <3>2, SeenLater
    <2>13. CASE Loaded
      <3>1. \A t \in Slots : call'[t] = call[t] \/ SeenBy(call[t])'
        BY <1>0, <2>13, <2>i DEF Loaded, Ends
      <3>2. ui'.view \in RecordOf(Kind) /\ Known(ui'.view)
        BY <1>0, <1>y, <2>0, <2>13, DeliveredSeen DEF Loaded
      <3> QED  BY <2>2, <3>1, <3>2
    <2>14. ASSUME NEW s \in Slots, ChangeRowIn(s) PROVE Seen'
      <3>1. /\ call[s] \in ReadingOf(viewer) /\ SeenBy(call[s])
            /\ call[s].all = {"row"} /\ call[s].missing = {} /\ call[s].at = "reading"
        BY <2>0, <2>14, CallTyped DEF ChangeRowIn, Arrived, Seen
      <3>2. ui'.view = call[s].row
        BY <1>0, <1>y, <2>14, <3>1, ChangeShownFacts DEF ChangeRowIn, ReadingOf, Kind
      <3>3. ui'.view \in RecordOf(Kind) /\ Known(ui'.view)
        BY <3>1, <3>2 DEF SeenBy
      <3>4. call' = [call EXCEPT ![s] = Reading(call[s].then, {"thread"})]
        BY <2>14 DEF ChangeRowIn, Reads
      <3>5. SeenBy(call[s])'
        BY <1>0, <2>n, <3>3, <3>4
      <3> QED  BY <1>0, <2>2, <3>3, <3>4, <3>5
    <2>15. ASSUME NEW s \in CallSlots, Continues(s) PROVE Seen'
      <3>1. PICK then, parts :
               call' = [call EXCEPT ![s] = Reading(then, parts)] /\ parts # {"thread"}
        BY <2>15 DEF Continues
      <3>2. SeenBy(call[s])'
        BY <1>0, <2>n, <3>1
      <3> QED  BY <1>0, <2>1, <2>15, <3>1, <3>2 DEF Continues, Shows
    <2>16. ASSUME NEW s \in CallSlots, NEW how \in How, WriteEnded(s, how) \/ PostEnded(s, how)
           PROVE  Seen'
      <3>1. \A t \in Slots : call'[t] = call[t] \/ SeenBy(call[t])'
        BY <1>0, <2>16, <2>i DEF WriteEnded, PostEnded, Ends
      <3>2. CASE ui'.view = ui.view
        BY <2>1, <2>16, <3>1, <3>2 DEF WriteEnded, PostEnded
      <3>3. CASE Delivers(s, ui')
        <4>1. ui'.view \in RecordOf(Kind) /\ Known(ui'.view)
          BY <1>0, <1>y, <2>0, <3>3, DeliveredSeen
        <4> QED  BY <2>2, <3>1, <4>1
      <3> QED  BY <2>16, <3>2, <3>3 DEF WriteEnded, PostEnded, Shows
    <2>17. ASSUME NEW s \in CallSlots, Find(s) PROVE Seen'
      <3>1. /\ UNCHANGED <<ui, row>> /\ call[s].at = "asked"
            /\ call' = [call EXCEPT ![s] = [at |-> "asked", op |-> Found(call[s].op)]]
            /\ call[s].op \in OpOf(Kind) /\ Reader(call[s].op)
        BY <2>17, FoundFacts DEF Find
      <3>2. SentFrom(call[s].op)
        BY <1>0, <2>0, <3>1 DEF Seen, SeenBy
      <3>3. SentFrom(Found(call[s].op))
        BY <3>1, <3>2, FoundTyped DEF SentFrom, Reader
      <3>4. SeenBy(call[s])'
        BY <1>0, <3>1, <3>3 DEF SeenBy, SentFrom
      <3> QED  BY <1>0, <2>1, <3>1, <3>4 DEF Mounted
    <2>18. ASSUME NEW op \in orphans, FindLate(op) PROVE Seen'
      BY <2>1, <2>18 DEF FindLate, Mounted
    <2> QED  BY <2>3, <2>4, <2>5, <2>6, <2>7, <2>8, <2>9, <2>10, <2>11, <2>12, <2>13, <2>14,
                <2>15, <2>16, <2>17, <2>18 DEF Step
  <1> QED  BY <1>x, <1>y

\* A request that is answered and has moved the change.
LEMMA MovesFromSeen ==
    ASSUME TypeInv, SeenInv, Step, Kind = "change", ~overtaken, NEW s \in Slots,
           call[s].at = "asked", row'.status # row.status,
           call'[s].at = "answered", call'[s].answer # "lost"
    PROVE  /\ call[s].op.seen = call[s].op.read.status
           /\ ~overtaken' => call[s].op.seen = row.status
  <1>1. /\ call[s].op \in OpOf(Kind) /\ SentFrom(call[s].op)
        /\ row \in RecordOf(Kind) /\ Kind \in Drawer
    BY CallTyped DEF AskedOf, SeenInv, Seen, SeenBy, TypeInv
  <1>2. ASSUME NEW r \in CallSlots, call[r].at = "asked", Served(r), r # s PROVE FALSE
    BY <1>2, SlotFacts DEF Served, Serve, TypeInv
  <1>3. CASE s \in CallSlots /\ Served(s)
    <2> DEFINE op == call[s].op
    <2>1. PICK o \in Outcomes(op) : Serve(s, o)
      BY <1>3 DEF Served
    <2>2. /\ row' = o.row /\ ~Reader(op)
          /\ overtaken' = (overtaken \/ Overtakes(op.read, o.row))
      BY <1>3, <2>1 DEF Served, Serve
    <2>3. Departs(op, op.read.status)
      BY <1>1, <2>2, ServedFacts
    <2>4. op.read # NoView
      BY <2>2, <2>3 DEF Departs, Reader
    <2>5. op.seen = op.read.status
      BY <1>1, <2>3, <2>4 DEF Departs, SentFrom, Past
    <2>6. ~overtaken' => op.read = row
      BY <2>2 DEF Overtakes
    <2> QED  BY <2>5, <2>6
  <1>4. CASE \/ \E op \in orphans : ServedLate(op)
             \/ Elsewhere
    BY <1>4 DEF ServedLate, ServeOrphan, Elsewhere
  <1> QED  BY <1>2, <1>3, <1>4
           DEF Step, Open, Unmount, Touches, WriteSent, RunWrite, SubmitComment, Read, ServeRead, Lose,
               Find, FindLate, LoadFails, Loaded, ChangeRowIn, Continues, Converted, WriteEnded, PostEnded
-----------------------------------------------------------------------------
(* The invariant *)

DrawersInv ==
    /\ TypeInv /\ ClosedInv /\ DialogFits(ui) /\ WriteInv
    /\ PostInv /\ ChanceInv /\ AloneInv /\ OwnInv /\ SeenInv

LEMMA InvariantInit == Init => DrawersInv
  <1> SUFFICES ASSUME Init PROVE DrawersInv
    OBVIOUS
  <1>1. TypeInv /\ row.rev \in Nat
    BY InitTyped, RowTypes DEF TypeInv
  <1>2. /\ ui.open = FALSE /\ ui.view = NoView /\ ui.draft = 0
        /\ ui.dialog = "none" /\ ui.mode = "none"
    BY DEF Init, Unmounted, Fresh
  <1>3. /\ \A s \in Slots : call[s] = Idle /\ call[s].at = "idle"
        /\ \A s \in CallSlots : s \in Slots
        /\ orphans = {} /\ clicks = 0 /\ landed = 0 /\ last = "none" /\ overlapped = FALSE
        /\ \A t \in Texts : stored[t] = 0 /\ warned[t] = 0
    BY SlotFacts DEF Init, Idle
  <1>4. ClosedInv /\ DialogFits(ui) /\ WriteInv
    BY <1>2, <1>3 DEF ClosedInv, DialogFits, WriteInv, UnderWay
  <1>5. PostInv
    BY <1>2, <1>3 DEF PostInv, Posts, Unsent
  <1>6. ChanceInv
    <2>1. \A t \in Texts : ~Asking(t) /\ Late(t) = {}
      BY <1>3 DEF Asking, Late
    <2> QED  BY <1>3, <2>1, FS_EmptySet DEF ChanceInv
  <1>7. AloneInv
    BY <1>3 DEF AloneInv, UnderWay
  <1>8. OwnInv
    BY <1>1, <1>3 DEF OwnInv
  <1>9. SeenInv
    <2>1. PICK c \in Cases : viewer = c.viewer /\ row = c.record
      BY DEF Init
    <2>2. Kind = "change" => InOrder(row)
      BY <2>1, CasesAssumption DEF Kind
    <2>3. ~Rendered /\ Known(ui.view) /\ \A s \in Slots : SeenBy(call[s])
      BY <1>2, <1>3 DEF SeenBy, Known, Rendered, NoView, Past
    <2> QED  BY <2>2, <2>3 DEF SeenInv, Seen
  <1> QED  BY <1>1, <1>4, <1>5, <1>6, <1>7, <1>8, <1>9 DEF DrawersInv

LEMMA InvariantStep == DrawersInv /\ [Next]_vars => DrawersInv'
  <1> SUFFICES ASSUME DrawersInv, [Next]_vars PROVE DrawersInv'
    OBVIOUS
  <1>1. CASE Next
    <2>1. Step
      BY <1>1, NextIsStep DEF DrawersInv
    <2>2. TypeInv' /\ ClosedInv' /\ DialogFits(ui)' /\ WriteInv'
      BY <2>1, TypePreserved, ClosedKept, DialogKept, WriteKept DEF DrawersInv
    <2>3. PostInv' /\ ChanceInv' /\ AloneInv'
      BY <2>1, PostKept, AloneKept DEF DrawersInv
    <2>4. OwnInv' /\ SeenInv'
      BY <2>1, OwnKept, SeenKept DEF DrawersInv
    <2> QED  BY <2>2, <2>3, <2>4 DEF DrawersInv
  <1>2. CASE UNCHANGED vars
    <2> USE <1>2 DEF vars, session, others
    <2>1. TypeInv' /\ ClosedInv' /\ DialogFits(ui)'
      BY DEF DrawersInv, TypeInv, ClosedInv, DialogFits, Decidable, Kind
    <2>2. WriteInv' /\ PostInv' /\ ChanceInv' /\ AloneInv'
      BY DEF DrawersInv, WriteInv, PostInv, ChanceInv, AloneInv, UnderWay, Posts, Unsent, Asking, Late, Kind
    <2>3. OwnInv'
      BY SameComments, SameViewer DEF DrawersInv, OwnInv
    <2>4. SeenInv'
      BY DEF DrawersInv, SeenInv, Seen, SeenBy, SentFrom, Known, Rendered, Kind
    <2> QED  BY <2>1, <2>2, <2>3, <2>4 DEF DrawersInv
  <1> QED  BY <1>1, <1>2

THEOREM DrawersInvariant == Spec => []DrawersInv
  BY InvariantInit, InvariantStep, PTL DEF Spec

\* The justification of a submitter's own decision goes with the decision she
\* chose: DemandDrawer.tsx takes back both or neither, however a decision ends.
THEOREM DialogHolds == Spec => []DialogHoldsDecision
  <1>1. DrawersInv => DialogHoldsDecision
    BY DEF DrawersInv, DialogFits, DialogHoldsDecision, Is, Kind
  <1> QED  BY <1>1, DrawersInvariant, PTL

\* busy locks every control of an incident and of a demand that writes, from the
\* click to the end of the refetch, so that no two writes of one viewer race.
THEOREM OneWrite == Spec => []OneWriteAtATime
  <1>1. DrawersInv => OneWriteAtATime
    <2> SUFFICES ASSUME DrawersInv, ~Is("change") PROVE Cardinality(Writing) <= 1
      BY DEF OneWriteAtATime
    <2>1. \A s, t \in Writing : s = t
      BY DEF DrawersInv, WriteInv, Writing, Is, Kind
    <2>2. CASE Writing = {}
      BY <2>2, FS_EmptySet
    <2>3. CASE \E s : Writing = {s}
      BY <2>3, FS_Singleton
    <2> QED  BY <2>1, <2>2, <2>3
  <1> QED  BY <1>1, DrawersInvariant, PTL

\* A comment whose answer was lost may have been stored; it is sent a second
\* time only by a viewer who was told that it could not be posted.
THEOREM StoredTwiceOnlyWarned == Spec => []StoredTwiceWasWarned
  <1>1. DrawersInv => StoredTwiceWasWarned
    BY LateFinite DEF DrawersInv, ChanceInv, StoredTwiceWasWarned, TypeInv
  <1> QED  BY <1>1, DrawersInvariant, PTL

\* The catch of every call leaves its message, and neither the refetch nor the
\* finally after it takes it away: it is on screen as soon as no dialog covers
\* it.  For a demand this is shown of the viewers whose drawer has the decision
\* panel at all, the only place where its message is rendered.
THEOREM FailureShown == Spec => []FailureShownAlone
  <1>1. DrawersInv => FailureShownAlone
    <2> SUFFICES ASSUME DrawersInv, ~overlapped, AtRest, last = "failed", Is("demand") => canDecide
                 PROVE  Shown
      BY DEF FailureShownAlone
    <2>1. ui.alert \/ ui.postAlert
      BY DEF DrawersInv, AloneInv
    <2>2. Usable
      BY DEF AtRest
    <2> QED  BY <2>1, <2>2 DEF Shown, showDecisionPanel
  <1> QED  BY <1>1, DrawersInvariant, PTL

\* The refetch that ends a call comes after its write and after every write
\* before it, in whatever order the GETs are served and answered.
THEOREM ReadYourWrites == Spec => []ReadYourWritesAlone
  <1>1. DrawersInv => ReadYourWritesAlone
    <2>1. DrawersInv => ui.view.rev \in Nat /\ landed \in Nat
      <3> SUFFICES ASSUME TypeInv PROVE ui.view.rev \in Nat /\ landed \in Nat
        BY DEF DrawersInv
      <3>1. ui.view \in ViewOf(Kind) /\ Kind \in Drawer
        BY DEF TypeInv, UiOf
      <3>2. CASE ui.view = NoView
        BY <3>2 DEF NoView, TypeInv
      <3>3. CASE ui.view \in RecordOf(Kind)
        BY <3>1, <3>3, RowTypes DEF TypeInv
      <3> QED  BY <3>1, <3>2, <3>3 DEF ViewOf
    <2> QED  BY <2>1 DEF DrawersInv, OwnInv, ReadYourWritesAlone
  <1> QED  BY <1>1, DrawersInvariant, PTL

\* The guards of the change routes and the stages at which the drawer offers
\* its controls fit together: a request of a stale screen takes the change out
\* of no stage that the viewer did not see, as long as every transaction writes
\* on the row it has read.
THEOREM MovesFromTheStageSeen == Spec => ChangeMovesFromSeen
  <1>1. DrawersInv /\ [Next]_vars =>
           [Is("change") /\ ~overtaken => \A s \in Slots :
              (/\ call[s].at = "asked" /\ row'.status # row.status
               /\ call'[s].at = "answered" /\ call'[s].answer # "lost")
              => /\ call[s].op.seen = call[s].op.read.status
                 /\ ~overtaken' => call[s].op.seen = row.status]_vars
    <2> SUFFICES ASSUME DrawersInv, Next, Is("change"), ~overtaken, NEW s \in Slots,
                        call[s].at = "asked", row'.status # row.status,
                        call'[s].at = "answered", call'[s].answer # "lost"
                 PROVE  /\ call[s].op.seen = call[s].op.read.status
                        /\ ~overtaken' => call[s].op.seen = row.status
      OBVIOUS
    <2>1. Step
      BY NextIsStep DEF DrawersInv
    <2> QED  BY <2>1, MovesFromSeen DEF DrawersInv, Is, Kind
  <1> QED  BY <1>1, DrawersInvariant, PTL DEF Spec, ChangeMovesFromSeen
=============================================================================
