--------------------------- MODULE IncidentProofs ---------------------------
(***************************************************************************)
(* Theorems about the incident service and its sweep, for any number of    *)
(* incidents, handlers and sweeps under way at once.                       *)
(***************************************************************************)
EXTENDS MCIncident, FiniteSetTheorems, TLAPS

(* No incident is ever deleted: what a request has read and what a sweep has
   found is still there when it is written. *)
Known ==
    /\ \A h \in Handlers : handler[h] # Idle => Exists(handler[h].i)
    /\ \A s \in Sweepers : Sweeping(s, "flag") => \A i \in sweeper[s].todo : Exists(i)

TypeInv == TypeOK /\ Known

-----------------------------------------------------------------------------
(* Types.                                                                  *)

LEMMA HandlerShape ==
    ASSUME NEW t \in HandlerState
    PROVE  /\ t.op = "categorize" => t \in CategorizeTxn
           /\ t.op = "assign"     => t \in AssignTxn
           /\ t.op = "transition" => t \in MoveTxn
           /\ t.op = "reopen"     => t \in ReopenTxn
           /\ t.op # "idle" => t # Idle /\ t.i \in Incidents
           /\ t # Idle => t.op # "idle" /\ t.i \in Incidents
  BY DEF HandlerState, Idle, CategorizeTxn, AssignTxn, MoveTxn, ReopenTxn

LEMMA SweepShape ==
    ASSUME NEW t \in SweepState
    PROVE  /\ t.op \in {"clear", "find"} => t.asOf \in [Incidents -> Marks]
           /\ t.op = "flag" => t.todo \subseteq Incidents
  BY DEF SweepState, Idle

(* The priority of every grade has its SLA mark. *)
LEMMA PriorityType ==
    \A g \in Level \X Level : priorityFor(g) \in Priority /\ SLA_HOURS[priorityFor(g)] \in Marks
  <1> SUFFICES ASSUME NEW a \in Level, NEW b \in Level
               PROVE  LET g == <<a, b>> IN
                      priorityFor(g) \in Priority /\ SLA_HOURS[priorityFor(g)] \in Marks
    OBVIOUS
  <1>1. RANK[a] \in 1..3 /\ RANK[b] \in 1..3
    BY DEF RANK, Level
  <1>2. priorityFor(<<a, b>>) \in Priority
    BY <1>1 DEF priorityFor, Priority
  <1>3. \A p \in Priority : SLA_HOURS[p] \in Marks
    BY DEF Priority, SLA_HOURS, Marks
  <1> QED  BY <1>2, <1>3

(* What each write makes of a row. *)
LEMMA RowTypes ==
    ASSUME NEW row \in IncidentRow
    PROVE  /\ \A t \in CategorizeTxn : Regraded(row, t) \in IncidentRow
           /\ \A t \in AssignTxn : [row EXCEPT !.assigned = TRUE, !.status = t.to] \in IncidentRow
           /\ \A to \in Target : Moved(row, to) \in IncidentRow
           /\ Reopened(row) \in IncidentRow
           /\ Flagged(row) \in IncidentRow
           /\ [row EXCEPT !.overdue = FALSE] \in IncidentRow
           /\ [row EXCEPT !.closedAt = "old"] \in IncidentRow
  <1>1. ASSUME NEW t \in CategorizeTxn PROVE Regraded(row, t) \in IncidentRow
    <2>1. t.grade \in Level \X Level
      BY GradesAssumption DEF CategorizeTxn
    <2>2. priorityFor(t.grade) \in Priority /\ SLA_HOURS[priorityFor(t.grade)] \in Marks
      BY <2>1, PriorityType
    <2> QED  BY <2>1, <2>2 DEF Regraded, IncidentRow
  <1>2. \A t \in AssignTxn : [row EXCEPT !.assigned = TRUE, !.status = t.to] \in IncidentRow
    BY DEF AssignTxn, IncidentRow
  <1>3. \A to \in Target : Moved(row, to) \in IncidentRow
    BY DEF Moved, Target, Status, IncidentRow
  <1>4. Reopened(row) \in IncidentRow
    BY DEF Reopened, Status, IncidentRow
  <1> QED  BY <1>1, <1>2, <1>3, <1>4 DEF Flagged, IncidentRow

(* What each write does to the columns the properties speak of. *)
LEMMA RowEffects ==
    ASSUME NEW row \in IncidentRow
    PROVE  /\ \A t : /\ Regraded(row, t).status = row.status
                     /\ Regraded(row, t).resolvedAt = row.resolvedAt
                     /\ Regraded(row, t).closedAt = row.closedAt
                     /\ Regraded(row, t).notified = row.notified
                     /\ t.locked => Regraded(row, t).dueAt = row.dueAt
           /\ \A to : /\ Moved(row, to).status = to
                      /\ Moved(row, to).resolvedAt <=> row.resolvedAt \/ to = "RESOLVED"
                      /\ Moved(row, to).closedAt = IF to = "CLOSED" THEN "recent" ELSE row.closedAt
                      /\ Moved(row, to).notified = row.notified
                      /\ Moved(row, to).dueAt = row.dueAt
           /\ Reopened(row).status = "IN_PROGRESS" /\ ~Reopened(row).resolvedAt
           /\ Reopened(row).closedAt = "none" /\ Reopened(row).dueAt = row.dueAt
           /\ ~Reopened(row).notified /\ ~Reopened(row).overdue
           /\ Flagged(row).status = row.status /\ Flagged(row).dueAt = row.dueAt
           /\ Flagged(row).resolvedAt = row.resolvedAt /\ Flagged(row).closedAt = row.closedAt
           /\ Flagged(row).notified
  <1>1. \A t : /\ Regraded(row, t).status = row.status
               /\ Regraded(row, t).resolvedAt = row.resolvedAt
               /\ Regraded(row, t).closedAt = row.closedAt
               /\ Regraded(row, t).notified = row.notified
               /\ t.locked => Regraded(row, t).dueAt = row.dueAt
    BY DEF Regraded, IncidentRow
  <1>2. \A to : /\ Moved(row, to).status = to
                /\ Moved(row, to).resolvedAt <=> row.resolvedAt \/ to = "RESOLVED"
                /\ Moved(row, to).closedAt = IF to = "CLOSED" THEN "recent" ELSE row.closedAt
                /\ Moved(row, to).notified = row.notified
                /\ Moved(row, to).dueAt = row.dueAt
    BY DEF Moved, IncidentRow
  <1>3. /\ Reopened(row).status = "IN_PROGRESS" /\ ~Reopened(row).resolvedAt
        /\ Reopened(row).closedAt = "none" /\ Reopened(row).dueAt = row.dueAt
        /\ ~Reopened(row).notified /\ ~Reopened(row).overdue
    BY DEF Reopened, IncidentRow
  <1>4. /\ Flagged(row).status = row.status /\ Flagged(row).dueAt = row.dueAt
        /\ Flagged(row).resolvedAt = row.resolvedAt /\ Flagged(row).closedAt = row.closedAt
        /\ Flagged(row).notified
    BY DEF Flagged, IncidentRow
  <1> QED  BY <1>1, <1>2, <1>3, <1>4

LEMMA OpenedType == \A grade \in Grades : Opened(grade) \in IncidentRow
  <1> SUFFICES ASSUME NEW grade \in Grades PROVE Opened(grade) \in IncidentRow
    OBVIOUS
  <1>1. grade \in Level \X Level
    BY GradesAssumption
  <1>2. priorityFor(grade) \in Priority /\ SLA_HOURS[priorityFor(grade)] \in Marks
    BY <1>1, PriorityType
  <1> QED  BY <1>1, <1>2 DEF Opened, IncidentRow, Status

LEMMA TypeInit == Init => TypeInv
  BY BoundsAssumption DEF Init, TypeInv, TypeOK, Known, HandlerState, SweepState, Idle, Sweeping,
     Marks

LEMMA KeepType ==
    ASSUME TypeInv, NEW h \in Handlers, NEW t \in HandlerState, Keep(h, t),
           t # Idle => Exists(t.i)
    PROVE  TypeInv'
  BY DEF TypeInv, TypeOK, Known, Keep, Exists, Sweeping

LEMMA BeginType ==
    ASSUME TypeInv, NEW h \in Handlers, NEW i \in Incidents, Begin(h, i)
    PROVE  TypeInv'
  <1> USE DEF Found
  <1>0. Exists(i) => incident[i] \in IncidentRow
    BY DEF TypeInv, TypeOK, Exists
  <1>1. ASSUME NEW grade \in Grades, CategorizeRead(h, i, grade) PROVE TypeInv'
    <2> DEFINE t == [op |-> "categorize", i |-> i, grade |-> grade,
                     locked |-> incident[i].status \notin Unlocked]
    <2>1. t \in HandlerState
      BY DEF HandlerState, CategorizeTxn
    <2> QED  BY <1>1, <2>1, KeepType DEF CategorizeRead
  <1>2. CASE AssignRead(h, i)
    <2> DEFINE t == [op |-> "assign", i |-> i,
                     to |-> IF incident[i].status = "NEW" THEN "ASSIGNED" ELSE incident[i].status]
    <2>1. t \in HandlerState
      BY <1>0, <1>2 DEF AssignRead, HandlerState, AssignTxn, IncidentRow, Status
    <2> QED  BY <1>2, <2>1, KeepType DEF AssignRead
  <1>3. ASSUME NEW to \in Target, TransitionRead(h, i, to) PROVE TypeInv'
    <2> DEFINE t == [op |-> "transition", i |-> i, to |-> to]
    <2>1. t \in HandlerState
      BY DEF HandlerState, MoveTxn
    <2> QED  BY <1>3, <2>1, KeepType DEF TransitionRead
  <1>4. CASE ReopenRead(h, i)
    <2> DEFINE t == [op |-> "reopen", i |-> i]
    <2>1. t \in HandlerState
      BY DEF HandlerState, ReopenTxn
    <2> QED  BY <1>4, <2>1, KeepType DEF ReopenRead
  <1> QED  BY <1>1, <1>2, <1>3, <1>4 DEF Begin

(* A write by id lands on the row that was read and loses no other. *)
LEMMA RowWritten ==
    ASSUME TypeInv, NEW i \in Incidents, NEW row \in IncidentRow,
           incident' = [incident EXCEPT ![i] = row]
    PROVE  /\ incident' \in [Incidents -> IncidentRow \cup {NoRow}]
           /\ \A j \in Incidents : Exists(j) => Exists(j)'
  BY NoRowAssumption DEF TypeInv, TypeOK, Exists

(* A request that commits or is rolled back forgets what it read. *)
LEMMA FinishType ==
    ASSUME TypeInv, NEW h \in Handlers, Finish(h),
           incident' \in [Incidents -> IncidentRow \cup {NoRow}],
           \A j \in Incidents : Exists(j) => Exists(j)',
           told' \in [Incidents -> Nat]
    PROVE  TypeInv'
  <1>1. TypeOK'
    BY DEF TypeInv, TypeOK, Finish, HandlerState
  <1>2. \A g \in Handlers : handler'[g] # Idle =>
           handler'[g] = handler[g] /\ handler[g].i \in Incidents
    BY HandlerShape DEF TypeInv, TypeOK, Finish
  <1>3. \A s \in Sweepers : Sweeping(s, "flag") => sweeper[s].todo \subseteq Incidents
    BY SweepShape DEF TypeInv, TypeOK, Sweeping
  <1>4. Known'
    BY <1>2, <1>3 DEF TypeInv, Known, Finish, Sweeping
  <1> QED  BY <1>1, <1>4 DEF TypeInv

LEMMA ContinueType ==
    ASSUME TypeInv, NEW h \in Handlers, Continue(h)
    PROVE  TypeInv'
  <1> DEFINE t == handler[h]
             i == handler[h].i
  <1>0. t \in HandlerState
    BY DEF TypeInv, TypeOK
  <1>a. t.op # "idle" => i \in Incidents /\ incident[i] \in IncidentRow
    BY <1>0, HandlerShape DEF TypeInv, TypeOK, Known, Exists
  <1>1. CASE CategorizeWrite(h)
    <2>1. t \in CategorizeTxn /\ incident[i] \in IncidentRow /\ i \in Incidents
      BY <1>0, <1>1, <1>a, HandlerShape DEF CategorizeWrite
    <2>2. Regraded(incident[i], t) \in IncidentRow
      BY <2>1, RowTypes
    <2>3. incident' = [incident EXCEPT ![i] = Regraded(incident[i], t)]
      BY <1>1, <2>1 DEF CategorizeWrite, TypeInv, TypeOK
    <2> QED  BY <1>1, <2>1, <2>2, <2>3, RowWritten, FinishType
             DEF CategorizeWrite, TypeInv, TypeOK
  <1>2. CASE AssignWrite(h)
    <2> DEFINE row == [incident[i] EXCEPT !.assigned = TRUE, !.status = t.to]
    <2>1. t \in AssignTxn /\ incident[i] \in IncidentRow /\ i \in Incidents
      BY <1>0, <1>2, <1>a, HandlerShape DEF AssignWrite
    <2>2. row \in IncidentRow
      BY <2>1, RowTypes
    <2>3. incident' = [incident EXCEPT ![i] = row]
      BY <1>2, <2>1 DEF AssignWrite, TypeInv, TypeOK
    <2> HIDE DEF row
    <2> QED  BY <1>2, <2>1, <2>2, <2>3, RowWritten, FinishType
             DEF AssignWrite, TypeInv, TypeOK
  <1>3. CASE TransitionWrite(h)
    <2>1. t \in MoveTxn /\ incident[i] \in IncidentRow /\ i \in Incidents
      BY <1>0, <1>3, <1>a, HandlerShape DEF TransitionWrite
    <2>2. Moved(incident[i], t.to) \in IncidentRow
      BY <2>1, RowTypes DEF MoveTxn
    <2>3. incident' = [incident EXCEPT ![i] = Moved(incident[i], t.to)]
      BY <1>3, <2>1 DEF TransitionWrite, TypeInv, TypeOK
    <2> QED  BY <1>3, <2>1, <2>2, <2>3, RowWritten, FinishType
             DEF TransitionWrite, TypeInv, TypeOK
  <1>4. CASE ReopenWrite(h)
    <2>1. t \in ReopenTxn /\ incident[i] \in IncidentRow /\ i \in Incidents
      BY <1>0, <1>4, <1>a, HandlerShape DEF ReopenWrite
    <2>2. Reopened(incident[i]) \in IncidentRow
      BY <2>1, RowTypes
    <2>3. incident' = [incident EXCEPT ![i] = Reopened(incident[i])]
      BY <1>4, <2>1 DEF ReopenWrite, TypeInv, TypeOK
    <2>4. told' \in [Incidents -> Nat]
      BY <1>4 DEF ReopenWrite, TypeInv, TypeOK
    <2> QED  BY <1>4, <2>1, <2>2, <2>3, <2>4, RowWritten, FinishType DEF ReopenWrite
  <1>5. CASE Abort(h)
    BY <1>5, FinishType DEF Abort, TypeInv, TypeOK, Exists
  <1> QED  BY <1>1, <1>2, <1>3, <1>4, <1>5 DEF Continue

(* What a sweep does to the rows keeps them, and what it goes on with it has
   found among them. *)
LEMMA SweepType ==
    ASSUME TypeInv, NEW s \in Sweepers, NEW next \in SweepState, SweepTo(s, next),
           next.op = "flag" => \A i \in next.todo : Exists(i),
           incident' \in [Incidents -> IncidentRow \cup {NoRow}],
           \A j \in Incidents : Exists(j) => Exists(j)',
           told' \in [Incidents -> Nat]
    PROVE  TypeInv'
  <1>1. TypeOK'
    BY DEF TypeInv, TypeOK, SweepTo
  <1>2. \A h \in Handlers : handler[h] # Idle => handler[h].i \in Incidents
    BY HandlerShape DEF TypeInv, TypeOK
  <1>3. \A r \in Sweepers : Sweeping(r, "flag") => sweeper[r].todo \subseteq Incidents
    BY SweepShape DEF TypeInv, TypeOK, Sweeping
  <1>4. next.op = "flag" => next.todo \subseteq Incidents
    BY SweepShape
  <1>5. \A r \in Sweepers : sweeper'[r] = IF r = s THEN next ELSE sweeper[r]
    BY DEF SweepTo, TypeInv, TypeOK
  <1>6. Known'
    BY <1>2, <1>3, <1>4, <1>5 DEF TypeInv, Known, SweepTo, Sweeping
  <1> QED  BY <1>1, <1>6 DEF TypeInv

LEMMA FlagOrRestType ==
    ASSUME NEW todo \in SUBSET Incidents
    PROVE  /\ FlagOrRest(todo) \in SweepState
           /\ FlagOrRest(todo).op = "flag" => FlagOrRest(todo).todo = todo
           /\ FlagOrRest(todo).op = "idle" => todo = {}
           /\ FlagOrRest(todo).op \in {"idle", "flag"}
  BY DEF FlagOrRest, SweepState, Idle

LEMMA SweepStepType ==
    ASSUME TypeInv, NEW s \in Sweepers, Sweep(s) \/ SweepFails(s)
    PROVE  TypeInv'
  <1>0. sweeper[s] \in SweepState
    BY DEF TypeInv, TypeOK
  <1>1. CASE SweepStart(s)
    <2> DEFINE next == [op |-> "clear", asOf |-> age]
    <2>1. next \in SweepState
      BY DEF TypeInv, TypeOK, SweepState
    <2> QED  BY <1>1, <2>1, SweepType DEF SweepStart, TypeInv, TypeOK, Exists
  <1>2. CASE ClearFlags(s)
    <2> DEFINE next == [op |-> "find", asOf |-> sweeper[s].asOf]
    <2>1. next \in SweepState
      BY <1>0, <1>2, SweepShape DEF ClearFlags, Sweeping, SweepState
    <2>2. \A i \in Incidents : Exists(i) =>
             incident[i] \in IncidentRow /\ [incident[i] EXCEPT !.overdue = FALSE] \in IncidentRow
      BY RowTypes DEF TypeInv, TypeOK, Exists
    <2>3. \A i \in Incidents : /\ incident'[i] \in IncidentRow \cup {NoRow}
                               /\ Exists(i) => incident'[i] \in IncidentRow
      BY <1>2, <2>2 DEF ClearFlags, TypeInv, TypeOK
    <2>4. incident' \in [Incidents -> IncidentRow \cup {NoRow}]
      BY <1>2, <2>3 DEF ClearFlags
    <2> QED  BY <1>2, <2>1, <2>3, <2>4, SweepType, NoRowAssumption DEF ClearFlags, TypeInv, TypeOK, Exists
  <1>3. CASE FindDue(s)
    <2> DEFINE due == Due(sweeper[s].asOf)
    <2>1. due \subseteq Incidents /\ \A i \in due : Exists(i)
      BY DEF Due
    <2> HIDE DEF due
    <2>2. FlagOrRest(due) \in SweepState
             /\ (FlagOrRest(due).op = "flag" => FlagOrRest(due).todo = due)
      BY <2>1, FlagOrRestType
    <2> QED  BY <1>3, <2>1, <2>2, SweepType DEF FindDue, TypeInv, TypeOK, Exists, due
  <1>4. CASE FlagNext(s)
    <2>1. sweeper[s].todo \subseteq Incidents /\ \A i \in sweeper[s].todo : Exists(i)
      BY <1>0, <1>4, SweepShape DEF FlagNext, Sweeping, TypeInv, Known
    <2>2. PICK i \in sweeper[s].todo :
             /\ incident' = [incident EXCEPT ![i] = Flagged(@)]
             /\ told' = [told EXCEPT ![i] = @ + 1]
             /\ SweepTo(s, FlagOrRest(sweeper[s].todo \ {i}))
      BY <1>4 DEF FlagNext
    <2>3. i \in Incidents /\ incident[i] \in IncidentRow
      BY <2>1 DEF TypeInv, TypeOK, Exists
    <2>4. Flagged(incident[i]) \in IncidentRow
      BY <2>3, RowTypes
    <2>5. incident' = [incident EXCEPT ![i] = Flagged(incident[i])]
             /\ told' \in [Incidents -> Nat]
      BY <2>2, <2>3 DEF TypeInv, TypeOK
    <2>6. FlagOrRest(sweeper[s].todo \ {i}) \in SweepState
             /\ (FlagOrRest(sweeper[s].todo \ {i}).op = "flag" =>
                    FlagOrRest(sweeper[s].todo \ {i}).todo = sweeper[s].todo \ {i})
      BY <2>1, FlagOrRestType
    <2> QED  BY <2>1, <2>2, <2>3, <2>4, <2>5, <2>6, RowWritten, SweepType
  <1>5. CASE SweepFails(s)
    BY <1>5, BoundsAssumption DEF SweepFails, TypeInv, TypeOK, Known, Exists, Sweeping, SweepState, Idle
  <1> QED  BY <1>1, <1>2, <1>3, <1>4, <1>5 DEF Sweep, GoOn

LEMMA TypeNext == TypeInv /\ [Next]_vars => TypeInv'
  <1> SUFFICES ASSUME TypeInv, [Next]_vars PROVE TypeInv'
    OBVIOUS
  <1>1. ASSUME NEW i \in Incidents, NEW grade \in Grades, CreateIncident(i, grade)
        PROVE  TypeInv'
    <2>1. /\ incident' \in [Incidents -> IncidentRow \cup {NoRow}]
          /\ \A j \in Incidents : Exists(j) => Exists(j)'
      BY <1>1, OpenedType, RowWritten DEF CreateIncident
    <2>2. \A h \in Handlers : handler[h] # Idle => handler[h].i \in Incidents
      BY HandlerShape DEF TypeInv, TypeOK
    <2>3. \A s \in Sweepers : Sweeping(s, "flag") => sweeper[s].todo \subseteq Incidents
      BY SweepShape DEF TypeInv, TypeOK, Sweeping
    <2> QED  BY <1>1, <2>1, <2>2, <2>3 DEF CreateIncident, TypeInv, TypeOK, Known, Sweeping
  <1>2. ASSUME NEW i \in Incidents, NEW h \in Handlers, Begin(h, i) PROVE TypeInv'
    BY <1>2, BeginType
  <1>3. ASSUME NEW i \in Incidents, Ages(i) PROVE TypeInv'
    BY <1>3, BoundsAssumption DEF Ages, TypeInv, TypeOK, Known, Exists, Sweeping, Marks
  <1>4. ASSUME NEW i \in Incidents, WindowCloses(i) PROVE TypeInv'
    <2> DEFINE row == [incident[i] EXCEPT !.closedAt = "old"]
    <2>1. row \in IncidentRow /\ incident' = [incident EXCEPT ![i] = row]
      BY <1>4, RowTypes DEF WindowCloses, TypeInv, TypeOK, Exists
    <2> HIDE DEF row
    <2>2. /\ incident' \in [Incidents -> IncidentRow \cup {NoRow}]
          /\ \A j \in Incidents : Exists(j) => Exists(j)'
      BY <2>1, RowWritten
    <2>3. \A h \in Handlers : handler[h] # Idle => handler[h].i \in Incidents
      BY HandlerShape DEF TypeInv, TypeOK
    <2>4. \A s \in Sweepers : Sweeping(s, "flag") => sweeper[s].todo \subseteq Incidents
      BY SweepShape DEF TypeInv, TypeOK, Sweeping
    <2> QED  BY <1>4, <2>2, <2>3, <2>4 DEF WindowCloses, TypeInv, TypeOK, Known, Sweeping
  <1>5. ASSUME NEW h \in Handlers, Continue(h) PROVE TypeInv'
    BY <1>5, ContinueType
  <1>6. ASSUME NEW s \in Sweepers, Sweep(s) \/ SweepFails(s) PROVE TypeInv'
    BY <1>6, SweepStepType
  <1>7. CASE UNCHANGED vars
    BY <1>7 DEF vars, TypeInv, TypeOK, Known, Exists, Sweeping
  <1> QED  BY <1>1, <1>2, <1>3, <1>4, <1>5, <1>6, <1>7 DEF Next

THEOREM TypeInvariant == Spec => []TypeInv
  BY TypeInit, TypeNext, PTL DEF Spec

(* Every table, every request and every sweep keeps its type, whatever the
   interleaving: each write lands on a row that exists. *)
THEOREM TypeCorrect == Spec => []TypeOK
  BY TypeInvariant, PTL DEF TypeInv

-----------------------------------------------------------------------------
(* The overdue notice.  The update that flags does not ask again, so every *)
(* sweep that has found an incident will tell of it once more; it can only *)
(* have found it before the first of them told.                            *)

Waiting(i) == {s \in Sweepers : Sweeping(s, "flag") /\ i \in sweeper[s].todo}

ToldInv ==
    \A i \in Incidents :
        /\ told[i] > 0 => Exists(i) /\ incident[i].notified
        /\ told[i] + Cardinality(Waiting(i)) <= Cardinality(Sweepers)

LEMMA WaitingFinite ==
    ASSUME IsFiniteSet(Sweepers), NEW i
    PROVE  /\ IsFiniteSet(Waiting(i)) /\ Cardinality(Waiting(i)) \in Nat
           /\ Cardinality(Sweepers) \in Nat /\ Cardinality(Waiting(i)) <= Cardinality(Sweepers)
  <1>1. Waiting(i) \subseteq Sweepers
    BY DEF Waiting
  <1> QED  BY <1>1, FS_Subset, FS_CardinalityType

(* A step that tells nobody, finds nothing and erases no stamp. *)
LEMMA ToldQuiet ==
    ASSUME TypeInv, ToldInv, IsFiniteSet(Sweepers), NEW i \in Incidents,
           told'[i] \in {0, told[i]},
           told'[i] = told[i] /\ Exists(i) /\ incident[i].notified =>
              Exists(i)' /\ incident'[i].notified,
           Waiting(i)' \subseteq Waiting(i)
    PROVE  /\ told'[i] > 0 => Exists(i)' /\ incident'[i].notified
           /\ told'[i] + Cardinality(Waiting(i)') <= Cardinality(Sweepers)
  <1>1. told[i] \in Nat
    BY DEF TypeInv, TypeOK
  <1>2. /\ IsFiniteSet(Waiting(i)) /\ Cardinality(Waiting(i)) \in Nat
        /\ Cardinality(Sweepers) \in Nat
    BY WaitingFinite
  <1>3. Cardinality(Waiting(i)') \in Nat /\ Cardinality(Waiting(i)') <= Cardinality(Waiting(i))
    BY <1>2, FS_Subset, FS_CardinalityType
  <1>4. told[i] + Cardinality(Waiting(i)) <= Cardinality(Sweepers)
    BY DEF ToldInv
  <1>5. told'[i] + Cardinality(Waiting(i)') <= Cardinality(Sweepers)
    BY <1>1, <1>2, <1>3, <1>4
  <1>6. told'[i] > 0 => told'[i] = told[i] /\ told[i] > 0
    BY <1>1
  <1> QED  BY <1>5, <1>6 DEF ToldInv

LEMMA ContinueTold ==
    ASSUME TypeInv, ToldInv, IsFiniteSet(Sweepers), NEW h \in Handlers, Continue(h)
    PROVE  ToldInv'
  <1> DEFINE t == handler[h]
             i == handler[h].i
  <1>0. t \in HandlerState
    BY DEF TypeInv, TypeOK
  <1>a. t.op # "idle" => i \in Incidents /\ incident[i] \in IncidentRow
    BY <1>0, HandlerShape DEF TypeInv, TypeOK, Known, Exists
  <1>b. \A j : Waiting(j)' = Waiting(j)
    BY DEF Continue, CategorizeWrite, AssignWrite, TransitionWrite, ReopenWrite, Abort, Finish,
           Waiting, Sweeping
  <1>1. ASSUME NEW row \in IncidentRow, i \in Incidents, incident[i] \in IncidentRow,
               incident' = [incident EXCEPT ![i] = row],
               row.notified = incident[i].notified, UNCHANGED told
        PROVE  ToldInv'
    <2> SUFFICES ASSUME NEW j \in Incidents
                 PROVE  /\ told'[j] > 0 => Exists(j)' /\ incident'[j].notified
                        /\ told'[j] + Cardinality(Waiting(j)') <= Cardinality(Sweepers)
      BY DEF ToldInv
    <2>1. Exists(j) /\ incident[j].notified => Exists(j)' /\ incident'[j].notified
      BY <1>1, NoRowAssumption DEF Exists, TypeInv, TypeOK
    <2> QED  BY <1>1, <1>b, <2>1, ToldQuiet
  <1>2. CASE CategorizeWrite(h)
    <2>1. t \in CategorizeTxn /\ incident[i] \in IncidentRow /\ i \in Incidents
      BY <1>0, <1>2, <1>a, HandlerShape DEF CategorizeWrite
    <2>2. Regraded(incident[i], t) \in IncidentRow
      BY <2>1, RowTypes
    <2>4. Regraded(incident[i], t).notified = incident[i].notified
      BY <2>1, RowEffects
    <2>3. incident' = [incident EXCEPT ![i] = Regraded(incident[i], t)] /\ UNCHANGED told
      BY <1>2, <2>1 DEF CategorizeWrite, TypeInv, TypeOK
    <2> QED  BY <1>1, <2>1, <2>2, <2>3, <2>4
  <1>3. CASE AssignWrite(h)
    <2> DEFINE row == [incident[i] EXCEPT !.assigned = TRUE, !.status = t.to]
    <2>1. t \in AssignTxn /\ incident[i] \in IncidentRow /\ i \in Incidents
      BY <1>0, <1>3, <1>a, HandlerShape DEF AssignWrite
    <2>2. row \in IncidentRow
      BY <2>1, RowTypes
    <2>4. row.notified = incident[i].notified
      BY <2>1 DEF IncidentRow
    <2>3. incident' = [incident EXCEPT ![i] = row] /\ UNCHANGED told
      BY <1>3, <2>1 DEF AssignWrite, TypeInv, TypeOK
    <2> HIDE DEF row
    <2> QED  BY <1>1, <2>1, <2>2, <2>3, <2>4
  <1>4. CASE TransitionWrite(h)
    <2>1. t \in MoveTxn /\ incident[i] \in IncidentRow /\ i \in Incidents
      BY <1>0, <1>4, <1>a, HandlerShape DEF TransitionWrite
    <2>2. Moved(incident[i], t.to) \in IncidentRow
      BY <2>1, RowTypes DEF MoveTxn
    <2>4. Moved(incident[i], t.to).notified = incident[i].notified
      BY <2>1, RowEffects
    <2>3. incident' = [incident EXCEPT ![i] = Moved(incident[i], t.to)] /\ UNCHANGED told
      BY <1>4, <2>1 DEF TransitionWrite, TypeInv, TypeOK
    <2> QED  BY <1>1, <2>1, <2>2, <2>3, <2>4
  <1>5. CASE ReopenWrite(h)
    <2>1. i \in Incidents
      BY <1>5, <1>a DEF ReopenWrite
    <2> SUFFICES ASSUME NEW j \in Incidents
                 PROVE  /\ told'[j] > 0 => Exists(j)' /\ incident'[j].notified
                        /\ told'[j] + Cardinality(Waiting(j)') <= Cardinality(Sweepers)
      BY DEF ToldInv
    <2>2. /\ told' = [told EXCEPT ![i] = 0]
          /\ incident' = [incident EXCEPT ![i] = Reopened(@)]
      BY <1>5 DEF ReopenWrite
    <2>3. CASE j = i
      <3>1. told'[j] = 0
        BY <2>1, <2>2, <2>3 DEF TypeInv, TypeOK
      <3>2. Cardinality(Waiting(j)') <= Cardinality(Sweepers) /\ Cardinality(Waiting(j)') \in Nat
        BY <1>b, WaitingFinite
      <3> QED  BY <3>1, <3>2
    <2>4. CASE j # i
      <3>1. told'[j] = told[j] /\ incident'[j] = incident[j]
        BY <2>1, <2>2, <2>4 DEF TypeInv, TypeOK
      <3> QED  BY <1>b, <3>1, ToldQuiet DEF Exists
    <2> QED  BY <2>3, <2>4
  <1>6. CASE Abort(h)
    BY <1>6, <1>b, ToldQuiet DEF Abort, ToldInv, Exists
  <1> QED  BY <1>2, <1>3, <1>4, <1>5, <1>6 DEF Continue

LEMMA SweepTold ==
    ASSUME TypeInv, ToldInv, IsFiniteSet(Sweepers), NEW s \in Sweepers,
           Sweep(s) \/ SweepFails(s)
    PROVE  ToldInv'
  <1>0. sweeper[s] \in SweepState
    BY DEF TypeInv, TypeOK
  <1>a. \A next : SweepTo(s, next) =>
           /\ sweeper'[s] = next
           /\ \A r \in Sweepers : r # s => sweeper'[r] = sweeper[r]
    BY DEF SweepTo, TypeInv, TypeOK
  <1> SUFFICES ASSUME NEW j \in Incidents
               PROVE  /\ told'[j] > 0 => Exists(j)' /\ incident'[j].notified
                      /\ told'[j] + Cardinality(Waiting(j)') <= Cardinality(Sweepers)
    BY DEF ToldInv
  <1>1. CASE SweepStart(s)
    <2>1. Waiting(j)' \subseteq Waiting(j)
      BY <1>1, <1>a DEF SweepStart, Waiting, Sweeping
    <2> QED  BY <1>1, <2>1, ToldQuiet DEF SweepStart, Exists
  <1>2. CASE ClearFlags(s)
    <2>1. Waiting(j)' \subseteq Waiting(j)
      BY <1>2, <1>a DEF ClearFlags, Waiting, Sweeping
    <2>2. Exists(j) /\ incident[j].notified => Exists(j)' /\ incident'[j].notified
      <3>1. ASSUME Exists(j) PROVE /\ incident[j] \in IncidentRow
                                   /\ [incident[j] EXCEPT !.overdue = FALSE] \in IncidentRow
        BY <3>1, RowTypes DEF Exists, TypeInv, TypeOK
      <3>2. Exists(j) => incident'[j] \in {incident[j], [incident[j] EXCEPT !.overdue = FALSE]}
        BY <1>2 DEF ClearFlags
      <3> QED  BY <3>1, <3>2, NoRowAssumption DEF Exists, IncidentRow
    <2> QED  BY <1>2, <2>1, <2>2, ToldQuiet DEF ClearFlags
  <1>3. CASE FindDue(s)
    <2> DEFINE due == Due(sweeper[s].asOf)
    <2>0. due \subseteq Incidents /\ UNCHANGED <<incident, told>>
             /\ SweepTo(s, FlagOrRest(due))
      BY <1>3 DEF FindDue, Due
    <2>1. CASE j \in due
      <3>1. told[j] = 0
        BY <2>1 DEF Due, ToldInv, TypeInv, TypeOK
      <3>2. Waiting(j)' \subseteq Sweepers
        BY DEF Waiting
      <3>3. /\ Cardinality(Waiting(j)') \in Nat /\ Cardinality(Sweepers) \in Nat
            /\ Cardinality(Waiting(j)') <= Cardinality(Sweepers)
        BY <3>2, FS_Subset, FS_CardinalityType
      <3> QED  BY <2>0, <3>1, <3>3
    <2>2. CASE j \notin due
      <3> HIDE DEF due
      <3>1. FlagOrRest(due).op = "flag" => j \notin FlagOrRest(due).todo
        BY <2>0, <2>2, FlagOrRestType
      <3>2. Waiting(j)' \subseteq Waiting(j)
        BY <1>a, <2>0, <3>1 DEF Waiting, Sweeping
      <3> QED  BY <2>0, <3>2, ToldQuiet DEF Exists
    <2> QED  BY <2>1, <2>2
  <1>4. CASE FlagNext(s)
    <2>1. sweeper[s].todo \subseteq Incidents /\ \A i \in sweeper[s].todo : Exists(i)
      BY <1>0, <1>4, SweepShape DEF FlagNext, Sweeping, TypeInv, Known
    <2>2. PICK i \in sweeper[s].todo :
             /\ incident' = [incident EXCEPT ![i] = Flagged(@)]
             /\ told' = [told EXCEPT ![i] = @ + 1]
             /\ SweepTo(s, FlagOrRest(sweeper[s].todo \ {i}))
      BY <1>4 DEF FlagNext
    <2>3. i \in Incidents /\ incident[i] \in IncidentRow
      BY <2>1 DEF TypeInv, TypeOK, Exists
    <2> DEFINE next == FlagOrRest(sweeper[s].todo \ {i})
    <2>4. /\ next.op \in {"idle", "flag"}
          /\ next.op = "flag" => next.todo = sweeper[s].todo \ {i}
      BY <2>1, FlagOrRestType
    <2>5. sweeper'[s] = next /\ \A r \in Sweepers : r # s => sweeper'[r] = sweeper[r]
      BY <1>a, <2>2
    <2> HIDE DEF next
    <2>6. CASE j = i
      <3>1. incident'[j] = Flagged(incident[j]) /\ told'[j] = told[j] + 1 /\ told[j] \in Nat
        BY <2>2, <2>3, <2>6 DEF TypeInv, TypeOK
      <3>2. Flagged(incident[j]) \in IncidentRow /\ Flagged(incident[j]).notified
        BY <2>3, <2>6, RowTypes, RowEffects
      <3>3. s \in Waiting(j) /\ Waiting(j)' \subseteq Waiting(j) \ {s}
        BY <1>4, <2>2, <2>4, <2>5, <2>6 DEF FlagNext, Waiting, Sweeping
      <3>4. /\ IsFiniteSet(Waiting(j)) /\ Cardinality(Waiting(j)) \in Nat
            /\ Cardinality(Sweepers) \in Nat
        BY WaitingFinite
      <3>5. /\ IsFiniteSet(Waiting(j) \ {s})
            /\ Cardinality(Waiting(j) \ {s}) = Cardinality(Waiting(j)) - 1
        BY <3>3, <3>4, FS_RemoveElement
      <3>6. /\ Cardinality(Waiting(j)') \in Nat
            /\ Cardinality(Waiting(j)') <= Cardinality(Waiting(j)) - 1
        BY <3>3, <3>5, FS_Subset, FS_CardinalityType
      <3>7. told[j] + Cardinality(Waiting(j)) <= Cardinality(Sweepers)
        BY DEF ToldInv
      <3>8. told'[j] + Cardinality(Waiting(j)') <= Cardinality(Sweepers)
        BY <3>1, <3>4, <3>6, <3>7
      <3> QED  BY <3>1, <3>2, <3>8, NoRowAssumption DEF Exists
    <2>7. CASE j # i
      <3>1. incident'[j] = incident[j] /\ told'[j] = told[j]
        BY <2>2, <2>7 DEF TypeInv, TypeOK
      <3>2. Waiting(j)' \subseteq Waiting(j)
        BY <1>4, <2>4, <2>5 DEF FlagNext, Waiting, Sweeping
      <3> QED  BY <3>1, <3>2, ToldQuiet DEF Exists
    <2> QED  BY <2>6, <2>7
  <1>5. CASE SweepFails(s)
    <2>1. Waiting(j)' \subseteq Waiting(j)
      BY <1>5 DEF SweepFails, Waiting, Sweeping, Idle, TypeInv, TypeOK
    <2> QED  BY <1>5, <2>1, ToldQuiet DEF SweepFails, Exists
  <1> QED  BY <1>1, <1>2, <1>3, <1>4, <1>5 DEF Sweep, GoOn

LEMMA ToldNext ==
    ASSUME IsFiniteSet(Sweepers)
    PROVE  TypeInv /\ ToldInv /\ [Next]_vars => ToldInv'
  <1> SUFFICES ASSUME TypeInv, ToldInv, [Next]_vars PROVE ToldInv'
    OBVIOUS
  <1>1. ASSUME NEW i \in Incidents, NEW grade \in Grades, CreateIncident(i, grade)
        PROVE  ToldInv'
    <2> SUFFICES ASSUME NEW j \in Incidents
                 PROVE  /\ told'[j] > 0 => Exists(j)' /\ incident'[j].notified
                        /\ told'[j] + Cardinality(Waiting(j)') <= Cardinality(Sweepers)
      BY DEF ToldInv
    <2>1. Exists(j) => incident'[j] = incident[j]
      BY <1>1 DEF CreateIncident, Exists, TypeInv, TypeOK
    <2>2. Waiting(j)' = Waiting(j) /\ told' = told
      BY <1>1 DEF CreateIncident, Waiting, Sweeping
    <2> QED  BY <2>1, <2>2, ToldQuiet DEF Exists
  <1>2. ASSUME NEW i \in Incidents, NEW h \in Handlers, Begin(h, i) PROVE ToldInv'
    <2>1. UNCHANGED <<incident, told, sweeper>>
      BY <1>2 DEF Begin, CategorizeRead, AssignRead, TransitionRead, ReopenRead, Keep
    <2> QED  BY <2>1 DEF ToldInv, Waiting, Sweeping, Exists
  <1>3. ASSUME NEW i \in Incidents, Ages(i) PROVE ToldInv'
    BY <1>3 DEF Ages, ToldInv, Waiting, Sweeping, Exists
  <1>4. ASSUME NEW i \in Incidents, WindowCloses(i) PROVE ToldInv'
    <2> SUFFICES ASSUME NEW j \in Incidents
                 PROVE  /\ told'[j] > 0 => Exists(j)' /\ incident'[j].notified
                        /\ told'[j] + Cardinality(Waiting(j)') <= Cardinality(Sweepers)
      BY DEF ToldInv
    <2>1. [incident[i] EXCEPT !.closedAt = "old"] \in IncidentRow /\ incident[i] \in IncidentRow
      BY <1>4, RowTypes DEF WindowCloses, TypeInv, TypeOK, Exists
    <2>2. incident' = [incident EXCEPT ![i] = [incident[i] EXCEPT !.closedAt = "old"]]
      BY <1>4, <2>1 DEF WindowCloses, TypeInv, TypeOK
    <2>3. Exists(j) /\ incident[j].notified => Exists(j)' /\ incident'[j].notified
      BY <2>1, <2>2, NoRowAssumption DEF Exists, TypeInv, TypeOK, IncidentRow
    <2>4. Waiting(j)' = Waiting(j) /\ told' = told
      BY <1>4 DEF WindowCloses, Waiting, Sweeping
    <2> QED  BY <2>3, <2>4, ToldQuiet
  <1>5. ASSUME NEW h \in Handlers, Continue(h) PROVE ToldInv'
    BY <1>5, ContinueTold
  <1>6. ASSUME NEW s \in Sweepers, Sweep(s) \/ SweepFails(s) PROVE ToldInv'
    BY <1>6, SweepTold
  <1>7. CASE UNCHANGED vars
    BY <1>7 DEF vars, ToldInv, Waiting, Sweeping, Exists
  <1> QED  BY <1>1, <1>2, <1>3, <1>4, <1>5, <1>6, <1>7 DEF Next

LEMMA ToldInit ==
    ASSUME IsFiniteSet(Sweepers)
    PROVE  Init => ToldInv
  <1> SUFFICES ASSUME Init, NEW i \in Incidents
               PROVE  told[i] = 0 /\ told[i] + Cardinality(Waiting(i)) <= Cardinality(Sweepers)
    BY DEF ToldInv
  <1>1. told[i] = 0
    BY DEF Init
  <1> QED  BY <1>1, WaitingFinite

(* Until it is reopened an incident is told of at most once for each sweep
   that may be under way at once, whatever the requests and the other sweeps
   do: the stamp that the flag sets keeps every later search from finding it
   (sweep.ts:14-17). *)
THEOREM ToldPerSweep ==
    ASSUME IsFiniteSet(Sweepers)
    PROVE  Spec => []ToldOncePerSweep
  <1>1. TypeInv /\ ToldInv => ToldOncePerSweep
    <2> SUFFICES ASSUME TypeInv, ToldInv, NEW i \in Incidents
                 PROVE  told[i] <= Cardinality(Sweepers)
      BY DEF ToldOncePerSweep
    <2>1. told[i] \in Nat /\ told[i] + Cardinality(Waiting(i)) <= Cardinality(Sweepers)
      BY DEF TypeInv, TypeOK, ToldInv
    <2> QED  BY <2>1, WaitingFinite
  <1>2. Init => ToldInv
    BY ToldInit
  <1>3. TypeInv /\ ToldInv /\ [Next]_vars => ToldInv'
    BY ToldNext
  <1> QED  BY <1>1, <1>2, <1>3, TypeInvariant, PTL DEF Spec

-----------------------------------------------------------------------------
(* Until requests overlap.  A request that runs alone finds the row as it  *)
(* has read it, whatever the sweep and the clock have done to it between   *)
(* the two: neither touches a column that the requests go by.              *)

(* What the request t has read of its incident is still so. *)
Agrees(t) ==
    LET status == incident[t.i].status
    IN  /\ t.op = "categorize" => (t.locked <=> status \notin Unlocked)
        /\ t.op = "assign" => /\ status \in Assignable
                              /\ t.to = IF status = "NEW" THEN "ASSIGNED" ELSE status
        /\ t.op = "transition" => MayMove(status, t.to)
        /\ t.op = "reopen" => "IN_PROGRESS" \in INCIDENT_TRANSITIONS[status]

OneInFlight == \A g, h \in Handlers : handler[g] # Idle /\ handler[h] # Idle => g = h

AllAgree == \A h \in Handlers : handler[h] # Idle => Agrees(handler[h])

AloneInv == ~overlapped => StampsMatchStatus /\ OneInFlight /\ AllAgree

(* One request in flight and none that overlapped is the same, for the set of
   handlers is finite. *)
LEMMA AtMostOne ==
    ASSUME NEW S, IsFiniteSet(S), ~(Cardinality(S) > 1), NEW x \in S, NEW y \in S
    PROVE  x = y
  <1>1. Cardinality(S) \in Nat /\ Cardinality(S) # 0
    BY FS_CardinalityType, FS_EmptySet
  <1>2. Cardinality(S) = 1
    BY <1>1
  <1> QED  BY <1>2, FS_Singleton

LEMMA NotOverlapping ==
    ASSUME IsFiniteSet(Handlers), MCNext, ~overlapped'
    PROVE  ~overlapped /\ OneInFlight'
  <1> DEFINE busy == {h \in Handlers : handler'[h] # Idle}
  <1>1. ~overlapped /\ ~(Cardinality(busy) > 1)
    BY DEF MCNext, InFlight
  <1>2. IsFiniteSet(busy)
    BY FS_Subset
  <1>3. \A g, h \in busy : g = h
    <2> HIDE DEF busy
    <2> QED  BY <1>1, <1>2, AtMostOne
  <1> QED  BY <1>1, <1>3 DEF OneInFlight

(* The columns of incident i that requests go by stay as they are. *)
Kept(i) ==
    /\ Exists(i)'
    /\ incident'[i].status = incident[i].status
    /\ incident'[i].dueAt = incident[i].dueAt
    /\ incident'[i].resolvedAt = incident[i].resolvedAt
    /\ incident'[i].closedAt # "none" <=> incident[i].closedAt # "none"

Orderly == StampsMatchStatus' /\ AllAgree' /\ FrozenStep /\ TransitionStep

(* A step that keeps every row, or makes a fresh one, and starts only what it
   has just read. *)
LEMMA KeptOrderly ==
    ASSUME TypeInv, TypeInv', StampsMatchStatus,
           \A i \in Incidents : Exists(i) => Kept(i),
           \A i \in Incidents : Exists(i)' /\ ~Exists(i) =>
              /\ incident'[i].status = "NEW" /\ ~incident'[i].resolvedAt
              /\ incident'[i].closedAt = "none",
           \A h \in Handlers, t \in HandlerState :
              handler'[h] = t /\ t # Idle => Exists(t.i) /\ Agrees(t)
    PROVE  Orderly
  <1>1. StampsMatchStatus'
    BY DEF StampsMatchStatus, Kept, TERMINAL
  <1>2. AllAgree'
    <2> SUFFICES ASSUME NEW h \in Handlers, handler'[h] # Idle PROVE Agrees(handler[h])'
      BY DEF AllAgree
    <2>1. PICK t \in HandlerState : handler'[h] = t
      BY DEF TypeInv, TypeOK
    <2>2. t.i \in Incidents /\ Exists(t.i) /\ Agrees(t)
      BY <2>1, HandlerShape
    <2>3. incident'[t.i].status = incident[t.i].status
      BY <2>2 DEF Kept
    <2> QED  BY <2>1, <2>2, <2>3 DEF Agrees
  <1>3. FrozenStep /\ TransitionStep
    BY DEF FrozenStep, TransitionStep, Kept
  <1> QED  BY <1>1, <1>2, <1>3 DEF Orderly

(* What the row of a request that runs alone must look like after its write. *)
LEMMA WriteOrderly ==
    ASSUME TypeInv, StampsMatchStatus, OneInFlight,
           NEW h \in Handlers, handler[h] # Idle, Finish(h),
           NEW i \in Incidents, NEW row \in IncidentRow, NEW old \in IncidentRow,
           incident[i] = old, incident' = [incident EXCEPT ![i] = row],
           row.resolvedAt <=> row.status \in TERMINAL,
           row.closedAt # "none" <=> row.status = "CLOSED",
           old.status \notin Unlocked => row.dueAt = old.dueAt,
           row.status # old.status =>
              /\ row.status \in INCIDENT_TRANSITIONS[old.status]
              /\ old.status \in TERMINAL /\ row.status = "IN_PROGRESS" =>
                    ~row.notified /\ ~row.overdue
    PROVE  Orderly
  <1>1. \A j \in Incidents : incident'[j] = IF j = i THEN row ELSE incident[j]
    BY DEF TypeInv, TypeOK
  <1>2. \A g \in Handlers : handler'[g] = Idle
    BY DEF TypeInv, TypeOK, OneInFlight, Finish
  <1>3. StampsMatchStatus'
    BY <1>1 DEF StampsMatchStatus, Exists
  <1>4. FrozenStep /\ TransitionStep
    BY <1>1 DEF FrozenStep, TransitionStep
  <1> QED  BY <1>2, <1>3, <1>4 DEF Orderly, AllAgree

LEMMA ContinueOrderly ==
    ASSUME TypeInv, TypeInv', StampsMatchStatus, OneInFlight, AllAgree,
           NEW h \in Handlers, Continue(h)
    PROVE  Orderly
  <1> DEFINE t == handler[h]
             i == handler[h].i
             old == incident[handler[h].i]
  <1>0. t \in HandlerState
    BY DEF TypeInv, TypeOK
  <1>a. t.op # "idle" => /\ t # Idle /\ Agrees(t) /\ i \in Incidents
                         /\ old \in IncidentRow /\ Exists(i)
    BY <1>0, HandlerShape DEF TypeInv, TypeOK, Known, Exists, AllAgree
  <1>b. Exists(i) /\ i \in Incidents =>
           /\ old.resolvedAt <=> old.status \in TERMINAL
           /\ old.closedAt # "none" <=> old.status = "CLOSED"
    BY DEF StampsMatchStatus
  <1>1. CASE CategorizeWrite(h)
    <2>1. /\ t \in CategorizeTxn /\ old \in IncidentRow /\ i \in Incidents /\ Exists(i)
          /\ Agrees(t) /\ t # Idle /\ t.op = "categorize"
      BY <1>0, <1>1, <1>a, HandlerShape DEF CategorizeWrite
    <2>2. Regraded(old, t) \in IncidentRow
      BY <2>1, RowTypes
    <2>3. incident' = [incident EXCEPT ![i] = Regraded(old, t)] /\ Finish(h)
      BY <1>1, <2>1 DEF CategorizeWrite, TypeInv, TypeOK
    <2>4. /\ Regraded(old, t).status = old.status
          /\ Regraded(old, t).resolvedAt = old.resolvedAt
          /\ Regraded(old, t).closedAt = old.closedAt
          /\ t.locked => Regraded(old, t).dueAt = old.dueAt
      BY <2>1, RowEffects
    <2>5. old.status \notin Unlocked => t.locked
      BY <2>1 DEF Agrees
    <2> HIDE DEF t, i, old
    <2>6. /\ Regraded(old, t).resolvedAt <=> Regraded(old, t).status \in TERMINAL
          /\ Regraded(old, t).closedAt # "none" <=> Regraded(old, t).status = "CLOSED"
          /\ old.status \notin Unlocked => Regraded(old, t).dueAt = old.dueAt
      BY <1>b, <2>1, <2>4, <2>5
    <2> QED  BY <2>1, <2>2, <2>3, <2>4, <2>6, WriteOrderly DEF t, i, old
  <1>2. CASE AssignWrite(h)
    <2> DEFINE row == [old EXCEPT !.assigned = TRUE, !.status = t.to]
    <2>1. /\ t \in AssignTxn /\ old \in IncidentRow /\ i \in Incidents /\ Exists(i)
          /\ Agrees(t) /\ t # Idle /\ t.op = "assign"
      BY <1>0, <1>2, <1>a, HandlerShape DEF AssignWrite
    <2>2. row \in IncidentRow
      BY <2>1, RowTypes
    <2>3. incident' = [incident EXCEPT ![i] = row] /\ Finish(h)
      BY <1>2, <2>1 DEF AssignWrite, TypeInv, TypeOK
    <2>4. /\ row.status = t.to /\ row.resolvedAt = old.resolvedAt
          /\ row.closedAt = old.closedAt /\ row.dueAt = old.dueAt
      BY <2>1 DEF IncidentRow
    <2>5. /\ old.status \in Status \ TERMINAL
          /\ t.to = IF old.status = "NEW" THEN "ASSIGNED" ELSE old.status
      BY <2>1 DEF Agrees, Assignable
    <2> HIDE DEF t, i, old, row
    <2>6. /\ row.status \notin TERMINAL /\ old.status \notin TERMINAL
          /\ row.status # old.status => row.status \in INCIDENT_TRANSITIONS[old.status]
      BY <2>4, <2>5 DEF Status, TERMINAL, INCIDENT_TRANSITIONS
    <2>7. /\ row.resolvedAt <=> row.status \in TERMINAL
          /\ row.closedAt # "none" <=> row.status = "CLOSED"
      BY <1>b, <2>1, <2>4, <2>6 DEF TERMINAL
    <2> QED  BY <2>1, <2>2, <2>3, <2>4, <2>6, <2>7, WriteOrderly DEF t, i, old
  <1>3. CASE TransitionWrite(h)
    <2> DEFINE row == Moved(old, t.to)
    <2>1. /\ t \in MoveTxn /\ old \in IncidentRow /\ i \in Incidents /\ Exists(i)
          /\ Agrees(t) /\ t # Idle /\ t.op = "transition"
      BY <1>0, <1>3, <1>a, HandlerShape DEF TransitionWrite
    <2>2. row \in IncidentRow
      BY <2>1, RowTypes DEF MoveTxn
    <2>3. incident' = [incident EXCEPT ![i] = row] /\ Finish(h)
      BY <1>3, <2>1 DEF TransitionWrite, TypeInv, TypeOK
    <2>4. /\ row.status = t.to
          /\ row.resolvedAt <=> old.resolvedAt \/ t.to = "RESOLVED"
          /\ row.closedAt = IF t.to = "CLOSED" THEN "recent" ELSE old.closedAt
          /\ row.dueAt = old.dueAt
      BY <2>1, RowEffects
    <2>5. MayMove(old.status, t.to) /\ old.status \in Status /\ t.to \in Target
      BY <2>1 DEF Agrees, IncidentRow, MoveTxn
    <2> HIDE DEF t, i, old, row
    <2>6. \/ t.to = "IN_PROGRESS" /\ old.status = "ASSIGNED"
          \/ t.to = "RESOLVED" /\ old.status = "IN_PROGRESS"
          \/ t.to = "CLOSED" /\ old.status = "RESOLVED"
      BY <2>5 DEF MayMove, Status, Target, INCIDENT_TRANSITIONS
    <2>7. /\ row.resolvedAt <=> row.status \in TERMINAL
          /\ row.closedAt # "none" <=> row.status = "CLOSED"
      BY <1>b, <2>1, <2>4, <2>6 DEF TERMINAL
    <2>8. /\ row.status \in INCIDENT_TRANSITIONS[old.status]
          /\ ~(old.status \in TERMINAL /\ row.status = "IN_PROGRESS")
      BY <2>4, <2>6 DEF TERMINAL, INCIDENT_TRANSITIONS
    <2> QED  BY <2>1, <2>2, <2>3, <2>4, <2>7, <2>8, WriteOrderly DEF t, i, old
  <1>4. CASE ReopenWrite(h)
    <2> DEFINE row == Reopened(old)
    <2>1. /\ t \in ReopenTxn /\ old \in IncidentRow /\ i \in Incidents /\ Exists(i)
          /\ Agrees(t) /\ t # Idle /\ t.op = "reopen"
      BY <1>0, <1>4, <1>a, HandlerShape DEF ReopenWrite
    <2>2. row \in IncidentRow
      BY <2>1, RowTypes
    <2>3. incident' = [incident EXCEPT ![i] = row] /\ Finish(h)
      BY <1>4, <2>1 DEF ReopenWrite, TypeInv, TypeOK
    <2>4. /\ row.status = "IN_PROGRESS" /\ ~row.resolvedAt /\ row.closedAt = "none"
          /\ row.dueAt = old.dueAt /\ ~row.notified /\ ~row.overdue
      BY <2>1, RowEffects
    <2>5. "IN_PROGRESS" \in INCIDENT_TRANSITIONS[old.status]
      BY <2>1 DEF Agrees
    <2> HIDE DEF t, i, old, row
    <2>6. /\ row.resolvedAt <=> row.status \in TERMINAL
          /\ row.closedAt # "none" <=> row.status = "CLOSED"
      BY <2>4 DEF TERMINAL
    <2> QED  BY <2>1, <2>2, <2>3, <2>4, <2>5, <2>6, WriteOrderly DEF t, i, old
  <1>5. CASE Abort(h)
    <2>1. UNCHANGED incident
      BY <1>5 DEF Abort
    <2>2. \A g \in Handlers, u \in HandlerState : handler'[g] = u /\ u # Idle => handler[g] = u
      BY <1>5 DEF Abort, Finish, TypeInv, TypeOK
    <2>3. \A g \in Handlers, u \in HandlerState :
             handler'[g] = u /\ u # Idle => Exists(u.i) /\ Agrees(u)
      BY <2>2 DEF AllAgree, TypeInv, Known
    <2>4. \A j \in Incidents : Exists(j) => Kept(j)
      BY <2>1 DEF Kept, Exists
    <2> QED  BY <2>1, <2>3, <2>4, KeptOrderly DEF Exists
  <1> QED  BY <1>1, <1>2, <1>3, <1>4, <1>5 DEF Continue

(* What a request that has just read its incident keeps agrees with it. *)
LEMMA BeginOrderly ==
    ASSUME TypeInv, TypeInv', StampsMatchStatus, AllAgree,
           NEW h \in Handlers, NEW i \in Incidents, Begin(h, i)
    PROVE  Orderly
  <1>1. UNCHANGED incident
    BY DEF Begin, CategorizeRead, AssignRead, TransitionRead, ReopenRead, Keep
  <1>2. SUFFICES ASSUME NEW t \in HandlerState, Keep(h, t), Exists(i), t.i = i, Agrees(t)
                 PROVE  Orderly
    <2>1. ASSUME NEW grade \in Grades, CategorizeRead(h, i, grade) PROVE Orderly
      <3> DEFINE t == [op |-> "categorize", i |-> i, grade |-> grade,
                       locked |-> incident[i].status \notin Unlocked]
      <3>1. t \in HandlerState /\ Agrees(t)
        BY DEF HandlerState, CategorizeTxn, Agrees
      <3> QED  BY <1>2, <2>1, <3>1 DEF CategorizeRead, Found
    <2>2. CASE AssignRead(h, i)
      <3> DEFINE t == [op |-> "assign", i |-> i,
                       to |-> IF incident[i].status = "NEW" THEN "ASSIGNED" ELSE incident[i].status]
      <3>1. t \in HandlerState /\ Agrees(t)
        BY <2>2 DEF AssignRead, Assignable, Status, HandlerState, AssignTxn, Agrees
      <3> QED  BY <1>2, <2>2, <3>1 DEF AssignRead, Found
    <2>3. ASSUME NEW to \in Target, TransitionRead(h, i, to) PROVE Orderly
      <3> DEFINE t == [op |-> "transition", i |-> i, to |-> to]
      <3>1. t \in HandlerState /\ Agrees(t)
        BY <2>3 DEF TransitionRead, HandlerState, MoveTxn, Agrees
      <3> QED  BY <1>2, <2>3, <3>1 DEF TransitionRead, Found
    <2>4. CASE ReopenRead(h, i)
      <3> DEFINE t == [op |-> "reopen", i |-> i]
      <3>1. t \in HandlerState /\ Agrees(t)
        BY <2>4 DEF ReopenRead, HandlerState, ReopenTxn, Agrees
      <3> QED  BY <1>2, <2>4, <3>1 DEF ReopenRead, Found
    <2> QED  BY <2>1, <2>2, <2>3, <2>4 DEF Begin
  <1>3. \A g \in Handlers : handler'[g] = IF g = h THEN t ELSE handler[g]
    BY <1>2 DEF Keep, TypeInv, TypeOK
  <1>4. \A g \in Handlers, u \in HandlerState :
           handler'[g] = u /\ u # Idle => Exists(u.i) /\ Agrees(u)
    BY <1>2, <1>3 DEF AllAgree, TypeInv, Known
  <1>5. \A j \in Incidents : Exists(j) => Kept(j)
    BY <1>1 DEF Kept, Exists
  <1> QED  BY <1>1, <1>4, <1>5, KeptOrderly DEF Exists

(* The sweep touches only the flag and its stamp. *)
LEMMA SweepKeeps ==
    ASSUME TypeInv, TypeInv', NEW s \in Sweepers, Sweep(s) \/ SweepFails(s)
    PROVE  \A j \in Incidents : /\ Exists(j) => Kept(j)
                                /\ Exists(j)' => Exists(j)
  <1>0. \A j \in Incidents : Exists(j) => incident[j] \in IncidentRow
    BY DEF TypeInv, TypeOK, Exists
  <1>1. CASE UNCHANGED incident
    BY <1>1 DEF Kept, Exists
  <1>2. CASE ClearFlags(s)
    <2> SUFFICES ASSUME NEW j \in Incidents
                 PROVE  /\ Exists(j) => Kept(j)
                        /\ Exists(j)' => Exists(j)
      OBVIOUS
    <2>1. CASE ~Exists(j)
      BY <1>2, <2>1 DEF ClearFlags, Exists
    <2>2. CASE Exists(j)
      <3> DEFINE old == incident[j]
                 row == [old EXCEPT !.overdue = FALSE]
      <3>1. old \in IncidentRow /\ row \in IncidentRow
        BY <1>0, <2>2, RowTypes
      <3>2. /\ row.status = old.status /\ row.dueAt = old.dueAt
            /\ row.resolvedAt = old.resolvedAt /\ row.closedAt = old.closedAt
        BY <3>1 DEF IncidentRow
      <3>3. incident'[j] = row \/ incident'[j] = old
        BY <1>2 DEF ClearFlags
      <3> HIDE DEF row
      <3> QED  BY <2>2, <3>1, <3>2, <3>3, NoRowAssumption DEF Kept, Exists
    <2> QED  BY <2>1, <2>2
  <1>3. CASE FlagNext(s)
    <2>1. sweeper[s] \in SweepState
      BY DEF TypeInv, TypeOK
    <2>2. sweeper[s].todo \subseteq Incidents /\ \A i \in sweeper[s].todo : Exists(i)
      BY <2>1, <1>3, SweepShape DEF FlagNext, Sweeping, TypeInv, Known
    <2>3. PICK i \in sweeper[s].todo : incident' = [incident EXCEPT ![i] = Flagged(@)]
      BY <1>3 DEF FlagNext
    <2>4. i \in Incidents /\ incident[i] \in IncidentRow
      BY <1>0, <2>2, <2>3
    <2> DEFINE old == incident[i]
               row == Flagged(old)
    <2>5. row \in IncidentRow
      BY <2>4, RowTypes
    <2>6. /\ row.status = old.status /\ row.dueAt = old.dueAt
          /\ row.resolvedAt = old.resolvedAt /\ row.closedAt = old.closedAt
      BY <2>4, RowEffects
    <2>7. \A j \in Incidents : incident'[j] = IF j = i THEN row ELSE incident[j]
      BY <2>3, <2>4 DEF TypeInv, TypeOK
    <2> HIDE DEF row
    <2> QED  BY <2>2, <2>3, <2>5, <2>6, <2>7, NoRowAssumption DEF Kept, Exists
  <1>4. SweepStart(s) \/ FindDue(s) \/ SweepFails(s) => UNCHANGED incident
    BY DEF SweepStart, FindDue, SweepFails
  <1> QED  BY <1>1, <1>2, <1>3, <1>4 DEF Sweep, GoOn

LEMMA NextOrderly ==
    ASSUME TypeInv, TypeInv', StampsMatchStatus, OneInFlight, AllAgree, [Next]_vars
    PROVE  Orderly
  <1>0. \A g \in Handlers, u \in HandlerState :
           handler[g] = u /\ u # Idle => Exists(u.i) /\ Agrees(u)
    BY DEF AllAgree, TypeInv, Known
  <1>1. ASSUME NEW i \in Incidents, NEW grade \in Grades, CreateIncident(i, grade)
        PROVE  Orderly
    <2>1. \A j \in Incidents : incident'[j] = IF j = i THEN Opened(grade) ELSE incident[j]
      BY <1>1 DEF CreateIncident, TypeInv, TypeOK
    <2>2. /\ Opened(grade).status = "NEW" /\ ~Opened(grade).resolvedAt
          /\ Opened(grade).closedAt = "none"
      BY DEF Opened
    <2>3. \A j \in Incidents : Exists(j) => Kept(j)
      BY <1>1, <2>1 DEF CreateIncident, Kept, Exists
    <2>4. \A j \in Incidents : Exists(j)' /\ ~Exists(j) => j = i
      BY <2>1 DEF Exists
    <2>5. UNCHANGED handler
      BY <1>1 DEF CreateIncident
    <2> QED  BY <1>0, <2>1, <2>2, <2>3, <2>4, <2>5, KeptOrderly
  <1>2. ASSUME NEW i \in Incidents, NEW h \in Handlers, Begin(h, i) PROVE Orderly
    BY <1>2, BeginOrderly
  <1>3. ASSUME NEW i \in Incidents, Ages(i) PROVE Orderly
    <2>1. UNCHANGED <<incident, handler>>
      BY <1>3 DEF Ages
    <2>2. \A j \in Incidents : Exists(j) => Kept(j)
      BY <2>1 DEF Kept, Exists
    <2> QED  BY <1>0, <2>1, <2>2, KeptOrderly DEF Exists
  <1>4. ASSUME NEW i \in Incidents, WindowCloses(i) PROVE Orderly
    <2> DEFINE old == incident[i]
               row == [old EXCEPT !.closedAt = "old"]
    <2>1. old \in IncidentRow /\ row \in IncidentRow
      BY <1>4, RowTypes DEF WindowCloses, TypeInv, TypeOK, Exists
    <2>2. /\ row.status = old.status /\ row.dueAt = old.dueAt
          /\ row.resolvedAt = old.resolvedAt /\ row.closedAt = "old"
      BY <2>1 DEF IncidentRow
    <2>3. \A j \in Incidents : incident'[j] = IF j = i THEN row ELSE incident[j]
      BY <1>4, <2>1 DEF WindowCloses, TypeInv, TypeOK
    <2>4. old.closedAt = "recent" /\ Exists(i) /\ UNCHANGED handler
      BY <1>4 DEF WindowCloses
    <2> HIDE DEF row
    <2>5. \A j \in Incidents : /\ Exists(j) => Kept(j)
                               /\ Exists(j)' => Exists(j)
      BY <2>1, <2>2, <2>3, <2>4, NoRowAssumption DEF Kept, Exists
    <2> QED  BY <1>0, <2>4, <2>5, KeptOrderly
  <1>5. ASSUME NEW h \in Handlers, Continue(h) PROVE Orderly
    BY <1>5, ContinueOrderly
  <1>6. ASSUME NEW s \in Sweepers, Sweep(s) \/ SweepFails(s) PROVE Orderly
    <2>1. \A j \in Incidents : /\ Exists(j) => Kept(j)
                               /\ Exists(j)' => Exists(j)
      BY <1>6, SweepKeeps
    <2>2. UNCHANGED handler
      BY <1>6 DEF Sweep, GoOn, SweepStart, ClearFlags, FindDue, FlagNext, SweepFails, SweepTo
    <2> QED  BY <1>0, <2>1, <2>2, KeptOrderly
  <1>7. CASE UNCHANGED vars
    <2>1. UNCHANGED <<incident, handler>>
      BY <1>7 DEF vars
    <2>2. \A j \in Incidents : Exists(j) => Kept(j)
      BY <2>1 DEF Kept, Exists
    <2> QED  BY <1>0, <2>1, <2>2, KeptOrderly DEF Exists
  <1> QED  BY <1>1, <1>2, <1>3, <1>4, <1>5, <1>6, <1>7 DEF Next

(* The history variable changes nothing of the service. *)
LEMMA AloneTypes == MCSpec => []TypeInv
  <1>1. MCInit => TypeInv
    BY TypeInit DEF MCInit
  <1>2. TypeInv /\ [MCNext]_<<vars, overlapped>> => TypeInv'
    BY TypeNext DEF MCNext, vars
  <1> QED  BY <1>1, <1>2, PTL DEF MCSpec

LEMMA AloneInit == MCInit => AloneInv
  BY DEF MCInit, Init, AloneInv, StampsMatchStatus, OneInFlight, AllAgree, Exists

LEMMA AloneNext ==
    ASSUME IsFiniteSet(Handlers), TypeInv, TypeInv', AloneInv,
           [MCNext]_<<vars, overlapped>>
    PROVE  AloneInv' /\ (~overlapped' => FrozenStep /\ TransitionStep)
  <1>1. CASE MCNext
    <2> SUFFICES ASSUME ~overlapped'
                 PROVE  (StampsMatchStatus /\ OneInFlight /\ AllAgree)'
                        /\ FrozenStep /\ TransitionStep
      BY DEF AloneInv
    <2>1. ~overlapped /\ OneInFlight'
      BY <1>1, NotOverlapping
    <2>2. Orderly
      BY <1>1, <2>1, NextOrderly DEF AloneInv, MCNext
    <2> QED  BY <2>1, <2>2 DEF Orderly
  <1>2. CASE UNCHANGED <<vars, overlapped>>
    <2> SUFFICES ASSUME ~overlapped'
                 PROVE  (StampsMatchStatus /\ OneInFlight /\ AllAgree)'
                        /\ FrozenStep /\ TransitionStep
      BY DEF AloneInv
    <2>1. ~overlapped /\ OneInFlight' /\ UNCHANGED vars
      BY <1>2 DEF AloneInv, OneInFlight, vars
    <2>2. Orderly
      BY <2>1, NextOrderly DEF AloneInv
    <2> QED  BY <2>1, <2>2 DEF Orderly
  <1> QED  BY <1>1, <1>2

LEMMA AloneInvariant ==
    ASSUME IsFiniteSet(Handlers)
    PROVE  MCSpec => []AloneInv
  <1>1. TypeInv /\ TypeInv' /\ AloneInv /\ [MCNext]_<<vars, overlapped>> => AloneInv'
    BY AloneNext
  <1> QED  BY <1>1, AloneInit, AloneTypes, PTL DEF MCSpec

(* Until two requests overlap the stamps say what the status says, whatever
   the sweep does between the read and the write of a request
   (service.ts:529-532). *)
THEOREM StampsKeptAlone ==
    ASSUME IsFiniteSet(Handlers)
    PROVE  MCSpec => []StampsAlone
  <1>1. AloneInv => StampsAlone
    BY DEF AloneInv, StampsAlone
  <1> QED  BY <1>1, AloneInvariant, PTL

(* Until two requests overlap no step moves the due date of an incident whose
   work has started (service.ts:344). *)
THEOREM FrozenKeptAlone ==
    ASSUME IsFiniteSet(Handlers)
    PROVE  MCSpec => FrozenAlone
  <1>1. TypeInv /\ TypeInv' /\ AloneInv /\ [MCNext]_<<vars, overlapped>>
           => [~overlapped' => FrozenStep]_vars
    BY AloneNext
  <1> QED  BY <1>1, AloneInvariant, AloneTypes, PTL DEF MCSpec, FrozenAlone

(* Until two requests overlap every status moves along INCIDENT_TRANSITIONS,
   and a restart leaves neither the flag nor the stamp of the old notice. *)
THEOREM TransitionsKeptAlone ==
    ASSUME IsFiniteSet(Handlers)
    PROVE  MCSpec => TransitionsAlone
  <1>1. TypeInv /\ TypeInv' /\ AloneInv /\ [MCNext]_<<vars, overlapped>>
           => [~overlapped' => TransitionStep]_vars
    BY AloneNext
  <1> QED  BY <1>1, AloneInvariant, AloneTypes, PTL DEF MCSpec, TransitionsAlone
=============================================================================
