------------------------------ MODULE Incident ------------------------------
(***************************************************************************)
(* The incident service and its overdue sweep, src/server/modules/incident.*)
(*                                                                         *)
(* A request handler reads the incident and writes it by id in one READ    *)
(* COMMITTED transaction: one action for the read and its guards, one for  *)
(* the writes and the commit.  A sweep clears flags in one statement,      *)
(* lists what is due in another, and then flags one incident per           *)
(* transaction.                                                            *)
(* An interval starts one and waits for none: it fires again while the     *)
(* last is still on, and every replica has an interval of its own.  A      *)
(* sweeper is a place for one sweep under way, whoever started it.         *)
(*                                                                         *)
(* Time is counted in SLA marks.  An incident's age is how many of the     *)
(* offsets 4 h, 24 h, 72 h and 168 h have passed since createdAt, and      *)
(* dueAt is the number of its mark: age >= dueAt says now > dueAt.         *)
(*                                                                         *)
(* The DEVELOPER hat is asked of every handler before it reads, so the     *)
(* actor is left out.                                                      *)
(***************************************************************************)
EXTENDS Naturals, FiniteSets

CONSTANTS Incidents,    \* incident ids
          Handlers,     \* concurrent request handlers
          Sweepers,     \* sweeps that may be under way at once, in all processes
          Grades,       \* the <<impact, urgency>> pairs that may be given
          MaxAge,       \* bound on SLA marks that pass: 4 are all there are
          MaxFailures,  \* bound on sweeps that fail or die half way
          NoRow         \* the answer of a query that finds nothing

Level == {"LOW", "MEDIUM", "HIGH"}

ASSUME GradesAssumption == Grades \subseteq Level \X Level
ASSUME BoundsAssumption == MaxFailures \in Nat /\ MaxAge \in 0..4

VARIABLES incident,  \* table Incident
          age,       \* SLA marks passed since createdAt
          told,      \* OVERDUE notices since the incident was last (re)opened
          handler,   \* what each in-flight request has read
          sweeper,   \* where each sweep is
          failures   \* sweeps that failed

vars == <<incident, age, told, handler, sweeper, failures>>

Status == {"NEW", "ASSIGNED", "IN_PROGRESS", "RESOLVED", "CLOSED"}

INCIDENT_TRANSITIONS ==
    [NEW         |-> {"ASSIGNED"},
     ASSIGNED    |-> {"IN_PROGRESS"},
     IN_PROGRESS |-> {"RESOLVED"},
     RESOLVED    |-> {"CLOSED", "IN_PROGRESS"},
     CLOSED      |-> {"IN_PROGRESS"}]

TERMINAL == {"RESOLVED", "CLOSED"}

\* Where POST /transition may be asked to go.
Target == {"IN_PROGRESS", "RESOLVED", "CLOSED"}

\* The statuses before work starts.
Unlocked == {"NEW", "ASSIGNED"}

Priority == {"P1", "P2", "P3", "P4"}

SLA_HOURS == [P1 |-> 1, P2 |-> 2, P3 |-> 3, P4 |-> 4]

Marks == 0..4

RANK == [LOW |-> 1, MEDIUM |-> 2, HIGH |-> 3]

priorityFor(g) ==
    LET sum == RANK[g[1]] + RANK[g[2]]
    IN  CASE sum >= 6 -> "P1" [] sum = 5 -> "P2" [] sum = 4 -> "P3" [] sum < 4 -> "P4"

IncidentRow == [status : Status, grade : Level \X Level, priority : Priority,
                dueAt : Marks, assigned : BOOLEAN, resolvedAt : BOOLEAN,
                closedAt : {"none", "recent", "old"},
                overdue : BOOLEAN, notified : BOOLEAN]

ASSUME NoRowAssumption == NoRow \notin IncidentRow

Idle == [op |-> "idle"]

CategorizeTxn == [op : {"categorize"}, i : Incidents, grade : Grades, locked : BOOLEAN]
AssignTxn     == [op : {"assign"}, i : Incidents, to : Status]
MoveTxn       == [op : {"transition"}, i : Incidents, to : Target]
ReopenTxn     == [op : {"reopen"}, i : Incidents]

HandlerState == {Idle} \cup CategorizeTxn \cup AssignTxn \cup MoveTxn \cup ReopenTxn

\* asOf is the clock a sweep read when it began.
SweepState == {Idle}
              \cup [op : {"clear", "find"}, asOf : [Incidents -> Marks]]
              \cup [op : {"flag"}, todo : SUBSET Incidents]

-----------------------------------------------------------------------------
Exists(i) == incident[i] # NoRow

\* isOverdue at the time the ages tell.
PastDue(i, ages) == incident[i].status \notin TERMINAL /\ ages[i] >= incident[i].dueAt

Found(h, i) == handler[h] = Idle /\ Exists(i)

Keep(h, txn) == /\ handler' = [handler EXCEPT ![h] = txn]
                /\ UNCHANGED <<incident, age, told, sweeper, failures>>

Finish(h) == /\ handler' = [handler EXCEPT ![h] = Idle]
             /\ UNCHANGED <<age, sweeper, failures>>

Init == /\ incident = [i \in Incidents |-> NoRow]
        /\ age = [i \in Incidents |-> 0]
        /\ told = [i \in Incidents |-> 0]
        /\ handler = [h \in Handlers |-> Idle]
        /\ sweeper = [s \in Sweepers |-> Idle]
        /\ failures = 0

-----------------------------------------------------------------------------
(* Requests *)

Opened(grade) ==
    [status |-> "NEW", grade |-> grade, priority |-> priorityFor(grade),
     dueAt |-> SLA_HOURS[priorityFor(grade)], assigned |-> FALSE,
     resolvedAt |-> FALSE, closedAt |-> "none", overdue |-> FALSE, notified |-> FALSE]

\* A guest's report is a MEDIUM, MEDIUM one.
CreateIncident(i, grade) ==
    /\ ~Exists(i)
    /\ incident' = [incident EXCEPT ![i] = Opened(grade)]
    /\ UNCHANGED <<age, told, handler, sweeper, failures>>

\* Once work has started a reason must come with it, which the caller gives.
CategorizeRead(h, i, grade) ==
    /\ Found(h, i)
    /\ Keep(h, [op |-> "categorize", i |-> i, grade |-> grade,
                locked |-> incident[i].status \notin Unlocked])

\* Mutant: the SLA clock moves whenever the grade does.
RegradedAlways(row, t) ==
    [row EXCEPT !.grade = t.grade, !.priority = priorityFor(t.grade),
                !.dueAt = SLA_HOURS[priorityFor(t.grade)]]

Regraded(row, t) ==
    [row EXCEPT !.grade = t.grade, !.priority = priorityFor(t.grade),
                !.dueAt = IF t.locked THEN @ ELSE SLA_HOURS[priorityFor(t.grade)]]

CategorizeWrite(h) ==
    /\ handler[h].op = "categorize"
    /\ incident' = [incident EXCEPT ![handler[h].i] = Regraded(@, handler[h])]
    /\ Finish(h)
    /\ UNCHANGED told

Assignable == Status \ TERMINAL

\* The assignee is an active internal user; the status written is the one
\* read, or ASSIGNED after NEW.
AssignRead(h, i) ==
    /\ Found(h, i)
    /\ incident[i].status \in Assignable
    /\ Keep(h, [op |-> "assign", i |-> i,
                to |-> IF incident[i].status = "NEW" THEN "ASSIGNED" ELSE incident[i].status])

AssignWrite(h) ==
    /\ handler[h].op = "assign"
    /\ incident' = [incident EXCEPT ![handler[h].i] =
                      [@ EXCEPT !.assigned = TRUE, !.status = handler[h].to]]
    /\ Finish(h)
    /\ UNCHANGED told

\* Mutant: a resolved or closed incident is restarted without the reopening.
MayMoveAnywhere(from, to) == to \in INCIDENT_TRANSITIONS[from]

MayMove(from, to) ==
    /\ to \in INCIDENT_TRANSITIONS[from]
    /\ to = "IN_PROGRESS" => from = "ASSIGNED"

TransitionRead(h, i, to) ==
    /\ Found(h, i)
    /\ MayMove(incident[i].status, to)
    /\ Keep(h, [op |-> "transition", i |-> i, to |-> to])

Moved(row, to) ==
    [row EXCEPT !.status = to,
                !.resolvedAt = @ \/ to = "RESOLVED",
                !.closedAt = IF to = "CLOSED" THEN "recent" ELSE @]

TransitionWrite(h) ==
    /\ handler[h].op = "transition"
    /\ incident' = [incident EXCEPT ![handler[h].i] = Moved(@, handler[h].to)]
    /\ Finish(h)
    /\ UNCHANGED told

\* assertTransition(row.status, "IN_PROGRESS"), and the window of a closed one.
ReopenRead(h, i) ==
    /\ Found(h, i)
    /\ "IN_PROGRESS" \in INCIDENT_TRANSITIONS[incident[i].status]
    /\ incident[i].status = "CLOSED" => incident[i].closedAt = "recent"
    /\ Keep(h, [op |-> "reopen", i |-> i])

\* Mutant: the closing stamp survives the reopening.
ReopenedStillClosed(row) ==
    [row EXCEPT !.status = "IN_PROGRESS", !.resolvedAt = FALSE,
                !.overdue = FALSE, !.notified = FALSE]

Reopened(row) ==
    [row EXCEPT !.status = "IN_PROGRESS", !.resolvedAt = FALSE, !.closedAt = "none",
                !.overdue = FALSE, !.notified = FALSE]

ReopenWrite(h) ==
    /\ handler[h].op = "reopen"
    /\ LET i == handler[h].i
       IN  /\ incident' = [incident EXCEPT ![i] = Reopened(@)]
           /\ told' = [told EXCEPT ![i] = 0]
    /\ Finish(h)

\* A failed statement, a deadlock or a crash rolls the transaction back.
Abort(h) ==
    /\ handler[h] # Idle
    /\ Finish(h)
    /\ UNCHANGED <<incident, told>>

-----------------------------------------------------------------------------
(* The clock *)

\* The next SLA mark of the incident passes.
Ages(i) ==
    /\ Exists(i) /\ age[i] < MaxAge
    /\ age' = [age EXCEPT ![i] = @ + 1]
    /\ UNCHANGED <<incident, told, handler, sweeper, failures>>

\* REOPEN_WINDOW_MS has passed since closedAt.
WindowCloses(i) ==
    /\ Exists(i) /\ incident[i].closedAt = "recent"
    /\ incident' = [incident EXCEPT ![i].closedAt = "old"]
    /\ UNCHANGED <<age, told, handler, sweeper, failures>>

-----------------------------------------------------------------------------
(* The sweep *)

Sweeping(s, op) == sweeper[s].op = op

SweepTo(s, next) == /\ sweeper' = [sweeper EXCEPT ![s] = next]
                    /\ UNCHANGED <<age, handler, failures>>

\* The interval fires, in any process, whether or not a sweep is on.
SweepStart(s) ==
    /\ sweeper[s] = Idle
    /\ SweepTo(s, [op |-> "clear", asOf |-> age])
    /\ UNCHANGED <<incident, told>>

\* Mutant: the flag of a finished incident stays.
StaleFlagIfEarly(i, ages) == incident[i].overdue /\ ages[i] < incident[i].dueAt

\* overdue is stored although the incident is finished or not yet due.
StaleFlag(i, ages) ==
    /\ incident[i].overdue
    /\ incident[i].status \in TERMINAL \/ ages[i] < incident[i].dueAt

\* updateMany: one statement over the whole table.
ClearFlags(s) ==
    /\ Sweeping(s, "clear")
    /\ incident' = [i \in Incidents |->
                      IF Exists(i) /\ StaleFlag(i, sweeper[s].asOf)
                      THEN [incident[i] EXCEPT !.overdue = FALSE] ELSE incident[i]]
    /\ SweepTo(s, [op |-> "find", asOf |-> sweeper[s].asOf])
    /\ UNCHANGED told

\* Mutant: the find does not ask for overdueNotifiedAt IS NULL.
DueAtAll(ages) == {i \in Incidents : Exists(i) /\ PastDue(i, ages)}

\* Mutant: the sweep takes the first past due one and then asks if it was told.
DueFirst(ages) ==
    LET past == {i \in Incidents : Exists(i) /\ PastDue(i, ages)}
    IN  IF past = {} THEN {}
        ELSE {i \in {CHOOSE j \in past : TRUE} : ~incident[i].notified}

Due(ages) == {i \in Incidents : Exists(i) /\ PastDue(i, ages) /\ ~incident[i].notified}

FlagOrRest(todo) == IF todo = {} THEN Idle ELSE [op |-> "flag", todo |-> todo]

FindDue(s) ==
    /\ Sweeping(s, "find")
    /\ SweepTo(s, FlagOrRest(Due(sweeper[s].asOf)))
    /\ UNCHANGED <<incident, told>>

\* Mutant: the flag is set without the stamp.
FlaggedUnstamped(row) == [row EXCEPT !.overdue = TRUE]

Flagged(row) == [row EXCEPT !.overdue = TRUE, !.notified = TRUE]

\* One transaction per incident, by id.
FlagNext(s) ==
    /\ Sweeping(s, "flag")
    /\ \E i \in sweeper[s].todo :
          /\ incident' = [incident EXCEPT ![i] = Flagged(@)]
          /\ told' = [told EXCEPT ![i] = @ + 1]
          /\ SweepTo(s, FlagOrRest(sweeper[s].todo \ {i}))

\* A statement throws, which ends the whole sweep, or the process dies.
SweepFails(s) ==
    /\ sweeper[s] # Idle
    /\ failures < MaxFailures
    /\ failures' = failures + 1
    /\ sweeper' = [sweeper EXCEPT ![s] = Idle]
    /\ UNCHANGED <<incident, age, told, handler>>

-----------------------------------------------------------------------------
Begin(h, i) ==
    \/ \E grade \in Grades : CategorizeRead(h, i, grade)
    \/ AssignRead(h, i)
    \/ \E to \in Target : TransitionRead(h, i, to)
    \/ ReopenRead(h, i)

Continue(h) ==
    \/ CategorizeWrite(h) \/ AssignWrite(h) \/ TransitionWrite(h) \/ ReopenWrite(h)
    \/ Abort(h)

GoOn(s) == ClearFlags(s) \/ FindDue(s) \/ FlagNext(s)

Sweep(s) == SweepStart(s) \/ GoOn(s)

Next ==
    \/ \E i \in Incidents : \/ \E grade \in Grades : CreateIncident(i, grade)
                            \/ \E h \in Handlers : Begin(h, i)
                            \/ Ages(i) \/ WindowCloses(i)
    \/ \E h \in Handlers : Continue(h)
    \/ \E s \in Sweepers : Sweep(s) \/ SweepFails(s)

Spec == Init /\ [][Next]_vars

\* setInterval fires for as long as a process lives, and a statement that is
\* sent returns.  Nobody makes the users do anything.
FairSpec ==
    /\ Spec
    /\ WF_vars(\E s \in Sweepers : SweepStart(s))
    /\ \A s \in Sweepers : WF_vars(GoOn(s))

-----------------------------------------------------------------------------
(* Whatever the interleaving.                                              *)

\* Every table and every record of a handler or a sweep keeps its type.
TypeOK ==
    /\ incident \in [Incidents -> IncidentRow \cup {NoRow}]
    /\ age \in [Incidents -> Marks]
    /\ told \in [Incidents -> Nat]
    /\ handler \in [Handlers -> HandlerState]
    /\ sweeper \in [Sweepers -> SweepState]
    /\ failures \in 0..MaxFailures

\* Until an incident is reopened its overdue notice goes out at most once for
\* each sweep that may be under way at once, whatever a request or a sweep that
\* died does in between.  "[the] find, plus the stamp in the update, makes that
\* fire exactly once per incident" (sweep.ts:14-17) is more than the code gives:
\* of two sweeps at once each may find the incident before either has flagged
\* it, and both flag by id.
ToldOncePerSweep == \A i \in Incidents : told[i] <= Cardinality(Sweepers)

-----------------------------------------------------------------------------
(* While requests do not overlap; the code breaks these when they do.      *)

\* The resolution and closing stamps say what the status says: nothing is
\* restarted without the stale stamps cleared (service.ts:529-532).
StampsMatchStatus ==
    \A i \in Incidents : Exists(i) =>
        /\ incident[i].resolvedAt <=> incident[i].status \in TERMINAL
        /\ incident[i].closedAt # "none" <=> incident[i].status = "CLOSED"

\* "The SLA clock only moves while the incident is pre-work." (service.ts:344)
FrozenStep ==
    \A i \in Incidents : Exists(i) /\ incident[i].status \notin Unlocked =>
        incident'[i].dueAt = incident[i].dueAt

\* A status moves along INCIDENT_TRANSITIONS, and nothing that was finished is
\* restarted with its old overdue notice standing.
TransitionStep ==
    \A i \in Incidents : Exists(i) /\ incident'[i].status # incident[i].status =>
        /\ incident'[i].status \in INCIDENT_TRANSITIONS[incident[i].status]
        /\ incident[i].status \in TERMINAL /\ incident'[i].status = "IN_PROGRESS" =>
              ~incident'[i].notified /\ ~incident'[i].overdue

-----------------------------------------------------------------------------
(* Liveness *)

IsPastDue(i) == Exists(i) /\ PastDue(i, age)

\* An incident that runs past its due date is notified, unless it is finished
\* or put off first.
OverdueIsTold ==
    \A i \in Incidents : IsPastDue(i) ~> (~IsPastDue(i) \/ incident[i].notified)

FlaggedAtEnd(i) == Exists(i) /\ incident[i].status \in TERMINAL /\ incident[i].overdue

\* The stored flag of a finished incident is cleared.
FinishedIsCleared == \A i \in Incidents : FlaggedAtEnd(i) ~> ~FlaggedAtEnd(i)
=============================================================================
