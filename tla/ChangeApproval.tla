--------------------------- MODULE ChangeApproval ---------------------------
(***************************************************************************)
(* The change lifecycle composed with the approval engine:                 *)
(* src/server/modules/change/service.ts, src/server/modules/approval/      *)
(* service.ts and the approve route that joins them.                       *)
(*                                                                         *)
(* Every route runs its service in one PostgreSQL transaction at the       *)
(* default READ COMMITTED level (src/server/db/tx.ts): a handler reads,    *)
(* decides on what it read, and writes with UPDATE ... WHERE id, which     *)
(* does not look at what it read again.  A handler is therefore one action *)
(* per statement whose result it keeps, and one action for its writes and  *)
(* its commit.  The writes are one step because the first of them locks    *)
(* the row until the commit: writers of one row serialise in commit order, *)
(* and nobody sees them earlier.  A read a handler makes after its first   *)
(* write is part of that last step where the lock it holds keeps the       *)
(* answer from changing before the commit.                                 *)
(*                                                                         *)
(* Users are internal users (requireInternal refuses all others); their    *)
(* hats do not change while a request runs, the actor is a snapshot.       *)
(***************************************************************************)
EXTENDS Approvals

CONSTANTS Changes,      \* change ids
          Users,        \* internal users
          HatsOf,       \* the hats each user wears
          Handlers,     \* concurrent request handlers
          NewChanges,   \* the kinds of change that may be created
          EditInputs,   \* PATCH bodies: a risk level and the texts it fills
          MaxStamp,     \* bound on createdAt stamps of requests, per change
          NoRow         \* the answer of a query that finds nothing

ASSUME HatsAssumption  == HatsOf \in [Users -> SUBSET Hat]
ASSUME StampAssumption == MaxStamp \in Nat
ASSUME NewAssumption   == NewChanges \subseteq
                            [type : ChangeType, text : SUBSET {"rfc"}, linked : BOOLEAN]
ASSUME EditAssumption  == EditInputs \subseteq
                            [risk : Level \cup {"keep"}, text : SUBSET Text]

VARIABLES change,     \* table Change (with its one PIR row as a flag)
          request,    \* table ApprovalRequest with its ApprovalSteps
          decision,   \* table ApprovalDecision: the rows of each step
          handler,    \* what each in-flight request handler has read
          notices     \* "moved to Scheduled" notifications emitted

vars == <<change, request, decision, handler, notices>>

Stamps == 1..MaxStamp

-----------------------------------------------------------------------------
(* Rows *)

ChangeRow == [status : Status, type : ChangeType, owner : Users,
              risk : Level \cup {"unset"}, text : SUBSET Text,
              linked : BOOLEAN, window : {"none", "future", "past"},
              pir : BOOLEAN]

RequestRow == [status : ApprovalStatus, policy : Policy, createdBy : Users,
               step : [Order -> StepStatus \cup {"ABSENT"}]]

DecisionRow == [actor : Users, kind : Decision, override : BOOLEAN]

ASSUME NoRowAssumption == NoRow \notin ChangeRow /\ NoRow \notin RequestRow

(* What a handler keeps between its statements: of the row it read, the
   columns it uses again.  waiting is "ctx.status is APPROVAL", moves is
   "row.status is APPROVAL". *)

Idle == [op |-> "idle"]

EditTxn     == [op : {"edit"}, c : Changes, input : EditInputs]
GateTxn     == [op : {"advance"}, at : {"gate"}, c : Changes, row : ChangeRow]
AdvanceTxn  == [op : {"advance"}, at : {"write"}, c : Changes, from : DOMAIN CHANGE_FORWARD]
ScheduleTxn == [op : {"schedule"}, c : Changes, moves : BOOLEAN]
PlainTxn    == [op : {"rollback", "pir"}, c : Changes]
FindTxn     == [op : {"submit"}, at : {"find"}, c : Changes, risk : Level]
SubmitTxn   == [op : {"submit"}, at : {"write"}, c : Changes, risk : Level,
                stale : 0..MaxStamp, floor : 0..MaxStamp]
ContextTxn  == [op : {"approve"}, at : {"step"}, c : Changes, user : Users,
                waiting : BOOLEAN, risk : Level \cup {"unset"}]
DecideTxn   == [op : {"approve"}, at : {"decide", "write"}, c : Changes, user : Users,
                waiting : BOOLEAN, stamp : Stamps, order : Order, override : BOOLEAN]

HandlerState == {Idle} \cup EditTxn \cup GateTxn \cup AdvanceTxn \cup ScheduleTxn
                  \cup PlainTxn \cup FindTxn \cup SubmitTxn \cup ContextTxn \cup DecideTxn

-----------------------------------------------------------------------------
(* Queries *)

Wears(u, hat) == hat \in HatsOf[u]

Opened(c) == {s \in Stamps : request[c][s] # NoRow}

IsLatest(c, s) == s \in Opened(c) /\ \A t \in Opened(c) : t <= s

\* getApprovalState(...).status: the status of the most recent request.
ApprovalStatusOf(c) ==
    IF \E s \in Stamps : IsLatest(c, s)
    THEN request[c][CHOOSE s \in Stamps : IsLatest(c, s)].status
    ELSE "NONE"

\* Mutant: cancelRequest forgets to look for a PENDING request.
AnyStamps(c) == Opened(c)

PendingStamps(c) == {s \in Opened(c) : request[c][s].status = "PENDING"}

Highest(S) == IF S = {} THEN 0 ELSE CHOOSE s \in S : \A t \in S : t <= s

\* findUnique({ id }): the row must exist, and the handler remembers it.
Found(h, c) == handler[h] = Idle /\ change[c] # NoRow

Keep(h, txn) == /\ handler' = [handler EXCEPT ![h] = txn]
                /\ UNCHANGED <<change, request, decision, notices>>

Finish(h) == handler' = [handler EXCEPT ![h] = Idle]

SetStatus(c, to) == change' = [change EXCEPT ![c].status = to]

\* Mutant: every status write announces itself.
NotifyAlways(c, p) == notices' = [notices EXCEPT ![c] = @ + 1]

NotifyIf(c, p) == notices' = [notices EXCEPT ![c] = IF p THEN @ + 1 ELSE @]

-----------------------------------------------------------------------------
Init == /\ change = [c \in Changes |-> NoRow]
        /\ request = [c \in Changes |-> [s \in Stamps |-> NoRow]]
        /\ decision = [c \in Changes |-> [s \in Stamps |-> [k \in Order |-> <<>>]]]
        /\ handler = [h \in Handlers |-> Idle]
        /\ notices = [c \in Changes |-> 0]

-----------------------------------------------------------------------------
(* Creation.  An insert reads nothing of the change, so it is one step.    *)

Insert(c, u, new) ==
    /\ change[c] = NoRow
    /\ new \in NewChanges
    /\ change' = [change EXCEPT ![c] =
                    [status |-> "DRAFT", type |-> new.type, owner |-> u,
                     risk |-> "unset", text |-> new.text, linked |-> new.linked,
                     window |-> "none", pir |-> FALSE]]
    /\ UNCHANGED <<request, decision, handler, notices>>

\* The body has an RFC, may name a demand, and may ask for EMERGENCY.
CreateChange(u, c) ==
    /\ Wears(u, "DEVELOPER")
    /\ \E type \in ChangeType, linked \in BOOLEAN :
          Insert(c, u, [type |-> type, text |-> {"rfc"}, linked |-> linked])

\* Called by convertDemand, whose rule admits either approver hat; the RFC is
\* left empty.
CreateChangeFromDemand(u, c) ==
    /\ Wears(u, "TECHNICAL_APPROVER") \/ Wears(u, "BUSINESS_APPROVER")
    /\ Insert(c, u, [type |-> "NORMAL", text |-> {}, linked |-> TRUE])

-----------------------------------------------------------------------------
(* editChange *)

EditRead(h, u, c, input) ==
    /\ Found(h, c)
    /\ Wears(u, "DEVELOPER") \/ change[c].owner = u
    /\ change[c].status \notin EDIT_LOCKED_STATUSES
    /\ input.risk # "keep" => change[c].status \notin RISK_LOCKED_STATUSES
    /\ Keep(h, [op |-> "edit", c |-> c, input |-> input])

EditWrite(h) ==
    /\ handler[h].op = "edit"
    /\ LET c == handler[h].c
           input == handler[h].input
       IN  change' = [change EXCEPT
                        ![c].risk = IF input.risk = "keep" THEN @ ELSE input.risk,
                        ![c].text = @ \cup input.text]
    /\ Finish(h)
    /\ UNCHANGED <<request, decision, notices>>

-----------------------------------------------------------------------------
(* advanceChange: the row, then the approval state, then the write.        *)
(* input.from equals the status that is read, or the call is a conflict.   *)

AdvanceRead(h, u, c) ==
    /\ Found(h, c)
    /\ Wears(u, "DEVELOPER")
    /\ Keep(h, [op |-> "advance", at |-> "gate", c |-> c, row |-> change[c]])

AdvanceGate(h) ==
    /\ handler[h].op = "advance" /\ handler[h].at = "gate"
    /\ \E ack \in BOOLEAN :
          CanAdvance(handler[h].row, ApprovalStatusOf(handler[h].c), ack)
    /\ Keep(h, [op |-> "advance", at |-> "write", c |-> handler[h].c,
                from |-> handler[h].row.status])

AdvanceWrite(h) ==
    /\ handler[h].op = "advance" /\ handler[h].at = "write"
    /\ LET c == handler[h].c
           to == CHANGE_FORWARD[handler[h].from]
       IN  /\ SetStatus(c, to)
           /\ NotifyIf(c, to = "SCHEDULED")
    /\ Finish(h)
    /\ UNCHANGED <<request, decision>>

-----------------------------------------------------------------------------
(* scheduleChange: the window is written first, which locks the row, and   *)
(* only then is the approval state read.  A window that is not a future    *)
(* range is refused.                                                       *)

ScheduleRead(h, u, c) ==
    /\ Found(h, c)
    /\ Wears(u, "DEVELOPER")
    /\ change[c].status \in {"APPROVAL", "SCHEDULED"}
    /\ Keep(h, [op |-> "schedule", c |-> c, moves |-> change[c].status = "APPROVAL"])

ScheduleWrite(h) ==
    /\ handler[h].op = "schedule"
    /\ LET c == handler[h].c
           moves == handler[h].moves
       IN  /\ moves => \/ ApprovalStatusOf(c) = "APPROVED"
                       \/ change[c].type = "EMERGENCY"
           /\ change' = [change EXCEPT ![c].window = "future",
                                       ![c].status = IF moves THEN "SCHEDULED" ELSE @]
           /\ NotifyIf(c, moves)
    /\ Finish(h)
    /\ UNCHANGED <<request, decision>>

\* The clock passes the start of the window.
WindowElapses(c) ==
    /\ change[c] # NoRow
    /\ change[c].window = "future"
    /\ change' = [change EXCEPT ![c].window = "past"]
    /\ UNCHANGED <<request, decision, handler, notices>>

-----------------------------------------------------------------------------
(* rollbackChange *)

RollbackRead(h, u, c) ==
    /\ Found(h, c)
    /\ Wears(u, "DEVELOPER")
    /\ change[c].status = "IMPLEMENTING"
    /\ Keep(h, [op |-> "rollback", c |-> c])

RollbackWrite(h) ==
    /\ handler[h].op = "rollback"
    /\ SetStatus(handler[h].c, "ROLLED_BACK")
    /\ Finish(h)
    /\ UNCHANGED <<request, decision, notices>>

-----------------------------------------------------------------------------
(* recordPir: the unique index on changeId decides between two inserts.    *)

PirRead(h, u, c) ==
    /\ Found(h, c)
    /\ Wears(u, "TECHNICAL_APPROVER") \/ Wears(u, "BUSINESS_APPROVER")
    /\ change[c].status = "PIR"
    /\ Keep(h, [op |-> "pir", c |-> c])

PirWrite(h) ==
    /\ handler[h].op = "pir"
    /\ ~change[handler[h].c].pir
    /\ change' = [change EXCEPT ![handler[h].c].pir = TRUE]
    /\ Finish(h)
    /\ UNCHANGED <<request, decision, notices>>

-----------------------------------------------------------------------------
(* submitForApproval: the row, then cancelRequest's search for a pending   *)
(* request, then cancel, open and move the change.                         *)

SubmitRead(h, u, c) ==
    /\ Found(h, c)
    /\ change[c].owner = u
    /\ change[c].status = "ASSESSING"
    /\ AssessingGate(change[c])
    /\ Keep(h, [op |-> "submit", at |-> "find", c |-> c, risk |-> change[c].risk])

SubmitFind(h) ==
    /\ handler[h].op = "submit" /\ handler[h].at = "find"
    /\ LET c == handler[h].c
       IN  Keep(h, [op |-> "submit", at |-> "write", c |-> c,
                    risk  |-> handler[h].risk,
                    stale |-> Highest(PendingStamps(c)),
                    floor |-> Highest(Opened(c))])

\* The stale request is updated by id, whatever has become of it since.
Cancelled(req) == [req EXCEPT !.status = "CANCELLED", !.step = SkipPending(req.step)]

\* createdById is the owner, a column nothing updates.
NewRequest(t) ==
    [status |-> "PENDING", policy |-> PolicyFor(t.risk),
     createdBy |-> change[t.c].owner, step |-> OpenSteps(PolicyFor(t.risk))]

\* createdAt is taken between the search and the commit: it follows every
\* request that was there at the search, and may precede a concurrent one.
SubmitWrite(h) ==
    /\ handler[h].op = "submit" /\ handler[h].at = "write"
    /\ LET t == handler[h]
       IN  /\ \E s \in Stamps \ Opened(t.c) :
                /\ s > t.floor
                /\ request' = [request EXCEPT ![t.c] =
                     [i \in Stamps |-> IF i = s THEN NewRequest(t)
                                       ELSE IF i = t.stale THEN Cancelled(@[i])
                                       ELSE @[i]]]
           /\ SetStatus(t.c, "APPROVAL")
    /\ Finish(h)
    /\ UNCHANGED <<decision, notices>>

-----------------------------------------------------------------------------
(* POST /approve/:tier.  changeApprovalContext reads the row and then the  *)
(* approval state, both before the transaction opens; recordDecision reads *)
(* the step again and writes conditionally.                                *)

ApproveReadRow(h, u, c) ==
    /\ Found(h, c)
    /\ Keep(h, [op |-> "approve", at |-> "step", c |-> c, user |-> u,
                waiting |-> change[c].status = "APPROVAL", risk |-> change[c].risk])

\* authorize(change.approve.<tier>): the hat of the tier, business only on a
\* HIGH risk change.  The owner's SegregationError is swallowed only with an
\* override justification.
MayDecide(t, override) ==
    /\ \/ Wears(t.user, "TECHNICAL_APPROVER")
       \/ Wears(t.user, "BUSINESS_APPROVER") /\ t.risk = "HIGH"
    /\ change[t.c].owner = t.user => override

ApproveReadStep(h) ==
    /\ handler[h].op = "approve" /\ handler[h].at = "step"
    /\ LET t == handler[h]
       IN  \E s \in Stamps, k \in Order, override \in BOOLEAN :
              /\ IsLatest(t.c, s)
              /\ request[t.c][s].status = "PENDING"
              /\ IsCurrent(request[t.c][s].step, k)
              /\ MayDecide(t, override)
              /\ Keep(h, [op |-> "approve", at |-> "decide", c |-> t.c,
                          user |-> t.user, waiting |-> t.waiting,
                          stamp |-> s, order |-> k, override |-> override])

\* Mutant: recordDecision trusts the tier that the route authorised.
DecidableByTier(t) ==
    LET req == request[t.c][t.stamp]
    IN  /\ req.status = "PENDING"
        /\ IsCurrent(req.step, t.order)
        /\ req.createdBy = t.user => t.override

\* recordDecision's guards on the rows it reads in its own transaction.
Decidable(t) ==
    LET req == request[t.c][t.stamp]
    IN  /\ req.status = "PENDING"
        /\ IsCurrent(req.step, t.order)
        /\ Wears(t.user, RequiredHat[t.order])
        /\ req.createdBy = t.user => t.override

DecisionRead(h) ==
    /\ handler[h].op = "approve" /\ handler[h].at = "decide"
    /\ Decidable(handler[h])
    /\ Keep(h, [handler[h] EXCEPT !.at = "write"])

\* updateMany({ id, status: PENDING }): no row, no decision.
\* Mutant: the update names the step by id alone.
StepExists(t) == request[t.c][t.stamp] # NoRow

StepStillPending(t) == request[t.c][t.stamp].step[t.order] = "PENDING"

\* The request after the decision: the step, and the request's own
\* conditional update when the steps resolve it.
Decided(req, k, kind) ==
    LET step == [req.step EXCEPT ![k] = kind]
    IN  [req EXCEPT !.step = step,
                    !.status = IF @ = "PENDING" THEN ResolveRequestStatus(step) ELSE @]

\* Mutant: the route forgets to ask where the change is.
SendsBackAlways(t, step) == ResolveRequestStatus(step) = "REJECTED"

\* The route sends the change back when the request is now rejected and the
\* status it read before the transaction was APPROVAL.
SendsBack(t, step) ==
    ResolveRequestStatus(step) = "REJECTED" /\ t.waiting

DecisionWrite(h) ==
    /\ handler[h].op = "approve" /\ handler[h].at = "write"
    /\ StepStillPending(handler[h])
    /\ \E kind \in Decision :
         LET t == handler[h]
             after == Decided(request[t.c][t.stamp], t.order, kind)
         IN  /\ request' = [request EXCEPT ![t.c][t.stamp] = after]
             /\ decision' = [decision EXCEPT ![t.c][t.stamp][t.order] =
                  Append(@, [actor |-> t.user, kind |-> kind,
                             override |-> t.override
                               /\ request[t.c][t.stamp].createdBy = t.user])]
             /\ IF SendsBack(t, after.step) THEN SetStatus(t.c, "ASSESSING")
                                            ELSE UNCHANGED change
    /\ Finish(h)
    /\ UNCHANGED notices

-----------------------------------------------------------------------------
\* A later guard throws, the connection or the server is lost, or the
\* transaction times out: whatever was written is rolled back.
Abort(h) ==
    /\ handler[h] # Idle
    /\ Finish(h)
    /\ UNCHANGED <<change, request, decision, notices>>

Begin(h, u, c) ==
    \/ \E input \in EditInputs : EditRead(h, u, c, input)
    \/ AdvanceRead(h, u, c)
    \/ ScheduleRead(h, u, c)
    \/ RollbackRead(h, u, c)
    \/ PirRead(h, u, c)
    \/ SubmitRead(h, u, c)
    \/ ApproveReadRow(h, u, c)

Continue(h) ==
    \/ EditWrite(h)
    \/ AdvanceGate(h)
    \/ AdvanceWrite(h)
    \/ ScheduleWrite(h)
    \/ RollbackWrite(h)
    \/ PirWrite(h)
    \/ SubmitFind(h)
    \/ SubmitWrite(h)
    \/ ApproveReadStep(h)
    \/ DecisionRead(h)
    \/ DecisionWrite(h)
    \/ Abort(h)

Next == \/ \E u \in Users, c \in Changes : CreateChange(u, c)
        \/ \E u \in Users, c \in Changes : CreateChangeFromDemand(u, c)
        \/ \E c \in Changes : WindowElapses(c)
        \/ \E h \in Handlers, u \in Users, c \in Changes : Begin(h, u, c)
        \/ \E h \in Handlers : Continue(h)

Spec == Init /\ [][Next]_vars
-----------------------------------------------------------------------------
(* Types *)

\* Every table and every handler holds what its columns and variables hold.
TypeOK ==
    /\ change \in [Changes -> ChangeRow \cup {NoRow}]
    /\ request \in [Changes -> [Stamps -> RequestRow \cup {NoRow}]]
    /\ decision \in [Changes -> [Stamps -> [Order -> Seq(DecisionRow)]]]
    /\ handler \in [Handlers -> HandlerState]
    /\ notices \in [Changes -> Nat]

-----------------------------------------------------------------------------
(* What holds however requests interleave *)

\* One decision row is ever recorded per step, of the kind the step resolved
\* to, and none for a step that is pending or was skipped, even when two
\* approvers, or one approver twice, answer the same step at the same time
\* (recordDecision's conditional update, approval/service.ts:367-380).
OneDecisionPerStep ==
    \A c \in Changes, s \in Stamps, k \in Order :
        IF request[c][s] # NoRow /\ request[c][s].step[k] \in Decision
        THEN /\ Len(decision[c][s][k]) = 1
             /\ decision[c][s][k][1].kind = request[c][s].step[k]
        ELSE decision[c][s][k] = <<>>

\* Whoever decided a step wears its hat, and a decision by the request's
\* creator carries the single-approver override flag while nobody else's does
\* (segregation of duties, approval/service.ts:340-353).
DecidersEntitled ==
    \A c \in Changes, s \in Stamps, k \in Order :
        \A i \in DOMAIN decision[c][s][k] :
            LET d == decision[c][s][k][i]
            IN  /\ request[c][s] # NoRow
                /\ Wears(d.actor, RequiredHat[k])
                /\ d.override <=> d.actor = request[c][s].createdBy

\* A later step is decided only when every earlier one was approved: the
\* business approver never rules on a change the technical approver has not
\* accepted, and a rejection leaves the later steps undecided.
StepsDecidedInOrder ==
    \A c \in Changes, s \in Stamps :
        request[c][s] # NoRow =>
            \A j, k \in Order :
                j < k /\ request[c][s].step[k] \in Decision
                    => request[c][s].step[j] = "APPROVED"

\* The status of a request and those of its steps tell one story: approved when
\* every step was, rejected when one was, and as long as it is pending it has a
\* step left to decide, which a cancelled request never has.
StatusReflectsSteps ==
    \A c \in Changes, s \in Stamps :
        request[c][s] # NoRow =>
            LET req == request[c][s]
                Has(st) == \E k \in Order : req.step[k] = st
            IN  /\ req.status = "APPROVED" => ~\E k \in Order : req.step[k] \notin {"APPROVED", "ABSENT"}
                /\ req.status = "REJECTED" => Has("REJECTED")
                /\ req.status = "PENDING" => Has("PENDING") /\ ~Has("REJECTED")
                /\ req.status = "CANCELLED" => ~Has("PENDING")

\* Every step of the request opened at s was approved.
GrantedBy(c, s) ==
    /\ request[c][s] # NoRow
    /\ \A k \in Present(request[c][s].step) : request[c][s].step[k] = "APPROVED"

Granted(c) == \E s \in Stamps : GrantedBy(c, s)

PastApproval == {"SCHEDULED", "IMPLEMENTING", "PIR", "CLOSED", "ROLLED_BACK"}

\* No NORMAL change gets past approval without a request of its own on which
\* every step was approved, whatever else is written to it meanwhile.
GrantedBeforeScheduled ==
    \A c \in Changes :
        change[c] # NoRow /\ change[c].type = "NORMAL" /\ change[c].status \in PastApproval
            => Granted(c)

Ruled(c) == \E s \in Stamps, k \in Order : decision[c][s][k] # <<>>

\* A closed change has its review; a closed EMERGENCY change also has an
\* approver's decision on record.  The gate accepts any status but PENDING, so
\* this rests on a cancelled request never being the latest one.
ReviewedBeforeClosed ==
    \A c \in Changes :
        change[c] # NoRow /\ change[c].status = "CLOSED" =>
            /\ change[c].pir
            /\ change[c].type = "EMERGENCY" => Ruled(c)

\* The engine keeps its contract: steps resolve once, with their decision row.
Contract == INSTANCE ApprovalContract WITH
    Steps    <- Changes \X Stamps \X Order,
    status   <- [x \in Changes \X Stamps \X Order |->
                   IF request[x[1]][x[2]] = NoRow THEN "ABSENT"
                   ELSE request[x[1]][x[2]].step[x[3]]],
    verdicts <- [x \in Changes \X Stamps \X Order |->
                   [i \in DOMAIN decision[x[1]][x[2]][x[3]] |->
                      decision[x[1]][x[2]][x[3]][i].kind]]

\* Every step of the composed system is a step of the approval contract.
ImplementsContract == Contract!Init /\ [][Contract!Next]_Contract!vars

-----------------------------------------------------------------------------
(* What holds when requests do not overlap *)

\* Every step of the system is a step of the lifecycle that spec 03 describes.
Lifecycle == INSTANCE ChangeLifecycle WITH
    stage <- [c \in Changes |-> IF change[c] = NoRow THEN "NONE" ELSE change[c].status],
    kind  <- [c \in Changes |-> IF change[c] = NoRow THEN "NORMAL" ELSE change[c].type],
    round <- [c \in Changes |-> ApprovalStatusOf(c)]

ImplementsLifecycle == Lifecycle!Init /\ [][Lifecycle!Next]_Lifecycle!vars

\* A CLOSED or ROLLED_BACK change never leaves that status (state.ts:13-14).
TerminalIsFinal ==
    [][\A c \in Changes :
          change[c] # NoRow /\ change[c].status \in Terminal
              => change'[c].status = change[c].status]_change

\* The latest request follows the policy of the risk level the change has
\* (change/service.ts:179-182).
PolicyMatchesRisk ==
    \A c \in Changes, s \in Stamps :
        IsLatest(c, s) /\ request[c][s].status \in {"PENDING", "APPROVED"}
            => request[c][s].policy = PolicyFor(change[c].risk)

\* An approved or rejected request is immutable (spec 04 section 3).
ResolvedIsImmutable ==
    [][\A c \in Changes, s \in Stamps :
          request[c][s] # NoRow /\ request[c][s].status \in Decision
              => request'[c][s] = request[c][s]]_request

\* A NORMAL change waiting at APPROVAL has a request that can still be granted
\* or was granted: a rejection takes it back to ASSESSING, the only status from
\* which it can be submitted again (approve route.ts:31).
NotStranded ==
    \A c \in Changes :
        change[c] # NoRow /\ change[c].type = "NORMAL" /\ change[c].status = "APPROVAL"
            => ApprovalStatusOf(c) \in {"PENDING", "APPROVED"}

\* "Moved to Scheduled" is announced once per change (change/service.ts:680-681).
AnnouncedOnce == \A c \in Changes : notices[c] <= 1
=============================================================================
