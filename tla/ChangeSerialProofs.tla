------------------------- MODULE ChangeSerialProofs -------------------------
(***************************************************************************)
(* What the change routes promise when their requests do not overlap:      *)
(* with at most one handler, for any number of changes, users and edits,   *)
(* the composed system is the lifecycle of plans/specs/03.  Everything     *)
(* here is false with two handlers; the proofs show that nothing else is   *)
(* needed.                                                                 *)
(***************************************************************************)
EXTENDS ChangeReviewProofs

\* The transactions of the change and approve routes do not overlap.
Alone == \A g, h \in Handlers : g = h

-----------------------------------------------------------------------------
(* The inductive invariant.  Of the tables: where a change stands says how
   its latest request stands. *)

Unsubmitted == {"DRAFT", "ASSESSING"}

RoundFits(c) ==
    /\ change[c] = NoRow => Opened(c) = {}
    /\ change[c] # NoRow =>
         /\ change[c].status \in Unsubmitted
               => ApprovalStatusOf(c) \notin {"PENDING", "APPROVED"}
         /\ change[c].status = "APPROVAL" => ApprovalStatusOf(c) \in {"PENDING", "APPROVED"}

PolicyFits(c) ==
    \A s \in Stamps :
        IsLatest(c, s) /\ request[c][s].status \in {"PENDING", "APPROVED"}
            => request[c][s].policy = PolicyFor(change[c].risk)

NoticeFits(c) ==
    /\ notices[c] <= 1
    /\ change[c] = NoRow \/ change[c].status \in Unsubmitted \cup {"APPROVAL"}
          => notices[c] = 0

ChangeFits(c) == RoundFits(c) /\ PolicyFits(c) /\ NoticeFits(c)

(* Of the handler: what it read is still so.  Only the window may have
   elapsed meanwhile. *)

Passed(c, from) ==
    /\ from = "APPROVAL" => change[c].type = "EMERGENCY" \/ ApprovalStatusOf(c) = "APPROVED"
    /\ from = "PIR" /\ change[c].type = "EMERGENCY" => ApprovalStatusOf(c) \in Decision

FreshRow(t) ==
    LET status == change[t.c].status
    IN  /\ t \in EditTxn => /\ status \notin EDIT_LOCKED_STATUSES
                            /\ t.input.risk # "keep" => status \notin RISK_LOCKED_STATUSES
        /\ t \in GateTxn => status = t.row.status
        /\ t \in AdvanceTxn => status = t.from /\ Passed(t.c, t.from)
        /\ t \in ScheduleTxn => t.moves = (status = "APPROVAL")
        /\ t \in PlainTxn => status = IF t.op = "rollback" THEN "IMPLEMENTING" ELSE "PIR"
        /\ t \in FindTxn \cup SubmitTxn => status = "ASSESSING" /\ t.risk = change[t.c].risk
        /\ t \in ContextTxn \cup DecideTxn => t.waiting = (status = "APPROVAL")

FreshRequest(t) ==
    /\ t \in SubmitTxn =>
         /\ t.stale # 0 => request[t.c][t.stale].status = "PENDING"
         /\ \A s \in Opened(t.c) : s <= t.floor
    /\ t \in DecideTxn =>
         IsLatest(t.c, t.stamp) /\ request[t.c][t.stamp].status = "PENDING"

Fresh(t) == FreshRow(t) /\ FreshRequest(t)

SerialInv ==
    /\ \A c \in Changes : ChangeFits(c)
    /\ \A h \in Handlers : Fresh(handler[h])

-----------------------------------------------------------------------------
(* The latest request of a change. *)

LEMMA LatestStatus ==
    ASSUME NEW c \in Changes, NEW s \in Stamps, IsLatest(c, s)
    PROVE  ApprovalStatusOf(c) = request[c][s].status
  <1>1. PICK r \in Stamps : IsLatest(c, r) /\ ApprovalStatusOf(c) = request[c][r].status
    BY DEF ApprovalStatusOf
  <1>2. r = s
    BY <1>1, StampAssumption DEF IsLatest, Stamps
  <1> QED  BY <1>1, <1>2

LEMMA LatestStatusNext ==
    ASSUME NEW c \in Changes, NEW s \in Stamps, IsLatest(c, s)'
    PROVE  ApprovalStatusOf(c)' = request'[c][s].status
  <1>1. PICK r \in Stamps : IsLatest(c, r)' /\ ApprovalStatusOf(c)' = request'[c][r].status
    BY DEF ApprovalStatusOf
  <1>2. r = s
    BY <1>1, StampAssumption DEF IsLatest, Stamps
  <1> QED  BY <1>1, <1>2

(* A change whose requests are left alone. *)
LEMMA RoundStays ==
    ASSUME NEW c \in Changes, request'[c] = request[c]
    PROVE  /\ Opened(c)' = Opened(c)
           /\ \A s \in Stamps : IsLatest(c, s)' <=> IsLatest(c, s)
           /\ ApprovalStatusOf(c)' = ApprovalStatusOf(c)
  <1>1. Opened(c)' = Opened(c)
    BY DEF Opened
  <1>2. \A s : IsLatest(c, s)' <=> IsLatest(c, s)
    BY <1>1 DEF IsLatest
  <1>3. CASE \E s \in Stamps : IsLatest(c, s)
    <2>1. PICK s \in Stamps : IsLatest(c, s)
      BY <1>3
    <2> QED  BY <1>1, <1>2, <2>1, LatestStatus, LatestStatusNext
  <1>4. CASE ~\E s \in Stamps : IsLatest(c, s)
    BY <1>1, <1>2, <1>4 DEF ApprovalStatusOf
  <1> QED  BY <1>1, <1>2, <1>3, <1>4

(* A write to the row of a change whose requests are left alone. *)
LEMMA MoveFits ==
    ASSUME NEW c \in Changes, ChangeFits(c), change[c] # NoRow, change'[c] # NoRow,
           request'[c] = request[c],
           change'[c].risk = change[c].risk \/ change[c].status \in Unsubmitted,
           change'[c].status \in Unsubmitted => change[c].status \in Unsubmitted,
           change'[c].status = "APPROVAL" => change[c].status = "APPROVAL",
           \/ notices'[c] = notices[c]
           \/ /\ change[c].status = "APPROVAL" /\ change'[c].status = "SCHEDULED"
              /\ notices'[c] = notices[c] + 1
    PROVE  ChangeFits(c)'
  <1>1. RoundFits(c)'
    BY RoundStays DEF ChangeFits, RoundFits
  <1>2. PolicyFits(c)'
    <2> SUFFICES ASSUME NEW s \in Stamps, IsLatest(c, s)',
                        request'[c][s].status \in {"PENDING", "APPROVED"}
                 PROVE  request'[c][s].policy = PolicyFor(change'[c].risk)
      BY DEF PolicyFits
    <2>1. IsLatest(c, s) /\ request'[c][s] = request[c][s]
      BY RoundStays
    <2>2. change[c].status \notin Unsubmitted
      BY <2>1, LatestStatus DEF ChangeFits, RoundFits
    <2> QED  BY <2>1, <2>2 DEF ChangeFits, PolicyFits
  <1>3. NoticeFits(c)'
    BY DEF ChangeFits, NoticeFits, Unsubmitted
  <1> QED  BY <1>1, <1>2, <1>3 DEF ChangeFits

(* A change that nothing touches. *)
LEMMA QuietFits ==
    ASSUME NEW c \in Changes, ChangeFits(c), change'[c] = change[c],
           request'[c] = request[c], notices'[c] = notices[c]
    PROVE  ChangeFits(c)'
  BY RoundStays DEF ChangeFits, RoundFits, PolicyFits, NoticeFits

-----------------------------------------------------------------------------
(* The three shapes of a step: a read, a write that ends the transaction, and
   a step that no handler takes. *)

LEMMA SerialKeep ==
    ASSUME Alone, TypeInv, SerialInv, NEW h \in Handlers, NEW t, Keep(h, t),
           t.c \in Changes, Fresh(t)
    PROVE  SerialInv'
  <1>1. \A c \in Changes : ChangeFits(c)'
    BY QuietFits DEF Keep, SerialInv
  <1>2. ASSUME NEW g \in Handlers PROVE Fresh(handler[g])'
    <2>1. handler'[g] = t
      BY DEF Alone, Keep, TypeInv, TypeOK
    <2>2. change' = change /\ request' = request
      BY DEF Keep
    <2>3. FreshRow(t) => FreshRow(handler[g])'
      BY <2>1, <2>2, RoundStays DEF FreshRow, Passed
    <2>4. FreshRequest(t) => FreshRequest(handler[g])'
      BY <2>1, <2>2 DEF FreshRequest, IsLatest, Opened
    <2> QED  BY <2>3, <2>4 DEF Fresh
  <1> QED  BY <1>1, <1>2 DEF SerialInv

LEMMA SerialFinish ==
    ASSUME Alone, TypeInv, SerialInv, NEW h \in Handlers, Finish(h),
           NEW c \in Changes, ChangeFits(c)',
           \A d \in Changes : d # c =>
              change'[d] = change[d] /\ request'[d] = request[d] /\ notices'[d] = notices[d]
    PROVE  SerialInv'
  <1>1. ASSUME NEW d \in Changes PROVE ChangeFits(d)'
    <2>1. CASE d = c
      BY <2>1
    <2>2. CASE d # c
      BY <2>2, QuietFits DEF SerialInv
    <2> QED  BY <2>1, <2>2
  <1>2. ASSUME NEW g \in Handlers PROVE Fresh(handler[g])'
    <2>1. handler'[g] = Idle
      BY DEF Alone, Finish, TypeInv, TypeOK
    <2> QED  BY <2>1 DEF Fresh, FreshRow, FreshRequest, Idle, EditTxn, GateTxn, AdvanceTxn,
                ScheduleTxn, PlainTxn, FindTxn, SubmitTxn, ContextTxn, DecideTxn
  <1> QED  BY <1>1, <1>2 DEF SerialInv

LEMMA SerialAside ==
    ASSUME TypeInv, SerialInv, UNCHANGED <<handler, request>>,
           \A c \in Changes : ChangeFits(c)',
           \A c \in Changes : change[c] # NoRow =>
              /\ change'[c].status = change[c].status /\ change'[c].type = change[c].type
              /\ change'[c].risk = change[c].risk
    PROVE  SerialInv'
  <1>1. ASSUME NEW h \in Handlers PROVE Fresh(handler[h])'
    <2> DEFINE t == handler[h]
    <2>1. CASE t = Idle
      BY <2>1 DEF Fresh, FreshRow, FreshRequest, Idle, EditTxn, GateTxn, AdvanceTxn,
         ScheduleTxn, PlainTxn, FindTxn, SubmitTxn, ContextTxn, DecideTxn
    <2>2. CASE t # Idle
      <3>1. /\ t.c \in Changes
            /\ change'[t.c].status = change[t.c].status
            /\ change'[t.c].type = change[t.c].type
            /\ change'[t.c].risk = change[t.c].risk
            /\ handler'[h] = t /\ Fresh(t)
        BY <2>2, HandlerRow DEF SerialInv
      <3> HIDE DEF t
      <3>2. FreshRow(handler[h])'
        BY <3>1, RoundStays DEF Fresh, FreshRow, Passed
      <3>3. FreshRequest(handler[h])'
        BY <3>1, RoundStays DEF Fresh, FreshRequest, IsLatest, Opened
      <3> QED  BY <3>2, <3>3 DEF Fresh
    <2> QED  BY <2>1, <2>2
  <1> QED  BY <1>1 DEF SerialInv

-----------------------------------------------------------------------------
(* The first statement of each transaction. *)
LEMMA BeginSerial ==
    ASSUME Alone, TypeInv, SerialInv,
           NEW h \in Handlers, NEW u \in Users, NEW c \in Changes, Begin(h, u, c)
    PROVE  SerialInv'
  <1>1. ASSUME NEW input \in EditInputs, EditRead(h, u, c, input) PROVE SerialInv'
    <2> DEFINE t == [op |-> "edit", c |-> c, input |-> input]
    <2>1. Keep(h, t) /\ t.c = c
      BY <1>1 DEF EditRead
    <2>2. Fresh(t)
      BY <1>1 DEF EditRead, Fresh, FreshRow, FreshRequest, EditTxn, GateTxn,
         AdvanceTxn, ScheduleTxn, PlainTxn, FindTxn, SubmitTxn, ContextTxn, DecideTxn
    <2> HIDE DEF t
    <2> QED  BY <2>1, <2>2, SerialKeep
  <1>2. CASE AdvanceRead(h, u, c)
    <2> DEFINE t == [op |-> "advance", at |-> "gate", c |-> c, row |-> change[c]]
    <2>1. Keep(h, t) /\ t.c = c
      BY <1>2 DEF AdvanceRead
    <2>2. Fresh(t)
      BY <1>2 DEF AdvanceRead, Fresh, FreshRow, FreshRequest, EditTxn, GateTxn,
         AdvanceTxn, ScheduleTxn, PlainTxn, FindTxn, SubmitTxn, ContextTxn, DecideTxn
    <2> HIDE DEF t
    <2> QED  BY <2>1, <2>2, SerialKeep
  <1>3. CASE ScheduleRead(h, u, c)
    <2> DEFINE t == [op |-> "schedule", c |-> c, moves |-> change[c].status = "APPROVAL"]
    <2>1. Keep(h, t) /\ t.c = c
      BY <1>3 DEF ScheduleRead
    <2>2. Fresh(t)
      BY <1>3 DEF ScheduleRead, Fresh, FreshRow, FreshRequest, EditTxn, GateTxn,
         AdvanceTxn, ScheduleTxn, PlainTxn, FindTxn, SubmitTxn, ContextTxn, DecideTxn
    <2> HIDE DEF t
    <2> QED  BY <2>1, <2>2, SerialKeep
  <1>4. CASE RollbackRead(h, u, c)
    <2> DEFINE t == [op |-> "rollback", c |-> c]
    <2>1. Keep(h, t) /\ t.c = c
      BY <1>4 DEF RollbackRead
    <2>2. Fresh(t)
      BY <1>4 DEF RollbackRead, Fresh, FreshRow, FreshRequest, EditTxn, GateTxn,
         AdvanceTxn, ScheduleTxn, PlainTxn, FindTxn, SubmitTxn, ContextTxn, DecideTxn
    <2> HIDE DEF t
    <2> QED  BY <2>1, <2>2, SerialKeep
  <1>5. CASE PirRead(h, u, c)
    <2> DEFINE t == [op |-> "pir", c |-> c]
    <2>1. Keep(h, t) /\ t.c = c
      BY <1>5 DEF PirRead
    <2>2. Fresh(t)
      BY <1>5 DEF PirRead, Fresh, FreshRow, FreshRequest, EditTxn, GateTxn,
         AdvanceTxn, ScheduleTxn, PlainTxn, FindTxn, SubmitTxn, ContextTxn, DecideTxn
    <2> HIDE DEF t
    <2> QED  BY <2>1, <2>2, SerialKeep
  <1>6. CASE SubmitRead(h, u, c)
    <2> DEFINE t == [op |-> "submit", at |-> "find", c |-> c, risk |-> change[c].risk]
    <2>1. Keep(h, t) /\ t.c = c
      BY <1>6 DEF SubmitRead
    <2>2. Fresh(t)
      BY <1>6 DEF SubmitRead, Fresh, FreshRow, FreshRequest, EditTxn, GateTxn,
         AdvanceTxn, ScheduleTxn, PlainTxn, FindTxn, SubmitTxn, ContextTxn, DecideTxn
    <2> HIDE DEF t
    <2> QED  BY <2>1, <2>2, SerialKeep
  <1>7. CASE ApproveReadRow(h, u, c)
    <2> DEFINE t == [op |-> "approve", at |-> "step", c |-> c, user |-> u,
                    waiting |-> change[c].status = "APPROVAL", risk |-> change[c].risk]
    <2>1. Keep(h, t) /\ t.c = c
      BY <1>7 DEF ApproveReadRow
    <2>2. Fresh(t)
      BY <1>7 DEF ApproveReadRow, Fresh, FreshRow, FreshRequest, EditTxn, GateTxn,
         AdvanceTxn, ScheduleTxn, PlainTxn, FindTxn, SubmitTxn, ContextTxn, DecideTxn
    <2> HIDE DEF t
    <2> QED  BY <2>1, <2>2, SerialKeep
  <1> QED  BY <1>1, <1>2, <1>3, <1>4, <1>5, <1>6, <1>7 DEF Begin

(* A handler that is at work, its record and its row. *)
LEMMA AtWork ==
    ASSUME TypeInv, SerialInv, NEW h \in Handlers, Continue(h)
    PROVE  /\ handler[h] \in HandlerState /\ handler[h] # Idle /\ Fresh(handler[h])
           /\ handler[h].c \in Changes /\ change[handler[h].c] # NoRow
           /\ change[handler[h].c] \in ChangeRow
  <1>1. handler[h] # Idle
    <2>1. CASE Abort(h)
      BY <2>1 DEF Abort
    <2>2. CASE ~Abort(h)
      <3>1. handler[h].op # "idle"
        BY <2>2 DEF Continue, EditWrite, AdvanceGate, AdvanceWrite, ScheduleWrite,
           RollbackWrite, PirWrite, SubmitFind, SubmitWrite, ApproveReadStep, DecisionRead,
           DecisionWrite
      <3> QED  BY <3>1 DEF Idle
    <2> QED  BY <2>1, <2>2
  <1> QED  BY <1>1, HandlerRow DEF TypeInv, TypeOK, SerialInv

(* The later reads. *)
LEMMA GateSerial ==
    ASSUME Alone, TypeInv, CancelledSuperseded, GrantInv, SerialInv,
           NEW h \in Handlers, AdvanceGate(h)
    PROVE  SerialInv'
  <1> DEFINE t == handler[h]
             n == [op |-> "advance", at |-> "write", c |-> t.c, from |-> t.row.status]
  <1>1. /\ t \in HandlerState /\ t.c \in Changes /\ change[t.c] \in ChangeRow
        /\ Fresh(t) /\ HandlerGranted(t)
    BY AtWork DEF Continue, GrantInv
  <1>2. t \in GateTxn
    BY <1>1, HandlerShape DEF AdvanceGate
  <1>3. Keep(h, n) /\ n.c = t.c
    BY DEF AdvanceGate
  <1>4. change[t.c].status = t.row.status /\ change[t.c].type = t.row.type
    BY <1>1, <1>2 DEF Fresh, FreshRow, HandlerGranted
  <1>5. PICK ack \in BOOLEAN : CanAdvance(t.row, ApprovalStatusOf(t.c), ack)
    BY DEF AdvanceGate
  <1>6. ApprovalStatusOf(t.c) \in ApprovalStatus \cup {"NONE"}
    <2>1. CASE \E s \in Stamps : IsLatest(t.c, s)
      <3>1. PICK s \in Stamps : IsLatest(t.c, s) /\ ApprovalStatusOf(t.c) = request[t.c][s].status
        BY <2>1 DEF ApprovalStatusOf
      <3>2. request[t.c][s] \in RequestRow
        BY <1>1, <3>1 DEF IsLatest, Opened, TypeInv, TypeOK
      <3> QED  BY <3>1, <3>2 DEF RequestRow
    <2>2. CASE ~\E s \in Stamps : IsLatest(t.c, s)
      BY <2>2 DEF ApprovalStatusOf
    <2> QED  BY <2>1, <2>2
  <1>7. ApprovalStatusOf(t.c) # "CANCELLED"
    BY <1>1, LatestLives
  <1>8. Passed(t.c, t.row.status)
    <2>1. CASE t.row.status = "APPROVAL"
      BY <1>4, <1>5, <2>1 DEF CanAdvance, ApprovalGate, Passed
    <2>2. CASE t.row.status = "PIR"
      BY <1>4, <1>5, <1>6, <1>7, <2>2 DEF CanAdvance, PirGate, Passed, ApprovalStatus,
         Decision
    <2>3. CASE t.row.status \notin {"APPROVAL", "PIR"}
      BY <2>3 DEF Passed
    <2> QED  BY <2>1, <2>2, <2>3
  <1>9. Fresh(n)
    BY <1>4, <1>8 DEF Fresh, FreshRow, FreshRequest, EditTxn, GateTxn, AdvanceTxn,
       ScheduleTxn, PlainTxn, FindTxn, SubmitTxn, ContextTxn, DecideTxn
  <1> HIDE DEF n, t
  <1> QED  BY <1>1, <1>3, <1>9, SerialKeep

LEMMA FindSerial ==
    ASSUME Alone, TypeInv, SerialInv, NEW h \in Handlers, SubmitFind(h)
    PROVE  SerialInv'
  <1> DEFINE t == handler[h]
             n == [op |-> "submit", at |-> "write", c |-> t.c, risk |-> t.risk,
                   stale |-> Highest(PendingStamps(t.c)), floor |-> Highest(Opened(t.c))]
  <1>1. t \in HandlerState /\ t.c \in Changes /\ Fresh(t)
    BY AtWork DEF Continue
  <1>2. t \in FindTxn
    BY <1>1, HandlerShape DEF SubmitFind
  <1>3. Keep(h, n) /\ n.c = t.c
    BY DEF SubmitFind
  <1>4. change[t.c].status = "ASSESSING" /\ t.risk = change[t.c].risk
    BY <1>1, <1>2 DEF Fresh, FreshRow
  <1>5. Highest(PendingStamps(t.c)) # 0 =>
           request[t.c][Highest(PendingStamps(t.c))].status = "PENDING"
    <2>1. Highest(PendingStamps(t.c)) \in {0} \cup PendingStamps(t.c)
      BY HighestInSet DEF PendingStamps, Opened
    <2> QED  BY <2>1 DEF PendingStamps
  <1>6. \A s \in Opened(t.c) : s <= Highest(Opened(t.c))
    BY HighestAbove DEF Opened
  <1>7. FreshRow(n)
    BY <1>4 DEF FreshRow, EditTxn, GateTxn, AdvanceTxn,
       ScheduleTxn, PlainTxn, FindTxn, SubmitTxn, ContextTxn, DecideTxn
  <1>8. FreshRequest(n)
    BY <1>5, <1>6 DEF FreshRequest, SubmitTxn, DecideTxn
  <1> HIDE DEF n, t
  <1> QED  BY <1>1, <1>3, <1>7, <1>8, SerialKeep DEF Fresh

LEMMA StepSerial ==
    ASSUME Alone, TypeInv, SerialInv, NEW h \in Handlers, ApproveReadStep(h)
    PROVE  SerialInv'
  <1> DEFINE t == handler[h]
  <1>1. t \in HandlerState /\ t.c \in Changes /\ Fresh(t)
    BY AtWork DEF Continue
  <1>2. t \in ContextTxn
    BY <1>1, HandlerShape DEF ApproveReadStep
  <1>3. PICK s \in Stamps, k \in Order, override \in BOOLEAN :
           /\ IsLatest(t.c, s) /\ request[t.c][s].status = "PENDING"
           /\ Keep(h, [op |-> "approve", at |-> "decide", c |-> t.c, user |-> t.user,
                       waiting |-> t.waiting, stamp |-> s, order |-> k,
                       override |-> override])
    BY DEF ApproveReadStep
  <1> DEFINE n == [op |-> "approve", at |-> "decide", c |-> t.c, user |-> t.user,
                   waiting |-> t.waiting, stamp |-> s, order |-> k, override |-> override]
  <1>4. t.waiting = (change[t.c].status = "APPROVAL")
    BY <1>1, <1>2 DEF Fresh, FreshRow
  <1>5. Fresh(n) /\ n.c = t.c
    BY <1>3, <1>4 DEF Fresh, FreshRow, FreshRequest, EditTxn, GateTxn, AdvanceTxn,
       ScheduleTxn, PlainTxn, FindTxn, SubmitTxn, ContextTxn, DecideTxn
  <1>6. Keep(h, n)
    BY <1>3
  <1> HIDE DEF n, t
  <1> QED  BY <1>1, <1>5, <1>6, SerialKeep

LEMMA ReadSerial ==
    ASSUME Alone, TypeInv, SerialInv, NEW h \in Handlers, DecisionRead(h)
    PROVE  SerialInv'
  <1> DEFINE t == handler[h]
             n == [t EXCEPT !.at = "write"]
  <1>1. t \in HandlerState /\ t.c \in Changes /\ Fresh(t)
    BY AtWork DEF Continue
  <1>2. t \in DecideTxn
    BY <1>1, HandlerShape DEF DecisionRead
  <1>3. Keep(h, n) /\ n.op = "approve" /\ n.c = t.c /\ n.stamp = t.stamp /\ n.waiting = t.waiting
    BY <1>2 DEF DecisionRead, DecideTxn
  <1>4. /\ t.waiting = (change[t.c].status = "APPROVAL")
        /\ IsLatest(t.c, t.stamp) /\ request[t.c][t.stamp].status = "PENDING"
    BY <1>1, <1>2 DEF Fresh, FreshRow, FreshRequest
  <1> HIDE DEF n, t
  <1>5. Fresh(n)
    BY <1>3, <1>4 DEF Fresh, FreshRow, FreshRequest, EditTxn, GateTxn, AdvanceTxn,
       ScheduleTxn, PlainTxn, FindTxn, SubmitTxn, ContextTxn, DecideTxn
  <1> QED  BY <1>1, <1>3, <1>5, SerialKeep

-----------------------------------------------------------------------------
(* What the six writes that leave the engine alone do to their change. *)

StageKept(c) == change'[c].status = change[c].status /\ notices'[c] = notices[c]

StageMoved(c) ==
    LET from == change[c].status
        to == change'[c].status
    IN  /\ from \in Status /\ to \in CHANGE_TRANSITIONS[from]
        /\ to # "APPROVAL" /\ ~(from = "APPROVAL" /\ to = "ASSESSING")
        /\ to = "SCHEDULED" => change[c].type = "EMERGENCY" \/ ApprovalStatusOf(c) = "APPROVED"
        /\ to = "CLOSED" /\ change[c].type = "EMERGENCY" => ApprovalStatusOf(c) \in Decision
        /\ notices'[c] = IF to = "SCHEDULED" THEN notices[c] + 1 ELSE notices[c]

RowWritten(h, c) ==
    /\ Finish(h) /\ request' = request
    /\ change[c] # NoRow /\ change'[c] # NoRow
    /\ \A d \in Changes : d # c => change'[d] = change[d] /\ notices'[d] = notices[d]
    /\ change'[c].type = change[c].type
    /\ change'[c].risk = change[c].risk \/ change[c].status \in Unsubmitted
    /\ StageKept(c) \/ StageMoved(c)

LEMMA AdvanceRow ==
    ASSUME TypeInv, SerialInv, NEW h \in Handlers, AdvanceWrite(h),
           NEW c \in Changes, c = handler[h].c
    PROVE  RowWritten(h, c)
  <1> DEFINE t == handler[h]
             to == CHANGE_FORWARD[t.from]
             row == [change[c] EXCEPT !.status = to]
  <1>1. t \in HandlerState /\ Fresh(t) /\ change[c] # NoRow /\ change[c] \in ChangeRow
    BY AtWork DEF Continue
  <1>2. t \in AdvanceTxn
    BY <1>1, HandlerShape DEF AdvanceWrite
  <1>3. change[c].status = t.from /\ Passed(c, t.from) /\ t.from \in DOMAIN CHANGE_FORWARD
    BY <1>1, <1>2 DEF Fresh, FreshRow, AdvanceTxn
  <1>4. /\ change' = [change EXCEPT ![c] = row]
        /\ notices' = [notices EXCEPT ![c] = IF to = "SCHEDULED" THEN @ + 1 ELSE @]
        /\ request' = request /\ Finish(h)
    BY DEF AdvanceWrite, SetStatus, NotifyIf
  <1>5. /\ row.status = to /\ row.type = change[c].type /\ row.risk = change[c].risk
        /\ row \in ChangeRow
    BY <1>1, <1>3, ForwardIsStatus DEF ChangeRow
  <1>6. row # NoRow
    BY <1>5, NoRowAssumption
  <1>7. /\ t.from \in Status /\ to \in CHANGE_TRANSITIONS[t.from]
        /\ to # "APPROVAL" /\ (to # "ASSESSING" \/ t.from = "DRAFT")
        /\ to = "SCHEDULED" => t.from = "APPROVAL"
        /\ to = "CLOSED" => t.from = "PIR"
    BY <1>3 DEF CHANGE_FORWARD, CHANGE_TRANSITIONS, Status
  <1> HIDE DEF row, to, t
  <1>8. /\ change'[c] = row
        /\ \A d \in Changes : d # c => change'[d] = change[d] /\ notices'[d] = notices[d]
        /\ notices'[c] = IF to = "SCHEDULED" THEN notices[c] + 1 ELSE notices[c]
    BY <1>4 DEF TypeInv, TypeOK
  <1>9. StageMoved(c)
    BY <1>3, <1>5, <1>7, <1>8 DEF StageMoved, Passed
  <1> QED  BY <1>1, <1>4, <1>5, <1>6, <1>8, <1>9 DEF RowWritten

LEMMA ScheduleRow ==
    ASSUME TypeInv, SerialInv, NEW h \in Handlers, ScheduleWrite(h),
           NEW c \in Changes, c = handler[h].c
    PROVE  RowWritten(h, c)
  <1> DEFINE t == handler[h]
             to == IF t.moves THEN "SCHEDULED" ELSE change[c].status
             row == [change[c] EXCEPT !.window = "future", !.status = to]
  <1>1. t \in HandlerState /\ Fresh(t) /\ change[c] # NoRow /\ change[c] \in ChangeRow
    BY AtWork DEF Continue
  <1>2. t \in ScheduleTxn
    BY <1>1, HandlerShape DEF ScheduleWrite
  <1>3. t.moves = (change[c].status = "APPROVAL")
    BY <1>1, <1>2 DEF Fresh, FreshRow
  <1>4. /\ change' = [change EXCEPT ![c].window = "future",
                                    ![c].status = IF t.moves THEN "SCHEDULED" ELSE @]
        /\ notices' = [notices EXCEPT ![c] = IF t.moves THEN @ + 1 ELSE @]
        /\ request' = request /\ Finish(h)
        /\ t.moves => ApprovalStatusOf(c) = "APPROVED" \/ change[c].type = "EMERGENCY"
    BY DEF ScheduleWrite, NotifyIf
  <1>5. change'[c] = row /\ \A d \in Changes : d # c => change'[d] = change[d]
    BY <1>4 DEF TypeInv, TypeOK
  <1>6. /\ row.status = to /\ row.type = change[c].type /\ row.risk = change[c].risk
        /\ row \in ChangeRow
    BY <1>1 DEF ChangeRow, Status
  <1>7. row # NoRow
    BY <1>6, NoRowAssumption
  <1>8. /\ \A d \in Changes : d # c => notices'[d] = notices[d]
        /\ notices'[c] = IF t.moves THEN notices[c] + 1 ELSE notices[c]
    BY <1>4 DEF TypeInv, TypeOK
  <1>9. CASE t.moves
    <2>1. change[c].status = "APPROVAL" /\ to = "SCHEDULED"
      BY <1>3, <1>9
    <2> HIDE DEF row, to, t
    <2>2. StageMoved(c)
      BY <1>4, <1>5, <1>6, <1>8, <1>9, <2>1 DEF StageMoved, CHANGE_TRANSITIONS, Status
    <2> QED  BY <1>1, <1>4, <1>5, <1>6, <1>7, <1>8, <2>2 DEF RowWritten
  <1>10. CASE ~t.moves
    <2>1. to = change[c].status
      BY <1>10
    <2> HIDE DEF row, to, t
    <2>2. StageKept(c)
      BY <1>5, <1>6, <1>8, <1>10, <2>1 DEF StageKept
    <2> QED  BY <1>1, <1>4, <1>5, <1>6, <1>7, <1>8, <2>2 DEF RowWritten
  <1> QED  BY <1>9, <1>10

LEMMA RollbackRow ==
    ASSUME TypeInv, SerialInv, NEW h \in Handlers, RollbackWrite(h),
           NEW c \in Changes, c = handler[h].c
    PROVE  RowWritten(h, c)
  <1> DEFINE t == handler[h]
             row == [change[c] EXCEPT !.status = "ROLLED_BACK"]
  <1>1. t \in HandlerState /\ Fresh(t) /\ change[c] # NoRow /\ change[c] \in ChangeRow
    BY AtWork DEF Continue
  <1>2. t \in PlainTxn /\ t.op = "rollback"
    BY <1>1, HandlerShape DEF RollbackWrite
  <1>3. change[c].status = "IMPLEMENTING"
    BY <1>1, <1>2 DEF Fresh, FreshRow
  <1>4. change' = [change EXCEPT ![c] = row] /\ UNCHANGED <<request, notices>> /\ Finish(h)
    BY DEF RollbackWrite, SetStatus
  <1>5. /\ row.status = "ROLLED_BACK" /\ row.type = change[c].type
        /\ row.risk = change[c].risk /\ row \in ChangeRow
    BY <1>1 DEF ChangeRow, Status
  <1>6. row # NoRow
    BY <1>5, NoRowAssumption
  <1> HIDE DEF row, t
  <1>7. change'[c] = row /\ \A d \in Changes : d # c => change'[d] = change[d]
    BY <1>4 DEF TypeInv, TypeOK
  <1>8. StageMoved(c)
    BY <1>3, <1>4, <1>5, <1>7 DEF StageMoved, CHANGE_TRANSITIONS, Status
  <1> QED  BY <1>1, <1>4, <1>5, <1>6, <1>7, <1>8 DEF RowWritten

LEMMA EditRow ==
    ASSUME TypeInv, SerialInv, NEW h \in Handlers, EditWrite(h),
           NEW c \in Changes, c = handler[h].c
    PROVE  RowWritten(h, c)
  <1> DEFINE t == handler[h]
             risk == IF t.input.risk = "keep" THEN change[c].risk ELSE t.input.risk
             row == [change[c] EXCEPT !.risk = risk, !.text = @ \cup t.input.text]
  <1>1. t \in HandlerState /\ Fresh(t) /\ change[c] # NoRow /\ change[c] \in ChangeRow
    BY AtWork DEF Continue
  <1>2. t \in EditTxn
    BY <1>1, HandlerShape DEF EditWrite
  <1>3. t.input.risk # "keep" => change[c].status \in Unsubmitted
    BY <1>1, <1>2 DEF Fresh, FreshRow, EDIT_LOCKED_STATUSES, RISK_LOCKED_STATUSES, ChangeRow,
       Status, Unsubmitted
  <1>4. /\ change' = [change EXCEPT ![c].risk = IF t.input.risk = "keep" THEN @ ELSE t.input.risk,
                                    ![c].text = @ \cup t.input.text]
        /\ UNCHANGED <<request, notices>> /\ Finish(h)
    BY DEF EditWrite
  <1>5. change'[c] = row /\ \A d \in Changes : d # c => change'[d] = change[d]
    BY <1>4 DEF TypeInv, TypeOK
  <1>6. t.input \in [risk : Level \cup {"keep"}, text : SUBSET Text]
    BY <1>2, EditAssumption DEF EditTxn
  <1>7. risk \in Level \cup {"unset"} /\ t.input.text \in SUBSET Text
    BY <1>1, <1>6 DEF ChangeRow, Level
  <1>8. /\ row.status = change[c].status /\ row.type = change[c].type
        /\ row.risk = risk /\ row \in ChangeRow
    BY <1>1, <1>7 DEF ChangeRow
  <1>9. row # NoRow
    BY <1>8, NoRowAssumption
  <1>10. risk = change[c].risk \/ change[c].status \in Unsubmitted
    BY <1>3
  <1> HIDE DEF row, risk, t
  <1>11. StageKept(c)
    BY <1>4, <1>5, <1>8 DEF StageKept
  <1> QED  BY <1>1, <1>4, <1>5, <1>8, <1>9, <1>10, <1>11 DEF RowWritten

LEMMA PirRow ==
    ASSUME TypeInv, SerialInv, NEW h \in Handlers, PirWrite(h),
           NEW c \in Changes, c = handler[h].c
    PROVE  RowWritten(h, c)
  <1> DEFINE row == [change[c] EXCEPT !.pir = TRUE]
  <1>1. change[c] # NoRow /\ change[c] \in ChangeRow
    BY AtWork DEF Continue
  <1>2. change' = [change EXCEPT ![c] = row] /\ UNCHANGED <<request, notices>> /\ Finish(h)
    BY DEF PirWrite
  <1>3. /\ row.status = change[c].status /\ row.type = change[c].type
        /\ row.risk = change[c].risk /\ row \in ChangeRow
    BY <1>1 DEF ChangeRow
  <1>4. row # NoRow
    BY <1>3, NoRowAssumption
  <1> HIDE DEF row
  <1>5. change'[c] = row /\ \A d \in Changes : d # c => change'[d] = change[d]
    BY <1>2 DEF TypeInv, TypeOK
  <1>6. StageKept(c)
    BY <1>2, <1>3, <1>5 DEF StageKept
  <1> QED  BY <1>1, <1>2, <1>3, <1>4, <1>5, <1>6 DEF RowWritten

LEMMA AbortRow ==
    ASSUME TypeInv, SerialInv, NEW h \in Handlers, Abort(h),
           NEW c \in Changes, c = handler[h].c
    PROVE  RowWritten(h, c)
  <1>1. change[c] # NoRow
    BY AtWork DEF Continue
  <1> QED  BY <1>1 DEF Abort, RowWritten, StageKept

(* The invariant through such a write. *)
LEMMA RowSerial ==
    ASSUME Alone, TypeInv, SerialInv, NEW h \in Handlers, NEW c \in Changes,
           c = handler[h].c, RowWritten(h, c)
    PROVE  SerialInv'
  <1>1. ChangeFits(c)
    BY DEF SerialInv
  <1>2. CASE StageKept(c)
    <2>1. ChangeFits(c)'
      BY <1>1, <1>2, MoveFits DEF RowWritten, StageKept
    <2> QED  BY <2>1, SerialFinish DEF RowWritten
  <1>3. CASE StageMoved(c)
    <2>1. /\ change'[c].status \in Unsubmitted => change[c].status \in Unsubmitted
          /\ change'[c].status = "APPROVAL" => change[c].status = "APPROVAL"
          /\ change'[c].status = "SCHEDULED" => change[c].status = "APPROVAL"
      BY <1>3 DEF StageMoved, CHANGE_TRANSITIONS, Unsubmitted, Status
    <2>2. \/ notices'[c] = notices[c]
          \/ /\ change[c].status = "APPROVAL" /\ change'[c].status = "SCHEDULED"
             /\ notices'[c] = notices[c] + 1
      BY <1>3, <2>1 DEF StageMoved
    <2>3. ChangeFits(c)'
      BY <1>1, <2>1, <2>2, MoveFits DEF RowWritten
    <2> QED  BY <2>3, SerialFinish DEF RowWritten
  <1> QED  BY <1>2, <1>3 DEF RowWritten

-----------------------------------------------------------------------------
(* What a submission does. *)

ResolvedKept(c) ==
    \A s \in Stamps : request[c][s] # NoRow /\ request[c][s].status \in Decision
                         => request'[c][s] = request[c][s]

Submitted(h, c) ==
    /\ Finish(h) /\ UNCHANGED notices
    /\ change[c] # NoRow /\ change[c].status = "ASSESSING"
    /\ change'[c] # NoRow /\ change'[c].status = "APPROVAL"
    /\ change'[c].type = change[c].type /\ change'[c].risk = change[c].risk
    /\ \A d \in Changes : d # c => change'[d] = change[d] /\ request'[d] = request[d]
    /\ ResolvedKept(c)
    /\ \E s \in Stamps : /\ IsLatest(c, s)'
                         /\ request'[c][s].status = "PENDING"
                         /\ request'[c][s].policy = PolicyFor(change[c].risk)

LEMMA SubmitRow ==
    ASSUME TypeInv, SerialInv, NEW h \in Handlers, SubmitWrite(h),
           NEW c \in Changes, c = handler[h].c
    PROVE  Submitted(h, c)
  <1> DEFINE t == handler[h]
             row == [change[c] EXCEPT !.status = "APPROVAL"]
             new == NewRequest(t)
  <1>1. t \in HandlerState /\ Fresh(t) /\ change[c] # NoRow /\ change[c] \in ChangeRow
    BY AtWork DEF Continue
  <1>2. t \in SubmitTxn
    BY <1>1, HandlerShape DEF SubmitWrite
  <1>3. /\ t.stale \in 0..MaxStamp /\ t.floor \in 0..MaxStamp
        /\ change[c].status = "ASSESSING" /\ t.risk = change[c].risk
        /\ t.stale # 0 => request[c][t.stale].status = "PENDING"
        /\ \A s \in Opened(c) : s <= t.floor
    BY <1>1, <1>2 DEF Fresh, FreshRow, FreshRequest, SubmitTxn
  <1>4. PICK s \in Stamps \ Opened(c) :
           /\ s > t.floor
           /\ request' = [request EXCEPT ![c] =
                [i \in Stamps |-> IF i = s THEN new
                                  ELSE IF i = t.stale THEN Cancelled(@[i]) ELSE @[i]]]
    BY DEF SubmitWrite
  <1>5. change' = [change EXCEPT ![c] = row] /\ UNCHANGED notices /\ Finish(h)
    BY DEF SubmitWrite, SetStatus
  <1>6. new # NoRow /\ new.status = "PENDING" /\ new.policy = PolicyFor(change[c].risk)
    BY <1>1, <1>2, <1>3, RequestType, NoRowAssumption DEF NewRequest
  <1>7. /\ row.status = "APPROVAL" /\ row.type = change[c].type /\ row.risk = change[c].risk
        /\ row \in ChangeRow /\ row # NoRow
    BY <1>1, NoRowAssumption DEF ChangeRow, Status
  <1>8. t.stale \in Stamps => t.stale # 0
    BY StampAssumption DEF Stamps
  <1> HIDE DEF t, row, new
  <1>9. change'[c] = row /\ \A d \in Changes : d # c => change'[d] = change[d]
    BY <1>5 DEF TypeInv, TypeOK
  <1>10. /\ request'[c][s] = new
         /\ \A i \in Stamps : i # s /\ i # t.stale => request'[c][i] = request[c][i]
         /\ \A d \in Changes : d # c => request'[d] = request[d]
    BY <1>4 DEF TypeInv, TypeOK
  <1>11. ResolvedKept(c)
    <2> SUFFICES ASSUME NEW i \in Stamps, request[c][i] # NoRow,
                        request[c][i].status \in Decision
                 PROVE  request'[c][i] = request[c][i]
      BY DEF ResolvedKept
    <2>1. i # s
      BY <1>4 DEF Opened
    <2>2. i # t.stale
      BY <1>3, <1>8 DEF Decision
    <2> QED  BY <1>10, <2>1, <2>2
  <1>12. IsLatest(c, s)'
    <2>1. s \in Opened(c)'
      BY <1>6, <1>10 DEF Opened
    <2>2. ASSUME NEW i \in Opened(c)' PROVE i <= s
      <3>1. i \in Stamps /\ s \in Stamps /\ Stamps \subseteq Nat
        BY <2>2, StampAssumption DEF Opened, Stamps
      <3>2. CASE i = s
        BY <3>1, <3>2
      <3>3. CASE i # s
        <4>1. i \in Opened(c)
          <5>1. CASE i = t.stale
            <6>1. t.stale = 0 \/ request[c][t.stale] # NoRow
              BY <1>2 DEF TypeInv, Referenced, t
            <6> QED  BY <1>8, <3>1, <5>1, <6>1 DEF Opened
          <5>2. CASE i # t.stale
            BY <1>10, <2>2, <3>1, <3>3, <5>2 DEF Opened
          <5> QED  BY <5>1, <5>2
        <4> QED  BY <1>3, <1>4, <3>1, <4>1
      <3> QED  BY <3>2, <3>3
    <2> QED  BY <2>1, <2>2 DEF IsLatest
  <1>13. request'[c][s].status = "PENDING" /\ request'[c][s].policy = PolicyFor(change[c].risk)
    BY <1>6, <1>10
  <1> QED  BY <1>1, <1>3, <1>5, <1>7, <1>9, <1>10, <1>11, <1>12, <1>13 DEF Submitted

LEMMA SubmitSerial ==
    ASSUME Alone, TypeInv, SerialInv, NEW h \in Handlers, NEW c \in Changes,
           Submitted(h, c)
    PROVE  SerialInv'
  <1>1. PICK s \in Stamps : /\ IsLatest(c, s)'
                            /\ request'[c][s].status = "PENDING"
                            /\ request'[c][s].policy = PolicyFor(change[c].risk)
    BY DEF Submitted
  <1>2. ApprovalStatusOf(c)' = "PENDING"
    BY <1>1, LatestStatusNext
  <1>3. RoundFits(c)'
    BY <1>2 DEF Submitted, RoundFits, Unsubmitted
  <1>4. PolicyFits(c)'
    <2> SUFFICES ASSUME NEW r \in Stamps, IsLatest(c, r)'
                 PROVE  request'[c][r].policy = PolicyFor(change'[c].risk)
      BY DEF PolicyFits
    <2>1. r = s
      BY <1>1, StampAssumption DEF IsLatest, Stamps
    <2> QED  BY <1>1, <2>1 DEF Submitted
  <1>5. NoticeFits(c)'
    BY DEF Submitted, SerialInv, ChangeFits, NoticeFits, Unsubmitted
  <1> QED  BY <1>3, <1>4, <1>5, SerialFinish DEF Submitted, ChangeFits

-----------------------------------------------------------------------------
(* What a decision does: it is about the latest request, which was pending. *)

Ruling(c, s) ==
    /\ IsLatest(c, s) /\ IsLatest(c, s)'
    /\ request[c][s].status = "PENDING"
    /\ request'[c][s].status \in {"PENDING", "APPROVED", "REJECTED"}
    /\ request'[c][s].policy = request[c][s].policy

SentBackFor(c, status) ==
    change'[c].status = IF status = "REJECTED" /\ change[c].status = "APPROVAL"
                        THEN "ASSESSING" ELSE change[c].status

RuledOn(h, c) ==
    /\ Finish(h) /\ UNCHANGED notices
    /\ change[c] # NoRow /\ change'[c] # NoRow
    /\ change'[c].type = change[c].type /\ change'[c].risk = change[c].risk
    /\ \A d \in Changes : d # c => change'[d] = change[d] /\ request'[d] = request[d]
    /\ ResolvedKept(c)
    /\ \E s \in Stamps : Ruling(c, s) /\ SentBackFor(c, request'[c][s].status)

LEMMA DecideRow ==
    ASSUME TypeInv, SerialInv, NEW h \in Handlers, DecisionWrite(h),
           NEW c \in Changes, c = handler[h].c
    PROVE  RuledOn(h, c)
  <1> DEFINE t == handler[h]
  <1>1. t \in HandlerState /\ Fresh(t) /\ change[c] # NoRow /\ change[c] \in ChangeRow
    BY AtWork DEF Continue
  <1>0. PICK s \in Stamps : s = t.stamp
    BY Decider
  <1> DEFINE req == request[c][s]
  <1>2. t \in DecideTxn /\ s \in Stamps /\ t.order \in Order /\ req # NoRow /\ req \in RequestRow
    BY <1>0, Decider
  <1>3. /\ t.waiting = (change[c].status = "APPROVAL")
        /\ IsLatest(c, s) /\ req.status = "PENDING"
    BY <1>0, <1>1, <1>2 DEF Fresh, FreshRow, FreshRequest
  <1>4. PICK kind \in Decision :
           LET after == Decided(req, t.order, kind)
           IN  /\ request' = [request EXCEPT ![c][s] = after]
               /\ IF SendsBack(t, after.step) THEN SetStatus(c, "ASSESSING")
                                              ELSE UNCHANGED change
    BY <1>0 DEF DecisionWrite
  <1> DEFINE after == Decided(req, t.order, kind)
  <1>5. /\ after \in RequestRow /\ after # NoRow
        /\ after.policy = req.policy
        /\ after.status = ResolveRequestStatus(after.step)
    <2>1. after \in RequestRow /\ after # NoRow
      BY <1>2, RequestType, NoRowAssumption
    <2>2. after.policy = req.policy
      BY <1>2 DEF Decided, RequestRow
    <2>3. after.step = [req.step EXCEPT ![t.order] = kind]
      BY <1>2, DecidedStep
    <2>4. after.status = ResolveRequestStatus([req.step EXCEPT ![t.order] = kind])
      BY <1>2, <1>3 DEF Decided, RequestRow
    <2> QED  BY <2>1, <2>2, <2>3, <2>4
  <1>6. after.status \in {"PENDING", "APPROVED", "REJECTED"}
    BY <1>5 DEF ResolveRequestStatus
  <1>7. SendsBack(t, after.step) <=> after.status = "REJECTED" /\ change[c].status = "APPROVAL"
    BY <1>3, <1>5 DEF SendsBack
  <1>8. Finish(h) /\ UNCHANGED notices
    BY DEF DecisionWrite
  <1> HIDE DEF t, req, after
  <1>9. /\ request' = [request EXCEPT ![c][s] = after]
        /\ IF SendsBack(t, after.step) THEN SetStatus(c, "ASSESSING") ELSE UNCHANGED change
    BY <1>4 DEF after
  <1>10. /\ request'[c][s] = after /\ request[c][s] = req
         /\ \A r \in Stamps : r # s => request'[c][r] = request[c][r]
         /\ \A d \in Changes : d # c => request'[d] = request[d]
    BY <1>2, <1>9 DEF TypeInv, TypeOK, req
  <1>11. /\ SentBackFor(c, after.status)
         /\ change'[c] # NoRow /\ change'[c].type = change[c].type
         /\ change'[c].risk = change[c].risk
         /\ \A d \in Changes : d # c => change'[d] = change[d]
    <2>1. CASE ~SendsBack(t, after.step)
      BY <1>1, <1>7, <1>9, <2>1 DEF SentBackFor
    <2>2. CASE SendsBack(t, after.step)
      <3> DEFINE row == [change[c] EXCEPT !.status = "ASSESSING"]
      <3>1. change' = [change EXCEPT ![c] = row]
        BY <1>9, <2>2 DEF SetStatus
      <3>2. /\ row \in ChangeRow /\ row # NoRow /\ row.status = "ASSESSING"
            /\ row.type = change[c].type /\ row.risk = change[c].risk
        BY <1>1, NoRowAssumption DEF ChangeRow, Status
      <3> HIDE DEF row
      <3>3. change'[c] = row /\ \A d \in Changes : d # c => change'[d] = change[d]
        BY <3>1 DEF TypeInv, TypeOK
      <3> QED  BY <1>7, <2>2, <3>2, <3>3 DEF SentBackFor
    <2> QED  BY <2>1, <2>2
  <1>12. Opened(c)' = Opened(c)
    BY <1>2, <1>5, <1>10 DEF Opened
  <1>13. IsLatest(c, s)'
    <2>1. s \in Opened(c)' /\ \A r \in Opened(c)' : r <= s
      BY <1>3, <1>12 DEF IsLatest
    <2> QED  BY <2>1 DEF IsLatest
  <1>14. ResolvedKept(c)
    BY <1>3, <1>10 DEF ResolvedKept, Decision
  <1>15. Ruling(c, s) /\ SentBackFor(c, request'[c][s].status)
    BY <1>3, <1>5, <1>6, <1>10, <1>11, <1>13 DEF Ruling
  <1> QED  BY <1>1, <1>2, <1>8, <1>10, <1>11, <1>14, <1>15 DEF RuledOn

LEMMA DecideSerial ==
    ASSUME Alone, TypeInv, SerialInv, NEW h \in Handlers, NEW c \in Changes, RuledOn(h, c)
    PROVE  SerialInv'
  <1>1. PICK s \in Stamps : Ruling(c, s) /\ SentBackFor(c, request'[c][s].status)
    BY DEF RuledOn
  <1>2. ApprovalStatusOf(c)' = request'[c][s].status /\ ApprovalStatusOf(c) = "PENDING"
    BY <1>1, LatestStatus, LatestStatusNext DEF Ruling
  <1>3. ChangeFits(c)
    BY DEF SerialInv
  <1>4. change[c].status \notin Unsubmitted
    BY <1>2, <1>3 DEF RuledOn, ChangeFits, RoundFits
  <1>5. RoundFits(c)'
    BY <1>1, <1>2, <1>4 DEF RuledOn, Ruling, SentBackFor, RoundFits, Unsubmitted
  <1>6. PolicyFits(c)'
    <2> SUFFICES ASSUME NEW r \in Stamps, IsLatest(c, r)'
                 PROVE  request'[c][r].policy = PolicyFor(change'[c].risk)
      BY DEF PolicyFits
    <2>1. r = s
      BY <1>1, StampAssumption DEF Ruling, IsLatest, Stamps
    <2>2. request[c][s].policy = PolicyFor(change[c].risk)
      BY <1>1, <1>3 DEF Ruling, ChangeFits, PolicyFits
    <2> QED  BY <1>1, <2>1, <2>2 DEF Ruling, RuledOn
  <1>7. NoticeFits(c)'
    BY <1>1, <1>3, <1>4 DEF RuledOn, SentBackFor, ChangeFits, NoticeFits, Unsubmitted
  <1> QED  BY <1>5, <1>6, <1>7, SerialFinish DEF RuledOn, ChangeFits

-----------------------------------------------------------------------------
(* Every step of the system has one of these five effects. *)

Unmoved(c) ==
    \/ change'[c] = change[c]
    \/ /\ change[c] # NoRow /\ change'[c] # NoRow
       /\ change'[c].status = change[c].status /\ change'[c].type = change[c].type

Created(c) ==
    /\ request' = request
    /\ change[c] = NoRow /\ change'[c] # NoRow
    /\ change'[c].status = "DRAFT" /\ change'[c].type \in ChangeType
    /\ \A d \in Changes : d # c => change'[d] = change[d]

SerialEffect ==
    \/ request' = request /\ \A c \in Changes : Unmoved(c)
    \/ \E c \in Changes : Created(c)
    \/ \E h \in Handlers, c \in Changes :
          RowWritten(h, c) \/ Submitted(h, c) \/ RuledOn(h, c)

LEMMA CreateEffect ==
    ASSUME TypeInv, SerialInv, NEW u \in Users, NEW c \in Changes, NEW new \in NewChanges,
           Insert(c, u, new)
    PROVE  Created(c) /\ SerialInv'
  <1> DEFINE row == [status |-> "DRAFT", type |-> new.type, owner |-> u,
                     risk |-> "unset", text |-> new.text, linked |-> new.linked,
                     window |-> "none", pir |-> FALSE]
  <1>1. row \in ChangeRow /\ row # NoRow /\ row.status = "DRAFT" /\ row.type \in ChangeType
    <2>1. new \in [type : ChangeType, text : SUBSET {"rfc"}, linked : BOOLEAN]
      BY NewAssumption
    <2>2. new.type \in ChangeType /\ new.text \in SUBSET Text /\ new.linked \in BOOLEAN
      BY <2>1 DEF Text
    <2>3. row \in ChangeRow
      BY <2>2 DEF ChangeRow, Status
    <2> QED  BY <2>2, <2>3, NoRowAssumption
  <1>2. change[c] = NoRow /\ change' = [change EXCEPT ![c] = row]
          /\ UNCHANGED <<request, handler, notices>>
    BY DEF Insert
  <1> HIDE DEF row
  <1>3. change'[c] = row /\ \A d \in Changes : d # c => change'[d] = change[d]
    BY <1>2 DEF TypeInv, TypeOK
  <1>4. ASSUME NEW d \in Changes PROVE ChangeFits(d)'
    <2>1. CASE d # c
      BY <1>2, <1>3, <2>1, QuietFits DEF SerialInv
    <2>2. CASE d = c
      <3>1. Opened(c) = {} /\ notices[c] = 0
        BY <1>2 DEF SerialInv, ChangeFits, RoundFits, NoticeFits
      <3>2. Opened(c)' = {} /\ notices'[c] = 0
        BY <1>2, <3>1 DEF Opened
      <3>3. ~\E s \in Stamps : IsLatest(c, s)'
        BY <3>2 DEF IsLatest
      <3>4. ApprovalStatusOf(c)' = "NONE"
        BY <3>3 DEF ApprovalStatusOf
      <3> QED  BY <1>1, <1>3, <2>2, <3>2, <3>3, <3>4 DEF ChangeFits, RoundFits, PolicyFits,
                  NoticeFits
    <2> QED  BY <2>1, <2>2
  <1>5. SerialInv'
    BY <1>2, <1>3, <1>4, SerialAside
  <1> QED  BY <1>1, <1>2, <1>3, <1>5 DEF Created

LEMMA ElapseEffect ==
    ASSUME TypeInv, SerialInv, NEW c \in Changes, WindowElapses(c)
    PROVE  /\ request' = request /\ \A d \in Changes : Unmoved(d)
           /\ SerialInv'
  <1> DEFINE row == [change[c] EXCEPT !.window = "past"]
  <1>1. change[c] # NoRow /\ change[c] \in ChangeRow
    BY DEF WindowElapses, TypeInv, TypeOK
  <1>2. /\ row \in ChangeRow /\ row # NoRow /\ row.status = change[c].status
        /\ row.type = change[c].type /\ row.risk = change[c].risk
    BY <1>1, NoRowAssumption DEF ChangeRow
  <1>3. change' = [change EXCEPT ![c] = row] /\ UNCHANGED <<request, handler, notices>>
    BY DEF WindowElapses
  <1> HIDE DEF row
  <1>4. change'[c] = row /\ \A d \in Changes : d # c => change'[d] = change[d]
    BY <1>3 DEF TypeInv, TypeOK
  <1>5. ChangeFits(c)'
    BY <1>1, <1>2, <1>3, <1>4, MoveFits DEF SerialInv
  <1>6. \A d \in Changes : ChangeFits(d)'
    BY <1>3, <1>4, <1>5, QuietFits DEF SerialInv
  <1>7. SerialInv'
    BY <1>2, <1>3, <1>4, <1>6, SerialAside
  <1> QED  BY <1>1, <1>2, <1>3, <1>4, <1>7 DEF Unmoved

LEMMA ContinueEffect ==
    ASSUME Alone, TypeInv, CancelledSuperseded, GrantInv, SerialInv,
           NEW h \in Handlers, Continue(h)
    PROVE  SerialEffect /\ SerialInv'
  <1>1. PICK c \in Changes : c = handler[h].c
    BY AtWork
  <1>2. CASE AdvanceGate(h) \/ SubmitFind(h) \/ ApproveReadStep(h) \/ DecisionRead(h)
    <2>1. UNCHANGED <<change, request>>
      BY <1>2 DEF AdvanceGate, SubmitFind, ApproveReadStep, DecisionRead, Keep
    <2>2. SerialInv'
      BY <1>2, GateSerial, FindSerial, StepSerial, ReadSerial
    <2> QED  BY <2>1, <2>2 DEF SerialEffect, Unmoved
  <1>3. CASE \/ AdvanceWrite(h) \/ ScheduleWrite(h) \/ RollbackWrite(h)
             \/ EditWrite(h) \/ PirWrite(h) \/ Abort(h)
    <2>1. RowWritten(h, c)
      BY <1>1, <1>3, AdvanceRow, ScheduleRow, RollbackRow, EditRow, PirRow, AbortRow
    <2> QED  BY <1>1, <2>1, RowSerial DEF SerialEffect
  <1>4. CASE SubmitWrite(h)
    <2>1. Submitted(h, c)
      BY <1>1, <1>4, SubmitRow
    <2> QED  BY <2>1, SubmitSerial DEF SerialEffect
  <1>5. CASE DecisionWrite(h)
    <2>1. RuledOn(h, c)
      BY <1>1, <1>5, DecideRow
    <2> QED  BY <2>1, DecideSerial DEF SerialEffect
  <1> QED  BY <1>2, <1>3, <1>4, <1>5 DEF Continue

LEMMA SerialStep ==
    ASSUME Alone, TypeInv, CancelledSuperseded, GrantInv, SerialInv, [Next]_vars
    PROVE  SerialEffect /\ SerialInv'
  <1>1. ASSUME NEW u \in Users, NEW c \in Changes,
               CreateChange(u, c) \/ CreateChangeFromDemand(u, c)
        PROVE  SerialEffect /\ SerialInv'
    <2>1. PICK new \in NewChanges : Insert(c, u, new)
      BY <1>1 DEF CreateChange, CreateChangeFromDemand, Insert
    <2> QED  BY <2>1, CreateEffect DEF SerialEffect
  <1>2. ASSUME NEW c \in Changes, WindowElapses(c) PROVE SerialEffect /\ SerialInv'
    BY <1>2, ElapseEffect DEF SerialEffect
  <1>3. ASSUME NEW h \in Handlers, NEW u \in Users, NEW c \in Changes, Begin(h, u, c)
        PROVE  SerialEffect /\ SerialInv'
    <2>1. UNCHANGED <<change, request>>
      BY <1>3 DEF Begin, EditRead, AdvanceRead, ScheduleRead, RollbackRead, PirRead,
         SubmitRead, ApproveReadRow, Keep
    <2> QED  BY <1>3, <2>1, BeginSerial DEF SerialEffect, Unmoved
  <1>4. CASE UNCHANGED vars
    <2>1. UNCHANGED <<change, request, handler, notices>>
      BY <1>4 DEF vars
    <2>2. SerialInv'
      BY <2>1, QuietFits, SerialAside DEF SerialInv
    <2> QED  BY <2>1, <2>2 DEF SerialEffect, Unmoved
  <1> QED  BY <1>1, <1>2, <1>3, <1>4, ContinueEffect DEF Next

LEMMA SerialInit == Init => SerialInv
  <1> SUFFICES ASSUME Init PROVE SerialInv
    OBVIOUS
  <1>1. \A c \in Changes : Opened(c) = {} /\ notices[c] = 0 /\ change[c] = NoRow
    BY DEF Init, Opened
  <1>2. \A c \in Changes : ChangeFits(c)
    BY <1>1 DEF ChangeFits, RoundFits, PolicyFits, NoticeFits, IsLatest
  <1>3. \A h \in Handlers : Fresh(handler[h])
    BY DEF Init, Fresh, FreshRow, FreshRequest, Idle, EditTxn, GateTxn, AdvanceTxn,
       ScheduleTxn, PlainTxn, FindTxn, SubmitTxn, ContextTxn, DecideTxn
  <1> QED  BY <1>2, <1>3 DEF SerialInv

(* With one handler, where a change stands, how its latest request stands,
   which policy that request follows and how often the schedule was announced
   fit each other, and what the handler has read stays true. *)
THEOREM SerialInvariant ==
    ASSUME Alone
    PROVE  Spec => [](TypeInv /\ CancelledSuperseded /\ GrantInv /\ SerialInv)
  <1>1. TypeInv /\ CancelledSuperseded /\ GrantInv /\ SerialInv /\ [Next]_vars => SerialInv'
    BY SerialStep
  <1>2. Spec => [](TypeInv /\ EngineInv /\ GrantInv /\ ReviewInv)
    BY ReviewInvariant
  <1>3. ReviewInv => CancelledSuperseded
    BY DEF ReviewInv
  <1> QED  BY <1>1, <1>2, <1>3, SerialInit, PTL DEF Spec

(* The latest request follows the policy of the risk level its change has: the
   level is locked from the submission on (change/service.ts:179-182). *)
THEOREM PolicyMatches == ASSUME Alone PROVE Spec => []PolicyMatchesRisk
  <1>1. SerialInv => PolicyMatchesRisk
    BY DEF SerialInv, ChangeFits, PolicyFits, PolicyMatchesRisk
  <1> QED  BY <1>1, SerialInvariant, PTL

(* "Moved to Scheduled" is announced once per change, whether the change got
   there by advancing or by scheduling (change/service.ts:680-681). *)
THEOREM Announced == ASSUME Alone PROVE Spec => []AnnouncedOnce
  <1>1. SerialInv => AnnouncedOnce
    BY DEF SerialInv, ChangeFits, NoticeFits, AnnouncedOnce
  <1> QED  BY <1>1, SerialInvariant, PTL

(* A NORMAL change that waits at APPROVAL has a request that is pending or was
   approved: nothing but two overlapping requests strands it. *)
THEOREM Unstranded == ASSUME Alone PROVE Spec => []NotStranded
  <1>1. SerialInv => NotStranded
    BY DEF SerialInv, ChangeFits, RoundFits, NotStranded
  <1> QED  BY <1>1, SerialInvariant, PTL

-----------------------------------------------------------------------------
(* Action properties: each of the five effects keeps them. *)

LEMMA ResolvedStep ==
    ASSUME TypeInv, SerialEffect, NEW c \in Changes
    PROVE  ResolvedKept(c)
  <1>1. CASE request' = request
    BY <1>1 DEF ResolvedKept
  <1>2. ASSUME NEW h \in Handlers, NEW d \in Changes, Submitted(h, d) \/ RuledOn(h, d)
        PROVE  ResolvedKept(c)
    <2>1. CASE d = c
      BY <1>2, <2>1 DEF Submitted, RuledOn
    <2>2. CASE d # c
      BY <1>2, <2>2 DEF Submitted, RuledOn, ResolvedKept
    <2> QED  BY <2>1, <2>2
  <1> QED  BY <1>1, <1>2 DEF SerialEffect, Created, RowWritten

(* A request that was approved or rejected never changes again: the submission
   cancels a pending one only (approval/service.ts, spec 04 section 3). *)
THEOREM ResolvedKeptAlone == ASSUME Alone PROVE Spec => ResolvedIsImmutable
  <1>1. TypeInv /\ CancelledSuperseded /\ GrantInv /\ SerialInv /\ [Next]_vars =>
           [\A c \in Changes, s \in Stamps :
               request[c][s] # NoRow /\ request[c][s].status \in Decision
                  => request'[c][s] = request[c][s]]_request
    BY SerialStep, ResolvedStep DEF ResolvedKept
  <1> QED  BY <1>1, SerialInvariant, PTL DEF Spec, ResolvedIsImmutable

LEMMA TerminalStep ==
    ASSUME TypeInv, SerialEffect, NEW c \in Changes, change[c] # NoRow,
           change[c].status \in Terminal
    PROVE  change'[c].status = change[c].status
  <1>1. CASE Unmoved(c)
    BY <1>1 DEF Unmoved
  <1>2. ASSUME NEW d \in Changes, Created(d) PROVE change'[c].status = change[c].status
    BY <1>2 DEF Created
  <1>3. ASSUME NEW h \in Handlers, NEW d \in Changes, RowWritten(h, d)
        PROVE  change'[c].status = change[c].status
    <2>1. CASE d # c
      BY <1>3, <2>1 DEF RowWritten
    <2>2. CASE d = c
      <3>1. ~StageMoved(c)
        BY DEF StageMoved, Terminal, CHANGE_TRANSITIONS
      <3> QED  BY <1>3, <2>2, <3>1 DEF RowWritten, StageKept
    <2> QED  BY <2>1, <2>2
  <1>4. ASSUME NEW h \in Handlers, NEW d \in Changes, Submitted(h, d) \/ RuledOn(h, d)
        PROVE  change'[c].status = change[c].status
    BY <1>4 DEF Submitted, RuledOn, SentBackFor, Terminal
  <1> QED  BY <1>1, <1>2, <1>3, <1>4 DEF SerialEffect

(* A closed or rolled back change stays that way (state.ts:13-14): it takes two
   overlapping requests to move it. *)
THEOREM TerminalKeptAlone == ASSUME Alone PROVE Spec => TerminalIsFinal
  <1>1. TypeInv /\ CancelledSuperseded /\ GrantInv /\ SerialInv /\ [Next]_vars =>
           [\A c \in Changes : change[c] # NoRow /\ change[c].status \in Terminal
               => change'[c].status = change[c].status]_change
    BY SerialStep, TerminalStep
  <1> QED  BY <1>1, SerialInvariant, PTL DEF Spec, TerminalIsFinal

-----------------------------------------------------------------------------
(* The refinement.  StageOf, KindOf and ApprovalStatusOf are the three
   variables of ChangeLifecycle, one change at a time. *)

StageOf(c) == IF change[c] = NoRow THEN "NONE" ELSE change[c].status

KindOf(c) == IF change[c] = NoRow THEN "NORMAL" ELSE change[c].type

SameView(c) ==
    /\ StageOf(c)' = StageOf(c) /\ KindOf(c)' = KindOf(c)
    /\ ApprovalStatusOf(c)' = ApprovalStatusOf(c)

LEMMA LifecycleInit == Init => Lifecycle!Init
  <1> SUFFICES ASSUME Init PROVE Lifecycle!Init
    OBVIOUS
  <1>1. \A c \in Changes : Opened(c) = {} /\ change[c] = NoRow
    BY DEF Init, Opened
  <1>2. \A c \in Changes : ApprovalStatusOf(c) = "NONE"
    BY <1>1 DEF ApprovalStatusOf, IsLatest
  <1> QED  BY <1>1, <1>2 DEF Lifecycle!Init

LEMMA LifecycleStutter ==
    ASSUME \A c \in Changes : SameView(c)
    PROVE  UNCHANGED Lifecycle!vars
  BY DEF SameView, StageOf, KindOf, Lifecycle!vars

LEMMA LifecycleCreate ==
    ASSUME NEW c \in Changes, \A d \in Changes : d # c => SameView(d),
           StageOf(c) = "NONE", StageOf(c)' = "DRAFT", KindOf(c)' \in ChangeType,
           ApprovalStatusOf(c)' = ApprovalStatusOf(c)
    PROVE  Lifecycle!Create(c)
  BY DEF SameView, StageOf, KindOf, Lifecycle!Create, Lifecycle!ChangeType, ChangeType

LEMMA LifecycleSubmit ==
    ASSUME NEW c \in Changes, \A d \in Changes : d # c => SameView(d),
           StageOf(c) = "ASSESSING", StageOf(c)' = "APPROVAL", KindOf(c)' = KindOf(c),
           ApprovalStatusOf(c) # "PENDING", ApprovalStatusOf(c)' = "PENDING"
    PROVE  Lifecycle!Submit(c)
  BY DEF SameView, StageOf, KindOf, Lifecycle!Submit

LEMMA LifecycleSettle ==
    ASSUME NEW c \in Changes, \A d \in Changes : d # c => SameView(d),
           NEW outcome \in Decision,
           ApprovalStatusOf(c) = "PENDING", ApprovalStatusOf(c)' = outcome,
           KindOf(c)' = KindOf(c),
           StageOf(c)' = IF outcome = "REJECTED" /\ StageOf(c) = "APPROVAL"
                         THEN "ASSESSING" ELSE StageOf(c)
    PROVE  Lifecycle!Settle(c, outcome)
  BY DEF SameView, StageOf, KindOf, Lifecycle!Settle

LEMMA LifecycleMove ==
    ASSUME NEW c \in Changes, \A d \in Changes : d # c => SameView(d),
           NEW to \in Status, StageOf(c) \in Status, to \in CHANGE_TRANSITIONS[StageOf(c)],
           StageOf(c)' = to, KindOf(c)' = KindOf(c),
           ApprovalStatusOf(c)' = ApprovalStatusOf(c),
           to # "APPROVAL", ~(StageOf(c) = "APPROVAL" /\ to = "ASSESSING"),
           to = "SCHEDULED" => KindOf(c) = "EMERGENCY" \/ ApprovalStatusOf(c) = "APPROVED",
           to = "CLOSED" /\ KindOf(c) = "EMERGENCY" => ApprovalStatusOf(c) \in Decision
    PROVE  Lifecycle!Move(c, to)
  BY DEF SameView, StageOf, KindOf, Lifecycle!Move, Lifecycle!MayEnter, Lifecycle!Status,
     Lifecycle!CHANGE_TRANSITIONS, Status, CHANGE_TRANSITIONS, Decision

(* A change that a step does not touch looks the same afterwards. *)
LEMMA ViewKept ==
    ASSUME NEW c \in Changes, Unmoved(c), request'[c] = request[c]
    PROVE  SameView(c)
  BY RoundStays DEF Unmoved, SameView, StageOf, KindOf

LEMMA RowRefines ==
    ASSUME TypeInv, NEW h \in Handlers, NEW c \in Changes, RowWritten(h, c)
    PROVE  [Lifecycle!Next]_Lifecycle!vars
  <1>1. \A d \in Changes : d # c => SameView(d)
    BY ViewKept DEF RowWritten, Unmoved
  <1>2. /\ KindOf(c)' = KindOf(c) /\ KindOf(c) = change[c].type
        /\ StageOf(c) = change[c].status /\ StageOf(c)' = change'[c].status
        /\ ApprovalStatusOf(c)' = ApprovalStatusOf(c)
    BY RoundStays DEF RowWritten, KindOf, StageOf
  <1>3. CASE StageKept(c)
    <2>1. SameView(c)
      BY <1>2, <1>3 DEF SameView, StageKept
    <2> QED  BY <1>1, <2>1, LifecycleStutter
  <1>4. CASE StageMoved(c)
    <2> DEFINE to == change'[c].status
    <2>1. /\ StageOf(c) \in Status /\ to \in CHANGE_TRANSITIONS[StageOf(c)]
          /\ to # "APPROVAL" /\ ~(StageOf(c) = "APPROVAL" /\ to = "ASSESSING")
          /\ to = "SCHEDULED" => KindOf(c) = "EMERGENCY" \/ ApprovalStatusOf(c) = "APPROVED"
          /\ to = "CLOSED" /\ KindOf(c) = "EMERGENCY" => ApprovalStatusOf(c) \in Decision
      BY <1>2, <1>4 DEF StageMoved
    <2>2. to \in Status
      BY <2>1 DEF CHANGE_TRANSITIONS, Status
    <2>3. PICK too \in Status : too = to
      BY <2>2
    <2>4. Lifecycle!Move(c, too)
      BY <1>1, <1>2, <2>1, <2>3, LifecycleMove
    <2>5. too \in Lifecycle!Status
      BY <2>3 DEF Status, Lifecycle!Status
    <2> QED  BY <2>4, <2>5 DEF Lifecycle!Next
  <1> QED  BY <1>3, <1>4 DEF RowWritten

LEMMA SubmitRefines ==
    ASSUME TypeInv, SerialInv, NEW h \in Handlers, NEW c \in Changes, Submitted(h, c)
    PROVE  [Lifecycle!Next]_Lifecycle!vars
  <1>1. \A d \in Changes : d # c => SameView(d)
    BY ViewKept DEF Submitted, Unmoved
  <1>2. ApprovalStatusOf(c)' = "PENDING"
    BY LatestStatusNext DEF Submitted
  <1>3. ApprovalStatusOf(c) # "PENDING"
    BY DEF Submitted, SerialInv, ChangeFits, RoundFits, Unsubmitted
  <1>4. StageOf(c) = "ASSESSING" /\ StageOf(c)' = "APPROVAL" /\ KindOf(c)' = KindOf(c)
    BY DEF Submitted, StageOf, KindOf
  <1>5. Lifecycle!Submit(c)
    BY <1>1, <1>2, <1>3, <1>4, LifecycleSubmit
  <1> QED  BY <1>5 DEF Lifecycle!Next

LEMMA DecideRefines ==
    ASSUME TypeInv, SerialInv, NEW h \in Handlers, NEW c \in Changes, RuledOn(h, c)
    PROVE  [Lifecycle!Next]_Lifecycle!vars
  <1>1. \A d \in Changes : d # c => SameView(d)
    BY ViewKept DEF RuledOn, Unmoved
  <1>2. PICK s \in Stamps : Ruling(c, s) /\ SentBackFor(c, request'[c][s].status)
    BY DEF RuledOn
  <1>3. PICK outcome \in {"PENDING", "APPROVED", "REJECTED"} : outcome = request'[c][s].status
    BY <1>2 DEF Ruling
  <1>4. ApprovalStatusOf(c) = "PENDING" /\ ApprovalStatusOf(c)' = outcome
    BY <1>2, <1>3, LatestStatus, LatestStatusNext DEF Ruling
  <1>5. /\ KindOf(c)' = KindOf(c)
        /\ StageOf(c)' = IF outcome = "REJECTED" /\ StageOf(c) = "APPROVAL"
                         THEN "ASSESSING" ELSE StageOf(c)
    BY <1>2, <1>3 DEF RuledOn, SentBackFor, StageOf, KindOf
  <1>6. CASE outcome = "PENDING"
    <2>1. SameView(c)
      BY <1>4, <1>5, <1>6 DEF SameView
    <2> QED  BY <1>1, <2>1, LifecycleStutter
  <1>7. CASE outcome # "PENDING"
    <2>1. outcome \in Decision
      BY <1>7 DEF Decision
    <2>2. Lifecycle!Settle(c, outcome)
      BY <1>1, <1>4, <1>5, <2>1, LifecycleSettle
    <2> QED  BY <2>1, <2>2 DEF Lifecycle!Next, Decision
  <1> QED  BY <1>6, <1>7

LEMMA LifecycleNext ==
    ASSUME TypeInv, SerialInv, SerialEffect
    PROVE  [Lifecycle!Next]_Lifecycle!vars
  <1>1. ASSUME request' = request, \A c \in Changes : Unmoved(c)
        PROVE  UNCHANGED Lifecycle!vars
    BY <1>1, ViewKept, LifecycleStutter
  <1>2. ASSUME NEW c \in Changes, Created(c) PROVE Lifecycle!Next
    <2>1. \A d \in Changes : d # c => SameView(d)
      BY <1>2, ViewKept DEF Created, Unmoved
    <2>2. /\ StageOf(c) = "NONE" /\ StageOf(c)' = "DRAFT" /\ KindOf(c)' \in ChangeType
          /\ ApprovalStatusOf(c)' = ApprovalStatusOf(c)
      BY <1>2, RoundStays DEF Created, StageOf, KindOf
    <2>3. Lifecycle!Create(c)
      BY <2>1, <2>2, LifecycleCreate
    <2> QED  BY <2>3 DEF Lifecycle!Next
  <1> QED  BY <1>1, <1>2, RowRefines, SubmitRefines, DecideRefines DEF SerialEffect

(* With one handler at a time the change routes and the approval engine
   together implement the lifecycle of spec 03: every step is one of its moves
   or is invisible to it. *)
THEOREM LifecycleImplemented == ASSUME Alone PROVE Spec => ImplementsLifecycle
  <1>1. TypeInv /\ CancelledSuperseded /\ GrantInv /\ SerialInv /\ [Next]_vars =>
           [Lifecycle!Next]_Lifecycle!vars
    BY SerialStep, LifecycleNext
  <1> QED  BY <1>1, LifecycleInit, SerialInvariant, PTL DEF Spec, ImplementsLifecycle
=============================================================================
