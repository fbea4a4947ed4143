------------------------ MODULE ChangeApprovalProofs ------------------------
(***************************************************************************)
(* Theorems about ChangeApproval, for any number of changes, users and     *)
(* concurrent handlers.  Type correctness comes first, with the facts      *)
(* about dangling references it needs.                                     *)
(***************************************************************************)
EXTENDS ChangeApproval, WellFoundedInduction, TLAPS

(* What a handler remembers refers to rows that exist: no row is deleted.  *)
Referenced ==
    \A h \in Handlers :
        LET t == handler[h] IN
        /\ t # Idle => change[t.c] # NoRow
        /\ t \in DecideTxn => request[t.c][t.stamp] # NoRow
        /\ t \in SubmitTxn => t.stale = 0 \/ request[t.c][t.stale] # NoRow

TypeInv == TypeOK /\ Referenced

-----------------------------------------------------------------------------
(* The record a handler keeps is told by its operation and its program     *)
(* counter.                                                                *)
LEMMA HandlerShape ==
    ASSUME NEW t \in HandlerState
    PROVE  /\ t.op = "edit" => t \in EditTxn
           /\ t.op = "advance" /\ t.at = "gate" => t \in GateTxn
           /\ t.op = "advance" /\ t.at = "write" => t \in AdvanceTxn
           /\ t.op = "schedule" => t \in ScheduleTxn
           /\ t.op = "rollback" => t \in PlainTxn
           /\ t.op = "pir" => t \in PlainTxn
           /\ t.op = "submit" /\ t.at = "find" => t \in FindTxn
           /\ t.op = "submit" /\ t.at = "write" => t \in SubmitTxn
           /\ t.op = "approve" /\ t.at = "step" => t \in ContextTxn
           /\ t.op = "approve" /\ t.at \in {"decide", "write"} => t \in DecideTxn
  BY DEF HandlerState, Idle, EditTxn, GateTxn, AdvanceTxn, ScheduleTxn, PlainTxn,
         FindTxn, SubmitTxn, ContextTxn, DecideTxn

LEMMA TypeInit == Init => TypeInv
  BY DEF Init, TypeInv, TypeOK, Referenced, HandlerState, Idle, SubmitTxn, DecideTxn,
         Order

(* A transaction that only reads changes only its own record. *)
LEMMA KeepType ==
    ASSUME TypeInv, NEW h \in Handlers, NEW t \in HandlerState, Keep(h, t),
           t # Idle => t.c \in Changes /\ change[t.c] # NoRow,
           t \in DecideTxn => request[t.c][t.stamp] # NoRow,
           t \in SubmitTxn => t.stale = 0 \/ request[t.c][t.stale] # NoRow
    PROVE  TypeInv'
  BY DEF TypeInv, TypeOK, Referenced, Keep

LEMMA CreateType ==
    ASSUME TypeInv, NEW u \in Users, NEW c \in Changes, NEW new \in NewChanges,
           Insert(c, u, new)
    PROVE  TypeInv'
  <1>1. change'[c] \in ChangeRow
    BY NewAssumption DEF TypeInv, TypeOK, Insert, ChangeRow, Status, Level, Text
  <1>2. \A d \in Changes : change[d] # NoRow => change'[d] # NoRow
    BY <1>1, NoRowAssumption DEF TypeInv, TypeOK, Insert
  <1> QED  BY <1>1, <1>2 DEF TypeInv, TypeOK, Referenced, Insert, HandlerState, Idle,
              EditTxn, GateTxn, AdvanceTxn, ScheduleTxn, PlainTxn, FindTxn, SubmitTxn,
              ContextTxn, DecideTxn

(* A transaction that commits forgets what it read and loses no row. *)
LEMMA FinishType ==
    ASSUME TypeInv, NEW h \in Handlers, Finish(h),
           change' \in [Changes -> ChangeRow \cup {NoRow}],
           \A d \in Changes : change[d] # NoRow => change'[d] # NoRow,
           request' \in [Changes -> [Stamps -> RequestRow \cup {NoRow}]],
           \A d \in Changes, s \in Stamps : request[d][s] # NoRow => request'[d][s] # NoRow,
           decision' \in [Changes -> [Stamps -> [Order -> Seq(DecisionRow)]]],
           notices' \in [Changes -> Nat]
    PROVE  TypeInv'
  <1>1. TypeOK'
    BY DEF TypeInv, TypeOK, Finish, HandlerState
  <1>2. Referenced'
    <2> SUFFICES ASSUME NEW g \in Handlers, handler'[g] # Idle
                 PROVE  /\ change'[handler[g].c] # NoRow
                        /\ handler[g] \in DecideTxn =>
                             request'[handler[g].c][handler[g].stamp] # NoRow
                        /\ handler[g] \in SubmitTxn => handler[g].stale = 0
                             \/ request'[handler[g].c][handler[g].stale] # NoRow
      BY DEF Referenced, Finish, TypeInv, TypeOK, Idle, DecideTxn, SubmitTxn
    <2>1. g # h /\ handler[g] \in HandlerState /\ handler[g] # Idle
      BY DEF Finish, TypeInv, TypeOK
    <2>2. handler[g].c \in Changes
      BY <2>1 DEF HandlerState, Idle, EditTxn, GateTxn, AdvanceTxn, ScheduleTxn, PlainTxn,
         FindTxn, SubmitTxn, ContextTxn, DecideTxn
    <2>3. handler[g] \in DecideTxn => handler[g].stamp \in Stamps
      BY DEF DecideTxn
    <2>4. handler[g] \in SubmitTxn => handler[g].stale \in {0} \cup Stamps
      BY StampAssumption DEF SubmitTxn, Stamps
    <2> QED  BY <2>1, <2>2, <2>3, <2>4 DEF TypeInv, Referenced
  <1> QED  BY <1>1, <1>2 DEF TypeInv

(* The reads that open a transaction. *)
LEMMA BeginType ==
    ASSUME TypeInv, NEW h \in Handlers, NEW u \in Users, NEW c \in Changes,
           Begin(h, u, c)
    PROVE  TypeInv'
  <1> USE DEF Found
  <1>0. change[c] # NoRow => change[c] \in ChangeRow
    BY DEF TypeInv, TypeOK
  <1>1. ASSUME NEW input \in EditInputs, EditRead(h, u, c, input) PROVE TypeInv'
    <2> DEFINE t == [op |-> "edit", c |-> c, input |-> input]
    <2>1. t \in HandlerState /\ t \notin DecideTxn /\ t \notin SubmitTxn
      BY DEF HandlerState, EditTxn, DecideTxn, SubmitTxn
    <2> QED  BY <1>1, <2>1, KeepType DEF EditRead
  <1>2. CASE AdvanceRead(h, u, c)
    <2> DEFINE t == [op |-> "advance", at |-> "gate", c |-> c, row |-> change[c]]
    <2>1. change[c] # NoRow
      BY <1>2 DEF AdvanceRead
    <2>2. t \in HandlerState /\ t \notin DecideTxn /\ t \notin SubmitTxn
      BY <1>0, <2>1 DEF HandlerState, GateTxn, DecideTxn, SubmitTxn
    <2> QED  BY <1>2, <2>2, KeepType DEF AdvanceRead
  <1>3. CASE ScheduleRead(h, u, c)
    <2> DEFINE t == [op |-> "schedule", c |-> c, moves |-> change[c].status = "APPROVAL"]
    <2>1. t \in HandlerState /\ t \notin DecideTxn /\ t \notin SubmitTxn
      BY DEF HandlerState, ScheduleTxn, DecideTxn, SubmitTxn
    <2> QED  BY <1>3, <2>1, KeepType DEF ScheduleRead
  <1>4. CASE RollbackRead(h, u, c)
    <2> DEFINE t == [op |-> "rollback", c |-> c]
    <2>1. t \in HandlerState /\ t \notin DecideTxn /\ t \notin SubmitTxn
      BY DEF HandlerState, PlainTxn, DecideTxn, SubmitTxn
    <2> QED  BY <1>4, <2>1, KeepType DEF RollbackRead
  <1>5. CASE PirRead(h, u, c)
    <2> DEFINE t == [op |-> "pir", c |-> c]
    <2>1. t \in HandlerState /\ t \notin DecideTxn /\ t \notin SubmitTxn
      BY DEF HandlerState, PlainTxn, DecideTxn, SubmitTxn
    <2> QED  BY <1>5, <2>1, KeepType DEF PirRead
  <1>6. CASE SubmitRead(h, u, c)
    <2> DEFINE t == [op |-> "submit", at |-> "find", c |-> c, risk |-> change[c].risk]
    <2>1. change[c].risk \in Level
      BY <1>0, <1>6 DEF SubmitRead, AssessingGate, ChangeRow
    <2>2. t \in HandlerState /\ t \notin DecideTxn /\ t \notin SubmitTxn
      BY <2>1 DEF HandlerState, FindTxn, DecideTxn, SubmitTxn
    <2> QED  BY <1>6, <2>2, KeepType DEF SubmitRead
  <1>7. CASE ApproveReadRow(h, u, c)
    <2> DEFINE t == [op |-> "approve", at |-> "step", c |-> c, user |-> u,
                     waiting |-> change[c].status = "APPROVAL", risk |-> change[c].risk]
    <2>1. t \in HandlerState /\ t \notin DecideTxn /\ t \notin SubmitTxn
      BY <1>0, <1>7 DEF ApproveReadRow, HandlerState, ContextTxn, DecideTxn, SubmitTxn,
         ChangeRow
    <2> QED  BY <1>7, <2>1, KeepType DEF ApproveReadRow
  <1> QED  BY <1>1, <1>2, <1>3, <1>4, <1>5, <1>6, <1>7 DEF Begin

(* A change that is written keeps its columns' types. *)
LEMMA WrittenType ==
    ASSUME TypeInv, NEW c \in Changes, change[c] # NoRow,
           NEW row \in ChangeRow, change' = [change EXCEPT ![c] = row]
    PROVE  /\ change' \in [Changes -> ChangeRow \cup {NoRow}]
           /\ \A d \in Changes : change[d] # NoRow => change'[d] # NoRow
  BY NoRowAssumption DEF TypeInv, TypeOK

LEMMA ForwardIsStatus == \A s \in DOMAIN CHANGE_FORWARD : CHANGE_FORWARD[s] \in Status
  BY DEF CHANGE_FORWARD, Status

(* A non-empty set of stamps has a largest one: the distances to the bound are
   naturals, and the order of the naturals is well founded. *)
LEMMA StampMaximum ==
    ASSUME NEW S \in SUBSET Stamps, S # {}
    PROVE  \E s \in S : \A t \in S : t <= s
  <1> DEFINE Gaps == {MaxStamp - s : s \in S}
             R == OpToRel(<, Nat)
  <1>1. \A s \in S : s \in Nat /\ MaxStamp - s \in Nat
    BY StampAssumption DEF Stamps
  <1>2. PICK g \in Gaps : \A y \in Gaps : ~(<<y, g>> \in R)
    <2>1. Gaps \subseteq Nat /\ Gaps # {}
      BY <1>1
    <2> HIDE DEF Gaps, R
    <2> QED  BY <2>1, NatLessThanWellFounded, WFMin DEF R
  <1>3. PICK s \in S : g = MaxStamp - s
    BY <1>2
  <1>4. ASSUME NEW t \in S PROVE t <= s
    <2>1. <<MaxStamp - t, g>> \notin R
      BY <1>2
    <2>2. ~(MaxStamp - t < g)
      BY <1>1, <1>3, <2>1 DEF OpToRel
    <2> QED  BY <1>1, <1>3, <2>2, StampAssumption
  <1> QED  BY <1>3, <1>4

LEMMA HighestInSet ==
    ASSUME NEW S \in SUBSET Stamps
    PROVE  Highest(S) \in {0} \cup S
  BY StampMaximum DEF Highest

(* The steps of a request that is opened, cancelled or decided. *)
LEMMA RequestType ==
    ASSUME TypeInv
    PROVE  /\ \A t \in SubmitTxn : change[t.c] # NoRow => NewRequest(t) \in RequestRow
           /\ \A req \in RequestRow : Cancelled(req) \in RequestRow
           /\ \A req \in RequestRow, k \in Order, kind \in Decision :
                 Decided(req, k, kind) \in RequestRow
  <1>1. \A p \in Policy : OpenSteps(p) \in [Order -> StepStatus \cup {"ABSENT"}]
    BY DEF OpenSteps, StepStatus
  <1>2. \A r : PolicyFor(r) \in Policy
    BY DEF PolicyFor, Policy
  <1>3. ASSUME NEW t \in SubmitTxn, change[t.c] # NoRow PROVE NewRequest(t) \in RequestRow
    <2>1. change[t.c].owner \in Users
      BY <1>3 DEF TypeInv, TypeOK, ChangeRow, SubmitTxn
    <2> QED  BY <1>1, <1>2, <2>1 DEF NewRequest, RequestRow, ApprovalStatus
  <1>4. ASSUME NEW req \in RequestRow PROVE Cancelled(req) \in RequestRow
    BY DEF Cancelled, RequestRow, SkipPending, StepStatus, ApprovalStatus
  <1>5. ASSUME NEW req \in RequestRow, NEW k \in Order, NEW kind \in Decision
        PROVE  Decided(req, k, kind) \in RequestRow
    <2>1. [req.step EXCEPT ![k] = kind] \in [Order -> StepStatus \cup {"ABSENT"}]
      BY DEF RequestRow, Decision, StepStatus
    <2>2. \A step : ResolveRequestStatus(step) \in ApprovalStatus
      BY DEF ResolveRequestStatus, ApprovalStatus
    <2> QED  BY <2>1, <2>2 DEF Decided, RequestRow
  <1> QED  BY <1>3, <1>4, <1>5

(* The later reads and the writes. *)
LEMMA ContinueType ==
    ASSUME TypeInv, NEW h \in Handlers, Continue(h)
    PROVE  TypeInv'
  <1> DEFINE t == handler[h]
             c == handler[h].c
  <1>0. t \in HandlerState
    BY DEF TypeInv, TypeOK
  <1>a. ASSUME t # Idle
        PROVE  c \in Changes /\ change[c] # NoRow /\ change[c] \in ChangeRow
    <2>1. c \in Changes
      BY <1>0, <1>a DEF HandlerState, Idle, EditTxn, GateTxn, AdvanceTxn, ScheduleTxn,
         PlainTxn, FindTxn, SubmitTxn, ContextTxn, DecideTxn
    <2> QED  BY <1>a, <2>1 DEF TypeInv, TypeOK, Referenced
  <1>i. t.op # "idle" => t # Idle
    BY DEF Idle
  <1> HIDE DEF t, c
  <1>1. CASE EditWrite(h)
    <2>1. t \in EditTxn /\ t # Idle
      BY <1>0, <1>1, <1>i, HandlerShape DEF EditWrite, t
    <2> DEFINE row == [change[c] EXCEPT
                         !.risk = IF t.input.risk = "keep" THEN @ ELSE t.input.risk,
                         !.text = @ \cup t.input.text]
    <2>2. t.input \in EditInputs /\ t.input.risk \in Level \cup {"keep"}
             /\ t.input.text \subseteq Text
      BY <2>1, EditAssumption DEF EditTxn
    <2>3. row \in ChangeRow
      BY <1>a, <2>1, <2>2 DEF ChangeRow
    <2>4. change' = [change EXCEPT ![c] = row]
      BY <1>1, <1>a, <2>1 DEF EditWrite, TypeInv, TypeOK, t, c
    <2> HIDE DEF row
    <2> QED  BY <1>1, <1>a, <2>1, <2>3, <2>4, WrittenType, FinishType
             DEF EditWrite, TypeInv, TypeOK
  <1>2. CASE AdvanceGate(h)
    <2>1. t \in GateTxn /\ t # Idle
      BY <1>0, <1>2, <1>i, HandlerShape DEF AdvanceGate, t
    <2> DEFINE n == [op |-> "advance", at |-> "write", c |-> c, from |-> t.row.status]
    <2>2. t.row.status \in DOMAIN CHANGE_FORWARD
      BY <1>2, <2>1 DEF AdvanceGate, CanAdvance, CHANGE_FORWARD, GateTxn, ChangeRow, Status, t
    <2>3. n \in HandlerState /\ n \notin DecideTxn /\ n \notin SubmitTxn
      BY <1>a, <2>1, <2>2 DEF HandlerState, AdvanceTxn, DecideTxn, SubmitTxn
    <2> QED  BY <1>2, <1>a, <2>1, <2>3, KeepType DEF AdvanceGate, t, c
  <1>3. CASE AdvanceWrite(h)
    <2>1. t \in AdvanceTxn /\ t # Idle
      BY <1>0, <1>3, <1>i, HandlerShape DEF AdvanceWrite, t
    <2> DEFINE row == [change[c] EXCEPT !.status = CHANGE_FORWARD[t.from]]
    <2>2. row \in ChangeRow
      BY <1>a, <2>1, ForwardIsStatus DEF ChangeRow, AdvanceTxn
    <2>3. change' = [change EXCEPT ![c] = row] /\ notices' \in [Changes -> Nat]
      BY <1>3, <1>a, <2>1 DEF AdvanceWrite, SetStatus, NotifyIf, TypeInv, TypeOK, t, c
    <2> HIDE DEF row
    <2> QED  BY <1>3, <1>a, <2>1, <2>2, <2>3, WrittenType, FinishType
             DEF AdvanceWrite, TypeInv, TypeOK
  <1>4. CASE ScheduleWrite(h)
    <2>1. t \in ScheduleTxn /\ t # Idle
      BY <1>0, <1>4, <1>i, HandlerShape DEF ScheduleWrite, t
    <2> DEFINE row == [change[c] EXCEPT !.window = "future",
                                        !.status = IF t.moves THEN "SCHEDULED" ELSE @]
    <2>2. row \in ChangeRow
      BY <1>a, <2>1 DEF ChangeRow, Status
    <2>3. change' = [change EXCEPT ![c].window = "future",
                                   ![c].status = IF t.moves THEN "SCHEDULED" ELSE @]
      BY <1>4 DEF ScheduleWrite, t, c
    <2>4. change' = [change EXCEPT ![c] = row]
      BY <1>a, <2>1, <2>3 DEF TypeInv, TypeOK
    <2>5. notices' \in [Changes -> Nat]
      BY <1>4, <1>a, <2>1 DEF ScheduleWrite, NotifyIf, TypeInv, TypeOK, t, c
    <2> HIDE DEF row
    <2> QED  BY <1>4, <1>a, <2>1, <2>2, <2>4, <2>5, WrittenType, FinishType
             DEF ScheduleWrite, TypeInv, TypeOK
  <1>5. CASE RollbackWrite(h)
    <2>1. t # Idle
      BY <1>5, <1>i DEF RollbackWrite, t
    <2> DEFINE row == [change[c] EXCEPT !.status = "ROLLED_BACK"]
    <2>2. row \in ChangeRow /\ change' = [change EXCEPT ![c] = row]
      BY <1>5, <1>a, <2>1 DEF RollbackWrite, SetStatus, ChangeRow, Status, TypeInv, TypeOK, c
    <2> QED  BY <1>5, <1>a, <2>1, <2>2, WrittenType, FinishType
             DEF RollbackWrite, TypeInv, TypeOK
  <1>6. CASE PirWrite(h)
    <2>1. t # Idle
      BY <1>6, <1>i DEF PirWrite, t
    <2> DEFINE row == [change[c] EXCEPT !.pir = TRUE]
    <2>2. row \in ChangeRow /\ change' = [change EXCEPT ![c] = row]
      BY <1>6, <1>a, <2>1 DEF PirWrite, ChangeRow, TypeInv, TypeOK, c
    <2> QED  BY <1>6, <1>a, <2>1, <2>2, WrittenType, FinishType
             DEF PirWrite, TypeInv, TypeOK
  <1>7. CASE SubmitFind(h)
    <2>1. t \in FindTxn /\ t # Idle
      BY <1>0, <1>7, <1>i, HandlerShape DEF SubmitFind, t
    <2> DEFINE n == [op |-> "submit", at |-> "write", c |-> c, risk |-> t.risk,
                     stale |-> Highest(PendingStamps(c)), floor |-> Highest(Opened(c))]
    <2>2. \A S \in SUBSET Stamps : Highest(S) \in {0} \cup S
      BY HighestInSet
    <2>3. Highest(PendingStamps(c)) \in {0} \cup Opened(c)
             /\ Highest(Opened(c)) \in {0} \cup Opened(c)
      BY <2>2 DEF PendingStamps, Opened
    <2>4. {0} \cup Opened(c) \subseteq 0..MaxStamp
      BY StampAssumption DEF Opened, Stamps
    <2>5. n \in HandlerState /\ n \in SubmitTxn /\ n \notin DecideTxn
      BY <1>a, <2>1, <2>3, <2>4 DEF HandlerState, FindTxn, SubmitTxn, DecideTxn
    <2>6. n.stale = 0 \/ request[c][n.stale] # NoRow
      BY <2>3 DEF Opened
    <2> QED  BY <1>7, <1>a, <2>1, <2>5, <2>6, KeepType DEF SubmitFind, t, c
  <1>8. CASE SubmitWrite(h)
    <2>1. t \in SubmitTxn /\ t # Idle
      BY <1>0, <1>8, <1>i, HandlerShape DEF SubmitWrite, t
    <2> DEFINE row == [change[c] EXCEPT !.status = "APPROVAL"]
    <2>2. row \in ChangeRow /\ change' = [change EXCEPT ![c] = row]
      BY <1>8, <1>a, <2>1 DEF SubmitWrite, SetStatus, ChangeRow, Status, TypeInv, TypeOK, t, c
    <2>3. PICK s \in Stamps \ Opened(c) :
             request' = [request EXCEPT ![c] =
               [i \in Stamps |-> IF i = s THEN NewRequest(t)
                                 ELSE IF i = t.stale THEN Cancelled(@[i]) ELSE @[i]]]
      BY <1>8 DEF SubmitWrite, t, c
    <2>4. NewRequest(t) \in RequestRow
      BY <1>a, <2>1, RequestType DEF c, t
    <2>5. t.stale \in Stamps =>
             request[c][t.stale] \in RequestRow /\ Cancelled(request[c][t.stale]) \in RequestRow
      <3>1. t.stale \in Stamps => t.stale # 0
        BY StampAssumption DEF Stamps
      <3> QED  BY <1>a, <2>1, <3>1, RequestType DEF TypeInv, TypeOK, Referenced, t, c
    <2>6. request' \in [Changes -> [Stamps -> RequestRow \cup {NoRow}]]
      BY <1>a, <2>1, <2>3, <2>4, <2>5 DEF TypeInv, TypeOK
    <2>7. \A d \in Changes, r \in Stamps : request[d][r] # NoRow => request'[d][r] # NoRow
      BY <1>a, <2>1, <2>3, <2>4, <2>5, NoRowAssumption DEF TypeInv, TypeOK
    <2> QED  BY <1>8, <1>a, <2>1, <2>2, <2>6, <2>7, WrittenType, FinishType
             DEF SubmitWrite, TypeInv, TypeOK
  <1>9. CASE ApproveReadStep(h)
    <2>1. t \in ContextTxn /\ t # Idle
      BY <1>0, <1>9, <1>i, HandlerShape DEF ApproveReadStep, t
    <2>2. PICK s \in Stamps, k \in Order, override \in BOOLEAN :
             /\ IsLatest(c, s)
             /\ Keep(h, [op |-> "approve", at |-> "decide", c |-> c, user |-> t.user,
                         waiting |-> t.waiting, stamp |-> s, order |-> k,
                         override |-> override])
      BY <1>9 DEF ApproveReadStep, t, c
    <2> DEFINE n == [op |-> "approve", at |-> "decide", c |-> c, user |-> t.user,
                     waiting |-> t.waiting, stamp |-> s, order |-> k, override |-> override]
    <2>3. n \in HandlerState /\ n \notin SubmitTxn
      BY <1>a, <2>1, <2>2 DEF HandlerState, ContextTxn, SubmitTxn, DecideTxn
    <2>4. request[c][s] # NoRow
      BY <2>2 DEF IsLatest, Opened
    <2> QED  BY <1>a, <2>1, <2>2, <2>3, <2>4, KeepType
  <1>10. CASE DecisionRead(h)
    <2>1. t \in DecideTxn /\ t # Idle
      BY <1>0, <1>10, <1>i, HandlerShape DEF DecisionRead, t
    <2> DEFINE n == [t EXCEPT !.at = "write"]
    <2>2. n \in HandlerState /\ n \notin SubmitTxn /\ n.c = c /\ n.stamp = t.stamp
      BY <2>1 DEF HandlerState, SubmitTxn, DecideTxn, t, c
    <2>3. request[c][t.stamp] # NoRow
      BY <2>1 DEF TypeInv, Referenced, t, c
    <2> QED  BY <1>10, <1>a, <2>1, <2>2, <2>3, KeepType DEF DecisionRead, t
  <1>11. CASE DecisionWrite(h)
    <2>1. t \in DecideTxn /\ t # Idle
      BY <1>0, <1>11, <1>i, HandlerShape DEF DecisionWrite, t
    <2> DEFINE req == request[c][t.stamp]
    <2>2. PICK kind \in Decision :
             /\ request' = [request EXCEPT ![c][t.stamp] = Decided(req, t.order, kind)]
             /\ decision' = [decision EXCEPT ![c][t.stamp][t.order] =
                  Append(@, [actor |-> t.user, kind |-> kind,
                             override |-> t.override /\ req.createdBy = t.user])]
             /\ SetStatus(c, "ASSESSING") \/ UNCHANGED change
      BY <1>11 DEF DecisionWrite, t, c
    <2>3. t.stamp \in Stamps /\ t.order \in Order /\ t.user \in Users /\ t.override \in BOOLEAN
      BY <2>1 DEF DecideTxn
    <2>4. req # NoRow /\ req \in RequestRow
      BY <1>a, <2>1, <2>3 DEF TypeInv, TypeOK, Referenced, t, c
    <2>5. Decided(req, t.order, kind) \in RequestRow
      BY <2>2, <2>3, <2>4, RequestType
    <2>6. /\ request' \in [Changes -> [Stamps -> RequestRow \cup {NoRow}]]
          /\ \A d \in Changes, r \in Stamps : request[d][r] # NoRow => request'[d][r] # NoRow
      BY <1>a, <2>1, <2>2, <2>3, <2>5, NoRowAssumption DEF TypeInv, TypeOK
    <2> DEFINE made == [actor |-> t.user, kind |-> kind,
                        override |-> t.override /\ req.createdBy = t.user]
    <2>7. made \in DecisionRow
      BY <2>2, <2>3 DEF DecisionRow
    <2>8. decision' \in [Changes -> [Stamps -> [Order -> Seq(DecisionRow)]]]
      <3>1. decision[c][t.stamp][t.order] \in Seq(DecisionRow)
        BY <1>a, <2>1, <2>3 DEF TypeInv, TypeOK
      <3>2. Append(decision[c][t.stamp][t.order], made) \in Seq(DecisionRow)
        BY <2>7, <3>1
      <3> QED  BY <1>a, <2>1, <2>2, <2>3, <3>2 DEF TypeInv, TypeOK
    <2> DEFINE row == [change[c] EXCEPT !.status = "ASSESSING"]
    <2>9. row \in ChangeRow
      BY <1>a, <2>1 DEF ChangeRow, Status
    <2>10. /\ change' \in [Changes -> ChangeRow \cup {NoRow}]
           /\ \A d \in Changes : change[d] # NoRow => change'[d] # NoRow
      <3>1. CASE SetStatus(c, "ASSESSING")
        <4>1. change' = [change EXCEPT ![c] = row]
          BY <1>a, <2>1, <3>1 DEF SetStatus, TypeInv, TypeOK
        <4> QED  BY <1>a, <2>1, <2>9, <4>1, WrittenType
      <3> QED  BY <2>2, <3>1 DEF TypeInv, TypeOK
    <2> QED  BY <1>11, <2>6, <2>8, <2>10, FinishType DEF DecisionWrite, TypeInv, TypeOK
  <1>12. CASE Abort(h)
    BY <1>12, FinishType DEF Abort, TypeInv, TypeOK
  <1> QED  BY <1>1, <1>2, <1>3, <1>4, <1>5, <1>6, <1>7, <1>8, <1>9, <1>10, <1>11, <1>12
           DEF Continue

LEMMA TypeNext == TypeInv /\ [Next]_vars => TypeInv'
  <1> SUFFICES ASSUME TypeInv, [Next]_vars PROVE TypeInv'
    OBVIOUS
  <1>1. ASSUME NEW u \in Users, NEW c \in Changes, CreateChange(u, c) PROVE TypeInv'
    <2>1. PICK type \in ChangeType, linked \in BOOLEAN :
             Insert(c, u, [type |-> type, text |-> {"rfc"}, linked |-> linked])
      BY <1>1 DEF CreateChange
    <2> QED  BY <2>1, CreateType DEF Insert
  <1>2. ASSUME NEW u \in Users, NEW c \in Changes, CreateChangeFromDemand(u, c) PROVE TypeInv'
    BY <1>2, CreateType DEF CreateChangeFromDemand, Insert
  <1>3. ASSUME NEW c \in Changes, WindowElapses(c) PROVE TypeInv'
    <2> DEFINE row == [change[c] EXCEPT !.window = "past"]
    <2>1. change[c] # NoRow /\ row \in ChangeRow /\ change' = [change EXCEPT ![c] = row]
      BY <1>3 DEF WindowElapses, TypeInv, TypeOK, ChangeRow
    <2>2. /\ change' \in [Changes -> ChangeRow \cup {NoRow}]
          /\ \A d \in Changes : change[d] # NoRow => change'[d] # NoRow
      BY <2>1, WrittenType
    <2>3. \A h \in Handlers : handler[h] # Idle => handler[h].c \in Changes
      BY DEF TypeInv, TypeOK, HandlerState, Idle, EditTxn, GateTxn, AdvanceTxn, ScheduleTxn,
         PlainTxn, FindTxn, SubmitTxn, ContextTxn, DecideTxn
    <2> QED  BY <1>3, <2>2, <2>3 DEF WindowElapses, TypeInv, TypeOK, Referenced
  <1>4. ASSUME NEW h \in Handlers, NEW u \in Users, NEW c \in Changes, Begin(h, u, c)
        PROVE  TypeInv'
    BY <1>4, BeginType
  <1>5. ASSUME NEW h \in Handlers, Continue(h) PROVE TypeInv'
    BY <1>5, ContinueType
  <1>6. CASE UNCHANGED vars
    BY <1>6 DEF vars, TypeInv, TypeOK, Referenced
  <1> QED  BY <1>1, <1>2, <1>3, <1>4, <1>5, <1>6 DEF Next

THEOREM TypeInvariant == Spec => []TypeInv
  BY TypeInit, TypeNext, PTL DEF Spec

(* Every table and every handler always holds values of its type, whatever the
   interleaving: no write lands on a row that does not exist. *)
THEOREM TypeCorrect == Spec => []TypeOK
  BY TypeInvariant, PTL DEF TypeInv

-----------------------------------------------------------------------------
(* The approval engine.  What its four properties say of one request and its
   decision rows, with the two facts that make them inductive: a pending
   request has no rejected and no skipped step, and every request has a first
   step. *)

SoundRecord(req, rows) ==
    /\ \A k \in Order : IF req.step[k] \in Decision
                        THEN Len(rows[k]) = 1 /\ rows[k][1].kind = req.step[k]
                        ELSE rows[k] = <<>>
    /\ \A k \in Order : \A i \in DOMAIN rows[k] :
          /\ Wears(rows[k][i].actor, RequiredHat[k])
          /\ rows[k][i].override <=> rows[k][i].actor = req.createdBy
    /\ \A j, k \in Order : j < k /\ req.step[k] \in Decision => req.step[j] = "APPROVED"

SoundStatus(req) ==
    /\ req.status = "APPROVED" => \A k \in Order : req.step[k] \in {"APPROVED", "ABSENT"}
    /\ req.status = "REJECTED" => \E k \in Order : req.step[k] = "REJECTED"
    /\ req.status = "PENDING" =>
          /\ \E k \in Order : req.step[k] = "PENDING"
          /\ \A k \in Order : req.step[k] \in {"PENDING", "APPROVED", "ABSENT"}
    /\ req.status = "CANCELLED" => \A k \in Order : req.step[k] # "PENDING"
    /\ req.step[1] # "ABSENT"

SoundRequest(req, rows) == SoundRecord(req, rows) /\ SoundStatus(req)

SoundRows ==
    \A c \in Changes, s \in Stamps :
        IF request[c][s] = NoRow
        THEN \A k \in Order : decision[c][s][k] = <<>>
        ELSE SoundRequest(request[c][s], decision[c][s])

(* What a handler that is about to write a decision has established, and what
   no other handler can take away: its hat, its override, and that every
   earlier step is approved. *)
DeciderKnows(t) ==
    LET req == request[t.c][t.stamp]
    IN  /\ Wears(t.user, RequiredHat[t.order])
        /\ req.createdBy = t.user => t.override
        /\ \A j \in Order : j < t.order => req.step[j] = "APPROVED"

Deciding(h) == handler[h] \in DecideTxn /\ handler[h].at = "write"

EngineInv == SoundRows /\ \A h \in Handlers : Deciding(h) => DeciderKnows(handler[h])

LEMMA EngineInit == Init => EngineInv
  BY DEF Init, EngineInv, SoundRows, Deciding, Idle, DecideTxn

(* The three things that happen to a request: it is opened, cancelled, or one
   of its pending steps is decided by somebody entitled to. *)
LEMMA SoundWhenOpened ==
    ASSUME TypeInv, NEW t \in SubmitTxn, change[t.c] # NoRow,
           NEW rows \in [Order -> Seq(DecisionRow)], \A k \in Order : rows[k] = <<>>
    PROVE  SoundRequest(NewRequest(t), rows)
  BY DEF SoundRequest, SoundRecord, SoundStatus, NewRequest, OpenSteps, Decision, Order

LEMMA SoundWhenCancelled ==
    ASSUME NEW req \in RequestRow, NEW rows, SoundRequest(req, rows)
    PROVE  SoundRequest(Cancelled(req), rows)
  <1>1. /\ Cancelled(req).status = "CANCELLED"
        /\ Cancelled(req).createdBy = req.createdBy
        /\ \A k \in Order : Cancelled(req).step[k] =
              IF req.step[k] = "PENDING" THEN "SKIPPED" ELSE req.step[k]
    BY DEF Cancelled, SkipPending, RequestRow
  <1> QED  BY <1>1 DEF SoundRequest, SoundRecord, SoundStatus, Decision, Order

LEMMA SoundWhenDecided ==
    ASSUME NEW req \in RequestRow, NEW rows \in [Order -> Seq(DecisionRow)],
           SoundRequest(req, rows),
           NEW k \in Order, NEW d \in DecisionRow,
           req.step[k] = "PENDING",
           \A j \in Order : j < k => req.step[j] = "APPROVED",
           Wears(d.actor, RequiredHat[k]),
           d.override <=> d.actor = req.createdBy,
           d.kind \in Decision
    PROVE  SoundRequest(Decided(req, k, d.kind), [rows EXCEPT ![k] = Append(@, d)])
  <1> DEFINE after == Decided(req, k, d.kind)
             step  == [req.step EXCEPT ![k] = d.kind]
             all   == [rows EXCEPT ![k] = Append(@, d)]
  <1> SUFFICES SoundRequest(after, all)
    OBVIOUS
  <1>1. /\ after.step = step /\ after.createdBy = req.createdBy
        /\ after.status = IF req.status = "PENDING" THEN ResolveRequestStatus(step)
                          ELSE req.status
    BY DEF Decided, RequestRow
  <1>2. \A j \in Order : step[j] = IF j = k THEN d.kind ELSE req.step[j]
    BY DEF RequestRow
  <1>3. /\ Len(all[k]) = 1 /\ all[k][1] = d /\ DOMAIN all[k] = {1}
        /\ \A j \in Order : j # k => all[j] = rows[j]
    <2>1. rows[k] = <<>>
      BY DEF SoundRequest, SoundRecord, Decision
    <2>2. all[k] = Append(<<>>, d) /\ \A j \in Order : j # k => all[j] = rows[j]
      BY <2>1
    <2> HIDE DEF all
    <2>3. all[k] = <<d>>
      BY <2>2
    <2> QED  BY <2>2, <2>3
  <1> HIDE DEF after, step, all
  <1>4. \A j \in Order : IF after.step[j] \in Decision
                         THEN Len(all[j]) = 1 /\ all[j][1].kind = after.step[j]
                         ELSE all[j] = <<>>
    BY <1>1, <1>2, <1>3 DEF SoundRequest, SoundRecord
  <1>5. \A j \in Order : \A i \in DOMAIN all[j] :
           /\ Wears(all[j][i].actor, RequiredHat[j])
           /\ all[j][i].override <=> all[j][i].actor = after.createdBy
    BY <1>1, <1>3 DEF SoundRequest, SoundRecord
  <1>6. \A i, j \in Order : i < j /\ after.step[j] \in Decision => after.step[i] = "APPROVED"
    BY <1>1, <1>2 DEF SoundRequest, SoundRecord, Decision
  <1>7. SoundRecord(after, all)
    BY <1>4, <1>5, <1>6 DEF SoundRecord
  <1>8. req.status \in {"PENDING", "REJECTED"} /\ req.step[1] # "ABSENT"
    BY DEF SoundRequest, SoundStatus, RequestRow, ApprovalStatus
  <1>9. after.step[1] # "ABSENT" /\ \A j \in Order : after.step[j] = step[j]
    BY <1>1, <1>2, <1>8 DEF Decision, Order
  <1>10. SoundStatus(after)
    <2>1. CASE req.status = "REJECTED"
      <3>1. PICK j \in Order : req.step[j] = "REJECTED"
        BY <2>1 DEF SoundRequest, SoundStatus
      <3>2. after.status = "REJECTED" /\ after.step[j] = "REJECTED"
        BY <1>1, <1>2, <2>1, <3>1
      <3> QED  BY <1>9, <3>2 DEF SoundStatus
    <2>2. CASE req.status = "PENDING"
      <3>1. \A j \in Order : req.step[j] \in {"PENDING", "APPROVED", "ABSENT"}
        BY <2>2 DEF SoundRequest, SoundStatus
      <3>2. after.status = ResolveRequestStatus(step)
        BY <1>1, <2>2
      <3>3. CASE d.kind = "REJECTED"
        <4>1. after.status = "REJECTED" /\ after.step[k] = "REJECTED"
          BY <1>2, <1>9, <3>2, <3>3 DEF ResolveRequestStatus
        <4> QED  BY <1>9, <4>1 DEF SoundStatus
      <3>4. CASE d.kind = "APPROVED"
        <4>1. \A j \in Order : after.step[j] \in {"PENDING", "APPROVED", "ABSENT"}
          BY <1>2, <1>9, <3>1, <3>4
        <4>2. CASE \A j \in Order : after.step[j] # "PENDING"
          <5>1. after.status = "APPROVED"
            BY <1>9, <3>2, <4>1, <4>2 DEF ResolveRequestStatus, Present
          <5> QED  BY <1>9, <4>1, <4>2, <5>1 DEF SoundStatus
        <4>3. CASE \E j \in Order : after.step[j] = "PENDING"
          <5>1. after.status = "PENDING"
            BY <1>9, <3>2, <4>1, <4>3 DEF ResolveRequestStatus, Present
          <5> QED  BY <1>9, <4>1, <4>3, <5>1 DEF SoundStatus
        <4> QED  BY <4>2, <4>3
      <3> QED  BY <3>3, <3>4 DEF Decision
    <2> QED  BY <1>8, <2>1, <2>2
  <1> QED  BY <1>7, <1>10 DEF SoundRequest

(* A step that leaves the engine's tables alone and starts no decision. *)
LEMMA EngineQuiet ==
    ASSUME EngineInv, UNCHANGED <<request, decision>>,
           \A g \in Handlers : handler'[g] = handler[g] \/ ~Deciding(g)'
    PROVE  EngineInv'
  BY DEF EngineInv, SoundRows, Deciding, DeciderKnows

LEMMA SubmitEngine ==
    ASSUME TypeInv, EngineInv, NEW h \in Handlers, SubmitWrite(h)
    PROVE  EngineInv'
  <1> DEFINE t == handler[h]
             c == handler[h].c
  <1>1. t \in SubmitTxn /\ t # Idle /\ c \in Changes
    BY HandlerShape DEF TypeInv, TypeOK, SubmitWrite, Idle, SubmitTxn
  <1>2. change[c] # NoRow
    BY <1>1 DEF TypeInv, Referenced
  <1> HIDE DEF t, c
  <1>3. PICK s \in Stamps \ Opened(c) :
           request' = [request EXCEPT ![c] =
             [i \in Stamps |-> IF i = s THEN NewRequest(t)
                               ELSE IF i = t.stale THEN Cancelled(@[i]) ELSE @[i]]]
    BY DEF SubmitWrite, t, c
  <1>4. NewRequest(t) \in RequestRow /\ NewRequest(t) # NoRow
    BY <1>1, <1>2, RequestType, NoRowAssumption DEF c, t
  <1>5. \A d \in Changes, r \in Stamps : request[d][r] # NoRow =>
           \/ request'[d][r] = request[d][r]
           \/ request'[d][r] = Cancelled(request[d][r])
    BY <1>1, <1>3 DEF TypeInv, TypeOK, Opened
  <1>6. \A d \in Changes, r \in Stamps : request[d][r] = NoRow =>
           \/ request'[d][r] = NoRow
           \/ request'[d][r] = NewRequest(t) /\ request'[d][r] # NoRow
    <2>1. t.stale \in Stamps => request[c][t.stale] # NoRow
      BY <1>1, StampAssumption DEF TypeInv, Referenced, Stamps, t, c
    <2> QED  BY <1>1, <1>3, <1>4, <2>1 DEF TypeInv, TypeOK
  <1>7. \A r \in RequestRow : Cancelled(r) \in RequestRow /\ Cancelled(r) # NoRow
    BY RequestType, NoRowAssumption
  <1>8. SoundRows'
    <2> SUFFICES ASSUME NEW d \in Changes, NEW r \in Stamps
                 PROVE  IF request'[d][r] = NoRow
                        THEN \A k \in Order : decision[d][r][k] = <<>>
                        ELSE SoundRequest(request'[d][r], decision[d][r])
      BY DEF SoundRows, SubmitWrite
    <2>1. decision[d][r] \in [Order -> Seq(DecisionRow)]
             /\ (request[d][r] # NoRow => request[d][r] \in RequestRow)
      BY DEF TypeInv, TypeOK
    <2>2. CASE request[d][r] = NoRow
      BY <1>1, <1>2, <1>6, <2>1, <2>2, SoundWhenOpened DEF EngineInv, SoundRows, t, c
    <2>3. CASE request[d][r] # NoRow
      BY <1>5, <1>7, <2>1, <2>3, SoundWhenCancelled DEF EngineInv, SoundRows
    <2> QED  BY <2>2, <2>3
  <1>9. ASSUME NEW g \in Handlers, Deciding(g)' PROVE DeciderKnows(handler[g])'
    <2>1. handler'[g] = handler[g] /\ Deciding(g)
      BY <1>9 DEF SubmitWrite, Finish, Deciding, Idle, DecideTxn, TypeInv, TypeOK
    <2> DEFINE w == handler[g]
               req == request[w.c][w.stamp]
    <2>2. w.c \in Changes /\ w.stamp \in Stamps /\ req # NoRow /\ req \in RequestRow
      BY <2>1 DEF Deciding, DecideTxn, TypeInv, TypeOK, Referenced
    <2>3. request'[w.c][w.stamp] \in {req, Cancelled(req)}
      BY <1>5, <2>2
    <2>4. /\ Cancelled(req).createdBy = req.createdBy
          /\ \A j \in Order : req.step[j] = "APPROVED" => Cancelled(req).step[j] = "APPROVED"
      BY <2>2 DEF Cancelled, SkipPending, RequestRow
    <2>5. /\ Wears(w.user, RequiredHat[w.order])
          /\ req.createdBy = w.user => w.override
          /\ \A j \in Order : j < w.order => req.step[j] = "APPROVED"
      BY <2>1 DEF EngineInv, DeciderKnows
    <2>6. handler'[g] = w
      BY <2>1
    <2> HIDE DEF req, w
    <2>7. /\ request'[w.c][w.stamp].createdBy = req.createdBy
          /\ \A j \in Order : req.step[j] = "APPROVED" =>
                request'[w.c][w.stamp].step[j] = "APPROVED"
      BY <2>3, <2>4
    <2> QED  BY <2>5, <2>6, <2>7 DEF DeciderKnows
  <1> QED  BY <1>8, <1>9 DEF EngineInv

LEMMA ReadEngine ==
    ASSUME TypeInv, EngineInv, NEW h \in Handlers, DecisionRead(h)
    PROVE  EngineInv'
  <1> DEFINE t == handler[h]
  <1>1. t \in DecideTxn /\ t.c \in Changes /\ t.stamp \in Stamps /\ t.order \in Order
    BY HandlerShape DEF TypeInv, TypeOK, DecisionRead, DecideTxn
  <1> DEFINE req == request[t.c][t.stamp]
  <1>2. req # NoRow
    BY <1>1 DEF TypeInv, Referenced
  <1>3. SoundRequest(req, decision[t.c][t.stamp])
    BY <1>1, <1>2 DEF EngineInv, SoundRows
  <1>4. DeciderKnows(t)
    <2>1. req.status = "PENDING" /\ IsCurrent(req.step, t.order)
             /\ Wears(t.user, RequiredHat[t.order])
             /\ (req.createdBy = t.user => t.override)
      BY DEF DecisionRead, Decidable
    <2>2. \A j \in Order : j < t.order => req.step[j] = "APPROVED"
      <3>1. /\ \A j \in Order : req.step[j] \in {"PENDING", "APPROVED", "ABSENT"}
            /\ req.step[1] # "ABSENT"
        BY <1>3, <2>1 DEF SoundRequest, SoundStatus
      <3>2. \A j \in Order : j < t.order => j = 1
        BY <1>1 DEF Order
      <3>3. \A j \in Order : j < t.order => req.step[j] # "PENDING"
        BY <2>1 DEF IsCurrent
      <3> HIDE DEF t, req
      <3> QED  BY <3>1, <3>2, <3>3
    <2> QED  BY <2>1, <2>2 DEF DeciderKnows
  <1>5. handler' = [handler EXCEPT ![h] = [t EXCEPT !.at = "write"]]
           /\ UNCHANGED <<request, decision>>
    BY DEF DecisionRead, Keep
  <1>6. ASSUME NEW g \in Handlers, Deciding(g)' PROVE DeciderKnows(handler[g])'
    <2>1. CASE g = h
      <3>1. handler'[g] = [t EXCEPT !.at = "write"]
        BY <1>5, <2>1 DEF TypeInv, TypeOK
      <3>2. /\ handler'[g].c = t.c /\ handler'[g].stamp = t.stamp /\ handler'[g].order = t.order
            /\ handler'[g].user = t.user /\ handler'[g].override = t.override
        BY <1>1, <3>1 DEF DecideTxn
      <3> HIDE DEF t, req
      <3> QED  BY <1>4, <1>5, <3>2 DEF DeciderKnows
    <2>2. CASE g # h
      <3>1. handler'[g] = handler[g]
        BY <1>5, <2>2 DEF TypeInv, TypeOK
      <3> QED  BY <1>5, <1>6, <3>1 DEF EngineInv, Deciding, DeciderKnows
    <2> QED  BY <2>1, <2>2
  <1> QED  BY <1>5, <1>6 DEF EngineInv, SoundRows

(* What a decision about to be written may rely on: the row it names exists,
   and its step is pending still. *)
LEMMA Decider ==
    ASSUME TypeInv, NEW h \in Handlers, DecisionWrite(h)
    PROVE  LET t   == handler[h]
               req == request[t.c][t.stamp]
           IN  /\ t \in DecideTxn /\ t.c \in Changes /\ t.stamp \in Stamps
               /\ t.order \in Order /\ t.user \in Users /\ t.override \in BOOLEAN
               /\ req # NoRow /\ req \in RequestRow /\ req.step[t.order] = "PENDING"
  <1> DEFINE t == handler[h]
  <1>1. t \in HandlerState
    BY DEF TypeInv, TypeOK
  <1>2. t.op = "approve" /\ t.at = "write" /\ StepStillPending(t)
    BY DEF DecisionWrite
  <1>3. t \in DecideTxn => request[t.c][t.stamp] # NoRow
    BY DEF TypeInv, Referenced
  <1> HIDE DEF t
  <1>4. t \in DecideTxn
    BY <1>1, <1>2, HandlerShape
  <1>5. /\ t.c \in Changes /\ t.stamp \in Stamps /\ t.order \in Order
        /\ t.user \in Users /\ t.override \in BOOLEAN
    BY <1>4 DEF DecideTxn
  <1>6. request[t.c][t.stamp] \in RequestRow
    BY <1>3, <1>4, <1>5 DEF TypeInv, TypeOK
  <1> QED  BY <1>2, <1>3, <1>4, <1>5, <1>6 DEF StepStillPending, t

(* A decision leaves the other steps and the creator of the request alone. *)
LEMMA DecidedFrame ==
    ASSUME NEW req \in RequestRow, NEW k \in Order, NEW kind
    PROVE  /\ Decided(req, k, kind).createdBy = req.createdBy
           /\ \A j \in Order : j # k => Decided(req, k, kind).step[j] = req.step[j]
  BY DEF Decided, RequestRow

LEMMA DecidedStep ==
    ASSUME NEW req \in RequestRow, NEW k \in Order, NEW kind
    PROVE  Decided(req, k, kind).step = [req.step EXCEPT ![k] = kind]
  BY DEF Decided, RequestRow

LEMMA DecideEngine ==
    ASSUME TypeInv, EngineInv, NEW h \in Handlers, DecisionWrite(h)
    PROVE  EngineInv'
  <1> DEFINE t   == handler[h]
             req == request[t.c][t.stamp]
  <1>1. /\ t \in DecideTxn /\ t.c \in Changes /\ t.stamp \in Stamps /\ t.order \in Order
        /\ t.user \in Users /\ t.override \in BOOLEAN /\ Deciding(h)
    BY Decider DEF DecisionWrite, Deciding
  <1>2. PICK kind \in Decision :
           /\ request' = [request EXCEPT ![t.c][t.stamp] = Decided(req, t.order, kind)]
           /\ decision' = [decision EXCEPT ![t.c][t.stamp][t.order] =
                Append(@, [actor |-> t.user, kind |-> kind,
                           override |-> t.override /\ req.createdBy = t.user])]
    BY DEF DecisionWrite
  <1> DEFINE made == [actor |-> t.user, kind |-> kind,
                      override |-> t.override /\ req.createdBy = t.user]
             rows == decision[t.c][t.stamp]
  <1>3. /\ req # NoRow /\ req \in RequestRow
        /\ rows \in [Order -> Seq(DecisionRow)]
        /\ SoundRequest(req, rows)
        /\ DeciderKnows(t)
        /\ req.step[t.order] = "PENDING"
    <2>1. req # NoRow /\ req \in RequestRow /\ req.step[t.order] = "PENDING"
      BY Decider
    <2>2. rows \in [Order -> Seq(DecisionRow)]
      BY <1>1 DEF TypeInv, TypeOK
    <2>3. SoundRequest(req, rows)
      BY <1>1, <2>1 DEF EngineInv, SoundRows
    <2>4. DeciderKnows(t)
      BY <1>1 DEF EngineInv
    <2> QED  BY <2>1, <2>2, <2>3, <2>4
  <1>4. /\ made \in DecisionRow /\ made.kind \in Decision
        /\ Wears(made.actor, RequiredHat[t.order])
        /\ made.override <=> made.actor = req.createdBy
        /\ \A j \in Order : j < t.order => req.step[j] = "APPROVED"
    BY <1>1, <1>2, <1>3 DEF DecisionRow, DeciderKnows
  <1>5. /\ Decided(req, t.order, kind) \in RequestRow
        /\ Decided(req, t.order, kind) # NoRow
        /\ Decided(req, t.order, kind).createdBy = req.createdBy
        /\ \A j \in Order : j # t.order => Decided(req, t.order, kind).step[j] = req.step[j]
    <2> HIDE DEF t, req
    <2>1. Decided(req, t.order, kind) \in RequestRow
      BY <1>1, <1>2, <1>3, RequestType
    <2>2. /\ Decided(req, t.order, kind).createdBy = req.createdBy
          /\ \A j \in Order : j # t.order =>
                Decided(req, t.order, kind).step[j] = req.step[j]
      BY <1>1, <1>3, DecidedFrame
    <2> QED  BY <2>1, <2>2, NoRowAssumption
  <1>6. /\ request'[t.c][t.stamp] = Decided(req, t.order, kind)
        /\ decision'[t.c][t.stamp] = [rows EXCEPT ![t.order] = Append(@, made)]
        /\ \A d \in Changes, s \in Stamps : <<d, s>> # <<t.c, t.stamp>> =>
              request'[d][s] = request[d][s] /\ decision'[d][s] = decision[d][s]
    BY <1>1, <1>2 DEF TypeInv, TypeOK
  <1>7. SoundRequest(Decided(req, t.order, kind), [rows EXCEPT ![t.order] = Append(@, made)])
    <2> HIDE DEF req, rows, t
    <2>1. made.kind = kind
      OBVIOUS
    <2> HIDE DEF made
    <2> QED  BY <1>1, <1>3, <1>4, <2>1, SoundWhenDecided
  <1>8. SoundRows'
    <2> SUFFICES ASSUME NEW d \in Changes, NEW s \in Stamps
                 PROVE  IF request'[d][s] = NoRow
                        THEN \A k \in Order : decision'[d][s][k] = <<>>
                        ELSE SoundRequest(request'[d][s], decision'[d][s])
      BY DEF SoundRows
    <2>1. CASE <<d, s>> = <<t.c, t.stamp>>
      <3> HIDE DEF t, req, made, rows
      <3> QED  BY <1>5, <1>6, <1>7, <2>1
    <2>2. CASE <<d, s>> # <<t.c, t.stamp>>
      <3>1. request'[d][s] = request[d][s] /\ decision'[d][s] = decision[d][s]
        BY <1>6, <2>2
      <3> QED  BY <3>1 DEF EngineInv, SoundRows
    <2> QED  BY <2>1, <2>2
  <1>9. ASSUME NEW g \in Handlers, Deciding(g)' PROVE DeciderKnows(handler[g])'
    <2>1. handler'[g] = handler[g] /\ Deciding(g)
      BY <1>9 DEF DecisionWrite, Finish, Deciding, Idle, DecideTxn, TypeInv, TypeOK
    <2> DEFINE w == handler[g]
    <2>2. w.c \in Changes /\ w.stamp \in Stamps /\ DeciderKnows(w)
      BY <2>1 DEF Deciding, DecideTxn, EngineInv
    <2>3. CASE <<w.c, w.stamp>> # <<t.c, t.stamp>>
      <3>1. request'[w.c][w.stamp] = request[w.c][w.stamp]
        BY <1>6, <2>2, <2>3
      <3> HIDE DEF req, t
      <3> QED  BY <2>1, <2>2, <3>1 DEF DeciderKnows
    <2>4. CASE <<w.c, w.stamp>> = <<t.c, t.stamp>>
      <3>1. request[w.c][w.stamp] = req
               /\ request'[w.c][w.stamp] = Decided(req, t.order, kind)
        BY <1>6, <2>4
      <3>2. \A j \in Order : j < w.order => req.step[j] = "APPROVED" /\ j # t.order
        BY <1>3, <2>2, <3>1 DEF DeciderKnows
      <3> HIDE DEF req, t
      <3> QED  BY <1>5, <2>1, <2>2, <3>1, <3>2 DEF DeciderKnows
    <2> QED  BY <2>3, <2>4
  <1> QED  BY <1>8, <1>9 DEF EngineInv

LEMMA EngineNext == TypeInv /\ EngineInv /\ [Next]_vars => EngineInv'
  <1> SUFFICES ASSUME TypeInv, EngineInv, [Next]_vars PROVE EngineInv'
    OBVIOUS
  <1>1. ASSUME NEW u \in Users, NEW c \in Changes,
               CreateChange(u, c) \/ CreateChangeFromDemand(u, c)
        PROVE  EngineInv'
    BY <1>1, EngineQuiet DEF CreateChange, CreateChangeFromDemand, Insert
  <1>2. ASSUME NEW c \in Changes, WindowElapses(c) PROVE EngineInv'
    BY <1>2, EngineQuiet DEF WindowElapses
  <1>3. ASSUME NEW h \in Handlers, NEW u \in Users, NEW c \in Changes, Begin(h, u, c)
        PROVE  EngineInv'
    BY <1>3, EngineQuiet DEF Begin, EditRead, AdvanceRead, ScheduleRead, RollbackRead,
       PirRead, SubmitRead, ApproveReadRow, Keep, Deciding, DecideTxn, TypeInv, TypeOK
  <1>4. ASSUME NEW h \in Handlers, Continue(h) PROVE EngineInv'
    <2>1. CASE \/ EditWrite(h) \/ AdvanceWrite(h) \/ ScheduleWrite(h) \/ RollbackWrite(h)
               \/ PirWrite(h) \/ Abort(h)
      BY <2>1, EngineQuiet DEF EditWrite, AdvanceWrite, ScheduleWrite, RollbackWrite,
         PirWrite, Abort, Finish, Deciding, DecideTxn, Idle, TypeInv, TypeOK
    <2>2. CASE AdvanceGate(h) \/ SubmitFind(h) \/ ApproveReadStep(h)
      BY <2>2, EngineQuiet DEF AdvanceGate, SubmitFind, ApproveReadStep, Keep, Deciding,
         DecideTxn, TypeInv, TypeOK
    <2> QED  BY <1>4, <2>1, <2>2, SubmitEngine, ReadEngine, DecideEngine DEF Continue
  <1>5. CASE UNCHANGED vars
    BY <1>5, EngineQuiet DEF vars
  <1> QED  BY <1>1, <1>2, <1>3, <1>4, <1>5 DEF Next

THEOREM EngineInvariant == Spec => [](TypeInv /\ EngineInv)
  BY TypeInit, TypeNext, EngineInit, EngineNext, PTL DEF Spec

(* However the handlers interleave, a step that was decided has one decision
   row, of the kind it resolved to, and any other step has none. *)
THEOREM OneDecision == Spec => []OneDecisionPerStep
  <1>1. EngineInv => OneDecisionPerStep
    BY DEF EngineInv, SoundRows, SoundRequest, SoundRecord, OneDecisionPerStep
  <1> QED  BY <1>1, EngineInvariant, PTL

(* Nobody decides a step without its hat, and a change's owner decides one only
   with the override on record. *)
THEOREM Entitled == Spec => []DecidersEntitled
  <1>1. EngineInv => DecidersEntitled
    BY DEF EngineInv, SoundRows, SoundRequest, SoundRecord, DecidersEntitled
  <1> QED  BY <1>1, EngineInvariant, PTL

(* A later step is never decided before the earlier ones are approved. *)
THEOREM InOrder == Spec => []StepsDecidedInOrder
  <1>1. EngineInv => StepsDecidedInOrder
    BY DEF EngineInv, SoundRows, SoundRequest, SoundRecord, StepsDecidedInOrder
  <1> QED  BY <1>1, EngineInvariant, PTL

(* The status of a request is the one its steps add up to. *)
THEOREM StatusAndSteps == Spec => []StatusReflectsSteps
  <1>1. EngineInv => StatusReflectsSteps
    BY DEF EngineInv, SoundRows, SoundRequest, SoundStatus, StatusReflectsSteps
  <1> QED  BY <1>1, EngineInvariant, PTL

-----------------------------------------------------------------------------
(* The refinement of the approval contract. *)

StepIds == Changes \X Stamps \X Order

StatusOf(x) == IF request[x[1]][x[2]] = NoRow THEN "ABSENT"
               ELSE request[x[1]][x[2]].step[x[3]]

VerdictsOf(x) == [i \in DOMAIN decision[x[1]][x[2]][x[3]] |->
                    decision[x[1]][x[2]][x[3]][i].kind]

LEMMA ContractInit == Init => Contract!Init
  BY DEF Init, Contract!Init, Order

LEMMA ContractReissue ==
    ASSUME NEW opened \in SUBSET StepIds, NEW dropped \in SUBSET StepIds,
           \A x \in opened : StatusOf(x) = "ABSENT",
           \A x \in dropped : StatusOf(x) = "PENDING",
           \A x \in StepIds : StatusOf(x)' = IF x \in opened THEN "PENDING"
                                             ELSE IF x \in dropped THEN "SKIPPED"
                                             ELSE StatusOf(x),
           UNCHANGED decision
    PROVE  Contract!Next
  BY DEF Contract!Next, Contract!Reissue, StepIds, StatusOf

LEMMA ContractDecide ==
    ASSUME NEW x \in StepIds, NEW kind \in Decision,
           StatusOf(x) = "PENDING",
           \A y \in StepIds : /\ StatusOf(y)' = IF y = x THEN kind ELSE StatusOf(y)
                              /\ VerdictsOf(y)' = IF y = x THEN Append(VerdictsOf(y), kind)
                                                  ELSE VerdictsOf(y)
    PROVE  Contract!Next
  <1>1. [y \in StepIds |-> StatusOf(y)'] = [[y \in StepIds |-> StatusOf(y)] EXCEPT ![x] = kind]
    OBVIOUS
  <1>2. [y \in StepIds |-> VerdictsOf(y)'] =
           [[y \in StepIds |-> VerdictsOf(y)] EXCEPT ![x] = Append(@, kind)]
    OBVIOUS
  <1>3. Contract!Decide(x, kind)
    BY <1>1, <1>2 DEF Contract!Decide, StepIds, StatusOf, VerdictsOf
  <1> QED  BY <1>3 DEF Contract!Next, Contract!Kinds, StepIds, Decision

LEMMA SubmitContract ==
    ASSUME TypeInv, EngineInv, NEW h \in Handlers, SubmitWrite(h)
    PROVE  Contract!Next
  <1> DEFINE t == handler[h]
             c == handler[h].c
  <1>1. t \in SubmitTxn /\ t # Idle /\ c \in Changes
    BY HandlerShape DEF TypeInv, TypeOK, SubmitWrite, Idle, SubmitTxn
  <1>2. change[c] # NoRow /\ (t.stale \in Stamps => request[c][t.stale] # NoRow)
    BY <1>1, StampAssumption DEF TypeInv, Referenced, Stamps
  <1> HIDE DEF t, c
  <1>3. PICK s \in Stamps \ Opened(c) :
           request' = [request EXCEPT ![c] =
             [i \in Stamps |-> IF i = s THEN NewRequest(t)
                               ELSE IF i = t.stale THEN Cancelled(@[i]) ELSE @[i]]]
    BY DEF SubmitWrite, t, c
  <1>4. /\ NewRequest(t) # NoRow
        /\ \A k \in Order : NewRequest(t).step[k] \in {"PENDING", "ABSENT"}
    BY <1>1, <1>2, RequestType, NoRowAssumption DEF c, t, NewRequest, OpenSteps
  <1>5. request[c][s] = NoRow /\ s # t.stale
    BY <1>2, <1>3 DEF Opened
  <1> DEFINE opened  == {x \in StepIds : /\ x[1] = c /\ x[2] = s
                                         /\ NewRequest(t).step[x[3]] = "PENDING"}
             dropped == {x \in StepIds : /\ x[1] = c /\ x[2] = t.stale
                                         /\ StatusOf(x) = "PENDING"}
  <1>6. \A x \in opened : StatusOf(x) = "ABSENT"
    BY <1>5 DEF StatusOf
  <1>7. ASSUME NEW x \in StepIds
        PROVE  StatusOf(x)' = IF x \in opened THEN "PENDING"
                              ELSE IF x \in dropped THEN "SKIPPED"
                              ELSE StatusOf(x)
    <2>1. x[1] \in Changes /\ x[2] \in Stamps /\ x[3] \in Order
      BY DEF StepIds
    <2>2. request'[x[1]][x[2]] = IF x[1] = c /\ x[2] = s THEN NewRequest(t)
                                 ELSE IF x[1] = c /\ x[2] = t.stale
                                      THEN Cancelled(request[x[1]][x[2]])
                                 ELSE request[x[1]][x[2]]
      BY <1>1, <1>3, <2>1 DEF TypeInv, TypeOK
    <2>3. CASE x[1] = c /\ x[2] = s
      BY <1>4, <1>5, <2>1, <2>2, <2>3 DEF StatusOf
    <2>4. CASE x[1] = c /\ x[2] = t.stale
      <3>1. request[x[1]][x[2]] # NoRow /\ request[x[1]][x[2]] \in RequestRow
        BY <1>2, <2>1, <2>4 DEF TypeInv, TypeOK
      <3>2. Cancelled(request[x[1]][x[2]]) \in RequestRow
        BY <3>1, RequestType
      <3>3. Cancelled(request[x[1]][x[2]]).step[x[3]] =
               IF request[x[1]][x[2]].step[x[3]] = "PENDING" THEN "SKIPPED"
               ELSE request[x[1]][x[2]].step[x[3]]
        BY <2>1, <3>1 DEF Cancelled, SkipPending, RequestRow
      <3> QED  BY <1>5, <2>2, <2>4, <3>1, <3>2, <3>3, NoRowAssumption DEF StatusOf
    <2>5. CASE ~(x[1] = c /\ x[2] \in {s, t.stale})
      BY <2>2, <2>5 DEF StatusOf
    <2> QED  BY <2>3, <2>4, <2>5
  <1>8. UNCHANGED decision
    BY DEF SubmitWrite
  <1> HIDE DEF opened
  <1>9. opened \in SUBSET StepIds /\ dropped \in SUBSET StepIds
    BY DEF opened
  <1>10. \A x \in dropped : StatusOf(x) = "PENDING"
    OBVIOUS
  <1> HIDE DEF dropped
  <1> QED  BY <1>6, <1>7, <1>8, <1>9, <1>10, ContractReissue

LEMMA DecideContract ==
    ASSUME TypeInv, EngineInv, NEW h \in Handlers, DecisionWrite(h)
    PROVE  Contract!Next
  <1> DEFINE t   == handler[h]
             req == request[t.c][t.stamp]
             x   == <<t.c, t.stamp, t.order>>
  <1>1. t \in DecideTxn /\ t.c \in Changes /\ t.stamp \in Stamps /\ t.order \in Order
    BY Decider
  <1>2. PICK kind \in Decision :
           /\ request' = [request EXCEPT ![t.c][t.stamp] = Decided(req, t.order, kind)]
           /\ decision' = [decision EXCEPT ![t.c][t.stamp][t.order] =
                Append(@, [actor |-> t.user, kind |-> kind,
                           override |-> t.override /\ req.createdBy = t.user])]
    BY DEF DecisionWrite
  <1>3. /\ req # NoRow /\ req \in RequestRow /\ req.step[t.order] = "PENDING"
        /\ decision[t.c][t.stamp][t.order] = <<>>
    <2>1. req # NoRow /\ req \in RequestRow /\ req.step[t.order] = "PENDING"
      BY Decider
    <2>2. SoundRequest(req, decision[t.c][t.stamp])
      BY <1>1, <2>1 DEF EngineInv, SoundRows
    <2> HIDE DEF t, req
    <2> QED  BY <1>1, <2>1, <2>2 DEF SoundRequest, SoundRecord, Decision
  <1>4. Decided(req, t.order, kind) # NoRow
           /\ Decided(req, t.order, kind).step = [req.step EXCEPT ![t.order] = kind]
    <2> HIDE DEF t, req
    <2> QED  BY <1>1, <1>2, <1>3, RequestType, DecidedStep, NoRowAssumption
  <1>5. ASSUME NEW y \in StepIds
        PROVE  /\ StatusOf(y)' = IF y = x THEN kind ELSE StatusOf(y)
               /\ VerdictsOf(y)' = IF y = x THEN Append(VerdictsOf(y), kind) ELSE VerdictsOf(y)
    <2>1. y[1] \in Changes /\ y[2] \in Stamps /\ y[3] \in Order /\ y = <<y[1], y[2], y[3]>>
      BY DEF StepIds
    <2>2. CASE y[1] = t.c /\ y[2] = t.stamp
      <3>1. request'[y[1]][y[2]] = Decided(req, t.order, kind) /\ request[y[1]][y[2]] = req
        BY <1>1, <1>2, <2>1, <2>2 DEF TypeInv, TypeOK
      <3>2. StatusOf(y)' = [req.step EXCEPT ![t.order] = kind][y[3]]
        BY <1>4, <3>1 DEF StatusOf
      <3>3. StatusOf(y)' = IF y = x THEN kind ELSE StatusOf(y)
        <4>1. y = x <=> y[3] = t.order
          BY <2>1, <2>2
        <4> HIDE DEF x, t, req
        <4>2. StatusOf(y) = req.step[y[3]]
          BY <1>3, <3>1 DEF StatusOf
        <4>3. req.step \in [Order -> StepStatus \cup {"ABSENT"}]
          BY <1>3 DEF RequestRow
        <4>4. [req.step EXCEPT ![t.order] = kind][y[3]] =
                 IF y[3] = t.order THEN kind ELSE req.step[y[3]]
          BY <2>1, <4>3
        <4> QED  BY <3>2, <4>1, <4>2, <4>4
      <3>4. CASE y[3] = t.order
        <4> DEFINE made == [actor |-> t.user, kind |-> kind,
                            override |-> t.override /\ req.createdBy = t.user]
        <4>1. /\ decision' = [decision EXCEPT ![t.c][t.stamp][t.order] = Append(@, made)]
              /\ made.kind = kind
          BY <1>2
        <4>2. y = x
          BY <2>1, <2>2, <3>4
        <4>3. decision \in [Changes -> [Stamps -> [Order -> Seq(DecisionRow)]]]
          BY DEF TypeInv, TypeOK
        <4> HIDE DEF x, t, req, made
        <4>4. /\ decision[y[1]][y[2]][y[3]] = <<>>
              /\ decision'[y[1]][y[2]][y[3]] = Append(<<>>, made)
          BY <1>1, <1>3, <2>2, <3>4, <4>1, <4>3
        <4>5. VerdictsOf(y) = <<>>
          BY <4>4 DEF VerdictsOf
        <4>6. decision'[y[1]][y[2]][y[3]] = <<made>>
          BY <4>4
        <4>7. VerdictsOf(y)' = [i \in DOMAIN <<made>> |-> <<made>>[i].kind]
          BY <4>6 DEF VerdictsOf
        <4>8. [i \in DOMAIN <<made>> |-> <<made>>[i].kind] = <<kind>>
          BY <4>1
        <4> QED  BY <3>3, <4>2, <4>5, <4>7, <4>8
      <3>5. CASE y[3] # t.order
        <4>1. /\ \E row : decision' = [decision EXCEPT ![t.c][t.stamp][t.order] = row]
              /\ decision \in [Changes -> [Stamps -> [Order -> Seq(DecisionRow)]]]
          BY <1>2 DEF TypeInv, TypeOK
        <4>2. y # x
          BY <3>5
        <4> HIDE DEF x, t, req
        <4>3. decision'[y[1]][y[2]][y[3]] = decision[y[1]][y[2]][y[3]]
          BY <1>1, <2>1, <3>5, <4>1
        <4>4. VerdictsOf(y)' = VerdictsOf(y)
          BY <4>3 DEF VerdictsOf
        <4> QED  BY <3>3, <4>2, <4>4
      <3> QED  BY <3>4, <3>5
    <2>3. CASE ~(y[1] = t.c /\ y[2] = t.stamp)
      <3>1. /\ request'[y[1]][y[2]] = request[y[1]][y[2]]
            /\ decision'[y[1]][y[2]] = decision[y[1]][y[2]]
        BY <1>1, <1>2, <2>1, <2>3 DEF TypeInv, TypeOK
      <3>2. y # x
        <4> HIDE DEF t
        <4> QED  BY <2>3
      <3> QED  BY <3>1, <3>2 DEF StatusOf, VerdictsOf
    <2> QED  BY <2>2, <2>3
  <1>6. x \in StepIds /\ StatusOf(x) = "PENDING"
    BY <1>1, <1>3 DEF StepIds, StatusOf
  <1> HIDE DEF x
  <1> QED  BY <1>2, <1>5, <1>6, ContractDecide

(* Only a submission and a decision write the engine's tables. *)
LEMMA EngineTables ==
    ASSUME [Next]_vars
    PROVE  \/ UNCHANGED <<request, decision>>
           \/ \E h \in Handlers : SubmitWrite(h) \/ DecisionWrite(h)
  <1>1. ASSUME NEW u \in Users, NEW c \in Changes,
               CreateChange(u, c) \/ CreateChangeFromDemand(u, c)
        PROVE  UNCHANGED <<request, decision>>
    BY <1>1 DEF CreateChange, CreateChangeFromDemand, Insert
  <1>2. ASSUME NEW c \in Changes, WindowElapses(c) PROVE UNCHANGED <<request, decision>>
    BY <1>2 DEF WindowElapses
  <1>3. ASSUME NEW h \in Handlers, NEW u \in Users, NEW c \in Changes, Begin(h, u, c)
        PROVE  UNCHANGED <<request, decision>>
    BY <1>3 DEF Begin, EditRead, AdvanceRead, ScheduleRead, RollbackRead,
       PirRead, SubmitRead, ApproveReadRow, Keep
  <1>4. ASSUME NEW h \in Handlers, Continue(h)
        PROVE  SubmitWrite(h) \/ DecisionWrite(h) \/ UNCHANGED <<request, decision>>
    BY <1>4 DEF Continue, EditWrite, AdvanceGate, AdvanceWrite, ScheduleWrite,
       RollbackWrite, PirWrite, SubmitFind, ApproveReadStep, DecisionRead, Abort, Keep
  <1>5. CASE UNCHANGED vars
    BY <1>5 DEF vars
  <1> QED  BY <1>1, <1>2, <1>3, <1>4, <1>5 DEF Next

LEMMA ContractNext == TypeInv /\ EngineInv /\ [Next]_vars => [Contract!Next]_Contract!vars
  <1> SUFFICES ASSUME TypeInv, EngineInv, [Next]_vars PROVE [Contract!Next]_Contract!vars
    OBVIOUS
  <1>1. UNCHANGED <<request, decision>> => UNCHANGED Contract!vars
    BY DEF Contract!vars
  <1> QED  BY <1>1, EngineTables, SubmitContract, DecideContract

(* The approval engine, run by any number of concurrent handlers, implements
   its contract: a step is decided or skipped once, with its decision row. *)
THEOREM ContractKept == Spec => ImplementsContract
  BY EngineInvariant, ContractInit, ContractNext, PTL DEF Spec, ImplementsContract

-----------------------------------------------------------------------------
(* No NORMAL change gets past approval without a granted request.  A grant is
   never taken back, so what a handler concluded from it stays true. *)

Needs(c) == change[c].type = "NORMAL" => Granted(c)

HandlerGranted(t) ==
    /\ t \in GateTxn => t.row.type = change[t.c].type
    /\ t \in GateTxn /\ t.row.status \in PastApproval => Needs(t.c)
    /\ t \in AdvanceTxn /\ CHANGE_FORWARD[t.from] \in PastApproval => Needs(t.c)
    /\ t \in PlainTxn /\ t.op = "rollback" => Needs(t.c)

GrantInv ==
    /\ GrantedBeforeScheduled
    /\ \A h \in Handlers : HandlerGranted(handler[h])

LEMMA GrantInit == Init => GrantInv
  BY DEF Init, GrantInv, HandlerGranted, GrantedBeforeScheduled, Idle, GateTxn, AdvanceTxn, PlainTxn

(* An approved latest request is a grant. *)
LEMMA ApprovedGrants ==
    ASSUME TypeInv, EngineInv, NEW c \in Changes, ApprovalStatusOf(c) = "APPROVED"
    PROVE  Granted(c)
  <1>1. PICK s \in Stamps : IsLatest(c, s) /\ request[c][s].status = "APPROVED"
    BY DEF ApprovalStatusOf
  <1>2. request[c][s] # NoRow
    BY <1>1 DEF IsLatest, Opened
  <1>3. \A k \in Order : request[c][s].step[k] \in {"APPROVED", "ABSENT"}
    BY <1>1, <1>2 DEF EngineInv, SoundRows, SoundRequest, SoundStatus
  <1> QED  BY <1>2, <1>3 DEF Granted, GrantedBy, Present

(* A grant stays. *)
LEMMA GrantStays ==
    ASSUME TypeInv, EngineInv, [Next]_vars, NEW c \in Changes, Granted(c)
    PROVE  Granted(c)'
  <1>1. PICK s \in Stamps : GrantedBy(c, s)
    BY DEF Granted
  <1>2. request[c][s] # NoRow /\ \A k \in Order : request[c][s].step[k] \in {"APPROVED", "ABSENT"}
    BY <1>1 DEF GrantedBy, Present
  <1>3. request'[c][s] # NoRow /\ \A k \in Order : request'[c][s].step[k] = request[c][s].step[k]
    <2>1. CASE UNCHANGED <<request, decision>>
      BY <1>2, <2>1
    <2>2. ASSUME NEW h \in Handlers, SubmitWrite(h)
          PROVE  request'[c][s] # NoRow
                   /\ \A k \in Order : request'[c][s].step[k] = request[c][s].step[k]
      <3>1. \/ request'[c][s] = request[c][s]
            \/ request'[c][s] = Cancelled(request[c][s])
        BY <1>2, <2>2 DEF SubmitWrite, Opened, TypeInv, TypeOK
      <3>2. request[c][s] \in RequestRow
        BY <1>2 DEF TypeInv, TypeOK
      <3>3. Cancelled(request[c][s]) # NoRow
        BY <3>2, RequestType, NoRowAssumption
      <3>4. \A k \in Order : Cancelled(request[c][s]).step[k] = request[c][s].step[k]
        BY <1>2, <3>2 DEF Cancelled, SkipPending, RequestRow
      <3> QED  BY <1>2, <3>1, <3>3, <3>4
    <2>3. ASSUME NEW h \in Handlers, DecisionWrite(h)
          PROVE  request'[c][s] = request[c][s]
      <3> DEFINE t == handler[h]
      <3>1. t.c \in Changes /\ t.stamp \in Stamps /\ t.order \in Order
               /\ request[t.c][t.stamp].step[t.order] = "PENDING"
        BY <2>3, Decider
      <3>2. ~(t.c = c /\ t.stamp = s)
        <4> HIDE DEF t
        <4> QED  BY <1>2, <3>1
      <3>3. \E row : request' = [request EXCEPT ![t.c][t.stamp] = row]
        BY <2>3 DEF DecisionWrite
      <3> HIDE DEF t
      <3> QED  BY <3>1, <3>2, <3>3 DEF TypeInv, TypeOK
    <2> QED  BY <1>2, <2>1, <2>2, <2>3, EngineTables
  <1> QED  BY <1>2, <1>3 DEF Granted, GrantedBy, Present

(* A step preserves the invariant when it lets no change past approval that
   needs a grant, and starts no handler that might. *)
LEMMA GrantStep ==
    ASSUME TypeInv, EngineInv, GrantInv, [Next]_vars,
           \A c \in Changes : change[c] = NoRow =>
              change'[c] = NoRow \/ change'[c].status \notin PastApproval,
           \A c \in Changes : change[c] # NoRow =>
              /\ change'[c].type = change[c].type
              /\ change'[c].status \in PastApproval =>
                    change[c].status \in PastApproval \/ Needs(c),
           \A h \in Handlers : handler'[h] = handler[h] \/ HandlerGranted(handler'[h]),
           \A h \in Handlers : handler'[h] # Idle =>
              handler'[h].c \in Changes /\ change[handler'[h].c] # NoRow
    PROVE  GrantInv'
  <1>1. \A c \in Changes : change[c] # NoRow /\ Needs(c) => Needs(c)'
    BY GrantStays DEF Needs
  <1>2. GrantedBeforeScheduled'
    <2> SUFFICES ASSUME NEW c \in Changes, change'[c] # NoRow, change'[c].type = "NORMAL",
                        change'[c].status \in PastApproval
                 PROVE  Granted(c)'
      BY DEF GrantedBeforeScheduled
    <2>1. change[c] # NoRow /\ change[c].type = "NORMAL"
      OBVIOUS
    <2>2. Granted(c)
      BY <2>1 DEF GrantInv, GrantedBeforeScheduled, Needs
    <2> QED  BY <2>2, GrantStays
  <1>3. ASSUME NEW h \in Handlers PROVE HandlerGranted(handler[h])'
    <2>1. HandlerGranted(handler'[h])
      BY DEF GrantInv
    <2>2. CASE handler'[h] = Idle
      BY <2>2 DEF HandlerGranted, Idle, GateTxn, AdvanceTxn, PlainTxn
    <2>3. CASE handler'[h] # Idle
      <3>1. /\ change'[handler'[h].c].type = change[handler'[h].c].type
            /\ Needs(handler'[h].c) => Needs(handler[h].c)'
        BY <1>1, <2>3 DEF Needs
      <3> QED  BY <2>1, <3>1 DEF HandlerGranted
    <2> QED  BY <2>2, <2>3
  <1> QED  BY <1>2, <1>3 DEF GrantInv

LEMMA HandlerRow ==
    ASSUME TypeInv, NEW h \in Handlers, handler[h] # Idle
    PROVE  /\ handler[h].c \in Changes /\ change[handler[h].c] # NoRow
           /\ change[handler[h].c] \in ChangeRow
  BY DEF TypeInv, TypeOK, Referenced, HandlerState, Idle, EditTxn, GateTxn, AdvanceTxn,
     ScheduleTxn, PlainTxn, FindTxn, SubmitTxn, ContextTxn, DecideTxn

LEMMA GrantKeep ==
    ASSUME TypeInv, EngineInv, GrantInv, [Next]_vars,
           NEW h \in Handlers, NEW t, Keep(h, t), HandlerGranted(t),
           t.c \in Changes, change[t.c] # NoRow
    PROVE  GrantInv'
  <1>1. /\ change' = change
        /\ \A g \in Handlers : handler'[g] = IF g = h THEN t ELSE handler[g]
    BY DEF Keep, TypeInv, TypeOK
  <1>2. \A g \in Handlers : handler'[g] # Idle =>
           handler'[g].c \in Changes /\ change[handler'[g].c] # NoRow
    BY <1>1, HandlerRow
  <1>3. \A c \in Changes : change[c] # NoRow /\ change[c].status \in PastApproval =>
           change[c].status \in PastApproval \/ Needs(c)
    OBVIOUS
  <1> QED  BY <1>1, <1>2, GrantStep

(* Only an advance or a rollback carries a promise. *)
LEMMA GrantRead ==
    ASSUME TypeInv, EngineInv, GrantInv, [Next]_vars,
           NEW h \in Handlers, NEW t, Keep(h, t), t.op \notin {"advance", "rollback"},
           t.c \in Changes, change[t.c] # NoRow
    PROVE  GrantInv'
  <1>1. HandlerGranted(t)
    BY DEF HandlerGranted, GateTxn, AdvanceTxn, PlainTxn
  <1> QED  BY <1>1, GrantKeep

(* The write of a handler to the row of its change. *)
LEMMA GrantFinish ==
    ASSUME TypeInv, EngineInv, GrantInv, [Next]_vars,
           NEW h \in Handlers, Finish(h), handler[h] # Idle,
           \A c \in Changes : c # handler[h].c => change'[c] = change[c],
           change'[handler[h].c].type = change[handler[h].c].type,
           change'[handler[h].c].status \in PastApproval =>
              change[handler[h].c].status \in PastApproval \/ Needs(handler[h].c)
    PROVE  GrantInv'
  <1>1. \A g \in Handlers : handler'[g] = IF g = h THEN Idle ELSE handler[g]
    BY DEF Finish, TypeInv, TypeOK
  <1>2. \A g \in Handlers : handler'[g] # Idle =>
           handler'[g].c \in Changes /\ change[handler'[g].c] # NoRow
    BY <1>1, HandlerRow
  <1>3. HandlerGranted(Idle)
    BY DEF HandlerGranted, Idle, GateTxn, AdvanceTxn, PlainTxn
  <1>4. handler[h].c \in Changes /\ change[handler[h].c] # NoRow
    BY HandlerRow
  <1>5. \A c \in Changes : change[c] = NoRow =>
           change'[c] = NoRow \/ change'[c].status \notin PastApproval
    BY <1>4
  <1>6. \A c \in Changes : change[c] # NoRow =>
           /\ change'[c].type = change[c].type
           /\ change'[c].status \in PastApproval =>
                 change[c].status \in PastApproval \/ Needs(c)
    OBVIOUS
  <1> QED  BY <1>1, <1>2, <1>3, <1>5, <1>6, GrantStep

LEMMA BeginGrant ==
    ASSUME TypeInv, EngineInv, GrantInv, [Next]_vars,
           NEW h \in Handlers, NEW u \in Users, NEW c \in Changes, Begin(h, u, c)
    PROVE  GrantInv'
  <1>0. change[c] # NoRow /\ handler[h] = Idle
    BY DEF Begin, EditRead, AdvanceRead, ScheduleRead, RollbackRead, PirRead, SubmitRead,
       ApproveReadRow, Found
  <1>1. change[c].status \in PastApproval => Needs(c)
    BY <1>0 DEF GrantInv, GrantedBeforeScheduled, Needs
  <1> DEFINE r1 == [op |-> "advance", at |-> "gate", c |-> c, row |-> change[c]]
             r2 == [op |-> "rollback", c |-> c]
  <1>2. CASE AdvanceRead(h, u, c)
    <2>1. HandlerGranted(r1) /\ r1.c = c
      BY <1>1 DEF HandlerGranted, GateTxn, AdvanceTxn, PlainTxn
    <2>2. Keep(h, r1)
      BY <1>2 DEF AdvanceRead
    <2> HIDE DEF r1
    <2> QED  BY <1>0, <2>1, <2>2, GrantKeep
  <1>3. CASE RollbackRead(h, u, c)
    <2>1. HandlerGranted(r2) /\ r2.c = c
      BY <1>1, <1>3 DEF HandlerGranted, GateTxn, AdvanceTxn, PlainTxn, RollbackRead,
         PastApproval
    <2>2. Keep(h, r2)
      BY <1>3 DEF RollbackRead
    <2> HIDE DEF r2
    <2> QED  BY <1>0, <2>1, <2>2, GrantKeep
  <1>4. ASSUME NEW input \in EditInputs, EditRead(h, u, c, input) PROVE GrantInv'
    BY <1>0, <1>4, GrantRead DEF EditRead
  <1>5. CASE ScheduleRead(h, u, c)
    BY <1>0, <1>5, GrantRead DEF ScheduleRead
  <1>6. CASE PirRead(h, u, c)
    BY <1>0, <1>6, GrantRead DEF PirRead
  <1>7. CASE SubmitRead(h, u, c)
    BY <1>0, <1>7, GrantRead DEF SubmitRead
  <1>8. CASE ApproveReadRow(h, u, c)
    BY <1>0, <1>8, GrantRead DEF ApproveReadRow
  <1> QED  BY <1>2, <1>3, <1>4, <1>5, <1>6, <1>7, <1>8 DEF Begin

LEMMA ContinueGrant ==
    ASSUME TypeInv, EngineInv, GrantInv, [Next]_vars,
           NEW h \in Handlers, Continue(h)
    PROVE  GrantInv'
  <1> DEFINE t == handler[h]
  <1>0. t # Idle
    <2>1. CASE Abort(h)
      BY <2>1 DEF Abort
    <2>2. CASE ~Abort(h)
      <3>1. t.op # "idle"
        BY <2>2 DEF Continue, EditWrite, AdvanceGate, AdvanceWrite, ScheduleWrite,
           RollbackWrite, PirWrite, SubmitFind, SubmitWrite, ApproveReadStep, DecisionRead,
           DecisionWrite
      <3> QED  BY <3>1 DEF Idle
    <2> QED  BY <2>1, <2>2
  <1>1. t \in HandlerState /\ t.c \in Changes /\ change[t.c] # NoRow /\ change[t.c] \in ChangeRow
    BY <1>0, HandlerRow DEF TypeInv, TypeOK
  <1>2. HandlerGranted(t)
    BY DEF GrantInv
  <1>3. CASE AdvanceGate(h)
    <2>1. t \in GateTxn
      BY <1>1, <1>3, HandlerShape DEF AdvanceGate
    <2> DEFINE n == [op |-> "advance", at |-> "write", c |-> t.c, from |-> t.row.status]
    <2>2. Keep(h, n)
      BY <1>3 DEF AdvanceGate
    <2>3. t.row.status \in DOMAIN CHANGE_FORWARD
      BY <1>3, <2>1 DEF AdvanceGate, CanAdvance, CHANGE_FORWARD, GateTxn, ChangeRow, Status
    <2>4. ASSUME CHANGE_FORWARD[t.row.status] \in PastApproval PROVE Needs(t.c)
      <3>1. CASE t.row.status = "APPROVAL"
        <4>1. ApprovalStatusOf(t.c) = "APPROVED" \/ change[t.c].type = "EMERGENCY"
          BY <1>2, <1>3, <2>1, <3>1 DEF AdvanceGate, CanAdvance, ApprovalGate, HandlerGranted
        <4>2. ApprovalStatusOf(t.c) = "APPROVED" => Granted(t.c)
          BY <1>1, ApprovedGrants
        <4> QED  BY <4>1, <4>2 DEF Needs
      <3>2. CASE t.row.status # "APPROVAL"
        BY <1>2, <2>1, <2>3, <2>4, <3>2 DEF HandlerGranted, CHANGE_FORWARD, PastApproval
      <3> QED  BY <3>1, <3>2
    <2>5. HandlerGranted(n) /\ n.c = t.c
      BY <2>4 DEF HandlerGranted, GateTxn, AdvanceTxn, PlainTxn
    <2> HIDE DEF n, t
    <2> QED  BY <1>1, <2>2, <2>5, GrantKeep
  <1>4. CASE SubmitFind(h)
    BY <1>1, <1>4, GrantRead DEF SubmitFind
  <1>10. CASE ApproveReadStep(h)
    <2>1. PICK s \in Stamps, k \in Order, override \in BOOLEAN :
             Keep(h, [op |-> "approve", at |-> "decide", c |-> t.c, user |-> t.user,
                      waiting |-> t.waiting, stamp |-> s, order |-> k,
                      override |-> override])
      BY <1>10 DEF ApproveReadStep
    <2> QED  BY <1>1, <2>1, GrantRead
  <1>11. CASE DecisionRead(h)
    <2>1. t \in DecideTxn
      BY <1>1, <1>11, HandlerShape DEF DecisionRead
    <2> DEFINE n == [t EXCEPT !.at = "write"]
    <2>2. Keep(h, n) /\ n.c = t.c /\ n.op = "approve"
      BY <1>11, <2>1 DEF DecisionRead, DecideTxn
    <2> HIDE DEF n
    <2> QED  BY <1>1, <2>2, GrantRead
  <1>5. CASE AdvanceWrite(h)
    <2>1. t \in AdvanceTxn
      BY <1>1, <1>5, HandlerShape DEF AdvanceWrite
    <2>2. /\ \A c \in Changes : c # t.c => change'[c] = change[c]
          /\ change'[t.c] = [change[t.c] EXCEPT !.status = CHANGE_FORWARD[t.from]]
      BY <1>1, <1>5 DEF AdvanceWrite, SetStatus, TypeInv, TypeOK
    <2>3. change'[t.c].type = change[t.c].type /\ change'[t.c].status = CHANGE_FORWARD[t.from]
      BY <1>1, <2>2 DEF ChangeRow
    <2>4. CHANGE_FORWARD[t.from] \in PastApproval => Needs(t.c)
      BY <1>2, <2>1 DEF HandlerGranted
    <2> QED  BY <1>0, <1>5, <2>2, <2>3, <2>4, GrantFinish DEF AdvanceWrite
  <1>6. CASE ScheduleWrite(h)
    <2>1. t \in ScheduleTxn
      BY <1>1, <1>6, HandlerShape DEF ScheduleWrite
    <2> DEFINE to == IF t.moves THEN "SCHEDULED" ELSE change[t.c].status
    <2>2. change' = [change EXCEPT ![t.c].window = "future",
                                   ![t.c].status = IF t.moves THEN "SCHEDULED" ELSE @]
      BY <1>6 DEF ScheduleWrite
    <2>3. /\ \A c \in Changes : c # t.c => change'[c] = change[c]
          /\ change'[t.c] = [change[t.c] EXCEPT !.window = "future", !.status = to]
      BY <1>1, <2>2 DEF TypeInv, TypeOK
    <2>4. change'[t.c].type = change[t.c].type /\ change'[t.c].status = to
      BY <1>1, <2>3 DEF ChangeRow
    <2>5. t.moves => Needs(t.c)
      <3>1. t.moves => ApprovalStatusOf(t.c) = "APPROVED" \/ change[t.c].type = "EMERGENCY"
        BY <1>6 DEF ScheduleWrite
      <3>2. ApprovalStatusOf(t.c) = "APPROVED" => Granted(t.c)
        BY <1>1, ApprovedGrants
      <3> QED  BY <3>1, <3>2 DEF Needs
    <2> QED  BY <1>0, <1>6, <2>3, <2>4, <2>5, GrantFinish DEF ScheduleWrite
  <1>7. CASE RollbackWrite(h)
    <2>1. t \in PlainTxn /\ t.op = "rollback"
      BY <1>1, <1>7, HandlerShape DEF RollbackWrite
    <2>2. /\ \A c \in Changes : c # t.c => change'[c] = change[c]
          /\ change'[t.c] = [change[t.c] EXCEPT !.status = "ROLLED_BACK"]
      BY <1>1, <1>7 DEF RollbackWrite, SetStatus, TypeInv, TypeOK
    <2>3. change'[t.c].type = change[t.c].type
      BY <1>1, <2>2 DEF ChangeRow
    <2>4. Needs(t.c)
      BY <1>2, <2>1 DEF HandlerGranted
    <2> QED  BY <1>0, <1>7, <2>2, <2>3, <2>4, GrantFinish DEF RollbackWrite
  <1>8. CASE EditWrite(h) \/ PirWrite(h) \/ Abort(h)
    <2>1. /\ \A c \in Changes : c # t.c => change'[c] = change[c]
          /\ change'[t.c].type = change[t.c].type
          /\ change'[t.c].status = change[t.c].status
      BY <1>1, <1>8 DEF EditWrite, PirWrite, Abort, TypeInv, TypeOK, ChangeRow
    <2> QED  BY <1>0, <1>8, <2>1, GrantFinish DEF EditWrite, PirWrite, Abort
  <1>9. CASE SubmitWrite(h) \/ DecisionWrite(h)
    <2>1. \/ change' = change
          \/ \E to \in {"APPROVAL", "ASSESSING"} : SetStatus(t.c, to)
      BY <1>9 DEF SubmitWrite, DecisionWrite
    <2>2. ASSUME NEW to \in {"APPROVAL", "ASSESSING"}, SetStatus(t.c, to)
          PROVE  /\ \A c \in Changes : c # t.c => change'[c] = change[c]
                 /\ change'[t.c].type = change[t.c].type
                 /\ change'[t.c].status \notin PastApproval
      <3>1. change'[t.c] = [change[t.c] EXCEPT !.status = to]
        BY <1>1, <2>2 DEF SetStatus, TypeInv, TypeOK
      <3> QED  BY <1>1, <2>2, <3>1 DEF SetStatus, TypeInv, TypeOK, ChangeRow, PastApproval
    <2> QED  BY <2>1, <1>0, <1>9, <2>2, GrantFinish DEF SubmitWrite, DecisionWrite
  <1> QED  BY <1>3, <1>4, <1>5, <1>6, <1>7, <1>8, <1>9, <1>10, <1>11 DEF Continue

LEMMA GrantNext == TypeInv /\ EngineInv /\ GrantInv /\ [Next]_vars => GrantInv'
  <1> SUFFICES ASSUME TypeInv, EngineInv, GrantInv, [Next]_vars PROVE GrantInv'
    OBVIOUS
  <1>0. \A h \in Handlers : handler[h] # Idle =>
           handler[h].c \in Changes /\ change[handler[h].c] # NoRow
    BY HandlerRow
  <1>1. ASSUME NEW u \in Users, NEW c \in Changes, NEW new \in NewChanges, Insert(c, u, new)
        PROVE  GrantInv'
    <2>1. /\ \A d \in Changes : d # c => change'[d] = change[d]
          /\ change'[c].status = "DRAFT" /\ change[c] = NoRow /\ UNCHANGED handler
      BY <1>1 DEF Insert, TypeInv, TypeOK
    <2> QED  BY <1>0, <2>1, GrantStep DEF PastApproval
  <1>2. ASSUME NEW c \in Changes, WindowElapses(c) PROVE GrantInv'
    <2>1. /\ \A d \in Changes : d # c => change'[d] = change[d]
          /\ change'[c] = [change[c] EXCEPT !.window = "past"]
          /\ change[c] \in ChangeRow /\ change[c] # NoRow /\ UNCHANGED handler
      BY <1>2 DEF WindowElapses, TypeInv, TypeOK
    <2>2. change'[c].status = change[c].status /\ change'[c].type = change[c].type
      BY <2>1 DEF ChangeRow
    <2> QED  BY <1>0, <2>1, <2>2, GrantStep
  <1>3. CASE UNCHANGED vars
    BY <1>0, <1>3, GrantStep DEF vars
  <1>4. ASSUME NEW u \in Users, NEW c \in Changes,
               CreateChange(u, c) \/ CreateChangeFromDemand(u, c)
        PROVE  \E new \in NewChanges : Insert(c, u, new)
    BY <1>4 DEF CreateChange, CreateChangeFromDemand, Insert
  <1> QED  BY <1>1, <1>2, <1>3, <1>4, BeginGrant, ContinueGrant DEF Next

THEOREM GrantInvariant == Spec => [](TypeInv /\ EngineInv /\ GrantInv)
  BY TypeInit, TypeNext, EngineInit, EngineNext, GrantInit, GrantNext, PTL DEF Spec

(* No NORMAL change gets past approval without a request of its own on which
   every step was approved. *)
THEOREM GrantedFirst == Spec => []GrantedBeforeScheduled
  BY GrantInvariant, PTL DEF GrantInv
=============================================================================
