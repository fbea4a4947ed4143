------------------------- MODULE ChangeReviewProofs -------------------------
(***************************************************************************)
(* A closed change was reviewed, with any number of concurrent handlers.   *)
(* The gate of the last stage accepts any approval status but PENDING      *)
(* (change/state.ts:194-196), so the theorem rests on an invariant of the  *)
(* engine that no guard states: a cancelled request is never the latest    *)
(* one, because the submission that cancels it opens a later one.          *)
(***************************************************************************)
EXTENDS ChangeApprovalProofs

CancelledSuperseded ==
    \A c \in Changes, s \in Stamps :
        request[c][s] # NoRow /\ request[c][s].status = "CANCELLED"
            => \E r \in Opened(c) : r > s

(* What the gate of PIR asks for, in terms that no later step can undo. *)
Reviewed(c) == change[c].pir /\ (change[c].type = "EMERGENCY" => Ruled(c))

HandlerReviewed(t) ==
    /\ t \in GateTxn /\ t.row.pir => change[t.c].pir
    /\ t \in AdvanceTxn /\ t.from = "PIR" => Reviewed(t.c)
    /\ t \in SubmitTxn => t.stale <= t.floor

ReviewInv ==
    /\ ReviewedBeforeClosed
    /\ CancelledSuperseded
    /\ \A h \in Handlers : HandlerReviewed(handler[h])

LEMMA ReviewInit == Init => ReviewInv
  BY DEF Init, ReviewInv, ReviewedBeforeClosed, CancelledSuperseded, HandlerReviewed, Idle,
     GateTxn, AdvanceTxn, SubmitTxn

-----------------------------------------------------------------------------
(* The engine's part. *)

(* A request that was approved or rejected has a decision row. *)
LEMMA SettledIsRuled ==
    ASSUME TypeInv, EngineInv, NEW c \in Changes, NEW s \in Stamps,
           request[c][s] # NoRow, request[c][s].status \in Decision
    PROVE  Ruled(c)
  <1>1. SoundRequest(request[c][s], decision[c][s])
    BY DEF EngineInv, SoundRows
  <1>2. PICK k \in Order : request[c][s].step[k] \in Decision
    BY <1>1 DEF SoundRequest, SoundStatus, Decision, Order
  <1>3. Len(decision[c][s][k]) = 1
    BY <1>1, <1>2 DEF SoundRequest, SoundRecord
  <1>4. Len(<<>>) # 1
    OBVIOUS
  <1>5. decision[c][s][k] # <<>>
    BY <1>3, <1>4
  <1> QED  BY <1>5 DEF Ruled

(* No decision row is deleted. *)
LEMMA RuledStays ==
    ASSUME TypeInv, [Next]_vars, NEW c \in Changes, Ruled(c)
    PROVE  Ruled(c)'
  <1>1. PICK s \in Stamps, k \in Order : decision[c][s][k] # <<>>
    BY DEF Ruled
  <1>2. CASE decision' = decision
    BY <1>1, <1>2 DEF Ruled
  <1>3. ASSUME NEW h \in Handlers, DecisionWrite(h) PROVE decision'[c][s][k] # <<>>
    <2> DEFINE t == handler[h]
    <2>1. PICK d : decision' = [decision EXCEPT ![t.c][t.stamp][t.order] = Append(@, d)]
      BY <1>3 DEF DecisionWrite
    <2>2. t.c \in Changes /\ t.stamp \in Stamps /\ t.order \in Order
      BY <1>3, Decider
    <2> DEFINE v == Append(decision[t.c][t.stamp][t.order], d)
    <2>6. decision' = [decision EXCEPT ![t.c][t.stamp][t.order] = v]
      BY <2>1
    <2>7. v = Append(decision[t.c][t.stamp][t.order], d)
      OBVIOUS
    <2> HIDE DEF t, v
    <2>8. decision'[c][s][k] =
             IF c = t.c /\ s = t.stamp /\ k = t.order THEN v ELSE decision[c][s][k]
      BY <2>2, <2>6 DEF TypeInv, TypeOK
    <2>3. decision'[c][s][k] = decision[c][s][k]
             \/ decision'[c][s][k] = Append(decision[c][s][k], d)
      BY <2>7, <2>8
    <2>4. decision[c][s][k] \in Seq(DecisionRow)
      BY DEF TypeInv, TypeOK
    <2>5. Append(decision[c][s][k], d) # <<>>
      BY <2>4
    <2> QED  BY <1>1, <2>3, <2>5
  <1>4. ASSUME NEW h \in Handlers, SubmitWrite(h) PROVE decision' = decision
    BY <1>4 DEF SubmitWrite
  <1> QED  BY <1>1, <1>2, <1>3, <1>4, EngineTables DEF Ruled

(* The status the gate reads is never CANCELLED. *)
LEMMA LatestLives ==
    ASSUME CancelledSuperseded, NEW c \in Changes
    PROVE  ApprovalStatusOf(c) # "CANCELLED"
  <1> SUFFICES ASSUME NEW s \in Stamps, IsLatest(c, s),
                      request[c][s].status = "CANCELLED"
               PROVE  FALSE
    BY DEF ApprovalStatusOf
  <1>1. PICK r \in Opened(c) : r > s
    BY DEF CancelledSuperseded, IsLatest, Opened
  <1> QED  BY <1>1, StampAssumption DEF IsLatest, Opened, Stamps

(* What a writer leaves of the statuses and of the stamps in use. *)
LEMMA SupersededNext ==
    ASSUME TypeInv, CancelledSuperseded, [Next]_vars,
           \A h \in Handlers : HandlerReviewed(handler[h])
    PROVE  CancelledSuperseded'
  <1>1. CASE UNCHANGED <<request, decision>>
    BY <1>1 DEF CancelledSuperseded, Opened
  <1>2. ASSUME NEW h \in Handlers, SubmitWrite(h) PROVE CancelledSuperseded'
    <2> DEFINE t == handler[h]
    <2>1. t \in SubmitTxn /\ t.c \in Changes /\ t.stale <= t.floor
             /\ t.stale \in 0..MaxStamp /\ t.floor \in 0..MaxStamp
      BY <1>2, HandlerShape DEF TypeInv, TypeOK, SubmitWrite, SubmitTxn, HandlerReviewed
    <2>2. PICK s \in Stamps \ Opened(t.c) :
             /\ s > t.floor
             /\ request' = [request EXCEPT ![t.c] =
                  [i \in Stamps |-> IF i = s THEN NewRequest(t)
                                    ELSE IF i = t.stale THEN Cancelled(@[i])
                                    ELSE @[i]]]
      BY <1>2 DEF SubmitWrite
    <2>3. change[t.c] # NoRow
      BY <2>1 DEF TypeInv, Referenced, Idle, SubmitTxn
    <2>4. NewRequest(t) # NoRow /\ NewRequest(t).status = "PENDING"
      BY <2>1, <2>3, RequestType, NoRowAssumption DEF NewRequest
    <2>5. t.stale < s
      BY <2>1, <2>2, StampAssumption DEF Stamps
    <2>6. t.stale \in Stamps =>
             request[t.c][t.stale] # NoRow /\ request[t.c][t.stale] \in RequestRow
      BY <2>1, StampAssumption DEF TypeInv, TypeOK, Referenced, Stamps
    <2>7. t.stale \in Stamps => Cancelled(request[t.c][t.stale]) # NoRow
      BY <2>6, RequestType, NoRowAssumption
    <2> HIDE DEF t
    <2>8. request'[t.c][s] = NewRequest(t)
      BY <2>1, <2>2 DEF TypeInv, TypeOK
    <2>9. \A d \in Changes, i \in Stamps : d # t.c \/ i \notin {s, t.stale} =>
             request'[d][i] = request[d][i]
      BY <2>1, <2>2 DEF TypeInv, TypeOK
    <2>10. t.stale \in Stamps => request'[t.c][t.stale] = Cancelled(request[t.c][t.stale])
      BY <2>1, <2>2, <2>5, StampAssumption DEF TypeInv, TypeOK, Stamps
    <2>11. \A d \in Changes : Opened(d) \subseteq Opened(d)'
      BY <2>4, <2>7, <2>8, <2>9, <2>10 DEF Opened
    <2>12. request'[t.c][s] # NoRow
      BY <2>4, <2>8
    <2> SUFFICES ASSUME NEW d \in Changes, NEW i \in Stamps,
                        request'[d][i] # NoRow, request'[d][i].status = "CANCELLED"
                 PROVE  \E r \in Opened(d)' : r > i
      BY DEF CancelledSuperseded
    <2>13. CASE d = t.c /\ i = s
      BY <2>4, <2>8, <2>13
    <2>14. CASE d = t.c /\ i = t.stale
      <3>1. s \in Opened(d)'
        BY <2>12, <2>14 DEF Opened
      <3> QED  BY <2>5, <2>14, <3>1
    <2>15. CASE d # t.c \/ i \notin {s, t.stale}
      BY <2>9, <2>11, <2>15 DEF CancelledSuperseded
    <2> QED  BY <2>13, <2>14, <2>15
  <1>3. ASSUME NEW h \in Handlers, DecisionWrite(h) PROVE CancelledSuperseded'
    <2> DEFINE t   == handler[h]
               req == request[t.c][t.stamp]
    <2>1. /\ t.c \in Changes /\ t.stamp \in Stamps /\ t.order \in Order
          /\ req # NoRow /\ req \in RequestRow
      BY <1>3, Decider
    <2>2. PICK kind \in Decision :
             request' = [request EXCEPT ![t.c][t.stamp] = Decided(req, t.order, kind)]
      BY <1>3 DEF DecisionWrite
    <2> DEFINE after == Decided(req, t.order, kind)
    <2>3. after # NoRow
      BY <2>1, RequestType, NoRowAssumption
    <2>4. after.status = "CANCELLED" => req.status = "CANCELLED"
      BY <2>1 DEF Decided, RequestRow, ResolveRequestStatus
    <2> HIDE DEF t, req, after
    <2>5. \A d \in Changes, i \in Stamps :
             request'[d][i] = IF d = t.c /\ i = t.stamp THEN after ELSE request[d][i]
      BY <2>1, <2>2 DEF TypeInv, TypeOK, after
    <2>6. request[t.c][t.stamp] = req
      BY DEF req
    <2>7. \A d \in Changes : Opened(d)' = Opened(d)
      BY <2>1, <2>3, <2>5, <2>6 DEF Opened
    <2> QED  BY <2>1, <2>3, <2>4, <2>5, <2>6, <2>7 DEF CancelledSuperseded
  <1> QED  BY <1>1, <1>2, <1>3, EngineTables

-----------------------------------------------------------------------------
(* The change's part. *)

(* A step preserves the invariant when it closes no change that was not
   reviewed, keeps types and reviews, and starts no handler that might. *)
LEMMA ReviewStep ==
    ASSUME TypeInv, ReviewInv, [Next]_vars,
           \A c \in Changes : change[c] = NoRow =>
              change'[c] = NoRow \/ change'[c].status # "CLOSED",
           \A c \in Changes : change[c] # NoRow =>
              /\ change'[c].type = change[c].type
              /\ change[c].pir => change'[c].pir
              /\ change'[c].status = "CLOSED" => change[c].status = "CLOSED" \/ Reviewed(c),
           \A h \in Handlers : handler'[h] = handler[h] \/ HandlerReviewed(handler'[h]),
           \A h \in Handlers : handler'[h] # Idle =>
              handler'[h].c \in Changes /\ change[handler'[h].c] # NoRow
    PROVE  ReviewInv'
  <1>1. \A c \in Changes : change[c] # NoRow /\ Reviewed(c) => Reviewed(c)'
    BY RuledStays DEF Reviewed
  <1>2. ReviewedBeforeClosed'
    <2> SUFFICES ASSUME NEW c \in Changes, change'[c] # NoRow, change'[c].status = "CLOSED"
                 PROVE  Reviewed(c)'
      BY DEF ReviewedBeforeClosed, Reviewed
    <2>1. change[c] # NoRow
      OBVIOUS
    <2>2. Reviewed(c)
      BY <2>1 DEF ReviewInv, ReviewedBeforeClosed, Reviewed
    <2> QED  BY <1>1, <2>1, <2>2
  <1>3. ASSUME NEW h \in Handlers PROVE HandlerReviewed(handler[h])'
    <2>1. HandlerReviewed(handler'[h])
      BY DEF ReviewInv
    <2>2. CASE handler'[h] = Idle
      BY <2>2 DEF HandlerReviewed, Idle, GateTxn, AdvanceTxn, SubmitTxn
    <2>3. CASE handler'[h] # Idle
      <3>1. /\ change[handler'[h].c].pir => change'[handler'[h].c].pir
            /\ Reviewed(handler'[h].c) => Reviewed(handler[h].c)'
        BY <1>1, <2>3
      <3> QED  BY <2>1, <3>1 DEF HandlerReviewed
    <2> QED  BY <2>2, <2>3
  <1>4. CancelledSuperseded'
    BY SupersededNext DEF ReviewInv
  <1> QED  BY <1>2, <1>3, <1>4 DEF ReviewInv

LEMMA ReviewKeep ==
    ASSUME TypeInv, ReviewInv, [Next]_vars,
           NEW h \in Handlers, NEW t, Keep(h, t), HandlerReviewed(t),
           t.c \in Changes, change[t.c] # NoRow
    PROVE  ReviewInv'
  <1>1. /\ change' = change
        /\ \A g \in Handlers : handler'[g] = IF g = h THEN t ELSE handler[g]
    BY DEF Keep, TypeInv, TypeOK
  <1>2. \A g \in Handlers : handler'[g] # Idle =>
           handler'[g].c \in Changes /\ change[handler'[g].c] # NoRow
    BY <1>1, HandlerRow
  <1> QED  BY <1>1, <1>2, ReviewStep

(* Only an advance or a submission carries a promise. *)
LEMMA ReviewRead ==
    ASSUME TypeInv, ReviewInv, [Next]_vars,
           NEW h \in Handlers, NEW t, Keep(h, t), t.op \notin {"advance", "submit"},
           t.c \in Changes, change[t.c] # NoRow
    PROVE  ReviewInv'
  <1>1. HandlerReviewed(t)
    BY DEF HandlerReviewed, GateTxn, AdvanceTxn, SubmitTxn
  <1> QED  BY <1>1, ReviewKeep

(* The write of a handler to the row of its change. *)
LEMMA ReviewFinish ==
    ASSUME TypeInv, ReviewInv, [Next]_vars,
           NEW h \in Handlers, Finish(h), handler[h] # Idle,
           \A c \in Changes : c # handler[h].c => change'[c] = change[c],
           change'[handler[h].c].type = change[handler[h].c].type,
           change[handler[h].c].pir => change'[handler[h].c].pir,
           change'[handler[h].c].status = "CLOSED" =>
              change[handler[h].c].status = "CLOSED" \/ Reviewed(handler[h].c)
    PROVE  ReviewInv'
  <1>1. \A g \in Handlers : handler'[g] = IF g = h THEN Idle ELSE handler[g]
    BY DEF Finish, TypeInv, TypeOK
  <1>2. \A g \in Handlers : handler'[g] # Idle =>
           handler'[g].c \in Changes /\ change[handler'[g].c] # NoRow
    BY <1>1, HandlerRow
  <1>3. HandlerReviewed(Idle)
    BY DEF HandlerReviewed, Idle, GateTxn, AdvanceTxn, SubmitTxn
  <1>4. handler[h].c \in Changes /\ change[handler[h].c] # NoRow
    BY HandlerRow
  <1>5. \A c \in Changes : change[c] = NoRow =>
           change'[c] = NoRow \/ change'[c].status # "CLOSED"
    BY <1>4
  <1>6. \A c \in Changes : change[c] # NoRow =>
           /\ change'[c].type = change[c].type
           /\ change[c].pir => change'[c].pir
           /\ change'[c].status = "CLOSED" => change[c].status = "CLOSED" \/ Reviewed(c)
    OBVIOUS
  <1> QED  BY <1>1, <1>2, <1>3, <1>5, <1>6, ReviewStep

LEMMA BeginReview ==
    ASSUME TypeInv, ReviewInv, [Next]_vars,
           NEW h \in Handlers, NEW u \in Users, NEW c \in Changes, Begin(h, u, c)
    PROVE  ReviewInv'
  <1>0. change[c] # NoRow
    BY DEF Begin, EditRead, AdvanceRead, ScheduleRead, RollbackRead, PirRead, SubmitRead,
       ApproveReadRow, Found
  <1>1. CASE AdvanceRead(h, u, c)
    <2> DEFINE n == [op |-> "advance", at |-> "gate", c |-> c, row |-> change[c]]
    <2>1. HandlerReviewed(n) /\ n.c = c
      BY DEF HandlerReviewed, GateTxn, AdvanceTxn, SubmitTxn
    <2>2. Keep(h, n)
      BY <1>1 DEF AdvanceRead
    <2> HIDE DEF n
    <2> QED  BY <1>0, <2>1, <2>2, ReviewKeep
  <1>2. ASSUME NEW input \in EditInputs, EditRead(h, u, c, input) PROVE ReviewInv'
    BY <1>0, <1>2, ReviewRead DEF EditRead
  <1>3. CASE ScheduleRead(h, u, c)
    BY <1>0, <1>3, ReviewRead DEF ScheduleRead
  <1>4. CASE RollbackRead(h, u, c)
    BY <1>0, <1>4, ReviewRead DEF RollbackRead
  <1>5. CASE PirRead(h, u, c)
    BY <1>0, <1>5, ReviewRead DEF PirRead
  <1>6. CASE SubmitRead(h, u, c)
    <2> DEFINE n == [op |-> "submit", at |-> "find", c |-> c, risk |-> change[c].risk]
    <2>1. HandlerReviewed(n) /\ n.c = c
      BY DEF HandlerReviewed, GateTxn, AdvanceTxn, SubmitTxn
    <2>2. Keep(h, n)
      BY <1>6 DEF SubmitRead
    <2> HIDE DEF n
    <2> QED  BY <1>0, <2>1, <2>2, ReviewKeep
  <1>7. CASE ApproveReadRow(h, u, c)
    BY <1>0, <1>7, ReviewRead DEF ApproveReadRow
  <1> QED  BY <1>1, <1>2, <1>3, <1>4, <1>5, <1>6, <1>7 DEF Begin

(* The gate of PIR lets an EMERGENCY change through on a decision only. *)
LEMMA PirGateRules ==
    ASSUME TypeInv, EngineInv, CancelledSuperseded, NEW c \in Changes,
           ApprovalStatusOf(c) \notin {"NONE", "PENDING"}
    PROVE  Ruled(c)
  <1>1. PICK s \in Stamps : IsLatest(c, s) /\ request[c][s].status = ApprovalStatusOf(c)
    BY DEF ApprovalStatusOf
  <1>2. request[c][s] # NoRow /\ request[c][s] \in RequestRow
    BY <1>1 DEF IsLatest, Opened, TypeInv, TypeOK
  <1>3. request[c][s].status \in Decision
    BY <1>1, <1>2, LatestLives DEF RequestRow, ApprovalStatus, Decision
  <1> QED  BY <1>2, <1>3, SettledIsRuled

LEMMA GateReview ==
    ASSUME TypeInv, EngineInv, GrantInv, ReviewInv, [Next]_vars,
           NEW h \in Handlers, AdvanceGate(h)
    PROVE  ReviewInv'
  <1> DEFINE t == handler[h]
             n == [op |-> "advance", at |-> "write", c |-> t.c, from |-> t.row.status]
  <1>1. t \in HandlerState /\ HandlerReviewed(t) /\ HandlerGranted(t)
    BY DEF TypeInv, TypeOK, ReviewInv, GrantInv
  <1>2. t \in GateTxn
    BY <1>1, HandlerShape DEF AdvanceGate
  <1>3. t.c \in Changes /\ change[t.c] # NoRow
    BY <1>2, HandlerRow DEF GateTxn, Idle
  <1>4. Keep(h, n)
    BY DEF AdvanceGate
  <1>5. ASSUME t.row.status = "PIR" PROVE Reviewed(t.c)
    <2>1. PirGate(t.row, ApprovalStatusOf(t.c))
      BY <1>5 DEF AdvanceGate, CanAdvance
    <2>2. change[t.c].pir /\ t.row.type = change[t.c].type
      BY <1>1, <1>2, <2>1 DEF HandlerReviewed, HandlerGranted, PirGate
    <2> QED  BY <1>3, <2>1, <2>2, PirGateRules DEF PirGate, Reviewed, ReviewInv
  <1>6. HandlerReviewed(n) /\ n.c = t.c
    BY <1>5 DEF HandlerReviewed, GateTxn, AdvanceTxn, SubmitTxn
  <1> HIDE DEF n, t
  <1> QED  BY <1>3, <1>4, <1>6, ReviewKeep

LEMMA HighestAbove ==
    ASSUME NEW S \in SUBSET Stamps
    PROVE  \A s \in S : s <= Highest(S)
  <1> SUFFICES ASSUME NEW s \in S PROVE s <= Highest(S)
    OBVIOUS
  <1>1. \E r \in S : \A q \in S : q <= r
    BY StampMaximum
  <1> QED  BY <1>1 DEF Highest

LEMMA HighestMonotone ==
    ASSUME NEW O \in SUBSET Stamps, NEW P \in SUBSET O
    PROVE  Highest(P) <= Highest(O)
  <1>1. Highest(P) \in {0} \cup P /\ Highest(O) \in {0} \cup O
    BY HighestInSet
  <1>2. \A s \in {0} \cup O : s \in Nat
    BY StampAssumption DEF Stamps
  <1>3. CASE Highest(P) = 0
    <2>1. Highest(O) \in Nat
      BY <1>1, <1>2
    <2> QED  BY <1>3, <2>1
  <1>4. CASE Highest(P) \in O
    BY <1>4, HighestAbove
  <1> QED  BY <1>1, <1>3, <1>4

(* The search of a submission: the stale request is one of those it found. *)
LEMMA FindReview ==
    ASSUME TypeInv, ReviewInv, [Next]_vars, NEW h \in Handlers, SubmitFind(h)
    PROVE  ReviewInv'
  <1> DEFINE t == handler[h]
             n == [op |-> "submit", at |-> "write", c |-> t.c, risk |-> t.risk,
                   stale |-> Highest(PendingStamps(t.c)), floor |-> Highest(Opened(t.c))]
  <1>1. t \in HandlerState
    BY DEF TypeInv, TypeOK
  <1>2. t \in FindTxn
    BY <1>1, HandlerShape DEF SubmitFind
  <1>3. t.c \in Changes /\ change[t.c] # NoRow
    BY <1>2, HandlerRow DEF FindTxn, Idle
  <1>4. Keep(h, n)
    BY DEF SubmitFind
  <1>5. Highest(PendingStamps(t.c)) <= Highest(Opened(t.c))
    BY HighestMonotone DEF PendingStamps, Opened
  <1>6. HandlerReviewed(n) /\ n.c = t.c
    BY <1>5 DEF HandlerReviewed, GateTxn, AdvanceTxn, SubmitTxn
  <1> HIDE DEF n, t
  <1> QED  BY <1>3, <1>4, <1>6, ReviewKeep

LEMMA ContinueReview ==
    ASSUME TypeInv, EngineInv, GrantInv, ReviewInv, [Next]_vars,
           NEW h \in Handlers, Continue(h)
    PROVE  ReviewInv'
  <1> DEFINE t == handler[h]
  <1>0. t # Idle
    <2>1. CASE Abort(h)
      BY <2>1 DEF Abort
    <2>2. CASE ~Abort(h)
      <3>1. t.op # "idle"
        BY <2>2 DEF Continue, EditWrite, AdvanceGate, AdvanceWrite, ScheduleWrite,
           RollbackWrite, PirWrite, SubmitFind, SubmitWrite, ApproveReadStep, DecisionRead,
           DecisionWrite
      <3> QED  BY <3>1 DEF Idle
    <2> QED  BY <2>1, <2>2
  <1>1. t \in HandlerState /\ t.c \in Changes /\ change[t.c] # NoRow /\ change[t.c] \in ChangeRow
    BY <1>0, HandlerRow DEF TypeInv, TypeOK
  <1>2. HandlerReviewed(t)
    BY DEF ReviewInv
  <1>3. CASE ApproveReadStep(h)
    <2>1. PICK s \in Stamps, k \in Order, override \in BOOLEAN :
             Keep(h, [op |-> "approve", at |-> "decide", c |-> t.c, user |-> t.user,
                      waiting |-> t.waiting, stamp |-> s, order |-> k,
                      override |-> override])
      BY <1>3 DEF ApproveReadStep
    <2> QED  BY <1>1, <2>1, ReviewRead
  <1>4. CASE DecisionRead(h)
    <2>1. t \in DecideTxn
      BY <1>1, <1>4, HandlerShape DEF DecisionRead
    <2> DEFINE n == [t EXCEPT !.at = "write"]
    <2>2. Keep(h, n) /\ n.c = t.c /\ n.op = "approve"
      BY <1>4, <2>1 DEF DecisionRead, DecideTxn
    <2> HIDE DEF n
    <2> QED  BY <1>1, <2>2, ReviewRead
  <1>5. CASE AdvanceWrite(h)
    <2>1. t \in AdvanceTxn
      BY <1>1, <1>5, HandlerShape DEF AdvanceWrite
    <2>2. /\ \A c \in Changes : c # t.c => change'[c] = change[c]
          /\ change'[t.c] = [change[t.c] EXCEPT !.status = CHANGE_FORWARD[t.from]]
      BY <1>1, <1>5 DEF AdvanceWrite, SetStatus, TypeInv, TypeOK
    <2>3. /\ change'[t.c].type = change[t.c].type /\ change'[t.c].pir = change[t.c].pir
          /\ change'[t.c].status = CHANGE_FORWARD[t.from]
      BY <1>1, <2>2 DEF ChangeRow
    <2>4. CHANGE_FORWARD[t.from] = "CLOSED" => Reviewed(t.c)
      BY <1>2, <2>1 DEF HandlerReviewed, AdvanceTxn, CHANGE_FORWARD
    <2> QED  BY <1>0, <1>5, <2>2, <2>3, <2>4, ReviewFinish DEF AdvanceWrite
  <1>6. CASE ScheduleWrite(h)
    <2> DEFINE to == IF t.moves THEN "SCHEDULED" ELSE change[t.c].status
    <2>1. change' = [change EXCEPT ![t.c].window = "future",
                                   ![t.c].status = IF t.moves THEN "SCHEDULED" ELSE @]
      BY <1>6 DEF ScheduleWrite
    <2>2. /\ \A c \in Changes : c # t.c => change'[c] = change[c]
          /\ change'[t.c] = [change[t.c] EXCEPT !.window = "future", !.status = to]
      BY <1>1, <2>1 DEF TypeInv, TypeOK
    <2>3. /\ change'[t.c].type = change[t.c].type /\ change'[t.c].pir = change[t.c].pir
          /\ change'[t.c].status = to
      BY <1>1, <2>2 DEF ChangeRow
    <2>4. to = "CLOSED" => change[t.c].status = "CLOSED"
      OBVIOUS
    <2>5. Finish(h)
      BY <1>6 DEF ScheduleWrite
    <2> HIDE DEF to
    <2> QED  BY <1>0, <2>2, <2>3, <2>4, <2>5, ReviewFinish
  <1>7. CASE EditWrite(h) \/ PirWrite(h) \/ Abort(h)
    <2>1. /\ \A c \in Changes : c # t.c => change'[c] = change[c]
          /\ change'[t.c].type = change[t.c].type
          /\ change[t.c].pir => change'[t.c].pir
          /\ change'[t.c].status = change[t.c].status
      BY <1>1, <1>7 DEF EditWrite, PirWrite, Abort, TypeInv, TypeOK, ChangeRow
    <2> QED  BY <1>0, <1>7, <2>1, ReviewFinish DEF EditWrite, PirWrite, Abort
  <1>8. CASE SubmitWrite(h) \/ DecisionWrite(h) \/ RollbackWrite(h)
    <2>1. \/ change' = change
          \/ \E to \in {"APPROVAL", "ASSESSING", "ROLLED_BACK"} : SetStatus(t.c, to)
      BY <1>8 DEF SubmitWrite, DecisionWrite, RollbackWrite
    <2>2. ASSUME NEW to \in {"APPROVAL", "ASSESSING", "ROLLED_BACK"}, SetStatus(t.c, to)
          PROVE  /\ \A c \in Changes : c # t.c => change'[c] = change[c]
                 /\ change'[t.c].type = change[t.c].type
                 /\ change'[t.c].pir = change[t.c].pir
                 /\ change'[t.c].status # "CLOSED"
      <3>1. change'[t.c] = [change[t.c] EXCEPT !.status = to]
        BY <1>1, <2>2 DEF SetStatus, TypeInv, TypeOK
      <3> QED  BY <1>1, <2>2, <3>1 DEF SetStatus, TypeInv, TypeOK, ChangeRow
    <2> QED  BY <1>0, <1>8, <2>1, <2>2, ReviewFinish DEF SubmitWrite, DecisionWrite,
                RollbackWrite
  <1> QED  BY <1>3, <1>4, <1>5, <1>6, <1>7, <1>8, GateReview, FindReview DEF Continue

LEMMA ReviewNext == TypeInv /\ EngineInv /\ GrantInv /\ ReviewInv /\ [Next]_vars => ReviewInv'
  <1> SUFFICES ASSUME TypeInv, EngineInv, GrantInv, ReviewInv, [Next]_vars PROVE ReviewInv'
    OBVIOUS
  <1>0. \A h \in Handlers : handler[h] # Idle =>
           handler[h].c \in Changes /\ change[handler[h].c] # NoRow
    BY HandlerRow
  <1>1. ASSUME NEW u \in Users, NEW c \in Changes, NEW new \in NewChanges, Insert(c, u, new)
        PROVE  ReviewInv'
    <2>1. /\ \A d \in Changes : d # c => change'[d] = change[d]
          /\ change'[c].status = "DRAFT" /\ change[c] = NoRow /\ UNCHANGED handler
      BY <1>1 DEF Insert, TypeInv, TypeOK
    <2> QED  BY <1>0, <2>1, ReviewStep
  <1>2. ASSUME NEW c \in Changes, WindowElapses(c) PROVE ReviewInv'
    <2>1. /\ \A d \in Changes : d # c => change'[d] = change[d]
          /\ change'[c] = [change[c] EXCEPT !.window = "past"]
          /\ change[c] \in ChangeRow /\ change[c] # NoRow /\ UNCHANGED handler
      BY <1>2 DEF WindowElapses, TypeInv, TypeOK
    <2>2. /\ change'[c].status = change[c].status /\ change'[c].type = change[c].type
          /\ change'[c].pir = change[c].pir
      BY <2>1 DEF ChangeRow
    <2> QED  BY <1>0, <2>1, <2>2, ReviewStep
  <1>3. CASE UNCHANGED vars
    BY <1>0, <1>3, ReviewStep DEF vars
  <1>4. ASSUME NEW u \in Users, NEW c \in Changes,
               CreateChange(u, c) \/ CreateChangeFromDemand(u, c)
        PROVE  \E new \in NewChanges : Insert(c, u, new)
    BY <1>4 DEF CreateChange, CreateChangeFromDemand, Insert
  <1> QED  BY <1>1, <1>2, <1>3, <1>4, BeginReview, ContinueReview DEF Next

(* The invariant of the review, in any interleaving of any number of requests
   (advanceChange, recordPir and submitForApproval, change/service.ts). *)
THEOREM ReviewInvariant == Spec => [](TypeInv /\ EngineInv /\ GrantInv /\ ReviewInv)
  BY TypeInit, TypeNext, EngineInit, EngineNext, GrantInit, GrantNext, ReviewInit,
     ReviewNext, PTL DEF Spec

(* A closed change has its review, and a closed EMERGENCY change an approver's
   decision on record, although the gate of the last stage only refuses a
   pending approval (change/state.ts:194-196). *)
THEOREM ReviewedFirst == Spec => []ReviewedBeforeClosed
  BY ReviewInvariant, PTL DEF ReviewInv
=============================================================================
