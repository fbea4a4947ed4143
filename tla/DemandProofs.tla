---------------------------- MODULE DemandProofs ----------------------------
(***************************************************************************)
(* Proofs about Demand, for every set of demands, users and handlers, and  *)
(* whatever the interleaving.                                              *)
(*                                                                         *)
(* The invariants of the tables are not inductive alone: a call writes by  *)
(* id, on the strength of what it read before.  The inductive invariant    *)
(* says what a call that is under way may rely on.  It works because the   *)
(* answers of an assessment only grow and submittedBy never changes.       *)
(*                                                                         *)
(* The last part is about calls that do not overlap: what such a call read *)
(* is what it finds when it writes.                                        *)
(***************************************************************************)
EXTENDS MCDemand, FiniteSetTheorems, TLAPS

\* A demand row and its assessment fit each other.
Sound(r, w) ==
    /\ w = NoRow => r.status = "SUBMITTED"
    /\ r.status \notin InTriage => w # NoRow /\ w.filled = Field
    /\ r.status = "APPROVED" => w.decision \in {"PURSUE", "PARK"}
    /\ r.status = "REJECTED" => w.decision = "DROP"
    /\ w # NoRow /\ w.decision \in {"PURSUE", "PARK"} =>
          (w.override <=> w.decidedBy = r.submittedBy)

Tables ==
    /\ demand \in [Demands -> DemandRow \cup {NoRow}]
    /\ worth \in [Demands -> WorthRow \cup {NoRow}]
    /\ change \subseteq Demands
    /\ handler \in [Handlers -> HandlerState]

Rows ==
    \A d \in Demands : IF demand[d] = NoRow THEN worth[d] = NoRow
                                            ELSE Sound(demand[d], worth[d])

Assessed(d) == worth[d] # NoRow /\ worth[d].filled = Field

\* What the call t read still holds.
Relies(t) ==
    /\ t # Idle => demand[t.d] # NoRow
    /\ t.op = "score" => worth[t.d] # NoRow
    /\ t.op \in {"decide", "reject"} => (t.seen \notin InTriage => Assessed(t.d))
    /\ t.op \in {"decide", "reject"} /\ t.at = "write" => t.seen \notin InTriage
    /\ t.op = "decide" => (t.override <=> t.user = demand[t.d].submittedBy)
    /\ t.op = "convert" => Assessed(t.d)

Knows == \A h \in Handlers : Relies(handler[h])

IInv == Tables /\ Rows /\ Knows

-----------------------------------------------------------------------------
LEMMA InitInv == Init => IInv
  BY DEF Init, IInv, Tables, Rows, Knows, Relies, HandlerState, Idle

(* A call that only reads changes nothing but its own record. *)
LEMMA KeepInv ==
    ASSUME IInv, NEW h \in Handlers, NEW t \in HandlerState, Keep(h, t), Relies(t)
    PROVE  IInv'
  <1>1. Tables' /\ Rows'
    BY DEF IInv, Tables, Rows, Keep
  <1>2. \A g \in Handlers : handler'[g] \in {handler[g], t}
    BY DEF IInv, Tables, Keep
  <1>3. Knows'
    BY <1>2 DEF IInv, Knows, Relies, Assessed, Keep
  <1>. QED  BY <1>1, <1>3 DEF IInv

(* A write that loses no row and no answer keeps what the others rely on. *)
Grows ==
    \A d \in Demands :
        /\ demand[d] # NoRow => /\ demand'[d] # NoRow
                                /\ demand'[d].submittedBy = demand[d].submittedBy
        /\ worth[d] # NoRow => /\ worth'[d] # NoRow
                               /\ worth[d].filled = Field => worth'[d].filled = Field

LEMMA GrowKeepsReliance ==
    ASSUME IInv, Grows, NEW t \in HandlerState, Relies(t)
    PROVE  Relies(t)'
  <1>1. CASE t = Idle
    BY <1>1 DEF Relies, Idle
  <1>2. CASE t # Idle
    <2>1. t.d \in Demands
      BY <1>2 DEF HandlerState, TriageTxn, ScoreTxn, DecideTxn, RejectTxn, ConvertTxn
    <2>2. Assessed(t.d) => Assessed(t.d)'
      BY <2>1 DEF Grows, Assessed
    <2>. QED  BY <1>2, <2>1, <2>2 DEF Relies, Grows
  <1>. QED  BY <1>1, <1>2

(* A call that commits writes the two rows of one demand and forgets. *)
LEMMA CommitInv ==
    ASSUME IInv, NEW h \in Handlers, Finish(h),
           NEW d \in Demands, demand[d] # NoRow,
           NEW r \in DemandRow, NEW w \in WorthRow \cup {NoRow},
           demand' = [demand EXCEPT ![d] = r], worth' = [worth EXCEPT ![d] = w],
           change' \subseteq Demands,
           Sound(r, w),
           r.submittedBy = demand[d].submittedBy,
           worth[d] # NoRow => w # NoRow /\ (worth[d].filled = Field => w.filled = Field)
    PROVE  IInv'
  <1>0. r # NoRow
    BY NoRowAssumption
  <1>1. Tables'
    BY DEF IInv, Tables, Finish, HandlerState
  <1>2. Rows'
    BY <1>0 DEF IInv, Tables, Rows
  <1>3. Grows
    BY <1>0 DEF IInv, Tables, Grows
  <1>4. Knows'
    <2> SUFFICES ASSUME NEW g \in Handlers PROVE Relies(handler[g])'
      BY DEF Knows
    <2>1. PICK t \in HandlerState : t = handler'[g] /\ t \in {handler[g], Idle}
      BY DEF IInv, Tables, Finish, HandlerState
    <2>2. Relies(t)
      BY <2>1 DEF IInv, Knows, Relies, Idle
    <2>3. Relies(t)'
      BY <1>3, <2>2, GrowKeepsReliance
    <2>. QED  BY <2>1, <2>3 DEF Relies, Assessed
  <1>. QED  BY <1>1, <1>2, <1>4 DEF IInv

-----------------------------------------------------------------------------
(* Reads *)

LEMMA TriageReadInv ==
    ASSUME IInv, NEW h \in Handlers, NEW u \in Users, NEW d \in Demands,
           TriageRead(h, u, d)
    PROVE  IInv'
  <1> DEFINE t == [op |-> "triage", at |-> "write", d |-> d]
  <1>1. t \in HandlerState /\ Relies(t)
    BY DEF HandlerState, TriageTxn, Relies, TriageRead, Found
  <1>. QED  BY <1>1, KeepInv DEF TriageRead

LEMMA ScoreReadInv ==
    ASSUME IInv, NEW h \in Handlers, NEW u \in Users, NEW d \in Demands,
           NEW field \in Field, ScoreRead(h, u, d, field)
    PROVE  IInv'
  <1> DEFINE t == [op |-> "score", at |-> "write", d |-> d, field |-> field]
  <1>1. demand[d] # NoRow /\ worth[d] # NoRow
    BY DEF IInv, Rows, Sound, ScoreRead, Found
  <1>2. t \in HandlerState /\ Relies(t)
    BY <1>1 DEF HandlerState, ScoreTxn, Relies
  <1>. QED  BY <1>2, KeepInv DEF ScoreRead

(* A status outside triage vouches for the assessment, whoever reads it. *)
LEMMA StatusVouches ==
    ASSUME IInv, NEW d \in Demands, demand[d] # NoRow
    PROVE  /\ demand[d].status \in Status
           /\ demand[d].status \notin InTriage => Assessed(d)
  BY DEF IInv, Tables, Rows, Sound, Assessed, DemandRow

LEMMA DecideReadInv ==
    ASSUME IInv, NEW h \in Handlers, NEW u \in Users, NEW d \in Demands,
           NEW decision \in WorthDecision, NEW override \in BOOLEAN,
           DecideRead(h, u, d, decision, override)
    PROVE  IInv'
  <1> DEFINE t == [op |-> "decide", at |-> "worth", d |-> d, user |-> u,
                   seen |-> demand[d].status, decision |-> decision,
                   override |-> demand[d].submittedBy = u /\ override]
  <1>1. demand[d] # NoRow /\ (demand[d].submittedBy = u => override)
    BY DEF DecideRead, Found, MayDecide
  <1>2. t \in HandlerState
    BY <1>1, StatusVouches DEF HandlerState, DecideTxn
  <1>3. Relies(t)
    BY <1>1, StatusVouches DEF Relies, Idle
  <1>. QED  BY <1>2, <1>3, KeepInv DEF DecideRead

LEMMA RejectReadInv ==
    ASSUME IInv, NEW h \in Handlers, NEW u \in Users, NEW d \in Demands,
           RejectRead(h, u, d)
    PROVE  IInv'
  <1> DEFINE t == [op |-> "reject", at |-> "worth", d |-> d, user |-> u,
                   seen |-> demand[d].status]
  <1>1. demand[d] # NoRow
    BY DEF RejectRead, Found
  <1>2. t \in HandlerState
    BY <1>1, StatusVouches DEF HandlerState, RejectTxn
  <1>3. Relies(t)
    BY <1>1, StatusVouches DEF Relies
  <1>. QED  BY <1>2, <1>3, KeepInv DEF RejectRead

LEMMA ConvertReadInv ==
    ASSUME IInv, NEW h \in Handlers, NEW u \in Users, NEW d \in Demands,
           ConvertRead(h, u, d)
    PROVE  IInv'
  <1> DEFINE t == [op |-> "convert", at |-> "worth", d |-> d]
  <1>1. demand[d] # NoRow /\ Assessed(d)
    BY StatusVouches DEF ConvertRead, Found, InTriage
  <1>2. t \in HandlerState /\ Relies(t)
    BY <1>1 DEF HandlerState, ConvertTxn, Relies
  <1>. QED  BY <1>2, KeepInv DEF ConvertRead

(* The assessment is read and the guards hold: the call may write. *)
LEMMA ProceedInv ==
    ASSUME IInv, NEW h \in Handlers, NEW op \in {"decide", "reject", "convert"},
           Proceed(h, op),
           op \in {"decide", "reject"} => AwaitsDecision(handler[h].seen, worth[handler[h].d])
    PROVE  IInv'
  <1> DEFINE t == [handler[h] EXCEPT !.at = "write"]
  <1>1. handler[h] \in HandlerState /\ Relies(handler[h])
    BY DEF IInv, Tables, Knows
  <1>2. handler[h].op = op /\ handler[h].at = "worth"
    BY DEF Proceed
  <1>3. handler[h] \in DecideTxn \cup RejectTxn \cup ConvertTxn
    BY <1>1, <1>2 DEF HandlerState, Idle, TriageTxn, ScoreTxn
  <1>4. t \in HandlerState
    BY <1>3 DEF HandlerState, DecideTxn, RejectTxn, ConvertTxn
  <1>5. op \in {"decide", "reject"} => handler[h].seen \notin InTriage
    BY DEF AwaitsDecision, InTriage
  <1>6. Relies(t)
    BY <1>1, <1>2, <1>3, <1>5 DEF Relies, Idle, DecideTxn, RejectTxn, ConvertTxn
  <1>. QED  BY <1>4, <1>6, KeepInv DEF Proceed

-----------------------------------------------------------------------------
(* Writes *)

(* The call that is writing has the form its operation gives it. *)
LEMMA Writer ==
    ASSUME IInv, NEW h \in Handlers,
           NEW op \in {"triage", "score", "decide", "reject", "convert"}, Writing(h, op)
    PROVE  /\ handler[h] \in HandlerState /\ Relies(handler[h])
           /\ handler[h].op = op /\ handler[h].at = "write"
           /\ op = "triage" => handler[h] \in TriageTxn
           /\ op = "score" => handler[h] \in ScoreTxn
           /\ op = "decide" => handler[h] \in DecideTxn
           /\ op = "reject" => handler[h] \in RejectTxn
           /\ op = "convert" => handler[h] \in ConvertTxn
           /\ handler[h].d \in Demands
           /\ demand[handler[h].d] # NoRow
           /\ demand[handler[h].d] \in DemandRow
           /\ worth[handler[h].d] \in WorthRow \cup {NoRow}
           /\ Sound(demand[handler[h].d], worth[handler[h].d])
  <1>1. /\ handler[h] \in HandlerState /\ Relies(handler[h])
        /\ handler[h].op = op /\ handler[h].at = "write" /\ handler[h] # Idle
    BY DEF IInv, Tables, Knows, Writing, Idle
  <1>2. /\ op = "triage" => handler[h] \in TriageTxn
        /\ op = "score" => handler[h] \in ScoreTxn
        /\ op = "decide" => handler[h] \in DecideTxn
        /\ op = "reject" => handler[h] \in RejectTxn
        /\ op = "convert" => handler[h] \in ConvertTxn
        /\ handler[h].d \in Demands
    BY <1>1 DEF HandlerState, Idle, TriageTxn, ScoreTxn, DecideTxn, RejectTxn, ConvertTxn
  <1>3. demand[handler[h].d] # NoRow
    BY <1>1 DEF Relies
  <1>. QED  BY <1>1, <1>2, <1>3 DEF IInv, Tables, Rows

LEMMA TriageWriteInv ==
    ASSUME IInv, NEW h \in Handlers, TriageWrite(h)
    PROVE  IInv'
  <1> DEFINE d == handler[h].d
             r == [demand[d] EXCEPT !.status = "TRIAGING"]
             w == IF worth[d] = NoRow THEN EmptyWorth ELSE worth[d]
  <1>1. /\ d \in Demands /\ demand[d] # NoRow /\ demand[d] \in DemandRow
        /\ worth[d] \in WorthRow \cup {NoRow} /\ Sound(demand[d], worth[d])
    BY Writer DEF TriageWrite
  <1>2. EmptyWorth \in WorthRow /\ EmptyWorth.decision = "NONE"
    BY DEF EmptyWorth, WorthRow, Field
  <1>3. r \in DemandRow /\ r.status = "TRIAGING" /\ r.submittedBy = demand[d].submittedBy
    BY <1>1 DEF DemandRow, Status
  <1>4. w \in WorthRow /\ w # NoRow /\ (worth[d] # NoRow => w = worth[d])
    BY <1>1, <1>2, NoRowAssumption
  <1>5. Sound(r, w)
    BY <1>1, <1>2, <1>3, <1>4 DEF Sound, InTriage
  <1>6. /\ Finish(h) /\ change' \subseteq Demands
        /\ demand' = [demand EXCEPT ![d] = r] /\ worth' = [worth EXCEPT ![d] = w]
    BY DEF TriageWrite, SetStatus, IInv, Tables
  <1> HIDE DEF d, r, w
  <1>. QED  BY <1>1, <1>3, <1>4, <1>5, <1>6, CommitInv

LEMMA ScoreWriteInv ==
    ASSUME IInv, NEW h \in Handlers, ScoreWrite(h)
    PROVE  IInv'
  <1> DEFINE d == handler[h].d
             w == [worth[d] EXCEPT !.filled = @ \cup {handler[h].field}]
             r == [demand[d] EXCEPT !.status = IF worthComplete(w) THEN "WORTH_ASSESSED" ELSE @]
  <1>1. /\ d \in Demands /\ demand[d] # NoRow /\ demand[d] \in DemandRow
        /\ worth[d] \in WorthRow \cup {NoRow} /\ Sound(demand[d], worth[d])
        /\ handler[h].field \in Field
    BY Writer DEF ScoreWrite, ScoreTxn
  <1>2. worth[d] # NoRow
    BY Writer DEF ScoreWrite, Relies
  <1>3. /\ w \in WorthRow /\ w.filled = worth[d].filled \cup {handler[h].field}
        /\ w.decision = worth[d].decision /\ w.override = worth[d].override
        /\ w.decidedBy = worth[d].decidedBy
    BY <1>1, <1>2 DEF WorthRow
  <1>4. w # NoRow /\ (worth[d].filled = Field => w.filled = Field)
    BY <1>1, <1>3, NoRowAssumption
  <1>5. /\ r \in DemandRow /\ r.submittedBy = demand[d].submittedBy
        /\ r.status = IF w.filled = Field THEN "WORTH_ASSESSED" ELSE demand[d].status
    BY <1>1 DEF DemandRow, Status, worthComplete
  <1>6. /\ Finish(h) /\ change' \subseteq Demands
        /\ demand' = [demand EXCEPT ![d] = r] /\ worth' = [worth EXCEPT ![d] = w]
    BY DEF ScoreWrite, IInv, Tables
  <1> HIDE DEF d, r, w
  <1>7. Sound(r, w)
    BY <1>1, <1>2, <1>3, <1>4, <1>5 DEF Sound, InTriage
  <1>. QED  BY <1>1, <1>4, <1>3, <1>5, <1>6, <1>7, CommitInv

LEMMA DecideWriteInv ==
    ASSUME IInv, NEW h \in Handlers, DecideWrite(h)
    PROVE  IInv'
  <1> DEFINE t == handler[h]
             d == t.d
             w == [worth[d] EXCEPT !.decision = t.decision, !.decidedBy = t.user,
                                   !.override = t.override]
             r == [demand[d] EXCEPT !.status = IF t.decision = "DROP" THEN "REJECTED"
                                               ELSE "APPROVED"]
  <1>1. /\ d \in Demands /\ demand[d] # NoRow /\ demand[d] \in DemandRow
        /\ worth[d] \in WorthRow \cup {NoRow} /\ Sound(demand[d], worth[d])
        /\ t.decision \in WorthDecision /\ t.user \in Users /\ t.override \in BOOLEAN
    BY Writer DEF DecideWrite, DecideTxn
  <1>2. Assessed(d) /\ (t.override <=> t.user = demand[d].submittedBy)
    BY Writer DEF DecideWrite, Relies
  <1>3. /\ w \in WorthRow /\ w.filled = Field
        /\ w.decision = t.decision /\ w.decidedBy = t.user /\ w.override = t.override
    BY <1>1, <1>2 DEF WorthRow, Assessed
  <1>4. w # NoRow
    BY <1>3, NoRowAssumption
  <1>5. /\ r \in DemandRow /\ r.submittedBy = demand[d].submittedBy
        /\ r.status = IF t.decision = "DROP" THEN "REJECTED" ELSE "APPROVED"
    BY <1>1 DEF DemandRow, Status
  <1>6. Sound(r, w)
    BY <1>1, <1>2, <1>3, <1>4, <1>5 DEF Sound, InTriage, WorthDecision
  <1>7. /\ Finish(h) /\ change' \subseteq Demands
        /\ demand' = [demand EXCEPT ![d] = r] /\ worth' = [worth EXCEPT ![d] = w]
    BY DEF DecideWrite, SetStatus, IInv, Tables
  <1> HIDE DEF t, d, r, w
  <1>. QED  BY <1>1, <1>4, <1>3, <1>5, <1>6, <1>7, CommitInv

LEMMA RejectWriteInv ==
    ASSUME IInv, NEW h \in Handlers, RejectWrite(h)
    PROVE  IInv'
  <1> DEFINE t == handler[h]
             d == t.d
             w == Rejected(worth[d], t.user)
             r == [demand[d] EXCEPT !.status = "REJECTED"]
  <1>1. /\ d \in Demands /\ demand[d] # NoRow /\ demand[d] \in DemandRow
        /\ worth[d] \in WorthRow \cup {NoRow} /\ Sound(demand[d], worth[d])
        /\ t.user \in Users
    BY Writer DEF RejectWrite, RejectTxn
  <1>2. Assessed(d)
    BY Writer DEF RejectWrite, Relies
  <1>3. w \in WorthRow /\ w.filled = Field /\ w.decision = "DROP"
    BY <1>1, <1>2 DEF WorthRow, Assessed, Rejected, WorthDecision
  <1>4. w # NoRow
    BY <1>3, NoRowAssumption
  <1>5. r \in DemandRow /\ r.submittedBy = demand[d].submittedBy /\ r.status = "REJECTED"
    BY <1>1 DEF DemandRow, Status
  <1>6. Sound(r, w)
    BY <1>3, <1>4, <1>5 DEF Sound, InTriage
  <1>7. /\ Finish(h) /\ change' \subseteq Demands
        /\ demand' = [demand EXCEPT ![d] = r] /\ worth' = [worth EXCEPT ![d] = w]
    BY DEF RejectWrite, SetStatus, IInv, Tables
  <1> HIDE DEF t, d, r, w
  <1>. QED  BY <1>1, <1>4, <1>3, <1>5, <1>6, <1>7, CommitInv

LEMMA ConvertWriteInv ==
    ASSUME IInv, NEW h \in Handlers, ConvertWrite(h)
    PROVE  IInv'
  <1> DEFINE d == handler[h].d
             r == IF d \in change THEN demand[d] ELSE [demand[d] EXCEPT !.status = "CONVERTED"]
  <1>1. /\ d \in Demands /\ demand[d] # NoRow /\ demand[d] \in DemandRow
        /\ worth[d] \in WorthRow \cup {NoRow} /\ Sound(demand[d], worth[d])
    BY Writer DEF ConvertWrite
  <1>2. Assessed(d)
    BY Writer DEF ConvertWrite, Relies
  <1>3. /\ r \in DemandRow /\ r.submittedBy = demand[d].submittedBy
        /\ r.status \in {demand[d].status, "CONVERTED"}
    BY <1>1 DEF DemandRow, Status
  <1>4. Sound(r, worth[d])
    BY <1>1, <1>2, <1>3 DEF Sound, InTriage, Assessed
  <1>5. /\ Finish(h) /\ change' \subseteq Demands
        /\ demand' = [demand EXCEPT ![d] = r] /\ worth' = [worth EXCEPT ![d] = worth[d]]
    BY <1>1 DEF ConvertWrite, SetStatus, IInv, Tables
  <1> HIDE DEF d, r
  <1>. QED  BY <1>1, <1>3, <1>4, <1>5, CommitInv

-----------------------------------------------------------------------------
LEMMA CreateInv ==
    ASSUME IInv, NEW u \in Users, NEW d \in Demands, CreateDemand(u, d)
    PROVE  IInv'
  <1> DEFINE r == [status |-> "SUBMITTED", submittedBy |-> u]
  <1>1. r \in DemandRow /\ r # NoRow
    BY NoRowAssumption DEF DemandRow, Status
  <1>2. Tables'
    BY <1>1 DEF IInv, Tables, CreateDemand
  <1>3. worth[d] = NoRow /\ Sound(r, NoRow)
    BY DEF IInv, Rows, CreateDemand, Sound, InTriage
  <1>4. Rows'
    BY <1>1, <1>3 DEF IInv, Tables, Rows, CreateDemand
  <1>5. Grows
    BY <1>1 DEF IInv, Tables, CreateDemand, Grows
  <1>6. Knows'
    <2> SUFFICES ASSUME NEW g \in Handlers PROVE Relies(handler[g])'
      BY DEF Knows
    <2>1. PICK t \in HandlerState : t = handler'[g] /\ t = handler[g]
      BY DEF IInv, Tables, CreateDemand
    <2>2. Relies(t)
      BY <2>1 DEF IInv, Knows
    <2>3. Relies(t)'
      BY <1>5, <2>2, GrowKeepsReliance
    <2>. QED  BY <2>1, <2>3 DEF Relies, Assessed
  <1>. QED  BY <1>2, <1>4, <1>6 DEF IInv

LEMMA AbortInv ==
    ASSUME IInv, NEW h \in Handlers, Abort(h)
    PROVE  IInv'
  <1>1. Keep(h, Idle)
    BY DEF Abort, Keep, Finish
  <1>2. Idle \in HandlerState /\ Relies(Idle)
    BY DEF HandlerState, Relies, Idle
  <1>. QED  BY <1>1, <1>2, KeepInv

LEMMA StepInv == IInv /\ [Next]_vars => IInv'
  <1> SUFFICES ASSUME IInv, [Next]_vars PROVE IInv'
    OBVIOUS
  <1>1. ASSUME NEW u \in Users, NEW d \in Demands, CreateDemand(u, d) PROVE IInv'
    BY <1>1, CreateInv
  <1>2. ASSUME NEW h \in Handlers, NEW u \in Users, NEW d \in Demands, Begin(h, u, d)
        PROVE  IInv'
    BY <1>2, TriageReadInv, ScoreReadInv, DecideReadInv, RejectReadInv, ConvertReadInv DEF Begin
  <1>3. ASSUME NEW h \in Handlers, Continue(h) PROVE IInv'
    <2>1. CASE TriageWrite(h) \/ ScoreWrite(h) \/ DecideWrite(h) \/ RejectWrite(h) \/ ConvertWrite(h)
      BY <2>1, TriageWriteInv, ScoreWriteInv, DecideWriteInv, RejectWriteInv, ConvertWriteInv
    <2>2. CASE DecideWorth(h)
      BY <2>2, ProceedInv DEF DecideWorth
    <2>3. CASE RejectWorth(h)
      BY <2>3, ProceedInv DEF RejectWorth
    <2>4. CASE ConvertWorth(h)
      BY <2>4, ProceedInv DEF ConvertWorth
    <2>5. CASE Abort(h)
      BY <2>5, AbortInv
    <2>. QED  BY <1>3, <2>1, <2>2, <2>3, <2>4, <2>5 DEF Continue
  <1>4. CASE UNCHANGED vars
    <2>1. Tables' /\ Rows'
      BY <1>4 DEF IInv, Tables, Rows, vars
    <2>2. Knows'
      BY <1>4 DEF IInv, Knows, Relies, Assessed, vars
    <2>. QED  BY <2>1, <2>2 DEF IInv
  <1>. QED  BY <1>1, <1>2, <1>3, <1>4 DEF Next

\* The inductive invariant holds in every reachable state.
THEOREM Invariant == Spec => []IInv
  BY InitInv, StepInv, PTL DEF Spec

\* Every table keeps its type, and an assessment exists from triage on.
THEOREM TypeCorrect == Spec => []TypeOK
  <1>1. IInv => TypeOK
    BY DEF IInv, Tables, Rows, Sound, TypeOK
  <1>. QED  BY <1>1, Invariant, PTL

\* Nothing leaves triage before its three answers are in, so the guard that
\* decideDemand calls unreachable is.
THEOREM Complete == Spec => []AssessedIsComplete
  <1>1. IInv => AssessedIsComplete
    BY DEF IInv, Rows, Sound, AssessedIsComplete
  <1>. QED  BY <1>1, Invariant, PTL

\* An approved or a rejected demand carries the worth decision that made it so,
\* whatever calls overlapped.
THEOREM DecisionKept == Spec => []StatusMatchesDecision
  <1>1. IInv => StatusMatchesDecision
    BY DEF IInv, Rows, Sound, StatusMatchesDecision
  <1>. QED  BY <1>1, Invariant, PTL

\* A submitter's own approval carries the override, and only hers does.
THEOREM Segregated == Spec => []SegregationKept
  <1>1. IInv => SegregationKept
    BY DEF IInv, Rows, Sound, SegregationKept
  <1>. QED  BY <1>1, Invariant, PTL

-----------------------------------------------------------------------------
(* While calls do not overlap *)

\* What the call t read is what the tables say.
Agrees(t) ==
    /\ t.op = "triage" => demand[t.d].status = "SUBMITTED"
    /\ t.op = "score" => demand[t.d].status = "TRIAGING"
    /\ t.op \in {"decide", "reject"} =>
          /\ demand[t.d].status = t.seen
          /\ t.at = "write" => AwaitsDecision(t.seen, worth[t.d])
    /\ t.op = "convert" => demand[t.d].status = "APPROVED"

AllAgree == \A h \in Handlers : Agrees(handler[h])

OneInFlight ==
    \A g, h \in Handlers : handler[g] # Idle /\ handler[h] # Idle => g = h

AloneInv == ~overlapped => OneInFlight /\ AllAgree

Orderly == AllAgree' /\ TransitionStep

(* One call in flight and none that overlapped is the same, for the set of
   handlers is finite. *)
LEMMA AtMostOne ==
    ASSUME NEW S, IsFiniteSet(S), ~(Cardinality(S) > 1), NEW x \in S, NEW y \in S
    PROVE  x = y
  <1>1. Cardinality(S) \in Nat /\ Cardinality(S) # 0
    BY FS_CardinalityType, FS_EmptySet
  <1>2. Cardinality(S) = 1
    BY <1>1
  <1>. QED  BY <1>2, FS_Singleton

LEMMA NotOverlapping ==
    ASSUME IsFiniteSet(Handlers), MCNext, ~overlapped'
    PROVE  ~overlapped /\ OneInFlight'
  <1> DEFINE busy == {h \in Handlers : handler'[h] # Idle}
  <1>1. ~overlapped /\ ~(Cardinality(busy) > 1)
    BY DEF MCNext, InFlight
  <1>2. IsFiniteSet(busy)
    BY FS_Subset
  <1>3. \A g, h \in busy : g = h
    <2> HIDE DEF busy
    <2>. QED  BY <1>1, <1>2, AtMostOne
  <1>. QED  BY <1>1, <1>3 DEF OneInFlight

(* A call that only reads agrees with what it has just read. *)
LEMMA KeepOrderly ==
    ASSUME IInv, AllAgree, NEW h \in Handlers, NEW t \in HandlerState, Keep(h, t), Agrees(t)
    PROVE  Orderly
  <1>1. UNCHANGED <<demand, worth>>
    BY DEF Keep
  <1>2. \A g \in Handlers : handler'[g] \in {handler[g], t}
    BY DEF IInv, Tables, Keep
  <1>3. AllAgree'
    BY <1>1, <1>2 DEF AllAgree, Agrees, AwaitsDecision
  <1>4. TransitionStep
    BY <1>1 DEF TransitionStep
  <1>. QED  BY <1>3, <1>4 DEF Orderly

(* After the commit of the only call in flight there is none. *)
LEMMA CommitOrderly ==
    ASSUME IInv, OneInFlight, NEW h \in Handlers, handler[h] # Idle, Finish(h),
           NEW d \in Demands, demand[d] # NoRow, NEW r,
           demand' = [demand EXCEPT ![d] = r],
           \/ r.status = demand[d].status
           \/ r.status \in DEMAND_TRANSITIONS[demand[d].status]
           \/ demand[d].status = "APPROVED" /\ worth[d].decision = "PARK" /\ r.status = "REJECTED"
    PROVE  Orderly
  <1>1. \A g \in Handlers : handler'[g] = Idle
    BY DEF OneInFlight, Finish, IInv, Tables
  <1>2. AllAgree'
    BY <1>1 DEF AllAgree, Agrees, Idle
  <1>3. \A e \in Demands : demand'[e] = IF e = d THEN r ELSE demand[e]
    BY DEF IInv, Tables
  <1>4. TransitionStep
    BY <1>3 DEF TransitionStep
  <1>. QED  BY <1>2, <1>4 DEF Orderly

LEMMA BeginOrderly ==
    ASSUME IInv, AllAgree, NEW h \in Handlers, NEW u \in Users, NEW d \in Demands,
           Begin(h, u, d)
    PROVE  Orderly
  <1>0. ASSUME demand[d] # NoRow
        PROVE  demand[d].status \in Status
    BY <1>0, StatusVouches
  <1>1. CASE TriageRead(h, u, d)
    <2> DEFINE t == [op |-> "triage", at |-> "write", d |-> d]
    <2>1. demand[d].status = "SUBMITTED"
      BY <1>0, <1>1 DEF TriageRead, Found, DEMAND_TRANSITIONS, Status
    <2>2. t \in HandlerState /\ Agrees(t)
      BY <2>1 DEF HandlerState, TriageTxn, Agrees
    <2>. QED  BY <1>1, <2>2, KeepOrderly DEF TriageRead
  <1>2. ASSUME NEW field \in Field, ScoreRead(h, u, d, field) PROVE Orderly
    <2> DEFINE t == [op |-> "score", at |-> "write", d |-> d, field |-> field]
    <2>1. t \in HandlerState /\ Agrees(t)
      BY <1>2 DEF HandlerState, ScoreTxn, Agrees, ScoreRead
    <2>. QED  BY <1>2, <2>1, KeepOrderly DEF ScoreRead
  <1>3. ASSUME NEW decision \in WorthDecision, NEW override \in BOOLEAN,
               DecideRead(h, u, d, decision, override)
        PROVE  Orderly
    <2> DEFINE t == [op |-> "decide", at |-> "worth", d |-> d, user |-> u,
                     seen |-> demand[d].status, decision |-> decision,
                     override |-> demand[d].submittedBy = u /\ override]
    <2>1. t \in HandlerState
      BY <1>0, <1>3 DEF HandlerState, DecideTxn, DecideRead, Found
    <2>2. Agrees(t)
      BY DEF Agrees
    <2>. QED  BY <1>3, <2>1, <2>2, KeepOrderly DEF DecideRead
  <1>4. CASE RejectRead(h, u, d)
    <2> DEFINE t == [op |-> "reject", at |-> "worth", d |-> d, user |-> u,
                     seen |-> demand[d].status]
    <2>1. t \in HandlerState
      BY <1>0, <1>4 DEF HandlerState, RejectTxn, RejectRead, Found
    <2>2. Agrees(t)
      BY DEF Agrees
    <2>. QED  BY <1>4, <2>1, <2>2, KeepOrderly DEF RejectRead
  <1>5. CASE ConvertRead(h, u, d)
    <2> DEFINE t == [op |-> "convert", at |-> "worth", d |-> d]
    <2>1. t \in HandlerState /\ Agrees(t)
      BY <1>5 DEF HandlerState, ConvertTxn, Agrees, ConvertRead
    <2>. QED  BY <1>5, <2>1, KeepOrderly DEF ConvertRead
  <1>. QED  BY <1>1, <1>2, <1>3, <1>4, <1>5 DEF Begin

LEMMA ProceedOrderly ==
    ASSUME IInv, AllAgree, NEW h \in Handlers, NEW op \in {"decide", "reject", "convert"},
           Proceed(h, op),
           op \in {"decide", "reject"} => AwaitsDecision(handler[h].seen, worth[handler[h].d])
    PROVE  Orderly
  <1> DEFINE t == [handler[h] EXCEPT !.at = "write"]
  <1>1. handler[h] \in HandlerState /\ Agrees(handler[h])
    BY DEF IInv, Tables, AllAgree
  <1>2. handler[h].op = op /\ handler[h].at = "worth"
    BY DEF Proceed
  <1>3. handler[h] \in DecideTxn \cup RejectTxn \cup ConvertTxn
    BY <1>1, <1>2 DEF HandlerState, Idle, TriageTxn, ScoreTxn
  <1>4. t \in HandlerState
    BY <1>3 DEF HandlerState, DecideTxn, RejectTxn, ConvertTxn
  <1>5. /\ t.op = op /\ t.d = handler[h].d
        /\ op \in {"decide", "reject"} => t.seen = handler[h].seen
    BY <1>2, <1>3 DEF DecideTxn, RejectTxn, ConvertTxn
  <1> HIDE DEF t
  <1>6. Agrees(t)
    BY <1>1, <1>2, <1>5 DEF Agrees
  <1>. QED  BY <1>4, <1>6, KeepOrderly DEF Proceed, t

LEMMA ContinueOrderly ==
    ASSUME IInv, OneInFlight, AllAgree, NEW h \in Handlers, Continue(h)
    PROVE  Orderly
  <1> DEFINE t == handler[h]
             d == handler[h].d
  <1>0. ASSUME NEW op \in {"triage", "score", "decide", "reject", "convert"}, Writing(h, op)
        PROVE  /\ t # Idle /\ d \in Demands /\ demand[d] # NoRow
               /\ t.op = op /\ t.at = "write" /\ Agrees(t) /\ demand[d] \in DemandRow
    <2>1. t # Idle
      BY <1>0 DEF Writing, Idle
    <2>. QED  BY <1>0, <2>1, Writer DEF AllAgree
  <1>1. CASE TriageWrite(h)
    <2> DEFINE r == [demand[d] EXCEPT !.status = "TRIAGING"]
    <2>1. /\ t # Idle /\ d \in Demands /\ demand[d] # NoRow /\ demand[d] \in DemandRow
          /\ demand[d].status = "SUBMITTED"
      BY <1>0, <1>1 DEF TriageWrite, Agrees
    <2>2. r.status \in DEMAND_TRANSITIONS[demand[d].status]
      BY <2>1 DEF DemandRow, DEMAND_TRANSITIONS
    <2>3. Finish(h) /\ demand' = [demand EXCEPT ![d] = r]
      BY <1>1 DEF TriageWrite, SetStatus
    <2> HIDE DEF t, d, r
    <2>. QED  BY <2>1, <2>2, <2>3, CommitOrderly DEF t
  <1>2. CASE ScoreWrite(h)
    <2> DEFINE w == [worth[d] EXCEPT !.filled = @ \cup {handler[h].field}]
               r == [demand[d] EXCEPT !.status =
                        IF worthComplete(w) THEN "WORTH_ASSESSED" ELSE @]
    <2>1. /\ t # Idle /\ d \in Demands /\ demand[d] # NoRow /\ demand[d] \in DemandRow
          /\ demand[d].status = "TRIAGING"
      BY <1>0, <1>2 DEF ScoreWrite, Agrees
    <2>2. \/ r.status = demand[d].status
          \/ r.status \in DEMAND_TRANSITIONS[demand[d].status]
      BY <2>1 DEF DemandRow, DEMAND_TRANSITIONS
    <2>3. Finish(h) /\ demand' = [demand EXCEPT ![d] = r]
      BY <1>2 DEF ScoreWrite
    <2> HIDE DEF t, d, r
    <2>. QED  BY <2>1, <2>2, <2>3, CommitOrderly DEF t
  <1>3. CASE DecideWrite(h)
    <2> DEFINE r == [demand[d] EXCEPT !.status = IF t.decision = "DROP" THEN "REJECTED"
                                                 ELSE "APPROVED"]
    <2>1. /\ t # Idle /\ d \in Demands /\ demand[d] # NoRow /\ demand[d] \in DemandRow
          /\ AwaitsDecision(demand[d].status, worth[d])
      BY <1>0, <1>3 DEF DecideWrite, Agrees
    <2>2. r.status \in {"REJECTED", "APPROVED"}
      BY <2>1 DEF DemandRow
    <2>3. Finish(h) /\ demand' = [demand EXCEPT ![d] = r]
      BY <1>3 DEF DecideWrite, SetStatus
    <2> HIDE DEF t, d, r
    <2>4. \/ r.status = demand[d].status
          \/ r.status \in DEMAND_TRANSITIONS[demand[d].status]
          \/ demand[d].status = "APPROVED" /\ worth[d].decision = "PARK" /\ r.status = "REJECTED"
      BY <2>1, <2>2 DEF AwaitsDecision, DEMAND_TRANSITIONS
    <2>. QED  BY <2>1, <2>3, <2>4, CommitOrderly DEF t
  <1>4. CASE RejectWrite(h)
    <2> DEFINE r == [demand[d] EXCEPT !.status = "REJECTED"]
    <2>1. /\ t # Idle /\ d \in Demands /\ demand[d] # NoRow /\ demand[d] \in DemandRow
          /\ AwaitsDecision(demand[d].status, worth[d])
      BY <1>0, <1>4 DEF RejectWrite, Agrees
    <2>2. r.status = "REJECTED"
      BY <2>1 DEF DemandRow
    <2>3. Finish(h) /\ demand' = [demand EXCEPT ![d] = r]
      BY <1>4 DEF RejectWrite, SetStatus
    <2> HIDE DEF t, d, r
    <2>4. \/ r.status \in DEMAND_TRANSITIONS[demand[d].status]
          \/ demand[d].status = "APPROVED" /\ worth[d].decision = "PARK" /\ r.status = "REJECTED"
      BY <2>1, <2>2 DEF AwaitsDecision, DEMAND_TRANSITIONS
    <2>. QED  BY <2>1, <2>3, <2>4, CommitOrderly DEF t
  <1>5. CASE ConvertWrite(h)
    <2> DEFINE r == IF d \in change THEN demand[d] ELSE [demand[d] EXCEPT !.status = "CONVERTED"]
    <2>1. /\ t # Idle /\ d \in Demands /\ demand[d] # NoRow /\ demand[d] \in DemandRow
          /\ demand[d].status = "APPROVED"
      BY <1>0, <1>5 DEF ConvertWrite, Agrees
    <2>2. \/ r.status = demand[d].status
          \/ r.status \in DEMAND_TRANSITIONS[demand[d].status]
      BY <2>1 DEF DemandRow, DEMAND_TRANSITIONS
    <2>3. Finish(h) /\ demand' = [demand EXCEPT ![d] = r]
      BY <1>5, <2>1 DEF ConvertWrite, SetStatus, IInv, Tables
    <2> HIDE DEF t, d, r
    <2>. QED  BY <2>1, <2>2, <2>3, CommitOrderly DEF t
  <1>6. CASE DecideWorth(h) \/ RejectWorth(h) \/ ConvertWorth(h)
    BY <1>6, ProceedOrderly DEF DecideWorth, RejectWorth, ConvertWorth
  <1>7. CASE Abort(h)
    <2>1. Keep(h, Idle)
      BY <1>7 DEF Abort, Keep, Finish
    <2>2. Idle \in HandlerState /\ Agrees(Idle)
      BY DEF HandlerState, Agrees, Idle
    <2>. QED  BY <2>1, <2>2, KeepOrderly
  <1>. QED  BY <1>1, <1>2, <1>3, <1>4, <1>5, <1>6, <1>7 DEF Continue

LEMMA NextOrderly ==
    ASSUME IInv, OneInFlight, AllAgree, [Next]_vars
    PROVE  Orderly
  <1>1. ASSUME NEW u \in Users, NEW d \in Demands, CreateDemand(u, d) PROVE Orderly
    <2>1. \A e \in Demands : demand[e] # NoRow => demand'[e] = demand[e]
      BY <1>1 DEF CreateDemand, IInv, Tables
    <2>2. UNCHANGED <<worth, handler>>
      BY <1>1 DEF CreateDemand
    <2>3. ASSUME NEW h \in Handlers PROVE Agrees(handler[h])'
      <3>1. PICK t \in HandlerState : t = handler[h] /\ t = handler'[h]
        BY <2>2 DEF IInv, Tables
      <3>2. Relies(t) /\ Agrees(t)
        BY <3>1 DEF IInv, Knows, AllAgree
      <3>3. t = Idle \/ (t.d \in Demands /\ demand[t.d] # NoRow)
        BY <3>2 DEF Relies, HandlerState, TriageTxn, ScoreTxn, DecideTxn, RejectTxn, ConvertTxn
      <3>4. Agrees(t)'
        BY <2>1, <2>2, <3>2, <3>3 DEF Agrees, Idle, AwaitsDecision
      <3>. QED  BY <3>1, <3>4 DEF Agrees
    <2>4. TransitionStep
      BY <2>1 DEF TransitionStep
    <2>. QED  BY <2>3, <2>4 DEF Orderly, AllAgree
  <1>2. ASSUME NEW h \in Handlers, NEW u \in Users, NEW d \in Demands, Begin(h, u, d)
        PROVE  Orderly
    BY <1>2, BeginOrderly
  <1>3. ASSUME NEW h \in Handlers, Continue(h) PROVE Orderly
    BY <1>3, ContinueOrderly
  <1>4. CASE UNCHANGED vars
    <2>1. TransitionStep
      BY <1>4 DEF TransitionStep, vars
    <2>2. AllAgree'
      BY <1>4 DEF AllAgree, Agrees, AwaitsDecision, vars
    <2>. QED  BY <2>1, <2>2 DEF Orderly
  <1>. QED  BY <1>1, <1>2, <1>3, <1>4 DEF Next

(* The history variable changes nothing of the service. *)
LEMMA AloneTables == MCSpec => []IInv
  <1>1. MCInit => IInv
    BY InitInv DEF MCInit
  <1>2. IInv /\ [MCNext]_<<vars, overlapped>> => IInv'
    BY StepInv DEF MCNext, vars
  <1>. QED  BY <1>1, <1>2, PTL DEF MCSpec

LEMMA AloneNext ==
    ASSUME IsFiniteSet(Handlers), IInv, AloneInv, [MCNext]_<<vars, overlapped>>
    PROVE  AloneInv' /\ (~overlapped' => TransitionStep)
  <1>1. CASE MCNext
    BY <1>1, NotOverlapping, NextOrderly DEF AloneInv, MCNext, Orderly
  <1>2. CASE UNCHANGED <<vars, overlapped>>
    <2> SUFFICES ASSUME ~overlapped' PROVE (OneInFlight /\ AllAgree)' /\ TransitionStep
      BY DEF AloneInv
    <2>1. ~overlapped /\ UNCHANGED vars
      BY <1>2
    <2>2. OneInFlight /\ Orderly
      BY <2>1, NextOrderly DEF AloneInv
    <2>. QED  BY <2>1, <2>2 DEF Orderly, OneInFlight, vars
  <1>. QED  BY <1>1, <1>2

(* Until two calls overlap every status moves along DEMAND_TRANSITIONS, and
   only a demand that was parked is declined where it stands: each writer goes
   by the status it read (service.ts:511-514, 521-523). *)
THEOREM TransitionsKeptAlone ==
    ASSUME IsFiniteSet(Handlers)
    PROVE  MCSpec => TransitionsAlone
  <1>1. MCInit => AloneInv
    BY DEF MCInit, Init, AloneInv, OneInFlight, AllAgree, Agrees, Idle
  <1>2. IInv /\ AloneInv /\ [MCNext]_<<vars, overlapped>> => AloneInv'
    BY AloneNext
  <1>3. IInv /\ AloneInv /\ [MCNext]_<<vars, overlapped>>
           => [~overlapped' => TransitionStep]_vars
    BY AloneNext
  <1>. QED  BY <1>1, <1>2, <1>3, AloneTables, PTL DEF MCSpec, TransitionsAlone
=============================================================================
