------------------------------- MODULE Demand -------------------------------
(***************************************************************************)
(* The demand service, src/server/modules/demand: a demand is triaged, its *)
(* worth is scored field by field, decided, and converted into a change.   *)
(*                                                                         *)
(* Each call runs in one READ COMMITTED transaction.  It reads the demand, *)
(* then (where it includes the assessment, a query of its own) the worth   *)
(* row, checks both, and writes by id without looking again.  The writes   *)
(* and the commit are one action: whoever writes the worth row holds it    *)
(* until the commit, so a second scorer sees the first one's field.        *)
(***************************************************************************)
EXTENDS Naturals

CONSTANTS Demands,   \* demand ids
          Users,     \* everyone who may submit a demand
          Internal,  \* the internal users; the others are guests
          HatsOf,    \* the hats each user wears
          Handlers,  \* concurrent request handlers
          NoRow      \* the answer of a query that finds nothing

Hat == {"DEVELOPER", "REVIEWER", "BUSINESS_APPROVER", "TECHNICAL_APPROVER"}

ASSUME InternalAssumption == Internal \subseteq Users
ASSUME HatsAssumption == /\ HatsOf \in [Users -> SUBSET Hat]
                         /\ \A u \in Users \ Internal : HatsOf[u] = {}

VARIABLES demand,   \* table Demand
          worth,    \* table WorthAssessment, keyed by demandId
          change,   \* the demands some Change names as originatingDemandId
          handler   \* what each in-flight call has read

vars == <<demand, worth, change, handler>>

Status == {"SUBMITTED", "TRIAGING", "WORTH_ASSESSED", "APPROVED", "REJECTED", "CONVERTED"}

DEMAND_TRANSITIONS ==
    [SUBMITTED      |-> {"TRIAGING"},
     TRIAGING       |-> {"WORTH_ASSESSED"},
     WORTH_ASSESSED |-> {"APPROVED", "REJECTED"},
     APPROVED       |-> {"WORTH_ASSESSED", "CONVERTED"},
     REJECTED       |-> {},
     CONVERTED      |-> {}]

\* The three answers worthComplete asks for.
Field == {"businessValue", "effort", "costOfDelay"}

WorthDecision == {"PURSUE", "PARK", "DROP"}

DemandRow == [status : Status, submittedBy : Users]

WorthRow == [filled : SUBSET Field, decision : WorthDecision \cup {"NONE"},
             decidedBy : Users \cup {NoRow}, override : BOOLEAN]

ASSUME NoRowAssumption == NoRow \notin DemandRow \cup WorthRow \cup Users

(* What a call keeps between its statements: of the demand it read, the
   columns it uses again. *)

Idle == [op |-> "idle"]

TriageTxn  == [op : {"triage"}, at : {"write"}, d : Demands]
ScoreTxn   == [op : {"score"}, at : {"write"}, d : Demands, field : Field]
DecideTxn  == [op : {"decide"}, at : {"worth", "write"}, d : Demands, user : Users,
               seen : Status, decision : WorthDecision, override : BOOLEAN]
RejectTxn  == [op : {"reject"}, at : {"worth", "write"}, d : Demands, user : Users,
               seen : Status]
ConvertTxn == [op : {"convert"}, at : {"worth", "write"}, d : Demands]

HandlerState == {Idle} \cup TriageTxn \cup ScoreTxn \cup DecideTxn \cup RejectTxn \cup ConvertTxn

-----------------------------------------------------------------------------
Wears(u, hat) == hat \in HatsOf[u]

\* Both approver hats, nobody else: WORTH_DECIDERS.
Decides(u) == Wears(u, "BUSINESS_APPROVER") \/ Wears(u, "TECHNICAL_APPROVER")

MayScore(u, field) ==
    CASE field = "businessValue" -> Wears(u, "BUSINESS_APPROVER")
      [] field = "effort"        -> Wears(u, "TECHNICAL_APPROVER")
      [] field = "costOfDelay"   -> u \in Internal

\* Mutant: a demand leaves triage on two of the three answers.
WorthCompleteWithoutDelay(w) == {"businessValue", "effort"} \subseteq w.filled

worthComplete(w) == w.filled = Field

\* Mutant: a re-decision is allowed whatever the first decision was.
AwaitsDecisionAlways(seen, w) == seen \in {"WORTH_ASSESSED", "APPROVED"}

\* decideDemand and rejectDemand: a demand that was assessed, or was parked.
AwaitsDecision(seen, w) ==
    \/ seen = "WORTH_ASSESSED"
    \/ seen = "APPROVED" /\ w.decision = "PARK"

\* Mutant: the submitter needs no override.
MayDecideAlways(u, d, override) == Decides(u)

MayDecide(u, d, override) == Decides(u) /\ (demand[d].submittedBy = u => override)

\* findUnique({ id }): the demand must exist.
Found(h, d) == handler[h] = Idle /\ demand[d] # NoRow

Keep(h, txn) == /\ handler' = [handler EXCEPT ![h] = txn]
                /\ UNCHANGED <<demand, worth, change>>

\* The worth row has been read and the guards held.
Proceed(h, op) ==
    /\ handler[h].op = op /\ handler[h].at = "worth"
    /\ Keep(h, [handler[h] EXCEPT !.at = "write"])

Writing(h, op) == handler[h].op = op /\ handler[h].at = "write"

Finish(h) == handler' = [handler EXCEPT ![h] = Idle]

SetStatus(d, to) == demand' = [demand EXCEPT ![d].status = to]

-----------------------------------------------------------------------------
Init == /\ demand = [d \in Demands |-> NoRow]
        /\ worth = [d \in Demands |-> NoRow]
        /\ change = {}
        /\ handler = [h \in Handlers |-> Idle]

\* Anyone may submit a demand, guests included.
CreateDemand(u, d) ==
    /\ demand[d] = NoRow
    /\ demand' = [demand EXCEPT ![d] = [status |-> "SUBMITTED", submittedBy |-> u]]
    /\ UNCHANGED <<worth, change, handler>>

\* Mutant: the assessment is left for the first score to create.
NoWorth == NoRow

EmptyWorth == [filled |-> {}, decision |-> "NONE", decidedBy |-> NoRow, override |-> FALSE]

TriageRead(h, u, d) ==
    /\ u \in Internal
    /\ Found(h, d)
    /\ "TRIAGING" \in DEMAND_TRANSITIONS[demand[d].status]
    /\ Keep(h, [op |-> "triage", at |-> "write", d |-> d])

\* The upsert leaves an assessment that exists as it is.
TriageWrite(h) ==
    /\ Writing(h, "triage")
    /\ LET d == handler[h].d
       IN  /\ SetStatus(d, "TRIAGING")
           /\ worth' = [worth EXCEPT ![d] = IF @ = NoRow THEN EmptyWorth ELSE @]
    /\ Finish(h)
    /\ UNCHANGED change

\* scoreValue, scoreEffort, setCostOfDelay
ScoreRead(h, u, d, field) ==
    /\ MayScore(u, field)
    /\ Found(h, d)
    /\ demand[d].status = "TRIAGING"
    /\ Keep(h, [op |-> "score", at |-> "write", d |-> d, field |-> field])

\* The field, and then maybeCompleteWorth: the status is the one read before.
\* A demand that was ever in triage has its row, so the upsert of the cost of
\* delay is an update too.
ScoreWrite(h) ==
    /\ Writing(h, "score")
    /\ LET d == handler[h].d
           scored == [worth[d] EXCEPT !.filled = @ \cup {handler[h].field}]
       IN  /\ worth' = [worth EXCEPT ![d] = scored]
           /\ demand' = [demand EXCEPT ![d].status =
                           IF worthComplete(scored) THEN "WORTH_ASSESSED" ELSE @]
    /\ Finish(h)
    /\ UNCHANGED change

\* The single-approver override counts only for the submitter, and without it
\* the submitter is refused.
DecideRead(h, u, d, decision, override) ==
    /\ Found(h, d)
    /\ MayDecide(u, d, override)
    /\ Keep(h, [op |-> "decide", at |-> "worth", d |-> d, user |-> u,
                seen |-> demand[d].status, decision |-> decision,
                override |-> demand[d].submittedBy = u /\ override])

DecideWorth(h) ==
    /\ Proceed(h, "decide")
    /\ LET w == worth[handler[h].d]
       IN  w # NoRow /\ AwaitsDecision(handler[h].seen, w) /\ worthComplete(w)

DecideWrite(h) ==
    /\ Writing(h, "decide")
    /\ LET t == handler[h]
       IN  /\ worth' = [worth EXCEPT ![t.d] =
                          [@ EXCEPT !.decision = t.decision, !.decidedBy = t.user,
                                    !.override = t.override]]
           /\ SetStatus(t.d, IF t.decision = "DROP" THEN "REJECTED" ELSE "APPROVED")
    /\ Finish(h)
    /\ UNCHANGED change

RejectRead(h, u, d) ==
    /\ Decides(u)
    /\ Found(h, d)
    /\ Keep(h, [op |-> "reject", at |-> "worth", d |-> d, user |-> u,
                seen |-> demand[d].status])

RejectWorth(h) ==
    /\ Proceed(h, "reject")
    /\ LET w == worth[handler[h].d]
       IN  w # NoRow /\ AwaitsDecision(handler[h].seen, w)

\* Mutant: the decision is left as it was.
RejectedOnly(w, u) == [w EXCEPT !.decidedBy = u]

\* The override columns are left as they are.
Rejected(w, u) == [w EXCEPT !.decision = "DROP", !.decidedBy = u]

RejectWrite(h) ==
    /\ Writing(h, "reject")
    /\ LET t == handler[h]
       IN  /\ worth' = [worth EXCEPT ![t.d] = Rejected(@, t.user)]
           /\ SetStatus(t.d, "REJECTED")
    /\ Finish(h)
    /\ UNCHANGED change

ConvertRead(h, u, d) ==
    /\ Decides(u)
    /\ Found(h, d)
    /\ demand[d].status = "APPROVED"
    /\ Keep(h, [op |-> "convert", at |-> "worth", d |-> d])

Pursued(w) == w.decision = "PURSUE"

ConvertWorth(h) ==
    /\ Proceed(h, "convert")
    /\ LET w == worth[handler[h].d] IN w # NoRow /\ Pursued(w)

\* createChangeFromDemand looks for a change once more, and the unique index
\* stops whoever comes too late: either way nothing is written.
ConvertWrite(h) ==
    /\ Writing(h, "convert")
    /\ LET d == handler[h].d
       IN  IF d \in change
           THEN UNCHANGED <<demand, change>>
           ELSE change' = change \cup {d} /\ SetStatus(d, "CONVERTED")
    /\ Finish(h)
    /\ UNCHANGED worth

\* A failed statement, a deadlock or a crash rolls the transaction back.
Abort(h) ==
    /\ handler[h] # Idle
    /\ Finish(h)
    /\ UNCHANGED <<demand, worth, change>>

Begin(h, u, d) ==
    \/ TriageRead(h, u, d)
    \/ \E field \in Field : ScoreRead(h, u, d, field)
    \/ \E decision \in WorthDecision, override \in BOOLEAN : DecideRead(h, u, d, decision, override)
    \/ RejectRead(h, u, d)
    \/ ConvertRead(h, u, d)

Continue(h) ==
    \/ TriageWrite(h) \/ ScoreWrite(h)
    \/ DecideWorth(h) \/ DecideWrite(h)
    \/ RejectWorth(h) \/ RejectWrite(h)
    \/ ConvertWorth(h) \/ ConvertWrite(h)
    \/ Abort(h)

Next ==
    \/ \E u \in Users, d \in Demands : CreateDemand(u, d) \/ \E h \in Handlers : Begin(h, u, d)
    \/ \E h \in Handlers : Continue(h)

Spec == Init /\ [][Next]_vars

-----------------------------------------------------------------------------
(* Whatever the interleaving.                                              *)

InTriage == {"SUBMITTED", "TRIAGING"}

\* Every table keeps its type, and an assessment exists from triage on.
TypeOK ==
    /\ demand \in [Demands -> DemandRow \cup {NoRow}]
    /\ worth \in [Demands -> WorthRow \cup {NoRow}]
    /\ change \subseteq Demands
    /\ handler \in [Handlers -> HandlerState]
    /\ \A d \in Demands : worth[d] = NoRow => demand[d] = NoRow \/ demand[d].status = "SUBMITTED"

\* A demand that left triage has all three answers: decideDemand's check of
\* them is the unreachable guard its comment says it is (service.ts:516-519).
AssessedIsComplete ==
    \A d \in Demands :
        demand[d] # NoRow /\ demand[d].status \notin InTriage => worth[d].filled = Field

\* The status of a decided demand and its worth decision are two rows that
\* two calls may write at once; they never contradict each other.
StatusMatchesDecision ==
    \A d \in Demands : demand[d] # NoRow =>
        /\ demand[d].status = "APPROVED" => worth[d].decision \in {"PURSUE", "PARK"}
        /\ demand[d].status = "REJECTED" => worth[d].decision = "DROP"

\* Separation of duties: a submitter stands behind her own approval only with
\* the override on record, and nobody else's carries one.
SegregationKept ==
    \A d \in Demands : worth[d] # NoRow /\ worth[d].decision \in {"PURSUE", "PARK"} =>
        (worth[d].override <=> worth[d].decidedBy = demand[d].submittedBy)

-----------------------------------------------------------------------------
(* While calls do not overlap; the code breaks these when they do.         *)

\* A status moves along DEMAND_TRANSITIONS; only a parked demand may also be
\* declined where it stands, by a second decision.
TransitionStep ==
    \A d \in Demands : demand[d] # NoRow =>
        LET from == demand[d].status
            to == demand'[d].status
        IN  \/ to = from
            \/ to \in DEMAND_TRANSITIONS[from]
            \/ from = "APPROVED" /\ worth[d].decision = "PARK" /\ to = "REJECTED"
=============================================================================
