-------------------------------- MODULE Intake --------------------------------
(***************************************************************************)
(* The transactions that give a record its reference: nextRef of           *)
(* src/server/ids/ref.ts with its three callers, the creation of demands,  *)
(* incidents and changes, and the conversion of a demand into a change.    *)
(*                                                                         *)
(* The row of a counter is locked from the moment a transaction has taken  *)
(* its number until that transaction ends.                                 *)
(***************************************************************************)
EXTENDS Access

CONSTANTS Demands,  \* demands that may be converted
          MaxRefs   \* bound on the references of one prefix

ASSUME RefsAssumption == MaxRefs \in Nat /\ NoOne \notin Demands

VARIABLES counter,  \* Counter, by prefix
          records,  \* the rows with a reference: prefix, number and originating demand
          demand    \* the status of each demand of Demands

intakeVars == <<counter, records, demand>>

Prefixes == {"DEM", "INC", "CHG"}

Record(prefix, number, from) == [prefix |-> prefix, number |-> number, from |-> from]

CreateAsk  == [do : {"create"}, as : Sessions, prefix : Prefixes]
ConvertAsk == [do : {"convert"}, as : Sessions, demand : Demands]

ChangesOf(d) == {c \in records : c.prefix = "CHG" /\ c.from = d}

IntakeInit ==
    /\ counter = [p \in Prefixes |-> 0]
    /\ records = {}
    /\ demand = [d \in Demands |-> "APPROVED"]

-----------------------------------------------------------------------------
Wears(user, hats) == account[user].kind = "INTERNAL" /\ account[user].hats \cap hats # {}

\* Everyone may submit a demand or report an incident.
MayCreate(user, prefix) == prefix = "CHG" => Wears(user, {"DEVELOPER"})

MayConvert(user) == Wears(user, {"BUSINESS_APPROVER", "TECHNICAL_APPROVER"})

\* What a transaction that needs a number goes on with.
Numbering(r, prefix, from) ==
    request' = [request EXCEPT ![r] =
       [at |-> "numbering", ask |-> request[r].ask, as |-> request[r].as,
        user |-> request[r].user, prefix |-> prefix, from |-> from]]

CreateBegins(r) ==
    LET prefix == request[r].ask.prefix
    IN  /\ Acts(r, "create")
        /\ IF MayCreate(request[r].user, prefix)
           THEN Numbering(r, prefix, NoOne) ELSE Ends(r, "forbidden")
        /\ UNCHANGED <<scene, clock, account, session, invite, limiter, revoked>>
        /\ UNCHANGED intakeVars

\* convertDemand: a demand that was converted answers with its change.
ConvertReads(r) ==
    /\ Acts(r, "convert")
    /\ IF ~MayConvert(request[r].user) THEN Ends(r, "forbidden")
       ELSE IF demand[request[r].ask.demand] = "CONVERTED" THEN Ends(r, "ok")
       ELSE Goes(r, "checking")
    /\ UNCHANGED <<scene, clock, account, session, invite, limiter, revoked>>
    /\ UNCHANGED intakeVars

\* createChangeFromDemand: the look-up that spares it the unique index.
ConvertChecks(r) ==
    LET d == request[r].ask.demand
    IN  /\ At(r, "checking")
        /\ IF ChangesOf(d) # {} THEN Ends(r, "ok") ELSE Numbering(r, "CHG", d)
        /\ UNCHANGED <<scene, clock, account, session, invite, limiter, revoked>>
        /\ UNCHANGED intakeVars

\* A number taken on a connection of its own, which commits at once.
TakesNumberOutside(r) ==
    LET prefix == request[r].prefix
    IN  /\ At(r, "numbering")
        /\ counter[prefix] < MaxRefs
        /\ request' = [request EXCEPT ![r] =
              [at |-> "recording", ask |-> request[r].ask, as |-> request[r].as,
               user |-> request[r].user, prefix |-> prefix, from |-> request[r].from,
               number |-> counter[prefix] + 1]]
        /\ counter' = [counter EXCEPT ![prefix] = @ + 1]
        /\ UNCHANGED <<scene, clock, account, session, invite, limiter, revoked, records, demand>>

\* nextRef: INSERT ... ON CONFLICT DO UPDATE waits for the lock on the row.
TakesNumber(r) ==
    LET prefix == request[r].prefix
    IN  /\ At(r, "numbering")
        /\ counter[prefix] < MaxRefs
        /\ \A q \in Requests : At(q, "recording") => request[q].prefix # prefix
        /\ request' = [request EXCEPT ![r] =
              [at |-> "recording", ask |-> request[r].ask, as |-> request[r].as,
               user |-> request[r].user, prefix |-> prefix, from |-> request[r].from,
               number |-> counter[prefix] + 1]]
        /\ UNCHANGED <<scene, clock, account, session, invite, limiter, revoked>>
        /\ UNCHANGED intakeVars

Keeps(r) ==
    /\ counter' = [counter EXCEPT ![request[r].prefix] = request[r].number]
    /\ records' = records \cup {Record(request[r].prefix, request[r].number, request[r].from)}
    /\ Ends(r, "ok")

\* The row with its audit event and notices, and the commit.
CreateRecords(r) ==
    /\ At(r, "recording") /\ request[r].ask.do = "create"
    /\ Keeps(r)
    /\ UNCHANGED <<scene, clock, account, session, invite, limiter, revoked, demand>>

\* The change, the status of the demand, and the commit.  Where another
\* conversion came first the unique index on originatingDemandId refuses the
\* row; PostgreSQL then refuses the look-up in the catch as well, and the
\* transaction is rolled back with its number.
ConvertRecords(r) ==
    LET d == request[r].from
    IN  /\ At(r, "recording") /\ request[r].ask.do = "convert"
        /\ IF ChangesOf(d) = {}
           THEN Keeps(r) /\ demand' = [demand EXCEPT ![d] = "CONVERTED"]
           ELSE Ends(r, "failed") /\ UNCHANGED intakeVars
        /\ UNCHANGED <<scene, clock, account, session, invite, limiter, revoked>>

Takes(r) ==
    \/ CreateBegins(r) \/ ConvertReads(r) \/ ConvertChecks(r)
    \/ TakesNumber(r) \/ CreateRecords(r) \/ ConvertRecords(r)
=============================================================================
