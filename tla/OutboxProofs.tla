---------------------------- MODULE OutboxProofs ----------------------------
(***************************************************************************)
(* Theorems about the outbox and its workers, for any mails, any of which  *)
(* may hang, any batch size and any finite number of processes.            *)
(***************************************************************************)
EXTENDS Outbox, FiniteSetTheorems, TLAPS

(* The advisory lock: two ticks never overlap. *)
Exclusive == \A v, w \in Workers : Ticking(v) /\ Ticking(w) => v = w

(* Six attempts and no more, and none before the mail is there. *)
Retried(row) ==
    /\ row.status = "PENDING" => row.attempts < 6
    /\ row.status = "ABSENT" => row.attempts = 0

(* The claimed rows stand still in the table until the tick commits; those
   still to be sent the tick has not changed either. *)
ClaimHeld(t, table) ==
    /\ t.todo \subseteq DOMAIN t.rows
    /\ \A e \in DOMAIN t.rows : /\ table[e].status = "PENDING" /\ table[e].ready
                                /\ t.rows[e].status # "ABSENT"
                                /\ Retried(t.rows[e])
    /\ \A e \in t.todo : t.rows[e] = table[e]

Claims == \A w \in Workers : Ticking(w) => ClaimHeld(worker[w], outbox)

ClaimInv == /\ TypeOK /\ Exclusive /\ Claims
            /\ \A e \in Emails : Retried(outbox[e])

(* The sends of e that no tick waits for and the server may still take. *)
Orphans(e) ==
    {w \in Workers : worker[w].at = "orphan" /\ worker[w].mail = e /\ e \notin Hanging}

Copies(e) == delivered[e] + Cardinality(Orphans(e))

(* A tick has sent e and not committed. *)
Tried(e) ==
    \E w \in Workers : Ticking(w) /\ e \in DOMAIN worker[w].rows \ worker[w].todo

(* What the row tells of, and one more where a tick would be lost that has
   sent e: the copies as they would stand if every tick were rolled back, and
   as they will if the tick commits. *)
Explained(n, row, lost, one) == n <= row.attempts + lost + IF one THEN 1 ELSE 0

CopiesInv ==
    \A e \in Emails :
        /\ Explained(Copies(e), outbox[e], rollbacks, outbox[e].status = "SENT" \/ Tried(e))
        /\ \A w \in Workers : Ticking(w) /\ e \in DOMAIN worker[w].rows =>
              Explained(Copies(e), worker[w].rows[e], rollbacks,
                        worker[w].rows[e].status = "SENT")

-----------------------------------------------------------------------------
(* Types and claims.                                                       *)

LEMMA TickShape ==
    ASSUME NEW t \in {Idle} \cup Tick \cup Orphan
    PROVE  /\ t.at = "tick" => /\ t \in Tick /\ t.todo \subseteq Emails
                               /\ DOMAIN t.rows \subseteq Emails
                               /\ t.rows \in [DOMAIN t.rows -> OutboxRow]
           /\ t.at = "orphan" => t.mail \in Emails
           /\ t.at \in {"idle", "tick", "orphan"}
  BY DEF Idle, Tick, Orphan

LEMMA TickBuilt ==
    ASSUME NEW todo \in SUBSET Emails, NEW S \in SUBSET Emails, NEW r \in [S -> OutboxRow]
    PROVE  [at |-> "tick", todo |-> todo, rows |-> r] \in Tick
  BY DEF Tick

LEMMA RowTypes ==
    ASSUME NEW row \in OutboxRow, row.attempts < 6
    PROVE  /\ Sent(row) \in OutboxRow /\ Sent(row).status = "SENT"
           /\ Sent(row).attempts = row.attempts
           /\ Failed(row) \in OutboxRow /\ Failed(row).status \in {"FAILED", row.status}
           /\ Failed(row).attempts = row.attempts + 1
           /\ Failed(row).status # "FAILED" => Failed(row).attempts < 6
  <1>1. row.attempts \in 0..5 /\ row.attempts + 1 \in Attempts
    BY DEF OutboxRow, Attempts
  <1>2. CASE row.attempts + 1 >= 6
    <2>1. Failed(row) = [row EXCEPT !.status = "FAILED", !.attempts = row.attempts + 1]
      BY <1>2 DEF Failed, OutboxRow
    <2> QED  BY <1>1, <2>1 DEF Sent, OutboxRow
  <1>3. CASE ~(row.attempts + 1 >= 6)
    <2>1. Failed(row) = [row EXCEPT !.attempts = row.attempts + 1, !.ready = FALSE]
      BY <1>3 DEF Failed, OutboxRow
    <2>2. row.attempts + 1 < 6
      BY <1>1, <1>3
    <2>3. Failed(row) \in OutboxRow /\ Sent(row) \in OutboxRow
      BY <1>1, <2>1 DEF Sent, OutboxRow
    <2>4. /\ Sent(row).status = "SENT" /\ Sent(row).attempts = row.attempts
          /\ Failed(row).status = row.status /\ Failed(row).attempts = row.attempts + 1
      BY <2>1 DEF Sent, OutboxRow
    <2> QED  BY <2>2, <2>3, <2>4
  <1> QED  BY <1>2, <1>3

LEMMA WorkerSet ==
    ASSUME TypeOK, NEW w \in Workers, NEW to, SetWorker(w, to)
    PROVE  /\ \A v \in Workers : worker'[v] = IF v = w THEN to ELSE worker[v]
           /\ to \in {Idle} \cup Tick \cup Orphan =>
                 worker' \in [Workers -> {Idle} \cup Tick \cup Orphan]
  BY DEF TypeOK, SetWorker

LEMMA NextIsOne ==
    ASSUME NEW w, worker[w].todo \subseteq Emails, NEW e, NEW f, IsNext(w, e), IsNext(w, f)
    PROVE  e = f
  <1>1. e \in Nat /\ f \in Nat /\ e <= f /\ f <= e
    BY EmailsAssumption DEF IsNext
  <1> QED  BY <1>1

LEMMA ClaimInit == Init => ClaimInv
  BY DEF Init, ClaimInv, TypeOK, Exclusive, Claims, Retried, Ticking, Idle, OutboxRow, Attempts

(* A row of the table that no tick has claimed changes. *)
LEMMA ClaimTable ==
    ASSUME ClaimInv, NEW e \in Emails, NEW row \in OutboxRow, Retried(row),
           outbox[e].status # "PENDING" \/ ~outbox[e].ready,
           outbox' = [outbox EXCEPT ![e] = row], UNCHANGED <<worker, delivered, rollbacks>>
    PROVE  ClaimInv'
  <1>1. \A f \in Emails : outbox'[f] = IF f = e THEN row ELSE outbox[f]
    BY DEF ClaimInv, TypeOK
  <1>2. TypeOK' /\ Exclusive' /\ \A f \in Emails : Retried(outbox[f])'
    BY <1>1 DEF ClaimInv, TypeOK, Exclusive, Ticking, Retried
  <1>3. ASSUME NEW w \in Workers, Ticking(w) PROVE ClaimHeld(worker[w], outbox')
    <2>1. worker[w].todo \subseteq Emails /\ DOMAIN worker[w].rows \subseteq Emails
      BY <1>3, TickShape DEF ClaimInv, TypeOK, Ticking
    <2>2. ClaimHeld(worker[w], outbox)
      BY <1>3 DEF ClaimInv, Claims
    <2>3. \A f \in DOMAIN worker[w].rows : outbox'[f] = outbox[f]
      BY <1>1, <2>1, <2>2 DEF ClaimHeld
    <2> QED  BY <2>1, <2>2, <2>3 DEF ClaimHeld, Retried
  <1> QED  BY <1>2, <1>3 DEF ClaimInv, Claims, Ticking

LEMMA ClaimBegin ==
    ASSUME ClaimInv, NEW w \in Workers, Begin(w)
    PROVE  ClaimInv'
  <1> DEFINE B == Batch(Due)
             r == [e \in B |-> outbox[e]]
             t == [at |-> "tick", todo |-> B, rows |-> r]
  <1>1. B \subseteq Due /\ B \subseteq Emails
    BY DEF Batch, Due, Unclaimed
  <1>2. \A e \in B : outbox[e].status = "PENDING" /\ outbox[e].ready /\ outbox[e] \in OutboxRow
    BY <1>1 DEF Due, ClaimInv, TypeOK
  <1>3. SetWorker(w, t) /\ UNCHANGED <<outbox, delivered, rollbacks>> /\ LockFree
    BY DEF Begin
  <1> HIDE DEF B
  <1>4. t \in Tick
    BY <1>1, <1>2, TickBuilt
  <1>5. \A e \in Emails : Retried(outbox[e])
    BY DEF ClaimInv
  <1>6. t.at = "tick" /\ ClaimHeld(t, outbox)
    BY <1>1, <1>2, <1>3, <1>5 DEF ClaimHeld, Retried
  <1> HIDE DEF t
  <1>7. \A v \in Workers : worker'[v] = IF v = w THEN t ELSE worker[v]
    BY <1>3, WorkerSet DEF ClaimInv
  <1>8. TypeOK'
    BY <1>3, <1>4, WorkerSet DEF ClaimInv, TypeOK
  <1>9. Exclusive' /\ \A v \in Workers : Ticking(v)' => v = w
    BY <1>3, <1>7 DEF LockFree, Ticking, Exclusive
  <1>10. Claims'
    <2>1. outbox' = outbox
      BY <1>3
    <2> QED  BY <1>6, <1>7, <1>9, <2>1 DEF Claims, ClaimHeld
  <1> QED  BY <1>3, <1>5, <1>8, <1>9, <1>10 DEF ClaimInv, Retried

(* A tick ends, whatever its send does, and nothing is left in the table. *)
LEMMA ClaimEnds ==
    ASSUME ClaimInv, NEW w \in Workers, NEW to \in {Idle} \cup Orphan, SetWorker(w, to),
           UNCHANGED outbox, delivered' \in [Emails -> Nat], rollbacks' \in Nat
    PROVE  ClaimInv'
  <1>1. to.at # "tick"
    BY DEF Idle, Orphan
  <1>2. \A v \in Workers : worker'[v] = IF v = w THEN to ELSE worker[v]
    BY WorkerSet DEF ClaimInv
  <1>3. TypeOK'
    BY WorkerSet DEF ClaimInv, TypeOK
  <1>4. \A v \in Workers : Ticking(v)' => Ticking(v) /\ worker'[v] = worker[v]
    BY <1>1, <1>2 DEF Ticking
  <1>5. Exclusive' /\ Claims'
    BY <1>4 DEF ClaimInv, Exclusive, Claims, ClaimHeld, Retried
  <1> QED  BY <1>3, <1>5 DEF ClaimInv, Retried

(* A tick goes on: only the mail it has sent changes, in its own view. *)
LEMMA SendStep ==
    ASSUME ClaimInv, NEW w \in Workers, SendNext(w)
    PROVE  \E e \in worker[w].todo, row \in OutboxRow, taken \in BOOLEAN :
              /\ e \notin Hanging
              /\ taken \/ row.status # "SENT"
              /\ row.status \in {"SENT", "PENDING", "FAILED"} /\ Retried(row)
              /\ row.attempts = outbox[e].attempts + (IF row.status = "SENT" THEN 0 ELSE 1)
              /\ Deliver(e, taken)
              /\ SetWorker(w, [at |-> "tick", todo |-> worker[w].todo \ {e},
                               rows |-> [worker[w].rows EXCEPT ![e] = row]])
  <1> DEFINE r == worker[w].rows
  <1>1. PICK e \in worker[w].todo \ Hanging, taken \in BOOLEAN, throws \in BOOLEAN :
           /\ taken \/ throws
           /\ Deliver(e, taken)
           /\ SetWorker(w, [at |-> "tick", todo |-> worker[w].todo \ {e},
                            rows |-> [r EXCEPT ![e] = IF throws THEN Failed(@) ELSE Sent(@)]])
    BY DEF SendNext
  <1>2. worker[w] \in Tick /\ r \in [DOMAIN r -> OutboxRow] /\ DOMAIN r \subseteq Emails
    BY TickShape DEF SendNext, Ticking, ClaimInv, TypeOK
  <1>3. /\ e \in DOMAIN r /\ r[e] = outbox[e] /\ r[e] \in OutboxRow
        /\ r[e].status = "PENDING" /\ r[e].attempts < 6
    BY <1>1, <1>2 DEF SendNext, ClaimInv, Claims, ClaimHeld, Retried
  <1> DEFINE row == IF throws THEN Failed(r[e]) ELSE Sent(r[e])
  <1>4. /\ row \in OutboxRow /\ Retried(row)
        /\ row.status \in {"SENT", "PENDING", "FAILED"}
        /\ row.attempts = r[e].attempts + (IF row.status = "SENT" THEN 0 ELSE 1)
        /\ taken \/ row.status # "SENT"
    <2>1. CASE throws
      <3>1. row = Failed(r[e])
        BY <2>1
      <3> HIDE DEF row
      <3> QED  BY <1>3, <3>1, RowTypes DEF Retried
    <2>2. CASE ~throws
      <3>1. row = Sent(r[e]) /\ taken
        BY <1>1, <2>2
      <3>2. r[e].attempts \in Nat
        BY <1>3 DEF OutboxRow, Attempts
      <3> HIDE DEF row
      <3> QED  BY <1>3, <3>1, <3>2, RowTypes DEF Retried
    <2> QED  BY <2>1, <2>2
  <1> HIDE DEF row
  <1>5. [r EXCEPT ![e] = IF throws THEN Failed(@) ELSE Sent(@)] = [r EXCEPT ![e] = row]
    <2>1. [r EXCEPT ![e] = IF throws THEN Failed(@) ELSE Sent(@)]
             = [r EXCEPT ![e] = IF throws THEN Failed(r[e]) ELSE Sent(r[e])]
      BY <1>2, <1>3
    <2> QED  BY <2>1 DEF row
  <1>6. SetWorker(w, [at |-> "tick", todo |-> worker[w].todo \ {e},
                      rows |-> [r EXCEPT ![e] = row]])
    BY <1>1, <1>5
  <1> QED  BY <1>1, <1>3, <1>4, <1>6

LEMMA ClaimSend ==
    ASSUME ClaimInv, NEW w \in Workers, SendNext(w)
    PROVE  ClaimInv'
  <1> DEFINE r == worker[w].rows
  <1>1. PICK e \in worker[w].todo, row \in OutboxRow, taken \in BOOLEAN :
           /\ row.status # "ABSENT" /\ Retried(row)
           /\ Deliver(e, taken)
           /\ SetWorker(w, [at |-> "tick", todo |-> worker[w].todo \ {e},
                            rows |-> [r EXCEPT ![e] = row]])
    <2>1. \A row \in OutboxRow : row.status \in {"SENT", "PENDING", "FAILED"}
                                  => row.status # "ABSENT"
      OBVIOUS
    <2> QED  BY <2>1, SendStep
  <1> DEFINE t == [at |-> "tick", todo |-> worker[w].todo \ {e}, rows |-> [r EXCEPT ![e] = row]]
  <1>2. /\ worker[w].todo \subseteq Emails /\ DOMAIN r \subseteq Emails
        /\ r \in [DOMAIN r -> OutboxRow] /\ Ticking(w)
    BY TickShape DEF SendNext, Ticking, ClaimInv, TypeOK
  <1>3. ClaimHeld(worker[w], outbox) /\ UNCHANGED <<outbox, rollbacks>>
    BY <1>2 DEF ClaimInv, Claims, SendNext
  <1>4. /\ t.at = "tick" /\ t.todo = worker[w].todo \ {e} /\ t.rows = [r EXCEPT ![e] = row]
        /\ t \in Tick
    BY <1>2, TickBuilt
  <1>5. DOMAIN t.rows = DOMAIN r /\ \A f \in DOMAIN r : t.rows[f] = IF f = e THEN row ELSE r[f]
    BY <1>2, <1>4
  <1> HIDE DEF t
  <1>6. ClaimHeld(t, outbox)
    BY <1>1, <1>3, <1>4, <1>5 DEF ClaimHeld
  <1>7. \A v \in Workers : worker'[v] = IF v = w THEN t ELSE worker[v]
    BY <1>1, WorkerSet DEF ClaimInv, t
  <1>8. worker' \in [Workers -> {Idle} \cup Tick \cup Orphan]
    BY <1>1, <1>4, WorkerSet DEF ClaimInv, t
  <1>9. TypeOK'
    BY <1>1, <1>2, <1>3, <1>8 DEF ClaimInv, TypeOK, Deliver
  <1>10. Exclusive' /\ Claims'
    BY <1>2, <1>3, <1>6, <1>7 DEF ClaimInv, Exclusive, Claims, Ticking, ClaimHeld
  <1> QED  BY <1>3, <1>9, <1>10 DEF ClaimInv, Retried

LEMMA ClaimCommit ==
    ASSUME ClaimInv, NEW w \in Workers, Commit(w)
    PROVE  ClaimInv'
  <1> DEFINE r == worker[w].rows
  <1>1. DOMAIN r \subseteq Emails /\ r \in [DOMAIN r -> OutboxRow] /\ Ticking(w)
    BY TickShape DEF Commit, Ticking, ClaimInv, TypeOK
  <1>2. ClaimHeld(worker[w], outbox) /\ \A v \in Workers : Ticking(v) => v = w
    BY <1>1 DEF ClaimInv, Claims, Exclusive
  <1>3. SetWorker(w, Idle) /\ UNCHANGED <<delivered, rollbacks>>
    BY DEF Commit
  <1>4. \A e \in Emails : outbox'[e] = IF e \in DOMAIN r THEN r[e] ELSE outbox[e]
    BY DEF Commit
  <1>5. outbox' \in [Emails -> OutboxRow]
    <2>1. outbox' = [e \in Emails |-> IF e \in DOMAIN r THEN r[e] ELSE outbox[e]]
      BY DEF Commit
    <2> HIDE DEF r
    <2> QED  BY <1>1, <2>1 DEF ClaimInv, TypeOK
  <1>6. TypeOK'
    BY <1>3, <1>5, WorkerSet DEF ClaimInv, TypeOK
  <1>7. \A v \in Workers : worker'[v] = IF v = w THEN Idle ELSE worker[v]
    BY <1>3, WorkerSet DEF ClaimInv
  <1>8. \A v \in Workers : ~Ticking(v)'
    BY <1>2, <1>7 DEF Ticking, Idle
  <1>9. \A e \in Emails : Retried(outbox[e])'
    BY <1>2, <1>4 DEF ClaimInv, ClaimHeld, Retried
  <1> QED  BY <1>6, <1>8, <1>9 DEF ClaimInv, Exclusive, Claims

LEMMA ClaimNext == ClaimInv /\ [Next]_vars => ClaimInv'
  <1> SUFFICES ASSUME ClaimInv, [Next]_vars PROVE ClaimInv'
    OBVIOUS
  <1>1. ASSUME NEW e \in Emails, Enqueue(e) PROVE ClaimInv'
    <2>1. [status |-> "PENDING", attempts |-> 0, ready |-> TRUE] \in OutboxRow
      BY DEF OutboxRow, Attempts
    <2>2. Retried([status |-> "PENDING", attempts |-> 0, ready |-> TRUE])
      BY DEF Retried
    <2>3. outbox[e].status = "ABSENT" /\ UNCHANGED <<worker, delivered, rollbacks>>
      BY <1>1 DEF Enqueue
    <2> QED  BY <1>1, <2>1, <2>2, <2>3, ClaimTable DEF Enqueue
  <1>2. ASSUME NEW e \in Emails, BackoffElapses(e) PROVE ClaimInv'
    <2> DEFINE row == [outbox[e] EXCEPT !.ready = TRUE]
    <2>1. row \in OutboxRow /\ row.status = outbox[e].status /\ row.attempts = outbox[e].attempts
      BY DEF ClaimInv, TypeOK, OutboxRow
    <2>2. outbox' = [outbox EXCEPT ![e] = row]
      BY <1>2 DEF BackoffElapses, ClaimInv, TypeOK
    <2>3. Retried(row)
      BY <2>1 DEF ClaimInv, Retried
    <2> HIDE DEF row
    <2> QED  BY <1>2, <2>1, <2>2, <2>3, ClaimTable DEF BackoffElapses
  <1>3. ASSUME NEW w \in Workers, Rollback(w) \/ Timeout(w) PROVE ClaimInv'
    <2>1. GiveUpTick(w) /\ UNCHANGED <<outbox, delivered>>
      BY <1>3 DEF Rollback, Timeout
    <2>2. rollbacks \in Nat /\ delivered \in [Emails -> Nat]
      BY DEF ClaimInv, TypeOK
    <2>3. rollbacks' \in Nat
      BY <1>3, <2>2 DEF Rollback, Timeout
    <2>4. PICK to \in {Idle} \cup Orphan : SetWorker(w, to)
      BY <2>1 DEF GiveUpTick, Orphan
    <2> QED  BY <2>1, <2>2, <2>3, <2>4, ClaimEnds
  <1>4. ASSUME NEW w \in Workers, OrphanEnds(w) PROVE ClaimInv'
    <2>1. SetWorker(w, Idle) /\ UNCHANGED <<outbox, rollbacks>> /\ worker[w].mail \in Emails
      BY <1>4, TickShape DEF OrphanEnds, ClaimInv, TypeOK
    <2>2. rollbacks \in Nat /\ delivered \in [Emails -> Nat]
      BY DEF ClaimInv, TypeOK
    <2>3. PICK taken \in BOOLEAN : Deliver(worker[w].mail, taken)
      BY <1>4 DEF OrphanEnds
    <2>4. delivered' \in [Emails -> Nat]
      BY <2>1, <2>2, <2>3 DEF Deliver
    <2> QED  BY <2>1, <2>2, <2>4, ClaimEnds
  <1>5. CASE UNCHANGED vars
    BY <1>5 DEF vars, ClaimInv, TypeOK, Exclusive, Claims, Ticking, ClaimHeld, Retried
  <1> QED  BY <1>1, <1>2, <1>3, <1>4, <1>5, ClaimBegin, ClaimSend, ClaimCommit DEF Next, Work

(* Every table and every tick keeps its type, and a claimed row stands still
   until its tick commits. *)
LEMMA ClaimInvariant == Spec => []ClaimInv
  BY ClaimInit, ClaimNext, PTL DEF Spec

(* The rows, the ticks and the counters keep their types: no more than six
   attempts are ever counted, whatever fails (worker.ts:102). *)
THEOREM TypeCorrect == Spec => []TypeOK
  <1>1. ClaimInv => TypeOK
    BY DEF ClaimInv
  <1> QED  BY <1>1, ClaimInvariant, PTL

(* Exactly one sender runs across replicas (worker.ts:11-13). *)
THEOREM OneSender == Spec => []Exclusive
  <1>1. ClaimInv => Exclusive
    BY DEF ClaimInv
  <1> QED  BY <1>1, ClaimInvariant, PTL

-----------------------------------------------------------------------------
(* Copies.                                                                 *)

LEMMA OrphansFinite ==
    ASSUME IsFiniteSet(Workers), NEW e
    PROVE  /\ IsFiniteSet(Orphans(e)) /\ Cardinality(Orphans(e)) \in Nat
           /\ IsFiniteSet(Orphans(e)') /\ Cardinality(Orphans(e)') \in Nat
  <1>1. Orphans(e) \subseteq Workers /\ Orphans(e)' \subseteq Workers
    BY DEF Orphans
  <1> QED  BY <1>1, FS_Subset, FS_CardinalityType

LEMMA CopiesType ==
    ASSUME IsFiniteSet(Workers), ClaimInv, NEW e \in Emails
    PROVE  /\ Copies(e) \in Nat /\ delivered[e] \in Nat /\ delivered[e] <= Copies(e)
           /\ outbox[e].attempts \in Nat /\ rollbacks \in Nat
  <1>1. delivered[e] \in Nat /\ rollbacks \in Nat /\ outbox[e] \in OutboxRow
    BY DEF ClaimInv, TypeOK
  <1> QED  BY <1>1, OrphansFinite DEF Copies, OutboxRow, Attempts

(* A worker that neither was nor becomes an orphan. *)
LEMMA OrphansSame ==
    ASSUME ClaimInv, NEW w \in Workers, NEW to, SetWorker(w, to),
           worker[w].at # "orphan", to.at # "orphan", NEW e
    PROVE  Orphans(e)' = Orphans(e)
  <1>1. \A v \in Workers : worker'[v] = IF v = w THEN to ELSE worker[v]
    BY WorkerSet DEF ClaimInv
  <1> QED  BY <1>1 DEF Orphans

(* The rows of the one tick there is. *)
LEMMA TheTick ==
    ASSUME ClaimInv, NEW w \in Workers, Ticking(w)
    PROVE  /\ \A v \in Workers : Ticking(v) <=> v = w
           /\ \A e : Tried(e) <=> e \in DOMAIN worker[w].rows \ worker[w].todo
           /\ DOMAIN worker[w].rows \subseteq Emails
           /\ ClaimHeld(worker[w], outbox)
           /\ worker[w].todo \subseteq DOMAIN worker[w].rows
  <1>1. \A v \in Workers : Ticking(v) <=> v = w
    BY DEF ClaimInv, Exclusive
  <1>2. ClaimHeld(worker[w], outbox)
    BY DEF ClaimInv, Claims
  <1>3. DOMAIN worker[w].rows \subseteq Emails
    BY TickShape DEF ClaimInv, TypeOK, Ticking
  <1> QED  BY <1>1, <1>2, <1>3 DEF Tried, ClaimHeld

LEMMA CopiesInit ==
    ASSUME IsFiniteSet(Workers)
    PROVE  Init => CopiesInv
  <1> SUFFICES ASSUME Init, NEW e \in Emails
               PROVE  /\ Explained(Copies(e), outbox[e], rollbacks,
                                   outbox[e].status = "SENT" \/ Tried(e))
                      /\ \A w \in Workers : ~Ticking(w)
    BY DEF CopiesInv
  <1>1. Orphans(e) = {} /\ \A w \in Workers : ~Ticking(w)
    BY DEF Init, Orphans, Ticking, Idle
  <1>2. Copies(e) = 0
    BY <1>1, FS_EmptySet DEF Init, Copies
  <1>3. outbox[e].attempts = 0 /\ outbox[e].status = "ABSENT" /\ rollbacks = 0
    BY DEF Init
  <1> QED  BY <1>1, <1>2, <1>3 DEF Explained, Tried

(* A mail is enqueued or its backoff elapses. *)
LEMMA CopiesTable ==
    ASSUME IsFiniteSet(Workers), ClaimInv, CopiesInv, NEW e \in Emails, NEW row,
           row.attempts = outbox[e].attempts, outbox[e].status # "SENT",
           outbox' = [outbox EXCEPT ![e] = row], UNCHANGED <<worker, delivered, rollbacks>>
    PROVE  CopiesInv'
  <1>1. \A f \in Emails : outbox'[f] = IF f = e THEN row ELSE outbox[f]
    BY DEF ClaimInv, TypeOK
  <1>2. \A f \in Emails : Copies(f)' = Copies(f) /\ Tried(f)' = Tried(f)
    BY DEF Copies, Orphans, Tried, Ticking
  <1>3. \A f \in Emails : Explained(Copies(f), outbox[f], rollbacks,
                                    outbox[f].status = "SENT" \/ Tried(f))
    BY DEF CopiesInv
  <1>4. ASSUME NEW f \in Emails
        PROVE  Explained(Copies(f)', outbox'[f], rollbacks', outbox'[f].status = "SENT" \/ Tried(f)')
    <2>1. CASE f = e
      <3>1. /\ Copies(e) \in Nat /\ outbox[e].attempts \in Nat /\ rollbacks \in Nat
            /\ rollbacks' = rollbacks
        BY CopiesType
      <3> QED  BY <1>1, <1>2, <1>3, <2>1, <3>1 DEF Explained
    <2>2. CASE f # e
      BY <1>1, <1>2, <1>3, <2>2 DEF Explained
    <2> QED  BY <2>1, <2>2
  <1>5. ASSUME NEW f \in Emails, NEW w \in Workers, Ticking(w)', f \in DOMAIN worker'[w].rows
        PROVE  Explained(Copies(f)', worker'[w].rows[f], rollbacks',
                         worker'[w].rows[f].status = "SENT")
    BY <1>2, <1>5 DEF CopiesInv, Ticking
  <1> QED  BY <1>4, <1>5 DEF CopiesInv

LEMMA CopiesBegin ==
    ASSUME IsFiniteSet(Workers), ClaimInv, CopiesInv, NEW w \in Workers, Begin(w)
    PROVE  CopiesInv'
  <1> DEFINE B == Batch(Due)
             t == [at |-> "tick", todo |-> B, rows |-> [e \in B |-> outbox[e]]]
  <1>1. /\ SetWorker(w, t) /\ UNCHANGED <<outbox, delivered, rollbacks>>
        /\ worker[w] = Idle /\ \A v \in Workers : ~Ticking(v)
    BY DEF Begin, LockFree
  <1>2. \A e \in B : e \in Emails /\ outbox[e].status = "PENDING"
    BY DEF Batch, Due, Unclaimed
  <1> HIDE DEF B
  <1>3. /\ t.at = "tick" /\ DOMAIN t.rows = B /\ t.todo = B
        /\ \A e \in B : t.rows[e] = outbox[e]
    OBVIOUS
  <1> HIDE DEF t
  <1>4. \A v \in Workers : worker'[v] = IF v = w THEN t ELSE worker[v]
    BY <1>1, WorkerSet DEF ClaimInv
  <1>5. \A v \in Workers : Ticking(v)' <=> v = w
    BY <1>1, <1>3, <1>4 DEF Ticking
  <1>6. ASSUME NEW e \in Emails
        PROVE  Copies(e)' = Copies(e) /\ ~Tried(e)' /\ ~Tried(e)
    <2>1. Orphans(e)' = Orphans(e)
      BY <1>1, <1>3, OrphansSame DEF Idle
    <2> QED  BY <1>1, <1>3, <1>4, <1>5, <2>1 DEF Copies, Tried
  <1>7. ASSUME NEW e \in Emails
        PROVE  Explained(Copies(e)', outbox[e], rollbacks, outbox[e].status = "SENT")
    BY <1>6 DEF CopiesInv, Explained
  <1>8. ASSUME NEW e \in Emails
        PROVE  Explained(Copies(e)', outbox'[e], rollbacks', outbox'[e].status = "SENT" \/ Tried(e)')
    BY <1>1, <1>6, <1>7 DEF Explained
  <1>9. ASSUME NEW e \in Emails, NEW v \in Workers, Ticking(v)', e \in DOMAIN worker'[v].rows
        PROVE  Explained(Copies(e)', worker'[v].rows[e], rollbacks',
                         worker'[v].rows[e].status = "SENT")
    <2>1. worker'[v] = t /\ e \in B /\ worker'[v].rows[e] = outbox[e] /\ rollbacks' = rollbacks
      BY <1>1, <1>3, <1>4, <1>5, <1>9
    <2> QED  BY <1>7, <2>1
  <1> QED  BY <1>8, <1>9 DEF CopiesInv

LEMMA CopiesSend ==
    ASSUME IsFiniteSet(Workers), ClaimInv, CopiesInv, NEW w \in Workers, SendNext(w)
    PROVE  CopiesInv'
  <1> DEFINE r == worker[w].rows
  <1>1. PICK e \in worker[w].todo, row \in OutboxRow, taken \in BOOLEAN :
           /\ taken \/ row.status # "SENT"
           /\ row.attempts = outbox[e].attempts + (IF row.status = "SENT" THEN 0 ELSE 1)
           /\ Deliver(e, taken)
           /\ SetWorker(w, [at |-> "tick", todo |-> worker[w].todo \ {e},
                            rows |-> [r EXCEPT ![e] = row]])
    BY SendStep
  <1> DEFINE t == [at |-> "tick", todo |-> worker[w].todo \ {e}, rows |-> [r EXCEPT ![e] = row]]
  <1>2. Ticking(w) /\ UNCHANGED <<outbox, rollbacks>>
    BY DEF SendNext
  <1>3. /\ \A v \in Workers : Ticking(v) <=> v = w
        /\ \A f : Tried(f) <=> f \in DOMAIN r \ worker[w].todo
        /\ DOMAIN r \subseteq Emails /\ worker[w].todo \subseteq DOMAIN r
        /\ outbox[e].status = "PENDING"
    BY <1>1, <1>2, TheTick DEF ClaimHeld
  <1>4. /\ t.at = "tick" /\ t.todo = worker[w].todo \ {e} /\ DOMAIN t.rows = DOMAIN r
        /\ \A f \in DOMAIN r : t.rows[f] = IF f = e THEN row ELSE r[f]
    BY <1>3, TickShape, <1>2 DEF ClaimInv, TypeOK, Ticking
  <1> HIDE DEF t
  <1>5. \A v \in Workers : worker'[v] = IF v = w THEN t ELSE worker[v]
    BY <1>1, WorkerSet DEF ClaimInv, t
  <1>6. \A v \in Workers : Ticking(v)' <=> v = w
    BY <1>3, <1>4, <1>5 DEF Ticking
  <1>7. \A f : Tried(f)' <=> f \in DOMAIN r \ t.todo
    BY <1>4, <1>5, <1>6 DEF Tried
  <1>8. \A f \in Emails : Orphans(f)' = Orphans(f)
    BY <1>1, <1>2, <1>4, OrphansSame DEF Ticking, t
  <1>9. \A f \in Emails : delivered'[f] = delivered[f] + IF f = e /\ taken THEN 1 ELSE 0
    <2>1. delivered \in [Emails -> Nat]
      BY DEF ClaimInv, TypeOK
    <2> QED  BY <1>1, <2>1 DEF Deliver
  <1>10. ASSUME NEW f \in Emails
         PROVE  /\ Copies(f) \in Nat /\ outbox[f].attempts \in Nat /\ rollbacks \in Nat
                /\ Copies(f)' = Copies(f) + IF f = e /\ taken THEN 1 ELSE 0
    <2>1. Cardinality(Orphans(f)) \in Nat /\ delivered[f] \in Nat
      BY OrphansFinite, CopiesType
    <2> QED  BY <1>8, <1>9, <2>1, CopiesType DEF Copies
  <1>11. \A f \in Emails : Explained(Copies(f), outbox[f], rollbacks,
                                    outbox[f].status = "SENT" \/ Tried(f))
    BY DEF CopiesInv
  <1>12. Copies(e) <= outbox[e].attempts + rollbacks /\ e \in Emails
    BY <1>1, <1>3, <1>10, <1>11 DEF Explained
  <1>13. ASSUME NEW f \in Emails
         PROVE  Explained(Copies(f)', outbox'[f], rollbacks', outbox'[f].status = "SENT" \/ Tried(f)')
    <2>1. CASE f = e
      <3>1. Tried(f)'
        BY <1>1, <1>3, <1>4, <1>7, <2>1
      <3> QED  BY <1>2, <1>10, <1>12, <2>1, <3>1 DEF Explained
    <2>2. CASE f # e
      <3>1. Tried(f)' <=> Tried(f)
        BY <1>3, <1>4, <1>7, <2>2
      <3> QED  BY <1>2, <1>10, <1>11, <2>2, <3>1 DEF Explained
    <2> QED  BY <2>1, <2>2
  <1>14. ASSUME NEW f \in Emails, NEW v \in Workers, Ticking(v)', f \in DOMAIN worker'[v].rows
         PROVE  Explained(Copies(f)', worker'[v].rows[f], rollbacks',
                          worker'[v].rows[f].status = "SENT")
    <2>1. worker'[v] = t /\ f \in DOMAIN r /\ rollbacks' = rollbacks
      BY <1>2, <1>4, <1>5, <1>6, <1>14
    <2>2. CASE f = e
      <3>1. worker'[v].rows[f] = row
        BY <1>4, <2>1, <2>2
      <3> QED  BY <1>1, <1>10, <1>12, <2>1, <2>2, <3>1 DEF Explained
    <2>3. CASE f # e
      <3>1. worker'[v].rows[f] = r[f]
        BY <1>4, <2>1, <2>3
      <3>2. Explained(Copies(f), r[f], rollbacks, r[f].status = "SENT")
        BY <1>2, <2>1 DEF CopiesInv
      <3> QED  BY <1>10, <2>1, <2>3, <3>1, <3>2 DEF Explained
    <2> QED  BY <2>2, <2>3
  <1> QED  BY <1>13, <1>14 DEF CopiesInv

LEMMA CopiesCommit ==
    ASSUME IsFiniteSet(Workers), ClaimInv, CopiesInv, NEW w \in Workers, Commit(w)
    PROVE  CopiesInv'
  <1> DEFINE r == worker[w].rows
  <1>1. /\ Ticking(w) /\ SetWorker(w, Idle) /\ UNCHANGED <<delivered, rollbacks>>
        /\ \A e \in Emails : outbox'[e] = IF e \in DOMAIN r THEN r[e] ELSE outbox[e]
    BY DEF Commit
  <1>2. /\ \A v \in Workers : Ticking(v) <=> v = w
        /\ \A e : Tried(e) => e \in DOMAIN r
    BY <1>1, TheTick
  <1>3. \A v \in Workers : ~Ticking(v)'
    BY <1>1, <1>2, WorkerSet DEF ClaimInv, Ticking, Idle
  <1>4. ASSUME NEW e \in Emails
        PROVE  Explained(Copies(e)', outbox'[e], rollbacks', outbox'[e].status = "SENT" \/ Tried(e)')
    <2>1. Orphans(e)' = Orphans(e)
      BY <1>1, OrphansSame DEF Ticking, Idle
    <2>2. Copies(e)' = Copies(e) /\ ~Tried(e)' /\ rollbacks' = rollbacks
      BY <1>1, <1>3, <2>1 DEF Copies, Tried
    <2>3. CASE e \in DOMAIN r
      <3>1. Explained(Copies(e), r[e], rollbacks, r[e].status = "SENT")
        BY <1>1, <2>3 DEF CopiesInv
      <3> QED  BY <1>1, <2>2, <2>3, <3>1 DEF Explained
    <2>4. CASE e \notin DOMAIN r
      <3>1. Explained(Copies(e), outbox[e], rollbacks, outbox[e].status = "SENT" \/ Tried(e))
        BY DEF CopiesInv
      <3> QED  BY <1>1, <1>2, <2>2, <2>4, <3>1 DEF Explained
    <2> QED  BY <2>3, <2>4
  <1> QED  BY <1>3, <1>4 DEF CopiesInv

(* The tick is rolled back.  What it had sent is one more copy than the table
   tells of, and so is what its send under way may become: both are covered
   by counting the rollback, and a timeout that is not counted has neither. *)
LEMMA CopiesGiveUp ==
    ASSUME IsFiniteSet(Workers), ClaimInv, CopiesInv, NEW w \in Workers,
           Rollback(w) \/ Timeout(w)
    PROVE  CopiesInv'
  <1> DEFINE r == worker[w].rows
             todo == worker[w].todo
             left(f) == f \in DOMAIN r \ todo
  <1>1. Ticking(w) /\ GiveUpTick(w) /\ UNCHANGED <<outbox, delivered>> /\ rollbacks \in Nat
    BY DEF Rollback, Timeout, ClaimInv, TypeOK
  <1>2. /\ \A v \in Workers : Ticking(v) <=> v = w
        /\ \A f : Tried(f) <=> left(f)
        /\ DOMAIN r \subseteq Emails /\ todo \subseteq DOMAIN r
        /\ \A f \in todo : outbox[f].status = "PENDING"
    BY <1>1, TheTick DEF ClaimHeld
  <1>3. PICK to \in {Idle} \cup Orphan :
           SetWorker(w, to) /\ (to.at = "orphan" => IsNext(w, to.mail))
    <2>1. CASE SetWorker(w, Idle)
      <3>1. Idle.at # "orphan"
        BY DEF Idle
      <3> QED  BY <2>1, <3>1
    <2>2. ASSUME NEW e \in Emails, IsNext(w, e), SetWorker(w, [at |-> "orphan", mail |-> e])
          PROVE  \E to \in {Idle} \cup Orphan :
                    SetWorker(w, to) /\ (to.at = "orphan" => IsNext(w, to.mail))
      <3>1. [at |-> "orphan", mail |-> e] \in Orphan /\ [at |-> "orphan", mail |-> e].mail = e
        BY DEF Orphan
      <3> QED  BY <2>2, <3>1
    <2> QED  BY <1>1, <2>1, <2>2 DEF GiveUpTick
  <1>4. to.at # "tick" /\ \A v \in Workers : worker'[v] = IF v = w THEN to ELSE worker[v]
    BY <1>3, WorkerSet DEF ClaimInv, Idle, Orphan
  <1>5. \A v \in Workers : ~Ticking(v)'
    BY <1>2, <1>4 DEF Ticking
  <1>6. \/ rollbacks' = rollbacks + 1
        \/ /\ rollbacks' = rollbacks /\ \A f : ~left(f)
           /\ to.at = "orphan" => to.mail \in Hanging
    <2>1. CASE Rollback(w)
      BY <2>1 DEF Rollback
    <2>2. CASE Timeout(w)
      <3>1. PICK e \in Hanging : IsNext(w, e)
        BY <2>2 DEF Timeout
      <3>2. to.at = "orphan" => to.mail = e
        BY <1>2, <1>3, <3>1, NextIsOne
      <3>3. rollbacks' = IF SentBefore(w) THEN rollbacks + 1 ELSE rollbacks
        BY <2>2 DEF Timeout
      <3>4. ~SentBefore(w) => \A f : ~left(f)
        BY <1>2 DEF SentBefore
      <3> QED  BY <3>1, <3>2, <3>3, <3>4
    <2> QED  BY <2>1, <2>2
  <1>7. ASSUME NEW f \in Emails
        PROVE  /\ Copies(f) \in Nat /\ Copies(f)' \in Nat
               /\ Copies(f)' = Copies(f) \/ Copies(f)' = Copies(f) + 1
               /\ Copies(f)' # Copies(f) =>
                     to.at = "orphan" /\ to.mail = f /\ f \notin Hanging
    <2> DEFINE orphaned == to.at = "orphan" /\ to.mail = f /\ f \notin Hanging
    <2>1. w \notin Orphans(f)
      BY <1>1 DEF Orphans, Ticking
    <2>2. Orphans(f)' = IF orphaned THEN Orphans(f) \cup {w} ELSE Orphans(f)
      BY <1>4, <2>1 DEF Orphans
    <2>3. Cardinality(Orphans(f) \cup {w}) = Cardinality(Orphans(f)) + 1
      BY <2>1, OrphansFinite, FS_AddElement
    <2>4. delivered'[f] = delivered[f] /\ delivered[f] \in Nat /\ Cardinality(Orphans(f)) \in Nat
      BY <1>1, OrphansFinite, CopiesType
    <2>5. /\ orphaned => Copies(f)' = Copies(f) + 1
          /\ ~orphaned => Copies(f)' = Copies(f)
      BY <2>2, <2>3, <2>4 DEF Copies
    <2> HIDE DEF orphaned
    <2>6. Copies(f) \in Nat
      BY CopiesType
    <2> QED  BY <2>5, <2>6 DEF orphaned
  <1>8. ASSUME NEW f \in Emails
        PROVE  Explained(Copies(f)', outbox'[f], rollbacks', outbox'[f].status = "SENT" \/ Tried(f)')
    <2>1. Explained(Copies(f), outbox[f], rollbacks, outbox[f].status = "SENT" \/ left(f))
      BY <1>2 DEF CopiesInv, Explained
    <2>2. Copies(f)' # Copies(f) =>
             ~left(f) /\ outbox[f].status = "PENDING" /\ rollbacks' = rollbacks + 1
      BY <1>2, <1>3, <1>6, <1>7 DEF IsNext
    <2>3. outbox[f].attempts \in Nat /\ outbox' = outbox
      BY <1>1, CopiesType
    <2> HIDE DEF left
    <2>4. left(f) => rollbacks' = rollbacks + 1
      BY <1>6
    <2> QED  BY <1>1, <1>6, <1>7, <2>1, <2>2, <2>3, <2>4 DEF Explained
  <1> QED  BY <1>5, <1>8 DEF CopiesInv

(* The send that outlived its tick is taken or is not. *)
LEMMA CopiesOrphan ==
    ASSUME IsFiniteSet(Workers), ClaimInv, CopiesInv, NEW w \in Workers, OrphanEnds(w)
    PROVE  CopiesInv'
  <1> DEFINE m == worker[w].mail
  <1>1. PICK taken \in BOOLEAN :
           /\ taken => m \notin Hanging
           /\ Deliver(m, taken) /\ SetWorker(w, Idle) /\ UNCHANGED <<outbox, rollbacks>>
           /\ worker[w].at = "orphan"
    BY DEF OrphanEnds
  <1>2. m \in Emails
    BY <1>1, TickShape DEF ClaimInv, TypeOK
  <1>3. \A v \in Workers : worker'[v] = IF v = w THEN Idle ELSE worker[v]
    BY <1>1, WorkerSet DEF ClaimInv
  <1>4. \A v \in Workers : /\ Ticking(v)' <=> Ticking(v)
                           /\ Ticking(v) => worker'[v] = worker[v]
    BY <1>1, <1>3 DEF Ticking, Idle
  <1>5. \A f \in Emails : Tried(f)' <=> Tried(f)
    BY <1>4 DEF Tried
  <1>6. ASSUME NEW f \in Emails
        PROVE  Copies(f)' \in Nat /\ Copies(f) \in Nat /\ Copies(f)' <= Copies(f)
    <2> DEFINE mine == f = m /\ f \notin Hanging
    <2>1. Orphans(f)' = IF mine THEN Orphans(f) \ {w} ELSE Orphans(f)
      BY <1>1, <1>3 DEF Orphans, Idle
    <2>2. mine => w \in Orphans(f)
      BY <1>1 DEF Orphans
    <2>3. mine => Cardinality(Orphans(f)') = Cardinality(Orphans(f)) - 1
      BY <2>1, <2>2, OrphansFinite, FS_RemoveElement
    <2>4. delivered \in [Emails -> Nat]
      BY DEF ClaimInv, TypeOK
    <2>5. delivered'[f] = delivered[f] + IF taken /\ f = m THEN 1 ELSE 0
      BY <1>1, <1>2, <2>4 DEF Deliver
    <2>6. taken /\ f = m => mine
      BY <1>1
    <2>7. Cardinality(Orphans(f)) \in Nat /\ Cardinality(Orphans(f)') \in Nat /\ delivered[f] \in Nat
      BY <2>4, OrphansFinite
    <2>8. ~mine => Cardinality(Orphans(f)') = Cardinality(Orphans(f))
      BY <2>1
    <2> HIDE DEF mine, m
    <2> QED  BY <2>3, <2>5, <2>6, <2>7, <2>8 DEF Copies
  <1>7. ASSUME NEW f \in Emails
        PROVE  Explained(Copies(f)', outbox'[f], rollbacks', outbox'[f].status = "SENT" \/ Tried(f)')
    <2>1. Explained(Copies(f), outbox[f], rollbacks, outbox[f].status = "SENT" \/ Tried(f))
      BY DEF CopiesInv
    <2>2. outbox[f].attempts \in Nat /\ rollbacks \in Nat
      BY CopiesType
    <2> QED  BY <1>1, <1>5, <1>6, <2>1, <2>2 DEF Explained
  <1>8. ASSUME NEW f \in Emails, NEW v \in Workers, Ticking(v)', f \in DOMAIN worker'[v].rows
        PROVE  Explained(Copies(f)', worker'[v].rows[f], rollbacks',
                         worker'[v].rows[f].status = "SENT")
    <2>1. Ticking(v) /\ worker'[v] = worker[v]
      BY <1>4, <1>8
    <2>2. Explained(Copies(f), worker[v].rows[f], rollbacks, worker[v].rows[f].status = "SENT")
      BY <1>8, <2>1 DEF CopiesInv
    <2>3. worker[v].rows[f].attempts \in Nat /\ rollbacks \in Nat
      BY <1>8, <2>1, TickShape, CopiesType DEF ClaimInv, TypeOK, Ticking, OutboxRow, Attempts
    <2> QED  BY <1>1, <1>6, <2>1, <2>2, <2>3 DEF Explained
  <1> QED  BY <1>7, <1>8 DEF CopiesInv

LEMMA CopiesNext ==
    ASSUME IsFiniteSet(Workers)
    PROVE  ClaimInv /\ CopiesInv /\ [Next]_vars => CopiesInv'
  <1> SUFFICES ASSUME ClaimInv, CopiesInv, [Next]_vars PROVE CopiesInv'
    OBVIOUS
  <1>1. ASSUME NEW e \in Emails, Enqueue(e) PROVE CopiesInv'
    <2> DEFINE row == [status |-> "PENDING", attempts |-> 0, ready |-> TRUE]
    <2>1. row.attempts = outbox[e].attempts /\ outbox[e].status # "SENT"
      BY <1>1 DEF Enqueue, ClaimInv, Retried
    <2>2. outbox' = [outbox EXCEPT ![e] = row] /\ UNCHANGED <<worker, delivered, rollbacks>>
      BY <1>1 DEF Enqueue
    <2> HIDE DEF row
    <2> QED  BY <2>1, <2>2, CopiesTable
  <1>2. ASSUME NEW e \in Emails, BackoffElapses(e) PROVE CopiesInv'
    <2> DEFINE row == [outbox[e] EXCEPT !.ready = TRUE]
    <2>1. row.attempts = outbox[e].attempts /\ outbox[e].status # "SENT"
      BY <1>2 DEF BackoffElapses, ClaimInv, TypeOK, OutboxRow
    <2>2. outbox' = [outbox EXCEPT ![e] = row] /\ UNCHANGED <<worker, delivered, rollbacks>>
      BY <1>2 DEF BackoffElapses, ClaimInv, TypeOK
    <2> HIDE DEF row
    <2> QED  BY <2>1, <2>2, CopiesTable
  <1>3. CASE UNCHANGED vars
    <2>1. UNCHANGED <<outbox, worker, delivered, rollbacks>>
      BY <1>3 DEF vars
    <2>2. \A e \in Emails : Copies(e)' = Copies(e) /\ Tried(e)' = Tried(e)
      BY <2>1 DEF Copies, Orphans, Tried, Ticking
    <2> QED  BY <2>1, <2>2 DEF CopiesInv, Ticking
  <1> QED  BY <1>1, <1>2, <1>3, CopiesBegin, CopiesSend, CopiesCommit, CopiesGiveUp,
              CopiesOrphan DEF Next, Work

(* A mail goes out twice only where the server took one and the tick could not
   know.  Whichever mails hang, wherever they stand in a batch, and however
   the ticks, the timeouts and the sends left over from them fall, every copy
   beyond the one that SENT records has a failed attempt or a lost tick of its
   own (worker.ts:22-26). *)
THEOREM EveryCopyExplained ==
    ASSUME IsFiniteSet(Workers)
    PROVE  Spec => []CopiesExplained
  <1>1. ClaimInv /\ CopiesInv => CopiesExplained
    <2> SUFFICES ASSUME ClaimInv, CopiesInv, NEW e \in Emails
                 PROVE  Explained(delivered[e], Seen(e), rollbacks, Seen(e).status = "SENT")
      BY DEF CopiesExplained, Explained
    <2>1. delivered[e] <= Copies(e) /\ Copies(e) \in Nat /\ delivered[e] \in Nat
             /\ rollbacks \in Nat /\ outbox[e].attempts \in Nat
      BY CopiesType
    <2>2. CASE e \in Unclaimed
      <3>1. Seen(e) = outbox[e] /\ ~Tried(e)
        BY <2>2 DEF Seen, Unclaimed, Tried
      <3>2. Explained(Copies(e), outbox[e], rollbacks, outbox[e].status = "SENT" \/ Tried(e))
        BY DEF CopiesInv
      <3> QED  BY <2>1, <3>1, <3>2 DEF Explained
    <2>3. CASE e \notin Unclaimed
      <3> DEFINE w == CHOOSE v \in Workers : Ticking(v) /\ e \in DOMAIN worker[v].rows
      <3>1. \E v \in Workers : Ticking(v) /\ e \in DOMAIN worker[v].rows
        BY <2>3 DEF Unclaimed
      <3>2. w \in Workers /\ Ticking(w) /\ e \in DOMAIN worker[w].rows
        BY <3>1
      <3>3. Seen(e) = worker[w].rows[e]
        BY <2>3 DEF Seen
      <3> HIDE DEF w
      <3>4. Explained(Copies(e), worker[w].rows[e], rollbacks, worker[w].rows[e].status = "SENT")
        BY <3>2 DEF CopiesInv
      <3>5. worker[w].rows[e].attempts \in Nat
        BY <3>2, TickShape DEF ClaimInv, TypeOK, Ticking, OutboxRow, Attempts
      <3> QED  BY <2>1, <3>3, <3>4, <3>5 DEF Explained
    <2> QED  BY <2>2, <2>3
  <1>2. Init => CopiesInv
    BY CopiesInit
  <1>3. ClaimInv /\ CopiesInv /\ [Next]_vars => CopiesInv'
    BY CopiesNext
  <1> QED  BY <1>1, <1>2, <1>3, ClaimInvariant, PTL DEF Spec
=============================================================================
