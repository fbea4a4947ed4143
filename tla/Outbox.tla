------------------------------- MODULE Outbox -------------------------------
(***************************************************************************)
(* The email outbox and its worker, src/server/modules/notify/worker.ts.   *)
(*                                                                         *)
(* A tick is one transaction: it takes an advisory lock, claims a batch of *)
(* due rows, sends them one after the other and records each outcome.  The *)
(* mail leaves at once; the outcomes show with the commit, and are lost if *)
(* the tick is rolled back, by its 30 s timeout, a failed statement or the *)
(* death of the process.  A rollback frees the lock and the rows, but does *)
(* not stop a send that is under way in a process that lives.              *)
(*                                                                         *)
(* Emails are numbered in the order of createdAt.  The transport is        *)
(* external: it resolves once the server took the mail, or throws, and may *)
(* throw although the server took it.                                      *)
(***************************************************************************)
EXTENDS Naturals, FiniteSets

CONSTANTS Emails,        \* the rows ever enqueued, in order of createdAt
          Hanging,       \* mails whose send outlives the tick's timeout
          Workers,       \* processes that run the worker
          NOTIFY_BATCH,  \* rows claimed per tick
          MaxRollbacks   \* bound on ticks that fail or die, or lose a send to a timeout

ASSUME EmailsAssumption == Emails \subseteq Nat /\ Hanging \subseteq Emails
ASSUME BatchAssumption == NOTIFY_BATCH \in Nat \ {0}
ASSUME RollbackAssumption == MaxRollbacks \in Nat

VARIABLES outbox,     \* table EmailOutbox
          worker,     \* where the tick of each worker is
          delivered,  \* how often the server took each mail
          rollbacks   \* ticks rolled back that a mail may have left in

vars == <<outbox, worker, delivered, rollbacks>>

Attempts == 0..6

\* ready: nextAttemptAt has passed.
OutboxRow == [status : {"ABSENT", "PENDING", "SENT", "FAILED"},
              attempts : Attempts, ready : BOOLEAN]

Idle == [at |-> "idle"]

\* rows: the claimed rows as the tick's own transaction sees them.
Tick == [at : {"tick"}, todo : SUBSET Emails,
         rows : UNION {[S -> OutboxRow] : S \in SUBSET Emails}]

\* The tick was rolled back, its send is still under way.
Orphan == [at : {"orphan"}, mail : Emails]

-----------------------------------------------------------------------------
Ticking(w) == worker[w].at = "tick"

LockFree == \A w \in Workers : ~Ticking(w)

\* SKIP LOCKED: the rows no other tick has claimed.
Unclaimed == {e \in Emails : \A w \in Workers : Ticking(w) => e \notin DOMAIN worker[w].rows}

Due == {e \in Unclaimed : outbox[e].status = "PENDING" /\ outbox[e].ready}

\* ORDER BY createdAt LIMIT NOTIFY_BATCH
Batch(S) == {e \in S : Cardinality({f \in S : f < e}) < NOTIFY_BATCH}

IsNext(w, e) == e \in worker[w].todo /\ \A f \in worker[w].todo : e <= f

\* Mutant: the outcome of a send that succeeded is not recorded.
SentForgotten(row) == [row EXCEPT !.attempts = @]

Sent(row) == [row EXCEPT !.status = "SENT"]

\* Mutant: the row is never given up.
RetriedForever(row) == [row EXCEPT !.ready = FALSE]

\* The catch: another attempt after the backoff, or FAILED.
Failed(row) ==
    IF row.attempts + 1 >= 6
    THEN [row EXCEPT !.status = "FAILED", !.attempts = @ + 1]
    ELSE [row EXCEPT !.attempts = @ + 1, !.ready = FALSE]

SetWorker(w, to) == worker' = [worker EXCEPT ![w] = to]

Deliver(e, taken) == delivered' = IF taken THEN [delivered EXCEPT ![e] = @ + 1] ELSE delivered

-----------------------------------------------------------------------------
Init == /\ outbox = [e \in Emails |-> [status |-> "ABSENT", attempts |-> 0, ready |-> FALSE]]
        /\ worker = [w \in Workers |-> Idle]
        /\ delivered = [e \in Emails |-> 0]
        /\ rollbacks = 0

\* emitNotification inserts the row in the transaction of the domain write:
\* it shows when that commits, which need not be in the order of createdAt.
Enqueue(e) ==
    /\ outbox[e].status = "ABSENT"
    /\ outbox' = [outbox EXCEPT ![e] = [status |-> "PENDING", attempts |-> 0, ready |-> TRUE]]
    /\ UNCHANGED <<worker, delivered, rollbacks>>

\* nextAttemptAt passes.
BackoffElapses(e) ==
    /\ outbox[e].status = "PENDING" /\ ~outbox[e].ready
    /\ outbox' = [outbox EXCEPT ![e].ready = TRUE]
    /\ UNCHANGED <<worker, delivered, rollbacks>>

\* A tick that gets no lock or finds nothing due changes nothing.
Begin(w) ==
    /\ worker[w] = Idle
    /\ LockFree
    /\ Due # {}
    /\ SetWorker(w, [at |-> "tick", todo |-> Batch(Due),
                     rows |-> [e \in Batch(Due) |-> outbox[e]]])
    /\ UNCHANGED <<outbox, delivered, rollbacks>>

\* A template that does not render throws as well.
SendNext(w) ==
    /\ Ticking(w)
    /\ \E e \in worker[w].todo \ Hanging, taken \in BOOLEAN, throws \in BOOLEAN :
          /\ IsNext(w, e)
          /\ taken \/ throws
          /\ Deliver(e, taken)
          /\ SetWorker(w, [at |-> "tick", todo |-> worker[w].todo \ {e},
                           rows |-> [worker[w].rows EXCEPT
                                       ![e] = IF throws THEN Failed(@) ELSE Sent(@)]])
    /\ UNCHANGED <<outbox, rollbacks>>

Commit(w) ==
    /\ Ticking(w)
    /\ worker[w].todo = {}
    /\ outbox' = [e \in Emails |-> IF e \in DOMAIN worker[w].rows
                                   THEN worker[w].rows[e] ELSE outbox[e]]
    /\ SetWorker(w, Idle)
    /\ UNCHANGED <<delivered, rollbacks>>

\* The transaction is gone; the process is too, or it is still sending.
GiveUpTick(w) ==
    \/ SetWorker(w, Idle)
    \/ \E e \in Emails : IsNext(w, e) /\ SetWorker(w, [at |-> "orphan", mail |-> e])

Rollback(w) ==
    /\ Ticking(w)
    /\ rollbacks < MaxRollbacks
    /\ GiveUpTick(w)
    /\ rollbacks' = rollbacks + 1
    /\ UNCHANGED <<outbox, delivered>>

\* The outcome of a send is lost with the tick.
SentBefore(w) == worker[w].todo # DOMAIN worker[w].rows

\* The 30 s timeout during a send that hangs.
Timeout(w) ==
    /\ Ticking(w)
    /\ \E e \in Hanging : IsNext(w, e)
    /\ GiveUpTick(w)
    /\ SentBefore(w) => rollbacks < MaxRollbacks
    /\ rollbacks' = IF SentBefore(w) THEN rollbacks + 1 ELSE rollbacks
    /\ UNCHANGED <<outbox, delivered>>

\* The update after it throws, and so does the one in the catch.
OrphanEnds(w) ==
    /\ worker[w].at = "orphan"
    /\ \E taken \in BOOLEAN : /\ taken => worker[w].mail \notin Hanging
                              /\ Deliver(worker[w].mail, taken)
    /\ SetWorker(w, Idle)
    /\ UNCHANGED <<outbox, rollbacks>>

Work(w) == Begin(w) \/ SendNext(w) \/ Commit(w) \/ Timeout(w) \/ OrphanEnds(w)

Next ==
    \/ \E e \in Emails : Enqueue(e) \/ BackoffElapses(e)
    \/ \E w \in Workers : Work(w) \/ Rollback(w)

Spec == Init /\ [][Next]_vars

\* setInterval ticks while the process lives, a send returns or times out, and
\* the clock runs.
FairSpec == /\ Spec
            /\ \A w \in Workers : WF_vars(Work(w))
            /\ \A e \in Emails : WF_vars(BackoffElapses(e))

-----------------------------------------------------------------------------
TypeOK ==
    /\ outbox \in [Emails -> OutboxRow]
    /\ worker \in [Workers -> {Idle} \cup Tick \cup Orphan]
    /\ delivered \in [Emails -> Nat]
    /\ rollbacks \in Nat

\* The row as the tick that claimed it sees it.
Seen(e) == IF e \in Unclaimed THEN outbox[e]
           ELSE worker[CHOOSE w \in Workers : Ticking(w) /\ e \in DOMAIN worker[w].rows].rows[e]

\* A mail goes out twice only where the server took one and the tick could
\* not know: each extra copy has a failed attempt or a rolled-back tick.
CopiesExplained ==
    \A e \in Emails :
        delivered[e] <= Seen(e).attempts + rollbacks + IF Seen(e).status = "SENT" THEN 1 ELSE 0

\* Every mail is sent or given up (worker.ts:16-17).
EveryMailSettles ==
    \A e \in Emails : outbox[e].status = "PENDING" ~> outbox[e].status \in {"SENT", "FAILED"}

NoneHangs == \A e \in Hanging : outbox[e].status = "ABSENT"

\* As long as every send returns before the timeout, every mail is sent or
\* given up, whatever fails and however the ticks of two workers fall.
SettlesUnlessHanging == []NoneHangs => EveryMailSettles

=============================================================================
