# Keel Foundation: TLA+ specifications

Keel Foundation is a Next.js application for IT service management: clients submit
*demands*, which are assessed and converted into *changes*; changes go through an
approval engine; *incidents* carry an SLA clock; every step notifies people, some by
e-mail through an outbox.  All state is in one PostgreSQL database reached through
Prisma.  Every request runs its service function in one interactive transaction at the
default isolation level, READ COMMITTED (`src/server/db/tx.ts`).  People reach it with a
browser: a session cookie, a middleware and page guards, and React drawers that call the
API and show what it answers.

Three things make the code hard to get right and hard to test:

* a service function *reads* a row, decides on it, and *writes by id*.  Under READ
  COMMITTED nothing stops another request from committing in between, and the write
  does not look again.  The tests call the services one after the other;
* two background loops (the overdue sweep and the outbox worker) run in every process,
  next to the requests and next to their copies in the other replicas (the production
  chart runs two), and may fail or die half way;
* everything that `await`s goes on with what it knew before: a route that looked up its
  session, a drawer whose record other people change, a fetch whose answer is lost.

The modules below model these things for every component that has them, state what
survives any interleaving and what only holds when requests do not overlap, and prove both
kinds, for any number of users, records, requests and processes.

## 1. Inventory

| Component | State | Operations | Interacts with | What is hard | What makes it correct |
|---|---|---|---|---|---|
| change lifecycle (`modules/change`) | `Change`, its PIR row | create, create from demand, edit, advance, schedule, rollback, record PIR, submit for approval | approvals (opens, cancels, reads), demands (conversion), notify | writes by id on a stale read; three handlers can enter SCHEDULED | follows the documented stages; nothing NORMAL past approval ungranted, nothing closed unreviewed; the approval policy fits the risk; terminal stays terminal |
| approval engine (`modules/approval`) | `ApprovalRequest`, `ApprovalStep`, `ApprovalDecision` | open, cancel, get state, record decision | changes, approve route | two approvers on one step, cancel against decide, several requests per change | one decision per step, in order, by someone entitled; the request's status is what its steps add up to |
| approve route (`app/api/changes/[id]/approve/[tier]`) | none | read context, authorise, decide, send back | both | two reads outside the transaction | a rejection sends the change back, and only from APPROVAL |
| demand service (`modules/demand`) | `Demand`, `WorthAssessment` | create, triage, three scores, decide, reject, convert | changes, notify | two rows written by racing calls; an implicit transition after any score | status and decision agree; a decided demand is fully assessed; separation of duties; converted once |
| incident service (`modules/incident`) | `Incident` | create, categorise, assign, transition, reopen | sweep, notify, comments | stale writes; stamps that must follow the status | transitions, stamps, SLA date and priority consistent |
| overdue sweep (`incident/sweep.ts`) | `overdue`, `overdueNotifiedAt` | clear, find, flag one by one | incident service | sweeps that overlap, failure half way, the flag against re-categorisation | told once per sweep under way, told eventually, flag honest |
| outbox worker (`notify/worker.ts`) | `EmailOutbox`, advisory lock | tick: lock, claim, send, record | emit, SMTP | the mail leaves before the commit; time-out and rollback; retries | sent means taken; copies explained; every mail settles |
| notification emit and read (`notify/emit.ts`, `read.ts`) | `Notification`, `EmailOutbox` | emit, list, mark read | every service | atomic with the domain write | nothing is announced twice or for a write that was undone |
| sessions and login (`server/auth`) | `Session`, `User`, the cookie | login, look-up, touch, list, revoke, logout | every request | revocation, expiry and deactivation against running requests, sliding expiry | an ended session never comes back, and its requests die out; a revocation is recorded once |
| guest invites (`auth/invites.ts`) | `GuestInvite`, `User` | create, look up, redeem | sessions | two redemptions at once, same e-mail on two invites, expiry in between, a failure after the commit | one account per used invite, for the right client |
| rate limiter (`lib/api/rate-limit.ts`) | in-memory buckets | hit | login, redeem | window seams, two keys per log-in, loss at a crash | less than twice `max` in any window |
| reference numbers (`ids/ref.ts`) | `Counter` | next | the three creates, the conversion | two creates at once, rollback after the number was taken | no gap and no double; one change per demand |
| entrance (`middleware.ts`, page guards, `LoginForm`, `RedeemForm`, `LogoutButton`) | the cookie, the page, the form | visit, redirect, sign in, redeem, sign out | sessions, invites | middleware and pages judge by different things; answers lost | every visit comes to rest, every form is answered |
| record drawers (`ChangeDrawer`, `IncidentDrawer`, `DemandDrawer`, `ApprovalPanel`, `OverrideDialog`, `LifecycleStepper`) | React state: record, thread, busy, alerts, dialogs, unsaved input | load, every write, comment, decide with override, close | the services over HTTP | stale screens, overlapping calls, lost answers, overtaken refetches | acts on what was on screen; failures are shown; nothing stays busy; comments are not doubled unwarned |
| policy (`server/policy`) | none | authorise, scope, serialise | every service | separation of duties | guards of the actions |
| audit, comments | append-only tables | insert, list | every service | none of their own | written in the transaction they record |
| request wrapper, transactions | none | run, commit, abort | every route | READ COMMITTED | all or nothing |
| notification bell and list | polled counts, optimistic read marks | poll, mark read | notify | a poll overtaken by a mark | comes to agree with the server |
| registers, overview, portal pages, gallery | filters, sort order | list, filter, submit | the services | little: one request each | |
| bootstrap, health, metrics; schema; deployment | none, or generated | | | | |

`PROJECT.json` lists the same components with their status, and under `hazards` the places
where the code can go wrong in a way its tests would hardly reach.

## 2. Modules

| Module | Models |
|---|---|
| `ChangeStages` | the change state machine: transitions, stage gates, field locks (`change/state.ts` and the tables at the top of `change/service.ts`) |
| `Approvals` | the pure part of the approval engine: policies, steps, the current step, the status of a request |
| `ApprovalContract` | **abstract**: what the approval engine promises (reissue a request, decide a step once and in order), with no handlers |
| `ChangeLifecycle` | **abstract**: the documented lifecycle of a change, one atomic step per move |
| `ChangeApproval` | changes, approvals and the approve route, statement by statement, under concurrent handlers |
| `ChangeApprovalProofs` | its theorems: types, the engine and its contract, grants |
| `ChangeReviewProofs` | on top of them: closed changes were reviewed |
| `ChangeSerialProofs` | on top of those: the serial system, and that it implements `ChangeLifecycle` |
| `Demand`, `DemandProofs` | the demand service statement by statement, and its theorems |
| `Incident`, `IncidentProofs` | the incident service and the overdue sweep, and their theorems |
| `Outbox`, `OutboxProofs` | the outbox worker, its transactions and the transport, and their theorems |
| `Access` | limiter, login, invites, sessions, logout and revocation, await by await |
| `Intake` | the reference counter in the creates and in the conversion of a demand |
| `Entrance` | one browser: middleware, page guards, the sign-in and invite forms, logout |
| `Front`, `FrontProofs` | composes `Access`, `Intake` and `Entrance`; theorems of the composition |
| `Drawer` | what the three drawers share: React state, fetches, comments |
| `ChangeDrawer`, `IncidentDrawer`, `DemandDrawer` | the controls of each drawer and the answers its routes give |
| `Drawers`, `DrawersProofs` | composes them: a viewer, the server, other users, a network that loses answers; theorems of the composition |
| `MC*` | small instances for TLC |

`ChangeApproval` EXTENDS `Approvals`, which EXTENDS `ChangeStages`.  It instantiates
`ApprovalContract` and `ChangeLifecycle` and states that it implements them
(`ImplementsContract`, `ImplementsLifecycle`).  `Front` EXTENDS `Intake` and `Entrance`, which
both EXTEND `Access`; `Drawers` EXTENDS the three drawers, which EXTEND `Drawer`.

### How code becomes actions

* **A handler is a record** in `handler`: the operation, and those columns of the rows it
  read that it uses again.  A read with its guards is one action (`AdvanceRead`,
  `AdvanceGate`, `DecideWorth`, ...).  A guard that throws is an action that is not
  enabled: the request ends having written nothing.
* **The writes and the commit are one action** (`AdvanceWrite`, ...).  The first UPDATE
  locks the row until the commit and nobody sees the writes before it, so writers of one
  row serialise at the commit.  A read made after the first write belongs to that action
  where the lock keeps its answer stable (`maybeCompleteWorth` reads the worth row it has
  just written).  A conditional UPDATE (`recordDecision`'s `status: PENDING`) looks again,
  and so does the action.
* **Prisma's `include` is a second SELECT** and a separate action where what it returns may
  be newer than the first (`DecideWorth`, `ConvertWorth`, and the two queries of
  `changeApprovalContext`).
* **`Abort`** rolls a transaction back at any point: a failed statement, a deadlock,
  Prisma's time limit, a crash.
* **Requests are inputs**: `Begin` lets any handler begin any operation its actor may ask
  for.  Hats and ownership are part of the guard; text is the set of fields that are
  filled; wording, audit payloads and serialisation are left out.
* **Time** is what the code compares: a change's window is none, future or past; an
  incident's age is the number of SLA offsets (4, 24, 72, 168 hours) that have passed; an
  outbox row is due or backing off; a closing stamp is recent or beyond the 14 days.

With one handler the same module is the serial system.  Prisma limits an interactive
transaction to five seconds, so the counterexamples with two handlers need requests that
really overlap; two browser tabs or a repeated click are enough.

### ChangeApproval

`change` holds status, type, owner, risk, the filled texts, the demand link, the window
and whether the review is complete.  `request` maps a change and a creation stamp to a
request with its steps (`IsLatest`: the highest stamp, as `orderBy createdAt desc`
says; the stamp is taken before the commit, so two submissions may commit out of order).
`decision` maps each step to the *sequence* of decision rows it has, so that a second row is
a state and not an error.  `notices` counts the announcements of SCHEDULED.

### Demand

`demand` holds status and submitter, `worth` the filled answers, the decision, who made it
and the override flag, `change` the demands some change names.  The three scores are one
pair of actions over the field they fill.  `ConvertWrite` includes
`createChangeFromDemand`: its second look-up, and the unique index that stops the loser.

### Incident

One row per incident with its grade, priority, due mark, stamps and the two overdue
columns; `told` counts notices since the last (re)opening.  `sweeper` has a place for each
sweep that may be under way at once, whoever started it: `setInterval` fires whether or not
the last sweep has ended, and each replica has an interval of its own.  A sweep takes the
clock, clears in one statement, finds in another, and flags one incident per transaction.

### Outbox

A tick sees its own writes in `rows` and publishes them at `Commit`.  `delivered` counts
what the server took, which no rollback undoes.  A send either is taken, or throws, or
both (the answer is lost).  A tick that is rolled back frees the lock; in a process that
lives the send under way goes on (`Orphan`).  `Hanging` are mails whose send outlives the
30 s time-out, which rolls their tick back.  Where mails of the tick were sent before the
hanging one, the rollback loses the record of them, and counts in `rollbacks` like any other;
in the code nothing bounds how often that happens.  The transport is external.

### Access, Intake, Entrance, Front

`request` maps a slot to a handler: its operation, where it stands (the step after the
`await` it waits for) and what it has read.  A step runs to the next `await`; a transaction
shows its writes in its last step and holds its row locks until then (the invite that a
redemption claims, the counter that a create has raised).  `Fails` is any throw, `Crash` a
restart of the process: transactions roll back and the limiter's buckets are gone, the
database stays.  `Tick` moves the clock, by which sessions and invites expire and windows
close.  `Deactivate` is the operator who clears `User.active`; no route of the code does.
`session` distinguishes rows that never existed, exist, and are deleted, so that "never
again" can be said.

`Intake` adds `counter` and `records`.  `TakesNumber` is enabled when no other
transaction has taken a number of the prefix, because INSERT ... ON CONFLICT waits for the
row lock.  The loser of two conversions reaches the unique index and rolls back.

`Entrance` follows one tab: its page, its cookie (a session, or the token of one that
ended), and the slot whose answer a form awaits.  A page that redirects is one `Hop`; the
middleware asks for a cookie, the pages for an actor.

A behaviour starts in one *scene*: the accounts, sessions and invites that exist and what
is asked.  Everything that can interact is in one scene together; scenes keep apart what
shares no state.

### Drawers

`ui` is the state of the mounted component, `call` its async functions (the load and two
more; the second slot is used only while the first is), `row` and `stored` what the server
has.  A function is *asked* until the server served it, *answered* until the browser runs
what follows the `await`, and *reading* while its refetch is out.  GETs of one refetch are
served one by one.  `Lose` breaks a connection before or after the server acted; what was
not served yet becomes an orphan that may still be served, after the drawer was closed too.
What a route answers is abstracted to the status it leads to (`AdvanceServed`,
`TriageServed`, ...): a write of changes, incidents and demands has a revision, by which
"shows its own write" is said.

The server's transaction takes two steps here, too: `Find` reads the record into the request
(`op.read`), `Served` decides on what was read and writes over what is there.  Another user's
transaction does the same (`TheyRead`, `TheyWrite`), and so does an orphan (`FindLate`,
`ServedLate`).  The outcome operators say column by column what comes from the read and what
stays as it is: `advanceChange` writes the stage after the one it read; `assignIncident`
writes back the status it read; `recordDecision` looks again.  `overtaken` is set when a
write lands on another row than its transaction had read.  From then on the gate items and
the stage of a change need not fit (`InOrder`), and the model lets what the next gate finds be
either.

History variables (`overtaken`, `landed`, `warned`, `last`, `overlapped`) never decide what
happens; properties read them.

## 3. Runs

| Run | Instance | Shows |
|---|---|---|
| `change_serial` | 1 change, 2 users, 1 handler, every creation path, 4 edits | without overlap the system implements `ChangeLifecycle`; policy fits risk; scheduling is announced once; a resolved request does not change |
| `approval_race` | 2 handlers, an EMERGENCY change (the only type that can move while its request is pending), both risks; states past the first scheduling are not expanded | the engine keeps its contract, including the owner's override on the two-step policy |
| `change_race` | 2 handlers, the whole lifecycle, one-step policy | no NORMAL change past approval ungranted, none closed unreviewed |
| `demand` | 1 demand, 2 handlers, an approver of each kind and a guest | at any overlap: assessment complete, status and decision agree, separation of duties; until calls overlap: the transition table |
| `incident` | 1 incident, 2 handlers, 2 sweeps at once of which one may fail, grades for the first two SLA marks | at any overlap: told at most once per sweep under way; until requests overlap: transitions, stamps, frozen due date |
| `sweep` | 2 incidents, 1 handler, fair sweeps one at a time, one failure | overdue is told, finished is cleared, for each of two incidents |
| `outbox` | 3 mails, the second of which hangs, 2 workers, batches of 2, 1 rollback | extra copies are explained; unless a send hangs every mail settles |
| `drawers` | 12 cases: a change at 5 stages, an incident at 3, a demand at 3, opened by owner, submitter, developer, approver or reviewer, for demands also by a developer who decides nothing; 2 requests, 1 transaction of others | a click that moves a change was decided on the stage it was made on, and takes the change out of that stage until a write overtakes; a comment is stored twice only after a warning; one write at a time in incidents and demands; dialogs hold their decision; nothing stays busy; until calls overlap failures are on screen and own writes are read |
| `front` | 7 scenes, 2 requests, 3 sessions, 2 invites, windows of 2 ticks, 2 hits, clock to 3, 2 numbers per prefix | what ended stays ended and goes quiet; revoked once; one account per used invite; log-ins bounded across the seam; references without gap or double; every visit and form comes to rest |
| `find_*` | | the disagreements of section 4 |

`MCDemand` and `MCIncident` add a history variable, `overlapped`: whether two calls were
ever in flight at once.  A property named `...Alone` is claimed while it is false; its
states are those of a system with one handler.  `Drawer` has the same variable, over the calls
of one viewer.  The change runs are too large for that, and use `Handlers = {h1}` for the
serial system.

**Bounds, and why they are enough.**  Requests touch one row by id, so one change, demand or
incident shows every race on it; two incidents are used where a loop goes over several
(`sweep`), three mails where a batch leaves one out (`outbox`).  Two handlers give every
interleaving of one stale read with committed writes, which is the shape of every race in
this code; the stale handler can be overtaken by any number of complete requests. `MaxStamp
= 2` requests per change is the least at which "latest" and "stale" differ. `MaxAge = 2` in
`incident` lets a grade move the due date past now and back; `sweep` needs one mark and a
grade that puts the due date beyond it.  Attempts are bounded by the code, at six.
`MaxFailures` and `MaxRollbacks` bound accidents: a sweep that always fails, or a tick that
is always rolled back, never makes progress.  The proofs hold for every value of these
bounds.  The hanging mail of `outbox` is the second, so that it lies behind another one in a
batch and, when that one has settled, at its head.  The third mail matters to the copies
only: the liveness property is claimed while nothing hangs (`NoneHangs`), when the hanging
mail is not there and two mails share a batch of two; that a full batch does not starve the
others is not shown. Two sweeps at once in `incident` are the least at which an incident is
told of twice.  `sweep` has them one at a time, for the sake of its size with two incidents;
with `Incidents = {i1}` and two sweeps at once both its properties hold as well.

In `drawers` two requests are what it takes to overlap, to retry once and to act on a stale
screen; a transaction of others makes the screen stale before either, and its read and write
may lie before, between and after those of a request.  The slots hold a load and two calls.
The run has 649,938 distinct states and takes about three minutes.  In `front` two requests
at once show each race on a row; the revoker, the revoked and a caller who does neither need
three sessions.  A session and an invite live for one tick, so both expire within the clock;
a window of two ticks has a seam inside it, and two hits are the least at which the bound
2*max - 1 differs from max.  One account is deactivated only in scenes that have it signed
in.

**Symmetry** is used for handlers and, in `incident`, for sweeps, in runs without liveness.

**Deadlock** is checked except in `outbox`, `drawers`, `front` and `find_hanging_mail`: a
system in which every mail has settled, every bounded request was made, or the bounded clock
has run out has nothing left to do.

**Fairness.**  Safety runs assume none.  `Incident!FairSpec` is weak fairness of starting a
sweep and of each sweep going on: `setInterval` starts one for as long as the process lives,
and a statement that was sent returns.  `Outbox!FairSpec` is the same for each worker, plus
a clock that runs (`BackoffElapses`).  Nobody makes users act, so requests have no fairness
until they are made: in `Front` a handler that runs ends (its awaits return, or throw at the
latest at a time-out), an answer arrives or its connection breaks, and the browser follows
redirects; in `Drawers` (`Answers`) the server and the network answer, with an answer or an
error, and the browser runs what waits.  No click, visit, tick or crash is fair.

## 4. Findings

Three runs have `expect: violation`; each checks what the repository says of itself.

* `find_terminal`: `advanceChange`, `rollbackChange` and `scheduleChange` write the status
  by id, so a request that read the row before another one finished the change takes it out
  of CLOSED or ROLLED_BACK.
* `find_stranded`: the approve route reads the change and its approval in two statements.
  If the submission commits in between, a rejection is recorded and the change stays at
  APPROVAL with a rejected request; no route leaves that state.
* `find_hanging_mail`: a send that outlives the 30 s transaction time-out loses its failed
  attempt with the rollback.  The mail is tried for ever and never FAILED; what is behind
  it in the batch is not sent, and what was sent before it in the batch is sent again each
  time.

The first is one of a family.  Wherever a property is called `...Alone`, or is checked by
`change_serial` only, two overlapping requests break it, and nothing else does: section 5
proves each of them for a system whose requests do not overlap, `TerminalIsFinal` and
`NotStranded` of the first two findings among them.  (For a counterexample replace `Handlers
= {h1}` by two handlers, or drop `~overlapped`.)  An edit moves the risk under a live
request, a resubmission cancels a request that was just resolved, scheduling is announced
twice, a demand leaves CONVERTED or REJECTED, an assignment restarts a resolved incident
with its stamps, a categorisation moves the due date after work started.  A click in a
drawer can take a change out of a stage its viewer never saw, if another commit falls
between the read and the write (`overtaken`).  A condition on what was read in the `where`
of the update, as `recordDecision` and `redeemInvite` have, removes each of these.

Remarks that no run states:

* An overdue incident can be told of twice: the update that flags it does not ask for
  `overdueNotifiedAt IS NULL` again, and nothing keeps two sweeps apart, of one process or of
  two replicas.  Both find it, both notify everybody.  The header of the sweep says "exactly
  once per incident" (`sweep.ts:15-17`); what the code gives is once per sweep under way, and
  `ToldOncePerSweep` claims no more.  (With the bound 1 in place of `Cardinality(Sweepers)`,
  `incident` finds the second notice.)
* POST /reopen asks the transition table for a move to IN_PROGRESS, which ASSIGNED has too:
  it starts an incident that was never resolved and forgets that the overdue notice went
  out, although `incident/service.ts:589` says "Legal only from RESOLVED or CLOSED".
* A re-categorisation can move the due date past now; the sweep then clears `overdue`, and
  because `overdueNotifiedAt` stays set it never flags the incident again when the new
  date passes.  The register filters by that flag, "kept honest here" (`sweep.ts:11`).
* POST /advance takes an approved change to SCHEDULED with no window, although
  `prisma/schema.prisma:403` calls `windowStart` required for it; POST /schedule asks for it.
* A rejection that read APPROVAL before an EMERGENCY change was scheduled drags the
  scheduled change back to ASSESSING.
* The outbox's advisory lock is freed by the time-out while the send goes on, so two
  senders can be at work (`Orphan` in `Outbox`).
* `rejectDemand` leaves `isSingleApproverOverride` as it was, so the flag can disagree with
  `decidedById` on a declined demand; `SegregationKept` is about approvals.
* `editChange` tells the caller to withdraw the approval request first; no route withdraws
  one.
* `plans/specs/03-change-management.md` has `cancelRequest` called when an edit takes the
  change back below approval; only `submitForApproval` calls it, and when requests do not
  overlap it never finds a PENDING request.
* `ChangeType` has STANDARD; the create schema accepts NORMAL and EMERGENCY only.
* A demand that was parked is decided again outside the transition table
  (`APPROVED -> REJECTED`, and `APPROVED -> APPROVED`): `TransitionStep` in `Demand` says so.
* Of two overlapping conversions the loser's look-up in its `catch` runs in a transaction
  PostgreSQL has already failed, so it gets an error where a repeat was to be a no-op
  (the comment at `change/service.ts:97-100` knows of the abort and keeps the look-up as a
  "backstop").

Of the sessions and the entrance:

* The expiry of a session row slides, the cookie keeps the expiry it was set with
  (`api/auth/login/route.ts`), so a browser is signed out 30 days after the log-in however
  active it is; `plans/specs/00-foundation.md:72` and `:124` call the 30-day expiry sliding.
* `createSession` follows the redemption's commit in a statement of its own.  If it fails
  the invite is used and nobody is signed in; the guest has an account and a password, and
  a retry answers 410.
* The limiter trims and lower-cases the e-mail, the look-up of the account takes it as
  typed.
* A logout whose request fails goes to /login, which sends a session that still lives
  to its home, /overview or /portal.
* The limiter's buckets are per process and die with it; `AttemptsBounded` counts from one
  start to the next, of one process.

Of the drawers:

* A stage button is not disabled while its request runs; a double click sends two, and the
  second is refused as a conflict, unless both have read the change before either wrote: then
  both succeed.  (The request names the stage it was clicked on and the server compares it with
  the stage it has read; that is what `ChangeMovesFromSeen` says, and no more is true.)
* The note "This change moved since you opened it" is removed by the effect of the refetch
  that follows it (`ChangeDrawer.tsx:257-258`), so it is hardly seen.
* A write that succeeded and whose refetch failed is reported as failed; a comment in that
  state is posted again by a retry.  Text typed while a comment is being posted is cleared
  with it.
* Refetches that overlap may show an older record last.
* `DemandDrawer` renders the message of a failed write inside the decision panel (`:571`),
  which only those who decide have, and everyone else once there is something to convert.  A
  developer whose triage or cost of delay fails sees nothing; the drawer's own comment at
  `:296-297` warns of a dialog that "looks like it did nothing".  `FailureShownAlone` leaves
  that viewer out, and says so.  (Without `canDecide` in it, `drawers` finds her.)  The other
  two drawers render theirs for everyone.
* The override dialog of a change stays open after a decision, if the next step is hers to
  decide as well, and after one that failed: the message is under it until she closes it.  A
  demand's dialog closes first.
* The submitter of a demand gets the override dialog before any request is sent, so the 409
  that opens it (`DemandDrawer.tsx:288-294`) does not come in answer to her own clicks.
* A conversion leaves the drawer busy until the page is left.

## 5. Proofs

Proved by TLAPS for every value of the constants that the named assumptions allow: sets of
changes, users, handlers, processes, sessions and hats of any size, clocks, batches and
clicks of any bound.  The assumptions say what a constant is (`HatsAssumption`,
`BatchAssumption`, `AgesAssumption`, ...) or which states a behaviour may start in
(`TablesAssumption` and `AsksAssumption` for the scenes of `Front`, `CasesAssumption` for the
records a drawer is opened on).  Two more are premises of the theorems that need them:
`Alone`, where a theorem is about one handler, and a finite set of handlers, sweeps or workers,
where it counts them.

Every module begins with a type invariant, which is not inductive by itself: a write by id
keeps a table a function to rows only if the row that the handler read still exists.  Each
proof carries the corresponding fact about what is under way (`Referenced`, `Known`, `Backed`,
`Claims`).

**`ChangeApprovalProofs`** goes in three layers, each using the one before:

1. `TypeInv = TypeOK /\ Referenced`.  Gives `TypeCorrect`.
2. `EngineInv`: each request and its decision rows are sound (a step has one decision row
   of the right kind or none, later steps wait for earlier ones, and the status of the
   request says what its steps are), and a handler about to record a decision still knows
   what it established: the hat, the override where the owner decides, and that every
   earlier step is approved (`DeciderKnows`).  What it knows of the step's own status may be
   stale; the conditional update asks again, and the proof shows that this one check is
   enough.  Gives `OneDecision`, `Entitled`, `InOrder`, `StatusAndSteps`, and, mapping each
   step to a step or a stutter of the contract, `ContractKept`.
3. `GrantInv`: a NORMAL change past approval, *and any that a handler is about to take
   there*, has a granted request.  A grant is never taken back: a resolved request may
   become CANCELLED, but its steps stay approved.  Gives `GrantedFirst`.

**`ChangeReviewProofs`** adds a fourth, `ReviewInv`.  The gate of the last stage refuses a
pending approval only, so a cancelled or missing one would pass it; `ReviewedFirst` holds
because of two facts that no guard states: a cancelled request is never the latest one, since
the submission that cancels it opens a later one (`CancelledSuperseded`), and neither a
decision row nor a review ever disappears, so what a handler concluded at the gate stays true
until it writes.

**`ChangeSerialProofs`** is the serial system: it assumes `Alone`, that there is at most one
handler, and needs nothing else.  `SerialInv` has two sides.  Of the tables: where a change
stands says how its latest request stands (`RoundFits`), the request follows the policy of the
risk (`PolicyFits`), and SCHEDULED is announced once and never before
it is reached (`NoticeFits`).  Of the handler: all
it read is still so (`Fresh`), which is exactly what overlapping requests destroy.  Each
step has one of five effects on the tables (`SerialEffect`), and the properties are shown
for the effects: `PolicyMatches`, `Announced`, `ResolvedKeptAlone`, `Unstranded`,
`TerminalKeptAlone`, and, as a refinement, `LifecycleImplemented`: the routes and the
engine together are the lifecycle of `plans/specs/03-change-management.md`.  `Unstranded` and
`TerminalKeptAlone` are about the properties that `find_stranded` and `find_terminal`
refute with two handlers.

**`DemandProofs`**: `IInv = Tables /\ Rows /\ Knows`.  `Rows` relates each demand to its
assessment (`Sound`).  `Knows` says what a call in flight may still rely on: one that saw a
status past triage may rely on a complete assessment, because answers are only added, but
not on the status, which may have moved.  That is why the status and the decision must be
written together, and are.  Gives `TypeCorrect`, `Complete`, `DecisionKept` and
`Segregated`.  `TransitionsKeptAlone` is over `MCDemand`: until `overlapped`, one call is in
flight at most (`OneInFlight`) and what it read agrees with the tables (`AllAgree`).

**`IncidentProofs`**: `ToldInv` counts, for each incident, the notices that went out and the
sweeps that have found it and not yet flagged it: together at most the number of sweeps that
may be under way at once, because a sweep finds only what was not notified.  Gives
`ToldPerSweep`.  `AloneInv` has the shape of the demands' and gives `StampsKeptAlone`,
`FrozenKeptAlone` and `TransitionsKeptAlone`, with any number of sweeps running beside the
request.

**`OutboxProofs`**: `ClaimInv` says that two ticks never overlap (the lock), that the rows a
tick has claimed stand still in the table until it commits, and that the retry budget is kept.
Gives `TypeCorrect` and `OneSender`.  `CopiesInv` then accounts for the copies of a mail twice
over: as they would stand if the ticks under way were lost, and as they will if they commit;
a send that goes on without its tick (`Orphans`) is a copy already.  Gives `EveryCopyExplained`,
with any of the mails hanging.  A time-out that loses the record of mails sent before the
hanging one has to count among the lost ticks for it.

**`FrontProofs`** goes in three layers and a browser.  Whatever a step of a handler, the
clock or the operator does to the tables is one of nine `Change`s, each of which keeps
`TablesInv`; what a handler keeps between two awaits is typed and backed by rows that never go
away (`Slots`); whoever has taken a number holds the lock of its counter, and the number is
the next one (`RefsInv`); the browser only shows pages it knows (`Browser`).  Gives
`TypeCorrect`, `RevokedAtMostOnce`, `RedeemedForOne`, `NumberedWithoutGaps` and, from the
changes, `NoSessionComesBack`.  On top of them `AttemptsInv` relates the bucket of an e-mail to
the log-ins it let through: those since the bucket was opened are counted in it together with
the hit that opened it, and those in the window before lie in the window of an earlier bucket,
whose opening hit leaves room for one less than `MaxHits`.  Gives `LogInsBounded`.  (It is also
why a bucket nobody has hit must be one that opens.)

**`DrawersProofs`** first sorts the many controls and answers of the three drawers into the
kinds of `Step`, which say what of the mounted drawer and of its calls a step may touch; the
properties are shown for the kinds.  Nothing runs for a closed drawer (`ClosedInv`).
`DialogFits` gives `DialogHolds`, `WriteInv` gives `OneWrite`.  `ChanceInv` counts the
chances of a comment to be stored: how often it is stored, whether it is being asked for,
and the requests for it that were lost on the way and may yet be served, are together at
most one more than the warnings; with `PostInv` (one comment at a time, a text is new when
it is typed) it gives `StoredTwiceOnlyWarned`.  `AloneInv` (one call under way; a call that
failed left its alert) gives `FailureShown`, with the conditions under which the alert is
rendered; `OwnInv` adds that no request of the viewer is on its way unawaited and that what
a read has brought is up to date, and gives `ReadYourWrites`.  `SeenInv` is claimed until a
write overtakes: a change once seen past its approval is past it still, and a request, with
the row its transaction has read, was made from the stage on screen.  The server compares
that stage with the one it reads.  The first half of `MovesFromTheStageSeen` (decided on the
stage seen) follows for the very write that overtakes, too; the second (out of that stage)
for those that land on the row they had read.  They hold for every set of cases and any
number of clicks and of writes by others.

**Model-checked only** is liveness: `OverdueIsTold`, `FinishedIsCleared`,
`SettlesUnlessHanging`, `BusyClears`, `EndedGoesQuiet` and `TabSettles`.  Fairness and ENABLED
are out of the prover's reach.

The theorems without a run of their own: `TypeCorrect` of incidents and outbox (no run checks
their `TypeOK`), `OneSender`, which is stated for any number of processes, and the invariants
(`...Invariant`) behind the rest.

## 6. Not modelled

The notification bell and list (polling and read marks in the browser) are planned.
Audit rows and comments are inserted in the transaction of the action they record and are
never updated; `Access` counts the one audit row that a race could double
(`session.revoked`), and the drawers count comments.  Recipients and marking as read on the
server are one statement each.  Registers, overview, portal pages and the gallery render
what one request answers, and keep filters; the two portal forms are a POST each.  Reads,
serialisers, templates, metrics and health checks change no state.  Password hashing,
digests and random tokens are pure: a token is the session or invite it names.  Request
validation (`lib/api/schemas`) appears as the sets the inputs are drawn from.  The priority
matrix is a table of nine entries its unit test goes through.  The limiter's sweep of
expired buckets changes no answer: an expired bucket and none are treated alike.
Migrations and deployment are out of scope; the number of processes is a constant.

## 7. Plan

Done: (1) `ChangeStages`, `Approvals`, `ChangeApproval` with the two abstract
specifications and their runs; (2) `Demand`; (3) `Incident` with the sweep; (4) `Outbox`; (5)
`Access`, `Intake` and `Entrance`, composed by `Front`; (6) the drawers; (7) the proofs of
section 5, which cover every safety property that a passing run checks.

Next, extending the model and proving:

8. `Inbox`: the notification bell and list against the server's read marks: polls
   overtaken by marks, and the filter of the list.
9. An abstract outbox (each mail settles once) implemented by `Outbox`.
