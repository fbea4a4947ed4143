-------------------------------- MODULE Access --------------------------------
(***************************************************************************)
(* Who may talk to the server: the limiter of the two public routes, login *)
(* and the redemption of guest invites, sessions with their sliding        *)
(* expiry, logout and revocation, src/server/auth and the routes over it.  *)
(*                                                                         *)
(* A request occupies a slot.  Its handler runs from one await to the next *)
(* without interruption, so each await is a step of its own; a transaction *)
(* makes its writes visible in its last step, and the rows it has written  *)
(* until then are locked.  A handler may fail at any await, and the server *)
(* may crash: its transactions are rolled back, its limiter is forgotten,  *)
(* the database stays.                                                     *)
(***************************************************************************)
EXTENDS Naturals, FiniteSets, Sequences

CONSTANTS Emails,      \* of the people who have an account or may get one
          Clients,     \* client organisations
          Sessions,    \* session rows, each with the token its cookie carries
          Invites,     \* invite rows, each with the token in its link
          Addresses,   \* network addresses of callers
          NoOne,       \* none of the above
          Requests,    \* slots: a bound on what the server does at once
          SessionAge,  \* THIRTY_DAYS_MS, in ticks of the model's clock
          InviteAge,   \* SEVEN_DAYS_MS
          Window,      \* windowMs of the limiter
          MaxHits,     \* max of the limiter
          MaxTime,     \* bound on the clock
          Scenes       \* the data a behaviour starts with, what callers and the
                       \* forms of a browser ask, and bounds for the rest

ASSUME AgesAssumption ==
    /\ SessionAge \in Nat /\ InviteAge \in Nat
    /\ Window \in Nat \ {0} /\ MaxHits \in Nat \ {0} /\ MaxTime \in Nat

ASSUME NoOneAssumption ==
    NoOne \notin Emails \cup Clients \cup Sessions \cup Invites \cup Addresses \cup Requests

VARIABLES scene,     \* the element of Scenes this behaviour is about
          clock,     \* new Date()
          account,   \* User, by e-mail
          session,   \* Session
          invite,    \* GuestInvite
          bucket,    \* the limiter's buckets
          request,   \* the handlers
          revoked,   \* audit rows session.revoked of each session
          admitted   \* when log-ins were let through for each e-mail, since the
                     \* server was started

limiter == <<bucket, admitted>>
accessVars == <<scene, clock, account, session, invite, limiter, request, revoked>>

-----------------------------------------------------------------------------
NoAccount == [kind |-> "none", client |-> NoOne, hats |-> {}, active |-> FALSE]

Account(kind, client, hats) ==
    [kind |-> kind, client |-> client, hats |-> hats, active |-> TRUE]

Unused == [at |-> "unused"]
Gone   == [at |-> "gone"]
SessionOf(user, expires) == [at |-> "row", user |-> user, expires |-> expires]

Invite(email, client, expires) ==
    [at |-> "open", email |-> email, client |-> client, expires |-> expires]

Hat == {"DEVELOPER", "REVIEWER", "BUSINESS_APPROVER", "TECHNICAL_APPROVER"}

AccountRow == [kind : {"INTERNAL", "GUEST"}, client : Clients \cup {NoOne},
               hats : SUBSET Hat, active : BOOLEAN]
SessionRow == [at : {"row"}, user : Emails, expires : 0..(MaxTime + SessionAge)]
InviteRow  == [at : {"open", "redeemed"}, email : Emails, client : Clients, expires : Nat]

\* The tables of a scene: sessions of people who have an account, and invites
\* that nobody has redeemed yet.
TablesFit(sc) ==
    /\ sc.accounts \in [Emails -> {NoAccount} \cup AccountRow]
    /\ sc.sessions \in [Sessions -> {Unused, Gone} \cup SessionRow]
    /\ sc.invites \in [Invites -> {Unused} \cup InviteRow]
    /\ \A s \in Sessions : sc.sessions[s].at = "row" => sc.accounts[sc.sessions[s].user] # NoAccount
    /\ \A i \in Invites : sc.invites[i].at # "redeemed"
    /\ sc.until \in 0..MaxTime

ASSUME TablesAssumption == \A sc \in Scenes : TablesFit(sc)

Idle == [at |-> "idle"]

Origins == Addresses \cup {NoOne}

\* `login:${email}`, `login:${email}:${ip}`, and `invite-redeem:${ip}` with the
\* placeholder "local" for a caller whose address is not known.
LoginKey(email, ip) == <<"login", email, ip>>
RedeemKey(ip)       == <<"invite-redeem", NoOne, ip>>

\* The bodies that pass validation, with the address and the cookie they come with.
LoginAsk  == [do : {"login"}, email : Emails, exact : BOOLEAN, ip : Origins]
RedeemAsk == [do : {"redeem"}, invite : Invites, ip : Origins]
LogoutAsk == [do : {"logout"}, as : Sessions]
RevokeAsk == [do : {"revoke"}, as : Sessions, target : Sessions]
InviteAsk == [do : {"invite"}, as : Sessions, email : Emails, client : Clients]

Keys == {LoginKey(e, ip) : e \in Emails, ip \in Origins} \cup {RedeemKey(ip) : ip \in Origins}

EmptyBucket == [count |-> 0, resetAt |-> 0]

Init == /\ scene \in Scenes
        /\ clock = 0
        /\ account = scene.accounts /\ session = scene.sessions /\ invite = scene.invites
        /\ bucket = [k \in Keys |-> EmptyBucket]
        /\ request = [r \in Requests |-> Idle]
        /\ revoked = [s \in Sessions |-> 0]
        /\ admitted = [e \in Emails |-> <<>>]

-----------------------------------------------------------------------------
(* The limiter.  A bucket whose window is over counts as none, so the sweep *)
(* that deletes such buckets changes nothing.                               *)

Opens(b) == b.resetAt <= clock

\* A limit that is off by one.
AllowsOneMore(b) == Opens(b) \/ b.count <= MaxHits

Allows(b) == Opens(b) \/ b.count < MaxHits

RateLimit(b) ==
    IF Opens(b) THEN [count |-> 1, resetAt |-> clock + Window]
    ELSE [b EXCEPT !.count = IF Allows(b) THEN @ + 1 ELSE @]

\* A careless limiter: it charges the address where it knows one.
LoginChargedByAddress(email, ip) ==
    [bucket EXCEPT ![LoginKey(email, ip)] = RateLimit(@)]

\* The bucket of the e-mail is charged first, and stays charged when the one of
\* the address refuses.
LoginCharged(email, ip) ==
    LET known == ip # NoOne /\ Allows(bucket[LoginKey(email, NoOne)])
    IN  [k \in Keys |-> IF k = LoginKey(email, NoOne) \/ (known /\ k = LoginKey(email, ip))
                        THEN RateLimit(bucket[k]) ELSE bucket[k]]

LoginAllowed(email, ip) ==
    \A k \in {LoginKey(email, NoOne), LoginKey(email, ip)} : Allows(bucket[k])

-----------------------------------------------------------------------------
(* Handlers.                                                               *)

At(r, step) == request[r].at = step

UnderWay(r) == ~At(r, "idle") /\ ~At(r, "done")

Goes(r, step) == request' = [request EXCEPT ![r].at = step]

Answer(what) == [at |-> "done", answer |-> what, cookie |-> NoOne, until |-> 0]

Ends(r, what) == request' = [request EXCEPT ![r] = Answer(what)]

\* createSession, its token going back in the cookie of the answer.
EndsSignedIn(r, user) ==
    \E s \in Sessions :
       /\ session[s] = Unused
       /\ session' = [session EXCEPT ![s] = SessionOf(user, clock + SessionAge)]
       /\ request' = [request EXCEPT ![r] = [Answer("ok") EXCEPT !.cookie = s,
                                                                 !.until = clock + SessionAge]]

\* The answer leaves the server, or is lost on its way.
Leaves(r) ==
    /\ At(r, "done")
    /\ request' = [request EXCEPT ![r] = Idle]
    /\ UNCHANGED <<scene, clock, account, session, invite, limiter, revoked>>

-----------------------------------------------------------------------------
(* POST /api/auth/login.  The limiter lower-cases the e-mail and trims it,  *)
(* the look-up of the account does not: ask.exact says whether it is        *)
(* spelled as stored.  The password is checked on what the look-up found.   *)

LoginArrives(r, ask) ==
    /\ At(r, "idle") /\ ask.do = "login"
    /\ bucket' = LoginCharged(ask.email, ask.ip)
    /\ IF LoginAllowed(ask.email, ask.ip)
       THEN /\ admitted' = [admitted EXCEPT ![ask.email] = Append(@, clock)]
            /\ request' = [request EXCEPT ![r] =
                  [at |-> "verifying", ask |-> ask, as |-> NoOne,
                   user |-> IF ask.exact /\ account[ask.email].active THEN ask.email ELSE NoOne]]
       ELSE Ends(r, "rate_limited") /\ UNCHANGED admitted
    /\ UNCHANGED <<scene, clock, account, session, invite, revoked>>

LoginVerified(r) ==
    /\ At(r, "verifying")
    /\ \/ request[r].user # NoOne /\ EndsSignedIn(r, request[r].user)
       \/ Ends(r, "invalid_credentials") /\ UNCHANGED session
    /\ UNCHANGED <<scene, clock, account, invite, limiter, revoked>>

-----------------------------------------------------------------------------
(* POST /api/guest-invites/:token/redeem, with a well-formed body.         *)

Redeemable(i) == invite[i].at = "open" /\ invite[i].expires >= clock

RedeemArrives(r, ask) ==
    /\ At(r, "idle") /\ ask.do = "redeem"
    /\ bucket' = [bucket EXCEPT ![RedeemKey(ask.ip)] = RateLimit(@)]
    /\ IF Allows(bucket[RedeemKey(ask.ip)])
       THEN request' = [request EXCEPT ![r] =
               [at |-> "looking", ask |-> ask, as |-> NoOne, user |-> NoOne]]
       ELSE Ends(r, "rate_limited")
    /\ UNCHANGED <<scene, clock, account, session, invite, revoked, admitted>>

RedeemLooks(r) ==
    /\ At(r, "looking")
    /\ LET i == request[r].ask.invite
       IN  IF Redeemable(i) /\ account[invite[i].email] = NoAccount
           THEN Goes(r, "claiming") ELSE Ends(r, "gone")
    /\ UNCHANGED <<scene, clock, account, session, invite, limiter, revoked>>

\* The updateMany that consumes the invite waits for another transaction that
\* has written the row, and then looks at it again.
RedeemClaims(r) ==
    LET i == request[r].ask.invite
    IN  /\ At(r, "claiming")
        /\ \A q \in Requests : At(q, "creating") => request[q].ask.invite # i
        /\ IF invite[i].at = "open" THEN Goes(r, "creating") ELSE Ends(r, "gone")
        /\ UNCHANGED <<scene, clock, account, session, invite, limiter, revoked>>

\* A backstop that lets the second account of an e-mail replace the first.
RedeemCreatesTwice(r) ==
    LET i == request[r].ask.invite
    IN  /\ At(r, "creating")
        /\ account' = [account EXCEPT ![invite[i].email] =
                          Account("GUEST", invite[i].client, {})]
        /\ invite' = [invite EXCEPT ![i].at = "redeemed"]
        /\ Goes(r, "entering")
        /\ UNCHANGED <<scene, clock, session, limiter, revoked>>

\* The account with its audit row, and the commit.  The unique index on the
\* e-mail lets one transaction at a time through; the violation rolls back.
RedeemCreates(r) ==
    LET i == request[r].ask.invite
    IN  /\ At(r, "creating")
        /\ IF account[invite[i].email] = NoAccount
           THEN /\ account' = [account EXCEPT ![invite[i].email] =
                                  Account("GUEST", invite[i].client, {})]
                /\ invite' = [invite EXCEPT ![i].at = "redeemed"]
                /\ Goes(r, "entering")
           ELSE Ends(r, "gone") /\ UNCHANGED <<account, invite>>
        /\ UNCHANGED <<scene, clock, session, limiter, revoked>>

\* createSession after the transaction, on a connection of its own.
RedeemEnters(r) ==
    /\ At(r, "entering")
    /\ EndsSignedIn(r, invite[request[r].ask.invite].email)
    /\ UNCHANGED <<scene, clock, account, invite, limiter, revoked>>

-----------------------------------------------------------------------------
(* withRequest: what every other route runs first.                         *)

Live(s) == /\ session[s].at = "row" /\ session[s].expires >= clock
           /\ account[session[s].user].active

SignedAsks == {"read", "logout", "revoke", "invite", "create", "convert"}

\* A resolution that leaves the expiry to whoever deletes old rows.
ResolvesStale(r, ask) ==
    /\ At(r, "idle") /\ ask.do \in SignedAsks
    /\ IF session[ask.as].at = "row"
       THEN request' = [request EXCEPT ![r] = [at |-> "resolved", ask |-> ask, as |-> ask.as,
                                               user |-> session[ask.as].user]]
       ELSE Ends(r, "unauthenticated")
    /\ UNCHANGED <<scene, clock, account, session, invite, limiter, revoked>>

\* getSessionAndUser.  Only logout goes on without an actor.
Resolves(r, ask) ==
    /\ At(r, "idle") /\ ask.do \in SignedAsks
    /\ IF Live(ask.as)
       THEN request' = [request EXCEPT ![r] = [at |-> "resolved", ask |-> ask, as |-> ask.as,
                                               user |-> session[ask.as].user]]
       ELSE IF ask.do = "logout"
       THEN request' = [request EXCEPT ![r] = [at |-> "acting", ask |-> ask, as |-> NoOne,
                                               user |-> NoOne]]
       ELSE Ends(r, "unauthenticated")
    /\ UNCHANGED <<scene, clock, account, session, invite, limiter, revoked>>

\* Without the guard, on the strength of the resolution before.
TouchesBlindly(r) ==
    LET s == request[r].as
    IN  /\ At(r, "resolved")
        /\ session' = IF session[s].at = "row"
                      THEN [session EXCEPT ![s].expires = clock + SessionAge] ELSE session
        /\ Goes(r, "acting")
        /\ UNCHANGED <<scene, clock, account, invite, limiter, revoked>>

\* touchSession, with an instant of its own and a guard against it.
Touches(r) ==
    LET s == request[r].as
    IN  /\ At(r, "resolved")
        /\ session' = IF session[s].at = "row" /\ session[s].expires > clock
                      THEN [session EXCEPT ![s].expires = clock + SessionAge] ELSE session
        /\ Goes(r, "acting")
        /\ UNCHANGED <<scene, clock, account, invite, limiter, revoked>>

Acts(r, do) == At(r, "acting") /\ request[r].ask.do = do

\* Any GET, the list of sessions among them.
Reads(r) ==
    /\ Acts(r, "read") /\ Ends(r, "ok")
    /\ UNCHANGED <<scene, clock, account, session, invite, limiter, revoked>>

LogsOut(r) ==
    /\ Acts(r, "logout")
    /\ session' = [session EXCEPT ![request[r].ask.as] = Gone]
    /\ Ends(r, "ok")
    /\ UNCHANGED <<scene, clock, account, invite, limiter, revoked>>

RevokeLooks(r) ==
    LET target == session[request[r].ask.target]
    IN  /\ Acts(r, "revoke")
        /\ IF /\ target.at = "row"
              /\ target.user = request[r].user \/ "TECHNICAL_APPROVER" \in account[request[r].user].hats
           THEN Goes(r, "revoking") ELSE Ends(r, "not_found")
        /\ UNCHANGED <<scene, clock, account, session, invite, limiter, revoked>>

\* A revocation that does not ask how many rows it has deleted.
RevokeDeletesUncounted(r) ==
    LET s == request[r].ask.target
    IN  /\ At(r, "revoking")
        /\ session' = [session EXCEPT ![s] = Gone]
        /\ revoked' = [revoked EXCEPT ![s] = @ + 1]
        /\ Ends(r, "ok")
        /\ UNCHANGED <<scene, clock, account, invite, limiter>>

\* deleteMany waits for another transaction that deletes the row and counts 0.
RevokeDeletes(r) ==
    LET s == request[r].ask.target
    IN  /\ At(r, "revoking")
        /\ IF session[s].at = "row"
           THEN /\ session' = [session EXCEPT ![s] = Gone]
                /\ revoked' = [revoked EXCEPT ![s] = @ + 1]
                /\ Ends(r, "ok")
           ELSE Ends(r, "not_found") /\ UNCHANGED <<session, revoked>>
        /\ UNCHANGED <<scene, clock, account, invite, limiter>>

\* POST /api/guest-invites, whatever accounts and invites the e-mail has.
CreatesInvite(r) ==
    /\ Acts(r, "invite")
    /\ IF account[request[r].user].kind = "INTERNAL"
       THEN /\ \E i \in Invites :
                  /\ invite[i] = Unused
                  /\ invite' = [invite EXCEPT ![i] =
                        Invite(request[r].ask.email, request[r].ask.client, clock + InviteAge)]
            /\ Ends(r, "ok")
       ELSE Ends(r, "forbidden") /\ UNCHANGED invite
    /\ UNCHANGED <<scene, clock, account, session, limiter, revoked>>

-----------------------------------------------------------------------------
Arrives(r, ask) == LoginArrives(r, ask) \/ RedeemArrives(r, ask) \/ Resolves(r, ask)

Handles(r) ==
    \/ LoginVerified(r)
    \/ RedeemLooks(r) \/ RedeemClaims(r) \/ RedeemCreates(r) \/ RedeemEnters(r)
    \/ Touches(r) \/ Reads(r) \/ LogsOut(r)
    \/ RevokeLooks(r) \/ RevokeDeletes(r) \/ CreatesInvite(r)

\* A query fails, or the transaction runs into its timeout.
Fails(r) ==
    /\ UnderWay(r) /\ Ends(r, "failed")
    /\ UNCHANGED <<scene, clock, account, session, invite, limiter, revoked>>

\* The server dies and is started again; whoever waits sees the connection break.
Crash ==
    /\ request' = [r \in Requests |-> IF UnderWay(r) THEN Answer("failed") ELSE request[r]]
    /\ bucket' = [k \in Keys |-> EmptyBucket]
    /\ admitted' = [e \in Emails |-> <<>>]
    /\ UNCHANGED <<scene, clock, account, session, invite, revoked>>

Tick == /\ clock < scene.until /\ clock' = clock + 1
        /\ UNCHANGED <<scene, account, session, invite, limiter, request, revoked>>

\* An operator deactivates an account in the database.
Deactivate(email) ==
    /\ email \in scene.leavers /\ account[email].active
    /\ account' = [account EXCEPT ![email].active = FALSE]
    /\ UNCHANGED <<scene, clock, session, invite, limiter, request, revoked>>
=============================================================================
