------------------------------- MODULE MCFront -------------------------------
EXTENDS Front

CONSTANTS ana, tec, gus, s1, s2, s3, i1, i2, c1, c2, home, d1, r1, r2

\* The last three bound the pages visited and the clock, and say who may be
\* deactivated.
Scene(accounts, sessions, invites, asks, forms, paths, until, leavers) ==
    [accounts |-> [e \in Emails |-> IF e \in DOMAIN accounts THEN accounts[e] ELSE NoAccount],
     sessions |-> [s \in Sessions |-> IF s \in DOMAIN sessions THEN SessionOf(sessions[s], SessionAge)
                                      ELSE Unused],
     invites |-> [i \in Invites |-> IF i \in DOMAIN invites THEN invites[i] ELSE Unused],
     asks |-> asks, forms |-> forms, paths |-> paths, until |-> until, leavers |-> leavers,
     slots |-> IF forms = {} THEN {} ELSE {r1}]

Of(x, v) == [y \in {x} |-> v]
Two(x, v, y, w) == [z \in {x, y} |-> IF z = x THEN v ELSE w]

Ana == Account("INTERNAL", NoOne, {"DEVELOPER", "BUSINESS_APPROVER"})
Tec == Account("INTERNAL", NoOne, {"TECHNICAL_APPROVER"})
Gus == Account("GUEST", c1, {})

By(s, do) == [do |-> do, as |-> s]
Login(e, exact, ip) == [do |-> "login", email |-> e, exact |-> exact, ip |-> ip]
Redeems(i) == [do |-> "redeem", invite |-> i, ip |-> NoOne]
Revoke(s, t) == [do |-> "revoke", as |-> s, target |-> t]
InviteFor(s, c) == [do |-> "invite", as |-> s, email |-> gus, client |-> c]
Creates(s, p) == [do |-> "create", as |-> s, prefix |-> p]
Converts(s) == [do |-> "convert", as |-> s, demand |-> d1]

\* Two people with a session each, one of whom may revoke the other's.
SessionScene ==
    Scene(Two(ana, Ana, tec, Tec), Two(s1, ana, s2, tec), <<>>,
          {By(s1, "read"), By(s1, "logout"), Revoke(s1, s2), Revoke(s2, s1)}, {}, {}, MaxTime, {ana})

\* Two invites of two clients for one person, redeemed by several callers.
InviteScene ==
    Scene(<<>>, <<>>, Two(i1, Invite(gus, c1, 1), i2, Invite(gus, c2, 1)),
          {Redeems(i1), Redeems(i2)}, {}, {}, MaxTime, {})

\* An invite written while the server runs.
InvitingScene ==
    Scene(Of(ana, Ana), Of(s1, ana), <<>>, {InviteFor(s1, c1), Redeems(i1)}, {}, {}, 2, {})

\* Log-ins that only the limiter stops.
LoginScene ==
    Scene(Of(ana, Ana), <<>>, <<>>,
          {Login(ana, FALSE, NoOne), Login(ana, FALSE, home)}, {}, {}, MaxTime, {})

\* A developer, who may also convert, and a guest, who may neither.
IntakeScene ==
    Scene(Two(ana, Ana, gus, Gus), Two(s1, ana, s2, gus), <<>>,
          {Converts(s1), Converts(s2), Creates(s1, "CHG"), Creates(s2, "CHG"), InviteFor(s2, c1)}
             \cup {Creates(s2, p) : p \in {"DEM", "INC"}}, {}, {}, 1, {})

\* A browser that signs in and out while someone else revokes its session, and
\* one that opens an invite.
SignInScene ==
    Scene(Two(ana, Ana, tec, Tec), Two(s2, tec, s3, ana), <<>>, {Revoke(s2, s1)}, {Login(ana, TRUE, NoOne)},
          {"/", "/overview", "/portal", "/login"}, 1, {ana})

RedeemScene ==
    Scene(<<>>, <<>>, Of(i1, Invite(gus, c1, 1)), {}, {Redeems(i1)},
          {"/", "/portal/invite", "/notifications", "/login"}, 2, {})

MCScenes == {SessionScene, InviteScene, InvitingScene, LoginScene, IntakeScene,
             SignInScene, RedeemScene}
=============================================================================
