------------------------------- MODULE Entrance -------------------------------
(***************************************************************************)
(* One browser at the door: the middleware, the guards of the layouts and  *)
(* pages, the sign-in and redemption forms and the sign-out button, with   *)
(* the cookie that the answers set.                                        *)
(*                                                                         *)
(* A visit is a chain of redirects that ends with a page on the screen;    *)
(* between two of them anything may happen to the session.  The cookie     *)
(* keeps the expiry it was set with.                                       *)
(***************************************************************************)
EXTENDS Access

VARIABLE tab  \* what the browser shows, its cookie, and the answer it waits for

Paths == {"/", "/overview", "/portal", "/login", "/notifications", "/portal/invite"}

\* Shown to whoever asks, with or without a cookie.
Public == {"/login", "/portal/invite"}

NoCookie == [session |-> NoOne, until |-> 0]

TabInit == tab = [at |-> "resting", path |-> "/login", next |-> "/overview", form |-> FALSE,
                  cookie |-> NoCookie, waits |-> NoOne, for |-> "none"]

-----------------------------------------------------------------------------
\* The session of the cookie a request carries; the browser drops a cookie that
\* has expired.
Carried == IF tab.cookie.until > clock THEN tab.cookie.session ELSE NoOne

\* getCurrentActor: the kind of the actor.
CurrentKind ==
    IF Carried # NoOne /\ Live(Carried) THEN account[session[Carried].user].kind ELSE "none"

Home(kind) == IF kind = "GUEST" THEN "/portal" ELSE "/overview"

\* A middleware that takes a cookie for a session and keeps it off the login
\* page, which therefore needs no guard.
GuardByCookie(path, kind) ==
    CASE path = "/" -> "/overview"
      [] path = "/login" /\ Carried # NoOne -> "/overview"
      [] path \notin Public /\ kind = "none" -> "/login"
      [] path = "/overview" /\ kind = "GUEST" -> "/portal"
      [] path = "/portal" /\ kind = "INTERNAL" -> "/overview"
      [] OTHER -> path

\* Where the guard of a page sends an actor of this kind; the path itself when
\* the page is rendered.
Guard(path, kind) ==
    CASE path = "/" -> "/overview"
      [] path = "/login" /\ kind # "none" -> Home(kind)
      [] path \notin Public /\ kind = "none" -> "/login"
      [] path = "/overview" /\ kind = "GUEST" -> "/portal"
      [] path = "/portal" /\ kind = "INTERNAL" -> "/overview"
      [] OTHER -> path

\* The invite whose link the browser has, if any, as its form would redeem it.
Offered == {ask \in scene.forms : ask.do = "redeem"}

\* A click on a link or an address typed; a form that waits is abandoned.
Visit(path) ==
    /\ path \in scene.paths /\ tab.at = "resting" /\ tab.path # path
    /\ tab' = [tab EXCEPT !.at = "loading", !.path = path, !.next = "/overview",
                          !.form = FALSE, !.waits = NoOne, !.for = "none"]
    /\ UNCHANGED accessVars

\* The middleware lets through what is public and what carries a cookie.  The
\* guard of a page redirects to the login page without saying where from.
Hop ==
    /\ tab.at = "loading"
    /\ tab' = IF tab.path \notin Public /\ Carried = NoOne
              THEN [tab EXCEPT !.path = "/login", !.next = tab.path]
              ELSE LET path == Guard(tab.path, CurrentKind)
                   IN  IF path # tab.path THEN [tab EXCEPT !.path = path, !.next = "/overview"]
                       ELSE [tab EXCEPT !.at = "resting",
                                        !.form = path = "/portal/invite" /\ \E ask \in Offered : Redeemable(ask.invite)]
    /\ UNCHANGED accessVars

-----------------------------------------------------------------------------
(* The forms: disabled while they wait for their answer.  What they refuse *)
(* without asking the server, empty fields or a short password, leaves      *)
(* them as they are.                                                        *)

Resting(path) == scene.paths # {} /\ tab.at = "resting" /\ tab.path = path /\ tab.waits = NoOne

Waits(r, for) == tab' = [tab EXCEPT !.waits = r, !.for = for]

SignIn(r, ask) == Resting("/login") /\ LoginArrives(r, ask) /\ Waits(r, "login")

Redeem(r, ask) ==
    /\ Resting("/portal/invite") /\ tab.form /\ ask \in Offered
    /\ RedeemArrives(r, ask) /\ Waits(r, "redeem")

\* Without a cookie the middleware answers, and the button leaves for the login
\* page as it does after every answer.
SignOut(r) ==
    /\ \E path \in Paths \ Public : Resting(path)
    /\ IF Carried = NoOne
       THEN tab' = [tab EXCEPT !.at = "loading", !.path = "/login"] /\ UNCHANGED accessVars
       ELSE /\ Resolves(r, [do |-> "logout", as |-> Carried])
            /\ Waits(r, "logout")

\* Where a form goes on success: the login form where it was asked to.
Onward == CASE tab.for = "login"  -> tab.next
            [] tab.for = "redeem" -> "/portal"
            [] tab.for = "logout" -> "/login"

Leaving == [tab EXCEPT !.at = "loading", !.path = Onward, !.next = "/overview", !.form = FALSE,
                       !.waits = NoOne, !.for = "none"]

Stays == [tab EXCEPT !.waits = NoOne, !.for = "none"]

\* The answer, with the cookie it sets.
Answered(r) ==
    /\ tab.waits = r /\ Leaves(r)
    /\ LET ok == request[r].answer = "ok"
       IN  tab' = CASE ok /\ tab.for = "logout" -> [Leaving EXCEPT !.cookie = NoCookie]
                    [] ok -> [Leaving EXCEPT !.cookie = [session |-> request[r].cookie,
                                                         until |-> request[r].until]]
                    [] ~ok /\ tab.for = "logout" -> Leaving
                    [] OTHER -> Stays

\* fetch rejects: the connection broke before the answer came.
Unanswered(r) ==
    /\ tab.waits = r /\ Leaves(r)
    /\ tab' = IF tab.for = "logout" THEN Leaving ELSE Stays
=============================================================================
