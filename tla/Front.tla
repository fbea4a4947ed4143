-------------------------------- MODULE Front --------------------------------
(***************************************************************************)
(* The server's front as its callers meet it: sessions and invites, the    *)
(* intake of records, and a browser among other callers.                   *)
(***************************************************************************)
EXTENDS Intake, Entrance

vars == <<accessVars, intakeVars, tab>>

\* What a caller may ask who has a cookie.
ActorAsk == [do : {"read"}, as : Sessions] \cup LogoutAsk \cup RevokeAsk \cup InviteAsk
               \cup CreateAsk \cup ConvertAsk

ASSUME AsksAssumption ==
    \A sc \in Scenes : /\ sc.asks \cup sc.forms \subseteq LoginAsk \cup RedeemAsk \cup ActorAsk
                       /\ sc.paths \subseteq Paths

FrontInit == Init /\ IntakeInit /\ TabInit

\* Requests of other callers: what the scene lists.
Called(r) == /\ r \notin scene.slots
             /\ \E ask \in scene.asks : Arrives(r, ask)
             /\ UNCHANGED <<intakeVars, tab>>

Ran(r) == \/ Handles(r) /\ UNCHANGED <<intakeVars, tab>>
          \/ Takes(r) /\ UNCHANGED tab

Broke(r) == Fails(r) /\ UNCHANGED <<intakeVars, tab>>

Left(r) == tab.waits # r /\ Leaves(r) /\ UNCHANGED <<intakeVars, tab>>

\* The browser has slots of its own.
TabAsks(r) ==
    /\ r \in scene.slots
    /\ \/ \E ask \in scene.forms : SignIn(r, ask) \/ Redeem(r, ask)
       \/ SignOut(r)
    /\ UNCHANGED intakeVars

TabTold(r) == (Answered(r) \/ Unanswered(r)) /\ UNCHANGED intakeVars

TabMoves == (\E path \in Paths : Visit(path)) /\ UNCHANGED intakeVars

TabLoads == Hop /\ UNCHANGED intakeVars

World == /\ Crash \/ Tick \/ \E e \in Emails : Deactivate(e)
         /\ UNCHANGED <<intakeVars, tab>>

Next == \/ \E r \in Requests : Called(r)
        \/ \E r \in Requests : Ran(r)
        \/ \E r \in Requests : Broke(r)
        \/ \E r \in Requests : Left(r)
        \/ \E r \in Requests : TabAsks(r)
        \/ \E r \in Requests : TabTold(r)
        \/ TabMoves \/ TabLoads \/ World

\* A handler ends, with an answer or at the latest with a timeout; an answer
\* arrives or the connection breaks; the browser follows redirects.
GoesOn(r) == Broke(r) \/ Left(r) \/ TabTold(r) \/ Ran(r)

Fairness == (\A r \in Requests : WF_vars(GoesOn(r))) /\ WF_vars(TabLoads)

Spec == FrontInit /\ [][Next]_vars /\ Fairness

-----------------------------------------------------------------------------
Steps == {"idle", "done", "verifying", "looking", "claiming", "creating", "entering", "resolved",
          "acting", "revoking", "numbering", "checking", "recording"}

\* Every variable keeps its type, and no bucket is ever charged beyond its limit.
TypeOK ==
    /\ clock \in 0..MaxTime
    /\ \A e \in Emails : account[e] = NoAccount \/ account[e].kind \in {"INTERNAL", "GUEST"}
    /\ \A s \in Sessions : session[s] \in {Unused, Gone} \/
          (session[s].user \in Emails /\ session[s].expires \in 0..(MaxTime + SessionAge))
    /\ \A i \in Invites : invite[i].at \in {"unused", "open", "redeemed"}
    /\ \A k \in Keys : bucket[k].count \in 0..MaxHits
    /\ \A r \in Requests : request[r].at \in Steps
    /\ \A p \in Prefixes : counter[p] \in 0..MaxRefs
    /\ tab.path \in Paths /\ tab.waits \in Requests \cup {NoOne}

Ended(s) == /\ session[s] # Unused /\ ~Live(s)

\* A session that was revoked, logged out, left to expire or whose account was
\* deactivated is never live again, whatever requests it had under way.
EndedStaysEnded == [][\A s \in Sessions : Ended(s) => Ended(s)']_vars

\* A revocation is recorded once for a session, and only for one that is gone.
RevokedOnce ==
    \A s \in Sessions : revoked[s] <= 1 /\ (revoked[s] = 1 => session[s] = Gone)

\* Requests under way as an ended session come to an end, and no more of them
\* begin: once the last session that ends has ended, none acts as an ended one.
EndedGoesQuiet ==
    <>[](\A r \in Requests : UnderWay(r) /\ request[r].as # NoOne => ~Ended(request[r].as))

\* Behind every invite that was used up there is the guest account it was made
\* for, with its client, and no other invite was used up for that account.
RedeemedMadeItsAccount ==
    \A i \in Invites : invite[i].at = "redeemed" =>
       /\ account[invite[i].email].kind = "GUEST"
       /\ account[invite[i].email].client = invite[i].client
       /\ \A j \in Invites \ {i} :
             invite[j].at = "redeemed" => invite[j].email # invite[i].email

\* From one start of the server to the next less than two windows' worth of
\* log-ins is let through for an e-mail within any window's time, from whatever
\* addresses they come: of 2 * MaxHits in a row the last is a window or more
\* after the first.
AttemptsBounded ==
    \A e \in Emails : \A i \in 1..Len(admitted[e]) :
       i + 2 * MaxHits - 1 <= Len(admitted[e])
          => admitted[e][i + 2 * MaxHits - 1] >= admitted[e][i] + Window

\* The references of each prefix are numbered from 1 without a gap or a double,
\* a demand has a change of its own exactly when it is CONVERTED, and never two.
RefsWithoutGaps ==
    /\ \A p \in Prefixes :
          LET numbers == {c.number : c \in {d \in records : d.prefix = p}}
          IN  /\ numbers = 1..counter[p]
              /\ Cardinality({c \in records : c.prefix = p}) = counter[p]
    /\ \A d \in Demands : Cardinality(ChangesOf(d)) = IF demand[d] = "CONVERTED" THEN 1 ELSE 0

\* Every visit comes to rest on a page and every form comes to be answered.
TabSettles == (tab.at = "loading" \/ tab.waits # NoOne)
                  ~> (tab.at = "resting" /\ tab.waits = NoOne)
=============================================================================
