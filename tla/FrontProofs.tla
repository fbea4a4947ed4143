------------------------------ MODULE FrontProofs ------------------------------
(***************************************************************************)
(* Proofs about Front, for every number of people, sessions, invites and   *)
(* requests, every length of the windows and ages, and every scene.        *)
(*                                                                         *)
(* They go in three layers.  Whatever a step does to the tables is one of  *)
(* the nine changes of Change below, and each of them keeps what is said   *)
(* of the tables.  What a handler keeps between two awaits is typed, and   *)
(* backed by rows that never go away.  The requests that have taken a      *)
(* number hold the lock of its counter, and there the number is the next.  *)
(***************************************************************************)
EXTENDS Front, Integers, FiniteSetTheorems, TLAPS

BucketRow == [count : 0..MaxHits, resetAt : Nat]

TablesTyped ==
    /\ scene \in Scenes
    /\ clock \in 0..MaxTime
    /\ account \in [Emails -> {NoAccount} \cup AccountRow]
    /\ session \in [Sessions -> {Unused, Gone} \cup SessionRow]
    /\ invite \in [Invites -> {Unused} \cup InviteRow]
    /\ revoked \in [Sessions -> Nat]

Charged == bucket \in [Keys -> BucketRow]

\* Every session belongs to an account.
Owned == \A s \in Sessions : session[s].at = "row" => account[session[s].user] # NoAccount

TablesInv == TablesTyped /\ Charged /\ Owned /\ RevokedOnce /\ RedeemedMadeItsAccount

-----------------------------------------------------------------------------
(* What a step does to the tables *)

tables == <<clock, account, session, invite, revoked>>

Opened ==
    \E s \in Sessions, u \in Emails :
       /\ session[s] = Unused /\ account[u] # NoAccount
       /\ session' = [session EXCEPT ![s] = SessionOf(u, clock + SessionAge)]
       /\ UNCHANGED <<clock, account, invite, revoked>>

Extended ==
    \E s \in Sessions :
       /\ session[s].at = "row" /\ session[s].expires > clock
       /\ session' = [session EXCEPT ![s].expires = clock + SessionAge]
       /\ UNCHANGED <<clock, account, invite, revoked>>

Dropped ==
    \E s \in Sessions :
       /\ session' = [session EXCEPT ![s] = Gone]
       /\ UNCHANGED <<clock, account, invite, revoked>>

Withdrawn ==
    \E s \in Sessions :
       /\ session[s].at = "row"
       /\ session' = [session EXCEPT ![s] = Gone]
       /\ revoked' = [revoked EXCEPT ![s] = @ + 1]
       /\ UNCHANGED <<clock, account, invite>>

Invited ==
    \E i \in Invites, e \in Emails, c \in Clients :
       /\ invite[i] = Unused
       /\ invite' = [invite EXCEPT ![i] = Invite(e, c, clock + InviteAge)]
       /\ UNCHANGED <<clock, account, session, revoked>>

Joined ==
    \E i \in Invites :
       /\ invite[i].at # "unused" /\ account[invite[i].email] = NoAccount
       /\ account' = [account EXCEPT ![invite[i].email] = Account("GUEST", invite[i].client, {})]
       /\ invite' = [invite EXCEPT ![i].at = "redeemed"]
       /\ UNCHANGED <<clock, session, revoked>>

Retired ==
    \E e \in Emails :
       /\ account[e].active
       /\ account' = [account EXCEPT ![e].active = FALSE]
       /\ UNCHANGED <<clock, session, invite, revoked>>

Passed == clock < scene.until /\ clock' = clock + 1 /\ UNCHANGED <<account, session, invite, revoked>>

Change == \/ Opened \/ Extended \/ Dropped \/ Withdrawn \/ Invited \/ Joined \/ Retired \/ Passed
          \/ UNCHANGED tables

\* No account and no invite ever goes away.
Grown ==
    /\ \A e \in Emails : account[e] # NoAccount => account'[e] # NoAccount
    /\ \A i \in Invites : invite[i].at # "unused" =>
          invite'[i].at # "unused" /\ invite'[i].email = invite[i].email

EndedStep == \A s \in Sessions : Ended(s) => Ended(s)'

\* What a change keeps, where the buckets are left aside.
Rows == TablesTyped /\ Owned /\ RevokedOnce /\ RedeemedMadeItsAccount

Good == Rows' /\ Grown /\ EndedStep

LEMMA RowShapes ==
    /\ Unused \notin SessionRow /\ Gone \notin SessionRow /\ Unused # Gone
    /\ Unused \notin InviteRow /\ NoAccount \notin AccountRow
    /\ Unused.at = "unused" /\ Gone.at = "gone" /\ ~NoAccount.active
    /\ NoAccount.kind = "none"
  BY DEF Unused, Gone, NoAccount, SessionRow, InviteRow, AccountRow

LEMMA Shapes ==
    ASSUME TablesTyped
    PROVE  /\ \A s \in Sessions : session[s].at = "row" <=> session[s] \in SessionRow
           /\ \A i \in Invites : invite[i].at # "unused" <=> invite[i] \in InviteRow
           /\ \A e \in Emails : account[e] # NoAccount <=> account[e] \in AccountRow
           /\ \A e \in Emails : account[e].active => account[e] # NoAccount
  BY DEF TablesTyped, Unused, Gone, NoAccount, SessionRow, InviteRow, AccountRow

LEMMA OpenedGood == ASSUME Rows, UNCHANGED scene, Opened PROVE Good
  <1>1. PICK s \in Sessions, u \in Emails :
           /\ session[s] = Unused /\ account[u] # NoAccount
           /\ session' = [session EXCEPT ![s] = SessionOf(u, clock + SessionAge)]
           /\ UNCHANGED <<clock, account, invite, revoked>>
    BY DEF Opened
  <1> DEFINE row == SessionOf(u, clock + SessionAge)
  <1>2. row \in SessionRow /\ row.at = "row" /\ row.user = u
    BY AgesAssumption DEF SessionOf, SessionRow, Rows, TablesTyped
  <1>3. \A t \in Sessions : session'[t] = IF t = s THEN row ELSE session[t]
    BY <1>1 DEF Rows, TablesTyped
  <1>4. session' \in [Sessions -> {Unused, Gone} \cup SessionRow]
    BY <1>1, <1>2 DEF Rows, TablesTyped
  <1> HIDE DEF row
  <1>5. TablesTyped'
    BY <1>1, <1>4 DEF Rows, TablesTyped
  <1>6. Owned'
    BY <1>1, <1>2, <1>3 DEF Rows, Owned
  <1>7. RevokedOnce'
    BY <1>1, <1>3, RowShapes DEF Rows, RevokedOnce
  <1>8. RedeemedMadeItsAccount'
    BY <1>1 DEF Rows, RedeemedMadeItsAccount
  <1>9. EndedStep
    BY <1>1, <1>3 DEF EndedStep, Ended, Live
  <1> QED  BY <1>1, <1>5, <1>6, <1>7, <1>8, <1>9 DEF Good, Rows, Grown

LEMMA ExtendedGood == ASSUME Rows, UNCHANGED scene, Extended PROVE Good
  <1>1. PICK s \in Sessions :
           /\ session[s].at = "row" /\ session[s].expires > clock
           /\ session' = [session EXCEPT ![s].expires = clock + SessionAge]
           /\ UNCHANGED <<clock, account, invite, revoked>>
    BY DEF Extended
  <1> DEFINE row == [session[s] EXCEPT !.expires = clock + SessionAge]
  <1>2. session[s] \in SessionRow /\ clock \in 0..MaxTime
    BY <1>1, Shapes DEF Rows, TablesTyped
  <1>3. row \in SessionRow /\ row.at = "row" /\ row.user = session[s].user
    BY <1>2, AgesAssumption DEF SessionRow
  <1>4. session' = [session EXCEPT ![s] = row]
    BY <1>1
  <1> HIDE DEF row
  <1>5. \A t \in Sessions : session'[t] = IF t = s THEN row ELSE session[t]
    BY <1>4 DEF Rows, TablesTyped
  <1>6. TablesTyped'
    BY <1>1, <1>3, <1>4 DEF Rows, TablesTyped
  <1>7. Owned'
    BY <1>1, <1>3, <1>5 DEF Rows, Owned
  <1>8. RevokedOnce'
    BY <1>1, <1>5, RowShapes DEF Rows, RevokedOnce
  <1>9. RedeemedMadeItsAccount'
    BY <1>1 DEF Rows, RedeemedMadeItsAccount
  <1>10. EndedStep
    <2> SUFFICES ASSUME NEW t \in Sessions, Ended(t) PROVE Ended(t)'
      BY DEF EndedStep
    <2>1. CASE t # s
      BY <1>1, <1>5, <2>1 DEF Ended, Live
    <2>2. CASE t = s
      <3>1. session[s].expires >= clock
        BY <1>1, <1>2 DEF SessionRow
      <3>2. ~account[session[s].user].active
        BY <1>1, <2>2, <3>1 DEF Ended, Live
      <3>3. row # Unused
        BY <1>3, RowShapes
      <3> QED  BY <1>1, <1>3, <1>5, <2>2, <3>2, <3>3 DEF Ended, Live
    <2> QED  BY <2>1, <2>2
  <1> QED  BY <1>1, <1>6, <1>7, <1>8, <1>9, <1>10 DEF Good, Rows, Grown

LEMMA DroppedGood == ASSUME Rows, UNCHANGED scene, Dropped PROVE Good
  <1>1. PICK s \in Sessions :
           /\ session' = [session EXCEPT ![s] = Gone]
           /\ UNCHANGED <<clock, account, invite, revoked>>
    BY DEF Dropped
  <1>2. \A t \in Sessions : session'[t] = IF t = s THEN Gone ELSE session[t]
    BY <1>1 DEF Rows, TablesTyped
  <1>3. TablesTyped'
    BY <1>1 DEF Rows, TablesTyped
  <1>4. Owned'
    BY <1>1, <1>2, RowShapes DEF Rows, Owned
  <1>5. RevokedOnce'
    BY <1>1, <1>2 DEF Rows, RevokedOnce
  <1>6. RedeemedMadeItsAccount'
    BY <1>1 DEF Rows, RedeemedMadeItsAccount
  <1>7. EndedStep
    BY <1>1, <1>2, RowShapes DEF EndedStep, Ended, Live
  <1> QED  BY <1>1, <1>3, <1>4, <1>5, <1>6, <1>7 DEF Good, Rows, Grown

LEMMA WithdrawnGood == ASSUME Rows, UNCHANGED scene, Withdrawn PROVE Good
  <1>1. PICK s \in Sessions :
           /\ session[s].at = "row"
           /\ session' = [session EXCEPT ![s] = Gone]
           /\ revoked' = [revoked EXCEPT ![s] = @ + 1]
           /\ UNCHANGED <<clock, account, invite>>
    BY DEF Withdrawn
  <1>2. \A t \in Sessions : session'[t] = IF t = s THEN Gone ELSE session[t]
    BY <1>1 DEF Rows, TablesTyped
  <1>3. \A t \in Sessions : revoked'[t] = IF t = s THEN revoked[s] + 1 ELSE revoked[t]
    BY <1>1 DEF Rows, TablesTyped
  <1>4. TablesTyped'
    BY <1>1 DEF Rows, TablesTyped
  <1>5. Owned'
    BY <1>1, <1>2, RowShapes DEF Rows, Owned
  <1>6. revoked[s] \in Nat /\ revoked[s] <= 1 /\ revoked[s] # 1
    BY <1>1, RowShapes DEF Rows, RevokedOnce, TablesTyped
  <1>7. revoked'[s] = 1
    BY <1>3, <1>6
  <1>8. RevokedOnce'
    BY <1>2, <1>3, <1>7 DEF Rows, RevokedOnce
  <1>9. RedeemedMadeItsAccount'
    BY <1>1 DEF Rows, RedeemedMadeItsAccount
  <1>10. EndedStep
    BY <1>1, <1>2, RowShapes DEF EndedStep, Ended, Live
  <1> QED  BY <1>1, <1>4, <1>5, <1>8, <1>9, <1>10 DEF Good, Rows, Grown

LEMMA InvitedGood == ASSUME Rows, UNCHANGED scene, Invited PROVE Good
  <1>1. PICK i \in Invites, e \in Emails, c \in Clients :
           /\ invite[i] = Unused
           /\ invite' = [invite EXCEPT ![i] = Invite(e, c, clock + InviteAge)]
           /\ UNCHANGED <<clock, account, session, revoked>>
    BY DEF Invited
  <1> DEFINE row == Invite(e, c, clock + InviteAge)
  <1>2. row \in InviteRow /\ row.at = "open"
    BY AgesAssumption DEF Invite, InviteRow, Rows, TablesTyped
  <1> HIDE DEF row
  <1>3. \A j \in Invites : invite'[j] = IF j = i THEN row ELSE invite[j]
    BY <1>1 DEF Rows, TablesTyped, row
  <1>4. TablesTyped'
    BY <1>1, <1>2 DEF Rows, TablesTyped, row
  <1>5. Owned' /\ RevokedOnce'
    BY <1>1 DEF Rows, Owned, RevokedOnce
  <1>6. RedeemedMadeItsAccount'
    BY <1>1, <1>2, <1>3 DEF Rows, RedeemedMadeItsAccount
  <1>7. EndedStep
    BY <1>1 DEF EndedStep, Ended, Live
  <1>8. Grown
    BY <1>1, <1>3, RowShapes DEF Grown
  <1> QED  BY <1>4, <1>5, <1>6, <1>7, <1>8 DEF Good, Rows

LEMMA JoinedGood == ASSUME Rows, UNCHANGED scene, Joined PROVE Good
  <1>1. PICK i \in Invites :
           /\ invite[i].at # "unused" /\ account[invite[i].email] = NoAccount
           /\ account' = [account EXCEPT ![invite[i].email] = Account("GUEST", invite[i].client, {})]
           /\ invite' = [invite EXCEPT ![i].at = "redeemed"]
           /\ UNCHANGED <<clock, session, revoked>>
    BY DEF Joined
  <1>2. PICK e \in Emails, c \in Clients : e = invite[i].email /\ c = invite[i].client
    BY <1>1, Shapes DEF Rows, InviteRow
  <1> DEFINE guest == Account("GUEST", c, {})
             used == [invite[i] EXCEPT !.at = "redeemed"]
  <1>3. /\ guest \in AccountRow /\ guest.kind = "GUEST" /\ guest.client = c
        /\ used \in InviteRow /\ used.at = "redeemed" /\ used.email = e /\ used.client = c
    BY <1>1, <1>2, Shapes DEF Rows, Account, AccountRow, InviteRow
  <1>4. account' = [account EXCEPT ![e] = guest] /\ invite' = [invite EXCEPT ![i] = used]
    BY <1>1, <1>2
  <1> HIDE DEF guest, used
  <1>5. /\ \A f \in Emails : account'[f] = IF f = e THEN guest ELSE account[f]
        /\ \A j \in Invites : invite'[j] = IF j = i THEN used ELSE invite[j]
    BY <1>4 DEF Rows, TablesTyped
  <1>6. TablesTyped'
    <2>1. account' \in [Emails -> {NoAccount} \cup AccountRow]
      BY <1>3, <1>4 DEF Rows, TablesTyped
    <2>2. invite' \in [Invites -> {Unused} \cup InviteRow]
      BY <1>3, <1>4 DEF Rows, TablesTyped
    <2> QED  BY <1>1, <2>1, <2>2 DEF Rows, TablesTyped
  <1>7. Grown
    BY <1>1, <1>2, <1>3, <1>5, RowShapes DEF Grown
  <1>8. Owned'
    BY <1>1, <1>3, <1>5, <1>7, Shapes DEF Rows, Owned, Grown, SessionRow
  <1>9. RevokedOnce'
    BY <1>1 DEF Rows, RevokedOnce
  <1>10. RedeemedMadeItsAccount'
    <2>1. \A j \in Invites : invite[j].at = "redeemed" => invite[j].email \in Emails /\ invite[j].email # e
      BY <1>1, <1>2, RowShapes, Shapes DEF Rows, RedeemedMadeItsAccount, InviteRow
    <2> QED  BY <1>3, <1>5, <2>1 DEF Rows, RedeemedMadeItsAccount
  <1>11. EndedStep
    <2> SUFFICES ASSUME NEW s \in Sessions, session[s].at = "row"
                 PROVE  account'[session[s].user] = account[session[s].user]
      BY <1>1 DEF EndedStep, Ended, Live
    <2>1. session[s].user \in Emails /\ session[s].user # e
      BY <1>1, <1>2, Shapes DEF Rows, Owned, SessionRow
    <2> QED  BY <1>5, <2>1
  <1> QED  BY <1>6, <1>7, <1>8, <1>9, <1>10, <1>11 DEF Good, Rows

LEMMA RetiredGood == ASSUME Rows, UNCHANGED scene, Retired PROVE Good
  <1>1. PICK e \in Emails :
           /\ account[e].active
           /\ account' = [account EXCEPT ![e].active = FALSE]
           /\ UNCHANGED <<clock, session, invite, revoked>>
    BY DEF Retired
  <1> DEFINE row == [account[e] EXCEPT !.active = FALSE]
  <1>2. account[e] \in AccountRow
    BY <1>1, Shapes DEF Rows
  <1>3. /\ row \in AccountRow /\ row.kind = account[e].kind /\ row.client = account[e].client
        /\ ~row.active
    BY <1>2 DEF AccountRow
  <1>4. account' = [account EXCEPT ![e] = row]
    BY <1>1
  <1> HIDE DEF row
  <1>5. \A f \in Emails : account'[f] = IF f = e THEN row ELSE account[f]
    BY <1>4 DEF Rows, TablesTyped
  <1>6. TablesTyped'
    BY <1>1, <1>3, <1>4 DEF Rows, TablesTyped
  <1>7. Grown
    BY <1>1, <1>3, <1>5, RowShapes DEF Grown
  <1>8. Owned'
    BY <1>1, <1>7, Shapes DEF Rows, Owned, Grown, SessionRow
  <1>9. RevokedOnce'
    BY <1>1 DEF Rows, RevokedOnce
  <1>10. RedeemedMadeItsAccount'
    <2>1. \A j \in Invites : invite[j].at = "redeemed" => invite[j].email \in Emails
      BY Shapes DEF Rows, InviteRow
    <2> QED  BY <1>1, <1>3, <1>5, <2>1 DEF Rows, RedeemedMadeItsAccount
  <1>11. EndedStep
    <2> SUFFICES ASSUME NEW s \in Sessions, session[s].at = "row",
                        account'[session[s].user].active
                 PROVE  account[session[s].user].active
      BY <1>1 DEF EndedStep, Ended, Live
    <2>1. session[s].user \in Emails
      BY Shapes DEF Rows, SessionRow
    <2> QED  BY <1>3, <1>5, <2>1
  <1> QED  BY <1>6, <1>7, <1>8, <1>9, <1>10, <1>11 DEF Good, Rows

LEMMA PassedGood == ASSUME Rows, UNCHANGED scene, Passed PROVE Good
  <1>1. /\ clock < scene.until /\ clock' = clock + 1
        /\ UNCHANGED <<account, session, invite, revoked>>
    BY DEF Passed
  <1>2. scene.until \in 0..MaxTime /\ clock \in 0..MaxTime
    BY TablesAssumption DEF Rows, TablesTyped, TablesFit
  <1>3. clock' \in 0..MaxTime
    BY <1>1, <1>2, AgesAssumption
  <1>4. TablesTyped'
    BY <1>1, <1>3 DEF Rows, TablesTyped
  <1>5. Owned' /\ RevokedOnce' /\ RedeemedMadeItsAccount'
    BY <1>1 DEF Rows, Owned, RevokedOnce, RedeemedMadeItsAccount
  <1>6. EndedStep
    <2> SUFFICES ASSUME NEW s \in Sessions, session[s].at = "row",
                        session[s].expires >= clock'
                 PROVE  session[s].expires >= clock
      BY <1>1 DEF EndedStep, Ended, Live
    <2>1. session[s].expires \in Nat
      BY Shapes, AgesAssumption DEF Rows, SessionRow
    <2> QED  BY <1>1, <1>2, <2>1
  <1> QED  BY <1>1, <1>4, <1>5, <1>6 DEF Good, Rows, Grown

LEMMA ChangeGood == ASSUME Rows, UNCHANGED scene, Change PROVE Good
  <1>1. CASE UNCHANGED tables
    BY <1>1 DEF tables, Good, Rows, TablesTyped, Owned, RevokedOnce, RedeemedMadeItsAccount, Grown,
                EndedStep, Ended, Live
  <1> QED  BY <1>1, OpenedGood, ExtendedGood, DroppedGood, WithdrawnGood, InvitedGood, JoinedGood,
              RetiredGood, PassedGood DEF Change

-----------------------------------------------------------------------------
(* What a handler keeps between two awaits *)

Replies == {"ok", "failed", "gone", "rate_limited", "invalid_credentials", "unauthenticated",
            "not_found", "forbidden"}

Replied   == [at : {"done"}, answer : Replies, cookie : Sessions \cup {NoOne}, until : Nat]
Verifying == [at : {"verifying"}, ask : LoginAsk, as : {NoOne}, user : Emails \cup {NoOne}]
Redeeming == [at : {"looking", "claiming", "creating", "entering"}, ask : RedeemAsk,
              as : {NoOne}, user : {NoOne}]
Signed    == [at : {"resolved", "acting"}, ask : ActorAsk, as : Sessions, user : Emails]
Anonymous == [at : {"acting"}, ask : LogoutAsk, as : {NoOne}, user : {NoOne}]
Revoking  == [at : {"revoking"}, ask : RevokeAsk, as : Sessions, user : Emails]
Checking  == [at : {"checking"}, ask : ConvertAsk, as : Sessions, user : Emails]
Drafting  == [at : {"numbering"}, ask : CreateAsk \cup ConvertAsk, as : Sessions, user : Emails,
              prefix : Prefixes, from : Demands \cup {NoOne}]
Filing    == [at : {"recording"}, ask : CreateAsk \cup ConvertAsk, as : Sessions, user : Emails,
              prefix : Prefixes, from : Demands \cup {NoOne}, number : Nat]

SlotState == {Idle} \cup Replied \cup Verifying \cup Redeeming \cup Signed \cup Anonymous
               \cup Revoking \cup Checking \cup Drafting \cup Filing

\* What the rows acc and inv say of the request v: the person it is about to
\* let in has an account, and the invite it redeems was written.
Backed(acc, inv, v) ==
    /\ v.at = "verifying" /\ v.user # NoOne => acc[v.user] # NoAccount
    /\ v.at \in {"claiming", "creating", "entering"} => inv[v.ask.invite].at # "unused"
    /\ v.at = "entering" => acc[inv[v.ask.invite].email] # NoAccount
    /\ v.at \in {"numbering", "recording"} =>
          IF v.ask.do = "convert" THEN v.from \in Demands /\ v.prefix = "CHG" ELSE v.from = NoOne

Slots ==
    /\ request \in [Requests -> SlotState]
    /\ \A r \in Requests : Backed(account, invite, request[r])

\* No request comes to hold the lock of a counter.
NoneFiles == \A q \in Requests : request'[q].at = "recording" => request'[q] = request[q]

Settled == TablesInv' /\ Slots' /\ EndedStep

Moved == Settled /\ NoneFiles

LEMMA SlotShape ==
    ASSUME NEW v \in SlotState
    PROVE  /\ v.at = "done" => v \in Replied
           /\ v.at = "verifying" => v \in Verifying
           /\ v.at \in {"looking", "claiming", "creating", "entering"} => v \in Redeeming
           /\ v.at = "resolved" => v \in Signed
           /\ v.at = "acting" => v \in Signed \cup Anonymous
           /\ v.at = "revoking" => v \in Revoking
           /\ v.at = "checking" => v \in Checking
           /\ v.at = "numbering" => v \in Drafting
           /\ v.at = "recording" => v \in Filing
           /\ v.at \in Steps
  BY DEF SlotState, Idle, Replied, Verifying, Redeeming, Signed, Anonymous, Revoking, Checking,
         Drafting, Filing, Steps

LEMMA AskShape ==
    ASSUME NEW a \in LoginAsk \cup RedeemAsk \cup ActorAsk
    PROVE  /\ a.do = "login" => a \in LoginAsk
           /\ a.do = "redeem" => a \in RedeemAsk
           /\ a.do \in SignedAsks => a \in ActorAsk /\ a.as \in Sessions
           /\ a.do = "logout" => a \in LogoutAsk
           /\ a.do = "revoke" => a \in RevokeAsk
           /\ a.do = "invite" => a \in InviteAsk
           /\ a.do = "create" => a \in CreateAsk
           /\ a.do = "convert" => a \in ConvertAsk
  BY DEF LoginAsk, RedeemAsk, ActorAsk, LogoutAsk, RevokeAsk, InviteAsk, CreateAsk, ConvertAsk,
         SignedAsks

LEMMA BackedKept ==
    ASSUME TablesTyped, Grown, NEW v \in SlotState, Backed(account, invite, v)
    PROVE  Backed(account', invite', v)
  <1>1. v.at = "verifying" /\ v.user # NoOne => v.user \in Emails
    BY SlotShape DEF Verifying
  <1>2. v.at \in {"claiming", "creating", "entering"} => v.ask.invite \in Invites
    BY SlotShape DEF Redeeming, RedeemAsk
  <1>3. \A i \in Invites : invite[i].at # "unused" => invite[i].email \in Emails
    BY Shapes DEF InviteRow
  <1> QED  BY <1>1, <1>2, <1>3 DEF Backed, Grown

(* A step of request r that changes the tables in one of the nine ways. *)
LEMMA Settler ==
    ASSUME TablesInv, Slots, UNCHANGED scene, Change, Charged',
           NEW r \in Requests, NEW v \in SlotState, Backed(account', invite', v),
           request' = [request EXCEPT ![r] = v]
    PROVE  Settled
  <1>1. Good
    BY ChangeGood DEF TablesInv, Rows
  <1>2. TablesInv'
    BY <1>1 DEF Good, Rows, TablesInv
  <1>3. \A q \in Requests : request'[q] = IF q = r THEN v ELSE request[q]
    BY DEF Slots
  <1>4. request' \in [Requests -> SlotState]
    BY DEF Slots
  <1>5. \A q \in Requests : Backed(account', invite', request'[q])
    <2> SUFFICES ASSUME NEW q \in Requests PROVE Backed(account', invite', request'[q])
      OBVIOUS
    <2>1. Backed(account', invite', request[q])
      BY <1>1, BackedKept DEF Good, Slots, TablesInv
    <2> QED  BY <1>3, <2>1
  <1> QED  BY <1>1, <1>2, <1>4, <1>5 DEF Settled, Slots, Good

LEMMA Mover ==
    ASSUME TablesInv, Slots, UNCHANGED scene, Change, Charged',
           NEW r \in Requests, NEW v \in SlotState, Backed(account', invite', v),
           request' = [request EXCEPT ![r] = v], v.at # "recording"
    PROVE  Moved
  <1>1. NoneFiles
    BY DEF NoneFiles, Slots
  <1> QED  BY <1>1, Settler DEF Moved

LEMMA EndsMoved ==
    ASSUME TablesInv, Slots, UNCHANGED scene, Change, Charged',
           NEW r \in Requests, NEW what \in Replies, Ends(r, what)
    PROVE  Moved
  <1>1. Answer(what) \in SlotState /\ Answer(what).at = "done"
    BY DEF Answer, SlotState, Replied
  <1>2. Backed(account', invite', Answer(what))
    BY <1>1 DEF Backed
  <1> QED  BY <1>1, <1>2, Mover DEF Ends

(* createSession: whoever is let in has an account. *)
LEMMA SignedInMoved ==
    ASSUME TablesInv, Slots, UNCHANGED <<scene, clock, account, invite, limiter, revoked>>,
           NEW r \in Requests, NEW u \in Emails, account[u] # NoAccount, EndsSignedIn(r, u)
    PROVE  Moved
  <1>1. PICK s \in Sessions :
           /\ session[s] = Unused
           /\ session' = [session EXCEPT ![s] = SessionOf(u, clock + SessionAge)]
           /\ request' = [request EXCEPT ![r] = [Answer("ok") EXCEPT !.cookie = s,
                                                                     !.until = clock + SessionAge]]
    BY DEF EndsSignedIn
  <1> DEFINE v == [Answer("ok") EXCEPT !.cookie = s, !.until = clock + SessionAge]
  <1>2. clock + SessionAge \in Nat
    BY AgesAssumption DEF TablesInv, TablesTyped
  <1>3. v \in Replied /\ v.at = "done"
    BY <1>2 DEF Answer, Replied, Replies
  <1> HIDE DEF v
  <1>4. v \in SlotState /\ Backed(account', invite', v)
    BY <1>3 DEF SlotState, Backed
  <1>5. Change /\ Charged'
    BY <1>1 DEF Change, Opened, limiter, TablesInv, Charged
  <1> QED  BY <1>1, <1>3, <1>4, <1>5, Mover DEF v

\* A step that leaves the tables alone.
LEMMA Still ==
    ASSUME TablesInv, UNCHANGED <<clock, account, session, invite, limiter, revoked>>
    PROVE  Change /\ Charged'
  BY DEF Change, tables, limiter, TablesInv, Charged

(* A handler that goes on to its next await. *)
LEMMA GoesMoved ==
    ASSUME TablesInv, Slots, UNCHANGED scene, Change, Charged',
           NEW r \in Requests, NEW step, Goes(r, step), step # "recording",
           [request[r] EXCEPT !.at = step] \in SlotState,
           Backed(account', invite', [request[r] EXCEPT !.at = step])
    PROVE  Moved
  <1> DEFINE v == [request[r] EXCEPT !.at = step]
  <1>1. request' = [request EXCEPT ![r] = v]
    BY DEF Goes
  <1>2. v.at # "recording"
    <2>1. "at" \in DOMAIN request[r]
      BY DEF Slots, SlotState, Idle, Replied, Verifying, Redeeming, Signed, Anonymous, Revoking,
             Checking, Drafting, Filing
    <2> QED  BY <2>1
  <1> HIDE DEF v
  <1> QED  BY <1>1, <1>2, Mover DEF v

LEMMA RateLimitTyped ==
    ASSUME NEW b \in BucketRow, clock \in Nat
    PROVE  RateLimit(b) \in BucketRow
  <1>1. CASE Opens(b)
    BY <1>1, AgesAssumption DEF RateLimit, BucketRow
  <1>2. CASE ~Opens(b) /\ Allows(b)
    <2>1. b.count + 1 \in 0..MaxHits
      BY <1>2, AgesAssumption DEF Allows, BucketRow
    <2> QED  BY <1>2, <2>1 DEF RateLimit, BucketRow
  <1>3. CASE ~Opens(b) /\ ~Allows(b)
    BY <1>3 DEF RateLimit, BucketRow
  <1> QED  BY <1>1, <1>2, <1>3

-----------------------------------------------------------------------------
(* One lemma for each await of a handler *)

Ask == LoginAsk \cup RedeemAsk \cup ActorAsk

LEMMA LoginArrivesMoved ==
    ASSUME TablesInv, Slots, NEW r \in Requests, NEW ask \in Ask, LoginArrives(r, ask)
    PROVE  Moved
  <1>1. ask \in LoginAsk
    BY AskShape DEF LoginArrives, Ask
  <1>2. Change /\ UNCHANGED scene
    BY DEF LoginArrives, Change, tables
  <1>3. Charged'
    <2>1. \A k \in Keys : RateLimit(bucket[k]) \in BucketRow /\ bucket[k] \in BucketRow
      BY RateLimitTyped, AgesAssumption DEF TablesInv, TablesTyped, Charged
    <2> QED  BY <2>1 DEF LoginArrives, LoginCharged, Charged
  <1>4. CASE LoginAllowed(ask.email, ask.ip)
    <2> DEFINE v == [at |-> "verifying", ask |-> ask, as |-> NoOne,
                     user |-> IF ask.exact /\ account[ask.email].active THEN ask.email ELSE NoOne]
    <2>1. v \in Verifying
      BY <1>1 DEF Verifying, LoginAsk
    <2>2. v.user # NoOne => account[v.user] # NoAccount
      BY RowShapes
    <2>3. v \in SlotState /\ Backed(account', invite', v) /\ v.at # "recording"
      BY <2>1, <2>2 DEF SlotState, Backed, LoginArrives
    <2>4. request' = [request EXCEPT ![r] = v]
      BY <1>4 DEF LoginArrives
    <2> HIDE DEF v
    <2> QED  BY <1>2, <1>3, <2>3, <2>4, Mover
  <1>5. CASE ~LoginAllowed(ask.email, ask.ip)
    BY <1>2, <1>3, <1>5, EndsMoved DEF LoginArrives, Replies
  <1> QED  BY <1>4, <1>5

LEMMA LoginVerifiedMoved ==
    ASSUME TablesInv, Slots, NEW r \in Requests, LoginVerified(r)
    PROVE  Moved
  <1>1. request[r] \in Verifying /\ Backed(account, invite, request[r]) /\ At(r, "verifying")
    BY SlotShape DEF Slots, LoginVerified, At
  <1>2. CASE request[r].user # NoOne /\ EndsSignedIn(r, request[r].user)
    <2>1. request[r].user \in Emails /\ account[request[r].user] # NoAccount
      BY <1>1, <1>2 DEF Verifying, Backed, At
    <2>2. UNCHANGED <<scene, clock, account, invite, limiter, revoked>>
      BY DEF LoginVerified
    <2> QED  BY <1>2, <2>1, <2>2, SignedInMoved
  <1>3. CASE Ends(r, "invalid_credentials") /\ UNCHANGED session
    BY <1>3, Still, EndsMoved DEF LoginVerified, Replies
  <1> QED  BY <1>2, <1>3 DEF LoginVerified

LEMMA RedeemArrivesMoved ==
    ASSUME TablesInv, Slots, NEW r \in Requests, NEW ask \in Ask, RedeemArrives(r, ask)
    PROVE  Moved
  <1>1. ask \in RedeemAsk
    BY AskShape DEF RedeemArrives, Ask
  <1>2. Change /\ UNCHANGED scene
    BY DEF RedeemArrives, Change, tables
  <1>3. Charged'
    <2>1. RedeemKey(ask.ip) \in Keys
      BY <1>1 DEF RedeemAsk, Keys
    <2>2. RateLimit(bucket[RedeemKey(ask.ip)]) \in BucketRow
      BY <2>1, RateLimitTyped, AgesAssumption DEF TablesInv, TablesTyped, Charged
    <2> QED  BY <2>1, <2>2 DEF RedeemArrives, Charged, TablesInv
  <1>4. CASE Allows(bucket[RedeemKey(ask.ip)])
    <2> DEFINE v == [at |-> "looking", ask |-> ask, as |-> NoOne, user |-> NoOne]
    <2>1. v \in SlotState /\ Backed(account', invite', v) /\ v.at # "recording"
      BY <1>1 DEF SlotState, Redeeming, Backed
    <2>2. request' = [request EXCEPT ![r] = v]
      BY <1>4 DEF RedeemArrives
    <2> HIDE DEF v
    <2> QED  BY <1>2, <1>3, <2>1, <2>2, Mover
  <1>5. CASE ~Allows(bucket[RedeemKey(ask.ip)])
    BY <1>2, <1>3, <1>5, EndsMoved DEF RedeemArrives, Replies
  <1> QED  BY <1>4, <1>5

(* A redemption that goes on keeps its ask. *)
LEMMA RedeemGoes ==
    ASSUME NEW v \in Redeeming, NEW step \in {"claiming", "creating", "entering"}
    PROVE  /\ [v EXCEPT !.at = step] \in SlotState
           /\ \A acc, inv : Backed(acc, inv, [v EXCEPT !.at = step]) <=>
                 /\ inv[v.ask.invite].at # "unused"
                 /\ step = "entering" => acc[inv[v.ask.invite].email] # NoAccount
  BY DEF Redeeming, SlotState, Backed

LEMMA RedeemLooksMoved ==
    ASSUME TablesInv, Slots, NEW r \in Requests, RedeemLooks(r)
    PROVE  Moved
  <1> DEFINE i == request[r].ask.invite
  <1>1. request[r] \in Redeeming
    BY SlotShape DEF Slots, RedeemLooks, At
  <1>2. Change /\ Charged' /\ UNCHANGED <<scene, account, invite>>
    BY Still DEF RedeemLooks
  <1>3. CASE Redeemable(i) /\ account[invite[i].email] = NoAccount
    <2>1. Goes(r, "claiming") /\ invite[i].at # "unused"
      BY <1>3 DEF RedeemLooks, Redeemable
    <2>2. /\ [request[r] EXCEPT !.at = "claiming"] \in SlotState
          /\ Backed(account', invite', [request[r] EXCEPT !.at = "claiming"])
      BY <1>1, <1>2, <2>1, RedeemGoes
    <2> QED  BY <1>2, <2>1, <2>2, GoesMoved
  <1>4. CASE ~(Redeemable(i) /\ account[invite[i].email] = NoAccount)
    BY <1>2, <1>4, EndsMoved DEF RedeemLooks, Replies
  <1> QED  BY <1>3, <1>4

LEMMA RedeemClaimsMoved ==
    ASSUME TablesInv, Slots, NEW r \in Requests, RedeemClaims(r)
    PROVE  Moved
  <1> DEFINE i == request[r].ask.invite
  <1>1. request[r] \in Redeeming /\ invite[i].at # "unused"
    BY SlotShape DEF Slots, RedeemClaims, At, Backed
  <1>2. Change /\ Charged' /\ UNCHANGED <<scene, account, invite>>
    BY Still DEF RedeemClaims
  <1>3. CASE invite[i].at = "open"
    <2>1. Goes(r, "creating")
      BY <1>3 DEF RedeemClaims
    <2>2. /\ [request[r] EXCEPT !.at = "creating"] \in SlotState
          /\ Backed(account', invite', [request[r] EXCEPT !.at = "creating"])
      BY <1>1, <1>2, <2>1, RedeemGoes
    <2> QED  BY <1>2, <2>1, <2>2, GoesMoved
  <1>4. CASE invite[i].at # "open"
    BY <1>2, <1>4, EndsMoved DEF RedeemClaims, Replies
  <1> QED  BY <1>3, <1>4

LEMMA RedeemCreatesMoved ==
    ASSUME TablesInv, Slots, NEW r \in Requests, RedeemCreates(r)
    PROVE  Moved
  <1>1. PICK i \in Invites : i = request[r].ask.invite
    BY SlotShape DEF Slots, RedeemCreates, At, Redeeming, RedeemAsk
  <1>2. request[r] \in Redeeming /\ invite[i].at # "unused"
    BY <1>1, SlotShape DEF Slots, RedeemCreates, At, Backed
  <1>3. UNCHANGED <<scene, clock, session, limiter, revoked>>
    BY DEF RedeemCreates
  <1>4. CASE account[invite[i].email] = NoAccount
    <2>1. /\ account' = [account EXCEPT ![invite[i].email] = Account("GUEST", invite[i].client, {})]
          /\ invite' = [invite EXCEPT ![i].at = "redeemed"]
          /\ Goes(r, "entering")
      BY <1>1, <1>4 DEF RedeemCreates
    <2>2. Change /\ Charged'
      BY <1>2, <1>3, <1>4, <2>1 DEF Change, Joined, limiter, TablesInv, Charged
    <2>3. PICK e \in Emails : e = invite[i].email
      BY <1>2, Shapes DEF TablesInv, InviteRow
    <2>4. account'[e] = Account("GUEST", invite[i].client, {})
      BY <2>1, <2>3 DEF TablesInv, TablesTyped
    <2>5. account'[e] # NoAccount
      BY <2>4 DEF Account, NoAccount
    <2>6. invite[i] \in InviteRow
      BY <1>2, Shapes DEF TablesInv
    <2>7. invite'[i].at = "redeemed" /\ invite'[i].email = e
      BY <2>1, <2>3, <2>6 DEF TablesInv, TablesTyped, InviteRow
    <2>8. /\ [request[r] EXCEPT !.at = "entering"] \in SlotState
          /\ Backed(account', invite', [request[r] EXCEPT !.at = "entering"])
      BY <1>1, <1>2, <2>5, <2>7, RedeemGoes
    <2> QED  BY <1>3, <2>1, <2>2, <2>8, GoesMoved
  <1>5. CASE account[invite[i].email] # NoAccount
    <2>1. Ends(r, "gone") /\ UNCHANGED <<account, invite>>
      BY <1>1, <1>5 DEF RedeemCreates
    <2> QED  BY <1>3, <2>1, Still, EndsMoved DEF Replies
  <1> QED  BY <1>4, <1>5

LEMMA RedeemEntersMoved ==
    ASSUME TablesInv, Slots, NEW r \in Requests, RedeemEnters(r)
    PROVE  Moved
  <1>1. PICK i \in Invites : i = request[r].ask.invite
    BY SlotShape DEF Slots, RedeemEnters, At, Redeeming, RedeemAsk
  <1>2. invite[i].at # "unused" /\ account[invite[i].email] # NoAccount
    BY <1>1 DEF Slots, RedeemEnters, At, Backed
  <1>3. invite[i].email \in Emails
    BY <1>2, Shapes DEF TablesInv, InviteRow
  <1> QED  BY <1>1, <1>2, <1>3, SignedInMoved DEF RedeemEnters

LEMMA ResolvesMoved ==
    ASSUME TablesInv, Slots, NEW r \in Requests, NEW ask \in Ask, Resolves(r, ask)
    PROVE  Moved
  <1>1. ask \in ActorAsk /\ ask.as \in Sessions /\ (ask.do = "logout" => ask \in LogoutAsk)
    BY AskShape DEF Resolves, Ask
  <1>2. Change /\ Charged' /\ UNCHANGED scene
    BY Still DEF Resolves
  <1>3. CASE Live(ask.as)
    <2> DEFINE v == [at |-> "resolved", ask |-> ask, as |-> ask.as, user |-> session[ask.as].user]
    <2>1. session[ask.as].user \in Emails
      BY <1>1, <1>3, Shapes DEF Live, TablesInv, SessionRow
    <2>2. v \in SlotState /\ Backed(account', invite', v) /\ v.at # "recording"
      BY <1>1, <2>1 DEF SlotState, Signed, Backed
    <2>3. request' = [request EXCEPT ![r] = v]
      BY <1>3 DEF Resolves
    <2> HIDE DEF v
    <2> QED  BY <1>2, <2>2, <2>3, Mover
  <1>4. CASE ~Live(ask.as) /\ ask.do = "logout"
    <2> DEFINE v == [at |-> "acting", ask |-> ask, as |-> NoOne, user |-> NoOne]
    <2>1. v \in SlotState /\ Backed(account', invite', v) /\ v.at # "recording"
      BY <1>1, <1>4 DEF SlotState, Anonymous, Backed
    <2>2. request' = [request EXCEPT ![r] = v]
      BY <1>4 DEF Resolves
    <2> HIDE DEF v
    <2> QED  BY <1>2, <2>1, <2>2, Mover
  <1>5. CASE ~Live(ask.as) /\ ask.do # "logout"
    BY <1>2, <1>5, EndsMoved DEF Resolves, Replies
  <1> QED  BY <1>3, <1>4, <1>5

LEMMA TouchesMoved ==
    ASSUME TablesInv, Slots, NEW r \in Requests, Touches(r)
    PROVE  Moved
  <1>1. request[r] \in Signed /\ request[r].as \in Sessions
    BY SlotShape DEF Slots, Touches, At, Signed
  <1>2. UNCHANGED <<scene, clock, account, invite, limiter, revoked>> /\ Goes(r, "acting")
    BY DEF Touches
  <1>3. Change /\ Charged'
    <2>1. CASE session[request[r].as].at = "row" /\ session[request[r].as].expires > clock
      BY <1>1, <1>2, <2>1 DEF Touches, Change, Extended, limiter, TablesInv, Charged
    <2>2. CASE ~(session[request[r].as].at = "row" /\ session[request[r].as].expires > clock)
      <3>1. UNCHANGED session
        BY <2>2 DEF Touches
      <3> QED  BY <1>2, <3>1, Still
    <2> QED  BY <2>1, <2>2
  <1>4. /\ [request[r] EXCEPT !.at = "acting"] \in SlotState
        /\ Backed(account', invite', [request[r] EXCEPT !.at = "acting"])
    BY <1>1 DEF Signed, SlotState, Backed
  <1> QED  BY <1>2, <1>3, <1>4, GoesMoved

(* A handler that acts for someone. *)
LEMMA Actor ==
    ASSUME Slots, NEW r \in Requests, NEW do \in SignedAsks, Acts(r, do)
    PROVE  /\ request[r].ask \in ActorAsk
           /\ do # "logout" => request[r] \in Signed
           /\ do = "logout" => request[r].ask \in LogoutAsk
           /\ do = "revoke" => request[r].ask \in RevokeAsk
           /\ do = "invite" => request[r].ask \in InviteAsk
           /\ do = "create" => request[r].ask \in CreateAsk
           /\ do = "convert" => request[r].ask \in ConvertAsk
  <1>1. request[r] \in Signed \cup Anonymous /\ request[r].ask.do = do
    BY SlotShape DEF Slots, Acts, At
  <1>2. request[r] \in Anonymous => do = "logout"
    BY <1>1 DEF Anonymous, LogoutAsk
  <1>3. request[r].ask \in ActorAsk
    BY <1>1 DEF Signed, Anonymous, ActorAsk
  <1> QED  BY <1>1, <1>2, <1>3, AskShape

LEMMA ReadsMoved ==
    ASSUME TablesInv, Slots, NEW r \in Requests, Reads(r)
    PROVE  Moved
  BY Still, EndsMoved DEF Reads, Replies

LEMMA LogsOutMoved ==
    ASSUME TablesInv, Slots, NEW r \in Requests, LogsOut(r)
    PROVE  Moved
  <1>1. request[r].ask.as \in Sessions
    BY Actor DEF LogsOut, LogoutAsk, SignedAsks
  <1>2. Change /\ Charged'
    BY <1>1 DEF LogsOut, Change, Dropped, limiter, TablesInv, Charged
  <1> QED  BY <1>2, EndsMoved DEF LogsOut, Replies

LEMMA RevokeLooksMoved ==
    ASSUME TablesInv, Slots, NEW r \in Requests, RevokeLooks(r)
    PROVE  Moved
  <1>1. request[r] \in Signed /\ request[r].ask \in RevokeAsk
    BY Actor DEF RevokeLooks, SignedAsks
  <1>2. Change /\ Charged' /\ UNCHANGED scene
    BY Still DEF RevokeLooks
  <1>3. CASE Goes(r, "revoking")
    <2>1. /\ [request[r] EXCEPT !.at = "revoking"] \in SlotState
          /\ Backed(account', invite', [request[r] EXCEPT !.at = "revoking"])
      BY <1>1 DEF Signed, Revoking, SlotState, Backed
    <2> QED  BY <1>2, <1>3, <2>1, GoesMoved
  <1>4. CASE Ends(r, "not_found")
    BY <1>2, <1>4, EndsMoved DEF Replies
  <1> QED  BY <1>3, <1>4 DEF RevokeLooks

LEMMA RevokeDeletesMoved ==
    ASSUME TablesInv, Slots, NEW r \in Requests, RevokeDeletes(r)
    PROVE  Moved
  <1> DEFINE s == request[r].ask.target
  <1>1. s \in Sessions
    BY SlotShape DEF Slots, RevokeDeletes, At, Revoking, RevokeAsk
  <1>2. UNCHANGED <<scene, clock, account, invite, limiter>>
    BY DEF RevokeDeletes
  <1>3. CASE session[s].at = "row"
    <2>1. /\ session' = [session EXCEPT ![s] = Gone]
          /\ revoked' = [revoked EXCEPT ![s] = @ + 1]
          /\ Ends(r, "ok")
      BY <1>3 DEF RevokeDeletes
    <2> HIDE DEF s
    <2>2. Change /\ Charged'
      BY <1>1, <1>2, <1>3, <2>1 DEF Change, Withdrawn, limiter, TablesInv, Charged
    <2> QED  BY <1>2, <2>1, <2>2, EndsMoved DEF Replies
  <1>4. CASE session[s].at # "row"
    <2>1. Ends(r, "not_found") /\ UNCHANGED <<session, revoked>>
      BY <1>4 DEF RevokeDeletes
    <2> QED  BY <1>2, <2>1, Still, EndsMoved DEF Replies
  <1> QED  BY <1>3, <1>4

LEMMA CreatesInviteMoved ==
    ASSUME TablesInv, Slots, NEW r \in Requests, CreatesInvite(r)
    PROVE  Moved
  <1>1. request[r].ask \in InviteAsk
    BY Actor DEF CreatesInvite, SignedAsks
  <1>2. UNCHANGED <<scene, clock, account, session, limiter, revoked>>
    BY DEF CreatesInvite
  <1>3. CASE account[request[r].user].kind = "INTERNAL"
    <2>1. Ends(r, "ok") /\ Invited
      BY <1>1, <1>2, <1>3 DEF CreatesInvite, Invited, InviteAsk
    <2>2. Change /\ Charged'
      BY <1>2, <2>1 DEF Change, limiter, TablesInv, Charged
    <2> QED  BY <1>2, <2>1, <2>2, EndsMoved DEF Replies
  <1>4. CASE account[request[r].user].kind # "INTERNAL"
    <2>1. Ends(r, "forbidden") /\ UNCHANGED invite
      BY <1>4 DEF CreatesInvite
    <2> QED  BY <1>2, <2>1, Still, EndsMoved DEF Replies
  <1> QED  BY <1>3, <1>4

LEMMA HandlesMoved ==
    ASSUME TablesInv, Slots, NEW r \in Requests, Handles(r)
    PROVE  Moved
  BY LoginVerifiedMoved, RedeemLooksMoved, RedeemClaimsMoved, RedeemCreatesMoved,
     RedeemEntersMoved, TouchesMoved, ReadsMoved, LogsOutMoved, RevokeLooksMoved,
     RevokeDeletesMoved, CreatesInviteMoved DEF Handles

LEMMA ArrivesMoved ==
    ASSUME TablesInv, Slots, NEW r \in Requests, NEW ask \in Ask, Arrives(r, ask)
    PROVE  Moved
  BY LoginArrivesMoved, RedeemArrivesMoved, ResolvesMoved DEF Arrives

LEMMA FailsMoved ==
    ASSUME TablesInv, Slots, NEW r \in Requests, Fails(r)
    PROVE  Moved
  BY Still, EndsMoved DEF Fails, Replies

LEMMA LeavesMoved ==
    ASSUME TablesInv, Slots, NEW r \in Requests, Leaves(r)
    PROVE  Moved
  <1>1. Idle \in SlotState /\ Backed(account', invite', Idle) /\ Idle.at # "recording"
    BY DEF SlotState, Backed, Idle
  <1>2. Change /\ Charged'
    BY Still DEF Leaves
  <1> QED  BY <1>1, <1>2, Mover DEF Leaves

(* Everyone who was under way is told that it failed, and the limiter starts
   anew. *)
LEMMA CrashMoved ==
    ASSUME TablesInv, Slots, Crash
    PROVE  Moved
  <1>1. UNCHANGED <<scene, clock, account, session, invite, revoked>>
    BY DEF Crash
  <1>2. Rows' /\ EndedStep
    <2>1. Change
      BY <1>1 DEF Change, tables
    <2> QED  BY <1>1, <2>1, ChangeGood DEF TablesInv, Rows, Good
  <1>3. Charged'
    BY AgesAssumption DEF Crash, Charged, EmptyBucket, BucketRow
  <1> DEFINE broken == Answer("failed")
  <1>4. broken \in SlotState /\ broken.at = "done" /\ Backed(account', invite', broken)
    BY DEF Answer, SlotState, Replied, Replies, Backed
  <1>5. \A r \in Requests : request'[r] = IF UnderWay(r) THEN broken ELSE request[r]
    BY DEF Crash
  <1>6. request' \in [Requests -> SlotState]
    BY <1>4 DEF Crash, Slots
  <1> HIDE DEF broken
  <1>7. \A r \in Requests : Backed(account', invite', request'[r])
    BY <1>1, <1>4, <1>5 DEF Slots
  <1>8. NoneFiles
    BY <1>4, <1>5 DEF NoneFiles
  <1> QED  BY <1>2, <1>3, <1>6, <1>7, <1>8 DEF Moved, Settled, TablesInv, Rows, Slots

(* A step of nobody's request. *)
LEMMA OutsideMoved ==
    ASSUME TablesInv, Slots, UNCHANGED <<scene, limiter, request>>, Change
    PROVE  Moved
  <1>1. Good
    BY ChangeGood DEF TablesInv, Rows
  <1>2. TablesInv'
    BY <1>1 DEF Good, Rows, TablesInv, Charged, limiter
  <1>3. \A r \in Requests : Backed(account', invite', request'[r])
    <2> SUFFICES ASSUME NEW r \in Requests PROVE Backed(account', invite', request[r])
      OBVIOUS
    <2> QED  BY <1>1, BackedKept DEF Good, Slots, TablesInv
  <1> QED  BY <1>1, <1>2, <1>3 DEF Moved, Settled, Slots, Good, NoneFiles

-----------------------------------------------------------------------------
(* The counters *)

RecordRow == [prefix : Prefixes, number : Nat, from : Demands \cup {NoOne}]

Numbered ==
    /\ counter \in [Prefixes -> 0..MaxRefs]
    /\ records \in SUBSET RecordRow /\ IsFiniteSet(records)
    /\ demand \in [Demands -> {"APPROVED", "CONVERTED"}]

\* Who has taken a number holds the lock of its counter, and the number is the
\* next one.
Locked ==
    /\ \A r \in Requests : At(r, "recording") =>
          /\ request[r].number = counter[request[r].prefix] + 1
          /\ request[r].number <= MaxRefs
    /\ \A q, r \in Requests :
          At(q, "recording") /\ At(r, "recording") /\ request[q].prefix = request[r].prefix => q = r

RefsInv == Numbered /\ Locked /\ RefsWithoutGaps

LEMMA Unlocked ==
    ASSUME RefsInv, NoneFiles, UNCHANGED intakeVars
    PROVE  RefsInv'
  <1>1. Numbered' /\ RefsWithoutGaps'
    BY DEF RefsInv, Numbered, RefsWithoutGaps, ChangesOf, intakeVars
  <1>2. Locked'
    BY DEF RefsInv, Locked, NoneFiles, At, intakeVars
  <1> QED  BY <1>1, <1>2 DEF RefsInv

(* The records of a prefix, and the one that comes next. *)
With(recs, p) == {c \in recs : c.prefix = p}
Numbers(recs, p) == {c.number : c \in With(recs, p)}

LEMMA NextRecord ==
    ASSUME NEW recs \in SUBSET RecordRow, IsFiniteSet(recs), NEW p \in Prefixes, NEW n \in Nat,
           Numbers(recs, p) = 1..n, Cardinality(With(recs, p)) = n,
           NEW rec \in RecordRow, rec.prefix = p, rec.number = n + 1
    PROVE  /\ Numbers(recs \cup {rec}, p) = 1..(n + 1)
           /\ Cardinality(With(recs \cup {rec}, p)) = n + 1
           /\ \A q \in Prefixes \ {p} : /\ With(recs \cup {rec}, q) = With(recs, q)
                                        /\ Numbers(recs \cup {rec}, q) = Numbers(recs, q)
  <1>1. With(recs \cup {rec}, p) = With(recs, p) \cup {rec}
    BY DEF With
  <1>2. rec \notin With(recs, p)
    <2> SUFFICES ASSUME rec \in With(recs, p) PROVE FALSE
      OBVIOUS
    <2>1. n + 1 \in Numbers(recs, p)
      BY DEF Numbers
    <2> QED  BY <2>1
  <1>3. IsFiniteSet(With(recs, p))
    BY FS_Subset DEF With
  <1>4. Cardinality(With(recs \cup {rec}, p)) = n + 1
    <2>1. Cardinality(With(recs, p) \cup {rec}) = Cardinality(With(recs, p)) + 1
      BY <1>2, <1>3, FS_AddElement
    <2> QED  BY <1>1, <2>1
  <1>5. Numbers(recs \cup {rec}, p) = Numbers(recs, p) \cup {n + 1}
    BY <1>1 DEF Numbers
  <1>6. (1..n) \cup {n + 1} = 1..(n + 1)
    OBVIOUS
  <1>7. \A q \in Prefixes \ {p} : With(recs \cup {rec}, q) = With(recs, q)
    BY DEF With
  <1> QED  BY <1>4, <1>5, <1>6, <1>7 DEF Numbers

(* The commit of a record with its number. *)
LEMMA KeepsRefs ==
    ASSUME Slots, RefsInv, NEW r \in Requests, At(r, "recording"), Keeps(r),
           demand' \in [Demands -> {"APPROVED", "CONVERTED"}],
           \A d \in Demands : request[r].from # d => demand'[d] = demand[d],
           \A d \in Demands : request[r].from = d =>
              /\ request[r].prefix = "CHG" /\ ChangesOf(d) = {}
              /\ demand'[d] = "CONVERTED"
    PROVE  RefsInv'
  <1>1. request[r] \in Filing
    BY SlotShape DEF Slots, At
  <1>2. PICK p \in Prefixes, n \in Nat, f \in Demands \cup {NoOne} :
           p = request[r].prefix /\ n = counter[p] /\ f = request[r].from
    BY <1>1 DEF Filing, RefsInv, Numbered
  <1>3. request[r].number = n + 1 /\ n + 1 <= MaxRefs
    BY <1>2 DEF RefsInv, Locked
  <1> DEFINE rec == Record(p, n + 1, f)
  <1>4. rec \in RecordRow /\ rec.prefix = p /\ rec.number = n + 1 /\ rec.from = f
    BY DEF Record, RecordRow
  <1>5. /\ counter' = [counter EXCEPT ![p] = n + 1]
        /\ records' = records \cup {rec}
        /\ request' = [request EXCEPT ![r] = Answer("ok")]
    BY <1>2, <1>3 DEF Keeps, Ends
  <1> HIDE DEF rec
  <1>6. /\ \A q \in Prefixes : counter'[q] = IF q = p THEN n + 1 ELSE counter[q]
        /\ \A q \in Requests : request'[q] = IF q = r THEN Answer("ok") ELSE request[q]
    BY <1>5 DEF RefsInv, Numbered, Slots
  <1>7. records \in SUBSET RecordRow /\ IsFiniteSet(records)
    BY DEF RefsInv, Numbered
  <1>8. Numbered'
    <2>1. counter' \in [Prefixes -> 0..MaxRefs]
      BY <1>3, <1>5, RefsAssumption DEF RefsInv, Numbered
    <2>2. records' \in SUBSET RecordRow /\ IsFiniteSet(records')
      BY <1>4, <1>5, <1>7, FS_AddElement
    <2> QED  BY <2>1, <2>2 DEF Numbered
  <1>9. Answer("ok").at = "done"
    BY DEF Answer
  <1>10. Locked'
    <2>1. \A q \in Requests : request'[q].at = "recording" =>
             q # r /\ request'[q] = request[q] /\ request[q] \in Filing /\ request[q].prefix # p
      BY <1>2, <1>6, <1>9, SlotShape DEF RefsInv, Locked, At, Slots
    <2> QED  BY <1>6, <2>1 DEF RefsInv, Locked, At, Filing
  <1>11. ASSUME NEW q \in Prefixes
         PROVE  Numbers(records', q) = 1..counter'[q] /\ Cardinality(With(records', q)) = counter'[q]
    <2>1. \A x \in Prefixes : /\ Numbers(records, x) = 1..counter[x]
                              /\ Cardinality(With(records, x)) = counter[x]
      BY DEF RefsInv, RefsWithoutGaps, Numbers, With
    <2>2. Numbers(records, p) = 1..n /\ Cardinality(With(records, p)) = n
      BY <1>2, <2>1
    <2>3. /\ Numbers(records \cup {rec}, p) = 1..(n + 1)
          /\ Cardinality(With(records \cup {rec}, p)) = n + 1
          /\ \A x \in Prefixes \ {p} : /\ With(records \cup {rec}, x) = With(records, x)
                                       /\ Numbers(records \cup {rec}, x) = Numbers(records, x)
      BY <1>4, <1>7, <2>2, NextRecord
    <2>4. CASE q = p
      BY <1>5, <1>6, <2>3, <2>4
    <2>5. CASE q # p
      BY <1>5, <1>6, <2>1, <2>3, <2>5
    <2> QED  BY <2>4, <2>5
  <1>12. ASSUME NEW d \in Demands
         PROVE  Cardinality(ChangesOf(d)') = IF demand'[d] = "CONVERTED" THEN 1 ELSE 0
    <2>1. CASE f = d
      <3>1. ChangesOf(d)' = {rec}
        BY <1>2, <1>4, <1>5, <2>1 DEF ChangesOf
      <3>2. Cardinality({rec}) = 1
        BY FS_Singleton
      <3> QED  BY <1>2, <2>1, <3>1, <3>2
    <2>2. CASE f # d
      <3>1. ChangesOf(d)' = ChangesOf(d) /\ demand'[d] = demand[d]
        BY <1>2, <1>4, <1>5, <2>2 DEF ChangesOf
      <3> QED  BY <3>1 DEF RefsInv, RefsWithoutGaps
    <2> QED  BY <2>1, <2>2
  <1>13. RefsWithoutGaps'
    BY <1>11, <1>12 DEF RefsWithoutGaps, Numbers, With
  <1> QED  BY <1>8, <1>10, <1>13 DEF RefsInv

-----------------------------------------------------------------------------
(* The intake *)

Taken == Settled /\ RefsInv'

LEMMA QuietTaken ==
    ASSUME RefsInv, Moved, UNCHANGED intakeVars
    PROVE  Taken
  BY Unlocked DEF Moved, Taken

LEMMA NumberingMoved ==
    ASSUME TablesInv, Slots, UNCHANGED <<scene, clock, account, session, invite, limiter, revoked>>,
           NEW r \in Requests, NEW p \in Prefixes, NEW f \in Demands \cup {NoOne},
           request[r].ask \in CreateAsk \cup ConvertAsk,
           request[r].as \in Sessions, request[r].user \in Emails,
           IF request[r].ask.do = "convert" THEN f \in Demands /\ p = "CHG" ELSE f = NoOne,
           Numbering(r, p, f)
    PROVE  Moved
  <1> DEFINE v == [at |-> "numbering", ask |-> request[r].ask, as |-> request[r].as,
                   user |-> request[r].user, prefix |-> p, from |-> f]
  <1>1. v \in SlotState /\ Backed(account', invite', v) /\ v.at # "recording"
    BY DEF SlotState, Drafting, Backed
  <1>2. request' = [request EXCEPT ![r] = v]
    BY DEF Numbering
  <1> HIDE DEF v
  <1> QED  BY <1>1, <1>2, Still, Mover

LEMMA CreateBeginsTaken ==
    ASSUME TablesInv, Slots, RefsInv, NEW r \in Requests, CreateBegins(r)
    PROVE  Taken
  <1>1. request[r] \in Signed /\ request[r].ask \in CreateAsk
    BY Actor DEF CreateBegins, SignedAsks
  <1>2. UNCHANGED <<scene, clock, account, session, invite, limiter, revoked>> /\ UNCHANGED intakeVars
    BY DEF CreateBegins
  <1>3. PICK p \in Prefixes : p = request[r].ask.prefix
    BY <1>1 DEF CreateAsk
  <1>4. CASE Numbering(r, p, NoOne)
    BY <1>1, <1>2, <1>4, NumberingMoved, QuietTaken DEF Signed, CreateAsk
  <1>5. CASE Ends(r, "forbidden")
    BY <1>2, <1>5, Still, EndsMoved, QuietTaken DEF Replies
  <1> QED  BY <1>3, <1>4, <1>5 DEF CreateBegins

LEMMA ConvertReadsTaken ==
    ASSUME TablesInv, Slots, RefsInv, NEW r \in Requests, ConvertReads(r)
    PROVE  Taken
  <1>1. request[r] \in Signed /\ request[r].ask \in ConvertAsk
    BY Actor DEF ConvertReads, SignedAsks
  <1>2. UNCHANGED <<scene, clock, account, session, invite, limiter, revoked>> /\ UNCHANGED intakeVars
    BY DEF ConvertReads
  <1>3. CASE Goes(r, "checking")
    <2>1. /\ [request[r] EXCEPT !.at = "checking"] \in SlotState
          /\ Backed(account', invite', [request[r] EXCEPT !.at = "checking"])
      BY <1>1 DEF Signed, Checking, SlotState, Backed
    <2> QED  BY <1>2, <1>3, <2>1, Still, GoesMoved, QuietTaken
  <1>4. CASE Ends(r, "forbidden") \/ Ends(r, "ok")
    BY <1>2, <1>4, Still, EndsMoved, QuietTaken DEF Replies
  <1> QED  BY <1>3, <1>4 DEF ConvertReads

LEMMA ConvertChecksTaken ==
    ASSUME TablesInv, Slots, RefsInv, NEW r \in Requests, ConvertChecks(r)
    PROVE  Taken
  <1>1. request[r] \in Checking
    BY SlotShape DEF Slots, ConvertChecks, At
  <1>2. UNCHANGED <<scene, clock, account, session, invite, limiter, revoked>> /\ UNCHANGED intakeVars
    BY DEF ConvertChecks
  <1>3. PICK d \in Demands : d = request[r].ask.demand
    BY <1>1 DEF Checking, ConvertAsk
  <1>4. CASE Numbering(r, "CHG", d)
    BY <1>1, <1>2, <1>4, NumberingMoved, QuietTaken DEF Checking, ConvertAsk, Prefixes
  <1>5. CASE Ends(r, "ok")
    BY <1>2, <1>5, Still, EndsMoved, QuietTaken DEF Replies
  <1> QED  BY <1>3, <1>4, <1>5 DEF ConvertChecks

LEMMA TakesNumberTaken ==
    ASSUME TablesInv, Slots, RefsInv, NEW r \in Requests, TakesNumber(r)
    PROVE  Taken
  <1>1. request[r] \in Drafting /\ Backed(account, invite, request[r]) /\ At(r, "numbering")
    BY SlotShape DEF Slots, TakesNumber, At
  <1>2. UNCHANGED <<scene, clock, account, session, invite, limiter, revoked>> /\ UNCHANGED intakeVars
    BY DEF TakesNumber
  <1>3. PICK p \in Prefixes, n \in 0..MaxRefs : p = request[r].prefix /\ n = counter[p]
    BY <1>1 DEF Drafting, RefsInv, Numbered
  <1> DEFINE v == [at |-> "recording", ask |-> request[r].ask, as |-> request[r].as,
                   user |-> request[r].user, prefix |-> p, from |-> request[r].from,
                   number |-> n + 1]
  <1>4. request' = [request EXCEPT ![r] = v]
    BY <1>3 DEF TakesNumber
  <1>5. v \in Filing
    BY <1>1, <1>3 DEF Drafting, Filing
  <1>6. Backed(account', invite', v)
    BY <1>1, <1>3 DEF Backed, At
  <1>7. v.at = "recording" /\ v.prefix = p /\ v.number = n + 1
    OBVIOUS
  <1> HIDE DEF v
  <1>8. Settled
    BY <1>2, <1>4, <1>5, <1>6, Still, Settler DEF SlotState
  <1>9. \A q \in Requests : request'[q] = IF q = r THEN v ELSE request[q]
    BY <1>4 DEF Slots
  <1>10. n + 1 <= MaxRefs
    BY <1>3, RefsAssumption DEF TakesNumber
  <1>11. \A q \in Requests : At(q, "recording") => request[q].prefix # p
    BY <1>3 DEF TakesNumber
  <1>12. Locked'
    <2>1. \A q \in Requests : At(q, "recording")' =>
             /\ request'[q].number = counter'[request'[q].prefix] + 1
             /\ request'[q].number <= MaxRefs
      BY <1>2, <1>3, <1>7, <1>9, <1>10 DEF RefsInv, Locked, At, intakeVars
    <2>2. \A q, s \in Requests :
             At(q, "recording")' /\ At(s, "recording")' /\ request'[q].prefix = request'[s].prefix
                => q = s
      BY <1>7, <1>9, <1>11 DEF RefsInv, Locked, At
    <2> QED  BY <2>1, <2>2 DEF Locked
  <1>13. Numbered' /\ RefsWithoutGaps'
    BY <1>2 DEF RefsInv, Numbered, RefsWithoutGaps, ChangesOf, intakeVars
  <1> QED  BY <1>8, <1>12, <1>13 DEF Taken, RefsInv

LEMMA CreateRecordsTaken ==
    ASSUME TablesInv, Slots, RefsInv, NEW r \in Requests, CreateRecords(r)
    PROVE  Taken
  <1>1. request[r] \in Filing /\ request[r].from = NoOne /\ At(r, "recording")
    BY SlotShape DEF Slots, CreateRecords, At, Backed
  <1>2. /\ Keeps(r) /\ UNCHANGED demand
        /\ UNCHANGED <<scene, clock, account, session, invite, limiter, revoked>>
    BY DEF CreateRecords
  <1>3. RefsInv'
    BY <1>1, <1>2, KeepsRefs, RefsAssumption DEF RefsInv, Numbered
  <1>4. Moved
    BY <1>2, Still, EndsMoved DEF Keeps, Replies
  <1> QED  BY <1>3, <1>4 DEF Moved, Taken

LEMMA ConvertRecordsTaken ==
    ASSUME TablesInv, Slots, RefsInv, NEW r \in Requests, ConvertRecords(r)
    PROVE  Taken
  <1>1. /\ request[r] \in Filing /\ request[r].from \in Demands /\ request[r].prefix = "CHG"
        /\ At(r, "recording")
    BY SlotShape DEF Slots, ConvertRecords, At, Backed
  <1>2. UNCHANGED <<scene, clock, account, session, invite, limiter, revoked>>
    BY DEF ConvertRecords
  <1>3. CASE ChangesOf(request[r].from) = {}
    <2>1. Keeps(r) /\ demand' = [demand EXCEPT ![request[r].from] = "CONVERTED"]
      BY <1>3 DEF ConvertRecords
    <2>2. PICK e \in Demands : e = request[r].from
      BY <1>1
    <2>3. /\ demand' \in [Demands -> {"APPROVED", "CONVERTED"}]
          /\ \A d \in Demands : demand'[d] = IF d = e THEN "CONVERTED" ELSE demand[d]
      BY <2>1, <2>2 DEF RefsInv, Numbered
    <2>4. RefsInv'
      BY <1>1, <1>3, <2>1, <2>2, <2>3, KeepsRefs
    <2>5. Moved
      BY <1>2, <2>1, Still, EndsMoved DEF Keeps, Replies
    <2> QED  BY <2>4, <2>5 DEF Moved, Taken
  <1>4. CASE ChangesOf(request[r].from) # {}
    <2>1. Ends(r, "failed") /\ UNCHANGED intakeVars
      BY <1>4 DEF ConvertRecords
    <2> QED  BY <1>2, <2>1, Still, EndsMoved, QuietTaken DEF Replies
  <1> QED  BY <1>3, <1>4

LEMMA TakesTaken ==
    ASSUME TablesInv, Slots, RefsInv, NEW r \in Requests, Takes(r)
    PROVE  Taken
  BY CreateBeginsTaken, ConvertReadsTaken, ConvertChecksTaken, TakesNumberTaken,
     CreateRecordsTaken, ConvertRecordsTaken DEF Takes

-----------------------------------------------------------------------------
(* The browser *)

\* A form that waits knows which answer it waits for.
Browser ==
    /\ tab \in [at : {"resting", "loading"}, path : Paths, next : Paths, form : BOOLEAN,
                cookie : [session : Sessions \cup {NoOne}, until : Nat],
                waits : Requests \cup {NoOne}, for : {"none", "login", "redeem", "logout"}]
    /\ tab.waits # NoOne => tab.for # "none"

LEMMA VisitBrowser ==
    ASSUME Browser, NEW path \in Paths, Visit(path)
    PROVE  Browser'
  BY DEF Browser, Visit, Paths

LEMMA GuardInPaths ==
    ASSUME NEW path \in Paths, NEW kind
    PROVE  Guard(path, kind) \in Paths
  BY DEF Guard, Home, Paths

LEMMA HopBrowser ==
    ASSUME Browser, Hop
    PROVE  Browser'
  <1>1. CASE tab.path \notin Public /\ Carried = NoOne
    <2>1. tab' = [tab EXCEPT !.path = "/login", !.next = tab.path]
      BY <1>1 DEF Hop
    <2> QED  BY <2>1 DEF Browser, Paths
  <1>2. CASE ~(tab.path \notin Public /\ Carried = NoOne)
    <2>1. PICK path \in Paths : path = Guard(tab.path, CurrentKind)
      BY GuardInPaths DEF Browser
    <2>2. CASE path # tab.path
      <3>1. tab' = [tab EXCEPT !.path = path, !.next = "/overview"]
        BY <1>2, <2>1, <2>2 DEF Hop
      <3> QED  BY <3>1 DEF Browser, Paths
    <2>3. CASE path = tab.path
      <3> DEFINE form == path = "/portal/invite" /\ \E ask \in Offered : Redeemable(ask.invite)
      <3>1. tab' = [tab EXCEPT !.at = "resting", !.form = form]
        BY <1>2, <2>1, <2>3 DEF Hop
      <3>2. form \in BOOLEAN
        OBVIOUS
      <3> HIDE DEF form
      <3> QED  BY <3>1, <3>2 DEF Browser
    <2> QED  BY <2>2, <2>3
  <1> QED  BY <1>1, <1>2

LEMMA WaitsBrowser ==
    ASSUME Browser, NEW r \in Requests, NEW for \in {"login", "redeem", "logout"}, Waits(r, for)
    PROVE  Browser'
  BY DEF Browser, Waits

LEMMA LeavingBrowser ==
    ASSUME Browser, tab.for # "none", NEW c \in [session : Sessions \cup {NoOne}, until : Nat],
           tab' \in {Leaving, [Leaving EXCEPT !.cookie = c], Stays}
    PROVE  Browser'
  <1>1. Onward \in Paths
    BY DEF Browser, Onward, Paths
  <1> QED  BY <1>1 DEF Browser, Leaving, Stays, Paths

LEMMA AnsweredBrowser ==
    ASSUME TablesInv, Slots, Browser, NEW r \in Requests, Answered(r) \/ Unanswered(r)
    PROVE  Browser'
  <1>1. request[r] \in Replied
    BY SlotShape DEF Slots, Answered, Unanswered, Leaves, At
  <1>2. tab.for # "none"
    BY NoOneAssumption DEF Browser, Answered, Unanswered
  <1> DEFINE given == [session |-> request[r].cookie, until |-> request[r].until]
  <1>3. /\ given \in [session : Sessions \cup {NoOne}, until : Nat]
        /\ NoCookie \in [session : Sessions \cup {NoOne}, until : Nat]
    BY <1>1 DEF Replied, NoCookie
  <1>4. tab' \in {Leaving, [Leaving EXCEPT !.cookie = given],
                  [Leaving EXCEPT !.cookie = NoCookie], Stays}
    BY DEF Answered, Unanswered
  <1> HIDE DEF given
  <1> QED  BY <1>2, <1>3, <1>4, LeavingBrowser

-----------------------------------------------------------------------------
FrontInv == TablesInv /\ Slots /\ RefsInv /\ Browser

LEMMA FrontInitially == FrontInit => FrontInv
  <1> SUFFICES ASSUME FrontInit PROVE FrontInv
    OBVIOUS
  <1>0. /\ scene \in Scenes /\ TablesFit(scene)
        /\ clock = 0 /\ account = scene.accounts /\ session = scene.sessions
        /\ invite = scene.invites /\ bucket = [k \in Keys |-> EmptyBucket]
        /\ request = [r \in Requests |-> Idle] /\ revoked = [s \in Sessions |-> 0]
    BY TablesAssumption DEF FrontInit, Init
  <1>1. TablesTyped /\ Owned
    BY <1>0, AgesAssumption DEF TablesTyped, Owned, TablesFit
  <1>2. Charged
    BY <1>0, AgesAssumption DEF Charged, EmptyBucket, BucketRow
  <1>3. RevokedOnce /\ RedeemedMadeItsAccount
    BY <1>0 DEF RevokedOnce, RedeemedMadeItsAccount, TablesFit
  <1>4. Slots
    BY <1>0 DEF Slots, SlotState, Idle, Backed
  <1>5. Numbered /\ Locked
    BY <1>0, RefsAssumption, FS_EmptySet DEF FrontInit, IntakeInit, Numbered, Locked, At, Idle
  <1>6. RefsWithoutGaps
    <2>1. \A p \in Prefixes : /\ {c.number : c \in {d \in records : d.prefix = p}} = {}
                              /\ {c \in records : c.prefix = p} = {}
                              /\ counter[p] = 0
      BY DEF FrontInit, IntakeInit
    <2>2. \A d \in Demands : ChangesOf(d) = {} /\ demand[d] # "CONVERTED"
      BY DEF FrontInit, IntakeInit, ChangesOf
    <2>3. Cardinality({}) = 0 /\ 1..0 = {}
      BY FS_EmptySet
    <2> QED  BY <2>1, <2>2, <2>3 DEF RefsWithoutGaps
  <1>7. Browser
    BY DEF FrontInit, TabInit, Browser, Paths, NoCookie
  <1> QED  BY <1>1, <1>2, <1>3, <1>4, <1>5, <1>6, <1>7 DEF FrontInv, TablesInv, RefsInv

Onwards == FrontInv' /\ EndedStep

LEMMA MovedOnwards ==
    ASSUME FrontInv, Moved, UNCHANGED intakeVars, Browser'
    PROVE  Onwards
  BY QuietTaken DEF FrontInv, Onwards, Taken, Settled

LEMMA FrontNext ==
    ASSUME FrontInv, [Next]_vars
    PROVE  Onwards
  <1>0. TablesInv /\ Slots /\ RefsInv /\ Browser
    BY DEF FrontInv
  <1>1. scene.asks \cup scene.forms \subseteq Ask /\ scene.paths \subseteq Paths
    BY <1>0, AsksAssumption DEF TablesInv, TablesTyped, Ask
  <1>2. UNCHANGED tab => Browser'
    BY <1>0 DEF Browser
  <1>3. ASSUME NEW r \in Requests, Called(r) PROVE Onwards
    BY <1>0, <1>1, <1>2, <1>3, ArrivesMoved, MovedOnwards DEF Called
  <1>4. ASSUME NEW r \in Requests, Ran(r) PROVE Onwards
    <2>1. CASE Handles(r) /\ UNCHANGED <<intakeVars, tab>>
      BY <1>0, <1>2, <2>1, HandlesMoved, MovedOnwards
    <2>2. CASE Takes(r) /\ UNCHANGED tab
      BY <1>0, <1>2, <2>2, TakesTaken DEF Taken, Settled, Onwards, FrontInv
    <2> QED  BY <1>4, <2>1, <2>2 DEF Ran
  <1>5. ASSUME NEW r \in Requests, Broke(r) PROVE Onwards
    BY <1>0, <1>2, <1>5, FailsMoved, MovedOnwards DEF Broke
  <1>6. ASSUME NEW r \in Requests, Left(r) PROVE Onwards
    BY <1>0, <1>2, <1>6, LeavesMoved, MovedOnwards DEF Left
  <1>7. ASSUME NEW r \in Requests, TabAsks(r) PROVE Onwards
    <2>1. ASSUME NEW ask \in scene.forms, SignIn(r, ask) PROVE Onwards
      <3>1. Moved
        BY <1>0, <1>1, <2>1, LoginArrivesMoved DEF SignIn
      <3>2. Browser'
        BY <1>0, <2>1, WaitsBrowser DEF SignIn
      <3> QED  BY <1>7, <3>1, <3>2, MovedOnwards DEF TabAsks
    <2>2. ASSUME NEW ask \in scene.forms, Redeem(r, ask) PROVE Onwards
      <3>1. Moved
        BY <1>0, <1>1, <2>2, RedeemArrivesMoved DEF Redeem
      <3>2. Browser'
        BY <1>0, <2>2, WaitsBrowser DEF Redeem
      <3> QED  BY <1>7, <3>1, <3>2, MovedOnwards DEF TabAsks
    <2>3. CASE SignOut(r) /\ Carried = NoOne
      <3>1. tab' = [tab EXCEPT !.at = "loading", !.path = "/login"] /\ UNCHANGED accessVars
        BY <2>3 DEF SignOut
      <3>2. Browser'
        BY <1>0, <3>1 DEF Browser, Paths
      <3>3. Moved
        BY <1>0, <3>1, OutsideMoved DEF accessVars, Change, tables
      <3> QED  BY <1>7, <3>2, <3>3, MovedOnwards DEF TabAsks
    <2>4. CASE SignOut(r) /\ Carried # NoOne
      <3> DEFINE ask == [do |-> "logout", as |-> Carried]
      <3>1. Resolves(r, ask) /\ Waits(r, "logout")
        BY <2>4 DEF SignOut
      <3>2. ask \in Ask
        BY <1>0, <2>4 DEF Carried, Browser, Ask, ActorAsk, LogoutAsk
      <3> HIDE DEF ask
      <3>3. Moved /\ Browser'
        BY <1>0, <3>1, <3>2, ResolvesMoved, WaitsBrowser
      <3> QED  BY <1>7, <3>3, MovedOnwards DEF TabAsks
    <2> QED  BY <1>7, <2>1, <2>2, <2>3, <2>4 DEF TabAsks
  <1>8. ASSUME NEW r \in Requests, TabTold(r) PROVE Onwards
    <2>1. Moved /\ Browser' /\ UNCHANGED intakeVars
      BY <1>0, <1>8, LeavesMoved, AnsweredBrowser DEF TabTold, Answered, Unanswered
    <2> QED  BY <2>1, MovedOnwards
  <1>9. CASE TabMoves \/ TabLoads
    <2>1. Browser' /\ UNCHANGED intakeVars /\ UNCHANGED accessVars
      BY <1>0, <1>1, <1>9, VisitBrowser, HopBrowser DEF TabMoves, TabLoads, Visit, Hop
    <2>2. Moved
      BY <1>0, <2>1, OutsideMoved DEF accessVars, Change, tables
    <2> QED  BY <2>1, <2>2, MovedOnwards
  <1>10. CASE World
    <2>1. Crash => Moved
      BY <1>0, CrashMoved
    <2>2. Tick => Moved
      BY <1>0, OutsideMoved DEF Tick, Change, Passed
    <2>3. ASSUME NEW e \in Emails, Deactivate(e) PROVE Moved
      BY <1>0, <2>3, OutsideMoved DEF Deactivate, Change, Retired
    <2>4. UNCHANGED intakeVars /\ Browser'
      BY <1>2, <1>10 DEF World
    <2> QED  BY <1>10, <2>1, <2>2, <2>3, <2>4, MovedOnwards DEF World
  <1>11. CASE UNCHANGED vars
    <2>1. Moved
      BY <1>0, <1>11, OutsideMoved DEF vars, accessVars, Change, tables
    <2> QED  BY <1>2, <1>11, <2>1, MovedOnwards DEF vars
  <1> QED  BY <1>3, <1>4, <1>5, <1>6, <1>7, <1>8, <1>9, <1>10, <1>11 DEF Next

(* The inductive invariant holds in every reachable state: tables, handlers,
   counters and browser. *)
THEOREM FrontInvariant == Spec => []FrontInv
  <1>1. FrontInv /\ [Next]_vars => FrontInv'
    BY FrontNext DEF Onwards
  <1> QED  BY <1>1, FrontInitially, PTL DEF Spec

(* Every variable keeps its type, the browser only ever shows the pages it
   knows, and no bucket is charged beyond the limit (rate-limit.ts:42-61). *)
THEOREM TypeCorrect == Spec => []TypeOK
  <1>1. FrontInv => TypeOK
    <2> SUFFICES ASSUME FrontInv PROVE TypeOK
      OBVIOUS
    <2>1. /\ clock \in 0..MaxTime
          /\ \A e \in Emails : account[e] = NoAccount \/ account[e].kind \in {"INTERNAL", "GUEST"}
          /\ \A s \in Sessions : session[s] \in {Unused, Gone} \/
                (session[s].user \in Emails /\ session[s].expires \in 0..(MaxTime + SessionAge))
      BY Shapes DEF FrontInv, TablesInv, TablesTyped, AccountRow, SessionRow
    <2>2. \A i \in Invites : invite[i].at \in {"unused", "open", "redeemed"}
      BY Shapes DEF FrontInv, TablesInv, InviteRow
    <2>3. \A k \in Keys : bucket[k].count \in 0..MaxHits
      BY DEF FrontInv, TablesInv, Charged, BucketRow
    <2>4. \A r \in Requests : request[r].at \in Steps
      BY SlotShape DEF FrontInv, Slots
    <2>5. \A p \in Prefixes : counter[p] \in 0..MaxRefs
      BY DEF FrontInv, RefsInv, Numbered
    <2>6. tab.path \in Paths /\ tab.waits \in Requests \cup {NoOne}
      BY DEF FrontInv, Browser
    <2> QED  BY <2>1, <2>2, <2>3, <2>4, <2>5, <2>6 DEF TypeOK
  <1> QED  BY <1>1, FrontInvariant, PTL

(* A revocation is recorded once for a session however many race for it, for
   deleteMany counts the rows (sessions.ts:101-112), and no session is ever
   opened again under the same token. *)
THEOREM RevokedAtMostOnce == Spec => []RevokedOnce
  <1>1. FrontInv => RevokedOnce
    BY DEF FrontInv, TablesInv
  <1> QED  BY <1>1, FrontInvariant, PTL

(* Behind each redeemed invite is the account it was redeemed for, and only
   that one: of two redemptions for one e-mail the unique index lets the first
   through (invites.ts:140-157). *)
THEOREM RedeemedForOne == Spec => []RedeemedMadeItsAccount
  <1>1. FrontInv => RedeemedMadeItsAccount
    BY DEF FrontInv, TablesInv
  <1> QED  BY <1>1, FrontInvariant, PTL

(* References have neither gaps nor doubles, and a demand has its one change
   exactly when it is CONVERTED: whoever has taken a number holds the row of
   its counter until the commit or the rollback (ref.ts:7-12), and a conversion
   that comes second rolls its number back (change/service.ts:120-151). *)
THEOREM NumberedWithoutGaps == Spec => []RefsWithoutGaps
  <1>1. FrontInv => RefsWithoutGaps
    BY DEF FrontInv, RefsInv
  <1> QED  BY <1>1, FrontInvariant, PTL

(* No step makes an ended session live: the touch asks for an expiry that is
   still ahead (session.ts:112-118), and nothing activates an account again. *)
THEOREM NoSessionComesBack == Spec => EndedStaysEnded
  <1>1. FrontInv /\ [Next]_vars => [\A s \in Sessions : Ended(s) => Ended(s)']_vars
    BY FrontNext DEF Onwards, EndedStep
  <1> QED  BY <1>1, FrontInvariant, PTL DEF Spec, EndedStaysEnded
-----------------------------------------------------------------------------
(* The limiter.  What the log-ins let through for an e-mail and the bucket of
   the e-mail alone know of each other: the bucket was opened, a window before
   it is reset, by a hit that it counts; those let through since are counted
   too; and those before it, which lie in the window of an earlier bucket,
   leave room for the hit that opened that one. *)

Spread(log, b, now) ==
    /\ b.resetAt <= now + Window
    /\ b.count = 0 => b.resetAt = 0
    /\ \A i \in 1..Len(log) :
          /\ log[i] \in Nat /\ log[i] < b.resetAt
          /\ i <= Len(log) - b.count => log[i] < b.resetAt - Window
          /\ i <= Len(log) - b.count + 1 => log[i] <= b.resetAt - Window
          /\ i + MaxHits - 1 <= Len(log) /\ log[i + MaxHits - 1] < b.resetAt - Window
                => log[i] <= b.resetAt - 2 * Window
          /\ i + 2 * MaxHits - 1 <= Len(log) => log[i + 2 * MaxHits - 1] >= log[i] + Window

AttemptsInv ==
    /\ admitted \in [Emails -> Seq(Nat)]
    /\ \A e \in Emails : Spread(admitted[e], bucket[LoginKey(e, NoOne)], clock)

LEMMA RateLimitShape ==
    ASSUME NEW b \in BucketRow, clock \in Nat
    PROVE  /\ Opens(b) => RateLimit(b).count = 1 /\ RateLimit(b).resetAt = clock + Window
           /\ ~Opens(b) => /\ RateLimit(b).resetAt = b.resetAt
                           /\ RateLimit(b).count = IF Allows(b) THEN b.count + 1 ELSE b.count
  BY DEF RateLimit, BucketRow

\* A hit that is charged and not let through: another bucket refuses it.
LEMMA ChargedSpread ==
    ASSUME NEW log \in Seq(Nat), NEW b \in BucketRow, clock \in Nat, Spread(log, b, clock)
    PROVE  Spread(log, RateLimit(b), clock)
  <1> DEFINE c == RateLimit(b)
  <1>0. Window \in Nat \ {0} /\ MaxHits \in Nat \ {0} /\ b.count \in 0..MaxHits /\ b.resetAt \in Nat
    BY AgesAssumption DEF BucketRow
  <1>1. CASE Opens(b)
    <2>1. c.count = 1 /\ c.resetAt = clock + Window /\ b.resetAt <= clock
      BY <1>1, RateLimitShape DEF Opens
    <2> SUFFICES ASSUME NEW i \in 1..Len(log)
                 PROVE  /\ log[i] \in Nat /\ log[i] < c.resetAt
                        /\ log[i] < c.resetAt - Window
                        /\ i + MaxHits - 1 <= Len(log) => log[i] <= c.resetAt - 2 * Window
                        /\ i + 2 * MaxHits - 1 <= Len(log) => log[i + 2 * MaxHits - 1] >= log[i] + Window
      BY <1>0, <2>1 DEF Spread
    <2>2. log[i] \in Nat /\ log[i] < b.resetAt
      BY DEF Spread
    <2>3. i + MaxHits - 1 <= Len(log) => log[i] <= b.resetAt - Window
      BY <1>0 DEF Spread
    <2>4. i + 2 * MaxHits - 1 <= Len(log) => log[i + 2 * MaxHits - 1] >= log[i] + Window
      BY DEF Spread
    <2> QED  BY <1>0, <2>1, <2>2, <2>3, <2>4
  <1>2. CASE ~Opens(b)
    <2>1. c.resetAt = b.resetAt /\ c.count \in {b.count, b.count + 1}
      BY <1>2, RateLimitShape
    <2>2. c.count = 0 => b.count = 0
      BY <1>0, <2>1
    <2> SUFFICES ASSUME NEW i \in 1..Len(log)
                 PROVE  /\ i <= Len(log) - c.count => log[i] < b.resetAt - Window
                        /\ i <= Len(log) - c.count + 1 => log[i] <= b.resetAt - Window
      BY <2>1, <2>2 DEF Spread
    <2>3. /\ i <= Len(log) - c.count => i <= Len(log) - b.count
          /\ i <= Len(log) - c.count + 1 => i <= Len(log) - b.count + 1
      BY <1>0, <2>1
    <2> QED  BY <2>3 DEF Spread
  <1> QED  BY <1>1, <1>2

LEMMA AdmittedSpread ==
    ASSUME NEW log \in Seq(Nat), NEW b \in BucketRow, clock \in Nat, Spread(log, b, clock), Allows(b)
    PROVE  Spread(Append(log, clock), RateLimit(b), clock)
  <1> DEFINE c == RateLimit(b)
             new == Append(log, clock)
             n == Len(log)
  <1>0. Window \in Nat \ {0} /\ MaxHits \in Nat \ {0} /\ b.count \in 0..MaxHits /\ b.resetAt \in Nat
    BY AgesAssumption DEF BucketRow
  <1>1. /\ Len(new) = n + 1 /\ n \in Nat /\ new[n + 1] = clock
        /\ \A i \in 1..n : new[i] = log[i]
    OBVIOUS
  <1>2. \A i \in 1..n :
          /\ log[i] \in Nat /\ log[i] < b.resetAt
          /\ i <= n - b.count => log[i] < b.resetAt - Window
          /\ i <= n - b.count + 1 => log[i] <= b.resetAt - Window
          /\ i + MaxHits - 1 <= n /\ log[i + MaxHits - 1] < b.resetAt - Window
                => log[i] <= b.resetAt - 2 * Window
          /\ i + 2 * MaxHits - 1 <= n => log[i + 2 * MaxHits - 1] >= log[i] + Window
    BY DEF Spread
  <1>3. b.resetAt <= clock + Window /\ (b.count = 0 => b.resetAt = 0)
    BY DEF Spread
  <1>4. CASE Opens(b)
    <2>1. c.count = 1 /\ c.resetAt = clock + Window /\ b.resetAt <= clock
      BY <1>4, RateLimitShape DEF Opens
    <2>2. \A i \in 1..n : log[i] < clock
      BY <1>0, <1>2, <2>1
    <2>3. ASSUME NEW i \in 1..n, i + MaxHits - 1 <= n PROVE log[i] <= clock - Window
      <3>1. i <= n - b.count + 1
        BY <1>0, <1>1, <2>3
      <3>2. log[i] \in Nat /\ log[i] <= b.resetAt - Window
        BY <1>2, <3>1
      <3> QED  BY <1>0, <2>1, <3>2
    <2>4. ASSUME NEW i \in 1..Len(new)
          PROVE  /\ new[i] \in Nat /\ new[i] < c.resetAt
                 /\ i <= Len(new) - c.count => new[i] < c.resetAt - Window
                 /\ i <= Len(new) - c.count + 1 => new[i] <= c.resetAt - Window
      BY <1>0, <1>1, <1>2, <2>1, <2>2
    <2>5. ASSUME NEW i \in 1..Len(new), i + MaxHits - 1 <= Len(new),
                 new[i + MaxHits - 1] < c.resetAt - Window
          PROVE  new[i] <= c.resetAt - 2 * Window
      <3>1. i + MaxHits - 1 # n + 1
        BY <1>1, <2>1, <2>5, <1>0
      <3>2. i \in 1..n /\ i + MaxHits - 1 <= n
        BY <1>0, <1>1, <2>5, <3>1
      <3> QED  BY <1>0, <1>1, <2>1, <2>3, <3>2
    <2>6. ASSUME NEW i \in 1..Len(new), i + 2 * MaxHits - 1 <= Len(new)
          PROVE  new[i + 2 * MaxHits - 1] >= new[i] + Window
      <3>1. CASE i + 2 * MaxHits - 1 = n + 1
        <4>1. i \in 1..n /\ i + MaxHits - 1 <= n
          BY <1>0, <1>1, <3>1
        <4>2. log[i] <= clock - Window /\ log[i] \in Nat
          BY <1>2, <2>3, <4>1
        <4> QED  BY <1>0, <1>1, <3>1, <4>1, <4>2
      <3>2. CASE i + 2 * MaxHits - 1 # n + 1
        <4>1. i \in 1..n /\ i + 2 * MaxHits - 1 \in 1..n
          BY <1>0, <1>1, <2>6, <3>2
        <4> QED  BY <1>1, <1>2, <4>1
      <3> QED  BY <3>1, <3>2
    <2>7. /\ c.resetAt <= clock + Window
          /\ c.count = 0 => c.resetAt = 0
      BY <1>0, <2>1
    <2> QED  BY <2>4, <2>5, <2>6, <2>7 DEF Spread
  <1>5. CASE ~Opens(b)
    <2>1. /\ c.resetAt = b.resetAt /\ c.count = b.count + 1
          /\ clock < b.resetAt /\ b.count < MaxHits /\ b.count > 0
      BY <1>0, <1>3, <1>5, RateLimitShape DEF Opens, Allows
    <2>2. ASSUME NEW i \in 1..Len(new)
          PROVE  /\ new[i] \in Nat /\ new[i] < c.resetAt
                 /\ i <= Len(new) - c.count => new[i] < c.resetAt - Window
                 /\ i <= Len(new) - c.count + 1 => new[i] <= c.resetAt - Window
      <3>1. CASE i = n + 1
        BY <1>0, <1>1, <1>3, <2>1, <3>1
      <3>2. CASE i # n + 1
        <4>1. i \in 1..n /\ new[i] = log[i]
          BY <1>1, <3>2
        <4> QED  BY <1>0, <1>1, <1>2, <2>1, <4>1
      <3> QED  BY <3>1, <3>2
    <2>3. ASSUME NEW i \in 1..Len(new), i + MaxHits - 1 <= Len(new),
                 new[i + MaxHits - 1] < c.resetAt - Window
          PROVE  new[i] <= c.resetAt - 2 * Window
      <3>1. i + MaxHits - 1 # n + 1
        BY <1>0, <1>1, <1>3, <2>1, <2>3
      <3>2. i \in 1..n /\ i + MaxHits - 1 \in 1..n
        BY <1>0, <1>1, <2>3, <3>1
      <3> QED  BY <1>0, <1>1, <1>2, <2>1, <2>3, <3>2
    <2>4. ASSUME NEW i \in 1..Len(new), i + 2 * MaxHits - 1 <= Len(new)
          PROVE  new[i + 2 * MaxHits - 1] >= new[i] + Window
      <3>1. CASE i + 2 * MaxHits - 1 = n + 1
        <4> DEFINE j == i + MaxHits - 1
        <4>0. /\ i \in Nat /\ i >= 1 /\ n \in Nat /\ i + 2 * MaxHits - 1 = n + 1
              /\ MaxHits \in Nat /\ MaxHits >= 1 /\ b.count \in Nat /\ b.count <= MaxHits - 1
          BY <1>0, <1>1, <2>1, <3>1
        <4>1. i \in 1..n /\ j \in 1..n /\ j <= n - b.count
          BY ONLY <4>0
        <4>2. log[i + MaxHits - 1] < b.resetAt - Window
          BY <1>2, <4>1
        <4>3. log[i] <= b.resetAt - 2 * Window /\ log[i] \in Nat
          BY <1>2, <4>1, <4>2
        <4>4. new[i + 2 * MaxHits - 1] = clock /\ new[i] = log[i]
          BY <1>1, <3>1, <4>1
        <4>5. log[i] + Window <= clock
          BY <1>0, <1>3, <4>3
        <4> QED  BY <4>4, <4>5
      <3>2. CASE i + 2 * MaxHits - 1 # n + 1
        <4>1. i \in 1..n /\ i + 2 * MaxHits - 1 \in 1..n
          BY <1>0, <1>1, <2>4, <3>2
        <4> QED  BY <1>1, <1>2, <4>1
      <3> QED  BY <3>1, <3>2
    <2>5. c.resetAt <= clock + Window /\ (c.count = 0 => c.resetAt = 0)
      BY <1>0, <1>3, <2>1
    <2> QED  BY <2>2, <2>3, <2>4, <2>5 DEF Spread
  <1> QED  BY <1>4, <1>5

\* The steps that the limiter can tell from a stutter.
LEMMA LimiterSteps ==
    ASSUME FrontInv, [Next]_vars
    PROVE  \/ UNCHANGED limiter /\ clock' \in {clock, clock + 1}
           \/ \E r \in Requests, ask \in LoginAsk : LoginArrives(r, ask)
           \/ \E r \in Requests, ask \in RedeemAsk : RedeemArrives(r, ask)
           \/ Crash
  <1> DEFINE Quiet == UNCHANGED limiter /\ clock' \in {clock, clock + 1}
             Logged == \E r \in Requests, ask \in LoginAsk : LoginArrives(r, ask)
             Redeemed == \E r \in Requests, ask \in RedeemAsk : RedeemArrives(r, ask)
  <1>1. scene.asks \cup scene.forms \subseteq Ask
    BY AsksAssumption DEF FrontInv, TablesInv, TablesTyped, Ask
  <1>2. ASSUME NEW r \in Requests, NEW ask \in Ask PROVE Resolves(r, ask) => Quiet
    BY DEF Resolves, limiter
  <1>3. ASSUME NEW r \in Requests, NEW ask \in Ask, LoginArrives(r, ask) PROVE Logged
    BY <1>3, AskShape DEF LoginArrives, Ask
  <1>4. ASSUME NEW r \in Requests, NEW ask \in Ask, RedeemArrives(r, ask) PROVE Redeemed
    BY <1>4, AskShape DEF RedeemArrives, Ask
  <1>5. ASSUME NEW r \in Requests, Called(r) PROVE Quiet \/ Logged \/ Redeemed
    <2>1. PICK ask \in Ask : Arrives(r, ask)
      BY <1>1, <1>5 DEF Called
    <2> QED  BY <2>1, <1>2, <1>3, <1>4 DEF Arrives
  <1>6. ASSUME NEW r \in Requests, Handles(r) PROVE Quiet
    BY <1>6 DEF Handles, limiter, LoginVerified, RedeemLooks, RedeemClaims, RedeemCreates,
       RedeemEnters, Touches, Reads, LogsOut, RevokeLooks, RevokeDeletes, CreatesInvite
  <1>7. ASSUME NEW r \in Requests, Takes(r) PROVE Quiet
    BY <1>7 DEF Takes, limiter, CreateBegins, ConvertReads, ConvertChecks, TakesNumber,
       CreateRecords, ConvertRecords
  <1>8. ASSUME NEW r \in Requests, Broke(r) \/ Left(r) \/ TabTold(r) PROVE Quiet
    BY <1>8 DEF Broke, Left, TabTold, Fails, Leaves, Answered, Unanswered, limiter
  <1>9. ASSUME NEW r \in Requests, TabAsks(r) PROVE Quiet \/ Logged \/ Redeemed
    <2>1. ASSUME NEW ask \in scene.forms, SignIn(r, ask) PROVE Logged
      BY <1>1, <1>3, <2>1 DEF SignIn
    <2>2. ASSUME NEW ask \in scene.forms, Redeem(r, ask) PROVE Redeemed
      BY <1>1, <1>4, <2>2 DEF Redeem
    <2>3. CASE SignOut(r)
      BY <2>3 DEF SignOut, accessVars, limiter, Resolves
    <2> QED  BY <1>9, <2>1, <2>2, <2>3 DEF TabAsks
  <1>10. CASE TabMoves \/ TabLoads
    BY <1>10 DEF TabMoves, TabLoads, Visit, Hop, accessVars, limiter
  <1>11. CASE World
    BY <1>11 DEF World, Tick, Deactivate, limiter
  <1>12. CASE UNCHANGED vars
    BY <1>12 DEF vars, accessVars, limiter
  <1> QED  BY <1>5, <1>6, <1>7, <1>8, <1>9, <1>10, <1>11, <1>12 DEF Next, Ran

LEMMA AttemptsInit == FrontInit => AttemptsInv
  <1> SUFFICES ASSUME FrontInit PROVE AttemptsInv
    OBVIOUS
  <1>1. /\ clock = 0 /\ admitted = [e \in Emails |-> <<>>]
        /\ \A e \in Emails : bucket[LoginKey(e, NoOne)] = EmptyBucket
    BY DEF FrontInit, Init, Keys, Origins
  <1>2. Len(<<>>) = 0 /\ <<>> \in Seq(Nat)
    OBVIOUS
  <1> QED  BY <1>1, <1>2, AgesAssumption DEF AttemptsInv, Spread, EmptyBucket

LEMMA AttemptsNext ==
    ASSUME FrontInv, AttemptsInv, [Next]_vars
    PROVE  AttemptsInv'
  <1>0. /\ clock \in Nat
        /\ \A e \in Emails : /\ LoginKey(e, NoOne) \in Keys
                             /\ bucket[LoginKey(e, NoOne)] \in BucketRow
                             /\ admitted[e] \in Seq(Nat)
                             /\ Spread(admitted[e], bucket[LoginKey(e, NoOne)], clock)
    <2>1. clock \in Nat
      BY AgesAssumption DEF FrontInv, TablesInv, TablesTyped
    <2>2. ASSUME NEW e \in Emails PROVE LoginKey(e, NoOne) \in Keys
      BY DEF Keys, Origins
    <2> QED  BY <2>1, <2>2 DEF FrontInv, TablesInv, Charged, AttemptsInv
  <1>1. CASE UNCHANGED limiter /\ clock' \in {clock, clock + 1}
    <2>1. ASSUME NEW e \in Emails
          PROVE  Spread(admitted[e], bucket[LoginKey(e, NoOne)], clock')
      <3> DEFINE b == bucket[LoginKey(e, NoOne)]
      <3>1. b.resetAt \in Nat /\ clock' \in Nat /\ clock <= clock' /\ Window \in Nat
        BY <1>0, <1>1, AgesAssumption DEF BucketRow
      <3>2. Spread(admitted[e], b, clock)
        BY <1>0
      <3>3. b.resetAt <= clock' + Window
        BY <1>0, <3>1, <3>2 DEF Spread
      <3> QED  BY <3>2, <3>3 DEF Spread
    <2> QED  BY <1>1, <2>1 DEF AttemptsInv, limiter
  <1>2. ASSUME NEW r \in Requests, NEW ask \in LoginAsk, LoginArrives(r, ask)
        PROVE  AttemptsInv'
    <2> DEFINE k == LoginKey(ask.email, NoOne)
    <2>1. ask.email \in Emails /\ clock' = clock
      BY <1>2 DEF LoginArrives, LoginAsk
    <2>2. \A e \in Emails : bucket'[LoginKey(e, NoOne)] =
             IF e = ask.email THEN RateLimit(bucket[k]) ELSE bucket[LoginKey(e, NoOne)]
      BY <1>0, <1>2 DEF LoginArrives, LoginCharged, LoginKey
    <2>3. CASE LoginAllowed(ask.email, ask.ip)
      <3>1. Allows(bucket[k]) /\ admitted' = [admitted EXCEPT ![ask.email] = Append(@, clock)]
        BY <1>2, <2>3 DEF LoginArrives, LoginAllowed
      <3>2. Append(admitted[ask.email], clock) \in Seq(Nat)
        BY <1>0, <2>1
      <3>3. Spread(Append(admitted[ask.email], clock), RateLimit(bucket[k]), clock)
        BY <1>0, <2>1, <3>1, AdmittedSpread
      <3> QED  BY <1>0, <2>1, <2>2, <3>1, <3>2, <3>3 DEF AttemptsInv
    <2>4. CASE ~LoginAllowed(ask.email, ask.ip)
      <3>1. admitted' = admitted
        BY <1>2, <2>4 DEF LoginArrives
      <3>2. Spread(admitted[ask.email], RateLimit(bucket[k]), clock)
        BY <1>0, <2>1, ChargedSpread
      <3> QED  BY <1>0, <2>1, <2>2, <3>1, <3>2 DEF AttemptsInv
    <2> QED  BY <2>3, <2>4
  <1>3. ASSUME NEW r \in Requests, NEW ask \in RedeemAsk, RedeemArrives(r, ask)
        PROVE  AttemptsInv'
    <2>1. clock' = clock /\ admitted' = admitted
      BY <1>3 DEF RedeemArrives
    <2>2. \A e \in Emails : bucket'[LoginKey(e, NoOne)] = bucket[LoginKey(e, NoOne)]
      BY <1>0, <1>3 DEF RedeemArrives, RedeemKey, LoginKey
    <2> QED  BY <2>1, <2>2 DEF AttemptsInv
  <1>4. CASE Crash
    <2>1. /\ clock' = clock /\ admitted' = [e \in Emails |-> <<>>]
          /\ \A e \in Emails : bucket'[LoginKey(e, NoOne)] = EmptyBucket
      BY <1>0, <1>4 DEF Crash
    <2>2. Len(<<>>) = 0 /\ <<>> \in Seq(Nat)
      OBVIOUS
    <2> QED  BY <1>0, <2>1, <2>2, AgesAssumption DEF AttemptsInv, Spread, EmptyBucket
  <1> QED  BY <1>1, <1>2, <1>3, <1>4, LimiterSteps

THEOREM AttemptsInvariant == Spec => []AttemptsInv
  <1>1. FrontInv /\ AttemptsInv /\ [Next]_vars => AttemptsInv'
    BY AttemptsNext
  <1> QED  BY <1>1, AttemptsInit, FrontInvariant, PTL DEF Spec

(* Less than two windows' worth of log-ins for one e-mail in any stretch of a
   window, seams included, because a window is only ever opened by a hit
   (rate-limit.ts:46-50), and the bucket of the e-mail alone is charged
   whatever the address (login/route.ts). *)
THEOREM LogInsBounded == Spec => []AttemptsBounded
  <1>1. AttemptsInv => AttemptsBounded
    BY DEF AttemptsInv, Spread, AttemptsBounded
  <1> QED  BY <1>1, AttemptsInvariant, PTL
=============================================================================
