SPECIFICATION Spec
CONSTANTS
    ana = ana  tec = tec  gus = gus
    s1 = s1  s2 = s2  s3 = s3
    i1 = i1  i2 = i2
    c1 = c1  c2 = c2
    home = home  d1 = d1  r1 = r1  r2 = r2
    NoOne = NoOne
    Emails = {ana, tec, gus}
    Clients = {c1, c2}
    Sessions = {s1, s2, s3}
    Invites = {i1, i2}
    Addresses = {home}
    Demands = {d1}
    Requests = {r1, r2}
    SessionAge = 1
    InviteAge = 1
    Window = 2
    MaxHits = 2
    MaxTime = 3
    MaxRefs = 2
    Scenes <- MCScenes
INVARIANTS TypeOK RevokedOnce RedeemedMadeItsAccount AttemptsBounded RefsWithoutGaps
PROPERTIES EndedStaysEnded EndedGoesQuiet TabSettles
CHECK_DEADLOCK FALSE
