----------------------------- MODULE MCIncident -----------------------------
(***************************************************************************)
(* A small instance of Incident for TLC.  A history variable tells whether *)
(* two requests were ever in flight at once, so that one run checks what   *)
(* holds under any interleaving and what holds until requests overlap.     *)
(* Two sweeps run beside them throughout, of one process or of two.        *)
(***************************************************************************)
EXTENDS Incident, TLC

CONSTANTS h1, h2, s1, s2

VARIABLE overlapped

\* What is overdue at the first mark, and at the second.
MCGrades == {<<"HIGH", "HIGH">>, <<"MEDIUM", "HIGH">>}

\* Requests are alike and so are sweeps.
MCSymmetry == Permutations({h1, h2}) \cup Permutations({s1, s2})

InFlight == Cardinality({h \in Handlers : handler[h] # Idle})

MCInit == Init /\ overlapped = FALSE

MCNext == Next /\ overlapped' = (overlapped \/ InFlight' > 1)

MCSpec == MCInit /\ [][MCNext]_<<vars, overlapped>>

-----------------------------------------------------------------------------
\* Until requests overlap, the resolution and closing stamps say what the
\* status says (service.ts:529-532).
StampsAlone == ~overlapped => StampsMatchStatus

\* Until requests overlap, the due date stands still once work has started
\* (service.ts:344).
FrozenAlone == [][~overlapped' => FrozenStep]_vars

\* Until requests overlap, a status moves along INCIDENT_TRANSITIONS, and a
\* restart forgets the old overdue notice.
TransitionsAlone == [][~overlapped' => TransitionStep]_vars
=============================================================================
