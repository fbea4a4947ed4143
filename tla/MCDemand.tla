------------------------------ MODULE MCDemand ------------------------------
(***************************************************************************)
(* A small instance of Demand for TLC.  A history variable tells whether   *)
(* two calls were ever in flight at once, so that one run checks what      *)
(* holds under any interleaving and what holds until calls overlap.        *)
(***************************************************************************)
EXTENDS Demand, FiniteSets, TLC

CONSTANTS ada, bob, gus, h1, h2

VARIABLE overlapped

\* One approver of each kind, and a guest.
MCHats == (ada :> {"BUSINESS_APPROVER"}) @@ (bob :> {"TECHNICAL_APPROVER"}) @@ (gus :> {})

HandlerSymmetry == Permutations({h1, h2})

InFlight == Cardinality({h \in Handlers : handler[h] # Idle})

MCInit == Init /\ overlapped = FALSE

MCNext == Next /\ overlapped' = (overlapped \/ InFlight' > 1)

MCSpec == MCInit /\ [][MCNext]_<<vars, overlapped>>

-----------------------------------------------------------------------------
\* Until calls overlap, a status moves along DEMAND_TRANSITIONS, and a parked
\* demand may be declined where it stands.
TransitionsAlone == [][~overlapped' => TransitionStep]_vars
=============================================================================
