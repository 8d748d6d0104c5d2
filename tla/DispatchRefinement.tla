-------------------------- MODULE DispatchRefinement --------------------------
(***************************************************************************)
(* The operational core keeps the promise of DayPlan: whatever requests     *)
(* interleave, an observer of the shift and trip tables sees each shift     *)
(* planned, assigned, started together with its one trip, and returned      *)
(* together with it.                                                        *)
(***************************************************************************)
EXTENDS Operations

StatusColumn == [s \in Shifts |-> shift[s].status]
TripStatuses ==
    [s \in Shifts |-> {trip[t].status : t \in {u \in Trips : trip[u].shift = s}}]

Plan == INSTANCE DayPlan WITH status <- StatusColumn, trips <- TripStatuses

\* Every step of the core is a step of the plan or invisible to it: a shift and
\* its trip never part, and nobody starts what another request cancelled.
ImplementsDayPlan == Plan!PlanSpec

=============================================================================
