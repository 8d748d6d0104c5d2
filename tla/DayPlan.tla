------------------------------- MODULE DayPlan --------------------------------
(***************************************************************************)
(* What planning and dispatch promise about shifts and their trips to those *)
(* who read the two tables: a shift moves along its state machine, and it   *)
(* has a trip exactly from its start, active while it is in progress and    *)
(* completed with it.  Operations implements this (DispatchRefinement), and *)
(* Reconciliation reads it.                                                 *)
(***************************************************************************)
CONSTANT Shifts

VARIABLES
    status,     \* status column of each shift
    trips       \* statuses of the trips that name the shift

planVars == <<status, trips>>

PlanInit ==
    /\ status = [s \in Shifts |-> "absent"]
    /\ trips = [s \in Shifts |-> {}]

PlanShift(s) ==
    /\ status[s] = "absent"
    /\ status' = [status EXCEPT ![s] = "scheduled"]
    /\ UNCHANGED trips

Assign(s) ==
    /\ status[s] = "scheduled"
    /\ status' = [status EXCEPT ![s] = "assigned"]
    /\ UNCHANGED trips

Start(s) ==
    /\ status[s] = "assigned"
    /\ status' = [status EXCEPT ![s] = "in_progress"]
    /\ trips' = [trips EXCEPT ![s] = {"active"}]

Return(s) ==
    /\ status[s] = "in_progress"
    /\ status' = [status EXCEPT ![s] = "completed"]
    /\ trips' = [trips EXCEPT ![s] = {"completed"}]

Cancel(s) ==
    /\ status[s] \in {"scheduled", "assigned"}
    /\ status' = [status EXCEPT ![s] = "cancelled"]
    /\ UNCHANGED trips

PlanNext ==
    \E s \in Shifts : PlanShift(s) \/ Assign(s) \/ Start(s) \/ Return(s)
                      \/ Cancel(s)

PlanSpec == PlanInit /\ [][PlanNext]_planVars

=============================================================================
