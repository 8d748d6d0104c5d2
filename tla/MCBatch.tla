-------------------------------- MODULE MCBatch --------------------------------
(***************************************************************************)
(* Three shifts of one date and a batch of two assignments, beside          *)
(* assignments, cancellations and a trip: two shifts that cannot be on one  *)
(* vehicle to the same one, or one shift to both vehicles.                  *)
(***************************************************************************)
EXTENDS Batch, MCOperations

\* Shifts 1, 2, 3 on one date: 0-3, 3-5, 6-9.  1 and 2 touch and make up the
\* duty limit of 5, 1 and 3 exceed it, 2 and 3 are only an hour apart.
MCRosterDate == [s \in Shifts |-> "today"]
MCRosterWindow ==
    [s \in Shifts |-> CASE s = 1 -> [start |-> 0, end |-> 3]
                        [] s = 2 -> [start |-> 3, end |-> 5]
                        [] OTHER -> [start |-> 6, end |-> 9]]

MCBatches ==
    {<<[shift |-> 2, vehicle |-> v], [shift |-> 3, vehicle |-> v]>> : v \in Vehicles}
    \cup
    {<<[shift |-> 2, vehicle |-> v], [shift |-> 2, vehicle |-> w]>> :
        v \in Vehicles, w \in Vehicles}

RosterSymmetric == Permutations(Vehicles) \cup Permutations(Callers)

=============================================================================
