----------------------------- MODULE MCOperations -----------------------------
(***************************************************************************)
(* Instances of Operations for TLC.  The sets come from the cfg files; the  *)
(* functions on them are defined here.  With one capacity and one date per  *)
(* shift everything is symmetric.                                           *)
(***************************************************************************)
EXTENDS DispatchRefinement, TLC

MCCapacity == [v \in Vehicles |-> 1]
MCRequired == [s \in Shifts |-> 1]
MCRoute == [s \in Shifts |-> s]

\* Every shift on its own date: the roster never interferes.
MCOwnDate == [s \in Shifts |-> s]
MCOneHour == [s \in Shifts |-> [start |-> 1, end |-> 2]]

Symmetric ==
    Permutations(Vehicles) \cup Permutations(Shifts) \cup
    Permutations(TripIds) \cup Permutations(OrderIds) \cup
    Permutations(InspectionIds) \cup Permutations(FuelIds) \cup
    Permutations(Callers) \cup Permutations(Keys)

=============================================================================
