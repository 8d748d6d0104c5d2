----------------------------- MODULE FleetDomain ------------------------------
(***************************************************************************)
(* The rows of the database and the state machines of the domain layer      *)
(* (src/internal/domain).  A table is a function from identifiers to rows;  *)
(* an identifier whose row has status "absent" has not been inserted yet.   *)
(*                                                                          *)
(* A row keeps the columns a guard or a property reads.  The version column *)
(* is kept for the two tables that are also written outside a transaction   *)
(* (shifts, maintenance_orders); every vehicle, trip and inspection row of  *)
(* this model is written by the transaction that read it, where the version *)
(* check cannot fail.                                                       *)
(***************************************************************************)
EXTENDS Windows

CONSTANTS Vehicles, Shifts, TripIds, OrderIds, InspectionIds, FuelIds,
          IncidentIds, Keys, None

ASSUME NoneIsNoVehicle == None \notin Vehicles
ASSUME NoneIsNoShift == None \notin Shifts
ASSUME NoneIsNoTrip == None \notin TripIds
ASSUME NoneIsNoKey == None \notin Keys

-----------------------------------------------------------------------------
(* vehicles: src/internal/domain/vehicle/vehicle.go.  "retired" exists in   *)
(* the source but nothing ever sets it.                                     *)

VehicleStatus == {"absent", "available", "on_duty", "maintenance"}
VehicleRow == [status : VehicleStatus, odometer : Nat]

NoVehicle == [status |-> "absent", odometer |-> 0]
NewVehicle(odometer) == [status |-> "available", odometer |-> odometer]

StartDispatch(row) == [row EXCEPT !.status = "on_duty"]
FinishReturn(row, odometer) ==
    [row EXCEPT !.status = "available", !.odometer = odometer]
MarkMaintenance(row) == [row EXCEPT !.status = "maintenance"]
ReleaseMaintenance(row) == [row EXCEPT !.status = "available"]

\* The guard of MarkMaintenance: not on duty (and not absent).
MayMark(row) == row.status \in {"available", "maintenance"}

-----------------------------------------------------------------------------
(* shifts: src/internal/domain/workplan/workplan.go                         *)

ShiftStatus == {"absent", "scheduled", "assigned", "in_progress",
                "completed", "cancelled"}
ShiftRow == [status : ShiftStatus, vehicle : Vehicles \cup {None},
             version : Nat]

NoShift == [status |-> "absent", vehicle |-> None, version |-> 0]
NewShift == [status |-> "scheduled", vehicle |-> None, version |-> 1]

ShiftTo(row, status) == [row EXCEPT !.status = status, !.version = @ + 1]

\* Mutated form: the vehicle not stored.
AssignNobody(row, v) == ShiftTo(row, "assigned")
Assign(row, v) == [status |-> "assigned", vehicle |-> v,
                   version |-> row.version + 1]

\* The guard of Shift.Cancel.
MayCancel(row) == row.status \in {"scheduled", "assigned"}

-----------------------------------------------------------------------------
(* trips: src/internal/domain/trip/trip.go.  New and Start run in the same  *)
(* transaction, so "planned" is never stored; Cancel has no caller.         *)

TripStatus == {"absent", "active", "completed"}
TripRow == [status : TripStatus, vehicle : Vehicles \cup {None},
            shift : Shifts \cup {None}, key : Keys \cup {None},
            start : Nat, end : Nat]

NoTrip == [status |-> "absent", vehicle |-> None, shift |-> None,
           key |-> None, start |-> 0, end |-> 0]
NewTrip(v, s, k, odometer) ==
    [status |-> "active", vehicle |-> v, shift |-> s, key |-> k,
     start |-> odometer, end |-> 0]
CompleteTrip(row, odometer) ==
    [row EXCEPT !.status = "completed", !.end = odometer]

-----------------------------------------------------------------------------
(* maintenance orders: src/internal/domain/maintenance/order.go.  Cancel    *)
(* has no caller.                                                           *)

OrderStatus == {"absent", "open", "in_progress", "completed"}
OrderRow == [status : OrderStatus, vehicle : Vehicles \cup {None},
             version : Nat]

NoOrder == [status |-> "absent", vehicle |-> None, version |-> 0]
NewOrder(v) == [status |-> "open", vehicle |-> v, version |-> 1]
OrderTo(row, status) == [row EXCEPT !.status = status, !.version = @ + 1]

IsActiveOrder(row) == row.status \in {"open", "in_progress"}

-----------------------------------------------------------------------------
(* inspections, header only: src/internal/domain/inspection/inspection.go.  *)
(* The checklist and its concurrent edits are module InspectionItems.       *)

InspectionStatus == {"absent", "draft", "passed", "failed"}
InspectionRow == [status : InspectionStatus, vehicle : Vehicles \cup {None},
                  at : Nat]

NoInspection == [status |-> "absent", vehicle |-> None, at |-> 0]
NewInspection(v, at) == [status |-> "draft", vehicle |-> v, at |-> at]

-----------------------------------------------------------------------------
(* fuel logs and incidents                                                  *)

FuelRow == [vehicle : Vehicles \cup {None}, odometer : Nat]
NoFuel == [vehicle |-> None, odometer |-> 0]

IncidentRow == [trip : TripIds \cup {None}, vehicle : Vehicles \cup {None}]
NoIncident == [trip |-> None, vehicle |-> None]

=============================================================================
