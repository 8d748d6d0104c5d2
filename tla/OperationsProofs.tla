--------------------------- MODULE OperationsProofs ---------------------------
(***************************************************************************)
(* Theorems about dispatch for every value of the constants: type           *)
(* correctness, then the optimistic versions, the agreement of the status   *)
(* columns, the workshop, the odometer history, the idempotent answers, the *)
(* roster, the outbox and the audit trail; the refinement of DayPlan, the   *)
(* duty limit, and a batch of assignments, which loses no permit, breaks no *)
(* roster and reports the truth.                                            *)
(*                                                                          *)
(* Each invariant has one lemma saying that Next keeps it, with one step    *)
(* per operation; the theorems at the end of a part conclude from these.    *)
(***************************************************************************)
EXTENDS DispatchRefinement, Batch, TimeProofs

-----------------------------------------------------------------------------
(* Type correctness.                                                         *)

\* Rows built by the domain layer are rows of their table.
LEMMA RowTypes ==
    /\ NoVehicle \in VehicleRow /\ NoShift \in ShiftRow /\ NoTrip \in TripRow
    /\ NoOrder \in OrderRow /\ NoInspection \in InspectionRow
    /\ NoFuel \in FuelRow /\ NoIncident \in IncidentRow
    /\ NewShift \in ShiftRow
    /\ \A n \in Nat : NewVehicle(n) \in VehicleRow
    /\ \A row \in VehicleRow :
          /\ StartDispatch(row) \in VehicleRow
          /\ MarkMaintenance(row) \in VehicleRow
          /\ ReleaseMaintenance(row) \in VehicleRow
          /\ \A n \in Nat : FinishReturn(row, n) \in VehicleRow
    /\ \A row \in ShiftRow :
          /\ \A v \in Vehicles : Assign(row, v) \in ShiftRow
          /\ \A st \in ShiftStatus : ShiftTo(row, st) \in ShiftRow
    /\ \A v \in Vehicles, s \in Shifts, k \in Keys, n \in Nat :
          NewTrip(v, s, k, n) \in TripRow
    /\ \A row \in TripRow, n \in Nat : CompleteTrip(row, n) \in TripRow
    /\ \A v \in Vehicles : NewOrder(v) \in OrderRow
    /\ \A row \in OrderRow, st \in OrderStatus : OrderTo(row, st) \in OrderRow
    /\ \A v \in Vehicles, n \in Nat : NewInspection(v, n) \in InspectionRow
<1>1. NoVehicle \in VehicleRow /\ \A n \in Nat : NewVehicle(n) \in VehicleRow
    BY DEF NoVehicle, NewVehicle, VehicleRow, VehicleStatus
<1>2. \A row \in VehicleRow :
          /\ StartDispatch(row) \in VehicleRow
          /\ MarkMaintenance(row) \in VehicleRow
          /\ ReleaseMaintenance(row) \in VehicleRow
          /\ \A n \in Nat : FinishReturn(row, n) \in VehicleRow
    BY DEF StartDispatch, MarkMaintenance, ReleaseMaintenance, FinishReturn,
           VehicleRow, VehicleStatus
<1>3. NoShift \in ShiftRow /\ NewShift \in ShiftRow
    BY DEF NoShift, NewShift, ShiftRow, ShiftStatus
<1>4. \A row \in ShiftRow :
          /\ \A v \in Vehicles : Assign(row, v) \in ShiftRow
          /\ \A st \in ShiftStatus : ShiftTo(row, st) \in ShiftRow
    <2> TAKE row \in ShiftRow
    <2>1. row.version + 1 \in Nat
        BY DEF ShiftRow
    <2>2. \A v \in Vehicles : Assign(row, v) \in ShiftRow
        BY <2>1 DEF Assign, ShiftRow, ShiftStatus
    <2>3. \A st \in ShiftStatus : ShiftTo(row, st) \in ShiftRow
        BY <2>1 DEF ShiftTo, ShiftRow
    <2>4. QED
        BY <2>2, <2>3
<1>5. NoTrip \in TripRow
    BY DEF NoTrip, TripRow, TripStatus
<1>6. \A v \in Vehicles, s \in Shifts, k \in Keys, n \in Nat :
          NewTrip(v, s, k, n) \in TripRow
    BY DEF NewTrip, TripRow, TripStatus
<1>7. \A row \in TripRow, n \in Nat : CompleteTrip(row, n) \in TripRow
    BY DEF CompleteTrip, TripRow, TripStatus
<1>8. NoOrder \in OrderRow /\ \A v \in Vehicles : NewOrder(v) \in OrderRow
    BY DEF NoOrder, NewOrder, OrderRow, OrderStatus
<1>9. \A row \in OrderRow, st \in OrderStatus : OrderTo(row, st) \in OrderRow
    <2> TAKE row \in OrderRow, st \in OrderStatus
    <2>1. row.version + 1 \in Nat
        BY DEF OrderRow
    <2>2. QED
        BY <2>1 DEF OrderTo, OrderRow
<1>10. /\ NoInspection \in InspectionRow
       /\ \A v \in Vehicles, n \in Nat : NewInspection(v, n) \in InspectionRow
    BY DEF NoInspection, NewInspection, InspectionRow, InspectionStatus
<1>11. NoFuel \in FuelRow /\ NoIncident \in IncidentRow
    BY DEF NoFuel, FuelRow, NoIncident, IncidentRow
<1>12. QED
    BY <1>1, <1>2, <1>3, <1>4, <1>5, <1>6, <1>7, <1>8, <1>9, <1>10, <1>11

\* What a caller remembers between two statements.
LEMMA CallTypes ==
    ASSUME call \in [Callers -> Calls], NEW c \in Callers
    PROVE  /\ call[c].op = "start_trip" =>
                /\ call[c].vehicle \in Vehicles /\ call[c].shift \in Shifts
                /\ call[c].key \in Keys
           /\ call[c].op = "cancel_shift" =>
                /\ call[c].id \in Shifts /\ call[c].seen \in ShiftRow
                /\ MayCancel(call[c].seen)
           /\ call[c].op = "start_order" =>
                /\ call[c].id \in OrderIds /\ call[c].seen \in OrderRow
                /\ call[c].seen.status = "open"
                /\ call[c].seen.vehicle \in Vehicles
           /\ call[c].op = "audit" => call[c].row \in AuditRows
<1>1. call[c] \in Calls
    OBVIOUS
<1>2. QED
    BY <1>1 DEF Calls, Idle, StartTripCalls, CancelShiftCalls,
               StartOrderCalls, AuditCalls

\* Every operation writes rows of the right type.
LEMMA TablesStep == TypeOK /\ [Next]_vars => TablesTyped'
<1> SUFFICES ASSUME TypeOK, [Next]_vars PROVE TablesTyped'
    OBVIOUS
<1> USE OdometersAreNat, InspectionTimesAreNat
<1> USE DEF TypeOK, TablesTyped
<1>1. ASSUME NEW c \in Callers, NEW v \in Vehicles, NEW odometer \in Odometers,
             CreateVehicle(c, v, odometer)
      PROVE  TablesTyped'
    BY <1>1, RowTypes DEF CreateVehicle
<1>2. ASSUME NEW s \in Shifts,
             CreateShift(s)
      PROVE  TablesTyped'
    BY <1>2, RowTypes DEF CreateShift
<1>3. ASSUME NEW v \in Vehicles,
             InspectionFallsDue(v)
      PROVE  TablesTyped'
    BY <1>3 DEF InspectionFallsDue, tables
<1>4. ASSUME NEW c \in Callers, NEW s \in Shifts,
             GetShiftToCancel(c, s)
      PROVE  TablesTyped'
    BY <1>4 DEF GetShiftToCancel, tables
<1>5. ASSUME NEW c \in Callers,
             CancelShift(c)
      PROVE  TablesTyped'
    <2> DEFINE id == call[c].id
    <2>1. id \in Shifts /\ call[c].seen \in ShiftRow
        BY <1>5, CallTypes DEF CancelShift, RequestsTyped
    <2>2. ShiftTo(call[c].seen, "cancelled") \in ShiftRow
        BY <2>1, RowTypes DEF ShiftStatus
    <2>3. QED
        BY <1>5, <2>1, <2>2 DEF CancelShift
<1>6. ASSUME NEW s \in Shifts, NEW v \in Vehicles,
             AssignShift(s, v)
      PROVE  TablesTyped'
    BY <1>6, RowTypes DEF AssignShift
<1>7. ASSUME NEW v \in Vehicles, NEW k \in Keys,
             ReplayTrip(v, k)
      PROVE  TablesTyped'
    BY <1>7 DEF ReplayTrip, tables
<1>8. ASSUME NEW c \in Callers, NEW v \in Vehicles, NEW s \in Shifts,
             NEW k \in Keys,
             FindTripByKey(c, v, s, k)
      PROVE  TablesTyped'
    BY <1>8 DEF FindTripByKey, tables
<1>9. ASSUME NEW c \in Callers, NEW t \in TripIds,
             NEW odometer \in Odometers, NEW load \in Loads,
             StartTrip(c, t, odometer, load)
      PROVE  TablesTyped'
    <2> DEFINE v == call[c].vehicle
               s == call[c].shift
               k == call[c].key
    <2>1. v \in Vehicles /\ s \in Shifts /\ k \in Keys
        BY <1>9, CallTypes DEF StartTrip, RequestsTyped
    <2>2. /\ StartDispatch(vehicle[v]) \in VehicleRow
          /\ ShiftTo(shift[s], "in_progress") \in ShiftRow
          /\ NewTrip(v, s, k, odometer) \in TripRow
        BY <2>1, RowTypes DEF ShiftStatus
    <2>3. QED
        BY <1>9, <2>1, <2>2 DEF StartTrip
<1>10. ASSUME NEW t \in TripIds, NEW odometer \in Odometers,
             ReturnTrip(t, odometer)
      PROVE  TablesTyped'
    <2> DEFINE v == trip[t].vehicle
               s == trip[t].shift
    <2>1. v \in Vehicles /\ s \in Shifts
        BY <1>10 DEF ReturnTrip, ForeignKeys, Trips
    <2>2. /\ FinishReturn(vehicle[v], odometer) \in VehicleRow
          /\ ShiftTo(shift[s], "completed") \in ShiftRow
          /\ CompleteTrip(trip[t], odometer) \in TripRow
        BY <2>1, RowTypes DEF ShiftStatus
    <2>3. QED
        BY <1>10, <2>1, <2>2 DEF ReturnTrip
<1>11. ASSUME NEW n \in IncidentIds, NEW t \in TripIds,
             ReportIncident(n, t)
      PROVE  TablesTyped'
    <2>1. [trip |-> t, vehicle |-> trip[t].vehicle] \in IncidentRow
        BY DEF IncidentRow, TripRow
    <2>2. QED
        BY <1>11, <2>1 DEF ReportIncident
<1>12. ASSUME NEW o \in OrderIds, NEW v \in Vehicles,
             OpenMaintenance(o, v)
      PROVE  TablesTyped'
    BY <1>12, RowTypes DEF OpenMaintenance
<1>13. ASSUME NEW c \in Callers, NEW o \in OrderIds,
             GetOrderToStart(c, o)
      PROVE  TablesTyped'
    BY <1>13 DEF GetOrderToStart, tables
<1>14. ASSUME NEW c \in Callers,
             StartMaintenance(c)
      PROVE  TablesTyped'
    <2> DEFINE id == call[c].id
    <2>1. id \in OrderIds /\ call[c].seen \in OrderRow
        BY <1>14, CallTypes DEF StartMaintenance, RequestsTyped
    <2>2. OrderTo(call[c].seen, "in_progress") \in OrderRow
        BY <2>1, RowTypes DEF OrderStatus
    <2>3. QED
        BY <1>14, <2>1, <2>2 DEF StartMaintenance
<1>15. ASSUME NEW o \in OrderIds,
             CompleteMaintenance(o)
      PROVE  TablesTyped'
    <2> DEFINE v == order[o].vehicle
    <2>1. v \in Vehicles
        BY <1>15 DEF CompleteMaintenance, ForeignKeys
    <2>2. /\ ReleaseMaintenance(vehicle[v]) \in VehicleRow
          /\ OrderTo(order[o], "completed") \in OrderRow
        BY <2>1, RowTypes DEF OrderStatus
    <2>3. QED
        BY <1>15, <2>1, <2>2 DEF CompleteMaintenance
<1>16. ASSUME NEW i \in InspectionIds, NEW v \in Vehicles,
             NEW at \in InspectionTimes,
             CreateInspection(i, v, at)
      PROVE  TablesTyped'
    BY <1>16, RowTypes DEF CreateInspection
<1>17. ASSUME NEW i \in InspectionIds,
             SubmitPassed(i)
      PROVE  TablesTyped'
    <2>1. [inspection[i] EXCEPT !.status = "passed"] \in InspectionRow
        BY DEF InspectionRow, InspectionStatus
    <2>2. QED
        BY <1>17, <2>1 DEF SubmitPassed
<1>18. ASSUME NEW i \in InspectionIds, NEW o \in OrderIds,
             SubmitFailed(i, o)
      PROVE  TablesTyped'
    <2> DEFINE v == inspection[i].vehicle
    <2>1. v \in Vehicles
        BY <1>18 DEF SubmitFailed, ForeignKeys
    <2>2. /\ MarkMaintenance(vehicle[v]) \in VehicleRow
          /\ NewOrder(v) \in OrderRow
        BY <2>1, RowTypes
    <2>3. [inspection[i] EXCEPT !.status = "failed"] \in InspectionRow
        BY DEF InspectionRow, InspectionStatus
    <2>4. QED
        BY <1>18, <2>1, <2>2, <2>3 DEF SubmitFailed
<1>19. ASSUME NEW f \in FuelIds, NEW v \in Vehicles,
             NEW odometer \in Odometers,
             RecordFuel(f, v, odometer)
      PROVE  TablesTyped'
    <2>1. [vehicle |-> v, odometer |-> odometer] \in FuelRow
        BY DEF FuelRow
    <2>2. [vehicle[v] EXCEPT !.odometer = odometer] \in VehicleRow
        BY DEF VehicleRow
    <2>3. QED
        BY <1>19, <2>1, <2>2 DEF RecordFuel
<1>20. ASSUME NEW c \in Callers,
             AppendAuditAfterwards(c)
      PROVE  TablesTyped'
    BY <1>20 DEF AppendAuditAfterwards, tables
<1>21. ASSUME NEW c \in Callers,
             Abandon(c)
      PROVE  TablesTyped'
    BY <1>21 DEF Abandon, tables
<1>22. CASE UNCHANGED vars
    BY <1>22 DEF vars, tables
<1>23. QED
    BY <1>1, <1>2, <1>3, <1>4, <1>5, <1>6, <1>7, <1>8, <1>9, <1>10, <1>11,
       <1>12, <1>13, <1>14, <1>15, <1>16, <1>17, <1>18, <1>19, <1>20, <1>21,
       <1>22
    DEF Next, PlanningNext, DispatchNext, WorkshopNext

\* Every operation keeps the references that rows make to each other.
LEMMA ForeignKeysStep == TypeOK /\ [Next]_vars => ForeignKeys'
<1> SUFFICES ASSUME TypeOK, [Next]_vars PROVE ForeignKeys'
    OBVIOUS
<1> USE DEF TypeOK, TablesTyped, ForeignKeys, Trips
<1>1. ASSUME NEW c \in Callers, NEW v \in Vehicles, NEW odometer \in Odometers,
             CreateVehicle(c, v, odometer)
      PROVE  ForeignKeys'
    BY <1>1 DEF CreateVehicle, tables
<1>2. ASSUME NEW s \in Shifts,
             CreateShift(s)
      PROVE  ForeignKeys'
    BY <1>2 DEF CreateShift, NewShift
<1>3. ASSUME NEW v \in Vehicles,
             InspectionFallsDue(v)
      PROVE  ForeignKeys'
    BY <1>3 DEF InspectionFallsDue, tables
<1>4. ASSUME NEW c \in Callers, NEW s \in Shifts,
             GetShiftToCancel(c, s)
      PROVE  ForeignKeys'
    BY <1>4 DEF GetShiftToCancel, tables
<1>5. ASSUME NEW c \in Callers,
             CancelShift(c)
      PROVE  ForeignKeys'
    <2>1. call[c].id \in Shifts
        BY <1>5, CallTypes DEF CancelShift, RequestsTyped
    <2>2. QED
        BY <1>5, <2>1 DEF CancelShift, ShiftTo, ShiftRow
<1>6. ASSUME NEW s \in Shifts, NEW v \in Vehicles,
             AssignShift(s, v)
      PROVE  ForeignKeys'
    BY <1>6 DEF AssignShift, Assign
<1>7. ASSUME NEW v \in Vehicles, NEW k \in Keys,
             ReplayTrip(v, k)
      PROVE  ForeignKeys'
    BY <1>7 DEF ReplayTrip, tables
<1>8. ASSUME NEW c \in Callers, NEW v \in Vehicles, NEW s \in Shifts,
             NEW k \in Keys,
             FindTripByKey(c, v, s, k)
      PROVE  ForeignKeys'
    BY <1>8 DEF FindTripByKey, tables
<1>9. ASSUME NEW c \in Callers, NEW t \in TripIds,
             NEW odometer \in Odometers, NEW load \in Loads,
             StartTrip(c, t, odometer, load)
      PROVE  ForeignKeys'
    <2> DEFINE v == call[c].vehicle
               s == call[c].shift
               k == call[c].key
    <2>1. v \in Vehicles /\ s \in Shifts /\ k \in Keys
        BY <1>9, CallTypes DEF StartTrip, RequestsTyped
    <2>2. /\ shift' = [shift EXCEPT ![s] = ShiftTo(@, "in_progress")]
          /\ shift[s].vehicle = v
          /\ trip' = [trip EXCEPT ![t] = NewTrip(v, s, k, odometer)]
          /\ UNCHANGED <<order, inspection>>
        BY <1>9 DEF StartTrip, CheckStart
    <2>3. \A u \in Shifts : shift'[u].status \in {"assigned", "in_progress",
             "completed"} => shift'[u].vehicle \in Vehicles
        BY <2>1, <2>2 DEF ShiftTo, ShiftRow
    <2>4. \A u \in TripIds : trip'[u].status # "absent" =>
             /\ trip'[u].vehicle \in Vehicles /\ trip'[u].shift \in Shifts
             /\ trip'[u].key \in Keys
        BY <2>1, <2>2 DEF NewTrip, TripRow
    <2>5. QED
        BY <2>2, <2>3, <2>4
<1>10. ASSUME NEW t \in TripIds, NEW odometer \in Odometers,
             ReturnTrip(t, odometer)
      PROVE  ForeignKeys'
    <2> DEFINE s == trip[t].shift
    <2>1. s \in Shifts
        BY <1>10 DEF ReturnTrip
    <2>2. /\ shift[s].status = "in_progress"
          /\ shift' = [shift EXCEPT ![s] = ShiftTo(@, "completed")]
          /\ trip[t].status = "active"
          /\ trip' = [trip EXCEPT ![t] = CompleteTrip(@, odometer)]
          /\ UNCHANGED <<order, inspection>>
        BY <1>10 DEF ReturnTrip
    <2>3. \A u \in Shifts : shift'[u].status \in {"assigned", "in_progress",
             "completed"} => shift'[u].vehicle \in Vehicles
        BY <2>1, <2>2 DEF ShiftTo, ShiftRow
    <2>4. \A u \in TripIds : trip'[u].status # "absent" =>
             /\ trip'[u].vehicle \in Vehicles /\ trip'[u].shift \in Shifts
             /\ trip'[u].key \in Keys
        BY <2>2 DEF CompleteTrip, TripRow
    <2>5. QED
        BY <2>2, <2>3, <2>4
<1>11. ASSUME NEW n \in IncidentIds, NEW t \in TripIds,
             ReportIncident(n, t)
      PROVE  ForeignKeys'
    BY <1>11 DEF ReportIncident, tables
<1>12. ASSUME NEW o \in OrderIds, NEW v \in Vehicles,
             OpenMaintenance(o, v)
      PROVE  ForeignKeys'
    BY <1>12 DEF OpenMaintenance, NewOrder
<1>13. ASSUME NEW c \in Callers, NEW o \in OrderIds,
             GetOrderToStart(c, o)
      PROVE  ForeignKeys'
    BY <1>13 DEF GetOrderToStart, tables
<1>14. ASSUME NEW c \in Callers,
             StartMaintenance(c)
      PROVE  ForeignKeys'
    <2>1. /\ call[c].id \in OrderIds /\ call[c].seen \in OrderRow
          /\ call[c].seen.vehicle \in Vehicles
        BY <1>14, CallTypes DEF StartMaintenance, RequestsTyped
    <2>2. QED
        BY <1>14, <2>1 DEF StartMaintenance, OrderTo, OrderRow
<1>15. ASSUME NEW o \in OrderIds,
             CompleteMaintenance(o)
      PROVE  ForeignKeys'
    BY <1>15 DEF CompleteMaintenance, OrderTo, OrderRow
<1>16. ASSUME NEW i \in InspectionIds, NEW v \in Vehicles,
             NEW at \in InspectionTimes,
             CreateInspection(i, v, at)
      PROVE  ForeignKeys'
    BY <1>16 DEF CreateInspection, NewInspection
<1>17. ASSUME NEW i \in InspectionIds,
             SubmitPassed(i)
      PROVE  ForeignKeys'
    BY <1>17 DEF SubmitPassed, InspectionRow
<1>18. ASSUME NEW i \in InspectionIds, NEW o \in OrderIds,
             SubmitFailed(i, o)
      PROVE  ForeignKeys'
    BY <1>18 DEF SubmitFailed, NewOrder, InspectionRow
<1>19. ASSUME NEW f \in FuelIds, NEW v \in Vehicles,
             NEW odometer \in Odometers,
             RecordFuel(f, v, odometer)
      PROVE  ForeignKeys'
    BY <1>19 DEF RecordFuel, tables
<1>20. ASSUME NEW c \in Callers,
             AppendAuditAfterwards(c)
      PROVE  ForeignKeys'
    BY <1>20 DEF AppendAuditAfterwards, tables
<1>21. ASSUME NEW c \in Callers,
             Abandon(c)
      PROVE  ForeignKeys'
    BY <1>21 DEF Abandon, tables
<1>22. CASE UNCHANGED vars
    BY <1>22 DEF vars, tables
<1>23. QED
    BY <1>1, <1>2, <1>3, <1>4, <1>5, <1>6, <1>7, <1>8, <1>9, <1>10, <1>11,
       <1>12, <1>13, <1>14, <1>15, <1>16, <1>17, <1>18, <1>19, <1>20, <1>21,
       <1>22
    DEF Next, PlanningNext, DispatchNext, WorkshopNext

\* The rows written to the outbox and to the audit trail are of their type.
LEMMA TrailTypes ==
    /\ \A topic \in Topics, id \in TripIds \cup InspectionIds \cup FuelIds
             \cup IncidentIds : [topic |-> topic, id |-> id] \in JobRows
    /\ \A action \in AuditActions, id \in AuditIds :
          [action |-> action, id |-> id] \in AuditRows
    BY DEF JobRows, AuditRows

\* Requests, answers, jobs and audit rows stay of their type.
LEMMA RequestsStep == TypeOK /\ [Next]_vars => RequestsTyped'
<1> SUFFICES ASSUME TypeOK, [Next]_vars PROVE RequestsTyped'
    OBVIOUS
<1> USE DEF TypeOK, RequestsTyped
<1>1. ASSUME NEW c \in Callers, NEW v \in Vehicles, NEW odometer \in Odometers,
             CreateVehicle(c, v, odometer)
      PROVE  RequestsTyped'
    <2>1. AuditCall("vehicle.create", v) \in Calls
        BY TrailTypes DEF AuditCall, Calls, AuditCalls, AuditActions, AuditIds
    <2>2. QED
        BY <1>1, <2>1 DEF CreateVehicle
<1>2. ASSUME NEW s \in Shifts,
             CreateShift(s)
      PROVE  RequestsTyped'
    BY <1>2 DEF CreateShift
<1>3. ASSUME NEW v \in Vehicles,
             InspectionFallsDue(v)
      PROVE  RequestsTyped'
    BY <1>3 DEF InspectionFallsDue
<1>4. ASSUME NEW c \in Callers, NEW s \in Shifts,
             GetShiftToCancel(c, s)
      PROVE  RequestsTyped'
    <2>1. [op |-> "cancel_shift", id |-> s, seen |-> shift[s]] \in Calls
        BY <1>4 DEF GetShiftToCancel, Calls, CancelShiftCalls, TablesTyped
    <2>2. QED
        BY <1>4, <2>1 DEF GetShiftToCancel
<1>5. ASSUME NEW c \in Callers,
             CancelShift(c)
      PROVE  RequestsTyped'
    <2>1. call[c].id \in Shifts
        BY <1>5, CallTypes DEF CancelShift
    <2>2. AuditCall("shift.cancel", call[c].id) \in Calls
        BY <2>1, TrailTypes DEF AuditCall, Calls, AuditCalls, AuditActions,
           AuditIds
    <2>3. QED
        BY <1>5, <2>2 DEF CancelShift
<1>6. ASSUME NEW s \in Shifts, NEW v \in Vehicles,
             AssignShift(s, v)
      PROVE  RequestsTyped'
    BY <1>6, TrailTypes DEF AssignShift, AppendAudit, AuditActions, AuditIds
<1>7. ASSUME NEW v \in Vehicles, NEW k \in Keys,
             ReplayTrip(v, k)
      PROVE  RequestsTyped'
    BY <1>7 DEF ReplayTrip, TripsByKey, Trips, Answers, tables
<1>8. ASSUME NEW c \in Callers, NEW v \in Vehicles, NEW s \in Shifts,
             NEW k \in Keys,
             FindTripByKey(c, v, s, k)
      PROVE  RequestsTyped'
    <2>1. [op |-> "start_trip", vehicle |-> v, shift |-> s, key |-> k] \in Calls
        BY DEF Calls, StartTripCalls
    <2>2. QED
        BY <1>8, <2>1 DEF FindTripByKey
<1>9. ASSUME NEW c \in Callers, NEW t \in TripIds,
             NEW odometer \in Odometers, NEW load \in Loads,
             StartTrip(c, t, odometer, load)
      PROVE  RequestsTyped'
    <2>1. [vehicle |-> call[c].vehicle, key |-> call[c].key, trip |-> t]
             \in Answers
        BY <1>9, CallTypes DEF StartTrip, Answers
    <2>2. Idle \in Calls
        BY DEF Calls
    <2>3. QED
        BY <1>9, <2>1, <2>2, TrailTypes
        DEF StartTrip, AppendAudit, AuditActions, AuditIds, Enqueue, Topics
<1>10. ASSUME NEW t \in TripIds, NEW odometer \in Odometers,
             ReturnTrip(t, odometer)
      PROVE  RequestsTyped'
    BY <1>10, TrailTypes
    DEF ReturnTrip, AppendAudit, AuditActions, AuditIds, Enqueue, Topics
<1>11. ASSUME NEW n \in IncidentIds, NEW t \in TripIds,
             ReportIncident(n, t)
      PROVE  RequestsTyped'
    BY <1>11, TrailTypes
    DEF ReportIncident, AppendAudit, AuditActions, AuditIds, Enqueue, Topics
<1>12. ASSUME NEW o \in OrderIds, NEW v \in Vehicles,
             OpenMaintenance(o, v)
      PROVE  RequestsTyped'
    BY <1>12, TrailTypes DEF OpenMaintenance, AppendAudit, AuditActions, AuditIds
<1>13. ASSUME NEW c \in Callers, NEW o \in OrderIds,
             GetOrderToStart(c, o)
      PROVE  RequestsTyped'
    <2>1. [op |-> "start_order", id |-> o, seen |-> order[o]] \in Calls
        BY <1>13 DEF GetOrderToStart, Calls, StartOrderCalls, TablesTyped,
           ForeignKeys
    <2>2. QED
        BY <1>13, <2>1 DEF GetOrderToStart
<1>14. ASSUME NEW c \in Callers,
             StartMaintenance(c)
      PROVE  RequestsTyped'
    <2>1. call[c].id \in OrderIds
        BY <1>14, CallTypes DEF StartMaintenance
    <2>2. AuditCall("maintenance.start", call[c].id) \in Calls
        BY <2>1, TrailTypes DEF AuditCall, Calls, AuditCalls, AuditActions,
           AuditIds
    <2>3. QED
        BY <1>14, <2>2 DEF StartMaintenance
<1>15. ASSUME NEW o \in OrderIds,
             CompleteMaintenance(o)
      PROVE  RequestsTyped'
    BY <1>15, TrailTypes DEF CompleteMaintenance, AppendAudit, AuditActions, AuditIds
<1>16. ASSUME NEW i \in InspectionIds, NEW v \in Vehicles,
             NEW at \in InspectionTimes,
             CreateInspection(i, v, at)
      PROVE  RequestsTyped'
    BY <1>16, TrailTypes DEF CreateInspection, AppendAudit, AuditActions, AuditIds
<1>17. ASSUME NEW i \in InspectionIds,
             SubmitPassed(i)
      PROVE  RequestsTyped'
    BY <1>17, TrailTypes
    DEF SubmitPassed, AppendAudit, AuditActions, AuditIds, Enqueue, Topics
<1>18. ASSUME NEW i \in InspectionIds, NEW o \in OrderIds,
             SubmitFailed(i, o)
      PROVE  RequestsTyped'
    BY <1>18, TrailTypes
    DEF SubmitFailed, AppendAudit, AuditActions, AuditIds, Enqueue, Topics
<1>19. ASSUME NEW f \in FuelIds, NEW v \in Vehicles,
             NEW odometer \in Odometers,
             RecordFuel(f, v, odometer)
      PROVE  RequestsTyped'
    BY <1>19, TrailTypes
    DEF RecordFuel, AppendAudit, AuditActions, AuditIds, Enqueue, Topics
<1>20. ASSUME NEW c \in Callers,
             AppendAuditAfterwards(c)
      PROVE  RequestsTyped'
    <2>1. call[c].row \in AuditRows /\ Idle \in Calls
        BY <1>20, CallTypes DEF AppendAuditAfterwards, Calls
    <2>2. QED
        BY <1>20, <2>1 DEF AppendAuditAfterwards
<1>21. ASSUME NEW c \in Callers,
             Abandon(c)
      PROVE  RequestsTyped'
    BY <1>21 DEF Abandon, Calls
<1>22. CASE UNCHANGED vars
    BY <1>22 DEF vars, tables
<1>23. QED
    BY <1>1, <1>2, <1>3, <1>4, <1>5, <1>6, <1>7, <1>8, <1>9, <1>10, <1>11,
       <1>12, <1>13, <1>14, <1>15, <1>16, <1>17, <1>18, <1>19, <1>20, <1>21,
       <1>22
    DEF Next, PlanningNext, DispatchNext, WorkshopNext

\* Type correctness: every table holds rows of its type and every row that
\* exists names the rows its foreign keys and its status require.
THEOREM TypeCorrect == Spec => []TypeOK
<1>1. Init => TypeOK
    <2> SUFFICES ASSUME Init PROVE TypeOK
        OBVIOUS
    <2>1. TablesTyped
        BY RowTypes DEF Init, TablesTyped
    <2>2. ForeignKeys
        BY DEF Init, ForeignKeys, Trips, NoShift, NoTrip, NoOrder, NoInspection
    <2>3. RequestsTyped
        BY DEF Init, RequestsTyped, Calls
    <2>4. QED
        BY <2>1, <2>2, <2>3 DEF TypeOK
<1>2. TypeOK /\ [Next]_vars => TypeOK'
    BY TablesStep, ForeignKeysStep, RequestsStep DEF TypeOK
<1>3. QED
    BY <1>1, <1>2, PTL DEF Spec

-----------------------------------------------------------------------------
(* Safety                                                                   *)


\* Every write moves the version of the row it replaces.
LEMMA VersionsStep ==
    TypeOK /\ VersionsCurrent /\ [Next]_vars => VersionsCurrent'
<1> SUFFICES ASSUME TypeOK, VersionsCurrent, [Next]_vars PROVE VersionsCurrent'
    OBVIOUS
<1> USE DEF TypeOK, TablesTyped, RequestsTyped, VersionsCurrent
<1>1. ASSUME NEW c \in Callers, NEW v \in Vehicles, NEW odometer \in Odometers,
             CreateVehicle(c, v, odometer)
      PROVE  VersionsCurrent'
    BY <1>1 DEF CreateVehicle, AuditCall
<1>2. ASSUME NEW s \in Shifts,
             CreateShift(s)
      PROVE  VersionsCurrent'
    BY <1>2, CallTypes DEF CreateShift, NewShift, NoShift, ShiftRow
<1>3. ASSUME NEW v \in Vehicles,
             InspectionFallsDue(v)
      PROVE  VersionsCurrent'
    BY <1>3 DEF InspectionFallsDue, tables, Idle
<1>4. ASSUME NEW c \in Callers, NEW s \in Shifts,
             GetShiftToCancel(c, s)
      PROVE  VersionsCurrent'
    BY <1>4 DEF GetShiftToCancel, tables, TablesTyped, ShiftRow
<1>5. ASSUME NEW c \in Callers,
             CancelShift(c)
      PROVE  VersionsCurrent'
    <2>1. /\ call[c].id \in Shifts /\ call[c].seen \in ShiftRow
          /\ MayCancel(call[c].seen)
        BY <1>5, CallTypes DEF CancelShift
    <2> DEFINE s == call[c].id
    <2>2. /\ shift'[s].version = shift[s].version + 1
          /\ shift'[s].status = "cancelled"
          /\ \A u \in Shifts : u # s => shift'[u] = shift[u]
        BY <1>5, <2>1 DEF CancelShift, SameVersion, ShiftTo, ShiftRow
    <2>3. /\ call'[c].op = "audit"
          /\ \A d \in Callers : d # c => call'[d] = call[d]
          /\ order' = order
        BY <1>5 DEF CancelShift, AuditCall
    <2>4. ASSUME NEW d \in Callers, call'[d].op = "cancel_shift"
          PROVE  /\ call'[d].seen.version <= shift'[call'[d].id].version
                 /\ call'[d].seen.version = shift'[call'[d].id].version =>
                       call'[d].seen = shift'[call'[d].id]
        <3>1. call'[d] = call[d] /\ call[d].id \in Shifts
            BY <2>3, <2>4, CallTypes
        <3>2. /\ call[d].seen.version \in Nat
              /\ shift[call[d].id].version \in Nat
            BY <2>4, <3>1, CallTypes DEF ShiftRow
        <3>3. QED
            BY <2>2, <2>4, <3>1, <3>2
    <2>5. ASSUME NEW d \in Callers, call'[d].op = "start_order"
          PROVE  call'[d] = call[d]
        BY <2>3, <2>5
    <2>6. QED
        BY <2>1, <2>2, <2>3, <2>4, <2>5
<1>6. ASSUME NEW s \in Shifts, NEW v \in Vehicles,
             AssignShift(s, v)
      PROVE  VersionsCurrent'
    BY <1>6, CallTypes DEF AssignShift, CheckAssignment, Assign, ShiftRow
<1>7. ASSUME NEW v \in Vehicles, NEW k \in Keys,
             ReplayTrip(v, k)
      PROVE  VersionsCurrent'
    BY <1>7 DEF ReplayTrip, tables, Idle
<1>8. ASSUME NEW c \in Callers, NEW v \in Vehicles, NEW s \in Shifts,
             NEW k \in Keys,
             FindTripByKey(c, v, s, k)
      PROVE  VersionsCurrent'
    BY <1>8 DEF FindTripByKey, tables
<1>9. ASSUME NEW c \in Callers, NEW t \in TripIds,
             NEW odometer \in Odometers, NEW load \in Loads,
             StartTrip(c, t, odometer, load)
      PROVE  VersionsCurrent'
    <2>1. call[c].shift \in Shifts
        BY <1>9, CallTypes DEF StartTrip
    <2> DEFINE s == call[c].shift
    <2>2. /\ shift'[s].version = shift[s].version + 1
          /\ shift'[s].status = "in_progress"
          /\ \A u \in Shifts : u # s => shift'[u] = shift[u]
        BY <1>9, <2>1 DEF StartTrip, ShiftTo, ShiftRow
    <2>3. /\ call'[c].op = "idle"
          /\ \A d \in Callers : d # c => call'[d] = call[d]
          /\ order' = order
        BY <1>9 DEF StartTrip, Idle
    <2>4. ASSUME NEW d \in Callers, call'[d].op = "cancel_shift"
          PROVE  /\ call'[d].seen.version <= shift'[call'[d].id].version
                 /\ call'[d].seen.version = shift'[call'[d].id].version =>
                       call'[d].seen = shift'[call'[d].id]
        <3>1. call'[d] = call[d] /\ call[d].id \in Shifts
            BY <2>3, <2>4, CallTypes
        <3>2. /\ call[d].seen.version \in Nat
              /\ shift[call[d].id].version \in Nat
            BY <2>4, <3>1, CallTypes DEF ShiftRow
        <3>3. QED
            BY <2>2, <2>4, <3>1, <3>2
    <2>5. ASSUME NEW d \in Callers, call'[d].op = "start_order"
          PROVE  call'[d] = call[d]
        BY <2>3, <2>5
    <2>6. QED
        BY <2>1, <2>2, <2>3, <2>4, <2>5
<1>10. ASSUME NEW t \in TripIds, NEW odometer \in Odometers,
             ReturnTrip(t, odometer)
      PROVE  VersionsCurrent'
    <2>1. trip[t].shift \in Shifts
        BY <1>10 DEF ReturnTrip, ForeignKeys, Trips
    <2>2. QED
        BY <1>10, <2>1, CallTypes DEF ReturnTrip, ShiftTo, ShiftRow
<1>11. ASSUME NEW n \in IncidentIds, NEW t \in TripIds,
             ReportIncident(n, t)
      PROVE  VersionsCurrent'
    BY <1>11 DEF ReportIncident
<1>12. ASSUME NEW o \in OrderIds, NEW v \in Vehicles,
             OpenMaintenance(o, v)
      PROVE  VersionsCurrent'
    BY <1>12, CallTypes DEF OpenMaintenance, NewOrder, NoOrder, OrderRow
<1>13. ASSUME NEW c \in Callers, NEW o \in OrderIds,
             GetOrderToStart(c, o)
      PROVE  VersionsCurrent'
    BY <1>13 DEF GetOrderToStart, tables, TablesTyped, OrderRow
<1>14. ASSUME NEW c \in Callers,
             StartMaintenance(c)
      PROVE  VersionsCurrent'
    <2>1. call[c].id \in OrderIds /\ call[c].seen \in OrderRow
        BY <1>14, CallTypes DEF StartMaintenance
    <2> DEFINE o == call[c].id
    <2>2. /\ order'[o].version = order[o].version + 1
          /\ order'[o].status = "in_progress"
          /\ \A u \in OrderIds : u # o => order'[u] = order[u]
        BY <1>14, <2>1 DEF StartMaintenance, SameVersion, OrderTo, OrderRow
    <2>3. /\ call'[c].op = "audit"
          /\ \A d \in Callers : d # c => call'[d] = call[d]
          /\ shift' = shift
        BY <1>14 DEF StartMaintenance, AuditCall
    <2>4. ASSUME NEW d \in Callers, call'[d].op = "start_order"
          PROVE  /\ call'[d].seen.version <= order'[call'[d].id].version
                 /\ call'[d].seen.version = order'[call'[d].id].version =>
                       call'[d].seen = order'[call'[d].id]
        <3>1. call'[d] = call[d] /\ call[d].id \in OrderIds
            BY <2>3, <2>4, CallTypes
        <3>2. /\ call[d].seen.version \in Nat
              /\ order[call[d].id].version \in Nat
            BY <2>4, <3>1, CallTypes DEF OrderRow
        <3>3. QED
            BY <2>2, <2>4, <3>1, <3>2
    <2>5. ASSUME NEW d \in Callers, call'[d].op = "cancel_shift"
          PROVE  call'[d] = call[d]
        BY <2>3, <2>5
    <2>6. QED
        BY <2>1, <2>2, <2>3, <2>4, <2>5
<1>15. ASSUME NEW o \in OrderIds,
             CompleteMaintenance(o)
      PROVE  VersionsCurrent'
    BY <1>15, CallTypes DEF CompleteMaintenance, OrderTo, OrderRow
<1>16. ASSUME NEW i \in InspectionIds, NEW v \in Vehicles,
             NEW at \in InspectionTimes,
             CreateInspection(i, v, at)
      PROVE  VersionsCurrent'
    BY <1>16 DEF CreateInspection
<1>17. ASSUME NEW i \in InspectionIds,
             SubmitPassed(i)
      PROVE  VersionsCurrent'
    BY <1>17 DEF SubmitPassed
<1>18. ASSUME NEW i \in InspectionIds, NEW o \in OrderIds,
             SubmitFailed(i, o)
      PROVE  VersionsCurrent'
    BY <1>18, CallTypes DEF SubmitFailed, NewOrder, NoOrder, OrderRow
<1>19. ASSUME NEW f \in FuelIds, NEW v \in Vehicles,
             NEW odometer \in Odometers,
             RecordFuel(f, v, odometer)
      PROVE  VersionsCurrent'
    BY <1>19 DEF RecordFuel
<1>20. ASSUME NEW c \in Callers,
             AppendAuditAfterwards(c)
      PROVE  VersionsCurrent'
    BY <1>20 DEF AppendAuditAfterwards, tables, Idle
<1>21. ASSUME NEW c \in Callers,
             Abandon(c)
      PROVE  VersionsCurrent'
    BY <1>21 DEF Abandon, tables, Idle
<1>22. CASE UNCHANGED vars
    BY <1>22 DEF vars, tables
<1>23. QED
    BY <1>1, <1>2, <1>3, <1>4, <1>5, <1>6, <1>7, <1>8, <1>9, <1>10, <1>11,
       <1>12, <1>13, <1>14, <1>15, <1>16, <1>17, <1>18, <1>19, <1>20, <1>21,
       <1>22
    DEF Next, PlanningNext, DispatchNext, WorkshopNext

\* No interleaving of dispatch, planning and workshop separates the status
\* columns.  A stale CancelShift is stopped by VersionsCurrent.
LEMMA DutyStep ==
    TypeOK /\ VersionsCurrent /\ DutyAgrees /\ [Next]_vars => DutyAgrees'
<1> SUFFICES ASSUME TypeOK, VersionsCurrent, DutyAgrees, [Next]_vars
             PROVE DutyAgrees'
    OBVIOUS
<1> USE DEF TypeOK, TablesTyped, RequestsTyped, DutyAgrees,
        OnDutyIffActiveTrip, ShiftMatchesTrip, Trips, ActiveTrips
<1>1. ASSUME NEW c \in Callers, NEW v \in Vehicles, NEW odometer \in Odometers,
             CreateVehicle(c, v, odometer)
      PROVE  DutyAgrees'
    BY <1>1 DEF CreateVehicle, NewVehicle
<1>2. ASSUME NEW s \in Shifts,
             CreateShift(s)
      PROVE  DutyAgrees'
    BY <1>2 DEF CreateShift, NewShift
<1>3. ASSUME NEW v \in Vehicles,
             InspectionFallsDue(v)
      PROVE  DutyAgrees'
    BY <1>3 DEF InspectionFallsDue, tables
<1>4. ASSUME NEW c \in Callers, NEW s \in Shifts,
             GetShiftToCancel(c, s)
      PROVE  DutyAgrees'
    BY <1>4 DEF GetShiftToCancel, tables
<1>5. ASSUME NEW c \in Callers,
             CancelShift(c)
      PROVE  DutyAgrees'
    <2> DEFINE s == call[c].id
    <2>1. s \in Shifts /\ MayCancel(shift[s])
        BY <1>5, CallTypes DEF CancelShift, SameVersion, VersionsCurrent
    <2>2. shift' = [shift EXCEPT ![s] = ShiftTo(shift[s], "cancelled")]
        <3>1. call[c].seen = shift[s]
            BY <1>5 DEF CancelShift, SameVersion, VersionsCurrent
        <3>2. QED
            BY <1>5, <3>1 DEF CancelShift
    <2>3. \A t \in Trips : trip[t].shift # s
        BY <2>1 DEF MayCancel
    <2>4. UNCHANGED <<vehicle, trip>>
        BY <1>5 DEF CancelShift
    <2>5. QED
        BY <2>1, <2>2, <2>3, <2>4 DEF ShiftTo, ShiftRow
<1>6. ASSUME NEW s \in Shifts, NEW v \in Vehicles,
             AssignShift(s, v)
      PROVE  DutyAgrees'
    BY <1>6 DEF AssignShift, CheckAssignment, Assign
<1>7. ASSUME NEW v \in Vehicles, NEW k \in Keys,
             ReplayTrip(v, k)
      PROVE  DutyAgrees'
    BY <1>7 DEF ReplayTrip, tables
<1>8. ASSUME NEW c \in Callers, NEW v \in Vehicles, NEW s \in Shifts,
             NEW k \in Keys,
             FindTripByKey(c, v, s, k)
      PROVE  DutyAgrees'
    BY <1>8 DEF FindTripByKey, tables
<1>9. ASSUME NEW c \in Callers, NEW t \in TripIds,
             NEW odometer \in Odometers, NEW load \in Loads,
             StartTrip(c, t, odometer, load)
      PROVE  DutyAgrees'
    <2> DEFINE v == call[c].vehicle
               s == call[c].shift
               k == call[c].key
    <2>1. v \in Vehicles /\ s \in Shifts /\ k \in Keys
        BY <1>9, CallTypes DEF StartTrip
    <2>2. /\ vehicle[v].status = "available"
          /\ shift[s].status = "assigned" /\ shift[s].vehicle = v
          /\ \A u \in Trips : trip[u].shift # s
          /\ trip[t].status = "absent"
        BY <1>9 DEF StartTrip, CheckStart, CanDispatch, TripInsertable
    <2>3. /\ vehicle' = [vehicle EXCEPT ![v] = StartDispatch(@)]
          /\ shift' = [shift EXCEPT ![s] = ShiftTo(@, "in_progress")]
          /\ trip' = [trip EXCEPT ![t] = NewTrip(v, s, k, odometer)]
        BY <1>9 DEF StartTrip
    <2>4. /\ Trips' = Trips \cup {t}
          /\ ActiveTrips' = ActiveTrips \cup {t}
          /\ t \notin Trips /\ t \notin ActiveTrips
          /\ trip'[t] = NewTrip(v, s, k, odometer)
          /\ \A u \in Trips : trip'[u] = trip[u]
        BY <2>2, <2>3 DEF NewTrip
    <2>5. OnDutyIffActiveTrip'
        BY <2>1, <2>2, <2>3, <2>4 DEF StartDispatch, NewTrip, VehicleRow
    <2>6. ShiftMatchesTrip'
        BY <2>1, <2>2, <2>3, <2>4 DEF ShiftTo, NewTrip, ShiftRow
    <2>7. QED
        BY <2>5, <2>6
<1>10. ASSUME NEW t \in TripIds, NEW odometer \in Odometers,
             ReturnTrip(t, odometer)
      PROVE  DutyAgrees'
    <2> DEFINE v == trip[t].vehicle
               s == trip[t].shift
    <2>1. v \in Vehicles /\ s \in Shifts
        BY <1>10 DEF ReturnTrip, ForeignKeys
    <2>2. t \in ActiveTrips /\ t \in Trips
        BY <1>10 DEF ReturnTrip
    <2>3. /\ vehicle' = [vehicle EXCEPT ![v] = FinishReturn(@, odometer)]
          /\ shift' = [shift EXCEPT ![s] = ShiftTo(@, "completed")]
          /\ trip' = [trip EXCEPT ![t] = CompleteTrip(@, odometer)]
        BY <1>10 DEF ReturnTrip
    <2>4. /\ trip'[t].status = "completed"
          /\ trip'[t].vehicle = v /\ trip'[t].shift = s
          /\ \A u \in TripIds \ {t} : trip'[u] = trip[u]
          /\ Trips' = Trips
          /\ ActiveTrips' = ActiveTrips \ {t}
        BY <2>2, <2>3 DEF CompleteTrip, TripRow
    <2>5. OnDutyIffActiveTrip'
        BY <2>1, <2>2, <2>3, <2>4 DEF FinishReturn, VehicleRow
    <2>6. ShiftMatchesTrip'
        BY <2>1, <2>2, <2>3, <2>4 DEF ShiftTo, ShiftRow
    <2>7. QED
        BY <2>5, <2>6
<1>11. ASSUME NEW n \in IncidentIds, NEW t \in TripIds,
             ReportIncident(n, t)
      PROVE  DutyAgrees'
    BY <1>11 DEF ReportIncident
<1>12. ASSUME NEW o \in OrderIds, NEW v \in Vehicles,
             OpenMaintenance(o, v)
      PROVE  DutyAgrees'
    BY <1>12 DEF OpenMaintenance, MayMark, MarkMaintenance, VehicleRow
<1>13. ASSUME NEW c \in Callers, NEW o \in OrderIds,
             GetOrderToStart(c, o)
      PROVE  DutyAgrees'
    BY <1>13 DEF GetOrderToStart, tables
<1>14. ASSUME NEW c \in Callers,
             StartMaintenance(c)
      PROVE  DutyAgrees'
    BY <1>14 DEF StartMaintenance
<1>15. ASSUME NEW o \in OrderIds,
             CompleteMaintenance(o)
      PROVE  DutyAgrees'
    BY <1>15 DEF CompleteMaintenance, ReleaseMaintenance, VehicleRow
<1>16. ASSUME NEW i \in InspectionIds, NEW v \in Vehicles,
             NEW at \in InspectionTimes,
             CreateInspection(i, v, at)
      PROVE  DutyAgrees'
    BY <1>16 DEF CreateInspection
<1>17. ASSUME NEW i \in InspectionIds,
             SubmitPassed(i)
      PROVE  DutyAgrees'
    BY <1>17 DEF SubmitPassed
<1>18. ASSUME NEW i \in InspectionIds, NEW o \in OrderIds,
             SubmitFailed(i, o)
      PROVE  DutyAgrees'
    BY <1>18 DEF SubmitFailed, MayMark, MarkMaintenance, VehicleRow
<1>19. ASSUME NEW f \in FuelIds, NEW v \in Vehicles,
             NEW odometer \in Odometers,
             RecordFuel(f, v, odometer)
      PROVE  DutyAgrees'
    BY <1>19 DEF RecordFuel, VehicleRow
<1>20. ASSUME NEW c \in Callers,
             AppendAuditAfterwards(c)
      PROVE  DutyAgrees'
    BY <1>20 DEF AppendAuditAfterwards, tables
<1>21. ASSUME NEW c \in Callers,
             Abandon(c)
      PROVE  DutyAgrees'
    BY <1>21 DEF Abandon, tables
<1>22. CASE UNCHANGED vars
    BY <1>22 DEF vars, tables
<1>23. QED
    BY <1>1, <1>2, <1>3, <1>4, <1>5, <1>6, <1>7, <1>8, <1>9, <1>10, <1>11,
       <1>12, <1>13, <1>14, <1>15, <1>16, <1>17, <1>18, <1>19, <1>20, <1>21,
       <1>22
    DEF Next, PlanningNext, DispatchNext, WorkshopNext

\* Orders are opened for vehicles that are not on the road, and only the
\* completion of an order takes a vehicle out of maintenance.
LEMMA WorkshopStep ==
    TypeOK /\ VersionsCurrent /\ WorkshopExcludesRoad /\ [Next]_vars
    => WorkshopExcludesRoad'
<1> SUFFICES ASSUME TypeOK, VersionsCurrent, WorkshopExcludesRoad, [Next]_vars
             PROVE WorkshopExcludesRoad'
    OBVIOUS
<1> USE DEF TypeOK, TablesTyped, RequestsTyped, WorkshopExcludesRoad,
        ActiveOrders, IsActiveOrder
<1>1. ASSUME NEW c \in Callers, NEW v \in Vehicles, NEW odometer \in Odometers,
             CreateVehicle(c, v, odometer)
      PROVE  WorkshopExcludesRoad'
    BY <1>1 DEF CreateVehicle, NewVehicle
<1>2. ASSUME NEW s \in Shifts,
             CreateShift(s)
      PROVE  WorkshopExcludesRoad'
    BY <1>2 DEF CreateShift
<1>3. ASSUME NEW v \in Vehicles,
             InspectionFallsDue(v)
      PROVE  WorkshopExcludesRoad'
    BY <1>3 DEF InspectionFallsDue, tables
<1>4. ASSUME NEW c \in Callers, NEW s \in Shifts,
             GetShiftToCancel(c, s)
      PROVE  WorkshopExcludesRoad'
    BY <1>4 DEF GetShiftToCancel, tables
<1>5. ASSUME NEW c \in Callers,
             CancelShift(c)
      PROVE  WorkshopExcludesRoad'
    BY <1>5 DEF CancelShift
<1>6. ASSUME NEW s \in Shifts, NEW v \in Vehicles,
             AssignShift(s, v)
      PROVE  WorkshopExcludesRoad'
    BY <1>6 DEF AssignShift
<1>7. ASSUME NEW v \in Vehicles, NEW k \in Keys,
             ReplayTrip(v, k)
      PROVE  WorkshopExcludesRoad'
    BY <1>7 DEF ReplayTrip, tables
<1>8. ASSUME NEW c \in Callers, NEW v \in Vehicles, NEW s \in Shifts,
             NEW k \in Keys,
             FindTripByKey(c, v, s, k)
      PROVE  WorkshopExcludesRoad'
    BY <1>8 DEF FindTripByKey, tables
<1>9. ASSUME NEW c \in Callers, NEW t \in TripIds,
             NEW odometer \in Odometers, NEW load \in Loads,
             StartTrip(c, t, odometer, load)
      PROVE  WorkshopExcludesRoad'
    <2> DEFINE v == call[c].vehicle
    <2>1. v \in Vehicles /\ ActiveOrders(v) = {}
        BY <1>9, CallTypes DEF StartTrip, CheckStart
    <2>2. /\ vehicle' = [vehicle EXCEPT ![v] = StartDispatch(@)]
          /\ UNCHANGED order
        BY <1>9 DEF StartTrip
    <2>3. QED
        BY <2>1, <2>2 DEF StartDispatch, VehicleRow
<1>10. ASSUME NEW t \in TripIds, NEW odometer \in Odometers,
             ReturnTrip(t, odometer)
      PROVE  WorkshopExcludesRoad'
    <2> DEFINE v == trip[t].vehicle
    <2>1. v \in Vehicles
        BY <1>10 DEF ReturnTrip, ForeignKeys, Trips
    <2>2. /\ vehicle' = [vehicle EXCEPT ![v] = FinishReturn(@, odometer)]
          /\ UNCHANGED order
        BY <1>10 DEF ReturnTrip
    <2>3. QED
        BY <2>1, <2>2 DEF FinishReturn, VehicleRow
<1>11. ASSUME NEW n \in IncidentIds, NEW t \in TripIds,
             ReportIncident(n, t)
      PROVE  WorkshopExcludesRoad'
    BY <1>11 DEF ReportIncident
<1>12. ASSUME NEW o \in OrderIds, NEW v \in Vehicles,
             OpenMaintenance(o, v)
      PROVE  WorkshopExcludesRoad'
    <2>1. /\ v \in Vehicles /\ MayMark(vehicle[v])
          /\ order[o].status = "absent" /\ order' = [order EXCEPT ![o] = NewOrder(v)]
          /\ vehicle' = [vehicle EXCEPT ![v] = MarkMaintenance(@)]
        BY <1>12 DEF OpenMaintenance
    <2>2. o \in ActiveOrders(v)'
        BY <2>1 DEF NewOrder
    <2>3. \A w \in Vehicles : w # v => ActiveOrders(w)' = ActiveOrders(w)
        BY <2>1 DEF NewOrder, OrderRow
    <2>4. /\ vehicle'[v].status = "maintenance"
          /\ \A w \in Vehicles : w # v => vehicle'[w] = vehicle[w]
        BY <2>1 DEF MarkMaintenance, VehicleRow
    <2>5. QED
        BY <2>2, <2>3, <2>4
<1>13. ASSUME NEW c \in Callers, NEW o \in OrderIds,
             GetOrderToStart(c, o)
      PROVE  WorkshopExcludesRoad'
    BY <1>13 DEF GetOrderToStart, tables
<1>14. ASSUME NEW c \in Callers,
             StartMaintenance(c)
      PROVE  WorkshopExcludesRoad'
    <2> DEFINE o == call[c].id
    <2>1. /\ o \in OrderIds /\ order[o].status = "open"
          /\ order' = [order EXCEPT ![o] = OrderTo(order[o], "in_progress")]
        BY <1>14, CallTypes DEF StartMaintenance, SameVersion, VersionsCurrent
    <2>2. \A w \in Vehicles : ActiveOrders(w)' = ActiveOrders(w)
        BY <2>1 DEF OrderTo, OrderRow
    <2>3. QED
        BY <1>14, <2>2 DEF StartMaintenance
<1>15. ASSUME NEW o \in OrderIds,
             CompleteMaintenance(o)
      PROVE  WorkshopExcludesRoad'
    <2> DEFINE v == order[o].vehicle
    <2>1. v \in Vehicles
        BY <1>15 DEF CompleteMaintenance, ForeignKeys
    <2>2. /\ vehicle'[v].status = "available"
          /\ \A w \in Vehicles \ {v} : vehicle'[w] = vehicle[w]
        BY <1>15, <2>1 DEF CompleteMaintenance, ReleaseMaintenance, VehicleRow
    <2>3. \A w \in Vehicles \ {v} : ActiveOrders(w)' = ActiveOrders(w)
        BY <1>15, <2>1 DEF CompleteMaintenance, OrderTo, OrderRow
    <2>4. QED
        BY <2>2, <2>3
<1>16. ASSUME NEW i \in InspectionIds, NEW v \in Vehicles,
             NEW at \in InspectionTimes,
             CreateInspection(i, v, at)
      PROVE  WorkshopExcludesRoad'
    BY <1>16 DEF CreateInspection
<1>17. ASSUME NEW i \in InspectionIds,
             SubmitPassed(i)
      PROVE  WorkshopExcludesRoad'
    BY <1>17 DEF SubmitPassed
<1>18. ASSUME NEW i \in InspectionIds, NEW o \in OrderIds,
             SubmitFailed(i, o)
      PROVE  WorkshopExcludesRoad'
    <2>0. PICK v \in Vehicles : v = inspection[i].vehicle
        BY <1>18 DEF SubmitFailed, ForeignKeys
    <2>1. /\ v \in Vehicles /\ MayMark(vehicle[v])
          /\ order[o].status = "absent" /\ order' = [order EXCEPT ![o] = NewOrder(v)]
          /\ vehicle' = [vehicle EXCEPT ![v] = MarkMaintenance(@)]
        BY <1>18, <2>0 DEF SubmitFailed
    <2>2. o \in ActiveOrders(v)'
        BY <2>1 DEF NewOrder
    <2>3. \A w \in Vehicles : w # v => ActiveOrders(w)' = ActiveOrders(w)
        BY <2>1 DEF NewOrder, OrderRow
    <2>4. /\ vehicle'[v].status = "maintenance"
          /\ \A w \in Vehicles : w # v => vehicle'[w] = vehicle[w]
        BY <2>1 DEF MarkMaintenance, VehicleRow
    <2>5. QED
        BY <2>2, <2>3, <2>4
<1>19. ASSUME NEW f \in FuelIds, NEW v \in Vehicles,
             NEW odometer \in Odometers,
             RecordFuel(f, v, odometer)
      PROVE  WorkshopExcludesRoad'
    BY <1>19 DEF RecordFuel, VehicleRow
<1>20. ASSUME NEW c \in Callers,
             AppendAuditAfterwards(c)
      PROVE  WorkshopExcludesRoad'
    BY <1>20 DEF AppendAuditAfterwards, tables
<1>21. ASSUME NEW c \in Callers,
             Abandon(c)
      PROVE  WorkshopExcludesRoad'
    BY <1>21 DEF Abandon, tables
<1>22. CASE UNCHANGED vars
    BY <1>22 DEF vars, tables
<1>23. QED
    BY <1>1, <1>2, <1>3, <1>4, <1>5, <1>6, <1>7, <1>8, <1>9, <1>10, <1>11,
       <1>12, <1>13, <1>14, <1>15, <1>16, <1>17, <1>18, <1>19, <1>20, <1>21,
       <1>22
    DEF Next, PlanningNext, DispatchNext, WorkshopNext

\* One trip per vehicle and idempotency key (UNIQUE in schema.sql).
KeysUnique ==
    \A t, u \in Trips : trip[t].vehicle = trip[u].vehicle /\
                        trip[t].key = trip[u].key => t = u

\* An answer names a trip of its vehicle and key, and there is only one.
LEMMA AnswersStep ==
    TypeOK /\ KeysUnique /\ AnswersAgree /\ [Next]_vars
    => (KeysUnique /\ AnswersAgree)'
<1> SUFFICES ASSUME TypeOK, KeysUnique, AnswersAgree, [Next]_vars
             PROVE (KeysUnique /\ AnswersAgree)'
    OBVIOUS
<1> USE DEF TypeOK, TablesTyped, RequestsTyped, KeysUnique, AnswersAgree, Trips
<1>1. ASSUME NEW c \in Callers, NEW v \in Vehicles, NEW odometer \in Odometers,
             CreateVehicle(c, v, odometer)
      PROVE  (KeysUnique /\ AnswersAgree)'
    BY <1>1 DEF CreateVehicle
<1>2. ASSUME NEW s \in Shifts,
             CreateShift(s)
      PROVE  (KeysUnique /\ AnswersAgree)'
    BY <1>2 DEF CreateShift
<1>3. ASSUME NEW v \in Vehicles,
             InspectionFallsDue(v)
      PROVE  (KeysUnique /\ AnswersAgree)'
    BY <1>3 DEF InspectionFallsDue, tables
<1>4. ASSUME NEW c \in Callers, NEW s \in Shifts,
             GetShiftToCancel(c, s)
      PROVE  (KeysUnique /\ AnswersAgree)'
    BY <1>4 DEF GetShiftToCancel, tables
<1>5. ASSUME NEW c \in Callers,
             CancelShift(c)
      PROVE  (KeysUnique /\ AnswersAgree)'
    BY <1>5 DEF CancelShift
<1>6. ASSUME NEW s \in Shifts, NEW v \in Vehicles,
             AssignShift(s, v)
      PROVE  (KeysUnique /\ AnswersAgree)'
    BY <1>6 DEF AssignShift
<1>7. ASSUME NEW v \in Vehicles, NEW k \in Keys,
             ReplayTrip(v, k)
      PROVE  (KeysUnique /\ AnswersAgree)'
    BY <1>7 DEF ReplayTrip, TripsByKey, tables
<1>8. ASSUME NEW c \in Callers, NEW v \in Vehicles, NEW s \in Shifts,
             NEW k \in Keys,
             FindTripByKey(c, v, s, k)
      PROVE  (KeysUnique /\ AnswersAgree)'
    BY <1>8 DEF FindTripByKey, tables
<1>9. ASSUME NEW c \in Callers, NEW t \in TripIds,
             NEW odometer \in Odometers, NEW load \in Loads,
             StartTrip(c, t, odometer, load)
      PROVE  (KeysUnique /\ AnswersAgree)'
    <2> DEFINE v == call[c].vehicle
               s == call[c].shift
               k == call[c].key
    <2>1. v \in Vehicles /\ s \in Shifts /\ k \in Keys
        BY <1>9, CallTypes DEF StartTrip
    <2>2. /\ trip[t].status = "absent"
          /\ TripsByKey(v, k) = {}
          /\ trip' = [trip EXCEPT ![t] = NewTrip(v, s, k, odometer)]
          /\ answers' = answers \cup {[vehicle |-> v, key |-> k, trip |-> t]}
        BY <1>9 DEF StartTrip, TripInsertable
    <2>3. /\ Trips' = Trips \cup {t} /\ t \notin Trips
          /\ trip'[t].vehicle = v /\ trip'[t].key = k
          /\ \A u \in Trips : trip'[u] = trip[u]
        BY <2>2 DEF NewTrip
    <2>4. KeysUnique'
        BY <2>2, <2>3 DEF TripsByKey
    <2>5. \A a \in answers' : /\ a.trip \in Trips'
                              /\ trip'[a.trip].vehicle = a.vehicle
                              /\ trip'[a.trip].key = a.key
        BY <2>2, <2>3
    <2>6. QED
        BY <2>4, <2>5
<1>10. ASSUME NEW t \in TripIds, NEW odometer \in Odometers,
             ReturnTrip(t, odometer)
      PROVE  (KeysUnique /\ AnswersAgree)'
    <2>1. trip' = [trip EXCEPT ![t] = CompleteTrip(@, odometer)]
        BY <1>10 DEF ReturnTrip
    <2>2. /\ Trips' = Trips
          /\ \A u \in Trips : /\ trip'[u].vehicle = trip[u].vehicle
                               /\ trip'[u].key = trip[u].key
        BY <1>10, <2>1 DEF ReturnTrip, CompleteTrip, TripRow
    <2>3. QED
        BY <1>10, <2>2 DEF ReturnTrip
<1>11. ASSUME NEW n \in IncidentIds, NEW t \in TripIds,
             ReportIncident(n, t)
      PROVE  (KeysUnique /\ AnswersAgree)'
    BY <1>11 DEF ReportIncident
<1>12. ASSUME NEW o \in OrderIds, NEW v \in Vehicles,
             OpenMaintenance(o, v)
      PROVE  (KeysUnique /\ AnswersAgree)'
    BY <1>12 DEF OpenMaintenance
<1>13. ASSUME NEW c \in Callers, NEW o \in OrderIds,
             GetOrderToStart(c, o)
      PROVE  (KeysUnique /\ AnswersAgree)'
    BY <1>13 DEF GetOrderToStart, tables
<1>14. ASSUME NEW c \in Callers,
             StartMaintenance(c)
      PROVE  (KeysUnique /\ AnswersAgree)'
    BY <1>14 DEF StartMaintenance
<1>15. ASSUME NEW o \in OrderIds,
             CompleteMaintenance(o)
      PROVE  (KeysUnique /\ AnswersAgree)'
    BY <1>15 DEF CompleteMaintenance
<1>16. ASSUME NEW i \in InspectionIds, NEW v \in Vehicles,
             NEW at \in InspectionTimes,
             CreateInspection(i, v, at)
      PROVE  (KeysUnique /\ AnswersAgree)'
    BY <1>16 DEF CreateInspection
<1>17. ASSUME NEW i \in InspectionIds,
             SubmitPassed(i)
      PROVE  (KeysUnique /\ AnswersAgree)'
    BY <1>17 DEF SubmitPassed
<1>18. ASSUME NEW i \in InspectionIds, NEW o \in OrderIds,
             SubmitFailed(i, o)
      PROVE  (KeysUnique /\ AnswersAgree)'
    BY <1>18 DEF SubmitFailed
<1>19. ASSUME NEW f \in FuelIds, NEW v \in Vehicles,
             NEW odometer \in Odometers,
             RecordFuel(f, v, odometer)
      PROVE  (KeysUnique /\ AnswersAgree)'
    BY <1>19 DEF RecordFuel
<1>20. ASSUME NEW c \in Callers,
             AppendAuditAfterwards(c)
      PROVE  (KeysUnique /\ AnswersAgree)'
    BY <1>20 DEF AppendAuditAfterwards, tables
<1>21. ASSUME NEW c \in Callers,
             Abandon(c)
      PROVE  (KeysUnique /\ AnswersAgree)'
    BY <1>21 DEF Abandon, tables
<1>22. CASE UNCHANGED vars
    BY <1>22 DEF vars, tables
<1>23. QED
    BY <1>1, <1>2, <1>3, <1>4, <1>5, <1>6, <1>7, <1>8, <1>9, <1>10, <1>11,
       <1>12, <1>13, <1>14, <1>15, <1>16, <1>17, <1>18, <1>19, <1>20, <1>21,
       <1>22
    DEF Next, PlanningNext, DispatchNext, WorkshopNext

\* What keeps the readings of a vehicle in one history, made inductive: every
\* reading recorded for a vehicle is behind its odometer, and a vehicle that
\* was never inserted is blank.
OdometerInv ==
    /\ OdometerBounds
    /\ OdometerHistory
    /\ \A v \in Vehicles : vehicle[v].status = "absent" => vehicle[v] = NoVehicle

\* A trip starts when the vehicle has no other trip on the road, at or beyond
\* its odometer; no fuel is recorded on the road; a return never goes back.
LEMMA OdometerStep ==
    TypeOK /\ OnDutyIffActiveTrip /\ OdometerInv /\ [Next]_vars => OdometerInv'
<1> SUFFICES ASSUME TypeOK, OnDutyIffActiveTrip, OdometerInv, [Next]_vars
             PROVE OdometerInv'
    OBVIOUS
<1> USE DEF TypeOK, TablesTyped, RequestsTyped, OdometerInv, OdometerBounds,
        OdometerHistory, TripBefore, Trips, ActiveTrips, CompletedTrips
<1>1. ASSUME NEW c \in Callers, NEW v \in Vehicles, NEW odometer \in Odometers,
             CreateVehicle(c, v, odometer)
      PROVE  OdometerInv'
    <2>1. /\ vehicle[v].status = "absent"
          /\ vehicle' = [vehicle EXCEPT ![v] = NewVehicle(odometer)]
          /\ UNCHANGED <<trip, fuel>>
        BY <1>1 DEF CreateVehicle
    <2>2. /\ vehicle[v].odometer = 0
          /\ vehicle'[v].odometer = odometer /\ odometer \in Nat
          /\ vehicle'[v].status = "available"
          /\ \A w \in Vehicles : w # v => vehicle'[w] = vehicle[w]
        BY <2>1, OdometersAreNat DEF NewVehicle, NoVehicle
    <2>3. \A t \in ActiveTrips : trip[t].vehicle # v
        BY <2>1 DEF OnDutyIffActiveTrip
    <2>4. /\ \A t \in CompletedTrips :
                trip[t].end <= vehicle'[trip[t].vehicle].odometer
          /\ \A t \in ActiveTrips :
                trip[t].start >= vehicle'[trip[t].vehicle].odometer
        <3>1. \A t \in Trips : trip[t].vehicle \in Vehicles /\ trip[t] \in TripRow
            BY DEF ForeignKeys
        <3>2. \A t \in CompletedTrips : trip[t].vehicle = v => trip[t].end <= odometer
            BY <2>2, <3>1 DEF TripRow
        <3>3. QED
            BY <2>2, <2>3, <3>1, <3>2
    <2>5. \A f \in FuelIds : fuel[f].vehicle # None =>
             fuel[f].odometer <= vehicle'[fuel[f].vehicle].odometer
        BY <2>2 DEF FuelRow, VehicleRow
    <2>6. QED
        BY <2>1, <2>2, <2>4, <2>5
<1>2. ASSUME NEW s \in Shifts,
             CreateShift(s)
      PROVE  OdometerInv'
    BY <1>2 DEF CreateShift
<1>3. ASSUME NEW v \in Vehicles,
             InspectionFallsDue(v)
      PROVE  OdometerInv'
    BY <1>3 DEF InspectionFallsDue, tables
<1>4. ASSUME NEW c \in Callers, NEW s \in Shifts,
             GetShiftToCancel(c, s)
      PROVE  OdometerInv'
    BY <1>4 DEF GetShiftToCancel, tables
<1>5. ASSUME NEW c \in Callers,
             CancelShift(c)
      PROVE  OdometerInv'
    BY <1>5 DEF CancelShift
<1>6. ASSUME NEW s \in Shifts, NEW v \in Vehicles,
             AssignShift(s, v)
      PROVE  OdometerInv'
    BY <1>6 DEF AssignShift
<1>7. ASSUME NEW v \in Vehicles, NEW k \in Keys,
             ReplayTrip(v, k)
      PROVE  OdometerInv'
    BY <1>7 DEF ReplayTrip, tables
<1>8. ASSUME NEW c \in Callers, NEW v \in Vehicles, NEW s \in Shifts,
             NEW k \in Keys,
             FindTripByKey(c, v, s, k)
      PROVE  OdometerInv'
    BY <1>8 DEF FindTripByKey, tables
<1>9. ASSUME NEW c \in Callers, NEW t \in TripIds,
             NEW odometer \in Odometers, NEW load \in Loads,
             StartTrip(c, t, odometer, load)
      PROVE  OdometerInv'
    <2> DEFINE v == call[c].vehicle
               s == call[c].shift
               k == call[c].key
    <2>1. v \in Vehicles /\ odometer \in Nat
        BY <1>9, CallTypes, OdometersAreNat DEF StartTrip
    <2>2. /\ vehicle[v].status = "available"
          /\ odometer >= vehicle[v].odometer
          /\ trip[t].status = "absent"
          /\ trip' = [trip EXCEPT ![t] = NewTrip(v, s, k, odometer)]
          /\ vehicle' = [vehicle EXCEPT ![v] = StartDispatch(@)]
          /\ UNCHANGED fuel
        BY <1>9 DEF StartTrip, CheckStart, CanDispatch
    <2>3. /\ Trips' = Trips \cup {t} /\ t \notin Trips
          /\ CompletedTrips' = CompletedTrips
          /\ ActiveTrips' = ActiveTrips \cup {t}
          /\ trip'[t].vehicle = v /\ trip'[t].start = odometer
          /\ \A u \in Trips : trip'[u] = trip[u]
          /\ CompletedTrips \subseteq Trips /\ ActiveTrips \subseteq Trips
        BY <2>2 DEF NewTrip
    <2>4. \A w \in Vehicles : /\ vehicle'[w].odometer = vehicle[w].odometer
                              /\ vehicle'[w].status = "absent" => vehicle'[w] = vehicle[w]
        BY <2>1, <2>2 DEF StartDispatch, VehicleRow
    <2>5. \A u \in Trips : trip[u].vehicle = v =>
             u \in CompletedTrips /\ trip[u].end <= odometer
        <3>1. \A u \in Trips : trip[u].vehicle = v => u \in CompletedTrips
            BY <2>1, <2>2 DEF OnDutyIffActiveTrip, TripRow, TripStatus
        <3>2. QED
            BY <2>1, <2>2, <3>1 DEF TripRow, VehicleRow
    <2>6. OdometerBounds'
        <3>1. \A u \in CompletedTrips' :
                 trip'[u].end <= vehicle'[trip'[u].vehicle].odometer
            BY <2>3, <2>4 DEF ForeignKeys
        <3>2. \A u \in ActiveTrips' :
                 trip'[u].start >= vehicle'[trip'[u].vehicle].odometer
            BY <2>1, <2>2, <2>3, <2>4 DEF ForeignKeys
        <3>3. \A f \in FuelIds : fuel'[f].vehicle # None =>
                 fuel'[f].odometer <= vehicle'[fuel'[f].vehicle].odometer
            BY <2>2, <2>4 DEF FuelRow
        <3>4. QED
            BY <3>1, <3>2, <3>3
    <2>7. \A u, w \in Trips' : u # w /\ trip'[u].vehicle = trip'[w].vehicle =>
             TripBefore(u, w)' \/ TripBefore(w, u)'
        BY <2>2, <2>3, <2>5 DEF TripBefore
    <2>8. \A u \in CompletedTrips', f \in FuelIds :
             fuel'[f].vehicle = trip'[u].vehicle =>
                \/ fuel'[f].odometer <= trip'[u].start
                \/ fuel'[f].odometer >= trip'[u].end
        BY <2>2, <2>3
    <2>9. \A w \in Vehicles : vehicle'[w].status = "absent" => vehicle'[w] = NoVehicle
        BY <2>4
    <2> HIDE DEF OdometerBounds, TripBefore, Trips, ActiveTrips, CompletedTrips
    <2>10. QED
        BY <2>6, <2>7, <2>8, <2>9
<1>10. ASSUME NEW t \in TripIds, NEW odometer \in Odometers,
             ReturnTrip(t, odometer)
      PROVE  OdometerInv'
    <2>0. PICK v \in Vehicles : v = trip[t].vehicle
        BY <1>10 DEF ReturnTrip, ForeignKeys
    <2>1. /\ odometer \in Nat
          /\ trip[t].status = "active"
          /\ odometer >= trip[t].start
          /\ odometer >= vehicle[v].odometer
          /\ trip' = [trip EXCEPT ![t] = CompleteTrip(@, odometer)]
          /\ vehicle' = [vehicle EXCEPT ![v] = FinishReturn(@, odometer)]
          /\ UNCHANGED fuel
        BY <1>10, <2>0, OdometersAreNat DEF ReturnTrip
    <2>2. /\ Trips' = Trips
          /\ CompletedTrips' = CompletedTrips \cup {t}
          /\ ActiveTrips' = ActiveTrips \ {t}
          /\ t \in Trips /\ t \in ActiveTrips
          /\ trip'[t].vehicle = v /\ trip'[t].start = trip[t].start
          /\ trip'[t].end = odometer
          /\ \A u \in Trips \ {t} : trip'[u] = trip[u]
          /\ CompletedTrips \subseteq Trips \ {t} /\ ActiveTrips \subseteq Trips
        BY <2>0, <2>1 DEF CompleteTrip, TripRow
    <2>3. /\ vehicle'[v].odometer = odometer
          /\ vehicle'[v].status = "available"
          /\ \A w \in Vehicles : w # v => vehicle'[w] = vehicle[w]
        BY <2>1 DEF FinishReturn, VehicleRow
    <2>4. \A u \in ActiveTrips' : trip[u].vehicle # v
        BY <2>0, <2>2 DEF OnDutyIffActiveTrip
    <2>5. OdometerBounds'
        <3>1. \A u \in CompletedTrips' :
                 trip'[u].end <= vehicle'[trip'[u].vehicle].odometer
            BY <2>1, <2>2, <2>3 DEF TripRow, VehicleRow
        <3>2. \A u \in ActiveTrips' :
                 trip'[u].start >= vehicle'[trip'[u].vehicle].odometer
            BY <2>1, <2>2, <2>3, <2>4 DEF ForeignKeys
        <3>3. \A f \in FuelIds : fuel'[f].vehicle # None =>
                 fuel'[f].odometer <= vehicle'[fuel'[f].vehicle].odometer
            BY <2>1, <2>3 DEF FuelRow, VehicleRow
        <3>4. QED
            BY <3>1, <3>2, <3>3
    <2>6. \A u \in Trips : u # t /\ trip[u].vehicle = v => TripBefore(u, t)
        BY <2>0, <2>1, <2>2 DEF TripBefore
    <2>7. \A u, w \in Trips' : u # w /\ trip'[u].vehicle = trip'[w].vehicle =>
             TripBefore(u, w)' \/ TripBefore(w, u)'
        <3>1. \A u, w \in Trips \ {t} : TripBefore(u, w)' <=> TripBefore(u, w)
            BY <2>1 DEF TripBefore
        <3>2. \A u \in Trips \ {t} : TripBefore(u, t)' <=> TripBefore(u, t)
            BY <2>2 DEF TripBefore
        <3>3. QED
            BY <2>2, <2>6, <3>1, <3>2
    <2>8. \A f \in FuelIds : fuel[f].vehicle = v =>
             fuel[f].odometer <= trip[t].start
        BY <2>0, <2>1, <2>2, NoneIsNoVehicle DEF FuelRow, TripRow, VehicleRow
    <2>9. QED
        BY <2>1, <2>2, <2>3, <2>5, <2>7, <2>8
<1>11. ASSUME NEW n \in IncidentIds, NEW t \in TripIds,
             ReportIncident(n, t)
      PROVE  OdometerInv'
    BY <1>11 DEF ReportIncident
<1>12. ASSUME NEW o \in OrderIds, NEW v \in Vehicles,
             OpenMaintenance(o, v)
      PROVE  OdometerInv'
    <2>1. /\ UNCHANGED <<trip, fuel>>
          /\ \A w \in Vehicles : /\ vehicle'[w].odometer = vehicle[w].odometer
                                 /\ vehicle'[w].status = "absent" => vehicle'[w] = vehicle[w]
        BY <1>12 DEF OpenMaintenance, MayMark, MarkMaintenance, VehicleRow
    <2>2. OdometerBounds'
        <3>1. \A u \in CompletedTrips :
                 trip[u].end <= vehicle'[trip[u].vehicle].odometer
            BY <2>1 DEF ForeignKeys
        <3>2. \A u \in ActiveTrips :
                 trip[u].start >= vehicle'[trip[u].vehicle].odometer
            BY <2>1 DEF ForeignKeys
        <3>3. \A f \in FuelIds : fuel[f].vehicle # None =>
                 fuel[f].odometer <= vehicle'[fuel[f].vehicle].odometer
            BY <2>1 DEF FuelRow
        <3>4. QED
            BY <2>1, <3>1, <3>2, <3>3
    <2>3. QED
        BY <2>1, <2>2
<1>13. ASSUME NEW c \in Callers, NEW o \in OrderIds,
             GetOrderToStart(c, o)
      PROVE  OdometerInv'
    BY <1>13 DEF GetOrderToStart, tables
<1>14. ASSUME NEW c \in Callers,
             StartMaintenance(c)
      PROVE  OdometerInv'
    BY <1>14 DEF StartMaintenance
<1>15. ASSUME NEW o \in OrderIds,
             CompleteMaintenance(o)
      PROVE  OdometerInv'
    <2>1. /\ UNCHANGED <<trip, fuel>>
          /\ \A w \in Vehicles : /\ vehicle'[w].odometer = vehicle[w].odometer
                                 /\ vehicle'[w].status = "absent" => vehicle'[w] = vehicle[w]
        BY <1>15 DEF CompleteMaintenance, ReleaseMaintenance, VehicleRow
    <2>2. OdometerBounds'
        <3>1. \A u \in CompletedTrips :
                 trip[u].end <= vehicle'[trip[u].vehicle].odometer
            BY <2>1 DEF ForeignKeys
        <3>2. \A u \in ActiveTrips :
                 trip[u].start >= vehicle'[trip[u].vehicle].odometer
            BY <2>1 DEF ForeignKeys
        <3>3. \A f \in FuelIds : fuel[f].vehicle # None =>
                 fuel[f].odometer <= vehicle'[fuel[f].vehicle].odometer
            BY <2>1 DEF FuelRow
        <3>4. QED
            BY <2>1, <3>1, <3>2, <3>3
    <2>3. QED
        BY <2>1, <2>2
<1>16. ASSUME NEW i \in InspectionIds, NEW v \in Vehicles,
             NEW at \in InspectionTimes,
             CreateInspection(i, v, at)
      PROVE  OdometerInv'
    BY <1>16 DEF CreateInspection
<1>17. ASSUME NEW i \in InspectionIds,
             SubmitPassed(i)
      PROVE  OdometerInv'
    BY <1>17 DEF SubmitPassed
<1>18. ASSUME NEW i \in InspectionIds, NEW o \in OrderIds,
             SubmitFailed(i, o)
      PROVE  OdometerInv'
    <2>1. /\ UNCHANGED <<trip, fuel>>
          /\ \A w \in Vehicles : /\ vehicle'[w].odometer = vehicle[w].odometer
                                 /\ vehicle'[w].status = "absent" => vehicle'[w] = vehicle[w]
        BY <1>18 DEF SubmitFailed, MayMark, MarkMaintenance, VehicleRow
    <2>2. OdometerBounds'
        <3>1. \A u \in CompletedTrips :
                 trip[u].end <= vehicle'[trip[u].vehicle].odometer
            BY <2>1 DEF ForeignKeys
        <3>2. \A u \in ActiveTrips :
                 trip[u].start >= vehicle'[trip[u].vehicle].odometer
            BY <2>1 DEF ForeignKeys
        <3>3. \A f \in FuelIds : fuel[f].vehicle # None =>
                 fuel[f].odometer <= vehicle'[fuel[f].vehicle].odometer
            BY <2>1 DEF FuelRow
        <3>4. QED
            BY <2>1, <3>1, <3>2, <3>3
    <2>3. QED
        BY <2>1, <2>2
<1>19. ASSUME NEW f \in FuelIds, NEW v \in Vehicles,
             NEW odometer \in Odometers,
             RecordFuel(f, v, odometer)
      PROVE  OdometerInv'
    <2>1. /\ odometer \in Nat
          /\ vehicle[v].status \in {"available", "maintenance"}
          /\ odometer >= vehicle[v].odometer
          /\ fuel' = [fuel EXCEPT ![f] = [vehicle |-> v, odometer |-> odometer]]
          /\ vehicle' = [vehicle EXCEPT ![v].odometer = odometer]
          /\ UNCHANGED trip
        BY <1>19, OdometersAreNat DEF RecordFuel, MayRefuel
    <2>2. /\ vehicle'[v].odometer = odometer
          /\ vehicle'[v].status = vehicle[v].status
          /\ \A w \in Vehicles : w # v => vehicle'[w] = vehicle[w]
          /\ fuel'[f].vehicle = v /\ fuel'[f].odometer = odometer
          /\ \A g \in FuelIds : g # f => fuel'[g] = fuel[g]
        BY <2>1 DEF VehicleRow
    <2>3. \A t \in ActiveTrips : trip[t].vehicle # v
        BY <2>1 DEF OnDutyIffActiveTrip
    <2>4. \A t \in CompletedTrips : trip[t].vehicle = v => trip[t].end <= odometer
        BY <2>1 DEF TripRow, VehicleRow
    <2>5. OdometerBounds'
        <3>1. \A t \in CompletedTrips :
                 trip[t].end <= vehicle'[trip[t].vehicle].odometer
            BY <2>2, <2>4, <2>1 DEF ForeignKeys
        <3>2. \A g \in FuelIds : fuel'[g].vehicle # None =>
                 fuel'[g].odometer <= vehicle'[fuel'[g].vehicle].odometer
            BY <2>1, <2>2 DEF FuelRow, VehicleRow
        <3>3. QED
            BY <2>1, <2>2, <2>3, <3>1, <3>2
    <2>6. QED
        BY <2>1, <2>2, <2>4, <2>5
<1>20. ASSUME NEW c \in Callers,
             AppendAuditAfterwards(c)
      PROVE  OdometerInv'
    BY <1>20 DEF AppendAuditAfterwards, tables
<1>21. ASSUME NEW c \in Callers,
             Abandon(c)
      PROVE  OdometerInv'
    BY <1>21 DEF Abandon, tables
<1>22. CASE UNCHANGED vars
    BY <1>22 DEF vars, tables
<1>23. QED
    BY <1>1, <1>2, <1>3, <1>4, <1>5, <1>6, <1>7, <1>8, <1>9, <1>10, <1>11,
       <1>12, <1>13, <1>14, <1>15, <1>16, <1>17, <1>18, <1>19, <1>20, <1>21,
       <1>22
    DEF Next, PlanningNext, DispatchNext, WorkshopNext

\* A shift joins the roster of a vehicle only by AssignShift, which compares it
\* with every shift held on its date; a shift that leaves it never returns.
LEMMA RosterStep ==
    TypeOK /\ VersionsCurrent /\ RosterCompatible /\ [Next]_vars
    => RosterCompatible'
<1> SUFFICES ASSUME TypeOK, VersionsCurrent, RosterCompatible, [Next]_vars
             PROVE RosterCompatible'
    OBVIOUS
<1> USE DEF TypeOK, TablesTyped, RequestsTyped, RosterCompatible, HeldBy
<1>1. ASSUME NEW c \in Callers, NEW v \in Vehicles, NEW odometer \in Odometers,
             CreateVehicle(c, v, odometer)
      PROVE  RosterCompatible'
    BY <1>1 DEF CreateVehicle
<1>2. ASSUME NEW s \in Shifts,
             CreateShift(s)
      PROVE  RosterCompatible'
    <2>1. \A u \in Shifts : shift'[u].vehicle \in Vehicles => shift'[u] = shift[u]
        BY <1>2, NoneIsNoVehicle DEF CreateShift, NewShift, ShiftRow
    <2>2. QED
        BY <2>1
<1>3. ASSUME NEW v \in Vehicles,
             InspectionFallsDue(v)
      PROVE  RosterCompatible'
    BY <1>3 DEF InspectionFallsDue, tables
<1>4. ASSUME NEW c \in Callers, NEW s \in Shifts,
             GetShiftToCancel(c, s)
      PROVE  RosterCompatible'
    BY <1>4 DEF GetShiftToCancel, tables
<1>5. ASSUME NEW c \in Callers,
             CancelShift(c)
      PROVE  RosterCompatible'
    <2> DEFINE s == call[c].id
    <2>1. s \in Shifts /\ call[c].seen = shift[s]
        BY <1>5, CallTypes DEF CancelShift, SameVersion, VersionsCurrent
    <2>2. \A u \in Shifts :
             /\ shift'[u].vehicle = shift[u].vehicle
             /\ shift'[u].status # "cancelled" => shift[u].status # "cancelled"
        BY <1>5, <2>1 DEF CancelShift, ShiftTo, ShiftRow
    <2>3. QED
        BY <2>2
<1>6. ASSUME NEW s \in Shifts, NEW v \in Vehicles,
             AssignShift(s, v)
      PROVE  RosterCompatible'
    <2>1. /\ \A a, b \in HeldBy(v, ServiceDate[s]) \cup {s} :
                a # b => Compatible(Window[a], Window[b], MinimumBreak)
          /\ shift[s].status = "scheduled"
          /\ shift' = [shift EXCEPT ![s] = Assign(@, v)]
        BY <1>6 DEF AssignShift, CanAssign, CheckAssignment
    <2>2. /\ shift'[s].vehicle = v
          /\ \A u \in Shifts \ {s} : shift'[u] = shift[u]
        BY <2>1 DEF Assign
    <2>3. QED
        BY <2>1, <2>2
<1>7. ASSUME NEW v \in Vehicles, NEW k \in Keys,
             ReplayTrip(v, k)
      PROVE  RosterCompatible'
    BY <1>7 DEF ReplayTrip, tables
<1>8. ASSUME NEW c \in Callers, NEW v \in Vehicles, NEW s \in Shifts,
             NEW k \in Keys,
             FindTripByKey(c, v, s, k)
      PROVE  RosterCompatible'
    BY <1>8 DEF FindTripByKey, tables
<1>9. ASSUME NEW c \in Callers, NEW t \in TripIds,
             NEW odometer \in Odometers, NEW load \in Loads,
             StartTrip(c, t, odometer, load)
      PROVE  RosterCompatible'
    <2> DEFINE s == call[c].shift
    <2>1. /\ s \in Shifts /\ shift[s].status = "assigned"
          /\ shift' = [shift EXCEPT ![s] = ShiftTo(@, "in_progress")]
        BY <1>9, CallTypes DEF StartTrip, CheckStart
    <2>2. \A u \in Shifts :
             /\ shift'[u].vehicle = shift[u].vehicle
             /\ shift'[u].status # "cancelled" => shift[u].status # "cancelled"
        BY <2>1 DEF ShiftTo, ShiftRow
    <2>3. QED
        BY <2>2
<1>10. ASSUME NEW t \in TripIds, NEW odometer \in Odometers,
             ReturnTrip(t, odometer)
      PROVE  RosterCompatible'
    <2> DEFINE s == trip[t].shift
    <2>1. /\ s \in Shifts /\ shift[s].status = "in_progress"
          /\ shift' = [shift EXCEPT ![s] = ShiftTo(@, "completed")]
        BY <1>10 DEF ReturnTrip, ForeignKeys, Trips
    <2>2. \A u \in Shifts :
             /\ shift'[u].vehicle = shift[u].vehicle
             /\ shift'[u].status # "cancelled" => shift[u].status # "cancelled"
        BY <2>1 DEF ShiftTo, ShiftRow
    <2>3. QED
        BY <2>2
<1>11. ASSUME NEW n \in IncidentIds, NEW t \in TripIds,
             ReportIncident(n, t)
      PROVE  RosterCompatible'
    BY <1>11 DEF ReportIncident
<1>12. ASSUME NEW o \in OrderIds, NEW v \in Vehicles,
             OpenMaintenance(o, v)
      PROVE  RosterCompatible'
    BY <1>12 DEF OpenMaintenance
<1>13. ASSUME NEW c \in Callers, NEW o \in OrderIds,
             GetOrderToStart(c, o)
      PROVE  RosterCompatible'
    BY <1>13 DEF GetOrderToStart, tables
<1>14. ASSUME NEW c \in Callers,
             StartMaintenance(c)
      PROVE  RosterCompatible'
    BY <1>14 DEF StartMaintenance
<1>15. ASSUME NEW o \in OrderIds,
             CompleteMaintenance(o)
      PROVE  RosterCompatible'
    BY <1>15 DEF CompleteMaintenance
<1>16. ASSUME NEW i \in InspectionIds, NEW v \in Vehicles,
             NEW at \in InspectionTimes,
             CreateInspection(i, v, at)
      PROVE  RosterCompatible'
    BY <1>16 DEF CreateInspection
<1>17. ASSUME NEW i \in InspectionIds,
             SubmitPassed(i)
      PROVE  RosterCompatible'
    BY <1>17 DEF SubmitPassed
<1>18. ASSUME NEW i \in InspectionIds, NEW o \in OrderIds,
             SubmitFailed(i, o)
      PROVE  RosterCompatible'
    BY <1>18 DEF SubmitFailed
<1>19. ASSUME NEW f \in FuelIds, NEW v \in Vehicles,
             NEW odometer \in Odometers,
             RecordFuel(f, v, odometer)
      PROVE  RosterCompatible'
    BY <1>19 DEF RecordFuel
<1>20. ASSUME NEW c \in Callers,
             AppendAuditAfterwards(c)
      PROVE  RosterCompatible'
    BY <1>20 DEF AppendAuditAfterwards, tables
<1>21. ASSUME NEW c \in Callers,
             Abandon(c)
      PROVE  RosterCompatible'
    BY <1>21 DEF Abandon, tables
<1>22. CASE UNCHANGED vars
    BY <1>22 DEF vars, tables
<1>23. QED
    BY <1>1, <1>2, <1>3, <1>4, <1>5, <1>6, <1>7, <1>8, <1>9, <1>10, <1>11,
       <1>12, <1>13, <1>14, <1>15, <1>16, <1>17, <1>18, <1>19, <1>20, <1>21,
       <1>22
    DEF Next, PlanningNext, DispatchNext, WorkshopNext

\* A scheduled shift has no vehicle yet.
ScheduledUnassigned ==
    \A s \in Shifts : shift[s].status \in {"absent", "scheduled"} =>
        shift[s].vehicle = None

\* The action that ShiftLifecycle asks of every step.
ShiftMoves ==
    \A s \in Shifts :
        /\ shift'[s].status # shift[s].status =>
              <<shift[s].status, shift'[s].status>> \in ShiftSteps
        /\ shift[s].vehicle # None => shift'[s].vehicle = shift[s].vehicle

\* The version check lets no stale row through, so each write moves a shift
\* along an edge of its state machine.
LEMMA LifecycleStep ==
    TypeOK /\ VersionsCurrent /\ ScheduledUnassigned /\ [Next]_vars
    => ShiftMoves /\ ScheduledUnassigned'
<1> SUFFICES ASSUME TypeOK, VersionsCurrent, ScheduledUnassigned, [Next]_vars
             PROVE ShiftMoves /\ ScheduledUnassigned'
    OBVIOUS
<1> USE DEF TypeOK, TablesTyped, RequestsTyped, ShiftMoves, ShiftSteps,
        ScheduledUnassigned
<1>1. ASSUME NEW c \in Callers, NEW v \in Vehicles, NEW odometer \in Odometers,
             CreateVehicle(c, v, odometer)
      PROVE  ShiftMoves /\ ScheduledUnassigned'
    BY <1>1 DEF CreateVehicle
<1>2. ASSUME NEW s \in Shifts,
             CreateShift(s)
      PROVE  ShiftMoves /\ ScheduledUnassigned'
    BY <1>2 DEF CreateShift, NewShift, NoShift
<1>3. ASSUME NEW v \in Vehicles,
             InspectionFallsDue(v)
      PROVE  ShiftMoves /\ ScheduledUnassigned'
    BY <1>3 DEF InspectionFallsDue, tables
<1>4. ASSUME NEW c \in Callers, NEW s \in Shifts,
             GetShiftToCancel(c, s)
      PROVE  ShiftMoves /\ ScheduledUnassigned'
    BY <1>4 DEF GetShiftToCancel, tables
<1>5. ASSUME NEW c \in Callers,
             CancelShift(c)
      PROVE  ShiftMoves /\ ScheduledUnassigned'
    <2> DEFINE s == call[c].id
    <2>1. s \in Shifts /\ call[c].seen = shift[s] /\ MayCancel(shift[s])
        BY <1>5, CallTypes DEF CancelShift, SameVersion, VersionsCurrent
    <2>2. shift' = [shift EXCEPT ![s] = ShiftTo(shift[s], "cancelled")]
        BY <1>5, <2>1 DEF CancelShift
    <2>3. QED
        BY <2>1, <2>2 DEF ShiftTo, ShiftRow, MayCancel
<1>6. ASSUME NEW s \in Shifts, NEW v \in Vehicles,
             AssignShift(s, v)
      PROVE  ShiftMoves /\ ScheduledUnassigned'
    <2>1. /\ shift[s].status = "scheduled" /\ shift[s].vehicle = None
          /\ shift' = [shift EXCEPT ![s] = Assign(@, v)]
        BY <1>6 DEF AssignShift, CheckAssignment, ScheduledUnassigned
    <2>2. QED
        BY <2>1 DEF Assign
<1>7. ASSUME NEW v \in Vehicles, NEW k \in Keys,
             ReplayTrip(v, k)
      PROVE  ShiftMoves /\ ScheduledUnassigned'
    BY <1>7 DEF ReplayTrip, tables
<1>8. ASSUME NEW c \in Callers, NEW v \in Vehicles, NEW s \in Shifts,
             NEW k \in Keys,
             FindTripByKey(c, v, s, k)
      PROVE  ShiftMoves /\ ScheduledUnassigned'
    BY <1>8 DEF FindTripByKey, tables
<1>9. ASSUME NEW c \in Callers, NEW t \in TripIds,
             NEW odometer \in Odometers, NEW load \in Loads,
             StartTrip(c, t, odometer, load)
      PROVE  ShiftMoves /\ ScheduledUnassigned'
    <2> DEFINE s == call[c].shift
    <2>1. /\ s \in Shifts /\ shift[s].status = "assigned"
          /\ shift' = [shift EXCEPT ![s] = ShiftTo(@, "in_progress")]
        BY <1>9, CallTypes DEF StartTrip, CheckStart
    <2>2. QED
        BY <2>1 DEF ShiftTo, ShiftRow
<1>10. ASSUME NEW t \in TripIds, NEW odometer \in Odometers,
             ReturnTrip(t, odometer)
      PROVE  ShiftMoves /\ ScheduledUnassigned'
    <2> DEFINE s == trip[t].shift
    <2>1. /\ s \in Shifts /\ shift[s].status = "in_progress"
          /\ shift' = [shift EXCEPT ![s] = ShiftTo(@, "completed")]
        BY <1>10 DEF ReturnTrip, ForeignKeys, Trips
    <2>2. QED
        BY <2>1 DEF ShiftTo, ShiftRow
<1>11. ASSUME NEW n \in IncidentIds, NEW t \in TripIds,
             ReportIncident(n, t)
      PROVE  ShiftMoves /\ ScheduledUnassigned'
    BY <1>11 DEF ReportIncident
<1>12. ASSUME NEW o \in OrderIds, NEW v \in Vehicles,
             OpenMaintenance(o, v)
      PROVE  ShiftMoves /\ ScheduledUnassigned'
    BY <1>12 DEF OpenMaintenance
<1>13. ASSUME NEW c \in Callers, NEW o \in OrderIds,
             GetOrderToStart(c, o)
      PROVE  ShiftMoves /\ ScheduledUnassigned'
    BY <1>13 DEF GetOrderToStart, tables
<1>14. ASSUME NEW c \in Callers,
             StartMaintenance(c)
      PROVE  ShiftMoves /\ ScheduledUnassigned'
    BY <1>14 DEF StartMaintenance
<1>15. ASSUME NEW o \in OrderIds,
             CompleteMaintenance(o)
      PROVE  ShiftMoves /\ ScheduledUnassigned'
    BY <1>15 DEF CompleteMaintenance
<1>16. ASSUME NEW i \in InspectionIds, NEW v \in Vehicles,
             NEW at \in InspectionTimes,
             CreateInspection(i, v, at)
      PROVE  ShiftMoves /\ ScheduledUnassigned'
    BY <1>16 DEF CreateInspection
<1>17. ASSUME NEW i \in InspectionIds,
             SubmitPassed(i)
      PROVE  ShiftMoves /\ ScheduledUnassigned'
    BY <1>17 DEF SubmitPassed
<1>18. ASSUME NEW i \in InspectionIds, NEW o \in OrderIds,
             SubmitFailed(i, o)
      PROVE  ShiftMoves /\ ScheduledUnassigned'
    BY <1>18 DEF SubmitFailed
<1>19. ASSUME NEW f \in FuelIds, NEW v \in Vehicles,
             NEW odometer \in Odometers,
             RecordFuel(f, v, odometer)
      PROVE  ShiftMoves /\ ScheduledUnassigned'
    BY <1>19 DEF RecordFuel
<1>20. ASSUME NEW c \in Callers,
             AppendAuditAfterwards(c)
      PROVE  ShiftMoves /\ ScheduledUnassigned'
    BY <1>20 DEF AppendAuditAfterwards, tables
<1>21. ASSUME NEW c \in Callers,
             Abandon(c)
      PROVE  ShiftMoves /\ ScheduledUnassigned'
    BY <1>21 DEF Abandon, tables
<1>22. CASE UNCHANGED vars
    BY <1>22 DEF vars, tables
<1>23. QED
    BY <1>1, <1>2, <1>3, <1>4, <1>5, <1>6, <1>7, <1>8, <1>9, <1>10, <1>11,
       <1>12, <1>13, <1>14, <1>15, <1>16, <1>17, <1>18, <1>19, <1>20, <1>21,
       <1>22
    DEF Next, PlanningNext, DispatchNext, WorkshopNext

\* The action that OrderLifecycle asks of every step.
OrderMoves ==
    \A o \in OrderIds : order'[o].status # order[o].status =>
        <<order[o].status, order'[o].status>> \in OrderSteps

\* The version check again, for the start of an order read before.
LEMMA OrderStep == TypeOK /\ VersionsCurrent /\ [Next]_vars => OrderMoves
<1> SUFFICES ASSUME TypeOK, VersionsCurrent, [Next]_vars PROVE OrderMoves
    OBVIOUS
<1> USE DEF TypeOK, TablesTyped, RequestsTyped, OrderMoves, OrderSteps
<1>1. ASSUME NEW c \in Callers, NEW v \in Vehicles, NEW odometer \in Odometers,
             CreateVehicle(c, v, odometer)
      PROVE  OrderMoves
    BY <1>1 DEF CreateVehicle
<1>2. ASSUME NEW s \in Shifts,
             CreateShift(s)
      PROVE  OrderMoves
    BY <1>2 DEF CreateShift
<1>3. ASSUME NEW v \in Vehicles,
             InspectionFallsDue(v)
      PROVE  OrderMoves
    BY <1>3 DEF InspectionFallsDue, tables
<1>4. ASSUME NEW c \in Callers, NEW s \in Shifts,
             GetShiftToCancel(c, s)
      PROVE  OrderMoves
    BY <1>4 DEF GetShiftToCancel, tables
<1>5. ASSUME NEW c \in Callers,
             CancelShift(c)
      PROVE  OrderMoves
    BY <1>5 DEF CancelShift
<1>6. ASSUME NEW s \in Shifts, NEW v \in Vehicles,
             AssignShift(s, v)
      PROVE  OrderMoves
    BY <1>6 DEF AssignShift
<1>7. ASSUME NEW v \in Vehicles, NEW k \in Keys,
             ReplayTrip(v, k)
      PROVE  OrderMoves
    BY <1>7 DEF ReplayTrip, tables
<1>8. ASSUME NEW c \in Callers, NEW v \in Vehicles, NEW s \in Shifts,
             NEW k \in Keys,
             FindTripByKey(c, v, s, k)
      PROVE  OrderMoves
    BY <1>8 DEF FindTripByKey, tables
<1>9. ASSUME NEW c \in Callers, NEW t \in TripIds,
             NEW odometer \in Odometers, NEW load \in Loads,
             StartTrip(c, t, odometer, load)
      PROVE  OrderMoves
    BY <1>9 DEF StartTrip
<1>10. ASSUME NEW t \in TripIds, NEW odometer \in Odometers,
             ReturnTrip(t, odometer)
      PROVE  OrderMoves
    BY <1>10 DEF ReturnTrip
<1>11. ASSUME NEW n \in IncidentIds, NEW t \in TripIds,
             ReportIncident(n, t)
      PROVE  OrderMoves
    BY <1>11 DEF ReportIncident
<1>12. ASSUME NEW o \in OrderIds, NEW v \in Vehicles,
             OpenMaintenance(o, v)
      PROVE  OrderMoves
    BY <1>12 DEF OpenMaintenance, NewOrder
<1>13. ASSUME NEW c \in Callers, NEW o \in OrderIds,
             GetOrderToStart(c, o)
      PROVE  OrderMoves
    BY <1>13 DEF GetOrderToStart, tables
<1>14. ASSUME NEW c \in Callers,
             StartMaintenance(c)
      PROVE  OrderMoves
    <2> DEFINE o == call[c].id
    <2>1. /\ o \in OrderIds /\ order[o].status = "open"
          /\ order' = [order EXCEPT ![o] = OrderTo(order[o], "in_progress")]
        BY <1>14, CallTypes DEF StartMaintenance, SameVersion, VersionsCurrent
    <2>2. QED
        BY <2>1 DEF OrderTo, OrderRow
<1>15. ASSUME NEW o \in OrderIds,
             CompleteMaintenance(o)
      PROVE  OrderMoves
    BY <1>15 DEF CompleteMaintenance, OrderTo
<1>16. ASSUME NEW i \in InspectionIds, NEW v \in Vehicles,
             NEW at \in InspectionTimes,
             CreateInspection(i, v, at)
      PROVE  OrderMoves
    BY <1>16 DEF CreateInspection
<1>17. ASSUME NEW i \in InspectionIds,
             SubmitPassed(i)
      PROVE  OrderMoves
    BY <1>17 DEF SubmitPassed
<1>18. ASSUME NEW i \in InspectionIds, NEW o \in OrderIds,
             SubmitFailed(i, o)
      PROVE  OrderMoves
    BY <1>18 DEF SubmitFailed, NewOrder
<1>19. ASSUME NEW f \in FuelIds, NEW v \in Vehicles,
             NEW odometer \in Odometers,
             RecordFuel(f, v, odometer)
      PROVE  OrderMoves
    BY <1>19 DEF RecordFuel
<1>20. ASSUME NEW c \in Callers,
             AppendAuditAfterwards(c)
      PROVE  OrderMoves
    BY <1>20 DEF AppendAuditAfterwards, tables
<1>21. ASSUME NEW c \in Callers,
             Abandon(c)
      PROVE  OrderMoves
    BY <1>21 DEF Abandon, tables
<1>22. CASE UNCHANGED vars
    BY <1>22 DEF vars, tables
<1>23. QED
    BY <1>1, <1>2, <1>3, <1>4, <1>5, <1>6, <1>7, <1>8, <1>9, <1>10, <1>11,
       <1>12, <1>13, <1>14, <1>15, <1>16, <1>17, <1>18, <1>19, <1>20, <1>21,
       <1>22
    DEF Next, PlanningNext, DispatchNext, WorkshopNext

\* What Enqueue adds to the outbox.
LEMMA EnqueuePublishes ==
    ASSUME NEW topic, NEW id, Enqueue(topic, id)
    PROVE  \A other :
              Published(other)' = Published(other) \cup
                 {i \in {id} : other = topic}
<1> SUFFICES ASSUME NEW other
             PROVE  Published(other)' = Published(other) \cup
                       {i \in {id} : other = topic}
    OBVIOUS
<1> DEFINE row == [topic |-> topic, id |-> id]
<1>1. jobs' = jobs \cup {row} /\ row.topic = topic /\ row.id = id
    BY DEF Enqueue
<1> HIDE DEF row
<1>2. {r \in jobs' : r.topic = other} =
         {r \in jobs : r.topic = other} \cup {r \in {row} : other = topic}
    BY <1>1
<1>3. QED
    BY <1>1, <1>2 DEF Published

\* What one more row adds to the trail.
LEMMA RowAudits ==
    ASSUME NEW row, audit' = audit \cup {row}
    PROVE  \A other :
              Audited(other)' = Audited(other) \cup
                 {i \in {row.id} : other = row.action}
<1> SUFFICES ASSUME NEW other
             PROVE  Audited(other)' = Audited(other) \cup
                       {i \in {row.id} : other = row.action}
    OBVIOUS
<1>1. {r \in audit' : r.action = other} =
         {r \in audit : r.action = other} \cup
         {r \in {row} : other = row.action}
    OBVIOUS
<1>2. QED
    BY <1>1 DEF Audited

\* What AppendAudit adds to the trail.
LEMMA AppendAudits ==
    ASSUME NEW action, NEW id, AppendAudit(action, id)
    PROVE  \A other :
              Audited(other)' = Audited(other) \cup
                 {i \in {id} : other = action}
<1> DEFINE row == [action |-> action, id |-> id]
<1>1. audit' = audit \cup {row} /\ row.action = action /\ row.id = id
    BY DEF AppendAudit
<1> HIDE DEF row
<1>2. \A other : Audited(other)' = Audited(other) \cup
                    {i \in {row.id} : other = row.action}
    BY <1>1, RowAudits
<1>3. QED
    BY <1>1, <1>2

\* A step that leaves the tables the outbox reports on leaves the agreement.
LEMMA OutboxFrame ==
    ASSUME OutboxMatchesTables,
           UNCHANGED <<trip, inspection, fuel, incident, jobs>>
    PROVE  OutboxMatchesTables'
BY DEF OutboxMatchesTables, Published, Trips, CompletedTrips

\* Each transaction that inserts or closes a row inserts its job with it.
LEMMA OutboxStep ==
    TypeOK /\ OutboxMatchesTables /\ [Next]_vars => OutboxMatchesTables'
<1> SUFFICES ASSUME TypeOK, OutboxMatchesTables, [Next]_vars
             PROVE OutboxMatchesTables'
    OBVIOUS
<1> USE DEF TypeOK, TablesTyped, RequestsTyped, OutboxMatchesTables, Trips,
        CompletedTrips
<1>1. ASSUME NEW c \in Callers, NEW v \in Vehicles, NEW odometer \in Odometers,
             CreateVehicle(c, v, odometer)
      PROVE  OutboxMatchesTables'
    BY <1>1, OutboxFrame DEF CreateVehicle
<1>2. ASSUME NEW s \in Shifts,
             CreateShift(s)
      PROVE  OutboxMatchesTables'
    BY <1>2, OutboxFrame DEF CreateShift
<1>3. ASSUME NEW v \in Vehicles,
             InspectionFallsDue(v)
      PROVE  OutboxMatchesTables'
    BY <1>3, OutboxFrame DEF InspectionFallsDue, tables
<1>4. ASSUME NEW c \in Callers, NEW s \in Shifts,
             GetShiftToCancel(c, s)
      PROVE  OutboxMatchesTables'
    BY <1>4, OutboxFrame DEF GetShiftToCancel, tables
<1>5. ASSUME NEW c \in Callers,
             CancelShift(c)
      PROVE  OutboxMatchesTables'
    BY <1>5, OutboxFrame DEF CancelShift
<1>6. ASSUME NEW s \in Shifts, NEW v \in Vehicles,
             AssignShift(s, v)
      PROVE  OutboxMatchesTables'
    BY <1>6, OutboxFrame DEF AssignShift
<1>7. ASSUME NEW v \in Vehicles, NEW k \in Keys,
             ReplayTrip(v, k)
      PROVE  OutboxMatchesTables'
    BY <1>7, OutboxFrame DEF ReplayTrip, tables
<1>8. ASSUME NEW c \in Callers, NEW v \in Vehicles, NEW s \in Shifts,
             NEW k \in Keys,
             FindTripByKey(c, v, s, k)
      PROVE  OutboxMatchesTables'
    BY <1>8, OutboxFrame DEF FindTripByKey, tables
<1>9. ASSUME NEW c \in Callers, NEW t \in TripIds,
             NEW odometer \in Odometers, NEW load \in Loads,
             StartTrip(c, t, odometer, load)
      PROVE  OutboxMatchesTables'
    <2>1. \A topic : Published(topic)' = Published(topic) \cup
             {x \in {t} : topic = "trip.started"}
        BY <1>9, EnqueuePublishes DEF StartTrip
    <2>2. Trips' = Trips \cup {t} /\ CompletedTrips' = CompletedTrips
        BY <1>9 DEF StartTrip, NewTrip
    <2>3. UNCHANGED <<incident, inspection, fuel>>
        BY <1>9 DEF StartTrip
    <2>4. QED
        BY <2>1, <2>2, <2>3
<1>10. ASSUME NEW t \in TripIds, NEW odometer \in Odometers,
             ReturnTrip(t, odometer)
      PROVE  OutboxMatchesTables'
    <2>1. \A topic : Published(topic)' = Published(topic) \cup
             {x \in {t} : topic = "trip.completed"}
        BY <1>10, EnqueuePublishes DEF ReturnTrip
    <2>2. Trips' = Trips /\ CompletedTrips' = CompletedTrips \cup {t}
        BY <1>10 DEF ReturnTrip, CompleteTrip, TripRow
    <2>3. UNCHANGED <<incident, inspection, fuel>>
        BY <1>10 DEF ReturnTrip
    <2>4. QED
        BY <2>1, <2>2, <2>3
<1>11. ASSUME NEW n \in IncidentIds, NEW t \in TripIds,
             ReportIncident(n, t)
      PROVE  OutboxMatchesTables'
    <2>1. \A topic : Published(topic)' = Published(topic) \cup
             {x \in {n} : topic = "incident.reported"}
        BY <1>11, EnqueuePublishes DEF ReportIncident
    <2>2. trip[t].vehicle \in Vehicles
        BY <1>11 DEF ReportIncident, ForeignKeys
    <2>3. {m \in IncidentIds : incident'[m] # NoIncident} =
             {m \in IncidentIds : incident[m] # NoIncident} \cup {n}
        BY <1>11, <2>2, NoneIsNoVehicle DEF ReportIncident, NoIncident
    <2>4. UNCHANGED <<trip, inspection, fuel>>
        BY <1>11 DEF ReportIncident
    <2>5. QED
        BY <2>1, <2>3, <2>4
<1>12. ASSUME NEW o \in OrderIds, NEW v \in Vehicles,
             OpenMaintenance(o, v)
      PROVE  OutboxMatchesTables'
    BY <1>12, OutboxFrame DEF OpenMaintenance
<1>13. ASSUME NEW c \in Callers, NEW o \in OrderIds,
             GetOrderToStart(c, o)
      PROVE  OutboxMatchesTables'
    BY <1>13, OutboxFrame DEF GetOrderToStart, tables
<1>14. ASSUME NEW c \in Callers,
             StartMaintenance(c)
      PROVE  OutboxMatchesTables'
    BY <1>14, OutboxFrame DEF StartMaintenance
<1>15. ASSUME NEW o \in OrderIds,
             CompleteMaintenance(o)
      PROVE  OutboxMatchesTables'
    BY <1>15, OutboxFrame DEF CompleteMaintenance
<1>16. ASSUME NEW i \in InspectionIds, NEW v \in Vehicles,
             NEW at \in InspectionTimes,
             CreateInspection(i, v, at)
      PROVE  OutboxMatchesTables'
    <2>1. UNCHANGED <<trip, incident, fuel, jobs>>
        BY <1>16 DEF CreateInspection
    <2>2. \A topic : Published(topic)' = Published(topic)
        BY <2>1 DEF Published
    <2>3. {j \in InspectionIds : inspection'[j].status \in {"passed", "failed"}} =
             {j \in InspectionIds : inspection[j].status \in {"passed", "failed"}}
        BY <1>16 DEF CreateInspection, NewInspection
    <2>4. QED
        BY <2>1, <2>2, <2>3
<1>17. ASSUME NEW i \in InspectionIds,
             SubmitPassed(i)
      PROVE  OutboxMatchesTables'
    <2>1. \A topic : Published(topic)' = Published(topic) \cup
             {x \in {i} : topic = "inspection.submitted"}
        BY <1>17, EnqueuePublishes DEF SubmitPassed
    <2>2. {j \in InspectionIds : inspection'[j].status \in {"passed", "failed"}} =
             {j \in InspectionIds :
                 inspection[j].status \in {"passed", "failed"}} \cup {i}
        BY <1>17 DEF SubmitPassed, InspectionRow
    <2>3. UNCHANGED <<trip, incident, fuel>>
        BY <1>17 DEF SubmitPassed
    <2>4. QED
        BY <2>1, <2>2, <2>3
<1>18. ASSUME NEW i \in InspectionIds, NEW o \in OrderIds,
             SubmitFailed(i, o)
      PROVE  OutboxMatchesTables'
    <2>1. \A topic : Published(topic)' = Published(topic) \cup
             {x \in {i} : topic = "inspection.submitted"}
        BY <1>18, EnqueuePublishes DEF SubmitFailed
    <2>2. {j \in InspectionIds : inspection'[j].status \in {"passed", "failed"}} =
             {j \in InspectionIds :
                 inspection[j].status \in {"passed", "failed"}} \cup {i}
        BY <1>18 DEF SubmitFailed, InspectionRow
    <2>3. UNCHANGED <<trip, incident, fuel>>
        BY <1>18 DEF SubmitFailed
    <2>4. QED
        BY <2>1, <2>2, <2>3
<1>19. ASSUME NEW f \in FuelIds, NEW v \in Vehicles,
             NEW odometer \in Odometers,
             RecordFuel(f, v, odometer)
      PROVE  OutboxMatchesTables'
    <2>1. \A topic : Published(topic)' = Published(topic) \cup
             {x \in {f} : topic = "fuel.recorded"}
        BY <1>19, EnqueuePublishes DEF RecordFuel
    <2>2. {g \in FuelIds : fuel'[g] # NoFuel} =
             {g \in FuelIds : fuel[g] # NoFuel} \cup {f}
        BY <1>19, NoneIsNoVehicle DEF RecordFuel, NoFuel
    <2>3. UNCHANGED <<trip, incident, inspection>>
        BY <1>19 DEF RecordFuel
    <2>4. QED
        BY <2>1, <2>2, <2>3
<1>20. ASSUME NEW c \in Callers,
             AppendAuditAfterwards(c)
      PROVE  OutboxMatchesTables'
    BY <1>20, OutboxFrame DEF AppendAuditAfterwards, tables
<1>21. ASSUME NEW c \in Callers,
             Abandon(c)
      PROVE  OutboxMatchesTables'
    BY <1>21, OutboxFrame DEF Abandon, tables
<1>22. CASE UNCHANGED vars
    BY <1>22, OutboxFrame DEF vars, tables
<1>23. QED
    BY <1>1, <1>2, <1>3, <1>4, <1>5, <1>6, <1>7, <1>8, <1>9, <1>10, <1>11,
       <1>12, <1>13, <1>14, <1>15, <1>16, <1>17, <1>18, <1>19, <1>20, <1>21, <1>22
    DEF Next, PlanningNext, DispatchNext, WorkshopNext

\* What a caller is about to write to the trail has happened and is not undone.
PendingAuditTrue ==
    \A c \in Callers : call[c].op = "audit" =>
        LET row == call[c].row
        IN  \/ /\ row.action = "vehicle.create" /\ row.id \in Vehicles
               /\ vehicle[row.id].status # "absent"
            \/ /\ row.action = "shift.cancel" /\ row.id \in Shifts
               /\ shift[row.id].status = "cancelled"
            \/ /\ row.action = "maintenance.start" /\ row.id \in OrderIds
               /\ order[row.id].status \in {"in_progress", "completed"}

\* A vehicle stays, a cancelled shift stays cancelled and a started order
\* started, until the caller has told the trail.
LEMMA PendingStep ==
    TypeOK /\ PendingAuditTrue /\ [Next]_vars => PendingAuditTrue'
<1> SUFFICES ASSUME TypeOK, PendingAuditTrue, [Next]_vars
             PROVE PendingAuditTrue'
    OBVIOUS
<1> USE DEF TypeOK, TablesTyped, RequestsTyped, PendingAuditTrue
<1>1. ASSUME NEW c \in Callers, NEW v \in Vehicles, NEW odometer \in Odometers,
             CreateVehicle(c, v, odometer)
      PROVE  PendingAuditTrue'
    BY <1>1 DEF CreateVehicle, NewVehicle, AuditCall
<1>2. ASSUME NEW s \in Shifts,
             CreateShift(s)
      PROVE  PendingAuditTrue'
    BY <1>2 DEF CreateShift
<1>3. ASSUME NEW v \in Vehicles,
             InspectionFallsDue(v)
      PROVE  PendingAuditTrue'
    BY <1>3 DEF InspectionFallsDue, tables
<1>4. ASSUME NEW c \in Callers, NEW s \in Shifts,
             GetShiftToCancel(c, s)
      PROVE  PendingAuditTrue'
    BY <1>4 DEF GetShiftToCancel, tables
<1>5. ASSUME NEW c \in Callers,
             CancelShift(c)
      PROVE  PendingAuditTrue'
    <2> DEFINE s == call[c].id
    <2>1. s \in Shifts
        BY <1>5, CallTypes DEF CancelShift
    <2>2. /\ shift'[s].status = "cancelled"
          /\ \A u \in Shifts : u # s => shift'[u] = shift[u]
        BY <1>5, <2>1, CallTypes DEF CancelShift, ShiftTo, ShiftRow
    <2>3. /\ call' = [call EXCEPT ![c] = AuditCall("shift.cancel", s)]
          /\ UNCHANGED <<vehicle, order>>
        BY <1>5 DEF CancelShift
    <2>4. QED
        BY <2>1, <2>2, <2>3 DEF AuditCall
<1>6. ASSUME NEW s \in Shifts, NEW v \in Vehicles,
             AssignShift(s, v)
      PROVE  PendingAuditTrue'
    BY <1>6 DEF AssignShift, CheckAssignment
<1>7. ASSUME NEW v \in Vehicles, NEW k \in Keys,
             ReplayTrip(v, k)
      PROVE  PendingAuditTrue'
    BY <1>7 DEF ReplayTrip, tables
<1>8. ASSUME NEW c \in Callers, NEW v \in Vehicles, NEW s \in Shifts,
             NEW k \in Keys,
             FindTripByKey(c, v, s, k)
      PROVE  PendingAuditTrue'
    BY <1>8 DEF FindTripByKey, tables
<1>9. ASSUME NEW c \in Callers, NEW t \in TripIds,
             NEW odometer \in Odometers, NEW load \in Loads,
             StartTrip(c, t, odometer, load)
      PROVE  PendingAuditTrue'
    <2> DEFINE v == call[c].vehicle
               s == call[c].shift
    <2>1. v \in Vehicles /\ s \in Shifts
        BY <1>9, CallTypes DEF StartTrip
    <2>2. /\ shift[s].status = "assigned"
          /\ vehicle' = [vehicle EXCEPT ![v] = StartDispatch(@)]
          /\ shift' = [shift EXCEPT ![s] = ShiftTo(@, "in_progress")]
          /\ call' = [call EXCEPT ![c] = Idle]
          /\ order' = order
        BY <1>9 DEF StartTrip, CheckStart
    <2>3. QED
        BY <2>1, <2>2 DEF StartDispatch, VehicleRow, Idle
<1>10. ASSUME NEW t \in TripIds, NEW odometer \in Odometers,
             ReturnTrip(t, odometer)
      PROVE  PendingAuditTrue'
    BY <1>10 DEF ReturnTrip, FinishReturn, VehicleRow
<1>11. ASSUME NEW n \in IncidentIds, NEW t \in TripIds,
             ReportIncident(n, t)
      PROVE  PendingAuditTrue'
    BY <1>11 DEF ReportIncident
<1>12. ASSUME NEW o \in OrderIds, NEW v \in Vehicles,
             OpenMaintenance(o, v)
      PROVE  PendingAuditTrue'
    BY <1>12 DEF OpenMaintenance, MarkMaintenance, VehicleRow
<1>13. ASSUME NEW c \in Callers, NEW o \in OrderIds,
             GetOrderToStart(c, o)
      PROVE  PendingAuditTrue'
    BY <1>13 DEF GetOrderToStart, tables
<1>14. ASSUME NEW c \in Callers,
             StartMaintenance(c)
      PROVE  PendingAuditTrue'
    <2> DEFINE o == call[c].id
    <2>1. o \in OrderIds
        BY <1>14, CallTypes DEF StartMaintenance
    <2>2. /\ order'[o].status = "in_progress"
          /\ \A u \in OrderIds : u # o => order'[u] = order[u]
        BY <1>14, <2>1, CallTypes DEF StartMaintenance, OrderTo, OrderRow
    <2>3. /\ call' = [call EXCEPT ![c] = AuditCall("maintenance.start", o)]
          /\ UNCHANGED <<vehicle, shift>>
        BY <1>14 DEF StartMaintenance
    <2>4. QED
        BY <2>1, <2>2, <2>3 DEF AuditCall
<1>15. ASSUME NEW o \in OrderIds,
             CompleteMaintenance(o)
      PROVE  PendingAuditTrue'
    BY <1>15 DEF CompleteMaintenance, ReleaseMaintenance, OrderTo,
                  VehicleRow, OrderRow
<1>16. ASSUME NEW i \in InspectionIds, NEW v \in Vehicles,
             NEW at \in InspectionTimes,
             CreateInspection(i, v, at)
      PROVE  PendingAuditTrue'
    BY <1>16 DEF CreateInspection
<1>17. ASSUME NEW i \in InspectionIds,
             SubmitPassed(i)
      PROVE  PendingAuditTrue'
    BY <1>17 DEF SubmitPassed
<1>18. ASSUME NEW i \in InspectionIds, NEW o \in OrderIds,
             SubmitFailed(i, o)
      PROVE  PendingAuditTrue'
    BY <1>18 DEF SubmitFailed, MarkMaintenance, VehicleRow
<1>19. ASSUME NEW f \in FuelIds, NEW v \in Vehicles,
             NEW odometer \in Odometers,
             RecordFuel(f, v, odometer)
      PROVE  PendingAuditTrue'
    BY <1>19 DEF RecordFuel, VehicleRow
<1>20. ASSUME NEW c \in Callers,
             AppendAuditAfterwards(c)
      PROVE  PendingAuditTrue'
    BY <1>20 DEF AppendAuditAfterwards, tables, Idle
<1>21. ASSUME NEW c \in Callers,
             Abandon(c)
      PROVE  PendingAuditTrue'
    BY <1>21 DEF Abandon, tables, Idle
<1>22. CASE UNCHANGED vars
    BY <1>22 DEF vars, tables
<1>23. QED
    BY <1>1, <1>2, <1>3, <1>4, <1>5, <1>6, <1>7, <1>8, <1>9, <1>10, <1>11,
       <1>12, <1>13, <1>14, <1>15, <1>16, <1>17, <1>18, <1>19, <1>20, <1>21, <1>22
    DEF Next, PlanningNext, DispatchNext, WorkshopNext

\* A step that leaves the tables the trail reports on leaves the agreement.
LEMMA AuditFrame ==
    ASSUME AuditMatchesTables,
           UNCHANGED <<vehicle, shift, trip, order, inspection, audit>>
    PROVE  AuditMatchesTables'
BY DEF AuditMatchesTables, Audited, Trips, CompletedTrips

\* Each transaction audits what it writes, and what is audited later has
\* happened: the version check keeps a stale cancellation or start from
\* undoing it.
LEMMA AuditStep ==
    TypeOK /\ VersionsCurrent /\ PendingAuditTrue /\ AuditMatchesTables /\ [Next]_vars => AuditMatchesTables'
<1> SUFFICES ASSUME TypeOK, VersionsCurrent, PendingAuditTrue, AuditMatchesTables, [Next]_vars
             PROVE AuditMatchesTables'
    OBVIOUS
<1> USE DEF TypeOK, TablesTyped, RequestsTyped, AuditMatchesTables, Trips,
        CompletedTrips
<1>1. ASSUME NEW c \in Callers, NEW v \in Vehicles, NEW odometer \in Odometers,
             CreateVehicle(c, v, odometer)
      PROVE  AuditMatchesTables'
    <2>1. \A action : Audited(action)' = Audited(action)
        BY <1>1 DEF CreateVehicle, Audited
    <2>2. QED
        BY <1>1, <2>1 DEF CreateVehicle, NewVehicle
<1>2. ASSUME NEW s \in Shifts,
             CreateShift(s)
      PROVE  AuditMatchesTables'
    <2>1. \A action : Audited(action)' = Audited(action)
        BY <1>2 DEF CreateShift, Audited
    <2>2. shift[s] = NoShift /\ shift' = [shift EXCEPT ![s] = NewShift]
        BY <1>2 DEF CreateShift, VersionsCurrent
    <2>3. {u \in Shifts : shift'[u].vehicle # None} =
             {u \in Shifts : shift[u].vehicle # None}
        BY <2>2 DEF NoShift, NewShift
    <2>4. {u \in Shifts : shift[u].status = "cancelled"} \subseteq
             {u \in Shifts : shift'[u].status = "cancelled"}
        BY <2>2 DEF NoShift
    <2>5. QED
        BY <1>2, <2>1, <2>3, <2>4 DEF CreateShift
<1>3. ASSUME NEW v \in Vehicles,
             InspectionFallsDue(v)
      PROVE  AuditMatchesTables'
    BY <1>3, AuditFrame DEF InspectionFallsDue, tables
<1>4. ASSUME NEW c \in Callers, NEW s \in Shifts,
             GetShiftToCancel(c, s)
      PROVE  AuditMatchesTables'
    BY <1>4, AuditFrame DEF GetShiftToCancel, tables
<1>5. ASSUME NEW c \in Callers,
             CancelShift(c)
      PROVE  AuditMatchesTables'
    <2>1. \A action : Audited(action)' = Audited(action)
        BY <1>5 DEF CancelShift, Audited
    <2> DEFINE s == call[c].id
    <2>2. s \in Shifts /\ call[c].seen = shift[s]
        BY <1>5, CallTypes DEF CancelShift, SameVersion, VersionsCurrent
    <2>3. shift' = [shift EXCEPT ![s] = ShiftTo(shift[s], "cancelled")]
        BY <1>5, <2>2 DEF CancelShift
    <2>4. {u \in Shifts : shift'[u].vehicle # None} =
             {u \in Shifts : shift[u].vehicle # None}
        BY <2>2, <2>3 DEF ShiftTo, ShiftRow
    <2>5. {u \in Shifts : shift[u].status = "cancelled"} \subseteq
             {u \in Shifts : shift'[u].status = "cancelled"}
        BY <2>2, <2>3 DEF ShiftTo, ShiftRow
    <2>6. QED
        BY <1>5, <2>1, <2>4, <2>5 DEF CancelShift
<1>6. ASSUME NEW s \in Shifts, NEW v \in Vehicles,
             AssignShift(s, v)
      PROVE  AuditMatchesTables'
    <2>1. \A action : Audited(action)' = Audited(action) \cup
             {x \in {s} : action = "shift.assign"}
        BY <1>6, AppendAudits DEF AssignShift
    <2>2. {u \in Shifts : shift'[u].vehicle # None} =
             {u \in Shifts : shift[u].vehicle # None} \cup {s}
        BY <1>6, NoneIsNoVehicle DEF AssignShift, Assign
    <2>3. {u \in Shifts : shift[u].status = "cancelled"} \subseteq
             {u \in Shifts : shift'[u].status = "cancelled"}
        BY <1>6 DEF AssignShift, CheckAssignment
    <2>4. QED
        BY <1>6, <2>1, <2>2, <2>3 DEF AssignShift
<1>7. ASSUME NEW v \in Vehicles, NEW k \in Keys,
             ReplayTrip(v, k)
      PROVE  AuditMatchesTables'
    BY <1>7, AuditFrame DEF ReplayTrip, tables
<1>8. ASSUME NEW c \in Callers, NEW v \in Vehicles, NEW s \in Shifts,
             NEW k \in Keys,
             FindTripByKey(c, v, s, k)
      PROVE  AuditMatchesTables'
    BY <1>8, AuditFrame DEF FindTripByKey, tables
<1>9. ASSUME NEW c \in Callers, NEW t \in TripIds,
             NEW odometer \in Odometers, NEW load \in Loads,
             StartTrip(c, t, odometer, load)
      PROVE  AuditMatchesTables'
    <2>1. \A action : Audited(action)' = Audited(action) \cup
             {x \in {t} : action = "trip.start"}
        BY <1>9, AppendAudits DEF StartTrip
    <2> DEFINE v == call[c].vehicle
               s == call[c].shift
    <2>2. /\ v \in Vehicles /\ s \in Shifts
          /\ shift[s].status = "assigned"
          /\ vehicle' = [vehicle EXCEPT ![v] = StartDispatch(@)]
          /\ shift' = [shift EXCEPT ![s] = ShiftTo(@, "in_progress")]
        BY <1>9, CallTypes DEF StartTrip, CheckStart
    <2>3. Trips' = Trips \cup {t} /\ CompletedTrips' = CompletedTrips
        BY <1>9 DEF StartTrip, NewTrip
    <2>4. {u \in Shifts : shift'[u].vehicle # None} =
             {u \in Shifts : shift[u].vehicle # None}
        BY <2>2 DEF ShiftTo, ShiftRow
    <2>5. {u \in Shifts : shift[u].status = "cancelled"} \subseteq
             {u \in Shifts : shift'[u].status = "cancelled"}
        BY <2>2
    <2>6. {w \in Vehicles : vehicle[w].status # "absent"} \subseteq
             {w \in Vehicles : vehicle'[w].status # "absent"}
        BY <2>2 DEF StartDispatch, VehicleRow
    <2>7. UNCHANGED <<order, inspection>>
        BY <1>9 DEF StartTrip
    <2> HIDE DEF Trips, CompletedTrips
    <2>8. QED
        BY <2>1, <2>3, <2>4, <2>5, <2>6, <2>7
<1>10. ASSUME NEW t \in TripIds, NEW odometer \in Odometers,
             ReturnTrip(t, odometer)
      PROVE  AuditMatchesTables'
    <2>1. \A action : Audited(action)' = Audited(action) \cup
             {x \in {t} : action = "trip.return"}
        BY <1>10, AppendAudits DEF ReturnTrip
    <2> DEFINE v == trip[t].vehicle
               s == trip[t].shift
    <2>2. /\ v \in Vehicles /\ s \in Shifts
          /\ shift[s].status = "in_progress"
          /\ vehicle' = [vehicle EXCEPT ![v] = FinishReturn(@, odometer)]
          /\ shift' = [shift EXCEPT ![s] = ShiftTo(@, "completed")]
        BY <1>10 DEF ReturnTrip, ForeignKeys
    <2>3. Trips' = Trips /\ CompletedTrips' = CompletedTrips \cup {t}
        BY <1>10 DEF ReturnTrip, CompleteTrip, TripRow
    <2>4. {u \in Shifts : shift'[u].vehicle # None} =
             {u \in Shifts : shift[u].vehicle # None}
        BY <2>2 DEF ShiftTo, ShiftRow
    <2>5. {u \in Shifts : shift[u].status = "cancelled"} \subseteq
             {u \in Shifts : shift'[u].status = "cancelled"}
        BY <2>2
    <2>6. {w \in Vehicles : vehicle[w].status # "absent"} \subseteq
             {w \in Vehicles : vehicle'[w].status # "absent"}
        BY <2>2 DEF FinishReturn, VehicleRow
    <2>7. UNCHANGED <<order, inspection>>
        BY <1>10 DEF ReturnTrip
    <2> HIDE DEF Trips, CompletedTrips
    <2>8. QED
        BY <2>1, <2>3, <2>4, <2>5, <2>6, <2>7
<1>11. ASSUME NEW n \in IncidentIds, NEW t \in TripIds,
             ReportIncident(n, t)
      PROVE  AuditMatchesTables'
    <2>1. \A action : Audited(action)' = Audited(action) \cup
             {x \in {n} : action = "incident.report"}
        BY <1>11, AppendAudits DEF ReportIncident
    <2>2. UNCHANGED <<vehicle, shift, trip, order, inspection>>
        BY <1>11 DEF ReportIncident
    <2>3. QED
        BY <2>1, <2>2
<1>12. ASSUME NEW o \in OrderIds, NEW v \in Vehicles,
             OpenMaintenance(o, v)
      PROVE  AuditMatchesTables'
    <2>1. \A action : Audited(action)' = Audited(action) \cup
             {x \in {o} : action = "maintenance.open"}
        BY <1>12, AppendAudits DEF OpenMaintenance
    <2>2. /\ {w \in Vehicles : vehicle[w].status # "absent"} \subseteq
                {w \in Vehicles : vehicle'[w].status # "absent"}
          /\ {p \in OrderIds : order'[p].status # "absent"} =
                {p \in OrderIds : order[p].status # "absent"} \cup {o}
          /\ {p \in OrderIds : order'[p].status \in {"in_progress", "completed"}} =
                {p \in OrderIds : order[p].status \in {"in_progress", "completed"}}
          /\ {p \in OrderIds : order'[p].status = "completed"} =
                {p \in OrderIds : order[p].status = "completed"}
        BY <1>12 DEF OpenMaintenance, MarkMaintenance, NewOrder, VehicleRow
    <2>3. UNCHANGED <<shift, trip, inspection>>
        BY <1>12 DEF OpenMaintenance
    <2>4. QED
        BY <2>1, <2>2, <2>3
<1>13. ASSUME NEW c \in Callers, NEW o \in OrderIds,
             GetOrderToStart(c, o)
      PROVE  AuditMatchesTables'
    BY <1>13, AuditFrame DEF GetOrderToStart, tables
<1>14. ASSUME NEW c \in Callers,
             StartMaintenance(c)
      PROVE  AuditMatchesTables'
    <2>1. \A action : Audited(action)' = Audited(action)
        BY <1>14 DEF StartMaintenance, Audited
    <2> DEFINE o == call[c].id
    <2>2. o \in OrderIds /\ call[c].seen = order[o] /\ order[o].status = "open"
        BY <1>14, CallTypes DEF StartMaintenance, SameVersion, VersionsCurrent
    <2>3. order' = [order EXCEPT ![o] = OrderTo(order[o], "in_progress")]
        BY <1>14, <2>2 DEF StartMaintenance
    <2>4. /\ {p \in OrderIds : order[p].status # "absent"} \subseteq
                {p \in OrderIds : order'[p].status # "absent"}
          /\ {p \in OrderIds : order[p].status \in {"in_progress", "completed"}}
                \subseteq {p \in OrderIds :
                              order'[p].status \in {"in_progress", "completed"}}
          /\ {p \in OrderIds : order'[p].status = "completed"} =
                {p \in OrderIds : order[p].status = "completed"}
        BY <2>2, <2>3 DEF OrderTo, OrderRow
    <2>5. UNCHANGED <<vehicle, shift, trip, inspection>>
        BY <1>14 DEF StartMaintenance
    <2>6. QED
        BY <2>1, <2>4, <2>5
<1>15. ASSUME NEW o \in OrderIds,
             CompleteMaintenance(o)
      PROVE  AuditMatchesTables'
    <2>1. \A action : Audited(action)' = Audited(action) \cup
             {x \in {o} : action = "maintenance.complete"}
        BY <1>15, AppendAudits DEF CompleteMaintenance
    <2>2. order[o].vehicle \in Vehicles
        BY <1>15 DEF CompleteMaintenance, ForeignKeys
    <2>3. /\ {w \in Vehicles : vehicle[w].status # "absent"} \subseteq
                {w \in Vehicles : vehicle'[w].status # "absent"}
          /\ {p \in OrderIds : order[p].status # "absent"} \subseteq
                {p \in OrderIds : order'[p].status # "absent"}
          /\ {p \in OrderIds : order[p].status \in {"in_progress", "completed"}}
                \subseteq {p \in OrderIds :
                              order'[p].status \in {"in_progress", "completed"}}
          /\ {p \in OrderIds : order'[p].status = "completed"} =
                {p \in OrderIds : order[p].status = "completed"} \cup {o}
        BY <1>15, <2>2 DEF CompleteMaintenance, ReleaseMaintenance, OrderTo,
                          VehicleRow, OrderRow
    <2>4. UNCHANGED <<shift, trip, inspection>>
        BY <1>15 DEF CompleteMaintenance
    <2>5. QED
        BY <2>1, <2>3, <2>4
<1>16. ASSUME NEW i \in InspectionIds, NEW v \in Vehicles,
             NEW at \in InspectionTimes,
             CreateInspection(i, v, at)
      PROVE  AuditMatchesTables'
    <2>1. \A action : Audited(action)' = Audited(action) \cup
             {x \in {i} : action = "inspection.create"}
        BY <1>16, AppendAudits DEF CreateInspection
    <2>2. {j \in InspectionIds : inspection'[j].status \in {"passed", "failed"}} =
             {j \in InspectionIds : inspection[j].status \in {"passed", "failed"}}
        BY <1>16 DEF CreateInspection, NewInspection
    <2>3. UNCHANGED <<vehicle, shift, trip, order>>
        BY <1>16 DEF CreateInspection
    <2>4. QED
        BY <2>1, <2>2, <2>3
<1>17. ASSUME NEW i \in InspectionIds,
             SubmitPassed(i)
      PROVE  AuditMatchesTables'
    <2>1. \A action : Audited(action)' = Audited(action) \cup
             {x \in {i} : action = "inspection.submit"}
        BY <1>17, AppendAudits DEF SubmitPassed
    <2>2. {j \in InspectionIds : inspection'[j].status \in {"passed", "failed"}} =
             {j \in InspectionIds :
                 inspection[j].status \in {"passed", "failed"}} \cup {i}
        BY <1>17 DEF SubmitPassed, InspectionRow
    <2>3. UNCHANGED <<vehicle, shift, trip, order>>
        BY <1>17 DEF SubmitPassed
    <2>4. QED
        BY <2>1, <2>2, <2>3
<1>18. ASSUME NEW i \in InspectionIds, NEW o \in OrderIds,
             SubmitFailed(i, o)
      PROVE  AuditMatchesTables'
    <2>1. \A action : Audited(action)' = Audited(action) \cup
             {x \in {i} : action = "inspection.submit"}
        BY <1>18, AppendAudits DEF SubmitFailed
    <2>2. {j \in InspectionIds : inspection'[j].status \in {"passed", "failed"}} =
             {j \in InspectionIds :
                 inspection[j].status \in {"passed", "failed"}} \cup {i}
        BY <1>18 DEF SubmitFailed, InspectionRow
    <2>3. /\ {w \in Vehicles : vehicle[w].status # "absent"} \subseteq
                {w \in Vehicles : vehicle'[w].status # "absent"}
          /\ {p \in OrderIds : order[p].status # "absent"} \subseteq
                {p \in OrderIds : order'[p].status # "absent"}
          /\ {p \in OrderIds : order'[p].status \in {"in_progress", "completed"}} =
                {p \in OrderIds : order[p].status \in {"in_progress", "completed"}}
          /\ {p \in OrderIds : order'[p].status = "completed"} =
                {p \in OrderIds : order[p].status = "completed"}
        BY <1>18 DEF SubmitFailed, MarkMaintenance, NewOrder, VehicleRow
    <2>4. UNCHANGED <<shift, trip>>
        BY <1>18 DEF SubmitFailed
    <2>5. QED
        BY <2>1, <2>2, <2>3, <2>4
<1>19. ASSUME NEW f \in FuelIds, NEW v \in Vehicles,
             NEW odometer \in Odometers,
             RecordFuel(f, v, odometer)
      PROVE  AuditMatchesTables'
    <2>1. \A action : Audited(action)' = Audited(action) \cup
             {x \in {f} : action = "fuel.record"}
        BY <1>19, AppendAudits DEF RecordFuel
    <2>2. {w \in Vehicles : vehicle[w].status # "absent"} \subseteq
             {w \in Vehicles : vehicle'[w].status # "absent"}
        BY <1>19 DEF RecordFuel, VehicleRow
    <2>3. UNCHANGED <<shift, trip, order, inspection>>
        BY <1>19 DEF RecordFuel
    <2>4. QED
        BY <2>1, <2>2, <2>3
<1>20. ASSUME NEW c \in Callers,
             AppendAuditAfterwards(c)
      PROVE  AuditMatchesTables'
    <2> PICK row : row = call[c].row
        OBVIOUS
    <2>1. \A action : Audited(action)' = Audited(action) \cup
             {x \in {row.id} : action = row.action}
        BY <1>20, RowAudits DEF AppendAuditAfterwards
    <2>2. \/ /\ row.action = "vehicle.create" /\ row.id \in Vehicles
             /\ vehicle[row.id].status # "absent"
          \/ /\ row.action = "shift.cancel" /\ row.id \in Shifts
             /\ shift[row.id].status = "cancelled"
          \/ /\ row.action = "maintenance.start" /\ row.id \in OrderIds
             /\ order[row.id].status \in {"in_progress", "completed"}
        BY <1>20 DEF AppendAuditAfterwards, PendingAuditTrue
    <2>3. UNCHANGED <<vehicle, shift, trip, order, inspection>>
        BY <1>20 DEF AppendAuditAfterwards, tables
    <2>4. QED
        BY <2>1, <2>2, <2>3
<1>21. ASSUME NEW c \in Callers,
             Abandon(c)
      PROVE  AuditMatchesTables'
    BY <1>21, AuditFrame DEF Abandon, tables
<1>22. CASE UNCHANGED vars
    BY <1>22, AuditFrame DEF vars, tables
<1>23. QED
    BY <1>1, <1>2, <1>3, <1>4, <1>5, <1>6, <1>7, <1>8, <1>9, <1>10, <1>11,
       <1>12, <1>13, <1>14, <1>15, <1>16, <1>17, <1>18, <1>19, <1>20, <1>21, <1>22
    DEF Next, PlanningNext, DispatchNext, WorkshopNext

\* A caller that finds the version unmoved acts on the row as it is stored
\* (planning/service.go:93-106, maintenance/service.go:62-75).
THEOREM StaleWritesRefused == Spec => []VersionsCurrent
<1>1. Init => VersionsCurrent
    BY DEF Init, VersionsCurrent, Idle, NoShift, NoOrder
<1>2. QED
    BY <1>1, VersionsStep, TypeCorrect, PTL DEF Spec

\* However the handlers interleave, the status of a vehicle, of its shift and
\* of its trip agree (dispatch/service.go:96-232).
THEOREM StatusColumnsAgree == Spec => []DutyAgrees
<1>1. Init => DutyAgrees
    BY DEF Init, DutyAgrees, OnDutyIffActiveTrip, ShiftMatchesTrip, Trips,
       ActiveTrips, NoVehicle, NoTrip, NoShift
<1>2. QED
    BY <1>1, DutyStep, TypeCorrect, StaleWritesRefused, PTL DEF Spec

\* A vehicle under repair is not on the road and one on the road has no order
\* (maintenance/service.go:26-107, policy/dispatch.go:49-63).
THEOREM NoRepairOnTheRoad == Spec => []WorkshopExcludesRoad
<1>1. Init => WorkshopExcludesRoad
    BY DEF Init, WorkshopExcludesRoad, NoVehicle
<1>2. QED
    BY <1>1, WorkshopStep, TypeCorrect, StaleWritesRefused, PTL DEF Spec

\* All answers to one vehicle and key name one trip, although the look-up of
\* the key is outside the transaction (dispatch/service.go:103-176).
THEOREM OneTripPerKey == Spec => []AnswersAgree
<1>1. Init => KeysUnique /\ AnswersAgree
    BY DEF Init, KeysUnique, AnswersAgree, Trips, NoTrip
<1>2. QED
    BY <1>1, AnswersStep, TypeCorrect, PTL DEF Spec

\* The odometer readings of a vehicle form one history over its trips and fuel
\* records (dispatch/service.go:96-232, fuel/service.go:38-86).
THEOREM OdometerConsistent == Spec => []OdometerHistory
<1>1. Init => OdometerInv
    BY DEF Init, OdometerInv, OdometerBounds, OdometerHistory, Trips,
           ActiveTrips, CompletedTrips, NoTrip, NoFuel
<1>2. OdometerInv => OdometerHistory
    BY DEF OdometerInv
<1>3. DutyAgrees => OnDutyIffActiveTrip
    BY DEF DutyAgrees
<1>4. QED
    BY <1>1, <1>2, <1>3, OdometerStep, TypeCorrect, StatusColumnsAgree, PTL
    DEF Spec

\* No two shifts of a vehicle on a date overlap or come too close
\* (scheduling/checker.go:18-53).
THEOREM RosterSafe == Spec => []RosterCompatible
<1>1. Init => RosterCompatible
    BY NoneIsNoVehicle DEF Init, RosterCompatible, HeldBy, NoShift
<1>2. QED
    BY <1>1, RosterStep, TypeCorrect, StaleWritesRefused, PTL DEF Spec

\* Shifts move only along their state machine and keep their vehicle.
THEOREM ShiftsFollowLifecycle == Spec => ShiftLifecycle
<1>1. Init => ScheduledUnassigned
    BY DEF Init, ScheduledUnassigned, NoShift
<1>2. TypeOK /\ VersionsCurrent /\ ScheduledUnassigned /\ [Next]_vars =>
         [ShiftMoves]_vars /\ ScheduledUnassigned'
    BY LifecycleStep
<1>3. QED
    BY <1>1, <1>2, TypeCorrect, StaleWritesRefused, PTL
    DEF Spec, ShiftLifecycle, ShiftMoves

\* Orders move only along theirs.
THEOREM OrdersFollowLifecycle == Spec => OrderLifecycle
<1>1. TypeOK /\ VersionsCurrent /\ [Next]_vars => [OrderMoves]_vars
    BY OrderStep
<1>2. QED
    BY <1>1, TypeCorrect, StaleWritesRefused, PTL
    DEF Spec, OrderLifecycle, OrderMoves

\* The outbox announces every trip, return, incident, submission and fuel
\* record of the tables and nothing else: each job is inserted by the
\* transaction that writes its row (storage/sqlite/audit_outbox.go:41-46).
THEOREM OutboxComplete == Spec => []OutboxMatchesTables
<1>1. Init => OutboxMatchesTables
    BY DEF Init, OutboxMatchesTables, Published, Trips, CompletedTrips, NoTrip,
       NoInspection
<1>2. QED
    BY <1>1, OutboxStep, TypeCorrect, PTL DEF Spec

\* The audit trail tells the truth: also of the rows written outside of a
\* transaction, which it mentions only after the write, and which no stale
\* request undoes between the write and the audit statement.
THEOREM AuditTruthful == Spec => []AuditMatchesTables
<1>1. Init => PendingAuditTrue /\ AuditMatchesTables
    BY DEF Init, PendingAuditTrue, AuditMatchesTables, Audited, Trips,
       CompletedTrips, NoTrip, NoShift, NoOrder, NoInspection, Idle
<1>2. QED
    BY <1>1, PendingStep, AuditStep, TypeCorrect, StaleWritesRefused, PTL
    DEF Spec

-----------------------------------------------------------------------------
(* Refinement of DayPlan.                                                    *)

\* Writing a row of the shift table moves the status column of that shift.
LEMMA StatusMoves ==
    ASSUME shift \in [Shifts -> ShiftRow], NEW s \in Shifts, NEW row,
           shift' = [shift EXCEPT ![s] = row]
    PROVE  StatusColumn' = [StatusColumn EXCEPT ![s] = row.status]
BY DEF StatusColumn

\* An observer sees nothing of a step that leaves both columns alone.
LEMMA PlanStutters ==
    ASSUME UNCHANGED <<shift, trip>>
    PROVE  UNCHANGED Plan!planVars
<1>1. StatusColumn' = StatusColumn
    BY DEF StatusColumn
<1>2. TripStatuses' = TripStatuses
    BY DEF TripStatuses, Trips
<1>3. QED
    BY <1>1, <1>2 DEF Plan!planVars

\* Each write of the shift table is one step of the plan, the two that write
\* trips with it; every other operation is invisible to the plan.
LEMMA PlanStep ==
    TypeOK /\ VersionsCurrent /\ DutyAgrees /\ [Next]_vars => [Plan!PlanNext]_(Plan!planVars)
<1> SUFFICES ASSUME TypeOK, VersionsCurrent, DutyAgrees, [Next]_vars
             PROVE [Plan!PlanNext]_(Plan!planVars)
    OBVIOUS
<1> USE DEF TypeOK, TablesTyped, RequestsTyped
<1>1. ASSUME NEW c \in Callers, NEW v \in Vehicles, NEW odometer \in Odometers,
             CreateVehicle(c, v, odometer)
      PROVE  [Plan!PlanNext]_(Plan!planVars)
    BY <1>1, PlanStutters DEF CreateVehicle
<1>2. ASSUME NEW s \in Shifts,
             CreateShift(s)
      PROVE  [Plan!PlanNext]_(Plan!planVars)
    <2>1. StatusColumn' = [StatusColumn EXCEPT ![s] = "scheduled"]
        <3>1. shift' = [shift EXCEPT ![s] = NewShift]
            BY <1>2 DEF CreateShift
        <3>2. NewShift.status = "scheduled"
            BY DEF NewShift
        <3>3. QED
            BY <3>1, <3>2, StatusMoves
    <2>2. StatusColumn[s] = "absent"
        BY <1>2 DEF CreateShift, StatusColumn
    <2>3. TripStatuses' = TripStatuses
        BY <1>2 DEF CreateShift, TripStatuses, Trips
    <2>4. Plan!PlanShift(s)
        BY <2>1, <2>2, <2>3 DEF Plan!PlanShift
    <2>5. QED
        BY <2>4 DEF Plan!PlanNext
<1>3. ASSUME NEW v \in Vehicles,
             InspectionFallsDue(v)
      PROVE  [Plan!PlanNext]_(Plan!planVars)
    BY <1>3, PlanStutters DEF InspectionFallsDue, tables
<1>4. ASSUME NEW c \in Callers, NEW s \in Shifts,
             GetShiftToCancel(c, s)
      PROVE  [Plan!PlanNext]_(Plan!planVars)
    BY <1>4, PlanStutters DEF GetShiftToCancel, tables
<1>5. ASSUME NEW c \in Callers,
             CancelShift(c)
      PROVE  [Plan!PlanNext]_(Plan!planVars)
    <2> DEFINE s == call[c].id
    <2>1. s \in Shifts /\ call[c].seen = shift[s] /\ MayCancel(shift[s])
        BY <1>5, CallTypes DEF CancelShift, SameVersion, VersionsCurrent
    <2>2. StatusColumn' = [StatusColumn EXCEPT ![s] = "cancelled"]
        <3>1. shift' = [shift EXCEPT ![s] = ShiftTo(call[c].seen, "cancelled")]
            BY <1>5 DEF CancelShift
        <3>2. ShiftTo(call[c].seen, "cancelled").status = "cancelled"
            BY <2>1 DEF ShiftTo, ShiftRow
        <3>3. QED
            BY <2>1, <3>1, <3>2, StatusMoves
    <2>3. StatusColumn[s] \in {"scheduled", "assigned"}
        BY <2>1 DEF StatusColumn, MayCancel
    <2>4. TripStatuses' = TripStatuses
        BY <1>5 DEF CancelShift, TripStatuses, Trips
    <2>5. Plan!Cancel(s)
        BY <2>2, <2>3, <2>4 DEF Plan!Cancel
    <2>6. QED
        BY <2>1, <2>5 DEF Plan!PlanNext
<1>6. ASSUME NEW s \in Shifts, NEW v \in Vehicles,
             AssignShift(s, v)
      PROVE  [Plan!PlanNext]_(Plan!planVars)
    <2>1. StatusColumn' = [StatusColumn EXCEPT ![s] = "assigned"]
        <3>1. shift' = [shift EXCEPT ![s] = Assign(shift[s], v)]
            BY <1>6 DEF AssignShift
        <3>2. Assign(shift[s], v).status = "assigned"
            BY DEF Assign
        <3>3. QED
            BY <3>1, <3>2, StatusMoves
    <2>2. StatusColumn[s] = "scheduled"
        BY <1>6 DEF AssignShift, CheckAssignment, StatusColumn
    <2>3. TripStatuses' = TripStatuses
        BY <1>6 DEF AssignShift, TripStatuses, Trips
    <2>4. Plan!Assign(s)
        BY <2>1, <2>2, <2>3 DEF Plan!Assign
    <2>5. QED
        BY <2>4 DEF Plan!PlanNext
<1>7. ASSUME NEW v \in Vehicles, NEW k \in Keys,
             ReplayTrip(v, k)
      PROVE  [Plan!PlanNext]_(Plan!planVars)
    BY <1>7, PlanStutters DEF ReplayTrip, tables
<1>8. ASSUME NEW c \in Callers, NEW v \in Vehicles, NEW s \in Shifts,
             NEW k \in Keys,
             FindTripByKey(c, v, s, k)
      PROVE  [Plan!PlanNext]_(Plan!planVars)
    BY <1>8, PlanStutters DEF FindTripByKey, tables
<1>9. ASSUME NEW c \in Callers, NEW t \in TripIds,
             NEW odometer \in Odometers, NEW load \in Loads,
             StartTrip(c, t, odometer, load)
      PROVE  [Plan!PlanNext]_(Plan!planVars)
    <2> DEFINE v == call[c].vehicle
               s == call[c].shift
               k == call[c].key
    <2>1. /\ s \in Shifts /\ shift[s].status = "assigned"
          /\ trip[t].status = "absent"
          /\ \A u \in Trips : trip[u].shift # s
          /\ shift' = [shift EXCEPT ![s] = ShiftTo(shift[s], "in_progress")]
          /\ trip' = [trip EXCEPT ![t] = NewTrip(v, s, k, odometer)]
        BY <1>9, CallTypes DEF StartTrip, CheckStart, TripInsertable
    <2> HIDE DEF v, s, k
    <2>2. StatusColumn' = [StatusColumn EXCEPT ![s] = "in_progress"]
        <3>1. ShiftTo(shift[s], "in_progress").status = "in_progress"
            BY <2>1 DEF ShiftTo, ShiftRow
        <3>2. PICK row : row = ShiftTo(shift[s], "in_progress")
            OBVIOUS
        <3>3. s \in Shifts /\ shift' = [shift EXCEPT ![s] = row]
            BY <2>1, <3>2
        <3>4. QED
            BY <3>1, <3>2, <3>3, StatusMoves
    <2>3. StatusColumn[s] = "assigned"
        BY <2>1 DEF StatusColumn
    <2>4. /\ trip'[t].status = "active" /\ trip'[t].shift = s
          /\ \A u \in TripIds : u # t => trip'[u] = trip[u]
          /\ Trips' = Trips \cup {t} /\ t \notin Trips
        BY <2>1 DEF NewTrip, Trips
    <2>5. TripStatuses' = [TripStatuses EXCEPT ![s] = {"active"}]
        <3>1. {u \in Trips' : trip'[u].shift = s} = {t}
            BY <2>1, <2>4 DEF Trips
        <3>2. {trip'[u].status : u \in {t}} = {"active"}
            BY <2>4
        <3>3. ASSUME NEW r \in Shifts, r # s
              PROVE  {trip'[u].status : u \in {w \in Trips' : trip'[w].shift = r}} =
                     {trip[u].status : u \in {w \in Trips : trip[w].shift = r}}
            <4>1. {w \in Trips' : trip'[w].shift = r} =
                     {w \in Trips : trip[w].shift = r}
                BY <2>4, <3>3 DEF Trips
            <4>2. \A u \in {w \in Trips : trip[w].shift = r} : trip'[u] = trip[u]
                BY <2>4 DEF Trips
            <4>3. QED
                BY <4>1, <4>2
        <3>4. \A r \in Shifts :
                 TripStatuses'[r] = IF r = s THEN {"active"} ELSE TripStatuses[r]
            BY <3>1, <3>2, <3>3 DEF TripStatuses
        <3>5. QED
            BY <2>1, <3>4 DEF TripStatuses
    <2>6. Plan!Start(s)
        BY <2>2, <2>3, <2>5 DEF Plan!Start
    <2>7. QED
        BY <2>1, <2>6 DEF Plan!PlanNext
<1>10. ASSUME NEW t \in TripIds, NEW odometer \in Odometers,
             ReturnTrip(t, odometer)
      PROVE  [Plan!PlanNext]_(Plan!planVars)
    <2> DEFINE s == trip[t].shift
    <2>1. /\ t \in Trips /\ s \in Shifts /\ shift[s].status = "in_progress"
          /\ shift' = [shift EXCEPT ![s] = ShiftTo(shift[s], "completed")]
          /\ trip' = [trip EXCEPT ![t] = CompleteTrip(trip[t], odometer)]
        BY <1>10 DEF ReturnTrip, Trips, ForeignKeys
    <2>2. StatusColumn' = [StatusColumn EXCEPT ![s] = "completed"]
        <3>1. ShiftTo(shift[s], "completed").status = "completed"
            BY <2>1 DEF ShiftTo, ShiftRow
        <3>2. QED
            BY <2>1, <3>1, StatusMoves
    <2>3. StatusColumn[s] = "in_progress"
        BY <2>1 DEF StatusColumn
    <2>4. /\ trip'[t].status = "completed" /\ trip'[t].shift = s
          /\ \A u \in TripIds : u # t => trip'[u] = trip[u]
          /\ Trips' = Trips
        BY <2>1 DEF CompleteTrip, TripRow, Trips
    <2>5. TripStatuses' = [TripStatuses EXCEPT ![s] = {"completed"}]
        <3>1. {u \in Trips' : trip'[u].shift = s} = {t}
            BY <2>1, <2>4 DEF Trips, DutyAgrees, ShiftMatchesTrip
        <3>2. {trip'[u].status : u \in {t}} = {"completed"}
            BY <2>4
        <3>3. ASSUME NEW r \in Shifts, r # s
              PROVE  {trip'[u].status : u \in {w \in Trips' : trip'[w].shift = r}} =
                     {trip[u].status : u \in {w \in Trips : trip[w].shift = r}}
            <4>1. {w \in Trips' : trip'[w].shift = r} =
                     {w \in Trips : trip[w].shift = r}
                BY <2>4, <3>3 DEF Trips
            <4>2. \A u \in {w \in Trips : trip[w].shift = r} : trip'[u] = trip[u]
                BY <2>4, <3>3 DEF Trips
            <4>3. QED
                BY <4>1, <4>2
        <3>4. \A r \in Shifts :
                 TripStatuses'[r] = IF r = s THEN {"completed"} ELSE TripStatuses[r]
            BY <3>1, <3>2, <3>3 DEF TripStatuses
        <3>5. QED
            BY <2>1, <3>4 DEF TripStatuses
    <2>6. Plan!Return(s)
        BY <2>2, <2>3, <2>5 DEF Plan!Return
    <2>7. QED
        BY <2>1, <2>6 DEF Plan!PlanNext
<1>11. ASSUME NEW n \in IncidentIds, NEW t \in TripIds,
             ReportIncident(n, t)
      PROVE  [Plan!PlanNext]_(Plan!planVars)
    BY <1>11, PlanStutters DEF ReportIncident
<1>12. ASSUME NEW o \in OrderIds, NEW v \in Vehicles,
             OpenMaintenance(o, v)
      PROVE  [Plan!PlanNext]_(Plan!planVars)
    BY <1>12, PlanStutters DEF OpenMaintenance
<1>13. ASSUME NEW c \in Callers, NEW o \in OrderIds,
             GetOrderToStart(c, o)
      PROVE  [Plan!PlanNext]_(Plan!planVars)
    BY <1>13, PlanStutters DEF GetOrderToStart, tables
<1>14. ASSUME NEW c \in Callers,
             StartMaintenance(c)
      PROVE  [Plan!PlanNext]_(Plan!planVars)
    BY <1>14, PlanStutters DEF StartMaintenance
<1>15. ASSUME NEW o \in OrderIds,
             CompleteMaintenance(o)
      PROVE  [Plan!PlanNext]_(Plan!planVars)
    BY <1>15, PlanStutters DEF CompleteMaintenance
<1>16. ASSUME NEW i \in InspectionIds, NEW v \in Vehicles,
             NEW at \in InspectionTimes,
             CreateInspection(i, v, at)
      PROVE  [Plan!PlanNext]_(Plan!planVars)
    BY <1>16, PlanStutters DEF CreateInspection
<1>17. ASSUME NEW i \in InspectionIds,
             SubmitPassed(i)
      PROVE  [Plan!PlanNext]_(Plan!planVars)
    BY <1>17, PlanStutters DEF SubmitPassed
<1>18. ASSUME NEW i \in InspectionIds, NEW o \in OrderIds,
             SubmitFailed(i, o)
      PROVE  [Plan!PlanNext]_(Plan!planVars)
    BY <1>18, PlanStutters DEF SubmitFailed
<1>19. ASSUME NEW f \in FuelIds, NEW v \in Vehicles,
             NEW odometer \in Odometers,
             RecordFuel(f, v, odometer)
      PROVE  [Plan!PlanNext]_(Plan!planVars)
    BY <1>19, PlanStutters DEF RecordFuel
<1>20. ASSUME NEW c \in Callers,
             AppendAuditAfterwards(c)
      PROVE  [Plan!PlanNext]_(Plan!planVars)
    BY <1>20, PlanStutters DEF AppendAuditAfterwards, tables
<1>21. ASSUME NEW c \in Callers,
             Abandon(c)
      PROVE  [Plan!PlanNext]_(Plan!planVars)
    BY <1>21, PlanStutters DEF Abandon, tables
<1>22. CASE UNCHANGED vars
    BY <1>22, PlanStutters DEF vars, tables
<1>23. QED
    BY <1>1, <1>2, <1>3, <1>4, <1>5, <1>6, <1>7, <1>8, <1>9, <1>10, <1>11,
       <1>12, <1>13, <1>14, <1>15, <1>16, <1>17, <1>18, <1>19, <1>20, <1>21, <1>22
    DEF Next, PlanningNext, DispatchNext, WorkshopNext

\* An observer of the shift and trip tables sees the plan of DayPlan, whatever
\* requests interleave (planning/service.go:93-106, dispatch/service.go:40-232).
THEOREM OperationsImplementDayPlan == Spec => ImplementsDayPlan
<1>1. Init => Plan!PlanInit
    BY DEF Init, Plan!PlanInit, StatusColumn, TripStatuses, Trips, NoShift, NoTrip
<1>2. QED
    BY <1>1, PlanStep, TypeCorrect, StaleWritesRefused, StatusColumnsAgree, PTL
    DEF Spec, ImplementsDayPlan, Plan!PlanSpec

-----------------------------------------------------------------------------
(* The duty limit of a roster.                                               *)

\* A roster is a finite set of shifts within the limit.
RosterWithin(roster) ==
    IsFiniteSet(roster) /\ DutyOf(roster, Window) <= MaximumDuty

\* The limit holds of the rows of every vehicle and date, and they are finite.
RostersWithin ==
    \A v \in Vehicles, s \in Shifts : RosterWithin(HeldBy(v, ServiceDate[s]))

\* A step that takes no roster a shift it did not hold keeps the limit.
LEMMA RostersFrame ==
    ASSUME RostersWithin,
           \A v \in Vehicles, s \in Shifts :
              \/ HeldBy(v, ServiceDate[s])' = HeldBy(v, ServiceDate[s])
              \/ \E u \in Shifts : HeldBy(v, ServiceDate[s])' =
                                      HeldBy(v, ServiceDate[s]) \ {u}
    PROVE  RostersWithin'
<1> SUFFICES ASSUME NEW v \in Vehicles, NEW s \in Shifts
             PROVE  RosterWithin(HeldBy(v, ServiceDate[s])')
    BY DEF RostersWithin, RosterWithin
<1> PICK before : before = HeldBy(v, ServiceDate[s])
    OBVIOUS
<1> PICK after : after = HeldBy(v, ServiceDate[s])'
    OBVIOUS
<1>1. before \in SUBSET Shifts /\ RosterWithin(before)
    BY DEF RostersWithin, HeldBy
<1>2. after = before \/ \E u \in Shifts : after = before \ {u}
    OBVIOUS
<1>3. ASSUME NEW u \in Shifts
      PROVE  RosterWithin(before \ {u})
    <2>1. IsFiniteSet(before) /\ DutyOf(before, Window) <= MaximumDuty
        BY <1>1 DEF RosterWithin
    <2>2. IsFiniteSet(before \ {u}) /\ before \ {u} \in SUBSET Shifts
        BY <1>1, <2>1, FS_RemoveElement
    <2>3. DutyOf(before \ {u}, Window) <= DutyOf(before, Window)
        BY <1>1, <2>1, DutyShrinks, WindowsAreWindows
    <2>4. /\ DutyOf(before \ {u}, Window) \in Nat
          /\ DutyOf(before, Window) \in Nat
        BY <1>1, <2>1, <2>2, DutyAnyFirst, WindowsAreWindows
    <2>5. QED
        BY <2>1, <2>2, <2>3, <2>4, MaximumDutyIsPositive DEF RosterWithin
<1>4. RosterWithin(after)
    BY <1>1, <1>2, <1>3
<1>5. QED
    BY <1>4

\* Steps that leave the shifts alone leave the rosters alone.
LEMMA SameRosters ==
    ASSUME RostersWithin, shift' = shift
    PROVE  RostersWithin'
BY RostersFrame DEF HeldBy

\* AssignShift compares the hours with the limit before it adds a shift, and
\* only a cancellation takes one away.
LEMMA RostersStep ==
    TypeOK /\ VersionsCurrent /\ ScheduledUnassigned /\ RostersWithin /\ [Next]_vars => RostersWithin'
<1> SUFFICES ASSUME TypeOK, VersionsCurrent, ScheduledUnassigned, RostersWithin, [Next]_vars
             PROVE RostersWithin'
    OBVIOUS
<1> USE DEF TypeOK, TablesTyped, RequestsTyped
<1>1. ASSUME NEW c \in Callers, NEW v \in Vehicles, NEW odometer \in Odometers,
             CreateVehicle(c, v, odometer)
      PROVE  RostersWithin'
    BY <1>1, SameRosters DEF CreateVehicle
<1>2. ASSUME NEW s \in Shifts,
             CreateShift(s)
      PROVE  RostersWithin'
    <2>1. \A w \in Vehicles, r \in Shifts :
             HeldBy(w, ServiceDate[r])' = HeldBy(w, ServiceDate[r])
        BY <1>2, NoneIsNoVehicle
        DEF CreateShift, VersionsCurrent, NewShift, NoShift, HeldBy
    <2>2. QED
        BY <2>1, RostersFrame
<1>3. ASSUME NEW v \in Vehicles,
             InspectionFallsDue(v)
      PROVE  RostersWithin'
    BY <1>3, SameRosters DEF InspectionFallsDue, tables
<1>4. ASSUME NEW c \in Callers, NEW s \in Shifts,
             GetShiftToCancel(c, s)
      PROVE  RostersWithin'
    BY <1>4, SameRosters DEF GetShiftToCancel, tables
<1>5. ASSUME NEW c \in Callers,
             CancelShift(c)
      PROVE  RostersWithin'
    <2> DEFINE u == call[c].id
    <2>1. /\ u \in Shifts /\ call[c].seen = shift[u]
          /\ shift' = [shift EXCEPT ![u] = ShiftTo(call[c].seen, "cancelled")]
        BY <1>5, CallTypes DEF CancelShift, SameVersion, VersionsCurrent
    <2> HIDE DEF u
    <2>2. \A w \in Vehicles, r \in Shifts :
             HeldBy(w, ServiceDate[r])' = HeldBy(w, ServiceDate[r]) \ {u}
        BY <2>1 DEF ShiftTo, ShiftRow, HeldBy
    <2>3. QED
        BY <2>1, <2>2, RostersFrame
<1>6. ASSUME NEW s \in Shifts, NEW v \in Vehicles,
             AssignShift(s, v)
      PROVE  RostersWithin'
    <2>1. /\ shift[s].status = "scheduled" /\ CanAssign(v, s)
          /\ shift' = [shift EXCEPT ![s] = Assign(@, v)]
        BY <1>6 DEF AssignShift, CheckAssignment
    <2> SUFFICES ASSUME NEW w \in Vehicles, NEW r \in Shifts
                 PROVE  RosterWithin(HeldBy(w, ServiceDate[r])')
        BY DEF RostersWithin, RosterWithin
    <2> PICK after : after = HeldBy(w, ServiceDate[r])'
        OBVIOUS
    <2>2. CASE w = v /\ ServiceDate[r] = ServiceDate[s]
        <3> PICK held : held = HeldBy(v, ServiceDate[s])
            OBVIOUS
        <3>1. after = held \cup {s}
            BY <2>1, <2>2 DEF Assign, HeldBy
        <3>2. IsFiniteSet(held)
            BY DEF RostersWithin, RosterWithin
        <3>3. IsFiniteSet(held \cup {s})
            BY <3>2, FS_AddElement
        <3>4. DutyOf(held \cup {s}, Window) <= MaximumDuty
            BY <2>1 DEF CanAssign
        <3>5. RosterWithin(after)
            BY <3>1, <3>3, <3>4 DEF RosterWithin
        <3>6. QED
            BY <3>5
    <2>3. CASE ~(w = v /\ ServiceDate[r] = ServiceDate[s])
        <3>1. after = HeldBy(w, ServiceDate[r])
            BY <2>1, <2>3, NoneIsNoVehicle
            DEF Assign, HeldBy, ScheduledUnassigned
        <3>2. RosterWithin(after)
            BY <3>1 DEF RostersWithin
        <3>3. QED
            BY <3>2
    <2>4. QED
        BY <2>2, <2>3
<1>7. ASSUME NEW v \in Vehicles, NEW k \in Keys,
             ReplayTrip(v, k)
      PROVE  RostersWithin'
    BY <1>7, SameRosters DEF ReplayTrip, tables
<1>8. ASSUME NEW c \in Callers, NEW v \in Vehicles, NEW s \in Shifts,
             NEW k \in Keys,
             FindTripByKey(c, v, s, k)
      PROVE  RostersWithin'
    BY <1>8, SameRosters DEF FindTripByKey, tables
<1>9. ASSUME NEW c \in Callers, NEW t \in TripIds,
             NEW odometer \in Odometers, NEW load \in Loads,
             StartTrip(c, t, odometer, load)
      PROVE  RostersWithin'
    <2> DEFINE u == call[c].shift
    <2>1. /\ u \in Shifts /\ shift[u].status = "assigned"
          /\ shift' = [shift EXCEPT ![u] = ShiftTo(@, "in_progress")]
        BY <1>9, CallTypes DEF StartTrip, CheckStart
    <2> HIDE DEF u
    <2>2. \A w \in Vehicles, r \in Shifts :
             HeldBy(w, ServiceDate[r])' = HeldBy(w, ServiceDate[r])
        BY <2>1 DEF ShiftTo, ShiftRow, HeldBy
    <2>3. QED
        BY <2>2, RostersFrame
<1>10. ASSUME NEW t \in TripIds, NEW odometer \in Odometers,
             ReturnTrip(t, odometer)
      PROVE  RostersWithin'
    <2> DEFINE u == trip[t].shift
    <2>1. /\ u \in Shifts /\ shift[u].status = "in_progress"
          /\ shift' = [shift EXCEPT ![u] = ShiftTo(@, "completed")]
        BY <1>10 DEF ReturnTrip, ForeignKeys, Trips
    <2> HIDE DEF u
    <2>2. \A w \in Vehicles, r \in Shifts :
             HeldBy(w, ServiceDate[r])' = HeldBy(w, ServiceDate[r])
        BY <2>1 DEF ShiftTo, ShiftRow, HeldBy
    <2>3. QED
        BY <2>2, RostersFrame
<1>11. ASSUME NEW n \in IncidentIds, NEW t \in TripIds,
             ReportIncident(n, t)
      PROVE  RostersWithin'
    BY <1>11, SameRosters DEF ReportIncident
<1>12. ASSUME NEW o \in OrderIds, NEW v \in Vehicles,
             OpenMaintenance(o, v)
      PROVE  RostersWithin'
    BY <1>12, SameRosters DEF OpenMaintenance
<1>13. ASSUME NEW c \in Callers, NEW o \in OrderIds,
             GetOrderToStart(c, o)
      PROVE  RostersWithin'
    BY <1>13, SameRosters DEF GetOrderToStart, tables
<1>14. ASSUME NEW c \in Callers,
             StartMaintenance(c)
      PROVE  RostersWithin'
    BY <1>14, SameRosters DEF StartMaintenance
<1>15. ASSUME NEW o \in OrderIds,
             CompleteMaintenance(o)
      PROVE  RostersWithin'
    BY <1>15, SameRosters DEF CompleteMaintenance
<1>16. ASSUME NEW i \in InspectionIds, NEW v \in Vehicles,
             NEW at \in InspectionTimes,
             CreateInspection(i, v, at)
      PROVE  RostersWithin'
    BY <1>16, SameRosters DEF CreateInspection
<1>17. ASSUME NEW i \in InspectionIds,
             SubmitPassed(i)
      PROVE  RostersWithin'
    BY <1>17, SameRosters DEF SubmitPassed
<1>18. ASSUME NEW i \in InspectionIds, NEW o \in OrderIds,
             SubmitFailed(i, o)
      PROVE  RostersWithin'
    BY <1>18, SameRosters DEF SubmitFailed
<1>19. ASSUME NEW f \in FuelIds, NEW v \in Vehicles,
             NEW odometer \in Odometers,
             RecordFuel(f, v, odometer)
      PROVE  RostersWithin'
    BY <1>19, SameRosters DEF RecordFuel
<1>20. ASSUME NEW c \in Callers,
             AppendAuditAfterwards(c)
      PROVE  RostersWithin'
    BY <1>20, SameRosters DEF AppendAuditAfterwards, tables
<1>21. ASSUME NEW c \in Callers,
             Abandon(c)
      PROVE  RostersWithin'
    BY <1>21, SameRosters DEF Abandon, tables
<1>22. CASE UNCHANGED vars
    BY <1>22, SameRosters DEF vars, tables
<1>23. QED
    BY <1>1, <1>2, <1>3, <1>4, <1>5, <1>6, <1>7, <1>8, <1>9, <1>10, <1>11,
       <1>12, <1>13, <1>14, <1>15, <1>16, <1>17, <1>18, <1>19, <1>20, <1>21, <1>22
    DEF Next, PlanningNext, DispatchNext, WorkshopNext

\* No vehicle is ever given more hours on a date than the limit, whatever order
\* the assignments, cancellations and trips come in
\* (scheduling/checker.go:18-53, domain/schedule/schedule.go:81-117).
THEOREM DutyWithinLimit == Spec => []DutyLimited
<1>1. Init => RostersWithin
    <2> SUFFICES ASSUME Init PROVE RostersWithin
        OBVIOUS
    <2>1. \A v \in Vehicles, s \in Shifts : HeldBy(v, ServiceDate[s]) = {}
        BY NoneIsNoVehicle DEF Init, HeldBy, NoShift
    <2>2. RosterWithin({})
        BY FS_EmptySet, DutyOfNone, MaximumDutyIsPositive DEF RosterWithin
    <2>3. QED
        BY <2>1, <2>2 DEF RostersWithin
<1>2. RostersWithin => DutyLimited
    BY DEF RostersWithin, RosterWithin, DutyLimited
<1>3. Init => ScheduledUnassigned
    BY DEF Init, ScheduledUnassigned, NoShift
<1>4. QED
    BY <1>1, <1>2, <1>3, RostersStep, LifecycleStep, TypeCorrect,
       StaleWritesRefused, PTL DEF Spec

-----------------------------------------------------------------------------
(* Batch assignment: every step of a batch is a step of the core or leaves   *)
(* its tables alone, so what the core keeps, it keeps beside a batch too.    *)

Outcomes == {"absent", "waiting", "running", "success", "error"}

\* The part of the type of a batch that the proofs need; before there is a
\* batch no goroutine runs.
BatchTyped ==
    /\ batch \in Batches \cup {None}
    /\ outcome \in [Slots -> Outcomes]
    /\ batch = None => \A i \in Slots : outcome[i] = "absent"

\* Before a batch no permit is taken.
LEMMA BatchTypedInit == BatchInit => BatchTyped
BY DEF BatchInit, BatchTyped, Outcomes

\* Every step keeps the slots of a batch well-typed.
LEMMA BatchTypedStep ==
    BatchTyped /\ [BatchNext]_<<vars, batchVars>> => BatchTyped'
<1> SUFFICES ASSUME BatchTyped, [BatchNext]_<<vars, batchVars>>
             PROVE  BatchTyped'
    OBVIOUS
<1> USE DEF BatchTyped, Outcomes
<1>1. CASE UNCHANGED batchVars
    BY <1>1 DEF batchVars
<1>2. CASE BatchArrives
    BY <1>2, NoneIsNoBatch DEF BatchArrives
<1>3. CASE CancelBatch
    BY <1>3 DEF CancelBatch
<1>4. ASSUME NEW i \in Slots, Acquire(i)
      PROVE  BatchTyped'
    BY <1>4 DEF Acquire
<1>5. ASSUME NEW i \in Slots, GiveUp(i)
      PROVE  BatchTyped'
    BY <1>5 DEF GiveUp
<1>6. ASSUME NEW i \in Slots, Succeed(i)
      PROVE  BatchTyped'
    BY <1>6 DEF Succeed
<1>7. ASSUME NEW i \in Slots, Fail(i)
      PROVE  BatchTyped'
    BY <1>7 DEF Fail
<1>8. QED
    BY <1>1, <1>2, <1>3, <1>4, <1>5, <1>6, <1>7 DEF BatchNext

\* A goroutine that runs has an assignment.
LEMMA RunningAssignment ==
    ASSUME BatchTyped, NEW i \in Slots, outcome[i] # "absent"
    PROVE  /\ batch \in Batches
           /\ batch[i].shift \in Shifts /\ batch[i].vehicle \in Vehicles
<1>1. batch \in Batches
    BY DEF BatchTyped
<1>2. QED
    BY <1>1, BatchesAreBatches

\* Seen from the tables, a batch only assigns shifts.
LEMMA BatchStepsAreSteps ==
    BatchTyped /\ [BatchNext]_<<vars, batchVars>> => [Next]_vars
<1> SUFFICES ASSUME BatchTyped, [BatchNext]_<<vars, batchVars>>
             PROVE  [Next]_vars
    OBVIOUS
<1>1. ASSUME NEW i \in Slots, Succeed(i)
      PROVE  Next
    <2>1. batch[i].shift \in Shifts /\ batch[i].vehicle \in Vehicles
        BY <1>1, RunningAssignment DEF Succeed
    <2>2. AssignShift(batch[i].shift, batch[i].vehicle)
        BY <1>1 DEF Succeed
    <2>3. DispatchNext
        BY <2>1, <2>2 DEF DispatchNext
    <2>4. QED
        BY <2>3 DEF Next
<1>2. QED
    BY <1>1 DEF BatchNext, BatchArrives, CancelBatch, Acquire, GiveUp, Fail

\* The rows a batch starts with satisfy what the core keeps.
LEMMA BatchInitCore ==
    BatchInit => /\ TypeOK /\ VersionsCurrent /\ ScheduledUnassigned
                 /\ RosterCompatible /\ RostersWithin
<1> SUFFICES ASSUME BatchInit
             PROVE  /\ TypeOK /\ VersionsCurrent /\ ScheduledUnassigned
                    /\ RosterCompatible /\ RostersWithin
    OBVIOUS
<1>1. TablesTyped
    BY RowTypes DEF BatchInit, TablesTyped
<1>2. ForeignKeys
    BY DEF BatchInit, ForeignKeys, Trips, NewShift, NoTrip, NoOrder, NoInspection
<1>3. RequestsTyped
    BY DEF BatchInit, RequestsTyped, Calls, AuditRows, AuditActions, AuditIds
<1>4. VersionsCurrent /\ ScheduledUnassigned
    BY DEF BatchInit, VersionsCurrent, ScheduledUnassigned, Idle, NewShift,
           NoOrder
<1>5. \A v \in Vehicles : \A d : HeldBy(v, d) = {}
    BY NoneIsNoVehicle DEF BatchInit, HeldBy, NewShift
<1>6. RosterCompatible
    BY <1>5 DEF RosterCompatible
<1>7. RosterWithin({})
    BY FS_EmptySet, DutyOfNone, MaximumDutyIsPositive DEF RosterWithin
<1>8. RostersWithin
    BY <1>5, <1>7 DEF RostersWithin
<1>9. QED
    BY <1>1, <1>2, <1>3, <1>4, <1>6, <1>8 DEF TypeOK

\* Beside a batch the invariants of the operations hold as ever.
LEMMA BatchKeepsCore ==
    BatchSpec => [](/\ BatchTyped /\ TypeOK /\ VersionsCurrent
                    /\ ScheduledUnassigned)
<1>1. BatchTyped /\ TypeOK /\ VersionsCurrent /\ ScheduledUnassigned
      /\ [BatchNext]_<<vars, batchVars>> =>
         (BatchTyped /\ TypeOK /\ VersionsCurrent /\ ScheduledUnassigned)'
    BY BatchTypedStep, BatchStepsAreSteps, TablesStep, ForeignKeysStep,
       RequestsStep, VersionsStep, LifecycleStep DEF TypeOK
<1>2. QED
    BY <1>1, BatchInitCore, BatchTypedInit, PTL DEF BatchSpec

\* Each permit in the channel belongs to a goroutine that runs.
LEMMA PermitsStep ==
    BatchTyped /\ PermitsReturned /\ [BatchNext]_<<vars, batchVars>> =>
        PermitsReturned'
<1> SUFFICES ASSUME BatchTyped, PermitsReturned,
                    [BatchNext]_<<vars, batchVars>>
             PROVE  PermitsReturned'
    OBVIOUS
<1> DEFINE Running == {i \in Slots : outcome[i] = "running"}
<1>1. IsFiniteSet(Running) /\ Cardinality(Running) \in Nat
    BY SlotsAreFinite, FS_Subset, FS_CardinalityType
<1>2. permits = Cardinality(Running)
    BY DEF PermitsReturned
<1>3. PermitsReturned' <=> permits' = Cardinality(Running')
    BY DEF PermitsReturned
<1>4. ASSUME Running' = Running, permits' = permits
      PROVE  PermitsReturned'
    BY <1>2, <1>3, <1>4
<1>5. CASE UNCHANGED batchVars
    BY <1>4, <1>5 DEF batchVars
<1>6. CASE BatchArrives
    <2>1. Running = {} /\ Running' = {}
        BY <1>6 DEF BatchArrives, BatchTyped
    <2>2. QED
        BY <1>4, <1>6, <2>1 DEF BatchArrives
<1>7. CASE CancelBatch
    BY <1>4, <1>7 DEF CancelBatch
<1>8. ASSUME NEW i \in Slots, Acquire(i)
      PROVE  PermitsReturned'
    <2>1. Running' = Running \cup {i} /\ i \notin Running
        BY <1>8 DEF Acquire, BatchTyped
    <2>2. permits' = permits + 1
        BY <1>8 DEF Acquire
    <2> HIDE DEF Running
    <2>3. Cardinality(Running \cup {i}) = Cardinality(Running) + 1
        BY <1>1, <2>1, FS_AddElement
    <2>4. QED
        BY <1>2, <1>3, <2>1, <2>2, <2>3
<1>9. ASSUME NEW i \in Slots, GiveUp(i)
      PROVE  PermitsReturned'
    <2>1. Running' = Running
        BY <1>9 DEF GiveUp, BatchTyped
    <2>2. QED
        BY <1>4, <1>9, <2>1 DEF GiveUp
<1>10. ASSUME NEW i \in Slots, Succeed(i) \/ Fail(i)
       PROVE  PermitsReturned'
    <2>1. Running' = Running \ {i} /\ i \in Running
        BY <1>10 DEF Succeed, Fail, BatchTyped
    <2>2. permits' = permits - 1
        BY <1>10 DEF Succeed, Fail, PermitsAfterError
    <2> HIDE DEF Running
    <2>3. Cardinality(Running \ {i}) = Cardinality(Running) - 1
        BY <1>1, <2>1, FS_RemoveElement
    <2>4. QED
        BY <1>2, <1>3, <2>1, <2>2, <2>3
<1>11. QED
    BY <1>5, <1>6, <1>7, <1>8, <1>9, <1>10 DEF BatchNext

\* A success stays true: ShiftMoves keeps the vehicle of the shift, and a shift
\* that has one is not scheduled, so no other goroutine can assign it.
LEMMA ResultsStep ==
    BatchTyped /\ TypeOK /\ VersionsCurrent /\ ScheduledUnassigned
    /\ ResultsTrue /\ [BatchNext]_<<vars, batchVars>> => ResultsTrue'
<1> SUFFICES ASSUME BatchTyped, TypeOK, VersionsCurrent, ScheduledUnassigned,
                    ResultsTrue, [BatchNext]_<<vars, batchVars>>
             PROVE  ResultsTrue'
    OBVIOUS
<1>1. ShiftMoves
    BY BatchStepsAreSteps, LifecycleStep
<1>2. ASSUME NEW i \in Slots, outcome[i] = "success"
      PROVE  shift'[batch[i].shift].vehicle = batch[i].vehicle
    <2>1. batch[i].shift \in Shifts /\ batch[i].vehicle # None
        BY <1>2, RunningAssignment, NoneIsNoVehicle
    <2>2. shift[batch[i].shift].vehicle = batch[i].vehicle
        BY <1>2 DEF ResultsTrue
    <2>3. QED
        BY <1>1, <2>1, <2>2 DEF ShiftMoves
<1>3. ASSUME batch' = batch,
             \A i \in Slots : outcome'[i] = "success" => outcome[i] = "success"
      PROVE  ResultsTrue'
    BY <1>2, <1>3 DEF ResultsTrue
<1>4. CASE UNCHANGED batchVars
    BY <1>3, <1>4 DEF batchVars
<1>5. CASE BatchArrives
    BY <1>5 DEF BatchArrives, ResultsTrue
<1>6. CASE CancelBatch
    BY <1>3, <1>6 DEF CancelBatch
<1>7. ASSUME NEW i \in Slots, Acquire(i) \/ GiveUp(i) \/ Fail(i)
      PROVE  ResultsTrue'
    BY <1>3, <1>7 DEF Acquire, GiveUp, Fail, BatchTyped
<1>8. ASSUME NEW i \in Slots, Succeed(i)
      PROVE  ResultsTrue'
    <2> DEFINE s == batch[i].shift
               v == batch[i].vehicle
    <2>1. s \in Shifts /\ v \in Vehicles
        BY <1>8, RunningAssignment DEF Succeed
    <2>2. AssignShift(s, v)
        BY <1>8 DEF Succeed
    <2>3. shift[s].vehicle = None
        BY <2>1, <2>2 DEF AssignShift, CheckAssignment, ScheduledUnassigned
    <2>4. shift'[s].vehicle = v
        BY <2>1, <2>2 DEF AssignShift, Assign, TypeOK, TablesTyped
    <2>5. /\ batch' = batch
          /\ \A j \in Slots : j # i => outcome'[j] = outcome[j]
        BY <1>8 DEF Succeed, BatchTyped
    <2>6. ASSUME NEW j \in Slots, outcome[j] = "success"
          PROVE  batch[j].shift # s
        <3>1. shift[batch[j].shift].vehicle # None
            BY <2>6, RunningAssignment, NoneIsNoVehicle DEF ResultsTrue
        <3>2. QED
            BY <2>3, <3>1
    <2> HIDE DEF s, v
    <2>7. \A j \in Slots : outcome'[j] = "success" =>
             shift'[batch'[j].shift].vehicle = batch'[j].vehicle
        BY <1>2, <2>4, <2>5 DEF s, v
    <2>8. ASSUME NEW j \in Slots, NEW k \in Slots, j # k,
                 outcome'[j] = "success", outcome'[k] = "success"
          PROVE  batch'[j].shift # batch'[k].shift
        <3>1. CASE j = i
            BY <2>5, <2>6, <2>8, <3>1 DEF s
        <3>2. CASE k = i
            BY <2>5, <2>6, <2>8, <3>2 DEF s
        <3>3. CASE j # i /\ k # i
            BY <2>5, <2>8, <3>3 DEF ResultsTrue
        <3>4. QED
            BY <3>1, <3>2, <3>3
    <2>9. QED
        BY <2>7, <2>8 DEF ResultsTrue
<1>9. QED
    BY <1>4, <1>5, <1>6, <1>7, <1>8 DEF BatchNext

\* Every permit taken is held by a goroutine that runs, so none is lost and the
\* goroutines that wait get theirs (batch/service.go:31-53).
THEOREM NoPermitLost == BatchSpec => []PermitsReturned
<1>1. BatchInit => PermitsReturned
    <2> SUFFICES ASSUME BatchInit PROVE PermitsReturned
        OBVIOUS
    <2>1. {i \in Slots : outcome[i] = "running"} = {} /\ permits = 0
        BY DEF BatchInit
    <2>2. QED
        BY <2>1, FS_EmptySet DEF PermitsReturned
<1>2. QED
    BY <1>1, BatchTypedInit, BatchTypedStep, PermitsStep, PTL DEF BatchSpec

\* What the results of a batch say stays true of the shifts, whatever runs
\* beside it (batch/service.go:31-53, dispatch/service.go:48-94).
THEOREM BatchResultsHold == BatchSpec => []ResultsTrue
<1>1. BatchInit => ResultsTrue
    BY DEF BatchInit, ResultsTrue
<1>2. QED
    BY <1>1, BatchKeepsCore, ResultsStep, PTL DEF BatchSpec

\* The goroutines of a batch together give no vehicle overlapping shifts or more
\* hours than the limit, although each checks the roster on its own.
THEOREM BatchRosterSafe == BatchSpec => [](RosterCompatible /\ DutyLimited)
<1>1. BatchTyped /\ TypeOK /\ VersionsCurrent /\ ScheduledUnassigned
      /\ RosterCompatible /\ RostersWithin /\ [BatchNext]_<<vars, batchVars>> =>
         RosterCompatible' /\ RostersWithin'
    BY BatchStepsAreSteps, RosterStep, RostersStep
<1>2. RostersWithin => DutyLimited
    BY DEF RostersWithin, RosterWithin, DutyLimited
<1>3. QED
    BY <1>1, <1>2, BatchInitCore, BatchKeepsCore, PTL DEF BatchSpec

=============================================================================
