------------------------------ MODULE Operations ------------------------------
(***************************************************************************)
(* The operational core: vehicles, shifts, trips, maintenance orders,       *)
(* inspection headers, fuel logs and incidents, with the outbox and audit   *)
(* rows their handlers write.                                               *)
(*                                                                          *)
(* The store opens SQLite with one connection (storage/sqlite/db.go:49), so *)
(* a WithTx callback runs without any other statement of the process in     *)
(* between: it is ONE action here, and a callback that returns an error     *)
(* rolls back and is no step at all.  Handlers that do not use WithTx are   *)
(* modelled statement by statement: a caller in Callers remembers what it   *)
(* has read, and any other action may come before its next statement.       *)
(***************************************************************************)
EXTENDS FleetDomain

CONSTANTS
    Callers,            \* requests that can be between two statements
    CapacityKg,         \* capacity of each vehicle, fixed when it is created
    RequiredKg,         \* capacity the route of each shift requires
    Route,              \* route of each shift
    ServiceDate,        \* service date of each shift
    Window,             \* start and end of each shift
    MaximumDuty, MinimumBreak,
    Odometers,          \* BOUND: odometer readings clients may send
    Loads,              \* loads clients may send
    InspectionTimes,    \* BOUND: inspected_at values clients may send
    Validity            \* how long an inspection is valid

ASSUME WindowsAreWindows == \A s \in Shifts : IsWindow(Window[s])
ASSUME MaximumDutyIsPositive == MaximumDuty \in Nat \ {0}
ASSUME OdometersAreNat == Odometers \subseteq Nat
ASSUME InspectionTimesAreNat == InspectionTimes \subseteq Nat

VARIABLES
    vehicle, shift, trip, order, inspection, fuel, incident,
    due,        \* vehicles whose inspection_due_at has passed
    call,       \* what each caller has read and will write next
    answers,    \* successful answers of POST /trips/start
    jobs,       \* outbox rows, named by the entity they carry
    audit       \* audit rows

tables == <<vehicle, shift, trip, order, inspection, fuel, incident>>
vars == <<tables, due, call, answers, jobs, audit>>

-----------------------------------------------------------------------------
(* Calls in flight                                                          *)

Idle == [op |-> "idle"]
StartTripCalls == [op : {"start_trip"}, vehicle : Vehicles, shift : Shifts,
                   key : Keys]
CancelShiftCalls == [op : {"cancel_shift"}, id : Shifts,
                     seen : {row \in ShiftRow : MayCancel(row)}]
StartOrderCalls == [op : {"start_order"}, id : OrderIds,
                    seen : {row \in OrderRow : /\ row.status = "open"
                                               /\ row.vehicle \in Vehicles}]

AuditIds == Vehicles \cup Shifts \cup TripIds \cup OrderIds
            \cup InspectionIds \cup FuelIds \cup IncidentIds
AuditActions == {"vehicle.create", "shift.assign", "shift.cancel",
                 "trip.start", "trip.return", "incident.report",
                 "maintenance.open", "maintenance.start",
                 "maintenance.complete", "inspection.create",
                 "inspection.submit", "fuel.record"}
AuditRows == [action : AuditActions, id : AuditIds]
AuditCalls == [op : {"audit"}, row : AuditRows]

Calls == {Idle} \cup StartTripCalls \cup CancelShiftCalls
         \cup StartOrderCalls \cup AuditCalls

Topics == {"trip.started", "trip.completed", "incident.reported",
           "inspection.submitted", "fuel.recorded"}
JobRows == [topic : Topics,
            id : TripIds \cup InspectionIds \cup FuelIds \cup IncidentIds]

Answers == [vehicle : Vehicles, key : Keys, trip : TripIds]

AuditCall(action, id) == [op |-> "audit",
                          row |-> [action |-> action, id |-> id]]
AppendAudit(action, id) == audit' = audit \cup {[action |-> action, id |-> id]}
\* Mutated form: an entity that has a job gets no other.
EnqueueOnce(topic, id) ==
    jobs' = jobs \cup {j \in {[topic |-> topic, id |-> id]} :
                         \A other \in jobs : other.id # id}
Enqueue(topic, id) == jobs' = jobs \cup {[topic |-> topic, id |-> id]}

-----------------------------------------------------------------------------
(* Queries and policy checks                                                *)

Trips == {t \in TripIds : trip[t].status # "absent"}
ActiveTrips == {t \in TripIds : trip[t].status = "active"}
CompletedTrips == {t \in TripIds : trip[t].status = "completed"}
ActiveOrders(v) ==
    {o \in OrderIds : IsActiveOrder(order[o]) /\ order[o].vehicle = v}
TripsByKey(v, k) == {t \in Trips : trip[t].vehicle = v /\ trip[t].key = k}

CanDispatch(v) == vehicle[v].status = "available" /\ v \notin due

\* ORDER BY inspected_at DESC LIMIT 1; rows with equal times come in any order.
LatestInspections(v) ==
    LET mine == {i \in InspectionIds : inspection[i].vehicle = v}
    IN  {i \in mine : \A j \in mine : inspection[j].at <= inspection[i].at}

\* The windows the vehicle already holds on the date, cancelled ones aside.
HeldBy(v, date) ==
    {s \in Shifts : /\ shift[s].vehicle = v
                    /\ shift[s].status # "cancelled"
                    /\ ServiceDate[s] = date}

\* Mutated forms: the duty limit forgotten, the windows not compared.
CanAssignNoDutyLimit(v, s) ==
    \A a, b \in HeldBy(v, ServiceDate[s]) \cup {s} :
        a # b => Compatible(Window[a], Window[b], MinimumBreak)
CanAssignDutyOnly(v, s) ==
    DutyOf(HeldBy(v, ServiceDate[s]) \cup {s}, Window) <= MaximumDuty

\* What Checker.CanAssign decides.  The code folds Roster.Add over the pages
\* of ListShifts; module Scheduling checks that the fold decides exactly this,
\* whatever the order of the rows.
CanAssign(v, s) ==
    LET roster == HeldBy(v, ServiceDate[s]) \cup {s}
    IN  /\ \A a, b \in roster :
              a # b => Compatible(Window[a], Window[b], MinimumBreak)
        /\ DutyOf(roster, Window) <= MaximumDuty

\* Mutated form: a shift assigned before is assigned again.
CheckAssignmentAgain(v, s) ==
    /\ shift[s].status \in {"scheduled", "assigned"}
    /\ CanDispatch(v)
    /\ ActiveOrders(v) = {}
CheckAssignment(v, s) ==
    /\ shift[s].status = "scheduled"
    /\ CanDispatch(v)
    /\ ActiveOrders(v) = {}
    /\ CapacityKg[v] >= RequiredKg[s]
    /\ \/ LatestInspections(v) = {}
       \/ \E i \in LatestInspections(v) :
             /\ inspection[i].status = "passed"
             /\ Window[s].start < inspection[i].at + Validity

\* Mutated forms: the maintenance lookup ignored, the odometer not compared.
CheckStartNoMaintenance(v, s, odometer, load) ==
    /\ shift[s].status = "assigned" /\ shift[s].vehicle = v
    /\ CanDispatch(v)
    /\ odometer >= vehicle[v].odometer
CheckStartNoOdometer(v, s, odometer, load) ==
    /\ shift[s].status = "assigned" /\ shift[s].vehicle = v
    /\ CanDispatch(v)
    /\ ActiveOrders(v) = {}

CheckStart(v, s, odometer, load) ==
    /\ shift[s].status = "assigned" /\ shift[s].vehicle = v
    /\ CanDispatch(v)
    /\ ActiveOrders(v) = {}
    /\ CapacityKg[v] >= RequiredKg[s]
    /\ odometer >= vehicle[v].odometer
    /\ load \in 0..CapacityKg[v]

\* Mutated form: only UNIQUE(shift_id), no UNIQUE(vehicle_id, idempotency_key).
TripInsertableNoKey(v, s, k) == \A t \in Trips : trip[t].shift # s

\* The UNIQUE constraints of the trips table; idempotency_keys has the primary
\* key (scope, vehicle_id:key) and is written by the same transaction.
TripInsertable(v, s, k) ==
    /\ \A t \in Trips : trip[t].shift # s
    /\ TripsByKey(v, k) = {}

\* Mutated form: UPDATE ... WHERE id = ? without the version.
SameVersionIgnored(seen, row) == TRUE
\* UPDATE ... WHERE id = ? AND version = ?
SameVersion(seen, row) == seen.version = row.version

MayRefuel(v, odometer) ==
    /\ vehicle[v].status \in {"available", "maintenance"}
    /\ odometer >= vehicle[v].odometer

-----------------------------------------------------------------------------
Init ==
    /\ vehicle = [v \in Vehicles |-> NoVehicle]
    /\ shift = [s \in Shifts |-> NoShift]
    /\ trip = [t \in TripIds |-> NoTrip]
    /\ order = [o \in OrderIds |-> NoOrder]
    /\ inspection = [i \in InspectionIds |-> NoInspection]
    /\ fuel = [f \in FuelIds |-> NoFuel]
    /\ incident = [n \in IncidentIds |-> NoIncident]
    /\ due = {}
    /\ call = [c \in Callers |-> Idle]
    /\ answers = {}
    /\ jobs = {}
    /\ audit = {}

-----------------------------------------------------------------------------
(* Creation of vehicles and shifts: no transaction.  The audit row of a new *)
(* vehicle is a statement of its own; a new shift is not audited.           *)

CreateVehicle(c, v, odometer) ==
    /\ call[c] = Idle
    /\ vehicle[v].status = "absent"
    /\ vehicle' = [vehicle EXCEPT ![v] = NewVehicle(odometer)]
    /\ call' = [call EXCEPT ![c] = AuditCall("vehicle.create", v)]
    /\ UNCHANGED <<shift, trip, order, inspection, fuel, incident, due,
                   answers, jobs, audit>>

\* UNIQUE(route_id, service_date) counts cancelled shifts too.
CreateShift(s) ==
    /\ shift[s].status = "absent"
    /\ \A u \in Shifts : shift[u].status # "absent" =>
          ~(Route[u] = Route[s] /\ ServiceDate[u] = ServiceDate[s])
    /\ shift' = [shift EXCEPT ![s] = NewShift]
    /\ UNCHANGED <<vehicle, trip, order, inspection, fuel, incident, due,
                   call, answers, jobs, audit>>

\* Time passes: inspection_due_at is compared with the clock on every
\* dispatch, and no operation moves it.
InspectionFallsDue(v) ==
    /\ vehicle[v].status # "absent"
    /\ v \notin due
    /\ due' = due \cup {v}
    /\ UNCHANGED <<tables, call, answers, jobs, audit>>

-----------------------------------------------------------------------------
(* Dispatch: src/internal/service/dispatch/service.go                       *)

AssignShift(s, v) ==
    /\ CanAssign(v, s)
    /\ CheckAssignment(v, s)
    /\ shift' = [shift EXCEPT ![s] = Assign(@, v)]
    /\ AppendAudit("shift.assign", s)
    /\ UNCHANGED <<vehicle, trip, order, inspection, fuel, incident, due,
                   call, answers, jobs>>

\* The look-up of the idempotency key runs before the transaction: a hit is
\* answered with the trip found, whatever shift the request names ...
ReplayTrip(v, k) ==
    /\ \E t \in TripsByKey(v, k) :
          answers' = answers \cup {[vehicle |-> v, key |-> k, trip |-> t]}
    /\ UNCHANGED <<tables, due, call, jobs, audit>>

\* ... and a miss goes on to the transaction, later.
FindTripByKey(c, v, s, k) ==
    /\ call[c] = Idle
    /\ TripsByKey(v, k) = {}
    /\ call' = [call EXCEPT ![c] = [op |-> "start_trip", vehicle |-> v,
                                    shift |-> s, key |-> k]]
    /\ UNCHANGED <<tables, due, answers, jobs, audit>>

\* Whether the driver may operate (CanOperate) is left open: a start that fails it
\* is no step, so whatever the driver rows say is covered.
StartTrip(c, t, odometer, load) ==
    /\ call[c].op = "start_trip"
    /\ trip[t].status = "absent"
    /\ LET v == call[c].vehicle
           s == call[c].shift
           k == call[c].key
       IN  /\ CheckStart(v, s, odometer, load)
           /\ TripInsertable(v, s, k)
           /\ vehicle' = [vehicle EXCEPT ![v] = StartDispatch(@)]
           /\ shift' = [shift EXCEPT ![s] = ShiftTo(@, "in_progress")]
           /\ trip' = [trip EXCEPT ![t] = NewTrip(v, s, k, odometer)]
           /\ answers' = answers \cup {[vehicle |-> v, key |-> k, trip |-> t]}
    /\ Enqueue("trip.started", t)
    /\ AppendAudit("trip.start", t)
    /\ call' = [call EXCEPT ![c] = Idle]
    /\ UNCHANGED <<order, inspection, fuel, incident, due>>

ReturnTrip(t, odometer) ==
    LET v == trip[t].vehicle
        s == trip[t].shift
    IN  /\ trip[t].status = "active"
        /\ odometer >= trip[t].start
        /\ vehicle[v].status = "on_duty"
        /\ odometer >= vehicle[v].odometer
        /\ shift[s].status = "in_progress"
        /\ trip' = [trip EXCEPT ![t] = CompleteTrip(@, odometer)]
        /\ vehicle' = [vehicle EXCEPT ![v] = FinishReturn(@, odometer)]
        /\ shift' = [shift EXCEPT ![s] = ShiftTo(@, "completed")]
        /\ Enqueue("trip.completed", t)
        /\ AppendAudit("trip.return", t)
        /\ UNCHANGED <<order, inspection, fuel, incident, due, call, answers>>

ReportIncident(n, t) ==
    /\ incident[n] = NoIncident
    /\ trip[t].status \in {"active", "completed"}
    /\ incident' = [incident EXCEPT ![n] =
                      [trip |-> t, vehicle |-> trip[t].vehicle]]
    /\ Enqueue("incident.reported", n)
    /\ AppendAudit("incident.report", n)
    /\ UNCHANGED <<vehicle, shift, trip, order, inspection, fuel, due, call,
                   answers>>

-----------------------------------------------------------------------------
(* Planning.CancelShift: read, write under the version read, audit.  The    *)
(* planning service offers it; no route of httpapi calls it yet.            *)

GetShiftToCancel(c, s) ==
    /\ call[c] = Idle
    /\ MayCancel(shift[s])
    /\ call' = [call EXCEPT ![c] = [op |-> "cancel_shift", id |-> s,
                                    seen |-> shift[s]]]
    /\ UNCHANGED <<tables, due, answers, jobs, audit>>

CancelShift(c) ==
    /\ call[c].op = "cancel_shift"
    /\ LET s == call[c].id
       IN  /\ SameVersion(call[c].seen, shift[s])
           /\ shift' = [shift EXCEPT ![s] =
                          ShiftTo(call[c].seen, "cancelled")]
           /\ call' = [call EXCEPT ![c] = AuditCall("shift.cancel", s)]
    /\ UNCHANGED <<vehicle, trip, order, inspection, fuel, incident, due,
                   answers, jobs, audit>>

-----------------------------------------------------------------------------
(* Maintenance: src/internal/service/maintenance/service.go                 *)

OpenMaintenance(o, v) ==
    /\ order[o].status = "absent"
    /\ ActiveOrders(v) = {}
    /\ MayMark(vehicle[v])
    /\ vehicle' = [vehicle EXCEPT ![v] = MarkMaintenance(@)]
    /\ order' = [order EXCEPT ![o] = NewOrder(v)]
    /\ AppendAudit("maintenance.open", o)
    /\ UNCHANGED <<shift, trip, inspection, fuel, incident, due, call,
                   answers, jobs>>

GetOrderToStart(c, o) ==
    /\ call[c] = Idle
    /\ order[o].status = "open"
    /\ call' = [call EXCEPT ![c] = [op |-> "start_order", id |-> o,
                                    seen |-> order[o]]]
    /\ UNCHANGED <<tables, due, answers, jobs, audit>>

StartMaintenance(c) ==
    /\ call[c].op = "start_order"
    /\ LET o == call[c].id
       IN  /\ SameVersion(call[c].seen, order[o])
           /\ order' = [order EXCEPT ![o] =
                          OrderTo(call[c].seen, "in_progress")]
           /\ call' = [call EXCEPT ![c] = AuditCall("maintenance.start", o)]
    /\ UNCHANGED <<vehicle, shift, trip, inspection, fuel, incident, due,
                   answers, jobs, audit>>

CompleteMaintenance(o) ==
    LET v == order[o].vehicle
    IN  /\ order[o].status = "in_progress"
        /\ vehicle[v].status = "maintenance"
        /\ order' = [order EXCEPT ![o] = OrderTo(@, "completed")]
        /\ vehicle' = [vehicle EXCEPT ![v] = ReleaseMaintenance(@)]
        /\ AppendAudit("maintenance.complete", o)
        /\ UNCHANGED <<shift, trip, inspection, fuel, incident, due, call,
                       answers, jobs>>

-----------------------------------------------------------------------------
(* Inspections: src/internal/service/inspection/service.go                  *)

CreateInspection(i, v, at) ==
    /\ inspection[i].status = "absent"
    /\ vehicle[v].status \in {"available", "maintenance"}
    /\ inspection' = [inspection EXCEPT ![i] = NewInspection(v, at)]
    /\ AppendAudit("inspection.create", i)
    /\ UNCHANGED <<vehicle, shift, trip, order, fuel, incident, due, call,
                   answers, jobs>>

SubmitPassed(i) ==
    /\ inspection[i].status = "draft"
    /\ inspection' = [inspection EXCEPT ![i].status = "passed"]
    /\ Enqueue("inspection.submitted", i)
    /\ AppendAudit("inspection.submit", i)
    /\ UNCHANGED <<vehicle, shift, trip, order, fuel, incident, due, call,
                   answers>>

\* A failed checklist blocks the vehicle and opens an order without looking
\* for an active one.  A vehicle on duty makes the whole transaction fail.
SubmitFailed(i, o) ==
    LET v == inspection[i].vehicle
    IN  /\ inspection[i].status = "draft"
        /\ order[o].status = "absent"
        /\ MayMark(vehicle[v])
        /\ inspection' = [inspection EXCEPT ![i].status = "failed"]
        /\ vehicle' = [vehicle EXCEPT ![v] = MarkMaintenance(@)]
        /\ order' = [order EXCEPT ![o] = NewOrder(v)]
        /\ Enqueue("inspection.submitted", i)
        /\ AppendAudit("inspection.submit", i)
        /\ UNCHANGED <<shift, trip, fuel, incident, due, call, answers>>

-----------------------------------------------------------------------------
(* Fuel: src/internal/service/fuel/service.go                               *)

RecordFuel(f, v, odometer) ==
    /\ fuel[f] = NoFuel
    /\ MayRefuel(v, odometer)
    /\ fuel' = [fuel EXCEPT ![f] = [vehicle |-> v, odometer |-> odometer]]
    /\ vehicle' = [vehicle EXCEPT ![v].odometer = odometer]
    /\ Enqueue("fuel.recorded", f)
    /\ AppendAudit("fuel.record", f)
    /\ UNCHANGED <<shift, trip, order, inspection, incident, due, call,
                   answers>>

-----------------------------------------------------------------------------
\* The audit statement that follows a write made outside a transaction.
AppendAuditAfterwards(c) ==
    /\ call[c].op = "audit"
    /\ audit' = audit \cup {call[c].row}
    /\ call' = [call EXCEPT ![c] = Idle]
    /\ UNCHANGED <<tables, due, answers, jobs>>

\* The request ends without its next statement: a guard or the version check
\* refuses it, its context is cancelled, or the process is restarted.
Abandon(c) ==
    /\ call[c] # Idle
    /\ call' = [call EXCEPT ![c] = Idle]
    /\ UNCHANGED <<tables, due, answers, jobs, audit>>

-----------------------------------------------------------------------------
PlanningNext ==
    \/ \E c \in Callers, v \in Vehicles, odometer \in Odometers :
          CreateVehicle(c, v, odometer)
    \/ \E s \in Shifts : CreateShift(s)
    \/ \E v \in Vehicles : InspectionFallsDue(v)
    \/ \E c \in Callers, s \in Shifts : GetShiftToCancel(c, s)
    \/ \E c \in Callers : CancelShift(c)

DispatchNext ==
    \/ \E s \in Shifts, v \in Vehicles : AssignShift(s, v)
    \/ \E v \in Vehicles, k \in Keys : ReplayTrip(v, k)
    \/ \E c \in Callers, v \in Vehicles, s \in Shifts, k \in Keys :
          FindTripByKey(c, v, s, k)
    \/ \E c \in Callers, t \in TripIds, odometer \in Odometers,
          load \in Loads : StartTrip(c, t, odometer, load)
    \/ \E t \in TripIds, odometer \in Odometers : ReturnTrip(t, odometer)
    \/ \E n \in IncidentIds, t \in TripIds : ReportIncident(n, t)

WorkshopNext ==
    \/ \E o \in OrderIds, v \in Vehicles : OpenMaintenance(o, v)
    \/ \E c \in Callers, o \in OrderIds : GetOrderToStart(c, o)
    \/ \E c \in Callers : StartMaintenance(c)
    \/ \E o \in OrderIds : CompleteMaintenance(o)
    \/ \E i \in InspectionIds, v \in Vehicles, at \in InspectionTimes :
          CreateInspection(i, v, at)
    \/ \E i \in InspectionIds : SubmitPassed(i)
    \/ \E i \in InspectionIds, o \in OrderIds : SubmitFailed(i, o)
    \/ \E f \in FuelIds, v \in Vehicles, odometer \in Odometers :
          RecordFuel(f, v, odometer)

Next ==
    \/ PlanningNext
    \/ DispatchNext
    \/ WorkshopNext
    \/ \E c \in Callers : AppendAuditAfterwards(c)
    \/ \E c \in Callers : Abandon(c)

Spec == Init /\ [][Next]_vars

-----------------------------------------------------------------------------
(* Properties                                                               *)

\* Part of TypeOK: the rows have the columns and ranges of schema.sql.
TablesTyped ==
    /\ vehicle \in [Vehicles -> VehicleRow]
    /\ shift \in [Shifts -> ShiftRow]
    /\ trip \in [TripIds -> TripRow]
    /\ order \in [OrderIds -> OrderRow]
    /\ inspection \in [InspectionIds -> InspectionRow]
    /\ fuel \in [FuelIds -> FuelRow]
    /\ incident \in [IncidentIds -> IncidentRow]

\* Part of TypeOK: the references a row's status requires are there.
ForeignKeys ==
    /\ \A s \in Shifts : shift[s].status \in {"assigned", "in_progress",
          "completed"} => shift[s].vehicle \in Vehicles
    /\ \A t \in Trips : /\ trip[t].vehicle \in Vehicles
                        /\ trip[t].shift \in Shifts
                        /\ trip[t].key \in Keys
    /\ \A o \in OrderIds :
          order[o].status # "absent" => order[o].vehicle \in Vehicles
    /\ \A i \in InspectionIds :
          inspection[i].status # "absent" => inspection[i].vehicle \in Vehicles

\* Part of TypeOK: requests in flight and the trail they leave.
RequestsTyped ==
    /\ due \in SUBSET Vehicles
    /\ call \in [Callers -> Calls]
    /\ answers \in SUBSET Answers
    /\ jobs \in SUBSET JobRows
    /\ audit \in SUBSET AuditRows

\* Every table holds rows of its type, and a row that exists names the rows
\* its foreign keys and its status require (schema.sql).
TypeOK == TablesTyped /\ ForeignKeys /\ RequestsTyped

\* A vehicle is on duty exactly while one trip of it is active, and has one.
OnDutyIffActiveTrip ==
    /\ \A v \in Vehicles : vehicle[v].status = "on_duty" <=>
          \E t \in ActiveTrips : trip[t].vehicle = v
    /\ \A t, u \in ActiveTrips : trip[t].vehicle = trip[u].vehicle => t = u

\* A shift is in progress exactly while its one trip is active on the vehicle
\* the shift was assigned to, and completed exactly when that trip is; a shift
\* that is scheduled, assigned or cancelled has no trip.
ShiftMatchesTrip ==
    /\ \A t, u \in Trips : trip[t].shift = trip[u].shift => t = u
    /\ \A t \in Trips :
          /\ shift[trip[t].shift].vehicle = trip[t].vehicle
          /\ shift[trip[t].shift].status =
                IF trip[t].status = "active" THEN "in_progress"
                ELSE "completed"
    /\ \A s \in Shifts : shift[s].status \in {"in_progress", "completed"} =>
          \E t \in Trips : trip[t].shift = s

\* The three status columns that StartTrip, ReturnTrip, CancelShift and the
\* workshop write always agree, however their steps interleave.
DutyAgrees == OnDutyIffActiveTrip /\ ShiftMatchesTrip

\* Optimistic locking: the row a caller has read is the stored row as long as
\* the version has not moved, and versions only grow.  A row that was never
\* inserted is blank.
VersionsCurrent ==
    /\ \A c \in Callers :
          /\ call[c].op = "cancel_shift" =>
                LET seen == call[c].seen
                    row == shift[call[c].id]
                IN  /\ seen.version <= row.version
                    /\ seen.version = row.version => seen = row
          /\ call[c].op = "start_order" =>
                LET seen == call[c].seen
                    row == order[call[c].id]
                IN  /\ seen.version <= row.version
                    /\ seen.version = row.version => seen = row
    /\ \A s \in Shifts : shift[s].status = "absent" => shift[s] = NoShift
    /\ \A o \in OrderIds : order[o].status = "absent" => order[o] = NoOrder

\* A vehicle on the road has no active maintenance order, and a vehicle marked
\* "maintenance" has at least one, so that completing it can release it.
WorkshopExcludesRoad ==
    \A v \in Vehicles :
        /\ vehicle[v].status = "on_duty" => ActiveOrders(v) = {}
        /\ vehicle[v].status = "maintenance" => ActiveOrders(v) # {}

TripBefore(t, u) ==
    trip[t].status = "completed" /\ trip[t].end <= trip[u].start

\* The odometer readings of a vehicle tell one history: its trips cover
\* disjoint stretches, and no fuel record lies inside a stretch.
OdometerHistory ==
    /\ \A t, u \in Trips : t # u /\ trip[t].vehicle = trip[u].vehicle =>
          TripBefore(t, u) \/ TripBefore(u, t)
    /\ \A t \in CompletedTrips, f \in FuelIds :
          fuel[f].vehicle = trip[t].vehicle =>
             \/ fuel[f].odometer <= trip[t].start
             \/ fuel[f].odometer >= trip[t].end

\* What keeps that history: a vehicle's odometer has passed every reading
\* recorded for it, and the trip it is on started at or beyond it.
OdometerBounds ==
    /\ \A t \in CompletedTrips :
          trip[t].end <= vehicle[trip[t].vehicle].odometer
    /\ \A t \in ActiveTrips :
          trip[t].start >= vehicle[trip[t].vehicle].odometer
    /\ \A f \in FuelIds : fuel[f].vehicle # None =>
          fuel[f].odometer <= vehicle[fuel[f].vehicle].odometer

\* All successful answers given for one vehicle and idempotency key name the
\* same trip, although the look-up is outside the transaction that inserts.
AnswersAgree ==
    /\ \A a, b \in answers :
          a.vehicle = b.vehicle /\ a.key = b.key => a.trip = b.trip
    /\ \A a \in answers : /\ a.trip \in Trips
                          /\ trip[a.trip].vehicle = a.vehicle
                          /\ trip[a.trip].key = a.key

\* The shifts a vehicle holds on a service date never overlap and keep their
\* breaks ...
RosterCompatible ==
    \A v \in Vehicles, s, u \in Shifts :
        /\ s # u /\ ServiceDate[s] = ServiceDate[u]
        /\ {s, u} \subseteq HeldBy(v, ServiceDate[s])
        => Compatible(Window[s], Window[u], MinimumBreak)

\* ... and stay within the duty limit.
DutyLimited ==
    \A v \in Vehicles, s \in Shifts :
        DutyOf(HeldBy(v, ServiceDate[s]), Window) <= MaximumDuty

Published(topic) == {j.id : j \in {r \in jobs : r.topic = topic}}

\* The outbox announces exactly what the tables hold: one job for each trip
\* started, each trip completed, each inspection submitted, each fuel record.
OutboxMatchesTables ==
    /\ Published("trip.started") = Trips
    /\ Published("trip.completed") = CompletedTrips
    /\ Published("incident.reported") =
          {n \in IncidentIds : incident[n] # NoIncident}
    /\ Published("inspection.submitted") =
          {i \in InspectionIds : inspection[i].status \in {"passed", "failed"}}
    /\ Published("fuel.recorded") = {f \in FuelIds : fuel[f] # NoFuel}

Audited(action) == {r.id : r \in {e \in audit : e.action = action}}

\* The audit trail never tells of what did not happen, and misses nothing that
\* a transaction wrote.  Writes outside a transaction may stay unaudited.
AuditMatchesTables ==
    /\ Audited("trip.start") = Trips
    /\ Audited("trip.return") = CompletedTrips
    /\ Audited("shift.assign") = {s \in Shifts : shift[s].vehicle # None}
    /\ Audited("shift.cancel") \subseteq
          {s \in Shifts : shift[s].status = "cancelled"}
    /\ Audited("vehicle.create") \subseteq
          {v \in Vehicles : vehicle[v].status # "absent"}
    /\ Audited("maintenance.open") \subseteq
          {o \in OrderIds : order[o].status # "absent"}
    /\ Audited("maintenance.start") \subseteq
          {o \in OrderIds : order[o].status \in {"in_progress", "completed"}}
    /\ Audited("maintenance.complete") =
          {o \in OrderIds : order[o].status = "completed"}
    /\ Audited("inspection.submit") =
          {i \in InspectionIds : inspection[i].status \in {"passed", "failed"}}

ShiftSteps == {<<"absent", "scheduled">>, <<"scheduled", "assigned">>,
               <<"scheduled", "cancelled">>, <<"assigned", "cancelled">>,
               <<"assigned", "in_progress">>, <<"in_progress", "completed">>}

\* No write, however stale the row it was computed from, takes a shift along
\* an edge its state machine lacks or replaces the vehicle it was assigned to.
ShiftLifecycle ==
    [][\A s \in Shifts :
          /\ shift'[s].status # shift[s].status =>
                <<shift[s].status, shift'[s].status>> \in ShiftSteps
          /\ shift[s].vehicle # None => shift'[s].vehicle = shift[s].vehicle
      ]_vars

OrderSteps == {<<"absent", "open">>, <<"open", "in_progress">>,
               <<"in_progress", "completed">>}

\* The same for maintenance orders: a stale "start" never reopens a completed
\* order.
OrderLifecycle ==
    [][\A o \in OrderIds : order'[o].status # order[o].status =>
          <<order[o].status, order'[o].status>> \in OrderSteps]_vars

\* An active maintenance order blocks its vehicle (what the tests call
\* "vehicle not blocked").  The code does not keep it: see the README.
BlockedWhileOrderActive ==
    \A v \in Vehicles :
        ActiveOrders(v) # {} => vehicle[v].status = "maintenance"

=============================================================================
