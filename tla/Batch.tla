--------------------------------- MODULE Batch ---------------------------------
(***************************************************************************)
(* POST /shifts/batch-assign (src/internal/service/batch/service.go) beside *)
(* every other operation: a goroutine for each assignment of the batch,     *)
(* which waits for a permit of the semaphore, calls AssignShift of the      *)
(* dispatch service and writes its slot of the results.  The request may be *)
(* given up meanwhile; the goroutines go on.                                *)
(***************************************************************************)
EXTENDS Operations, FiniteSets

CONSTANTS
    Slots,          \* positions of a batch
    Batches,        \* BOUND: batches clients send, [Slots -> [shift, vehicle]]
    MaxParallel

ASSUME MaxParallelAssumption == MaxParallel \in Nat \ {0}
ASSUME SlotsAreFinite == IsFiniteSet(Slots)
ASSUME BatchesAreBatches ==
    Batches \subseteq [Slots -> [shift : Shifts, vehicle : Vehicles]]
ASSUME NoneIsNoBatch == None \notin Batches

VARIABLES
    batch,      \* the assignments, None before there is a batch
    outcome,    \* of each goroutine; "success" and "error" fill the result
    permits,    \* elements in the channel of the semaphore
    cancelled   \* ctx is done

batchVars == <<batch, outcome, permits, cancelled>>

-----------------------------------------------------------------------------
\* After requests that have registered the vehicles, audit rows included, and
\* planned the shifts, each on a route of its own.
BatchInit ==
    /\ vehicle = [v \in Vehicles |-> NewVehicle(0)]
    /\ shift = [s \in Shifts |-> NewShift]
    /\ trip = [t \in TripIds |-> NoTrip]
    /\ order = [o \in OrderIds |-> NoOrder]
    /\ inspection = [i \in InspectionIds |-> NoInspection]
    /\ fuel = [f \in FuelIds |-> NoFuel]
    /\ incident = [n \in IncidentIds |-> NoIncident]
    /\ due = {} /\ call = [c \in Callers |-> Idle]
    /\ answers = {} /\ jobs = {}
    /\ audit = [action : {"vehicle.create"}, id : Vehicles]
    /\ batch = None
    /\ outcome = [i \in Slots |-> "absent"]
    /\ permits = 0
    /\ cancelled = FALSE

BatchArrives ==
    /\ batch = None
    /\ \E assignments \in Batches : batch' = assignments
    /\ outcome' = [i \in Slots |-> "waiting"]
    /\ UNCHANGED <<vars, permits, cancelled>>

\* The client goes away, or the timeout answers it.
CancelBatch ==
    /\ batch # None /\ ~cancelled
    /\ cancelled' = TRUE
    /\ UNCHANGED <<vars, batch, outcome, permits>>

\* select: semaphore <- struct{}{}
Acquire(i) ==
    /\ outcome[i] = "waiting"
    /\ permits < MaxParallel
    /\ permits' = permits + 1
    /\ outcome' = [outcome EXCEPT ![i] = "running"]
    /\ UNCHANGED <<vars, batch, cancelled>>

\* select: <-ctx.Done()
GiveUp(i) ==
    /\ outcome[i] = "waiting"
    /\ cancelled
    /\ outcome' = [outcome EXCEPT ![i] = "error"]
    /\ UNCHANGED <<vars, batch, permits, cancelled>>

Succeed(i) ==
    /\ outcome[i] = "running"
    /\ AssignShift(batch[i].shift, batch[i].vehicle)
    /\ outcome' = [outcome EXCEPT ![i] = "success"]
    /\ permits' = permits - 1
    /\ UNCHANGED <<batch, cancelled>>

\* Mutated form: the permit given back only by a goroutine that succeeds.
PermitsAfterErrorKept == permits
PermitsAfterError == permits - 1

\* A check of AssignShift refuses, or its context is done.
Fail(i) ==
    /\ outcome[i] = "running"
    /\ LET s == batch[i].shift
           v == batch[i].vehicle
       IN  cancelled \/ ~(CanAssign(v, s) /\ CheckAssignment(v, s))
    /\ outcome' = [outcome EXCEPT ![i] = "error"]
    /\ permits' = PermitsAfterError
    /\ UNCHANGED <<vars, batch, cancelled>>

BatchNext ==
    \/ Next /\ UNCHANGED batchVars
    \/ BatchArrives
    \/ CancelBatch
    \/ \E i \in Slots : Acquire(i) \/ GiveUp(i) \/ Succeed(i) \/ Fail(i)

BatchSpec == BatchInit /\ [][BatchNext]_<<vars, batchVars>>

-----------------------------------------------------------------------------
\* A goroutine that waits is never left without a permit that nobody holds:
\* however the others end, the batch is answered.
PermitsReturned ==
    permits = Cardinality({i \in Slots : outcome[i] = "running"})

\* What the results promise holds for as long as the rows exist, whatever runs
\* beside the batch: a success names the vehicle its shift keeps, and no two
\* successes of a batch are about one shift.
ResultsTrue ==
    /\ \A i \in Slots : outcome[i] = "success" =>
          shift[batch[i].shift].vehicle = batch[i].vehicle
    /\ \A i, j \in Slots :
          outcome[i] = "success" /\ outcome[j] = "success" /\ i # j =>
              batch[i].shift # batch[j].shift

=============================================================================
