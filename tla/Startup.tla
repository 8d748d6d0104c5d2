-------------------------------- MODULE Startup --------------------------------
(***************************************************************************)
(* What run of src/cmd/server/main.go does until the server listens:        *)
(* Migrate, seed.Ensure and auth.Bootstrap, statement by statement, and     *)
(* ListenAndServe.  Each statement commits by itself, but for the two of    *)
(* migration 2; the process may stop between any two and be started again   *)
(* over what it left.                                                       *)
(***************************************************************************)
EXTENDS Integers, FiniteSets

CONSTANTS
    Demo,           \* the plates of the demo vehicles
    Legacy,         \* the plates an older release gave them
    Modern(_),      \* the plate that migration 2 gives a legacy one
    OtherPlates,    \* plates of vehicles that clients have added
    Found,          \* BOUND: the databases that the first start may find
    MaxStops        \* BOUND: how often the process is stopped

ASSUME ModernIsDemo == \A p \in Legacy : Modern(p) \in Demo
ASSUME PlatesDiffer == Demo \cap Legacy = {} /\ OtherPlates \cap Legacy = {}

ASSUME FleetIsFinite == IsFiniteSet(Demo \cup Legacy \cup OtherPlates)
ASSUME DemoIsKnown == Demo # {}
ASSUME MaxStopsIsNat == MaxStops \in Nat

VARIABLES
    phase,      \* the statement that comes next
    db,         \* [version, vehicles, route, driver, certs, operator]
    stops       \* how often the process has been stopped

startupVars == <<phase, db, stops>>

-----------------------------------------------------------------------------
Plates == Demo \cup Legacy \cup OtherPlates

\* CASE plate_number WHEN ... END of migration 2.
Normalized(p) == IF p \in Legacy THEN Modern(p) ELSE p

\* UNIQUE(plate_number) refuses the update of migration 2.
Collides(vehicles) ==
    \E p, q \in vehicles : p # q /\ Normalized(p) = Normalized(q)

Phases == {"down", "record_1", "migrate_2", "vehicles", "second_vehicle",
           "route", "driver", "first_cert", "second_cert", "bootstrap",
           "listen", "up", "deaf"}
\* Between starts, or past them: serving, or waiting for a signal without.
Settled == {"down", "up", "deaf"}

Databases ==
    [version : 0..2, vehicles : SUBSET Plates, route : BOOLEAN,
     driver : BOOLEAN, certs : 0..2, operator : BOOLEAN]

\* A certification refers to its driver, and an earlier start that recorded
\* migration 2 has run it: see Migrated.
ASSUME FoundAreLeftovers ==
    \A found \in Found :
        /\ found \in Databases
        /\ found.certs > 0 => found.driver
        /\ found.version = 2 => found.vehicles \cap Legacy = {}

StartupInit ==
    /\ phase = "down"
    /\ db \in Found
    /\ stops = 0

\* The statement succeeds: db becomes new, and the next one is at.
Continue(at, new) ==
    /\ phase' = at
    /\ db' = new
    /\ UNCHANGED stops

\* run returns an error and the process ends, having changed nothing.
Fail == Continue("down", db)

-----------------------------------------------------------------------------
\* Open and the CREATE ... IF NOT EXISTS of the schema.
ApplySchema == phase = "down" /\ Continue("record_1", db)

RecordVersion1 ==
    /\ phase = "record_1"
    /\ Continue("migrate_2",
                [db EXCEPT !.version = IF @ < 1 THEN 1 ELSE @])

\* Both statements of migration 2, in one transaction.
Migrated ==
    IF db.version < 2
    THEN [db EXCEPT !.version = 2,
                    !.vehicles = {Normalized(p) : p \in @}]
    ELSE db

\* Mutated form: two statements of which the second does not need the first.
Migrate2Untied ==
    /\ phase = "migrate_2"
    /\ Continue("vehicles", IF Collides(db.vehicles)
                            THEN [db EXCEPT !.version = 2] ELSE Migrated)
Migrate2 ==
    /\ phase = "migrate_2"
    /\ IF db.version < 2 /\ Collides(db.vehicles)
       THEN Fail
       ELSE Continue("vehicles", Migrated)

\* Mutated form: no look at the table.
FleetEmptyUnasked == TRUE
FleetEmpty == db.vehicles = {}

\* UNIQUE(plate_number) may refuse the row.
InsertVehicle(p, at) ==
    IF p \in db.vehicles
    THEN Fail
    ELSE Continue(at, [db EXCEPT !.vehicles = @ \cup {p}])

FirstDemo == CHOOSE p \in Demo : TRUE

SeedVehicles ==
    /\ phase = "vehicles"
    /\ IF FleetEmpty
       THEN InsertVehicle(FirstDemo, "second_vehicle")
       ELSE Continue("route", db)

SeedSecondVehicle ==
    /\ phase = "second_vehicle"
    /\ \E p \in Demo \ {FirstDemo} : InsertVehicle(p, "route")

SeedRoute ==
    /\ phase = "route"
    /\ Continue("driver", [db EXCEPT !.route = TRUE])

\* SaveDriver inserts the header and then each certification.
SeedDriver ==
    /\ phase = "driver"
    /\ IF db.driver THEN Continue("bootstrap", db)
       ELSE Continue("first_cert", [db EXCEPT !.driver = TRUE])

SeedCertification ==
    /\ phase \in {"first_cert", "second_cert"}
    /\ Continue(IF phase = "first_cert" THEN "second_cert" ELSE "bootstrap",
                [db EXCEPT !.certs = @ + 1])

\* With a bootstrap password configured, as docker-compose.yml has.
Bootstrap ==
    /\ phase = "bootstrap"
    /\ Continue("listen", [db EXCEPT !.operator = TRUE])

\* The goroutine of ListenAndServe.  Its error is logged and nothing else: run
\* goes on waiting for a signal.
Listen == phase = "listen" /\ Continue("up", db)
ListenFails == phase \in {"listen", "up"} /\ Continue("deaf", db)

\* A signal, a crash or a statement that fails; started again from "down", as
\* `restart: unless-stopped' does.
StopProcess ==
    /\ phase # "down"
    /\ stops < MaxStops
    /\ stops' = stops + 1
    /\ phase' = "down"
    /\ UNCHANGED db

StartupStep ==
    \/ ApplySchema \/ RecordVersion1 \/ Migrate2
    \/ SeedVehicles \/ SeedSecondVehicle \/ SeedRoute
    \/ SeedDriver \/ SeedCertification \/ Bootstrap \/ Listen

-----------------------------------------------------------------------------
StartupTypeOK ==
    /\ phase \in Phases
    /\ db \in Databases
    /\ stops \in 0..MaxStops

\* The record of migration 2 tells the truth: no legacy plate is left where it
\* is recorded, wherever an earlier start was broken off, and a process that has
\* come to listen, with or without success, has recorded it.
MigratedWhole ==
    /\ db.version = 2 => db.vehicles \cap Legacy = {}
    /\ phase \in {"listen", "up", "deaf"} => db.version = 2

\* README.md: start-up normalizes "without deleting historical records".  No
\* start, however broken off, loses a vehicle, merges two, or adds demo
\* vehicles to a fleet that clients have begun.
FleetPreserved ==
    [][/\ \A p \in db.vehicles : p \in db'.vehicles \/ Normalized(p) \in db'.vehicles
       /\ Cardinality(db'.vehicles) >= Cardinality(db.vehicles)
       /\ Cardinality(db'.vehicles) > Cardinality(db.vehicles) =>
              db.vehicles \subseteq Demo]_startupVars

=============================================================================
