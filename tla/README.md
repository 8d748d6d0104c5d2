# Formal model of Sanitation Operations

TLA+ modules, TLC configurations and TLAPS proofs for the Go backend in this
repository: a municipal fleet system over SQLite, with an HTTP API and an outbox
worker. Paths below are relative to `src/internal/` unless they start with
`src/`.

Check a run with `tlc -config <cfg> <module>` and a proof with
`tlapm <module>.tla`, in this directory. `PROJECT.json` is the index: components,
runs, the mutant that breaks each property, the source lines behind each
definition, findings, hazards and theorems.

## 1. The system

| part | state it keeps | operations |
|---|---|---|
| Fleet (`service/fleet`, `domain/vehicle`) | `vehicles`: status, odometer, capacity, inspection due date, version | create; every dispatch, workshop and fuel step changes the row |
| Planning (`service/planning`, `domain/workplan`) | `routes`, `shifts`: status, assigned vehicle, window, version | create route, create shift, cancel shift |
| Scheduling (`service/scheduling`, `domain/schedule`) | none | `CanAssign`: folds the vehicle's shifts of a date into a roster |
| Dispatch (`service/dispatch`, `policy`, `domain/trip`) | `trips`, `idempotency_keys` | assign shift, start trip, return trip, report incident |
| Maintenance (`service/maintenance`, `domain/maintenance`) | `maintenance_orders` | open, start, complete |
| Inspection (`service/inspection`, `domain/inspection`) | `inspections`, `inspection_items` | create, record item, submit |
| Fuel (`service/fuel`) | `fuel_logs` | record |
| Outbox worker (`worker`, `storage/sqlite/audit_outbox.go`) | `outbox_jobs` | enqueue, claim, handle, mark done / retry / permanent |
| Audit (`audit`) | `audit_events` | append |
| Crew (`service/crew`) | `drivers`, `driver_certifications` | create, add certification, suspend, reactivate |
| Batch (`service/batch`) | none | a goroutine per assignment, four at a time, each calling `AssignShift` |
| Reconciliation (`service/reconciliation`) | none | reads a day's shifts and trips, lists findings |
| Auth (`service/auth`, `middleware/auth.go`) | `operators`, `operator_sessions` | bootstrap, login, authenticate, logout |
| Rate limiter (`ratelimit`, `middleware/limits.go`) | token buckets, in memory | allow (cleanup has no caller) |
| Service day (`businessday`) | none | service date, bounds, window check |
| Store (`storage/sqlite`) | one SQLite connection, `schema_migrations` | migrate, `WithTx`, versioned updates |
| Seed (`seed`) | none | demo vehicles, route and driver where a table is empty |
| Server (`httpapi`, `middleware`, `src/cmd/server`) | none | routing, 30 s timeout, start-up, shutdown |

**How they interact.** A handler calls one service; services share nothing but
the store. The store opens SQLite with `SetMaxOpenConns(1)`
(`storage/sqlite/db.go:49`), so a `WithTx` callback holds the only connection: no
other statement of the process runs inside it. Operations without `WithTx`
(`CancelShift`, maintenance `Start`, inspection `Record`, everything of crew,
auth, reconciliation and seed, the creations, all audit rows that follow them)
are sequences of statements, and anything may run in between. Transactions leave
jobs in `outbox_jobs`; a single worker goroutine drains the table. Buckets and
requests die with the process; everything else is in the database and is met by
the next start.

**What is hard.** The key look-up of `StartTrip` outside its transaction; rows
read, and written later under a version; a checklist and a list of
certifications rewritten by delete and insert; reports read page by page over
tables that change; long sequences of legal calls over several tables whose
status columns have to agree; a batch whose goroutines race each other and the
rest; the worker's attempts, backoff, store errors and restarts; start-up broken
off between two statements; a wall clock that is set back and forward; times
compared as text. The list with lines is `hazards` in `PROJECT.json`.

**What makes each part correct.**

* Dispatch: vehicle, shift and trip status agree; one trip per vehicle and key;
  one odometer history per vehicle.
* Maintenance and inspection: no repair on the road; orders and submitted
  inspections never go back.
* Scheduling: the paged loop decides what the rule says; rosters keep to it.
* Outbox: at least one successful delivery before "done", an attempt per
  failure, final outcomes, progress. Transactions and jobs match.
* Audit: nothing told that did not happen, nothing transactional missing.
* Crew: no certification lost, no suspension lifted by a stale write.
* Reconciliation: no row read twice or missed, no finding that only comes from
  reading two tables at different moments, each trip counted for its own day.
* Batch: results that are true, a permit for whoever waits.
* Server: only live sessions let through, before and after a restart; no more
  requests than the bucket, the real time and the clock's steps forward allow;
  every start works with what the last one left.

## 2. Modules

| module | models | kind |
|---|---|---|
| `Windows` | time windows, overlap, gap, compatibility | operators |
| `FleetDomain` | table rows and the transitions of `domain/` | operators |
| `Operations` | the operations of fleet, planning, dispatch, maintenance, inspection headers and fuel, with their jobs and audit rows | state machine, EXTENDS `FleetDomain` |
| `DayPlan` | what readers of the shift and trip tables may rely on | abstract specification |
| `DispatchRefinement` | `Operations` implements `DayPlan` | refinement mapping |
| `Batch` | the goroutines of a batch beside every other operation | state machine, EXTENDS `Operations` |
| `MCOperations`, `MCBatch` | instances of these for TLC | instances |
| `OperationsProofs` | theorems about `Operations`, `DispatchRefinement` and `Batch` | proofs |
| `TimeProofs` | lemmas about windows, sums of hours and instants as texts | proofs |
| `Scheduling`, `SchedulingProofs` | the loop of `Checker.CanAssign` and `Roster.Add` | state machine, proofs |
| `InspectionItems`, `InspectionItemsProofs` | the statements of inspection `Record` against `Submit` | state machine, proofs |
| `JobQueue` | what the outbox promises of a job | abstract specification |
| `Outbox`, `OutboxProofs` | `outbox_jobs` and `worker.Runner` | state machine, implements `JobQueue`; proofs |
| `Crew`, `MCCrew`, `CrewProofs` | the statements of a driver's certifications and status | state machine, instance, proofs |
| `BusinessDay` | service date, bounds, window check | operators |
| `TimeText` | the order of instants stored as text | operators |
| `Reconciliation`, `MCReconciliation`, `ReconciliationProofs` | the report, over the steps of `DayPlan` | state machine, instance, proofs |
| `Startup` | migration, seed, bootstrap, listening | part of `Server` |
| `RateLimiter` | buckets, refusals and Retry-After | part of `Server` |
| `Sessions` | login, authentication, logout | part of `Server` |
| `Server`, `MCServer`, `ServerProofs` | the process: started, serving, stopped | composition, instance, proofs |

### Operations

A table is a function from identifiers to rows; a row of status `"absent"` has
not been inserted. A row keeps the columns that a guard or a property reads.
`version` is kept for shifts and orders, the two tables also written outside a
transaction; every vehicle, trip and inspection row of this module is written by
the transaction that read it, where the version check cannot fail.

* One action per transaction: `AssignShift`, `StartTrip`, `ReturnTrip`,
  `ReportIncident`, `OpenMaintenance`, `CompleteMaintenance`, `CreateInspection`,
  `SubmitPassed`/`SubmitFailed` (the two branches of Submit), `RecordFuel`. A
  callback that returns an error rolls back and is no step.
  `WithTx` is taken at its word: what a failure between two statements of a
  transaction would leave cannot be said in this model, nor for migration 2.
* One action per statement elsewhere. `call[c]` is what request `c` has read and
  will write: `FindTripByKey` then `StartTrip`; `GetShiftToCancel`, `CancelShift`,
  `AppendAuditAfterwards`; `GetOrderToStart`, `StartMaintenance`,
  `AppendAuditAfterwards`; `CreateVehicle`, `AppendAuditAfterwards`. `ReplayTrip`
  is the look-up that hits. `CancelShift` is an exported method of the planning
  service that no route of the HTTP layer calls; the model lets clients call it.
* `Abandon` ends a request between two statements: a refused guard or version, a
  cancelled context, a restart. The tables survive it.
* `InspectionFallsDue` is the clock reaching `inspection_due_at`.
* `jobs` and `audit` are what the operations have written; the status of a job
  is `Outbox`'s concern. `answers` are the successful answers of
  `POST /trips/start`.

`CanAssign` is taken as one condition on sets. `Scheduling` checks that the loop
in the code decides exactly this. `SubmitPassed` and `SubmitFailed` take the
verdict of the checklist as given; `InspectionItems` has the checklist.

Left out: routes as rows (constants), driver fitness (left open, so every answer
of `CanOperate` is covered), times of trips and orders, costs, texts, identifiers.

### DayPlan and its two uses

`DayPlan` has the status of each shift and the statuses of the trips that name
it. `DispatchRefinement` maps the tables of `Operations` to it, so that whatever
holds of its behaviours holds of what a reader of the tables sees;
`Reconciliation` is such a reader and EXTENDS `DayPlan` in place of all of
`Operations`.

### Batch

`Batch` takes every step of `Operations` and adds those of the goroutines: a
permit, the call of `AssignShift` (the action of `Operations`), the result slot,
the permit back; a goroutine that still waits when the context is done writes an
error. It starts with vehicles registered and shifts planned, states that
requests reach. A batch keeps nothing, so a restart is only the end of it, and
is left out.

### InspectionItems

One inspection. `Record` is seven kinds of step: read header, read items, update
header under the version read, delete items, insert the items one by one in the
order of their codes, answer. `EndWithError` is a refusal (submitted already,
version moved, UNIQUE item code) or, with `Crashes`, a timeout or restart.
`Submit` is one step: it runs in a transaction and rewrites the items as they
are.

### Outbox

The worker has a program counter; claim, handler call and each mark are steps,
and requests enqueue in between. `StoreError` ends a cycle; in the first cycle
`Run` returns (`pc = "returned"`). `Restart` starts a new worker; rows stay.
`delivered` and `failures` are history variables. The handler wired in
`src/cmd/server/main.go` only logs and never fails; the model covers any handler the
`Runner` accepts. `MaxAttempts` is 5 and `BatchSize` 20 in production.

`next_attempt_at <= now` compares RFC3339Nano texts, in which a whole second sorts
after its fractions. `Claimable` does the same with the order of `TimeText`: a row
due within the second that `now` begins is claimed up to a second early, and a row
due at a whole second is not claimed by a fraction of it, so up to a second late.
`BatchFresh` therefore speaks of the second a row falls due in. The clock of this
module only moves forward: one that is set back delays claims, and a row already
claimed may then lie in the future again.

### Crew

One driver: the header row and the certifications. A request reads the header,
reads the certifications, updates the header under the version, deletes all
certifications, inserts them one by one, appends the audit row; `EndWithError`
ends it anywhere. `agreed` is history: the list as the updates set it, in the
order of their versions. `torn` is history too: it tells that a driver was read
between the update and the last insert of another request, or that a request
ended there. In that window the code promises nothing: a superseded
certification can come back, one can be lost for good, and a trip may be refused
for a moment. Outside it `CertificationsKept` says that nothing is lost.

### Reconciliation

`COUNT` and `SELECT` of each page are steps of their own, shifts before trips,
while shifts are planned, assigned, started, returned and cancelled. The query
orders by `start_at` only (`storage/sqlite/workplans.go:85`) and is answered from
`idx_shifts_date_status`, so shifts that start alike come in the order of status
and row number (`ShiftBefore`) and change places when a status changes. A row
that is inserted, or so moved, in front of another row of the list being read
(`slipped`) moves the pages under the reader: a row can be read twice and another
missed, and the code does not notice.
Where that does not happen, `EveryRowOnce` and `MismatchOnlyOutsideDay` hold:
reading shifts before trips is what makes the second true, because a shift seen
as completed has its trip by then. What is left of the mismatch finding: a
completed shift whose trip started outside the bounds of its day is called a
mismatch in every report, since `StartTrip` does not compare the clock with the
window. Because a whole second sorts after its fractions as text, a trip in the
first second of a day is counted for the day before (`CountedWhereServed` allows
just that). Counters, severities and the closable flag are left out; they are
functions of the findings.

### Server

`Startup` has the statements of `run` until the server listens, over `db`, the
rows these statements read or write. `Found` are the databases a first start may
meet: new, or of the first release with legacy plates. `StopProcess` may come
between any two statements. `ListenAndServe` runs in a goroutine of its own: it
comes to listen (`up`), or it fails, at once or later, its error is logged, and the
process waits for a signal (`deaf`). Requests over connections still open when a
listener fails are not told apart: a deaf process serves none.

`RateLimiter` counts tokens in ticks, where the code has floating point. Its bucket
sees the wall clock (`Now().UTC()` has no monotonic part), which may be set back
and forward in any order; its history sees `elapsed`, the real time and what the
clock was set forward in all. A bucket cannot tell a step forward from time that
has passed, and refills for it, also when the step only corrects one back:
`RateBounded` counts steps forward as time, and shows that steps back are never
refilled for.

`Sessions` has requests that arrive, are authenticated by a read and do their work
later, so that a logout may come in between. `Server` composes them: a request
passes the limiter, then authentication; `Stop` loses buckets and requests and
keeps the rows; `ClockSetBack` and `ClockSetForward` set the wall clock. A graceful
shutdown is taken as cutting off the requests under way. Start-up takes less than
a tick. Operators never change after bootstrap: nothing in the program suspends
one. A session expires by the wall clock, so `OnlyLiveSessionsTrusted` speaks of the
expiry only while the clock has not been set back.

## 3. Runs

| run | result | shows |
|---|---|---|
| `ops_dispatch` | pass | `DutyAgrees`, `AnswersAgree`, `OdometerHistory`, `ShiftLifecycle`, `ImplementsDayPlan` |
| `ops_workshop` | pass | `TypeOK`, `WorkshopExcludesRoad`, `OutboxMatchesTables`, `AuditMatchesTables`, `OrderLifecycle` |
| `ops_roster` | pass | `RosterCompatible`, `DutyLimited`, `PermitsReturned`, `ResultsTrue` |
| `ops_blocked` | violation | `BlockedWhileOrderActive` (finding 1) |
| `scheduling` | pass | `VerdictIsReference`, `RefusedForTheTarget`, `CheckReturns` |
| `items_race` | pass | `TypeOK`, `RecordedKept`, `VerdictMatchesItems`, `HeaderFinal` |
| `items_lost` | violation | `ChecklistProtected` (finding 2) |
| `outbox` | pass | `TypeOK`, `BatchFresh`, `ImplementsJobQueue`, `SettlesWhileRunning` |
| `outbox_settles` | violation | `EveryJobSettles` (finding 3) |
| `crew` | pass | `TypeOK`, `CertificationsKept`, `ChangesAuditedOnce`, `SuspensionStands` |
| `reconciliation` | pass | `EveryRowOnce`, `MismatchOnlyOutsideDay`, `CountedWhereServed`, `ReportsReturn` |
| `server` | pass | `TypeOK`, `MigratedWhole`, `RateBounded`, `ObedientAdmitted`, `OnlyLiveSessionsTrusted`, `FleetPreserved`, `EventuallyServes` |

**Bounds, and why they are enough.**

* `ops_dispatch`: one vehicle; two shifts, trips, keys, fuel records and requests
  in flight; four readings. The races are between two requests over one key or
  one shift; two trips with fuel records before, between and after are what an
  odometer history can get wrong. Each shift has its own date, so the roster
  (another run) does not hide collisions.
* `ops_roster`: module `MCBatch`. Two vehicles; three shifts of one date: two touch
  and make up the duty limit, the third exceeds it with the first and is too
  close to the second. A batch of two assignments with one permit: two shifts that
  exclude each other to one vehicle, or one shift to one or two vehicles; single
  assignments, cancellations and due inspections in between. No trips: a roster
  does not look at them, and that status columns agree for several vehicles is
  the theorem `StatusColumnsAgree`. With one permit the goroutines come in any order
  but one at a time; that they may run together, `AssignShift` being one
  transaction, is covered by the theorems about `Batch` only.
* `ops_workshop`: one vehicle that everything happens to: one trip, one fuel
  record, one incident, two orders and two inspections dated differently; the
  second order is what finding 1 needs.
* `scheduling`: all tables of up to three rows in any window of the horizon, page
  of two: page full, partial, and exactly the end. A table of four rows passed too.
* `items_race`: three codes for the five of the code: one to be lost, one to be
  rewritten, one that is untouched; two callers. `disturbed` records whether
  something came between the statements of a Record: what passes here,
  `RecordedKept` and `VerdictMatchesItems`, is about Records without disturbance;
  `ChecklistProtected` is the same without the condition, and fails.
* `outbox`: two jobs in batches of one, so that a batch is full and a job has to wait
  for the other; two attempts, at whole seconds and at a fraction of them. The safety
  properties also passed for batches of two and three attempts. Time stands still
  once the second in which the last pending job falls due is over; nothing else
  observes it.
* `crew`: two requests, two codes, certifications that expire before and after
  the license, three updates: two that race and one that builds on the result.
* `reconciliation`: two shifts, pages of one row, so that anything may happen
  between any two rows. The second shift starts like the first, and their places
  depend on their status, or sorts before it as text. Four instants: one in the
  first second of the day, which as text lies before its bound and so is outside
  the report, two within the day, the later of which sorts first as text, and one
  just beyond its end; windows that touch a bound or pass it; a second has ten
  instants. Three shifts in pages of two, which leave a page that is not full,
  passed too.
* `server`: four databases; one stop, one step of the clock back and one forward,
  anywhere, so that a step forward may correct one back; a listener that fails at
  once or later; a bucket of two tokens, a refill of two and a third seconds, so
  that Retry-After is rounded down; two requests of one session, which is what a
  logout races with; three moments, two of them before the expiry and one after
  it. Start-up alone also passed with two stops, and serving alone with a fourth
  moment at which the whole bucket is full again.

Symmetry is used only in the safety runs of `Operations`, over sets on which all
constants are uniform. Deadlock is not checked in the runs of `Operations` and `Batch`
(with every row used and every vehicle due, a finite instance has nothing left to
do), of `Crew` (the last version), `Reconciliation` (the last instant) and `Server`
(the last moment, no stop left), nor in that of `Scheduling`, whose loop returns. It
is checked in all others.

**Fairness.** `Scheduling`: weak fairness of the loop, one goroutine that runs
until it returns. `Outbox`: weak fairness of the ticker and of time; strong
fairness of claim, handler and mark, because a store error or a restart
interrupts them and they are reached again: assumed is that a statement tried
again and again does not fail every time. No fairness of `Restart`, `Enqueue` or
`StoreError`: nobody promises them. `Reconciliation`: weak fairness of the reading
request (`ReadingGoesOn` writes it out), one goroutine that its timeout ends
otherwise. `Server`: weak fairness of `Start`, the call of `ListenAndServe` included,
because `docker-compose.yml` says `restart: unless-stopped` and a statement of
start-up returns; stops are bounded. None of `ServingFails`, which may never happen.
The others have safety properties only: no request has to arrive.

## 4. Findings

1. **Second order on one vehicle** (`ops_blocked`). Submitting a failed inspection
   opens an order without looking for an active one
   (`service/inspection/service.go:91-110`, compare `service/maintenance/service.go:37`).
   Completing one of two orders releases the vehicle while the other is active.
   The other can then be started but not completed, no new one can be opened, and
   the vehicle cannot be dispatched.
2. **Unprotected checklist** (`items_lost`). Two Records at once, both answered
   200; the later rewrite drops the other's item. `Record` does not move the
   version, so the optimistic check does not see it. In the same way a Record that
   has passed its version check goes on deleting and inserting after Submit has
   committed a verdict, and an interrupted Record loses items. The header itself
   is safe (`HeaderFinal`).
3. **Worker gone after an early error** (`outbox_settles`). A store error in the
   first cycle ends `Run` for the life of the process
   (`worker/worker.go:46`); later errors are retried. `SettlesWhileRunning` shows that
   nothing else keeps a job from being settled.
Not findings, because no doc or test says otherwise, but worth knowing: windows
that touch escape the minimum break (`domain/schedule/schedule.go:57` tests
`gap > 0`); the torn window of certifications and the slipped pages described in
section 2; a plate that is already taken makes migration 2, and so every start,
fail; an error of `ListenAndServe`, which is only logged
(`src/cmd/server/main.go:106-108`), leaves a process that neither serves nor ends, so
that `restart: unless-stopped` has nothing to act on (`EventuallyServes` allows that
end, and no other but the taken plate); jobs are claimed up to a second before or
after they are due; a clock set forward fills the buckets; a stop between the two
demo vehicles leaves one for ever; a client that waits as Retry-After says may be
refused once more (`ObedientAdmitted`: once).

## 5. Proofs

Every safety property that a passing run checks is also a theorem, for every
value of the constants: any number of vehicles, shifts, requests, jobs, clients,
any windows, limits and page sizes. Runs and proofs use the same definitions.

### Theorems

| module | theorem | states | rests on |
|---|---|---|---|
| `OperationsProofs` | `TypeCorrect` | `[]TypeOK` | `TypeOK` is inductive: `TablesStep`, `ForeignKeysStep`, `RequestsStep` |
| | `StaleWritesRefused` | `[]VersionsCurrent` | `TypeOK` |
| | `StatusColumnsAgree` | `[]DutyAgrees` | `VersionsCurrent` |
| | `NoRepairOnTheRoad` | `[]WorkshopExcludesRoad` | `VersionsCurrent` |
| | `OneTripPerKey` | `[]AnswersAgree` | `KeysUnique` |
| | `OdometerConsistent` | `[]OdometerHistory` | `OdometerInv`, `OnDutyIffActiveTrip` |
| | `RosterSafe` | `[]RosterCompatible` | `VersionsCurrent` |
| | `DutyWithinLimit` | `[]DutyLimited` | `RostersWithin`, `DutyShrinks` |
| | `ShiftsFollowLifecycle` | `ShiftLifecycle` | `ScheduledUnassigned` |
| | `OrdersFollowLifecycle` | `OrderLifecycle` | `VersionsCurrent` |
| | `OutboxComplete` | `[]OutboxMatchesTables` | `VersionsCurrent` |
| | `AuditTruthful` | `[]AuditMatchesTables` | `PendingAuditTrue` |
| | `OperationsImplementDayPlan` | `ImplementsDayPlan` | `DutyAgrees`, `VersionsCurrent` |
| | `NoPermitLost`, `BatchResultsHold`, `BatchRosterSafe` | `[]PermitsReturned`, `[]ResultsTrue`, both roster rules beside a batch | `BatchKeepsCore`, `BatchTyped` |
| `SchedulingProofs` | `VerdictIsRight`, `OnlyTheTargetRefuses` | `[]VerdictIsReference`, `[]RefusedForTheTarget` | `LoopInv`, `RosterIs` |
| `CrewProofs` | `TypeCorrect`, `CertificationsAreKept`, `SuspensionsStand` | `[]TypeOK`, `[]CertificationsKept`, `SuspensionStands` | `KeptInv` |
| | `AuditedOnce` | `[]ChangesAuditedOnce` | `SeenCurrent`, cardinality of `Unaudited` |
| `OutboxProofs` | `TypeCorrect`, `ClaimedJobsFresh` | `[]TypeOK`, `[]BatchFresh` | `WorkerInv` |
| | `OutboxImplementsJobQueue` | `ImplementsJobQueue` | `WorkerInv` |
| `InspectionItemsProofs` | `TypeCorrect`, `SubmittedIsFinal` | `[]TypeOK`, `HeaderFinal` | `VersionTells` |
| | `AnsweredItemsKept`, `VerdictsMatch` | `[]RecordedKept`, `[]VerdictMatchesItems` | `ChecklistInv` |
| `ServerProofs` | `TypeCorrect`, `MigrationIsWhole`, `FleetIsPreserved` | `[]TypeOK`, `[]MigratedWhole`, `FleetPreserved` | `StartupInv` |
| | `RateIsBounded`, `ObedientAreAdmitted` | `[]RateBounded`, `[]ObedientAdmitted` | `LimiterInv`, `ClockInv` |
| | `LiveSessionsOnly` | `[]OnlyLiveSessionsTrusted` | `SessionsInv` |
| `ReconciliationProofs` | `RowsAreReadOnce`, `MismatchesAreReal` | `[]EveryRowOnce`, `[]MismatchOnlyOutsideDay` | `Inv` of that module |
| | `TripsCountedWhereServed` | `[]CountedWhereServed` in a `FixedZone` | `StartsAreInstants`, `WholeSecondSorts` |

### The arguments

**Operations.** `CancelShift` and `StartMaintenance` write rows computed from an
earlier read. That this is harmless is `VersionsCurrent`: a row a request has
read is the stored row as long as the version has not moved. With it, a stale
write that passes its version check is a fresh one, and every other property is
kept step by step as if each operation were atomic. Without it none of them is
inductive: a remembered "scheduled" row could overwrite a shift in progress.
`OdometerHistory` speaks of pairs of trips; what keeps it is that the vehicle's
odometer has passed every reading recorded for it and an active trip started at
or beyond it. `AnswersAgree` needs that at most one trip has a given vehicle and
key, which the UNIQUE constraint keeps. `AuditMatchesTables` needs
`PendingAuditTrue`: what a request has still to append is true already, because
no step takes back what it has written. `DutyLimited` is about the sum of a set:
`TimeProofs` shows that `DutyOf` does not depend on the order in which the
fold takes the elements and grows with the set; the invariant `RostersWithin`
then follows from the condition of `AssignShift`, all other steps only taking
shifts away. Each `...Step` lemma has one step per action; the theorems combine
them with PTL.

**Batch.** Every step of a batch is a step of `Operations` or leaves its variables
alone (`BatchStepsAreSteps`), so the invariants above hold beside it.
`ResultsTrue` is kept because a shift that is assigned never changes its vehicle.
`PermitsReturned` counts the running goroutines.

**DayPlan.** The refinement maps every action that writes the shift table to one
action of the plan and all others to a stutter. `ReturnTrip` and `StartTrip` write
trips as well; that the trip of the step is the only one of its shift is
`DutyAgrees`.

**Scheduling.** `LoopInv` says that the roster holds the rows of the vehicle seen so
far, sorted and allowed as a whole, in each of the phases of the loop; a refusal
is one row that is incompatible, or a sum over the limit, and `DutyOfFewer` lifts
it to the roster as a whole, whatever rows are still unread.

**Crew and InspectionItems.** Delete and insert are separate statements, so the
list in the table is not the list of the record for most of the time. The
invariants say how far the one rewriting request has come (`Progress`): what it
has still to insert is missing, the rest is as agreed. That only one rewrites at
a time follows from the versions (`UpdatersReady`, `OneRewriting`) or, where the
code has no such check, from the history that tells of a disturbance.

**Outbox.** A claimed row that has not been handled is the stored row
(`BatchFresh`; that the second it falls due in has begun is `DueBySecond`, since texts
of different seconds sort as the seconds do, `SecondsSort`), the ids of a batch differ (`BatchDistinct`), so that no mark touches
the row of another, and what the worker is about to mark has been delivered, or
has failed once more than its row says (`CurrentJob`). The step of `JobQueue` that a
mark maps to follows.

**Server.** The parts are independent but for the clock and the phase, and each
has its own invariant. `LeftByStatements` says what a start broken off leaves.
`RateBounded` is a statement about pairs of admissions that no bucket remembers;
`SpentTruly` ties them to the bucket: the tokens left, the tokens spent since any
admission and the refill that a clock set back may still grant a second time are
covered by a full bucket and the time since, steps forward of the clock counted
(`ElapsedTime`: what a clock shows that was never set back only grows). `ToldTruly` says that a client
refused again as it came back was short of half a second's refill at most, which
the next answer more than gives it. `CallTruly` is what a request carries from its
arrival: a session that was revoked then is revoked still.

**Reconciliation.** A page by offset is right as long as what has been read is still
the head of the list. The invariant says that the rows read are a part of the
list that is closed under "sorted before" (`FirstShifts`, `FirstTrips`). The order
of the text keys is total on the rows because no two instants have one text
(`TextKeys`), and that of shifts which start alike is their status and number
(`RanksAreNumbers`); a page lengthens such a part by the rows of the next ranks
(`PageExtends`), a list of distinct rows is a count of them (`RowsAreShifts`), and
a row inserted or moved either comes behind or sets `slipped`, and as long as it does
not the rows read stay such a part (`HeadsStand`). Since shifts are read first and
statuses never go back, a shift read as completed has its completed trip among
those read later. `TripsCountedWhereServed` needs how a whole second sorts among
texts: after the instants within it (`WholeSecondSorts`).

### What the proofs assume

Only the named ASSUMEs of the modules, which TLC evaluates in the runs:

* the absent value is none of the identifiers, windows end after they start,
  readings, moments, limits and page sizes are natural numbers, positive where
  the code has a positive constant (`MaximumDutyIsPositive`, `PagesAreNotEmpty`,
  `AttemptsArePositive`, ...);
* what is counted or summed is finite: callers of `Crew`, jobs, slots of a batch,
  plates, shifts of a report;
* `FoundAreLeftovers`: a first start finds a database that some release or start
  has left; `ModernIsDemo`, `PlatesDiffer`: the two plates of migration 2;
* `HoursAreSeconds`: an hour is a whole number of seconds; `FractionsAreFractions`: a
  fraction is less than a second; `MomentsAssumption`: moments and the steps of the
  clock are natural numbers, and there is a first moment.

`TripsCountedWhereServed` alone has a hypothesis, `FixedZone`: the same offset at all
times, a whole number of seconds. The configured zone has had one since 1991. In
a zone with daylight saving the statement is false on two days of the year.

Sums and powers of ten are recursive functions or folds. The induction theorems
of the library take an operator, which the provers cannot instantiate, so
`NatSetInduction` states induction for a set of naturals and proves it from the
well-foundedness of `<`; existence of the function and uniqueness of the sum are
proved from it (`SumExists`, `SumUnique`, `TicksExist`).

**Only model-checked.** Liveness: `CheckReturns`, `SettlesWhileRunning`,
`ReportsReturn`, `EventuallyServes` (fairness and ENABLED are out of the prover's
reach). The three findings, which are counterexamples.

## 6. Not modelled, and the plan

Not modelled, and why:

* HTTP decoding and error codes, CORS and request ids, configuration, health
  probes, logging, identifiers and field validation: no protocol to check.
* Listings (`service/query`) and the list queries that only they use: no state of
  their own. The pages a program reads are modelled where it reads them.
* The single connection of the store as a resource: no `WithTx` callback asks for
  a second one, so nothing could be seen but that.
* Daylight saving: instances of `BusinessDay` have a constant offset. The
  configured zone has none; in another one the bounds of a day would be an hour off
  on two days of the year, and `CountedWhereServed` would fail there.
* `CreateRoute`, the incident transitions, `Order.Cancel`, `Trip.Cancel`,
  `Limiter.Cleanup`, `FindIdempotency`: rows nothing depends on, or no caller.

Plan: proofs.

1. The torn window of `Crew` and the disturbance of `InspectionItems` stated without
   history: which sequences of statements lose an item.
2. The composition of `Outbox` with the jobs that `Operations` leaves: both sides are
   proved, the join is not stated.
3. The service day in a zone with daylight saving: which instants two days share
   and which none has (`BusinessDay` allows any offset).
