---------------------------- MODULE Reconciliation ----------------------------
(***************************************************************************)
(* The report on one service day (src/internal/service/reconciliation,      *)
(* src/internal/domain/reconciliation).  It reads the shifts and then the   *)
(* trips page by page, outside a transaction, while the shifts and trips of *)
(* DayPlan go on; each COUNT and each SELECT is a statement of its own.     *)
(*                                                                          *)
(* A shift is numbered by its rowid, the order in which rows are inserted.  *)
(***************************************************************************)
EXTENDS DayPlan, BusinessDay, TimeText, SequencesExt

CONSTANTS
    Date,           \* the service date reported on
    Limit,          \* rows of a page
    Windows,        \* BOUND: windows clients ask for, for each shift
    Instants,       \* BOUND: the moments at which something happens
    ZeroDistance,   \* shifts whose trip ends at the reading it started with
    None

ASSUME ShiftsAreNumbers == Shifts \subseteq Nat /\ IsFiniteSet(Shifts)
ASSUME HoursAreSeconds == Hour % Second = 0
ASSUME LimitIsPositive == Limit \in Nat \ {0}
ASSUME WindowsAreWindows ==
    Windows \in [Shifts -> SUBSET [start : Int, end : Int]]
ASSUME InstantsAreNat == Instants \subseteq Nat /\ Instants # {}

VARIABLES
    window,     \* start_at and end_at of each planned shift
    started,    \* started_at of each trip, named by its shift
    now,
    reading,    \* the request, between two statements
    slipped     \* history: while one of the lists was read, a row came to stand
                \* before a row of it that it had not stood before

vars == <<planVars, window, started, now, reading, slipped>>

-----------------------------------------------------------------------------
(* The tables as the queries see them                                       *)

Planned == {s \in Shifts : status[s] # "absent"}
Started == {s \in Shifts : trips[s] # {}}

\* started_at >= from AND started_at < to, on texts.
InDay(d, t) == ~TextBefore(t, Lower(d)) /\ TextBefore(t, Upper(d))
MomentsOfDay == {t \in Instants : InDay(Date, t)}
StartedInDay == {s \in Started : started[s] \in MomentsOfDay}

Moments == Instants \cup {w.start : w \in UNION Range(Windows)}
SortKey == [t \in Moments |-> TextKey(t)]

\* The order of the texts in the status column.
StatusRank(s) == [assigned |-> 1, cancelled |-> 2, completed |-> 3,
                  in_progress |-> 4, scheduled |-> 5][status[s]]

\* ORDER BY start_at.  The query says nothing about ties: they come as the index
\* on service_date and status has them, so a row moves when its status changes.
ShiftBefore(s, u) ==
    \/ SortKey[window[s].start] < SortKey[window[u].start]
    \/ /\ SortKey[window[s].start] = SortKey[window[u].start]
       /\ \/ StatusRank(s) < StatusRank(u)
          \/ StatusRank(s) = StatusRank(u) /\ s < u
\* ORDER BY created_at, which is the time of the start.
TripBefore(s, u) == SortKey[started[s]] < SortKey[started[u]]

ShiftList ==
    [i \in 1..Cardinality(Planned) |->
        CHOOSE s \in Planned :
            Cardinality({u \in Planned : ShiftBefore(u, s)}) = i - 1]
TripList ==
    [i \in 1..Cardinality(StartedInDay) |->
        CHOOSE s \in StartedInDay :
            Cardinality({u \in StartedInDay : TripBefore(u, s)}) = i - 1]

\* LIMIT ? OFFSET ?
Page(list, offset) ==
    [i \in 1..(Min({offset + Limit, Len(list)}) - offset) |-> list[offset + i]]

\* Mutated form: one row is skipped between two pages.
OffsetPastPage(offset) ==
    IF offset + Limit + 1 < Cardinality(Shifts) THEN offset + Limit + 1
    ELSE Cardinality(Shifts)
\* BOUND: from Cardinality(Shifts) on every page is empty.
OffsetAfterPage(offset) ==
    IF offset + Limit < Cardinality(Shifts) THEN offset + Limit
    ELSE Cardinality(Shifts)

-----------------------------------------------------------------------------
(* domain.Evaluate                                                          *)

ShiftFindings(row, tripRows, at) ==
    LET mine == {i \in DOMAIN tripRows : tripRows[i].shift = row.shift}
    IN  {code \in {"completed_shift_trip_mismatch", "shift_overrun",
                   "assigned_shift_not_started", "scheduled_shift_unassigned",
                   "multiple_trips_for_shift"} :
            CASE code = "completed_shift_trip_mismatch" ->
                    /\ row.status = "completed"
                    /\ ~\E i \in mine :
                          mine = {i} /\ tripRows[i].status = {"completed"}
              [] code = "shift_overrun" ->
                    row.status = "in_progress" /\ at > row.end
              [] code = "assigned_shift_not_started" ->
                    row.status = "assigned" /\ at > row.end
              [] code = "scheduled_shift_unassigned" ->
                    row.status = "scheduled" /\ at > row.start
              [] code = "multiple_trips_for_shift" ->
                    \E i, j \in mine : i # j}

TripFindings(row, at) ==
    {code \in {"long_running_trip", "zero_distance_trip"} :
        CASE code = "long_running_trip" ->
                row.status = {"active"} /\ at - row.started > 16 * Hour
          [] code = "zero_distance_trip" ->
                row.status = {"completed"} /\ row.shift \in ZeroDistance}

Evaluate(shiftRows, tripRows, at) ==
    (UNION {{[code |-> c, shift |-> row.shift] :
                c \in ShiftFindings(row, tripRows, at)} : row \in ToSet(shiftRows)})
    \cup
    (UNION {{[code |-> c, shift |-> row.shift] :
                c \in TripFindings(row, at)} : row \in ToSet(tripRows)})

-----------------------------------------------------------------------------
Idle == [at |-> "idle"]

Init ==
    /\ PlanInit
    /\ window = [s \in Shifts |-> None]
    /\ started = [s \in Shifts |-> None]
    /\ now = Min(Instants)
    /\ reading = Idle
    /\ slipped = FALSE

ReadingShifts == reading.at \in {"count_shifts", "select_shifts"}
ReadingTrips == reading.at \in {"count_trips", "select_trips"}

-----------------------------------------------------------------------------
(* The day goes on                                                          *)

\* The step inserts or moves a row in front of another of the list being read.
ShiftsSlip ==
    /\ ReadingShifts
    /\ \E s \in Planned', u \in Planned :
          ShiftBefore(s, u)' /\ (s \in Planned => ~ShiftBefore(s, u))
TripsSlip ==
    /\ ReadingTrips
    /\ \E s \in StartedInDay', u \in StartedInDay :
          TripBefore(s, u)' /\ (s \in StartedInDay => ~TripBefore(s, u))
Slip == slipped' = (slipped \/ ShiftsSlip \/ TripsSlip)

Tick ==
    /\ now' \in {t \in Instants : t > now}
    /\ UNCHANGED <<planVars, window, started, reading, slipped>>

CreateShift(s, w) ==
    /\ \A u \in Shifts : u < s => u \in Planned
    /\ WindowInDay(Date, w)
    /\ PlanShift(s)
    /\ window' = [window EXCEPT ![s] = w]
    /\ UNCHANGED <<started, now, reading>>
    /\ Slip

AssignShift(s) ==
    /\ Assign(s)
    /\ UNCHANGED <<window, started, now, reading>>
    /\ Slip

\* Neither AssignShift nor StartTrip compares the clock with the window.  One
\* transaction at a time, on a clock of nanoseconds: no two trips start at once.
StartTrip(s) ==
    /\ \A u \in Started : started[u] # now
    /\ Start(s)
    /\ started' = [started EXCEPT ![s] = now]
    /\ UNCHANGED <<window, now, reading>>
    /\ Slip

ReturnTrip(s) ==
    /\ Return(s)
    /\ UNCHANGED <<window, started, now, reading>>
    /\ Slip

CancelShift(s) ==
    /\ Cancel(s)
    /\ UNCHANGED <<window, started, now, reading>>
    /\ Slip

-----------------------------------------------------------------------------
(* Service.Evaluate, statement by statement                                 *)

\* "since" is history: the rows there when the reading began.
Begin ==
    /\ reading = Idle
    /\ reading' = [at |-> "count_shifts", offset |-> 0, total |-> 0,
                   shifts |-> <<>>, trips |-> <<>>, since |-> Planned]
    /\ slipped' = FALSE
    /\ UNCHANGED <<planVars, window, started, now>>

CountShifts ==
    /\ reading.at = "count_shifts"
    /\ reading' = [reading EXCEPT !.at = "select_shifts",
                                  !.total = Cardinality(Planned)]
    /\ UNCHANGED <<planVars, window, started, now, slipped>>

\* Mutated form: trips are looked for before the last shifts.
AllReadEarly(list, total) == Len(list) >= total - 1
AllRead(list, total) == Len(list) >= total

SelectShifts ==
    /\ reading.at = "select_shifts"
    /\ LET page == Page(ShiftList, reading.offset)
           rows == [i \in DOMAIN page |->
                      [shift |-> page[i], status |-> status[page[i]],
                       start |-> window[page[i]].start,
                       end |-> window[page[i]].end]]
           list == reading.shifts \o rows
       IN  reading' =
             IF AllRead(list, reading.total)
             THEN [reading EXCEPT !.at = "count_trips", !.shifts = list,
                                  !.offset = 0, !.total = 0]
             ELSE [reading EXCEPT !.at = "count_shifts", !.shifts = list,
                                  !.offset = OffsetAfterPage(@), !.total = 0]
    /\ UNCHANGED <<planVars, window, started, now, slipped>>

CountTrips ==
    /\ reading.at = "count_trips"
    /\ reading' = [reading EXCEPT !.at = "select_trips",
                                  !.total = Cardinality(StartedInDay)]
    /\ UNCHANGED <<planVars, window, started, now, slipped>>

SelectTrips ==
    /\ reading.at = "select_trips"
    /\ LET page == Page(TripList, reading.offset)
           rows == [i \in DOMAIN page |->
                      [shift |-> page[i], status |-> trips[page[i]],
                       started |-> started[page[i]]]]
           list == reading.trips \o rows
       IN  reading' =
             IF AllRead(list, reading.total)
             THEN [reading EXCEPT !.at = "evaluate", !.trips = list,
                                  !.offset = 0, !.total = 0]
             ELSE [reading EXCEPT !.at = "count_trips", !.trips = list,
                                  !.offset = OffsetAfterPage(@), !.total = 0]
    /\ UNCHANGED <<planVars, window, started, now, slipped>>

\* The report answered is the one these properties call Findings.
Answer ==
    /\ reading.at = "evaluate"
    /\ reading' = Idle
    /\ UNCHANGED <<planVars, window, started, now, slipped>>

\* A statement fails or the request's time is over.
Abort ==
    /\ reading # Idle
    /\ reading' = Idle
    /\ UNCHANGED <<planVars, window, started, now, slipped>>

-----------------------------------------------------------------------------
Read == CountShifts \/ SelectShifts \/ CountTrips \/ SelectTrips \/ Answer

Next ==
    \/ Tick
    \/ \E s \in Shifts : \E w \in Windows[s] : CreateShift(s, w)
    \/ \E s \in Shifts : \/ AssignShift(s)
                         \/ StartTrip(s)
                         \/ ReturnTrip(s)
                         \/ CancelShift(s)
    \/ Begin
    \/ Read
    \/ Abort

\* WF_vars(Read), written out, as TLC would work out ENABLED Read at every edge:
\* a reading always has a next statement, which its goroutine comes to.
ReadingGoesOn == []<>(reading = Idle) \/ []<><<Read>>_vars

Spec == Init /\ [][Next]_vars /\ ReadingGoesOn

-----------------------------------------------------------------------------
\* The lists are read and the report is due.
Reported == reading.at = "evaluate"
Findings == Evaluate(reading.shifts, reading.trips, now)
FoundFor(s) == {f.code : f \in {g \in Findings : g.shift = s}}

NoRowTwice(list) ==
    \A i, j \in DOMAIN list : list[i].shift = list[j].shift => i = j
ListedIn(list) == {row.shift : row \in ToSet(list)}

\* The paged lists hold no row twice, and every shift that was there when the
\* reading began, unless a row was inserted, or moved by its status among rows
\* that start alike, in front of another meanwhile.
EveryRowOnce ==
    Reported /\ ~slipped =>
        /\ NoRowTwice(reading.shifts) /\ NoRowTwice(reading.trips)
        /\ reading.since \subseteq ListedIn(reading.shifts)

\* Because shifts are read before trips, a shift that the report lists as
\* completed is called a mismatch exactly if its trip lies outside the bounds
\* of the day: never because the two tables were read at different moments.
MismatchOnlyOutsideDay ==
    Reported /\ ~slipped =>
        \A row \in ToSet(reading.shifts) :
            /\ "multiple_trips_for_shift" \notin FoundFor(row.shift)
            /\ "completed_shift_trip_mismatch" \in FoundFor(row.shift) <=>
                  /\ row.status = "completed"
                  /\ started[row.shift] \notin MomentsOfDay

DatesNear(t) == (ServiceDate(t) - 1)..(ServiceDate(t) + 1)
CountedFor == [t \in Instants |-> {d \in DatesNear(t) : InDay(d, t)}]

\* A trip counts for its service date; only in the first second of a day, where
\* texts sort otherwise than instants, it may count for the day before.
CountedWhereServed ==
    \A s \in Started :
        LET served == ServiceDate(started[s])
            counted == CountedFor[started[s]]
        IN  \/ counted = {served}
            \/ /\ counted = {served - 1}
               /\ started[s] - Lower(served) \in 1..(Second - 1)

\* A report ends, answered or aborted, however many shifts and trips are
\* inserted while it reads.
ReportsReturn == reading # Idle ~> reading = Idle

=============================================================================
