----------------------------- MODULE BusinessDay ------------------------------
(***************************************************************************)
(* The service day of src/internal/businessday/businessday.go.  Instants    *)
(* are integers on one line; dates are numbered; a zone is the offset of    *)
(* its clocks from that line at each instant.                               *)
(***************************************************************************)
EXTENDS Integers

CONSTANTS
    Hour,           \* length of an hour on the line of instants
    CutoffHour,     \* a service day begins at this hour of its date
    Offset(_),      \* offset of local clocks at an instant
    LeastOffset,    \* BOUND: the offsets a zone has
    GreatestOffset

ASSUME HourIsPositive == Hour \in Nat \ {0}
ASSUME CutoffIsAnHour == CutoffHour \in 0..23
ASSUME OffsetsAreInt == {LeastOffset, GreatestOffset} \subseteq Int

DayLength == 24 * Hour
Local(t) == t + Offset(t)

\* Before the cutoff hour it is still the date before.
ServiceDate(t) ==
    IF Local(t) % DayLength < CutoffHour * Hour
    THEN Local(t) \div DayLength - 1
    ELSE Local(t) \div DayLength

\* The instant at which local clocks show the first moment of the date.
Midnight(d) ==
    CHOOSE t \in (d * DayLength - GreatestOffset)..(d * DayLength - LeastOffset) :
        Local(t) = d * DayLength

Lower(d) == Midnight(d) + CutoffHour * Hour
\* Mutated form: the day ends at the next midnight.
UpperAtMidnight(d) == Midnight(d) + DayLength
\* 24 hours after the lower bound, whatever the clocks did in between.
Upper(d) == Lower(d) + DayLength

\* ValidateWindow: a shift starts and ends within its service day.
WindowInDay(d, window) ==
    /\ Lower(d) <= window.start /\ window.start < Upper(d)
    /\ window.start < window.end /\ window.end <= Upper(d)

=============================================================================
