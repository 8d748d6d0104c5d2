------------------------------- MODULE Windows --------------------------------
(***************************************************************************)
(* Time windows of shifts and the pairwise rules a vehicle's roster obeys   *)
(* (src/internal/domain/schedule/schedule.go).  Instants are integers; one  *)
(* unit is whatever the instance chooses (an hour, a quarter of an hour).   *)
(***************************************************************************)
EXTENDS Integers, FiniteSetsExt

\* What schedule.NewWindow accepts: an end after the start.
IsWindow(w) == w.start \in Int /\ w.end \in Int /\ w.start < w.end

Duration(w) == w.end - w.start

Overlaps(a, b) == a.start < b.end /\ b.start < a.end

\* Gap(a, b) when the windows touch is 0, exactly as when they overlap.
Gap(a, b) ==
    IF Overlaps(a, b) THEN 0
    ELSE IF a.end < b.start THEN b.start - a.end ELSE a.start - b.end

\* The two rejections in the loop of Roster.Add.  A gap of exactly 0 between
\* windows that touch passes, because the break test asks for gap > 0.
Compatible(a, b, minimumBreak) ==
    /\ ~Overlaps(a, b)
    /\ ~(Gap(a, b) > 0 /\ Gap(a, b) < minimumBreak)

\* Hours on duty of a set of shifts S whose windows are given by window.
DutyOf(S, window) == MapThenSumSet(LAMBDA s : Duration(window[s]), S)

=============================================================================
