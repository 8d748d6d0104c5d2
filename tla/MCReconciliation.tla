--------------------------- MODULE MCReconciliation ---------------------------
(***************************************************************************)
(* An instance of Reconciliation: fractions of one digit, and an hour that  *)
(* lasts one second, so that a day is 240 ticks.  Clocks are eight hours    *)
(* ahead, as in Asia/Shanghai: the service day 1 is 200..439.               *)
(***************************************************************************)
EXTENDS Reconciliation

MCOffset(t) == 80

\* The second row starts like the first, so that their places are those of their
\* status, or sorts before it, as its text does and its instant does not.
\* ValidateWindow refuses the windows that reach beyond the day.
MCWindows ==
    [s \in Shifts |->
        IF s = 1
        THEN {[start |-> 210, end |-> 212], [start |-> 210, end |-> 441]}
        ELSE {[start |-> t, end |-> 440] : t \in {210, 213}}]

=============================================================================
