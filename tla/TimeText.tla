------------------------------- MODULE TimeText -------------------------------
(***************************************************************************)
(* Instants in the database are RFC 3339 text with the fraction of a second *)
(* cut of its trailing zeros, and SQL compares them as text (formatTime in  *)
(* src/internal/storage/sqlite/scan.go).  Within one second "Z" is greater  *)
(* than every digit and than ".", so a shorter fraction sorts AFTER all     *)
(* that extend it: ".07Z" < ".53Z" < ".5Z" < ".6Z" < "Z".                   *)
(***************************************************************************)
EXTENDS Integers, FiniteSetsExt

CONSTANT Digits     \* BOUND: digits of a fraction; the code keeps nine

ASSUME DigitsIsNat == Digits \in Nat

\* The instants that the last k digits of a fraction tell apart: 10 ^ k.
Ticks[k \in 0..Digits] == IF k = 0 THEN 1 ELSE 10 * Ticks[k - 1]
Second == Ticks[Digits]

\* Digits that formatTime drops from the instant t.
TrailingZeros(t) == Max({k \in 0..Digits : t % Ticks[k] = 0})

\* Orders instants as their texts: a text comes after every instant it is a
\* prefix of, and of two such texts the shorter one is the greater.
TextKey(t) ==
    (t + Ticks[TrailingZeros(t)]) * (Digits + 1) + TrailingZeros(t)

TextBefore(a, b) == TextKey(a) < TextKey(b)

=============================================================================
