------------------------------ MODULE Scheduling ------------------------------
(***************************************************************************)
(* Checker.CanAssign (src/internal/service/scheduling/checker.go): the loop *)
(* that reads the shifts of a service date page by page and folds those of  *)
(* the vehicle into a Roster, then adds the target shift.  It runs inside   *)
(* the transaction of AssignShift, so the table does not change under it.   *)
(*                                                                          *)
(* Operations takes the verdict as one declarative condition; here the loop *)
(* itself is checked against that condition.                                *)
(***************************************************************************)
EXTENDS Windows, Sequences, SequencesExt

CONSTANTS
    MaxRows,        \* BOUND: shifts on the date
    Horizon,        \* BOUND: windows start and end within 0..Horizon
    PageLimit,      \* rows per page (100 in the code)
    MaximumDuty, MinimumBreak

ASSUME PagesAreNotEmpty == PageLimit \in Nat \ {0}
ASSUME LimitsAreNat == MaximumDuty \in Nat \ {0} /\ MinimumBreak \in Nat \ {0}
ASSUME BoundsAreNat == MaxRows \in Nat /\ Horizon \in Nat

VARIABLES
    table,      \* the shifts of the date, ordered by start
    target,     \* position of the shift to assign: it is one of them
    offset,     \* rows in the pages read completely
    next,       \* position in the current page
    roster,
    verdict     \* "open", "accepted" or "refused"

vars == <<table, target, offset, next, roster, verdict>>

-----------------------------------------------------------------------------
AllWindows == {w \in [start : 0..Horizon, end : 0..Horizon] : IsWindow(w)}

\* A row belongs to the vehicle or not; only one that does matters when
\* cancelled.
Rows == {row \in [window : AllWindows, mine : BOOLEAN, cancelled : BOOLEAN] :
            row.cancelled => row.mine}

\* ORDER BY service_date, start_at; ties in any order.
OrderedByStart(rows) ==
    \A i, j \in DOMAIN rows :
        i < j => rows[i].window.start <= rows[j].window.start

\* LIMIT PageLimit OFFSET o
Page(o) ==
    SubSeq(table, o + 1,
           IF o + PageLimit < Len(table) THEN o + PageLimit ELSE Len(table))

Held(row) == row.mine /\ ~row.cancelled

-----------------------------------------------------------------------------
(* Roster: the windows taken and their total duty                           *)

EmptyRoster == [windows |-> <<>>, duty |-> 0]
Entry(i) == [id |-> i, window |-> table[i].window]

\* No window but the one of the same shift stands in the way.
Fits(r, entry) ==
    \A e \in ToSet(r.windows) :
        e.id = entry.id \/ Compatible(e.window, entry.window, MinimumBreak)

Addable(r, entry) ==
    Fits(r, entry) /\ r.duty + Duration(entry.window) <= MaximumDuty

\* sort.Slice: windows that start alike come in any order.
ByStart(list) ==
    LET order == CHOOSE p \in Bijection(DOMAIN list, DOMAIN list) :
                    \A i, j \in DOMAIN list : i < j =>
                       list[p[i]].window.start <= list[p[j]].window.start
    IN  [i \in DOMAIN list |-> list[order[i]]]

Add(r, entry) ==
    [windows |-> ByStart(Append(r.windows, entry)),
     duty |-> r.duty + Duration(entry.window)]

-----------------------------------------------------------------------------
Init ==
    /\ table \in {rows \in BoundedSeq(Rows, MaxRows) : OrderedByStart(rows)}
    /\ target \in DOMAIN table
    /\ ~table[target].cancelled
    /\ offset = 0
    /\ next = 1
    /\ roster = EmptyRoster
    /\ verdict = "open"

InPage == verdict = "open" /\ next <= Len(Page(offset))

SkipRow ==
    /\ InPage
    /\ ~Held(Page(offset)[next])
    /\ next' = next + 1
    /\ UNCHANGED <<table, target, offset, roster, verdict>>

AddRow ==
    /\ InPage
    /\ Held(Page(offset)[next])
    /\ LET entry == Entry(offset + next)
       IN  IF Addable(roster, entry)
           THEN roster' = Add(roster, entry) /\ UNCHANGED verdict
           ELSE verdict' = "refused" /\ UNCHANGED roster
    /\ next' = next + 1
    /\ UNCHANGED <<table, target, offset>>

AtPageEnd == verdict = "open" /\ next > Len(Page(offset))

\* Mutated forms: the next page starts one row late, one row early.
OffsetPastPage(o) == o + Len(Page(o)) + 1
OffsetInsidePage(o) == o + Len(Page(o)) - 1
\* offset += len(page.Items)
OffsetAfterPage(o) == o + Len(Page(o))

NextPage ==
    /\ AtPageEnd
    /\ OffsetAfterPage(offset) < Len(table)
    /\ offset' = OffsetAfterPage(offset)
    /\ next' = 1
    /\ UNCHANGED <<table, target, roster, verdict>>

AddTarget ==
    /\ AtPageEnd
    /\ OffsetAfterPage(offset) >= Len(table)
    /\ verdict' = IF Addable(roster, Entry(target)) THEN "accepted"
                  ELSE "refused"
    /\ UNCHANGED <<table, target, offset, next, roster>>

Next == SkipRow \/ AddRow \/ NextPage \/ AddTarget

\* A loop of one goroutine: it keeps running until it returns.
Spec == Init /\ [][Next]_vars /\ WF_vars(Next)

-----------------------------------------------------------------------------
(* Reference: the condition Operations!CanAssign states over sets           *)

HeldRows == {i \in DOMAIN table : Held(table[i])}
WindowOf == [i \in DOMAIN table |-> table[i].window]

RosterAllowed(S) ==
    /\ \A a, b \in S : a # b =>
          Compatible(table[a].window, table[b].window, MinimumBreak)
    /\ DutyOf(S, WindowOf) <= MaximumDuty

\* The paged, incremental, early-exit loop accepts exactly the rosters that
\* are allowed as a whole, in whatever order rows with equal starts come.  (A
\* target the vehicle holds already is counted twice by the loop, and refused
\* by CheckAssignment.)
VerdictIsReference ==
    verdict # "open" /\ ~Held(table[target]) =>
        (verdict = "accepted" <=> RosterAllowed(HeldRows \cup {target}))

\* A vehicle whose roster is in order can only be refused because of the new
\* shift: no row it already holds makes the loop give up.
RefusedForTheTarget ==
    verdict = "refused" /\ RosterAllowed(HeldRows) =>
        ToSet(roster.windows) = {Entry(i) : i \in HeldRows}

\* The loop over pages ends.
CheckReturns == <>(verdict # "open")

=============================================================================
