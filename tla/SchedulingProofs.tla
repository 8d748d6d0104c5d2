--------------------------- MODULE SchedulingProofs ---------------------------
(***************************************************************************)
(* The loop of Checker.CanAssign decides what Operations states of a roster *)
(* as a whole, for any number of shifts on the date, any size of the pages  *)
(* and any limits.                                                          *)
(***************************************************************************)
EXTENDS Scheduling, SequenceTheorems, TimeProofs

-----------------------------------------------------------------------------
(* The lists of a Roster                                                     *)

Entries == [id : Nat, window : AllWindows]

Sorted(list) ==
    \A i, j \in DOMAIN list :
        i < j => list[i].window.start <= list[j].window.start

\* A window that starts no earlier than those in the list is taken in, whatever
\* permutation sort.Slice comes to.
LEMMA SortTakesIn ==
    ASSUME NEW list \in Seq(Entries), NEW e \in Entries, Sorted(list),
           \A i \in DOMAIN list : list[i].window.start <= e.window.start
    PROVE  LET new == ByStart(Append(list, e))
           IN  /\ new \in Seq(Entries)
               /\ Sorted(new)
               /\ ToSet(new) = ToSet(list) \cup {e}
<1> DEFINE n == Len(list) + 1
           all == Append(list, e)
           Orders(p) == /\ p \in Bijection(1..n, 1..n)
                        /\ \A i, j \in 1..n : i < j =>
                              all[p[i]].window.start <= all[p[j]].window.start
<1>1. /\ n \in Nat /\ all \in Seq(Entries) /\ DOMAIN all = 1..n
      /\ all[n] = e /\ \A i \in 1..n : i # n => all[i] = list[i]
      /\ \A i \in 1..n : i # n => i \in DOMAIN list
      /\ \A i \in DOMAIN list : i \in 1..n /\ i # n
    OBVIOUS
<1> HIDE DEF all, n
<1>2. \A i, j \in 1..n : i < j =>
          all[i].window.start <= all[j].window.start
    <2> SUFFICES ASSUME NEW i \in 1..n, NEW j \in 1..n, i < j
                 PROVE  all[i].window.start <= all[j].window.start
        OBVIOUS
    <2>1. i # n /\ i \in DOMAIN list
        BY <1>1
    <2>2. CASE j = n
        BY <1>1, <2>1, <2>2
    <2>3. CASE j # n
        BY <1>1, <2>1, <2>3 DEF Sorted
    <2>4. QED
        BY <2>2, <2>3
<1>3. \E p : Orders(p)
    <2> DEFINE q == [i \in 1..n |-> i]
    <2>1. q \in [1..n -> 1..n] /\ \A i \in 1..n : q[i] = i
        OBVIOUS
    <2> HIDE DEF q
    <2>2. q \in Bijection(1..n, 1..n)
        BY <2>1 DEF Bijection, Injection, Surjection, IsInjective
    <2>3. Orders(q)
        BY <1>2, <2>1, <2>2
    <2> HIDE DEF Orders
    <2>4. QED
        BY <2>3
<1>4. PICK p : p = CHOOSE f : Orders(f)
    OBVIOUS
<1>5. Orders(p)
    <2> HIDE DEF Orders
    <2>1. QED
        BY <1>3, <1>4
<1>6. ByStart(all) = [i \in 1..n |-> all[p[i]]]
    BY <1>1, <1>4 DEF ByStart
<1>7. /\ p \in [1..n -> 1..n]
      /\ \A k \in 1..n : \E i \in 1..n : p[i] = k
    BY <1>5 DEF Bijection, Injection, Surjection
<1> DEFINE new == [i \in 1..n |-> all[p[i]]]
<1>8. new \in Seq(Entries) /\ DOMAIN new = 1..n
    <2>0. \A k \in 1..n : all[k] \in Entries
        BY <1>1, ElementOfSeq, LenProperties
    <2>1. \A i \in 1..n : all[p[i]] \in Entries
        BY <1>7, <2>0
    <2>2. new \in [1..n -> Entries]
        BY <2>1
    <2>3. QED
        BY <1>1, <2>2
<1>9. Sorted(new)
    BY <1>5, <1>8 DEF Sorted
<1>10. ToSet(new) = {all[k] : k \in 1..n}
    BY <1>7, <1>8 DEF ToSet
<1>11. {all[k] : k \in 1..n} = ToSet(list) \cup {e}
    <2>1. \A k \in 1..n : all[k] \in ToSet(list) \cup {e}
        <3> TAKE k \in 1..n
        <3>1. CASE k = n
            BY <1>1, <3>1
        <3>2. CASE k # n
            BY <1>1, <3>2 DEF ToSet
        <3>3. QED
            BY <3>1, <3>2
    <2>2. \A x \in ToSet(list) : \E k \in 1..n : all[k] = x
        BY <1>1 DEF ToSet
    <2>3. \E k \in 1..n : all[k] = e
        <3>1. n \in 1..n
            BY <1>1 DEF n
        <3>2. QED
            BY <1>1, <3>1
    <2>4. QED
        BY <2>1, <2>2, <2>3
<1>12. QED
    BY <1>6, <1>8, <1>9, <1>10, <1>11 DEF all

-----------------------------------------------------------------------------
(* The tables                                                                *)

TableTyped ==
    /\ table \in Seq(Rows)
    /\ OrderedByStart(table)
    /\ target \in DOMAIN table

\* The rows of the table and their windows, by number.
LEMMA RowWindows ==
    ASSUME TableTyped
    PROVE  /\ DOMAIN table = 1..Len(table) /\ Len(table) \in Nat
           /\ \A i \in DOMAIN table :
                 /\ table[i] \in Rows
                 /\ table[i].window \in AllWindows
                 /\ IsWindow(table[i].window)
                 /\ Entry(i) \in Entries
                 /\ WindowOf[i] = table[i].window
           /\ IsFiniteSet(DOMAIN table)
<1>1. /\ DOMAIN table = 1..Len(table) /\ Len(table) \in Nat
      /\ \A i \in DOMAIN table : table[i] \in Rows
    BY DEF TableTyped
<1>2. \A row \in Rows : row.window \in AllWindows /\ IsWindow(row.window)
    BY DEF Rows, AllWindows
<1>3. \A i \in DOMAIN table : Entry(i) \in Entries
    BY <1>1, <1>2 DEF Entry, Entries
<1>4. IsFiniteSet(1..Len(table))
    BY <1>1, FS_Interval
<1>5. QED
    BY <1>1, <1>2, <1>3, <1>4 DEF WindowOf

\* The rows of a page.
LEMMA PageRows ==
    ASSUME TableTyped, NEW o \in 0..Len(table)
    PROVE  /\ Len(Page(o)) \in Nat
           /\ o + Len(Page(o)) <= Len(table)
           /\ o + Len(Page(o)) = Len(table) \/ Len(Page(o)) > 0
           /\ \A k \in 1..Len(Page(o)) : Page(o)[k] = table[o + k]
<1>1. /\ Len(table) \in Nat /\ PageLimit \in Nat /\ PageLimit > 0
      /\ \A i \in 1..Len(table) : table[i] \in Rows
    BY RowWindows, PagesAreNotEmpty
<1>2. PICK last : last = IF o + PageLimit < Len(table) THEN o + PageLimit
                         ELSE Len(table)
    OBVIOUS
<1>3. /\ last \in Int /\ o <= last /\ last <= Len(table)
      /\ last = Len(table) \/ last > o
    BY <1>1, <1>2
<1>4. Page(o) = SubSeq(table, o + 1, last)
    BY <1>2 DEF Page
<1>5. \A i \in (o + 1)..last : table[i] \in Rows
    BY <1>1, <1>3
<1>6. /\ Len(Page(o)) = last - o
      /\ \A k \in 1..(last - o) : Page(o)[k] = table[o + k]
    <2>1. o + 1 \in Int
        OBVIOUS
    <2>2. /\ Len(SubSeq(table, o + 1, last)) =
                 IF o + 1 <= last THEN last - (o + 1) + 1 ELSE 0
          /\ \A k \in 1 .. last - (o + 1) + 1 :
                 SubSeq(table, o + 1, last)[k] = table[o + 1 + k - 1]
        BY <1>3, <1>5, <2>1, SubSeqProperties
    <2>3. last - (o + 1) + 1 = last - o
        BY <1>3
    <2>4. \A k \in 1..(last - o) : o + 1 + k - 1 = o + k
        OBVIOUS
    <2>5. Len(SubSeq(table, o + 1, last)) = last - o
        BY <1>3, <2>2
    <2>6. \A k \in 1..(last - o) : SubSeq(table, o + 1, last)[k] = table[o + k]
        BY <2>2, <2>3, <2>4
    <2>7. QED
        BY <1>4, <2>5, <2>6
<1>7. QED
    BY <1>3, <1>6

-----------------------------------------------------------------------------
(* Rosters as sets of rows                                                   *)

\* Which of two windows is in the roster already makes no difference.
LEMMA CompatibleBothWays ==
    ASSUME NEW a, NEW b, IsWindow(a), IsWindow(b)
    PROVE  Compatible(a, b, MinimumBreak) <=> Compatible(b, a, MinimumBreak)
BY LimitsAreNat DEF Compatible, Overlaps, Gap, IsWindow

\* The hours of a set of rows, and of one row more.
LEMMA RowHours ==
    ASSUME TableTyped, NEW S \in SUBSET DOMAIN table
    PROVE  /\ IsFiniteSet(S)
           /\ DutyOf(S, WindowOf) \in Nat
           /\ \A T \in SUBSET S : DutyOf(T, WindowOf) <= DutyOf(S, WindowOf)
           /\ \A i \in DOMAIN table \ S :
                 DutyOf(S \cup {i}, WindowOf) =
                     DutyOf(S, WindowOf) + Duration(table[i].window)
<1>1. PICK w : w = WindowOf
    OBVIOUS
<1>2. \A i \in DOMAIN table : IsWindow(w[i]) /\ w[i] = table[i].window
    BY <1>1, RowWindows
<1>3. \A T \in SUBSET DOMAIN table : IsFiniteSet(T)
    BY RowWindows, FS_Subset
<1>4. \A T \in SUBSET DOMAIN table :
          /\ DutyOf(T, w) \in Nat
          /\ \A x \in T : DutyOf(T, w) = Hours(x, w) + DutyOf(T \ {x}, w)
    BY <1>2, <1>3, DutyAnyFirst
<1>5. \A T \in SUBSET S : DutyOf(T, w) <= DutyOf(S, w)
    BY <1>2, <1>3, DutyOfFewer
<1>6. ASSUME NEW i \in DOMAIN table \ S
      PROVE  DutyOf(S \cup {i}, w) = DutyOf(S, w) + Duration(table[i].window)
    <2>1. DutyOf(S \cup {i}, w) =
              Hours(i, w) + DutyOf((S \cup {i}) \ {i}, w)
        BY <1>4
    <2>2. (S \cup {i}) \ {i} = S
        OBVIOUS
    <2>3. Hours(i, w) = Duration(table[i].window)
        BY <1>2 DEF Hours
    <2>4. Duration(table[i].window) \in Nat
        BY RowWindows DEF Duration, IsWindow
    <2>5. DutyOf(S \cup {i}, w) = Duration(table[i].window) + DutyOf(S, w)
        BY <2>1, <2>2, <2>3
    <2>6. DutyOf(S, w) \in Nat
        BY <1>4
    <2>7. QED
        BY <2>4, <2>5, <2>6
<1>7. QED
    BY <1>1, <1>3, <1>4, <1>5, <1>6

\* Fewer rows are allowed wherever more are.
LEMMA FewerAllowed ==
    ASSUME TableTyped, NEW S \in SUBSET DOMAIN table, NEW T \in SUBSET S,
           RosterAllowed(S)
    PROVE  RosterAllowed(T)
<1>1. DutyOf(T, WindowOf) <= DutyOf(S, WindowOf)
    BY RowHours
<1>2. DutyOf(T, WindowOf) \in Nat /\ DutyOf(S, WindowOf) \in Nat
    BY RowHours
<1>3. DutyOf(T, WindowOf) <= MaximumDuty
    BY <1>1, <1>2, LimitsAreNat DEF RosterAllowed
<1>4. QED
    BY <1>3 DEF RosterAllowed

\* One row more is allowed where it fits each that is there and the hours left.
LEMMA OneMoreAllowed ==
    ASSUME TableTyped, NEW S \in SUBSET DOMAIN table, RosterAllowed(S),
           NEW i \in DOMAIN table \ S
    PROVE  RosterAllowed(S \cup {i}) <=>
              /\ \A k \in S : Compatible(table[k].window, table[i].window,
                                         MinimumBreak)
              /\ DutyOf(S, WindowOf) + Duration(table[i].window) <= MaximumDuty
<1>1. DutyOf(S \cup {i}, WindowOf) =
          DutyOf(S, WindowOf) + Duration(table[i].window)
    BY RowHours
<1>2. \A k \in S : Compatible(table[i].window, table[k].window, MinimumBreak)
                   <=> Compatible(table[k].window, table[i].window, MinimumBreak)
    <2> TAKE k \in S
    <2>1. IsWindow(table[i].window) /\ IsWindow(table[k].window)
        BY RowWindows
    <2>2. QED
        BY <2>1, CompatibleBothWays
<1>3. RosterAllowed(S \cup {i}) =>
          \A k \in S : Compatible(table[k].window, table[i].window, MinimumBreak)
    BY DEF RosterAllowed
<1>4. ASSUME \A k \in S : Compatible(table[k].window, table[i].window,
                                     MinimumBreak),
             NEW a \in S \cup {i}, NEW b \in S \cup {i}, a # b
      PROVE  Compatible(table[a].window, table[b].window, MinimumBreak)
    <2>1. CASE a \in S /\ b \in S
        BY <1>4, <2>1 DEF RosterAllowed
    <2>2. CASE a \in S /\ b = i
        BY <1>4, <2>2
    <2>3. CASE a = i /\ b \in S
        BY <1>2, <1>4, <2>3
    <2>4. QED
        BY <1>4, <2>1, <2>2, <2>3
<1>5. RosterAllowed(S \cup {i}) <=>
          /\ \A a, b \in S \cup {i} : a # b =>
                Compatible(table[a].window, table[b].window, MinimumBreak)
          /\ DutyOf(S, WindowOf) + Duration(table[i].window) <= MaximumDuty
    BY <1>1 DEF RosterAllowed
<1>6. QED
    BY <1>3, <1>4, <1>5

-----------------------------------------------------------------------------
(* The loop                                                                  *)

\* The roster holds the rows S, in the order of their starts.
RosterIs(S) ==
    /\ roster.windows \in Seq(Entries)
    /\ Sorted(roster.windows)
    /\ ToSet(roster.windows) = {Entry(i) : i \in S}
    /\ roster.duty = DutyOf(S, WindowOf)
    /\ RosterAllowed(S)

\* The rows looked at that the vehicle holds.
Seen == offset + next - 1
Taken == {i \in DOMAIN table : i <= Seen /\ Held(table[i])}

LoopInv ==
    /\ TableTyped
    /\ offset \in 0..Len(table)
    /\ next \in Nat \ {0} /\ next <= Len(Page(offset)) + 1
    /\ verdict \in {"open", "accepted", "refused"}
    /\ verdict = "open" => RosterIs(Taken)
    /\ VerdictIsReference
    /\ RefusedForTheTarget

\* Roster.Add accepts a row exactly if the roster with it is allowed.
LEMMA AddDecides ==
    ASSUME TableTyped, NEW S \in SUBSET DOMAIN table, RosterIs(S),
           NEW i \in DOMAIN table \ S
    PROVE  Addable(roster, Entry(i)) <=> RosterAllowed(S \cup {i})
<1>1. \A e \in ToSet(roster.windows) : \E k \in S : e = Entry(k)
    BY DEF RosterIs
<1>2. \A k \in S : Entry(k) \in ToSet(roster.windows)
    BY DEF RosterIs
<1>3. \A k \in S : /\ Entry(k).id = k /\ Entry(k).window = table[k].window
                   /\ k # i
    BY DEF Entry
<1>4. Entry(i).id = i /\ Entry(i).window = table[i].window
    BY DEF Entry
<1>5. Fits(roster, Entry(i)) <=>
          \A k \in S : Compatible(table[k].window, table[i].window, MinimumBreak)
    BY <1>1, <1>2, <1>3, <1>4 DEF Fits
<1>6. roster.duty = DutyOf(S, WindowOf) /\ RosterAllowed(S)
    BY DEF RosterIs
<1>7. QED
    BY <1>4, <1>5, <1>6, OneMoreAllowed DEF Addable

\* ... and then holds it as well, still in the order of the starts.
LEMMA AddTakesIn ==
    ASSUME TableTyped, NEW S \in SUBSET DOMAIN table, RosterIs(S),
           NEW i \in DOMAIN table \ S, \A k \in S : k < i,
           Addable(roster, Entry(i)),
           roster' = Add(roster, Entry(i)), UNCHANGED table
    PROVE  RosterIs(S \cup {i})'
<1>1. PICK list, e : list = roster.windows /\ e = Entry(i)
    OBVIOUS
<1>2. list \in Seq(Entries) /\ Sorted(list) /\ e \in Entries
      /\ ToSet(list) = {Entry(k) : k \in S}
    BY <1>1, RowWindows DEF RosterIs
<1>3. \A k \in S : table[k].window.start <= table[i].window.start
    BY DEF TableTyped, OrderedByStart
<1>4. \A j \in DOMAIN list : list[j].window.start <= e.window.start
    <2> TAKE j \in DOMAIN list
    <2>1. list[j] \in ToSet(list)
        BY DEF ToSet
    <2>2. PICK k \in S : list[j] = Entry(k)
        BY <1>2, <2>1
    <2>3. QED
        BY <1>1, <1>3, <2>2 DEF Entry
<1>5. PICK new : new = ByStart(Append(list, e))
    OBVIOUS
<1>6. /\ new \in Seq(Entries) /\ Sorted(new)
      /\ ToSet(new) = ToSet(list) \cup {e}
    BY <1>2, <1>4, <1>5, SortTakesIn
<1>7. /\ roster'.windows = new
      /\ roster'.duty = roster.duty + Duration(table[i].window)
    BY <1>1, <1>5 DEF Add, Entry
<1>8. ToSet(new) = {Entry(k) : k \in S \cup {i}}
    BY <1>1, <1>2, <1>6
<1>9. DutyOf(S \cup {i}, WindowOf) = roster'.duty
    BY <1>7, RowHours DEF RosterIs
<1>10. RosterAllowed(S \cup {i})
    BY AddDecides
<1>11. /\ WindowOf' = WindowOf
       /\ \A k : Entry(k)' = Entry(k)
    BY DEF WindowOf, Entry
<1>12. RosterAllowed(S \cup {i})'
    BY <1>10, <1>11 DEF RosterAllowed
<1>13. QED
    BY <1>6, <1>7, <1>8, <1>9, <1>11, <1>12 DEF RosterIs

\* The loop begins with an empty roster.
LEMMA LoopBegins ==
    ASSUME Init
    PROVE  LoopInv
<1>1. table \in Seq(Rows)
    BY BoundsAreNat DEF Init, BoundedSeq, SeqOf
<1>2. TableTyped
    BY <1>1 DEF Init, TableTyped
<1>3. offset = 0 /\ next = 1 /\ verdict = "open" /\ Len(table) \in Nat
    BY <1>2, RowWindows DEF Init
<1>4. Taken = {}
    BY <1>2, <1>3, RowWindows DEF Taken, Seen
<1>5. Len(Page(0)) \in Nat
    BY <1>2, <1>3, PageRows
<1>6. RosterIs({})
    <2>1. RosterAllowed({})
        BY DutyOfNone, LimitsAreNat DEF RosterAllowed
    <2>2. <<>> \in Seq(Entries) /\ Sorted(<<>>) /\ ToSet(<<>>) = {}
        BY DEF Sorted, ToSet
    <2>3. roster.windows = <<>> /\ roster.duty = 0
        BY DEF Init, EmptyRoster
    <2>4. QED
        BY <2>1, <2>2, <2>3, DutyOfNone DEF RosterIs
<1>7. QED
    BY <1>2, <1>3, <1>4, <1>5, <1>6
       DEF LoopInv, VerdictIsReference, RefusedForTheTarget

\* What does not change while the loop runs.
LEMMA TableStays ==
    ASSUME TableTyped, UNCHANGED <<table, target>>
    PROVE  /\ TableTyped'
           /\ WindowOf' = WindowOf /\ HeldRows' = HeldRows
           /\ \A o : Page(o)' = Page(o)
           /\ \A i : Entry(i)' = Entry(i)
           /\ \A S : RosterAllowed(S)' <=> RosterAllowed(S)
<1>1. WindowOf' = WindowOf
    BY DEF WindowOf
<1>2. \A S : RosterAllowed(S)' <=> RosterAllowed(S)
    BY <1>1 DEF RosterAllowed
<1>3. QED
    BY <1>1, <1>2 DEF TableTyped, HeldRows, Page, Entry, OrderedByStart

\* The row the loop is at.
LEMMA RowAt ==
    ASSUME LoopInv, InPage
    PROVE  /\ Seen + 1 \in DOMAIN table /\ Seen + 1 = offset + next
           /\ Page(offset)[next] = table[Seen + 1]
           /\ Seen + 1 \notin Taken
           /\ {i \in DOMAIN table : i <= Seen + 1 /\ Held(table[i])} =
                  IF Held(table[Seen + 1]) THEN Taken \cup {Seen + 1} ELSE Taken
<1>1. /\ TableTyped /\ offset \in 0..Len(table) /\ next \in Nat \ {0}
      /\ next <= Len(Page(offset))
    BY DEF LoopInv, InPage
<1>2. Len(table) \in Nat /\ DOMAIN table = 1..Len(table)
    BY <1>1, RowWindows
<1>3. /\ Len(Page(offset)) \in Nat /\ offset + Len(Page(offset)) <= Len(table)
      /\ \A k \in 1..Len(Page(offset)) : Page(offset)[k] = table[offset + k]
    BY <1>1, PageRows
<1>4. Seen + 1 = offset + next /\ Seen \in Nat /\ Seen + 1 <= Len(table)
    BY <1>1, <1>2, <1>3 DEF Seen
<1>5. Page(offset)[next] = table[Seen + 1]
    BY <1>1, <1>3, <1>4
<1>6. \A i \in DOMAIN table : i <= Seen + 1 <=> i <= Seen \/ i = Seen + 1
    BY <1>2, <1>4
<1>7. ~(Seen + 1 <= Seen)
    BY <1>4
<1>8. Seen + 1 \in DOMAIN table
    BY <1>2, <1>4
<1> HIDE DEF Seen
<1>9. {i \in DOMAIN table : i <= Seen + 1 /\ Held(table[i])} =
          IF Held(table[Seen + 1]) THEN Taken \cup {Seen + 1} ELSE Taken
    BY <1>6, <1>8 DEF Taken
<1>10. QED
    BY <1>4, <1>5, <1>7, <1>8, <1>9 DEF Taken

\* One row on.
LEMMA NextRow ==
    ASSUME LoopInv, InPage, next' = next + 1, UNCHANGED <<table, target, offset>>
    PROVE  /\ Taken' = {i \in DOMAIN table : i <= Seen + 1 /\ Held(table[i])}
           /\ next' \in Nat \ {0} /\ next' <= Len(Page(offset)) + 1
<1>1. /\ TableTyped /\ offset \in 0..Len(table) /\ next \in Nat \ {0}
      /\ next <= Len(Page(offset))
    BY DEF LoopInv, InPage
<1>2. Len(Page(offset)) \in Nat /\ Len(table) \in Nat
    BY <1>1, PageRows, RowWindows
<1>3. Seen' = Seen + 1
    BY <1>1, <1>2 DEF Seen
<1>4. QED
    BY <1>1, <1>2, <1>3 DEF Taken

\* Where the page ends and no page follows, every row has been looked at.
LEMMA AllTaken ==
    ASSUME LoopInv, AtPageEnd
    PROVE  /\ Seen = OffsetAfterPage(offset)
           /\ OffsetAfterPage(offset) >= Len(table) => Taken = HeldRows
<1>1. /\ TableTyped /\ offset \in 0..Len(table) /\ next \in Nat \ {0}
      /\ next <= Len(Page(offset)) + 1 /\ next > Len(Page(offset))
    BY DEF LoopInv, AtPageEnd
<1>2. Len(Page(offset)) \in Nat /\ Len(table) \in Nat
      /\ DOMAIN table = 1..Len(table)
    BY <1>1, PageRows, RowWindows
<1>3. Seen = OffsetAfterPage(offset)
    BY <1>1, <1>2 DEF Seen, OffsetAfterPage
<1>4. ASSUME OffsetAfterPage(offset) >= Len(table)
      PROVE  \A i \in DOMAIN table : i <= Seen
    BY <1>1, <1>2, <1>3, <1>4 DEF OffsetAfterPage
<1>5. QED
    BY <1>3, <1>4 DEF Taken, HeldRows

\* A row, a page or a verdict further on, the roster still holds the rows seen.
LEMMA LoopGoesOn ==
    ASSUME LoopInv, [Next]_vars
    PROVE  LoopInv'
<1>1. TableTyped /\ offset \in 0..Len(table) /\ next \in Nat \ {0}
    BY DEF LoopInv
<1>2. Len(table) \in Nat /\ Taken \in SUBSET DOMAIN table
      /\ HeldRows \in SUBSET DOMAIN table /\ Taken \subseteq HeldRows
      /\ target \in DOMAIN table
    BY <1>1, RowWindows DEF Taken, HeldRows, TableTyped
<1>3. CASE SkipRow
    <2>1. /\ InPage /\ ~Held(Page(offset)[next]) /\ next' = next + 1
          /\ UNCHANGED <<table, target, offset, roster, verdict>>
        BY <1>3 DEF SkipRow
    <2>2. Taken' = Taken
        BY <2>1, RowAt, NextRow
    <2>3. RosterIs(Taken)
        BY <2>1 DEF LoopInv, InPage
    <2>4. RosterIs(Taken)'
        BY <1>1, <2>1, <2>2, <2>3, TableStays DEF RosterIs
    <2>5. verdict' = "open"
        BY <2>1 DEF InPage
    <2>6. QED
        BY <1>1, <2>1, <2>4, <2>5, NextRow, TableStays
           DEF LoopInv, VerdictIsReference, RefusedForTheTarget
<1>4. CASE AddRow
    <2>1. PICK i : i = Seen + 1
        OBVIOUS
    <2>2. /\ InPage /\ Held(Page(offset)[next]) /\ next' = next + 1
          /\ UNCHANGED <<table, target, offset>>
        BY <1>4 DEF AddRow
    <2>3. /\ i \in DOMAIN table \ Taken /\ Held(table[i])
          /\ Taken' = Taken \cup {i} /\ offset + next = i
        BY <2>1, <2>2, RowAt, NextRow
    <2>4. RosterIs(Taken) /\ verdict = "open"
        BY <2>2 DEF LoopInv, InPage
    <2>5. Taken \cup {i} \subseteq HeldRows
        BY <1>2, <2>3 DEF HeldRows
    <2>6. /\ next' \in Nat \ {0} /\ next' <= Len(Page(offset)) + 1
        BY <2>2, NextRow
    <2>7. CASE Addable(roster, Entry(i))
        <3>1. roster' = Add(roster, Entry(i)) /\ verdict' = "open"
            BY <1>4, <2>3, <2>4, <2>7 DEF AddRow
        <3>2. \A k \in Taken : k < i
            BY <1>1, <1>2, <2>1, RowWindows DEF Taken, Seen
        <3>3. PICK S : S = Taken
            OBVIOUS
        <3>4. RosterIs(S \cup {i})'
            BY <1>1, <1>2, <2>2, <2>3, <2>4, <2>7, <3>1, <3>2, <3>3, AddTakesIn
        <3>5. RosterIs(Taken)'
            BY <2>3, <3>3, <3>4 DEF RosterIs
        <3>6. QED
            BY <1>1, <2>2, <2>6, <3>1, <3>5, TableStays
               DEF LoopInv, VerdictIsReference, RefusedForTheTarget
    <2>8. CASE ~Addable(roster, Entry(i))
        <3>1. verdict' = "refused" /\ roster' = roster
            BY <1>4, <2>3, <2>8 DEF AddRow
        <3>2. ~RosterAllowed(Taken \cup {i})
            BY <1>1, <1>2, <2>3, <2>4, <2>8, AddDecides
        <3>3. ~RosterAllowed(HeldRows)
            BY <1>1, <1>2, <2>5, <3>2, FewerAllowed
        <3>4. ~RosterAllowed(HeldRows \cup {target})
            <4>1. /\ HeldRows \cup {target} \in SUBSET DOMAIN table
                  /\ HeldRows \in SUBSET (HeldRows \cup {target})
                BY <1>2
            <4>2. QED
                BY <1>1, <3>3, <4>1, FewerAllowed
        <3>5. ~RosterAllowed(HeldRows)' /\ ~RosterAllowed(HeldRows \cup {target})'
            BY <1>1, <2>2, <3>3, <3>4, TableStays DEF RosterAllowed
        <3>6. VerdictIsReference' /\ RefusedForTheTarget'
            BY <3>1, <3>5 DEF VerdictIsReference, RefusedForTheTarget
        <3>7. QED
            BY <1>1, <2>2, <2>6, <3>1, <3>6, TableStays DEF LoopInv
    <2>9. QED
        BY <2>7, <2>8
<1>5. CASE NextPage
    <2>1. /\ AtPageEnd /\ OffsetAfterPage(offset) < Len(table)
          /\ offset' = OffsetAfterPage(offset) /\ next' = 1
          /\ UNCHANGED <<table, target, roster, verdict>>
        BY <1>5 DEF NextPage
    <2>2. OffsetAfterPage(offset) \in 0..Len(table)
        <3>1. Len(Page(offset)) \in Nat
              /\ offset + Len(Page(offset)) <= Len(table)
            BY <1>1, PageRows
        <3>2. QED
            BY <1>1, <1>2, <3>1 DEF OffsetAfterPage
    <2>3. Len(Page(OffsetAfterPage(offset))) \in Nat
        BY <1>1, <2>2, PageRows
    <2>4. Len(Page(offset)') \in Nat
        BY <1>1, <2>1, <2>3, TableStays DEF Page
    <2>5. Seen' = Seen
        BY <2>1, <2>2, AllTaken DEF Seen
    <2>6. Taken' = Taken
        BY <2>1, <2>5 DEF Taken
    <2>7. RosterIs(Taken) /\ verdict' = "open"
        BY <2>1 DEF LoopInv, AtPageEnd
    <2>8. RosterIs(Taken)'
        BY <1>1, <2>1, <2>6, <2>7, TableStays DEF RosterIs
    <2>9. QED
        BY <1>1, <2>1, <2>2, <2>4, <2>7, <2>8, TableStays
           DEF LoopInv, VerdictIsReference, RefusedForTheTarget
<1>6. CASE AddTarget
    <2>1. /\ AtPageEnd /\ OffsetAfterPage(offset) >= Len(table)
          /\ verdict' = IF Addable(roster, Entry(target)) THEN "accepted"
                        ELSE "refused"
          /\ UNCHANGED <<table, target, offset, next, roster>>
        BY <1>6 DEF AddTarget
    <2>2. RosterIs(HeldRows)
        <3>1. RosterIs(Taken) /\ Taken = HeldRows
            BY <2>1, AllTaken DEF LoopInv, AtPageEnd
        <3>2. QED
            BY <3>1
    <2>3. ~Held(table[target]) =>
              (Addable(roster, Entry(target)) <=>
                  RosterAllowed(HeldRows \cup {target}))
        <3>1. SUFFICES ASSUME ~Held(table[target])
                       PROVE  Addable(roster, Entry(target)) <=>
                                  RosterAllowed(HeldRows \cup {target})
            OBVIOUS
        <3>2. target \in DOMAIN table \ HeldRows
            BY <1>2, <3>1 DEF HeldRows
        <3>3. QED
            BY <1>1, <1>2, <2>2, <3>2, AddDecides
    <2>4. VerdictIsReference'
        <3>1. RosterAllowed(HeldRows \cup {target})' <=>
                  RosterAllowed(HeldRows \cup {target})
            BY <1>1, <2>1, TableStays DEF RosterAllowed
        <3>2. Held(table[target])' <=> Held(table[target])
            BY <2>1 DEF Held
        <3>3. verdict' = "accepted" <=> Addable(roster, Entry(target))
            BY <2>1
        <3>4. QED
            BY <2>3, <3>1, <3>2, <3>3 DEF VerdictIsReference
    <2>5. RefusedForTheTarget'
        <3>1. ToSet(roster.windows) = {Entry(i) : i \in HeldRows}
            BY <2>2 DEF RosterIs
        <3>2. ToSet(roster.windows)' = {Entry(i) : i \in HeldRows}'
            BY <1>1, <2>1, <3>1, TableStays DEF ToSet, HeldRows, Entry
        <3>3. QED
            BY <3>2 DEF RefusedForTheTarget
    <2>6. verdict' \in {"accepted", "refused"}
        BY <2>1
    <2>7. QED
        BY <1>1, <2>1, <2>4, <2>5, <2>6, TableStays DEF LoopInv, Page
<1>7. CASE UNCHANGED vars
    <2>1. UNCHANGED <<table, target, offset, next, roster, verdict>>
        BY <1>7 DEF vars
    <2>2. Taken' = Taken
        BY <2>1 DEF Taken, Seen
    <2>3. RosterIs(Taken) => RosterIs(Taken)'
        BY <1>1, <2>1, <2>2, TableStays DEF RosterIs
    <2>4. VerdictIsReference' /\ RefusedForTheTarget'
        <3>1. VerdictIsReference /\ RefusedForTheTarget
            BY DEF LoopInv
        <3>2. QED
            BY <1>1, <2>1, <3>1, TableStays
               DEF VerdictIsReference, RefusedForTheTarget, RosterAllowed,
                   HeldRows, Entry
    <2>5. QED
        BY <1>1, <2>1, <2>3, <2>4, TableStays DEF LoopInv
<1>8. QED
    BY <1>3, <1>4, <1>5, <1>6, <1>7 DEF Next

\* The invariant holds throughout.
LEMMA LoopHolds == Spec => []LoopInv
<1>1. Init => LoopInv
    BY LoopBegins
<1>2. LoopInv /\ [Next]_vars => LoopInv'
    BY LoopGoesOn
<1>3. QED
    BY <1>1, <1>2, PTL DEF Spec

-----------------------------------------------------------------------------
\* CanAssign of src/internal/service/scheduling/checker.go, for a service date
\* of any number of shifts read in pages of any size: the loop with its early
\* exits accepts exactly the rosters that are allowed as a whole.
THEOREM VerdictIsRight == Spec => []VerdictIsReference
<1>1. LoopInv => VerdictIsReference
    BY DEF LoopInv
<1>2. QED
    BY <1>1, LoopHolds, PTL

\* A vehicle whose roster is in order is refused for the new shift only, never
\* for a row read twice or out of order.
THEOREM OnlyTheTargetRefuses == Spec => []RefusedForTheTarget
<1>1. LoopInv => RefusedForTheTarget
    BY DEF LoopInv
<1>2. QED
    BY <1>1, LoopHolds, PTL

=============================================================================
