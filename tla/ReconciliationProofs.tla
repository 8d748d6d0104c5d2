-------------------------- MODULE ReconciliationProofs --------------------------
(***************************************************************************)
(* The report of Reconciliation, for any finite set of shifts, any page     *)
(* size, any windows and instants.                                          *)
(*                                                                          *)
(* A paged reading asks for the rows behind an offset, so it is right as    *)
(* long as what it has read is still the head of the list it reads.  The    *)
(* invariant says so: the shifts read are a part of the day's shifts that   *)
(* is closed under "sorted before" (FirstShifts), and likewise the trips,   *)
(* unless the history `slipped' tells that a row was inserted or moved in   *)
(* front of another.  It is kept by the steps of the day because they let   *)
(* no row pass one of the list or tell (HeadsStand), and by a page because  *)
(* the rows of rank offset + 1 .. offset + Limit lengthen such a part by    *)
(* the next ones (PageExtends).                                             *)
(*                                                                          *)
(* At the end: in a zone of fixed offset a trip is counted for its own day, *)
(* from how the text of a whole second sorts among those of other instants  *)
(* (WholeSecondSorts) and the days following each other (DaysFollow).       *)
(***************************************************************************)
EXTENDS Reconciliation, SequenceTheorems, TimeProofs

-----------------------------------------------------------------------------
(* Lists in an order.  "before" gives what comes before each element of a    *)
(* finite set; a list that names the element with i - 1 others before it at  *)
(* place i is read page by page.                                             *)

Orders(before, S) ==
    /\ before \in [S -> SUBSET S]
    /\ \A s \in S : s \notin before[s]
    /\ \A s, t \in S : s # t => s \in before[t] \/ t \in before[s]
    /\ \A s, t \in S : s \in before[t] => before[s] \subseteq before[t]

\* A part of the set that is read first: with an element, what is before it.
First(D, before, S) == D \subseteq S /\ \A s \in D : before[s] \subseteq D

Lists(list, before, S) ==
    /\ DOMAIN list = 1..Cardinality(S)
    /\ \A i \in DOMAIN list : list[i] \in S /\ Cardinality(before[list[i]]) = i - 1

\* No two elements have the same number of others before them.
LEMMA RanksDiffer ==
    ASSUME NEW S, IsFiniteSet(S), NEW before, Orders(before, S)
    PROVE  /\ \A s \in S : /\ Cardinality(before[s]) \in Nat
                           /\ Cardinality(before[s]) < Cardinality(S)
           /\ \A s, t \in S : s \in before[t] =>
                 Cardinality(before[s]) < Cardinality(before[t])
           /\ \A s, t \in S :
                 Cardinality(before[s]) = Cardinality(before[t]) => s = t
<1> USE DEF Orders
<1>1. ASSUME NEW A \in SUBSET S, NEW B \in SUBSET S, A \subseteq B, A # B
      PROVE  Cardinality(A) \in Nat /\ Cardinality(B) \in Nat
             /\ Cardinality(A) < Cardinality(B)
    <2>1. IsFiniteSet(A) /\ IsFiniteSet(B)
        BY FS_Subset
    <2>2. Cardinality(A) \in Nat /\ Cardinality(B) \in Nat
        BY <2>1, FS_CardinalityType
    <2>3. Cardinality(A) <= Cardinality(B) /\ Cardinality(A) # Cardinality(B)
        BY <1>1, <2>1, FS_Subset
    <2>4. QED
        BY <2>2, <2>3
<1>2. ASSUME NEW s \in S
      PROVE  Cardinality(before[s]) \in Nat
             /\ Cardinality(before[s]) < Cardinality(S)
    <2>1. before[s] \in SUBSET S /\ before[s] # S
        OBVIOUS
    <2>2. QED
        BY <1>1, <2>1
<1>3. ASSUME NEW s \in S, NEW t \in S, s \in before[t]
      PROVE  Cardinality(before[s]) < Cardinality(before[t])
    <2>1. before[s] \in SUBSET S /\ before[t] \in SUBSET S
        OBVIOUS
    <2>2. before[s] \subseteq before[t]
        BY <1>3
    <2>3. before[s] # before[t]
        BY <1>3
    <2>4. QED
        BY <1>1, <2>1, <2>2, <2>3
<1>4. ASSUME NEW s \in S, NEW t \in S,
             Cardinality(before[s]) = Cardinality(before[t])
      PROVE  s = t
    <2> SUFFICES ASSUME s # t PROVE FALSE
        OBVIOUS
    <2>1. Cardinality(before[s]) \in Nat /\ Cardinality(before[t]) \in Nat
        BY <1>2
    <2>2. s \in before[t] \/ t \in before[s]
        OBVIOUS
    <2>3. QED
        BY <1>3, <1>4, <2>1, <2>2
<1>5. QED
    BY <1>2, <1>3, <1>4

\* Every place of the list is taken.
LEMMA PlacesTaken ==
    ASSUME NEW S, IsFiniteSet(S), NEW before, Orders(before, S),
           NEW i \in 1..Cardinality(S)
    PROVE  \E s \in S : Cardinality(before[s]) = i - 1
<1> DEFINE n == Cardinality(S)
           place == [s \in S |-> Cardinality(before[s]) + 1]
<1>1. n \in Nat
    BY FS_CardinalityType
<1>2. IsFiniteSet(1..n) /\ Cardinality(1..n) = n
    BY <1>1, FS_Interval
<1>3. \A s \in S : Cardinality(before[s]) \in Nat /\ Cardinality(before[s]) < n
    BY RanksDiffer
<1>4. place \in [S -> 1..n]
    BY <1>1, <1>3
<1>5. \A s, t \in S : place[s] = place[t] => s = t
    BY <1>3, RanksDiffer
<1>6. place \in Injection(S, 1..n)
    BY <1>4, <1>5 DEF Injection, IsInjective
<1>7. place \in Surjection(S, 1..n)
    BY <1>2, <1>6, FS_Injection
<1>8. PICK s \in S : place[s] = i
    BY <1>7 DEF Surjection
<1>9. Cardinality(before[s]) + 1 = i
    BY <1>8
<1>10. QED
    BY <1>3, <1>9

\* A part read first holds the elements with fewest others before them.
LEMMA FirstByRank ==
    ASSUME NEW S, IsFiniteSet(S), NEW before, Orders(before, S),
           NEW D, First(D, before, S), NEW s \in S
    PROVE  s \in D <=> Cardinality(before[s]) < Cardinality(D)
<1> USE DEF First
<1>1. IsFiniteSet(D) /\ Cardinality(D) \in Nat
    BY FS_Subset, FS_CardinalityType
<1>2. before[s] \in SUBSET S /\ Cardinality(before[s]) \in Nat
    BY RanksDiffer DEF Orders
<1>3. IsFiniteSet(before[s])
    BY <1>2, FS_Subset
<1>4. CASE s \in D
    <2>1. before[s] \in SUBSET D /\ before[s] # D
        BY <1>4 DEF Orders
    <2>2. Cardinality(before[s]) <= Cardinality(D)
          /\ Cardinality(before[s]) # Cardinality(D)
        BY <1>1, <2>1, FS_Subset
    <2>3. QED
        BY <1>1, <1>2, <1>4, <2>2
<1>5. CASE s \notin D
    <2>1. D \subseteq before[s]
        <3> SUFFICES ASSUME NEW d \in D PROVE d \in before[s]
            OBVIOUS
        <3>1. d \in S /\ d # s
            BY <1>5
        <3>2. s \notin before[d]
            BY <1>5
        <3>3. QED
            BY <3>1, <3>2 DEF Orders
    <2>2. Cardinality(D) <= Cardinality(before[s])
        BY <1>3, <2>1, FS_Subset
    <2>3. QED
        BY <1>1, <1>2, <1>5, <2>2
<1>6. QED
    BY <1>4, <1>5

\* Of two parts read first, the larger holds the smaller.
LEMMA FirstAreNested ==
    ASSUME NEW S, IsFiniteSet(S), NEW before, Orders(before, S),
           NEW C, First(C, before, S), NEW D, First(D, before, S),
           Cardinality(C) <= Cardinality(D)
    PROVE  C \subseteq D
<1>1. SUFFICES ASSUME NEW s \in C PROVE s \in D
    OBVIOUS
<1>2. s \in S /\ C \subseteq S /\ D \subseteq S
    BY DEF First
<1>3. Cardinality(C) \in Nat /\ Cardinality(D) \in Nat
    BY <1>2, FS_Subset, FS_CardinalityType
<1>4. Cardinality(before[s]) < Cardinality(C)
    BY <1>2, FirstByRank
<1>5. Cardinality(before[s]) \in Nat
    BY <1>2, RanksDiffer
<1>6. Cardinality(before[s]) < Cardinality(D)
    BY <1>3, <1>4, <1>5
<1>7. QED
    BY <1>2, <1>6, FirstByRank

\* The places d + 1 to n are those of a page behind the first d.
PageAfter(D, d, n, list, before, S) ==
    /\ First(D \cup {list[i] : i \in (d + 1)..n}, before, S)
    /\ Cardinality(D \cup {list[i] : i \in (d + 1)..n}) = n
    /\ \A i \in (d + 1)..n : list[i] \notin D
    /\ \A i, j \in 1..n : list[i] = list[j] => i = j

\* The page behind a part read first adds other elements, each once, and makes
\* a part read first of the size reached.
LEMMA PageExtends ==
    ASSUME NEW S, IsFiniteSet(S), NEW before, Orders(before, S),
           NEW list, Lists(list, before, S),
           NEW D, First(D, before, S), NEW d \in Nat, d = Cardinality(D),
           NEW n \in Nat, d <= n, n <= Cardinality(S)
    PROVE  PageAfter(D, d, n, list, before, S)
<1> DEFINE E == D \cup {list[i] : i \in (d + 1)..n}
<1>1. D \subseteq S
    BY DEF First
<1>2. d \in Nat /\ Cardinality(S) \in Nat
    BY <1>1, FS_Subset, FS_CardinalityType
<1>3. \A i \in 1..n : list[i] \in S /\ Cardinality(before[list[i]]) = i - 1
    BY <1>2 DEF Lists
<1>4. \A i \in (d + 1)..n : i \in 1..n
    BY <1>2
<1>5. \A s \in S : Cardinality(before[s]) \in Nat
    BY RanksDiffer
<1>6. \A s \in S : s \in D <=> Cardinality(before[s]) < d
    BY FirstByRank
<1>7. \A s \in S : s \in E <=> Cardinality(before[s]) < n
    <2> SUFFICES ASSUME NEW s \in S
                 PROVE  s \in E <=> Cardinality(before[s]) < n
        OBVIOUS
    <2>1. PICK r \in Nat : r = Cardinality(before[s])
        BY <1>5
    <2>2. ASSUME s \in E PROVE r < n
        <3>1. CASE s \in D
            BY <1>2, <1>6, <2>1, <3>1
        <3>2. CASE s \notin D
            <4>1. PICK i \in (d + 1)..n : s = list[i]
                BY <2>2, <3>2
            <4>2. r = i - 1
                BY <1>3, <1>4, <2>1, <4>1
            <4>3. QED
                BY <1>2, <4>2
        <3>3. QED
            BY <3>1, <3>2
    <2>3. ASSUME r < n PROVE s \in E
        <3>1. CASE r < d
            BY <1>6, <2>1, <3>1
        <3>2. CASE ~(r < d)
            <4>1. r + 1 \in (d + 1)..n /\ r + 1 \in 1..n
                BY <1>2, <2>3, <3>2
            <4>2. list[r + 1] \in S /\ Cardinality(before[list[r + 1]]) = r
                BY <1>3, <4>1
            <4>3. list[r + 1] = s
                BY <2>1, <4>2, RanksDiffer
            <4>4. QED
                BY <4>1, <4>3
        <3>3. QED
            BY <3>1, <3>2
    <2>4. QED
        BY <2>1, <2>2, <2>3
<1>8. E \subseteq S
    BY <1>1, <1>3, <1>4
<1>9. \A i, j \in 1..n : list[i] = list[j] => i = j
    <2> SUFFICES ASSUME NEW i \in 1..n, NEW j \in 1..n, list[i] = list[j]
                 PROVE  i = j
        OBVIOUS
    <2>1. i - 1 = j - 1
        BY <1>3
    <2>2. QED
        BY <2>1
<1> HIDE DEF E
<1>10. First(E, before, S)
    <2> SUFFICES ASSUME NEW s \in E, NEW u \in before[s] PROVE u \in E
        BY <1>8 DEF First
    <2>1. s \in S /\ u \in S
        BY <1>8 DEF Orders
    <2>2. Cardinality(before[u]) < Cardinality(before[s])
        BY <2>1, RanksDiffer
    <2>3. Cardinality(before[s]) < n
        BY <1>7, <2>1
    <2>4. Cardinality(before[u]) < n
        BY <1>5, <2>1, <2>2, <2>3
    <2>5. QED
        BY <1>7, <2>1, <2>4
<1>11. Cardinality(E) = n
    <2> DEFINE f == [i \in 1..n |-> list[i]]
    <2>1. \A i \in 1..n : list[i] \in E
        <3> SUFFICES ASSUME NEW i \in 1..n PROVE list[i] \in E
            OBVIOUS
        <3>1. Cardinality(before[list[i]]) < n
            BY <1>3
        <3>2. QED
            BY <1>3, <1>7, <3>1
    <2>2. \A s \in E : \E i \in 1..n : f[i] = s
        <3> SUFFICES ASSUME NEW s \in E PROVE \E i \in 1..n : f[i] = s
            OBVIOUS
        <3>1. PICK r \in Nat : r = Cardinality(before[s])
            BY <1>5, <1>8
        <3>2. r + 1 \in 1..n
            BY <1>7, <1>8, <3>1
        <3>3. list[r + 1] = s
            BY <1>3, <1>8, <3>1, <3>2, RanksDiffer
        <3>4. QED
            BY <3>2, <3>3
    <2>3. f \in [1..n -> E]
        BY <2>1
    <2>4. f \in Injection(1..n, E)
        BY <1>9, <2>3 DEF Injection, IsInjective
    <2>5. f \in Surjection(1..n, E)
        BY <2>2, <2>3 DEF Surjection
    <2>6. ExistsBijection(1..n, E)
        BY <2>4, <2>5 DEF Bijection, ExistsBijection
    <2>7. QED
        BY <2>6, FS_CountingElements
<1>12. \A i \in (d + 1)..n : list[i] \notin D
    <2> SUFFICES ASSUME NEW i \in (d + 1)..n PROVE list[i] \notin D
        OBVIOUS
    <2>1. Cardinality(before[list[i]]) = i - 1 /\ list[i] \in S
        BY <1>3, <1>4
    <2>2. ~(i - 1 < d)
        BY <1>2
    <2>3. QED
        BY <1>6, <2>1, <2>2
<1>13. QED
    BY <1>9, <1>10, <1>11, <1>12 DEF E, PageAfter

\* A list of rows that names no shift twice names as many as it has rows.
LEMMA RowsAreShifts ==
    ASSUME NEW Row, NEW list \in Seq(Row), NoRowTwice(list)
    PROVE  /\ IsFiniteSet(ListedIn(list))
           /\ Cardinality(ListedIn(list)) = Len(list)
<1> DEFINE n == Len(list)
           f == [i \in 1..n |-> list[i].shift]
<1>1. n \in Nat /\ DOMAIN list = 1..n
    BY LenProperties
<1>2. ListedIn(list) = {list[i].shift : i \in 1..n}
    BY <1>1 DEF ListedIn, ToSet
<1>3. \A i, j \in 1..n : list[i].shift = list[j].shift => i = j
    BY <1>1 DEF NoRowTwice
<1> HIDE DEF n
<1>4. f \in [1..n -> ListedIn(list)]
    BY <1>2
<1>5. f \in Injection(1..n, ListedIn(list))
    BY <1>3, <1>4 DEF Injection, IsInjective
<1>6. f \in Surjection(1..n, ListedIn(list))
    BY <1>2, <1>4 DEF Surjection
<1>7. ExistsBijection(1..n, ListedIn(list))
    BY <1>5, <1>6 DEF Bijection, ExistsBijection
<1>8. QED
    BY <1>1, <1>7, FS_CountingElements, FS_NatBijection DEF n

\* A list of rows that has read the first k of its table, each once.
ReadTo(list, k, before, S) ==
    /\ NoRowTwice(list)
    /\ First(ListedIn(list), before, S)
    /\ Cardinality(ListedIn(list)) = k

\* The rows of a page go on where those read before end.
LEMMA ReadOn ==
    ASSUME NEW S, IsFiniteSet(S), NEW before, Orders(before, S),
           NEW order, Lists(order, before, S),
           NEW Row, NEW old \in Seq(Row), NEW new \in Seq(Row),
           NoRowTwice(old), First(ListedIn(old), before, S),
           Len(old) + Len(new) <= Cardinality(S),
           \A i \in 1..Len(new) : new[i].shift = order[Len(old) + i]
    PROVE  ReadTo(old \o new, Len(old) + Len(new), before, S)
<1> DEFINE d == Len(old)
           m == Len(new)
           list == old \o new
           D == ListedIn(old)
           Added == {order[i] : i \in (d + 1)..(d + m)}
<1>1. /\ d \in Nat /\ m \in Nat /\ d + m \in Nat
      /\ DOMAIN old = 1..d /\ DOMAIN new = 1..m
    BY LenProperties
<1>2. /\ list \in Seq(Row) /\ Len(list) = d + m
      /\ \A i \in 1..(d + m) : list[i] = IF i <= d THEN old[i] ELSE new[i - d]
    BY ConcatProperties
<1>3. DOMAIN list = 1..(d + m)
    BY <1>2, LenProperties
<1>4. Cardinality(D) = d
    BY RowsAreShifts
<1>5. /\ First(D \cup Added, before, S)
      /\ Cardinality(D \cup Added) = d + m
      /\ \A i \in (d + 1)..(d + m) : order[i] \notin D
      /\ \A i, j \in 1..(d + m) : order[i] = order[j] => i = j
    <2>1. d = Cardinality(D) /\ d + m <= Cardinality(S) /\ d <= d + m
          /\ First(D, before, S)
        BY <1>1, <1>4
    <2> HIDE DEF d, m, D
    <2>2. PageAfter(D, d, d + m, order, before, S)
        BY <1>1, <2>1, PageExtends
    <2>3. QED
        BY <2>2 DEF PageAfter
<1>6. \A i \in 1..m : new[i].shift = order[d + i]
    OBVIOUS
<1>7. \A i \in 1..d : old[i].shift \in D
    BY <1>1 DEF ListedIn, ToSet
<1>8. \A i, j \in 1..d : old[i].shift = old[j].shift => i = j
    BY <1>1 DEF NoRowTwice
<1>9. D = {old[i].shift : i \in 1..d}
    BY <1>1 DEF ListedIn, ToSet
<1>10. ListedIn(list) = {list[i].shift : i \in 1..(d + m)}
    BY <1>3 DEF ListedIn, ToSet
<1> HIDE DEF d, m, list, D
<1>11. \A i \in 1..(d + m) :
          \/ i \in 1..d /\ list[i].shift = old[i].shift
          \/ i \in (d + 1)..(d + m) /\ list[i].shift = order[i]
    <2> SUFFICES ASSUME NEW i \in 1..(d + m)
                 PROVE  \/ i \in 1..d /\ list[i].shift = old[i].shift
                        \/ i \in (d + 1)..(d + m) /\ list[i].shift = order[i]
        OBVIOUS
    <2>1. CASE i <= d
        BY <1>1, <1>2, <2>1
    <2>2. CASE ~(i <= d)
        <3>1. i - d \in 1..m /\ i \in (d + 1)..(d + m) /\ d + (i - d) = i
            BY <1>1, <2>2
        <3>2. new[i - d].shift = order[d + (i - d)]
            BY <1>6, <3>1
        <3>3. QED
            BY <1>2, <2>2, <3>1, <3>2
    <2>3. QED
        BY <2>1, <2>2
<1>12. NoRowTwice(list)
    <2> SUFFICES ASSUME NEW i \in 1..(d + m), NEW j \in 1..(d + m),
                        list[i].shift = list[j].shift
                 PROVE  i = j
        BY <1>3 DEF NoRowTwice
    <2>1. \A k \in (d + 1)..(d + m) : k \in 1..(d + m)
        BY <1>1
    <2>2. CASE i \in 1..d /\ list[i].shift = old[i].shift
        <3>1. CASE j \in 1..d /\ list[j].shift = old[j].shift
            BY <1>8, <2>2, <3>1
        <3>2. CASE j \in (d + 1)..(d + m) /\ list[j].shift = order[j]
            BY <1>5, <1>7, <2>2, <3>2
        <3>3. QED
            BY <1>11, <3>1, <3>2
    <2>3. CASE i \in (d + 1)..(d + m) /\ list[i].shift = order[i]
        <3>1. CASE j \in 1..d /\ list[j].shift = old[j].shift
            BY <1>5, <1>7, <2>3, <3>1
        <3>2. CASE j \in (d + 1)..(d + m) /\ list[j].shift = order[j]
            BY <1>5, <2>1, <2>3, <3>2
        <3>3. QED
            BY <1>11, <3>1, <3>2
    <2>4. QED
        BY <1>11, <2>2, <2>3
<1>13. ListedIn(list) = D \cup Added
    <2>1. ListedIn(list) \subseteq D \cup Added
        BY <1>7, <1>11, <1>10
    <2>2. ASSUME NEW s \in D PROVE s \in ListedIn(list)
        <3>1. PICK i \in 1..d : s = old[i].shift
            BY <1>9
        <3>2. i \in 1..(d + m) /\ list[i] = old[i]
            BY <1>1, <1>2
        <3>3. QED
            BY <1>10, <3>1, <3>2
    <2>3. ASSUME NEW i \in (d + 1)..(d + m) PROVE order[i] \in ListedIn(list)
        <3>1. i \in 1..(d + m) /\ ~(i \in 1..d)
            BY <1>1
        <3>2. QED
            BY <1>11, <1>10, <3>1
    <2>4. QED
        BY <2>1, <2>2, <2>3
<1>14. QED
    BY <1>5, <1>12, <1>13 DEF d, m, list, D, ReadTo

\* A page of a list of n rows: full, or up to the end, or empty behind it.
PageIs(list, offset, n, m) ==
    /\ Page(list, offset) = [i \in 1..m |-> list[offset + i]]
    /\ \A i \in 1..m : offset + i \in 1..n
    /\ offset <= n => offset + m <= n /\ (m = Limit \/ offset + m = n)

\* The rows of a page tell the shifts of its elements, in their order.
LEMMA PageRows ==
    ASSUME NEW n \in Nat, NEW list, DOMAIN list = 1..n, Len(list) = n,
           NEW offset \in Nat
    PROVE  \E m \in Nat : PageIs(list, offset, n, m)
<1> DEFINE a == offset + Limit
           end == Min({a, n})
<1>1. Limit \in Nat
    BY LimitIsPositive
<1>2. end = IF a <= n THEN a ELSE n
    <2>1. \E x \in {a, n} : \A y \in {a, n} : x =< y
        BY <1>1
    <2>2. end \in {a, n} /\ end <= a /\ end <= n
        BY <2>1 DEF Min
    <2>3. QED
        BY <1>1, <2>2
<1>3. Page(list, offset) = [i \in 1..(end - offset) |-> list[offset + i]]
    BY DEF Page
<1> HIDE DEF end
<1>4. CASE offset <= n
    <2>1. end - offset \in Nat
        BY <1>1, <1>2, <1>4
    <2>2. \A i \in 1..(end - offset) : offset + i \in 1..n
        BY <1>1, <1>2, <1>4
    <2>3. offset + (end - offset) <= n
          /\ (end - offset = Limit \/ offset + (end - offset) = n)
        BY <1>1, <1>2, <1>4
    <2>4. QED
        BY <1>3, <2>1, <2>2, <2>3 DEF PageIs
<1>5. CASE ~(offset <= n)
    <2>1. 1..(end - offset) = 1..0
        BY <1>1, <1>2, <1>5
    <2>2. Page(list, offset) = [i \in 1..0 |-> list[offset + i]]
        BY <1>3, <2>1
    <2>3. \A i \in 1..0 : offset + i \in 1..n
        OBVIOUS
    <2>4. QED
        BY <1>5, <2>2, <2>3 DEF PageIs
<1>6. QED
    BY <1>4, <1>5

-----------------------------------------------------------------------------
(* The inductive invariant                                                   *)

Statuses == {"absent", "scheduled", "assigned", "in_progress", "completed",
             "cancelled"}
TripStatuses == {"active", "completed"}
ShiftRow == [shift : Shifts, status : Statuses, start : Int, end : Int]
TripRow == [shift : Shifts, status : SUBSET TripStatuses, started : Instants]
Request == [at : {"count_shifts", "select_shifts", "count_trips", "select_trips",
                  "evaluate"},
            offset : Nat, total : Nat, shifts : Seq(ShiftRow),
            trips : Seq(TripRow), since : SUBSET Shifts]

\* What comes before each row in the order of the two queries.
ShiftOrder == [s \in Planned |-> {u \in Planned : ShiftBefore(u, s)}]
TripOrder == [s \in StartedInDay |-> {u \in StartedInDay : TripBefore(u, s)}]
FirstShifts(D) == First(D, ShiftOrder, Planned)
FirstTrips(D) == First(D, TripOrder, StartedInDay)

\* Rows are inserted in the order of their numbers; no two trips start at once.
TablesInv ==
    /\ status \in [Shifts -> Statuses]
    /\ trips \in [Shifts -> SUBSET TripStatuses]
    /\ DOMAIN window = Shifts
    /\ DOMAIN started = Shifts
    /\ \A s \in Shifts :
          status[s] \in {"absent", "scheduled", "assigned"} => trips[s] = {}
    /\ \A s \in Shifts : status[s] = "in_progress" => trips[s] = {"active"}
    /\ \A s \in Shifts : status[s] = "completed" => trips[s] = {"completed"}
    /\ \A s \in Planned : window[s] \in [start : Int, end : Int]
                          /\ window[s].start \in Moments
    /\ \A s \in Planned : \A u \in Shifts : u < s => u \in Planned
    /\ \A s, u \in Started : started[s] = started[u] => s = u

RequestInv ==
    /\ slipped \in BOOLEAN
    /\ reading = Idle \/ reading \in Request
    /\ reading # Idle => reading.since \subseteq Planned

\* While the shifts are read, what has been read is the head of their list.
ShiftsInv ==
    /\ ReadingShifts =>
          /\ reading.trips = <<>>
          /\ reading.at = "select_shifts" =>
                /\ Cardinality(reading.since) <= reading.total
                /\ reading.total <= Cardinality(Planned)
          /\ ~slipped => /\ reading.offset = Len(reading.shifts)
                         /\ NoRowTwice(reading.shifts)
                         /\ FirstShifts(ListedIn(reading.shifts))
                         /\ FirstShifts(reading.since)
    /\ reading # Idle /\ ~ReadingShifts /\ ~slipped =>
          /\ NoRowTwice(reading.shifts)
          /\ reading.since \subseteq ListedIn(reading.shifts)

\* Shifts read as completed whose trips the report has to list.
Wanted == {row.shift : row \in {r \in ToSet(reading.shifts) :
              r.status = "completed" /\ started[r.shift] \in MomentsOfDay}}

\* While the trips are read, what has been read is the head of their list, and
\* the wanted trips are in the head that was counted.
TripsInv ==
    /\ reading # Idle =>
          /\ \A row \in ToSet(reading.shifts) :
                row.status = "completed" => status[row.shift] = "completed"
          /\ \A row \in ToSet(reading.trips) :
                /\ row.shift \in StartedInDay
                /\ \A r \in ToSet(reading.shifts) :
                      r.shift = row.shift /\ r.status = "completed"
                          => row.status = {"completed"}
    /\ ReadingTrips =>
          /\ reading.at = "select_trips" =>
                reading.total <= Cardinality(StartedInDay)
          /\ ~slipped =>
                /\ reading.offset = Len(reading.trips)
                /\ NoRowTwice(reading.trips)
                /\ FirstTrips(ListedIn(reading.trips))
                /\ reading.at = "select_trips" =>
                      \E I \in SUBSET StartedInDay :
                          /\ FirstTrips(I) /\ Wanted \subseteq I
                          /\ Cardinality(I) <= reading.total
    /\ Reported /\ ~slipped =>
          NoRowTwice(reading.trips) /\ Wanted \subseteq ListedIn(reading.trips)

Inv == TablesInv /\ RequestInv /\ ShiftsInv /\ TripsInv

-----------------------------------------------------------------------------
(* Both queries sort their rows strictly                                     *)

\* What is listed comes from finitely many shifts.
LEMMA TablesFinite ==
    ASSUME TablesInv
    PROVE  /\ IsFiniteSet(Shifts) /\ IsFiniteSet(Planned)
           /\ IsFiniteSet(StartedInDay)
           /\ Cardinality(Shifts) \in Nat /\ Cardinality(Planned) \in Nat
           /\ Cardinality(StartedInDay) \in Nat
           /\ Cardinality(Planned) <= Cardinality(Shifts)
           /\ Cardinality(StartedInDay) <= Cardinality(Shifts)
<1>1. IsFiniteSet(Shifts)
    BY ShiftsAreNumbers
<1>2. Planned \in SUBSET Shifts /\ StartedInDay \in SUBSET Shifts
    BY DEF Planned, StartedInDay, Started
<1>3. QED
    BY <1>1, <1>2, FS_Subset, FS_CardinalityType

\* Each listed element has a moment of its own as its key.
LEMMA KeysOfMoments ==
    /\ \A t \in Moments : SortKey[t] \in Int
    /\ \A t, u \in Moments : SortKey[t] = SortKey[u] => t = u
    /\ Instants \subseteq Moments /\ MomentsOfDay \subseteq Instants
<1>1. Instants \subseteq Int
    BY InstantsAreNat
<1>2. \A w \in UNION Range(Windows) : w.start \in Int
    BY WindowsAreWindows DEF Range
<1>3. Moments \subseteq Int
    BY <1>1, <1>2 DEF Moments
<1>4. \A t \in Moments : SortKey[t] = TextKey(t)
    BY DEF SortKey
<1>5. QED
    BY <1>3, <1>4, TextKeys DEF Moments, MomentsOfDay

\* The texts of the status column have an order.
LEMMA RanksAreNumbers ==
    ASSUME TablesInv
    PROVE  \A s \in Planned : StatusRank(s) \in Nat
<1> SUFFICES ASSUME NEW s \in Planned PROVE StatusRank(s) \in Nat
    OBVIOUS
<1>1. status[s] \in {"scheduled", "assigned", "in_progress", "completed", "cancelled"}
    BY DEF TablesInv, Planned, Statuses
<1>2. QED
    BY <1>1 DEF StatusRank

\* The shifts of the day are ordered by their keys and statuses, no two alike.
LEMMA ShiftsInOrder ==
    ASSUME TablesInv
    PROVE  /\ Orders(ShiftOrder, Planned)
           /\ Lists(ShiftList, ShiftOrder, Planned)
           /\ Len(ShiftList) = Cardinality(Planned)
<1>1. \A s \in Planned : /\ s \in Nat /\ SortKey[window[s].start] \in Int
                         /\ StatusRank(s) \in Nat
    BY ShiftsAreNumbers, KeysOfMoments, RanksAreNumbers DEF TablesInv, Planned
<1>2. Orders(ShiftOrder, Planned)
    <2>1. ShiftOrder \in [Planned -> SUBSET Planned]
        BY DEF ShiftOrder
    <2>2. \A s, u \in Planned : u \in ShiftOrder[s] <=> ShiftBefore(u, s)
        BY DEF ShiftOrder
    <2>3. \A s \in Planned : ~ShiftBefore(s, s)
        BY <1>1 DEF ShiftBefore
    <2>4. \A s, u \in Planned : s # u => ShiftBefore(s, u) \/ ShiftBefore(u, s)
        BY <1>1 DEF ShiftBefore
    <2>5. \A s, u, v \in Planned :
              ShiftBefore(s, u) /\ ShiftBefore(u, v) => ShiftBefore(s, v)
        BY <1>1 DEF ShiftBefore
    <2>6. \A s, u \in Planned : s \in ShiftOrder[u] => ShiftOrder[s] \subseteq ShiftOrder[u]
        <3> SUFFICES ASSUME NEW s \in Planned, NEW u \in Planned,
                            s \in ShiftOrder[u], NEW v \in ShiftOrder[s]
                     PROVE  v \in ShiftOrder[u]
            OBVIOUS
        <3>1. v \in Planned
            BY <2>1
        <3>2. QED
            BY <2>2, <2>5, <3>1
    <2>7. QED
        BY <2>1, <2>2, <2>3, <2>4, <2>6 DEF Orders
<1>3. IsFiniteSet(Planned) /\ Cardinality(Planned) \in Nat
    BY TablesFinite
<1>4. \A s \in Planned : ShiftOrder[s] = {u \in Planned : ShiftBefore(u, s)}
    BY DEF ShiftOrder
<1>5. DOMAIN ShiftList = 1..Cardinality(Planned)
      /\ Len(ShiftList) = Cardinality(Planned)
    BY <1>3 DEF ShiftList
<1>6. ASSUME NEW i \in 1..Cardinality(Planned)
      PROVE  ShiftList[i] \in Planned
             /\ Cardinality(ShiftOrder[ShiftList[i]]) = i - 1
    <2>1. PICK s \in Planned : Cardinality(ShiftOrder[s]) = i - 1
        BY <1>2, <1>3, PlacesTaken
    <2>2. Cardinality({u \in Planned : ShiftBefore(u, s)}) = i - 1
        BY <1>4, <2>1
    <2>3. ShiftList[i] = CHOOSE x \in Planned :
              Cardinality({u \in Planned : ShiftBefore(u, x)}) = i - 1
        BY DEF ShiftList
    <2>4. ShiftList[i] \in Planned
          /\ Cardinality({u \in Planned : ShiftBefore(u, ShiftList[i])}) = i - 1
        BY <2>2, <2>3
    <2>5. QED
        BY <1>4, <2>4
<1>7. QED
    BY <1>2, <1>5, <1>6 DEF Lists

\* The trips of the day are ordered by theirs.
LEMMA TripsInOrder ==
    ASSUME TablesInv
    PROVE  /\ Orders(TripOrder, StartedInDay)
           /\ Lists(TripList, TripOrder, StartedInDay)
           /\ Len(TripList) = Cardinality(StartedInDay)
<1>1. /\ \A s \in StartedInDay : SortKey[started[s]] \in Int
      /\ \A s, u \in StartedInDay : SortKey[started[s]] = SortKey[started[u]] => s = u
    BY KeysOfMoments DEF TablesInv, StartedInDay
<1>2. Orders(TripOrder, StartedInDay)
    <2>1. TripOrder \in [StartedInDay -> SUBSET StartedInDay]
        BY DEF TripOrder
    <2>2. \A s, u \in StartedInDay : u \in TripOrder[s] <=> TripBefore(u, s)
        BY DEF TripOrder
    <2>3. \A s \in StartedInDay : ~TripBefore(s, s)
        BY <1>1 DEF TripBefore
    <2>4. \A s, u \in StartedInDay : s # u => TripBefore(s, u) \/ TripBefore(u, s)
        BY <1>1 DEF TripBefore
    <2>5. \A s, u, v \in StartedInDay :
              TripBefore(s, u) /\ TripBefore(u, v) => TripBefore(s, v)
        BY <1>1 DEF TripBefore
    <2>6. \A s, u \in StartedInDay : s \in TripOrder[u] => TripOrder[s] \subseteq TripOrder[u]
        <3> SUFFICES ASSUME NEW s \in StartedInDay, NEW u \in StartedInDay,
                            s \in TripOrder[u], NEW v \in TripOrder[s]
                     PROVE  v \in TripOrder[u]
            OBVIOUS
        <3>1. v \in StartedInDay
            BY <2>1
        <3>2. QED
            BY <2>2, <2>5, <3>1
    <2>7. QED
        BY <2>1, <2>2, <2>3, <2>4, <2>6 DEF Orders
<1>3. IsFiniteSet(StartedInDay) /\ Cardinality(StartedInDay) \in Nat
    BY TablesFinite
<1>4. \A s \in StartedInDay :
          TripOrder[s] = {u \in StartedInDay : TripBefore(u, s)}
    BY DEF TripOrder
<1>5. DOMAIN TripList = 1..Cardinality(StartedInDay)
      /\ Len(TripList) = Cardinality(StartedInDay)
    BY <1>3 DEF TripList
<1>6. ASSUME NEW i \in 1..Cardinality(StartedInDay)
      PROVE  TripList[i] \in StartedInDay
             /\ Cardinality(TripOrder[TripList[i]]) = i - 1
    <2>1. PICK s \in StartedInDay : Cardinality(TripOrder[s]) = i - 1
        BY <1>2, <1>3, PlacesTaken
    <2>2. Cardinality({u \in StartedInDay : TripBefore(u, s)}) = i - 1
        BY <1>4, <2>1
    <2>3. TripList[i] = CHOOSE x \in StartedInDay :
              Cardinality({u \in StartedInDay : TripBefore(u, x)}) = i - 1
        BY DEF TripList
    <2>4. TripList[i] \in StartedInDay
          /\ Cardinality({u \in StartedInDay : TripBefore(u, TripList[i])}) = i - 1
        BY <2>2, <2>3
    <2>5. QED
        BY <1>4, <2>4
<1>7. QED
    BY <1>2, <1>5, <1>6 DEF Lists

-----------------------------------------------------------------------------
(* The day goes on: tables grow behind what has been read, or slipped tells  *)

\* A step that leaves statuses, windows and starts alone leaves both orders.
LEMMA SameOrders ==
    ASSUME Planned' = Planned, Started' = Started,
           UNCHANGED <<status, window, started>>
    PROVE  /\ StartedInDay' = StartedInDay
           /\ ShiftOrder' = ShiftOrder /\ TripOrder' = TripOrder
           /\ ShiftList' = ShiftList /\ TripList' = TripList
BY DEF StartedInDay, ShiftOrder, TripOrder, ShiftBefore, TripBefore, StatusRank,
       ShiftList, TripList

\* What a step of the day leaves to a reading.
Grows ==
    /\ TablesInv'
    /\ Planned \subseteq Planned' /\ StartedInDay \subseteq StartedInDay'
    /\ \A s \in Shifts : status[s] = "completed" => status'[s] = "completed"
    /\ \A s \in Started : started'[s] = started[s]
    /\ reading' = reading
    /\ slipped' \in BOOLEAN /\ (slipped => slipped')
    /\ ReadingShifts /\ ~slipped' => \A D : FirstShifts(D) => FirstShifts(D)'
    /\ ReadingTrips /\ ~slipped' => \A D : FirstTrips(D) => FirstTrips(D)'

\* What has been read stays the head of its list unless slipped tells.
LEMMA HeadsStand ==
    ASSUME RequestInv, Slip,
           Planned \subseteq Planned', StartedInDay \subseteq StartedInDay'
    PROVE  /\ slipped' \in BOOLEAN /\ (slipped => slipped')
           /\ ReadingShifts /\ ~slipped' => \A D : FirstShifts(D) => FirstShifts(D)'
           /\ ReadingTrips /\ ~slipped' => \A D : FirstTrips(D) => FirstTrips(D)'
<1>1. slipped' = (slipped \/ ShiftsSlip \/ TripsSlip)
    BY DEF Slip
<1>2. slipped \in BOOLEAN
    BY DEF RequestInv
<1>3. ASSUME ReadingShifts, ~slipped', NEW D, FirstShifts(D) PROVE FirstShifts(D)'
    <2>1. ~ShiftsSlip
        BY <1>1, <1>3
    <2>2. \A s \in Planned', u \in Planned :
              ShiftBefore(s, u)' => s \in Planned /\ ShiftBefore(s, u)
        BY <1>3, <2>1 DEF ShiftsSlip
    <2>3. D \subseteq Planned /\ \A d \in D : ShiftOrder[d] \subseteq D
        BY <1>3 DEF FirstShifts, First
    <2>4. ASSUME NEW d \in D PROVE ShiftOrder'[d] \subseteq D
        <3>1. d \in Planned /\ d \in Planned'
            BY <2>3
        <3>2. ShiftOrder'[d] = {u \in Planned' : ShiftBefore(u, d)'}
            BY <3>1 DEF ShiftOrder
        <3>3. ShiftOrder[d] = {u \in Planned : ShiftBefore(u, d)}
            BY <3>1 DEF ShiftOrder
        <3>4. ShiftOrder'[d] \subseteq ShiftOrder[d]
            BY <2>2, <3>1, <3>2, <3>3
        <3>5. QED
            BY <2>3, <3>4
    <2>5. QED
        BY <2>3, <2>4 DEF FirstShifts, First
<1>4. ASSUME ReadingTrips, ~slipped', NEW D, FirstTrips(D) PROVE FirstTrips(D)'
    <2>1. ~TripsSlip
        BY <1>1, <1>4
    <2>2. \A s \in StartedInDay', u \in StartedInDay :
              TripBefore(s, u)' => s \in StartedInDay /\ TripBefore(s, u)
        BY <1>4, <2>1 DEF TripsSlip
    <2>3. D \subseteq StartedInDay /\ \A d \in D : TripOrder[d] \subseteq D
        BY <1>4 DEF FirstTrips, First
    <2>4. ASSUME NEW d \in D PROVE TripOrder'[d] \subseteq D
        <3>1. d \in StartedInDay /\ d \in StartedInDay'
            BY <2>3
        <3>2. TripOrder'[d] = {u \in StartedInDay' : TripBefore(u, d)'}
            BY <3>1 DEF TripOrder
        <3>3. TripOrder[d] = {u \in StartedInDay : TripBefore(u, d)}
            BY <3>1 DEF TripOrder
        <3>4. TripOrder'[d] \subseteq TripOrder[d]
            BY <2>2, <3>1, <3>2, <3>3
        <3>5. QED
            BY <2>3, <3>4
    <2>5. QED
        BY <2>3, <2>4 DEF FirstTrips, First
<1>5. QED
    BY <1>1, <1>2, <1>3, <1>4

\* Steps that write no row.
LEMMA GrowsByNone ==
    ASSUME Planned' = Planned, Started' = Started, TablesInv', RequestInv,
           UNCHANGED <<status, window, started, reading, slipped>>
    PROVE  Grows
<1>1. StartedInDay' = StartedInDay /\ ShiftOrder' = ShiftOrder /\ TripOrder' = TripOrder
    BY SameOrders
<1>2. \A D : (FirstShifts(D) => FirstShifts(D)') /\ (FirstTrips(D) => FirstTrips(D)')
    BY <1>1 DEF FirstShifts, FirstTrips, First
<1>3. QED
    BY <1>1, <1>2 DEF Grows, RequestInv

\* Time passing writes no row.
LEMMA TickGrows ==
    ASSUME TablesInv, RequestInv, Tick
    PROVE  Grows
<1>1. Planned' = Planned /\ Started' = Started
    BY DEF Tick, planVars, Planned, Started
<1>2. TablesInv'
    BY <1>1 DEF Tick, planVars, TablesInv
<1>3. QED
    BY <1>1, <1>2, GrowsByNone DEF Tick, planVars

\* A row moves on in its life cycle.
LEMMA MovesGrow ==
    ASSUME TablesInv, RequestInv, NEW s \in Shifts,
           AssignShift(s) \/ ReturnTrip(s) \/ CancelShift(s)
    PROVE  Grows
<1> USE DEF TablesInv
<1>1. PICK st \in Statuses \ {"absent"} :
          /\ status' = [status EXCEPT ![s] = st]
          /\ \/ /\ status[s] \in {"scheduled", "assigned"}
                /\ trips' = trips /\ st \in {"assigned", "cancelled"}
             \/ /\ status[s] = "in_progress" /\ st = "completed"
                /\ trips' = [trips EXCEPT ![s] = {"completed"}]
    BY DEF AssignShift, ReturnTrip, CancelShift, Assign, Return, Cancel, Statuses
<1>2. UNCHANGED <<window, started, reading>> /\ Slip
    BY DEF AssignShift, ReturnTrip, CancelShift
<1>3. Planned' = Planned
    BY <1>1 DEF Planned
<1>4. \A u \in Shifts : u # s => status'[u] = status[u] /\ trips'[u] = trips[u]
    BY <1>1
<1>5. status'[s] = st /\ (trips'[s] = {} <=> trips[s] = {})
    BY <1>1
<1>6. Started' = Started
    BY <1>4, <1>5 DEF Started
<1>7. /\ status' \in [Shifts -> Statuses]
      /\ trips' \in [Shifts -> SUBSET TripStatuses]
    BY <1>1 DEF TripStatuses
<1>8. \A u \in Shifts :
          /\ status'[u] \in {"absent", "scheduled", "assigned"} => trips'[u] = {}
          /\ status'[u] = "in_progress" => trips'[u] = {"active"}
          /\ status'[u] = "completed" => trips'[u] = {"completed"}
    <2> SUFFICES ASSUME NEW u \in Shifts
                 PROVE  /\ status'[u] \in {"absent", "scheduled", "assigned"} => trips'[u] = {}
                        /\ status'[u] = "in_progress" => trips'[u] = {"active"}
                        /\ status'[u] = "completed" => trips'[u] = {"completed"}
        OBVIOUS
    <2>1. CASE u # s
        BY <1>4, <2>1
    <2>2. CASE u = s
        BY <1>1, <1>5, <2>2
    <2>3. QED
        BY <2>1, <2>2
<1>9. TablesInv'
    BY <1>2, <1>3, <1>6, <1>7, <1>8
<1>10. \A u \in Shifts : status[u] = "completed" => status'[u] = "completed"
    BY <1>1, <1>4
<1>11. StartedInDay' = StartedInDay
    BY <1>2, <1>6 DEF StartedInDay
<1>12. QED
    BY <1>2, <1>3, <1>9, <1>10, <1>11, HeadsStand DEF Grows

\* A shift is inserted.
LEMMA CreateGrows ==
    ASSUME TablesInv, RequestInv, NEW s \in Shifts, NEW w \in Windows[s],
           CreateShift(s, w)
    PROVE  Grows
<1> USE DEF TablesInv
<1>1. /\ status[s] = "absent" /\ status' = [status EXCEPT ![s] = "scheduled"]
      /\ trips' = trips /\ window' = [window EXCEPT ![s] = w]
      /\ UNCHANGED <<started, now, reading>>
      /\ \A u \in Shifts : u < s => u \in Planned
      /\ Slip
    BY DEF CreateShift, PlanShift
<1>2. Planned' = Planned \cup {s} /\ s \notin Planned
    BY <1>1 DEF Planned, Statuses
<1>3. Started' = Started
    BY <1>1 DEF Started
<1>4. w \in [start : Int, end : Int] /\ w.start \in Moments
    BY WindowsAreWindows DEF Moments, Range
<1>5. \A u \in Planned : u \in Shifts /\ u # s /\ window'[u] = window[u] /\ u < s
    <2> SUFFICES ASSUME NEW u \in Planned
                 PROVE  u \in Shifts /\ u # s /\ window'[u] = window[u] /\ u < s
        OBVIOUS
    <2>1. u \in Shifts /\ u # s
        BY <1>2 DEF Planned
    <2>2. window'[u] = window[u]
        BY <1>1, <2>1
    <2>3. u \in Nat /\ s \in Nat /\ ~(s < u)
        BY <1>2, <2>1, ShiftsAreNumbers
    <2>4. QED
        BY <2>1, <2>2, <2>3
<1>6. window'[s] = w /\ DOMAIN window' = Shifts
    BY <1>1
<1>7. TablesInv'
    <2>1. status' \in [Shifts -> Statuses] /\ trips' \in [Shifts -> SUBSET TripStatuses]
        BY <1>1 DEF Statuses
    <2>2. \A u \in Shifts :
              /\ status'[u] \in {"absent", "scheduled", "assigned"} => trips'[u] = {}
              /\ status'[u] = "in_progress" => trips'[u] = {"active"}
              /\ status'[u] = "completed" => trips'[u] = {"completed"}
        BY <1>1
    <2>3. \A u \in Planned' : window'[u] \in [start : Int, end : Int]
                              /\ window'[u].start \in Moments
        BY <1>2, <1>4, <1>5, <1>6
    <2>4. \A u \in Planned' : \A v \in Shifts : v < u => v \in Planned'
        BY <1>1, <1>2
    <2>5. DOMAIN started' = Shifts /\ \A u, v \in Started' : started'[u] = started'[v] => u = v
        BY <1>1, <1>3
    <2>6. QED
        BY <1>6, <2>1, <2>2, <2>3, <2>4, <2>5
<1>8. StartedInDay' = StartedInDay
    BY <1>1, <1>3 DEF StartedInDay
<1>9. \A u \in Shifts : status[u] = "completed" => status'[u] = "completed"
    BY <1>1
<1>10. QED
    BY <1>1, <1>2, <1>7, <1>8, <1>9, HeadsStand DEF Grows

\* A trip is inserted.
LEMMA StartGrows ==
    ASSUME TablesInv, RequestInv, NEW s \in Shifts, StartTrip(s)
    PROVE  Grows
<1> USE DEF TablesInv
<1>1. /\ status[s] = "assigned" /\ status' = [status EXCEPT ![s] = "in_progress"]
      /\ trips' = [trips EXCEPT ![s] = {"active"}]
      /\ started' = [started EXCEPT ![s] = now]
      /\ UNCHANGED <<window, now, reading>>
      /\ \A u \in Started : started[u] # now
      /\ Slip
    BY DEF StartTrip, Start
<1>2. Planned' = Planned
    BY <1>1 DEF Planned
<1>3. trips[s] = {} /\ s \notin Started /\ Started \subseteq Shifts
    BY <1>1 DEF Started
<1>4. Started' = Started \cup {s}
    BY <1>1, <1>3 DEF Started
<1>5. started'[s] = now /\ \A u \in Started : started'[u] = started[u]
    BY <1>1, <1>3
<1>6. TablesInv'
    <2>1. status' \in [Shifts -> Statuses] /\ trips' \in [Shifts -> SUBSET TripStatuses]
        BY <1>1 DEF Statuses, TripStatuses
    <2>2. \A u \in Shifts :
              /\ status'[u] \in {"absent", "scheduled", "assigned"} => trips'[u] = {}
              /\ status'[u] = "in_progress" => trips'[u] = {"active"}
              /\ status'[u] = "completed" => trips'[u] = {"completed"}
        BY <1>1
    <2>3. \A u, v \in Started' : started'[u] = started'[v] => u = v
        BY <1>1, <1>4, <1>5
    <2>4. QED
        BY <1>1, <1>2, <2>1, <2>2, <2>3
<1>7. StartedInDay \subseteq StartedInDay'
    BY <1>4, <1>5 DEF StartedInDay
<1>8. \A u \in Shifts : status[u] = "completed" => status'[u] = "completed"
    BY <1>1
<1>9. QED
    BY <1>1, <1>2, <1>5, <1>6, <1>7, <1>8, HeadsStand DEF Grows

\* What has been read stays the head of its list.
LEMMA ReadingOutlivesDay ==
    ASSUME Inv, Grows
    PROVE  Inv'
<1> USE DEF Inv, Grows
<1>1. RequestInv'
    BY DEF RequestInv
<1>2. IsFiniteSet(Planned') /\ Cardinality(Planned) <= Cardinality(Planned')
      /\ Cardinality(Planned) \in Nat /\ Cardinality(Planned') \in Nat
    <2>1. IsFiniteSet(Planned')
        BY ShiftsAreNumbers, FS_Subset DEF Planned
    <2>2. QED
        BY <2>1, FS_Subset, FS_CardinalityType
<1>3. IsFiniteSet(StartedInDay') /\ Cardinality(StartedInDay) <= Cardinality(StartedInDay')
      /\ Cardinality(StartedInDay) \in Nat /\ Cardinality(StartedInDay') \in Nat
    <2>1. IsFiniteSet(StartedInDay')
        BY ShiftsAreNumbers, FS_Subset DEF StartedInDay, Started
    <2>2. QED
        BY <2>1, FS_Subset, FS_CardinalityType
<1>4. reading = Idle \/ reading.total \in Nat
    BY DEF RequestInv, Request
<1>5. ReadingShifts \/ ReadingTrips => reading # Idle
    BY DEF ReadingShifts, ReadingTrips, Idle
<1>6. ReadingShifts' = ReadingShifts /\ ReadingTrips' = ReadingTrips /\ Reported' = Reported
    BY DEF ReadingShifts, ReadingTrips, Reported
<1>7. ShiftsInv'
    <2>1. ReadingShifts /\ reading.at = "select_shifts" =>
              reading.total <= Cardinality(Planned')
        BY <1>2, <1>4, <1>5 DEF ShiftsInv
    <2>2. QED
        BY <1>6, <2>1 DEF ShiftsInv
<1>8. \A s \in Shifts : status[s] = "completed" => s \in Started
    <2>1. \A s \in Shifts : status[s] = "completed" => trips[s] = {"completed"}
        BY DEF TablesInv
    <2>2. QED
        BY <2>1 DEF Started
<1>9. reading # Idle => \A row \in ToSet(reading.shifts) :
          row.status = "completed" =>
              row.shift \in Started /\ started'[row.shift] = started[row.shift]
    <2> SUFFICES ASSUME reading # Idle, NEW row \in ToSet(reading.shifts),
                        row.status = "completed"
                 PROVE  row.shift \in Started /\ started'[row.shift] = started[row.shift]
        OBVIOUS
    <2>1. row \in ShiftRow
        <3>1. reading.shifts \in Seq(ShiftRow)
            BY DEF RequestInv, Request
        <3>2. QED
            BY <3>1, LenProperties, ElementOfSeq DEF ToSet
    <2>2. row.shift \in Shifts /\ status[row.shift] = "completed"
        BY <2>1 DEF ShiftRow, TripsInv
    <2>3. row.shift \in Started
        BY <1>8, <2>2
    <2>4. QED
        BY <2>3
<1>10. reading # Idle => Wanted' = Wanted
    BY <1>9 DEF Wanted
<1>11. TripsInv'
    <2>1. reading # Idle =>
            /\ \A row \in ToSet(reading.shifts) :
                  row.status = "completed" => status'[row.shift] = "completed"
            /\ \A row \in ToSet(reading.trips) :
                  /\ row.shift \in StartedInDay'
                  /\ \A r \in ToSet(reading.shifts) :
                        r.shift = row.shift /\ r.status = "completed"
                            => row.status = {"completed"}
        <3>1. reading # Idle => \A row \in ToSet(reading.shifts) :
                  row.shift \in Shifts
            <4>1. reading # Idle => reading.shifts \in Seq(ShiftRow)
                BY DEF RequestInv, Request
            <4>2. reading # Idle => \A row \in ToSet(reading.shifts) : row \in ShiftRow
                BY <4>1, LenProperties, ElementOfSeq DEF ToSet
            <4>3. QED
                BY <4>2 DEF ShiftRow
        <3>2. QED
            BY <3>1 DEF TripsInv
    <2>2. ReadingTrips /\ reading.at = "select_trips" =>
              reading.total <= Cardinality(StartedInDay')
        BY <1>3, <1>4, <1>5 DEF TripsInv
    <2>3. ReadingTrips /\ ~slipped' =>
            /\ reading.offset = Len(reading.trips)
            /\ NoRowTwice(reading.trips)
            /\ FirstTrips(ListedIn(reading.trips))'
            /\ reading.at = "select_trips" =>
                  \E I \in SUBSET StartedInDay' :
                      /\ FirstTrips(I)' /\ Wanted' \subseteq I
                      /\ Cardinality(I) <= reading.total
        <3> SUFFICES ASSUME ReadingTrips, ~slipped'
                     PROVE  /\ reading.offset = Len(reading.trips)
                            /\ NoRowTwice(reading.trips)
                            /\ FirstTrips(ListedIn(reading.trips))'
                            /\ reading.at = "select_trips" =>
                                  \E I \in SUBSET StartedInDay' :
                                      /\ FirstTrips(I)' /\ Wanted' \subseteq I
                                      /\ Cardinality(I) <= reading.total
            OBVIOUS
        <3>1. ~slipped /\ reading # Idle
            BY <1>5
        <3>2. /\ reading.offset = Len(reading.trips)
              /\ NoRowTwice(reading.trips)
              /\ FirstTrips(ListedIn(reading.trips))
            BY <3>1 DEF TripsInv
        <3>3. FirstTrips(ListedIn(reading.trips))'
            <4>1. PICK D : D = ListedIn(reading.trips)
                OBVIOUS
            <4>2. FirstTrips(D)'
                BY <3>2, <4>1
            <4>3. ListedIn(reading.trips)' = D
                BY <4>1
            <4>4. QED
                BY <4>2, <4>3
        <3>4. ASSUME reading.at = "select_trips"
              PROVE  \E I \in SUBSET StartedInDay' :
                         /\ FirstTrips(I)' /\ Wanted' \subseteq I
                         /\ Cardinality(I) <= reading.total
            <4>1. PICK I \in SUBSET StartedInDay :
                      /\ FirstTrips(I) /\ Wanted \subseteq I
                      /\ Cardinality(I) <= reading.total
                BY <3>1, <3>4 DEF TripsInv
            <4>2. FirstTrips(I)' /\ I \in SUBSET StartedInDay'
                BY <4>1
            <4>3. QED
                BY <1>10, <3>1, <4>1, <4>2
        <3>5. QED
            BY <3>2, <3>3, <3>4
    <2>4. Reported /\ ~slipped' =>
              NoRowTwice(reading.trips) /\ Wanted' \subseteq ListedIn(reading.trips)
        BY <1>10 DEF TripsInv, Reported, Idle
    <2>5. QED
        BY <1>6, <2>1, <2>2, <2>3, <2>4 DEF TripsInv
<1>12. QED
    BY <1>1, <1>7, <1>11

-----------------------------------------------------------------------------
(* The reading goes on                                                       *)

\* A step of the reading leaves the tables alone.
LEMMA TablesStand ==
    ASSUME TablesInv, UNCHANGED <<planVars, window, started>>
    PROVE  /\ TablesInv' /\ Planned' = Planned /\ status' = status
           /\ StartedInDay' = StartedInDay /\ started' = started
           /\ \A D : FirstShifts(D)' <=> FirstShifts(D)
           /\ \A D : FirstTrips(D)' <=> FirstTrips(D)
<1>1. Planned' = Planned /\ Started' = Started /\ status' = status /\ trips' = trips
    BY DEF planVars, Planned, Started
<1>2. StartedInDay' = StartedInDay /\ ShiftOrder' = ShiftOrder /\ TripOrder' = TripOrder
    BY <1>1, SameOrders
<1>3. TablesInv'
    BY <1>1 DEF TablesInv
<1>4. QED
    BY <1>1, <1>2, <1>3 DEF FirstShifts, FirstTrips, First

\* Before its first page a list holds nothing and is a part read first.
LEMMA NothingRead ==
    /\ <<>> \in Seq(ShiftRow) /\ <<>> \in Seq(TripRow) /\ Len(<<>>) = 0
    /\ NoRowTwice(<<>>) /\ ListedIn(<<>>) = {} /\ ToSet(<<>>) = {}
    /\ FirstShifts({}) /\ FirstTrips({})
<1>1. DOMAIN <<>> = {}
    OBVIOUS
<1>2. QED
    BY <1>1 DEF NoRowTwice, ListedIn, ToSet, FirstShifts, FirstTrips, First

\* The rows read so far are rows.
LEMMA RowsTyped ==
    ASSUME NEW Row, NEW list \in Seq(Row)
    PROVE  ToSet(list) \subseteq Row
BY LenProperties, ElementOfSeq DEF ToSet

\* A reading begins with nothing read.
LEMMA BeginStep ==
    ASSUME Inv, Begin
    PROVE  Inv'
<1> USE DEF Inv
<1>1. /\ UNCHANGED <<planVars, window, started>> /\ slipped' = FALSE
      /\ reading' = [at |-> "count_shifts", offset |-> 0, total |-> 0,
                     shifts |-> <<>>, trips |-> <<>>, since |-> Planned]
    BY DEF Begin
<1>2. TablesInv' /\ Planned' = Planned /\ \A D : FirstShifts(D)' <=> FirstShifts(D)
    BY <1>1, TablesStand
<1>3. RequestInv'
    <2>1. Planned \in SUBSET Shifts
        BY DEF Planned
    <2>2. reading' \in Request
        BY <1>1, <2>1, NothingRead DEF Request
    <2>3. QED
        BY <1>1, <1>2, <2>2 DEF RequestInv
<1>4. FirstShifts({}) /\ FirstShifts(Planned)
    <2>1. ShiftOrder \in [Planned -> SUBSET Planned]
        BY DEF ShiftOrder
    <2>2. QED
        BY <2>1, NothingRead DEF FirstShifts, First
<1>5. ShiftsInv'
    <2>1. ListedIn(reading.shifts)' = {} /\ reading.since' = Planned
        BY <1>1, NothingRead
    <2>2. FirstShifts({})' /\ FirstShifts(Planned)'
        <3>1. PICK D : D = Planned
            OBVIOUS
        <3>2. FirstShifts(D)'
            BY <1>2, <1>4, <3>1
        <3>3. QED
            BY <1>2, <1>4, <3>1, <3>2
    <2>3. FirstShifts(ListedIn(reading.shifts))' /\ FirstShifts(reading.since)'
        BY <2>1, <2>2, <1>2 DEF FirstShifts
    <2>4. QED
        BY <1>1, <2>3, NothingRead DEF ShiftsInv, ReadingShifts
<1>6. TripsInv'
    BY <1>1, NothingRead DEF TripsInv, ReadingTrips, Reported
<1>7. QED
    BY <1>2, <1>3, <1>5, <1>6

\* The count of the shifts reads no row.
LEMMA CountShiftsStep ==
    ASSUME Inv, CountShifts
    PROVE  Inv'
<1> USE DEF Inv
<1>1. /\ UNCHANGED <<planVars, window, started, slipped>>
      /\ reading.at = "count_shifts"
      /\ reading' = [reading EXCEPT !.at = "select_shifts",
                                    !.total = Cardinality(Planned)]
    BY DEF CountShifts
<1>2. TablesInv' /\ Planned' = Planned /\ (\A D : FirstShifts(D)' <=> FirstShifts(D))
      /\ StartedInDay' = StartedInDay /\ status' = status /\ started' = started
    BY <1>1, TablesStand
<1>3. reading \in Request /\ reading # Idle
    BY <1>1 DEF RequestInv, Idle
<1>4. IsFiniteSet(Planned) /\ Cardinality(Planned) \in Nat
    BY TablesFinite
<1>5. /\ reading'.at = "select_shifts" /\ reading'.total = Cardinality(Planned)
      /\ reading'.offset = reading.offset /\ reading'.shifts = reading.shifts
      /\ reading'.trips = reading.trips /\ reading'.since = reading.since
      /\ reading' \in Request /\ reading' # Idle
    BY <1>1, <1>3, <1>4 DEF Request, Idle
<1>6. reading.since \subseteq Planned
    BY <1>3 DEF RequestInv
<1>7. RequestInv'
    BY <1>1, <1>2, <1>5, <1>6 DEF RequestInv
<1>8. ReadingShifts /\ ReadingShifts'
    BY <1>1, <1>5 DEF ReadingShifts
<1>9. ShiftsInv'
    <2>1. Cardinality(reading.since) <= Cardinality(Planned)
        BY <1>4, <1>6, FS_Subset
    <2>2. Cardinality(Planned) <= Cardinality(Planned)
        BY <1>4
    <2>3. ~slipped => FirstShifts(ListedIn(reading.shifts))' /\ FirstShifts(reading.since)'
        <3> SUFFICES ASSUME ~slipped
                     PROVE  FirstShifts(ListedIn(reading.shifts))' /\ FirstShifts(reading.since)'
            OBVIOUS
        <3>1. PICK C, D : C = ListedIn(reading.shifts) /\ D = reading.since
            OBVIOUS
        <3>2. FirstShifts(C) /\ FirstShifts(D)
            BY <1>8, <3>1 DEF ShiftsInv
        <3>3. FirstShifts(C)' /\ FirstShifts(D)'
            BY <1>2, <3>2
        <3>4. ListedIn(reading.shifts)' = C /\ (reading.since)' = D
            BY <1>5, <3>1
        <3>5. QED
            BY <3>3, <3>4 DEF FirstShifts
    <2>4. QED
        BY <1>1, <1>2, <1>5, <1>8, <2>1, <2>2, <2>3 DEF ShiftsInv
<1>10. reading.trips = <<>>
    BY <1>8 DEF ShiftsInv
<1>11. TripsInv'
    BY <1>2, <1>3, <1>5, <1>10, NothingRead DEF TripsInv, ReadingTrips, Reported
<1>12. QED
    BY <1>2, <1>7, <1>9, <1>11

\* A page of shifts goes on where the last one ended.
LEMMA SelectShiftsStep ==
    ASSUME Inv, SelectShifts
    PROVE  Inv'
<1> USE DEF Inv
<1> DEFINE page == Page(ShiftList, reading.offset)
           rows == [i \in DOMAIN page |->
                      [shift |-> page[i], status |-> status[page[i]],
                       start |-> window[page[i]].start,
                       end |-> window[page[i]].end]]
           list == reading.shifts \o rows
           n == Cardinality(Planned)
<1>1. /\ UNCHANGED <<planVars, window, started, slipped>>
      /\ reading.at = "select_shifts"
      /\ reading' =
             IF AllRead(list, reading.total)
             THEN [reading EXCEPT !.at = "count_trips", !.shifts = list,
                                  !.offset = 0, !.total = 0]
             ELSE [reading EXCEPT !.at = "count_shifts", !.shifts = list,
                                  !.offset = OffsetAfterPage(@), !.total = 0]
    BY DEF SelectShifts
<1>2. TablesInv' /\ Planned' = Planned /\ (\A D : FirstShifts(D)' <=> FirstShifts(D))
      /\ (\A D : FirstTrips(D)' <=> FirstTrips(D))
      /\ StartedInDay' = StartedInDay /\ status' = status /\ started' = started
    BY <1>1, TablesStand
<1>3. reading \in Request /\ reading # Idle /\ ReadingShifts /\ reading.since \subseteq Planned
    BY <1>1 DEF RequestInv, Idle, ReadingShifts
<1>4. /\ reading.offset \in Nat /\ reading.total \in Nat
      /\ reading.shifts \in Seq(ShiftRow) /\ Len(reading.shifts) \in Nat
    BY <1>3, LenProperties DEF Request
<1>5. IsFiniteSet(Planned) /\ n \in Nat /\ n <= Cardinality(Shifts) /\ Cardinality(Shifts) \in Nat
    BY TablesFinite
<1>6. /\ Orders(ShiftOrder, Planned) /\ Lists(ShiftList, ShiftOrder, Planned)
      /\ Len(ShiftList) = n /\ DOMAIN ShiftList = 1..n
    BY ShiftsInOrder DEF Lists
<1>7. PICK m \in Nat : PageIs(ShiftList, reading.offset, n, m)
    BY <1>4, <1>5, <1>6, PageRows
<1>8.     /\ page = [i \in 1..m |-> ShiftList[reading.offset + i]]
          /\ \A i \in 1..m : reading.offset + i \in 1..n
          /\ reading.offset <= n =>
                reading.offset + m <= n /\ (m = Limit \/ reading.offset + m = n)
    BY <1>7 DEF PageIs
<1>9. DOMAIN page = 1..m /\ \A i \in 1..m : page[i] = ShiftList[reading.offset + i]
    BY <1>8
<1>10. \A i \in 1..m : page[i] \in Planned
    BY <1>6, <1>8, <1>9 DEF Lists
<1> HIDE DEF page, n
<1>11. rows = [i \in 1..m |->
                  [shift |-> page[i], status |-> status[page[i]],
                   start |-> window[page[i]].start, end |-> window[page[i]].end]]
    BY <1>9
<1> HIDE DEF rows
<1>12. \A i \in 1..m : /\ rows[i] \in ShiftRow /\ rows[i].shift = page[i]
                       /\ rows[i].status = status[page[i]]
    <2> SUFFICES ASSUME NEW i \in 1..m
                 PROVE  /\ rows[i] \in ShiftRow /\ rows[i].shift = page[i]
                        /\ rows[i].status = status[page[i]]
        OBVIOUS
    <2>1. rows[i] = [shift |-> page[i], status |-> status[page[i]],
                     start |-> window[page[i]].start, end |-> window[page[i]].end]
        BY <1>11
    <2>2. page[i] \in Planned /\ page[i] \in Shifts
        BY <1>10 DEF Planned
    <2>3. status[page[i]] \in Statuses /\ window[page[i]] \in [start : Int, end : Int]
        BY <2>2 DEF TablesInv
    <2>4. QED
        BY <2>1, <2>2, <2>3 DEF ShiftRow
<1>13. rows \in Seq(ShiftRow) /\ Len(rows) = m
    <2>1. rows \in [1..m -> ShiftRow]
        BY <1>11, <1>12
    <2>2. QED
        BY <2>1
<1>14. list \in Seq(ShiftRow) /\ Len(list) = Len(reading.shifts) + m
    BY <1>4, <1>13, ConcatProperties
<1>15. \A row \in ToSet(list) : row.status = "completed" => status[row.shift] = "completed"
    <2> SUFFICES ASSUME NEW row \in ToSet(list), row.status = "completed"
                 PROVE  status[row.shift] = "completed"
        OBVIOUS
    <2>1. PICK i \in 1..(Len(reading.shifts) + m) :
              row = IF i <= Len(reading.shifts) THEN reading.shifts[i]
                    ELSE rows[i - Len(reading.shifts)]
        <3>1. DOMAIN list = 1..(Len(reading.shifts) + m)
            BY <1>14, LenProperties
        <3>2. \A i \in 1..(Len(reading.shifts) + m) :
                  list[i] = IF i <= Len(reading.shifts) THEN reading.shifts[i]
                            ELSE rows[i - Len(reading.shifts)]
            BY <1>4, <1>13, ConcatProperties
        <3>3. QED
            BY <3>1, <3>2 DEF ToSet
    <2>2. CASE i <= Len(reading.shifts)
        <3>1. row \in ToSet(reading.shifts)
            BY <1>4, <2>1, <2>2, LenProperties DEF ToSet
        <3>2. QED
            BY <1>3, <3>1 DEF TripsInv
    <2>3. CASE ~(i <= Len(reading.shifts))
        <3>1. i - Len(reading.shifts) \in 1..m
            BY <1>4, <2>1, <2>3
        <3>2. QED
            BY <1>12, <2>1, <2>3, <3>1
    <2>4. QED
        BY <2>2, <2>3
<1>16. ~slipped =>
          /\ NoRowTwice(list) /\ FirstShifts(ListedIn(list))
          /\ Cardinality(ListedIn(list)) = Len(list)
          /\ Len(list) = reading.offset + m /\ reading.offset + m <= n
          /\ m = Limit \/ reading.offset + m = n
    <2> SUFFICES ASSUME ~slipped
                 PROVE  /\ NoRowTwice(list) /\ FirstShifts(ListedIn(list))
                        /\ Cardinality(ListedIn(list)) = Len(list)
                        /\ Len(list) = reading.offset + m /\ reading.offset + m <= n
                        /\ m = Limit \/ reading.offset + m = n
        OBVIOUS
    <2>1. /\ reading.offset = Len(reading.shifts) /\ NoRowTwice(reading.shifts)
          /\ First(ListedIn(reading.shifts), ShiftOrder, Planned)
        BY <1>3 DEF ShiftsInv, FirstShifts
    <2>2. reading.offset <= n
        <3>1. Cardinality(ListedIn(reading.shifts)) = Len(reading.shifts)
            BY <1>4, <2>1, RowsAreShifts
        <3>2. Cardinality(ListedIn(reading.shifts)) <= n
            BY <1>5, <2>1, FS_Subset DEF First, n
        <3>3. QED
            BY <2>1, <3>1, <3>2
    <2>3. reading.offset + m <= n /\ (m = Limit \/ reading.offset + m = n)
        BY <1>8, <2>2
    <2>4. \A i \in 1..Len(rows) : rows[i].shift = ShiftList[Len(reading.shifts) + i]
        BY <1>9, <1>12, <1>13, <2>1
    <2>5. Len(reading.shifts) + Len(rows) <= Cardinality(Planned)
        BY <1>13, <2>1, <2>3 DEF n
    <2>6. ReadTo(reading.shifts \o rows, Len(reading.shifts) + Len(rows), ShiftOrder, Planned)
        BY <1>4, <1>5, <1>6, <1>13, <2>1, <2>4, <2>5, ReadOn
    <2>7. QED
        BY <1>13, <1>14, <2>1, <2>3, <2>6 DEF FirstShifts, ReadTo
<1> HIDE DEF list
<1>17. reading.trips = <<>> /\ Cardinality(reading.since) <= reading.total
       /\ reading.total <= n /\ (~slipped => FirstShifts(reading.since))
    BY <1>1, <1>3 DEF ShiftsInv, n
<1>18. Len(list) \in Nat
    BY <1>4, <1>14
<1>19. CASE Len(list) >= reading.total
    <2>1. reading' = [reading EXCEPT !.at = "count_trips", !.shifts = list,
                                     !.offset = 0, !.total = 0]
        BY <1>1, <1>19 DEF AllRead
    <2>2. /\ reading'.at = "count_trips" /\ reading'.total = 0 /\ reading'.offset = 0
          /\ reading'.shifts = list /\ reading'.trips = <<>>
          /\ reading'.since = reading.since
          /\ reading' \in Request /\ reading' # Idle
        BY <1>3, <1>14, <1>17, <2>1 DEF Request, Idle
    <2>3. RequestInv'
        BY <1>1, <1>2, <1>3, <2>2 DEF RequestInv
    <2>4. ~slipped => reading.since \subseteq ListedIn(list)
        <3> SUFFICES ASSUME ~slipped PROVE reading.since \subseteq ListedIn(list)
            OBVIOUS
        <3>1. First(reading.since, ShiftOrder, Planned) /\ First(ListedIn(list), ShiftOrder, Planned)
            BY <1>16, <1>17 DEF FirstShifts
        <3>2. Cardinality(reading.since) \in Nat
            BY <1>3, <1>5, FS_Subset, FS_CardinalityType
        <3>3. Cardinality(reading.since) <= Cardinality(ListedIn(list))
            BY <1>4, <1>16, <1>17, <1>18, <1>19, <3>2
        <3>4. QED
            BY <1>5, <1>6, <3>1, <3>3, FirstAreNested
    <2>5. ShiftsInv'
        BY <1>1, <1>16, <2>2, <2>4 DEF ShiftsInv, ReadingShifts
    <2>6. FirstTrips({})'
        BY <1>2, NothingRead
    <2>7. TripsInv'
        <3>1. ListedIn(reading.trips)' = {} /\ NoRowTwice(reading.trips)' /\ Len(reading.trips)' = 0
              /\ ToSet(reading.trips)' = {}
            BY <2>2, NothingRead
        <3>2. FirstTrips(ListedIn(reading.trips))'
            BY <2>6, <3>1 DEF FirstTrips
        <3>3. QED
            BY <1>2, <1>15, <2>2, <3>1, <3>2 DEF TripsInv, Reported
    <2>8. QED
        BY <1>2, <2>3, <2>5, <2>7
<1>20. CASE ~(Len(list) >= reading.total)
    <2>1. reading' = [reading EXCEPT !.at = "count_shifts", !.shifts = list,
                                  !.offset = OffsetAfterPage(@), !.total = 0]
        BY <1>1, <1>20 DEF AllRead
    <2>2. OffsetAfterPage(reading.offset) \in Nat
        BY <1>4, <1>5, LimitIsPositive DEF OffsetAfterPage
    <2>3. /\ reading'.at = "count_shifts" /\ reading'.total = 0
          /\ reading'.offset = OffsetAfterPage(reading.offset)
          /\ reading'.shifts = list /\ reading'.trips = <<>>
          /\ reading'.since = reading.since
          /\ reading' \in Request /\ reading' # Idle
        BY <1>3, <1>14, <1>17, <2>1, <2>2 DEF Request, Idle
    <2>4. RequestInv'
        BY <1>1, <1>2, <1>3, <2>3 DEF RequestInv
    <2>5. ~slipped => OffsetAfterPage(reading.offset) = Len(list)
        <3> SUFFICES ASSUME ~slipped PROVE OffsetAfterPage(reading.offset) = Len(list)
            OBVIOUS
        <3>1. Len(list) = reading.offset + m /\ Len(list) < n /\ m = Limit
            BY <1>4, <1>5, <1>16, <1>17, <1>18, <1>20
        <3>2. reading.offset + Limit < Cardinality(Shifts)
            BY <1>4, <1>5, <3>1
        <3>3. QED
            BY <3>1, <3>2 DEF OffsetAfterPage
    <2>6. ~slipped => FirstShifts(ListedIn(reading.shifts))' /\ FirstShifts(reading.since)'
        <3> SUFFICES ASSUME ~slipped
                     PROVE  FirstShifts(ListedIn(reading.shifts))' /\ FirstShifts(reading.since)'
            OBVIOUS
        <3>1. PICK C, D : C = ListedIn(list) /\ D = reading.since
            OBVIOUS
        <3>2. FirstShifts(C) /\ FirstShifts(D)
            BY <1>16, <1>17, <3>1
        <3>3. FirstShifts(C)' /\ FirstShifts(D)'
            BY <1>2, <3>2
        <3>4. ListedIn(reading.shifts)' = C /\ (reading.since)' = D
            BY <2>3, <3>1
        <3>5. QED
            BY <3>3, <3>4 DEF FirstShifts
    <2>7. ShiftsInv'
        BY <1>1, <1>16, <2>3, <2>5, <2>6 DEF ShiftsInv, ReadingShifts
    <2>8. TripsInv'
        BY <1>2, <1>15, <2>3, NothingRead DEF TripsInv, ReadingTrips, Reported
    <2>9. QED
        BY <1>2, <2>4, <2>7, <2>8
<1>21. QED
    BY <1>19, <1>20

\* The count of the trips reads no row.
LEMMA CountTripsStep ==
    ASSUME Inv, CountTrips
    PROVE  Inv'
<1> USE DEF Inv
<1>1. /\ UNCHANGED <<planVars, window, started, slipped>>
      /\ reading.at = "count_trips"
      /\ reading' = [reading EXCEPT !.at = "select_trips",
                                    !.total = Cardinality(StartedInDay)]
    BY DEF CountTrips
<1>2. TablesInv' /\ Planned' = Planned /\ (\A D : FirstTrips(D)' <=> FirstTrips(D))
      /\ StartedInDay' = StartedInDay /\ status' = status /\ started' = started
    BY <1>1, TablesStand
<1>3. reading \in Request /\ reading # Idle /\ ReadingTrips /\ ~ReadingShifts
    BY <1>1 DEF RequestInv, Idle, ReadingTrips, ReadingShifts
<1>4. IsFiniteSet(StartedInDay) /\ Cardinality(StartedInDay) \in Nat
    BY TablesFinite
<1>5. /\ reading'.at = "select_trips" /\ reading'.total = Cardinality(StartedInDay)
      /\ reading'.offset = reading.offset /\ reading'.shifts = reading.shifts
      /\ reading'.trips = reading.trips /\ reading'.since = reading.since
      /\ reading' \in Request /\ reading' # Idle
    BY <1>1, <1>3, <1>4 DEF Request, Idle
<1>6. RequestInv'
    BY <1>1, <1>2, <1>3, <1>5 DEF RequestInv
<1>7. ShiftsInv'
    BY <1>1, <1>3, <1>5 DEF ShiftsInv, ReadingShifts
<1>8. Wanted' = Wanted /\ Wanted \subseteq StartedInDay
    <2>1. Wanted' = Wanted
        BY <1>2, <1>5 DEF Wanted
    <2>2. ToSet(reading.shifts) \subseteq ShiftRow
        BY <1>3, RowsTyped DEF Request
    <2>3. \A row \in ToSet(reading.shifts) :
              row.status = "completed" => row.shift \in Started
        <3>1. \A row \in ToSet(reading.shifts) : row.shift \in Shifts
            BY <2>2 DEF ShiftRow
        <3>2. \A row \in ToSet(reading.shifts) :
                  row.status = "completed" => status[row.shift] = "completed"
            BY <1>3 DEF TripsInv
        <3>3. \A s \in Shifts : status[s] = "completed" => s \in Started
            BY DEF TablesInv, Started
        <3>4. QED
            BY <3>1, <3>2, <3>3
    <2>4. QED
        BY <2>1, <2>3 DEF Wanted, StartedInDay
<1>9. FirstTrips(StartedInDay)
    <2>1. TripOrder \in [StartedInDay -> SUBSET StartedInDay]
        BY DEF TripOrder
    <2>2. QED
        BY <2>1 DEF FirstTrips, First
<1>10. FirstTrips(StartedInDay)'
    <2>1. PICK D : D = StartedInDay
        OBVIOUS
    <2>2. FirstTrips(D)'
        BY <1>2, <1>9, <2>1
    <2>3. QED
        BY <1>2, <2>1, <2>2
<1>11. ~slipped => FirstTrips(ListedIn(reading.trips))'
    <2> SUFFICES ASSUME ~slipped PROVE FirstTrips(ListedIn(reading.trips))'
        OBVIOUS
    <2>1. PICK D : D = ListedIn(reading.trips)
        OBVIOUS
    <2>2. FirstTrips(D)
        BY <1>3, <2>1 DEF TripsInv
    <2>3. FirstTrips(D)'
        BY <1>2, <2>2
    <2>4. ListedIn(reading.trips)' = D
        BY <1>5, <2>1
    <2>5. QED
        BY <2>3, <2>4 DEF FirstTrips
<1>12. \E I \in SUBSET StartedInDay' :
           /\ FirstTrips(I)' /\ Wanted' \subseteq I
           /\ Cardinality(I) <= reading'.total
    <2>1. Cardinality(StartedInDay) <= Cardinality(StartedInDay)
        BY <1>4
    <2>2. PICK I : I = StartedInDay
        OBVIOUS
    <2>3. FirstTrips(I)'
        BY <1>2, <1>9, <2>2
    <2>4. QED
        BY <1>2, <1>5, <1>8, <2>1, <2>2, <2>3
<1>13. TripsInv'
    <2>1. /\ \A row \in ToSet(reading.shifts)' :
                row.status = "completed" => status'[row.shift] = "completed"
          /\ \A row \in ToSet(reading.trips)' :
                /\ row.shift \in StartedInDay'
                /\ \A r \in ToSet(reading.shifts)' :
                      r.shift = row.shift /\ r.status = "completed"
                          => row.status = {"completed"}
        BY <1>2, <1>3, <1>5 DEF TripsInv
    <2>2. reading'.total <= Cardinality(StartedInDay')
        BY <1>2, <1>4, <1>5
    <2>3. ~slipped => /\ reading'.offset = Len(reading'.trips)
                      /\ NoRowTwice(reading'.trips)
        BY <1>3, <1>5 DEF TripsInv
    <2>4. QED
        BY <1>1, <1>5, <1>11, <1>12, <2>1, <2>2, <2>3 DEF TripsInv, Reported
<1>14. QED
    BY <1>2, <1>6, <1>7, <1>13

\* A page of trips goes on where the last one ended.
LEMMA SelectTripsStep ==
    ASSUME Inv, SelectTrips
    PROVE  Inv'
<1> USE DEF Inv
<1> DEFINE page == Page(TripList, reading.offset)
           rows == [i \in DOMAIN page |->
                      [shift |-> page[i], status |-> trips[page[i]],
                       started |-> started[page[i]]]]
           list == reading.trips \o rows
           n == Cardinality(StartedInDay)
<1>1. /\ UNCHANGED <<planVars, window, started, slipped>>
      /\ reading.at = "select_trips"
      /\ reading' =
             IF AllRead(list, reading.total)
             THEN [reading EXCEPT !.at = "evaluate", !.trips = list,
                                  !.offset = 0, !.total = 0]
             ELSE [reading EXCEPT !.at = "count_trips", !.trips = list,
                                  !.offset = OffsetAfterPage(@), !.total = 0]
    BY DEF SelectTrips
<1>2. TablesInv' /\ Planned' = Planned /\ (\A D : FirstTrips(D)' <=> FirstTrips(D))
      /\ StartedInDay' = StartedInDay /\ status' = status /\ started' = started
    BY <1>1, TablesStand
<1>3. reading \in Request /\ reading # Idle /\ ReadingTrips /\ ~ReadingShifts
      /\ reading.since \subseteq Planned
    BY <1>1 DEF RequestInv, Idle, ReadingTrips, ReadingShifts
<1>4. /\ reading.offset \in Nat /\ reading.total \in Nat
      /\ reading.shifts \in Seq(ShiftRow)
      /\ reading.trips \in Seq(TripRow) /\ Len(reading.trips) \in Nat
    BY <1>3, LenProperties DEF Request
<1>5. IsFiniteSet(StartedInDay) /\ n \in Nat /\ n <= Cardinality(Shifts)
      /\ Cardinality(Shifts) \in Nat
    BY TablesFinite
<1>6. /\ Orders(TripOrder, StartedInDay) /\ Lists(TripList, TripOrder, StartedInDay)
      /\ Len(TripList) = n /\ DOMAIN TripList = 1..n
    BY TripsInOrder DEF Lists
<1>7. PICK m \in Nat : PageIs(TripList, reading.offset, n, m)
    BY <1>4, <1>5, <1>6, PageRows
<1>8. /\ page = [i \in 1..m |-> TripList[reading.offset + i]]
      /\ \A i \in 1..m : reading.offset + i \in 1..n
      /\ reading.offset <= n =>
            reading.offset + m <= n /\ (m = Limit \/ reading.offset + m = n)
    BY <1>7 DEF PageIs
<1>9. DOMAIN page = 1..m /\ \A i \in 1..m : page[i] = TripList[reading.offset + i]
    BY <1>8
<1>10. \A i \in 1..m : page[i] \in StartedInDay
    BY <1>6, <1>8, <1>9 DEF Lists
<1> HIDE DEF page, n
<1>11. rows = [i \in 1..m |->
                  [shift |-> page[i], status |-> trips[page[i]],
                   started |-> started[page[i]]]]
    BY <1>9
<1> HIDE DEF rows
<1>12. \A i \in 1..m : /\ rows[i] \in TripRow /\ rows[i].shift = page[i]
                       /\ rows[i].status = trips[page[i]]
    <2> SUFFICES ASSUME NEW i \in 1..m
                 PROVE  /\ rows[i] \in TripRow /\ rows[i].shift = page[i]
                        /\ rows[i].status = trips[page[i]]
        OBVIOUS
    <2>1. rows[i] = [shift |-> page[i], status |-> trips[page[i]],
                     started |-> started[page[i]]]
        BY <1>11
    <2>2. page[i] \in Shifts /\ started[page[i]] \in Instants
        BY <1>10, KeysOfMoments DEF StartedInDay, Started
    <2>3. trips[page[i]] \in SUBSET TripStatuses
        BY <2>2 DEF TablesInv
    <2>4. QED
        BY <2>1, <2>2, <2>3 DEF TripRow
<1>13. rows \in Seq(TripRow) /\ Len(rows) = m
    <2>1. rows \in [1..m -> TripRow]
        BY <1>11, <1>12
    <2>2. QED
        BY <2>1
<1>14. list \in Seq(TripRow) /\ Len(list) = Len(reading.trips) + m
    BY <1>4, <1>13, ConcatProperties
<1>15. ToSet(reading.shifts) \subseteq ShiftRow
    BY <1>4, RowsTyped
<1>16. \A row \in ToSet(list) :
          /\ row.shift \in StartedInDay
          /\ \A r \in ToSet(reading.shifts) :
                r.shift = row.shift /\ r.status = "completed"
                    => row.status = {"completed"}
    <2> SUFFICES ASSUME NEW row \in ToSet(list)
                 PROVE  /\ row.shift \in StartedInDay
                        /\ \A r \in ToSet(reading.shifts) :
                              r.shift = row.shift /\ r.status = "completed"
                                  => row.status = {"completed"}
        OBVIOUS
    <2>1. PICK i \in 1..(Len(reading.trips) + m) :
              row = IF i <= Len(reading.trips) THEN reading.trips[i]
                    ELSE rows[i - Len(reading.trips)]
        <3>1. DOMAIN list = 1..(Len(reading.trips) + m)
            BY <1>14, LenProperties
        <3>2. \A i \in 1..(Len(reading.trips) + m) :
                  list[i] = IF i <= Len(reading.trips) THEN reading.trips[i]
                            ELSE rows[i - Len(reading.trips)]
            BY <1>4, <1>13, ConcatProperties
        <3>3. QED
            BY <3>1, <3>2 DEF ToSet
    <2>2. CASE i <= Len(reading.trips)
        <3>1. row \in ToSet(reading.trips)
            BY <1>4, <2>1, <2>2, LenProperties DEF ToSet
        <3>2. QED
            BY <1>3, <3>1 DEF TripsInv
    <2>3. CASE ~(i <= Len(reading.trips))
        <3>1. i - Len(reading.trips) \in 1..m
            BY <1>4, <2>1, <2>3
        <3>2. PICK s \in StartedInDay : row.shift = s /\ row.status = trips[s]
            BY <1>10, <1>12, <2>1, <2>3, <3>1
        <3>3. \A r \in ToSet(reading.shifts) :
                  r.shift = s /\ r.status = "completed" => trips[s] = {"completed"}
            <4>1. \A r \in ToSet(reading.shifts) :
                      r.status = "completed" => status[r.shift] = "completed"
                BY <1>3 DEF TripsInv
            <4>2. s \in Shifts
                BY DEF StartedInDay, Started
            <4>3. status[s] = "completed" => trips[s] = {"completed"}
                BY <4>2 DEF TablesInv
            <4>4. QED
                BY <4>1, <4>3
        <3>4. QED
            BY <3>2, <3>3
    <2>4. QED
        BY <2>2, <2>3
<1>17. ~slipped =>
          /\ NoRowTwice(list) /\ FirstTrips(ListedIn(list))
          /\ Cardinality(ListedIn(list)) = Len(list)
          /\ Len(list) = reading.offset + m /\ reading.offset + m <= n
          /\ m = Limit \/ reading.offset + m = n
    <2> SUFFICES ASSUME ~slipped
                 PROVE  /\ NoRowTwice(list) /\ FirstTrips(ListedIn(list))
                        /\ Cardinality(ListedIn(list)) = Len(list)
                        /\ Len(list) = reading.offset + m /\ reading.offset + m <= n
                        /\ m = Limit \/ reading.offset + m = n
        OBVIOUS
    <2>1. /\ reading.offset = Len(reading.trips) /\ NoRowTwice(reading.trips)
          /\ First(ListedIn(reading.trips), TripOrder, StartedInDay)
        BY <1>3 DEF TripsInv, FirstTrips
    <2>2. reading.offset <= n
        <3>1. Cardinality(ListedIn(reading.trips)) = Len(reading.trips)
            BY <1>4, <2>1, RowsAreShifts
        <3>2. Cardinality(ListedIn(reading.trips)) <= n
            BY <1>5, <2>1, FS_Subset DEF First, n
        <3>3. QED
            BY <2>1, <3>1, <3>2
    <2>3. reading.offset + m <= n /\ (m = Limit \/ reading.offset + m = n)
        BY <1>8, <2>2
    <2>4. \A i \in 1..Len(rows) : rows[i].shift = TripList[Len(reading.trips) + i]
        BY <1>9, <1>12, <1>13, <2>1
    <2>5. Len(reading.trips) + Len(rows) <= Cardinality(StartedInDay)
        BY <1>13, <2>1, <2>3 DEF n
    <2>6. ReadTo(reading.trips \o rows, Len(reading.trips) + Len(rows), TripOrder, StartedInDay)
        BY <1>4, <1>5, <1>6, <1>13, <2>1, <2>4, <2>5, ReadOn
    <2>7. QED
        BY <1>13, <1>14, <2>1, <2>3, <2>6 DEF FirstTrips, ReadTo
<1> HIDE DEF list
<1>18. reading.total <= n
       /\ (~slipped => \E I \in SUBSET StartedInDay :
              FirstTrips(I) /\ Wanted \subseteq I /\ Cardinality(I) <= reading.total)
    BY <1>1, <1>3 DEF TripsInv, n
<1>19. Len(list) \in Nat
    BY <1>4, <1>14
<1>20. CASE Len(list) >= reading.total
    <2>1. reading' = [reading EXCEPT !.at = "evaluate", !.trips = list,
                                     !.offset = 0, !.total = 0]
        BY <1>1, <1>20 DEF AllRead
    <2>2. /\ reading'.at = "evaluate"
          /\ reading'.shifts = reading.shifts /\ reading'.trips = list
          /\ reading'.since = reading.since
          /\ reading' \in Request /\ reading' # Idle
        BY <1>3, <1>14, <2>1 DEF Request, Idle
    <2>3. RequestInv'
        BY <1>1, <1>2, <1>3, <2>2 DEF RequestInv
    <2>4. ShiftsInv'
        BY <1>1, <1>3, <2>2 DEF ShiftsInv, ReadingShifts
    <2>5. Wanted' = Wanted
        BY <1>2, <2>2 DEF Wanted
    <2>6. ~slipped => Wanted \subseteq ListedIn(list)
        <3> SUFFICES ASSUME ~slipped PROVE Wanted \subseteq ListedIn(list)
            OBVIOUS
        <3>1. PICK I \in SUBSET StartedInDay :
                  FirstTrips(I) /\ Wanted \subseteq I /\ Cardinality(I) <= reading.total
            BY <1>18
        <3>2. First(I, TripOrder, StartedInDay) /\ First(ListedIn(list), TripOrder, StartedInDay)
            BY <1>17, <3>1 DEF FirstTrips
        <3>3. Cardinality(I) \in Nat
            BY <1>5, FS_Subset, FS_CardinalityType
        <3>4. Cardinality(I) <= Cardinality(ListedIn(list))
            BY <1>4, <1>17, <1>19, <1>20, <3>1, <3>3
        <3>5. I \subseteq ListedIn(list)
            BY <1>5, <1>6, <3>2, <3>4, FirstAreNested
        <3>6. QED
            BY <3>1, <3>5
    <2>7. TripsInv'
        <3>1. /\ \A row \in ToSet(reading'.shifts) :
                    row.status = "completed" => status'[row.shift] = "completed"
              /\ \A row \in ToSet(reading'.trips) :
                    /\ row.shift \in StartedInDay'
                    /\ \A r \in ToSet(reading'.shifts) :
                          r.shift = row.shift /\ r.status = "completed"
                              => row.status = {"completed"}
            BY <1>2, <1>3, <1>16, <2>2 DEF TripsInv
        <3>2. ~slipped' => NoRowTwice(reading'.trips) /\ Wanted' \subseteq ListedIn(reading'.trips)
            BY <1>1, <1>17, <2>2, <2>5, <2>6
        <3>3. QED
            BY <2>2, <3>1, <3>2 DEF TripsInv, ReadingTrips
    <2>8. QED
        BY <1>2, <2>3, <2>4, <2>7
<1>21. CASE ~(Len(list) >= reading.total)
    <2>1. reading' = [reading EXCEPT !.at = "count_trips", !.trips = list,
                                  !.offset = OffsetAfterPage(@), !.total = 0]
        BY <1>1, <1>21 DEF AllRead
    <2>2. OffsetAfterPage(reading.offset) \in Nat
        BY <1>4, <1>5, LimitIsPositive DEF OffsetAfterPage
    <2>3. /\ reading'.at = "count_trips"
          /\ reading'.offset = OffsetAfterPage(reading.offset)
          /\ reading'.shifts = reading.shifts /\ reading'.trips = list
          /\ reading'.since = reading.since
          /\ reading' \in Request /\ reading' # Idle
        BY <1>3, <1>14, <2>1, <2>2 DEF Request, Idle
    <2>4. RequestInv'
        BY <1>1, <1>2, <1>3, <2>3 DEF RequestInv
    <2>5. ShiftsInv'
        BY <1>1, <1>3, <2>3 DEF ShiftsInv, ReadingShifts
    <2>6. ~slipped => OffsetAfterPage(reading.offset) = Len(list)
        <3> SUFFICES ASSUME ~slipped PROVE OffsetAfterPage(reading.offset) = Len(list)
            OBVIOUS
        <3>1. Len(list) = reading.offset + m /\ Len(list) < n /\ m = Limit
            BY <1>4, <1>5, <1>17, <1>18, <1>19, <1>21
        <3>2. reading.offset + Limit < Cardinality(Shifts)
            BY <1>4, <1>5, <3>1
        <3>3. QED
            BY <3>1, <3>2 DEF OffsetAfterPage
    <2>7. ~slipped => FirstTrips(ListedIn(reading.trips))'
        <3> SUFFICES ASSUME ~slipped PROVE FirstTrips(ListedIn(reading.trips))'
            OBVIOUS
        <3>1. PICK D : D = ListedIn(list)
            OBVIOUS
        <3>2. FirstTrips(D)
            BY <1>17, <3>1
        <3>3. FirstTrips(D)'
            BY <1>2, <3>2
        <3>4. ListedIn(reading.trips)' = D
            BY <2>3, <3>1
        <3>5. QED
            BY <3>3, <3>4 DEF FirstTrips
    <2>8. TripsInv'
        <3>1. /\ \A row \in ToSet(reading'.shifts) :
                    row.status = "completed" => status'[row.shift] = "completed"
              /\ \A row \in ToSet(reading'.trips) :
                    /\ row.shift \in StartedInDay'
                    /\ \A r \in ToSet(reading'.shifts) :
                          r.shift = row.shift /\ r.status = "completed"
                              => row.status = {"completed"}
            BY <1>2, <1>3, <1>16, <2>3 DEF TripsInv
        <3>2. ~slipped' => reading'.offset = Len(reading'.trips) /\ NoRowTwice(reading'.trips)
            BY <1>1, <1>17, <2>3, <2>6
        <3>3. QED
            BY <1>1, <2>3, <2>7, <3>1, <3>2 DEF TripsInv, Reported
    <2>9. QED
        BY <1>2, <2>4, <2>5, <2>8
<1>22. QED
    BY <1>20, <1>21

\* Answered or aborted, the reading is gone.
LEMMA EndStep ==
    ASSUME Inv, Answer \/ Abort
    PROVE  Inv'
<1>1. UNCHANGED <<planVars, window, started, slipped>> /\ reading' = Idle
    BY DEF Answer, Abort
<1>2. TablesInv'
    BY <1>1, TablesStand DEF Inv
<1>3. Idle.at = "idle"
    BY DEF Idle
<1>4. RequestInv' /\ ShiftsInv' /\ TripsInv'
    BY <1>1, <1>3 DEF Inv, RequestInv, ShiftsInv, TripsInv, ReadingShifts, ReadingTrips, Reported
<1>5. QED
    BY <1>2, <1>4 DEF Inv

-----------------------------------------------------------------------------
(* Theorems                                                                  *)

\* The day begins unplanned and unread.
LEMMA InvHoldsAtFirst == Init => Inv
<1> SUFFICES ASSUME Init PROVE Inv
    OBVIOUS
<1>1. /\ status = [s \in Shifts |-> "absent"] /\ trips = [s \in Shifts |-> {}]
      /\ window = [s \in Shifts |-> None] /\ started = [s \in Shifts |-> None]
      /\ reading = Idle /\ slipped = FALSE
    BY DEF Init, PlanInit
<1>2. Planned = {} /\ Started = {}
    BY <1>1 DEF Planned, Started
<1>3. TablesInv
    BY <1>1, <1>2 DEF TablesInv, Statuses
<1>4. RequestInv /\ ShiftsInv /\ TripsInv
    BY <1>1 DEF RequestInv, ShiftsInv, TripsInv, ReadingShifts, ReadingTrips, Reported, Idle
<1>5. QED
    BY <1>3, <1>4 DEF Inv

\* Every step keeps the invariant: the steps of the day let what is read be a
\* head of its list still, the steps of the reading lengthen it.
LEMMA InvStep == Inv /\ [Next]_vars => Inv'
<1> SUFFICES ASSUME Inv, [Next]_vars PROVE Inv'
    OBVIOUS
<1>1. TablesInv /\ RequestInv
    BY DEF Inv
<1>2. CASE Tick
    BY <1>1, <1>2, TickGrows, ReadingOutlivesDay
<1>3. ASSUME NEW s \in Shifts, NEW w \in Windows[s], CreateShift(s, w)
      PROVE  Inv'
    BY <1>1, <1>3, CreateGrows, ReadingOutlivesDay
<1>4. ASSUME NEW s \in Shifts,
             AssignShift(s) \/ ReturnTrip(s) \/ CancelShift(s)
      PROVE  Inv'
    BY <1>1, <1>4, MovesGrow, ReadingOutlivesDay
<1>5. ASSUME NEW s \in Shifts, StartTrip(s)
      PROVE  Inv'
    BY <1>1, <1>5, StartGrows, ReadingOutlivesDay
<1>6. CASE Begin
    BY <1>6, BeginStep
<1>7. CASE Read
    BY <1>7, CountShiftsStep, SelectShiftsStep, CountTripsStep, SelectTripsStep, EndStep DEF Read
<1>8. CASE Abort
    BY <1>8, EndStep
<1>9. CASE UNCHANGED vars
    <2>1. Planned' = Planned /\ Started' = Started /\ TablesInv'
        BY <1>1, <1>9, TablesStand DEF vars, planVars, Started
    <2>2. Grows
        BY <1>1, <1>9, <2>1, GrowsByNone DEF vars, planVars
    <2>3. QED
        BY <2>2, ReadingOutlivesDay
<1>10. QED
    BY <1>2, <1>3, <1>4, <1>5, <1>6, <1>7, <1>8, <1>9 DEF Next

\* The invariant holds throughout.
LEMMA Invariance == Spec => []Inv
BY InvHoldsAtFirst, InvStep, PTL DEF Spec

\* The invariant of the reading gives what the report relies on.
LEMMA ListsHoldRowsOnce == Inv => EveryRowOnce
BY DEF Inv, EveryRowOnce, Reported, ShiftsInv, TripsInv, RequestInv, Idle, ReadingShifts

\* The lists of a report hold no row twice and miss no shift that was there
\* when it began, for any tables and any size of page, unless the history says
\* that a row was inserted, or moved by a change of its status, in front of
\* another while the list was read.
THEOREM RowsAreReadOnce == Spec => []EveryRowOnce
BY Invariance, ListsHoldRowsOnce, PTL

\* The two halves of Findings: those of the shift rows, those of the trips.
OfShifts == UNION {{[code |-> c, shift |-> row.shift] :
                       c \in ShiftFindings(row, reading.trips, now)} :
                    row \in ToSet(reading.shifts)}
OfTrips == UNION {{[code |-> c, shift |-> row.shift] :
                      c \in TripFindings(row, now)} :
                   row \in ToSet(reading.trips)}


\* What a report says of a listed shift: never two trips, and a mismatch just
\* if the shift is completed and its trip was started outside the day.
LEMMA FindingsOfShift ==
    ASSUME Inv, Reported, ~slipped, NEW row \in ToSet(reading.shifts)
    PROVE  /\ "multiple_trips_for_shift" \notin FoundFor(row.shift)
           /\ "completed_shift_trip_mismatch" \in FoundFor(row.shift) <=>
                  /\ row.status = "completed"
                  /\ started[row.shift] \notin MomentsOfDay
<1> DEFINE Mine(s) == {i \in DOMAIN reading.trips : reading.trips[i].shift = s}
<1>1. reading \in Request /\ reading # Idle /\ ~ReadingShifts
    BY DEF Inv, Reported, RequestInv, Idle, ReadingShifts
<1>2. reading.shifts \in Seq(ShiftRow) /\ reading.trips \in Seq(TripRow)
    BY <1>1 DEF Request
<1>3. NoRowTwice(reading.shifts) /\ NoRowTwice(reading.trips)
      /\ Wanted \subseteq ListedIn(reading.trips)
    BY <1>1 DEF Inv, ShiftsInv, TripsInv
<1>4. \A r \in ToSet(reading.shifts) : r.shift = row.shift => r = row
    BY <1>3 DEF NoRowTwice, ToSet
<1>5. \A s : \A i, j \in Mine(s) : i = j
    BY <1>3 DEF NoRowTwice
<1>6. \A c : c \in FoundFor(row.shift) <=>
          \/ \E r \in ToSet(reading.shifts) :
                r.shift = row.shift /\ c \in ShiftFindings(r, reading.trips, now)
          \/ \E r \in ToSet(reading.trips) :
                r.shift = row.shift /\ c \in TripFindings(r, now)
    <2>1. \A f : f \in Findings <=>
              \/ \E r \in ToSet(reading.shifts) :
                    \E c \in ShiftFindings(r, reading.trips, now) :
                        f = [code |-> c, shift |-> r.shift]
              \/ \E r \in ToSet(reading.trips) :
                    \E c \in TripFindings(r, now) :
                        f = [code |-> c, shift |-> r.shift]
        <3>1. \A f : f \in OfShifts <=> \E r \in ToSet(reading.shifts) :
                  \E c \in ShiftFindings(r, reading.trips, now) : f = [code |-> c, shift |-> r.shift]
            <4> DEFINE Rows(r) == {[code |-> c, shift |-> r.shift] :
                                     c \in ShiftFindings(r, reading.trips, now)}
            <4> SUFFICES ASSUME NEW f
                         PROVE  f \in UNION {Rows(r) : r \in ToSet(reading.shifts)}
                                  <=> \E r \in ToSet(reading.shifts) :
                                         \E c \in ShiftFindings(r, reading.trips, now) :
                                            f = [code |-> c, shift |-> r.shift]
                BY Zenon DEF OfShifts
            <4>1. \A r : f \in Rows(r) <=> \E c \in ShiftFindings(r, reading.trips, now) :
                                          f = [code |-> c, shift |-> r.shift]
                OBVIOUS
            <4> HIDE DEF Rows
            <4>2. f \in UNION {Rows(r) : r \in ToSet(reading.shifts)}
                      <=> \E r \in ToSet(reading.shifts) : f \in Rows(r)
                OBVIOUS
            <4>3. QED
                BY <4>1, <4>2
        <3>2. \A f : f \in OfTrips <=> \E r \in ToSet(reading.trips) :
                  \E c \in TripFindings(r, now) : f = [code |-> c, shift |-> r.shift]
            <4> DEFINE Rows(r) == {[code |-> c, shift |-> r.shift] :
                                     c \in TripFindings(r, now)}
            <4> SUFFICES ASSUME NEW f
                         PROVE  f \in UNION {Rows(r) : r \in ToSet(reading.trips)}
                                  <=> \E r \in ToSet(reading.trips) :
                                         \E c \in TripFindings(r, now) :
                                            f = [code |-> c, shift |-> r.shift]
                BY Zenon DEF OfTrips
            <4>1. \A r : f \in Rows(r) <=> \E c \in TripFindings(r, now) :
                                          f = [code |-> c, shift |-> r.shift]
                OBVIOUS
            <4> HIDE DEF Rows
            <4>2. f \in UNION {Rows(r) : r \in ToSet(reading.trips)}
                      <=> \E r \in ToSet(reading.trips) : f \in Rows(r)
                OBVIOUS
            <4>3. QED
                BY <4>1, <4>2
        <3>3. Findings = OfShifts \cup OfTrips
            BY Zenon DEF Findings, Evaluate, OfShifts, OfTrips
        <3>4. QED
            BY <3>1, <3>2, <3>3
    <2>2. \A c : c \in FoundFor(row.shift) <=>
              \E f \in Findings : f.shift = row.shift /\ f.code = c
        BY DEF FoundFor
    <2>3. \A c, s : [code |-> c, shift |-> s].code = c /\ [code |-> c, shift |-> s].shift = s
        OBVIOUS
    <2> SUFFICES ASSUME NEW c
                 PROVE  c \in FoundFor(row.shift) <=>
                            \/ \E r \in ToSet(reading.shifts) :
                                  /\ r.shift = row.shift
                                  /\ c \in ShiftFindings(r, reading.trips, now)
                            \/ \E r \in ToSet(reading.trips) :
                                  r.shift = row.shift /\ c \in TripFindings(r, now)
        OBVIOUS
    <2>4. ASSUME NEW f \in Findings, f.shift = row.shift, f.code = c
          PROVE  \/ \E r \in ToSet(reading.shifts) :
                        /\ r.shift = row.shift
                        /\ c \in ShiftFindings(r, reading.trips, now)
                 \/ \E r \in ToSet(reading.trips) :
                        r.shift = row.shift /\ c \in TripFindings(r, now)
        BY <2>1, <2>3, <2>4
    <2>5. ASSUME NEW r \in ToSet(reading.shifts), r.shift = row.shift,
                 c \in ShiftFindings(r, reading.trips, now)
          PROVE  c \in FoundFor(row.shift)
        <3>1. [code |-> c, shift |-> r.shift] \in Findings
            BY <2>1, <2>5
        <3>2. QED
            BY <2>2, <2>3, <2>5, <3>1
    <2>6. ASSUME NEW r \in ToSet(reading.trips), r.shift = row.shift,
                 c \in TripFindings(r, now)
          PROVE  c \in FoundFor(row.shift)
        <3>1. [code |-> c, shift |-> r.shift] \in Findings
            BY <2>1, <2>6
        <3>2. QED
            BY <2>2, <2>3, <2>6, <3>1
    <2>7. QED
        BY <2>2, <2>4, <2>5, <2>6
<1>7. \A r : TripFindings(r, now) \subseteq {"long_running_trip", "zero_distance_trip"}
    BY DEF TripFindings
<1>8. \A c \in {"multiple_trips_for_shift", "completed_shift_trip_mismatch"} :
          c \in FoundFor(row.shift) <=> c \in ShiftFindings(row, reading.trips, now)
    BY <1>4, <1>6, <1>7
<1>9. "multiple_trips_for_shift" \in ShiftFindings(row, reading.trips, now)
          <=> \E i, j \in Mine(row.shift) : i # j
    BY DEF ShiftFindings
<1>10. "completed_shift_trip_mismatch" \in ShiftFindings(row, reading.trips, now)
          <=> /\ row.status = "completed"
              /\ ~\E i \in Mine(row.shift) :
                    Mine(row.shift) = {i} /\ reading.trips[i].status = {"completed"}
    BY DEF ShiftFindings
<1> HIDE DEF Mine
<1>11. ASSUME row.status = "completed", started[row.shift] \in MomentsOfDay
       PROVE  \E i \in Mine(row.shift) :
                  Mine(row.shift) = {i} /\ reading.trips[i].status = {"completed"}
    <2>1. row.shift \in Wanted
        BY <1>11 DEF Wanted
    <2>2. PICK i \in DOMAIN reading.trips : reading.trips[i].shift = row.shift
        BY <1>3, <2>1 DEF ListedIn, ToSet
    <2>3. reading.trips[i] \in ToSet(reading.trips)
        BY DEF ToSet
    <2>4. reading.trips[i].status = {"completed"}
        BY <1>1, <1>11, <2>2, <2>3 DEF Inv, TripsInv
    <2>5. i \in Mine(row.shift)
        BY <2>2 DEF Mine
    <2>6. QED
        BY <1>5, <2>4, <2>5
<1>12. ASSUME started[row.shift] \notin MomentsOfDay
       PROVE  Mine(row.shift) = {}
    <2> SUFFICES ASSUME NEW i \in DOMAIN reading.trips,
                        reading.trips[i].shift = row.shift
                 PROVE  FALSE
        BY DEF Mine
    <2>1. reading.trips[i] \in ToSet(reading.trips)
        BY DEF ToSet
    <2>2. row.shift \in StartedInDay
        BY <1>1, <2>1 DEF Inv, TripsInv
    <2>3. QED
        BY <1>12, <2>2 DEF StartedInDay
<1>13. QED
    BY <1>5, <1>8, <1>9, <1>10, <1>11, <1>12

\* No report calls a shift a mismatch because its shift and its trip were read
\* at different moments: exactly the completed shifts whose trip started
\* outside the bounds of the day are, and no shift ever has two trips.
THEOREM MismatchesAreReal == Spec => []MismatchOnlyOutsideDay
<1>1. Inv => MismatchOnlyOutsideDay
    BY FindingsOfShift DEF MismatchOnlyOutsideDay
<1>2. QED
    BY <1>1, Invariance, PTL

-----------------------------------------------------------------------------
(* The service day of a trip.                                                *)

\* The zone of the service: its clocks are the same whole number of seconds
\* ahead at all times (the default is Asia/Shanghai, config.go:32).
FixedZone(offset) ==
    /\ offset \in Int /\ offset % Second = 0
    /\ LeastOffset <= offset /\ offset <= GreatestOffset
    /\ \A t \in Int : Offset(t) = offset

\* The service days follow each other without a gap, 24 hours each.
LEMMA DaysFollow ==
    ASSUME NEW offset, FixedZone(offset), NEW d \in Int
    PROVE  /\ Lower(d) = d * DayLength - offset + CutoffHour * Hour
           /\ Lower(d) \in Int
           /\ Upper(d) = Lower(d) + DayLength
<1>1. d * DayLength \in Int /\ CutoffHour * Hour \in Int /\ offset \in Int
    BY HourIsPositive, CutoffIsAnHour DEF DayLength, FixedZone
<1> DEFINE start == d * DayLength
           shown == (start - GreatestOffset)..(start - LeastOffset)
<1> HIDE DEF start
<1>2. start \in Int
    BY <1>1 DEF start
<1>3. start - offset \in shown /\ Local(start - offset) = start
    BY <1>1, <1>2, OffsetsAreInt DEF Local, FixedZone
<1>4. \A t \in shown : Local(t) = start => t = start - offset
    BY <1>1, <1>2, OffsetsAreInt DEF Local, FixedZone
<1>5. Midnight(d) = start - offset
    <2>1. Midnight(d) = CHOOSE t \in shown : Local(t) = start
        BY DEF Midnight, start
    <2> HIDE DEF shown
    <2>2. QED
        BY <1>3, <1>4, <2>1
<1>6. QED
    BY <1>1, <1>2, <1>5 DEF Lower, Upper, start

\* An instant lies in the day that ServiceDate gives it.
LEMMA ServedInItsDay ==
    ASSUME NEW offset, FixedZone(offset), NEW t \in Int
    PROVE  /\ ServiceDate(t) \in Int
           /\ Lower(ServiceDate(t)) <= t
           /\ t < Lower(ServiceDate(t)) + DayLength
<1> DEFINE l == t + offset
           q == l \div DayLength
           r == l % DayLength
           c == CutoffHour * Hour
<1>1. DayLength \in Nat \ {0} /\ Local(t) = l /\ l \in Int /\ offset \in Int
    BY HourIsPositive DEF DayLength, Local, FixedZone
<1>2. c \in Int /\ 0 <= c /\ c < DayLength
    <2>1. (23 - CutoffHour) * Hour >= 0 /\ CutoffHour * Hour >= 0
        BY HourIsPositive, CutoffIsAnHour
    <2>2. QED
        BY <2>1, HourIsPositive, CutoffIsAnHour DEF DayLength
<1>3. q \in Int /\ r \in Int /\ 0 <= r /\ r < DayLength /\ l = q * DayLength + r
    <2> HIDE DEF l
    <2>1. QED
        BY <1>1
<1>4. ServiceDate(t) = IF r < c THEN q - 1 ELSE q
    BY <1>1 DEF ServiceDate
<1>5. (q - 1) * DayLength = q * DayLength - DayLength /\ q * DayLength \in Int
    BY <1>1, <1>3
<1>6. l = t + offset /\ t \in Int
    OBVIOUS
<1> HIDE DEF l, q, r, c
<1>7. CASE r < c
    <2>1. ServiceDate(t) = q - 1 /\ q - 1 \in Int
        BY <1>3, <1>4, <1>7
    <2>2. Lower(q - 1) = (q - 1) * DayLength - offset + c
        BY <2>1, DaysFollow DEF c
    <2>3. QED
        BY <1>1, <1>2, <1>3, <1>5, <1>6, <1>7, <2>1, <2>2
<1>8. CASE ~(r < c)
    <2>1. ServiceDate(t) = q
        BY <1>4, <1>8
    <2>2. Lower(q) = q * DayLength - offset + c
        BY <1>3, DaysFollow DEF c
    <2>3. QED
        BY <1>1, <1>2, <1>3, <1>5, <1>6, <1>8, <2>1, <2>2
<1>9. QED
    BY <1>7, <1>8

\* A day begins with a whole second, and lasts longer than one.
LEMMA DaysBeginWithSeconds ==
    ASSUME NEW offset, FixedZone(offset), NEW d \in Int
    PROVE  Lower(d) % Second = 0 /\ Second < DayLength /\ Second \in Nat \ {0}
<1>1. Second \in Nat \ {0}
    BY TicksDivide, DigitsIsNat DEF Second
<1>2. PICK h \in Int : Hour = Second * h
    BY <1>1, HourIsPositive, HoursAreSeconds
<1>3. PICK p \in Int : offset = Second * p
    BY <1>1 DEF FixedZone
<1>4. h >= 1
    <2>1. CASE h <= 0
        <3>1. Second * (0 - h) >= 0
            BY <1>1, <2>1
        <3>2. QED
            BY <1>1, <1>2, <3>1, HourIsPositive
    <2>2. QED
        BY <2>1
<1>5. Second < DayLength
    <2>1. Second * (h - 1) >= 0
        BY <1>1, <1>4
    <2>2. QED
        BY <1>1, <1>2, <2>1 DEF DayLength
<1> DEFINE a == 24 * h * d - p + CutoffHour * h
<1>6. a \in Int /\ CutoffHour \in Int
    BY CutoffIsAnHour
<1>7. Lower(d) = Second * a
    <2>1. Lower(d) = d * DayLength - offset + CutoffHour * Hour
        BY DaysFollow
    <2>2. d * DayLength = Second * (24 * h * d)
        BY <1>1, <1>2 DEF DayLength
    <2>3. CutoffHour * Hour = Second * (CutoffHour * h)
        BY <1>1, <1>2, <1>6
    <2>4. QED
        BY <1>1, <1>3, <1>6, <2>1, <2>2, <2>3
<1> HIDE DEF a
<1>8. Lower(d) % Second = 0
    BY <1>1, <1>6, <1>7
<1>9. QED
    BY <1>1, <1>5, <1>8

\* The days whose bounds hold an instant: its own but for its first second.
LEMMA CountedOnce ==
    ASSUME NEW offset, FixedZone(offset), NEW t \in Int
    PROVE  LET served == ServiceDate(t)
               counted == {d \in DatesNear(t) : InDay(d, t)}
           IN  \/ counted = {served}
               \/ /\ counted = {served - 1}
                  /\ t - Lower(served) \in 1..(Second - 1)
<1> DEFINE s == ServiceDate(t)
<1>1. s \in Int /\ Lower(s) <= t /\ t < Lower(s) + DayLength
    BY ServedInItsDay
<1>2. \A d \in Int : /\ Lower(d) % Second = 0 /\ Lower(d) \in Int
                     /\ Upper(d) = Lower(d + 1) /\ Lower(d + 1) = Lower(d) + DayLength
    <2> SUFFICES ASSUME NEW d \in Int
                 PROVE  /\ Lower(d) % Second = 0 /\ Lower(d) \in Int
                        /\ Upper(d) = Lower(d + 1)
                        /\ Lower(d + 1) = Lower(d) + DayLength
        OBVIOUS
    <2>1. /\ Lower(d) = d * DayLength - offset + CutoffHour * Hour
          /\ Lower(d) \in Int /\ Upper(d) = Lower(d) + DayLength
        BY DaysFollow
    <2>2. d + 1 \in Int
        OBVIOUS
    <2>3. Lower(d + 1) = (d + 1) * DayLength - offset + CutoffHour * Hour
        BY <2>2, DaysFollow
    <2>4. /\ (d + 1) * DayLength = d * DayLength + DayLength /\ d * DayLength \in Int
          /\ CutoffHour * Hour \in Int /\ offset \in Int /\ DayLength \in Int
        BY HourIsPositive, CutoffIsAnHour DEF DayLength, FixedZone
    <2>5. QED
        BY <2>1, <2>3, <2>4, DaysBeginWithSeconds
<1>3. Second \in Nat \ {0} /\ DayLength \in Int /\ Second < DayLength
    BY <1>1, DaysBeginWithSeconds, HourIsPositive DEF DayLength
<1>4. \A d \in Int : InDay(d, t) <=>
          /\ t = Lower(d) \/ t >= Lower(d) + Second
          /\ t < Lower(d + 1) \/ (Lower(d + 1) < t /\ t < Lower(d + 1) + Second)
    <2> SUFFICES ASSUME NEW d \in Int
                 PROVE  InDay(d, t) <=>
                          /\ t = Lower(d) \/ t >= Lower(d) + Second
                          /\ \/ t < Lower(d + 1)
                             \/ Lower(d + 1) < t /\ t < Lower(d + 1) + Second
        OBVIOUS
    <2>1. d + 1 \in Int
        OBVIOUS
    <2>2. /\ Lower(d) % Second = 0 /\ Lower(d) \in Int
          /\ Lower(d + 1) % Second = 0 /\ Lower(d + 1) \in Int
          /\ Upper(d) = Lower(d + 1)
        BY <1>2, <2>1
    <2>3. TextBefore(t, Lower(d)) <=>
              t < Lower(d) \/ (Lower(d) < t /\ t < Lower(d) + Second)
        BY <2>2, WholeSecondSorts
    <2>4. TextBefore(t, Upper(d)) <=>
              \/ t < Lower(d + 1)
              \/ Lower(d + 1) < t /\ t < Lower(d + 1) + Second
        BY <2>2, WholeSecondSorts
    <2>5. QED
        BY <1>3, <2>2, <2>3, <2>4 DEF InDay
<1>5. DatesNear(t) = {s - 1, s, s + 1}
    BY <1>1 DEF DatesNear
<1>6. /\ Lower(s - 1) \in Int /\ Lower(s) \in Int /\ Lower(s + 1) \in Int
      /\ Lower(s + 2) \in Int /\ (s - 1) + 1 = s /\ (s + 1) + 1 = s + 2
      /\ Lower(s) = Lower(s - 1) + DayLength /\ Lower(s + 1) = Lower(s) + DayLength
      /\ Lower(s + 2) = Lower(s + 1) + DayLength
    <2>1. s - 1 \in Int /\ s + 1 \in Int /\ s + 2 \in Int
          /\ (s - 1) + 1 = s /\ (s + 1) + 1 = s + 2
        BY <1>1
    <2>2. Lower((s - 1) + 1) = Lower(s) /\ Lower((s + 1) + 1) = Lower(s + 2)
        BY <2>1
    <2>3. QED
        BY <1>1, <1>2, <2>1, <2>2
<1> DEFINE early == Lower(s) < t /\ t < Lower(s) + Second
<1>7. InDay(s, t) <=> ~early
    BY <1>1, <1>3, <1>4, <1>6
<1>8. InDay(s - 1, t) <=> early
    <2>1. s - 1 \in Int
        BY <1>1
    <2>2. InDay(s - 1, t) <=>
              /\ t = Lower(s - 1) \/ t >= Lower(s - 1) + Second
              /\ t < Lower(s) \/ (Lower(s) < t /\ t < Lower(s) + Second)
        BY <1>4, <1>6, <2>1
    <2>3. QED
        BY <1>1, <1>3, <1>6, <2>2
<1>9. ~InDay(s + 1, t)
    <2>1. s + 1 \in Int
        BY <1>1
    <2>2. InDay(s + 1, t) => t = Lower(s + 1) \/ t >= Lower(s + 1) + Second
        BY <1>4, <2>1
    <2>3. QED
        BY <1>1, <1>3, <1>6, <2>2
<1>10. early => t - Lower(s) \in 1..(Second - 1)
    BY <1>3, <1>6
<1>11. s # s - 1
    BY <1>1
<1> HIDE DEF early
<1>12. CASE early
    BY <1>5, <1>7, <1>8, <1>9, <1>10, <1>12
<1>13. CASE ~early
    BY <1>5, <1>7, <1>8, <1>9, <1>13
<1>14. QED
    BY <1>12, <1>13

\* Trips start at instants of the clock.
StartsAreInstants ==
    /\ now \in Instants /\ DOMAIN started = Shifts
    /\ \A s \in Started : started[s] \in Instants

\* The first instant of the clock is the least one.
LEMMA FirstInstant == Min(Instants) \in Instants
<1> DEFINE R == {p \in Nat \X Nat : p[1] < p[2]}
<1>1. IsWellFoundedOn(R, Nat)
    BY NatLessThanWellFounded DEF OpToRel
<1>2. \A x, y \in Nat : <<y, x>> \in R <=> y < x
    OBVIOUS
<1> HIDE DEF R
<1>3. PICK x \in Instants : \A y \in Instants : ~(<<y, x>> \in R)
    BY <1>1, InstantsAreNat, WFMin
<1>4. ASSUME NEW y \in Instants PROVE x <= y
    <2>1. x \in Nat /\ y \in Nat
        BY InstantsAreNat
    <2>2. ~(y < x)
        BY <1>2, <1>3, <2>1
    <2>3. QED
        BY <2>1, <2>2
<1>5. QED
    BY <1>3, <1>4 DEF Min

\* StartTrip takes its moment from the clock; no other step moves one.
LEMMA StartsStep == Inv /\ StartsAreInstants /\ [Next]_vars => StartsAreInstants'
<1> SUFFICES ASSUME Inv, StartsAreInstants, [Next]_vars PROVE StartsAreInstants'
    OBVIOUS
<1> USE DEF StartsAreInstants
<1>1. CASE Tick
    BY <1>1 DEF Tick, planVars, Started
<1>2. ASSUME NEW s \in Shifts, NEW w \in Windows[s], CreateShift(s, w)
      PROVE  StartsAreInstants'
    BY <1>2 DEF CreateShift, PlanShift, Started
<1>3. ASSUME NEW s \in Shifts, AssignShift(s) PROVE StartsAreInstants'
    BY <1>3 DEF AssignShift, Assign, Started
<1>4. ASSUME NEW s \in Shifts, StartTrip(s) PROVE StartsAreInstants'
    <2>1. \A u \in Shifts : u # s => trips'[u] = trips[u] /\ started'[u] = started[u]
        BY <1>4 DEF StartTrip, Start
    <2>2. started'[s] = now /\ now' = now /\ DOMAIN started' = Shifts
        BY <1>4 DEF StartTrip
    <2>3. QED
        BY <2>1, <2>2 DEF Started
<1>5. ASSUME NEW s \in Shifts, ReturnTrip(s) PROVE StartsAreInstants'
    <2>1. \A u \in Shifts : u # s => trips'[u] = trips[u]
        BY <1>5 DEF ReturnTrip, Return
    <2>2. trips[s] # {}
        BY <1>5 DEF ReturnTrip, Return, Inv, TablesInv
    <2>3. QED
        BY <1>5, <2>1, <2>2 DEF ReturnTrip, Started
<1>6. ASSUME NEW s \in Shifts, CancelShift(s) PROVE StartsAreInstants'
    BY <1>6 DEF CancelShift, Cancel, Started
<1>7. CASE Begin \/ Read \/ Abort \/ UNCHANGED vars
    BY <1>7 DEF Begin, Read, CountShifts, SelectShifts, CountTrips, SelectTrips,
                Answer, Abort, vars, planVars, Started
<1>8. QED
    BY <1>1, <1>2, <1>3, <1>4, <1>5, <1>6, <1>7 DEF Next

\* In a zone of fixed offset each trip is counted for one day: its service day,
\* or, started within the first second of that, the day before.
THEOREM TripsCountedWhereServed ==
    ASSUME NEW CONSTANT offset, FixedZone(offset)
    PROVE  Spec => []CountedWhereServed
<1>1. Init => StartsAreInstants
    BY FirstInstant DEF Init, PlanInit, StartsAreInstants, Started
<1>2. StartsAreInstants => CountedWhereServed
    <2> SUFFICES ASSUME StartsAreInstants, NEW s \in Started
                 PROVE  LET served == ServiceDate(started[s])
                            counted == CountedFor[started[s]]
                        IN  \/ counted = {served}
                            \/ /\ counted = {served - 1}
                               /\ started[s] - Lower(served) \in 1..(Second - 1)
        BY DEF CountedWhereServed
    <2>1. started[s] \in Instants
        BY DEF StartsAreInstants
    <2>2. started[s] \in Int
        <3>1. \A t \in Instants : t \in Int
            BY InstantsAreNat
        <3>2. QED
            BY Zenon, <2>1, <3>1
    <2>3. CountedFor[started[s]] = {d \in DatesNear(started[s]) : InDay(d, started[s])}
        BY <2>1 DEF CountedFor
    <2>4. QED
        BY <2>2, <2>3, CountedOnce
<1>3. QED
    BY <1>1, <1>2, StartsStep, Invariance, PTL DEF Spec

=================================================================================
