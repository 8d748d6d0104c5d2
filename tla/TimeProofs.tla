------------------------------ MODULE TimeProofs ------------------------------
(***************************************************************************)
(* Lemmas that several components rest on: what DutyOf sums, in whatever    *)
(* order it takes the shifts, and how it grows with the set; and how the    *)
(* texts of instants sort, for any number of digits of a fraction.          *)
(***************************************************************************)
EXTENDS Windows, TimeText, FiniteSetTheorems, WellFoundedInduction, TLAPS

-----------------------------------------------------------------------------
(* Sums over finite sets.  The induction theorems of the library cannot be   *)
(* instantiated with an operator here, so induction is stated for sets of    *)
(* naturals and derived from the well-foundedness of <.                      *)

\* A set of naturals that holds 0 and is closed under successor is all of Nat.
LEMMA NatSetInduction ==
    ASSUME NEW P, 0 \in P, \A n \in Nat : n \in P => n + 1 \in P
    PROVE  \A n \in Nat : n \in P
<1> DEFINE R == {p \in Nat \X Nat : p[1] < p[2]}
           Outside == Nat \ P
<1>1. IsWellFoundedOn(R, Nat)
    BY NatLessThanWellFounded DEF OpToRel
<1>2. \A x, y \in Nat : <<y, x>> \in R <=> y < x
    OBVIOUS
<1>3. SUFFICES ASSUME Outside # {} PROVE FALSE
    OBVIOUS
<1> HIDE DEF R
<1>4. PICK x \in Outside : \A y \in Outside : ~(<<y, x>> \in R)
    BY <1>1, <1>3, WFMin
<1>5. x \in Nat /\ x # 0 /\ x \notin P
    OBVIOUS
<1>6. x - 1 \in Nat /\ x - 1 < x
    BY <1>5
<1>7. <<x - 1, x>> \in R
    BY <1>2, <1>5, <1>6
<1>8. x - 1 \in P
    BY <1>4, <1>6, <1>7
<1>9. QED
    BY <1>5, <1>6, <1>8

\* The element a sum over S takes first, and the equation of its fold.
Chosen(S) == CHOOSE x \in S : TRUE
Hours(s, window) == Duration(window[s])
SumsUp(g, S, window) ==
    g = [s \in SUBSET S |->
           IF s = {} THEN 0 ELSE Hours(Chosen(s), window) + g[s \ {Chosen(s)}]]

\* The fold that DutyOf is, written out.
LEMMA DutyUnfolds == \A S, window : DutyOf(S, window) = (CHOOSE g : SumsUp(g, S, window))[S]
BY DEF DutyOf, MapThenSumSet, MapThenFoldSet, SumsUp, Chosen, Hours

\* The element a sum takes first is one of the set.
LEMMA ChosenInSet == \A S : S # {} => Chosen(S) \in S
BY DEF Chosen

\* The rest of the sum is over one element less.
LEMMA RemoveChosen ==
    ASSUME NEW s, IsFiniteSet(s), s # {}
    PROVE  /\ IsFiniteSet(s \ {Chosen(s)})
           /\ Cardinality(s) \in Nat /\ Cardinality(s) # 0
           /\ Cardinality(s \ {Chosen(s)}) = Cardinality(s) - 1
BY ChosenInSet, FS_RemoveElement, FS_EmptySet, FS_CardinalityType

\* The recursion of the fold is well defined: by induction on the size n of the
\* subsets the function is defined on.
LEMMA SumExists ==
    ASSUME NEW window, NEW S, IsFiniteSet(S)
    PROVE  \E g : SumsUp(g, S, window)
<1> DEFINE Level(n) == {s \in SUBSET S : Cardinality(s) <= n}
           Upto(g, n) == g = [s \in Level(n) |->
                                IF s = {} THEN 0
                                ELSE Hours(Chosen(s), window) + g[s \ {Chosen(s)}]]
           P == {n \in Nat : \E g : Upto(g, n)}
<1>1. \A s \in SUBSET S : IsFiniteSet(s) /\ Cardinality(s) \in Nat
    BY FS_Subset, FS_CardinalityType
<1>2. \A s \in SUBSET S : s # {} =>
         /\ s \ {Chosen(s)} \in SUBSET S
         /\ Cardinality(s) # 0
         /\ Cardinality(s \ {Chosen(s)}) = Cardinality(s) - 1
    BY <1>1, RemoveChosen
<1>3. 0 \in P
    <2> DEFINE g == [s \in Level(0) |-> 0]
    <2>1. ASSUME NEW s \in Level(0)
          PROVE  s = {}
        <3>1. Cardinality(s) = 0
            BY <1>1
        <3>2. QED
            BY <1>2, <3>1
    <2>2. Upto(g, 0)
        BY <2>1
    <2>3. QED
        BY <2>2
<1>4. ASSUME NEW n \in Nat, n \in P
      PROVE  n + 1 \in P
    <2>1. PICK g : Upto(g, n)
        BY <1>4
    <2> DEFINE h == [s \in Level(n + 1) |->
                       IF s = {} THEN 0
                       ELSE Hours(Chosen(s), window) + g[s \ {Chosen(s)}]]
    <2>2. \A s \in Level(n) : s \in Level(n + 1)
        BY <1>1
    <2>3. \A s \in Level(n) : h[s] = g[s]
        BY <2>1, <2>2
    <2>4. \A s \in Level(n + 1) : s # {} => s \ {Chosen(s)} \in Level(n)
        BY <1>1, <1>2
    <2>5. \A s \in Level(n + 1) : h[s] =
             IF s = {} THEN 0 ELSE Hours(Chosen(s), window) + h[s \ {Chosen(s)}]
        BY <2>3, <2>4
    <2>6. h = [s \in Level(n + 1) |-> h[s]]
        OBVIOUS
    <2> HIDE DEF h
    <2>7. Upto(h, n + 1)
        BY <2>5, <2>6
    <2> HIDE DEF Upto
    <2>8. \E f : Upto(f, n + 1)
        BY <2>7
    <2>9. QED
        BY <2>8
<1> HIDE DEF P
<1>5. Cardinality(S) \in P
    BY <1>1, <1>3, <1>4, NatSetInduction
<1>6. PICK g : Upto(g, Cardinality(S))
    BY <1>5 DEF P
<1>7. Level(Cardinality(S)) = SUBSET S
    BY FS_Subset
<1>8. SumsUp(g, S, window)
    BY <1>6, <1>7 DEF SumsUp
<1>9. QED
    BY <1>8

\* ... and two such functions agree where both are defined.
LEMMA SumUnique ==
    ASSUME NEW window, NEW S, IsFiniteSet(S), NEW T \in SUBSET S,
           NEW g, NEW h,
           SumsUp(g, S, window), SumsUp(h, T, window)
    PROVE  \A s \in SUBSET T : g[s] = h[s]
<1> DEFINE P == {n \in Nat : \A s \in SUBSET T : Cardinality(s) <= n =>
                    g[s] = h[s]}
<1>1. \A s \in SUBSET T : IsFiniteSet(s) /\ Cardinality(s) \in Nat
    BY FS_Subset, FS_CardinalityType
<1>2. \A s \in SUBSET T : s # {} =>
         /\ s \ {Chosen(s)} \in SUBSET T
         /\ Cardinality(s) # 0
         /\ Cardinality(s \ {Chosen(s)}) = Cardinality(s) - 1
    BY <1>1, RemoveChosen
<1>3. \A s \in SUBSET T :
         /\ g[s] = IF s = {} THEN 0 ELSE Hours(Chosen(s), window) + g[s \ {Chosen(s)}]
         /\ h[s] = IF s = {} THEN 0 ELSE Hours(Chosen(s), window) + h[s \ {Chosen(s)}]
    <2> TAKE s \in SUBSET T
    <2>1. s \in SUBSET S
        OBVIOUS
    <2>2. g[s] = IF s = {} THEN 0 ELSE Hours(Chosen(s), window) + g[s \ {Chosen(s)}]
        BY <2>1, Zenon DEF SumsUp
    <2>3. h[s] = IF s = {} THEN 0 ELSE Hours(Chosen(s), window) + h[s \ {Chosen(s)}]
        BY Zenon DEF SumsUp
    <2>4. QED
        BY <2>2, <2>3
<1>4. 0 \in P
    <2>1. ASSUME NEW s \in SUBSET T, Cardinality(s) <= 0
          PROVE  g[s] = h[s]
        <3>1. Cardinality(s) = 0
            BY <1>1, <2>1
        <3>2. s = {}
            BY <1>2, <3>1
        <3>3. QED
            BY <1>3, <3>2
    <2>2. QED
        BY <2>1
<1>5. ASSUME NEW n \in Nat, n \in P
      PROVE  n + 1 \in P
    <2>1. ASSUME NEW s \in SUBSET T, Cardinality(s) <= n + 1, s # {}
          PROVE  g[s] = h[s]
        <3>1. g[s \ {Chosen(s)}] = h[s \ {Chosen(s)}]
            BY <1>1, <1>2, <1>5, <2>1
        <3>2. QED
            BY <1>3, <2>1, <3>1
    <2>2. g[{}] = h[{}]
        BY <1>3
    <2>3. QED
        BY <2>1, <2>2
<1> HIDE DEF P
<1>6. \A n \in Nat : n \in P
    BY <1>4, <1>5, NatSetInduction
<1>7. ASSUME NEW s \in SUBSET T
      PROVE  g[s] = h[s]
    <2>1. Cardinality(s) \in P
        BY <1>1, <1>6
    <2>2. QED
        BY <1>1, <2>1 DEF P
<1>8. QED
    BY <1>7

\* The hours of a set of shifts: the first one's and those of the others.
LEMMA DutyRecursion ==
    ASSUME NEW window, NEW S, IsFiniteSet(S)
    PROVE  DutyOf(S, window) =
              IF S = {} THEN 0
              ELSE Hours(Chosen(S), window) + DutyOf(S \ {Chosen(S)}, window)
<1> DEFINE g == CHOOSE f : SumsUp(f, S, window)
           T == S \ {Chosen(S)}
           h == CHOOSE f : SumsUp(f, T, window)
<1>1. SumsUp(g, S, window)
    BY SumExists
<1>2. IsFiniteSet(T) /\ T \in SUBSET S
    BY FS_Subset
<1>3. SumsUp(h, T, window)
    BY <1>2, SumExists
<1>4. DutyOf(S, window) = g[S] /\ DutyOf(T, window) = h[T]
    BY DutyUnfolds
<1> HIDE DEF g, h
<1>5. g[T] = h[T]
    BY <1>1, <1>2, <1>3, SumUnique
<1>6. g[S] = IF S = {} THEN 0 ELSE Hours(Chosen(S), window) + g[T]
    BY <1>1, Zenon DEF SumsUp
<1>7. QED
    BY <1>4, <1>5, <1>6

\* No shift, no hours.
LEMMA DutyOfNone == \A window : DutyOf({}, window) = 0
BY FS_EmptySet, DutyRecursion

\* It does not matter which shift is taken first, and the sum is a natural.
LEMMA DutyAnyFirst ==
    ASSUME NEW window, NEW S, IsFiniteSet(S),
           \A x \in S : IsWindow(window[x])
    PROVE  /\ DutyOf(S, window) \in Nat
           /\ \A x \in S : DutyOf(S, window) =
                              Hours(x, window) + DutyOf(S \ {x}, window)
<1> DEFINE D(s) == DutyOf(s, window)
           Good(s) == /\ D(s) \in Nat
                      /\ \A x \in s : D(s) = Hours(x, window) + D(s \ {x})
           P == {n \in Nat : \A s \in SUBSET S : Cardinality(s) <= n =>
                    Good(s)}
<1>1. \A s \in SUBSET S : IsFiniteSet(s) /\ Cardinality(s) \in Nat
    BY FS_Subset, FS_CardinalityType
<1>2. \A s \in SUBSET S : s # {} =>
         Chosen(s) \in s /\ D(s) = Hours(Chosen(s), window) + D(s \ {Chosen(s)})
    BY <1>1, DutyRecursion, ChosenInSet
<1>3. D({}) = 0
    BY DutyRecursion, FS_EmptySet
<1>4. \A s \in SUBSET S : \A x \in s :
         Cardinality(s \ {x}) = Cardinality(s) - 1 /\ Cardinality(s) # 0
    BY <1>1, FS_RemoveElement, FS_EmptySet
<1>5. \A x \in S : Hours(x, window) \in Nat
    BY DEF Hours, Duration, IsWindow
<1> HIDE DEF D
<1>6. 0 \in P
    <2>1. ASSUME NEW s \in SUBSET S, Cardinality(s) <= 0
          PROVE  Good(s)
        <3>1. Cardinality(s) = 0
            BY <1>1, <2>1
        <3>2. s = {}
            BY <1>4, <3>1
        <3>3. QED
            BY <1>3, <3>2
    <2>2. QED
        BY <2>1
<1>7. ASSUME NEW n \in Nat, n \in P
      PROVE  n + 1 \in P
    <2>1. ASSUME NEW s \in SUBSET S, Cardinality(s) <= n + 1, s # {}
          PROVE  Good(s)
        <3> DEFINE c == Chosen(s)
        <3>1. c \in s /\ D(s) = Hours(c, window) + D(s \ {c})
            BY <1>2, <2>1
        <3> HIDE DEF c
        <3>2. \A x, y \in s : Good(s \ {x}) /\ Good((s \ {x}) \ {y})
            <4> TAKE x, y \in s
            <4>1. Cardinality(s \ {x}) <= n
                BY <1>1, <1>4, <2>1
            <4>2. Cardinality((s \ {x}) \ {y}) <= n
                <5>1. CASE y \in s \ {x}
                    <6>1. s \ {x} \in SUBSET S
                        OBVIOUS
                    <6>2. Cardinality((s \ {x}) \ {y}) = Cardinality(s \ {x}) - 1
                        BY <1>4, <5>1, <6>1
                    <6>3. QED
                        BY <1>1, <4>1, <6>1, <6>2
                <5>2. CASE y \notin s \ {x}
                    <6>1. (s \ {x}) \ {y} = s \ {x}
                        BY <5>2
                    <6>2. QED
                        BY <4>1, <6>1
                <5>3. QED
                    BY <5>1, <5>2
            <4>3. QED
                BY <1>7, <4>1, <4>2
        <3>3. D(s) \in Nat
            BY <1>5, <3>1, <3>2
        <3>4. ASSUME NEW x \in s, x # c
              PROVE  D(s) = Hours(x, window) + D(s \ {x})
            <4>1. D(s \ {c}) = Hours(x, window) + D((s \ {c}) \ {x})
                BY <3>1, <3>2, <3>4
            <4>2. D(s \ {x}) = Hours(c, window) + D((s \ {x}) \ {c})
                BY <3>1, <3>2, <3>4
            <4>3. (s \ {c}) \ {x} = (s \ {x}) \ {c}
                OBVIOUS
            <4>4. D((s \ {x}) \ {c}) \in Nat
                BY <3>1, <3>2
            <4>5. Hours(c, window) \in Nat /\ Hours(x, window) \in Nat
                BY <1>5, <3>1
            <4>6. D((s \ {c}) \ {x}) = D((s \ {x}) \ {c})
                BY <4>3
            <4>7. D(s) = Hours(c, window) + (Hours(x, window) + D((s \ {x}) \ {c}))
                BY <3>1, <4>1, <4>6
            <4>8. QED
                BY <4>2, <4>4, <4>5, <4>7
        <3>5. QED
            BY <3>1, <3>3, <3>4
    <2>2. Good({})
        BY <1>3
    <2>3. QED
        BY <2>1, <2>2
<1> HIDE DEF P
<1>8. Cardinality(S) \in P
    BY <1>1, <1>6, <1>7, NatSetInduction
<1>9. Good(S)
    BY <1>8 DEF P
<1>10. QED
    BY <1>9 DEF D

\* Giving a shift back never adds hours.
LEMMA DutyShrinks ==
    ASSUME NEW window, NEW S, IsFiniteSet(S),
           \A x \in S : IsWindow(window[x]), NEW s
    PROVE  DutyOf(S \ {s}, window) <= DutyOf(S, window)
<1>1. CASE s \in S
    <2>1. DutyOf(S, window) = Hours(s, window) + DutyOf(S \ {s}, window)
        BY <1>1, DutyAnyFirst
    <2>2. IsFiniteSet(S \ {s})
        BY FS_RemoveElement
    <2>3. DutyOf(S \ {s}, window) \in Nat
        BY <2>2, DutyAnyFirst
    <2>4. Hours(s, window) \in Nat
        BY <1>1 DEF Hours, Duration, IsWindow
    <2>5. QED
        BY <2>1, <2>3, <2>4
<1>2. CASE s \notin S
    <2>1. S \ {s} = S
        BY <1>2
    <2>2. DutyOf(S, window) \in Nat
        BY DutyAnyFirst
    <2>3. QED
        BY <2>1, <2>2
<1>3. QED
    BY <1>1, <1>2

\* Nor does giving back several.
LEMMA DutyOfFewer ==
    ASSUME NEW window, NEW S, IsFiniteSet(S),
           \A x \in S : IsWindow(window[x]), NEW T \in SUBSET S
    PROVE  DutyOf(T, window) <= DutyOf(S, window)
<1> DEFINE P == {n \in Nat :
                    \A R \in SUBSET S :
                        T \subseteq R /\ Cardinality(R) <= n =>
                            DutyOf(T, window) <= DutyOf(R, window)}
<1>1. \A R \in SUBSET S : /\ IsFiniteSet(R) /\ Cardinality(R) \in Nat
                          /\ DutyOf(R, window) \in Nat
    <2> TAKE R \in SUBSET S
    <2>1. IsFiniteSet(R) /\ Cardinality(R) \in Nat
        BY FS_Subset, FS_CardinalityType
    <2>2. \A x \in R : IsWindow(window[x])
        OBVIOUS
    <2>3. QED
        BY <2>1, <2>2, DutyAnyFirst
<1>2. \A R \in SUBSET S : T \subseteq R /\ R # T => \E x \in R : x \notin T
    OBVIOUS
<1>3. 0 \in P
    <2>1. ASSUME NEW R \in SUBSET S, T \subseteq R, Cardinality(R) <= 0
          PROVE  DutyOf(T, window) <= DutyOf(R, window)
        <3>1. R = {}
            BY <1>1, <2>1, FS_EmptySet
        <3>2. T = R
            BY <2>1, <3>1
        <3>3. QED
            BY <1>1, <3>2
    <2>2. QED
        BY <2>1
<1>4. ASSUME NEW n \in Nat, n \in P
      PROVE  n + 1 \in P
    <2>1. ASSUME NEW R \in SUBSET S, T \subseteq R, Cardinality(R) <= n + 1
          PROVE  DutyOf(T, window) <= DutyOf(R, window)
        <3>1. CASE R = T
            BY <1>1, <3>1
        <3>2. CASE R # T
            <4>1. PICK x \in R : x \notin T
                BY <1>2, <2>1, <3>2
            <4>2. R \ {x} \in SUBSET S /\ T \subseteq R \ {x}
                BY <2>1, <4>1
            <4>3. Cardinality(R \ {x}) = Cardinality(R) - 1
                BY <1>1, <4>1, FS_RemoveElement
            <4>4. Cardinality(R \ {x}) <= n
                BY <1>1, <2>1, <4>3
            <4>5. DutyOf(T, window) <= DutyOf(R \ {x}, window)
                BY <1>4, <4>2, <4>4
            <4>6. \A y \in R : IsWindow(window[y])
                OBVIOUS
            <4>7. DutyOf(R \ {x}, window) <= DutyOf(R, window)
                BY <1>1, <4>6, DutyShrinks
            <4>8. QED
                BY <1>1, <4>2, <4>5, <4>7
        <3>3. QED
            BY <3>1, <3>2
    <2>2. QED
        BY <2>1
<1> HIDE DEF P
<1>5. Cardinality(S) \in P
    BY <1>1, <1>3, <1>4, NatSetInduction
<1>6. QED
    BY <1>1, <1>5 DEF P

-----------------------------------------------------------------------------
(* Instants as texts.                                                        *)

\* There is a function that the recursive definition of Ticks describes.
LEMMA TicksExist ==
    \E g : g = [k \in 0..Digits |-> IF k = 0 THEN 1 ELSE 10 * g[k - 1]]
<1> DEFINE Upto(n) ==
             \E g : /\ g \in [0..n -> Nat] /\ g[0] = 1
                    /\ \A k \in 1..n : g[k] = 10 * g[k - 1]
           P == {n \in Nat : Upto(n)}
<1>1. Upto(0)
    <2> DEFINE h == [k \in 0..0 |-> 1]
    <2>1. h \in [0..0 -> Nat] /\ h[0] = 1
        OBVIOUS
    <2>2. \A k \in 1..0 : h[k] = 10 * h[k - 1]
        OBVIOUS
    <2> HIDE DEF h
    <2>3. QED
        BY <2>1, <2>2
<1>2. ASSUME NEW n \in Nat, Upto(n) PROVE Upto(n + 1)
    <2>1. PICK g : /\ g \in [0..n -> Nat] /\ g[0] = 1
                   /\ \A k \in 1..n : g[k] = 10 * g[k - 1]
        BY <1>2
    <2> DEFINE h == [k \in 0..(n + 1) |-> IF k = n + 1 THEN 10 * g[n] ELSE g[k]]
    <2>2. h \in [0..(n + 1) -> Nat]
        BY <2>1
    <2>3. h[0] = 1
        BY <2>1
    <2>4. ASSUME NEW k \in 1..(n + 1) PROVE h[k] = 10 * h[k - 1]
        BY <2>1
    <2> HIDE DEF h
    <2>5. QED
        BY <2>2, <2>3, <2>4
<1> HIDE DEF Upto
<1>3. \A n \in Nat : n \in P
    <2>1. 0 \in P /\ \A n \in Nat : n \in P => n + 1 \in P
        BY <1>1, <1>2
    <2> HIDE DEF P
    <2>2. QED
        BY <2>1, NatSetInduction
<1>4. PICK g : /\ g \in [0..Digits -> Nat] /\ g[0] = 1
               /\ \A k \in 1..Digits : g[k] = 10 * g[k - 1]
    BY <1>3, DigitsIsNat DEF Upto
<1>5. g = [k \in 0..Digits |-> IF k = 0 THEN 1 ELSE 10 * g[k - 1]]
    BY <1>4, DigitsIsNat
<1>6. QED
    BY <1>5

\* Ticks are powers of ten.
LEMMA TicksArePowers ==
    /\ Ticks[0] = 1
    /\ \A k \in 1..Digits : Ticks[k] = 10 * Ticks[k - 1]
<1>1. Ticks = [k \in 0..Digits |-> IF k = 0 THEN 1 ELSE 10 * Ticks[k - 1]]
    BY Zenon, TicksExist DEF Ticks
<1>2. QED
    BY <1>1, DigitsIsNat

\* They are positive, and each divides the greater ones.
LEMMA TicksDivide ==
    /\ \A k \in 0..Digits : Ticks[k] \in Nat \ {0}
    /\ \A k \in 0..Digits : \E m \in Nat : Second = m * Ticks[k]
<1> DEFINE P == {n \in Nat : n <= Digits => Ticks[n] \in Nat \ {0}}
           Q == {n \in Nat : n <= Digits =>
                    \E m \in Nat : Second = m * Ticks[Digits - n]}
<1>1. 0 \in P
    BY TicksArePowers
<1>2. ASSUME NEW n \in Nat, n \in P PROVE n + 1 \in P
    <2>1. CASE n + 1 <= Digits
        <3>1. Ticks[n + 1] = 10 * Ticks[n] /\ Ticks[n] \in Nat \ {0}
            BY <1>2, <2>1, TicksArePowers, DigitsIsNat
        <3>2. QED
            BY <3>1
    <2>2. QED
        BY <2>1, DigitsIsNat
<1> HIDE DEF P
<1>3. \A n \in Nat : n \in P
    BY <1>1, <1>2, NatSetInduction
<1>4. \A k \in 0..Digits : Ticks[k] \in Nat \ {0}
    BY <1>3, DigitsIsNat DEF P
<1>5. 0 \in Q
    <2>1. Second = 1 * Ticks[Digits - 0]
        BY <1>4, DigitsIsNat DEF Second
    <2>2. QED
        BY <2>1
<1>6. ASSUME NEW n \in Nat, n \in Q PROVE n + 1 \in Q
    <2> SUFFICES ASSUME n + 1 <= Digits
                 PROVE  \E m \in Nat : Second = m * Ticks[Digits - (n + 1)]
        OBVIOUS
    <2>1. PICK m \in Nat : Second = m * Ticks[Digits - n]
        BY <1>6, DigitsIsNat
    <2> DEFINE k == Digits - n
    <2>2. k \in 1..Digits /\ k - 1 \in 0..Digits /\ Digits - (n + 1) = k - 1
        BY DigitsIsNat
    <2>3. Ticks[k] = 10 * Ticks[k - 1] /\ Ticks[k - 1] \in Nat
        BY <1>4, <2>2, TicksArePowers
    <2>4. Second = (10 * m) * Ticks[k - 1]
        BY <2>1, <2>3
    <2>5. QED
        BY <2>2, <2>4
<1> HIDE DEF Q
<1>7. \A n \in Nat : n \in Q
    BY <1>5, <1>6, NatSetInduction
<1>8. ASSUME NEW k \in 0..Digits PROVE \E m \in Nat : Second = m * Ticks[k]
    <2>1. Digits - k \in Nat /\ Digits - k <= Digits /\ Digits - (Digits - k) = k
        BY DigitsIsNat
    <2>2. QED
        BY <1>7, <2>1 DEF Q
<1>9. QED
    BY <1>4, <1>8

\* A text drops as many of its digits as are zeros.
LEMMA ZerosInRange ==
    ASSUME NEW t \in Int
    PROVE  /\ TrailingZeros(t) \in 0..Digits
           /\ t % Ticks[TrailingZeros(t)] = 0
           /\ \A k \in 0..Digits : t % Ticks[k] = 0 => k <= TrailingZeros(t)
<1> DEFINE S == {k \in 0..Digits : t % Ticks[k] = 0}
           R == {p \in Nat \X Nat : p[1] < p[2]}
           T == {Digits - k : k \in S}
<1>1. 0 \in S
    <2>1. t % 1 = 0 /\ Ticks[0] = 1
        BY TicksArePowers
    <2>2. 0 \in 0..Digits
        BY DigitsIsNat
    <2>3. QED
        BY <2>1, <2>2
<1>2. S \subseteq 0..Digits
    OBVIOUS
<1> HIDE DEF S
<1>3. T \subseteq Nat /\ T # {}
    BY <1>1, <1>2, DigitsIsNat
<1>4. IsWellFoundedOn(R, Nat)
    BY NatLessThanWellFounded DEF OpToRel
<1>5. \A x, y \in Nat : <<y, x>> \in R <=> y < x
    OBVIOUS
<1> HIDE DEF R, T
<1>6. PICK x \in T : \A y \in T : ~(<<y, x>> \in R)
    BY <1>3, <1>4, WFMin
<1>7. \A y \in T : ~(y < x)
    BY <1>3, <1>5, <1>6
<1>8. PICK m \in S : x = Digits - m
    BY DEF T
<1>9. \A k \in S : m >= k /\ k <= m
    <2> SUFFICES ASSUME NEW k \in S PROVE m >= k /\ k <= m
        OBVIOUS
    <2>1. ~(Digits - k < Digits - m)
        BY <1>7, <1>8 DEF T
    <2>2. k \in Int /\ m \in Int
        BY <1>2
    <2>3. QED
        BY <2>1, <2>2, DigitsIsNat
<1>10. Max(S) \in S /\ \A k \in S : Max(S) >= k
    BY <1>9 DEF Max
<1>11. TrailingZeros(t) = Max(S)
    BY DEF TrailingZeros, S
<1>12. \A k \in S : k <= TrailingZeros(t)
    <2> SUFFICES ASSUME NEW k \in S PROVE k <= TrailingZeros(t)
        OBVIOUS
    <2>1. S \subseteq Int
        BY <1>2, DigitsIsNat
    <2>2. TrailingZeros(t) \in Int /\ k \in Int /\ TrailingZeros(t) >= k
        BY Zenon, <1>10, <1>11, <2>1
    <2>3. QED
        BY <2>2
<1>13. QED
    BY <1>2, <1>10, <1>11, <1>12 DEF S

\* Division by more than the remainders is unique.
LEMMA QuotientUnique ==
    \A a, b, z, y \in Int : \A d \in Nat :
        /\ 0 <= z /\ z <= d /\ 0 <= y /\ y <= d
        /\ a * (d + 1) + z = b * (d + 1) + y
        => a = b /\ z = y
<1> SUFFICES ASSUME NEW a \in Int, NEW b \in Int, NEW z \in Int, NEW y \in Int,
                    NEW d \in Nat, 0 <= z, z <= d, 0 <= y, y <= d,
                    a * (d + 1) + z = b * (d + 1) + y
             PROVE  a = b /\ z = y
    OBVIOUS
<1>1. \A p, q \in Int : p > q => (p - q) * (d + 1) >= d + 1
    <2> SUFFICES ASSUME NEW p \in Int, NEW q \in Int, p > q
                 PROVE  (p - q) * (d + 1) >= d + 1
        OBVIOUS
    <2>1. PICK r \in Nat : p - q = r + 1
        OBVIOUS
    <2>2. (r + 1) * (d + 1) = r * (d + 1) + (d + 1)
        OBVIOUS
    <2>3. r * (d + 1) >= 0
        OBVIOUS
    <2>4. QED
        BY <2>1, <2>2, <2>3
<1>2. (a - b) * (d + 1) = y - z /\ (b - a) * (d + 1) = z - y
    OBVIOUS
<1>3. ~(a > b) /\ ~(b > a)
    BY <1>1, <1>2
<1>4. QED
    BY <1>3

\* A key is a number, and no two instants have the same: what the pages are
\* sorted by tells apart whatever has a moment of its own.
LEMMA TextKeys ==
    /\ \A t \in Int : TextKey(t) \in Int
    /\ \A t, u \in Int : TextKey(t) = TextKey(u) => t = u
<1>1. \A k \in 0..Digits : Ticks[k] \in Int
    BY TicksDivide
<1>2. \A t \in Int : /\ TrailingZeros(t) \in 0..Digits
                     /\ Ticks[TrailingZeros(t)] \in Int
                     /\ TrailingZeros(t) \in Int
    BY <1>1, ZerosInRange, DigitsIsNat
<1>3. ASSUME NEW t \in Int PROVE TextKey(t) \in Int
    BY <1>2, DigitsIsNat DEF TextKey
<1>4. ASSUME NEW t \in Int, NEW u \in Int, TextKey(t) = TextKey(u) PROVE t = u
    <2> DEFINE z == TrailingZeros(t)
               y == TrailingZeros(u)
               a == t + Ticks[z]
               b == u + Ticks[y]
    <2>1. z \in Int /\ y \in Int /\ a \in Int /\ b \in Int
          /\ Ticks[z] \in Int /\ Ticks[y] \in Int
        BY <1>2
    <2>2. 0 <= z /\ z <= Digits /\ 0 <= y /\ y <= Digits
        BY <1>2, DigitsIsNat
    <2>3. a * (Digits + 1) + z = b * (Digits + 1) + y
        BY <1>4 DEF TextKey
    <2>4. a = t + Ticks[z] /\ b = u + Ticks[y]
        OBVIOUS
    <2> HIDE DEF z, y, a, b
    <2>5. a = b /\ z = y
        BY <2>1, <2>2, <2>3, QuotientUnique, DigitsIsNat
    <2>6. QED
        BY <2>1, <2>4, <2>5
<1>5. QED
    BY <1>3, <1>4

-----------------------------------------------------------------------------
(* How whole seconds sort.                                                   *)

\* Two multiples of d that differ, differ by d.
LEMMA MultiplesApart ==
    \A t, u \in Int : \A d \in Nat \ {0} :
        t % d = 0 /\ u % d = 0 /\ t < u => t + d <= u
<1> SUFFICES ASSUME NEW t \in Int, NEW u \in Int, NEW d \in Nat \ {0},
                    t % d = 0, u % d = 0, t < u
             PROVE  t + d <= u
    OBVIOUS
<1> DEFINE p == t \div d
           q == u \div d
<1>1. p \in Int /\ q \in Int /\ t = d * p /\ u = d * q
    OBVIOUS
<1> HIDE DEF p, q
<1>2. p < q
    <2>1. CASE p >= q
        <3>1. d * (p - q) >= 0
            BY <1>1, <2>1
        <3>2. QED
            BY <1>1, <3>1
    <2>2. QED
        BY <1>1, <2>1
<1>3. d * (q - p - 1) >= 0
    BY <1>1, <1>2
<1>4. d * (q - p - 1) = u - t - d
    BY <1>1
<1>5. QED
    BY <1>3, <1>4

\* The next multiple of d is d further on.
LEMMA NextMultiple ==
    \A t \in Int : \A d \in Nat \ {0} : t % d = 0 => (t + d) % d = 0
<1> SUFFICES ASSUME NEW t \in Int, NEW d \in Nat \ {0}, t % d = 0
             PROVE  (t + d) % d = 0
    OBVIOUS
<1> SUFFICES ASSUME NEW u \in Int, u = t + d PROVE u % d = 0
    OBVIOUS
<1> DEFINE a == (t \div d) + 1
<1>1. a \in Int /\ u = d * a
    OBVIOUS
<1> HIDE DEF a
<1>2. QED
    BY ONLY <1>1, d \in Nat \ {0}

\* A divisor of a divisor divides.
LEMMA DividesOn ==
    \A t \in Int : \A m \in Nat : \A d \in Nat \ {0} :
        m * d # 0 /\ t % (m * d) = 0 => t % d = 0
<1> SUFFICES ASSUME NEW t \in Int, NEW m \in Nat, NEW d \in Nat \ {0},
                    m * d # 0, t % (m * d) = 0
             PROVE  t % d = 0
    OBVIOUS
<1> DEFINE e == m * d
           q == t \div e
           a == q * m
<1>1. e \in Nat \ {0}
    OBVIOUS
<1>2. q \in Int /\ t = e * q
    <2> HIDE DEF e
    <2>1. t % e = 0
        BY DEF e
    <2>2. QED
        BY <1>1, <2>1
<1>3. a \in Int /\ t = d * a
    BY <1>2
<1> HIDE DEF a
<1>4. QED
    BY <1>3

\* How a whole second w sorts among the other instants: it comes after those
\* before it and those within it, and before those that follow.
LEMMA WholeSecondSorts ==
    ASSUME NEW t \in Int, NEW w \in Int, w % Second = 0
    PROVE  TextBefore(t, w) <=> t < w \/ (w < t /\ t < w + Second)
<1> DEFINE z == TrailingZeros(t)
           k == Ticks[z]
<1>1. z \in 0..Digits /\ z \in Int /\ 0 <= z /\ z <= Digits
    BY ZerosInRange, DigitsIsNat
<1>2. k \in Nat \ {0} /\ t % k = 0
    BY <1>1, ZerosInRange, TicksDivide
<1>3. Second \in Nat \ {0}
    BY TicksDivide, DigitsIsNat DEF Second
<1>4. w % k = 0 /\ (w + Second) % k = 0
    <2>1. PICK m \in Nat : Second = m * k
        BY <1>1, TicksDivide
    <2>2. w + Second \in Int
        BY <1>3
    <2>3. (w + Second) % Second = 0
        BY Zenon, <1>3, NextMultiple
    <2>4. m * k # 0 /\ w % (m * k) = 0 /\ (w + Second) % (m * k) = 0
        BY <1>3, <2>1, <2>3
    <2> HIDE DEF k
    <2>5. QED
        BY Zenon, <1>2, <2>2, <2>4, DividesOn
<1>5. TrailingZeros(w) = Digits
    BY ZerosInRange, DigitsIsNat DEF Second
<1>6. TextKey(w) = (w + Second) * (Digits + 1) + Digits
    BY <1>5 DEF TextKey, Second
<1>7. TextKey(t) = (t + k) * (Digits + 1) + z
    BY DEF TextKey
<1>8. z = Digits => k = Second
    BY DEF Second
<1>9. ASSUME NEW a \in Int, NEW b \in Int, a < b
      PROVE  a * (Digits + 1) + Digits < b * (Digits + 1)
    <2>1. PICK n \in Nat : b = a + 1 + n
        BY <1>9
    <2>2. n * (Digits + 1) >= 0
        BY DigitsIsNat
    <2>3. b * (Digits + 1) = a * (Digits + 1) + (Digits + 1) + n * (Digits + 1)
        BY <2>1, DigitsIsNat
    <2>4. QED
        BY <2>2, <2>3, DigitsIsNat
<1> HIDE DEF z, k
<1>10. CASE t < w
    <2>1. t + k <= w
        BY Zenon, <1>2, <1>4, <1>10, MultiplesApart
    <2>2. (t + k) * (Digits + 1) + Digits < (w + Second) * (Digits + 1)
        BY <1>2, <1>3, <1>9, <2>1
    <2>3. QED
        BY <1>1, <1>2, <1>3, <1>6, <1>7, <1>10, <2>2, DigitsIsNat DEF TextBefore
<1>11. CASE t = w
    BY <1>1, <1>2, <1>7, <1>11, DigitsIsNat DEF TextBefore
<1>12. CASE w < t /\ t < w + Second
    <2>1. w + Second \in Int
        BY <1>3
    <2>2. t + k <= w + Second
        BY Zenon, <1>2, <1>4, <1>12, <2>1, MultiplesApart
    <2>3. z # Digits
        BY <1>2, <1>3, <1>8, <1>12, <2>2
    <2>4. CASE t + k = w + Second
        BY <1>1, <1>2, <1>3, <1>6, <1>7, <1>12, <2>3, <2>4, DigitsIsNat DEF TextBefore
    <2>5. CASE t + k < w + Second
        <3>1. (t + k) * (Digits + 1) + Digits < (w + Second) * (Digits + 1)
            BY <1>2, <1>3, <1>9, <2>5
        <3>2. QED
            BY <1>1, <1>2, <1>3, <1>6, <1>7, <1>12, <3>1, DigitsIsNat DEF TextBefore
    <2>6. QED
        BY <1>2, <1>3, <2>2, <2>4, <2>5
<1>13. CASE t >= w + Second
    <2>1. (w + Second) * (Digits + 1) + Digits < (t + k) * (Digits + 1)
        BY <1>2, <1>3, <1>9, <1>13
    <2>2. QED
        BY <1>1, <1>2, <1>3, <1>6, <1>7, <1>13, <2>1, DigitsIsNat DEF TextBefore
<1>14. QED
    BY <1>3, <1>10, <1>11, <1>12, <1>13

\* An instant sorts before those of later seconds.
LEMMA SecondsSort ==
    ASSUME NEW t \in Int, NEW u \in Int, t \div Second < u \div Second
    PROVE  TextBefore(t, u)
<1> DEFINE p == t \div Second
           q == u \div Second
           w == p * Second
<1>1. Second \in Nat \ {0}
    BY TicksDivide, DigitsIsNat DEF Second
<1>2. p \in Int /\ q \in Int /\ p < q
    BY <1>1
<1>3. w \in Int /\ w <= t /\ t < w + Second /\ q * Second <= u
    BY <1>1
<1>4. w + Second <= q * Second
    <2>1. (q - p - 1) * Second >= 0
        BY <1>1, <1>2
    <2>2. (q - p - 1) * Second = q * Second - p * Second - Second
        BY <1>1, <1>2
    <2>3. QED
        BY <1>1, <1>2, <2>1, <2>2
<1>5. w % Second = 0
    BY <1>1, <1>2
<1>6. q * Second \in Int
    BY <1>1, <1>2
<1> HIDE DEF p, q, w
<1>7. w + Second <= u
    BY <1>1, <1>3, <1>4, <1>6
<1>8. TextKey(t) <= TextKey(w)
    <2>1. CASE t = w
        BY <2>1, <1>3, TextKeys
    <2>2. CASE t # w
        <3>1. TextBefore(t, w)
            BY <1>3, <1>5, <2>2, WholeSecondSorts
        <3>2. QED
            BY <1>3, <3>1, TextKeys DEF TextBefore
    <2>3. QED
        BY <2>1, <2>2
<1>9. TextKey(w) < TextKey(u)
    <2>1. ~TextBefore(u, w) /\ u # w
        BY <1>1, <1>3, <1>5, <1>7, WholeSecondSorts
    <2>2. TextKey(u) # TextKey(w) /\ ~(TextKey(u) < TextKey(w))
        BY <1>3, <2>1, TextKeys DEF TextBefore
    <2>3. QED
        BY <1>3, <2>2, TextKeys
<1>10. QED
    BY <1>3, <1>8, <1>9, TextKeys DEF TextBefore


=============================================================================
