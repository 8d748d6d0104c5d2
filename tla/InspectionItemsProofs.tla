------------------------ MODULE InspectionItemsProofs -------------------------
(***************************************************************************)
(* What the version and the uniqueness of items protect of a checklist, for *)
(* any codes and any number of requests: the header of a submitted          *)
(* inspection, and, while no Record is disturbed, what was answered for and *)
(* what the verdict was given for.                                          *)
(***************************************************************************)
EXTENDS InspectionItems, WellFoundedInduction, TLAPS

-----------------------------------------------------------------------------
(* The inductive invariants                                                 *)

IsDraft(row) == row.status = "draft"

\* The version tells a draft from what was submitted, in the row and in every
\* copy that a Record has read, and only drafts get past GetItems.
VersionTells ==
    /\ IsDraft(header) <=> header.version = 1
    /\ \A c \in Callers :
          /\ call[c].op \in {"read_items", "update"} =>
                (IsDraft(call[c].seen) <=> call[c].seen.version = 1)
          /\ call[c].op = "update" => IsDraft(call[c].seen)

OneInFlight == \A c, d \in Callers : call[c] # Idle /\ call[d] # Idle => c = d

\* Where a Record is, and what is on its list or in the table by then.
Progress(c) ==
    /\ call[c].op \in {"read_items", "update"} => recorded \subseteq Present(items)
    /\ call[c].op \in {"update", "delete"} =>
          recorded \cup {call[c].code} \subseteq Present(call[c].list)
    /\ call[c].op = "insert" =>
          /\ recorded \cup {call[c].code}
                \subseteq Present(call[c].list) \cup Present(items)
          /\ Present(call[c].list) \cap Present(items) = {}
    /\ call[c].op \in {"delete", "insert"} => IsDraft(header)

ChecklistInv ==
    ~disturbed => /\ OneInFlight
                  /\ AnsweredPresent
                  /\ \A c \in Callers : Progress(c)
                  /\ VerdictHolds

-----------------------------------------------------------------------------
(* Lemmas                                                                   *)

\* The next item to insert is one of those on the list.
LEMMA FirstIsPresent ==
    ASSUME NEW list \in Checklists, Present(list) # {}
    PROVE  FirstOf(list) \in Present(list)
<1> DEFINE S == Present(list)
<1>1. S \subseteq Nat
    BY CodesAreNumbers DEF Present
<1>2. PICK k \in S : \A j \in S : ~(<<j, k>> \in OpToRel(<, Nat))
    BY <1>1, NatLessThanWellFounded, WFMin
<1>3. \A j \in S : k <= j
    <2> TAKE j \in S
    <2>1. j \in Nat /\ k \in Nat
        BY <1>1
    <2>2. ~(j < k)
        BY <1>2, <2>1 DEF OpToRel
    <2>3. QED
        BY <2>1, <2>2
<1> HIDE DEF S
<1>4. Min(S) \in S
    BY <1>3 DEF Min
<1>5. QED
    BY <1>4 DEF FirstOf, S

\* What a Record remembers between two statements.
LEMMA CallTypes ==
    ASSUME call \in [Callers -> Calls], NEW c \in Callers
    PROVE  /\ call[c].op \in {"idle", "read_items", "update", "delete", "insert"}
           /\ call[c].op = "idle" <=> call[c] = Idle
           /\ call[c] # Idle => call[c].code \in Codes
           /\ call[c].op = "read_items" => call[c].result \in Results
           /\ call[c].op \in {"read_items", "update"} =>
                 call[c].seen \in Headers
           /\ call[c].op \in {"update", "delete", "insert"} =>
                 call[c].list \in Checklists
           /\ call[c].op = "delete" => call[c] =
                 [op |-> "delete", code |-> call[c].code, list |-> call[c].list]
           /\ call[c].op = "insert" => call[c] =
                 [op |-> "insert", code |-> call[c].code, list |-> call[c].list]
<1>1. call[c] \in Calls
    OBVIOUS
<1>2. QED
    BY <1>1 DEF Calls, Idle

\* The two updates in place of what a Record remembers.
LEMMA RowsRewritten ==
    ASSUME NEW code, NEW list, NEW k
    PROVE  LET deleting == [op |-> "delete", code |-> code, list |-> list]
               inserting == [op |-> "insert", code |-> code, list |-> list]
           IN  /\ [deleting EXCEPT !.op = "insert"] = inserting
               /\ [inserting EXCEPT !.list[k] = Missing] =
                     [op |-> "insert", code |-> code,
                      list |-> [list EXCEPT ![k] = Missing]]
OBVIOUS

\* DeleteItems and InsertItem written out.
LEMMA ItemsAfter ==
    ASSUME TypeOK, NEW c \in Callers
    PROVE  /\ DeleteItems(c) =>
                call' = [call EXCEPT ![c] =
                           [op |-> "insert", code |-> call[c].code,
                            list |-> call[c].list]]
           /\ InsertItem(c) =>
                \E k \in Present(call[c].list) :
                   /\ items[k] = Missing
                   /\ items' = [items EXCEPT ![k] = call[c].list[k]]
                   /\ call' = [call EXCEPT ![c] =
                                 [op |-> "insert", code |-> call[c].code,
                                  list |-> [call[c].list EXCEPT ![k] = Missing]]]
<1>1. ASSUME DeleteItems(c)
      PROVE  call' = [call EXCEPT ![c] =
                        [op |-> "insert", code |-> call[c].code,
                         list |-> call[c].list]]
    <2>1. call[c] = [op |-> "delete", code |-> call[c].code,
                     list |-> call[c].list]
        BY <1>1, CallTypes DEF DeleteItems, TypeOK
    <2> DEFINE after == [op |-> "insert", code |-> call[c].code,
                         list |-> call[c].list]
    <2>2. [call[c] EXCEPT !.op = "insert"] = after
        BY <2>1, RowsRewritten
    <2>3. call' = [call EXCEPT ![c] = [call[c] EXCEPT !.op = "insert"]]
        BY <1>1 DEF DeleteItems
    <2> HIDE DEF after
    <2>4. call' = [call EXCEPT ![c] = after]
        BY <2>2, <2>3
    <2>5. QED
        BY <2>4 DEF after
<1>2. ASSUME InsertItem(c)
      PROVE  \E k \in Present(call[c].list) :
                /\ items[k] = Missing
                /\ items' = [items EXCEPT ![k] = call[c].list[k]]
                /\ call' = [call EXCEPT ![c] =
                              [op |-> "insert", code |-> call[c].code,
                               list |-> [call[c].list EXCEPT ![k] = Missing]]]
    <2> DEFINE k == FirstOf(call[c].list)
               after == [op |-> "insert", code |-> call[c].code,
                         list |-> [call[c].list EXCEPT ![k] = Missing]]
    <2>1. /\ Present(call[c].list) # {} /\ items[k] = Missing
          /\ items' = [items EXCEPT ![k] = call[c].list[k]]
          /\ call' = [call EXCEPT ![c] = [call[c] EXCEPT !.list[k] = Missing]]
        BY <1>2 DEF InsertItem
    <2>2. /\ call[c] = [op |-> "insert", code |-> call[c].code,
                        list |-> call[c].list]
          /\ call[c].list \in Checklists
        BY <1>2, CallTypes DEF InsertItem, TypeOK
    <2>3. k \in Present(call[c].list)
        BY <2>1, <2>2, FirstIsPresent
    <2> HIDE DEF k
    <2>4. [call[c] EXCEPT !.list[k] = Missing] = after
        BY <2>2, RowsRewritten
    <2> HIDE DEF after
    <2>5. call' = [call EXCEPT ![c] = after]
        BY <2>1, <2>4
    <2>6. QED
        BY <2>1, <2>3, <2>5 DEF after
<1>3. QED
    BY <1>1, <1>2

-----------------------------------------------------------------------------
(* Types and versions                                                       *)

\* A Record writes the header back as it was: its version is the one of drafts.
LEMMA HeaderWritten ==
    ASSUME TypeOK, VersionTells, NEW c \in Callers, UpdateHeader(c)
    PROVE  header' = header /\ IsDraft(header)
<1>1. /\ header' = call[c].seen /\ call[c].seen.version = header.version
      /\ call[c].seen \in Headers /\ IsDraft(call[c].seen)
      /\ call[c].seen.version = 1
    BY CallTypes DEF UpdateHeader, SameVersion, TypeOK, VersionTells
<1>2. IsDraft(header)
    BY <1>1 DEF VersionTells
<1>3. \A a, b \in Headers : a.status = b.status /\ a.version = b.version => a = b
    BY DEF Headers
<1>4. header \in Headers /\ header.status = call[c].seen.status
    BY <1>1, <1>2 DEF IsDraft, TypeOK
<1>5. QED
    BY <1>1, <1>2, <1>3, <1>4

\* Every step keeps the types and what the versions tell.
LEMMA TypeStep ==
    TypeOK /\ VersionTells /\ [Next]_vars => TypeOK' /\ VersionTells'
<1> SUFFICES ASSUME TypeOK, VersionTells, [Next]_vars
             PROVE  TypeOK' /\ VersionTells'
    OBVIOUS
<1>1. ASSUME NEW c \in Callers, NEW k \in Codes, NEW r \in Results,
             GetHeader(c, k, r)
      PROVE  TypeOK' /\ VersionTells'
    <2>1. TypeOK'
        BY <1>1 DEF GetHeader, TypeOK, Calls
    <2>2. /\ call'[c].op = "read_items" /\ call'[c].seen = header
          /\ \A d \in Callers \ {c} : call'[d] = call[d]
          /\ header' = header
        BY <1>1 DEF GetHeader, TypeOK
    <2>4. VersionTells'
        BY <2>2 DEF VersionTells
    <2>5. QED
        BY <2>1, <2>4
<1>2. ASSUME NEW c \in Callers, GetItems(c)
      PROVE  TypeOK' /\ VersionTells'
    <2>1. /\ call[c].code \in Codes /\ call[c].result \in Results
          /\ call[c].seen \in Headers /\ call[c].op = "read_items"
        BY <1>2, CallTypes DEF GetItems, TypeOK, Idle
    <2>2. WithItem(items, call[c].code, call[c].result) \in Checklists
        BY <2>1 DEF WithItem, TypeOK, Checklists
    <2>3. TypeOK'
        BY <1>2, <2>1, <2>2 DEF GetItems, TypeOK, Calls
    <2>4. VersionTells'
        BY <1>2, <2>1 DEF GetItems, TypeOK, VersionTells, IsDraft
    <2>5. QED
        BY <2>3, <2>4
<1>3. ASSUME NEW c \in Callers, UpdateHeader(c)
      PROVE  TypeOK' /\ VersionTells'
    <2>1. header' = header
        BY <1>3, HeaderWritten
    <2>2. call[c].code \in Codes /\ call[c].list \in Checklists
        BY <1>3, CallTypes DEF UpdateHeader, TypeOK, Idle
    <2>3. TypeOK'
        BY <1>3, <2>1, <2>2 DEF UpdateHeader, TypeOK, Calls
    <2>4. VersionTells'
        BY <1>3, <2>1 DEF UpdateHeader, TypeOK, VersionTells
    <2>5. QED
        BY <2>3, <2>4
<1>4. ASSUME NEW c \in Callers, DeleteItems(c)
      PROVE  TypeOK' /\ VersionTells'
    <2>1. /\ call[c].code \in Codes /\ call[c].list \in Checklists
          /\ call' = [call EXCEPT ![c] =
                        [op |-> "insert", code |-> call[c].code,
                         list |-> call[c].list]]
        BY <1>4, CallTypes, ItemsAfter DEF DeleteItems, TypeOK, Idle
    <2>2. items' \in Checklists
        BY <1>4 DEF DeleteItems, NoItems, Checklists
    <2>3. TypeOK'
        <3>1. [op |-> "insert", code |-> call[c].code, list |-> call[c].list]
                 \in Calls
            BY <2>1 DEF Calls
        <3>2. call' \in [Callers -> Calls]
            BY <2>1, <3>1 DEF TypeOK
        <3>3. QED
            BY <1>4, <2>2, <3>2 DEF DeleteItems, TypeOK
    <2>4. VersionTells'
        BY <1>4, <2>1 DEF DeleteItems, TypeOK, VersionTells
    <2>5. QED
        BY <2>3, <2>4
<1>5. ASSUME NEW c \in Callers, InsertItem(c)
      PROVE  TypeOK' /\ VersionTells'
    <2>1. PICK k \in Present(call[c].list) :
             /\ items' = [items EXCEPT ![k] = call[c].list[k]]
             /\ call' = [call EXCEPT ![c] =
                           [op |-> "insert", code |-> call[c].code,
                            list |-> [call[c].list EXCEPT ![k] = Missing]]]
        BY <1>5, ItemsAfter
    <2>2. /\ call[c].code \in Codes /\ call[c].list \in Checklists
          /\ k \in Codes
        BY <1>5, CallTypes DEF InsertItem, TypeOK, Idle, Present
    <2>3. /\ [call[c].list EXCEPT ![k] = Missing] \in Checklists
          /\ items' \in Checklists
        BY <2>1, <2>2 DEF TypeOK, Checklists
    <2>4. TypeOK'
        <3>1. [op |-> "insert", code |-> call[c].code,
               list |-> [call[c].list EXCEPT ![k] = Missing]] \in Calls
            BY <2>2, <2>3 DEF Calls
        <3>2. call' \in [Callers -> Calls]
            BY <2>1, <3>1 DEF TypeOK
        <3>3. QED
            BY <1>5, <2>3, <3>2 DEF InsertItem, TypeOK
    <2>5. VersionTells'
        BY <1>5, <2>1 DEF InsertItem, TypeOK, VersionTells
    <2>6. QED
        BY <2>4, <2>5
<1>6. ASSUME NEW c \in Callers, Answer(c)
      PROVE  TypeOK' /\ VersionTells'
    <2>1. call[c].code \in Codes
        BY <1>6, CallTypes DEF Answer, TypeOK, Idle
    <2>2. TypeOK'
        BY <1>6, <2>1 DEF Answer, TypeOK, Calls
    <2>3. VersionTells'
        BY <1>6 DEF Answer, TypeOK, VersionTells, Idle
    <2>4. QED
        BY <2>2, <2>3
<1>7. ASSUME NEW c \in Callers, EndWithError(c)
      PROVE  TypeOK' /\ VersionTells'
    <2>1. TypeOK'
        BY <1>7 DEF EndWithError, Refused, TypeOK, Calls
    <2>2. VersionTells'
        BY <1>7 DEF EndWithError, TypeOK, VersionTells, Idle
    <2>3. QED
        BY <2>1, <2>2
<1>8. ASSUME NEW c \in Callers, Submit(c)
      PROVE  TypeOK' /\ VersionTells'
    <2>1. IsDraft(header) /\ header.version = 1
        BY <1>8 DEF Submit, Submittable, IsDraft, VersionTells
    <2>2. /\ header'.version = 2 /\ header'.status \in {"passed", "failed"}
          /\ header' \in Headers
        BY <1>8, <2>1 DEF Submit, Headers
    <2>3. TypeOK'
        BY <1>8, <2>2 DEF Submit, TypeOK
    <2>4. VersionTells'
        BY <1>8, <2>2 DEF Submit, VersionTells, IsDraft
    <2>5. QED
        BY <2>3, <2>4
<1>9. CASE UNCHANGED vars
    BY <1>9 DEF vars, TypeOK, VersionTells
<1>10. QED
    BY <1>1, <1>2, <1>3, <1>4, <1>5, <1>6, <1>7, <1>8, <1>9 DEF Next

\* Both hold throughout.
LEMMA VersionInvariant == Spec => [](TypeOK /\ VersionTells)
<1>1. Init => TypeOK /\ VersionTells
    <2> SUFFICES ASSUME Init PROVE TypeOK /\ VersionTells
        OBVIOUS
    <2>1. header \in Headers /\ items \in Checklists
        BY DEF Init, Headers, NoItems, Checklists
    <2>2. call \in [Callers -> Calls]
        BY DEF Init, Calls
    <2>3. VersionTells
        BY DEF Init, VersionTells, IsDraft, Idle
    <2>4. QED
        BY <2>1, <2>2, <2>3 DEF Init, TypeOK
<1>2. QED
    BY <1>1, TypeStep, PTL DEF Spec

\* Header, items and the lists in flight have their types at all times.
THEOREM TypeCorrect == Spec => []TypeOK
BY VersionInvariant, PTL

\* The step of HeaderFinal.
HeaderStays == header.status # "draft" => header' = header

\* A submitted inspection keeps its header: no Record that read the draft, and
\* no second Submit, writes over it.
THEOREM SubmittedIsFinal == Spec => HeaderFinal
<1>1. TypeOK /\ VersionTells /\ [Next]_vars => [HeaderStays]_header
    <2> SUFFICES ASSUME TypeOK, VersionTells, Next, header' # header
                 PROVE  header.status = "draft"
        BY DEF HeaderStays, vars
    <2>1. ASSUME NEW c \in Callers, UpdateHeader(c) PROVE header.status = "draft"
        BY <2>1, HeaderWritten DEF IsDraft
    <2>2. ASSUME NEW c \in Callers, Submit(c) PROVE header.status = "draft"
        BY <2>2 DEF Submit, Submittable
    <2>3. QED
        BY <2>1, <2>2 DEF Next, GetHeader, GetItems, DeleteItems, InsertItem,
                          Answer, EndWithError
<1>2. QED
    BY <1>1, VersionInvariant, PTL DEF Spec, HeaderFinal, HeaderStays

-----------------------------------------------------------------------------
(* The undisturbed checklist                                                *)

\* While the only Record under way is undisturbed, each of its statements
\* keeps what was answered for in the table or on its list, and the items
\* change only under a draft.
LEMMA ChecklistStep ==
    TypeOK /\ VersionTells /\ ChecklistInv /\ [Next]_vars => ChecklistInv'
<1> SUFFICES ASSUME TypeOK, VersionTells, ChecklistInv, [Next]_vars, ~disturbed'
             PROVE  /\ OneInFlight' /\ AnsweredPresent'
                    /\ \A c \in Callers : Progress(c)'
                    /\ VerdictHolds'
    BY DEF ChecklistInv
<1> DEFINE Goal == /\ OneInFlight' /\ AnsweredPresent'
                   /\ \A c \in Callers : Progress(c)'
                   /\ VerdictHolds'
<1>0. /\ OneInFlight /\ AnsweredPresent
      /\ \A c \in Callers : Progress(c)
      /\ VerdictHolds
    <2>1. ~disturbed
        BY DEF Next, GetHeader, GetItems, UpdateHeader, DeleteItems, InsertItem,
               Answer, EndWithError, Submit, vars
    <2>2. QED
        BY <2>1 DEF ChecklistInv
<1>1. ASSUME NEW c \in Callers, call[c] # Idle
      PROVE  \A d \in Callers \ {c} : call[d] = Idle
    BY <1>0, <1>1 DEF OneInFlight
<1>2. ASSUME NEW c \in Callers, call[c] # Idle \/ NoCallInFlight,
             call'[c].op # "idle",
             \A d \in Callers \ {c} : call'[d] = call[d],
             Progress(c)', VerdictHolds'
      PROVE  Goal
    <2>1. \A d \in Callers \ {c} : call'[d] = Idle
        BY <1>1, <1>2 DEF NoCallInFlight
    <2>2. \A d \in Callers \ {c} : Progress(d)'
        BY <2>1 DEF Progress, Idle
    <2>3. call'[c] # Idle
        BY <1>2 DEF Idle
    <2>4. QED
        BY <1>2, <2>1, <2>2, <2>3 DEF OneInFlight, AnsweredPresent, NoCallInFlight
<1>3. ASSUME NEW c \in Callers, call[c] # Idle,
             call'[c] = Idle,
             \A d \in Callers \ {c} : call'[d] = call[d],
             recorded' \subseteq Present(items)', VerdictHolds'
      PROVE  Goal
    <2>1. \A d \in Callers : call'[d] = Idle
        BY <1>1, <1>3
    <2>2. \A d \in Callers : Progress(d)'
        BY <2>1 DEF Progress, Idle
    <2>3. QED
        BY <1>3, <2>1, <2>2 DEF OneInFlight, AnsweredPresent
<1>4. ASSUME NEW c \in Callers, NEW k \in Codes, NEW r \in Results,
             GetHeader(c, k, r)
      PROVE  Goal
    <2>1. /\ NoCallInFlight /\ call'[c].op = "read_items"
          /\ \A d \in Callers \ {c} : call'[d] = call[d]
          /\ UNCHANGED <<header, items, recorded>>
        BY <1>4 DEF GetHeader, TypeOK
    <2>2. Progress(c)' /\ VerdictHolds'
        BY <1>0, <2>1 DEF Progress, VerdictHolds, AnsweredPresent, Present
    <2>3. QED
        BY <1>2, <2>1, <2>2
<1>5. ASSUME NEW c \in Callers, GetItems(c)
      PROVE  Goal
    <2> DEFINE k == call[c].code
               r == call[c].result
    <2>1. /\ call[c].op = "read_items" /\ call'[c].op = "update"
          /\ call'[c].code = k /\ call'[c].list = WithItem(items, k, r)
          /\ \A d \in Callers \ {c} : call'[d] = call[d]
          /\ UNCHANGED <<header, items, recorded>>
        BY <1>5 DEF GetItems, TypeOK
    <2>2. k \in Codes /\ r \in Results
        BY <2>1, CallTypes DEF TypeOK, Idle
    <2>3. Present(WithItem(items, k, r)) = Present(items) \cup {k}
        BY <2>2 DEF WithItem, Present, TypeOK, Checklists, Results, Missing
    <2>4. Progress(c)' /\ VerdictHolds'
        BY <1>0, <2>1, <2>3 DEF Progress, VerdictHolds, Present
    <2>5. QED
        BY <1>2, <2>1, <2>4 DEF Idle
<1>6. ASSUME NEW c \in Callers, UpdateHeader(c)
      PROVE  Goal
    <2>1. /\ call[c].op = "update" /\ call'[c].op = "delete"
          /\ call'[c].code = call[c].code /\ call'[c].list = call[c].list
          /\ \A d \in Callers \ {c} : call'[d] = call[d]
          /\ UNCHANGED <<items, recorded>>
        BY <1>6 DEF UpdateHeader, TypeOK
    <2>2. header' = header /\ IsDraft(header)
        BY <1>6, HeaderWritten
    <2>3. Progress(c)' /\ VerdictHolds'
        BY <1>0, <2>1, <2>2 DEF Progress, VerdictHolds, Present, IsDraft
    <2>4. QED
        BY <1>2, <2>1, <2>3 DEF Idle
<1>7. ASSUME NEW c \in Callers, DeleteItems(c)
      PROVE  Goal
    <2>1. /\ call[c].op = "delete" /\ call'[c].op = "insert"
          /\ call'[c].code = call[c].code /\ call'[c].list = call[c].list
          /\ \A d \in Callers \ {c} : call'[d] = call[d]
          /\ items' = NoItems /\ UNCHANGED <<header, recorded>>
        BY <1>7, ItemsAfter DEF DeleteItems, TypeOK
    <2>2. Present(items)' = {} /\ Present(call[c].list)' = Present(call[c].list)
        BY <2>1 DEF Present, NoItems
    <2>3. IsDraft(header)
        BY <1>0, <2>1 DEF Progress
    <2>4. VerdictHolds'
        BY <2>1, <2>3 DEF VerdictHolds, IsDraft
    <2>5. Progress(c)'
        BY <1>0, <2>1, <2>2, <2>3 DEF Progress
    <2>6. QED
        BY <1>2, <2>1, <2>4, <2>5 DEF Idle
<1>8. ASSUME NEW c \in Callers, InsertItem(c)
      PROVE  Goal
    <2>1. PICK k \in Present(call[c].list) :
             /\ items[k] = Missing
             /\ items' = [items EXCEPT ![k] = call[c].list[k]]
             /\ call' = [call EXCEPT ![c] =
                           [op |-> "insert", code |-> call[c].code,
                            list |-> [call[c].list EXCEPT ![k] = Missing]]]
        BY <1>8, ItemsAfter
    <2>2. /\ call[c].op = "insert" /\ call'[c].op = "insert"
          /\ call'[c].code = call[c].code
          /\ call'[c].list = [call[c].list EXCEPT ![k] = Missing]
          /\ \A d \in Callers \ {c} : call'[d] = call[d]
          /\ UNCHANGED <<header, recorded>>
        BY <1>8, <2>1 DEF InsertItem, TypeOK
    <2>3. k \in Codes /\ call[c].list \in Checklists /\ call[c].list[k] # Missing
        BY <2>1, <2>2, CallTypes DEF TypeOK, Present
    <2>4. /\ Present(call'[c].list) = Present(call[c].list) \ {k}
          /\ Present(items') = Present(items) \cup {k}
        BY <2>1, <2>2, <2>3 DEF Present, TypeOK, Checklists
    <2>5. IsDraft(header)
        BY <1>0, <2>2 DEF Progress
    <2>6. VerdictHolds'
        BY <2>2, <2>5 DEF VerdictHolds, IsDraft
    <2>7. Progress(c)'
        BY <1>0, <2>2, <2>4, <2>5 DEF Progress
    <2>8. QED
        BY <1>2, <2>2, <2>6, <2>7 DEF Idle
<1>9. ASSUME NEW c \in Callers, Answer(c)
      PROVE  Goal
    <2>1. /\ call[c].op = "insert" /\ call'[c] = Idle
          /\ \A d \in Callers \ {c} : call'[d] = call[d]
          /\ Present(call[c].list) = {}
          /\ recorded' = recorded \cup {call[c].code}
          /\ UNCHANGED <<header, items>>
        BY <1>9 DEF Answer, TypeOK
    <2>2. recorded' \subseteq Present(items)' /\ VerdictHolds'
        BY <1>0, <2>1 DEF Progress, VerdictHolds, Present
    <2>3. QED
        BY <1>3, <2>1, <2>2 DEF Idle
<1>10. ASSUME NEW c \in Callers, EndWithError(c)
      PROVE  Goal
    <2>1. /\ Refused(c) /\ call'[c] = Idle
          /\ \A d \in Callers \ {c} : call'[d] = call[d]
          /\ UNCHANGED <<header, items, recorded>>
        BY <1>10 DEF EndWithError, TypeOK
    <2>2. call[c].op \in {"read_items", "update"}
        <3>1. ASSUME call[c].op = "insert", Present(call[c].list) # {}
              PROVE  items[FirstOf(call[c].list)] = Missing
            <4>1. call[c].list \in Checklists
                BY <3>1, CallTypes DEF TypeOK
            <4>2. FirstOf(call[c].list) \in Present(call[c].list)
                BY <3>1, <4>1, FirstIsPresent
            <4>3. Present(call[c].list) \cap Present(items) = {}
                BY <1>0, <3>1 DEF Progress
            <4>4. QED
                BY <4>2, <4>3 DEF Present
        <3>2. QED
            BY <2>1, <3>1 DEF Refused
    <2>3. recorded' \subseteq Present(items)' /\ VerdictHolds'
        BY <1>0, <2>1, <2>2 DEF Progress, VerdictHolds, Present
    <2>4. QED
        BY <1>3, <2>1, <2>2, <2>3 DEF Idle
<1>11. ASSUME NEW c \in Callers, Submit(c)
      PROVE  Goal
    <2>1. /\ NoCallInFlight /\ Present(items) = Codes
          /\ header'.status = IF "fail" \in Range(items) THEN "failed" ELSE "passed"
          /\ UNCHANGED <<items, call, recorded>>
        BY <1>11 DEF Submit, Submittable
    <2>2. \A k \in Codes : items[k] \in Results /\ items[k] \in Range(items)
        BY <2>1 DEF Present, TypeOK, Checklists, Range
    <2>3. VerdictHolds'
        BY <2>1, <2>2 DEF VerdictHolds, Results, Present
    <2>4. \A d \in Callers : call'[d] = Idle
        BY <2>1 DEF NoCallInFlight
    <2>5. OneInFlight' /\ AnsweredPresent' /\ \A d \in Callers : Progress(d)'
        BY <1>0, <2>1, <2>4 DEF OneInFlight, AnsweredPresent, Progress, Idle,
                                NoCallInFlight, Present
    <2>6. QED
        BY <2>3, <2>5
<1>12. CASE UNCHANGED vars
    BY <1>0, <1>12 DEF vars, OneInFlight, AnsweredPresent, NoCallInFlight,
                       Progress, VerdictHolds, Present
<1>13. QED
    BY <1>4, <1>5, <1>6, <1>7, <1>8, <1>9, <1>10, <1>11, <1>12 DEF Next

\* The invariant of the checklist holds throughout.
LEMMA ChecklistInvariant == Spec => []ChecklistInv
<1>1. Init => ChecklistInv
    BY DEF Init, ChecklistInv, OneInFlight, AnsweredPresent, Progress,
           VerdictHolds, Idle
<1>2. QED
    BY <1>1, VersionInvariant, ChecklistStep, PTL DEF Spec

\* An item whose Record was answered with success is in the checklist, although
\* each Record deletes and reinserts all items, as long as none is disturbed.
THEOREM AnsweredItemsKept == Spec => []RecordedKept
<1>1. ChecklistInv => RecordedKept
    BY DEF ChecklistInv, RecordedKept
<1>2. QED
    BY <1>1, ChecklistInvariant, PTL

\* The verdict of a submitted inspection is the one that its items give, as
\* long as no Record is disturbed.
THEOREM VerdictsMatch == Spec => []VerdictMatchesItems
<1>1. ChecklistInv => VerdictMatchesItems
    BY DEF ChecklistInv, VerdictMatchesItems
<1>2. QED
    BY <1>1, ChecklistInvariant, PTL

=============================================================================
