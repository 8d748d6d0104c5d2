---------------------------- MODULE InspectionItems ----------------------------
(***************************************************************************)
(* The checklist of one inspection (src/internal/service/inspection,        *)
(* src/internal/storage/sqlite/inspections.go).  Submit is a transaction;   *)
(* Record is not: it reads the header, reads the items, updates the header  *)
(* under the version it read, deletes all items and inserts them one by     *)
(* one, and every one of these statements commits on its own.               *)
(*                                                                          *)
(* The header here is the row module Operations keeps per inspection; there *)
(* the checklist is abstracted to the outcome of Submit.                    *)
(***************************************************************************)
EXTENDS Integers, FiniteSetsExt, Functions

CONSTANTS
    Codes,      \* the required items; numbers, in the order of their names
    Callers,
    Crashes     \* may a request stop between two statements?

ASSUME CodesAreNumbers == Codes \subseteq Nat
ASSUME CrashesIsBoolean == Crashes \in BOOLEAN

\* "pass" stands for pass and not_applicable, which Submit counts alike.
Results == {"pass", "fail"}
Missing == "missing"

VARIABLES
    header,     \* [status, version] of the inspection
    items,      \* inspection_items: UNIQUE(inspection_id, item_code)
    call,       \* each caller's Record, between two statements
    recorded,   \* codes some Record was answered for with success
    disturbed   \* history: something else came between two statements of a
                \* Record, or a Record stopped there

vars == <<header, items, call, recorded, disturbed>>

-----------------------------------------------------------------------------
Checklists == [Codes -> Results \cup {Missing}]
NoItems == [k \in Codes |-> Missing]
Present(list) == {k \in Codes : list[k] # Missing}

Headers == [status : {"draft", "passed", "failed"}, version : {1, 2}]

Idle == [op |-> "idle"]
Calls ==
    {Idle}
    \cup [op : {"read_items"}, code : Codes, result : Results, seen : Headers]
    \cup [op : {"update"}, code : Codes, list : Checklists, seen : Headers]
    \cup [op : {"delete", "insert"}, code : Codes, list : Checklists]

Init ==
    /\ header = [status |-> "draft", version |-> 1]
    /\ items = NoItems
    /\ call = [c \in Callers |-> Idle]
    /\ recorded = {}
    /\ disturbed = FALSE

NoCallInFlight == \A c \in Callers : call[c] = Idle

-----------------------------------------------------------------------------
(* Service.Record, statement by statement                                   *)

GetHeader(c, k, r) ==
    /\ call[c] = Idle
    /\ call' = [call EXCEPT ![c] = [op |-> "read_items", code |-> k,
                                    result |-> r, seen |-> header]]
    /\ disturbed' = (disturbed \/ ~NoCallInFlight)
    /\ UNCHANGED <<header, items, recorded>>

\* Mutated form: the other items forgotten.
WithItemOnly(list, k, r) == [NoItems EXCEPT ![k] = r]
\* Inspection.Record: replace the item of that code or add it.
WithItem(list, k, r) == [list EXCEPT ![k] = r]

\* The items are read by a second statement; then the domain's Record accepts
\* the item if the header read was a draft.
GetItems(c) ==
    /\ call[c].op = "read_items"
    /\ call[c].seen.status = "draft"
    /\ call' = [call EXCEPT ![c] =
                  [op |-> "update", code |-> call[c].code,
                   list |-> WithItem(items, call[c].code, call[c].result),
                   seen |-> call[c].seen]]
    /\ UNCHANGED <<header, items, recorded, disturbed>>

\* Mutated form: UPDATE ... WHERE id = ? without the version.
SameVersionIgnored(seen) == TRUE
\* UPDATE ... WHERE id = ? AND version = ?
SameVersion(seen) == seen.version = header.version

\* Record does not move the version, so the same version matches again.
UpdateHeader(c) ==
    /\ call[c].op = "update"
    /\ SameVersion(call[c].seen)
    /\ header' = call[c].seen
    /\ call' = [call EXCEPT ![c] = [op |-> "delete", code |-> call[c].code,
                                    list |-> call[c].list]]
    /\ UNCHANGED <<items, recorded, disturbed>>

DeleteItems(c) ==
    /\ call[c].op = "delete"
    /\ items' = NoItems
    /\ call' = [call EXCEPT ![c].op = "insert"]
    /\ UNCHANGED <<header, recorded, disturbed>>

FirstOf(list) == Min(Present(list))

InsertItem(c) ==
    /\ call[c].op = "insert"
    /\ Present(call[c].list) # {}
    /\ LET k == FirstOf(call[c].list)
       IN  /\ items[k] = Missing
           /\ items' = [items EXCEPT ![k] = call[c].list[k]]
           /\ call' = [call EXCEPT ![c].list[k] = Missing]
    /\ UNCHANGED <<header, recorded, disturbed>>

Answer(c) ==
    /\ call[c].op = "insert"
    /\ Present(call[c].list) = {}
    /\ recorded' = recorded \cup {call[c].code}
    /\ call' = [call EXCEPT ![c] = Idle]
    /\ UNCHANGED <<header, items, disturbed>>

-----------------------------------------------------------------------------
(* The call ends with an error                                              *)

\* The inspection was submitted already, the version moved, or the item is
\* there again because another Record inserted it.
Refused(c) ==
    \/ call[c].op = "read_items" /\ call[c].seen.status # "draft"
    \/ call[c].op = "update" /\ ~SameVersion(call[c].seen)
    \/ /\ call[c].op = "insert"
       /\ Present(call[c].list) # {}
       /\ items[FirstOf(call[c].list)] # Missing

\* A timeout of the request or a restart of the process.
Interrupted(c) == Crashes /\ call[c] # Idle

EndWithError(c) ==
    /\ Refused(c) \/ Interrupted(c)
    /\ call' = [call EXCEPT ![c] = Idle]
    /\ disturbed' = (disturbed \/ ~Refused(c))
    /\ UNCHANGED <<header, items, recorded>>

-----------------------------------------------------------------------------
\* Mutated forms: submitted whatever is missing, submitted again.
SubmittableAnyway == header.status = "draft"
SubmittableTwice == Present(items) = Codes
Submittable == header.status = "draft" /\ Present(items) = Codes

\* Service.Submit: one transaction, which rewrites the items as they are.
Submit(c) ==
    /\ call[c] = Idle
    /\ Submittable
    /\ header' = [status |-> IF "fail" \in Range(items) THEN "failed"
                             ELSE "passed",
                  version |-> header.version + 1]
    /\ disturbed' = (disturbed \/ ~NoCallInFlight)
    /\ UNCHANGED <<items, call, recorded>>

Next ==
    \/ \E c \in Callers, k \in Codes, r \in Results : GetHeader(c, k, r)
    \/ \E c \in Callers : \/ GetItems(c)
                          \/ UpdateHeader(c)
                          \/ DeleteItems(c)
                          \/ InsertItem(c)
                          \/ Answer(c)
                          \/ EndWithError(c)
                          \/ Submit(c)

Spec == Init /\ [][Next]_vars

-----------------------------------------------------------------------------
TypeOK ==
    /\ header \in Headers
    /\ items \in Checklists
    /\ call \in [Callers -> Calls]
    /\ recorded \subseteq Codes
    /\ disturbed \in BOOLEAN

\* However Records race with Submit, the header of a submitted inspection is
\* final: a Record that read the draft cannot make it a draft again.
HeaderFinal ==
    [][header.status # "draft" => header' = header]_header

AnsweredPresent == NoCallInFlight => recorded \subseteq Present(items)

\* Rewriting the whole list for each item loses none: what was answered for
\* with success is in the checklist once nothing is in flight, as long as no
\* Record was disturbed.
RecordedKept == ~disturbed => AnsweredPresent

VerdictHolds ==
    /\ header.status = "passed" => \A k \in Codes : items[k] = "pass"
    /\ header.status = "failed" =>
          /\ Present(items) = Codes
          /\ "fail" \in Range(items)

\* A submitted inspection keeps the checklist its verdict was given for, as
\* long as no Record was disturbed: no later Record gets past the header.
VerdictMatchesItems == ~disturbed => VerdictHolds

\* What the two promise without the condition ("versions, and timestamps
\* protect relationships and concurrent updates", README.md:20).  Two Records
\* at once, or a Record during Submit, break it: see the README.
ChecklistProtected == AnsweredPresent /\ (NoCallInFlight => VerdictHolds)

=============================================================================
