--------------------------------- MODULE Crew ---------------------------------
(***************************************************************************)
(* One driver with certifications (src/internal/service/crew,               *)
(* src/internal/domain/crew, src/internal/storage/sqlite/drivers.go).  None *)
(* of the crew operations uses a transaction: GetDriver is two SELECTs, and *)
(* SaveDriver updates the header under the version read, deletes the        *)
(* certifications and inserts them one by one.  The fitness of  *)
(* a driver that a trip starts with (CanOperate) is read from these rows.   *)
(***************************************************************************)
EXTENDS Integers, FiniteSetsExt, Functions

CONSTANTS
    Codes,          \* certification codes; numbers, in the order of the codes
    Offered,        \* BOUND: certifications clients send: [type, until]
    Callers,
    LicenseEnd,     \* license_expires_at
    LastMoment,     \* BOUND: the clock stops here
    LastVersion,    \* BOUND: no update beyond this version
    None

ASSUME CodesAreNumbers == Codes \subseteq Nat
ASSUME OfferedExpire == \A cert \in Offered : cert.until \in Nat
ASSUME NoneIsNoCertification == None \notin Offered
ASSUME MomentsAreNat == {LicenseEnd, LastMoment} \subseteq Nat
ASSUME VersionsStartAtOne == LastVersion \in Nat \ {0}
ASSUME CallersAreFinite == IsFiniteSet(Callers)

VARIABLES
    driver,     \* the row of drivers: [status, version]
    certs,      \* driver_certifications: UNIQUE(driver_id, code)
    call,       \* each request, between two statements
    now,
    audited,    \* how many changes the audit trail tells of
    agreed,     \* history: the certifications as the updates, in the order of
                \* their versions, set them
    torn        \* history: a driver was read while its certifications were
                \* being rewritten, or a rewriting was broken off

vars == <<driver, certs, call, now, audited, agreed, torn>>

-----------------------------------------------------------------------------
CertLists == [Codes -> Offered \cup {None}]
NoCerts == [k \in Codes |-> None]
Held(list) == {k \in Codes : list[k] # None}

Drivers == [status : {"active", "suspended"}, version : 1..LastVersion]
Requests == [action : {"suspend", "reactivate"}]
            \cup [action : {"certify"}, code : Codes, cert : Offered]

Idle == [op |-> "idle"]
Calls ==
    {Idle}
    \cup [op : {"read_certs"}, request : Requests, seen : Drivers]
    \cup [op : {"update"}, request : Requests, seen : Drivers, list : CertLists]
    \cup [op : {"delete", "insert"}, request : Requests, list : CertLists]
    \cup [op : {"audit"}, request : Requests]

\* Between the update of the header and the last insert.
Rewriting(c) == call[c].op \in {"delete", "insert"}
NoneRewriting == \A c \in Callers : ~Rewriting(c)

\* Service.Create inserts the header of a driver that has no certifications yet.
Init ==
    /\ driver = [status |-> "active", version |-> 1]
    /\ certs = NoCerts
    /\ call = [c \in Callers |-> Idle]
    /\ now = 0
    /\ audited = 0
    /\ agreed = NoCerts
    /\ torn = FALSE

Tick ==
    /\ now < LastMoment
    /\ now' = now + 1
    /\ UNCHANGED <<driver, certs, call, audited, agreed, torn>>

-----------------------------------------------------------------------------
(* domain/crew/driver.go                                                    *)

\* Driver.Suspend, Reactivate and AddCertification: may the row change so?
Accepts(request, row) ==
    CASE request.action = "suspend" -> row.status = "active"
      [] request.action = "reactivate" ->
            row.status = "suspended" /\ now < LicenseEnd
      [] request.action = "certify" -> now < request.cert.until

\* Mutated form: the action's name stored for the status.
StatusAfterNamed(request, row) ==
    IF request.action = "certify" THEN row.status ELSE request.action
StatusAfter(request, row) ==
    CASE request.action = "suspend" -> "suspended"
      [] request.action = "reactivate" -> "active"
      [] request.action = "certify" -> row.status

\* Mutated form: the other certifications forgotten.
ListAfterAlone(request, list) ==
    IF request.action = "certify"
    THEN [NoCerts EXCEPT ![request.code] = request.cert] ELSE list
\* A certification replaces the one of the same code.
ListAfter(request, list) ==
    IF request.action = "certify"
    THEN [list EXCEPT ![request.code] = request.cert] ELSE list

-----------------------------------------------------------------------------
(* AddCertification, Suspend and Reactivate, statement by statement         *)

GetDriver(c, request) ==
    /\ call[c] = Idle
    /\ call' = [call EXCEPT ![c] = [op |-> "read_certs", request |-> request,
                                    seen |-> driver]]
    /\ torn' = (torn \/ ~NoneRewriting)
    /\ UNCHANGED <<driver, certs, now, audited, agreed>>

LoadCertifications(c) ==
    /\ call[c].op = "read_certs"
    /\ LET request == call[c].request
       IN  /\ Accepts(request, call[c].seen)
           /\ call' = [call EXCEPT ![c] =
                         [op |-> "update", request |-> request,
                          seen |-> call[c].seen,
                          list |-> ListAfter(request, certs)]]
    /\ UNCHANGED <<driver, certs, now, audited, agreed, torn>>

\* Mutated form: UPDATE ... WHERE id = ? without the version.
SameVersionIgnored(seen) == TRUE
\* UPDATE ... WHERE id = ? AND version = ?
SameVersion(seen) == seen.version = driver.version

UpdateDriver(c) ==
    /\ call[c].op = "update"
    /\ SameVersion(call[c].seen)
    /\ call[c].seen.version < LastVersion
    /\ LET request == call[c].request
       IN  /\ driver' = [status |-> StatusAfter(request, call[c].seen),
                         version |-> call[c].seen.version + 1]
           /\ agreed' = ListAfter(request, agreed)
           /\ call' = [call EXCEPT ![c] = [op |-> "delete", request |-> request,
                                           list |-> call[c].list]]
    /\ UNCHANGED <<certs, now, audited, torn>>

DeleteCertifications(c) ==
    /\ call[c].op = "delete"
    /\ certs' = NoCerts
    /\ call' = [call EXCEPT ![c].op = "insert"]
    /\ UNCHANGED <<driver, now, audited, agreed, torn>>

\* In the order of the codes.
InsertCertification(c) ==
    /\ call[c].op = "insert"
    /\ \E k \in Held(call[c].list) :
          /\ \A j \in Held(call[c].list) : k <= j
          /\ certs[k] = None
          /\ certs' = [certs EXCEPT ![k] = call[c].list[k]]
          /\ call' = [call EXCEPT ![c].list[k] = None]
    /\ UNCHANGED <<driver, now, audited, agreed, torn>>

\* SaveDriver has returned.
Saved(c) ==
    /\ call[c].op = "insert"
    /\ Held(call[c].list) = {}
    /\ call' = [call EXCEPT ![c] = [op |-> "audit",
                                    request |-> call[c].request]]
    /\ UNCHANGED <<driver, certs, now, audited, agreed, torn>>

AppendAudit(c) ==
    /\ call[c].op = "audit"
    /\ audited' = audited + 1
    /\ call' = [call EXCEPT ![c] = Idle]
    /\ UNCHANGED <<driver, certs, now, agreed, torn>>

\* A guard, the version or UNIQUE(driver_id, code) refuses the statement, the
\* request's time is over or the process is restarted.
EndWithError(c) ==
    /\ call[c] # Idle
    /\ call' = [call EXCEPT ![c] = Idle]
    /\ torn' = (torn \/ Rewriting(c))
    /\ UNCHANGED <<driver, certs, now, audited, agreed>>

-----------------------------------------------------------------------------
Next ==
    \/ Tick
    \/ \E c \in Callers, request \in Requests : GetDriver(c, request)
    \/ \E c \in Callers : \/ LoadCertifications(c)
                          \/ UpdateDriver(c)
                          \/ DeleteCertifications(c)
                          \/ InsertCertification(c)
                          \/ Saved(c)
                          \/ AppendAudit(c)
                          \/ EndWithError(c)

Spec == Init /\ [][Next]_vars

-----------------------------------------------------------------------------
TypeOK ==
    /\ driver \in Drivers
    /\ certs \in CertLists
    /\ call \in [Callers -> Calls]
    /\ now \in 0..LastMoment
    /\ audited \in Nat
    /\ agreed \in CertLists
    /\ torn \in BOOLEAN

\* The code whose certification a rewriting of c replaces, if it does.
Renewed(c) ==
    IF call[c].request.action = "certify" THEN {call[c].request.code} ELSE {}

\* Although every SaveDriver deletes and reinserts the whole list, one statement
\* at a time, the version keeps the list whole: certifications are those of the
\* updates in the order of their versions, and only the one rewriting under way
\* may have some missing.  The exception is the window that the version does
\* not guard: a header read between the update and the last insert, or a
\* request that ends there.
CertificationsKept ==
    ~torn =>
        /\ \A c, d \in Callers : Rewriting(c) /\ Rewriting(d) => c = d
        /\ NoneRewriting => certs = agreed
        /\ \A c \in Callers :
              /\ call[c].op = "delete" =>
                    \A k \in Codes \ Renewed(c) : certs[k] = agreed[k]
              /\ call[c].op = "insert" =>
                    \A k \in Codes : certs[k] \in {None, agreed[k]}

\* Whatever races, only Suspend and Reactivate change the status, each from
\* the status it has read: a certification added to the driver as it was
\* before never lifts a suspension.
SuspensionStands ==
    [][driver'.status # driver.status =>
          \E c \in Callers :
             /\ call[c].op = "update" /\ call'[c].op = "delete"
             /\ call[c].request.action # "certify"
             /\ call[c].seen = driver]_vars

\* Every row of the audit trail tells of a change of its own: no two requests
\* are both told that they made the change to one version.
ChangesAuditedOnce ==
    audited + Cardinality({c \in Callers : call[c].op \in
                              {"delete", "insert", "audit"}})
        <= driver.version - 1

=============================================================================
