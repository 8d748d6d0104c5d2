------------------------------ MODULE CrewProofs ------------------------------
(***************************************************************************)
(* What the versions of the drivers table protect, for any number of        *)
(* requests, codes and certifications: the status of a driver, the list of  *)
(* certifications while it is rewritten statement by statement, and the     *)
(* audit trail.                                                             *)
(***************************************************************************)
EXTENDS Crew, FiniteSetTheorems, TLAPS

\* What a request remembers between two statements.
LEMMA CallTypes ==
    ASSUME call \in [Callers -> Calls], NEW c \in Callers
    PROVE  /\ call[c].op \in {"idle", "read_certs", "update", "delete",
                              "insert", "audit"}
           /\ call[c].op = "idle" <=> call[c] = Idle
           /\ call[c].op # "idle" => call[c].request \in Requests
           /\ call[c].op \in {"read_certs", "update"} =>
                 call[c].seen \in Drivers
           /\ call[c].op = "update" => call[c] = 
                 [op |-> "update", request |-> call[c].request,
                  seen |-> call[c].seen, list |-> call[c].list]
           /\ call[c].op = "delete" => call[c] =
                 [op |-> "delete", request |-> call[c].request,
                  list |-> call[c].list]
           /\ call[c].op = "insert" => call[c] =
                 [op |-> "insert", request |-> call[c].request,
                  list |-> call[c].list]
           /\ call[c].op \in {"update", "delete", "insert"} =>
                 call[c].list \in CertLists
<1>1. call[c] \in Calls
    OBVIOUS
<1>2. QED
    BY <1>1 DEF Calls, Idle

\* AddCertification, Suspend and Reactivate make lists and rows of their type.
LEMMA RequestTypes ==
    ASSUME NEW request \in Requests
    PROVE  /\ \A list \in CertLists : ListAfter(request, list) \in CertLists
           /\ \A row \in Drivers :
                 StatusAfter(request, row) \in {"active", "suspended"}
<1>1. \A list \in CertLists : ListAfter(request, list) \in CertLists
    BY DEF ListAfter, CertLists, Requests
<1>2. \A row \in Drivers : StatusAfter(request, row) \in {"active", "suspended"}
    BY DEF StatusAfter, Requests, Drivers
<1>3. QED
    BY <1>1, <1>2

\* The two updates in place of what a request remembers.
LEMMA RowsRewritten ==
    ASSUME NEW request, NEW list, NEW k
    PROVE  LET deleting == [op |-> "delete", request |-> request, list |-> list]
               inserting == [op |-> "insert", request |-> request, list |-> list]
           IN  /\ [deleting EXCEPT !.op = "insert"] = inserting
               /\ [inserting EXCEPT !.list[k] = None] =
                     [op |-> "insert", request |-> request,
                      list |-> [list EXCEPT ![k] = None]]
OBVIOUS

\* The calls that each step leaves in flight have their type.
THEOREM TypeCorrect == Spec => []TypeOK
<1>1. Init => TypeOK
    <2> SUFFICES ASSUME Init PROVE TypeOK
        OBVIOUS
    <2>1. driver \in Drivers
        BY VersionsStartAtOne DEF Init, Drivers
    <2>2. NoCerts \in CertLists
        BY DEF NoCerts, CertLists
    <2>3. call \in [Callers -> Calls]
        BY DEF Init, Calls
    <2>4. now \in 0..LastMoment
        BY MomentsAreNat DEF Init
    <2>5. QED
        BY <2>1, <2>2, <2>3, <2>4 DEF Init, TypeOK
<1>2. TypeOK /\ [Next]_vars => TypeOK'
    <2> SUFFICES ASSUME TypeOK, [Next]_vars PROVE TypeOK'
        OBVIOUS
    <2> USE DEF TypeOK
    <2>1. CASE Tick
        BY <2>1, MomentsAreNat DEF Tick
    <2>2. ASSUME NEW c \in Callers, NEW request \in Requests,
                 GetDriver(c, request)
          PROVE  TypeOK'
        BY <2>2 DEF GetDriver, Calls
    <2>3. ASSUME NEW c \in Callers, LoadCertifications(c)
          PROVE  TypeOK'
        <3> DEFINE request == call[c].request
        <3>1. /\ request \in Requests /\ call[c].seen \in Drivers
              /\ ListAfter(request, certs) \in CertLists
            BY <2>3, CallTypes, RequestTypes DEF LoadCertifications
        <3>2. QED
            BY <2>3, <3>1 DEF LoadCertifications, Calls
    <2>4. ASSUME NEW c \in Callers, UpdateDriver(c)
          PROVE  TypeOK'
        <3> DEFINE request == call[c].request
        <3>1. /\ request \in Requests /\ call[c].seen \in Drivers
              /\ call[c].list \in CertLists
              /\ StatusAfter(request, call[c].seen) \in {"active", "suspended"}
              /\ ListAfter(request, agreed) \in CertLists
            BY <2>4, CallTypes, RequestTypes DEF UpdateDriver
        <3>2. call[c].seen.version + 1 \in 1..LastVersion
            BY <2>4, <3>1, VersionsStartAtOne DEF UpdateDriver, Drivers
        <3>3. driver' \in Drivers
            BY <2>4, <3>1, <3>2 DEF UpdateDriver, Drivers
        <3>4. call' \in [Callers -> Calls]
            BY <2>4, <3>1 DEF UpdateDriver, Calls
        <3>5. QED
            BY <2>4, <3>1, <3>3, <3>4 DEF UpdateDriver
    <2>5. ASSUME NEW c \in Callers, DeleteCertifications(c)
          PROVE  TypeOK'
        <3>1. /\ call[c].request \in Requests /\ call[c].list \in CertLists
              /\ call[c] = [op |-> "delete", request |-> call[c].request,
                            list |-> call[c].list]
            BY <2>5, CallTypes DEF DeleteCertifications
        <3>2. call' = [call EXCEPT ![c] =
                         [op |-> "insert", request |-> call[c].request,
                          list |-> call[c].list]]
            BY <2>5, <3>1, RowsRewritten DEF DeleteCertifications
        <3>3. call' \in [Callers -> Calls]
            BY <3>1, <3>2 DEF Calls
        <3>4. QED
            BY <2>5, <3>3 DEF DeleteCertifications, NoCerts, CertLists
    <2>6. ASSUME NEW c \in Callers, InsertCertification(c)
          PROVE  TypeOK'
        <3>1. PICK k \in Held(call[c].list) :
                 /\ certs' = [certs EXCEPT ![k] = call[c].list[k]]
                 /\ call' = [call EXCEPT ![c].list[k] = None]
            BY <2>6 DEF InsertCertification
        <3>2. /\ call[c].request \in Requests /\ call[c].list \in CertLists
              /\ call[c] = [op |-> "insert", request |-> call[c].request,
                            list |-> call[c].list]
              /\ k \in Codes
            BY <2>6, CallTypes DEF InsertCertification, Held
        <3> DEFINE after == [op |-> "insert", request |-> call[c].request,
                             list |-> [call[c].list EXCEPT ![k] = None]]
        <3>3. call' = [call EXCEPT ![c] = after]
            <4>1. [call[c] EXCEPT !.list[k] = None] = after
                BY <3>2, RowsRewritten
            <4>2. call' = [call EXCEPT ![c] = [call[c] EXCEPT !.list[k] = None]]
                BY <3>1
            <4> HIDE DEF after
            <4>3. QED
                BY <4>1, <4>2
        <3>4. /\ [call[c].list EXCEPT ![k] = None] \in CertLists
              /\ certs' \in CertLists
            BY <3>1, <3>2 DEF CertLists
        <3>5. call' \in [Callers -> Calls]
            BY <3>2, <3>3, <3>4 DEF Calls
        <3>6. QED
            BY <2>6, <3>4, <3>5 DEF InsertCertification
    <2>7. ASSUME NEW c \in Callers, Saved(c)
          PROVE  TypeOK'
        <3>1. call[c].request \in Requests
            BY <2>7, CallTypes DEF Saved
        <3>2. QED
            BY <2>7, <3>1 DEF Saved, Calls
    <2>8. ASSUME NEW c \in Callers, AppendAudit(c)
          PROVE  TypeOK'
        BY <2>8 DEF AppendAudit, Calls
    <2>9. ASSUME NEW c \in Callers, EndWithError(c)
          PROVE  TypeOK'
        BY <2>9 DEF EndWithError, Calls, Rewriting
    <2>10. CASE UNCHANGED vars
        BY <2>10 DEF vars
    <2>11. QED
        BY <2>1, <2>2, <2>3, <2>4, <2>5, <2>6, <2>7, <2>8, <2>9, <2>10 DEF Next
<1>3. QED
    BY <1>1, <1>2, PTL DEF Spec

-----------------------------------------------------------------------------
(* The inductive invariant behind CertificationsKept and SuspensionStands   *)

\* A header read is the stored header while the version has not moved.
SeenCurrent ==
    \A c \in Callers : call[c].op \in {"read_certs", "update"} =>
        /\ call[c].seen.version <= driver.version
        /\ call[c].seen.version = driver.version => call[c].seen = driver

\* A request that the version will let through has found the list at rest and
\* computed the new one from it.
UpdatersReady ==
    \A c \in Callers :
        /\ call[c].op \in {"read_certs", "update"}
        /\ call[c].seen.version = driver.version
        => /\ NoneRewriting
           /\ call[c].op = "update" =>
                 call[c].list = ListAfter(call[c].request, agreed)

\* How far the one rewriting has come: what it has still to insert is missing,
\* the rest is as agreed.
Progress(c) ==
    /\ call[c].op = "delete" =>
          /\ call[c].list = agreed
          /\ \A k \in Codes \ Renewed(c) : certs[k] = agreed[k]
    /\ call[c].op = "insert" =>
          \A k \in Codes :
             IF call[c].list[k] = None THEN certs[k] = agreed[k]
             ELSE certs[k] = None /\ call[c].list[k] = agreed[k]

OneRewriting == \A c, d \in Callers : Rewriting(c) /\ Rewriting(d) => c = d

KeptInv ==
    ~torn => /\ UpdatersReady
             /\ OneRewriting
             /\ NoneRewriting => certs = agreed
             /\ \A c \in Callers : Progress(c)

\* Every write moves the version of the header.
LEMMA SeenStep == TypeOK /\ SeenCurrent /\ [Next]_vars => SeenCurrent'
<1> SUFFICES ASSUME TypeOK, SeenCurrent, [Next]_vars PROVE SeenCurrent'
    OBVIOUS
<1> USE DEF TypeOK, SeenCurrent
<1>1. CASE Tick
    BY <1>1 DEF Tick
<1>2. ASSUME NEW c \in Callers, NEW request \in Requests, GetDriver(c, request)
      PROVE  SeenCurrent'
    BY <1>2 DEF GetDriver, Drivers
<1>3. ASSUME NEW c \in Callers, LoadCertifications(c)
      PROVE  SeenCurrent'
    BY <1>3 DEF LoadCertifications
<1>4. ASSUME NEW c \in Callers, UpdateDriver(c)
      PROVE  SeenCurrent'
    <2>1. /\ driver.version \in Nat
          /\ driver'.version = driver.version + 1
          /\ \A d \in Callers : d # c => call'[d] = call[d]
          /\ call'[c].op = "delete"
        BY <1>4 DEF UpdateDriver, SameVersion, Drivers
    <2>2. ASSUME NEW d \in Callers, call'[d].op \in {"read_certs", "update"}
          PROVE  call'[d].seen.version <= driver.version
                 /\ call'[d].seen.version \in Nat
        BY <2>1, <2>2, CallTypes DEF Drivers
    <2>3. QED
        BY <2>1, <2>2
<1>5. ASSUME NEW c \in Callers, DeleteCertifications(c)
      PROVE  SeenCurrent'
    BY <1>5, CallTypes DEF DeleteCertifications
<1>6. ASSUME NEW c \in Callers, InsertCertification(c)
      PROVE  SeenCurrent'
    BY <1>6, CallTypes DEF InsertCertification
<1>7. ASSUME NEW c \in Callers, Saved(c)
      PROVE  SeenCurrent'
    BY <1>7 DEF Saved
<1>8. ASSUME NEW c \in Callers, AppendAudit(c)
      PROVE  SeenCurrent'
    BY <1>8 DEF AppendAudit, Idle
<1>9. ASSUME NEW c \in Callers, EndWithError(c)
      PROVE  SeenCurrent'
    BY <1>9 DEF EndWithError, Idle
<1>10. CASE UNCHANGED vars
    BY <1>10 DEF vars
<1>11. QED
    BY <1>1, <1>2, <1>3, <1>4, <1>5, <1>6, <1>7, <1>8, <1>9, <1>10 DEF Next

\* What one statement does to what its own request remembers, and that it
\* leaves the other requests alone.
LEMMA CallAfter ==
    ASSUME TypeOK, NEW c \in Callers
    PROVE  /\ DeleteCertifications(c) =>
                /\ call'[c].op = "insert" /\ call'[c].list = call[c].list
                /\ \A d \in Callers \ {c} : call'[d] = call[d]
           /\ InsertCertification(c) =>
                /\ call'[c].op = "insert"
                /\ \E k \in Held(call[c].list) :
                      /\ certs[k] = None
                      /\ certs' = [certs EXCEPT ![k] = call[c].list[k]]
                      /\ call'[c].list = [call[c].list EXCEPT ![k] = None]
                /\ \A d \in Callers \ {c} : call'[d] = call[d]
<1> USE DEF TypeOK
<1>1. ASSUME DeleteCertifications(c)
      PROVE  /\ call'[c].op = "insert" /\ call'[c].list = call[c].list
             /\ \A d \in Callers \ {c} : call'[d] = call[d]
    BY <1>1, CallTypes DEF DeleteCertifications
<1>2. ASSUME InsertCertification(c)
      PROVE  /\ call'[c].op = "insert"
             /\ \E k \in Held(call[c].list) :
                   /\ certs[k] = None
                   /\ certs' = [certs EXCEPT ![k] = call[c].list[k]]
                   /\ call'[c].list = [call[c].list EXCEPT ![k] = None]
             /\ \A d \in Callers \ {c} : call'[d] = call[d]
    <2>1. PICK k \in Held(call[c].list) :
             /\ certs[k] = None
             /\ certs' = [certs EXCEPT ![k] = call[c].list[k]]
             /\ call' = [call EXCEPT ![c].list[k] = None]
        BY <1>2 DEF InsertCertification
    <2>2. /\ call[c].op = "insert"
          /\ call[c] = [op |-> "insert", request |-> call[c].request,
                        list |-> call[c].list]
        BY <1>2, CallTypes DEF InsertCertification
    <2>3. /\ call'[c].op = "insert"
          /\ call'[c].list = [call[c].list EXCEPT ![k] = None]
          /\ \A d \in Callers \ {c} : call'[d] = call[d]
        BY <2>1, <2>2
    <2>4. QED
        BY <2>1, <2>3
<1>3. QED
    BY <1>1, <1>2

\* Until a rewriting is disturbed, its statements take the list from one
\* agreed state to the next, and nobody else's statement gets in between.
LEMMA KeptStep ==
    TypeOK /\ SeenCurrent /\ KeptInv /\ [Next]_vars => KeptInv'
<1> SUFFICES ASSUME TypeOK, SeenCurrent, KeptInv, [Next]_vars, ~torn'
             PROVE  /\ UpdatersReady' /\ OneRewriting'
                    /\ (NoneRewriting => certs = agreed)'
                    /\ \A c \in Callers : Progress(c)'
    BY DEF KeptInv
<1> USE DEF TypeOK
<1> DEFINE Goal == /\ UpdatersReady' /\ OneRewriting'
                   /\ (NoneRewriting => certs = agreed)'
                   /\ \A c \in Callers : Progress(c)'
<1>0. /\ ~torn
      /\ UpdatersReady /\ OneRewriting
      /\ NoneRewriting => certs = agreed
      /\ \A c \in Callers : Progress(c)
    <2>1. ~torn
        BY DEF Next, Tick, GetDriver, LoadCertifications, UpdateDriver,
               DeleteCertifications, InsertCertification, Saved, AppendAudit,
               EndWithError, vars
    <2>2. QED
        BY <2>1 DEF KeptInv
<1>1. CASE Tick
    BY <1>0, <1>1
    DEF Tick, UpdatersReady, OneRewriting, NoneRewriting, Progress, Rewriting,
       Renewed
<1>2. ASSUME NEW c \in Callers, NEW request \in Requests, GetDriver(c, request)
      PROVE  Goal
    <2>1. /\ call'[c].op = "read_certs" /\ NoneRewriting
          /\ \A d \in Callers \ {c} : call'[d] = call[d]
          /\ UNCHANGED <<driver, certs, agreed>>
        BY <1>2 DEF GetDriver
    <2>2. \A d \in Callers : ~Rewriting(d)'
        BY <2>1 DEF NoneRewriting, Rewriting
    <2>3. QED
        BY <1>0, <2>1, <2>2
        DEF UpdatersReady, OneRewriting, NoneRewriting, Progress, Rewriting
<1>3. ASSUME NEW c \in Callers, LoadCertifications(c)
      PROVE  Goal
    <2>1. /\ call[c].op = "read_certs" /\ call'[c].op = "update"
          /\ call'[c].seen = call[c].seen /\ call'[c].request = call[c].request
          /\ call'[c].list = ListAfter(call[c].request, certs)
          /\ \A d \in Callers \ {c} : call'[d] = call[d]
          /\ UNCHANGED <<driver, certs, agreed>>
        BY <1>3 DEF LoadCertifications
    <2>2. \A d \in Callers : Rewriting(d)' <=> Rewriting(d)
        BY <2>1 DEF Rewriting
    <2>3. UpdatersReady'
        BY <1>0, <2>1, <2>2 DEF UpdatersReady, NoneRewriting
    <2>4. \A d \in Callers : Progress(d)'
        BY <1>0, <2>1 DEF Progress, Renewed
    <2>5. QED
        BY <1>0, <2>1, <2>2, <2>3, <2>4 DEF OneRewriting, NoneRewriting
<1>4. ASSUME NEW c \in Callers, UpdateDriver(c)
      PROVE  Goal
    <2> DEFINE request == call[c].request
    <2>1. /\ call[c].op = "update" /\ call[c].seen.version = driver.version
          /\ driver'.version = driver.version + 1
          /\ agreed' = ListAfter(request, agreed) /\ certs' = certs
          /\ call'[c] = [op |-> "delete", request |-> request,
                         list |-> call[c].list]
          /\ \A d \in Callers \ {c} : call'[d] = call[d]
        BY <1>4 DEF UpdateDriver, SameVersion
    <2>2. NoneRewriting /\ call[c].list = ListAfter(request, agreed)
        BY <1>0, <2>1 DEF UpdatersReady
    <2>3. certs = agreed
        BY <1>0, <2>2
    <2>4. \A d \in Callers : Rewriting(d)' <=> d = c
        BY <2>1, <2>2 DEF Rewriting, NoneRewriting
    <2>5. UpdatersReady'
        <3>1. ASSUME NEW d \in Callers, call'[d].op \in {"read_certs", "update"}
              PROVE  call'[d].seen.version # driver'.version
            <4>1. d # c /\ call[d].op \in {"read_certs", "update"}
                BY <2>1, <3>1
            <4>2. call[d].seen \in Drivers /\ call[d].seen.version <= driver.version
                BY <4>1, CallTypes DEF SeenCurrent
            <4>3. QED
                BY <2>1, <4>1, <4>2 DEF Drivers
        <3>2. QED
            BY <3>1 DEF UpdatersReady
    <2>6. \A d \in Callers : d # c => Progress(d)'
        BY <2>1, <2>4 DEF Progress, Rewriting
    <2>7. Progress(c)'
        <3>1. call'[c].list = agreed' /\ call'[c].op = "delete"
            BY <2>1, <2>2
        <3>2. \A k \in Codes \ Renewed(c)' : certs'[k] = agreed'[k]
            BY <2>1, <2>3 DEF Renewed, ListAfter, CertLists
        <3>3. QED
            BY <3>1, <3>2 DEF Progress
    <2>8. QED
        BY <2>4, <2>5, <2>6, <2>7 DEF OneRewriting, NoneRewriting
<1>5. ASSUME NEW c \in Callers, DeleteCertifications(c)
      PROVE  Goal
    <2>1. /\ call[c].op = "delete" /\ call'[c].op = "insert"
          /\ call'[c].list = call[c].list /\ certs' = NoCerts
          /\ \A d \in Callers \ {c} : call'[d] = call[d]
          /\ UNCHANGED <<driver, agreed>>
        BY <1>5, CallAfter DEF DeleteCertifications
    <2>2. \A d \in Callers : Rewriting(d)' <=> Rewriting(d)
        BY <2>1 DEF Rewriting
    <2>3. \A d \in Callers : d # c => ~Rewriting(d)
        BY <1>0, <2>1 DEF OneRewriting, Rewriting
    <2>4. Progress(c)'
        BY <1>0, <2>1 DEF Progress, NoCerts
    <2>5. \A d \in Callers : d # c => Progress(d)'
        BY <2>1, <2>3 DEF Progress, Rewriting
    <2>6. UpdatersReady'
        BY <1>0, <2>1, <2>2 DEF UpdatersReady, NoneRewriting
    <2>7. QED
        BY <1>0, <2>1, <2>2, <2>4, <2>5, <2>6 DEF OneRewriting, NoneRewriting, Rewriting
<1>6. ASSUME NEW c \in Callers, InsertCertification(c)
      PROVE  Goal
    <2>1. /\ call[c].op = "insert" /\ call'[c].op = "insert"
          /\ \A d \in Callers \ {c} : call'[d] = call[d]
          /\ UNCHANGED <<driver, agreed>>
        BY <1>6, CallAfter DEF InsertCertification
    <2>2. PICK k \in Held(call[c].list) :
             /\ certs' = [certs EXCEPT ![k] = call[c].list[k]]
             /\ call'[c].list = [call[c].list EXCEPT ![k] = None]
        BY <1>6, CallAfter
    <2>3. \A d \in Callers : Rewriting(d)' <=> Rewriting(d)
        BY <2>1 DEF Rewriting
    <2>4. \A d \in Callers : d # c => ~Rewriting(d)
        BY <1>0, <2>1 DEF OneRewriting, Rewriting
    <2>5. Progress(c)'
        <3>1. call[c].list \in CertLists
            BY <2>1, CallTypes
        <3>2. QED
            BY <1>0, <2>1, <2>2, <3>1 DEF Progress, Held, CertLists
    <2>6. \A d \in Callers : d # c => Progress(d)'
        BY <2>1, <2>4 DEF Progress, Rewriting
    <2>7. UpdatersReady'
        BY <1>0, <2>1, <2>3 DEF UpdatersReady, NoneRewriting
    <2>8. QED
        BY <1>0, <2>1, <2>3, <2>5, <2>6, <2>7 DEF OneRewriting, NoneRewriting, Rewriting
<1>7. ASSUME NEW c \in Callers, Saved(c)
      PROVE  Goal
    <2>1. /\ call[c].op = "insert" /\ Held(call[c].list) = {}
          /\ call'[c].op = "audit"
          /\ \A d \in Callers \ {c} : call'[d] = call[d]
          /\ UNCHANGED <<driver, agreed, certs>>
        BY <1>7 DEF Saved
    <2>2. certs = agreed
        BY <1>0, <2>1 DEF Progress, Held, CertLists
    <2>3. \A d \in Callers : ~Rewriting(d)'
        BY <1>0, <2>1 DEF OneRewriting, Rewriting
    <2>4. UpdatersReady'
        BY <1>0, <2>1, <2>3 DEF UpdatersReady, NoneRewriting
    <2>5. QED
        BY <2>1, <2>2, <2>3, <2>4 DEF OneRewriting, Progress, Rewriting
<1>8. ASSUME NEW c \in Callers, AppendAudit(c)
      PROVE  Goal
    <2>1. /\ call[c].op = "audit" /\ call'[c].op = "idle"
          /\ \A d \in Callers \ {c} : call'[d] = call[d]
          /\ UNCHANGED <<driver, agreed, certs>>
        BY <1>8 DEF AppendAudit, Idle
    <2>2. \A d \in Callers : Rewriting(d)' <=> Rewriting(d)
        BY <2>1 DEF Rewriting
    <2>3. QED
        BY <1>0, <2>1, <2>2
        DEF UpdatersReady, OneRewriting, NoneRewriting, Progress, Renewed
<1>9. ASSUME NEW c \in Callers, EndWithError(c)
      PROVE  Goal
    <2>1. /\ ~Rewriting(c) /\ call'[c].op = "idle"
          /\ \A d \in Callers \ {c} : call'[d] = call[d]
          /\ UNCHANGED <<driver, agreed, certs>>
        BY <1>9 DEF EndWithError, Idle
    <2>2. \A d \in Callers : Rewriting(d)' <=> Rewriting(d)
        BY <2>1 DEF Rewriting
    <2>3. QED
        BY <1>0, <2>1, <2>2
        DEF UpdatersReady, OneRewriting, NoneRewriting, Progress, Renewed
<1>10. CASE UNCHANGED vars
    BY <1>0, <1>10
    DEF vars, UpdatersReady, OneRewriting, NoneRewriting, Progress, Rewriting,
       Renewed
<1>11. QED
    BY <1>1, <1>2, <1>3, <1>4, <1>5, <1>6, <1>7, <1>8, <1>9, <1>10 DEF Next

\* The invariant of the certifications holds throughout.
LEMMA KeptInvariant == Spec => [](TypeOK /\ SeenCurrent /\ KeptInv)
<1>1. Init => SeenCurrent /\ KeptInv
    <2> SUFFICES ASSUME Init PROVE SeenCurrent /\ KeptInv
        OBVIOUS
    <2>1. \A c \in Callers : call[c].op = "idle"
        BY DEF Init, Idle
    <2>2. QED
        BY <2>1 DEF Init, SeenCurrent, KeptInv, UpdatersReady, OneRewriting,
                    NoneRewriting, Rewriting, Progress
<1>2. QED
    BY <1>1, TypeCorrect, SeenStep, KeptStep, PTL DEF Spec

\* A certification that an update has made is there until a later one replaces
\* it, although every update rewrites the list statement by statement (unless a
\* driver was read in the middle of that, or a rewriting broken off).
THEOREM CertificationsAreKept == Spec => []CertificationsKept
<1>1. TypeOK /\ KeptInv => CertificationsKept
    <2> SUFFICES ASSUME TypeOK, KeptInv, ~torn PROVE CertificationsKept
        BY DEF CertificationsKept
    <2>1. /\ OneRewriting
          /\ NoneRewriting => certs = agreed
          /\ \A c \in Callers : Progress(c)
        BY DEF KeptInv
    <2>2. \A c \in Callers : call[c].op = "insert" =>
             \A k \in Codes : certs[k] \in {None, agreed[k]}
        BY <2>1 DEF Progress
    <2>3. QED
        BY <2>1, <2>2 DEF CertificationsKept, OneRewriting, Progress
<1>2. QED
    BY <1>1, KeptInvariant, PTL

\* The step of SuspensionStands.
StatusMoves ==
    driver'.status # driver.status =>
        \E c \in Callers :
           /\ call[c].op = "update" /\ call'[c].op = "delete"
           /\ call[c].request.action # "certify"
           /\ call[c].seen = driver

\* Only Suspend and Reactivate change the status, from the status they have
\* read: no stale AddCertification lifts a suspension.
THEOREM SuspensionsStand == Spec => SuspensionStands
<1>1. TypeOK /\ SeenCurrent /\ [Next]_vars => [StatusMoves]_vars
    <2> SUFFICES ASSUME TypeOK, SeenCurrent, Next, driver'.status # driver.status
                 PROVE  \E c \in Callers :
                           /\ call[c].op = "update" /\ call'[c].op = "delete"
                           /\ call[c].request.action # "certify"
                           /\ call[c].seen = driver
        BY DEF StatusMoves
    <2>1. PICK c \in Callers : UpdateDriver(c)
        BY DEF Next, Tick, GetDriver, LoadCertifications, UpdateDriver,
               DeleteCertifications, InsertCertification, Saved, AppendAudit,
               EndWithError
    <2>2. call[c].op = "update" /\ call'[c].op = "delete"
        BY <2>1 DEF UpdateDriver, TypeOK
    <2>3. call[c].seen = driver
        BY <2>1 DEF UpdateDriver, SameVersion, SeenCurrent
    <2>4. call[c].request.action # "certify"
        BY <2>1, <2>3 DEF UpdateDriver, StatusAfter
    <2>5. QED
        BY <2>2, <2>3, <2>4
<1>2. QED
    BY <1>1, KeptInvariant, PTL DEF Spec, SuspensionStands, StatusMoves

-----------------------------------------------------------------------------
(* The audit trail                                                          *)

Unaudited == {c \in Callers : call[c].op \in {"delete", "insert", "audit"}}

\* A request counts as soon as its update has gone through, and until its audit
\* row is there.
LEMMA AuditStep ==
    TypeOK /\ ChangesAuditedOnce /\ [Next]_vars => ChangesAuditedOnce'
<1> SUFFICES ASSUME TypeOK, ChangesAuditedOnce, [Next]_vars
             PROVE  ChangesAuditedOnce'
    OBVIOUS
<1> USE DEF TypeOK
<1> DEFINE Room == audited + Cardinality(Unaudited) <= driver.version - 1
<1>0. /\ IsFiniteSet(Unaudited) /\ Cardinality(Unaudited) \in Nat
      /\ audited \in Nat /\ driver.version \in Nat
      /\ Room /\ (ChangesAuditedOnce' <=> Room')
    <2>1. IsFiniteSet(Unaudited)
        BY CallersAreFinite, FS_Subset DEF Unaudited
    <2>2. QED
        BY <2>1, FS_CardinalityType DEF ChangesAuditedOnce, Unaudited, Drivers
<1> HIDE DEF Unaudited
<1>1. CASE /\ Unaudited' = Unaudited
           /\ UNCHANGED <<audited, driver>>
    BY <1>0, <1>1
<1>2. ASSUME NEW c \in Callers, UpdateDriver(c)
      PROVE  Room'
    <2>1. /\ driver'.version = driver.version + 1 /\ audited' = audited
          /\ c \notin Unaudited /\ Unaudited' = Unaudited \cup {c}
        BY <1>2 DEF UpdateDriver, SameVersion, Unaudited
    <2>2. Cardinality(Unaudited') = Cardinality(Unaudited) + 1
        BY <1>0, <2>1, FS_AddElement
    <2>3. QED
        BY <1>0, <2>1, <2>2
<1>3. ASSUME NEW c \in Callers, AppendAudit(c)
      PROVE  Room'
    <2>1. /\ driver' = driver /\ audited' = audited + 1
          /\ c \in Unaudited /\ Unaudited' = Unaudited \ {c}
        BY <1>3 DEF AppendAudit, Unaudited, Idle
    <2>2. Cardinality(Unaudited') = Cardinality(Unaudited) - 1
        BY <1>0, <2>1, FS_RemoveElement
    <2>3. QED
        BY <1>0, <2>1, <2>2
<1>4. ASSUME NEW c \in Callers, EndWithError(c)
      PROVE  Room'
    <2>1. /\ UNCHANGED <<driver, audited>> /\ Unaudited' = Unaudited \ {c}
        BY <1>4 DEF EndWithError, Unaudited, Idle
    <2>2. CASE c \in Unaudited
        <3>1. Cardinality(Unaudited') = Cardinality(Unaudited) - 1
            BY <1>0, <2>1, <2>2, FS_RemoveElement
        <3>2. QED
            BY <1>0, <2>1, <3>1
    <2>3. CASE c \notin Unaudited
        <3>1. Unaudited' = Unaudited
            BY <2>1, <2>3
        <3>2. QED
            BY <1>1, <2>1, <3>1, <1>0
    <2>4. QED
        BY <2>2, <2>3
<1>5. ASSUME NEW c \in Callers, DeleteCertifications(c) \/ InsertCertification(c)
      PROVE  Room'
    <2>1. /\ call[c].op \in {"delete", "insert"} /\ call'[c].op = "insert"
          /\ \A d \in Callers \ {c} : call'[d] = call[d]
          /\ UNCHANGED <<driver, audited>>
        BY <1>5, CallAfter DEF DeleteCertifications, InsertCertification
    <2>2. Unaudited' = Unaudited
        BY <2>1 DEF Unaudited
    <2>3. QED
        BY <1>0, <1>1, <2>1, <2>2
<1>6. ASSUME NEW c \in Callers, LoadCertifications(c) \/ Saved(c)
      PROVE  Room'
    <2>1. /\ Unaudited' = Unaudited
          /\ UNCHANGED <<driver, audited>>
        BY <1>6 DEF LoadCertifications, Saved, Unaudited
    <2>2. QED
        BY <1>0, <1>1, <2>1
<1>7. ASSUME NEW c \in Callers, NEW request \in Requests, GetDriver(c, request)
      PROVE  Room'
    <2>1. /\ Unaudited' = Unaudited
          /\ UNCHANGED <<driver, audited>>
        BY <1>7 DEF GetDriver, Unaudited, Idle
    <2>2. QED
        BY <1>0, <1>1, <2>1
<1>8. CASE Tick \/ UNCHANGED vars
    BY <1>0, <1>1, <1>8 DEF Tick, vars, Unaudited
<1>9. QED
    BY <1>0, <1>2, <1>3, <1>4, <1>5, <1>6, <1>7, <1>8 DEF Next

\* The audit trail has a row for a change at most once: two requests that read
\* the same version are not both told that they changed it.
THEOREM AuditedOnce == Spec => []ChangesAuditedOnce
<1>1. Init => ChangesAuditedOnce
    <2> SUFFICES ASSUME Init PROVE ChangesAuditedOnce
        OBVIOUS
    <2>1. {c \in Callers : call[c].op \in {"delete", "insert", "audit"}} = {}
        BY DEF Init, Idle
    <2>2. QED
        BY <2>1, FS_EmptySet DEF Init, ChangesAuditedOnce
<1>2. QED
    BY <1>1, TypeCorrect, AuditStep, PTL DEF Spec

=============================================================================
