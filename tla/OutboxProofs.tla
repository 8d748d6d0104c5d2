------------------------------ MODULE OutboxProofs ----------------------------
(***************************************************************************)
(* The outbox worker keeps the promises of JobQueue for any jobs, attempts  *)
(* and batch size, through store errors and restarts at any point.          *)
(***************************************************************************)
EXTENDS Outbox, TimeProofs

-----------------------------------------------------------------------------
(* The inductive invariant                                                  *)

BatchDistinct ==
    \A m, n \in DOMAIN worker.batch :
        m # n => worker.batch[m].id # worker.batch[n].id

\* What the steps between claim and mark have established of the current job.
CurrentJob ==
    /\ worker.pc \in {"handle", "mark_done", "mark_failed"} =>
          worker.batch # <<>>
    /\ worker.pc = "mark_done" => Current.id \in delivered
    /\ worker.pc = "mark_failed" => Current.attempts < failures[Current.id]

\* Attempts are recorded failures, and a job with attempts left is pending.
AttemptsCounted ==
    \A j \in Jobs :
        /\ row[j].attempts <= failures[j]
        /\ row[j].status = "none" => row[j].attempts = 0
        /\ row[j].status = "pending" => row[j].attempts < MaxAttempts

WorkerInv == TypeOK /\ BatchFresh /\ BatchDistinct /\ CurrentJob /\ AttemptsCounted

-----------------------------------------------------------------------------
(* Lemmas                                                                   *)

\* A second has at least one tick.
LEMMA SecondPositive == Second \in Nat \ {0}
BY TicksDivide, DigitsIsNat DEF Second

\* Seconds are numbered by naturals, and later moments have no earlier second.
LEMMA SecondsGrow ==
    \A t, u \in Nat : /\ SecondOf(t) \in Nat
                      /\ t <= u => SecondOf(t) <= SecondOf(u)
<1> SUFFICES ASSUME NEW t \in Nat, NEW u \in Nat
             PROVE  /\ SecondOf(t) \in Nat
                    /\ t <= u => SecondOf(t) <= SecondOf(u)
    OBVIOUS
<1> DEFINE p == t \div Second
           q == u \div Second
<1>1. /\ p \in Nat /\ q \in Nat
      /\ p * Second <= t /\ u < q * Second + Second
    BY SecondPositive
<1> HIDE DEF p, q
<1>2. t <= u => p <= q
    <2> SUFFICES ASSUME t <= u, q < p PROVE FALSE
        BY <1>1
    <2>1. (p - q - 1) * Second >= 0
        BY <1>1, SecondPositive
    <2>2. (p - q - 1) * Second = p * Second - q * Second - Second
        BY <1>1, SecondPositive
    <2>3. p * Second \in Nat /\ q * Second \in Nat
        BY <1>1, SecondPositive
    <2>4. QED
        BY <1>1, <2>1, <2>2, <2>3, SecondPositive
<1>3. QED
    BY <1>1, <1>2 DEF SecondOf, p, q

\* A row whose text is not after the claim's falls due in the claim's second or
\* before.
LEMMA DueBySecond ==
    \A due, t \in Nat : ~TextBefore(t, due) => SecondOf(due) <= SecondOf(t)
<1> SUFFICES ASSUME NEW due \in Nat, NEW t \in Nat,
                    SecondOf(t) < SecondOf(due)
             PROVE  TextBefore(t, due)
    BY SecondsGrow
<1>1. QED
    BY SecondsSort DEF SecondOf

\* The backoff is positive.
LEMMA DelayPositive == ASSUME NEW attempts \in Nat PROVE Delay(attempts) \in Nat \ {0}
<1> DEFINE seconds == 2 ^ (IF attempts < 6 THEN attempts ELSE 6)
<1>1. seconds \in Nat \ {0}
    <2>1. CASE attempts >= 6
        <3>1. 2 ^ 6 = 64
            OBVIOUS
        <3>2. QED
            BY <2>1, <3>1
    <2>2. CASE attempts < 6
        <3>1. attempts \in {0, 1, 2, 3, 4, 5}
            BY <2>2
        <3>2. /\ 2 ^ 0 = 1 /\ 2 ^ 1 = 2 /\ 2 ^ 2 = 4 /\ 2 ^ 3 = 8
              /\ 2 ^ 4 = 16 /\ 2 ^ 5 = 32
            OBVIOUS
        <3>3. 2 ^ attempts \in {1, 2, 4, 8, 16, 32}
            BY <3>1, <3>2
        <3>4. seconds = 2 ^ attempts
            BY <2>2
        <3>5. QED
            BY <3>3, <3>4
    <2>3. QED
        BY <2>1, <2>2
<1> HIDE DEF seconds
<1>2. seconds * Second \in Nat \ {0}
    BY <1>1, SecondPositive
<1>3. QED
    BY <1>2 DEF Delay, seconds

\* The rest of a batch is the batch without its first place.
LEMMA RestOfBatch ==
    ASSUME NEW S, NEW batch \in Seq(S), batch # <<>>
    PROVE  /\ 1 \in DOMAIN batch /\ Head(batch) = batch[1] /\ batch[1] \in S
           /\ Tail(batch) \in Seq(S)
           /\ \A m \in DOMAIN Tail(batch) :
                 m \in Nat /\ m + 1 \in DOMAIN batch /\ m + 1 # 1
                 /\ Tail(batch)[m] = batch[m + 1]
OBVIOUS

\* Each place of the batch names a job.
LEMMA PlacesTyped ==
    ASSUME NEW S, NEW batch \in Seq(S)
    PROVE  \A m \in DOMAIN batch : batch[m] \in S
OBVIOUS

\* A function on the first numbers is a sequence.
LEMMA BatchIsSeq ==
    ASSUME NEW S, NEW size \in Nat, NEW batch \in [1..size -> S]
    PROVE  batch \in Seq(S)
OBVIOUS

\* A claimed batch: distinct jobs, pending and due, with the attempts read.
LEMMA ClaimedBatch ==
    ASSUME TypeOK, NEW b \in Batches
    PROVE  /\ b \in Seq([id : Jobs, attempts : 0..MaxAttempts])
           /\ \A m \in DOMAIN b : /\ Claimable(b[m].id)
                                  /\ b[m].attempts = row[b[m].id].attempts
           /\ \A m, n \in DOMAIN b : m # n => b[m].id # b[n].id
<1> DEFINE due == {j \in Jobs : Claimable(j)}
           ready == {[id |-> j, attempts |-> row[j].attempts] : j \in due}
           size == IF Cardinality(ready) < BatchSize THEN Cardinality(ready)
                   ELSE BatchSize
<1>1. size \in Nat
    <2> DEFINE read == [j \in due |-> [id |-> j, attempts |-> row[j].attempts]]
    <2>1. IsFiniteSet(due)
        BY JobsAreFinite, FS_Subset
    <2>2. read \in Surjection(due, ready)
        BY DEF Surjection
    <2>3. Cardinality(ready) \in Nat
        BY <2>1, <2>2, FS_Surjection, FS_CardinalityType
    <2>4. QED
        BY <2>3, BatchIsPositive
<1>2. /\ b \in [1..size -> ready]
      /\ \A m, n \in 1..size : m < n => b[m] # b[n]
    BY DEF Batches
<1>3. DOMAIN b = 1..size /\ \A m \in 1..size : b[m] \in ready
    BY <1>2
<1>4. \A job \in ready : /\ job.id \in Jobs /\ Claimable(job.id)
                         /\ job.attempts = row[job.id].attempts
                         /\ job = [id |-> job.id, attempts |-> row[job.id].attempts]
                         /\ job \in [id : Jobs, attempts : 0..MaxAttempts]
    BY DEF TypeOK
<1> HIDE DEF ready, size
<1>5. \A m, n \in 1..size : m # n => b[m].id # b[n].id
    <2> SUFFICES ASSUME NEW m \in 1..size, NEW n \in 1..size, m # n
                 PROVE  b[m].id # b[n].id
        OBVIOUS
    <2>1. m \in Int /\ n \in Int
        BY <1>1
    <2>2. m < n \/ n < m
        BY <2>1
    <2>3. b[m] # b[n] /\ b[m] \in ready /\ b[n] \in ready
        BY <1>2, <1>3, <2>2
    <2>4. QED
        BY <1>4, <2>3
<1>6. b \in Seq([id : Jobs, attempts : 0..MaxAttempts])
    <2>1. b \in [1..size -> [id : Jobs, attempts : 0..MaxAttempts]]
        BY <1>2, <1>4
    <2>2. QED
        BY <1>1, <2>1, BatchIsSeq
<1>7. QED
    BY <1>3, <1>4, <1>5, <1>6, <1>2

\* The job the worker is at.
LEMMA CurrentType ==
    ASSUME WorkerInv, worker.pc \in {"handle", "mark_done", "mark_failed"}
    PROVE  /\ Current = worker.batch[1] /\ 1 \in DOMAIN worker.batch
           /\ Current.id \in Jobs /\ Current.attempts \in 0..MaxAttempts
           /\ row[Current.id].status = "pending"
           /\ row[Current.id].attempts = Current.attempts
           /\ Current.attempts < MaxAttempts
           /\ worker.batch \in Seq([id : Jobs, attempts : 0..MaxAttempts])
           /\ worker.batch # <<>>
<1>1. /\ worker.batch \in Seq([id : Jobs, attempts : 0..MaxAttempts])
      /\ worker.batch # <<>>
    BY DEF WorkerInv, TypeOK, CurrentJob
<1>2. /\ Current = worker.batch[1] /\ 1 \in DOMAIN worker.batch
      /\ Current \in [id : Jobs, attempts : 0..MaxAttempts]
    BY <1>1, RestOfBatch DEF Current
<1>3. QED
    BY <1>1, <1>2 DEF WorkerInv, BatchFresh, AttemptsCounted

\* The worker at the end of a cycle.
LEMMA WaitingTyped ==
    ASSUME NEW S, NEW batch \in S
    PROVE  [pc |-> "wait", firstCycle |-> FALSE, batch |-> batch]
              \in [pc : {"wait", "handle"}, firstCycle : BOOLEAN, batch : S]
OBVIOUS

\* A mark changes the row of the current job only, and goes on to the rest.
LEMMA MarkStep ==
    ASSUME WorkerInv, worker.pc \in {"mark_done", "mark_failed"},
           NEW new, row' = [row EXCEPT ![Current.id] = new],
           new \in [status : {"none", "pending", "done", "permanent_failure"},
                    attempts : 0..MaxAttempts, due : Nat],
           new.attempts <= failures[Current.id],
           new.status # "none",
           new.status = "pending" => new.attempts < MaxAttempts,
           worker' = AfterBatch(Tail(worker.batch)),
           UNCHANGED <<now, delivered, failures>>
    PROVE  WorkerInv'
<1> DEFINE rest == Tail(worker.batch)
           Places == [id : Jobs, attempts : 0..MaxAttempts]
<1>1. /\ Current = worker.batch[1] /\ 1 \in DOMAIN worker.batch
      /\ Current.id \in Jobs
      /\ worker.batch \in Seq(Places) /\ worker.batch # <<>>
    BY CurrentType
<1>2. /\ rest \in Seq(Places)
      /\ \A m \in DOMAIN rest :
            /\ m \in Nat /\ m + 1 \in DOMAIN worker.batch /\ m + 1 # 1
            /\ rest[m] = worker.batch[m + 1]
    BY <1>1, RestOfBatch
<1> HIDE DEF rest
<1>3. /\ worker'.batch = rest
      /\ worker'.pc = IF rest = <<>> THEN "wait" ELSE "handle"
      /\ worker' \in [pc : {"wait", "handle"}, firstCycle : BOOLEAN, batch : Seq(Places)]
    <2>1. worker' = IF rest = <<>>
                    THEN [pc |-> "wait", firstCycle |-> FALSE, batch |-> <<>>]
                    ELSE [worker EXCEPT !.pc = "handle", !.batch = rest]
        BY DEF AfterBatch, rest
    <2>2. worker \in [pc : {"claim", "handle", "mark_done", "mark_failed",
                            "wait", "returned"},
                      firstCycle : BOOLEAN, batch : Seq(Places)]
        BY DEF WorkerInv, TypeOK
    <2>3. rest \in Seq(Places) /\ <<>> \in Seq(Places)
        BY <1>2
    <2> HIDE DEF Places
    <2>4. CASE rest = <<>>
        <3>1. worker' = [pc |-> "wait", firstCycle |-> FALSE, batch |-> rest]
            BY <2>1, <2>4
        <3>2. worker' \in [pc : {"wait", "handle"}, firstCycle : BOOLEAN,
                           batch : Seq(Places)]
            BY <2>3, <3>1, WaitingTyped
        <3>3. QED
            BY <2>4, <3>1, <3>2
    <2>5. CASE rest # <<>>
        <3>1. worker' = [worker EXCEPT !.pc = "handle", !.batch = rest]
            BY <2>1, <2>5
        <3>2. QED
            BY <2>2, <2>3, <2>5, <3>1
    <2>6. QED
        BY <2>4, <2>5
<1>4. TypeOK'
    <2>1. row' \in [Jobs -> [status : {"none", "pending", "done",
                                       "permanent_failure"},
                             attempts : 0..MaxAttempts, due : Nat]]
        BY <1>1 DEF WorkerInv, TypeOK
    <2>2. QED
        BY <1>3, <2>1 DEF WorkerInv, TypeOK
<1>5. \A m \in DOMAIN rest : rest[m].id # Current.id /\ rest[m].id \in Jobs
    <2> SUFFICES ASSUME NEW m \in DOMAIN rest
                 PROVE  rest[m].id # Current.id /\ rest[m].id \in Jobs
        OBVIOUS
    <2>1. rest[m].id # Current.id
        BY <1>1, <1>2 DEF WorkerInv, BatchDistinct
    <2>2. rest[m] \in Places
        BY <1>2, PlacesTyped
    <2>3. QED
        BY <2>1, <2>2
<1>6. BatchFresh'
    <2> SUFFICES ASSUME NEW m \in DOMAIN rest
                 PROVE  /\ row'[rest[m].id].status = "pending"
                        /\ SecondOf(row'[rest[m].id].due) <= SecondOf(now')
                        /\ row'[rest[m].id].attempts = rest[m].attempts
        BY <1>3 DEF BatchFresh
    <2>1. row'[rest[m].id] = row[rest[m].id]
        BY <1>5 DEF WorkerInv, TypeOK
    <2>2. rest[m] = worker.batch[m + 1] /\ m + 1 \in DOMAIN worker.batch
        BY <1>2
    <2>3. QED
        BY <2>1, <2>2 DEF WorkerInv, BatchFresh
<1>7. BatchDistinct'
    <2> SUFFICES ASSUME NEW m \in DOMAIN rest, NEW n \in DOMAIN rest, m # n
                 PROVE  rest[m].id # rest[n].id
        BY <1>3 DEF BatchDistinct
    <2>1. m + 1 # n + 1
        BY <1>2
    <2>2. QED
        BY <1>2, <2>1 DEF WorkerInv, BatchDistinct
<1>8. CurrentJob'
    BY <1>3 DEF CurrentJob
<1>9. AttemptsCounted'
    BY <1>1 DEF WorkerInv, TypeOK, AttemptsCounted
<1>10. QED
    BY <1>4, <1>6, <1>7, <1>8, <1>9 DEF WorkerInv

\* Between claim and mark nobody else writes the row of a claimed job.
LEMMA WorkerStep == WorkerInv /\ [Next]_vars => WorkerInv'
<1> SUFFICES ASSUME WorkerInv, [Next]_vars PROVE WorkerInv'
    OBVIOUS
<1> DEFINE Places == [id : Jobs, attempts : 0..MaxAttempts]
<1>1. ASSUME NEW j \in Jobs, Enqueue(j) PROVE WorkerInv'
    <2>1. /\ row[j].status = "none" /\ row' = [row EXCEPT ![j] = NewRow(now)]
          /\ UNCHANGED <<now, worker, delivered, failures>>
        BY <1>1 DEF Enqueue
    <2>2. NewRow(now) \in [status : {"pending"}, attempts : {0}, due : Nat]
        BY DEF NewRow, WorkerInv, TypeOK
    <2>3. \A m \in DOMAIN worker.batch : /\ worker.batch[m].id \in Jobs
                                         /\ worker.batch[m].id # j
        <3>1. worker.batch \in Seq(Places)
            BY DEF WorkerInv, TypeOK
        <3>2. \A m \in DOMAIN worker.batch : worker.batch[m] \in Places
            BY <3>1, PlacesTyped
        <3>3. QED
            BY <2>1, <3>2 DEF WorkerInv, BatchFresh
    <2>4. TypeOK'
        BY <2>1, <2>2, AttemptsArePositive DEF WorkerInv, TypeOK
    <2>5. BatchFresh' /\ BatchDistinct'
        <3>1. \A m \in DOMAIN worker.batch :
                 row'[worker.batch[m].id] = row[worker.batch[m].id]
            BY <2>1, <2>3 DEF WorkerInv, TypeOK
        <3>2. QED
            BY <2>1, <3>1 DEF WorkerInv, BatchFresh, BatchDistinct
    <2>6. CurrentJob'
        BY <2>1 DEF WorkerInv, CurrentJob, Current
    <2>7. AttemptsCounted'
        BY <2>1, <2>2, AttemptsArePositive DEF WorkerInv, TypeOK, AttemptsCounted
    <2>8. QED
        BY <2>4, <2>5, <2>6, <2>7 DEF WorkerInv
<1>2. CASE ClaimDue
    <2>1. PICK b \in Batches : worker' = AfterBatch(b)
        BY <1>2 DEF ClaimDue
    <2>2. UNCHANGED <<row, now, delivered, failures>>
        BY <1>2 DEF ClaimDue
    <2>3. /\ b \in Seq(Places)
          /\ \A m \in DOMAIN b : /\ Claimable(b[m].id)
                                 /\ b[m].attempts = row[b[m].id].attempts
          /\ \A m, n \in DOMAIN b : m # n => b[m].id # b[n].id
        BY ClaimedBatch DEF WorkerInv
    <2>4. /\ worker'.batch = b
          /\ worker'.pc = IF b = <<>> THEN "wait" ELSE "handle"
          /\ worker' \in [pc : {"wait", "handle"}, firstCycle : BOOLEAN, batch : Seq(Places)]
        BY <2>1, <2>3 DEF WorkerInv, TypeOK, AfterBatch
    <2>5. TypeOK'
        BY <2>2, <2>4 DEF WorkerInv, TypeOK
    <2>6. BatchFresh' /\ BatchDistinct'
        <3>1. \A m \in DOMAIN b :
                 /\ row[b[m].id].status = "pending"
                 /\ SecondOf(row[b[m].id].due) <= SecondOf(now)
            <4> SUFFICES ASSUME NEW m \in DOMAIN b
                         PROVE  /\ row[b[m].id].status = "pending"
                                /\ SecondOf(row[b[m].id].due) <= SecondOf(now)
                OBVIOUS
            <4>1. b[m] \in Places
                BY <2>3, PlacesTyped
            <4>2. row[b[m].id].due \in Nat /\ now \in Nat
                BY <4>1 DEF WorkerInv, TypeOK
            <4>3. /\ row[b[m].id].status = "pending"
                  /\ ~TextBefore(now, row[b[m].id].due)
                BY <2>3 DEF Claimable
            <4>4. QED
                BY <4>2, <4>3, DueBySecond
        <3>2. QED
            BY <2>2, <2>3, <2>4, <3>1 DEF BatchFresh, BatchDistinct
    <2>7. CurrentJob' /\ AttemptsCounted'
        BY <2>2, <2>4 DEF WorkerInv, CurrentJob, AttemptsCounted
    <2>8. QED
        BY <2>5, <2>6, <2>7 DEF WorkerInv
<1>3. CASE HandlerSucceeds
    <2>1. /\ worker'.pc = "mark_done" /\ worker'.batch = worker.batch
          /\ worker' = [worker EXCEPT !.pc = "mark_done"]
          /\ delivered' = delivered \cup {Current.id}
          /\ UNCHANGED <<row, now, failures>>
        BY <1>3 DEF HandlerSucceeds, WorkerInv, TypeOK
    <2>2. Current.id \in Jobs /\ worker.batch # <<>>
        BY <1>3, CurrentType DEF HandlerSucceeds
    <2>3. TypeOK'
        BY <2>1, <2>2 DEF WorkerInv, TypeOK
    <2>4. QED
        BY <2>1, <2>2, <2>3 DEF WorkerInv, BatchFresh, BatchDistinct,
                                CurrentJob, Current, AttemptsCounted
<1>4. CASE HandlerFails
    <2> DEFINE j == Current.id
    <2>1. /\ worker'.pc = "mark_failed" /\ worker'.batch = worker.batch
          /\ worker' = [worker EXCEPT !.pc = "mark_failed"]
          /\ failures' = [failures EXCEPT ![j] =
                            IF @ < MaxAttempts THEN @ + 1 ELSE @]
          /\ UNCHANGED <<row, now, delivered>>
        BY <1>4 DEF HandlerFails, WorkerInv, TypeOK
    <2>2. /\ j \in Jobs /\ worker.batch # <<>>
          /\ Current.attempts < MaxAttempts /\ Current.attempts \in Nat
          /\ row[j].attempts = Current.attempts
        BY <1>4, CurrentType DEF HandlerFails
    <2>3. failures[j] \in 0..MaxAttempts /\ Current.attempts <= failures[j]
        BY <2>2 DEF WorkerInv, TypeOK, AttemptsCounted
    <2>4. /\ failures'[j] \in 0..MaxAttempts /\ Current.attempts < failures'[j]
          /\ failures[j] <= failures'[j]
          /\ \A k \in Jobs \ {j} : failures'[k] = failures[k]
          /\ failures' \in [Jobs -> 0..MaxAttempts]
        <3>1. failures \in [Jobs -> 0..MaxAttempts]
            BY DEF WorkerInv, TypeOK
        <3> DEFINE after == IF failures[j] < MaxAttempts THEN failures[j] + 1
                            ELSE failures[j]
        <3>2. /\ after \in 0..MaxAttempts /\ Current.attempts < after
              /\ failures[j] <= after
            BY <2>2, <2>3, AttemptsArePositive
        <3>3. failures' = [failures EXCEPT ![j] = after]
            BY <2>1
        <3> HIDE DEF after, j
        <3>4. QED
            BY <2>2, <3>1, <3>2, <3>3
    <2> HIDE DEF j
    <2>5. TypeOK'
        BY <2>1, <2>4 DEF WorkerInv, TypeOK
    <2>6. CurrentJob'
        BY <2>1, <2>2, <2>4 DEF CurrentJob, Current, j
    <2>7. AttemptsCounted'
        <3> SUFFICES ASSUME NEW k \in Jobs PROVE row[k].attempts <= failures'[k]
            BY <2>1 DEF WorkerInv, AttemptsCounted
        <3>1. /\ row[k].attempts \in Nat /\ failures[k] \in Nat
              /\ row[k].attempts <= failures[k]
            BY AttemptsArePositive DEF WorkerInv, TypeOK, AttemptsCounted
        <3>2. failures'[k] \in Nat /\ failures[k] <= failures'[k]
            <4>1. CASE k = j
                BY <2>4, <4>1, AttemptsArePositive
            <4>2. CASE k # j
                BY <2>4, <3>1, <4>2
            <4>3. QED
                BY <4>1, <4>2
        <3>3. QED
            BY <3>1, <3>2
    <2>8. QED
        BY <2>1, <2>5, <2>6, <2>7 DEF WorkerInv, BatchFresh, BatchDistinct
<1>5. CASE MarkJobDone
    <2> DEFINE j == Current.id
               new == [row[j] EXCEPT !.status = "done"]
    <2>1. /\ worker.pc = "mark_done" /\ row' = [row EXCEPT ![j] = new]
          /\ worker' = AfterBatch(Tail(worker.batch))
          /\ UNCHANGED <<now, delivered, failures>>
        BY <1>5 DEF MarkJobDone
    <2>2. j \in Jobs
        BY <2>1, CurrentType
    <2>3. /\ new \in [status : {"done"}, attempts : 0..MaxAttempts, due : Nat]
          /\ new.attempts = row[j].attempts
        BY <2>2 DEF WorkerInv, TypeOK
    <2>4. new.attempts <= failures[j]
        BY <2>2, <2>3 DEF WorkerInv, AttemptsCounted
    <2> HIDE DEF new
    <2>5. QED
        BY <2>1, <2>3, <2>4, MarkStep
<1>6. CASE MarkJobRetry
    <2> DEFINE j == Current.id
               new == [status |-> "pending", attempts |-> row[j].attempts + 1,
                       due |-> now + Delay(Current.attempts)]
    <2>1. /\ worker.pc = "mark_failed" /\ row' = [row EXCEPT ![j] = new]
          /\ Current.attempts + 1 < MaxAttempts
          /\ worker' = AfterBatch(Tail(worker.batch))
          /\ UNCHANGED <<now, delivered, failures>>
        <3>1. worker.pc = "mark_failed" /\ ~(Current.attempts + 1 >= MaxAttempts)
            BY <1>6 DEF MarkJobRetry, LastAttempt
        <3>2. Current.attempts \in Nat
            BY <3>1, CurrentType
        <3>3. QED
            BY <1>6, <3>1, <3>2, AttemptsArePositive DEF MarkJobRetry
    <2>2. /\ j \in Jobs /\ Current.attempts \in 0..MaxAttempts
          /\ row[j].attempts = Current.attempts
        BY <2>1, CurrentType
    <2>3. Current.attempts < failures[j] /\ failures[j] \in 0..MaxAttempts
        BY <2>1, <2>2 DEF WorkerInv, CurrentJob, TypeOK
    <2>4. now + Delay(Current.attempts) \in Nat
        <3>1. Delay(Current.attempts) \in Nat
            BY <2>2, AttemptsArePositive, DelayPositive
        <3>2. now \in Nat
            BY DEF WorkerInv, TypeOK
        <3>3. QED
            BY <3>1, <3>2
    <2>5. /\ new \in [status : {"pending"}, attempts : 0..MaxAttempts, due : Nat]
          /\ new.attempts <= failures[j] /\ new.attempts < MaxAttempts
        BY <2>1, <2>2, <2>3, <2>4, AttemptsArePositive
    <2> HIDE DEF new
    <2>6. QED
        BY <2>1, <2>5, MarkStep
<1>7. CASE MarkJobPermanent
    <2> DEFINE j == Current.id
               new == [row[j] EXCEPT !.status = "permanent_failure",
                                     !.attempts = @ + 1]
    <2>1. /\ worker.pc = "mark_failed" /\ row' = [row EXCEPT ![j] = new]
          /\ worker' = AfterBatch(Tail(worker.batch))
          /\ UNCHANGED <<now, delivered, failures>>
        BY <1>7 DEF MarkJobPermanent, WorkerInv, TypeOK
    <2>2. /\ j \in Jobs /\ Current.attempts \in 0..MaxAttempts
          /\ row[j].attempts = Current.attempts
        BY <2>1, CurrentType
    <2>3. Current.attempts < failures[j] /\ failures[j] \in 0..MaxAttempts
        BY <2>1, <2>2 DEF WorkerInv, CurrentJob, TypeOK
    <2>4. row[j].attempts + 1 \in 0..MaxAttempts /\ row[j].attempts + 1 <= failures[j]
        BY <2>2, <2>3, AttemptsArePositive
    <2>5. /\ new \in [status : {"permanent_failure"}, attempts : 0..MaxAttempts,
                      due : Nat]
          /\ new.attempts = row[j].attempts + 1
        <3>1. row[j] \in [status : {"none", "pending", "done", "permanent_failure"},
                          attempts : 0..MaxAttempts, due : Nat]
            BY <2>2 DEF WorkerInv, TypeOK
        <3>2. QED
            BY <3>1, <2>4
    <2> HIDE DEF new
    <2>6. QED
        BY <2>1, <2>4, <2>5, MarkStep
<1>8. CASE StoreError \/ Restart
    <2> DEFINE Stopped == [pc : {"claim", "wait", "returned"},
                           firstCycle : BOOLEAN, batch : {<<>>}]
    <2>1. worker' \in Stopped /\ UNCHANGED <<row, now, delivered, failures>>
        <3>1. Started \in Stopped
            BY DEF Started
        <3>2. AfterError \in Stopped
            BY DEF AfterError, WorkerInv, TypeOK
        <3>3. QED
            BY <1>8, <3>1, <3>2 DEF StoreError, Restart
    <2>2. worker'.batch = <<>> /\ worker'.pc \in {"claim", "wait", "returned"}
        BY <2>1
    <2>3. TypeOK'
        <3>1. <<>> \in Seq(Places)
            OBVIOUS
        <3>2. worker' \in [pc : {"claim", "wait", "returned"},
                           firstCycle : BOOLEAN, batch : Seq(Places)]
            BY <2>1, <3>1
        <3>3. QED
            BY <2>1, <3>2 DEF WorkerInv, TypeOK
    <2>4. QED
        BY <2>1, <2>2, <2>3 DEF WorkerInv, BatchFresh, BatchDistinct, CurrentJob,
                                AttemptsCounted
<1>9. CASE Tick
    <2>1. /\ worker'.pc = "claim" /\ worker'.batch = worker.batch
          /\ worker' = [worker EXCEPT !.pc = "claim"]
          /\ UNCHANGED <<row, now, delivered, failures>>
        BY <1>9 DEF Tick, WorkerInv, TypeOK
    <2>2. TypeOK'
        BY <2>1 DEF WorkerInv, TypeOK
    <2>3. QED
        BY <2>1, <2>2 DEF WorkerInv, BatchFresh, BatchDistinct, CurrentJob,
                          AttemptsCounted
<1>10. CASE PassTime
    <2>1. now \in Nat /\ UNCHANGED <<row, worker, delivered, failures>>
        BY <1>10 DEF PassTime, WorkerInv, TypeOK
    <2>2. now' \in Nat /\ now <= now'
        BY <1>10, <2>1, SecondPositive DEF PassTime
    <2>3. TypeOK'
        BY <2>1, <2>2 DEF WorkerInv, TypeOK
    <2>4. BatchFresh'
        <3> SUFFICES ASSUME NEW m \in DOMAIN worker.batch
                     PROVE  SecondOf(row[worker.batch[m].id].due) <= SecondOf(now')
            BY <2>1 DEF WorkerInv, BatchFresh
        <3>1. worker.batch[m] \in Places
            BY PlacesTyped DEF WorkerInv, TypeOK
        <3>2. PICK due \in Nat : due = row[worker.batch[m].id].due
            BY <3>1 DEF WorkerInv, TypeOK
        <3>3. SecondOf(due) <= SecondOf(now)
            BY <3>2 DEF WorkerInv, BatchFresh
        <3>4. /\ SecondOf(due) \in Nat /\ SecondOf(now) \in Nat
              /\ SecondOf(now') \in Nat /\ SecondOf(now) <= SecondOf(now')
            BY <2>1, <2>2, SecondsGrow
        <3>5. SecondOf(due) <= SecondOf(now')
            BY <3>3, <3>4
        <3>6. QED
            BY <3>2, <3>5
    <2>5. QED
        BY <2>1, <2>3, <2>4 DEF WorkerInv, BatchDistinct, CurrentJob, Current,
                                AttemptsCounted
<1>11. CASE UNCHANGED vars
    BY <1>11 DEF vars, WorkerInv, TypeOK, BatchFresh, BatchDistinct, CurrentJob,
                 Current, AttemptsCounted
<1>12. QED
    BY <1>1, <1>2, <1>3, <1>4, <1>5, <1>6, <1>7, <1>8, <1>9, <1>10, <1>11
    DEF Next, Handle, Mark

\* The invariant of the worker holds throughout.
LEMMA WorkerInvariant == Spec => []WorkerInv
<1>1. Init => WorkerInv
    <2> SUFFICES ASSUME Init PROVE WorkerInv
        OBVIOUS
    <2>1. TypeOK
        BY AttemptsArePositive DEF Init, TypeOK, NoRow, Started
    <2>2. worker.batch = <<>> /\ worker.pc = "claim"
        BY DEF Init, Started
    <2>3. QED
        BY <2>1, <2>2 DEF Init, WorkerInv, BatchFresh, BatchDistinct, CurrentJob,
                          AttemptsCounted, NoRow
<1>2. QED
    BY <1>1, WorkerStep, PTL DEF Spec

\* The outbox rows and the worker have their types at all times.
THEOREM TypeCorrect == Spec => []TypeOK
<1>1. WorkerInv => TypeOK
    BY DEF WorkerInv
<1>2. QED
    BY <1>1, WorkerInvariant, PTL

\* No job is handled before the second its backoff ends in (as far as texts of
\* instants tell) or after it is settled, and no mark overwrites an outcome,
\* although nothing locks a claimed row.
THEOREM ClaimedJobsFresh == Spec => []BatchFresh
<1>1. WorkerInv => BatchFresh
    BY DEF WorkerInv
<1>2. QED
    BY <1>1, WorkerInvariant, PTL

-----------------------------------------------------------------------------
(* Refinement                                                               *)

\* Every step of the worker is a step that JobQueue allows, or changes nothing
\* that it shows.
LEMMA QueueStep == WorkerInv /\ [Next]_vars => [Queue!Next]_(Queue!vars)
<1> SUFFICES ASSUME WorkerInv, [Next]_vars
             PROVE  Queue!Next \/ UNCHANGED Queue!vars
    OBVIOUS
<1> DEFINE status == [j \in Jobs |-> row[j].status]
           attempts == [j \in Jobs |-> row[j].attempts]
<1>0. row \in [Jobs -> [status : {"none", "pending", "done", "permanent_failure"},
                        attempts : 0..MaxAttempts, due : Nat]]
    BY DEF WorkerInv, TypeOK
<1>1. ASSUME NEW j \in Jobs, Enqueue(j) PROVE Queue!Publish(j)
    <2>1. row[j].status = "none" /\ row[j].attempts = 0
          /\ row' = [row EXCEPT ![j] = NewRow(now)]
        BY <1>1 DEF Enqueue, WorkerInv, AttemptsCounted
    <2>2. status' = [status EXCEPT ![j] = "pending"]
        BY <1>0, <2>1 DEF NewRow
    <2>3. attempts' = attempts
        BY <1>0, <2>1 DEF NewRow
    <2>4. QED
        BY <1>1, <2>1, <2>2, <2>3 DEF Enqueue, Queue!Publish
<1>2. CASE HandlerSucceeds
    <2>1. Current.id \in Jobs /\ row[Current.id].status = "pending"
        BY <1>2, CurrentType DEF HandlerSucceeds
    <2>2. Queue!Deliver(Current.id)
        BY <1>2, <2>1 DEF HandlerSucceeds, Queue!Deliver
    <2>3. QED
        BY <2>1, <2>2 DEF Queue!Next
<1>3. CASE HandlerFails
    <2> DEFINE j == Current.id
    <2>1. j \in Jobs /\ row[j].status = "pending"
        BY <1>3, CurrentType DEF HandlerFails
    <2>2. CASE failures[j] < MaxAttempts
        <3>1. failures' = [failures EXCEPT ![j] = @ + 1]
            BY <1>3, <2>2 DEF HandlerFails
        <3>2. Queue!Fail(j)
            BY <1>3, <2>1, <2>2, <3>1 DEF HandlerFails, Queue!Fail
        <3>3. QED
            BY <2>1, <3>2 DEF Queue!Next
    <2>3. CASE ~(failures[j] < MaxAttempts)
        <3>1. failures' = failures
            BY <1>3, <2>3 DEF HandlerFails, WorkerInv, TypeOK
        <3>2. QED
            BY <1>3, <3>1 DEF HandlerFails, Queue!vars
    <2>4. QED
        BY <2>2, <2>3
<1>4. CASE MarkJobDone
    <2>0. PICK j : j = Current.id
        OBVIOUS
    <2>1. j \in Jobs /\ row[j].status = "pending" /\ j \in delivered
        BY <2>0, <1>4, CurrentType DEF MarkJobDone, WorkerInv, CurrentJob
    <2>2. row' = [row EXCEPT ![j].status = "done"]
        BY <2>0, <1>4 DEF MarkJobDone
    <2>3. status' = [status EXCEPT ![j] = "done"] /\ attempts' = attempts
        BY <2>0, <1>0, <2>1, <2>2
    <2>4. Queue!Finish(j)
        BY <2>0, <1>4, <2>1, <2>3 DEF MarkJobDone, Queue!Finish
    <2>5. QED
        BY <2>1, <2>4 DEF Queue!Next
<1>5. CASE MarkJobRetry
    <2>0. PICK j : j = Current.id
        OBVIOUS
    <2>1. /\ j \in Jobs /\ row[j].status = "pending"
          /\ row[j].attempts = Current.attempts /\ Current.attempts \in Nat
          /\ Current.attempts < failures[j]
        BY <2>0, <1>5, CurrentType DEF MarkJobRetry, WorkerInv, CurrentJob
    <2>2. Current.attempts + 1 # MaxAttempts
        BY <2>0, <1>5, <2>1, AttemptsArePositive DEF MarkJobRetry, LastAttempt
    <2>3. row' = [row EXCEPT ![j] =
                    [status |-> "pending", attempts |-> row[j].attempts + 1,
                     due |-> now + Delay(Current.attempts)]]
        BY <2>0, <1>5 DEF MarkJobRetry
    <2>4. status' = status /\ attempts' = [attempts EXCEPT ![j] = row[j].attempts + 1]
        BY <2>0, <1>0, <2>1, <2>3
    <2>5. Queue!Record(j)
        <3>1. attempts[j] = row[j].attempts /\ status[j] = "pending"
              /\ status = [status EXCEPT ![j] = "pending"]
            BY <2>1
        <3>2. QED
            BY <2>0, <1>5, <2>1, <2>2, <2>4, <3>1 DEF MarkJobRetry, Queue!Record
    <2>6. QED
        BY <2>1, <2>5 DEF Queue!Next
<1>6. CASE MarkJobPermanent
    <2>0. PICK j : j = Current.id
        OBVIOUS
    <2>1. /\ j \in Jobs /\ row[j].status = "pending"
          /\ row[j].attempts = Current.attempts /\ Current.attempts \in Nat
          /\ Current.attempts < failures[j] /\ Current.attempts < MaxAttempts
        BY <2>0, <1>6, CurrentType DEF MarkJobPermanent, WorkerInv, CurrentJob
    <2>2. Current.attempts + 1 = MaxAttempts
        BY <2>0, <1>6, <2>1, AttemptsArePositive DEF MarkJobPermanent, LastAttempt
    <2>3. row' = [row EXCEPT ![j].status = "permanent_failure",
                             ![j].attempts = @ + 1]
        BY <2>0, <1>6 DEF MarkJobPermanent
    <2>4. /\ status' = [status EXCEPT ![j] = "permanent_failure"]
          /\ attempts' = [attempts EXCEPT ![j] = row[j].attempts + 1]
        BY <2>0, <1>0, <2>1, <2>3
    <2>5. Queue!Record(j)
        <3>1. attempts[j] = row[j].attempts /\ status[j] = "pending"
            BY <2>1
        <3>2. QED
            BY <2>0, <1>6, <2>1, <2>2, <2>4, <3>1 DEF MarkJobPermanent, Queue!Record
    <2>6. QED
        BY <2>1, <2>5 DEF Queue!Next
<1>7. CASE \/ ClaimDue \/ StoreError \/ Tick \/ PassTime \/ Restart
           \/ UNCHANGED vars
    <2>1. UNCHANGED <<row, delivered, failures>>
        BY <1>7 DEF ClaimDue, StoreError, Tick, PassTime, Restart, vars
    <2>2. QED
        BY <2>1 DEF Queue!vars
<1>8. QED
    BY <1>1, <1>2, <1>3, <1>4, <1>5, <1>6, <1>7 DEF Next, Handle, Mark, Queue!Next

\* The outbox implements JobQueue: done only after a delivery, each recorded
\* attempt a failure, given up only when the attempts are used up, and an
\* outcome final, whatever is interrupted.
THEOREM OutboxImplementsJobQueue == Spec => ImplementsJobQueue
<1>1. Init => Queue!Init
    BY DEF Init, Queue!Init, NoRow
<1>2. QED
    BY <1>1, WorkerInvariant, QueueStep, PTL DEF Spec, ImplementsJobQueue, Queue!Spec

=============================================================================
