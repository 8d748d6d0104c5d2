-------------------------------- MODULE Outbox --------------------------------
(***************************************************************************)
(* The outbox table and the worker that drains it                           *)
(* (src/internal/storage/sqlite/audit_outbox.go, src/internal/worker).      *)
(* The worker is one goroutine; each of its statements and each handler     *)
(* call is a step, and requests enqueue jobs in between.  A restart of the  *)
(* process may come at any point: the rows stay, the claimed batch is gone. *)
(***************************************************************************)
EXTENDS Integers, Sequences, FiniteSets, Functions, TimeText

CONSTANTS
    Jobs,
    MaxAttempts,    \* 5 in cmd/server/main.go
    BatchSize,      \* 20 in cmd/server/main.go
    Fractions       \* BOUND: fractions of a second, in ticks of TimeText, at
                    \* which something happens

ASSUME AttemptsArePositive == MaxAttempts \in Nat \ {0}
ASSUME BatchIsPositive == BatchSize \in Nat \ {0}
ASSUME JobsAreFinite == IsFiniteSet(Jobs)
ASSUME FractionsAreFractions == Fractions \subseteq 0..(Second - 1)

VARIABLES
    row,        \* outbox_jobs
    now,        \* the wall clock, in ticks of TimeText; it is not set back
    worker,     \* [pc, firstCycle, batch, outcome]
    delivered,  \* history: jobs whose handler has returned without error
    failures    \* history: handler errors, counted up to MaxAttempts

vars == <<row, now, worker, delivered, failures>>

-----------------------------------------------------------------------------
SecondOf(t) == t \div Second

NoRow == [status |-> "none", attempts |-> 0, due |-> 0]
NewRow(due) == [status |-> "pending", attempts |-> 0, due |-> due]

\* delay := 1 << min(job.Attempts, 6) seconds
Delay(attempts) == 2 ^ (IF attempts < 6 THEN attempts ELSE 6) * Second

Started == [pc |-> "claim", firstCycle |-> TRUE, batch |-> <<>>]

Init ==
    /\ row = [j \in Jobs |-> NoRow]
    /\ now = 0
    /\ worker = Started
    /\ delivered = {}
    /\ failures = [j \in Jobs |-> 0]

\* A transaction of module Operations inserts the row, due at once.
Enqueue(j) ==
    /\ row[j].status = "none"
    /\ row' = [row EXCEPT ![j] = NewRow(now)]
    /\ UNCHANGED <<now, worker, delivered, failures>>

-----------------------------------------------------------------------------
(* The worker's cycle                                                       *)

\* Mutated forms: rows that are settled, or not due yet, are claimed too.
ClaimableAnyStatus(j) ==
    row[j].status # "none" /\ ~TextBefore(now, row[j].due)
ClaimableNotDue(j) == row[j].status = "pending"
\* next_attempt_at <= now, on texts: within a second the whole second counts as
\* the latest moment, as a row to be claimed and as the time of the claim.
Claimable(j) == row[j].status = "pending" /\ ~TextBefore(now, row[j].due)

\* ORDER BY next_attempt_at LIMIT BatchSize, ties in any order; the worker
\* keeps the attempts it read.
Batches ==
    LET ready == {[id |-> j, attempts |-> row[j].attempts] :
                     j \in {i \in Jobs : Claimable(i)}}
        size == IF Cardinality(ready) < BatchSize THEN Cardinality(ready)
                ELSE BatchSize
        NotAfter(a, b) == ~TextBefore(row[b.id].due, row[a.id].due)
    IN  {batch \in [1..size -> ready] :
            /\ \A m, n \in 1..size : m < n =>
                  batch[m] # batch[n] /\ NotAfter(batch[m], batch[n])
            /\ \A m \in 1..size, left \in ready \ Range(batch) :
                  NotAfter(batch[m], left)}

\* The end of a cycle, or of the loop over the batch.
AfterBatch(batch) ==
    IF batch = <<>> THEN [pc |-> "wait", firstCycle |-> FALSE, batch |-> <<>>]
    ELSE [worker EXCEPT !.pc = "handle", !.batch = batch]

ClaimDue ==
    /\ worker.pc = "claim"
    /\ \E b \in Batches : worker' = AfterBatch(b)
    /\ UNCHANGED <<row, now, delivered, failures>>

Current == Head(worker.batch)

HandlerSucceeds ==
    /\ worker.pc = "handle"
    /\ delivered' = delivered \cup {Current.id}
    /\ worker' = [worker EXCEPT !.pc = "mark_done"]
    /\ UNCHANGED <<row, now, failures>>

HandlerFails ==
    /\ worker.pc = "handle"
    /\ failures' = [failures EXCEPT ![Current.id] =
                      IF @ < MaxAttempts THEN @ + 1 ELSE @]
    /\ worker' = [worker EXCEPT !.pc = "mark_failed"]
    /\ UNCHANGED <<row, now, delivered>>

MarkJobDone ==
    /\ worker.pc = "mark_done"
    /\ row' = [row EXCEPT ![Current.id].status = "done"]
    /\ worker' = AfterBatch(Tail(worker.batch))
    /\ UNCHANGED <<now, delivered, failures>>

\* Mutated forms: one attempt too many, one too few.
LastAttemptLate(attempts) == attempts >= MaxAttempts
LastAttemptEarly(attempts) == attempts + 2 >= MaxAttempts
LastAttempt(attempts) == attempts + 1 >= MaxAttempts

MarkJobRetry ==
    /\ worker.pc = "mark_failed"
    /\ ~LastAttempt(Current.attempts)
    /\ row' = [row EXCEPT ![Current.id] =
                 [status |-> "pending", attempts |-> @.attempts + 1,
                  due |-> now + Delay(Current.attempts)]]
    /\ worker' = AfterBatch(Tail(worker.batch))
    /\ UNCHANGED <<now, delivered, failures>>

MarkJobPermanent ==
    /\ worker.pc = "mark_failed"
    /\ LastAttempt(Current.attempts)
    /\ row' = [row EXCEPT ![Current.id].status = "permanent_failure",
                          ![Current.id].attempts = @ + 1]
    /\ worker' = AfterBatch(Tail(worker.batch))
    /\ UNCHANGED <<now, delivered, failures>>

\* Run returns the error of the cycle it starts with; later cycles log it and
\* wait for the next tick.
AfterError ==
    [pc |-> IF worker.firstCycle THEN "returned" ELSE "wait",
     firstCycle |-> worker.firstCycle, batch |-> <<>>]

\* The statement fails (busy, disk full, ...) and ends the cycle.
StoreError ==
    /\ worker.pc \in {"claim", "mark_done", "mark_failed"}
    /\ worker' = AfterError
    /\ UNCHANGED <<row, now, delivered, failures>>

Tick ==
    /\ worker.pc = "wait"
    /\ worker' = [worker EXCEPT !.pc = "claim"]
    /\ UNCHANGED <<row, now, delivered, failures>>

-----------------------------------------------------------------------------
(* Environment                                                              *)

\* Time is observed only through jobs until the second they fall due in is over,
\* so it stands still when there is none: this bounds it.
PassTime ==
    /\ \E j \in Jobs : row[j].status = "pending"
                       /\ SecondOf(now) <= SecondOf(row[j].due)
    /\ \E t \in (now + 1)..(now + Second) :
          t % Second \in Fractions /\ now' = t
    /\ UNCHANGED <<row, worker, delivered, failures>>

Restart ==
    /\ worker' = Started
    /\ UNCHANGED <<row, now, delivered, failures>>

Handle == HandlerSucceeds \/ HandlerFails
Mark == MarkJobDone \/ MarkJobRetry \/ MarkJobPermanent

Next ==
    \/ \E j \in Jobs : Enqueue(j)
    \/ ClaimDue \/ Handle \/ Mark \/ StoreError \/ Tick
    \/ PassTime \/ Restart

\* The goroutine is scheduled and time passes.  Store errors and restarts may
\* recur, but not so that a statement reached again and again never succeeds;
\* nobody promises a restart.
Fairness ==
    /\ WF_vars(Tick) /\ WF_vars(PassTime)
    /\ SF_vars(ClaimDue) /\ SF_vars(Handle) /\ SF_vars(Mark)

Spec == Init /\ [][Next]_vars
FairSpec == Spec /\ Fairness

-----------------------------------------------------------------------------
Pending(j) == row[j].status = "pending"
Settled(j) == row[j].status \in {"done", "permanent_failure"}

TypeOK ==
    /\ row \in [Jobs -> [status : {"none", "pending", "done",
                                   "permanent_failure"},
                         attempts : 0..MaxAttempts, due : Nat]]
    /\ now \in Nat
    /\ worker \in [pc : {"claim", "handle", "mark_done", "mark_failed",
                         "wait", "returned"},
                   firstCycle : BOOLEAN,
                   batch : Seq([id : Jobs, attempts : 0..MaxAttempts])]
    /\ delivered \subseteq Jobs
    /\ failures \in [Jobs -> 0..MaxAttempts]

\* What the worker remembers of a claimed job stays true until it has marked
\* it, although nothing locks the row: it is pending, has the attempts that
\* were read, and the second it falls due in has begun.  So no job is handled
\* after it is settled, nor a second or more before its backoff has passed (but
\* up to a second, as texts sort), and the mark, which checks nothing, never
\* overwrites an outcome.
BatchFresh ==
    \A m \in DOMAIN worker.batch :
        LET job == worker.batch[m]
        IN  /\ row[job.id].status = "pending"
            /\ SecondOf(row[job.id].due) <= SecondOf(now)
            /\ row[job.id].attempts = job.attempts

Queue == INSTANCE JobQueue
    WITH status <- [j \in Jobs |-> row[j].status],
         attempts <- [j \in Jobs |-> row[j].attempts]

\* The worker keeps the promises of JobQueue through errors and restarts.
ImplementsJobQueue == Queue!Spec

\* A pending job is eventually done or given up, unless Run has returned.
SettlesWhileRunning ==
    \A j \in Jobs : Pending(j) ~> Settled(j) \/ worker.pc = "returned"

\* Every pending job is eventually done or given up ("durable outbox
\* processing", README.md:14).  A store error in the first cycle ends the
\* worker for the life of the process: see the README.
EveryJobSettles == \A j \in Jobs : Pending(j) ~> Settled(j)

=============================================================================
