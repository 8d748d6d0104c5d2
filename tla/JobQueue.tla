------------------------------- MODULE JobQueue -------------------------------
(***************************************************************************)
(* What the outbox promises of each job ("durable outbox processing with    *)
(* retry and permanent failure"): it is done only after its handler has     *)
(* succeeded, each recorded attempt stands for a handler failure, it is     *)
(* given up only when the attempts are used up, and an outcome is final.    *)
(* Outbox implements this (property Outbox!ImplementsJobQueue).             *)
(***************************************************************************)
EXTENDS Integers

CONSTANTS Jobs, MaxAttempts

VARIABLES
    status,     \* of each job: "none", "pending", "done", "permanent_failure"
    attempts,   \* recorded attempts
    delivered,  \* jobs whose handler has succeeded at least once
    failures    \* handler failures, counted up to MaxAttempts

vars == <<status, attempts, delivered, failures>>

Init ==
    /\ status = [j \in Jobs |-> "none"]
    /\ attempts = [j \in Jobs |-> 0]
    /\ delivered = {}
    /\ failures = [j \in Jobs |-> 0]

Publish(j) ==
    /\ status[j] = "none"
    /\ status' = [status EXCEPT ![j] = "pending"]
    /\ UNCHANGED <<attempts, delivered, failures>>

\* A delivery may be repeated: at least once, not exactly once.
Deliver(j) ==
    /\ status[j] = "pending"
    /\ delivered' = delivered \cup {j}
    /\ UNCHANGED <<status, attempts, failures>>

Fail(j) ==
    /\ status[j] = "pending"
    /\ failures[j] < MaxAttempts
    /\ failures' = [failures EXCEPT ![j] = @ + 1]
    /\ UNCHANGED <<status, attempts, delivered>>

Finish(j) ==
    /\ status[j] = "pending"
    /\ j \in delivered
    /\ status' = [status EXCEPT ![j] = "done"]
    /\ UNCHANGED <<attempts, delivered, failures>>

\* The attempt is recorded; the last one settles the job.
Record(j) ==
    /\ status[j] = "pending"
    /\ attempts[j] < failures[j]
    /\ attempts' = [attempts EXCEPT ![j] = @ + 1]
    /\ status' = [status EXCEPT ![j] =
                    IF attempts[j] + 1 = MaxAttempts THEN "permanent_failure"
                    ELSE "pending"]
    /\ UNCHANGED <<delivered, failures>>

Next == \E j \in Jobs : \/ Publish(j) \/ Deliver(j) \/ Fail(j)
                        \/ Finish(j) \/ Record(j)

Spec == Init /\ [][Next]_vars

=============================================================================
