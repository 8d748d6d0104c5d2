------------------------------ MODULE RateLimiter ------------------------------
(***************************************************************************)
(* The token buckets of src/internal/ratelimit/limiter.go and the answers   *)
(* of RateLimit (src/internal/middleware/limits.go).  A bucket is filled    *)
(* from the wall clock (Now().UTC() has no monotonic part), which may have  *)
(* been set back since.  "now" is the time of a clock that was not: real    *)
(* time, and what the wall clock was set forward in all, which a bucket     *)
(* cannot tell from it.                                                     *)
(* Tokens are counted in ticks, the time in which the refill gives one      *)
(* unit: a request costs TokenTicks of them.                                *)
(***************************************************************************)
EXTENDS Integers, Sequences

CONSTANTS
    Clients,        \* client addresses, the keys of the buckets
    Capacity,       \* tokens in a full bucket
    TokenTicks,     \* ticks in which one token is refilled
    SecondTicks,    \* ticks in a second
    Never

ASSUME LimiterAssumption ==
    /\ Capacity \in Nat \ {0} /\ TokenTicks \in Nat \ {0}
    /\ SecondTicks \in Nat \ {0}
    /\ Never \notin Nat \cup [tokens : Nat, updated : Nat]

VARIABLES
    buckets,    \* of each client [tokens, updated], Never if it has none
    admitted,   \* history: when this process admitted requests of the client
    told,       \* history: the earliest moment a refused client may come back
    refusals    \* history: how often in a row a client that came back as it
                \* was told has been refused

limiterVars == <<buckets, admitted, told, refusals>>

-----------------------------------------------------------------------------
Full == Capacity * TokenTicks
Least(a, b) == IF a < b THEN a ELSE b
Greatest(a, b) == IF a > b THEN a ELSE b

LimiterInit ==
    /\ buckets = [c \in Clients |-> Never]
    /\ admitted = [c \in Clients |-> <<>>]
    /\ told = [c \in Clients |-> Never]
    /\ refusals = [c \in Clients |-> 0]

\* The process ends: the buckets are gone, and a client that was refused
\* starts over.
LimiterLost ==
    /\ buckets' = [c \in Clients |-> Never]
    /\ admitted' = [c \in Clients |-> <<>>]
    /\ told' = [c \in Clients |-> Never]
    /\ refusals' = [c \in Clients |-> 0]

\* Mutated form: no cap on the refill.
RefilledBeyond(c, wall) ==
    IF buckets[c] = Never THEN Full
    ELSE buckets[c].tokens + Greatest(wall - buckets[c].updated, 0)
\* The tokens of c at the wall time given, before the request takes one.
Refilled(c, wall) ==
    IF buckets[c] = Never THEN Full
    ELSE Least(Full, buckets[c].tokens + Greatest(wall - buckets[c].updated, 0))

\* Mutated form: a second, however long the refill takes.
RetryAfterSecond(tokens) == SecondTicks
\* RetryAfter: until a token is there, but at least a second.
RetryAfter(tokens) == Greatest(TokenTicks - tokens, SecondTicks)

\* Retry-After: to the nearest second, half a second upwards, at least one.
RetryHeader(duration) ==
    LET part == duration % SecondTicks
    IN  Greatest(SecondTicks,
                 IF part + part < SecondTicks
                 THEN duration - part
                 ELSE duration - part + SecondTicks)

\* Allow for a request of c that finds a token.
Admit(c, now, wall) ==
    /\ Refilled(c, wall) >= TokenTicks
    /\ buckets' = [buckets EXCEPT ![c] =
                     [tokens |-> Refilled(c, wall) - TokenTicks,
                      updated |-> wall]]
    /\ admitted' = [admitted EXCEPT ![c] = Append(@, now)]
    /\ told' = [told EXCEPT ![c] = Never]
    /\ refusals' = [refusals EXCEPT ![c] = 0]

\* Mutated form: the refill is kept, but not the time it was made for.
RefuseUnstamped(c, now, wall) ==
    /\ Refilled(c, wall) < TokenTicks
    /\ buckets' = [buckets EXCEPT ![c].tokens = Refilled(c, wall)]
    /\ told' = [told EXCEPT ![c] = now + SecondTicks]
    /\ UNCHANGED <<admitted, refusals>>
\* Allow for one that does not: it is told when to come back.
Refuse(c, now, wall) ==
    /\ Refilled(c, wall) < TokenTicks
    /\ buckets' = [buckets EXCEPT ![c] =
                     [tokens |-> Refilled(c, wall), updated |-> wall]]
    /\ told' = [told EXCEPT ![c] =
                  now + RetryHeader(RetryAfter(Refilled(c, wall)))]
    /\ refusals' = [refusals EXCEPT ![c] =
                      IF told[c] # Never /\ now >= told[c] THEN @ + 1 ELSE 0]
    /\ UNCHANGED admitted

-----------------------------------------------------------------------------
LimiterTypeOK ==
    /\ \A c \in Clients :
          /\ buckets[c] # Never =>
                /\ buckets[c].tokens
                      \in 0..Greatest(Full - TokenTicks, TokenTicks - 1)
                /\ buckets[c].updated \in Nat
          /\ told[c] \in Nat \cup {Never}
    /\ DOMAIN buckets = Clients

\* Between any two requests that one process admits, at most a full bucket is
\* spent and the refill of the real time in between and of the steps forward that
\* the clock made in it: a step back is never refilled for, though the bucket then
\* counts some seconds twice, but a step forward that corrects it is.
RateBounded ==
    \A c \in Clients : \A i, j \in DOMAIN admitted[c] :
        i <= j => (j - i + 1) * TokenTicks
                      <= Full + admitted[c][j] - admitted[c][i]

\* The header is rounded down by up to half a second, so a client that waits
\* as told may be refused again, but only once: the second answer is at least
\* the second that the first was short of.
ObedientAdmitted == \A c \in Clients : refusals[c] <= 1

=============================================================================
