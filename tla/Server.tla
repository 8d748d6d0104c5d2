-------------------------------- MODULE Server --------------------------------
(***************************************************************************)
(* The process of src/cmd/server/main.go: started over a database, serving  *)
(* requests that pass the rate limiter and then authentication, stopped and *)
(* started again.  Buckets and requests are lost with the process, sessions *)
(* and the other tables are not.                                            *)
(***************************************************************************)
EXTENDS Startup, RateLimiter, Sessions

CONSTANTS
    Moments,        \* BOUND: the moments at which something happens
    SetBacks,       \* BOUND: ticks by which the wall clock is set back in all
    Advances        \* BOUND: ticks by which it is set forward in all

ASSUME MomentsAssumption ==
    /\ Moments \subseteq Nat /\ SetBacks \subseteq Nat /\ Advances \subseteq Nat
    /\ 0 \in Moments /\ 0 \in SetBacks /\ 0 \in Advances

VARIABLES
    now,        \* real time, in ticks
    advanced,   \* ticks by which the wall clock has been set forward in all
    setBack     \* ticks by which it has been set back in all

clockVars == <<now, advanced, setBack>>
serverVars == <<startupVars, limiterVars, sessionVars, clockVars>>

-----------------------------------------------------------------------------
\* What a clock shows that was never set back: real time and steps forward.
elapsed == now + advanced
wall == elapsed - setBack

Init ==
    /\ StartupInit /\ LimiterInit /\ SessionsInit
    /\ now = 0 /\ advanced = 0 /\ setBack = 0

Start ==
    /\ StartupStep
    /\ UNCHANGED <<limiterVars, sessionVars, clockVars>>

\* ListenAndServe returns an error, at once or later.
ServingFails ==
    /\ ListenFails
    /\ UNCHANGED <<limiterVars, sessionVars, clockVars>>

\* A signal or a crash: see run of main.go; requests under way are cut off.
Stop ==
    /\ StopProcess /\ LimiterLost /\ RequestsLost
    /\ UNCHANGED clockVars

\* Start-up takes less than a tick: none of its statements looks at a bucket or
\* a session.
Tick ==
    /\ phase \in Settled
    /\ \E t \in Moments : t > now /\ now' = t
    /\ UNCHANGED <<startupVars, limiterVars, sessionVars, advanced, setBack>>

\* NTP or an operator of the host; what clients were told is no longer right.
ClockSetBack ==
    /\ phase \in Settled
    /\ \E d \in SetBacks : d > setBack /\ d <= elapsed /\ setBack' = d
    /\ told' = [c \in Clients |-> Never]
    /\ UNCHANGED <<startupVars, buckets, admitted, refusals, sessionVars,
                   now, advanced>>

\* The same forward, as when a clock that was set back is corrected.
ClockSetForward ==
    /\ phase \in Settled
    /\ \E d \in Advances : d > advanced /\ advanced' = d
    /\ UNCHANGED <<startupVars, limiterVars, sessionVars, now, setBack>>

\* RateLimit comes before Authentication in the chain: a request without a
\* valid token costs its client a token of the bucket as well.
Arrive(c, r) ==
    /\ phase = "up"
    /\ Admit(c, elapsed, wall)
    /\ \/ LoginArrives(r)
       \/ \E t \in Tokens, kind \in {"work", "logout"} :
             CallArrives(r, kind, t, elapsed)
    /\ UNCHANGED <<startupVars, clockVars>>

Limited(c) ==
    /\ phase = "up"
    /\ Refuse(c, elapsed, wall)
    /\ UNCHANGED <<startupVars, sessionVars, clockVars>>

Handle(r) ==
    /\ \/ Login(r, wall)
       \/ Authenticate(r, wall)
       \/ Logout(r)
       \/ LogoutUnanswered(r)
       \/ EndRequest(r)
    /\ UNCHANGED <<startupVars, limiterVars, clockVars>>

Next ==
    \/ Start \/ ServingFails \/ Stop
    \/ Tick \/ ClockSetBack \/ ClockSetForward
    \/ \E c \in Clients : Limited(c) \/ \E r \in Slots : Arrive(c, r)
    \/ \E r \in Slots : Handle(r)

Spec == Init /\ [][Next]_serverVars /\ WF_serverVars(Start)

-----------------------------------------------------------------------------
TypeOK ==
    /\ StartupTypeOK
    /\ LimiterTypeOK
    /\ request \in [Slots -> Requests]
    /\ \A t \in Tokens : sessions[t] # NoSession =>
          sessions[t].expires \in Nat /\ sessions[t].revoked \in BOOLEAN
    /\ loggedOut \subseteq Tokens
    /\ now \in Moments /\ advanced \in Advances /\ setBack \in SetBacks

\* No request is let through that arrived after its client was told that it is
\* logged out, or after its session had expired (unless the clock was set back),
\* or with a token no login gave out: whatever other requests of the session
\* race with it, and whether or not the process was restarted in between.
OnlyLiveSessionsTrusted ==
    \A r \in Slots : Trusted(r) =>
        /\ sessions[request[r].token] # NoSession
        /\ ~request[r].loggedOut
        /\ setBack = 0 => ~request[r].expired

\* Wherever start-up is broken off, the next start works with what it left: in
\* the end the server listens, unless migration 2 meets a plate that is taken.
\* Or it is deaf: an error of ListenAndServe is only logged, so that the process
\* lives on without serving, and nothing starts it again.
EventuallyServes ==
    ~(db.version < 2 /\ Collides(db.vehicles)) => <>[](phase \in {"up", "deaf"})

=============================================================================
