------------------------------- MODULE Sessions -------------------------------
(***************************************************************************)
(* Login, Authenticate and Logout of src/internal/service/auth over the     *)
(* rows of operator_sessions, and the chain of src/internal/middleware in   *)
(* which a request is authenticated before its handler runs.  Rows survive  *)
(* the process, requests do not.  Operators never change once bootstrapped, *)
(* so the look-up of the operator is part of the statement beside it.       *)
(* Passwords, hashes and the randomness of tokens are left out: a login     *)
(* that gets this far has the right password and draws an unused token.     *)
(***************************************************************************)
EXTENDS Integers

CONSTANTS
    Tokens,
    Slots,          \* BOUND: requests under way at a time
    SessionTTL,     \* ticks
    NoSession

ASSUME SessionTTLIsNat == SessionTTL \in Nat
ASSUME NoSessionIsNoSession ==
    NoSession \notin [expires : Nat, revoked : BOOLEAN]

VARIABLES
    sessions,   \* operator_sessions: [expires, revoked], NoSession if none
    request,    \* of each slot: the request, between two statements
    loggedOut   \* history: tokens whose logout has been answered

sessionVars == <<sessions, request, loggedOut>>

-----------------------------------------------------------------------------
Idle == [at |-> "idle"]

\* A request remembers whether by its arrival its token had been logged out, and
\* whether the time that Login told had passed.
Requests ==
    {Idle, [at |-> "login"]}
    \cup [at : {"verify", "work", "logout"}, kind : {"work", "logout"},
          token : Tokens, loggedOut : BOOLEAN, expired : BOOLEAN]

SessionsInit ==
    /\ sessions = [t \in Tokens |-> NoSession]
    /\ request = [r \in Slots |-> Idle]
    /\ loggedOut = {}

\* The process ends.
RequestsLost ==
    /\ request' = [r \in Slots |-> Idle]
    /\ UNCHANGED <<sessions, loggedOut>>

-----------------------------------------------------------------------------
\* The paths of login and health are public.
LoginArrives(r) ==
    /\ request[r] = Idle
    /\ request' = [request EXCEPT ![r] = [at |-> "login"]]
    /\ UNCHANGED <<sessions, loggedOut>>

CallArrives(r, kind, t, now) ==
    /\ request[r] = Idle
    /\ request' = [request EXCEPT ![r] =
                     [at |-> "verify", kind |-> kind, token |-> t,
                      loggedOut |-> t \in loggedOut,
                      expired |-> sessions[t] # NoSession
                                  /\ now >= sessions[t].expires]]
    /\ UNCHANGED <<sessions, loggedOut>>

Login(r, wall) ==
    /\ request[r].at = "login"
    /\ \E t \in Tokens :
          /\ sessions[t] = NoSession
          /\ sessions' = [sessions EXCEPT ![t] =
                            [expires |-> wall + SessionTTL, revoked |-> FALSE]]
    /\ request' = [request EXCEPT ![r] = Idle]
    /\ UNCHANGED loggedOut

\* Mutated form: the revocation not looked at.
ValidAtRevoked(session, wall) == wall < session.expires
\* Session.ValidAt
ValidAt(session, wall) == ~session.revoked /\ wall < session.expires

\* Authentication lets the request through to its handler.
Authenticate(r, wall) ==
    /\ request[r].at = "verify"
    /\ LET session == sessions[request[r].token]
       IN  session # NoSession /\ ValidAt(session, wall)
    /\ request' = [request EXCEPT ![r].at = request[r].kind]
    /\ UNCHANGED <<sessions, loggedOut>>

\* Logout: RevokeSession, and its answer.
Logout(r) ==
    /\ request[r].at = "logout"
    /\ sessions' = [sessions EXCEPT ![request[r].token].revoked = TRUE]
    /\ loggedOut' = loggedOut \cup {request[r].token}
    /\ request' = [request EXCEPT ![r] = Idle]

\* RevokeSession takes effect, but the timeout of the chain answers.
LogoutUnanswered(r) ==
    /\ request[r].at = "logout"
    /\ sessions' = [sessions EXCEPT ![request[r].token].revoked = TRUE]
    /\ request' = [request EXCEPT ![r] = Idle]
    /\ UNCHANGED loggedOut

\* A handler is done, or any statement is refused or its time is over.
EndRequest(r) ==
    /\ request[r] # Idle
    /\ request' = [request EXCEPT ![r] = Idle]
    /\ UNCHANGED <<sessions, loggedOut>>

-----------------------------------------------------------------------------
\* Past authentication, with the rights of its operator.
Trusted(r) == request[r].at \in {"work", "logout"}

=============================================================================
