-------------------------------- MODULE Sessions --------------------------------
(***************************************************************************)
(* Access tokens and what Redis remembers about them (core/auth.py,           *)
(* core/deps.py), and the one-use state of a Google sign-in                   *)
(* (services/oauth_service.py).                                               *)
(*                                                                          *)
(* Time counts fractions of a second: a token's exp claim is cut to whole     *)
(* seconds, and so are the clock that checks it and the life of the Redis key *)
(* that revokes it.  The host need not keep UTC: the life of that key is       *)
(* computed from a clock reading that the host's time zone shifts.             *)
(***************************************************************************)
EXTENDS Integers

CONSTANTS
    Session,    \* access tokens
    State,      \* states of sign-ins with Google
    Worker,     \* callbacks in progress at once
    None,
    Fraction,   \* clock ticks in a second
    Life,       \* JWT_EXPIRATION_MINUTES, in ticks
    Offset,     \* bound: a host's local time is at most so many seconds off UTC
    StateLife,  \* OAUTH_STATE_TTL_SECONDS, in ticks
    MaxTime     \* bound on the clock

VARIABLES
    now,        \* the clock
    zone,       \* the host's local time minus UTC, in ticks; it never changes
    exp,        \* exp[s]: the token's exp claim, None before it is issued
    blacklist,  \* blacklist[s]: when its Redis key disappears, None without one
    states,     \* states[x]: when its Redis key disappears, None without one
    callbacks,  \* callbacks[x]: sign-ins that were let in with state x
    req         \* req[w]: the state that callback w has found and not deleted yet

svars == <<now, zone, exp, blacklist, states, callbacks, req>>

-------------------------------------------------------------------------------
WholeSeconds(t) == (t \div Fraction) * Fraction
Present(key) == key # None /\ now < key

\* verify_token: jose compares whole seconds, and lets the last one pass.
Verifies(s) == exp[s] # None /\ WholeSeconds(now) <= exp[s]

\* get_current_user
Accepted(s) == Verifies(s) /\ ~Present(blacklist[s])

\* create_access_token
Issue(s) ==
    /\ exp[s] = None
    /\ exp' = [exp EXCEPT ![s] = WholeSeconds(now + Life)]
    /\ UNCHANGED <<now, blacklist, states, callbacks, req>>

\* datetime.utcnow().timestamp(): a naive datetime is taken for local time.
Timestamp == now - zone

RemainingLife_Capped(s) == Fraction  \* mutant: as if every token were about to expire
\* int(exp - timestamp), and 0 once exp has passed by that clock.
RemainingLife(s) == IF exp[s] > Timestamp THEN WholeSeconds(exp[s] - Timestamp) ELSE 0

\* Redis refuses a key with no life left: the request fails and revokes nothing.
Logout(s) ==
    /\ Accepted(s) /\ RemainingLife(s) > 0
    /\ blacklist' = [blacklist EXCEPT ![s] = now + RemainingLife(s)]
    /\ UNCHANGED <<now, exp, states, callbacks, req>>

-------------------------------------------------------------------------------
(* Google sign-in: the state is made for one callback *)

Authorize(x) ==
    /\ states[x] = None
    /\ states' = [states EXCEPT ![x] = now + StateLife]
    /\ UNCHANGED <<now, exp, blacklist, callbacks, req>>

\* _validate_oauth_state: redis.exists ...
FindState(w, x) ==
    /\ req[w] = None /\ Present(states[x])
    /\ req' = [req EXCEPT ![w] = x]
    /\ UNCHANGED <<now, exp, blacklist, states, callbacks>>

DeleteState_Kept(w) ==               \* mutant: the key is left to expire
    /\ req[w] # None
    /\ callbacks' = [callbacks EXCEPT ![req[w]] = @ + 1]
    /\ req' = [req EXCEPT ![w] = None]
    /\ UNCHANGED <<now, exp, blacklist, states>>
\* ... and redis.delete, after which the sign-in goes on.
DeleteState(w) ==
    /\ req[w] # None
    /\ states' = [states EXCEPT ![req[w]] = 0]
    /\ callbacks' = [callbacks EXCEPT ![req[w]] = @ + 1]
    /\ req' = [req EXCEPT ![w] = None]
    /\ UNCHANGED <<now, exp, blacklist>>

Pass ==
    /\ now < MaxTime
    /\ now' = now + 1
    /\ UNCHANGED <<exp, blacklist, states, callbacks, req>>

-------------------------------------------------------------------------------
Init ==
    /\ now = 0 /\ zone \in {Fraction * k : k \in -Offset..Offset}
    /\ exp = [s \in Session |-> None]
    /\ blacklist = [s \in Session |-> None]
    /\ states = [x \in State |-> None]
    /\ callbacks = [x \in State |-> 0]
    /\ req = [w \in Worker |-> None]

Next ==
    /\ \/ \E s \in Session : Issue(s) \/ Logout(s)
       \/ \E x \in State : Authorize(x) \/ \E w \in Worker : FindState(w, x)
       \/ \E w \in Worker : DeleteState(w)
       \/ Pass
    /\ UNCHANGED zone

-------------------------------------------------------------------------------
\* On a host that keeps UTC, or is east of it, a session that was logged out is
\* accepted again in the last second of the token at the earliest, never before: the
\* Redis key outlives the rest of it (core/auth.py blacklist_token, verify_token).
\* West of UTC the key is gone by as much earlier.
LoggedOutStaysOut ==
    zone >= 0 =>
        \A s \in Session : blacklist[s] # None /\ Accepted(s) => now + Fraction > exp[s]

\* A sign-in state is used for one callback.
StateUsedOnce == \A x \in State : callbacks[x] <= 1
===============================================================================
