------------------------------- MODULE RateLimiter -------------------------------
(***************************************************************************)
(* RateLimitMiddleware of middleware/rate_limiter.py, for one client.         *)
(*                                                                          *)
(* One RateLimiter serves all requests.  A request stores the limit of its    *)
(* own path in the limiter, waits for Redis to count it, and compares the     *)
(* count with the limit it then finds in the limiter.                         *)
(***************************************************************************)
EXTENDS Naturals

CONSTANTS
    Path,       \* RATE_LIMITED_PATHS
    Limit,      \* Limit[p]: requests_per_window of AUTH_RATE_LIMITS
    Window,     \* window_seconds
    Worker,     \* requests in progress at once
    None,
    MaxTime, MaxCount   \* bounds on the clock and on the counters

VARIABLES
    now,        \* the clock
    config,     \* the path whose limit the limiter holds
    counter,    \* counter[p]: the Redis counter and when it disappears
    req         \* req[w]: the path of the request, its count and where it is

lvars == <<now, config, counter, req>>

Goto(w, r) == req' = [req EXCEPT ![w] = r]

-------------------------------------------------------------------------------
\* Up to the await of the pipeline.
Arrive(w, p) ==
    /\ req[w] = None
    /\ config' = p
    /\ Goto(w, [path |-> p, at |-> "counting", count |-> 0])
    /\ UNCHANGED <<now, counter>>

Counted(p) == IF now < counter[p].until THEN counter[p].count + 1 ELSE 1

\* INCR and EXPIRE in one transaction; every request, let in or not, extends the window.
Count(w) ==
    /\ req[w] # None /\ req[w].at = "counting"
    /\ Counted(req[w].path) <= MaxCount
    /\ counter' = [counter EXCEPT ![req[w].path] =
                       [count |-> Counted(req[w].path), until |-> now + Window]]
    /\ Goto(w, [req[w] EXCEPT !.at = "counted", !.count = Counted(req[w].path)])
    /\ UNCHANGED <<now, config>>

\* Without Redis every request is let in.
CountFails(w) ==
    /\ req[w] # None /\ req[w].at = "counting"
    /\ Goto(w, [req[w] EXCEPT !.at = "serving"])
    /\ UNCHANGED <<now, config, counter>>

Allowed_Strict(w) == req[w].count < Limit[config]   \* mutant: one too few
Allowed(w) == req[w].count <= Limit[config]

Decide(w) ==
    /\ req[w] # None /\ req[w].at = "counted"
    /\ Goto(w, IF Allowed(w) THEN [req[w] EXCEPT !.at = "serving"] ELSE None)
    /\ UNCHANGED <<now, config, counter>>

\* call_next; what it raises is caught, and it is called once more.
Serve(w) ==
    /\ req[w] # None /\ req[w].at \in {"serving", "serving_again"}
    /\ Goto(w, None) \/ (req[w].at = "serving" /\ Goto(w, [req[w] EXCEPT !.at = "serving_again"]))
    /\ UNCHANGED <<now, config, counter>>

Pass ==
    /\ now < MaxTime
    /\ now' = now + 1
    /\ UNCHANGED <<config, counter, req>>

-------------------------------------------------------------------------------
Init ==
    /\ now = 0
    /\ config \in Path
    /\ counter = [p \in Path |-> [count |-> 0, until |-> 0]]
    /\ req = [w \in Worker |-> None]

Next ==
    \/ \E w \in Worker :
        \/ \E p \in Path : Arrive(w, p)
        \/ Count(w) \/ CountFails(w) \/ Decide(w) \/ Serve(w)
    \/ Pass

-------------------------------------------------------------------------------
\* Two requests for different paths are in progress.
Mixed ==
    \E v, w \in Worker : req[v] # None /\ req[w] # None /\ req[v].path # req[w].path

\* A counted request goes on if and only if its count is within its own path's limit.
DecidedByOwnLimit ==
    \A w \in Worker :
        req[w] # None /\ req[w].at = "counted" /\ req'[w] # req[w] =>
            (req'[w] # None <=> req[w].count <= Limit[req[w].path])
===============================================================================
