------------------------------- MODULE MCAccounts -------------------------------
(* Model-checking instances of Accounts, Sessions and RateLimiter: a behaviour   *)
(* is one of the component `part`, the others keep still.  A history variable    *)
(* tells the behaviours in which requests come one at a time.                    *)
EXTENDS Accounts

CONSTANTS Session, State, Path, Fraction, Life, Offset, StateLife, Window, MaxTime, MaxCount

\* A null is no number, no state of a sign-in and no request that is being counted.
ASSUME ClockAssumption == Fraction \in Nat \ {0} /\ {Life, Offset, StateLife, Window} \subseteq Nat
ASSUME NullAssumption ==
    /\ None \notin Nat \cup State
    /\ None \notin [path : Path, at : {"counting", "counted", "serving", "serving_again"},
                    count : Nat]

VARIABLES
    part, raced,
    now, zone, exp, blacklist, states, callbacks,     \* Sessions
    config, counter                                   \* RateLimiter

SessionVars == <<zone, exp, blacklist, states, callbacks>>
LimiterVars == <<config, counter>>
mcvars == <<db, seq, req, part, raced, now, SessionVars, LimiterVars>>

\* Login takes two requests in a window here, forgot-password one.
Limit == [p \in Path |-> IF p = "login" THEN 2 ELSE 1]

S == INSTANCE Sessions
L == INSTANCE RateLimiter WITH MaxTime <- 3

MCInit ==
    /\ part \in {"administration", "sign_in", "sessions", "rate_limits"}
    /\ raced = FALSE
    /\ Init /\ S!Init /\ L!Init
    /\ part = "sessions" \/ zone = 0

AccountsPart ==
    \/ /\ part = "administration"
       /\ \E w \in Worker : Register(w) \/ Administer(w) \/ Finish(w)
    \/ /\ part = "sign_in"
       /\ \/ \E w \in Worker : Register(w) \/ UseGoogle(w) \/ UseLinks(w) \/ Finish(w)
          \/ \E t \in 1..MaxId : ExpireToken(t)

\* Two requests are in progress; for the limiter, two of different paths.
InEachOthersWay == IF part = "rate_limits" THEN L!Mixed ELSE Overlap

MCNext ==
    /\ \/ AccountsPart /\ UNCHANGED <<now, SessionVars, LimiterVars>>
       \/ part = "sessions" /\ S!Next /\ UNCHANGED <<db, seq, LimiterVars>>
       \/ part = "rate_limits" /\ L!Next /\ UNCHANGED <<db, seq, SessionVars>>
    /\ UNCHANGED part
    /\ raced' = (raced \/ InEachOthersWay')

MCSpec == MCInit /\ [][MCNext]_mcvars

-------------------------------------------------------------------------------
\* As long as no two requests overlap, a password that is changed through a link is
\* changed through the newest one, and that link was unused.
NewestLinkUnlessRaced == [][~raced' => SetThroughNewestLink]_mcvars

\* On a host not west of UTC, logging out holds until the last second of the token,
\* whatever else happens.
LoggedOutStaysOut == S!LoggedOutStaysOut

\* As long as no two callbacks overlap, the state of a Google sign-in serves one.
StateUsedOnceUnlessRaced == raced \/ S!StateUsedOnce

\* As long as requests for different paths do not overlap, a request is decided by
\* the limit of its own path.
OwnLimitUnlessMixed == [][~raced' /\ part = "rate_limits" => L!DecidedByOwnLimit]_mcvars

Symmetry ==
    Permutations(Worker) \cup Permutations(Email) \cup Permutations(Subject)
        \cup Permutations(State)
===============================================================================
