----------------------------- MODULE AccountsProofs -----------------------------
(***************************************************************************)
(* Theorems about Accounts, Sessions and RateLimiter, for any users, Google   *)
(* accounts, requests, ids, sessions, paths and lengths of time.              *)
(***************************************************************************)
EXTENDS MCAccounts, Integers, TLAPS

-------------------------------------------------------------------------------
(* Access tokens *)

\* The strengthening of LoggedOutStaysOut, for a host in any time zone: the Redis key
\* of a token disappears less than a second before the token expires, plus what the
\* host is ahead of UTC.
KeyOutlivesToken ==
    \A s \in Session :
        blacklist[s] # None => exp[s] # None /\ blacklist[s] + Fraction > exp[s] + zone

SessionsInv ==
    /\ now \in Nat /\ zone \in Int
    /\ exp \in [Session -> Nat \cup {None}]
    /\ blacklist \in [Session -> Nat \cup {None}]
    /\ KeyOutlivesToken

\* A time cut to whole seconds is less than a second earlier.
LEMMA Cut ==
    ASSUME NEW t \in Nat
    PROVE  /\ S!WholeSeconds(t) \in Nat /\ S!WholeSeconds(t) <= t
           /\ S!WholeSeconds(t) + Fraction > t
<1>1. Fraction \in Nat /\ Fraction > 0
  BY ClockAssumption
<1>2. /\ (t \div Fraction) * Fraction \in Nat /\ (t \div Fraction) * Fraction <= t
      /\ (t \div Fraction) * Fraction + Fraction > t
  BY <1>1
<1>3. QED
  BY <1>2 DEF S!WholeSeconds

\* The host's time zone is a whole number of ticks off UTC.
LEMMA SessionsStart == MCInit => SessionsInv
<1> SUFFICES ASSUME MCInit PROVE SessionsInv
  OBVIOUS
<1>1. PICK k \in -Offset..Offset : zone = Fraction * k
  BY DEF MCInit, S!Init
<1>2. Offset \in Int /\ Fraction \in Int
  BY ClockAssumption
<1>3. k \in Int
  BY <1>2
<1>4. zone \in Int
  BY <1>1, <1>2, <1>3
<1>5. QED
  BY <1>4 DEF MCInit, S!Init, SessionsInv, KeyOutlivesToken

LEMMA IssueKeeps ==
    ASSUME SessionsInv, NEW s \in Session, S!Issue(s), zone' = zone
    PROVE  SessionsInv'
<1>1. S!WholeSeconds(now + Life) \in Nat
  BY ClockAssumption, Cut DEF SessionsInv
<1>2. QED
  BY <1>1, NullAssumption DEF SessionsInv, KeyOutlivesToken, S!Issue

LEMMA LogoutKeeps ==
    ASSUME SessionsInv, NEW s \in Session, S!Logout(s), zone' = zone
    PROVE  SessionsInv'
<1>1. /\ exp[s] \in Nat /\ exp[s] > now - zone
      /\ S!RemainingLife(s) = S!WholeSeconds(exp[s] - (now - zone))
  BY DEF SessionsInv, S!Logout, S!Accepted, S!Verifies, S!RemainingLife, S!Timestamp
<1>2. exp[s] - (now - zone) \in Nat
  BY <1>1 DEF SessionsInv
<1>3. /\ S!RemainingLife(s) \in Nat
      /\ now + S!RemainingLife(s) + Fraction > exp[s] + zone
  BY <1>1, <1>2, Cut, ClockAssumption DEF SessionsInv
<1>4. QED
  BY <1>1, <1>3, NullAssumption DEF SessionsInv, KeyOutlivesToken, S!Logout

LEMMA SessionsStep ==
    ASSUME SessionsInv, [MCNext]_mcvars
    PROVE  SessionsInv'
<1>1. CASE now' \in Nat /\ zone' = zone /\ exp' = exp /\ blacklist' = blacklist
  BY <1>1 DEF SessionsInv, KeyOutlivesToken
<1>2. CASE UNCHANGED mcvars
  BY <1>1, <1>2 DEF mcvars, SessionVars, SessionsInv
<1>3. CASE AccountsPart /\ UNCHANGED <<now, SessionVars, LimiterVars>>
  BY <1>1, <1>3 DEF SessionVars, SessionsInv
<1>4. CASE S!Next
  BY <1>1, <1>4, IssueKeeps, LogoutKeeps
     DEF S!Next, S!Authorize, S!FindState, S!DeleteState, S!Pass, SessionsInv
<1>5. CASE L!Next /\ UNCHANGED <<db, seq, SessionVars>>
  <2>1. now' = now \/ now' = now + 1
    BY <1>5 DEF L!Next, L!Arrive, L!Count, L!CountFails, L!Decide, L!Serve, L!Pass
  <2>2. QED
    BY <1>1, <1>5, <2>1 DEF SessionVars, SessionsInv
<1>6. QED
  BY <1>2, <1>3, <1>4, <1>5 DEF MCNext

\* On a host that keeps UTC or is east of it, a session that was logged out is let in
\* again in the last second of its token at the earliest: for every resolution of the
\* clock and every life of a token, the key that blacklist_token leaves in Redis
\* outlives all but that second.
THEOREM LoggedOut == MCSpec => []LoggedOutStaysOut
<1>2. SessionsInv => LoggedOutStaysOut
  <2>1. SUFFICES ASSUME SessionsInv, zone >= 0, NEW s \in Session,
                        blacklist[s] # None, S!Accepted(s)
                 PROVE  now + Fraction > exp[s]
    BY DEF LoggedOutStaysOut, S!LoggedOutStaysOut
  <2>2. /\ now \in Nat /\ Fraction \in Nat /\ blacklist[s] \in Nat /\ exp[s] \in Nat
        /\ zone \in Int /\ blacklist[s] + Fraction > exp[s] + zone
    BY <2>1, ClockAssumption DEF SessionsInv, KeyOutlivesToken
  <2>3. ~(now < blacklist[s])
    BY <2>1 DEF S!Accepted, S!Present
  <2>4. QED
    BY <2>1, <2>2, <2>3
<1>3. QED
  BY <1>2, SessionsStart, SessionsStep, PTL DEF MCSpec

-------------------------------------------------------------------------------
(* The state of a Google sign-in *)

UsedUp(x) == callbacks[x] = 1 /\ states[x] = 0 /\ \A w \in Worker : req[w] # x

\* The strengthening of StateUsedOnceUnlessRaced: with one callback at a time, a state
\* that let one in is gone, and no callback has found it.
OneCallback ==
    /\ \A v, w \in Worker : req[v] # None /\ req[w] # None => v = w
    /\ \A x \in State : callbacks[x] = 0 \/ UsedUp(x)

StatesInv ==
    /\ states \in [State -> Nat \cup {None}]
    /\ callbacks \in [State -> Nat]
    /\ part # "sessions" => \A x \in State : callbacks[x] = 0
    /\ part = "sessions" => req \in [Worker -> State \cup {None}] /\ (raced \/ OneCallback)

LEMMA AuthorizeKeeps ==
    ASSUME SessionsInv, StatesInv, OneCallback, part = "sessions",
           NEW y \in State, S!Authorize(y)
    PROVE  states' \in [State -> Nat \cup {None}] /\ OneCallback'
<1>1. now + StateLife \in Nat
  BY ClockAssumption DEF SessionsInv
<1>2. states[y] = None /\ callbacks[y] = 0
  BY NullAssumption DEF StatesInv, OneCallback, UsedUp, S!Authorize
<1>3. QED
  BY <1>1, <1>2 DEF StatesInv, OneCallback, UsedUp, S!Authorize

LEMMA FindStateKeeps ==
    ASSUME SessionsInv, StatesInv, OneCallback, part = "sessions", ~Overlap',
           NEW w \in Worker, NEW y \in State, S!FindState(w, y)
    PROVE  req' \in [Worker -> State \cup {None}] /\ OneCallback'
<1>1. req' \in [Worker -> State \cup {None}] /\ req' = [req EXCEPT ![w] = y]
  BY DEF StatesInv, S!FindState
<1>2. \A u, v \in Worker : req'[u] # None /\ req'[v] # None => u = v
  BY DEF Overlap, Free
<1>3. states[y] # 0 /\ callbacks[y] = 0
  BY DEF SessionsInv, StatesInv, OneCallback, UsedUp, S!FindState, S!Present
<1>4. \A x \in State : UsedUp(x) => UsedUp(x)'
  BY <1>1, <1>3 DEF StatesInv, UsedUp, S!FindState
<1>5. QED
  BY <1>1, <1>2, <1>4 DEF OneCallback, S!FindState

LEMMA DeleteStateKeeps ==
    ASSUME StatesInv, OneCallback, part = "sessions",
           NEW w \in Worker, S!DeleteState(w)
    PROVE  /\ req' \in [Worker -> State \cup {None}]
           /\ states' \in [State -> Nat \cup {None}] /\ callbacks' \in [State -> Nat]
           /\ OneCallback'
<1>1. PICK y \in State : y = req[w]
  BY DEF StatesInv, S!DeleteState
<1>2. /\ req' = [req EXCEPT ![w] = None] /\ states' = [states EXCEPT ![y] = 0]
      /\ callbacks' = [callbacks EXCEPT ![y] = @ + 1]
      /\ req \in [Worker -> State \cup {None}]
      /\ states \in [State -> Nat \cup {None}] /\ callbacks \in [State -> Nat]
  BY <1>1 DEF StatesInv, S!DeleteState
<1>3. \A v \in Worker : req'[v] = None
  BY <1>1, <1>2, NullAssumption DEF OneCallback
<1>4. callbacks[y] = 0
  BY <1>1 DEF OneCallback, UsedUp
<1>5. \A x \in State : callbacks'[x] = 0 \/ UsedUp(x)'
  BY <1>2, <1>3, <1>4, NullAssumption DEF OneCallback, UsedUp
<1>6. QED
  BY <1>2, <1>3, <1>5 DEF OneCallback

LEMMA StatesStep ==
    ASSUME SessionsInv, StatesInv, [MCNext]_mcvars
    PROVE  StatesInv'
<1>1. CASE UNCHANGED mcvars
  BY <1>1 DEF mcvars, SessionVars, LimiterVars, StatesInv, OneCallback, UsedUp
<1>2. CASE MCNext /\ part # "sessions"
  <2>1. states' = states /\ callbacks' = callbacks /\ part' = part
    BY <1>2 DEF MCNext, SessionVars
  <2>2. QED
    BY <1>2, <2>1 DEF StatesInv
<1>3. CASE MCNext /\ part = "sessions"
  <2>1. part' = part /\ S!Next /\ raced' = (raced \/ Overlap')
    BY <1>3 DEF MCNext, AccountsPart, InEachOthersWay
  <2>2. /\ states' \in [State -> Nat \cup {None}] /\ callbacks' \in [State -> Nat]
        /\ req' \in [Worker -> State \cup {None}]
    <3>1. CASE \E s \in Session : S!Issue(s) \/ S!Logout(s)
      BY <1>3, <3>1 DEF StatesInv, S!Issue, S!Logout
    <3>2. CASE \E x \in State : S!Authorize(x)
      BY <1>3, <3>2, ClockAssumption DEF SessionsInv, StatesInv, S!Authorize
    <3>3. CASE \E x \in State, w \in Worker : S!FindState(w, x)
      BY <1>3, <3>3 DEF StatesInv, S!FindState
    <3>4. CASE \E w \in Worker : S!DeleteState(w)
      <4>1. PICK w \in Worker : S!DeleteState(w)
        BY <3>4
      <4>2. req[w] \in State
        BY <1>3, <4>1 DEF StatesInv, S!DeleteState
      <4>3. QED
        BY <1>3, <4>1, <4>2 DEF StatesInv, S!DeleteState
    <3>5. CASE S!Pass
      BY <1>3, <3>5 DEF StatesInv, S!Pass
    <3>6. QED
      BY <2>1, <3>1, <3>2, <3>3, <3>4, <3>5 DEF S!Next
  <2>3. ASSUME ~raced' PROVE OneCallback'
    <3>1. OneCallback /\ ~Overlap'
      BY <1>3, <2>1, <2>3 DEF StatesInv
    <3>2. CASE \/ \E s \in Session : S!Issue(s) \/ S!Logout(s)
               \/ S!Pass
      BY <3>1, <3>2 DEF OneCallback, UsedUp, S!Issue, S!Logout, S!Pass
    <3>3. QED
      BY <1>3, <2>1, <3>1, <3>2, AuthorizeKeeps, FindStateKeeps, DeleteStateKeeps DEF S!Next
  <2>4. QED
    BY <1>3, <2>1, <2>2, <2>3 DEF StatesInv
<1>4. QED
  BY <1>1, <1>2, <1>3

\* With one callback at a time, the state of a Google sign-in lets in one callback:
\* _validate_oauth_state deletes what it has found before another one looks.
THEOREM StateOnce == MCSpec => []StateUsedOnceUnlessRaced
<1>1. MCInit => SessionsInv /\ StatesInv
  BY SessionsStart DEF MCInit, S!Init, StatesInv, OneCallback
<1>2. StatesInv => StateUsedOnceUnlessRaced
  BY DEF StatesInv, OneCallback, UsedUp, StateUsedOnceUnlessRaced, S!StateUsedOnce
<1>3. QED
  BY <1>1, <1>2, SessionsStep, StatesStep, PTL DEF MCSpec

-------------------------------------------------------------------------------
(* The rate limiter *)

Request ==
    [path : Path, at : {"counting", "counted", "serving", "serving_again"}, count : Nat]

\* The strengthening of OwnLimitUnlessMixed: as long as requests for different paths
\* do not overlap, the limiter holds the limit of the path of every request.
OwnConfig == \A w \in Worker : req[w] # None => req[w].path = config

LimiterInv ==
    /\ now \in Nat
    /\ counter \in [Path -> [count : Nat, until : Nat]]
    /\ part = "rate_limits" => req \in [Worker -> Request \cup {None}] /\ (raced \/ OwnConfig)

\* What the steps of a request do to it: it is new, for the path the limiter then
\* holds, or it keeps its path, or it is over.
LEMMA RequestSteps ==
    ASSUME LimiterInv, part = "rate_limits", NEW w \in Worker,
           L!Count(w) \/ L!CountFails(w) \/ L!Decide(w) \/ L!Serve(w)
    PROVE  /\ config' = config
           /\ \/ req' = [req EXCEPT ![w] = None]
              \/ \E q \in Request : req[w] # None /\ q.path = req[w].path
                                      /\ req' = [req EXCEPT ![w] = q]
<1>1. req[w] # None /\ req[w] \in Request
  BY DEF LimiterInv, L!Count, L!CountFails, L!Decide, L!Serve
<1>2. PICK p \in Path : p = req[w].path
  BY <1>1 DEF Request
<1>3. L!Counted(p) \in Nat
  BY DEF LimiterInv, L!Counted
<1>4. CASE L!Count(w)
  <2>1. [req[w] EXCEPT !.at = "counted", !.count = L!Counted(p)] \in Request
    BY <1>1, <1>3 DEF Request
  <2>2. QED
    BY <1>1, <1>2, <1>4, <2>1 DEF L!Count, L!Goto, Request
<1>5. \A at \in {"serving", "serving_again"} : [req[w] EXCEPT !.at = at] \in Request
  BY <1>1 DEF Request
<1>6. CASE L!CountFails(w) \/ L!Decide(w) \/ L!Serve(w)
  BY <1>1, <1>5, <1>6 DEF L!CountFails, L!Decide, L!Serve, L!Goto, Request
<1>7. QED
  BY <1>4, <1>6 DEF L!Count

LEMMA CounterType ==
    ASSUME LimiterInv, part = "rate_limits", NEW w \in Worker, L!Count(w)
    PROVE  counter' \in [Path -> [count : Nat, until : Nat]]
<1>1. PICK p \in Path : p = req[w].path
  BY DEF LimiterInv, L!Count, Request
<1>2. L!Counted(p) \in Nat /\ now + Window \in Nat
  BY ClockAssumption DEF LimiterInv, L!Counted
<1>3. QED
  BY <1>1, <1>2 DEF LimiterInv, L!Count

LEMMA LimiterStep ==
    ASSUME LimiterInv, [MCNext]_mcvars
    PROVE  LimiterInv'
<1>1. CASE UNCHANGED mcvars
  BY <1>1 DEF mcvars, SessionVars, LimiterVars, LimiterInv, OwnConfig
<1>2. CASE MCNext /\ part # "rate_limits"
  <2>1. counter' = counter /\ part' = part
    BY <1>2 DEF MCNext, LimiterVars
  <2>2. now' \in Nat
    BY <1>2 DEF MCNext, LimiterInv, AccountsPart, S!Next, S!Issue, S!Logout, S!Authorize,
                S!FindState, S!DeleteState, S!Pass
  <2>3. QED
    BY <1>2, <2>1, <2>2 DEF LimiterInv
<1>3. CASE MCNext /\ part = "rate_limits"
  <2>1. part' = part /\ L!Next /\ raced' = (raced \/ L!Mixed')
    BY <1>3 DEF MCNext, AccountsPart, InEachOthersWay
  <2>2. CASE \E w \in Worker, p \in Path : L!Arrive(w, p)
    <3>1. PICK w \in Worker, p \in Path : L!Arrive(w, p)
      BY <2>2
    <3>2. PICK q \in Request : q = [path |-> p, at |-> "counting", count |-> 0]
      BY DEF Request
    <3>3. /\ config' = p /\ req' = [req EXCEPT ![w] = q] /\ q.path = p /\ q # None
          /\ now' = now /\ counter' = counter
          /\ req \in [Worker -> Request \cup {None}]
      BY <1>3, <3>1, <3>2, NullAssumption DEF L!Arrive, L!Goto, LimiterInv, Request
    <3>4. ~raced' => OwnConfig'
      BY <2>1, <3>3 DEF OwnConfig, L!Mixed
    <3>5. QED
      BY <2>1, <3>3, <3>4 DEF LimiterInv
  <2>3. CASE \E w \in Worker : L!Count(w) \/ L!CountFails(w) \/ L!Decide(w) \/ L!Serve(w)
    <3>1. PICK w \in Worker : L!Count(w) \/ L!CountFails(w) \/ L!Decide(w) \/ L!Serve(w)
      BY <2>3
    <3>2. now' = now /\ counter' \in [Path -> [count : Nat, until : Nat]]
      BY <1>3, <3>1, CounterType DEF LimiterInv, L!Count, L!CountFails, L!Decide, L!Serve
    <3>3. /\ config' = config
          /\ \/ req' = [req EXCEPT ![w] = None]
             \/ \E q \in Request : req[w] # None /\ q.path = req[w].path
                                     /\ req' = [req EXCEPT ![w] = q]
      BY <1>3, <3>1, RequestSteps
    <3>4. req' \in [Worker -> Request \cup {None}] /\ (OwnConfig => OwnConfig')
      BY <1>3, <3>3 DEF LimiterInv, OwnConfig
    <3>5. QED
      BY <1>3, <2>1, <3>2, <3>4 DEF LimiterInv
  <2>4. CASE L!Pass
    <3>1. now' \in Nat /\ counter' = counter /\ config' = config /\ req' = req
      BY <2>4 DEF L!Pass, LimiterInv
    <3>2. QED
      BY <1>3, <2>1, <3>1 DEF LimiterInv, OwnConfig
  <2>5. QED
    BY <2>1, <2>2, <2>3, <2>4 DEF L!Next
<1>4. QED
  BY <1>1, <1>2, <1>3

LEMMA DecidedStep ==
    ASSUME LimiterInv, MCNext, ~raced', part = "rate_limits"
    PROVE  L!DecidedByOwnLimit
<1>1. SUFFICES ASSUME NEW w \in Worker, req[w] # None, req[w].at = "counted", req'[w] # req[w]
               PROVE  req'[w] # None <=> req[w].count <= Limit[req[w].path]
  BY DEF L!DecidedByOwnLimit
<1>2. L!Next /\ OwnConfig /\ req \in [Worker -> Request \cup {None}]
  BY DEF MCNext, AccountsPart, LimiterInv
<1>3. L!Decide(w)
  <2>1. \A v \in Worker : v # w =>
            /\ \A p \in Path : ~L!Arrive(v, p)
            /\ ~L!Count(v) /\ ~L!CountFails(v) /\ ~L!Decide(v) /\ ~L!Serve(v)
    BY <1>1, <1>2 DEF L!Arrive, L!Count, L!CountFails, L!Decide, L!Serve, L!Goto
  <2>2. /\ \A p \in Path : ~L!Arrive(w, p)
        /\ ~L!Count(w) /\ ~L!CountFails(w) /\ ~L!Serve(w) /\ ~L!Pass
    BY <1>1 DEF L!Arrive, L!Count, L!CountFails, L!Serve, L!Pass
  <2>3. QED
    BY <1>2, <2>1, <2>2 DEF L!Next
<1>4. [req[w] EXCEPT !.at = "serving"] # None
  BY <1>1, <1>2, NullAssumption DEF Request
<1>5. req'[w] # None <=> L!Allowed(w)
  BY <1>2, <1>3, <1>4 DEF L!Decide, L!Goto
<1>6. QED
  BY <1>1, <1>2, <1>5 DEF OwnConfig, L!Allowed

\* As long as requests for different paths do not overlap, every request is let in or
\* refused by the limit of its own path, for any paths and windows.
THEOREM OwnLimit == MCSpec => OwnLimitUnlessMixed
<1>1. MCInit => LimiterInv
  BY DEF MCInit, L!Init, LimiterInv, OwnConfig
<1>2. LimiterInv /\ [MCNext]_mcvars =>
          [~raced' /\ part = "rate_limits" => L!DecidedByOwnLimit]_mcvars
  BY DecidedStep
<1>3. QED
  BY <1>1, <1>2, LimiterStep, PTL DEF MCSpec, OwnLimitUnlessMixed

-------------------------------------------------------------------------------
(* The inductive invariant of the tables *)

Tables == {"users", "orgs", "tokens", "google"}

\* What a request writes to a table, and the rows it inserts and deletes there.
Writes(ch, t) == IF t \in DOMAIN ch THEN ch[t] ELSE NoRows
WithOp(ch, t, op) == {i \in DOMAIN Writes(ch, t) : Writes(ch, t)[i].op = op}
Inserted(ch, t) == WithOp(ch, t, "insert")
Deleted(ch, t) == WithOp(ch, t, "delete")

\* A user stays in an organization, and no update takes a password away.
UserKept(old, new) ==
    new \in User /\ new.org = old.org /\ (old.password # None => new.password # None)
UserWrite(x) ==
    \/ x.op = "insert" /\ x.cols \in User
    \/ x.op = "update" /\ \A r \in User : UserKept(r, Written(r, x))
OrgWrite(x) ==
    \/ x.op = "insert" /\ x.cols \in Organization
    \/ x.op = "update" /\ \A r \in Organization : Written(r, x) \in Organization
TokenWrite(x) == (x.op = "insert" /\ x.cols \in VerificationToken) \/ x = Update([used |-> TRUE])
GoogleWrite(x) == (x.op = "insert" /\ x.cols \in OAuthAccount) \/ x = Delete

\* The writes of a handler have the types of their tables ...
WritesTyped(ch) ==
    /\ \A u \in DOMAIN Writes(ch, "users") : u \in Email /\ UserWrite(Writes(ch, "users")[u])
    /\ \A o \in DOMAIN Writes(ch, "orgs") : o \in 1..MaxId /\ OrgWrite(Writes(ch, "orgs")[o])
    /\ \A t \in DOMAIN Writes(ch, "tokens") :
           t \in 1..MaxId /\ TokenWrite(Writes(ch, "tokens")[t])
    /\ \A g \in DOMAIN Writes(ch, "google") :
           g \in 1..MaxId /\ GoogleWrite(Writes(ch, "google")[g])

\* ... and refer to rows that exist or that the same handler inserts ...
WritesRefer(ch) ==
    /\ \A u \in Inserted(ch, "users") :
           Writes(ch, "users")[u].cols.org \in DOMAIN db.orgs \cup Inserted(ch, "orgs")
    /\ \A t \in Inserted(ch, "tokens") : Writes(ch, "tokens")[t].cols.user \in DOMAIN db.users
    /\ \A g \in Inserted(ch, "google") :
           Writes(ch, "google")[g].cols.user \in DOMAIN db.users \cup Inserted(ch, "users")

\* ... and leave every user a way to sign in: a user without a password comes with a
\* Google account, and the account of a user without a password is not unlinked.
WritesKeepLogin(ch) ==
    /\ \A u \in Inserted(ch, "users") :
           Writes(ch, "users")[u].cols.password # None \/
           \E g \in Inserted(ch, "google") : Writes(ch, "google")[g].cols.user = u
    /\ \A g \in Deleted(ch, "google") :
           g \in DOMAIN db.google => db.users[db.google[g].user].password # None

\* No id is handed out twice.
Numbered == {"tokens", "google"}
FreshIds ==
    \A t \in Numbered :
        /\ \A i \in DOMAIN db[t] : i < seq
        /\ \A w \in Worker : ~Free(w) =>
               /\ \A i \in DOMAIN Writes(req[w], t) : i < seq
               /\ \A i \in Inserted(req[w], t) :
                      /\ i \notin DOMAIN db[t]
                      /\ \A v \in Worker \ {w} :
                             ~Free(v) => i \notin DOMAIN Writes(req[v], t)

HeldWrites ==
    \A w \in Worker : ~Free(w) =>
        WritesTyped(req[w]) /\ WritesRefer(req[w]) /\ WritesKeepLogin(req[w])

IInv == DOMAIN db = Tables /\ TypeOK /\ HasLoginMethod
HeldInv == DOMAIN req = Worker /\ HeldWrites /\ FreshIds

Handles == part \in {"administration", "sign_in"}
TableInv == IInv /\ (Handles => HeldInv)

-------------------------------------------------------------------------------
(* Lemmas about transactions *)

LEMMA NullIsNoNumber == None \notin Nat
BY NullAssumption

LEMMA NothingWritten ==
    ASSUME NEW ch, NEW t, t \notin DOMAIN ch
    PROVE  DOMAIN Writes(ch, t) = {} /\ Inserted(ch, t) = {} /\ Deleted(ch, t) = {}
<1>1. Writes(ch, t) = [i \in {} |-> None]
  BY DEF Writes, NoRows
<1>2. QED
  BY <1>1 DEF Inserted, Deleted, WithOp

LEMMA CommitDomain ==
    ASSUME NEW ch, NEW t \in DOMAIN db
    PROVE  DOMAIN AfterAll(ch)[t] = (DOMAIN db[t] \cup Inserted(ch, t)) \ Deleted(ch, t)
<1>1. CASE t \in DOMAIN ch
  <2>1. AfterAll(ch)[t] = After(db[t], ch[t]) /\ Writes(ch, t) = ch[t]
    BY <1>1 DEF AfterAll, Writes
  <2>2. QED
    BY <2>1 DEF After, Inserted, Deleted, WithOp
<1>2. CASE t \notin DOMAIN ch
  BY <1>2, NothingWritten DEF AfterAll
<1>3. QED
  BY <1>1, <1>2

LEMMA CommitRow ==
    ASSUME NEW ch, NEW t \in DOMAIN db, NEW i \in DOMAIN AfterAll(ch)[t]
    PROVE  /\ i \in Inserted(ch, t) => AfterAll(ch)[t][i] = Writes(ch, t)[i].cols
           /\ i \in DOMAIN Writes(ch, t) \ Inserted(ch, t) =>
                  AfterAll(ch)[t][i] = Written(db[t][i], Writes(ch, t)[i])
           /\ i \notin DOMAIN Writes(ch, t) => AfterAll(ch)[t][i] = db[t][i]
<1>1. CASE t \in DOMAIN ch
  <2>1. AfterAll(ch)[t] = After(db[t], ch[t]) /\ Writes(ch, t) = ch[t]
    BY <1>1 DEF AfterAll, Writes
  <2>2. i \in DOMAIN After(db[t], ch[t])
    BY <2>1
  <2>3. /\ i \in Inserted(ch, t) => After(db[t], ch[t])[i] = ch[t][i].cols
        /\ i \in DOMAIN ch[t] \ Inserted(ch, t) =>
               After(db[t], ch[t])[i] = Written(db[t][i], ch[t][i])
        /\ i \notin DOMAIN ch[t] => After(db[t], ch[t])[i] = db[t][i]
    BY <2>1, <2>2 DEF After, Inserted, WithOp
  <2>4. QED
    BY <2>1, <2>3
<1>2. CASE t \notin DOMAIN ch
  BY <1>2, NothingWritten DEF AfterAll
<1>3. QED
  BY <1>1, <1>2

LEMMA CommitFits ==
    ASSUME NEW ch, NEW t, Fits(ch)
    PROVE  \A i \in Inserted(ch, t) : i \notin DOMAIN db[t]
BY DEF Fits, Inserted, WithOp, Writes, NoRows

-------------------------------------------------------------------------------
(* What a commit does to each table *)

LEMMA UsersAfter ==
    ASSUME DOMAIN db = Tables, TypeOK,
           NEW ch, WritesTyped(ch), Fits(ch), db' = AfterAll(ch)
    PROVE  /\ DOMAIN db'.users = DOMAIN db.users \cup Inserted(ch, "users")
           /\ \A u \in Inserted(ch, "users") :
                  /\ u \in Email /\ u \notin DOMAIN db.users /\ db'.users[u] \in User
                  /\ db'.users[u] = Writes(ch, "users")[u].cols
           /\ \A u \in DOMAIN db.users : UserKept(db.users[u], db'.users[u])
<1>1. "users" \in DOMAIN db
  BY DEF Tables
<1>2. /\ \A u \in DOMAIN Writes(ch, "users") : u \in Email /\ UserWrite(Writes(ch, "users")[u])
      /\ \A u \in DOMAIN db.users : db.users[u] \in User
  BY DEF WritesTyped, TypeOK, IsTable
<1>3. Deleted(ch, "users") = {}
  BY <1>2 DEF Deleted, WithOp, UserWrite
<1>4. DOMAIN db'.users = DOMAIN db.users \cup Inserted(ch, "users")
  BY <1>1, <1>3, CommitDomain
<1>5. ASSUME NEW u \in Inserted(ch, "users")
      PROVE  /\ u \in Email /\ u \notin DOMAIN db.users /\ db'.users[u] \in User
             /\ db'.users[u] = Writes(ch, "users")[u].cols
  <2>1. u \in DOMAIN Writes(ch, "users") /\ Writes(ch, "users")[u].op = "insert"
    BY <1>5 DEF Inserted, WithOp
  <2>2. db'.users[u] = Writes(ch, "users")[u].cols
    BY <1>1, <1>4, <1>5, CommitRow
  <2>3. QED
    BY <1>2, <2>1, <2>2, CommitFits DEF UserWrite
<1>6. ASSUME NEW u \in DOMAIN db.users
      PROVE  UserKept(db.users[u], db'.users[u])
  <2>1. u \in DOMAIN AfterAll(ch)["users"] /\ u \notin Inserted(ch, "users")
    BY <1>4, <1>5, <1>6
  <2>2. CASE u \in DOMAIN Writes(ch, "users")
    <3>1. db'.users[u] = Written(db.users[u], Writes(ch, "users")[u])
      BY <1>1, <2>1, <2>2, CommitRow
    <3>2. UserWrite(Writes(ch, "users")[u]) /\ Writes(ch, "users")[u].op # "insert"
      BY <1>2, <2>1, <2>2 DEF Inserted, WithOp
    <3>3. QED
      BY <1>2, <1>6, <3>1, <3>2 DEF UserWrite
  <2>3. CASE u \notin DOMAIN Writes(ch, "users")
    <3>1. db'.users[u] = db.users[u]
      BY <1>1, <2>1, <2>3, CommitRow
    <3>2. QED
      BY <1>2, <1>6, <3>1 DEF UserKept
  <2>4. QED
    BY <2>2, <2>3
<1>7. QED
  BY <1>4, <1>5, <1>6

LEMMA OrgsAfter ==
    ASSUME DOMAIN db = Tables, TypeOK,
           NEW ch, WritesTyped(ch), Fits(ch), db' = AfterAll(ch)
    PROVE  /\ DOMAIN db'.orgs = DOMAIN db.orgs \cup Inserted(ch, "orgs")
           /\ IsTable(db.orgs, 1..MaxId, Organization)'
<1>1. "orgs" \in DOMAIN db
  BY DEF Tables
<1>2. /\ \A o \in DOMAIN Writes(ch, "orgs") : o \in 1..MaxId /\ OrgWrite(Writes(ch, "orgs")[o])
      /\ \A o \in DOMAIN db.orgs : o \in 1..MaxId /\ db.orgs[o] \in Organization
  BY DEF WritesTyped, TypeOK, IsTable
<1>3. Deleted(ch, "orgs") = {}
  BY <1>2 DEF Deleted, WithOp, OrgWrite
<1>4. DOMAIN db'.orgs = DOMAIN db.orgs \cup Inserted(ch, "orgs")
  BY <1>1, <1>3, CommitDomain
<1>5. ASSUME NEW o \in DOMAIN db'.orgs
      PROVE  o \in 1..MaxId /\ db'.orgs[o] \in Organization
  <2>1. o \in DOMAIN AfterAll(ch)["orgs"]
    BY <1>5
  <2>2. CASE o \in Inserted(ch, "orgs")
    BY <1>1, <1>2, <2>1, <2>2, CommitRow DEF Inserted, WithOp, OrgWrite
  <2>3. CASE o \in DOMAIN Writes(ch, "orgs") \ Inserted(ch, "orgs")
    <3>1. /\ db'.orgs[o] = Written(db.orgs[o], Writes(ch, "orgs")[o])
          /\ Writes(ch, "orgs")[o].op # "insert" /\ o \in DOMAIN db.orgs
      BY <1>1, <1>4, <2>1, <2>3, CommitRow DEF Inserted, WithOp
    <3>2. QED
      BY <1>2, <2>3, <3>1 DEF OrgWrite
  <2>4. CASE o \notin DOMAIN Writes(ch, "orgs")
    <3>1. db'.orgs[o] = db.orgs[o] /\ o \in DOMAIN db.orgs
      BY <1>1, <1>4, <2>1, <2>4, CommitRow DEF Inserted, WithOp
    <3>2. QED
      BY <1>2, <3>1
  <2>5. QED
    BY <2>2, <2>3, <2>4
<1>6. QED
  BY <1>4, <1>5 DEF IsTable

\* Using up a link.
LEMMA UsedToken ==
    ASSUME NEW r \in VerificationToken
    PROVE  Written(r, Update([used |-> TRUE])) = [r EXCEPT !.used = TRUE]
<1> DEFINE new == [c \in DOMAIN r |-> IF c = "used" THEN TRUE ELSE r[c]]
       cols == [used |-> TRUE]
<1>1. Written(r, Update(cols)) = new
  <2>1. DOMAIN cols = {"used"} /\ cols["used"] = TRUE
    OBVIOUS
  <2>2. Update(cols).op = "update" /\ Update(cols).cols = cols
    BY DEF Update
  <2> HIDE DEF cols
  <2>3. Written(r, Update(cols)) =
            [c \in DOMAIN r |-> IF c \in DOMAIN cols THEN cols[c] ELSE r[c]]
    BY <2>2 DEF Written
  <2>4. QED
    BY <2>1, <2>3
<1>2. [r EXCEPT !.used = TRUE] = new
  BY DEF VerificationToken
<1>3. QED
  BY <1>1, <1>2

TokenKept(old, new) ==
    new \in VerificationToken /\ new.user = old.user /\ new.type = old.type

LEMMA TokensAfter ==
    ASSUME DOMAIN db = Tables, TypeOK,
           NEW ch, WritesTyped(ch), Fits(ch), db' = AfterAll(ch)
    PROVE  /\ DOMAIN db'.tokens = DOMAIN db.tokens \cup Inserted(ch, "tokens")
           /\ \A t \in Inserted(ch, "tokens") :
                  /\ t \in 1..MaxId /\ db'.tokens[t] \in VerificationToken
                  /\ db'.tokens[t] = Writes(ch, "tokens")[t].cols
           /\ \A t \in DOMAIN db.tokens :
                  /\ TokenKept(db.tokens[t], db'.tokens[t])
                  /\ db'.tokens[t] = IF t \in DOMAIN Writes(ch, "tokens")
                                     THEN [db.tokens[t] EXCEPT !.used = TRUE]
                                     ELSE db.tokens[t]
<1>1. "tokens" \in DOMAIN db
  BY DEF Tables
<1>2. /\ \A t \in DOMAIN Writes(ch, "tokens") :
             t \in 1..MaxId /\ TokenWrite(Writes(ch, "tokens")[t])
      /\ \A t \in DOMAIN db.tokens : db.tokens[t] \in VerificationToken
  BY DEF WritesTyped, TypeOK, IsTable
<1>3. Deleted(ch, "tokens") = {}
  BY <1>2 DEF Deleted, WithOp, TokenWrite, Update
<1>4. DOMAIN db'.tokens = DOMAIN db.tokens \cup Inserted(ch, "tokens")
  BY <1>1, <1>3, CommitDomain
<1>5. ASSUME NEW t \in Inserted(ch, "tokens")
      PROVE  /\ t \in 1..MaxId /\ db'.tokens[t] \in VerificationToken
             /\ db'.tokens[t] = Writes(ch, "tokens")[t].cols
  <2>1. t \in DOMAIN Writes(ch, "tokens") /\ Writes(ch, "tokens")[t].op = "insert"
    BY <1>5 DEF Inserted, WithOp
  <2>2. db'.tokens[t] = Writes(ch, "tokens")[t].cols
    BY <1>1, <1>4, <1>5, CommitRow
  <2>3. QED
    BY <1>2, <2>1, <2>2 DEF TokenWrite, Update
<1>6. ASSUME NEW t \in DOMAIN db.tokens
      PROVE  /\ TokenKept(db.tokens[t], db'.tokens[t])
             /\ db'.tokens[t] = IF t \in DOMAIN Writes(ch, "tokens")
                                THEN [db.tokens[t] EXCEPT !.used = TRUE]
                                ELSE db.tokens[t]
  <2>1. t \in DOMAIN AfterAll(ch)["tokens"] /\ t \notin Inserted(ch, "tokens")
    BY <1>4, <1>6, CommitFits
  <2>2. db'.tokens[t] = IF t \in DOMAIN Writes(ch, "tokens")
                        THEN [db.tokens[t] EXCEPT !.used = TRUE]
                        ELSE db.tokens[t]
    <3>1. CASE t \in DOMAIN Writes(ch, "tokens")
      <4>1. db'.tokens[t] = Written(db.tokens[t], Writes(ch, "tokens")[t])
        BY <1>1, <2>1, <3>1, CommitRow
      <4>2. Writes(ch, "tokens")[t] = Update([used |-> TRUE])
        BY <1>2, <2>1, <3>1 DEF Inserted, WithOp, TokenWrite
      <4>3. QED
        BY <1>2, <1>6, <3>1, <4>1, <4>2, UsedToken
    <3>2. CASE t \notin DOMAIN Writes(ch, "tokens")
      BY <1>1, <2>1, <3>2, CommitRow
    <3>3. QED
      BY <3>1, <3>2
  <2>3. QED
    BY <1>2, <1>6, <2>2 DEF TokenKept, VerificationToken
<1>7. QED
  BY <1>4, <1>5, <1>6

LEMMA GoogleAfter ==
    ASSUME DOMAIN db = Tables, TypeOK,
           NEW ch, WritesTyped(ch), Fits(ch), db' = AfterAll(ch)
    PROVE  /\ DOMAIN db'.google =
                  (DOMAIN db.google \ Deleted(ch, "google")) \cup Inserted(ch, "google")
           /\ \A g \in Inserted(ch, "google") :
                  /\ g \in 1..MaxId /\ g \notin DOMAIN db.google
                  /\ db'.google[g] \in OAuthAccount
                  /\ db'.google[g] = Writes(ch, "google")[g].cols
           /\ \A g \in DOMAIN db.google \ Deleted(ch, "google") : db'.google[g] = db.google[g]
<1>1. "google" \in DOMAIN db
  BY DEF Tables
<1>2. \A g \in DOMAIN Writes(ch, "google") :
          g \in 1..MaxId /\ GoogleWrite(Writes(ch, "google")[g])
  BY DEF WritesTyped
<1>3. /\ Inserted(ch, "google") \cap Deleted(ch, "google") = {}
      /\ DOMAIN Writes(ch, "google") = Inserted(ch, "google") \cup Deleted(ch, "google")
  BY <1>2 DEF Inserted, Deleted, WithOp, GoogleWrite, Delete
<1>4. DOMAIN db'.google = (DOMAIN db.google \ Deleted(ch, "google")) \cup Inserted(ch, "google")
  BY <1>1, <1>3, CommitDomain
<1>5. ASSUME NEW g \in Inserted(ch, "google")
      PROVE  /\ g \in 1..MaxId /\ g \notin DOMAIN db.google
             /\ db'.google[g] \in OAuthAccount
             /\ db'.google[g] = Writes(ch, "google")[g].cols
  <2>1. g \in DOMAIN Writes(ch, "google") /\ Writes(ch, "google")[g].op = "insert"
    BY <1>5 DEF Inserted, WithOp
  <2>2. db'.google[g] = Writes(ch, "google")[g].cols
    BY <1>1, <1>4, <1>5, CommitRow
  <2>3. QED
    BY <1>2, <2>1, <2>2, CommitFits DEF GoogleWrite, Delete
<1>6. ASSUME NEW g \in DOMAIN db.google \ Deleted(ch, "google")
      PROVE  db'.google[g] = db.google[g]
  BY <1>1, <1>3, <1>4, <1>6, CommitRow, CommitFits
<1>7. QED
  BY <1>4, <1>5, <1>6

-------------------------------------------------------------------------------
(* The end of a request keeps the invariant *)

\* All that is there stays there, except Google accounts; users keep their password.
Grown ==
    /\ DOMAIN db.users \subseteq DOMAIN db'.users /\ DOMAIN db.orgs \subseteq DOMAIN db'.orgs
    /\ \A u \in DOMAIN db.users :
           db.users[u].password # None => db'.users[u].password # None

LEMMA ReferStill ==
    ASSUME Grown, NEW ch, WritesRefer(ch)
    PROVE  WritesRefer(ch)'
BY DEF Grown, WritesRefer

LEMMA LoginStill ==
    ASSUME TypeOK, Grown, NEW ch, WritesKeepLogin(ch),
           \A g \in Deleted(ch, "google") :
               g \in DOMAIN db'.google => g \in DOMAIN db.google /\ db'.google[g] = db.google[g]
    PROVE  WritesKeepLogin(ch)'
<1>1. ASSUME NEW g \in Deleted(ch, "google"), g \in DOMAIN db'.google
      PROVE  db'.users[db'.google[g].user].password # None
  <2>1. g \in DOMAIN db.google /\ db'.google[g] = db.google[g]
    BY <1>1
  <2>2. db.google[g].user \in DOMAIN db.users
    BY <2>1 DEF TypeOK, Exists
  <2>3. db.users[db.google[g].user].password # None
    BY <1>1, <2>1 DEF WritesKeepLogin
  <2>4. QED
    BY <2>1, <2>2, <2>3 DEF Grown
<1>2. QED
  BY <1>1 DEF WritesKeepLogin

LEMMA CommitTypes ==
    ASSUME DOMAIN db = Tables, TypeOK, NEW ch, WritesTyped(ch), WritesRefer(ch), Fits(ch),
           db' = AfterAll(ch), seq' = seq
    PROVE  TypeOK'
<1>1. IsTable(db.users, Email, User)'
  BY UsersAfter DEF TypeOK, IsTable, UserKept
<1>2. IsTable(db.orgs, 1..MaxId, Organization)'
  BY OrgsAfter
<1>3. IsTable(db.tokens, 1..MaxId, VerificationToken)'
  BY TokensAfter DEF TypeOK, IsTable, TokenKept
<1>4. IsTable(db.google, 1..MaxId, OAuthAccount)'
  BY GoogleAfter DEF TypeOK, IsTable
<1>5. \A u \in DOMAIN db'.users : db'.users[u].org \in DOMAIN db'.orgs
  <2>1. \A u \in Inserted(ch, "users") :
            db'.users[u].org \in DOMAIN db.orgs \cup Inserted(ch, "orgs")
    BY UsersAfter DEF WritesRefer
  <2>2. \A u \in DOMAIN db.users : db'.users[u].org \in DOMAIN db.orgs
    BY UsersAfter DEF TypeOK, UserKept
  <2>3. QED
    BY <2>1, <2>2, UsersAfter, OrgsAfter
<1>6. \A t \in DOMAIN db'.tokens : Exists(db.tokens[t].user)'
  <2>1. \A t \in Inserted(ch, "tokens") : db'.tokens[t].user \in DOMAIN db.users
    BY TokensAfter DEF WritesRefer
  <2>2. \A t \in DOMAIN db.tokens : db'.tokens[t].user \in DOMAIN db.users
    BY TokensAfter DEF TypeOK, TokenKept, Exists
  <2>3. QED
    BY <2>1, <2>2, UsersAfter, TokensAfter DEF Exists
<1>7. \A g \in DOMAIN db'.google : Exists(db.google[g].user)'
  <2>1. \A g \in Inserted(ch, "google") :
            db'.google[g].user \in DOMAIN db.users \cup Inserted(ch, "users")
    BY GoogleAfter DEF WritesRefer
  <2>2. \A g \in DOMAIN db.google \ Deleted(ch, "google") : db'.google[g].user \in DOMAIN db.users
    BY GoogleAfter DEF TypeOK, Exists
  <2>3. QED
    BY <2>1, <2>2, UsersAfter, GoogleAfter DEF Exists
<1>8. QED
  BY <1>1, <1>2, <1>3, <1>4, <1>5, <1>6, <1>7 DEF TypeOK

LEMMA CommitLogin ==
    ASSUME DOMAIN db = Tables, TypeOK, HasLoginMethod, NEW ch, WritesTyped(ch),
           WritesKeepLogin(ch), Fits(ch), db' = AfterAll(ch)
    PROVE  HasLoginMethod'
<1>1. SUFFICES ASSUME NEW u \in DOMAIN db'.users, db'.users[u].password = None
               PROVE  \E g \in DOMAIN db'.google : db'.google[g].user = u
  BY DEF HasLoginMethod, Linked
<1>2. CASE u \in Inserted(ch, "users")
  <2>1. PICK g \in Inserted(ch, "google") : Writes(ch, "google")[g].cols.user = u
    BY <1>1, <1>2, UsersAfter DEF WritesKeepLogin
  <2>2. QED
    BY <2>1, GoogleAfter
<1>3. CASE u \in DOMAIN db.users
  <2>1. db.users[u].password = None
    BY <1>1, <1>3, UsersAfter DEF UserKept
  <2>2. PICK g \in DOMAIN db.google : db.google[g].user = u
    BY <1>3, <2>1 DEF HasLoginMethod, Linked
  <2>3. g \notin Deleted(ch, "google")
    BY <2>1, <2>2 DEF WritesKeepLogin
  <2>4. QED
    BY <2>2, <2>3, GoogleAfter
<1>4. QED
  BY <1>1, <1>2, <1>3, UsersAfter

LEMMA CommitGrows ==
    ASSUME DOMAIN db = Tables, TypeOK, NEW ch, WritesTyped(ch), Fits(ch), db' = AfterAll(ch)
    PROVE  Grown
BY UsersAfter, OrgsAfter DEF Grown, UserKept

LEMMA CommitKeeps ==
    ASSUME IInv, HeldInv, NEW w \in Worker, Commit(w)
    PROVE  IInv' /\ HeldInv'
<1>1. PICK ch : ch = req[w]
  OBVIOUS
<1>2. /\ ~Free(w) /\ Fits(ch) /\ db' = AfterAll(ch) /\ seq' = seq
      /\ req' = [req EXCEPT ![w] = None] /\ DOMAIN req = Worker
  BY <1>1 DEF Commit, CommitAs, HeldInv
<1>3. /\ WritesTyped(ch) /\ WritesRefer(ch) /\ WritesKeepLogin(ch)
      /\ DOMAIN db = Tables /\ TypeOK /\ HasLoginMethod
  BY <1>1, <1>2 DEF HeldInv, HeldWrites, IInv
<1>4. DOMAIN db' = Tables
  BY <1>2, <1>3 DEF AfterAll
<1>5. IInv'
  BY <1>2, <1>3, <1>4, CommitTypes, CommitLogin DEF IInv
<1>6. Grown
  BY <1>2, <1>3, CommitGrows
<1>7. \A t \in Numbered : DOMAIN db'[t] \subseteq DOMAIN db[t] \cup Inserted(ch, t)
  BY <1>2, <1>3, CommitDomain DEF Numbered, Tables
<1>8. \A t \in Numbered : \A i \in Inserted(ch, t) :
          /\ i < seq /\ i \in DOMAIN Writes(ch, t)
          /\ \A v \in Worker \ {w} : ~Free(v) => i \notin DOMAIN Writes(req[v], t)
  BY <1>1, <1>2 DEF HeldInv, FreshIds, Inserted, WithOp
<1>9. FreshIds'
  <2>1. SUFFICES ASSUME NEW t \in Numbered
                 PROVE  /\ \A i \in DOMAIN db'[t] : i < seq
                        /\ \A v \in Worker : req'[v] # None =>
                               /\ \A i \in DOMAIN Writes(req'[v], t) : i < seq
                               /\ \A i \in Inserted(req'[v], t) :
                                      /\ i \notin DOMAIN db'[t]
                                      /\ \A u \in Worker \ {v} : req'[u] # None =>
                                             i \notin DOMAIN Writes(req'[u], t)
    BY <1>2 DEF FreshIds, Free, Writes, Inserted, WithOp
  <2>2. \A i \in DOMAIN db'[t] : i < seq
    BY <1>7, <1>8 DEF HeldInv, FreshIds
  <2>3. ASSUME NEW v \in Worker, req'[v] # None
        PROVE  /\ req'[v] = req[v] /\ v # w /\ ~Free(v)
    BY <1>2, <2>3 DEF Free
  <2>4. ASSUME NEW v \in Worker, req'[v] # None, NEW i \in Inserted(req'[v], t)
        PROVE  i \notin DOMAIN db'[t]
    <3>1. i \in Inserted(req[v], t) /\ i \in DOMAIN Writes(req[v], t)
      BY <2>3, <2>4 DEF Inserted, WithOp
    <3>2. i \notin DOMAIN db[t] /\ i \notin Inserted(ch, t)
      BY <1>8, <2>3, <2>4, <3>1 DEF HeldInv, FreshIds
    <3>3. QED
      BY <1>7, <3>2
  <2>5. QED
    BY <2>2, <2>3, <2>4 DEF HeldInv, FreshIds
<1>10. ASSUME NEW v \in Worker, req'[v] # None
       PROVE  WritesTyped(req'[v]) /\ WritesRefer(req[v])' /\ WritesKeepLogin(req[v])'
  <2>1. PICK cv : cv = req'[v]
    OBVIOUS
  <2>2. cv = req[v] /\ v # w /\ ~Free(v)
    BY <1>2, <1>10, <2>1 DEF Free
  <2>3. WritesTyped(cv) /\ WritesRefer(cv) /\ WritesKeepLogin(cv)
    BY <2>2 DEF HeldInv, HeldWrites
  <2>4. \A g \in Deleted(cv, "google") :
            g \in DOMAIN db'.google => g \in DOMAIN db.google /\ db'.google[g] = db.google[g]
    <3>1. SUFFICES ASSUME NEW g \in Deleted(cv, "google"), g \in DOMAIN db'.google
                   PROVE  g \in DOMAIN db.google /\ db'.google[g] = db.google[g]
      OBVIOUS
    <3>2. g \in DOMAIN Writes(cv, "google")
      BY DEF Deleted, WithOp
    <3>3. g \notin Inserted(ch, "google")
      BY <1>8, <2>2, <3>2 DEF Numbered
    <3>4. QED
      BY <1>2, <1>3, <3>1, <3>3, GoogleAfter
  <2>5. WritesRefer(cv)' /\ WritesKeepLogin(cv)'
    BY <1>3, <1>6, <2>3, <2>4, ReferStill, LoginStill
  <2>6. QED
    BY <2>1, <2>3, <2>5 DEF WritesRefer, WritesKeepLogin
<1>11. HeldInv'
  BY <1>2, <1>9, <1>10 DEF HeldInv, HeldWrites, Free
<1>12. QED
  BY <1>5, <1>11

-------------------------------------------------------------------------------
(* The other steps that no handler takes *)

LEMMA FewerRequests ==
    ASSUME IInv, HeldInv, Grown, db'.google = db.google,
           DOMAIN db'.tokens = DOMAIN db.tokens, seq' = seq, DOMAIN req' = Worker,
           \A v \in Worker : req'[v] # None => req'[v] = req[v]
    PROVE  HeldInv'
<1>1. ASSUME NEW v \in Worker, req'[v] # None
      PROVE  WritesTyped(req'[v]) /\ WritesRefer(req[v])' /\ WritesKeepLogin(req[v])'
  <2>1. PICK cv : cv = req'[v]
    OBVIOUS
  <2>2. WritesTyped(cv) /\ WritesRefer(cv) /\ WritesKeepLogin(cv)
    BY <1>1, <2>1 DEF HeldInv, HeldWrites, Free
  <2>3. WritesRefer(cv)' /\ WritesKeepLogin(cv)'
    BY <2>2, ReferStill, LoginStill DEF IInv
  <2>4. QED
    BY <2>1, <2>2, <2>3 DEF WritesRefer, WritesKeepLogin
<1>2. \A t \in Numbered : DOMAIN db'[t] = DOMAIN db[t]
  BY DEF Numbered
<1>3. \A v \in Worker : req'[v] # None => ~Free(v) /\ req'[v] = req[v]
  BY DEF Free
<1>4. FreshIds'
  BY <1>2, <1>3 DEF HeldInv, FreshIds, Free, Writes, Inserted, WithOp
<1>5. QED
  BY <1>1, <1>4 DEF HeldInv, HeldWrites, Free

LEMMA RollbackKeeps ==
    ASSUME IInv, HeldInv, NEW w \in Worker, Rollback(w)
    PROVE  IInv' /\ HeldInv'
<1>1. db' = db /\ seq' = seq /\ req' = [req EXCEPT ![w] = None] /\ DOMAIN req = Worker
  BY DEF Rollback, HeldInv
<1>2. IInv'
  BY <1>1 DEF IInv, TypeOK, HasLoginMethod, Linked, Exists
<1>3. Grown /\ \A v \in Worker : req'[v] # None => req'[v] = req[v]
  BY <1>1 DEF Grown
<1>4. QED
  BY <1>1, <1>2, <1>3, FewerRequests

LEMMA ExpireKeeps ==
    ASSUME IInv, HeldInv, NEW t \in 1..MaxId, ExpireToken(t)
    PROVE  IInv' /\ HeldInv'
<1>1. /\ db' = [db EXCEPT !.tokens[t].expired = TRUE] /\ t \in DOMAIN db.tokens
      /\ seq' = seq /\ req' = req /\ DOMAIN db = Tables
  BY DEF ExpireToken, IInv
<1>2. /\ db'.tokens = [db.tokens EXCEPT ![t] = [@ EXCEPT !.expired = TRUE]]
      /\ db'.users = db.users /\ db'.orgs = db.orgs /\ db'.google = db.google
      /\ DOMAIN db' = Tables
  BY <1>1 DEF Tables
<1>3. \A k \in DOMAIN db.tokens : db.tokens[k] \in VerificationToken /\ k \in 1..MaxId
  BY DEF IInv, TypeOK, IsTable
<1>4. /\ DOMAIN db'.tokens = DOMAIN db.tokens
      /\ \A k \in DOMAIN db.tokens : TokenKept(db.tokens[k], db'.tokens[k])
  <2>1. DOMAIN db'.tokens = DOMAIN db.tokens
    BY <1>2
  <2>2. ASSUME NEW k \in DOMAIN db.tokens
        PROVE  TokenKept(db.tokens[k], db'.tokens[k])
    <3>1. db'.tokens[k] = [db.tokens[k] EXCEPT !.expired = TRUE] \/ db'.tokens[k] = db.tokens[k]
      BY <1>2, <2>2
    <3>2. QED
      BY <1>3, <2>2, <3>1 DEF TokenKept, VerificationToken
  <2>3. QED
    BY <2>1, <2>2
<1>5. IsTable(db.tokens, 1..MaxId, VerificationToken)'
  BY <1>3, <1>4 DEF IsTable, TokenKept
<1>6. \A k \in DOMAIN db'.tokens : Exists(db.tokens[k].user)'
  BY <1>2, <1>4 DEF IInv, TypeOK, TokenKept, Exists
<1>7. IInv'
  <2>1. HasLoginMethod'
    BY <1>2 DEF IInv, HasLoginMethod, Linked
  <2>2. /\ IsTable(db.users, Email, User)' /\ IsTable(db.orgs, 1..MaxId, Organization)'
        /\ IsTable(db.google, 1..MaxId, OAuthAccount)' /\ (seq \in 1..MaxId + 1)'
    BY <1>1, <1>2 DEF IInv, TypeOK, IsTable
  <2>3. /\ \A u \in DOMAIN db'.users : db'.users[u].org \in DOMAIN db'.orgs
        /\ \A g \in DOMAIN db'.google : db'.google[g].user \in DOMAIN db'.users
    BY <1>2 DEF IInv, TypeOK, Exists
  <2>4. QED
    BY <1>2, <1>5, <1>6, <2>1, <2>2, <2>3 DEF IInv, TypeOK, Exists
<1>8. Grown
  BY <1>2 DEF Grown
<1>9. QED
  BY <1>1, <1>2, <1>4, <1>7, <1>8, FewerRequests DEF HeldInv

-------------------------------------------------------------------------------
(* A handler keeps the invariant if what it writes does *)

\* The ids of the rows that the handler inserts are new.
Numbers(ch, n) ==
    \A t \in Numbered :
        /\ \A i \in Inserted(ch, t) : i = seq /\ n = seq + 1
        /\ DOMAIN Writes(ch, t) \subseteq Inserted(ch, t) \cup DOMAIN db[t]

LEMMA HandlerKeeps ==
    ASSUME IInv, HeldInv, NEW w \in Worker, NEW ch, Free(w), db' = db,
           req' = [req EXCEPT ![w] = ch], seq' = seq \/ (seq <= MaxId /\ seq' = seq + 1),
           WritesTyped(ch), WritesRefer(ch), WritesKeepLogin(ch), Numbers(ch, seq')
    PROVE  IInv' /\ HeldInv'
<1>1. seq \in Nat /\ seq' \in 1..MaxId + 1 /\ seq <= seq' /\ MaxId \in Nat
  BY IdAssumption DEF IInv, TypeOK
<1>2. IInv'
  BY <1>1 DEF IInv, TypeOK, IsTable, Exists, HasLoginMethod, Linked
<1>3. /\ DOMAIN req' = Worker /\ req'[w] = ch
      /\ \A v \in Worker \ {w} : req'[v] = req[v]
  BY DEF HeldInv
<1>4. HeldWrites'
  <2>1. WritesRefer(ch)' /\ WritesKeepLogin(ch)'
    BY DEF WritesRefer, WritesKeepLogin
  <2>2. ASSUME NEW v \in Worker, req'[v] # None
        PROVE  WritesTyped(req'[v]) /\ WritesRefer(req[v])' /\ WritesKeepLogin(req[v])'
    <3>1. CASE v = w
      BY <1>3, <2>1, <3>1 DEF WritesRefer, WritesKeepLogin
    <3>2. CASE v # w
      BY <1>3, <2>2, <3>2 DEF HeldInv, HeldWrites, Free, WritesRefer, WritesKeepLogin
    <3>3. QED
      BY <3>1, <3>2
  <2>3. QED
    BY <2>2 DEF HeldWrites, Free
<1>5. ASSUME NEW t \in Numbered
      PROVE  /\ \A i \in DOMAIN db[t] : i < seq' /\ i # seq
             /\ \A v \in Worker : req'[v] # None => \A i \in DOMAIN Writes(req'[v], t) : i < seq'
  <2>1. t \in Tables /\ \A i \in DOMAIN db[t] : i \in Nat /\ i < seq
    BY <1>1 DEF HeldInv, FreshIds, IInv, TypeOK, IsTable, Numbered, Tables
  <2>2. \A i \in DOMAIN Writes(ch, t) : i < seq'
    BY <1>1, <2>1 DEF Numbers
  <2>3. ASSUME NEW v \in Worker, v # w, req'[v] # None
        PROVE  \A i \in DOMAIN Writes(req'[v], t) : i < seq'
    <3>1. /\ req'[v] = req[v] /\ ~Free(v) /\ \A i \in DOMAIN Writes(req[v], t) : i < seq
          /\ WritesTyped(req[v])
      BY <1>3, <2>3 DEF HeldInv, FreshIds, HeldWrites, Free
    <3>2. \A i \in DOMAIN Writes(req[v], t) : i \in 1..MaxId
      BY <3>1 DEF WritesTyped, Numbered
    <3>3. QED
      BY <1>1, <3>1, <3>2
  <2>4. QED
    BY <1>1, <1>3, <2>1, <2>2, <2>3
<1>6. ASSUME NEW t \in Numbered, NEW v \in Worker, req'[v] # None, NEW i \in Inserted(req'[v], t)
      PROVE  /\ i \notin DOMAIN db[t]
             /\ \A u \in Worker \ {v} : req'[u] # None => i \notin DOMAIN Writes(req'[u], t)
  <2>1. CASE v = w
    <3>1. i = seq /\ i \notin DOMAIN db[t]
      BY <1>3, <1>5, <1>6, <2>1 DEF Numbers
    <3>2. ASSUME NEW u \in Worker \ {v}, req'[u] # None
          PROVE  i \notin DOMAIN Writes(req'[u], t)
      BY <1>1, <1>3, <2>1, <3>1, <3>2 DEF HeldInv, FreshIds, Free
    <3>3. QED
      BY <3>1, <3>2
  <2>2. CASE v # w
    <3>1. req'[v] = req[v] /\ ~Free(v) /\ i \in Inserted(req[v], t)
      BY <1>3, <1>6, <2>2 DEF Free
    <3>2. i \notin DOMAIN db[t] /\ i \in DOMAIN Writes(req[v], t) /\ i < seq
      BY <3>1 DEF HeldInv, FreshIds, Inserted, WithOp
    <3>3. i \notin DOMAIN Writes(ch, t)
      BY <1>1, <3>2 DEF Numbers
    <3>4. ASSUME NEW u \in Worker \ {v}, req'[u] # None
          PROVE  i \notin DOMAIN Writes(req'[u], t)
      BY <1>3, <3>1, <3>3, <3>4 DEF HeldInv, FreshIds, Free
    <3>5. QED
      BY <3>2, <3>4
  <2>3. QED
    BY <2>1, <2>2
<1>7. FreshIds'
  BY <1>5, <1>6 DEF FreshIds, Free, Writes, Inserted, WithOp
<1>8. QED
  BY <1>2, <1>3, <1>4, <1>7 DEF HeldInv

-------------------------------------------------------------------------------
(* What the handlers write *)

Legal(ch, n) == WritesTyped(ch) /\ WritesRefer(ch) /\ WritesKeepLogin(ch) /\ Numbers(ch, n)

LEMMA EachWrite ==
    ASSUME NEW ch, NEW t, NEW ids, NEW x, t \in DOMAIN ch, ch[t] = Each(ids, x)
    PROVE  /\ DOMAIN Writes(ch, t) = ids /\ \A i \in ids : Writes(ch, t)[i] = x
           /\ Inserted(ch, t) = IF x.op = "insert" THEN ids ELSE {}
           /\ Deleted(ch, t) = IF x.op = "delete" THEN ids ELSE {}
<1>1. Writes(ch, t) = [i \in ids |-> x]
  BY DEF Writes, Each
<1>2. QED
  BY <1>1 DEF Inserted, Deleted, WithOp

LEMMA InsertOp == \A row : Insert(row).op = "insert" /\ Insert(row).cols = row
BY DEF Insert

LEMMA UpdateOp == \A cols : Update(cols).op = "update" /\ Update(cols).cols = cols
BY DEF Update

LEMMA WrittenOne ==
    ASSUME NEW r, NEW cols, NEW f, NEW v, DOMAIN cols = {f}, cols[f] = v
    PROVE  Written(r, Update(cols)) = [c \in DOMAIN r |-> IF c = f THEN v ELSE r[c]]
<1>1. Written(r, Update(cols)) =
          [c \in DOMAIN r |-> IF c \in DOMAIN cols THEN cols[c] ELSE r[c]]
  BY UpdateOp DEF Written
<1>2. QED
  BY <1>1

\* The columns that handlers assign keep a user a user, with a password.
LEMMA UserUpdates ==
    /\ \A role \in Role : UserWrite(Update([role |-> role]))
    /\ \A active \in BOOLEAN : UserWrite(Update([active |-> active]))
    /\ \A verified \in BOOLEAN : UserWrite(Update([verified |-> verified]))
    /\ \A t \in 1..MaxId : UserWrite(Update([password |-> t]))
<1>1. ASSUME NEW r \in User, NEW role \in Role
      PROVE  UserKept(r, Written(r, Update([role |-> role])))
  <2>1. Written(r, Update([role |-> role])) =
            [c \in DOMAIN r |-> IF c = "role" THEN role ELSE r[c]]
    BY WrittenOne
  <2>2. QED
    BY <2>1 DEF User, UserKept
<1>2. ASSUME NEW r \in User, NEW active \in BOOLEAN
      PROVE  UserKept(r, Written(r, Update([active |-> active])))
  <2>1. Written(r, Update([active |-> active])) =
            [c \in DOMAIN r |-> IF c = "active" THEN active ELSE r[c]]
    BY WrittenOne
  <2>2. QED
    BY <2>1 DEF User, UserKept
<1>3. ASSUME NEW r \in User, NEW verified \in BOOLEAN
      PROVE  UserKept(r, Written(r, Update([verified |-> verified])))
  <2>1. Written(r, Update([verified |-> verified])) =
            [c \in DOMAIN r |-> IF c = "verified" THEN verified ELSE r[c]]
    BY WrittenOne
  <2>2. QED
    BY <2>1 DEF User, UserKept
<1>4. ASSUME NEW r \in User, NEW t \in 1..MaxId
      PROVE  UserKept(r, Written(r, Update([password |-> t])))
  <2>1. Written(r, Update([password |-> t])) =
            [c \in DOMAIN r |-> IF c = "password" THEN t ELSE r[c]]
    BY WrittenOne
  <2>2. t # None /\ t \in 0..MaxId
    BY NullIsNoNumber, IdAssumption
  <2>3. QED
    BY <2>1, <2>2 DEF User, UserKept
<1>5. QED
  BY <1>1, <1>2, <1>3, <1>4, UpdateOp DEF UserWrite

LEMMA OrgUpdate == \A active \in BOOLEAN : OrgWrite(Update([active |-> active]))
<1>1. ASSUME NEW r \in Organization, NEW active \in BOOLEAN
      PROVE  Written(r, Update([active |-> active])) \in Organization
  <2>1. Written(r, Update([active |-> active])) =
            [c \in DOMAIN r |-> IF c = "active" THEN active ELSE r[c]]
    BY WrittenOne
  <2>2. QED
    BY <2>1 DEF Organization
<1>2. QED
  BY <1>1, UpdateOp DEF OrgWrite

\* A handler that writes only users and organizations, and no users without password.
LEMMA PeopleWrites ==
    ASSUME NEW ch, NEW n, "tokens" \notin DOMAIN ch, "google" \notin DOMAIN ch,
           \A o \in DOMAIN Writes(ch, "orgs") : o \in 1..MaxId /\ OrgWrite(Writes(ch, "orgs")[o]),
           \A u \in DOMAIN Writes(ch, "users") :
               u \in Email /\ UserWrite(Writes(ch, "users")[u]),
           \A u \in Inserted(ch, "users") :
               /\ Writes(ch, "users")[u].cols.org \in DOMAIN db.orgs \cup Inserted(ch, "orgs")
               /\ Writes(ch, "users")[u].cols.password # None
    PROVE  Legal(ch, n)
<1>1. \A t \in Numbered :
          DOMAIN Writes(ch, t) = {} /\ Inserted(ch, t) = {} /\ Deleted(ch, t) = {}
  BY NothingWritten DEF Numbered
<1>2. QED
  BY <1>1 DEF Legal, WritesTyped, WritesRefer, WritesKeepLogin, Numbers, Numbered

LEMMA UserWrites ==
    ASSUME NEW n, NEW ids \in SUBSET Email, NEW x, UserWrite(x),
           x.op = "insert" => x.cols.org \in DOMAIN db.orgs /\ x.cols.password # None
    PROVE  Legal([users |-> Each(ids, x)], n)
<1>1. PICK ch : ch = [users |-> Each(ids, x)]
  OBVIOUS
<1>2. DOMAIN ch = {"users"} /\ ch["users"] = Each(ids, x)
  BY <1>1
<1>3. DOMAIN Writes(ch, "orgs") = {} /\ Inserted(ch, "orgs") = {}
  BY <1>2, NothingWritten
<1>4. QED
  BY <1>1, <1>2, <1>3, EachWrite, PeopleWrites

LEMMA OrgWrites ==
    ASSUME NEW n, NEW ids \in SUBSET (1..MaxId), NEW x, OrgWrite(x)
    PROVE  Legal([orgs |-> Each(ids, x)], n)
<1>1. PICK ch : ch = [orgs |-> Each(ids, x)]
  OBVIOUS
<1>2. DOMAIN ch = {"orgs"} /\ ch["orgs"] = Each(ids, x)
  BY <1>1
<1>3. DOMAIN Writes(ch, "users") = {} /\ Inserted(ch, "users") = {}
  BY <1>2, NothingWritten
<1>4. QED
  BY <1>1, <1>2, <1>3, EachWrite, PeopleWrites

LEMMA OrgAndUserWrites ==
    ASSUME NEW n, NEW os \in SUBSET (1..MaxId), NEW x, OrgWrite(x),
           NEW us \in SUBSET Email, NEW y, UserWrite(y),
           y.op = "insert" => x.op = "insert" /\ y.cols.org \in os /\ y.cols.password # None
    PROVE  Legal([orgs |-> Each(os, x), users |-> Each(us, y)], n)
<1>1. PICK ch : ch = [orgs |-> Each(os, x), users |-> Each(us, y)]
  OBVIOUS
<1>2. /\ DOMAIN ch = {"orgs", "users"}
      /\ ch["orgs"] = Each(os, x) /\ ch["users"] = Each(us, y)
  BY <1>1
<1>3. QED
  BY <1>1, <1>2, EachWrite, PeopleWrites


\* Sending a link.
LEMMA LinkWrites ==
    ASSUME IInv, NEW u \in DOMAIN db.users, NEW type \in TokenType, seq <= MaxId
    PROVE  Legal([tokens |-> NewToken(u, type)], seq + 1)
<1>1. PICK ch : ch = [tokens |-> NewToken(u, type)]
  OBVIOUS
<1>2. PICK row : row = [user |-> u, type |-> type, used |-> FALSE, expired |-> FALSE]
  OBVIOUS
<1>3. u \in Email /\ row \in VerificationToken /\ row.user = u /\ seq \in 1..MaxId
  BY <1>2, IdAssumption DEF IInv, TypeOK, IsTable, VerificationToken
<1>4. /\ Unused(u, type) \subseteq DOMAIN db.tokens
      /\ \A t \in DOMAIN db.tokens : t \in 1..MaxId
  BY DEF Unused, IInv, TypeOK, IsTable
<1>5. DOMAIN ch = {"tokens"} /\ Writes(ch, "tokens") = NewToken(u, type)
  BY <1>1 DEF Writes
<1>6. \A t \in Tables \ {"tokens"} :
          DOMAIN Writes(ch, t) = {} /\ Inserted(ch, t) = {} /\ Deleted(ch, t) = {}
  BY <1>5, NothingWritten
<1>7. /\ DOMAIN Writes(ch, "tokens") = Unused(u, type) \cup {seq}
      /\ \A t \in Unused(u, type) \ {seq} :
             Writes(ch, "tokens")[t] = Update([used |-> TRUE])
      /\ Writes(ch, "tokens")[seq] = Insert(row)
  BY <1>2, <1>5 DEF NewToken, Both, Each
<1>8. Inserted(ch, "tokens") = {seq}
  BY <1>7, InsertOp, UpdateOp DEF Inserted, WithOp
<1>9. WritesTyped(ch)
  BY <1>3, <1>4, <1>6, <1>7, InsertOp DEF WritesTyped, TokenWrite, Tables
<1>10. WritesRefer(ch)
  BY <1>3, <1>6, <1>7, <1>8, InsertOp DEF WritesRefer, Tables
<1>11. WritesKeepLogin(ch) /\ Numbers(ch, seq + 1)
  BY <1>4, <1>6, <1>7, <1>8 DEF WritesKeepLogin, Numbers, Numbered, Tables
<1>12. QED
  BY <1>1, <1>9, <1>10, <1>11 DEF Legal

\* Following a link.
LEMMA ConsumeWrites ==
    ASSUME IInv, NEW n, NEW t \in DOMAIN db.tokens, NEW y, UserWrite(y), y.op = "update"
    PROVE  Legal([tokens |-> Consumed(t), users |-> Each({db.tokens[t].user}, y)], n)
<1>1. PICK u : u = db.tokens[t].user
  OBVIOUS
<1>2. PICK ch : ch = [tokens |-> Consumed(t), users |-> Each({u}, y)]
  OBVIOUS
<1>3. u \in Email /\ t \in 1..MaxId
  BY <1>1 DEF IInv, TypeOK, IsTable, VerificationToken
<1>4. /\ DOMAIN ch = {"tokens", "users"} /\ ch["users"] = Each({u}, y)
      /\ ch["tokens"] = Each({t}, Update([used |-> TRUE]))
  BY <1>2 DEF Consumed
<1>5. \A x \in {"orgs", "google"} :
          DOMAIN Writes(ch, x) = {} /\ Inserted(ch, x) = {} /\ Deleted(ch, x) = {}
  BY <1>4, NothingWritten
<1>6. /\ DOMAIN Writes(ch, "users") = {u} /\ Writes(ch, "users")[u] = y
      /\ Inserted(ch, "users") = {}
  BY <1>4, EachWrite
<1>7. /\ DOMAIN Writes(ch, "tokens") = {t}
      /\ Writes(ch, "tokens")[t] = Update([used |-> TRUE]) /\ Inserted(ch, "tokens") = {}
  BY <1>4, EachWrite, UpdateOp
<1>8. QED
  BY <1>1, <1>2, <1>3, <1>5, <1>6, <1>7
     DEF Legal, WritesTyped, WritesRefer, WritesKeepLogin, Numbers, Numbered, TokenWrite

\* Linking a Google account to a user.
LEMMA AccountWrites ==
    ASSUME IInv, NEW g \in Subject, NEW u \in DOMAIN db.users, seq <= MaxId
    PROVE  Legal([google |-> NewAccount(g, u)], seq + 1)
<1>1. PICK ch : ch = [google |-> NewAccount(g, u)]
  OBVIOUS
<1>2. PICK row : row = [subject |-> g, user |-> u]
  OBVIOUS
<1>3. u \in Email /\ row \in OAuthAccount /\ row.user = u /\ seq \in 1..MaxId
  BY <1>2, IdAssumption DEF IInv, TypeOK, IsTable, OAuthAccount
<1>4. DOMAIN ch = {"google"} /\ ch["google"] = Each({seq}, Insert(row))
  BY <1>1, <1>2 DEF NewAccount
<1>5. \A x \in Tables \ {"google"} :
          DOMAIN Writes(ch, x) = {} /\ Inserted(ch, x) = {} /\ Deleted(ch, x) = {}
  BY <1>4, NothingWritten
<1>6. /\ DOMAIN Writes(ch, "google") = {seq} /\ Writes(ch, "google")[seq] = Insert(row)
      /\ Inserted(ch, "google") = {seq} /\ Deleted(ch, "google") = {}
  BY <1>4, EachWrite, InsertOp
<1>7. QED
  BY <1>1, <1>3, <1>5, <1>6, InsertOp
     DEF Legal, WritesTyped, WritesRefer, WritesKeepLogin, Numbers, Numbered, GoogleWrite, Tables

\* Registering through Google.
LEMMA RegisterWrites ==
    ASSUME IInv, NEW g \in Subject, NEW u \in Email, seq <= MaxId
    PROVE  Legal([orgs |-> Each({seq}, Insert([active |-> TRUE])),
                  users |-> Each({u}, Insert(NewUser(seq, "ADMIN", FALSE, None))),
                  google |-> NewAccount(g, u)], seq + 1)
<1>1. PICK org, user, row :
          /\ org = [active |-> TRUE] /\ user = NewUser(seq, "ADMIN", FALSE, None)
          /\ row = [subject |-> g, user |-> u]
  OBVIOUS
<1>2. PICK ch : ch = [orgs |-> Each({seq}, Insert(org)), users |-> Each({u}, Insert(user)),
                      google |-> NewAccount(g, u)]
  OBVIOUS
<1>3. seq \in 1..MaxId
  BY IdAssumption DEF IInv, TypeOK
<1>4. /\ org \in Organization /\ user \in User /\ user.org = seq
      /\ row \in OAuthAccount /\ row.user = u
  BY <1>1, <1>3 DEF Organization, User, NewUser, Role, OAuthAccount
<1>5. /\ DOMAIN ch = {"orgs", "users", "google"} /\ ch["orgs"] = Each({seq}, Insert(org))
      /\ ch["users"] = Each({u}, Insert(user)) /\ ch["google"] = Each({seq}, Insert(row))
  BY <1>1, <1>2 DEF NewAccount
<1>6. DOMAIN Writes(ch, "tokens") = {} /\ Inserted(ch, "tokens") = {}
  BY <1>5, NothingWritten
<1>7. /\ DOMAIN Writes(ch, "orgs") = {seq} /\ Writes(ch, "orgs")[seq] = Insert(org)
      /\ Inserted(ch, "orgs") = {seq}
  BY <1>5, EachWrite, InsertOp
<1>8. /\ DOMAIN Writes(ch, "users") = {u} /\ Writes(ch, "users")[u] = Insert(user)
      /\ Inserted(ch, "users") = {u}
  BY <1>5, EachWrite, InsertOp
<1>9. /\ DOMAIN Writes(ch, "google") = {seq} /\ Writes(ch, "google")[seq] = Insert(row)
      /\ Inserted(ch, "google") = {seq} /\ Deleted(ch, "google") = {}
  BY <1>5, EachWrite, InsertOp
<1>10. WritesTyped(ch)
  BY <1>3, <1>4, <1>6, <1>7, <1>8, <1>9, InsertOp
     DEF WritesTyped, OrgWrite, UserWrite, GoogleWrite
<1>11. WritesRefer(ch)
  BY <1>4, <1>6, <1>7, <1>8, <1>9, InsertOp DEF WritesRefer
<1>12. WritesKeepLogin(ch) /\ Numbers(ch, seq + 1)
  BY <1>4, <1>6, <1>8, <1>9, InsertOp DEF WritesKeepLogin, Numbers, Numbered
<1>13. Legal(ch, seq + 1)
  BY <1>10, <1>11, <1>12 DEF Legal
<1>14. QED
  BY <1>1, <1>2, <1>13

\* Unlinking the Google account of a user with a password.
LEMMA UnlinkWrites ==
    ASSUME IInv, NEW n, NEW u \in DOMAIN db.users, db.users[u].password # None
    PROVE  Legal([google |-> Each(Linked(u), Delete)], n)
<1>1. PICK ch : ch = [google |-> Each(Linked(u), Delete)]
  OBVIOUS
<1>2. DOMAIN ch = {"google"} /\ ch["google"] = Each(Linked(u), Delete)
  BY <1>1
<1>3. \A x \in Tables \ {"google"} :
          DOMAIN Writes(ch, x) = {} /\ Inserted(ch, x) = {} /\ Deleted(ch, x) = {}
  BY <1>2, NothingWritten
<1>4. Delete.op = "delete"
  BY DEF Delete
<1>5. /\ DOMAIN Writes(ch, "google") = Linked(u)
      /\ \A g \in Linked(u) : Writes(ch, "google")[g] = Delete
      /\ Inserted(ch, "google") = {} /\ Deleted(ch, "google") = Linked(u)
  BY <1>2, <1>4, EachWrite
<1>6. \A g \in Linked(u) : g \in DOMAIN db.google /\ g \in 1..MaxId /\ db.google[g].user = u
  BY DEF Linked, IInv, TypeOK, IsTable
<1>7. QED
  BY <1>1, <1>3, <1>5, <1>6
     DEF Legal, WritesTyped, WritesRefer, WritesKeepLogin, Numbers, Numbered, GoogleWrite, Tables

-------------------------------------------------------------------------------
(* Every handler keeps the invariant *)

LEMMA HoldKeeps ==
    ASSUME IInv, HeldInv, NEW w \in Worker, NEW ch, Hold(w, ch), Legal(ch, seq)
    PROVE  IInv' /\ HeldInv'
<1>1. seq' = seq /\ db' = db /\ Free(w) /\ req' = [req EXCEPT ![w] = ch]
  BY DEF Hold
<1>2. WritesTyped(ch) /\ WritesRefer(ch) /\ WritesKeepLogin(ch) /\ Numbers(ch, seq')
  BY <1>1 DEF Legal
<1>3. QED
  BY <1>1, <1>2, HandlerKeeps

LEMMA HoldNewKeeps ==
    ASSUME IInv, HeldInv, NEW w \in Worker, NEW ch, HoldNew(w, ch), Legal(ch, seq + 1)
    PROVE  IInv' /\ HeldInv'
<1>1. /\ seq <= MaxId /\ seq' = seq + 1 /\ db' = db /\ Free(w)
      /\ req' = [req EXCEPT ![w] = ch]
  BY DEF HoldNew
<1>2. WritesTyped(ch) /\ WritesRefer(ch) /\ WritesKeepLogin(ch) /\ Numbers(ch, seq')
  BY <1>1 DEF Legal
<1>3. QED
  BY <1>1, <1>2, HandlerKeeps

LEMMA NewUserType ==
    ASSUME NEW o \in 1..MaxId, NEW role \in Role, NEW verified \in BOOLEAN
    PROVE  /\ UserWrite(Insert(NewUser(o, role, verified, 0)))
           /\ Insert(NewUser(o, role, verified, 0)).op = "insert"
           /\ Insert(NewUser(o, role, verified, 0)).cols.org = o
           /\ Insert(NewUser(o, role, verified, 0)).cols.password # None
<1>1. 0 \in 0..MaxId /\ 0 # None
  BY NullIsNoNumber, IdAssumption
<1>2. PICK user : user = NewUser(o, role, verified, 0)
  OBVIOUS
<1>3. user \in User /\ user.org = o /\ user.password # None
  BY <1>1, <1>2 DEF NewUser, User
<1>4. QED
  BY <1>2, <1>3, InsertOp DEF UserWrite

LEMMA NewOrgType ==
    /\ OrgWrite(Insert([active |-> TRUE])) /\ Insert([active |-> TRUE]).op = "insert"
<1>1. PICK org : org = [active |-> TRUE]
  OBVIOUS
<1>2. org \in Organization
  BY <1>1 DEF Organization
<1>3. QED
  BY <1>1, <1>2, InsertOp DEF OrgWrite

LEMMA RegisterKeeps ==
    ASSUME IInv, HeldInv, NEW w \in Worker, Register(w)
    PROVE  IInv' /\ HeldInv'
<1>1. PICK u \in Email : RegisterFounder(w, u) \/ \E o \in 1..MaxId : RegisterMember(w, u, o)
  BY DEF Register
<1>2. CASE RegisterFounder(w, u)
  <2>1. seq \in 1..MaxId
    BY <1>2, IdAssumption DEF RegisterFounder, HoldNew, IInv, TypeOK
  <2>2. Legal([orgs |-> Each({seq}, Insert([active |-> TRUE])),
               users |-> Each({u}, Insert(NewUser(seq, "ADMIN", FALSE, 0)))], seq + 1)
    BY <2>1, NewUserType, NewOrgType, OrgAndUserWrites DEF Role
  <2>3. QED
    BY <1>2, <2>2, HoldNewKeeps DEF RegisterFounder
<1>3. CASE \E o \in 1..MaxId : RegisterMember(w, u, o)
  <2>1. PICK o \in 1..MaxId : RegisterMember(w, u, o)
    BY <1>3
  <2>2. Legal([users |-> Each({u}, Insert(NewUser(o, "CLIENT", FALSE, 0)))], seq)
    BY <2>1, NewUserType, UserWrites DEF Role, RegisterMember
  <2>3. QED
    BY <2>1, <2>2, HoldKeeps DEF RegisterMember
<1>4. QED
  BY <1>1, <1>2, <1>3

LEMMA AdministerKeeps ==
    ASSUME IInv, HeldInv, NEW w \in Worker, Administer(w)
    PROVE  IInv' /\ HeldInv'
<1>1. PICK a \in Email :
        \/ CreateOrganization(w, a)
        \/ \E u \in Email : DeactivateUser(w, a, u)
        \/ \E u \in Email, o \in 1..MaxId, role \in Role : CreateUser(w, a, u, o, role)
        \/ \E u \in Email, role \in Role : ChangeRole(w, a, u, role)
        \/ \E u \in Email, active \in BOOLEAN : SetActive(w, a, u, active)
        \/ \E o \in 1..MaxId, active \in BOOLEAN : SetOrganizationActive(w, a, o, active)
        \/ \E o \in 1..MaxId : SuspendOrganization(w, a, o) \/ ActivateOrganization(w, a, o)
  BY DEF Administer
<1>2. CASE CreateOrganization(w, a)
  <2>1. seq \in 1..MaxId
    BY <1>2, IdAssumption DEF CreateOrganization, HoldNew, IInv, TypeOK
  <2>2. Legal([orgs |-> Each({seq}, Insert([active |-> TRUE]))], seq + 1)
    BY <2>1, NewOrgType, OrgWrites
  <2>3. QED
    BY <1>2, <2>2, HoldNewKeeps DEF CreateOrganization
<1>3. CASE \E u \in Email : DeactivateUser(w, a, u)
  <2>1. PICK u \in Email : DeactivateUser(w, a, u)
    BY <1>3
  <2>2. Legal([users |-> Each({u}, Update([active |-> FALSE]))], seq)
    BY UserUpdates, UpdateOp, UserWrites
  <2>3. QED
    BY <2>1, <2>2, HoldKeeps DEF DeactivateUser
<1>4. CASE \E u \in Email, o \in 1..MaxId, role \in Role : CreateUser(w, a, u, o, role)
  <2>1. PICK u \in Email, o \in 1..MaxId, role \in Role : CreateUser(w, a, u, o, role)
    BY <1>4
  <2>2. Legal([users |-> Each({u}, Insert(NewUser(o, role, TRUE, 0)))], seq)
    BY <2>1, NewUserType, UserWrites DEF CreateUser
  <2>3. QED
    BY <2>1, <2>2, HoldKeeps DEF CreateUser
<1>5. CASE \E u \in Email, role \in Role : ChangeRole(w, a, u, role)
  <2>1. PICK u \in Email, role \in Role : ChangeRole(w, a, u, role)
    BY <1>5
  <2>2. Legal([users |-> Each({u}, Update([role |-> role]))], seq)
    BY UserUpdates, UpdateOp, UserWrites
  <2>3. QED
    BY <2>1, <2>2, HoldKeeps DEF ChangeRole
<1>6. CASE \E u \in Email, active \in BOOLEAN : SetActive(w, a, u, active)
  <2>1. PICK u \in Email, active \in BOOLEAN : SetActive(w, a, u, active)
    BY <1>6
  <2>2. Legal([users |-> Each({u}, Update([active |-> active]))], seq)
    BY UserUpdates, UpdateOp, UserWrites
  <2>3. QED
    BY <2>1, <2>2, HoldKeeps DEF SetActive
<1>7. CASE \E o \in 1..MaxId, active \in BOOLEAN : SetOrganizationActive(w, a, o, active)
  <2>1. PICK o \in 1..MaxId, active \in BOOLEAN : SetOrganizationActive(w, a, o, active)
    BY <1>7
  <2>2. Legal([orgs |-> Each({o}, Update([active |-> active]))], seq)
    BY OrgUpdate, OrgWrites
  <2>3. QED
    BY <2>1, <2>2, HoldKeeps DEF SetOrganizationActive
<1>8. CASE \E o \in 1..MaxId : SuspendOrganization(w, a, o)
  <2>1. PICK o \in 1..MaxId : SuspendOrganization(w, a, o)
    BY <1>8
  <2>2. PICK us : us = {u \in DOMAIN db.users : db.users[u].org = o /\ db.users[u].active}
    OBVIOUS
  <2>3. us \in SUBSET Email
    BY <2>2 DEF IInv, TypeOK, IsTable
  <2>4. Legal([orgs |-> Each({o}, Update([active |-> FALSE])),
               users |-> Each(us, Update([active |-> FALSE]))], seq)
    BY <2>3, UserUpdates, OrgUpdate, UpdateOp, OrgAndUserWrites
  <2>5. QED
    BY <2>1, <2>2, <2>4, HoldKeeps DEF SuspendOrganization
<1>9. CASE \E o \in 1..MaxId : ActivateOrganization(w, a, o)
  <2>1. PICK o \in 1..MaxId : ActivateOrganization(w, a, o)
    BY <1>9
  <2>2. Legal([orgs |-> Each({o}, Update([active |-> TRUE]))], seq)
    BY OrgUpdate, OrgWrites
  <2>3. QED
    BY <2>1, <2>2, HoldKeeps DEF ActivateOrganization
<1>10. QED
  BY <1>1, <1>2, <1>3, <1>4, <1>5, <1>6, <1>7, <1>8, <1>9

LEMMA UseGoogleKeeps ==
    ASSUME IInv, HeldInv, NEW w \in Worker, UseGoogle(w)
    PROVE  IInv' /\ HeldInv'
<1>1. PICK u \in Email :
        \/ \E g \in Subject : GoogleSignIn(w, g, u) \/ GoogleRegister(w, g, u) \/ LinkGoogle(w, g, u)
        \/ UnlinkGoogle(w, u)
  BY DEF UseGoogle
<1>2. CASE \E g \in Subject : GoogleSignIn(w, g, u) \/ LinkGoogle(w, g, u)
  <2>1. PICK g \in Subject : GoogleSignIn(w, g, u) \/ LinkGoogle(w, g, u)
    BY <1>2
  <2>2. seq <= MaxId /\ u \in DOMAIN db.users
    BY <2>1 DEF GoogleSignIn, LinkGoogle, HoldNew, Exists
  <2>3. Legal([google |-> NewAccount(g, u)], seq + 1)
    BY <2>2, AccountWrites
  <2>4. QED
    BY <2>1, <2>3, HoldNewKeeps DEF GoogleSignIn, LinkGoogle
<1>3. CASE \E g \in Subject : GoogleRegister(w, g, u)
  <2>1. PICK g \in Subject : GoogleRegister(w, g, u)
    BY <1>3
  <2>2. seq <= MaxId
    BY <2>1 DEF GoogleRegister, HoldNew
  <2>3. QED
    BY <2>1, <2>2, RegisterWrites, HoldNewKeeps DEF GoogleRegister
<1>4. CASE UnlinkGoogle(w, u)
  <2>1. u \in DOMAIN db.users /\ db.users[u].password # None
    BY <1>4 DEF UnlinkGoogle, Active, Exists, CanUnlink
  <2>2. Legal([google |-> Each(Linked(u), Delete)], seq)
    BY <2>1, UnlinkWrites
  <2>3. QED
    BY <1>4, <2>2, HoldKeeps DEF UnlinkGoogle
<1>5. QED
  BY <1>1, <1>2, <1>3, <1>4

LEMMA UseLinksKeeps ==
    ASSUME IInv, HeldInv, NEW w \in Worker, UseLinks(w)
    PROVE  IInv' /\ HeldInv'
<1>1. CASE \E u \in Email : SendVerificationEmail(w, u) \/ ForgotPassword(w, u)
  <2>1. PICK u \in Email : SendVerificationEmail(w, u) \/ ForgotPassword(w, u)
    BY <1>1
  <2>2. PICK type \in TokenType : HoldNew(w, [tokens |-> NewToken(u, type)])
    BY <2>1 DEF SendVerificationEmail, ForgotPassword, TokenType
  <2>3. seq <= MaxId /\ u \in DOMAIN db.users
    BY <2>1, <2>2 DEF SendVerificationEmail, ForgotPassword, HoldNew, Active, Exists
  <2>4. QED
    BY <2>2, <2>3, LinkWrites, HoldNewKeeps
<1>2. CASE \E t \in 1..MaxId : VerifyEmail(w, t)
  <2>1. PICK t \in 1..MaxId : VerifyEmail(w, t)
    BY <1>2
  <2>2. t \in DOMAIN db.tokens
    BY <2>1 DEF VerifyEmail, Consumable
  <2>3. QED
    BY <2>1, <2>2, UserUpdates, UpdateOp, ConsumeWrites, HoldKeeps DEF VerifyEmail
<1>3. CASE \E t \in 1..MaxId : ResetPassword(w, t)
  <2>1. PICK t \in 1..MaxId : ResetPassword(w, t)
    BY <1>3
  <2>2. t \in DOMAIN db.tokens
    BY <2>1 DEF ResetPassword, Consumable
  <2>3. QED
    BY <2>1, <2>2, UserUpdates, UpdateOp, ConsumeWrites, HoldKeeps DEF ResetPassword
<1>4. QED
  BY <1>1, <1>2, <1>3 DEF UseLinks

LEMMA InitKeeps ==
    Init => IInv /\ HeldInv
<1>1. SUFFICES ASSUME Init PROVE IInv /\ HeldInv
  OBVIOUS
<1>2. /\ db = [t \in Tables |-> NoRows] /\ seq = 1 /\ req = [w \in Worker |-> None]
  BY <1>1 DEF Init, Start, Tables
<1>3. DOMAIN NoRows = {}
  BY DEF NoRows
<1>4. \A t \in Tables : DOMAIN db[t] = {}
  BY <1>2, <1>3
<1>5. IInv
  BY <1>2, <1>4, IdAssumption DEF IInv, TypeOK, IsTable, HasLoginMethod, Tables
<1>6. HeldInv
  BY <1>2, <1>4 DEF HeldInv, HeldWrites, FreshIds, Free, Numbered, Tables
<1>7. QED
  BY <1>5, <1>6

LEMMA NextKeeps ==
    ASSUME IInv, HeldInv, [Next]_dbvars
    PROVE  IInv' /\ HeldInv'
<1>1. CASE \E w \in Worker : Finish(w)
  BY <1>1, CommitKeeps, RollbackKeeps DEF Finish, CommitUnique
<1>2. CASE UNCHANGED dbvars
  <2>1. db' = db /\ seq' = seq /\ req' = req
    BY <1>2 DEF dbvars
  <2>2. IInv'
    BY <2>1 DEF IInv, TypeOK, IsTable, Exists, HasLoginMethod, Linked
  <2>3. Grown
    BY <2>1 DEF Grown
  <2>4. QED
    BY <2>1, <2>2, <2>3, FewerRequests DEF HeldInv
<1>3. CASE Next
  BY <1>1, <1>3, RegisterKeeps, AdministerKeeps, UseGoogleKeeps, UseLinksKeeps, ExpireKeeps
     DEF Next
<1>4. QED
  BY <1>2, <1>3

\* Whatever requests overlap, rows have their column types and refer to rows that
\* exist: no commit leaves a user without its organization, a link or a Google account
\* without its user.
THEOREM TypeCorrect == Spec => []TypeOK
<1>1. IInv => TypeOK
  BY DEF IInv
<1>2. QED
  BY <1>1, InitKeeps, NextKeeps, PTL DEF Spec

\* Whatever requests overlap, every user can sign in: unlink_account takes a Google
\* account only from a user with a password, and nothing takes that away later, so the
\* check still holds when the request commits.
THEOREM LoginMethod == Spec => []HasLoginMethod
<1>1. IInv => HasLoginMethod
  BY DEF IInv
<1>2. QED
  BY <1>1, InitKeeps, NextKeeps, PTL DEF Spec

-------------------------------------------------------------------------------
(* Passwords that are reset, as long as no two requests overlap *)

KeepsPassword(x) == \A r \in User : Written(r, x).password = r.password

\* A request that sends a link uses up every earlier one of the kind; one that sets a
\* password uses up the link it came through.
LinksKept(ch) ==
    /\ \A i \in Inserted(ch, "tokens") :
           LET k == Writes(ch, "tokens")[i].cols IN
           /\ Inserted(ch, "tokens") = {i}
           /\ \A t \in DOMAIN db.tokens : t < i
           /\ Unused(k.user, k.type) \subseteq DOMAIN Writes(ch, "tokens")
    /\ \A u \in DOMAIN Writes(ch, "users") :
           LET x == Writes(ch, "users")[u] IN
           \/ x.op = "insert" \/ KeepsPassword(x)
           \/ \E t \in Unused(u, "password_reset") :
                  x = Update([password |-> t]) /\ t \in DOMAIN Writes(ch, "tokens")

\* An unused reset link is the newest one of its user.
UnusedIsNewest ==
    \A u \in Email : \A t \in Unused(u, "password_reset") : \A k \in DOMAIN db.tokens :
        db.tokens[k].user = u /\ db.tokens[k].type = "password_reset" => k <= t

Unraced ==
    /\ ~Overlap /\ UnusedIsNewest
    /\ \A w \in Worker : ~Free(w) => LinksKept(req[w])

MCInv == IInv /\ (Handles => HeldInv /\ (raced \/ Unraced))

-------------------------------------------------------------------------------
(* Every handler keeps links and passwords together *)

LEMMA KeepingUpdates ==
    /\ \A role \in Role : KeepsPassword(Update([role |-> role]))
    /\ \A active \in BOOLEAN : KeepsPassword(Update([active |-> active]))
    /\ \A verified \in BOOLEAN : KeepsPassword(Update([verified |-> verified]))
<1>1. ASSUME NEW r \in User, NEW cols, NEW f, NEW v, f # "password",
             DOMAIN cols = {f}, cols[f] = v
      PROVE  Written(r, Update(cols)).password = r.password
  <2>1. Written(r, Update(cols)) = [c \in DOMAIN r |-> IF c = f THEN v ELSE r[c]]
    BY <1>1, WrittenOne
  <2>2. QED
    BY <1>1, <2>1 DEF User
<1>2. QED
  BY <1>1 DEF KeepsPassword

LEMMA PlainWrites ==
    ASSUME NEW ch, "tokens" \notin DOMAIN ch,
           \A u \in DOMAIN Writes(ch, "users") :
               \/ Writes(ch, "users")[u].op = "insert"
               \/ KeepsPassword(Writes(ch, "users")[u])
    PROVE  LinksKept(ch)
BY NothingWritten DEF LinksKept

LEMMA PlainUsers ==
    ASSUME NEW ids, NEW x, x.op = "insert" \/ KeepsPassword(x)
    PROVE  LinksKept([users |-> Each(ids, x)])
<1>1. PICK ch : ch = [users |-> Each(ids, x)]
  OBVIOUS
<1>2. DOMAIN ch = {"users"} /\ ch["users"] = Each(ids, x)
  BY <1>1
<1>3. QED
  BY <1>1, <1>2, EachWrite, PlainWrites

LEMMA PlainOrgs ==
    ASSUME NEW ids, NEW x
    PROVE  LinksKept([orgs |-> Each(ids, x)])
<1>1. PICK ch : ch = [orgs |-> Each(ids, x)]
  OBVIOUS
<1>2. DOMAIN ch = {"orgs"}
  BY <1>1
<1>3. QED
  BY <1>1, <1>2, NothingWritten, PlainWrites

LEMMA PlainBoth ==
    ASSUME NEW os, NEW x, NEW us, NEW y, y.op = "insert" \/ KeepsPassword(y)
    PROVE  LinksKept([orgs |-> Each(os, x), users |-> Each(us, y)])
<1>1. PICK ch : ch = [orgs |-> Each(os, x), users |-> Each(us, y)]
  OBVIOUS
<1>2. DOMAIN ch = {"orgs", "users"} /\ ch["users"] = Each(us, y)
  BY <1>1
<1>3. QED
  BY <1>1, <1>2, EachWrite, PlainWrites

LEMMA PlainGoogle ==
    ASSUME NEW x
    PROVE  LinksKept([google |-> x])
<1>1. PICK ch : ch = [google |-> x]
  OBVIOUS
<1>2. DOMAIN ch = {"google"}
  BY <1>1
<1>3. QED
  BY <1>1, <1>2, NothingWritten, PlainWrites

LEMMA PlainRegister ==
    ASSUME NEW x, NEW us, NEW y, y.op = "insert", NEW z
    PROVE  LinksKept([orgs |-> x, users |-> Each(us, y), google |-> z])
<1>1. PICK ch : ch = [orgs |-> x, users |-> Each(us, y), google |-> z]
  OBVIOUS
<1>2. DOMAIN ch = {"orgs", "users", "google"} /\ ch["users"] = Each(us, y)
  BY <1>1
<1>3. QED
  BY <1>1, <1>2, EachWrite, PlainWrites

LEMMA SentKept ==
    ASSUME IInv, HeldInv, NEW u \in DOMAIN db.users, NEW type \in TokenType
    PROVE  LinksKept([tokens |-> NewToken(u, type)])
<1>1. PICK ch : ch = [tokens |-> NewToken(u, type)]
  OBVIOUS
<1>2. PICK row : row = [user |-> u, type |-> type, used |-> FALSE, expired |-> FALSE]
  OBVIOUS
<1>3. DOMAIN ch = {"tokens"} /\ Writes(ch, "tokens") = NewToken(u, type)
  BY <1>1 DEF Writes
<1>4. DOMAIN Writes(ch, "users") = {}
  BY <1>3, NothingWritten
<1>5. /\ DOMAIN Writes(ch, "tokens") = Unused(u, type) \cup {seq}
      /\ \A t \in Unused(u, type) \ {seq} :
             Writes(ch, "tokens")[t] = Update([used |-> TRUE])
      /\ Writes(ch, "tokens")[seq] = Insert(row)
  BY <1>2, <1>3 DEF NewToken, Both, Each
<1>6. Inserted(ch, "tokens") = {seq}
  BY <1>5, InsertOp, UpdateOp DEF Inserted, WithOp
<1>7. \A t \in DOMAIN db.tokens : t < seq
  BY DEF HeldInv, FreshIds, Numbered
<1>8. row.user = u /\ row.type = type
  BY <1>2
<1>9. QED
  BY <1>1, <1>4, <1>5, <1>6, <1>7, <1>8, InsertOp DEF LinksKept

LEMMA ConsumedKept ==
    ASSUME NEW t, NEW u, NEW y,
           KeepsPassword(y) \/ (y = Update([password |-> t]) /\ t \in Unused(u, "password_reset"))
    PROVE  LinksKept([tokens |-> Consumed(t), users |-> Each({u}, y)])
<1>1. PICK ch : ch = [tokens |-> Consumed(t), users |-> Each({u}, y)]
  OBVIOUS
<1>2. /\ DOMAIN ch = {"tokens", "users"} /\ ch["users"] = Each({u}, y)
      /\ ch["tokens"] = Each({t}, Update([used |-> TRUE]))
  BY <1>1 DEF Consumed
<1>3. DOMAIN Writes(ch, "users") = {u} /\ Writes(ch, "users")[u] = y
  BY <1>2, EachWrite
<1>4. DOMAIN Writes(ch, "tokens") = {t} /\ Inserted(ch, "tokens") = {}
  BY <1>2, EachWrite, UpdateOp
<1>5. QED
  BY <1>1, <1>3, <1>4 DEF LinksKept

\* What a handler that leaves the tables alone hands to the commit.
Hands(w, ch) == db' = db /\ req' = [req EXCEPT ![w] = ch] /\ LinksKept(ch)

LEMMA HandsOver ==
    ASSUME NEW w, NEW ch, Hold(w, ch) \/ HoldNew(w, ch), LinksKept(ch)
    PROVE  \E c : Hands(w, c)
<1>1. Hands(w, ch)
  BY DEF Hold, HoldNew, Hands
<1>2. QED
  BY <1>1

LEMMA RegisterHands ==
    ASSUME NEW w, Register(w)
    PROVE  \E ch : Hands(w, ch)
BY InsertOp, PlainUsers, PlainBoth, HandsOver DEF Register, RegisterFounder, RegisterMember

LEMMA AdministerHands ==
    ASSUME NEW w, Administer(w)
    PROVE  \E ch : Hands(w, ch)
<1>1. PICK a \in Email :
        \/ CreateOrganization(w, a)
        \/ \E u \in Email : DeactivateUser(w, a, u)
        \/ \E u \in Email, o \in 1..MaxId, role \in Role : CreateUser(w, a, u, o, role)
        \/ \E u \in Email, role \in Role : ChangeRole(w, a, u, role)
        \/ \E u \in Email, active \in BOOLEAN : SetActive(w, a, u, active)
        \/ \E o \in 1..MaxId, active \in BOOLEAN : SetOrganizationActive(w, a, o, active)
        \/ \E o \in 1..MaxId : SuspendOrganization(w, a, o) \/ ActivateOrganization(w, a, o)
  BY DEF Administer
<1>2. CASE CreateOrganization(w, a)
  BY <1>2, PlainOrgs, HandsOver DEF CreateOrganization
<1>3. CASE \E u \in Email : DeactivateUser(w, a, u)
  BY <1>3, KeepingUpdates, PlainUsers, HandsOver DEF DeactivateUser
<1>4. CASE \E u \in Email, o \in 1..MaxId, role \in Role : CreateUser(w, a, u, o, role)
  BY <1>4, InsertOp, PlainUsers, HandsOver DEF CreateUser
<1>5. CASE \E u \in Email, role \in Role : ChangeRole(w, a, u, role)
  BY <1>5, KeepingUpdates, PlainUsers, HandsOver DEF ChangeRole
<1>6. CASE \E u \in Email, active \in BOOLEAN : SetActive(w, a, u, active)
  BY <1>6, KeepingUpdates, PlainUsers, HandsOver DEF SetActive
<1>7. CASE \E o \in 1..MaxId, active \in BOOLEAN : SetOrganizationActive(w, a, o, active)
  BY <1>7, PlainOrgs, HandsOver DEF SetOrganizationActive
<1>8. CASE \E o \in 1..MaxId : SuspendOrganization(w, a, o)
  BY <1>8, KeepingUpdates, PlainBoth, HandsOver DEF SuspendOrganization
<1>9. CASE \E o \in 1..MaxId : ActivateOrganization(w, a, o)
  BY <1>9, PlainOrgs, HandsOver DEF ActivateOrganization
<1>10. QED
  BY <1>1, <1>2, <1>3, <1>4, <1>5, <1>6, <1>7, <1>8, <1>9

LEMMA UseGoogleHands ==
    ASSUME NEW w, UseGoogle(w)
    PROVE  \E ch : Hands(w, ch)
BY InsertOp, PlainGoogle, PlainRegister, HandsOver
   DEF UseGoogle, GoogleSignIn, GoogleRegister, LinkGoogle, UnlinkGoogle

LEMMA UseLinksHands ==
    ASSUME IInv, HeldInv, NEW w, UseLinks(w)
    PROVE  \E ch : Hands(w, ch)
<1>1. CASE \E u \in Email : SendVerificationEmail(w, u) \/ ForgotPassword(w, u)
  <2>1. PICK u \in Email : SendVerificationEmail(w, u) \/ ForgotPassword(w, u)
    BY <1>1
  <2>2. PICK type \in TokenType : HoldNew(w, [tokens |-> NewToken(u, type)])
    BY <2>1 DEF SendVerificationEmail, ForgotPassword, TokenType
  <2>3. u \in DOMAIN db.users
    BY <2>1 DEF SendVerificationEmail, ForgotPassword, Active, Exists
  <2>4. QED
    BY <2>2, <2>3, SentKept, HandsOver
<1>2. CASE \E t \in 1..MaxId : VerifyEmail(w, t)
  BY <1>2, KeepingUpdates, ConsumedKept, HandsOver DEF VerifyEmail
<1>3. CASE \E t \in 1..MaxId : ResetPassword(w, t)
  <2>1. PICK t \in 1..MaxId : ResetPassword(w, t)
    BY <1>3
  <2>2. t \in Unused(db.tokens[t].user, "password_reset")
    BY <2>1 DEF ResetPassword, Consumable, Unused
  <2>3. QED
    BY <2>1, <2>2, ConsumedKept, HandsOver DEF ResetPassword
<1>4. QED
  BY <1>1, <1>2, <1>3 DEF UseLinks


-------------------------------------------------------------------------------
(* Every step keeps links and passwords together *)

LEMMA SameUsers ==
    ASSUME db'.users = db.users
    PROVE  SetThroughNewestLink
BY DEF SetThroughNewestLink

LEMMA HandsKeeps ==
    ASSUME HeldInv, Unraced, NEW w \in Worker, NEW ch, Hands(w, ch), ~Overlap'
    PROVE  Unraced' /\ SetThroughNewestLink
<1>1. /\ db' = db /\ req'[w] = ch /\ \A v \in Worker \ {w} : req'[v] = req[v]
      /\ LinksKept(ch)
  BY DEF HeldInv, Hands
<1>2. UnusedIsNewest'
  BY <1>1 DEF Unraced, UnusedIsNewest, Unused
<1>3. ASSUME NEW v \in Worker, req'[v] # None
      PROVE  LinksKept(req[v])'
  <2>1. PICK cv : cv = req'[v]
    OBVIOUS
  <2>2. LinksKept(cv)
    BY <1>1, <1>3, <2>1 DEF Unraced, Free
  <2>3. QED
    BY <1>1, <2>1, <2>2 DEF LinksKept, Unused
<1>4. QED
  BY <1>1, <1>2, <1>3, SameUsers DEF Unraced, Free

LEMMA SameTokensKeep ==
    ASSUME Unraced, DOMAIN db'.tokens = DOMAIN db.tokens,
           \A t \in DOMAIN db.tokens :
               /\ db'.tokens[t].user = db.tokens[t].user
               /\ db'.tokens[t].type = db.tokens[t].type
               /\ db'.tokens[t].used = db.tokens[t].used,
           \A v \in Worker : req'[v] # None => req'[v] = req[v]
    PROVE  Unraced'
<1>1. \A u, type : Unused(u, type)' = Unused(u, type)
  BY DEF Unused
<1>2. UnusedIsNewest'
  BY <1>1 DEF Unraced, UnusedIsNewest
<1>3. ASSUME NEW v \in Worker, req'[v] # None
      PROVE  LinksKept(req[v])'
  <2>1. PICK cv : cv = req'[v]
    OBVIOUS
  <2>2. LinksKept(cv)
    BY <1>3, <2>1 DEF Unraced, Free
  <2>3. QED
    BY <1>1, <2>1, <2>2 DEF LinksKept
<1>4. QED
  BY <1>2, <1>3 DEF Unraced, Overlap, Free

\* A password that a commit changes was set through an unused link of the user.
LEMMA PasswordSet ==
    ASSUME IInv, NEW ch, WritesTyped(ch), LinksKept(ch), Fits(ch), db' = AfterAll(ch),
           NEW u \in DOMAIN db.users, db'.users[u].password # db.users[u].password
    PROVE  LET t == db'.users[u].password IN
           t \in Unused(u, "password_reset") /\ t \in DOMAIN Writes(ch, "tokens")
<1>1. DOMAIN db = Tables /\ TypeOK /\ "users" \in DOMAIN db /\ db.users[u] \in User
  BY DEF IInv, Tables, TypeOK, IsTable
<1>2. u \in DOMAIN AfterAll(ch)["users"]
  BY <1>1, UsersAfter
<1>3. u \notin Inserted(ch, "users")
  BY <1>1, UsersAfter
<1>4. u \in DOMAIN Writes(ch, "users")
  BY <1>1, <1>2, CommitRow
<1>5. PICK x : x = Writes(ch, "users")[u]
  OBVIOUS
<1>6. db'.users[u] = Written(db.users[u], x) /\ x.op # "insert"
  BY <1>1, <1>2, <1>3, <1>4, <1>5, CommitRow DEF Inserted, WithOp
<1>7. ~KeepsPassword(x)
  BY <1>1, <1>6 DEF KeepsPassword
<1>8. PICK t \in Unused(u, "password_reset") :
          x = Update([password |-> t]) /\ t \in DOMAIN Writes(ch, "tokens")
  BY <1>4, <1>5, <1>6, <1>7 DEF LinksKept
<1>9. Written(db.users[u], x) = [c \in DOMAIN db.users[u] |->
                                    IF c = "password" THEN t ELSE db.users[u][c]]
  BY <1>8, WrittenOne
<1>10. db'.users[u].password = t
  BY <1>1, <1>6, <1>9 DEF User
<1>11. QED
  BY <1>8, <1>10

LEMMA CommitUnraced ==
    ASSUME IInv, HeldInv, Unraced, NEW w \in Worker, Commit(w)
    PROVE  Unraced' /\ SetThroughNewestLink
<1>1. PICK ch : ch = req[w]
  OBVIOUS
<1>2. /\ ~Free(w) /\ Fits(ch) /\ db' = AfterAll(ch)
      /\ req' = [req EXCEPT ![w] = None] /\ DOMAIN req = Worker
  BY <1>1 DEF Commit, CommitAs, HeldInv
<1>3. WritesTyped(ch) /\ LinksKept(ch) /\ DOMAIN db = Tables /\ TypeOK
  BY <1>1, <1>2 DEF HeldInv, HeldWrites, Unraced, IInv
<1>4. \A v \in Worker : req'[v] = None
  BY <1>2 DEF Unraced, Overlap, Free
<1>5. UnusedIsNewest'
  <2>1. SUFFICES ASSUME NEW u \in Email, NEW t \in DOMAIN db'.tokens, NEW k \in DOMAIN db'.tokens,
                        db'.tokens[t].user = u, db'.tokens[t].type = "password_reset",
                        ~db'.tokens[t].used,
                        db'.tokens[k].user = u, db'.tokens[k].type = "password_reset"
                 PROVE  k <= t
    BY DEF UnusedIsNewest, Unused
  <2>2. CASE t \in DOMAIN db.tokens
    <3>1. /\ t \notin DOMAIN Writes(ch, "tokens") /\ db'.tokens[t] = db.tokens[t]
      BY <1>2, <1>3, <2>1, <2>2, TokensAfter DEF TypeOK, IsTable, VerificationToken
    <3>2. t \in Unused(u, "password_reset")
      BY <2>1, <2>2, <3>1 DEF Unused
    <3>3. CASE k \in DOMAIN db.tokens
      <4>1. db.tokens[k].user = u /\ db.tokens[k].type = "password_reset"
        BY <1>2, <1>3, <2>1, <3>3, TokensAfter DEF TokenKept
      <4>2. QED
        BY <3>2, <3>3, <4>1 DEF Unraced, UnusedIsNewest
    <3>4. CASE k \in Inserted(ch, "tokens")
      <4>1. db'.tokens[k] = Writes(ch, "tokens")[k].cols
        BY <1>2, <1>3, <3>4, TokensAfter
      <4>2. t \in DOMAIN Writes(ch, "tokens")
        BY <1>3, <2>1, <3>2, <3>4, <4>1 DEF LinksKept
      <4>3. QED
        BY <3>1, <4>2
    <3>5. QED
      BY <1>2, <1>3, <3>3, <3>4, TokensAfter
  <2>3. CASE t \in Inserted(ch, "tokens")
    <3>1. Inserted(ch, "tokens") = {t} /\ \A i \in DOMAIN db.tokens : i < t
      BY <1>3, <2>3 DEF LinksKept
    <3>2. t \in Nat /\ \A i \in DOMAIN db.tokens : i \in Nat
      BY <1>2, <1>3, <2>3, TokensAfter DEF TypeOK, IsTable
    <3>3. QED
      BY <1>2, <1>3, <3>1, <3>2, TokensAfter
  <2>4. QED
    BY <1>2, <1>3, <2>2, <2>3, TokensAfter
<1>6. SetThroughNewestLink
  <2>1. SUFFICES ASSUME NEW u \in DOMAIN db.users, NEW t, t = db'.users[u].password,
                        t # db.users[u].password
                 PROVE  /\ ~db.tokens[t].used /\ db'.tokens[t].used
                        /\ \A k \in DOMAIN db.tokens :
                               db.tokens[k].user = u /\ db.tokens[k].type = "password_reset"
                                   => k <= t
    BY DEF SetThroughNewestLink
  <2>2. t \in Unused(u, "password_reset") /\ t \in DOMAIN Writes(ch, "tokens")
    BY <1>2, <1>3, <2>1, PasswordSet
  <2>3. u \in Email /\ t \in DOMAIN db.tokens /\ ~db.tokens[t].used
    BY <2>2 DEF IInv, TypeOK, IsTable, Unused
  <2>4. db'.tokens[t] = [db.tokens[t] EXCEPT !.used = TRUE]
    BY <1>2, <1>3, <2>2, <2>3, TokensAfter
  <2>5. db'.tokens[t].used
    BY <1>3, <2>3, <2>4 DEF TypeOK, IsTable, VerificationToken
  <2>6. QED
    BY <2>2, <2>3, <2>5 DEF Unraced, UnusedIsNewest
<1>7. QED
  BY <1>4, <1>5, <1>6 DEF Unraced, Overlap, Free


LEMMA UnracedStep ==
    ASSUME IInv, HeldInv, Unraced, Next, ~Overlap'
    PROVE  Unraced' /\ SetThroughNewestLink
<1>1. CASE \E w \in Worker : Register(w) \/ Administer(w) \/ UseGoogle(w) \/ UseLinks(w)
  <2>1. PICK w \in Worker : Register(w) \/ Administer(w) \/ UseGoogle(w) \/ UseLinks(w)
    BY <1>1
  <2>2. PICK ch : Hands(w, ch)
    BY <2>1, RegisterHands, AdministerHands, UseGoogleHands, UseLinksHands
  <2>3. QED
    BY <2>1, <2>2, HandsKeeps
<1>2. CASE \E w \in Worker : CommitUnique(w)
  BY <1>2, CommitUnraced DEF CommitUnique
<1>3. CASE \E w \in Worker : Rollback(w)
  <2>1. PICK w \in Worker : Rollback(w)
    BY <1>3
  <2>2. db' = db /\ req' = [req EXCEPT ![w] = None] /\ DOMAIN req = Worker
    BY <2>1 DEF Rollback, HeldInv
  <2>3. \A v \in Worker : req'[v] # None => req'[v] = req[v]
    BY <2>2
  <2>4. QED
    BY <2>2, <2>3, SameTokensKeep, SameUsers
<1>4. CASE \E t \in 1..MaxId : ExpireToken(t)
  <2>1. PICK t \in 1..MaxId : ExpireToken(t)
    BY <1>4
  <2>2. /\ db' = [db EXCEPT !.tokens[t].expired = TRUE] /\ t \in DOMAIN db.tokens
        /\ req' = req /\ DOMAIN db = Tables /\ DOMAIN req = Worker
        /\ \A k \in DOMAIN db.tokens : db.tokens[k] \in VerificationToken
    BY <2>1 DEF ExpireToken, IInv, HeldInv, TypeOK, IsTable
  <2>3. /\ db'.tokens = [db.tokens EXCEPT ![t] = [@ EXCEPT !.expired = TRUE]]
        /\ db'.users = db.users
    BY <2>2 DEF Tables
  <2>4. ASSUME NEW k \in DOMAIN db.tokens
        PROVE  /\ db'.tokens[k].user = db.tokens[k].user
               /\ db'.tokens[k].type = db.tokens[k].type
               /\ db'.tokens[k].used = db.tokens[k].used
    <3>1. db'.tokens[k] = [db.tokens[k] EXCEPT !.expired = TRUE] \/ db'.tokens[k] = db.tokens[k]
      BY <2>3, <2>4
    <3>2. QED
      BY <2>2, <2>4, <3>1 DEF VerificationToken
  <2>5. DOMAIN db'.tokens = DOMAIN db.tokens
    BY <2>3
  <2>6. Unraced'
    BY <2>2, <2>4, <2>5, SameTokensKeep
  <2>7. QED
    BY <2>3, <2>6, SameUsers
<1>5. QED
  BY <1>1, <1>2, <1>3, <1>4 DEF Next, Finish

LEMMA MCStep ==
    ASSUME MCInv, [MCNext]_mcvars
    PROVE  MCInv' /\ [~raced' => SetThroughNewestLink]_mcvars
<1>1. CASE UNCHANGED mcvars
  <2>1. db' = db /\ seq' = seq /\ req' = req /\ part' = part /\ raced' = raced
    BY <1>1 DEF mcvars
  <2>2. IInv' /\ (Handles => HeldInv')
    BY <2>1, NextKeeps DEF MCInv, dbvars, Handles, IInv, TypeOK, IsTable, Exists, HasLoginMethod,
                           Linked
  <2>3. Unraced => Unraced'
    BY <2>1, SameTokensKeep
  <2>4. QED
    BY <1>1, <2>1, <2>2, <2>3 DEF MCInv, Handles
<1>2. CASE MCNext /\ Handles
  <2>1. part' = part /\ Next /\ raced' = (raced \/ Overlap')
    BY <1>2 DEF MCNext, Handles, AccountsPart, InEachOthersWay, Next
  <2>2. IInv' /\ HeldInv'
    BY <1>2, <2>1, NextKeeps DEF MCInv
  <2>3. ~raced' => Unraced' /\ SetThroughNewestLink
    BY <1>2, <2>1, UnracedStep DEF MCInv
  <2>4. QED
    BY <2>1, <2>2, <2>3 DEF MCInv
<1>3. CASE MCNext /\ ~Handles
  <2>1. part' = part /\ db' = db /\ seq' = seq
    BY <1>3 DEF MCNext, Handles, AccountsPart
  <2>2. IInv'
    BY <2>1 DEF MCInv, IInv, TypeOK, IsTable, Exists, HasLoginMethod, Linked
  <2>3. QED
    BY <1>3, <2>1, <2>2, SameUsers DEF MCInv, Handles
<1>4. QED
  BY <1>1, <1>2, <1>3

\* As long as no two requests overlap, a password that is changed through a link is
\* changed through the newest one sent to that user, which was unused until then and is
\* used from then on: create_verification_token leaves no older link to consume.
THEOREM NewestLink == MCSpec => NewestLinkUnlessRaced
<1>1. MCInit => MCInv
  <2>1. SUFFICES ASSUME MCInit PROVE MCInv
    OBVIOUS
  <2>2. IInv /\ HeldInv
    BY <2>1, InitKeeps DEF MCInit
  <2>3. /\ db = [t \in Tables |-> NoRows] /\ req = [w \in Worker |-> None]
    BY <2>1 DEF MCInit, Init, Start, Tables
  <2>4. DOMAIN db.tokens = {}
    BY <2>3 DEF Tables, NoRows
  <2>5. Unraced
    BY <2>3, <2>4 DEF Unraced, Overlap, Free, UnusedIsNewest, Unused
  <2>6. QED
    BY <2>2, <2>5 DEF MCInv
<1>2. QED
  BY <1>1, MCStep, PTL DEF MCSpec, NewestLinkUnlessRaced
===============================================================================
