----------------------------- MODULE SlaSweepProofs -----------------------------
(***************************************************************************)
(* Theorems about SlaSweep, for any tickets, users, priorities, due hours     *)
(* and servers.                                                              *)
(***************************************************************************)
EXTENDS SlaSweep, TLAPS

-------------------------------------------------------------------------------
(* The inductive invariant *)

Held == [running : BOOLEAN, rows : [Ticket -> Row] \cup {<<>>},
         todo : SUBSET Ticket, loaded : SUBSET User]

\* A sweep that is not running has nothing left to check.
Typed ==
    /\ now \in 0..MaxTime /\ failures \in 0..MaxFailures
    /\ ticket \in [Ticket -> Row]
    /\ notices \in [Ticket -> [Kind -> [Level -> 0..MaxNotices]]]
    /\ sweep \in [Server -> Held]
    /\ \A v \in Server : IF sweep[v].running THEN sweep[v].rows \in [Ticket -> Row]
                                             ELSE sweep[v].todo = {}

-------------------------------------------------------------------------------
(* Lemmas *)

LEMMA Bounds == MaxTime \in Nat /\ MaxNotices \in Nat /\ MaxFailures \in Nat
BY BoundAssumption

LEMMA LevelType ==
    ASSUME NEW h
    PROVE  LevelAt(h) \in Level \cup {"none"}
BY DEF LevelAt, Level

\* A request changes one row.
LEMMA RequestKeeps ==
    ASSUME Typed, NEW t \in Ticket, NEW r \in Row, SetTicket(t, r)
    PROVE  Typed'
BY DEF SetTicket, Typed

\* A step that leaves the rows and the notices alone.
LEMMA SweepKeeps ==
    ASSUME Typed, UNCHANGED <<now, ticket, notices>>, failures' \in 0..MaxFailures,
           NEW v \in Server, NEW held \in Held, sweep' = [sweep EXCEPT ![v] = held],
           IF held.running THEN held.rows \in [Ticket -> Row] ELSE held.todo = {}
    PROVE  Typed'
BY DEF Typed

\* What a notice may do: the sweep goes on, and the counter stays below its bound.
LEMMA NotifyKeeps ==
    ASSUME Typed, NEW v \in Server, NEW t \in Ticket, NEW kind \in Kind, NEW level \in Level,
           sweep[v].running, Notify(v, t, kind, level), UNCHANGED <<now, ticket, failures>>
    PROVE  Typed'
<1> DEFINE new == [notices EXCEPT ![t][kind][level] = Capped(@)]
           more == (IF CreatorNamed(v, t) THEN {Creator[t]} ELSE {}) \cup
                   (IF CreatorNamed(v, t) /\ AssigneeNamed(v, t)
                    THEN {Assignee[t]} \ {None} ELSE {})
           held == [sweep[v] EXCEPT !.todo = @ \ {t}, !.loaded = @ \cup more]
<1>1. /\ notices' \in {new, notices}
      /\ sweep' = [sweep EXCEPT ![v] = held]
  BY DEF Notify, Typed
<1>2. more \subseteq User
  BY UserAssumption
<1>3. held \in Held /\ held.running /\ held.rows = sweep[v].rows
  <2> HIDE DEF more
  <2>1. sweep[v] \in Held
    BY DEF Typed
  <2>2. QED
    BY <1>2, <2>1 DEF Held
<1> HIDE DEF held
<1>4. Capped(notices[t][kind][level]) \in 0..MaxNotices
  <2>1. notices[t][kind][level] \in 0..MaxNotices
    BY DEF Typed
  <2>2. QED
    BY <2>1, Bounds DEF Capped
<1>5. new \in [Ticket -> [Kind -> [Level -> 0..MaxNotices]]]
  BY <1>4 DEF Typed
<1> HIDE DEF new
<1>6. QED
  BY <1>1, <1>3, <1>5 DEF Typed

LEMMA CheckKeeps ==
    ASSUME Typed, NEW v \in Server, NEW t \in Ticket, Check(v, t)
    PROVE  Typed'
<1> DEFINE r == sweep[v].rows[t]
<1>1. /\ t \in sweep[v].todo /\ sweep[v].running /\ sweep[v] \in Held
      /\ sweep[v].rows \in [Ticket -> Row] /\ now \in Nat
  BY DEF Check, Typed
<1>2. UNCHANGED <<now, ticket, failures>>
  BY DEF Check
<1>3. CASE ResponseLevel(r) # "none"
  <2>1. ResponseLevel(r) \in Level
    BY <1>3, LevelType DEF ResponseLevel
  <2>2. Notify(v, t, "response", ResponseLevel(r))
    BY <1>3 DEF Check
  <2>3. QED
    BY <1>1, <1>2, <2>1, <2>2, NotifyKeeps DEF Kind
<1>4. CASE ResponseLevel(r) = "none" /\ ResolutionLevel(r) # "none"
  <2>1. ResolutionLevel(r) \in Level
    BY <1>4, LevelType DEF ResolutionLevel
  <2>2. Notify(v, t, "resolution", ResolutionLevel(r))
    BY <1>4 DEF Check
  <2>3. QED
    BY <1>1, <1>2, <2>1, <2>2, NotifyKeeps DEF Kind
<1>5. CASE ResponseLevel(r) = "none" /\ ResolutionLevel(r) = "none"
  <2> DEFINE held == [sweep[v] EXCEPT !.todo = @ \ {t}]
  <2>1. sweep' = [sweep EXCEPT ![v] = held] /\ notices' = notices
    BY <1>5 DEF Check, Typed
  <2>2. held \in Held /\ held.running /\ held.rows = sweep[v].rows
    BY <1>1 DEF Held
  <2> HIDE DEF held
  <2>3. failures' \in 0..MaxFailures
    BY <1>2 DEF Typed
  <2>4. QED
    BY <1>1, <1>2, <2>1, <2>2, <2>3, SweepKeeps
<1>6. QED
  BY <1>3, <1>4, <1>5

-------------------------------------------------------------------------------
(* Initial states and steps *)

LEMMA InitHolds == Init => Typed
<1> SUFFICES ASSUME Init PROVE Typed
  OBVIOUS
<1>1. NoSweep \in Held /\ ~NoSweep.running /\ NoSweep.todo = {}
  BY DEF NoSweep, Held
<1>2. QED
  BY <1>1, Bounds DEF Init, Typed

LEMMA JobKeeps ==
    ASSUME Typed, NEW v \in Server, Job(v) \/ FailSweep(v)
    PROVE  Typed'
<1>1. CASE BeginSweep(v)
  <2> DEFINE held == [running |-> TRUE, rows |-> ticket, loaded |-> {},
                      todo |-> {t \in Ticket : ~ticket[t].finished}]
  <2>1. sweep' = [sweep EXCEPT ![v] = held] /\ UNCHANGED <<now, ticket, notices, failures>>
    BY <1>1 DEF BeginSweep
  <2>2. held \in Held /\ held.running /\ held.rows = ticket /\ ticket \in [Ticket -> Row]
    BY DEF Held, Typed
  <2> HIDE DEF held
  <2>3. failures' \in 0..MaxFailures
    BY <2>1 DEF Typed
  <2>4. QED
    BY <2>1, <2>2, <2>3, SweepKeeps
<1>2. CASE \E t \in Ticket : Check(v, t)
  BY <1>2, CheckKeeps
<1>3. CASE EndSweep(v) \/ FailSweep(v)
  <2>1. sweep' = [sweep EXCEPT ![v] = NoSweep] /\ UNCHANGED <<now, ticket, notices>>
    BY <1>3 DEF EndSweep, FailSweep
  <2>2. NoSweep \in Held /\ ~NoSweep.running /\ NoSweep.todo = {}
    BY DEF NoSweep, Held
  <2>3. failures' \in 0..MaxFailures
    BY <1>3, Bounds DEF EndSweep, FailSweep, Typed
  <2>4. QED
    BY <2>1, <2>2, <2>3, SweepKeeps
<1>4. QED
  BY <1>1, <1>2, <1>3 DEF Job

LEMMA StepKeeps == Typed /\ [Next]_vars => Typed'
<1> SUFFICES ASSUME Typed, [Next]_vars PROVE Typed'
  OBVIOUS
<1>1. CASE Tick
  <2>1. now' \in 0..MaxTime
    BY <1>1, Bounds DEF Tick, Typed
  <2>2. QED
    BY <1>1, <2>1 DEF Tick, Typed
<1>2. ASSUME NEW t \in Ticket, Respond(t) \/ Finish(t) \/ Reopen(t) PROVE Typed'
  <2>1. ticket[t] \in Row
    BY DEF Typed
  <2> DEFINE responded == [ticket[t] EXCEPT !.responded = TRUE]
             finished(b) == [ticket[t] EXCEPT !.finished = b]
  <2>2. responded \in Row /\ \A b \in BOOLEAN : finished(b) \in Row
    BY <2>1 DEF Row
  <2>3. CASE Respond(t)
    <3>1. SetTicket(t, responded)
      BY <2>3 DEF Respond
    <3> HIDE DEF responded
    <3>2. QED
      BY <2>2, <3>1, RequestKeeps
  <2>4. ASSUME NEW b \in BOOLEAN, SetTicket(t, finished(b)) PROVE Typed'
    <3> HIDE DEF finished
    <3>1. QED
      BY <2>2, <2>4, RequestKeeps
  <2>5. QED
    BY <1>2, <2>3, <2>4 DEF Finish, Reopen
<1>3. ASSUME NEW t \in Ticket, NEW p \in Priority, ChangePriority(t, p) PROVE Typed'
  <2>1. ticket[t] \in Row
    BY DEF Typed
  <2>2. [ticket[t] EXCEPT !.priority = p] \in Row
    BY <2>1 DEF Row
  <2>3. QED
    BY <1>3, <2>1, <2>2, RequestKeeps DEF ChangePriority, Row
<1>4. ASSUME NEW v \in Server, Job(v) \/ FailSweep(v) PROVE Typed'
  BY <1>4, JobKeeps
<1>5. CASE UNCHANGED vars
  BY <1>5 DEF vars, Typed
<1>6. QED
  BY <1>1, <1>2, <1>3, <1>4, <1>5 DEF Next

-------------------------------------------------------------------------------

\* Every variable has its type, and a running sweep the rows it loaded, whatever
\* fails: an error of one ticket, of the notices, or of the database.
THEOREM TypeCorrect == Spec => []TypeOK
<1>1. Init => Typed
  BY InitHolds
<1>2. Typed => TypeOK
  BY DEF Typed, TypeOK, Held
<1>3. QED
  BY <1>1, <1>2, StepKeeps, PTL DEF Spec
===============================================================================
