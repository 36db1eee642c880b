-------------------------------- MODULE SlaSweep --------------------------------
(***************************************************************************)
(* The SLA job of services/sla_background_service.py, which the scheduler of  *)
(* each server process (services/scheduler.py) runs over the active tickets   *)
(* of an organization.  The requests on a ticket are single steps here; how   *)
(* they race is the subject of Tickets, whose DuesMatchPriority lets the due  *)
(* dates that are still to be met be read off the priority.                  *)
(*                                                                          *)
(* Sending a notice always raises in the end: AuditService has no method      *)
(* "log".  So the sent_at columns, which are assigned after it, stay null.    *)
(***************************************************************************)
EXTENDS Naturals, FiniteSets

CONSTANTS
    Ticket, User, Priority,
    Server,         \* server processes, each with its own scheduler
    None,           \* nobody
    Creator,        \* Creator[t]: the user who created ticket t
    Assignee,       \* Assignee[t]: a user or None
    ActiveAdmin,    \* the active admins of the organization
    Active,         \* its active users
    Due,            \* Due[p]: hours from creation to response and to resolution
    MaxTime,        \* bound: hours
    MaxNotices,     \* bound: notices of one kind are counted up to it
    MaxFailures     \* bound: sweeps that fail

Kind == {"response", "resolution"}

ASSUME UserAssumption ==
    /\ ActiveAdmin \subseteq Active /\ Active \subseteq User
    /\ Creator \in [Ticket -> User] /\ Assignee \in [Ticket -> User \cup {None}]
ASSUME DueAssumption ==
    /\ Due \in [Priority -> [Kind -> Nat \ {0}]]
    /\ \A p \in Priority : 4 * Due[p]["response"] < 3 * Due[p]["resolution"]
ASSUME BoundAssumption == {MaxTime, MaxNotices, MaxFailures} \subseteq Nat

VARIABLES
    now,        \* hours since the tickets were created
    ticket,     \* the committed rows
    sweep,      \* sweep[v]: what the sweep of server v holds
    notices,    \* notices[t][kind][level]: notices sent, to all recipients each
    failures    \* how many sweeps failed

vars == <<now, ticket, sweep, notices, failures>>

-------------------------------------------------------------------------------
(* SLA levels *)

Level == {"warning", "breach"}

\* At h hours: is_sla_*_breached, and is_sla_*_warning_zone from 75% on.
LevelAt(h) ==
    CASE now > h -> "breach"
      [] now < h /\ 4 * now >= 3 * h -> "warning"
      [] OTHER -> "none"

ResponseLevel(r) ==
    IF r.responded THEN "none" ELSE LevelAt(Due[r.priority]["response"])
ResolutionLevel(r) ==
    IF r.finished THEN "none" ELSE LevelAt(Due[r.priority]["resolution"])

-------------------------------------------------------------------------------
(* Requests and time *)

Tick ==
    /\ now < MaxTime /\ now' = now + 1
    /\ UNCHANGED <<ticket, sweep, notices, failures>>

SetTicket(t, r) ==
    /\ r # ticket[t]
    /\ ticket' = [ticket EXCEPT ![t] = r]
    /\ UNCHANGED <<now, sweep, notices, failures>>

Respond(t) == SetTicket(t, [ticket[t] EXCEPT !.responded = TRUE])
\* Resolve, close, reopen.
Finish(t) == SetTicket(t, [ticket[t] EXCEPT !.finished = TRUE])
Reopen(t) == SetTicket(t, [ticket[t] EXCEPT !.finished = FALSE])
ChangePriority(t, p) ==
    /\ ~ticket[t].finished
    /\ SetTicket(t, [ticket[t] EXCEPT !.priority = p])

-------------------------------------------------------------------------------
(* check_all_sla_breaches *)

NoSweep == [running |-> FALSE, rows |-> <<>>, todo |-> {}, loaded |-> {}]

BeginSweep(v) ==
    /\ ~sweep[v].running
    /\ sweep' = [sweep EXCEPT ![v] =
           [running |-> TRUE, rows |-> ticket, loaded |-> {},
            todo |-> {t \in Ticket : ~ticket[t].finished}]]
    /\ UNCHANGED <<now, ticket, notices, failures>>

Recipients(t) == ActiveAdmin \cup ({Assignee[t]} \cap Active)

\* The names of the creator and of the assignee are read from the session: users
\* it does not hold would be loaded lazily, which an async session refuses.  It
\* holds the recipients, and the users whom an earlier ticket's relation keeps.
CreatorNamed(v, t) == Creator[t] \in Recipients(t) \cup sweep[v].loaded
AssigneeNamed(v, t) == Assignee[t] \in {None} \cup Recipients(t) \cup sweep[v].loaded

Capped(n) == IF n < MaxNotices THEN n + 1 ELSE n

\* Send to each recipient, unless a name cannot be read; then raise.
Notify(v, t, kind, level) ==
    /\ notices' = IF CreatorNamed(v, t) /\ AssigneeNamed(v, t) /\ Recipients(t) # {}
                  THEN [notices EXCEPT ![t][kind][level] = Capped(@)]
                  ELSE notices
    /\ sweep' = [sweep EXCEPT ![v].todo = @ \ {t},
                              ![v].loaded = @ \cup
           (IF CreatorNamed(v, t) THEN {Creator[t]} ELSE {}) \cup
           (IF CreatorNamed(v, t) /\ AssigneeNamed(v, t) THEN {Assignee[t]} \ {None} ELSE {})]

Check_StopsAtAnError(v, t) ==        \* mutant: an error ends the sweep
    /\ t \in sweep[v].todo
    /\ LET r == sweep[v].rows[t] IN
           CASE ResponseLevel(r) # "none" ->
                    /\ notices' = IF CreatorNamed(v, t) /\ AssigneeNamed(v, t)
                                  THEN [notices EXCEPT ![t]["response"][ResponseLevel(r)] = Capped(@)]
                                  ELSE notices
                    /\ sweep' = [sweep EXCEPT ![v] = NoSweep]
             [] OTHER -> /\ sweep' = [sweep EXCEPT ![v].todo = @ \ {t}]
                         /\ UNCHANGED notices
    /\ UNCHANGED <<now, ticket, failures>>
Check_SkipsAnswered(v, t) ==         \* mutant: an answered ticket is passed over
    /\ t \in sweep[v].todo
    /\ LET r == sweep[v].rows[t] IN
           IF ResponseLevel(r) # "none" THEN Notify(v, t, "response", ResponseLevel(r))
           ELSE /\ sweep' = [sweep EXCEPT ![v].todo = @ \ {t}]
                /\ UNCHANGED notices
    /\ UNCHANGED <<now, ticket, failures>>
\* One ticket; what the response check raises skips the resolution check.
Check(v, t) ==
    /\ t \in sweep[v].todo
    /\ LET r == sweep[v].rows[t] IN
           CASE ResponseLevel(r) # "none" -> Notify(v, t, "response", ResponseLevel(r))
             [] ResponseLevel(r) = "none" /\ ResolutionLevel(r) # "none" ->
                    Notify(v, t, "resolution", ResolutionLevel(r))
             [] OTHER -> /\ sweep' = [sweep EXCEPT ![v].todo = @ \ {t}]
                         /\ UNCHANGED notices
    /\ UNCHANGED <<now, ticket, failures>>

EndSweep(v) ==
    /\ sweep[v].running /\ sweep[v].todo = {}
    /\ sweep' = [sweep EXCEPT ![v] = NoSweep]
    /\ UNCHANGED <<now, ticket, notices, failures>>

\* The database fails; the scheduler runs the job again at the next interval.
FailSweep(v) ==
    /\ sweep[v].running /\ failures < MaxFailures
    /\ failures' = failures + 1
    /\ sweep' = [sweep EXCEPT ![v] = NoSweep]
    /\ UNCHANGED <<now, ticket, notices>>

-------------------------------------------------------------------------------

Row == [responded : BOOLEAN, finished : BOOLEAN, priority : Priority]

Init ==
    /\ now = 0 /\ failures = 0
    /\ ticket \in [Ticket -> {r \in Row : ~r.responded /\ ~r.finished}]
    /\ sweep = [v \in Server |-> NoSweep]
    /\ notices = [t \in Ticket |-> [k \in Kind |-> [l \in Level |-> 0]]]

Job(v) == BeginSweep(v) \/ (\E t \in Ticket : Check(v, t)) \/ EndSweep(v)

Next ==
    \/ Tick
    \/ \E t \in Ticket :
         \/ Respond(t) \/ Finish(t) \/ Reopen(t)
         \/ \E p \in Priority : ChangePriority(t, p)
    \/ \E v \in Server : Job(v) \/ FailSweep(v)

Spec == Init /\ [][Next]_vars

\* Every scheduler runs its job again and again, and a job ends.
FairSpec == Spec /\ \A v \in Server : WF_vars(Job(v))

-------------------------------------------------------------------------------
(* Properties *)

\* The variables have their types.
TypeOK ==
    /\ now \in 0..MaxTime /\ failures \in 0..MaxFailures
    /\ ticket \in [Ticket -> Row]
    /\ notices \in [Ticket -> [Kind -> [Level -> 0..MaxNotices]]]
    /\ \A v \in Server :
         /\ sweep[v].todo \subseteq Ticket /\ sweep[v].loaded \subseteq User
         /\ sweep[v].running => sweep[v].rows \in [Ticket -> Row]

Named(t) == Creator[t] \in Recipients(t) /\ Assignee[t] \in {None} \cup Recipients(t)
Waiting(t) == ResponseLevel(ticket[t]) = "breach" /\ ~ticket[t].finished

\* A late response is noticed in the end, whatever fails for other tickets, if the
\* creator and the assignee are recipients: or it is answered, finished or not
\* late any more.
LateResponseIsTold ==
    \A t \in Ticket : Named(t) =>
        (Waiting(t) ~> (notices[t]["response"]["breach"] > 0 \/ ~Waiting(t)))

Unresolved(t) == ticket[t].responded /\ ResolutionLevel(ticket[t]) = "breach"

\* So is the late resolution of a ticket that has been answered.  (What the response
\* check raises keeps the resolution check from one that has not, against the
\* service's documentation.)
LateResolutionIsTold ==
    \A t \in Ticket : Named(t) =>
        (Unresolved(t) ~> (notices[t]["resolution"]["breach"] > 0 \/ ~Unresolved(t)))

\* --- what the documentation says and the code does not do ---

\* "to prevent duplicate notifications": a notice of one kind is sent once.
NoDuplicateNotice ==
    \A t \in Ticket, k \in Kind, l \in Level : notices[t][k][l] <= 1
===============================================================================
