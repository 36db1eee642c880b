-------------------------------- MODULE SlaStatus --------------------------------
(***************************************************************************)
(* What is read of the deadlines of tickets, as time passes and requests      *)
(* change the rows: the status and the statistics that services/sla_service.py *)
(* and dao/ticket.py compute for api/tickets.py, and the properties of the     *)
(* model's rows.  Each has the rule for "late" in a form of its own.           *)
(*                                                                          *)
(* Requests are single steps here; how they race is the subject of Tickets.   *)
(* GET /sla/at-risk calls get_sla_warning_tickets with an argument that it     *)
(* does not have, and always raises.                                          *)
(***************************************************************************)
EXTENDS Naturals, FiniteSets

CONSTANTS
    Ticket, Priority,
    Transitions,    \* VALID_STATUS_TRANSITIONS of Tickets
    Due,            \* Due[p]: time from creation to response and to resolution
    MaxTime,        \* bound on the time
    None            \* a null column

VARIABLES
    now,            \* time since the tickets were created
    tickets         \* the rows

vars == <<now, tickets>>

-------------------------------------------------------------------------------
(* Requests and time *)

Status == DOMAIN Transitions
Finished == {"resolved", "closed"}

Row ==
    [status : Status, priority : Priority, first_response : BOOLEAN,
     resolved_at : (0..MaxTime) \cup {None}]

NewTicket(p) ==
    [status |-> "open", priority |-> p, first_response |-> FALSE, resolved_at |-> None]

SetTicket(t, row) == tickets' = [tickets EXCEPT ![t] = row] /\ UNCHANGED now

Tick == now < MaxTime /\ now' = now + 1 /\ UNCHANGED tickets

Respond(t) ==
    ~tickets[t].first_response /\ SetTicket(t, [tickets[t] EXCEPT !.first_response = TRUE])

ResolvedAt(row, s) ==
    CASE s = "resolved" -> now
      [] s = "open" /\ row.status = "closed" -> None
      [] OTHER -> row.resolved_at

ChangeStatus(t, s) ==
    /\ s \in Transitions[tickets[t].status]
    /\ SetTicket(t, [tickets[t] EXCEPT !.status = s, !.resolved_at = ResolvedAt(tickets[t], s)])

ChangePriority(t, p) ==
    /\ tickets[t].status \notin Finished /\ p # tickets[t].priority
    /\ SetTicket(t, [tickets[t] EXCEPT !.priority = p])

-------------------------------------------------------------------------------
(* The properties of a row *)

\* calculate_sla_due_dates
ResponseDue(row) == Due[row.priority].response
ResolutionDue(row) == Due[row.priority].resolution

IsResponseBreached(row) == ~row.first_response /\ now > ResponseDue(row)
IsResolutionBreached(row) == row.status \notin Finished /\ now > ResolutionDue(row)

-------------------------------------------------------------------------------
(* SLAService *)

TimeRemaining(due) ==
    [is_breached |-> now >= due, total_seconds |-> IF now >= due THEN 0 ELSE due - now]

\* 75% of the time has passed, not all of it.
IsInWarningZone(due) == now < due /\ 4 * now >= 3 * due

\* Only while it is waited for.
While(waiting, due) ==
    [is_warning |-> waiting /\ IsInWarningZone(due),
     time_remaining |-> IF waiting THEN TimeRemaining(due) ELSE None]

GetSlaStatus(row) ==
    [response |->
        [is_met |-> row.first_response, is_breached |-> IsResponseBreached(row),
         clock |-> While(~row.first_response, ResponseDue(row))],
     resolution |->
        [is_met |-> /\ row.status \in Finished /\ row.resolved_at # None
                    /\ row.resolved_at <= ResolutionDue(row),
         is_breached |-> IsResolutionBreached(row),
         clock |-> While(row.status \notin Finished, ResolutionDue(row))]]

-------------------------------------------------------------------------------
(* TicketDAO *)

BreachedTickets_Open ==              \* mutant: finished tickets need no response
    {t \in Ticket : LET row == tickets[t] IN
        /\ row.status \notin Finished
        /\ (~row.first_response /\ ResponseDue(row) < now) \/ ResolutionDue(row) < now}
\* A ticket that was finished without a response counts as well.
BreachedTickets ==
    {t \in Ticket : LET row == tickets[t] IN
        \/ ~row.first_response /\ ResponseDue(row) < now
        \/ row.status \notin Finished /\ ResolutionDue(row) < now}

GetStats ==
    LET having(s) == {t \in Ticket : tickets[t].status = s}
    IN  [total |-> Cardinality(Ticket), open |-> Cardinality(having("open")),
         by_status |-> [s \in Status |-> Cardinality(having(s))],
         by_priority |-> [p \in Priority |->
             Cardinality({t \in Ticket \ having("closed") : tickets[t].priority = p})],
         sla_breached |-> Cardinality(BreachedTickets)]

-------------------------------------------------------------------------------
Init == now = 0 /\ tickets \in [Ticket -> {NewTicket(p) : p \in Priority}]

Next ==
    \/ Tick
    \/ \E t \in Ticket :
           \/ Respond(t)
           \/ \E s \in Status : ChangeStatus(t, s)
           \/ \E p \in Priority : ChangePriority(t, p)

Spec == Init /\ [][Next]_vars

-------------------------------------------------------------------------------
(* Properties *)

\* The variables have their types.
TypeOK == now \in 0..MaxTime /\ tickets \in [Ticket -> Row]

\* The list of late tickets, which the statistics count, and the status that a ticket
\* shows agree: late is what shows a breach, a warning comes before it, and the clock of
\* what shows either has run out exactly for the breach.  (At the due time itself the
\* clock says breached already, and nothing else does.)
StatusAgrees ==
    /\ \A t \in Ticket :
           LET status == GetSlaStatus(tickets[t])
           IN  /\ t \in BreachedTickets <=>
                      status.response.is_breached \/ status.resolution.is_breached
               /\ \A s \in {status.response, status.resolution} :
                      /\ ~(s.is_breached /\ s.clock.is_warning)
                      /\ ~(s.is_met /\ s.is_breached)
                      /\ s.is_breached => s.clock.time_remaining.is_breached
                      /\ s.clock.is_warning => s.clock.time_remaining.total_seconds > 0
    /\ GetStats.sla_breached <= GetStats.total
=================================================================================
