-------------------------------- MODULE Tickets --------------------------------
(***************************************************************************)
(* One support ticket under the requests of api/tickets.py over              *)
(* dao/ticket.py and services/sla_service.py.                                *)
(*                                                                          *)
(* A request loads the row into its own session, decides on that snapshot,   *)
(* and writes only the columns whose attributes it changed, by the ticket's  *)
(* id.  Other requests commit between the load and the write.                *)
(***************************************************************************)
EXTENDS Naturals

CONSTANTS
    Priority,           \* the priorities; each has its own SLA hours
    Worker,             \* requests that can be in progress at once
    None                \* a null column

VARIABLES
    row,        \* the committed row
    req         \* req[w]: the columns that worker w's request is about to write

vars == <<row, req>>

-------------------------------------------------------------------------------
(* Data *)

Status == {"open", "in_progress", "waiting", "resolved", "closed"}

VALID_STATUS_TRANSITIONS ==
    [open        |-> {"in_progress", "closed"},
     in_progress |-> {"waiting", "resolved", "open"},
     waiting     |-> {"in_progress", "closed"},
     resolved    |-> {"closed", "in_progress"},
     closed      |-> {"open"}]

\* A due date is told by the priority it was computed from (created_at never
\* changes), first_response_at by the request that stamped it, the other
\* timestamps by whether they are set.
Ticket ==
    [status : Status, priority : Priority, responseDue : Priority, resolutionDue : Priority,
     firstResponse : Worker \cup {None}, resolvedAt : BOOLEAN, closedAt : BOOLEAN]
Absent == [status |-> "absent"]
Deleted == [status |-> "deleted"]
Exists == row.status \in Status

New_NotDue(p) ==                     \* mutant: calculate_sla_due_dates is not called
    [status |-> "open", priority |-> p, responseDue |-> None, resolutionDue |-> None,
     firstResponse |-> None, resolvedAt |-> FALSE, closedAt |-> FALSE]
New(p) ==
    [status |-> "open", priority |-> p, responseDue |-> p, resolutionDue |-> p,
     firstResponse |-> None, resolvedAt |-> FALSE, closedAt |-> FALSE]

NoChange == [status |-> "none"]
Merge(r, changes) == [c \in DOMAIN r |-> IF c \in DOMAIN changes THEN changes[c] ELSE r[c]]

Hold(w, changes) ==
    /\ Exists /\ req[w] = NoChange
    /\ req' = [req EXCEPT ![w] = changes]
    /\ UNCHANGED row

-------------------------------------------------------------------------------
(* Requests *)

\* POST.  The notification after the INSERT reads current_user.organization; it is
\* taken to be loaded already, as it is in the tests, which share one session.
CreateTicket(p) ==
    /\ row = Absent
    /\ row' = New(p)
    /\ UNCHANGED req

Stamps_NotClosed(r, s) ==            \* mutant: closing does not stamp
    CASE s = "resolved" -> [status |-> s, resolvedAt |-> TRUE]
      [] s = "open" /\ r.status = "closed" /\ r.resolvedAt ->
             [status |-> s, closedAt |-> FALSE, resolvedAt |-> FALSE]
      [] OTHER -> [status |-> s]
Stamps_NotCleared(r, s) ==           \* mutant: reopening keeps the timestamps
    CASE s = "resolved" -> [status |-> s, resolvedAt |-> TRUE]
      [] s = "closed" -> [status |-> s, closedAt |-> TRUE]
      [] OTHER -> [status |-> s]
\* The columns of a status change; a null that is set to null is not written.
Stamps(r, s) ==
    CASE s = "resolved" -> [status |-> s, resolvedAt |-> TRUE]
      [] s = "closed" -> [status |-> s, closedAt |-> TRUE]
      [] s = "open" /\ r.status = "closed" /\ r.resolvedAt ->
             [status |-> s, closedAt |-> FALSE, resolvedAt |-> FALSE]
      [] s = "open" /\ r.status = "closed" /\ ~r.resolvedAt ->
             [status |-> s, closedAt |-> FALSE]
      [] OTHER -> [status |-> s]

ChangeStatus(w, s) ==
    /\ Exists /\ s \in VALID_STATUS_TRANSITIONS[row.status]
    /\ Hold(w, Stamps(row, s))

Assign_AnyStatus(w) ==               \* mutant: whatever the status was
    /\ Exists
    /\ Hold(w, [status |-> "in_progress"])
\* Assigning an open ticket to somebody starts the work on it.
Assign(w) ==
    /\ Exists /\ row.status = "open"
    /\ Hold(w, [status |-> "in_progress"])

Reprioritised_ResolutionKept(p) ==   \* mutant: the resolution is not due anew
    [priority |-> p, responseDue |-> p]
\* TicketDAO.update computes both due dates anew, whether or not there was a
\* response; recalculate_sla_for_priority_change writes the same values again ...
Reprioritised(p) == [priority |-> p, responseDue |-> p, resolutionDue |-> p]

\* ... and refuses a finished ticket, which rolls all of it back.
UpdateTicket(w, p) ==
    /\ Exists /\ p # row.priority
    /\ row.status \notin {"resolved", "closed"}
    /\ Hold(w, Reprioritised(p))

AddComment_Always(w) ==              \* mutant: whether or not there was a response
    /\ Exists
    /\ Hold(w, [firstResponse |-> w])
\* A public comment by an admin on another user's ticket.
AddComment(w) ==
    /\ Exists /\ row.firstResponse = None
    /\ Hold(w, [firstResponse |-> w])

DeleteTicket ==
    /\ Exists
    /\ row' = Deleted
    /\ UNCHANGED req

Commit(w) ==
    /\ Exists /\ req[w] # NoChange
    /\ row' = Merge(row, req[w])
    /\ req' = [req EXCEPT ![w] = NoChange]

\* The row has gone, or the request fails before its commit.
Abort(w) ==
    /\ req[w] # NoChange
    /\ req' = [req EXCEPT ![w] = NoChange]
    /\ UNCHANGED row

-------------------------------------------------------------------------------

Init ==
    /\ row = Absent
    /\ req = [w \in Worker |-> NoChange]

Next ==
    \/ \E p \in Priority : CreateTicket(p)
    \/ DeleteTicket
    \/ \E w \in Worker :
         \/ \E s \in Status : ChangeStatus(w, s)
         \/ \E p \in Priority : UpdateTicket(w, p)
         \/ Assign(w) \/ AddComment(w) \/ Commit(w) \/ Abort(w)

Spec == Init /\ [][Next]_vars

-------------------------------------------------------------------------------
(* Properties *)

\* The row has its type.
TypeOK == row \in Ticket \cup {Absent, Deleted}

\* Whatever requests overwrite each other, the due date of the resolution, and that of
\* a response still to come, are those of the ticket's priority: the columns are written
\* together or not at all.  (When the response of an answered ticket was due is left
\* open: the service says it stays, the DAO computes it anew.)
DuesMatchPriority ==
    Exists => /\ row.firstResponse = None => row.responseDue = row.priority
              /\ row.resolutionDue = row.priority

\* Whatever requests overwrite each other, a resolved or closed ticket has the
\* timestamp of it: no reopening clears it under a later status.
FinishedIsStamped ==
    Exists => /\ row.status = "resolved" => row.resolvedAt
              /\ row.status = "closed" => row.closedAt

\* Exactly a closed ticket has a closing time.
OnlyClosedIsStamped == Exists => (row.closedAt <=> row.status = "closed")
===============================================================================
