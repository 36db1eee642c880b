------------------------------ MODULE TimeEntries ------------------------------
(***************************************************************************)
(* Time tracking: services/time_entry_service.py over dao/time_entry.py, one  *)
(* call of the service per request.  (At this commit the service's            *)
(* constructor raises, so no handler of api/time_entries.py gets that far.)   *)
(***************************************************************************)
EXTENDS Requests

CONSTANTS
    Person,     \* users who record time
    HourlyRate, \* rates that entries are billed at
    MaxMinutes  \* bound on the minutes of an entry

-------------------------------------------------------------------------------
(* Tables *)

TimeEntryStatus == {"draft", "submitted", "approved", "rejected", "invoiced"}
Minutes == 0..MaxMinutes

\* amount: the minutes and the rate that it was computed from.
TimeEntry ==
    [user : Person, status : TimeEntryStatus, is_billable : BOOLEAN,
     hourly_rate : HourlyRate \cup {None}, duration_minutes : Minutes,
     amount : (Minutes \X HourlyRate) \cup {None}, is_running : BOOLEAN]

Exists(e) == e \in DOMAIN db.entries
Status(e, status) == Exists(e) /\ db.entries[e].status = status

\* get_running_timer; it raises when there are several.
RunningTimers(u) ==
    {e \in DOMAIN db.entries : db.entries[e].user = u /\ db.entries[e].is_running}

-------------------------------------------------------------------------------
(* Entries *)

CalculatedAmount(billable, rate, minutes) ==
    IF billable /\ rate # None /\ minutes > 0 THEN <<minutes, rate>> ELSE None

\* create_entry
NewEntry(u, billable, rate, minutes) ==
    [user |-> u, status |-> "draft", is_billable |-> billable, hourly_rate |-> rate,
     duration_minutes |-> minutes, amount |-> CalculatedAmount(billable, rate, minutes),
     is_running |-> FALSE]

CreateEntry(w, u, billable, rate, minutes) ==
    HoldNew(w, [entries |-> [e \in {seq} |-> Insert(NewEntry(u, billable, rate, minutes))]])

Set(w, e, cols) == Hold(w, [entries |-> [i \in {e} |-> Assign(db.entries[e], cols)]])

\* An amount is computed anew only where there is one to compute.
Recalculated(row) ==
    LET amount == CalculatedAmount(row.is_billable, row.hourly_rate, row.duration_minutes)
    IN  IF amount = None THEN row ELSE [row EXCEPT !.amount = amount]

Editable(e) == Status(e, "draft") \/ Status(e, "rejected")

UpdateEntry_SameAmount(w, e, billable, rate, minutes) ==  \* mutant: amount is kept
    /\ Editable(e)
    /\ Set(w, e, [db.entries[e] EXCEPT
           !.status = "draft", !.is_billable = billable,
           !.hourly_rate = IF rate = None THEN @ ELSE rate, !.duration_minutes = minutes])
\* A rejected entry that is edited is a draft again.  A rate cannot be removed.
UpdateEntry(w, e, billable, rate, minutes) ==
    /\ Editable(e)
    /\ Set(w, e, Recalculated([db.entries[e] EXCEPT
           !.status = "draft", !.is_billable = billable,
           !.hourly_rate = IF rate = None THEN @ ELSE rate, !.duration_minutes = minutes]))

\* invoice_id is set together with the status "invoiced".
DeleteEntry(w, e) ==
    /\ Exists(e) /\ ~Status(e, "invoiced")
    /\ Hold(w, [entries |-> [i \in {e} |-> Delete]])

-------------------------------------------------------------------------------
(* Timers *)

MayStartTimer_Any(u) == TRUE         \* mutant: a running timer is not looked for
MayStartTimer(u) == RunningTimers(u) = {}

\* Of an entry of one's own, whatever its status, or of a new one.
StartTimer(w, u, e) ==
    /\ MayStartTimer(u) /\ Exists(e) /\ db.entries[e].user = u
    /\ Set(w, e, [is_running |-> TRUE])

StartNewTimer(w, u) ==
    /\ MayStartTimer(u)
    /\ HoldNew(w, [entries |-> [e \in {seq} |->
           Insert([NewEntry(u, TRUE, None, 0) EXCEPT !.is_running = TRUE])]])

\* stop_timer; `elapsed` whole minutes have passed since the start.
Stopped(row, elapsed) ==
    LET minutes == row.duration_minutes + elapsed IN
    [row EXCEPT
        !.duration_minutes = minutes, !.is_running = FALSE,
        !.amount = IF row.is_billable /\ row.hourly_rate # None
                   THEN <<minutes, row.hourly_rate>> ELSE @]

StopTimer(w, u, e, elapsed) ==
    /\ e \in RunningTimers(u) /\ db.entries[e].duration_minutes + elapsed <= MaxMinutes
    /\ Set(w, e, Stopped(db.entries[e], elapsed))

StopRunningTimer(w, u, elapsed) ==
    /\ Cardinality(RunningTimers(u)) = 1
    /\ \E e \in RunningTimers(u) : StopTimer(w, u, e, elapsed)

-------------------------------------------------------------------------------
(* Approval and invoicing *)

MaySubmit(e, u) ==
    /\ Status(e, "draft") /\ db.entries[e].user = u
    /\ ~db.entries[e].is_running /\ db.entries[e].duration_minutes > 0

SubmitEntry(w, e, u) == MaySubmit(e, u) /\ Set(w, e, [status |-> "submitted"])
Approved(e) == Status(e, "submitted")
ApproveEntry(w, e) == Approved(e) /\ Set(w, e, [status |-> "approved"])
RejectEntry(w, e) == Status(e, "submitted") /\ Set(w, e, [status |-> "rejected"])

\* Those of the entries asked for that can be approved are.
BulkApprove(w, es) ==
    LET approved == {e \in es : Approved(e)} IN
    approved # {} /\ Hold(w, [entries |-> Each(approved, Update([status |-> "approved"]))])

Billable(e) == Status(e, "approved")
LinkToInvoice(w, es) ==
    LET linked == {e \in es : Billable(e)} IN
    linked # {} /\ Hold(w, [entries |-> Each(linked, Update([status |-> "invoiced"]))])

-------------------------------------------------------------------------------
Init == Start({"entries"})

RecordTime(w) ==
    \E b \in BOOLEAN, rate \in HourlyRate \cup {None}, m \in Minutes :
        \/ \E u \in Person : CreateEntry(w, u, b, rate, m)
        \/ \E e \in 1..MaxId : UpdateEntry(w, e, b, rate, m)

UseTimer(w) ==
    \E u \in Person, e \in 1..MaxId, elapsed \in 0..1 :
        \/ StartTimer(w, u, e) \/ StartNewTimer(w, u)
        \/ StopTimer(w, u, e, elapsed) \/ StopRunningTimer(w, u, elapsed)

Approve(w) ==
    \/ \E e \in 1..MaxId, u \in Person :
           DeleteEntry(w, e) \/ SubmitEntry(w, e, u) \/ ApproveEntry(w, e) \/ RejectEntry(w, e)
    \/ \E es \in SUBSET (1..MaxId) : BulkApprove(w, es) \/ LinkToInvoice(w, es)

Next == \E w \in Worker : RecordTime(w) \/ UseTimer(w) \/ Approve(w) \/ Commit(w) \/ Rollback(w)

Spec == Init /\ [][Next]_dbvars

-------------------------------------------------------------------------------
(* Properties *)

TypeOK ==
    /\ DOMAIN db.entries \subseteq 1..MaxId
    /\ \A e \in DOMAIN db.entries : db.entries[e] \in TimeEntry

\* A user has at most one running timer (TimeEntryService.start_timer).
OneTimer == \A u \in Person : Cardinality(RunningTimers(u)) <= 1

\* An entry to be billed carries the amount of its own minutes and rate, through
\* edits, rates set late and timers (create_entry, update_entry, stop_timer).
AmountMatches ==
    \A e \in DOMAIN db.entries : LET row == db.entries[e] IN
        row.is_billable /\ row.hourly_rate # None /\ row.duration_minutes > 0
            => row.amount = <<row.duration_minutes, row.hourly_rate>>

\* What has been invoiced does not change any more (update_entry, delete_entry).  No
\* run claims it: a timer is started and stopped whatever the status (start_timer).
InvoicedIsFinal ==
    \A e \in DOMAIN db.entries : Status(e, "invoiced") =>
        /\ e \in DOMAIN db'.entries
        /\ db'.entries[e].status = "invoiced"
        /\ db'.entries[e].duration_minutes = db.entries[e].duration_minutes
===============================================================================
