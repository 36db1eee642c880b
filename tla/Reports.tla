-------------------------------- MODULE Reports --------------------------------
(***************************************************************************)
(* Scheduled reports, their executions and report templates:                  *)
(* services/report_service.py over dao/report.py, one call of the service per *)
(* transaction.  The handlers go on to call an audit method that does not     *)
(* exist and are rolled back; nothing yet calls the operations of a worker    *)
(* that would produce the files (complete, fail, deliver, next run, clean up).*)
(***************************************************************************)
EXTENDS Requests

CONSTANTS
    Person,     \* users who write report templates
    Delivered   \* outcomes of deliveries

-------------------------------------------------------------------------------
(* Tables *)

ExecutionStatus == {"pending", "running", "completed", "failed", "cancelled"}
DeliveryStatus == {"pending", "sent", "failed", "partial"}

ScheduledReport == [is_active : BOOLEAN, next_run_at : {"due", "later"}, last_run_at : BOOLEAN]
ReportExecution ==
    [scheduled_report : (1..MaxId) \cup {None}, is_adhoc : BOOLEAN, status : ExecutionStatus,
     output_file : BOOLEAN, error : BOOLEAN, delivery : DeliveryStatus \cup {None}]
ReportTemplate == [created_by : Person, is_public : BOOLEAN]

-------------------------------------------------------------------------------
(* Schedules; the next time of a cron expression is always later *)

CreateScheduledReport(w) ==
    HoldNew(w, [schedules |-> [r \in {seq} |->
        Insert([is_active |-> TRUE, next_run_at |-> "later", last_run_at |-> FALSE])]])

UpdateScheduledReport(w, r, cols) ==
    /\ r \in DOMAIN db.schedules
    /\ Hold(w, [schedules |-> [i \in {r} |-> Assign(db.schedules[r], cols)]])

DeleteScheduledReport(w, r) ==
    r \in DOMAIN db.schedules /\ Hold(w, [schedules |-> [i \in {r} |-> Delete]])

\* get_due_reports
DueReports ==
    {r \in DOMAIN db.schedules : db.schedules[r].is_active /\ db.schedules[r].next_run_at = "due"}

NextRun(r) ==
    [i \in {r} |-> Assign(db.schedules[r], [next_run_at |-> "later", last_run_at |-> TRUE])]

UpdateNextRun(w, r) == r \in DueReports /\ Hold(w, [schedules |-> NextRun(r)])

\* The clock reaches the next run.
ComesDue(r) ==
    /\ r \in DOMAIN db.schedules /\ db.schedules[r].next_run_at = "later"
    /\ db' = [db EXCEPT !.schedules[r].next_run_at = "due"]
    /\ UNCHANGED <<seq, req>>

-------------------------------------------------------------------------------
(* Executions *)

NewExecution(r) ==
    [scheduled_report |-> r, is_adhoc |-> r = None, status |-> "pending",
     output_file |-> FALSE, error |-> FALSE, delivery |-> None]

\* start_execution, in the transaction that created it
Started(row) == [row EXCEPT !.status = "running"]

GenerateReport(w, r) ==
    HoldNew(w, [executions |-> [x \in {seq} |-> Insert(Started(NewExecution(r)))]])

RunScheduledReport(w, r) == r \in DOMAIN db.schedules /\ GenerateReport(w, r)

SetColumns(w, x, cols) ==
    /\ x \in DOMAIN db.executions
    /\ Hold(w, [executions |-> [i \in {x} |-> Assign(db.executions[x], cols)]])

\* None of these asks for the status that the execution has.
CompleteExecution(w, x) == SetColumns(w, x, [status |-> "completed", output_file |-> TRUE])
FailExecution(w, x) == SetColumns(w, x, [status |-> "failed", error |-> TRUE])
UpdateDeliveryStatus(w, x, delivery) == SetColumns(w, x, [delivery |-> delivery])

Old_Running == DOMAIN db.executions     \* mutant: of any status
\* cleanup_old_executions: any finished execution may be old enough.
Old == {x \in DOMAIN db.executions : db.executions[x].status \in {"completed", "failed"}}

CleanupOldExecutions(w, xs) ==
    xs \subseteq Old /\ xs # {} /\ Hold(w, [executions |-> Each(xs, Delete)])

-------------------------------------------------------------------------------
(* Templates *)

CreateTemplate(w, p, public) ==
    HoldNew(w, [templates |-> [t \in {seq} |->
        Insert([created_by |-> p, is_public |-> public])]])

UpdateTemplate(w, p, t, public) ==
    /\ t \in DOMAIN db.templates /\ db.templates[t].created_by = p
    /\ Hold(w, [templates |-> [i \in {t} |-> Assign(db.templates[t], [is_public |-> public])]])

DeleteTemplate(w, p, t) ==
    /\ t \in DOMAIN db.templates /\ db.templates[t].created_by = p
    /\ Hold(w, [templates |-> [i \in {t} |-> Delete]])

\* get_template
Cloneable(p, t) ==
    t \in DOMAIN db.templates /\ (db.templates[t].created_by = p \/ db.templates[t].is_public)

\* The clone is the reader's own, and private.
Clone(p) == [created_by |-> p, is_public |-> FALSE]

CloneTemplate(w, p, t) ==
    Cloneable(p, t) /\ HoldNew(w, [templates |-> [i \in {seq} |-> Insert(Clone(p))]])

-------------------------------------------------------------------------------
Orphaned_Cascade(all) ==        \* mutant: the delete-orphan cascade of the ORM relation
    [x \in {y \in DOMAIN all.executions :
                all.executions[y].scheduled_report \in DOMAIN all.schedules \cup {None}} |->
        all.executions[x]]
\* The executions of a deleted schedule stay (ON DELETE SET NULL): it is deleted by a
\* core statement, which the ORM's cascades do not see.
Orphaned(all) ==
    [x \in DOMAIN all.executions |->
        IF all.executions[x].scheduled_report \in DOMAIN all.schedules \cup {None}
        THEN all.executions[x]
        ELSE [all.executions[x] EXCEPT !.scheduled_report = None]]

\* A new execution names a schedule that exists.
CommitReports(w) ==
    /\ ~Free(w)
    /\ LET all == AfterAll(req[w])
       IN  /\ \A x \in DOMAIN all.executions \ DOMAIN db.executions :
                  all.executions[x].scheduled_report \in DOMAIN db.schedules \cup {None}
           /\ CommitAs(w, [all EXCEPT !.executions = Orphaned(all)])

Init == Start({"schedules", "executions", "templates"})

Schedule(w) ==
    \/ CreateScheduledReport(w)
    \/ \E r \in 1..MaxId :
           \/ UpdateScheduledReport(w, r, [next_run_at |-> "later"])
           \/ \E b \in BOOLEAN : UpdateScheduledReport(w, r, [is_active |-> b])
           \/ DeleteScheduledReport(w, r) \/ UpdateNextRun(w, r)

Run(w) ==
    \/ GenerateReport(w, None) \/ \E r \in 1..MaxId : RunScheduledReport(w, r)
    \/ \E x \in 1..MaxId :
           \/ CompleteExecution(w, x) \/ FailExecution(w, x)
           \/ \E delivery \in Delivered : UpdateDeliveryStatus(w, x, delivery)
    \/ \E xs \in SUBSET (1..MaxId) : CleanupOldExecutions(w, xs)

Design(w) ==
    \E p \in Person :
        \/ \E b \in BOOLEAN : CreateTemplate(w, p, b)
        \/ \E t \in 1..MaxId :
               \/ CloneTemplate(w, p, t) \/ DeleteTemplate(w, p, t)
               \/ \E b \in BOOLEAN : UpdateTemplate(w, p, t, b)

Next ==
    \/ \E w \in Worker :
           Schedule(w) \/ Run(w) \/ Design(w) \/ CommitReports(w) \/ Rollback(w)
    \/ \E r \in 1..MaxId : ComesDue(r)

Spec == Init /\ [][Next]_dbvars

-------------------------------------------------------------------------------
(* Properties *)

IsTable(t, row) == \A i \in DOMAIN db[t] : i \in 1..MaxId /\ db[t][i] \in row

\* Rows have their column types; an execution refers to a schedule that exists.
TypeOK ==
    /\ IsTable("schedules", ScheduledReport) /\ IsTable("executions", ReportExecution)
    /\ IsTable("templates", ReportTemplate)
    /\ \A x \in DOMAIN db.executions :
           db.executions[x].scheduled_report \in DOMAIN db.schedules \cup {None}

\* A running execution is never removed, not even with the schedule it runs for, whatever
\* requests overlap (delete_scheduled_report, cleanup_old_executions).
RunningStep ==
    \A x \in DOMAIN db.executions :
        db.executions[x].status = "running" => x \in DOMAIN db'.executions
RunningKept == [][RunningStep]_dbvars

\* A completed execution has its file, a failed one its error.
OutcomeRecorded ==
    \A x \in DOMAIN db.executions :
        LET row == db.executions[x]
        IN  (row.status = "completed" => row.output_file) /\ (row.status = "failed" => row.error)
=================================================================================
