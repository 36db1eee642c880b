-------------------------------- MODULE Projects --------------------------------
(***************************************************************************)
(* Projects as their own handlers change and list them: api/projects.py over  *)
(* dao/project.py.  What proposals do to a project's status, and deletions    *)
(* that take proposals with them, are in Proposals.                           *)
(***************************************************************************)
EXTENDS Requests

CONSTANTS
    Priority,   \* priorities that requests give
    MaxHours    \* bound on the hours of a project

-------------------------------------------------------------------------------
(* The table *)

ProjectStatus ==
    {"draft", "proposal_sent", "approved", "in_progress", "on_hold", "completed", "cancelled"}
ProjectPriority == {"low", "medium", "high", "urgent"}
Date == {"past", "future"}          \* of due_date, against the clock

Project ==
    [status : ProjectStatus, priority : ProjectPriority, due_date : Date \cup {None},
     completed_at : BOOLEAN, actual_hours : 0..MaxHours]

NewProject(priority, due) ==
    [status |-> "draft", priority |-> priority, due_date |-> due, completed_at |-> FALSE,
     actual_hours |-> 0]

Closed == {"completed", "cancelled"}

-------------------------------------------------------------------------------
(* Requests *)

CreateProject(w, priority, due) ==
    HoldNew(w, [projects |-> [p \in {seq} |-> Insert(NewProject(priority, due))]])

\* The columns that a request gives.  A date among them cannot be stored in the audit
\* entry, which takes the whole transaction with it.
UpdateProject(w, p, cols) ==
    /\ p \in DOMAIN db.projects /\ "due_date" \notin DOMAIN cols
    /\ Hold(w, [projects |-> [i \in {p} |-> Assign(db.projects[p], cols)]])

StatusChange_Kept(status) ==         \* mutant: the completion is not taken back
    IF status = "completed" THEN [status |-> status, completed_at |-> TRUE]
                            ELSE [status |-> status]
\* update_status
StatusChange(status) == [status |-> status, completed_at |-> status = "completed"]

\* Any status after any other.
UpdateProjectStatus(w, p, status) ==
    /\ p \in DOMAIN db.projects
    /\ Hold(w, [projects |-> [i \in {p} |-> Assign(db.projects[p], StatusChange(status))]])

AddHours(w, p, hours) ==
    /\ p \in DOMAIN db.projects /\ db.projects[p].actual_hours + hours <= MaxHours
    /\ Hold(w, [projects |-> [i \in {p} |->
            Update([actual_hours |-> db.projects[p].actual_hours + hours])]])

DeleteProject(w, p) ==
    p \in DOMAIN db.projects /\ Hold(w, [projects |-> [i \in {p} |-> Delete]])

\* The clock passes the due date.
ComesDue(p) ==
    /\ p \in DOMAIN db.projects /\ db.projects[p].due_date = "future"
    /\ db' = [db EXCEPT !.projects[p].due_date = "past"]
    /\ UNCHANGED <<seq, req>>

-------------------------------------------------------------------------------
(* Lists and flags *)

\* is_active and is_overdue of a row
IsActive(row) == row.status \notin Closed
IsOverdue(row) == row.due_date = "past" /\ row.status # "completed"

GetByStatus(status) == {p \in DOMAIN db.projects : db.projects[p].status = status}
GetActiveProjects == {p \in DOMAIN db.projects : db.projects[p].status \notin Closed}

GetOverdueProjects_Any ==            \* mutant: whatever the status
    {p \in DOMAIN db.projects : db.projects[p].due_date = "past"}
GetOverdueProjects ==
    {p \in DOMAIN db.projects : db.projects[p].due_date = "past"
                                /\ db.projects[p].status \notin Closed}

CountByStatus == [status \in ProjectStatus |-> Cardinality(GetByStatus(status))]

\* get_project_stats
ProjectStats ==
    [total |-> Cardinality(DOMAIN db.projects), active |-> Cardinality(GetActiveProjects),
     by_status |-> CountByStatus, overdue |-> Cardinality(GetOverdueProjects)]

-------------------------------------------------------------------------------
Init == Start({"projects"})

\* ProjectCreate
Create(w) ==
    \E priority \in Priority, due \in Date \cup {None} : CreateProject(w, priority, due)

\* ProjectUpdate, ProjectStatusUpdate
Change(w, p) ==
    \/ \E hours \in 0..MaxHours :
           UpdateProject(w, p, [actual_hours |-> hours]) \/ AddHours(w, p, hours)
    \/ \E priority \in Priority : UpdateProject(w, p, [priority |-> priority])
    \/ \E status \in ProjectStatus : UpdateProjectStatus(w, p, status)
    \/ DeleteProject(w, p)

Next ==
    \/ \E w \in Worker :
           Create(w) \/ (\E p \in 1..MaxId : Change(w, p)) \/ Commit(w) \/ Rollback(w)
    \/ \E p \in 1..MaxId : ComesDue(p)

Spec == Init /\ [][Next]_dbvars

-------------------------------------------------------------------------------
(* Properties *)

\* Rows have their column types.
TypeOK == \A p \in DOMAIN db.projects : p \in 1..MaxId /\ db.projects[p] \in Project

\* What the lists hold is what each row says of itself, and what the statistics count:
\* an active project is listed as overdue exactly when it calls itself overdue, and a
\* project that is not active is in one of the closed statuses.  (A cancelled project
\* past its due date still calls itself overdue, and is in no list.)
ListsAgree ==
    LET rows == db.projects
        stats == ProjectStats
    IN  /\ \A p \in DOMAIN rows :
               /\ IsActive(rows[p]) <=> p \in GetActiveProjects
               /\ IsActive(rows[p]) => (IsOverdue(rows[p]) <=> p \in GetOverdueProjects)
        /\ stats.overdue <= stats.active
        /\ stats.total = stats.active + stats.by_status["completed"] + stats.by_status["cancelled"]

\* Exactly a completed project has its completion date, when requests do not overlap
\* (update_status; an overlapping change of status writes one column of the two).
CompletedIsStamped ==
    \A p \in DOMAIN db.projects :
        db.projects[p].status = "completed" <=> db.projects[p].completed_at
=================================================================================
