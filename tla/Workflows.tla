------------------------------- MODULE Workflows -------------------------------
(***************************************************************************)
(* Workflow instances, the templates and n8n environments they refer to, and  *)
(* the versions of their definitions: api/workflows.py and                    *)
(* services/workflow_version_service.py over their DAOs, for one              *)
(* organization.                                                              *)
(*                                                                          *)
(* The handlers that update an environment, a template or an instance call    *)
(* log_update without its argument `changes` and are rolled back: none is an  *)
(* action, and no instance becomes active, or is executed.  The version       *)
(* service is modelled as it stands, although its constructor raises.         *)
(***************************************************************************)
EXTENDS Requests

CONSTANTS
    KeepCount,      \* versions that pruning keeps
    MaxVersion      \* bound on version numbers

-------------------------------------------------------------------------------
(* Tables; a version is named by <<instance, version_number>>, which is unique *)

WorkflowStatus == {"draft", "active", "paused", "error", "deleted"}

N8nEnvironment == [is_active : BOOLEAN]
WorkflowTemplate == [is_public : BOOLEAN]
WorkflowInstance ==
    [status : WorkflowStatus, template : (1..MaxId) \cup {None},
     environment : (1..MaxId) \cup {None}]
WorkflowVersion == [is_current : BOOLEAN]

-------------------------------------------------------------------------------
(* Environments, templates and instances *)

NewEnvironment(active) == [is_active |-> active]

CreateEnvironment(w, active) ==
    HoldNew(w, [environments |-> [e \in {seq} |-> Insert(NewEnvironment(active))]])

DeleteEnvironment(w, e) ==
    /\ e \in DOMAIN db.environments
    /\ Hold(w, [environments |-> [i \in {e} |-> Delete]])

NewTemplate(public) == [is_public |-> public]

CreateTemplate(w, public) ==
    HoldNew(w, [templates |-> [t \in {seq} |-> Insert(NewTemplate(public))]])

NewInstance(t, e) == [status |-> "draft", template |-> t, environment |-> e]

\* Neither the template nor the environment is looked up.
CreateInstance(w, t, e) ==
    HoldNew(w, [instances |-> [i \in {seq} |-> Insert(NewInstance(t, e))]])

\* soft_delete
Deleted(i) == [instances |-> [j \in {i} |-> Assign(db.instances[i], [status |-> "deleted"])]]

DeleteInstance(w, i) == i \in DOMAIN db.instances /\ Hold(w, Deleted(i))

-------------------------------------------------------------------------------
(* Versions *)

Versions(i) == {v \in DOMAIN db.versions : v[1] = i}
Numbers(i) == {v[2] : v \in Versions(i)}

\* _get_next_version_number
NextVersion(i) == 1 + CHOOSE n \in Numbers(i) \cup {0} : \A k \in Numbers(i) : k <= n

UnsetCurrent_Kept(i) == NoRows       \* mutant: the current version stays so
UnsetCurrent(i) == Each(Versions(i), Update([is_current |-> FALSE]))

NewVersion(i, current) ==
    Both(IF current THEN UnsetCurrent(i) ELSE NoRows,
         [v \in {<<i, NextVersion(i)>>} |-> Insert([is_current |-> current])])

CreateVersion(w, i, current) ==
    /\ i \in DOMAIN db.instances /\ NextVersion(i) <= MaxVersion
    /\ Hold(w, [versions |-> NewVersion(i, current)])

\* The definition of an earlier version becomes a new, current one.
RestoreVersion(w, i, n) ==
    /\ i \in DOMAIN db.instances /\ <<i, n>> \in Versions(i) /\ NextVersion(i) <= MaxVersion
    /\ Hold(w, [versions |-> NewVersion(i, TRUE)])

\* delete_versions_before: all but the highest KeepCount numbers.
Pruned(i) ==
    {v \in Versions(i) : Cardinality({n \in Numbers(i) : n > v[2]}) >= KeepCount}

PruneOldVersions(w, i) ==
    /\ i \in DOMAIN db.instances /\ Pruned(i) # {}
    /\ Hold(w, [versions |-> Each(Pruned(i), Delete)])

-------------------------------------------------------------------------------
\* Foreign keys: an instance names rows that exist, and the environment that is
\* deleted is set to NULL.
CommitWorkflows(w) ==
    /\ ~Free(w)
    /\ LET all == AfterAll(req[w])
           gone == DOMAIN db.environments \ DOMAIN all.environments
           without(row) == IF row.environment \in gone THEN [row EXCEPT !.environment = None] ELSE row
           instances == [i \in DOMAIN all.instances |-> without(all.instances[i])]
       IN  /\ \A i \in DOMAIN instances :
                  /\ instances[i].environment \in DOMAIN all.environments \cup {None}
                  /\ instances[i].template \in DOMAIN all.templates \cup {None}
           /\ CommitAs(w, [all EXCEPT !.instances = instances])

Init == Start({"environments", "templates", "instances", "versions"})

Configure(w) ==
    \/ \E b \in BOOLEAN : CreateEnvironment(w, b) \/ CreateTemplate(w, b)
    \/ \E e \in 1..MaxId : DeleteEnvironment(w, e)

Edit(w) ==
    \/ \E t, e \in (1..MaxId) \cup {None} : CreateInstance(w, t, e)
    \/ \E i \in 1..MaxId : DeleteInstance(w, i) \/ PruneOldVersions(w, i)
    \/ \E i \in 1..MaxId, b \in BOOLEAN : CreateVersion(w, i, b)
    \/ \E i \in 1..MaxId, n \in 1..MaxVersion : RestoreVersion(w, i, n)

Next == \E w \in Worker : Configure(w) \/ Edit(w) \/ CommitWorkflows(w) \/ Rollback(w)

Spec == Init /\ [][Next]_dbvars

-------------------------------------------------------------------------------
(* Properties *)

IsTable(t, row) == \A i \in DOMAIN db[t] : i \in 1..MaxId /\ db[t][i] \in row

\* Rows have their column types, and refer to rows that exist.
TypeOK ==
    /\ IsTable("environments", N8nEnvironment) /\ IsTable("templates", WorkflowTemplate)
    /\ IsTable("instances", WorkflowInstance)
    /\ \A v \in DOMAIN db.versions :
           /\ v[1] \in DOMAIN db.instances /\ v[2] \in 1..MaxVersion
           /\ db.versions[v] \in WorkflowVersion
    /\ \A i \in DOMAIN db.instances :
           /\ db.instances[i].environment \in DOMAIN db.environments \cup {None}
           /\ db.instances[i].template \in DOMAIN db.templates \cup {None}

\* A workflow has at most one current version.  Two requests that would each create
\* it collide on the version number; a creation that read its number before a
\* pruning removed that version does not, and breaks this (create_version,
\* prune_old_versions).
OneCurrent ==
    \A v, x \in DOMAIN db.versions :
        v[1] = x[1] /\ db.versions[v].is_current /\ db.versions[x].is_current => v = x
=================================================================================
