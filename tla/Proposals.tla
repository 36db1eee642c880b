------------------------------- MODULE Proposals ------------------------------
(***************************************************************************)
(* Proposals, their revisions and totals, and the status of their project:   *)
(* the endpoints of api/proposals.py and of PATCH and DELETE /projects, over *)
(* dao/proposal.py and dao/project.py.                                       *)
(*                                                                          *)
(* A request loads the proposal without a lock and decides on what it loaded.*)
(* Sending and approving then flush the proposal (its row stays locked until *)
(* the commit), load the project and change its status.  The commit writes   *)
(* back the columns that the request changed.                                *)
(***************************************************************************)
EXTENDS Naturals, FiniteSets

CONSTANTS
    Proposal,   \* ids of proposal rows, never reused
    Project,    \* ids of project rows, never reused
    Worker,     \* requests that can be in progress at once
    Subtotal,   \* sums of line items
    Percent,    \* discount and tax percentages
    OtherStage, \* the project statuses that no code tells apart: "in_progress",
                \* "on_hold", "cancelled"
    None        \* a null column, or a field left out of a request

ASSUME DataAssumption == Subtotal \subseteq Nat /\ Percent \subseteq 0..100 /\ 0 \in Percent
ASSUME StageAssumption == OtherStage \subseteq {"in_progress", "on_hold", "cancelled"}
ASSUME NoneAssumption == None \notin Proposal \cup Project \cup Nat

VARIABLES
    prop,       \* prop[p]: the committed proposal row
    proj,       \* proj[j]: the committed project row
    req         \* req[w]: what worker w's request holds in its ORM session

vars == <<prop, proj, req>>

-------------------------------------------------------------------------------
(* Rows *)

\* EXPIRED has no writer.
Status == {"draft", "sent", "viewed", "approved", "rejected", "revised"}
Open == {"sent", "viewed"}
ProjectStatus == {"draft", "proposal_sent", "approved", "completed"} \cup OtherStage

Total(s, d, t) == (s * (100 - d) * (100 + t)) \div 10000

\* items: the sum of the line items; past: valid_until has passed.
Column == {"status", "items", "disc", "tax", "total"}
Row == [status : Status \cup {"absent", "deleted"}, project : Project \cup {None},
        version : Nat, prev : Proposal \cup {None}, items : Subtotal \cup {0},
        disc : Percent, tax : Percent, total : Nat, past : BOOLEAN]
NoRow(st) == [status |-> st, project |-> None, version |-> 0, prev |-> None,
              items |-> 0, disc |-> 0, tax |-> 0, total |-> 0, past |-> FALSE]

ProjectRow == [status : ProjectStatus \cup {"absent", "deleted"}, done : BOOLEAN]
NoProject(st) == [status |-> st, done |-> FALSE]

Exists(p) == prop[p].status \in Status
ProjectExists(j) == proj[j].status \in ProjectStatus

Dirty(old, new) == {c \in Column : old[c] # new[c]}
Merge(row, cols, new) ==
    [row EXCEPT !.status = IF "status" \in cols THEN new.status ELSE @,
                !.items = IF "items" \in cols THEN new.items ELSE @,
                !.disc = IF "disc" \in cols THEN new.disc ELSE @,
                !.tax = IF "tax" \in cols THEN new.tax ELSE @,
                !.total = IF "total" \in cols THEN new.total ELSE @]

(* The data of a request: a field left out is None *)

Edit == [items : Subtotal \cup {None}, disc : Percent \cup {None},
         tax : Percent \cup {None}]
Given(e) == {c \in {"items", "disc", "tax"} : e[c] # None}
Or(v, default) == IF v = None THEN default ELSE v

\* The row with the given fields, its total not yet recomputed.
Fields(row, e) == [row EXCEPT !.items = Or(e.items, row.items),
                              !.disc = Or(e.disc, row.disc),
                              !.tax = Or(e.tax, row.tax)]

\* update_proposal: the totals follow any change of items, discount or tax.
Edited(row, e) ==
    LET f == Fields(row, e) IN
    IF Given(e) = {} THEN row ELSE [f EXCEPT !.total = Total(f.items, f.disc, f.tax)]

\* revise_proposal: the totals follow new line items only, and then take a
\* percentage that was left out as 0, while the row keeps the original's.
Revision(row, p, e, past) ==
    [Fields(row, e) EXCEPT
        !.status = "draft", !.version = row.version + 1, !.prev = p, !.past = past,
        !.total = IF e.items = None THEN row.total
                  ELSE Total(e.items, Or(e.disc, 0), Or(e.tax, 0))]

(* Guards of the DAO methods, on the loaded row *)

IsEditable(row) == row.status = "draft"
CanApprove_Again(row) == row.status \in Open \cup {"rejected"} /\ ~row.past   \* mutant
CanApprove(row) == row.status \in Open /\ ~row.past
CanReject(row) == row.status \in Open

StatusChange_KeepsDate(old, st) ==   \* mutant: reopening keeps completed_at
    [status |-> st, done |-> old.done \/ st = "completed"]
\* ProjectDAO.update_status: any status; completed_at follows it.
StatusChange(old, st) == [status |-> st, done |-> (st = "completed")]

-------------------------------------------------------------------------------
(* Requests *)

Idle == [op |-> "idle", at |-> "idle", p |-> None, cols |-> {}, new |-> NoRow("absent"),
         child |-> NoRow("absent"), j |-> None, pcols |-> {},
         pnew |-> NoProject("absent")]

WithProject == {"send", "approve"}
Op == WithProject \cup {"update", "delete", "view", "reject", "revise", "status"}

Request == {Idle} \cup
    [op : Op, at : {"loaded", "flushed"}, p : Proposal \cup {None},
     cols : SUBSET Column, new : Row, child : Row, j : Project \cup {None},
     pcols : SUBSET {"status", "done"}, pnew : ProjectRow]

Load(w, op, p, cols, new) ==
    /\ req[w] = Idle
    /\ req' = [req EXCEPT ![w] = [Idle EXCEPT !.op = op, !.at = "loaded", !.p = p,
                                              !.cols = cols, !.new = new]]
    /\ UNCHANGED <<prop, proj>>

LoadChange(w, op, p, new) == Load(w, op, p, Dirty(prop[p], new), new)

UpdateProposal_WholeRow(w, p, e) ==  \* mutant: saves every column it loaded
    IsEditable(prop[p]) /\ Load(w, "update", p, Column, Edited(prop[p], e))
\* PUT: a core UPDATE of the given columns and, with them, the totals.  (A new
\* valid_until cannot be saved: the audit entry of the edit cannot hold a date.)
UpdateProposal(w, p, e) ==
    /\ IsEditable(prop[p])
    /\ Load(w, "update", p,
            Given(e) \cup (IF Given(e) = {} THEN {} ELSE {"total"}),
            Edited(prop[p], e))

DeleteProposal(w, p) == IsEditable(prop[p]) /\ LoadChange(w, "delete", p, prop[p])

SendProposal(w, p) ==
    /\ IsEditable(prop[p])
    /\ LoadChange(w, "send", p, [prop[p] EXCEPT !.status = "sent"])

ViewProposal(w, p) ==
    /\ prop[p].status = "sent"
    /\ LoadChange(w, "view", p, [prop[p] EXCEPT !.status = "viewed"])

ApproveProposal(w, p) ==
    /\ CanApprove(prop[p])
    /\ LoadChange(w, "approve", p, [prop[p] EXCEPT !.status = "approved"])

RejectProposal(w, p) ==
    /\ CanReject(prop[p])
    /\ LoadChange(w, "reject", p, [prop[p] EXCEPT !.status = "rejected"])

HoldRevision(w, p, cols, new, child) ==
    /\ req[w] = Idle /\ Exists(p)
    /\ req' = [req EXCEPT ![w] = [Idle EXCEPT !.op = "revise", !.at = "loaded",
                 !.p = p, !.cols = cols, !.new = new, !.child = child]]
    /\ UNCHANGED <<prop, proj>>

ReviseProposal_LeavesOld(w, p, e, past) ==    \* mutant: the original keeps its status
    HoldRevision(w, p, {}, prop[p], Revision(prop[p], p, e, past))
\* A proposal of any status can be revised.
ReviseProposal(w, p, e, past) ==
    LET new == [prop[p] EXCEPT !.status = "revised"] IN
    HoldRevision(w, p, Dirty(prop[p], new), new, Revision(prop[p], p, e, past))

\* What update_status writes of the loaded project: completed_at when it is set
\* or cleared, the status when it differs.
ProjectHeld(r, j, st) ==
    LET new == StatusChange(proj[j], st) IN
    [r EXCEPT !.at = "flushed", !.j = j, !.pnew = new,
              !.pcols = {c \in {"status", "done"} : new[c] # proj[j][c]}
                           \cup (IF st = "completed" THEN {"done"} ELSE {})]

\* PATCH /projects/{id}/status, first half.
SetProjectStatus(w, j, st) ==
    /\ req[w] = Idle /\ ProjectExists(j)
    /\ req' = [req EXCEPT ![w] = ProjectHeld([Idle EXCEPT !.op = "status"], j, st)]
    /\ UNCHANGED <<prop, proj>>

Locked(p) == \E w \in Worker : req[w].p = p /\ req[w].at = "flushed"

\* The proposal is flushed, which locks its row; then the project is loaded.
FlushProposal(w) ==
    LET r == req[w] IN
    /\ r.op \in WithProject /\ r.at = "loaded"
    /\ Exists(r.p) /\ ~Locked(r.p)
    /\ req' = [req EXCEPT ![w] = ProjectHeld(r, prop[r.p].project,
                 IF r.op = "send" THEN "proposal_sent" ELSE "approved")]
    /\ UNCHANGED <<prop, proj>>

-------------------------------------------------------------------------------
(* The end of a request *)

\* The row is there and no other request holds its lock.
Writable(r) ==
    /\ Exists(r.p)
    /\ IF r.op \in WithProject THEN r.at = "flushed" ELSE ~Locked(r.p)

MergeProject(old, r) ==
    [status |-> IF "status" \in r.pcols THEN r.pnew.status ELSE old.status,
     done |-> IF "done" \in r.pcols THEN r.pnew.done ELSE old.done]

CommitProposal(w) ==
    LET r == req[w] IN
    /\ r.op \in WithProject \cup {"update", "view", "reject"} /\ Writable(r)
    /\ prop' = [prop EXCEPT ![r.p] = Merge(@, r.cols, r.new)]
    /\ proj' = IF r.j = None THEN proj
               ELSE [proj EXCEPT ![r.j] = MergeProject(@, r)]
    /\ req' = [req EXCEPT ![w] = Idle]

CommitRevision(w, q) ==
    LET r == req[w] IN
    /\ r.op = "revise" /\ Writable(r) /\ prop[q].status = "absent"
    /\ prop' = [prop EXCEPT ![r.p] = Merge(@, r.cols, r.new), ![q] = r.child]
    /\ req' = [req EXCEPT ![w] = Idle]
    /\ UNCHANGED proj

\* Rows that point at a deleted one are set to null.
Without(P) ==
    [q \in Proposal |->
        IF q \in P THEN NoRow("deleted")
        ELSE [prop[q] EXCEPT !.prev = IF @ \in P THEN None ELSE @]]

CommitDelete(w) ==
    LET r == req[w] IN
    /\ r.op = "delete" /\ Writable(r)
    /\ prop' = Without({r.p})
    /\ req' = [req EXCEPT ![w] = Idle]
    /\ UNCHANGED proj

CommitStatus(w) ==
    LET r == req[w] IN
    /\ r.op = "status" /\ ProjectExists(r.j)
    /\ proj' = [proj EXCEPT ![r.j] = MergeProject(@, r)]
    /\ req' = [req EXCEPT ![w] = Idle]
    /\ UNCHANGED prop

\* A row has gone, the database chose it as a deadlock victim, or any other error.
Abort(w) ==
    /\ req[w] # Idle
    /\ req' = [req EXCEPT ![w] = Idle]
    /\ UNCHANGED <<prop, proj>>

(* Requests that decide nothing on what they loaded, in one step *)

CreateProject(j) ==
    /\ proj[j].status = "absent"
    /\ proj' = [proj EXCEPT ![j].status = "draft"]
    /\ UNCHANGED <<prop, req>>

CreateProposal(q, j, s, d, t) ==
    /\ prop[q].status = "absent" /\ ProjectExists(j)
    /\ prop' = [prop EXCEPT ![q] =
                  [NoRow("draft") EXCEPT !.project = j, !.version = 1,
                     !.items = s, !.disc = d, !.tax = t, !.total = Total(s, d, t)]]
    /\ UNCHANGED <<proj, req>>

\* The delete cascades to the proposals, and waits for those that are locked.
DeleteProject(j) ==
    LET P == {p \in Proposal : prop[p].project = j} IN
    /\ ProjectExists(j)
    /\ \A p \in P : ~Locked(p)
    /\ proj' = [proj EXCEPT ![j] = NoProject("deleted")]
    /\ prop' = Without(P)
    /\ UNCHANGED req

ValidityPasses(p) ==
    /\ Exists(p) /\ ~prop[p].past
    /\ prop' = [prop EXCEPT ![p].past = TRUE]
    /\ UNCHANGED <<proj, req>>

-------------------------------------------------------------------------------

Init ==
    /\ prop = [p \in Proposal |-> NoRow("absent")]
    /\ proj = [j \in Project |-> NoProject("absent")]
    /\ req = [w \in Worker |-> Idle]

Begin(w) ==
    \/ \E p \in Proposal :
         \/ DeleteProposal(w, p) \/ SendProposal(w, p) \/ ViewProposal(w, p)
         \/ ApproveProposal(w, p) \/ RejectProposal(w, p)
         \/ \E e \in Edit : \/ UpdateProposal(w, p, e)
                            \/ \E past \in {prop[p].past, FALSE} :
                                 ReviseProposal(w, p, e, past)
    \/ \E j \in Project, st \in ProjectStatus : SetProjectStatus(w, j, st)

Finish(w) ==
    \/ FlushProposal(w) \/ CommitProposal(w) \/ CommitDelete(w)
    \/ CommitStatus(w) \/ Abort(w)
    \/ \E q \in Proposal : CommitRevision(w, q)

Next ==
    \/ \E w \in Worker : Begin(w) \/ Finish(w)
    \/ \E j \in Project : CreateProject(j) \/ DeleteProject(j)
    \/ \E p \in Proposal : ValidityPasses(p)
    \/ \E q \in Proposal, j \in Project, s \in Subtotal, d, t \in Percent :
         CreateProposal(q, j, s, d, t)

Spec == Init /\ [][Next]_vars

-------------------------------------------------------------------------------
(* Properties *)

\* Every variable has its type.
TypeOK ==
    /\ prop \in [Proposal -> Row]
    /\ proj \in [Project -> ProjectRow]
    /\ req \in [Worker -> Request]

\* Whatever requests race, a revision belongs to the project of what it revises,
\* which still exists, carries the next version number, and what it revises is no
\* draft any more.
RevisionTree ==
    \A q \in Proposal : prop[q].prev # None =>
        LET p == prop[q].prev IN
        /\ prop[p].status \in Status \ {"draft"}
        /\ prop[q].version = prop[p].version + 1
        /\ prop[q].project = prop[p].project
        /\ ProjectExists(prop[q].project)

\* A proposal that has a newer version is marked revised.
SupersededMarked ==
    \A q \in Proposal : prop[q].prev # None => prop[prop[q].prev].status = "revised"

\* The column completed_at is set exactly for a completed project.
CompletedHasDate ==
    \A j \in Project : ProjectExists(j) => (proj[j].done <=> proj[j].status = "completed")

\* The documented workflow, which the commits follow one request at a time.
Workflow == INSTANCE ProposalWorkflow WITH
    status <- [p \in Proposal |-> IF Exists(p) THEN prop[p].status ELSE "absent"],
    of <- [p \in Proposal |-> prop[p].project],
    stage <- [j \in Project |-> IF ProjectExists(j) THEN proj[j].status ELSE "absent"]

\* --- what the documentation says and the code does not do ---

\* "Ensures consistent calculation across create/update operations", for
\* revisions too.
TotalsMatch ==
    \A p \in Proposal : Exists(p) =>
        prop[p].total = Total(prop[p].items, prop[p].disc, prop[p].tax)
===============================================================================
