---------------------------- MODULE ProposalsProofs ----------------------------
(***************************************************************************)
(* Theorems about Proposals, for any proposals, projects, workers, amounts    *)
(* and percentages: the types and the tree of revisions whatever requests     *)
(* race, and the documented workflow as long as none do.                      *)
(***************************************************************************)
EXTENDS MCProposals, TLAPS

-------------------------------------------------------------------------------
(* Rows: every DAO method and the merge of a flush give a row *)

LEMMA Numbers ==
    /\ Subtotal \subseteq Nat /\ Percent \subseteq Nat /\ 0 \in Percent
    /\ \A d \in Percent : 100 - d \in Nat
BY DataAssumption

LEMMA TotalType ==
    ASSUME NEW s \in Nat, NEW d \in Percent, NEW t \in Percent
    PROVE  Total(s, d, t) \in Nat
<1> DEFINE a == 100 - d
           b == 100 + t
<1>1. a \in Nat /\ b \in Nat
  BY Numbers
<1> HIDE DEF a, b
<1>2. s * a \in Nat
  BY <1>1
<1>3. (s * a) * b \in Nat
  BY <1>1, <1>2
<1>4. \A n \in Nat : n \div 10000 \in Nat
  OBVIOUS
<1>5. ((s * a) * b) \div 10000 \in Nat
  BY <1>3, <1>4
<1>6. QED
  BY <1>5 DEF Total, a, b

LEMMA NoRowType == NoRow("absent") \in Row /\ NoRow("deleted") \in Row
BY Numbers DEF NoRow, Row

LEMMA FieldsType ==
    ASSUME NEW row \in Row, NEW e \in Edit
    PROVE  /\ Fields(row, e) \in Row /\ Given(e) \subseteq Column
           /\ Fields(row, e).items \in Nat
           /\ "status" \notin Given(e)
           /\ Fields(row, e).status = row.status
<1> DEFINE items == Or(e.items, row.items)
           disc == Or(e.disc, row.disc)
           tax == Or(e.tax, row.tax)
           f == [row EXCEPT !.items = items, !.disc = disc, !.tax = tax]
<1>1. items \in Subtotal \cup {0} /\ disc \in Percent /\ tax \in Percent
  BY DEF Or, Edit, Row
<1>2. items \in Nat
  BY <1>1, Numbers
<1> HIDE DEF items, disc, tax
<1>3. f \in Row /\ f.items = items /\ f.status = row.status
  BY <1>1 DEF Row
<1>4. Fields(row, e) = f
  BY DEF Fields, items, disc, tax
<1>5. Given(e) \subseteq Column /\ "status" \notin Given(e)
  BY DEF Given, Column
<1>6. QED
  BY <1>2, <1>3, <1>4, <1>5

LEMMA EditedType ==
    ASSUME NEW row \in Row, NEW e \in Edit
    PROVE  Edited(row, e) \in Row
<1> DEFINE f == Fields(row, e)
<1>1. f \in Row /\ f.items \in Nat /\ f.disc \in Percent /\ f.tax \in Percent
  BY FieldsType DEF Row
<1> HIDE DEF f
<1>2. Total(f.items, f.disc, f.tax) \in Nat
  BY <1>1, TotalType
<1>3. [f EXCEPT !.total = Total(f.items, f.disc, f.tax)] \in Row
  BY <1>1, <1>2 DEF Row
<1>4. QED
  BY <1>3 DEF Edited, f

LEMMA RevisionType ==
    ASSUME NEW row \in Row, NEW p \in Proposal, NEW e \in Edit, NEW past \in BOOLEAN
    PROVE  LET child == Revision(row, p, e, past) IN
           /\ child \in Row /\ child.status = "draft" /\ child.prev = p
           /\ child.version = row.version + 1 /\ child.project = row.project
<1> DEFINE f == Fields(row, e)
           total == IF e.items = None THEN row.total
                    ELSE Total(e.items, Or(e.disc, 0), Or(e.tax, 0))
<1>1. f \in Row /\ f.project = row.project
  BY FieldsType DEF Fields, Row
<1>2. total \in Nat
  <2>1. CASE e.items = None
    BY <2>1 DEF Row
  <2>2. CASE e.items # None
    <3>1. e.items \in Nat /\ Or(e.disc, 0) \in Percent /\ Or(e.tax, 0) \in Percent
      BY <2>2, Numbers DEF Edit, Or
    <3>2. QED
      BY <2>2, <3>1, TotalType
  <2>3. QED
    BY <2>1, <2>2
<1>3. row.version + 1 \in Nat
  BY DEF Row
<1> HIDE DEF f, total
<1> DEFINE child == [f EXCEPT !.status = "draft", !.version = row.version + 1, !.prev = p,
                              !.past = past, !.total = total]
<1>4. /\ child \in Row /\ child.status = "draft" /\ child.prev = p
      /\ child.version = row.version + 1 /\ child.project = row.project
  BY <1>1, <1>2, <1>3 DEF Row, Status
<1>5. Revision(row, p, e, past) = child
  BY DEF Revision, f, total
<1>6. QED
  BY <1>4, <1>5

\* A merge writes the given columns and nothing else.
LEMMA Merged ==
    ASSUME NEW row \in Row, NEW new \in Row, NEW cols
    PROVE  LET after == Merge(row, cols, new) IN
           /\ after \in Row
           /\ after.status = IF "status" \in cols THEN new.status ELSE row.status
           /\ after.version = row.version /\ after.project = row.project
           /\ after.prev = row.prev
<1> DEFINE status == IF "status" \in cols THEN new.status ELSE row.status
           items == IF "items" \in cols THEN new.items ELSE row.items
           disc == IF "disc" \in cols THEN new.disc ELSE row.disc
           tax == IF "tax" \in cols THEN new.tax ELSE row.tax
           total == IF "total" \in cols THEN new.total ELSE row.total
           after == [row EXCEPT !.status = status, !.items = items, !.disc = disc,
                                !.tax = tax, !.total = total]
<1>1. /\ status \in Status \cup {"absent", "deleted"} /\ items \in Subtotal \cup {0}
      /\ disc \in Percent /\ tax \in Percent /\ total \in Nat
  BY DEF Row
<1>2. Merge(row, cols, new) = after
  BY DEF Merge
<1> HIDE DEF status, items, disc, tax, total
<1>3. /\ after \in Row /\ after.status = status /\ after.version = row.version
      /\ after.project = row.project /\ after.prev = row.prev
  BY <1>1 DEF Row
<1>4. QED
  BY <1>2, <1>3 DEF status

LEMMA MergedProject ==
    ASSUME NEW old \in ProjectRow, NEW r \in Request
    PROVE  MergeProject(old, r) \in ProjectRow
<1>1. r.pnew \in ProjectRow
  <2>1. NoProject("absent") \in ProjectRow
    BY DEF NoProject, ProjectRow
  <2>2. Idle.pnew = NoProject("absent")
    BY DEF Idle
  <2>3. QED
    BY <2>1, <2>2 DEF Request
<1>2. QED
  BY <1>1 DEF MergeProject, ProjectRow

-------------------------------------------------------------------------------
(* What a request decided on the row it loaded *)

\* The request writes the status st, unless the row has it already.
Writes(r, row, st) ==
    r.new.status = st /\ r.cols = IF row.status = st THEN {} ELSE {"status"}

Decided(r, row) ==
    \/ r.op = "update" /\ row.status = "draft" /\ "status" \notin r.cols
    \/ r.op = "delete" /\ row.status = "draft" /\ r.cols = {}
    \/ r.op = "send" /\ row.status = "draft" /\ Writes(r, row, "sent")
    \/ r.op = "view" /\ row.status = "sent" /\ Writes(r, row, "viewed")
    \/ r.op = "approve" /\ row.status \in Open /\ Writes(r, row, "approved")
    \/ r.op = "reject" /\ row.status \in Open /\ Writes(r, row, "rejected")
    \/ /\ r.op = "revise" /\ Writes(r, row, "revised")
       /\ r.child.status = "draft" /\ r.child.prev = r.p
       /\ r.child.version = row.version + 1 /\ r.child.project = row.project

\* A request on proposal p that has just loaded it.
Loads(r, p) ==
    /\ r.op \in Op \ {"status"} /\ r.at = "loaded" /\ r.p = p /\ r.j = None
    /\ Exists(p) /\ Decided(r, prop[p])

\* What a request that changes project j to status st has decided.
ProjectDecided(r, j, st) ==
    /\ r.at = "flushed" /\ r.j = j /\ r.pnew.status = st
    /\ r.pnew.done <=> st = "completed"
    /\ MergeProject(proj[j], r) = r.pnew

\* A request on project j that has just loaded it.
LoadsProject(r, j, st) ==
    /\ r.op = "status" /\ r.p = None /\ r.cols = {} /\ ProjectExists(j)
    /\ ProjectDecided(r, j, st)

LEMMA StatusWritten ==
    ASSUME NEW row \in Row, NEW st
    PROVE  LET new == [row EXCEPT !.status = st] IN
           /\ new.status = st
           /\ Dirty(row, new) = IF row.status = st THEN {} ELSE {"status"}
           /\ st \in Status => new \in Row
BY DEF Dirty, Row, Column

LEMMA IdleType ==
    /\ Idle \in [op : {"idle"}, at : {"idle"}, p : {None}, cols : {{}}, new : Row,
                 child : Row, j : {None}, pcols : {{}}, pnew : ProjectRow]
    /\ Idle \in Request
<1>1. NoProject("absent") \in ProjectRow
  BY DEF NoProject, ProjectRow
<1>2. QED
  BY <1>1, NoRowType DEF Idle, Request

LEMMA LoadIs ==
    ASSUME TypeOK, NEW w \in Worker, NEW op \in Op, NEW p \in Proposal,
           NEW cols \in SUBSET Column, NEW new \in Row, Load(w, op, p, cols, new)
    PROVE  /\ prop' = prop /\ proj' = proj /\ req[w] = Idle
           /\ \E r \in Request :
                 /\ req' = [req EXCEPT ![w] = r]
                 /\ r.op = op /\ r.at = "loaded" /\ r.p = p /\ r.cols = cols
                 /\ r.new = new /\ r.j = None
<1> DEFINE r == [Idle EXCEPT !.op = op, !.at = "loaded", !.p = p, !.cols = cols,
                             !.new = new]
<1>1. /\ prop' = prop /\ proj' = proj /\ req[w] = Idle
      /\ req' = [req EXCEPT ![w] = r]
  BY DEF Load
<1>2. /\ r \in Request /\ r.op = op /\ r.at = "loaded" /\ r.p = p /\ r.cols = cols
      /\ r.new = new /\ r.j = None
  BY IdleType DEF Request
<1>3. QED
  BY <1>1, <1>2

LEMMA LoadChangeIs ==
    ASSUME TypeOK, NEW w \in Worker, NEW op \in Op, NEW p \in Proposal, NEW st \in Status,
           LoadChange(w, op, p, [prop[p] EXCEPT !.status = st])
    PROVE  /\ prop' = prop /\ proj' = proj /\ req[w] = Idle
           /\ \E r \in Request :
                 /\ req' = [req EXCEPT ![w] = r]
                 /\ r.op = op /\ r.at = "loaded" /\ r.p = p /\ r.j = None
                 /\ Writes(r, prop[p], st)
<1> DEFINE new == [prop[p] EXCEPT !.status = st]
           cols == Dirty(prop[p], new)
<1>1. prop[p] \in Row
  BY DEF TypeOK
<1>2. /\ new \in Row /\ new.status = st
      /\ cols = IF prop[p].status = st THEN {} ELSE {"status"}
  BY <1>1, StatusWritten
<1>3. Load(w, op, p, cols, new)
  BY DEF LoadChange
<1> HIDE DEF new, cols
<1>4. cols \in SUBSET Column
  BY <1>2 DEF Column
<1>5. QED
  BY <1>2, <1>3, <1>4, LoadIs DEF Writes

LEMMA HoldRevisionIs ==
    ASSUME TypeOK, NEW w \in Worker, NEW p \in Proposal, NEW e \in Edit,
           NEW past \in BOOLEAN, ReviseProposal(w, p, e, past)
    PROVE  /\ prop' = prop /\ proj' = proj /\ req[w] = Idle
           /\ \E r \in Request : req' = [req EXCEPT ![w] = r] /\ Loads(r, p)
<1> DEFINE new == [prop[p] EXCEPT !.status = "revised"]
           cols == Dirty(prop[p], new)
           child == Revision(prop[p], p, e, past)
           r == [Idle EXCEPT !.op = "revise", !.at = "loaded", !.p = p, !.cols = cols,
                             !.new = new, !.child = child]
<1>1. prop[p] \in Row
  BY DEF TypeOK
<1>2. /\ new \in Row /\ cols \in SUBSET Column /\ new.status = "revised"
      /\ cols = IF prop[p].status = "revised" THEN {} ELSE {"status"}
  BY <1>1, StatusWritten DEF Column, Status
<1>3. /\ child \in Row /\ child.status = "draft" /\ child.prev = p
      /\ child.version = prop[p].version + 1 /\ child.project = prop[p].project
  BY <1>1, RevisionType
<1>4. /\ prop' = prop /\ proj' = proj /\ req[w] = Idle /\ Exists(p)
      /\ req' = [req EXCEPT ![w] = r]
  BY DEF ReviseProposal, HoldRevision
<1> HIDE DEF new, cols, child
<1>5. /\ r \in Request /\ r.op = "revise" /\ r.at = "loaded" /\ r.p = p
      /\ r.cols = cols /\ r.new = new /\ r.child = child /\ r.j = None
  BY <1>2, <1>3, IdleType DEF Request, Op
<1> HIDE DEF r
<1>6. Loads(r, p)
  BY <1>2, <1>3, <1>4, <1>5 DEF Loads, Decided, Writes, Op
<1>7. QED
  BY <1>4, <1>5, <1>6

LEMMA ProjectHeldIs ==
    ASSUME NEW j \in Project, proj[j] \in ProjectRow, NEW st \in ProjectStatus,
           NEW r \in [op : Op, at : {"idle", "loaded"}, p : Proposal \cup {None},
                      cols : SUBSET Column, new : Row, child : Row,
                      j : Project \cup {None}, pcols : SUBSET {"status", "done"},
                      pnew : ProjectRow]
    PROVE  LET h == ProjectHeld(r, j, st) IN
           /\ h \in Request /\ h.op = r.op /\ h.p = r.p /\ h.cols = r.cols
           /\ h.new = r.new /\ h.child = r.child
           /\ ProjectDecided(h, j, st)
<1> DEFINE old == proj[j]
           new == [status |-> st, done |-> (st = "completed")]
           cols == {c \in {"status", "done"} : new[c] # old[c]}
                       \cup (IF st = "completed" THEN {"done"} ELSE {})
           h == [r EXCEPT !.at = "flushed", !.j = j, !.pnew = new, !.pcols = cols]
<1>1. ProjectHeld(r, j, st) = h
  BY DEF ProjectHeld, StatusChange
<1>2. new \in ProjectRow /\ cols \in SUBSET {"status", "done"}
  BY DEF ProjectRow
<1>3. /\ "status" \notin cols => old.status = new.status
      /\ "done" \notin cols => old.done = new.done
  OBVIOUS
<1>4. new = [status |-> new.status, done |-> new.done]
  OBVIOUS
<1>5. new.status = st /\ (new.done <=> st = "completed")
  OBVIOUS
<1> HIDE DEF new, cols, old
<1>6. /\ h \in Request /\ h.op = r.op /\ h.p = r.p /\ h.cols = r.cols
      /\ h.new = r.new /\ h.child = r.child /\ h.at = "flushed" /\ h.j = j
      /\ h.pnew = new /\ h.pcols = cols
  BY <1>2 DEF Request
<1> HIDE DEF h
<1>7. MergeProject(old, h) = new
  BY <1>3, <1>4, <1>6 DEF MergeProject
<1>8. QED
  BY <1>1, <1>5, <1>6, <1>7 DEF ProjectDecided, old


Begins(w, p) ==
    \/ SendProposal(w, p) \/ ViewProposal(w, p)
    \/ ApproveProposal(w, p) \/ RejectProposal(w, p)
    \/ DeleteProposal(w, p)
    \/ \E e \in Edit : \/ UpdateProposal(w, p, e)
                       \/ \E past \in {prop[p].past, FALSE} : ReviseProposal(w, p, e, past)

\* Every first half of a request loads a row, decides on it, and changes nothing.
LEMMA BeginIs ==
    ASSUME TypeOK, NEW w \in Worker, Begin(w)
    PROVE  /\ prop' = prop /\ proj' = proj /\ req[w] = Idle
           /\ \E r \in Request :
                 /\ req' = [req EXCEPT ![w] = r]
                 /\ \/ \E p \in Proposal : Loads(r, p)
                    \/ \E j \in Project, st \in ProjectStatus : LoadsProject(r, j, st)
<1>1. ASSUME NEW p \in Proposal, NEW op \in Op \ {"status"}, NEW st \in Status,
             LoadChange(w, op, p, [prop[p] EXCEPT !.status = st]), Exists(p),
             \/ op = "send" /\ prop[p].status = "draft" /\ st = "sent"
             \/ op = "view" /\ prop[p].status = "sent" /\ st = "viewed"
             \/ op = "approve" /\ prop[p].status \in Open /\ st = "approved"
             \/ op = "reject" /\ prop[p].status \in Open /\ st = "rejected"
      PROVE  /\ prop' = prop /\ proj' = proj /\ req[w] = Idle
             /\ \E r \in Request : req' = [req EXCEPT ![w] = r] /\ Loads(r, p)
  BY <1>1, LoadChangeIs DEF Loads, Decided
<1>2. ASSUME NEW p \in Proposal,
             \/ SendProposal(w, p) \/ ViewProposal(w, p)
             \/ ApproveProposal(w, p) \/ RejectProposal(w, p)
      PROVE  /\ prop' = prop /\ proj' = proj /\ req[w] = Idle
             /\ \E r \in Request : req' = [req EXCEPT ![w] = r] /\ Loads(r, p)
  <2>1. {"send", "view", "approve", "reject"} \subseteq Op \ {"status"}
    BY DEF Op, WithProject
  <2>2. /\ {"sent", "viewed", "approved", "rejected"} \subseteq Status
        /\ Open \subseteq Status /\ "draft" \in Status
    BY DEF Status, Open
  <2>3. QED
    BY <1>1, <1>2, <2>1, <2>2 DEF SendProposal, ViewProposal, ApproveProposal,
       RejectProposal, IsEditable, CanApprove, CanReject, Exists
<1>3. ASSUME NEW p \in Proposal, DeleteProposal(w, p)
      PROVE  /\ prop' = prop /\ proj' = proj /\ req[w] = Idle
             /\ \E r \in Request : req' = [req EXCEPT ![w] = r] /\ Loads(r, p)
  <2>1. prop[p] \in Row /\ prop[p].status = "draft" /\ Dirty(prop[p], prop[p]) = {}
    BY <1>3 DEF TypeOK, DeleteProposal, IsEditable, Dirty
  <2>2. Load(w, "delete", p, {}, prop[p]) /\ "delete" \in Op \ {"status"}
    BY <1>3, <2>1 DEF DeleteProposal, LoadChange, Op
  <2>3. {} \in SUBSET Column /\ "delete" \in Op /\ Exists(p)
    BY <2>1, <2>2 DEF Exists, Status
  <2>4. PICK r \in Request : /\ req' = [req EXCEPT ![w] = r]
                             /\ r.op = "delete" /\ r.at = "loaded" /\ r.p = p /\ r.cols = {}
                             /\ r.j = None
    BY <2>1, <2>2, <2>3, LoadIs
  <2>5. Loads(r, p)
    BY <2>1, <2>2, <2>3, <2>4 DEF Loads, Decided
  <2>6. prop' = prop /\ proj' = proj /\ req[w] = Idle
    BY <2>2 DEF Load
  <2>7. QED
    BY <2>4, <2>5, <2>6
<1>4. ASSUME NEW p \in Proposal, NEW e \in Edit, UpdateProposal(w, p, e)
      PROVE  /\ prop' = prop /\ proj' = proj /\ req[w] = Idle
             /\ \E r \in Request : req' = [req EXCEPT ![w] = r] /\ Loads(r, p)
  <2> DEFINE cols == Given(e) \cup (IF Given(e) = {} THEN {} ELSE {"total"})
             new == Edited(prop[p], e)
  <2>1. prop[p] \in Row /\ prop[p].status = "draft" /\ Load(w, "update", p, cols, new)
    BY <1>4 DEF TypeOK, UpdateProposal, IsEditable
  <2>2. new \in Row /\ cols \in SUBSET Column /\ "status" \notin cols
    BY <2>1, FieldsType, EditedType DEF Column
  <2>3. "update" \in Op \ {"status"} /\ Exists(p)
    BY <2>1 DEF Op, Exists, Status
  <2> HIDE DEF cols, new
  <2>4. QED
    BY <2>1, <2>2, <2>3, LoadIs DEF Loads, Decided
<1>5. ASSUME NEW p \in Proposal, NEW e \in Edit, NEW past \in {prop[p].past, FALSE},
             ReviseProposal(w, p, e, past)
      PROVE  /\ prop' = prop /\ proj' = proj /\ req[w] = Idle
             /\ \E r \in Request : req' = [req EXCEPT ![w] = r] /\ Loads(r, p)
  <2>1. past \in BOOLEAN
    BY DEF TypeOK, Row
  <2>2. QED
    BY <1>5, <2>1, HoldRevisionIs
<1>6. ASSUME NEW j \in Project, NEW st \in ProjectStatus, SetProjectStatus(w, j, st)
      PROVE  /\ prop' = prop /\ proj' = proj /\ req[w] = Idle
             /\ \E r \in Request : req' = [req EXCEPT ![w] = r] /\ LoadsProject(r, j, st)
  <2> DEFINE opened == [Idle EXCEPT !.op = "status"]
             r == ProjectHeld(opened, j, st)
  <2>1. /\ opened.op = "status" /\ opened.p = None /\ opened.cols = {}
        /\ opened \in [op : Op, at : {"idle", "loaded"}, p : Proposal \cup {None},
                       cols : SUBSET Column, new : Row,
                       child : Row, j : Project \cup {None},
                       pcols : SUBSET {"status", "done"}, pnew : ProjectRow]
    BY IdleType DEF Op
  <2>2. proj[j] \in ProjectRow
    BY DEF TypeOK
  <2> HIDE DEF opened
  <2>3. r \in Request /\ r.op = "status" /\ r.p = None /\ r.cols = {} /\ ProjectDecided(r, j, st)
    BY <2>1, <2>2, ProjectHeldIs
  <2>4. /\ prop' = prop /\ proj' = proj /\ req[w] = Idle /\ ProjectExists(j)
        /\ req' = [req EXCEPT ![w] = r]
    BY <1>6 DEF SetProjectStatus, opened
  <2> HIDE DEF r
  <2>5. QED
    BY <2>3, <2>4 DEF LoadsProject
<1>7. CASE \E p \in Proposal : Begins(w, p)
  BY <1>2, <1>3, <1>4, <1>5, <1>7 DEF Begins
<1>8. CASE \E j \in Project, st \in ProjectStatus : SetProjectStatus(w, j, st)
  BY <1>6, <1>8
<1>9. QED
  BY <1>7, <1>8 DEF Begin, Begins

-------------------------------------------------------------------------------
(* The inductive invariant: whatever requests race *)

\* A row in the table has a project in the table; any other row holds nothing.
RowsWhole ==
    \A p \in Proposal :
        IF Exists(p) THEN prop[p].project \in Project /\ ProjectExists(prop[p].project)
                     ELSE prop[p].project = None /\ prop[p].prev = None

\* What stays true of a request and the row it loaded while other requests write the
\* row: it does not turn a row into a draft, and a revision it holds fits the row.
Promise(r, row) ==
    /\ "status" \in r.cols => r.new.status \in Status \ {"draft"}
    /\ r.op = "revise" =>
           /\ r.child.status = "draft" /\ r.child.prev = r.p
           /\ r.child.version = row.version + 1 /\ r.child.project = row.project
           /\ "status" \in r.cols \/ row.status # "draft"

\* A flushed request has locked its row, so that the row and its project stay.
HeldBy(r) ==
    /\ r.op \in Op \ {"status"} => r.p \in Proposal /\ prop[r.p].status # "absent"
    /\ r.op \in Op \ {"status"} /\ Exists(r.p) => Promise(r, prop[r.p])
    /\ r.j # None => r.at = "flushed" /\ r.pnew.status \in ProjectStatus
    /\ r.at = "flushed" =>
           IF r.op = "status" THEN r.p = None
           ELSE r.op \in WithProject /\ Exists(r.p) /\ r.j = prop[r.p].project

Held == \A w \in Worker : HeldBy(req[w])

RevInv == TypeOK /\ RowsWhole /\ RevisionTree /\ Held

(* What a step may do to the rows *)

\* No row comes back, and a row that stays keeps its version and its project and
\* does not become a draft again.
Evolves ==
    \A p \in Proposal :
        /\ prop'[p].status = "absent" => prop[p].status = "absent"
        /\ prop[p].status # "absent" /\ Exists(p)' =>
               /\ Exists(p) /\ prop'[p].version = prop[p].version
               /\ prop'[p].project = prop[p].project
               /\ prop'[p].status = "draft" => prop[p].status = "draft"

LockedStay == \A p \in Proposal : Exists(p) /\ Locked(p) => Exists(p)'

LEMMA HeldStays ==
    ASSUME RevInv, Evolves, LockedStay,
           \A w \in Worker : req'[w] \in {req[w], Idle}
    PROVE  Held'
<1> SUFFICES ASSUME NEW w \in Worker PROVE HeldBy(req[w])'
  BY DEF Held
<1>1. CASE req'[w] = Idle
  <2>1. /\ Idle.op \notin Op /\ Idle.j = None /\ Idle.at = "idle"
    BY DEF Idle, Op, WithProject
  <2>2. QED
    BY <1>1, <2>1 DEF HeldBy
<1>2. CASE req'[w] = req[w] /\ req[w] # Idle
  <2>0. PICK r \in Request : r = req[w]
    BY DEF RevInv, TypeOK
  <2>1. r.op \in Op /\ HeldBy(r)
    BY <1>2, <2>0 DEF RevInv, TypeOK, Held, Request
  <2>2. r.op # "status" => r.p \in Proposal /\ prop[r.p].status # "absent"
                           /\ prop'[r.p].status # "absent"
    BY <2>1 DEF HeldBy, Evolves
  <2>3. ASSUME r.op # "status", Exists(r.p)' PROVE Promise(r, prop'[r.p])
    <3>1. Exists(r.p) /\ Promise(r, prop[r.p])
      BY <2>1, <2>2, <2>3 DEF HeldBy, Evolves
    <3>2. /\ prop'[r.p].version = prop[r.p].version
          /\ prop'[r.p].project = prop[r.p].project
          /\ prop'[r.p].status = "draft" => prop[r.p].status = "draft"
      BY <2>2, <2>3 DEF Evolves
    <3>3. QED
      BY <3>1, <3>2 DEF Promise
  <2>4. ASSUME r.at = "flushed", r.op # "status"
        PROVE  r.op \in WithProject /\ Exists(r.p)' /\ r.j = prop'[r.p].project
    <3>1. Exists(r.p) /\ Locked(r.p)
      BY <2>0, <2>1, <2>4 DEF HeldBy, Locked
    <3>2. Exists(r.p)'
      BY <2>2, <2>4, <3>1 DEF LockedStay
    <3>3. QED
      BY <2>1, <2>2, <2>4, <3>2 DEF HeldBy, Evolves
  <2>5. HeldBy(r)'
    BY <1>2, <2>1, <2>2, <2>3, <2>4 DEF HeldBy, Exists
  <2>6. QED
    BY <1>2, <2>0, <2>5
<1>3. QED
  BY <1>1, <1>2

\* One row is written, and it is no draft unless it was one.
LEMMA RowWritten ==
    ASSUME RevInv, NEW p \in Proposal, Exists(p), NEW new \in Row,
           prop' = [prop EXCEPT ![p] = new], new.status \in Status,
           new.version = prop[p].version, new.project = prop[p].project,
           new.prev = prop[p].prev, new.status = "draft" => prop[p].status = "draft",
           \A j \in Project : proj[j].status \in ProjectStatus
                              => proj'[j].status \in ProjectStatus
    PROVE  RowsWhole' /\ RevisionTree' /\ Evolves /\ LockedStay
<1>1. \A q \in Proposal :
          /\ Exists(q)' <=> Exists(q)
          /\ prop'[q].version = prop[q].version /\ prop'[q].project = prop[q].project
          /\ prop'[q].prev = prop[q].prev
          /\ prop'[q].status = "draft" => prop[q].status = "draft"
          /\ prop'[q].status = "absent" => prop[q].status = "absent"
  BY DEF RevInv, TypeOK, Exists, Status
<1>2. RowsWhole'
  BY <1>1 DEF RevInv, RowsWhole, ProjectExists
<1>3. RevisionTree'
  <2> SUFFICES ASSUME NEW q \in Proposal, prop'[q].prev # None
               PROVE  /\ prop'[prop'[q].prev].status \in Status \ {"draft"}
                      /\ prop'[q].version = prop'[prop'[q].prev].version + 1
                      /\ prop'[q].project = prop'[prop'[q].prev].project
                      /\ proj'[prop'[q].project].status \in ProjectStatus
    BY DEF RevisionTree, ProjectExists
  <2>1. prop'[q].prev = prop[q].prev /\ prop[q].prev \in Proposal /\ Exists(q)
    BY <1>1 DEF RevInv, TypeOK, Row, RowsWhole
  <2>2. QED
    BY <1>1, <2>1 DEF RevInv, RevisionTree, RowsWhole, Exists, ProjectExists
<1>4. QED
  BY <1>1, <1>2, <1>3 DEF Evolves, LockedStay

\* A revision is inserted, and what it revises is written.
LEMMA RevisionInserted ==
    ASSUME RevInv, NEW p \in Proposal, Exists(p), NEW q \in Proposal,
           prop[q].status = "absent", NEW new \in Row, NEW child \in Row,
           prop' = [prop EXCEPT ![p] = new, ![q] = child], proj' = proj,
           new.status \in Status \ {"draft"}, new.version = prop[p].version,
           new.project = prop[p].project, new.prev = prop[p].prev,
           child.status = "draft", child.prev = p, child.version = new.version + 1,
           child.project = new.project
    PROVE  RowsWhole' /\ RevisionTree' /\ Evolves /\ LockedStay
<1>1. /\ p # q /\ prop'[p] = new /\ prop'[q] = child
      /\ \A s \in Proposal \ {p, q} : prop'[s] = prop[s]
  BY DEF RevInv, TypeOK, Exists, Status
<1>2. \A s \in Proposal \ {q} :
          /\ Exists(s)' <=> Exists(s)
          /\ prop'[s].version = prop[s].version /\ prop'[s].project = prop[s].project
          /\ prop'[s].prev = prop[s].prev
          /\ prop'[s].status \in Status \ {"draft"} \/ prop'[s].status = prop[s].status
  BY <1>1 DEF Exists
<1>3. Exists(q)' /\ child.project \in Project /\ ProjectExists(child.project)
  BY <1>1 DEF RevInv, RowsWhole, Exists, Status
<1>4. RowsWhole'
  BY <1>1, <1>2, <1>3 DEF RevInv, RowsWhole, ProjectExists
<1>5. RevisionTree'
  <2> SUFFICES ASSUME NEW s \in Proposal, prop'[s].prev # None
               PROVE  /\ prop'[prop'[s].prev].status \in Status \ {"draft"}
                      /\ prop'[s].version = prop'[prop'[s].prev].version + 1
                      /\ prop'[s].project = prop'[prop'[s].prev].project
                      /\ proj'[prop'[s].project].status \in ProjectStatus
    BY DEF RevisionTree, ProjectExists
  <2>1. CASE s = q
    BY <1>1, <2>1 DEF RevInv, RowsWhole, ProjectExists
  <2>2. CASE s # q
    <3>1. /\ prop'[s].prev = prop[s].prev /\ prop[s].prev \in Proposal
          /\ prop'[s].version = prop[s].version /\ prop'[s].project = prop[s].project
      BY <1>1, <2>2 DEF RevInv, TypeOK, Row
    <3>2. prop[prop[s].prev].status \in Status
      BY <3>1 DEF RevInv, RevisionTree, ProjectExists
    <3>3. prop[s].prev # q
      BY <3>2 DEF Status
    <3>4. PICK t \in Proposal \ {q} : t = prop[s].prev
      BY <3>1, <3>3
    <3>5. /\ prop[t].status \in Status \ {"draft"} /\ prop[s].version = prop[t].version + 1
          /\ prop[s].project = prop[t].project
          /\ proj[prop[s].project].status \in ProjectStatus
      BY <3>1, <3>4 DEF RevInv, RevisionTree, ProjectExists
    <3>6. /\ prop'[t].status \in Status \ {"draft"}
          /\ prop'[t].version = prop[t].version /\ prop'[t].project = prop[t].project
      BY <1>2, <3>4, <3>5
    <3>7. QED
      BY <3>1, <3>4, <3>5, <3>6
  <2>3. QED
    BY <2>1, <2>2
<1>6. Evolves /\ LockedStay
  BY <1>1 DEF Evolves, LockedStay, Exists, Status
<1>7. QED
  BY <1>4, <1>5, <1>6

\* Rows are deleted, none of them locked; the revisions of a deleted row lose it.
LEMMA RowsDropped ==
    ASSUME RevInv, NEW P \in SUBSET Proposal, prop' = Without(P),
           \A p \in P : Exists(p) /\ ~Locked(p),
           \A p \in Proposal \ P : Exists(p) => proj'[prop[p].project].status \in ProjectStatus
    PROVE  prop' \in [Proposal -> Row] /\ RowsWhole' /\ RevisionTree' /\ Evolves /\ LockedStay
<1>1. \A p \in P : prop'[p] = NoRow("deleted")
  BY DEF Without
<1>2. \A p \in Proposal \ P :
          /\ prop'[p] \in Row
          /\ prop'[p].prev = IF prop[p].prev \in P THEN None ELSE prop[p].prev
          /\ prop'[p].status = prop[p].status /\ prop'[p].version = prop[p].version
          /\ prop'[p].project = prop[p].project
  BY DEF Without, RevInv, TypeOK, Row
<1>3. /\ NoRow("deleted").status = "deleted" /\ NoRow("deleted").prev = None
      /\ NoRow("deleted").project = None
  BY DEF NoRow
<1>4. prop' \in [Proposal -> Row]
  BY <1>1, <1>2, NoRowType DEF Without
<1>5. /\ \A p \in P : ~Exists(p)'
      /\ \A p \in Proposal \ P : Exists(p)' <=> Exists(p)
  BY <1>1, <1>2, <1>3 DEF Exists, Status
<1>6. RowsWhole'
  BY <1>1, <1>2, <1>3, <1>5 DEF RevInv, RowsWhole, ProjectExists
<1>7. RevisionTree'
  <2> SUFFICES ASSUME NEW q \in Proposal, prop'[q].prev # None
               PROVE  /\ prop'[prop'[q].prev].status \in Status \ {"draft"}
                      /\ prop'[q].version = prop'[prop'[q].prev].version + 1
                      /\ prop'[q].project = prop'[prop'[q].prev].project
                      /\ proj'[prop'[q].project].status \in ProjectStatus
    BY DEF RevisionTree, ProjectExists
  <2>1. /\ q \notin P /\ prop'[q].prev = prop[q].prev /\ prop[q].prev \in Proposal \ P
    BY <1>1, <1>2, <1>3 DEF RevInv, TypeOK, Row
  <2>2. Exists(q)
    BY <2>1 DEF RevInv, RowsWhole
  <2>3. QED
    BY <1>2, <2>1, <2>2 DEF RevInv, RevisionTree, ProjectExists
<1>8. Evolves /\ LockedStay
  BY <1>1, <1>2, <1>3, <1>5 DEF Evolves, LockedStay
<1>9. QED
  BY <1>4, <1>6, <1>7, <1>8

\* A draft is inserted that revises nothing.
LEMMA DraftInserted ==
    ASSUME RevInv, NEW q \in Proposal, prop[q].status = "absent", NEW new \in Row,
           prop' = [prop EXCEPT ![q] = new], proj' = proj, new.status = "draft",
           new.prev = None, new.project \in Project, ProjectExists(new.project)
    PROVE  RowsWhole' /\ RevisionTree' /\ Evolves /\ LockedStay
<1>1. /\ prop'[q] = new /\ \A p \in Proposal \ {q} : prop'[p] = prop[p]
  BY DEF RevInv, TypeOK
<1>2. RowsWhole'
  BY <1>1 DEF RevInv, RowsWhole, Exists, ProjectExists, Status
<1>3. RevisionTree'
  <2> SUFFICES ASSUME NEW s \in Proposal, prop'[s].prev # None
               PROVE  /\ prop'[prop'[s].prev].status \in Status \ {"draft"}
                      /\ prop'[s].version = prop'[prop'[s].prev].version + 1
                      /\ prop'[s].project = prop'[prop'[s].prev].project
                      /\ proj'[prop'[s].project].status \in ProjectStatus
    BY DEF RevisionTree, ProjectExists
  <2>1. s # q /\ prop'[s] = prop[s] /\ prop[s].prev \in Proposal
    BY <1>1 DEF RevInv, TypeOK, Row
  <2>2. prop[prop[s].prev].status \in Status
    BY <2>1 DEF RevInv, RevisionTree, ProjectExists
  <2>3. prop[s].prev # q
    BY <2>2 DEF Status
  <2>4. QED
    BY <1>1, <2>1, <2>3 DEF RevInv, RevisionTree, ProjectExists
<1>4. Evolves /\ LockedStay
  BY <1>1 DEF Evolves, LockedStay, Exists, Status
<1>5. QED
  BY <1>2, <1>3, <1>4


(* Every step keeps it *)

LEMMA LoadsHolds ==
    ASSUME NEW r \in Request,
           \/ \E p \in Proposal : Loads(r, p)
           \/ \E j \in Project, st \in ProjectStatus : LoadsProject(r, j, st)
    PROVE  HeldBy(r)
<1>1. ASSUME NEW p \in Proposal, Loads(r, p) PROVE HeldBy(r)
  <2>1. Promise(r, prop[p])
    BY <1>1 DEF Loads, Decided, Promise, Writes, Open, Status
  <2>2. QED
    BY <1>1, <2>1 DEF Loads, HeldBy, Exists, Status
<1>2. ASSUME NEW j \in Project, NEW st \in ProjectStatus, LoadsProject(r, j, st)
      PROVE  HeldBy(r)
  BY <1>2 DEF LoadsProject, ProjectDecided, HeldBy
<1>3. QED
  BY <1>1, <1>2

\* A step that only writes what one request holds.
LEMMA HoldKeeps ==
    ASSUME RevInv, prop' = prop, proj' = proj, NEW w \in Worker, NEW r \in Request,
           req' = [req EXCEPT ![w] = r], HeldBy(r)
    PROVE  RevInv'
<1>1. TypeOK' /\ RowsWhole' /\ RevisionTree'
  BY DEF RevInv, TypeOK, RowsWhole, RevisionTree, Exists, ProjectExists
<1>2. \A v \in Worker : HeldBy(req'[v])
  BY DEF RevInv, Held, TypeOK
<1>3. Held'
  BY <1>2 DEF Held, HeldBy, Exists
<1>4. QED
  BY <1>1, <1>3 DEF RevInv

\* The end of a request, whatever it wrote.
LEMMA EndKeeps ==
    ASSUME RevInv, NEW w \in Worker, req' = [req EXCEPT ![w] = Idle] \/ req' = req,
           prop' \in [Proposal -> Row], proj' \in [Project -> ProjectRow],
           RowsWhole', RevisionTree', Evolves, LockedStay
    PROVE  RevInv'
<1>1. \A v \in Worker : req'[v] \in {req[v], Idle}
  BY DEF RevInv, TypeOK
<1>2. TypeOK'
  BY IdleType DEF RevInv, TypeOK
<1>3. QED
  BY <1>1, <1>2, HeldStays DEF RevInv

LEMMA BeginKeeps ==
    ASSUME RevInv, NEW w \in Worker, Begin(w)
    PROVE  RevInv'
<1>1. TypeOK
  BY DEF RevInv
<1>2. QED
  BY <1>1, BeginIs, LoadsHolds, HoldKeeps

\* The flush locks the row, and holds the change of the row's project.
LEMMA FlushIs ==
    ASSUME RevInv, NEW w \in Worker, FlushProposal(w)
    PROVE  LET st == IF req[w].op = "send" THEN "proposal_sent" ELSE "approved" IN
           /\ prop' = prop /\ proj' = proj
           /\ \E h \in Request :
                 /\ req' = [req EXCEPT ![w] = h] /\ HeldBy(h)
                 /\ h.op = req[w].op /\ h.p = req[w].p /\ h.cols = req[w].cols
                 /\ h.new = req[w].new /\ h.child = req[w].child
                 /\ req[w] # Idle /\ h.op \in WithProject
                 /\ prop[h.p].project \in Project /\ Exists(h.p)
                 /\ ProjectExists(prop[h.p].project)
                 /\ ProjectDecided(h, prop[h.p].project, st)
<1> DEFINE st == IF req[w].op = "send" THEN "proposal_sent" ELSE "approved"
<1>1. PICK r \in Request : r = req[w]
  BY DEF RevInv, TypeOK
<1>2. /\ r.op \in WithProject /\ r.at = "loaded" /\ Exists(r.p)
      /\ prop' = prop /\ proj' = proj
      /\ req' = [req EXCEPT ![w] = ProjectHeld(r, prop[r.p].project, st)]
  BY <1>1 DEF FlushProposal
<1>3. r # Idle /\ r.op \in Op \ {"status"} /\ HeldBy(r)
  BY <1>1, <1>2 DEF Idle, Op, WithProject, RevInv, Held
<1>4. r.p \in Proposal /\ prop[r.p].status # "absent" /\ Promise(r, prop[r.p])
  BY <1>2, <1>3 DEF HeldBy
<1>5. PICK j \in Project : j = prop[r.p].project /\ ProjectExists(j)
  BY <1>2, <1>4 DEF RevInv, RowsWhole
<1>6. proj[j] \in ProjectRow /\ st \in ProjectStatus
  BY DEF RevInv, TypeOK, ProjectStatus
<1>7. r \in [op : Op, at : {"idle", "loaded"}, p : Proposal \cup {None},
             cols : SUBSET Column, new : Row, child : Row,
             j : Project \cup {None}, pcols : SUBSET {"status", "done"},
             pnew : ProjectRow]
  BY <1>2, <1>3 DEF Request
<1> HIDE DEF st
<1> DEFINE h == ProjectHeld(r, j, st)
<1>8. /\ h \in Request /\ h.op = r.op /\ h.p = r.p /\ h.cols = r.cols
      /\ h.new = r.new /\ h.child = r.child /\ ProjectDecided(h, j, st)
  BY <1>6, <1>7, ProjectHeldIs
<1>9. req' = [req EXCEPT ![w] = h]
  BY <1>2, <1>5
<1> HIDE DEF h
<1>10. Promise(h, prop[h.p])
  BY <1>4, <1>8 DEF Promise
<1>11. HeldBy(h)
  BY <1>2, <1>3, <1>4, <1>5, <1>6, <1>8, <1>10 DEF HeldBy, ProjectDecided, WithProject
<1>12. QED
  BY <1>1, <1>2, <1>3, <1>5, <1>8, <1>9, <1>11 DEF st

\* What a commit does to the row that its request loaded, and to its project.
LEMMA CommitProposalIs ==
    ASSUME RevInv, NEW w \in Worker, CommitProposal(w)
    PROVE  LET r == req[w]
               new == Merge(prop[r.p], r.cols, r.new) IN
           /\ r \in Request /\ r.p \in Proposal /\ Exists(r.p) /\ new \in Row
           /\ r.op \in WithProject \cup {"update", "view", "reject"}
           /\ prop' = [prop EXCEPT ![r.p] = new]
           /\ req' = [req EXCEPT ![w] = Idle]
           /\ new.status \in Status
           /\ new.version = prop[r.p].version /\ new.project = prop[r.p].project
           /\ new.prev = prop[r.p].prev
           /\ new.status = "draft" => prop[r.p].status = "draft"
           /\ r.op \in WithProject =>
                  /\ r.j \in Project /\ r.j = prop[r.p].project /\ ProjectExists(r.j)
                  /\ proj' = [proj EXCEPT ![r.j] = MergeProject(proj[r.j], r)]
           /\ r.op \notin WithProject => proj' = proj
           /\ proj' \in [Project -> ProjectRow]
           /\ \A j \in Project : proj[j].status \in ProjectStatus
                                     => proj'[j].status \in ProjectStatus
<1>1. PICK r \in Request : r = req[w]
  BY DEF RevInv, TypeOK
<1> DEFINE new == Merge(prop[r.p], r.cols, r.new)
<1>2. /\ r.op \in WithProject \cup {"update", "view", "reject"} /\ Exists(r.p)
      /\ r.op \in WithProject => r.at = "flushed"
      /\ prop' = [prop EXCEPT ![r.p] = new]
      /\ proj' = IF r.j = None THEN proj ELSE [proj EXCEPT ![r.j] = MergeProject(@, r)]
      /\ req' = [req EXCEPT ![w] = Idle]
  BY <1>1 DEF CommitProposal, Writable
<1>3. r # Idle /\ r.op \in Op \ {"status"} /\ HeldBy(r)
  BY <1>1, <1>2 DEF Idle, Op, WithProject, RevInv, Held
<1>4. r.p \in Proposal /\ Promise(r, prop[r.p])
  BY <1>2, <1>3 DEF HeldBy
<1>5. prop[r.p] \in Row /\ r.new \in Row
  BY <1>3, <1>4 DEF RevInv, TypeOK, Request
<1>6. /\ new \in Row /\ new.version = prop[r.p].version /\ new.project = prop[r.p].project
      /\ new.prev = prop[r.p].prev
      /\ new.status = IF "status" \in r.cols THEN r.new.status ELSE prop[r.p].status
  BY <1>5, Merged
<1> HIDE DEF new
<1>7. new.status \in Status /\ (new.status = "draft" => prop[r.p].status = "draft")
  BY <1>2, <1>4, <1>6 DEF Promise, Exists
<1>8. r.op \in WithProject =>
          /\ r.j \in Project /\ r.j = prop[r.p].project /\ ProjectExists(r.j)
          /\ proj' = [proj EXCEPT ![r.j] = MergeProject(proj[r.j], r)]
  <2>1. SUFFICES ASSUME r.op \in WithProject
                 PROVE  r.j \in Project /\ r.j = prop[r.p].project /\ ProjectExists(r.j)
    BY <1>2, NoneAssumption
  <2>2. QED
    BY <1>2, <1>3, <1>4, <2>1 DEF HeldBy, RevInv, RowsWhole
<1>9. r.op \notin WithProject => proj' = proj
  BY <1>2, <1>3 DEF HeldBy, WithProject
<1>10. /\ proj' \in [Project -> ProjectRow]
       /\ \A j \in Project : proj[j].status \in ProjectStatus
                                     => proj'[j].status \in ProjectStatus
  <2>1. proj \in [Project -> ProjectRow]
    BY DEF RevInv, TypeOK
  <2>2. CASE r.op \in WithProject
    <3>1. r.j # None /\ proj[r.j] \in ProjectRow
      BY <1>8, <2>1, <2>2, NoneAssumption
    <3>2. r.pnew.status \in ProjectStatus
      BY <1>3, <3>1 DEF HeldBy
    <3>3. /\ MergeProject(proj[r.j], r) \in ProjectRow
          /\ MergeProject(proj[r.j], r).status \in {r.pnew.status, proj[r.j].status}
      BY <3>1, MergedProject DEF MergeProject
    <3>4. QED
      BY <1>8, <2>1, <2>2, <3>2, <3>3 DEF ProjectExists
  <2>3. CASE r.op \notin WithProject
    BY <1>9, <2>1, <2>3
  <2>4. QED
    BY <2>2, <2>3
<1>11. QED
  BY <1>1, <1>2, <1>4, <1>6, <1>7, <1>8, <1>9, <1>10 DEF new

LEMMA CommitRevisionIs ==
    ASSUME RevInv, NEW w \in Worker, NEW q \in Proposal, CommitRevision(w, q)
    PROVE  LET r == req[w]
               new == Merge(prop[r.p], r.cols, r.new) IN
           /\ r \in Request /\ r.op = "revise" /\ r.p \in Proposal /\ Exists(r.p)
           /\ prop[q].status = "absent" /\ new \in Row /\ r.child \in Row
           /\ prop' = [prop EXCEPT ![r.p] = new, ![q] = r.child] /\ proj' = proj
           /\ req' = [req EXCEPT ![w] = Idle]
           /\ new.status = IF "status" \in r.cols THEN r.new.status ELSE prop[r.p].status
           /\ new.status \in Status \ {"draft"}
           /\ new.version = prop[r.p].version /\ new.project = prop[r.p].project
           /\ new.prev = prop[r.p].prev
           /\ r.child.status = "draft" /\ r.child.prev = r.p
           /\ r.child.version = new.version + 1 /\ r.child.project = new.project
<1>1. PICK r \in Request : r = req[w]
  BY DEF RevInv, TypeOK
<1> DEFINE new == Merge(prop[r.p], r.cols, r.new)
<1>2. /\ r.op = "revise" /\ Exists(r.p) /\ prop[q].status = "absent"
      /\ prop' = [prop EXCEPT ![r.p] = new, ![q] = r.child] /\ proj' = proj
      /\ req' = [req EXCEPT ![w] = Idle]
  BY <1>1 DEF CommitRevision, Writable
<1>3. r # Idle /\ r.op \in Op \ {"status"} /\ HeldBy(r)
  BY <1>1, <1>2 DEF Idle, Op, WithProject, RevInv, Held
<1>4. r.p \in Proposal /\ Promise(r, prop[r.p])
  BY <1>2, <1>3 DEF HeldBy
<1>5. prop[r.p] \in Row /\ r.new \in Row /\ r.child \in Row
  BY <1>3, <1>4 DEF RevInv, TypeOK, Request
<1>6. /\ new \in Row /\ new.version = prop[r.p].version /\ new.project = prop[r.p].project
      /\ new.prev = prop[r.p].prev
      /\ new.status = IF "status" \in r.cols THEN r.new.status ELSE prop[r.p].status
  BY <1>5, Merged
<1> HIDE DEF new
<1>7. new.status \in Status \ {"draft"}
  BY <1>2, <1>4, <1>6 DEF Promise, Exists
<1>8. QED
  BY <1>1, <1>2, <1>4, <1>5, <1>6, <1>7 DEF new, Promise


LEMMA CommitKeeps ==
    ASSUME RevInv, NEW w \in Worker,
           CommitProposal(w) \/ \E q \in Proposal : CommitRevision(w, q)
    PROVE  RevInv'
<1>1. CASE CommitProposal(w)
  <2>1. RowsWhole' /\ RevisionTree' /\ Evolves /\ LockedStay
    BY <1>1, CommitProposalIs, RowWritten
  <2>2. prop' \in [Proposal -> Row] /\ proj' \in [Project -> ProjectRow]
    BY <1>1, CommitProposalIs DEF RevInv, TypeOK
  <2>3. req' = [req EXCEPT ![w] = Idle]
    BY <1>1, CommitProposalIs
  <2>4. QED
    BY <2>1, <2>2, <2>3, EndKeeps
<1>2. ASSUME NEW q \in Proposal, CommitRevision(w, q) PROVE RevInv'
  <2>1. RowsWhole' /\ RevisionTree' /\ Evolves /\ LockedStay
    BY <1>2, CommitRevisionIs, RevisionInserted
  <2>2. prop' \in [Proposal -> Row] /\ proj' \in [Project -> ProjectRow]
    BY <1>2, CommitRevisionIs DEF RevInv, TypeOK
  <2>3. req' = [req EXCEPT ![w] = Idle]
    BY <1>2, CommitRevisionIs
  <2>4. QED
    BY <2>1, <2>2, <2>3, EndKeeps
<1>3. QED
  BY <1>1, <1>2

LEMMA CommitDeleteIs ==
    ASSUME RevInv, NEW w \in Worker, CommitDelete(w)
    PROVE  /\ req[w] \in Request /\ req[w].op = "delete" /\ req[w].p \in Proposal
           /\ Exists(req[w].p) /\ ~Locked(req[w].p)
           /\ prop' = Without({req[w].p}) /\ proj' = proj
           /\ req' = [req EXCEPT ![w] = Idle]
<1>1. PICK r \in Request : r = req[w]
  BY DEF RevInv, TypeOK
<1>2. /\ r.op = "delete" /\ Exists(r.p) /\ ~Locked(r.p)
      /\ prop' = Without({r.p}) /\ proj' = proj /\ req' = [req EXCEPT ![w] = Idle]
  BY <1>1 DEF CommitDelete, Writable, WithProject
<1>3. r.op \in Op \ {"status"} /\ HeldBy(r)
  BY <1>1, <1>2 DEF Op, RevInv, Held
<1>4. QED
  BY <1>1, <1>2, <1>3 DEF HeldBy

LEMMA CommitStatusIs ==
    ASSUME RevInv, NEW w \in Worker, CommitStatus(w)
    PROVE  LET r == req[w] IN
           /\ r \in Request /\ r.op = "status" /\ prop' = prop
           /\ req' = [req EXCEPT ![w] = Idle] /\ ProjectExists(r.j)
           /\ proj' = [proj EXCEPT ![r.j] = MergeProject(proj[r.j], r)]
           /\ proj' \in [Project -> ProjectRow]
           /\ \A j \in Project : proj[j].status \in ProjectStatus
                                     => proj'[j].status \in ProjectStatus
<1>1. PICK r \in Request : r = req[w]
  BY DEF RevInv, TypeOK
<1>2. /\ r.op = "status" /\ prop' = prop /\ req' = [req EXCEPT ![w] = Idle]
      /\ ProjectExists(r.j)
      /\ proj' = [proj EXCEPT ![r.j] = MergeProject(proj[r.j], r)]
  BY <1>1 DEF CommitStatus
<1>3. proj \in [Project -> ProjectRow] /\ HeldBy(r)
  BY <1>1 DEF RevInv, TypeOK, Held
<1>4. CASE r.j \in Project
  <2>1. r.j # None /\ proj[r.j] \in ProjectRow
    BY <1>3, <1>4, NoneAssumption
  <2>2. r.pnew.status \in ProjectStatus
    BY <1>3, <2>1 DEF HeldBy
  <2>3. /\ MergeProject(proj[r.j], r) \in ProjectRow
        /\ MergeProject(proj[r.j], r).status \in {r.pnew.status, proj[r.j].status}
    BY <2>1, MergedProject DEF MergeProject
  <2>4. QED
    BY <1>1, <1>2, <1>3, <1>4, <2>2, <2>3 DEF ProjectExists
<1>5. CASE r.j \notin Project
  <2>1. proj' = proj
    BY <1>2, <1>3, <1>5
  <2>2. QED
    BY <1>1, <1>2, <1>3, <2>1
<1>6. QED
  BY <1>4, <1>5

\* A step that leaves the proposals alone, and every project where it is.
LEMMA ProjectsKeep ==
    ASSUME RevInv, prop' = prop, NEW w \in Worker,
           req' = [req EXCEPT ![w] = Idle] \/ req' = req, proj' \in [Project -> ProjectRow],
           \A j \in Project : proj[j].status \in ProjectStatus
                                 => proj'[j].status \in ProjectStatus
    PROVE  RevInv'
<1>1. RowsWhole'
  BY DEF RevInv, RowsWhole, Exists, ProjectExists
<1>2. RevisionTree'
  <2>1. \A q \in Proposal : prop[q].prev # None => prop[q].project \in Project
    BY DEF RevInv, RowsWhole
  <2>2. QED
    BY <2>1 DEF RevInv, RevisionTree, ProjectExists
<1>3. Evolves /\ LockedStay
  BY DEF Evolves, LockedStay, Exists
<1>4. prop' \in [Proposal -> Row]
  BY DEF RevInv, TypeOK
<1>5. QED
  BY <1>1, <1>2, <1>3, <1>4, EndKeeps

LEMMA FinishKeeps ==
    ASSUME RevInv, NEW w \in Worker, Finish(w)
    PROVE  RevInv'
<1>1. CASE FlushProposal(w)
  BY <1>1, FlushIs, HoldKeeps
<1>2. CASE CommitDelete(w)
  <2> DEFINE P == {req[w].p}
  <2>1. /\ P \in SUBSET Proposal /\ prop' = Without(P) /\ proj' = proj
        /\ \A p \in P : Exists(p) /\ ~Locked(p)
        /\ req' = [req EXCEPT ![w] = Idle]
    BY <1>2, CommitDeleteIs
  <2>2. \A p \in Proposal \ P : Exists(p) => proj'[prop[p].project].status \in ProjectStatus
    BY <2>1 DEF RevInv, RowsWhole, ProjectExists
  <2> HIDE DEF P
  <2>3. prop' \in [Proposal -> Row] /\ RowsWhole' /\ RevisionTree' /\ Evolves /\ LockedStay
    BY <2>1, <2>2, RowsDropped
  <2>4. proj' \in [Project -> ProjectRow]
    BY <2>1 DEF RevInv, TypeOK
  <2>5. QED
    BY <2>1, <2>3, <2>4, EndKeeps
<1>3. CASE CommitStatus(w)
  BY <1>3, CommitStatusIs, ProjectsKeep
<1>4. CASE Abort(w)
  <2>1. HeldBy(Idle)
    BY DEF HeldBy, Idle, Op, WithProject
  <2>2. QED
    BY <1>4, <2>1, IdleType, HoldKeeps DEF Abort
<1>5. QED
  BY <1>1, <1>2, <1>3, <1>4, CommitKeeps DEF Finish

\* The row a proposal is created with.
NewDraft(j, s, d, t) ==
    [NoRow("draft") EXCEPT !.project = j, !.version = 1, !.items = s, !.disc = d,
                           !.tax = t, !.total = Total(s, d, t)]

LEMMA NewDraftType ==
    ASSUME NEW j \in Project, NEW s \in Subtotal, NEW d \in Percent, NEW t \in Percent
    PROVE  LET new == NewDraft(j, s, d, t) IN
           /\ new \in Row /\ new.status = "draft" /\ new.prev = None /\ new.project = j
<1>1. Total(s, d, t) \in Nat
  BY Numbers, TotalType
<1>2. NoRow("draft") \in Row /\ NoRow("draft").status = "draft" /\ NoRow("draft").prev = None
  BY Numbers DEF NoRow, Row, Status
<1>3. QED
  BY <1>1, <1>2 DEF NewDraft, Row

\* The requests of one step.
Single ==
    \/ \E j \in Project : CreateProject(j) \/ DeleteProject(j)
    \/ \E p \in Proposal : ValidityPasses(p)
    \/ \E q \in Proposal, j \in Project, s \in Subtotal, d, t \in Percent :
         CreateProposal(q, j, s, d, t)

LEMMA SingleKeeps ==
    ASSUME RevInv, Single
    PROVE  RevInv'
<1>1. prop \in [Proposal -> Row] /\ proj \in [Project -> ProjectRow]
  BY DEF RevInv, TypeOK
<1> DEFINE Whole == RowsWhole' /\ RevisionTree' /\ Evolves /\ LockedStay
<1>2. ASSUME req' = req, prop' \in [Proposal -> Row], proj' \in [Project -> ProjectRow], Whole
      PROVE  RevInv'
  <2>1. TypeOK'
    BY <1>2 DEF RevInv, TypeOK
  <2>2. \A w \in Worker : req'[w] \in {req[w], Idle}
    BY <1>2
  <2>3. QED
    BY <1>2, <2>1, <2>2, HeldStays DEF RevInv
<1>3. ASSUME NEW j \in Project, CreateProject(j) PROVE RevInv'
  <2>1. /\ proj' = [proj EXCEPT ![j] = [proj[j] EXCEPT !.status = "draft"]]
        /\ prop' = prop /\ req' = req
    BY <1>1, <1>3 DEF CreateProject
  <2>2. /\ proj' \in [Project -> ProjectRow]
        /\ \A i \in Project : proj[i].status \in ProjectStatus
                                 => proj'[i].status \in ProjectStatus
    BY <1>1, <2>1 DEF ProjectRow, ProjectStatus
  <2>3. RowsWhole'
    BY <2>1, <2>2 DEF RevInv, RowsWhole, Exists, ProjectExists
  <2>4. RevisionTree'
    <3>1. \A q \in Proposal : prop[q].prev # None => prop[q].project \in Project
      BY DEF RevInv, RowsWhole
    <3>2. QED
      BY <2>1, <2>2, <3>1 DEF RevInv, RevisionTree, ProjectExists
  <2>5. Evolves /\ LockedStay
    BY <2>1 DEF Evolves, LockedStay, Exists
  <2>6. QED
    BY <1>1, <1>2, <2>1, <2>2, <2>3, <2>4, <2>5
<1>4. ASSUME NEW j \in Project, DeleteProject(j) PROVE RevInv'
  <2> DEFINE P == {q \in Proposal : prop[q].project = j}
  <2>1. /\ prop' = Without(P) /\ proj' = [proj EXCEPT ![j] = NoProject("deleted")]
        /\ req' = req /\ \A q \in P : ~Locked(q)
    BY <1>4 DEF DeleteProject
  <2>2. \A q \in P : Exists(q)
    BY NoneAssumption DEF RevInv, RowsWhole
  <2>3. \A q \in Proposal \ P : Exists(q) => proj'[prop[q].project].status \in ProjectStatus
    BY <1>1, <2>1 DEF RevInv, RowsWhole, ProjectExists
  <2>4. P \in SUBSET Proposal
    OBVIOUS
  <2>5. proj' \in [Project -> ProjectRow]
    BY <1>1, <2>1 DEF NoProject, ProjectRow
  <2> HIDE DEF P
  <2>6. prop' \in [Proposal -> Row] /\ Whole
    BY <2>1, <2>2, <2>3, <2>4, RowsDropped
  <2>7. QED
    BY <1>2, <2>1, <2>5, <2>6
<1>5. ASSUME NEW p \in Proposal, ValidityPasses(p) PROVE RevInv'
  <2> DEFINE new == [prop[p] EXCEPT !.past = TRUE]
  <2>1. prop' = [prop EXCEPT ![p] = new] /\ proj' = proj /\ req' = req /\ Exists(p)
    BY <1>1, <1>5 DEF ValidityPasses
  <2>2. /\ new \in Row /\ new.status = prop[p].status /\ new.version = prop[p].version
        /\ new.project = prop[p].project /\ new.prev = prop[p].prev
    BY <1>1 DEF Row
  <2> HIDE DEF new
  <2>3. new.status \in Status /\ (new.status = "draft" => prop[p].status = "draft")
    BY <2>1, <2>2 DEF Exists
  <2>4. Whole
    BY <2>1, <2>2, <2>3, RowWritten
  <2>5. QED
    BY <1>1, <1>2, <2>1, <2>2, <2>4
<1>6. ASSUME NEW p \in Proposal, NEW j \in Project, NEW s \in Subtotal, NEW d \in Percent,
             NEW t \in Percent, CreateProposal(p, j, s, d, t)
      PROVE  RevInv'
  <2>1. /\ prop[p].status = "absent" /\ ProjectExists(j) /\ proj' = proj /\ req' = req
        /\ prop' = [prop EXCEPT ![p] = NewDraft(j, s, d, t)]
    BY <1>6 DEF CreateProposal, NewDraft
  <2>2. PICK new \in Row : /\ new = NewDraft(j, s, d, t) /\ new.status = "draft"
                           /\ new.prev = None /\ new.project = j
    BY NewDraftType
  <2>3. Whole
    BY <2>1, <2>2, DraftInserted
  <2>4. QED
    BY <1>1, <1>2, <2>1, <2>2, <2>3
<1>7. QED
  BY <1>3, <1>4, <1>5, <1>6 DEF Single

LEMMA RevStep == RevInv /\ [Next]_vars => RevInv'
<1>1. ASSUME RevInv, UNCHANGED vars PROVE RevInv'
  BY <1>1 DEF vars, RevInv, TypeOK, RowsWhole, RevisionTree, Held, HeldBy, Exists,
              ProjectExists
<1>2. QED
  BY <1>1, BeginKeeps, FinishKeeps, SingleKeeps DEF Next, Single

LEMMA RevInit == Init => RevInv
<1> SUFFICES ASSUME Init PROVE RevInv
  OBVIOUS
<1>1. NoProject("absent") \in ProjectRow
  BY DEF NoProject, ProjectRow
<1>2. TypeOK
  BY <1>1, NoRowType, IdleType DEF Init, TypeOK
<1>3. \A p \in Proposal : /\ ~Exists(p) /\ prop[p].project = None /\ prop[p].prev = None
  BY DEF Init, Exists, NoRow, Status
<1>4. RowsWhole /\ RevisionTree
  BY <1>3 DEF RowsWhole, RevisionTree
<1>5. HeldBy(Idle)
  BY DEF HeldBy, Idle, Op, WithProject
<1>6. Held
  BY <1>5 DEF Held, Init
<1>7. QED
  BY <1>2, <1>4, <1>6 DEF RevInv

LEMMA RevInvariance == Spec => []RevInv
BY RevInit, RevStep, PTL DEF Spec

\* Every variable has its type.
THEOREM TypeCorrect == Spec => []TypeOK
<1>1. RevInv => TypeOK
  BY DEF RevInv
<1>2. QED
  BY <1>1, RevInvariance, PTL

\* For any proposals and any requests that race: a revision carries the next version
\* number of what it revises, on the same project, which is there, and what it
\* revises is no draft (revise_proposal, against every other writer of the row).
THEOREM RevisionsFormATree == Spec => []RevisionTree
<1>1. RevInv => RevisionTree
  BY DEF RevInv
<1>2. QED
  BY <1>1, RevInvariance, PTL

-------------------------------------------------------------------------------
(* One request at a time *)

OneRequest == \A v, w \in Worker : req[v] # Idle /\ req[w] # Idle => v = w

\* What a request decided on the row it loaded is still right, as long as the row is
\* there: only its validity may have passed.
DecidedStill ==
    \A w \in Worker : LET r == req[w] IN
        r.op \in Op \ {"status"} /\ Exists(r.p) => Decided(r, prop[r.p])

StageOf(op, st) ==
    (op = "send" => st = "proposal_sent") /\ (op = "approve" => st = "approved")

\* ... and so is the change of the project, as long as the project is there.
ProjectStill ==
    \A w \in Worker : LET r == req[w] IN
        r.j \in Project =>
            /\ proj[r.j].status # "absent"
            /\ ProjectExists(r.j) => \E st \in ProjectStatus :
                                        ProjectDecided(r, r.j, st) /\ StageOf(r.op, st)

\* A project that is not there has no completion date.
GoneHasNoDate == \A j \in Project : ~ProjectExists(j) => ~proj[j].done

Unraced ==
    /\ OneRequest /\ DecidedStill /\ ProjectStill
    /\ SupersededMarked /\ CompletedHasDate /\ GoneHasNoDate

UnracedInv == RevInv /\ (raced \/ Unraced)

LEMMA DecidedSame ==
    ASSUME NEW r, NEW row, NEW other, Decided(r, row), other.status = row.status,
           other.version = row.version, other.project = row.project
    PROVE  Decided(r, other)
BY DEF Decided, Writes

LEMMA IdleIs ==
    Idle.op \notin Op /\ Idle.j = None /\ Idle.at = "idle"
BY DEF Idle, Op, WithProject

\* The only request in progress ends: nothing is held any more.
LEMMA LastEnds ==
    ASSUME TypeOK, OneRequest, NEW w \in Worker, req[w] # Idle,
           req' = [req EXCEPT ![w] = Idle]
    PROVE  OneRequest' /\ DecidedStill' /\ ProjectStill'
<1>1. \A v \in Worker : req'[v] = Idle
  BY DEF TypeOK, OneRequest
<1>2. QED
  BY <1>1, IdleIs, NoneAssumption DEF OneRequest, DecidedStill, ProjectStill

\* A step of one request leaves what was decided alone.
LEMMA StillDecided ==
    ASSUME RevInv, Unraced, req' = req,
           \A p \in Proposal : prop[p].status # "absent" /\ Exists(p)' =>
               /\ Exists(p) /\ prop'[p].status = prop[p].status
               /\ prop'[p].version = prop[p].version /\ prop'[p].project = prop[p].project,
           \A j \in Project : proj[j].status # "absent" =>
               /\ proj'[j].status # "absent"
               /\ ProjectExists(j)' => proj'[j] = proj[j]
    PROVE  OneRequest' /\ DecidedStill' /\ ProjectStill'
<1>1. OneRequest'
  BY DEF Unraced, OneRequest
<1>2. ASSUME NEW w \in Worker, NEW r \in Request, r = req[w], r.op \in Op \ {"status"},
             Exists(r.p)'
      PROVE  Decided(r, prop'[r.p])
  <2>1. r.p \in Proposal /\ prop[r.p].status # "absent"
    BY <1>2 DEF RevInv, Held, HeldBy
  <2>2. Exists(r.p) /\ Decided(r, prop[r.p])
    BY <1>2, <2>1 DEF Unraced, DecidedStill
  <2>3. QED
    BY <1>2, <2>1, <2>2, DecidedSame
<1>3. DecidedStill'
  BY <1>2 DEF DecidedStill, RevInv, TypeOK, Exists
<1>4. ASSUME NEW w \in Worker, NEW r \in Request, r = req[w], r.j \in Project
      PROVE  /\ proj'[r.j].status # "absent"
             /\ ProjectExists(r.j)' => \E st \in ProjectStatus :
                    ProjectDecided(r, r.j, st)' /\ StageOf(r.op, st)
  <2>1. proj[r.j].status # "absent"
    BY <1>4 DEF Unraced, ProjectStill
  <2>2. ASSUME ProjectExists(r.j)'
        PROVE  \E st \in ProjectStatus : ProjectDecided(r, r.j, st)' /\ StageOf(r.op, st)
    <3>1. proj'[r.j] = proj[r.j] /\ ProjectExists(r.j)
      BY <1>4, <2>1, <2>2 DEF ProjectExists
    <3>2. PICK st \in ProjectStatus : ProjectDecided(r, r.j, st) /\ StageOf(r.op, st)
      BY <1>4, <3>1 DEF Unraced, ProjectStill
    <3>3. ProjectDecided(r, r.j, st)'
      BY <3>1, <3>2 DEF ProjectDecided
    <3>4. QED
      BY <3>2, <3>3
  <2>3. QED
    BY <1>4, <2>1, <2>2
<1>5. ProjectStill'
  <2>1. SUFFICES ASSUME NEW w \in Worker, req'[w].j \in Project
                 PROVE  LET r == req'[w] IN
                        /\ proj'[r.j].status # "absent"
                        /\ proj'[r.j].status \in ProjectStatus => \E st \in ProjectStatus :
                              /\ r.at = "flushed" /\ r.pnew.status = st
                              /\ r.pnew.done <=> st = "completed"
                              /\ MergeProject(proj'[r.j], r) = r.pnew
                              /\ StageOf(r.op, st)
    BY DEF ProjectStill, ProjectExists, ProjectDecided
  <2>2. PICK r \in Request : r = req[w]
    BY DEF RevInv, TypeOK
  <2>3. QED
    BY <1>4, <2>1, <2>2 DEF ProjectExists, ProjectDecided
<1>6. QED
  BY <1>1, <1>3, <1>5


(* The documented workflow, over the rows *)

StatusOf == [p \in Proposal |-> IF Exists(p) THEN prop[p].status ELSE "absent"]
ProjectOf == [p \in Proposal |-> prop[p].project]
StageMap == [j \in Project |-> IF ProjectExists(j) THEN proj[j].status ELSE "absent"]

LEMMA MappedVars ==
    UNCHANGED <<StatusOf, ProjectOf, StageMap>> <=> UNCHANGED Workflow!vars
BY DEF Workflow!vars, StatusOf, ProjectOf, StageMap

\* A step of one proposal, or of one project, is a step of the workflow.
LEMMA OneProposalSteps ==
    ASSUME NEW p \in Proposal,
           \/ Workflow!Draft(p) \/ Workflow!Discard(p) \/ Workflow!Send(p)
           \/ Workflow!View(p) \/ Workflow!Approve(p) \/ Workflow!Reject(p)
           \/ \E q \in Proposal : Workflow!Revise(p, q)
    PROVE  Workflow!Next
BY DEF Workflow!Next

LEMMA OneProjectSteps ==
    ASSUME NEW j \in Project,
           Workflow!Drop(j) \/ \E st \in ProjectStatus : Workflow!SetStage(j, st)
    PROVE  Workflow!Next
BY DEF Workflow!Next

\* A write of one row moves one proposal; a write of one project, its stage.
LEMMA MappedRow ==
    ASSUME prop \in [Proposal -> Row], NEW p \in Proposal, Exists(p), NEW new \in Row,
           prop' = [prop EXCEPT ![p] = new], new.status \in Status,
           new.project = prop[p].project
    PROVE  /\ StatusOf[p] = prop[p].status /\ ProjectOf[p] = prop[p].project
           /\ StatusOf' = [StatusOf EXCEPT ![p] = new.status]
           /\ ProjectOf' = ProjectOf
BY DEF StatusOf, ProjectOf, Exists

LEMMA MappedProject ==
    ASSUME proj \in [Project -> ProjectRow], NEW j \in Project, NEW new \in ProjectRow,
           proj' = [proj EXCEPT ![j] = new]
    PROVE  StageMap' = [StageMap EXCEPT ![j] = IF new.status \in ProjectStatus
                                               THEN new.status ELSE "absent"]
BY DEF StageMap, ProjectExists

LEMMA SameRows ==
    /\ prop' = prop => UNCHANGED <<StatusOf, ProjectOf>>
    /\ proj' = proj => UNCHANGED StageMap
BY DEF StatusOf, ProjectOf, StageMap, Exists, ProjectExists

\* What a request that holds a change of a project makes of it.
LEMMA ProjectCommitted ==
    ASSUME RevInv, Unraced, NEW w \in Worker, NEW r \in Request, r = req[w],
           r.j \in Project, ProjectExists(r.j),
           proj' = [proj EXCEPT ![r.j] = MergeProject(proj[r.j], r)]
    PROVE  /\ \E st \in ProjectStatus :
                  StageMap' = [StageMap EXCEPT ![r.j] = st] /\ StageOf(r.op, st)
           /\ CompletedHasDate' /\ GoneHasNoDate'
<1>1. PICK st \in ProjectStatus : ProjectDecided(r, r.j, st) /\ StageOf(r.op, st)
  BY DEF Unraced, ProjectStill
<1>2. /\ proj' = [proj EXCEPT ![r.j] = r.pnew] /\ r.pnew.status = st
      /\ r.pnew.done <=> st = "completed"
  BY <1>1 DEF ProjectDecided
<1>3. proj \in [Project -> ProjectRow] /\ r.pnew \in ProjectRow
  <2>1. proj \in [Project -> ProjectRow] /\ MergeProject(proj[r.j], r) \in ProjectRow
    BY MergedProject DEF RevInv, TypeOK
  <2>2. QED
    BY <1>1, <2>1 DEF ProjectDecided
<1>4. StageMap' = [StageMap EXCEPT ![r.j] = st]
  BY <1>2, <1>3, MappedProject
<1>5. CompletedHasDate' /\ GoneHasNoDate'
  BY <1>2, <1>3 DEF Unraced, CompletedHasDate, GoneHasNoDate, ProjectExists
<1>6. QED
  BY <1>1, <1>4, <1>5

\* Every commit is one step of the workflow.
LEMMA CommitFollows ==
    ASSUME RevInv, Unraced, NEW w \in Worker, CommitProposal(w)
    PROVE  Unraced' /\ [Workflow!Next]_(Workflow!vars)
<1>1. PICK r \in Request : r = req[w]
  BY DEF RevInv, TypeOK
<1>2. PICK p \in Proposal : p = r.p
  BY <1>1, CommitProposalIs
<1> DEFINE new == Merge(prop[p], r.cols, r.new)
<1>3. /\ Exists(p) /\ new \in Row /\ r.op \in WithProject \cup {"update", "view", "reject"}
      /\ prop' = [prop EXCEPT ![p] = new] /\ req' = [req EXCEPT ![w] = Idle]
      /\ new.status \in Status /\ new.project = prop[p].project
      /\ new.prev = prop[p].prev
  BY <1>1, <1>2, CommitProposalIs
<1>4. /\ r.op \in WithProject =>
             /\ r.j \in Project /\ r.j = prop[p].project /\ ProjectExists(r.j)
             /\ proj' = [proj EXCEPT ![r.j] = MergeProject(proj[r.j], r)]
      /\ r.op \notin WithProject => proj' = proj
  BY <1>1, <1>2, CommitProposalIs
<1>5. /\ r # Idle /\ r.op \in Op \ {"status"} /\ Decided(r, prop[p])
      /\ prop \in [Proposal -> Row] /\ proj \in [Project -> ProjectRow]
  BY <1>1, <1>2, <1>3, IdleIs DEF Op, WithProject, Unraced, DecidedStill, RevInv, TypeOK
<1>6. new.status = IF "status" \in r.cols THEN r.new.status ELSE prop[p].status
  <2>1. prop[p] \in Row /\ r.new \in Row
    BY <1>5 DEF Request
  <2>2. QED
    BY <2>1, Merged
<1> HIDE DEF new
<1>7. OneRequest' /\ DecidedStill' /\ ProjectStill'
  BY <1>1, <1>3, <1>5, LastEnds DEF Unraced, RevInv
<1>8. prop[p].status # "revised"
  BY <1>3, <1>5 DEF Decided, Open, WithProject
<1>9. SupersededMarked'
  <2>1. SUFFICES ASSUME NEW q \in Proposal, prop'[q].prev # None
                 PROVE  prop'[prop'[q].prev].status = "revised"
    BY DEF SupersededMarked
  <2>2. prop'[q].prev = prop[q].prev
    BY <1>3, <1>5
  <2>3. prop[prop[q].prev].status = "revised" /\ prop[q].prev # p
    BY <1>8, <2>1, <2>2 DEF Unraced, SupersededMarked
  <2>4. QED
    BY <1>3, <2>2, <2>3
<1>10. /\ StatusOf[p] = prop[p].status /\ ProjectOf[p] = prop[p].project
       /\ StatusOf' = [StatusOf EXCEPT ![p] = new.status] /\ ProjectOf' = ProjectOf
  BY <1>3, <1>5, MappedRow
<1>11. CASE r.op \in WithProject
  <2>1. PICK st \in ProjectStatus : /\ StageMap' = [StageMap EXCEPT ![r.j] = st]
                                    /\ StageOf(r.op, st)
    BY <1>1, <1>4, <1>11, ProjectCommitted
  <2>2. CompletedHasDate' /\ GoneHasNoDate'
    BY <1>1, <1>4, <1>11, ProjectCommitted
  <2>3. CASE r.op = "send"
    <3>1. prop[p].status = "draft" /\ new.status = "sent" /\ st = "proposal_sent"
      BY <1>5, <1>6, <2>1, <2>3 DEF Decided, Writes, StageOf
    <3>2. /\ StatusOf[p] = "draft" /\ StatusOf' = [StatusOf EXCEPT ![p] = "sent"]
          /\ ProjectOf' = ProjectOf
          /\ StageMap' = [StageMap EXCEPT ![ProjectOf[p]] = "proposal_sent"]
      BY <1>4, <1>10, <1>11, <2>1, <3>1
    <3>3. Workflow!Send(p)
      BY <3>2 DEF Workflow!Send, Workflow!Move, StatusOf, ProjectOf, StageMap
    <3>4. QED
      BY <1>7, <1>9, <2>2, <3>3, OneProposalSteps DEF Unraced
  <2>4. CASE r.op = "approve"
    <3>1. prop[p].status \in Open /\ new.status = "approved" /\ st = "approved"
      BY <1>5, <1>6, <2>1, <2>4 DEF Decided, Writes, StageOf, Open
    <3>2. /\ StatusOf[p] \in {"sent", "viewed"}
          /\ StatusOf' = [StatusOf EXCEPT ![p] = "approved"] /\ ProjectOf' = ProjectOf
          /\ StageMap' = [StageMap EXCEPT ![ProjectOf[p]] = "approved"]
      BY <1>4, <1>10, <1>11, <2>1, <3>1 DEF Open
    <3>3. Workflow!Approve(p)
      BY <3>2 DEF Workflow!Approve, Workflow!Move, StatusOf, ProjectOf, StageMap
    <3>4. QED
      BY <1>7, <1>9, <2>2, <3>3, OneProposalSteps DEF Unraced
  <2>5. QED
    BY <1>11, <2>3, <2>4 DEF WithProject
<1>12. CASE r.op \notin WithProject
  <2>1. proj' = proj /\ StageMap' = StageMap
    BY <1>4, <1>12, SameRows
  <2>2. CompletedHasDate' /\ GoneHasNoDate'
    BY <2>1 DEF Unraced, CompletedHasDate, GoneHasNoDate, ProjectExists
  <2>3. CASE r.op = "update"
    <3>1. new.status = StatusOf[p]
      BY <1>5, <1>6, <1>10, <2>3 DEF Decided
    <3>2. StatusOf' = StatusOf
      BY <1>10, <3>1 DEF StatusOf
    <3>3. QED
      BY <1>7, <1>9, <1>10, <2>1, <2>2, <3>2, MappedVars DEF Unraced
  <2>4. CASE r.op = "view"
    <3>1. prop[p].status = "sent" /\ new.status = "viewed"
      BY <1>5, <1>6, <2>4 DEF Decided, Writes
    <3>2. /\ StatusOf[p] = "sent" /\ StatusOf' = [StatusOf EXCEPT ![p] = "viewed"]
          /\ ProjectOf' = ProjectOf /\ StageMap' = StageMap
      BY <1>10, <2>1, <3>1
    <3>3. Workflow!View(p)
      BY <3>2 DEF Workflow!View, Workflow!Move, StatusOf, ProjectOf, StageMap
    <3>4. QED
      BY <1>7, <1>9, <2>2, <3>3, OneProposalSteps DEF Unraced
  <2>5. CASE r.op = "reject"
    <3>1. prop[p].status \in Open /\ new.status = "rejected"
      BY <1>5, <1>6, <2>5 DEF Decided, Writes, Open
    <3>2. /\ StatusOf[p] \in {"sent", "viewed"}
          /\ StatusOf' = [StatusOf EXCEPT ![p] = "rejected"]
          /\ ProjectOf' = ProjectOf /\ StageMap' = StageMap
      BY <1>10, <2>1, <3>1 DEF Open
    <3>3. Workflow!Reject(p)
      BY <3>2 DEF Workflow!Reject, Workflow!Move, StatusOf, ProjectOf, StageMap
    <3>4. QED
      BY <1>7, <1>9, <2>2, <3>3, OneProposalSteps DEF Unraced
  <2>6. QED
    BY <1>3, <1>12, <2>3, <2>4, <2>5
<1>13. QED
  BY <1>11, <1>12


LEMMA RevisionFollows ==
    ASSUME RevInv, Unraced, NEW w \in Worker, NEW q \in Proposal, CommitRevision(w, q)
    PROVE  Unraced' /\ Workflow!Next
<1>1. PICK r \in Request : r = req[w]
  BY DEF RevInv, TypeOK
<1>2. PICK p \in Proposal : p = r.p
  BY <1>1, CommitRevisionIs
<1> DEFINE new == Merge(prop[p], r.cols, r.new)
<1>3. /\ Exists(p) /\ r.op = "revise" /\ prop[q].status = "absent" /\ new \in Row
      /\ prop' = [prop EXCEPT ![p] = new, ![q] = r.child] /\ proj' = proj
      /\ req' = [req EXCEPT ![w] = Idle]
      /\ new.status = IF "status" \in r.cols THEN r.new.status ELSE prop[p].status
      /\ new.project = prop[p].project /\ new.prev = prop[p].prev
      /\ r.child.status = "draft" /\ r.child.prev = p /\ r.child.project = new.project
  BY <1>1, <1>2, CommitRevisionIs
<1> HIDE DEF new
<1>4. /\ r # Idle /\ Decided(r, prop[p])
      /\ prop \in [Proposal -> Row] /\ proj \in [Project -> ProjectRow]
  BY <1>1, <1>2, <1>3, IdleIs DEF Op, Unraced, DecidedStill, RevInv, TypeOK
<1>5. new.status = "revised"
  BY <1>3, <1>4 DEF Decided, Writes
<1>6. OneRequest' /\ DecidedStill' /\ ProjectStill'
  BY <1>1, <1>3, <1>4, LastEnds DEF Unraced, RevInv
<1>7. p # q /\ prop'[p] = new /\ prop'[q] = r.child
      /\ \A s \in Proposal \ {p, q} : prop'[s] = prop[s]
  BY <1>3, <1>4 DEF Exists, Status
<1>8. SupersededMarked'
  <2>1. SUFFICES ASSUME NEW s \in Proposal, prop'[s].prev # None
                 PROVE  prop'[prop'[s].prev].status = "revised"
    BY DEF SupersededMarked
  <2>2. CASE s = q
    BY <1>3, <1>5, <1>7, <2>2
  <2>3. CASE s # q
    <3>1. prop'[s].prev = prop[s].prev /\ prop[s].prev \in Proposal
      BY <1>3, <1>4, <1>7, <2>1, <2>3 DEF Row
    <3>2. prop[prop[s].prev].status = "revised" /\ prop[s].prev # q
      BY <1>3, <2>1, <3>1 DEF Unraced, SupersededMarked
    <3>3. QED
      BY <1>5, <1>7, <3>1, <3>2
  <2>4. QED
    BY <2>2, <2>3
<1>9. CompletedHasDate' /\ GoneHasNoDate'
  BY <1>3 DEF Unraced, CompletedHasDate, GoneHasNoDate, ProjectExists
<1>10. StatusOf' = [StatusOf EXCEPT ![p] = "revised", ![q] = "draft"]
  <2>1. /\ \A s \in Proposal \ {p, q} : Exists(s)' <=> Exists(s)
        /\ Exists(p)' /\ Exists(q)'
    BY <1>3, <1>5, <1>7 DEF Exists, Status
  <2>2. /\ StatusOf \in [Proposal -> Status \cup {"absent"}]
        /\ StatusOf' \in [Proposal -> Status \cup {"absent"}]
    BY DEF StatusOf, Exists
  <2>3. /\ StatusOf'[p] = "revised" /\ StatusOf'[q] = "draft"
        /\ \A s \in Proposal \ {p, q} : StatusOf'[s] = StatusOf[s]
    <3>1. StatusOf'[p] = prop'[p].status /\ StatusOf'[q] = prop'[q].status
      BY <2>1 DEF StatusOf
    <3>2. \A s \in Proposal \ {p, q} : StatusOf'[s] = StatusOf[s]
      BY <1>7 DEF StatusOf, Exists
    <3>3. QED
      BY <1>3, <1>5, <1>7, <3>1, <3>2
  <2>4. QED
    BY <2>2, <2>3
<1>11. ProjectOf' = [ProjectOf EXCEPT ![q] = ProjectOf[p]]
  <2>1. /\ prop'[q].project = prop[p].project
        /\ \A s \in Proposal \ {q} : prop'[s].project = prop[s].project
    BY <1>3, <1>7
  <2>2. QED
    BY <2>1 DEF ProjectOf
<1>12. StatusOf[p] # "absent" /\ StatusOf[q] = "absent" /\ StageMap' = StageMap
  BY <1>3, SameRows DEF StatusOf, Exists, Status
<1>13. Workflow!Revise(p, q)
  BY <1>7, <1>10, <1>11, <1>12 DEF Workflow!Revise, StatusOf, ProjectOf, StageMap
<1>14. QED
  BY <1>6, <1>8, <1>9, <1>13, OneProposalSteps DEF Unraced

\* Rows that are dropped are absent from the workflow.
LEMMA MappedDrop ==
    ASSUME RevInv, NEW P \in SUBSET Proposal, prop' = Without(P)
    PROVE  /\ StatusOf' = [p \in Proposal |-> IF p \in P THEN "absent" ELSE StatusOf[p]]
           /\ ProjectOf' = [p \in Proposal |-> IF p \in P THEN None ELSE ProjectOf[p]]
           /\ SupersededMarked => SupersededMarked'
           /\ \A p \in Proposal : /\ prop[p].status # "absent" /\ Exists(p)' =>
                                       /\ Exists(p) /\ prop'[p].status = prop[p].status
                                       /\ prop'[p].version = prop[p].version
                                       /\ prop'[p].project = prop[p].project
<1>1. \A p \in P : prop'[p] = NoRow("deleted")
  BY DEF Without
<1>2. \A p \in Proposal \ P :
          /\ prop'[p].prev = IF prop[p].prev \in P THEN None ELSE prop[p].prev
          /\ prop'[p].status = prop[p].status /\ prop'[p].version = prop[p].version
          /\ prop'[p].project = prop[p].project
  BY DEF Without, RevInv, TypeOK, Row
<1>3. /\ NoRow("deleted").status = "deleted" /\ NoRow("deleted").prev = None
      /\ NoRow("deleted").project = None
  BY DEF NoRow
<1>4. /\ \A p \in P : ~Exists(p)'
      /\ \A p \in Proposal \ P : Exists(p)' <=> Exists(p)
  BY <1>1, <1>2, <1>3 DEF Exists, Status
<1>5. StatusOf' = [p \in Proposal |-> IF p \in P THEN "absent" ELSE StatusOf[p]]
  BY <1>2, <1>4 DEF StatusOf
<1>6. ProjectOf' = [p \in Proposal |-> IF p \in P THEN None ELSE ProjectOf[p]]
  BY <1>1, <1>2, <1>3 DEF ProjectOf
<1>7. ASSUME SupersededMarked PROVE SupersededMarked'
  <2>1. SUFFICES ASSUME NEW q \in Proposal, prop'[q].prev # None
                 PROVE  prop'[prop'[q].prev].status = "revised"
    BY DEF SupersededMarked
  <2>2. q \notin P /\ prop'[q].prev = prop[q].prev /\ prop[q].prev \in Proposal \ P
    BY <1>1, <1>2, <1>3, <2>1 DEF RevInv, TypeOK, Row
  <2>3. QED
    BY <1>2, <1>7, <2>1, <2>2 DEF SupersededMarked
<1>8. QED
  BY <1>1, <1>2, <1>4, <1>5, <1>6, <1>7

LEMMA DeleteFollows ==
    ASSUME RevInv, Unraced, NEW w \in Worker, CommitDelete(w)
    PROVE  Unraced' /\ Workflow!Next
<1>1. PICK p \in Proposal : p = req[w].p
  BY CommitDeleteIs
<1>2. /\ req[w].op = "delete" /\ Exists(p) /\ prop' = Without({p}) /\ proj' = proj
      /\ req' = [req EXCEPT ![w] = Idle]
  BY <1>1, CommitDeleteIs
<1>3. prop[p].status = "draft" /\ req[w] # Idle
  BY <1>1, <1>2, IdleIs DEF Op, Unraced, DecidedStill, Decided
<1>4. OneRequest' /\ DecidedStill' /\ ProjectStill'
  BY <1>2, <1>3, LastEnds DEF Unraced, RevInv
<1>5. CompletedHasDate' /\ GoneHasNoDate' /\ StageMap' = StageMap
  BY <1>2, SameRows DEF Unraced, CompletedHasDate, GoneHasNoDate, ProjectExists
<1>6. /\ StatusOf' = [q \in Proposal |-> IF q \in {p} THEN "absent" ELSE StatusOf[q]]
      /\ ProjectOf' = [q \in Proposal |-> IF q \in {p} THEN None ELSE ProjectOf[q]]
      /\ SupersededMarked'
  BY <1>2, MappedDrop DEF Unraced
<1>7. /\ StatusOf' = [StatusOf EXCEPT ![p] = "absent"]
      /\ ProjectOf' = [ProjectOf EXCEPT ![p] = None] /\ StatusOf[p] = "draft"
  BY <1>2, <1>3, <1>6 DEF StatusOf, ProjectOf
<1>8. Workflow!Discard(p)
  BY <1>5, <1>7 DEF Workflow!Discard, Workflow!Move, StatusOf, ProjectOf, StageMap
<1>9. QED
  BY <1>4, <1>5, <1>6, <1>8, OneProposalSteps DEF Unraced

LEMMA StatusFollows ==
    ASSUME RevInv, Unraced, NEW w \in Worker, CommitStatus(w)
    PROVE  Unraced' /\ [Workflow!Next]_(Workflow!vars)
<1>1. PICK r \in Request : r = req[w]
  BY DEF RevInv, TypeOK
<1>2. /\ r.op = "status" /\ prop' = prop /\ req' = [req EXCEPT ![w] = Idle]
      /\ proj' = [proj EXCEPT ![r.j] = MergeProject(proj[r.j], r)] /\ ProjectExists(r.j)
  BY <1>1, CommitStatusIs
<1>3. OneRequest' /\ DecidedStill' /\ ProjectStill'
  BY <1>1, <1>2, IdleIs, LastEnds DEF Unraced, RevInv, Op
<1>4. SupersededMarked' /\ UNCHANGED <<StatusOf, ProjectOf>>
  BY <1>2, SameRows DEF Unraced, SupersededMarked
<1>5. CASE r.j \in Project
  <2>1. PICK st \in ProjectStatus : StageMap' = [StageMap EXCEPT ![r.j] = st]
    BY <1>1, <1>2, <1>5, ProjectCommitted
  <2>2. CompletedHasDate' /\ GoneHasNoDate'
    BY <1>1, <1>2, <1>5, ProjectCommitted
  <2>3. PICK j \in Project : j = r.j
    BY <1>5
  <2>4. StageMap[j] # "absent" /\ StageMap' = [StageMap EXCEPT ![j] = st]
    BY <1>2, <2>1, <2>3, StageAssumption DEF StageMap, ProjectExists, ProjectStatus
  <2>5. Workflow!SetStage(j, st)
    BY <1>4, <2>4 DEF Workflow!SetStage, StatusOf, ProjectOf, StageMap
  <2>6. QED
    BY <1>3, <1>4, <2>2, <2>5, OneProjectSteps DEF Unraced
<1>6. CASE r.j \notin Project
  <2>1. proj' = proj
    BY <1>2, <1>6 DEF RevInv, TypeOK
  <2>2. QED
    BY <1>3, <1>4, <2>1, SameRows, MappedVars
       DEF Unraced, CompletedHasDate, GoneHasNoDate, ProjectExists
<1>7. QED
  BY <1>5, <1>6


\* Loading, flushing and giving up are no steps of the workflow.
LEMMA BeginUnraced ==
    ASSUME RevInv, Unraced, NEW w \in Worker, Begin(w), ~Overlap'
    PROVE  Unraced' /\ UNCHANGED Workflow!vars
<1>1. /\ prop' = prop /\ proj' = proj
      /\ prop \in [Proposal -> Row] /\ req \in [Worker -> Request]
  BY BeginIs DEF RevInv, TypeOK
<1>2. PICK r \in Request :
          /\ req' = [req EXCEPT ![w] = r]
          /\ \/ \E p \in Proposal : Loads(r, p)
             \/ \E j \in Project, st \in ProjectStatus : LoadsProject(r, j, st)
  BY BeginIs DEF RevInv
<1>3. OneRequest'
  BY DEF Overlap, OneRequest
<1>4. DecidedStill'
  <2>1. r.op \in Op \ {"status"} /\ Exists(r.p) => Decided(r, prop[r.p])
    BY <1>2 DEF Loads, LoadsProject
  <2>2. \A v \in Worker : req'[v] = r \/ req'[v] = req[v]
    BY <1>1, <1>2
  <2>3. QED
    BY <1>1, <2>1, <2>2 DEF Unraced, DecidedStill, Exists
<1>5. ProjectStill'
  <2>1. ASSUME r.j \in Project
        PROVE  /\ proj[r.j].status # "absent"
               /\ ProjectExists(r.j) => \E st \in ProjectStatus :
                      ProjectDecided(r, r.j, st) /\ StageOf(r.op, st)
    <3>1. PICK j \in Project, st \in ProjectStatus : LoadsProject(r, j, st)
      BY <1>2, <2>1, NoneAssumption DEF Loads
    <3>2. r.j = j /\ r.op = "status" /\ ProjectExists(j) /\ ProjectDecided(r, j, st)
      BY <3>1 DEF LoadsProject, ProjectDecided
    <3>3. proj[j].status # "absent"
      BY <3>2, StageAssumption DEF ProjectExists, ProjectStatus
    <3>4. QED
      BY <3>2, <3>3 DEF StageOf
  <2>2. \A v \in Worker : req'[v] = r \/ req'[v] = req[v]
    BY <1>1, <1>2
  <2>3. QED
    BY <1>1, <2>1, <2>2 DEF Unraced, ProjectStill, ProjectExists, ProjectDecided
<1>6. SupersededMarked' /\ CompletedHasDate' /\ GoneHasNoDate'
  BY <1>1 DEF Unraced, SupersededMarked, CompletedHasDate, GoneHasNoDate, ProjectExists
<1>7. QED
  BY <1>1, <1>3, <1>4, <1>5, <1>6, SameRows, MappedVars DEF Unraced

LEMMA FlushUnraced ==
    ASSUME RevInv, Unraced, NEW w \in Worker, FlushProposal(w)
    PROVE  Unraced' /\ UNCHANGED Workflow!vars
<1> DEFINE st == IF req[w].op = "send" THEN "proposal_sent" ELSE "approved"
<1>1. PICK h \in Request :
          /\ prop' = prop /\ proj' = proj /\ req' = [req EXCEPT ![w] = h]
          /\ h.op = req[w].op /\ h.p = req[w].p /\ h.cols = req[w].cols
          /\ h.new = req[w].new /\ h.child = req[w].child
          /\ req[w] # Idle /\ h.op \in WithProject
          /\ prop[h.p].project \in Project /\ Exists(h.p)
          /\ ProjectExists(prop[h.p].project)
          /\ ProjectDecided(h, prop[h.p].project, st)
  BY FlushIs
<1>2. st \in ProjectStatus /\ StageOf(h.op, st)
  BY <1>1 DEF StageOf, ProjectStatus
<1> HIDE DEF st
<1>3. \A v \in Worker : req'[v] = h \/ req'[v] = req[v]
  BY <1>1 DEF RevInv, TypeOK
<1>4. OneRequest'
  BY <1>1 DEF RevInv, TypeOK, Unraced, OneRequest
<1>5. DecidedStill'
  <2>1. Decided(h, prop[h.p])
    <3>1. Decided(req[w], prop[req[w].p])
      BY <1>1 DEF Unraced, DecidedStill, Op, WithProject
    <3>2. QED
      BY <1>1, <3>1 DEF Decided, Writes
  <2>2. QED
    BY <1>1, <1>3, <2>1 DEF Unraced, DecidedStill, Exists
<1>6. ProjectStill'
  <2>1. /\ h.j = prop[h.p].project /\ proj[h.j].status # "absent"
        /\ ProjectDecided(h, h.j, st)
    BY <1>1, StageAssumption DEF ProjectDecided, ProjectExists, ProjectStatus
  <2>2. QED
    BY <1>1, <1>2, <1>3, <2>1 DEF Unraced, ProjectStill, ProjectExists, ProjectDecided
<1>7. SupersededMarked' /\ CompletedHasDate' /\ GoneHasNoDate'
  BY <1>1 DEF Unraced, SupersededMarked, CompletedHasDate, GoneHasNoDate, ProjectExists
<1>8. QED
  BY <1>1, <1>4, <1>5, <1>6, <1>7, SameRows, MappedVars DEF Unraced

LEMMA AbortUnraced ==
    ASSUME RevInv, Unraced, NEW w \in Worker, Abort(w)
    PROVE  Unraced' /\ UNCHANGED Workflow!vars
<1>1. prop' = prop /\ proj' = proj /\ req' = [req EXCEPT ![w] = Idle] /\ req[w] # Idle
  BY DEF Abort
<1>2. OneRequest' /\ DecidedStill' /\ ProjectStill'
  BY <1>1, LastEnds DEF RevInv, Unraced
<1>3. SupersededMarked' /\ CompletedHasDate' /\ GoneHasNoDate'
  BY <1>1 DEF Unraced, SupersededMarked, CompletedHasDate, GoneHasNoDate, ProjectExists
<1>4. QED
  BY <1>1, <1>2, <1>3, SameRows, MappedVars DEF Unraced

\* The requests of one step, each of them a step of the workflow or none.
LEMMA CreateProjectFollows ==
    ASSUME RevInv, Unraced, NEW j \in Project, CreateProject(j)
    PROVE  Unraced' /\ Workflow!Next
<1> DEFINE new == [proj[j] EXCEPT !.status = "draft"]
<1>1. /\ proj[j].status = "absent" /\ proj' = [proj EXCEPT ![j] = new]
      /\ prop' = prop /\ req' = req
      /\ proj \in [Project -> ProjectRow]
  BY DEF CreateProject, RevInv, TypeOK
<1>2. ~ProjectExists(j) /\ new \in ProjectRow /\ new.status = "draft"
  BY <1>1, StageAssumption DEF ProjectExists, ProjectStatus, ProjectRow
<1>3. ~new.done
  BY <1>1, <1>2 DEF Unraced, GoneHasNoDate, ProjectRow
<1> HIDE DEF new
<1>4. CompletedHasDate' /\ GoneHasNoDate'
  BY <1>1, <1>2, <1>3 DEF Unraced, CompletedHasDate, GoneHasNoDate, ProjectExists
<1>5. OneRequest' /\ DecidedStill' /\ ProjectStill'
  <2>1. \A p \in Proposal : prop[p].status # "absent" /\ Exists(p)' =>
            /\ Exists(p) /\ prop'[p].status = prop[p].status
            /\ prop'[p].version = prop[p].version /\ prop'[p].project = prop[p].project
    BY <1>1 DEF Exists
  <2>2. \A i \in Project : proj[i].status # "absent" =>
            /\ proj'[i].status # "absent"
            /\ ProjectExists(i)' => proj'[i] = proj[i]
    BY <1>1
  <2>3. QED
    BY <1>1, <2>1, <2>2, StillDecided
<1>6. SupersededMarked' /\ UNCHANGED <<StatusOf, ProjectOf>>
  BY <1>1, SameRows DEF Unraced, SupersededMarked
<1>7. StageMap[j] = "absent" /\ StageMap' = [StageMap EXCEPT ![j] = "draft"]
  <2>1. "draft" \in ProjectStatus
    BY DEF ProjectStatus
  <2>2. StageMap[j] = "absent"
    BY <1>2 DEF StageMap
  <2>3. StageMap' = [StageMap EXCEPT ![j] = IF new.status \in ProjectStatus
                                            THEN new.status ELSE "absent"]
    BY <1>1, <1>2, MappedProject
  <2>4. QED
    BY <1>2, <2>1, <2>2, <2>3
<1>8. Workflow!SetStage(j, "draft") /\ "draft" \in ProjectStatus
  BY <1>6, <1>7 DEF Workflow!SetStage, StatusOf, ProjectOf, StageMap, ProjectStatus
<1>9. QED
  BY <1>4, <1>5, <1>6, <1>8, OneProjectSteps DEF Unraced

LEMMA DeleteProjectFollows ==
    ASSUME RevInv, Unraced, NEW j \in Project, DeleteProject(j)
    PROVE  Unraced' /\ Workflow!Next
<1> DEFINE P == {q \in Proposal : prop[q].project = j}
           gone == NoProject("deleted")
<1>1. /\ prop' = Without(P) /\ proj' = [proj EXCEPT ![j] = gone]
      /\ req' = req /\ ProjectExists(j) /\ proj \in [Project -> ProjectRow]
  BY DEF DeleteProject, RevInv, TypeOK
<1>2. /\ gone \in ProjectRow /\ gone.status \notin ProjectStatus
      /\ gone.status # "absent" /\ ~gone.done
  BY StageAssumption DEF NoProject, ProjectRow, ProjectStatus
<1> HIDE DEF gone
<1>3. CompletedHasDate' /\ GoneHasNoDate'
  BY <1>1, <1>2 DEF Unraced, CompletedHasDate, GoneHasNoDate, ProjectExists
<1>4. P \in SUBSET Proposal
  OBVIOUS
<1>5. /\ StatusOf' = [p \in Proposal |-> IF p \in P THEN "absent" ELSE StatusOf[p]]
      /\ ProjectOf' = [p \in Proposal |-> IF p \in P THEN None ELSE ProjectOf[p]]
      /\ SupersededMarked'
  <2> HIDE DEF P
  <2>1. QED
    BY <1>1, <1>4, MappedDrop DEF Unraced
<1>6. OneRequest' /\ DecidedStill' /\ ProjectStill'
  <2>1. \A p \in Proposal : prop[p].status # "absent" /\ Exists(p)' =>
            /\ Exists(p) /\ prop'[p].status = prop[p].status
            /\ prop'[p].version = prop[p].version /\ prop'[p].project = prop[p].project
    <3> HIDE DEF P
    <3>1. QED
      BY <1>1, <1>4, MappedDrop
  <2>2. \A i \in Project : proj[i].status # "absent" =>
            /\ proj'[i].status # "absent"
            /\ ProjectExists(i)' => proj'[i] = proj[i]
    BY <1>1, <1>2 DEF ProjectExists
  <2>3. QED
    BY <1>1, <2>1, <2>2, StillDecided
<1>7. StageMap[j] # "absent" /\ StageMap' = [StageMap EXCEPT ![j] = "absent"]
  BY <1>1, <1>2, MappedProject, StageAssumption DEF StageMap, ProjectExists, ProjectStatus
<1>8. /\ StatusOf' = [p \in Proposal |-> IF ProjectOf[p] = j THEN "absent" ELSE StatusOf[p]]
      /\ ProjectOf' = [p \in Proposal |-> IF ProjectOf[p] = j THEN None ELSE ProjectOf[p]]
  <2>1. \A p \in Proposal : p \in P <=> ProjectOf[p] = j
    BY DEF ProjectOf
  <2> HIDE DEF P
  <2>2. QED
    BY <1>5, <2>1
<1>9. Workflow!Drop(j)
  BY <1>7, <1>8 DEF Workflow!Drop, StatusOf, ProjectOf, StageMap
<1>10. QED
  BY <1>3, <1>5, <1>6, <1>9, OneProjectSteps DEF Unraced

LEMMA ValidityUnraced ==
    ASSUME RevInv, Unraced, NEW p \in Proposal, ValidityPasses(p)
    PROVE  Unraced' /\ UNCHANGED Workflow!vars
<1> DEFINE new == [prop[p] EXCEPT !.past = TRUE]
<1>1. /\ prop' = [prop EXCEPT ![p] = new] /\ proj' = proj /\ req' = req /\ Exists(p)
      /\ prop \in [Proposal -> Row]
  BY DEF ValidityPasses, RevInv, TypeOK
<1>2. /\ new.status = prop[p].status /\ new.version = prop[p].version
      /\ new.project = prop[p].project /\ new.prev = prop[p].prev
  BY <1>1 DEF Row
<1> HIDE DEF new
<1>3. \A q \in Proposal :
          /\ prop'[q].status = prop[q].status /\ prop'[q].version = prop[q].version
          /\ prop'[q].project = prop[q].project /\ prop'[q].prev = prop[q].prev
  BY <1>1, <1>2
<1>4. OneRequest' /\ DecidedStill' /\ ProjectStill'
  <2>1. \A q \in Proposal : prop[q].status # "absent" /\ Exists(q)' =>
            /\ Exists(q) /\ prop'[q].status = prop[q].status
            /\ prop'[q].version = prop[q].version /\ prop'[q].project = prop[q].project
    BY <1>3 DEF Exists
  <2>2. QED
    BY <1>1, <2>1, StillDecided
<1>5. SupersededMarked'
  BY <1>1, <1>3 DEF Unraced, SupersededMarked, Row
<1>6. CompletedHasDate' /\ GoneHasNoDate' /\ StageMap' = StageMap
  BY <1>1, SameRows DEF Unraced, CompletedHasDate, GoneHasNoDate, ProjectExists
<1>7. UNCHANGED <<StatusOf, ProjectOf>>
  BY <1>3 DEF StatusOf, ProjectOf, Exists
<1>8. QED
  BY <1>4, <1>5, <1>6, <1>7, MappedVars DEF Unraced


LEMMA CreateProposalFollows ==
    ASSUME RevInv, Unraced, NEW q \in Proposal, NEW j \in Project, NEW s \in Subtotal,
           NEW d \in Percent, NEW t \in Percent, CreateProposal(q, j, s, d, t)
    PROVE  Unraced' /\ Workflow!Next
<1>1. PICK new \in Row : /\ new = NewDraft(j, s, d, t) /\ new.status = "draft"
                         /\ new.prev = None /\ new.project = j
  BY NewDraftType
<1>2. /\ prop' = [prop EXCEPT ![q] = new] /\ proj' = proj /\ req' = req
      /\ prop[q].status = "absent" /\ ProjectExists(j) /\ prop \in [Proposal -> Row]
  BY <1>1 DEF CreateProposal, NewDraft, RevInv, TypeOK
<1>3. /\ prop'[q] = new /\ \A p \in Proposal \ {q} : prop'[p] = prop[p]
      /\ ~Exists(q) /\ Exists(q)'
  BY <1>1, <1>2 DEF Exists, Status
<1>4. OneRequest' /\ DecidedStill' /\ ProjectStill'
  <2>1. \A p \in Proposal : prop[p].status # "absent" /\ Exists(p)' =>
            /\ Exists(p) /\ prop'[p].status = prop[p].status
            /\ prop'[p].version = prop[p].version /\ prop'[p].project = prop[p].project
    BY <1>2, <1>3 DEF Exists
  <2>2. QED
    BY <1>2, <2>1, StillDecided
<1>5. SupersededMarked'
  <2>1. SUFFICES ASSUME NEW p \in Proposal, prop'[p].prev # None
                 PROVE  prop'[prop'[p].prev].status = "revised"
    BY DEF SupersededMarked
  <2>2. p # q /\ prop'[p] = prop[p]
    BY <1>1, <1>3, <2>1
  <2>3. prop[prop[p].prev].status = "revised" /\ prop[p].prev \in Proposal \ {q}
    BY <1>2, <2>1, <2>2 DEF Unraced, SupersededMarked, Row
  <2>4. QED
    BY <1>3, <2>2, <2>3
<1>6. CompletedHasDate' /\ GoneHasNoDate' /\ StageMap' = StageMap
  BY <1>2, SameRows DEF Unraced, CompletedHasDate, GoneHasNoDate, ProjectExists
<1>7. StatusOf[q] = "absent" /\ StatusOf' = [StatusOf EXCEPT ![q] = "draft"]
  <2>1. StatusOf'[q] = "draft"
    BY <1>1, <1>3 DEF StatusOf
  <2>2. \A p \in Proposal \ {q} : StatusOf'[p] = StatusOf[p]
    BY <1>3 DEF StatusOf, Exists
  <2>3. QED
    BY <1>3, <2>1, <2>2 DEF StatusOf
<1>8. ProjectOf' = [ProjectOf EXCEPT ![q] = j]
  BY <1>1, <1>2 DEF ProjectOf
<1>9. StageMap[j] # "absent"
  BY <1>2, StageAssumption DEF StageMap, ProjectExists, ProjectStatus
<1>10. Workflow!Draft(q)
  BY <1>6, <1>7, <1>8, <1>9 DEF Workflow!Draft, StatusOf, ProjectOf, StageMap
<1>11. QED
  BY <1>4, <1>5, <1>6, <1>10, OneProposalSteps DEF Unraced

\* Every step that does not make two requests overlap keeps what one request at a
\* time is owed, and is one step of the workflow or none.
LEMMA UnracedFollows ==
    ASSUME UnracedInv, [MCNext]_mcvars, ~raced'
    PROVE  Unraced' /\ [Workflow!Next]_(Workflow!vars)
<1>1. RevInv /\ Unraced /\ (MCNext => ~Overlap')
  <2>1. CASE MCNext
    BY <2>1, Zenon DEF MCNext, UnracedInv
  <2>2. CASE UNCHANGED mcvars /\ ~MCNext
    BY <2>2 DEF mcvars, UnracedInv
  <2>3. QED
    BY <2>1, <2>2
<1>2. ASSUME NEW w \in Worker, Begin(w), ~Overlap'
      PROVE  Unraced' /\ UNCHANGED Workflow!vars
  BY <1>1, <1>2, BeginUnraced
<1>3. ASSUME NEW w \in Worker, Finish(w)
      PROVE  Unraced' /\ [Workflow!Next]_(Workflow!vars)
  BY <1>1, <1>3, FlushUnraced, CommitFollows, RevisionFollows, DeleteFollows,
     StatusFollows, AbortUnraced DEF Finish
<1>4. ASSUME Single PROVE Unraced' /\ [Workflow!Next]_(Workflow!vars)
  BY <1>1, <1>4, CreateProjectFollows, DeleteProjectFollows, ValidityUnraced,
     CreateProposalFollows DEF Single
<1>5. CASE UNCHANGED mcvars
  <2>1. prop' = prop /\ proj' = proj /\ req' = req
    BY <1>5 DEF mcvars, vars
  <2>2. OneRequest' /\ DecidedStill' /\ ProjectStill'
    BY <1>1, <2>1 DEF Unraced, OneRequest, DecidedStill, ProjectStill, Exists,
                      ProjectExists, ProjectDecided
  <2>3. SupersededMarked' /\ CompletedHasDate' /\ GoneHasNoDate'
    BY <1>1, <2>1 DEF Unraced, SupersededMarked, CompletedHasDate, GoneHasNoDate,
                      ProjectExists
  <2>4. QED
    BY <2>1, <2>2, <2>3, SameRows, MappedVars DEF Unraced
<1>6. CASE MCNext
  <2>1. Next /\ ~Overlap'
    BY <1>1, <1>6 DEF MCNext
  <2>2. CASE Single
    BY <1>4, <2>2
  <2>3. CASE \E w \in Worker : Begin(w) \/ Finish(w)
    BY <1>2, <1>3, <2>1, <2>3
  <2>4. QED
    BY <2>1, <2>2, <2>3 DEF Next, Single
<1>7. QED
  BY <1>5, <1>6

LEMMA UnracedStep == UnracedInv /\ [MCNext]_mcvars => UnracedInv'
<1>1. RevInv /\ [MCNext]_mcvars => RevInv'
  BY RevStep DEF MCNext, mcvars
<1>2. QED
  BY <1>1, UnracedFollows DEF UnracedInv

LEMMA UnracedInit == MCInit => UnracedInv
<1> SUFFICES ASSUME Init PROVE RevInv /\ Unraced
  BY DEF MCInit, UnracedInv
<1>1. OneRequest /\ DecidedStill /\ ProjectStill
  BY IdleIs, NoneAssumption DEF Init, OneRequest, DecidedStill, ProjectStill
<1>2. SupersededMarked
  BY DEF Init, SupersededMarked, NoRow
<1>3. CompletedHasDate /\ GoneHasNoDate
  BY StageAssumption DEF Init, CompletedHasDate, GoneHasNoDate, ProjectExists, NoProject,
     ProjectStatus
<1>4. QED
  BY <1>1, <1>2, <1>3, RevInit DEF Unraced

LEMMA UnracedInvariance == MCSpec => []UnracedInv
BY UnracedInit, UnracedStep, PTL DEF MCSpec

\* As long as no two requests overlap, a proposal that has a newer version is marked
\* revised (revise_proposal).
THEOREM Superseded == MCSpec => []SupersededUnlessRaced
<1>1. UnracedInv => SupersededUnlessRaced
  BY DEF UnracedInv, Unraced, SupersededUnlessRaced
<1>2. QED
  BY <1>1, UnracedInvariance, PTL

\* As long as no two requests overlap, completed_at is set exactly for a completed
\* project (ProjectDAO.update_status, by any of its callers).
THEOREM Completed == MCSpec => []CompletedUnlessRaced
<1>1. UnracedInv => CompletedUnlessRaced
  BY DEF UnracedInv, Unraced, CompletedUnlessRaced
<1>2. QED
  BY <1>1, UnracedInvariance, PTL

\* As long as no two requests overlap, each step of the requests is one step of the
\* documented workflow of ProposalStatus and ProjectStatus, or changes neither.
THEOREM WorkflowFollowed == MCSpec => WorkflowUnlessRaced
<1>1. UnracedInv /\ [MCNext]_mcvars
          => [raced' \/ [Workflow!Next]_(Workflow!vars)]_mcvars
  BY UnracedFollows
<1>2. QED
  BY <1>1, UnracedInvariance, PTL DEF MCSpec, WorkflowUnlessRaced
===============================================================================
