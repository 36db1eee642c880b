---------------------------- MODULE WorkspaceProofs ----------------------------
(******************************************************************************)
(* Theorems about the audit trail, which MCWorkspace extends, for any set of  *)
(* requests, and about push subscriptions, tickets and their comments, report *)
(* executions, projects, the figures of surveys, the pages of the activity    *)
(* feed, notification preferences, SLA deadlines and the amounts of time      *)
(* entries. Typed, in its middle, serves every component: rows and pending    *)
(* writes that fit a schema.                                                  *)
(******************************************************************************)
EXTENDS MCWorkspace, Sequences, FiniteSetTheorems, WellFoundedInduction, TLAPS

-------------------------------------------------------------------------------
(* Audit trail; its invariant is what each transaction holds at each step *)

\* A transaction is open until its request is done; a closed one was either
\* committed as a whole or answered with an error.
ClosedIsSettled ==
    \A r \in Request :
        /\ at[r] # "done" => tx[r] # "closed"
        /\ tx[r] = "closed" =>
               \/ r \in applied /\ r \in logged /\ reply[r] = "ok"
               \/ r \notin applied /\ r \notin logged /\ reply[r] = "error"

\* The audit entry is attempted once, in an active transaction.
AuditsActive == \A r \in Request : at[r] = "audit" => tx[r] = "active"

AuditInv == TypeOK /\ TransactionHolds /\ ClosedIsSettled /\ AuditsActive

\* Every request begins with an empty, active transaction.
LEMMA AuditStart == Init => AuditInv
  BY SMT DEF Init, AuditInv, TypeOK, Kind, TransactionHolds, ClosedIsSettled, AuditsActive

\* Refusing a request whose transaction is not closed keeps the invariant.
LEMMA RefuseKeeps ==
    ASSUME AuditInv, NEW r \in Request, tx[r] # "closed", Refuse(r),
           kind' = kind
    PROVE  AuditInv'
<1>1. TypeOK'
  BY SMT DEF AuditInv, TypeOK, Refuse, Goto
<1>2. TransactionHolds'
  BY SMT DEF AuditInv, TypeOK, TransactionHolds, Refuse, Goto
<1>3. ClosedIsSettled'
  BY SMT DEF AuditInv, TypeOK, TransactionHolds, ClosedIsSettled, Refuse, Goto
<1>4. AuditsActive'
  BY SMT DEF AuditInv, TypeOK, AuditsActive, Refuse, Goto
<1> QED
  BY <1>1, <1>2, <1>3, <1>4 DEF AuditInv

\* Completing the commit of an active transaction keeps the invariant.
LEMMA CommitKeeps ==
    ASSUME AuditInv, NEW r \in Request, Commit(r)
    PROVE  AuditInv'
<1>1. tx[r] # "closed" /\ kind' = kind
  BY SMT DEF AuditInv, TypeOK, ClosedIsSettled, Commit
<1>2. CASE tx[r] # "active"
  BY <1>1, <1>2, RefuseKeeps, SMT DEF Commit
<1>3. CASE tx[r] = "active"
  <2>1. pending[r] = {"change", "entry"}
    BY <1>3, SMT DEF AuditInv, TransactionHolds, Commit
  <2>2. applied' = applied \cup {r} /\ logged' = logged \cup {r}
    BY <1>3, <2>1, SMT DEF Commit
  <2>3. TypeOK'
    BY <1>3, <2>2, SMT DEF AuditInv, TypeOK, Commit, Goto
  <2>4. TransactionHolds'
    BY <1>3, <2>2, SMT DEF AuditInv, TypeOK, TransactionHolds, Commit, Goto
  <2>5. ClosedIsSettled'
    BY <1>3, <2>2, SMT DEF AuditInv, TypeOK, ClosedIsSettled, Commit, Goto
  <2>6. AuditsActive'
    BY <1>3, SMT DEF AuditInv, TypeOK, AuditsActive, Commit, Goto
  <2> QED
    BY <2>3, <2>4, <2>5, <2>6 DEF AuditInv
<1> QED
  BY <1>2, <1>3

\* An active transaction that moves on to step a, holding what a step a may hold.
LEMMA MoveKeepsHolds ==
    ASSUME AuditInv, NEW r \in Request, tx[r] = "active",
           NEW a \in {"write", "respond", "commit"}, NEW p,
           a = "write" => p = IF kind[r] = "delete" THEN {"entry"} ELSE {},
           a \in {"respond", "commit"} => p = {"change", "entry"},
           at' = [at EXCEPT ![r] = a], pending' = [pending EXCEPT ![r] = p],
           kind' = kind, tx' = tx, applied' = applied, logged' = logged, reply' = reply
    PROVE  TransactionHolds'
<1>1. at'[r] = a /\ pending'[r] = p
  BY SMT DEF AuditInv, TypeOK
<1>2. \A q \in Request \ {r} : at'[q] = at[q] /\ pending'[q] = pending[q]
  BY SMT DEF AuditInv, TypeOK
<1> SUFFICES ASSUME NEW q \in Request
             PROVE  TransactionHolds!(q)'
  BY DEF TransactionHolds
<1>3. CASE q = r
  BY <1>1, <1>3, SMTT(30) DEF AuditInv, TransactionHolds
<1>4. CASE q # r
  BY <1>2, <1>4, SMT DEF AuditInv, TransactionHolds
<1> QED
  BY <1>3, <1>4

\* A step of the handler on an active transaction leads to the next step.
LEMMA AfterIsAStep ==
    ASSUME NEW k \in Kind
    PROVE  /\ After(k, "write") = IF k = "delete" THEN "commit" ELSE "audit"
           /\ After(k, "audit") = IF k = "update" THEN "respond"
                                  ELSE IF k = "delete" THEN "write" ELSE "commit"
  BY SMT DEF After, Kind

\* Every step of every request keeps the invariant.
LEMMA AuditStep == AuditInv /\ [Next]_vars => AuditInv'
<1> SUFFICES ASSUME AuditInv, [Next]_vars PROVE AuditInv'
  OBVIOUS
<1>1. CASE UNCHANGED vars
  BY <1>1, SMT DEF vars, AuditInv, TypeOK, TransactionHolds, ClosedIsSettled, AuditsActive
<1>2. ASSUME NEW r \in Request, Write(r) PROVE AuditInv'
  <2>1. tx[r] # "closed" /\ kind' = kind /\ kind[r] \in Kind
    BY <1>2, SMT DEF AuditInv, TypeOK, ClosedIsSettled, Write
  <2>2. CASE tx[r] # "active"
    BY <1>2, <2>1, <2>2, RefuseKeeps, SMT DEF Write
  <2>3. CASE tx[r] = "active"
    <3>1. at' = [at EXCEPT ![r] = IF kind[r] = "delete" THEN "commit" ELSE "audit"]
      BY <1>2, <2>1, <2>3, AfterIsAStep, SMT DEF Write, Goto
    <3>2. TypeOK'
      BY <1>2, <2>3, <3>1, SMT DEF AuditInv, TypeOK, Write
    <3>3. TransactionHolds'
      BY <1>2, <2>3, <3>1, SMT DEF AuditInv, TypeOK, TransactionHolds, Write
    <3>4. ClosedIsSettled'
      BY <1>2, <2>3, <3>1, SMT DEF AuditInv, TypeOK, ClosedIsSettled, Write
    <3>5. AuditsActive'
      BY <1>2, <2>3, <3>1, SMT DEF AuditInv, TypeOK, AuditsActive, Write
    <3> QED
      BY <3>2, <3>3, <3>4, <3>5 DEF AuditInv
  <2> QED
    BY <2>2, <2>3
<1>3. ASSUME NEW r \in Request, LogEvent(r) \/ LogEventFails(r) PROVE AuditInv'
  <2>1. kind[r] \in Kind
    BY SMT DEF AuditInv, TypeOK
  <2>2. at' = [at EXCEPT ![r] = IF kind[r] = "update" THEN "respond"
                               ELSE IF kind[r] = "delete" THEN "write" ELSE "commit"]
    BY <1>3, <2>1, AfterIsAStep, SMT DEF LogEvent, LogEventFails, Goto
  <2>3. TypeOK'
    BY <1>3, <2>2, SMT DEF AuditInv, TypeOK, LogEvent, LogEventFails
  <2>4. TransactionHolds'
    <3>1. CASE LogEvent(r)
      <4>0. UNCHANGED <<kind, tx, applied, logged, reply>>
        BY <3>1 DEF LogEvent
      <4>1. tx[r] = "active" /\ r \notin applied \cup logged /\ reply[r] = "none"
        BY <3>1, SMT DEF AuditInv, TransactionHolds, AuditsActive, LogEvent
      <4>2. CASE kind[r] = "delete"
        <5>1. pending[r] \cup {"entry"} = {"entry"}
          BY <3>1, <4>1, <4>2, SMT DEF AuditInv, TransactionHolds, LogEvent
        <5>2. pending' = [pending EXCEPT ![r] = {"entry"}]
          BY <3>1, <5>1, Zenon DEF LogEvent
        <5>3. at' = [at EXCEPT ![r] = "write"]
          BY <2>2, <4>2
        <5> QED
          BY <4>0, <4>1, <4>2, <5>2, <5>3, MoveKeepsHolds
      <4>3. CASE kind[r] # "delete"
        <5>1. pending[r] \cup {"entry"} = {"change", "entry"}
          BY <3>1, <4>1, <4>3, SMT DEF AuditInv, TransactionHolds, LogEvent
        <5>2. pending' = [pending EXCEPT ![r] = {"change", "entry"}]
          BY <3>1, <5>1, Zenon DEF LogEvent
        <5>3. at' = [at EXCEPT ![r] = IF kind[r] = "update" THEN "respond" ELSE "commit"]
          BY <2>2, <4>3
        <5> QED
          BY <4>0, <4>1, <4>3, <5>2, <5>3, MoveKeepsHolds
      <4> QED
        BY <4>2, <4>3
    <3>2. CASE LogEventFails(r)
      BY <2>1, <2>2, <3>2, SMT DEF AuditInv, TypeOK, TransactionHolds, AuditsActive,
                                   LogEventFails, Kind
    <3> QED
      BY <1>3, <3>1, <3>2
  <2>5. ClosedIsSettled'
    BY <1>3, <2>2, SMT DEF AuditInv, TypeOK, ClosedIsSettled, LogEvent, LogEventFails
  <2>6. AuditsActive'
    BY <1>3, <2>2, SMT DEF AuditInv, TypeOK, AuditsActive, LogEvent, LogEventFails
  <2> QED
    BY <2>3, <2>4, <2>5, <2>6 DEF AuditInv
<1>4. ASSUME NEW r \in Request, Respond(r) PROVE AuditInv'
  <2>1. tx[r] # "closed" /\ kind' = kind
    BY <1>4, SMT DEF AuditInv, TypeOK, ClosedIsSettled, Respond
  <2>2. CASE tx[r] # "active"
    BY <1>4, <2>1, <2>2, RefuseKeeps, SMT DEF Respond
  <2>3. CASE tx[r] = "active"
    BY <1>4, <2>3, SMT DEF AuditInv, TypeOK, TransactionHolds, ClosedIsSettled,
                           AuditsActive, Respond, Goto
  <2> QED
    BY <2>2, <2>3
<1>5. ASSUME NEW r \in Request, Fault(r) PROVE AuditInv'
  BY <1>5, RefuseKeeps, SMT DEF AuditInv, TypeOK, ClosedIsSettled, Fault
<1> QED
  BY <1>1, <1>2, <1>3, <1>4, <1>5, CommitKeeps DEF Next

\* The invariant holds in every reachable state.
LEMMA AuditHolds == Spec => []AuditInv
  BY AuditStart, AuditStep, PTL DEF Spec

\* Type correctness of the state of every request.
THEOREM AuditTypes == Spec => []TypeOK
<1>1. AuditInv => TypeOK
  BY DEF AuditInv
<1> QED
  BY <1>1, AuditHolds, PTL

\* What get_db's transaction holds at each step of a request, also after the
\* INSERT of the audit entry has failed.
THEOREM TransactionsHold == Spec => []TransactionHolds
<1>1. AuditInv => TransactionHolds
  BY DEF AuditInv
<1> QED
  BY <1>1, AuditHolds, PTL

\* log_event and get_db never commit the entry of a change that was rolled back.
THEOREM TrueEntries == Spec => []EntriesAreTrue
<1>1. AuditInv => EntriesAreTrue
  <2> SUFFICES ASSUME AuditInv PROVE \A r \in Request : r \in logged => r \in applied
    BY SMT DEF AuditInv, TypeOK, EntriesAreTrue
  <2> TAKE r \in Request
  <2>1. CASE tx[r] = "closed"
    BY <2>1, Zenon DEF AuditInv, ClosedIsSettled
  <2>2. CASE tx[r] # "closed"
    BY <2>2, Zenon DEF AuditInv, TransactionHolds
  <2> QED
    BY <2>1, <2>2
<1> QED
  BY <1>1, AuditHolds, PTL

\* The client is told of success exactly when its change was committed.
THEOREM RepliesAreTrue == Spec => []ReplyIsTruth
<1>1. AuditInv => ReplyIsTruth
  <2> SUFFICES ASSUME AuditInv, NEW r \in Request PROVE reply[r] = "ok" <=> r \in applied
    BY DEF ReplyIsTruth
  <2>1. CASE tx[r] = "closed"
    BY <2>1, SMT DEF AuditInv, ClosedIsSettled
  <2>2. CASE tx[r] # "closed"
    BY <2>2, SMT DEF AuditInv, TransactionHolds
  <2> QED
    BY <2>1, <2>2
<1> QED
  BY <1>1, AuditHolds, PTL

-------------------------------------------------------------------------------
(* One component at a time *)

\* What the components around the core share: the operations of Requests, which each
\* of them has under its own name.
Q == INSTANCE Requests WITH MaxId <- 0

LEMMA PushParts ==
    /\ part = "push" /\ MCInit => P!Init /\ ~disturbed
    /\ part = "push" /\ MCNext => P!Next
BY DEF MCInit, PartInit, MCNext, RowsNext

LEMMA SamePart == [MCNext]_mcvars => part' = part
BY DEF MCNext, mcvars

\* What the request of a worker with none in progress is.
Idle(p) == IF p = "tickets" THEN T!NoChange ELSE None

\* Two requests that are in progress after a step disturb the history.
LEMMA Undisturbed ==
    ASSUME MCNext, ~disturbed', part # "documents"
    PROVE  /\ ~disturbed
           /\ \A v, w \in DOMAIN req : v # w => \/ req'[v] = Idle(part)
                                                \/ req'[w] = Idle(part)
BY DEF MCNext, Disturbance, Busy, Idle

-------------------------------------------------------------------------------
(* The rows after a set of writes *)

\* A row is inserted as it was written, changed in the columns that are written, or
\* stays as it was.
LEMMA RowAfter ==
    ASSUME NEW rows, NEW ws, NEW i \in DOMAIN Q!After(rows, ws)
    PROVE  LET row == Q!After(rows, ws)[i]
           IN  \/ i \in DOMAIN ws /\ ws[i].op = "insert" /\ row = ws[i].cols
               \/ /\ i \in DOMAIN rows /\ i \in DOMAIN ws /\ ws[i].op \notin {"insert", "delete"}
                  /\ row = Q!Written(rows[i], ws[i])
               \/ i \in DOMAIN rows /\ i \notin DOMAIN ws /\ row = rows[i]
BY DEF Q!After

\* An update changes the columns it names, and only those.
LEMMA Updating ==
    ASSUME NEW row, NEW write, write.op # "increase", NEW c \in DOMAIN row
    PROVE  /\ DOMAIN Q!Written(row, write) = DOMAIN row
           /\ Q!Written(row, write)[c] =
                  IF c \in DOMAIN write.cols THEN write.cols[c] ELSE row[c]
BY DEF Q!Written

\* An assignment writes the columns that differ, so that every column that is named
\* has its new value.
LEMMA Assigning ==
    ASSUME NEW row, NEW cols, NEW c \in DOMAIN row
    PROVE  /\ Q!Assign(row, cols).op = "update"
           /\ Q!Written(row, Q!Assign(row, cols))[c] = IF c \in DOMAIN cols THEN cols[c] ELSE row[c]
           /\ DOMAIN Q!Written(row, Q!Assign(row, cols)) = DOMAIN row
<1>1. PICK cs : cs = [d \in {d \in DOMAIN cols : cols[d] # row[d]} |-> cols[d]]
  OBVIOUS
<1>2. Q!Assign(row, cols) = [op |-> "update", cols |-> cs]
  BY <1>1 DEF Q!Assign, Q!Update
<1>3. Q!Assign(row, cols).op = "update" /\ Q!Assign(row, cols).cols = cs
  BY <1>2
<1>4. QED
  BY <1>1, <1>3, Updating

\* The columns that an assignment writes are those that differ.
LEMMA AssignedColumns ==
    ASSUME NEW row, NEW cols
    PROVE  LET write == Q!Assign(row, cols)
           IN  /\ write.op = "update"
               /\ DOMAIN write.cols = {c \in DOMAIN cols : cols[c] # row[c]}
               /\ \A c \in DOMAIN write.cols : write.cols[c] = cols[c]
<1>1. PICK cs : cs = [d \in {d \in DOMAIN cols : cols[d] # row[d]} |-> cols[d]]
  OBVIOUS
<1>2. Q!Assign(row, cols) = [op |-> "update", cols |-> cs]
  BY <1>1 DEF Q!Assign, Q!Update
<1>3. Q!Assign(row, cols).op = "update" /\ Q!Assign(row, cols).cols = cs
  BY <1>2
<1>4. QED
  BY <1>1, <1>3

\* Without writes, the rows are the same.
LEMMA NothingWritten ==
    ASSUME NEW rows, NEW ws, DOMAIN ws = {}
    PROVE  /\ DOMAIN Q!After(rows, ws) = DOMAIN rows
           /\ \A i \in DOMAIN rows : Q!After(rows, ws)[i] = rows[i]
<1>1. DOMAIN Q!After(rows, ws) = DOMAIN rows
  BY DEF Q!After
<1>2. QED
  BY <1>1, RowAfter

LEMMA InsertOp == \A row : Q!Insert(row).op = "insert" /\ Q!Insert(row).cols = row
BY DEF Q!Insert

LEMMA UpdateOp == \A cols : Q!Update(cols).op = "update" /\ Q!Update(cols).cols = cols
BY DEF Q!Update

LEMMA DeleteOp == Q!Delete.op = "delete"
BY DEF Q!Delete

\* Rows stay good when each write is good by itself.
LEMMA GoodRows ==
    ASSUME NEW Good, NEW rows, NEW ws, \A i \in DOMAIN rows : rows[i] \in Good,
           \A i \in DOMAIN ws :
               /\ ws[i].op = "insert" => ws[i].cols \in Good
               /\ ws[i].op \notin {"insert", "delete"} /\ i \in DOMAIN rows =>
                      Q!Written(rows[i], ws[i]) \in Good
    PROVE  \A i \in DOMAIN Q!After(rows, ws) : Q!After(rows, ws)[i] \in Good
<1>1. SUFFICES ASSUME NEW i \in DOMAIN Q!After(rows, ws)
               PROVE  Q!After(rows, ws)[i] \in Good
  OBVIOUS
<1>2. QED
  BY RowAfter

\* The ids that are left after a row is inserted, removed or changed.
LEMMA OneWritten ==
    ASSUME NEW rows, NEW ws, NEW i, DOMAIN ws = {i}
    PROVE  /\ ws[i].op = "insert" => DOMAIN Q!After(rows, ws) = DOMAIN rows \cup {i}
           /\ ws[i].op = "delete" => DOMAIN Q!After(rows, ws) = DOMAIN rows \ {i}
           /\ ws[i].op = "update" => DOMAIN Q!After(rows, ws) = DOMAIN rows
BY DEF Q!After

-------------------------------------------------------------------------------
(* Push subscriptions *)

\* The strengthening of ActiveUntilThirdUnlessRaced: what the request in progress is
\* about to write will agree, too.
GoodSub == {r \in P!PushSubscription : r.is_active <=> r.failed_count < P!Limit}
GoodSubs(subs) == \A e \in DOMAIN subs : subs[e] \in GoodSub

PushInv ==
    /\ DOMAIN db = {"subs"} /\ GoodSubs(db.subs) /\ DOMAIN req = Pair
    /\ \A w \in Pair : req[w] # None =>
           DOMAIN req[w] = {"subs"} /\ GoodSubs(Q!After(db.subs, req[w].subs))
    /\ \A v, w \in Pair : v # w => req[v] = None \/ req[w] = None

LEMMA PushOps ==
    /\ \A rows, ws : P!After(rows, ws) = Q!After(rows, ws)
    /\ \A row : P!Insert(row) = Q!Insert(row)
    /\ \A cols : P!Update(cols) = Q!Update(cols)
    /\ \A row, cols : P!Assign(row, cols) = Q!Assign(row, cols)
    /\ P!Delete = Q!Delete
BY DEF P!After, Q!After, P!Written, Q!Written, P!Insert, Q!Insert, P!Update, Q!Update,
       P!Assign, Q!Assign, P!Delete, Q!Delete

\* Each handler writes to a row what keeps it good.
LEMMA RenewedGood ==
    ASSUME GoodSubs(db.subs), NEW u \in Person, NEW e
    PROVE  GoodSubs(Q!After(db.subs, P!Each({e}, P!CreateOrUpdate(u, e))))
<1>1. PICK ws : ws = P!Each({e}, P!CreateOrUpdate(u, e))
  OBVIOUS
<1>2. DOMAIN ws = {e} /\ ws[e] = P!CreateOrUpdate(u, e)
  BY <1>1 DEF P!Each
<1>3. CASE e \in DOMAIN db.subs
  <2>1. ws[e] = Q!Assign(db.subs[e], P!Renewed)
    BY <1>2, <1>3, PushOps DEF P!CreateOrUpdate, P!Known
  <2>2. db.subs[e] \in P!PushSubscription
    BY <1>3 DEF GoodSubs, GoodSub
  <2>3. PICK r : r = Q!Written(db.subs[e], ws[e])
    OBVIOUS
  <2>4. /\ DOMAIN r = DOMAIN db.subs[e] /\ ws[e].op = "update"
        /\ r = [c \in DOMAIN r |-> r[c]]
        /\ r.user = db.subs[e].user /\ r.is_active = TRUE /\ r.failed_count = 0
    <3>1. \A c \in {"user", "is_active", "failed_count"} : c \in DOMAIN db.subs[e]
      BY <2>2 DEF P!PushSubscription
    <3>2. DOMAIN P!Renewed = {"is_active", "failed_count"} /\ P!Renewed.is_active = TRUE
          /\ P!Renewed.failed_count = 0
      BY DEF P!Renewed
    <3>3. r = [c \in DOMAIN r |-> r[c]]
      BY <2>3 DEF Q!Written
    <3>4. \A c \in DOMAIN db.subs[e] :
              /\ ws[e].op = "update" /\ DOMAIN r = DOMAIN db.subs[e]
              /\ r[c] = IF c \in DOMAIN P!Renewed THEN P!Renewed[c] ELSE db.subs[e][c]
      <4>1. ASSUME NEW c \in DOMAIN db.subs[e]
            PROVE  LET after == Q!Assign(db.subs[e], P!Renewed)
                   IN  /\ after.op = "update"
                       /\ DOMAIN Q!Written(db.subs[e], after) = DOMAIN db.subs[e]
                       /\ Q!Written(db.subs[e], after)[c] =
                              IF c \in DOMAIN P!Renewed THEN P!Renewed[c] ELSE db.subs[e][c]
        BY Assigning
      <4>2. QED
        BY <2>1, <2>3, <4>1
    <3>5. QED
      BY <3>1, <3>2, <3>3, <3>4
  <2>5. r \in GoodSub
    <3>1. DOMAIN r = {"user", "is_active", "failed_count"} /\ r.user \in Person
      BY <2>2, <2>4 DEF P!PushSubscription
    <3>2. r = [user |-> r.user, is_active |-> r.is_active, failed_count |-> r.failed_count]
      BY <2>4, <3>1
    <3>3. r.is_active \in BOOLEAN /\ r.failed_count \in Nat
      <4>1. r.is_active = TRUE
        BY <2>4
      <4>2. r.is_active \in BOOLEAN
        BY <4>1, Zenon
      <4>3. QED
        BY <2>4, <4>2
    <3>4. r \in P!PushSubscription
      BY <3>1, <3>2, <3>3 DEF P!PushSubscription
    <3>5. QED
      BY <2>4, <3>4 DEF GoodSub, P!Limit
  <2>6. QED
    BY <1>1, <1>2, <2>3, <2>4, <2>5, GoodRows DEF GoodSubs
<1>4. CASE e \notin DOMAIN db.subs
  <2>1. ws[e] = Q!Insert(P!NewSubscription(u))
    BY <1>2, <1>4, PushOps DEF P!CreateOrUpdate, P!Known
  <2>2. P!NewSubscription(u) \in GoodSub
    BY DEF P!NewSubscription, GoodSub, P!PushSubscription, P!Limit
  <2>3. QED
    BY <1>1, <1>2, <2>1, <2>2, InsertOp, GoodRows DEF GoodSubs
<1>5. QED
  BY <1>3, <1>4

\* Failures are counted, and the third deactivates.
LEMMA SentGood ==
    ASSUME GoodSubs(db.subs), NEW u, NEW failed
    PROVE  GoodSubs(Q!After(db.subs, P!SendToUser(u, failed)))
<1>1. PICK ws : ws = P!SendToUser(u, failed)
  OBVIOUS
<1>2. SUFFICES ASSUME NEW e \in DOMAIN ws
               PROVE  /\ ws[e].op = "update"
                      /\ Q!Written(db.subs[e], ws[e]) \in GoodSub
  BY <1>1, GoodRows DEF GoodSubs
<1>3. /\ e \in DOMAIN db.subs /\ db.subs[e].is_active
      /\ ws[e] = IF e \in failed THEN P!Failure(e) ELSE P!Success
  BY <1>1, <1>2 DEF P!SendToUser, P!ActiveSubscriptions
<1>4. /\ db.subs[e] \in P!PushSubscription /\ db.subs[e].failed_count \in Nat
      /\ db.subs[e].failed_count < 3
  BY <1>3 DEF GoodSubs, GoodSub, P!PushSubscription, P!Limit
<1>5. PICK r, n : /\ r = Q!Written(db.subs[e], ws[e])
                  /\ n = IF e \in failed THEN db.subs[e].failed_count + 1 ELSE 0
  OBVIOUS
<1>6. n \in Nat /\ (n < 3) \in BOOLEAN
  BY <1>4, <1>5
<1>7. ws[e].op = "update" /\ r.user = db.subs[e].user /\ r.failed_count = n
      /\ r.is_active = (n < 3)
      /\ DOMAIN r = {"user", "is_active", "failed_count"} /\ r = [c \in DOMAIN r |-> r[c]]
  <2>1. DOMAIN db.subs[e] = {"user", "is_active", "failed_count"}
    BY <1>4 DEF P!PushSubscription
  <2>2. CASE e \in failed
    <3>1. PICK cols : cols = [failed_count |-> n, is_active |-> n < 3]
      OBVIOUS
    <3>2. ws[e] = Q!Assign(db.subs[e], cols)
      BY <1>3, <1>5, <2>2, <3>1, PushOps DEF P!Failure, P!Limit
    <3>3. DOMAIN cols = {"failed_count", "is_active"} /\ cols.failed_count = n
          /\ cols.is_active = (n < 3)
      BY <3>1
    <3>4. r = [c \in DOMAIN r |-> r[c]]
      BY <1>5 DEF Q!Written
    <3>5. \A c \in DOMAIN db.subs[e] :
              /\ ws[e].op = "update" /\ DOMAIN r = DOMAIN db.subs[e]
              /\ r[c] = IF c \in DOMAIN cols THEN cols[c] ELSE db.subs[e][c]
      <4>1. ASSUME NEW c \in DOMAIN db.subs[e]
            PROVE  LET after == Q!Assign(db.subs[e], cols)
                   IN  /\ after.op = "update"
                       /\ DOMAIN Q!Written(db.subs[e], after) = DOMAIN db.subs[e]
                       /\ Q!Written(db.subs[e], after)[c] =
                              IF c \in DOMAIN cols THEN cols[c] ELSE db.subs[e][c]
        BY Assigning
      <4>2. QED
        BY <1>5, <3>2, <4>1
    <3>6. QED
      BY <2>1, <3>3, <3>4, <3>5
  <2>3. CASE e \notin failed
    <3>1. PICK cols : cols = [failed_count |-> 0]
      OBVIOUS
    <3>2. ws[e] = Q!Update(cols)
      BY <1>3, <2>3, <3>1, PushOps DEF P!Success
    <3>3. DOMAIN cols = {"failed_count"} /\ cols.failed_count = 0
      BY <3>1
    <3>4. db.subs[e].is_active = (n < 3)
      <4>1. n < 3
        BY <1>5, <2>3
      <4>2. db.subs[e].is_active \in BOOLEAN
        BY <1>4 DEF P!PushSubscription
      <4>3. PICK b \in BOOLEAN, c \in BOOLEAN : b = db.subs[e].is_active /\ c = (n < 3)
        BY <1>6, <4>2
      <4>4. b /\ c
        BY <1>3, <4>1, <4>3
      <4>5. QED
        BY <4>3, <4>4
    <3>5. QED
      BY <1>5, <2>1, <2>3, <3>2, <3>3, <3>4, UpdateOp, Updating DEF Q!Written
  <2>4. QED
    BY <2>2, <2>3
<1>8. r = [user |-> r.user, is_active |-> r.is_active, failed_count |-> r.failed_count]
  BY <1>7
<1>9. r.user \in Person /\ r.is_active \in BOOLEAN /\ r.failed_count \in Nat
  BY <1>4, <1>6, <1>7 DEF P!PushSubscription
<1>10. r \in P!PushSubscription
  BY <1>8, <1>9 DEF P!PushSubscription
<1>11. QED
  BY <1>5, <1>7, <1>10 DEF GoodSub, P!Limit

LEMMA PushHandlers ==
    ASSUME GoodSubs(db.subs), NEW w \in Pair, NEW changes, P!Hold(w, changes),
           \/ \E e : changes = [subs |-> P!Each({e}, P!Delete)]
           \/ \E u \in Person : \E e : changes = [subs |-> P!Each({e}, P!CreateOrUpdate(u, e))]
           \/ \E u, failed : changes = [subs |-> P!SendToUser(u, failed)]
    PROVE  DOMAIN changes = {"subs"} /\ GoodSubs(Q!After(db.subs, changes.subs))
<1>1. ASSUME NEW e
      PROVE  GoodSubs(Q!After(db.subs, P!Each({e}, P!Delete)))
  <2>1. PICK ws : ws = P!Each({e}, P!Delete)
    OBVIOUS
  <2>2. DOMAIN ws = {e} /\ ws[e].op = "delete"
    BY <2>1, PushOps, DeleteOp DEF P!Each
  <2>3. QED
    BY <2>1, <2>2, GoodRows DEF GoodSubs
<1>2. PICK ws : changes = [subs |-> ws] /\ GoodSubs(Q!After(db.subs, ws))
  BY <1>1, RenewedGood, SentGood
<1>3. QED
  BY <1>2

LEMMA PushStep ==
    ASSUME part = "push", disturbed \/ PushInv, MCNext
    PROVE  disturbed' \/ PushInv'
<1>1. SUFFICES ASSUME ~disturbed' PROVE PushInv'
  OBVIOUS
<1>2. PushInv /\ P!Next
  BY <1>1, Undisturbed, PushParts
<1>3. \A v, w \in Pair : v # w => req'[v] = None \/ req'[w] = None
  BY <1>1, <1>2, Undisturbed DEF PushInv, Idle
<1>4. ASSUME NEW w \in Pair, NEW changes, P!Hold(w, changes),
             \/ \E e : changes = [subs |-> P!Each({e}, P!Delete)]
             \/ \E u \in Person : \E e : changes = [subs |-> P!Each({e}, P!CreateOrUpdate(u, e))]
             \/ \E u, failed : changes = [subs |-> P!SendToUser(u, failed)]
      PROVE  PushInv'
  <2>1. DOMAIN changes = {"subs"} /\ GoodSubs(Q!After(db.subs, changes.subs))
    BY <1>2, <1>4, PushHandlers DEF PushInv
  <2>2. /\ db' = db /\ DOMAIN req' = Pair /\ req'[w] = changes
        /\ \A v \in Pair \ {w} : req'[v] = req[v]
    BY <1>2, <1>4 DEF P!Hold, PushInv
  <2>3. \A v \in Pair : req'[v] # None =>
            DOMAIN req'[v] = {"subs"} /\ GoodSubs(Q!After(db.subs, req'[v].subs))
    BY <1>2, <2>1, <2>2 DEF PushInv
  <2>4. QED
    BY <1>2, <1>3, <2>2, <2>3 DEF PushInv
<1>5. ASSUME NEW w \in Pair, P!Commit(w)
      PROVE  PushInv'
  <2>1. /\ req[w] # None /\ req' = [req EXCEPT ![w] = None]
        /\ db' = P!AfterAll(req[w])
    BY <1>5 DEF P!Commit, P!CommitAs, P!Free
  <2>2. db' = [t \in {"subs"} |-> Q!After(db.subs, req[w].subs)]
    BY <1>2, <2>1, PushOps DEF PushInv, P!AfterAll
  <2>3. DOMAIN db' = {"subs"} /\ GoodSubs(db'.subs)
    BY <1>2, <2>1, <2>2 DEF PushInv
  <2>4. DOMAIN req' = Pair /\ \A v \in Pair : req'[v] = None
    BY <1>2, <2>1 DEF PushInv
  <2>5. QED
    BY <2>3, <2>4 DEF PushInv
<1>6. ASSUME NEW w \in Pair, P!Rollback(w)
      PROVE  PushInv'
  <2>1. db' = db /\ req' = [req EXCEPT ![w] = None]
    BY <1>6 DEF P!Rollback
  <2>2. DOMAIN req' = Pair /\ \A v \in Pair : req'[v] = None \/ req'[v] = req[v]
    BY <1>2, <2>1 DEF PushInv
  <2>3. QED
    BY <1>2, <2>1, <2>2 DEF PushInv
<1>7. QED
  BY <1>2, <1>4, <1>5, <1>6 DEF P!Next, P!Unsubscribe, P!Subscribe, P!TestNotification

LEMMA PushStart ==
    ASSUME part = "push", MCInit
    PROVE  PushInv
<1>1. db = [t \in {"subs"} |-> P!NoRows] /\ req = [w \in Pair |-> None]
  BY PushParts DEF P!Init, P!Start
<1>2. DOMAIN db.subs = {}
  BY <1>1 DEF P!NoRows
<1>3. QED
  BY <1>1, <1>2 DEF PushInv, GoodSubs

\* As long as no two requests overlap, a push subscription is active exactly until
\* three failures in a row, for any users, requests and endpoints (record_failure,
\* create_or_update).
THEOREM ActiveUntilThird == MCSpec => []ActiveUntilThirdUnlessRaced
<1> DEFINE Inv == part = "push" => disturbed \/ PushInv
<1>1. MCInit => Inv
  BY PushStart
<1>2. Inv /\ [MCNext]_mcvars => Inv'
  <2>1. CASE MCNext
    BY <2>1, PushStep, SamePart
  <2>2. CASE UNCHANGED mcvars
    BY <2>2 DEF mcvars, PushInv
  <2>3. QED
    BY <2>1, <2>2
<1>3. Inv => ActiveUntilThirdUnlessRaced
  BY DEF ActiveUntilThirdUnlessRaced, PushInv, P!ActiveUntilThird, GoodSubs, GoodSub
<1>4. QED
  BY <1>1, <1>2, <1>3, PTL DEF MCSpec

-------------------------------------------------------------------------------
(* Tickets *)

LEMMA TicketParts ==
    /\ part = "tickets" /\ MCInit => T!Init
    /\ part = "tickets" /\ MCNext => T!Next
BY DEF MCInit, PartInit, MCNext, RowsNext

Columns == {"status", "priority", "responseDue", "resolutionDue", "firstResponse",
            "resolvedAt", "closedAt"}

\* What every request writes in itself: due dates go with the priority, a finished
\* status comes with its timestamp, and a timestamp is cleared by opening the ticket.
GoodChange(c) ==
    /\ DOMAIN c \subseteq Columns
    /\ "status" \in DOMAIN c =>
           /\ c.status \in T!Status
           /\ c.status = "resolved" => "resolvedAt" \in DOMAIN c /\ c.resolvedAt
           /\ c.status = "closed" => "closedAt" \in DOMAIN c /\ c.closedAt
    /\ \A d \in {"resolvedAt", "closedAt"} : d \in DOMAIN c =>
           /\ c[d] \in BOOLEAN
           /\ ~c[d] => "status" \in DOMAIN c /\ c.status = "open"
    /\ {"priority", "responseDue", "resolutionDue"} \cap DOMAIN c # {} =>
           /\ {"priority", "responseDue", "resolutionDue"} \subseteq DOMAIN c
           /\ c.priority \in Priority
           /\ c.responseDue = c.priority /\ c.resolutionDue = c.priority
    /\ "firstResponse" \in DOMAIN c => c.firstResponse \in Worker

GoodTicket(r) ==
    /\ r \in T!Ticket
    /\ r.responseDue = r.priority /\ r.resolutionDue = r.priority
    /\ r.status = "resolved" => r.resolvedAt
    /\ r.status = "closed" => r.closedAt

TicketInv ==
    /\ DOMAIN req = Worker
    /\ db = T!Absent \/ db = T!Deleted \/ GoodTicket(db)
    /\ \A w \in Worker : req[w] = T!NoChange \/ GoodChange(req[w])

\* A good change leaves a good ticket.
LEMMA MergeGood ==
    ASSUME NEW r, NEW c, GoodTicket(r), GoodChange(c)
    PROVE  GoodTicket(T!Merge(r, c))
<1>1. PICK m : m = T!Merge(r, c)
  OBVIOUS
<1>2. /\ DOMAIN r = Columns
      /\ r.status \in T!Status /\ r.priority \in Priority
      /\ r.firstResponse \in Worker \cup {None}
      /\ r.resolvedAt \in BOOLEAN /\ r.closedAt \in BOOLEAN
      /\ r.responseDue = r.priority /\ r.resolutionDue = r.priority
  BY DEF GoodTicket, T!Ticket, Columns
<1>3. /\ DOMAIN m = Columns /\ m = [d \in Columns |-> m[d]]
      /\ \A d \in Columns : m[d] = IF d \in DOMAIN c THEN c[d] ELSE r[d]
  BY <1>1, <1>2 DEF T!Merge
<1>4. /\ m.priority \in Priority /\ m.responseDue = m.priority /\ m.resolutionDue = m.priority
      /\ m.firstResponse \in Worker \cup {None} /\ m.status \in T!Status
  BY <1>2, <1>3 DEF GoodChange, Columns
<1>5. m.resolvedAt \in BOOLEAN /\ m.closedAt \in BOOLEAN
  BY <1>2, <1>3 DEF GoodChange, Columns
<1>6. m = [status |-> m.status, priority |-> m.priority, responseDue |-> m.responseDue,
           resolutionDue |-> m.resolutionDue, firstResponse |-> m.firstResponse,
           resolvedAt |-> m.resolvedAt, closedAt |-> m.closedAt]
  BY <1>3 DEF Columns
<1>7. m \in T!Ticket
  BY <1>4, <1>5, <1>6 DEF T!Ticket
<1>8. m.status = "resolved" => m.resolvedAt
  BY <1>2, <1>3 DEF GoodChange, Columns, GoodTicket
<1>9. m.status = "closed" => m.closedAt
  BY <1>2, <1>3 DEF GoodChange, Columns, GoodTicket
<1>10. QED
  BY <1>1, <1>4, <1>7, <1>8, <1>9 DEF GoodTicket

LEMMA TicketChanges ==
    ASSUME NEW w \in Worker, NEW changes, T!Exists => GoodTicket(db),
           \/ \E s \in T!Status : T!ChangeStatus(w, s) /\ changes = T!Stamps(db, s)
           \/ T!Assign(w) /\ changes = [status |-> "in_progress"]
           \/ \E p \in Priority : T!UpdateTicket(w, p) /\ changes = T!Reprioritised(p)
           \/ T!AddComment(w) /\ changes = [firstResponse |-> w]
    PROVE  GoodChange(changes) /\ T!Hold(w, changes)
<1>1. ASSUME NEW s \in T!Status, T!ChangeStatus(w, s), changes = T!Stamps(db, s)
      PROVE  GoodChange(changes)
  <2>1. CASE s = "resolved"
    <3>1. changes = [status |-> s, resolvedAt |-> TRUE]
      BY <1>1, <2>1 DEF T!Stamps
    <3>2. QED
      BY <2>1, <3>1 DEF GoodChange, Columns, T!Status
  <2>2. CASE s = "closed"
    <3>1. changes = [status |-> s, closedAt |-> TRUE]
      BY <1>1, <2>2 DEF T!Stamps
    <3>2. QED
      BY <2>2, <3>1 DEF GoodChange, Columns, T!Status
  <2>3. CASE s = "open" /\ db.status = "closed" /\ db.resolvedAt
    <3>1. changes = [status |-> s, closedAt |-> FALSE, resolvedAt |-> FALSE]
      BY <1>1, <2>3 DEF T!Stamps
    <3>2. QED
      BY <2>3, <3>1 DEF GoodChange, Columns, T!Status
  <2>4. CASE s = "open" /\ db.status = "closed" /\ ~db.resolvedAt
    <3>1. changes = [status |-> s, closedAt |-> FALSE]
      BY <1>1, <2>4 DEF T!Stamps
    <3>2. QED
      BY <2>4, <3>1 DEF GoodChange, Columns, T!Status
  <2>5. CASE s \notin {"resolved", "closed"} /\ ~(s = "open" /\ db.status = "closed")
    <3>1. changes = [status |-> s]
      BY <1>1, <2>5 DEF T!Stamps
    <3>2. QED
      BY <1>1, <2>5, <3>1 DEF GoodChange, Columns
  <2>6. QED
    BY <2>1, <2>2, <2>3, <2>4, <2>5
<1>2. ASSUME changes = [status |-> "in_progress"] PROVE GoodChange(changes)
  BY <1>2 DEF GoodChange, Columns, T!Status
<1>3. ASSUME NEW p \in Priority, changes = T!Reprioritised(p) PROVE GoodChange(changes)
  BY <1>3 DEF GoodChange, Columns, T!Reprioritised
<1>4. ASSUME changes = [firstResponse |-> w] PROVE GoodChange(changes)
  BY <1>4 DEF GoodChange, Columns
<1>5. QED
  BY <1>1, <1>2, <1>3, <1>4 DEF T!ChangeStatus, T!Assign, T!UpdateTicket, T!AddComment

LEMMA TicketStep ==
    ASSUME part = "tickets", TicketInv, MCNext
    PROVE  TicketInv'
<1>1. T!Next /\ (T!Exists => GoodTicket(db))
  BY TicketParts DEF TicketInv, T!Exists, T!Absent, T!Deleted, T!Status
<1>2. ASSUME NEW w \in Worker, NEW changes, GoodChange(changes), T!Hold(w, changes)
      PROVE  TicketInv'
  <2>1. /\ db' = db /\ DOMAIN req' = Worker /\ req'[w] = changes
        /\ \A v \in Worker \ {w} : req'[v] = req[v]
    BY <1>2 DEF T!Hold, TicketInv
  <2>2. QED
    BY <1>2, <2>1 DEF TicketInv
<1>3. ASSUME NEW w \in Worker, T!Commit(w) \/ T!Abort(w)
      PROVE  TicketInv'
  <2>1. /\ req[w] # T!NoChange /\ req' = [req EXCEPT ![w] = T!NoChange]
        /\ db' = db \/ (T!Exists /\ db' = T!Merge(db, req[w]))
    BY <1>3 DEF T!Commit, T!Abort
  <2>2. \A v \in Worker : req'[v] = T!NoChange \/ GoodChange(req'[v])
    BY <2>1 DEF TicketInv
  <2>3. db' = db \/ GoodTicket(db')
    BY <1>1, <2>1, MergeGood DEF TicketInv
  <2>4. DOMAIN req' = Worker
    BY <2>1 DEF TicketInv
  <2>5. QED
    BY <2>2, <2>3, <2>4 DEF TicketInv
<1>4. ASSUME NEW p \in Priority, T!CreateTicket(p)
      PROVE  TicketInv'
  <2>1. req' = req /\ db' = T!New(p)
    BY <1>4 DEF T!CreateTicket
  <2>2. GoodTicket(T!New(p))
    BY DEF GoodTicket, T!New, T!Ticket, T!Status
  <2>3. QED
    BY <2>1, <2>2 DEF TicketInv
<1>5. CASE T!DeleteTicket
  BY <1>5 DEF T!DeleteTicket, TicketInv
<1>6. ASSUME NEW w \in Worker,
             \/ \E s \in T!Status : T!ChangeStatus(w, s)
             \/ \E p \in Priority : T!UpdateTicket(w, p)
             \/ T!Assign(w) \/ T!AddComment(w)
      PROVE  TicketInv'
  BY <1>1, <1>2, <1>6, TicketChanges
<1>7. QED
  BY <1>1, <1>3, <1>4, <1>5, <1>6 DEF T!Next

LEMMA TicketStart ==
    ASSUME part = "tickets", MCInit
    PROVE  TicketInv
<1>1. db = T!Absent /\ req = [w \in Worker |-> T!NoChange]
  BY TicketParts DEF T!Init
<1>2. QED
  BY <1>1 DEF TicketInv

LEMMA TicketStamps ==
    ASSUME TicketInv
    PROVE  T!DuesMatchPriority /\ T!FinishedIsStamped /\ T!TypeOK
BY DEF TicketInv, GoodTicket, T!DuesMatchPriority, T!FinishedIsStamped, T!TypeOK, T!Exists,
       T!Absent, T!Deleted, T!Status

\* The strengthening of TicketWorkflowUnlessRaced: what the one request in progress is
\* about to write is legal for the row as it is.
LegalChange(c) ==
    /\ "status" \in DOMAIN c => c.status \in T!VALID_STATUS_TRANSITIONS[db.status]
    /\ "firstResponse" \in DOMAIN c => db.firstResponse = None
    /\ T!Merge(db, c).closedAt <=> T!Merge(db, c).status = "closed"

FlowInv ==
    /\ \A v, w \in Worker : v # w => req[v] = T!NoChange \/ req[w] = T!NoChange
    /\ db = T!Absent => \A w \in Worker : req[w] = T!NoChange
    /\ T!OnlyClosedIsStamped
    /\ T!Exists => \A w \in Worker : req[w] = T!NoChange \/ LegalChange(req[w])

LEMMA Transitions ==
    /\ T!VALID_STATUS_TRANSITIONS["open"] = {"in_progress", "closed"}
    /\ T!VALID_STATUS_TRANSITIONS["in_progress"] = {"waiting", "resolved", "open"}
    /\ T!VALID_STATUS_TRANSITIONS["waiting"] = {"in_progress", "closed"}
    /\ T!VALID_STATUS_TRANSITIONS["resolved"] = {"closed", "in_progress"}
    /\ T!VALID_STATUS_TRANSITIONS["closed"] = {"open"}
BY DEF T!VALID_STATUS_TRANSITIONS

\* The columns of a row after a change.
LEMMA MergeColumns ==
    ASSUME NEW r, GoodTicket(r), NEW c, NEW d \in Columns
    PROVE  T!Merge(r, c)[d] = IF d \in DOMAIN c THEN c[d] ELSE r[d]
BY DEF T!Merge, GoodTicket, T!Ticket, Columns

LEMMA MergeStamp ==
    ASSUME NEW r, GoodTicket(r), NEW c
    PROVE  /\ T!Merge(r, c).status = IF "status" \in DOMAIN c THEN c.status ELSE r.status
           /\ T!Merge(r, c).closedAt =
                  IF "closedAt" \in DOMAIN c THEN c.closedAt ELSE r.closedAt
           /\ T!Merge(r, c).firstResponse =
                  IF "firstResponse" \in DOMAIN c THEN c.firstResponse ELSE r.firstResponse
BY MergeColumns DEF Columns

LEMMA LegalChanges ==
    ASSUME NEW w \in Worker, NEW changes, T!Exists, GoodTicket(db), T!OnlyClosedIsStamped,
           \/ \E s \in T!Status : T!ChangeStatus(w, s) /\ changes = T!Stamps(db, s)
           \/ T!Assign(w) /\ changes = [status |-> "in_progress"]
           \/ \E p \in Priority : T!UpdateTicket(w, p) /\ changes = T!Reprioritised(p)
           \/ T!AddComment(w) /\ changes = [firstResponse |-> w]
    PROVE  LegalChange(changes)
<1>1. db.closedAt <=> db.status = "closed"
  BY DEF T!OnlyClosedIsStamped
<1>2. ASSUME NEW s \in T!Status, T!ChangeStatus(w, s), changes = T!Stamps(db, s)
      PROVE  LegalChange(changes)
  <2>1. s \in T!VALID_STATUS_TRANSITIONS[db.status] /\ db.status \in T!Status
    BY <1>2 DEF T!ChangeStatus, T!Exists
  <2>2. CASE s = "resolved"
    <3>1. changes = [status |-> s, resolvedAt |-> TRUE]
      BY <1>2, <2>2 DEF T!Stamps
    <3>2. db.status # "closed"
      BY <2>1, <2>2, Transitions
    <3>3. DOMAIN changes = {"status", "resolvedAt"} /\ changes.status = s
      BY <3>1
    <3>4. QED
      BY <1>1, <2>1, <2>2, <3>2, <3>3, MergeStamp DEF LegalChange
  <2>3. CASE s = "closed"
    <3>1. changes = [status |-> s, closedAt |-> TRUE]
      BY <1>2, <2>3 DEF T!Stamps
    <3>2. DOMAIN changes = {"status", "closedAt"} /\ changes.status = s /\ changes.closedAt
      BY <3>1
    <3>3. QED
      BY <2>1, <2>3, <3>2, MergeStamp DEF LegalChange
  <2>4. CASE s = "open" /\ db.status = "closed"
    <3>1. \/ changes = [status |-> s, closedAt |-> FALSE, resolvedAt |-> FALSE]
          \/ changes = [status |-> s, closedAt |-> FALSE]
      BY <1>2, <2>4 DEF T!Stamps
    <3>2. /\ "status" \in DOMAIN changes /\ "closedAt" \in DOMAIN changes
          /\ "firstResponse" \notin DOMAIN changes
          /\ changes.status = s /\ ~changes.closedAt
      BY <3>1
    <3>3. QED
      BY <2>1, <2>4, <3>2, MergeStamp DEF LegalChange
  <2>5. CASE s \notin {"resolved", "closed"} /\ ~(s = "open" /\ db.status = "closed")
    <3>1. changes = [status |-> s]
      BY <1>2, <2>5 DEF T!Stamps
    <3>2. db.status # "closed"
      BY <2>1, <2>5, Transitions
    <3>3. DOMAIN changes = {"status"} /\ changes.status = s
      BY <3>1
    <3>4. QED
      BY <1>1, <2>1, <2>5, <3>2, <3>3, MergeStamp DEF LegalChange
  <2>6. QED
    BY <2>2, <2>3, <2>4, <2>5
<1>3. ASSUME T!Assign(w), changes = [status |-> "in_progress"]
      PROVE  LegalChange(changes)
  <2>1. db.status = "open" /\ DOMAIN changes = {"status"} /\ changes.status = "in_progress"
    BY <1>3 DEF T!Assign
  <2>2. QED
    BY <1>1, <2>1, Transitions, MergeStamp DEF LegalChange
<1>4. ASSUME NEW p \in Priority, changes = T!Reprioritised(p)
      PROVE  LegalChange(changes)
  <2>1. DOMAIN changes = {"priority", "responseDue", "resolutionDue"}
    BY <1>4 DEF T!Reprioritised
  <2>2. QED
    BY <1>1, <2>1, MergeStamp DEF LegalChange
<1>5. ASSUME T!AddComment(w), changes = [firstResponse |-> w]
      PROVE  LegalChange(changes)
  <2>1. DOMAIN changes = {"firstResponse"} /\ db.firstResponse = None
    BY <1>5 DEF T!AddComment
  <2>2. QED
    BY <1>1, <2>1, MergeStamp DEF LegalChange
<1>6. QED
  BY <1>2, <1>3, <1>4, <1>5

LEMMA FlowStep ==
    ASSUME part = "tickets", TicketInv, disturbed \/ FlowInv, MCNext
    PROVE  disturbed' \/ FlowInv'
<1>1. SUFFICES ASSUME ~disturbed' PROVE FlowInv'
  OBVIOUS
<1>2. /\ FlowInv /\ T!Next /\ (T!Exists => GoodTicket(db))
      /\ \A v, w \in Worker : v # w => req'[v] = T!NoChange \/ req'[w] = T!NoChange
  BY <1>1, Undisturbed, TicketParts
     DEF TicketInv, Idle, T!Exists, T!Absent, T!Deleted, T!Status
<1>3. ASSUME NEW w \in Worker, NEW changes, LegalChange(changes), T!Hold(w, changes)
      PROVE  FlowInv'
  <2>1. /\ db' = db /\ req'[w] = changes /\ T!Exists
        /\ \A v \in Worker \ {w} : req'[v] = req[v]
    BY <1>3 DEF T!Hold, TicketInv
  <2>2. db # T!Absent
    BY <2>1 DEF T!Exists, T!Absent, T!Status
  <2>3. T!OnlyClosedIsStamped' /\ (LegalChange(changes))' /\ T!Exists'
    BY <1>2, <1>3, <2>1 DEF FlowInv, T!OnlyClosedIsStamped, T!Exists, LegalChange, T!Merge
  <2>4. \A v \in Worker : req'[v] = T!NoChange \/ LegalChange(req[v])' 
    BY <1>2, <1>3, <2>1 DEF FlowInv, LegalChange, T!Merge
  <2>5. QED
    BY <1>2, <2>1, <2>2, <2>3, <2>4 DEF FlowInv
<1>4. ASSUME NEW w \in Worker, T!Commit(w) \/ T!Abort(w)
      PROVE  FlowInv'
  <2>1. /\ req[w] # T!NoChange /\ req' = [req EXCEPT ![w] = T!NoChange]
        /\ db' = db \/ (T!Exists /\ db' = T!Merge(db, req[w]))
    BY <1>4 DEF T!Commit, T!Abort
  <2>2. \A v \in Worker : req'[v] = T!NoChange
    BY <1>2, <2>1 DEF FlowInv, TicketInv
  <2>3. T!OnlyClosedIsStamped'
    BY <1>2, <2>1 DEF FlowInv, T!OnlyClosedIsStamped, T!Exists, LegalChange
  <2>4. QED
    BY <2>2, <2>3 DEF FlowInv
<1>5. ASSUME NEW p \in Priority, T!CreateTicket(p)
      PROVE  FlowInv'
  <2>1. req' = req /\ db' = T!New(p) /\ \A w \in Worker : req[w] = T!NoChange
    BY <1>2, <1>5 DEF T!CreateTicket, FlowInv
  <2>2. QED
    BY <2>1 DEF FlowInv, T!OnlyClosedIsStamped, T!New
<1>6. CASE T!DeleteTicket
  <2>1. req' = req /\ db' = T!Deleted
    BY <1>6 DEF T!DeleteTicket
  <2>2. db' # T!Absent /\ ~T!Exists'
    BY <2>1 DEF T!Deleted, T!Absent, T!Exists, T!Status
  <2>3. QED
    BY <1>2, <2>1, <2>2 DEF FlowInv, T!OnlyClosedIsStamped
<1>7. ASSUME NEW w \in Worker,
             \/ \E s \in T!Status : T!ChangeStatus(w, s)
             \/ \E p \in Priority : T!UpdateTicket(w, p)
             \/ T!Assign(w) \/ T!AddComment(w)
      PROVE  FlowInv'
  <2>1. T!Exists
    BY <1>7 DEF T!ChangeStatus, T!UpdateTicket, T!Assign, T!AddComment
  <2>2. QED
    BY <1>2, <1>3, <1>7, <2>1, LegalChanges, TicketChanges DEF FlowInv
<1>8. QED
  BY <1>2, <1>4, <1>5, <1>6, <1>7 DEF T!Next

\* A committed change of a ticket is the one that a request has promised.
LEMMA FlowAction ==
    ASSUME part = "tickets", TicketInv, disturbed \/ FlowInv, MCNext, ~disturbed',
           T!Exists, T!Exists'
    PROVE  /\ db'.status \in T!VALID_STATUS_TRANSITIONS[db.status] \cup {db.status}
           /\ db.firstResponse # None => db'.firstResponse = db.firstResponse
<1>1. FlowInv /\ T!Next /\ GoodTicket(db)
  BY Undisturbed, TicketParts DEF TicketInv, T!Exists, T!Absent, T!Deleted, T!Status
<1>2. db' = db \/ \E w \in Worker : req[w] # T!NoChange /\ db' = T!Merge(db, req[w])
  BY <1>1 DEF T!Next, T!ChangeStatus, T!UpdateTicket, T!Assign, T!AddComment, T!Hold,
              T!Commit, T!Abort, T!CreateTicket, T!DeleteTicket, T!Exists, T!Absent,
              T!Deleted, T!Status
<1>3. QED
  BY <1>1, <1>2, MergeStamp DEF FlowInv, LegalChange

LEMMA FlowStart ==
    ASSUME part = "tickets", MCInit
    PROVE  FlowInv
<1>1. db = T!Absent /\ req = [w \in Worker |-> T!NoChange]
  BY TicketParts DEF T!Init
<1>2. QED
  BY <1>1 DEF FlowInv, T!OnlyClosedIsStamped, T!Exists, T!Absent, T!Status

\* As long as no two requests overlap, each committed change of a ticket's status is a
\* transition of VALID_STATUS_TRANSITIONS, a first response stays the first, and exactly
\* a closed ticket has a closing time (change_status, assign, record_first_response).
THEOREM TicketWorkflow == MCSpec => TicketWorkflowUnlessRaced
<1> DEFINE Inv == part = "tickets" => TicketInv /\ (disturbed \/ FlowInv)
           Legal == part = "tickets" /\ ~disturbed' /\ T!Exists /\ T!Exists' =>
                        /\ db'.status \in T!VALID_STATUS_TRANSITIONS[db.status] \cup {db.status}
                        /\ db.firstResponse # None => db'.firstResponse = db.firstResponse
                        /\ T!OnlyClosedIsStamped'
<1>1. MCInit => Inv
  BY TicketStart, FlowStart
<1>2. Inv /\ [MCNext]_mcvars => Inv'
  <2>1. CASE MCNext
    BY <2>1, TicketStep, FlowStep, SamePart
  <2>2. CASE UNCHANGED mcvars
    BY <2>2 DEF mcvars, TicketInv, FlowInv, LegalChange, T!OnlyClosedIsStamped, T!Exists,
                GoodChange, GoodTicket, T!Merge
  <2>3. QED
    BY <2>1, <2>2
<1>3. Inv /\ Inv' /\ [MCNext]_mcvars => [Legal]_mcvars
  BY FlowAction, SamePart DEF FlowInv
<1>4. QED
  BY <1>1, <1>2, <1>3, PTL DEF MCSpec, TicketWorkflowUnlessRaced

-------------------------------------------------------------------------------
(* Comments of tickets *)

\* The strengthening of AnsweredIsStamped: a pending answer has the stamp of its ticket
\* with it, or the ticket has it already; no request takes a stamp or a creator away;
\* and a pending new ticket is of an id that nobody else has seen.
Responds(m, row) == m.user \in Admin /\ ~m.is_internal /\ row.created_by # m.user

TicketWrites(q) == IF q # None /\ "tickets" \in DOMAIN q THEN q.tickets ELSE C!NoRows
CommentWrites(q) == IF q # None /\ "comments" \in DOMAIN q THEN q.comments ELSE C!NoRows

GoodTicketWrite(write) ==
    /\ write.op \in {"insert", "update", "delete"}
    /\ write.op = "insert" => {"created_by", "responded"} \subseteq DOMAIN write.cols
    /\ write.op = "update" =>
           /\ "created_by" \notin DOMAIN write.cols
           /\ "responded" \in DOMAIN write.cols => write.cols.responded

Stamping(write) == write.op = "update" /\ "responded" \in DOMAIN write.cols

GoodCommentWrite(tickets, tw, write) ==
    /\ write.op \in {"insert", "delete"}
    /\ write.op = "insert" =>
           LET t == write.cols.ticket
           IN  t \in DOMAIN tickets /\ Responds(write.cols, tickets[t]) =>
                   tickets[t].responded \/ (t \in DOMAIN tw /\ Stamping(tw[t]))

\* The ids that a request has read or been given.
Seen(t, q) ==
    \/ t \in DOMAIN TicketWrites(q)
    \/ \E c \in DOMAIN CommentWrites(q) :
           CommentWrites(q)[c].op = "insert" /\ CommentWrites(q)[c].cols.ticket = t

GoodComments(tickets, comments) ==
    \A c \in DOMAIN comments :
        LET t == comments[c].ticket
        IN  /\ t \in DOMAIN tickets
            /\ Responds(comments[c], tickets[t]) => tickets[t].responded

CommentInv ==
    /\ {"tickets", "comments"} \subseteq DOMAIN db /\ DOMAIN req = Pair /\ seq \in Nat
    /\ \A t \in DOMAIN db.tickets :
           t \in Nat /\ t < seq /\ {"created_by", "responded"} \subseteq DOMAIN db.tickets[t]
    /\ GoodComments(db.tickets, db.comments)
    /\ \A w \in Pair : LET tw == TicketWrites(req[w]) IN
           /\ \A t : Seen(t, req[w]) => t \in Nat /\ t < seq
           /\ \A t \in DOMAIN tw :
                  /\ GoodTicketWrite(tw[t])
                  /\ tw[t].op = "insert" =>
                         /\ t \notin DOMAIN db.tickets
                         /\ \A v \in Pair \ {w} : ~Seen(t, req[v])
                         /\ DOMAIN CommentWrites(req[w]) = {}
           /\ \A c \in DOMAIN CommentWrites(req[w]) :
                  GoodCommentWrite(db.tickets, tw, CommentWrites(req[w])[c])

LEMMA CommentOps ==
    /\ \A rows, ws : C!After(rows, ws) = Q!After(rows, ws)
    /\ \A row : C!Insert(row) = Q!Insert(row)
    /\ \A cols : C!Update(cols) = Q!Update(cols)
    /\ \A row, cols : C!Assign(row, cols) = Q!Assign(row, cols)
    /\ C!Delete = Q!Delete
    /\ DOMAIN C!NoRows = {}
BY DEF C!After, Q!After, C!Written, Q!Written, C!Insert, Q!Insert, C!Update, Q!Update,
       C!Assign, Q!Assign, C!Delete, Q!Delete, C!NoRows

\* A ticket after a good write keeps its creator and its stamp, and gets the stamp that
\* is written.
LEMMA TicketWritten ==
    ASSUME NEW row, {"created_by", "responded"} \subseteq DOMAIN row, NEW write,
           write.op = "update", GoodTicketWrite(write)
    PROVE  LET new == Q!Written(row, write)
           IN  /\ {"created_by", "responded"} \subseteq DOMAIN new
               /\ new.created_by = row.created_by
               /\ row.responded \/ Stamping(write) => new.responded
<1>1. PICK new : new = Q!Written(row, write)
  OBVIOUS
<1>2. /\ DOMAIN new = DOMAIN row
      /\ \A c \in {"created_by", "responded"} :
             new[c] = IF c \in DOMAIN write.cols THEN write.cols[c] ELSE row[c]
  BY <1>1, Updating
<1>3. /\ new.created_by = row.created_by
      /\ new.responded = IF "responded" \in DOMAIN write.cols THEN write.cols.responded
                         ELSE row.responded
      /\ "responded" \in DOMAIN write.cols => write.cols.responded
  BY <1>2 DEF GoodTicketWrite
<1>4. QED
  BY <1>1, <1>2, <1>3 DEF Stamping

\* The rows of tickets and comments after a commit; comments have their tickets.
LEMMA CommentCommitted ==
    ASSUME CommentInv, NEW w \in Pair, C!CommitTicket(w)
    PROVE  /\ req' = [req EXCEPT ![w] = None] /\ seq' = seq
           /\ {"tickets", "comments"} \subseteq DOMAIN db'
           /\ LET tickets == Q!After(db.tickets, TicketWrites(req[w]))
                  comments == Q!After(db.comments, CommentWrites(req[w]))
              IN  /\ DOMAIN db'.tickets = DOMAIN tickets
                  /\ \A t \in DOMAIN tickets : db'.tickets[t] = tickets[t]
                  /\ DOMAIN db'.comments = DOMAIN comments
                  /\ \A c \in DOMAIN comments : db'.comments[c] = comments[c]
           /\ \A c \in DOMAIN db'.comments : db'.comments[c].ticket \in DOMAIN db'.tickets
<1>1. /\ req[w] # None /\ req' = [req EXCEPT ![w] = None] /\ seq' = seq
      /\ db' = C!AfterAll(req[w]) /\ C!Intact(db')
  BY DEF C!CommitTicket, C!CommitAs, C!Free
<1>2. /\ DOMAIN db' = DOMAIN db
      /\ db'.tickets = IF "tickets" \in DOMAIN req[w]
                       THEN Q!After(db.tickets, req[w].tickets) ELSE db.tickets
      /\ db'.comments = IF "comments" \in DOMAIN req[w]
                        THEN Q!After(db.comments, req[w].comments) ELSE db.comments
  BY <1>1, CommentOps DEF CommentInv, C!AfterAll
<1>3. /\ TicketWrites(req[w]) = IF "tickets" \in DOMAIN req[w] THEN req[w].tickets ELSE C!NoRows
      /\ CommentWrites(req[w]) = IF "comments" \in DOMAIN req[w] THEN req[w].comments
                                 ELSE C!NoRows
  BY <1>1 DEF TicketWrites, CommentWrites
<1>4. PICK tickets : tickets = Q!After(db.tickets, TicketWrites(req[w]))
  OBVIOUS
<1>5. PICK comments : comments = Q!After(db.comments, CommentWrites(req[w]))
  OBVIOUS
<1>6. DOMAIN db'.tickets = DOMAIN tickets /\ \A t \in DOMAIN tickets : db'.tickets[t] = tickets[t]
  <2>1. CASE "tickets" \in DOMAIN req[w]
    BY <1>2, <1>3, <1>4, <2>1
  <2>2. CASE "tickets" \notin DOMAIN req[w]
    BY <1>2, <1>3, <1>4, <2>2, CommentOps, NothingWritten
  <2>3. QED
    BY <2>1, <2>2
<1>7. /\ DOMAIN db'.comments = DOMAIN comments
      /\ \A c \in DOMAIN comments : db'.comments[c] = comments[c]
  <2>1. CASE "comments" \in DOMAIN req[w]
    BY <1>2, <1>3, <1>5, <2>1
  <2>2. CASE "comments" \notin DOMAIN req[w]
    BY <1>2, <1>3, <1>5, <2>2, CommentOps, NothingWritten
  <2>3. QED
    BY <2>1, <2>2
<1>8. \A c \in DOMAIN db'.comments : db'.comments[c].ticket \in DOMAIN db'.tickets
  BY <1>1 DEF C!Intact
<1>9. QED
  BY <1>1, <1>2, <1>4, <1>5, <1>6, <1>7, <1>8 DEF CommentInv

LEMMA CommentCommit ==
    ASSUME CommentInv, NEW w \in Pair, C!CommitTicket(w)
    PROVE  CommentInv'
<1>1. PICK ts, cs, tw, cw : /\ ts = db.tickets /\ cs = db.comments
                          /\ tw = TicketWrites(req[w]) /\ cw = CommentWrites(req[w])
  OBVIOUS
<1>2. PICK ts2, cs2 : ts2 = db'.tickets /\ cs2 = db'.comments
  OBVIOUS
<1>3. /\ req' = [req EXCEPT ![w] = None] /\ seq' = seq
      /\ {"tickets", "comments"} \subseteq DOMAIN db'
      /\ DOMAIN ts2 = DOMAIN Q!After(ts, tw) /\ \A t \in DOMAIN ts2 : ts2[t] = Q!After(ts, tw)[t]
      /\ DOMAIN cs2 = DOMAIN Q!After(cs, cw) /\ \A c \in DOMAIN cs2 : cs2[c] = Q!After(cs, cw)[c]
      /\ \A c \in DOMAIN cs2 : cs2[c].ticket \in DOMAIN ts2
  BY <1>1, <1>2, CommentCommitted
<1>4. /\ seq \in Nat /\ DOMAIN req = Pair /\ GoodComments(ts, cs)
      /\ \A t \in DOMAIN ts :
             t \in Nat /\ t < seq /\ {"created_by", "responded"} \subseteq DOMAIN ts[t]
      /\ \A t \in DOMAIN tw : /\ t \in Nat /\ t < seq /\ GoodTicketWrite(tw[t])
                              /\ tw[t].op = "insert" =>
                                     /\ t \notin DOMAIN ts /\ DOMAIN cw = {}
                                     /\ \A v \in Pair \ {w} : ~Seen(t, req[v])
      /\ \A c \in DOMAIN cw : GoodCommentWrite(ts, tw, cw[c])
  BY <1>1 DEF CommentInv, Seen
\* Tickets keep their creators and their stamps.
<1>5. ASSUME NEW t \in DOMAIN ts2
      PROVE  /\ t \in Nat /\ t < seq /\ {"created_by", "responded"} \subseteq DOMAIN ts2[t]
             /\ \/ t \in DOMAIN tw /\ tw[t].op = "insert"
                \/ /\ t \in DOMAIN ts /\ ts2[t].created_by = ts[t].created_by
                   /\ ts[t].responded \/ (t \in DOMAIN tw /\ Stamping(tw[t])) => ts2[t].responded
  <2>1. t \in DOMAIN Q!After(ts, tw) /\ ts2[t] = Q!After(ts, tw)[t]
    BY <1>3, <1>5
  <2>2. CASE t \in DOMAIN tw /\ tw[t].op = "insert" /\ ts2[t] = tw[t].cols
    BY <1>4, <2>2 DEF GoodTicketWrite
  <2>3. CASE /\ t \in DOMAIN ts /\ t \in DOMAIN tw /\ tw[t].op \notin {"insert", "delete"}
             /\ ts2[t] = Q!Written(ts[t], tw[t])
    <3>1. tw[t].op = "update" /\ GoodTicketWrite(tw[t])
      BY <1>4, <2>3 DEF GoodTicketWrite
    <3>2. {"created_by", "responded"} \subseteq DOMAIN ts[t]
      BY <1>4, <2>3
    <3>3. /\ {"created_by", "responded"} \subseteq DOMAIN ts2[t]
          /\ ts2[t].created_by = ts[t].created_by
          /\ ts[t].responded \/ Stamping(tw[t]) => ts2[t].responded
      BY <2>3, <3>1, <3>2, TicketWritten
    <3>4. QED
      BY <1>4, <2>3, <3>3
  <2>4. CASE t \in DOMAIN ts /\ t \notin DOMAIN tw /\ ts2[t] = ts[t]
    BY <1>4, <2>4
  <2>5. QED
    BY <2>1, <2>2, <2>3, <2>4, RowAfter
\* A comment is one that was there, or one that the request added.
<1>6. ASSUME NEW c \in DOMAIN cs2
      PROVE  \/ c \in DOMAIN cw /\ cw[c].op = "insert" /\ cs2[c] = cw[c].cols
             \/ c \in DOMAIN cs /\ cs2[c] = cs[c]
  <2>1. c \in DOMAIN Q!After(cs, cw) /\ cs2[c] = Q!After(cs, cw)[c]
    BY <1>3, <1>6
  <2>2. c \in DOMAIN cw => cw[c].op \in {"insert", "delete"}
    BY <1>4 DEF GoodCommentWrite
  <2>3. QED
    BY <2>1, <2>2, RowAfter
<1>7. ASSUME NEW c \in DOMAIN cs2
      PROVE  LET t == cs2[c].ticket
             IN  t \in DOMAIN ts2 /\ (Responds(cs2[c], ts2[t]) => ts2[t].responded)
  <2>1. PICK t : t = cs2[c].ticket
    OBVIOUS
  <2>2. t \in DOMAIN ts2
    BY <1>3, <1>7, <2>1
  <2>3. CASE c \in DOMAIN cw /\ cw[c].op = "insert" /\ cs2[c] = cw[c].cols
    <3>1. ~(t \in DOMAIN tw /\ tw[t].op = "insert")
      BY <1>4, <2>3
    <3>2. /\ t \in DOMAIN ts /\ ts2[t].created_by = ts[t].created_by
          /\ ts[t].responded \/ (t \in DOMAIN tw /\ Stamping(tw[t])) => ts2[t].responded
      BY <1>5, <2>2, <3>1
    <3>3. Responds(cs2[c], ts[t]) => ts[t].responded \/ (t \in DOMAIN tw /\ Stamping(tw[t]))
      BY <1>4, <2>1, <2>3, <3>2 DEF GoodCommentWrite
    <3>4. QED
      BY <2>1, <2>2, <3>2, <3>3 DEF Responds
  <2>4. CASE c \in DOMAIN cs /\ cs2[c] = cs[c]
    <3>1. t \in DOMAIN ts /\ (Responds(cs[c], ts[t]) => ts[t].responded)
      BY <1>4, <2>1, <2>4 DEF GoodComments
    <3>2. ts2[t].created_by = ts[t].created_by /\ (ts[t].responded => ts2[t].responded)
      BY <1>4, <1>5, <2>2, <3>1
    <3>3. QED
      BY <2>1, <2>2, <2>4, <3>1, <3>2 DEF Responds
  <2>5. QED
    BY <1>6, <1>7, <2>3, <2>4
<1>8. GoodComments(ts2, cs2)
  BY <1>7 DEF GoodComments
<1>9. /\ DOMAIN TicketWrites(None) = {} /\ DOMAIN CommentWrites(None) = {}
      /\ \A t : ~Seen(t, None)
  BY CommentOps DEF TicketWrites, CommentWrites, Seen
<1>10. DOMAIN req' = Pair /\ req'[w] = None /\ \A v \in Pair \ {w} : req'[v] = req[v]
  BY <1>3, <1>4
\* What the other requests are about to write is as good as before.
<1>11. ASSUME NEW v \in Pair \ {w}
       PROVE  /\ \A t : Seen(t, req[v]) => t \in Nat /\ t < seq
              /\ \A t \in DOMAIN TicketWrites(req[v]) :
                     /\ GoodTicketWrite(TicketWrites(req[v])[t])
                     /\ TicketWrites(req[v])[t].op = "insert" =>
                            /\ t \notin DOMAIN ts
                            /\ \A u \in Pair \ {v} : ~Seen(t, req[u])
                            /\ DOMAIN CommentWrites(req[v]) = {}
              /\ \A c \in DOMAIN CommentWrites(req[v]) :
                     GoodCommentWrite(ts, TicketWrites(req[v]), CommentWrites(req[v])[c])
  BY <1>1 DEF CommentInv
<1>12. ASSUME NEW v \in Pair \ {w}, NEW t \in DOMAIN TicketWrites(req[v]),
              TicketWrites(req[v])[t].op = "insert"
       PROVE  t \notin DOMAIN ts2
  <2>1. t \notin DOMAIN ts /\ ~Seen(t, req[w])
    BY <1>11, <1>12
  <2>2. t \notin DOMAIN tw
    BY <1>1, <2>1 DEF Seen
  <2>3. QED
    BY <1>5, <2>1, <2>2
<1>13. ASSUME NEW v \in Pair \ {w}, NEW c \in DOMAIN CommentWrites(req[v])
       PROVE  GoodCommentWrite(ts2, TicketWrites(req[v]), CommentWrites(req[v])[c])
  <2>1. PICK write, vw : write = CommentWrites(req[v])[c] /\ vw = TicketWrites(req[v])
    OBVIOUS
  <2>2. GoodCommentWrite(ts, vw, write)
    BY <1>11, <1>13, <2>1
  <2>3. ASSUME write.op = "insert", NEW t, t = write.cols.ticket, t \in DOMAIN ts2,
               Responds(write.cols, ts2[t])
        PROVE  ts2[t].responded \/ (t \in DOMAIN vw /\ Stamping(vw[t]))
    <3>1. Seen(t, req[v])
      BY <1>13, <2>1, <2>3 DEF Seen
    <3>2. ~(t \in DOMAIN tw /\ tw[t].op = "insert")
      BY <1>4, <3>1
    <3>3. /\ t \in DOMAIN ts /\ ts2[t].created_by = ts[t].created_by
          /\ ts[t].responded => ts2[t].responded
      BY <1>5, <2>3, <3>2
    <3>4. Responds(write.cols, ts[t])
      BY <2>3, <3>3 DEF Responds
    <3>5. QED
      BY <2>2, <2>3, <3>3, <3>4 DEF GoodCommentWrite
  <2>4. QED
    BY <2>1, <2>2, <2>3 DEF GoodCommentWrite
<1>14. ASSUME NEW v \in Pair
       PROVE  /\ \A t : Seen(t, req'[v]) => t \in Nat /\ t < seq
              /\ \A t \in DOMAIN TicketWrites(req'[v]) :
                     /\ GoodTicketWrite(TicketWrites(req'[v])[t])
                     /\ TicketWrites(req'[v])[t].op = "insert" =>
                            /\ t \notin DOMAIN ts2
                            /\ \A u \in Pair \ {v} : ~Seen(t, req'[u])
                            /\ DOMAIN CommentWrites(req'[v]) = {}
              /\ \A c \in DOMAIN CommentWrites(req'[v]) :
                     GoodCommentWrite(ts2, TicketWrites(req'[v]), CommentWrites(req'[v])[c])
  <2>1. CASE v = w
    BY <1>9, <1>10, <2>1
  <2>2. CASE v # w
    BY <1>9, <1>10, <1>11, <1>12, <1>13, <2>2
  <2>3. QED
    BY <2>1, <2>2
<1>15. seq' = seq /\ seq' \in Nat /\ {"tickets", "comments"} \subseteq DOMAIN db'
  BY <1>3, <1>4
<1>16. /\ \A t \in DOMAIN db'.tickets :
              t \in Nat /\ t < seq' /\ {"created_by", "responded"} \subseteq DOMAIN db'.tickets[t]
       /\ GoodComments(db'.tickets, db'.comments)
  BY <1>2, <1>5, <1>8, <1>15
<1>17. \A v \in Pair : LET vw == TicketWrites(req'[v]) IN
           /\ \A t : Seen(t, req'[v]) => t \in Nat /\ t < seq'
           /\ \A t \in DOMAIN vw :
                  /\ GoodTicketWrite(vw[t])
                  /\ vw[t].op = "insert" =>
                         /\ t \notin DOMAIN db'.tickets
                         /\ \A u \in Pair \ {v} : ~Seen(t, req'[u])
                         /\ DOMAIN CommentWrites(req'[v]) = {}
           /\ \A c \in DOMAIN CommentWrites(req'[v]) :
                  GoodCommentWrite(db'.tickets, vw, CommentWrites(req'[v])[c])
  BY <1>2, <1>14, <1>15
<1>18. QED
  BY <1>10, <1>15, <1>16, <1>17 DEF CommentInv

\* A request that creates a ticket under the next id, or one that writes to tickets that
\* the database has and to their comments.
CommentHeld(w) ==
    \E changes, tw, cw :
        /\ tw = TicketWrites(changes) /\ cw = CommentWrites(changes)
        /\ db' = db /\ req' = [req EXCEPT ![w] = changes]
        /\ \/ seq' = seq + 1 /\ DOMAIN tw \subseteq {seq} /\ DOMAIN cw = {}
           \/ /\ seq' = seq \/ seq' = seq + 1
              /\ \A t \in DOMAIN tw : t \in DOMAIN db.tickets /\ tw[t].op # "insert"
              /\ \A c \in DOMAIN cw :
                     cw[c].op = "insert" => cw[c].cols.ticket \in DOMAIN db.tickets
        /\ \A t \in DOMAIN tw : GoodTicketWrite(tw[t])
        /\ \A c \in DOMAIN cw : GoodCommentWrite(db.tickets, tw, cw[c])

LEMMA CommentHold ==
    ASSUME CommentInv, NEW w \in Pair, CommentHeld(w)
    PROVE  CommentInv'
<1>1. PICK changes, tw, cw :
        /\ tw = TicketWrites(changes) /\ cw = CommentWrites(changes)
        /\ db' = db /\ req' = [req EXCEPT ![w] = changes]
        /\ \/ seq' = seq + 1 /\ DOMAIN tw \subseteq {seq} /\ DOMAIN cw = {}
           \/ /\ seq' = seq \/ seq' = seq + 1
              /\ \A t \in DOMAIN tw : t \in DOMAIN db.tickets /\ tw[t].op # "insert"
              /\ \A c \in DOMAIN cw :
                     cw[c].op = "insert" => cw[c].cols.ticket \in DOMAIN db.tickets
        /\ \A t \in DOMAIN tw : GoodTicketWrite(tw[t])
        /\ \A c \in DOMAIN cw : GoodCommentWrite(db.tickets, tw, cw[c])
  BY DEF CommentHeld
<1>2. PICK ts : ts = db.tickets
  OBVIOUS
<1>3. DOMAIN req' = Pair /\ req'[w] = changes /\ \A v \in Pair \ {w} : req'[v] = req[v]
  BY <1>1 DEF CommentInv
<1>4. seq \in Nat /\ seq' \in Nat /\ seq <= seq' /\ \A t \in DOMAIN ts : t \in Nat /\ t < seq
  BY <1>1, <1>2 DEF CommentInv
<1>5. ASSUME NEW v \in Pair
      PROVE  /\ \A t : Seen(t, req[v]) => t \in Nat /\ t < seq
             /\ \A t \in DOMAIN TicketWrites(req[v]) :
                    /\ GoodTicketWrite(TicketWrites(req[v])[t])
                    /\ TicketWrites(req[v])[t].op = "insert" =>
                           /\ t \notin DOMAIN ts
                           /\ \A u \in Pair \ {v} : ~Seen(t, req[u])
                           /\ DOMAIN CommentWrites(req[v]) = {}
             /\ \A c \in DOMAIN CommentWrites(req[v]) :
                    GoodCommentWrite(ts, TicketWrites(req[v]), CommentWrites(req[v])[c])
  BY <1>2 DEF CommentInv
\* What the new request has seen is a row, or the id that it was given.
<1>6. ASSUME NEW t, Seen(t, changes)
      PROVE  t \in DOMAIN ts \/ (t = seq /\ seq' = seq + 1)
  BY <1>1, <1>2, <1>6 DEF Seen
<1>7. ASSUME NEW t \in DOMAIN tw, tw[t].op = "insert"
      PROVE  t = seq /\ DOMAIN cw = {}
  BY <1>1, <1>7
<1>8. ASSUME NEW v \in Pair
      PROVE  /\ \A t : Seen(t, req'[v]) => t \in Nat /\ t < seq'
             /\ \A t \in DOMAIN TicketWrites(req'[v]) :
                    /\ GoodTicketWrite(TicketWrites(req'[v])[t])
                    /\ TicketWrites(req'[v])[t].op = "insert" =>
                           /\ t \notin DOMAIN ts
                           /\ \A u \in Pair \ {v} : ~Seen(t, req'[u])
                           /\ DOMAIN CommentWrites(req'[v]) = {}
             /\ \A c \in DOMAIN CommentWrites(req'[v]) :
                    GoodCommentWrite(ts, TicketWrites(req'[v]), CommentWrites(req'[v])[c])
  <2>1. CASE v = w
    <3>1. \A t : Seen(t, changes) => t \in Nat /\ t < seq'
      BY <1>4, <1>6
    <3>2. ASSUME NEW t \in DOMAIN tw, tw[t].op = "insert"
          PROVE  /\ t \notin DOMAIN ts /\ DOMAIN cw = {}
                 /\ \A u \in Pair \ {w} : ~Seen(t, req'[u])
      BY <1>3, <1>4, <1>5, <1>7, <3>2
    <3>3. QED
      BY <1>1, <1>2, <1>3, <2>1, <3>1, <3>2
  <2>2. CASE v # w
    <3>1. req'[v] = req[v]
      BY <1>3, <2>2
    <3>2. ASSUME NEW t, Seen(t, req[v])
          PROVE  t \in Nat /\ t < seq'
      <4>1. t \in Nat /\ t < seq
        BY <1>5, <3>2
      <4>2. seq \in Nat /\ seq' \in Nat /\ seq <= seq'
        BY <1>4
      <4>3. QED
        BY <4>1, <4>2
    <3>3. ASSUME NEW t \in DOMAIN TicketWrites(req[v]),
                 TicketWrites(req[v])[t].op = "insert", NEW u \in Pair \ {v}
          PROVE  ~Seen(t, req'[u])
      <4>1. Seen(t, req[v])
        BY <3>3 DEF Seen
      <4>2. t < seq /\ t \notin DOMAIN ts /\ t \in Nat
        BY <1>5, <3>3, <4>1
      <4>3. ~Seen(t, changes)
        BY <1>4, <1>6, <4>2
      <4>4. QED
        BY <1>3, <1>5, <3>3, <4>3
    <3>4. QED
      BY <1>5, <3>1, <3>2, <3>3
  <2>3. QED
    BY <2>1, <2>2
<1>9. /\ {"tickets", "comments"} \subseteq DOMAIN db'
      /\ \A t \in DOMAIN db'.tickets :
             t \in Nat /\ t < seq' /\ {"created_by", "responded"} \subseteq DOMAIN db'.tickets[t]
      /\ GoodComments(db'.tickets, db'.comments)
  BY <1>1, <1>4 DEF CommentInv
<1>10. ts = db'.tickets
  BY <1>1, <1>2
<1>11. \A v \in Pair : LET vw == TicketWrites(req'[v]) IN
           /\ \A t : Seen(t, req'[v]) => t \in Nat /\ t < seq'
           /\ \A t \in DOMAIN vw :
                  /\ GoodTicketWrite(vw[t])
                  /\ vw[t].op = "insert" =>
                         /\ t \notin DOMAIN db'.tickets
                         /\ \A u \in Pair \ {v} : ~Seen(t, req'[u])
                         /\ DOMAIN CommentWrites(req'[v]) = {}
           /\ \A c \in DOMAIN CommentWrites(req'[v]) :
                  GoodCommentWrite(db'.tickets, vw, CommentWrites(req'[v])[c])
  BY <1>8, <1>10
<1>12. QED
  BY <1>3, <1>4, <1>9, <1>11 DEF CommentInv

\* Requests that do not touch tickets or answers.
LEMMA NoAnswer ==
    ASSUME NEW w, NEW changes, DOMAIN TicketWrites(changes) = {},
           \A c \in DOMAIN CommentWrites(changes) : CommentWrites(changes)[c].op = "delete",
           C!Hold(w, changes) \/ C!HoldNew(w, changes)
    PROVE  CommentHeld(w)
<1>1. PICK tw, cw : tw = TicketWrites(changes) /\ cw = CommentWrites(changes)
  OBVIOUS
<1>2. /\ db' = db /\ req' = [req EXCEPT ![w] = changes]
      /\ seq' = seq \/ seq' = seq + 1
  BY DEF C!Hold, C!HoldNew
<1>3. \A c \in DOMAIN cw : GoodCommentWrite(db.tickets, tw, cw[c])
  BY <1>1 DEF GoodCommentWrite
<1>4. QED
  BY <1>1, <1>2, <1>3 DEF CommentHeld

\* What is in the writes of a request.
LEMMA CommentWrote ==
    /\ \A f : DOMAIN TicketWrites([attachments |-> f]) = {}
    /\ \A f : DOMAIN CommentWrites([attachments |-> f]) = {}
    /\ \A f, g : DOMAIN TicketWrites([comments |-> f, attachments |-> g]) = {}
    /\ \A f, g : CommentWrites([comments |-> f, attachments |-> g]) \in {f, C!NoRows}
    /\ \A f : TicketWrites([tickets |-> f]) \in {f, C!NoRows}
    /\ \A f : DOMAIN CommentWrites([tickets |-> f]) = {}
    /\ DOMAIN C!NoRows = {}
<1>1. ASSUME NEW f
      PROVE  /\ DOMAIN TicketWrites([attachments |-> f]) = {}
             /\ DOMAIN CommentWrites([attachments |-> f]) = {}
  BY CommentOps DEF TicketWrites, CommentWrites
<1>2. ASSUME NEW f, NEW g
      PROVE  /\ DOMAIN TicketWrites([comments |-> f, attachments |-> g]) = {}
             /\ CommentWrites([comments |-> f, attachments |-> g]) \in {f, C!NoRows}
  BY CommentOps DEF TicketWrites, CommentWrites
<1>3. ASSUME NEW f
      PROVE  /\ TicketWrites([tickets |-> f]) \in {f, C!NoRows}
             /\ DOMAIN CommentWrites([tickets |-> f]) = {}
  BY CommentOps DEF TicketWrites, CommentWrites
<1>4. QED
  BY <1>1, <1>2, <1>3, CommentOps

LEMMA AnswerHeld ==
    ASSUME NEW w, NEW p, NEW t, NEW internal \in BOOLEAN, C!AddComment(w, p, t, internal)
    PROVE  CommentHeld(w)
<1>1. PICK m : m = [ticket |-> t, user |-> p, is_internal |-> internal]
  OBVIOUS
<1>2. m.ticket = t /\ m.user = p /\ m.is_internal = internal
  BY <1>1
<1>3. PICK f : f = [i \in {seq} |-> C!Insert(m)]
  OBVIOUS
<1>4. DOMAIN f = {seq} /\ f[seq].op = "insert" /\ f[seq].cols = m
  BY <1>3, CommentOps, InsertOp
<1>5. PICK g : g = IF C!IsResponse(t, p, internal) THEN C!FirstResponse(t) ELSE C!NoRows
  OBVIOUS
<1>6. PICK changes : changes = [comments |-> f, tickets |-> g]
  OBVIOUS
<1>7. DOMAIN changes = {"comments", "tickets"} /\ changes.comments = f /\ changes.tickets = g
  BY <1>6
<1>8. PICK tw, cw : tw = TicketWrites(changes) /\ cw = CommentWrites(changes)
  OBVIOUS
<1>9. \/ tw = g /\ cw = f
      \/ DOMAIN tw = {} /\ DOMAIN cw = {}
  BY <1>7, <1>8, CommentOps DEF TicketWrites, CommentWrites
<1>10. /\ t \in DOMAIN db.tickets /\ db' = db /\ seq' = seq + 1
       /\ req' = [req EXCEPT ![w] = changes]
  BY <1>1, <1>3, <1>5, <1>6 DEF C!AddComment, C!HoldNew
<1>11. ASSUME C!IsResponse(t, p, internal)
       PROVE  DOMAIN g = {t} /\ GoodTicketWrite(g[t]) /\ Stamping(g[t]) /\ g[t].op = "update"
  <2>1. PICK cols : cols = [responded |-> TRUE]
    OBVIOUS
  <2>2. DOMAIN cols = {"responded"} /\ cols.responded = TRUE
    BY <2>1
  <2>3. DOMAIN g = {t} /\ g[t] = Q!Update(cols)
    BY <1>5, <1>11, <2>1, CommentOps DEF C!FirstResponse
  <2>4. QED
    BY <2>2, <2>3, UpdateOp DEF GoodTicketWrite, Stamping
<1>12. ~C!IsResponse(t, p, internal) => DOMAIN g = {}
  BY <1>5, CommentOps
<1>13. \A i \in DOMAIN tw : i \in DOMAIN db.tickets /\ tw[i].op # "insert" /\ GoodTicketWrite(tw[i])
  BY <1>9, <1>10, <1>11, <1>12
<1>14. Responds(m, db.tickets[t]) => db.tickets[t].responded \/ C!IsResponse(t, p, internal)
  BY <1>2 DEF Responds, C!IsResponse
<1>15. \A c \in DOMAIN cw : GoodCommentWrite(db.tickets, tw, cw[c])
  <2>1. SUFFICES ASSUME tw = g, cw = f
                 PROVE  GoodCommentWrite(db.tickets, g, f[seq])
    BY <1>4, <1>9
  <2>2. QED
    BY <1>2, <1>4, <1>11, <1>14 DEF GoodCommentWrite
<1>16. \A c \in DOMAIN cw : cw[c].op = "insert" => cw[c].cols.ticket \in DOMAIN db.tickets
  BY <1>2, <1>4, <1>9, <1>10
<1>17. QED
  BY <1>8, <1>10, <1>13, <1>15, <1>16 DEF CommentHeld

LEMMA TicketHeld ==
    ASSUME NEW w, NEW p, NEW t,
           \/ C!CreateTicket(w, p)
           \/ \E q : C!AssignTicket(w, p, t, q)
           \/ C!DeleteTicket(w, p, t)
    PROVE  CommentHeld(w)
<1>1. ASSUME C!CreateTicket(w, p)
      PROVE  CommentHeld(w)
  <2>1. PICK row : row = C!NewTicket(p)
    OBVIOUS
  <2>2. {"created_by", "responded"} \subseteq DOMAIN row
    BY <2>1 DEF C!NewTicket
  <2>3. PICK f : f = [i \in {seq} |-> C!Insert(row)]
    OBVIOUS
  <2>4. DOMAIN f = {seq} /\ f[seq].op = "insert" /\ f[seq].cols = row
    BY <2>3, CommentOps, InsertOp
  <2>5. GoodTicketWrite(f[seq])
    BY <2>2, <2>4 DEF GoodTicketWrite
  <2>6. PICK changes, tw, cw : /\ changes = [tickets |-> f]
                               /\ tw = TicketWrites(changes) /\ cw = CommentWrites(changes)
    OBVIOUS
  <2>7. DOMAIN cw = {} /\ (tw = f \/ DOMAIN tw = {})
    BY <2>6, CommentWrote
  <2>8. db' = db /\ seq' = seq + 1 /\ req' = [req EXCEPT ![w] = changes]
    BY <1>1, <2>1, <2>3, <2>6 DEF C!CreateTicket, C!HoldNew
  <2>9. QED
    BY <2>4, <2>5, <2>6, <2>7, <2>8 DEF CommentHeld
<1>2. ASSUME NEW q, C!AssignTicket(w, p, t, q)
      PROVE  CommentHeld(w)
  <2>1. PICK cols : cols = [assigned_to |-> q]
    OBVIOUS
  <2>2. DOMAIN cols = {"assigned_to"}
    BY <2>1
  <2>3. PICK write : write = C!Assign(db.tickets[t], cols)
    OBVIOUS
  <2>4. write.op = "update" /\ DOMAIN write.cols \subseteq {"assigned_to"}
    BY <2>2, <2>3, CommentOps, AssignedColumns
  <2>5. PICK f : f = [i \in {t} |-> write]
    OBVIOUS
  <2>6. DOMAIN f = {t} /\ f[t] = write
    BY <2>5
  <2>7. GoodTicketWrite(write)
    BY <2>4 DEF GoodTicketWrite
  <2>8. PICK changes, tw, cw : /\ changes = [tickets |-> f]
                               /\ tw = TicketWrites(changes) /\ cw = CommentWrites(changes)
    OBVIOUS
  <2>9. DOMAIN cw = {} /\ (tw = f \/ DOMAIN tw = {})
    BY <2>8, CommentWrote
  <2>10. /\ t \in DOMAIN db.tickets /\ db' = db /\ seq' = seq
         /\ req' = [req EXCEPT ![w] = changes]
    BY <1>2, <2>1, <2>3, <2>5, <2>8 DEF C!AssignTicket, C!Hold
  <2>11. \A i \in DOMAIN tw :
                i \in DOMAIN db.tickets /\ tw[i].op # "insert" /\ GoodTicketWrite(tw[i])
    BY <2>4, <2>6, <2>7, <2>9, <2>10
  <2>12. QED
    BY <2>8, <2>9, <2>10, <2>11 DEF CommentHeld
<1>3. ASSUME C!DeleteTicket(w, p, t)
      PROVE  CommentHeld(w)
  <2>1. PICK f, g, h : /\ f = [i \in {t} |-> C!Delete]
                       /\ g = C!Each(C!CommentsOf(t), C!Delete)
                       /\ h = C!Each(C!AttachmentsOf(t), C!Delete)
    OBVIOUS
  <2>2. DOMAIN f = {t} /\ f[t].op = "delete" /\ \A c \in DOMAIN g : g[c].op = "delete"
    BY <2>1, CommentOps, DeleteOp DEF C!Each
  <2>3. PICK changes : changes = [tickets |-> f, comments |-> g, attachments |-> h]
    OBVIOUS
  <2>4. /\ DOMAIN changes = {"tickets", "comments", "attachments"}
        /\ changes.tickets = f /\ changes.comments = g
    BY <2>3
  <2>5. PICK tw, cw : tw = TicketWrites(changes) /\ cw = CommentWrites(changes)
    OBVIOUS
  <2>6. tw \in {f, C!NoRows} /\ cw \in {g, C!NoRows}
    BY <2>4, <2>5 DEF TicketWrites, CommentWrites
  <2>7. /\ t \in DOMAIN db.tickets /\ db' = db /\ seq' = seq
        /\ req' = [req EXCEPT ![w] = changes]
    BY <1>3, <2>1, <2>3 DEF C!DeleteTicket, C!Hold
  <2>8. \A i \in DOMAIN tw :
               i \in DOMAIN db.tickets /\ tw[i].op # "insert" /\ GoodTicketWrite(tw[i])
    BY <2>2, <2>6, <2>7, CommentOps DEF GoodTicketWrite
  <2>9. \A c \in DOMAIN cw : cw[c].op = "delete" /\ GoodCommentWrite(db.tickets, tw, cw[c])
    BY <2>2, <2>6, CommentOps DEF GoodCommentWrite
  <2>10. QED
    BY <2>5, <2>7, <2>8, <2>9 DEF CommentHeld
<1>4. QED
  BY <1>1, <1>2, <1>3

LEMMA DiscussionHeld ==
    ASSUME NEW w, NEW p, C!Discuss(w, p)
    PROVE  CommentHeld(w)
<1>1. ASSUME NEW t, NEW c, C!CreateAttachment(w, p, t, c)
      PROVE  CommentHeld(w)
  BY <1>1, NoAnswer, CommentWrote DEF C!CreateAttachment
<1>2. ASSUME NEW i, C!DeleteAttachment(w, p, i)
      PROVE  CommentHeld(w)
  BY <1>2, NoAnswer, CommentWrote DEF C!DeleteAttachment
<1>3. ASSUME NEW i, C!DeleteComment(w, p, i)
      PROVE  CommentHeld(w)
  <2>1. PICK f, g : /\ f = [c \in {i} |-> C!Delete]
                    /\ C!Hold(w, [comments |-> f, attachments |-> g])
    BY <1>3 DEF C!DeleteComment
  <2>2. \A c \in DOMAIN f : f[c].op = "delete"
    BY <2>1, CommentOps, DeleteOp
  <2>3. PICK changes : changes = [comments |-> f, attachments |-> g]
    OBVIOUS
  <2>4. DOMAIN TicketWrites(changes) = {} /\ CommentWrites(changes) \in {f, C!NoRows}
    BY <2>3, CommentWrote
  <2>5. QED
    BY <2>1, <2>2, <2>3, <2>4, NoAnswer, CommentOps
<1>4. QED
  BY <1>1, <1>2, <1>3, AnswerHeld DEF C!Discuss

LEMMA CommentStep ==
    ASSUME part = "comments", CommentInv, MCNext
    PROVE  CommentInv'
<1>1. C!Next
  BY DEF MCNext, RowsNext
<1>2. ASSUME NEW w \in Pair, NEW p, C!Work(w, p) \/ C!Discuss(w, p)
      PROVE  CommentInv'
  BY <1>2, TicketHeld, DiscussionHeld, CommentHold DEF C!Work
<1>3. ASSUME NEW w \in Pair, C!Rollback(w)
      PROVE  CommentInv'
  <2>1. db' = db /\ seq' = seq /\ req' = [req EXCEPT ![w] = None]
    BY <1>3 DEF C!Rollback
  <2>2. DOMAIN req' = Pair /\ req'[w] = None /\ \A v \in Pair \ {w} : req'[v] = req[v]
    BY <2>1 DEF CommentInv
  <2>3. /\ DOMAIN TicketWrites(None) = {} /\ DOMAIN CommentWrites(None) = {}
        /\ \A t : ~Seen(t, None)
    BY CommentOps DEF TicketWrites, CommentWrites, Seen
  <2>4. \A v \in Pair : \/ req'[v] = req[v]
                        \/ /\ DOMAIN TicketWrites(req'[v]) = {}
                           /\ DOMAIN CommentWrites(req'[v]) = {}
                           /\ \A t : ~Seen(t, req'[v])
    BY <2>2, <2>3
  <2>5. QED
    BY <2>1, <2>2, <2>4 DEF CommentInv
<1>4. QED
  BY <1>1, <1>2, <1>3, CommentCommit DEF C!Next

LEMMA CommentStart ==
    ASSUME part = "comments", MCInit
    PROVE  CommentInv
<1>1. /\ db = [t \in {"tickets", "comments", "attachments"} |-> C!NoRows]
      /\ req = [w \in Pair |-> None] /\ seq = 1
  BY DEF MCInit, PartInit, C!Init, C!Start
<1>2. /\ DOMAIN TicketWrites(None) = {} /\ DOMAIN CommentWrites(None) = {}
      /\ \A t : ~Seen(t, None)
  BY CommentOps DEF TicketWrites, CommentWrites, Seen
<1>3. /\ DOMAIN db.tickets = {} /\ DOMAIN db.comments = {}
      /\ {"tickets", "comments"} \subseteq DOMAIN db
  BY <1>1, CommentOps
<1>4. QED
  BY <1>1, <1>2, <1>3 DEF CommentInv, GoodComments

-------------------------------------------------------------------------------
(* Report executions *)

\* The strengthening of OutcomeRecorded: a pending change of an execution's status has
\* its file or error with it, or the row has it already, and nothing takes them away;
\* a pending new execution is of an id that nobody else has seen.  And of RunningStep:
\* only finished executions are about to be removed, and those stay finished.
Finished == {"completed", "failed"}

GoodExecution(r) ==
    /\ {"status", "output_file", "error"} \subseteq DOMAIN r
    /\ r.status = "completed" => r.output_file
    /\ r.status = "failed" => r.error

GoodOutcome(rows, x, write) ==
    /\ write.op \in {"insert", "update", "delete"}
    /\ write.op = "insert" => GoodExecution(write.cols)
    /\ write.op = "delete" /\ x \in DOMAIN rows => rows[x].status \in Finished
    /\ write.op = "update" =>
           /\ "status" \in DOMAIN write.cols => write.cols.status \in Finished
           /\ \A c \in {"output_file", "error"} \cap DOMAIN write.cols : write.cols[c]
           /\ "status" \in DOMAIN write.cols /\ x \in DOMAIN rows =>
                  /\ write.cols.status = "completed" =>
                         "output_file" \in DOMAIN write.cols \/ rows[x].output_file
                  /\ write.cols.status = "failed" =>
                         "error" \in DOMAIN write.cols \/ rows[x].error

\* What a worker's request writes to executions.
ExecutionWrites(q) == IF q # None /\ "executions" \in DOMAIN q THEN q.executions ELSE R!NoRows

ReportInv ==
    /\ "executions" \in DOMAIN db /\ DOMAIN req = Pair /\ seq \in Nat
    /\ \A x \in DOMAIN db.executions :
           x \in Nat /\ x < seq /\ GoodExecution(db.executions[x])
    /\ \A w \in Pair : LET ws == ExecutionWrites(req[w]) IN \A x \in DOMAIN ws :
           /\ x \in Nat /\ x < seq /\ GoodOutcome(db.executions, x, ws[x])
           /\ ws[x].op = "insert" =>
                  /\ x \notin DOMAIN db.executions
                  /\ \A v \in Pair \ {w} : x \notin DOMAIN ExecutionWrites(req[v])

LEMMA ReportOps ==
    /\ \A rows, ws : R!After(rows, ws) = Q!After(rows, ws)
    /\ \A row : R!Insert(row) = Q!Insert(row)
    /\ \A cols : R!Update(cols) = Q!Update(cols)
    /\ \A row, cols : R!Assign(row, cols) = Q!Assign(row, cols)
    /\ R!Delete = Q!Delete
BY DEF R!After, Q!After, R!Written, Q!Written, R!Insert, Q!Insert, R!Update, Q!Update,
       R!Assign, Q!Assign, R!Delete, Q!Delete

\* A request that writes good outcomes: of the execution of the next id, or of some that
\* the database has.
ReportHeld(w) ==
    \E changes, ws :
        /\ ws = ExecutionWrites(changes)
        /\ db' = db /\ req' = [req EXCEPT ![w] = changes]
        /\ \/ seq' = seq /\ \A x \in DOMAIN ws : x \in DOMAIN db.executions /\ ws[x].op # "insert"
           \/ seq' = seq + 1 /\ DOMAIN ws \subseteq {seq}
        /\ \A x \in DOMAIN ws : GoodOutcome(db.executions, x, ws[x])

\* What a request wrote to executions is nothing else.
LEMMA ReportWrites ==
    /\ \A ws : ExecutionWrites([executions |-> ws]) \in {ws, R!NoRows}
    /\ \A f : DOMAIN ExecutionWrites([schedules |-> f]) = {}
    /\ \A f : DOMAIN ExecutionWrites([templates |-> f]) = {}
    /\ DOMAIN R!NoRows = {}
<1>1. DOMAIN R!NoRows = {}
  BY DEF R!NoRows
<1>2. ASSUME NEW ws PROVE ExecutionWrites([executions |-> ws]) \in {ws, R!NoRows}
  BY DEF ExecutionWrites
<1>3. ASSUME NEW f PROVE DOMAIN ExecutionWrites([schedules |-> f]) = {}
  BY <1>1 DEF ExecutionWrites
<1>4. ASSUME NEW f PROVE DOMAIN ExecutionWrites([templates |-> f]) = {}
  BY <1>1 DEF ExecutionWrites
<1>5. QED
  BY <1>1, <1>2, <1>3, <1>4

LEMMA OutcomeSet ==
    ASSUME NEW w \in Pair, NEW x, NEW cols, R!SetColumns(w, x, cols),
           \/ DOMAIN cols = {"delivery"}
           \/ /\ DOMAIN cols = {"status", "output_file"}
              /\ cols.status = "completed" /\ cols.output_file = TRUE
           \/ /\ DOMAIN cols = {"status", "error"}
              /\ cols.status = "failed" /\ cols.error = TRUE
    PROVE  ReportHeld(w)
<1>1. PICK row : row = db.executions[x]
  OBVIOUS
<1>2. PICK write : write = R!Assign(row, cols)
  OBVIOUS
<1>3. /\ write.op = "update"
      /\ DOMAIN write.cols = {c \in DOMAIN cols : cols[c] # row[c]}
      /\ \A c \in DOMAIN write.cols : write.cols[c] = cols[c]
  BY <1>2, ReportOps, AssignedColumns
<1>4. GoodOutcome(db.executions, x, write)
  BY <1>1, <1>3 DEF GoodOutcome, Finished
<1>5. PICK ws : ws = [i \in {x} |-> write]
  OBVIOUS
<1>6. DOMAIN ws = {x} /\ ws[x] = write
  BY <1>5
<1>7. PICK changes, es : changes = [executions |-> ws] /\ es = ExecutionWrites(changes)
  OBVIOUS
<1>8. DOMAIN es \subseteq {x} /\ \A i \in DOMAIN es : es[i] = write
  BY <1>6, <1>7, ReportWrites
<1>9. /\ x \in DOMAIN db.executions /\ db' = db /\ seq' = seq
      /\ req' = [req EXCEPT ![w] = changes]
  BY <1>1, <1>2, <1>5, <1>7 DEF R!SetColumns, R!Hold
<1>10. \A i \in DOMAIN es : /\ i \in DOMAIN db.executions /\ es[i].op # "insert"
                            /\ GoodOutcome(db.executions, i, es[i])
  BY <1>3, <1>4, <1>8, <1>9
<1>11. QED
  BY <1>7, <1>9, <1>10 DEF ReportHeld

LEMMA OutcomeNew ==
    ASSUME NEW w \in Pair, NEW r, R!GenerateReport(w, r)
    PROVE  ReportHeld(w)
<1>1. PICK row : row = R!Started(R!NewExecution(r))
  OBVIOUS
<1>2. GoodExecution(row)
  BY <1>1 DEF R!Started, R!NewExecution, GoodExecution
<1>3. PICK write : write = R!Insert(row)
  OBVIOUS
<1>4. write.op = "insert" /\ write.cols = row
  BY <1>3, ReportOps, InsertOp
<1>5. PICK ws : ws = [x \in {seq} |-> write]
  OBVIOUS
<1>6. DOMAIN ws = {seq} /\ ws[seq] = write
  BY <1>5
<1>7. PICK changes, es : changes = [executions |-> ws] /\ es = ExecutionWrites(changes)
  OBVIOUS
<1>8. DOMAIN es \subseteq {seq} /\ \A i \in DOMAIN es : es[i] = write
  BY <1>6, <1>7, ReportWrites
<1>9. \A i \in DOMAIN es : GoodOutcome(db.executions, i, es[i])
  BY <1>2, <1>4, <1>8 DEF GoodOutcome
<1>10. db' = db /\ seq' = seq + 1 /\ req' = [req EXCEPT ![w] = changes]
  BY <1>1, <1>3, <1>5, <1>7 DEF R!GenerateReport, R!HoldNew
<1>11. QED
  BY <1>7, <1>8, <1>9, <1>10 DEF ReportHeld

LEMMA OutcomeGone ==
    ASSUME NEW w \in Pair, NEW xs, R!CleanupOldExecutions(w, xs)
    PROVE  ReportHeld(w)
<1>1. PICK ws : ws = R!Each(xs, R!Delete)
  OBVIOUS
<1>2. DOMAIN ws = xs /\ \A x \in xs : ws[x].op = "delete"
  BY <1>1, ReportOps, DeleteOp DEF R!Each
<1>3. PICK changes, es : changes = [executions |-> ws] /\ es = ExecutionWrites(changes)
  OBVIOUS
<1>4. DOMAIN es \subseteq xs /\ \A i \in DOMAIN es : es[i].op = "delete"
  BY <1>2, <1>3, ReportWrites
<1>5. /\ xs \subseteq DOMAIN db.executions /\ db' = db /\ seq' = seq
      /\ req' = [req EXCEPT ![w] = changes]
      /\ \A x \in xs : db.executions[x].status \in Finished
  BY <1>1, <1>3 DEF R!CleanupOldExecutions, R!Old, R!Hold, Finished
<1>6. \A i \in DOMAIN es : /\ i \in DOMAIN db.executions /\ es[i].op # "insert"
                           /\ GoodOutcome(db.executions, i, es[i])
  BY <1>4, <1>5 DEF GoodOutcome
<1>7. QED
  BY <1>3, <1>5, <1>6 DEF ReportHeld

LEMMA ReportHandlers ==
    ASSUME NEW w \in Pair, R!Schedule(w) \/ R!Run(w) \/ R!Design(w)
    PROVE  ReportHeld(w)
<1>1. ASSUME NEW changes, DOMAIN ExecutionWrites(changes) = {},
             R!Hold(w, changes) \/ R!HoldNew(w, changes)
      PROVE  ReportHeld(w)
  <2>1. PICK es : es = ExecutionWrites(changes) /\ DOMAIN es = {}
    BY <1>1
  <2>2. db' = db /\ req' = [req EXCEPT ![w] = changes] /\ (seq' = seq \/ seq' = seq + 1)
    BY <1>1 DEF R!Hold, R!HoldNew
  <2>3. QED
    BY <2>1, <2>2 DEF ReportHeld
<1>2. ASSUME R!Schedule(w)
      PROVE  ReportHeld(w)
  <2>1. \E f : R!Hold(w, [schedules |-> f]) \/ R!HoldNew(w, [schedules |-> f])
    BY <1>2 DEF R!Schedule, R!CreateScheduledReport, R!UpdateScheduledReport,
                R!DeleteScheduledReport, R!UpdateNextRun
  <2>2. QED
    BY <1>1, <2>1, ReportWrites
<1>3. ASSUME R!Design(w)
      PROVE  ReportHeld(w)
  <2>1. \E f : R!Hold(w, [templates |-> f]) \/ R!HoldNew(w, [templates |-> f])
    BY <1>3 DEF R!Design, R!CreateTemplate, R!UpdateTemplate, R!DeleteTemplate,
                R!CloneTemplate
  <2>2. QED
    BY <1>1, <2>1, ReportWrites
<1>4. ASSUME NEW x, R!CompleteExecution(w, x)
      PROVE  ReportHeld(w)
  <2>1. PICK cols : cols = [status |-> "completed", output_file |-> TRUE]
    OBVIOUS
  <2>2. /\ DOMAIN cols = {"status", "output_file"}
        /\ cols.status = "completed" /\ cols.output_file = TRUE
    BY <2>1
  <2>3. QED
    BY <1>4, <2>1, <2>2, OutcomeSet DEF R!CompleteExecution
<1>5. ASSUME NEW x, R!FailExecution(w, x)
      PROVE  ReportHeld(w)
  <2>1. PICK cols : cols = [status |-> "failed", error |-> TRUE]
    OBVIOUS
  <2>2. DOMAIN cols = {"status", "error"} /\ cols.status = "failed" /\ cols.error = TRUE
    BY <2>1
  <2>3. QED
    BY <1>5, <2>1, <2>2, OutcomeSet DEF R!FailExecution
<1>6. ASSUME NEW x, NEW delivery, R!UpdateDeliveryStatus(w, x, delivery)
      PROVE  ReportHeld(w)
  <2>1. PICK cols : cols = [delivery |-> delivery]
    OBVIOUS
  <2>2. DOMAIN cols = {"delivery"}
    BY <2>1
  <2>3. QED
    BY <1>6, <2>1, <2>2, OutcomeSet DEF R!UpdateDeliveryStatus
<1>7. QED
  BY <1>2, <1>3, <1>4, <1>5, <1>6, OutcomeNew, OutcomeGone DEF R!Run, R!RunScheduledReport

\* An execution after a good write is good, keeps its file and its error, and stays
\* finished.
LEMMA OutcomeWritten ==
    ASSUME NEW rows, NEW x \in DOMAIN rows, GoodExecution(rows[x]), NEW write,
           write.op = "update", GoodOutcome(rows, x, write)
    PROVE  LET row == Q!Written(rows[x], write)
           IN  /\ GoodExecution(row)
               /\ rows[x].output_file => row.output_file
               /\ rows[x].error => row.error
               /\ rows[x].status \in Finished => row.status \in Finished
<1>1. PICK row : row = Q!Written(rows[x], write)
  OBVIOUS
<1>2. {"status", "output_file", "error"} \subseteq DOMAIN rows[x]
  BY DEF GoodExecution
<1>3. /\ DOMAIN row = DOMAIN rows[x]
      /\ \A c \in {"status", "output_file", "error"} :
             row[c] = IF c \in DOMAIN write.cols THEN write.cols[c] ELSE rows[x][c]
  BY <1>1, <1>2, Updating
<1>4. /\ row.status = IF "status" \in DOMAIN write.cols THEN write.cols.status ELSE rows[x].status
      /\ row.output_file = IF "output_file" \in DOMAIN write.cols THEN write.cols.output_file
                           ELSE rows[x].output_file
      /\ row.error = IF "error" \in DOMAIN write.cols THEN write.cols.error ELSE rows[x].error
  BY <1>3
<1>5. /\ "output_file" \in DOMAIN write.cols => write.cols.output_file
      /\ "error" \in DOMAIN write.cols => write.cols.error
      /\ "status" \in DOMAIN write.cols =>
             /\ write.cols.status = "completed" =>
                    "output_file" \in DOMAIN write.cols \/ rows[x].output_file
             /\ write.cols.status = "failed" => "error" \in DOMAIN write.cols \/ rows[x].error
             /\ write.cols.status \in Finished
  BY DEF GoodOutcome
<1>6. /\ (rows[x].output_file => row.output_file) /\ (rows[x].error => row.error)
      /\ rows[x].status \in Finished => row.status \in Finished
  BY <1>4, <1>5
<1>7. (row.status = "completed" => row.output_file) /\ (row.status = "failed" => row.error)
  BY <1>4, <1>5 DEF GoodExecution
<1>8. QED
  BY <1>1, <1>2, <1>3, <1>6, <1>7 DEF GoodExecution

\* The rows of executions after a commit, whether or not their schedule was deleted.
LEMMA ReportCommitted ==
    ASSUME ReportInv, NEW w \in Pair, R!CommitReports(w)
    PROVE  /\ req[w] # None /\ req' = [req EXCEPT ![w] = None] /\ seq' = seq
           /\ "executions" \in DOMAIN db'
           /\ LET after == Q!After(db.executions, ExecutionWrites(req[w]))
              IN  /\ DOMAIN db'.executions = DOMAIN after
                  /\ \A x \in DOMAIN after : GoodExecution(after[x]) =>
                         /\ GoodExecution(db'.executions[x])
                         /\ db'.executions[x].output_file = after[x].output_file
                         /\ db'.executions[x].error = after[x].error
                         /\ db'.executions[x].status = after[x].status
<1>1. PICK all : all = R!AfterAll(req[w])
  OBVIOUS
<1>2. PICK rows : rows = R!Orphaned(all)
  OBVIOUS
<1>3. /\ req[w] # None /\ req' = [req EXCEPT ![w] = None] /\ seq' = seq
      /\ db' = [all EXCEPT !.executions = rows]
  BY <1>1, <1>2 DEF R!CommitReports, R!CommitAs, R!Free
<1>4. PICK after : after = Q!After(db.executions, ExecutionWrites(req[w]))
  OBVIOUS
<1>5. /\ DOMAIN all = DOMAIN db
      /\ all.executions = IF "executions" \in DOMAIN req[w]
                          THEN Q!After(db.executions, req[w].executions) ELSE db.executions
  BY <1>1, ReportOps DEF ReportInv, R!AfterAll
<1>6. DOMAIN all.executions = DOMAIN after /\ \A x \in DOMAIN after : all.executions[x] = after[x]
  <2>1. CASE "executions" \in DOMAIN req[w]
    BY <1>3, <1>4, <1>5, <2>1 DEF ExecutionWrites
  <2>2. CASE "executions" \notin DOMAIN req[w]
    <3>1. after = Q!After(db.executions, R!NoRows) /\ all.executions = db.executions
      BY <1>4, <1>5, <2>2 DEF ExecutionWrites
    <3>2. QED
      BY <3>1, ReportWrites, NothingWritten
  <2>3. QED
    BY <2>1, <2>2
<1>7. DOMAIN rows = DOMAIN after /\ \A x \in DOMAIN after :
          rows[x] = after[x] \/ rows[x] = [after[x] EXCEPT !.scheduled_report = None]
  BY <1>2, <1>6 DEF R!Orphaned
<1>8. ASSUME NEW x \in DOMAIN after, GoodExecution(after[x])
      PROVE  /\ GoodExecution(rows[x])
             /\ rows[x].output_file = after[x].output_file
             /\ rows[x].error = after[x].error
             /\ rows[x].status = after[x].status
  <2>1. /\ DOMAIN rows[x] = DOMAIN after[x] /\ rows[x].status = after[x].status
        /\ rows[x].output_file = after[x].output_file /\ rows[x].error = after[x].error
    BY <1>7, <1>8 DEF GoodExecution
  <2>2. QED
    BY <1>8, <2>1 DEF GoodExecution
<1>9. "executions" \in DOMAIN db' /\ db'.executions = rows
  BY <1>3, <1>5 DEF ReportInv
<1>10. QED
  BY <1>3, <1>4, <1>7, <1>8, <1>9

LEMMA ReportCommit ==
    ASSUME ReportInv, NEW w \in Pair, R!CommitReports(w)
    PROVE  ReportInv' /\ R!RunningStep
<1>1. PICK rows, ws : rows = db.executions /\ ws = ExecutionWrites(req[w])
  OBVIOUS
<1>2. PICK after : after = Q!After(rows, ws)
  OBVIOUS
<1>3. PICK new : new = db'.executions
  OBVIOUS
<1>4. /\ req' = [req EXCEPT ![w] = None] /\ seq' = seq
      /\ "executions" \in DOMAIN db' /\ DOMAIN new = DOMAIN after
      /\ \A x \in DOMAIN after : GoodExecution(after[x]) =>
             /\ GoodExecution(new[x]) /\ new[x].output_file = after[x].output_file
             /\ new[x].error = after[x].error /\ new[x].status = after[x].status
  BY <1>1, <1>2, <1>3, ReportCommitted
<1>5. /\ \A x \in DOMAIN rows : x \in Nat /\ x < seq /\ GoodExecution(rows[x])
      /\ \A x \in DOMAIN ws : x \in Nat /\ x < seq /\ GoodOutcome(rows, x, ws[x])
  BY <1>1 DEF ReportInv
<1>6. ASSUME NEW x \in DOMAIN after
      PROVE  /\ x \in Nat /\ x < seq /\ GoodExecution(after[x])
             /\ \/ x \in DOMAIN ws /\ ws[x].op = "insert"
                \/ /\ x \in DOMAIN rows
                   /\ rows[x].output_file => after[x].output_file
                   /\ rows[x].error => after[x].error
                   /\ rows[x].status \in Finished => after[x].status \in Finished
  <2>1. CASE x \in DOMAIN ws /\ ws[x].op = "insert" /\ after[x] = ws[x].cols
    BY <1>5, <2>1 DEF GoodOutcome
  <2>2. CASE /\ x \in DOMAIN rows /\ x \in DOMAIN ws /\ ws[x].op \notin {"insert", "delete"}
             /\ after[x] = Q!Written(rows[x], ws[x])
    <3>1. ws[x].op = "update" /\ GoodOutcome(rows, x, ws[x]) /\ GoodExecution(rows[x])
      BY <1>5, <2>2 DEF GoodOutcome
    <3>2. /\ GoodExecution(after[x])
          /\ rows[x].output_file => after[x].output_file
          /\ rows[x].error => after[x].error
          /\ rows[x].status \in Finished => after[x].status \in Finished
      BY <2>2, <3>1, OutcomeWritten
    <3>3. QED
      BY <1>5, <2>2, <3>2
  <2>3. CASE x \in DOMAIN rows /\ x \notin DOMAIN ws /\ after[x] = rows[x]
    BY <1>5, <2>3
  <2>4. QED
    BY <1>2, <1>6, <2>1, <2>2, <2>3, RowAfter
<1>7. \A x \in DOMAIN new : x \in Nat /\ x < seq /\ GoodExecution(new[x])
  BY <1>4, <1>6
<1>8. DOMAIN req' = Pair /\ req'[w] = None /\ \A v \in Pair \ {w} : req'[v] = req[v]
  BY <1>4 DEF ReportInv
<1>9. DOMAIN ExecutionWrites(None) = {}
  BY ReportWrites DEF ExecutionWrites
<1>10. ASSUME NEW v \in Pair \ {w}, NEW x \in DOMAIN ExecutionWrites(req[v])
       PROVE  LET write == ExecutionWrites(req[v])[x]
              IN  /\ x \in Nat /\ x < seq /\ GoodOutcome(new, x, write)
                  /\ write.op = "insert" =>
                         /\ x \notin DOMAIN new
                         /\ \A u \in Pair \ {v} : x \notin DOMAIN ExecutionWrites(req[u])
  <2>1. PICK write : write = ExecutionWrites(req[v])[x]
    OBVIOUS
  <2>2. /\ x \in Nat /\ x < seq /\ GoodOutcome(rows, x, write)
        /\ write.op = "insert" =>
               /\ x \notin DOMAIN rows
               /\ \A u \in Pair \ {v} : x \notin DOMAIN ExecutionWrites(req[u])
    BY <1>1, <1>10, <2>1 DEF ReportInv
  <2>3. x \in DOMAIN ws => ws[x].op # "insert"
    BY <1>1, <1>10 DEF ReportInv
  <2>4. x \in DOMAIN new => /\ x \in DOMAIN rows
                            /\ rows[x].output_file => new[x].output_file
                            /\ rows[x].error => new[x].error
                            /\ rows[x].status \in Finished => new[x].status \in Finished
    BY <1>4, <1>6, <2>3
  <2>5. GoodOutcome(new, x, write)
    BY <2>2, <2>4 DEF GoodOutcome
  <2>6. QED
    BY <2>1, <2>2, <2>4, <2>5
<1>11. ASSUME NEW v \in Pair, NEW x \in DOMAIN ExecutionWrites(req'[v])
       PROVE  LET write == ExecutionWrites(req'[v])[x]
              IN  /\ x \in Nat /\ x < seq /\ GoodOutcome(new, x, write)
                  /\ write.op = "insert" =>
                         /\ x \notin DOMAIN new
                         /\ \A u \in Pair \ {v} : x \notin DOMAIN ExecutionWrites(req'[u])
  <2>1. v # w /\ req'[v] = req[v]
    BY <1>8, <1>9, <1>11
  <2>2. \A u \in Pair : ExecutionWrites(req'[u]) = ExecutionWrites(req[u])
                        \/ DOMAIN ExecutionWrites(req'[u]) = {}
    BY <1>8, <1>9
  <2>3. QED
    BY <1>10, <1>11, <2>1, <2>2
<1>12. seq' \in Nat
  BY <1>4 DEF ReportInv
<1>13. ASSUME NEW x \in DOMAIN rows, rows[x].status = "running"
       PROVE  x \in DOMAIN new
  <2>1. x \in DOMAIN ws => ws[x].op # "delete"
    BY <1>5, <1>13 DEF GoodOutcome, Finished
  <2>2. QED
    BY <1>2, <1>4, <2>1 DEF Q!After
<1>14. R!RunningStep
  BY <1>1, <1>3, <1>13 DEF R!RunningStep
<1>15. QED
  BY <1>3, <1>4, <1>7, <1>8, <1>11, <1>12, <1>14 DEF ReportInv

LEMMA ReportHold ==
    ASSUME ReportInv, NEW w \in Pair, ReportHeld(w)
    PROVE  ReportInv' /\ R!RunningStep
<1>1. PICK changes, ws :
        /\ ws = ExecutionWrites(changes)
        /\ db' = db /\ req' = [req EXCEPT ![w] = changes]
        /\ \/ seq' = seq /\ \A x \in DOMAIN ws : x \in DOMAIN db.executions /\ ws[x].op # "insert"
           \/ seq' = seq + 1 /\ DOMAIN ws \subseteq {seq}
        /\ \A x \in DOMAIN ws : GoodOutcome(db.executions, x, ws[x])
  BY DEF ReportHeld
<1>2. PICK rows : rows = db.executions /\ db'.executions = rows
  BY <1>1
<1>3. /\ DOMAIN req' = Pair /\ ExecutionWrites(req'[w]) = ws
      /\ \A v \in Pair \ {w} : req'[v] = req[v]
  BY <1>1 DEF ReportInv
<1>4. seq \in Nat /\ seq' \in Nat /\ seq <= seq'
  BY <1>1 DEF ReportInv
<1>5. /\ \A x \in DOMAIN rows : x \in Nat /\ x < seq
      /\ \A v \in Pair : \A x \in DOMAIN ExecutionWrites(req[v]) :
             /\ x \in Nat /\ x < seq /\ GoodOutcome(rows, x, ExecutionWrites(req[v])[x])
             /\ ExecutionWrites(req[v])[x].op = "insert" =>
                    /\ x \notin DOMAIN rows
                    /\ \A u \in Pair \ {v} : x \notin DOMAIN ExecutionWrites(req[u])
  BY <1>2 DEF ReportInv
<1>6. ASSUME NEW x \in DOMAIN ws
      PROVE  /\ x \in Nat /\ x < seq' /\ GoodOutcome(rows, x, ws[x])
             /\ ws[x].op = "insert" =>
                    /\ x \notin DOMAIN rows
                    /\ \A u \in Pair \ {w} : x \notin DOMAIN ExecutionWrites(req[u])
  BY <1>1, <1>2, <1>4, <1>5, <1>6
<1>7. ASSUME NEW v \in Pair \ {w}, NEW x \in DOMAIN ExecutionWrites(req[v]),
             ExecutionWrites(req[v])[x].op = "insert"
      PROVE  x \notin DOMAIN ws
  BY <1>1, <1>2, <1>4, <1>5, <1>7
<1>8. ASSUME NEW v \in Pair, NEW x \in DOMAIN ExecutionWrites(req'[v])
      PROVE  LET write == ExecutionWrites(req'[v])[x]
             IN  /\ x \in Nat /\ x < seq' /\ GoodOutcome(rows, x, write)
                 /\ write.op = "insert" =>
                        /\ x \notin DOMAIN rows
                        /\ \A u \in Pair \ {v} : x \notin DOMAIN ExecutionWrites(req'[u])
  <2>1. CASE v = w
    BY <1>3, <1>6, <1>8, <2>1
  <2>2. CASE v # w
    <3>1. /\ x \in Nat /\ x < seq' /\ GoodOutcome(rows, x, ExecutionWrites(req'[v])[x])
      BY <1>3, <1>4, <1>5, <1>8, <2>2
    <3>2. ASSUME ExecutionWrites(req'[v])[x].op = "insert", NEW u \in Pair \ {v}
          PROVE  x \notin DOMAIN rows /\ x \notin DOMAIN ExecutionWrites(req'[u])
      BY <1>3, <1>5, <1>7, <1>8, <2>2, <3>2
    <3>3. ExecutionWrites(req'[v])[x].op = "insert" => x \notin DOMAIN rows
      BY <1>3, <1>5, <1>8, <2>2
    <3>4. QED
      BY <3>1, <3>2, <3>3
  <2>3. QED
    BY <2>1, <2>2
<1>9. "executions" \in DOMAIN db' /\ \A x \in DOMAIN rows : x < seq' /\ GoodExecution(rows[x])
  BY <1>1, <1>2, <1>4, <1>5 DEF ReportInv
<1>10. R!RunningStep
  BY <1>1 DEF R!RunningStep
<1>11. QED
  BY <1>2, <1>3, <1>4, <1>5, <1>8, <1>9, <1>10 DEF ReportInv

LEMMA ReportStep ==
    ASSUME part = "reports", ReportInv, MCNext
    PROVE  ReportInv' /\ R!RunningStep
<1>1. R!Next
  BY DEF MCNext, RowsNext
<1>2. ASSUME NEW w \in Pair, R!Rollback(w)
      PROVE  ReportInv' /\ R!RunningStep
  <2>1. db' = db /\ seq' = seq /\ req' = [req EXCEPT ![w] = None]
    BY <1>2 DEF R!Rollback
  <2>2. DOMAIN req' = Pair /\ req'[w] = None /\ \A v \in Pair \ {w} : req'[v] = req[v]
    BY <2>1 DEF ReportInv
  <2>3. DOMAIN ExecutionWrites(None) = {}
    BY ReportWrites DEF ExecutionWrites
  <2>4. \A v \in Pair : ExecutionWrites(req'[v]) = ExecutionWrites(req[v])
                        \/ DOMAIN ExecutionWrites(req'[v]) = {}
    BY <2>2, <2>3
  <2>5. QED
    BY <2>1, <2>2, <2>4 DEF ReportInv, R!RunningStep
<1>3. ASSUME NEW r, R!ComesDue(r)
      PROVE  ReportInv' /\ R!RunningStep
  <2>1. seq' = seq /\ req' = req /\ db' = [db EXCEPT !.schedules[r].next_run_at = "due"]
    BY <1>3 DEF R!ComesDue
  <2>2. DOMAIN db' = DOMAIN db /\ db'.executions = db.executions
    BY <2>1 DEF ReportInv
  <2>3. QED
    BY <2>1, <2>2 DEF ReportInv, R!RunningStep
<1>4. QED
  BY <1>1, <1>2, <1>3, ReportCommit, ReportHandlers, ReportHold DEF R!Next

LEMMA ReportStart ==
    ASSUME part = "reports", MCInit
    PROVE  ReportInv
<1>1. /\ db = [t \in {"schedules", "executions", "templates"} |-> R!NoRows]
      /\ req = [w \in Pair |-> None] /\ seq = 1
  BY DEF MCInit, PartInit, R!Init, R!Start
<1>2. DOMAIN ExecutionWrites(None) = {} /\ DOMAIN R!NoRows = {}
  BY ReportWrites DEF ExecutionWrites
<1>3. db.executions = R!NoRows /\ "executions" \in DOMAIN db
  BY <1>1
<1>4. QED
  BY <1>1, <1>2, <1>3 DEF ReportInv

-------------------------------------------------------------------------------
(* Projects *)

\* The strengthening of CompletedIsStamped: each write of the request in progress leaves
\* a project that agrees with its status.
GoodProject(r) ==
    {"status", "completed_at"} \subseteq DOMAIN r /\ (r.status = "completed" <=> r.completed_at)

GoodProjectWrite(rows, p, write) ==
    /\ write.op \in {"insert", "update", "delete"}
    /\ write.op = "insert" => GoodProject(write.cols)
    /\ write.op = "update" /\ p \in DOMAIN rows => GoodProject(Q!Written(rows[p], write))

ProjectInv ==
    /\ DOMAIN db = {"projects"} /\ DOMAIN req = Alone
    /\ \A p \in DOMAIN db.projects : GoodProject(db.projects[p])
    /\ \A w \in Alone : req[w] # None =>
           /\ DOMAIN req[w] = {"projects"}
           /\ \A p \in DOMAIN req[w].projects :
                  GoodProjectWrite(db.projects, p, req[w].projects[p])

LEMMA ProjectOps ==
    /\ \A rows, ws : J!After(rows, ws) = Q!After(rows, ws)
    /\ \A row : J!Insert(row) = Q!Insert(row)
    /\ \A cols : J!Update(cols) = Q!Update(cols)
    /\ \A row, cols : J!Assign(row, cols) = Q!Assign(row, cols)
    /\ J!Delete = Q!Delete
BY DEF J!After, Q!After, J!Written, Q!Written, J!Insert, Q!Insert, J!Update, Q!Update,
       J!Assign, Q!Assign, J!Delete, Q!Delete

\* A request that will leave each project in agreement with its status.
ProjectHeld(w) ==
    \E p, write : /\ db' = db /\ req' = [req EXCEPT ![w] = [projects |-> [i \in {p} |-> write]]]
                  /\ GoodProjectWrite(db.projects, p, write)

LEMMA ProjectAssigned ==
    ASSUME NEW p \in DOMAIN db.projects, GoodProject(db.projects[p]), NEW cols,
           \/ DOMAIN cols \cap {"status", "completed_at"} = {}
           \/ {"status", "completed_at"} \subseteq DOMAIN cols
              /\ (cols.status = "completed" <=> cols.completed_at)
    PROVE  /\ GoodProjectWrite(db.projects, p, Q!Assign(db.projects[p], cols))
           /\ GoodProjectWrite(db.projects, p, Q!Update(cols))
<1>1. PICK row : row = db.projects[p]
  OBVIOUS
<1>2. /\ {"status", "completed_at"} \subseteq DOMAIN row
      /\ row.status = "completed" <=> row.completed_at
  BY <1>1 DEF GoodProject
<1>3. ASSUME NEW new, DOMAIN new = DOMAIN row,
             new.status = IF "status" \in DOMAIN cols THEN cols.status ELSE row.status,
             new.completed_at = IF "completed_at" \in DOMAIN cols THEN cols.completed_at
                                ELSE row.completed_at
      PROVE  GoodProject(new)
  BY <1>2, <1>3 DEF GoodProject
<1>4. GoodProjectWrite(db.projects, p, Q!Assign(row, cols))
  BY <1>1, <1>2, <1>3, Assigning DEF GoodProjectWrite
<1>5. GoodProjectWrite(db.projects, p, Q!Update(cols))
  <2>1. PICK write : write = Q!Update(cols)
    OBVIOUS
  <2>2. write.op = "update" /\ write.cols = cols
    BY <2>1, UpdateOp
  <2>3. PICK new : new = Q!Written(row, write)
    OBVIOUS
  <2>4. /\ DOMAIN new = DOMAIN row
        /\ new.status = IF "status" \in DOMAIN cols THEN cols.status ELSE row.status
        /\ new.completed_at = IF "completed_at" \in DOMAIN cols THEN cols.completed_at
                              ELSE row.completed_at
    BY <1>2, <2>2, <2>3, Updating
  <2>5. QED
    BY <1>1, <1>3, <2>1, <2>2, <2>3, <2>4 DEF GoodProjectWrite
<1>6. QED
  BY <1>1, <1>4, <1>5

LEMMA ProjectHandlers ==
    ASSUME \A p \in DOMAIN db.projects : GoodProject(db.projects[p]), NEW w \in Alone,
           J!Create(w) \/ \E p : J!Change(w, p)
    PROVE  ProjectHeld(w)
<1>1. ASSUME NEW p, NEW write, GoodProjectWrite(db.projects, p, write),
             \/ J!Hold(w, [projects |-> [i \in {p} |-> write]])
             \/ J!HoldNew(w, [projects |-> [i \in {p} |-> write]])
      PROVE  ProjectHeld(w)
  BY <1>1 DEF J!Hold, J!HoldNew, ProjectHeld
<1>2. ASSUME NEW priority, NEW due, J!CreateProject(w, priority, due)
      PROVE  ProjectHeld(w)
  <2>1. PICK row : row = J!NewProject(priority, due)
    OBVIOUS
  <2>2. GoodProject(row)
    BY <2>1 DEF J!NewProject, GoodProject
  <2>3. PICK write : write = J!Insert(row)
    OBVIOUS
  <2>4. write.op = "insert" /\ write.cols = row
    BY <2>3, ProjectOps, InsertOp
  <2>5. GoodProjectWrite(db.projects, seq, write)
    BY <2>2, <2>4 DEF GoodProjectWrite
  <2>6. J!HoldNew(w, [projects |-> [i \in {seq} |-> write]])
    BY <1>2, <2>1, <2>3 DEF J!CreateProject
  <2>7. QED
    BY <1>1, <2>5, <2>6
<1>3. ASSUME NEW p \in DOMAIN db.projects, NEW cols,
             \/ DOMAIN cols \cap {"status", "completed_at"} = {}
             \/ {"status", "completed_at"} \subseteq DOMAIN cols
                /\ (cols.status = "completed" <=> cols.completed_at),
             \/ J!Hold(w, [projects |-> [i \in {p} |-> J!Assign(db.projects[p], cols)]])
             \/ J!Hold(w, [projects |-> [i \in {p} |-> J!Update(cols)]])
      PROVE  ProjectHeld(w)
  <2>1. PICK write : /\ write = J!Assign(db.projects[p], cols) \/ write = J!Update(cols)
                     /\ J!Hold(w, [projects |-> [i \in {p} |-> write]])
    BY <1>3
  <2>2. GoodProjectWrite(db.projects, p, write)
    BY <1>3, <2>1, ProjectAssigned, ProjectOps
  <2>3. QED
    BY <1>1, <2>1, <2>2
<1>4. ASSUME NEW p, NEW hours, J!UpdateProject(w, p, [actual_hours |-> hours])
      PROVE  ProjectHeld(w)
  <2>1. PICK cols : cols = [actual_hours |-> hours]
    OBVIOUS
  <2>2. DOMAIN cols \cap {"status", "completed_at"} = {}
    BY <2>1
  <2>3. QED
    BY <1>3, <1>4, <2>1, <2>2 DEF J!UpdateProject
<1>5. ASSUME NEW p, NEW priority, J!UpdateProject(w, p, [priority |-> priority])
      PROVE  ProjectHeld(w)
  <2>1. PICK cols : cols = [priority |-> priority]
    OBVIOUS
  <2>2. DOMAIN cols \cap {"status", "completed_at"} = {}
    BY <2>1
  <2>3. QED
    BY <1>3, <1>5, <2>1, <2>2 DEF J!UpdateProject
<1>6. ASSUME NEW p, NEW hours, J!AddHours(w, p, hours)
      PROVE  ProjectHeld(w)
  <2>1. PICK cols : cols = [actual_hours |-> db.projects[p].actual_hours + hours]
    OBVIOUS
  <2>2. DOMAIN cols \cap {"status", "completed_at"} = {}
    BY <2>1
  <2>3. QED
    BY <1>3, <1>6, <2>1, <2>2 DEF J!AddHours
<1>7. ASSUME NEW p, NEW status, J!UpdateProjectStatus(w, p, status)
      PROVE  ProjectHeld(w)
  <2>1. PICK cols : cols = J!StatusChange(status)
    OBVIOUS
  <2>2. /\ {"status", "completed_at"} \subseteq DOMAIN cols
        /\ cols.status = "completed" <=> cols.completed_at
    BY <2>1 DEF J!StatusChange
  <2>3. QED
    BY <1>3, <1>7, <2>1, <2>2 DEF J!UpdateProjectStatus
<1>8. ASSUME NEW p, J!DeleteProject(w, p)
      PROVE  ProjectHeld(w)
  <2>1. GoodProjectWrite(db.projects, p, J!Delete)
    BY ProjectOps, DeleteOp DEF GoodProjectWrite
  <2>2. QED
    BY <1>1, <1>8, <2>1 DEF J!DeleteProject
<1>9. QED
  BY <1>2, <1>4, <1>5, <1>6, <1>7, <1>8 DEF J!Create, J!Change

\* A due date that passes leaves what was good.
LEMMA ProjectDue ==
    ASSUME ProjectInv, NEW p, J!ComesDue(p)
    PROVE  ProjectInv'
<1>1. PICK rows : rows = db.projects
  OBVIOUS
<1>2. PICK rows2 : rows2 = [rows EXCEPT ![p].due_date = "past"]
  OBVIOUS
<1>3. /\ req' = req /\ p \in DOMAIN rows /\ db' = [db EXCEPT !.projects = rows2]
  BY <1>1, <1>2 DEF J!ComesDue
<1>4. DOMAIN db' = {"projects"} /\ db'.projects = rows2 /\ DOMAIN rows2 = DOMAIN rows
  BY <1>2, <1>3 DEF ProjectInv
<1>5. ASSUME NEW i \in DOMAIN rows
      PROVE  /\ DOMAIN rows2[i] = DOMAIN rows[i] /\ rows2[i].status = rows[i].status
             /\ rows2[i].completed_at = rows[i].completed_at
             /\ {"status", "completed_at"} \subseteq DOMAIN rows[i]
  <2>1. GoodProject(rows[i])
    BY <1>1 DEF ProjectInv
  <2>2. QED
    BY <1>2, <2>1 DEF GoodProject
<1>6. \A i \in DOMAIN rows2 : GoodProject(rows2[i])
  BY <1>1, <1>4, <1>5 DEF ProjectInv, GoodProject
<1>7. ASSUME NEW i, NEW write, GoodProjectWrite(rows, i, write)
      PROVE  GoodProjectWrite(rows2, i, write)
  <2>1. SUFFICES ASSUME write.op = "update", i \in DOMAIN rows
                 PROVE  GoodProject(Q!Written(rows2[i], write))
    BY <1>4, <1>7 DEF GoodProjectWrite
  <2>2. PICK old : old = Q!Written(rows[i], write)
    OBVIOUS
  <2>3. PICK new : new = Q!Written(rows2[i], write)
    OBVIOUS
  <2>4. GoodProject(old)
    BY <1>7, <2>1, <2>2 DEF GoodProjectWrite
  <2>5. /\ DOMAIN new = DOMAIN rows[i] /\ new.status = old.status
        /\ new.completed_at = old.completed_at
    BY <1>5, <2>1, <2>2, <2>3, Updating
  <2>6. QED
    BY <1>5, <2>1, <2>3, <2>4, <2>5 DEF GoodProject
<1>8. QED
  BY <1>1, <1>3, <1>4, <1>6, <1>7 DEF ProjectInv

LEMMA ProjectStep ==
    ASSUME part = "projects", ProjectInv, MCNext
    PROVE  ProjectInv'
<1>1. J!Next /\ \A v, w \in Alone : v = w
  BY AloneAssumption DEF MCNext, RowsNext
<1>2. ASSUME NEW w \in Alone, J!Create(w) \/ \E p : J!Change(w, p)
      PROVE  ProjectInv'
  <2>1. PICK p, write :
            /\ db' = db /\ req' = [req EXCEPT ![w] = [projects |-> [i \in {p} |-> write]]]
            /\ GoodProjectWrite(db.projects, p, write)
    BY <1>2, ProjectHandlers DEF ProjectInv, ProjectHeld
  <2>2. PICK ws : ws = [i \in {p} |-> write]
    OBVIOUS
  <2>3. DOMAIN ws = {p} /\ ws[p] = write
    BY <2>2
  <2>4. DOMAIN req' = Alone /\ \A v \in Alone : req'[v] = [projects |-> ws]
    BY <1>1, <2>1, <2>2 DEF ProjectInv
  <2>5. \A v \in Alone : DOMAIN req'[v] = {"projects"} /\ req'[v].projects = ws
    BY <2>4
  <2>6. QED
    BY <2>1, <2>3, <2>4, <2>5 DEF ProjectInv
<1>3. ASSUME NEW w \in Alone, J!Commit(w)
      PROVE  ProjectInv'
  <2>1. req[w] # None /\ req' = [req EXCEPT ![w] = None] /\ db' = J!AfterAll(req[w])
    BY <1>3 DEF J!Commit, J!CommitAs, J!Free
  <2>2. PICK ws : ws = req[w].projects
    OBVIOUS
  <2>3. db' = [t \in {"projects"} |-> Q!After(db.projects, ws)]
    BY <2>1, <2>2, ProjectOps DEF ProjectInv, J!AfterAll
  <2>4. PICK after : after = Q!After(db.projects, ws)
    OBVIOUS
  <2>5. \A p \in DOMAIN ws : GoodProjectWrite(db.projects, p, ws[p])
    BY <2>1, <2>2 DEF ProjectInv
  <2>6. ASSUME NEW p \in DOMAIN after
        PROVE  GoodProject(after[p])
    BY <2>4, <2>5, <2>6, RowAfter DEF ProjectInv, GoodProjectWrite
  <2>7. DOMAIN db' = {"projects"} /\ db'.projects = after
    BY <2>3, <2>4
  <2>8. DOMAIN req' = Alone /\ \A v \in Alone : req'[v] = None
    BY <1>1, <2>1 DEF ProjectInv
  <2>9. QED
    BY <2>6, <2>7, <2>8 DEF ProjectInv
<1>4. ASSUME NEW w \in Alone, J!Rollback(w)
      PROVE  ProjectInv'
  <2>1. db' = db /\ req' = [req EXCEPT ![w] = None]
    BY <1>4 DEF J!Rollback
  <2>2. DOMAIN req' = Alone /\ \A v \in Alone : req'[v] = None
    BY <1>1, <2>1 DEF ProjectInv
  <2>3. QED
    BY <2>1, <2>2 DEF ProjectInv
<1>5. QED
  BY <1>1, <1>2, <1>3, <1>4, ProjectDue DEF J!Next

LEMMA ProjectStart ==
    ASSUME part = "projects", MCInit
    PROVE  ProjectInv
<1>1. db = [t \in {"projects"} |-> J!NoRows] /\ req = [w \in Alone |-> None]
  BY DEF MCInit, PartInit, J!Init, J!Start
<1>2. DOMAIN db.projects = {}
  BY <1>1 DEF J!NoRows
<1>3. QED
  BY <1>1, <1>2 DEF ProjectInv

-------------------------------------------------------------------------------
(* Stamps *)

\* Whatever requests overlap, due dates agree with the priority and timestamps with the
\* status of a ticket, a publicly answered ticket has its first response, a completed
\* execution its file and a failed one its error; so does, requests alone, the completion
\* date of a project with its status (change_status, update, record_first_response,
\* complete_execution, fail_execution, update_status).
THEOREM StampsAgree == MCSpec => []StampsMatch
<1> DEFINE Inv == /\ part = "tickets" => TicketInv
                  /\ part = "comments" => CommentInv
                  /\ part = "reports" => ReportInv
                  /\ part = "projects" => ProjectInv
<1>1. MCInit => Inv
  BY TicketStart, CommentStart, ReportStart, ProjectStart
<1>2. Inv /\ [MCNext]_mcvars => Inv'
  <2>1. CASE MCNext
    BY <2>1, TicketStep, CommentStep, ReportStep, ProjectStep, SamePart
  <2>2. CASE UNCHANGED mcvars
    <3>1. UNCHANGED <<part, db, seq, req>>
      BY <2>2 DEF mcvars
    <3>2. (TicketInv => TicketInv') /\ (ProjectInv => ProjectInv')
      BY <3>1 DEF TicketInv, ProjectInv
    <3>3. (CommentInv => CommentInv') /\ (ReportInv => ReportInv')
      BY <3>1 DEF CommentInv, ReportInv
    <3>4. QED
      BY <3>1, <3>2, <3>3
  <2>3. QED
    BY <2>1, <2>2
<1>3. Inv => StampsMatch
  <2>1. ASSUME CommentInv PROVE C!AnsweredIsStamped
    BY <2>1 DEF CommentInv, GoodComments, Responds, C!AnsweredIsStamped
  <2>2. ASSUME ReportInv PROVE R!OutcomeRecorded
    BY <2>2 DEF ReportInv, GoodExecution, R!OutcomeRecorded
  <2>3. ASSUME ProjectInv PROVE J!CompletedIsStamped
    BY <2>3 DEF ProjectInv, GoodProject, J!CompletedIsStamped
  <2>4. QED
    BY <2>1, <2>2, <2>3, TicketStamps DEF StampsMatch
<1>4. QED
  BY <1>1, <1>2, <1>3, PTL DEF MCSpec

-------------------------------------------------------------------------------
(* Counts and sums over finite sets *)

\* Every nonempty set of natural numbers has a least element.
LEMMA Least ==
    ASSUME NEW N1 \in SUBSET Nat, N1 # {}
    PROVE  \E m \in N1 : \A n \in N1 : m <= n
<1>1. IsWellFoundedOn(OpToRel(<, Nat), Nat)
  BY NatLessThanWellFounded, Zenon
<1>2. PICK m \in N1 : \A n \in N1 : ~ (<<n, m>> \in OpToRel(<, Nat))
  BY <1>1, WFMin
<1>3. \A n \in N1 : ~ (n < m)
  BY <1>2 DEF OpToRel
<1> QED
  BY <1>3

Pick(s) == CHOOSE x \in s : TRUE
\* What FiniteSetsExt and Functions sum with: g sums f over the members of Base.
SumsOver(g, f, Base) ==
    g = [s \in Base |-> IF s = {} THEN 0 ELSE f[Pick(s)] + g[s \ {Pick(s)}]]
Small(Items, n) == {s \in SUBSET Items : Cardinality(s) <= n}

\* A subset that is not empty has a picked member, and without it is smaller.
LEMMA SmallerPick ==
    ASSUME NEW Items, IsFiniteSet(Items), NEW n \in Nat, NEW s \in Small(Items, n), s # {}
    PROVE  /\ Pick(s) \in s /\ n # 0 /\ s \ {Pick(s)} \in Small(Items, n - 1)
           /\ IsFiniteSet(s) /\ Cardinality(s) \in Nat \ {0}
           /\ Cardinality(s \ {Pick(s)}) = Cardinality(s) - 1
<1>1. Pick(s) \in s
  BY DEF Pick
<1>2. IsFiniteSet(s)
  BY FS_Subset DEF Small
<1>3. Cardinality(s) \in Nat /\ Cardinality(s \ {Pick(s)}) = Cardinality(s) - 1 /\ Cardinality(s) # 0
  BY <1>1, <1>2, FS_RemoveElement, FS_CardinalityType, FS_EmptySet
<1> QED
  BY <1>1, <1>2, <1>3 DEF Small

\* Sums over the subsets of at most n - 1 elements make those of at most n.
LEMMA SumExtends ==
    ASSUME NEW Items, IsFiniteSet(Items), NEW f, NEW n \in Nat, n # 0, NEW g, SumsOver(g, f, Small(Items, n - 1))
    PROVE  \E h : SumsOver(h, f, Small(Items, n))
<1> DEFINE h == [s \in Small(Items, n) |-> IF s = {} THEN 0 ELSE f[Pick(s)] + g[s \ {Pick(s)}]]
<1>1. \A s \in Small(Items, n - 1) : s \in Small(Items, n)
  <2> SUFFICES ASSUME NEW s \in Small(Items, n - 1) PROVE s \in Small(Items, n)
    OBVIOUS
  <2>1. Cardinality(s) \in Nat
    BY FS_Subset, FS_CardinalityType DEF Small
  <2> QED
    BY <2>1 DEF Small
<1>2. \A s \in Small(Items, n - 1) : h[s] = g[s]
  BY <1>1 DEF SumsOver
<1>3. \A s \in Small(Items, n) : s # {} => h[s \ {Pick(s)}] = g[s \ {Pick(s)}]
  BY <1>2, SmallerPick
<1>4. h = [s \in Small(Items, n) |-> IF s = {} THEN 0 ELSE f[Pick(s)] + h[s \ {Pick(s)}]]
  BY <1>3
<1> QED
  BY <1>4 DEF SumsOver

\* A recursive sum over the subsets of a finite set has a value on each of them.
LEMMA SumExists ==
    ASSUME NEW Items, IsFiniteSet(Items), NEW f
    PROVE  \E g : SumsOver(g, f, SUBSET Items)
<1> DEFINE Open == {n \in Nat : ~ \E g : SumsOver(g, f, Small(Items, n))}
<1>1. Open = {}
  <2> SUFFICES ASSUME Open # {} PROVE FALSE
    OBVIOUS
  <2>1. PICK m \in Open : \A n \in Open : m <= n
    BY Least
  <2>2. CASE m = 0
    <3>1. \A s \in Small(Items, 0) : s = {}
      BY <2>2, SmallerPick
    <3>2. SumsOver([s \in Small(Items, 0) |-> 0], f, Small(Items, 0))
      BY <3>1 DEF SumsOver
    <3> QED
      BY <2>2, <3>2
  <2>3. CASE m # 0
    <3>1. m - 1 \in Nat /\ m - 1 \notin Open
      BY <2>1, <2>3
    <3>2. PICK g : SumsOver(g, f, Small(Items, m - 1))
      BY <3>1
    <3> QED
      BY <2>1, <2>3, <3>2, SumExtends
  <2> QED
    BY <2>2, <2>3
<1>2. Cardinality(Items) \in Nat /\ Small(Items, Cardinality(Items)) = SUBSET Items
  <2>1. \A s \in SUBSET Items : IsFiniteSet(s) /\ Cardinality(s) <= Cardinality(Items)
    BY FS_Subset
  <2> QED
    BY <2>1, FS_CardinalityType DEF Small
<1>3. Cardinality(Items) \notin Open
  BY <1>1
<1>4. \E g : SumsOver(g, f, Small(Items, Cardinality(Items)))
  BY <1>2, <1>3
<1> HIDE DEF Open
<1> QED
  BY <1>2, <1>4, Zenon

\* Induction over the subsets of a finite set, one element at a time.
LEMMA SubsetInduction ==
    ASSUME NEW Items, IsFiniteSet(Items), NEW H, {} \in H,
           \A s \in SUBSET Items : s # {} /\ s \ {Pick(s)} \in H => s \in H
    PROVE  \A s \in SUBSET Items : s \in H
<1> DEFINE Sizes == {n \in Nat : \E s \in SUBSET Items : Cardinality(s) = n /\ s \notin H}
<1> SUFFICES ASSUME NEW t \in SUBSET Items, t \notin H PROVE FALSE
  OBVIOUS
<1>1. \A s \in SUBSET Items : Cardinality(s) \in Nat
  BY FS_Subset, FS_CardinalityType
<1>2. Cardinality(t) \in Sizes
  BY <1>1
<1>3. PICK m \in Sizes : \A n \in Sizes : m <= n
  BY <1>2, Least
<1>4. PICK s \in SUBSET Items : Cardinality(s) = m /\ s \notin H
  BY <1>3
<1>5. s # {} /\ s \in Small(Items, m)
  <2>1. s # {}
    BY <1>4
  <2>2. Cardinality(s) = m /\ Cardinality(s) \in Nat
    BY <1>1, <1>4
  <2>3. Cardinality(s) <= m
    BY <2>2
  <2> QED
    BY <2>1, <2>3 DEF Small
<1>6. m \in Nat /\ Cardinality(s \ {Pick(s)}) = m - 1
  BY <1>4, <1>5, SmallerPick
<1>7. s \ {Pick(s)} \in SUBSET Items
  OBVIOUS
<1>8. m - 1 \notin Sizes
  BY <1>3, <1>6
<1>9. m - 1 \in Nat
  BY <1>1, <1>6, <1>7
<1>10. s \ {Pick(s)} \in H
  BY <1>6, <1>7, <1>8, <1>9
<1> QED
  BY <1>4, <1>5, <1>10

\* A sum of integers is an integer, and lies between as many times the least and the
\* greatest of them.
LEMMA SumBounds ==
    ASSUME NEW Items, IsFiniteSet(Items), NEW f, NEW g, SumsOver(g, f, SUBSET Items),
           NEW lo \in Int, NEW hi \in Int,
           \A x \in Items : f[x] \in Int /\ lo <= f[x] /\ f[x] <= hi
    PROVE  /\ g[Items] \in Int
           /\ lo * Cardinality(Items) <= g[Items] /\ g[Items] <= hi * Cardinality(Items)
<1> DEFINE H == {s \in SUBSET Items : /\ g[s] \in Int
                                  /\ lo * Cardinality(s) <= g[s]
                                  /\ g[s] <= hi * Cardinality(s)}
<1>1. {} \in H
  <2>1. g[{}] = 0
    BY DEF SumsOver
  <2> QED
    BY <2>1, FS_EmptySet
<1>2. ASSUME NEW s \in SUBSET Items, s # {}, s \ {Pick(s)} \in H
      PROVE  s \in H
  <2>1. PICK c \in Nat : c = Cardinality(s \ {Pick(s)}) /\ Cardinality(s) = c + 1 /\ Pick(s) \in s
    <3>1. IsFiniteSet(s) /\ Cardinality(s) \in Nat
      BY FS_Subset, FS_CardinalityType
    <3>2. s \in Small(Items, Cardinality(s))
      BY <3>1 DEF Small
    <3> QED
      BY <1>2, <3>1, <3>2, SmallerPick
  <2>2. g[s] = f[Pick(s)] + g[s \ {Pick(s)}]
    BY <1>2 DEF SumsOver
  <2>3. PICK x \in Int, r \in Int : /\ x = f[Pick(s)] /\ r = g[s \ {Pick(s)}]
                                    /\ lo <= x /\ x <= hi /\ lo * c <= r /\ r <= hi * c
    BY <1>2, <2>1
  <2>4. lo * (c + 1) = lo * c + lo /\ hi * (c + 1) = hi * c + hi
    BY <2>1
  <2>5. lo * (c + 1) <= x + r /\ x + r <= hi * (c + 1)
    BY <2>1, <2>3, <2>4
  <2> QED
    BY <2>1, <2>2, <2>3, <2>5
<1>3. Items \in H
  BY <1>1, <1>2, SubsetInduction
<1> QED
  BY <1>3

\* Disjoint sets have as many members together as apart.
LEMMA Apart ==
    ASSUME NEW A1, IsFiniteSet(A1), NEW B1, IsFiniteSet(B1), A1 \cap B1 = {}
    PROVE  /\ Cardinality(A1 \cup B1) = Cardinality(A1) + Cardinality(B1)
           /\ IsFiniteSet(A1 \cup B1) /\ Cardinality(A1) \in Nat /\ Cardinality(B1) \in Nat
<1>1. Cardinality(A1 \cap B1) = 0
  BY FS_EmptySet
<1>2. Cardinality(A1) \in Nat /\ Cardinality(B1) \in Nat
  BY FS_CardinalityType
<1>3. IsFiniteSet(A1 \cup B1)
      /\ Cardinality(A1 \cup B1) = Cardinality(A1) + Cardinality(B1) - Cardinality(A1 \cap B1)
  BY FS_Union
<1> QED
  BY <1>1, <1>2, <1>3

\* The elements of Base that v gives a value in s.
Valued(Base, v, s) == {d \in Base : v[d] \in s}
Counts(f, Items, Base, v) == \A x \in Items : f[x] = Cardinality(Valued(Base, v, {x}))

\* How often each value occurs, summed over the values, counts every element once.
LEMMA SumCounts ==
    ASSUME NEW Items, IsFiniteSet(Items), NEW f, NEW g, SumsOver(g, f, SUBSET Items),
           NEW Base, IsFiniteSet(Base), NEW v,
           Counts(f, Items, Base, v)
    PROVE  g[Items] = Cardinality(Valued(Base, v, Items))
<1> DEFINE H == {s \in SUBSET Items : g[s] = Cardinality({d \in Base : v[d] \in s})}
<1>0. \A x \in Items : f[x] = Cardinality({d \in Base : v[d] = x})
  <2>1. \A x : Valued(Base, v, {x}) = {d \in Base : v[d] = x}
    BY DEF Valued
  <2> QED
    BY <2>1 DEF Counts
<1>1. {} \in H
  <2>1. g[{}] = 0 /\ {d \in Base : v[d] \in {}} = {}
    BY DEF SumsOver
  <2> QED
    BY <2>1, FS_EmptySet
<1>2. ASSUME NEW s \in SUBSET Items, s # {}, s \ {Pick(s)} \in H
      PROVE  s \in H
  <2> DEFINE x == Pick(s)
             A1 == {d \in Base : v[d] = x}
             B1 == {d \in Base : v[d] \in s \ {x}}
  <2>1. x \in s
    BY <1>2 DEF Pick
  <2>2. g[s] = Cardinality(A1) + Cardinality(B1)
    BY <1>0, <1>2, <2>1 DEF SumsOver
  <2>3. {d \in Base : v[d] \in s} = A1 \cup B1 /\ A1 \cap B1 = {}
    BY <2>1
  <2>4. IsFiniteSet(A1) /\ IsFiniteSet(B1)
    BY FS_Subset
  <2> HIDE DEF A1, B1
  <2>6. Cardinality(A1 \cup B1) = Cardinality(A1) + Cardinality(B1)
    BY <2>3, <2>4, Apart
  <2> QED
    BY <2>2, <2>3, <2>6
<1>3. Items \in H
  BY <1>1, <1>2, SubsetInduction
<1> QED
  BY <1>3 DEF Valued

\* A quotient lies where the dividend does.
LEMMA Quotient ==
    ASSUME NEW a \in Int, NEW b \in Nat, b # 0
    PROVE  /\ a \div b \in Int /\ (a \div b) * b <= a
           /\ \A m \in Int : (m * b <= a => m <= a \div b) /\ (a <= m * b => a \div b <= m)
<1>1. PICK d \in Int : d = a \div b /\ d * b <= a /\ a < d * b + b
  BY SMT
<1>2. ASSUME NEW m \in Int, m * b <= a, m > d PROVE FALSE
  <2>1. m >= d + 1
    BY <1>2
  <2>2. m * b >= (d + 1) * b
    BY <2>1
  <2>3. (d + 1) * b = d * b + b
    OBVIOUS
  <2> QED
    BY <1>1, <1>2, <2>2, <2>3
<1>3. ASSUME NEW m \in Int, a <= m * b, d > m PROVE FALSE
  <2>1. d >= m + 1
    BY <1>3
  <2>2. d * b >= (m + 1) * b
    BY <2>1
  <2>3. (m + 1) * b = m * b + b
    OBVIOUS
  <2> QED
    BY <1>1, <1>3, <2>2, <2>3
<1> QED
  BY <1>1, <1>2, <1>3

-------------------------------------------------------------------------------
(* Survey results *)

ResultsInv == G!TypeOK

\* At first there are no responses.
LEMMA ResultsStart == part = "survey_results" /\ MCInit => ResultsInv
<1> SUFFICES ASSUME part = "survey_results", MCInit PROVE ResultsInv
  OBVIOUS
<1>1. db = [r \in {} |-> None]
  BY DEF MCInit, PartInit, G!Init
<1> QED
  BY <1>1 DEF ResultsInv, G!TypeOK

\* What a step does to the responses.
LEMMA ResultsParts ==
    ASSUME part = "survey_results", [MCNext]_mcvars
    PROVE  G!Next \/ UNCHANGED db
BY DEF MCNext, RowsNext, mcvars, NoRequests

\* Responses keep their types.
LEMMA ResultsStep ==
    ASSUME ResultsInv, part = "survey_results", [MCNext]_mcvars PROVE ResultsInv'
<1>1. CASE UNCHANGED db
  BY <1>1 DEF ResultsInv, G!TypeOK, G!SurveyResponse, G!Answers
<1>2. ASSUME NEW r \in Person, G!StartResponse(r) PROVE ResultsInv'
  <2>1. [is_complete |-> FALSE, answers |-> G!NoAnswers] \in G!SurveyResponse
    BY DEF G!SurveyResponse, G!NoAnswers, G!Answers
  <2> QED
    BY <1>2, <2>1 DEF G!StartResponse, ResultsInv, G!TypeOK
<1>3. ASSUME NEW r \in Person, NEW a \in G!Answers, G!SubmitResponse(r, a) PROVE ResultsInv'
  <2>1. [is_complete |-> TRUE, answers |-> a] \in G!SurveyResponse
    BY DEF G!SurveyResponse
  <2> QED
    BY <1>3, <2>1 DEF G!SubmitResponse, ResultsInv, G!TypeOK
<1> QED
  BY <1>1, <1>2, <1>3, ResultsParts DEF G!Next

\* Results counts as FiniteSets does.
LEMMA ResultOps == \A N1 : G!Cardinality(N1) = Cardinality(N1)
  BY Zenon DEF G!Cardinality, Cardinality

\* A first number, when there is one, is in the range that is counted.
LEMMA FirstNumberFound ==
    ASSUME NEW a \in G!Answers, NEW low \in {0, 1}, G!FirstNumber(a, low) # None
    PROVE  G!FirstNumber(a, low) \in low..10
<1> DEFINE keys == {k \in DOMAIN a : G!IsNumber(a[k]) /\ a[k].n \in low..10}
<1>1. DOMAIN a = {1, 2}
  BY DEF G!Answers
<1>2. keys # {} /\ G!FirstNumber(a, low) = a[G!Min(keys)].n
  BY DEF G!FirstNumber
<1>3. \E k \in keys : \A j \in keys : k =< j
  <2>1. keys \in SUBSET {1, 2} /\ keys # {}
    BY <1>1, <1>2
  <2> HIDE DEF keys
  <2>2. CASE 1 \in keys
    BY <2>1, <2>2
  <2>3. CASE 1 \notin keys
    <3>1. 2 \in keys /\ \A j \in keys : j = 2
      BY <2>1, <2>3
    <3> QED
      BY <3>1
  <2> QED
    BY <2>2, <2>3
<1>4. G!Min(keys) \in keys
  BY <1>3 DEF G!Min
<1> QED
  BY <1>2, <1>4

\* The responses that a figure counts are among the complete ones.
LEMMA Counted ==
    ASSUME ResultsInv
    PROVE  /\ IsFiniteSet(DOMAIN db) /\ IsFiniteSet(G!Complete)
           /\ G!Complete \subseteq DOMAIN db
           /\ \A low : G!Scored(low) \subseteq G!Complete /\ IsFiniteSet(G!Scored(low))
           /\ \A q : G!Rated(q) \subseteq G!Complete /\ IsFiniteSet(G!Rated(q))
<1>1. G!Complete \subseteq DOMAIN db
  BY DEF G!Complete
<1>2. \A low : G!Scored(low) \subseteq G!Complete
  BY DEF G!Scored
<1>3. \A q : G!Rated(q) \subseteq G!Complete
  BY <1>2 DEF G!Rated
<1>4. IsFiniteSet(DOMAIN db)
  BY FiniteAssumption, FS_Subset DEF ResultsInv, G!TypeOK
<1> QED
  BY <1>1, <1>2, <1>3, <1>4, FS_Subset

\* The three groups of scores are those that count.
LEMMA GroupsAddUp ==
    ASSUME ResultsInv
    PROVE  /\ G!Between(9, 10) + G!Between(7, 8) + G!Between(0, 6) = Cardinality(G!Scored(0))
           /\ G!Between(9, 10) \in Nat /\ G!Between(7, 8) \in Nat /\ G!Between(0, 6) \in Nat
<1> DEFINE Group(low, high) ==
        {r \in G!Scored(0) : G!FirstNumber(db[r].answers, 0) \in low..high}
<1>1. \A r \in G!Scored(0) : G!FirstNumber(db[r].answers, 0) \in 0..10
  <2> SUFFICES ASSUME NEW r \in G!Scored(0) PROVE G!FirstNumber(db[r].answers, 0) \in 0..10
    OBVIOUS
  <2>1. db[r].answers \in G!Answers
    BY Counted DEF ResultsInv, G!TypeOK, G!SurveyResponse
  <2> QED
    BY <2>1, FirstNumberFound DEF G!Scored
<1>2. /\ G!Scored(0) = (Group(9, 10) \cup Group(7, 8)) \cup Group(0, 6)
      /\ Group(9, 10) \cap Group(7, 8) = {}
      /\ (Group(9, 10) \cup Group(7, 8)) \cap Group(0, 6) = {}
  BY <1>1
<1>3. /\ G!Between(9, 10) = Cardinality(Group(9, 10))
      /\ G!Between(7, 8) = Cardinality(Group(7, 8))
      /\ G!Between(0, 6) = Cardinality(Group(0, 6))
  BY ResultOps DEF G!Between
<1>4. IsFiniteSet(Group(9, 10)) /\ IsFiniteSet(Group(7, 8)) /\ IsFiniteSet(Group(0, 6))
  BY Counted, FS_Subset
<1> HIDE DEF Group
<1>5. /\ IsFiniteSet(Group(9, 10) \cup Group(7, 8))
      /\ Cardinality(Group(9, 10) \cup Group(7, 8)) =
             Cardinality(Group(9, 10)) + Cardinality(Group(7, 8))
  BY <1>2, <1>4, Apart
<1>6. Cardinality((Group(9, 10) \cup Group(7, 8)) \cup Group(0, 6)) =
          Cardinality(Group(9, 10) \cup Group(7, 8)) + Cardinality(Group(0, 6))
  BY <1>2, <1>4, <1>5, Apart
<1> QED
  BY <1>2, <1>3, <1>4, <1>5, <1>6, FS_CardinalityType

\* A score is at least -100 and at most 100, and is that of the groups.
LEMMA ScoreIs ==
    ASSUME ResultsInv, G!Scored(0) # {}
    PROVE  LET n == Cardinality(G!Scored(0))
               lead == G!Between(9, 10) - G!Between(0, 6)
           IN  /\ n \in Nat \ {0} /\ lead \in Int /\ -n <= lead /\ lead <= n
               /\ G!CalculateNps.score = (100 * lead) \div n
               /\ G!CalculateNps.score \in -100..100
<1> DEFINE n == Cardinality(G!Scored(0))
           lead == G!Between(9, 10) - G!Between(0, 6)
<1>1. n \in Nat \ {0}
  BY Counted, FS_CardinalityType, FS_EmptySet
<1>2. lead \in Int /\ -n <= lead /\ lead <= n
  BY GroupsAddUp, <1>1
<1>3. G!CalculateNps.score = (100 * lead) \div n
  BY ResultOps DEF G!CalculateNps, G!Percent
<1> HIDE DEF n, lead
<1>4. 100 * lead \in Int /\ (-100) * n <= 100 * lead /\ 100 * lead <= 100 * n
  BY <1>1, <1>2
<1>5. (100 * lead) \div n \in Int /\ -100 <= (100 * lead) \div n /\ (100 * lead) \div n <= 100
  BY <1>1, <1>4, Quotient
<1>6. PICK p \in Int : p = (100 * lead) \div n /\ -100 <= p /\ p <= 100
  BY <1>5
<1>7. G!CalculateNps.score \in -100..100
  BY <1>3, <1>6
<1> QED
  BY <1>1, <1>2, <1>3, <1>7 DEF n, lead

\* The completion rate is a percentage.
LEMMA CompletionIs == ResultsInv => G!CompletionPercent \in 0..100
<1> SUFFICES ASSUME ResultsInv PROVE G!CompletionPercent \in 0..100
  OBVIOUS
<1>1. CASE DOMAIN db = {}
  <2>1. G!CompletionPercent = 0
    BY <1>1 DEF G!CompletionPercent
  <2> QED
    BY <2>1
<1>2. CASE DOMAIN db # {}
  <2>1. PICK c, d : c = Cardinality(G!Complete) /\ d = Cardinality(DOMAIN db)
    OBVIOUS
  <2>2. c \in Nat /\ d \in Nat /\ d # 0 /\ c <= d
    BY <1>2, <2>1, Counted, FS_CardinalityType, FS_EmptySet, FS_Subset
  <2>3. 0 * d <= 100 * c /\ 100 * c <= 100 * d
    BY <2>2
  <2>4. (100 * c) \div d \in Int /\ 0 <= (100 * c) \div d /\ (100 * c) \div d <= 100
    BY <2>2, <2>3, Quotient
  <2>5. G!CompletionPercent = (100 * c) \div d
    BY <1>2, <2>1, ResultOps DEF G!CompletionPercent
  <2>6. PICK p \in Int : p = (100 * c) \div d /\ 0 <= p /\ p <= 100
    BY <2>4
  <2> QED
    BY <2>5, <2>6
<1> QED
  BY <1>1, <1>2

\* Each rating is a whole number.
LEMMA RatingIsNumber ==
    ASSUME ResultsInv, NEW q \in {1, 2, None}, NEW r \in G!Rated(q)
    PROVE  G!RatingIn(r, q) \in Nat
<1>1. db[r].answers \in G!Answers
  BY Counted DEF ResultsInv, G!TypeOK, G!SurveyResponse
<1>2. CASE q = None
  <2>1. G!FirstNumber(db[r].answers, 1) # None
    BY <1>2 DEF G!Rated, G!Scored
  <2> QED
    BY <1>1, <1>2, <2>1, FirstNumberFound DEF G!RatingIn
<1>3. CASE q # None
  <2>1. q \in {1, 2} /\ G!IsNumber(db[r].answers[q])
    BY <1>3 DEF G!Rated
  <2>2. db[r].answers[q] \in G!Value \cup {None}
    BY <1>1, <2>1 DEF G!Answers
  <2>3. db[r].answers[q] \in G!Value /\ db[r].answers[q].type # "text"
    BY <2>1, <2>2 DEF G!IsNumber
  <2>4. db[r].answers[q].n \in Nat
    BY <2>3 DEF G!Value
  <2> QED
    BY <1>3, <2>4 DEF G!RatingIn
<1> QED
  BY <1>2, <1>3

\* The sum of the ratings of a question is a number.
LEMMA TotalIs ==
    ASSUME NEW q, IsFiniteSet(G!Rated(q)), G!Rated(q) # {}
    PROVE  \E g : /\ SumsOver(g, [r \in G!Rated(q) |-> G!RatingIn(r, q)], SUBSET G!Rated(q))
                  /\ G!CalculateRating(q).average = g[G!Rated(q)] \div Cardinality(G!Rated(q))
<1> DEFINE Items == G!Rated(q)
           f == [r \in Items |-> G!RatingIn(r, q)]
           Sums(g) == g = [s \in SUBSET Items |-> IF s = {} THEN 0
                              ELSE G!RatingIn(CHOOSE x \in s : TRUE, q) + g[s \ {CHOOSE x \in s : TRUE}]]
<1>1. \A g : SumsOver(g, f, SUBSET Items) <=> Sums(g)
  <2>1. \A s \in SUBSET Items : s # {} => f[Pick(s)] = G!RatingIn(CHOOSE x \in s : TRUE, q)
    BY DEF Pick
  <2> SUFFICES ASSUME NEW g
               PROVE  [s \in SUBSET Items |-> IF s = {} THEN 0 ELSE f[Pick(s)] + g[s \ {Pick(s)}]]
                      = [s \in SUBSET Items |-> IF s = {} THEN 0 ELSE
                           G!RatingIn(CHOOSE x \in s : TRUE, q) + g[s \ {CHOOSE x \in s : TRUE}]]
    BY DEF SumsOver
  <2> HIDE DEF f
  <2> QED
    BY <2>1 DEF Pick
<1>2. \E g : Sums(g)
  BY <1>1, SumExists
<1>3. Sums(CHOOSE g : Sums(g))
  BY <1>2, Zenon
<1>4. G!CalculateRating(q).average = (CHOOSE g : Sums(g))[Items] \div Cardinality(Items)
  BY ResultOps DEF G!CalculateRating, G!MapThenSumSet, G!MapThenFoldSet
<1> QED
  BY <1>1, <1>3, <1>4

\* Functions' sum over a finite domain is one of these sums.
LEMMA SumFunctionIs ==
    ASSUME NEW f, IsFiniteSet(DOMAIN f)
    PROVE  \E g : SumsOver(g, f, SUBSET DOMAIN f) /\ G!SumFunction(f) = g[DOMAIN f]
<1> DEFINE Sums(g) == g = [s \in SUBSET DOMAIN f |-> IF s = {} THEN 0
                              ELSE f[CHOOSE x \in s : TRUE] + g[s \ {CHOOSE x \in s : TRUE}]]
<1>1. \A g : SumsOver(g, f, SUBSET DOMAIN f) <=> Sums(g)
  BY DEF SumsOver, Pick
<1>2. \E g : Sums(g)
  <2>1. PICK h : SumsOver(h, f, SUBSET DOMAIN f)
    BY SumExists
  <2> HIDE DEF Sums
  <2>2. Sums(h)
    BY <1>1, <2>1
  <2> QED
    BY <2>2
<1>3. Sums(CHOOSE g : Sums(g))
  BY <1>2, Zenon
<1>4. G!SumFunction(f) = (CHOOSE g : Sums(g))[DOMAIN f]
  BY DEF G!SumFunction, G!SumFunctionOnSet, G!FoldFunctionOnSet, G!MapThenFoldSet
<1> QED
  BY <1>1, <1>3, <1>4

\* A finite set of numbers that is not empty has a least and a greatest member.
LEMMA Extremes ==
    ASSUME NEW N1 \in SUBSET Nat, IsFiniteSet(N1), N1 # {}
    PROVE  /\ G!Min(N1) \in N1 /\ \A n \in N1 : G!Min(N1) <= n
           /\ G!Max(N1) \in N1 /\ \A n \in N1 : n <= G!Max(N1)
<1>1. \E x \in N1 : \A y \in N1 : x =< y
  BY Least
<1> DEFINE H == {s \in SUBSET N1 : s # {} => \E x \in s : \A y \in s : x >= y}
<1>2. ASSUME NEW s \in SUBSET N1, s # {}, s \ {Pick(s)} \in H PROVE s \in H
  <2>1. Pick(s) \in s /\ Pick(s) \in Nat
    BY <1>2 DEF Pick
  <2>2. CASE s \ {Pick(s)} = {}
    <3>1. \A y \in s : Pick(s) >= y
      BY <2>1, <2>2
    <3> QED
      BY <2>1, <3>1
  <2>3. CASE s \ {Pick(s)} # {}
    <3>1. PICK x \in s : x \in Nat /\ \A y \in s \ {Pick(s)} : x >= y
      BY <1>2, <2>3
    <3>2. CASE x >= Pick(s)
      BY <2>1, <3>1, <3>2
    <3>3. CASE ~ (x >= Pick(s))
      <4>1. \A y \in s : y \in Nat /\ (y = Pick(s) \/ x >= y)
        BY <3>1
      <4>2. \A y \in s : Pick(s) >= y
        BY <2>1, <3>1, <3>3, <4>1
      <4> QED
        BY <2>1, <4>2
    <3> QED
      BY <3>2, <3>3
  <2> QED
    BY <2>2, <2>3
<1>3. {} \in H
  OBVIOUS
<1>4. N1 \in H
  BY <1>2, <1>3, SubsetInduction
<1>5. \E x \in N1 : \A y \in N1 : x >= y
  BY <1>4
<1> QED
  BY <1>1, <1>5 DEF G!Min, G!Max

\* The distribution of a question counts each rating once, and the average lies between
\* the least and the greatest of them.
LEMMA RatingsAddUp ==
    ASSUME ResultsInv, NEW q \in {1, 2, None}
    PROVE  LET rating == G!CalculateRating(q)
           IN  /\ rating.average # None => rating.average \in rating.min..rating.max
               /\ G!SumFunction(rating.distribution) = rating.response_count
<1> DEFINE Items == G!Rated(q)
           f == [r \in Items |-> G!RatingIn(r, q)]
           ratings == {f[r] : r \in Items}
           dist == [n \in ratings |-> Cardinality({r \in Items : f[r] = n})]
           rating == G!CalculateRating(q)
<1>1. IsFiniteSet(Items) /\ \A r \in Items : f[r] = G!RatingIn(r, q) /\ f[r] \in Nat
  BY Counted, RatingIsNumber
<1>2. ratings = {G!RatingIn(r, q) : r \in Items}
  OBVIOUS
<1>3. CASE Items = {}
  <2>1. G!CalculateRating(q) = [average |-> None, response_count |-> 0, distribution |-> [n \in {} |-> 0]]
    BY <1>3 DEF G!CalculateRating
  <2>2. IsFiniteSet(DOMAIN [n \in {} |-> 0]) /\ DOMAIN [n \in {} |-> 0] = {}
    BY FS_EmptySet
  <2>3. G!SumFunction([n \in {} |-> 0]) = 0
    BY <2>2, SumFunctionIs DEF SumsOver
  <2> QED
    BY <2>1, <2>3
<1>4. CASE Items # {}
  <2>1. /\ rating.average # None => TRUE
        /\ rating.min = G!Min(ratings) /\ rating.max = G!Max(ratings)
        /\ rating.response_count = Cardinality(Items) /\ rating.distribution = dist
    BY <1>2, <1>4, ResultOps DEF G!CalculateRating
  <2>2. /\ ratings \in SUBSET Nat /\ ratings # {}
        /\ \A x \in ratings : \E r \in Items : x = f[r]
        /\ \A r \in Items : f[r] \in ratings
    BY <1>1, <1>4
  <2> HIDE DEF ratings, f
  <2>3. IsFiniteSet(ratings)
    <3>1. [r \in Items |-> f[r]] \in Surjection(Items, ratings)
      BY <2>2 DEF Surjection
    <3> QED
      BY <1>1, <3>1, FS_Surjection
  <2>4. PICK lo \in Nat, hi \in Nat : /\ lo = G!Min(ratings) /\ hi = G!Max(ratings)
                                     /\ \A r \in Items : lo <= f[r] /\ f[r] <= hi
    BY <2>2, <2>3, Extremes
  <2>5. PICK n \in Nat \ {0} : n = Cardinality(Items)
    BY <1>1, <1>4, FS_CardinalityType, FS_EmptySet
  <2>6. PICK g : SumsOver(g, f, SUBSET Items) /\ rating.average = g[Items] \div n
    BY <1>1, <1>4, <2>5, TotalIs DEF f
  <2>7. PICK total \in Int : total = g[Items] /\ lo * n <= total /\ total <= hi * n
    <3>1. \A r \in Items : f[r] \in Int /\ lo <= f[r] /\ f[r] <= hi
      BY <1>1, <2>4
    <3> HIDE DEF Items, f
    <3>2. SumsOver(g, f, SUBSET Items) /\ IsFiniteSet(Items)
      BY <1>1, <2>6
    <3>4. lo \in Int /\ hi \in Int
      OBVIOUS
    <3> HIDE DEF dist, rating, ratings
    <3>3. g[Items] \in Int /\ lo * Cardinality(Items) <= g[Items] /\ g[Items] <= hi * Cardinality(Items)
      BY <3>1, <3>2, <3>4, SumBounds, Zenon
    <3> QED
      BY <2>5, <2>6, <3>3
  <2>8. PICK average \in Int : average = total \div n /\ lo <= average /\ average <= hi
    BY <2>5, <2>7, Quotient
  <2>9. G!SumFunction(dist) = Cardinality(Items)
    <3>1. DOMAIN dist = ratings /\ \A x \in ratings : dist[x] = Cardinality({r \in Items : f[r] = x})
      OBVIOUS
    <3> HIDE DEF dist
    <3>2. PICK h : SumsOver(h, dist, SUBSET ratings) /\ G!SumFunction(dist) = h[ratings]
      BY <2>3, <3>1, SumFunctionIs
    <3> HIDE DEF Items
    <3>3. h[ratings] = Cardinality({r \in Items : f[r] \in ratings})
      <4>1. SumsOver(h, dist, SUBSET ratings) /\ IsFiniteSet(ratings) /\ IsFiniteSet(Items)
        BY <1>1, <2>3, <3>2
      <4>2. Counts(dist, ratings, Items, f)
        <5>1. \A x : Valued(Items, f, {x}) = {r \in Items : f[r] = x}
          BY DEF Valued
        <5> QED
          BY <3>1, <5>1 DEF Counts
      <4>3. h[ratings] = Cardinality(Valued(Items, f, ratings))
        <5> HIDE DEF ratings, f, rating
        <5> QED
          BY <4>1, <4>2, SumCounts
      <4> QED
        BY <4>3 DEF Valued
    <3>4. {r \in Items : f[r] \in ratings} = Items
      BY <2>2
    <3> QED
      BY <3>2, <3>3, <3>4
  <2>10. rating.average \in rating.min..rating.max
    BY <2>1, <2>4, <2>6, <2>7, <2>8
  <2> QED
    BY <2>1, <2>9, <2>10
<1> QED
  BY <1>3, <1>4

\* All figures of a survey agree with its responses.
LEMMA FiguresHold == ResultsInv => G!FiguresAddUp
<1> SUFFICES ASSUME ResultsInv PROVE G!FiguresAddUp
  OBVIOUS
<1> DEFINE nps == G!CalculateNps
<1>1. /\ nps.promoters = G!Between(9, 10) /\ nps.passives = G!Between(7, 8)
      /\ nps.detractors = G!Between(0, 6) /\ nps.response_count = Cardinality(G!Scored(0))
      /\ G!Scored(0) = {} => nps.score = None
  BY ResultOps DEF G!CalculateNps
<1>2. nps.promoters + nps.passives + nps.detractors = nps.response_count
  BY <1>1, GroupsAddUp
<1>3. nps.response_count <= G!Cardinality(G!Complete)
  BY <1>1, ResultOps, Counted, FS_Subset
<1>4. nps.score # None => nps.score \in -100..100
  BY <1>1, ScoreIs
<1>5. DOMAIN <<"q1", "q2">> = {1, 2}
  OBVIOUS
<1>6. \A q \in DOMAIN <<"q1", "q2">> \cup {None} :
          LET rating == G!CalculateRating(q)
          IN  /\ rating.average # None => rating.average \in rating.min..rating.max
              /\ G!SumFunction(rating.distribution) = rating.response_count
  BY <1>5, RatingsAddUp
<1> QED
  BY <1>2, <1>3, <1>4, <1>6, CompletionIs DEF G!FiguresAddUp

\* One more response with a score, or one without, and what becomes of the groups.
LEMMA Submitted ==
    ASSUME ResultsInv, ResultsInv', NEW r \in Person, G!Next, r \in G!Complete' \ G!Complete
    PROVE  LET first == G!FirstNumber(db'[r].answers, 0)
           IN  /\ first = None => G!Scored(0)' = G!Scored(0) /\ \A q \in G!Scored(0) : db'[q] = db[q]
               /\ first # None => G!Scored(0)' = G!Scored(0) \cup {r} /\ \A q \in G!Scored(0) : db'[q] = db[q]
               /\ r \notin G!Scored(0)
<1>1. ASSUME NEW p \in Person, G!StartResponse(p) PROVE FALSE
  BY <1>1 DEF G!StartResponse, G!Complete
<1>2. PICK p \in Person, a \in G!Answers : G!SubmitResponse(p, a)
  BY <1>1 DEF G!Next
<1>3. /\ p \in DOMAIN db /\ ~db[p].is_complete /\ DOMAIN db' = DOMAIN db
      /\ db'[p] = [is_complete |-> TRUE, answers |-> a]
      /\ \A q \in DOMAIN db \ {p} : db'[q] = db[q]
  BY <1>2 DEF G!SubmitResponse
<1>4. p = r
  BY <1>3 DEF G!Complete
<1>5. G!Complete' = G!Complete \cup {r}
  BY <1>3, <1>4 DEF G!Complete
<1>6. r \notin G!Scored(0) /\ \A q \in G!Complete : db'[q] = db[q]
  BY <1>3, <1>4 DEF G!Scored, G!Complete
<1>7. G!Scored(0)' = {q \in G!Complete' : G!FirstNumber(db'[q].answers, 0) # None}
  BY DEF G!Scored
<1> QED
  BY <1>5, <1>6, <1>7 DEF G!Scored

\* A group after one more response with a score.
LEMMA GroupGrows ==
    ASSUME ResultsInv, ResultsInv', NEW r \in Person,
           r \notin G!Scored(0), G!Scored(0)' = G!Scored(0) \cup {r},
           \A q \in G!Scored(0) : db'[q] = db[q]
    PROVE  LET first == G!FirstNumber(db'[r].answers, 0)
           IN  /\ G!Between(9, 10) \in Nat /\ G!Between(0, 6) \in Nat
               /\ G!Between(9, 10)' =
                      IF first \in 9..10 THEN G!Between(9, 10) + 1 ELSE G!Between(9, 10)
               /\ G!Between(0, 6)' =
                      IF first \in 0..6 THEN G!Between(0, 6) + 1 ELSE G!Between(0, 6)
               /\ Cardinality(G!Scored(0)') = Cardinality(G!Scored(0)) + 1
<1> DEFINE Now(low, high) ==
               {q \in G!Scored(0) : G!FirstNumber(db[q].answers, 0) \in low..high}
           Then(low, high) ==
               {q \in G!Scored(0)' : G!FirstNumber(db'[q].answers, 0) \in low..high}
           first == G!FirstNumber(db'[r].answers, 0)
<1>1. /\ G!Between(9, 10) = Cardinality(Now(9, 10)) /\ G!Between(0, 6) = Cardinality(Now(0, 6))
      /\ G!Between(9, 10)' = Cardinality(Then(9, 10)) /\ G!Between(0, 6)' = Cardinality(Then(0, 6))
  BY ResultOps DEF G!Between
<1>2. \A low, high \in Int :
          Then(low, high) = IF first \in low..high THEN Now(low, high) \cup {r} ELSE Now(low, high)
  OBVIOUS
<1>3. IsFiniteSet(G!Scored(0)) /\ \A low, high : IsFiniteSet(Now(low, high)) /\ r \notin Now(low, high)
  BY Counted, FS_Subset
<1> HIDE DEF Now, Then, first
<1>4. \A low, high : /\ Cardinality(Now(low, high)) \in Nat
                     /\ Cardinality(Now(low, high) \cup {r}) = Cardinality(Now(low, high)) + 1
  BY <1>3, FS_AddElement, FS_CardinalityType
<1>5. Cardinality(G!Scored(0) \cup {r}) = Cardinality(G!Scored(0)) + 1
  BY <1>3, FS_AddElement
<1>6. /\ Then(9, 10) = IF first \in 9..10 THEN Now(9, 10) \cup {r} ELSE Now(9, 10)
      /\ Then(0, 6) = IF first \in 0..6 THEN Now(0, 6) \cup {r} ELSE Now(0, 6)
  BY <1>2
<1>7. /\ Cardinality(Then(9, 10)) =
             IF first \in 9..10 THEN Cardinality(Now(9, 10)) + 1 ELSE Cardinality(Now(9, 10))
      /\ Cardinality(Then(0, 6)) =
             IF first \in 0..6 THEN Cardinality(Now(0, 6)) + 1 ELSE Cardinality(Now(0, 6))
  BY <1>4, <1>6
<1>8. /\ G!Between(9, 10) \in Nat /\ G!Between(0, 6) \in Nat
      /\ G!Between(9, 10)' = IF first \in 9..10 THEN G!Between(9, 10) + 1 ELSE G!Between(9, 10)
      /\ G!Between(0, 6)' = IF first \in 0..6 THEN G!Between(0, 6) + 1 ELSE G!Between(0, 6)
  BY <1>1, <1>4, <1>7
<1>9. Cardinality(G!Scored(0)') = Cardinality(G!Scored(0)) + 1
  BY <1>5
<1> QED
  BY <1>8, <1>9 DEF first

\* What one more promoter, detractor or passive response does to the score.
LEMMA ScoreMoves ==
    ASSUME NEW x \in Int, NEW n \in Nat \ {0}, -n <= x, x <= n
    PROVE  /\ (100 * x) \div n <= (100 * (x + 1)) \div (n + 1)
           /\ (100 * (x - 1)) \div (n + 1) <= (100 * x) \div n
<1>1. PICK d \in Int : d = (100 * x) \div n /\ d * n <= 100 * x /\ d <= 100
  <2>1. 100 * x <= 100 * n
    OBVIOUS
  <2> QED
    BY <2>1, Quotient
<1>2. d * (n + 1) = d * n + d
  OBVIOUS
<1>3. d * (n + 1) <= 100 * (x + 1)
  BY <1>1, <1>2
<1>4. d <= (100 * (x + 1)) \div (n + 1)
  BY <1>3, Quotient
<1>5. PICK e \in Int : e = (100 * (x - 1)) \div (n + 1) /\ e * (n + 1) <= 100 * (x - 1) /\ -100 <= e
  <2>1. (-100) * (n + 1) <= 100 * (x - 1)
    OBVIOUS
  <2> QED
    BY <2>1, Quotient
<1>6. e * (n + 1) = e * n + e
  OBVIOUS
<1>7. e * n <= 100 * x
  BY <1>5, <1>6
<1>8. e <= (100 * x) \div n
  BY <1>7, Quotient
<1> QED
  BY <1>1, <1>4, <1>5, <1>8

\* A step of a survey moves its score the way of the response it adds.
LEMMA PromotersHold ==
    ASSUME ResultsInv, ResultsInv', G!Next PROVE G!PromotersRaise
<1> SUFFICES ASSUME NEW r \in Person, r \in G!Complete' \ G!Complete,
                    G!CalculateNps.score # None
             PROVE  LET first == G!FirstNumber(db'[r].answers, 0)
                        before == G!CalculateNps.score
                        after == G!CalculateNps.score'
                    IN  /\ first # None /\ first >= 9 => after >= before
                        /\ first # None /\ first <= 6 => after <= before
                        /\ first = None => after = before
  BY DEF G!PromotersRaise
<1> DEFINE first == G!FirstNumber(db'[r].answers, 0)
<1>1. G!Scored(0) # {}
  BY DEF G!CalculateNps
<1>2. CASE first = None
  <2>1. G!Scored(0)' = G!Scored(0) /\ \A q \in G!Scored(0) : db'[q] = db[q]
    BY <1>2, Submitted
  <2>2. \A low, high : G!Between(low, high)' = G!Between(low, high)
    BY <2>1, ResultOps DEF G!Between
  <2>3. G!CalculateNps.score' = G!CalculateNps.score
    BY <2>1, <2>2 DEF G!CalculateNps, G!Percent
  <2> QED
    BY <1>2, <2>3
<1>3. CASE first # None
  <2>1. /\ G!Scored(0)' = G!Scored(0) \cup {r} /\ r \notin G!Scored(0)
        /\ \A q \in G!Scored(0) : db'[q] = db[q]
    BY <1>3, Submitted
  <2>2. PICK n, x : /\ n = Cardinality(G!Scored(0)) /\ x = G!Between(9, 10) - G!Between(0, 6)
                    /\ n \in Nat \ {0} /\ x \in Int /\ -n <= x /\ x <= n
                    /\ G!CalculateNps.score = (100 * x) \div n
    BY <1>1, ScoreIs
  <2>3. /\ Cardinality(G!Scored(0)') = n + 1 /\ G!Scored(0)' # {}
        /\ G!CalculateNps.score' =
               (100 * (G!Between(9, 10)' - G!Between(0, 6)')) \div Cardinality(G!Scored(0)')
    <3>1. G!CalculateNps.score' = IF G!Scored(0)' = {} THEN None
            ELSE (100 * (G!Between(9, 10)' - G!Between(0, 6)')) \div Cardinality(G!Scored(0)')
      BY ResultOps DEF G!CalculateNps, G!Percent
    <3> QED
      BY <2>1, <2>2, <3>1, GroupGrows
  <2>4. first \in 0..10
    <3>1. db'[r].answers \in G!Answers
      BY DEF ResultsInv, G!TypeOK, G!SurveyResponse, G!Complete
    <3> QED
      BY <1>3, <3>1, FirstNumberFound
  <2>5. /\ first >= 9 => G!Between(9, 10)' - G!Between(0, 6)' = x + 1
        /\ first <= 6 => G!Between(9, 10)' - G!Between(0, 6)' = x - 1
    <3>1. /\ G!Between(9, 10) \in Nat
          /\ G!Between(9, 10)' = IF first \in 9..10 THEN G!Between(9, 10) + 1 ELSE G!Between(9, 10)
      BY <2>1, GroupGrows
    <3>2. /\ G!Between(0, 6) \in Nat
          /\ G!Between(0, 6)' = IF first \in 0..6 THEN G!Between(0, 6) + 1 ELSE G!Between(0, 6)
      BY <2>1, GroupGrows
    <3> HIDE DEF first
    <3> QED
      BY <2>2, <2>4, <3>1, <3>2
  <2>6. PICK before \in Int, raised \in Int, lowered \in Int :
            /\ before = (100 * x) \div n /\ raised = (100 * (x + 1)) \div (n + 1)
            /\ lowered = (100 * (x - 1)) \div (n + 1)
            /\ before <= raised /\ lowered <= before
    <3>1. /\ (100 * x) \div n \in Int /\ (100 * (x + 1)) \div (n + 1) \in Int
          /\ (100 * (x - 1)) \div (n + 1) \in Int
      BY <2>2, Quotient
    <3>2. /\ (100 * x) \div n <= (100 * (x + 1)) \div (n + 1)
          /\ (100 * (x - 1)) \div (n + 1) <= (100 * x) \div n
      <4>1. x \in Int /\ n \in Nat \ {0} /\ -n <= x /\ x <= n
        BY <2>2
      <4> QED
        BY <4>1, ScoreMoves, Zenon
    <3> QED
      BY <3>1, <3>2
  <2>7. /\ G!CalculateNps.score = before
        /\ first >= 9 => G!CalculateNps.score' = raised
        /\ first <= 6 => G!CalculateNps.score' = lowered
    BY <2>2, <2>3, <2>5, <2>6
  <2> HIDE DEF first
  <2>8. /\ first >= 9 => G!CalculateNps.score' >= G!CalculateNps.score
        /\ first <= 6 => G!CalculateNps.score' <= G!CalculateNps.score
    BY <2>6, <2>7
  <2> QED
    BY <1>3, <2>8 DEF first
<1> QED
  BY <1>2, <1>3

\* Responses have their types in every state.
LEMMA ResultsHold == MCSpec => [](part = "survey_results" => ResultsInv)
<1>1. MCInit => (part = "survey_results" => ResultsInv)
  BY ResultsStart
<1>2. (part = "survey_results" => ResultsInv) /\ [MCNext]_mcvars => (part = "survey_results" => ResultsInv)'
  BY SamePart, ResultsStep
<1> QED
  BY <1>1, <1>2, PTL DEF MCSpec

\* Another promoter never lowers a survey's score, another detractor never raises it
\* (calculate_nps), whatever the number of responses.
THEOREM ScoreFollows == MCSpec => PromotersRaise
<1>1. (part = "survey_results" => ResultsInv) /\ (part = "survey_results" => ResultsInv)' /\ [MCNext]_mcvars
          => [part = "survey_results" => G!PromotersRaise]_mcvars
  <2> SUFFICES ASSUME (part = "survey_results" => ResultsInv),
                      (part = "survey_results" => ResultsInv)', MCNext, part = "survey_results"
               PROVE  G!PromotersRaise
    OBVIOUS
  <2>1. part' = part /\ G!Next
    BY SamePart DEF MCNext, RowsNext
  <2> QED
    BY <2>1, PromotersHold
<1> QED
  BY <1>1, ResultsHold, PTL DEF PromotersRaise, MCSpec

-------------------------------------------------------------------------------
(* Deadlines of tickets *)

\* A step of the tickets with deadlines is one of SlaStatus.
LEMMA SlaParts ==
    ASSUME part = "sla_status", [MCNext]_mcvars
    PROVE  K!Next \/ UNCHANGED <<seq, db>>
BY DEF MCNext, RowsNext, mcvars

\* At first tickets are new.
LEMMA SlaStart == part = "sla_status" /\ MCInit => K!TypeOK
<1> SUFFICES ASSUME part = "sla_status", MCInit PROVE K!TypeOK
  OBVIOUS
<1>1. seq = 0 /\ db \in [User -> {K!NewTicket(p) : p \in {"high", "low"}}]
  BY DEF MCInit, PartInit, K!Init
<1>2. "open" \in K!Status
  BY DEF K!Status, T!VALID_STATUS_TRANSITIONS
<1>3. \A p \in {"high", "low"} : K!NewTicket(p) \in K!Row
  BY <1>2 DEF K!NewTicket, K!Row
<1> QED
  BY <1>1, <1>3 DEF K!TypeOK

\* Tickets keep their types.
LEMMA SlaStep ==
    ASSUME K!TypeOK, part = "sla_status", [MCNext]_mcvars PROVE K!TypeOK'
<1>1. CASE UNCHANGED <<seq, db>>
  BY <1>1 DEF K!TypeOK, K!Row
<1>2. CASE K!Tick
  BY <1>2 DEF K!Tick, K!TypeOK
<1>3. ASSUME NEW t \in User, NEW row \in K!Row, K!SetTicket(t, row) PROVE K!TypeOK'
  BY <1>3 DEF K!TypeOK, K!SetTicket
<1>4. \A t \in User : db[t] \in K!Row
  BY DEF K!TypeOK
<1>5. ASSUME NEW t \in User, K!Respond(t) PROVE K!TypeOK'
  <2>1. [db[t] EXCEPT !.first_response = TRUE] \in K!Row
    BY <1>4 DEF K!Row
  <2> QED
    BY <1>3, <1>5, <2>1 DEF K!Respond
<1>6. ASSUME NEW t \in User, NEW s \in K!Status, K!ChangeStatus(t, s) PROVE K!TypeOK'
  <2>1. K!ResolvedAt(db[t], s) \in (0..13) \cup {None}
    BY <1>4 DEF K!ResolvedAt, K!TypeOK, K!Row
  <2>2. [db[t] EXCEPT !.status = s, !.resolved_at = K!ResolvedAt(db[t], s)] \in K!Row
    BY <1>4, <2>1 DEF K!Row
  <2> QED
    BY <1>3, <1>6, <2>2 DEF K!ChangeStatus
<1>7. ASSUME NEW t \in User, NEW p \in {"high", "low"}, K!ChangePriority(t, p) PROVE K!TypeOK'
  <2>1. [db[t] EXCEPT !.priority = p] \in K!Row
    BY <1>4 DEF K!Row
  <2> QED
    BY <1>3, <1>7, <2>1 DEF K!ChangePriority
<1> QED
  BY <1>1, <1>2, <1>5, <1>6, <1>7, SlaParts DEF K!Next

\* What StatusAgrees says of each of the two deadlines.
Agrees(s) ==
    /\ ~(s.is_breached /\ s.clock.is_warning)
    /\ ~(s.is_met /\ s.is_breached)
    /\ s.is_breached => s.clock.time_remaining.is_breached
    /\ s.clock.is_warning => s.clock.time_remaining.total_seconds > 0

\* One deadline of a ticket: what is shown is what the list of late tickets counts.
LEMMA ClockAgrees ==
    ASSUME seq \in Nat, NEW waiting \in BOOLEAN, NEW due \in Nat, NEW s,
           s.clock = K!While(waiting, due), s.is_breached <=> (waiting /\ seq > due),
           s.is_met => ~waiting
    PROVE  Agrees(s)
<1> DEFINE clock == K!While(waiting, due)
<1>1. clock.is_warning <=> waiting /\ K!IsInWarningZone(due)
  BY DEF K!While
<1>2. clock.time_remaining = IF waiting THEN K!TimeRemaining(due) ELSE None
  BY DEF K!While
<1>3. /\ K!TimeRemaining(due).is_breached <=> seq >= due
      /\ K!TimeRemaining(due).total_seconds = IF seq >= due THEN 0 ELSE due - seq
  BY DEF K!TimeRemaining
<1>4. K!IsInWarningZone(due) => seq < due
  BY DEF K!IsInWarningZone
<1> HIDE DEF clock
<1>5. waiting => clock.time_remaining = K!TimeRemaining(due)
  BY <1>2
<1>6. /\ seq < due => ~ (seq >= due) /\ due - seq > 0
      /\ seq > due => seq >= due /\ ~ (seq < due)
  OBVIOUS
<1>7. waiting /\ seq < due => clock.time_remaining.total_seconds > 0
  BY <1>3, <1>5, <1>6
<1>8. waiting /\ seq > due => clock.time_remaining.is_breached
  BY <1>3, <1>5, <1>6
<1>9. s.clock = clock
  BY DEF clock
<1> QED
  BY <1>1, <1>4, <1>6, <1>7, <1>8, <1>9, Zenon DEF Agrees

\* Tickets of their types show the deadlines that the list counts.
LEMMA SlaAgrees == K!TypeOK => K!StatusAgrees
<1> SUFFICES ASSUME K!TypeOK PROVE K!StatusAgrees
  OBVIOUS
<1>1. ASSUME NEW t \in User
      PROVE  LET status == K!GetSlaStatus(db[t])
             IN  /\ t \in K!BreachedTickets <=>
                        status.response.is_breached \/ status.resolution.is_breached
                 /\ \A s \in {status.response, status.resolution} :
                        /\ ~(s.is_breached /\ s.clock.is_warning)
                        /\ ~(s.is_met /\ s.is_breached)
                        /\ s.is_breached => s.clock.time_remaining.is_breached
                        /\ s.clock.is_warning => s.clock.time_remaining.total_seconds > 0
  <2>1. db[t] \in K!Row /\ seq \in Nat
    BY DEF K!TypeOK
  <2>2. K!ResponseDue(db[t]) \in Nat /\ K!ResolutionDue(db[t]) \in Nat
    BY <2>1 DEF K!Row, K!ResponseDue, K!ResolutionDue
  <2> DEFINE status == K!GetSlaStatus(db[t])
  <2>4. /\ status.response.is_met <=> db[t].first_response
        /\ status.response.is_breached <=> (~db[t].first_response /\ seq > K!ResponseDue(db[t]))
        /\ status.response.clock = K!While(~db[t].first_response, K!ResponseDue(db[t]))
    BY DEF K!GetSlaStatus, K!IsResponseBreached
  <2>5. /\ status.resolution.is_met => db[t].status \in K!Finished
        /\ status.resolution.is_breached <=>
               (db[t].status \notin K!Finished /\ seq > K!ResolutionDue(db[t]))
        /\ status.resolution.clock =
               K!While(db[t].status \notin K!Finished, K!ResolutionDue(db[t]))
    BY DEF K!GetSlaStatus, K!IsResolutionBreached
  <2>6. t \in K!BreachedTickets <=>
            status.response.is_breached \/ status.resolution.is_breached
    BY <2>1, <2>2, <2>4, <2>5 DEF K!BreachedTickets
  <2> HIDE DEF status
  <2>7. Agrees(status.response)
    <3>1. PICK waiting \in BOOLEAN : waiting = (~db[t].first_response)
      BY <2>1, Zenon DEF K!Row
    <3>2. PICK due \in Nat : due = K!ResponseDue(db[t])
      BY <2>2
    <3>3. status.response.clock = K!While(waiting, due)
      BY <2>4, <3>1, <3>2, Zenon
    <3>4. status.response.is_breached <=> (waiting /\ seq > due)
      BY <2>4, <3>1, <3>2, Zenon
    <3>5. status.response.is_met => ~waiting
      BY <2>4, <3>1, Zenon
    <3> QED
      BY <2>1, <3>3, <3>4, <3>5, ClockAgrees
  <2>8. Agrees(status.resolution)
    <3>1. PICK waiting \in BOOLEAN : waiting = (db[t].status \notin K!Finished)
      BY <2>1, Zenon DEF K!Row
    <3>2. PICK due \in Nat : due = K!ResolutionDue(db[t])
      BY <2>2
    <3>3. status.resolution.clock = K!While(waiting, due)
      BY <2>5, <3>1, <3>2, Zenon
    <3>4. status.resolution.is_breached <=> (waiting /\ seq > due)
      BY <2>5, <3>1, <3>2, Zenon
    <3>5. status.resolution.is_met => ~waiting
      BY <2>5, <3>1, Zenon
    <3> QED
      BY <2>1, <3>3, <3>4, <3>5, ClockAgrees
  <2> QED
    BY <2>6, <2>7, <2>8 DEF status, Agrees
<1>2. K!GetStats.sla_breached <= K!GetStats.total
  <2>1. K!GetStats.sla_breached = K!Cardinality(K!BreachedTickets) /\ K!GetStats.total = K!Cardinality(User)
    BY DEF K!GetStats
  <2>2. \A N1 : K!Cardinality(N1) = Cardinality(N1)
    BY Zenon DEF K!Cardinality, Cardinality
  <2>3. K!BreachedTickets \in SUBSET User
    BY DEF K!BreachedTickets
  <2> QED
    BY <2>1, <2>2, <2>3, FiniteAssumption, FS_Subset
<1> QED
  BY <1>1, <1>2 DEF K!StatusAgrees

-------------------------------------------------------------------------------
(* Time entries *)

\* The strengthening of OneTimer: at most one entry of a user runs, now and in the rows
\* that the request in progress will leave.
OneRuns(rows) ==
    /\ \A e \in DOMAIN rows : {"user", "is_running"} \subseteq DOMAIN rows[e]
    /\ \A e, f \in DOMAIN rows :
           rows[e].is_running /\ rows[f].is_running /\ rows[e].user = rows[f].user => e = f

TimersInv ==
    /\ DOMAIN db = {"entries"} /\ OneRuns(db.entries) /\ DOMAIN req = Alone
    /\ \A w \in Alone : req[w] # None =>
           DOMAIN req[w] = {"entries"} /\ OneRuns(Q!After(db.entries, req[w].entries))

LEMMA EntryOps ==
    /\ \A rows, ws : E!After(rows, ws) = Q!After(rows, ws)
    /\ \A row : E!Insert(row) = Q!Insert(row)
    /\ \A cols : E!Update(cols) = Q!Update(cols)
    /\ \A row, cols : E!Assign(row, cols) = Q!Assign(row, cols)
    /\ E!Delete = Q!Delete
BY DEF E!After, Q!After, E!Written, Q!Written, E!Insert, Q!Insert, E!Update, Q!Update,
       E!Assign, Q!Assign, E!Delete, Q!Delete

\* Writes that start no timer leave at most one.
LEMMA NoneStarted ==
    ASSUME NEW rows, OneRuns(rows), NEW ws,
           \A i \in DOMAIN ws :
               /\ ws[i].op = "insert" => /\ {"user", "is_running"} \subseteq DOMAIN ws[i].cols
                                         /\ ~ws[i].cols.is_running
               /\ ws[i].op \notin {"insert", "delete"} /\ i \in DOMAIN rows =>
                      LET row == Q!Written(rows[i], ws[i])
                      IN  /\ DOMAIN row = DOMAIN rows[i] /\ row.user = rows[i].user
                          /\ row.is_running => rows[i].is_running
    PROVE  OneRuns(Q!After(rows, ws))
<1>1. PICK after : after = Q!After(rows, ws)
  OBVIOUS
<1>2. ASSUME NEW i \in DOMAIN after
      PROVE  /\ {"user", "is_running"} \subseteq DOMAIN after[i]
             /\ after[i].is_running =>
                    i \in DOMAIN rows /\ rows[i].is_running /\ after[i].user = rows[i].user
  BY <1>1, <1>2, RowAfter DEF OneRuns
<1>3. QED
  BY <1>1, <1>2 DEF OneRuns

\* Writing one entry, as a running one, where the user has none.
LEMMA OneStarted ==
    ASSUME NEW rows, OneRuns(rows), NEW e, NEW ws, DOMAIN ws = {e}, NEW u,
           ~\E f \in DOMAIN rows : rows[f].user = u /\ rows[f].is_running,
           \/ /\ ws[e].op = "insert" /\ {"user", "is_running"} \subseteq DOMAIN ws[e].cols
              /\ ws[e].cols.user = u
           \/ /\ e \in DOMAIN rows /\ ws[e].op \notin {"insert", "delete"}
              /\ DOMAIN Q!Written(rows[e], ws[e]) = DOMAIN rows[e]
              /\ Q!Written(rows[e], ws[e]).user = u
    PROVE  OneRuns(Q!After(rows, ws))
<1>1. PICK after : after = Q!After(rows, ws)
  OBVIOUS
<1>2. ASSUME NEW i \in DOMAIN after
      PROVE  /\ {"user", "is_running"} \subseteq DOMAIN after[i]
             /\ \/ i = e /\ after[i].user = u
                \/ i # e /\ i \in DOMAIN rows /\ after[i] = rows[i]
  BY <1>1, <1>2, RowAfter DEF OneRuns
<1>3. QED
  BY <1>1, <1>2 DEF OneRuns

\* Assigning columns of one entry: its user stays, and it runs only if that is assigned.
LEMMA EntryAssigned ==
    ASSUME OneRuns(db.entries), NEW e \in DOMAIN db.entries, NEW cols,
           "user" \in DOMAIN cols => cols.user = db.entries[e].user
    PROVE  LET row == Q!Written(db.entries[e], Q!Assign(db.entries[e], cols))
           IN  /\ Q!Assign(db.entries[e], cols).op = "update"
               /\ DOMAIN row = DOMAIN db.entries[e] /\ row.user = db.entries[e].user
               /\ row.is_running = IF "is_running" \in DOMAIN cols THEN cols.is_running
                                   ELSE db.entries[e].is_running
<1>1. {"user", "is_running"} \subseteq DOMAIN db.entries[e]
  BY DEF OneRuns
<1>2. QED
  BY <1>1, Assigning

LEMMA EntrySet ==
    ASSUME OneRuns(db.entries), NEW e \in DOMAIN db.entries, NEW cols,
           "user" \in DOMAIN cols => cols.user = db.entries[e].user,
           \/ "is_running" \notin DOMAIN cols
           \/ cols.is_running => db.entries[e].is_running
           \/ E!RunningTimers(db.entries[e].user) = {}
    PROVE  OneRuns(Q!After(db.entries, [i \in {e} |-> Q!Assign(db.entries[e], cols)]))
<1>1. PICK ws : ws = [i \in {e} |-> Q!Assign(db.entries[e], cols)]
  OBVIOUS
<1>2. DOMAIN ws = {e} /\ ws[e] = Q!Assign(db.entries[e], cols)
  BY <1>1
<1>3. PICK row : row = Q!Written(db.entries[e], ws[e])
  OBVIOUS
<1>4. /\ ws[e].op = "update"
      /\ DOMAIN row = DOMAIN db.entries[e] /\ row.user = db.entries[e].user
      /\ row.is_running = IF "is_running" \in DOMAIN cols THEN cols.is_running
                          ELSE db.entries[e].is_running
  BY <1>2, <1>3, EntryAssigned
<1>5. CASE "is_running" \in DOMAIN cols => (cols.is_running => db.entries[e].is_running)
  BY <1>1, <1>2, <1>3, <1>4, <1>5, NoneStarted
<1>6. CASE E!RunningTimers(db.entries[e].user) = {}
  <2>1. ~\E f \in DOMAIN db.entries : db.entries[f].user = db.entries[e].user
                                      /\ db.entries[f].is_running
    BY <1>6 DEF E!RunningTimers
  <2>2. QED
    BY <1>1, <1>2, <1>3, <1>4, <2>1, OneStarted
<1>7. QED
  BY <1>5, <1>6

\* A request that will leave at most one timer running, held by the worker that was free.
TimerHeld(w) ==
    \E ws : /\ db' = db /\ req' = [req EXCEPT ![w] = [entries |-> ws]]
            /\ OneRuns(Q!After(db.entries, ws))

LEMMA TimerSet ==
    ASSUME OneRuns(db.entries), NEW w \in Alone, NEW e \in DOMAIN db.entries, NEW cols,
           E!Set(w, e, cols),
           "user" \in DOMAIN cols => cols.user = db.entries[e].user,
           \/ "is_running" \notin DOMAIN cols
           \/ cols.is_running => db.entries[e].is_running
           \/ E!RunningTimers(db.entries[e].user) = {}
    PROVE  TimerHeld(w)
<1>1. OneRuns(Q!After(db.entries, [i \in {e} |-> Q!Assign(db.entries[e], cols)]))
  BY EntrySet
<1>2. [i \in {e} |-> E!Assign(db.entries[e], cols)] = [i \in {e} |-> Q!Assign(db.entries[e], cols)]
  BY EntryOps
<1>3. QED
  BY <1>1, <1>2 DEF E!Set, E!Hold, TimerHeld

\* An entry is inserted: not running, or running where the user has no timer.
LEMMA TimerNew ==
    ASSUME OneRuns(db.entries), NEW w \in Alone, NEW u \in User, NEW row,
           {"user", "is_running"} \subseteq DOMAIN row, row.user = u,
           row.is_running => E!RunningTimers(u) = {},
           E!HoldNew(w, [entries |-> [e \in {seq} |-> E!Insert(row)]])
    PROVE  TimerHeld(w)
<1>1. PICK ws : ws = [e \in {seq} |-> E!Insert(row)]
  OBVIOUS
<1>2. DOMAIN ws = {seq} /\ ws[seq].op = "insert" /\ ws[seq].cols = row
  BY <1>1, EntryOps, InsertOp
<1>3. OneRuns(Q!After(db.entries, ws))
  <2>1. CASE ~row.is_running
    BY <1>2, <2>1, NoneStarted
  <2>2. CASE E!RunningTimers(u) = {}
    <3>1. ~\E f \in DOMAIN db.entries : db.entries[f].user = u /\ db.entries[f].is_running
      BY <2>2 DEF E!RunningTimers
    <3>2. QED
      BY <1>2, <3>1, OneStarted
  <2>3. QED
    BY <2>1, <2>2
<1>4. db' = db /\ req' = [req EXCEPT ![w] = [entries |-> ws]]
  BY <1>1 DEF E!HoldNew
<1>5. QED
  BY <1>3, <1>4 DEF TimerHeld

\* Entries are deleted, or change their status.
LEMMA TimerEach ==
    ASSUME OneRuns(db.entries), NEW w \in Alone, NEW es, NEW write,
           write = E!Delete \/ \E s : write = E!Update([status |-> s]),
           E!Hold(w, [entries |-> E!Each(es, write)])
    PROVE  TimerHeld(w)
<1>1. PICK ws : ws = E!Each(es, write)
  OBVIOUS
<1>2. DOMAIN ws = es /\ \A i \in es : ws[i] = write
  BY <1>1 DEF E!Each
<1>3. \/ write.op = "delete"
      \/ write.op = "update" /\ DOMAIN write.cols = {"status"}
  <2>1. CASE write = E!Delete
    BY <2>1, EntryOps, DeleteOp
  <2>2. ASSUME NEW s, write = E!Update([status |-> s])
        PROVE  write.op = "update" /\ write.cols = [status |-> s]
    BY <2>2, EntryOps, UpdateOp
  <2>3. QED
    BY <2>1, <2>2
<1>4. ASSUME NEW i \in DOMAIN ws, i \in DOMAIN db.entries, write.op = "update"
      PROVE  LET row == Q!Written(db.entries[i], ws[i])
             IN  /\ DOMAIN row = DOMAIN db.entries[i] /\ row.user = db.entries[i].user
                 /\ row.is_running = db.entries[i].is_running
  <2>1. {"user", "is_running"} \subseteq DOMAIN db.entries[i]
    BY <1>4 DEF OneRuns
  <2>2. QED
    BY <1>2, <1>3, <1>4, <2>1, Updating
<1>5. OneRuns(Q!After(db.entries, ws))
  BY <1>2, <1>3, <1>4, NoneStarted
<1>6. db' = db /\ req' = [req EXCEPT ![w] = [entries |-> ws]]
  BY <1>1 DEF E!Hold
<1>7. QED
  BY <1>5, <1>6 DEF TimerHeld

LEMMA TimerHandlers ==
    ASSUME OneRuns(db.entries), NEW w \in Alone, E!RecordTime(w) \/ E!UseTimer(w) \/ E!Approve(w)
    PROVE  TimerHeld(w)
<1>1. ASSUME NEW b, NEW rate, NEW m, NEW u \in User, E!CreateEntry(w, u, b, rate, m)
      PROVE  TimerHeld(w)
  <2>1. PICK row : row = E!NewEntry(u, b, rate, m)
    OBVIOUS
  <2>2. {"user", "is_running"} \subseteq DOMAIN row /\ row.user = u /\ row.is_running = FALSE
    BY <2>1 DEF E!NewEntry
  <2>3. E!HoldNew(w, [entries |-> [e \in {seq} |-> E!Insert(row)]])
    BY <1>1, <2>1 DEF E!CreateEntry
  <2>4. QED
    BY <2>2, <2>3, TimerNew
<1>2. ASSUME NEW b, NEW rate, NEW m, NEW e, E!UpdateEntry(w, e, b, rate, m)
      PROVE  TimerHeld(w)
  <2>1. PICK row : row = [db.entries[e] EXCEPT
           !.status = "draft", !.is_billable = b,
           !.hourly_rate = IF rate = None THEN @ ELSE rate, !.duration_minutes = m]
    OBVIOUS
  <2>2. e \in DOMAIN db.entries /\ E!Set(w, e, E!Recalculated(row))
    BY <1>2, <2>1 DEF E!UpdateEntry, E!Editable, E!Status, E!Exists
  <2>3. {"user", "is_running"} \subseteq DOMAIN db.entries[e]
    BY <2>2 DEF OneRuns
  <2>4. /\ DOMAIN row = DOMAIN db.entries[e] /\ row.user = db.entries[e].user
        /\ row.is_running = db.entries[e].is_running
    BY <2>1, <2>3
  <2>5. PICK cols : cols = E!Recalculated(row)
    OBVIOUS
  <2>6. cols.user = db.entries[e].user /\ cols.is_running = db.entries[e].is_running
    BY <2>3, <2>4, <2>5 DEF E!Recalculated
  <2>7. QED
    BY <2>2, <2>5, <2>6, TimerSet
<1>3. ASSUME NEW u, NEW e, E!StartTimer(w, u, e)
      PROVE  TimerHeld(w)
  <2>1. PICK cols : cols = [is_running |-> TRUE]
    OBVIOUS
  <2>2. "user" \notin DOMAIN cols
    BY <2>1
  <2>3. /\ e \in DOMAIN db.entries /\ E!RunningTimers(db.entries[e].user) = {}
        /\ E!Set(w, e, cols)
    BY <1>3, <2>1 DEF E!StartTimer, E!MayStartTimer, E!Exists
  <2>4. QED
    BY <2>2, <2>3, TimerSet
<1>4. ASSUME NEW u \in User, E!StartNewTimer(w, u)
      PROVE  TimerHeld(w)
  <2>1. PICK new : new = E!NewEntry(u, TRUE, None, 0)
    OBVIOUS
  <2>2. {"user", "is_running"} \subseteq DOMAIN new /\ new.user = u
    BY <2>1 DEF E!NewEntry
  <2>3. PICK row : row = [new EXCEPT !.is_running = TRUE]
    OBVIOUS
  <2>4. {"user", "is_running"} \subseteq DOMAIN row /\ row.user = u
    BY <2>2, <2>3
  <2>5. /\ E!RunningTimers(u) = {}
        /\ E!HoldNew(w, [entries |-> [e \in {seq} |-> E!Insert(row)]])
    BY <1>4, <2>1, <2>3 DEF E!StartNewTimer, E!MayStartTimer
  <2>6. QED
    BY <2>4, <2>5, TimerNew
<1>5. ASSUME NEW u, NEW e, NEW elapsed, E!StopTimer(w, u, e, elapsed)
      PROVE  TimerHeld(w)
  <2>1. e \in DOMAIN db.entries /\ E!Set(w, e, E!Stopped(db.entries[e], elapsed))
    BY <1>5 DEF E!StopTimer, E!RunningTimers
  <2>2. PICK row : row = db.entries[e]
    OBVIOUS
  <2>3. {"user", "is_running"} \subseteq DOMAIN row
    BY <2>1, <2>2 DEF OneRuns
  <2>4. PICK cols : cols = E!Stopped(row, elapsed)
    OBVIOUS
  <2>5. cols.user = row.user /\ cols.is_running = FALSE
    BY <2>3, <2>4 DEF E!Stopped
  <2>6. QED
    BY <2>1, <2>2, <2>4, <2>5, TimerSet
<1>6. ASSUME NEW e, NEW s, e \in DOMAIN db.entries, E!Set(w, e, [status |-> s])
      PROVE  TimerHeld(w)
  <2>1. PICK cols : cols = [status |-> s]
    OBVIOUS
  <2>2. DOMAIN cols = {"status"}
    BY <2>1
  <2>3. QED
    BY <1>6, <2>1, <2>2, TimerSet
<1>7. ASSUME NEW e, E!DeleteEntry(w, e)
      PROVE  TimerHeld(w)
  <2>1. E!Each({e}, E!Delete) = [i \in {e} |-> E!Delete]
    BY DEF E!Each
  <2>2. QED
    BY <1>7, <2>1, TimerEach DEF E!DeleteEntry
<1>8. ASSUME NEW es, E!BulkApprove(w, es) \/ E!LinkToInvoice(w, es)
      PROVE  TimerHeld(w)
  BY <1>8, TimerEach DEF E!BulkApprove, E!LinkToInvoice
<1>9. ASSUME NEW e, NEW u, E!SubmitEntry(w, e, u) \/ E!ApproveEntry(w, e) \/ E!RejectEntry(w, e)
      PROVE  TimerHeld(w)
  BY <1>6, <1>9 DEF E!SubmitEntry, E!MaySubmit, E!ApproveEntry, E!RejectEntry, E!Approved,
                    E!Status, E!Exists
<1>10. QED
  BY <1>1, <1>2, <1>3, <1>4, <1>5, <1>7, <1>8, <1>9
     DEF E!RecordTime, E!UseTimer, E!Approve, E!StopRunningTimer

LEMMA TimersStep ==
    ASSUME part = "time_entries", TimersInv, MCNext
    PROVE  TimersInv'
<1>1. E!Next /\ \A v, w \in Alone : v = w
  BY AloneAssumption DEF MCNext, RowsNext
<1>2. ASSUME NEW w \in Alone, E!RecordTime(w) \/ E!UseTimer(w) \/ E!Approve(w)
      PROVE  TimersInv'
  <2>1. PICK ws : /\ db' = db /\ req' = [req EXCEPT ![w] = [entries |-> ws]]
                  /\ OneRuns(Q!After(db.entries, ws))
    BY <1>2, TimerHandlers DEF TimersInv, TimerHeld
  <2>2. DOMAIN req' = Alone /\ \A v \in Alone : req'[v] = [entries |-> ws]
    BY <1>1, <2>1 DEF TimersInv
  <2>3. QED
    BY <2>1, <2>2 DEF TimersInv
<1>3. ASSUME NEW w \in Alone, E!Commit(w)
      PROVE  TimersInv'
  <2>1. req[w] # None /\ req' = [req EXCEPT ![w] = None] /\ db' = E!AfterAll(req[w])
    BY <1>3 DEF E!Commit, E!CommitAs, E!Free
  <2>2. db' = [t \in {"entries"} |-> Q!After(db.entries, req[w].entries)]
    BY <2>1, EntryOps DEF TimersInv, E!AfterAll
  <2>3. DOMAIN db' = {"entries"} /\ OneRuns(db'.entries)
    BY <2>1, <2>2 DEF TimersInv
  <2>4. DOMAIN req' = Alone /\ \A v \in Alone : req'[v] = None
    BY <1>1, <2>1 DEF TimersInv
  <2>5. QED
    BY <2>3, <2>4 DEF TimersInv
<1>4. ASSUME NEW w \in Alone, E!Rollback(w)
      PROVE  TimersInv'
  <2>1. db' = db /\ req' = [req EXCEPT ![w] = None]
    BY <1>4 DEF E!Rollback
  <2>2. DOMAIN req' = Alone /\ \A v \in Alone : req'[v] = None
    BY <1>1, <2>1 DEF TimersInv
  <2>3. QED
    BY <2>1, <2>2 DEF TimersInv
<1>5. QED
  BY <1>1, <1>2, <1>3, <1>4 DEF E!Next

LEMMA TimersStart ==
    ASSUME part = "time_entries", MCInit
    PROVE  TimersInv
<1>1. db = [t \in {"entries"} |-> E!NoRows] /\ req = [w \in Alone |-> None]
  BY DEF MCInit, PartInit, E!Init, E!Start
<1>2. DOMAIN db.entries = {}
  BY <1>1 DEF E!NoRows
<1>3. QED
  BY <1>1, <1>2 DEF TimersInv, OneRuns

LEMMA TimersAlone ==
    ASSUME TimersInv
    PROVE  E!OneTimer
<1>1. \A es : E!Cardinality(es) = Cardinality(es)
  BY DEF E!Cardinality, Cardinality, E!IsFiniteSet, IsFiniteSet
<1>2. SUFFICES ASSUME NEW u \in User
               PROVE  Cardinality(E!RunningTimers(u)) <= 1
  BY <1>1 DEF E!OneTimer
<1>3. \A e, f \in E!RunningTimers(u) : e = f
  BY DEF TimersInv, OneRuns, E!RunningTimers
<1>4. CASE E!RunningTimers(u) = {}
  BY <1>4, FS_EmptySet
<1>5. ASSUME NEW e \in E!RunningTimers(u)
      PROVE  Cardinality(E!RunningTimers(u)) = 1
  <2>1. E!RunningTimers(u) = {e}
    BY <1>3, <1>5
  <2>2. QED
    BY <2>1, FS_Singleton
<1>6. QED
  BY <1>4, <1>5

-------------------------------------------------------------------------------
(* Workflow versions *)

\* The strengthening of OneCurrent: at most one version of a workflow is current, now
\* and in the rows that the request in progress will leave.
OneIsCurrent(rows) ==
    /\ \A v \in DOMAIN rows : "is_current" \in DOMAIN rows[v]
    /\ \A v, x \in DOMAIN rows :
           v[1] = x[1] /\ rows[v].is_current /\ rows[x].is_current => v = x

VersionsInv ==
    /\ "versions" \in DOMAIN db /\ OneIsCurrent(db.versions) /\ DOMAIN req = Alone
    /\ \A w \in Alone : req[w] # None /\ "versions" \in DOMAIN req[w] =>
           OneIsCurrent(Q!After(db.versions, req[w].versions))

LEMMA VersionOps ==
    /\ \A rows, ws : W!After(rows, ws) = Q!After(rows, ws)
    /\ \A row : W!Insert(row) = Q!Insert(row)
    /\ \A cols : W!Update(cols) = Q!Update(cols)
    /\ W!Delete = Q!Delete
BY DEF W!After, Q!After, W!Written, Q!Written, W!Insert, Q!Insert, W!Update, Q!Update,
       W!Delete, Q!Delete

\* A new version: the current one of the same workflow no longer is, if the new one is.
LEMMA NewIsCurrent ==
    ASSUME OneIsCurrent(db.versions), NEW i, NEW current
    PROVE  OneIsCurrent(Q!After(db.versions, W!NewVersion(i, current)))
<1>1. PICK new : new = <<i, W!NextVersion(i)>>
  OBVIOUS
<1>2. PICK unset : unset = IF current THEN W!UnsetCurrent(i) ELSE W!NoRows
  OBVIOUS
<1>3. /\ DOMAIN unset = IF current THEN W!Versions(i) ELSE {}
      /\ \A v \in DOMAIN unset : unset[v] = Q!Update([is_current |-> FALSE])
  BY <1>2, VersionOps DEF W!UnsetCurrent, W!Each, W!NoRows
<1>4. PICK ws : ws = W!NewVersion(i, current)
  OBVIOUS
<1>5. /\ DOMAIN ws = DOMAIN unset \cup {new}
      /\ ws[new] = Q!Insert([is_current |-> current])
      /\ \A v \in DOMAIN unset \ {new} : ws[v] = Q!Update([is_current |-> FALSE])
  BY <1>1, <1>2, <1>3, <1>4, VersionOps DEF W!NewVersion, W!Both
<1>6. ws[new].op = "insert" /\ ws[new].cols = [is_current |-> current]
  BY <1>5, InsertOp
<1>7. ASSUME NEW v \in DOMAIN unset \ {new}, v \in DOMAIN db.versions
      PROVE  /\ ws[v].op = "update" /\ "is_current" \in DOMAIN Q!Written(db.versions[v], ws[v])
             /\ Q!Written(db.versions[v], ws[v]).is_current = FALSE
  <2>1. PICK cols : cols = [is_current |-> FALSE]
    OBVIOUS
  <2>2. ws[v].op = "update" /\ ws[v].cols = cols
    BY <1>5, <1>7, <2>1, UpdateOp
  <2>3. "is_current" \in DOMAIN cols /\ cols.is_current = FALSE
    BY <2>1
  <2>4. "is_current" \in DOMAIN db.versions[v]
    BY <1>7 DEF OneIsCurrent
  <2>5. QED
    BY <2>2, <2>3, <2>4, Updating
<1>8. PICK after : after = Q!After(db.versions, ws)
  OBVIOUS
<1>9. ASSUME NEW v \in DOMAIN after
      PROVE  /\ "is_current" \in DOMAIN after[v]
             /\ \/ v = new /\ after[v].is_current = current
                \/ /\ v # new /\ v \in DOMAIN db.versions /\ v \notin DOMAIN unset
                   /\ after[v].is_current = db.versions[v].is_current
                \/ after[v].is_current = FALSE
  <2>1. CASE v = new
    <3>1. after[v] = [is_current |-> current]
      BY <1>5, <1>6, <1>8, <1>9, <2>1, RowAfter
    <3>2. QED
      BY <2>1, <3>1
  <2>2. CASE v \in DOMAIN unset \ {new}
    <3>1. v \in DOMAIN ws /\ (v \in DOMAIN db.versions => ws[v].op = "update")
      BY <1>5, <1>7, <2>2
    <3>2. ws[v].op = "update"
      BY <1>5, <2>2, UpdateOp
    <3>3. v \in DOMAIN db.versions /\ after[v] = Q!Written(db.versions[v], ws[v])
      BY <1>8, <1>9, <3>1, <3>2, RowAfter
    <3>4. QED
      BY <1>7, <2>2, <3>3
  <2>3. CASE v # new /\ v \notin DOMAIN unset
    <3>1. v \in DOMAIN db.versions /\ after[v] = db.versions[v]
      BY <1>5, <1>8, <1>9, <2>3, RowAfter
    <3>2. QED
      BY <2>3, <3>1 DEF OneIsCurrent
  <2>4. QED
    BY <2>1, <2>2, <2>3
<1>10. new[1] = i /\ \A v \in DOMAIN db.versions : current /\ v[1] = i => v \in DOMAIN unset
  BY <1>1, <1>3 DEF W!Versions
<1>11. \A v \in DOMAIN after : "is_current" \in DOMAIN after[v]
  BY <1>9 DEF OneIsCurrent
<1>12. ASSUME NEW v \in DOMAIN after, NEW x \in DOMAIN after, v[1] = x[1],
              after[v].is_current, after[x].is_current
       PROVE  v = x
  <2>1. \A y \in {v, x} : \/ y = new /\ current
                          \/ /\ y \in DOMAIN db.versions /\ db.versions[y].is_current
                             /\ y \notin DOMAIN unset
    <3>1. ASSUME NEW y \in DOMAIN after, after[y].is_current
          PROVE  \/ y = new /\ current
                 \/ /\ y \in DOMAIN db.versions /\ db.versions[y].is_current
                    /\ y \notin DOMAIN unset
      BY <1>9, <3>1
    <3>2. QED
      BY <1>12, <3>1
  <2>2. QED
    BY <1>10, <1>12, <2>1 DEF OneIsCurrent
<1>13. QED
  BY <1>4, <1>8, <1>11, <1>12 DEF OneIsCurrent

LEMMA PrunedIsCurrent ==
    ASSUME OneIsCurrent(db.versions), NEW vs
    PROVE  OneIsCurrent(Q!After(db.versions, W!Each(vs, W!Delete)))
<1>1. PICK ws : ws = W!Each(vs, W!Delete)
  OBVIOUS
<1>2. \A v \in DOMAIN ws : ws[v].op = "delete"
  BY <1>1, VersionOps, DeleteOp DEF W!Each
<1>3. PICK after : after = Q!After(db.versions, ws)
  OBVIOUS
<1>4. \A v \in DOMAIN after : v \in DOMAIN db.versions /\ after[v] = db.versions[v]
  BY <1>2, <1>3, RowAfter
<1>5. QED
  BY <1>1, <1>3, <1>4 DEF OneIsCurrent

\* A request that will leave at most one current version of a workflow.
VersionHeld(w) ==
    \E changes : /\ db' = db /\ req' = [req EXCEPT ![w] = changes]
                 /\ "versions" \in DOMAIN changes =>
                        OneIsCurrent(Q!After(db.versions, changes.versions))

LEMMA VersionHandlers ==
    ASSUME OneIsCurrent(db.versions), NEW w \in Alone, W!Configure(w) \/ W!Edit(w)
    PROVE  VersionHeld(w)
<1>1. ASSUME NEW changes, "versions" \notin DOMAIN changes,
             W!Hold(w, changes) \/ W!HoldNew(w, changes)
      PROVE  VersionHeld(w)
  BY <1>1 DEF W!Hold, W!HoldNew, VersionHeld
<1>2. ASSUME NEW ws, OneIsCurrent(Q!After(db.versions, ws)), W!Hold(w, [versions |-> ws])
      PROVE  VersionHeld(w)
  <2>1. PICK changes : changes = [versions |-> ws]
    OBVIOUS
  <2>2. changes.versions = ws /\ db' = db /\ req' = [req EXCEPT ![w] = changes]
    BY <1>2, <2>1 DEF W!Hold
  <2>3. QED
    BY <1>2, <2>2 DEF VersionHeld
<1>3. ASSUME NEW b, W!CreateEnvironment(w, b) \/ W!CreateTemplate(w, b)
      PROVE  VersionHeld(w)
  <2>1. \A f : "versions" \notin DOMAIN [environments |-> f]
    OBVIOUS
  <2>2. \A f : "versions" \notin DOMAIN [templates |-> f]
    OBVIOUS
  <2>3. QED
    BY <1>1, <1>3, <2>1, <2>2 DEF W!CreateEnvironment, W!CreateTemplate
<1>4. ASSUME NEW e, W!DeleteEnvironment(w, e)
      PROVE  VersionHeld(w)
  <2>1. \A f : "versions" \notin DOMAIN [environments |-> f]
    OBVIOUS
  <2>2. QED
    BY <1>1, <1>4, <2>1 DEF W!DeleteEnvironment
<1>5. ASSUME NEW t, NEW e, W!CreateInstance(w, t, e) \/ W!DeleteInstance(w, t)
      PROVE  VersionHeld(w)
  <2>1. \A f : "versions" \notin DOMAIN [instances |-> f]
    OBVIOUS
  <2>2. QED
    BY <1>1, <1>5, <2>1 DEF W!CreateInstance, W!DeleteInstance, W!Deleted
<1>6. ASSUME NEW i, NEW b, W!CreateVersion(w, i, b)
      PROVE  VersionHeld(w)
  BY <1>2, <1>6, NewIsCurrent DEF W!CreateVersion
<1>7. ASSUME NEW i, NEW n, W!RestoreVersion(w, i, n)
      PROVE  VersionHeld(w)
  BY <1>2, <1>7, NewIsCurrent DEF W!RestoreVersion
<1>8. ASSUME NEW i, W!PruneOldVersions(w, i)
      PROVE  VersionHeld(w)
  BY <1>2, <1>8, PrunedIsCurrent DEF W!PruneOldVersions
<1>9. QED
  BY <1>3, <1>4, <1>5, <1>6, <1>7, <1>8 DEF W!Configure, W!Edit

LEMMA VersionsStep ==
    ASSUME part = "workflows", VersionsInv, MCNext
    PROVE  VersionsInv'
<1>1. W!Next /\ \A v, w \in Alone : v = w
  BY AloneAssumption DEF MCNext, RowsNext
<1>2. ASSUME NEW w \in Alone, W!Configure(w) \/ W!Edit(w)
      PROVE  VersionsInv'
  <2>1. PICK changes : /\ db' = db /\ req' = [req EXCEPT ![w] = changes]
                       /\ "versions" \in DOMAIN changes =>
                              OneIsCurrent(Q!After(db.versions, changes.versions))
    BY <1>2, VersionHandlers DEF VersionsInv, VersionHeld
  <2>2. DOMAIN req' = Alone /\ \A v \in Alone : req'[v] = changes
    BY <1>1, <2>1 DEF VersionsInv
  <2>3. QED
    BY <2>1, <2>2 DEF VersionsInv
<1>3. ASSUME NEW w \in Alone, W!CommitWorkflows(w)
      PROVE  VersionsInv'
  <2>1. PICK all : all = W!AfterAll(req[w])
    OBVIOUS
  <2>2. /\ req[w] # None /\ req' = [req EXCEPT ![w] = None]
        /\ \E instances : db' = [all EXCEPT !.instances = instances]
    BY <1>3, <2>1 DEF W!CommitWorkflows, W!CommitAs, W!Free
  <2>3. /\ DOMAIN all = DOMAIN db
        /\ all.versions = IF "versions" \in DOMAIN req[w]
                          THEN Q!After(db.versions, req[w].versions) ELSE db.versions
    BY <2>1, VersionOps DEF VersionsInv, W!AfterAll
  <2>4. DOMAIN db' = DOMAIN all /\ db'.versions = all.versions
    BY <2>2, <2>3 DEF VersionsInv
  <2>5. "versions" \in DOMAIN db' /\ OneIsCurrent(db'.versions)
    BY <2>2, <2>3, <2>4 DEF VersionsInv
  <2>6. DOMAIN req' = Alone /\ \A v \in Alone : req'[v] = None
    BY <1>1, <2>2 DEF VersionsInv
  <2>7. QED
    BY <2>5, <2>6 DEF VersionsInv
<1>4. ASSUME NEW w \in Alone, W!Rollback(w)
      PROVE  VersionsInv'
  <2>1. db' = db /\ req' = [req EXCEPT ![w] = None]
    BY <1>4 DEF W!Rollback
  <2>2. DOMAIN req' = Alone /\ \A v \in Alone : req'[v] = None
    BY <1>1, <2>1 DEF VersionsInv
  <2>3. QED
    BY <2>1, <2>2 DEF VersionsInv
<1>5. QED
  BY <1>1, <1>2, <1>3, <1>4 DEF W!Next

LEMMA VersionsStart ==
    ASSUME part = "workflows", MCInit
    PROVE  VersionsInv
<1>1. /\ db = [t \in {"environments", "templates", "instances", "versions"} |-> W!NoRows]
      /\ req = [w \in Alone |-> None]
  BY DEF MCInit, PartInit, W!Init, W!Start
<1>2. DOMAIN db.versions = {}
  BY <1>1 DEF W!NoRows
<1>3. QED
  BY <1>1, <1>2 DEF VersionsInv, OneIsCurrent

-------------------------------------------------------------------------------
(* Onboarding templates *)

\* The strengthening of OneDefault: at most one template is the default, now and in the
\* rows that the request in progress will leave.
OneIsDefault(rows) ==
    /\ \A t \in DOMAIN rows : "is_default" \in DOMAIN rows[t]
    /\ \A t, u \in DOMAIN rows : rows[t].is_default /\ rows[u].is_default => t = u

DefaultInv ==
    /\ "templates" \in DOMAIN db /\ OneIsDefault(db.templates) /\ DOMAIN req = Alone
    /\ \A w \in Alone : req[w] # None /\ "templates" \in DOMAIN req[w] =>
           OneIsDefault(Q!After(db.templates, req[w].templates))

LEMMA TemplateOps ==
    /\ \A rows, ws : O!After(rows, ws) = Q!After(rows, ws)
    /\ \A row : O!Insert(row) = Q!Insert(row)
    /\ \A cols : O!Update(cols) = Q!Update(cols)
    /\ \A row, cols : O!Assign(row, cols) = Q!Assign(row, cols)
    /\ O!Delete = Q!Delete
BY DEF O!After, Q!After, O!Written, Q!Written, O!Insert, Q!Insert, O!Update, Q!Update,
       O!Assign, Q!Assign, O!Delete, Q!Delete

\* One template is written, as the default after the others were unset, or as another.
LEMMA DefaultWritten ==
    ASSUME OneIsDefault(db.templates), NEW t, NEW write, NEW others,
           others = O!UnsetDefaults \/ others = O!NoRows,
           LET rows == db.templates
               row == IF write.op = "insert" THEN write.cols ELSE Q!Written(rows[t], write)
           IN  /\ write.op \in {"insert", "update"}
               /\ write.op = "update" => t \in DOMAIN rows
               /\ "is_default" \in DOMAIN row
               /\ \/ others = O!UnsetDefaults
                  \/ write.op = "insert" /\ row.is_default = FALSE
                  \/ write.op = "update" /\ (row.is_default => rows[t].is_default)
    PROVE  OneIsDefault(Q!After(db.templates, O!Both(others, [i \in {t} |-> write])))
<1>1. PICK rows : rows = db.templates
  OBVIOUS
<1>2. PICK ws : ws = O!Both(others, [i \in {t} |-> write])
  OBVIOUS
<1>3. \A i \in DOMAIN others : others[i] = Q!Update([is_default |-> FALSE])
  BY TemplateOps DEF O!UnsetDefaults, O!NoRows, O!Each
<1>4. /\ DOMAIN ws = DOMAIN others \cup {t} /\ ws[t] = write
      /\ \A i \in DOMAIN others \ {t} : ws[i] = Q!Update([is_default |-> FALSE])
  BY <1>2, <1>3 DEF O!Both
<1>5. PICK after : after = Q!After(rows, ws)
  OBVIOUS
<1>6. PICK row : row = IF write.op = "insert" THEN write.cols ELSE Q!Written(rows[t], write)
  OBVIOUS
<1>7. ASSUME NEW i \in DOMAIN after, i # t
      PROVE  /\ "is_default" \in DOMAIN after[i]
             /\ after[i].is_default => /\ i \in DOMAIN rows /\ rows[i].is_default
                                       /\ i \notin DOMAIN others
  <2>1. CASE i \in DOMAIN others
    <3>1. PICK cols : cols = [is_default |-> FALSE]
      OBVIOUS
    <3>2. ws[i].op = "update" /\ ws[i].cols = cols /\ i \in DOMAIN ws
      BY <1>4, <1>7, <2>1, <3>1, UpdateOp
    <3>3. i \in DOMAIN rows /\ after[i] = Q!Written(rows[i], ws[i])
      BY <1>5, <1>7, <3>2, RowAfter
    <3>4. "is_default" \in DOMAIN rows[i]
      BY <1>1, <3>3 DEF OneIsDefault
    <3>5. "is_default" \in DOMAIN cols /\ cols.is_default = FALSE
      BY <3>1
    <3>6. QED
      BY <3>2, <3>3, <3>4, <3>5, Updating
  <2>2. CASE i \notin DOMAIN others
    <3>1. i \in DOMAIN rows /\ after[i] = rows[i]
      BY <1>4, <1>5, <1>7, <2>2, RowAfter
    <3>2. QED
      BY <1>1, <2>2, <3>1 DEF OneIsDefault
  <2>3. QED
    BY <2>1, <2>2
<1>8. t \in DOMAIN after => after[t] = row
  BY <1>1, <1>4, <1>5, <1>6, RowAfter
<1>9. "is_default" \in DOMAIN row
  BY <1>1, <1>6
<1>10. \A i \in DOMAIN rows : rows[i].is_default /\ others = O!UnsetDefaults => i \in DOMAIN others
  BY <1>1 DEF O!UnsetDefaults, O!Each
<1>11. \/ others = O!UnsetDefaults
       \/ row.is_default = FALSE
       \/ t \in DOMAIN rows /\ (row.is_default => rows[t].is_default)
  BY <1>1, <1>6
<1>12. ASSUME NEW i \in DOMAIN after, NEW j \in DOMAIN after,
              after[i].is_default, after[j].is_default
       PROVE  i = j
  <2>1. CASE i # t /\ j # t
    BY <1>1, <1>7, <1>12, <2>1 DEF OneIsDefault
  <2>2. CASE others = O!UnsetDefaults
    BY <1>7, <1>10, <1>12, <2>2
  <2>3. CASE row.is_default = FALSE
    BY <1>7, <1>8, <1>12, <2>1, <2>3
  <2>4. CASE t \in DOMAIN rows /\ (row.is_default => rows[t].is_default)
    BY <1>1, <1>7, <1>8, <1>12, <2>4 DEF OneIsDefault
  <2>5. QED
    BY <1>11, <2>2, <2>3, <2>4
<1>13. QED
  BY <1>1, <1>2, <1>5, <1>7, <1>8, <1>9, <1>12 DEF OneIsDefault

\* A request that will leave at most one default template.
DefaultHeld(w) ==
    \E changes : /\ db' = db /\ req' = [req EXCEPT ![w] = changes]
                 /\ "templates" \in DOMAIN changes =>
                        OneIsDefault(Q!After(db.templates, changes.templates))

LEMMA DefaultKept ==
    ASSUME NEW w, NEW ws, OneIsDefault(Q!After(db.templates, ws)),
           O!Hold(w, [templates |-> ws]) \/ O!HoldNew(w, [templates |-> ws])
    PROVE  DefaultHeld(w)
<1>1. PICK changes : changes = [templates |-> ws]
  OBVIOUS
<1>2. changes.templates = ws /\ db' = db /\ req' = [req EXCEPT ![w] = changes]
  BY <1>1 DEF O!Hold, O!HoldNew
<1>3. QED
  BY <1>2 DEF DefaultHeld

LEMMA TemplateAssigned ==
    ASSUME OneIsDefault(db.templates), NEW t \in DOMAIN db.templates, NEW cols,
           "is_default" \in DOMAIN cols => cols.is_default = FALSE
    PROVE  OneIsDefault(Q!After(db.templates, [i \in {t} |-> O!Assign(db.templates[t], cols)]))
<1>1. PICK row : row = db.templates[t]
  OBVIOUS
<1>2. "is_default" \in DOMAIN row
  BY <1>1 DEF OneIsDefault
<1>3. PICK write : write = O!Assign(row, cols)
  OBVIOUS
<1>4. PICK new : new = Q!Written(row, write)
  OBVIOUS
<1>5. /\ write.op = "update" /\ "is_default" \in DOMAIN new
      /\ new.is_default = IF "is_default" \in DOMAIN cols THEN cols.is_default
                          ELSE row.is_default
  BY <1>2, <1>3, <1>4, TemplateOps, Assigning
<1>6. new.is_default => row.is_default
  BY <1>5
<1>7. OneIsDefault(Q!After(db.templates, O!Both(O!NoRows, [i \in {t} |-> write])))
  BY <1>1, <1>4, <1>5, <1>6, DefaultWritten
<1>8. O!Both(O!NoRows, [i \in {t} |-> write]) = [i \in {t} |-> write]
  BY DEF O!Both, O!NoRows
<1>9. QED
  BY <1>1, <1>3, <1>7, <1>8

LEMMA TemplateDefault ==
    ASSUME OneIsDefault(db.templates), NEW t \in DOMAIN db.templates
    PROVE  OneIsDefault(Q!After(db.templates,
               O!Both(O!UnsetDefaults, [i \in {t} |-> O!Update([is_default |-> TRUE])])))
<1>1. PICK cols : cols = [is_default |-> TRUE]
  OBVIOUS
<1>2. PICK write : write = O!Update(cols)
  OBVIOUS
<1>3. write.op = "update" /\ write.cols = cols
  BY <1>2, TemplateOps, UpdateOp
<1>4. "is_default" \in DOMAIN db.templates[t]
  BY DEF OneIsDefault
<1>5. "is_default" \in DOMAIN Q!Written(db.templates[t], write)
  BY <1>3, <1>4, Updating
<1>6. OneIsDefault(Q!After(db.templates, O!Both(O!UnsetDefaults, [i \in {t} |-> write])))
  BY <1>3, <1>5, DefaultWritten
<1>7. QED
  BY <1>1, <1>2, <1>6

LEMMA TemplateDeleted ==
    ASSUME OneIsDefault(db.templates), NEW t
    PROVE  OneIsDefault(Q!After(db.templates, [i \in {t} |-> O!Delete]))
<1>1. PICK ws : ws = [i \in {t} |-> O!Delete]
  OBVIOUS
<1>2. \A i \in DOMAIN ws : ws[i].op = "delete"
  BY <1>1, TemplateOps, DeleteOp
<1>3. PICK after : after = Q!After(db.templates, ws)
  OBVIOUS
<1>4. \A i \in DOMAIN after : i \in DOMAIN db.templates /\ after[i] = db.templates[i]
  BY <1>2, <1>3, RowAfter
<1>5. QED
  BY <1>1, <1>3, <1>4 DEF OneIsDefault

LEMMA DesignHandlers ==
    ASSUME OneIsDefault(db.templates), NEW w \in Alone, O!Design(w)
    PROVE  DefaultHeld(w)
<1>1. ASSUME NEW steps, NEW b, NEW d \in BOOLEAN, O!CreateTemplate(w, steps, b, d)
      PROVE  DefaultHeld(w)
  <2>1. PICK row : row = [steps |-> steps, is_active |-> b, is_default |-> d]
    OBVIOUS
  <2>2. "is_default" \in DOMAIN row /\ row.is_default = d
    BY <2>1
  <2>3. PICK write, others : /\ write = O!Insert(row)
                             /\ others = IF d THEN O!UnsetDefaults ELSE O!NoRows
    OBVIOUS
  <2>4. write.op = "insert" /\ write.cols = row
    BY <2>3, TemplateOps, InsertOp
  <2>5. PICK ws : ws = O!Both(others, [i \in {seq} |-> write])
    OBVIOUS
  <2>6. O!HoldNew(w, [templates |-> ws])
    BY <1>1, <2>1, <2>3, <2>5 DEF O!CreateTemplate
  <2>7. OneIsDefault(Q!After(db.templates, ws))
    BY <2>2, <2>3, <2>4, <2>5, DefaultWritten
  <2>8. QED
    BY <2>6, <2>7, DefaultKept
<1>2. ASSUME NEW t, NEW cols, "is_default" \in DOMAIN cols => cols.is_default = FALSE,
             O!UpdateTemplate(w, t, cols)
      PROVE  DefaultHeld(w)
  BY <1>2, TemplateAssigned, DefaultKept DEF O!UpdateTemplate
<1>3. ASSUME NEW t, NEW steps, O!UpdateTemplate(w, t, [steps |-> steps])
      PROVE  DefaultHeld(w)
  <2>1. PICK cols : cols = [steps |-> steps]
    OBVIOUS
  <2>2. "is_default" \notin DOMAIN cols
    BY <2>1
  <2>3. QED
    BY <1>2, <1>3, <2>1, <2>2
<1>4. ASSUME NEW t, NEW b, O!UpdateTemplate(w, t, [is_active |-> b])
      PROVE  DefaultHeld(w)
  <2>1. PICK cols : cols = [is_active |-> b]
    OBVIOUS
  <2>2. "is_default" \notin DOMAIN cols
    BY <2>1
  <2>3. QED
    BY <1>2, <1>4, <2>1, <2>2
<1>5. ASSUME NEW t, O!UpdateTemplate(w, t, [is_default |-> FALSE])
      PROVE  DefaultHeld(w)
  <2>1. PICK cols : cols = [is_default |-> FALSE]
    OBVIOUS
  <2>2. cols.is_default = FALSE
    BY <2>1
  <2>3. QED
    BY <1>2, <1>5, <2>1, <2>2
<1>6. ASSUME NEW t, O!MakeDefault(w, t) \/ O!DeleteTemplate(w, t)
      PROVE  DefaultHeld(w)
  BY <1>6, TemplateDefault, TemplateDeleted, DefaultKept DEF O!MakeDefault, O!DeleteTemplate
<1>7. QED
  BY <1>1, <1>3, <1>4, <1>5, <1>6 DEF O!Design

LEMMA OnboardingHandlers ==
    ASSUME NEW w \in Alone, NEW p, NEW t,
           \/ O!StartDefault(w, p) \/ O!StartOnboarding(w, p, t) \/ O!Advance(w, <<p, t>>)
    PROVE  DefaultHeld(w)
<1>1. ASSUME NEW changes, "templates" \notin DOMAIN changes,
             O!Hold(w, changes) \/ O!HoldNew(w, changes)
      PROVE  DefaultHeld(w)
  BY <1>1 DEF O!Hold, O!HoldNew, DefaultHeld
<1>2. \A f : "templates" \notin DOMAIN [onboardings |-> f]
  OBVIOUS
<1>3. \A f : "templates" \notin DOMAIN [reminders |-> f]
  OBVIOUS
<1>4. ASSUME NEW u, O!StartOnboarding(w, p, u)
      PROVE  DefaultHeld(w)
  BY <1>1, <1>2, <1>4 DEF O!StartOnboarding
<1>5. ASSUME NEW o, NEW s, O!CompleteStep(w, o, s) \/ O!SkipStep(w, o, s)
      PROVE  DefaultHeld(w)
  BY <1>1, <1>2, <1>5 DEF O!CompleteStep, O!SkipStep, O!Skipped, O!Advanced
<1>6. ASSUME NEW o, O!ResetOnboarding(w, o)
      PROVE  DefaultHeld(w)
  BY <1>1, <1>2, <1>6 DEF O!ResetOnboarding
<1>7. ASSUME NEW o, O!SendReminder(w, o)
      PROVE  DefaultHeld(w)
  BY <1>1, <1>3, <1>7 DEF O!SendReminder
<1>8. QED
  BY <1>4, <1>5, <1>6, <1>7 DEF O!StartDefault, O!Advance

LEMMA DefaultStep ==
    ASSUME part = "onboarding", DefaultInv, MCNext
    PROVE  DefaultInv'
<1>1. O!Next /\ \A v, w \in Alone : v = w
  BY AloneAssumption DEF MCNext, RowsNext
<1>2. ASSUME NEW w \in Alone, DefaultHeld(w)
      PROVE  DefaultInv'
  <2>1. PICK changes : /\ db' = db /\ req' = [req EXCEPT ![w] = changes]
                       /\ "templates" \in DOMAIN changes =>
                              OneIsDefault(Q!After(db.templates, changes.templates))
    BY <1>2 DEF DefaultHeld
  <2>2. DOMAIN req' = Alone /\ \A v \in Alone : req'[v] = changes
    BY <1>1, <2>1 DEF DefaultInv
  <2>3. QED
    BY <2>1, <2>2 DEF DefaultInv
<1>3. ASSUME NEW w \in Alone, O!CommitOnboarding(w)
      PROVE  DefaultInv'
  <2>1. PICK all : all = O!AfterAll(req[w])
    OBVIOUS
  <2>2. /\ req[w] # None /\ req' = [req EXCEPT ![w] = None]
        /\ \E onboardings, reminders :
               db' = [all EXCEPT !.onboardings = onboardings, !.reminders = reminders]
    BY <1>3, <2>1 DEF O!CommitOnboarding, O!CommitAs, O!Free
  <2>3. /\ DOMAIN all = DOMAIN db
        /\ all.templates = IF "templates" \in DOMAIN req[w]
                           THEN Q!After(db.templates, req[w].templates) ELSE db.templates
    BY <2>1, TemplateOps DEF DefaultInv, O!AfterAll
  <2>4. DOMAIN db' = DOMAIN all /\ db'.templates = all.templates
    BY <2>2, <2>3 DEF DefaultInv
  <2>5. "templates" \in DOMAIN db' /\ OneIsDefault(db'.templates)
    BY <2>2, <2>3, <2>4 DEF DefaultInv
  <2>6. DOMAIN req' = Alone /\ \A v \in Alone : req'[v] = None
    BY <1>1, <2>2 DEF DefaultInv
  <2>7. QED
    BY <2>5, <2>6 DEF DefaultInv
<1>4. ASSUME NEW w \in Alone, O!Rollback(w)
      PROVE  DefaultInv'
  <2>1. db' = db /\ req' = [req EXCEPT ![w] = None]
    BY <1>4 DEF O!Rollback
  <2>2. DOMAIN req' = Alone /\ \A v \in Alone : req'[v] = None
    BY <1>1, <2>1 DEF DefaultInv
  <2>3. QED
    BY <2>1, <2>2 DEF DefaultInv
<1>5. ASSUME NEW r, O!Age(r)
      PROVE  DefaultInv'
  <2>1. req' = req /\ db' = [db EXCEPT !.reminders[r].recent = FALSE]
    BY <1>5 DEF O!Age
  <2>2. DOMAIN db' = DOMAIN db /\ db'.templates = db.templates
    BY <2>1 DEF DefaultInv
  <2>3. QED
    BY <2>1, <2>2 DEF DefaultInv
<1>6. QED
  BY <1>1, <1>2, <1>3, <1>4, <1>5, DesignHandlers, OnboardingHandlers DEF O!Next, DefaultInv

LEMMA DefaultStart ==
    ASSUME part = "onboarding", MCInit
    PROVE  DefaultInv
<1>1. /\ db = [t \in {"templates", "onboardings", "reminders"} |-> O!NoRows]
      /\ req = [w \in Alone |-> None]
  BY DEF MCInit, PartInit, O!Init, O!Start
<1>2. DOMAIN db.templates = {}
  BY <1>1 DEF O!NoRows
<1>3. QED
  BY <1>1, <1>2 DEF DefaultInv, OneIsDefault

-------------------------------------------------------------------------------
(* One at a time *)

\* One request at a time, a user has at most one running timer, a workflow at most one
\* current version and an organization at most one default onboarding template, for any
\* rows (start_timer, create_version, set_default).
THEOREM OneOfEach == MCSpec => []OneAtATime
<1> DEFINE Inv == /\ part = "time_entries" => TimersInv
                  /\ part = "workflows" => VersionsInv
                  /\ part = "onboarding" => DefaultInv
<1>1. MCInit => Inv
  BY TimersStart, VersionsStart, DefaultStart
<1>2. Inv /\ [MCNext]_mcvars => Inv'
  <2>1. CASE MCNext
    BY <2>1, TimersStep, VersionsStep, DefaultStep, SamePart
  <2>2. CASE UNCHANGED mcvars
    BY <2>2 DEF mcvars, TimersInv, VersionsInv, DefaultInv
  <2>3. QED
    BY <2>1, <2>2
<1>3. Inv => OneAtATime
  BY TimersAlone DEF OneAtATime, VersionsInv, OneIsCurrent, W!OneCurrent, DefaultInv,
                     OneIsDefault, O!OneDefault
<1>4. QED
  BY <1>1, <1>2, <1>3, PTL DEF MCSpec

-------------------------------------------------------------------------------
(* Tables and their columns *)

\* The rows with a value of ty[c] in each column c.
Cols(ty) == {r \in [DOMAIN ty -> UNION {ty[c] : c \in DOMAIN ty}] : \A c \in DOMAIN ty : r[c] \in ty[c]}

\* Values of some of the columns.
Fit(cols, ty) == \A c \in DOMAIN cols \cap DOMAIN ty : cols[c] \in ty[c]

\* A schema gives each table the keys of its rows, and each key the values of the columns of
\* its row.  A write that fits it, whatever the rows are when it is committed: a row under
\* one of the keys, values of the columns they are assigned to, a count that may go on.
TypedWrite(table, i, write) ==
    \/ write.op = "insert" /\ i \in DOMAIN table /\ write.cols \in Cols(table[i])
    \/ write.op = "delete"
    \/ write.op = "update" /\ Fit(write.cols, table[i])
    \/ write.op = "increase" /\ write.cols \in DOMAIN table[i]
       /\ \A n \in table[i][write.cols] : n + 1 \in table[i][write.cols]

TypedChanges(schema, changes) ==
    \A t \in DOMAIN changes :
        t \in DOMAIN schema /\ \A i \in DOMAIN changes[t] : TypedWrite(schema[t], i, changes[t][i])

TypedRows(schema, tables) ==
    /\ DOMAIN tables = DOMAIN schema
    /\ \A t \in DOMAIN schema : \A i \in DOMAIN tables[t] :
           i \in DOMAIN schema[t] /\ tables[t][i] \in Cols(schema[t][i])

\* Committed rows and what requests are about to write fit a schema.
Typed(schema, workers) ==
    /\ TypedRows(schema, db) /\ seq \in Nat \ {0} /\ DOMAIN req = workers
    /\ \A w \in workers : req[w] # None => TypedChanges(schema, req[w])

\* The tables after a transaction.
Merged(changes) ==
    [t \in DOMAIN db |-> IF t \in DOMAIN changes THEN Q!After(db[t], changes[t]) ELSE db[t]]

\* What a step of a request does: it writes nothing yet, when it holds what it is about to
\* write or is rolled back, and all it held when it is committed.
Transacts(schema, w) ==
    /\ seq' \in {seq, seq + 1}
    /\ \/ /\ db' = db
          /\ \E changes : TypedChanges(schema, changes) /\ req' = [req EXCEPT ![w] = changes]
       \/ db' = db /\ req' = [req EXCEPT ![w] = None]
       \/ req[w] # None /\ db' = Merged(req[w]) /\ req' = [req EXCEPT ![w] = None]

\* A row is in its columns' sets when each column is.
LEMMA InCols ==
    ASSUME NEW ty, NEW r
    PROVE  r \in Cols(ty) <=> /\ r = [c \in DOMAIN r |-> r[c]]
                              /\ DOMAIN r = DOMAIN ty
                              /\ \A c \in DOMAIN ty : r[c] \in ty[c]
<1>1. ASSUME r = [c \in DOMAIN r |-> r[c]], DOMAIN r = DOMAIN ty, \A c \in DOMAIN ty : r[c] \in ty[c]
      PROVE  r \in Cols(ty)
  <2>1. \A c \in DOMAIN ty : r[c] \in UNION {ty[d] : d \in DOMAIN ty}
    BY <1>1
  <2>2. QED
    BY <1>1, <2>1 DEF Cols
<1>2. QED
  BY <1>1 DEF Cols

\* A row keeps its columns' types through a write that fits.
LEMMA WrittenTyped ==
    ASSUME NEW table, NEW i, NEW row \in Cols(table[i]), NEW write, TypedWrite(table, i, write),
           write.op \notin {"insert", "delete"}
    PROVE  Q!Written(row, write) \in Cols(table[i])
<1>1. PICK ty : ty = table[i]
  OBVIOUS
<1>2. /\ row = [c \in DOMAIN row |-> row[c]] /\ DOMAIN row = DOMAIN ty
      /\ \A c \in DOMAIN ty : row[c] \in ty[c]
  BY <1>1, InCols
<1>3. PICK new : new = Q!Written(row, write)
  OBVIOUS
<1>4. CASE write.op = "update"
  <2>1. new = [c \in DOMAIN row |-> IF c \in DOMAIN write.cols THEN write.cols[c] ELSE row[c]]
    BY <1>3, <1>4 DEF Q!Written
  <2>2. \A c \in DOMAIN ty : new[c] \in ty[c]
    BY <1>1, <1>2, <1>4, <2>1 DEF TypedWrite, Fit
  <2>3. QED
    BY <1>1, <1>2, <1>3, <2>1, <2>2, InCols
<1>5. CASE write.op = "increase"
  <2>1. new = [row EXCEPT ![write.cols] = row[write.cols] + 1]
    BY <1>3, <1>5 DEF Q!Written
  <2>2. \A c \in DOMAIN ty : new[c] \in ty[c]
    BY <1>1, <1>2, <1>5, <2>1 DEF TypedWrite
  <2>3. new = [c \in DOMAIN new |-> new[c]] /\ DOMAIN new = DOMAIN ty
    BY <1>2, <2>1
  <2>4. QED
    BY <1>1, <1>3, <2>2, <2>3, InCols
<1>6. QED
  BY <1>4, <1>5 DEF TypedWrite

\* Rows keep their types through a set of writes that fit the schema.
LEMMA RowsAfter ==
    ASSUME NEW table, NEW rows, NEW ws,
           \A j \in DOMAIN rows : j \in DOMAIN table /\ rows[j] \in Cols(table[j]),
           \A j \in DOMAIN ws : TypedWrite(table, j, ws[j]),
           NEW i \in DOMAIN Q!After(rows, ws)
    PROVE  i \in DOMAIN table /\ Q!After(rows, ws)[i] \in Cols(table[i])
<1>1. PICK row : row = Q!After(rows, ws)[i]
  OBVIOUS
<1>2. CASE i \in DOMAIN ws /\ ws[i].op = "insert" /\ row = ws[i].cols
  BY <1>1, <1>2 DEF TypedWrite
<1>3. CASE /\ i \in DOMAIN rows /\ i \in DOMAIN ws /\ ws[i].op \notin {"insert", "delete"}
           /\ row = Q!Written(rows[i], ws[i])
  BY <1>1, <1>3, WrittenTyped
<1>4. CASE i \in DOMAIN rows /\ i \notin DOMAIN ws /\ row = rows[i]
  BY <1>1, <1>4
<1>5. QED
  BY <1>1, <1>2, <1>3, <1>4, RowAfter

\* A transaction whose writes fit a schema leaves tables that do.
LEMMA MergedTyped ==
    ASSUME NEW schema, TypedRows(schema, db), NEW changes, TypedChanges(schema, changes)
    PROVE  TypedRows(schema, Merged(changes))
<1>1. PICK after : after = Merged(changes)
  OBVIOUS
<1>2. DOMAIN after = DOMAIN schema
  BY <1>1 DEF Merged, TypedRows
<1>3. ASSUME NEW t \in DOMAIN schema, NEW i \in DOMAIN after[t]
      PROVE  i \in DOMAIN schema[t] /\ after[t][i] \in Cols(schema[t][i])
  <2>1. \A j \in DOMAIN db[t] : j \in DOMAIN schema[t] /\ db[t][j] \in Cols(schema[t][j])
    BY DEF TypedRows
  <2>2. CASE t \in DOMAIN changes
    <3>1. PICK ws : ws = changes[t]
      OBVIOUS
    <3>2. after[t] = Q!After(db[t], ws)
      BY <1>1, <2>2, <3>1 DEF Merged, TypedRows
    <3>3. \A j \in DOMAIN ws : TypedWrite(schema[t], j, ws[j])
      BY <2>2, <3>1 DEF TypedChanges
    <3>4. QED
      BY <1>3, <2>1, <3>2, <3>3, RowsAfter
  <2>3. CASE t \notin DOMAIN changes
    <3>1. after[t] = db[t]
      BY <1>1, <2>3 DEF Merged, TypedRows
    <3>2. QED
      BY <1>3, <2>1, <3>1
  <2>4. QED
    BY <2>2, <2>3
<1>4. QED
  BY <1>1, <1>2, <1>3 DEF TypedRows

\* A request that writes what fits a schema keeps rows and requests within it.
LEMMA TypedStep ==
    ASSUME NEW schema, NEW workers, Typed(schema, workers), NEW w \in workers,
           Transacts(schema, w)
    PROVE  Typed(schema, workers)'
<1>1. DOMAIN req' = workers /\ seq' \in Nat \ {0}
  BY DEF Typed, Transacts
<1>2. TypedRows(schema, db')
  <2>1. ASSUME req[w] # None, db' = Merged(req[w])
        PROVE  TypedRows(schema, db')
    <3>1. PICK changes : changes = req[w] /\ TypedChanges(schema, changes)
      BY <2>1 DEF Typed
    <3>2. QED
      BY <2>1, <3>1, MergedTyped DEF Typed
  <2>2. QED
    BY <2>1 DEF Typed, Transacts
<1>3. ASSUME NEW v \in workers, req'[v] # None
      PROVE  TypedChanges(schema, req'[v])
  BY <1>3 DEF Typed, Transacts
<1>4. QED
  BY <1>1, <1>2, <1>3 DEF Typed

\* Empty tables fit any schema.
LEMMA TypedStart ==
    ASSUME NEW schema, NEW workers, db = [t \in DOMAIN schema |-> Q!NoRows], seq = 1,
           req = [w \in workers |-> None]
    PROVE  Typed(schema, workers)
<1>1. \A t \in DOMAIN schema : DOMAIN db[t] = {}
  BY DEF Q!NoRows
<1>2. QED
  BY <1>1 DEF Typed, TypedRows

\* The writes that fit a table.
LEMMA TypedInsert ==
    ASSUME NEW table, NEW i \in DOMAIN table, NEW row \in Cols(table[i])
    PROVE  TypedWrite(table, i, Q!Insert(row))
BY InsertOp DEF TypedWrite

\* Deleting a row fits any schema.
LEMMA TypedDelete ==
    ASSUME NEW table, NEW i
    PROVE  TypedWrite(table, i, Q!Delete)
BY DeleteOp DEF TypedWrite

\* Assigning columns values of their types fits.
LEMMA TypedColumns ==
    ASSUME NEW table, NEW i, NEW cols,
           Fit(cols, table[i])
    PROVE  /\ TypedWrite(table, i, Q!Update(cols))
           /\ \A row : TypedWrite(table, i, Q!Assign(row, cols))
<1>1. TypedWrite(table, i, Q!Update(cols))
  <2>1. PICK write : write = Q!Update(cols) /\ write.op = "update" /\ write.cols = cols
    BY UpdateOp
  <2>2. QED
    BY <2>1 DEF TypedWrite
<1>2. ASSUME NEW row
      PROVE  TypedWrite(table, i, Q!Assign(row, cols))
  <2>1. PICK write : write = Q!Assign(row, cols)
    OBVIOUS
  <2>2. /\ write.op = "update" /\ DOMAIN write.cols = {c \in DOMAIN cols : cols[c] # row[c]}
        /\ \A c \in DOMAIN write.cols : write.cols[c] = cols[c]
    BY <2>1, AssignedColumns
  <2>3. QED
    BY <2>1, <2>2 DEF TypedWrite, Fit
<1>3. QED
  BY <1>1, <1>2

\* Writes to one table.
LEMMA TypedTable ==
    ASSUME NEW schema, NEW t \in DOMAIN schema, NEW ws, NEW changes,
           DOMAIN changes = {t}, changes[t] = ws,
           \A i \in DOMAIN ws : TypedWrite(schema[t], i, ws[i])
    PROVE  TypedChanges(schema, changes)
BY DEF TypedChanges

-------------------------------------------------------------------------------
(* Projects *)

ProjectColumns ==
    [status |-> J!ProjectStatus, priority |-> J!ProjectPriority, due_date |-> J!Date \cup {None},
     completed_at |-> BOOLEAN, actual_hours |-> 0..1]
ProjectSchema == [projects |-> [p \in 1..2 |-> ProjectColumns]]

\* The schema of projects is the row of the model's type.
LEMMA ProjectRows ==
    /\ DOMAIN ProjectSchema = {"projects"} /\ DOMAIN ProjectSchema.projects = 1..2
    /\ \A p \in 1..2 : ProjectSchema.projects[p] = ProjectColumns
    /\ Cols(ProjectColumns) = J!Project
<1>1. \A r : r \in Cols(ProjectColumns) <=> r \in J!Project
  BY InCols DEF ProjectColumns, J!Project
<1>2. QED
  BY <1>1 DEF ProjectSchema

\* Projects are committed and rolled back as Transacts says.
LEMMA ProjectTransacts ==
    ASSUME NEW schema, NEW w,
           \/ J!Commit(w) \/ J!Rollback(w)
           \/ \E changes : /\ TypedChanges(schema, changes)
                           /\ J!Hold(w, changes) \/ J!HoldNew(w, changes)
    PROVE  Transacts(schema, w)
<1>1. \A changes : J!AfterAll(changes) = Merged(changes)
  BY ProjectOps DEF J!AfterAll, Merged
<1>2. QED
  BY <1>1 DEF Transacts, J!Hold, J!HoldNew, J!Commit, J!CommitAs, J!Free, J!Rollback

\* Every handler of projects writes what fits.
LEMMA ProjectTyped ==
    ASSUME NEW w \in Alone, TypedRows(ProjectSchema, db), seq \in Nat \ {0},
           J!Create(w) \/ (\E p \in 1..2 : J!Change(w, p)) \/ J!Commit(w) \/ J!Rollback(w)
    PROVE  Transacts(ProjectSchema, w)
<1>1. PICK table : /\ table = ProjectSchema.projects /\ DOMAIN table = 1..2
                   /\ \A p \in 1..2 : table[p] = ProjectColumns
  BY ProjectRows
<1>2. ASSUME NEW p, NEW write, TypedWrite(table, p, write),
             \/ J!Hold(w, [projects |-> [i \in {p} |-> write]])
             \/ J!HoldNew(w, [projects |-> [i \in {p} |-> write]])
      PROVE  Transacts(ProjectSchema, w)
  <2>1. PICK changes : changes = [projects |-> [i \in {p} |-> write]]
    OBVIOUS
  <2>2. DOMAIN changes = {"projects"} /\ changes.projects = [i \in {p} |-> write]
    BY <2>1
  <2>3. TypedChanges(ProjectSchema, changes)
    BY <1>1, <1>2, <2>2, ProjectRows DEF TypedChanges
  <2>4. QED
    BY <1>2, <2>1, <2>3, ProjectTransacts
<1>3. ASSUME NEW priority \in J!ProjectPriority, NEW due \in J!Date \cup {None},
             J!CreateProject(w, priority, due)
      PROVE  Transacts(ProjectSchema, w)
  <2>1. PICK row : row = J!NewProject(priority, due)
    OBVIOUS
  <2>2. row \in J!Project
    BY <2>1 DEF J!NewProject, J!Project, J!ProjectStatus
  <2>3. seq \in 1..2
    BY <1>3 DEF J!CreateProject, J!HoldNew
  <2>4. QED
    BY <1>1, <1>2, <1>3, <2>1, <2>2, <2>3, TypedInsert, ProjectRows, ProjectOps DEF J!CreateProject
<1>4. ASSUME NEW p \in 1..2, NEW cols,
             Fit(cols, ProjectColumns),
             \/ J!Hold(w, [projects |-> [i \in {p} |-> J!Assign(db.projects[p], cols)]])
             \/ J!Hold(w, [projects |-> [i \in {p} |-> J!Update(cols)]])
      PROVE  Transacts(ProjectSchema, w)
  <2>1. PICK write : /\ write = J!Assign(db.projects[p], cols) \/ write = J!Update(cols)
                     /\ J!Hold(w, [projects |-> [i \in {p} |-> write]])
    BY <1>4
  <2>2. TypedWrite(table, p, write)
    BY <1>1, <1>4, <2>1, TypedColumns, ProjectOps
  <2>3. QED
    BY <1>2, <2>1, <2>2
<1>5. ASSUME NEW p \in 1..2, NEW status \in J!ProjectStatus, J!UpdateProjectStatus(w, p, status)
      PROVE  Transacts(ProjectSchema, w)
  <2>1. PICK done \in BOOLEAN : J!StatusChange(status) = [status |-> status, completed_at |-> done]
    BY Zenon DEF J!StatusChange
  <2> DEFINE cols == J!StatusChange(status)
  <2>2. Fit(cols, ProjectColumns)
    BY <2>1 DEF Fit, ProjectColumns
  <2>3. QED
    BY <1>4, <1>5, <2>2 DEF J!UpdateProjectStatus
<1>6. ASSUME NEW p \in 1..2, NEW hours \in 0..1,
             J!UpdateProject(w, p, [actual_hours |-> hours]) \/ J!AddHours(w, p, hours)
      PROVE  Transacts(ProjectSchema, w)
  <2>1. PICK new \in 0..1 : \/ J!UpdateProject(w, p, [actual_hours |-> new])
                            \/ J!Hold(w, [projects |-> [i \in {p} |-> J!Update([actual_hours |-> new])]])
    <3>1. ASSUME J!AddHours(w, p, hours)
          PROVE  /\ db.projects[p].actual_hours + hours \in 0..1
                 /\ J!Hold(w, [projects |-> [i \in {p} |->
                        J!Update([actual_hours |-> db.projects[p].actual_hours + hours])]])
      <4>1. p \in DOMAIN db.projects /\ db.projects[p].actual_hours + hours <= 1
        BY <3>1 DEF J!AddHours
      <4>2. db.projects[p] \in J!Project
        BY <4>1, ProjectRows DEF TypedRows
      <4>3. db.projects[p].actual_hours \in 0..1
        BY <4>2 DEF J!Project
      <4>4. QED
        BY <3>1, <4>1, <4>3 DEF J!AddHours
    <3>2. QED
      BY <1>6, <3>1
  <2>2. PICK cols : cols = [actual_hours |-> new]
    OBVIOUS
  <2>3. Fit(cols, ProjectColumns)
    BY <2>2 DEF Fit, ProjectColumns
  <2>4. QED
    BY <1>4, <2>1, <2>2, <2>3 DEF J!UpdateProject
<1>7. ASSUME NEW p \in 1..2, NEW priority \in J!ProjectPriority, J!UpdateProject(w, p, [priority |-> priority])
      PROVE  Transacts(ProjectSchema, w)
  <2>1. PICK cols : cols = [priority |-> priority]
    OBVIOUS
  <2>2. Fit(cols, ProjectColumns)
    BY <2>1 DEF Fit, ProjectColumns
  <2>3. QED
    BY <1>4, <1>7, <2>1, <2>2 DEF J!UpdateProject
<1>8. ASSUME NEW p, J!DeleteProject(w, p)
      PROVE  Transacts(ProjectSchema, w)
  BY <1>2, <1>8, TypedDelete, ProjectOps DEF J!DeleteProject
<1>9. {"medium"} \subseteq J!ProjectPriority
  BY DEF J!ProjectPriority
<1>10. QED
  BY <1>3, <1>5, <1>6, <1>7, <1>8, <1>9, ProjectTransacts DEF J!Create, J!Change

\* A due date that passes leaves rows of their types.
LEMMA ProjectComesDue ==
    ASSUME Typed(ProjectSchema, Alone), NEW p, J!ComesDue(p)
    PROVE  Typed(ProjectSchema, Alone)'
<1>1. PICK rows : rows = db.projects
  OBVIOUS
<1>2. PICK rows2 : rows2 = [rows EXCEPT ![p].due_date = "past"]
  OBVIOUS
<1>3. /\ UNCHANGED <<seq, req>> /\ p \in DOMAIN rows /\ db' = [db EXCEPT !.projects = rows2]
  BY <1>1, <1>2 DEF J!ComesDue
<1>4. DOMAIN db' = {"projects"} /\ db'.projects = rows2 /\ DOMAIN rows2 = DOMAIN rows
  BY <1>2, <1>3, ProjectRows DEF Typed, TypedRows
<1>5. \A i \in DOMAIN rows : i \in 1..2 /\ rows[i] \in J!Project
  BY <1>1, ProjectRows DEF Typed, TypedRows
<1>6. \A i \in DOMAIN rows2 : i \in 1..2 /\ rows2[i] \in J!Project
  BY <1>2, <1>5 DEF J!Project, J!Date
<1>7. TypedRows(ProjectSchema, db')
  BY <1>4, <1>6, ProjectRows DEF TypedRows
<1>8. QED
  BY <1>3, <1>7 DEF Typed

\* A step keeps projects typed.
LEMMA ProjectsTypedStep ==
    ASSUME part = "projects", Typed(ProjectSchema, Alone), MCNext
    PROVE  Typed(ProjectSchema, Alone)'
<1>1. J!Next
  BY DEF MCNext, RowsNext
<1>2. ASSUME NEW w \in Alone,
             J!Create(w) \/ (\E p \in 1..2 : J!Change(w, p)) \/ J!Commit(w) \/ J!Rollback(w)
      PROVE  Typed(ProjectSchema, Alone)'
  BY <1>2, ProjectTyped, TypedStep DEF Typed
<1>3. QED
  BY <1>1, <1>2, ProjectComesDue DEF J!Next

\* At first there are no projects.
LEMMA ProjectsTypedStart ==
    ASSUME part = "projects", MCInit
    PROVE  Typed(ProjectSchema, Alone)
<1>1. J!NoRows = Q!NoRows
  BY DEF J!NoRows, Q!NoRows
<1>2. db = [t \in DOMAIN ProjectSchema |-> Q!NoRows] /\ seq = 1 /\ req = [w \in Alone |-> None]
  BY <1>1, ProjectRows DEF MCInit, PartInit, J!Init, J!Start
<1>3. QED
  BY <1>2, TypedStart

\* Projects that fit the schema are typed.
LEMMA ProjectsTyped ==
    ASSUME Typed(ProjectSchema, Alone)
    PROVE  J!TypeOK
BY ProjectRows DEF Typed, TypedRows, J!TypeOK

\* Each project is in the list for its status, and the lists have no others in common.
LEMMA ProjectLists ==
    ASSUME Typed(ProjectSchema, Alone)
    PROVE  J!ListsAgree
<1> DEFINE rows == db.projects
           all == DOMAIN db.projects
           active == J!GetActiveProjects
           overdue == J!GetOverdueProjects
           completed == J!GetByStatus("completed")
           cancelled == J!GetByStatus("cancelled")
<1>1. \A p \in all : p \in 1..2 /\ rows[p] \in J!Project
  BY ProjectRows DEF Typed, TypedRows
<1>2. \A s : J!Cardinality(s) = Cardinality(s)
  BY Zenon DEF J!Cardinality, Cardinality
<1>3. /\ active \subseteq all /\ overdue \subseteq active /\ completed \subseteq all
      /\ cancelled \subseteq all /\ all = active \cup (completed \cup cancelled)
      /\ active \cap (completed \cup cancelled) = {} /\ completed \cap cancelled = {}
  BY DEF J!GetActiveProjects, J!GetOverdueProjects, J!GetByStatus, J!Closed
<1>4. IsFiniteSet(all)
  <2>1. IsFiniteSet(1..2)
    BY FS_Interval, 1 \in Int, 2 \in Int
  <2>2. all \subseteq 1..2
    BY <1>1
  <2>3. QED
    BY <2>1, <2>2, FS_Subset
<1>5. /\ IsFiniteSet(active) /\ IsFiniteSet(completed) /\ IsFiniteSet(cancelled)
      /\ IsFiniteSet(completed \cup cancelled)
  <2> HIDE DEF active, completed, cancelled, all
  <2>1. QED
    BY <1>3, <1>4, FS_Subset
<1>6. /\ Cardinality(all) = Cardinality(active) + Cardinality(completed) + Cardinality(cancelled)
      /\ Cardinality(overdue) <= Cardinality(active)
  <2> HIDE DEF active, overdue, completed, cancelled, all
  <2>1. /\ Cardinality(active \cup (completed \cup cancelled))
              = Cardinality(active) + Cardinality(completed \cup cancelled)
        /\ Cardinality(active) \in Nat
    BY <1>3, <1>5, Apart
  <2>2. /\ Cardinality(completed \cup cancelled) = Cardinality(completed) + Cardinality(cancelled)
        /\ Cardinality(completed) \in Nat /\ Cardinality(cancelled) \in Nat
    BY <1>3, <1>5, Apart
  <2>3. Cardinality(overdue) <= Cardinality(active)
    BY <1>3, <1>5, FS_Subset
  <2>4. QED
    BY <1>3, <2>1, <2>2, <2>3
<1>7. /\ J!ProjectStats.overdue = Cardinality(overdue) /\ J!ProjectStats.active = Cardinality(active)
      /\ J!ProjectStats.total = Cardinality(all)
      /\ J!ProjectStats.by_status["completed"] = Cardinality(completed)
      /\ J!ProjectStats.by_status["cancelled"] = Cardinality(cancelled)
  <2>1. \A s \in J!ProjectStatus : J!ProjectStats.by_status[s] = Cardinality(J!GetByStatus(s))
    BY <1>2 DEF J!ProjectStats, J!CountByStatus
  <2>2. {"completed", "cancelled"} \subseteq J!ProjectStatus
    BY DEF J!ProjectStatus
  <2>3. QED
    BY <1>2, <2>1, <2>2 DEF J!ProjectStats
<1>8. ASSUME NEW p \in all
      PROVE  /\ J!IsActive(rows[p]) <=> p \in active
             /\ J!IsActive(rows[p]) => (J!IsOverdue(rows[p]) <=> p \in overdue)
  BY DEF J!IsActive, J!IsOverdue, J!GetActiveProjects, J!GetOverdueProjects, J!Closed
<1>9. PICK a, b, c, d, e :
          /\ a \in Nat /\ b \in Nat /\ c \in Nat
          /\ J!ProjectStats.overdue = d /\ J!ProjectStats.active = a /\ J!ProjectStats.total = e
          /\ J!ProjectStats.by_status["completed"] = b
          /\ J!ProjectStats.by_status["cancelled"] = c
          /\ e = a + b + c /\ d <= a
  <2> HIDE DEF active, overdue, completed, cancelled, all
  <2>1. QED
    BY <1>5, <1>6, <1>7, FS_CardinalityType
<1>10. QED
  BY <1>8, <1>9 DEF J!ListsAgree

-------------------------------------------------------------------------------
(* Notification preferences *)

PreferenceColumns ==
    [channel_email |-> BOOLEAN, channel_slack |-> BOOLEAN, channel_in_app |-> BOOLEAN,
     frequency |-> N!NotificationFrequency, is_enabled |-> BOOLEAN]
On == {TRUE}
\* Those of the security category, whose e-mails cannot be turned off.
SecurityColumns ==
    [channel_email |-> On, channel_slack |-> BOOLEAN, channel_in_app |-> BOOLEAN,
     frequency |-> N!NotificationFrequency, is_enabled |-> On]
ColumnsFor(c) == IF c = "security" THEN SecurityColumns ELSE PreferenceColumns
Categories == {"security", "system"}
PreferenceSchema == [preferences |-> [k \in User \X Categories |-> ColumnsFor(k[2])]]

\* The schema of preferences has a row per user and category, of the model's type.
LEMMA PreferenceRows ==
    /\ DOMAIN PreferenceSchema = {"preferences"}
    /\ DOMAIN PreferenceSchema.preferences = User \X Categories
    /\ \A p \in User, c \in Categories : PreferenceSchema.preferences[<<p, c>>] = ColumnsFor(c)
    /\ \A c : \A r \in Cols(ColumnsFor(c)) :
           /\ r \in N!NotificationPreference
           /\ c = "security" => r.is_enabled /\ r.channel_email
<1>1. ASSUME NEW r \in Cols(PreferenceColumns) PROVE r \in N!NotificationPreference
  BY InCols DEF PreferenceColumns, N!NotificationPreference
<1>2. ASSUME NEW r \in Cols(SecurityColumns)
      PROVE  r \in N!NotificationPreference /\ r.is_enabled /\ r.channel_email
  <2>1. /\ r = [c \in DOMAIN r |-> r[c]]
        /\ DOMAIN r = DOMAIN SecurityColumns /\ \A c \in DOMAIN SecurityColumns : r[c] \in SecurityColumns[c]
    BY InCols
  <2>2. r.is_enabled /\ r.channel_email
    BY <2>1, Zenon DEF SecurityColumns, On
  <2>3. r \in N!NotificationPreference
    BY <2>1 DEF SecurityColumns, On, N!NotificationPreference
  <2>4. QED
    BY <2>2, <2>3
<1>3. QED
  BY <1>1, <1>2 DEF PreferenceSchema, ColumnsFor, Categories

\* Notification preferences write rows as Requests does.
LEMMA PreferenceOps ==
    /\ \A rows, ws : N!After(rows, ws) = Q!After(rows, ws)
    /\ \A row : N!Insert(row) = Q!Insert(row)
    /\ \A cols : N!Update(cols) = Q!Update(cols)
    /\ \A row, cols : N!Assign(row, cols) = Q!Assign(row, cols)
    /\ \A row, write : N!Written(row, write) = Q!Written(row, write)
    /\ N!Delete = Q!Delete
BY DEF N!After, Q!After, N!Written, Q!Written, N!Insert, Q!Insert, N!Update, Q!Update,
       N!Assign, Q!Assign, N!Delete, Q!Delete

\* Preferences are committed and rolled back as Transacts says.
LEMMA PreferenceTransacts ==
    ASSUME NEW schema, NEW w, seq \in Nat,
           \/ N!Commit(w) \/ N!Rollback(w)
           \/ \E changes : TypedChanges(schema, changes) /\ N!Hold(w, changes)
    PROVE  Transacts(schema, w)
<1>1. \A changes : N!AfterAll(changes) = Merged(changes)
  BY PreferenceOps DEF N!AfterAll, Merged
<1>2. QED
  BY <1>1 DEF Transacts, N!Hold, N!Commit, N!CommitAs, N!Free, N!Rollback

\* The defaults of a category, and any choice that is allowed for it.
LEMMA PreferenceValues ==
    ASSUME NEW c \in Categories
    PROVE  /\ N!DEFAULT_PREFERENCES[c] \in Cols(ColumnsFor(c))
           /\ \A cols \in Choices : N!Allowed(c, cols) => Fit(cols, ColumnsFor(c))
<1>1. N!DEFAULT_PREFERENCES[c] \in Cols(ColumnsFor(c))
  <2>1. PICK yes \in On, no \in BOOLEAN :
            N!DEFAULT_PREFERENCES[c] =
                [channel_email |-> yes, channel_slack |-> no, channel_in_app |-> yes,
                 frequency |-> IF c = "system" THEN "daily_digest" ELSE "immediate",
                 is_enabled |-> yes]
    <3>1. c \in N!NotificationCategory
      BY DEF N!NotificationCategory, Categories
    <3>2. QED
      BY <3>1, Zenon DEF N!DEFAULT_PREFERENCES, On
  <2>2. PICK row, f : /\ row = N!DEFAULT_PREFERENCES[c] /\ f \in N!NotificationFrequency
                      /\ row = [channel_email |-> yes, channel_slack |-> no,
                                channel_in_app |-> yes, frequency |-> f, is_enabled |-> yes]
    BY <2>1 DEF N!NotificationFrequency
  <2>3. yes \in BOOLEAN
    BY Zenon DEF On
  <2>4. row \in Cols(SecurityColumns)
    BY <2>2, <2>3, InCols DEF SecurityColumns
  <2>5. row \in Cols(PreferenceColumns)
    BY <2>2, <2>3, InCols DEF PreferenceColumns
  <2>6. QED
    BY <2>2, <2>4, <2>5 DEF ColumnsFor
<1>2. ASSUME NEW cols \in Choices, N!Allowed(c, cols)
      PROVE  Fit(cols, ColumnsFor(c))
  <2>1. PICK b \in BOOLEAN :
            cols \in {[is_enabled |-> b], [channel_email |-> b], [frequency |-> "none"],
                     [frequency |-> "immediate", channel_slack |-> b]}
    <3>1. CASE cols = [is_enabled |-> FALSE]
      BY <3>1, Zenon
    <3>2. CASE cols = [is_enabled |-> TRUE]
      BY <3>2, Zenon
    <3>3. CASE cols = [channel_email |-> FALSE]
      BY <3>3, Zenon
    <3>4. CASE cols = [frequency |-> "none"]
      BY <3>4, Zenon
    <3>5. CASE cols = [frequency |-> "immediate", channel_slack |-> TRUE]
      BY <3>5, Zenon
    <3>6. QED
      BY <3>1, <3>2, <3>3, <3>4, <3>5, Zenon DEF Choices
  <2>2. Fit(cols, PreferenceColumns)
    BY <2>1 DEF Fit, PreferenceColumns, N!NotificationFrequency
  <2>3. ASSUME c = "security" PROVE Fit(cols, SecurityColumns)
    <3>1. ASSUME cols = [is_enabled |-> b] \/ cols = [channel_email |-> b] PROVE b \in On
      <4>1. CASE cols = [is_enabled |-> b]
        BY <1>2, <2>3, <4>1, Zenon DEF N!Allowed, On
      <4>2. CASE cols = [channel_email |-> b]
        BY <1>2, <2>3, <4>2, Zenon DEF N!Allowed, On
      <4>3. QED
        BY <3>1, <4>1, <4>2
    <3>2. QED
      BY <2>1, <3>1 DEF Fit, SecurityColumns, N!NotificationFrequency
  <2>4. QED
    BY <2>2, <2>3 DEF ColumnsFor
<1>3. QED
  BY <1>1, <1>2

\* Every handler of preferences writes what fits.
LEMMA PreferenceTyped ==
    ASSUME NEW w \in Alone, seq \in Nat \ {0}, TypedRows(PreferenceSchema, db),
           \/ \E p \in User :
                  \/ N!CreateDefaultPreferences(w, p) \/ N!DeleteUserPreferences(w, p)
                  \/ \E c \in Categories :
                         \/ N!ReadPreference(w, p, c)
                         \/ \E cols \in Choices :
                                \/ N!UpdatePreference(w, p, c, cols)
                                \/ \E d \in Categories, other \in Choices :
                                       N!UpdateAllPreferences(w, p, c, cols, d, other)
           \/ N!Commit(w) \/ N!Rollback(w)
    PROVE  Transacts(PreferenceSchema, w)
<1>1. PICK table : /\ table = PreferenceSchema.preferences /\ DOMAIN table = User \X Categories
                   /\ \A p \in User, c \in Categories : table[<<p, c>>] = ColumnsFor(c)
  BY PreferenceRows
<1>2. ASSUME NEW ws, \A k \in DOMAIN ws : TypedWrite(table, k, ws[k]),
             N!Hold(w, [preferences |-> ws])
      PROVE  Transacts(PreferenceSchema, w)
  <2>1. PICK changes : changes = [preferences |-> ws]
    OBVIOUS
  <2>2. DOMAIN changes = {"preferences"} /\ changes.preferences = ws
    BY <2>1
  <2>3. TypedChanges(PreferenceSchema, changes)
    BY <1>1, <1>2, <2>2, PreferenceRows DEF TypedChanges
  <2>4. QED
    BY <1>2, <2>1, <2>3, PreferenceTransacts
<1>3. ASSUME NEW p \in User, NEW c \in Categories, NEW write,
             write = N!Insert(N!DEFAULT_PREFERENCES[c])
      PROVE  TypedWrite(table, <<p, c>>, write)
  <2>1. table[<<p, c>>] = ColumnsFor(c) /\ <<p, c>> \in DOMAIN table
    BY <1>1
  <2>2. QED
    BY <1>3, <2>1, TypedInsert, PreferenceValues, PreferenceOps
<1>4. ASSUME NEW p \in User, NEW c \in Categories, NEW cols \in Choices, N!Allowed(c, cols),
             NEW k \in DOMAIN N!Set(p, c, cols)
      PROVE  TypedWrite(table, k, N!Set(p, c, cols)[k])
  <2>1. k = <<p, c>> /\ table[k] = ColumnsFor(c) /\ k \in DOMAIN table
    BY <1>1 DEF N!Set
  <2>2. PICK write : write = N!Set(p, c, cols)[k]
    OBVIOUS
  <2>3. Fit(cols, table[k]) /\ N!DEFAULT_PREFERENCES[c] \in Cols(table[k])
    BY <1>4, <2>1, PreferenceValues
  <2>4. CASE write = N!Assign(db.preferences[k], cols)
    BY <2>2, <2>3, <2>4, TypedColumns, PreferenceOps
  <2>5. CASE write = N!Insert(N!Written(N!DEFAULT_PREFERENCES[c], N!Update(cols)))
    <3>1. PICK u : u = N!Update(cols) /\ u.op = "update" /\ TypedWrite(table, k, u)
      BY <2>3, TypedColumns, PreferenceOps, UpdateOp
    <3>2. Q!Written(N!DEFAULT_PREFERENCES[c], u) \in Cols(table[k])
      BY <2>3, <3>1, WrittenTyped
    <3>3. QED
      BY <2>1, <2>2, <2>5, <3>1, <3>2, TypedInsert, PreferenceOps
  <2>6. QED
    BY <2>1, <2>2, <2>4, <2>5 DEF N!Set
<1>5. ASSUME NEW p \in User, N!CreateDefaultPreferences(w, p)
      PROVE  Transacts(PreferenceSchema, w)
  <2>1. PICK ws : ws = [k \in {p} \X Categories |-> N!Insert(N!DEFAULT_PREFERENCES[k[2]])]
    OBVIOUS
  <2>2. ASSUME NEW k \in DOMAIN ws PROVE TypedWrite(table, k, ws[k])
    <3>1. PICK c \in Categories : k = <<p, c>> /\ ws[k] = N!Insert(N!DEFAULT_PREFERENCES[c])
      BY <2>1
    <3>2. QED
      BY <1>3, <3>1
  <2>3. QED
    BY <1>2, <1>5, <2>1, <2>2 DEF N!CreateDefaultPreferences, Categories
<1>6. ASSUME NEW p \in User, N!DeleteUserPreferences(w, p)
      PROVE  Transacts(PreferenceSchema, w)
  <2>1. PICK ks : ks = {k \in DOMAIN db.preferences : k[1] = p}
    OBVIOUS
  <2>2. PICK ws : ws = N!Each(ks, N!Delete) /\ ws = [k \in ks |-> Q!Delete]
    BY PreferenceOps DEF N!Each
  <2>3. \A k \in DOMAIN ws : TypedWrite(table, k, ws[k])
    BY <2>2, TypedDelete
  <2>4. QED
    BY <1>2, <1>6, <2>1, <2>2, <2>3 DEF N!DeleteUserPreferences
<1>7. ASSUME NEW p \in User, NEW c \in Categories, N!ReadPreference(w, p, c)
      PROVE  Transacts(PreferenceSchema, w)
  <2>1. PICK ws : ws = [k \in {<<p, c>>} |-> N!Insert(N!DEFAULT_PREFERENCES[c])]
    OBVIOUS
  <2>2. \A k \in DOMAIN ws : TypedWrite(table, k, ws[k])
    BY <1>3, <2>1
  <2>3. QED
    BY <1>2, <1>7, <2>1, <2>2 DEF N!ReadPreference
<1>8. ASSUME NEW p \in User, NEW c \in Categories, NEW cols \in Choices,
             N!UpdatePreference(w, p, c, cols)
      PROVE  Transacts(PreferenceSchema, w)
  BY <1>2, <1>4, <1>8 DEF N!UpdatePreference
<1>9. ASSUME NEW p \in User, NEW c \in Categories, NEW cols \in Choices,
             NEW d \in Categories, NEW other \in Choices,
             N!UpdateAllPreferences(w, p, c, cols, d, other)
      PROVE  Transacts(PreferenceSchema, w)
  <2>1. PICK ws : ws = N!Set(p, c, cols)
    OBVIOUS
  <2>2. PICK xs : xs = N!Set(p, d, other)
    OBVIOUS
  <2>3. /\ N!Hold(w, [preferences |-> N!Both(ws, xs)])
        /\ \A k \in DOMAIN ws : TypedWrite(table, k, ws[k])
        /\ \A k \in DOMAIN xs : TypedWrite(table, k, xs[k])
    BY <1>4, <1>9, <2>1, <2>2 DEF N!UpdateAllPreferences
  <2>4. PICK both : both = N!Both(ws, xs) /\ \A k \in DOMAIN both : TypedWrite(table, k, both[k])
    BY <2>3 DEF N!Both
  <2>5. QED
    BY <1>2, <2>3, <2>4
<1>10. QED
  BY <1>5, <1>6, <1>7, <1>8, <1>9, PreferenceTransacts

\* A step keeps preferences typed.
LEMMA PreferencesTypedStep ==
    ASSUME part = "preferences", Typed(PreferenceSchema, Alone), MCNext
    PROVE  Typed(PreferenceSchema, Alone)'
<1>1. N!Next
  BY DEF MCNext, RowsNext
<1>2. PICK w \in Alone : Transacts(PreferenceSchema, w)
  BY <1>1, PreferenceTyped DEF N!Next, Typed, Categories
<1>3. QED
  BY <1>2, TypedStep

\* At first no preference is stored.
LEMMA PreferencesTypedStart ==
    ASSUME part = "preferences", MCInit
    PROVE  Typed(PreferenceSchema, Alone)
<1>1. N!NoRows = Q!NoRows
  BY DEF N!NoRows, Q!NoRows
<1>2. db = [t \in DOMAIN PreferenceSchema |-> Q!NoRows] /\ seq = 1 /\ req = [w \in Alone |-> None]
  BY <1>1, PreferenceRows DEF MCInit, PartInit, N!Init, N!Start
<1>3. QED
  BY <1>2, TypedStart

\* Preferences that fit the schema are typed.
LEMMA PreferencesTyped ==
    ASSUME Typed(PreferenceSchema, Alone)
    PROVE  N!TypeOK
<1>1. ASSUME NEW k \in DOMAIN db.preferences
      PROVE  k \in User \X Categories /\ db.preferences[k] \in N!NotificationPreference
  <2>1. k \in User \X Categories /\ db.preferences[k] \in Cols(ColumnsFor(k[2]))
    BY PreferenceRows DEF Typed, TypedRows
  <2>2. QED
    BY <2>1, PreferenceRows
<1>2. QED
  BY <1>1 DEF N!TypeOK, Categories

\* What a user is shown is what decides, in every category and channel.
LEMMA PreferencesShown ==
    ASSUME Typed(PreferenceSchema, Alone)
    PROVE  N!ShownIsUsed
<1>1. SUFFICES ASSUME NEW p \in User, NEW c \in Categories
               PROVE  /\ c = "security" => N!Shown(p)[c].is_enabled /\ N!Shown(p)[c].channel_email
                      /\ \A channel \in N!NotificationChannel :
                             N!ShouldNotify(p, c, channel) = N!ShouldSend(c, N!Shown(p)[c], channel)
  BY DEF N!ShownIsUsed, Categories
<1>2. PICK row : row = N!Preference(p, c)
  OBVIOUS
<1>3. N!Shown(p)[c] = row
  BY <1>2 DEF N!Shown, Categories
<1>4. row \in Cols(ColumnsFor(c))
  <2>1. <<p, c>> \in DOMAIN db.preferences => db.preferences[<<p, c>>] \in Cols(ColumnsFor(c))
    BY PreferenceRows DEF Typed, TypedRows
  <2>2. QED
    BY <1>2, <2>1, PreferenceValues DEF N!Preference, N!HasRow
<1>5. row \in N!NotificationPreference /\ (c = "security" => row.is_enabled /\ row.channel_email)
  BY <1>4, PreferenceRows
<1>6. ASSUME NEW channel \in N!NotificationChannel
      PROVE  N!ShouldNotify(p, c, channel) = N!ShouldSend(c, row, channel)
  <2>1. row[channel] \in BOOLEAN /\ row.is_enabled \in BOOLEAN
    BY <1>5 DEF N!NotificationPreference, N!NotificationChannel
  <2>2. QED
    BY <1>2, <2>1, Zenon DEF N!ShouldNotify, N!ShouldSend
<1>7. QED
  BY <1>3, <1>5, <1>6

-------------------------------------------------------------------------------
(* The activity feed *)

\* What of a feed comes after the first events.
Rest(feed, skip) == SubSeq(feed, skip + 1, Len(feed))

\* A part of a sequence is a sequence of the same elements.
LEMMA Part ==
    ASSUME NEW T1, NEW s \in Seq(T1), NEW m \in Nat, NEW n \in Nat, m <= n, n <= Len(s)
    PROVE  /\ SubSeq(s, m + 1, n) \in Seq(T1) /\ Len(SubSeq(s, m + 1, n)) = n - m
           /\ \A i \in 1..(n - m) : SubSeq(s, m + 1, n)[i] = s[m + i]
<1>1. \A i \in (m + 1)..n : i \in 1..Len(s)
  OBVIOUS
<1>2. QED
  BY <1>1

\* Two sequences appended are the sequence with the elements of both in order.
LEMMA SameSequence ==
    ASSUME NEW T1, NEW a \in Seq(T1), NEW b \in Seq(T1), NEW c \in Seq(T1),
           Len(c) = Len(a) + Len(b), \A i \in 1..Len(a) : c[i] = a[i],
           \A i \in 1..Len(b) : c[Len(a) + i] = b[i]
    PROVE  a \o b = c
<1>1. a \o b \in Seq(T1) /\ Len(a \o b) = Len(c)
  OBVIOUS
<1>2. PICK ab : ab = a \o b /\ ab \in Seq(T1) /\ Len(ab) = Len(c)
  BY <1>1
<1>3. ASSUME NEW i \in 1..Len(c) PROVE ab[i] = c[i]
  <2>1. CASE i <= Len(a)
    BY <1>2, <2>1
  <2>2. CASE i > Len(a)
    <3>1. PICK j : j = i - Len(a)
      OBVIOUS
    <3>2. j \in 1..Len(b) /\ i = Len(a) + j
      BY <2>2, <3>1
    <3>3. c[i] = b[j]
      BY <3>2
    <3>4. ab[i] = b[j]
      BY <1>2, <3>2
    <3>5. QED
      BY <3>3, <3>4
  <2>3. QED
    BY <2>1, <2>2
<1>4. QED
  BY <1>2, <1>3

\* A page holds the events from skip on, up to the limit, and says whether there are more.
LEMMA PageIs ==
    ASSUME NEW T1, NEW feed \in Seq(T1), NEW skip \in Nat, NEW limit \in Nat \ {0}
    PROVE  LET page == F!Page(feed, skip, limit)
           IN  IF skip + limit < Len(feed)
               THEN page.has_more /\ page.items = SubSeq(feed, skip + 1, skip + limit)
               ELSE ~page.has_more /\ page.items = Rest(feed, skip)
<1>1. PICK rows : rows = F!Rows(feed, skip, limit + 1)
  OBVIOUS
<1>2. PICK last \in Nat : last = IF skip + (limit + 1) < Len(feed) THEN skip + (limit + 1) ELSE Len(feed)
  OBVIOUS
<1>3. rows = SubSeq(feed, skip + 1, last)
  BY <1>1, <1>2 DEF F!Rows
<1>4. rows \in Seq(T1) /\ Len(rows) = (IF skip < last THEN last - skip ELSE 0)
      /\ \A i \in 1..Len(rows) : rows[i] = feed[skip + i]
  BY <1>2, <1>3
<1>5. PICK items : items = SubSeq(rows, 1, IF Len(rows) > limit THEN limit ELSE Len(rows))
  OBVIOUS
<1>6. PICK more : more = (Len(rows) > limit)
  BY Zenon
<1>7. PICK page : page = F!Page(feed, skip, limit)
  OBVIOUS
<1>8. page.items = items /\ (page.has_more <=> Len(rows) > limit)
  <2>1. F!Page(feed, skip, limit) = [items |-> items, has_more |-> Len(rows) > limit]
    BY <1>1, <1>5, Zenon DEF F!Page
  <2>2. page = [items |-> items, has_more |-> more]
    BY <1>6, <1>7, <2>1, Zenon
  <2>3. page.items = items /\ page.has_more = more
    BY <2>2
  <2>4. QED
    BY <1>6, <2>3, Zenon
<1>9. CASE skip + limit < Len(feed)
  <2>1. Len(rows) > limit
    BY <1>2, <1>4, <1>9
  <2>2. items = SubSeq(feed, skip + 1, skip + limit)
    BY <1>2, <1>4, <1>5, <1>9, <2>1
  <2>3. QED
    BY <1>7, <1>8, <1>9, <2>1, <2>2
<1>10. CASE ~(skip + limit < Len(feed))
  <2>1. Len(rows) <= limit /\ last = Len(feed)
    BY <1>2, <1>4, <1>10
  <2>2. items = rows
    BY <1>4, <1>5, <2>1
  <2>3. QED
    BY <1>3, <1>7, <1>8, <1>10, <2>1, <2>2 DEF Rest
<1>11. QED
  BY <1>9, <1>10

\* What ReadAll reads from some event on.
Reads(g, feed, limit) ==
    g = [skip \in Nat |->
            LET page == F!Page(feed, skip, limit)
            IN  page.items \o (IF page.has_more THEN g[skip + limit] ELSE <<>>)]

\* A page and what is read after it are what is read from the page's start.
LEMMA OnePage ==
    ASSUME NEW T1, NEW feed \in Seq(T1), NEW limit \in Nat \ {0}, NEW skip \in Nat, NEW g,
           skip + limit < Len(feed) => g[skip + limit] = Rest(feed, skip + limit)
    PROVE  LET page == F!Page(feed, skip, limit)
           IN  page.items \o (IF page.has_more THEN g[skip + limit] ELSE <<>>) = Rest(feed, skip)
<1>1. PICK page : page = F!Page(feed, skip, limit)
  OBVIOUS
<1>2. CASE skip + limit < Len(feed)
  <2>1. PICK a, b, c : /\ a = SubSeq(feed, skip + 1, skip + limit)
                       /\ b = SubSeq(feed, skip + limit + 1, Len(feed))
                       /\ c = SubSeq(feed, skip + 1, Len(feed))
    OBVIOUS
  <2>2. a \in Seq(T1) /\ Len(a) = limit /\ \A i \in 1..limit : a[i] = feed[skip + i]
    <3>1. PICK n \in Nat : n = skip + limit
      OBVIOUS
    <3>2. skip <= n /\ n <= Len(feed) /\ n - skip = limit /\ a = SubSeq(feed, skip + 1, n)
      BY <1>2, <2>1, <3>1
    <3>3. /\ SubSeq(feed, skip + 1, n) \in Seq(T1) /\ Len(SubSeq(feed, skip + 1, n)) = n - skip
          /\ \A i \in 1..(n - skip) : SubSeq(feed, skip + 1, n)[i] = feed[skip + i]
      BY <3>2, Part, SMTT(30)
    <3>4. QED
      BY <3>2, <3>3
  <2>3. ASSUME NEW start \in Nat, start <= Len(feed), NEW d, d = SubSeq(feed, start + 1, Len(feed))
        PROVE  /\ d \in Seq(T1) /\ Len(d) = Len(feed) - start
               /\ \A i \in 1..Len(d) : d[i] = feed[start + i]
    <3>1. PICK n \in Nat : n = Len(feed)
      OBVIOUS
    <3>2. /\ SubSeq(feed, start + 1, n) \in Seq(T1) /\ Len(SubSeq(feed, start + 1, n)) = n - start
          /\ \A i \in 1..(n - start) : SubSeq(feed, start + 1, n)[i] = feed[start + i]
      BY <2>3, <3>1, Part
    <3>3. QED
      BY <2>3, <3>1, <3>2
  <2>4. /\ a \in Seq(T1) /\ Len(a) = limit /\ \A i \in 1..limit : a[i] = feed[skip + i]
        /\ b \in Seq(T1) /\ Len(b) = Len(feed) - skip - limit
        /\ \A i \in 1..Len(b) : b[i] = feed[skip + limit + i]
        /\ c \in Seq(T1) /\ Len(c) = Len(feed) - skip /\ \A i \in 1..Len(c) : c[i] = feed[skip + i]
    <3>1. skip + limit \in Nat /\ skip + limit <= Len(feed) /\ skip <= Len(feed)
      BY <1>2
    <3>2. /\ b \in Seq(T1) /\ Len(b) = Len(feed) - (skip + limit)
          /\ \A i \in 1..Len(b) : b[i] = feed[skip + limit + i]
      BY <2>1, <2>3, <3>1
    <3>3. c \in Seq(T1) /\ Len(c) = Len(feed) - skip /\ \A i \in 1..Len(c) : c[i] = feed[skip + i]
      BY <2>1, <2>3, <3>1
    <3>4. QED
      BY <2>2, <3>2, <3>3
  <2>5. Len(c) = Len(a) + Len(b) /\ \A i \in 1..Len(a) : c[i] = a[i]
    BY <1>2, <2>4
  <2>6. ASSUME NEW i \in 1..Len(b) PROVE c[Len(a) + i] = b[i]
    <3>1. limit + i \in 1..Len(c) /\ skip + (limit + i) = skip + limit + i
      BY <1>2, <2>4
    <3>2. c[limit + i] = feed[skip + (limit + i)]
      BY <2>4, <3>1
    <3>3. QED
      BY <2>4, <3>1, <3>2
  <2>7. a \o b = c
    BY <2>4, <2>5, <2>6, SameSequence
  <2>8. a \o Rest(feed, skip + limit) = Rest(feed, skip)
    BY <2>1, <2>7 DEF Rest
  <2>9. QED
    BY <1>1, <1>2, <2>1, <2>8, PageIs
<1>3. CASE ~(skip + limit < Len(feed))
  <2>1. Rest(feed, skip) \o <<>> = Rest(feed, skip)
    BY DEF Rest
  <2>2. QED
    BY <1>1, <1>3, <2>1, PageIs
<1>4. QED
  BY <1>2, <1>3

\* Reading page after page until there is no more reads the whole feed.
LEMMA AllIsRead ==
    ASSUME NEW T1, NEW feed \in Seq(T1), NEW limit \in Nat \ {0}
    PROVE  F!ReadAll(feed, limit) = feed
<1>1. \E g : Reads(g, feed, limit)
  <2>1. PICK g : g = [skip \in Nat |-> Rest(feed, skip)]
    OBVIOUS
  <2>2. ASSUME NEW skip \in Nat
        PROVE  g[skip] = LET page == F!Page(feed, skip, limit)
                         IN  page.items \o (IF page.has_more THEN g[skip + limit] ELSE <<>>)
    <3>1. g[skip] = Rest(feed, skip) /\ g[skip + limit] = Rest(feed, skip + limit)
      BY <2>1
    <3>2. QED
      BY <3>1, OnePage
  <2>3. g = [skip \in Nat |->
                LET page == F!Page(feed, skip, limit)
                IN  page.items \o (IF page.has_more THEN g[skip + limit] ELSE <<>>)]
    BY <2>1, <2>2
  <2>4. QED
    BY <2>3 DEF Reads
<1>2. ASSUME NEW g, Reads(g, feed, limit)
      PROVE  g[0] = feed
  <2> DEFINE Missed == {n \in Nat : n < Len(feed) /\ g[Len(feed) - n - 1] # Rest(feed, Len(feed) - n - 1)}
  <2>1. ASSUME NEW skip \in Nat, skip + limit < Len(feed) => g[skip + limit] = Rest(feed, skip + limit)
        PROVE  g[skip] = Rest(feed, skip)
    BY <1>2, <2>1, OnePage DEF Reads
  <2>2. Missed = {}
    <3>1. SUFFICES ASSUME Missed # {} PROVE FALSE
      OBVIOUS
    <3>2. PICK m \in Missed : \A n \in Missed : m <= n
      BY <3>1, Least
    <3>3. PICK skip \in Nat : skip = Len(feed) - m - 1 /\ g[skip] # Rest(feed, skip)
      BY <3>2
    <3>4. ASSUME skip + limit < Len(feed) PROVE g[skip + limit] = Rest(feed, skip + limit)
      <4>1. PICK n \in Nat : n = m - limit /\ n < m
        BY <3>2, <3>3, <3>4
      <4>2. n \notin Missed /\ n < Len(feed) /\ Len(feed) - n - 1 = skip + limit
        BY <3>2, <3>3, <4>1
      <4>3. QED
        BY <4>2
    <3>5. QED
      BY <2>1, <3>3, <3>4
  <2>3. ASSUME NEW skip \in Nat, skip < Len(feed) PROVE g[skip] = Rest(feed, skip)
    <3>1. PICK n : n = Len(feed) - skip - 1
      OBVIOUS
    <3>2. n \in Nat /\ n < Len(feed) /\ Len(feed) - n - 1 = skip
      BY <2>3, <3>1
    <3>3. QED
      BY <2>2, <3>2
  <2>4. g[0] = Rest(feed, 0)
    BY <2>1, <2>3
  <2>5. QED
    BY <2>4 DEF Rest
<1>3. PICK h : h = CHOOSE g : Reads(g, feed, limit)
  OBVIOUS
<1>4. Reads(h, feed, limit)
  BY <1>1, <1>3, Zenon
<1>5. F!ReadAll(feed, limit) = h[0]
  BY <1>3, Zenon DEF F!ReadAll, Reads
<1>6. QED
  BY <1>2, <1>4, <1>5

\* A finite set of numbers can be listed from the greatest to the least.
Listing(f, s) ==
    f \in [1..Cardinality(s) -> s] /\ \A i, j \in DOMAIN f : i < j => f[i] > f[j]

\* A finite set of ids can be listed from the greatest to the least.
LEMMA Listed ==
    ASSUME NEW S1 \in SUBSET Nat, IsFiniteSet(S1)
    PROVE  \E f : Listing(f, S1)
<1> DEFINE Sizes == {n \in Nat : \E s \in SUBSET S1 : Cardinality(s) = n /\ ~ \E f : Listing(f, s)}
<1>1. SUFFICES ASSUME ~ \E f : Listing(f, S1) PROVE FALSE
  OBVIOUS
<1>2. \A s \in SUBSET S1 : IsFiniteSet(s) /\ Cardinality(s) \in Nat
  BY FS_Subset, FS_CardinalityType
<1>3. Cardinality(S1) \in Sizes
  BY <1>1, <1>2
<1>4. PICK m \in Sizes : \A n \in Sizes : m <= n
  BY <1>3, Least
<1>5. PICK s \in SUBSET S1 : Cardinality(s) = m /\ ~ \E f : Listing(f, s)
  BY <1>4
<1>6. s # {}
  <2>1. SUFFICES ASSUME s = {} PROVE FALSE
    OBVIOUS
  <2>2. Listing([i \in 1..0 |-> 0], {})
    BY FS_EmptySet DEF Listing
  <2>3. QED
    BY <1>5, <2>1, <2>2
<1>7. PICK x \in s : \A y \in s : y <= x
  BY <1>2, <1>6, Extremes
<1>8. PICK rest : rest = s \ {x}
  OBVIOUS
<1>9. rest \in SUBSET S1 /\ Cardinality(rest) = m - 1 /\ m - 1 \in Nat
  <2>1. m # 0
    BY <1>2, <1>5, <1>6, FS_EmptySet
  <2>2. Cardinality(rest) = m - 1
    BY <1>2, <1>5, <1>7, <1>8, FS_RemoveElement
  <2>3. QED
    BY <1>8, <2>1, <2>2
<1>10. PICK f : Listing(f, rest)
  BY <1>4, <1>9
<1>11. PICK g : g = [i \in 1..m |-> IF i = 1 THEN x ELSE f[i - 1]]
  OBVIOUS
<1>12. /\ DOMAIN f = 1..(m - 1) /\ \A i \in 1..(m - 1) : f[i] \in s /\ f[i] # x /\ f[i] \in Nat
       /\ \A i, j \in 1..(m - 1) : i < j => f[i] > f[j]
  BY <1>8, <1>9, <1>10 DEF Listing
<1>13. \A i \in 1..m : g[i] \in s
  BY <1>7, <1>9, <1>11, <1>12
<1>14. ASSUME NEW i \in 1..m, NEW j \in 1..m, i < j
       PROVE  g[i] > g[j]
  <2>1. j - 1 \in 1..(m - 1) /\ g[j] = f[j - 1]
    BY <1>9, <1>11, <1>14
  <2>2. CASE i = 1
    BY <1>7, <1>11, <1>12, <2>1, <2>2
  <2>3. CASE i # 1
    <3>1. i - 1 \in 1..(m - 1) /\ g[i] = f[i - 1] /\ i - 1 < j - 1
      BY <1>9, <1>11, <1>14, <2>3
    <3>2. QED
      BY <1>12, <2>1, <3>1
  <2>4. QED
    BY <2>2, <2>3
<1>15. Listing(g, s)
  BY <1>5, <1>11, <1>13, <1>14 DEF Listing
<1>16. QED
  BY <1>5, <1>15

\* The feed lists its events, the newest first.
LEMMA NewestFirst ==
    ASSUME NEW S1 \in SUBSET Nat, IsFiniteSet(S1)
    PROVE  F!Newest(S1) \in Seq(S1) /\ Listing(F!Newest(S1), S1)
<1>1. \A s : F!Cardinality(s) = Cardinality(s)
  BY Zenon DEF F!Cardinality, Cardinality
<1>2. PICK f : f = F!Newest(S1)
  OBVIOUS
<1>3. f = CHOOSE feed \in [1..Cardinality(S1) -> S1] :
              \A i, j \in DOMAIN feed : i < j => feed[i] > feed[j]
  BY <1>1, <1>2 DEF F!Newest
<1>4. Listing(f, S1)
  BY <1>3, Listed DEF Listing
<1>5. Cardinality(S1) \in Nat
  BY FS_CardinalityType
<1>6. f \in Seq(S1)
  BY <1>4, <1>5 DEF Listing
<1>7. QED
  BY <1>2, <1>4, <1>6

\* Every feed is a list of events.
LEMMA FeedListed ==
    ASSUME DOMAIN db.events \subseteq 1..2, NEW p, NEW feed \in F!Feeds(p)
    PROVE  \E ids \in SUBSET Nat : feed \in Seq(ids)
<1>1. PICK events : events = DOMAIN db.events
  OBVIOUS
<1>2. ASSUME NEW ids, ids \subseteq events
      PROVE  \E s \in SUBSET Nat : F!Newest(ids) \in Seq(s)
  <2>1. IsFiniteSet(1..2)
    BY FS_Interval, 1 \in Int, 2 \in Int
  <2>2. ids \in SUBSET Nat /\ ids \subseteq 1..2
    BY <1>1, <1>2
  <2>3. QED
    BY <2>1, <2>2, FS_Subset, NewestFirst
<1>3. PICK ids : ids \subseteq events /\ feed = F!Newest(ids)
  <2>1. ASSUME NEW b, feed = F!OrgFeed(b) PROVE \E ids : ids \subseteq events /\ feed = F!Newest(ids)
    BY <1>1, <2>1 DEF F!OrgFeed
  <2>2. ASSUME NEW b, feed = F!UserFeed(p, b) PROVE \E ids : ids \subseteq events /\ feed = F!Newest(ids)
    BY <1>1, <2>2 DEF F!UserFeed
  <2>3. ASSUME NEW e, NEW b, feed = F!EntityFeed(e, b)
        PROVE  \E ids : ids \subseteq events /\ feed = F!Newest(ids)
    BY <1>1, <2>3 DEF F!EntityFeed
  <2>4. QED
    BY <2>1, <2>2, <2>3 DEF F!Feeds
<1>4. QED
  BY <1>2, <1>3

EventColumns ==
    [actor |-> User, entity |-> {"project", "ticket"}, parent |-> {"project", "ticket", None},
     is_public |-> BOOLEAN]
SubscriptionColumns == [in_app |-> BOOLEAN, email |-> BOOLEAN]
FeedSchema ==
    [events |-> [i \in 1..2 |-> EventColumns],
     subscriptions |-> [s \in User \X {"project", "ticket"} |-> SubscriptionColumns]]

\* The schema of the feed has the model's types of events and subscriptions.
LEMMA FeedRows ==
    /\ DOMAIN FeedSchema = {"events", "subscriptions"}
    /\ DOMAIN FeedSchema.events = 1..2
    /\ \A i \in 1..2 : FeedSchema.events[i] = EventColumns
    /\ DOMAIN FeedSchema.subscriptions = User \X {"project", "ticket"}
    /\ \A s \in User \X {"project", "ticket"} : FeedSchema.subscriptions[s] = SubscriptionColumns
    /\ Cols(EventColumns) = F!ActivityEvent
    /\ Cols(SubscriptionColumns) = F!ActivitySubscription
<1>1. \A r : r \in Cols(EventColumns) <=> r \in F!ActivityEvent
  BY InCols DEF EventColumns, F!ActivityEvent
<1>2. \A r : r \in Cols(SubscriptionColumns) <=> r \in F!ActivitySubscription
  BY InCols DEF SubscriptionColumns, F!ActivitySubscription
<1>3. QED
  BY <1>1, <1>2 DEF FeedSchema

\* The feed writes rows as Requests does.
LEMMA FeedOps ==
    /\ \A rows, ws : F!After(rows, ws) = Q!After(rows, ws)
    /\ \A row : F!Insert(row) = Q!Insert(row)
    /\ \A row, cols : F!Assign(row, cols) = Q!Assign(row, cols)
    /\ F!Delete = Q!Delete
BY DEF F!After, Q!After, F!Written, Q!Written, F!Insert, Q!Insert, F!Update, Q!Update,
       F!Assign, Q!Assign, F!Delete, Q!Delete

\* Events and subscriptions are committed and rolled back as Transacts says.
LEMMA FeedTransacts ==
    ASSUME NEW schema, NEW w, seq \in Nat,
           \/ F!Commit(w) \/ F!Rollback(w)
           \/ \E changes : /\ TypedChanges(schema, changes)
                           /\ F!Hold(w, changes) \/ F!HoldNew(w, changes)
    PROVE  Transacts(schema, w)
<1>1. \A changes : F!AfterAll(changes) = Merged(changes)
  BY FeedOps DEF F!AfterAll, Merged
<1>2. QED
  BY <1>1 DEF Transacts, F!Hold, F!HoldNew, F!Commit, F!CommitAs, F!Free, F!Rollback

\* Every handler of the feed writes what fits.
LEMMA FeedTyped ==
    ASSUME NEW w \in Alone, seq \in Nat \ {0},
           F!Record(w) \/ F!Follow(w) \/ F!Commit(w) \/ F!Rollback(w)
    PROVE  Transacts(FeedSchema, w)
<1>1. ASSUME NEW p \in User, NEW e \in {"project", "ticket"},
             NEW parent \in {"project", "ticket", None}, NEW public \in BOOLEAN,
             F!CreateEvent(w, p, e, parent, public)
      PROVE  Transacts(FeedSchema, w)
  <2>1. PICK row : row = [actor |-> p, entity |-> e, parent |-> parent, is_public |-> public]
    OBVIOUS
  <2>2. row \in Cols(EventColumns)
    BY <2>1, FeedRows DEF F!ActivityEvent
  <2>3. seq \in 1..2
    BY <1>1 DEF F!CreateEvent, F!HoldNew
  <2>4. PICK changes : changes = [events |-> [i \in {seq} |-> Q!Insert(row)]]
    OBVIOUS
  <2>5. DOMAIN changes = {"events"} /\ changes.events = [i \in {seq} |-> Q!Insert(row)]
    BY <2>4
  <2>6. PICK table : table = FeedSchema.events /\ DOMAIN table = 1..2 /\ table[seq] = EventColumns
    BY <2>3, FeedRows
  <2>7. TypedWrite(table, seq, Q!Insert(row))
    BY <2>2, <2>3, <2>6, TypedInsert
  <2>8. TypedChanges(FeedSchema, changes)
    BY <2>5, <2>6, <2>7, FeedRows DEF TypedChanges
  <2>9. QED
    BY <1>1, <2>1, <2>4, <2>8, FeedTransacts, FeedOps DEF F!CreateEvent
<1>2. ASSUME NEW p \in User, NEW e \in {"project", "ticket"}, NEW write,
             \/ write = Q!Delete
             \/ \E choice \in F!ActivitySubscription : \E row :
                    write \in {Q!Insert(choice), Q!Assign(row, choice)},
             F!Hold(w, [subscriptions |-> [s \in {<<p, e>>} |-> write]])
      PROVE  Transacts(FeedSchema, w)
  <2>1. <<p, e>> \in User \X {"project", "ticket"}
    OBVIOUS
  <2>2. PICK s : s = <<p, e>> /\ s \in User \X {"project", "ticket"}
    BY <2>1
  <2>3. PICK table : /\ table = FeedSchema.subscriptions /\ s \in DOMAIN table
                     /\ table[s] = SubscriptionColumns
    BY <2>2, FeedRows
  <2>4. ASSUME NEW choice \in F!ActivitySubscription, NEW row
        PROVE  TypedWrite(table, s, Q!Insert(choice)) /\ TypedWrite(table, s, Q!Assign(row, choice))
    <3>1. choice \in Cols(table[s])
      BY <2>3, FeedRows
    <3>2. Fit(choice, table[s])
      BY <3>1, InCols DEF Fit
    <3>3. QED
      BY <2>3, <3>1, <3>2, TypedInsert, TypedColumns
  <2>5. TypedWrite(table, s, write)
    BY <1>2, <2>4, TypedDelete
  <2>6. PICK changes : changes = [subscriptions |-> [k \in {s} |-> write]]
    OBVIOUS
  <2>7. DOMAIN changes = {"subscriptions"} /\ changes.subscriptions = [k \in {s} |-> write]
    BY <2>6
  <2>8. TypedChanges(FeedSchema, changes)
    BY <2>3, <2>5, <2>7, FeedRows DEF TypedChanges
  <2>9. QED
    BY <1>2, <2>2, <2>6, <2>8, FeedTransacts
<1>3. ASSUME F!Record(w) PROVE Transacts(FeedSchema, w)
  <2>1. TRUE \in BOOLEAN
    BY Zenon
  <2>2. QED
    BY <1>1, <1>3, <2>1 DEF F!Record, F!RecordActivity, F!RecordChildActivity
<1>4. ASSUME F!Follow(w) PROVE Transacts(FeedSchema, w)
  <2>1. ASSUME NEW p \in User, NEW e \in {"project", "ticket"}, F!Unsubscribe(w, p, e)
        PROVE  Transacts(FeedSchema, w)
    <3>1. F!Hold(w, [subscriptions |-> [s \in {<<p, e>>} |-> Q!Delete]])
      BY <2>1, FeedOps DEF F!Unsubscribe
    <3>2. QED
      BY <1>2, <3>1
  <2>2. ASSUME NEW p \in User, NEW e \in {"project", "ticket"},
               NEW choice \in F!ActivitySubscription, F!Subscribe(w, p, e, choice)
        PROVE  Transacts(FeedSchema, w)
    <3>1. PICK s : s = <<p, e>>
      OBVIOUS
    <3>2. PICK write : write = IF s \in DOMAIN db.subscriptions
                               THEN Q!Assign(db.subscriptions[s], choice) ELSE Q!Insert(choice)
      OBVIOUS
    <3>3. F!Hold(w, [subscriptions |-> [k \in {<<p, e>>} |-> write]])
      <4>1. [k \in {<<p, e>>} |-> IF k \in DOMAIN db.subscriptions
                                  THEN F!Assign(db.subscriptions[k], choice) ELSE F!Insert(choice)]
            = [k \in {<<p, e>>} |-> write]
        BY <3>1, <3>2, FeedOps
      <4>2. QED
        BY <2>2, <4>1 DEF F!Subscribe
    <3>4. \E c \in F!ActivitySubscription : \E row : write \in {Q!Insert(c), Q!Assign(row, c)}
      BY <3>2
    <3>5. QED
      BY <1>2, <3>3, <3>4
  <2>3. QED
    BY <1>4, <2>1, <2>2 DEF F!Follow
<1>5. QED
  BY <1>3, <1>4, FeedTransacts

\* A step keeps the feed typed.
LEMMA FeedStep ==
    ASSUME part = "activity", Typed(FeedSchema, Alone), MCNext
    PROVE  Typed(FeedSchema, Alone)'
<1>1. F!Next
  BY DEF MCNext, RowsNext
<1>2. PICK w \in Alone : Transacts(FeedSchema, w)
  BY <1>1, FeedTyped DEF F!Next, Typed
<1>3. QED
  BY <1>2, TypedStep

\* At first there are neither events nor subscriptions.
LEMMA FeedStart ==
    ASSUME part = "activity", MCInit
    PROVE  Typed(FeedSchema, Alone)
<1>1. F!NoRows = Q!NoRows
  BY DEF F!NoRows, Q!NoRows
<1>2. db = [t \in DOMAIN FeedSchema |-> Q!NoRows] /\ seq = 1 /\ req = [w \in Alone |-> None]
  BY <1>1, FeedRows DEF MCInit, PartInit, F!Init, F!Start
<1>3. QED
  BY <1>2, TypedStart

\* A feed that fits the schema is typed.
LEMMA FeedsTyped ==
    ASSUME Typed(FeedSchema, Alone)
    PROVE  F!TypeOK
BY FeedRows DEF Typed, TypedRows, F!TypeOK

\* Every feed is read whole, page by page.
LEMMA FeedsCovered ==
    ASSUME Typed(FeedSchema, Alone)
    PROVE  F!PagesCover
<1>1. DOMAIN db.events \subseteq 1..2
  BY FeedRows DEF Typed, TypedRows
<1>2. \A limit \in 1..2 : limit \in Nat \ {0}
  OBVIOUS
<1>3. QED
  BY <1>1, <1>2, FeedListed, AllIsRead DEF F!PagesCover

\* Every way to read the same rows tells the same, in every state: the pages of a feed and
\* the feed (has_more of the activity service), the preferences that are shown and those
\* that decide (get_preferences_as_dict, should_notify), a project's own flags, its lists
\* and the statistics (is_active, get_active_projects, get_project_stats), the deadlines
\* that a ticket shows and the list of late tickets (get_ticket_sla_status).
THEOREM ReadsAreTrue == MCSpec => []ReadsAgree
<1> DEFINE Inv == /\ part = "activity" => Typed(FeedSchema, Alone)
                  /\ part = "preferences" => Typed(PreferenceSchema, Alone)
                  /\ part = "projects" => Typed(ProjectSchema, Alone)
                  /\ part = "sla_status" => K!TypeOK
<1>1. MCInit => Inv
  BY FeedStart, PreferencesTypedStart, ProjectsTypedStart, SlaStart
<1>2. Inv /\ [MCNext]_mcvars => Inv'
  <2>1. ASSUME Inv, MCNext PROVE Inv'
    BY <2>1, FeedStep, PreferencesTypedStep, ProjectsTypedStep, SlaStep, SamePart
  <2>2. ASSUME Inv, UNCHANGED mcvars PROVE Inv'
    <3>1. UNCHANGED <<part, db, seq, req>>
      BY <2>2 DEF mcvars
    <3>2. \A schema, workers : Typed(schema, workers) => Typed(schema, workers)'
      BY <3>1 DEF Typed
    <3>3. QED
      BY <2>2, <3>1, <3>2, SlaStep
  <2>3. QED
    BY <2>1, <2>2
<1>3. Inv => ReadsAgree
  BY FeedsCovered, PreferencesShown, ProjectLists, SlaAgrees DEF ReadsAgree
<1>4. QED
  BY <1>1, <1>2, <1>3, PTL DEF MCSpec

-------------------------------------------------------------------------------
(* Requests and what becomes of their writes *)

\* A request holds what it is about to write.
Holds(schema, w) ==
    /\ db' = db /\ seq' \in {seq, seq + 1}
    /\ \E changes : TypedChanges(schema, changes) /\ req' = [req EXCEPT ![w] = changes]

\* What a request holds keeps rows and requests within a schema.
LEMMA HeldTyped ==
    ASSUME NEW schema, NEW workers, Typed(schema, workers), NEW w \in workers,
           Holds(schema, w)
    PROVE  Typed(schema, workers)'
BY TypedStep DEF Holds, Transacts

\* A request has ended, and the rows it leaves fit the schema.
LEMMA TypedCommit ==
    ASSUME NEW schema, NEW workers, Typed(schema, workers), NEW w \in workers,
           req' = [req EXCEPT ![w] = None], seq' = seq, TypedRows(schema, db')
    PROVE  Typed(schema, workers)'
BY DEF Typed

\* The clock changes rows and no request.
LEMMA TypedTime ==
    ASSUME NEW schema, NEW workers, Typed(schema, workers), UNCHANGED <<seq, req>>,
           TypedRows(schema, db')
    PROVE  Typed(schema, workers)'
BY DEF Typed

\* Tables that lose rows still fit their schema.
LEMMA RowsKept ==
    ASSUME NEW schema, NEW all, TypedRows(schema, all), NEW after, DOMAIN after = DOMAIN all,
           \A t \in DOMAIN all : /\ DOMAIN after[t] \subseteq DOMAIN all[t]
                                 /\ \A i \in DOMAIN after[t] : after[t][i] = all[t][i]
    PROVE  TypedRows(schema, after)
BY DEF TypedRows

-------------------------------------------------------------------------------
(* Push subscriptions *)

SubColumns == [user |-> Person, is_active |-> BOOLEAN, failed_count |-> Nat]
PushSchema == [subs |-> [e \in {"e1", "e2"} |-> SubColumns]]

\* The schema of push subscriptions has the model's rows.
LEMMA SubRows ==
    /\ DOMAIN PushSchema = {"subs"} /\ DOMAIN PushSchema.subs = {"e1", "e2"}
    /\ \A e \in {"e1", "e2"} : PushSchema.subs[e] = SubColumns
    /\ Cols(SubColumns) = P!PushSubscription
<1>1. \A r : r \in Cols(SubColumns) <=> r \in P!PushSubscription
  BY InCols DEF SubColumns, P!PushSubscription
<1>2. QED
  BY <1>1 DEF PushSchema

\* Every handler of subscriptions holds what fits.
LEMMA SubsHeld ==
    ASSUME TypedRows(PushSchema, db), NEW w,
           \/ \E e \in {"e1", "e2"} : P!Unsubscribe(w, e) \/ \E u \in Person : P!Subscribe(w, u, e)
           \/ \E u \in Person, failed \in SUBSET {"e1", "e2"} : P!TestNotification(w, u, failed)
    PROVE  Holds(PushSchema, w)
<1>1. PICK table : /\ table = PushSchema.subs /\ DOMAIN table = {"e1", "e2"}
                   /\ \A e \in {"e1", "e2"} : table[e] = SubColumns
  BY SubRows
<1>2. \A e \in DOMAIN db.subs : e \in {"e1", "e2"} /\ db.subs[e] \in P!PushSubscription
  BY SubRows DEF TypedRows
<1>3. PICK on \in BOOLEAN : on = TRUE
  BY Zenon
<1>4. ASSUME NEW ws, \A e \in DOMAIN ws : TypedWrite(table, e, ws[e]), P!Hold(w, [subs |-> ws])
      PROVE  Holds(PushSchema, w)
  <2>1. PICK changes : changes = [subs |-> ws]
    OBVIOUS
  <2>2. DOMAIN changes = {"subs"} /\ changes.subs = ws
    BY <2>1
  <2>3. TypedChanges(PushSchema, changes)
    BY <1>1, <1>4, <2>2, SubRows DEF TypedChanges
  <2>4. QED
    BY <1>4, <2>1, <2>3 DEF P!Hold, Holds
<1>5. ASSUME NEW u \in Person, NEW e \in {"e1", "e2"}, P!Subscribe(w, u, e)
      PROVE  Holds(PushSchema, w)
  <2>1. PICK write : write = P!CreateOrUpdate(u, e)
    OBVIOUS
  <2>2. PICK row : /\ row = [user |-> u, is_active |-> on, failed_count |-> 0]
                   /\ row = P!NewSubscription(u)
    BY <1>3, Zenon DEF P!NewSubscription
  <2>3. PICK cols : cols = [is_active |-> on, failed_count |-> 0] /\ cols = P!Renewed
    BY <1>3, Zenon DEF P!Renewed
  <2>4. row \in P!PushSubscription
    BY <2>2 DEF P!PushSubscription
  <2>5. Fit(cols, SubColumns)
    BY <2>3 DEF Fit, SubColumns
  <2>6. write = Q!Assign(db.subs[e], cols) \/ write = Q!Insert(row)
    BY <2>1, <2>2, <2>3, PushOps DEF P!CreateOrUpdate
  <2>7. row \in Cols(table[e]) /\ Fit(cols, table[e])
    BY <1>1, <2>4, <2>5, SubRows
  <2>8. TypedWrite(table, e, write)
    <3>1. CASE write = Q!Insert(row)
      BY <1>1, <2>7, <3>1, TypedInsert
    <3>2. CASE write = Q!Assign(db.subs[e], cols)
      BY <2>7, <3>2, TypedColumns
    <3>3. QED
      BY <2>6, <3>1, <3>2
  <2>9. PICK ws : ws = P!Each({e}, write)
    OBVIOUS
  <2>10. \A i \in DOMAIN ws : TypedWrite(table, i, ws[i])
    BY <2>8, <2>9 DEF P!Each
  <2>11. QED
    BY <1>4, <1>5, <2>1, <2>9, <2>10 DEF P!Subscribe
<1>6. ASSUME NEW e, P!Unsubscribe(w, e)
      PROVE  Holds(PushSchema, w)
  <2>1. PICK ws : ws = P!Each({e}, P!Delete)
    OBVIOUS
  <2>2. \A i \in DOMAIN ws : TypedWrite(table, i, ws[i])
    BY <2>1, TypedDelete, PushOps DEF P!Each
  <2>3. QED
    BY <1>4, <1>6, <2>1, <2>2 DEF P!Unsubscribe
<1>7. ASSUME NEW u \in Person, NEW failed, P!TestNotification(w, u, failed)
      PROVE  Holds(PushSchema, w)
  <2>1. PICK ws : ws = P!SendToUser(u, failed)
    OBVIOUS
  <2>2. DOMAIN ws = P!ActiveSubscriptions(u) /\ DOMAIN ws \subseteq DOMAIN db.subs
    BY <2>1 DEF P!SendToUser, P!ActiveSubscriptions
  <2>3. ASSUME NEW e \in DOMAIN ws
        PROVE  TypedWrite(table, e, ws[e])
    <3>1. e \in {"e1", "e2"} /\ db.subs[e].failed_count \in Nat
      BY <1>2, <2>2 DEF P!PushSubscription
    <3>2. PICK n \in Nat : n = db.subs[e].failed_count + 1
      BY <3>1
    <3>3. PICK b \in BOOLEAN : b = (n < 3)
      <4>1. \A x \in BOOLEAN : \E b \in BOOLEAN : b = x
        OBVIOUS
      <4>2. (n < 3) \in BOOLEAN
        BY SMT
      <4>3. QED
        BY <4>1, <4>2, Zenon
    <3>4. PICK cols : cols = [failed_count |-> n, is_active |-> b] /\ cols = [failed_count |-> n, is_active |-> n < 3]
      BY <3>3, Zenon
    <3>5. PICK zero : zero = [failed_count |-> 0]
      OBVIOUS
    <3>6. Fit(cols, SubColumns) /\ Fit(zero, SubColumns)
      BY <3>4, <3>5 DEF Fit, SubColumns
    <3>7. P!Failure(e) = Q!Assign(db.subs[e], cols) /\ P!Success = Q!Update(zero)
      BY <3>2, <3>4, <3>5, PushOps DEF P!Failure, P!Success, P!Limit
    <3>8. ws[e] = Q!Assign(db.subs[e], cols) \/ ws[e] = Q!Update(zero)
      BY <2>1, <2>2, <3>7 DEF P!SendToUser
    <3>9. QED
      BY <1>1, <3>1, <3>6, <3>8, TypedColumns
  <2>4. QED
    BY <1>4, <1>7, <2>1, <2>3 DEF P!TestNotification
<1>8. QED
  BY <1>5, <1>6, <1>7

\* A step keeps subscriptions typed.
LEMMA SubsTypedStep ==
    ASSUME part = "push", Typed(PushSchema, Pair), MCNext
    PROVE  Typed(PushSchema, Pair)'
<1>1. P!Next
  BY DEF MCNext, RowsNext
<1>2. TypedRows(PushSchema, db)
  BY DEF Typed
<1>3. ASSUME NEW w \in Pair, P!Commit(w) \/ P!Rollback(w)
      PROVE  Transacts(PushSchema, w)
  <2>1. \A changes : P!AfterAll(changes) = Merged(changes)
    BY PushOps DEF P!AfterAll, Merged
  <2>2. QED
    BY <1>3, <2>1 DEF Transacts, P!Commit, P!CommitAs, P!Free, P!Rollback
<1>4. QED
  BY <1>1, <1>2, <1>3, SubsHeld, HeldTyped, TypedStep DEF P!Next

\* At first there are no subscriptions.
LEMMA SubsTypedStart ==
    ASSUME part = "push", MCInit
    PROVE  Typed(PushSchema, Pair)
<1>1. P!NoRows = Q!NoRows
  BY DEF P!NoRows, Q!NoRows
<1>2. db = [t \in DOMAIN PushSchema |-> Q!NoRows] /\ seq = 1 /\ req = [w \in Pair |-> None]
  BY <1>1, SubRows DEF MCInit, PartInit, P!Init, P!Start
<1>3. QED
  BY <1>2, TypedStart

\* Subscriptions that fit the schema are typed.
LEMMA SubsTyped ==
    ASSUME Typed(PushSchema, Pair)
    PROVE  P!TypeOK
BY SubRows DEF Typed, TypedRows, P!TypeOK

-------------------------------------------------------------------------------
(* Comments and attachments *)

TicketColumns ==
    [created_by |-> Admin \cup Client, assigned_to |-> (Admin \cup Client) \cup {None},
     responded |-> BOOLEAN]
CommentColumns == [ticket |-> 1..3, user |-> Admin \cup Client, is_internal |-> BOOLEAN]
AttachmentColumns ==
    [ticket |-> 1..3, comment |-> (1..3) \cup {None}, uploaded_by |-> Admin \cup Client]
CommentSchema ==
    [tickets |-> [t \in 1..3 |-> TicketColumns], comments |-> [c \in 1..3 |-> CommentColumns],
     attachments |-> [a \in 1..3 |-> AttachmentColumns]]

\* The schema of a ticket's comments has the model's rows.
LEMMA CommentTables ==
    /\ DOMAIN CommentSchema = {"tickets", "comments", "attachments"}
    /\ DOMAIN CommentSchema.tickets = 1..3 /\ DOMAIN CommentSchema.comments = 1..3
    /\ DOMAIN CommentSchema.attachments = 1..3
    /\ \A i \in 1..3 : /\ CommentSchema.tickets[i] = TicketColumns
                       /\ CommentSchema.comments[i] = CommentColumns
                       /\ CommentSchema.attachments[i] = AttachmentColumns
    /\ Cols(TicketColumns) = C!Ticket /\ Cols(CommentColumns) = C!TicketComment
    /\ Cols(AttachmentColumns) = C!TicketAttachment
<1>1. \A r : r \in Cols(TicketColumns) <=> r \in C!Ticket
  BY InCols DEF TicketColumns, C!Ticket
<1>2. \A r : r \in Cols(CommentColumns) <=> r \in C!TicketComment
  BY InCols DEF CommentColumns, C!TicketComment
<1>3. \A r : r \in Cols(AttachmentColumns) <=> r \in C!TicketAttachment
  BY InCols DEF AttachmentColumns, C!TicketAttachment
<1>4. QED
  BY <1>1, <1>2, <1>3 DEF CommentSchema

\* Every handler of comments and attachments holds what fits.
LEMMA CommentsHeld ==
    ASSUME TypedRows(CommentSchema, db), NEW w, NEW p \in Admin \cup Client, seq \in Nat \ {0},
           C!Work(w, p) \/ C!Discuss(w, p)
    PROVE  Holds(CommentSchema, w)
<1>1. PICK ts, cs, as : ts = CommentSchema.tickets /\ cs = CommentSchema.comments /\ as = CommentSchema.attachments
  OBVIOUS
<1>2. /\ DOMAIN ts = 1..3 /\ DOMAIN cs = 1..3 /\ DOMAIN as = 1..3
      /\ \A i \in 1..3 : /\ ts[i] = TicketColumns /\ cs[i] = CommentColumns
                         /\ as[i] = AttachmentColumns
  BY <1>1, CommentTables
<1>3. /\ DOMAIN db.tickets \subseteq 1..3 /\ DOMAIN db.comments \subseteq 1..3
      /\ DOMAIN db.attachments \subseteq 1..3
  BY CommentTables DEF TypedRows
<1>4. ASSUME NEW changes, DOMAIN changes \subseteq {"tickets", "comments", "attachments"},
             "tickets" \in DOMAIN changes =>
                 \A i \in DOMAIN changes.tickets : TypedWrite(ts, i, changes.tickets[i]),
             "comments" \in DOMAIN changes =>
                 \A i \in DOMAIN changes.comments : TypedWrite(cs, i, changes.comments[i]),
             "attachments" \in DOMAIN changes =>
                 \A i \in DOMAIN changes.attachments : TypedWrite(as, i, changes.attachments[i]),
             C!Hold(w, changes) \/ C!HoldNew(w, changes)
      PROVE  Holds(CommentSchema, w)
  <2>1. TypedChanges(CommentSchema, changes)
    BY <1>1, <1>4, CommentTables DEF TypedChanges
  <2>2. QED
    BY <1>4, <2>1 DEF C!Hold, C!HoldNew, Holds
<1>5. PICK yes \in BOOLEAN, no \in BOOLEAN : yes = TRUE /\ no = FALSE
  BY Zenon
<1>6. \A ids : LET ws == C!Each(ids, C!Delete)
               IN  \A table : \A i \in DOMAIN ws : TypedWrite(table, i, ws[i])
  BY TypedDelete, CommentOps DEF C!Each
<1>7. ASSUME C!CreateTicket(w, p)
      PROVE  Holds(CommentSchema, w)
  <2>1. PICK row : /\ row = [created_by |-> p, assigned_to |-> None, responded |-> no]
                   /\ row = C!NewTicket(p)
    BY <1>5, Zenon DEF C!NewTicket
  <2>2. row \in C!Ticket /\ seq \in 1..3
    BY <1>7, <2>1 DEF C!Ticket, C!CreateTicket, C!HoldNew
  <2>3. TypedWrite(ts, seq, C!Insert(row))
    BY <1>2, <2>2, TypedInsert, CommentTables, CommentOps
  <2>4. PICK changes : changes = [tickets |-> [t \in {seq} |-> C!Insert(row)]]
    OBVIOUS
  <2>5. DOMAIN changes = {"tickets"} /\ \A i \in DOMAIN changes.tickets : TypedWrite(ts, i, changes.tickets[i])
    BY <2>3, <2>4
  <2>6. QED
    BY <1>4, <1>7, <2>1, <2>4, <2>5 DEF C!CreateTicket
<1>8. ASSUME NEW t \in 1..3, NEW q \in (Admin \cup Client) \cup {None}, C!AssignTicket(w, p, t, q)
      PROVE  Holds(CommentSchema, w)
  <2>1. PICK cols : cols = [assigned_to |-> q]
    OBVIOUS
  <2>2. Fit(cols, TicketColumns)
    BY <2>1 DEF Fit, TicketColumns
  <2>3. TypedWrite(ts, t, C!Assign(db.tickets[t], cols))
    BY <1>2, <2>2, TypedColumns, CommentOps
  <2>4. PICK changes : changes = [tickets |-> [i \in {t} |-> C!Assign(db.tickets[t], cols)]]
    OBVIOUS
  <2>5. DOMAIN changes = {"tickets"} /\ \A i \in DOMAIN changes.tickets : TypedWrite(ts, i, changes.tickets[i])
    BY <2>3, <2>4
  <2>6. QED
    BY <1>4, <1>8, <2>1, <2>4, <2>5 DEF C!AssignTicket
<1>9. ASSUME NEW t, C!DeleteTicket(w, p, t)
      PROVE  Holds(CommentSchema, w)
  <2>1. PICK changes : changes = [tickets |-> [i \in {t} |-> C!Delete],
                                  comments |-> C!Each(C!CommentsOf(t), C!Delete),
                                  attachments |-> C!Each(C!AttachmentsOf(t), C!Delete)]
    OBVIOUS
  <2>2. /\ DOMAIN changes = {"tickets", "comments", "attachments"}
        /\ changes.tickets = [i \in {t} |-> C!Delete]
        /\ changes.comments = C!Each(C!CommentsOf(t), C!Delete)
        /\ changes.attachments = C!Each(C!AttachmentsOf(t), C!Delete)
    BY <2>1
  <2>3. changes.tickets = C!Each({t}, C!Delete)
    BY <2>2 DEF C!Each
  <2>4. /\ \A i \in DOMAIN changes.tickets : TypedWrite(ts, i, changes.tickets[i])
        /\ \A i \in DOMAIN changes.comments : TypedWrite(cs, i, changes.comments[i])
        /\ \A i \in DOMAIN changes.attachments : TypedWrite(as, i, changes.attachments[i])
    BY <1>6, <2>2, <2>3
  <2>5. QED
    BY <1>4, <1>9, <2>1, <2>2, <2>4 DEF C!DeleteTicket
<1>10. ASSUME NEW t \in 1..3, NEW b \in BOOLEAN, C!AddComment(w, p, t, b)
      PROVE  Holds(CommentSchema, w)
  <2>1. PICK row : row = [ticket |-> t, user |-> p, is_internal |-> b]
    OBVIOUS
  <2>2. row \in C!TicketComment /\ seq \in 1..3
    BY <1>10, <2>1 DEF C!TicketComment, C!AddComment, C!HoldNew
  <2>3. TypedWrite(cs, seq, C!Insert(row))
    BY <1>2, <2>2, TypedInsert, CommentTables, CommentOps
  <2>4. PICK cols : cols = [responded |-> yes] /\ cols = [responded |-> TRUE]
    BY <1>5, Zenon
  <2>5. Fit(cols, TicketColumns)
    BY <2>4 DEF Fit, TicketColumns
  <2>6. TypedWrite(ts, t, C!Update(cols))
    BY <1>2, <2>5, TypedColumns, CommentOps
  <2>7. PICK stamp : stamp = IF C!IsResponse(t, p, b) THEN C!FirstResponse(t) ELSE C!NoRows
    OBVIOUS
  <2>8. \A i \in DOMAIN stamp : TypedWrite(ts, i, stamp[i])
    BY <2>4, <2>6, <2>7, CommentOps DEF C!FirstResponse
  <2>9. PICK changes : changes = [comments |-> [i \in {seq} |-> C!Insert(row)], tickets |-> stamp]
    OBVIOUS
  <2>10. /\ DOMAIN changes = {"comments", "tickets"} /\ changes.tickets = stamp
         /\ \A i \in DOMAIN changes.comments : TypedWrite(cs, i, changes.comments[i])
    BY <2>3, <2>9
  <2>11. QED
    BY <1>4, <1>10, <2>1, <2>7, <2>8, <2>9, <2>10 DEF C!AddComment
<1>11. ASSUME NEW c, C!DeleteComment(w, p, c)
       PROVE  Holds(CommentSchema, w)
  <2>1. PICK cols : cols = [comment |-> None]
    OBVIOUS
  <2>2. Fit(cols, AttachmentColumns)
    BY <2>1 DEF Fit, AttachmentColumns
  <2>3. PICK ids : ids = {a \in DOMAIN db.attachments : db.attachments[a].comment = c}
    OBVIOUS
  <2>4. \A i \in ids : TypedWrite(as, i, C!Update(cols))
    BY <1>2, <1>3, <2>2, <2>3, TypedColumns, CommentOps
  <2>5. PICK changes : changes = [comments |-> [i \in {c} |-> C!Delete],
                                  attachments |-> C!Each(ids, C!Update(cols))]
    OBVIOUS
  <2>6. /\ DOMAIN changes = {"comments", "attachments"}
        /\ changes.comments = C!Each({c}, C!Delete)
        /\ changes.attachments = C!Each(ids, C!Update(cols))
    BY <2>5 DEF C!Each
  <2>7. /\ \A i \in DOMAIN changes.comments : TypedWrite(cs, i, changes.comments[i])
        /\ \A i \in DOMAIN changes.attachments : TypedWrite(as, i, changes.attachments[i])
    BY <1>6, <2>4, <2>6 DEF C!Each
  <2>8. QED
    BY <1>4, <1>11, <2>1, <2>3, <2>5, <2>6, <2>7 DEF C!DeleteComment
<1>12. ASSUME NEW t \in 1..3, NEW c \in (1..3) \cup {None}, C!CreateAttachment(w, p, t, c)
       PROVE  Holds(CommentSchema, w)
  <2>1. PICK row : row = [ticket |-> t, comment |-> c, uploaded_by |-> p]
    OBVIOUS
  <2>2. row \in C!TicketAttachment /\ seq \in 1..3
    BY <1>12, <2>1 DEF C!TicketAttachment, C!CreateAttachment, C!HoldNew
  <2>3. TypedWrite(as, seq, C!Insert(row))
    BY <1>2, <2>2, TypedInsert, CommentTables, CommentOps
  <2>4. PICK changes : changes = [attachments |-> [i \in {seq} |-> C!Insert(row)]]
    OBVIOUS
  <2>5. /\ DOMAIN changes = {"attachments"}
        /\ \A i \in DOMAIN changes.attachments : TypedWrite(as, i, changes.attachments[i])
    BY <2>3, <2>4
  <2>6. QED
    BY <1>4, <1>12, <2>1, <2>4, <2>5 DEF C!CreateAttachment
<1>13. ASSUME NEW a, C!DeleteAttachment(w, p, a)
       PROVE  Holds(CommentSchema, w)
  <2>1. PICK changes : changes = [attachments |-> [i \in {a} |-> C!Delete]]
    OBVIOUS
  <2>2. DOMAIN changes = {"attachments"} /\ changes.attachments = C!Each({a}, C!Delete)
    BY <2>1 DEF C!Each
  <2>3. QED
    BY <1>4, <1>6, <1>13, <2>1, <2>2 DEF C!DeleteAttachment
<1>14. QED
  BY <1>7, <1>8, <1>9, <1>10, <1>11, <1>12, <1>13 DEF C!Work, C!Discuss

\* Rows fit their tables, and those that others refer to are there.
CommentsTypedInv == Typed(CommentSchema, Pair) /\ C!Intact(db)

\* A step keeps comments typed, with their tickets.
LEMMA CommentsTypedStep ==
    ASSUME part = "comments", CommentsTypedInv, MCNext
    PROVE  CommentsTypedInv'
<1>1. C!Next
  BY DEF MCNext, RowsNext
<1>2. TypedRows(CommentSchema, db) /\ seq \in Nat \ {0}
  BY DEF CommentsTypedInv, Typed
<1>3. ASSUME NEW w \in Pair, NEW p \in Admin \cup Client, C!Work(w, p) \/ C!Discuss(w, p)
      PROVE  CommentsTypedInv'
  <2>1. Holds(CommentSchema, w)
    BY <1>2, <1>3, CommentsHeld
  <2>2. db' = db
    BY <2>1 DEF Holds
  <2>3. C!Intact(db')
    BY <2>2 DEF CommentsTypedInv
  <2>4. QED
    BY <2>1, <2>3, HeldTyped DEF CommentsTypedInv
<1>4. ASSUME NEW w \in Pair, C!CommitTicket(w)
      PROVE  CommentsTypedInv'
  <2>1. PICK all : all = C!AfterAll(req[w])
    OBVIOUS
  <2>2. /\ req[w] # None /\ C!Intact(all) /\ db' = all
        /\ req' = [req EXCEPT ![w] = None] /\ seq' = seq
    BY <1>4, <2>1 DEF C!CommitTicket, C!CommitAs, C!Free
  <2>3. all = Merged(req[w])
    BY <2>1, CommentOps DEF C!AfterAll, Merged
  <2>4. PICK changes : changes = req[w] /\ TypedChanges(CommentSchema, changes)
    BY <2>2 DEF CommentsTypedInv, Typed
  <2>5. TypedRows(CommentSchema, all)
    BY <1>2, <2>3, <2>4, MergedTyped
  <2>6. QED
    BY <2>2, <2>5, TypedCommit DEF CommentsTypedInv
<1>5. ASSUME NEW w \in Pair, C!Rollback(w)
      PROVE  CommentsTypedInv'
  <2>1. db' = db /\ req' = [req EXCEPT ![w] = None] /\ seq' = seq
    BY <1>5 DEF C!Rollback
  <2>2. TypedRows(CommentSchema, db') /\ C!Intact(db')
    BY <1>2, <2>1 DEF CommentsTypedInv
  <2>3. QED
    BY <2>1, <2>2, TypedCommit DEF CommentsTypedInv
<1>6. QED
  BY <1>1, <1>3, <1>4, <1>5 DEF C!Next

\* At first there are no tickets.
LEMMA CommentsTypedStart ==
    ASSUME part = "comments", MCInit
    PROVE  CommentsTypedInv
<1>1. C!NoRows = Q!NoRows /\ DOMAIN Q!NoRows = {}
  BY DEF C!NoRows, Q!NoRows
<1>2. db = [t \in DOMAIN CommentSchema |-> Q!NoRows] /\ seq = 1 /\ req = [w \in Pair |-> None]
  BY <1>1, CommentTables DEF MCInit, PartInit, C!Init, C!Start
<1>3. C!Intact(db)
  BY <1>1, <1>2, CommentTables DEF C!Intact
<1>4. QED
  BY <1>2, <1>3, TypedStart DEF CommentsTypedInv

\* The invariant is stronger than the types.
LEMMA CommentsTyped ==
    ASSUME CommentsTypedInv
    PROVE  C!TypeOK
BY CommentTables DEF CommentsTypedInv, Typed, TypedRows, C!TypeOK, C!IsTable

-------------------------------------------------------------------------------
(* Reports *)

ScheduleColumns == [is_active |-> BOOLEAN, next_run_at |-> {"due", "later"}, last_run_at |-> BOOLEAN]
ExecutionColumns ==
    [scheduled_report |-> (1..2) \cup {None}, is_adhoc |-> BOOLEAN, status |-> R!ExecutionStatus,
     output_file |-> BOOLEAN, error |-> BOOLEAN, delivery |-> R!DeliveryStatus \cup {None}]
DesignColumns == [created_by |-> User, is_public |-> BOOLEAN]
ReportSchema ==
    [schedules |-> [r \in 1..2 |-> ScheduleColumns], executions |-> [x \in 1..2 |-> ExecutionColumns],
     templates |-> [t \in 1..2 |-> DesignColumns]]

\* The schema of reports has the model's rows.
LEMMA ReportTables ==
    /\ DOMAIN ReportSchema = {"schedules", "executions", "templates"}
    /\ DOMAIN ReportSchema.schedules = 1..2 /\ DOMAIN ReportSchema.executions = 1..2
    /\ DOMAIN ReportSchema.templates = 1..2
    /\ \A i \in 1..2 : /\ ReportSchema.schedules[i] = ScheduleColumns
                       /\ ReportSchema.executions[i] = ExecutionColumns
                       /\ ReportSchema.templates[i] = DesignColumns
    /\ Cols(ScheduleColumns) = R!ScheduledReport /\ Cols(ExecutionColumns) = R!ReportExecution
    /\ Cols(DesignColumns) = R!ReportTemplate
<1>1. \A r : r \in Cols(ScheduleColumns) <=> r \in R!ScheduledReport
  BY InCols DEF ScheduleColumns, R!ScheduledReport
<1>2. \A r : r \in Cols(ExecutionColumns) <=> r \in R!ReportExecution
  BY InCols DEF ExecutionColumns, R!ReportExecution
<1>3. \A r : r \in Cols(DesignColumns) <=> r \in R!ReportTemplate
  BY InCols DEF DesignColumns, R!ReportTemplate
<1>4. QED
  BY <1>1, <1>2, <1>3 DEF ReportSchema

\* Every handler of reports holds what fits.
LEMMA ReportsHeld ==
    ASSUME TypedRows(ReportSchema, db), NEW w, seq \in Nat \ {0},
           R!Schedule(w) \/ R!Run(w) \/ R!Design(w)
    PROVE  Holds(ReportSchema, w)
<1>1. PICK ss, xs, ts : /\ ss = ReportSchema.schedules /\ xs = ReportSchema.executions
                        /\ ts = ReportSchema.templates
  OBVIOUS
<1>2. /\ DOMAIN ss = 1..2 /\ DOMAIN xs = 1..2 /\ DOMAIN ts = 1..2
      /\ \A i \in 1..2 : /\ ss[i] = ScheduleColumns /\ xs[i] = ExecutionColumns
                         /\ ts[i] = DesignColumns
  BY <1>1, ReportTables
<1>3. PICK yes \in BOOLEAN, no \in BOOLEAN : yes = TRUE /\ no = FALSE
  BY Zenon
<1>4. ASSUME NEW changes, DOMAIN changes \subseteq {"schedules", "executions", "templates"},
             "schedules" \in DOMAIN changes =>
                 \A i \in DOMAIN changes.schedules : TypedWrite(ss, i, changes.schedules[i]),
             "executions" \in DOMAIN changes =>
                 \A i \in DOMAIN changes.executions : TypedWrite(xs, i, changes.executions[i]),
             "templates" \in DOMAIN changes =>
                 \A i \in DOMAIN changes.templates : TypedWrite(ts, i, changes.templates[i]),
             R!Hold(w, changes) \/ R!HoldNew(w, changes)
      PROVE  Holds(ReportSchema, w)
  <2>1. TypedChanges(ReportSchema, changes)
    BY <1>1, <1>4, ReportTables DEF TypedChanges
  <2>2. QED
    BY <1>4, <2>1 DEF R!Hold, R!HoldNew, Holds
<1>5. ASSUME NEW i, NEW write, TypedWrite(ss, i, write),
             \/ R!Hold(w, [schedules |-> [j \in {i} |-> write]])
             \/ R!HoldNew(w, [schedules |-> [j \in {i} |-> write]])
      PROVE  Holds(ReportSchema, w)
  <2>1. PICK changes : changes = [schedules |-> [j \in {i} |-> write]]
    OBVIOUS
  <2>2. DOMAIN changes = {"schedules"} /\ \A j \in DOMAIN changes.schedules : TypedWrite(ss, j, changes.schedules[j])
    BY <1>5, <2>1
  <2>3. QED
    BY <1>4, <1>5, <2>1, <2>2
<1>6. ASSUME NEW i, NEW write, TypedWrite(xs, i, write),
             \/ R!Hold(w, [executions |-> [j \in {i} |-> write]])
             \/ R!HoldNew(w, [executions |-> [j \in {i} |-> write]])
      PROVE  Holds(ReportSchema, w)
  <2>1. PICK changes : changes = [executions |-> [j \in {i} |-> write]]
    OBVIOUS
  <2>2. DOMAIN changes = {"executions"} /\ \A j \in DOMAIN changes.executions : TypedWrite(xs, j, changes.executions[j])
    BY <1>6, <2>1
  <2>3. QED
    BY <1>4, <1>6, <2>1, <2>2
<1>7. ASSUME NEW i, NEW write, TypedWrite(ts, i, write),
             \/ R!Hold(w, [templates |-> [j \in {i} |-> write]])
             \/ R!HoldNew(w, [templates |-> [j \in {i} |-> write]])
      PROVE  Holds(ReportSchema, w)
  <2>1. PICK changes : changes = [templates |-> [j \in {i} |-> write]]
    OBVIOUS
  <2>2. DOMAIN changes = {"templates"} /\ \A j \in DOMAIN changes.templates : TypedWrite(ts, j, changes.templates[j])
    BY <1>7, <2>1
  <2>3. QED
    BY <1>4, <1>7, <2>1, <2>2
<1>8. ASSUME NEW r, R!DeleteScheduledReport(w, r)
      PROVE  Holds(ReportSchema, w)
  BY <1>5, <1>8, TypedDelete, ReportOps DEF R!DeleteScheduledReport
<1>9. ASSUME R!CreateScheduledReport(w)
      PROVE  Holds(ReportSchema, w)
  <2>1. PICK row : /\ row = [is_active |-> yes, next_run_at |-> "later", last_run_at |-> no]
                   /\ row = [is_active |-> TRUE, next_run_at |-> "later", last_run_at |-> FALSE]
    BY <1>3, Zenon
  <2>2. row \in R!ScheduledReport /\ seq \in 1..2
    BY <1>9, <2>1 DEF R!ScheduledReport, R!CreateScheduledReport, R!HoldNew
  <2>3. TypedWrite(ss, seq, R!Insert(row))
    BY <1>2, <2>2, TypedInsert, ReportTables, ReportOps
  <2>4. QED
    BY <1>5, <1>9, <2>1, <2>3 DEF R!CreateScheduledReport
<1>10. ASSUME NEW r \in 1..2, NEW cols, Fit(cols, ScheduleColumns),
             R!Hold(w, [schedules |-> [i \in {r} |-> R!Assign(db.schedules[r], cols)]])
      PROVE  Holds(ReportSchema, w)
  <2>1. TypedWrite(ss, r, R!Assign(db.schedules[r], cols))
    BY <1>2, <1>10, TypedColumns, ReportOps
  <2>2. QED
    BY <1>5, <1>10, <2>1
<1>11. ASSUME NEW r \in 1..2, NEW b \in BOOLEAN,
              \/ R!UpdateScheduledReport(w, r, [next_run_at |-> "later"])
              \/ R!UpdateScheduledReport(w, r, [is_active |-> b])
       PROVE  Holds(ReportSchema, w)
  <2>1. PICK cols : /\ cols = [next_run_at |-> "later"] \/ cols = [is_active |-> b]
                    /\ R!UpdateScheduledReport(w, r, cols)
    BY <1>11
  <2>2. Fit(cols, ScheduleColumns)
    BY <2>1 DEF Fit, ScheduleColumns
  <2>3. QED
    BY <1>10, <2>1, <2>2 DEF R!UpdateScheduledReport
<1>12. ASSUME NEW r \in 1..2, R!UpdateNextRun(w, r)
       PROVE  Holds(ReportSchema, w)
  <2>1. PICK cols : /\ cols = [next_run_at |-> "later", last_run_at |-> yes]
                    /\ cols = [next_run_at |-> "later", last_run_at |-> TRUE]
    BY <1>3, Zenon
  <2>2. Fit(cols, ScheduleColumns)
    BY <2>1 DEF Fit, ScheduleColumns
  <2>3. QED
    BY <1>10, <1>12, <2>1, <2>2 DEF R!UpdateNextRun, R!NextRun
<1>13. CASE R!Schedule(w)
  BY <1>8, <1>9, <1>11, <1>12, <1>13 DEF R!Schedule
<1>14. ASSUME NEW r \in (1..2) \cup {None}, R!GenerateReport(w, r)
       PROVE  Holds(ReportSchema, w)
  <2>1. PICK row : row = R!Started(R!NewExecution(r))
    OBVIOUS
  <2>2. PICK b \in BOOLEAN : b = (r = None)
    <3>1. \A x \in BOOLEAN : \E b \in BOOLEAN : b = x
      OBVIOUS
    <3>2. (r = None) \in BOOLEAN
      BY SMT
    <3>3. QED
      BY <3>1, <3>2, Zenon
  <2>3. PICK new : /\ new = [scheduled_report |-> r, is_adhoc |-> b, status |-> "pending",
                              output_file |-> no, error |-> no, delivery |-> None]
                   /\ new = R!NewExecution(r)
    BY <1>3, <2>2, Zenon DEF R!NewExecution
  <2>4. row = [new EXCEPT !.status = "running"]
    BY <2>1, <2>3 DEF R!Started
  <2>5. row \in R!ReportExecution /\ seq \in 1..2
    BY <1>14, <2>3, <2>4 DEF R!ReportExecution, R!ExecutionStatus, R!GenerateReport, R!HoldNew
  <2>6. TypedWrite(xs, seq, R!Insert(row))
    BY <1>2, <2>5, TypedInsert, ReportTables, ReportOps
  <2>7. QED
    BY <1>6, <1>14, <2>1, <2>6 DEF R!GenerateReport
<1>15. ASSUME NEW x \in 1..2, NEW cols, Fit(cols, ExecutionColumns), R!SetColumns(w, x, cols)
       PROVE  Holds(ReportSchema, w)
  <2>1. TypedWrite(xs, x, R!Assign(db.executions[x], cols))
    BY <1>2, <1>15, TypedColumns, ReportOps
  <2>2. QED
    BY <1>6, <1>15, <2>1 DEF R!SetColumns
<1>16. ASSUME NEW x \in 1..2, R!CompleteExecution(w, x) \/ R!FailExecution(w, x)
       PROVE  Holds(ReportSchema, w)
  <2>1. PICK done, failed :
            /\ done = [status |-> "completed", output_file |-> yes]
            /\ done = [status |-> "completed", output_file |-> TRUE]
            /\ failed = [status |-> "failed", error |-> yes]
            /\ failed = [status |-> "failed", error |-> TRUE]
    BY <1>3, Zenon
  <2>2. Fit(done, ExecutionColumns) /\ Fit(failed, ExecutionColumns)
    BY <2>1 DEF Fit, ExecutionColumns, R!ExecutionStatus
  <2>3. QED
    BY <1>15, <1>16, <2>1, <2>2 DEF R!CompleteExecution, R!FailExecution
<1>17. ASSUME NEW x \in 1..2, R!UpdateDeliveryStatus(w, x, "sent")
       PROVE  Holds(ReportSchema, w)
  <2>1. PICK cols : cols = [delivery |-> "sent"]
    OBVIOUS
  <2>2. Fit(cols, ExecutionColumns)
    BY <2>1 DEF Fit, ExecutionColumns, R!DeliveryStatus
  <2>3. QED
    BY <1>15, <1>17, <2>1, <2>2 DEF R!UpdateDeliveryStatus
<1>18. ASSUME NEW old, R!CleanupOldExecutions(w, old)
       PROVE  Holds(ReportSchema, w)
  <2>1. PICK changes : changes = [executions |-> R!Each(old, R!Delete)]
    OBVIOUS
  <2>2. DOMAIN changes = {"executions"} /\ changes.executions = R!Each(old, R!Delete)
    BY <2>1
  <2>3. \A i \in DOMAIN changes.executions : TypedWrite(xs, i, changes.executions[i])
    BY <2>2, TypedDelete, ReportOps DEF R!Each
  <2>4. QED
    BY <1>4, <1>18, <2>1, <2>2, <2>3 DEF R!CleanupOldExecutions
<1>19. CASE R!Run(w)
  BY <1>14, <1>16, <1>17, <1>18, <1>19 DEF R!Run, R!RunScheduledReport
<1>20. ASSUME NEW p \in User, NEW b \in BOOLEAN, R!CreateTemplate(w, p, b) \/ \E t \in 1..2 : R!CloneTemplate(w, p, t)
       PROVE  Holds(ReportSchema, w)
  <2>1. PICK row : row = [created_by |-> p, is_public |-> b]
    OBVIOUS
  <2>2. PICK clone : clone = [created_by |-> p, is_public |-> no] /\ clone = R!Clone(p)
    BY <1>3, Zenon DEF R!Clone
  <2>3. row \in R!ReportTemplate /\ clone \in R!ReportTemplate /\ seq \in 1..2
    BY <1>20, <2>1, <2>2 DEF R!ReportTemplate, R!CreateTemplate, R!CloneTemplate, R!HoldNew
  <2>4. TypedWrite(ts, seq, R!Insert(row)) /\ TypedWrite(ts, seq, R!Insert(clone))
    BY <1>2, <2>3, TypedInsert, ReportTables, ReportOps
  <2>5. QED
    BY <1>7, <1>20, <2>1, <2>2, <2>4 DEF R!CreateTemplate, R!CloneTemplate
<1>21. ASSUME NEW p, NEW t \in 1..2, NEW b \in BOOLEAN, R!UpdateTemplate(w, p, t, b)
       PROVE  Holds(ReportSchema, w)
  <2>1. PICK cols : cols = [is_public |-> b]
    OBVIOUS
  <2>2. Fit(cols, DesignColumns)
    BY <2>1 DEF Fit, DesignColumns
  <2>3. TypedWrite(ts, t, R!Assign(db.templates[t], cols))
    BY <1>2, <2>2, TypedColumns, ReportOps
  <2>4. QED
    BY <1>7, <1>21, <2>1, <2>3 DEF R!UpdateTemplate
<1>22. ASSUME NEW p, NEW t, R!DeleteTemplate(w, p, t)
       PROVE  Holds(ReportSchema, w)
  BY <1>7, <1>22, TypedDelete, ReportOps DEF R!DeleteTemplate
<1>23. CASE R!Design(w)
  BY <1>20, <1>21, <1>22, <1>23 DEF R!Design
<1>24. QED
  BY <1>13, <1>19, <1>23

\* Rows fit their tables, and an execution's schedule is there.
ReportsTypedInv ==
    /\ Typed(ReportSchema, Pair)
    /\ \A x \in DOMAIN db.executions :
           db.executions[x].scheduled_report \in DOMAIN db.schedules \cup {None}

\* An execution whose schedule goes names none.
LEMMA ReportsCommitted ==
    ASSUME NEW all, TypedRows(ReportSchema, all), NEW after,
           after = [all EXCEPT !.executions = R!Orphaned(all)]
    PROVE  /\ TypedRows(ReportSchema, after)
           /\ \A x \in DOMAIN after.executions :
                  after.executions[x].scheduled_report \in DOMAIN after.schedules \cup {None}
<1>1. PICK rows : rows = R!Orphaned(all)
  OBVIOUS
<1>2. /\ DOMAIN after = DOMAIN all /\ after.executions = rows /\ DOMAIN rows = DOMAIN all.executions
      /\ after.schedules = all.schedules /\ after.templates = all.templates
  BY <1>1, ReportTables DEF TypedRows, R!Orphaned
<1>3. ASSUME NEW x \in DOMAIN rows
      PROVE  /\ x \in 1..2 /\ rows[x] \in R!ReportExecution
             /\ rows[x].scheduled_report \in DOMAIN all.schedules \cup {None}
  <2>1. PICK row \in R!ReportExecution : row = all.executions[x] /\ x \in 1..2
    BY <1>2, ReportTables DEF TypedRows
  <2>2. rows[x] = IF row.scheduled_report \in DOMAIN all.schedules \cup {None} THEN row
                  ELSE [row EXCEPT !.scheduled_report = None]
    BY <1>1, <1>2, <2>1 DEF R!Orphaned
  <2>3. QED
    BY <2>1, <2>2 DEF R!ReportExecution
<1>4. TypedRows(ReportSchema, after)
  BY <1>2, <1>3, ReportTables DEF TypedRows
<1>5. QED
  BY <1>2, <1>3, <1>4

\* A step keeps reports typed, and executions with their schedules.
LEMMA ReportsTypedStep ==
    ASSUME part = "reports", ReportsTypedInv, MCNext
    PROVE  ReportsTypedInv'
<1>1. R!Next
  BY DEF MCNext, RowsNext
<1>2. TypedRows(ReportSchema, db) /\ seq \in Nat \ {0}
  BY DEF ReportsTypedInv, Typed
<1>3. ASSUME NEW w \in Pair, R!Schedule(w) \/ R!Run(w) \/ R!Design(w)
      PROVE  ReportsTypedInv'
  <2>1. Holds(ReportSchema, w)
    BY <1>2, <1>3, ReportsHeld
  <2>2. db' = db
    BY <2>1 DEF Holds
  <2>3. QED
    BY <2>1, <2>2, HeldTyped DEF ReportsTypedInv
<1>4. ASSUME NEW w \in Pair, R!CommitReports(w)
      PROVE  ReportsTypedInv'
  <2>1. PICK all : all = R!AfterAll(req[w])
    OBVIOUS
  <2>2. /\ req[w] # None /\ db' = [all EXCEPT !.executions = R!Orphaned(all)]
        /\ req' = [req EXCEPT ![w] = None] /\ seq' = seq
    BY <1>4, <2>1 DEF R!CommitReports, R!CommitAs, R!Free
  <2>3. all = Merged(req[w])
    BY <2>1, ReportOps DEF R!AfterAll, Merged
  <2>4. PICK changes : changes = req[w] /\ TypedChanges(ReportSchema, changes)
    BY <2>2 DEF ReportsTypedInv, Typed
  <2>5. TypedRows(ReportSchema, all)
    BY <1>2, <2>3, <2>4, MergedTyped
  <2>6. /\ TypedRows(ReportSchema, db')
        /\ \A x \in DOMAIN db'.executions :
               db'.executions[x].scheduled_report \in DOMAIN db'.schedules \cup {None}
    BY <2>2, <2>5, ReportsCommitted
  <2>7. QED
    BY <2>2, <2>6, TypedCommit DEF ReportsTypedInv
<1>5. ASSUME NEW w \in Pair, R!Rollback(w)
      PROVE  ReportsTypedInv'
  <2>1. db' = db /\ req' = [req EXCEPT ![w] = None] /\ seq' = seq
    BY <1>5 DEF R!Rollback
  <2>2. TypedRows(ReportSchema, db')
    BY <1>2, <2>1
  <2>3. QED
    BY <2>1, <2>2, TypedCommit DEF ReportsTypedInv
<1>6. ASSUME NEW r, R!ComesDue(r)
      PROVE  ReportsTypedInv'
  <2>1. PICK rows, rows2 : rows = db.schedules /\ rows2 = [rows EXCEPT ![r].next_run_at = "due"]
    OBVIOUS
  <2>2. UNCHANGED <<seq, req>> /\ r \in DOMAIN rows /\ db' = [db EXCEPT !.schedules = rows2]
    BY <1>6, <2>1 DEF R!ComesDue
  <2>3. /\ DOMAIN db' = DOMAIN db /\ db'.schedules = rows2 /\ DOMAIN rows2 = DOMAIN rows
        /\ db'.executions = db.executions /\ db'.templates = db.templates
    BY <1>2, <2>1, <2>2, ReportTables DEF TypedRows
  <2>4. \A i \in DOMAIN rows : i \in 1..2 /\ rows[i] \in R!ScheduledReport
    BY <1>2, <2>1, ReportTables DEF TypedRows
  <2>5. \A i \in DOMAIN rows2 : i \in 1..2 /\ rows2[i] \in R!ScheduledReport
    BY <2>1, <2>4 DEF R!ScheduledReport
  <2>6. TypedRows(ReportSchema, db')
    BY <1>2, <2>3, <2>5, ReportTables DEF TypedRows
  <2>7. QED
    BY <2>1, <2>2, <2>3, <2>6, TypedTime DEF ReportsTypedInv
<1>7. QED
  BY <1>1, <1>3, <1>4, <1>5, <1>6 DEF R!Next

\* At first there are no reports.
LEMMA ReportsTypedStart ==
    ASSUME part = "reports", MCInit
    PROVE  ReportsTypedInv
<1>1. R!NoRows = Q!NoRows /\ DOMAIN Q!NoRows = {}
  BY DEF R!NoRows, Q!NoRows
<1>2. db = [t \in DOMAIN ReportSchema |-> Q!NoRows] /\ seq = 1 /\ req = [w \in Pair |-> None]
  BY <1>1, ReportTables DEF MCInit, PartInit, R!Init, R!Start
<1>3. DOMAIN db.executions = {}
  BY <1>1, <1>2, ReportTables
<1>4. QED
  BY <1>2, <1>3, TypedStart DEF ReportsTypedInv

\* The invariant is stronger than the types.
LEMMA ReportsTyped ==
    ASSUME ReportsTypedInv
    PROVE  R!TypeOK
BY ReportTables DEF ReportsTypedInv, Typed, TypedRows, R!TypeOK, R!IsTable

-------------------------------------------------------------------------------
(* The amounts of time entries *)

EntryColumns ==
    [user |-> User, status |-> E!TimeEntryStatus, is_billable |-> BOOLEAN,
     hourly_rate |-> {"r1", None}, duration_minutes |-> 0..2,
     amount |-> ((0..2) \X {"r1"}) \cup {None}, is_running |-> BOOLEAN]
EntrySchema == [entries |-> [e \in 1..2 |-> EntryColumns]]

\* The schema of time entries is the row of the model's type.
LEMMA EntryRows ==
    /\ DOMAIN EntrySchema = {"entries"} /\ DOMAIN EntrySchema.entries = 1..2
    /\ \A e \in 1..2 : EntrySchema.entries[e] = EntryColumns
    /\ Cols(EntryColumns) = E!TimeEntry
<1>1. \A r : r \in Cols(EntryColumns) <=> r \in E!TimeEntry
  BY InCols DEF EntryColumns, E!TimeEntry, E!Minutes
<1>2. QED
  BY <1>1 DEF EntrySchema

\* Time entries are committed and rolled back as Transacts says.
LEMMA EntryTransacts ==
    ASSUME NEW schema, NEW w, seq \in Nat,
           \/ E!Commit(w) \/ E!Rollback(w)
           \/ \E changes : /\ TypedChanges(schema, changes)
                           /\ E!Hold(w, changes) \/ E!HoldNew(w, changes)
    PROVE  Transacts(schema, w)
<1>1. \A changes : E!AfterAll(changes) = Merged(changes)
  BY EntryOps DEF E!AfterAll, Merged
<1>2. QED
  BY <1>1 DEF Transacts, E!Hold, E!HoldNew, E!Commit, E!CommitAs, E!Free, E!Rollback

\* An entry to be billed has the amount of its minutes and rate; so has one that a write
\* of the request in progress leaves.
GoodAmount(row) ==
    row.is_billable /\ row.hourly_rate # None /\ row.duration_minutes > 0
        => row.amount = <<row.duration_minutes, row.hourly_rate>>

GoodEntryWrite(e, write) ==
    /\ TypedWrite(EntrySchema.entries, e, write)
    /\ write.op \in {"insert", "update", "delete"}
    /\ write.op = "insert" => GoodAmount(write.cols)
    /\ write.op = "update" /\ e \in DOMAIN db.entries => GoodAmount(Q!Written(db.entries[e], write))

AmountsInv ==
    /\ Typed(EntrySchema, Alone)
    /\ \A e \in DOMAIN db.entries : GoodAmount(db.entries[e])
    /\ \A w \in Alone : req[w] # None =>
           /\ DOMAIN req[w] = {"entries"}
           /\ \A e \in DOMAIN req[w].entries : GoodEntryWrite(e, req[w].entries[e])

\* A request whose writes are good, held by the worker that was free.
AmountHeld(w) ==
    \E ws : /\ db' = db /\ req' = [req EXCEPT ![w] = [entries |-> ws]]
            /\ seq' \in {seq, seq + 1}
            /\ \A e \in DOMAIN ws : GoodEntryWrite(e, ws[e])

\* A new entry with the amount of its minutes and rate is good to insert.
LEMMA AmountNew ==
    ASSUME NEW w, seq \in Nat \ {0}, NEW row \in E!TimeEntry, GoodAmount(row),
           E!HoldNew(w, [entries |-> [e \in {seq} |-> E!Insert(row)]])
    PROVE  AmountHeld(w)
<1>1. seq \in 1..2
  BY DEF E!HoldNew
<1>2. PICK write : write = Q!Insert(row) /\ write.op = "insert" /\ write.cols = row
  BY InsertOp
<1>3. TypedWrite(EntrySchema.entries, seq, write)
  BY <1>1, <1>2, EntryRows, TypedInsert
<1>4. GoodEntryWrite(seq, write)
  BY <1>2, <1>3 DEF GoodEntryWrite
<1>5. PICK ws : ws = [e \in {seq} |-> write] /\ ws = [e \in {seq} |-> E!Insert(row)]
  BY <1>2, EntryOps
<1>6. \A e \in DOMAIN ws : GoodEntryWrite(e, ws[e])
  BY <1>4, <1>5
<1>7. QED
  BY <1>5, <1>6 DEF E!HoldNew, AmountHeld

\* Assigning every column replaces the row.
LEMMA EntryReplaced ==
    ASSUME NEW row \in E!TimeEntry, NEW new \in E!TimeEntry
    PROVE  Q!Written(row, Q!Assign(row, new)) = new
<1>1. DOMAIN row = DOMAIN new /\ new = [c \in DOMAIN new |-> new[c]]
  BY DEF E!TimeEntry
<1>2. PICK after : after = Q!Written(row, Q!Assign(row, new))
  OBVIOUS
<1>3. DOMAIN after = DOMAIN row /\ \A c \in DOMAIN row : after[c] = new[c]
  <2>1. "user" \in DOMAIN row
    BY DEF E!TimeEntry
  <2>2. QED
    BY <1>1, <1>2, <2>1, Assigning
<1>4. after = [c \in DOMAIN row |-> after[c]]
  <2>1. Q!Assign(row, new).op = "update"
    BY AssignedColumns
  <2>2. QED
    BY <1>2, <1>3, <2>1 DEF Q!Written
<1>5. QED
  BY <1>1, <1>2, <1>3, <1>4

\* Assigning columns is good when the row it leaves has its amount.
LEMMA AmountSet ==
    ASSUME Typed(EntrySchema, Alone), NEW w, NEW e \in DOMAIN db.entries,
           NEW cols, E!Set(w, e, cols), Fit(cols, EntryColumns),
           GoodAmount(Q!Written(db.entries[e], Q!Assign(db.entries[e], cols)))
    PROVE  AmountHeld(w)
<1>1. e \in 1..2 /\ EntrySchema.entries[e] = EntryColumns
  BY EntryRows DEF Typed, TypedRows
<1>2. PICK write : write = Q!Assign(db.entries[e], cols) /\ write.op = "update"
  BY AssignedColumns
<1>3. TypedWrite(EntrySchema.entries, e, write)
  BY <1>1, <1>2, TypedColumns
<1>4. GoodEntryWrite(e, write)
  BY <1>2, <1>3 DEF GoodEntryWrite
<1>5. PICK ws : ws = [i \in {e} |-> write] /\ ws = [i \in {e} |-> E!Assign(db.entries[e], cols)]
  BY <1>2, EntryOps
<1>6. \A i \in DOMAIN ws : GoodEntryWrite(i, ws[i])
  BY <1>4, <1>5
<1>7. QED
  BY <1>5, <1>6 DEF E!Set, E!Hold, AmountHeld

\* Columns that no amount depends on.
LEMMA AmountKept ==
    ASSUME NEW row \in E!TimeEntry, GoodAmount(row), NEW write, write.op = "update",
           DOMAIN write.cols \subseteq {"status", "is_running"}
    PROVE  GoodAmount(Q!Written(row, write))
<1>1. {"is_billable", "hourly_rate", "duration_minutes", "amount"} \subseteq DOMAIN row
  BY DEF E!TimeEntry
<1>2. PICK new : new = Q!Written(row, write)
  OBVIOUS
<1>3. /\ new.is_billable = row.is_billable /\ new.hourly_rate = row.hourly_rate
      /\ new.duration_minutes = row.duration_minutes /\ new.amount = row.amount
  BY <1>1, <1>2, Updating
<1>4. QED
  BY <1>2, <1>3 DEF GoodAmount

\* Every handler of time entries writes what is typed and has its amount.
LEMMA AmountHandlers ==
    ASSUME Typed(EntrySchema, Alone), \A e \in DOMAIN db.entries : GoodAmount(db.entries[e]),
           NEW w \in Alone, E!RecordTime(w) \/ E!UseTimer(w) \/ E!Approve(w)
    PROVE  AmountHeld(w)
<1>1. /\ seq \in Nat \ {0}
      /\ \A e \in DOMAIN db.entries :
             e \in 1..2 /\ db.entries[e] \in E!TimeEntry /\ GoodAmount(db.entries[e])
  BY EntryRows DEF Typed, TypedRows
<1>2. ASSUME NEW u \in User, NEW b \in BOOLEAN, NEW rate \in {"r1", None}, NEW m \in 0..2
      PROVE  /\ E!NewEntry(u, b, rate, m) \in E!TimeEntry
             /\ GoodAmount(E!NewEntry(u, b, rate, m))
  <2>1. PICK off \in BOOLEAN : off = FALSE
    BY Zenon
  <2>2. PICK amount : amount = E!CalculatedAmount(b, rate, m)
    OBVIOUS
  <2>3. amount \in ((0..2) \X {"r1"}) \cup {None}
    BY <2>2 DEF E!CalculatedAmount
  <2>4. E!NewEntry(u, b, rate, m) =
            [user |-> u, status |-> "draft", is_billable |-> b, hourly_rate |-> rate,
             duration_minutes |-> m, amount |-> amount, is_running |-> off]
    BY <2>1, <2>2, Zenon DEF E!NewEntry
  <2>5. PICK row : row = E!NewEntry(u, b, rate, m)
    OBVIOUS
  <2>6. row \in E!TimeEntry
    BY <2>3, <2>4, <2>5 DEF E!TimeEntry, E!Minutes, E!TimeEntryStatus
  <2>7. /\ row.is_billable = b /\ row.hourly_rate = rate /\ row.duration_minutes = m
        /\ row.amount = amount
    BY <2>4, <2>5
  <2>8. GoodAmount(row)
    BY <2>2, <2>7 DEF GoodAmount, E!CalculatedAmount
  <2>9. QED
    BY <2>5, <2>6, <2>8
<1>3. ASSUME NEW e \in DOMAIN db.entries, NEW new \in E!TimeEntry, GoodAmount(new), E!Set(w, e, new)
      PROVE  AmountHeld(w)
  <2>1. new \in Cols(EntryColumns)
    BY EntryRows
  <2>2. Fit(new, EntryColumns)
    BY <2>1, InCols DEF Fit
  <2>3. QED
    BY <1>1, <1>3, <2>2, EntryReplaced, AmountSet
<1>4. ASSUME NEW e \in DOMAIN db.entries, NEW cols, DOMAIN cols \subseteq {"status", "is_running"},
             Fit(cols, EntryColumns), E!Set(w, e, cols)
      PROVE  AmountHeld(w)
  <2>1. PICK write : /\ write = Q!Assign(db.entries[e], cols) /\ write.op = "update"
                     /\ DOMAIN write.cols \subseteq {"status", "is_running"}
    BY <1>4, AssignedColumns
  <2>2. GoodAmount(Q!Written(db.entries[e], write))
    BY <1>1, <2>1, AmountKept
  <2>3. QED
    BY <1>4, <2>1, <2>2, AmountSet
<1>5. ASSUME NEW u \in User, NEW b \in BOOLEAN, NEW rate \in {"r1", None}, NEW m \in 0..2,
             E!CreateEntry(w, u, b, rate, m)
      PROVE  AmountHeld(w)
  BY <1>1, <1>2, <1>5, AmountNew DEF E!CreateEntry
<1>6. ASSUME NEW b \in BOOLEAN, NEW rate \in {"r1", None}, NEW m \in 0..2, NEW e,
             E!UpdateEntry(w, e, b, rate, m)
      PROVE  AmountHeld(w)
  <2>1. PICK row : row = [db.entries[e] EXCEPT
           !.status = "draft", !.is_billable = b,
           !.hourly_rate = IF rate = None THEN @ ELSE rate, !.duration_minutes = m]
    OBVIOUS
  <2>2. e \in DOMAIN db.entries /\ E!Set(w, e, E!Recalculated(row))
    BY <1>6, <2>1 DEF E!UpdateEntry, E!Editable, E!Status, E!Exists
  <2>3. row \in E!TimeEntry
    BY <1>1, <2>1, <2>2 DEF E!TimeEntry, E!TimeEntryStatus, E!Minutes
  <2>4. PICK amount : amount = E!CalculatedAmount(row.is_billable, row.hourly_rate, row.duration_minutes)
    OBVIOUS
  <2>5. PICK new : new = E!Recalculated(row)
    OBVIOUS
  <2>6. /\ row.duration_minutes \in 0..2 /\ row.hourly_rate \in {"r1", None}
        /\ row.is_billable \in BOOLEAN
    BY <2>3 DEF E!TimeEntry, E!Minutes
  <2>7. CASE amount = None
    <3>1. new = row
      BY <2>4, <2>5, <2>7 DEF E!Recalculated
    <3>2. ~(row.is_billable /\ row.hourly_rate # None /\ row.duration_minutes > 0)
      BY <2>4, <2>6, <2>7, NullAssumption DEF E!CalculatedAmount, E!Minutes
    <3>3. GoodAmount(new)
      BY <3>1, <3>2 DEF GoodAmount
    <3>4. QED
      BY <1>3, <2>2, <2>3, <2>5, <3>1, <3>3
  <2>8. CASE amount # None
    <3>1. new = [row EXCEPT !.amount = amount]
      BY <2>4, <2>5, <2>8 DEF E!Recalculated
    <3>2. amount = <<row.duration_minutes, row.hourly_rate>> /\ row.hourly_rate = "r1"
      BY <2>4, <2>6, <2>8 DEF E!CalculatedAmount
    <3>3. new \in E!TimeEntry
      BY <2>3, <2>6, <3>1, <3>2 DEF E!TimeEntry, E!Minutes
    <3>4. /\ new.amount = amount /\ new.duration_minutes = row.duration_minutes
          /\ new.hourly_rate = row.hourly_rate
      BY <2>3, <3>1 DEF E!TimeEntry
    <3>5. GoodAmount(new)
      BY <3>2, <3>4 DEF GoodAmount
    <3>6. QED
      BY <1>3, <2>2, <2>5, <3>3, <3>5
  <2>9. QED
    BY <2>7, <2>8
<1>7. ASSUME NEW u, NEW e, E!StartTimer(w, u, e)
      PROVE  AmountHeld(w)
  <2>1. PICK on \in BOOLEAN : on = TRUE
    BY Zenon
  <2>2. PICK cols : cols = [is_running |-> on] /\ cols = [is_running |-> TRUE]
    BY <2>1, Zenon
  <2>3. DOMAIN cols \subseteq {"status", "is_running"} /\ Fit(cols, EntryColumns)
    BY <2>2 DEF Fit, EntryColumns
  <2>4. QED
    BY <1>4, <1>7, <2>2, <2>3 DEF E!StartTimer, E!Exists
<1>8. ASSUME NEW u \in User, E!StartNewTimer(w, u)
      PROVE  AmountHeld(w)
  <2>1. PICK on \in BOOLEAN : on = TRUE
    BY Zenon
  <2>2. PICK new : new = E!NewEntry(u, on, None, 0)
    OBVIOUS
  <2>3. new = E!NewEntry(u, TRUE, None, 0)
    BY <2>1, <2>2, Zenon
  <2>4. new \in E!TimeEntry
    BY <1>2, <2>2
  <2>5. new.hourly_rate = None
    BY <2>2 DEF E!NewEntry
  <2>6. PICK row : row = [new EXCEPT !.is_running = on] /\ row = [new EXCEPT !.is_running = TRUE]
    BY <2>1, Zenon
  <2>7. row \in E!TimeEntry /\ row.hourly_rate = None
    BY <2>4, <2>5, <2>6 DEF E!TimeEntry
  <2>8. E!HoldNew(w, [entries |-> [e \in {seq} |-> E!Insert(row)]])
    BY <1>8, <2>3, <2>6 DEF E!StartNewTimer
  <2>9. QED
    BY <1>1, <2>7, <2>8, AmountNew DEF GoodAmount
<1>9. ASSUME NEW u, NEW e, NEW elapsed \in 0..1, E!StopTimer(w, u, e, elapsed)
      PROVE  AmountHeld(w)
  <2>1. /\ e \in DOMAIN db.entries /\ E!Set(w, e, E!Stopped(db.entries[e], elapsed))
        /\ db.entries[e].duration_minutes + elapsed <= 2
    BY <1>9 DEF E!StopTimer, E!RunningTimers
  <2>2. PICK row \in E!TimeEntry : row = db.entries[e] /\ GoodAmount(row)
    BY <1>1, <2>1
  <2>3. PICK minutes : minutes = row.duration_minutes + elapsed /\ minutes \in 0..2
    BY <2>1, <2>2 DEF E!TimeEntry, E!Minutes
  <2>4. PICK off \in BOOLEAN : off = FALSE
    BY Zenon
  <2>5. PICK new : new = E!Stopped(row, elapsed)
    OBVIOUS
  <2>6. new = [row EXCEPT
            !.duration_minutes = minutes, !.is_running = off,
            !.amount = IF row.is_billable /\ row.hourly_rate # None
                       THEN <<minutes, row.hourly_rate>> ELSE @]
    BY <2>3, <2>4, <2>5, Zenon DEF E!Stopped
  <2>7. /\ row.hourly_rate \in {"r1", None} /\ new \in E!TimeEntry
        /\ new.is_billable = row.is_billable /\ new.hourly_rate = row.hourly_rate
        /\ new.duration_minutes = minutes
        /\ row.is_billable /\ row.hourly_rate # None => new.amount = <<minutes, row.hourly_rate>>
    <3>1. PICK amount : amount = IF row.is_billable /\ row.hourly_rate # None
                                 THEN <<minutes, row.hourly_rate>> ELSE row.amount
      OBVIOUS
    <3>2. row.hourly_rate \in {"r1", None} /\ minutes \in E!Minutes /\ row.amount \in {row.amount}
      BY <2>2, <2>3 DEF E!TimeEntry, E!Minutes
    <3>3. amount \in (E!Minutes \X {"r1"}) \cup {None}
      BY <2>2, <3>1, <3>2 DEF E!TimeEntry
    <3>4. new = [row EXCEPT !.duration_minutes = minutes, !.is_running = off, !.amount = amount]
      BY <2>2, <2>6, <3>1 DEF E!TimeEntry
    <3>5. new \in E!TimeEntry
      BY <2>2, <3>2, <3>3, <3>4 DEF E!TimeEntry
    <3>6. /\ new.is_billable = row.is_billable /\ new.hourly_rate = row.hourly_rate
          /\ new.duration_minutes = minutes /\ new.amount = amount
      BY <2>2, <3>4 DEF E!TimeEntry
    <3>7. QED
      BY <3>1, <3>2, <3>5, <3>6
  <2>8. GoodAmount(new)
    BY <2>7 DEF GoodAmount
  <2>9. QED
    BY <1>3, <2>1, <2>2, <2>5, <2>7, <2>8
<1>10. ASSUME NEW e \in DOMAIN db.entries, NEW s \in E!TimeEntryStatus, E!Set(w, e, [status |-> s])
      PROVE  AmountHeld(w)
  <2>1. PICK cols : cols = [status |-> s]
    OBVIOUS
  <2>2. DOMAIN cols \subseteq {"status", "is_running"} /\ Fit(cols, EntryColumns)
    BY <2>1 DEF Fit, EntryColumns
  <2>3. QED
    BY <1>4, <1>10, <2>1, <2>2
<1>11. ASSUME NEW es, es \subseteq DOMAIN db.entries, NEW write,
              write = Q!Delete \/ \E s \in E!TimeEntryStatus : write = Q!Update([status |-> s]),
              E!Hold(w, [entries |-> E!Each(es, write)])
       PROVE  AmountHeld(w)
  <2>1. PICK ws : ws = E!Each(es, write)
    OBVIOUS
  <2>2. DOMAIN ws = es /\ \A i \in es : ws[i] = write
    BY <2>1 DEF E!Each
  <2>3. ASSUME NEW e \in es PROVE GoodEntryWrite(e, write)
    <3>1. e \in 1..2 /\ EntrySchema.entries[e] = EntryColumns
      BY <1>1, <1>11, EntryRows
    <3>2. CASE write = Q!Delete
      BY <3>2, TypedDelete, DeleteOp DEF GoodEntryWrite
    <3>3. ASSUME NEW s \in E!TimeEntryStatus, write = Q!Update([status |-> s])
          PROVE  GoodEntryWrite(e, write)
      <4>1. PICK cols : cols = [status |-> s]
        OBVIOUS
      <4>2. write.op = "update" /\ write.cols = cols
        BY <3>3, <4>1, UpdateOp
      <4>3. Fit(cols, EntryColumns)
        BY <4>1 DEF Fit, EntryColumns
      <4>4. TypedWrite(EntrySchema.entries, e, write)
        BY <3>1, <3>3, <4>1, <4>3, TypedColumns
      <4>5. e \in DOMAIN db.entries /\ DOMAIN write.cols \subseteq {"status", "is_running"}
        BY <4>1, <4>2, <1>11
      <4>6. GoodAmount(Q!Written(db.entries[e], write))
        BY <1>1, <4>2, <4>5, AmountKept
      <4>7. QED
        BY <4>2, <4>4, <4>6 DEF GoodEntryWrite
    <3>4. QED
      BY <1>11, <3>2, <3>3
  <2>4. QED
    BY <1>11, <2>1, <2>3, <2>2 DEF E!Hold, AmountHeld
<1>12. ASSUME NEW e, E!DeleteEntry(w, e)
       PROVE  AmountHeld(w)
  <2>1. /\ {e} \subseteq DOMAIN db.entries
        /\ E!Hold(w, [entries |-> E!Each({e}, Q!Delete)])
    BY <1>12, EntryOps DEF E!Each, E!DeleteEntry, E!Exists
  <2>2. QED
    BY <1>11, <2>1
<1>13. ASSUME NEW es, E!BulkApprove(w, es) \/ E!LinkToInvoice(w, es)
       PROVE  AmountHeld(w)
  <2>1. ASSUME NEW some, some \subseteq DOMAIN db.entries, NEW s \in E!TimeEntryStatus,
               E!Hold(w, [entries |-> E!Each(some, E!Update([status |-> s]))])
        PROVE  AmountHeld(w)
    BY <1>11, <2>1, EntryOps
  <2>2. {"approved", "invoiced"} \subseteq E!TimeEntryStatus
    BY DEF E!TimeEntryStatus
  <2>3. /\ {e \in es : E!Approved(e)} \subseteq DOMAIN db.entries
        /\ {e \in es : E!Billable(e)} \subseteq DOMAIN db.entries
    BY DEF E!Approved, E!Billable, E!Status, E!Exists
  <2>4. QED
    BY <1>13, <2>1, <2>2, <2>3 DEF E!BulkApprove, E!LinkToInvoice
<1>14. ASSUME NEW e, NEW u, E!SubmitEntry(w, e, u) \/ E!ApproveEntry(w, e) \/ E!RejectEntry(w, e)
       PROVE  AmountHeld(w)
  <2>1. {"submitted", "approved", "rejected"} \subseteq E!TimeEntryStatus
    BY DEF E!TimeEntryStatus
  <2>2. QED
    BY <1>10, <1>14, <2>1 DEF E!SubmitEntry, E!MaySubmit, E!ApproveEntry, E!RejectEntry, E!Approved,
                             E!Status, E!Exists
<1>15. CASE E!RecordTime(w)
  BY <1>5, <1>6, <1>15 DEF E!RecordTime, E!Minutes
<1>16. CASE E!UseTimer(w)
  BY <1>7, <1>8, <1>9, <1>16 DEF E!UseTimer, E!StopRunningTimer
<1>17. CASE E!Approve(w)
  BY <1>12, <1>13, <1>14, <1>17 DEF E!Approve
<1>18. QED
  BY <1>15, <1>16, <1>17

\* A step keeps entries typed and their amounts those of minutes and rate.
LEMMA AmountsStep ==
    ASSUME part = "time_entries", AmountsInv, MCNext
    PROVE  AmountsInv'
<1>1. E!Next /\ \A v, w \in Alone : v = w
  BY AloneAssumption DEF MCNext, RowsNext
<1>2. ASSUME NEW w \in Alone, E!RecordTime(w) \/ E!UseTimer(w) \/ E!Approve(w)
      PROVE  AmountsInv'
  <2>1. PICK ws : /\ db' = db /\ req' = [req EXCEPT ![w] = [entries |-> ws]]
                  /\ seq' \in {seq, seq + 1}
                  /\ \A e \in DOMAIN ws : GoodEntryWrite(e, ws[e])
    BY <1>2, AmountHandlers DEF AmountsInv, AmountHeld
  <2>2. PICK changes : changes = [entries |-> ws]
    OBVIOUS
  <2>3. DOMAIN changes = {"entries"} /\ changes.entries = ws
    BY <2>2
  <2>4. TypedChanges(EntrySchema, changes)
    BY <2>1, <2>3, EntryRows DEF TypedChanges, GoodEntryWrite
  <2>5. Typed(EntrySchema, Alone)'
    BY <2>1, <2>2, <2>4, TypedStep DEF AmountsInv, Transacts
  <2>6. \A v \in Alone : req'[v] = changes
    BY <1>1, <2>1, <2>2 DEF AmountsInv, Typed
  <2>7. QED
    BY <2>1, <2>3, <2>5, <2>6 DEF AmountsInv, GoodEntryWrite
<1>3. ASSUME NEW w \in Alone, E!Commit(w)
      PROVE  AmountsInv'
  <2>1. /\ req[w] # None /\ req' = [req EXCEPT ![w] = None] /\ db' = E!AfterAll(req[w])
    BY <1>3 DEF E!Commit, E!CommitAs, E!Free
  <2>2. PICK ws : ws = req[w].entries /\ \A e \in DOMAIN ws : GoodEntryWrite(e, ws[e])
    BY <2>1 DEF AmountsInv
  <2>3. db'.entries = Q!After(db.entries, ws)
    BY <2>1, <2>2, EntryOps, EntryRows DEF AmountsInv, Typed, TypedRows, E!AfterAll
  <2>4. \A e \in DOMAIN db'.entries : GoodAmount(db'.entries[e])
    BY <2>2, <2>3, RowAfter DEF AmountsInv, GoodEntryWrite
  <2>5. Typed(EntrySchema, Alone)'
    BY <1>3, EntryTransacts, TypedStep DEF AmountsInv, Typed
  <2>6. \A v \in Alone : req'[v] = None
    BY <1>1, <2>1 DEF AmountsInv, Typed
  <2>7. QED
    BY <2>4, <2>5, <2>6 DEF AmountsInv
<1>4. ASSUME NEW w \in Alone, E!Rollback(w)
      PROVE  AmountsInv'
  <2>1. db' = db /\ req' = [req EXCEPT ![w] = None]
    BY <1>4 DEF E!Rollback
  <2>2. Typed(EntrySchema, Alone)'
    BY <1>4, EntryTransacts, TypedStep DEF AmountsInv, Typed
  <2>3. \A v \in Alone : req'[v] = None
    BY <1>1, <2>1 DEF AmountsInv, Typed
  <2>4. QED
    BY <2>1, <2>2, <2>3 DEF AmountsInv
<1>5. QED
  BY <1>1, <1>2, <1>3, <1>4 DEF E!Next

\* At first there are no time entries.
LEMMA AmountsStart ==
    ASSUME part = "time_entries", MCInit
    PROVE  AmountsInv
<1>1. E!NoRows = Q!NoRows /\ DOMAIN Q!NoRows = {}
  BY DEF E!NoRows, Q!NoRows
<1>2. db = [t \in DOMAIN EntrySchema |-> Q!NoRows] /\ seq = 1 /\ req = [w \in Alone |-> None]
  BY <1>1, EntryRows DEF MCInit, PartInit, E!Init, E!Start
<1>3. Typed(EntrySchema, Alone)
  BY <1>2, TypedStart
<1>4. QED
  BY <1>1, <1>2, <1>3, EntryRows DEF AmountsInv

\* The invariant is stronger than the types and the amounts.
LEMMA EntriesTyped ==
    ASSUME AmountsInv
    PROVE  E!TypeOK /\ E!AmountMatches
<1>1. \A e \in DOMAIN db.entries : e \in 1..2 /\ db.entries[e] \in E!TimeEntry
  BY EntryRows DEF AmountsInv, Typed, TypedRows
<1>2. E!AmountMatches
  BY DEF AmountsInv, GoodAmount, E!AmountMatches
<1>3. QED
  BY <1>1, <1>2 DEF E!TypeOK
================================================================================
