-------------------------------- MODULE Requests --------------------------------
(***************************************************************************)
(* Requests over a shared database: the transaction that get_db of           *)
(* db/session.py wraps around every handler, and the BaseDAO operations a     *)
(* handler writes rows with.                                                  *)
(*                                                                          *)
(* A handler reads committed rows, decides, and collects writes in its own   *)
(* ORM session: whole rows to insert, the columns it assigned, rows to        *)
(* delete.  They take effect together when the response is ready, over       *)
(* whatever other requests have committed in between.  Component modules      *)
(* extend this one, name their tables and add an action per handler.          *)
(***************************************************************************)
EXTENDS Naturals, FiniteSets

CONSTANTS
    Worker,     \* requests that can be in progress at once
    MaxId,      \* bound on the ids that the database hands out
    None        \* a null column; also a worker with nothing to commit

VARIABLES
    db,         \* db[t]: the committed rows of table t, by id
    seq,        \* the next id; ids are handed out once, rolled back or not
    req         \* req[w]: what worker w's request is about to write, by table

dbvars == <<db, seq, req>>

-------------------------------------------------------------------------------
(* Writes *)

NoRows == [i \in {} |-> None]
Insert(row) == [op |-> "insert", cols |-> row]
Update(cols) == [op |-> "update", cols |-> cols]
\* The ORM writes the columns whose values differ from what the request read.
Assign(row, cols) == Update([c \in {d \in DOMAIN cols : cols[d] # row[d]} |-> cols[c]])
Increase(col) == [op |-> "increase", cols |-> col]  \* SET col = col + 1
Delete == [op |-> "delete"]

\* The same write for each of a set of rows; the union of two sets of writes.
Each(ids, write) == [i \in ids |-> write]
Both(ws, xs) == [i \in DOMAIN ws \cup DOMAIN xs |-> IF i \in DOMAIN xs THEN xs[i] ELSE ws[i]]

Written(row, write) ==
    IF write.op = "increase"
    THEN [row EXCEPT ![write.cols] = @ + 1]
    ELSE [c \in DOMAIN row |-> IF c \in DOMAIN write.cols THEN write.cols[c] ELSE row[c]]

\* The rows of a table after a set of writes.  A row that is gone stays gone.
After(rows, writes) ==
    LET gone == {i \in DOMAIN writes : writes[i].op = "delete"}
        new == {i \in DOMAIN writes : writes[i].op = "insert"}
    IN  [i \in (DOMAIN rows \cup new) \ gone |->
            CASE i \in new -> writes[i].cols
              [] i \in DOMAIN writes \ new -> Written(rows[i], writes[i])
              [] OTHER -> rows[i]]

AfterAll(changes) ==
    [t \in DOMAIN db |-> IF t \in DOMAIN changes THEN After(db[t], changes[t]) ELSE db[t]]

-------------------------------------------------------------------------------
(* Transactions *)

Free(w) == req[w] = None

\* The handler has run: its writes wait for the end of the request.
Hold(w, changes) ==
    /\ Free(w)
    /\ req' = [req EXCEPT ![w] = changes]
    /\ UNCHANGED <<db, seq>>

\* The same for a handler that inserted a row under the next id.
HoldNew(w, changes) ==
    /\ Free(w) /\ seq <= MaxId
    /\ req' = [req EXCEPT ![w] = changes]
    /\ seq' = seq + 1
    /\ UNCHANGED db

\* An insert finds its unique key free; an update finds its row
\* (StaleDataError, IntegrityError otherwise).
Fits(changes) ==
    \A t \in DOMAIN changes : \A i \in DOMAIN changes[t] :
        /\ changes[t][i].op = "insert" => i \notin DOMAIN db[t]
        /\ changes[t][i].op \in {"update", "increase"} => i \in DOMAIN db[t]

CommitAs(w, after) ==
    /\ ~Free(w) /\ Fits(req[w])
    /\ db' = after
    /\ req' = [req EXCEPT ![w] = None]
    /\ UNCHANGED seq

Commit(w) == CommitAs(w, AfterAll(req[w]))

\* Anything in the handler raised, or the writes do not fit: roll back.
Rollback(w) ==
    /\ ~Free(w)
    /\ req' = [req EXCEPT ![w] = None]
    /\ UNCHANGED <<db, seq>>

Overlap == \E v, w \in Worker : v # w /\ ~Free(v) /\ ~Free(w)

\* A database whose tables are empty.
Start(tables) ==
    /\ db = [t \in tables |-> NoRows]
    /\ seq = 1
    /\ req = [w \in Worker |-> None]
===============================================================================
