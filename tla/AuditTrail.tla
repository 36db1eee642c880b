------------------------------ MODULE AuditTrail ------------------------------
(***************************************************************************)
(* A request that changes a row and audits the change in the same ORM        *)
(* session: get_db of db/session.py around a handler that calls              *)
(* AuditService.log_event of services/audit.py.                              *)
(*                                                                          *)
(* log_event swallows every exception of the INSERT.  But a failed flush     *)
(* rolls the session's transaction back and leaves it inactive: every later  *)
(* use of the session raises, and its objects are expired.                   *)
(***************************************************************************)
CONSTANT Request    \* requests, each of which changes one row once

VARIABLES
    kind,       \* kind[r]: the order of its steps
    at,         \* at[r]: the next step
    tx,         \* tx[r]: the state of its transaction
    pending,    \* pending[r]: what the transaction holds, uncommitted
    applied,    \* requests whose change is committed
    logged,     \* requests whose audit entry is committed
    reply       \* reply[r]: the response

vars == <<kind, at, tx, pending, applied, logged, reply>>

-------------------------------------------------------------------------------

\* Updates are audited after the write and answer with the row; deletions are
\* audited before it and answer with no content; webhooks answer with constants.
Kind == {"update", "delete", "webhook"}

After(k, step) ==
    CASE step = "write" -> IF k = "delete" THEN "commit" ELSE "audit"
      [] step = "audit" -> CASE k = "update" -> "respond"
                             [] k = "delete" -> "write"
                             [] k = "webhook" -> "commit"
      [] step = "respond" -> "commit"

Goto(r, step) == at' = [at EXCEPT ![r] = step]

\* get_db: roll back, raise; the client gets a 500.
Refuse(r) ==
    /\ Goto(r, "done")
    /\ tx' = [tx EXCEPT ![r] = "closed"]
    /\ pending' = [pending EXCEPT ![r] = {}]
    /\ reply' = [reply EXCEPT ![r] = "error"]
    /\ UNCHANGED <<applied, logged>>

-------------------------------------------------------------------------------

\* The handler's own statement; in an inactive transaction it raises.
Write(r) ==
    /\ at[r] = "write"
    /\ IF tx[r] = "active"
       THEN /\ Goto(r, After(kind[r], "write"))
            /\ pending' = [pending EXCEPT ![r] = @ \cup {"change"}]
            /\ UNCHANGED <<tx, applied, logged, reply>>
       ELSE Refuse(r)
    /\ UNCHANGED kind

LogEvent_OwnSession(r) ==            \* mutant: the entry is committed at once
    /\ at[r] = "audit"
    /\ Goto(r, After(kind[r], "audit"))
    /\ logged' = logged \cup {r}
    /\ UNCHANGED <<kind, tx, pending, applied, reply>>
LogEvent(r) ==
    /\ at[r] = "audit"
    /\ Goto(r, After(kind[r], "audit"))
    /\ pending' = [pending EXCEPT ![r] = @ \cup {"entry"}]
    /\ UNCHANGED <<kind, tx, applied, logged, reply>>

\* The entry cannot be stored (a Decimal or a date in its JSON, a missing actor):
\* log_event returns None and the handler goes on.  The change goes with the entry,
\* although log_event is meant not to break business operations.
LogEventFails(r) ==
    /\ at[r] = "audit"
    /\ Goto(r, After(kind[r], "audit"))
    /\ tx' = [tx EXCEPT ![r] = "inactive"]
    /\ pending' = [pending EXCEPT ![r] = {}]
    /\ UNCHANGED <<kind, applied, logged, reply>>

\* Building the response reads the row, which an inactive session cannot reload.
Respond(r) ==
    /\ at[r] = "respond"
    /\ IF tx[r] = "active"
       THEN Goto(r, "commit") /\ UNCHANGED <<tx, pending, applied, logged, reply>>
       ELSE Refuse(r)
    /\ UNCHANGED kind

Commit_Blind(r) ==                   \* mutant: answers whatever the commit did
    /\ at[r] = "commit"
    /\ Goto(r, "done")
    /\ tx' = [tx EXCEPT ![r] = "closed"]
    /\ pending' = [pending EXCEPT ![r] = {}]
    /\ applied' = IF "change" \in pending[r] THEN applied \cup {r} ELSE applied
    /\ logged' = IF "entry" \in pending[r] THEN logged \cup {r} ELSE logged
    /\ reply' = [reply EXCEPT ![r] = "ok"]
    /\ UNCHANGED kind
Commit(r) ==
    /\ at[r] = "commit"
    /\ IF tx[r] = "active"
       THEN /\ Goto(r, "done")
            /\ tx' = [tx EXCEPT ![r] = "closed"]
            /\ pending' = [pending EXCEPT ![r] = {}]
            /\ applied' = IF "change" \in pending[r] THEN applied \cup {r} ELSE applied
            /\ logged' = IF "entry" \in pending[r] THEN logged \cup {r} ELSE logged
            /\ reply' = [reply EXCEPT ![r] = "ok"]
       ELSE Refuse(r)
    /\ UNCHANGED kind

\* Any other error before the commit: the row has gone, the connection is lost.
Fault(r) ==
    /\ at[r] # "done"
    /\ Refuse(r)
    /\ UNCHANGED kind

-------------------------------------------------------------------------------

Init ==
    /\ kind \in [Request -> Kind]
    /\ at = [r \in Request |-> IF kind[r] = "delete" THEN "audit" ELSE "write"]
    /\ tx = [r \in Request |-> "active"]
    /\ pending = [r \in Request |-> {}]
    /\ applied = {} /\ logged = {}
    /\ reply = [r \in Request |-> "none"]

Next == \E r \in Request : \/ Write(r) \/ LogEvent(r) \/ LogEventFails(r)
                           \/ Respond(r) \/ Commit(r) \/ Fault(r)

Spec == Init /\ [][Next]_vars

-------------------------------------------------------------------------------
(* Properties *)

\* Every variable has its type.
TypeOK ==
    /\ kind \in [Request -> Kind]
    /\ at \in [Request -> {"write", "audit", "respond", "commit", "done"}]
    /\ tx \in [Request -> {"active", "inactive", "closed"}]
    /\ pending \in [Request -> SUBSET {"change", "entry"}]
    /\ applied \subseteq Request /\ logged \subseteq Request
    /\ reply \in [Request -> {"none", "ok", "error"}]

\* The audit log records only what happened: there is no entry for a change that was
\* rolled back or never made, although a deletion is audited before it is executed and
\* a request can fail at any step.  (What becomes of a change whose entry cannot be
\* stored is not part of it.)
EntriesAreTrue == logged \subseteq applied

\* A request is answered with success exactly when its change is committed.
ReplyIsTruth == \A r \in Request : reply[r] = "ok" <=> r \in applied

\* The strengthening of both: what a transaction holds at each step.
TransactionHolds ==
    \A r \in Request :
        /\ tx[r] # "active" => pending[r] = {}
        /\ tx[r] = "active" => at[r] # "done"
        /\ tx[r] # "closed" => r \notin applied \cup logged /\ reply[r] = "none"
        /\ tx[r] = "active" /\ at[r] \in {"respond", "commit"} =>
               pending[r] = {"change", "entry"}
        /\ tx[r] = "active" /\ at[r] = "audit" =>
               pending[r] = IF kind[r] = "delete" THEN {} ELSE {"change"}
        /\ tx[r] = "active" /\ at[r] = "write" =>
               pending[r] = IF kind[r] = "delete" THEN {"entry"} ELSE {}
===============================================================================
