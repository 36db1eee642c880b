------------------------------- MODULE Invoices -------------------------------
(***************************************************************************)
(* The invoice table, the admin endpoints of api/invoices.py, the checkout  *)
(* endpoint and the Stripe webhook, over the DAO of dao/invoice.py.          *)
(*                                                                          *)
(* A request runs in a worker.  It loads the row (no lock), decides on what  *)
(* it loaded, and changes the object in memory; the flush and the commit of  *)
(* get_db then write back only the columns that request changed, into        *)
(* whatever row is committed by then.  The two halves are two steps, so      *)
(* requests of different workers interleave between them.                    *)
(*                                                                          *)
(* Stripe is external: sessions are created by the checkout endpoint, paid   *)
(* by the customer, refunded from the dashboard, and each event is delivered *)
(* until it is acknowledged, possibly again afterwards, in any order.        *)
(***************************************************************************)
EXTENDS Naturals, FiniteSets

CONSTANTS
    Invoice,    \* ids of invoice rows
    Session,    \* Stripe Checkout Session ids; each has one PaymentIntent
    Worker,     \* requests that can be in progress at once
    Amount,     \* totals and manual payment amounts
    MaxPaid,    \* bound: a manual payment stops at this recorded balance
    None        \* a null column

ASSUME AmountAssumption == Amount \subseteq Nat \ {0}
ASSUME NoneAssumption == None \notin Session \cup Invoice

VARIABLES
    inv,        \* inv[i]: the committed row
    req,        \* req[w]: what worker w's request holds in its ORM session
    sess,       \* sess[s]: Stripe's view of Checkout Session s
    acked,      \* Stripe events answered with 200
    cash        \* cash[i]: ghost, manual payments accepted with 200

vars == <<inv, req, sess, acked, cash>>

-------------------------------------------------------------------------------
(* Rows *)

Status == {"draft", "sent", "partially_paid", "overdue",
           "paid", "cancelled", "refunded"}
Payable == {"sent", "partially_paid", "overdue"}
Settled == {"paid", "refunded"}

\* "absent" and "deleted" stand for a row that is not in the table.
Row == [status : Status \cup {"absent", "deleted"},
        total : Amount \cup {0},
        paid : Nat,
        paidAt : BOOLEAN,
        intent : Session \cup {None},
        checkout : Session \cup {None}]

Column == {"status", "total", "paid", "paidAt", "intent", "checkout"}

NoRow(st) == [status |-> st, total |-> 0, paid |-> 0, paidAt |-> FALSE,
              intent |-> None, checkout |-> None]

Exists(i) == inv[i].status \in Status

\* The columns the unit of work finds changed on a loaded object.
Dirty(old, new) == {c \in Column : new[c] # old[c]}

\* UPDATE ... SET only the written columns of the committed row.
Merge(row, cols, new) ==
    [status   |-> IF "status"   \in cols THEN new.status   ELSE row.status,
     total    |-> IF "total"    \in cols THEN new.total    ELSE row.total,
     paid     |-> IF "paid"     \in cols THEN new.paid     ELSE row.paid,
     paidAt   |-> IF "paidAt"   \in cols THEN new.paidAt   ELSE row.paidAt,
     intent   |-> IF "intent"   \in cols THEN new.intent   ELSE row.intent,
     checkout |-> IF "checkout" \in cols THEN new.checkout ELSE row.checkout]

(* Guards and updates of the DAO methods, on the loaded row *)

CanSend(row) == row.status = "draft"
Sent(row) == [row EXCEPT !.status = "sent"]

CanPay_Draft(row) == row.status \in Payable \cup {"draft"}    \* mutant
CanPay(row) == row.status \in Payable
WithPayment_Exceeds(row, a) ==       \* mutant: settles only above the total
    IF row.paid + a > row.total
    THEN [row EXCEPT !.paid = row.paid + a, !.status = "paid", !.paidAt = TRUE]
    ELSE [row EXCEPT !.paid = row.paid + a, !.status = "partially_paid"]
WithPayment_Overwrites(row, a) ==    \* mutant: the payment replaces the balance
    IF a >= row.total
    THEN [row EXCEPT !.paid = a, !.status = "paid", !.paidAt = TRUE]
    ELSE [row EXCEPT !.paid = a, !.status = "partially_paid"]
WithPayment(row, a) ==
    IF row.paid + a >= row.total
    THEN [row EXCEPT !.paid = row.paid + a, !.status = "paid", !.paidAt = TRUE]
    ELSE [row EXCEPT !.paid = row.paid + a, !.status = "partially_paid"]

CanMarkPaid_SentOnly(row) == row.status = "sent"    \* mutant
CanMarkPaid(row) == row.status \in Payable
MarkedPaid_NoDate(row, s) ==         \* mutant: paid_at is not set
    [row EXCEPT !.status = "paid", !.paid = row.total, !.intent = s]
MarkedPaid(row, s) == [row EXCEPT !.status = "paid", !.paidAt = TRUE,
                                  !.paid = row.total, !.intent = s]

CanCancel_PaidToo(row) == row.status # "refunded"    \* mutant
CanCancel(row) == row.status \notin Settled
Cancelled_Misspelt(row) == [row EXCEPT !.status = "canceled"]    \* mutant
Cancelled(row) == [row EXCEPT !.status = "cancelled"]

CanRefund(row) == row.status = "paid"
Refunded(row) == [row EXCEPT !.status = "refunded"]

IsEditable(row) == row.status = "draft"

-------------------------------------------------------------------------------
(* Requests *)

Idle == [op |-> "idle", i |-> None, cols |-> {}, new |-> NoRow("absent"),
         amount |-> 0, s |-> None]

AdminOp == {"update", "delete", "send", "cancel", "pay"}
WebhookOp == {"completed", "refunded"}

Request == {Idle}
    \cup [op : AdminOp \cup {"checkout"}, i : Invoice, cols : SUBSET Column,
          new : Row, amount : Nat, s : Session \cup {None}]
    \cup [op : WebhookOp, i : Invoice, cols : SUBSET Column,
          new : Row, amount : Nat, s : Session]

\* Worker w has loaded invoice i and holds the object as `new'.
Hold(w, op, i, cols, new, a, s) ==
    /\ req[w] = Idle
    /\ req' = [req EXCEPT ![w] = [op |-> op, i |-> i, cols |-> cols,
                                  new |-> new, amount |-> a, s |-> s]]

Load(w, op, i, new) == Hold(w, op, i, Dirty(inv[i], new), new, 0, None)

Unused == UNCHANGED <<inv, sess, acked, cash>>

\* POST /invoices: one INSERT of a draft (InvoiceNumbers.tla has its checks).
CreateInvoice(i, t) ==
    /\ inv[i].status = "absent"
    /\ inv' = [inv EXCEPT ![i] = [NoRow("draft") EXCEPT !.total = t]]
    /\ UNCHANGED <<req, sess, acked, cash>>

\* PUT /invoices/{id}: a core UPDATE of the given columns (amounts, or only the
\* notes), changed or not.
UpdateInvoice(w, i, t) ==
    /\ IsEditable(inv[i])
    /\ \E cols \in {{}, {"total"}} :
         Hold(w, "update", i, cols, [inv[i] EXCEPT !.total = t], 0, None)
    /\ Unused

DeleteInvoice(w, i) ==
    /\ IsEditable(inv[i])
    /\ Load(w, "delete", i, inv[i])
    /\ Unused

SendInvoice(w, i) ==
    /\ CanSend(inv[i])
    /\ Load(w, "send", i, Sent(inv[i]))
    /\ Unused

CancelInvoice(w, i) ==
    /\ Exists(i) /\ CanCancel(inv[i])
    /\ Load(w, "cancel", i, Cancelled(inv[i]))
    /\ Unused

\* Bound: MaxPaid.
RecordPayment(w, i, a) ==
    /\ CanPay(inv[i])
    /\ inv[i].paid + a <= MaxPaid
    /\ LET new == WithPayment(inv[i], a) IN
       Hold(w, "pay", i, Dirty(inv[i], new), new, a, None)
    /\ Unused

\* POST /payments/checkout, first half: load, check payable.
CreateCheckout(w, i) ==
    /\ CanPay(inv[i])
    /\ Load(w, "checkout", i, inv[i])
    /\ Unused

\* ... the call to Stripe: a session for the loaded invoice's whole total.
StripeCreatesSession(w, s) ==
    /\ req[w].op = "checkout" /\ req[w].s = None
    /\ sess[s].state = "none"
    /\ sess' = [sess EXCEPT ![s] = [state |-> "created", i |-> req[w].i,
                                    amount |-> req[w].new.total]]
    /\ req' = [req EXCEPT ![w].s = s, ![w].cols = {"checkout"},
                          ![w].new.checkout = s]
    /\ UNCHANGED <<inv, acked, cash>>

WebhookCompleted_AnyInvoice(w, s) == \* mutant: the lookup drops its filter
    /\ sess[s].state \in Settled
    /\ \E i \in Invoice :
         /\ CanMarkPaid(inv[i])
         /\ Load(w, "completed", i, MarkedPaid(inv[i], s))
    /\ Unused

\* POST /webhooks/stripe, checkout.session.completed: the invoice is looked up
\* by its stored session id; mark_paid may refuse, the handler goes on.
WebhookCompleted(w, s) ==
    /\ sess[s].state \in Settled
    /\ \E i \in Invoice :
         /\ Exists(i) /\ inv[i].checkout = s
         /\ Hold(w, "completed", i,
                 IF CanMarkPaid(inv[i]) THEN Dirty(inv[i], MarkedPaid(inv[i], s)) ELSE {},
                 IF CanMarkPaid(inv[i]) THEN MarkedPaid(inv[i], s) ELSE inv[i], 0, s)
    /\ Unused

\* ... charge.refunded: the invoice is looked up by its PaymentIntent.
WebhookRefunded(w, s) ==
    /\ sess[s].state = "refunded"
    /\ \E i \in Invoice :
         /\ Exists(i) /\ inv[i].intent = s
         /\ Hold(w, "refunded", i,
                 IF CanRefund(inv[i]) THEN {"status"} ELSE {},
                 IF CanRefund(inv[i]) THEN Refunded(inv[i]) ELSE inv[i], 0, s)
    /\ Unused

\* ... an event whose invoice is not found is acknowledged all the same.
WebhookUnmatched(s) ==
    /\ \/ /\ sess[s].state \in Settled
          /\ \A i \in Invoice : Exists(i) => inv[i].checkout # s
          /\ acked' = acked \cup {<<"completed", s>>}
       \/ /\ sess[s].state = "refunded"
          /\ \A i \in Invoice : Exists(i) => inv[i].intent # s
          /\ acked' = acked \cup {<<"refunded", s>>}
    /\ UNCHANGED <<inv, req, sess, cash>>

-------------------------------------------------------------------------------
(* The end of a request *)

\* These requests select the row a second time before they write it, and go on
\* without it when it has gone; any other UPDATE that finds no row fails.
SelectsTwice == {"checkout"} \cup WebhookOp

\* The audit entry of an edit holds the new amounts as Decimals, which its JSON
\* column cannot store: its flush fails and rolls the whole transaction back.
SavedByAudit(cols) == cols = {}

\* The flush writes the changed columns and get_db commits; the response (200,
\* or the checkout URL) goes out.
Commit(w) ==
    LET r == req[w] IN
    /\ r.op \notin {"idle", "delete"}
    /\ r.op = "checkout" => r.s # None
    /\ r.op = "update" => SavedByAudit(r.cols)
    /\ Exists(r.i) \/ r.op \in SelectsTwice
    /\ inv' = IF Exists(r.i)
              THEN [inv EXCEPT ![r.i] = Merge(inv[r.i], r.cols, r.new)]
              ELSE inv
    /\ sess' = IF r.op = "checkout" THEN [sess EXCEPT ![r.s].state = "open"] ELSE sess
    /\ acked' = IF r.op \in WebhookOp
                THEN acked \cup {<<r.op, r.s>>} ELSE acked
    /\ cash' = IF r.op = "pay" THEN [cash EXCEPT ![r.i] = @ + r.amount] ELSE cash
    /\ req' = [req EXCEPT ![w] = Idle]

CommitDelete(w) ==
    /\ req[w].op = "delete"
    /\ inv' = [inv EXCEPT ![req[w].i] = NoRow("deleted")]
    /\ req' = [req EXCEPT ![w] = Idle]
    /\ UNCHANGED <<sess, acked, cash>>

\* The request fails before its commit: an exception, a lost connection, a
\* Stripe error, a killed process, or a row that has gone.
Abort(w) ==
    /\ req[w].op # "idle"
    /\ req' = [req EXCEPT ![w] = Idle]
    /\ Unused

(* Stripe: external *)

CustomerPays(s) ==
    /\ sess[s].state = "open"
    /\ sess' = [sess EXCEPT ![s].state = "paid"]
    /\ UNCHANGED <<inv, req, acked, cash>>

DashboardRefund(s) ==
    /\ sess[s].state = "paid"
    /\ sess' = [sess EXCEPT ![s].state = "refunded"]
    /\ UNCHANGED <<inv, req, acked, cash>>

-------------------------------------------------------------------------------
(* Specification *)

SessionState == {"none", "created", "open", "paid", "refunded"}
StripeSession == [state : SessionState, i : Invoice \cup {None}, amount : Amount \cup {0}]

Init ==
    /\ inv = [i \in Invoice |-> NoRow("absent")]
    /\ req = [w \in Worker |-> Idle]
    /\ sess = [s \in Session |-> [state |-> "none", i |-> None, amount |-> 0]]
    /\ acked = {}
    /\ cash = [i \in Invoice |-> 0]

Begin(w) ==
    \/ \E i \in Invoice :
         \/ \E t \in Amount : UpdateInvoice(w, i, t) \/ RecordPayment(w, i, t)
         \/ DeleteInvoice(w, i) \/ SendInvoice(w, i) \/ CancelInvoice(w, i)
         \/ CreateCheckout(w, i)
    \/ \E s \in Session : \/ StripeCreatesSession(w, s)
                          \/ WebhookCompleted(w, s)
                          \/ WebhookRefunded(w, s)

Finish(w) == Commit(w) \/ CommitDelete(w) \/ Abort(w)

Next ==
    \/ \E i \in Invoice, t \in Amount : CreateInvoice(i, t)
    \/ \E w \in Worker : Begin(w) \/ Finish(w)
    \/ \E s \in Session : WebhookUnmatched(s) \/ CustomerPays(s) \/ DashboardRefund(s)

Spec == Init /\ [][Next]_vars

\* Every request ends, one way or the other.  Stripe redelivers an event until it
\* is acknowledged, and its deliveries do not all fail.
Deliver(w, s) == <<"completed", s>> \notin acked /\ WebhookCompleted(w, s)
CommitDelivery(w, s) == req[w].op = "completed" /\ req[w].s = s /\ Commit(w)

FairSpec ==
    /\ Spec
    /\ \A w \in Worker : WF_vars(Finish(w))
    /\ \A w \in Worker, s \in Session :
         SF_vars(Deliver(w, s)) /\ SF_vars(CommitDelivery(w, s))

-------------------------------------------------------------------------------
(* Properties *)

\* Every variable has its type.
TypeOK ==
    /\ inv \in [Invoice -> Row]
    /\ req \in [Worker -> Request]
    /\ sess \in [Session -> StripeSession]
    /\ acked \subseteq WebhookOp \X Session
    /\ cash \in [Invoice -> Nat]

\* Whatever requests race, an invoice that names a PaymentIntent names one that
\* Stripe collected, for this very invoice (the webhook is the only writer).
IntentIsReal ==
    \A i \in Invoice : inv[i].intent # None =>
        /\ sess[inv[i].intent].i = i
        /\ sess[inv[i].intent].state \in Settled

\* The strengthening of IntentIsReal: a stored session belongs to the invoice,
\* and a request about to store a session or a PaymentIntent holds one that does.
SessionIsOwn ==
    \A i \in Invoice : inv[i].checkout # None =>
        sess[inv[i].checkout].i = i /\ sess[inv[i].checkout].state # "none"

PendingCheckout ==
    \A w \in Worker : LET r == req[w] IN
        /\ r.op = "checkout" /\ r.s # None =>
               /\ r.cols = {"checkout"} /\ r.new.checkout = r.s
               /\ sess[r.s].i = r.i /\ sess[r.s].state = "created"
               /\ \A v \in Worker : req[v].op = "checkout" /\ req[v].s = r.s => v = w
        /\ r.op = "checkout" /\ r.s = None => r.cols = {}
        /\ r.op # "checkout" => "checkout" \notin r.cols

PendingIntent ==
    \A w \in Worker : LET r == req[w] IN "intent" \in r.cols =>
        /\ r.op = "completed" /\ r.new.intent = r.s
        /\ sess[r.s].i = r.i /\ sess[r.s].state \in Settled

\* Whatever requests race, a draft carries no money, no PaymentIntent and no
\* Checkout Session: nothing saves a whole stale row.
DraftIsClean ==
    \A i \in Invoice : inv[i].status = "draft" =>
        /\ inv[i].paid = 0 /\ cash[i] = 0 /\ ~inv[i].paidAt
        /\ inv[i].intent = None /\ inv[i].checkout = None

\* Whatever requests race, a settled invoice has its paid_at.
SettledHasDate == \A i \in Invoice : inv[i].status \in Settled => inv[i].paidAt

\* A row's money agrees with its status whatever requests overlap.
MoneyMatchesStatus == DraftIsClean /\ SettledHasDate

\* One request at a time: the status and the recorded balance agree.
Balanced(row) ==
    /\ row.status \in Settled => row.paid >= row.total /\ row.paidAt
    /\ row.status = "partially_paid" => row.paid > 0 /\ row.paid < row.total
    /\ row.status \in {"draft", "sent"} => row.paid = 0
    /\ row.status \notin Settled => ~row.paidAt

StatusMatchesBalance == \A i \in Invoice : Balanced(inv[i])

\* The strengthening of StatusMatchesBalance: the row a request is about to
\* leave behind is balanced too, and the row it loaded is still there.
PendingBalanced ==
    \A w \in Worker : LET r == req[w] IN r # Idle =>
        /\ Exists(r.i)
        /\ Balanced(Merge(inv[r.i], r.cols, r.new))

\* One request at a time: the recorded balance is the manual payments accepted,
\* or the total when a Stripe payment settled the invoice.
LedgerMatches ==
    \A i \in Invoice : Exists(i) =>
        inv[i].paid = IF inv[i].intent = None THEN cash[i] ELSE inv[i].total

\* One request at a time: an invoice whose current Checkout Session's payment
\* was acknowledged to Stripe no longer asks for payment.
AckedIsClosed ==
    \A s \in Session : <<"completed", s>> \in acked =>
        \A i \in Invoice : inv[i].checkout = s => inv[i].status \notin Payable

\* One request at a time: the invoices follow the documented life cycle.
Lifecycle == INSTANCE InvoiceLifecycle WITH
    status <- [i \in Invoice |-> inv[i].status],
    total <- [i \in Invoice |-> inv[i].total],
    paid <- [i \in Invoice |-> inv[i].paid]
ImplementsLifecycle == Lifecycle!Spec

\* With deliveries retried: a payment made on the session the invoice records
\* closes that invoice, unless a later checkout replaces the session.
CurrentPaymentSettles ==
    \A s \in Session, i \in Invoice :
        (sess[s].state = "paid" /\ inv[i].checkout = s)
            ~> (inv[i].status \notin Payable \/ inv[i].checkout # s)
===============================================================================
