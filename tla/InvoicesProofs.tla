---------------------------- MODULE InvoicesProofs ----------------------------
(***************************************************************************)
(* Theorems about Invoices, for any invoices, sessions, workers, amounts    *)
(* and bound.                                                               *)
(***************************************************************************)
EXTENDS Invoices, TLAPS

-------------------------------------------------------------------------------
(* Rows: every DAO method and the merge of a flush give a row *)

\* Merging columns of one row into another gives a row.
LEMMA MergeType ==
    ASSUME NEW row \in Row, NEW new \in Row, NEW cols
    PROVE  Merge(row, cols, new) \in Row
BY DEF Merge, Row

\* A merge takes the written columns from one row and the others from the other.
LEMMA MergeColumns ==
    ASSUME NEW row \in Row, NEW new \in Row, NEW cols
    PROVE  /\ "intent" \notin cols => Merge(row, cols, new).intent = row.intent
           /\ "intent" \in cols => Merge(row, cols, new).intent = new.intent
           /\ "checkout" \notin cols => Merge(row, cols, new).checkout = row.checkout
           /\ "checkout" \in cols => Merge(row, cols, new).checkout = new.checkout
BY DEF Merge

\* What the DAO methods return for a row is a row.
LEMMA RowOpsType ==
    ASSUME NEW row \in Row
    PROVE  /\ Sent(row) \in Row
           /\ Cancelled(row) \in Row
           /\ Refunded(row) \in Row
           /\ \A a \in Amount : /\ WithPayment(row, a) \in Row
                                /\ [row EXCEPT !.total = a] \in Row
           /\ \A s \in Session : /\ MarkedPaid(row, s) \in Row
                                 /\ [row EXCEPT !.checkout = s] \in Row
<1>1. Sent(row) \in Row /\ Cancelled(row) \in Row /\ Refunded(row) \in Row
  BY DEF Sent, Cancelled, Refunded, Row, Status
<1>2. ASSUME NEW a \in Amount
      PROVE  WithPayment(row, a) \in Row /\ [row EXCEPT !.total = a] \in Row
  <2>1. row.paid + a \in Nat
    BY AmountAssumption DEF Row
  <2>2. WithPayment(row, a) \in Row
    BY <2>1 DEF WithPayment, Row, Status
  <2>3. [row EXCEPT !.total = a] \in Row
    BY DEF Row
  <2>4. QED
    BY <2>2, <2>3
<1>3. ASSUME NEW s \in Session
      PROVE  MarkedPaid(row, s) \in Row /\ [row EXCEPT !.checkout = s] \in Row
  <2>1. row.total \in Nat
    <3>1. row.total \in Amount \cup {0}
      BY DEF Row
    <3>2. \A a \in Amount : a \in Nat
      BY AmountAssumption
    <3>3. QED
      BY <3>1, <3>2
  <2>2. MarkedPaid(row, s) \in Row
    BY <2>1 DEF MarkedPaid, Row, Status
  <2>3. [row EXCEPT !.checkout = s] \in Row
    BY DEF Row
  <2>4. QED
    BY <2>2, <2>3
<1>4. QED
  BY <1>1, <1>2, <1>3

\* The row of an invoice that is not in the table is a row.
LEMMA NoRowType ==
    ASSUME NEW st \in Status \cup {"absent", "deleted"}
    PROVE  NoRow(st) \in Row
BY DEF NoRow, Row

\* A request held on an invoice is a request.
LEMMA HoldType ==
    ASSUME TypeOK, NEW w \in Worker, NEW i \in Invoice, NEW cols \in SUBSET Column,
           NEW new \in Row, NEW a \in Nat, NEW s, NEW op,
           \/ op \in AdminOp /\ s \in Session \cup {None}
           \/ op = "checkout" /\ s \in Session \cup {None}
           \/ op \in WebhookOp /\ s \in Session,
           Hold(w, op, i, cols, new, a, s)
    PROVE  req' \in [Worker -> Request]
BY DEF TypeOK, Hold, Request

-------------------------------------------------------------------------------
(* Type correctness *)

LEMMA TypeInit == Init => TypeOK
<1>1. NoRow("absent") \in Row
  BY NoRowType
<1>2. QED
  BY <1>1 DEF Init, TypeOK, Request, StripeSession, SessionState

\* The steps that load a row and hold it keep the types.
LEMMA TypeBegin ==
    ASSUME TypeOK, NEW w \in Worker, Begin(w)
    PROVE  TypeOK'
<1> USE DEF Unused
<1>0. \A i \in Invoice : inv[i] \in Row
  BY DEF TypeOK
<1>1. \A x, y : Dirty(x, y) \in SUBSET Column
  BY DEF Dirty
<1>2. ASSUME NEW i \in Invoice, NEW t \in Amount, UpdateInvoice(w, i, t)
      PROVE  TypeOK'
  <2>1. [inv[i] EXCEPT !.total = t] \in Row
    BY <1>0, RowOpsType
  <2>2. req' \in [Worker -> Request]
    BY <1>2, <2>1, HoldType DEF UpdateInvoice, Column, AdminOp
  <2>3. QED
    BY <1>2, <2>2 DEF UpdateInvoice, TypeOK
<1>3. ASSUME NEW i \in Invoice, NEW t \in Amount, RecordPayment(w, i, t)
      PROVE  TypeOK'
  <2>1. WithPayment(inv[i], t) \in Row
    BY <1>0, RowOpsType
  <2>2. t \in Nat
    BY AmountAssumption
  <2>3. req' \in [Worker -> Request]
    BY <1>3, <1>1, <2>1, <2>2, HoldType DEF RecordPayment, AdminOp
  <2>4. QED
    BY <1>3, <2>3 DEF RecordPayment, TypeOK
<1>4. ASSUME NEW i \in Invoice,
             \/ DeleteInvoice(w, i) \/ SendInvoice(w, i)
             \/ CancelInvoice(w, i) \/ CreateCheckout(w, i)
      PROVE  TypeOK'
  <2>1. Sent(inv[i]) \in Row /\ Cancelled(inv[i]) \in Row
    BY <1>0, RowOpsType
  <2>2. \E op \in AdminOp \cup {"checkout"}, new \in Row : Load(w, op, i, new)
    BY <1>0, <1>4, <2>1 DEF DeleteInvoice, SendInvoice, CancelInvoice,
                            CreateCheckout, AdminOp
  <2>3. req' \in [Worker -> Request]
    BY <2>2, <1>1, HoldType DEF Load
  <2>4. QED
    BY <1>4, <2>3 DEF DeleteInvoice, SendInvoice, CancelInvoice,
                      CreateCheckout, TypeOK
<1>5. ASSUME NEW s \in Session, StripeCreatesSession(w, s)
      PROVE  TypeOK'
  <2>0. /\ req[w] \in Request /\ req[w].op = "checkout"
        /\ req[w].i \in Invoice /\ req[w].new \in Row
    BY <1>5 DEF StripeCreatesSession, TypeOK, Request, Idle, AdminOp, WebhookOp
  <2>1. [req[w].new EXCEPT !.checkout = s] \in Row
    BY <2>0, RowOpsType
  <2>2. [req[w] EXCEPT !.s = s, !.cols = {"checkout"}, !.new.checkout = s] \in Request
    <3>1. req[w] \in [op : AdminOp \cup {"checkout"}, i : Invoice, cols : SUBSET Column,
                      new : Row, amount : Nat, s : Session \cup {None}]
      BY <2>0 DEF Request, Idle, WebhookOp
    <3>2. QED
      BY <3>1, <2>1 DEF Request, Column
  <2>3. req' \in [Worker -> Request]
    BY <1>5, <2>2 DEF StripeCreatesSession, TypeOK
  <2>4. req[w].new.total \in Amount \cup {0}
    BY <2>0 DEF Row
  <2>5. sess' \in [Session -> StripeSession]
    BY <1>5, <2>0, <2>4 DEF StripeCreatesSession, TypeOK, StripeSession, SessionState
  <2>6. QED
    BY <1>5, <2>3, <2>5 DEF StripeCreatesSession, TypeOK
<1>6. ASSUME NEW s \in Session, WebhookCompleted(w, s)
      PROVE  TypeOK'
  <2>1. \A i \in Invoice : MarkedPaid(inv[i], s) \in Row
    BY <1>0, RowOpsType
  <2>2. \E i \in Invoice, cols \in SUBSET Column, new \in Row :
           Hold(w, "completed", i, cols, new, 0, s)
    BY <1>0, <1>1, <1>6, <2>1 DEF WebhookCompleted
  <2>3. req' \in [Worker -> Request]
    BY <2>2, HoldType DEF WebhookOp
  <2>4. QED
    BY <1>6, <2>3 DEF WebhookCompleted, TypeOK
<1>7. ASSUME NEW s \in Session, WebhookRefunded(w, s)
      PROVE  TypeOK'
  <2>1. \A i \in Invoice : Refunded(inv[i]) \in Row
    BY <1>0, RowOpsType
  <2>2. \E i \in Invoice, cols \in SUBSET Column, new \in Row :
           Hold(w, "refunded", i, cols, new, 0, s)
    BY <1>0, <1>7, <2>1 DEF WebhookRefunded, Column
  <2>3. req' \in [Worker -> Request]
    BY <2>2, HoldType DEF WebhookOp
  <2>4. QED
    BY <1>7, <2>3 DEF WebhookRefunded, TypeOK
<1>8. QED
  BY <1>2, <1>3, <1>4, <1>5, <1>6, <1>7 DEF Begin

\* The steps that end a request keep the types.
LEMMA TypeFinish ==
    ASSUME TypeOK, NEW w \in Worker, Finish(w)
    PROVE  TypeOK'
<1>1. ASSUME Commit(w) PROVE TypeOK'
  <2> DEFINE r == req[w]
  <2>1. /\ r \in Request /\ r # Idle /\ r.i \in Invoice /\ r.new \in Row
        /\ r.amount \in Nat /\ r.s \in Session \cup {None}
        /\ r.op \in WebhookOp => r.s \in Session
        /\ r.op \in AdminOp \cup {"checkout"} \cup WebhookOp
    BY <1>1 DEF Commit, TypeOK, Request, Idle, AdminOp, WebhookOp
  <2>2. inv' \in [Invoice -> Row]
    <3>1. Merge(inv[r.i], r.cols, r.new) \in Row
      BY <2>1, MergeType DEF TypeOK
    <3>2. QED
      BY <1>1, <2>1, <3>1 DEF Commit, TypeOK
  <2>3. req' \in [Worker -> Request]
    BY <1>1 DEF Commit, TypeOK, Request
  <2>4. sess' \in [Session -> StripeSession]
    BY <1>1, <2>1 DEF Commit, TypeOK, StripeSession, SessionState
  <2>5. acked' \subseteq WebhookOp \X Session
    BY <1>1, <2>1 DEF Commit, TypeOK
  <2>6. cash' \in [Invoice -> Nat]
    BY <1>1, <2>1 DEF Commit, TypeOK
  <2>7. QED
    BY <2>2, <2>3, <2>4, <2>5, <2>6 DEF TypeOK
<1>2. ASSUME CommitDelete(w) PROVE TypeOK'
  <2>1. NoRow("deleted") \in Row
    BY NoRowType
  <2>2. QED
    BY <1>2, <2>1 DEF CommitDelete, TypeOK, Request
<1>3. ASSUME Abort(w) PROVE TypeOK'
  BY <1>3 DEF Abort, Unused, TypeOK, Request
<1>4. QED
  BY <1>1, <1>2, <1>3 DEF Finish

\* Inserting an invoice and what Stripe does keep the types.
LEMMA TypeOther ==
    ASSUME TypeOK,
           \/ \E i \in Invoice, t \in Amount : CreateInvoice(i, t)
           \/ \E s \in Session : \/ WebhookUnmatched(s)
                                 \/ CustomerPays(s) \/ DashboardRefund(s)
    PROVE  TypeOK'
<1>1. ASSUME NEW i \in Invoice, NEW t \in Amount, CreateInvoice(i, t) PROVE TypeOK'
  <2>1. [NoRow("draft") EXCEPT !.total = t] \in Row
    BY NoRowType, RowOpsType DEF Status
  <2>2. QED
    BY <1>1, <2>1 DEF CreateInvoice, TypeOK
<1>2. ASSUME NEW s \in Session, WebhookUnmatched(s) PROVE TypeOK'
  BY <1>2 DEF WebhookUnmatched, TypeOK, WebhookOp
<1>3. ASSUME NEW s \in Session, CustomerPays(s) \/ DashboardRefund(s) PROVE TypeOK'
  BY <1>3 DEF CustomerPays, DashboardRefund, TypeOK, StripeSession, SessionState
<1>4. QED
  BY <1>1, <1>2, <1>3

LEMMA TypeStep == TypeOK /\ [Next]_vars => TypeOK'
<1>1. ASSUME TypeOK, UNCHANGED vars PROVE TypeOK'
  BY <1>1 DEF vars, TypeOK
<1>2. QED
  BY <1>1, TypeBegin, TypeFinish, TypeOther DEF Next

\* Every variable keeps its type, under any interleaving of requests.
THEOREM TypeCorrect == Spec => []TypeOK
BY TypeInit, TypeStep, PTL DEF Spec

-------------------------------------------------------------------------------
(* A recorded PaymentIntent is a collected payment of that invoice *)

IntentInv == /\ TypeOK
             /\ IntentIsReal
             /\ SessionIsOwn
             /\ PendingCheckout
             /\ PendingIntent

\* Only mark_paid touches the PaymentIntent, and no DAO method of the admin
\* endpoints or the webhook touches the Checkout Session.
LEMMA DirtyColumns ==
    ASSUME NEW row \in Row
    PROVE  /\ Dirty(row, row) = {}
           /\ \A new \in {Sent(row), Cancelled(row)} \cup {WithPayment(row, a) : a \in Amount} :
                Dirty(row, new) \cap {"intent", "checkout"} = {}
           /\ \A s \in Session : "checkout" \notin Dirty(row, MarkedPaid(row, s))
<1>1. Dirty(row, row) = {}
  BY DEF Dirty
<1>2. Dirty(row, Sent(row)) \cap {"intent", "checkout"} = {}
  BY DEF Dirty, Sent, Row
<1>3. Dirty(row, Cancelled(row)) \cap {"intent", "checkout"} = {}
  BY DEF Dirty, Cancelled, Row
<1>4. ASSUME NEW a \in Amount
      PROVE  Dirty(row, WithPayment(row, a)) \cap {"intent", "checkout"} = {}
  BY DEF Dirty, WithPayment, Row
<1>5. ASSUME NEW s \in Session
      PROVE  "checkout" \notin Dirty(row, MarkedPaid(row, s))
  BY DEF Dirty, MarkedPaid, Row
<1>6. QED
  BY <1>1, <1>2, <1>3, <1>4, <1>5

\* Loading a row preserves the invariant when the held columns are innocent.
LEMMA HoldKeepsIntent ==
    ASSUME IntentInv, NEW w \in Worker, NEW op, NEW i, NEW cols, NEW new, NEW a, NEW s,
           Hold(w, op, i, cols, new, a, s), Unused,
           op # "checkout" => "checkout" \notin cols,
           op = "checkout" => cols = {} /\ s = None,
           "intent" \in cols => /\ op = "completed" /\ new.intent = s
                               /\ sess[s].i = i /\ sess[s].state \in Settled
    PROVE  IntentIsReal' /\ SessionIsOwn' /\ PendingCheckout' /\ PendingIntent'
<1>1. /\ req' = [req EXCEPT ![w] = [op |-> op, i |-> i, cols |-> cols,
                                   new |-> new, amount |-> a, s |-> s]]
      /\ req \in [Worker -> Request]
      /\ UNCHANGED <<inv, sess>>
  BY DEF Hold, Unused, IntentInv, TypeOK
<1>2. IntentIsReal' /\ SessionIsOwn'
  BY <1>1 DEF IntentInv, IntentIsReal, SessionIsOwn
<1>3. PendingCheckout'
  BY <1>1 DEF IntentInv, PendingCheckout
<1>4. PendingIntent'
  BY <1>1 DEF IntentInv, PendingIntent
<1>5. QED
  BY <1>2, <1>3, <1>4

LEMMA IntentBegin ==
    ASSUME IntentInv, NEW w \in Worker, Begin(w)
    PROVE  IntentIsReal' /\ SessionIsOwn' /\ PendingCheckout' /\ PendingIntent'
<1> DEFINE Goal == IntentIsReal' /\ SessionIsOwn' /\ PendingCheckout' /\ PendingIntent'
<1>0. \A i \in Invoice : inv[i] \in Row
  BY DEF IntentInv, TypeOK
<1>1. ASSUME NEW i \in Invoice, NEW t \in Amount, UpdateInvoice(w, i, t)
      PROVE  Goal
  BY <1>1, HoldKeepsIntent DEF UpdateInvoice
<1>2. ASSUME NEW i \in Invoice, NEW t \in Amount, RecordPayment(w, i, t)
      PROVE  Goal
  <2>1. Dirty(inv[i], WithPayment(inv[i], t)) \cap {"intent", "checkout"} = {}
    BY <1>0, DirtyColumns
  <2>2. QED
    BY <1>2, <2>1, HoldKeepsIntent DEF RecordPayment
<1>3. ASSUME NEW i \in Invoice,
             \/ DeleteInvoice(w, i) \/ SendInvoice(w, i)
             \/ CancelInvoice(w, i) \/ CreateCheckout(w, i)
      PROVE  Goal
  <2>1. /\ Dirty(inv[i], inv[i]) = {}
        /\ Dirty(inv[i], Sent(inv[i])) \cap {"intent", "checkout"} = {}
        /\ Dirty(inv[i], Cancelled(inv[i])) \cap {"intent", "checkout"} = {}
    BY <1>0, DirtyColumns
  <2>2. CASE DeleteInvoice(w, i)
    BY <2>1, <2>2, HoldKeepsIntent DEF DeleteInvoice, Load
  <2>3. CASE SendInvoice(w, i)
    BY <2>1, <2>3, HoldKeepsIntent DEF SendInvoice, Load
  <2>4. CASE CancelInvoice(w, i)
    BY <2>1, <2>4, HoldKeepsIntent DEF CancelInvoice, Load
  <2>5. CASE CreateCheckout(w, i)
    BY <2>1, <2>5, HoldKeepsIntent DEF CreateCheckout, Load
  <2>6. QED
    BY <1>3, <2>2, <2>3, <2>4, <2>5
<1>4. ASSUME NEW s \in Session, StripeCreatesSession(w, s)
      PROVE  Goal
  <2>1. /\ req \in [Worker -> Request] /\ sess \in [Session -> StripeSession]
        /\ req[w].op = "checkout" /\ sess[s].state = "none"
        /\ sess' = [sess EXCEPT ![s] = [state |-> "created", i |-> req[w].i,
                                       amount |-> req[w].new.total]]
        /\ inv' = inv
    BY <1>4 DEF StripeCreatesSession, IntentInv, TypeOK
  <2>2. req' = [req EXCEPT ![w] = [req[w] EXCEPT !.s = s, !.cols = {"checkout"},
                                                !.new.checkout = s]]
    BY <1>4 DEF StripeCreatesSession
  <2>3. /\ req[w] \in [op : AdminOp \cup {"checkout"}, i : Invoice, cols : SUBSET Column,
                       new : Row, amount : Nat, s : Session \cup {None}]
    BY <2>1 DEF Request, Idle, WebhookOp
  <2>4. /\ req'[w].op = "checkout" /\ req'[w].s = s /\ req'[w].cols = {"checkout"}
        /\ req'[w].new.checkout = s /\ req'[w].i = req[w].i
        /\ \A v \in Worker : v # w => req'[v] = req[v]
    BY <2>1, <2>2, <2>3 DEF Row
  <2>5. /\ sess'[s].i = req[w].i /\ sess'[s].state = "created"
        /\ \A t \in Session : t # s => sess'[t] = sess[t]
    BY <2>1
  <2>6. IntentIsReal'
    <3>1. \A i \in Invoice : inv[i].intent # None => inv[i].intent \in Session \ {s}
      BY <1>0, <2>1 DEF IntentInv, IntentIsReal, Row, Settled
    <3>2. QED
      BY <2>1, <2>5, <3>1 DEF IntentInv, IntentIsReal
  <2>7. SessionIsOwn'
    <3>1. \A i \in Invoice : inv[i].checkout # None => inv[i].checkout \in Session \ {s}
      BY <1>0, <2>1 DEF IntentInv, SessionIsOwn, Row
    <3>2. QED
      BY <2>1, <2>5, <3>1 DEF IntentInv, SessionIsOwn
  <2>8. \A v \in Worker : req[v].op = "checkout" /\ req[v].s # None => req[v].s \in Session \ {s}
    BY <2>1 DEF IntentInv, PendingCheckout, Request, Idle, AdminOp, WebhookOp
  <2>9. PendingCheckout'
    BY <2>4, <2>5, <2>8, NoneAssumption DEF IntentInv, PendingCheckout
  <2>10. \A v \in Worker : "intent" \in req[v].cols => req[v].s \in Session \ {s}
    BY <2>1 DEF IntentInv, PendingIntent, Request, Idle, AdminOp, WebhookOp, Settled
  <2>11. PendingIntent'
    BY <2>4, <2>5, <2>10 DEF IntentInv, PendingIntent
  <2>12. QED
    BY <2>6, <2>7, <2>9, <2>11
<1>5. ASSUME NEW s \in Session, WebhookCompleted(w, s)
      PROVE  Goal
  <2>1. PICK i \in Invoice :
          /\ inv[i].checkout = s
          /\ Hold(w, "completed", i,
                  IF CanMarkPaid(inv[i]) THEN Dirty(inv[i], MarkedPaid(inv[i], s)) ELSE {},
                  IF CanMarkPaid(inv[i]) THEN MarkedPaid(inv[i], s) ELSE inv[i], 0, s)
    BY <1>5 DEF WebhookCompleted
  <2>2. sess[s].i = i /\ sess[s].state \in Settled
    BY <1>5, <2>1, NoneAssumption DEF WebhookCompleted, IntentInv, SessionIsOwn
  <2>3. /\ "checkout" \notin Dirty(inv[i], MarkedPaid(inv[i], s))
        /\ MarkedPaid(inv[i], s).intent = s
    BY <1>0, DirtyColumns DEF MarkedPaid, Row
  <2>4. Unused
    BY <1>5 DEF WebhookCompleted
  <2>5. CASE CanMarkPaid(inv[i])
    <3>1. Hold(w, "completed", i, Dirty(inv[i], MarkedPaid(inv[i], s)),
               MarkedPaid(inv[i], s), 0, s)
      BY <2>1, <2>5
    <3>2. QED
      BY <2>2, <2>3, <2>4, <3>1, HoldKeepsIntent
  <2>6. CASE ~CanMarkPaid(inv[i])
    <3>1. Hold(w, "completed", i, {}, inv[i], 0, s)
      BY <2>1, <2>6
    <3>2. QED
      BY <2>4, <3>1, HoldKeepsIntent
  <2>7. QED
    BY <2>5, <2>6
<1>6. ASSUME NEW s \in Session, WebhookRefunded(w, s)
      PROVE  Goal
  <2>1. Unused /\ \E i \in Invoice, cols \in {{}, {"status"}} : \E new :
                    Hold(w, "refunded", i, cols, new, 0, s)
    BY <1>6 DEF WebhookRefunded
  <2>2. QED
    BY <2>1, HoldKeepsIntent
<1>7. QED
  BY <1>1, <1>2, <1>3, <1>4, <1>5, <1>6 DEF Begin

LEMMA IntentFinish ==
    ASSUME IntentInv, NEW w \in Worker, Finish(w)
    PROVE  IntentIsReal' /\ SessionIsOwn' /\ PendingCheckout' /\ PendingIntent'
<1> DEFINE Goal == IntentIsReal' /\ SessionIsOwn' /\ PendingCheckout' /\ PendingIntent'
<1>0. /\ inv \in [Invoice -> Row] /\ req \in [Worker -> Request]
      /\ sess \in [Session -> StripeSession]
  BY DEF IntentInv, TypeOK
<1>1. ASSUME req' = [req EXCEPT ![w] = Idle]
      PROVE  /\ req'[w].op = "idle" /\ req'[w].cols = {}
             /\ \A v \in Worker : v # w => req'[v] = req[v]
  BY <1>0, <1>1 DEF Idle
<1>2. CASE Commit(w)
  <2> DEFINE r == req[w]
  <2>1. /\ r \in Request /\ r # Idle /\ r.i \in Invoice /\ r.new \in Row
        /\ r.s \in Session \cup {None}
        /\ r.op \in WebhookOp => r.s \in Session
        /\ r.op = "checkout" => r.s \in Session /\ r.s # None
        /\ req' = [req EXCEPT ![w] = Idle]
    BY <1>0, <1>2, NoneAssumption DEF Commit, Request, Idle, AdminOp, WebhookOp
  <2>2. /\ \A t \in Session : sess'[t].i = sess[t].i
        /\ \A t \in Session : sess[t].state \in Settled => sess'[t].state = sess[t].state
        /\ \A t \in Session : sess[t].state # "none" => sess'[t].state # "none"
        /\ r.op # "checkout" => sess' = sess
        /\ r.op = "checkout" => \A t \in Session \ {r.s} : sess'[t] = sess[t]
    <3>1. CASE r.op = "checkout"
      <4>1. sess[r.s].state = "created"
        BY <2>1, <3>1 DEF IntentInv, PendingCheckout
      <4>2. sess' = [sess EXCEPT ![r.s].state = "open"]
        BY <1>2, <3>1 DEF Commit
      <4>3. QED
        BY <1>0, <2>1, <3>1, <4>1, <4>2 DEF Settled, StripeSession
    <3>2. CASE r.op # "checkout"
      BY <1>2, <3>2 DEF Commit
    <3>3. QED
      BY <3>1, <3>2
  <2>3. \A i \in Invoice : inv'[i] = inv[i] \/ (i = r.i /\ inv'[i] = Merge(inv[i], r.cols, r.new))
    BY <1>0, <1>2 DEF Commit
  <2>4. IntentIsReal'
    <3>1. SUFFICES ASSUME NEW i \in Invoice, inv'[i].intent # None
                   PROVE  /\ sess'[inv'[i].intent].i = i
                          /\ sess'[inv'[i].intent].state \in Settled
      BY DEF IntentIsReal
    <3>2. CASE inv'[i].intent = inv[i].intent
      <4>1. inv[i].intent \in Session
        BY <1>0, <3>1, <3>2 DEF Row
      <4>2. QED
        BY <2>2, <3>1, <3>2, <4>1 DEF IntentInv, IntentIsReal
    <3>3. CASE inv'[i].intent # inv[i].intent
      <4>1. "intent" \in r.cols /\ i = r.i /\ inv'[i].intent = r.new.intent
        BY <1>0, <2>1, <2>3, <3>3, MergeColumns
      <4>2. r.op \in WebhookOp /\ r.new.intent = r.s
            /\ sess[r.s].i = i /\ sess[r.s].state \in Settled
        BY <4>1 DEF IntentInv, PendingIntent, WebhookOp
      <4>3. QED
        BY <2>1, <2>2, <4>1, <4>2
    <3>4. QED
      BY <3>2, <3>3
  <2>5. SessionIsOwn'
    <3>1. SUFFICES ASSUME NEW i \in Invoice, inv'[i].checkout # None
                   PROVE  /\ sess'[inv'[i].checkout].i = i
                          /\ sess'[inv'[i].checkout].state # "none"
      BY DEF SessionIsOwn
    <3>2. CASE inv'[i].checkout = inv[i].checkout
      <4>1. inv[i].checkout \in Session
        BY <1>0, <3>1, <3>2 DEF Row
      <4>2. QED
        BY <2>2, <3>1, <3>2, <4>1 DEF IntentInv, SessionIsOwn
    <3>3. CASE inv'[i].checkout # inv[i].checkout
      <4>1. "checkout" \in r.cols /\ i = r.i /\ inv'[i].checkout = r.new.checkout
        BY <1>0, <2>1, <2>3, <3>3, MergeColumns
      <4>2. r.op = "checkout"
        BY <4>1 DEF IntentInv, PendingCheckout
      <4>3. r.new.checkout = r.s /\ sess[r.s].i = i /\ sess[r.s].state = "created"
        BY <2>1, <4>1, <4>2 DEF IntentInv, PendingCheckout
      <4>4. QED
        BY <2>1, <2>2, <4>1, <4>2, <4>3
    <3>4. QED
      BY <3>2, <3>3
  <2>6. PendingCheckout'
    <3>1. ASSUME NEW v \in Worker, v # w, req[v].op = "checkout", req[v].s # None
          PROVE  req[v].s \in Session /\ (r.op = "checkout" => req[v].s # r.s)
      <4>1. req[v].s \in Session
        BY <1>0, <3>1 DEF Request, Idle, AdminOp, WebhookOp
      <4>2. ASSUME r.op = "checkout" PROVE req[v].s # r.s
        BY <2>1, <3>1, <4>2 DEF IntentInv, PendingCheckout
      <4>3. QED
        BY <4>1, <4>2
    <3>2. QED
      BY <1>1, <2>1, <2>2, <3>1 DEF IntentInv, PendingCheckout
  <2>7. PendingIntent'
    <3>1. ASSUME NEW v \in Worker, "intent" \in req[v].cols
          PROVE  req[v].s \in Session
      BY <1>0, <3>1 DEF IntentInv, PendingIntent, Request, Idle, AdminOp, WebhookOp
    <3>2. QED
      BY <1>1, <2>1, <2>2, <3>1 DEF IntentInv, PendingIntent
  <2>8. QED
    BY <2>4, <2>5, <2>6, <2>7
<1>3. CASE CommitDelete(w)
  <2>1. \A i \in Invoice : inv'[i] = inv[i] \/ (inv'[i].intent = None /\ inv'[i].checkout = None)
    BY <1>0, <1>3 DEF CommitDelete, NoRow
  <2>2. sess' = sess /\ req' = [req EXCEPT ![w] = Idle]
    BY <1>3 DEF CommitDelete
  <2>3. IntentIsReal' /\ SessionIsOwn'
    BY <2>1, <2>2 DEF IntentInv, IntentIsReal, SessionIsOwn
  <2>4. PendingCheckout' /\ PendingIntent'
    BY <1>1, <2>2 DEF IntentInv, PendingCheckout, PendingIntent
  <2>5. QED
    BY <2>3, <2>4
<1>4. CASE Abort(w)
  <2>1. inv' = inv /\ sess' = sess /\ req' = [req EXCEPT ![w] = Idle]
    BY <1>4 DEF Abort, Unused
  <2>2. IntentIsReal' /\ SessionIsOwn'
    BY <2>1 DEF IntentInv, IntentIsReal, SessionIsOwn
  <2>3. PendingCheckout' /\ PendingIntent'
    BY <1>1, <2>1 DEF IntentInv, PendingCheckout, PendingIntent
  <2>4. QED
    BY <2>2, <2>3
<1>5. QED
  BY <1>2, <1>3, <1>4 DEF Finish

LEMMA IntentOther ==
    ASSUME IntentInv,
           \/ \E i \in Invoice, t \in Amount : CreateInvoice(i, t)
           \/ \E s \in Session : \/ WebhookUnmatched(s)
                                 \/ CustomerPays(s) \/ DashboardRefund(s)
    PROVE  IntentIsReal' /\ SessionIsOwn' /\ PendingCheckout' /\ PendingIntent'
<1>0. /\ inv \in [Invoice -> Row] /\ req \in [Worker -> Request]
      /\ sess \in [Session -> StripeSession]
  BY DEF IntentInv, TypeOK
<1>1. ASSUME NEW i \in Invoice, NEW t \in Amount, CreateInvoice(i, t)
      PROVE  IntentIsReal' /\ SessionIsOwn' /\ PendingCheckout' /\ PendingIntent'
  <2>1. /\ sess' = sess /\ req' = req
        /\ \A j \in Invoice : inv'[j] = inv[j] \/ (inv'[j].intent = None /\ inv'[j].checkout = None)
    BY <1>0, <1>1 DEF CreateInvoice, NoRow
  <2>2. QED
    BY <2>1 DEF IntentInv, IntentIsReal, SessionIsOwn, PendingCheckout, PendingIntent
<1>2. ASSUME NEW s \in Session, WebhookUnmatched(s)
      PROVE  IntentIsReal' /\ SessionIsOwn' /\ PendingCheckout' /\ PendingIntent'
  BY <1>2 DEF WebhookUnmatched, IntentInv, IntentIsReal, SessionIsOwn,
              PendingCheckout, PendingIntent
<1>3. ASSUME NEW s \in Session, CustomerPays(s) \/ DashboardRefund(s)
      PROVE  IntentIsReal' /\ SessionIsOwn' /\ PendingCheckout' /\ PendingIntent'
  <2>1. /\ inv' = inv /\ req' = req
        /\ sess'[s].i = sess[s].i /\ sess'[s].state \in Settled
        /\ sess[s].state \in {"open", "paid"}
        /\ \A t \in Session : t # s => sess'[t] = sess[t]
    BY <1>0, <1>3 DEF CustomerPays, DashboardRefund, Settled, StripeSession
  <2>2. IntentIsReal'
    <3>1. \A i \in Invoice : inv[i].intent # None => inv[i].intent \in Session
      BY <1>0 DEF Row
    <3>2. QED
      BY <2>1, <3>1 DEF IntentInv, IntentIsReal
  <2>3. SessionIsOwn'
    <3>1. \A i \in Invoice : inv[i].checkout # None => inv[i].checkout \in Session
      BY <1>0 DEF Row
    <3>2. QED
      BY <2>1, <3>1 DEF IntentInv, SessionIsOwn, Settled
  <2>4. PendingCheckout'
    <3>1. \A v \in Worker : req[v].op = "checkout" /\ req[v].s # None => req[v].s \in Session \ {s}
      BY <1>0, <2>1 DEF IntentInv, PendingCheckout, Request, Idle, AdminOp, WebhookOp
    <3>2. QED
      BY <2>1, <3>1 DEF IntentInv, PendingCheckout
  <2>5. PendingIntent'
    <3>1. \A v \in Worker : "intent" \in req[v].cols => req[v].s \in Session
      BY <1>0 DEF IntentInv, PendingIntent, Request, Idle, AdminOp, WebhookOp
    <3>2. QED
      BY <2>1, <3>1 DEF IntentInv, PendingIntent
  <2>6. QED
    BY <2>2, <2>3, <2>4, <2>5
<1>4. QED
  BY <1>1, <1>2, <1>3

LEMMA IntentInit == Init => IntentInv
<1>1. ASSUME Init PROVE IntentIsReal /\ SessionIsOwn /\ PendingCheckout /\ PendingIntent
  BY <1>1 DEF Init, IntentIsReal, SessionIsOwn, PendingCheckout, PendingIntent, NoRow, Idle
<1>2. QED
  BY <1>1, TypeInit DEF IntentInv

LEMMA IntentStep == IntentInv /\ [Next]_vars => IntentInv'
<1>1. ASSUME IntentInv, UNCHANGED vars PROVE IntentInv'
  BY <1>1 DEF vars, IntentInv, TypeOK, IntentIsReal, SessionIsOwn,
              PendingCheckout, PendingIntent
<1>2. ASSUME IntentInv, Next PROVE IntentInv'
  <2>1. TypeOK'
    BY <1>2, TypeStep DEF IntentInv
  <2>2. IntentIsReal' /\ SessionIsOwn' /\ PendingCheckout' /\ PendingIntent'
    BY <1>2, IntentBegin, IntentFinish, IntentOther DEF Next
  <2>3. QED
    BY <2>1, <2>2 DEF IntentInv
<1>3. QED
  BY <1>1, <1>2

\* Whatever requests race, an invoice that names a PaymentIntent names one that
\* Stripe collected for this very invoice.
THEOREM IntentAlwaysReal == Spec => []IntentIsReal
<1>1. IntentInv => IntentIsReal
  BY DEF IntentInv
<1>2. QED
  BY <1>1, IntentInit, IntentStep, PTL DEF Spec

-------------------------------------------------------------------------------
(* One request at a time: statuses and balances agree *)

OneAtATime == \A v, w \in Worker : v = w

BalanceInv == TypeOK /\ StatusMatchesBalance /\ PendingBalanced

\* Writing back exactly the columns that changed leaves the changed object, as
\* long as nobody else wrote the row in between.
LEMMA MergeDirty ==
    ASSUME NEW row \in Row, NEW new \in Row
    PROVE  Merge(row, Dirty(row, new), new) = new
BY DEF Merge, Dirty, Row, Column

\* Each DAO method leaves a balanced row, under its guard.
LEMMA RowOpsBalanced ==
    ASSUME NEW row \in Row, Balanced(row)
    PROVE  /\ CanSend(row) => Balanced(Sent(row))
           /\ CanCancel(row) => Balanced(Cancelled(row))
           /\ CanRefund(row) => Balanced(Refunded(row))
           /\ \A a \in Amount : /\ CanPay(row) => Balanced(WithPayment(row, a))
                                /\ IsEditable(row) => Balanced([row EXCEPT !.total = a])
           /\ \A s \in Session : CanMarkPaid(row) => Balanced(MarkedPaid(row, s))
<1>0. row.paid \in Nat /\ row.total \in Nat
  <2>1. \A a \in Amount : a \in Nat
    BY AmountAssumption
  <2>2. row.total \in Amount \cup {0} /\ row.paid \in Nat
    BY DEF Row
  <2>3. QED
    BY <2>1, <2>2
<1>1. CanSend(row) => Balanced(Sent(row))
  BY DEF CanSend, Sent, Balanced, Settled, Row
<1>2. CanCancel(row) => Balanced(Cancelled(row))
  BY DEF CanCancel, Cancelled, Balanced, Settled, Row
<1>3. CanRefund(row) => Balanced(Refunded(row))
  BY DEF CanRefund, Refunded, Balanced, Settled, Row
<1>4. ASSUME NEW a \in Amount, CanPay(row)
      PROVE  Balanced(WithPayment(row, a))
  <2>1. a \in Nat /\ a > 0
    BY AmountAssumption
  <2>2. CASE row.paid + a >= row.total
    BY <1>0, <1>4, <2>1, <2>2 DEF CanPay, Payable, WithPayment, Balanced, Settled, Row
  <2>3. CASE ~(row.paid + a >= row.total)
    BY <1>0, <1>4, <2>1, <2>3 DEF CanPay, Payable, WithPayment, Balanced, Settled, Row
  <2>4. QED
    BY <2>2, <2>3
<1>5. ASSUME NEW a \in Amount, IsEditable(row)
      PROVE  Balanced([row EXCEPT !.total = a])
  BY <1>5 DEF IsEditable, Balanced, Settled, Row
<1>6. ASSUME NEW s \in Session, CanMarkPaid(row)
      PROVE  Balanced(MarkedPaid(row, s))
  BY <1>0, <1>6 DEF MarkedPaid, Balanced, Settled, Row
<1>7. QED
  BY <1>1, <1>2, <1>3, <1>4, <1>5, <1>6

\* Loading a row keeps the invariant when the row it will leave is balanced.
LEMMA HoldKeepsBalance ==
    ASSUME BalanceInv, OneAtATime, NEW w \in Worker, NEW i \in Invoice,
           NEW op, NEW cols, NEW new, NEW a, NEW s,
           Hold(w, op, i, cols, new, a, s), Unused,
           Exists(i), Balanced(Merge(inv[i], cols, new))
    PROVE  StatusMatchesBalance' /\ PendingBalanced'
<1>1. /\ req'[w] = [op |-> op, i |-> i, cols |-> cols, new |-> new, amount |-> a, s |-> s]
      /\ inv' = inv
      /\ \A v \in Worker : v = w
  BY DEF Hold, Unused, BalanceInv, TypeOK, OneAtATime
<1>2. StatusMatchesBalance'
  BY <1>1 DEF BalanceInv, StatusMatchesBalance
<1>3. PendingBalanced'
  BY <1>1 DEF PendingBalanced, Exists
<1>4. QED
  BY <1>2, <1>3

LEMMA BalanceBegin ==
    ASSUME BalanceInv, OneAtATime, NEW w \in Worker, Begin(w)
    PROVE  StatusMatchesBalance' /\ PendingBalanced'
<1> DEFINE Goal == StatusMatchesBalance' /\ PendingBalanced'
<1>0. \A i \in Invoice : inv[i] \in Row /\ Balanced(inv[i])
  BY DEF BalanceInv, TypeOK, StatusMatchesBalance
<1>1. ASSUME NEW i \in Invoice, NEW t \in Amount, UpdateInvoice(w, i, t)
      PROVE  Goal
  <2>1. Merge(inv[i], {"total"}, [inv[i] EXCEPT !.total = t]) = [inv[i] EXCEPT !.total = t]
    BY <1>0 DEF Merge, Row
  <2>2. Exists(i) /\ Balanced([inv[i] EXCEPT !.total = t])
    BY <1>0, <1>1, RowOpsBalanced DEF UpdateInvoice, IsEditable, Exists, Status
  <2>3. Merge(inv[i], {}, [inv[i] EXCEPT !.total = t]) = inv[i]
    BY <1>0 DEF Merge, Row
  <2>4. PICK cols \in {{}, {"total"}} :
           Hold(w, "update", i, cols, [inv[i] EXCEPT !.total = t], 0, None)
    BY <1>1 DEF UpdateInvoice
  <2>5. Balanced(Merge(inv[i], cols, [inv[i] EXCEPT !.total = t]))
    BY <1>0, <2>1, <2>2, <2>3
  <2>6. QED
    BY <1>1, <2>2, <2>4, <2>5, HoldKeepsBalance DEF UpdateInvoice
<1>2. ASSUME NEW i \in Invoice, NEW t \in Amount, RecordPayment(w, i, t)
      PROVE  Goal
  <2>1. Merge(inv[i], Dirty(inv[i], WithPayment(inv[i], t)), WithPayment(inv[i], t))
           = WithPayment(inv[i], t)
    BY <1>0, RowOpsType, MergeDirty
  <2>2. Exists(i) /\ Balanced(WithPayment(inv[i], t))
    BY <1>0, <1>2, RowOpsBalanced DEF RecordPayment, CanPay, Payable, Exists, Status
  <2>3. QED
    BY <1>2, <2>1, <2>2, HoldKeepsBalance DEF RecordPayment
<1>3. ASSUME NEW i \in Invoice, DeleteInvoice(w, i) \/ CreateCheckout(w, i)
      PROVE  Goal
  <2>1. Merge(inv[i], Dirty(inv[i], inv[i]), inv[i]) = inv[i]
    BY <1>0, MergeDirty
  <2>2. Exists(i)
    BY <1>3 DEF DeleteInvoice, CreateCheckout, IsEditable, CanPay, Payable, Exists, Status
  <2>3. QED
    BY <1>0, <1>3, <2>1, <2>2, HoldKeepsBalance DEF DeleteInvoice, CreateCheckout, Load
<1>4. ASSUME NEW i \in Invoice, SendInvoice(w, i)
      PROVE  Goal
  <2>1. Merge(inv[i], Dirty(inv[i], Sent(inv[i])), Sent(inv[i])) = Sent(inv[i])
    BY <1>0, RowOpsType, MergeDirty
  <2>2. Exists(i) /\ Balanced(Sent(inv[i]))
    BY <1>0, <1>4, RowOpsBalanced DEF SendInvoice, CanSend, Exists, Status
  <2>3. QED
    BY <1>4, <2>1, <2>2, HoldKeepsBalance DEF SendInvoice, Load
<1>5. ASSUME NEW i \in Invoice, CancelInvoice(w, i)
      PROVE  Goal
  <2>1. Merge(inv[i], Dirty(inv[i], Cancelled(inv[i])), Cancelled(inv[i])) = Cancelled(inv[i])
    BY <1>0, RowOpsType, MergeDirty
  <2>2. Exists(i) /\ Balanced(Cancelled(inv[i]))
    BY <1>0, <1>5, RowOpsBalanced DEF CancelInvoice
  <2>3. QED
    BY <1>5, <2>1, <2>2, HoldKeepsBalance DEF CancelInvoice, Load
<1>6. ASSUME NEW s \in Session, StripeCreatesSession(w, s)
      PROVE  Goal
  <2>1. /\ req[w] # Idle /\ req[w].i \in Invoice /\ Exists(req[w].i)
        /\ req[w] \in [op : AdminOp \cup {"checkout"}, i : Invoice, cols : SUBSET Column,
                       new : Row, amount : Nat, s : Session \cup {None}]
    BY <1>6 DEF StripeCreatesSession, BalanceInv, TypeOK, PendingBalanced,
                Request, Idle, WebhookOp
  <2>2. /\ req'[w].i = req[w].i /\ req'[w].cols = {"checkout"}
        /\ inv' = inv
    BY <1>6, <2>1 DEF StripeCreatesSession, BalanceInv, TypeOK
  <2>3. \A new : Balanced(Merge(inv[req[w].i], {"checkout"}, new))
    BY <1>0, <2>1 DEF Merge, Balanced
  <2>4. \A v \in Worker : v = w
    BY DEF OneAtATime
  <2>5. PendingBalanced'
    BY <2>1, <2>2, <2>3, <2>4 DEF PendingBalanced, Exists
  <2>6. StatusMatchesBalance'
    BY <1>0, <2>2 DEF StatusMatchesBalance
  <2>7. QED
    BY <2>5, <2>6
<1>7. ASSUME NEW s \in Session, WebhookCompleted(w, s)
      PROVE  Goal
  <2>1. PICK i \in Invoice :
          /\ Exists(i)
          /\ Hold(w, "completed", i,
                  IF CanMarkPaid(inv[i]) THEN Dirty(inv[i], MarkedPaid(inv[i], s)) ELSE {},
                  IF CanMarkPaid(inv[i]) THEN MarkedPaid(inv[i], s) ELSE inv[i], 0, s)
    BY <1>7 DEF WebhookCompleted
  <2>2. Unused
    BY <1>7 DEF WebhookCompleted
  <2>3. CASE CanMarkPaid(inv[i])
    <3>1. Hold(w, "completed", i, Dirty(inv[i], MarkedPaid(inv[i], s)),
               MarkedPaid(inv[i], s), 0, s)
      BY <2>1, <2>3
    <3>2. Merge(inv[i], Dirty(inv[i], MarkedPaid(inv[i], s)), MarkedPaid(inv[i], s))
             = MarkedPaid(inv[i], s)
      BY <1>0, RowOpsType, MergeDirty
    <3>3. Balanced(MarkedPaid(inv[i], s))
      BY <1>0, <2>3, RowOpsBalanced
    <3>4. QED
      BY <2>1, <2>2, <3>1, <3>2, <3>3, HoldKeepsBalance
  <2>4. CASE ~CanMarkPaid(inv[i])
    <3>1. Hold(w, "completed", i, {}, inv[i], 0, s)
      BY <2>1, <2>4
    <3>2. Merge(inv[i], {}, inv[i]) = inv[i]
      BY <1>0 DEF Merge, Row
    <3>3. QED
      BY <1>0, <2>1, <2>2, <3>1, <3>2, HoldKeepsBalance
  <2>5. QED
    BY <2>3, <2>4
<1>8. ASSUME NEW s \in Session, WebhookRefunded(w, s)
      PROVE  Goal
  <2>1. PICK i \in Invoice :
          /\ Exists(i)
          /\ Hold(w, "refunded", i,
                  IF CanRefund(inv[i]) THEN {"status"} ELSE {},
                  IF CanRefund(inv[i]) THEN Refunded(inv[i]) ELSE inv[i], 0, s)
    BY <1>8 DEF WebhookRefunded
  <2>2. Unused
    BY <1>8 DEF WebhookRefunded
  <2>3. CASE CanRefund(inv[i])
    <3>1. Hold(w, "refunded", i, {"status"}, Refunded(inv[i]), 0, s)
      BY <2>1, <2>3
    <3>2. Merge(inv[i], {"status"}, Refunded(inv[i])) = Refunded(inv[i])
      BY <1>0 DEF Merge, Refunded, Row
    <3>3. Balanced(Refunded(inv[i]))
      BY <1>0, <2>3, RowOpsBalanced
    <3>4. QED
      BY <2>1, <2>2, <3>1, <3>2, <3>3, HoldKeepsBalance
  <2>4. CASE ~CanRefund(inv[i])
    <3>1. Hold(w, "refunded", i, {}, inv[i], 0, s)
      BY <2>1, <2>4
    <3>2. Merge(inv[i], {}, inv[i]) = inv[i]
      BY <1>0 DEF Merge, Row
    <3>3. QED
      BY <1>0, <2>1, <2>2, <3>1, <3>2, HoldKeepsBalance
  <2>5. QED
    BY <2>3, <2>4
<1>9. QED
  BY <1>1, <1>2, <1>3, <1>4, <1>5, <1>6, <1>7, <1>8 DEF Begin

LEMMA BalanceFinish ==
    ASSUME BalanceInv, OneAtATime, NEW w \in Worker, Finish(w)
    PROVE  StatusMatchesBalance' /\ PendingBalanced'
<1>1. req' = [req EXCEPT ![w] = Idle]
  BY DEF Finish, Commit, CommitDelete, Abort
<1>2. PendingBalanced'
  BY <1>1 DEF PendingBalanced, BalanceInv, TypeOK, OneAtATime
<1>3. CASE Commit(w)
  <2>1. req[w] # Idle
    BY <1>3 DEF Commit, Idle
  <2>2. Balanced(Merge(inv[req[w].i], req[w].cols, req[w].new))
    BY <2>1 DEF BalanceInv, PendingBalanced
  <2>3. \A i \in Invoice : \/ inv'[i] = inv[i]
                          \/ inv'[i] = Merge(inv[req[w].i], req[w].cols, req[w].new)
    BY <1>3 DEF Commit, BalanceInv, TypeOK
  <2>4. QED
    BY <1>2, <2>2, <2>3 DEF BalanceInv, StatusMatchesBalance
<1>4. CASE CommitDelete(w)
  <2>1. Balanced(NoRow("deleted"))
    BY DEF Balanced, NoRow, Settled
  <2>2. \A i \in Invoice : inv'[i] = inv[i] \/ inv'[i] = NoRow("deleted")
    BY <1>4 DEF CommitDelete, BalanceInv, TypeOK
  <2>3. QED
    BY <1>2, <2>1, <2>2 DEF BalanceInv, StatusMatchesBalance
<1>5. CASE Abort(w)
  BY <1>2, <1>5 DEF Abort, Unused, BalanceInv, StatusMatchesBalance
<1>6. QED
  BY <1>3, <1>4, <1>5 DEF Finish

LEMMA BalanceOther ==
    ASSUME BalanceInv,
           \/ \E i \in Invoice, t \in Amount : CreateInvoice(i, t)
           \/ \E s \in Session : \/ WebhookUnmatched(s)
                                 \/ CustomerPays(s) \/ DashboardRefund(s)
    PROVE  StatusMatchesBalance' /\ PendingBalanced'
<1>1. ASSUME NEW i \in Invoice, NEW t \in Amount, CreateInvoice(i, t)
      PROVE  StatusMatchesBalance' /\ PendingBalanced'
  <2>1. Balanced([NoRow("draft") EXCEPT !.total = t])
    BY DEF Balanced, NoRow, Settled
  <2>2. /\ req' = req
        /\ \A j \in Invoice : inv'[j] = inv[j] \/ inv'[j] = [NoRow("draft") EXCEPT !.total = t]
        /\ \A j \in Invoice : Exists(j) => inv'[j] = inv[j]
    BY <1>1 DEF CreateInvoice, BalanceInv, TypeOK, Exists, Status
  <2>3. StatusMatchesBalance'
    BY <2>1, <2>2 DEF BalanceInv, StatusMatchesBalance
  <2>4. \A v \in Worker : req[v] # Idle => req[v].i \in Invoice
    BY DEF BalanceInv, TypeOK, Request
  <2>5. PendingBalanced'
    BY <2>2, <2>4 DEF BalanceInv, PendingBalanced, Exists
  <2>6. QED
    BY <2>3, <2>5
<1>2. ASSUME NEW s \in Session, WebhookUnmatched(s) \/ CustomerPays(s) \/ DashboardRefund(s)
      PROVE  StatusMatchesBalance' /\ PendingBalanced'
  BY <1>2 DEF WebhookUnmatched, CustomerPays, DashboardRefund, BalanceInv,
              StatusMatchesBalance, PendingBalanced, Exists
<1>3. QED
  BY <1>1, <1>2

LEMMA BalanceInit == Init => BalanceInv
<1>1. ASSUME Init PROVE StatusMatchesBalance /\ PendingBalanced
  <2>1. Balanced(NoRow("absent"))
    BY DEF Balanced, NoRow, Settled
  <2>2. QED
    BY <1>1, <2>1 DEF Init, StatusMatchesBalance, PendingBalanced
<1>2. QED
  BY <1>1, TypeInit DEF BalanceInv

LEMMA BalanceStep ==
    ASSUME OneAtATime
    PROVE  BalanceInv /\ [Next]_vars => BalanceInv'
<1>1. ASSUME BalanceInv, UNCHANGED vars PROVE BalanceInv'
  BY <1>1 DEF vars, BalanceInv, TypeOK, StatusMatchesBalance, PendingBalanced, Exists
<1>2. ASSUME BalanceInv, Next PROVE BalanceInv'
  <2>1. TypeOK'
    BY <1>2, TypeStep DEF BalanceInv
  <2>2. StatusMatchesBalance' /\ PendingBalanced'
    BY <1>2, BalanceBegin, BalanceFinish, BalanceOther DEF Next
  <2>3. QED
    BY <2>1, <2>2 DEF BalanceInv
<1>3. QED
  BY <1>1, <1>2

\* With one request at a time, an invoice is PAID or REFUNDED only when its
\* balance reached its total, PARTIALLY_PAID only strictly in between.
THEOREM SerialBalance == OneAtATime => (Spec => []StatusMatchesBalance)
<1> SUFFICES ASSUME OneAtATime PROVE Spec => []StatusMatchesBalance
  OBVIOUS
<1>1. BalanceInv /\ [Next]_vars => BalanceInv'
  BY BalanceStep
<1>2. BalanceInv => StatusMatchesBalance
  BY DEF BalanceInv
<1>3. QED
  BY <1>1, <1>2, BalanceInit, PTL DEF Spec

-------------------------------------------------------------------------------
(* A row's money agrees with its status, whatever requests race *)

\* The requests that need an invoice which is no draft any more.
Charging == {"pay", "checkout", "completed", "refunded"}

\* What a request on invoice row may be about to write: a status that is not DRAFT,
\* a settled one only together with paid_at, and money only on what was sent.
MoneyRequest(r, row) ==
    /\ row.status # "absent"
    /\ r.op \in Charging => row.status # "draft"
    /\ r.op \notin Charging => r.cols \subseteq {"status", "total"}
    /\ "status" \in r.cols => r.new.status \notin {"absent", "draft", "deleted"}
    /\ "paidAt" \in r.cols => r.new.paidAt
    /\ "status" \in r.cols /\ r.new.status \in Settled =>
           "paidAt" \in r.cols \/ row.paidAt \/ row.status = "deleted"

PendingMoney == \A w \in Worker : req[w] # Idle => MoneyRequest(req[w], inv[req[w].i])

\* No manual payment was accepted for an invoice that does not exist yet.
AbsentUnpaid == \A i \in Invoice : inv[i].status = "absent" => cash[i] = 0

MoneyInv == TypeOK /\ MoneyMatchesStatus /\ PendingMoney /\ AbsentUnpaid

\* A row only moves away from "absent" and from DRAFT, and keeps its paid_at.
Onward(old, new) ==
    /\ old.status # "absent" => new.status # "absent"
    /\ old.status \notin {"absent", "draft"} => new.status # "draft"
    /\ old.status = "deleted" => new.status = "deleted"
    /\ old.paidAt => new.paidAt \/ new.status = "deleted"

LEMMA OnwardKeepsRequest ==
    ASSUME NEW r, NEW old, NEW new, MoneyRequest(r, old), Onward(old, new)
    PROVE  MoneyRequest(r, new)
BY DEF MoneyRequest, Onward

\* The columns each DAO method changes.
LEMMA DirtyMoney ==
    ASSUME NEW row \in Row
    PROVE  /\ Dirty(row, row) = {}
           /\ \A new \in {Sent(row), Cancelled(row)} : Dirty(row, new) \subseteq {"status"}
           /\ \A a \in Amount : LET new == WithPayment(row, a) IN
                /\ new.status \in {"paid", "partially_paid"}
                /\ "paidAt" \in Dirty(row, new) => new.paidAt
                /\ new.status = "paid" => row.paidAt \/ "paidAt" \in Dirty(row, new)
           /\ \A s \in Session : LET new == MarkedPaid(row, s) IN
                /\ new.status = "paid" /\ new.paidAt
                /\ row.paidAt \/ "paidAt" \in Dirty(row, new)
<1>1. Dirty(row, row) = {}
  BY DEF Dirty
<1>2. Dirty(row, Sent(row)) \subseteq {"status"}
  BY DEF Dirty, Sent, Row, Column
<1>3. Dirty(row, Cancelled(row)) \subseteq {"status"}
  BY DEF Dirty, Cancelled, Row, Column
<1>4. ASSUME NEW a \in Amount
      PROVE  LET new == WithPayment(row, a) IN
                /\ new.status \in {"paid", "partially_paid"}
                /\ "paidAt" \in Dirty(row, new) => new.paidAt
                /\ new.status = "paid" => row.paidAt \/ "paidAt" \in Dirty(row, new)
  BY DEF Dirty, WithPayment, Row, Column
<1>5. ASSUME NEW s \in Session
      PROVE  LET new == MarkedPaid(row, s) IN
                /\ new.status = "paid" /\ new.paidAt
                /\ row.paidAt \/ "paidAt" \in Dirty(row, new)
  BY DEF Dirty, MarkedPaid, Row, Column
<1>6. QED
  BY <1>1, <1>2, <1>3, <1>4, <1>5

\* Loading a row keeps the invariant when what the request will write is as above.
LEMMA HoldKeepsMoney ==
    ASSUME MoneyInv, NEW w \in Worker, NEW i \in Invoice,
           NEW op, NEW cols, NEW new, NEW a, NEW s,
           Hold(w, op, i, cols, new, a, s), Unused,
           MoneyRequest([op |-> op, i |-> i, cols |-> cols, new |-> new,
                         amount |-> a, s |-> s], inv[i])
    PROVE  MoneyMatchesStatus' /\ PendingMoney' /\ AbsentUnpaid'
<1>1. /\ req'[w] = [op |-> op, i |-> i, cols |-> cols, new |-> new, amount |-> a, s |-> s]
      /\ \A v \in Worker : v # w => req'[v] = req[v]
      /\ inv' = inv /\ cash' = cash
  BY DEF Hold, Unused, MoneyInv, TypeOK
<1>2. MoneyMatchesStatus' /\ AbsentUnpaid'
  BY <1>1 DEF MoneyInv, MoneyMatchesStatus, DraftIsClean, SettledHasDate, AbsentUnpaid
<1>3. ASSUME NEW v \in Worker, req'[v] # Idle
      PROVE  MoneyRequest(req'[v], inv'[req'[v].i])
  BY <1>1, <1>3 DEF MoneyInv, PendingMoney
<1>4. QED
  BY <1>2, <1>3 DEF PendingMoney

LEMMA MoneyBegin ==
    ASSUME MoneyInv, NEW w \in Worker, Begin(w)
    PROVE  MoneyMatchesStatus' /\ PendingMoney' /\ AbsentUnpaid'
<1> DEFINE Goal == MoneyMatchesStatus' /\ PendingMoney' /\ AbsentUnpaid'
<1>0. \A i \in Invoice :
        /\ inv[i] \in Row
        /\ inv[i].status = "draft" => inv[i].intent = None /\ inv[i].checkout = None
        /\ inv[i].status \in Settled => inv[i].paidAt
  BY DEF MoneyInv, TypeOK, MoneyMatchesStatus, DraftIsClean, SettledHasDate
<1>1. ASSUME NEW i \in Invoice, NEW t \in Amount, UpdateInvoice(w, i, t)
      PROVE  Goal
  <2>1. PICK cols \in {{}, {"total"}} :
          Hold(w, "update", i, cols, [inv[i] EXCEPT !.total = t], 0, None)
    BY <1>1 DEF UpdateInvoice
  <2>2. MoneyRequest([op |-> "update", i |-> i, cols |-> cols,
                      new |-> [inv[i] EXCEPT !.total = t], amount |-> 0, s |-> None], inv[i])
    BY <1>1 DEF UpdateInvoice, IsEditable, MoneyRequest, Charging
  <2>3. QED
    BY <1>1, <2>1, <2>2, HoldKeepsMoney DEF UpdateInvoice
<1>2. ASSUME NEW i \in Invoice, NEW t \in Amount, RecordPayment(w, i, t)
      PROVE  Goal
  <2> DEFINE new == WithPayment(inv[i], t)
  <2>1. MoneyRequest([op |-> "pay", i |-> i, cols |-> Dirty(inv[i], new),
                      new |-> new, amount |-> t, s |-> None], inv[i])
    <3>1. inv[i].status \in Payable
      BY <1>2 DEF RecordPayment, CanPay
    <3>2. /\ new.status \in {"paid", "partially_paid"}
          /\ "paidAt" \in Dirty(inv[i], new) => new.paidAt
          /\ new.status = "paid" => inv[i].paidAt \/ "paidAt" \in Dirty(inv[i], new)
      BY <1>0, DirtyMoney
    <3> HIDE DEF new
    <3>3. QED
      BY <3>1, <3>2 DEF MoneyRequest, Charging, Payable, Settled
  <2>2. QED
    BY <1>2, <2>1, HoldKeepsMoney DEF RecordPayment
<1>3. ASSUME NEW i \in Invoice, DeleteInvoice(w, i)
      PROVE  Goal
  <2>1. MoneyRequest([op |-> "delete", i |-> i, cols |-> Dirty(inv[i], inv[i]),
                      new |-> inv[i], amount |-> 0, s |-> None], inv[i])
    BY <1>0, <1>3, DirtyMoney DEF DeleteInvoice, IsEditable, MoneyRequest, Charging
  <2>2. QED
    BY <1>3, <2>1, HoldKeepsMoney DEF DeleteInvoice, Load
<1>4. ASSUME NEW i \in Invoice, SendInvoice(w, i)
      PROVE  Goal
  <2>1. Dirty(inv[i], Sent(inv[i])) \subseteq {"status"} /\ Sent(inv[i]).status = "sent"
    BY <1>0, DirtyMoney DEF Sent, Row
  <2>2. MoneyRequest([op |-> "send", i |-> i, cols |-> Dirty(inv[i], Sent(inv[i])),
                      new |-> Sent(inv[i]), amount |-> 0, s |-> None], inv[i])
    BY <1>4, <2>1 DEF SendInvoice, CanSend, MoneyRequest, Charging, Settled
  <2>3. QED
    BY <1>4, <2>2, HoldKeepsMoney DEF SendInvoice, Load
<1>5. ASSUME NEW i \in Invoice, CancelInvoice(w, i)
      PROVE  Goal
  <2>1. /\ Dirty(inv[i], Cancelled(inv[i])) \subseteq {"status"}
        /\ Cancelled(inv[i]).status = "cancelled"
    BY <1>0, DirtyMoney DEF Cancelled, Row
  <2>2. MoneyRequest([op |-> "cancel", i |-> i, cols |-> Dirty(inv[i], Cancelled(inv[i])),
                      new |-> Cancelled(inv[i]), amount |-> 0, s |-> None], inv[i])
    BY <1>5, <2>1 DEF CancelInvoice, Exists, Status, MoneyRequest, Charging, Settled
  <2>3. QED
    BY <1>5, <2>2, HoldKeepsMoney DEF CancelInvoice, Load
<1>6. ASSUME NEW i \in Invoice, CreateCheckout(w, i)
      PROVE  Goal
  <2>1. MoneyRequest([op |-> "checkout", i |-> i, cols |-> Dirty(inv[i], inv[i]),
                      new |-> inv[i], amount |-> 0, s |-> None], inv[i])
    BY <1>0, <1>6, DirtyMoney DEF CreateCheckout, CanPay, Payable, MoneyRequest, Charging
  <2>2. QED
    BY <1>6, <2>1, HoldKeepsMoney DEF CreateCheckout, Load
<1>7. ASSUME NEW s \in Session, StripeCreatesSession(w, s)
      PROVE  Goal
  <2>1. /\ req[w] # Idle
        /\ req[w] \in [op : AdminOp \cup {"checkout"}, i : Invoice, cols : SUBSET Column,
                       new : Row, amount : Nat, s : Session \cup {None}]
    BY <1>7 DEF StripeCreatesSession, MoneyInv, TypeOK, Request, Idle, WebhookOp
  <2>2. /\ req'[w].i = req[w].i /\ req'[w].cols = {"checkout"}
        /\ req'[w].op = "checkout" /\ req[w].op = "checkout"
        /\ \A v \in Worker : v # w => req'[v] = req[v]
        /\ inv' = inv /\ cash' = cash
    BY <1>7, <2>1 DEF StripeCreatesSession, MoneyInv, TypeOK
  <2>3. MoneyRequest(req'[w], inv'[req'[w].i])
    BY <2>1, <2>2 DEF MoneyInv, PendingMoney, MoneyRequest, Charging
  <2>4. PendingMoney'
    BY <2>2, <2>3 DEF MoneyInv, PendingMoney
  <2>5. QED
    BY <2>2, <2>4 DEF MoneyInv, MoneyMatchesStatus, DraftIsClean, SettledHasDate, AbsentUnpaid
<1>8. ASSUME NEW s \in Session, WebhookCompleted(w, s)
      PROVE  Goal
  <2>1. PICK i \in Invoice :
          /\ Exists(i) /\ inv[i].checkout = s
          /\ Hold(w, "completed", i,
                  IF CanMarkPaid(inv[i]) THEN Dirty(inv[i], MarkedPaid(inv[i], s)) ELSE {},
                  IF CanMarkPaid(inv[i]) THEN MarkedPaid(inv[i], s) ELSE inv[i], 0, s)
    BY <1>8 DEF WebhookCompleted
  <2>2. inv[i].status \notin {"absent", "draft"}
    BY <1>0, <2>1, NoneAssumption DEF Exists, Status
  <2>3. /\ MarkedPaid(inv[i], s).status = "paid" /\ MarkedPaid(inv[i], s).paidAt
        /\ inv[i].paidAt \/ "paidAt" \in Dirty(inv[i], MarkedPaid(inv[i], s))
    BY <1>0, DirtyMoney
  <2>4. MoneyRequest([op |-> "completed", i |-> i,
           cols |-> IF CanMarkPaid(inv[i]) THEN Dirty(inv[i], MarkedPaid(inv[i], s)) ELSE {},
           new |-> IF CanMarkPaid(inv[i]) THEN MarkedPaid(inv[i], s) ELSE inv[i],
           amount |-> 0, s |-> s], inv[i])
    BY <2>2, <2>3 DEF MoneyRequest, Charging
  <2>5. QED
    BY <1>8, <2>1, <2>4, HoldKeepsMoney DEF WebhookCompleted
<1>9. ASSUME NEW s \in Session, WebhookRefunded(w, s)
      PROVE  Goal
  <2>1. PICK i \in Invoice :
          /\ Exists(i) /\ inv[i].intent = s
          /\ Hold(w, "refunded", i,
                  IF CanRefund(inv[i]) THEN {"status"} ELSE {},
                  IF CanRefund(inv[i]) THEN Refunded(inv[i]) ELSE inv[i], 0, s)
    BY <1>9 DEF WebhookRefunded
  <2>2. inv[i].status \notin {"absent", "draft"}
    BY <1>0, <2>1, NoneAssumption DEF Exists, Status
  <2>3. CanRefund(inv[i]) => inv[i].paidAt /\ Refunded(inv[i]).status = "refunded"
    BY <1>0 DEF CanRefund, Refunded, Settled, Row
  <2>4. MoneyRequest([op |-> "refunded", i |-> i,
           cols |-> IF CanRefund(inv[i]) THEN {"status"} ELSE {},
           new |-> IF CanRefund(inv[i]) THEN Refunded(inv[i]) ELSE inv[i],
           amount |-> 0, s |-> s], inv[i])
    BY <2>2, <2>3 DEF MoneyRequest, Charging
  <2>5. QED
    BY <1>9, <2>1, <2>4, HoldKeepsMoney DEF WebhookRefunded
<1>10. QED
  BY <1>1, <1>2, <1>3, <1>4, <1>5, <1>6, <1>7, <1>8, <1>9 DEF Begin

\* Writing rows that only move onward keeps what the other requests rely on.
LEMMA OnwardKeepsPending ==
    ASSUME MoneyInv,
           \A v \in Worker : req'[v] = req[v] \/ req'[v] = Idle,
           \A i \in Invoice : Onward(inv[i], inv'[i])
    PROVE  PendingMoney'
<1> SUFFICES ASSUME NEW v \in Worker, req'[v] # Idle
             PROVE  MoneyRequest(req'[v], inv'[req'[v].i])
  BY DEF PendingMoney
<1>1. req'[v] = req[v] /\ req[v].i \in Invoice
  BY DEF MoneyInv, TypeOK, Request
<1>2. QED
  BY <1>1, OnwardKeepsRequest DEF MoneyInv, PendingMoney

LEMMA MoneyFinish ==
    ASSUME MoneyInv, NEW w \in Worker, Finish(w)
    PROVE  MoneyMatchesStatus' /\ PendingMoney' /\ AbsentUnpaid'
<1> DEFINE r == req[w]
<1>0. /\ inv \in [Invoice -> Row] /\ req \in [Worker -> Request] /\ cash \in [Invoice -> Nat]
      /\ \A i \in Invoice :
           /\ inv[i].status = "draft" => /\ inv[i].paid = 0 /\ cash[i] = 0 /\ ~inv[i].paidAt
                                         /\ inv[i].intent = None /\ inv[i].checkout = None
           /\ inv[i].status \in Settled => inv[i].paidAt
           /\ inv[i].status = "absent" => cash[i] = 0
  BY DEF MoneyInv, TypeOK, MoneyMatchesStatus, DraftIsClean, SettledHasDate, AbsentUnpaid
<1>1. req' = [req EXCEPT ![w] = Idle]
  BY DEF Finish, Commit, CommitDelete, Abort
<1>2. \A v \in Worker : req'[v] = req[v] \/ req'[v] = Idle
  BY <1>0, <1>1
<1>3. CASE Commit(w)
  <2>1. /\ r.i \in Invoice /\ r.new \in Row /\ r.cols \in SUBSET Column /\ r.amount \in Nat
        /\ MoneyRequest(r, inv[r.i])
    <3>1. r # Idle
      BY <1>3 DEF Commit, Idle
    <3>2. QED
      BY <1>0, <3>1 DEF MoneyInv, PendingMoney, Request
  <2> DEFINE row == inv[r.i]
             new == Merge(row, r.cols, r.new)
  <2>2. /\ new.status = IF "status" \in r.cols THEN r.new.status ELSE row.status
        /\ new.paid = IF "paid" \in r.cols THEN r.new.paid ELSE row.paid
        /\ new.paidAt = IF "paidAt" \in r.cols THEN r.new.paidAt ELSE row.paidAt
        /\ new.intent = IF "intent" \in r.cols THEN r.new.intent ELSE row.intent
        /\ new.checkout = IF "checkout" \in r.cols THEN r.new.checkout ELSE row.checkout
    BY DEF Merge
  <2>3. /\ Exists(r.i) => inv' = [inv EXCEPT ![r.i] = new]
        /\ ~Exists(r.i) => inv' = inv
        /\ cash' = IF r.op = "pay" THEN [cash EXCEPT ![r.i] = @ + r.amount] ELSE cash
        /\ r.op = "pay" => Exists(r.i)
    BY <1>3 DEF Commit, SelectsTwice, WebhookOp
  <2> HIDE DEF new, r
  <2>4. Exists(r.i) => row.status \notin {"absent", "deleted"}
    BY DEF Exists, Status
  <2>5. Exists(r.i) => Onward(row, new)
    BY <2>1, <2>2, <2>4 DEF Onward, MoneyRequest
  <2>6. \A i \in Invoice : Onward(inv[i], inv'[i])
    BY <1>0, <2>1, <2>3, <2>5 DEF Onward
  <2>7. PendingMoney'
    BY <1>2, <2>6, OnwardKeepsPending
  <2>8. Exists(r.i) /\ new.status = "draft" =>
           /\ r.op \notin Charging /\ row.status = "draft"
           /\ new.paid = 0 /\ ~new.paidAt /\ new.intent = None /\ new.checkout = None
    BY <1>0, <2>1, <2>2 DEF MoneyRequest
  <2>9. Exists(r.i) /\ new.status \in Settled => new.paidAt
    BY <1>0, <2>1, <2>2, <2>4 DEF MoneyRequest
  <2>10. DraftIsClean'
    <3> SUFFICES ASSUME NEW i \in Invoice, inv'[i].status = "draft"
                 PROVE  /\ inv'[i].paid = 0 /\ cash'[i] = 0 /\ ~inv'[i].paidAt
                        /\ inv'[i].intent = None /\ inv'[i].checkout = None
      BY DEF DraftIsClean
    <3>1. CASE i = r.i /\ Exists(r.i)
      BY <1>0, <2>1, <2>3, <2>8, <3>1 DEF Charging
    <3>2. CASE i # r.i
      BY <1>0, <2>1, <2>3, <3>2
    <3>3. CASE ~Exists(r.i)
      BY <1>0, <2>3, <3>3
    <3>4. QED
      BY <3>1, <3>2, <3>3
  <2>11. SettledHasDate'
    BY <1>0, <2>1, <2>3, <2>9 DEF SettledHasDate
  <2>12. AbsentUnpaid'
    BY <1>0, <2>1, <2>3, <2>6 DEF AbsentUnpaid, Onward, MoneyRequest
  <2>13. QED
    BY <2>7, <2>10, <2>11, <2>12 DEF MoneyMatchesStatus
<1>4. CASE CommitDelete(w)
  <2>1. r.i \in Invoice
    BY <1>0, <1>4 DEF CommitDelete, Request, Idle
  <2>2. /\ inv' = [inv EXCEPT ![r.i] = NoRow("deleted")] /\ cash' = cash
        /\ NoRow("deleted").status = "deleted"
    BY <1>4 DEF CommitDelete, NoRow
  <2>3. \A i \in Invoice : Onward(inv[i], inv'[i])
    BY <1>0, <2>1, <2>2 DEF Onward
  <2>4. PendingMoney'
    BY <1>2, <2>3, OnwardKeepsPending
  <2>5. QED
    BY <1>0, <2>1, <2>2, <2>4 DEF MoneyMatchesStatus, DraftIsClean, SettledHasDate,
                                  AbsentUnpaid, Settled
<1>5. CASE Abort(w)
  <2>1. inv' = inv /\ cash' = cash
    BY <1>5 DEF Abort, Unused
  <2>2. PendingMoney'
    BY <1>2, <2>1, OnwardKeepsPending DEF Onward
  <2>3. QED
    BY <2>1, <2>2 DEF MoneyInv, MoneyMatchesStatus, DraftIsClean, SettledHasDate, AbsentUnpaid
<1>6. QED
  BY <1>3, <1>4, <1>5 DEF Finish

LEMMA MoneyOther ==
    ASSUME MoneyInv,
           \/ \E i \in Invoice, t \in Amount : CreateInvoice(i, t)
           \/ \E s \in Session : \/ WebhookUnmatched(s)
                                 \/ CustomerPays(s) \/ DashboardRefund(s)
    PROVE  MoneyMatchesStatus' /\ PendingMoney' /\ AbsentUnpaid'
<1>1. ASSUME NEW i \in Invoice, NEW t \in Amount, CreateInvoice(i, t)
      PROVE  MoneyMatchesStatus' /\ PendingMoney' /\ AbsentUnpaid'
  <2> DEFINE new == [NoRow("draft") EXCEPT !.total = t]
  <2>1. /\ inv' = [inv EXCEPT ![i] = new] /\ req' = req /\ cash' = cash
        /\ inv \in [Invoice -> Row] /\ inv[i].status = "absent" /\ cash[i] = 0
    BY <1>1 DEF CreateInvoice, MoneyInv, TypeOK, AbsentUnpaid
  <2>2. /\ new.status = "draft" /\ new.paid = 0 /\ new.paidAt = FALSE
        /\ new.intent = None /\ new.checkout = None
    BY DEF NoRow
  <2> HIDE DEF new
  <2>3. MoneyMatchesStatus' /\ AbsentUnpaid'
    BY <2>1, <2>2 DEF MoneyInv, MoneyMatchesStatus, DraftIsClean, SettledHasDate,
                      AbsentUnpaid, Settled
  <2>4. \A v \in Worker : req[v] # Idle => req[v].i \in Invoice /\ req[v].i # i
    BY <2>1 DEF MoneyInv, TypeOK, Request, PendingMoney, MoneyRequest
  <2>5. PendingMoney'
    BY <2>1, <2>4 DEF MoneyInv, PendingMoney
  <2>6. QED
    BY <2>3, <2>5
<1>2. ASSUME NEW s \in Session, WebhookUnmatched(s) \/ CustomerPays(s) \/ DashboardRefund(s)
      PROVE  MoneyMatchesStatus' /\ PendingMoney' /\ AbsentUnpaid'
  BY <1>2 DEF WebhookUnmatched, CustomerPays, DashboardRefund, MoneyInv, MoneyMatchesStatus,
              DraftIsClean, SettledHasDate, PendingMoney, AbsentUnpaid
<1>3. QED
  BY <1>1, <1>2

LEMMA MoneyInit == Init => MoneyInv
<1>1. ASSUME Init PROVE MoneyMatchesStatus /\ PendingMoney /\ AbsentUnpaid
  BY <1>1 DEF Init, MoneyMatchesStatus, DraftIsClean, SettledHasDate, Settled,
              PendingMoney, AbsentUnpaid, NoRow
<1>2. QED
  BY <1>1, TypeInit DEF MoneyInv

LEMMA MoneyStep == MoneyInv /\ [Next]_vars => MoneyInv'
<1>1. ASSUME MoneyInv, UNCHANGED vars PROVE MoneyInv'
  BY <1>1 DEF vars, MoneyInv, TypeOK, MoneyMatchesStatus, DraftIsClean, SettledHasDate,
              PendingMoney, AbsentUnpaid
<1>2. ASSUME MoneyInv, Next PROVE MoneyInv'
  <2>1. TypeOK'
    BY <1>2, TypeStep DEF MoneyInv
  <2>2. MoneyMatchesStatus' /\ PendingMoney' /\ AbsentUnpaid'
    BY <1>2, MoneyBegin, MoneyFinish, MoneyOther DEF Next
  <2>3. QED
    BY <2>1, <2>2 DEF MoneyInv
<1>3. QED
  BY <1>1, <1>2

\* Whatever requests race, a draft carries no money and no reference to Stripe, and a
\* settled invoice has its paid_at.
THEOREM MoneyAlwaysMatches == Spec => []MoneyMatchesStatus
<1>1. MoneyInv => MoneyMatchesStatus
  BY DEF MoneyInv
<1>2. QED
  BY <1>1, MoneyInit, MoneyStep, PTL DEF Spec

-------------------------------------------------------------------------------
(* One request at a time: each commit is the whole handler at once *)

\* What request r has decided still holds of the row it loaded, and its columns
\* turn that row into what the DAO method makes of it.
Decided(r, row) ==
    LET after == Merge(row, r.cols, r.new) IN
    \/ r.op = "update" /\ IsEditable(row)
    \/ r.op = "delete" /\ IsEditable(row)
    \/ r.op = "send" /\ CanSend(row) /\ after = Sent(row)
    \/ r.op = "cancel" /\ CanCancel(row) /\ after = Cancelled(row)
    \/ r.op = "pay" /\ CanPay(row) /\ r.amount \in Amount /\ after = WithPayment(row, r.amount)
    \/ r.op = "checkout" /\ CanPay(row) /\ r.s = None /\ r.cols = {}
    \/ /\ r.op = "checkout" /\ CanPay(row) /\ r.s \in Session /\ r.cols = {"checkout"}
       /\ r.new.checkout = r.s
    \/ /\ r.op = "completed" /\ row.checkout = r.s /\ r.s \in Session
       /\ after = IF CanMarkPaid(row) THEN MarkedPaid(row, r.s) ELSE row
    \/ /\ r.op = "refunded" /\ row.intent = r.s /\ r.s \in Session
       /\ after = IF CanRefund(row) THEN Refunded(row) ELSE row

LoadedIsCurrent ==
    \A w \in Worker : req[w] # Idle =>
        Exists(req[w].i) /\ Decided(req[w], inv[req[w].i])

SerialInv == TypeOK /\ LoadedIsCurrent

\* Merging no column changes nothing.
LEMMA MergeNothing ==
    ASSUME NEW row \in Row, NEW new
    PROVE  Merge(row, {}, new) = row
BY DEF Merge, Row

\* The only worker holds what it decided, and nothing else is under way.
LEMMA HoldIsCurrent ==
    ASSUME SerialInv, OneAtATime, NEW w \in Worker, NEW i \in Invoice,
           NEW op, NEW cols, NEW new, NEW a, NEW s,
           Hold(w, op, i, cols, new, a, s), Unused, Exists(i),
           Decided([op |-> op, i |-> i, cols |-> cols, new |-> new,
                    amount |-> a, s |-> s], inv[i])
    PROVE  LoadedIsCurrent'
<1>1. /\ req'[w] = [op |-> op, i |-> i, cols |-> cols, new |-> new, amount |-> a, s |-> s]
      /\ inv' = inv
      /\ \A v \in Worker : v = w
  BY DEF Hold, Unused, SerialInv, TypeOK, OneAtATime
<1>2. QED
  BY <1>1 DEF LoadedIsCurrent, Exists

LEMMA SerialBegin ==
    ASSUME SerialInv, OneAtATime, NEW w \in Worker, Begin(w)
    PROVE  LoadedIsCurrent'
<1>0. \A i \in Invoice : inv[i] \in Row
  BY DEF SerialInv, TypeOK
<1>1. ASSUME NEW i \in Invoice, NEW t \in Amount, UpdateInvoice(w, i, t)
      PROVE  LoadedIsCurrent'
  <2>1. PICK cols \in {{}, {"total"}} :
          Hold(w, "update", i, cols, [inv[i] EXCEPT !.total = t], 0, None)
    BY <1>1 DEF UpdateInvoice
  <2>2. Exists(i)
    BY <1>1 DEF UpdateInvoice, IsEditable, Exists, Status
  <2>3. QED
    BY <1>1, <2>1, <2>2, HoldIsCurrent DEF UpdateInvoice, Decided
<1>2. ASSUME NEW i \in Invoice, NEW t \in Amount, RecordPayment(w, i, t)
      PROVE  LoadedIsCurrent'
  <2> DEFINE new == WithPayment(inv[i], t)
  <2>1. Merge(inv[i], Dirty(inv[i], new), new) = new
    BY <1>0, RowOpsType, MergeDirty
  <2>2. Exists(i)
    BY <1>2 DEF RecordPayment, CanPay, Payable, Exists, Status
  <2>3. Hold(w, "pay", i, Dirty(inv[i], new), new, t, None) /\ CanPay(inv[i])
    BY <1>2 DEF RecordPayment
  <2>4. Decided([op |-> "pay", i |-> i, cols |-> Dirty(inv[i], new), new |-> new,
                 amount |-> t, s |-> None], inv[i])
    BY <2>1, <2>3 DEF Decided
  <2>5. QED
    BY <1>2, <2>2, <2>3, <2>4, HoldIsCurrent DEF RecordPayment
<1>3. ASSUME NEW i \in Invoice, DeleteInvoice(w, i)
      PROVE  LoadedIsCurrent'
  <2>1. Exists(i)
    BY <1>3 DEF DeleteInvoice, IsEditable, Exists, Status
  <2>2. QED
    BY <1>3, <2>1, HoldIsCurrent DEF DeleteInvoice, Load, Decided
<1>4. ASSUME NEW i \in Invoice, SendInvoice(w, i)
      PROVE  LoadedIsCurrent'
  <2>1. Merge(inv[i], Dirty(inv[i], Sent(inv[i])), Sent(inv[i])) = Sent(inv[i])
    BY <1>0, RowOpsType, MergeDirty
  <2>2. Exists(i)
    BY <1>4 DEF SendInvoice, CanSend, Exists, Status
  <2>3. QED
    BY <1>4, <2>1, <2>2, HoldIsCurrent DEF SendInvoice, Load, Decided
<1>5. ASSUME NEW i \in Invoice, CancelInvoice(w, i)
      PROVE  LoadedIsCurrent'
  <2>1. Merge(inv[i], Dirty(inv[i], Cancelled(inv[i])), Cancelled(inv[i])) = Cancelled(inv[i])
    BY <1>0, RowOpsType, MergeDirty
  <2>2. QED
    BY <1>5, <2>1, HoldIsCurrent DEF CancelInvoice, Load, Decided
<1>6. ASSUME NEW i \in Invoice, CreateCheckout(w, i)
      PROVE  LoadedIsCurrent'
  <2>1. Dirty(inv[i], inv[i]) = {}
    BY DEF Dirty
  <2>2. Exists(i)
    BY <1>6 DEF CreateCheckout, CanPay, Payable, Exists, Status
  <2>3. QED
    BY <1>6, <2>1, <2>2, HoldIsCurrent DEF CreateCheckout, Load, Decided
<1>7. ASSUME NEW s \in Session, StripeCreatesSession(w, s)
      PROVE  LoadedIsCurrent'
  <2>1. /\ req[w] # Idle
        /\ req[w] \in [op : AdminOp \cup {"checkout"}, i : Invoice, cols : SUBSET Column,
                       new : Row, amount : Nat, s : Session \cup {None}]
    BY <1>7 DEF StripeCreatesSession, SerialInv, TypeOK, Request, Idle, WebhookOp
  <2>2. /\ req'[w].i = req[w].i /\ req'[w].cols = {"checkout"} /\ req'[w].s = s
        /\ req'[w].op = "checkout" /\ req[w].op = "checkout"
        /\ inv' = inv
        /\ \A v \in Worker : v = w
    BY <1>7, <2>1 DEF StripeCreatesSession, SerialInv, TypeOK, OneAtATime
  <2>3. req'[w].new.checkout = s
    BY <1>7, <2>1 DEF StripeCreatesSession, SerialInv, TypeOK, Row
  <2>4. Exists(req[w].i) /\ CanPay(inv[req[w].i])
    BY <2>1, <2>2 DEF SerialInv, LoadedIsCurrent, Decided
  <2>5. QED
    BY <2>2, <2>3, <2>4 DEF LoadedIsCurrent, Decided, Exists
<1>8. ASSUME NEW s \in Session, WebhookCompleted(w, s)
      PROVE  LoadedIsCurrent'
  <2>1. PICK i \in Invoice :
          /\ Exists(i) /\ inv[i].checkout = s
          /\ Hold(w, "completed", i,
                  IF CanMarkPaid(inv[i]) THEN Dirty(inv[i], MarkedPaid(inv[i], s)) ELSE {},
                  IF CanMarkPaid(inv[i]) THEN MarkedPaid(inv[i], s) ELSE inv[i], 0, s)
    BY <1>8 DEF WebhookCompleted
  <2> DEFINE cols == IF CanMarkPaid(inv[i]) THEN Dirty(inv[i], MarkedPaid(inv[i], s)) ELSE {}
             new == IF CanMarkPaid(inv[i]) THEN MarkedPaid(inv[i], s) ELSE inv[i]
  <2>2. Merge(inv[i], cols, new) = new
    BY <1>0, RowOpsType, MergeDirty, MergeNothing
  <2>3. Decided([op |-> "completed", i |-> i, cols |-> cols, new |-> new,
                 amount |-> 0, s |-> s], inv[i])
    BY <2>1, <2>2 DEF Decided
  <2>4. QED
    BY <1>8, <2>1, <2>3, HoldIsCurrent DEF WebhookCompleted
<1>9. ASSUME NEW s \in Session, WebhookRefunded(w, s)
      PROVE  LoadedIsCurrent'
  <2>1. PICK i \in Invoice :
          /\ Exists(i) /\ inv[i].intent = s
          /\ Hold(w, "refunded", i,
                  IF CanRefund(inv[i]) THEN {"status"} ELSE {},
                  IF CanRefund(inv[i]) THEN Refunded(inv[i]) ELSE inv[i], 0, s)
    BY <1>9 DEF WebhookRefunded
  <2> DEFINE cols == IF CanRefund(inv[i]) THEN {"status"} ELSE {}
             new == IF CanRefund(inv[i]) THEN Refunded(inv[i]) ELSE inv[i]
  <2>2. Merge(inv[i], cols, new) = new
    <3>1. Merge(inv[i], {"status"}, Refunded(inv[i])) = Refunded(inv[i])
      BY <1>0 DEF Merge, Refunded, Row
    <3>2. QED
      BY <1>0, <3>1, MergeNothing
  <2>3. Decided([op |-> "refunded", i |-> i, cols |-> cols, new |-> new,
                 amount |-> 0, s |-> s], inv[i])
    BY <2>1, <2>2 DEF Decided
  <2>4. QED
    BY <1>9, <2>1, <2>3, HoldIsCurrent DEF WebhookRefunded
<1>10. QED
  BY <1>1, <1>2, <1>3, <1>4, <1>5, <1>6, <1>7, <1>8, <1>9 DEF Begin

LEMMA SerialStep ==
    ASSUME OneAtATime
    PROVE  SerialInv /\ [Next]_vars => SerialInv'
<1>1. ASSUME SerialInv, UNCHANGED vars PROVE SerialInv'
  BY <1>1 DEF vars, SerialInv, TypeOK, LoadedIsCurrent, Exists
<1>2. ASSUME SerialInv, Next PROVE LoadedIsCurrent'
  <2>1. ASSUME NEW w \in Worker, Begin(w) PROVE LoadedIsCurrent'
    BY <1>2, <2>1, SerialBegin
  <2>2. ASSUME NEW w \in Worker, Finish(w) PROVE LoadedIsCurrent'
    <3>1. req' = [req EXCEPT ![w] = Idle]
      BY <2>2 DEF Finish, Commit, CommitDelete, Abort
    <3>2. QED
      BY <1>2, <3>1 DEF SerialInv, TypeOK, OneAtATime, LoadedIsCurrent
  <2>3. ASSUME NEW i \in Invoice, NEW t \in Amount, CreateInvoice(i, t) PROVE LoadedIsCurrent'
    <3>1. /\ req' = req /\ \A j \in Invoice : Exists(j) => inv'[j] = inv[j]
      BY <1>2, <2>3 DEF CreateInvoice, SerialInv, TypeOK, Exists, Status
    <3>2. \A v \in Worker : req[v] # Idle => req[v].i \in Invoice
      BY <1>2 DEF SerialInv, TypeOK, Request
    <3>3. QED
      BY <1>2, <3>1, <3>2 DEF SerialInv, LoadedIsCurrent, Exists
  <2>4. ASSUME NEW s \in Session, WebhookUnmatched(s) \/ CustomerPays(s) \/ DashboardRefund(s)
        PROVE  LoadedIsCurrent'
    BY <1>2, <2>4 DEF WebhookUnmatched, CustomerPays, DashboardRefund, SerialInv,
                      LoadedIsCurrent, Exists
  <2>5. QED
    BY <1>2, <2>1, <2>2, <2>3, <2>4 DEF Next
<1>3. QED
  BY <1>1, <1>2, TypeStep DEF SerialInv

LEMMA SerialInit == Init => SerialInv
<1>1. Init => LoadedIsCurrent
  BY DEF Init, LoadedIsCurrent
<1>2. QED
  BY <1>1, TypeInit DEF SerialInv

\* What a commit of request r makes of the row.
Handled(r, row, after) ==
    \/ r.op = "update" /\ after = row
    \/ r.op = "send" /\ CanSend(row) /\ after = Sent(row)
    \/ r.op = "cancel" /\ CanCancel(row) /\ after = Cancelled(row)
    \/ r.op = "pay" /\ CanPay(row) /\ r.amount \in Amount /\ after = WithPayment(row, r.amount)
    \/ r.op = "checkout" /\ CanPay(row) /\ r.s \in Session /\ after = [row EXCEPT !.checkout = r.s]
    \/ /\ r.op = "completed" /\ row.checkout = r.s /\ r.s \in Session
       /\ after = IF CanMarkPaid(row) THEN MarkedPaid(row, r.s) ELSE row
    \/ /\ r.op = "refunded" /\ r.s \in Session
       /\ after = IF CanRefund(row) THEN Refunded(row) ELSE row

\* One request at a time, a commit applies the handler's method to the row of that
\* moment: the two halves of a request are one step.
LEMMA CommitHandles ==
    ASSUME SerialInv, NEW w \in Worker, Commit(w)
    PROVE  LET r == req[w] IN
           /\ r.i \in Invoice /\ Exists(r.i)
           /\ \E after \in Row : /\ inv' = [inv EXCEPT ![r.i] = after]
                                 /\ Handled(r, inv[r.i], after)
<1> DEFINE r == req[w]
           row == inv[r.i]
           after == Merge(row, r.cols, r.new)
<1>1. /\ r # Idle /\ r.op \notin {"idle", "delete"}
      /\ r.op = "checkout" => r.s # None
      /\ r.op = "update" => r.cols = {}
  BY DEF Commit, Idle, SavedByAudit
<1>2. Exists(r.i) /\ Decided(r, row)
  BY <1>1 DEF SerialInv, LoadedIsCurrent
<1>3. r.i \in Invoice /\ r.new \in Row /\ row \in Row /\ after \in Row
  BY <1>1, MergeType DEF SerialInv, TypeOK, Request
<1>4. inv' = [inv EXCEPT ![r.i] = after]
  BY <1>2 DEF Commit
<1>5. r.op = "update" => after = row
  BY <1>1, <1>3, MergeNothing
<1>6. ASSUME r.op = "checkout", r.cols = {"checkout"}, r.new.checkout = r.s
      PROVE  after = [row EXCEPT !.checkout = r.s]
  BY <1>3, <1>6 DEF Merge, Row
<1>7. Handled(r, row, after)
  <2> HIDE DEF r, row
  <2>1. QED
    BY <1>1, <1>2, <1>5, <1>6 DEF Decided, Handled
<1>8. QED
  BY <1>2, <1>3, <1>4, <1>7

-------------------------------------------------------------------------------
(* One request at a time: the ledger *)

IntentIsSettled == \A i \in Invoice : inv[i].intent # None => inv[i].status \in Settled

LedgerInv == SerialInv /\ LedgerMatches /\ IntentIsSettled /\ AbsentUnpaid

LEMMA LedgerInit == Init => LedgerInv
<1>1. Init => LedgerMatches /\ IntentIsSettled /\ AbsentUnpaid
  BY DEF Init, LedgerMatches, IntentIsSettled, AbsentUnpaid, NoRow, Exists, Status
<1>2. QED
  BY <1>1, SerialInit DEF LedgerInv

LEMMA LedgerCommit ==
    ASSUME LedgerInv, NEW w \in Worker, Commit(w)
    PROVE  LedgerMatches' /\ IntentIsSettled' /\ AbsentUnpaid'
<1> DEFINE r == req[w]
           row == inv[r.i]
<1>1. PICK after \in Row : /\ inv' = [inv EXCEPT ![r.i] = after]
                           /\ Handled(r, row, after)
  BY CommitHandles DEF LedgerInv
<1>2. r.i \in Invoice /\ Exists(r.i)
  BY CommitHandles DEF LedgerInv
<1>3. /\ cash' = IF r.op = "pay" THEN [cash EXCEPT ![r.i] = @ + r.amount] ELSE cash
      /\ inv \in [Invoice -> Row] /\ cash \in [Invoice -> Nat] /\ row \in Row
      /\ row.total \in Nat /\ row.paid \in Nat
  <2>1. row \in Row
    BY <1>2 DEF LedgerInv, SerialInv, TypeOK
  <2>2. row.total \in Amount \cup {0} /\ \A a \in Amount : a \in Nat
    BY <2>1, AmountAssumption DEF Row
  <2>3. QED
    BY <2>1, <2>2 DEF Commit, LedgerInv, SerialInv, TypeOK, Row
<1>4. /\ row.paid = IF row.intent = None THEN cash[r.i] ELSE row.total
      /\ row.intent # None => row.status \in Settled
  BY <1>2 DEF LedgerInv, LedgerMatches, IntentIsSettled
<1>5. /\ after.paid = IF after.intent = None THEN cash'[r.i] ELSE after.total
      /\ after.intent # None => after.status \in Settled
  <2> HIDE DEF r, row
  <2>1. CASE r.op = "pay"
    <3>1. /\ row.intent = None /\ r.amount \in Nat /\ after = WithPayment(row, r.amount)
          /\ cash'[r.i] = cash[r.i] + r.amount
      BY <1>1, <1>2, <1>3, <1>4, <2>1, AmountAssumption
         DEF Handled, CanPay, Payable, Settled
    <3>2. after.paid = row.paid + r.amount /\ after.intent = None
      BY <1>3, <3>1 DEF WithPayment, Row
    <3>3. QED
      BY <1>4, <3>1, <3>2
  <2>2. CASE r.op # "pay"
    <3>1. cash' = cash
      BY <1>3, <2>2
    <3>2. CASE r.op = "completed" /\ CanMarkPaid(row)
      <4>1. after = MarkedPaid(row, r.s) /\ r.s \in Session
        BY <1>1, <3>2 DEF Handled
      <4>2. /\ after.paid = row.total /\ after.total = row.total
            /\ after.intent = r.s /\ after.status = "paid"
        BY <1>3, <4>1 DEF MarkedPaid, Row
      <4>3. QED
        BY <4>1, <4>2, NoneAssumption DEF Settled
    <3>3. CASE after = row
      BY <1>4, <3>1, <3>3
    <3>4. CASE CanSend(row) /\ after = Sent(row)
      BY <1>3, <1>4, <3>1, <3>4 DEF CanSend, Sent, Settled, Row
    <3>5. CASE CanCancel(row) /\ after = Cancelled(row)
      BY <1>3, <1>4, <3>1, <3>5 DEF CanCancel, Cancelled, Settled, Row
    <3>6. CASE CanPay(row) /\ after = [row EXCEPT !.checkout = r.s]
      BY <1>3, <1>4, <3>1, <3>6 DEF Row
    <3>7. CASE after = Refunded(row)
      BY <1>3, <1>4, <3>1, <3>7 DEF Refunded, Settled, Row
    <3>8. QED
      BY <1>1, <2>2, <3>2, <3>3, <3>4, <3>5, <3>6, <3>7 DEF Handled
  <2>3. QED
    BY <2>1, <2>2
<1>6. row.status # "absent" /\ after.status # "absent"
  <2>1. row.status # "absent"
    BY <1>2 DEF Exists, Status
  <2> HIDE DEF r, row
  <2>2. QED
    BY <1>1, <1>3, <2>1 DEF Handled, Sent, Cancelled, WithPayment, MarkedPaid, Refunded, Row
<1> HIDE DEF r
<1>7. \A i \in Invoice : i # r.i => inv'[i] = inv[i] /\ cash'[i] = cash[i]
  BY <1>1, <1>2, <1>3
<1>8. inv'[r.i] = after
  BY <1>1, <1>2, <1>3
<1>9. LedgerMatches'
  BY <1>5, <1>7, <1>8 DEF LedgerInv, LedgerMatches, Exists
<1>10. IntentIsSettled'
  BY <1>5, <1>7, <1>8 DEF LedgerInv, IntentIsSettled
<1>11. AbsentUnpaid'
  BY <1>6, <1>7, <1>8 DEF LedgerInv, AbsentUnpaid
<1>12. QED
  BY <1>9, <1>10, <1>11

LEMMA LedgerStep ==
    ASSUME OneAtATime
    PROVE  LedgerInv /\ [Next]_vars => LedgerInv'
<1> DEFINE Goal == LedgerMatches' /\ IntentIsSettled' /\ AbsentUnpaid'
<1>1. ASSUME LedgerInv, UNCHANGED <<inv, cash>> PROVE Goal
  BY <1>1 DEF LedgerInv, LedgerMatches, IntentIsSettled, AbsentUnpaid, Exists
<1>2. ASSUME LedgerInv, NEW w \in Worker, Begin(w) PROVE Goal
  <2>1. UNCHANGED <<inv, cash>>
    BY <1>2 DEF Begin, Unused, UpdateInvoice, RecordPayment, DeleteInvoice, SendInvoice,
                CancelInvoice, CreateCheckout, StripeCreatesSession, WebhookCompleted,
                WebhookRefunded
  <2>2. QED
    BY <1>1, <1>2, <2>1
<1>3. ASSUME LedgerInv, NEW w \in Worker, Finish(w) PROVE Goal
  <2>1. CASE CommitDelete(w)
    <3>1. /\ req[w].i \in Invoice
          /\ inv' = [inv EXCEPT ![req[w].i] = NoRow("deleted")] /\ cash' = cash
          /\ inv \in [Invoice -> Row]
      BY <1>3, <2>1 DEF CommitDelete, LedgerInv, SerialInv, TypeOK, Request, Idle
    <3>2. /\ NoRow("deleted").status = "deleted" /\ NoRow("deleted").intent = None
      BY DEF NoRow
    <3>3. QED
      BY <1>3, <3>1, <3>2 DEF LedgerInv, LedgerMatches, IntentIsSettled, AbsentUnpaid,
                             Exists, Status
  <2>2. CASE Abort(w)
    BY <1>1, <1>3, <2>2 DEF Abort, Unused
  <2>3. QED
    BY <1>3, <2>1, <2>2, LedgerCommit DEF Finish
<1>4. ASSUME LedgerInv, NEW i \in Invoice, NEW t \in Amount, CreateInvoice(i, t) PROVE Goal
  <2> DEFINE new == [NoRow("draft") EXCEPT !.total = t]
  <2>1. /\ inv' = [inv EXCEPT ![i] = new] /\ cash' = cash /\ cash[i] = 0
        /\ inv \in [Invoice -> Row]
    BY <1>4 DEF CreateInvoice, LedgerInv, AbsentUnpaid, SerialInv, TypeOK
  <2>2. new.status = "draft" /\ new.paid = 0 /\ new.intent = None
    BY DEF NoRow
  <2> HIDE DEF new
  <2>3. QED
    BY <1>4, <2>1, <2>2 DEF LedgerInv, LedgerMatches, IntentIsSettled, AbsentUnpaid, Exists
<1>5. ASSUME LedgerInv, NEW s \in Session, WebhookUnmatched(s) \/ CustomerPays(s) \/ DashboardRefund(s)
      PROVE  Goal
  BY <1>1, <1>5 DEF WebhookUnmatched, CustomerPays, DashboardRefund
<1>6. ASSUME LedgerInv, [Next]_vars PROVE Goal
  BY <1>1, <1>2, <1>3, <1>4, <1>5, <1>6 DEF Next, vars
<1>7. QED
  BY <1>6, SerialStep DEF LedgerInv

\* With one request at a time, the recorded balance is the manual payments that were
\* accepted, or the total of an invoice that a card payment settled.
THEOREM SerialLedger == OneAtATime => (Spec => []LedgerMatches)
<1> SUFFICES ASSUME OneAtATime PROVE Spec => []LedgerMatches
  OBVIOUS
<1>1. LedgerInv /\ [Next]_vars => LedgerInv'
  BY LedgerStep
<1>2. LedgerInv => LedgerMatches
  BY DEF LedgerInv
<1>3. QED
  BY <1>1, <1>2, LedgerInit, PTL DEF Spec

-------------------------------------------------------------------------------
(* One request at a time: an acknowledged payment closed its invoice *)

\* Only payments that were made are acknowledged, and being acknowledged.
AckedIsSettled ==
    \A s \in Session : <<"completed", s>> \in acked => sess[s].state \in Settled

DeliveredIsSettled ==
    \A w \in Worker : req[w].op = "completed" => sess[req[w].s].state \in Settled

AckedInv ==
    /\ SerialInv /\ IntentInv /\ MoneyInv
    /\ AckedIsClosed /\ AckedIsSettled /\ DeliveredIsSettled

LEMMA AckedInit == Init => AckedInv
<1>1. Init => AckedIsClosed /\ AckedIsSettled /\ DeliveredIsSettled
  BY DEF Init, AckedIsClosed, AckedIsSettled, DeliveredIsSettled, Idle
<1>2. QED
  BY <1>1, SerialInit, IntentInit, MoneyInit DEF AckedInv

LEMMA AckedCommit ==
    ASSUME AckedInv, NEW w \in Worker, Commit(w)
    PROVE  AckedIsClosed' /\ AckedIsSettled'
<1> DEFINE r == req[w]
           row == inv[r.i]
<1>1. PICK after \in Row : /\ inv' = [inv EXCEPT ![r.i] = after]
                           /\ Handled(r, row, after)
  BY CommitHandles DEF AckedInv
<1>2. r.i \in Invoice /\ Exists(r.i)
  BY CommitHandles DEF AckedInv
<1>3. /\ inv \in [Invoice -> Row] /\ row \in Row /\ sess \in [Session -> StripeSession]
      /\ sess' = IF r.op = "checkout" THEN [sess EXCEPT ![r.s].state = "open"] ELSE sess
      /\ acked' = IF r.op \in WebhookOp THEN acked \cup {<<r.op, r.s>>} ELSE acked
  BY <1>2 DEF Commit, AckedInv, SerialInv, TypeOK
<1>4. \A s \in Session : <<"completed", s>> \in acked =>
        /\ sess[s].state \in Settled
        /\ \A i \in Invoice : inv[i].checkout = s => inv[i].status \notin Payable
  BY DEF AckedInv, AckedIsClosed, AckedIsSettled
<1>5. r.op = "checkout" => r.s \in Session /\ sess[r.s].state = "created"
  <2>1. r.op = "checkout" => r.s # None /\ r.s \in Session \cup {None}
    BY DEF Commit, AckedInv, SerialInv, TypeOK, Request, Idle, AdminOp, WebhookOp
  <2>2. QED
    BY <2>1 DEF AckedInv, IntentInv, PendingCheckout
<1>6. r.op = "completed" => sess[r.s].state \in Settled
  BY DEF AckedInv, DeliveredIsSettled
<1>7. row.status = "draft" => row.checkout = None
  BY <1>2 DEF AckedInv, MoneyInv, MoneyMatchesStatus, DraftIsClean
<1>8. \A i \in Invoice : i # r.i => inv'[i] = inv[i]
  BY <1>1, <1>2, <1>3
<1>9. inv'[r.i] = after
  BY <1>1, <1>2, <1>3
<1>10. \A i \in Invoice, s \in Session :
         inv[i].checkout = s /\ row.checkout = s => i = r.i
  BY <1>2, NoneAssumption DEF AckedInv, IntentInv, SessionIsOwn
<1> HIDE DEF r, row
<1>11. AckedIsSettled'
  <2> SUFFICES ASSUME NEW s \in Session, <<"completed", s>> \in acked'
               PROVE  sess'[s].state \in Settled
    BY DEF AckedIsSettled
  <2>1. sess[s].state \in Settled
    BY <1>3, <1>4, <1>6
  <2>2. QED
    BY <1>3, <1>5, <2>1 DEF Settled
<1>12. \A s \in Session : <<"completed", s>> \in acked /\ after.checkout = s =>
         after.status \notin Payable
  <2> SUFFICES ASSUME NEW s \in Session, <<"completed", s>> \in acked, after.checkout = s
               PROVE  after.status \notin Payable
    OBVIOUS
  <2>1. row.checkout = s => row.status \notin Payable
    BY <1>2, <1>4 DEF row
  <2>2. CASE after = row
    BY <2>1, <2>2
  <2>3. CASE CanSend(row) /\ after = Sent(row)
    <3>1. row.status = "draft" /\ row.checkout = s
      BY <1>3, <2>3 DEF CanSend, Sent, Row
    <3>2. QED
      BY <1>7, <3>1, NoneAssumption
  <2>4. CASE after = Cancelled(row) \/ after = Refunded(row)
    BY <1>3, <2>4 DEF Cancelled, Refunded, Payable, Row
  <2>5. CASE CanPay(row) /\ after = WithPayment(row, r.amount)
    <3>1. row.checkout = s
      BY <1>3, <2>5 DEF WithPayment, Row
    <3>2. QED
      BY <2>1, <2>5, <3>1 DEF CanPay
  <2>6. CASE r.op = "checkout" /\ after = [row EXCEPT !.checkout = r.s]
    <3>1. r.s = s
      BY <1>3, <2>6 DEF Row
    <3>2. QED
      BY <1>4, <1>5, <2>6, <3>1 DEF Settled
  <2>7. CASE after = MarkedPaid(row, r.s)
    BY <1>3, <2>7 DEF MarkedPaid, Payable, Row
  <2>8. QED
    BY <1>1, <2>2, <2>3, <2>4, <2>5, <2>6, <2>7 DEF Handled
<1>13. r.op = "completed" =>
         /\ row.checkout = r.s /\ r.s \in Session
         /\ after.status \notin Payable
  <2>1. r.op = "completed" => /\ row.checkout = r.s /\ r.s \in Session
                              /\ after = IF CanMarkPaid(row) THEN MarkedPaid(row, r.s) ELSE row
    BY <1>1 DEF Handled
  <2>2. MarkedPaid(row, r.s).status = "paid"
    BY <1>3 DEF MarkedPaid, Row
  <2>3. QED
    BY <2>1, <2>2 DEF CanMarkPaid, Payable
<1>14. AckedIsClosed'
  <2> SUFFICES ASSUME NEW s \in Session, <<"completed", s>> \in acked',
                      NEW i \in Invoice, inv'[i].checkout = s
               PROVE  inv'[i].status \notin Payable
    BY DEF AckedIsClosed
  <2>1. CASE <<"completed", s>> \in acked
    BY <1>4, <1>8, <1>9, <1>12, <2>1
  <2>2. CASE <<"completed", s>> \notin acked
    <3>1. r.op = "completed" /\ r.s = s
      BY <1>3, <2>2
    <3>2. i = r.i
      BY <1>8, <1>10, <1>13, <3>1
    <3>3. QED
      BY <1>9, <1>13, <3>1, <3>2
  <2>3. QED
    BY <2>1, <2>2
<1>15. QED
  BY <1>11, <1>14

LEMMA AckedStep ==
    ASSUME OneAtATime
    PROVE  AckedInv /\ [Next]_vars => AckedInv'
<1> DEFINE Goal == AckedIsClosed' /\ AckedIsSettled' /\ DeliveredIsSettled'
<1>1. ASSUME AckedInv, UNCHANGED vars PROVE Goal
  BY <1>1 DEF vars, AckedInv, AckedIsClosed, AckedIsSettled, DeliveredIsSettled
<1>2. ASSUME AckedInv, NEW w \in Worker, Begin(w) PROVE Goal
  <2>0. /\ req \in [Worker -> Request] /\ sess \in [Session -> StripeSession]
        /\ \A v \in Worker : v = w
    BY <1>2 DEF AckedInv, SerialInv, TypeOK, OneAtATime
  <2>1. ASSUME NEW s \in Session, StripeCreatesSession(w, s) PROVE Goal
    <3>1. /\ inv' = inv /\ acked' = acked
          /\ sess[s].state = "none" /\ req'[w].op = "checkout"
          /\ \A t \in Session : t # s => sess'[t] = sess[t]
      BY <2>0, <2>1 DEF StripeCreatesSession
    <3>2. QED
      BY <1>2, <2>0, <3>1 DEF AckedInv, AckedIsClosed, AckedIsSettled, DeliveredIsSettled, Settled
  <2>2. ASSUME UNCHANGED <<inv, sess, acked>>, DeliveredIsSettled' PROVE Goal
    BY <1>2, <2>2 DEF AckedInv, AckedIsClosed, AckedIsSettled
  <2>3. ASSUME NEW s \in Session, WebhookCompleted(w, s) PROVE Goal
    <3>1. req'[w].s = s /\ sess' = sess /\ sess[s].state \in Settled
      BY <2>0, <2>3 DEF WebhookCompleted, Hold, Unused
    <3>2. QED
      BY <2>0, <2>2, <2>3, <3>1 DEF WebhookCompleted, Unused, DeliveredIsSettled
  <2>4. ASSUME Unused,
               \E op \in AdminOp \cup {"checkout", "refunded"} : \E i, cols, new, a, s :
                   Hold(w, op, i, cols, new, a, s)
        PROVE  Goal
    <3>1. req'[w].op # "completed"
      BY <2>0, <2>4 DEF Hold, AdminOp
    <3>2. QED
      BY <2>0, <2>2, <2>4, <3>1 DEF Unused, DeliveredIsSettled
  <2>5. ASSUME NEW s \in Session, WebhookRefunded(w, s) PROVE Goal
    BY <2>4, <2>5 DEF WebhookRefunded
  <2>6. ASSUME NEW i \in Invoice, NEW t \in Amount,
               UpdateInvoice(w, i, t) \/ RecordPayment(w, i, t)
        PROVE  Goal
    BY <2>4, <2>6 DEF UpdateInvoice, RecordPayment, AdminOp
  <2>7. ASSUME NEW i \in Invoice,
               \/ DeleteInvoice(w, i) \/ SendInvoice(w, i)
               \/ CancelInvoice(w, i) \/ CreateCheckout(w, i)
        PROVE  Goal
    BY <2>4, <2>7 DEF DeleteInvoice, SendInvoice, CancelInvoice, CreateCheckout, Load, AdminOp
  <2>8. QED
    BY <1>2, <2>1, <2>3, <2>5, <2>6, <2>7 DEF Begin
<1>3. ASSUME AckedInv, NEW w \in Worker, Finish(w) PROVE Goal
  <2>1. DeliveredIsSettled'
    <3>1. req' = [req EXCEPT ![w] = Idle]
      BY <1>3 DEF Finish, Commit, CommitDelete, Abort
    <3>2. QED
      BY <1>3, <3>1 DEF AckedInv, SerialInv, TypeOK, OneAtATime, DeliveredIsSettled, Idle
  <2>2. CASE CommitDelete(w)
    <3>1. /\ req[w].i \in Invoice
          /\ inv' = [inv EXCEPT ![req[w].i] = NoRow("deleted")]
          /\ UNCHANGED <<sess, acked>> /\ inv \in [Invoice -> Row]
      BY <1>3, <2>2 DEF CommitDelete, AckedInv, SerialInv, TypeOK, Request, Idle
    <3>2. NoRow("deleted").status = "deleted"
      BY DEF NoRow
    <3>3. QED
      BY <1>3, <2>1, <3>1, <3>2 DEF AckedInv, AckedIsClosed, AckedIsSettled, Payable
  <2>3. CASE Abort(w)
    BY <1>3, <2>1, <2>3 DEF Abort, Unused, AckedInv, AckedIsClosed, AckedIsSettled
  <2>4. QED
    BY <1>3, <2>1, <2>2, <2>3, AckedCommit DEF Finish
<1>4. ASSUME AckedInv, NEW i \in Invoice, NEW t \in Amount, CreateInvoice(i, t) PROVE Goal
  <2>1. /\ inv' = [inv EXCEPT ![i] = [NoRow("draft") EXCEPT !.total = t]]
        /\ UNCHANGED <<req, sess, acked>> /\ inv \in [Invoice -> Row]
    BY <1>4 DEF CreateInvoice, AckedInv, SerialInv, TypeOK
  <2>2. [NoRow("draft") EXCEPT !.total = t].status = "draft"
    BY DEF NoRow
  <2>3. QED
    BY <1>4, <2>1, <2>2 DEF AckedInv, AckedIsClosed, AckedIsSettled, DeliveredIsSettled, Payable
<1>5. ASSUME AckedInv, NEW s \in Session, WebhookUnmatched(s) PROVE Goal
  <2>1. /\ UNCHANGED <<inv, req, sess>>
        /\ \A t \in Session : <<"completed", t>> \in acked' /\ <<"completed", t>> \notin acked =>
             /\ t = s /\ sess[s].state \in Settled
             /\ \A i \in Invoice : Exists(i) => inv[i].checkout # s
    BY <1>5 DEF WebhookUnmatched
  <2>2. \A i \in Invoice : inv[i].status \in Payable => Exists(i)
    BY DEF Payable, Exists, Status
  <2>3. QED
    BY <1>5, <2>1, <2>2 DEF AckedInv, AckedIsClosed, AckedIsSettled, DeliveredIsSettled
<1>6. ASSUME AckedInv, NEW s \in Session, CustomerPays(s) \/ DashboardRefund(s) PROVE Goal
  <2>1. /\ UNCHANGED <<inv, req, acked>>
        /\ \A t \in Session : sess[t].state \in Settled => sess'[t].state \in Settled
    BY <1>6 DEF CustomerPays, DashboardRefund, AckedInv, SerialInv, TypeOK,
                StripeSession, Settled
  <2>2. \A w \in Worker : req[w].op = "completed" => req[w].s \in Session
    BY <1>6 DEF AckedInv, SerialInv, TypeOK, Request, Idle, AdminOp
  <2>3. QED
    BY <1>6, <2>1, <2>2 DEF AckedInv, AckedIsClosed, AckedIsSettled, DeliveredIsSettled
<1>7. ASSUME AckedInv, [Next]_vars PROVE Goal
  BY <1>1, <1>2, <1>3, <1>4, <1>5, <1>6, <1>7 DEF Next
<1>8. ASSUME AckedInv, [Next]_vars PROVE SerialInv' /\ IntentInv' /\ MoneyInv'
  BY <1>8, SerialStep, IntentStep, MoneyStep DEF AckedInv
<1>9. QED
  BY <1>7, <1>8 DEF AckedInv

\* With one request at a time, an invoice whose current session's payment was
\* acknowledged to Stripe asks for no payment any more.
THEOREM SerialAcknowledged == OneAtATime => (Spec => []AckedIsClosed)
<1> SUFFICES ASSUME OneAtATime PROVE Spec => []AckedIsClosed
  OBVIOUS
<1>1. AckedInv /\ [Next]_vars => AckedInv'
  BY AckedStep
<1>2. AckedInv => AckedIsClosed
  BY DEF AckedInv
<1>3. QED
  BY <1>1, <1>2, AckedInit, PTL DEF Spec

-------------------------------------------------------------------------------
(* One request at a time: the life cycle is implemented *)

\* An invoice that can be sent or paid owes something; a row that is not there yet
\* holds nothing.
OwingRow(row) ==
    /\ row.status \in Payable \cup {"draft"} => row.paid < row.total
    /\ row.status = "draft" => row.paid = 0
    /\ row.status = "absent" => row.paid = 0 /\ row.total = 0

PayableOwes == \A i \in Invoice : OwingRow(inv[i])

LifecycleInv == SerialInv /\ PayableOwes

\* What a commit makes of a row that owes owes.
LEMMA HandledOwes ==
    ASSUME NEW row \in Row, OwingRow(row), NEW r, NEW after, Handled(r, row, after)
    PROVE  OwingRow(after)
<1>0. row.paid \in Nat /\ row.total \in Nat
  <2>1. row.total \in Amount \cup {0} /\ \A a \in Amount : a \in Nat
    BY AmountAssumption DEF Row
  <2>2. QED
    BY <2>1 DEF Row
<1>1. CASE CanSend(row) /\ after = Sent(row)
  BY <1>0, <1>1 DEF CanSend, Sent, OwingRow, Row
<1>2. CASE after = Cancelled(row) \/ after = Refunded(row)
  BY <1>2 DEF Cancelled, Refunded, OwingRow, Payable, Row
<1>3. CASE r.amount \in Amount /\ after = WithPayment(row, r.amount)
  <2>1. r.amount \in Nat
    BY <1>3, AmountAssumption
  <2>2. QED
    BY <1>0, <1>3, <2>1 DEF WithPayment, OwingRow, Payable, Row
<1>4. CASE after = [row EXCEPT !.checkout = r.s]
  BY <1>4 DEF OwingRow, Row
<1>5. CASE after = MarkedPaid(row, r.s)
  BY <1>5 DEF MarkedPaid, OwingRow, Payable, Row
<1>6. QED
  BY <1>1, <1>2, <1>3, <1>4, <1>5 DEF Handled

LEMMA LifecycleStep ==
    ASSUME OneAtATime
    PROVE  LifecycleInv /\ [Next]_vars => LifecycleInv'
<1>1. ASSUME LifecycleInv, inv' = inv PROVE PayableOwes'
  BY <1>1 DEF LifecycleInv, PayableOwes
<1>2. ASSUME LifecycleInv, NEW w \in Worker, Begin(w) PROVE PayableOwes'
  BY <1>1, <1>2 DEF Begin, Unused, UpdateInvoice, RecordPayment, DeleteInvoice, SendInvoice,
                    CancelInvoice, CreateCheckout, StripeCreatesSession, WebhookCompleted,
                    WebhookRefunded
<1>3. ASSUME LifecycleInv, NEW w \in Worker, Commit(w) PROVE PayableOwes'
  <2>1. PICK after \in Row : /\ inv' = [inv EXCEPT ![req[w].i] = after]
                             /\ Handled(req[w], inv[req[w].i], after)
    BY <1>3, CommitHandles DEF LifecycleInv
  <2>2. req[w].i \in Invoice
    BY <1>3, CommitHandles DEF LifecycleInv
  <2>3. inv \in [Invoice -> Row] /\ \A i \in Invoice : OwingRow(inv[i])
    BY <1>3 DEF LifecycleInv, SerialInv, TypeOK, PayableOwes
  <2>4. OwingRow(after)
    BY <2>1, <2>2, <2>3, HandledOwes
  <2>5. QED
    BY <2>1, <2>2, <2>3, <2>4 DEF PayableOwes
<1>4. ASSUME LifecycleInv, NEW w \in Worker, CommitDelete(w) PROVE PayableOwes'
  <2>1. OwingRow(NoRow("deleted"))
    BY DEF OwingRow, NoRow, Payable
  <2>2. inv' = [inv EXCEPT ![req[w].i] = NoRow("deleted")] /\ inv \in [Invoice -> Row]
    BY <1>4 DEF CommitDelete, LifecycleInv, SerialInv, TypeOK
  <2>3. QED
    BY <1>4, <2>1, <2>2 DEF LifecycleInv, PayableOwes
<1>5. ASSUME LifecycleInv, NEW i \in Invoice, NEW t \in Amount, CreateInvoice(i, t)
      PROVE  PayableOwes'
  <2>1. OwingRow([NoRow("draft") EXCEPT !.total = t])
    <3>1. t \in Nat /\ t > 0
      BY AmountAssumption
    <3>2. QED
      BY <3>1 DEF OwingRow, NoRow
  <2>2. /\ inv' = [inv EXCEPT ![i] = [NoRow("draft") EXCEPT !.total = t]]
        /\ inv \in [Invoice -> Row]
    BY <1>5 DEF CreateInvoice, LifecycleInv, SerialInv, TypeOK
  <2>3. QED
    BY <1>5, <2>1, <2>2 DEF LifecycleInv, PayableOwes
<1>6. ASSUME LifecycleInv, [Next]_vars PROVE PayableOwes'
  BY <1>1, <1>2, <1>3, <1>4, <1>5, <1>6
     DEF Next, Finish, Abort, Unused, WebhookUnmatched, CustomerPays, DashboardRefund, vars
<1>7. QED
  BY <1>6, SerialStep DEF LifecycleInv

LEMMA LifecycleInit == Init => LifecycleInv /\ Lifecycle!Init
<1>1. Init => PayableOwes /\ Lifecycle!Init
  BY DEF Init, PayableOwes, OwingRow, NoRow, Payable, Lifecycle!Init
<1>2. QED
  BY <1>1, SerialInit DEF LifecycleInv

\* What the refinement mapping shows of a write to one row.
LEMMA MappedWrite ==
    ASSUME inv \in [Invoice -> Row], NEW i \in Invoice, NEW new,
           inv' = [inv EXCEPT ![i] = new]
    PROVE  /\ [j \in Invoice |-> inv'[j].status]
                = [[j \in Invoice |-> inv[j].status] EXCEPT ![i] = new.status]
           /\ [j \in Invoice |-> inv'[j].total]
                = [[j \in Invoice |-> inv[j].total] EXCEPT ![i] = new.total]
           /\ [j \in Invoice |-> inv'[j].paid]
                = [[j \in Invoice |-> inv[j].paid] EXCEPT ![i] = new.paid]
OBVIOUS

\* A write that leaves status, total and balance alone is not a step of the life cycle.
LEMMA MappedStutter ==
    ASSUME inv \in [Invoice -> Row], NEW i \in Invoice, NEW new,
           inv' = [inv EXCEPT ![i] = new],
           new.status = inv[i].status, new.total = inv[i].total, new.paid = inv[i].paid
    PROVE  UNCHANGED Lifecycle!vars
BY DEF Lifecycle!vars

\* A step of one invoice is a step of the life cycle.
LEMMA OneInvoiceSteps ==
    ASSUME NEW i \in Invoice,
           \/ Lifecycle!Draft(i) \/ Lifecycle!Discard(i) \/ Lifecycle!Send(i)
           \/ Lifecycle!Pay(i) \/ Lifecycle!Refund(i) \/ Lifecycle!Cancel(i)
    PROVE  Lifecycle!Next
BY DEF Lifecycle!Next

\* What makes a write a payment of the life cycle.
LEMMA PaysOnce ==
    ASSUME NEW i \in Invoice, inv[i].status \in Payable,
           NEW p \in {inv[i].paid + a : a \in Amount} \cup {inv[i].total},
           p > inv[i].paid,
           [j \in Invoice |-> inv'[j].paid]
                = [[j \in Invoice |-> inv[j].paid] EXCEPT ![i] = p],
           [j \in Invoice |-> inv'[j].status]
                = [[j \in Invoice |-> inv[j].status] EXCEPT ![i] =
                      IF p >= inv[i].total THEN "paid" ELSE "partially_paid"],
           [j \in Invoice |-> inv'[j].total] = [j \in Invoice |-> inv[j].total]
    PROVE  Lifecycle!Pay(i)
<1> DEFINE paid == [j \in Invoice |-> inv[j].paid]
           total == [j \in Invoice |-> inv[j].total]
<1>1. paid[i] = inv[i].paid /\ total[i] = inv[i].total
  OBVIOUS
<1>2. p \in {paid[i] + a : a \in Amount} \cup {total[i]}
  BY <1>1
<1>3. QED
  BY <1>1, <1>2 DEF Lifecycle!Pay, Lifecycle!Payable, Payable

\* Each commit is one step of the life cycle, or none.
LEMMA CommitFollowsLifecycle ==
    ASSUME LifecycleInv, NEW w \in Worker, Commit(w)
    PROVE  [Lifecycle!Next]_(Lifecycle!vars)
<1> DEFINE r == req[w]
<1>0. PICK i \in Invoice : i = r.i
  BY CommitHandles DEF LifecycleInv
<1> DEFINE row == inv[i]
<1>1. PICK after \in Row : /\ inv' = [inv EXCEPT ![i] = after]
                           /\ Handled(r, row, after)
  BY <1>0, CommitHandles DEF LifecycleInv
<1>2. i \in Invoice /\ Exists(i)
  BY <1>0, CommitHandles DEF LifecycleInv
<1>3. inv \in [Invoice -> Row] /\ row \in Row /\ OwingRow(row)
  BY <1>2 DEF LifecycleInv, SerialInv, TypeOK, PayableOwes
<1>4. row.paid \in Nat /\ row.total \in Nat /\ \A a \in Amount : a \in Nat /\ a > 0
  <2>1. \A a \in Amount : a \in Nat /\ a > 0
    BY AmountAssumption
  <2>2. row.total \in Amount \cup {0} /\ row.paid \in Nat
    BY <1>3 DEF Row
  <2>3. QED
    BY <2>1, <2>2
<1> DEFINE status == [j \in Invoice |-> inv[j].status]
           total == [j \in Invoice |-> inv[j].total]
           paid == [j \in Invoice |-> inv[j].paid]
<1>5. /\ status[i] = row.status /\ total[i] = row.total /\ paid[i] = row.paid
      /\ [j \in Invoice |-> inv'[j].status] = [status EXCEPT ![i] = after.status]
      /\ [j \in Invoice |-> inv'[j].total] = [total EXCEPT ![i] = after.total]
      /\ [j \in Invoice |-> inv'[j].paid] = [paid EXCEPT ![i] = after.paid]
  BY <1>1, <1>2, <1>3, MappedWrite
<1>6. /\ after.total = row.total => [total EXCEPT ![i] = after.total] = total
      /\ after.paid = row.paid => [paid EXCEPT ![i] = after.paid] = paid
  BY <1>2
<1>7. ASSUME after.status = row.status, after.total = row.total, after.paid = row.paid
      PROVE  UNCHANGED Lifecycle!vars
  BY <1>1, <1>2, <1>3, <1>7, MappedStutter
<1>8. CASE after = row \/ after = [row EXCEPT !.checkout = r.s]
  BY <1>3, <1>7, <1>8 DEF Row
<1>9. CASE CanSend(row) /\ after = Sent(row)
  <2>1. /\ row.status = "draft" /\ after.status = "sent"
        /\ after.total = row.total /\ after.paid = row.paid
    BY <1>3, <1>9 DEF CanSend, Sent, Row
  <2>2. Lifecycle!Send(i)
    BY <1>5, <1>6, <2>1 DEF Lifecycle!Send
  <2>3. QED
    BY <2>2, OneInvoiceSteps
<1>10. CASE CanCancel(row) /\ after = Cancelled(row)
  <2>1. /\ row.status \notin Settled /\ row.status \in Status /\ after.status = "cancelled"
        /\ after.total = row.total /\ after.paid = row.paid
    BY <1>2, <1>3, <1>10 DEF CanCancel, Cancelled, Exists, Row
  <2>2. CASE row.status = "cancelled"
    BY <1>7, <2>1, <2>2
  <2>3. CASE row.status # "cancelled"
    <3>1. Lifecycle!Cancel(i)
      BY <1>5, <1>6, <2>1, <2>3 DEF Lifecycle!Cancel, Lifecycle!Payable, Status, Settled
    <3>2. QED
      BY <3>1, OneInvoiceSteps
  <2>4. QED
    BY <2>2, <2>3
<1>11. CASE CanPay(row) /\ r.amount \in Amount /\ after = WithPayment(row, r.amount)
  <2>1. /\ row.status \in Payable /\ after.total = row.total
        /\ after.paid = row.paid + r.amount /\ after.paid > row.paid
        /\ after.status = IF after.paid >= row.total THEN "paid" ELSE "partially_paid"
    BY <1>3, <1>4, <1>11 DEF CanPay, WithPayment, Row
  <2>2. after.paid \in {paid[i] + a : a \in Amount} \cup {total[i]}
    BY <1>5, <1>11, <2>1
  <2>3. Lifecycle!Pay(i)
    BY <1>5, <1>6, <2>1, <2>2, PaysOnce
  <2>4. QED
    BY <2>3, OneInvoiceSteps
<1>12. CASE CanMarkPaid(row) /\ after = MarkedPaid(row, r.s)
  <2>1. /\ row.status \in Payable /\ after.total = row.total
        /\ after.paid = row.total /\ row.paid < row.total /\ after.status = "paid"
    BY <1>3, <1>12 DEF CanMarkPaid, MarkedPaid, OwingRow, Row
  <2>2. after.paid \in {paid[i] + a : a \in Amount} \cup {total[i]}
    BY <1>5, <2>1
  <2>3. Lifecycle!Pay(i)
    BY <1>4, <1>5, <1>6, <2>1, <2>2, PaysOnce
  <2>4. QED
    BY <2>3, OneInvoiceSteps
<1>13. CASE CanRefund(row) /\ after = Refunded(row)
  <2>1. /\ row.status = "paid" /\ after.status = "refunded"
        /\ after.total = row.total /\ after.paid = row.paid
    BY <1>3, <1>13 DEF CanRefund, Refunded, Row
  <2>2. Lifecycle!Refund(i)
    BY <1>5, <1>6, <2>1 DEF Lifecycle!Refund
  <2>3. QED
    BY <2>2, OneInvoiceSteps
<1> HIDE DEF r, row
<1>14. QED
  BY <1>1, <1>8, <1>9, <1>10, <1>11, <1>12, <1>13 DEF Handled

\* Every step of the invoices is one step of the life cycle, or none.
LEMMA NextFollowsLifecycle ==
    ASSUME LifecycleInv, [Next]_vars
    PROVE  [Lifecycle!Next]_(Lifecycle!vars)
<1>0. inv \in [Invoice -> Row]
  BY DEF LifecycleInv, SerialInv, TypeOK
<1>1. ASSUME inv' = inv PROVE UNCHANGED Lifecycle!vars
  BY <1>1 DEF Lifecycle!vars
<1>2. ASSUME NEW w \in Worker, Begin(w) PROVE UNCHANGED Lifecycle!vars
  BY <1>1, <1>2 DEF Begin, Unused, UpdateInvoice, RecordPayment, DeleteInvoice, SendInvoice,
                    CancelInvoice, CreateCheckout, StripeCreatesSession, WebhookCompleted,
                    WebhookRefunded
<1>3. ASSUME NEW w \in Worker, CommitDelete(w) PROVE Lifecycle!Next
  <2> DEFINE status == [j \in Invoice |-> inv[j].status]
             total == [j \in Invoice |-> inv[j].total]
             paid == [j \in Invoice |-> inv[j].paid]
  <2>0. PICK i \in Invoice : i = req[w].i
    BY <1>3 DEF CommitDelete, LifecycleInv, SerialInv, TypeOK, Request, Idle
  <2>1. /\ req[w].op = "delete" /\ inv' = [inv EXCEPT ![i] = NoRow("deleted")]
        /\ req[w] # Idle
    BY <1>3, <2>0 DEF CommitDelete, Idle
  <2>2. inv[i].status = "draft" /\ inv[i].paid = 0
    BY <2>0, <2>1 DEF LifecycleInv, SerialInv, LoadedIsCurrent, Decided, IsEditable, PayableOwes,
                OwingRow
  <2>3. /\ NoRow("deleted").status = "deleted" /\ NoRow("deleted").total = 0
        /\ NoRow("deleted").paid = 0
    BY DEF NoRow
  <2>4. /\ status[i] = "draft"
        /\ [j \in Invoice |-> inv'[j].status] = [status EXCEPT ![i] = "deleted"]
        /\ [j \in Invoice |-> inv'[j].total] = [total EXCEPT ![i] = 0]
        /\ [j \in Invoice |-> inv'[j].paid] = paid
    <3>1. [paid EXCEPT ![i] = 0] = paid
      BY <2>1, <2>2
    <3>2. QED
      BY <1>0, <2>1, <2>2, <2>3, <3>1, MappedWrite
  <2>5. Lifecycle!Discard(i)
    BY <2>4 DEF Lifecycle!Discard
  <2>6. QED
    BY <2>5, OneInvoiceSteps
<1>4. ASSUME NEW i \in Invoice, NEW t \in Amount, CreateInvoice(i, t) PROVE Lifecycle!Next
  <2> DEFINE new == [NoRow("draft") EXCEPT !.total = t]
             status == [j \in Invoice |-> inv[j].status]
             total == [j \in Invoice |-> inv[j].total]
             paid == [j \in Invoice |-> inv[j].paid]
  <2>1. inv[i].status = "absent" /\ inv' = [inv EXCEPT ![i] = new] /\ inv[i].paid = 0
    BY <1>4 DEF CreateInvoice, LifecycleInv, PayableOwes, OwingRow
  <2>2. new.status = "draft" /\ new.total = t /\ new.paid = 0
    BY DEF NoRow
  <2> HIDE DEF new
  <2>3. /\ status[i] = "absent"
        /\ [j \in Invoice |-> inv'[j].status] = [status EXCEPT ![i] = "draft"]
        /\ [j \in Invoice |-> inv'[j].total] = [total EXCEPT ![i] = t]
        /\ [j \in Invoice |-> inv'[j].paid] = paid
    <3>1. [paid EXCEPT ![i] = 0] = paid
      BY <2>1
    <3>2. QED
      BY <1>0, <2>1, <2>2, <3>1, MappedWrite
  <2>4. Lifecycle!Draft(i)
    BY <2>3 DEF Lifecycle!Draft
  <2>5. QED
    BY <2>4, OneInvoiceSteps
<1>5. QED
  BY <1>1, <1>2, <1>3, <1>4, CommitFollowsLifecycle
     DEF Next, Finish, Abort, Unused, WebhookUnmatched, CustomerPays, DashboardRefund, vars

\* With one request at a time, the invoices implement InvoiceLifecycle: the documented
\* status diagram, a frozen total, and money only ever added to a payable invoice.
THEOREM SerialLifecycle == OneAtATime => (Spec => ImplementsLifecycle)
<1> SUFFICES ASSUME OneAtATime PROVE Spec => ImplementsLifecycle
  OBVIOUS
<1>1. LifecycleInv /\ [Next]_vars => LifecycleInv'
  BY LifecycleStep
<1>2. LifecycleInv /\ [Next]_vars => [Lifecycle!Next]_(Lifecycle!vars)
  BY NextFollowsLifecycle
<1>3. QED
  BY <1>1, <1>2, LifecycleInit, PTL DEF Spec, ImplementsLifecycle, Lifecycle!Spec
===============================================================================
