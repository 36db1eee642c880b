--------------------------- MODULE InvoiceLifecycle ---------------------------
(***************************************************************************)
(* What the invoice component promises about one invoice table, whatever   *)
(* requests, webhooks and Stripe sessions produce the steps: the documented *)
(* status diagram, a total that is frozen once the invoice leaves DRAFT,    *)
(* and money that is only ever added to an invoice that accepts payments.   *)
(* Invoices.tla implements it when one request runs at a time.              *)
(***************************************************************************)
EXTENDS Naturals

CONSTANTS
    Invoice,    \* invoice ids
    Amount      \* the totals and payment amounts of an instance

VARIABLES
    status,     \* status[i]: the invoice's status, "absent" before the insert
    total,      \* total[i]: the total due
    paid        \* paid[i]: the amount recorded as paid

vars == <<status, total, paid>>

Payable == {"sent", "partially_paid", "overdue"}

Init == /\ status = [i \in Invoice |-> "absent"]
        /\ total = [i \in Invoice |-> 0]
        /\ paid = [i \in Invoice |-> 0]

\* A draft is written, and may be rewritten or thrown away until it is sent.
Draft(i) == /\ status[i] \in {"absent", "draft"}
            /\ status' = [status EXCEPT ![i] = "draft"]
            /\ \E t \in Amount : total' = [total EXCEPT ![i] = t]
            /\ UNCHANGED paid

Discard(i) == /\ status[i] = "draft"
              /\ status' = [status EXCEPT ![i] = "deleted"]
              /\ total' = [total EXCEPT ![i] = 0]
              /\ UNCHANGED paid

Send(i) == /\ status[i] = "draft"
           /\ status' = [status EXCEPT ![i] = "sent"]
           /\ UNCHANGED <<total, paid>>

\* A manual payment adds its amount to the balance and a card payment completes
\* it; either settles the invoice exactly when the balance reaches the total.
Pay(i) == /\ status[i] \in Payable
          /\ \E p \in {paid[i] + a : a \in Amount} \cup {total[i]} :
               /\ p > paid[i]
               /\ paid' = [paid EXCEPT ![i] = p]
               /\ status' = [status EXCEPT ![i] =
                                IF p >= total[i] THEN "paid" ELSE "partially_paid"]
          /\ UNCHANGED total

Refund(i) == /\ status[i] = "paid"
             /\ status' = [status EXCEPT ![i] = "refunded"]
             /\ UNCHANGED <<total, paid>>

Cancel(i) == /\ status[i] \in Payable \cup {"draft"}
             /\ status' = [status EXCEPT ![i] = "cancelled"]
             /\ UNCHANGED <<total, paid>>

Next == \E i \in Invoice : \/ Draft(i) \/ Discard(i) \/ Send(i)
                           \/ Pay(i) \/ Refund(i) \/ Cancel(i)

Spec == Init /\ [][Next]_vars
===============================================================================
