------------------------------ MODULE MCInvoices ------------------------------
(* Model-checking instances of Invoices. *)
EXTENDS Invoices, TLC

\* Ids are interchangeable; used in runs that check no liveness.
Symmetry == Permutations(Invoice) \cup Permutations(Session) \cup Permutations(Worker)
===============================================================================
