------------------------------- MODULE MCSlaSweep -------------------------------
(* Model-checking instances of SlaSweep: a ticket of an admin, and one of a client
   that is assigned to the admin. *)
EXTENDS SlaSweep, TLC

CONSTANTS t1, t2, admin, client, urgent, low

MCCreator == [t \in Ticket |-> IF t = t1 THEN admin ELSE client]
MCAssignee == [t \in Ticket |-> IF t = t1 THEN None ELSE admin]

\* The hours of models/ticket.py (1 and 4, 24 and 168), scaled down.
MCDue == [p \in Priority |-> IF p = urgent THEN [k \in Kind |-> IF k = "response" THEN 1 ELSE 2]
                                           ELSE [k \in Kind |-> IF k = "response" THEN 3 ELSE 5]]
===============================================================================
