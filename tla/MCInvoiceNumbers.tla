--------------------------- MODULE MCInvoiceNumbers ---------------------------
(* Model-checking instances of InvoiceNumbers, with a history variable that      *)
(* tells the behaviours in which requests come one at a time.                    *)
EXTENDS InvoiceNumbers, TLC

CONSTANTS o1, o2, p1, p2

VARIABLE raced      \* two requests have been in progress at the same time

mcvars == <<vars, raced>>

Overlap == \E v, w \in Worker : v # w /\ req[v] # Idle /\ req[w] # Idle

MCInit == Init /\ raced = FALSE
MCNext == Next /\ raced' = (raced \/ Overlap')
MCSpec == MCInit /\ [][MCNext]_mcvars

\* As long as no two requests overlap, a proposal has at most one invoice, and it
\* is one of the proposal's own organization (InvoiceDAO.get_by_proposal).
OneInvoiceUnlessRaced == raced \/ OneInvoicePerProposal

\* Proposals p1 and p2 of one organization, or of one each.
OneOwner == (p1 :> o1) @@ (p2 :> o1)
TwoOwners == (p1 :> o1) @@ (p2 :> o2)

Symmetry == Permutations(Invoice) \cup Permutations(Worker)
===============================================================================
