----------------------------- MODULE MCProposals ------------------------------
(* Model-checking instances of Proposals, with a history variable that tells    *)
(* the behaviours in which requests come one at a time.                         *)
EXTENDS Proposals, TLC

VARIABLE raced      \* two requests have been in progress at the same time

mcvars == <<vars, raced>>

Overlap == \E v, w \in Worker : v # w /\ req[v] # Idle /\ req[w] # Idle

MCInit == Init /\ raced = FALSE
MCNext == Next /\ raced' = (raced \/ Overlap')
MCSpec == MCInit /\ [][MCNext]_mcvars

\* As long as no two requests overlap, a proposal that has a newer version is
\* marked revised (ProposalDAO.revise_proposal).
SupersededUnlessRaced == raced \/ SupersededMarked

\* As long as no two requests overlap, completed_at is set exactly for a completed
\* project (ProjectDAO.update_status, which sending and approving call too).
CompletedUnlessRaced == raced \/ CompletedHasDate

\* As long as no two requests overlap, each commit is one step of the documented
\* workflow: of the proposal, of the one it supersedes, and of their project.
WorkflowUnlessRaced == [][raced' \/ [Workflow!Next]_(Workflow!vars)]_mcvars

Symmetry == Permutations(Proposal) \cup Permutations(Worker)
===============================================================================
