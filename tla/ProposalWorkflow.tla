--------------------------- MODULE ProposalWorkflow ---------------------------
(***************************************************************************)
(* What the proposal component promises, request by request: the life cycle  *)
(* of ProposalStatus, a revision that supersedes what it revises, and the    *)
(* project status that moves in the same step as its proposal.               *)
(***************************************************************************)
CONSTANTS Proposal, Project, ProjectStatus, None

VARIABLES
    status,     \* status[p]: of proposal p, or "absent"
    of,         \* of[p]: its project, None when it is absent
    stage       \* stage[j]: status of project j, or "absent"

vars == <<status, of, stage>>

Move(p, from, to) ==
    /\ status[p] \in from
    /\ status' = [status EXCEPT ![p] = to]
    /\ of' = IF to = "absent" THEN [of EXCEPT ![p] = None] ELSE of

Draft(p) ==
    /\ status[p] = "absent"
    /\ status' = [status EXCEPT ![p] = "draft"]
    /\ \E j \in Project : stage[j] # "absent" /\ of' = [of EXCEPT ![p] = j]
    /\ stage' = stage

Discard(p) == Move(p, {"draft"}, "absent") /\ stage' = stage

Send(p) ==
    /\ Move(p, {"draft"}, "sent")
    /\ stage' = [stage EXCEPT ![of[p]] = "proposal_sent"]

View(p) == Move(p, {"sent"}, "viewed") /\ stage' = stage

Approve(p) ==
    /\ Move(p, {"sent", "viewed"}, "approved")
    /\ stage' = [stage EXCEPT ![of[p]] = "approved"]

Reject(p) == Move(p, {"sent", "viewed"}, "rejected") /\ stage' = stage

\* The new version is a draft of the same project.
Revise(p, q) ==
    /\ status[p] # "absent" /\ status[q] = "absent" /\ p # q
    /\ status' = [status EXCEPT ![p] = "revised", ![q] = "draft"]
    /\ of' = [of EXCEPT ![q] = of[p]]
    /\ stage' = stage

SetStage(j, st) ==
    /\ stage[j] = "absent" => st = "draft"
    /\ stage' = [stage EXCEPT ![j] = st]
    /\ UNCHANGED <<status, of>>

\* Its proposals go with it.
Drop(j) ==
    /\ stage[j] # "absent"
    /\ stage' = [stage EXCEPT ![j] = "absent"]
    /\ status' = [p \in Proposal |-> IF of[p] = j THEN "absent" ELSE status[p]]
    /\ of' = [p \in Proposal |-> IF of[p] = j THEN None ELSE of[p]]

Init ==
    /\ status = [p \in Proposal |-> "absent"]
    /\ of = [p \in Proposal |-> None]
    /\ stage = [j \in Project |-> "absent"]

Next ==
    \/ \E p \in Proposal :
         \/ Draft(p) \/ Discard(p) \/ Send(p) \/ View(p) \/ Approve(p) \/ Reject(p)
         \/ \E q \in Proposal : Revise(p, q)
    \/ \E j \in Project : Drop(j) \/ \E st \in ProjectStatus : SetStage(j, st)

Spec == Init /\ [][Next]_vars
===============================================================================
