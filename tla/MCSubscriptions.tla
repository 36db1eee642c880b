--------------------------- MODULE MCSubscriptions ----------------------------
(* Model-checking instances of Subscriptions, with history variables that tell   *)
(* the behaviours in which requests come one at a time, and the columns whose    *)
(* value is an administrator's.                                                  *)
EXTENDS Subscriptions, TLC

VARIABLES
    raced,          \* two requests have been in progress at the same time
    overridden      \* columns an administrator has set since a webhook last wrote them

mcvars == <<vars, raced, overridden>>

Overlap == \E v, w \in Worker : v # w /\ req[v] # Idle /\ req[w] # Idle

\* A webhook writes the status, and the plan too unless it only tells of a change.
Rewrites(e) == IF e.type = "updated" THEN {"status"} ELSE {"plan", "status"}
Rewritten == UNION {Rewrites(req[w].event) : w \in {v \in Worker : CommitEvent(v)}}

Given(p, st) == {c \in {"plan", "status"} : IF c = "plan" THEN p # None ELSE st # None}

MCInit == Init /\ raced = FALSE /\ overridden = {}
MCNext ==
    /\ \/ SystemNext /\ overridden' = overridden \ Rewritten
       \/ \E p \in AdminPlan \cup {None}, st \in AdminStatus \cup {None} :
            /\ AdminUpdateSubscription(p, st)
            /\ overridden' = overridden \cup Given(p, st)
    /\ raced' = (raced \/ Overlap')
MCSpec == MCInit /\ [][MCNext]_mcvars /\ Fairness

\* Whatever order events arrive in and requests race, the plan is a paid one
\* exactly while a Stripe subscription is linked, unless an administrator has
\* given the organization its plan since the webhooks last did.
PaidUnlessOverridden == "plan" \in overridden \/ (row.plan \in Plan <=> row.sub # None)

OnlyOne == \A s, t \in Sub : sub[s].state # "none" /\ sub[t].state # "none" => s = t

\* One request at a time, events in order, one subscription: when nothing is under
\* way the row mirrors Stripe, but for a status an administrator has set since.  (A
\* cancellation at Stripe is on the row; the row's flag alone may be an old one,
\* which link_stripe_subscription keeps.)
MirrorsUnlessRaced ==
    Calm /\ Provisioned /\ OnlyOne /\ Quiet /\ ~raced =>
        /\ \A s \in Sub : IsLive(s) => row.sub = s
        /\ row.sub # None =>
             /\ "status" \in overridden \/ row.status = sub[row.sub].state
             /\ row.price = sub[row.sub].price
             /\ sub[row.sub].cancelAtEnd => row.cancelAtEnd

Symmetry == Permutations(Worker) \cup Permutations(Sub)
===============================================================================
