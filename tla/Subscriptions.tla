----------------------------- MODULE Subscriptions ----------------------------
(***************************************************************************)
(* The subscription row of one organization and its Stripe subscriptions:    *)
(* api/subscriptions.py over services/subscription_service.py and            *)
(* dao/subscription.py.  Organizations do not share rows.                    *)
(*                                                                          *)
(* Cancelling and reactivating load the row, call Stripe, and then UPDATE    *)
(* the row by its id; a webhook looks the row up and then UPDATEs it by its  *)
(* id.  Other requests commit between the two steps.                         *)
(*                                                                          *)
(* Stripe is external: it changes its subscriptions, also on its own or      *)
(* through the Customer Portal, and emits an event with the new snapshot.    *)
(***************************************************************************)
EXTENDS Naturals, FiniteSets

CONSTANTS
    Sub,            \* Stripe subscription ids, each with its Checkout Session
    Plan,           \* the paid plans; each has one Stripe price
    Worker,         \* requests that can be in progress at once
    None,           \* a null column
    AdminPlan,      \* bound: the plans administrators give
    AdminStatus,    \* bound: the statuses they give
    MaxEvents,      \* bound: Stripe emits at most this many events
    Calm,           \* events are delivered once and in the order they were emitted,
                    \* and no webhook fails while it is processed
    Provisioned     \* the row exists before the first checkout

ASSUME BoundAssumption == MaxEvents \in Nat
ASSUME EnvironmentAssumption == Calm \in BOOLEAN /\ Provisioned \in BOOLEAN
ASSUME PlanAssumption == "free" \notin Plan
ASSUME NoneAssumption == None \notin Sub \cup Plan
ASSUME AdminAssumption ==
    /\ AdminPlan \subseteq Plan \cup {"free"}
    /\ AdminStatus \subseteq {"active", "past_due", "unpaid", "canceled"}

VARIABLES
    row,        \* the committed subscription row
    req,        \* req[w]: what worker w's request holds
    sub,        \* sub[s]: Stripe's view of subscription s
    events,     \* events emitted and not yet acknowledged
    emitted     \* how many events were emitted

vars == <<row, req, sub, events, emitted>>
stripe == <<sub, events, emitted>>

-------------------------------------------------------------------------------
(* Data *)

\* "active" stands for trialing too, "unpaid" for incomplete and paused: no code
\* tells them apart.
Live == {"active", "past_due", "unpaid"}
IsActive(r) == r.status \in {"active", "past_due"}
IsCanceled(r) == r.status = "canceled" \/ r.cancelAtEnd

Row == [exists : BOOLEAN, plan : Plan \cup {"free"}, status : Live \cup {"canceled"},
        sub : Sub \cup {None}, price : Plan \cup {None}, cancelAtEnd : BOOLEAN]
Free == [exists |-> TRUE, plan |-> "free", status |-> "active", sub |-> None,
         price |-> None, cancelAtEnd |-> FALSE]
NoRow == [Free EXCEPT !.exists = FALSE]

\* meta: the plan written into the metadata at checkout; it never changes.
StripeSub == [state : Live \cup {"none", "open", "ended"}, meta : Plan \cup {None},
              price : Plan \cup {None}, cancelAtEnd : BOOLEAN]
IsLive(s) == sub[s].state \in Live

EventType == {"created", "updated", "deleted"}
Event == [type : EventType, s : Sub, snapshot : StripeSub, n : 1..MaxEvents]

Idle == [op |-> "idle", s |-> None, now |-> FALSE, event |-> None]
Request == {Idle}
    \cup [op : {"cancel", "reactivate"}, s : Sub \cup {None}, now : BOOLEAN, event : {None}]
    \cup [op : {"event"}, s : Sub, now : {FALSE}, event : Event]

Hold(w, op, s, now, e) ==
    /\ req[w] = Idle
    /\ req' = [req EXCEPT ![w] = [op |-> op, s |-> s, now |-> now, event |-> e]]

\* Bound: MaxEvents.
Emit(type, s, new) ==
    /\ emitted < MaxEvents
    /\ emitted' = emitted + 1
    /\ sub' = [sub EXCEPT ![s] = new]
    /\ events' = events \cup {[type |-> type, s |-> s, snapshot |-> new, n |-> emitted + 1]}

-------------------------------------------------------------------------------
(* Stripe: external *)

StripeChanges(s, new) == Emit("updated", s, new) /\ UNCHANGED <<row, req>>
StripeEnds(s) == Emit("deleted", s, [sub[s] EXCEPT !.state = "ended"])

CustomerSubscribes(s, st) ==
    /\ sub[s].state = "open"
    /\ Emit("created", s, [sub[s] EXCEPT !.state = st])
    /\ UNCHANGED <<row, req>>

PaymentStatus(s, st) ==
    /\ IsLive(s) /\ sub[s].state # st
    /\ StripeChanges(s, [sub[s] EXCEPT !.state = st])

PortalPlan(s, p) ==
    /\ IsLive(s) /\ sub[s].price # p
    /\ StripeChanges(s, [sub[s] EXCEPT !.price = p])

PortalCancelAtEnd(s) ==
    /\ IsLive(s)
    /\ StripeChanges(s, [sub[s] EXCEPT !.cancelAtEnd = ~@])

\* The period of a cancelled subscription ends, or Stripe gives up on its payments.
PeriodEnds(s) ==
    /\ IsLive(s) /\ (sub[s].cancelAtEnd \/ sub[s].state = "unpaid")
    /\ StripeEnds(s)
    /\ UNCHANGED <<row, req>>

-------------------------------------------------------------------------------
(* Requests *)

\* GET /subscriptions: creates the missing row.
GetOrCreateFree ==
    /\ ~row.exists
    /\ row' = Free
    /\ UNCHANGED <<req, stripe>>

\* POST /subscriptions/checkout: refused only for a linked, active subscription
\* that is not being cancelled.
CreateCheckout(s, p) ==
    /\ ~(row.exists /\ row.sub # None /\ IsActive(row) /\ ~IsCanceled(row))
    /\ sub[s].state = "none"
    /\ sub' = [sub EXCEPT ![s] = [@ EXCEPT !.state = "open", !.meta = p, !.price = p]]
    /\ UNCHANGED <<row, req, events, emitted>>

\* POST /subscriptions/cancel: load the row and cancel at Stripe, which refuses a
\* subscription that has ended; a row without one skips Stripe.
CancelSubscription(w, now) ==
    /\ row.exists
    /\ Hold(w, "cancel", row.sub, now, None)
    /\ IF row.sub = None THEN UNCHANGED stripe
       ELSE /\ IsLive(row.sub)
            /\ IF now THEN StripeEnds(row.sub)
               ELSE Emit("updated", row.sub, [sub[row.sub] EXCEPT !.cancelAtEnd = TRUE])
    /\ UNCHANGED row

\* ... then UPDATE by id, and commit.
CommitCancel(w) ==
    /\ req[w].op = "cancel"
    /\ row' = [row EXCEPT !.cancelAtEnd = ~req[w].now,
                          !.status = IF req[w].now THEN "canceled" ELSE @]
    /\ req' = [req EXCEPT ![w] = Idle]
    /\ UNCHANGED stripe

ReactivateSubscription(w) ==
    /\ row.exists /\ row.cancelAtEnd
    /\ Hold(w, "reactivate", row.sub, FALSE, None)
    /\ IF row.sub = None THEN UNCHANGED stripe
       ELSE /\ IsLive(row.sub)
            /\ Emit("updated", row.sub, [sub[row.sub] EXCEPT !.cancelAtEnd = FALSE])
    /\ UNCHANGED row

CommitReactivate(w) ==
    /\ req[w].op = "reactivate"
    /\ row' = [row EXCEPT !.cancelAtEnd = FALSE]
    /\ req' = [req EXCEPT ![w] = Idle]
    /\ UNCHANGED stripe

\* PATCH /subscriptions/admin/{org_id}: one UPDATE of the columns that are given
\* (None: not given), whatever Stripe says; the link is left alone.  The two dates
\* it can set are not modelled.
AdminUpdateSubscription(p, st) ==
    /\ row.exists
    /\ row' = [row EXCEPT !.plan = IF p = None THEN @ ELSE p,
                          !.status = IF st = None THEN @ ELSE st]
    /\ UNCHANGED <<req, stripe>>

\* Stripe was called, and the UPDATE or the commit fails.
Abort(w) ==
    /\ req[w].op \in {"cancel", "reactivate"}
    /\ req' = [req EXCEPT ![w] = Idle]
    /\ UNCHANGED <<row, stripe>>

-------------------------------------------------------------------------------
(* POST /webhooks/stripe/subscription *)

Deliverable(e) == Calm => \A d \in events : e.n <= d.n
BeingHandled(e) == \E w \in Worker : req[w].event = e

\* "created" is matched by the organization in its metadata, the others by the
\* linked id.
Matches(e) == row.exists /\ (e.type = "created" \/ row.sub = e.s)

\* An acknowledged event is gone, unless Stripe missed the answer.
Acknowledge(e) ==
    events' = events \ {e} \/ (~Calm /\ events' = events)

\* An event that matches nothing is answered with 200 all the same.
EventUnmatched(e) ==
    /\ Deliverable(e) /\ ~BeingHandled(e) /\ ~Matches(e)
    /\ events' = events \ {e}
    /\ UNCHANGED <<row, req, sub, emitted>>

BeginEvent(w, e) ==
    /\ Deliverable(e) /\ ~BeingHandled(e) /\ Matches(e)
    /\ Hold(w, "event", e.s, FALSE, e)
    /\ UNCHANGED <<row, stripe>>

\* link_stripe_subscription; cancel_at_period_end keeps its value.
Linked(r, e) ==
    [r EXCEPT !.sub = e.s, !.price = e.snapshot.price, !.plan = e.snapshot.meta,
              !.status = e.snapshot.state]

Updated_KeepsFlag(r, e) ==           \* mutant: the flag is not taken over
    [r EXCEPT !.status = e.snapshot.state, !.price = e.snapshot.price]
\* update_from_stripe_event; no plan is passed.
Updated(r, e) ==
    [r EXCEPT !.status = e.snapshot.state, !.price = e.snapshot.price,
              !.cancelAtEnd = e.snapshot.cancelAtEnd]

DowngradedToFree_KeepsId(r) ==       \* mutant: the Stripe id is not cleared
    [Free EXCEPT !.sub = r.sub]
DowngradedToFree_NoStatus(r) ==      \* mutant: the status becomes null
    [Free EXCEPT !.status = None]
DowngradedToFree(r) == Free

CommitEvent(w) ==
    LET e == req[w].event IN
    /\ req[w].op = "event"
    /\ row' = CASE e.type = "created" -> Linked(row, e)
                [] e.type = "updated" -> Updated(row, e)
                [] e.type = "deleted" -> DowngradedToFree(row)
    /\ Acknowledge(e)
    /\ req' = [req EXCEPT ![w] = Idle]
    /\ UNCHANGED <<sub, emitted>>

\* An exception is rolled back, logged, and answered with 200.
FailEvent(w) ==
    /\ ~Calm /\ req[w].op = "event"
    /\ events' = events \ {req[w].event}
    /\ req' = [req EXCEPT ![w] = Idle]
    /\ UNCHANGED <<row, sub, emitted>>

-------------------------------------------------------------------------------

Init ==
    /\ row = IF Provisioned THEN Free ELSE NoRow
    /\ req = [w \in Worker |-> Idle]
    /\ sub = [s \in Sub |-> [state |-> "none", meta |-> None, price |-> None,
                             cancelAtEnd |-> FALSE]]
    /\ events = {} /\ emitted = 0

Finish(w) ==
    CommitCancel(w) \/ CommitReactivate(w) \/ Abort(w) \/ CommitEvent(w) \/ FailEvent(w)

AdminNext ==
    \E p \in AdminPlan \cup {None}, st \in AdminStatus \cup {None} :
        AdminUpdateSubscription(p, st)

SystemNext ==
    \/ GetOrCreateFree
    \/ \E s \in Sub :
         \/ PortalCancelAtEnd(s) \/ PeriodEnds(s)
         \/ \E st \in Live : CustomerSubscribes(s, st) \/ PaymentStatus(s, st)
         \/ \E p \in Plan : PortalPlan(s, p) \/ CreateCheckout(s, p)
    \/ \E w \in Worker :
         \/ \E now \in BOOLEAN : CancelSubscription(w, now)
         \/ ReactivateSubscription(w)
         \/ \E e \in events : BeginEvent(w, e)
         \/ Finish(w)
    \/ \E e \in events : EventUnmatched(e)

Next == SystemNext \/ AdminNext

Spec == Init /\ [][Next]_vars

\* Requests end, and Stripe redelivers an event until it is answered; a webhook
\* is not shut out by other requests for ever.
Fairness ==
    /\ \A w \in Worker :
         /\ WF_vars(Finish(w))
         /\ SF_vars(\E e \in events : BeginEvent(w, e))
    /\ WF_vars(\E e \in events : EventUnmatched(e))

-------------------------------------------------------------------------------
(* Properties *)

\* Every variable has its type.
TypeOK ==
    /\ row \in Row
    /\ req \in [Worker -> Request]
    /\ sub \in [Sub -> StripeSub]
    /\ events \subseteq Event
    /\ emitted \in 0..MaxEvents

\* Nothing is under way: every event was answered and every request has ended.
Quiet == events = {} /\ \A w \in Worker : req[w] = Idle

\* Events in order and none lost: when nothing is under way, the linked
\* subscription has not ended at Stripe, whatever requests raced.
LinkedIsLive == Calm /\ Quiet => (row.sub # None => IsLive(row.sub))

\* Events in order and none lost: a subscription that ends at Stripe is in
\* the end linked to the row no more, whatever an administrator sets meanwhile.
EndedIsDowngraded ==
    \A s \in Sub : (Calm /\ sub[s].state = "ended") ~> row.sub # s
===============================================================================
