-------------------------- MODULE SubscriptionsProofs --------------------------
(***************************************************************************)
(* Proofs about Subscriptions: its types, and that a paid plan goes with a   *)
(* linked Stripe subscription unless an administrator gave it, whatever      *)
(* requests race and however events are reordered, repeated or lost; with     *)
(* events in order, that the linked subscription has not ended at Stripe,     *)
(* and, one request at a time, that the row mirrors it.                       *)
(***************************************************************************)
EXTENDS MCSubscriptions, TLAPS

-------------------------------------------------------------------------------
(* The inductive invariant *)

\* What the webhook relies on: an event carries a paid plan in its metadata, and a
\* live subscription unless it reports an end.
Sound(e) == /\ e.snapshot.meta \in Plan
            /\ e.type # "deleted" => e.snapshot.state \in Live

\* A subscription that has been checked out carries a paid plan, and every event
\* on its way to the row is sound.
MetaIsPaid ==
    /\ \A s \in Sub : sub[s].state # "none" => sub[s].meta \in Plan
    /\ \A e \in events : Sound(e)
    /\ \A w \in Worker : req[w].op = "event" => Sound(req[w].event)

IInv == TypeOK /\ MetaIsPaid

-------------------------------------------------------------------------------
(* Lemmas about what the actions are built from *)

\* A request that a worker takes up has the type of requests.
LEMMA HoldKeeps ==
    ASSUME NEW w \in Worker, NEW op, NEW s, NEW now, NEW e,
           IInv, Hold(w, op, s, now, e),
           [op |-> op, s |-> s, now |-> now, event |-> e] \in Request,
           op = "event" => Sound(e)
    PROVE  /\ req' \in [Worker -> Request]
           /\ \A v \in Worker : req'[v].op = "event" => Sound(req'[v].event)
BY DEF IInv, TypeOK, MetaIsPaid, Hold

\* What a request holds depends on its kind.
LEMMA RequestFields ==
    ASSUME NEW r \in Request
    PROVE  /\ r.op = "cancel" => r.now \in BOOLEAN
           /\ r.op = "event" => r.event \in Event
<1> DEFINE Calls == [op : {"cancel", "reactivate"}, s : Sub \cup {None},
                     now : BOOLEAN, event : {None}]
           Webhooks == [op : {"event"}, s : Sub, now : {FALSE}, event : Event]
<1>1. r = Idle \/ r \in Calls \/ r \in Webhooks
  BY DEF Request
<1>2. CASE r = Idle
  BY <1>2 DEF Idle
<1>3. CASE r \in Calls
  BY <1>3
<1>4. CASE r \in Webhooks
  BY <1>4
<1> QED BY <1>1, <1>2, <1>3, <1>4

\* Ending a request leaves the others as they are.
LEMMA EndKeeps ==
    ASSUME NEW w \in Worker, IInv, req' = [req EXCEPT ![w] = Idle]
    PROVE  /\ req' \in [Worker -> Request]
           /\ \A v \in Worker : req'[v].op = "event" => Sound(req'[v].event)
BY DEF IInv, TypeOK, MetaIsPaid, Request, Idle

\* Stripe emits an event with the new snapshot of a subscription that carries a
\* paid plan.
LEMMA EmitKeeps ==
    ASSUME NEW type \in EventType, NEW s \in Sub, NEW new \in StripeSub,
           new.meta \in Plan, type # "deleted" => new.state \in Live,
           IInv, Emit(type, s, new)
    PROVE  /\ sub' \in [Sub -> StripeSub] /\ events' \subseteq Event
           /\ emitted' \in 0..MaxEvents
           /\ \A t \in Sub : sub'[t].state # "none" => sub'[t].meta \in Plan
           /\ \A e \in events' : Sound(e)
<1> USE BoundAssumption
<1>1. emitted' \in 1..MaxEvents /\ emitted + 1 \in 1..MaxEvents
  BY DEF IInv, TypeOK, Emit
<1>2. sub' \in [Sub -> StripeSub]
  BY DEF IInv, TypeOK, Emit
<1>3. DEFINE ev == [type |-> type, s |-> s, snapshot |-> new, n |-> emitted + 1]
<1>4. ev \in Event /\ Sound(ev)
  BY <1>1 DEF Event, Sound
<1>5. events' = events \cup {ev}
  BY DEF Emit
<1>6. events' \subseteq Event /\ \A e \in events' : Sound(e)
  <2> HIDE DEF ev
  <2> QED BY <1>4, <1>5 DEF IInv, TypeOK, MetaIsPaid
<1>7. \A t \in Sub : sub'[t].state # "none" => sub'[t].meta \in Plan
  BY DEF IInv, TypeOK, MetaIsPaid, Emit
<1> QED BY <1>1, <1>2, <1>6, <1>7

\* The three updates of the webhook keep the row's type; a creation and an end leave
\* a plan that agrees with the link, the other update leaves both alone.
LEMMA RowUpdates ==
    ASSUME NEW r \in Row, NEW e \in Event, Sound(e)
    PROVE  /\ e.type # "deleted" => Linked(r, e) \in Row /\ Updated(r, e) \in Row
           /\ Linked(r, e).plan \in Plan /\ Linked(r, e).sub # None
           /\ Updated(r, e).plan = r.plan /\ Updated(r, e).sub = r.sub
           /\ DowngradedToFree(r) \in Row
           /\ DowngradedToFree(r).plan \notin Plan /\ DowngradedToFree(r).sub = None
<1> USE NoneAssumption, PlanAssumption
<1> QED BY DEF Row, Event, StripeSub, Sound, Live, Linked, Updated, DowngradedToFree, Free

-------------------------------------------------------------------------------
(* The steps *)

LEMMA InitHolds == Init => IInv
<1> SUFFICES ASSUME Init PROVE IInv
  OBVIOUS
<1>1. row \in Row
  BY DEF Init, NoRow, Free, Row, Live
<1>2. req \in [Worker -> Request] /\ \A w \in Worker : req[w].op # "event"
  BY DEF Init, Request, Idle
<1>3. sub \in [Sub -> StripeSub] /\ \A s \in Sub : sub[s].state = "none"
  BY DEF Init, StripeSub
<1>4. events = {} /\ emitted \in 0..MaxEvents
  BY BoundAssumption DEF Init
<1> QED BY <1>1, <1>2, <1>3, <1>4 DEF IInv, TypeOK, MetaIsPaid

\* Stripe's own steps leave the row and the requests alone.
LEMMA StripeKeeps ==
    ASSUME IInv, NEW s \in Sub,
           \/ PortalCancelAtEnd(s) \/ PeriodEnds(s)
           \/ \E st \in Live : CustomerSubscribes(s, st) \/ PaymentStatus(s, st)
           \/ \E p \in Plan : PortalPlan(s, p)
    PROVE  IInv'
<1>1. sub[s] \in StripeSub /\ (sub[s].state # "none" => sub[s].meta \in Plan)
  BY DEF IInv, TypeOK, MetaIsPaid
<1>2. UNCHANGED <<row, req>>
  BY DEF PortalCancelAtEnd, PeriodEnds, CustomerSubscribes, PaymentStatus, PortalPlan,
         StripeChanges
<1> DEFINE OnStripe == /\ sub' \in [Sub -> StripeSub] /\ events' \subseteq Event
                       /\ emitted' \in 0..MaxEvents
                       /\ \A t \in Sub : sub'[t].state # "none" => sub'[t].meta \in Plan
                       /\ \A e \in events' : Sound(e)
<1>3. OnStripe
  <2>1. CASE PortalCancelAtEnd(s)
    <3> DEFINE new == [sub[s] EXCEPT !.cancelAtEnd = ~@]
    <3>1. new \in StripeSub /\ new.meta \in Plan /\ new.state \in Live
      BY <1>1, <2>1 DEF PortalCancelAtEnd, StripeChanges, IsLive, Live, StripeSub
    <3>2. Emit("updated", s, new)
      BY <2>1 DEF PortalCancelAtEnd, StripeChanges
    <3> HIDE DEF new
    <3> QED BY <3>1, <3>2, EmitKeeps DEF EventType
  <2>2. CASE PeriodEnds(s)
    <3> DEFINE new == [sub[s] EXCEPT !.state = "ended"]
    <3>1. new \in StripeSub /\ new.meta \in Plan
      BY <1>1, <2>2 DEF PeriodEnds, IsLive, Live, StripeSub
    <3>2. Emit("deleted", s, new)
      BY <2>2 DEF PeriodEnds, StripeEnds
    <3> HIDE DEF new
    <3> QED BY <3>1, <3>2, EmitKeeps DEF EventType
  <2>3. ASSUME NEW st \in Live, CustomerSubscribes(s, st)
        PROVE  OnStripe
    <3> DEFINE new == [sub[s] EXCEPT !.state = st]
    <3>1. new \in StripeSub /\ new.meta \in Plan /\ new.state \in Live
      BY <1>1, <2>3 DEF CustomerSubscribes, IsLive, Live, StripeSub
    <3>2. Emit("created", s, new)
      BY <2>3 DEF CustomerSubscribes
    <3> HIDE DEF new
    <3> QED BY <3>1, <3>2, EmitKeeps DEF EventType
  <2>4. ASSUME NEW st \in Live, PaymentStatus(s, st)
        PROVE  OnStripe
    <3> DEFINE new == [sub[s] EXCEPT !.state = st]
    <3>1. new \in StripeSub /\ new.meta \in Plan /\ new.state \in Live
      BY <1>1, <2>4 DEF PaymentStatus, StripeChanges, IsLive, Live, StripeSub
    <3>2. Emit("updated", s, new)
      BY <2>4 DEF PaymentStatus, StripeChanges
    <3> HIDE DEF new
    <3> QED BY <3>1, <3>2, EmitKeeps DEF EventType
  <2>5. ASSUME NEW p \in Plan, PortalPlan(s, p)
        PROVE  OnStripe
    <3> DEFINE new == [sub[s] EXCEPT !.price = p]
    <3>1. new \in StripeSub /\ new.meta \in Plan /\ new.state \in Live
      BY <1>1, <2>5 DEF PortalPlan, StripeChanges, IsLive, Live, StripeSub
    <3>2. Emit("updated", s, new)
      BY <2>5 DEF PortalPlan, StripeChanges
    <3> HIDE DEF new
    <3> QED BY <3>1, <3>2, EmitKeeps DEF EventType
  <2> QED BY <2>1, <2>2, <2>3, <2>4, <2>5
<1> QED BY <1>2, <1>3 DEF IInv, TypeOK, MetaIsPaid

\* The first half of a cancellation or a reactivation: Stripe is called, the row
\* is not written.
LEMMA CallKeeps ==
    ASSUME IInv, NEW w \in Worker,
           ReactivateSubscription(w) \/ \E now \in BOOLEAN : CancelSubscription(w, now)
    PROVE  IInv'
<1> DEFINE OnStripe == /\ sub' \in [Sub -> StripeSub] /\ events' \subseteq Event
                       /\ emitted' \in 0..MaxEvents
                       /\ \A t \in Sub : sub'[t].state # "none" => sub'[t].meta \in Plan
                       /\ \A e \in events' : Sound(e)
           asked(flag) == [sub[row.sub] EXCEPT !.cancelAtEnd = flag]
           ended == [sub[row.sub] EXCEPT !.state = "ended"]
<1>1. ASSUME UNCHANGED stripe
      PROVE  OnStripe
  BY <1>1 DEF stripe, IInv, TypeOK, MetaIsPaid
<1>2. ASSUME row.sub # None, IsLive(row.sub)
      PROVE  /\ row.sub \in Sub
             /\ ended \in StripeSub /\ ended.meta \in Plan
             /\ \A flag \in BOOLEAN : /\ asked(flag) \in StripeSub
                                     /\ asked(flag).meta \in Plan
                                     /\ asked(flag).state \in Live
  BY <1>2 DEF IInv, TypeOK, MetaIsPaid, Row, IsLive, Live, StripeSub
<1>3. OnStripe
  <2>1. CASE UNCHANGED stripe
    BY <1>1, <2>1
  <2>2. ASSUME row.sub # None, IsLive(row.sub), NEW flag \in BOOLEAN,
               Emit("updated", row.sub, asked(flag))
        PROVE  OnStripe
    <3> DEFINE new == asked(flag)
    <3>1. /\ row.sub \in Sub /\ new \in StripeSub /\ new.meta \in Plan
          /\ new.state \in Live /\ Emit("updated", row.sub, new)
      BY <1>2, <2>2
    <3> HIDE DEF new
    <3> QED BY <3>1, EmitKeeps DEF EventType
  <2>3. ASSUME row.sub # None, IsLive(row.sub), Emit("deleted", row.sub, ended)
        PROVE  OnStripe
    <3>1. row.sub \in Sub /\ ended \in StripeSub /\ ended.meta \in Plan
      BY <1>2, <2>3
    <3> HIDE DEF ended
    <3> QED BY <2>3, <3>1, EmitKeeps DEF EventType
  <2>4. \/ UNCHANGED stripe
        \/ /\ row.sub # None /\ IsLive(row.sub)
           /\ \/ Emit("updated", row.sub, asked(TRUE))
              \/ Emit("updated", row.sub, asked(FALSE))
              \/ Emit("deleted", row.sub, ended)
    BY DEF ReactivateSubscription, CancelSubscription, StripeEnds
  <2> QED BY <2>1, <2>2, <2>3, <2>4
<1>4. /\ req' \in [Worker -> Request]
      /\ \A v \in Worker : req'[v].op = "event" => Sound(req'[v].event)
  <2>1. PICK op \in {"cancel", "reactivate"}, now \in BOOLEAN :
          Hold(w, op, row.sub, now, None)
    BY DEF ReactivateSubscription, CancelSubscription
  <2>2. [op |-> op, s |-> row.sub, now |-> now, event |-> None] \in Request
    BY DEF IInv, TypeOK, Row, Request
  <2> QED BY <2>1, <2>2, HoldKeeps
<1>5. row' = row
  BY DEF ReactivateSubscription, CancelSubscription
<1> QED BY <1>3, <1>4, <1>5 DEF IInv, TypeOK, MetaIsPaid

\* The second half of any request.
LEMMA FinishKeeps ==
    ASSUME IInv, NEW w \in Worker, Finish(w)
    PROVE  IInv'
<1> USE DEF IInv
<1>1. /\ req' \in [Worker -> Request]
      /\ \A v \in Worker : req'[v].op = "event" => Sound(req'[v].event)
  BY EndKeeps DEF Finish, CommitCancel, CommitReactivate, Abort, CommitEvent, FailEvent
<1>2. UNCHANGED <<sub, emitted>> /\ events' \subseteq events
  BY DEF Finish, CommitCancel, CommitReactivate, Abort, CommitEvent, FailEvent,
         Acknowledge, stripe
<1>3. row' \in Row
  <2>1. row \in Row
    BY DEF TypeOK
  <2>2. CASE CommitCancel(w)
    <3>1. req[w].now \in BOOLEAN
      BY <2>2, RequestFields DEF CommitCancel, TypeOK
    <3> QED BY <2>1, <2>2, <3>1 DEF CommitCancel, Row
  <2>3. CASE CommitReactivate(w)
    BY <2>1, <2>3 DEF CommitReactivate, Row
  <2>4. CASE Abort(w) \/ FailEvent(w)
    BY <2>1, <2>4 DEF Abort, FailEvent
  <2>5. CASE CommitEvent(w)
    <3> DEFINE e == req[w].event
    <3>1. e \in Event /\ Sound(e)
      BY <2>5, RequestFields DEF CommitEvent, TypeOK, MetaIsPaid
    <3>2. e.type \in EventType
      BY <3>1 DEF Event
    <3>3. row' = CASE e.type = "created" -> Linked(row, e)
                   [] e.type = "updated" -> Updated(row, e)
                   [] e.type = "deleted" -> DowngradedToFree(row)
      BY <2>5 DEF CommitEvent
    <3> HIDE DEF e
    <3> QED BY <2>1, <3>1, <3>2, <3>3, RowUpdates DEF EventType
  <2> QED BY <2>2, <2>3, <2>4, <2>5 DEF Finish
<1> QED BY <1>1, <1>2, <1>3 DEF TypeOK, MetaIsPaid

\* An administrator sets columns of a row and leaves its link and Stripe alone.
LEMMA AdminKeeps ==
    ASSUME IInv, AdminNext
    PROVE  IInv'
<1>1. PICK p \in AdminPlan \cup {None}, st \in AdminStatus \cup {None} :
        AdminUpdateSubscription(p, st)
  BY DEF AdminNext
<1>2. row' \in Row
  BY <1>1, AdminAssumption DEF AdminUpdateSubscription, IInv, TypeOK, Row, Live
<1>3. UNCHANGED <<req, sub, events, emitted>>
  BY <1>1 DEF AdminUpdateSubscription, stripe
<1> QED BY <1>2, <1>3 DEF IInv, TypeOK, MetaIsPaid

LEMMA StepKeeps == IInv /\ [Next]_vars => IInv'
<1> SUFFICES ASSUME IInv, [Next]_vars PROVE IInv'
  OBVIOUS
<1>1. CASE GetOrCreateFree
  BY <1>1, NoneAssumption, PlanAssumption
     DEF GetOrCreateFree, stripe, IInv, TypeOK, MetaIsPaid, Free, Row, Live
<1>2. ASSUME NEW s \in Sub,
             \/ PortalCancelAtEnd(s) \/ PeriodEnds(s)
             \/ \E st \in Live : CustomerSubscribes(s, st) \/ PaymentStatus(s, st)
             \/ \E p \in Plan : PortalPlan(s, p)
      PROVE  IInv'
  BY <1>2, StripeKeeps
<1>3. ASSUME NEW s \in Sub, NEW p \in Plan, CreateCheckout(s, p)
      PROVE  IInv'
  BY <1>3 DEF CreateCheckout, IInv, TypeOK, MetaIsPaid, StripeSub
<1>4. ASSUME NEW w \in Worker,
             ReactivateSubscription(w) \/ \E now \in BOOLEAN : CancelSubscription(w, now)
      PROVE  IInv'
  BY <1>4, CallKeeps
<1>5. ASSUME NEW w \in Worker, NEW e \in events, BeginEvent(w, e)
      PROVE  IInv'
  <2>1. e \in Event /\ Sound(e) /\ e.s \in Sub
    BY DEF IInv, TypeOK, MetaIsPaid, Event
  <2>2. [op |-> "event", s |-> e.s, now |-> FALSE, event |-> e] \in Request
    BY <2>1 DEF Request
  <2>3. /\ req' \in [Worker -> Request]
        /\ \A v \in Worker : req'[v].op = "event" => Sound(req'[v].event)
    BY <1>5, <2>1, <2>2, HoldKeeps DEF BeginEvent
  <2> QED BY <1>5, <2>3 DEF BeginEvent, stripe, IInv, TypeOK, MetaIsPaid
<1>6. ASSUME NEW w \in Worker, Finish(w)
      PROVE  IInv'
  BY <1>6, FinishKeeps
<1>7. ASSUME NEW e \in events, EventUnmatched(e)
      PROVE  IInv'
  BY <1>7 DEF EventUnmatched, IInv, TypeOK, MetaIsPaid
<1>8. CASE UNCHANGED vars
  BY <1>8 DEF vars, IInv, TypeOK, MetaIsPaid
<1>9. CASE AdminNext
  BY <1>9, AdminKeeps
<1> QED BY <1>1, <1>2, <1>3, <1>4, <1>5, <1>6, <1>7, <1>8, <1>9 DEF Next, SystemNext

LEMMA Invariance == Spec => []IInv
BY InitHolds, StepKeeps, PTL DEF Spec

-------------------------------------------------------------------------------

\* Every variable has its type (the columns of models/subscription.py).
THEOREM TypeCorrect == Spec => []TypeOK
<1>1. IInv => TypeOK
  BY DEF IInv
<1> QED BY <1>1, Invariance, PTL

-------------------------------------------------------------------------------
(* A paid plan goes with a link *)

\* One webhook commits in a step.
LEMMA OneCommits ==
    ASSUME IInv, NEW v \in Worker, NEW w \in Worker, CommitEvent(w),
           req[v].op = "event", req'[v] = Idle
    PROVE  v = w
BY DEF IInv, TypeOK, CommitEvent, Idle

\* A step in which no webhook commits keeps the columns an administrator has set.
LEMMA Overriding ==
    ASSUME MCNext, ~\E w \in Worker : CommitEvent(w)
    PROVE  overridden \subseteq overridden'
<1>1. Rewritten = {}
  BY DEF Rewritten
<1>2. QED
  BY <1>1 DEF MCNext

\* A webhook commits.
LEMMA CommitPaid ==
    ASSUME IInv, PaidUnlessOverridden, MCNext, NEW w \in Worker, CommitEvent(w)
    PROVE  PaidUnlessOverridden'
<1>1. PICK e : e = req[w].event
  OBVIOUS
<1>2. e \in Event /\ Sound(e) /\ row \in Row /\ e.type \in EventType
  BY <1>1, RequestFields DEF CommitEvent, IInv, TypeOK, MetaIsPaid, Event
<1>3. row' = CASE e.type = "created" -> Linked(row, e)
               [] e.type = "updated" -> Updated(row, e)
               [] e.type = "deleted" -> DowngradedToFree(row)
  BY <1>1 DEF CommitEvent
<1>4. CASE e.type # "updated"
  BY <1>2, <1>3, <1>4, RowUpdates DEF EventType, PaidUnlessOverridden
<1>5. CASE e.type = "updated"
  <2>1. row'.plan = row.plan /\ row'.sub = row.sub
    BY <1>2, <1>3, <1>5, RowUpdates
  <2>2. ASSUME NEW v \in Worker, CommitEvent(v)
        PROVE  "plan" \notin Rewrites(req[v].event)
    <3>1. req[v].op = "event" /\ req'[v] = Idle
      BY <2>2 DEF CommitEvent, IInv, TypeOK
    <3>2. v = w
      BY <3>1, OneCommits
    <3>3. QED
      BY <1>1, <1>5, <3>2 DEF Rewrites
  <2>3. "plan" \notin Rewritten
    BY <2>2 DEF Rewritten
  <2>4. "plan" \in overridden => "plan" \in overridden'
    BY <2>3 DEF MCNext
  <2>5. QED
    BY <2>1, <2>4 DEF PaidUnlessOverridden
<1>6. QED
  BY <1>4, <1>5

\* Besides the webhooks, only an administrator sets the plan of a row that exists, and
\* none of the other steps touches the link.
LEMMA OthersPaid ==
    ASSUME IInv, PaidUnlessOverridden, MCNext, ~\E w \in Worker : CommitEvent(w)
    PROVE  PaidUnlessOverridden'
<1>1. overridden \subseteq overridden'
  BY Overriding
<1>2. row \in Row
  BY DEF IInv, TypeOK
<1>3. ASSUME row'.plan = row.plan, row'.sub = row.sub
      PROVE  PaidUnlessOverridden'
  BY <1>1, <1>3 DEF PaidUnlessOverridden
<1>4. ASSUME NEW p \in AdminPlan \cup {None}, NEW st \in AdminStatus \cup {None},
             AdminUpdateSubscription(p, st), overridden' = overridden \cup Given(p, st)
      PROVE  PaidUnlessOverridden'
  <2>1. CASE p # None
    <3>1. "plan" \in overridden'
      BY <1>4, <2>1 DEF Given
    <3>2. QED
      BY <3>1 DEF PaidUnlessOverridden
  <2>2. CASE p = None
    <3>1. row'.plan = row.plan /\ row'.sub = row.sub
      BY <1>2, <1>4, <2>2 DEF AdminUpdateSubscription, Row
    <3>2. QED
      BY <1>3, <3>1
  <2>3. QED
    BY <2>1, <2>2
<1>5. CASE SystemNext
  <2>1. CASE GetOrCreateFree
    BY <2>1, PlanAssumption DEF GetOrCreateFree, Free, PaidUnlessOverridden
  <2>2. CASE row' = row
    BY <1>3, <2>2
  <2>3. ASSUME NEW w \in Worker, CommitCancel(w) \/ CommitReactivate(w)
        PROVE  PaidUnlessOverridden'
    <3>1. row'.plan = row.plan /\ row'.sub = row.sub
      BY <1>2, <2>3 DEF CommitCancel, CommitReactivate, Row
    <3>2. QED
      BY <1>3, <3>1
  <2>4. \/ GetOrCreateFree \/ row' = row
        \/ \E w \in Worker : CommitCancel(w) \/ CommitReactivate(w)
    BY <1>5 DEF SystemNext, PortalCancelAtEnd, PeriodEnds, CustomerSubscribes, PaymentStatus,
                PortalPlan, StripeChanges, CreateCheckout, CancelSubscription,
                ReactivateSubscription, BeginEvent, EventUnmatched, Finish, Abort, FailEvent
  <2>5. QED
    BY <2>1, <2>2, <2>3, <2>4
<1>6. QED
  BY <1>4, <1>5 DEF MCNext

\* A step of an instance is a step of the specification.
LEMMA MCSteps == [MCNext]_mcvars => [Next]_vars
BY DEF MCNext, mcvars, Next, AdminNext

\* For any number of subscriptions, plans and requests, whatever order events are
\* delivered in and however many are lost: the plan is a paid one exactly while a
\* Stripe subscription is linked (link_stripe_subscription, downgrade_to_free),
\* unless an administrator has set it since (admin_update_subscription).
THEOREM PaidWhenLinked == MCSpec => []PaidUnlessOverridden
<1>1. MCInit => IInv /\ PaidUnlessOverridden
  BY InitHolds, PlanAssumption DEF MCInit, Init, NoRow, Free, PaidUnlessOverridden
<1>2. IInv /\ PaidUnlessOverridden /\ [MCNext]_mcvars => (IInv /\ PaidUnlessOverridden)'
  <2>1. CASE MCNext
    BY <2>1, CommitPaid, OthersPaid, StepKeeps, MCSteps
  <2>2. CASE UNCHANGED mcvars
    BY <2>2, StepKeeps DEF mcvars, vars, PaidUnlessOverridden
  <2>3. QED
    BY <2>1, <2>2
<1>3. QED
  BY <1>1, <1>2, PTL DEF MCSpec

-------------------------------------------------------------------------------
(* Events in order: the inductive invariant *)

Pending(s) == {e \in events : e.s = s}

\* Every event has a number of its own, and what it says of its subscription is true.
EventsTrue ==
    /\ \A e \in events : e.n <= emitted
    /\ \A d, e \in events : d.n = e.n => d = e
    /\ \A e \in events :
           /\ IsLive(e.s) \/ sub[e.s].state = "ended"
           /\ e.type = "deleted" => sub[e.s].state = "ended"
           /\ e.type = "created" => ~e.snapshot.cancelAtEnd
    /\ \A s \in Sub : sub[s].state \in {"none", "open"} => ~sub[s].cancelAtEnd

\* The newest event of a subscription carries its present state.
NewestIsCurrent ==
    \A e \in events : (\A d \in Pending(e.s) : d.n <= e.n) => e.snapshot = sub[e.s]

\* The end of a subscription whose creation is still to be told is told after it.
EndIsToldLater ==
    \A e \in events :
        e.type = "created" =>
            IsLive(e.s) \/ \E d \in Pending(e.s) : d.type = "deleted" /\ e.n < d.n

\* The end of a linked subscription is still to be told.
EndIsTold ==
    row.sub # None =>
        /\ row.exists
        /\ IsLive(row.sub) \/ \E d \in Pending(row.sub) : d.type = "deleted"

\* One webhook at a time handles the oldest event, which matched the row and still does.
OldestHandled ==
    \A w \in Worker : req[w].op = "event" =>
        /\ req[w].event \in events /\ \A d \in events : req[w].event.n <= d.n
        /\ Matches(req[w].event)
        /\ \A v \in Worker : req[v].op = "event" => v = w

CalmInv == NewestIsCurrent /\ EndIsToldLater /\ EndIsTold /\ OldestHandled

OrderInv == EventsTrue /\ (Calm => CalmInv) /\ (Provisioned => row.exists)

-------------------------------------------------------------------------------
(* The inductive invariant of MirrorsUnlessRaced *)

\* A live subscription is linked, or is going to be.
LiveIsLinked ==
    \A s \in Sub : IsLive(s) => row.sub = s \/ \E e \in Pending(s) : e.type = "created"

\* With nothing left to be told of it, the linked subscription is as the row says.
Mirrored ==
    row.sub # None /\ Pending(row.sub) = {} =>
        /\ "status" \in overridden \/ row.status = sub[row.sub].state
        /\ row.price = sub[row.sub].price
        /\ sub[row.sub].cancelAtEnd => row.cancelAtEnd

\* What a request has asked of Stripe is still to be told.
CallIsTold ==
    \A w \in Worker : req[w].op \in {"cancel", "reactivate"} =>
        req[w].s = row.sub /\ (row.sub # None => Pending(row.sub) # {})

MirrorInv ==
    /\ OrderInv
    /\ Calm /\ Provisioned =>
        /\ OnlyOne => LiveIsLinked
        /\ raced \/ (~Overlap /\ Mirrored /\ CallIsTold)

-------------------------------------------------------------------------------
(* Stripe emits an event *)

\* What Stripe's events have in common: a subscription is created when its checkout
\* ends, nothing is told of it before, and nothing happens to it after its end.
Truthful(type, s, new) ==
    /\ sub[s].state \in Live \cup {"open"}
    /\ type = "created" <=> sub[s].state = "open"
    /\ IF type = "deleted" THEN new.state = "ended" ELSE new.state \in Live
    /\ type = "created" => ~new.cancelAtEnd

LEMMA EventTypes ==
    ASSUME IInv, NEW e \in events
    PROVE  e.s \in Sub /\ e.n \in Nat /\ e.snapshot \in StripeSub /\ e.type \in EventType
BY BoundAssumption DEF IInv, TypeOK, Event

LEMMA Emitted ==
    ASSUME IInv, OrderInv, NEW type, NEW s \in Sub, NEW new, Emit(type, s, new)
    PROVE  \E ev : /\ events' = events \cup {ev} /\ ev.type = type /\ ev.s = s
                   /\ ev.snapshot = new /\ ev.n \in Nat /\ ev.n = emitted'
                   /\ emitted <= emitted'
                   /\ \A e \in events : e.n < ev.n
                   /\ sub' = [sub EXCEPT ![s] = new] /\ sub'[s] = new
                   /\ \A t \in Sub \ {s} : sub'[t] = sub[t]
<1>1. PICK ev : ev = [type |-> type, s |-> s, snapshot |-> new, n |-> emitted + 1]
  OBVIOUS
<1>2. emitted \in Nat /\ sub \in [Sub -> StripeSub]
  BY BoundAssumption DEF IInv, TypeOK
<1>3. events' = events \cup {ev} /\ emitted' = emitted + 1 /\ sub' = [sub EXCEPT ![s] = new]
  BY <1>1 DEF Emit
<1>4. \A e \in events : e.n < ev.n
  BY <1>1, <1>2, EventTypes DEF OrderInv, EventsTrue
<1>5. /\ ev.type = type /\ ev.s = s /\ ev.snapshot = new /\ ev.n = emitted + 1
  BY <1>1
<1>6. QED
  BY <1>2, <1>3, <1>4, <1>5

LEMMA EmitOrder ==
    ASSUME IInv, OrderInv, NEW type, NEW s \in Sub, NEW new,
           Emit(type, s, new), Truthful(type, s, new), row' = row,
           \A w \in Worker : req'[w].op = "event" => req'[w] = req[w]
    PROVE  OrderInv'
<1>1. PICK ev : /\ events' = events \cup {ev} /\ ev.type = type /\ ev.s = s
                /\ ev.snapshot = new /\ ev.n \in Nat /\ ev.n = emitted'
                /\ emitted <= emitted'
                /\ \A e \in events : e.n < ev.n
                /\ sub'[s] = new /\ \A t \in Sub \ {s} : sub'[t] = sub[t]
  BY Emitted
<1>2. \A e \in events : e.s \in Sub /\ e.n \in Nat
  BY EventTypes
<1>3. EventsTrue'
  <2>1. \A e \in events' : e.n <= emitted'
    BY <1>1, <1>2
  <2>2. \A d, e \in events' : d.n = e.n => d = e
    BY <1>1, <1>2 DEF OrderInv, EventsTrue
  <2>3. ASSUME NEW e \in events'
        PROVE  /\ sub'[e.s].state \in Live \/ sub'[e.s].state = "ended"
               /\ e.type = "deleted" => sub'[e.s].state = "ended"
               /\ e.type = "created" => ~e.snapshot.cancelAtEnd
    <3>1. CASE e = ev
      BY <1>1, <3>1 DEF Truthful
    <3>2. CASE e \in events /\ e.s = s
      BY <1>1, <3>2 DEF Truthful, OrderInv, EventsTrue, IsLive, Live
    <3>3. CASE e \in events /\ e.s # s
      BY <1>1, <1>2, <3>3 DEF OrderInv, EventsTrue, IsLive
    <3>4. QED
      BY <1>1, <3>1, <3>2, <3>3
  <2>4. \A t \in Sub : sub'[t].state \in {"none", "open"} => ~sub'[t].cancelAtEnd
    BY <1>1 DEF Truthful, OrderInv, EventsTrue, Live
  <2>5. QED
    BY <2>1, <2>2, <2>3, <2>4 DEF EventsTrue, IsLive
<1>4. ASSUME Calm
      PROVE  CalmInv'
  <2>1. NewestIsCurrent'
    <3>1. SUFFICES ASSUME NEW e \in events', \A d \in events' : d.s = e.s => d.n <= e.n
                   PROVE  e.snapshot = sub'[e.s]
      BY DEF NewestIsCurrent, Pending
    <3>2. CASE e = ev
      BY <1>1, <3>2
    <3>3. CASE e \in events
      <4>1. e.s # s
        BY <1>1, <1>2, <3>1, <3>3
      <4>2. e.snapshot = sub[e.s]
        BY <1>1, <1>4, <3>1, <3>3 DEF OrderInv, CalmInv, NewestIsCurrent, Pending
      <4>3. QED
        BY <1>1, <1>2, <3>3, <4>1, <4>2
    <3>4. QED
      BY <1>1, <3>2, <3>3
  <2>2. EndIsToldLater'
    <3>1. SUFFICES ASSUME NEW e \in events', e.type = "created", sub'[e.s].state \notin Live
                   PROVE  \E d \in events' : d.s = e.s /\ d.type = "deleted" /\ e.n < d.n
      BY DEF EndIsToldLater, Pending, IsLive
    <3>2. CASE e.s = s
      BY <1>1, <3>1, <3>2 DEF Truthful
    <3>3. CASE e.s # s
      BY <1>1, <1>2, <1>4, <3>1, <3>3 DEF OrderInv, CalmInv, EndIsToldLater, Pending, IsLive
    <3>4. QED
      BY <3>2, <3>3
  <2>3. EndIsTold'
    <3>1. row.sub # None => row.exists /\ row.sub \in Sub
      BY <1>4 DEF OrderInv, CalmInv, EndIsTold, IInv, TypeOK, Row
    <3>2. CASE row.sub = s
      BY <1>1, <3>1, <3>2 DEF EndIsTold, Truthful, Pending, IsLive
    <3>3. CASE row.sub # s
      BY <1>1, <1>4, <3>1, <3>3 DEF OrderInv, CalmInv, EndIsTold, Pending, IsLive
    <3>4. QED
      BY <3>2, <3>3
  <2>4. OldestHandled'
    BY <1>1, <1>2, <1>4 DEF OrderInv, CalmInv, OldestHandled, Matches
  <2>5. QED
    BY <2>1, <2>2, <2>3, <2>4 DEF CalmInv
<1>5. QED
  BY <1>3, <1>4 DEF OrderInv

LEMMA EmitMirror ==
    ASSUME IInv, OrderInv, NEW type, NEW s \in Sub, NEW new,
           Emit(type, s, new), Truthful(type, s, new), row' = row,
           overridden \subseteq overridden'
    PROVE  /\ OnlyOne' => OnlyOne
           /\ LiveIsLinked => LiveIsLinked'
           /\ Mirrored => Mirrored'
           /\ \A t \in Sub : Pending(t) # {} \/ t = s => Pending(t)' # {}
<1>1. PICK ev : /\ events' = events \cup {ev} /\ ev.type = type /\ ev.s = s
                /\ ev.snapshot = new /\ ev.n \in Nat /\ ev.n = emitted'
                /\ emitted <= emitted'
                /\ \A e \in events : e.n < ev.n
                /\ sub'[s] = new /\ \A t \in Sub \ {s} : sub'[t] = sub[t]
  BY Emitted
<1>2. OnlyOne' => OnlyOne
  BY <1>1 DEF OnlyOne, Truthful, Live
<1>3. ASSUME LiveIsLinked
      PROVE  LiveIsLinked'
  <2>1. SUFFICES ASSUME NEW t \in Sub, sub'[t].state \in Live, row.sub # t
                 PROVE  \E e \in events' : e.s = t /\ e.type = "created"
    BY DEF LiveIsLinked, Pending, IsLive
  <2>2. CASE t = s
    BY <1>1, <1>3, <2>1, <2>2 DEF Truthful, LiveIsLinked, Pending, IsLive
  <2>3. CASE t # s
    BY <1>1, <1>3, <2>1, <2>3 DEF LiveIsLinked, Pending, IsLive
  <2>4. QED
    BY <2>2, <2>3
<1>4. \A t \in Sub : Pending(t) # {} \/ t = s => Pending(t)' # {}
  BY <1>1 DEF Pending
<1>5. Mirrored => Mirrored'
  <2>1. row.sub # None => row.sub \in Sub
    BY DEF IInv, TypeOK, Row
  <2>2. CASE row.sub = s
    BY <1>4, <2>2 DEF Mirrored
  <2>3. CASE row.sub # s
    BY <1>1, <1>4, <2>1, <2>3 DEF Mirrored, Pending
  <2>4. QED
    BY <2>2, <2>3
<1>6. QED
  BY <1>2, <1>3, <1>4, <1>5

\* Every step of Stripe's own emits a truthful event and leaves the row and the
\* requests alone.
LEMMA StripeStep ==
    ASSUME IInv, OrderInv, NEW s \in Sub,
           \/ PortalCancelAtEnd(s) \/ PeriodEnds(s)
           \/ \E st \in Live : CustomerSubscribes(s, st) \/ PaymentStatus(s, st)
           \/ \E p \in Plan : PortalPlan(s, p)
    PROVE  /\ UNCHANGED <<row, req>>
           /\ \E type, new : Emit(type, s, new) /\ Truthful(type, s, new)
<1>1. UNCHANGED <<row, req>>
  BY DEF PortalCancelAtEnd, PeriodEnds, CustomerSubscribes, PaymentStatus, PortalPlan,
         StripeChanges
<1>2. sub[s] \in StripeSub
  BY DEF IInv, TypeOK
<1>3. ASSUME NEW new, Emit("updated", s, new), IsLive(s), new.state \in Live
      PROVE  \E type, n : Emit(type, s, n) /\ Truthful(type, s, n)
  BY <1>3 DEF Truthful, IsLive, Live
<1>4. CASE PortalCancelAtEnd(s)
  <2>1. PICK new : new = [sub[s] EXCEPT !.cancelAtEnd = ~@]
    OBVIOUS
  <2>2. Emit("updated", s, new) /\ IsLive(s)
    BY <1>4, <2>1 DEF PortalCancelAtEnd, StripeChanges
  <2>3. new.state \in Live
    BY <1>2, <2>1, <2>2 DEF IsLive, StripeSub
  <2>4. QED
    BY <1>1, <1>3, <2>2, <2>3
<1>5. CASE PeriodEnds(s)
  <2>1. PICK new : new = [sub[s] EXCEPT !.state = "ended"]
    OBVIOUS
  <2>2. Emit("deleted", s, new) /\ IsLive(s)
    BY <1>5, <2>1 DEF PeriodEnds, StripeEnds
  <2>3. Truthful("deleted", s, new)
    BY <1>2, <2>1, <2>2 DEF IsLive, StripeSub, Truthful, Live
  <2>4. QED
    BY <1>1, <2>2, <2>3
<1>6. ASSUME NEW st \in Live, CustomerSubscribes(s, st)
      PROVE  \E type, n : Emit(type, s, n) /\ Truthful(type, s, n)
  <2>1. PICK new : new = [sub[s] EXCEPT !.state = st]
    OBVIOUS
  <2>2. Emit("created", s, new) /\ sub[s].state = "open"
    BY <1>6, <2>1 DEF CustomerSubscribes
  <2>3. ~sub[s].cancelAtEnd
    BY <2>2 DEF OrderInv, EventsTrue
  <2>4. Truthful("created", s, new)
    BY <1>2, <2>1, <2>2, <2>3 DEF StripeSub, Truthful, Live
  <2>5. QED
    BY <2>2, <2>4
<1>7. ASSUME NEW st \in Live, PaymentStatus(s, st)
      PROVE  \E type, n : Emit(type, s, n) /\ Truthful(type, s, n)
  <2>1. PICK new : new = [sub[s] EXCEPT !.state = st]
    OBVIOUS
  <2>2. Emit("updated", s, new) /\ IsLive(s)
    BY <1>7, <2>1 DEF PaymentStatus, StripeChanges
  <2>3. new.state \in Live
    BY <1>2, <2>1 DEF StripeSub
  <2>4. QED
    BY <1>3, <2>2, <2>3
<1>8. ASSUME NEW p \in Plan, PortalPlan(s, p)
      PROVE  \E type, n : Emit(type, s, n) /\ Truthful(type, s, n)
  <2>1. PICK new : new = [sub[s] EXCEPT !.price = p]
    OBVIOUS
  <2>2. Emit("updated", s, new) /\ IsLive(s)
    BY <1>8, <2>1 DEF PortalPlan, StripeChanges
  <2>3. new.state \in Live
    BY <1>2, <2>1, <2>2 DEF IsLive, StripeSub
  <2>4. QED
    BY <1>3, <2>2, <2>3
<1>9. QED
  BY <1>1, <1>4, <1>5, <1>6, <1>7, <1>8

\* A cancellation or reactivation asks Stripe about the linked subscription, which
\* answers with a truthful event; without one, Stripe is not called.
LEMMA CallStep ==
    ASSUME IInv, NEW w \in Worker,
           ReactivateSubscription(w) \/ \E now \in BOOLEAN : CancelSubscription(w, now)
    PROVE  /\ row' = row
           /\ req'[w].op \in {"cancel", "reactivate"} /\ req'[w].s = row.sub
           /\ \A v \in Worker \ {w} : req'[v] = req[v]
           /\ row.sub = None => UNCHANGED stripe
           /\ row.sub # None =>
                /\ row.sub \in Sub
                /\ \E type, new : Emit(type, row.sub, new) /\ Truthful(type, row.sub, new)
<1>1. PICK op \in {"cancel", "reactivate"}, now \in BOOLEAN :
        Hold(w, op, row.sub, now, None)
  BY DEF ReactivateSubscription, CancelSubscription
<1>2. /\ req'[w].op \in {"cancel", "reactivate"} /\ req'[w].s = row.sub
      /\ \A v \in Worker \ {w} : req'[v] = req[v]
  <2>1. req \in [Worker -> Request]
    BY DEF IInv, TypeOK
  <2>2. QED
    BY <1>1, <2>1 DEF Hold
<1>3. row' = row /\ (row.sub = None => UNCHANGED stripe)
  BY DEF ReactivateSubscription, CancelSubscription
<1>4. ASSUME row.sub # None
      PROVE  /\ row.sub \in Sub
             /\ \E type, new : Emit(type, row.sub, new) /\ Truthful(type, row.sub, new)
  <2>1. row.sub \in Sub /\ sub[row.sub] \in StripeSub
    BY <1>4 DEF IInv, TypeOK, Row
  <2>2. IsLive(row.sub)
    BY <1>4 DEF ReactivateSubscription, CancelSubscription
  <2>3. ASSUME NEW flag, Emit("updated", row.sub, [sub[row.sub] EXCEPT !.cancelAtEnd = flag])
        PROVE  \E type, new : Emit(type, row.sub, new) /\ Truthful(type, row.sub, new)
    <3>1. PICK new : new = [sub[row.sub] EXCEPT !.cancelAtEnd = flag]
      OBVIOUS
    <3>2. Truthful("updated", row.sub, new)
      BY <2>1, <2>2, <3>1 DEF IsLive, StripeSub, Truthful, Live
    <3>3. QED
      BY <2>3, <3>1, <3>2
  <2>4. ASSUME Emit("deleted", row.sub, [sub[row.sub] EXCEPT !.state = "ended"])
        PROVE  \E type, new : Emit(type, row.sub, new) /\ Truthful(type, row.sub, new)
    <3>1. PICK new : new = [sub[row.sub] EXCEPT !.state = "ended"]
      OBVIOUS
    <3>2. Truthful("deleted", row.sub, new)
      BY <2>1, <2>2, <3>1 DEF IsLive, StripeSub, Truthful, Live
    <3>3. QED
      BY <2>4, <3>1, <3>2
  <2>5. \/ Emit("updated", row.sub, [sub[row.sub] EXCEPT !.cancelAtEnd = TRUE])
        \/ Emit("updated", row.sub, [sub[row.sub] EXCEPT !.cancelAtEnd = FALSE])
        \/ Emit("deleted", row.sub, [sub[row.sub] EXCEPT !.state = "ended"])
    BY <1>4 DEF ReactivateSubscription, CancelSubscription, StripeEnds
  <2>6. QED
    BY <2>1, <2>3, <2>4, <2>5
<1>5. QED
  BY <1>2, <1>3, <1>4

-------------------------------------------------------------------------------
(* Events leave the queue *)

\* What events say stays true when some of them are gone.
LEMMA FewerEvents ==
    ASSUME OrderInv, events' \subseteq events, UNCHANGED <<sub, emitted>>
    PROVE  EventsTrue'
BY DEF OrderInv, EventsTrue, IsLive

\* In order, the event that goes is the oldest one: the newest of each subscription
\* and an end that is told after a creation stay.
LEMMA OldestGoes ==
    ASSUME IInv, OrderInv, Calm, NEW e \in events, \A d \in events : e.n <= d.n,
           events' = events \ {e}, UNCHANGED <<sub, emitted>>
    PROVE  NewestIsCurrent' /\ EndIsToldLater'
<1>1. \A d \in events : d.n \in Nat
  BY EventTypes
<1>2. NewestIsCurrent'
  BY <1>1 DEF NewestIsCurrent, Pending, OrderInv, CalmInv
<1>3. EndIsToldLater'
  BY <1>1 DEF EndIsToldLater, Pending, OrderInv, CalmInv, IsLive
<1>4. QED
  BY <1>2, <1>3

-------------------------------------------------------------------------------
(* The events in order: every step *)

\* The webhook applies the event it handles and acknowledges it.
LEMMA CommitEventOrder ==
    ASSUME IInv, OrderInv, NEW w \in Worker, CommitEvent(w)
    PROVE  OrderInv'
<1>1. PICK e : e = req[w].event
  OBVIOUS
<1>2. /\ req[w].op = "event" /\ req' = [req EXCEPT ![w] = Idle]
      /\ UNCHANGED <<sub, emitted>> /\ events' \subseteq events
      /\ Calm => events' = events \ {e}
  BY <1>1 DEF CommitEvent, Acknowledge
<1>3. row' = CASE e.type = "created" -> Linked(row, e)
               [] e.type = "updated" -> Updated(row, e)
               [] e.type = "deleted" -> DowngradedToFree(row)
  BY <1>1 DEF CommitEvent
<1>4. e.type \in EventType /\ e.s \in Sub /\ row \in Row
  BY <1>1, <1>2, RequestFields DEF IInv, TypeOK, Event
<1>5. /\ row.exists => row'.exists
      /\ row'.sub = IF e.type = "created" THEN e.s
                    ELSE IF e.type = "updated" THEN row.sub ELSE None
  BY <1>3, <1>4 DEF EventType, Row, Linked, Updated, DowngradedToFree, Free
<1>6. EventsTrue'
  BY <1>2, FewerEvents
<1>7. ASSUME Calm
      PROVE  CalmInv'
  <2>1. /\ e \in events /\ (\A d \in events : e.n <= d.n) /\ Matches(e)
        /\ \A v \in Worker : req[v].op = "event" => v = w
    BY <1>1, <1>2, <1>7 DEF OrderInv, CalmInv, OldestHandled
  <2>2. NewestIsCurrent' /\ EndIsToldLater'
    BY <1>2, <1>7, <2>1, OldestGoes
  <2>3. EndIsTold'
    <3>1. CASE e.type = "created"
      <4>1. IsLive(e.s) \/ \E d \in Pending(e.s) : d.type = "deleted" /\ e.n < d.n
        BY <1>7, <2>1, <3>1 DEF OrderInv, CalmInv, EndIsToldLater
      <4>2. ASSUME NEW d \in Pending(e.s), d.type = "deleted"
            PROVE  d \in Pending(e.s)'
        BY <1>2, <1>7, <3>1, <4>2 DEF Pending
      <4>3. QED
        BY <1>2, <1>5, <2>1, <3>1, <4>1, <4>2 DEF EndIsTold, IsLive, Matches
    <3>2. CASE e.type = "updated"
      <4>1. row'.sub = row.sub
        BY <1>5, <3>2
      <4>2. \A d \in events : d.type = "deleted" => d \in events'
        BY <1>2, <1>7, <3>2
      <4>3. QED
        BY <1>2, <1>5, <1>7, <4>1, <4>2
           DEF OrderInv, CalmInv, EndIsTold, Pending, IsLive
    <3>3. CASE e.type = "deleted"
      BY <1>5, <3>3 DEF EndIsTold
    <3>4. QED
      BY <1>4, <3>1, <3>2, <3>3 DEF EventType
  <2>4. OldestHandled'
    <3>1. \A v \in Worker : req'[v].op # "event"
      BY <1>2, <2>1 DEF IInv, TypeOK, Idle
    <3>2. QED
      BY <3>1 DEF OldestHandled
  <2>5. QED
    BY <2>2, <2>3, <2>4 DEF CalmInv
<1>8. Provisioned => row'.exists
  BY <1>5 DEF OrderInv
<1>9. QED
  BY <1>6, <1>7, <1>8 DEF OrderInv

\* The other halves of requests leave the events and the link alone, except that a
\* webhook that fails drops its event.
LEMMA FinishOrder ==
    ASSUME IInv, OrderInv, NEW w \in Worker, Finish(w)
    PROVE  OrderInv'
<1>1. CASE CommitEvent(w)
  BY <1>1, CommitEventOrder
<1>2. CASE FailEvent(w)
  <2>1. ~Calm /\ events' \subseteq events /\ UNCHANGED <<row, sub, emitted>>
    BY <1>2 DEF FailEvent
  <2>2. QED
    BY <2>1, FewerEvents DEF OrderInv
<1>3. CASE CommitCancel(w) \/ CommitReactivate(w) \/ Abort(w)
  <2>1. row \in Row
    BY DEF IInv, TypeOK
  <2>2. row'.sub = row.sub /\ row'.exists = row.exists
    BY <1>3, <2>1 DEF CommitCancel, CommitReactivate, Abort, Row
  <2>3. UNCHANGED <<sub, events, emitted>>
    BY <1>3 DEF CommitCancel, CommitReactivate, Abort, stripe
  <2>4. \A v \in Worker : req'[v].op = "event" => req'[v] = req[v]
    BY <1>3 DEF CommitCancel, CommitReactivate, Abort, IInv, TypeOK, Idle
  <2>5. EventsTrue'
    BY <2>3, FewerEvents
  <2>6. ASSUME Calm
        PROVE  CalmInv'
    <3>1. NewestIsCurrent' /\ EndIsToldLater' /\ EndIsTold'
      BY <2>2, <2>3, <2>6
         DEF OrderInv, CalmInv, NewestIsCurrent, EndIsToldLater, EndIsTold, Pending, IsLive
    <3>2. OldestHandled'
      BY <2>2, <2>3, <2>4, <2>6 DEF OrderInv, CalmInv, OldestHandled, Matches
    <3>3. QED
      BY <3>1, <3>2 DEF CalmInv
  <2>7. QED
    BY <2>2, <2>5, <2>6 DEF OrderInv
<1>4. QED
  BY <1>1, <1>2, <1>3 DEF Finish

\* The oldest event is handled once.
LEMMA BeginOrder ==
    ASSUME IInv, OrderInv, NEW w \in Worker, NEW e \in events, BeginEvent(w, e)
    PROVE  OrderInv'
<1>1. /\ UNCHANGED <<row, sub, events, emitted>> /\ Deliverable(e) /\ Matches(e)
      /\ req[w] = Idle /\ ~BeingHandled(e)
  BY DEF BeginEvent, stripe, Hold
<1>2. /\ req'[w].op = "event" /\ req'[w].event = e
      /\ \A v \in Worker \ {w} : req'[v] = req[v]
  <2>1. req \in [Worker -> Request]
    BY DEF IInv, TypeOK
  <2>2. QED
    BY <2>1 DEF BeginEvent, Hold
<1>3. EventsTrue'
  BY <1>1, FewerEvents
<1>4. ASSUME Calm
      PROVE  CalmInv'
  <2>1. \A d \in events : e.n <= d.n
    BY <1>1, <1>4 DEF Deliverable
  <2>2. ASSUME NEW v \in Worker, req[v].op = "event"
        PROVE  FALSE
    <3>1. req[v].event \in events /\ req[v].event.n <= e.n
      BY <1>4, <2>2 DEF OrderInv, CalmInv, OldestHandled
    <3>2. req[v].event.n \in Nat /\ e.n \in Nat
      BY <3>1, EventTypes
    <3>3. req[v].event = e
      BY <2>1, <3>1, <3>2 DEF OrderInv, EventsTrue
    <3>4. QED
      BY <1>1, <3>3 DEF BeingHandled
  <2>3. OldestHandled'
    BY <1>1, <1>2, <2>1, <2>2 DEF OldestHandled, Matches
  <2>4. NewestIsCurrent' /\ EndIsToldLater' /\ EndIsTold'
    BY <1>1, <1>4
       DEF OrderInv, CalmInv, NewestIsCurrent, EndIsToldLater, EndIsTold, Pending, IsLive
  <2>5. QED
    BY <2>3, <2>4 DEF CalmInv
<1>5. QED
  BY <1>1, <1>3, <1>4 DEF OrderInv

\* An event that matches nothing is dropped; in order, no webhook is then under way.
LEMMA UnmatchedOrder ==
    ASSUME IInv, OrderInv, NEW e \in events, EventUnmatched(e)
    PROVE  OrderInv'
<1>1. /\ UNCHANGED <<row, req, sub, emitted>> /\ events' = events \ {e}
      /\ Deliverable(e) /\ ~Matches(e) /\ ~BeingHandled(e)
  BY DEF EventUnmatched
<1>2. EventsTrue'
  BY <1>1, FewerEvents
<1>3. ASSUME Calm
      PROVE  CalmInv'
  <2>1. \A d \in events : e.n <= d.n
    BY <1>1, <1>3 DEF Deliverable
  <2>2. NewestIsCurrent' /\ EndIsToldLater'
    BY <1>1, <1>3, <2>1, OldestGoes
  <2>3. EndIsTold'
    <3>1. row.sub # None => row.exists /\ row.sub # e.s
      BY <1>1, <1>3 DEF OrderInv, CalmInv, EndIsTold, Matches
    <3>2. QED
      BY <1>1, <1>3, <3>1 DEF OrderInv, CalmInv, EndIsTold, Pending, IsLive
  <2>4. ASSUME NEW v \in Worker, req[v].op = "event"
        PROVE  FALSE
    <3>1. req[v].event \in events /\ req[v].event.n <= e.n
      BY <1>3, <2>4 DEF OrderInv, CalmInv, OldestHandled
    <3>2. req[v].event.n \in Nat /\ e.n \in Nat
      BY <3>1, EventTypes
    <3>3. req[v].event = e
      BY <2>1, <3>1, <3>2 DEF OrderInv, EventsTrue
    <3>4. QED
      BY <1>1, <3>3 DEF BeingHandled
  <2>5. OldestHandled'
    BY <1>1, <2>4 DEF OldestHandled
  <2>6. QED
    BY <2>2, <2>3, <2>5 DEF CalmInv
<1>4. QED
  BY <1>1, <1>2, <1>3 DEF OrderInv

\* Nothing has been told yet of a subscription whose checkout has not started.
LEMMA CheckoutOrder ==
    ASSUME IInv, OrderInv, NEW s \in Sub, NEW p \in Plan, CreateCheckout(s, p)
    PROVE  OrderInv'
<1>1. /\ UNCHANGED <<row, req, events, emitted>> /\ sub[s].state = "none"
      /\ sub'[s].state = "open" /\ sub'[s].cancelAtEnd = sub[s].cancelAtEnd
      /\ \A t \in Sub \ {s} : sub'[t] = sub[t]
  BY DEF CreateCheckout, IInv, TypeOK, StripeSub
<1>2. \A e \in events : e.s \in Sub /\ e.s # s
  BY <1>1, EventTypes DEF OrderInv, EventsTrue, IsLive, Live
<1>3. EventsTrue'
  BY <1>1, <1>2 DEF OrderInv, EventsTrue, IsLive
<1>4. ASSUME Calm
      PROVE  CalmInv'
  <2>1. row.sub # None => row.sub \in Sub /\ row.sub # s
    BY <1>1, <1>2, <1>4
       DEF OrderInv, CalmInv, EndIsTold, IInv, TypeOK, Row, Pending, IsLive, Live
  <2>2. NewestIsCurrent' /\ EndIsToldLater'
    BY <1>1, <1>2, <1>4
       DEF OrderInv, CalmInv, NewestIsCurrent, EndIsToldLater, Pending, IsLive
  <2>3. EndIsTold'
    BY <1>1, <1>4, <2>1 DEF OrderInv, CalmInv, EndIsTold, Pending, IsLive
  <2>4. OldestHandled'
    BY <1>1, <1>4 DEF OrderInv, CalmInv, OldestHandled, Matches
  <2>5. QED
    BY <2>2, <2>3, <2>4 DEF CalmInv
<1>5. QED
  BY <1>1, <1>3, <1>4 DEF OrderInv

\* A row that is created on the first read is linked to nothing, and no event was
\* being handled for it.
LEMMA CreateRowOrder ==
    ASSUME IInv, OrderInv, GetOrCreateFree
    PROVE  OrderInv'
<1>1. ~row.exists /\ row' = Free /\ UNCHANGED <<req, sub, events, emitted>>
  BY DEF GetOrCreateFree, stripe
<1>2. EventsTrue'
  BY <1>1, FewerEvents
<1>3. ASSUME Calm
      PROVE  CalmInv'
  <2>1. NewestIsCurrent' /\ EndIsToldLater'
    BY <1>1, <1>3 DEF OrderInv, CalmInv, NewestIsCurrent, EndIsToldLater, Pending, IsLive
  <2>2. EndIsTold'
    BY <1>1 DEF EndIsTold, Free
  <2>3. OldestHandled'
    BY <1>1, <1>3 DEF OrderInv, CalmInv, OldestHandled, Matches
  <2>4. QED
    BY <2>1, <2>2, <2>3 DEF CalmInv
<1>4. QED
  BY <1>1, <1>2, <1>3 DEF OrderInv, Free

\* What an administrator sets leaves the link and the events alone.
LEMMA AdminLink ==
    ASSUME IInv, NEW p \in AdminPlan \cup {None}, NEW st \in AdminStatus \cup {None},
           AdminUpdateSubscription(p, st)
    PROVE  /\ UNCHANGED <<req, sub, events, emitted>>
           /\ row'.sub = row.sub /\ row'.exists = row.exists /\ row'.price = row.price
           /\ row'.cancelAtEnd = row.cancelAtEnd
           /\ st = None => row'.status = row.status
BY DEF AdminUpdateSubscription, stripe, IInv, TypeOK, Row

LEMMA AdminOrder ==
    ASSUME IInv, OrderInv, AdminNext
    PROVE  OrderInv'
<1>1. /\ UNCHANGED <<req, sub, events, emitted>>
      /\ row'.sub = row.sub /\ row'.exists = row.exists
  BY AdminLink DEF AdminNext
<1>2. EventsTrue'
  BY <1>1, FewerEvents
<1>3. CalmInv => CalmInv'
  <2>1. NewestIsCurrent /\ EndIsToldLater /\ EndIsTold
          => NewestIsCurrent' /\ EndIsToldLater' /\ EndIsTold'
    BY <1>1 DEF NewestIsCurrent, EndIsToldLater, EndIsTold, Pending, IsLive
  <2>2. OldestHandled => OldestHandled'
    BY <1>1 DEF OldestHandled, Matches
  <2>3. QED
    BY <2>1, <2>2 DEF CalmInv
<1>4. QED
  BY <1>1, <1>2, <1>3 DEF OrderInv

LEMMA InitOrder == Init => OrderInv
<1> SUFFICES ASSUME Init PROVE OrderInv
  OBVIOUS
<1>1. events = {} /\ emitted = 0 /\ row.sub = None /\ (Provisioned => row.exists)
  BY DEF Init, Free, NoRow
<1>2. \A w \in Worker : req[w].op # "event"
  BY DEF Init, Idle
<1>3. EventsTrue
  BY <1>1 DEF Init, EventsTrue
<1>4. CalmInv
  BY <1>1, <1>2 DEF CalmInv, NewestIsCurrent, EndIsToldLater, EndIsTold, OldestHandled
<1>5. QED
  BY <1>1, <1>3, <1>4 DEF OrderInv

LEMMA StepOrder == IInv /\ OrderInv /\ [Next]_vars => OrderInv'
<1> SUFFICES ASSUME IInv, OrderInv, [Next]_vars PROVE OrderInv'
  OBVIOUS
<1>1. CASE GetOrCreateFree
  BY <1>1, CreateRowOrder
<1>2. ASSUME NEW s \in Sub,
             \/ PortalCancelAtEnd(s) \/ PeriodEnds(s)
             \/ \E st \in Live : CustomerSubscribes(s, st) \/ PaymentStatus(s, st)
             \/ \E p \in Plan : PortalPlan(s, p)
      PROVE  OrderInv'
  <2>1. UNCHANGED <<row, req>> /\ \E type, new : Emit(type, s, new) /\ Truthful(type, s, new)
    BY <1>2, StripeStep
  <2>2. QED
    BY <2>1, EmitOrder
<1>3. ASSUME NEW s \in Sub, NEW p \in Plan, CreateCheckout(s, p)
      PROVE  OrderInv'
  BY <1>3, CheckoutOrder
<1>4. ASSUME NEW w \in Worker,
             ReactivateSubscription(w) \/ \E now \in BOOLEAN : CancelSubscription(w, now)
      PROVE  OrderInv'
  <2>1. /\ row' = row
        /\ req'[w].op \in {"cancel", "reactivate"}
        /\ \A v \in Worker \ {w} : req'[v] = req[v]
        /\ row.sub = None => UNCHANGED stripe
        /\ row.sub # None =>
             /\ row.sub \in Sub
             /\ \E type, new : Emit(type, row.sub, new) /\ Truthful(type, row.sub, new)
    BY <1>4, CallStep
  <2>2. \A v \in Worker : req'[v].op = "event" => req'[v] = req[v]
    BY <2>1
  <2>3. CASE row.sub # None
    <3>1. PICK s \in Sub : \E type, new : Emit(type, s, new) /\ Truthful(type, s, new)
      BY <2>1, <2>3
    <3>2. QED
      BY <2>1, <2>2, <3>1, EmitOrder
  <2>4. CASE row.sub = None
    <3>1. UNCHANGED <<row, sub, events, emitted>>
      BY <2>1, <2>4 DEF stripe
    <3>2. EventsTrue'
      BY <3>1, FewerEvents
    <3>3. CalmInv => CalmInv'
      <4>1. NewestIsCurrent => NewestIsCurrent'
        BY <3>1 DEF NewestIsCurrent, Pending
      <4>2. EndIsToldLater => EndIsToldLater'
        BY <3>1 DEF EndIsToldLater, Pending, IsLive
      <4>3. EndIsTold'
        BY <2>4, <3>1 DEF EndIsTold
      <4>4. OldestHandled => OldestHandled'
        BY <2>2, <3>1 DEF OldestHandled, Matches
      <4>5. QED
        BY <4>1, <4>2, <4>3, <4>4 DEF CalmInv
    <3>4. QED
      BY <3>1, <3>2, <3>3 DEF OrderInv
  <2>5. QED
    BY <2>3, <2>4
<1>5. ASSUME NEW w \in Worker, NEW e \in events, BeginEvent(w, e)
      PROVE  OrderInv'
  BY <1>5, BeginOrder
<1>6. ASSUME NEW w \in Worker, Finish(w)
      PROVE  OrderInv'
  BY <1>6, FinishOrder
<1>7. ASSUME NEW e \in events, EventUnmatched(e)
      PROVE  OrderInv'
  BY <1>7, UnmatchedOrder
<1>8. CASE UNCHANGED vars
  BY <1>8 DEF vars, OrderInv, EventsTrue, CalmInv, NewestIsCurrent, EndIsToldLater,
              EndIsTold, OldestHandled, Pending, IsLive, Matches
<1>9. CASE AdminNext
  BY <1>9, AdminOrder
<1>10. QED
  BY <1>1, <1>2, <1>3, <1>4, <1>5, <1>6, <1>7, <1>8, <1>9 DEF Next, SystemNext

\* For any number of subscriptions, plans and requests, whatever requests race, as
\* long as events arrive in order and none is lost: when nothing is under way, the
\* subscription linked to the row has not ended at Stripe (the webhook's
\* link_stripe_subscription and downgrade_to_free).
THEOREM LinkedLive == Spec => []LinkedIsLive
<1>1. Init => IInv /\ OrderInv
  BY InitHolds, InitOrder
<1>2. IInv /\ OrderInv /\ [Next]_vars => (IInv /\ OrderInv)'
  BY StepKeeps, StepOrder
<1>3. OrderInv => LinkedIsLive
  BY DEF OrderInv, CalmInv, EndIsTold, LinkedIsLive, Quiet, Pending
<1>4. QED
  BY <1>1, <1>2, <1>3, PTL DEF Spec

-------------------------------------------------------------------------------
(* One request at a time *)

\* No two requests overlap after a step that lets no history be raced.
LEMMA Alone ==
    ASSUME MCNext, ~raced'
    PROVE  ~raced /\ ~Overlap'
BY DEF MCNext

\* The request that ends was the only one.
LEMMA OthersIdle ==
    ASSUME ~Overlap, NEW w \in Worker, req[w] # Idle
    PROVE  \A v \in Worker \ {w} : req[v] = Idle
BY DEF Overlap

LEMMA LinkedStep ==
    ASSUME IInv, OrderInv, Calm, Provisioned, LiveIsLinked, OnlyOne,
           NEW w \in Worker, CommitEvent(w)
    PROVE  LiveIsLinked'
<1>1. PICK e : e = req[w].event
  OBVIOUS
<1>2. /\ req[w].op = "event" /\ UNCHANGED <<sub, emitted>> /\ events' = events \ {e}
  BY <1>1 DEF CommitEvent, Acknowledge
<1>3. row' = CASE e.type = "created" -> Linked(row, e)
               [] e.type = "updated" -> Updated(row, e)
               [] e.type = "deleted" -> DowngradedToFree(row)
  BY <1>1 DEF CommitEvent
<1>4. e.type \in EventType /\ e.s \in Sub /\ row \in Row
  BY <1>1, <1>2, RequestFields DEF IInv, TypeOK, Event
<1>5. row'.sub = IF e.type = "created" THEN e.s
                 ELSE IF e.type = "updated" THEN row.sub ELSE None
  BY <1>3, <1>4 DEF EventType, Row, Linked, Updated, DowngradedToFree, Free
<1>6. e \in events /\ (e.type = "deleted" => sub[e.s].state = "ended")
      /\ sub[e.s].state # "none"
  BY <1>1, <1>2 DEF OrderInv, CalmInv, OldestHandled, EventsTrue, IsLive, Live
<1>7. SUFFICES ASSUME NEW t \in Sub, IsLive(t), row'.sub # t
               PROVE  \E d \in Pending(t)' : d.type = "created"
  BY <1>2 DEF LiveIsLinked, IsLive
<1>8. t = e.s
  BY <1>4, <1>6, <1>7 DEF OnlyOne, IsLive, Live
<1>9. e.type = "updated"
  BY <1>4, <1>5, <1>6, <1>7, <1>8 DEF EventType, IsLive, Live
<1>10. PICK d \in Pending(t) : d.type = "created"
  BY <1>5, <1>7, <1>9 DEF LiveIsLinked
<1>11. d \in Pending(t)'
  BY <1>2, <1>9, <1>10 DEF Pending
<1>12. QED
  BY <1>10, <1>11

\* The row takes over what the newest event says.
LEMMA MirroredStep ==
    ASSUME IInv, OrderInv, Calm, Mirrored, NEW w \in Worker, CommitEvent(w)
    PROVE  Mirrored'
<1>1. PICK e : e = req[w].event
  OBVIOUS
<1>2. /\ req[w].op = "event" /\ UNCHANGED <<sub, emitted>> /\ events' = events \ {e}
  BY <1>1 DEF CommitEvent, Acknowledge
<1>3. row' = CASE e.type = "created" -> Linked(row, e)
               [] e.type = "updated" -> Updated(row, e)
               [] e.type = "deleted" -> DowngradedToFree(row)
  BY <1>1 DEF CommitEvent
<1>4. e.type \in EventType /\ e.s \in Sub /\ row \in Row
  BY <1>1, <1>2, RequestFields DEF IInv, TypeOK, Event
<1>5. e \in events /\ Matches(e) /\ e.n \in Nat
  BY <1>1, <1>2, EventTypes DEF OrderInv, CalmInv, OldestHandled
<1>6. e.type = "deleted" => row'.sub = None
  BY <1>3, <1>4 DEF EventType, DowngradedToFree, Free
<1>7. ASSUME e.type # "deleted"
      PROVE  /\ row'.sub = e.s /\ row'.status = e.snapshot.state
             /\ row'.price = e.snapshot.price
             /\ e.type = "updated" => row'.cancelAtEnd = e.snapshot.cancelAtEnd
  BY <1>3, <1>4, <1>5, <1>7 DEF EventType, Row, Linked, Updated, Matches
<1>8. SUFFICES ASSUME e.type # "deleted", \A d \in events' : d.s # e.s
               PROVE  /\ row'.status = sub[e.s].state /\ row'.price = sub[e.s].price
                      /\ sub[e.s].cancelAtEnd => row'.cancelAtEnd
  BY <1>2, <1>6, <1>7 DEF Mirrored, Pending
<1>9. e.snapshot = sub[e.s]
  BY <1>2, <1>5, <1>8 DEF OrderInv, CalmInv, NewestIsCurrent, Pending
<1>10. e.type = "created" => ~e.snapshot.cancelAtEnd
  BY <1>5 DEF OrderInv, EventsTrue
<1>11. QED
  BY <1>4, <1>7, <1>8, <1>9, <1>10 DEF EventType

\* What one kind of step must keep of MirrorInv.
Serial == ~Overlap /\ Mirrored /\ CallIsTold
MirrorKept == /\ (OnlyOne => LiveIsLinked) /\ OnlyOne' => LiveIsLinked'
              /\ Serial /\ ~Overlap' => Mirrored' /\ CallIsTold'

\* Stripe's own steps.
LEMMA StripeMirror ==
    ASSUME IInv, OrderInv, NEW s \in Sub, UNCHANGED <<row, req>>,
           NEW type, NEW new, Emit(type, s, new), Truthful(type, s, new),
           overridden \subseteq overridden'
    PROVE  MirrorKept
<1>1. /\ OnlyOne' => OnlyOne
      /\ LiveIsLinked => LiveIsLinked'
      /\ Mirrored => Mirrored'
      /\ \A t \in Sub : Pending(t) # {} \/ t = s => Pending(t)' # {}
  BY EmitMirror
<1>2. row.sub # None => row.sub \in Sub
  BY DEF IInv, TypeOK, Row
<1>3. CallIsTold => CallIsTold'
  BY <1>1, <1>2 DEF CallIsTold, Pending
<1>4. QED
  BY <1>1, <1>3 DEF MirrorKept, Serial

\* What a cancellation or reactivation asks of Stripe is told by the event it emits.
LEMMA CallMirror ==
    ASSUME IInv, OrderInv, NEW w \in Worker, overridden \subseteq overridden',
           ReactivateSubscription(w) \/ \E now \in BOOLEAN : CancelSubscription(w, now)
    PROVE  MirrorKept
<1>1. /\ row' = row
      /\ req'[w].op \in {"cancel", "reactivate"} /\ req'[w].s = row.sub
      /\ \A v \in Worker \ {w} : req'[v] = req[v]
      /\ row.sub = None => UNCHANGED stripe
      /\ row.sub # None =>
           /\ row.sub \in Sub
           /\ \E type, new : Emit(type, row.sub, new) /\ Truthful(type, row.sub, new)
  BY CallStep
<1>2. ASSUME ~Overlap', NEW v \in Worker, v # w
      PROVE  req'[v] = Idle
  <2>1. req'[w] # Idle
    BY <1>1 DEF Idle
  <2>2. QED
    BY <1>2, <2>1 DEF Overlap
<1>3. CASE row.sub = None
  <2>1. UNCHANGED <<row, sub, events>>
    BY <1>1, <1>3 DEF stripe
  <2>2. (OnlyOne => LiveIsLinked) /\ OnlyOne' => LiveIsLinked'
    BY <2>1 DEF OnlyOne, LiveIsLinked, Pending, IsLive
  <2>3. Mirrored'
    BY <1>1, <1>3 DEF Mirrored
  <2>4. ~Overlap' => CallIsTold'
    BY <1>1, <1>2, <1>3 DEF CallIsTold, Idle
  <2>5. QED
    BY <2>2, <2>3, <2>4 DEF MirrorKept
<1>4. CASE row.sub # None
  <2>1. PICK s, type, new : /\ s = row.sub /\ s \in Sub
                            /\ Emit(type, s, new) /\ Truthful(type, s, new)
    BY <1>1, <1>4
  <2>2. /\ OnlyOne' => OnlyOne
        /\ LiveIsLinked => LiveIsLinked'
        /\ Mirrored => Mirrored'
        /\ Pending(s)' # {}
    BY <1>1, <2>1, EmitMirror
  <2>3. ~Overlap' => CallIsTold'
    BY <1>1, <1>2, <2>1, <2>2 DEF CallIsTold, Idle, Pending
  <2>4. QED
    BY <2>2, <2>3 DEF MirrorKept, Serial
<1>5. QED
  BY <1>3, <1>4

\* A call that has been made, or has failed after Stripe was called, is still to be
\* told; a webhook has told what it commits.
LEMMA FinishMirror ==
    ASSUME IInv, OrderInv, Calm, Provisioned, NEW w \in Worker, Finish(w)
    PROVE  MirrorKept
<1>1. req[w] # Idle /\ req' = [req EXCEPT ![w] = Idle] /\ sub' = sub
  BY DEF Finish, CommitCancel, CommitReactivate, Abort, CommitEvent, FailEvent, Idle, stripe
<1>2. /\ req'[w].op = "idle"
      /\ \A v \in Worker \ {w} : req'[v] = req[v]
  BY <1>1 DEF IInv, TypeOK, Idle
<1>3. OnlyOne' => OnlyOne
  BY <1>1 DEF OnlyOne
<1>4. CASE CommitEvent(w)
  <2>1. OnlyOne /\ LiveIsLinked => LiveIsLinked'
    BY <1>4, LinkedStep
  <2>2. Mirrored => Mirrored'
    BY <1>4, MirroredStep
  <2>3. ~Overlap => CallIsTold'
    <3>1. ~Overlap => \A v \in Worker \ {w} : req'[v] = Idle
      BY <1>1, <1>2, OthersIdle
    <3>2. Idle.op = "idle"
      BY DEF Idle
    <3>3. QED
      BY <1>2, <3>1, <3>2 DEF CallIsTold
  <2>4. QED
    BY <1>3, <2>1, <2>2, <2>3 DEF MirrorKept, Serial
<1>5. CASE CommitCancel(w) \/ CommitReactivate(w) \/ Abort(w)
  <2>1. row'.sub = row.sub /\ events' = events
    BY <1>5 DEF CommitCancel, CommitReactivate, Abort, stripe, IInv, TypeOK, Row
  <2>2. LiveIsLinked => LiveIsLinked'
    BY <1>1, <2>1 DEF LiveIsLinked, Pending, IsLive
  <2>3. ASSUME CallIsTold
        PROVE  Mirrored'
    <3>1. req[w].op \in {"cancel", "reactivate"}
      BY <1>5 DEF CommitCancel, CommitReactivate, Abort
    <3>2. row.sub # None => Pending(row.sub) # {}
      BY <2>3, <3>1 DEF CallIsTold
    <3>3. QED
      BY <2>1, <3>2 DEF Mirrored, Pending
  <2>4. CallIsTold => CallIsTold'
    BY <1>2, <2>1 DEF CallIsTold, Pending
  <2>5. QED
    BY <1>3, <2>2, <2>3, <2>4 DEF MirrorKept, Serial
<1>6. QED
  BY <1>4, <1>5 DEF Finish, FailEvent

\* An administrator sets a status that then counts as overridden.
LEMMA AdminMirror ==
    ASSUME IInv, NEW p \in AdminPlan \cup {None}, NEW st \in AdminStatus \cup {None},
           AdminUpdateSubscription(p, st), overridden' = overridden \cup Given(p, st)
    PROVE  MirrorKept
<1>1. /\ UNCHANGED <<req, sub, events>>
      /\ row'.sub = row.sub /\ row'.price = row.price
      /\ row'.cancelAtEnd = row.cancelAtEnd
      /\ st = None => row'.status = row.status
  BY AdminLink
<1>2. overridden \subseteq overridden' /\ (st # None => "status" \in overridden')
  BY DEF Given
<1>3. (OnlyOne => LiveIsLinked) /\ OnlyOne' => LiveIsLinked'
  BY <1>1 DEF OnlyOne, LiveIsLinked, Pending, IsLive
<1>4. Mirrored => Mirrored'
  BY <1>1, <1>2 DEF Mirrored, Pending
<1>5. CallIsTold => CallIsTold'
  BY <1>1 DEF CallIsTold, Pending
<1>6. QED
  BY <1>3, <1>4, <1>5 DEF MirrorKept, Serial

LEMMA StepMirror ==
    ASSUME IInv, OrderInv, Calm, Provisioned, SystemNext,
           overridden \subseteq overridden'
    PROVE  MirrorKept
<1>1. CASE GetOrCreateFree
  BY <1>1 DEF GetOrCreateFree, OrderInv
<1>2. ASSUME NEW s \in Sub,
             \/ PortalCancelAtEnd(s) \/ PeriodEnds(s)
             \/ \E st \in Live : CustomerSubscribes(s, st) \/ PaymentStatus(s, st)
             \/ \E p \in Plan : PortalPlan(s, p)
      PROVE  MirrorKept
  BY <1>2, StripeStep, StripeMirror
<1>3. ASSUME NEW s \in Sub, NEW p \in Plan, CreateCheckout(s, p)
      PROVE  MirrorKept
  <2>1. /\ UNCHANGED <<row, req, events>> /\ sub[s].state = "none" /\ sub'[s].state = "open"
        /\ \A t \in Sub \ {s} : sub'[t] = sub[t]
    BY <1>3 DEF CreateCheckout, IInv, TypeOK, StripeSub
  <2>2. OnlyOne' => OnlyOne
    BY <2>1 DEF OnlyOne
  <2>3. LiveIsLinked => LiveIsLinked'
    BY <2>1 DEF LiveIsLinked, Pending, IsLive, Live
  <2>4. row.sub # None => row.sub \in Sub /\ row.sub # s
    BY <2>1, EventTypes
       DEF OrderInv, CalmInv, EndIsTold, EventsTrue, IInv, TypeOK, Row, Pending, IsLive, Live
  <2>5. Mirrored => Mirrored'
    BY <2>1, <2>4 DEF Mirrored, Pending
  <2>6. CallIsTold => CallIsTold'
    BY <2>1 DEF CallIsTold, Pending
  <2>7. QED
    BY <2>2, <2>3, <2>5, <2>6 DEF MirrorKept, Serial
<1>4. ASSUME NEW w \in Worker,
             ReactivateSubscription(w) \/ \E now \in BOOLEAN : CancelSubscription(w, now)
      PROVE  MirrorKept
  BY <1>4, CallMirror
<1>5. ASSUME NEW w \in Worker, NEW e \in events, BeginEvent(w, e)
      PROVE  MirrorKept
  <2>1. /\ UNCHANGED <<row, sub, events>>
        /\ req'[w].op = "event" /\ \A v \in Worker \ {w} : req'[v] = req[v]
    BY <1>5 DEF BeginEvent, Hold, stripe, IInv, TypeOK
  <2>2. (OnlyOne => LiveIsLinked) /\ OnlyOne' => LiveIsLinked'
    BY <2>1 DEF OnlyOne, LiveIsLinked, Pending, IsLive
  <2>3. Mirrored => Mirrored'
    BY <2>1 DEF Mirrored, Pending
  <2>4. CallIsTold => CallIsTold'
    BY <2>1 DEF CallIsTold, Pending
  <2>5. QED
    BY <2>2, <2>3, <2>4 DEF MirrorKept, Serial
<1>6. ASSUME NEW w \in Worker, Finish(w)
      PROVE  MirrorKept
  BY <1>6, FinishMirror
<1>7. ASSUME NEW e \in events, EventUnmatched(e)
      PROVE  MirrorKept
  <2>1. UNCHANGED <<row, req, sub>> /\ events' = events \ {e}
    BY <1>7 DEF EventUnmatched
  <2>2. e.type # "created" /\ row.sub # e.s
    BY <1>7 DEF EventUnmatched, Matches, OrderInv
  <2>3. (OnlyOne => LiveIsLinked) /\ OnlyOne' => LiveIsLinked'
    BY <2>1, <2>2 DEF OnlyOne, LiveIsLinked, Pending, IsLive
  <2>4. Mirrored => Mirrored'
    BY <2>1, <2>2 DEF Mirrored, Pending
  <2>5. CallIsTold => CallIsTold'
    BY <2>1, <2>2 DEF CallIsTold, Pending
  <2>6. QED
    BY <2>3, <2>4, <2>5 DEF MirrorKept, Serial
<1>8. QED
  BY <1>1, <1>2, <1>3, <1>4, <1>5, <1>6, <1>7 DEF SystemNext

LEMMA InitMirror == MCInit => MirrorInv
<1> SUFFICES ASSUME MCInit PROVE MirrorInv
  OBVIOUS
<1>1. OrderInv
  BY InitOrder DEF MCInit
<1>2. \A w \in Worker : req[w] = Idle
  BY DEF MCInit, Init
<1>3. row.sub = None /\ \A s \in Sub : ~IsLive(s)
  BY DEF MCInit, Init, Free, NoRow, IsLive, Live
<1>4. LiveIsLinked /\ Mirrored
  BY <1>3 DEF LiveIsLinked, Mirrored
<1>5. CallIsTold /\ ~Overlap
  <2>1. Idle.op = "idle"
    BY DEF Idle
  <2>2. QED
    BY <1>2, <2>1 DEF CallIsTold, Overlap
<1>6. QED
  BY <1>1, <1>4, <1>5 DEF MirrorInv

LEMMA StepMirrorInv == IInv /\ MirrorInv /\ [MCNext]_mcvars => MirrorInv'
<1> SUFFICES ASSUME IInv, MirrorInv, [MCNext]_mcvars PROVE MirrorInv'
  OBVIOUS
<1>1. CASE MCNext
  <2>1. OrderInv'
    BY <1>1, StepOrder, MCSteps DEF MirrorInv
  <2>2. ASSUME Calm, Provisioned
        PROVE  /\ OnlyOne' => LiveIsLinked'
               /\ raced' \/ (~Overlap' /\ Mirrored' /\ CallIsTold')
    <3>1. MirrorKept
      <4>1. ASSUME NEW w \in Worker, CommitEvent(w)
            PROVE  MirrorKept
        BY <2>2, <4>1, FinishMirror DEF Finish, MirrorInv
      <4>2. CASE SystemNext /\ ~\E w \in Worker : CommitEvent(w)
        BY <1>1, <2>2, <4>2, Overriding, StepMirror DEF MirrorInv
      <4>3. CASE \E p \in AdminPlan \cup {None}, st \in AdminStatus \cup {None} :
                   /\ AdminUpdateSubscription(p, st)
                   /\ overridden' = overridden \cup Given(p, st)
        BY <4>3, AdminMirror
      <4>4. QED
        BY <1>1, <4>1, <4>2, <4>3 DEF MCNext
    <3>2. OnlyOne' => LiveIsLinked'
      BY <2>2, <3>1 DEF MirrorKept, MirrorInv
    <3>3. ASSUME ~raced'
          PROVE  ~Overlap' /\ Mirrored' /\ CallIsTold'
      <4>1. ~raced /\ ~Overlap'
        BY <1>1, <3>3, Alone
      <4>2. Serial
        BY <2>2, <4>1 DEF MirrorInv, Serial
      <4>3. QED
        BY <3>1, <4>1, <4>2 DEF MirrorKept
    <3>4. QED
      BY <3>2, <3>3
  <2>3. QED
    BY <2>1, <2>2 DEF MirrorInv
<1>2. CASE UNCHANGED mcvars
  <2>1. OrderInv'
    BY <1>2, StepOrder, MCSteps DEF MirrorInv
  <2>2. UNCHANGED <<row, req, sub, events, raced, overridden>>
    BY <1>2 DEF mcvars, vars
  <2>3. (OnlyOne => LiveIsLinked) => (OnlyOne' => LiveIsLinked')
    BY <2>2 DEF OnlyOne, LiveIsLinked, Pending, IsLive
  <2>4. (Mirrored => Mirrored') /\ (CallIsTold => CallIsTold') /\ (~Overlap => ~Overlap')
    BY <2>2 DEF Mirrored, CallIsTold, Overlap, Pending
  <2>5. QED
    BY <2>1, <2>2, <2>3, <2>4 DEF MirrorInv
<1>3. QED
  BY <1>1, <1>2

\* For any number of plans and events: one request at a time, with events in order
\* and one subscription, the row mirrors Stripe when nothing is under way (cancel,
\* reactivate and the webhook's three updates).
THEOREM Mirrors == MCSpec => []MirrorsUnlessRaced
<1>1. MCInit => IInv /\ MirrorInv
  BY InitHolds, InitMirror DEF MCInit
<1>2. IInv /\ MirrorInv /\ [MCNext]_mcvars => (IInv /\ MirrorInv)'
  BY MCSteps, StepKeeps, StepMirrorInv
<1>3. MirrorInv => MirrorsUnlessRaced
  BY DEF MirrorInv, MirrorsUnlessRaced, LiveIsLinked, Mirrored, Quiet, Pending
<1>4. QED
  BY <1>1, <1>2, <1>3, PTL DEF MCSpec
===============================================================================
