---------------------------------- MODULE Push ----------------------------------
(***************************************************************************)
(* Push subscriptions: api/push.py over services/push_notification_service.py *)
(* and dao/push_subscription.py.                                              *)
(*                                                                          *)
(* A subscription is named by its endpoint, which is unique.  Deliveries      *)
(* count as failed only with pywebpush installed and a VAPID key set;         *)
(* without them a message is logged and counts as sent.                       *)
(***************************************************************************)
EXTENDS Requests

CONSTANTS
    Endpoint,   \* endpoints of browsers
    Person      \* users who subscribe

Limit == 3      \* failures in a row that deactivate a subscription

PushSubscription ==
    [user : Person, is_active : BOOLEAN, failed_count : Nat]

-------------------------------------------------------------------------------
\* get_by_endpoint
Known(e) == e \in DOMAIN db.subs

NewSubscription(u) == [user |-> u, is_active |-> TRUE, failed_count |-> 0]

Renewed_Inactive == [failed_count |-> 0]     \* mutant: is_active is not set again
\* An endpoint that is known is activated again.  It stays its first user's.
Renewed == [is_active |-> TRUE, failed_count |-> 0]

CreateOrUpdate(u, e) ==
    IF Known(e) THEN Assign(db.subs[e], Renewed) ELSE Insert(NewSubscription(u))

Subscribe(w, u, e) == Hold(w, [subs |-> Each({e}, CreateOrUpdate(u, e))])

\* Whose subscription it is does not matter.
Unsubscribe(w, e) == Known(e) /\ Hold(w, [subs |-> Each({e}, Delete)])

-------------------------------------------------------------------------------
\* get_user_subscriptions(active_only=True)
ActiveSubscriptions(u) ==
    {e \in DOMAIN db.subs : db.subs[e].user = u /\ db.subs[e].is_active}

Success == Update([failed_count |-> 0])

Failure_StaysActive(e) ==            \* mutant: failures never deactivate
    Update([failed_count |-> IF db.subs[e].failed_count < Limit
                             THEN db.subs[e].failed_count + 1 ELSE Limit])
\* record_failure.  The branch for a 410 answer is never taken: a response with an
\* error status is false.
Failure(e) ==
    LET n == db.subs[e].failed_count + 1 IN
    Assign(db.subs[e], [failed_count |-> n, is_active |-> n < Limit])

\* _send_notification to each; `failed` are those the push service refuses.
SendToUser(u, failed) ==
    [e \in ActiveSubscriptions(u) |-> IF e \in failed THEN Failure(e) ELSE Success]

TestNotification(w, u, failed) ==
    /\ ActiveSubscriptions(u) # {} /\ failed \subseteq ActiveSubscriptions(u)
    /\ Hold(w, [subs |-> SendToUser(u, failed)])

-------------------------------------------------------------------------------
Init == Start({"subs"})

Next ==
    \E w \in Worker :
        \/ \E e \in Endpoint : Unsubscribe(w, e) \/ \E u \in Person : Subscribe(w, u, e)
        \/ \E u \in Person, failed \in SUBSET Endpoint : TestNotification(w, u, failed)
        \/ Commit(w) \/ Rollback(w)

Spec == Init /\ [][Next]_dbvars

-------------------------------------------------------------------------------
(* Properties *)

TypeOK ==
    /\ DOMAIN db.subs \subseteq Endpoint
    /\ \A e \in DOMAIN db.subs : db.subs[e] \in PushSubscription

\* A subscription is sent to until it has failed three times in a row, and then not
\* until it is renewed (record_failure, create_or_update).
ActiveUntilThird ==
    \A e \in DOMAIN db.subs : db.subs[e].is_active <=> db.subs[e].failed_count < Limit
=================================================================================
