------------------------------ MODULE ActivityFeed ------------------------------
(***************************************************************************)
(* The activity feed: events about projects, tickets and the like, the users  *)
(* subscribed to them, and the pages in which feeds are read:                 *)
(* services/activity_service.py over dao/activity.py, one call of the service *)
(* per transaction.  Its constructor raises at this commit, so no handler     *)
(* reaches it.                                                                *)
(***************************************************************************)
EXTENDS Requests, Sequences

CONSTANTS
    Person,     \* users of the organization
    Entity      \* what events are about, by type and id

-------------------------------------------------------------------------------
(* Tables; a subscription is named by <<user, entity>>, which is unique *)

ActivityEvent ==
    [actor : Person, entity : Entity, parent : Entity \cup {None}, is_public : BOOLEAN]
ActivitySubscription == [in_app : BOOLEAN, email : BOOLEAN]

\* record_activity; the record_ operations for a ticket, a document, a project and a
\* workflow differ in the entity and in whether they have a parent.
CreateEvent(w, p, e, parent, public) ==
    HoldNew(w, [events |-> [i \in {seq} |->
        Insert([actor |-> p, entity |-> e, parent |-> parent, is_public |-> public])]])

RecordActivity(w, p, e, public) == CreateEvent(w, p, e, None, public)
RecordChildActivity(w, p, e, parent) == CreateEvent(w, p, e, parent, TRUE)

\* A second subscription to the same entity changes the first.
Subscribe(w, p, e, choice) ==
    Hold(w, [subscriptions |-> [s \in {<<p, e>>} |->
        IF s \in DOMAIN db.subscriptions
        THEN Assign(db.subscriptions[s], choice)
        ELSE Insert(choice)]])

Unsubscribe(w, p, e) ==
    /\ <<p, e>> \in DOMAIN db.subscriptions
    /\ Hold(w, [subscriptions |-> [s \in {<<p, e>>} |-> Delete]])

-------------------------------------------------------------------------------
(* Feeds, the newest event first *)

Newest(events) ==
    CHOOSE feed \in [1..Cardinality(events) -> events] :
        \A i, j \in DOMAIN feed : i < j => feed[i] > feed[j]

OrgFeed(include_private) ==
    Newest({i \in DOMAIN db.events : db.events[i].is_public \/ include_private})

EntityFeed(e, include_children) ==
    Newest({i \in DOMAIN db.events :
        db.events[i].entity = e \/ (include_children /\ db.events[i].parent = e)})

Subscribed(p) == {e \in Entity : <<p, e>> \in DOMAIN db.subscriptions}

\* A user without subscriptions reads of everything.
Relevant(p) == IF Subscribed(p) = {} THEN Entity ELSE Subscribed(p)

UserFeed(p, include_own) ==
    Newest({i \in DOMAIN db.events :
        /\ db.events[i].is_public /\ db.events[i].entity \in Relevant(p)
        /\ db.events[i].actor # p \/ include_own})

Feeds(p) ==
    {OrgFeed(b) : b \in BOOLEAN} \cup {UserFeed(p, b) : b \in BOOLEAN}
    \cup {EntityFeed(e, b) : e \in Entity, b \in BOOLEAN}

\* OFFSET skip LIMIT limit
Rows(feed, skip, limit) ==
    SubSeq(feed, skip + 1, IF skip + limit < Len(feed) THEN skip + limit ELSE Len(feed))

Page_NoExtra(feed, skip, limit) ==       \* mutant: only the rows of the page are read
    [items |-> Rows(feed, skip, limit), has_more |-> Len(Rows(feed, skip, limit)) > limit]
\* One row more than the page is read, to see whether there is one.
Page(feed, skip, limit) ==
    LET rows == Rows(feed, skip, limit + 1)
    IN  [items |-> SubSeq(rows, 1, IF Len(rows) > limit THEN limit ELSE Len(rows)),
         has_more |-> Len(rows) > limit]

-------------------------------------------------------------------------------
Init == Start({"events", "subscriptions"})

Record(w) ==
    \E p \in Person, e \in Entity :
        \/ \E b \in BOOLEAN : RecordActivity(w, p, e, b)
        \/ \E parent \in Entity : RecordChildActivity(w, p, e, parent)

\* SubscribeRequest
Follow(w) ==
    \E p \in Person, e \in Entity :
        Unsubscribe(w, p, e) \/ \E choice \in ActivitySubscription : Subscribe(w, p, e, choice)

Next == \E w \in Worker : Record(w) \/ Follow(w) \/ Commit(w) \/ Rollback(w)

Spec == Init /\ [][Next]_dbvars

-------------------------------------------------------------------------------
(* Properties *)

\* Rows have their column types.
TypeOK ==
    /\ \A i \in DOMAIN db.events : i \in 1..MaxId /\ db.events[i] \in ActivityEvent
    /\ DOMAIN db.subscriptions \subseteq Person \X Entity
    /\ \A s \in DOMAIN db.subscriptions : db.subscriptions[s] \in ActivitySubscription

\* A client that reads any feed page by page until has_more is false has read every
\* event of it once, in order (has_more of the service).
ReadAll(feed, limit) ==
    LET from[skip \in Nat] ==
            LET page == Page(feed, skip, limit)
            IN  page.items \o (IF page.has_more THEN from[skip + limit] ELSE <<>>)
    IN  from[0]

PagesCover ==
    \A p \in Person, limit \in 1..MaxId : \A feed \in Feeds(p) : ReadAll(feed, limit) = feed
=================================================================================
