----------------------------- MODULE Announcements -----------------------------
(***************************************************************************)
(* Announcements to an organization and what their readers did with them:     *)
(* services/announcement_service.py over dao/announcement.py, one call of the *)
(* service per transaction.  Its constructor raises at this commit, and the   *)
(* administrators' handlers call an audit method that does not exist.  Who    *)
(* sees an announcement only selects rows to show and is left out.            *)
(***************************************************************************)
EXTENDS Requests

CONSTANTS
    Person,     \* readers
    Content     \* texts an announcement can have

-------------------------------------------------------------------------------
(* Tables; what a reader did is named by <<announcement, user>>, which is unique *)

AnnouncementStatus == {"draft", "scheduled", "active", "expired", "archived"}
Time == {None, "past", "later"}     \* of publish_at and expire_at, against the clock

Announcement ==
    [status : AnnouncementStatus, content : Content, publish_at : Time, expire_at : Time,
     is_dismissible : BOOLEAN, require_acknowledgment : BOOLEAN]
AnnouncementRead == [is_acknowledged : BOOLEAN, is_dismissed : BOOLEAN]

\* create_announcement, in the service and in the DAO
NewAnnouncement(content, publish, expire, dismissible, acknowledge) ==
    [status |-> IF publish = "later" THEN "scheduled" ELSE "draft",
     content |-> content, publish_at |-> publish, expire_at |-> expire,
     is_dismissible |-> dismissible, require_acknowledgment |-> acknowledge]

CreateAnnouncement(w, row) ==
    HoldNew(w, [announcements |-> [a \in {seq} |-> Insert(row)]])

-------------------------------------------------------------------------------
(* Administration *)

Exists(a) == a \in DOMAIN db.announcements

Write(w, a, cols) ==
    Hold(w, [announcements |-> [i \in {a} |-> Assign(db.announcements[a], cols)]])

Editable_Active(a) == db.announcements[a].status # "archived"   \* mutant: also when published
Editable(a) == db.announcements[a].status \in {"draft", "scheduled"}

\* Fields given as None are left alone; the status does not follow publish_at.
UpdateAnnouncement(w, a, cols) ==
    Exists(a) /\ Editable(a) /\ Write(w, a, cols)

Deletable_Active(a) == TRUE         \* mutant: active announcements too
Deletable(a) == db.announcements[a].status # "active"

DeleteAnnouncement(w, a) ==
    Exists(a) /\ Deletable(a) /\ Hold(w, [announcements |-> [i \in {a} |-> Delete]])

Published == [status |-> "active"]

PublishAnnouncement(w, a) ==
    /\ Exists(a) /\ db.announcements[a].status \in {"draft", "scheduled"}
    /\ Write(w, a, Published)

Archived == [status |-> "archived"]

ArchiveAnnouncement(w, a) == Exists(a) /\ Write(w, a, Archived)

\* The two periodic UPDATEs, which nothing in the code calls.
Due == {a \in DOMAIN db.announcements :
           db.announcements[a].status = "scheduled" /\ db.announcements[a].publish_at = "past"}

UpdateScheduled(w) ==
    Due # {} /\ Hold(w, [announcements |-> Each(Due, Update([status |-> "active"]))])

Over == {a \in DOMAIN db.announcements :
            db.announcements[a].status = "active" /\ db.announcements[a].expire_at = "past"}

ExpireOld(w) ==
    Over # {} /\ Hold(w, [announcements |-> Each(Over, Update([status |-> "expired"]))])

-------------------------------------------------------------------------------
(* Readers *)

\* The reader's row is made if it is missing, and the columns are set.
Marked(a, p, cols) ==
    LET blank == [is_acknowledged |-> FALSE, is_dismissed |-> FALSE]
    IN  [reads |-> [k \in {<<a, p>>} |->
            IF k \in DOMAIN db.reads THEN Assign(db.reads[k], cols)
            ELSE Insert([c \in DOMAIN blank |-> IF c \in DOMAIN cols THEN cols[c] ELSE blank[c]])]]

NoColumns == [c \in {} |-> None]

MarkedRead(a, p) == Marked(a, p, NoColumns)

MarkRead(w, a, p) == Exists(a) /\ Hold(w, MarkedRead(a, p))

Acknowledged(a, p) == Marked(a, p, [is_acknowledged |-> TRUE])

Acknowledge(w, a, p) ==
    /\ Exists(a) /\ db.announcements[a].require_acknowledgment
    /\ Hold(w, Acknowledged(a, p))

Dismiss(w, a, p) ==
    /\ Exists(a) /\ db.announcements[a].is_dismissible
    /\ Hold(w, Marked(a, p, [is_dismissed |-> TRUE]))

-------------------------------------------------------------------------------
\* The clock passes a publish or an expiry time; an update may have put either first.
Pass(a, time) ==
    /\ Exists(a) /\ db.announcements[a][time] = "later"
    /\ db' = [db EXCEPT !.announcements[a][time] = "past"]
    /\ UNCHANGED <<seq, req>>

\* What its readers did goes with an announcement (ON DELETE CASCADE).
CommitAnnouncements(w) ==
    /\ ~Free(w)
    /\ LET all == AfterAll(req[w])
           kept == {k \in DOMAIN all.reads : k[1] \in DOMAIN all.announcements}
       IN  /\ DOMAIN all.reads \ kept \subseteq DOMAIN db.reads
           /\ CommitAs(w, [all EXCEPT !.reads = [k \in kept |-> all.reads[k]]])

Init == Start({"announcements", "reads"})

Create(w) ==
    \E c \in Content, publish, expire \in {None, "later"}, b, e \in BOOLEAN :
        CreateAnnouncement(w, NewAnnouncement(c, publish, expire, b, e))

Administer(w) ==
    \E a \in 1..MaxId :
        \/ \E c \in Content : UpdateAnnouncement(w, a, [content |-> c])
        \/ UpdateAnnouncement(w, a, [publish_at |-> "later"])
        \/ DeleteAnnouncement(w, a) \/ PublishAnnouncement(w, a) \/ ArchiveAnnouncement(w, a)

Read(w) ==
    \E a \in 1..MaxId, p \in Person : MarkRead(w, a, p) \/ Acknowledge(w, a, p) \/ Dismiss(w, a, p)

Next ==
    \/ \E w \in Worker :
           \/ Create(w) \/ Administer(w) \/ Read(w)
           \/ UpdateScheduled(w) \/ ExpireOld(w)
           \/ CommitAnnouncements(w) \/ Rollback(w)
    \/ \E a \in 1..MaxId, time \in {"publish_at", "expire_at"} : Pass(a, time)

Spec == Init /\ [][Next]_dbvars

-------------------------------------------------------------------------------
(* Properties *)

\* Rows have their column types; what a reader did belongs to an announcement.
TypeOK ==
    /\ \A a \in DOMAIN db.announcements : a \in 1..MaxId /\ db.announcements[a] \in Announcement
    /\ \A k \in DOMAIN db.reads :
           k[1] \in DOMAIN db.announcements /\ k[2] \in Person /\ db.reads[k] \in AnnouncementRead

\* An announcement that has been published keeps its text, is not removed while it
\* is active, and does not come back once expired or archived (update, delete and
\* publish_announcement).  Two requests that overlap break it.
PublishedStep ==
    \A a \in DOMAIN db.announcements :
        LET row == db.announcements[a]
        IN  row.status \notin {"draft", "scheduled"} =>
                /\ row.status = "active" => a \in DOMAIN db'.announcements
                /\ a \in DOMAIN db'.announcements =>
                       /\ db'.announcements[a].content = row.content
                       /\ db'.announcements[a].status = "active" => row.status = "active"
PublishedStays == [][PublishedStep]_dbvars
=================================================================================
