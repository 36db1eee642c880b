-------------------------------- MODULE Messages --------------------------------
(***************************************************************************)
(* Conversations: services/message_service.py over dao/message.py, one call   *)
(* of the service per request.  (At this commit the service's constructor     *)
(* raises, so no handler of api/messages.py gets that far.)                   *)
(*                                                                          *)
(* A participant is named by <<conversation, user>>, which is unique.         *)
(***************************************************************************)
EXTENDS Requests

CONSTANTS
    Person,             \* users of the organization
    MaxConversations    \* bound on the conversations created

-------------------------------------------------------------------------------
(* Tables *)

\* "entity" stands for the conversation of a project or a ticket.
ConversationType == {"direct", "group", "entity"}

Conversation == [type : ConversationType, is_archived : BOOLEAN]

\* last_read_at: the newest message there was when the conversation was read.
ConversationParticipant ==
    [is_admin : BOOLEAN, left : BOOLEAN, unread_count : 0..MaxId, last_read_at : 0..MaxId]
Message ==
    [conversation : 1..MaxId, sender : Person, is_system : BOOLEAN, is_deleted : BOOLEAN]

Row(key, write) == [k \in {key} |-> write]

Member(c, u) == <<c, u>> \in DOMAIN db.participants
IsParticipant(c, u) == Member(c, u) /\ ~db.participants[<<c, u>>].left
IsAdmin(c, u) == IsParticipant(c, u) /\ db.participants[<<c, u>>].is_admin

NewParticipant(admin) ==
    Insert([is_admin |-> admin, left |-> FALSE, unread_count |-> 0, last_read_at |-> 0])

-------------------------------------------------------------------------------
(* Conversations *)

Direct(u, v) ==
    {c \in DOMAIN db.conversations :
        db.conversations[c].type = "direct" /\ Member(c, u) /\ Member(c, v)}

ForEntity == {c \in DOMAIN db.conversations : db.conversations[c].type = "entity"}

NewConversation(type) == Insert([type |-> type, is_archived |-> FALSE])

Create(w, u, type, others) ==
    /\ Cardinality(DOMAIN db.conversations) < MaxConversations
    /\ HoldNew(w,
        [conversations |-> Row(seq, NewConversation(type)),
         participants |-> [p \in {seq} \X (others \cup {u}) |-> NewParticipant(p[2] = u)]])

\* A direct conversation may be created next to one with the same user.
CreateConversation(w, u, type, others) ==
    /\ type = "direct" => Cardinality(others) = 1
    /\ type = "entity" => ForEntity = {}
    /\ Create(w, u, type, others)

\* get_or_create_direct_conversation without a message; with several the query raises.
StartDirect(w, u, v) == u # v /\ Direct(u, v) = {} /\ Create(w, u, "direct", {v})

ArchiveConversation(w, c, u) ==
    /\ IsAdmin(c, u)
    /\ Hold(w, [conversations |-> Row(c, Assign(db.conversations[c], [is_archived |-> TRUE]))])

-------------------------------------------------------------------------------
(* Messages *)

NewMessage(c, u, system) ==
    Row(seq, Insert([conversation |-> c, sender |-> u, is_system |-> system,
                     is_deleted |-> FALSE]))

IncrementUnread_All(c, u) ==         \* mutant: those who left are counted for as well
    [p \in {q \in DOMAIN db.participants : q[1] = c} |-> Increase("unread_count")]
\* For every participant but the sender who has not left.
IncrementUnread(c, u) ==
    [p \in {q \in DOMAIN db.participants : q[1] = c /\ q[2] # u /\ IsParticipant(c, q[2])}
        |-> Increase("unread_count")]

SendMessage(w, c, u) ==
    /\ IsParticipant(c, u)
    /\ HoldNew(w, [messages |-> NewMessage(c, u, FALSE), participants |-> IncrementUnread(c, u)])

Own(m, u) == m \in DOMAIN db.messages /\ db.messages[m].sender = u

\* An edit changes the content of a message of one's own, which is left out here.
DeleteMessage(w, m, u) ==
    /\ Own(m, u)
    /\ Hold(w, [messages |-> Row(m, Assign(db.messages[m], [is_deleted |-> TRUE]))])

\* mark_conversation_read
MarkRead(w, c, u) ==
    /\ IsParticipant(c, u)
    /\ Hold(w, [participants |->
           Row(<<c, u>>, Update([unread_count |-> 0, last_read_at |-> seq - 1]))])

-------------------------------------------------------------------------------
(* Participants; the service reports their changes in a system message *)

\* Who has left joins again, with the rights and the unread count of before.
Joined(c, v) ==
    IF Member(c, v) THEN Assign(db.participants[<<c, v>>], [left |-> FALSE])
    ELSE NewParticipant(FALSE)

AddParticipant(w, c, u, v) ==
    /\ IsAdmin(c, u) /\ db.conversations[c].type # "direct"
    /\ HoldNew(w, [messages |-> NewMessage(c, u, TRUE),
                   participants |-> Row(<<c, v>>, Joined(c, v))])

MayRemove(c, u, v) == IsParticipant(c, u) /\ (u = v \/ IsAdmin(c, u))

RemoveParticipant(w, c, u, v) ==
    /\ MayRemove(c, u, v) /\ IsParticipant(c, v)
    /\ HoldNew(w, [messages |-> NewMessage(c, u, TRUE),
                   participants |-> Row(<<c, v>>, Update([left |-> TRUE]))])

-------------------------------------------------------------------------------
Init == Start({"conversations", "participants", "messages"})

Next ==
    \E w \in Worker :
        \/ \E u \in Person, type \in ConversationType, others \in SUBSET Person :
               CreateConversation(w, u, type, others)
        \/ \E u, v \in Person : StartDirect(w, u, v)
        \/ \E c \in 1..MaxId, u \in Person :
            \/ ArchiveConversation(w, c, u) \/ SendMessage(w, c, u) \/ MarkRead(w, c, u)
            \/ \E v \in Person : AddParticipant(w, c, u, v) \/ RemoveParticipant(w, c, u, v)
        \/ \E m \in 1..MaxId, u \in Person : DeleteMessage(w, m, u)
        \/ Commit(w) \/ Rollback(w)

Spec == Init /\ [][Next]_dbvars

-------------------------------------------------------------------------------
(* Properties *)

\* Rows have their column types, and refer to rows that exist.
TypeOK ==
    /\ \A c \in DOMAIN db.conversations : c \in 1..MaxId /\ db.conversations[c] \in Conversation
    /\ \A p \in DOMAIN db.participants :
           /\ p[1] \in DOMAIN db.conversations /\ p[2] \in Person
           /\ db.participants[p] \in ConversationParticipant
    /\ \A m \in DOMAIN db.messages :
           m \in 1..MaxId /\ db.messages[m] \in Message
               /\ Member(db.messages[m].conversation, db.messages[m].sender)

\* The messages of others that arrived after a participant last read.
Arrived(c, u) ==
    {m \in DOMAIN db.messages : LET row == db.messages[m] IN
        /\ row.conversation = c /\ row.sender # u /\ ~row.is_system
        /\ m > db.participants[<<c, u>>].last_read_at}

\* What a participant is told is unread has arrived since the conversation was read,
\* through leaving and joining again (increment_unread, mark_as_read).
UnreadArrived ==
    \A p \in DOMAIN db.participants :
        db.participants[p].unread_count <= Cardinality(Arrived(p[1], p[2]))
=================================================================================
