----------------------------- MODULE TicketComments -----------------------------
(***************************************************************************)
(* Comments, internal notes and attachments of support tickets, and the first *)
(* response that a comment counts as: the comment handlers of api/tickets.py  *)
(* over dao/ticket.py.  No handler attaches a file yet; the DAO that does is   *)
(* modelled as requests of its own.                                           *)
(*                                                                          *)
(* update_comment calls its DAO without the user and raises, so a comment is  *)
(* never edited.                                                              *)
(***************************************************************************)
EXTENDS Requests

CONSTANTS
    Person,     \* users of the organization
    Admin       \* those of them who have the role ADMIN

-------------------------------------------------------------------------------
(* Tables *)

Ticket == [created_by : Person, assigned_to : Person \cup {None}, responded : BOOLEAN]
TicketComment == [ticket : 1..MaxId, user : Person, is_internal : BOOLEAN]
TicketAttachment ==
    [ticket : 1..MaxId, comment : (1..MaxId) \cup {None}, uploaded_by : Person]

NewTicket(p) == [created_by |-> p, assigned_to |-> None, responded |-> FALSE]

CommentsOf(t) == {c \in DOMAIN db.comments : db.comments[c].ticket = t}
AttachmentsOf(t) == {a \in DOMAIN db.attachments : db.attachments[a].ticket = t}

-------------------------------------------------------------------------------
(* Tickets *)

CreateTicket(w, p) == HoldNew(w, [tickets |-> [t \in {seq} |-> Insert(NewTicket(p))]])

AssignTicket(w, p, t, q) ==
    /\ p \in Admin /\ t \in DOMAIN db.tickets
    /\ Hold(w, [tickets |-> [i \in {t} |-> Assign(db.tickets[t], [assigned_to |-> q])]])

\* The ORM deletes the comments and the attachments that it finds with the ticket.
DeleteTicket(w, p, t) ==
    /\ p \in Admin /\ t \in DOMAIN db.tickets
    /\ Hold(w, [tickets |-> [i \in {t} |-> Delete],
                comments |-> Each(CommentsOf(t), Delete),
                attachments |-> Each(AttachmentsOf(t), Delete)])

-------------------------------------------------------------------------------
(* Comments *)

MayComment(p, internal) == internal => p \in Admin

IsResponse_Assignee(t, p, internal) ==      \* mutant: only the assignee responds
    /\ p \in Admin /\ ~internal /\ ~db.tickets[t].responded
    /\ db.tickets[t].assigned_to = p /\ db.tickets[t].created_by # p
\* A public comment by an admin on another user's ticket.
IsResponse(t, p, internal) ==
    p \in Admin /\ ~internal /\ ~db.tickets[t].responded /\ db.tickets[t].created_by # p

\* record_first_response
FirstResponse(t) == [i \in {t} |-> Update([responded |-> TRUE])]

AddComment(w, p, t, internal) ==
    /\ t \in DOMAIN db.tickets /\ MayComment(p, internal)
    /\ HoldNew(w,
         [comments |-> [i \in {seq} |->
              Insert([ticket |-> t, user |-> p, is_internal |-> internal])],
          tickets |-> IF IsResponse(t, p, internal) THEN FirstResponse(t) ELSE NoRows])

\* The handler lets an admin through, but calls the DAO without is_admin, and the DAO
\* refuses anybody but the author.
MayDelete(p, c) == c \in DOMAIN db.comments /\ db.comments[c].user = p

\* The attachments that the ORM finds with the comment stay with the ticket.
DeleteComment(w, p, c) ==
    /\ MayDelete(p, c)
    /\ Hold(w, [comments |-> [i \in {c} |-> Delete],
                attachments |-> Each({a \in DOMAIN db.attachments : db.attachments[a].comment = c},
                                     Update([comment |-> None]))])

-------------------------------------------------------------------------------
(* Attachments *)

CreateAttachment(w, p, t, c) ==
    /\ t \in DOMAIN db.tickets /\ c \in CommentsOf(t) \cup {None}
    /\ HoldNew(w, [attachments |-> [i \in {seq} |->
            Insert([ticket |-> t, comment |-> c, uploaded_by |-> p])]])

DeleteAttachment(w, p, a) ==
    /\ a \in DOMAIN db.attachments /\ (db.attachments[a].uploaded_by = p \/ p \in Admin)
    /\ Hold(w, [attachments |-> [i \in {a} |-> Delete]])

-------------------------------------------------------------------------------
\* The foreign keys have no ON DELETE rule: a row that others refer to stays, and a
\* row that refers to none does not come.
Intact(all) ==
    /\ \A c \in DOMAIN all.comments : all.comments[c].ticket \in DOMAIN all.tickets
    /\ \A a \in DOMAIN all.attachments :
           /\ all.attachments[a].ticket \in DOMAIN all.tickets
           /\ all.attachments[a].comment \in DOMAIN all.comments \cup {None}

CommitTicket(w) ==
    ~Free(w) /\ LET all == AfterAll(req[w]) IN Intact(all) /\ CommitAs(w, all)

Init == Start({"tickets", "comments", "attachments"})

\* TicketCreate, TicketAssign
Work(w, p) ==
    \/ CreateTicket(w, p)
    \/ \E t \in 1..MaxId :
           DeleteTicket(w, p, t) \/ \E q \in Person \cup {None} : AssignTicket(w, p, t, q)

\* CommentCreate, AttachmentCreate
Discuss(w, p) ==
    \/ \E t \in 1..MaxId :
           \/ \E b \in BOOLEAN : AddComment(w, p, t, b)
           \/ \E c \in (1..MaxId) \cup {None} : CreateAttachment(w, p, t, c)
    \/ \E i \in 1..MaxId : DeleteComment(w, p, i) \/ DeleteAttachment(w, p, i)

Next ==
    \E w \in Worker :
        (\E p \in Person : Work(w, p) \/ Discuss(w, p)) \/ CommitTicket(w) \/ Rollback(w)

Spec == Init /\ [][Next]_dbvars

-------------------------------------------------------------------------------
(* Properties *)

IsTable(t, row) == \A i \in DOMAIN db[t] : i \in 1..MaxId /\ db[t][i] \in row

\* Rows have their column types, and refer to rows that exist.
TypeOK ==
    /\ IsTable("tickets", Ticket) /\ IsTable("comments", TicketComment)
    /\ IsTable("attachments", TicketAttachment) /\ Intact(db)

\* A ticket that an admin has answered in public is one that was responded to, whatever
\* requests overlap: the SLA job, which reads only the stamp, never reminds of a response
\* that the client can read (add_comment, record_first_response).
AnsweredIsStamped ==
    \A c \in DOMAIN db.comments :
        LET comment == db.comments[c]
        IN  /\ comment.user \in Admin /\ ~comment.is_internal
            /\ db.tickets[comment.ticket].created_by # comment.user
            => db.tickets[comment.ticket].responded
=================================================================================
