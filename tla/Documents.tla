------------------------------- MODULE Documents -------------------------------
(***************************************************************************)
(* Documents of an organization, the files behind them in object storage,     *)
(* and the access their uploader shares: services/document_service.py over    *)
(* dao/document.py, one call of the service per transaction.  Its constructor *)
(* raises at this commit, so no handler reaches it.                           *)
(*                                                                          *)
(* Storage is outside the transaction: a file is put and removed at once,     *)
(* whatever becomes of the row.                                               *)
(***************************************************************************)
EXTENDS Requests

CONSTANTS
    Person,     \* users of the organization
    Level       \* levels of access that requests grant

-------------------------------------------------------------------------------
(* Tables; an access record is named by <<document, user>>, which is unique *)

DocumentAccessLevel == {"view", "download", "edit"}
Expiry == {"never", "later", "past"}        \* of expires_at, against the clock

Document == [uploaded_by : Person, folder : {"/", "other"}, deleted : BOOLEAN]
DocumentAccess == [access_level : DocumentAccessLevel, expires_at : Expiry, granted_by : Person]

NewDocument(p) == [uploaded_by |-> p, folder |-> "/", deleted |-> FALSE]
NewAccess(p, level, expiry) ==
    [access_level |-> level, expires_at |-> expiry, granted_by |-> p]

-------------------------------------------------------------------------------
(* Who may do what *)

\* get_document: deleted documents are not found
Found(d) == d \in DOMAIN db.documents /\ ~db.documents[d].deleted

Uploader(d, p) == db.documents[d].uploaded_by = p

\* level_order
AtLeast ==
    [view |-> DocumentAccessLevel, download |-> {"download", "edit"}, edit |-> {"edit"}]

CheckAccess(d, p, level) ==
    /\ <<d, p>> \in DOMAIN db.access
    /\ db.access[<<d, p>>].expires_at # "past"
    /\ db.access[<<d, p>>].access_level \in AtLeast[level]

MayEdit(d, p) == Found(d) /\ (Uploader(d, p) \/ CheckAccess(d, p, "edit"))

-------------------------------------------------------------------------------
(* Storage *)

Put(k) == After(db.files, [i \in {k} |-> Insert(None)])
Removed(k) == After(db.files, [i \in {k} |-> Delete])

HoldStored(w, changes, files) ==
    /\ Free(w)
    /\ db' = [db EXCEPT !.files = files]
    /\ req' = [req EXCEPT ![w] = changes]

\* A file of an allowed size goes to storage, then a row names it.
UploadDocument(w, p) ==
    /\ seq <= MaxId
    /\ HoldStored(w, [documents |-> [d \in {seq} |-> Insert(NewDocument(p))]], Put(seq))
    /\ seq' = seq + 1

\* The row could not be inserted: the file is removed again.
UploadFails(w, p) ==
    /\ seq <= MaxId /\ Free(w)
    /\ seq' = seq + 1
    /\ UNCHANGED <<db, req>>

SoftDelete(w, p, d) ==
    /\ MayEdit(d, p)
    /\ Hold(w, [documents |-> [i \in {d} |-> Assign(db.documents[d], [deleted |-> TRUE])]])

HardDelete_Soft(w, p, d) ==             \* mutant: the row stays, marked deleted
    /\ MayEdit(d, p)
    /\ HoldStored(w, [documents |-> [i \in {d} |-> Update([deleted |-> TRUE])]], Removed(d))
    /\ UNCHANGED seq
\* The file first, then the row, which takes its access records with it.
HardDelete(w, p, d) ==
    /\ MayEdit(d, p)
    /\ HoldStored(w, [documents |-> [i \in {d} |-> Delete]], Removed(d))
    /\ UNCHANGED seq

UpdateDocument(w, p, d, folder) ==
    /\ MayEdit(d, p)
    /\ Hold(w, [documents |-> [i \in {d} |-> Assign(db.documents[d], [folder |-> folder])]])

-------------------------------------------------------------------------------
(* Sharing *)

\* grant_access
Granted(d, u, row) ==
    IF <<d, u>> \in DOMAIN db.access THEN Assign(db.access[<<d, u>>], row) ELSE Insert(row)

ShareDocument(w, p, d, users, level, expiry) ==
    /\ MayEdit(d, p) /\ users # {}
    /\ Hold(w, [access |->
           [a \in {d} \X users |-> Granted(d, a[2], NewAccess(p, level, expiry))]])

Revoked(d, users) == Each(({d} \X users) \cap DOMAIN db.access, Delete)

RevokeAccess(w, p, d, users) ==
    MayEdit(d, p) /\ users # {} /\ Hold(w, [access |-> Revoked(d, users)])

\* Time passes the expiry of an access record.
Expire(a) ==
    /\ a \in DOMAIN db.access /\ db.access[a].expires_at = "later"
    /\ db' = [db EXCEPT !.access[a].expires_at = "past"]
    /\ UNCHANGED <<seq, req>>

\* cleanup_expired
CleanupExpired(w) ==
    LET expired == {a \in DOMAIN db.access : db.access[a].expires_at = "past"}
    IN  expired # {} /\ Hold(w, [access |-> Each(expired, Delete)])

-------------------------------------------------------------------------------
\* Access records go with their document (ON DELETE CASCADE), and need it.
CommitDocuments(w) ==
    /\ ~Free(w)
    /\ LET all == AfterAll(req[w])
           kept == {a \in DOMAIN all.access : a[1] \in DOMAIN all.documents}
       IN  /\ DOMAIN all.access \ kept \subseteq DOMAIN db.access
           /\ CommitAs(w, [all EXCEPT !.access = [a \in kept |-> all.access[a]]])

Init == Start({"documents", "access", "files"})

Store(w, p) ==
    \/ UploadDocument(w, p) \/ UploadFails(w, p)
    \/ \E d \in 1..MaxId :
           \/ SoftDelete(w, p, d) \/ HardDelete(w, p, d)
           \/ \E folder \in {"/", "other"} : UpdateDocument(w, p, d, folder)

Share(w, p) ==
    \E d \in 1..MaxId, users \in SUBSET Person :
        \/ RevokeAccess(w, p, d, users)
        \/ \E level \in Level, expiry \in {"never", "later"} :
               ShareDocument(w, p, d, users, level, expiry)

Next ==
    \/ \E w \in Worker :
           \/ \E p \in Person : Store(w, p) \/ Share(w, p)
           \/ CleanupExpired(w) \/ CommitDocuments(w) \/ Rollback(w)
    \/ \E a \in (1..MaxId) \X Person : Expire(a)

Spec == Init /\ [][Next]_dbvars

-------------------------------------------------------------------------------
(* Properties *)

\* Rows have their column types; an access record belongs to a document.
TypeOK ==
    /\ \A d \in DOMAIN db.documents : d \in 1..MaxId /\ db.documents[d] \in Document
    /\ \A a \in DOMAIN db.access :
           a[1] \in DOMAIN db.documents /\ a[2] \in Person /\ db.access[a] \in DocumentAccess
    /\ DOMAIN db.files \subseteq 1..MaxId

\* With no request in progress, the files in storage are those of the documents,
\* soft-deleted ones included.  It needs that no transaction that touched storage
\* was rolled back: an upload would leave a file that no row names, and a hard
\* delete a row whose file is gone (upload_document, delete_document).
FilesMatch == (\A w \in Worker : Free(w)) => DOMAIN db.files = DOMAIN db.documents
=================================================================================
