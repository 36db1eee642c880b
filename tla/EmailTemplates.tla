----------------------------- MODULE EmailTemplates -----------------------------
(***************************************************************************)
(* E-mail templates of an organization, their numbered versions, and the log  *)
(* of the e-mails sent with them:                                             *)
(* services/email_template_management_service.py over dao/email_template.py,  *)
(* one call of the service per transaction.  Its router imports names that    *)
(* core/deps.py lacks, so no request reaches it.                              *)
(*                                                                          *)
(* No setting names a provider: e-mails go to the console, which accepts all. *)
(***************************************************************************)
EXTENDS Requests

CONSTANTS
    Slug,       \* names of templates
    Content     \* subjects and bodies, taken together

-------------------------------------------------------------------------------
(* Tables; a slug is unique in its organization, a version in its template *)

Variables == {"extracted", "given"}     \* found in the content, or declared

EmailTemplate ==
    [content : Content, variables : Variables, version : 1..MaxId, is_active : BOOLEAN]
EmailTemplateVersion == [content : Content, variables : Variables]
SentEmail ==
    [template : Slug, status : {"pending", "sent", "failed"}, opened : BOOLEAN, clicked : BOOLEAN]

Known(s) == s \in DOMAIN db.templates
\* get_by_slug finds active templates only.
Active(s) == Known(s) /\ db.templates[s].is_active

NewVersion_Next(s, row) ==          \* mutant: numbered after the template's version
    [v \in {<<s, row.version + 1>>} |->
        Insert([content |-> row.content, variables |-> row.variables])]
\* create_version: the content that the template has, under the number that it has.
NewVersion(s, row) ==
    [v \in {<<s, row.version>>} |->
        Insert([content |-> row.content, variables |-> row.variables])]

-------------------------------------------------------------------------------
(* Templates *)

\* The syntax of the content is checked before anything is written.
CreateTemplate(w, s, content, variables) ==
    /\ ~Active(s)
    /\ LET row == [content |-> content, variables |-> variables, version |-> 1, is_active |-> TRUE]
       IN  Hold(w, [templates |-> [i \in {s} |-> Insert(row)],
                    versions |-> NewVersion(s, row)])

\* The columns of an update that changes the content.
NewContent(row, content, variables) ==
    Assign(row, [content |-> content, variables |-> variables, version |-> row.version + 1])

\* The version row takes the number that the stored version already has: the unique
\* index refuses it, and the request is rolled back.
UpdateContent(w, s, content, variables) ==
    /\ Known(s) /\ content # db.templates[s].content
    /\ db.templates[s].version < MaxId
    /\ LET row == db.templates[s]
       IN  Hold(w, [templates |-> [i \in {s} |-> NewContent(row, content, variables)],
                    versions |-> NewVersion(s, row)])

\* Declared variables, a name or a category make no version.
UpdateDetails(w, s) ==
    /\ Known(s)
    /\ Hold(w, [templates |->
            [i \in {s} |-> Assign(db.templates[s], [variables |-> "given"])]])

\* One version before the content is restored and one after, each under the
\* number that the template has then.
RestoreVersion(w, s, n) ==
    /\ Known(s) /\ <<s, n>> \in DOMAIN db.versions
    /\ db.templates[s].version < MaxId
    /\ LET row == db.templates[s]
           old == db.versions[<<s, n>>]
           set == NewContent(row, old.content, old.variables)
       IN  Hold(w, [templates |-> [i \in {s} |-> set],
                    versions |-> Both(NewVersion(s, row), NewVersion(s, Written(row, set)))])

SetActive(w, s, active) ==
    /\ Known(s)
    /\ Hold(w, [templates |-> [i \in {s} |-> Assign(db.templates[s], [is_active |-> active])]])

DeactivateTemplate(w, s) == SetActive(w, s, FALSE)
ActivateTemplate(w, s) == SetActive(w, s, TRUE)

-------------------------------------------------------------------------------
(* Sent e-mails *)

\* log_email, then update_status when the provider has answered
Logged(s) == [template |-> s, status |-> "pending", opened |-> FALSE, clicked |-> FALSE]
Accepted(row) == [row EXCEPT !.status = "sent"]

SendEmail(w, s) ==
    Active(s) /\ HoldNew(w, [emails |-> [i \in {seq} |-> Insert(Accepted(Logged(s)))]])

RecordOpen(w, e) ==
    /\ e \in DOMAIN db.emails /\ ~db.emails[e].opened
    /\ Hold(w, [emails |-> [i \in {e} |-> Update([opened |-> TRUE])]])

\* A click on an e-mail that was not seen to be opened opens it.
RecordClick(w, e) ==
    /\ e \in DOMAIN db.emails
    /\ Hold(w, [emails |-> [i \in {e} |->
            Assign(db.emails[e], [opened |-> TRUE, clicked |-> TRUE])]])

-------------------------------------------------------------------------------
Init == Start({"templates", "versions", "emails"})

\* EmailTemplateCreateRequest, EmailTemplateUpdateRequest
Edit(w) ==
    \E s \in Slug :
        \/ \E content \in Content, variables \in Variables :
               CreateTemplate(w, s, content, variables) \/ UpdateContent(w, s, content, variables)
        \/ UpdateDetails(w, s) \/ DeactivateTemplate(w, s) \/ ActivateTemplate(w, s)
        \/ \E n \in 1..MaxId : RestoreVersion(w, s, n)

\* SendEmailRequest, and the callbacks of the provider
Mail(w) ==
    (\E s \in Slug : SendEmail(w, s)) \/ \E e \in 1..MaxId : RecordOpen(w, e) \/ RecordClick(w, e)

Next == \E w \in Worker : Edit(w) \/ Mail(w) \/ Commit(w) \/ Rollback(w)

Spec == Init /\ [][Next]_dbvars

-------------------------------------------------------------------------------
(* Properties *)

IsTable(t, keys, row) == \A i \in DOMAIN db[t] : i \in keys /\ db[t][i] \in row

\* Rows have their column types; an e-mail names a template that exists.
TypeOK ==
    /\ IsTable("templates", Slug, EmailTemplate)
    /\ IsTable("versions", (DOMAIN db.templates) \X (1..MaxId), EmailTemplateVersion)
    /\ IsTable("emails", 1..MaxId, SentEmail)
    /\ \A e \in DOMAIN db.emails : Known(db.emails[e].template)

\* The content of a template is stored under the version that the template has, so
\* that restoring that version restores it (update_template, restore_version).
VersionMatches ==
    \A s \in DOMAIN db.templates :
        /\ <<s, db.templates[s].version>> \in DOMAIN db.versions
        /\ db.versions[<<s, db.templates[s].version>>].content = db.templates[s].content

\* What the service writes for a request that runs alone can be committed
\* (schemas and api/email_templates.py: an update creates a new version).  No run
\* claims it: the first update stores the version number of the creation again.
Committable == Overlap \/ \A w \in Worker : ~Free(w) => Fits(req[w])
=================================================================================
