------------------------ MODULE WorkspaceSerialProofs ------------------------
(******************************************************************************)
(* Theorems about the components of MCWorkspace in which one request runs at  *)
(* a time (messages, workflow versions, onboarding, e-mail templates,         *)
(* documents, announcements, surveys), for any users and clients.             *)
(* HistoryStays is about report executions as well, where requests overlap;   *)
(* FiguresAreTrue and RowsAreTyped are about every component.                 *)
(******************************************************************************)
EXTENDS WorkspaceProofs

-------------------------------------------------------------------------------
(* E-mail templates and their versions *)

\* Every template has its content in the version that it names.
Versioned(templates, versions) ==
    \A s \in DOMAIN templates :
        LET v == <<s, templates[s].version>>
        IN  /\ {"content", "version"} \subseteq DOMAIN templates[s]
            /\ v \in DOMAIN versions
            /\ versions[v].content = templates[s].content

TemplatesLeft(changes) ==
    IF "templates" \in DOMAIN changes THEN Q!After(db.templates, changes.templates)
    ELSE db.templates
VersionsLeft(changes) ==
    IF "versions" \in DOMAIN changes THEN Q!After(db.versions, changes.versions)
    ELSE db.versions

\* The strengthening of VersionMatches: what the request in progress will leave is such,
\* if it can be committed at all; a new version under a number in use cannot.
VersionedInv ==
    /\ {"templates", "versions"} \subseteq DOMAIN db /\ DOMAIN req = Alone
    /\ Versioned(db.templates, db.versions)
    /\ \A w \in Alone : req[w] # None /\ L!Fits(req[w]) =>
           Versioned(TemplatesLeft(req[w]), VersionsLeft(req[w]))

LEMMA MailOps ==
    /\ \A rows, ws : L!After(rows, ws) = Q!After(rows, ws)
    /\ \A row, write : L!Written(row, write) = Q!Written(row, write)
    /\ \A row : L!Insert(row) = Q!Insert(row)
    /\ \A row, cols : L!Assign(row, cols) = Q!Assign(row, cols)
BY DEF L!After, Q!After, L!Written, Q!Written, L!Insert, Q!Insert, L!Update, Q!Update,
       L!Assign, Q!Assign

\* A request that leaves every template with its version, or cannot be committed.
VersionedHeld(w) ==
    \E changes : /\ db' = db /\ req' = [req EXCEPT ![w] = changes]
                 /\ L!Fits(changes) => Versioned(TemplatesLeft(changes), VersionsLeft(changes))

\* A new template comes with its first version.
LEMMA TemplateCreated ==
    ASSUME VersionedInv, NEW w, NEW s, NEW content, NEW variables,
           L!CreateTemplate(w, s, content, variables)
    PROVE  VersionedHeld(w)
<1>1. PICK row : row = [content |-> content, variables |-> variables, version |-> 1,
                        is_active |-> TRUE]
  OBVIOUS
<1>2. PICK old : old = [content |-> content, variables |-> variables]
  OBVIOUS
<1>3. PICK ts, vs : /\ ts = [i \in {s} |-> Q!Insert(row)]
                    /\ vs = [v \in {<<s, 1>>} |-> Q!Insert(old)]
  OBVIOUS
<1>4. PICK changes : changes = [templates |-> ts, versions |-> vs]
  OBVIOUS
<1>5. /\ row.content = content /\ row.variables = variables /\ row.version = 1
      /\ {"content", "version"} \subseteq DOMAIN row /\ old.content = content
  BY <1>1, <1>2
<1>6. /\ DOMAIN ts = {s} /\ ts[s].op = "insert" /\ ts[s].cols = row
      /\ DOMAIN vs = {<<s, 1>>} /\ vs[<<s, 1>>].op = "insert" /\ vs[<<s, 1>>].cols = old
  BY <1>3, InsertOp
<1>7. DOMAIN changes = {"templates", "versions"} /\ changes.templates = ts /\ changes.versions = vs
  BY <1>4
<1>8. L!NewVersion(s, row) = vs
  BY <1>2, <1>3, <1>5, MailOps DEF L!NewVersion
<1>9. db' = db /\ req' = [req EXCEPT ![w] = changes]
  BY <1>1, <1>3, <1>4, <1>8, MailOps DEF L!CreateTemplate, L!Hold
<1>10. ASSUME L!Fits(changes)
       PROVE  Versioned(TemplatesLeft(changes), VersionsLeft(changes))
  <2>1. s \notin DOMAIN db.templates /\ <<s, 1>> \notin DOMAIN db.versions
    BY <1>6, <1>7, <1>10 DEF L!Fits
  <2>2. PICK ta, va : ta = Q!After(db.templates, ts) /\ va = Q!After(db.versions, vs)
    OBVIOUS
  <2>3. TemplatesLeft(changes) = ta /\ VersionsLeft(changes) = va
    BY <1>7, <2>2 DEF TemplatesLeft, VersionsLeft
  <2>4. DOMAIN ta = DOMAIN db.templates \cup {s} /\ DOMAIN va = DOMAIN db.versions \cup {<<s, 1>>}
    BY <1>6, <2>2, OneWritten
  <2>5. /\ ta[s] = row /\ \A i \in DOMAIN db.templates : ta[i] = db.templates[i]
        /\ va[<<s, 1>>] = old /\ \A v \in DOMAIN db.versions : va[v] = db.versions[v]
    <3>1. ta[s] = row /\ va[<<s, 1>>] = old
      BY <1>6, <2>1, <2>2, <2>4, RowAfter
    <3>2. ASSUME NEW i \in DOMAIN db.templates
          PROVE  ta[i] = db.templates[i]
      BY <1>6, <2>1, <2>2, <2>4, RowAfter
    <3>3. ASSUME NEW v \in DOMAIN db.versions
          PROVE  va[v] = db.versions[v]
      BY <1>6, <2>1, <2>2, <2>4, RowAfter
    <3>4. QED
      BY <3>1, <3>2, <3>3
  <2>6. ASSUME NEW i \in DOMAIN ta
        PROVE  /\ {"content", "version"} \subseteq DOMAIN ta[i]
               /\ <<i, ta[i].version>> \in DOMAIN va
               /\ va[<<i, ta[i].version>>].content = ta[i].content
    <3>1. CASE i = s
      BY <1>5, <2>4, <2>5, <3>1
    <3>2. CASE i \in DOMAIN db.templates
      BY <2>4, <2>5, <3>2 DEF VersionedInv, Versioned
    <3>3. QED
      BY <2>4, <3>1, <3>2
  <2>7. QED
    BY <2>3, <2>6 DEF Versioned
<1>11. QED
  BY <1>9, <1>10 DEF VersionedHeld

\* A template that keeps its content keeps its version.
LEMMA TemplateKept ==
    ASSUME VersionedInv, NEW w, NEW s \in DOMAIN db.templates, NEW cols,
           "content" \notin DOMAIN cols, "version" \notin DOMAIN cols,
           L!Hold(w, [templates |-> [i \in {s} |-> L!Assign(db.templates[s], cols)]])
    PROVE  VersionedHeld(w)
<1>1. PICK write : write = Q!Assign(db.templates[s], cols)
  OBVIOUS
<1>2. /\ write.op = "update"
      /\ "content" \notin DOMAIN write.cols /\ "version" \notin DOMAIN write.cols
  BY <1>1, AssignedColumns
<1>3. PICK ts : ts = [i \in {s} |-> write]
  OBVIOUS
<1>4. DOMAIN ts = {s} /\ ts[s] = write
  BY <1>3
<1>5. PICK changes : changes = [templates |-> ts]
  OBVIOUS
<1>6. DOMAIN changes = {"templates"} /\ changes.templates = ts
  BY <1>5
<1>7. db' = db /\ req' = [req EXCEPT ![w] = changes]
  BY <1>1, <1>3, <1>5, MailOps DEF L!Hold
<1>8. PICK ta : ta = Q!After(db.templates, ts)
  OBVIOUS
<1>9. TemplatesLeft(changes) = ta /\ VersionsLeft(changes) = db.versions
  BY <1>6, <1>8 DEF TemplatesLeft, VersionsLeft
<1>10. DOMAIN ta = DOMAIN db.templates
  BY <1>2, <1>4, <1>8, OneWritten
<1>11. ASSUME NEW i \in DOMAIN ta
       PROVE  /\ {"content", "version"} \subseteq DOMAIN ta[i]
              /\ ta[i].content = db.templates[i].content
              /\ ta[i].version = db.templates[i].version
  <2>1. {"content", "version"} \subseteq DOMAIN db.templates[i]
    BY <1>10, <1>11 DEF VersionedInv, Versioned
  <2>2. CASE i = s
    <3>1. ta[i] = Q!Written(db.templates[i], write)
      BY <1>2, <1>4, <1>8, <1>11, <2>2, RowAfter
    <3>2. QED
      BY <1>2, <2>1, <3>1, Updating
  <2>3. CASE i # s
    BY <1>4, <1>8, <1>11, <2>1, <2>3, RowAfter
  <2>4. QED
    BY <2>2, <2>3
<1>12. Versioned(ta, db.versions)
  BY <1>10, <1>11 DEF VersionedInv, Versioned
<1>13. QED
  BY <1>7, <1>9, <1>12 DEF VersionedHeld

\* A new version of a template that has one takes its number, and is refused.
LEMMA VersionRefused ==
    ASSUME VersionedInv, NEW w, NEW s \in DOMAIN db.templates, NEW ts, NEW vs,
           LET v == <<s, db.templates[s].version>> IN v \in DOMAIN vs /\ vs[v].op = "insert",
           L!Hold(w, [templates |-> ts, versions |-> vs])
    PROVE  VersionedHeld(w)
<1>1. PICK changes : changes = [templates |-> ts, versions |-> vs]
  OBVIOUS
<1>2. DOMAIN changes = {"templates", "versions"} /\ changes.versions = vs
  BY <1>1
<1>3. db' = db /\ req' = [req EXCEPT ![w] = changes]
  BY <1>1 DEF L!Hold
<1>4. <<s, db.templates[s].version>> \in DOMAIN db.versions
  BY DEF VersionedInv, Versioned
<1>5. ~L!Fits(changes)
  BY <1>2, <1>4 DEF L!Fits
<1>6. QED
  BY <1>3, <1>5 DEF VersionedHeld

LEMMA NewVersionOf ==
    ASSUME NEW s, NEW row, NEW vs, vs = L!NewVersion(s, row)
    PROVE  <<s, row.version>> \in DOMAIN vs /\ \A v \in DOMAIN vs : vs[v].op = "insert"
<1>1. PICK cols : cols = [content |-> row.content, variables |-> row.variables]
  OBVIOUS
<1>2. PICK write : write = Q!Insert(cols)
  OBVIOUS
<1>3. vs = [v \in {<<s, row.version>>} |-> write]
  BY <1>1, <1>2, MailOps DEF L!NewVersion
<1>4. write.op = "insert"
  BY <1>2, InsertOp
<1>5. QED
  BY <1>3, <1>4

LEMMA EditHandlers ==
    ASSUME VersionedInv, NEW w \in Alone, L!Edit(w)
    PROVE  VersionedHeld(w)
<1>1. ASSUME NEW s, NEW content, NEW variables, L!UpdateContent(w, s, content, variables)
      PROVE  VersionedHeld(w)
  <2>1. PICK row, vs : row = db.templates[s] /\ vs = L!NewVersion(s, row)
    OBVIOUS
  <2>2. <<s, row.version>> \in DOMAIN vs /\ vs[<<s, row.version>>].op = "insert"
    BY <2>1, NewVersionOf
  <2>3. /\ s \in DOMAIN db.templates
        /\ \E ts : L!Hold(w, [templates |-> ts, versions |-> vs])
    BY <1>1, <2>1 DEF L!UpdateContent, L!Known
  <2>4. QED
    BY <2>1, <2>2, <2>3, VersionRefused
<1>2. ASSUME NEW s, NEW n, L!RestoreVersion(w, s, n)
      PROVE  VersionedHeld(w)
  <2>1. PICK row, before : row = db.templates[s] /\ before = L!NewVersion(s, row)
    OBVIOUS
  <2>2. PICK old : old = db.versions[<<s, n>>]
    OBVIOUS
  <2>3. PICK set : set = L!NewContent(row, old.content, old.variables)
    OBVIOUS
  <2>4. PICK new, after : new = L!Written(row, set) /\ after = L!NewVersion(s, new)
    OBVIOUS
  <2>5. PICK vs : vs = L!Both(before, after)
    OBVIOUS
  <2>6. /\ s \in DOMAIN db.templates
        /\ \E ts : L!Hold(w, [templates |-> ts, versions |-> vs])
    BY <1>2, <2>1, <2>2, <2>3, <2>4, <2>5 DEF L!RestoreVersion, L!Known
  <2>7. /\ <<s, row.version>> \in DOMAIN before /\ before[<<s, row.version>>].op = "insert"
        /\ \A v \in DOMAIN after : after[v].op = "insert"
    <3>1. <<s, row.version>> \in DOMAIN before /\ before[<<s, row.version>>].op = "insert"
      BY <2>1, NewVersionOf
    <3>2. \A v \in DOMAIN after : after[v].op = "insert"
      BY <2>4, NewVersionOf
    <3>3. QED
      BY <3>1, <3>2
  <2>8. <<s, row.version>> \in DOMAIN vs /\ vs[<<s, row.version>>].op = "insert"
    BY <2>5, <2>7 DEF L!Both
  <2>9. QED
    BY <2>1, <2>6, <2>8, VersionRefused
<1>3. ASSUME NEW s, L!UpdateDetails(w, s)
      PROVE  VersionedHeld(w)
  <2>1. PICK cols : cols = [variables |-> "given"]
    OBVIOUS
  <2>2. "content" \notin DOMAIN cols /\ "version" \notin DOMAIN cols
    BY <2>1
  <2>3. QED
    BY <1>3, <2>1, <2>2, TemplateKept DEF L!UpdateDetails, L!Known
<1>4. ASSUME NEW s, NEW active, L!SetActive(w, s, active)
      PROVE  VersionedHeld(w)
  <2>1. PICK cols : cols = [is_active |-> active]
    OBVIOUS
  <2>2. "content" \notin DOMAIN cols /\ "version" \notin DOMAIN cols
    BY <2>1
  <2>3. QED
    BY <1>4, <2>1, <2>2, TemplateKept DEF L!SetActive, L!Known
<1>5. QED
  BY <1>1, <1>2, <1>3, <1>4, TemplateCreated
  DEF L!Edit, L!DeactivateTemplate, L!ActivateTemplate

LEMMA MailHandlers ==
    ASSUME VersionedInv, NEW w \in Alone, L!Mail(w)
    PROVE  VersionedHeld(w)
<1>1. PICK es : L!Hold(w, [emails |-> es]) \/ L!HoldNew(w, [emails |-> es])
  BY DEF L!Mail, L!SendEmail, L!RecordOpen, L!RecordClick
<1>2. PICK changes : changes = [emails |-> es]
  OBVIOUS
<1>3. DOMAIN changes = {"emails"} /\ db' = db /\ req' = [req EXCEPT ![w] = changes]
  BY <1>1, <1>2 DEF L!Hold, L!HoldNew
<1>4. QED
  BY <1>3 DEF VersionedHeld, VersionedInv, TemplatesLeft, VersionsLeft

LEMMA VersionedStep ==
    ASSUME part = "email_templates", VersionedInv, MCNext
    PROVE  VersionedInv'
<1>1. L!Next /\ \A v, w \in Alone : v = w
  BY AloneAssumption DEF MCNext, RowsNext
<1>2. ASSUME NEW w \in Alone, VersionedHeld(w)
      PROVE  VersionedInv'
  <2>1. PICK changes : /\ db' = db /\ req' = [req EXCEPT ![w] = changes]
                       /\ L!Fits(changes) =>
                              Versioned(TemplatesLeft(changes), VersionsLeft(changes))
    BY <1>2 DEF VersionedHeld
  <2>2. DOMAIN req' = Alone /\ \A v \in Alone : req'[v] = changes
    BY <1>1, <2>1 DEF VersionedInv
  <2>3. ASSUME NEW v \in Alone, L!Fits(req[v])'
        PROVE  Versioned(TemplatesLeft(req[v]), VersionsLeft(req[v]))'
    BY <2>1, <2>2, <2>3 DEF L!Fits, Versioned, TemplatesLeft, VersionsLeft
  <2>4. QED
    BY <2>1, <2>2, <2>3 DEF VersionedInv, Versioned
<1>3. ASSUME NEW w \in Alone, L!Commit(w)
      PROVE  VersionedInv'
  <2>1. /\ req[w] # None /\ req' = [req EXCEPT ![w] = None] /\ L!Fits(req[w])
        /\ db' = L!AfterAll(req[w])
    BY <1>3 DEF L!Commit, L!CommitAs, L!Free
  <2>2. /\ DOMAIN db' = DOMAIN db
        /\ db'.templates = TemplatesLeft(req[w]) /\ db'.versions = VersionsLeft(req[w])
    BY <2>1, MailOps DEF VersionedInv, L!AfterAll, TemplatesLeft, VersionsLeft
  <2>3. DOMAIN req' = Alone /\ \A v \in Alone : req'[v] = None
    BY <1>1, <2>1 DEF VersionedInv
  <2>4. Versioned(db'.templates, db'.versions)
    BY <2>1, <2>2 DEF VersionedInv
  <2>5. QED
    BY <2>2, <2>3, <2>4 DEF VersionedInv
<1>4. ASSUME NEW w \in Alone, L!Rollback(w)
      PROVE  VersionedInv'
  <2>1. db' = db /\ req' = [req EXCEPT ![w] = None]
    BY <1>4 DEF L!Rollback
  <2>2. DOMAIN req' = Alone /\ \A v \in Alone : req'[v] = None
    BY <1>1, <2>1 DEF VersionedInv
  <2>3. QED
    BY <2>1, <2>2 DEF VersionedInv
<1>5. QED
  BY <1>1, <1>2, <1>3, <1>4, EditHandlers, MailHandlers DEF L!Next

LEMMA VersionedStart ==
    ASSUME part = "email_templates", MCInit
    PROVE  VersionedInv
<1>1. /\ db = [t \in {"templates", "versions", "emails"} |-> L!NoRows]
      /\ req = [w \in Alone |-> None]
  BY DEF MCInit, PartInit, L!Init, L!Start
<1>2. DOMAIN db.templates = {}
  BY <1>1 DEF L!NoRows
<1>3. QED
  BY <1>1, <1>2 DEF VersionedInv, Versioned

-------------------------------------------------------------------------------
(* Documents and their files *)

\* The strengthening of FilesMatch: what the request in progress has put and removed
\* is what its rows will say.
DocumentsLeft(changes) ==
    IF "documents" \in DOMAIN changes THEN Q!After(db.documents, changes.documents)
    ELSE db.documents

FilesInv ==
    /\ {"documents", "files"} \subseteq DOMAIN db /\ DOMAIN req = Alone /\ seq \in Nat \ {0}
    /\ \A w \in Alone : req[w] # None =>
           /\ "files" \notin DOMAIN req[w]
           /\ DOMAIN db.files = DOMAIN DocumentsLeft(req[w])
    /\ (\A w \in Alone : req[w] = None) => DOMAIN db.files = DOMAIN db.documents

LEMMA DocumentOps ==
    /\ \A rows, ws : D!After(rows, ws) = Q!After(rows, ws)
    /\ \A row : D!Insert(row) = Q!Insert(row)
    /\ \A cols : D!Update(cols) = Q!Update(cols)
    /\ \A row, cols : D!Assign(row, cols) = Q!Assign(row, cols)
    /\ D!Delete = Q!Delete
BY DEF D!After, Q!After, D!Written, Q!Written, D!Insert, Q!Insert, D!Update, Q!Update,
       D!Assign, Q!Assign, D!Delete, Q!Delete

\* A request that stores what its rows will say, or that leaves both alone.
FilesHeld(w) ==
    \E changes, files :
        /\ req[w] = None /\ req' = [req EXCEPT ![w] = changes]
        /\ DOMAIN db' = DOMAIN db /\ db'.documents = db.documents /\ db'.files = files
        /\ seq' = seq \/ seq' = seq + 1
        /\ "files" \notin DOMAIN changes
        /\ \/ changes # None /\ DOMAIN files = DOMAIN DocumentsLeft(changes)
           \/ files = db.files /\ DOMAIN DocumentsLeft(changes) = DOMAIN db.documents

LEMMA StoreHandlers ==
    ASSUME FilesInv, NEW w \in Alone, NEW p \in Person, D!Store(w, p),
           DOMAIN db.files = DOMAIN db.documents
    PROVE  FilesHeld(w) \/ (db' = db /\ req' = req /\ seq' = seq + 1)
<1>1. CASE D!UploadDocument(w, p)
  <2>1. PICK ws : ws = [d \in {seq} |-> D!Insert(D!NewDocument(p))]
    OBVIOUS
  <2>2. PICK changes : changes = [documents |-> ws]
    OBVIOUS
  <2>3. /\ DOMAIN changes = {"documents"} /\ changes.documents = ws
    BY <2>2
  <2>4. /\ req[w] = None /\ req' = [req EXCEPT ![w] = changes]
        /\ db' = [db EXCEPT !.files = D!Put(seq)] /\ seq' = seq + 1 /\ seq <= 1
    BY <1>1, <2>1, <2>2 DEF D!UploadDocument, D!HoldStored, D!Free
  <2>5. seq = 1
    BY <2>4 DEF FilesInv
  <2>6. DOMAIN D!Put(seq) = DOMAIN DocumentsLeft(changes)
    <3>1. PICK row, file : row = Q!Insert(D!NewDocument(p)) /\ file = Q!Insert(None)
      OBVIOUS
    <3>2. PICK fs : fs = [k \in {seq} |-> file]
      OBVIOUS
    <3>3. /\ DOMAIN ws = {seq} /\ ws[seq].op = "insert"
          /\ DOMAIN fs = {seq} /\ fs[seq].op = "insert"
      BY <2>1, <3>1, <3>2, InsertOp, DocumentOps
    <3>4. D!Put(seq) = Q!After(db.files, fs)
      BY <3>1, <3>2, DocumentOps DEF D!Put
    <3>5. DOMAIN Q!After(db.files, fs) = DOMAIN db.files \cup {seq}
      BY <3>3, OneWritten
    <3>6. DOMAIN DocumentsLeft(changes) = DOMAIN db.documents \cup {seq}
      BY <2>3, <3>3, OneWritten DEF DocumentsLeft
    <3>7. QED
      BY <3>4, <3>5, <3>6
  <2>7. changes # None
    BY <2>1, <2>2, <2>5, NullAssumption
  <2>8. QED
    BY <2>3, <2>4, <2>6, <2>7 DEF FilesHeld, FilesInv
<1>2. CASE D!UploadFails(w, p)
  BY <1>2 DEF D!UploadFails
<1>3. ASSUME NEW d \in 1..1, D!HardDelete(w, p, d)
      PROVE  FilesHeld(w)
  <2>1. PICK ws : ws = [i \in {d} |-> D!Delete]
    OBVIOUS
  <2>2. PICK changes : changes = [documents |-> ws]
    OBVIOUS
  <2>3. /\ DOMAIN changes = {"documents"} /\ changes.documents = ws
    BY <2>2
  <2>4. /\ req[w] = None /\ req' = [req EXCEPT ![w] = changes]
        /\ db' = [db EXCEPT !.files = D!Removed(d)] /\ seq' = seq /\ d = 1
    BY <1>3, <2>1, <2>2 DEF D!HardDelete, D!HoldStored, D!Free
  <2>5. DOMAIN D!Removed(d) = DOMAIN DocumentsLeft(changes)
    <3>1. PICK write : write = Q!Delete
      OBVIOUS
    <3>2. DOMAIN ws = {d} /\ ws[d].op = "delete"
      BY <2>1, <3>1, DeleteOp, DocumentOps
    <3>3. D!Removed(d) = Q!After(db.files, ws)
      BY <2>1, DocumentOps DEF D!Removed
    <3>4. DOMAIN Q!After(db.files, ws) = DOMAIN db.files \ {d}
      <4>1. PICK rows : rows = db.files
        OBVIOUS
      <4>2. DOMAIN Q!After(rows, ws) = DOMAIN rows \ {d}
        BY <3>2 DEF Q!After
      <4>3. QED
        BY <4>1, <4>2
    <3>5. DOMAIN DocumentsLeft(changes) = DOMAIN db.documents \ {d}
      BY <2>3, <3>2, OneWritten DEF DocumentsLeft
    <3>6. QED
      BY <3>3, <3>4, <3>5
  <2>6. changes # None
    BY <2>1, <2>2, <2>4, NullAssumption
  <2>7. QED
    BY <2>3, <2>4, <2>5, <2>6 DEF FilesHeld, FilesInv
<1>4. ASSUME NEW d, NEW cols,
             D!Hold(w, [documents |-> [i \in {d} |-> D!Assign(db.documents[d], cols)]])
      PROVE  FilesHeld(w)
  <2>1. PICK ws : ws = [i \in {d} |-> D!Assign(db.documents[d], cols)]
    OBVIOUS
  <2>2. PICK changes : changes = [documents |-> ws]
    OBVIOUS
  <2>3. /\ DOMAIN changes = {"documents"} /\ changes.documents = ws
    BY <2>2
  <2>4. req[w] = None /\ req' = [req EXCEPT ![w] = changes] /\ db' = db /\ seq' = seq
    BY <1>4, <2>1, <2>2 DEF D!Hold, D!Free
  <2>5. DOMAIN DocumentsLeft(changes) = DOMAIN db.documents
    <3>1. PICK write : write = Q!Assign(db.documents[d], cols)
      OBVIOUS
    <3>2. DOMAIN ws = {d} /\ ws[d].op = "update"
      <4>1. write.op = "update"
        BY <3>1, AssignedColumns
      <4>2. QED
        BY <2>1, <3>1, <4>1, DocumentOps
    <3>3. QED
      BY <2>3, <3>2, OneWritten DEF DocumentsLeft
  <2>6. db'.files = db.files /\ DOMAIN db' = DOMAIN db /\ db'.documents = db.documents
    BY <2>4
  <2>7. QED
    BY <2>3, <2>4, <2>5, <2>6 DEF FilesHeld
<1>5. QED
  BY <1>1, <1>2, <1>3, <1>4 DEF D!Store, D!SoftDelete, D!UpdateDocument

\* Who has access is no matter of files.
LEMMA AccessHandlers ==
    ASSUME FilesInv, NEW w \in Alone, D!CleanupExpired(w) \/ \E p \in Person : D!Share(w, p)
    PROVE  FilesHeld(w)
<1>1. PICK ws : D!Hold(w, [access |-> ws])
  BY DEF D!CleanupExpired, D!Share, D!RevokeAccess, D!ShareDocument
<1>2. PICK changes : changes = [access |-> ws]
  OBVIOUS
<1>3. /\ DOMAIN changes = {"access"} /\ req[w] = None
      /\ req' = [req EXCEPT ![w] = changes] /\ db' = db /\ seq' = seq
  BY <1>1, <1>2 DEF D!Hold, D!Free
<1>4. DocumentsLeft(changes) = db.documents
  BY <1>3 DEF DocumentsLeft
<1>5. QED
  BY <1>3, <1>4 DEF FilesHeld

LEMMA FilesStep ==
    ASSUME part = "documents", disturbed \/ FilesInv, MCNext
    PROVE  disturbed' \/ FilesInv'
<1>1. SUFFICES ASSUME ~disturbed' PROVE FilesInv'
  OBVIOUS
<1>2. FilesInv /\ D!Next /\ \A v, w \in Alone : v = w
  BY <1>1, AloneAssumption DEF MCNext, RowsNext
<1>3. \A w \in Alone : ~D!Rollback(w)
  BY <1>1 DEF MCNext, Disturbance
<1>4. ASSUME NEW w \in Alone, FilesHeld(w)
      PROVE  FilesInv'
  <2>1. PICK changes, files :
            /\ req[w] = None /\ req' = [req EXCEPT ![w] = changes]
            /\ DOMAIN db' = DOMAIN db /\ db'.documents = db.documents /\ db'.files = files
            /\ seq' = seq \/ seq' = seq + 1
            /\ "files" \notin DOMAIN changes
            /\ \/ changes # None /\ DOMAIN files = DOMAIN DocumentsLeft(changes)
               \/ files = db.files /\ DOMAIN DocumentsLeft(changes) = DOMAIN db.documents
    BY <1>4 DEF FilesHeld
  <2>2. DOMAIN req' = Alone /\ \A v \in Alone : req'[v] = changes /\ req[v] = None
    BY <1>2, <2>1 DEF FilesInv
  <2>3. /\ {"documents", "files"} \subseteq DOMAIN db'
        /\ db'.documents = db.documents /\ db'.files = files
    BY <1>2, <2>1 DEF FilesInv
  <2>4. DOMAIN db.files = DOMAIN db.documents
    BY <1>2, <2>2 DEF FilesInv
  <2>5. PICK left : left = DocumentsLeft(changes)
    OBVIOUS
  <2>6. /\ DOMAIN files = DOMAIN left
        /\ changes = None => DOMAIN files = DOMAIN db.documents
    BY <2>1, <2>4, <2>5
  <2>7. (DocumentsLeft(changes))' = left
    BY <2>3, <2>5 DEF DocumentsLeft
  <2>8. ASSUME NEW v \in Alone, req'[v] # None
        PROVE  "files" \notin DOMAIN req'[v] /\ DOMAIN db'.files = DOMAIN DocumentsLeft(req[v])'
    <3>1. req'[v] = changes
      BY <2>2
    <3>2. DocumentsLeft(req[v])' = left
      BY <2>3, <2>5, <3>1 DEF DocumentsLeft
    <3>3. QED
      BY <2>1, <2>3, <2>6, <3>1, <3>2
  <2>9. (\A v \in Alone : req'[v] = None) => DOMAIN db'.files = DOMAIN db'.documents
    BY <2>2, <2>3, <2>6
  <2>10. seq' \in Nat \ {0}
    BY <1>2, <2>1 DEF FilesInv
  <2>11. QED
    BY <2>2, <2>3, <2>8, <2>9, <2>10 DEF FilesInv
<1>5. ASSUME NEW w \in Alone, D!CommitDocuments(w)
      PROVE  FilesInv'
  <2>1. PICK all : all = D!AfterAll(req[w])
    OBVIOUS
  <2>2. /\ req[w] # None /\ req' = [req EXCEPT ![w] = None] /\ seq' = seq
        /\ \E access : db' = [all EXCEPT !.access = access]
    BY <1>5, <2>1 DEF D!CommitDocuments, D!CommitAs, D!Free
  <2>3. /\ DOMAIN all = DOMAIN db /\ all.files = db.files
        /\ all.documents = DocumentsLeft(req[w])
    BY <1>2, <2>1, <2>2, DocumentOps DEF FilesInv, D!AfterAll, DocumentsLeft
  <2>4. /\ DOMAIN db' = DOMAIN db /\ db'.files = db.files
        /\ db'.documents = DocumentsLeft(req[w])
    BY <1>2, <2>2, <2>3 DEF FilesInv
  <2>5. DOMAIN req' = Alone /\ \A v \in Alone : req'[v] = None
    BY <1>2, <2>2 DEF FilesInv
  <2>6. QED
    BY <1>2, <2>2, <2>4, <2>5 DEF FilesInv
<1>6. ASSUME NEW a, D!Expire(a)
      PROVE  FilesInv'
  <2>1. req' = req /\ seq' = seq /\ db' = [db EXCEPT !.access[a].expires_at = "past"]
    BY <1>6 DEF D!Expire
  <2>2. /\ DOMAIN db' = DOMAIN db /\ db'.documents = db.documents /\ db'.files = db.files
    BY <1>2, <2>1 DEF FilesInv
  <2>3. QED
    BY <1>2, <2>1, <2>2 DEF FilesInv, DocumentsLeft
<1>7. ASSUME NEW w \in Alone, NEW p \in Person, D!Store(w, p)
      PROVE  FilesInv'
  <2>1. req[w] = None
    BY <1>7 DEF D!Store, D!UploadDocument, D!UploadFails, D!SoftDelete, D!HardDelete,
                D!UpdateDocument, D!HoldStored, D!Hold, D!Free
  <2>2. DOMAIN db.files = DOMAIN db.documents
    BY <1>2, <2>1 DEF FilesInv
  <2>3. CASE db' = db /\ req' = req /\ seq' = seq + 1
    BY <1>2, <2>3 DEF FilesInv, DocumentsLeft
  <2>4. QED
    BY <1>2, <1>4, <1>7, <2>2, <2>3, StoreHandlers
<1>8. QED
  BY <1>2, <1>3, <1>4, <1>5, <1>6, <1>7, AccessHandlers DEF D!Next

LEMMA FilesStart ==
    ASSUME part = "documents", MCInit
    PROVE  FilesInv
<1>1. /\ db = [t \in {"documents", "access", "files"} |-> D!NoRows]
      /\ req = [w \in Alone |-> None] /\ seq = 1
  BY DEF MCInit, PartInit, D!Init, D!Start
<1>2. QED
  BY <1>1 DEF FilesInv

-------------------------------------------------------------------------------
(* Copies *)

\* One request at a time, the newest version of an e-mail template has the template's
\* content; and as long as no request is rolled back, the files in S3 are those of the
\* documents whenever no request is in progress (create_version_from_template,
\* upload_document, delete_document).
THEOREM CopiesAgree == MCSpec => []CopiesMatch
<1> DEFINE Inv == /\ part = "email_templates" => VersionedInv
                  /\ part = "documents" => disturbed \/ FilesInv
<1>1. MCInit => Inv
  BY VersionedStart, FilesStart
<1>2. Inv /\ [MCNext]_mcvars => Inv'
  <2>1. CASE MCNext
    BY <2>1, VersionedStep, FilesStep, SamePart
  <2>2. CASE UNCHANGED mcvars
    <3>1. UNCHANGED <<db, seq, req, part, disturbed>>
      BY <2>2 DEF mcvars
    <3>2. VersionedInv => VersionedInv'
      BY <3>1 DEF VersionedInv, Versioned, TemplatesLeft, VersionsLeft, L!Fits
    <3>3. FilesInv => FilesInv'
      BY <3>1 DEF FilesInv, DocumentsLeft
    <3>4. QED
      BY <3>1, <3>2, <3>3
  <2>3. QED
    BY <2>1, <2>2
<1>3. Inv => CopiesMatch
  BY DEF CopiesMatch, VersionedInv, Versioned, L!VersionMatches, FilesInv, D!FilesMatch, D!Free
<1>4. QED
  BY <1>1, <1>2, <1>3, PTL DEF MCSpec

-------------------------------------------------------------------------------
(* Announcements *)

Unpublished == {"draft", "scheduled"}

\* What a write may do to an announcement that was published: not change its text, not
\* make it active again, and not remove it while it is active.
KeepsPublished(row, write) ==
    row.status \notin Unpublished =>
        /\ write.op = "delete" => row.status # "active"
        /\ write.op \notin {"insert", "delete"} =>
               /\ write.op = "update" /\ "content" \notin DOMAIN write.cols
               /\ "status" \in DOMAIN write.cols /\ write.cols.status = "active" =>
                      row.status = "active"

PublishedWrites(rows, ws) ==
    \A a \in DOMAIN ws :
        /\ ws[a].op = "insert" => {"status", "content"} \subseteq DOMAIN ws[a].cols
        /\ a \in DOMAIN rows => KeepsPublished(rows[a], ws[a])

\* The strengthening of PublishedStep: so the request in progress writes.
AnnouncedInv ==
    /\ "announcements" \in DOMAIN db /\ DOMAIN req = Alone
    /\ \A a \in DOMAIN db.announcements : {"status", "content"} \subseteq DOMAIN db.announcements[a]
    /\ \A w \in Alone : req[w] # None /\ "announcements" \in DOMAIN req[w] =>
           PublishedWrites(db.announcements, req[w].announcements)

LEMMA AnnouncementOps ==
    /\ \A rows, ws : A!After(rows, ws) = Q!After(rows, ws)
    /\ \A row : A!Insert(row) = Q!Insert(row)
    /\ \A cols : A!Update(cols) = Q!Update(cols)
    /\ \A row, cols : A!Assign(row, cols) = Q!Assign(row, cols)
    /\ A!Delete = Q!Delete
BY DEF A!After, Q!After, A!Written, Q!Written, A!Insert, Q!Insert, A!Update, Q!Update,
       A!Assign, Q!Assign, A!Delete, Q!Delete

\* A request that keeps what was published.
AnnouncedHeld(w) ==
    \E changes : /\ db' = db /\ req' = [req EXCEPT ![w] = changes]
                 /\ "announcements" \in DOMAIN changes =>
                        PublishedWrites(db.announcements, changes.announcements)

LEMMA AnnouncedWrote ==
    ASSUME NEW w, NEW ws, PublishedWrites(db.announcements, ws),
           A!Hold(w, [announcements |-> ws]) \/ A!HoldNew(w, [announcements |-> ws])
    PROVE  AnnouncedHeld(w)
<1>1. PICK changes : changes = [announcements |-> ws]
  OBVIOUS
<1>2. changes.announcements = ws /\ db' = db /\ req' = [req EXCEPT ![w] = changes]
  BY <1>1 DEF A!Hold, A!HoldNew
<1>3. QED
  BY <1>2 DEF AnnouncedHeld

\* The columns that a handler assigns to an announcement.
LEMMA AnnouncementWritten ==
    ASSUME NEW w, NEW a \in DOMAIN db.announcements, NEW cols, A!Write(w, a, cols),
           \/ db.announcements[a].status \in Unpublished
           \/ "content" \notin DOMAIN cols /\ ("status" \in DOMAIN cols => cols.status # "active")
    PROVE  AnnouncedHeld(w)
<1>1. PICK row : row = db.announcements[a]
  OBVIOUS
<1>2. PICK write : write = Q!Assign(row, cols)
  OBVIOUS
<1>3. /\ write.op = "update" /\ DOMAIN write.cols \subseteq DOMAIN cols
      /\ \A c \in DOMAIN write.cols : write.cols[c] = cols[c]
  BY <1>2, AssignedColumns
<1>4. KeepsPublished(row, write)
  BY <1>1, <1>3 DEF KeepsPublished
<1>5. PICK ws : ws = [i \in {a} |-> write]
  OBVIOUS
<1>6. DOMAIN ws = {a} /\ ws[a] = write
  BY <1>5
<1>7. PublishedWrites(db.announcements, ws)
  BY <1>1, <1>3, <1>4, <1>6 DEF PublishedWrites
<1>8. A!Hold(w, [announcements |-> ws])
  BY <1>1, <1>2, <1>5, AnnouncementOps DEF A!Write
<1>9. QED
  BY <1>7, <1>8, AnnouncedWrote

LEMMA AdministerHandlers ==
    ASSUME NEW w, A!Administer(w)
    PROVE  AnnouncedHeld(w)
<1>1. ASSUME NEW a, NEW cols, A!UpdateAnnouncement(w, a, cols)
      PROVE  AnnouncedHeld(w)
  BY <1>1, AnnouncementWritten DEF A!UpdateAnnouncement, A!Exists, A!Editable, Unpublished
<1>2. ASSUME NEW a, A!PublishAnnouncement(w, a)
      PROVE  AnnouncedHeld(w)
  BY <1>2, AnnouncementWritten DEF A!PublishAnnouncement, A!Exists, Unpublished
<1>3. ASSUME NEW a, A!ArchiveAnnouncement(w, a)
      PROVE  AnnouncedHeld(w)
  <2>1. PICK cols : cols = [status |-> "archived"]
    OBVIOUS
  <2>2. DOMAIN cols = {"status"} /\ cols.status = "archived"
    BY <2>1
  <2>3. a \in DOMAIN db.announcements /\ A!Write(w, a, cols)
    BY <1>3, <2>1 DEF A!ArchiveAnnouncement, A!Exists, A!Archived
  <2>4. QED
    BY <2>2, <2>3, AnnouncementWritten
<1>4. ASSUME NEW a, A!DeleteAnnouncement(w, a)
      PROVE  AnnouncedHeld(w)
  <2>1. PICK ws : ws = [i \in {a} |-> A!Delete]
    OBVIOUS
  <2>2. DOMAIN ws = {a} /\ ws[a].op = "delete"
    BY <2>1, DeleteOp, AnnouncementOps
  <2>3. db.announcements[a].status # "active" /\ A!Hold(w, [announcements |-> ws])
    BY <1>4, <2>1 DEF A!DeleteAnnouncement, A!Deletable
  <2>4. PublishedWrites(db.announcements, ws)
    BY <2>2, <2>3 DEF PublishedWrites, KeepsPublished
  <2>5. QED
    BY <2>3, <2>4, AnnouncedWrote
<1>5. QED
  BY <1>1, <1>2, <1>3, <1>4 DEF A!Administer

LEMMA OtherAnnouncementHandlers ==
    ASSUME NEW w, A!Create(w) \/ A!Read(w) \/ A!UpdateScheduled(w) \/ A!ExpireOld(w)
    PROVE  AnnouncedHeld(w)
<1>1. ASSUME NEW c, NEW publish, NEW expire, NEW b, NEW e,
             A!CreateAnnouncement(w, A!NewAnnouncement(c, publish, expire, b, e))
      PROVE  AnnouncedHeld(w)
  <2>1. PICK row : row = A!NewAnnouncement(c, publish, expire, b, e)
    OBVIOUS
  <2>2. {"status", "content"} \subseteq DOMAIN row
    BY <2>1 DEF A!NewAnnouncement
  <2>3. PICK ws : ws = [a \in {seq} |-> Q!Insert(row)]
    OBVIOUS
  <2>4. DOMAIN ws = {seq} /\ ws[seq].op = "insert" /\ ws[seq].cols = row
    BY <2>3, InsertOp
  <2>5. PublishedWrites(db.announcements, ws)
    BY <2>2, <2>4 DEF PublishedWrites, KeepsPublished
  <2>6. A!HoldNew(w, [announcements |-> ws])
    BY <1>1, <2>1, <2>3, AnnouncementOps DEF A!CreateAnnouncement
  <2>7. QED
    BY <2>5, <2>6, AnnouncedWrote
<1>2. ASSUME A!Read(w)
      PROVE  AnnouncedHeld(w)
  <2>1. PICK rs : A!Hold(w, [reads |-> rs])
    BY <1>2 DEF A!Read, A!MarkRead, A!Acknowledge, A!Dismiss, A!MarkedRead, A!Acknowledged,
                A!Marked
  <2>2. PICK changes : changes = [reads |-> rs]
    OBVIOUS
  <2>3. "announcements" \notin DOMAIN changes /\ db' = db /\ req' = [req EXCEPT ![w] = changes]
    BY <2>1, <2>2 DEF A!Hold
  <2>4. QED
    BY <2>3 DEF AnnouncedHeld
<1>3. ASSUME NEW as, NEW status,
             A!Hold(w, [announcements |-> A!Each(as, A!Update([status |-> status]))]),
             \A a \in as : db.announcements[a].status \in Unpublished \/ status # "active"
      PROVE  AnnouncedHeld(w)
  <2>1. PICK cols : cols = [status |-> status]
    OBVIOUS
  <2>2. DOMAIN cols = {"status"} /\ cols.status = status
    BY <2>1
  <2>3. PICK ws : ws = A!Each(as, A!Update(cols))
    OBVIOUS
  <2>4. DOMAIN ws = as /\ \A a \in as : ws[a].op = "update" /\ ws[a].cols = cols
    BY <2>3, UpdateOp, AnnouncementOps DEF A!Each
  <2>5. ASSUME NEW a \in DOMAIN ws
        PROVE  /\ ws[a].op = "update"
               /\ KeepsPublished(db.announcements[a], ws[a])
    <3>1. db.announcements[a].status \in Unpublished \/ status # "active"
      BY <1>3, <2>4, <2>5
    <3>2. ws[a].op = "update" /\ ws[a].cols = cols
      BY <2>4, <2>5
    <3>3. QED
      BY <2>2, <3>1, <3>2 DEF KeepsPublished
  <2>6. PublishedWrites(db.announcements, ws)
    BY <2>5 DEF PublishedWrites
  <2>7. QED
    BY <1>3, <2>1, <2>3, <2>6, AnnouncedWrote
<1>4. CASE A!UpdateScheduled(w)
  BY <1>3, <1>4 DEF A!UpdateScheduled, A!Due, Unpublished
<1>5. CASE A!ExpireOld(w)
  BY <1>3, <1>5 DEF A!ExpireOld
<1>6. QED
  BY <1>1, <1>2, <1>4, <1>5 DEF A!Create

\* What a commit leaves of the announcements that were published.
LEMMA PublishedCommitted ==
    ASSUME NEW rows, NEW ws, PublishedWrites(rows, ws),
           \A a \in DOMAIN rows : {"status", "content"} \subseteq DOMAIN rows[a],
           \A a \in DOMAIN ws : ws[a].op = "insert" => a \notin DOMAIN rows
    PROVE  LET after == Q!After(rows, ws)
           IN  /\ \A a \in DOMAIN after : {"status", "content"} \subseteq DOMAIN after[a]
               /\ \A a \in DOMAIN rows : rows[a].status \notin Unpublished =>
                      /\ rows[a].status = "active" => a \in DOMAIN after
                      /\ a \in DOMAIN after =>
                             /\ after[a].content = rows[a].content
                             /\ after[a].status = "active" => rows[a].status = "active"
<1>1. PICK after : after = Q!After(rows, ws)
  OBVIOUS
<1>2. ASSUME NEW a \in DOMAIN after
      PROVE  {"status", "content"} \subseteq DOMAIN after[a]
  <2>1. CASE a \in DOMAIN ws /\ ws[a].op = "insert" /\ after[a] = ws[a].cols
    BY <2>1 DEF PublishedWrites
  <2>2. CASE /\ a \in DOMAIN rows /\ a \in DOMAIN ws /\ ws[a].op \notin {"insert", "delete"}
             /\ after[a] = Q!Written(rows[a], ws[a])
    <3>1. DOMAIN Q!Written(rows[a], ws[a]) = DOMAIN rows[a]
      BY DEF Q!Written
    <3>2. QED
      BY <2>2, <3>1
  <2>3. CASE a \in DOMAIN rows /\ a \notin DOMAIN ws /\ after[a] = rows[a]
    BY <2>3
  <2>4. QED
    BY <1>1, <1>2, <2>1, <2>2, <2>3, RowAfter
<1>3. ASSUME NEW a \in DOMAIN rows, rows[a].status \notin Unpublished, rows[a].status = "active"
      PROVE  a \in DOMAIN after
  <2>1. a \in DOMAIN ws => ws[a].op # "delete"
    BY <1>3 DEF PublishedWrites, KeepsPublished
  <2>2. QED
    BY <1>1, <1>3, <2>1 DEF Q!After
<1>4. ASSUME NEW a \in DOMAIN rows, rows[a].status \notin Unpublished, a \in DOMAIN after
      PROVE  /\ after[a].content = rows[a].content
             /\ after[a].status = "active" => rows[a].status = "active"
  <2>1. a \in DOMAIN ws => ws[a].op # "insert"
    BY <1>4
  <2>2. CASE /\ a \in DOMAIN ws /\ ws[a].op \notin {"insert", "delete"}
             /\ after[a] = Q!Written(rows[a], ws[a])
    <3>1. /\ ws[a].op = "update" /\ "content" \notin DOMAIN ws[a].cols
          /\ "status" \in DOMAIN ws[a].cols /\ ws[a].cols.status = "active" =>
                 rows[a].status = "active"
      BY <1>4, <2>2 DEF PublishedWrites, KeepsPublished
    <3>2. "status" \in DOMAIN rows[a] /\ "content" \in DOMAIN rows[a]
      OBVIOUS
    <3>3. after[a].content = rows[a].content
      BY <2>2, <3>1, <3>2, Updating
    <3>4. after[a].status = IF "status" \in DOMAIN ws[a].cols THEN ws[a].cols.status
                            ELSE rows[a].status
      BY <2>2, <3>1, <3>2, Updating
    <3>5. QED
      BY <3>1, <3>3, <3>4
  <2>3. CASE a \notin DOMAIN ws /\ after[a] = rows[a]
    BY <2>3
  <2>4. QED
    BY <1>1, <1>4, <2>1, <2>2, <2>3, RowAfter
<1>5. QED
  BY <1>1, <1>2, <1>3, <1>4

LEMMA AnnouncedStep ==
    ASSUME part = "announcements", AnnouncedInv, MCNext
    PROVE  AnnouncedInv' /\ A!PublishedStep
<1>1. A!Next /\ \A v, w \in Alone : v = w
  BY AloneAssumption DEF MCNext, RowsNext
<1>2. ASSUME NEW w \in Alone, AnnouncedHeld(w)
      PROVE  AnnouncedInv' /\ A!PublishedStep
  <2>1. PICK changes : /\ db' = db /\ req' = [req EXCEPT ![w] = changes]
                       /\ "announcements" \in DOMAIN changes =>
                              PublishedWrites(db.announcements, changes.announcements)
    BY <1>2 DEF AnnouncedHeld
  <2>2. DOMAIN req' = Alone /\ \A v \in Alone : req'[v] = changes
    BY <1>1, <2>1 DEF AnnouncedInv
  <2>3. QED
    BY <2>1, <2>2 DEF AnnouncedInv, A!PublishedStep
<1>3. ASSUME NEW w \in Alone, A!CommitAnnouncements(w)
      PROVE  AnnouncedInv' /\ A!PublishedStep
  <2>1. PICK all : all = A!AfterAll(req[w])
    OBVIOUS
  <2>2. /\ req[w] # None /\ req' = [req EXCEPT ![w] = None] /\ A!Fits(req[w])
        /\ \E reads : db' = [all EXCEPT !.reads = reads]
    BY <1>3, <2>1 DEF A!CommitAnnouncements, A!CommitAs, A!Free
  <2>3. PICK rows : rows = db.announcements
    OBVIOUS
  <2>4. /\ DOMAIN all = DOMAIN db
        /\ all.announcements = IF "announcements" \in DOMAIN req[w]
                               THEN Q!After(rows, req[w].announcements) ELSE rows
    BY <2>1, <2>3, AnnouncementOps DEF AnnouncedInv, A!AfterAll
  <2>5. PICK new : new = db'.announcements
    OBVIOUS
  <2>6. DOMAIN db' = DOMAIN all /\ new = all.announcements
    BY <2>2, <2>4, <2>5 DEF AnnouncedInv
  <2>7. \A a \in DOMAIN rows : {"status", "content"} \subseteq DOMAIN rows[a]
    BY <2>3 DEF AnnouncedInv
  <2>8. /\ \A a \in DOMAIN new : {"status", "content"} \subseteq DOMAIN new[a]
        /\ \A a \in DOMAIN rows : rows[a].status \notin Unpublished =>
               /\ rows[a].status = "active" => a \in DOMAIN new
               /\ a \in DOMAIN new =>
                      /\ new[a].content = rows[a].content
                      /\ new[a].status = "active" => rows[a].status = "active"
    <3>1. CASE "announcements" \notin DOMAIN req[w]
      BY <2>4, <2>6, <2>7, <3>1
    <3>2. CASE "announcements" \in DOMAIN req[w]
      <4>1. PICK ws : ws = req[w].announcements
        OBVIOUS
      <4>2. \A a \in DOMAIN ws : ws[a].op = "insert" => a \notin DOMAIN rows
        BY <2>2, <2>3, <3>2, <4>1 DEF A!Fits
      <4>3. PublishedWrites(rows, ws)
        BY <2>2, <2>3, <3>2, <4>1 DEF AnnouncedInv
      <4>4. new = Q!After(rows, ws)
        BY <2>4, <2>6, <3>2, <4>1
      <4>5. QED
        BY <2>7, <4>2, <4>3, <4>4, PublishedCommitted
    <3>3. QED
      BY <3>1, <3>2
  <2>9. DOMAIN req' = Alone /\ \A v \in Alone : req'[v] = None
    BY <1>1, <2>2 DEF AnnouncedInv
  <2>10. AnnouncedInv'
    BY <2>4, <2>5, <2>6, <2>8, <2>9 DEF AnnouncedInv
  <2>11. A!PublishedStep
    BY <2>3, <2>5, <2>8 DEF A!PublishedStep, Unpublished
  <2>12. QED
    BY <2>10, <2>11
<1>4. ASSUME NEW w \in Alone, A!Rollback(w)
      PROVE  AnnouncedInv' /\ A!PublishedStep
  <2>1. db' = db /\ req' = [req EXCEPT ![w] = None]
    BY <1>4 DEF A!Rollback
  <2>2. DOMAIN req' = Alone /\ \A v \in Alone : req'[v] = None
    BY <1>1, <2>1 DEF AnnouncedInv
  <2>3. QED
    BY <2>1, <2>2 DEF AnnouncedInv, A!PublishedStep
<1>5. ASSUME NEW a, NEW time \in {"publish_at", "expire_at"}, A!Pass(a, time)
      PROVE  AnnouncedInv' /\ A!PublishedStep
  <2>1. req' = req /\ db' = [db EXCEPT !.announcements[a][time] = "past"]
    BY <1>5 DEF A!Pass
  <2>2. PICK rows, new : rows = db.announcements /\ new = db'.announcements
    OBVIOUS
  <2>3. DOMAIN db' = DOMAIN db /\ new = [rows EXCEPT ![a][time] = "past"]
    BY <2>1, <2>2 DEF AnnouncedInv
  <2>4. /\ DOMAIN new = DOMAIN rows
        /\ \A i \in DOMAIN rows : new[i] = rows[i] \/ new[i] = [rows[i] EXCEPT ![time] = "past"]
    BY <2>3
  <2>5. ASSUME NEW i \in DOMAIN rows
        PROVE  /\ DOMAIN new[i] = DOMAIN rows[i] /\ new[i].status = rows[i].status
               /\ new[i].content = rows[i].content
    BY <2>2, <2>4 DEF AnnouncedInv
  <2>6. ASSUME NEW ws, PublishedWrites(rows, ws)
        PROVE  PublishedWrites(new, ws)
    BY <2>4, <2>5, <2>6 DEF PublishedWrites, KeepsPublished
  <2>7. \A i \in DOMAIN new : {"status", "content"} \subseteq DOMAIN new[i]
    BY <2>2, <2>4, <2>5 DEF AnnouncedInv
  <2>8. AnnouncedInv'
    BY <2>1, <2>2, <2>3, <2>6, <2>7 DEF AnnouncedInv
  <2>9. A!PublishedStep
    BY <2>2, <2>4, <2>5 DEF A!PublishedStep
  <2>10. QED
    BY <2>8, <2>9
<1>6. QED
  BY <1>1, <1>2, <1>3, <1>4, <1>5, AdministerHandlers, OtherAnnouncementHandlers DEF A!Next

LEMMA AnnouncedStart ==
    ASSUME part = "announcements", MCInit
    PROVE  AnnouncedInv
<1>1. db = [t \in {"announcements", "reads"} |-> A!NoRows] /\ req = [w \in Alone |-> None]
  BY DEF MCInit, PartInit, A!Init, A!Start
<1>2. DOMAIN db.announcements = {}
  BY <1>1 DEF A!NoRows
<1>3. QED
  BY <1>1, <1>2 DEF AnnouncedInv

-------------------------------------------------------------------------------
(* Onboardings under way *)

\* What a worker's request writes to the templates and the onboardings.
Wrote(changes, t) == IF t \in DOMAIN changes THEN changes[t] ELSE O!NoRows

\* The strengthening of ActiveStep: an onboarding has its template, and no request is
\* about to delete a template under an onboarding, or an onboarding by itself.
UnderWayInv ==
    /\ {"templates", "onboardings"} \subseteq DOMAIN db /\ DOMAIN req = Alone
    /\ \A o \in DOMAIN db.onboardings : o[2] \in DOMAIN db.templates
    /\ \A w \in Alone : req[w] # None =>
           /\ \A t \in DOMAIN Wrote(req[w], "templates") :
                  Wrote(req[w], "templates")[t].op = "delete" => O!Active(t) = {}
           /\ \A o \in DOMAIN Wrote(req[w], "onboardings") :
                  Wrote(req[w], "onboardings")[o].op # "delete"

\* A request that leaves onboardings under way alone.
UnderWayHeld(w) ==
    \E changes : /\ db' = db /\ req' = [req EXCEPT ![w] = changes]
                 /\ \A t \in DOMAIN Wrote(changes, "templates") :
                        Wrote(changes, "templates")[t].op = "delete" => O!Active(t) = {}
                 /\ \A o \in DOMAIN Wrote(changes, "onboardings") :
                        Wrote(changes, "onboardings")[o].op # "delete"

\* Requests that write templates only, onboardings only, or neither.
LEMMA UnderWayWrote ==
    ASSUME NEW w, NEW ws, NEW changes, O!Hold(w, changes) \/ O!HoldNew(w, changes),
           \/ /\ changes = [templates |-> ws]
              /\ \A t \in DOMAIN ws : ws[t].op = "delete" => O!Active(t) = {}
           \/ /\ changes = [onboardings |-> ws]
              /\ \A o \in DOMAIN ws : ws[o].op # "delete"
           \/ changes = [reminders |-> ws]
    PROVE  UnderWayHeld(w)
<1>1. DOMAIN O!NoRows = {}
  BY DEF O!NoRows
<1>2. db' = db /\ req' = [req EXCEPT ![w] = changes]
  BY DEF O!Hold, O!HoldNew
<1>3. \/ DOMAIN changes = {"templates"} /\ changes.templates = ws
      \/ DOMAIN changes = {"onboardings"} /\ changes.onboardings = ws
      \/ DOMAIN changes = {"reminders"}
  OBVIOUS
<1>4. \A t \in DOMAIN Wrote(changes, "templates") :
          Wrote(changes, "templates")[t].op = "delete" => O!Active(t) = {}
  <2>1. CASE /\ changes = [templates |-> ws]
             /\ \A t \in DOMAIN ws : ws[t].op = "delete" => O!Active(t) = {}
    BY <2>1 DEF Wrote
  <2>2. CASE changes = [onboardings |-> ws] \/ changes = [reminders |-> ws]
    BY <1>1, <2>2 DEF Wrote
  <2>3. QED
    BY <2>1, <2>2
<1>5. \A o \in DOMAIN Wrote(changes, "onboardings") :
          Wrote(changes, "onboardings")[o].op # "delete"
  <2>1. CASE changes = [templates |-> ws] \/ changes = [reminders |-> ws]
    BY <1>1, <2>1 DEF Wrote
  <2>2. CASE changes = [onboardings |-> ws] /\ \A o \in DOMAIN ws : ws[o].op # "delete"
    BY <2>2 DEF Wrote
  <2>3. QED
    BY <2>1, <2>2
<1>6. QED
  BY <1>2, <1>4, <1>5 DEF UnderWayHeld

LEMMA DesignUnderWay ==
    ASSUME NEW w, O!Design(w)
    PROVE  UnderWayHeld(w)
<1>1. ASSUME NEW ws, O!Hold(w, [templates |-> ws]) \/ O!HoldNew(w, [templates |-> ws]),
             \A t \in DOMAIN ws : ws[t].op = "delete" => O!Active(t) = {}
      PROVE  UnderWayHeld(w)
  BY <1>1, UnderWayWrote
<1>2. \A row : O!Insert(row).op = "insert"
  BY InsertOp, TemplateOps
<1>3. \A row, cols : O!Assign(row, cols).op = "update"
  BY AssignedColumns, TemplateOps
<1>4. \A cols : O!Update(cols).op = "update"
  BY UpdateOp, TemplateOps
<1>5. ASSUME NEW others, others = O!UnsetDefaults \/ others = O!NoRows, NEW one,
             \A i \in DOMAIN one : one[i].op # "delete", NEW ws, ws = O!Both(others, one)
      PROVE  \A i \in DOMAIN ws : ws[i].op # "delete"
  <2>1. \A i \in DOMAIN others : others[i].op # "delete"
    BY <1>4, <1>5 DEF O!UnsetDefaults, O!NoRows, O!Each
  <2>2. QED
    BY <1>5, <2>1 DEF O!Both
<1>6. ASSUME NEW steps, NEW b, NEW d, O!CreateTemplate(w, steps, b, d)
      PROVE  UnderWayHeld(w)
  <2>1. PICK others : others = IF d THEN O!UnsetDefaults ELSE O!NoRows
    OBVIOUS
  <2>2. PICK write : write = O!Insert([steps |-> steps, is_active |-> b, is_default |-> d])
    OBVIOUS
  <2>3. PICK one : one = [t \in {seq} |-> write]
    OBVIOUS
  <2>4. PICK ws : ws = O!Both(others, one)
    OBVIOUS
  <2>5. \A i \in DOMAIN one : one[i].op # "delete"
    BY <1>2, <2>2, <2>3
  <2>6. others = O!UnsetDefaults \/ others = O!NoRows
    BY <2>1
  <2>7. \A i \in DOMAIN ws : ws[i].op # "delete"
    BY <1>5, <2>4, <2>5, <2>6
  <2>8. O!HoldNew(w, [templates |-> ws])
    BY <1>6, <2>1, <2>2, <2>3, <2>4 DEF O!CreateTemplate
  <2>9. QED
    BY <1>1, <2>7, <2>8
<1>7. ASSUME NEW t, NEW cols, O!UpdateTemplate(w, t, cols)
      PROVE  UnderWayHeld(w)
  <2>1. PICK write : write = O!Assign(db.templates[t], cols)
    OBVIOUS
  <2>2. PICK ws : ws = [i \in {t} |-> write]
    OBVIOUS
  <2>3. \A i \in DOMAIN ws : ws[i].op = "update"
    BY <1>3, <2>1, <2>2
  <2>4. O!Hold(w, [templates |-> ws])
    BY <1>7, <2>1, <2>2 DEF O!UpdateTemplate
  <2>5. QED
    BY <1>1, <2>3, <2>4
<1>8. ASSUME NEW t, O!MakeDefault(w, t)
      PROVE  UnderWayHeld(w)
  <2>1. PICK write : write = O!Update([is_default |-> TRUE])
    OBVIOUS
  <2>2. PICK one : one = [i \in {t} |-> write]
    OBVIOUS
  <2>3. PICK ws : ws = O!Both(O!UnsetDefaults, one)
    OBVIOUS
  <2>4. \A i \in DOMAIN one : one[i].op # "delete"
    BY <1>4, <2>1, <2>2
  <2>5. \A i \in DOMAIN ws : ws[i].op # "delete"
    BY <1>5, <2>3, <2>4
  <2>6. O!Hold(w, [templates |-> ws])
    BY <1>8, <2>1, <2>2, <2>3 DEF O!MakeDefault
  <2>7. QED
    BY <1>1, <2>5, <2>6
<1>9. ASSUME NEW t, O!DeleteTemplate(w, t)
      PROVE  UnderWayHeld(w)
  <2>1. PICK ws : ws = [i \in {t} |-> O!Delete]
    OBVIOUS
  <2>2. O!Active(t) = {} /\ O!Hold(w, [templates |-> ws])
    BY <1>9, <2>1 DEF O!DeleteTemplate
  <2>3. QED
    BY <1>1, <2>1, <2>2
<1>10. QED
  BY <1>6, <1>7, <1>8, <1>9 DEF O!Design

LEMMA ClientUnderWay ==
    ASSUME NEW w, NEW p, NEW t,
           \/ O!StartDefault(w, p) \/ O!StartOnboarding(w, p, t) \/ O!Advance(w, <<p, t>>)
    PROVE  UnderWayHeld(w)
<1>1. ASSUME NEW ws, O!Hold(w, [onboardings |-> ws]), \A o \in DOMAIN ws : ws[o].op # "delete"
      PROVE  UnderWayHeld(w)
  BY <1>1, UnderWayWrote
<1>2. \A row : O!Insert(row).op = "insert"
  BY InsertOp, TemplateOps
<1>3. \A row, cols : O!Assign(row, cols).op = "update"
  BY AssignedColumns, TemplateOps
<1>4. ASSUME NEW o, NEW write, write.op # "delete",
             O!Hold(w, [onboardings |-> [i \in {o} |-> write]])
      PROVE  UnderWayHeld(w)
  <2>1. PICK ws : ws = [i \in {o} |-> write]
    OBVIOUS
  <2>2. \A i \in DOMAIN ws : ws[i].op # "delete"
    BY <1>4, <2>1
  <2>3. QED
    BY <1>1, <1>4, <2>1, <2>2
<1>5. ASSUME NEW u, O!StartOnboarding(w, p, u)
      PROVE  UnderWayHeld(w)
  <2>1. PICK write : write = O!Insert(O!NewOnboarding(u))
    OBVIOUS
  <2>2. write.op # "delete"
    BY <1>2, <2>1
  <2>3. O!Hold(w, [onboardings |-> [i \in {<<p, u>>} |-> write]])
    BY <1>5, <2>1 DEF O!StartOnboarding
  <2>4. QED
    BY <1>4, <2>2, <2>3
<1>6. ASSUME NEW o, NEW s, NEW completed, NEW skipped,
             O!Hold(w, O!Advanced(o, s, completed, skipped))
      PROVE  UnderWayHeld(w)
  <2>1. PICK cols : cols = [completed_steps |-> completed, skipped_steps |-> skipped,
                            current_step |-> O!NextStep(o, s),
                            progress |-> O!Stored(o, s, completed, skipped),
                            status |-> IF O!NextStep(o, s) = None THEN "completed"
                                       ELSE db.onboardings[o].status]
    OBVIOUS
  <2>2. PICK write : write = O!Assign(db.onboardings[o], cols)
    OBVIOUS
  <2>3. write.op # "delete"
    BY <1>3, <2>2
  <2>4. O!Hold(w, [onboardings |-> [i \in {o} |-> write]])
    BY <1>6, <2>1, <2>2 DEF O!Advanced
  <2>5. QED
    BY <1>4, <2>3, <2>4
<1>7. ASSUME NEW o, NEW s, O!CompleteStep(w, o, s) \/ O!SkipStep(w, o, s)
      PROVE  UnderWayHeld(w)
  BY <1>6, <1>7 DEF O!CompleteStep, O!SkipStep, O!Skipped
<1>8. ASSUME NEW o, O!ResetOnboarding(w, o)
      PROVE  UnderWayHeld(w)
  <2>1. PICK write : write = O!Assign(db.onboardings[o], O!NewOnboarding(o[2]))
    OBVIOUS
  <2>2. write.op # "delete"
    BY <1>3, <2>1
  <2>3. O!Hold(w, [onboardings |-> [i \in {o} |-> write]])
    BY <1>8, <2>1 DEF O!ResetOnboarding
  <2>4. QED
    BY <1>4, <2>2, <2>3
<1>9. ASSUME NEW o, O!SendReminder(w, o)
      PROVE  UnderWayHeld(w)
  BY <1>9, UnderWayWrote DEF O!SendReminder
<1>10. QED
  BY <1>5, <1>7, <1>8, <1>9 DEF O!StartDefault, O!Advance

LEMMA UnderWayStep ==
    ASSUME part = "onboarding", UnderWayInv, MCNext
    PROVE  UnderWayInv' /\ O!ActiveStep
<1>1. O!Next /\ \A v, w \in Alone : v = w
  BY AloneAssumption DEF MCNext, RowsNext
<1>2. ASSUME NEW w \in Alone, UnderWayHeld(w)
      PROVE  UnderWayInv' /\ O!ActiveStep
  <2>1. PICK changes :
            /\ db' = db /\ req' = [req EXCEPT ![w] = changes]
            /\ \A t \in DOMAIN Wrote(changes, "templates") :
                   Wrote(changes, "templates")[t].op = "delete" => O!Active(t) = {}
            /\ \A o \in DOMAIN Wrote(changes, "onboardings") :
                   Wrote(changes, "onboardings")[o].op # "delete"
    BY <1>2 DEF UnderWayHeld
  <2>2. DOMAIN req' = Alone /\ \A v \in Alone : req'[v] = changes
    BY <1>1, <2>1 DEF UnderWayInv
  <2>3. \A t : O!Active(t)' = O!Active(t)
    BY <2>1 DEF O!Active
  <2>4. QED
    BY <2>1, <2>2, <2>3 DEF UnderWayInv, O!ActiveStep
<1>3. ASSUME NEW w \in Alone, O!CommitOnboarding(w)
      PROVE  UnderWayInv' /\ O!ActiveStep
  <2>1. PICK all : all = O!AfterAll(req[w])
    OBVIOUS
  <2>2. PICK kept : kept = {o \in DOMAIN all.onboardings : o[2] \in DOMAIN all.templates}
    OBVIOUS
  <2>3. PICK left : left = [o \in kept |-> all.onboardings[o]]
    OBVIOUS
  <2>4. /\ req[w] # None /\ req' = [req EXCEPT ![w] = None]
        /\ \E reminders : db' = [all EXCEPT !.onboardings = left, !.reminders = reminders]
    <3>1. req[w] # None /\ req' = [req EXCEPT ![w] = None]
      BY <1>3 DEF O!CommitOnboarding, O!CommitAs, O!Free
    <3>2. \E reminders : db' = [all EXCEPT !.onboardings = left, !.reminders = reminders]
      <4>1. PICK rest : rest = [r \in {r \in DOMAIN all.reminders : all.reminders[r].onboarding \in kept} |->
                                    all.reminders[r]]
        OBVIOUS
      <4>2. db' = [all EXCEPT !.onboardings = left, !.reminders = rest]
        BY <1>3, <2>1, <2>2, <2>3, <4>1, Zenon DEF O!CommitOnboarding, O!CommitAs
      <4>3. QED
        BY <4>2
    <3>3. QED
      BY <3>1, <3>2
  <2>5. PICK ts, os : ts = Wrote(req[w], "templates") /\ os = Wrote(req[w], "onboardings")
    OBVIOUS
  <2>6. DOMAIN all = DOMAIN db
    BY <2>1 DEF O!AfterAll
  <2>7. DOMAIN all.templates = DOMAIN Q!After(db.templates, ts)
    <3>1. CASE "templates" \in DOMAIN req[w]
      BY <2>1, <2>5, <3>1, TemplateOps DEF UnderWayInv, O!AfterAll, Wrote
    <3>2. CASE "templates" \notin DOMAIN req[w]
      <4>1. DOMAIN ts = {} /\ all.templates = db.templates
        BY <2>1, <2>5, <3>2 DEF UnderWayInv, O!AfterAll, Wrote, O!NoRows
      <4>2. QED
        BY <4>1, NothingWritten
    <3>3. QED
      BY <3>1, <3>2
  <2>8. DOMAIN all.onboardings = DOMAIN Q!After(db.onboardings, os)
    <3>1. CASE "onboardings" \in DOMAIN req[w]
      BY <2>1, <2>5, <3>1, TemplateOps DEF UnderWayInv, O!AfterAll, Wrote
    <3>2. CASE "onboardings" \notin DOMAIN req[w]
      <4>1. DOMAIN os = {} /\ all.onboardings = db.onboardings
        BY <2>1, <2>5, <3>2 DEF UnderWayInv, O!AfterAll, Wrote, O!NoRows
      <4>2. QED
        BY <4>1, NothingWritten
    <3>3. QED
      BY <3>1, <3>2
  <2>9. /\ DOMAIN db' = DOMAIN db /\ db'.templates = all.templates
        /\ DOMAIN db'.onboardings = kept
    BY <2>3, <2>4, <2>6 DEF UnderWayInv
  <2>10. /\ \A t \in DOMAIN ts : ts[t].op = "delete" => O!Active(t) = {}
         /\ \A o \in DOMAIN os : os[o].op # "delete"
    BY <2>4, <2>5 DEF UnderWayInv
  <2>11. ASSUME NEW o \in DOMAIN db.onboardings, db.onboardings[o].status = "in_progress"
         PROVE  o \in kept
    <3>1. o \in DOMAIN all.onboardings
      BY <2>8, <2>10 DEF Q!After
    <3>2. o[2] \in DOMAIN db.templates /\ O!Active(o[2]) # {}
      BY <2>11 DEF UnderWayInv, O!Active
    <3>3. o[2] \in DOMAIN all.templates
      BY <2>7, <2>10, <3>2 DEF Q!After
    <3>4. QED
      BY <2>2, <3>1, <3>3
  <2>12. DOMAIN req' = Alone /\ \A v \in Alone : req'[v] = None
    BY <1>1, <2>4 DEF UnderWayInv
  <2>13. UnderWayInv'
    BY <2>2, <2>9, <2>12 DEF UnderWayInv
  <2>14. QED
    BY <2>9, <2>11, <2>13 DEF O!ActiveStep
<1>4. ASSUME NEW w \in Alone, O!Rollback(w)
      PROVE  UnderWayInv' /\ O!ActiveStep
  <2>1. db' = db /\ req' = [req EXCEPT ![w] = None]
    BY <1>4 DEF O!Rollback
  <2>2. DOMAIN req' = Alone /\ \A v \in Alone : req'[v] = None
    BY <1>1, <2>1 DEF UnderWayInv
  <2>3. QED
    BY <2>1, <2>2 DEF UnderWayInv, O!ActiveStep
<1>5. ASSUME NEW r, O!Age(r)
      PROVE  UnderWayInv' /\ O!ActiveStep
  <2>1. req' = req /\ db' = [db EXCEPT !.reminders[r].recent = FALSE]
    BY <1>5 DEF O!Age
  <2>2. /\ DOMAIN db' = DOMAIN db /\ db'.templates = db.templates
        /\ db'.onboardings = db.onboardings
    BY <2>1 DEF UnderWayInv
  <2>3. \A t : O!Active(t)' = O!Active(t)
    BY <2>2 DEF O!Active
  <2>4. QED
    BY <2>1, <2>2, <2>3 DEF UnderWayInv, O!ActiveStep
<1>6. QED
  BY <1>1, <1>2, <1>3, <1>4, <1>5, DesignUnderWay, ClientUnderWay DEF O!Next

LEMMA UnderWayStart ==
    ASSUME part = "onboarding", MCInit
    PROVE  UnderWayInv
<1>1. /\ db = [t \in {"templates", "onboardings", "reminders"} |-> O!NoRows]
      /\ req = [w \in Alone |-> None]
  BY DEF MCInit, PartInit, O!Init, O!Start
<1>2. DOMAIN db.onboardings = {}
  BY <1>1 DEF O!NoRows
<1>3. QED
  BY <1>1, <1>2 DEF UnderWayInv

-------------------------------------------------------------------------------
(* Surveys and their responses *)

LEMMA SurveyOps ==
    /\ \A rows, ws : S!After(rows, ws) = Q!After(rows, ws)
    /\ \A row : S!Insert(row) = Q!Insert(row)
    /\ \A cols : S!Update(cols) = Q!Update(cols)
    /\ S!Delete = Q!Delete
BY DEF S!After, Q!After, S!Written, Q!Written, S!Insert, Q!Insert, S!Update, Q!Update,
       S!Delete, Q!Delete

\* What a worker's request writes to the surveys and to the responses.
Answering(changes, t) == IF t \in DOMAIN changes THEN changes[t] ELSE S!NoRows

\* A survey whose questions are about to change has no complete response; ...
GoodSurveyWrite(s, write) ==
    /\ write.op \in {"insert", "update", "delete"}
    /\ write.op = "insert" => "questions" \in DOMAIN write.cols
    /\ write.op = "update" /\ "questions" \in DOMAIN write.cols => S!ResponseCount(s) = 0

\* ... a response whose answers are about to be stored has none yet, and a new one is the
\* user's first or one of several that are allowed.
GoodResponseWrite(r, write) ==
    /\ write.op \in {"insert", "update"}
    /\ write.op = "insert" =>
           /\ "answers" \in DOMAIN write.cols
           /\ /\ write.cols.respondent # None
              /\ S!UserResponses(write.cols.survey, write.cols.respondent) # {}
              => db.surveys[write.cols.survey].allow_multiple_responses
    /\ write.op = "update" /\ "answers" \in DOMAIN write.cols /\ r \in DOMAIN db.responses =>
           db.responses[r].answers = {}

GoodAnswering(changes) ==
    /\ \A s \in DOMAIN Answering(changes, "surveys") :
           GoodSurveyWrite(s, Answering(changes, "surveys")[s])
    /\ \A r \in DOMAIN Answering(changes, "responses") :
           GoodResponseWrite(r, Answering(changes, "responses")[r])

\* The strengthening of the three properties of surveys.
SurveysInv ==
    /\ {"surveys", "responses", "invitations"} \subseteq DOMAIN db /\ DOMAIN req = Alone
    /\ \A s \in DOMAIN db.surveys : "questions" \in DOMAIN db.surveys[s]
    /\ \A r \in DOMAIN db.responses : "answers" \in DOMAIN db.responses[r]
    /\ \A w \in Alone : req[w] # None => GoodAnswering(req[w])

SurveysStep == S!QuestionsFrozen /\ S!AnswersKept /\ S!SecondOnlyIfAllowed

SurveysHeld(w) ==
    \E changes : db' = db /\ req' = [req EXCEPT ![w] = changes] /\ GoodAnswering(changes)

\* Requests that write one of the tables.
LEMMA SurveysWrote ==
    ASSUME NEW w, NEW ws, NEW changes, S!Hold(w, changes) \/ S!HoldNew(w, changes),
           \/ changes = [surveys |-> ws] /\ \A s \in DOMAIN ws : GoodSurveyWrite(s, ws[s])
           \/ changes = [responses |-> ws] /\ \A r \in DOMAIN ws : GoodResponseWrite(r, ws[r])
           \/ changes = [invitations |-> ws]
    PROVE  SurveysHeld(w)
<1>1. DOMAIN S!NoRows = {}
  BY DEF S!NoRows
<1>2. db' = db /\ req' = [req EXCEPT ![w] = changes]
  BY DEF S!Hold, S!HoldNew
<1>3. \A s \in DOMAIN Answering(changes, "surveys") :
          GoodSurveyWrite(s, Answering(changes, "surveys")[s])
  <2>1. CASE changes = [surveys |-> ws] /\ \A s \in DOMAIN ws : GoodSurveyWrite(s, ws[s])
    <3>1. Answering(changes, "surveys") = ws
      BY <2>1 DEF Answering
    <3>2. QED
      BY <2>1, <3>1
  <2>2. CASE changes = [responses |-> ws] \/ changes = [invitations |-> ws]
    <3>1. Answering(changes, "surveys") = S!NoRows
      BY <2>2 DEF Answering
    <3>2. QED
      BY <1>1, <3>1
  <2>3. QED
    BY <2>1, <2>2
<1>4. \A r \in DOMAIN Answering(changes, "responses") :
          GoodResponseWrite(r, Answering(changes, "responses")[r])
  <2>1. CASE changes = [responses |-> ws] /\ \A r \in DOMAIN ws : GoodResponseWrite(r, ws[r])
    <3>1. Answering(changes, "responses") = ws
      BY <2>1 DEF Answering
    <3>2. QED
      BY <2>1, <3>1
  <2>2. CASE changes = [surveys |-> ws] \/ changes = [invitations |-> ws]
    <3>1. Answering(changes, "responses") = S!NoRows
      BY <2>2 DEF Answering
    <3>2. QED
      BY <1>1, <3>1
  <2>3. QED
    BY <2>1, <2>2
<1>5. QED
  BY <1>2, <1>3, <1>4 DEF SurveysHeld, GoodAnswering

LEMMA EditHeld ==
    ASSUME NEW w, S!EditSurveys(w)
    PROVE  SurveysHeld(w)
<1>1. ASSUME NEW s, NEW write, GoodSurveyWrite(s, write),
             \/ S!Hold(w, [surveys |-> S!Each({s}, write)])
             \/ S!HoldNew(w, [surveys |-> S!Each({s}, write)])
      PROVE  SurveysHeld(w)
  <2>1. PICK ws : ws = S!Each({s}, write)
    OBVIOUS
  <2>2. \A i \in DOMAIN ws : i = s /\ ws[i] = write
    BY <2>1 DEF S!Each
  <2>3. \A i \in DOMAIN ws : GoodSurveyWrite(i, ws[i])
    BY <1>1, <2>2
  <2>4. S!Hold(w, [surveys |-> ws]) \/ S!HoldNew(w, [surveys |-> ws])
    BY <1>1, <2>1
  <2>5. QED
    BY <2>3, <2>4, SurveysWrote
<1>2. ASSUME NEW s, NEW cols, S!Hold(w, [surveys |-> S!Each({s}, S!Update(cols))]),
             "questions" \in DOMAIN cols => S!ResponseCount(s) = 0
      PROVE  SurveysHeld(w)
  <2>1. PICK write : write = S!Update(cols)
    OBVIOUS
  <2>2. write.op = "update" /\ write.cols = cols
    BY <2>1, SurveyOps, UpdateOp
  <2>3. GoodSurveyWrite(s, write)
    BY <1>2, <2>2 DEF GoodSurveyWrite
  <2>4. QED
    BY <1>1, <1>2, <2>1, <2>3
<1>3. ASSUME NEW questions, NEW a, NEW m, S!CreateSurvey(w, questions, a, m)
      PROVE  SurveysHeld(w)
  <2>1. PICK row : row = S!NewSurvey(questions, a, m)
    OBVIOUS
  <2>2. PICK write : write = S!Insert(row)
    OBVIOUS
  <2>3. write.op = "insert" /\ write.cols = row
    BY <2>2, SurveyOps, InsertOp
  <2>4. "questions" \in DOMAIN row
    BY <2>1 DEF S!NewSurvey
  <2>5. GoodSurveyWrite(seq, write)
    BY <2>3, <2>4 DEF GoodSurveyWrite
  <2>6. S!HoldNew(w, [surveys |-> S!Each({seq}, write)])
    BY <1>3, <2>1, <2>2 DEF S!CreateSurvey
  <2>7. QED
    BY <1>1, <2>5, <2>6
<1>4. ASSUME NEW s, NEW questions, S!UpdateQuestions(w, s, questions)
      PROVE  SurveysHeld(w)
  <2>1. PICK cols : cols = [questions |-> questions]
    OBVIOUS
  <2>2. S!ResponseCount(s) = 0 /\ S!Hold(w, [surveys |-> S!Each({s}, S!Update(cols))])
    BY <1>4, <2>1 DEF S!UpdateQuestions, S!QuestionsEditable
  <2>3. QED
    BY <1>2, <2>2
<1>5. ASSUME NEW s, NEW value, S!UpdateSettings(w, s, "allow_multiple_responses", value)
      PROVE  SurveysHeld(w)
  <2>1. PICK cols : cols = [c \in {"allow_multiple_responses"} |-> value]
    OBVIOUS
  <2>2. "questions" \notin DOMAIN cols
    BY <2>1
  <2>3. S!Hold(w, [surveys |-> S!Each({s}, S!Update(cols))])
    BY <1>5, <2>1 DEF S!UpdateSettings
  <2>4. QED
    BY <1>2, <2>2, <2>3
<1>6. ASSUME NEW s, S!PublishSurvey(w, s) \/ S!CloseSurvey(w, s)
      PROVE  SurveysHeld(w)
  <2>1. PICK cols :
            /\ cols \in {S!Published, S!Closed}
            /\ S!Hold(w, [surveys |-> S!Each({s}, S!Update(cols))])
    BY <1>6 DEF S!PublishSurvey, S!CloseSurvey
  <2>2. "questions" \notin DOMAIN cols
    BY <2>1 DEF S!Published, S!Closed
  <2>3. QED
    BY <1>2, <2>1, <2>2
<1>7. ASSUME NEW s, S!DeleteSurvey(w, s)
      PROVE  SurveysHeld(w)
  <2>1. PICK write : write = S!Delete
    OBVIOUS
  <2>2. write.op = "delete"
    BY <2>1, SurveyOps, DeleteOp
  <2>3. GoodSurveyWrite(s, write)
    BY <2>2 DEF GoodSurveyWrite
  <2>4. S!Hold(w, [surveys |-> S!Each({s}, write)])
    BY <1>7, <2>1 DEF S!DeleteSurvey
  <2>5. QED
    BY <1>1, <2>3, <2>4
<1>8. ASSUME NEW s, NEW u, S!CreateInvitation(w, s, u)
      PROVE  SurveysHeld(w)
  BY <1>8, SurveysWrote DEF S!CreateInvitation
<1>9. QED
  BY <1>3, <1>4, <1>5, <1>6, <1>7, <1>8 DEF S!EditSurveys

LEMMA RespondHeld ==
    ASSUME NEW w, S!Respond(w)
    PROVE  SurveysHeld(w)
<1>1. ASSUME NEW r, NEW write, GoodResponseWrite(r, write),
             \/ S!Hold(w, [responses |-> S!Each({r}, write)])
             \/ S!HoldNew(w, [responses |-> S!Each({r}, write)])
      PROVE  SurveysHeld(w)
  <2>1. PICK ws : ws = S!Each({r}, write)
    OBVIOUS
  <2>2. \A i \in DOMAIN ws : i = r /\ ws[i] = write
    BY <2>1 DEF S!Each
  <2>3. \A i \in DOMAIN ws : GoodResponseWrite(i, ws[i])
    BY <1>1, <2>2
  <2>4. S!Hold(w, [responses |-> ws]) \/ S!HoldNew(w, [responses |-> ws])
    BY <1>1, <2>1
  <2>5. QED
    BY <2>3, <2>4, SurveysWrote
<1>2. ASSUME NEW r, NEW cols, S!Hold(w, [responses |-> S!Each({r}, S!Update(cols))]),
             "answers" \in DOMAIN cols => db.responses[r].answers = {}
      PROVE  SurveysHeld(w)
  <2>1. PICK write : write = S!Update(cols)
    OBVIOUS
  <2>2. write.op = "update" /\ write.cols = cols
    BY <2>1, SurveyOps, UpdateOp
  <2>3. GoodResponseWrite(r, write)
    BY <1>2, <2>2 DEF GoodResponseWrite
  <2>4. QED
    BY <1>1, <1>2, <2>1, <2>3
<1>3. \A r, answers : "answers" \in DOMAIN S!Answered(r, answers) => db.responses[r].answers = {}
  BY DEF S!Answered, S!NoRows
<1>4. ASSUME NEW s, NEW u, S!StartResponse(w, s, u)
      PROVE  SurveysHeld(w)
  <2>1. PICK row : row = S!NewResponse(s, u)
    OBVIOUS
  <2>2. PICK write : write = S!Insert(row)
    OBVIOUS
  <2>3. write.op = "insert" /\ write.cols = row
    BY <2>2, SurveyOps, InsertOp
  <2>4. "answers" \in DOMAIN row /\ row.survey = s /\ row.respondent \in {None, u}
    BY <2>1 DEF S!NewResponse
  <2>5. /\ S!UserResponses(s, u) # {} => db.surveys[s].allow_multiple_responses
        /\ S!HoldNew(w, [responses |-> S!Each({seq}, write)])
    BY <1>4, <2>1, <2>2 DEF S!StartResponse, S!MayStart
  <2>6. /\ write.cols.respondent # None
        /\ S!UserResponses(write.cols.survey, write.cols.respondent) # {}
        => db.surveys[write.cols.survey].allow_multiple_responses
    BY <2>3, <2>4, <2>5
  <2>7. GoodResponseWrite(seq, write)
    BY <2>3, <2>4, <2>6 DEF GoodResponseWrite
  <2>8. QED
    BY <1>1, <2>5, <2>7
<1>5. ASSUME NEW r, NEW answers, S!UpdateResponse(w, r, answers)
      PROVE  SurveysHeld(w)
  BY <1>2, <1>3, <1>5 DEF S!UpdateResponse
<1>6. ASSUME NEW r, NEW answers, S!SubmitResponse(w, r, answers)
      PROVE  SurveysHeld(w)
  <2>1. PICK cols : cols = S!Both(S!Submitted, S!Answered(r, answers))
    OBVIOUS
  <2>2. "answers" \in DOMAIN cols => "answers" \in DOMAIN S!Answered(r, answers)
    BY <2>1 DEF S!Both, S!Submitted
  <2>3. S!Hold(w, [responses |-> S!Each({r}, S!Update(cols))])
    BY <1>6, <2>1 DEF S!SubmitResponse
  <2>4. QED
    BY <1>2, <1>3, <2>2, <2>3
<1>7. QED
  BY <1>4, <1>5, <1>6 DEF S!Respond

\* The rows of a table after the writes of a request.
LEMMA SurveyRows ==
    ASSUME SurveysInv, NEW w, NEW t \in {"surveys", "responses"}
    PROVE  LET after == Q!After(db[t], Answering(req[w], t))
           IN  /\ DOMAIN S!AfterAll(req[w])[t] = DOMAIN after
               /\ \A i \in DOMAIN after : S!AfterAll(req[w])[t][i] = after[i]
<1>1. t \in DOMAIN db
  BY DEF SurveysInv
<1>2. CASE t \in DOMAIN req[w]
  BY <1>1, <1>2, SurveyOps DEF S!AfterAll, Answering
<1>3. CASE t \notin DOMAIN req[w]
  <2>1. PICK ws : ws = Answering(req[w], t)
    OBVIOUS
  <2>2. DOMAIN ws = {} /\ S!AfterAll(req[w])[t] = db[t]
    BY <1>1, <1>3, <2>1 DEF S!AfterAll, Answering, S!NoRows
  <2>3. DOMAIN Q!After(db[t], ws) = DOMAIN db[t]
        /\ \A i \in DOMAIN db[t] : Q!After(db[t], ws)[i] = db[t][i]
    BY <2>2, NothingWritten
  <2>4. QED
    BY <2>1, <2>2, <2>3
<1>4. QED
  BY <1>2, <1>3

\* What a commit leaves of surveys and responses.
LEMMA SurveysCommitted ==
    ASSUME SurveysInv, NEW w \in Alone, S!CommitSurveys(w)
    PROVE  /\ req[w] # None /\ req' = [req EXCEPT ![w] = None] /\ DOMAIN db' = DOMAIN db
           /\ \A t \in {"surveys", "responses"} :
                  /\ DOMAIN db'[t] \subseteq DOMAIN Q!After(db[t], Answering(req[w], t))
                  /\ \A i \in DOMAIN db'[t] :
                         /\ db'[t][i] = Q!After(db[t], Answering(req[w], t))[i]
                         /\ i \in DOMAIN Answering(req[w], t)
                            /\ Answering(req[w], t)[i].op = "insert" => i \notin DOMAIN db[t]
<1>1. PICK all : all = S!AfterAll(req[w])
  OBVIOUS
<1>2. /\ req[w] # None /\ S!Fits(req[w]) /\ req' = [req EXCEPT ![w] = None]
      /\ \E rs, left : /\ db' = [all EXCEPT !.responses = rs, !.invitations = left]
                       /\ DOMAIN rs \subseteq DOMAIN all["responses"]
                       /\ \A r \in DOMAIN rs : rs[r] = all["responses"][r]
  <2>1. PICK orphans, lost :
            /\ orphans = {i \in DOMAIN all["responses"] :
                              all["responses"][i].survey \notin DOMAIN all.surveys}
            /\ lost = {i \in DOMAIN all["invitations"] :
                           all["invitations"][i].survey \notin DOMAIN all.surveys}
    OBVIOUS
  <2>2. PICK rs : rs = [i \in DOMAIN all["responses"] \ orphans |-> all["responses"][i]]
    OBVIOUS
  <2>3. PICK left : left = [i \in DOMAIN all["invitations"] \ lost |-> all["invitations"][i]]
    OBVIOUS
  <2>4. S!CommitAs(w, [all EXCEPT !.responses = rs, !.invitations = left])
    BY <1>1, <2>1, <2>2, <2>3 DEF S!CommitSurveys
  <2>5. /\ DOMAIN rs \subseteq DOMAIN all["responses"]
        /\ \A r \in DOMAIN rs : rs[r] = all["responses"][r]
    BY <2>2
  <2>6. /\ req[w] # None /\ S!Fits(req[w]) /\ req' = [req EXCEPT ![w] = None]
        /\ db' = [all EXCEPT !.responses = rs, !.invitations = left]
    BY <2>4 DEF S!CommitAs, S!Free
  <2>7. QED
    BY <2>5, <2>6
<1>3. DOMAIN all = DOMAIN db
  BY <1>1 DEF S!AfterAll
<1>4. /\ DOMAIN db' = DOMAIN db /\ db'["surveys"] = all["surveys"]
      /\ DOMAIN db'["responses"] \subseteq DOMAIN all["responses"]
      /\ \A r \in DOMAIN db'["responses"] : db'["responses"][r] = all["responses"][r]
  BY <1>2, <1>3 DEF SurveysInv
<1>5. ASSUME NEW t \in {"surveys", "responses"}, NEW i \in DOMAIN db'[t]
      PROVE  /\ i \in DOMAIN Q!After(db[t], Answering(req[w], t))
             /\ db'[t][i] = Q!After(db[t], Answering(req[w], t))[i]
  BY <1>1, <1>4, <1>5, SurveyRows
<1>6. ASSUME NEW t, NEW i \in DOMAIN Answering(req[w], t), Answering(req[w], t)[i].op = "insert"
      PROVE  i \notin DOMAIN db[t]
  BY <1>2, <1>6 DEF S!Fits, Answering, S!NoRows
<1>7. QED
  BY <1>2, <1>4, <1>5, <1>6

LEMMA SurveysCommit ==
    ASSUME SurveysInv, NEW w \in Alone, S!CommitSurveys(w)
    PROVE  SurveysInv' /\ SurveysStep
<1>1. PICK ss, rs : ss = Answering(req[w], "surveys") /\ rs = Answering(req[w], "responses")
  OBVIOUS
<1>2. /\ req[w] # None /\ req' = [req EXCEPT ![w] = None] /\ DOMAIN db' = DOMAIN db
      /\ \A s \in DOMAIN db'.surveys :
             /\ s \in DOMAIN Q!After(db.surveys, ss)
             /\ db'.surveys[s] = Q!After(db.surveys, ss)[s]
             /\ s \in DOMAIN ss /\ ss[s].op = "insert" => s \notin DOMAIN db.surveys
      /\ \A r \in DOMAIN db'.responses :
             /\ r \in DOMAIN Q!After(db.responses, rs)
             /\ db'.responses[r] = Q!After(db.responses, rs)[r]
             /\ r \in DOMAIN rs /\ rs[r].op = "insert" => r \notin DOMAIN db.responses
  BY <1>1, SurveysCommitted
<1>3. /\ \A s \in DOMAIN ss : GoodSurveyWrite(s, ss[s])
      /\ \A r \in DOMAIN rs : GoodResponseWrite(r, rs[r])
  BY <1>1, <1>2 DEF SurveysInv, GoodAnswering
<1>4. ASSUME NEW s \in DOMAIN db'.surveys
      PROVE  /\ "questions" \in DOMAIN db'.surveys[s]
             /\ s \in DOMAIN db.surveys /\ S!ResponseCount(s) > 0 =>
                    db'.surveys[s].questions = db.surveys[s].questions
  <2>1. CASE s \in DOMAIN ss /\ ss[s].op = "insert" /\ db'.surveys[s] = ss[s].cols
    BY <1>2, <1>3, <2>1 DEF GoodSurveyWrite
  <2>2. CASE /\ s \in DOMAIN db.surveys /\ s \in DOMAIN ss
             /\ ss[s].op \notin {"insert", "delete"}
             /\ db'.surveys[s] = Q!Written(db.surveys[s], ss[s])
    <3>1. PICK row, write : row = db.surveys[s] /\ write = ss[s]
      OBVIOUS
    <3>2. /\ write.op = "update" /\ "questions" \in DOMAIN row
          /\ "questions" \in DOMAIN write.cols => S!ResponseCount(s) = 0
      BY <1>3, <2>2, <3>1 DEF GoodSurveyWrite, SurveysInv
    <3>3. /\ DOMAIN Q!Written(row, write) = DOMAIN row
          /\ Q!Written(row, write).questions =
                 IF "questions" \in DOMAIN write.cols THEN write.cols.questions ELSE row.questions
      BY <3>2, Updating
    <3>4. QED
      BY <2>2, <3>1, <3>2, <3>3
  <2>3. CASE s \in DOMAIN db.surveys /\ s \notin DOMAIN ss /\ db'.surveys[s] = db.surveys[s]
    BY <2>3 DEF SurveysInv
  <2>4. QED
    BY <1>2, <2>1, <2>2, <2>3, RowAfter
<1>5. ASSUME NEW r \in DOMAIN db'.responses
      PROVE  /\ "answers" \in DOMAIN db'.responses[r]
             /\ \/ /\ r \in DOMAIN db.responses
                   /\ db.responses[r].answers \subseteq db'.responses[r].answers
                \/ /\ r \notin DOMAIN db.responses /\ r \in DOMAIN rs
                   /\ rs[r].op = "insert" /\ db'.responses[r] = rs[r].cols
  <2>1. CASE r \in DOMAIN rs /\ rs[r].op = "insert" /\ db'.responses[r] = rs[r].cols
    BY <1>2, <1>3, <2>1 DEF GoodResponseWrite
  <2>2. CASE /\ r \in DOMAIN db.responses /\ r \in DOMAIN rs
             /\ rs[r].op \notin {"insert", "delete"}
             /\ db'.responses[r] = Q!Written(db.responses[r], rs[r])
    <3>1. PICK row, write : row = db.responses[r] /\ write = rs[r]
      OBVIOUS
    <3>2. /\ write.op = "update" /\ "answers" \in DOMAIN row
          /\ "answers" \in DOMAIN write.cols => row.answers = {}
      BY <1>3, <2>2, <3>1 DEF GoodResponseWrite, SurveysInv
    <3>3. /\ DOMAIN Q!Written(row, write) = DOMAIN row
          /\ Q!Written(row, write).answers =
                 IF "answers" \in DOMAIN write.cols THEN write.cols.answers ELSE row.answers
      BY <3>2, Updating
    <3>4. QED
      BY <2>2, <3>1, <3>2, <3>3
  <2>3. CASE r \in DOMAIN db.responses /\ r \notin DOMAIN rs
             /\ db'.responses[r] = db.responses[r]
    BY <2>3 DEF SurveysInv
  <2>4. QED
    BY <1>2, <2>1, <2>2, <2>3, RowAfter
<1>6. DOMAIN req' = Alone /\ \A v \in Alone : req'[v] = None
  BY <1>2, AloneAssumption DEF SurveysInv
<1>7. SurveysInv'
  BY <1>2, <1>4, <1>5, <1>6 DEF SurveysInv
<1>8. S!QuestionsFrozen
  BY <1>4 DEF S!QuestionsFrozen
<1>9. S!AnswersKept
  BY <1>5 DEF S!AnswersKept
<1>10. S!SecondOnlyIfAllowed
  <2>1. SUFFICES ASSUME NEW r \in DOMAIN db'.responses \ DOMAIN db.responses,
                        db'.responses[r].respondent # None,
                        S!UserResponses(db'.responses[r].survey,
                                        db'.responses[r].respondent) # {}
                 PROVE  db.surveys[db'.responses[r].survey].allow_multiple_responses
    BY DEF S!SecondOnlyIfAllowed
  <2>2. r \in DOMAIN rs /\ rs[r].op = "insert" /\ db'.responses[r] = rs[r].cols
    BY <1>5, <2>1
  <2>3. QED
    BY <1>3, <2>1, <2>2 DEF GoodResponseWrite
<1>11. QED
  BY <1>7, <1>8, <1>9, <1>10 DEF SurveysStep

\* While the database stays as it is, so do the conditions on what is pending.
LEMMA SurveysKept ==
    ASSUME SurveysInv, db' = db, DOMAIN req' = Alone,
           \A w \in Alone : req'[w] = None \/ GoodAnswering(req'[w])
    PROVE  SurveysInv' /\ SurveysStep
<1>1. \A s : S!ResponseCount(s)' = S!ResponseCount(s)
  BY DEF S!ResponseCount, S!Responses
<1>2. \A s, u : S!UserResponses(s, u)' = S!UserResponses(s, u)
  BY DEF S!UserResponses, S!Responses
<1>3. ASSUME NEW changes, GoodAnswering(changes)
      PROVE  GoodAnswering(changes)'
  BY <1>1, <1>2, <1>3 DEF GoodAnswering, GoodSurveyWrite, GoodResponseWrite
<1>4. SurveysInv'
  BY <1>3 DEF SurveysInv, GoodAnswering
<1>5. SurveysStep
  BY DEF SurveysStep, S!QuestionsFrozen, S!AnswersKept, S!SecondOnlyIfAllowed
<1>6. QED
  BY <1>4, <1>5

LEMMA SurveysNext ==
    ASSUME part = "surveys", SurveysInv, MCNext
    PROVE  SurveysInv' /\ SurveysStep
<1>1. S!Next /\ \A v, w \in Alone : v = w
  BY AloneAssumption DEF MCNext, RowsNext
<1>2. ASSUME NEW w \in Alone, SurveysHeld(w)
      PROVE  SurveysInv' /\ SurveysStep
  <2>1. PICK changes : /\ db' = db /\ req' = [req EXCEPT ![w] = changes]
                       /\ GoodAnswering(changes)
    BY <1>2 DEF SurveysHeld
  <2>2. DOMAIN req' = Alone /\ \A v \in Alone : req'[v] = changes
    BY <1>1, <2>1 DEF SurveysInv
  <2>3. QED
    BY <2>1, <2>2, SurveysKept
<1>3. ASSUME NEW w \in Alone, S!Rollback(w)
      PROVE  SurveysInv' /\ SurveysStep
  <2>1. db' = db /\ req' = [req EXCEPT ![w] = None]
    BY <1>3 DEF S!Rollback
  <2>2. DOMAIN req' = Alone /\ \A v \in Alone : req'[v] = None
    BY <1>1, <2>1 DEF SurveysInv
  <2>3. QED
    BY <2>1, <2>2, SurveysKept
<1>4. QED
  BY <1>1, <1>2, <1>3, EditHeld, RespondHeld, SurveysCommit DEF S!Next

LEMMA SurveysStart ==
    ASSUME part = "surveys", MCInit
    PROVE  SurveysInv
<1>1. /\ db = [t \in {"surveys", "responses", "invitations"} |-> S!NoRows]
      /\ req = [w \in Alone |-> None]
  BY DEF MCInit, PartInit, S!Init, S!Start
<1>2. DOMAIN S!NoRows = {}
  BY DEF S!NoRows
<1>3. /\ db.surveys = S!NoRows /\ db.responses = S!NoRows
      /\ {"surveys", "responses", "invitations"} \subseteq DOMAIN db
  BY <1>1
<1>4. QED
  BY <1>1, <1>2, <1>3 DEF SurveysInv

-------------------------------------------------------------------------------
(* History *)

\* What is already there is not rewritten: the questions of a survey with complete
\* responses, answers, the text of a published announcement, an onboarding under way, and
\* that a further response was allowed, one request at a time; a running report
\* execution, whatever two requests do.  For any rows (update_survey, update_answers,
\* start_response, update_announcement, delete_template, cleanup_old_executions).
THEOREM HistoryStays == MCSpec => HistoryKept
<1> DEFINE Inv == /\ part = "surveys" => SurveysInv
                  /\ part = "announcements" => AnnouncedInv
                  /\ part = "onboarding" => UnderWayInv
                  /\ part = "reports" => ReportInv
           Kept == /\ part = "surveys" => SurveysStep
                   /\ part = "announcements" => A!PublishedStep
                   /\ part = "onboarding" => O!ActiveStep
                   /\ part = "reports" => R!RunningStep
<1>1. MCInit => Inv
  BY SurveysStart, AnnouncedStart, UnderWayStart, ReportStart
<1>2. Inv /\ [MCNext]_mcvars => Inv' /\ [Kept]_mcvars
  <2>1. CASE MCNext
    BY <2>1, SurveysNext, AnnouncedStep, UnderWayStep, ReportStep, SamePart
  <2>2. CASE UNCHANGED mcvars
    <3>1. UNCHANGED <<db, seq, req, part>>
      BY <2>2 DEF mcvars
    <3>2. /\ SurveysInv => SurveysInv'
          /\ AnnouncedInv => AnnouncedInv'
          /\ ReportInv => ReportInv'
      <4>1. SurveysInv => SurveysInv'
        BY <3>1, SurveysKept DEF SurveysInv
      <4>2. AnnouncedInv => AnnouncedInv'
        BY <3>1 DEF AnnouncedInv
      <4>3. ReportInv => ReportInv'
        BY <3>1 DEF ReportInv
      <4>4. QED
        BY <4>1, <4>2, <4>3
    <3>3. UnderWayInv => UnderWayInv'
      BY <3>1 DEF UnderWayInv, O!Active
    <3>4. QED
      BY <2>2, <3>1, <3>2, <3>3
  <2>3. QED
    BY <2>1, <2>2
<1>3. [Kept]_mcvars =>
          [/\ part = "surveys" => (S!QuestionsFrozen /\ S!AnswersKept /\ S!SecondOnlyIfAllowed)
           /\ part = "announcements" => A!PublishedStep
           /\ part = "onboarding" => O!ActiveStep
           /\ part = "reports" => R!RunningStep]_mcvars
  BY DEF SurveysStep
<1>4. QED
  BY <1>1, <1>2, <1>3, PTL DEF MCSpec, HistoryKept

-------------------------------------------------------------------------------
(* Tables written together *)

\* What a transaction writes to a table.
WritesTo(changes, t) == IF t \in DOMAIN changes THEN changes[t] ELSE Q!NoRows

\* Each table after a transaction has the rows that its writes make.
LEMMA MergedTable ==
    ASSUME NEW changes, NEW t \in DOMAIN db
    PROVE  LET after == Q!After(db[t], WritesTo(changes, t))
           IN  /\ DOMAIN Merged(changes)[t] = DOMAIN after
               /\ \A i \in DOMAIN after : Merged(changes)[t][i] = after[i]
<1>1. CASE t \in DOMAIN changes
  BY <1>1 DEF Merged, WritesTo
<1>2. CASE t \notin DOMAIN changes
  <2>1. WritesTo(changes, t) = Q!NoRows /\ DOMAIN Q!NoRows = {}
    BY <1>2 DEF WritesTo, Q!NoRows
  <2>2. Merged(changes)[t] = db[t]
    BY <1>2 DEF Merged
  <2>3. QED
    BY <2>1, <2>2, NothingWritten
<1>3. QED
  BY <1>1, <1>2

\* Rows that nobody deletes stay, and those inserted are there.
LEMMA NothingDeleted ==
    ASSUME NEW rows, NEW ws, \A i \in DOMAIN ws : ws[i].op # "delete"
    PROVE  /\ DOMAIN rows \subseteq DOMAIN Q!After(rows, ws)
           /\ \A i \in DOMAIN ws : ws[i].op = "insert" => i \in DOMAIN Q!After(rows, ws)
BY DEF Q!After

-------------------------------------------------------------------------------
(* Messages *)

ConversationColumns == [type |-> M!ConversationType, is_archived |-> BOOLEAN]
\* The count is bounded by the messages there are, and not by its own column.
ParticipantColumns ==
    [is_admin |-> BOOLEAN, left |-> BOOLEAN, unread_count |-> Nat, last_read_at |-> 0..3]
MessageColumns ==
    [conversation |-> 1..3, sender |-> Person, is_system |-> BOOLEAN, is_deleted |-> BOOLEAN]
MessageSchema ==
    [conversations |-> [c \in 1..3 |-> ConversationColumns],
     participants |-> [p \in (1..3) \X Person |-> ParticipantColumns],
     messages |-> [m \in 1..3 |-> MessageColumns]]

\* The schema of conversations has the model's types, but for the unread count.
LEMMA MessageRows ==
    /\ DOMAIN MessageSchema = {"conversations", "participants", "messages"}
    /\ DOMAIN MessageSchema.conversations = 1..3
    /\ \A c \in 1..3 : MessageSchema.conversations[c] = ConversationColumns
    /\ DOMAIN MessageSchema.participants = (1..3) \X Person
    /\ \A p \in (1..3) \X Person : MessageSchema.participants[p] = ParticipantColumns
    /\ DOMAIN MessageSchema.messages = 1..3
    /\ \A m \in 1..3 : MessageSchema.messages[m] = MessageColumns
    /\ Cols(ConversationColumns) = M!Conversation
    /\ Cols(MessageColumns) = M!Message
    /\ Cols(ParticipantColumns) = [is_admin : BOOLEAN, left : BOOLEAN, unread_count : Nat, last_read_at : 0..3]
<1>1. \A r : r \in Cols(ConversationColumns) <=> r \in M!Conversation
  BY InCols DEF ConversationColumns, M!Conversation
<1>2. \A r : r \in Cols(MessageColumns) <=> r \in M!Message
  BY InCols DEF MessageColumns, M!Message
<1>3. \A r : r \in Cols(ParticipantColumns) <=>
          r \in [is_admin : BOOLEAN, left : BOOLEAN, unread_count : Nat, last_read_at : 0..3]
  BY InCols DEF ParticipantColumns
<1>4. QED
  BY <1>1, <1>2, <1>3 DEF MessageSchema

\* Conversations write rows as Requests does.
LEMMA MessageOps ==
    /\ \A rows, ws : M!After(rows, ws) = Q!After(rows, ws)
    /\ \A row : M!Insert(row) = Q!Insert(row)
    /\ \A cols : M!Update(cols) = Q!Update(cols)
    /\ \A row, cols : M!Assign(row, cols) = Q!Assign(row, cols)
    /\ \A col : M!Increase(col).op = "increase" /\ M!Increase(col).cols = col
BY DEF M!After, Q!After, M!Written, Q!Written, M!Insert, Q!Insert, M!Update, Q!Update,
       M!Assign, Q!Assign, M!Increase

\* Conversations are committed and rolled back as Transacts says.
LEMMA MessageTransacts ==
    ASSUME NEW schema, NEW w, seq \in Nat,
           \/ M!Commit(w) \/ M!Rollback(w)
           \/ \E changes : /\ TypedChanges(schema, changes)
                           /\ M!Hold(w, changes) \/ M!HoldNew(w, changes)
    PROVE  Transacts(schema, w)
<1>1. \A changes : M!AfterAll(changes) = Merged(changes)
  BY MessageOps DEF M!AfterAll, Merged
<1>2. QED
  BY <1>1 DEF Transacts, M!Hold, M!HoldNew, M!Commit, M!CommitAs, M!Free, M!Rollback

\* The new message of a transaction that a participant is counted another one for.
Announces(changes, p, m) ==
    LET writes == WritesTo(changes, "messages") IN
    /\ m \in DOMAIN writes /\ writes[m].op = "insert"
    /\ writes[m].cols.conversation = p[1] /\ writes[m].cols.sender # p[2]
    /\ ~writes[m].cols.is_system
    /\ m \notin DOMAIN db.messages /\ m > db.participants[p].last_read_at

GoodCount(changes, n, p, write) ==
    \/ /\ write.op = "insert" /\ write.cols.unread_count = 0 /\ write.cols.last_read_at < n
       /\ \/ p[1] \in DOMAIN db.conversations
          \/ LET writes == WritesTo(changes, "conversations")
             IN  p[1] \in DOMAIN writes /\ writes[p[1]].op = "insert"
    \/ /\ write.op = "update"
       /\ \/ DOMAIN write.cols \cap {"unread_count", "last_read_at"} = {}
          \/ /\ DOMAIN write.cols = {"unread_count", "last_read_at"}
             /\ write.cols.unread_count = 0 /\ write.cols.last_read_at < n
    \/ /\ write.op = "increase" /\ write.cols = "unread_count"
       /\ \E m : Announces(changes, p, m)

GoodMessage(n, m, write) ==
    \/ /\ write.op = "insert" /\ m < n
       /\ <<write.cols.conversation, write.cols.sender>> \in DOMAIN db.participants
    \/ write.op = "update" /\ DOMAIN write.cols \subseteq {"is_deleted"}

\* What a request writes before the next id is n.
GoodChanges(n, changes) ==
    /\ \A c \in DOMAIN WritesTo(changes, "conversations") :
           WritesTo(changes, "conversations")[c].op \in {"insert", "update"}
    /\ \A p \in DOMAIN WritesTo(changes, "participants") :
           GoodCount(changes, n, p, WritesTo(changes, "participants")[p])
    /\ \A m \in DOMAIN WritesTo(changes, "messages") :
           GoodMessage(n, m, WritesTo(changes, "messages")[m])

\* The strengthening of UnreadArrived: rows refer to rows, ids are those handed out, nothing
\* is counted that is not there, now and after the request in progress.
GoodConversations ==
    /\ seq <= 4
    /\ \A p \in DOMAIN db.participants :
           /\ p[1] \in DOMAIN db.conversations /\ db.participants[p].last_read_at < seq
           /\ db.participants[p].unread_count <= Cardinality(M!Arrived(p[1], p[2]))
    /\ \A m \in DOMAIN db.messages :
           m < seq /\ <<db.messages[m].conversation, db.messages[m].sender>> \in DOMAIN db.participants

MessagesInv ==
    /\ Typed(MessageSchema, Alone) /\ GoodConversations
    /\ \A w \in Alone : req[w] # None => GoodChanges(seq, req[w])

\* Every participant's new messages are among finitely many.
LEMMA ArrivedFinite ==
    ASSUME TypedRows(MessageSchema, db), NEW c, NEW u
    PROVE  /\ IsFiniteSet(M!Arrived(c, u)) /\ Cardinality(M!Arrived(c, u)) \in 0..3
           /\ M!Arrived(c, u) \subseteq 1..3
<1>1. M!Arrived(c, u) \subseteq 1..3
  BY MessageRows DEF TypedRows, M!Arrived
<1>2. IsFiniteSet(1..3) /\ Cardinality(1..3) = 3
  <2>1. PICK a \in Int, b \in Int : a = 1 /\ b = 3
    OBVIOUS
  <2>2. IsFiniteSet(a..b)
    BY FS_Interval
  <2>3. Cardinality(a..b) = IF a > b THEN 0 ELSE b - a + 1
    BY FS_Interval, Zenon
  <2>4. QED
    BY <2>1, <2>2, <2>3
<1>3. QED
  BY <1>1, <1>2, FS_Subset, FS_CardinalityType

\* What the handlers write: columns, and whether the rows fit.
LEMMA ConversationWrites ==
    ASSUME NEW c \in 1..3, NEW type \in M!ConversationType
    PROVE  /\ TypedWrite(MessageSchema.conversations, c, M!NewConversation(type))
           /\ M!NewConversation(type).op = "insert"
<1>1. PICK off \in BOOLEAN : off = FALSE
  BY Zenon
<1>2. PICK row : row = [type |-> type, is_archived |-> off] /\ row = [type |-> type, is_archived |-> FALSE]
  BY <1>1, Zenon
<1>3. row \in Cols(ConversationColumns)
  BY <1>2, MessageRows DEF M!Conversation
<1>4. M!NewConversation(type) = Q!Insert(row)
  BY <1>2, MessageOps DEF M!NewConversation
<1>5. PICK table : table = MessageSchema.conversations /\ DOMAIN table = 1..3 /\ table[c] = ConversationColumns
  BY MessageRows
<1>6. QED
  BY <1>3, <1>4, <1>5, TypedInsert, InsertOp

\* What the handlers write to a participant's row fits.
LEMMA ParticipantWrites ==
    ASSUME NEW p \in (1..3) \X Person
    PROVE  /\ \A b \in BOOLEAN :
                  LET write == M!NewParticipant(b)
                  IN  /\ TypedWrite(MessageSchema.participants, p, write)
                      /\ write.op = "insert" /\ write.cols.unread_count = 0
                      /\ write.cols.last_read_at = 0
           /\ \A cols : Fit(cols, ParticipantColumns) =>
                  /\ TypedWrite(MessageSchema.participants, p, M!Update(cols))
                  /\ \A row : TypedWrite(MessageSchema.participants, p, M!Assign(row, cols))
           /\ TypedWrite(MessageSchema.participants, p, M!Increase("unread_count"))
<1>1. PICK table : /\ table = MessageSchema.participants /\ DOMAIN table = (1..3) \X Person
                   /\ table[p] = ParticipantColumns
  BY MessageRows
<1>2. ASSUME NEW b \in BOOLEAN
      PROVE  /\ TypedWrite(table, p, M!NewParticipant(b))
             /\ M!NewParticipant(b).op = "insert" /\ M!NewParticipant(b).cols.unread_count = 0
             /\ M!NewParticipant(b).cols.last_read_at = 0
  <2>1. PICK off \in BOOLEAN : off = FALSE
    BY Zenon
  <2>2. PICK row : /\ row = [is_admin |-> b, left |-> off, unread_count |-> 0, last_read_at |-> 0]
                   /\ row = [is_admin |-> b, left |-> FALSE, unread_count |-> 0, last_read_at |-> 0]
    BY <2>1, Zenon
  <2>3. row \in Cols(ParticipantColumns) /\ row.unread_count = 0 /\ row.last_read_at = 0
    BY <2>2, MessageRows
  <2>4. M!NewParticipant(b) = Q!Insert(row)
    BY <2>2, MessageOps DEF M!NewParticipant
  <2>5. QED
    BY <1>1, <2>3, <2>4, TypedInsert, InsertOp
<1>3. ASSUME NEW cols, Fit(cols, ParticipantColumns)
      PROVE  /\ TypedWrite(table, p, M!Update(cols))
             /\ \A row : TypedWrite(table, p, M!Assign(row, cols))
  BY <1>1, <1>3, TypedColumns, MessageOps
<1>4. TypedWrite(table, p, M!Increase("unread_count"))
  <2>1. "unread_count" \in DOMAIN ParticipantColumns /\ ParticipantColumns["unread_count"] = Nat
    BY DEF ParticipantColumns
  <2>2. PICK write : write = M!Increase("unread_count") /\ write.op = "increase" /\ write.cols = "unread_count"
    BY MessageOps
  <2>3. QED
    BY <1>1, <2>1, <2>2 DEF TypedWrite
<1>5. QED
  BY <1>1, <1>2, <1>3, <1>4

\* A new message fits, under the next id.
LEMMA MessageWrites ==
    ASSUME seq \in 1..3, NEW c \in 1..3, NEW u \in Person, NEW system \in BOOLEAN,
           NEW writes, writes = M!NewMessage(c, u, system)
    PROVE  /\ DOMAIN writes = {seq} /\ TypedWrite(MessageSchema.messages, seq, writes[seq])
           /\ writes[seq].op = "insert" /\ writes[seq].cols.conversation = c
           /\ writes[seq].cols.sender = u /\ writes[seq].cols.is_system = system
<1>1. PICK off \in BOOLEAN : off = FALSE
  BY Zenon
<1>2. PICK row : /\ row = [conversation |-> c, sender |-> u, is_system |-> system, is_deleted |-> off]
                 /\ row = [conversation |-> c, sender |-> u, is_system |-> system, is_deleted |-> FALSE]
  BY <1>1, Zenon
<1>3. /\ row \in Cols(MessageColumns) /\ row.conversation = c /\ row.sender = u
      /\ row.is_system = system
  BY <1>2, MessageRows DEF M!Message
<1>4. M!NewMessage(c, u, system) = [k \in {seq} |-> Q!Insert(row)]
  BY <1>2, MessageOps DEF M!NewMessage, M!Row
<1>5. PICK table : table = MessageSchema.messages /\ DOMAIN table = 1..3 /\ table[seq] = MessageColumns
  BY MessageRows
<1>6. QED
  BY <1>3, <1>4, <1>5, TypedInsert, InsertOp

\* A request has run whose writes are good.
MessageHeld(w) ==
    \E changes, n : /\ TypedChanges(MessageSchema, changes) /\ GoodChanges(n, changes)
                    /\ db' = db /\ req' = [req EXCEPT ![w] = changes]
                    /\ seq' = n /\ n \in {seq, seq + 1} /\ n <= 4

\* A request that holds good writes.
LEMMA MessageHolds ==
    ASSUME MessagesInv, NEW w, NEW changes, NEW n, TypedChanges(MessageSchema, changes),
           GoodChanges(n, changes),
           \/ n = seq /\ M!Hold(w, changes)
           \/ n = seq + 1 /\ M!HoldNew(w, changes)
    PROVE  MessageHeld(w)
BY DEF M!Hold, M!HoldNew, MessageHeld, MessagesInv, GoodConversations, Typed

\* Rows of conversations, as handlers read them.
LEMMA MessageTypes ==
    ASSUME MessagesInv
    PROVE  /\ seq \in 1..4 /\ DOMAIN db = {"conversations", "participants", "messages"}
           /\ \A c \in DOMAIN db.conversations : c \in 1..3 /\ db.conversations[c] \in M!Conversation
           /\ \A p \in DOMAIN db.participants :
                  /\ p \in (1..3) \X Person /\ p[1] \in DOMAIN db.conversations
                  /\ db.participants[p].unread_count \in Nat /\ db.participants[p].last_read_at \in 0..3
                  /\ DOMAIN db.participants[p] = {"is_admin", "left", "unread_count", "last_read_at"}
                  /\ db.participants[p].last_read_at < seq
           /\ \A m \in DOMAIN db.messages :
                  /\ m \in 1..3 /\ m < seq /\ db.messages[m] \in M!Message
                  /\ <<db.messages[m].conversation, db.messages[m].sender>> \in DOMAIN db.participants
<1>1. /\ \A c \in DOMAIN db.conversations : c \in 1..3 /\ db.conversations[c] \in M!Conversation
      /\ \A p \in DOMAIN db.participants :
             p \in (1..3) \X Person /\ db.participants[p] \in Cols(ParticipantColumns)
      /\ \A m \in DOMAIN db.messages : m \in 1..3 /\ db.messages[m] \in M!Message
      /\ DOMAIN db = {"conversations", "participants", "messages"} /\ seq \in Nat \ {0}
  BY MessageRows DEF MessagesInv, Typed, TypedRows
<1>2. \A r \in Cols(ParticipantColumns) :
          /\ r.unread_count \in Nat /\ r.last_read_at \in 0..3
          /\ DOMAIN r = {"is_admin", "left", "unread_count", "last_read_at"}
  BY MessageRows
<1>3. QED
  BY <1>1, <1>2 DEF MessagesInv, GoodConversations

\* A new conversation and its participants, nobody with unread messages.
LEMMA ConversationHeld ==
    ASSUME MessagesInv, NEW w, NEW u \in Person, NEW type \in M!ConversationType,
           NEW others \in SUBSET Person, M!Create(w, u, type, others)
    PROVE  MessageHeld(w)
<1>1. PICK ps : ps = [p \in {seq} \X (others \cup {u}) |-> M!NewParticipant(p[2] = u)]
  OBVIOUS
<1>2. PICK cs : cs = [k \in {seq} |-> M!NewConversation(type)]
  OBVIOUS
<1>3. PICK changes : changes = [conversations |-> cs, participants |-> ps]
  OBVIOUS
<1>4. M!HoldNew(w, changes) /\ seq \in 1..3
  BY <1>1, <1>2, <1>3, MessageTypes DEF M!Create, M!Row, M!HoldNew
<1>5. DOMAIN changes = {"conversations", "participants"} /\ changes.conversations = cs /\ changes.participants = ps
  BY <1>3
<1>6. ASSUME NEW p \in DOMAIN ps
      PROVE  /\ TypedWrite(MessageSchema.participants, p, ps[p])
             /\ ps[p].op = "insert" /\ ps[p].cols.unread_count = 0 /\ ps[p].cols.last_read_at = 0
  <2>1. PICK b \in BOOLEAN : b = (p[2] = u)
    BY Zenon
  <2>2. ps[p] = M!NewParticipant(b) /\ p \in (1..3) \X Person
    BY <1>1, <1>4, <2>1
  <2>3. QED
    BY <2>2, ParticipantWrites
<1>7. DOMAIN cs = {seq} /\ TypedWrite(MessageSchema.conversations, seq, cs[seq]) /\ cs[seq].op = "insert"
  BY <1>2, <1>4, ConversationWrites
<1>8. TypedChanges(MessageSchema, changes)
  BY <1>5, <1>6, <1>7, MessageRows DEF TypedChanges
<1>9. /\ WritesTo(changes, "conversations") = cs /\ WritesTo(changes, "participants") = ps
      /\ DOMAIN WritesTo(changes, "messages") = {}
  BY <1>5 DEF WritesTo, Q!NoRows
<1>10. \A p \in DOMAIN ps : p[1] = seq
  BY <1>1
<1>11. GoodChanges(seq + 1, changes)
  BY <1>4, <1>6, <1>7, <1>9, <1>10 DEF GoodChanges, GoodCount
<1>12. QED
  BY <1>4, <1>8, <1>11, MessageHolds

\* One new message of a participant, and what it does to the participants.
LEMMA MessageSent ==
    ASSUME MessagesInv, NEW w, NEW c, NEW u \in Person, NEW system \in BOOLEAN, NEW ps,
           <<c, u>> \in DOMAIN db.participants,
           M!HoldNew(w, [messages |-> M!NewMessage(c, u, system), participants |-> ps]),
           \A p \in DOMAIN ps :
               /\ TypedWrite(MessageSchema.participants, p, ps[p])
               /\ \/ /\ ps[p].op = "insert" /\ ps[p].cols.unread_count = 0
                     /\ ps[p].cols.last_read_at = 0 /\ p[1] \in DOMAIN db.conversations
                  \/ ps[p].op = "update" /\ DOMAIN ps[p].cols \subseteq {"left"}
                  \/ /\ ps[p].op = "increase" /\ ps[p].cols = "unread_count" /\ ~system
                     /\ p[1] = c /\ p[2] # u /\ p \in DOMAIN db.participants
    PROVE  MessageHeld(w)
<1>1. PICK ms : ms = M!NewMessage(c, u, system)
  OBVIOUS
<1>2. PICK changes : changes = [messages |-> ms, participants |-> ps]
  OBVIOUS
<1>3. M!HoldNew(w, changes) /\ seq \in 1..3 /\ c \in 1..3
  BY <1>1, <1>2, MessageTypes DEF M!HoldNew
<1>4. /\ DOMAIN ms = {seq} /\ TypedWrite(MessageSchema.messages, seq, ms[seq])
      /\ ms[seq].op = "insert" /\ ms[seq].cols.conversation = c
      /\ ms[seq].cols.sender = u /\ ms[seq].cols.is_system = system
  <2>1. seq \in 1..3 /\ c \in 1..3 /\ u \in Person /\ system \in BOOLEAN
    BY <1>3
  <2>2. DOMAIN ms = {seq}
    BY <1>1 DEF M!NewMessage, M!Row
  <2>3. TypedWrite(MessageSchema.messages, seq, ms[seq])
    BY <1>1, <2>1, MessageWrites
  <2>4. ms[seq].op = "insert" /\ ms[seq].cols.conversation = c /\ ms[seq].cols.sender = u
    BY <1>1, <2>1, MessageWrites
  <2>5. ms[seq].cols.is_system = system
    BY <1>1, <2>1, MessageWrites
  <2>6. QED
    BY <2>2, <2>4, <2>5, <2>3
<1>5. DOMAIN changes = {"messages", "participants"} /\ changes.messages = ms /\ changes.participants = ps
  BY <1>2
<1>6. TypedChanges(MessageSchema, changes)
  BY <1>4, <1>5, MessageRows DEF TypedChanges
<1>7. /\ WritesTo(changes, "messages") = ms /\ WritesTo(changes, "participants") = ps
      /\ DOMAIN WritesTo(changes, "conversations") = {}
  BY <1>5 DEF WritesTo, Q!NoRows
<1>8. ASSUME NEW p \in DOMAIN ps
      PROVE  GoodCount(changes, seq + 1, p, ps[p])
  <2>1. CASE ps[p].op = "insert"
    BY <1>3, <2>1 DEF GoodCount
  <2>2. CASE ps[p].op = "update"
    BY <2>2 DEF GoodCount
  <2>3. CASE ps[p].op = "increase"
    <3>1. /\ ps[p].cols = "unread_count" /\ ~system /\ p[1] = c /\ p[2] # u
          /\ p \in DOMAIN db.participants
      BY <2>3
    <3>2. seq \notin DOMAIN db.messages
      <4>1. \A m \in DOMAIN db.messages : m \in 1..3 /\ m < seq
        BY MessageTypes
      <4>2. QED
        BY <1>3, <4>1
    <3>3. seq > db.participants[p].last_read_at
      BY <1>3, <3>1, MessageTypes
    <3>4. Announces(changes, p, seq)
      BY <1>4, <1>7, <3>1, <3>2, <3>3 DEF Announces
    <3>5. QED
      BY <2>3, <3>1, <3>4 DEF GoodCount
  <2>4. QED
    BY <2>1, <2>2, <2>3
<1>9. GoodChanges(seq + 1, changes)
  BY <1>3, <1>4, <1>7, <1>8 DEF GoodChanges, GoodMessage
<1>10. QED
  BY <1>3, <1>6, <1>9, MessageHolds

\* A write that is good whatever else is written.
GoodAlone(t, i, write) ==
    \/ t = "conversations" /\ write.op = "update"
    \/ t = "messages" /\ GoodMessage(seq, i, write)
    \/ t = "participants" /\ \A changes : GoodCount(changes, seq, i, write)

\* A single good write makes good changes.
LEMMA MessageAlone ==
    ASSUME MessagesInv, NEW w, NEW t, NEW i, NEW write, TypedWrite(MessageSchema[t], i, write),
           GoodAlone(t, i, write), NEW changes, DOMAIN changes = {t},
           DOMAIN changes[t] = {i}, changes[t][i] = write, M!Hold(w, changes)
    PROVE  MessageHeld(w)
<1>1. TypedChanges(MessageSchema, changes)
  BY MessageRows DEF TypedChanges, GoodAlone
<1>2. /\ \A s : DOMAIN WritesTo(changes, s) = IF s = t THEN {i} ELSE {}
      /\ WritesTo(changes, t)[i] = write
  BY DEF WritesTo, Q!NoRows
<1>3. GoodChanges(seq, changes)
  BY <1>2 DEF GoodAlone, GoodChanges
<1>4. QED
  BY <1>1, <1>3, MessageHolds

\* Every handler of conversations makes good changes.
LEMMA MessageHandlers ==
    ASSUME MessagesInv, NEW w \in Alone, M!Next, ~M!Commit(w), ~M!Rollback(w),
           \A v \in Alone : v = w
    PROVE  MessageHeld(w)
<1>1. ASSUME NEW u \in Person, NEW type \in M!ConversationType, NEW others \in SUBSET Person,
             M!CreateConversation(w, u, type, others)
      PROVE  MessageHeld(w)
  BY <1>1, ConversationHeld DEF M!CreateConversation
<1>2. ASSUME NEW u \in Person, NEW v \in Person, M!StartDirect(w, u, v)
      PROVE  MessageHeld(w)
  <2>1. "direct" \in M!ConversationType /\ {v} \in SUBSET Person
    BY DEF M!ConversationType
  <2>2. QED
    BY <1>2, <2>1, ConversationHeld DEF M!StartDirect
<1>3. ASSUME NEW c \in 1..3, NEW u \in Person, M!ArchiveConversation(w, c, u)
      PROVE  MessageHeld(w)
  <2>1. PICK on \in BOOLEAN : on = TRUE
    BY Zenon
  <2>2. PICK cols : cols = [is_archived |-> on] /\ cols = [is_archived |-> TRUE]
    BY <2>1, Zenon
  <2>3. Fit(cols, ConversationColumns)
    BY <2>2 DEF Fit, ConversationColumns
  <2>4. PICK table : table = MessageSchema.conversations /\ table[c] = ConversationColumns
    BY MessageRows
  <2>5. PICK write : write = Q!Assign(db.conversations[c], cols) /\ write.op = "update"
    BY AssignedColumns
  <2>6. TypedWrite(MessageSchema.conversations, c, write)
    BY <2>3, <2>4, <2>5, TypedColumns
  <2>7. PICK changes : changes = [conversations |-> [k \in {c} |-> write]]
    OBVIOUS
  <2>8. M!Hold(w, changes)
    BY <1>3, <2>2, <2>5, <2>7, MessageOps DEF M!ArchiveConversation, M!Row
  <2>9. PICK t : t = "conversations"
    OBVIOUS
  <2>10. /\ TypedWrite(MessageSchema[t], c, write) /\ DOMAIN changes = {t}
         /\ DOMAIN changes[t] = {c} /\ changes[t][c] = write
         /\ GoodAlone(t, c, write)
    BY <2>5, <2>6, <2>7, <2>9 DEF GoodAlone
  <2>11. QED
    BY <2>8, <2>10, MessageAlone
<1>4. ASSUME NEW m \in 1..3, NEW u \in Person, M!DeleteMessage(w, m, u)
      PROVE  MessageHeld(w)
  <2>1. PICK on \in BOOLEAN : on = TRUE
    BY Zenon
  <2>2. PICK cols : cols = [is_deleted |-> on] /\ cols = [is_deleted |-> TRUE]
    BY <2>1, Zenon
  <2>3. Fit(cols, MessageColumns)
    BY <2>2 DEF Fit, MessageColumns
  <2>4. PICK table : table = MessageSchema.messages /\ table[m] = MessageColumns
    BY MessageRows
  <2>5. PICK write : write = Q!Assign(db.messages[m], cols)
    OBVIOUS
  <2>6. write.op = "update" /\ DOMAIN write.cols \subseteq {"is_deleted"}
    BY <2>2, <2>5, AssignedColumns
  <2>7. TypedWrite(MessageSchema.messages, m, write)
    BY <2>3, <2>4, <2>5, TypedColumns
  <2>8. PICK changes : changes = [messages |-> [k \in {m} |-> write]]
    OBVIOUS
  <2>9. M!Hold(w, changes)
    BY <1>4, <2>2, <2>5, <2>8, MessageOps DEF M!DeleteMessage, M!Row
  <2>10. PICK t : t = "messages"
    OBVIOUS
  <2>11. GoodMessage(seq, m, write)
    BY <2>6 DEF GoodMessage
  <2>12. /\ TypedWrite(MessageSchema[t], m, write) /\ DOMAIN changes = {t}
         /\ DOMAIN changes[t] = {m} /\ changes[t][m] = write
         /\ GoodAlone(t, m, write)
    BY <2>7, <2>8, <2>10, <2>11 DEF GoodAlone
  <2>13. QED
    BY <2>9, <2>12, MessageAlone
<1>5. ASSUME NEW c \in 1..3, NEW u \in Person, M!MarkRead(w, c, u)
      PROVE  MessageHeld(w)
  <2>1. PICK n : n = seq - 1 /\ n \in 0..3 /\ n < seq
    BY MessageTypes
  <2>2. PICK cols : cols = [unread_count |-> 0, last_read_at |-> n]
    OBVIOUS
  <2>3. Fit(cols, ParticipantColumns) /\ cols.unread_count = 0 /\ cols.last_read_at = n
        /\ DOMAIN cols = {"unread_count", "last_read_at"}
    BY <2>1, <2>2 DEF Fit, ParticipantColumns
  <2>4. PICK p : p = <<c, u>>
    OBVIOUS
  <2>5. p \in (1..3) \X Person
    BY <2>4
  <2>6. PICK write : write = Q!Update(cols) /\ write.op = "update" /\ write.cols = cols
    BY UpdateOp
  <2>7. TypedWrite(MessageSchema.participants, p, write)
    BY <2>3, <2>6, <2>5, ParticipantWrites, MessageOps
  <2>8. PICK changes : changes = [participants |-> [k \in {p} |-> write]]
    OBVIOUS
  <2>9. M!Hold(w, changes)
    BY <1>5, <2>1, <2>2, <2>4, <2>6, <2>8, MessageOps DEF M!MarkRead, M!Row
  <2>10. PICK t : t = "participants"
    OBVIOUS
  <2>11. \A any : GoodCount(any, seq, p, write)
    BY <2>1, <2>3, <2>6 DEF GoodCount
  <2>12. /\ TypedWrite(MessageSchema[t], p, write) /\ DOMAIN changes = {t}
         /\ DOMAIN changes[t] = {p} /\ changes[t][p] = write
         /\ GoodAlone(t, p, write)
    BY <2>7, <2>8, <2>10, <2>11 DEF GoodAlone
  <2>13. QED
    BY <2>9, <2>12, MessageAlone
<1>6. ASSUME NEW c \in 1..3, NEW u \in Person, M!SendMessage(w, c, u)
      PROVE  MessageHeld(w)
  <2>1. PICK off \in BOOLEAN : off = FALSE
    BY Zenon
  <2>2. PICK ps : ps = M!IncrementUnread(c, u)
    OBVIOUS
  <2>3. <<c, u>> \in DOMAIN db.participants
        /\ M!HoldNew(w, [messages |-> M!NewMessage(c, u, off), participants |-> ps])
    BY <1>6, <2>1, <2>2, Zenon DEF M!SendMessage, M!IsParticipant, M!Member
  <2>4. ASSUME NEW p \in DOMAIN ps
        PROVE  /\ TypedWrite(MessageSchema.participants, p, ps[p])
               /\ ps[p].op = "increase" /\ ps[p].cols = "unread_count" /\ ~off
               /\ p[1] = c /\ p[2] # u /\ p \in DOMAIN db.participants
    <3>1. /\ p \in DOMAIN db.participants /\ p[1] = c /\ p[2] # u
          /\ ps[p] = M!Increase("unread_count")
      BY <2>2 DEF M!IncrementUnread
    <3>2. p \in (1..3) \X Person
      BY <3>1, MessageTypes
    <3>3. QED
      BY <2>1, <3>1, <3>2, ParticipantWrites, MessageOps
  <2>5. QED
    BY <2>3, <2>4, MessageSent
<1>7. ASSUME NEW c \in 1..3, NEW u \in Person, NEW v \in Person, NEW write,
             <<c, u>> \in DOMAIN db.participants,
             TypedWrite(MessageSchema.participants, <<c, v>>, write),
             \/ /\ write.op = "insert" /\ write.cols.unread_count = 0
                /\ write.cols.last_read_at = 0 /\ c \in DOMAIN db.conversations
             \/ write.op = "update" /\ DOMAIN write.cols \subseteq {"left"},
             M!HoldNew(w, [messages |-> M!NewMessage(c, u, TRUE),
                           participants |-> M!Row(<<c, v>>, write)])
      PROVE  MessageHeld(w)
  <2>1. PICK on \in BOOLEAN : on = TRUE
    BY Zenon
  <2>2. PICK ps : ps = M!Row(<<c, v>>, write)
    OBVIOUS
  <2>3. M!HoldNew(w, [messages |-> M!NewMessage(c, u, on), participants |-> ps])
    BY <1>7, <2>1, <2>2, Zenon
  <2>4. \A p \in DOMAIN ps : p = <<c, v>> /\ p[1] = c /\ ps[p] = write
    BY <2>2 DEF M!Row
  <2>5. QED
    BY <1>7, <2>3, <2>4, MessageSent
<1>8. ASSUME NEW c \in 1..3, NEW u \in Person, NEW v \in Person,
             M!AddParticipant(w, c, u, v) \/ M!RemoveParticipant(w, c, u, v)
      PROVE  MessageHeld(w)
  <2>1. PICK off \in BOOLEAN, on \in BOOLEAN : off = FALSE /\ on = TRUE
    BY Zenon
  <2>2. ASSUME NEW left \in BOOLEAN
        PROVE  Fit([left |-> left], ParticipantColumns)
    BY DEF Fit, ParticipantColumns
  <2>3. <<c, v>> \in (1..3) \X Person /\ <<c, v>>[1] = c
    OBVIOUS
  <2>4. <<c, u>> \in DOMAIN db.participants
    BY <1>8 DEF M!AddParticipant, M!RemoveParticipant, M!MayRemove, M!IsAdmin, M!IsParticipant, M!Member
  <2>5. c \in DOMAIN db.conversations
    <3>1. PICK p \in DOMAIN db.participants : p = <<c, u>> /\ p[1] = c
      BY <2>4
    <3>2. QED
      BY <3>1, MessageTypes
  <2>6. CASE M!AddParticipant(w, c, u, v)
    <3>1. PICK cols : cols = [left |-> off] /\ cols = [left |-> FALSE]
      BY <2>1, Zenon
    <3>2. PICK write : write = M!Joined(c, v)
      OBVIOUS
    <3>3. CASE M!Member(c, v)
      <4>1. write = M!Assign(db.participants[<<c, v>>], cols)
        BY <3>1, <3>2, <3>3 DEF M!Joined
      <4>2. TypedWrite(MessageSchema.participants, <<c, v>>, write)
        BY <2>2, <2>3, <3>1, <4>1, ParticipantWrites
      <4>3. write.op = "update" /\ DOMAIN write.cols \subseteq {"left"}
        BY <3>1, <4>1, AssignedColumns, MessageOps
      <4>4. QED
        BY <1>7, <2>4, <2>6, <3>2, <4>2, <4>3 DEF M!AddParticipant
    <3>4. CASE ~M!Member(c, v)
      <4>1. write = M!NewParticipant(off)
        BY <2>1, <3>2, <3>4, Zenon DEF M!Joined
      <4>2. QED
        BY <1>7, <2>3, <2>4, <2>5, <2>6, <3>2, <4>1, ParticipantWrites DEF M!AddParticipant
    <3>5. QED
      BY <3>3, <3>4
  <2>7. CASE M!RemoveParticipant(w, c, u, v)
    <3>1. PICK cols : cols = [left |-> on] /\ cols = [left |-> TRUE]
      BY <2>1, Zenon
    <3>2. PICK write : write = M!Update(cols)
      OBVIOUS
    <3>3. write.op = "update" /\ DOMAIN write.cols \subseteq {"left"}
      BY <3>1, <3>2, UpdateOp, MessageOps
    <3>4. TypedWrite(MessageSchema.participants, <<c, v>>, write)
      BY <2>2, <2>3, <3>1, <3>2, ParticipantWrites
    <3>5. QED
      BY <1>7, <2>4, <2>7, <3>1, <3>2, <3>3, <3>4 DEF M!RemoveParticipant
  <2>8. QED
    BY <1>8, <2>6, <2>7
<1>9. QED
  BY <1>1, <1>2, <1>3, <1>4, <1>5, <1>6, <1>8 DEF M!Next

\* The tables after a request has been committed.
LEMMA MessagesAfter ==
    ASSUME MessagesInv, NEW w \in Alone, M!Commit(w), NEW changes, changes = req[w]
    PROVE  /\ GoodChanges(seq, changes) /\ DOMAIN db' = {"conversations", "participants", "messages"}
           /\ \A t \in DOMAIN db : LET after == Q!After(db[t], WritesTo(changes, t))
                                  IN  /\ DOMAIN db'[t] = DOMAIN after
                                      /\ \A i \in DOMAIN after : db'[t][i] = after[i]
           /\ \A m \in DOMAIN WritesTo(changes, "messages") :
                  WritesTo(changes, "messages")[m].op = "insert" => m \notin DOMAIN db.messages
<1>1. req[w] # None /\ M!Fits(changes) /\ db' = M!AfterAll(changes)
  BY DEF M!Commit, M!CommitAs, M!Free
<1>2. db' = Merged(changes)
  BY <1>1, MessageOps DEF M!AfterAll, Merged
<1>3. DOMAIN db' = {"conversations", "participants", "messages"}
  BY <1>2, MessageTypes DEF Merged
<1>4. \A m \in DOMAIN WritesTo(changes, "messages") :
          WritesTo(changes, "messages")[m].op = "insert" => m \notin DOMAIN db.messages
  BY <1>1 DEF M!Fits, WritesTo, Q!NoRows
<1>5. GoodChanges(seq, changes)
  BY <1>1 DEF MessagesInv
<1>6. QED
  BY <1>2, <1>3, <1>4, <1>5, MergedTable

\* Conversations and participants stay; messages stay and keep what they are counted by.
LEMMA MessagesStay ==
    ASSUME MessagesInv, NEW w \in Alone, M!Commit(w)
    PROVE  /\ DOMAIN db.conversations \subseteq DOMAIN db'.conversations
           /\ DOMAIN db.participants \subseteq DOMAIN db'.participants
           /\ \A c \in DOMAIN WritesTo(req[w], "conversations") :
                  WritesTo(req[w], "conversations")[c].op = "insert" => c \in DOMAIN db'.conversations
           /\ \A m \in DOMAIN db.messages :
                  /\ m \in DOMAIN db'.messages
                  /\ db'.messages[m].conversation = db.messages[m].conversation
                  /\ db'.messages[m].sender = db.messages[m].sender
                  /\ db'.messages[m].is_system = db.messages[m].is_system
           /\ \A m \in DOMAIN WritesTo(req[w], "messages") :
                  WritesTo(req[w], "messages")[m].op = "insert" =>
                      /\ m \in DOMAIN db'.messages
                      /\ db'.messages[m] = WritesTo(req[w], "messages")[m].cols
<1>1. PICK changes : changes = req[w]
  OBVIOUS
<1>2. PICK cs : cs = WritesTo(changes, "conversations") /\ \A c \in DOMAIN cs : cs[c].op \in {"insert", "update"}
  BY <1>1, MessagesAfter DEF GoodChanges
<1>3. PICK ps : ps = WritesTo(changes, "participants") /\ \A p \in DOMAIN ps : ps[p].op \in {"insert", "update", "increase"}
  BY <1>1, MessagesAfter DEF GoodChanges, GoodCount
<1>4. PICK ms : ms = WritesTo(changes, "messages")
  OBVIOUS
<1>5. \A m \in DOMAIN ms : /\ GoodMessage(seq, m, ms[m])
                           /\ ms[m].op = "insert" => m \notin DOMAIN db.messages
  BY <1>1, <1>4, MessagesAfter DEF GoodChanges
<1>6. /\ DOMAIN db'.conversations = DOMAIN Q!After(db.conversations, cs)
      /\ DOMAIN db'.participants = DOMAIN Q!After(db.participants, ps)
      /\ DOMAIN db'.messages = DOMAIN Q!After(db.messages, ms)
      /\ \A m \in DOMAIN db'.messages : db'.messages[m] = Q!After(db.messages, ms)[m]
  BY <1>1, <1>2, <1>3, <1>4, MessagesAfter, MessageTypes
<1>7. \A m \in DOMAIN ms : ms[m].op \in {"insert", "update"}
  BY <1>5 DEF GoodMessage
<1>8. ASSUME NEW m \in DOMAIN db.messages
      PROVE  /\ m \in DOMAIN db'.messages
             /\ db'.messages[m].conversation = db.messages[m].conversation
             /\ db'.messages[m].sender = db.messages[m].sender
             /\ db'.messages[m].is_system = db.messages[m].is_system
  <2>1. m \in DOMAIN db'.messages
    BY <1>6, <1>7, NothingDeleted
  <2>2. {"conversation", "sender", "is_system"} \subseteq DOMAIN db.messages[m]
    BY MessageTypes DEF M!Message
  <2>3. PICK row : row = Q!After(db.messages, ms)[m] /\ row = db'.messages[m]
    BY <1>6, <2>1
  <2>4. CASE m \in DOMAIN ms /\ row = Q!Written(db.messages[m], ms[m])
    <3>1. ms[m].op = "update" /\ DOMAIN ms[m].cols \subseteq {"is_deleted"}
      BY <1>5, <2>4 DEF GoodMessage
    <3>2. QED
      BY <2>1, <2>2, <2>3, <2>4, <3>1, Updating
  <2>5. CASE row = db.messages[m]
    BY <2>1, <2>3, <2>5
  <2>6. QED
    BY <1>5, <1>6, <2>1, <2>3, <2>4, <2>5, RowAfter
<1>9. ASSUME NEW m \in DOMAIN ms, ms[m].op = "insert"
      PROVE  m \in DOMAIN db'.messages /\ db'.messages[m] = ms[m].cols
  <2>1. m \in DOMAIN db'.messages
    BY <1>6, <1>7, <1>9, NothingDeleted
  <2>2. QED
    BY <1>6, <1>9, <2>1, RowAfter
<1>10. /\ DOMAIN db.conversations \subseteq DOMAIN db'.conversations
       /\ \A c \in DOMAIN cs : cs[c].op = "insert" => c \in DOMAIN db'.conversations
  BY <1>2, <1>6, NothingDeleted
<1>11. DOMAIN db.participants \subseteq DOMAIN db'.participants
  BY <1>3, <1>6, NothingDeleted
<1>12. QED
  BY <1>1, <1>2, <1>4, <1>8, <1>9, <1>10, <1>11

\* Who has unread messages after a request has as many that arrived.
LEMMA CountsAfter ==
    ASSUME MessagesInv, NEW w \in Alone, M!Commit(w), TypedRows(MessageSchema, db)',
           NEW p \in DOMAIN db'.participants
    PROVE  /\ p[1] \in DOMAIN db'.conversations /\ db'.participants[p].last_read_at < seq
           /\ db'.participants[p].unread_count <= Cardinality(M!Arrived(p[1], p[2])')
<1>1. p \in (1..3) \X Person /\ p = <<p[1], p[2]>> /\ DOMAIN db'.messages \subseteq 1..3
  BY MessageRows DEF TypedRows
<1>2. PICK new : new = db'.participants[p]
  OBVIOUS
<1>3. PICK before : before = M!Arrived(p[1], p[2])
  OBVIOUS
<1>4. PICK now : now = M!Arrived(p[1], p[2])'
  OBVIOUS
<1>5. IsFiniteSet(now) /\ Cardinality(now) \in Nat
  <2>1. now \subseteq 1..3
    BY <1>1, <1>4 DEF M!Arrived
  <2>2. IsFiniteSet(1..3)
    BY FS_Interval, 1 \in Int, 3 \in Int
  <2>3. QED
    BY <2>1, <2>2, FS_Subset, FS_CardinalityType
<1>6. PICK changes : changes = req[w]
  OBVIOUS
<1>7. PICK ps : ps = WritesTo(changes, "participants")
  OBVIOUS
<1>8. /\ DOMAIN db'.participants = DOMAIN Q!After(db.participants, ps)
      /\ new = Q!After(db.participants, ps)[p]
      /\ p \in DOMAIN ps => GoodCount(changes, seq, p, ps[p])
  BY <1>2, <1>6, <1>7, MessagesAfter, MessageTypes DEF GoodChanges
<1>9. ASSUME p \in DOMAIN db.participants, new.last_read_at = db.participants[p].last_read_at
      PROVE  /\ p[1] \in DOMAIN db'.conversations /\ new.last_read_at < seq
             /\ before \subseteq now
             /\ db.participants[p].unread_count <= Cardinality(before)
             /\ db.participants[p].unread_count \in Nat
             /\ \A m : Announces(changes, p, m) => m \in now /\ m \notin before
  <2>1. /\ p[1] \in DOMAIN db'.conversations /\ new.last_read_at < seq
        /\ db.participants[p].unread_count \in Nat
    BY <1>9, MessageTypes, MessagesStay
  <2>2. db.participants[p].unread_count <= Cardinality(before)
    BY <1>3, <1>9 DEF MessagesInv, GoodConversations
  <2>3. before \subseteq now
    BY <1>1, <1>2, <1>3, <1>4, <1>9, MessagesStay DEF M!Arrived
  <2>4. ASSUME NEW m, Announces(changes, p, m)
        PROVE  m \in now /\ m \notin before
    <3>1. PICK ms : ms = WritesTo(changes, "messages")
      OBVIOUS
    <3>2. /\ m \in DOMAIN ms /\ ms[m].op = "insert" /\ ms[m].cols.conversation = p[1]
          /\ ms[m].cols.sender # p[2] /\ ~ms[m].cols.is_system
          /\ m \notin DOMAIN db.messages /\ m > db.participants[p].last_read_at
      BY <2>4, <3>1 DEF Announces
    <3>3. m \in DOMAIN db'.messages /\ db'.messages[m] = ms[m].cols
      BY <1>6, <3>1, <3>2, MessagesStay
    <3>4. QED
      BY <1>1, <1>2, <1>3, <1>4, <1>9, <3>2, <3>3 DEF M!Arrived
  <2>5. QED
    BY <2>1, <2>2, <2>3, <2>4
<1>10. IsFiniteSet(before)
  BY <1>3, ArrivedFinite DEF MessagesInv, Typed
<1>11. ASSUME p \in DOMAIN db.participants, new.last_read_at = db.participants[p].last_read_at,
              new.unread_count = db.participants[p].unread_count
       PROVE  /\ p[1] \in DOMAIN db'.conversations /\ new.last_read_at < seq
              /\ new.unread_count <= Cardinality(now)
  <2>1. Cardinality(before) <= Cardinality(now) /\ Cardinality(before) \in Nat
    BY <1>5, <1>9, <1>10, <1>11, FS_Subset, FS_CardinalityType
  <2>2. QED
    BY <1>5, <1>9, <1>11, <2>1
<1>12. CASE p \in DOMAIN ps /\ ps[p].op = "insert" /\ new = ps[p].cols
  <2>1. /\ new.unread_count = 0 /\ new.last_read_at < seq
        /\ \/ p[1] \in DOMAIN db.conversations
           \/ /\ p[1] \in DOMAIN WritesTo(changes, "conversations")
              /\ WritesTo(changes, "conversations")[p[1]].op = "insert"
    BY <1>8, <1>12 DEF GoodCount
  <2>2. QED
    BY <1>2, <1>4, <1>5, <1>6, <2>1, MessagesStay
<1>13. CASE /\ p \in DOMAIN db.participants /\ p \in DOMAIN ps
            /\ new = Q!Written(db.participants[p], ps[p]) /\ ps[p].op # "insert"
  <2>1. DOMAIN db.participants[p] = {"is_admin", "left", "unread_count", "last_read_at"}
    BY <1>13, MessageTypes
  <2>2. CASE ps[p].op = "update" /\ DOMAIN ps[p].cols \cap {"unread_count", "last_read_at"} = {}
    <3>1. /\ new.last_read_at = db.participants[p].last_read_at
          /\ new.unread_count = db.participants[p].unread_count
      BY <1>13, <2>1, <2>2, Updating
    <3>2. QED
      BY <1>2, <1>4, <1>11, <1>13, <3>1
  <2>3. CASE /\ ps[p].op = "update" /\ DOMAIN ps[p].cols = {"unread_count", "last_read_at"}
             /\ ps[p].cols.unread_count = 0 /\ ps[p].cols.last_read_at < seq
    <3>1. new.unread_count = 0 /\ new.last_read_at < seq
      BY <1>13, <2>1, <2>3, Updating
    <3>2. p[1] \in DOMAIN db'.conversations
      BY <1>13, MessageTypes, MessagesStay
    <3>3. QED
      BY <1>2, <1>4, <1>5, <3>1, <3>2
  <2>4. CASE /\ ps[p].op = "increase" /\ ps[p].cols = "unread_count"
             /\ \E m : Announces(changes, p, m)
    <3>1. PICK m : Announces(changes, p, m)
      BY <2>4
    <3>2. new = [db.participants[p] EXCEPT !["unread_count"] = db.participants[p]["unread_count"] + 1]
      BY <1>13, <2>4 DEF Q!Written
    <3>3. /\ new.unread_count = db.participants[p].unread_count + 1
          /\ new.last_read_at = db.participants[p].last_read_at
      BY <2>1, <3>2
    <3>4. before \cup {m} \subseteq now /\ m \notin before
      BY <1>9, <1>13, <3>1, <3>3
    <3>5. Cardinality(before \cup {m}) = Cardinality(before) + 1 /\ IsFiniteSet(before \cup {m})
      BY <1>10, <3>4, FS_AddElement
    <3>6. Cardinality(before \cup {m}) <= Cardinality(now) /\ Cardinality(before) \in Nat
      BY <1>5, <1>10, <3>4, FS_Subset, FS_CardinalityType
    <3>7. QED
      BY <1>2, <1>4, <1>5, <1>9, <1>13, <3>3, <3>5, <3>6
  <2>5. QED
    BY <1>8, <1>13, <2>2, <2>3, <2>4 DEF GoodCount
<1>14. CASE p \in DOMAIN db.participants /\ new = db.participants[p]
  BY <1>2, <1>4, <1>11, <1>14
<1>15. QED
  BY <1>8, <1>12, <1>13, <1>14, RowAfter

\* A step keeps conversations good.
LEMMA MessagesStep ==
    ASSUME part = "messages", MessagesInv, MCNext
    PROVE  MessagesInv'
<1>1. M!Next /\ \A v, w \in Alone : v = w
  BY AloneAssumption DEF MCNext, RowsNext
<1>2. PICK w \in Alone : TRUE
  BY <1>1 DEF M!Next
<1>3. Typed(MessageSchema, Alone) /\ GoodConversations /\ DOMAIN req = Alone /\ seq \in Nat
  BY DEF MessagesInv, Typed
<1>4. ASSUME MessageHeld(w)
      PROVE  MessagesInv'
  <2>1. PICK changes, n :
          /\ TypedChanges(MessageSchema, changes) /\ GoodChanges(n, changes)
          /\ db' = db /\ req' = [req EXCEPT ![w] = changes]
          /\ seq' = n /\ n \in {seq, seq + 1} /\ n <= 4
    BY <1>4 DEF MessageHeld
  <2>2. Typed(MessageSchema, Alone)'
    BY <1>3, <2>1, TypedStep DEF Transacts
  <2>3. GoodConversations'
    <3>1. \A p \in DOMAIN db.participants : M!Arrived(p[1], p[2])' = M!Arrived(p[1], p[2])
      BY <2>1 DEF M!Arrived
    <3>2. /\ \A p \in DOMAIN db.participants : db.participants[p].last_read_at < n
          /\ \A m \in DOMAIN db.messages : m < n
      <4>1. /\ \A p \in DOMAIN db.participants : db.participants[p].last_read_at < seq
            /\ \A p \in DOMAIN db.participants : db.participants[p].last_read_at \in 0..3
            /\ \A m \in DOMAIN db.messages : m < seq /\ m \in 1..3
        BY MessageTypes
      <4>2. QED
        BY <1>3, <2>1, <4>1
    <3>3. QED
      BY <1>3, <2>1, <3>1, <3>2 DEF GoodConversations
  <2>4. \A v \in Alone : req'[v] = changes
    BY <1>1, <1>3, <2>1
  <2>5. (GoodChanges(n, changes))'
    BY <2>1 DEF GoodChanges, GoodCount, GoodMessage, Announces, WritesTo
  <2>6. \A v \in Alone : GoodChanges(seq, req[v])'
    BY <2>1, <2>4, <2>5
  <2>7. QED
    BY <2>2, <2>3, <2>6 DEF MessagesInv
<1>5. CASE M!Commit(w)
  <2>1. seq' = seq /\ req' = [req EXCEPT ![w] = None]
    BY <1>5 DEF M!Commit, M!CommitAs
  <2>2. Typed(MessageSchema, Alone)'
    BY <1>3, <1>5, MessageTransacts, TypedStep
  <2>3. \A p \in DOMAIN db'.participants :
            /\ p[1] \in DOMAIN db'.conversations /\ db'.participants[p].last_read_at < seq
            /\ db'.participants[p].unread_count <= Cardinality(M!Arrived(p[1], p[2])')
    BY <1>5, <2>2, CountsAfter DEF Typed
  <2>4. ASSUME NEW m \in DOMAIN db'.messages
        PROVE  /\ m < seq
               /\ <<db'.messages[m].conversation, db'.messages[m].sender>> \in DOMAIN db'.participants
    <3>1. PICK ms : ms = WritesTo(req[w], "messages")
      OBVIOUS
    <3>2. /\ DOMAIN db'.messages = DOMAIN Q!After(db.messages, ms)
          /\ db'.messages[m] = Q!After(db.messages, ms)[m]
          /\ m \in DOMAIN ms => GoodMessage(seq, m, ms[m])
      BY <1>5, <3>1, MessagesAfter, MessageTypes DEF GoodChanges
    <3>3. CASE m \in DOMAIN db.messages
      BY <1>5, <3>3, MessagesStay, MessageTypes
    <3>4. CASE m \in DOMAIN ms /\ ms[m].op = "insert" /\ db'.messages[m] = ms[m].cols
      BY <1>5, <3>2, <3>4, MessagesStay DEF GoodMessage
    <3>5. QED
      BY <3>2, <3>3, <3>4, RowAfter
  <2>5. \A v \in Alone : req'[v] = None
    BY <1>1, <1>3, <2>1
  <2>6. GoodConversations'
    BY <1>3, <2>1, <2>3, <2>4 DEF GoodConversations
  <2>7. QED
    BY <2>2, <2>5, <2>6 DEF MessagesInv
<1>6. CASE M!Rollback(w)
  <2>1. UNCHANGED <<db, seq>> /\ req' = [req EXCEPT ![w] = None]
    BY <1>6 DEF M!Rollback
  <2>2. Typed(MessageSchema, Alone)'
    BY <1>3, <1>6, MessageTransacts, TypedStep
  <2>3. \A v \in Alone : req'[v] = None
    BY <1>1, <1>3, <2>1
  <2>4. GoodConversations'
    BY <1>3, <2>1 DEF GoodConversations, M!Arrived
  <2>5. QED
    BY <2>2, <2>3, <2>4 DEF MessagesInv
<1>7. QED
  BY <1>1, <1>4, <1>5, <1>6, MessageHandlers

\* At first there are no conversations.
LEMMA MessagesStart ==
    ASSUME part = "messages", MCInit
    PROVE  MessagesInv
<1>1. M!NoRows = Q!NoRows /\ DOMAIN Q!NoRows = {}
  BY DEF M!NoRows, Q!NoRows
<1>2. db = [t \in DOMAIN MessageSchema |-> Q!NoRows] /\ seq = 1 /\ req = [w \in Alone |-> None]
  BY <1>1, MessageRows DEF MCInit, PartInit, M!Init, M!Start
<1>3. Typed(MessageSchema, Alone)
  BY <1>2, TypedStart
<1>4. DOMAIN db.participants = {} /\ DOMAIN db.messages = {}
  BY <1>1, <1>2, MessageRows
<1>5. QED
  BY <1>2, <1>3, <1>4 DEF MessagesInv, GoodConversations

\* The invariant is stronger than the types and the unread counts.
LEMMA MessagesTyped ==
    ASSUME MessagesInv
    PROVE  M!TypeOK /\ M!UnreadArrived
<1>1. \A s : M!Cardinality(s) = Cardinality(s)
  BY Zenon DEF M!Cardinality, Cardinality
<1>2. M!UnreadArrived
  BY <1>1 DEF MessagesInv, GoodConversations, M!UnreadArrived
<1>3. ASSUME NEW p \in DOMAIN db.participants
      PROVE  /\ p[1] \in DOMAIN db.conversations /\ p[2] \in Person
             /\ db.participants[p] \in M!ConversationParticipant
  <2>1. /\ p \in (1..3) \X Person /\ p[1] \in DOMAIN db.conversations
        /\ db.participants[p].unread_count \in Nat
    BY MessageTypes
  <2>2. PICK card : card = Cardinality(M!Arrived(p[1], p[2])) /\ card \in 0..3
    BY ArrivedFinite DEF MessagesInv, Typed
  <2>3. db.participants[p].unread_count <= card
    BY <2>2 DEF MessagesInv, GoodConversations
  <2>4. db.participants[p].unread_count \in 0..3
    BY <2>1, <2>2, <2>3
  <2>5. db.participants[p] \in Cols(ParticipantColumns)
    BY MessageRows DEF MessagesInv, Typed, TypedRows
  <2>6. QED
    BY <2>1, <2>4, <2>5, MessageRows DEF M!ConversationParticipant
<1>4. \A m \in DOMAIN db.messages :
          M!Member(db.messages[m].conversation, db.messages[m].sender)
  BY DEF MessagesInv, GoodConversations, M!Member
<1>5. QED
  BY <1>2, <1>3, <1>4, MessageTypes DEF M!TypeOK

\* A conversation's invariant says of each request what it is about to write.
LEMMA MessagesStutter ==
    ASSUME MessagesInv, UNCHANGED <<db, seq, req>>
    PROVE  MessagesInv'
<1>1. Typed(MessageSchema, Alone)'
  BY DEF MessagesInv, Typed
<1>2. GoodConversations'
  BY DEF MessagesInv, GoodConversations, M!Arrived
<1>3. ASSUME NEW w \in Alone, req[w] # None
      PROVE  GoodChanges(seq, req[w])'
  <2>1. PICK changes, n : changes = req[w] /\ n = seq
    OBVIOUS
  <2>2. GoodChanges(n, changes)
    BY <1>3, <2>1 DEF MessagesInv
  <2>3. (GoodChanges(n, changes))'
    BY <2>2 DEF GoodChanges, GoodCount, GoodMessage, Announces, WritesTo
  <2>4. QED
    BY <2>1, <2>3
<1>4. QED
  BY <1>1, <1>2, <1>3 DEF MessagesInv

\* Figures are those of the rows they are computed from: what a participant is told is
\* unread has arrived, an entry to be billed has the amount of its minutes and rate, a
\* survey's scores, ratings and distributions are those of its responses.
THEOREM FiguresAreTrue == MCSpec => []FiguresMatch
<1> DEFINE Inv == /\ part = "messages" => MessagesInv
                  /\ part = "time_entries" => AmountsInv
<1>1. MCInit => Inv
  BY MessagesStart, AmountsStart
<1>2. Inv /\ [MCNext]_mcvars => Inv'
  <2>1. ASSUME Inv, MCNext PROVE Inv'
    BY <2>1, MessagesStep, AmountsStep, SamePart
  <2>2. ASSUME Inv, UNCHANGED mcvars PROVE Inv'
    <3>1. UNCHANGED <<part, db, seq, req>>
      BY <2>2 DEF mcvars
    <3>2. Typed(EntrySchema, Alone) => Typed(EntrySchema, Alone)'
      BY <3>1 DEF Typed
    <3>3. MessagesInv => MessagesInv'
      BY <3>1, MessagesStutter
    <3>4. AmountsInv => AmountsInv'
      BY <3>1, <3>2 DEF AmountsInv, GoodEntryWrite
    <3>5. QED
      BY <2>2, <3>1, <3>3, <3>4
  <2>3. QED
    BY <2>1, <2>2
<1>3. Inv /\ (part = "survey_results" => ResultsInv) => FiguresMatch
  BY MessagesTyped, EntriesTyped, FiguresHold DEF FiguresMatch
<1>4. QED
  BY <1>1, <1>2, <1>3, ResultsHold, PTL DEF MCSpec

-------------------------------------------------------------------------------
(* Surveys *)

SurveyColumns ==
    [status |-> S!SurveyStatus, questions |-> SUBSET {"q1", "q2"}, is_anonymous |-> BOOLEAN,
     allow_multiple_responses |-> BOOLEAN]
ResponseColumns ==
    [survey |-> 1..3, respondent |-> User \cup {None}, answers |-> SUBSET {"q1", "q2"},
     is_complete |-> BOOLEAN]
InvitationColumns == [survey |-> 1..3, user |-> User]
SurveySchema ==
    [surveys |-> [s \in 1..3 |-> SurveyColumns], responses |-> [r \in 1..3 |-> ResponseColumns],
     invitations |-> [i \in 1..3 |-> InvitationColumns]]

\* The schema of surveys has the model's rows.
LEMMA SurveyTables ==
    /\ DOMAIN SurveySchema = {"surveys", "responses", "invitations"}
    /\ DOMAIN SurveySchema.surveys = 1..3 /\ DOMAIN SurveySchema.responses = 1..3
    /\ DOMAIN SurveySchema.invitations = 1..3
    /\ \A i \in 1..3 : /\ SurveySchema.surveys[i] = SurveyColumns
                       /\ SurveySchema.responses[i] = ResponseColumns
                       /\ SurveySchema.invitations[i] = InvitationColumns
    /\ Cols(SurveyColumns) = S!Survey /\ Cols(ResponseColumns) = S!SurveyResponse
    /\ Cols(InvitationColumns) = S!SurveyInvitation
<1>1. \A r : r \in Cols(SurveyColumns) <=> r \in S!Survey
  BY InCols DEF SurveyColumns, S!Survey
<1>2. \A r : r \in Cols(ResponseColumns) <=> r \in S!SurveyResponse
  BY InCols DEF ResponseColumns, S!SurveyResponse
<1>3. \A r : r \in Cols(InvitationColumns) <=> r \in S!SurveyInvitation
  BY InCols DEF InvitationColumns, S!SurveyInvitation
<1>4. QED
  BY <1>1, <1>2, <1>3 DEF SurveySchema

\* Every handler of surveys holds what fits.
LEMMA SurveyHolds ==
    ASSUME TypedRows(SurveySchema, db), NEW w, seq \in Nat \ {0}, S!EditSurveys(w) \/ S!Respond(w)
    PROVE  Holds(SurveySchema, w)
<1>1. PICK ss, rs, is : /\ ss = SurveySchema.surveys /\ rs = SurveySchema.responses
                        /\ is = SurveySchema.invitations
  OBVIOUS
<1>2. /\ DOMAIN ss = 1..3 /\ DOMAIN rs = 1..3 /\ DOMAIN is = 1..3
      /\ \A i \in 1..3 : /\ ss[i] = SurveyColumns /\ rs[i] = ResponseColumns
                         /\ is[i] = InvitationColumns
  BY <1>1, SurveyTables
<1>3. PICK yes \in BOOLEAN, no \in BOOLEAN : yes = TRUE /\ no = FALSE
  BY Zenon
<1>4. ASSUME NEW changes, DOMAIN changes \subseteq {"surveys", "responses", "invitations"},
             "surveys" \in DOMAIN changes =>
                 \A i \in DOMAIN changes.surveys : TypedWrite(ss, i, changes.surveys[i]),
             "responses" \in DOMAIN changes =>
                 \A i \in DOMAIN changes.responses : TypedWrite(rs, i, changes.responses[i]),
             "invitations" \in DOMAIN changes =>
                 \A i \in DOMAIN changes.invitations : TypedWrite(is, i, changes.invitations[i]),
             S!Hold(w, changes) \/ S!HoldNew(w, changes)
      PROVE  Holds(SurveySchema, w)
  <2>1. TypedChanges(SurveySchema, changes)
    BY <1>1, <1>4, SurveyTables DEF TypedChanges
  <2>2. QED
    BY <1>4, <2>1 DEF S!Hold, S!HoldNew, Holds
<1>5. ASSUME NEW i, NEW write, TypedWrite(ss, i, write),
             \/ S!Hold(w, [surveys |-> S!Each({i}, write)])
             \/ S!HoldNew(w, [surveys |-> S!Each({i}, write)])
      PROVE  Holds(SurveySchema, w)
  <2>1. PICK changes : changes = [surveys |-> S!Each({i}, write)]
    OBVIOUS
  <2>2. DOMAIN changes = {"surveys"} /\ \A j \in DOMAIN changes.surveys : TypedWrite(ss, j, changes.surveys[j])
    BY <1>5, <2>1 DEF S!Each
  <2>3. QED
    BY <1>4, <1>5, <2>1, <2>2
<1>6. ASSUME NEW i, NEW write, TypedWrite(rs, i, write),
             \/ S!Hold(w, [responses |-> S!Each({i}, write)])
             \/ S!HoldNew(w, [responses |-> S!Each({i}, write)])
      PROVE  Holds(SurveySchema, w)
  <2>1. PICK changes : changes = [responses |-> S!Each({i}, write)]
    OBVIOUS
  <2>2. DOMAIN changes = {"responses"} /\ \A j \in DOMAIN changes.responses : TypedWrite(rs, j, changes.responses[j])
    BY <1>6, <2>1 DEF S!Each
  <2>3. QED
    BY <1>4, <1>6, <2>1, <2>2
<1>7. ASSUME NEW questions \in SUBSET {"q1", "q2"}, NEW anonymous \in BOOLEAN, NEW multiple \in BOOLEAN,
             S!CreateSurvey(w, questions, anonymous, multiple)
      PROVE  Holds(SurveySchema, w)
  <2>1. PICK row : row = S!NewSurvey(questions, anonymous, multiple)
    OBVIOUS
  <2>2. row \in S!Survey /\ seq \in 1..3
    BY <1>7, <2>1 DEF S!NewSurvey, S!Survey, S!SurveyStatus, S!CreateSurvey, S!HoldNew
  <2>3. TypedWrite(ss, seq, S!Insert(row))
    BY <1>2, <2>2, TypedInsert, SurveyTables, SurveyOps
  <2>4. QED
    BY <1>5, <1>7, <2>1, <2>3 DEF S!CreateSurvey
<1>8. ASSUME NEW s \in 1..3, NEW cols, Fit(cols, SurveyColumns),
             S!Hold(w, [surveys |-> S!Each({s}, S!Update(cols))])
      PROVE  Holds(SurveySchema, w)
  <2>1. TypedWrite(ss, s, S!Update(cols))
    BY <1>2, <1>8, TypedColumns, SurveyOps
  <2>2. QED
    BY <1>5, <1>8, <2>1
<1>9. ASSUME NEW s \in 1..3, NEW q \in SUBSET {"q1", "q2"}, S!UpdateQuestions(w, s, q)
      PROVE  Holds(SurveySchema, w)
  <2>1. PICK cols : cols = [questions |-> q]
    OBVIOUS
  <2>2. SurveyColumns.questions = SUBSET {"q1", "q2"}
    BY DEF SurveyColumns
  <2>3. DOMAIN cols = {"questions"} /\ cols["questions"] = q
    BY <2>1
  <2>4. \A d \in DOMAIN cols : d = "questions" /\ cols[d] \in SurveyColumns[d]
    BY <2>2, <2>3, Zenon
  <2>5. Fit(cols, SurveyColumns)
    BY <2>4, Zenon DEF Fit
  <2>6. QED
    BY <1>8, <1>9, <2>1, <2>5 DEF S!UpdateQuestions
<1>10. ASSUME NEW s \in 1..3, NEW c \in {"allow_multiple_responses"}, NEW b \in BOOLEAN, S!UpdateSettings(w, s, c, b)
      PROVE  Holds(SurveySchema, w)
  <2>1. PICK cols : cols = [d \in {c} |-> b]
    OBVIOUS
  <2>2. DOMAIN cols = {"allow_multiple_responses"} /\ cols["allow_multiple_responses"] \in BOOLEAN
    BY <2>1
  <2>3. SurveyColumns.allow_multiple_responses = BOOLEAN
    BY DEF SurveyColumns
  <2>4. \A d \in DOMAIN cols : d = "allow_multiple_responses" /\ cols[d] \in SurveyColumns[d]
    BY <2>2, <2>3, Zenon
  <2>5. Fit(cols, SurveyColumns)
    BY <2>4, Zenon DEF Fit
  <2>6. QED
    BY <1>8, <1>10, <2>1, <2>5 DEF S!UpdateSettings
<1>11. ASSUME NEW s \in 1..3, S!PublishSurvey(w, s) \/ S!CloseSurvey(w, s)
       PROVE  Holds(SurveySchema, w)
  <2>1. Fit(S!Published, SurveyColumns) /\ Fit(S!Closed, SurveyColumns)
    BY DEF Fit, SurveyColumns, S!Published, S!Closed, S!SurveyStatus
  <2>2. QED
    BY <1>8, <1>11, <2>1 DEF S!PublishSurvey, S!CloseSurvey
<1>12. ASSUME NEW s, S!DeleteSurvey(w, s)
       PROVE  Holds(SurveySchema, w)
  BY <1>5, <1>12, TypedDelete, SurveyOps DEF S!DeleteSurvey
<1>13. ASSUME NEW s \in 1..3, NEW u \in User, S!CreateInvitation(w, s, u)
       PROVE  Holds(SurveySchema, w)
  <2>1. PICK row : row = S!NewInvitation(s, u)
    OBVIOUS
  <2>2. row \in S!SurveyInvitation /\ seq \in 1..3
    BY <1>13, <2>1 DEF S!NewInvitation, S!SurveyInvitation, S!CreateInvitation, S!HoldNew
  <2>3. TypedWrite(is, seq, S!Insert(row))
    BY <1>2, <2>2, TypedInsert, SurveyTables, SurveyOps
  <2>4. PICK changes : changes = [invitations |-> S!Each({seq}, S!Insert(row))]
    OBVIOUS
  <2>5. DOMAIN changes = {"invitations"} /\ \A j \in DOMAIN changes.invitations : TypedWrite(is, j, changes.invitations[j])
    BY <2>3, <2>4 DEF S!Each
  <2>6. QED
    BY <1>4, <1>13, <2>1, <2>4, <2>5 DEF S!CreateInvitation
<1>14. CASE S!EditSurveys(w)
  BY <1>7, <1>9, <1>10, <1>11, <1>12, <1>13, <1>14 DEF S!EditSurveys
<1>15. ASSUME NEW s \in 1..3, NEW u \in User, S!StartResponse(w, s, u)
       PROVE  Holds(SurveySchema, w)
  <2>1. PICK who \in User \cup {None} : who = IF db.surveys[s].is_anonymous THEN None ELSE u
    OBVIOUS
  <2>2. PICK row : /\ row = [survey |-> s, respondent |-> who, answers |-> {}, is_complete |-> no]
                   /\ row = S!NewResponse(s, u)
    BY <1>3, <2>1, Zenon DEF S!NewResponse
  <2>3. row \in S!SurveyResponse /\ seq \in 1..3
    BY <1>15, <2>2 DEF S!SurveyResponse, S!StartResponse, S!HoldNew
  <2>4. TypedWrite(rs, seq, S!Insert(row))
    BY <1>2, <2>3, TypedInsert, SurveyTables, SurveyOps
  <2>5. QED
    BY <1>6, <1>15, <2>2, <2>4 DEF S!StartResponse
<1>16. ASSUME NEW r \in 1..3, NEW answers \in SUBSET {"q1", "q2"},
              S!UpdateResponse(w, r, answers) \/ S!SubmitResponse(w, r, answers)
       PROVE  Holds(SurveySchema, w)
  <2>1. PICK cols : cols = S!Answered(r, answers)
    OBVIOUS
  <2>2. DOMAIN cols \subseteq {"answers"} /\ \A c \in DOMAIN cols : cols[c] = answers
    BY <2>1 DEF S!Answered, S!NoRows
  <2>3. PICK done : done = [is_complete |-> yes] /\ done = S!Submitted
    BY <1>3, Zenon DEF S!Submitted
  <2>4. PICK both : both = S!Both(done, cols)
    OBVIOUS
  <2>5. /\ DOMAIN both = {"is_complete"} \cup DOMAIN cols /\ both.is_complete \in BOOLEAN
        /\ \A c \in DOMAIN cols : both[c] = answers
    BY <2>2, <2>3, <2>4 DEF S!Both
  <2>6. /\ DOMAIN cols \subseteq {"answers"} /\ DOMAIN both \subseteq {"is_complete", "answers"}
        /\ \A c \in DOMAIN cols : cols[c] \in SUBSET {"q1", "q2"}
        /\ \A c \in DOMAIN both : IF c = "is_complete" THEN both[c] \in BOOLEAN
                                 ELSE both[c] \in SUBSET {"q1", "q2"}
    BY <2>2, <2>5
  <2>7. DOMAIN ResponseColumns = {"survey", "respondent", "answers", "is_complete"}
         /\ ResponseColumns.answers = SUBSET {"q1", "q2"} /\ ResponseColumns.is_complete = BOOLEAN
    BY DEF ResponseColumns
  <2>8. Fit(cols, ResponseColumns) /\ Fit(both, ResponseColumns)
    BY <2>6, <2>7 DEF Fit
  <2>9. TypedWrite(rs, r, S!Update(cols)) /\ TypedWrite(rs, r, S!Update(both))
    BY <1>2, <2>8, TypedColumns, SurveyOps
  <2>10. QED
    BY <1>6, <1>16, <2>1, <2>3, <2>4, <2>9 DEF S!UpdateResponse, S!SubmitResponse
<1>17. CASE S!Respond(w)
  BY <1>15, <1>16, <1>17 DEF S!Respond
<1>18. QED
  BY <1>14, <1>17

\* Rows fit their tables; responses and invitations have their survey.
SurveysTypedInv ==
    /\ Typed(SurveySchema, Alone)
    /\ \A r \in DOMAIN db.responses : db.responses[r].survey \in DOMAIN db.surveys
    /\ \A i \in DOMAIN db.invitations : db.invitations[i].survey \in DOMAIN db.surveys

\* Responses and invitations go with their survey.
LEMMA OrphansGone ==
    ASSUME NEW all, TypedRows(SurveySchema, all), NEW w, S!CommitSurveys(w),
           all = S!AfterAll(req[w])
    PROVE  /\ TypedRows(SurveySchema, db')
           /\ \A r \in DOMAIN db'.responses : db'.responses[r].survey \in DOMAIN db'.surveys
           /\ \A i \in DOMAIN db'.invitations : db'.invitations[i].survey \in DOMAIN db'.surveys
<1>1. PICK rs, is :
          /\ rs = [r \in DOMAIN all.responses \ {x \in DOMAIN all.responses :
                        all.responses[x].survey \notin DOMAIN all.surveys} |-> all.responses[r]]
          /\ is = [i \in DOMAIN all.invitations \ {x \in DOMAIN all.invitations :
                        all.invitations[x].survey \notin DOMAIN all.surveys} |-> all.invitations[i]]
  OBVIOUS
<1>2. db' = [all EXCEPT !.responses = rs, !.invitations = is]
  BY <1>1 DEF S!CommitSurveys, S!CommitAs
<1>3. /\ DOMAIN db' = DOMAIN all /\ db'.surveys = all.surveys
      /\ db'.responses = rs /\ db'.invitations = is
  BY <1>2, SurveyTables DEF TypedRows
<1>4. /\ DOMAIN rs \subseteq DOMAIN all.responses
      /\ \A r \in DOMAIN rs : rs[r] = all.responses[r] /\ rs[r].survey \in DOMAIN all.surveys
      /\ DOMAIN is \subseteq DOMAIN all.invitations
      /\ \A i \in DOMAIN is : is[i] = all.invitations[i] /\ is[i].survey \in DOMAIN all.surveys
  BY <1>1
<1>5. DOMAIN all = {"surveys", "responses", "invitations"}
  BY SurveyTables DEF TypedRows
<1>6. TypedRows(SurveySchema, db')
  BY <1>3, <1>4, <1>5, RowsKept
<1>7. QED
  BY <1>3, <1>4, <1>6

\* A step keeps surveys typed, and responses with their surveys.
LEMMA SurveysTypedStep ==
    ASSUME part = "surveys", SurveysTypedInv, MCNext
    PROVE  SurveysTypedInv'
<1>1. S!Next
  BY DEF MCNext, RowsNext
<1>2. TypedRows(SurveySchema, db) /\ seq \in Nat \ {0}
  BY DEF SurveysTypedInv, Typed
<1>3. ASSUME NEW w \in Alone, S!EditSurveys(w) \/ S!Respond(w)
      PROVE  SurveysTypedInv'
  <2>1. Holds(SurveySchema, w)
    BY <1>2, <1>3, SurveyHolds
  <2>2. db' = db
    BY <2>1 DEF Holds
  <2>3. QED
    BY <2>1, <2>2, HeldTyped DEF SurveysTypedInv
<1>4. ASSUME NEW w \in Alone, S!CommitSurveys(w)
      PROVE  SurveysTypedInv'
  <2>1. PICK all : all = S!AfterAll(req[w])
    OBVIOUS
  <2>2. req[w] # None /\ req' = [req EXCEPT ![w] = None] /\ seq' = seq
    BY <1>4 DEF S!CommitSurveys, S!CommitAs, S!Free
  <2>3. all = Merged(req[w])
    BY <2>1, SurveyOps DEF S!AfterAll, Merged
  <2>4. PICK changes : changes = req[w] /\ TypedChanges(SurveySchema, changes)
    BY <2>2 DEF SurveysTypedInv, Typed
  <2>5. TypedRows(SurveySchema, all)
    BY <1>2, <2>3, <2>4, MergedTyped
  <2>6. /\ TypedRows(SurveySchema, db')
        /\ \A r \in DOMAIN db'.responses : db'.responses[r].survey \in DOMAIN db'.surveys
        /\ \A i \in DOMAIN db'.invitations : db'.invitations[i].survey \in DOMAIN db'.surveys
    BY <1>4, <2>1, <2>5, OrphansGone
  <2>7. QED
    BY <2>2, <2>6, TypedCommit DEF SurveysTypedInv
<1>5. ASSUME NEW w \in Alone, S!Rollback(w)
      PROVE  SurveysTypedInv'
  <2>1. db' = db /\ req' = [req EXCEPT ![w] = None] /\ seq' = seq
    BY <1>5 DEF S!Rollback
  <2>2. TypedRows(SurveySchema, db')
    BY <1>2, <2>1
  <2>3. QED
    BY <2>1, <2>2, TypedCommit DEF SurveysTypedInv
<1>6. QED
  BY <1>1, <1>3, <1>4, <1>5 DEF S!Next

\* At first there are no surveys.
LEMMA SurveysTypedStart ==
    ASSUME part = "surveys", MCInit
    PROVE  SurveysTypedInv
<1>1. S!NoRows = Q!NoRows /\ DOMAIN Q!NoRows = {}
  BY DEF S!NoRows, Q!NoRows
<1>2. db = [t \in DOMAIN SurveySchema |-> Q!NoRows] /\ seq = 1 /\ req = [w \in Alone |-> None]
  BY <1>1, SurveyTables DEF MCInit, PartInit, S!Init, S!Start
<1>3. DOMAIN db.responses = {} /\ DOMAIN db.invitations = {}
  BY <1>1, <1>2, SurveyTables
<1>4. QED
  BY <1>2, <1>3, TypedStart DEF SurveysTypedInv

\* The invariant is stronger than the types.
LEMMA SurveysTyped ==
    ASSUME SurveysTypedInv
    PROVE  S!TypeOK
BY SurveyTables DEF SurveysTypedInv, Typed, TypedRows, S!TypeOK, S!IsTable, S!Exists

-------------------------------------------------------------------------------
(* Announcements *)

AnnouncementColumns ==
    [status |-> A!AnnouncementStatus, content |-> Content, publish_at |-> A!Time,
     expire_at |-> A!Time, is_dismissible |-> BOOLEAN, require_acknowledgment |-> BOOLEAN]
ReadColumns == [is_acknowledged |-> BOOLEAN, is_dismissed |-> BOOLEAN]
AnnouncementSchema ==
    [announcements |-> [a \in 1..1 |-> AnnouncementColumns],
     reads |-> [k \in (1..1) \X User |-> ReadColumns]]

\* The schema of announcements has the model's rows.
LEMMA AnnouncementTables ==
    /\ DOMAIN AnnouncementSchema = {"announcements", "reads"}
    /\ DOMAIN AnnouncementSchema.announcements = 1..1
    /\ DOMAIN AnnouncementSchema.reads = (1..1) \X User
    /\ \A a \in 1..1 : AnnouncementSchema.announcements[a] = AnnouncementColumns
    /\ \A k \in (1..1) \X User : AnnouncementSchema.reads[k] = ReadColumns
    /\ Cols(AnnouncementColumns) = A!Announcement /\ Cols(ReadColumns) = A!AnnouncementRead
<1>1. \A r : r \in Cols(AnnouncementColumns) <=> r \in A!Announcement
  BY InCols DEF AnnouncementColumns, A!Announcement
<1>2. \A r : r \in Cols(ReadColumns) <=> r \in A!AnnouncementRead
  BY InCols DEF ReadColumns, A!AnnouncementRead
<1>3. QED
  BY <1>1, <1>2 DEF AnnouncementSchema

\* Every handler of announcements holds what fits.
LEMMA AnnouncementHolds ==
    ASSUME TypedRows(AnnouncementSchema, db), NEW w, seq \in Nat \ {0},
           A!Create(w) \/ A!Administer(w) \/ A!Read(w) \/ A!UpdateScheduled(w) \/ A!ExpireOld(w)
    PROVE  Holds(AnnouncementSchema, w)
<1>1. PICK as, rs : as = AnnouncementSchema.announcements /\ rs = AnnouncementSchema.reads
  OBVIOUS
<1>2. /\ DOMAIN as = 1..1 /\ \A a \in 1..1 : as[a] = AnnouncementColumns
      /\ DOMAIN rs = (1..1) \X User /\ \A k \in (1..1) \X User : rs[k] = ReadColumns
  BY <1>1, AnnouncementTables
<1>3. PICK yes \in BOOLEAN, no \in BOOLEAN : yes = TRUE /\ no = FALSE
  BY Zenon
<1>4. DOMAIN db.announcements \subseteq 1..1
  BY AnnouncementTables DEF TypedRows
<1>5. ASSUME NEW ws, \A i \in DOMAIN ws : TypedWrite(as, i, ws[i]),
             A!Hold(w, [announcements |-> ws]) \/ A!HoldNew(w, [announcements |-> ws])
      PROVE  Holds(AnnouncementSchema, w)
  <2>1. PICK changes : changes = [announcements |-> ws]
    OBVIOUS
  <2>2. DOMAIN changes = {"announcements"} /\ changes.announcements = ws
    BY <2>1
  <2>3. TypedChanges(AnnouncementSchema, changes)
    BY <1>1, <1>5, <2>2, AnnouncementTables DEF TypedChanges
  <2>4. QED
    BY <1>5, <2>1, <2>3 DEF A!Hold, A!HoldNew, Holds
<1>6. ASSUME NEW c \in Content, NEW publish \in {None, "later"}, NEW expire \in {None, "later"},
             NEW b \in BOOLEAN, NEW e \in BOOLEAN,
             A!CreateAnnouncement(w, A!NewAnnouncement(c, publish, expire, b, e))
      PROVE  Holds(AnnouncementSchema, w)
  <2>1. PICK row : row = A!NewAnnouncement(c, publish, expire, b, e)
    OBVIOUS
  <2>2. PICK status \in A!AnnouncementStatus : status = IF publish = "later" THEN "scheduled" ELSE "draft"
    BY DEF A!AnnouncementStatus
  <2>3. row = [status |-> status, content |-> c, publish_at |-> publish, expire_at |-> expire,
               is_dismissible |-> b, require_acknowledgment |-> e]
    BY <2>1, <2>2, Zenon DEF A!NewAnnouncement
  <2>4. publish \in A!Time /\ expire \in A!Time
    BY DEF A!Time
  <2>5. row \in A!Announcement
    BY <2>3, <2>4 DEF A!Announcement
  <2>6. seq \in 1..1
    BY <1>6 DEF A!CreateAnnouncement, A!HoldNew
  <2>7. TypedWrite(as, seq, A!Insert(row))
    BY <1>2, <2>5, <2>6, TypedInsert, AnnouncementTables, AnnouncementOps
  <2>8. PICK ws : ws = [a \in {seq} |-> A!Insert(row)]
    OBVIOUS
  <2>9. \A i \in DOMAIN ws : TypedWrite(as, i, ws[i])
    BY <2>7, <2>8
  <2>10. QED
    BY <1>5, <1>6, <2>1, <2>8, <2>9 DEF A!CreateAnnouncement
<1>7. ASSUME NEW a \in 1..1, NEW cols, Fit(cols, AnnouncementColumns), A!Write(w, a, cols)
      PROVE  Holds(AnnouncementSchema, w)
  <2>1. TypedWrite(as, a, A!Assign(db.announcements[a], cols))
    BY <1>2, <1>7, TypedColumns, AnnouncementOps
  <2>2. PICK ws : ws = [i \in {a} |-> A!Assign(db.announcements[a], cols)]
    OBVIOUS
  <2>3. \A i \in DOMAIN ws : TypedWrite(as, i, ws[i])
    BY <2>1, <2>2
  <2>4. QED
    BY <1>5, <1>7, <2>2, <2>3 DEF A!Write
<1>8. ASSUME NEW a \in 1..1, NEW c \in Content, A!UpdateAnnouncement(w, a, [content |-> c])
      PROVE  Holds(AnnouncementSchema, w)
  <2>1. PICK cols : cols = [content |-> c]
    OBVIOUS
  <2>2. Fit(cols, AnnouncementColumns)
    BY <2>1 DEF Fit, AnnouncementColumns
  <2>3. QED
    BY <1>7, <1>8, <2>1, <2>2 DEF A!UpdateAnnouncement
<1>9. ASSUME NEW a \in 1..1, \/ A!UpdateAnnouncement(w, a, [publish_at |-> "later"])
                             \/ A!PublishAnnouncement(w, a) \/ A!ArchiveAnnouncement(w, a)
      PROVE  Holds(AnnouncementSchema, w)
  <2>1. PICK cols : /\ \/ cols = [publish_at |-> "later"]
                       \/ cols = [status |-> "active"] \/ cols = [status |-> "archived"]
                    /\ A!Write(w, a, cols)
    BY <1>9 DEF A!UpdateAnnouncement, A!PublishAnnouncement, A!ArchiveAnnouncement, A!Published, A!Archived
  <2>2. Fit(cols, AnnouncementColumns)
    BY <2>1 DEF Fit, AnnouncementColumns, A!AnnouncementStatus, A!Time
  <2>3. QED
    BY <1>7, <2>1, <2>2
<1>10. ASSUME NEW a, A!DeleteAnnouncement(w, a)
       PROVE  Holds(AnnouncementSchema, w)
  <2>1. PICK ws : ws = [i \in {a} |-> A!Delete]
    OBVIOUS
  <2>2. \A i \in DOMAIN ws : TypedWrite(as, i, ws[i])
    BY <2>1, TypedDelete, AnnouncementOps
  <2>3. QED
    BY <1>5, <1>10, <2>1, <2>2 DEF A!DeleteAnnouncement
<1>11. ASSUME A!UpdateScheduled(w) \/ A!ExpireOld(w)
       PROVE  Holds(AnnouncementSchema, w)
  <2>1. PICK cols, ids : /\ cols = [status |-> "active"] \/ cols = [status |-> "expired"]
                         /\ ids \subseteq DOMAIN db.announcements
                         /\ A!Hold(w, [announcements |-> A!Each(ids, A!Update(cols))])
    BY <1>11 DEF A!UpdateScheduled, A!ExpireOld, A!Due, A!Over
  <2>2. Fit(cols, AnnouncementColumns)
    BY <2>1 DEF Fit, AnnouncementColumns, A!AnnouncementStatus
  <2>3. PICK ws : ws = A!Each(ids, A!Update(cols))
    OBVIOUS
  <2>4. \A i \in ids : TypedWrite(as, i, A!Update(cols))
    BY <1>2, <1>4, <2>1, <2>2, TypedColumns, AnnouncementOps
  <2>5. \A i \in DOMAIN ws : TypedWrite(as, i, ws[i])
    BY <2>3, <2>4 DEF A!Each
  <2>6. QED
    BY <1>5, <2>1, <2>3, <2>5
<1>12. ASSUME NEW a \in 1..1, NEW p \in User, NEW cols, Fit(cols, ReadColumns),
              A!Hold(w, A!Marked(a, p, cols))
       PROVE  Holds(AnnouncementSchema, w)
  <2>1. PICK k : k = <<a, p>>
    OBVIOUS
  <2>2. <<a, p>> \in (1..1) \X User
    OBVIOUS
  <2>3. rs[k] = ReadColumns /\ k \in DOMAIN rs
    BY <1>2, <2>1, <2>2
  <2>4. PICK blank : /\ blank = [is_acknowledged |-> no, is_dismissed |-> no]
                     /\ blank = [is_acknowledged |-> FALSE, is_dismissed |-> FALSE]
    BY <1>3, Zenon
  <2>5. PICK row : row = [c \in DOMAIN blank |-> IF c \in DOMAIN cols THEN cols[c] ELSE blank[c]]
    OBVIOUS
  <2>6. DOMAIN blank = {"is_acknowledged", "is_dismissed"} /\ \A c \in DOMAIN blank : blank[c] \in BOOLEAN
    BY <2>4
  <2>7. \A c \in {"is_acknowledged", "is_dismissed"} : ReadColumns[c] = BOOLEAN
    BY DEF ReadColumns
  <2>8. DOMAIN ReadColumns = {"is_acknowledged", "is_dismissed"}
    BY DEF ReadColumns
  <2>9. \A c \in DOMAIN ReadColumns : row[c] \in ReadColumns[c]
    BY <1>12, <2>5, <2>6, <2>7, <2>8 DEF Fit
  <2>10. row \in Cols(ReadColumns)
    BY <2>5, <2>6, <2>8, <2>9, InCols
  <2>11. PICK write : write = IF k \in DOMAIN db.reads THEN A!Assign(db.reads[k], cols) ELSE A!Insert(row)
    OBVIOUS
  <2>12. TypedWrite(rs, k, A!Assign(db.reads[k], cols)) /\ TypedWrite(rs, k, A!Insert(row))
    BY <1>12, <2>3, <2>10, TypedColumns, TypedInsert, AnnouncementOps
  <2>13. TypedWrite(rs, k, write)
    BY <2>11, <2>12
  <2>14. PICK changes : changes = A!Marked(a, p, cols)
    OBVIOUS
  <2>15. changes = [reads |-> [i \in {<<a, p>>} |-> IF i \in DOMAIN db.reads THEN A!Assign(db.reads[i], cols)
                                                   ELSE A!Insert(row)]]
    BY <2>4, <2>5, <2>14 DEF A!Marked
  <2>16. DOMAIN changes = {"reads"} /\ DOMAIN changes.reads = {k} /\ changes.reads[k] = write
    BY <2>1, <2>11, <2>15
  <2>17. TypedChanges(AnnouncementSchema, changes)
    BY <1>1, <2>13, <2>16, AnnouncementTables DEF TypedChanges
  <2>18. QED
    BY <1>12, <2>14, <2>17 DEF A!Hold, Holds
<1>13. ASSUME NEW a \in 1..1, NEW p \in User,
              A!MarkRead(w, a, p) \/ A!Acknowledge(w, a, p) \/ A!Dismiss(w, a, p)
       PROVE  Holds(AnnouncementSchema, w)
  <2>1. PICK none, ack, gone : /\ none = A!NoColumns
                               /\ ack = [is_acknowledged |-> yes] /\ ack = [is_acknowledged |-> TRUE]
                               /\ gone = [is_dismissed |-> yes] /\ gone = [is_dismissed |-> TRUE]
    BY <1>3, Zenon
  <2>2. Fit(none, ReadColumns) /\ Fit(ack, ReadColumns) /\ Fit(gone, ReadColumns)
    BY <2>1 DEF Fit, ReadColumns, A!NoColumns
  <2>3. QED
    BY <1>12, <1>13, <2>1, <2>2 DEF A!MarkRead, A!MarkedRead, A!Acknowledge, A!Acknowledged, A!Dismiss
<1>14. CASE A!Create(w)
  BY <1>6, <1>14 DEF A!Create
<1>15. CASE A!Administer(w)
  BY <1>8, <1>9, <1>10, <1>15 DEF A!Administer
<1>16. CASE A!Read(w)
  BY <1>13, <1>16 DEF A!Read
<1>17. QED
  BY <1>11, <1>14, <1>15, <1>16

\* Rows fit their tables; what a reader did belongs to an announcement.
AnnouncementsTypedInv ==
    /\ Typed(AnnouncementSchema, Alone)
    /\ \A k \in DOMAIN db.reads : k[1] \in DOMAIN db.announcements

\* A step keeps announcements typed, and reads with their announcements.
LEMMA AnnouncementsTypedStep ==
    ASSUME part = "announcements", AnnouncementsTypedInv, MCNext
    PROVE  AnnouncementsTypedInv'
<1>1. A!Next
  BY DEF MCNext, RowsNext
<1>2. TypedRows(AnnouncementSchema, db) /\ seq \in Nat \ {0}
  BY DEF AnnouncementsTypedInv, Typed
<1>3. ASSUME NEW w \in Alone,
             A!Create(w) \/ A!Administer(w) \/ A!Read(w) \/ A!UpdateScheduled(w) \/ A!ExpireOld(w)
      PROVE  AnnouncementsTypedInv'
  <2>1. Holds(AnnouncementSchema, w)
    BY <1>2, <1>3, AnnouncementHolds
  <2>2. db' = db
    BY <2>1 DEF Holds
  <2>3. QED
    BY <2>1, <2>2, HeldTyped DEF AnnouncementsTypedInv
<1>4. ASSUME NEW w \in Alone, A!CommitAnnouncements(w)
      PROVE  AnnouncementsTypedInv'
  <2>1. PICK all : all = A!AfterAll(req[w])
    OBVIOUS
  <2>2. PICK kept : kept = {k \in DOMAIN all.reads : k[1] \in DOMAIN all.announcements}
    OBVIOUS
  <2>3. PICK rows : rows = [k \in kept |-> all.reads[k]]
    OBVIOUS
  <2>4. /\ req[w] # None /\ db' = [all EXCEPT !.reads = rows]
        /\ req' = [req EXCEPT ![w] = None] /\ seq' = seq
    BY <1>4, <2>1, <2>2, <2>3 DEF A!CommitAnnouncements, A!CommitAs, A!Free
  <2>5. all = Merged(req[w])
    BY <2>1, AnnouncementOps DEF A!AfterAll, Merged
  <2>6. PICK changes : changes = req[w] /\ TypedChanges(AnnouncementSchema, changes)
    BY <2>4 DEF AnnouncementsTypedInv, Typed
  <2>7. TypedRows(AnnouncementSchema, all)
    BY <1>2, <2>5, <2>6, MergedTyped
  <2>8. DOMAIN all = {"announcements", "reads"}
    BY <2>7, AnnouncementTables DEF TypedRows
  <2>9. DOMAIN db' = DOMAIN all /\ db'.announcements = all.announcements /\ db'.reads = rows
    BY <2>4, <2>8
  <2>10. DOMAIN rows = kept /\ kept \subseteq DOMAIN all.reads /\ \A k \in kept : rows[k] = all.reads[k]
    BY <2>2, <2>3
  <2>11. TypedRows(AnnouncementSchema, db')
    BY <2>7, <2>8, <2>9, <2>10, RowsKept
  <2>12. \A k \in DOMAIN db'.reads : k[1] \in DOMAIN db'.announcements
    BY <2>2, <2>9, <2>10
  <2>13. QED
    BY <2>4, <2>11, <2>12, TypedCommit DEF AnnouncementsTypedInv
<1>5. ASSUME NEW w \in Alone, A!Rollback(w)
      PROVE  AnnouncementsTypedInv'
  <2>1. db' = db /\ req' = [req EXCEPT ![w] = None] /\ seq' = seq
    BY <1>5 DEF A!Rollback
  <2>2. TypedRows(AnnouncementSchema, db')
    BY <1>2, <2>1
  <2>3. QED
    BY <2>1, <2>2, TypedCommit DEF AnnouncementsTypedInv
<1>6. ASSUME NEW a, NEW time \in {"publish_at", "expire_at"}, A!Pass(a, time)
      PROVE  AnnouncementsTypedInv'
  <2>1. PICK rows, rows2 : rows = db.announcements /\ rows2 = [rows EXCEPT ![a][time] = "past"]
    OBVIOUS
  <2>2. UNCHANGED <<seq, req>> /\ a \in DOMAIN rows /\ db' = [db EXCEPT !.announcements = rows2]
    BY <1>6, <2>1 DEF A!Pass, A!Exists
  <2>3. /\ DOMAIN db' = DOMAIN db /\ db'.announcements = rows2 /\ DOMAIN rows2 = DOMAIN rows
        /\ db'.reads = db.reads
    BY <1>2, <2>1, <2>2, AnnouncementTables DEF TypedRows
  <2>4. \A i \in DOMAIN rows : i \in 1..1 /\ rows[i] \in A!Announcement
    BY <1>2, <2>1, AnnouncementTables DEF TypedRows
  <2>5. \A i \in DOMAIN rows2 : i \in 1..1 /\ rows2[i] \in A!Announcement
    BY <2>1, <2>4 DEF A!Announcement, A!Time
  <2>6. TypedRows(AnnouncementSchema, db')
    BY <1>2, <2>3, <2>5, AnnouncementTables DEF TypedRows
  <2>7. QED
    BY <2>1, <2>2, <2>3, <2>6, TypedTime DEF AnnouncementsTypedInv
<1>7. QED
  BY <1>1, <1>3, <1>4, <1>5, <1>6 DEF A!Next

\* At first there are no announcements.
LEMMA AnnouncementsTypedStart ==
    ASSUME part = "announcements", MCInit
    PROVE  AnnouncementsTypedInv
<1>1. A!NoRows = Q!NoRows /\ DOMAIN Q!NoRows = {}
  BY DEF A!NoRows, Q!NoRows
<1>2. db = [t \in DOMAIN AnnouncementSchema |-> Q!NoRows] /\ seq = 1 /\ req = [w \in Alone |-> None]
  BY <1>1, AnnouncementTables DEF MCInit, PartInit, A!Init, A!Start
<1>3. DOMAIN db.reads = {}
  BY <1>1, <1>2, AnnouncementTables
<1>4. QED
  BY <1>2, <1>3, TypedStart DEF AnnouncementsTypedInv

\* The invariant is stronger than the types.
LEMMA AnnouncementsTyped ==
    ASSUME AnnouncementsTypedInv
    PROVE  A!TypeOK
<1>1. \A a \in DOMAIN db.announcements : a \in 1..1 /\ db.announcements[a] \in A!Announcement
  BY AnnouncementTables DEF AnnouncementsTypedInv, Typed, TypedRows
<1>2. \A k \in DOMAIN db.reads : k \in (1..1) \X User /\ db.reads[k] \in A!AnnouncementRead
  BY AnnouncementTables DEF AnnouncementsTypedInv, Typed, TypedRows
<1>3. \A k \in (1..1) \X User : k[2] \in User
  OBVIOUS
<1>4. QED
  BY <1>1, <1>2, <1>3 DEF AnnouncementsTypedInv, A!TypeOK

-------------------------------------------------------------------------------
(* Documents *)

\* Files have no columns, and no request writes them with its rows.
DocumentColumns == [uploaded_by |-> Person, folder |-> {"/", "other"}, deleted |-> BOOLEAN]
AccessColumns ==
    [access_level |-> D!DocumentAccessLevel, expires_at |-> D!Expiry, granted_by |-> Person]
DocumentSchema ==
    [documents |-> [d \in 1..1 |-> DocumentColumns], access |-> [a \in (1..1) \X Person |-> AccessColumns]]

\* The rows of one table fit it.
RowsFit(table, rows) == \A i \in DOMAIN rows : i \in DOMAIN table /\ rows[i] \in Cols(table[i])

\* The schema of documents has the model's rows.
LEMMA DocumentTables ==
    /\ DOMAIN DocumentSchema = {"documents", "access"}
    /\ DOMAIN DocumentSchema.documents = 1..1 /\ DOMAIN DocumentSchema.access = (1..1) \X Person
    /\ \A d \in 1..1 : DocumentSchema.documents[d] = DocumentColumns
    /\ \A a \in (1..1) \X Person : DocumentSchema.access[a] = AccessColumns
    /\ Cols(DocumentColumns) = D!Document /\ Cols(AccessColumns) = D!DocumentAccess
<1>1. \A r : r \in Cols(DocumentColumns) <=> r \in D!Document
  BY InCols DEF DocumentColumns, D!Document
<1>2. \A r : r \in Cols(AccessColumns) <=> r \in D!DocumentAccess
  BY InCols DEF AccessColumns, D!DocumentAccess
<1>3. QED
  BY <1>1, <1>2 DEF DocumentSchema

\* Rows fit their tables, requests write what fits; an access record has its document.
DocumentsTypedInv ==
    /\ DOMAIN db = {"documents", "access", "files"} /\ DOMAIN db.files \subseteq 1..1
    /\ seq \in Nat \ {0} /\ DOMAIN req = Alone
    /\ RowsFit(DocumentSchema.documents, db.documents)
    /\ RowsFit(DocumentSchema.access, db.access)
    /\ \A w \in Alone : req[w] # None => TypedChanges(DocumentSchema, req[w])
    /\ \A a \in DOMAIN db.access : a[1] \in DOMAIN db.documents

\* A request that holds what fits, after the file that it stored or removed.
StoredHeld(w) ==
    /\ DOMAIN db' = DOMAIN db /\ db'.documents = db.documents /\ db'.access = db.access
    /\ DOMAIN db'.files \subseteq 1..1 /\ seq' \in {seq, seq + 1}
    /\ \/ req' = req
       \/ \E changes : TypedChanges(DocumentSchema, changes) /\ req' = [req EXCEPT ![w] = changes]

\* Every handler of documents holds what fits.
LEMMA DocumentHolds ==
    ASSUME DocumentsTypedInv, NEW w,
           \/ \E p \in Person : D!Store(w, p) \/ D!Share(w, p)
           \/ D!CleanupExpired(w)
    PROVE  StoredHeld(w)
<1>1. PICK ds, as : ds = DocumentSchema.documents /\ as = DocumentSchema.access
  OBVIOUS
<1>2. /\ DOMAIN ds = 1..1 /\ \A d \in 1..1 : ds[d] = DocumentColumns
      /\ DOMAIN as = (1..1) \X Person /\ \A a \in (1..1) \X Person : as[a] = AccessColumns
  BY <1>1, DocumentTables
<1>3. PICK yes \in BOOLEAN, no \in BOOLEAN : yes = TRUE /\ no = FALSE
  BY Zenon
<1>4. /\ DOMAIN db = {"documents", "access", "files"} /\ DOMAIN db.files \subseteq 1..1
      /\ seq \in Nat \ {0} /\ DOMAIN db.access \subseteq (1..1) \X Person
  BY <1>1, <1>2 DEF DocumentsTypedInv, RowsFit
<1>5. ASSUME NEW d, NEW write, TypedWrite(ds, d, write), NEW files, DOMAIN files \subseteq 1..1,
             NEW changes, changes = [documents |-> [i \in {d} |-> write]],
             D!Hold(w, changes) \/ (D!HoldStored(w, changes, files) /\ seq' \in {seq, seq + 1})
      PROVE  StoredHeld(w)
  <2>1. DOMAIN changes = {"documents"} /\ DOMAIN changes.documents = {d} /\ changes.documents[d] = write
    BY <1>5
  <2>2. TypedChanges(DocumentSchema, changes)
    BY <1>1, <1>5, <2>1, DocumentTables DEF TypedChanges
  <2>3. CASE D!Hold(w, changes)
    BY <1>4, <2>2, <2>3 DEF D!Hold, StoredHeld
  <2>4. CASE D!HoldStored(w, changes, files) /\ seq' \in {seq, seq + 1}
    <3>1. db' = [db EXCEPT !.files = files] /\ req' = [req EXCEPT ![w] = changes]
      BY <2>4 DEF D!HoldStored
    <3>2. DOMAIN db' = DOMAIN db /\ db'.documents = db.documents /\ db'.access = db.access /\ db'.files = files
      BY <1>4, <3>1
    <3>3. QED
      BY <1>5, <2>2, <2>4, <3>1, <3>2 DEF StoredHeld
  <2>5. QED
    BY <1>5, <2>3, <2>4
<1>6. ASSUME NEW ws, \A a \in DOMAIN ws : TypedWrite(as, a, ws[a]), D!Hold(w, [access |-> ws])
      PROVE  StoredHeld(w)
  <2>1. PICK changes : changes = [access |-> ws]
    OBVIOUS
  <2>2. DOMAIN changes = {"access"} /\ changes.access = ws
    BY <2>1
  <2>3. TypedChanges(DocumentSchema, changes)
    BY <1>1, <1>6, <2>2, DocumentTables DEF TypedChanges
  <2>4. QED
    BY <1>4, <1>6, <2>1, <2>3 DEF D!Hold, StoredHeld
<1>7. ASSUME NEW p \in Person, D!UploadDocument(w, p)
      PROVE  StoredHeld(w)
  <2>1. PICK row : row = [uploaded_by |-> p, folder |-> "/", deleted |-> no] /\ row = D!NewDocument(p)
    BY <1>3, Zenon DEF D!NewDocument
  <2>2. row \in D!Document /\ seq \in 1..1
    BY <1>4, <1>7, <2>1 DEF D!Document, D!UploadDocument
  <2>3. TypedWrite(ds, seq, D!Insert(row))
    BY <1>2, <2>2, TypedInsert, DocumentTables, DocumentOps
  <2>4. PICK files : files = D!Put(seq)
    OBVIOUS
  <2>5. DOMAIN files \subseteq 1..1
    BY <1>4, <2>2, <2>4 DEF D!Put, D!After
  <2>6. PICK changes : changes = [documents |-> [d \in {seq} |-> D!Insert(row)]]
    OBVIOUS
  <2>7. D!HoldStored(w, changes, files) /\ seq' \in {seq, seq + 1}
    BY <1>7, <2>1, <2>4, <2>6 DEF D!UploadDocument
  <2>8. QED
    BY <1>5, <2>3, <2>5, <2>6, <2>7
<1>8. ASSUME NEW p, D!UploadFails(w, p)
      PROVE  StoredHeld(w)
  BY <1>4, <1>8 DEF D!UploadFails, StoredHeld
<1>9. ASSUME NEW d \in 1..1, NEW cols, Fit(cols, DocumentColumns),
             D!Hold(w, [documents |-> [i \in {d} |-> D!Assign(db.documents[d], cols)]])
      PROVE  StoredHeld(w)
  <2>1. TypedWrite(ds, d, D!Assign(db.documents[d], cols))
    BY <1>2, <1>9, TypedColumns, DocumentOps
  <2>2. PICK changes : changes = [documents |-> [i \in {d} |-> D!Assign(db.documents[d], cols)]]
    OBVIOUS
  <2>3. QED
    BY <1>4, <1>5, <1>9, <2>1, <2>2
<1>10. ASSUME NEW p, NEW d \in 1..1, NEW folder \in {"/", "other"},
             D!SoftDelete(w, p, d) \/ D!UpdateDocument(w, p, d, folder)
      PROVE  StoredHeld(w)
  <2>1. PICK gone, moved : /\ gone = [deleted |-> yes] /\ gone = [deleted |-> TRUE]
                           /\ moved = [folder |-> folder]
    BY <1>3, Zenon
  <2>2. Fit(gone, DocumentColumns) /\ Fit(moved, DocumentColumns)
    BY <2>1 DEF Fit, DocumentColumns
  <2>3. QED
    BY <1>9, <1>10, <2>1, <2>2 DEF D!SoftDelete, D!UpdateDocument
<1>11. ASSUME NEW p, NEW d \in 1..1, D!HardDelete(w, p, d)
       PROVE  StoredHeld(w)
  <2>1. PICK files : files = D!Removed(d)
    OBVIOUS
  <2>2. DOMAIN files \subseteq 1..1
    BY <1>4, <2>1 DEF D!Removed, D!After, D!Delete
  <2>3. PICK changes : changes = [documents |-> [i \in {d} |-> D!Delete]]
    OBVIOUS
  <2>4. TypedWrite(ds, d, D!Delete)
    BY TypedDelete, DocumentOps
  <2>5. D!HoldStored(w, changes, files) /\ seq' \in {seq, seq + 1}
    BY <1>11, <2>1, <2>3 DEF D!HardDelete
  <2>6. QED
    BY <1>5, <2>2, <2>3, <2>4, <2>5
<1>12. ASSUME NEW p \in Person, D!Store(w, p)
       PROVE  StoredHeld(w)
  <2>1. "/" \in {"/", "other"}
    OBVIOUS
  <2>2. QED
    BY <1>7, <1>8, <1>10, <1>11, <1>12, <2>1 DEF D!Store
<1>13. ASSUME NEW p \in Person, NEW d \in 1..1, NEW users \in SUBSET Person,
              NEW level \in {"view", "edit"}, NEW expiry \in {"never", "later"},
              D!ShareDocument(w, p, d, users, level, expiry)
       PROVE  StoredHeld(w)
  <2>1. PICK row : row = D!NewAccess(p, level, expiry)
    OBVIOUS
  <2>2. row \in D!DocumentAccess
    BY <2>1 DEF D!NewAccess, D!DocumentAccess, D!DocumentAccessLevel, D!Expiry
  <2>3. Fit(row, AccessColumns)
    BY <2>2, InCols, DocumentTables DEF Fit
  <2>4. PICK ws : ws = [a \in {d} \X users |-> D!Granted(d, a[2], D!NewAccess(p, level, expiry))]
    OBVIOUS
  <2>5. ASSUME NEW a \in DOMAIN ws
        PROVE  TypedWrite(as, a, ws[a])
    <3>1. a \in {d} \X users
      BY <2>4
    <3>2. a \in (1..1) \X Person
      BY <3>1
    <3>3. ws[a] = D!Granted(d, a[2], row)
      BY <2>1, <2>4, <3>1
    <3>4. ws[a] = Q!Assign(db.access[<<d, a[2]>>], row) \/ ws[a] = Q!Insert(row)
      BY <3>3, DocumentOps DEF D!Granted
    <3>5. PICK old : old = db.access[<<d, a[2]>>]
      OBVIOUS
    <3>6. TypedWrite(as, a, Q!Assign(old, row)) /\ TypedWrite(as, a, Q!Insert(row))
      BY <1>2, <2>2, <2>3, <3>2, TypedColumns, TypedInsert, DocumentTables
    <3>7. QED
      BY <3>4, <3>5, <3>6
  <2>6. QED
    BY <1>6, <1>13, <2>4, <2>5 DEF D!ShareDocument
<1>14. ASSUME NEW ids, D!Hold(w, [access |-> D!Each(ids, D!Delete)])
       PROVE  StoredHeld(w)
  <2>1. PICK ws : ws = D!Each(ids, D!Delete)
    OBVIOUS
  <2>2. \A a \in DOMAIN ws : TypedWrite(as, a, ws[a])
    BY <2>1, TypedDelete, DocumentOps DEF D!Each
  <2>3. QED
    BY <1>6, <1>14, <2>1, <2>2
<1>15. ASSUME NEW p \in Person, D!Share(w, p)
       PROVE  StoredHeld(w)
  BY <1>13, <1>14, <1>15 DEF D!Share, D!RevokeAccess, D!Revoked
<1>16. CASE D!CleanupExpired(w)
  BY <1>14, <1>16 DEF D!CleanupExpired
<1>17. QED
  BY <1>12, <1>15, <1>16

\* Access to a document goes with it.
LEMMA DocumentsCommitted ==
    ASSUME DocumentsTypedInv, NEW w \in Alone, D!CommitDocuments(w)
    PROVE  /\ DOMAIN db' = DOMAIN db /\ db'.files = db.files
           /\ RowsFit(DocumentSchema.documents, db'.documents)
           /\ RowsFit(DocumentSchema.access, db'.access)
           /\ \A a \in DOMAIN db'.access : a[1] \in DOMAIN db'.documents
<1>1. PICK ds, as : ds = DocumentSchema.documents /\ as = DocumentSchema.access
  OBVIOUS
<1>2. PICK changes : changes = req[w] /\ TypedChanges(DocumentSchema, changes)
  BY DEF DocumentsTypedInv, D!CommitDocuments, D!Free
<1>3. PICK all : all = D!AfterAll(changes)
  OBVIOUS
<1>4. PICK kept : kept = {a \in DOMAIN all.access : a[1] \in DOMAIN all.documents}
  OBVIOUS
<1>5. PICK rows : rows = [a \in kept |-> all.access[a]]
  OBVIOUS
<1>6. db' = [all EXCEPT !.access = rows]
  BY <1>2, <1>3, <1>4, <1>5 DEF D!CommitDocuments, D!CommitAs
<1>7. DOMAIN db = {"documents", "access", "files"} /\ DOMAIN changes \subseteq {"documents", "access"}
  BY <1>2, DocumentTables DEF DocumentsTypedInv, TypedChanges
<1>8. /\ DOMAIN all = DOMAIN db /\ all.files = db.files
      /\ all.documents = IF "documents" \in DOMAIN changes THEN Q!After(db.documents, changes.documents)
                         ELSE db.documents
      /\ all.access = IF "access" \in DOMAIN changes THEN Q!After(db.access, changes.access) ELSE db.access
  BY <1>3, <1>7, DocumentOps DEF D!AfterAll
<1>9. /\ DOMAIN db' = DOMAIN db /\ db'.files = db.files /\ db'.documents = all.documents
      /\ db'.access = rows
  BY <1>6, <1>7, <1>8
<1>10. RowsFit(ds, all.documents)
  <2>1. CASE "documents" \in DOMAIN changes
    <3>1. PICK ws, old : ws = changes.documents /\ old = db.documents
      OBVIOUS
    <3>2. \A j \in DOMAIN ws : TypedWrite(ds, j, ws[j])
      BY <1>1, <1>2, <2>1, <3>1 DEF TypedChanges
    <3>3. \A j \in DOMAIN old : j \in DOMAIN ds /\ old[j] \in Cols(ds[j])
      BY <1>1, <3>1 DEF DocumentsTypedInv, RowsFit
    <3>4. all.documents = Q!After(old, ws)
      BY <1>8, <2>1, <3>1
    <3>5. QED
      BY <3>2, <3>3, <3>4, RowsAfter DEF RowsFit
  <2>2. CASE "documents" \notin DOMAIN changes
    BY <1>1, <1>8, <2>2 DEF DocumentsTypedInv
  <2>3. QED
    BY <2>1, <2>2
<1>11. RowsFit(as, all.access)
  <2>1. CASE "access" \in DOMAIN changes
    <3>1. PICK ws, old : ws = changes.access /\ old = db.access
      OBVIOUS
    <3>2. \A j \in DOMAIN ws : TypedWrite(as, j, ws[j])
      BY <1>1, <1>2, <2>1, <3>1 DEF TypedChanges
    <3>3. \A j \in DOMAIN old : j \in DOMAIN as /\ old[j] \in Cols(as[j])
      BY <1>1, <3>1 DEF DocumentsTypedInv, RowsFit
    <3>4. all.access = Q!After(old, ws)
      BY <1>8, <2>1, <3>1
    <3>5. QED
      BY <3>2, <3>3, <3>4, RowsAfter DEF RowsFit
  <2>2. CASE "access" \notin DOMAIN changes
    BY <1>1, <1>8, <2>2 DEF DocumentsTypedInv
  <2>3. QED
    BY <2>1, <2>2
<1>12. DOMAIN rows = kept /\ kept \subseteq DOMAIN all.access /\ \A a \in kept : rows[a] = all.access[a]
  BY <1>4, <1>5
<1>13. RowsFit(as, rows)
  BY <1>11, <1>12 DEF RowsFit
<1>14. \A a \in DOMAIN rows : a[1] \in DOMAIN all.documents
  BY <1>4, <1>12
<1>15. QED
  BY <1>1, <1>9, <1>10, <1>13, <1>14

\* A step keeps documents typed, and access with its document.
LEMMA DocumentsTypedStep ==
    ASSUME part = "documents", DocumentsTypedInv, MCNext
    PROVE  DocumentsTypedInv'
<1>1. D!Next
  BY DEF MCNext, RowsNext
<1>2. ASSUME NEW w \in Alone, \/ \E p \in Person : D!Store(w, p) \/ D!Share(w, p)
                              \/ D!CleanupExpired(w)
      PROVE  DocumentsTypedInv'
  <2>1. StoredHeld(w)
    BY <1>2, DocumentHolds
  <2>2. /\ DOMAIN req' = Alone /\ seq' \in Nat \ {0}
        /\ \A v \in Alone : req'[v] # None => TypedChanges(DocumentSchema, req'[v])
    BY <2>1 DEF StoredHeld, DocumentsTypedInv
  <2>3. QED
    BY <2>1, <2>2 DEF StoredHeld, DocumentsTypedInv
<1>3. ASSUME NEW w \in Alone, D!CommitDocuments(w)
      PROVE  DocumentsTypedInv'
  <2>1. req' = [req EXCEPT ![w] = None] /\ seq' = seq
    BY <1>3 DEF D!CommitDocuments, D!CommitAs
  <2>2. QED
    BY <1>3, <2>1, DocumentsCommitted DEF DocumentsTypedInv
<1>4. ASSUME NEW w \in Alone, D!Rollback(w)
      PROVE  DocumentsTypedInv'
  BY <1>4 DEF D!Rollback, DocumentsTypedInv
<1>5. ASSUME NEW a \in (1..1) \X Person, D!Expire(a)
      PROVE  DocumentsTypedInv'
  <2>1. PICK rows, rows2 : rows = db.access /\ rows2 = [rows EXCEPT ![a].expires_at = "past"]
    OBVIOUS
  <2>2. UNCHANGED <<seq, req>> /\ a \in DOMAIN rows /\ db' = [db EXCEPT !.access = rows2]
    BY <1>5, <2>1 DEF D!Expire
  <2>3. /\ DOMAIN db' = DOMAIN db /\ db'.access = rows2 /\ DOMAIN rows2 = DOMAIN rows
        /\ db'.documents = db.documents /\ db'.files = db.files
    BY <2>1, <2>2 DEF DocumentsTypedInv
  <2>4. \A i \in DOMAIN rows : i \in (1..1) \X Person /\ rows[i] \in D!DocumentAccess
    BY <2>1, DocumentTables DEF DocumentsTypedInv, RowsFit
  <2>5. \A i \in DOMAIN rows2 : i \in (1..1) \X Person /\ rows2[i] \in D!DocumentAccess
    BY <2>1, <2>4 DEF D!DocumentAccess, D!Expiry
  <2>6. RowsFit(DocumentSchema.access, rows2)
    BY <2>5, DocumentTables DEF RowsFit
  <2>7. QED
    BY <2>1, <2>2, <2>3, <2>6 DEF DocumentsTypedInv
<1>6. QED
  BY <1>1, <1>2, <1>3, <1>4, <1>5 DEF D!Next

\* At first there are no documents.
LEMMA DocumentsTypedStart ==
    ASSUME part = "documents", MCInit
    PROVE  DocumentsTypedInv
<1>1. DOMAIN D!NoRows = {}
  BY DEF D!NoRows
<1>2. /\ DOMAIN db = {"documents", "access", "files"} /\ db.documents = D!NoRows
      /\ db.access = D!NoRows /\ db.files = D!NoRows /\ seq = 1 /\ req = [w \in Alone |-> None]
  BY DEF MCInit, PartInit, D!Init, D!Start
<1>3. QED
  BY <1>1, <1>2 DEF DocumentsTypedInv, RowsFit

\* The invariant is stronger than the types.
LEMMA DocumentsTyped ==
    ASSUME DocumentsTypedInv
    PROVE  D!TypeOK
<1>1. \A d \in DOMAIN db.documents : d \in 1..1 /\ db.documents[d] \in D!Document
  BY DocumentTables DEF DocumentsTypedInv, RowsFit
<1>2. \A a \in DOMAIN db.access : a \in (1..1) \X Person /\ db.access[a] \in D!DocumentAccess
  BY DocumentTables DEF DocumentsTypedInv, RowsFit
<1>3. \A a \in (1..1) \X Person : a[2] \in Person
  OBVIOUS
<1>4. QED
  BY <1>1, <1>2, <1>3 DEF DocumentsTypedInv, D!TypeOK

-------------------------------------------------------------------------------
(* Workflows *)

EnvironmentColumns == [is_active |-> BOOLEAN]
WorkflowTemplateColumns == [is_public |-> BOOLEAN]
InstanceColumns ==
    [status |-> W!WorkflowStatus, template |-> (1..2) \cup {None}, environment |-> (1..2) \cup {None}]
VersionColumns == [is_current |-> BOOLEAN]
WorkflowSchema ==
    [environments |-> [e \in 1..2 |-> EnvironmentColumns],
     templates |-> [t \in 1..2 |-> WorkflowTemplateColumns],
     instances |-> [i \in 1..2 |-> InstanceColumns],
     versions |-> [v \in (1..2) \X (1..4) |-> VersionColumns]]

\* The schema of workflows has the model's rows.
LEMMA WorkflowTables ==
    /\ DOMAIN WorkflowSchema = {"environments", "templates", "instances", "versions"}
    /\ DOMAIN WorkflowSchema.environments = 1..2 /\ DOMAIN WorkflowSchema.templates = 1..2
    /\ DOMAIN WorkflowSchema.instances = 1..2 /\ DOMAIN WorkflowSchema.versions = (1..2) \X (1..4)
    /\ \A e \in 1..2 : /\ WorkflowSchema.environments[e] = EnvironmentColumns
                       /\ WorkflowSchema.templates[e] = WorkflowTemplateColumns
                       /\ WorkflowSchema.instances[e] = InstanceColumns
    /\ \A v \in (1..2) \X (1..4) : WorkflowSchema.versions[v] = VersionColumns
    /\ Cols(EnvironmentColumns) = W!N8nEnvironment /\ Cols(WorkflowTemplateColumns) = W!WorkflowTemplate
    /\ Cols(InstanceColumns) = W!WorkflowInstance /\ Cols(VersionColumns) = W!WorkflowVersion
<1>1. \A r : r \in Cols(EnvironmentColumns) <=> r \in W!N8nEnvironment
  BY InCols DEF EnvironmentColumns, W!N8nEnvironment
<1>2. \A r : r \in Cols(WorkflowTemplateColumns) <=> r \in W!WorkflowTemplate
  BY InCols DEF WorkflowTemplateColumns, W!WorkflowTemplate
<1>3. \A r : r \in Cols(InstanceColumns) <=> r \in W!WorkflowInstance
  BY InCols DEF InstanceColumns, W!WorkflowInstance
<1>4. \A r : r \in Cols(VersionColumns) <=> r \in W!WorkflowVersion
  BY InCols DEF VersionColumns, W!WorkflowVersion
<1>5. QED
  BY <1>1, <1>2, <1>3, <1>4 DEF WorkflowSchema

\* Workflows assign columns as Requests does.
LEMMA WorkflowAssign == \A row, cols : W!Assign(row, cols) = Q!Assign(row, cols)
BY DEF W!Assign, Q!Assign, W!Update, Q!Update

\* No request deletes an instance, and none writes a version of one that is not there.
OfInstances(changes) ==
    /\ "instances" \in DOMAIN changes =>
           \A i \in DOMAIN changes.instances : changes.instances[i].op # "delete"
    /\ "versions" \in DOMAIN changes =>
           \A v \in DOMAIN changes.versions : v[1] \in DOMAIN db.instances

\* Rows and requests fit the schema, instances name rows that exist, versions instances.
WorkflowsTypedInv ==
    /\ Typed(WorkflowSchema, Alone)
    /\ \A w \in Alone : req[w] # None => OfInstances(req[w])
    /\ \A v \in DOMAIN db.versions : v[1] \in DOMAIN db.instances
    /\ \A i \in DOMAIN db.instances :
           /\ db.instances[i].environment \in DOMAIN db.environments \cup {None}
           /\ db.instances[i].template \in DOMAIN db.templates \cup {None}

\* A request that holds what fits and is of instances that exist.
WorkflowHeld(w) ==
    /\ db' = db /\ seq' \in {seq, seq + 1}
    /\ \E changes : /\ TypedChanges(WorkflowSchema, changes) /\ OfInstances(changes)
                    /\ req' = [req EXCEPT ![w] = changes]

\* The next version number is within the bound that the handler checks.
LEMMA NextNumber ==
    ASSUME \A v \in DOMAIN db.versions : v \in (1..2) \X (1..4), NEW i, W!NextVersion(i) <= 4
    PROVE  W!NextVersion(i) \in 1..4
<1>1. PICK ns : ns = W!Numbers(i) \cup {0}
  OBVIOUS
<1>2. \A v \in (1..2) \X (1..4) : v[2] \in 1..4
  OBVIOUS
<1>3. \A n \in ns : n \in 0..4
  BY <1>1, <1>2 DEF W!Numbers, W!Versions
<1>4. 0 \in ns
  BY <1>1
<1>5. \E n \in ns : \A k \in ns : k <= n
  <2>1. CASE 4 \in ns
    BY <1>3, <2>1
  <2>2. CASE 4 \notin ns /\ 3 \in ns
    BY <1>3, <2>2
  <2>3. CASE 4 \notin ns /\ 3 \notin ns /\ 2 \in ns
    BY <1>3, <2>3
  <2>4. CASE 4 \notin ns /\ 3 \notin ns /\ 2 \notin ns /\ 1 \in ns
    BY <1>3, <2>4
  <2>5. CASE 4 \notin ns /\ 3 \notin ns /\ 2 \notin ns /\ 1 \notin ns
    BY <1>3, <1>4, <2>5
  <2>6. QED
    BY <2>1, <2>2, <2>3, <2>4, <2>5
<1>6. PICK top : top = CHOOSE n \in ns : \A k \in W!Numbers(i) : k <= n
  OBVIOUS
<1>7. \E n \in ns : \A k \in W!Numbers(i) : k <= n
  BY <1>1, <1>5
<1>8. top \in ns
  BY <1>6, <1>7
<1>9. W!NextVersion(i) = 1 + top
  BY <1>1, <1>6 DEF W!NextVersion
<1>10. QED
  BY <1>3, <1>8, <1>9

\* A new version fits, and so does what it makes of the current one.
LEMMA VersionTyped ==
    ASSUME NEW table, DOMAIN table = (1..2) \X (1..4),
           \A v \in (1..2) \X (1..4) : table[v] = VersionColumns,
           \A v \in DOMAIN db.versions : v \in (1..2) \X (1..4),
           NEW i \in 1..2, W!NextVersion(i) <= 4, NEW current \in BOOLEAN,
           NEW v \in DOMAIN W!NewVersion(i, current)
    PROVE  v[1] = i /\ TypedWrite(table, v, W!NewVersion(i, current)[v])
<1>1. PICK yes \in BOOLEAN, no \in BOOLEAN : yes = TRUE /\ no = FALSE
  BY Zenon
<1>2. PICK new : new = <<i, W!NextVersion(i)>>
  OBVIOUS
<1>3. new \in (1..2) \X (1..4) /\ new[1] = i
  BY <1>2, NextNumber
<1>4. PICK row : row = [is_current |-> current]
  OBVIOUS
<1>5. PICK cols : cols = [is_current |-> no] /\ cols = [is_current |-> FALSE]
  BY <1>1, Zenon
<1>6. row \in Cols(VersionColumns) /\ Fit(cols, VersionColumns)
  <2>1. row \in W!WorkflowVersion
    BY <1>4 DEF W!WorkflowVersion
  <2>2. Fit(cols, VersionColumns)
    BY <1>5 DEF Fit, VersionColumns
  <2>3. QED
    BY <2>1, <2>2, WorkflowTables
<1>7. PICK ws : ws = W!NewVersion(i, current)
  OBVIOUS
<1>8. PICK unset : unset = IF current THEN W!UnsetCurrent(i) ELSE W!NoRows
  OBVIOUS
<1>9. \A x \in DOMAIN unset : x \in DOMAIN db.versions /\ x[1] = i /\ unset[x] = Q!Update(cols)
  BY <1>5, <1>8, VersionOps DEF W!UnsetCurrent, W!Each, W!NoRows, W!Versions
<1>10. /\ DOMAIN ws = DOMAIN unset \cup {new} /\ ws[new] = Q!Insert(row)
      /\ \A x \in DOMAIN unset \ {new} : ws[x] = unset[x]
  BY <1>2, <1>4, <1>7, <1>8, VersionOps DEF W!NewVersion, W!Both
<1>11. row \in Cols(table[new]) /\ new \in DOMAIN table
  BY <1>3, <1>6
<1>12. TypedWrite(table, new, ws[new])
  BY <1>10, <1>11, TypedInsert
<1>13. ASSUME v # new
       PROVE  v[1] = i /\ TypedWrite(table, v, ws[v])
  <2>1. v \in DOMAIN db.versions /\ v[1] = i /\ ws[v] = Q!Update(cols)
    BY <1>7, <1>9, <1>10, <1>13
  <2>2. Fit(cols, table[v])
    BY <1>6, <2>1
  <2>3. QED
    BY <2>1, <2>2, TypedColumns
<1>14. QED
  BY <1>3, <1>7, <1>12, <1>13

\* Every handler of workflows holds what fits.
LEMMA WorkflowHolds ==
    ASSUME TypedRows(WorkflowSchema, db), seq \in Nat \ {0}, NEW w,
           W!Configure(w) \/ W!Edit(w)
    PROVE  WorkflowHeld(w)
<1>1. PICK es, ts, is, vs :
          /\ es = WorkflowSchema.environments /\ ts = WorkflowSchema.templates
          /\ is = WorkflowSchema.instances /\ vs = WorkflowSchema.versions
  OBVIOUS
<1>2. /\ DOMAIN es = 1..2 /\ DOMAIN ts = 1..2 /\ DOMAIN is = 1..2 /\ DOMAIN vs = (1..2) \X (1..4)
      /\ \A i \in 1..2 : /\ es[i] = EnvironmentColumns /\ ts[i] = WorkflowTemplateColumns
                         /\ is[i] = InstanceColumns
      /\ \A v \in (1..2) \X (1..4) : vs[v] = VersionColumns
  BY <1>1, WorkflowTables
<1>3. /\ \A v \in DOMAIN db.versions : v \in (1..2) \X (1..4)
      /\ \A i \in DOMAIN db.instances : i \in 1..2
  BY WorkflowTables DEF TypedRows
<1>4. ASSUME NEW ws, \/ /\ \A e \in DOMAIN ws : TypedWrite(es, e, ws[e])
                        /\ W!Hold(w, [environments |-> ws]) \/ W!HoldNew(w, [environments |-> ws])
                     \/ /\ \A t \in DOMAIN ws : TypedWrite(ts, t, ws[t])
                        /\ W!HoldNew(w, [templates |-> ws])
      PROVE  WorkflowHeld(w)
  <2>1. PICK a, b : a = [environments |-> ws] /\ b = [templates |-> ws]
    OBVIOUS
  <2>2. /\ DOMAIN a = {"environments"} /\ a.environments = ws
        /\ DOMAIN b = {"templates"} /\ b.templates = ws
    BY <2>1
  <2>3. /\ (\A e \in DOMAIN ws : TypedWrite(es, e, ws[e])) => TypedChanges(WorkflowSchema, a)
        /\ (\A t \in DOMAIN ws : TypedWrite(ts, t, ws[t])) => TypedChanges(WorkflowSchema, b)
        /\ OfInstances(a) /\ OfInstances(b)
    BY <1>1, <2>2, WorkflowTables DEF TypedChanges, OfInstances
  <2>4. QED
    BY <1>4, <2>1, <2>3 DEF W!Hold, W!HoldNew, WorkflowHeld
<1>5. ASSUME NEW i, NEW write, TypedWrite(is, i, write), write.op # "delete",
             NEW ws, DOMAIN ws = {i}, ws[i] = write,
             W!Hold(w, [instances |-> ws]) \/ W!HoldNew(w, [instances |-> ws])
      PROVE  WorkflowHeld(w)
  <2>1. PICK a : a = [instances |-> ws]
    OBVIOUS
  <2>2. DOMAIN a = {"instances"} /\ a.instances = ws
    BY <2>1
  <2>3. TypedChanges(WorkflowSchema, a) /\ OfInstances(a)
    BY <1>1, <1>5, <2>2, WorkflowTables DEF TypedChanges, OfInstances
  <2>4. QED
    BY <1>5, <2>1, <2>3 DEF W!Hold, W!HoldNew, WorkflowHeld
<1>6. ASSUME NEW ws, \A v \in DOMAIN ws : v[1] \in DOMAIN db.instances /\ TypedWrite(vs, v, ws[v]),
             W!Hold(w, [versions |-> ws])
      PROVE  WorkflowHeld(w)
  <2>1. PICK a : a = [versions |-> ws]
    OBVIOUS
  <2>2. DOMAIN a = {"versions"} /\ a.versions = ws
    BY <2>1
  <2>3. TypedChanges(WorkflowSchema, a) /\ OfInstances(a)
    BY <1>1, <1>6, <2>2, WorkflowTables DEF TypedChanges, OfInstances
  <2>4. QED
    BY <1>6, <2>1, <2>3 DEF W!Hold, WorkflowHeld
<1>7. ASSUME NEW b \in BOOLEAN, W!CreateEnvironment(w, b)
      PROVE  WorkflowHeld(w)
  <2>1. PICK row : row = [is_active |-> b] /\ row = W!NewEnvironment(b)
    BY DEF W!NewEnvironment
  <2>2. row \in Cols(EnvironmentColumns) /\ seq \in 1..2
    BY <1>7, <2>1, WorkflowTables DEF W!N8nEnvironment, W!CreateEnvironment, W!HoldNew
  <2>3. TypedWrite(es, seq, Q!Insert(row))
    BY <1>2, <2>2, TypedInsert
  <2>4. PICK ws : ws = [e \in {seq} |-> Q!Insert(row)]
    OBVIOUS
  <2>5. W!HoldNew(w, [environments |-> ws])
    BY <1>7, <2>1, <2>4, VersionOps DEF W!CreateEnvironment
  <2>6. QED
    BY <1>4, <2>3, <2>4, <2>5
<1>8. ASSUME NEW b \in BOOLEAN, W!CreateTemplate(w, b)
      PROVE  WorkflowHeld(w)
  <2>1. PICK row : row = [is_public |-> b] /\ row = W!NewTemplate(b)
    BY DEF W!NewTemplate
  <2>2. row \in Cols(WorkflowTemplateColumns) /\ seq \in 1..2
    BY <1>8, <2>1, WorkflowTables DEF W!WorkflowTemplate, W!CreateTemplate, W!HoldNew
  <2>3. TypedWrite(ts, seq, Q!Insert(row))
    BY <1>2, <2>2, TypedInsert
  <2>4. PICK ws : ws = [t \in {seq} |-> Q!Insert(row)]
    OBVIOUS
  <2>5. W!HoldNew(w, [templates |-> ws])
    BY <1>8, <2>1, <2>4, VersionOps DEF W!CreateTemplate
  <2>6. QED
    BY <1>4, <2>3, <2>4, <2>5
<1>9. ASSUME NEW e, W!DeleteEnvironment(w, e)
      PROVE  WorkflowHeld(w)
  <2>1. PICK ws : ws = [i \in {e} |-> W!Delete]
    OBVIOUS
  <2>2. \A i \in DOMAIN ws : TypedWrite(es, i, ws[i])
    BY <2>1, VersionOps, TypedDelete
  <2>3. QED
    BY <1>4, <1>9, <2>1, <2>2 DEF W!DeleteEnvironment
<1>10. ASSUME NEW t \in (1..2) \cup {None}, NEW e \in (1..2) \cup {None}, W!CreateInstance(w, t, e)
      PROVE  WorkflowHeld(w)
  <2>1. PICK row : row = [status |-> "draft", template |-> t, environment |-> e] /\ row = W!NewInstance(t, e)
    BY DEF W!NewInstance
  <2>2. row \in Cols(InstanceColumns) /\ seq \in 1..2
    BY <1>10, <2>1, WorkflowTables DEF W!WorkflowInstance, W!WorkflowStatus, W!CreateInstance, W!HoldNew
  <2>3. TypedWrite(is, seq, Q!Insert(row)) /\ Q!Insert(row).op # "delete"
    BY <1>2, <2>2, TypedInsert, InsertOp
  <2>4. PICK ws : ws = [i \in {seq} |-> Q!Insert(row)]
    OBVIOUS
  <2>5. W!HoldNew(w, [instances |-> ws])
    BY <1>10, <2>1, <2>4, VersionOps DEF W!CreateInstance
  <2>6. QED
    BY <1>5, <2>3, <2>4, <2>5
<1>11. ASSUME NEW i \in 1..2, W!DeleteInstance(w, i)
       PROVE  WorkflowHeld(w)
  <2>1. PICK cols : cols = [status |-> "deleted"]
    OBVIOUS
  <2>2. Fit(cols, InstanceColumns)
    BY <2>1 DEF Fit, InstanceColumns, W!WorkflowStatus
  <2>3. PICK write : write = Q!Assign(db.instances[i], cols)
    OBVIOUS
  <2>4. Fit(cols, is[i])
    BY <1>2, <2>2
  <2>5. TypedWrite(is, i, write) /\ write.op = "update"
    BY <2>3, <2>4, TypedColumns, AssignedColumns
  <2>6. PICK ws : ws = [j \in {i} |-> write]
    OBVIOUS
  <2>7. W!Hold(w, [instances |-> ws])
    BY <1>11, <2>1, <2>3, <2>6, WorkflowAssign DEF W!DeleteInstance, W!Deleted
  <2>8. QED
    BY <1>5, <2>5, <2>6, <2>7
<1>12. ASSUME NEW i \in 1..2, NEW b \in BOOLEAN, i \in DOMAIN db.instances, W!NextVersion(i) <= 4,
              W!Hold(w, [versions |-> W!NewVersion(i, b)])
       PROVE  WorkflowHeld(w)
  <2>1. PICK ws : ws = W!NewVersion(i, b)
    OBVIOUS
  <2>2. \A v \in DOMAIN ws : v[1] = i /\ TypedWrite(vs, v, ws[v])
    BY <1>2, <1>3, <1>12, <2>1, VersionTyped
  <2>3. QED
    BY <1>6, <1>12, <2>1, <2>2
<1>13. ASSUME NEW i \in 1..2, NEW b \in BOOLEAN, W!CreateVersion(w, i, b)
       PROVE  WorkflowHeld(w)
  BY <1>12, <1>13 DEF W!CreateVersion
<1>14. ASSUME NEW i \in 1..2, NEW n, W!RestoreVersion(w, i, n)
       PROVE  WorkflowHeld(w)
  <2>1. PICK yes \in BOOLEAN : yes = TRUE
    BY Zenon
  <2>2. W!Hold(w, [versions |-> W!NewVersion(i, yes)])
    BY <1>14, <2>1, Zenon DEF W!RestoreVersion
  <2>3. QED
    BY <1>12, <1>14, <2>2 DEF W!RestoreVersion
<1>15. ASSUME NEW i, W!PruneOldVersions(w, i)
       PROVE  WorkflowHeld(w)
  <2>1. PICK ws : ws = W!Each(W!Pruned(i), W!Delete)
    OBVIOUS
  <2>2. \A v \in DOMAIN ws : v[1] = i /\ TypedWrite(vs, v, ws[v])
    BY <2>1, VersionOps, TypedDelete DEF W!Each, W!Pruned, W!Versions
  <2>3. QED
    BY <1>6, <1>15, <2>1, <2>2 DEF W!PruneOldVersions
<1>16. CASE W!Configure(w)
  BY <1>7, <1>8, <1>9, <1>16 DEF W!Configure
<1>17. CASE W!Edit(w)
  BY <1>10, <1>11, <1>13, <1>14, <1>15, <1>17 DEF W!Edit
<1>18. QED
  BY <1>16, <1>17

\* The commit checks what an instance refers to; the environments that go are set to NULL.
LEMMA WorkflowCommits ==
    ASSUME WorkflowsTypedInv, NEW w \in Alone, W!CommitWorkflows(w)
    PROVE  /\ TypedRows(WorkflowSchema, db') /\ DOMAIN db.instances \subseteq DOMAIN db'.instances
           /\ \A v \in DOMAIN db'.versions : v[1] \in DOMAIN db'.instances
           /\ \A i \in DOMAIN db'.instances :
                  /\ db'.instances[i].environment \in DOMAIN db'.environments \cup {None}
                  /\ db'.instances[i].template \in DOMAIN db'.templates \cup {None}
<1>1. PICK changes : changes = req[w] /\ TypedChanges(WorkflowSchema, changes) /\ OfInstances(changes)
  BY DEF WorkflowsTypedInv, Typed, W!CommitWorkflows, W!Free
<1>2. PICK all : all = W!AfterAll(changes)
  OBVIOUS
<1>3. all = Merged(changes)
  BY <1>2, VersionOps DEF W!AfterAll, Merged
<1>4. TypedRows(WorkflowSchema, db) /\ TypedRows(WorkflowSchema, all)
  BY <1>1, <1>3, MergedTyped DEF WorkflowsTypedInv, Typed
<1>5. PICK gone : gone = DOMAIN db.environments \ DOMAIN all.environments
  OBVIOUS
<1>6. PICK is :
          is = [i \in DOMAIN all.instances |->
                   IF all.instances[i].environment \in gone
                   THEN [all.instances[i] EXCEPT !.environment = None] ELSE all.instances[i]]
  OBVIOUS
<1>7. /\ \A i \in DOMAIN is :
             /\ is[i].environment \in DOMAIN all.environments \cup {None}
             /\ is[i].template \in DOMAIN all.templates \cup {None}
      /\ db' = [all EXCEPT !.instances = is]
  BY <1>1, <1>2, <1>5, <1>6 DEF W!CommitWorkflows, W!CommitAs
<1>8. DOMAIN all = {"environments", "templates", "instances", "versions"}
  BY <1>4, WorkflowTables DEF TypedRows
<1>9. /\ DOMAIN db' = DOMAIN all /\ db'.instances = is /\ db'.environments = all.environments
      /\ db'.templates = all.templates /\ db'.versions = all.versions
  BY <1>7, <1>8
<1>10. DOMAIN is = DOMAIN all.instances
  BY <1>6
<1>11. ASSUME NEW i \in DOMAIN is
       PROVE  i \in 1..2 /\ is[i] \in W!WorkflowInstance
  <2>1. i \in 1..2 /\ all.instances[i] \in W!WorkflowInstance
    BY <1>4, <1>10, <1>11, WorkflowTables DEF TypedRows
  <2>2. PICK row : row = all.instances[i] /\ row \in W!WorkflowInstance
    BY <2>1
  <2>3. is[i] = row \/ is[i] = [row EXCEPT !.environment = None]
    BY <1>6, <1>10, <2>2
  <2>4. [row EXCEPT !.environment = None] \in W!WorkflowInstance
    BY <2>2 DEF W!WorkflowInstance
  <2>5. QED
    BY <2>1, <2>2, <2>3, <2>4
<1>12. TypedRows(WorkflowSchema, db')
  BY <1>4, <1>8, <1>9, <1>11, WorkflowTables DEF TypedRows
<1>13. DOMAIN db.instances \subseteq DOMAIN all.instances
  <2>1. CASE "instances" \in DOMAIN changes
    <3>1. PICK ws : ws = changes.instances /\ \A i \in DOMAIN ws : ws[i].op # "delete"
      BY <1>1, <2>1 DEF OfInstances
    <3>2. all.instances = Q!After(db.instances, ws)
      BY <1>3, <1>4, <2>1, <3>1, WorkflowTables DEF Merged, TypedRows
    <3>3. QED
      BY <3>1, <3>2, NothingDeleted
  <2>2. CASE "instances" \notin DOMAIN changes
    BY <1>3, <1>4, <2>2, WorkflowTables DEF Merged, TypedRows
  <2>3. QED
    BY <2>1, <2>2
<1>14. ASSUME NEW v \in DOMAIN all.versions
       PROVE  v[1] \in DOMAIN db.instances
  <2>1. \A x \in DOMAIN db.versions : x[1] \in DOMAIN db.instances
    BY DEF WorkflowsTypedInv
  <2>2. CASE "versions" \in DOMAIN changes
    <3>1. PICK ws : ws = changes.versions /\ \A x \in DOMAIN ws : x[1] \in DOMAIN db.instances
      BY <1>1, <2>2 DEF OfInstances
    <3>2. all.versions = Q!After(db.versions, ws)
      BY <1>3, <1>4, <2>2, <3>1, WorkflowTables DEF Merged, TypedRows
    <3>3. v \in DOMAIN db.versions \/ v \in DOMAIN ws
      BY <1>14, <3>2, RowAfter
    <3>4. QED
      BY <2>1, <3>1, <3>3
  <2>3. CASE "versions" \notin DOMAIN changes
    BY <1>3, <1>4, <1>14, <2>1, <2>3, WorkflowTables DEF Merged, TypedRows
  <2>4. QED
    BY <2>2, <2>3
<1>15. QED
  BY <1>7, <1>9, <1>10, <1>12, <1>13, <1>14

\* A step keeps workflows typed, with the rows they name.
LEMMA WorkflowsTypedStep ==
    ASSUME part = "workflows", WorkflowsTypedInv, MCNext
    PROVE  WorkflowsTypedInv'
<1>1. W!Next
  BY DEF MCNext, RowsNext
<1>2. TypedRows(WorkflowSchema, db) /\ seq \in Nat \ {0} /\ DOMAIN req = Alone
  BY DEF WorkflowsTypedInv, Typed
<1>3. ASSUME NEW w \in Alone, W!Configure(w) \/ W!Edit(w)
      PROVE  WorkflowsTypedInv'
  <2>1. PICK changes : /\ db' = db /\ seq' \in {seq, seq + 1}
                       /\ TypedChanges(WorkflowSchema, changes) /\ OfInstances(changes)
                       /\ req' = [req EXCEPT ![w] = changes]
    BY <1>2, <1>3, WorkflowHolds DEF WorkflowHeld
  <2>2. Typed(WorkflowSchema, Alone)'
    BY <2>1, TypedStep DEF WorkflowsTypedInv, Transacts
  <2>3. \A v \in Alone : req'[v] # None => OfInstances(req'[v])
    BY <1>2, <2>1 DEF WorkflowsTypedInv
  <2>4. QED
    BY <2>1, <2>2, <2>3 DEF WorkflowsTypedInv, OfInstances
<1>4. ASSUME NEW w \in Alone, W!CommitWorkflows(w)
      PROVE  WorkflowsTypedInv'
  <2>1. req' = [req EXCEPT ![w] = None] /\ seq' = seq
    BY <1>4 DEF W!CommitWorkflows, W!CommitAs
  <2>2. /\ TypedRows(WorkflowSchema, db') /\ DOMAIN db.instances \subseteq DOMAIN db'.instances
        /\ \A v \in DOMAIN db'.versions : v[1] \in DOMAIN db'.instances
        /\ \A i \in DOMAIN db'.instances :
               /\ db'.instances[i].environment \in DOMAIN db'.environments \cup {None}
               /\ db'.instances[i].template \in DOMAIN db'.templates \cup {None}
    BY <1>4, WorkflowCommits
  <2>3. Typed(WorkflowSchema, Alone)'
    BY <2>1, <2>2, TypedCommit DEF WorkflowsTypedInv
  <2>4. \A v \in Alone : req'[v] # None => req[v] # None /\ req'[v] = req[v]
    BY <1>2, <2>1
  <2>5. \A changes : OfInstances(changes) => OfInstances(changes)'
    BY <2>2 DEF OfInstances
  <2>6. \A v \in Alone : req'[v] # None => OfInstances(req[v])'
    BY <2>4, <2>5 DEF WorkflowsTypedInv, OfInstances
  <2>7. QED
    BY <2>2, <2>3, <2>6 DEF WorkflowsTypedInv
<1>5. ASSUME NEW w \in Alone, W!Rollback(w)
      PROVE  WorkflowsTypedInv'
  <2>1. db' = db /\ req' = [req EXCEPT ![w] = None] /\ seq' = seq
    BY <1>5 DEF W!Rollback
  <2>2. TypedRows(WorkflowSchema, db')
    BY <1>2, <2>1
  <2>3. Typed(WorkflowSchema, Alone)'
    BY <2>1, <2>2, TypedCommit DEF WorkflowsTypedInv
  <2>4. \A v \in Alone : req'[v] # None => OfInstances(req'[v])
    BY <1>2, <2>1 DEF WorkflowsTypedInv
  <2>5. QED
    BY <2>1, <2>3, <2>4 DEF WorkflowsTypedInv, OfInstances
<1>6. QED
  BY <1>1, <1>3, <1>4, <1>5 DEF W!Next

\* At first there are no workflows.
LEMMA WorkflowsTypedStart ==
    ASSUME part = "workflows", MCInit
    PROVE  WorkflowsTypedInv
<1>1. W!NoRows = Q!NoRows /\ DOMAIN Q!NoRows = {}
  BY DEF W!NoRows, Q!NoRows
<1>2. db = [t \in DOMAIN WorkflowSchema |-> Q!NoRows] /\ seq = 1 /\ req = [w \in Alone |-> None]
  BY <1>1, WorkflowTables DEF MCInit, PartInit, W!Init, W!Start
<1>3. DOMAIN db.versions = {} /\ DOMAIN db.instances = {}
  BY <1>1, <1>2, WorkflowTables
<1>4. QED
  BY <1>2, <1>3, TypedStart DEF WorkflowsTypedInv

\* The invariant is stronger than the types.
LEMMA WorkflowsTyped ==
    ASSUME WorkflowsTypedInv
    PROVE  W!TypeOK
<1>1. /\ \A e \in DOMAIN db.environments : e \in 1..2 /\ db.environments[e] \in W!N8nEnvironment
      /\ \A e \in DOMAIN db.templates : e \in 1..2 /\ db.templates[e] \in W!WorkflowTemplate
      /\ \A e \in DOMAIN db.instances : e \in 1..2 /\ db.instances[e] \in W!WorkflowInstance
      /\ \A v \in DOMAIN db.versions : v \in (1..2) \X (1..4) /\ db.versions[v] \in W!WorkflowVersion
  BY WorkflowTables DEF WorkflowsTypedInv, Typed, TypedRows
<1>2. \A v \in (1..2) \X (1..4) : v[2] \in 1..4
  OBVIOUS
<1>3. QED
  BY <1>1, <1>2 DEF WorkflowsTypedInv, W!TypeOK, W!IsTable

-------------------------------------------------------------------------------
(* Onboarding *)

OnboardingTemplateColumns == [steps |-> Lists, is_active |-> BOOLEAN, is_default |-> BOOLEAN]
ClientColumns ==
    [status |-> O!OnboardingStatus, current_step |-> O!AllIds \cup {None},
     completed_steps |-> SUBSET O!AllIds, skipped_steps |-> SUBSET O!AllIds, progress |-> 0..100]
ReminderColumns == [onboarding |-> User \X (1..2), recent |-> BOOLEAN]
OnboardingSchema ==
    [templates |-> [t \in 1..2 |-> OnboardingTemplateColumns],
     onboardings |-> [o \in User \X (1..2) |-> ClientColumns],
     reminders |-> [r \in 1..2 |-> ReminderColumns]]

\* The schema of onboardings has the model's rows.
LEMMA OnboardingTables ==
    /\ DOMAIN OnboardingSchema = {"templates", "onboardings", "reminders"}
    /\ DOMAIN OnboardingSchema.templates = 1..2 /\ DOMAIN OnboardingSchema.reminders = 1..2
    /\ DOMAIN OnboardingSchema.onboardings = User \X (1..2)
    /\ \A t \in 1..2 : /\ OnboardingSchema.templates[t] = OnboardingTemplateColumns
                       /\ OnboardingSchema.reminders[t] = ReminderColumns
    /\ \A o \in User \X (1..2) : OnboardingSchema.onboardings[o] = ClientColumns
    /\ Cols(OnboardingTemplateColumns) = O!OnboardingTemplate
    /\ Cols(ClientColumns) = O!ClientOnboarding /\ Cols(ReminderColumns) = O!Reminder
<1>1. \A r : r \in Cols(OnboardingTemplateColumns) <=> r \in O!OnboardingTemplate
  BY InCols DEF OnboardingTemplateColumns, O!OnboardingTemplate
<1>2. \A r : r \in Cols(ClientColumns) <=> r \in O!ClientOnboarding
  <2>1. PICK ids, sets : ids = O!AllIds \cup {None} /\ sets = SUBSET O!AllIds
    OBVIOUS
  <2>2. /\ DOMAIN ClientColumns = {"status", "current_step", "completed_steps", "skipped_steps", "progress"}
        /\ ClientColumns.status = O!OnboardingStatus /\ ClientColumns.current_step = ids
        /\ ClientColumns.completed_steps = sets /\ ClientColumns.skipped_steps = sets
        /\ ClientColumns.progress = 0..100
    BY <2>1 DEF ClientColumns
  <2>3. O!ClientOnboarding =
            [status : O!OnboardingStatus, current_step : ids, completed_steps : sets,
             skipped_steps : sets, progress : 0..100]
    BY <2>1 DEF O!ClientOnboarding
  <2>4. QED
    BY <2>2, <2>3, InCols
<1>3. \A r : r \in Cols(ReminderColumns) <=> r \in O!Reminder
  BY InCols DEF ReminderColumns, O!Reminder
<1>4. QED
  BY <1>1, <1>2, <1>3 DEF OnboardingSchema

\* Rows and requests fit the schema; onboardings have their template, reminders theirs.
OnboardingTypedInv ==
    /\ Typed(OnboardingSchema, Alone)
    /\ \A o \in DOMAIN db.onboardings : o[2] \in DOMAIN db.templates
    /\ \A r \in DOMAIN db.reminders : db.reminders[r].onboarding \in DOMAIN db.onboardings

\* Under the invariant each row has its type.
LEMMA OnboardingTypes ==
    ASSUME OnboardingTypedInv
    PROVE  /\ seq \in Nat \ {0}
           /\ \A t \in DOMAIN db.templates : t \in 1..2 /\ db.templates[t] \in O!OnboardingTemplate
           /\ \A o \in DOMAIN db.onboardings :
                  o \in User \X (1..2) /\ db.onboardings[o] \in O!ClientOnboarding
           /\ \A r \in DOMAIN db.reminders : r \in 1..2 /\ db.reminders[r] \in O!Reminder
BY OnboardingTables DEF OnboardingTypedInv, Typed, TypedRows

\* Each list of steps starts with its one required step.
LEMMA ListsRequireOne ==
    ASSUME NEW steps \in Lists
    PROVE  /\ 1 \in DOMAIN steps /\ DOMAIN steps = 1..Len(steps) /\ Len(steps) \in {1, 2}
           /\ steps[1].is_required
           /\ \A k \in DOMAIN steps : k # 1 => ~steps[k].is_required
<1>1. PICK yes \in BOOLEAN, no \in BOOLEAN : yes = TRUE /\ no = FALSE
  BY Zenon
<1>2. PICK a, b : /\ a = [id |-> "a", is_required |-> TRUE, can_skip |-> FALSE]
                  /\ b = [id |-> "b", is_required |-> FALSE, can_skip |-> TRUE]
  OBVIOUS
<1>3. a.is_required /\ ~b.is_required
  BY <1>2
<1>4. Lists = {<<a, b>>, <<a>>}
  BY <1>2, Zenon DEF Lists
<1>5. CASE steps = <<a, b>>
  BY <1>3, <1>5
<1>6. CASE steps = <<a>>
  BY <1>3, <1>6
<1>7. QED
  BY <1>4, <1>5, <1>6

\* A step's id is one of the ids of steps.
LEMMA StepIds ==
    ASSUME NEW steps \in Lists, NEW k \in DOMAIN steps
    PROVE  steps[k].id \in O!AllIds
BY DEF O!AllIds, O!Ids

\* A share of the one required step is a percentage.
LEMMA ProgressInRange ==
    ASSUME NEW o, O!Steps(o) \in Lists, NEW completed, NEW skipped
    PROVE  O!Progress(o, completed, skipped) \in 0..100
<1>1. PICK required, done :
          /\ required = {k \in DOMAIN O!Steps(o) : O!Steps(o)[k].is_required}
          /\ done = {k \in required : O!Steps(o)[k].id \in completed \cup skipped}
  OBVIOUS
<1>2. required = {1}
  BY <1>1, ListsRequireOne
<1>3. done = {} \/ done = {1}
  BY <1>1, <1>2
<1>4. \A s : O!Cardinality(s) = Cardinality(s)
  BY Zenon DEF O!Cardinality, Cardinality
<1>5. Cardinality(required) = 1 /\ Cardinality(done) \in {0, 1}
  BY <1>2, <1>3, FS_EmptySet, FS_Singleton
<1>6. O!Progress(o, completed, skipped) = (100 * Cardinality(done)) \div Cardinality(required)
  BY <1>1, <1>2, <1>4 DEF O!Progress
<1>7. QED
  BY <1>5, <1>6

\* The step after a step is a step, or none.
LEMMA NextStepTyped ==
    ASSUME NEW o, O!Steps(o) \in Lists, NEW s \in O!Ids(O!Steps(o))
    PROVE  O!NextStep(o, s) \in O!AllIds \cup {None}
<1>1. PICK k : k = O!Position(o, s)
  OBVIOUS
<1>2. k \in DOMAIN O!Steps(o)
  BY <1>1 DEF O!Position, O!Ids
<1>3. PICK steps : steps = O!Steps(o) /\ steps \in Lists
  OBVIOUS
<1>4. k < Len(steps) => k + 1 \in DOMAIN steps
  BY <1>2, <1>3, ListsRequireOne
<1>5. k < Len(steps) => steps[k + 1].id \in O!AllIds
  BY <1>3, <1>4, StepIds
<1>6. QED
  BY <1>1, <1>3, <1>5 DEF O!NextStep

\* Every operation of onboarding holds what fits.
LEMMA OnboardingHolds ==
    ASSUME OnboardingTypedInv, NEW w,
           O!Design(w) \/ \E p \in User : O!StartDefault(w, p)
                              \/ \E t \in 1..2 : O!StartOnboarding(w, p, t) \/ O!Advance(w, <<p, t>>)
    PROVE  Holds(OnboardingSchema, w)
<1>1. PICK ts, os, rs : /\ ts = OnboardingSchema.templates /\ os = OnboardingSchema.onboardings
                        /\ rs = OnboardingSchema.reminders
  OBVIOUS
<1>2. /\ DOMAIN ts = 1..2 /\ DOMAIN rs = 1..2 /\ DOMAIN os = User \X (1..2)
      /\ \A t \in 1..2 : ts[t] = OnboardingTemplateColumns /\ rs[t] = ReminderColumns
      /\ \A o \in User \X (1..2) : os[o] = ClientColumns
  BY <1>1, OnboardingTables
<1>3. PICK yes \in BOOLEAN, no \in BOOLEAN : yes = TRUE /\ no = FALSE
  BY Zenon
<1>4. ASSUME NEW ws, \/ /\ \A t \in DOMAIN ws : TypedWrite(ts, t, ws[t])
                        /\ O!Hold(w, [templates |-> ws]) \/ O!HoldNew(w, [templates |-> ws])
                     \/ /\ \A o \in DOMAIN ws : TypedWrite(os, o, ws[o])
                        /\ O!Hold(w, [onboardings |-> ws])
                     \/ /\ \A r \in DOMAIN ws : TypedWrite(rs, r, ws[r])
                        /\ O!HoldNew(w, [reminders |-> ws])
      PROVE  Holds(OnboardingSchema, w)
  <2>1. PICK a, b, c : a = [templates |-> ws] /\ b = [onboardings |-> ws] /\ c = [reminders |-> ws]
    OBVIOUS
  <2>2. /\ DOMAIN a = {"templates"} /\ a.templates = ws /\ DOMAIN b = {"onboardings"} /\ b.onboardings = ws
        /\ DOMAIN c = {"reminders"} /\ c.reminders = ws
    BY <2>1
  <2>3. /\ (\A t \in DOMAIN ws : TypedWrite(ts, t, ws[t])) => TypedChanges(OnboardingSchema, a)
        /\ (\A o \in DOMAIN ws : TypedWrite(os, o, ws[o])) => TypedChanges(OnboardingSchema, b)
        /\ (\A r \in DOMAIN ws : TypedWrite(rs, r, ws[r])) => TypedChanges(OnboardingSchema, c)
    BY <1>1, <2>2, OnboardingTables DEF TypedChanges
  <2>4. QED
    BY <1>4, <2>1, <2>3 DEF O!Hold, O!HoldNew, Holds
<1>5. ASSUME NEW t, NEW write, TypedWrite(ts, t, write), NEW others,
             others = O!UnsetDefaults \/ others = O!NoRows,
             NEW ws, ws = O!Both(others, [i \in {t} |-> write])
      PROVE  \A i \in DOMAIN ws : TypedWrite(ts, i, ws[i])
  <2>1. PICK cols : cols = [is_default |-> no] /\ cols = [is_default |-> FALSE]
    BY <1>3, Zenon
  <2>2. Fit(cols, OnboardingTemplateColumns)
    BY <2>1 DEF Fit, OnboardingTemplateColumns
  <2>3. \A i \in DOMAIN others : i \in DOMAIN db.templates /\ others[i] = Q!Update(cols)
    BY <1>5, <2>1, TemplateOps DEF O!UnsetDefaults, O!Each, O!NoRows
  <2>4. \A i \in DOMAIN others : TypedWrite(ts, i, others[i])
    <3>1. ASSUME NEW i \in DOMAIN others
          PROVE  TypedWrite(ts, i, others[i])
      <4>1. i \in 1..2 /\ others[i] = Q!Update(cols)
        BY <2>3, <3>1, OnboardingTypes
      <4>2. Fit(cols, ts[i])
        BY <1>2, <2>2, <4>1
      <4>3. QED
        BY <4>1, <4>2, TypedColumns
    <3>2. QED
      BY <3>1
  <2>5. /\ DOMAIN ws = DOMAIN others \cup {t} /\ ws[t] = write
        /\ \A i \in DOMAIN others \ {t} : ws[i] = others[i]
    BY <1>5 DEF O!Both
  <2>6. QED
    BY <1>5, <2>4, <2>5
<1>6. ASSUME NEW steps \in Lists, NEW active \in BOOLEAN, NEW default \in BOOLEAN,
             O!CreateTemplate(w, steps, active, default)
      PROVE  Holds(OnboardingSchema, w)
  <2>1. PICK row : row = [steps |-> steps, is_active |-> active, is_default |-> default]
    OBVIOUS
  <2>2. row \in O!OnboardingTemplate /\ seq \in 1..2
    BY <1>6, <2>1, OnboardingTypes DEF O!OnboardingTemplate, O!CreateTemplate, O!HoldNew
  <2>3. seq \in DOMAIN ts /\ row \in Cols(ts[seq])
    BY <1>2, <2>2, OnboardingTables
  <2>4. TypedWrite(ts, seq, Q!Insert(row))
    BY <2>3, TypedInsert
  <2>5. PICK others : others = IF default THEN O!UnsetDefaults ELSE O!NoRows
    OBVIOUS
  <2>6. PICK ws : ws = O!Both(others, [t \in {seq} |-> Q!Insert(row)])
    OBVIOUS
  <2>7. \A i \in DOMAIN ws : TypedWrite(ts, i, ws[i])
    BY <1>5, <2>4, <2>5, <2>6
  <2>8. O!HoldNew(w, [templates |-> ws])
    BY <1>6, <2>1, <2>5, <2>6, TemplateOps DEF O!CreateTemplate
  <2>9. QED
    BY <1>4, <2>7, <2>8
<1>7. ASSUME NEW t \in 1..2, NEW cols, Fit(cols, OnboardingTemplateColumns), O!UpdateTemplate(w, t, cols)
      PROVE  Holds(OnboardingSchema, w)
  <2>1. PICK ws : ws = [i \in {t} |-> Q!Assign(db.templates[t], cols)]
    OBVIOUS
  <2>2. Fit(cols, ts[t])
    BY <1>2, <1>7
  <2>3. \A i \in DOMAIN ws : TypedWrite(ts, i, ws[i])
    BY <2>1, <2>2, TypedColumns
  <2>4. O!Hold(w, [templates |-> ws])
    BY <1>7, <2>1, TemplateOps DEF O!UpdateTemplate
  <2>5. QED
    BY <1>4, <2>3, <2>4
<1>8. ASSUME NEW t \in 1..2, O!MakeDefault(w, t)
      PROVE  Holds(OnboardingSchema, w)
  <2>1. PICK cols : cols = [is_default |-> yes] /\ cols = [is_default |-> TRUE]
    BY <1>3, Zenon
  <2>2. Fit(cols, OnboardingTemplateColumns)
    BY <2>1 DEF Fit, OnboardingTemplateColumns
  <2>3. Fit(cols, ts[t])
    BY <1>2, <1>8, <2>2
  <2>4. TypedWrite(ts, t, Q!Update(cols))
    BY <2>3, TypedColumns
  <2>5. PICK others : others = O!UnsetDefaults
    OBVIOUS
  <2>6. PICK ws : ws = O!Both(others, [i \in {t} |-> Q!Update(cols)])
    OBVIOUS
  <2>7. \A i \in DOMAIN ws : TypedWrite(ts, i, ws[i])
    BY <1>5, <2>4, <2>5, <2>6
  <2>8. O!Hold(w, [templates |-> ws])
    BY <1>8, <2>1, <2>5, <2>6, TemplateOps DEF O!MakeDefault
  <2>9. QED
    BY <1>4, <2>7, <2>8
<1>9. ASSUME NEW t, O!DeleteTemplate(w, t)
      PROVE  Holds(OnboardingSchema, w)
  <2>1. PICK ws : ws = [i \in {t} |-> O!Delete]
    OBVIOUS
  <2>2. \A i \in DOMAIN ws : TypedWrite(ts, i, ws[i])
    BY <2>1, TemplateOps, TypedDelete
  <2>3. QED
    BY <1>4, <1>9, <2>1, <2>2 DEF O!DeleteTemplate
<1>10. ASSUME NEW t \in DOMAIN db.templates
      PROVE  O!NewOnboarding(t) \in O!ClientOnboarding
  <2>1. PICK first : first = O!FirstStep(t)
    OBVIOUS
  <2>2. db.templates[t].steps \in Lists
    BY <1>10, OnboardingTypes DEF O!OnboardingTemplate
  <2>3. first \in O!AllIds
    BY <2>1, <2>2, ListsRequireOne, StepIds DEF O!FirstStep
  <2>4. PICK row : row = [status |-> "in_progress", current_step |-> first, completed_steps |-> {},
                          skipped_steps |-> {}, progress |-> 0]
    OBVIOUS
  <2>5. row \in O!ClientOnboarding
    BY <2>3, <2>4 DEF O!ClientOnboarding, O!OnboardingStatus
  <2>6. QED
    BY <2>1, <2>4, <2>5 DEF O!NewOnboarding
<1>11. ASSUME NEW p \in User, NEW t \in DOMAIN db.templates, O!StartOnboarding(w, p, t)
       PROVE  Holds(OnboardingSchema, w)
  <2>1. PICK row : row = O!NewOnboarding(t) /\ row \in O!ClientOnboarding
    BY <1>10, <1>11
  <2>2. <<p, t>> \in User \X (1..2)
    BY <1>11, OnboardingTypes
  <2>3. PICK key : key = <<p, t>>
    OBVIOUS
  <2>4. key \in DOMAIN os /\ row \in Cols(os[key])
    BY <1>2, <2>1, <2>2, <2>3, OnboardingTables
  <2>5. TypedWrite(os, key, Q!Insert(row))
    BY <2>4, TypedInsert
  <2>6. PICK ws : ws = [o \in {key} |-> Q!Insert(row)]
    OBVIOUS
  <2>7. O!Hold(w, [onboardings |-> ws])
    BY <1>11, <2>1, <2>3, <2>6, TemplateOps DEF O!StartOnboarding
  <2>8. QED
    BY <1>4, <2>5, <2>6, <2>7
<1>12. ASSUME NEW o \in DOMAIN db.onboardings, NEW cols, Fit(cols, ClientColumns),
              O!Hold(w, [onboardings |-> [i \in {o} |-> O!Assign(db.onboardings[o], cols)]])
       PROVE  Holds(OnboardingSchema, w)
  <2>1. PICK ws : ws = [i \in {o} |-> Q!Assign(db.onboardings[o], cols)]
    OBVIOUS
  <2>2. o \in User \X (1..2)
    BY <1>12, OnboardingTypes
  <2>3. Fit(cols, os[o])
    BY <1>2, <1>12, <2>2
  <2>4. \A i \in DOMAIN ws : TypedWrite(os, i, ws[i])
    BY <2>1, <2>3, TypedColumns
  <2>5. O!Hold(w, [onboardings |-> ws])
    BY <1>12, <2>1, TemplateOps
  <2>6. QED
    BY <1>4, <2>4, <2>5
<1>13. ASSUME NEW o \in DOMAIN db.onboardings
       PROVE  /\ o[2] \in DOMAIN db.templates /\ O!Steps(o) \in Lists
              /\ db.onboardings[o] \in O!ClientOnboarding
  BY <1>13, OnboardingTypes DEF OnboardingTypedInv, O!Steps, O!OnboardingTemplate
<1>14. ASSUME NEW o \in DOMAIN db.onboardings, NEW s \in O!Ids(O!Steps(o)),
              NEW completed \in SUBSET O!AllIds, NEW skipped \in SUBSET O!AllIds,
              O!Hold(w, O!Advanced(o, s, completed, skipped))
       PROVE  Holds(OnboardingSchema, w)
  <2>1. PICK next, stored, status :
            /\ next = O!NextStep(o, s) /\ stored = O!Stored(o, s, completed, skipped)
            /\ status = IF O!NextStep(o, s) = None THEN "completed" ELSE db.onboardings[o].status
    OBVIOUS
  <2>2. next \in O!AllIds \cup {None}
    BY <1>13, <1>14, <2>1, NextStepTyped
  <2>3. stored \in 0..100
    BY <1>13, <1>14, <2>1, ProgressInRange DEF O!Stored
  <2>4. status \in O!OnboardingStatus
    BY <1>13, <1>14, <2>1 DEF O!ClientOnboarding, O!OnboardingStatus
  <2>5. PICK cols : cols = [completed_steps |-> completed, skipped_steps |-> skipped,
                            current_step |-> next, progress |-> stored, status |-> status]
    OBVIOUS
  <2>6. cols \in O!ClientOnboarding
    BY <1>14, <2>2, <2>3, <2>4, <2>5 DEF O!ClientOnboarding
  <2>7. Fit(cols, ClientColumns)
    BY <2>6, InCols, OnboardingTables DEF Fit
  <2>8. O!Hold(w, [onboardings |-> [i \in {o} |-> O!Assign(db.onboardings[o], cols)]])
    BY <1>14, <2>1, <2>5 DEF O!Advanced
  <2>9. QED
    BY <1>12, <1>14, <2>7, <2>8
<1>15. \A list \in SUBSET O!AllIds : \A s \in O!AllIds : O!Appended(list, s) \in SUBSET O!AllIds
  BY DEF O!Appended
<1>16. ASSUME NEW o, NEW s \in O!AllIds, O!CompleteStep(w, o, s)
       PROVE  Holds(OnboardingSchema, w)
  <2>1. PICK row : row = db.onboardings[o]
    OBVIOUS
  <2>2. o \in DOMAIN db.onboardings /\ s \in O!Ids(O!Steps(o))
    BY <1>16 DEF O!CompleteStep
  <2>3. row.completed_steps \in SUBSET O!AllIds /\ row.skipped_steps \in SUBSET O!AllIds
    BY <1>13, <2>1, <2>2 DEF O!ClientOnboarding
  <2>4. PICK completed : /\ completed = O!Appended(row.completed_steps, s)
                         /\ completed \in SUBSET O!AllIds
    BY <1>15, <1>16, <2>3
  <2>5. O!Hold(w, O!Advanced(o, s, completed, row.skipped_steps))
    BY <1>16, <2>1, <2>4 DEF O!CompleteStep
  <2>6. QED
    BY <1>14, <2>2, <2>3, <2>4, <2>5
<1>17. ASSUME NEW o, NEW s \in O!AllIds, O!SkipStep(w, o, s)
       PROVE  Holds(OnboardingSchema, w)
  <2>1. PICK row : row = db.onboardings[o]
    OBVIOUS
  <2>2. o \in DOMAIN db.onboardings /\ s \in O!Ids(O!Steps(o))
    BY <1>17 DEF O!SkipStep
  <2>3. row.completed_steps \in SUBSET O!AllIds /\ row.skipped_steps \in SUBSET O!AllIds
    BY <1>13, <2>1, <2>2 DEF O!ClientOnboarding
  <2>4. PICK skipped : skipped = O!Appended(row.skipped_steps, s) /\ skipped \in SUBSET O!AllIds
    BY <1>15, <1>17, <2>3
  <2>5. O!Hold(w, O!Advanced(o, s, row.completed_steps, skipped))
    BY <1>17, <2>1, <2>4 DEF O!SkipStep, O!Skipped
  <2>6. QED
    BY <1>14, <2>2, <2>3, <2>4, <2>5
<1>18. ASSUME NEW o, O!ResetOnboarding(w, o)
       PROVE  Holds(OnboardingSchema, w)
  <2>1. o \in DOMAIN db.onboardings
    BY <1>18 DEF O!ResetOnboarding
  <2>2. PICK cols : cols = O!NewOnboarding(o[2]) /\ cols \in O!ClientOnboarding
    BY <1>10, <1>13, <2>1
  <2>3. Fit(cols, ClientColumns)
    BY <2>2, InCols, OnboardingTables DEF Fit
  <2>4. O!Hold(w, [onboardings |-> [i \in {o} |-> O!Assign(db.onboardings[o], cols)]])
    BY <1>18, <2>2 DEF O!ResetOnboarding
  <2>5. QED
    BY <1>12, <2>1, <2>3, <2>4
<1>19. ASSUME NEW o, O!SendReminder(w, o)
       PROVE  Holds(OnboardingSchema, w)
  <2>1. PICK row : /\ row = [onboarding |-> o, recent |-> yes]
                   /\ row = [onboarding |-> o, recent |-> TRUE]
    BY <1>3, Zenon
  <2>2. o \in User \X (1..2) /\ seq \in 1..2
    BY <1>19, OnboardingTypes DEF O!SendReminder, O!HoldNew
  <2>3. row \in O!Reminder
    BY <2>1, <2>2 DEF O!Reminder
  <2>4. seq \in DOMAIN rs /\ row \in Cols(rs[seq])
    BY <1>2, <2>2, <2>3, OnboardingTables
  <2>5. TypedWrite(rs, seq, Q!Insert(row))
    BY <2>4, TypedInsert
  <2>6. PICK ws : ws = [r \in {seq} |-> Q!Insert(row)]
    OBVIOUS
  <2>7. O!HoldNew(w, [reminders |-> ws])
    BY <1>19, <2>1, <2>6, TemplateOps, Zenon DEF O!SendReminder
  <2>8. QED
    BY <1>4, <2>5, <2>6, <2>7
<1>20. CASE O!Design(w)
  <2>1. \A steps \in Lists : Fit([steps |-> steps], OnboardingTemplateColumns)
    BY DEF Fit, OnboardingTemplateColumns
  <2>2. \A b \in BOOLEAN : Fit([is_active |-> b], OnboardingTemplateColumns)
    BY DEF Fit, OnboardingTemplateColumns
  <2>3. PICK cols : cols = [is_default |-> no] /\ cols = [is_default |-> FALSE]
    BY <1>3, Zenon
  <2>4. Fit(cols, OnboardingTemplateColumns)
    BY <2>3 DEF Fit, OnboardingTemplateColumns
  <2>5. QED
    BY <1>6, <1>7, <1>8, <1>9, <1>20, <2>1, <2>2, <2>3, <2>4 DEF O!Design
<1>21. ASSUME NEW o, O!Advance(w, o)
       PROVE  Holds(OnboardingSchema, w)
  BY <1>16, <1>17, <1>18, <1>19, <1>21 DEF O!Advance
<1>22. ASSUME NEW p \in User, NEW t, O!StartOnboarding(w, p, t)
       PROVE  Holds(OnboardingSchema, w)
  BY <1>11, <1>22 DEF O!StartOnboarding
<1>23. ASSUME NEW p \in User, O!StartDefault(w, p)
       PROVE  Holds(OnboardingSchema, w)
  BY <1>22, <1>23 DEF O!StartDefault
<1>24. QED
  BY <1>20, <1>21, <1>22, <1>23

\* With a template go its onboardings, with an onboarding its reminders.
LEMMA OnboardingCommits ==
    ASSUME OnboardingTypedInv, NEW w \in Alone, O!CommitOnboarding(w)
    PROVE  /\ TypedRows(OnboardingSchema, db')
           /\ \A o \in DOMAIN db'.onboardings : o[2] \in DOMAIN db'.templates
           /\ \A r \in DOMAIN db'.reminders : db'.reminders[r].onboarding \in DOMAIN db'.onboardings
<1>1. PICK changes : changes = req[w] /\ TypedChanges(OnboardingSchema, changes)
  BY DEF OnboardingTypedInv, Typed, O!CommitOnboarding, O!Free
<1>2. PICK all : all = O!AfterAll(changes)
  OBVIOUS
<1>3. all = Merged(changes)
  BY <1>2, TemplateOps DEF O!AfterAll, Merged
<1>4. TypedRows(OnboardingSchema, all)
  BY <1>1, <1>3, MergedTyped DEF OnboardingTypedInv, Typed
<1>5. PICK kept : kept = {o \in DOMAIN all.onboardings : o[2] \in DOMAIN all.templates}
  OBVIOUS
<1>6. PICK left : left = {r \in DOMAIN all.reminders : all.reminders[r].onboarding \in kept}
  OBVIOUS
<1>7. PICK os, rs : os = [o \in kept |-> all.onboardings[o]] /\ rs = [r \in left |-> all.reminders[r]]
  OBVIOUS
<1>8. db' = [all EXCEPT !.onboardings = os, !.reminders = rs]
  BY <1>1, <1>2, <1>5, <1>6, <1>7 DEF O!CommitOnboarding, O!CommitAs
<1>9. DOMAIN all = {"templates", "onboardings", "reminders"}
  BY <1>4, OnboardingTables DEF TypedRows
<1>10. /\ DOMAIN db' = DOMAIN all /\ db'.templates = all.templates
       /\ db'.onboardings = os /\ db'.reminders = rs
  BY <1>8, <1>9
<1>11. /\ DOMAIN os = kept /\ kept \subseteq DOMAIN all.onboardings
       /\ \A o \in kept : os[o] = all.onboardings[o]
       /\ DOMAIN rs = left /\ left \subseteq DOMAIN all.reminders
       /\ \A r \in left : rs[r] = all.reminders[r]
  BY <1>5, <1>6, <1>7
<1>12. TypedRows(OnboardingSchema, db')
  BY <1>4, <1>9, <1>10, <1>11, RowsKept
<1>13. QED
  BY <1>5, <1>6, <1>10, <1>11, <1>12

\* A step keeps onboardings typed, with their templates.
LEMMA OnboardingTypedStep ==
    ASSUME part = "onboarding", OnboardingTypedInv, MCNext
    PROVE  OnboardingTypedInv'
<1>1. O!Next
  BY DEF MCNext, RowsNext
<1>2. TypedRows(OnboardingSchema, db) /\ seq \in Nat \ {0}
  BY DEF OnboardingTypedInv, Typed
<1>3. ASSUME NEW w \in Alone, Holds(OnboardingSchema, w)
      PROVE  OnboardingTypedInv'
  <2>1. db' = db
    BY <1>3 DEF Holds
  <2>2. QED
    BY <1>3, <2>1, HeldTyped DEF OnboardingTypedInv
<1>4. ASSUME NEW w \in Alone, O!CommitOnboarding(w)
      PROVE  OnboardingTypedInv'
  <2>1. req' = [req EXCEPT ![w] = None] /\ seq' = seq
    BY <1>4 DEF O!CommitOnboarding, O!CommitAs
  <2>2. QED
    BY <1>4, <2>1, OnboardingCommits, TypedCommit DEF OnboardingTypedInv
<1>5. ASSUME NEW w \in Alone, O!Rollback(w)
      PROVE  OnboardingTypedInv'
  <2>1. db' = db /\ req' = [req EXCEPT ![w] = None] /\ seq' = seq
    BY <1>5 DEF O!Rollback
  <2>2. TypedRows(OnboardingSchema, db')
    BY <1>2, <2>1
  <2>3. QED
    BY <2>1, <2>2, TypedCommit DEF OnboardingTypedInv
<1>6. ASSUME NEW r, O!Age(r)
      PROVE  OnboardingTypedInv'
  <2>1. PICK no \in BOOLEAN : no = FALSE
    BY Zenon
  <2>2. PICK rows, rows2 : rows = db.reminders /\ rows2 = [rows EXCEPT ![r].recent = no]
    OBVIOUS
  <2>3. UNCHANGED <<seq, req>> /\ r \in DOMAIN rows /\ db' = [db EXCEPT !.reminders = rows2]
    BY <1>6, <2>1, <2>2 DEF O!Age
  <2>4. DOMAIN db = {"templates", "onboardings", "reminders"}
    BY <1>2, OnboardingTables DEF TypedRows
  <2>5. /\ DOMAIN db' = DOMAIN db /\ db'.reminders = rows2 /\ DOMAIN rows2 = DOMAIN rows
        /\ db'.templates = db.templates /\ db'.onboardings = db.onboardings
    BY <2>2, <2>3, <2>4
  <2>6. \A i \in DOMAIN rows : i \in 1..2 /\ rows[i] \in O!Reminder
    BY <2>2, OnboardingTypes
  <2>7. \A i \in DOMAIN rows2 :
            i \in 1..2 /\ rows2[i] \in O!Reminder /\ rows2[i].onboarding = rows[i].onboarding
    BY <2>1, <2>2, <2>6 DEF O!Reminder
  <2>8. TypedRows(OnboardingSchema, db')
    BY <1>2, <2>4, <2>5, <2>7, OnboardingTables DEF TypedRows
  <2>9. QED
    BY <2>2, <2>3, <2>5, <2>7, <2>8, TypedTime DEF OnboardingTypedInv
<1>7. QED
  BY <1>1, <1>3, <1>4, <1>5, <1>6, OnboardingHolds DEF O!Next

\* At first there are no onboardings.
LEMMA OnboardingTypedStart ==
    ASSUME part = "onboarding", MCInit
    PROVE  OnboardingTypedInv
<1>1. O!NoRows = Q!NoRows /\ DOMAIN Q!NoRows = {}
  BY DEF O!NoRows, Q!NoRows
<1>2. db = [t \in DOMAIN OnboardingSchema |-> Q!NoRows] /\ seq = 1 /\ req = [w \in Alone |-> None]
  BY <1>1, OnboardingTables DEF MCInit, PartInit, O!Init, O!Start
<1>3. DOMAIN db.onboardings = {} /\ DOMAIN db.reminders = {}
  BY <1>1, <1>2, OnboardingTables
<1>4. QED
  BY <1>2, <1>3, TypedStart DEF OnboardingTypedInv

\* The invariant is stronger than the types.
LEMMA OnboardingTyped ==
    ASSUME OnboardingTypedInv
    PROVE  O!TypeOK
<1>1. \A o \in User \X (1..2) : o[1] \in User
  OBVIOUS
<1>2. QED
  BY <1>1, OnboardingTypes DEF OnboardingTypedInv, O!TypeOK

-------------------------------------------------------------------------------
(* E-mail templates *)

EmailTemplateColumns ==
    [content |-> Content, variables |-> L!Variables, version |-> 1..2, is_active |-> BOOLEAN]
EmailVersionColumns == [content |-> Content, variables |-> L!Variables]
SentColumns ==
    [template |-> {"s1"}, status |-> {"pending", "sent", "failed"}, opened |-> BOOLEAN,
     clicked |-> BOOLEAN]
EmailSchema ==
    [templates |-> [s \in {"s1"} |-> EmailTemplateColumns],
     versions |-> [v \in {"s1"} \X (1..2) |-> EmailVersionColumns],
     emails |-> [e \in 1..2 |-> SentColumns]]

\* The schema of e-mail templates has the model's rows.
LEMMA EmailTables ==
    /\ DOMAIN EmailSchema = {"templates", "versions", "emails"}
    /\ DOMAIN EmailSchema.templates = {"s1"} /\ DOMAIN EmailSchema.versions = {"s1"} \X (1..2)
    /\ DOMAIN EmailSchema.emails = 1..2
    /\ \A s \in {"s1"} : EmailSchema.templates[s] = EmailTemplateColumns
    /\ \A v \in {"s1"} \X (1..2) : EmailSchema.versions[v] = EmailVersionColumns
    /\ \A e \in 1..2 : EmailSchema.emails[e] = SentColumns
    /\ Cols(EmailTemplateColumns) = L!EmailTemplate
    /\ Cols(EmailVersionColumns) = L!EmailTemplateVersion /\ Cols(SentColumns) = L!SentEmail
<1>1. \A r : r \in Cols(EmailTemplateColumns) <=> r \in L!EmailTemplate
  BY InCols DEF EmailTemplateColumns, L!EmailTemplate
<1>2. \A r : r \in Cols(EmailVersionColumns) <=> r \in L!EmailTemplateVersion
  BY InCols DEF EmailVersionColumns, L!EmailTemplateVersion
<1>3. \A r : r \in Cols(SentColumns) <=> r \in L!SentEmail
  BY InCols DEF SentColumns, L!SentEmail
<1>4. QED
  BY <1>1, <1>2, <1>3 DEF EmailSchema

\* E-mail templates update rows as Requests does.
LEMMA EmailUpdate == \A cols : L!Update(cols) = Q!Update(cols)
BY DEF L!Update, Q!Update

\* No request deletes a template; a version that it writes is of a template that is there or
\* comes with it, an e-mail that it logs of one that is there.
OfTemplates(changes) ==
    /\ "templates" \in DOMAIN changes =>
           \A s \in DOMAIN changes.templates : changes.templates[s].op # "delete"
    /\ "versions" \in DOMAIN changes =>
           \A v \in DOMAIN changes.versions :
               v[1] \in DOMAIN db.templates
               \/ /\ "templates" \in DOMAIN changes /\ v[1] \in DOMAIN changes.templates
                  /\ changes.templates[v[1]].op = "insert"
    /\ "emails" \in DOMAIN changes =>
           \A e \in DOMAIN changes.emails :
               LET write == changes.emails[e]
               IN  \/ write.op = "insert" /\ write.cols.template \in DOMAIN db.templates
                   \/ write.op = "update" /\ "template" \notin DOMAIN write.cols

\* Rows and requests fit the schema; versions and e-mails have their template.
EmailsTypedInv ==
    /\ Typed(EmailSchema, Alone)
    /\ \A w \in Alone : req[w] # None => OfTemplates(req[w])
    /\ \A v \in DOMAIN db.versions : v[1] \in DOMAIN db.templates
    /\ \A e \in DOMAIN db.emails : db.emails[e].template \in DOMAIN db.templates

\* A request that holds what fits and is of templates that exist.
EmailHeld(w) ==
    /\ db' = db /\ seq' \in {seq, seq + 1}
    /\ \E changes : /\ TypedChanges(EmailSchema, changes) /\ OfTemplates(changes)
                    /\ req' = [req EXCEPT ![w] = changes]

\* Rows that fit the schema have their types.
LEMMA EmailTypes ==
    ASSUME TypedRows(EmailSchema, db)
    PROVE  /\ \A s \in DOMAIN db.templates : s \in {"s1"} /\ db.templates[s] \in L!EmailTemplate
           /\ \A v \in DOMAIN db.versions :
                  v \in {"s1"} \X (1..2) /\ db.versions[v] \in L!EmailTemplateVersion
           /\ \A e \in DOMAIN db.emails : e \in 1..2 /\ db.emails[e] \in L!SentEmail
BY EmailTables DEF TypedRows

\* The version row of a template's row.
LEMMA EmailVersionTyped ==
    ASSUME NEW s \in {"s1"}, NEW row \in L!EmailTemplate, NEW v \in DOMAIN L!NewVersion(s, row)
    PROVE  v[1] = s /\ TypedWrite(EmailSchema.versions, v, L!NewVersion(s, row)[v])
<1>1. PICK new : new = [content |-> row.content, variables |-> row.variables]
  OBVIOUS
<1>2. new \in L!EmailTemplateVersion /\ row.version \in 1..2
  BY <1>1 DEF L!EmailTemplate, L!EmailTemplateVersion
<1>3. PICK key : key = <<s, row.version>>
  OBVIOUS
<1>4. key \in {"s1"} \X (1..2) /\ key[1] = s
  BY <1>2, <1>3
<1>5. v = key /\ L!NewVersion(s, row)[v] = Q!Insert(new)
  BY <1>1, <1>3, MailOps DEF L!NewVersion
<1>6. key \in DOMAIN EmailSchema.versions /\ new \in Cols(EmailSchema.versions[key])
  BY <1>2, <1>4, EmailTables
<1>7. TypedWrite(EmailSchema.versions, key, Q!Insert(new))
  BY <1>6, TypedInsert
<1>8. QED
  BY <1>4, <1>5, <1>7

\* Every operation on e-mail templates holds what fits.
LEMMA EmailHolds ==
    ASSUME TypedRows(EmailSchema, db), seq \in Nat \ {0}, NEW w, L!Edit(w) \/ L!Mail(w)
    PROVE  EmailHeld(w)
<1>1. PICK ts, vs, es : /\ ts = EmailSchema.templates /\ vs = EmailSchema.versions
                        /\ es = EmailSchema.emails
  OBVIOUS
<1>2. /\ DOMAIN ts = {"s1"} /\ DOMAIN es = 1..2 /\ \A s \in {"s1"} : ts[s] = EmailTemplateColumns
      /\ \A e \in 1..2 : es[e] = SentColumns
  BY <1>1, EmailTables
<1>3. PICK yes \in BOOLEAN, no \in BOOLEAN : yes = TRUE /\ no = FALSE
  BY Zenon
<1>4. ASSUME NEW s, NEW write, TypedWrite(ts, s, write), write.op # "delete",
             NEW ws, ws = [i \in {s} |-> write],
             NEW xs, \A v \in DOMAIN xs : v[1] = s /\ TypedWrite(vs, v, xs[v]),
             s \in DOMAIN db.templates \/ write.op = "insert",
             L!Hold(w, [templates |-> ws]) \/ L!Hold(w, [templates |-> ws, versions |-> xs])
      PROVE  EmailHeld(w)
  <2>1. PICK a, b : a = [templates |-> ws] /\ b = [templates |-> ws, versions |-> xs]
    OBVIOUS
  <2>2. /\ DOMAIN a = {"templates"} /\ a.templates = ws
        /\ DOMAIN b = {"templates", "versions"} /\ b.templates = ws /\ b.versions = xs
        /\ DOMAIN ws = {s} /\ ws[s] = write
    BY <1>4, <2>1
  <2>3. TypedChanges(EmailSchema, a) /\ OfTemplates(a)
    BY <1>1, <1>4, <2>2, EmailTables DEF TypedChanges, OfTemplates
  <2>4. TypedChanges(EmailSchema, b)
    BY <1>1, <1>4, <2>2, EmailTables DEF TypedChanges
  <2>5. OfTemplates(b)
    BY <1>4, <2>2 DEF OfTemplates
  <2>6. QED
    BY <1>4, <2>1, <2>3, <2>4, <2>5 DEF L!Hold, EmailHeld
<1>5. ASSUME NEW e, NEW write, TypedWrite(es, e, write),
             \/ write.op = "insert" /\ write.cols.template \in DOMAIN db.templates
             \/ write.op = "update" /\ "template" \notin DOMAIN write.cols,
             NEW ws, ws = [i \in {e} |-> write],
             L!Hold(w, [emails |-> ws]) \/ L!HoldNew(w, [emails |-> ws])
      PROVE  EmailHeld(w)
  <2>1. PICK a : a = [emails |-> ws]
    OBVIOUS
  <2>2. DOMAIN a = {"emails"} /\ a.emails = ws /\ DOMAIN ws = {e} /\ ws[e] = write
    BY <1>5, <2>1
  <2>3. TypedChanges(EmailSchema, a)
    BY <1>1, <1>5, <2>2, EmailTables DEF TypedChanges
  <2>4. OfTemplates(a)
    BY <1>5, <2>2 DEF OfTemplates
  <2>5. QED
    BY <1>5, <2>1, <2>3, <2>4 DEF L!Hold, L!HoldNew, EmailHeld
<1>6. ASSUME NEW s \in {"s1"}, NEW content \in Content, NEW variables \in L!Variables,
             L!CreateTemplate(w, s, content, variables)
      PROVE  EmailHeld(w)
  <2>1. PICK row : /\ row = [content |-> content, variables |-> variables, version |-> 1,
                             is_active |-> yes]
                   /\ row = [content |-> content, variables |-> variables, version |-> 1,
                             is_active |-> TRUE]
    BY <1>3, Zenon
  <2>2. row \in L!EmailTemplate
    BY <1>6, <2>1 DEF L!EmailTemplate
  <2>3. s \in DOMAIN ts /\ row \in Cols(ts[s])
    BY <1>2, <2>2, EmailTables
  <2>4. PICK write : write = Q!Insert(row) /\ write.op = "insert"
    BY InsertOp
  <2>5. TypedWrite(ts, s, write)
    BY <2>3, <2>4, TypedInsert
  <2>6. PICK ws, xs : ws = [i \in {s} |-> write] /\ xs = L!NewVersion(s, row)
    OBVIOUS
  <2>7. \A v \in DOMAIN xs : v[1] = s /\ TypedWrite(vs, v, xs[v])
    BY <1>1, <2>2, <2>6, EmailVersionTyped
  <2>8. L!Hold(w, [templates |-> ws, versions |-> xs])
    BY <1>6, <2>1, <2>4, <2>6, MailOps, Zenon DEF L!CreateTemplate
  <2>9. QED
    BY <1>4, <2>4, <2>5, <2>6, <2>7, <2>8
<1>7. ASSUME NEW s \in DOMAIN db.templates, NEW cols, Fit(cols, EmailTemplateColumns)
      PROVE  /\ TypedWrite(ts, s, Q!Assign(db.templates[s], cols))
             /\ Q!Assign(db.templates[s], cols).op = "update"
             /\ s \in {"s1"} /\ db.templates[s] \in L!EmailTemplate
             /\ Q!Written(db.templates[s], Q!Assign(db.templates[s], cols)) \in L!EmailTemplate
  <2>1. PICK row : row = db.templates[s] /\ row \in L!EmailTemplate /\ s \in {"s1"}
    BY EmailTypes
  <2>2. PICK write : write = Q!Assign(row, cols) /\ write.op = "update"
    BY AssignedColumns
  <2>3. Fit(cols, ts[s])
    BY <1>2, <1>7, <2>1
  <2>4. TypedWrite(ts, s, write)
    BY <2>2, <2>3, TypedColumns
  <2>5. row \in Cols(ts[s])
    BY <1>2, <2>1, EmailTables
  <2>6. Q!Written(row, write) \in Cols(ts[s])
    BY <2>2, <2>4, <2>5, WrittenTyped
  <2>7. Q!Written(row, write) \in L!EmailTemplate
    BY <1>2, <2>1, <2>6, EmailTables
  <2>8. QED
    BY <2>1, <2>2, <2>4, <2>7
<1>8. ASSUME NEW row \in L!EmailTemplate, row.version < 2, NEW content \in Content,
             NEW variables \in L!Variables
      PROVE  Fit([content |-> content, variables |-> variables, version |-> row.version + 1],
                 EmailTemplateColumns)
  <2>1. PICK n : n = row.version + 1 /\ n \in 1..2
    BY <1>8 DEF L!EmailTemplate
  <2>2. PICK cols : cols = [content |-> content, variables |-> variables, version |-> n]
    OBVIOUS
  <2>3. Fit(cols, EmailTemplateColumns)
    BY <1>8, <2>1, <2>2 DEF Fit, EmailTemplateColumns
  <2>4. QED
    BY <2>1, <2>2, <2>3
<1>9. ASSUME NEW s, NEW content \in Content, NEW variables \in L!Variables,
             L!UpdateContent(w, s, content, variables)
      PROVE  EmailHeld(w)
  <2>1. PICK row : row = db.templates[s]
    OBVIOUS
  <2>2. s \in DOMAIN db.templates /\ row.version < 2
    BY <1>9, <2>1 DEF L!UpdateContent, L!Known
  <2>3. PICK cols : cols = [content |-> content, variables |-> variables, version |-> row.version + 1]
    OBVIOUS
  <2>4. row \in L!EmailTemplate /\ s \in {"s1"}
    BY <2>1, <2>2, EmailTypes
  <2>5. Fit(cols, EmailTemplateColumns)
    BY <1>8, <1>9, <2>2, <2>3, <2>4
  <2>6. PICK write : write = Q!Assign(row, cols)
    OBVIOUS
  <2>7. TypedWrite(ts, s, write) /\ write.op = "update"
    BY <1>7, <2>1, <2>2, <2>5, <2>6
  <2>8. PICK ws, xs : ws = [i \in {s} |-> write] /\ xs = L!NewVersion(s, row)
    OBVIOUS
  <2>9. \A v \in DOMAIN xs : v[1] = s /\ TypedWrite(vs, v, xs[v])
    BY <1>1, <2>4, <2>8, EmailVersionTyped
  <2>10. L!Hold(w, [templates |-> ws, versions |-> xs])
    BY <1>9, <2>1, <2>3, <2>6, <2>8, MailOps DEF L!UpdateContent, L!NewContent
  <2>11. QED
    BY <1>4, <2>2, <2>7, <2>8, <2>9, <2>10
<1>10. ASSUME NEW s, NEW n, L!RestoreVersion(w, s, n)
      PROVE  EmailHeld(w)
  <2>1. PICK row, old : row = db.templates[s] /\ old = db.versions[<<s, n>>]
    OBVIOUS
  <2>2. s \in DOMAIN db.templates /\ <<s, n>> \in DOMAIN db.versions /\ row.version < 2
    BY <1>10, <2>1 DEF L!RestoreVersion, L!Known
  <2>3. PICK cols : cols = [content |-> old.content, variables |-> old.variables,
                            version |-> row.version + 1]
    OBVIOUS
  <2>4. row \in L!EmailTemplate /\ s \in {"s1"} /\ old \in L!EmailTemplateVersion
    BY <2>1, <2>2, EmailTypes
  <2>5. old.content \in Content /\ old.variables \in L!Variables
    BY <2>4 DEF L!EmailTemplateVersion
  <2>6. Fit(cols, EmailTemplateColumns)
    BY <1>8, <2>2, <2>3, <2>4, <2>5
  <2>7. PICK write : write = Q!Assign(row, cols)
    OBVIOUS
  <2>8. PICK new : new = Q!Written(row, write)
    OBVIOUS
  <2>9. TypedWrite(ts, s, write) /\ write.op = "update" /\ new \in L!EmailTemplate
    BY <1>7, <2>1, <2>2, <2>6, <2>7, <2>8
  <2>10. PICK x, y : x = L!NewVersion(s, row) /\ y = L!NewVersion(s, new)
    OBVIOUS
  <2>11. PICK ws, xs : ws = [i \in {s} |-> write] /\ xs = L!Both(x, y)
    OBVIOUS
  <2>12. /\ \A v \in DOMAIN x : v[1] = s /\ TypedWrite(vs, v, x[v])
         /\ \A v \in DOMAIN y : v[1] = s /\ TypedWrite(vs, v, y[v])
    BY <1>1, <2>4, <2>9, <2>10, EmailVersionTyped
  <2>13. \A v \in DOMAIN xs : \/ v \in DOMAIN x /\ xs[v] = x[v]
                              \/ v \in DOMAIN y /\ xs[v] = y[v]
    BY <2>11 DEF L!Both
  <2>14. \A v \in DOMAIN xs : v[1] = s /\ TypedWrite(vs, v, xs[v])
    BY <2>12, <2>13
  <2>15. L!Hold(w, [templates |-> ws, versions |-> xs])
    BY <1>10, <2>1, <2>3, <2>7, <2>8, <2>10, <2>11, MailOps DEF L!RestoreVersion, L!NewContent
  <2>16. QED
    BY <1>4, <2>2, <2>9, <2>11, <2>14, <2>15
<1>11. ASSUME NEW s \in DOMAIN db.templates, NEW cols, Fit(cols, EmailTemplateColumns),
              L!Hold(w, [templates |-> [i \in {s} |-> L!Assign(db.templates[s], cols)]])
       PROVE  EmailHeld(w)
  <2>1. PICK write : write = Q!Assign(db.templates[s], cols)
    OBVIOUS
  <2>2. TypedWrite(ts, s, write) /\ write.op = "update"
    BY <1>7, <1>11, <2>1
  <2>3. PICK ws : ws = [i \in {s} |-> write]
    OBVIOUS
  <2>4. L!Hold(w, [templates |-> ws])
    BY <1>11, <2>1, <2>3, MailOps
  <2>5. PICK xs : xs = L!NoRows
    OBVIOUS
  <2>6. DOMAIN xs = {}
    BY <2>5 DEF L!NoRows
  <2>7. QED
    BY <1>4, <1>11, <2>2, <2>3, <2>4, <2>6
<1>12. ASSUME NEW s, L!UpdateDetails(w, s)
       PROVE  EmailHeld(w)
  <2>1. PICK cols : cols = [variables |-> "given"]
    OBVIOUS
  <2>2. Fit(cols, EmailTemplateColumns)
    BY <2>1 DEF Fit, EmailTemplateColumns, L!Variables
  <2>3. QED
    BY <1>11, <1>12, <2>1, <2>2 DEF L!UpdateDetails, L!Known
<1>13. ASSUME NEW s, NEW b \in BOOLEAN, L!SetActive(w, s, b)
       PROVE  EmailHeld(w)
  <2>1. PICK cols : cols = [is_active |-> b]
    OBVIOUS
  <2>2. Fit(cols, EmailTemplateColumns)
    BY <2>1 DEF Fit, EmailTemplateColumns
  <2>3. QED
    BY <1>11, <1>13, <2>1, <2>2 DEF L!SetActive, L!Known
<1>14. ASSUME NEW s, L!DeactivateTemplate(w, s) \/ L!ActivateTemplate(w, s)
       PROVE  EmailHeld(w)
  <2>1. L!SetActive(w, s, yes) \/ L!SetActive(w, s, no)
    BY <1>3, <1>14, Zenon DEF L!DeactivateTemplate, L!ActivateTemplate
  <2>2. QED
    BY <1>13, <2>1
<1>15. ASSUME NEW s \in {"s1"}, L!SendEmail(w, s)
       PROVE  EmailHeld(w)
  <2>1. PICK mail : /\ mail = [template |-> s, status |-> "pending", opened |-> no, clicked |-> no]
                       /\ mail = L!Logged(s)
    BY <1>3, Zenon DEF L!Logged
  <2>2. PICK row : row = [mail EXCEPT !.status = "sent"] /\ row = L!Accepted(L!Logged(s))
    BY <2>1 DEF L!Accepted
  <2>3. row \in L!SentEmail /\ row.template = s
    BY <2>1, <2>2 DEF L!SentEmail
  <2>4. seq \in 1..2 /\ s \in DOMAIN db.templates
    BY <1>15 DEF L!SendEmail, L!HoldNew, L!Active, L!Known
  <2>5. seq \in DOMAIN es /\ row \in Cols(es[seq])
    BY <1>2, <2>3, <2>4, EmailTables
  <2>6. PICK write : write = Q!Insert(row) /\ write.op = "insert" /\ write.cols = row
    BY InsertOp
  <2>7. TypedWrite(es, seq, write)
    BY <2>5, <2>6, TypedInsert
  <2>8. PICK ws : ws = [i \in {seq} |-> write]
    OBVIOUS
  <2>9. L!HoldNew(w, [emails |-> ws])
    BY <1>15, <2>2, <2>6, <2>8, MailOps DEF L!SendEmail
  <2>10. QED
    BY <1>5, <2>3, <2>4, <2>6, <2>7, <2>8, <2>9
<1>16. ASSUME NEW e \in 1..2, NEW cols, Fit(cols, SentColumns), "template" \notin DOMAIN cols,
              NEW write, write = Q!Update(cols) \/ \E row : write = Q!Assign(row, cols),
              L!Hold(w, [emails |-> [i \in {e} |-> write]])
       PROVE  EmailHeld(w)
  <2>1. Fit(cols, es[e])
    BY <1>2, <1>16
  <2>2. TypedWrite(es, e, write)
    BY <1>16, <2>1, TypedColumns
  <2>3. write.op = "update" /\ "template" \notin DOMAIN write.cols
    BY <1>16, UpdateOp, AssignedColumns
  <2>4. PICK ws : ws = [i \in {e} |-> write]
    OBVIOUS
  <2>5. QED
    BY <1>5, <1>16, <2>2, <2>3, <2>4
<1>17. ASSUME NEW e \in 1..2, L!RecordOpen(w, e)
       PROVE  EmailHeld(w)
  <2>1. PICK cols : cols = [opened |-> yes] /\ cols = [opened |-> TRUE]
    BY <1>3, Zenon
  <2>2. Fit(cols, SentColumns) /\ "template" \notin DOMAIN cols
    BY <2>1 DEF Fit, SentColumns
  <2>3. PICK write : write = Q!Update(cols)
    OBVIOUS
  <2>4. L!Hold(w, [emails |-> [i \in {e} |-> write]])
    BY <1>17, <2>1, <2>3, EmailUpdate DEF L!RecordOpen
  <2>5. QED
    BY <1>16, <2>2, <2>3, <2>4
<1>18. ASSUME NEW e \in 1..2, L!RecordClick(w, e)
       PROVE  EmailHeld(w)
  <2>1. PICK cols : /\ cols = [opened |-> yes, clicked |-> yes]
                    /\ cols = [opened |-> TRUE, clicked |-> TRUE]
    BY <1>3, Zenon
  <2>2. Fit(cols, SentColumns) /\ "template" \notin DOMAIN cols
    BY <2>1 DEF Fit, SentColumns
  <2>3. PICK write : write = Q!Assign(db.emails[e], cols)
    OBVIOUS
  <2>4. L!Hold(w, [emails |-> [i \in {e} |-> write]])
    BY <1>18, <2>1, <2>3, MailOps DEF L!RecordClick
  <2>5. QED
    BY <1>16, <2>2, <2>3, <2>4
<1>19. CASE L!Edit(w)
  BY <1>6, <1>9, <1>10, <1>12, <1>14, <1>19 DEF L!Edit
<1>20. CASE L!Mail(w)
  BY <1>15, <1>17, <1>18, <1>20 DEF L!Mail
<1>21. QED
  BY <1>19, <1>20

\* What a commit makes of the rows that refer to templates.
LEMMA EmailCommits ==
    ASSUME EmailsTypedInv, NEW w \in Alone, L!Commit(w)
    PROVE  /\ TypedRows(EmailSchema, db') /\ DOMAIN db.templates \subseteq DOMAIN db'.templates
           /\ \A v \in DOMAIN db'.versions : v[1] \in DOMAIN db'.templates
           /\ \A e \in DOMAIN db'.emails : db'.emails[e].template \in DOMAIN db'.templates
<1>1. PICK changes : changes = req[w] /\ TypedChanges(EmailSchema, changes) /\ OfTemplates(changes)
  BY DEF EmailsTypedInv, Typed, L!Commit, L!CommitAs, L!Free
<1>2. db' = Merged(changes)
  BY <1>1, MailOps DEF L!Commit, L!CommitAs, L!AfterAll, Merged
<1>3. TypedRows(EmailSchema, db) /\ TypedRows(EmailSchema, db')
  BY <1>1, <1>2, MergedTyped DEF EmailsTypedInv, Typed
<1>4. DOMAIN db = {"templates", "versions", "emails"}
  BY <1>3, EmailTables DEF TypedRows
<1>5. PICK ts, vs, es : /\ ts = WritesTo(changes, "templates") /\ vs = WritesTo(changes, "versions")
                        /\ es = WritesTo(changes, "emails")
  OBVIOUS
<1>6. /\ DOMAIN db'.templates = DOMAIN Q!After(db.templates, ts)
      /\ DOMAIN db'.versions = DOMAIN Q!After(db.versions, vs)
      /\ DOMAIN db'.emails = DOMAIN Q!After(db.emails, es)
      /\ \A e \in DOMAIN db'.emails : db'.emails[e] = Q!After(db.emails, es)[e]
  BY <1>2, <1>4, <1>5, MergedTable
<1>7. DOMAIN Q!NoRows = {}
  BY DEF Q!NoRows
<1>8. /\ \A s \in DOMAIN ts : ts[s].op # "delete"
      /\ \A v \in DOMAIN vs : \/ v[1] \in DOMAIN db.templates
                              \/ v[1] \in DOMAIN ts /\ ts[v[1]].op = "insert"
      /\ \A e \in DOMAIN es : \/ es[e].op = "insert" /\ es[e].cols.template \in DOMAIN db.templates
                              \/ es[e].op = "update" /\ "template" \notin DOMAIN es[e].cols
  BY <1>1, <1>5, <1>7 DEF WritesTo, OfTemplates
<1>9. /\ DOMAIN db.templates \subseteq DOMAIN db'.templates
      /\ \A s \in DOMAIN ts : ts[s].op = "insert" => s \in DOMAIN db'.templates
  BY <1>6, <1>8, NothingDeleted
<1>10. ASSUME NEW v \in DOMAIN db'.versions
       PROVE  v[1] \in DOMAIN db'.templates
  <2>1. v \in DOMAIN vs \/ v \in DOMAIN db.versions
    BY <1>6, <1>10, RowAfter
  <2>2. QED
    BY <1>8, <1>9, <2>1 DEF EmailsTypedInv
<1>11. ASSUME NEW e \in DOMAIN db'.emails
       PROVE  db'.emails[e].template \in DOMAIN db.templates
  <2>1. PICK row : row = Q!After(db.emails, es)[e] /\ row = db'.emails[e]
    BY <1>6, <1>11
  <2>2. CASE e \in DOMAIN es /\ es[e].op = "insert" /\ row = es[e].cols
    BY <1>8, <2>1, <2>2
  <2>3. CASE /\ e \in DOMAIN db.emails /\ e \in DOMAIN es /\ es[e].op \notin {"insert", "delete"}
             /\ row = Q!Written(db.emails[e], es[e])
    <3>1. es[e].op = "update" /\ "template" \notin DOMAIN es[e].cols
      BY <1>8, <2>3
    <3>2. "template" \in DOMAIN db.emails[e]
      BY <1>3, <2>3, EmailTypes DEF L!SentEmail
    <3>3. row.template = db.emails[e].template
      BY <2>3, <3>1, <3>2, Updating
    <3>4. QED
      BY <2>1, <2>3, <3>3 DEF EmailsTypedInv
  <2>4. CASE e \in DOMAIN db.emails /\ row = db.emails[e]
    BY <2>1, <2>4 DEF EmailsTypedInv
  <2>5. QED
    BY <1>6, <1>11, <2>1, <2>2, <2>3, <2>4, RowAfter
<1>12. QED
  BY <1>3, <1>9, <1>10, <1>11

\* A step keeps e-mail templates typed, and what refers to them.
LEMMA EmailsTypedStep ==
    ASSUME part = "email_templates", EmailsTypedInv, MCNext
    PROVE  EmailsTypedInv'
<1>1. L!Next
  BY DEF MCNext, RowsNext
<1>2. TypedRows(EmailSchema, db) /\ seq \in Nat \ {0} /\ DOMAIN req = Alone
  BY DEF EmailsTypedInv, Typed
<1>3. ASSUME NEW w \in Alone, L!Edit(w) \/ L!Mail(w)
      PROVE  EmailsTypedInv'
  <2>1. PICK changes : /\ db' = db /\ seq' \in {seq, seq + 1}
                       /\ TypedChanges(EmailSchema, changes) /\ OfTemplates(changes)
                       /\ req' = [req EXCEPT ![w] = changes]
    BY <1>2, <1>3, EmailHolds DEF EmailHeld
  <2>2. Typed(EmailSchema, Alone)'
    BY <2>1, TypedStep DEF EmailsTypedInv, Transacts
  <2>3. \A v \in Alone : req'[v] # None => OfTemplates(req'[v])
    BY <1>2, <2>1 DEF EmailsTypedInv
  <2>4. QED
    BY <2>1, <2>2, <2>3 DEF EmailsTypedInv, OfTemplates
<1>4. ASSUME NEW w \in Alone, L!Commit(w)
      PROVE  EmailsTypedInv'
  <2>1. req' = [req EXCEPT ![w] = None] /\ seq' = seq
    BY <1>4 DEF L!Commit, L!CommitAs
  <2>2. /\ TypedRows(EmailSchema, db') /\ DOMAIN db.templates \subseteq DOMAIN db'.templates
        /\ \A v \in DOMAIN db'.versions : v[1] \in DOMAIN db'.templates
        /\ \A e \in DOMAIN db'.emails : db'.emails[e].template \in DOMAIN db'.templates
    BY <1>4, EmailCommits
  <2>3. Typed(EmailSchema, Alone)'
    BY <2>1, <2>2, TypedCommit DEF EmailsTypedInv
  <2>4. \A v \in Alone : req'[v] # None => req[v] # None /\ req'[v] = req[v]
    BY <1>2, <2>1
  <2>5. \A changes : OfTemplates(changes) => OfTemplates(changes)'
    BY <2>2 DEF OfTemplates
  <2>6. \A v \in Alone : req'[v] # None => OfTemplates(req[v])'
    BY <2>4, <2>5 DEF EmailsTypedInv, OfTemplates
  <2>7. QED
    BY <2>2, <2>3, <2>6 DEF EmailsTypedInv
<1>5. ASSUME NEW w \in Alone, L!Rollback(w)
      PROVE  EmailsTypedInv'
  <2>1. db' = db /\ req' = [req EXCEPT ![w] = None] /\ seq' = seq
    BY <1>5 DEF L!Rollback
  <2>2. TypedRows(EmailSchema, db')
    BY <1>2, <2>1
  <2>3. Typed(EmailSchema, Alone)'
    BY <2>1, <2>2, TypedCommit DEF EmailsTypedInv
  <2>4. \A v \in Alone : req'[v] # None => OfTemplates(req'[v])
    BY <1>2, <2>1 DEF EmailsTypedInv
  <2>5. QED
    BY <2>1, <2>3, <2>4 DEF EmailsTypedInv, OfTemplates
<1>6. QED
  BY <1>1, <1>3, <1>4, <1>5 DEF L!Next

\* At first there are no e-mail templates.
LEMMA EmailsTypedStart ==
    ASSUME part = "email_templates", MCInit
    PROVE  EmailsTypedInv
<1>1. L!NoRows = Q!NoRows /\ DOMAIN Q!NoRows = {}
  BY DEF L!NoRows, Q!NoRows
<1>2. db = [t \in DOMAIN EmailSchema |-> Q!NoRows] /\ seq = 1 /\ req = [w \in Alone |-> None]
  BY <1>1, EmailTables DEF MCInit, PartInit, L!Init, L!Start
<1>3. DOMAIN db.versions = {} /\ DOMAIN db.emails = {}
  BY <1>1, <1>2, EmailTables
<1>4. QED
  BY <1>2, <1>3, TypedStart DEF EmailsTypedInv

\* The invariant is stronger than the types.
LEMMA EmailsTyped ==
    ASSUME EmailsTypedInv
    PROVE  L!TypeOK
<1>1. TypedRows(EmailSchema, db)
  BY DEF EmailsTypedInv, Typed
<1>2. ASSUME NEW v \in DOMAIN db.versions
      PROVE  v \in (DOMAIN db.templates) \X (1..2)
  <2>1. v \in {"s1"} \X (1..2) /\ v[1] \in DOMAIN db.templates
    BY <1>1, <1>2, EmailTypes DEF EmailsTypedInv
  <2>2. v = <<v[1], v[2]>> /\ v[2] \in 1..2
    BY <2>1
  <2>3. QED
    BY <2>1, <2>2
<1>3. QED
  BY <1>1, <1>2, EmailTypes DEF EmailsTypedInv, L!TypeOK, L!IsTable, L!Known

-------------------------------------------------------------------------------
(* Every component *)

\* The inductive invariant of each component under which its rows are typed.
AllTyped ==
    /\ AuditInv
    /\ part = "tickets" => TicketInv
    /\ part = "comments" => CommentsTypedInv
    /\ part = "reports" => ReportsTypedInv
    /\ part = "push" => Typed(PushSchema, Pair)
    /\ part = "surveys" => SurveysTypedInv
    /\ part = "time_entries" => AmountsInv
    /\ part = "messages" => MessagesInv
    /\ part = "workflows" => WorkflowsTypedInv
    /\ part = "documents" => DocumentsTypedInv
    /\ part = "announcements" => AnnouncementsTypedInv
    /\ part = "onboarding" => OnboardingTypedInv
    /\ part = "email_templates" => EmailsTypedInv
    /\ part = "activity" => Typed(FeedSchema, Alone)
    /\ part = "preferences" => Typed(PreferenceSchema, Alone)
    /\ part = "projects" => Typed(ProjectSchema, Alone)
    /\ part = "sla_status" => K!TypeOK

\* Each component starts in its invariant.
LEMMA AllTypedStart == MCInit => AllTyped
<1> SUFFICES ASSUME MCInit PROVE AllTyped
  OBVIOUS
<1>1. AuditInv
  BY AuditStart DEF MCInit
<1>2. /\ part = "tickets" => TicketInv
      /\ part = "comments" => CommentsTypedInv
      /\ part = "reports" => ReportsTypedInv
      /\ part = "push" => Typed(PushSchema, Pair)
      /\ part = "surveys" => SurveysTypedInv
      /\ part = "time_entries" => AmountsInv
      /\ part = "messages" => MessagesInv
      /\ part = "workflows" => WorkflowsTypedInv
  BY TicketStart, CommentsTypedStart, ReportsTypedStart, SubsTypedStart, SurveysTypedStart,
     AmountsStart, MessagesStart, WorkflowsTypedStart
<1>3. /\ part = "documents" => DocumentsTypedInv
      /\ part = "announcements" => AnnouncementsTypedInv
      /\ part = "onboarding" => OnboardingTypedInv
      /\ part = "email_templates" => EmailsTypedInv
      /\ part = "activity" => Typed(FeedSchema, Alone)
      /\ part = "preferences" => Typed(PreferenceSchema, Alone)
      /\ part = "projects" => Typed(ProjectSchema, Alone)
      /\ part = "sla_status" => K!TypeOK
  BY DocumentsTypedStart, AnnouncementsTypedStart, OnboardingTypedStart, EmailsTypedStart,
     FeedStart, PreferencesTypedStart, ProjectsTypedStart, SlaStart
<1>4. QED
  BY <1>1, <1>2, <1>3 DEF AllTyped

\* A step of a component keeps its invariant, and the others keep still.
LEMMA AllTypedStep ==
    ASSUME AllTyped, MCNext
    PROVE  AllTyped'
<1>1. AuditInv'
  BY AuditStep DEF AllTyped, MCNext, auditvars, vars
<1>2. /\ (part = "tickets" => TicketInv)'
      /\ (part = "comments" => CommentsTypedInv)'
      /\ (part = "reports" => ReportsTypedInv)'
      /\ (part = "push" => Typed(PushSchema, Pair))'
      /\ (part = "surveys" => SurveysTypedInv)'
      /\ (part = "time_entries" => AmountsInv)'
      /\ (part = "messages" => MessagesInv)'
      /\ (part = "workflows" => WorkflowsTypedInv)'
  BY TicketStep, CommentsTypedStep, ReportsTypedStep, SubsTypedStep, SurveysTypedStep,
     AmountsStep, MessagesStep, WorkflowsTypedStep, SamePart DEF AllTyped
<1>3. /\ (part = "documents" => DocumentsTypedInv)'
      /\ (part = "announcements" => AnnouncementsTypedInv)'
      /\ (part = "onboarding" => OnboardingTypedInv)'
      /\ (part = "email_templates" => EmailsTypedInv)'
      /\ (part = "activity" => Typed(FeedSchema, Alone))'
      /\ (part = "preferences" => Typed(PreferenceSchema, Alone))'
      /\ (part = "projects" => Typed(ProjectSchema, Alone))'
      /\ (part = "sla_status" => K!TypeOK)'
  BY DocumentsTypedStep, AnnouncementsTypedStep, OnboardingTypedStep, EmailsTypedStep,
     FeedStep, PreferencesTypedStep, ProjectsTypedStep, SlaStep, SamePart DEF AllTyped
<1>4. QED
  BY <1>1, <1>2, <1>3 DEF AllTyped

\* A step that changes nothing keeps every invariant.
LEMMA AllTypedStutter ==
    ASSUME AllTyped, UNCHANGED mcvars
    PROVE  AllTyped'
<1>1. UNCHANGED <<part, db, seq, req>> /\ UNCHANGED vars
  BY DEF mcvars, auditvars, vars
<1>2. \A schema, workers : Typed(schema, workers) => Typed(schema, workers)'
  BY <1>1 DEF Typed
<1>3. AuditInv'
  BY <1>1, AuditStep DEF AllTyped
<1>4. TicketInv => TicketInv'
  BY <1>1 DEF TicketInv
<1>5. CommentsTypedInv => CommentsTypedInv'
  BY <1>1, <1>2 DEF CommentsTypedInv, C!Intact
<1>6. ReportsTypedInv => ReportsTypedInv'
  BY <1>1, <1>2 DEF ReportsTypedInv
<1>7. SurveysTypedInv => SurveysTypedInv'
  BY <1>1, <1>2 DEF SurveysTypedInv
<1>8. AmountsInv => AmountsInv'
  BY <1>1, <1>2 DEF AmountsInv, GoodEntryWrite
<1>9. WorkflowsTypedInv => WorkflowsTypedInv'
  BY <1>1, <1>2 DEF WorkflowsTypedInv, OfInstances
<1>10. DocumentsTypedInv => DocumentsTypedInv'
  BY <1>1 DEF DocumentsTypedInv
<1>11. AnnouncementsTypedInv => AnnouncementsTypedInv'
  BY <1>1, <1>2 DEF AnnouncementsTypedInv
<1>12. OnboardingTypedInv => OnboardingTypedInv'
  BY <1>1, <1>2 DEF OnboardingTypedInv
<1>13. EmailsTypedInv => EmailsTypedInv'
  BY <1>1, <1>2 DEF EmailsTypedInv, OfTemplates
<1>14. MessagesInv => MessagesInv'
  BY <1>1, MessagesStutter
<1>15. K!TypeOK => K!TypeOK'
  BY <1>1 DEF K!TypeOK
<1>16. /\ (part = "tickets" => TicketInv)'
       /\ (part = "comments" => CommentsTypedInv)'
       /\ (part = "reports" => ReportsTypedInv)'
       /\ (part = "push" => Typed(PushSchema, Pair))'
       /\ (part = "surveys" => SurveysTypedInv)'
       /\ (part = "time_entries" => AmountsInv)'
       /\ (part = "messages" => MessagesInv)'
       /\ (part = "workflows" => WorkflowsTypedInv)'
  BY <1>1, <1>2, <1>4, <1>5, <1>6, <1>7, <1>8, <1>9, <1>14 DEF AllTyped
<1>17. /\ (part = "documents" => DocumentsTypedInv)'
       /\ (part = "announcements" => AnnouncementsTypedInv)'
       /\ (part = "onboarding" => OnboardingTypedInv)'
       /\ (part = "email_templates" => EmailsTypedInv)'
       /\ (part = "activity" => Typed(FeedSchema, Alone))'
       /\ (part = "preferences" => Typed(PreferenceSchema, Alone))'
       /\ (part = "projects" => Typed(ProjectSchema, Alone))'
       /\ (part = "sla_status" => K!TypeOK)'
  BY <1>1, <1>2, <1>10, <1>11, <1>12, <1>13, <1>15 DEF AllTyped
<1>18. QED
  BY <1>3, <1>16, <1>17 DEF AllTyped

\* Each component's invariant, and that of the survey results, types its rows.
LEMMA AllTypedRows ==
    ASSUME AllTyped, part = "survey_results" => ResultsInv
    PROVE  RowsTyped
<1>1. TypeOK
  BY DEF AllTyped, AuditInv
<1>2. part = "tickets" => T!TypeOK
  BY DEF AllTyped, TicketInv, GoodTicket, T!TypeOK
<1>3. /\ part = "comments" => C!TypeOK
      /\ part = "reports" => R!TypeOK
      /\ part = "push" => P!TypeOK
      /\ part = "surveys" => S!TypeOK
      /\ part = "time_entries" => E!TypeOK
      /\ part = "messages" => M!TypeOK
      /\ part = "workflows" => W!TypeOK
      /\ part = "documents" => D!TypeOK
  BY CommentsTyped, ReportsTyped, SubsTyped, SurveysTyped, EntriesTyped, MessagesTyped,
     WorkflowsTyped, DocumentsTyped DEF AllTyped
<1>4. /\ part = "announcements" => A!TypeOK
      /\ part = "onboarding" => O!TypeOK
      /\ part = "email_templates" => L!TypeOK
      /\ part = "activity" => F!TypeOK
      /\ part = "preferences" => N!TypeOK
      /\ part = "projects" => J!TypeOK
      /\ part = "sla_status" => K!TypeOK
      /\ part = "survey_results" => G!TypeOK
  BY AnnouncementsTyped, OnboardingTyped, EmailsTyped, FeedsTyped, PreferencesTyped,
     ProjectsTyped DEF AllTyped, ResultsInv
<1>5. QED
  BY <1>1, <1>2, <1>3, <1>4 DEF RowsTyped

\* In every component rows have the types of their columns and refer to rows that exist,
\* whatever requests write (the columns of models/, the foreign keys and their cascades).
THEOREM RowsAreTyped == MCSpec => []RowsTyped
<1>1. MCInit => AllTyped
  BY AllTypedStart
<1>2. AllTyped /\ [MCNext]_mcvars => AllTyped'
  BY AllTypedStep, AllTypedStutter
<1>3. AllTyped /\ (part = "survey_results" => ResultsInv) => RowsTyped
  BY AllTypedRows
<1>4. QED
  BY <1>1, <1>2, <1>3, ResultsHold, PTL DEF MCSpec
================================================================================
