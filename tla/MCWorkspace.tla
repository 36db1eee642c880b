------------------------------ MODULE MCWorkspace -------------------------------
(* Model-checking instances of the components around the core: a behaviour is    *)
(* one of the component `part`, the others keep still.  Tickets, their comments, *)
(* reports and push subscriptions take overlapping requests, the other parts one *)
(* request at a time.                                                            *)
EXTENDS AuditTrail, TLC, FiniteSets, Naturals

CONSTANTS Worker, Pair, Alone, None, Priority, Person, User, Admin, Client, Content

ASSUME AloneAssumption == \A v, w \in Alone : v = w

VARIABLES
    part,
    db, seq, req,   \* those of Requests; for a ticket, its row and its requests
    disturbed       \* two requests have overlapped; for documents, one was rolled back

auditvars == <<kind, at, tx, pending, applied, logged, reply>>
mcvars == <<part, db, seq, req, disturbed, auditvars>>

\* An onboarding of two steps, of which the second is optional, or of one step.
Lists ==
    LET a == [id |-> "a", is_required |-> TRUE, can_skip |-> FALSE]
        b == [id |-> "b", is_required |-> FALSE, can_skip |-> TRUE]
    IN  {<<a, b>>, <<a>>}

Choices ==
    {[is_enabled |-> FALSE], [is_enabled |-> TRUE], [channel_email |-> FALSE],
     [frequency |-> "none"], [frequency |-> "immediate", channel_slack |-> TRUE]}

T == INSTANCE Tickets WITH row <- db
C == INSTANCE TicketComments WITH
        Worker <- Pair, Person <- Admin \cup Client, MaxId <- 3
R == INSTANCE Reports WITH Worker <- Pair, Person <- User, Delivered <- {"sent"}, MaxId <- 2
P == INSTANCE Push WITH Worker <- Pair, Endpoint <- {"e1", "e2"}, MaxId <- 0
S == INSTANCE Surveys WITH
        Worker <- Alone, Question <- {"q1", "q2"}, Respondent <- User,
        Setting <- {"allow_multiple_responses"}, MaxSurveys <- 1, MaxId <- 3
E == INSTANCE TimeEntries WITH
        Worker <- Alone, Person <- User, HourlyRate <- {"r1"}, MaxMinutes <- 2, MaxId <- 2
M == INSTANCE Messages WITH Worker <- Alone, MaxConversations <- 1, MaxId <- 3
W == INSTANCE Workflows WITH Worker <- Alone, KeepCount <- 2, MaxVersion <- 4, MaxId <- 2
D == INSTANCE Documents WITH Worker <- Alone, Level <- {"view", "edit"}, MaxId <- 1
A == INSTANCE Announcements WITH Worker <- Alone, Person <- User, MaxId <- 1
O == INSTANCE Onboarding WITH
        Worker <- Alone, Person <- User, StepLists <- Lists, MaxId <- 2
L == INSTANCE EmailTemplates WITH Worker <- Alone, Slug <- {"s1"}, MaxId <- 2
F == INSTANCE ActivityFeed WITH
        Worker <- Alone, Person <- User, Entity <- {"project", "ticket"}, MaxId <- 2
N == INSTANCE NotificationPreferences WITH
        Worker <- Alone, Person <- User, Category <- {"security", "system"},
        Choice <- Choices, MaxId <- 1
K == INSTANCE SlaStatus WITH
        now <- seq, tickets <- db, Ticket <- User, Priority <- {"high", "low"},
        Transitions <- T!VALID_STATUS_TRANSITIONS, MaxTime <- 13,
        Due <- [high |-> [response |-> 4, resolution |-> 8],
                low |-> [response |-> 8, resolution |-> 12]]
G == INSTANCE SurveyResults WITH
        responses <- db, Response <- Person, Questions <- <<"q1", "q2">>, Number <- {3, 8, 10, 12}
J == INSTANCE Projects WITH
        Worker <- Alone, Priority <- {"medium"}, MaxHours <- 1, MaxId <- 2

\* None, which stands for no request and for a null, is no request of the service for
\* documents and no amount of a time entry.
ASSUME NullAssumption ==
    /\ \A p \in Person : /\ None # [documents |-> [d \in {1} |-> D!Insert(D!NewDocument(p))]]
                        /\ None # [documents |-> [d \in {1} |-> D!Delete]]
    /\ \A minutes \in E!Minutes : None # <<minutes, "r1">>

\* The figures count finitely many rows: Person names a survey's responses as well, User
\* the tickets of an organization.
ASSUME FiniteAssumption == IsFiniteSet(Person) /\ IsFiniteSet(User)

-------------------------------------------------------------------------------
(* Behaviours *)

NoRequests == req = [w \in Alone |-> None]

PartInit ==
    \/ part = "audit" /\ db = None /\ seq = 1 /\ NoRequests
    \/ part = "tickets" /\ T!Init /\ seq = 1
    \/ part = "comments" /\ C!Init
    \/ part = "reports" /\ R!Init
    \/ part = "push" /\ P!Init
    \/ part = "surveys" /\ S!Init
    \/ part = "time_entries" /\ E!Init
    \/ part = "messages" /\ M!Init
    \/ part = "workflows" /\ W!Init
    \/ part = "documents" /\ D!Init
    \/ part = "announcements" /\ A!Init
    \/ part = "onboarding" /\ O!Init
    \/ part = "email_templates" /\ L!Init
    \/ part = "activity" /\ F!Init
    \/ part = "preferences" /\ N!Init
    \/ part = "projects" /\ J!Init
    \/ part = "sla_status" /\ K!Init /\ NoRequests
    \/ part = "survey_results" /\ G!Init /\ seq = 1 /\ NoRequests

MCInit ==
    /\ Init
    /\ PartInit
    /\ part # "audit" => kind = [r \in Request |-> "update"]
    /\ disturbed = FALSE

RowsNext ==
    \/ part = "tickets" /\ T!Next /\ UNCHANGED seq
    \/ part = "comments" /\ C!Next
    \/ part = "reports" /\ R!Next
    \/ part = "push" /\ P!Next
    \/ part = "surveys" /\ S!Next
    \/ part = "time_entries" /\ E!Next
    \/ part = "messages" /\ M!Next
    \/ part = "workflows" /\ W!Next
    \/ part = "documents" /\ D!Next
    \/ part = "announcements" /\ A!Next
    \/ part = "onboarding" /\ O!Next
    \/ part = "email_templates" /\ L!Next
    \/ part = "activity" /\ F!Next
    \/ part = "preferences" /\ N!Next
    \/ part = "projects" /\ J!Next
    \/ part = "sla_status" /\ K!Next /\ UNCHANGED req
    \/ part = "survey_results" /\ G!Next /\ UNCHANGED <<seq, req>>

Busy(w) == req[w] # (IF part = "tickets" THEN T!NoChange ELSE None)
Disturbance ==
    IF part = "documents"
    THEN \E w \in Alone : D!Rollback(w)
    ELSE \E v, w \in DOMAIN req : v # w /\ Busy(v)' /\ Busy(w)'

MCNext ==
    /\ \/ part = "audit" /\ Next /\ UNCHANGED <<db, seq, req>>
       \/ RowsNext /\ UNCHANGED auditvars
    /\ UNCHANGED part
    /\ disturbed' = (disturbed \/ Disturbance)

MCSpec == MCInit /\ [][MCNext]_mcvars

-------------------------------------------------------------------------------
(* Properties *)

\* In every component, rows have their column types and refer to rows that exist.
RowsTyped ==
    CASE part = "tickets" -> T!TypeOK [] part = "comments" -> C!TypeOK
      [] part = "reports" -> R!TypeOK [] part = "push" -> P!TypeOK
      [] part = "surveys" -> S!TypeOK [] part = "time_entries" -> E!TypeOK
      [] part = "messages" -> M!TypeOK [] part = "workflows" -> W!TypeOK
      [] part = "documents" -> D!TypeOK [] part = "announcements" -> A!TypeOK
      [] part = "onboarding" -> O!TypeOK [] part = "email_templates" -> L!TypeOK
      [] part = "activity" -> F!TypeOK [] part = "preferences" -> N!TypeOK
      [] part = "projects" -> J!TypeOK [] part = "sla_status" -> K!TypeOK
      [] part = "survey_results" -> G!TypeOK [] OTHER -> TypeOK

\* Whatever requests overlap, the columns that a request writes together agree: the due
\* dates of a ticket with its priority, its timestamps with its status, the stamp of a
\* first response with the comments of admins, an execution's file or error with its
\* status; so does, requests alone, the completion date of a project with its status.
StampsMatch ==
    /\ part = "tickets" => T!DuesMatchPriority /\ T!FinishedIsStamped
    /\ part = "comments" => C!AnsweredIsStamped
    /\ part = "reports" => R!OutcomeRecorded
    /\ part = "projects" => J!CompletedIsStamped

\* As long as no two requests overlap, each committed change of a ticket's status is a
\* transition of VALID_STATUS_TRANSITIONS, assigning included; a first response stays the
\* first; and exactly a closed ticket has a closing time.
TicketWorkflowUnlessRaced ==
    [][(part = "tickets" /\ ~disturbed' /\ T!Exists /\ T!Exists') =>
            /\ db'.status \in T!VALID_STATUS_TRANSITIONS[db.status] \cup {db.status}
            /\ db.firstResponse # None => db'.firstResponse = db.firstResponse
            /\ T!OnlyClosedIsStamped']_mcvars

\* Another promoter never lowers a survey's Net Promoter Score, another detractor never
\* raises it, a response without a number does not move it (calculate_nps).
PromotersRaise == [][part = "survey_results" => G!PromotersRaise]_mcvars

\* What others rely on does not change under them: the questions of a survey that was
\* answered and the answers, a further response only where the survey allows it, the
\* text of a published announcement, an onboarding under way; nor, whatever requests
\* overlap, a running report execution.
HistoryKept ==
    [][/\ part = "surveys" => S!QuestionsFrozen /\ S!AnswersKept /\ S!SecondOnlyIfAllowed
       /\ part = "announcements" => A!PublishedStep
       /\ part = "onboarding" => O!ActiveStep
       /\ part = "reports" => R!RunningStep]_mcvars

\* One at a time, where a second would be ambiguous: a user's running timer, a
\* workflow's current version, an organization's default onboarding template.
OneAtATime ==
    /\ part = "time_entries" => E!OneTimer
    /\ part = "workflows" => W!OneCurrent
    /\ part = "onboarding" => O!OneDefault

\* Figures are those of the rows they are computed from: a participant's unread messages,
\* a time entry's amount, a survey's scores, ratings and distributions.
FiguresMatch ==
    /\ part = "messages" => M!UnreadArrived
    /\ part = "time_entries" => E!AmountMatches
    /\ part = "survey_results" => G!FiguresAddUp

\* As long as no two requests overlap, a push subscription is active exactly until
\* three failures in a row.
ActiveUntilThirdUnlessRaced == part = "push" /\ ~disturbed => P!ActiveUntilThird

\* What is stored twice is the same twice: an e-mail template's content and the version
\* it names; the documents and, if no request is rolled back, the files in S3.
CopiesMatch ==
    /\ part = "email_templates" => L!VersionMatches
    /\ part = "documents" /\ ~disturbed => D!FilesMatch

\* Different ways of reading the same rows agree: pages and the whole feed, what a user
\* is shown of the notification preferences and what decides, a project's own flags and
\* the lists and statistics, the deadlines a ticket shows and the list of late tickets.
ReadsAgree ==
    /\ part = "activity" => F!PagesCover
    /\ part = "preferences" => N!ShownIsUsed
    /\ part = "projects" => J!ListsAgree
    /\ part = "sla_status" => K!StatusAgrees

Symmetry == Permutations(Worker) \cup Permutations(Pair) \cup Permutations(Person)
===============================================================================
