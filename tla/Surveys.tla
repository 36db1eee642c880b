--------------------------------- MODULE Surveys ---------------------------------
(***************************************************************************)
(* Surveys and their responses: api/surveys.py over                           *)
(* services/survey_service.py and dao/survey.py.                              *)
(***************************************************************************)
EXTENDS Requests

CONSTANTS
    Question,   \* question ids; all are required
    Respondent, \* users who answer
    Setting,    \* the settings that requests change
    MaxSurveys  \* bound on the surveys created

-------------------------------------------------------------------------------
(* Tables *)

SurveyStatus == {"draft", "active", "paused", "closed"}

Survey ==
    [status : SurveyStatus, questions : SUBSET Question, is_anonymous : BOOLEAN,
     allow_multiple_responses : BOOLEAN]
SurveyResponse ==
    [survey : 1..MaxId, respondent : Respondent \cup {None}, answers : SUBSET Question,
     is_complete : BOOLEAN]
SurveyInvitation == [survey : 1..MaxId, user : Respondent]

NewSurvey(questions, anonymous, multiple) ==
    [status |-> "draft", questions |-> questions, is_anonymous |-> anonymous,
     allow_multiple_responses |-> multiple]
NewInvitation(s, u) == [survey |-> s, user |-> u]

Exists(s) == s \in DOMAIN db.surveys
Responses(s) == {r \in DOMAIN db.responses : db.responses[r].survey = s}

-------------------------------------------------------------------------------
(* Survey requests *)

ValidQuestions(questions) == questions # {}

CreateSurvey(w, questions, anonymous, multiple) ==
    /\ ValidQuestions(questions)
    /\ Cardinality(DOMAIN db.surveys) < MaxSurveys
    /\ HoldNew(w, [surveys |-> Each({seq}, Insert(NewSurvey(questions, anonymous, multiple)))])

\* get_response_count
ResponseCount(s) == Cardinality({r \in Responses(s) : db.responses[r].is_complete})

QuestionsEditable_Always(s) == Exists(s)     \* mutant: responses are not counted
QuestionsEditable(s) == Exists(s) /\ ResponseCount(s) = 0

\* UpdateSurvey, with questions and without.
UpdateQuestions(w, s, questions) ==
    /\ QuestionsEditable(s) /\ ValidQuestions(questions)
    /\ questions # db.surveys[s].questions
    /\ Hold(w, [surveys |-> Each({s}, Update([questions |-> questions]))])

UpdateSettings(w, s, column, value) ==
    /\ Exists(s) /\ value # db.surveys[s][column]
    /\ Hold(w, [surveys |-> Each({s}, Update([c \in {column} |-> value]))])

Publishable(s) == Exists(s) /\ db.surveys[s].status \in {"draft", "paused"}
Published == [status |-> "active"]
PublishSurvey(w, s) ==
    Publishable(s) /\ Hold(w, [surveys |-> Each({s}, Update(Published))])

Closed == [status |-> "closed"]
CloseSurvey(w, s) ==
    Exists(s) /\ Hold(w, [surveys |-> Each({s}, Update(Closed))])

DeleteSurvey(w, s) ==
    Exists(s) /\ Hold(w, [surveys |-> Each({s}, Delete)])

CreateInvitation(w, s, u) ==
    Exists(s) /\ HoldNew(w, [invitations |-> Each({seq}, Insert(NewInvitation(s, u)))])

-------------------------------------------------------------------------------
(* Response requests *)

\* Before starts_at and after ends_at a response is refused as well: no step.
IsActive(s) == db.surveys[s].status = "active"

\* get_user_response; with several the query raises.
UserResponses(s, u) == {r \in Responses(s) : db.responses[r].respondent = u}

NewResponse(s, u) ==
    [survey |-> s, respondent |-> IF db.surveys[s].is_anonymous THEN None ELSE u,
     answers |-> {}, is_complete |-> FALSE]

MayStart_Again(s, u) ==              \* mutant: an earlier response is not looked for
    Exists(s) /\ IsActive(s)
\* With a response of hers already, a user gets that one or is refused.
MayStart(s, u) ==
    /\ Exists(s) /\ IsActive(s)
    /\ ~db.surveys[s].allow_multiple_responses => UserResponses(s, u) = {}

StartResponse(w, s, u) ==
    /\ MayStart(s, u)
    /\ HoldNew(w, [responses |-> Each({seq}, Insert(NewResponse(s, u)))])

Answered_Replaced(r, answers) == [answers |-> answers]   \* mutant: not merged
\* update_answers changes the stored JSON object in place and assigns it to itself, which
\* the ORM takes for no change: only the first answers of a response are stored.
Answered(r, answers) ==
    IF db.responses[r].answers = {} THEN [answers |-> answers] ELSE NoRows

Modifiable(r) == r \in DOMAIN db.responses /\ ~db.responses[r].is_complete

UpdateResponse(w, r, answers) ==
    /\ Modifiable(r) /\ DOMAIN Answered(r, answers) # {}
    /\ Hold(w, [responses |-> Each({r}, Update(Answered(r, answers)))])

\* The required questions are looked for among the answers submitted; neither
\* is_complete nor the survey's status is.
MaySubmit(r, answers) ==
    /\ r \in DOMAIN db.responses /\ Exists(db.responses[r].survey)
    /\ db.surveys[db.responses[r].survey].questions \subseteq answers

Submitted == [is_complete |-> TRUE]
SubmitResponse(w, r, answers) ==
    /\ MaySubmit(r, answers)
    /\ Hold(w, [responses |-> Each({r}, Update(Both(Submitted, Answered(r, answers))))])

-------------------------------------------------------------------------------
\* Responses and invitations go with their survey; new ones need it.
CommitSurveys(w) ==
    /\ ~Free(w)
    /\ LET all == AfterAll(req[w])
           orphans(t) == {i \in DOMAIN all[t] : all[t][i].survey \notin DOMAIN all.surveys}
           new(t) == IF t \in DOMAIN req[w] THEN DOMAIN req[w][t] ELSE {}
           without(t) == [i \in DOMAIN all[t] \ orphans(t) |-> all[t][i]]
       IN  /\ \A t \in {"responses", "invitations"} : new(t) \cap orphans(t) = {}
           /\ CommitAs(w, [all EXCEPT !.responses = without("responses"),
                                      !.invitations = without("invitations")])

Init == Start({"surveys", "responses", "invitations"})

EditSurveys(w) ==
    \/ \E q \in SUBSET Question, a, m \in BOOLEAN : CreateSurvey(w, q, a, m)
    \/ \E s \in 1..MaxId :
        \/ \E q \in SUBSET Question : UpdateQuestions(w, s, q)
        \/ \E c \in Setting, b \in BOOLEAN :
               UpdateSettings(w, s, c, b)
        \/ PublishSurvey(w, s) \/ CloseSurvey(w, s) \/ DeleteSurvey(w, s)
        \/ \E u \in Respondent : CreateInvitation(w, s, u)

Respond(w) ==
    \/ \E s \in 1..MaxId, u \in Respondent : StartResponse(w, s, u)
    \/ \E r \in 1..MaxId, answers \in SUBSET Question :
           UpdateResponse(w, r, answers) \/ SubmitResponse(w, r, answers)

Next == \E w \in Worker : EditSurveys(w) \/ Respond(w) \/ CommitSurveys(w) \/ Rollback(w)

Spec == Init /\ [][Next]_dbvars

-------------------------------------------------------------------------------
(* Properties *)

IsTable(t, row) == \A i \in DOMAIN db[t] : i \in 1..MaxId /\ db[t][i] \in row

\* Rows have their column types, and responses and invitations have their survey.
TypeOK ==
    /\ IsTable("surveys", Survey) /\ IsTable("responses", SurveyResponse)
    /\ IsTable("invitations", SurveyInvitation)
    /\ \A r \in DOMAIN db.responses : Exists(db.responses[r].survey)
    /\ \A i \in DOMAIN db.invitations : Exists(db.invitations[i].survey)

\* A user's further response to a survey is accepted only while the survey allows
\* several (SurveyService.start_response).
SecondOnlyIfAllowed ==
    \A r \in DOMAIN db'.responses \ DOMAIN db.responses :
        LET new == db'.responses[r] IN
        new.respondent # None /\ UserResponses(new.survey, new.respondent) # {}
            => db.surveys[new.survey].allow_multiple_responses

\* The questions of a survey that has a complete response do not change
\* (SurveyService.update_survey).
QuestionsFrozen ==
    \A s \in DOMAIN db.surveys \cap DOMAIN db'.surveys :
        ResponseCount(s) > 0 => db'.surveys[s].questions = db.surveys[s].questions

\* A question that is answered stays answered (SurveyResponseDAO.update_answers).
AnswersKept ==
    \A r \in DOMAIN db.responses \cap DOMAIN db'.responses :
        db.responses[r].answers \subseteq db'.responses[r].answers

\* A complete response answers the questions that were required of it
\* (SurveyService.submit_response).  No run claims it: answers that are submitted after
\* others were saved are merged in place and lost (update_answers).
CompleteIsAnswered ==
    \A r \in DOMAIN db.responses :
        db.responses[r].is_complete =>
            db.surveys[db.responses[r].survey].questions \subseteq db.responses[r].answers
===============================================================================
