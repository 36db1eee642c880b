------------------------------ MODULE SurveyResults ------------------------------
(***************************************************************************)
(* The figures of one survey: the Net Promoter Score, the average rating and  *)
(* the completion rate that services/survey_service.py and dao/survey.py      *)
(* compute over its responses.  How responses come about is the subject of    *)
(* Surveys; here they are started, or submitted with all of their answers.    *)
(***************************************************************************)
EXTENDS Integers, Sequences, FiniteSets, FiniteSetsExt, Functions

CONSTANTS
    Response,   \* ids of responses
    Questions,  \* the question ids, in the order in which JSONB stores keys
    Number,     \* numbers that clients answer with
    None        \* no answer, no figure

VARIABLE responses      \* the rows

-------------------------------------------------------------------------------
(* Answers *)

\* In Python True is the integer 1, so a yes/no answer passes for a number.
Value ==
    [type : {"number"}, n : Number] \cup [type : {"yes_no"}, n : {0, 1}] \cup [type : {"text"}]
IsNumber(v) == v # None /\ v.type # "text"

Answers == [DOMAIN Questions -> Value \cup {None}]
SurveyResponse == [is_complete : BOOLEAN, answers : Answers]

NoAnswers == [k \in DOMAIN Questions |-> None]

StartResponse(r) ==
    /\ r \notin DOMAIN responses
    /\ responses' = [q \in DOMAIN responses \cup {r} |->
           IF q = r THEN [is_complete |-> FALSE, answers |-> NoAnswers] ELSE responses[q]]

SubmitResponse(r, answers) ==
    /\ r \in DOMAIN responses /\ ~responses[r].is_complete
    /\ responses' = [responses EXCEPT ![r] = [is_complete |-> TRUE, answers |-> answers]]

-------------------------------------------------------------------------------
(* calculate_nps *)

Complete == {r \in DOMAIN responses : responses[r].is_complete}

\* The first answer, in the order of the keys, that is a number from low to 10.
FirstNumber(answers, low) ==
    LET in(k) == IsNumber(answers[k]) /\ answers[k].n \in low..10
        keys == {k \in DOMAIN answers : in(k)}
    IN  IF keys = {} THEN None ELSE answers[Min(keys)].n

Scored(low) ==
    {r \in Complete : FirstNumber(responses[r].answers, low) # None}
Between(low, high) ==
    Cardinality({r \in Scored(0) : FirstNumber(responses[r].answers, 0) \in low..high})

Percent_OfAll(part) == (100 * part) \div Cardinality(Complete)  \* mutant: of all complete responses
\* Of the responses that were counted; rounded down here, to a tenth in the code.
Percent(part) == (100 * part) \div Cardinality(Scored(0))

CalculateNps ==
    LET promoters == Between(9, 10)
        detractors == Between(0, 6)
    IN  [score |-> IF Scored(0) = {} THEN None ELSE Percent(promoters - detractors),
         promoters |-> promoters, passives |-> Between(7, 8), detractors |-> detractors,
         response_count |-> Cardinality(Scored(0))]

-------------------------------------------------------------------------------
(* calculate_average_rating: of a question, or of the first number of each response *)

Rated(q) ==
    IF q = None THEN Scored(1) ELSE {r \in Complete : IsNumber(responses[r].answers[q])}
RatingIn(r, q) ==
    IF q = None THEN FirstNumber(responses[r].answers, 1) ELSE responses[r].answers[q].n

CalculateRating(q) ==
    LET rating(r) == RatingIn(r, q)
        ratings == {rating(r) : r \in Rated(q)}
        total == MapThenSumSet(rating, Rated(q))
    IN  IF ratings = {}
        THEN [average |-> None, response_count |-> 0, distribution |-> [n \in {} |-> 0]]
        ELSE [average |-> total \div Cardinality(Rated(q)),
              min |-> Min(ratings), max |-> Max(ratings),
              response_count |-> Cardinality(Rated(q)),
              distribution |-> [n \in ratings |-> Cardinality({r \in Rated(q) : rating(r) = n})]]

\* get_survey_stats
CompletionPercent ==
    IF DOMAIN responses = {} THEN 0
    ELSE (100 * Cardinality(Complete)) \div Cardinality(DOMAIN responses)

-------------------------------------------------------------------------------
Init == responses = [r \in {} |-> None]

Next ==
    \E r \in Response :
        StartResponse(r) \/ \E answers \in Answers : SubmitResponse(r, answers)

Spec == Init /\ [][Next]_responses

-------------------------------------------------------------------------------
(* Properties *)

\* The rows have their column types.
TypeOK == DOMAIN responses \subseteq Response /\ \A r \in DOMAIN responses : responses[r] \in SurveyResponse

\* The figures are those of some responses, each counted once: the score lies between
\* -100 and 100 and its three groups make up its count, the average between the extremes,
\* and the distribution is of as many ratings as the average.
FiguresAddUp ==
    LET nps == CalculateNps
    IN  /\ nps.promoters + nps.passives + nps.detractors = nps.response_count
        /\ nps.response_count <= Cardinality(Complete)
        /\ nps.score # None => nps.score \in -100..100
        /\ CompletionPercent \in 0..100
        /\ \A q \in DOMAIN Questions \cup {None} :
               LET rating == CalculateRating(q)
               IN  /\ rating.average # None => rating.average \in rating.min..rating.max
                   /\ SumFunction(rating.distribution) = rating.response_count

\* Another promoter never lowers the score, another detractor never raises it, and a
\* response without a number leaves it as it is.
PromotersRaise ==
    \A r \in Response :
        LET before == CalculateNps.score
            after == CalculateNps'.score
            first == FirstNumber(responses'[r].answers, 0)
        IN  r \in Complete' \ Complete /\ before # None =>
                /\ first # None /\ first >= 9 => after >= before
                /\ first # None /\ first <= 6 => after <= before
                /\ first = None => after = before
=================================================================================
