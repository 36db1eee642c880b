------------------------------- MODULE Onboarding -------------------------------
(***************************************************************************)
(* Onboarding of clients, step by step through a template:                    *)
(* services/onboarding_service.py over dao/onboarding.py, one call of the     *)
(* service per transaction.  The handlers fail around it: starting reads a    *)
(* lazy relation and finishing builds a response from None.                   *)
(***************************************************************************)
EXTENDS Requests, Sequences

CONSTANTS
    Person,         \* clients
    StepLists       \* lists of steps a template can have, [id, is_required, can_skip]

-------------------------------------------------------------------------------
(* Tables; an onboarding is named by <<user, template>>, which is unique *)

OnboardingStatus == {"not_started", "in_progress", "completed", "abandoned", "skipped"}

Ids(steps) == {steps[k].id : k \in DOMAIN steps}
AllIds == UNION {Ids(steps) : steps \in StepLists}

OnboardingTemplate == [steps : StepLists, is_active : BOOLEAN, is_default : BOOLEAN]
ClientOnboarding ==
    [status : OnboardingStatus, current_step : AllIds \cup {None},
     completed_steps : SUBSET AllIds, skipped_steps : SUBSET AllIds, progress : 0..100]

Reminder == [onboarding : Person \X (1..MaxId), recent : BOOLEAN]

-------------------------------------------------------------------------------
(* Templates *)

\* _validate_steps: at least one, ids distinct
ValidSteps(steps) == steps # <<>> /\ Cardinality(Ids(steps)) = Len(steps)

UnsetDefaults_None == NoRows            \* mutant: the other default stays
\* set_default: one UPDATE for the organization
UnsetDefaults ==
    Each({t \in DOMAIN db.templates : db.templates[t].is_default}, Update([is_default |-> FALSE]))

CreateTemplate(w, steps, active, default) ==
    /\ ValidSteps(steps)
    /\ HoldNew(w, [templates |->
           Both(IF default THEN UnsetDefaults ELSE NoRows,
                [t \in {seq} |-> Insert([steps |-> steps, is_active |-> active,
                                         is_default |-> default])])])

\* New fields; the steps of an onboarding under way change under it.
UpdateTemplate(w, t, cols) ==
    /\ t \in DOMAIN db.templates
    /\ Hold(w, [templates |-> [i \in {t} |-> Assign(db.templates[t], cols)]])

MakeDefault(w, t) ==
    /\ t \in DOMAIN db.templates /\ ~db.templates[t].is_default
    /\ Hold(w, [templates |-> Both(UnsetDefaults, [i \in {t} |-> Update([is_default |-> TRUE])])])

Active_None(t) == {}                \* mutant: onboardings under way do not count
Active(t) == {o \in DOMAIN db.onboardings :
                 o[2] = t /\ db.onboardings[o].status \in {"not_started", "in_progress"}}

DeleteTemplate(w, t) ==
    /\ t \in DOMAIN db.templates /\ Active(t) = {}
    /\ Hold(w, [templates |-> [i \in {t} |-> Delete]])

-------------------------------------------------------------------------------
(* Steps *)

FirstStep(t) == db.templates[t].steps[1].id

\* get_default_template raises when it finds two.
Defaults == {t \in DOMAIN db.templates : db.templates[t].is_active /\ db.templates[t].is_default}

NewOnboarding(t) ==
    [status |-> "in_progress", current_step |-> FirstStep(t),
     completed_steps |-> {}, skipped_steps |-> {}, progress |-> 0]

\* With a template given or the default one; one that was started is returned.
StartOnboarding(w, p, t) ==
    /\ t \in DOMAIN db.templates /\ <<p, t>> \notin DOMAIN db.onboardings
    /\ Hold(w, [onboardings |-> [o \in {<<p, t>>} |-> Insert(NewOnboarding(t))]])

StartDefault(w, p) == \E t \in Defaults : Defaults = {t} /\ StartOnboarding(w, p, t)

Steps(o) == db.templates[o[2]].steps
Position(o, s) == CHOOSE k \in DOMAIN Steps(o) : Steps(o)[k].id = s
NextStep(o, s) ==
    IF Position(o, s) < Len(Steps(o)) THEN Steps(o)[Position(o, s) + 1].id ELSE None

\* The loaded list is appended to and assigned to itself, in which the ORM sees no
\* change; only an empty list is replaced by a new one, and written.
Appended(list, s) == IF list = {} THEN {s} ELSE list

\* calculate_progress, from the rows as they are after the flush
Progress(o, completed, skipped) ==
    LET required == {k \in DOMAIN Steps(o) : Steps(o)[k].is_required}
        done == {k \in required : Steps(o)[k].id \in completed \cup skipped}
    IN  IF required = {} THEN (IF completed = {} THEN 0 ELSE 100)
        ELSE (100 * Cardinality(done)) \div Cardinality(required)

\* update_progress: 100 once the onboarding is complete
Stored(o, s, completed, skipped) ==
    IF NextStep(o, s) = None THEN 100 ELSE Progress(o, completed, skipped)

\* A step is recorded, the next one becomes current, and after the last the
\* onboarding is complete.
Advanced(o, s, completed, skipped) ==
    LET last == NextStep(o, s) = None
        row == db.onboardings[o]
    IN  [onboardings |-> [i \in {o} |-> Assign(row,
            [completed_steps |-> completed, skipped_steps |-> skipped,
             current_step |-> NextStep(o, s),
             progress |-> Stored(o, s, completed, skipped),
             status |-> IF last THEN "completed" ELSE row.status])]]

InOrder(row, s) ==
    row.current_step \notin {None, s} => s \in row.completed_steps

CompleteStep(w, o, s) ==
    /\ o \in DOMAIN db.onboardings /\ s \in Ids(Steps(o))
    /\ LET row == db.onboardings[o]
       IN  /\ InOrder(row, s)
           /\ Hold(w, Advanced(o, s, Appended(row.completed_steps, s), row.skipped_steps))

Skippable(o, s) ==
    LET step == Steps(o)[Position(o, s)] IN ~step.is_required \/ step.can_skip

Skipped(o, s) ==
    LET row == db.onboardings[o]
    IN  Advanced(o, s, row.completed_steps, Appended(row.skipped_steps, s))

\* Any optional step, current or not.
SkipStep(w, o, s) ==
    /\ o \in DOMAIN db.onboardings /\ s \in Ids(Steps(o)) /\ Skippable(o, s)
    /\ Hold(w, Skipped(o, s))

ResetOnboarding(w, o) ==
    /\ o \in DOMAIN db.onboardings
    /\ Hold(w, [onboardings |-> [i \in {o} |->
           Assign(db.onboardings[o], NewOnboarding(o[2]))]])

\* Reminders name an onboarding and a day; send_reminder refuses a second one.
RecentReminder(o) == {r \in DOMAIN db.reminders : db.reminders[r] = [onboarding |-> o, recent |-> TRUE]}

SendReminder(w, o) ==
    /\ o \in DOMAIN db.onboardings /\ RecentReminder(o) = {}
    /\ HoldNew(w, [reminders |-> [r \in {seq} |-> Insert([onboarding |-> o, recent |-> TRUE])]])

\* A day passes.
Age(r) ==
    /\ r \in DOMAIN db.reminders /\ db.reminders[r].recent
    /\ db' = [db EXCEPT !.reminders[r].recent = FALSE]
    /\ UNCHANGED <<seq, req>>

-------------------------------------------------------------------------------
\* The onboardings of a template go with it, and their reminders (ON DELETE CASCADE).
CommitOnboarding(w) ==
    /\ ~Free(w)
    /\ LET all == AfterAll(req[w])
           onboardings == {o \in DOMAIN all.onboardings : o[2] \in DOMAIN all.templates}
           reminders == {r \in DOMAIN all.reminders : all.reminders[r].onboarding \in onboardings}
       IN  /\ DOMAIN all.onboardings \ onboardings \subseteq DOMAIN db.onboardings
           /\ DOMAIN all.reminders \ reminders \subseteq DOMAIN db.reminders
           /\ CommitAs(w, [all EXCEPT
                  !.onboardings = [o \in onboardings |-> all.onboardings[o]],
                  !.reminders = [r \in reminders |-> all.reminders[r]]])

Init == Start({"templates", "onboardings", "reminders"})

Design(w) ==
    \/ \E steps \in StepLists, b, d \in BOOLEAN : CreateTemplate(w, steps, b, d)
    \/ \E t \in 1..MaxId :
           \/ \E steps \in StepLists : ValidSteps(steps) /\ UpdateTemplate(w, t, [steps |-> steps])
           \/ \E b \in BOOLEAN : UpdateTemplate(w, t, [is_active |-> b])
           \/ UpdateTemplate(w, t, [is_default |-> FALSE])
           \/ MakeDefault(w, t) \/ DeleteTemplate(w, t)

Advance(w, o) ==
    \/ \E s \in AllIds : CompleteStep(w, o, s) \/ SkipStep(w, o, s)
    \/ ResetOnboarding(w, o) \/ SendReminder(w, o)

Next ==
    \/ \E w \in Worker :
           \/ Design(w)
           \/ \E p \in Person :
                  \/ StartDefault(w, p)
                  \/ \E t \in 1..MaxId : StartOnboarding(w, p, t) \/ Advance(w, <<p, t>>)
           \/ CommitOnboarding(w) \/ Rollback(w)
    \/ \E r \in 1..MaxId : Age(r)

Spec == Init /\ [][Next]_dbvars

-------------------------------------------------------------------------------
(* Properties *)

\* Rows have their column types; onboardings have their template, reminders theirs.
TypeOK ==
    /\ \A t \in DOMAIN db.templates : t \in 1..MaxId /\ db.templates[t] \in OnboardingTemplate
    /\ \A o \in DOMAIN db.onboardings :
           /\ o[1] \in Person /\ o[2] \in DOMAIN db.templates
           /\ db.onboardings[o] \in ClientOnboarding
    /\ \A r \in DOMAIN db.reminders :
           db.reminders[r] \in Reminder /\ db.reminders[r].onboarding \in DOMAIN db.onboardings

\* An organization has at most one default template: with two, get_default_template
\* raises and no client can start (set_default).
OneDefault ==
    \A t, u \in DOMAIN db.templates :
        db.templates[t].is_default /\ db.templates[u].is_default => t = u

\* An onboarding under way is never removed (delete_template), neither with its
\* template nor otherwise.
ActiveStep ==
    \A o \in DOMAIN db.onboardings :
        db.onboardings[o].status = "in_progress" => o \in DOMAIN db'.onboardings
ActiveKept == [][ActiveStep]_dbvars
=================================================================================
