# Formal model of the automation platform's backend

This directory is the verification development kept beside the FastAPI backend in `src/backend/app`: TLA+ modules
translated from its source, the TLC configurations that model-check them, and proofs checked by TLAPS, the TLA+
proof system. `PROJECT.json` lists the runs, the mutants that show each property can fail, the source lines of
every definition, the hazards and the theorems.

    tlc -workers 2 -config InvoicesSerial.cfg MCInvoices      # one run
    tlapm InvoicesProofs.tla                                   # the proofs of one module

1. [The system](#1-the-system)
2. [How the modules correspond to the code](#2-how-the-modules-correspond-to-the-code)
3. [The modules](#3-the-modules)
4. [Runs, bounds and fairness](#4-runs-bounds-and-fairness)
5. [What overlapping requests break](#5-what-overlapping-requests-break)
6. [Findings](#6-findings)
7. [What is proved](#7-what-is-proved)
8. [What is not modelled, and why](#8-what-is-not-modelled-and-why)
9. [Plan](#9-plan)

## 1. The system

A multi-tenant platform for an automation agency: organizations of clients and admins, projects and proposals,
invoices and subscriptions billed through Stripe, support tickets with SLA deadlines, workflows run by an external
n8n, and the usual supporting services. The backend is a FastAPI application (`main.py`) over PostgreSQL (async
SQLAlchemy) and Redis; the container starts four uvicorn processes, each with an APScheduler of its own.

A router (`api/`) checks the role, calls DAOs (`dao/`) or a service (`services/`), writes an audit entry
(`services/audit.py`) and returns a schema; `get_db` (`db/session.py`) commits when the handler returns and rolls
back when it raises. The components meet in the database only, in one of three ways: one handler changes the rows
of two components (sending a proposal moves its project), one component reads another's rows (an invoice is made
from a proposal, the SLA job reads tickets), or all of them write through the same session (the audit log).

| Component | State | Operations | Hard behaviour | What makes it correct |
|---|---|---|---|---|
| Invoices and Stripe payments | invoice rows, Checkout Sessions, events | edit, delete, send, cancel, pay manually, checkout, two webhook events | requests race between load and write; events are late, repeated, out of order | status agrees with balance; money recorded is money collected; an acknowledged payment closes its invoice |
| Invoice numbers | `invoice_number` | create | count-then-insert over a global unique index | numbers sequential and free; one invoice per proposal |
| Proposals and projects | rows, `previous_version_id`, totals, project status | create, edit, delete, send, view, approve, reject, revise, set project status, delete project | two rows in one transaction, row locks, cascading deletes | tree of revisions; project follows its proposal; totals match |
| Subscriptions | one row per organization, Stripe's subscriptions | checkout, cancel, reactivate, three events, portal, admin override | Stripe called before the commit; events reordered or lost | a paid plan exactly with a linked, live subscription, unless an administrator gave it |
| Audit log | audit rows, the transaction | log_event around every change | a failed insert poisons the transaction and is swallowed | no entry for what did not happen; a true answer |
| Tickets and comments | ticket and comment rows | create, status, assign, priority, comment, delete | stale transitions, partial-column writes | due dates still to be met match the priority, timestamps the status, the first response a comment |
| SLA job | `sla_*_sent_at`, schedulers | periodic sweep | one ticket's failure inside a loop; four schedulers | everybody late is told, once |
| SLA status | none of its own | status, late tickets, statistics | five rules for "late" | they agree as time passes |
| Accounts | users, organizations, one-use links, Google accounts | register, sign in with Google, link, unlink, verify, reset, administer | links and requests overlap | everybody keeps a way to sign in; the newest link only |
| Access tokens, OAuth state | Redis keys | issue, check, log out; store and use a state | whole seconds; a host's time zone; two commands on one key | logged out stays out; a state serves once |
| Rate limiter | counters in Redis, one shared limiter object | count, decide | the limit is read after an await | a path is held to its own limit |
| Surveys | surveys, responses, invitations | create, edit, open, start, save, submit, invite; scores | JSON merged in place; rounding | answered questions and answers stay; figures add up |
| Push subscriptions | rows by endpoint | subscribe, deliver, fail | failures and renewals overlap | active until the third failure |
| Time entries | entries, running timer | timer, edit, submit, approve, invoice | sums and rates | one timer; amounts match |
| Messages | conversations, participants, unread counts | send, read, join, leave | counters | unread is what arrived unread |
| Workflows and versions | environments, templates, instances, versions | create, delete; version, restore, prune | numbering under pruning | one current version |
| Documents | rows, S3 files, shares | upload, delete, share, revoke | S3 is not in the transaction | a file for every row |
| Announcements | rows, read marks | edit, publish, archive, delete, read | lifecycle guards | a published text stays |
| Reports | schedules, executions | schedule, run, complete, fail, clean up | deletion under a running execution | running executions stay; outcomes recorded |
| Onboarding | templates, step lists, progress | default, start, complete, skip, reset | defaults; removal of a template in use | one default; an onboarding under way stays |
| E-mail templates | templates, versions, sent log | create, restore, activate, send | version numbers | content is the version named |
| Activity feed | events, subscriptions | record, follow, page | page boundaries | pages cover the feed |
| Notification preferences | rows made on first use | read, set, decide | several implementations | what is shown is what decides |

`PROJECT.json` has the complete list under "components" and everything hard to test, at its line, under "hazards".

## 2. How the modules correspond to the code

**Requests.** Every request runs on a database session of its own. PostgreSQL runs at READ COMMITTED, no query takes
a row lock (`with_for_update` does not occur), and processes do not share memory, so two requests interleave freely
between a load and the write that depends on it. The ORM writes only the columns whose value changed on the loaded
object; `BaseDAO.update` is a core UPDATE of the columns it is given. A handler is therefore a *begin* action, which evaluates the code's
guards on the committed row and keeps the changed object in `req[w]`, and a *commit* action, which merges the
changed columns into whatever row is committed by then. A request that writes by more than one statement, or that
flushes (and so locks) a row before it goes on, has more steps (`FlushProposal`, `StripeCreatesSession`,
`CountInvoices`). Requests that decide nothing on what they read are single actions.

**Failures.** Every request can end in an abort instead of its commit: an exception, a lost connection, a killed
process, a row that has gone. What it told Stripe before stays told. An exception that the code swallows is
modelled as the code treats it: a webhook that fails is answered with 200, a failed audit entry poisons its
transaction (`AuditTrail`), a failed notice ends the ticket's checks (`SlaSweep`).

**Requests.tla** states this once for the components modelled later: `db` maps each table to its rows, `req[w]` holds
what a request will write (`Insert`, `Assign` with a column record, `Update`, `Delete`), `Commit` merges it into the
rows of that moment and fails where a row to insert exists, `Rollback` drops it. A component's module extends it,
names its tables and has one action per handler; a module whose commit also fires foreign keys
(`CommitWorkflows`, `CommitTicket`, `CommitOnboarding` and the like), or a unique column (`CommitUnique`), puts it in the place of `Commit`.

**Services whose constructor raises.** Six services call `UserDAO` with one argument
(`workflow_version_service.py:59`, `message_service.py:71`, `time_entry_service.py:64`, `activity_service.py:55`,
`document_service.py:62`, `announcement_service.py:62`), and several handlers call an audit method that does not exist
after the service has done its work. Their modules say so and model the service and its DAOs as they stand,
one call per transaction: it is what runs the day the constructor is repaired, and what the repository's unit tests run today.

**Stripe** is not in `src/`. Its actions are modelled from how the code uses it, marked external in the map, and as
weak as possible: customers pay and change plans when they like; events are delivered at least once until
acknowledged, and in any order unless a run's constant says otherwise.

**Data.** Amounts are small numbers, plans, priorities and ids model values. A date is kept only as what the code
asks of it: set or not, passed or not, or computed from which priority.

**`raced`.** Several of the code's promises hold only while requests do not overlap. The MC modules add the history
variable `raced`, true once two requests have been in progress at the same time, and state such a promise as
`raced \/ P`. The runs still explore every overlap, and the properties *without* `raced` are the ones that survive
all of them. Section 5 says what breaks in the others.

**Names.** Actions have the handler's name in camel case (`record_payment` is `RecordPayment`). A definition with an
underscore (`CanCancel_PaidToo`) is a mutant: a plausible bug, which takes the place of the definition after it
when the property's mutant is run, and which nothing else uses. `PROJECT.json` lists one mutant per property; a property of several
parts (those of `workspace`) has a mutant for each part all the same, and TLC finds each of them:
`HistoryKept` falls to `Editable_Active`, `Deletable_Active`, `Active_None`, `MayStart_Again`, `Answered_Replaced`, `Old_Running` and `Orphaned_Cascade`,
`StampsMatch` to `Stamps_NotClosed`, `Reprioritised_ResolutionKept` and `StatusChange_Kept`, `TicketWorkflowUnlessRaced` to
`Stamps_NotCleared` and `AddComment_Always`, `OneAtATime` to `UnsetDefaults_None` and `UnsetCurrent_Kept`, `FiguresMatch` to
`UpdateEntry_SameAmount`, `CopiesMatch` to `HardDelete_Soft`, `ReadsAgree` to `Allowed_Email`, `ShouldNotify_Frequency`,
`GetOverdueProjects_Any` and `BreachedTickets_Open`, `ActiveUntilThirdUnlessRaced` to `Renewed_Inactive`, `NewestLinkUnlessRaced` to
`Consumable_Used` and `MoneyMatchesStatus` to `MarkedPaid_NoDate`.

**Assumption on start-up.** As it stands `app.main` does not import: `api/onboarding.py:22` and `api/surveys.py:22`
import `require_roles`, which `core/deps.py` does not define; `api/email_templates.py:25`,
`services/email_template_management_service.py:30`, `api/integrations.py:20` and `services/integration_service.py:31` import names that
`core/exceptions.py` and `core/deps.py` lack. The models describe the backend with those imports repaired or the
four routers left out; none of the modelled code depends on them.

## 3. The modules

### Invoices.tla, InvoiceLifecycle.tla
`inv` is the table, `req` the requests in progress, `sess` the Checkout Sessions Stripe keeps, `acked` the events
answered with 200; `cash` is a ghost, the manual payments accepted. The actions are the endpoints of
`api/invoices.py`, `POST /payments/checkout` of the same router and the events `checkout.session.completed` and `charge.refunded` of
its webhook. Every UPDATE names its columns, which is what the races depend on. `InvoiceLifecycle` is the abstract specification: the documented status
diagram, a total frozen once the invoice leaves DRAFT, money only ever added to a payable invoice; the refinement
maps a row to its status, total and paid amount.

Left out because no handler calls it: `mark_overdue`, `update_overdue`, `create_from_proposal`,
`create_refund`, `update_line_items`. OVERDUE is kept in the guards that mention it. An edit that changes amounts
is rolled back by its own audit entry (Decimals in a JSON column), so only edits of notes commit (`SavedByAudit`).
Card payments settle at once.

### InvoiceNumbers.tla
The three SELECT/INSERT steps of `POST /invoices`: the proposal check, the count, the INSERT that the unique index
may refuse. The year is fixed; within one year the number is its sequence.

### Proposals.tla, ProposalWorkflow.tla
Proposal and project rows; sending and approving flush the proposal, which locks its row, and then load and change the
project. `RevisionTree` is about the self-reference; `ProposalWorkflow` states what a commit may do to a proposal, the one it supersedes and
the project *in one step*. Totals are computed as the code does, in whole numbers; float rounding is not modelled. EXPIRED
has no writer. `OtherStage` holds the project statuses no code tells apart.

### Subscriptions.tla
One organization's row and its Stripe subscriptions. Cancelling and reactivating call Stripe before they UPDATE the
row by id; the webhook looks the row up by organization or by linked id and UPDATEs it by id. `Calm` says that events come in order,
once, and are not dropped by a failing handler; `Provisioned` that the row was there before the first checkout. TRIALING is
treated as ACTIVE, INCOMPLETE and PAUSED as UNPAID: no code tells them apart. The plan change at Stripe
(`subscription_service.py:898`) is in the model as what the webhook does with it, nothing.

`AdminUpdateSubscription` is the administrator's override ("Grant free upgrades to partners"): it writes plan and status as given and leaves
the link to Stripe alone, so a free upgrade is a paid plan without a subscription, and a downgraded customer keeps paying at Stripe. `MCSubscriptions` keeps in
`overridden` the columns whose value is an administrator's: the override adds to it, a webhook that writes the column takes it out.
`PaidUnlessOverridden` and `MirrorsUnlessRaced` excuse exactly these columns, and `LinkedIsLive` and `EndedIsDowngraded` excuse none.

### AuditTrail.tla
A transaction that changes a row and audits it, for any number of requests. `log_event` swallows the exception of a
failed INSERT, after which the session refuses every statement: the change is lost with its entry (section 5). The properties are what must hold whatever becomes of the change: the log has no entry for a
change that is not in the database, and the client is told what happened. The second takes the exit code of `get_db`, and so the commit, to run before the response is sent. That depends
on the version of FastAPI, which `pyproject.toml` only bounds from below: where the response goes first, a commit that fails comes after a success was told.

### Tickets.tla
One ticket under concurrent requests. Due dates are told by the priority they were computed from,
`first_response_at` by the request that stamped it. `create_ticket` reads `current_user.organization` for its notice;
it is taken as loaded.

### SlaSweep.tla
The sweep of every server over the active tickets of an organization: the rows are read at its start, the checks run ticket by ticket, and
each failure is caught per ticket. Every notice raises after its e-mails, because `AuditService` has no method
`log`, so the `sent_at` columns stay null and are not modelled. A notice needs the names of creator and assignee, which an async session
refuses to load lazily: `CreatorNamed` and `AssigneeNamed` say when the session happens to hold them. The two liveness properties say who is told all the same: a late response
always, a late resolution of a ticket that has been answered. Of one that has not, nobody is told (section 5), and no property says so. SLA hours are scaled down, keeping the order
of the thresholds (`DueAssumption`).

### SlaStatus.tla
What is read of tickets' deadlines while time passes: `get_sla_status`, the list and the statistics of `dao/ticket.py`, the two properties of the
row. Each states "late" in its own words; `StatusAgrees` says that they mean the same. `GET /sla/at-risk` is not an action: it always raises (section 5).

### TicketComments.tla
Comments, internal notes and attachments, and the first response that the first comment of an admin stamps. Comments are created and deleted only:
`update_comment` raises on every call. Attachments have a DAO and no caller; they are requests of their own.

### Accounts.tla, Sessions.tla, RateLimiter.tla
`Accounts` has the tables of users, organizations, e-mailed links and Google accounts, with every handler of
`api/auth.py`, `api/oauth.py`, `api/admin.py` and `api/organizations.py` that writes them. A user is named by the e-mail address. `Sessions` counts
fractions of a second, because a token's expiry is cut to whole seconds and so is the life of the key that revokes it. That life is computed with
`utcnow().timestamp()`, which reads UTC as local time, so the host's offset from UTC (`zone`) is part of the model; it also holds the
one-use state of a Google sign-in, whose check and deletion are two commands. `RateLimiter` follows a request
through the middleware: it stores its own path's limit in the shared limiter, waits for Redis, and compares with the limit found there *then*.
`MCAccounts` composes the three with a variable `part` that no step changes, one component to a behaviour, and `raced`.

### Surveys.tla, SurveyResults.tla
`Surveys` is the life of a survey and its responses: opening, closing, starting (by people and anonymously), saving, submitting,
inviting. Answers are kept as which questions have one, and a JSON column that is changed in place counts as unchanged, as the ORM
treats it. `SurveyResults` is the arithmetic over responses: the Net Promoter Score, the average rating, the completion rate, with
the code's rounding; the limit of 10000 responses that the score is computed from (`dao/survey.py:407`) is left out. `FirstNumber` takes the answers in the order of their keys, which is the order a JSONB column keeps and not that of the questions; a yes or no is a number to the code, because Python's True is the integer 1.

### Push.tla, TimeEntries.tla, Messages.tla, Workflows.tla, Documents.tla, Announcements.tla, Reports.tla, Onboarding.tla, EmailTemplates.tla, ActivityFeed.tla, NotificationPreferences.tla, Projects.tla
One module per component, each with the component's tables, an action per handler or service method that writes them, the foreign keys its
commits fire, and the reads its properties compare. The comment at the head of each module says how far the
handlers reach the code, and the component's note in `PROJECT.json` what is left out. `Documents` has the files of S3 beside the tables: they
change at once, not at the commit. `ActivityFeed` reads pages with the code's "one more than the limit". `Projects` holds the fields, lists and statistics of projects; the races of
their status are in `Proposals`.

### MCWorkspace.tla
Composes these components and `AuditTrail`, `Tickets`, `TicketComments` for TLC. They share `db`, `seq` and `req`; a behaviour is one of the component
`part`, because the components meet in the database only where one reads or changes another's rows, and those places are inside the
modules `Proposals` and `InvoiceNumbers`. `disturbed` is the history variable: two requests have overlapped, or, for documents, one was rolled back.
A property of the run is a conjunction over the components that share the question, each conjunct defined in its component's module.

## 4. Runs, bounds and fairness

| Run | Instance | What it shows |
|---|---|---|
| `invoices_serial` | 1 invoice, 2 sessions, 1 worker, amounts {1,2} | one request at a time: status and balance agree, the ledger matches, `InvoiceLifecycle` is implemented, acknowledged payments close, retried deliveries settle |
| `invoices_races` | 2 invoices, 1 session, 2 workers | what races cannot break: clean drafts, dated settlements, PaymentIntents that are real |
| `numbers` | 3 invoices, 2 organizations, 2 proposals, 2 workers | numbers are 1..n until a draft is deleted; one invoice per proposal unless raced |
| `numbers_after_delete` | 3 invoices | violation: the next number is taken after a deletion |
| `proposals` | 2 proposals, 1 project, 2 workers | the tree of revisions survives every race; workflow, supersession and completion unless raced |
| `proposal_revised_totals` | 2 proposals, 1 worker | violation: a revision keeps a stale total |
| `subscriptions` | 2 subscriptions, 2 workers, 3 events, calm | the linked one is live; mirrors unless raced, but for a status an administrator set; ended ones are downgraded |
| `subscriptions_races` | as above, reordered, repeated and failing events | paid plan exactly when linked, unless an administrator gave the plan |
| `sla` | 2 tickets, 1 server, 6 hours | nobody who is late is forgotten |
| `sla_duplicates` | 1 ticket, 3 hours | violation: the same notice again and again |
| `accounts` | see `Accounts.cfg`: 2 workers | a login method remains; links, states, limits unless raced; logged out stays out, west of UTC excepted |
| `workspace` | 18 components, see below | stamps, figures, copies and lists agree with their rows; history is kept; true audit entries and answers |

`workspace` instances: tickets with 3 workers and 2 priorities; comments, reports and push subscriptions with 2 workers; the audit log with 2
requests; the others with one request at a time, over two rows of the tables that matter (one survey with three responses, one document,
one announcement, a workflow with up to 4 versions of which 2 are kept, an onboarding of two steps).
`survey_results` has two responses (one per person) to two questions with the numbers 3, 8, 10 and 12: a detractor, a passive, a promoter and one beyond
every scale. `sla_status` lets 13 units pass, one more than the last deadline.

*Why these bounds are enough.* A race of this code is between one request and the commits that fall between its two
steps; two workers give every pair, three (tickets) a commit between two others. The components with one request at a time are checked for what a *sequence* of calls can do (numbering under pruning, defaults,
locked rows, page boundaries, rounding); of most of them no handler reaches the service yet, and what an overlap would break is in
section 5. `MaxMinutes` is 2 so that a timer can add to an entry that was billed with one. Two sessions allow a replaced
checkout, two subscriptions a resubscription. Amounts {1,2} distinguish paying in part, exactly and too much. Three
invoices leave a gap when the middle one is deleted; two proposals make a revision, and `RevisionTree` relates only
neighbours. Three events are a creation, a change and an end. What an administrator
sets, any plan and any status in the code and in the theorems, is a few in the runs (`AdminPlan`, `AdminStatus`): a status of a live and of an ended subscription where rows are compared with Stripe, a
paid and the free plan where plans are compared with links. `Offset` is one second: the host is
east of UTC, west of it or neither, by more than a fraction. `MaxPaid`, `MaxEvents`,
`MaxTime`, `MaxNotices`, `MaxFailures`, `MaxMinutes`, `MaxHours`, `MaxVersion`, `MaxConversations`, `MaxSurveys` and `MaxId` are the only artificial limits; each is a guard of one
named action or of the requests that use up an id. The `sla` run uses one server because
servers share nothing but the rows they read; with two the state space grows by their product and no action gains a new outcome.

`CHECK_DEADLOCK FALSE` is set where ids or events are used up: the real system goes on with new ones.

`TypeOK` of `Proposals` and of `SlaSweep` is not checked by a run: it is proved (section 7).

*Fairness.* `FairSpec` of `Invoices`: every request ends (a handler has no unbounded wait; the server cancels what it
cannot finish), and Stripe redelivers an event until it is acknowledged, so a delivery that is enabled again and again is eventually made and
eventually commits (strong fairness: other requests may occupy the worker in between). No admin action and no customer is
assumed to do anything. `Subscriptions` assumes the same of its webhook. `SlaSweep` assumes that a scheduler goes on running its job, which APScheduler's interval trigger does whatever
the last run raised. `LateResponseIsTold` and `LateResolutionIsTold` need weak fairness of the job as a whole only.

## 5. What overlapping requests break

No test of the repository runs two requests at once. The following were met while modelling: they are why the
properties named are stated with `raced`, or checked with one worker.

*Invoices.* Cancelling overlaps with a payment and leaves a paid invoice CANCELLED (`dao/invoice.py:502`). A draft is
deleted after it was sent (`api/invoices.py:563`). Of two manual payments one is lost, both were answered with 200
(`dao/invoice.py:416`). The webhook's audit entry says "paid" although `mark_paid` refused (`api/invoices.py:1013`). Without any overlap: a
payment on a Checkout Session that a later checkout replaced is acknowledged and never recorded (`api/invoices.py:999`),
which is why `CurrentPaymentSettles` speaks of the current session, and a checkout for a partially paid invoice charges the whole total
(`stripe_service.py:360`).

*Numbers.* Two requests for one proposal create two invoices, after which the lookup of that proposal's invoice raises
(`api/invoices.py:157`). Numbers are counted per organization but unique over the table, so the first number of a
second organization is always refused (`models/invoice.py:372`).

*Proposals.* Approve and reject both succeed and the later commit wins (`dao/proposal.py:366`); a proposal is
approved after it was superseded (`:406`); two edits leave a total of neither (`api/proposals.py:512`); `completed_at` stays on a
reopened project (`dao/project.py:300`).

*Subscriptions.* An immediate cancellation whose event is handled first marks the free row canceled
(`dao/subscription.py:316`); linking keeps an old `cancel_at_period_end` (`:271`); two checkouts are both completed and
both billed (`subscription_service.py:410`); a created event delivered after the deleted one links a dead subscription (`:841`); a created event for an
organization without a row is dropped (`dao/subscription.py:268`).

*Tickets.* A status change is checked against a status that has changed since (`dao/ticket.py:414`); a second answer overwrites the first
response time (`:499`); changing the priority moves the response deadline of a ticket already answered (`:333`, against
`sla_service.py:492`).

*Accounts.* Two requests consume one e-mailed link, since `used_at` is read and written without a lock (`dao/verification_token.py:246`); an older
link is consumed while a newer one is being sent. Two callbacks with one OAuth state both pass between `exists` and `delete`
(`services/oauth_service.py:620`). A request for one path is held to the limit of another that arrived while it waited for Redis
(`middleware/rate_limiter.py:260`). What survives every overlap: nobody loses the last way to sign in.

*Push subscriptions.* Failures recorded by overlapping deliveries count once, or past three.

*Workflow versions.* A pruning that removes the version whose number a creation has just read lets two versions be current
(`dao/workflow_version.py:100`). *Announcements.* An edit that loaded a draft is saved after it was published.
*Documents.* A hard delete removes the file first (`services/document_service.py:382`): any later failure rolls the row back and leaves it without its file.

### Noticed without any overlap

The modules say where the code stops short of its own words; each of these is modelled as the code has it.

- An update of an e-mail template stores the version number of its creation again and is refused (`api/email_templates.py:316`
  "Creates a new version"): `EmailTemplates!Committable` fails.
- Answers that are submitted after others were saved are merged into the loaded dictionary, which the ORM takes for unchanged: they are lost
  (`dao/survey.py:374`, "Allow partial saves"), and the response is complete without them: `Surveys!CompleteIsAnswered` fails. The same happens to `completed_steps` of an onboarding
  (`dao/onboarding.py:359`).
- A timer starts on an entry of any status, so stopping it changes the minutes and the amount of an entry already invoiced: `TimeEntries!InvoicedIsFinal` fails.
- `DELETE .../comments/{id}` promises "author or ADMIN" (`api/tickets.py:1067`), but the DAO is not told that the caller is an admin.
- `GET /sla/at-risk` hands over an argument that does not exist (`services/sla_service.py:393`) and always raises. At the due instant
  `calculate_time_remaining` says BREACHED while `is_breached` is false.
- When the INSERT of an audit entry fails, `log_event` returns None, so that "audit logging should never break business logic" (`services/audit.py:145`; also `:41`
  and `:118`); but it failed in the request's own transaction, which takes the change with it, and an answer that reads the row is a 500.
- The SLA job says that it checks the resolution of every active ticket (`services/sla_background_service.py:10`, `:110`, `:145`). The notice of a late or nearly late response
  always raises, which ends the checks of its ticket: while a ticket is unanswered and its response late, nobody is told of its late resolution.
- "WAITING: ... SLA timer paused" (`models/ticket.py:60`, `api/tickets.py:681`): nothing pauses it. A waiting ticket grows late like any other.
- On a host west of UTC, `datetime.utcnow().timestamp()` (`core/auth.py:275`) is hours ahead of the clock: the key that revokes a token goes hours before the token does, which is then
  accepted again, and in the token's last hours a logout fails, because Redis takes no key with a life of 0. `LoggedOutStaysOut` is about the other hosts. Containers keep UTC unless told
  otherwise; the README of the backend also describes running on the host.
- An administrator's change of plan leaves the link to Stripe alone (`services/subscription_service.py:948`): until a webhook writes the plan again, a plan may be paid without a subscription, or free with one that is billed.
- A cancelled project past its due date is overdue to its own property and not to `get_overdue_projects`. An update of a project that sets a date is rolled back by
  its audit entry (a date in a JSON column).
- A user without subscriptions sees every event in `/feed/my` (`api/activity.py:149`).
- `metadata`, an attribute of the announcement and activity models (`models/announcement.py:160`, `models/activity.py:155`), is a name that SQLAlchemy
  reserves, so `app.models` does not import with them.
- `process_scheduled_announcements`, `expire_old_announcements`, `upsert_score`, the `check_can_add_*` limits and the clean-ups of tokens and of push
  subscriptions have no caller.

## 6. Findings

Three violation runs, each a sentence of the repository that the code does not keep without any race:
`numbers_after_delete` (invoice numbers are not unique after a deletion), `proposal_revised_totals` (a revision that
changes a percentage keeps the old total) and `sla_duplicates` (the guard against duplicate notices is never set).

## 7. What is proved

40 theorems, in eight modules, for every value of the constants: for any number of rows, users, organizations and racing
requests. (The theorems about the components of `MCWorkspace` are about its instances: any users, people, clients and requests, and the
ranges of ids and the small sets that `MCWorkspace` names in its `INSTANCE`s, section 3.) "One at a time" below is what the theorem states: that there is one worker (`OneAtATime` of `InvoicesProofs`),
or that no two requests have overlapped so far (`raced`, `disturbed`), or membership in `Alone`.

Almost none of the properties is inductive, and for one reason: a handler loads, decides, and commits later what it decided. Each
proof therefore says two things besides its property: what every request *in progress* is going to write, and which part of what it read is
still so when it commits. A theorem about any overlap may use only what no other request can take back; one about
requests one at a time may use all of it.

### Invoices (`InvoicesProofs`)

- `TypeCorrect` (`TypeOK`). The lemmas `MergeType`, `MergeColumns` and `RowOpsType` say once what a merge and each DAO
  update do to a row; each action cites them.
- `IntentAlwaysReal` (`IntentIsReal`), whatever races. The webhook writes the PaymentIntent of a session it found by the *stored* session
  id, at a commit after its load. `IntentInv` adds `SessionIsOwn` (a stored session was made for this invoice),
  `PendingCheckout` (a request about to store a session holds one made for its invoice, that no other request holds) and
  `PendingIntent` (a request about to store an intent holds a settled session of its invoice).
- `MoneyAlwaysMatches` (`MoneyMatchesStatus`), whatever races. `PendingMoney`: no request writes DRAFT, a settled
  status comes with `paid_at` and money goes to what was sent; with `Onward` (a row leaves "absent" and DRAFT for good)
  this survives the commits of others.
- `SerialBalance`, `SerialLedger`, `SerialAcknowledged`: `StatusMatchesBalance`, `LedgerMatches` and `AckedIsClosed` with one worker; two
  break all three (section 5). `SerialInv` says that what a request loaded and decided is still so (`LoadedIsCurrent`);
  `CommitHandles` then reads off what each commit makes of a row, and the three follow from it with `IntentIsSettled` and
  `AckedIsSettled`.
- `SerialLifecycle`: with one worker `Invoices` implements `InvoiceLifecycle`: initial states and every step, under the mapping of section 3.
  Needs `PayableOwes`: an invoice that can be sent or paid owes something, so that paying in full is a step of the diagram.

### Numbers (`InvoiceNumbersProofs`)

- `TypeCorrect` and `NumbersHaveNoGaps` (`NoGaps`). A request inserts a number it counted some
  commits ago; `CountedIsNear` says that this number is in use by now or is the next one, so that the
  unique index lets only the next one in. It holds because the count of an organization's invoices never exceeds the count of the
  table (`PartIsSmaller`) and, before a deletion, the table only grows.
- `OneInvoice` (`OneInvoiceUnlessRaced`): the handler's check of the proposal is still true when it inserts (`StillChecked`), as long as
  nothing has overlapped.

### Proposals (`ProposalsProofs`)

- `TypeCorrect`, and `RevisionsFormATree` (`RevisionTree`), whatever races. `Promise` is what stays true of a request and its row
  under the writes of others: it turns nothing into a draft, and the revision it holds has the next version number.
  `Held` says that a flushed request has locked its row, so `LockedStay`: the row and its project cannot go before its commit; `Evolves` says what any step
  may do to a row.
- `Superseded`, `Completed` (`SupersededUnlessRaced`, `CompletedUnlessRaced`) and `WorkflowFollowed` (`WorkflowUnlessRaced`, the refinement of
  `ProposalWorkflow`), one at a time: `Unraced` adds that what the request decided on its proposal (`DecidedStill`) and its project
  (`ProjectStill`) is still right, but for a validity that may have passed meanwhile.

### Subscriptions (`SubscriptionsProofs`)

- `TypeCorrect` and `PaidWhenLinked` (`PaidUnlessOverridden`), for every order, repetition and loss of
  events and whatever administrators set. `MetaIsPaid`: every event, waiting or held by a request, carries a
  paid plan and, unless it reports an end, a live state; linking copies both into the row, and a webhook that writes the plan of a row an administrator had changed
  makes it right again (`CommitPaid`).
- `LinkedLive` (`LinkedIsLive`), events in order and none lost, whatever races: `CalmInv` says that the newest
  event of a subscription carries its present state, and that the end of one that is linked, or still to be, is told later (`EndIsTold`, `EndIsToldLater`).
- `Mirrors` (`MirrorsUnlessRaced`), one request at a time as well: `MirrorInv` adds that with nothing left to be told the row says what Stripe says, and that what
  a request in progress asked of Stripe is still to be told (`CallIsTold`).

### SLA job (`SlaSweepProofs`)

- `TypeCorrect`, for any interleaving of sweeps, requests and failing sends: `Typed` adds what a running sweep holds. What the job is for is liveness, which stays with TLC.

### Accounts (`AccountsProofs`)

- `TypeCorrect` (`TypeOK`, with the references between the tables) and `LoginMethod` (`HasLoginMethod`), whatever overlaps. `HeldInv` says of every write that
  waits for a commit that it has the type of its table, refers to rows that exist or come with it, takes no user's last way to sign in (`WritesKeepLogin`), and inserts
  only ids that no other request was given (`FreshIds`). `Grown`: users and tokens that exist stay, so the references stay good.
- `NewestLink` (`NewestLinkUnlessRaced`), one at a time: an unused reset link is the newest of its user (`UnusedIsNewest`), and a request that sends one uses
  up the others in the same commit (`LinksKept`).
- `LoggedOut` (`LoggedOutStaysOut`), for any life of a token and any resolution of the clock, on a host that keeps UTC or is east of it. `KeyOutlivesToken` is about any host: the key in Redis
  goes less than a second before the token does, plus what the host is ahead of UTC, because its life is the token's rounded down to seconds.
- `StateOnce` (`StateUsedOnceUnlessRaced`): with one callback at a time a state that let one in is gone, and none has found it (`OneCallback`).
- `OwnLimit` (`OwnLimitUnlessMixed`): until requests for two paths overlap, the limiter they share holds the limit of the path of each (`OwnConfig`).

### Audit log (`WorkspaceProofs`)

- `AuditTypes`, `TransactionsHold`, `TrueEntries` (`EntriesAreTrue`) and `RepliesAreTrue` (`ReplyIsTruth`), for any set of requests, all from one
  inductive invariant, `AuditInv`: types, what an open transaction contains at each step, and that a closed one was committed as a whole or
  answered with an error.

### The components over `Requests` (`WorkspaceProofs`, `WorkspaceSerialProofs`)

The first lemmas are about `Requests` and serve every component: what a table holds after a commit (`RowAfter`, `Updating`, `AssignedColumns`,
`NothingWritten`, `OneWritten`), and that rows of some kind stay of that kind when every write keeps it (`GoodRows`). A component is one value of `part`, which
never changes, so that each has its own inductive invariant.

- `ActiveUntilThird` (`ActiveUntilThirdUnlessRaced`), one at a time: the rows *and the rows that the request in progress will leave* are active exactly below three failures.
- `TicketWorkflow` (`TicketWorkflowUnlessRaced`). `TicketInv`, for any overlap, types the row and what each request holds of it; `FlowInv`, one
  at a time, says that the request decided on the row as it is.
- `StampsAgree` (`StampsMatch`), four invariants. For any overlap: `TicketInv`; `CommentInv` (an answer that waits for a commit brings the first response of its ticket with
  it, or finds it there, and nobody else knows the id of a ticket still to be inserted); `ReportInv` (an execution is written as a whole outcome). With one request at a time: `ProjectInv`.
- `OneOfEach` (`OneAtATime`), one request at a time: `TimersInv`, `VersionsInv` and `DefaultInv`. A handler stops, retires or clears every other row in the transaction
  that starts, publishes or sets one: at most one row is left of those a commit touches and those it does not.
- `CopiesAgree` (`CopiesMatch`), one request at a time. `VersionedInv`: in the rows, and in what the request in progress would leave if it can be
  committed at all, every template has its content in the version that it names; a version number in use cannot be inserted again. `FilesInv`: the
  files are those of the documents that the request in progress will leave, because S3 is written before the commit; a rollback ends that (`disturbed`).
- `HistoryStays` (`HistoryKept`), an action property, from what the requests in progress are about to write. One at a time: `SurveysInv` (new questions only while no
  response is complete, answers only where there are none, a further response where it is allowed), `AnnouncedInv` (no new text for what
  was published) and `UnderWayInv` (no template is about to be deleted under an onboarding). For any overlap: `ReportInv` again, which says that only finished executions are
  about to be removed; nothing makes a finished one run again in between.
- `RowsAreTyped` (`RowsTyped`), for every overlap that `MCWorkspace` has. `Typed(schema, workers)` says of a component that its tables, and what each
  request in progress is about to write, have the columns and values of a schema; `MergedTyped` says once that a commit then leaves rows of those
  types. A component's invariant adds what its references need: the versions of a workflow belong to an instance, and the emails and versions of a
  template to a template, that is never deleted; a reminder, a response, a read mark and an access entry exist only while what they
  belong to does, because the commit that deletes it deletes them.
- `ReadsAreTrue` (`ReadsAgree`). From the types: following the cursor through the pages of the feed shows each event of the reader once and in order (`AllIsRead`: were there a
  position from which the pages do not show the rest of the feed, there would be a last one); the channels shown are those used; the lists of projects are those of their
  fields; the deadlines breached are those past due.
- `FiguresAreTrue` (`FiguresMatch`). `AmountsInv`: a billed entry has the amount of its minutes and rate, also in what the request in progress is about to write.
  `MessagesInv`: the unread count of a participant is at most the number of messages that arrived since the last read, and a request that
  increases a count inserts a message that arrives there. Surveys: the groups of scores partition the complete responses that count (`GroupsAddUp`), the
  distribution of a question has each rating once, and the average lies between the least and the greatest (`RatingsAddUp`).
- `ScoreFollows` (`PromotersRaise`), an action property: another promoter never lowers the Net Promoter Score and another detractor never raises it, for any number of
  responses. `GroupGrows` says how one response changes the three groups, and `ScoreMoves` what this does to the quotient.

Sums, averages, least elements and pages are about finite sets of any size. Where the library's induction theorems would be needed, the proofs
use instead that a nonempty set of naturals has a least member (`Least`, from `WFMin` and `NatLessThanWellFounded`): a claim that fails of some set
fails of a smallest one.

The assumptions are the named ones of the modules: `AmountAssumption`, `NoneAssumption`, `OwnerAssumption`, `DataAssumption`, `StageAssumption`,
`PlanAssumption`, `AdminAssumption`, `BoundAssumption`, `EnvironmentAssumption`, `UserAssumption`, `DueAssumption`, `IdAssumption`, `ClockAssumption`, `NullAssumption` (`None` is
no value that is written), `FiniteAssumption` (there are finitely many people and users) and `AloneAssumption` (`Alone` has at most one request). TLC
evaluates each of them in a run.

*Only model-checked.* Liveness under fairness and whatever depends on ENABLED: `EndedIsDowngraded`, `CurrentPaymentSettles`,
`LateResponseIsTold` and `LateResolutionIsTold`, which the prover does not reach. Every invariant and every action property of a passing run, and both refinements, are
stated by a theorem. What a violation run shows is a counterexample, and stays with TLC. No module declares a RECURSIVE operator.

## 8. What is not modelled, and why

"components" in `PROJECT.json` gives the reason for each part and, for a part that is partly modelled, what is left out. In short:

*Inoperative, with nothing behind it to check*: integrations (the service hands its DAOs one positional object where they take keyword
values), natural-language workflows (a call to a language model, then an audit method that does not exist), the n8n client and workflow
executions (no instance ever becomes active), `update_comment`.

*I/O and formatting*: e-mail, Slack, PDF, the rendering of templates, encryption of stored keys, response headers. Where the outcome of a send matters it is a choice in
the component's module (`SlaSweep`, `Push`, `Reports`).

*Nothing to check*: analytics and the other read-only aggregates except those compared in `ReadsAgree` and `FiguresMatch`; application start, which only fails to
import; migrations, whose constraints the modules quote; the frontend, which is the environment of the handlers.

In the modelled components: listings and search; texts; role checks where every request of a model is an authorized one; float
rounding except in `SurveyResults`; organizations other than the row's own, except in `InvoiceNumbers` and `Accounts`.

Unused, because no handler calls it: marking invoices overdue, creating an invoice from a proposal, refunds from the platform, ticket
attachments (modelled as requests of their own), daily summaries of time entries, read receipts of messages.

## 9. Plan

Done, most important behaviour first: invoices and payments; numbers; proposals and projects; subscriptions; audit; tickets; SLA
job; accounts, tokens and rate limits; surveys and their figures; the components around the core (`MCWorkspace`); the proofs of section 7.

Next: overlapping requests for surveys and workflows in a run of their own; the audit transaction composed with a component's rows; liveness once the
prover has ENABLED.
