# Campus One backend: TLA+ specifications

The repository is a NestJS backend for schools (a campus information system for
many tenants): a gateway application and one library per domain, over PostgreSQL
databases that are split by domain, with an older Supabase path beside them. Its
handlers are asynchronous and mostly run without transactions, so what can go
wrong lies between the statements of one request and those of another, and
between one database and the next. These modules model the operations where that
matters, check them with TLC and prove the main results with TLAPS.

* Parse: `tlasany M.tla`
* Check: `tlc -workers 2 -config MCEnrollment.cfg MCEnrollment`
* Prove: `tlapm EnrollmentProofs.tla`

`PROJECT.json` lists the components, the runs, a mutant for each property, the
source lines behind each definition, the findings, the hazards and the theorems.

## 1. Inventory

Paths are relative to `src/libs` unless they start with `src/`.

| Component | State | Operations | What makes it correct |
|---|---|---|---|
| **Enrollment** (`academics/src/academics-postgres.repository.ts`, `academics/src/enrollment/`) | `academic_class_enrollments`, `academic_class_assignments` | submit; offerings, status and dashboard are reads | no class oversold, no seat given twice, success means all rows are there |
| **Class schedules** (same files) | none | parse a schedule, find a conflict | conflict exactly when two classes meet at one minute |
| **School onboarding** (`tenants/src/platform-school-onboarding.service.ts`) | `institution_profiles`, `onboarding_progress`, `school_owner_invitations` in the registry; `portal_accounts`, `school_owner_accounts` in the identity database | register, check a slug, approve, reject, suspend, reactivate, activate the owner | an accepted invitation has an owner account; milestones are not undone; no request waits for ever |
| **Admissions** (`admissions/src/application/`) | `admission_applicants`, `admission_program_selections`, `admission_activity_logs`; `academic_student_accounts` in academics | draft, save profile, select a program, submit, decide, convert, track; documents, requirements, exams, interviews | the two databases and the log agree after any failure; the student number is the applicant's own |
| **Gateway rate limiter** (`src/apps/gateway/src/rate-limit.ts`) | a map of windows in memory | the middleware | how much gets through, and when a client may come back |
| Gateway bootstrap (`src/apps/gateway/src`) | none | wiring, body-size limits, health pings | – |
| **Enrollment over Supabase** (`academics/src/enrollment`) | `class_enrollments`, `enrollment_requests`, audit events | submit, add-drop, irregular request, approve, confirm | a class is oversold by no more than the overlapping requests and the reads that failed unseen; an announced submission is whole |
| **Grades** (`academics/src/grades`, repository) | `grades`, `academic_grades` with `is_locked`, audit events | save a draft, submit, read, summarize | a locked grade stays locked; the standing grade was audited; averages, units and standing agree |
| **Professor, student portals** (`academics/src/professor`, `student`, `profile`) | announcements | post, change and delete announcements; profile, counts and progress are reads | only of one's own class; what is shown was true since it was asked for, but for what a failed read missed |
| **School administration** (`school-admin/src`) and **institution data** (`institution-data/src`) | JSON records in `institution_resources`; profile; deliveries; audit | invite, create, assign a role, set a status, resend, create / update / delete / import records, mark all read | every write is audited; changes are lost only when requests overlap |
| **Legacy onboarding and review** (`tenants/src/school-onboarding.service.ts`, `platform-school-review.service.ts`; in the repository, mounted by no module) | registry through Prisma | register, review with a transition table | the trail ends with the review that gave the status; transitions outside the table need an overlap |
| **Tenant resolution** (`tenants/src/tenant-resolution.*`, `public-school.service.ts`) | none | host, slug or id to an open school | nobody is served for a school no review approved; slug, id and token agree |
| **Authentication** (`auth/src/platform-auth`) | `portal_accounts`, `super_admins`, `school_owner_accounts`, `tenant_user_memberships` | sign up, sign in, authorize a route by role and school | behind a role guard, a request with a school's token acts on a school only by a role its account had there at login |
| **Alumni** (`alumni/src/alumni`) | registration logs, accounts, record requests, cards, activity events | register, request, apply, administer; a Kafka consumer of graduations | what is told of a row comes after the row; a graduation is logged or reported, an empty message is neither |
| **Billing** (`billing/src`) | fee assessments, payments | balance, manual payment, reconciliation queue | the balance lies between the account's at the beginning and at the end of the request |
| **Notifications** (`notifications/src`) | notices and their audit events | create, try to create, mark one or all read | what is audited as created is there, and what its own profile is audited to have read is read |
| **Files** (`files/src/file-storage.ts`) | objects in the storage | upload, signed URLs | a stored file is kept, and a link still shows what it showed |
| Domain events (`events/src/domain-events.ts`), audit (`audit/src`) | none; append-only table | publish, try to publish, record | never fails its caller |
| Contracts, configuration, database clients, observability | none | – | – |

How they interact. The gateway passes each request through the rate limiter and
tenant resolution to a controller, which calls its service, which calls a
repository. Components meet in three ways: they write each other's databases
(admissions writes the student account in academics; onboarding writes the owner
account in the identity database), they publish domain events after their writes
through `tryPublishDomainEvent` (which catches every error, so an event may be
lost and a request is never undone), and they append audit rows as further
statements.

What is hard here:

* **Concurrency without transactions.** Each `await` of a handler lets others
  run. Enrollment checks seats and inserts later; admissions reads a status and
  acts on it later; school administration merges rows read earlier; a profile, a
  balance or a count joins queries that ran in parallel.
* **Two databases.** A conversion and an activation write two databases in turn;
  a crash, a lost answer or a deadlock between the two leaves one of them behind.
* **Row locks in opposite orders.** A review locks the profile first, an
  activation the progress first.
* **Unlimited orders of legal calls.** No operation of onboarding or admissions
  looks at the status it leaves; any may follow any other.
* **Two clients for one domain.** Whether a service runs over PostgreSQL or over
  Supabase is decided per request by its configuration, with other statements in
  another order, and the two do not share their rows.
* **Redelivery.** The graduation consumer may see a message twice, or not at all.
* **Read errors that nobody looks at.** A Supabase query that fails returns no
  data, and where the code does not look at the error it goes on as if there
  were none: a check passes, a count is 0, a report is empty.
* **Boundaries.** Window edges of the rate limiter, ends of class times, the two
  grade scales, fees that are just paid.

The hazards are listed one by one, with their lines and the properties that cover
them, in `PROJECT.json`.

## 2. Modules

```
Schedule ─┐                                    SeatBook (abstract)
          ├─ Enrollment ── MCEnrollment        ScheduleProofs (of Schedule)
SeatBook ─┘      └─ EnrollmentProofs (with ScheduleProofs)
Onboarding ── MCOnboarding
    └─ OnboardingProofs
Admissions ── MCAdmissions
    └─ AdmissionsProofs
RateLimit ── MCRateLimit
    └─ RateLimitProofs

Requests ─┬─ Notifications ─┬─ Alumni ── Graduations ─┐
          │                 └─ Professors ────────────┤
          ├─ Registrar (with Schedule) ───────────────┼─ Campus ─┬─ MCCampus
          ├─ Resources, Applications, Tenants, Billing┘          └─ CampusProofs
          └─ Access, Files, Reports ── Rules ─┬─ MCRules               └─ RecordsProofs
                                              └─ RulesProofs
```

A definition whose name continues that of another and whose comment starts with
"Mutation:" (`IsFullOffByOne` beside `IsFull`) is a plausible bug that the
specifications do not use: with it in the other's place the property named in
`PROJECT.json` is violated.

### Schedule and Enrollment

`Schedule` has the day names, the windows of a section and `hasScheduleConflict`
as the code computes it. `Clash` is the reference definition, by minutes, without
intervals.

In `Enrollment` each worker is a request in flight, and `pc` tells between which
two statements of `submitEnrollment` it is:

| Action | Code |
|---|---|
| `Submit` | controller and service guards, then the first query is sent |
| `CheckExisting` | rows the student already holds |
| `LoadClasses` | open classes, conflict check (any set of classes may be open: `is_active` is written elsewhere) |
| `CountSeats` | one count per class, all in one statement |
| `InsertNext` | a turn of the insert loop, with the unique constraint of the table |
| `InsertReplyLost` | the row is committed and the answer is lost |
| `Publish` | the event, which cannot fail the request, and the answer |
| `Fail` | a query fails or the process stops |

`enrolled` is the table, `inserted` is `insertedRows`. Nothing removes a row: the
PostgreSQL path has no drop. `SeatBook` is what the table promises: a seat is
taken once, below a limit, and kept. `Enrollment` implements it with the limit
`max_students` plus the number of *other* requests in flight (0 for a class of 0).

### Onboarding

The registry's transactions are modelled with row locks: a request in a
transaction holds `<<table, school, request>>`, a step that updates a row waits
until nobody else holds it, and the written values appear at the commit (READ
COMMITTED). Only the invitation's status is looked at again after waiting, as
the `where status = 'pending'` of its update does. Because the holder of a lock
is the only one that may write the row, the `greatest(...)` of a waiting update
is evaluated on the committed row, which is what evaluating it at the commit
does. `CreateAccount` is the identity database, which commits in the middle.
`BreakDeadlock` is PostgreSQL's detector. A registration makes its own school id,
so it needs no locks until it commits: one step, in which the unique index
decides. `Schools` are registration forms; the slug of each is already normalized.
The expiry of an invitation after 14 days is left open in `FindInvitation`.

### Admissions

Each statement is an action; `row` is what the request has in its hands between
two of them. `Fail` stops a request anywhere. The statuses an administrator can
set are the constant `Decisions`; the code treats all that do not accept alike.
`None` is SQL null.
`createApplicantNumber` takes 32 random bits; the model idealizes it as a number
not made before, which is what the `Numbers` constant and `issued` are for.
`UpsertStudent` and `MarkEnrolled` are in two databases, and `RecordAdmissionAudit`
ends each operation. Of the activity log only the conversions are kept.

### RateLimit

The middleware has no `await`: a request is one step. `windows` is its map;
`passed` is a history variable that records what was let through, for the
properties to speak of. `Restart` is a new process, and empties both. Environment
values are taken as whole numbers; a fractional limit, which `positiveNumber`
would accept, is not modelled.

### The services: Requests and the modules over it

The remaining services are modelled in one style. `Requests` has the state: a
request `w` is the list `todo[w]` of the statements its handler has still to
await, with its local variables in `arg[w]`; `db` is a record of the tables. Each
handler has an action that takes a request and gives it its statements, and each
statement an action of its own, so that any two requests interleave at every
`await`. `Fail` ends a request between two statements with what it wrote. A
statement whose error the code ignores may change nothing and go on. The services
share no table with each other except where one module extends another, hence a
behaviour is about one `service`, and the composition is a disjunction, not a
product. `configured` says which databases a service has a URL for: with it
`usePostgres` is true and the statements differ.

| Module | Services and code | Remarks |
|---|---|---|
| `Notifications` | `NotificationsService` over both databases | `TryInsertNotice` is what other services call; a failed audit over PostgreSQL adds "skipped" although the notice is there. `MarkRead` may name any profile's notice: `UpdateRead` then matches no row, which over Supabase is an error and over PostgreSQL is audited as a reading all the same |
| `Alumni` | registrations, record requests, cards | `postgresRoute` and `supabaseRoute` are the orders of the statements |
| `Graduations` | the Kafka consumer | extends `Alumni`, with whose requests it shares logs and accounts; redelivery after a restart, swallowed errors, `fromBeginning: false`; a message without a value (`None` in the topic) is passed without a log or a report |
| `Resources` | school administration, institution data | two fields stand for a record's contents; `seen` and `at` are what a request read and when |
| `Registrar` | enrollment over Supabase | `Schedule` for the conflicts; confirmed rows leave the seat count. `Passes`: the two checks ignore their read's error, so a failed read lets pass what it should have refused; `misread` counts these, for the property. `schema.sql:585` does not list the status "confirmed", so a database made from it refuses the update; the model allows both |
| `Professors` | grades and announcements | drafts are saved over Supabase always |
| `Applications` | admissions over Supabase | the applicant number is the count of applicants |
| `Tenants` | legacy registration, review, resolution | the check and the transition are two statements |
| `Billing` | balances and payments | `fees` and `settled` in `arg` are history, for the property; fees and payments are only added and posted, as nothing in the repository voids or waives them |
| `Access` | sign-up, login, route authorization | a token also keeps its account's rights at login, for the property; three query joins give one row of several, any of them. Platform tokens may act anywhere and `ActsByGrant` exempts them; `auth.service.ts:42` also makes one for an account without any row. Routes without a role guard are outside |
| `Files` | file storage | paths as the normalised parts; time in milliseconds. An upload URL comes with its metadata, and a download URL is given for any metadata a caller presents with its own tenant: nothing ties the tenant to the path, so whom a link was given to is no property of the code |
| `Reports` | grade summaries, profile, counts, progress | grades in hundredths; one request at a time, since it writes nothing. A Supabase query that fails is one without rows (`rowsRead`), a count that fails is 0, and a profile is missing what a failed query would have found (`missed`, unknown to the handler) |

`Campus` composes the first nine, `Rules` the last three.

## 3. Runs

| Run | Instance | Checks |
|---|---|---|
| `enrollment` | 3 students, 2 requests, 3 classes with 1 seat, lists up to 2 | types, `SeatsBounded`, `SuccessIsComplete`, `SeatReportedOnce`, `NoClashInRequest`, refinement of `SeatBook` |
| `enrollment_progress` | 2 students, 2 requests, 2 classes, fair | `EveryRequestAnswered` |
| `enrollment_overbook` | 2 students, 2 requests, lists of 1 | **violated**: `CapacityRespected` |
| `onboarding` | 3 schools (two of one slug, two of one email), 2 requests | types, `AcceptedHasOwner`, `SetupTellsActivation`, `OneActivationAtATime`, `MilestonesKept` |
| `onboarding_progress` | 1 school, 2 requests, fair | `EveryRequestAnswered` |
| `onboarding_slug` | 3 schools, 1 request | **violated**: `FreeSlugCanBeRegistered` |
| `admissions` | 2 applicants, 2 programs, 2 numbers, 2 requests | types, `EnrolledHasAccount`, `NumberOfAcceptance`, `LogNeverAhead`, `ProgramMatchesSelection` |
| `admissions_progress` | 1 applicant, 2 numbers, 2 requests, fair | `ConversionCompletes` |
| `admissions_race` | 1 applicant, 2 requests | **violated**: `OnlyAcceptedConverted` |
| `rate_limit` | 2 clients with limits 2 and 1, window of 3, second of 2, time to 7, 4 requests a window | types, `BurstBounded`, `WindowAccount`, `RetryAfterEnough` |
| `campus` | 2 requests; 1 alumnus, 2 profiles and 1 notice, 2 graduations or empty messages, 1 restart; 2 records, 3 writes; 2 students, 3 classes (one with a seat), 1 failed read; 1 graded enrollment, 2 marks, 2 posts; 2 applicants, 2 acts of administrators; 1 school, 3 reviews; 2 fees, 2 payments | types and `NoticeAuditsTrue`, `LogFirst`, `GraduationAccount`, `AuditAccount`, `LoneUpdateExact`, `OversellBound`, `SubmittedIsWhole`, `GradeTrail`, `LockNeverLost`, `AdmissionTrail`, `ReviewTrail`, `LoneReviewAllowed`, `BalanceBetween` |
| `rules` | 2 requests; 1 account, 2 schools, 1 token; 2 owners and 2 names with one path, 4 contents; 3 courses, 4 grades | `ActsByGrant`, `FileKept`, `ReportExact` |

Why these bounds. Every race in the code is between two requests, and the code
treats all schools, students and applicants alike; a third request repeats what
the second does, and for the seat bound, the only property that counts requests,
the theorem covers any number. One seat per class makes any two requests compete, and
the third student is the one who would be one too many for the seat bound of two;
lists of two classes give the partly applied list and the two opposite orders. The
three classes cover a conflict under another spelling of the day, back-to-back
classes, and an unknown day. The three schools are the smallest set with a shared
slug and a shared email. Two numbers allow one applicant to be accepted twice. Time
covers two windows and a part of a third, and the window is not a whole number of
seconds, so rounding matters. In `campus` and `rules` two requests overlap in every
service; the bounds on rows are the least with which a second write meets the first
(three writes make a record change under a request that read it, three reviews bring
a school back to a status it had). Of the classes of the registrar one has a seat,
one overlaps it, and one begins when it ends; a list of two is inserted after a failed
read. One failed read is enough, as a second adds one to the bound and to the rows alike. Two profiles read one notice, its own or the other's. The alumnus is one because
its rows are told apart by their ids; the files' two owners and names share a path;
the grades are the limits of the two scales and their neighbours. Symmetry is used in safety runs only, over sets the
specification treats alike.

`campus` and `rules` check safety only and state no fairness. There
`CHECK_DEADLOCK FALSE`: when the bounds are used up and no request is in flight, a
service has nothing left to do. Every other passing run checks deadlock.
`Rules` has no type invariant of its own: each of its three
properties reads every table.

Fairness. `Enrollment` and `Admissions` assume weak fairness of the handlers: the
event loop resumes a handler whose query was answered. `Fail` is not fair, nor is
the arrival of requests. `Onboarding` needs strong fairness of the steps that take
row locks, because a lock is free and taken again while a request waits; PostgreSQL
queues the waiters of a row in order, so a waiter is not passed over for ever. Its
deadlock detector runs after a timeout, hence its weak fairness. `ConversionCompletes`
also assumes that a half-done conversion is asked for again (the console still
shows the applicant as accepted and not enrolled) and that its statements do not
fail every time: strong fairness of the request and of the three steps.

What the violations show (`findings` in `PROJECT.json`):

1. Two requests count the seats before either inserts, and a class is oversold.
2. The slug of a rejected school is answered as available and cannot be registered.
3. An applicant that is rejected between the read and the upsert of a conversion
   becomes a student.

Facts met on the way that no property states as promised: an activation that fails between
its two commits leaves an account that makes every retry fail on the unique email,
and a second program selection always fails because the upsert names `id` as its
conflict target. Over Supabase, a conversion that stopped after its insert can never
be completed, it looks at no status, and two applicants accepted without a new one
between them get the same number, which the unique column then refuses. A locked
grade is overwritten by a later draft or submission (and stays locked). Confirming an
enrollment takes its row out of the seat count, so that the class can be filled
again. Marking all notifications read writes back rows read before. A submission over Supabase
whose read of the seats or of the student's rows fails goes on as if there were none,
and a class can be oversold, or a student enrolled twice, without any overlap. In the
same way a failed read shows a count of 0, a lower account type or an empty report.
Over PostgreSQL a profile that marks another's notice is audited to have read it, and
the notice stays unread. A tenant that presents metadata with its own name and
another's path gets a link to that file. An empty graduation message leaves no trace. A graduation
whose handler fails counts as consumed, one published before the first commit of the
group and a restart is passed over. Completed units count every enrolled course, also
one outside the curriculum. All of these are behaviours of the models, which the
properties are stated around.

## 4. Proofs

`EnrollmentProofs`: for all sets of students, classes and schedules and any finite
number of requests. From `StudentsFinite`, `WorkersFinite`, `MaxStudentsType`,
`MaxSelectionType` and, for the schedules, `SchedulesType`.

* `BaseInvariant`: types and the position of the insert loop (`LoopInv`).
* `SeatAccounting`: `SeatsBounded` is not inductive. A request past the count and
  before its insert has a *claim* on the class, and rows plus claims stay within
  the limit: the count makes at most as many claims as there are requests, on a
  class that is not full; an insert turns a claim into a row. `SeatsAreBounded`
  follows, and `SerialRequestsNeverOverbook`: with one request at a time
  `CapacityRespected`, which the overbooking run violates with two, holds.
* `SeatBookRefined`: every step of a request takes one seat below the limit, or
  leaves the table alone; the claim of the request is the room for its row.
* `ReportInvariant`: `inserted` is the part of the list before `next`, all of it in
  the table; this gives `SuccessesAreComplete` and, since a row is written only when
  it is not there, `SeatsAreReportedOnce`.
* `RequestsDoNotClash`: what a request inserts is part of the list it tested
  (`TestedInv`), and the test is exact: `ScheduleProofs!ConflictIsClash` shows that
  `hasScheduleConflict`, which compares interval ends, finds a conflict exactly when
  two classes of the list are in session at the same minute (`Clash`).

`AdmissionsProofs`: for all sets of applicants, programs, decisions, numbers and
requests; from `NumbersFinite` and `NullIsNoValue`. The inductive invariant `IInv`
adds to the properties what a request has in hand (`InHand`: a number it has read is
still the applicant's, the account it has written is still there) and that an
accepted applicant has a number made for it (`ApplicantNumber`), without which not
even the type of a student account is kept. One lemma per conjunct goes through the
actions; the effect lemmas at the beginning say what each update does to one row.
`OnlyAcceptedConverted` is violated by a decision between the read and the insert of a
conversion, and `OnlyOverlapsConvertOthers` shows that this is the only way: when the
status does not change between the two (`Undisturbed`), it holds for any number
of requests, and so it does with one at a time (`SerialConversionsAreOfAccepted`).

`RateLimitProofs`: for all clients, limits and windows. The invariant says that what
passed lies in its window, has a number there that is its own and at most the limit,
and that the windows of one client do not overlap. A span of one window's length
meets at most two windows, each of which passes at most `Limit` requests
(`BurstsAreBounded`). With `Counted`, every number up to the count and the limit was
given, the numbering is a bijection from the passes of the current window to 1 up to
their number, so the account is exact (`AccountsAreExact`). That Retry-After is enough
and not a second too much (`RetriesSucceed`) is arithmetic on the rounded division,
from the type invariant.

`OnboardingProofs`: for every set of schools, slugs and emails and every number of
requests, from `NoneType`, `SlugType` and `EmailType`. An activation commits in the
identity database in the middle of a transaction of the registry, and what holds the two together is the
row lock of the invitation. `IInv` says in which steps a request holds it, that a row
is locked by one request at a time (`LocksExclusive`), and that the account is there
past the first commit (`ActivationFacts`). From it `AcceptedHasOwner`,
`SetupTellsActivation` and `OneActivationAtATime`, and, step by step, `MilestonesKept`.

### The services

`CampusProofs` and `RecordsProofs` prove every property of the run
`campus` for any finite, non-empty set of requests in flight and any bounds on rows and statements
(`WorkersAreFinite` and the assumptions about bounds). The other assumptions say that
SQL null is no value of a column (`NoneIsNo...`), that payments have the two statuses of the
code (`PaymentStatus`), that classes meet at minutes (`TimetableType`), and that the
applicants are finitely many. One scheme serves all services:

* `Kept`: the service and the databases it uses never change, so that each service
  has an invariant of its own (`service = "x" => XInv`).
* `Moves`: every action moves one request and no other. `...Todo` lists the statement
  lists a request can be left with; the `...Route` lemmas say what follows each
  statement, so that a step never leaves the list.
* `...RequestOK`: what a request knows at the statement it is about to run, from the
  statements behind it. It survives the steps of other requests because what it speaks of is never
  taken back (rows only appear, statuses only advance); where the code may take it back, it is not
  claimed.

What is particular to each:

| Service | Argument |
|---|---|
| Tenants | an audit row and its status change are one transaction, so the status is the outcome of the last review; the check of a review that nobody overtook (`at` is the length of the trail) still holds at its transaction, which is `LoneReviewAllowed` |
| Grades | a grade over PostgreSQL that stands is audited, or the request that wrote it is at its audit, or ended there (`cut`); each write of a submission locks, and a draft keeps `locked` |
| Notices | a notice is inserted before the audit that names it and never deleted, and once read it is never unread again: `Known` is what a request knows of the notice it names, `ReadBy` that past its update the notice is not unread if it is the profile's own. `QuietInv` says that the other services have no table of notices |
| Alumni | the row (or, over PostgreSQL, the event) that `LogFirst` asks for is written by an earlier statement of the same request |
| Graduations | `Passed`: every message with a graduate that the position or the committed offset is past was logged or reported as an error, and an empty one was neither (`MessageTaken`, `SourcesOK`), as one request consumes at a time and past its first statement the message is taken. `CountOK`: a message is logged at most once per start that is over, and once more when this start has begun with it |
| Registrar | `SeatsOK`, as in Enrollment: rows of a class plus the requests past the count and before their insert; a second count of the same kind, by student, bounds the rows of one student. A request that a failed read let pass makes one claim too many and raises the bound by one (`PassKeeps`); `Whole` keeps a submission complete while confirmations change its rows |
| Applications | `Decided` per applicant, and `Stands`: profiles, enrollments, accounts and results never go away, so what a request has seen written stays written. The unique column, not the count of applicants, keeps the numbers apart |
| Resources | `Audited`: writes = audits + requests with an audit still to write (`Unfinished`, counted with finite sets) + `unaudited`. `Remembers`: a record whose write counter has not moved since it was read is as it was read, from which `LoneUpdateExact` |
| Billing | each amount a request holds lies between the account of its beginning and that of now (`BillingRequestOK`). That a longer list or a payment that is posted does not lower a total (`TotalGrows`) needs induction over data: it is done by a least counterexample, from the well-foundedness of the natural numbers (`SmallestOf`), as the total is a recursive function and not a `RECURSIVE` operator |

`TablesAreTyped` puts the invariants of all services together: the tables hold what
their columns allow, and a request that has answered keeps no local variables (`Tidy`).

`RulesProofs` proves the three properties of the run `rules` for any finite, non-empty
set of requests in flight. `RulesInvariant` is the inductive invariant of the three services; TLC has
checked it on the instance of that run.

* **Access** (`RequestsActByGrant`). A login joins four tables, and which rows it
  puts together is open. `Held`: a token of a school was signed for an account that
  had this role there; tokens only appear, and their `grants` are of the login, so nothing that is
  granted, reviewed or signed up later disturbs it. `Resolved` holds after the tenant was looked up
  (the context is the school of the slug, and of the id, if they are given),
  `Authorized` from the authorization to the act.
* **Files** (`FilesAreKept`). The path of a file is a function of its parts, and
  two files may have one. What keeps them apart is the storage, which refuses to
  overwrite: of the requests between their upload and the answer (`Pending`) no two have one
  path, and none has the path of a file that was handed over. A link is given
  for an object that is there, and objects are never taken back or changed.
* **Reports** (`ReportsAreExact`). A grade report is one query and then
  arithmetic: sums over sets of courses, of any number. What a sum is has to be
  proved first, from the fold of the community modules, without an induction rule
  that takes a predicate: among the subsets of a finite set on which a statement
  fails one is minimal (`MinimalSubset`, by cardinality and the well-foundedness
  of the natural numbers), and one element less makes it hold. So natural numbers
  add up over every finite set in any order (`SumsExist`), the fold is that sum
  although it takes elements out by `CHOOSE` (`SumIs`), a part sums up to no more
  (`SumOfPart`), and sums compare by their summands (`SumsCompare`). From
  these: passed and failed units make up the graded ones (`UnitsAddUp`); the weighted
  average, rounded to hundredths, lies between the lowest and the highest grade that
  counts (`AverageBounds`, with `MeanBounds` on the rounded division); and
  `isFailedGradeValue`, which compares with 5 and 75, tells the failing grades
  of both scales (`FailsByScale`). All this holds of no rows as
  well, which is what a failed query reads. Of the parallel queries, `ProfileOK` says
  that the rows of the beginning are found, missed or not yet asked for, and rows only
  appear.

Its assumptions, beside the bounds: courses are finitely many (`CoursesAreFinite`)
with natural units (`UnitsType`), grades are hundredths (`GradesType`) and fail from
5.00 to below 75 (`ScalesOfGrades`), the curriculum has a term to ask a summary for
(`TermType`), and null is no account type (`NoneIsNoKind`).

Only model-checked is liveness: `EveryRequestAnswered` of the enrollment and of
the onboarding, and `ConversionCompletes`, under the fairness of section 3. Weak and
strong fairness are stated with ENABLED, which the prover does not
reason about. The three properties of the runs that expect a violation are false of
the code and have no proof; for two of them it is proved when they hold
(`SerialRequestsNeverOverbook`, `OnlyOverlapsConvertOthers`).

## 5. Not modelled

See the components in `PROJECT.json` for each. In short: the gateway's bootstrap,
contracts, configuration, database clients and observability, which keep no state;
reads and dashboards that return rows as they are, and single upserts that no other
statement depends on (parent information, profile fields, the school profile of the
institution data); text, formatting, passwords, signatures and the expiry of tokens;
mail and event transports, which are outside the repository; the guards
`JwtAuthGuard` and `PermissionsGuard`, which no module installs. The tables
`enrollment_requests`, `student_fee_assessments` and `student_payments` are in no
schema of the repository and are modelled from the statements that use them.

## 6. Plan

Done, in this order: Schedule and Enrollment with SeatBook; Onboarding; Admissions;
RateLimit; their runs; the services over `Requests`, with `Campus` and `Rules`; the
proofs of section 4.

All safety properties of the passing runs are proved. What a continuation would take
up: the single reads and upserts that section 5 leaves out, where another service
comes to depend on them; the expiry of tokens; and the conversion and the seat count with the row lock or the transaction
that the findings call for, for which `OnlyOverlapsConvertOthers` and
`SerialRequestsNeverOverbook` state what it has to achieve.
