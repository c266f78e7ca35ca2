----------------------------- MODULE CampusProofs -----------------------------
(***************************************************************************)
(* The services of the campus, for any number of requests, rows and        *)
(* statements in flight.  A service's invariant says what its tables hold  *)
(* and what each request, at the statement it is about to run, knows from  *)
(* the statements behind it.  Each step is shown to move one request alone *)
(* (Moves), its statements to stay on the routes of the code (...Todo),    *)
(* and its write to keep the tables.  Here: the tenant registry,           *)
(* notifications, grades and announcements; the alumni desk, over          *)
(* PostgreSQL and over Supabase; registrations and the at-least-once       *)
(* consumer of graduations; and the audit trail of notices over all        *)
(* services that notify.  Module RecordsProofs goes on.                    *)
(***************************************************************************)
EXTENDS Campus, FiniteSetTheorems, TLAPS

-----------------------------------------------------------------------------
(* What all services have in common *)

\* Every request slot has its statements and its local variables.
Slots == DOMAIN todo = Workers /\ DOMAIN arg = Workers

\* The request in slot w goes on with these statements and local variables,
\* and no other request moves.
Moves(w, steps, locals) ==
    /\ Slots'
    /\ todo'[w] = steps /\ arg'[w] = locals
    /\ \A v \in Workers \ {w} : todo'[v] = todo[v] /\ arg'[v] = arg[v]

\* No request moves.
Rests ==
    /\ Slots'
    /\ \A v \in Workers : todo'[v] = todo[v] /\ arg'[v] = arg[v]

\* A request that arrives moves its own slot alone;
LEMMA TakeMoves ==
  ASSUME Slots, NEW s, NEW w \in Workers, NEW steps, NEW locals, Take(s, w, steps, locals)
  PROVE  Moves(w, steps, locals)
BY DEF Slots, Take, Moves

\* so does one that goes on,
LEMMA GoOnMoves ==
  ASSUME Slots, NEW w \in Workers, NEW steps, NEW locals, GoOn(w, steps, locals)
  PROVE  Moves(w, steps, IF steps = <<>> THEN None ELSE locals)
BY DEF Slots, GoOn, Moves

\* with the statements that are left,
LEMMA ProceedMoves ==
  ASSUME Slots, NEW w \in Workers, Proceed(w)
  PROVE  Moves(w, Tail(todo[w]), IF Tail(todo[w]) = <<>> THEN None ELSE arg[w])
BY GoOnMoves DEF Proceed

\* with other local variables,
LEMMA ProceedWithMoves ==
  ASSUME Slots, NEW w \in Workers, NEW locals, ProceedWith(w, locals)
  PROVE  Moves(w, Tail(todo[w]), IF Tail(todo[w]) = <<>> THEN None ELSE locals)
BY GoOnMoves DEF ProceedWith

\* and one that fails, which writes nothing.
LEMMA FailMoves ==
  ASSUME Slots, NEW w \in Workers, Fail(w)
  PROVE  Moves(w, <<>>, None) /\ db' = db
BY GoOnMoves DEF Fail, Answer

\* A request of one statement leaves the others where they are.
LEMMA ServeRests ==
  ASSUME Slots, NEW s, NEW w \in Workers, Serve(s, w)
  PROVE  Rests
BY DEF Slots, Serve, Rests

\* A statement put in front of others.
LEMMA Prefixed ==
  ASSUME NEW x, NEW S, NEW s \in Seq(S)
  PROVE  <<x>> \o s # <<>> /\ Head(<<x>> \o s) = x /\ Tail(<<x>> \o s) = s
<1>1. <<x>> \in Seq({x} \cup S) /\ s \in Seq({x} \cup S) /\ Len(<<x>>) = 1 /\ <<x>>[1] = x
  OBVIOUS
<1>2. Len(<<x>> \o s) = Len(s) + 1 /\ (<<x>> \o s)[1] = x
      /\ \A i \in 1 .. Len(s) : (<<x>> \o s)[i + 1] = s[i]
  BY <1>1
<1>3. <<x>> \o s \in Seq({x} \cup S)
  BY <1>1
<1>4. <<x>> \o s # <<>> /\ Head(<<x>> \o s) = x
  BY <1>2, <1>3
<1>5. Tail(<<x>> \o s) = s
  BY <1>1, <1>2, <1>3, SMTT(20)
<1> QED
  BY <1>4, <1>5

-----------------------------------------------------------------------------
(* The service of a behaviour stays the same *)

Kept == service' = service /\ configured' = configured

\* So for the steps of notifications,
LEMMA NotificationsKept == NotificationsNext => Kept
<1> SUFFICES ASSUME NEW w \in Workers, NotificationsNext!(w)
             PROVE  Kept
  BY DEF NotificationsNext
<1>1. CASE CreateNotice(w) \/ MarkRead(w) \/ MarkAllRead(w)
  BY <1>1 DEF Kept, CreateNotice, MarkRead, MarkAllRead, Take
<1>2. CASE InsertCreatedNotice(w) \/ AuditCreatedNotice(w) \/ UpdateRead(w) \/ AuditRead(w) \/ AuditReadAll(w)
  BY <1>2 DEF Kept, InsertCreatedNotice, AuditCreatedNotice, UpdateRead, AuditRead, AuditReadAll,
     Proceed, ProceedWith, GoOn
<1>3. CASE TryInsertNotice(w) \/ TryAuditNotice(w) \/ AuditSkippedNotice(w)
           \/ (service = "notifications" /\ Fail(w))
  BY <1>3 DEF Kept, TryInsertNotice, TryAuditNotice, AuditSkippedNotice, Fail, Answer, Proceed, GoOn
<1> QED
  BY <1>1, <1>2, <1>3

\* of the alumni service,
LEMMA AlumniKept == AlumniNext => Kept
BY ZenonT(40) DEF AlumniNext, Kept, registerAlumni, requestRecord, applyForCard, updateRecordStatus,
       updateCardApplicationStatus, AlumniRequest, InsertLog, UpsertAccount, InsertRecord, InsertCard,
       InsertRow, UpdateRecord, UpdateCard, RecordEvent, PublishAlumniEvent, RecordAlumniAudit,
       Fail, Take, Proceed, ProceedWith, GoOn, Answer

\* of its consumer,
LEMMA GraduationsKept == GraduationsNext => Kept
BY DEF GraduationsNext, Kept, Graduate, Subscribe, AutoCommit, RestartConsumer, EachMessage,
       SwallowError, Handled, Fail, Take, Proceed, ProceedWith, GoOn, Answer

\* of the school administration,
LEMMA ResourcesKept == ResourcesNext => Kept
BY ZenonT(40) DEF ResourcesNext, Kept, CreateResource, UpdateResource, DeleteResource, QueueDelivery, ImportResources,
       UpdateProfile, SchoolAdminRequest, InsertResource, InsertNextResource, FindResource, ReadResource,
       UpsertResource, EraseResource, MergeProfile, Deliver, AuditResource, AuditOther, FailResources,
       InstitutionCreate, InstitutionRemove, InstitutionUpdate, markAllNotificationsRead, ReadUnread,
       MarkOne, OverwriteResource, Written, Reads, Serve, Take, Proceed, ProceedWith, GoOn, Answer

\* of the registrar,
LEMMA RegistrarKept == RegistrarNext => Kept
BY DEF RegistrarNext, Kept, SubmitSelection, LoadHeld, LoadCounts, Passes, InsertSeats, PublishSeats,
       FilePetition, approveByRegistrar, confirm, writeAuditEvent,
       Fail, Take, Proceed, ProceedWith, GoOn, Answer

\* of the professors,
LEMMA ProfessorsKept == ProfessorsNext => Kept
BY DEF ProfessorsNext, Kept, saveProfessorGrade, submitProfessorGrade, GradeRequest, AssertEnrollment,
       SaveGrade, LockGrade, UpsertGrade, AuditGrade, PublishGrade, FailGrade, createAnnouncement,
       AssertClass, InsertPost, changeAnnouncement, AssertPost, UpdatePost, DeletePost,
       Fail, Take, Proceed, ProceedWith, GoOn, Answer

\* of the applications,
LEMMA ApplicationsKept == ApplicationsNext => Kept
<1> SUFFICES ASSUME NEW w \in Workers, ApplicationsNext!(w)
             PROVE  Kept
  BY DEF ApplicationsNext
<1>1. CASE SaveBackground(w) \/ DeleteBackground(w) \/ InsertBackground(w)
           \/ UploadDocument(w) \/ InsertDocument(w) \/ verifyApplicantDocument(w)
  BY <1>1, SMTT(30) DEF Kept, SaveBackground, DeleteBackground, InsertBackground, UploadDocument, InsertDocument,
     verifyApplicantDocument, ApplicantRequest, Serve, Take, Proceed, GoOn
<1>2. CASE SelectProgram(w) \/ SetSelection(w) \/ SetProfileProgram(w) \/ updateAdminProgramSelection(w)
           \/ CreateProfile(w) \/ Submit(w) \/ (service \in {"forms", "decisions"} /\ Fail(w))
  BY <1>2, ZenonT(40) DEF Kept, SelectProgram, SetSelection, SetProfileProgram, updateAdminProgramSelection,
     CreateProfile, Submit, ApplicantRequest, Serve, Take, Proceed, GoOn, Fail, Answer
<1>3. CASE updateAdminApplicationStatus(w) \/ SetStatus(w) \/ SendLetter(w) \/ PublishStatus(w)
           \/ scheduleEntranceExam(w) \/ ScheduleExam(w) \/ SetExamStatus(w) \/ SetWorkflowStatus(w)
  BY <1>3, ZenonT(40) DEF Kept, updateAdminApplicationStatus, SetStatus, SendLetter, PublishStatus, scheduleEntranceExam,
     ScheduleExam, SetExamStatus, SetWorkflowStatus, AdminRequest, ApplicantRequest, Serve, Take, Proceed,
     ProceedWith, GoOn
<1>4. CASE RecordActivity(w) \/ convertAcceptedApplicantToStudent(w) \/ ReadProfile(w)
           \/ InsertAccount(w) \/ SetEnrolled(w)
  BY <1>4 DEF Kept, RecordActivity, convertAcceptedApplicantToStudent, ReadProfile, InsertAccount, SetEnrolled,
     AdminRequest, ApplicantRequest, Take, Proceed, ProceedWith, GoOn
<1> QED
  BY <1>1, <1>2, <1>3, <1>4

\* of the tenant registry
LEMMA TenantsKept == TenantsNext => Kept
BY DEF TenantsNext, Kept, registerSchool, FindSlug, CreateSchool, AnnounceSchool, reviewSchool, CheckReview,
       Transition, tenantRequest, ResolveTenant, ServeTenant, SchoolRequest,
       Fail, Take, Proceed, ProceedWith, GoOn, Answer

\* and of the accounts;
LEMMA BillingKept == BillingNext => Kept
BY DEF BillingNext, Kept, recordManualPayment, PublishPayment, getStudentBalance, ReadFees, ReadPayments,
       ShowBalance, Assess, Post, Fail, Take, Proceed, GoOn, Answer

\* and so for every step.
LEMMA ServiceKept == [Next]_vars => Kept
BY NotificationsKept, AlumniKept, GraduationsKept, ResourcesKept, RegistrarKept, ProfessorsKept,
   ApplicationsKept, TenantsKept, BillingKept DEF Next, vars, Kept


-----------------------------------------------------------------------------
(* Tenants *)

\* What a request to the tenant registry can have still to run.
TenantTodo == {<<>>,
    <<"findSlug", "createSchool", "announceSchool">>, <<"createSchool", "announceSchool">>, <<"announceSchool">>,
    <<"checkReview", "transition">>, <<"transition">>,
    <<"resolve", "serveTenant">>, <<"serveTenant">>}

TenantLocals == [id : Slugs, action : DOMAIN allowed \cup {None}, at : Nat]

ApprovedOnce(s) == \E i \in 1 .. Len(db.reviews[s]) : Outcome[db.reviews[s][i]] = "approved"

\* The request in slot w has what it works on, and the check that it has
\* passed still says something about the school.
TenantRequestOK(w) == ~Idle(w) =>
    /\ arg[w] \in TenantLocals
    /\ Head(todo[w]) \in {"checkReview", "transition"} => arg[w].action \in DOMAIN allowed
    /\ Head(todo[w]) = "transition" =>
          /\ Registered(arg[w].id)
          /\ arg[w].at <= Len(db.reviews[arg[w].id])
          /\ arg[w].at = Len(db.reviews[arg[w].id]) =>
                db.schools[arg[w].id].status \in allowed[arg[w].action]
    /\ Head(todo[w]) = "serveTenant" => ApprovedOnce(arg[w].id)

TenantTypes ==
    /\ Slots
    /\ \A w \in Workers : todo[w] \in TenantTodo
    /\ db = [schools |-> db.schools, reviews |-> db.reviews, announced |-> db.announced, tenancies |-> db.tenancies]
    /\ db.schools \in [Slugs -> SchoolRows \cup {None}]
    /\ db.reviews \in [Slugs -> Seq(DOMAIN allowed)]
    /\ db.tenancies \subseteq Slugs

SchoolOK(s) ==
    IF Registered(s)
    THEN /\ db.schools[s].approvedAt <=> db.schools[s].setupProgress = 30
         /\ db.schools[s].status = IF db.reviews[s] = <<>> THEN "pending_review"
                                   ELSE Outcome[db.reviews[s][Len(db.reviews[s])]]
    ELSE db.reviews[s] = <<>>

TenantInv ==
    /\ TenantTypes
    /\ \A w \in Workers : TenantRequestOK(w)
    /\ \A s \in Slugs : SchoolOK(s)
    /\ \A s \in db.tenancies : ApprovedOnce(s)

\* Each step of a request is followed by one other step, or by none.
LEMMA TenantRoute ==
  ASSUME NEW r \in TenantTodo, r # <<>>
  PROVE  /\ Tail(r) \in TenantTodo
         /\ Head(r) = "findSlug" => Tail(r) # <<>> /\ Head(Tail(r)) = "createSchool"
         /\ Head(r) = "createSchool" => Tail(r) # <<>> /\ Head(Tail(r)) = "announceSchool"
         /\ Head(r) = "checkReview" => Tail(r) # <<>> /\ Head(Tail(r)) = "transition"
         /\ Head(r) = "resolve" => Tail(r) # <<>> /\ Head(Tail(r)) = "serveTenant"
         /\ Head(r) \in {"announceSchool", "transition", "serveTenant"} => Tail(r) = <<>>
<1>1. /\ Head(<<"findSlug", "createSchool", "announceSchool">>) = "findSlug"
      /\ Tail(<<"findSlug", "createSchool", "announceSchool">>) = <<"createSchool", "announceSchool">>
      /\ Head(<<"createSchool", "announceSchool">>) = "createSchool"
      /\ Tail(<<"createSchool", "announceSchool">>) = <<"announceSchool">>
      /\ Head(<<"announceSchool">>) = "announceSchool" /\ Tail(<<"announceSchool">>) = <<>>
  OBVIOUS
<1>2. /\ Head(<<"checkReview", "transition">>) = "checkReview"
      /\ Tail(<<"checkReview", "transition">>) = <<"transition">>
      /\ Head(<<"transition">>) = "transition" /\ Tail(<<"transition">>) = <<>>
      /\ Head(<<"resolve", "serveTenant">>) = "resolve" /\ Tail(<<"resolve", "serveTenant">>) = <<"serveTenant">>
      /\ Head(<<"serveTenant">>) = "serveTenant" /\ Tail(<<"serveTenant">>) = <<>>
  OBVIOUS
<1>3. /\ <<"createSchool", "announceSchool">> # <<>> /\ <<"announceSchool">> # <<>>
      /\ <<"transition">> # <<>> /\ <<"serveTenant">> # <<>>
  OBVIOUS
<1> QED
  BY <1>1, <1>2, <1>3 DEF TenantTodo

\* What every step does to the schools: it registers one, reviews one, or does
\* nothing to any.
Reviewing ==
    /\ db' = [schools |-> db'.schools, reviews |-> db'.reviews,
              announced |-> db'.announced, tenancies |-> db'.tenancies]
    /\ db'.schools \in [Slugs -> SchoolRows \cup {None}]
    /\ db'.reviews \in [Slugs -> Seq(DOMAIN allowed)]
    /\ \A s \in Slugs :
          \/ db'.schools[s] = db.schools[s] /\ db'.reviews[s] = db.reviews[s]
          \/ ~Registered(s) /\ db'.reviews[s] = db.reviews[s]
          \/ /\ db.schools[s] # None /\ db'.schools[s] # None
             /\ \E a \in DOMAIN allowed : db'.reviews[s] = Append(db.reviews[s], a)

\* An approval stays in the audit trail, and what an idle or waiting request
\* relies on stays true.
LEMMA ReviewingKeeps ==
  ASSUME TenantInv, Reviewing
  PROVE  /\ \A s \in Slugs : ApprovedOnce(s) => ApprovedOnce(s)'
         /\ \A v \in Workers : todo'[v] = todo[v] /\ arg'[v] = arg[v] => TenantRequestOK(v)'
<1>1. ASSUME NEW s \in Slugs, ApprovedOnce(s)
      PROVE  ApprovedOnce(s)'
  <2>1. PICK i \in 1 .. Len(db.reviews[s]) : Outcome[db.reviews[s][i]] = "approved"
    BY <1>1 DEF ApprovedOnce
  <2>2. i \in 1 .. Len(db'.reviews[s]) /\ db'.reviews[s][i] = db.reviews[s][i]
    <3>1. db.reviews[s] \in Seq(DOMAIN allowed)
      BY DEF TenantInv, TenantTypes
    <3>2. CASE db'.reviews[s] = db.reviews[s]
      BY <3>2
    <3>3. CASE \E a \in DOMAIN allowed : db'.reviews[s] = Append(db.reviews[s], a)
      BY <3>1, <3>3
    <3> QED
      BY <3>2, <3>3 DEF Reviewing
  <2> QED
    BY <2>1, <2>2 DEF ApprovedOnce
<1>2. ASSUME NEW v \in Workers, todo'[v] = todo[v], arg'[v] = arg[v]
      PROVE  TenantRequestOK(v)'
  <2> SUFFICES ASSUME ~Idle(v)
               PROVE  TenantRequestOK(v)'
    BY <1>2 DEF TenantRequestOK, Idle
  <2>1. TenantRequestOK(v) /\ arg[v] \in TenantLocals /\ arg[v].id \in Slugs /\ arg[v].at \in Nat
    BY DEF TenantInv, TenantRequestOK, TenantLocals
  <2>2. CASE Head(todo[v]) = "transition"
    <3> DEFINE s == arg[v].id
    <3>1. Registered(s) /\ s \in Slugs /\ db.reviews[s] \in Seq(DOMAIN allowed)
          /\ arg[v].at <= Len(db.reviews[s])
      BY <2>1, <2>2 DEF TenantRequestOK, TenantInv, TenantTypes
    <3>2. CASE db'.schools[s] = db.schools[s] /\ db'.reviews[s] = db.reviews[s]
      BY <1>2, <2>1, <2>2, <3>2 DEF TenantRequestOK, Registered
    <3>3. CASE db'.schools[s] # None /\ \E a \in DOMAIN allowed : db'.reviews[s] = Append(db.reviews[s], a)
      <4>1. Len(db'.reviews[s]) = Len(db.reviews[s]) + 1
        BY <3>1, <3>3
      <4> HIDE DEF s
      <4>2. arg[v].at <= Len(db'.reviews[s]) /\ arg[v].at # Len(db'.reviews[s])
        BY <2>1, <3>1, <4>1
      <4> QED
        BY <1>2, <2>1, <2>2, <3>3, <4>2 DEF TenantRequestOK, Registered, s
    <3> QED
      BY <3>1, <3>2, <3>3 DEF Reviewing
  <2>3. CASE Head(todo[v]) # "transition"
    BY <1>1, <1>2, <2>1, <2>3 DEF TenantRequestOK
  <2> QED
    BY <2>2, <2>3
<1> QED
  BY <1>1, <1>2

\* A step of one request that keeps what it relies on keeps the invariant.
LEMMA TenantStep ==
  ASSUME TenantInv, NEW w \in Workers, NEW steps \in TenantTodo, NEW locals,
         Moves(w, steps, locals), Reviewing, TenantRequestOK(w)',
         \A s \in Slugs : SchoolOK(s)',
         db'.tenancies \subseteq Slugs,
         \A s \in db'.tenancies \ db.tenancies : ApprovedOnce(s)'
  PROVE  TenantInv'
<1>1. TenantTypes'
  BY DEF TenantInv, TenantTypes, Moves, Reviewing
<1>2. \A v \in Workers : TenantRequestOK(v)'
  BY ReviewingKeeps DEF Moves
<1>3. \A s \in db'.tenancies : ApprovedOnce(s)'
  BY ReviewingKeeps DEF TenantInv, TenantTypes
<1> QED
  BY <1>1, <1>2, <1>3 DEF TenantInv

\* A step that leaves the tables alone.
LEMMA TenantReads ==
  ASSUME TenantInv, NEW w \in Workers, NEW steps \in TenantTodo, NEW locals,
         Moves(w, steps, locals), UNCHANGED db,
         steps # <<>> =>
             /\ locals \in TenantLocals
             /\ Head(steps) \in {"checkReview", "transition"} => locals.action \in DOMAIN allowed
             /\ Head(steps) = "transition" =>
                   /\ Registered(locals.id)
                   /\ locals.at = Len(db.reviews[locals.id])
                   /\ db.schools[locals.id].status \in allowed[locals.action]
             /\ Head(steps) = "serveTenant" => ApprovedOnce(locals.id)
  PROVE  TenantInv'
<1>1. Reviewing
  BY DEF Reviewing, TenantInv, TenantTypes
<1>2. \A s \in Slugs : SchoolOK(s)' /\ (ApprovedOnce(s) => ApprovedOnce(s)')
  BY DEF TenantInv, SchoolOK, ApprovedOnce, Registered
<1>3. TenantRequestOK(w)'
  <2> SUFFICES ASSUME steps # <<>>
               PROVE  TenantRequestOK(w)'
    BY DEF TenantRequestOK, Moves, Idle
  <2>1. locals \in TenantLocals /\ todo'[w] = steps /\ arg'[w] = locals /\ locals.id \in Slugs
    BY DEF Moves, TenantLocals
  <2>2. Head(steps) = "transition" =>
          /\ db'.schools[locals.id] # None
          /\ locals.at <= Len(db'.reviews[locals.id])
          /\ db'.schools[locals.id].status \in allowed[locals.action]
    BY <2>1 DEF Registered, TenantLocals
  <2>3. Head(steps) = "serveTenant" => ApprovedOnce(locals.id)'
    BY <1>2, <2>1
  <2> HIDE DEF Moves
  <2> QED
    BY <2>1, <2>2, <2>3 DEF TenantRequestOK, Registered, ApprovedOnce
<1> QED
  BY <1>1, <1>2, <1>3, TenantStep DEF TenantInv, TenantTypes

\* Only a review makes a school approved.
LEMMA ActiveIsApproved ==
  ASSUME TenantInv, NEW s \in Slugs, Registered(s), db.schools[s].status \in {"approved", "active"}
  PROVE  ApprovedOnce(s)
<1>1. db.reviews[s] \in Seq(DOMAIN allowed) /\ db.schools[s] \in SchoolRows /\ SchoolOK(s)
  BY DEF TenantInv, TenantTypes, Registered
<1>2. db.reviews[s] # <<>> /\ db.schools[s].status = Outcome[db.reviews[s][Len(db.reviews[s])]]
  BY <1>1 DEF SchoolOK, SchoolRows, Taken
<1>3. db.schools[s].status = "approved"
  BY <1>1 DEF SchoolRows, Taken
<1>4. Len(db.reviews[s]) \in 1 .. Len(db.reviews[s])
  BY <1>1, <1>2
<1> QED
  BY <1>2, <1>3, <1>4 DEF ApprovedOnce

\* What a review makes of a school: the outcome of its audit event.
LEMMA ReviewedSchool ==
  ASSUME NEW school \in SchoolRows, NEW action \in DOMAIN allowed,
         school.approvedAt <=> school.setupProgress = 30
  PROVE  LET new == reviewed(school, action)
         IN  /\ new \in SchoolRows
             /\ new.approvedAt <=> new.setupProgress = 30
             /\ new.status = Outcome[action]
BY DEF SchoolRows, Taken, reviewed, Outcome, allowed

\* Registrations: a school is made once, pending and without reviews.
LEMMA RegisterSteps ==
  ASSUME TenantInv, NEW w \in Workers,
         registerSchool(w) \/ FindSlug(w) \/ CreateSchool(w) \/ AnnounceSchool(w)
  PROVE  TenantInv'
<1>1. Slots /\ todo[w] \in TenantTodo
  BY DEF TenantInv, TenantTypes
<1>2. CASE registerSchool(w)
  <2>1. PICK s \in Slugs : SchoolRequest(w, <<"findSlug", "createSchool", "announceSchool">>, s, None)
    BY <1>2 DEF registerSchool
  <2> DEFINE steps == <<"findSlug", "createSchool", "announceSchool">>
             locals == [id |-> s, action |-> None, at |-> 0]
  <2>2. Moves(w, steps, locals) /\ UNCHANGED db
    BY <1>1, <2>1, TakeMoves DEF SchoolRequest
  <2>3. steps \in TenantTodo /\ locals \in TenantLocals /\ Head(steps) = "findSlug"
    BY DEF TenantTodo, TenantLocals
  <2> HIDE DEF steps, locals
  <2> QED
    BY <2>2, <2>3, TenantReads
<1>3. CASE FindSlug(w)
  <2>1. todo[w] # <<>> /\ Head(todo[w]) = "findSlug" /\ UNCHANGED db
    BY <1>3 DEF FindSlug, At
  <2>2. Tail(todo[w]) \in TenantTodo /\ Tail(todo[w]) # <<>> /\ Head(Tail(todo[w])) = "createSchool"
    BY <1>1, <2>1, TenantRoute
  <2>3. Moves(w, Tail(todo[w]), arg[w]) /\ arg[w] \in TenantLocals
    BY <1>1, <1>3, <2>1, <2>2, ProceedMoves DEF FindSlug, TenantInv, TenantRequestOK, Idle
  <2> QED
    BY <2>1, <2>2, <2>3, TenantReads
<1>4. CASE CreateSchool(w)
  <2>1. todo[w] # <<>> /\ Head(todo[w]) = "createSchool" /\ arg[w] \in TenantLocals
    BY <1>4 DEF CreateSchool, At, TenantInv, TenantRequestOK, Idle
  <2>2. Tail(todo[w]) \in TenantTodo /\ Tail(todo[w]) # <<>> /\ Head(Tail(todo[w])) = "announceSchool"
    BY <1>1, <2>1, TenantRoute
  <2>3. Moves(w, Tail(todo[w]), arg[w])
    BY <1>1, <1>4, <2>2, ProceedMoves DEF CreateSchool
  <2>4. PICK s \in Slugs : s = arg[w].id /\ ~Registered(s)
    BY <1>4, <2>1 DEF CreateSchool, TenantLocals
  <2> DEFINE new == [status |-> "pending_review", setupProgress |-> 10, approvedAt |-> FALSE]
  <2>10. new \in SchoolRows
    BY DEF SchoolRows, Taken
  <2>11. new # None
    BY <2>10, NoneIsNoSchool
  <2>5. /\ db' = [schools |-> db'.schools, reviews |-> db'.reviews,
                  announced |-> db'.announced, tenancies |-> db'.tenancies]
        /\ db'.schools = [db.schools EXCEPT ![s] = new]
        /\ db'.reviews = db.reviews /\ db'.tenancies = db.tenancies
    BY <1>4, <2>4 DEF CreateSchool, TenantInv, TenantTypes
  <2>6. /\ db'.schools[s] = new
        /\ \A q \in Slugs \ {s} : db'.schools[q] = db.schools[q]
        /\ db'.schools \in [Slugs -> SchoolRows \cup {None}]
    BY <2>4, <2>5, <2>10 DEF TenantInv, TenantTypes
  <2>7. Reviewing
    BY <2>4, <2>5, <2>6 DEF Reviewing, TenantInv, TenantTypes
  <2>8. \A q \in Slugs : SchoolOK(q)'
    <3>1. SchoolOK(s)'
      BY <2>4, <2>5, <2>6, <2>11 DEF SchoolOK, Registered, TenantInv
    <3>2. \A q \in Slugs \ {s} : SchoolOK(q)'
      BY <2>5, <2>6 DEF SchoolOK, Registered, TenantInv
    <3> QED
      BY <3>1, <3>2
  <2>9. TenantRequestOK(w)'
    BY <2>1, <2>2, <2>3 DEF TenantRequestOK, Moves
  <2> QED
    BY <2>2, <2>3, <2>5, <2>7, <2>8, <2>9, TenantStep DEF TenantInv, TenantTypes
<1>5. CASE AnnounceSchool(w)
  <2>1. todo[w] # <<>> /\ Head(todo[w]) = "announceSchool"
    BY <1>5 DEF AnnounceSchool, At
  <2>2. Tail(todo[w]) = <<>>
    BY <1>1, <2>1, TenantRoute
  <2>3. Moves(w, <<>>, None)
    BY <1>1, <1>5, <2>2, ProceedMoves DEF AnnounceSchool
  <2>4. /\ db' = [schools |-> db'.schools, reviews |-> db'.reviews,
                  announced |-> db'.announced, tenancies |-> db'.tenancies]
        /\ db'.schools = db.schools /\ db'.reviews = db.reviews /\ db'.tenancies = db.tenancies
    BY <1>5 DEF AnnounceSchool, TenantInv, TenantTypes
  <2>5. Reviewing
    BY <2>4 DEF Reviewing, TenantInv, TenantTypes
  <2>6. (\A q \in Slugs : SchoolOK(q)') /\ TenantRequestOK(w)' /\ <<>> \in TenantTodo
    BY <2>3, <2>4 DEF SchoolOK, Registered, TenantRequestOK, Moves, Idle, TenantTodo, TenantInv
  <2> QED
    BY <2>3, <2>4, <2>5, <2>6, TenantStep DEF TenantInv, TenantTypes
<1> QED
  BY <1>2, <1>3, <1>4, <1>5

\* Reviews: the status and the audit trail change in one transaction.
LEMMA ReviewSteps ==
  ASSUME TenantInv, NEW w \in Workers,
         reviewSchool(w) \/ CheckReview(w) \/ Transition(w)
  PROVE  TenantInv'
<1>1. Slots /\ todo[w] \in TenantTodo
  BY DEF TenantInv, TenantTypes
<1>2. CASE reviewSchool(w)
  <2>1. PICK s \in Slugs, action \in DOMAIN allowed :
            SchoolRequest(w, <<"checkReview", "transition">>, s, action)
    BY <1>2 DEF reviewSchool
  <2> DEFINE steps == <<"checkReview", "transition">>
             locals == [id |-> s, action |-> action, at |-> 0]
  <2>2. Moves(w, steps, locals) /\ UNCHANGED db
    BY <1>1, <2>1, TakeMoves DEF SchoolRequest
  <2>3. steps \in TenantTodo /\ locals \in TenantLocals /\ Head(steps) = "checkReview"
        /\ locals.action \in DOMAIN allowed
    BY DEF TenantTodo, TenantLocals
  <2> HIDE DEF steps, locals
  <2> QED
    BY <2>2, <2>3, TenantReads
<1>3. CASE CheckReview(w)
  <2> DEFINE locals == [arg[w] EXCEPT !.at = Len(db.reviews[arg[w].id])]
  <2>1. /\ todo[w] # <<>> /\ Head(todo[w]) = "checkReview" /\ UNCHANGED db
        /\ Registered(arg[w].id) /\ db.schools[arg[w].id].status \in allowed[arg[w].action]
    BY <1>3 DEF CheckReview, At
  <2>2. Tail(todo[w]) \in TenantTodo /\ Tail(todo[w]) # <<>> /\ Head(Tail(todo[w])) = "transition"
    BY <1>1, <2>1, TenantRoute
  <2>3. Moves(w, Tail(todo[w]), locals)
    BY <1>1, <1>3, <2>2, ProceedWithMoves DEF CheckReview
  <2>4. arg[w] \in TenantLocals /\ arg[w].action \in DOMAIN allowed
    BY <2>1 DEF TenantInv, TenantRequestOK, Idle
  <2>5. db.reviews[arg[w].id] \in Seq(DOMAIN allowed)
    BY <2>4 DEF TenantInv, TenantTypes, TenantLocals
  <2>6. /\ locals \in TenantLocals /\ locals.id = arg[w].id /\ locals.action = arg[w].action
        /\ locals.at = Len(db.reviews[arg[w].id])
    BY <2>4, <2>5 DEF TenantLocals
  <2> HIDE DEF locals
  <2> QED
    BY <2>1, <2>2, <2>3, <2>4, <2>6, TenantReads
<1>4. CASE Transition(w)
  <2>1. todo[w] # <<>> /\ Head(todo[w]) = "transition"
    BY <1>4 DEF Transition, At
  <2>2. Tail(todo[w]) = <<>>
    BY <1>1, <2>1, TenantRoute
  <2>3. Moves(w, <<>>, None)
    BY <1>1, <1>4, <2>2, ProceedMoves DEF Transition
  <2>0. PICK s, a, new : /\ s \in Slugs /\ a \in DOMAIN allowed /\ s = arg[w].id /\ a = arg[w].action
                        /\ new = reviewed(db.schools[s], a)
    BY <2>1 DEF TenantInv, TenantRequestOK, Idle, TenantLocals
  <2>4. s \in Slugs /\ a \in DOMAIN allowed /\ Registered(s) /\ db.schools[s] \in SchoolRows
        /\ db.reviews[s] \in Seq(DOMAIN allowed) /\ SchoolOK(s)
    BY <2>0, <2>1 DEF TenantInv, TenantTypes, TenantRequestOK, Idle, TenantLocals, Registered
  <2>5. /\ db' = [schools |-> db'.schools, reviews |-> db'.reviews,
                  announced |-> db'.announced, tenancies |-> db'.tenancies]
        /\ db'.schools = [db.schools EXCEPT ![s] = new]
        /\ db'.reviews = [db.reviews EXCEPT ![s] = Append(@, a)]
        /\ db'.tenancies = db.tenancies
    BY <1>4, <2>0 DEF Transition, TenantInv, TenantTypes
  <2>6. new \in SchoolRows /\ (new.approvedAt <=> new.setupProgress = 30) /\ new.status = Outcome[a]
    BY <2>0, <2>4, ReviewedSchool DEF SchoolOK
  <2>7. /\ db'.schools[s] = new /\ db'.reviews[s] = Append(db.reviews[s], a)
        /\ \A q \in Slugs \ {s} : db'.schools[q] = db.schools[q] /\ db'.reviews[q] = db.reviews[q]
        /\ db'.schools \in [Slugs -> SchoolRows \cup {None}]
        /\ db'.reviews \in [Slugs -> Seq(DOMAIN allowed)]
    BY <2>4, <2>5, <2>6 DEF TenantInv, TenantTypes
  <2>8. Reviewing
    <3>1. db.schools[s] # None /\ db'.schools[s] # None
      BY <2>4, <2>6, <2>7, NoneIsNoSchool DEF Registered
    <3> QED
      BY <2>4, <2>5, <2>7, <3>1 DEF Reviewing
  <2>9. \A q \in Slugs : SchoolOK(q)'
    <3>1. db'.reviews[s] # <<>> /\ db'.reviews[s][Len(db'.reviews[s])] = a
      BY <2>4, <2>7
    <3>2. db'.schools[s] # None /\ db'.schools[s].status = Outcome[a]
      BY <2>6, <2>7, NoneIsNoSchool
    <3>4. db'.schools[s].approvedAt <=> db'.schools[s].setupProgress = 30
      BY <2>6, <2>7
    <3>5. SchoolOK(s)'
      BY <3>1, <3>2, <3>4 DEF SchoolOK, Registered
    <3>3. \A q \in Slugs \ {s} : SchoolOK(q)'
      BY <2>7 DEF SchoolOK, Registered, TenantInv
    <3> QED
      BY <3>3, <3>5
  <2>10. TenantRequestOK(w)' /\ <<>> \in TenantTodo
    BY <2>3 DEF TenantRequestOK, Moves, Idle, TenantTodo
  <2> QED
    BY <2>3, <2>5, <2>8, <2>9, <2>10, TenantStep DEF TenantInv, TenantTypes
<1> QED
  BY <1>2, <1>3, <1>4

\* Resolution: only an active school is let through.
LEMMA ResolutionSteps ==
  ASSUME TenantInv, NEW w \in Workers,
         tenantRequest(w) \/ ResolveTenant(w) \/ ServeTenant(w) \/ Fail(w)
  PROVE  TenantInv'
<1>1. Slots /\ todo[w] \in TenantTodo
  BY DEF TenantInv, TenantTypes
<1>2. CASE tenantRequest(w)
  <2>1. PICK s \in Slugs : SchoolRequest(w, <<"resolve", "serveTenant">>, s, None)
    BY <1>2 DEF tenantRequest
  <2> DEFINE steps == <<"resolve", "serveTenant">>
             locals == [id |-> s, action |-> None, at |-> 0]
  <2>2. Moves(w, steps, locals) /\ UNCHANGED db
    BY <1>1, <2>1, TakeMoves DEF SchoolRequest
  <2>3. steps \in TenantTodo /\ locals \in TenantLocals /\ Head(steps) = "resolve"
    BY DEF TenantTodo, TenantLocals
  <2> HIDE DEF steps, locals
  <2> QED
    BY <2>2, <2>3, TenantReads
<1>3. CASE ResolveTenant(w)
  <2>1. /\ todo[w] # <<>> /\ Head(todo[w]) = "resolve" /\ UNCHANGED db
        /\ Registered(arg[w].id) /\ db.schools[arg[w].id].status \in {"approved", "active"}
    BY <1>3 DEF ResolveTenant, At, ACTIVE_TENANT_STATUSES
  <2>2. Tail(todo[w]) \in TenantTodo /\ Tail(todo[w]) # <<>> /\ Head(Tail(todo[w])) = "serveTenant"
    BY <1>1, <2>1, TenantRoute
  <2>3. Moves(w, Tail(todo[w]), arg[w]) /\ arg[w] \in TenantLocals
    BY <1>1, <1>3, <2>1, <2>2, ProceedMoves DEF ResolveTenant, TenantInv, TenantRequestOK, Idle
  <2>4. ApprovedOnce(arg[w].id)
    BY <2>1, <2>3, ActiveIsApproved DEF TenantLocals
  <2> QED
    BY <2>1, <2>2, <2>3, <2>4, TenantReads
<1>4. CASE ServeTenant(w)
  <2>1. todo[w] # <<>> /\ Head(todo[w]) = "serveTenant"
    BY <1>4 DEF ServeTenant, At
  <2>2. Tail(todo[w]) = <<>>
    BY <1>1, <2>1, TenantRoute
  <2>3. Moves(w, <<>>, None)
    BY <1>1, <1>4, <2>2, ProceedMoves DEF ServeTenant
  <2>4. arg[w].id \in Slugs /\ ApprovedOnce(arg[w].id)
    BY <2>1 DEF TenantInv, TenantRequestOK, Idle, TenantLocals
  <2>5. /\ db' = [schools |-> db'.schools, reviews |-> db'.reviews,
                  announced |-> db'.announced, tenancies |-> db'.tenancies]
        /\ db'.schools = db.schools /\ db'.reviews = db.reviews
        /\ db'.tenancies = db.tenancies \cup {arg[w].id}
    BY <1>4 DEF ServeTenant, TenantInv, TenantTypes
  <2>6. Reviewing
    BY <2>5 DEF Reviewing, TenantInv, TenantTypes
  <2>7. (\A q \in Slugs : SchoolOK(q)') /\ TenantRequestOK(w)' /\ <<>> \in TenantTodo
    BY <2>3, <2>5 DEF SchoolOK, Registered, TenantRequestOK, Moves, Idle, TenantTodo, TenantInv
  <2>8. \A q \in db'.tenancies \ db.tenancies : ApprovedOnce(q)'
    BY <2>4, <2>5, <2>6, ReviewingKeeps
  <2> QED
    BY <2>3, <2>4, <2>5, <2>6, <2>7, <2>8, TenantStep DEF TenantInv, TenantTypes
<1>5. CASE Fail(w)
  <2>1. Moves(w, <<>>, None) /\ UNCHANGED db /\ <<>> \in TenantTodo
    BY <1>1, <1>5, FailMoves DEF TenantTodo
  <2> QED
    BY <2>1, TenantReads
<1> QED
  BY <1>2, <1>3, <1>4, <1>5

\* A behaviour of the tenant registry has only its own steps.
LEMMA TenantsAlone ==
  ASSUME service = "tenants", Next
  PROVE  TenantsNext
BY DEF Next

\* Every step of any service keeps the invariant of the tenant registry.
LEMMA TenantsKeep ==
  ASSUME service = "tenants" => TenantInv, [Next]_vars
  PROVE  (service = "tenants" => TenantInv)'
<1>1. service' = service
  BY ServiceKept DEF Kept
<1> SUFFICES ASSUME service = "tenants", TenantInv
             PROVE  TenantInv'
  BY <1>1
<1>2. CASE UNCHANGED vars
  BY <1>2 DEF vars, TenantInv, TenantTypes, TenantRequestOK, SchoolOK, ApprovedOnce, Slots, Idle, Registered
<1>3. CASE Next
  BY <1>3, TenantsAlone, RegisterSteps, ReviewSteps, ResolutionSteps DEF TenantsNext
<1> QED
  BY <1>2, <1>3

\* The invariant of the tenant registry holds at the beginning.
LEMMA TenantsStart == Init => (service = "tenants" => TenantInv)
<1> SUFFICES ASSUME Init, service = "tenants"
             PROVE  TenantInv
  OBVIOUS
<1>1. TenantsInit
  BY DEF Init, NotificationsInit, AlumniInit, GraduationsInit, ResourcesInit, RegistrarInit, ProfessorsInit,
     ApplicationsInit, BillingInit, Start
<1>2. /\ todo = [w \in Workers |-> <<>>] /\ arg = [w \in Workers |-> None]
      /\ db = [schools |-> [s \in Slugs |-> None], reviews |-> [s \in Slugs |-> <<>>],
               announced |-> {}, tenancies |-> {}]
  BY <1>1 DEF TenantsInit, Start, TenantTables
<1>3. TenantTypes
  BY <1>2 DEF TenantTypes, Slots, TenantTodo
<1> QED
  BY <1>2, <1>3 DEF TenantInv, TenantRequestOK, SchoolOK, Registered, Idle

\* The inductive invariant of the tenant registry.
THEOREM TenantInvariant == Spec => [](service = "tenants" => TenantInv)
<1>1. Init => (service = "tenants" => TenantInv)
  BY TenantsStart
<1>2. (service = "tenants" => TenantInv) /\ [Next]_vars => (service = "tenants" => TenantInv)'
  BY TenantsKeep
<1> QED
  BY <1>1, <1>2, PTL DEF Spec

\* However reviews overlap, the audit trail of a school ends with the review
\* that gave it its status, and nobody is served for, or finds, a school that
\* no review approved.
THEOREM ReviewsAreTrailed == Spec => []ReviewTrail
<1>1. (service = "tenants" => TenantInv) => ReviewTrail
  <2> SUFFICES ASSUME service = "tenants", TenantInv
               PROVE  ReviewTrail
    BY DEF ReviewTrail
  <2>1. \A s \in publicSchools \cup db.tenancies : ApprovedOnce(s)
    BY ActiveIsApproved DEF publicSchools, TenantInv
  <2>2. \A s \in Slugs : Registered(s) =>
            db.schools[s].status = IF db.reviews[s] = <<>> THEN "pending_review"
                                   ELSE Outcome[db.reviews[s][Len(db.reviews[s])]]
    BY DEF TenantInv, SchoolOK
  <2> QED
    BY <2>1, <2>2 DEF ReviewTrail, ApprovedOnce
<1> QED
  BY <1>1, TenantInvariant, PTL

\* No step moves two requests.
LEMMA TenantMover ==
  ASSUME Slots, NEW v \in Workers, TenantsNext!(v), NEW w \in Workers, todo'[w] # todo[w]
  PROVE  v = w
BY DEF Slots, registerSchool, FindSlug, CreateSchool, AnnounceSchool, reviewSchool, CheckReview,
       Transition, tenantRequest, ResolveTenant, ServeTenant, SchoolRequest, Fail, Take, Proceed,
       ProceedWith, GoOn, Answer

\* LoneReviewAllowed, of one step.
LoneReview == service = "tenants" => \A w \in Workers :
    At(w, "transition") /\ db' # db /\ todo'[w] # todo[w]
      /\ arg[w].at = Len(db.reviews[arg[w].id]) =>
        <<db.schools[arg[w].id].status, db'.schools[arg[w].id].status>> \in
            {<<"pending_review", "approved">>, <<"rejected", "approved">>, <<"pending_review", "rejected">>,
             <<"approved", "suspended">>, <<"suspended", "approved">>}

\* A review that no other one came in between follows the life cycle of a
\* school: the status that it checked is the one that it changes.
THEOREM LoneReviewsAreAllowed == Spec => LoneReviewAllowed
<1>1. ASSUME service = "tenants", TenantInv, [Next]_vars, NEW w \in Workers,
             At(w, "transition"), db' # db, todo'[w] # todo[w], arg[w].at = Len(db.reviews[arg[w].id])
      PROVE  <<db.schools[arg[w].id].status, db'.schools[arg[w].id].status>> \in
                {<<"pending_review", "approved">>, <<"rejected", "approved">>, <<"pending_review", "rejected">>,
                 <<"approved", "suspended">>, <<"suspended", "approved">>}
  <2>1. PICK v \in Workers : TenantsNext!(v)
    BY <1>1, TenantsAlone DEF TenantsNext, vars
  <2>2. TenantsNext!(w)
    BY <1>1, <2>1, TenantMover DEF TenantInv, TenantTypes
  <2>3. At(w, "transition") /\ ~Idle(w)
    BY <1>1 DEF At, Idle
  <2>4. Transition(w)
    BY <1>1, <2>2, <2>3 DEF At, registerSchool, FindSlug, CreateSchool, AnnounceSchool, reviewSchool,
       CheckReview, tenantRequest, ResolveTenant, ServeTenant, SchoolRequest, Take, Fail
  <2>5. PICK s \in Slugs, a \in DOMAIN allowed :
            /\ s = arg[w].id /\ a = arg[w].action
            /\ db.schools[s].status \in allowed[a] /\ db.schools[s] \in SchoolRows
    BY <1>1 DEF At, TenantInv, TenantTypes, TenantRequestOK, Idle, TenantLocals, Registered
  <2>6. db'.schools[s] = reviewed(db.schools[s], a)
    BY <1>1, <2>4, <2>5 DEF Transition, TenantInv, TenantTypes
  <2>7. db'.schools[s].status = Outcome[a]
    BY <2>5, <2>6 DEF reviewed, Outcome, allowed, SchoolRows
  <2>8. \/ db.schools[s].status \in {"pending_review", "rejected"} /\ db'.schools[s].status = "approved"
        \/ db.schools[s].status = "pending_review" /\ db'.schools[s].status = "rejected"
        \/ db.schools[s].status = "approved" /\ db'.schools[s].status = "suspended"
        \/ db.schools[s].status = "suspended" /\ db'.schools[s].status = "approved"
    BY <2>5, <2>7 DEF Outcome, allowed
  <2> QED
    BY <2>5, <2>8
<1>2. (service = "tenants" => TenantInv) /\ [Next]_vars => [LoneReview]_vars
  BY <1>1 DEF LoneReview
<1> QED
  BY <1>2, TenantInvariant, PTL DEF Spec, LoneReviewAllowed, LoneReview

-----------------------------------------------------------------------------
(* Notifications, of the notification service itself *)

NotificationTodo == {<<>>,
    <<"noticeRow", "createdAudit">>, <<"createdAudit">>, <<"markRead", "readAudit">>, <<"readAudit">>,
    <<"readAllAudit">>}

\* A notice that is there, or the name of none.
Known(id) == id \in db.notices \/ id.number = 0

\* What an audit may say that the profile has read: its own notice, when it is
\* read, and over PostgreSQL any other.
ReadBy(id, profile) ==
    LET own == {n \in db.notices : n.profile = profile}
    IN  /\ id \in own => id \notin db.unread
        /\ id \in own \/ usePostgres("notifications")

\* Requests are about notices that are there, or about none; one that is to be
\* audited as read can be.  One that is to be written will get a name.
NotificationRequestOK(w) == ~Idle(w) =>
    /\ Head(todo[w]) = "noticeRow" => "id" \in DOMAIN arg[w]
    /\ Head(todo[w]) = "createdAudit" => arg[w].id \in db.notices
    /\ Head(todo[w]) \in {"markRead", "readAudit"} => Known(arg[w].id)
    /\ Head(todo[w]) = "readAudit" => ReadBy(arg[w].id, arg[w].profile)

NotificationTablesOK ==
    /\ db = [notices |-> db.notices, unread |-> db.unread, noticeAudits |-> db.noticeAudits]
    /\ IsFiniteSet(db.notices)
    /\ \A n \in db.notices : n.number \in 1 .. Cardinality(db.notices)
    /\ db.unread \subseteq db.notices
    /\ \A a \in db.noticeAudits :
          /\ a[1] \in {"created", "skipped", "read", "readAll"}
          /\ a[1] = "created" => a[2] \in db.notices
          /\ a[1] = "read" => Known(a[2]) /\ ReadBy(a[2], a[3])

NotificationInv ==
    /\ Slots
    /\ \A w \in Workers : todo[w] \in NotificationTodo
    /\ NotificationTablesOK
    /\ \A w \in Workers : NotificationRequestOK(w)

\* What follows each step of a request about notices.
LEMMA NotificationRoute ==
  ASSUME NEW r \in NotificationTodo, r # <<>>
  PROVE  /\ Tail(r) \in NotificationTodo
         /\ Head(r) \in {"noticeRow", "createdAudit", "markRead", "readAudit", "readAllAudit"}
         /\ Head(r) = "noticeRow" => Tail(r) # <<>> /\ Head(Tail(r)) = "createdAudit"
         /\ Head(r) = "markRead" => Tail(r) # <<>> /\ Head(Tail(r)) = "readAudit"
         /\ Head(r) \in {"createdAudit", "readAudit", "readAllAudit"} => Tail(r) = <<>>
<1>1. /\ Head(<<"noticeRow", "createdAudit">>) = "noticeRow"
      /\ Tail(<<"noticeRow", "createdAudit">>) = <<"createdAudit">>
      /\ Head(<<"createdAudit">>) = "createdAudit" /\ Tail(<<"createdAudit">>) = <<>>
      /\ <<"createdAudit">> # <<>>
  OBVIOUS
<1>2. /\ Head(<<"markRead", "readAudit">>) = "markRead" /\ Tail(<<"markRead", "readAudit">>) = <<"readAudit">>
      /\ Head(<<"readAudit">>) = "readAudit" /\ Tail(<<"readAudit">>) = <<>>
      /\ Head(<<"readAllAudit">>) = "readAllAudit" /\ Tail(<<"readAllAudit">>) = <<>>
      /\ <<"readAudit">> # <<>>
  OBVIOUS
<1> QED
  BY <1>1, <1>2 DEF NotificationTodo

\* Whatever is written, no notice gets the name of one that a request knows,
\* and what was read stays so.
NoticesGrow ==
    /\ configured' = configured
    /\ db.notices \subseteq db'.notices
    /\ \A id : Known(id) => /\ id \in db'.notices => id \in db.notices
                            /\ id \in db'.unread => id \in db.unread

\* What could be audited as read still can.
LEMMA ReadStays ==
  ASSUME NoticesGrow, NEW id, NEW profile, Known(id)
  PROVE  Known(id)' /\ (ReadBy(id, profile) => ReadBy(id, profile)')
BY DEF NoticesGrow, Known, ReadBy, usePostgres

\* A request about notices that goes on keeps the invariant, when the tables do.
LEMMA NotificationStep ==
  ASSUME NotificationInv, NEW w \in Workers, NEW steps \in NotificationTodo, NEW locals,
         Moves(w, steps, locals), NoticesGrow, NotificationTablesOK', NotificationRequestOK(w)'
  PROVE  NotificationInv'
<1>1. ASSUME NEW v \in Workers \ {w}
      PROVE  NotificationRequestOK(v)'
  <2>1. NotificationRequestOK(v) /\ todo'[v] = todo[v] /\ arg'[v] = arg[v]
    BY DEF NotificationInv, Moves
  <2> PICK id, profile : id = arg[v].id /\ profile = arg[v].profile
    OBVIOUS
  <2>2. Known(id) => Known(id)' /\ (ReadBy(id, profile) => ReadBy(id, profile)')
    BY ReadStays
  <2>3. /\ Known(arg[v].id) <=> Known(id)
        /\ ReadBy(arg[v].id, arg[v].profile) <=> ReadBy(id, profile)
        /\ Known(arg[v].id)' <=> Known(id)'
        /\ ReadBy(arg[v].id, arg[v].profile)' <=> ReadBy(id, profile)'
    BY <2>1 DEF Known, ReadBy, usePostgres
  <2>4. ~Idle(v) => /\ Head(todo[v]) = "createdAudit" => arg'[v].id \in db'.notices
                    /\ Head(todo[v]) \in {"markRead", "readAudit"} => Known(arg[v].id)'
                    /\ Head(todo[v]) = "readAudit" => ReadBy(arg[v].id, arg[v].profile)'
    <3>1. ~Idle(v) /\ Head(todo[v]) = "createdAudit" => arg'[v].id \in db'.notices
      BY <2>1 DEF NotificationRequestOK, NoticesGrow
    <3> QED
      BY <2>1, <2>2, <2>3, <3>1 DEF NotificationRequestOK
  <2> QED
    BY <2>1, <2>4 DEF NotificationRequestOK, Idle
<1> QED
  BY <1>1 DEF NotificationInv, Moves

\* The statement that writes a notice: its number is one more than there were,
LEMMA NoticeInserts ==
  ASSUME NotificationInv, NEW w \in Workers, InsertCreatedNotice(w)
  PROVE  NotificationInv'
<1>1. Slots /\ todo[w] \in NotificationTodo /\ NotificationTablesOK /\ configured' = configured
  BY DEF NotificationInv, InsertCreatedNotice, ProceedWith, GoOn
<1>2. todo[w] # <<>> /\ Head(todo[w]) = "noticeRow"
  BY DEF InsertCreatedNotice, At
<1>3. Tail(todo[w]) \in NotificationTodo /\ Tail(todo[w]) # <<>> /\ Head(Tail(todo[w])) = "createdAudit"
  BY <1>1, <1>2, NotificationRoute
<1> PICK last \in Nat : last = Cardinality(db.notices)
  BY <1>1, FS_CardinalityType DEF NotificationTablesOK
<1> PICK notice : notice = [profile |-> arg[w].profile, number |-> last + 1]
  OBVIOUS
<1> PICK locals : locals = [arg[w] EXCEPT !.id = notice]
  OBVIOUS
<1>4. Moves(w, Tail(todo[w]), locals)
  BY <1>1, <1>3, ProceedWithMoves DEF InsertCreatedNotice
<1>5. /\ db' = [notices |-> db'.notices, unread |-> db'.unread, noticeAudits |-> db'.noticeAudits]
      /\ db'.notices = db.notices \cup {notice} /\ db'.unread = db.unread \cup {notice}
      /\ db'.noticeAudits = db.noticeAudits
  BY <1>1 DEF InsertCreatedNotice, NotificationTablesOK
<1>6. notice.number = last + 1 /\ notice \notin db.notices
  BY <1>1 DEF NotificationTablesOK
<1>7. NoticesGrow
  BY <1>1, <1>5, <1>6 DEF NoticesGrow, Known
<1>8. IsFiniteSet(db'.notices) /\ Cardinality(db'.notices) = last + 1
  <2>1. IsFiniteSet(db.notices)
    BY <1>1 DEF NotificationTablesOK
  <2>2. IsFiniteSet(db.notices \cup {notice}) /\ Cardinality(db.notices \cup {notice}) = last + 1
    BY <1>6, <2>1, FS_AddElement
  <2> QED
    BY <1>5, <2>2
<1>9. \A n \in db'.notices : n.number \in 1 .. (last + 1)
  BY <1>1, <1>5, <1>6 DEF NotificationTablesOK
<1>10. \A a \in db.noticeAudits :
           /\ a[1] = "created" => a[2] \in db'.notices
           /\ a[1] = "read" => Known(a[2])' /\ ReadBy(a[2], a[3])'
  BY <1>1, <1>5, <1>7, ReadStays DEF NotificationTablesOK
<1>11. NotificationTablesOK'
  BY <1>1, <1>5, <1>8, <1>9, <1>10 DEF NotificationTablesOK
<1>12. NotificationRequestOK(w)'
  <2>1. locals.id = notice
    BY <1>1, <1>2 DEF NotificationInv, NotificationRequestOK, Idle
  <2> QED
    BY <1>3, <1>4, <1>5, <2>1 DEF NotificationRequestOK, Moves
<1> QED
  BY <1>3, <1>4, <1>7, <1>11, <1>12, NotificationStep

\* and the one that marks it as read, for its own profile.
LEMMA NoticeReads ==
  ASSUME NotificationInv, NEW w \in Workers, UpdateRead(w)
  PROVE  NotificationInv'
<1>1. Slots /\ todo[w] \in NotificationTodo /\ NotificationRequestOK(w) /\ NotificationTablesOK
      /\ configured' = configured
  BY DEF NotificationInv, UpdateRead, Proceed, GoOn
<1>2. todo[w] # <<>> /\ Head(todo[w]) = "markRead"
  BY DEF UpdateRead, At
<1>3. Tail(todo[w]) \in NotificationTodo /\ Tail(todo[w]) # <<>> /\ Head(Tail(todo[w])) = "readAudit"
  BY <1>1, <1>2, NotificationRoute
<1>4. Moves(w, Tail(todo[w]), arg[w])
  BY <1>1, <1>3, ProceedMoves DEF UpdateRead
<1> PICK id, profile : id = arg[w].id /\ profile = arg[w].profile
  OBVIOUS
<1> PICK own : own = {n \in db.notices : n = id /\ n.profile = profile}
  OBVIOUS
<1>5. /\ db' = [notices |-> db'.notices, unread |-> db'.unread, noticeAudits |-> db'.noticeAudits]
      /\ db'.notices = db.notices /\ db'.unread = db.unread \ own
      /\ db'.noticeAudits = db.noticeAudits
      /\ usePostgres("notifications") \/ own # {}
  BY <1>1 DEF UpdateRead, NoticeOf, NotificationTablesOK
<1>6. NoticesGrow
  BY <1>1, <1>5 DEF NoticesGrow
<1>7. \A a \in db.noticeAudits : a[1] = "read" => Known(a[2])' /\ ReadBy(a[2], a[3])'
  BY <1>1, <1>6, ReadStays DEF NotificationTablesOK
<1>8. NotificationTablesOK'
  BY <1>1, <1>5, <1>7 DEF NotificationTablesOK
<1>9. Known(id)' /\ ReadBy(id, profile)'
  <2>1. Known(id)
    BY <1>1, <1>2 DEF NotificationRequestOK, Idle
  <2>2. ReadBy(id, profile)'
    BY <1>1, <1>5 DEF ReadBy, usePostgres
  <2> QED
    BY <1>6, <2>1, <2>2, ReadStays
<1>10. Known(arg[w].id)' /\ ReadBy(arg[w].id, arg[w].profile)'
  BY <1>4, <1>9 DEF Moves, Known, ReadBy, usePostgres
<1>11. NotificationRequestOK(w)'
  BY <1>3, <1>4, <1>10 DEF NotificationRequestOK, Moves
<1> QED
  BY <1>3, <1>4, <1>6, <1>8, <1>11, NotificationStep

\* The audits, each of what its request has done.
LEMMA NoticeAuditing ==
  ASSUME NotificationInv, NEW w \in Workers, AuditCreatedNotice(w) \/ AuditRead(w) \/ AuditReadAll(w)
  PROVE  NotificationInv'
<1>1. Slots /\ todo[w] \in NotificationTodo /\ NotificationRequestOK(w) /\ NotificationTablesOK
  BY DEF NotificationInv
<1>2. todo[w] # <<>> /\ Proceed(w) /\ configured' = configured
  BY DEF AuditCreatedNotice, AuditRead, AuditReadAll, At, Proceed, GoOn
<1> PICK id, profile : id = arg[w].id /\ profile = arg[w].profile
  OBVIOUS
<1>3. PICK audit : /\ db' \in {db, [db EXCEPT !.noticeAudits = @ \cup {audit}]}
                   /\ \/ audit = <<"created", id>> /\ Head(todo[w]) = "createdAudit"
                      \/ audit = <<"read", id, profile>> /\ Head(todo[w]) = "readAudit"
                      \/ audit = <<"readAll", id>> /\ Head(todo[w]) = "readAllAudit"
  <2>1. CASE AuditCreatedNotice(w)
    <3> PICK audit : audit = <<"created", id>>
      OBVIOUS
    <3>1. db' \in {db, [db EXCEPT !.noticeAudits = @ \cup {audit}]} /\ Head(todo[w]) = "createdAudit"
      BY <2>1 DEF AuditCreatedNotice, AuditNotice, NoticeOf, At
    <3> QED
      BY <3>1
  <2>2. CASE AuditRead(w)
    <3> PICK audit : audit = <<"read", id, profile>>
      OBVIOUS
    <3>1. db' \in {db, [db EXCEPT !.noticeAudits = @ \cup {audit}]} /\ Head(todo[w]) = "readAudit"
      BY <2>2 DEF AuditRead, AuditNotice, NoticeOf, At
    <3> QED
      BY <3>1
  <2>3. CASE AuditReadAll(w)
    <3> PICK audit : audit = <<"readAll", id>>
      OBVIOUS
    <3>1. db' \in {db, [db EXCEPT !.noticeAudits = @ \cup {audit}]} /\ Head(todo[w]) = "readAllAudit"
      BY <2>3 DEF AuditReadAll, AuditNotice, NoticeOf, At
    <3> QED
      BY <3>1
  <2> QED
    BY <2>1, <2>2, <2>3
<1>4. Tail(todo[w]) = <<>>
  BY <1>1, <1>2, <1>3, NotificationRoute
<1>5. Moves(w, <<>>, None) /\ <<>> \in NotificationTodo
  BY <1>1, <1>2, <1>4, ProceedMoves DEF NotificationTodo
<1>6. /\ db' = [notices |-> db'.notices, unread |-> db'.unread, noticeAudits |-> db'.noticeAudits]
      /\ db'.notices = db.notices /\ db'.unread = db.unread
      /\ db'.noticeAudits \subseteq db.noticeAudits \cup {audit}
  BY <1>1, <1>3 DEF NotificationTablesOK
<1>7. /\ audit[1] \in {"created", "skipped", "read", "readAll"}
      /\ audit[1] = "created" => audit[2] \in db.notices
      /\ audit[1] = "read" => Known(audit[2]) /\ ReadBy(audit[2], audit[3])
  <2>1. Head(todo[w]) = "createdAudit" => id \in db.notices
    BY <1>1, <1>2 DEF NotificationRequestOK, Idle
  <2>2. Head(todo[w]) = "readAudit" => Known(id) /\ ReadBy(id, profile)
    BY <1>1, <1>2 DEF NotificationRequestOK, Idle
  <2>3. CASE audit = <<"created", id>> /\ Head(todo[w]) = "createdAudit"
    BY <2>1, <2>3
  <2>4. CASE audit = <<"read", id, profile>> /\ Head(todo[w]) = "readAudit"
    BY <2>2, <2>4
  <2>5. CASE audit = <<"readAll", id>>
    BY <2>5
  <2> QED
    BY <1>3, <2>3, <2>4, <2>5
<1>8. NoticesGrow
  BY <1>2, <1>6 DEF NoticesGrow
<1>9. NotificationTablesOK'
  <2>1. \A a \in db'.noticeAudits :
            /\ a[1] \in {"created", "skipped", "read", "readAll"}
            /\ a[1] = "created" => a[2] \in db.notices
            /\ a[1] = "read" => Known(a[2]) /\ ReadBy(a[2], a[3])
    BY <1>1, <1>6, <1>7 DEF NotificationTablesOK
  <2>2. \A a \in db'.noticeAudits : a[1] = "read" => Known(a[2])' /\ ReadBy(a[2], a[3])'
    BY <1>8, <2>1, ReadStays
  <2> QED
    BY <1>1, <1>6, <2>1, <2>2 DEF NotificationTablesOK
<1>10. NotificationRequestOK(w)'
  BY <1>5 DEF NotificationRequestOK, Moves, Idle
<1> QED
  BY <1>5, <1>8, <1>9, <1>10, NotificationStep

\* A request about notices arrives or fails.
LEMMA NoticeRequests ==
  ASSUME NotificationInv, NEW w \in Workers, CreateNotice(w) \/ MarkRead(w) \/ MarkAllRead(w) \/ Fail(w)
  PROVE  NotificationInv'
<1>1. Slots /\ NotificationTablesOK /\ configured' = configured
  BY DEF NotificationInv, CreateNotice, MarkRead, MarkAllRead, Fail, Take, Answer, GoOn
<1>2. PICK steps \in NotificationTodo, locals \in {arg'[w]} :
          /\ Moves(w, steps, locals)
          /\ \/ steps = <<>> \/ Head(steps) = "readAllAudit"
             \/ Head(steps) = "noticeRow" /\ "id" \in DOMAIN locals
             \/ Head(steps) = "markRead" /\ Known(locals.id)
  <2>1. /\ <<"noticeRow", "createdAudit">> \in NotificationTodo /\ Head(<<"noticeRow", "createdAudit">>) = "noticeRow"
        /\ <<"markRead", "readAudit">> \in NotificationTodo /\ Head(<<"markRead", "readAudit">>) = "markRead"
        /\ <<"readAllAudit">> \in NotificationTodo /\ Head(<<"readAllAudit">>) = "readAllAudit"
        /\ <<>> \in NotificationTodo
    BY DEF NotificationTodo
  <2>2. \A steps, locals : Moves(w, steps, locals) => locals = arg'[w]
    BY DEF Moves
  <2>3. CASE CreateNotice(w)
    <3>1. PICK profile \in Profiles :
              Take("notifications", w, <<"noticeRow", "createdAudit">>, [id |-> None, profile |-> profile])
      BY <2>3 DEF CreateNotice
    <3>2. PICK locals : locals = [id |-> None, profile |-> profile] /\ "id" \in DOMAIN locals
      <4>1. "id" \in DOMAIN [id |-> None, profile |-> profile]
        OBVIOUS
      <4> QED
        BY <4>1
    <3>3. Moves(w, <<"noticeRow", "createdAudit">>, locals)
      BY <1>1, <3>1, <3>2, TakeMoves
    <3> QED
      BY <2>1, <2>2, <3>2, <3>3
  <2>4. CASE MarkRead(w)
    <3>1. PICK profile \in Profiles : \E id \in db.notices \cup {[profile |-> profile, number |-> 0]} :
              Take("notifications", w, <<"markRead", "readAudit">>, [id |-> id, profile |-> profile])
      BY <2>4 DEF MarkRead
    <3> PICK id \in db.notices \cup {[profile |-> profile, number |-> 0]} :
            Take("notifications", w, <<"markRead", "readAudit">>, [id |-> id, profile |-> profile])
      BY <3>1
    <3>2. Known(id)
      BY DEF Known
    <3>3. PICK locals : locals = [id |-> id, profile |-> profile] /\ locals.id = id
      OBVIOUS
    <3>4. Moves(w, <<"markRead", "readAudit">>, locals)
      BY <1>1, <3>3, TakeMoves
    <3> QED
      BY <2>1, <2>2, <3>2, <3>3, <3>4
  <2>5. CASE MarkAllRead(w)
    <3>1. PICK profile \in Profiles : Take("notifications", w, <<"readAllAudit">>, [id |-> None, profile |-> profile])
      BY <2>5 DEF MarkAllRead
    <3>2. Moves(w, <<"readAllAudit">>, [id |-> None, profile |-> profile])
      BY <1>1, <3>1, TakeMoves
    <3> QED
      BY <2>1, <2>2, <3>2
  <2>6. CASE Fail(w)
    BY <1>1, <2>1, <2>2, <2>6, FailMoves
  <2> QED
    BY <2>3, <2>4, <2>5, <2>6
<1>3. /\ db' = [notices |-> db'.notices, unread |-> db'.unread, noticeAudits |-> db'.noticeAudits]
      /\ db'.notices = db.notices /\ db'.unread \subseteq db.unread /\ db'.noticeAudits = db.noticeAudits
  BY <1>1 DEF CreateNotice, MarkRead, MarkAllRead, Fail, NotificationTablesOK
<1>4. NoticesGrow
  BY <1>1, <1>3 DEF NoticesGrow
<1>5. NotificationTablesOK'
  <2>1. \A a \in db.noticeAudits : a[1] = "read" => Known(a[2])' /\ ReadBy(a[2], a[3])'
    BY <1>1, <1>4, ReadStays DEF NotificationTablesOK
  <2> QED
    BY <1>1, <1>3, <2>1 DEF NotificationTablesOK
<1>6. NotificationRequestOK(w)'
  BY <1>2, <1>3 DEF NotificationRequestOK, Moves, Known, Idle
<1> QED
  BY <1>2, <1>4, <1>5, <1>6, NotificationStep

\* Every step of any service keeps the invariant of notifications.
LEMMA NotificationsKeep ==
  ASSUME service = "notifications" => NotificationInv, [Next]_vars
  PROVE  (service = "notifications" => NotificationInv)'
<1>1. service' = service
  BY ServiceKept DEF Kept
<1> SUFFICES ASSUME service = "notifications", NotificationInv
             PROVE  NotificationInv'
  BY <1>1
<1>2. CASE UNCHANGED vars
  BY <1>2 DEF vars, NotificationInv, NotificationTablesOK, NotificationRequestOK, Known, ReadBy, usePostgres,
     Slots, Idle, At
<1>3. CASE Next
  <2>1. PICK w \in Workers : NotificationsNext!(w)
    BY <1>3 DEF Next, NotificationsNext
  <2>2. ~(TryInsertNotice(w) \/ TryAuditNotice(w) \/ AuditSkippedNotice(w))
    BY NotificationRoute DEF NotificationInv, TryInsertNotice, TryAuditNotice, AuditSkippedNotice, At
  <2> QED
    BY <2>1, <2>2, NoticeInserts, NoticeReads, NoticeAuditing, NoticeRequests
<1> QED
  BY <1>2, <1>3

\* The invariant of notifications holds at the beginning.
LEMMA NotificationsStart == Init => (service = "notifications" => NotificationInv)
<1> SUFFICES ASSUME Init, service = "notifications"
             PROVE  NotificationInv
  OBVIOUS
<1>1. NotificationsInit
  BY DEF Init, AlumniInit, GraduationsInit, ResourcesInit, RegistrarInit, ProfessorsInit,
     ApplicationsInit, TenantsInit, BillingInit, Start
<1>2. /\ todo = [w \in Workers |-> <<>>] /\ arg = [w \in Workers |-> None]
      /\ db = [notices |-> {}, unread |-> {}, noticeAudits |-> {}]
  BY <1>1 DEF NotificationsInit, Start, NotificationTables
<1>3. IsFiniteSet({})
  BY FS_EmptySet
<1> QED
  BY <1>2, <1>3 DEF NotificationInv, NotificationTablesOK, NotificationRequestOK, NotificationTodo, Slots, Idle

-----------------------------------------------------------------------------
(* Grades *)

GradeTodo == {<<>>,
    <<"assertEnrollment">> \o <<"saveGrade">>, <<"saveGrade">>,
    <<"assertEnrollment">> \o <<"upsertGrade", "gradeAudit", "gradeEvent">>,
    <<"upsertGrade", "gradeAudit", "gradeEvent">>, <<"gradeAudit", "gradeEvent">>, <<"gradeEvent">>,
    <<"assertEnrollment">> \o <<"lockGrade", "notice", "gradeEvent">>,
    <<"lockGrade", "notice", "gradeEvent">>, <<"notice", "gradeEvent">>,
    <<"noticeAudit">> \o <<"gradeEvent">>, <<"noticeSkipped">> \o <<"gradeEvent">>}

GradeLocals == [id : Enrollees, mark : Marks, own : BOOLEAN]

\* A request writes a grade only after it found the class to be the
\* professor's, and audits a notice only after its row.
GradeRequestOK(w) == ~Idle(w) =>
    /\ arg[w] \in GradeLocals
    /\ Head(todo[w]) # "assertEnrollment" => arg[w].own
    /\ Head(todo[w]) = "noticeAudit" => arg[w].id \in db.notices

GradeTablesTyped ==
    /\ DOMAIN db = {"notices", "unread", "noticeAudits", "grades", "academicGrades", "gradeAudits",
                    "gradeEvents", "cut", "posts", "board"}
    /\ db.unread \subseteq db.notices
    /\ \A a \in db.noticeAudits : a[1] \in {"created", "skipped"} /\ (a[1] = "created" => a[2] \in db.notices)
    /\ db.grades \in [Enrollees -> GradeRows \cup {None}]
    /\ db.academicGrades \in [Enrollees -> GradeRows \cup {None}]
    /\ db.board \subseteq 1 .. db.posts

\* The grade that stands is by the professor of the class, locked, and
\* audited, cut off from its audit or about to be audited.
Trailed(e) == db.academicGrades[e] # None =>
    /\ db.academicGrades[e].own /\ db.academicGrades[e].locked
    /\ \/ <<e, db.academicGrades[e].mark>> \in db.gradeAudits \cup db.cut
       \/ \E w \in Workers : At(w, "gradeAudit") /\ arg[w].id = e /\ arg[w].mark = db.academicGrades[e].mark

GradeInv ==
    /\ Slots
    /\ \A w \in Workers : todo[w] \in GradeTodo
    /\ GradeTablesTyped
    /\ \A w \in Workers : GradeRequestOK(w)
    /\ \A e \in Enrollees : Trailed(e)

\* What follows each step of a request about grades.
LEMMA GradeRoute ==
  ASSUME NEW r \in GradeTodo, r # <<>>
  PROVE  /\ Tail(r) \in GradeTodo
         /\ Head(r) \in {"assertEnrollment", "saveGrade", "upsertGrade", "gradeAudit", "gradeEvent",
                         "lockGrade", "notice", "noticeAudit", "noticeSkipped"}
         /\ Head(r) \in {"saveGrade", "gradeEvent"} => Tail(r) = <<>>
         /\ Tail(r) # <<>> => Head(Tail(r)) \notin {"assertEnrollment", "noticeAudit"}
         /\ Head(r) = "upsertGrade" => Tail(r) # <<>> /\ Head(Tail(r)) = "gradeAudit"
         /\ Head(r) = "notice" => /\ <<"noticeAudit">> \o Tail(r) \in GradeTodo
                                  /\ <<"noticeSkipped">> \o Tail(r) \in GradeTodo
                                  /\ <<"noticeAudit">> \o Tail(r) # <<>>
                                  /\ <<"noticeSkipped">> \o Tail(r) # <<>>
                                  /\ Head(<<"noticeAudit">> \o Tail(r)) = "noticeAudit"
                                  /\ Head(<<"noticeSkipped">> \o Tail(r)) = "noticeSkipped"
         /\ Head(r) = "noticeAudit" => /\ <<"noticeSkipped">> \o Tail(r) \in GradeTodo
                                       /\ <<"noticeSkipped">> \o Tail(r) # <<>>
                                       /\ Head(<<"noticeSkipped">> \o Tail(r)) = "noticeSkipped"
<1> DEFINE ge == <<"gradeEvent">>
           nge == <<"notice", "gradeEvent">>
           lnge == <<"lockGrade", "notice", "gradeEvent">>
           age == <<"gradeAudit", "gradeEvent">>
           uage == <<"upsertGrade", "gradeAudit", "gradeEvent">>
           sg == <<"saveGrade">>
           asg == <<"assertEnrollment">> \o sg
           auage == <<"assertEnrollment">> \o uage
           alnge == <<"assertEnrollment">> \o lnge
           nage == <<"noticeAudit">> \o ge
           nsge == <<"noticeSkipped">> \o ge
           S == {"gradeEvent", "notice", "lockGrade", "gradeAudit", "upsertGrade", "saveGrade"}
<1>1. /\ Head(ge) = "gradeEvent" /\ Tail(ge) = <<>> /\ ge # <<>>
      /\ Head(nge) = "notice" /\ Tail(nge) = ge /\ nge # <<>>
      /\ Head(lnge) = "lockGrade" /\ Tail(lnge) = nge /\ lnge # <<>>
  OBVIOUS
<1>2. /\ Head(age) = "gradeAudit" /\ Tail(age) = ge /\ age # <<>>
      /\ Head(uage) = "upsertGrade" /\ Tail(uage) = age /\ uage # <<>>
      /\ Head(sg) = "saveGrade" /\ Tail(sg) = <<>> /\ sg # <<>>
  OBVIOUS
<1>3. ge \in Seq(S) /\ lnge \in Seq(S) /\ uage \in Seq(S) /\ sg \in Seq(S)
  OBVIOUS
<1>4. r \in {ge, nge, lnge, age, uage, sg, asg, auage, alnge, nage, nsge}
  BY DEF GradeTodo
<1>5. {<<>>, ge, nge, lnge, age, uage, sg, nage, nsge} \subseteq GradeTodo
  BY DEF GradeTodo
<1> HIDE DEF ge, nge, lnge, age, uage, sg, S
<1>6. /\ Head(asg) = "assertEnrollment" /\ Tail(asg) = sg
      /\ Head(auage) = "assertEnrollment" /\ Tail(auage) = uage
      /\ Head(alnge) = "assertEnrollment" /\ Tail(alnge) = lnge
      /\ Head(nage) = "noticeAudit" /\ Tail(nage) = ge /\ nage # <<>>
      /\ Head(nsge) = "noticeSkipped" /\ Tail(nsge) = ge /\ nsge # <<>>
  BY <1>3, Prefixed
<1>7. \/ Head(r) \in {"notice", "noticeAudit"} /\ Tail(r) = ge
      \/ Head(r) \notin {"notice", "noticeAudit"}
  <2> HIDE DEF asg, auage, alnge, nage, nsge
  <2> QED
    BY <1>1, <1>2, <1>4, <1>6
<1>8. /\ Tail(r) \in GradeTodo
      /\ Head(r) \in {"assertEnrollment", "saveGrade", "upsertGrade", "gradeAudit", "gradeEvent",
                      "lockGrade", "notice", "noticeAudit", "noticeSkipped"}
      /\ Head(r) \in {"saveGrade", "gradeEvent"} => Tail(r) = <<>>
      /\ Tail(r) # <<>> => Head(Tail(r)) \notin {"assertEnrollment", "noticeAudit"}
      /\ Head(r) = "upsertGrade" => Tail(r) # <<>> /\ Head(Tail(r)) = "gradeAudit"
  <2> HIDE DEF asg, auage, alnge, nage, nsge
  <2> QED
    BY <1>1, <1>2, <1>4, <1>5, <1>6, ZenonT(40)
<1> QED
  BY <1>5, <1>6, <1>7, <1>8

\* The grades on PostgreSQL stay, and so does what is known of them.
LEMMA TrailKept ==
  ASSUME GradeInv, NEW w \in Workers, NEW steps, NEW locals, Moves(w, steps, locals),
         db'.academicGrades = db.academicGrades,
         db.gradeAudits \subseteq db'.gradeAudits, db.cut \subseteq db'.cut,
         At(w, "gradeAudit") => Submission(w) \in db'.gradeAudits \cup db'.cut
  PROVE  \A e \in Enrollees : Trailed(e)'
<1> SUFFICES ASSUME NEW e \in Enrollees, db'.academicGrades[e] # None
             PROVE  Trailed(e)'
  BY DEF Trailed
<1>1. Trailed(e) /\ db.academicGrades[e] # None
  BY DEF GradeInv
<1>2. CASE <<e, db.academicGrades[e].mark>> \in db.gradeAudits \cup db.cut
  BY <1>1, <1>2 DEF Trailed
<1>3. ASSUME NEW v \in Workers, At(v, "gradeAudit"), arg[v].id = e, arg[v].mark = db.academicGrades[e].mark
      PROVE  Trailed(e)'
  <2>1. CASE v = w
    BY <1>1, <1>3, <2>1 DEF Trailed, Submission
  <2>2. CASE v # w
    BY <1>1, <1>3, <2>2 DEF Trailed, Moves, At
  <2> QED
    BY <2>1, <2>2
<1> QED
  BY <1>1, <1>2, <1>3 DEF Trailed

\* A request about grades that goes on keeps its own part of the invariant.
LEMMA GradeStep ==
  ASSUME GradeInv, NEW w \in Workers, NEW steps \in GradeTodo, NEW locals, Moves(w, steps, locals),
         GradeTablesTyped', db.notices \subseteq db'.notices,
         steps # <<>> => /\ locals \in GradeLocals
                         /\ Head(steps) # "assertEnrollment" => locals.own
                         /\ Head(steps) = "noticeAudit" => locals.id \in db'.notices,
         \A e \in Enrollees : Trailed(e)'
  PROVE  GradeInv'
<1>1. GradeRequestOK(w)'
  BY DEF GradeRequestOK, Moves, Idle
<1>2. \A v \in Workers \ {w} : GradeRequestOK(v)'
  BY DEF GradeInv, GradeRequestOK, Moves, Idle
<1> QED
  BY <1>1, <1>2 DEF GradeInv, Moves

\* A step that leaves the tables alone, but for notices.
LEMMA GradeSide ==
  ASSUME GradeInv, NEW w \in Workers, NEW steps \in GradeTodo, NEW locals, Moves(w, steps, locals),
         ~At(w, "gradeAudit"), GradeTablesTyped', db.notices \subseteq db'.notices,
         db'.academicGrades = db.academicGrades, db'.gradeAudits = db.gradeAudits, db'.cut = db.cut,
         steps # <<>> => /\ locals \in GradeLocals
                         /\ Head(steps) # "assertEnrollment" => locals.own
                         /\ Head(steps) = "noticeAudit" => locals.id \in db'.notices
  PROVE  GradeInv'
BY TrailKept, GradeStep

\* The step that a grade request is at, with what it has to go on.
LEMMA GradeAt ==
  ASSUME GradeInv, NEW w \in Workers, todo[w] # <<>>
  PROVE  /\ arg[w] \in GradeLocals
         /\ Head(todo[w]) # "assertEnrollment" => arg[w].own
         /\ Tail(todo[w]) \in GradeTodo
         /\ Tail(todo[w]) # <<>> => Head(Tail(todo[w])) \notin {"assertEnrollment", "noticeAudit"}
BY GradeRoute DEF GradeInv, GradeRequestOK, Idle

\* A request about grades arrives, is checked or fails.
LEMMA GradeRequests ==
  ASSUME GradeInv, NEW w \in Workers,
         saveProfessorGrade(w) \/ submitProfessorGrade(w) \/ AssertEnrollment(w)
  PROVE  GradeInv'
<1>1. Slots /\ UNCHANGED db
  BY DEF GradeInv, saveProfessorGrade, submitProfessorGrade, AssertEnrollment, GradeRequest
<1>2. GradeTablesTyped'
  BY <1>1 DEF GradeInv, GradeTablesTyped
<1>3. CASE saveProfessorGrade(w) \/ submitProfessorGrade(w)
  <2>1. PICK steps \in {<<"saveGrade">>, <<"upsertGrade", "gradeAudit", "gradeEvent">>,
                        <<"lockGrade", "notice", "gradeEvent">>} : GradeRequest(w, steps)
    BY <1>3 DEF saveProfessorGrade, submitProfessorGrade
  <2>2. PICK locals \in GradeLocals : Take("grades", w, <<"assertEnrollment">> \o steps, locals)
    <3>1. PICK e \in Enrollees, mark \in Marks, own \in BOOLEAN :
              Take("grades", w, <<"assertEnrollment">> \o steps, [id |-> e, mark |-> mark, own |-> own])
      BY <2>1 DEF GradeRequest
    <3>2. [id |-> e, mark |-> mark, own |-> own] \in GradeLocals
      BY DEF GradeLocals
    <3> QED
      BY <3>1, <3>2
  <2>3. Moves(w, <<"assertEnrollment">> \o steps, locals) /\ ~At(w, "gradeAudit")
    BY <1>1, <2>2, TakeMoves DEF Take, Idle, At
  <2>4. Head(<<"assertEnrollment">> \o steps) = "assertEnrollment"
    <3> DEFINE S == {"saveGrade", "upsertGrade", "gradeAudit", "gradeEvent", "lockGrade", "notice"}
    <3>1. /\ <<"saveGrade">> \in Seq(S) /\ <<"upsertGrade", "gradeAudit", "gradeEvent">> \in Seq(S)
          /\ <<"lockGrade", "notice", "gradeEvent">> \in Seq(S)
      OBVIOUS
    <3> HIDE DEF S
    <3> QED
      BY <3>1, Prefixed
  <2>5. <<"assertEnrollment">> \o steps \in GradeTodo
    BY DEF GradeTodo
  <2> QED
    BY <1>1, <1>2, <2>3, <2>4, <2>5, GradeSide
<1>4. CASE AssertEnrollment(w)
  <2>1. todo[w] # <<>> /\ Head(todo[w]) = "assertEnrollment" /\ arg[w].own
    BY <1>4 DEF AssertEnrollment, At
  <2>2. Moves(w, Tail(todo[w]), IF Tail(todo[w]) = <<>> THEN None ELSE arg[w]) /\ ~At(w, "gradeAudit")
    BY <1>1, <1>4, <2>1, ProceedMoves DEF AssertEnrollment, At
  <2> QED
    BY <1>1, <1>2, <2>1, <2>2, GradeAt, GradeSide
<1> QED
  BY <1>3, <1>4

\* The rows of grades that a step writes.
LEMMA GradeRowTyped ==
  ASSUME GradeInv, NEW w \in Workers, todo[w] # <<>>, Head(todo[w]) # "assertEnrollment", NEW locked \in BOOLEAN
  PROVE  /\ GradeRow(w, locked) \in GradeRows
         /\ GradeRow(w, locked).own /\ (GradeRow(w, locked).locked <=> locked)
         /\ GradeRow(w, locked).mark = arg[w].mark
         /\ arg[w].id \in Enrollees
BY GradeAt DEF GradeRow, GradeRows, GradeLocals

\* A grade is saved, locked or submitted.
LEMMA GradeWrites ==
  ASSUME GradeInv, NEW w \in Workers, SaveGrade(w) \/ LockGrade(w) \/ UpsertGrade(w)
  PROVE  GradeInv'
<1>1. Slots /\ GradeTablesTyped /\ todo[w] \in GradeTodo
  BY DEF GradeInv
<1>2. todo[w] # <<>> /\ Head(todo[w]) \in {"saveGrade", "lockGrade", "upsertGrade"}
      /\ Head(todo[w]) # "assertEnrollment" /\ ~At(w, "gradeAudit")
  BY DEF SaveGrade, LockGrade, UpsertGrade, At
<1>3. Moves(w, Tail(todo[w]), IF Tail(todo[w]) = <<>> THEN None ELSE arg[w])
  BY <1>1, ProceedMoves DEF SaveGrade, LockGrade, UpsertGrade
<1>4. PICK e \in Enrollees : e = arg[w].id
  BY <1>2, GradeRowTyped
<1>5. CASE SaveGrade(w) \/ LockGrade(w)
  <2>1. PICK locked \in BOOLEAN : db' = [db EXCEPT !.grades[e] = GradeRow(w, locked)]
    BY <1>4, <1>5 DEF SaveGrade, LockGrade
  <2>2. PICK row \in GradeRows : row = GradeRow(w, locked)
    BY <1>2, GradeRowTyped
  <2>3. /\ DOMAIN db' = DOMAIN db /\ db'.grades = [db.grades EXCEPT ![e] = row]
        /\ \A t \in DOMAIN db \ {"grades"} : db'[t] = db[t]
    BY <1>1, <2>1, <2>2 DEF GradeTablesTyped
  <2>4. GradeTablesTyped' /\ db'.notices = db.notices /\ db'.academicGrades = db.academicGrades
        /\ db'.gradeAudits = db.gradeAudits /\ db'.cut = db.cut
    BY <1>1, <2>3 DEF GradeTablesTyped
  <2> QED
    BY <1>2, <1>3, <2>4, GradeAt, GradeSide
<1>6. CASE UpsertGrade(w)
  <2>1. PICK row \in GradeRows : row = GradeRow(w, TRUE) /\ row.own /\ row.locked /\ row.mark = arg[w].mark
    BY <1>2, GradeRowTyped
  <2>2. db' = [db EXCEPT !.academicGrades[e] = row]
    BY <1>4, <1>6, <2>1 DEF UpsertGrade
  <2>8. /\ DOMAIN db' = DOMAIN db /\ db'.academicGrades = [db.academicGrades EXCEPT ![e] = row]
        /\ \A t \in DOMAIN db \ {"academicGrades"} : db'[t] = db[t]
    BY <1>1, <2>2 DEF GradeTablesTyped
  <2>9. /\ db'.notices = db.notices /\ db'.unread = db.unread /\ db'.noticeAudits = db.noticeAudits
        /\ db'.grades = db.grades /\ db'.board = db.board /\ db'.posts = db.posts
        /\ db'.gradeAudits = db.gradeAudits /\ db'.cut = db.cut
    BY <1>1, <2>8 DEF GradeTablesTyped
  <2>3. GradeTablesTyped'
    BY <1>1, <2>8, <2>9 DEF GradeTablesTyped
  <2>4. Tail(todo[w]) # <<>> /\ Head(Tail(todo[w])) = "gradeAudit"
    BY <1>1, <1>2, <1>6, GradeRoute DEF UpsertGrade, At
  <2>5. At(w, "gradeAudit")' /\ arg'[w] = arg[w]
    BY <1>3, <2>4 DEF Moves, At
  <2>6. Trailed(e)'
    BY <1>1, <1>4, <2>1, <2>8, <2>5 DEF Trailed, GradeTablesTyped
  <2>7. ASSUME NEW d \in Enrollees \ {e}
        PROVE  Trailed(d)'
    <3>1. Trailed(d) /\ db'.academicGrades[d] = db.academicGrades[d]
      BY <1>1, <2>8 DEF GradeInv, GradeTablesTyped
    <3>2. \A v \in Workers : At(v, "gradeAudit") => At(v, "gradeAudit")' /\ arg'[v] = arg[v]
      BY <1>2, <1>3 DEF Moves, At
    <3> QED
      BY <2>9, <3>1, <3>2 DEF Trailed
  <2> QED
    BY <1>2, <1>3, <2>3, <2>6, <2>7, <2>9, GradeAt, GradeStep
<1> QED
  BY <1>5, <1>6

\* A submitted grade is audited and published.
LEMMA GradeTrails ==
  ASSUME GradeInv, NEW w \in Workers, AuditGrade(w) \/ PublishGrade(w) \/ FailGrade(w)
  PROVE  GradeInv'
<1>1. Slots /\ GradeTablesTyped /\ todo[w] # <<>>
  BY DEF GradeInv, AuditGrade, PublishGrade, FailGrade, At, Idle
<1>2. \E steps, locals :
          /\ steps \in GradeTodo /\ Moves(w, steps, locals)
          /\ steps # <<>> => steps = Tail(todo[w]) /\ locals = arg[w] /\ Head(todo[w]) = "gradeAudit"
  <2>1. CASE AuditGrade(w) \/ PublishGrade(w)
    <3>1. Moves(w, Tail(todo[w]), IF Tail(todo[w]) = <<>> THEN None ELSE arg[w])
      BY <1>1, <2>1, ProceedMoves DEF AuditGrade, PublishGrade
    <3>2. Tail(todo[w]) # <<>> => Head(todo[w]) = "gradeAudit"
      BY <1>1, <2>1, GradeRoute DEF GradeInv, AuditGrade, PublishGrade, At
    <3> QED
      BY <1>1, <3>1, <3>2, GradeAt
  <2>2. CASE FailGrade(w)
    <3>1. Moves(w, <<>>, None)
      BY <1>1, <2>2, GoOnMoves DEF FailGrade, Answer
    <3> QED
      BY <3>1 DEF GradeTodo
  <2> QED
    BY <2>1, <2>2
<1>3. PICK steps, locals :
          /\ steps \in GradeTodo /\ Moves(w, steps, locals)
          /\ steps # <<>> => steps = Tail(todo[w]) /\ locals = arg[w] /\ Head(todo[w]) = "gradeAudit"
  BY <1>2
<1>4. /\ DOMAIN db' = DOMAIN db
      /\ \A t \in DOMAIN db \ {"gradeAudits", "gradeEvents", "cut"} : db'[t] = db[t]
      /\ db.gradeAudits \subseteq db'.gradeAudits /\ db.cut \subseteq db'.cut
      /\ At(w, "gradeAudit") => Submission(w) \in db'.gradeAudits \cup db'.cut
  BY <1>1 DEF AuditGrade, PublishGrade, FailGrade, GradeTablesTyped, At
<1>5. GradeTablesTyped' /\ db'.academicGrades = db.academicGrades /\ db'.notices = db.notices
  BY <1>1, <1>4 DEF GradeTablesTyped
<1>6. \A e \in Enrollees : Trailed(e)'
  BY <1>3, <1>4, <1>5, TrailKept
<1> QED
  BY <1>1, <1>3, <1>5, <1>6, GradeAt, GradeStep

\* What the statements of tryCreate do to the tables, whatever they are.
LEMMA NoticeEffect ==
  ASSUME NEW w \in Workers, {"notices", "unread", "noticeAudits"} \subseteq DOMAIN db,
         At(w, "noticeAudit") => arg[w].id \in db.notices,
         TryInsertNotice(w) \/ TryAuditNotice(w) \/ AuditSkippedNotice(w)
  PROVE  /\ DOMAIN db' = DOMAIN db
         /\ \A t \in DOMAIN db \ {"notices", "unread", "noticeAudits"} : db'[t] = db[t]
         /\ db.notices \subseteq db'.notices
         /\ db.unread \subseteq db.notices => db'.unread \subseteq db'.notices
         /\ \A a \in db'.noticeAudits : \/ a \in db.noticeAudits
                                        \/ a[1] \in {"created", "skipped"} /\ a[2] = arg[w].id
                                             /\ (a[1] = "created" => a[2] \in db'.notices)
<1>1. CASE TryInsertNotice(w)
  BY <1>1 DEF TryInsertNotice, InsertNotice, NoticeOf
<1>2. CASE TryAuditNotice(w)
  BY <1>2 DEF TryAuditNotice, NoticeOf, At
<1>3. CASE AuditSkippedNotice(w)
  BY <1>3 DEF AuditSkippedNotice, AuditNotice, NoticeOf
<1> QED
  BY <1>1, <1>2, <1>3

\* What they do to the request: the statement that comes next was there before,
\* or it is an audit of tryCreate.
LEMMA NoticeMoves ==
  ASSUME NEW w \in Workers, Slots,
         TryInsertNotice(w) \/ TryAuditNotice(w) \/ AuditSkippedNotice(w)
  PROVE  /\ todo[w] # <<>> /\ Head(todo[w]) \in {"notice", "noticeAudit", "noticeSkipped"}
         /\ \E steps :
              /\ Moves(w, steps, IF steps = <<>> THEN None ELSE arg[w])
              /\ \/ steps = Tail(todo[w]) /\ Head(todo[w]) # "notice"
                 \/ /\ steps = <<"noticeAudit">> \o Tail(todo[w]) /\ Head(todo[w]) = "notice"
                    /\ "notices" \in DOMAIN db => arg[w].id \in db'.notices
                 \/ /\ steps = <<"noticeSkipped">> \o Tail(todo[w])
                    /\ Head(todo[w]) \in {"notice", "noticeAudit"}
<1>1. CASE TryInsertNotice(w)
  <2>1. \/ /\ GoOn(w, <<"noticeAudit">> \o Tail(todo[w]), arg[w])
           /\ "notices" \in DOMAIN db => arg[w].id \in db'.notices
        \/ GoOn(w, <<"noticeSkipped">> \o Tail(todo[w]), arg[w])
    BY <1>1 DEF TryInsertNotice, InsertNotice, NoticeOf
  <2>2. todo[w] # <<>> /\ Head(todo[w]) = "notice"
    BY <1>1 DEF TryInsertNotice, At
  <2> QED
    BY <2>1, <2>2, GoOnMoves
<1>2. CASE TryAuditNotice(w)
  BY <1>2, GoOnMoves DEF TryAuditNotice, At, Proceed
<1>3. CASE AuditSkippedNotice(w)
  BY <1>3, GoOnMoves DEF AuditSkippedNotice, At, Proceed
<1> QED
  BY <1>1, <1>2, <1>3

\* The notice of a submission.
LEMMA GradeNotices ==
  ASSUME GradeInv, NEW w \in Workers, TryInsertNotice(w) \/ TryAuditNotice(w) \/ AuditSkippedNotice(w)
  PROVE  GradeInv'
<1>1. Slots /\ GradeTablesTyped /\ todo[w] \in GradeTodo
  BY DEF GradeInv
<1>2. todo[w] # <<>> /\ Head(todo[w]) \in {"notice", "noticeAudit", "noticeSkipped"}
  BY <1>1, NoticeMoves
<1>3. PICK steps :
          /\ Moves(w, steps, IF steps = <<>> THEN None ELSE arg[w])
          /\ \/ steps = Tail(todo[w])
             \/ /\ steps = <<"noticeAudit">> \o Tail(todo[w]) /\ Head(todo[w]) = "notice"
                /\ "notices" \in DOMAIN db => arg[w].id \in db'.notices
             \/ /\ steps = <<"noticeSkipped">> \o Tail(todo[w])
                /\ Head(todo[w]) \in {"notice", "noticeAudit"}
  BY <1>1, NoticeMoves
<1>4. /\ DOMAIN db' = DOMAIN db
      /\ \A t \in DOMAIN db \ {"notices", "unread", "noticeAudits"} : db'[t] = db[t]
      /\ db.notices \subseteq db'.notices /\ db'.unread \subseteq db'.notices
      /\ \A a \in db'.noticeAudits : \/ a \in db.noticeAudits
                                     \/ a[1] \in {"created", "skipped"} /\ (a[1] = "created" => a[2] \in db'.notices)
  <2>1. At(w, "noticeAudit") => arg[w].id \in db.notices
    BY DEF GradeInv, GradeRequestOK, At, Idle
  <2>2. {"notices", "unread", "noticeAudits"} \subseteq DOMAIN db /\ db.unread \subseteq db.notices
    BY <1>1 DEF GradeTablesTyped
  <2> QED
    BY <2>1, <2>2, NoticeEffect
<1>5. GradeTablesTyped'
  BY <1>1, <1>4 DEF GradeTablesTyped
<1>6. arg[w] \in GradeLocals /\ arg[w].own /\ ~At(w, "gradeAudit")
  BY <1>1, <1>2, GradeAt DEF At
<1>7. steps \in GradeTodo
  <2>1. Tail(todo[w]) \in GradeTodo
    BY <1>2, GradeAt
  <2>2. Head(todo[w]) = "notice" => <<"noticeAudit">> \o Tail(todo[w]) \in GradeTodo
    BY <1>1, <1>2, GradeRoute
  <2>3. Head(todo[w]) \in {"notice", "noticeAudit"} => <<"noticeSkipped">> \o Tail(todo[w]) \in GradeTodo
    BY <1>1, <1>2, GradeRoute
  <2> QED
    BY <1>3, <2>1, <2>2, <2>3
<1>8. steps # <<>> => Head(steps) # "noticeAudit" \/ arg[w].id \in db'.notices
  <2>1. "notices" \in DOMAIN db
    BY <1>1 DEF GradeTablesTyped
  <2>2. CASE steps = Tail(todo[w])
    BY <1>2, <2>2, GradeAt
  <2>3. CASE steps = <<"noticeSkipped">> \o Tail(todo[w]) /\ Head(todo[w]) \in {"notice", "noticeAudit"}
    BY <1>1, <1>2, <2>3, GradeRoute
  <2> QED
    BY <1>3, <2>1, <2>2, <2>3
<1>9. db'.academicGrades = db.academicGrades /\ db'.gradeAudits = db.gradeAudits /\ db'.cut = db.cut
  BY <1>1, <1>4 DEF GradeTablesTyped
<1> QED
  BY <1>3, <1>4, <1>5, <1>6, <1>7, <1>8, <1>9, GradeSide

\* Every step of any service keeps the invariant of the grades.
LEMMA GradesKeep ==
  ASSUME service = "grades" => GradeInv, [Next]_vars
  PROVE  (service = "grades" => GradeInv)'
<1>1. service' = service
  BY ServiceKept DEF Kept
<1> SUFFICES ASSUME service = "grades", GradeInv
             PROVE  GradeInv'
  BY <1>1
<1>2. CASE UNCHANGED vars
  BY <1>2 DEF vars, GradeInv, GradeTablesTyped, GradeRequestOK, Trailed, Slots, Idle, At
<1>3. CASE NotificationsNext
  <2>1. PICK w \in Workers : NotificationsNext!(w)
    BY <1>3 DEF NotificationsNext
  <2>2. todo[w] # <<>> => Head(todo[w]) \notin {"noticeRow", "createdAudit", "markRead", "readAudit", "readAllAudit"}
    BY GradeRoute DEF GradeInv
  <2>3. TryInsertNotice(w) \/ TryAuditNotice(w) \/ AuditSkippedNotice(w)
    BY <2>1, <2>2 DEF CreateNotice, InsertCreatedNotice, AuditCreatedNotice, MarkRead, UpdateRead, AuditRead,
       MarkAllRead, AuditReadAll, Take, At
  <2> QED
    BY <2>3, GradeNotices
<1>4. CASE ProfessorsNext
  <2>1. PICK w \in Workers : ProfessorsNext!(w)
    BY <1>4 DEF ProfessorsNext
  <2>2. todo[w] # <<>> => Head(todo[w]) \notin {"assertClass", "insertPost", "assertPost", "updatePost", "deletePost"}
    BY GradeRoute DEF GradeInv
  <2>3. ~(createAnnouncement(w) \/ AssertClass(w) \/ InsertPost(w)
          \/ changeAnnouncement(w) \/ AssertPost(w) \/ UpdatePost(w) \/ DeletePost(w))
    BY <2>2 DEF createAnnouncement, AssertClass, InsertPost, changeAnnouncement, AssertPost, UpdatePost,
       DeletePost, Take, At
  <2> QED
    BY <2>1, <2>3, GradeRequests, GradeWrites, GradeTrails
<1> QED
  BY <1>2, <1>3, <1>4 DEF Next

\* The tables of grades and announcements at the beginning.
LEMMA GradeTablesStart ==
  /\ DOMAIN GradeTables = {"notices", "unread", "noticeAudits", "grades", "academicGrades", "gradeAudits",
                           "gradeEvents", "cut", "posts", "board"}
  /\ GradeTables.notices = {} /\ GradeTables.unread = {} /\ GradeTables.noticeAudits = {}
  /\ GradeTables.grades = [e \in Enrollees |-> None] /\ GradeTables.academicGrades = [e \in Enrollees |-> None]
  /\ GradeTables.gradeAudits = {} /\ GradeTables.cut = {} /\ GradeTables.posts = 0 /\ GradeTables.board = {}
BY DEF GradeTables, NotificationTables, Merged

\* The invariant of the grades holds at the beginning.
LEMMA GradesStart == Init => (service = "grades" => GradeInv)
<1> SUFFICES ASSUME Init, service = "grades"
             PROVE  GradeInv
  OBVIOUS
<1>1. ProfessorsInit
  BY DEF Init, NotificationsInit, AlumniInit, GraduationsInit, ResourcesInit, RegistrarInit,
     ApplicationsInit, TenantsInit, BillingInit, Start
<1>2. /\ todo = [w \in Workers |-> <<>>] /\ arg = [w \in Workers |-> None]
      /\ db = GradeTables
  BY <1>1 DEF ProfessorsInit, Start
<1>3. GradeTablesTyped /\ \A e \in Enrollees : db.academicGrades[e] = None
  BY <1>2, GradeTablesStart DEF GradeTablesTyped
<1> QED
  BY <1>2, <1>3 DEF GradeInv, GradeRequestOK, GradeTodo, Trailed, Slots, Idle

\* The inductive invariant of the grades.
THEOREM GradeInvariant == Spec => [](service = "grades" => GradeInv)
<1>1. Init => (service = "grades" => GradeInv)
  BY GradesStart
<1>2. (service = "grades" => GradeInv) /\ [Next]_vars => (service = "grades" => GradeInv)'
  BY GradesKeep
<1> QED
  BY <1>1, <1>2, PTL DEF Spec

\* However submissions overlap, the grade that stands on PostgreSQL is locked,
\* by the professor of the class, and in the audit trail but for requests on
\* the way and requests that ended between their two statements.
THEOREM GradesAreTrailed == Spec => []GradeTrail
<1>1. (service = "grades" => GradeInv) => GradeTrail
  <2> SUFFICES ASSUME service = "grades", GradeInv, NEW e \in Enrollees, db.academicGrades[e] # None
               PROVE  /\ db.academicGrades[e].own /\ db.academicGrades[e].locked
                      /\ <<e, db.academicGrades[e].mark>> \in db.gradeAudits \cup db.cut
                            \cup {Submission(w) : w \in {w \in Workers : At(w, "gradeAudit")}}
    BY DEF GradeTrail
  <2>1. Trailed(e)
    BY DEF GradeInv
  <2> QED
    BY <2>1 DEF Trailed, Submission
<1> QED
  BY <1>1, GradeInvariant, PTL

\* LockNeverLost, of one step and one enrollee.
LockKeptOf(e) ==
    /\ db.grades[e] # None => db'.grades[e] # None /\ (db.grades[e].locked => db'.grades[e].locked)
    /\ db.academicGrades[e] # None => db'.academicGrades[e] # None

LockKept == service = "grades" => \A e \in Enrollees :
    /\ db.grades[e] # None => db'.grades[e] # None /\ (db.grades[e].locked => db'.grades[e].locked)
    /\ db.academicGrades[e] # None => db'.academicGrades[e] # None

\* No step of the grades unlocks or loses one.
LEMMA LockKeeps ==
  ASSUME GradeInv, service = "grades", [Next]_vars, NEW e \in Enrollees
  PROVE  LockKeptOf(e)
<1>1. GradeTablesTyped /\ Slots
  BY DEF GradeInv
<1>2. ASSUME db'.grades = db.grades, db'.academicGrades = db.academicGrades
      PROVE  LockKeptOf(e)
  BY <1>2 DEF LockKeptOf
<1>3. CASE UNCHANGED vars
  BY <1>2, <1>3 DEF vars
<1>4. CASE NotificationsNext
  BY <1>1, <1>2, <1>4 DEF NotificationsNext, CreateNotice, InsertCreatedNotice, AuditCreatedNotice, MarkRead, UpdateRead,
       AuditRead, MarkAllRead, AuditReadAll, TryInsertNotice, TryAuditNotice, AuditSkippedNotice, Fail, InsertNotice,
       AuditNotice, GradeTablesTyped
<1>5. ASSUME NEW w \in Workers, SaveGrade(w) \/ LockGrade(w) \/ UpsertGrade(w)
      PROVE  LockKeptOf(e)
  <2>1. todo[w] # <<>> /\ Head(todo[w]) # "assertEnrollment"
    BY <1>5 DEF SaveGrade, LockGrade, UpsertGrade, At
  <2>2. PICK d \in Enrollees : d = arg[w].id
    BY <1>1, <2>1, GradeRowTyped
  <2>3. \A locked \in BOOLEAN : /\ GradeRow(w, locked) \in GradeRows
                                /\ GradeRow(w, locked).locked <=> locked
    BY <2>1, GradeRowTyped
  <2>4. ASSUME NEW locked \in BOOLEAN, db' = [db EXCEPT !.grades[d] = GradeRow(w, locked)],
               db.grades[d] # None /\ db.grades[d].locked => locked
        PROVE  LockKeptOf(e)
    <3>1. PICK row \in GradeRows : row = GradeRow(w, locked) /\ (row.locked <=> locked)
      BY <2>3
    <3>2. db'.grades = [db.grades EXCEPT ![d] = row] /\ db'.academicGrades = db.academicGrades
      BY <1>1, <2>4, <3>1 DEF GradeTablesTyped
    <3>3. row # None
      BY NoneIsNoGrade
    <3>4. CASE e = d
      BY <1>1, <2>4, <3>1, <3>2, <3>3, <3>4 DEF GradeTablesTyped, LockKeptOf
    <3>5. CASE e # d
      BY <1>1, <3>2, <3>5 DEF GradeTablesTyped, LockKeptOf
    <3> QED
      BY <3>4, <3>5
  <2>5. CASE SaveGrade(w)
    <3>1. PICK locked \in BOOLEAN : locked = (db.grades[d] # None /\ db.grades[d].locked)
      OBVIOUS
    <3>2. db' = [db EXCEPT !.grades[d] = GradeRow(w, locked)]
      BY <2>2, <2>5, <3>1 DEF SaveGrade
    <3> QED
      BY <2>4, <3>1, <3>2
  <2>6. CASE LockGrade(w)
    BY <2>2, <2>4, <2>6 DEF LockGrade
  <2>7. CASE UpsertGrade(w)
    <3>1. PICK row \in GradeRows : row = GradeRow(w, TRUE)
      BY <2>3
    <3>2. db'.academicGrades = [db.academicGrades EXCEPT ![d] = row] /\ db'.grades = db.grades
      BY <1>1, <2>2, <2>7, <3>1 DEF UpsertGrade, GradeTablesTyped
    <3>3. row # None
      BY NoneIsNoGrade
    <3> QED
      BY <1>1, <3>2, <3>3 DEF GradeTablesTyped, LockKeptOf
  <2> QED
    BY <1>5, <2>5, <2>6, <2>7
<1>6. CASE ProfessorsNext
  <2>1. PICK w \in Workers : ProfessorsNext!(w)
    BY <1>6 DEF ProfessorsNext
  <2>2. CASE SaveGrade(w) \/ LockGrade(w) \/ UpsertGrade(w)
    BY <1>5, <2>2
  <2>3. CASE ~(SaveGrade(w) \/ LockGrade(w) \/ UpsertGrade(w))
    <3>1. db'.grades = db.grades /\ db'.academicGrades = db.academicGrades
      BY <1>1, <2>1, <2>3 DEF saveProfessorGrade, submitProfessorGrade, GradeRequest, AssertEnrollment,
         AuditGrade, PublishGrade, FailGrade, createAnnouncement, AssertClass, InsertPost, changeAnnouncement,
         AssertPost, UpdatePost, DeletePost, Fail, GradeTablesTyped
    <3> QED
      BY <1>2, <3>1
  <2> QED
    BY <2>2, <2>3
<1> QED
  BY <1>3, <1>4, <1>6 DEF Next

\* A submitted grade stays locked and a grade never goes away, whatever is
\* saved or submitted afterwards or at the same time.
THEOREM LocksAreKept == Spec => LockNeverLost
<1>1. (service = "grades" => GradeInv) /\ [Next]_vars => [LockKept]_vars
  BY LockKeeps DEF LockKept, LockKeptOf
<1> QED
  BY <1>1, GradeInvariant, PTL DEF Spec, LockNeverLost, LockKept

-----------------------------------------------------------------------------
(* Announcements *)

PostTodo == {<<>>,
    <<"assertClass", "insertPost", "notice">>, <<"insertPost", "notice">>, <<"notice">>,
    <<"noticeAudit">> \o <<>>, <<"noticeSkipped">> \o <<>>,
    <<"assertPost", "updatePost">>, <<"assertPost", "deletePost">>, <<"updatePost">>, <<"deletePost">>}

\* A request audits a notice only after its row.
PostRequestOK(w) == ~Idle(w) /\ Head(todo[w]) = "noticeAudit" => arg[w].id \in db.notices

PostInv ==
    /\ Slots
    /\ \A w \in Workers : todo[w] \in PostTodo
    /\ GradeTablesTyped /\ db.posts \in Nat
    /\ \A w \in Workers : PostRequestOK(w)

\* What follows each step of an announcement's request.
LEMMA PostRoute ==
  ASSUME NEW r \in PostTodo, r # <<>>
  PROVE  /\ Tail(r) \in PostTodo
         /\ Head(r) \in {"assertClass", "insertPost", "notice", "noticeAudit", "noticeSkipped",
                         "assertPost", "updatePost", "deletePost"}
         /\ Tail(r) # <<>> => Head(Tail(r)) # "noticeAudit"
         /\ Head(r) \in {"notice", "noticeAudit"} =>
              /\ <<"noticeSkipped">> \o Tail(r) \in PostTodo
              /\ Head(<<"noticeSkipped">> \o Tail(r)) # "noticeAudit"
         /\ Head(r) = "notice" => <<"noticeAudit">> \o Tail(r) \in PostTodo
<1> DEFINE n == <<"notice">>
           ipn == <<"insertPost", "notice">>
           acn == <<"assertClass", "insertPost", "notice">>
           up == <<"updatePost">>
           dp == <<"deletePost">>
           aup == <<"assertPost", "updatePost">>
           adp == <<"assertPost", "deletePost">>
           na == <<"noticeAudit">> \o <<>>
           ns == <<"noticeSkipped">> \o <<>>
<1>1. /\ Head(n) = "notice" /\ Tail(n) = <<>> /\ n # <<>>
      /\ Head(ipn) = "insertPost" /\ Tail(ipn) = n /\ ipn # <<>>
      /\ Head(acn) = "assertClass" /\ Tail(acn) = ipn /\ acn # <<>>
  OBVIOUS
<1>2. /\ Head(up) = "updatePost" /\ Tail(up) = <<>> /\ up # <<>>
      /\ Head(dp) = "deletePost" /\ Tail(dp) = <<>> /\ dp # <<>>
      /\ Head(aup) = "assertPost" /\ Tail(aup) = up /\ aup # <<>>
      /\ Head(adp) = "assertPost" /\ Tail(adp) = dp /\ adp # <<>>
  OBVIOUS
<1>3. /\ Head(na) = "noticeAudit" /\ Tail(na) = <<>>
      /\ Head(ns) = "noticeSkipped" /\ Tail(ns) = <<>>
  <2>1. <<>> \in Seq({"notice"})
    OBVIOUS
  <2> QED
    BY <2>1, Prefixed
<1>4. r \in {n, ipn, acn, up, dp, aup, adp, na, ns}
  BY DEF PostTodo
<1>5. {<<>>, n, ipn, acn, up, dp, aup, adp, na, ns} \subseteq PostTodo
  BY DEF PostTodo
<1>6. Head(r) \in {"notice", "noticeAudit"} => Tail(r) = <<>>
  <2> HIDE DEF n, ipn, acn, up, dp, aup, adp, na, ns
  <2> QED
    BY <1>1, <1>2, <1>3, <1>4
<1>7. /\ Tail(r) \in PostTodo
      /\ Head(r) \in {"assertClass", "insertPost", "notice", "noticeAudit", "noticeSkipped",
                      "assertPost", "updatePost", "deletePost"}
      /\ Tail(r) # <<>> => Head(Tail(r)) # "noticeAudit"
  <2> HIDE DEF n, ipn, acn, up, dp, aup, adp, na, ns
  <2> QED
    BY <1>1, <1>2, <1>3, <1>4, <1>5
<1> QED
  BY <1>3, <1>5, <1>6, <1>7

\* A request about announcements that goes on keeps the invariant, when the tables do.
LEMMA PostStep ==
  ASSUME PostInv, NEW w \in Workers, NEW steps \in PostTodo, NEW locals, Moves(w, steps, locals),
         GradeTablesTyped', db'.posts \in Nat, db.notices \subseteq db'.notices,
         steps # <<>> /\ Head(steps) = "noticeAudit" => locals.id \in db'.notices
  PROVE  PostInv'
<1>1. PostRequestOK(w)'
  BY DEF PostRequestOK, Moves, Idle
<1>2. \A v \in Workers \ {w} : PostRequestOK(v)'
  BY DEF PostInv, PostRequestOK, Moves, Idle
<1> QED
  BY <1>1, <1>2 DEF PostInv, Moves

\* A request about announcements arrives, is checked or fails.
LEMMA PostRequests ==
  ASSUME PostInv, NEW w \in Workers, createAnnouncement(w) \/ changeAnnouncement(w) \/ Fail(w)
  PROVE  PostInv'
<1>1. Slots /\ UNCHANGED db /\ GradeTablesTyped'
  BY DEF PostInv, createAnnouncement, changeAnnouncement, Fail, GradeTablesTyped
<1>2. \E steps, locals : steps \in PostTodo /\ Moves(w, steps, locals) /\ (steps # <<>> => Head(steps) # "noticeAudit")
  <2>1. CASE createAnnouncement(w)
    <3>1. PICK locals : Take("announcements", w, <<"assertClass", "insertPost", "notice">>, locals)
      BY <2>1 DEF createAnnouncement
    <3> QED
      BY <1>1, <3>1, TakeMoves DEF PostTodo
  <2>2. CASE changeAnnouncement(w)
    <3>1. PICK step, locals :
              step \in {"updatePost", "deletePost"} /\ Take("announcements", w, <<"assertPost", step>>, locals)
      BY <2>2 DEF changeAnnouncement
    <3>2. Moves(w, <<"assertPost", step>>, locals)
      BY <1>1, <3>1, TakeMoves
    <3>3. <<"assertPost", step>> \in PostTodo /\ Head(<<"assertPost", step>>) = "assertPost"
      BY <3>1 DEF PostTodo
    <3> QED
      BY <3>2, <3>3
  <2>3. CASE Fail(w)
    BY <1>1, <2>3, FailMoves DEF PostTodo
  <2> QED
    BY <2>1, <2>2, <2>3
<1>3. PICK steps, locals :
          steps \in PostTodo /\ Moves(w, steps, locals) /\ (steps # <<>> => Head(steps) # "noticeAudit")
  BY <1>2
<1> QED
  BY <1>1, <1>3, PostStep DEF PostInv

\* An announcement is posted or deleted.
LEMMA PostWrites ==
  ASSUME PostInv, NEW w \in Workers,
         AssertClass(w) \/ InsertPost(w) \/ AssertPost(w) \/ UpdatePost(w) \/ DeletePost(w)
  PROVE  PostInv'
<1>1. Slots /\ GradeTablesTyped /\ db.posts \in Nat /\ todo[w] \in PostTodo /\ todo[w] # <<>>
  BY DEF PostInv, AssertClass, InsertPost, AssertPost, UpdatePost, DeletePost, At
<1>2. \E locals : Moves(w, Tail(todo[w]), locals)
  BY <1>1, ProceedMoves, ProceedWithMoves DEF AssertClass, InsertPost, AssertPost, UpdatePost, DeletePost
<1>3. /\ DOMAIN db' = DOMAIN db
      /\ \A t \in DOMAIN db \ {"posts", "board"} : db'[t] = db[t]
      /\ \/ db'.posts = db.posts /\ db'.board \subseteq db.board
         \/ db'.posts = db.posts + 1 /\ db'.board = db.board \cup {db.posts + 1}
  BY <1>1, ZenonT(40) DEF AssertClass, InsertPost, AssertPost, UpdatePost, DeletePost, GradeTablesTyped
<1>4. db'.posts \in Nat /\ db'.board \subseteq 1 .. db'.posts
  <2>1. db.board \subseteq 1 .. db.posts
    BY <1>1 DEF GradeTablesTyped
  <2> QED
    BY <1>1, <1>3, <2>1
<1>5. GradeTablesTyped' /\ db'.notices = db.notices
  BY <1>1, <1>3, <1>4 DEF GradeTablesTyped
<1> QED
  BY <1>1, <1>2, <1>4, <1>5, PostRoute, PostStep

\* The notice of an announcement.
LEMMA PostNotices ==
  ASSUME PostInv, NEW w \in Workers, TryInsertNotice(w) \/ TryAuditNotice(w) \/ AuditSkippedNotice(w)
  PROVE  PostInv'
<1>1. Slots /\ GradeTablesTyped /\ db.posts \in Nat /\ todo[w] \in PostTodo
  BY DEF PostInv
<1>2. todo[w] # <<>>
  BY <1>1, NoticeMoves
<1>3. PICK steps :
          /\ Moves(w, steps, IF steps = <<>> THEN None ELSE arg[w])
          /\ \/ steps = Tail(todo[w])
             \/ /\ steps = <<"noticeAudit">> \o Tail(todo[w]) /\ Head(todo[w]) = "notice"
                /\ "notices" \in DOMAIN db => arg[w].id \in db'.notices
             \/ /\ steps = <<"noticeSkipped">> \o Tail(todo[w])
                /\ Head(todo[w]) \in {"notice", "noticeAudit"}
  BY <1>1, NoticeMoves
<1>4. /\ DOMAIN db' = DOMAIN db
      /\ \A t \in DOMAIN db \ {"notices", "unread", "noticeAudits"} : db'[t] = db[t]
      /\ db.notices \subseteq db'.notices /\ db'.unread \subseteq db'.notices
      /\ \A a \in db'.noticeAudits : \/ a \in db.noticeAudits
                                     \/ a[1] \in {"created", "skipped"} /\ (a[1] = "created" => a[2] \in db'.notices)
  <2>1. At(w, "noticeAudit") => arg[w].id \in db.notices
    BY DEF PostInv, PostRequestOK, At, Idle
  <2>2. {"notices", "unread", "noticeAudits"} \subseteq DOMAIN db /\ db.unread \subseteq db.notices
    BY <1>1 DEF GradeTablesTyped
  <2> QED
    BY <2>1, <2>2, NoticeEffect
<1>5. GradeTablesTyped' /\ db'.posts = db.posts
  BY <1>1, <1>4 DEF GradeTablesTyped
<1>6. steps \in PostTodo /\ (steps # <<>> /\ Head(steps) = "noticeAudit" => arg[w].id \in db'.notices)
  <2>1. "notices" \in DOMAIN db
    BY <1>1 DEF GradeTablesTyped
  <2> QED
    BY <1>1, <1>2, <1>3, <2>1, PostRoute
<1> QED
  BY <1>1, <1>3, <1>4, <1>5, <1>6, PostStep

\* Every step of any service keeps the invariant of the announcements.
LEMMA PostsKeep ==
  ASSUME service = "announcements" => PostInv, [Next]_vars
  PROVE  (service = "announcements" => PostInv)'
<1>1. service' = service
  BY ServiceKept DEF Kept
<1> SUFFICES ASSUME service = "announcements", PostInv
             PROVE  PostInv'
  BY <1>1
<1>2. CASE UNCHANGED vars
  BY <1>2 DEF vars, PostInv, GradeTablesTyped, PostRequestOK, Slots, Idle
<1>3. CASE NotificationsNext
  <2>1. PICK w \in Workers : NotificationsNext!(w)
    BY <1>3 DEF NotificationsNext
  <2>2. todo[w] # <<>> => Head(todo[w]) \notin {"noticeRow", "createdAudit", "markRead", "readAudit", "readAllAudit"}
    BY PostRoute DEF PostInv
  <2>3. TryInsertNotice(w) \/ TryAuditNotice(w) \/ AuditSkippedNotice(w)
    BY <2>1, <2>2 DEF CreateNotice, InsertCreatedNotice, AuditCreatedNotice, MarkRead, UpdateRead, AuditRead,
       MarkAllRead, AuditReadAll, Take, At
  <2> QED
    BY <2>3, PostNotices
<1>4. CASE ProfessorsNext
  <2>1. PICK w \in Workers : ProfessorsNext!(w)
    BY <1>4 DEF ProfessorsNext
  <2>2. todo[w] # <<>> => Head(todo[w]) \notin {"assertEnrollment", "saveGrade", "lockGrade", "upsertGrade",
                                                "gradeAudit", "gradeEvent"}
    BY PostRoute DEF PostInv
  <2>3. ~(saveProfessorGrade(w) \/ submitProfessorGrade(w) \/ AssertEnrollment(w)
          \/ SaveGrade(w) \/ LockGrade(w) \/ UpsertGrade(w) \/ AuditGrade(w) \/ PublishGrade(w) \/ FailGrade(w))
    BY <2>2 DEF saveProfessorGrade, submitProfessorGrade, GradeRequest, AssertEnrollment, SaveGrade, LockGrade,
       UpsertGrade, AuditGrade, PublishGrade, FailGrade, Take, At
  <2> QED
    BY <2>1, <2>3, PostRequests, PostWrites
<1> QED
  BY <1>2, <1>3, <1>4 DEF Next

\* The invariant of the announcements holds at the beginning.
LEMMA PostsStart == Init => (service = "announcements" => PostInv)
<1> SUFFICES ASSUME Init, service = "announcements"
             PROVE  PostInv
  OBVIOUS
<1>1. ProfessorsInit
  BY DEF Init, NotificationsInit, AlumniInit, GraduationsInit, ResourcesInit, RegistrarInit,
     ApplicationsInit, TenantsInit, BillingInit, Start
<1>2. todo = [w \in Workers |-> <<>>] /\ arg = [w \in Workers |-> None] /\ db = GradeTables
  BY <1>1 DEF ProfessorsInit, Start
<1>3. GradeTablesTyped /\ db.posts = 0
  BY <1>2, GradeTablesStart DEF GradeTablesTyped
<1> QED
  BY <1>2, <1>3 DEF PostInv, PostRequestOK, PostTodo, Slots, Idle

-----------------------------------------------------------------------------
(* Natural numbers *)

\* A set of natural numbers that is not empty has a least element.
LEMMA SmallestOf ==
  ASSUME NEW T, \A x \in T : x \in Nat, T # {}
  PROVE  \E x \in T : \A y \in T : x <= y
<1> DEFINE R == OpToRel(<, Nat)
<1>1. IsWellFoundedOn(R, Nat)
  BY NatLessThanWellFounded
<1>2. \A x, y \in Nat : y < x => <<y, x>> \in R
  BY DEF OpToRel
<1> HIDE DEF R
<1>3. T \subseteq Nat
  OBVIOUS
<1>4. PICK x \in T : \A y \in T : ~(<<y, x>> \in R)
  BY <1>1, <1>3, WFMin
<1>5. \A y \in T : y \in Nat /\ x \in Nat /\ ~(y < x)
  BY <1>2, <1>4
<1> QED
  BY <1>5

\* And a largest, when it is bounded.
LEMMA LargestOf ==
  ASSUME NEW T, \A x \in T : x \in Nat, T # {}, NEW n \in Nat, \A x \in T : x <= n
  PROVE  \E x \in T : \A y \in T : y <= x
<1> DEFINE U == {n - x : x \in T}
<1>1. (\A u \in U : u \in Nat) /\ U # {}
  OBVIOUS
<1>2. PICK u \in U : \A v \in U : u <= v
  <2> HIDE DEF U
  <2> QED
    BY <1>1, SmallestOf
<1>3. PICK x \in T : u = n - x
  OBVIOUS
<1>4. ASSUME NEW y \in T
      PROVE  y <= x
  <2>1. n - y \in U /\ y \in Nat /\ x \in Nat
    OBVIOUS
  <2>2. n - x <= n - y
    BY <1>2, <1>3, <2>1
  <2> QED
    BY <2>1, <2>2
<1> QED
  BY <1>4

-----------------------------------------------------------------------------
(* Document requests and cards (service "alumni") *)

PostgresTodo == {<<>>,
    <<"insertRecord", "event", "publish", "notice">>, <<"updateRecord", "event", "publish", "notice">>,
    <<"event", "publish", "notice">>, <<"publish", "notice">>, <<"notice">>,
    <<"noticeAudit">> \o <<>>, <<"noticeSkipped">> \o <<>>,
    <<"insertCard", "event">>, <<"event">>, <<"updateCard", "event", "notice">>, <<"event", "notice">>}

SupabaseTodo == {<<>>,
    <<"insertRecord", "notice", "publish">>, <<"notice", "publish">>, <<"publish">>,
    <<"noticeAudit">> \o <<"publish">>, <<"noticeSkipped">> \o <<"publish">>,
    <<"updateRecord", "publish", "audit", "notice">>, <<"publish", "audit", "notice">>,
    <<"audit", "notice">>, <<"notice">>, <<"noticeAudit">> \o <<>>, <<"noticeSkipped">> \o <<>>,
    <<"insertCard">>, <<"updateCard", "notice", "audit">>, <<"notice", "audit">>, <<"audit">>,
    <<"noticeAudit">> \o <<"audit">>, <<"noticeSkipped">> \o <<"audit">>}

AlumniTodo == IF usePostgres("alumni") THEN PostgresTodo ELSE SupabaseTodo

\* The ids of all document requests and cards.
DeskIds == {row.id : row \in db.records \cup db.cards}

DeskRowOK(row) == {"id", "actor", "status", "payment"} \subseteq DOMAIN row
                  /\ row.actor \in Alumni /\ row.payment \in {"pending", "paid"}

Inserts == {"insertRecord", "insertCard"}
Updates == {"updateRecord", "updateCard"}

\* A request knows the row that it records, publishes, audits and notifies
\* about, and has recorded what it publishes over PostgreSQL.
AlumniRequestOK(w) == ~Idle(w) =>
    /\ DOMAIN arg[w] = {"type", "id", "value"}
    /\ Head(todo[w]) \in Inserts => arg[w].value.actor \in Alumni
    /\ Head(todo[w]) \in Updates => arg[w].value.payment \in Payments
    /\ Head(todo[w]) \notin Inserts => arg[w].id \in DeskIds
    /\ Head(todo[w]) = "publish" /\ usePostgres("alumni") => Mark(w) \in db.events
    /\ Head(todo[w]) = "noticeAudit" => arg[w].id \in db.notices

AlumniDomain == {"notices", "unread", "noticeAudits", "logs", "accounts", "records", "cards",
                 "events", "published", "audits"}

AlumniTablesTyped ==
    /\ DOMAIN db = AlumniDomain
    /\ db.logs = {} /\ db.accounts = [a \in Alumni |-> None]
    /\ \A row \in db.records \cup db.cards : DeskRowOK(row)
    /\ db.unread \subseteq db.notices
    /\ \A a \in db.noticeAudits : /\ a[1] \in {"created", "skipped"} /\ a[2] \in DeskIds
                                  /\ a[1] = "created" => a[2] \in db.notices
    /\ \A e \in db.events \cup db.published \cup db.audits : e[2] \in DeskIds
    /\ usePostgres("alumni") => db.published \subseteq db.events

AlumniInv ==
    /\ Slots
    /\ \A w \in Workers : todo[w] \in AlumniTodo
    /\ AlumniTablesTyped
    /\ \A w \in Workers : AlumniRequestOK(w)

\* What follows each step of a request to the alumni desk.
AlumniRouteOK(S, r) ==
    /\ Tail(r) \in S
    /\ Head(r) \in Inserts \cup Updates \cup {"event", "publish", "audit", "notice", "noticeAudit", "noticeSkipped"}
    /\ Tail(r) # <<>> => Head(Tail(r)) \notin Inserts \cup Updates \cup {"noticeAudit"}
    /\ Head(r) \in {"notice", "noticeAudit"} =>
         /\ <<"noticeSkipped">> \o Tail(r) \in S
         /\ Head(<<"noticeSkipped">> \o Tail(r)) = "noticeSkipped"
    /\ Head(r) = "notice" => <<"noticeAudit">> \o Tail(r) \in S
                             /\ Head(<<"noticeAudit">> \o Tail(r)) = "noticeAudit"

\* What follows each step over PostgreSQL.
LEMMA PostgresRoute ==
  ASSUME NEW r \in PostgresTodo, r # <<>>
  PROVE  /\ AlumniRouteOK(PostgresTodo, r)
         /\ Tail(r) # <<>> /\ Head(Tail(r)) = "publish" => Head(r) = "event"
<1> DEFINE n == <<"notice">>
           pn == <<"publish", "notice">>
           epn == <<"event", "publish", "notice">>
           iepn == <<"insertRecord", "event", "publish", "notice">>
           uepn == <<"updateRecord", "event", "publish", "notice">>
           e == <<"event">>
           ie == <<"insertCard", "event">>
           en == <<"event", "notice">>
           uen == <<"updateCard", "event", "notice">>
           na == <<"noticeAudit">> \o <<>>
           ns == <<"noticeSkipped">> \o <<>>
<1>1. /\ Head(n) = "notice" /\ Tail(n) = <<>> /\ n # <<>>
      /\ Head(pn) = "publish" /\ Tail(pn) = n /\ pn # <<>>
      /\ Head(epn) = "event" /\ Tail(epn) = pn /\ epn # <<>>
      /\ Head(iepn) = "insertRecord" /\ Tail(iepn) = epn
      /\ Head(uepn) = "updateRecord" /\ Tail(uepn) = epn
  OBVIOUS
<1>2. /\ Head(e) = "event" /\ Tail(e) = <<>> /\ e # <<>>
      /\ Head(ie) = "insertCard" /\ Tail(ie) = e
      /\ Head(en) = "event" /\ Tail(en) = n /\ en # <<>>
      /\ Head(uen) = "updateCard" /\ Tail(uen) = en
  OBVIOUS
<1>3. /\ Head(na) = "noticeAudit" /\ Tail(na) = <<>>
      /\ Head(ns) = "noticeSkipped" /\ Tail(ns) = <<>>
  <2>1. <<>> \in Seq({"notice"})
    OBVIOUS
  <2> QED
    BY <2>1, Prefixed
<1>4. r \in {n, pn, epn, iepn, uepn, e, ie, en, uen, na, ns}
  BY DEF PostgresTodo
<1>5. {<<>>, n, pn, epn, e, en, na, ns} \subseteq PostgresTodo
  BY DEF PostgresTodo
<1>6. Head(r) \in {"notice", "noticeAudit"} => Tail(r) = <<>>
  <2> HIDE DEF n, pn, epn, iepn, uepn, e, ie, en, uen, na, ns
  <2> QED
    BY <1>1, <1>2, <1>3, <1>4
<1>7. /\ Tail(r) \in PostgresTodo
      /\ Head(r) \in Inserts \cup Updates \cup {"event", "publish", "audit", "notice", "noticeAudit", "noticeSkipped"}
      /\ Tail(r) # <<>> => Head(Tail(r)) \notin Inserts \cup Updates \cup {"noticeAudit"}
      /\ Tail(r) # <<>> /\ Head(Tail(r)) = "publish" => Head(r) = "event"
  <2> HIDE DEF n, pn, epn, iepn, uepn, e, ie, en, uen, na, ns
  <2> QED
    BY <1>1, <1>2, <1>3, <1>4, <1>5 DEF Inserts, Updates
<1> QED
  BY <1>3, <1>5, <1>6, <1>7 DEF AlumniRouteOK

\* What follows each step over Supabase.
LEMMA SupabaseRoute ==
  ASSUME NEW r \in SupabaseTodo, r # <<>>
  PROVE  AlumniRouteOK(SupabaseTodo, r)
<1> DEFINE n == <<"notice">>
           p == <<"publish">>
           a == <<"audit">>
           np == <<"notice", "publish">>
           inp == <<"insertRecord", "notice", "publish">>
           an == <<"audit", "notice">>
           pan == <<"publish", "audit", "notice">>
           upan == <<"updateRecord", "publish", "audit", "notice">>
           i == <<"insertCard">>
           ua == <<"notice", "audit">>
           una == <<"updateCard", "notice", "audit">>
           ao == <<"noticeAudit">> \o <<>>
           so == <<"noticeSkipped">> \o <<>>
           ap == <<"noticeAudit">> \o p
           sp == <<"noticeSkipped">> \o p
           aa == <<"noticeAudit">> \o a
           sa == <<"noticeSkipped">> \o a
<1>1. /\ Head(n) = "notice" /\ Tail(n) = <<>> /\ n # <<>>
      /\ Head(p) = "publish" /\ Tail(p) = <<>> /\ p # <<>>
      /\ Head(a) = "audit" /\ Tail(a) = <<>> /\ a # <<>>
      /\ Head(np) = "notice" /\ Tail(np) = p /\ np # <<>>
      /\ Head(inp) = "insertRecord" /\ Tail(inp) = np
  OBVIOUS
<1>2. /\ Head(an) = "audit" /\ Tail(an) = n /\ an # <<>>
      /\ Head(pan) = "publish" /\ Tail(pan) = an /\ pan # <<>>
      /\ Head(upan) = "updateRecord" /\ Tail(upan) = pan
      /\ Head(i) = "insertCard" /\ Tail(i) = <<>>
      /\ Head(ua) = "notice" /\ Tail(ua) = a /\ ua # <<>>
      /\ Head(una) = "updateCard" /\ Tail(una) = ua
  OBVIOUS
<1>3. <<>> \in Seq({"audit", "publish"}) /\ p \in Seq({"audit", "publish"}) /\ a \in Seq({"audit", "publish"})
  OBVIOUS
<1>4. r \in {n, p, a, np, inp, an, pan, upan, i, ua, una, ao, so, ap, sp, aa, sa}
  BY DEF SupabaseTodo
<1>5. {<<>>, n, p, a, np, an, pan, ua, ao, so, ap, sp, aa, sa} \subseteq SupabaseTodo
  BY DEF SupabaseTodo
<1>6. /\ Head(ao) = "noticeAudit" /\ Tail(ao) = <<>> /\ Head(so) = "noticeSkipped" /\ Tail(so) = <<>>
      /\ Head(ap) = "noticeAudit" /\ Tail(ap) = p /\ Head(sp) = "noticeSkipped" /\ Tail(sp) = p
      /\ Head(aa) = "noticeAudit" /\ Tail(aa) = a /\ Head(sa) = "noticeSkipped" /\ Tail(sa) = a
  <2> HIDE DEF p, a
  <2> QED
    BY <1>3, Prefixed
<1>7. Head(r) \in {"notice", "noticeAudit"} => Tail(r) \in {<<>>, p, a}
  <2> HIDE DEF n, p, a, np, inp, an, pan, upan, i, ua, una, ao, so, ap, sp, aa, sa
  <2> QED
    BY <1>1, <1>2, <1>4, <1>6
<1>8. /\ Tail(r) \in SupabaseTodo
      /\ Head(r) \in Inserts \cup Updates \cup {"event", "publish", "audit", "notice", "noticeAudit", "noticeSkipped"}
      /\ Tail(r) # <<>> => Head(Tail(r)) \notin Inserts \cup Updates \cup {"noticeAudit"}
  <2> HIDE DEF n, p, a, np, inp, an, pan, upan, i, ua, una, ao, so, ap, sp, aa, sa
  <2>1. CASE r \in {n, p, a, np, inp}
    BY <1>1, <1>5, <2>1 DEF Inserts, Updates
  <2>2. CASE r \in {an, pan, upan, i, ua, una}
    BY <1>1, <1>2, <1>5, <2>2 DEF Inserts, Updates
  <2>3. CASE r \in {ao, so, ap, sp, aa, sa}
    BY <1>1, <1>5, <1>6, <2>3 DEF Inserts, Updates
  <2> QED
    BY <1>4, <2>1, <2>2, <2>3
<1>9. Head(r) \in {"notice", "noticeAudit"} =>
         /\ <<"noticeSkipped">> \o Tail(r) \in SupabaseTodo
         /\ Head(<<"noticeSkipped">> \o Tail(r)) = "noticeSkipped"
         /\ <<"noticeAudit">> \o Tail(r) \in SupabaseTodo
         /\ Head(<<"noticeAudit">> \o Tail(r)) = "noticeAudit"
  <2> HIDE DEF n, p, a, np, inp, an, pan, upan, i, ua, una
  <2>1. CASE Tail(r) = <<>>
    BY <1>5, <1>6, <2>1
  <2>2. CASE Tail(r) = p
    BY <1>5, <1>6, <2>2
  <2>3. CASE Tail(r) = a
    BY <1>5, <1>6, <2>3
  <2> QED
    BY <1>7, <2>1, <2>2, <2>3
<1> HIDE DEF n, p, a, np, inp, an, pan, upan, i, ua, una, ao, so, ap, sp, aa, sa
<1> QED
  BY <1>8, <1>9 DEF AlumniRouteOK

\* What follows each step of a request to the alumni desk, on either database.
LEMMA AlumniRoute ==
  ASSUME NEW r \in AlumniTodo, r # <<>>
  PROVE  /\ AlumniRouteOK(AlumniTodo, r)
         /\ usePostgres("alumni") /\ Tail(r) # <<>> /\ Head(Tail(r)) = "publish" => Head(r) = "event"
BY PostgresRoute, SupabaseRoute DEF AlumniTodo

\* A request that goes on with these local variables is in order.
GoesOn(steps, locals) == steps # <<>> =>
    /\ DOMAIN locals = {"type", "id", "value"}
    /\ Head(steps) \in Inserts => locals.value.actor \in Alumni
    /\ Head(steps) \in Updates => locals.value.payment \in Payments
    /\ Head(steps) \notin Inserts => locals.id \in DeskIds'
    /\ Head(steps) = "publish" /\ usePostgres("alumni") => <<locals.type, locals.id>> \in db'.events
    /\ Head(steps) = "noticeAudit" => locals.id \in db'.notices

\* A request of the alumni desk that goes on keeps the invariant, when the tables do.
LEMMA AlumniStep ==
  ASSUME AlumniInv, configured' = configured, NEW w \in Workers, NEW steps \in AlumniTodo, NEW locals,
         Moves(w, steps, locals), GoesOn(steps, locals), AlumniTablesTyped',
         DeskIds \subseteq DeskIds', db.events \subseteq db'.events, db.notices \subseteq db'.notices
  PROVE  AlumniInv'
<1>1. AlumniRequestOK(w)'
  BY DEF AlumniRequestOK, GoesOn, Moves, Idle, Mark, usePostgres
<1>2. ASSUME NEW v \in Workers \ {w}
      PROVE  AlumniRequestOK(v)'
  <2>1. AlumniRequestOK(v) /\ todo'[v] = todo[v] /\ arg'[v] = arg[v]
    BY DEF AlumniInv, Moves
  <2> QED
    BY <2>1 DEF AlumniRequestOK, Idle, Mark, usePostgres
<1>3. AlumniTodo' = AlumniTodo
  BY DEF AlumniTodo, usePostgres
<1> QED
  BY <1>1, <1>2, <1>3 DEF AlumniInv, Moves

\* A request arrives, or one ends early.
LEMMA AlumniRequests ==
  ASSUME AlumniInv, service = "alumni", NEW w \in Workers,
         requestRecord(w) \/ applyForCard(w) \/ updateRecordStatus(w) \/ updateCardApplicationStatus(w) \/ Fail(w)
  PROVE  AlumniInv'
<1>1. Slots /\ UNCHANGED db /\ configured' = configured
  BY DEF AlumniInv, requestRecord, applyForCard, updateRecordStatus, updateCardApplicationStatus, AlumniRequest,
     Fail, Take, Answer, GoOn
<1>2. AlumniTablesTyped' /\ DeskIds' = DeskIds
  BY <1>1 DEF AlumniInv, AlumniTablesTyped, DeskIds, usePostgres
<1>3. \E steps, locals : steps \in AlumniTodo /\ Moves(w, steps, locals) /\ GoesOn(steps, locals)
  <2>1. ASSUME NEW type \in {"recordRequested", "cardRequested"}, NEW value, value.actor \in Alumni,
               AlumniRequest("alumni", w, type, None, value)
        PROVE  <1>3!:
    <3>1. Moves(w, route(type), [type |-> type, id |-> None, value |-> value])
      BY <1>1, <2>1, TakeMoves DEF AlumniRequest
    <3>2. route(type) \in AlumniTodo /\ Head(route(type)) \in Inserts
      BY DEF route, postgresRoute, supabaseRoute, AlumniTodo, PostgresTodo, SupabaseTodo, Inserts
    <3>3. Head(route(type)) \notin Updates \cup {"publish", "noticeAudit"}
      BY <3>2 DEF Inserts, Updates
    <3>4. GoesOn(route(type), [type |-> type, id |-> None, value |-> value])
      BY <2>1, <3>2, <3>3 DEF GoesOn
    <3> QED
      BY <3>1, <3>2, <3>4
  <2>2. ASSUME NEW type \in {"recordUpdated", "cardUpdated"}, NEW id \in DeskIds, NEW value, value.payment \in Payments,
               AlumniRequest("alumni", w, type, id, value)
        PROVE  <1>3!:
    <3>1. Moves(w, route(type), [type |-> type, id |-> id, value |-> value])
      BY <1>1, <2>2, TakeMoves DEF AlumniRequest
    <3>2. route(type) \in AlumniTodo /\ Head(route(type)) \in Updates
      BY DEF route, postgresRoute, supabaseRoute, AlumniTodo, PostgresTodo, SupabaseTodo, Updates
    <3>3. Head(route(type)) \notin Inserts \cup {"publish", "noticeAudit"}
      BY <3>2 DEF Inserts, Updates
    <3>4. GoesOn(route(type), [type |-> type, id |-> id, value |-> value])
      BY <1>2, <2>2, <3>2, <3>3 DEF GoesOn
    <3> QED
      BY <3>1, <3>2, <3>4
  <2>3. CASE requestRecord(w)
    <3>1. PICK value : value.actor \in Alumni /\ AlumniRequest("alumni", w, "recordRequested", None, value)
      BY <2>3 DEF requestRecord
    <3> QED
      BY <2>1, <3>1
  <2>4. CASE applyForCard(w)
    <3>1. PICK value : value.actor \in Alumni /\ AlumniRequest("alumni", w, "cardRequested", None, value)
      BY <2>4 DEF applyForCard
    <3> QED
      BY <2>1, <3>1
  <2>5. CASE updateRecordStatus(w)
    <3>1. PICK id, value : /\ id \in DeskIds /\ value.payment \in Payments
                           /\ AlumniRequest("alumni", w, "recordUpdated", id, value)
      BY <2>5 DEF updateRecordStatus, DeskIds
    <3> QED
      BY <2>2, <3>1
  <2>6. CASE updateCardApplicationStatus(w)
    <3>1. PICK id, value : /\ id \in DeskIds /\ value.payment \in Payments
                           /\ AlumniRequest("alumni", w, "cardUpdated", id, value)
      BY <2>6 DEF updateCardApplicationStatus, DeskIds
    <3> QED
      BY <2>2, <3>1
  <2>7. CASE Fail(w)
    <3>1. Moves(w, <<>>, None) /\ <<>> \in AlumniTodo
      BY <1>1, <2>7, FailMoves DEF AlumniTodo, PostgresTodo, SupabaseTodo
    <3> QED
      BY <3>1 DEF GoesOn
  <2> QED
    BY <2>3, <2>4, <2>5, <2>6, <2>7
<1> QED
  BY <1>1, <1>2, <1>3, AlumniStep

\* The step that a request is at, with what it has to go on.
LEMMA AlumniAt ==
  ASSUME AlumniInv, NEW w \in Workers, todo[w] # <<>>
  PROVE  /\ AlumniRouteOK(AlumniTodo, todo[w])
         /\ DOMAIN arg[w] = {"type", "id", "value"}
         /\ usePostgres("alumni") /\ Tail(todo[w]) # <<>> /\ Head(Tail(todo[w])) = "publish" => Head(todo[w]) = "event"
BY AlumniRoute DEF AlumniInv, AlumniRequestOK, Idle

\* The insert of a document request or a card: the only steps that make a row.
LEMMA DeskInserts ==
  ASSUME AlumniInv, NEW w \in Workers, InsertRecord(w) \/ InsertCard(w)
  PROVE  AlumniInv'
<1>1. Slots /\ AlumniTablesTyped /\ todo[w] # <<>> /\ Head(todo[w]) \in Inserts
  BY DEF AlumniInv, InsertRecord, InsertCard, At, Inserts
<1>2. arg[w].value.actor \in Alumni /\ configured' = configured
  BY <1>1 DEF AlumniInv, AlumniRequestOK, Idle, InsertRecord, InsertCard, InsertRow, ProceedWith, GoOn
<1>3. PICK id : id = newLogId
  OBVIOUS
<1>4. PICK locals : locals = [arg[w] EXCEPT !.id = id, !.value = None]
  OBVIOUS
<1>5. DOMAIN locals = {"type", "id", "value"} /\ locals.id = id
  BY <1>1, <1>4, AlumniAt
<1>6. Moves(w, Tail(todo[w]), IF Tail(todo[w]) = <<>> THEN None ELSE locals)
  BY <1>1, <1>3, <1>4, ProceedWithMoves DEF InsertRecord, InsertCard, InsertRow
<1>7. PICK row : /\ DeskRowOK(row) /\ row.id = id
                 /\ \/ db' = [db EXCEPT !.records = @ \cup {row}]
                    \/ db' = [db EXCEPT !.cards = @ \cup {row}]
  <2>1. CASE InsertRecord(w)
    <3>1. PICK row : row = [id |-> id, actor |-> arg[w].value.actor, fee |-> arg[w].value.fee,
                            status |-> 100, payment |-> "pending"]
      OBVIOUS
    <3>2. DeskRowOK(row) /\ row.id = id
      BY <1>2, <3>1 DEF DeskRowOK
    <3>3. db' = [db EXCEPT !.records = @ \cup {row}]
      BY <1>3, <2>1, <3>1 DEF InsertRecord, InsertRow
    <3> QED
      BY <3>2, <3>3
  <2>2. CASE InsertCard(w)
    <3>1. PICK row : row = [id |-> id, actor |-> arg[w].value.actor,
                            status |-> 200, payment |-> "pending", serial |-> None]
      OBVIOUS
    <3>2. DeskRowOK(row) /\ row.id = id
      BY <1>2, <3>1 DEF DeskRowOK
    <3>3. db' = [db EXCEPT !.cards = @ \cup {row}]
      BY <1>3, <2>2, <3>1 DEF InsertCard, InsertRow
    <3> QED
      BY <3>2, <3>3
  <2> QED
    BY <2>1, <2>2
<1>8. /\ DOMAIN db' = DOMAIN db /\ \A t \in DOMAIN db \ {"records", "cards"} : db'[t] = db[t]
      /\ db'.records \cup db'.cards = db.records \cup db.cards \cup {row}
  BY <1>1, <1>7 DEF AlumniTablesTyped, AlumniDomain
<1>9. DeskIds \subseteq DeskIds' /\ id \in DeskIds'
  BY <1>7, <1>8 DEF DeskIds
<1>10. AlumniTablesTyped' /\ db'.events = db.events /\ db'.notices = db.notices
  BY <1>1, <1>2, <1>7, <1>8, <1>9 DEF AlumniTablesTyped, AlumniDomain, usePostgres
<1>11. Tail(todo[w]) \in AlumniTodo
       /\ (Tail(todo[w]) # <<>> => Head(Tail(todo[w])) \notin Inserts \cup Updates \cup {"noticeAudit"})
       /\ (usePostgres("alumni") /\ Tail(todo[w]) # <<>> => Head(Tail(todo[w])) # "publish")
  BY <1>1, AlumniAt DEF AlumniRouteOK, Inserts
<1>12. GoesOn(Tail(todo[w]), IF Tail(todo[w]) = <<>> THEN None ELSE locals)
  BY <1>5, <1>9, <1>11 DEF GoesOn
<1> QED
  BY <1>2, <1>6, <1>9, <1>10, <1>11, <1>12, AlumniStep

\* An administrator's update keeps every row's id and owner.
LEMMA DeskUpdates ==
  ASSUME AlumniInv, NEW w \in Workers, UpdateRecord(w) \/ UpdateCard(w)
  PROVE  AlumniInv'
<1>1. Slots /\ AlumniTablesTyped /\ todo[w] # <<>> /\ Head(todo[w]) \in Updates
  BY DEF AlumniInv, UpdateRecord, UpdateCard, At, Updates
<1>2. Head(todo[w]) \notin Inserts /\ arg[w].value.payment \in Payments /\ arg[w].id \in DeskIds
  BY <1>1, SMTT(30) DEF AlumniInv, AlumniRequestOK, Idle, Inserts, Updates
<1>3. configured' = configured
  BY DEF UpdateRecord, UpdateCard, ProceedWith, GoOn
<1>4. PICK locals : locals = [arg[w] EXCEPT !.value = None]
  OBVIOUS
<1>5. DOMAIN locals = {"type", "id", "value"} /\ locals.id = arg[w].id
  BY <1>1, <1>4, AlumniAt
<1>6. Moves(w, Tail(todo[w]), IF Tail(todo[w]) = <<>> THEN None ELSE locals)
  BY <1>1, <1>4, ProceedWithMoves DEF UpdateRecord, UpdateCard
<1>7. PICK old, new : /\ DeskRowOK(old) => DeskRowOK(new) /\ new.id = old.id
                      /\ \/ old \in db.records /\ db' = [db EXCEPT !.records = (@ \ {old}) \cup {new}]
                         \/ old \in db.cards /\ db' = [db EXCEPT !.cards = (@ \ {old}) \cup {new}]
  <2>1. ASSUME NEW row, DeskRowOK(row)
        PROVE  paymentOf(w, row) \in {"pending", "paid"}
    BY <1>2, <2>1, PaymentStatus DEF paymentOf, DeskRowOK
  <2>2. CASE UpdateRecord(w)
    <3>1. PICK old \in db.records : db' = [db EXCEPT !.records = (@ \ {old}) \cup
              {[old EXCEPT !.payment = paymentOf(w, old), !.status = arg[w].value.status]}]
      BY <2>2 DEF UpdateRecord
    <3>2. PICK new : new = [old EXCEPT !.payment = paymentOf(w, old), !.status = arg[w].value.status]
      OBVIOUS
    <3>3. DeskRowOK(old) => DeskRowOK(new) /\ new.id = old.id
      BY <2>1, <3>2 DEF DeskRowOK
    <3> QED
      BY <3>1, <3>2, <3>3
  <2>3. CASE UpdateCard(w)
    <3>1. PICK old \in db.cards : db' = [db EXCEPT !.cards = (@ \ {old}) \cup
              {[old EXCEPT !.payment = paymentOf(w, old), !.status = arg[w].value.status,
                           !.serial = serialOf(w, old)]}]
      BY <2>3 DEF UpdateCard
    <3>2. PICK new : new = [old EXCEPT !.payment = paymentOf(w, old), !.status = arg[w].value.status,
                                       !.serial = serialOf(w, old)]
      OBVIOUS
    <3>3. DeskRowOK(old) => DeskRowOK(new) /\ new.id = old.id
      BY <2>1, <3>2 DEF DeskRowOK
    <3> QED
      BY <3>1, <3>2, <3>3
  <2> QED
    BY <2>2, <2>3
<1>8. /\ DOMAIN db' = DOMAIN db /\ \A t \in DOMAIN db \ {"records", "cards"} : db'[t] = db[t]
      /\ DeskRowOK(new) /\ new.id = old.id /\ new \in db'.records \cup db'.cards
      /\ db'.records \cup db'.cards \subseteq db.records \cup db.cards \cup {new}
      /\ (db.records \cup db.cards) \ {old} \subseteq db'.records \cup db'.cards
  BY <1>1, <1>7 DEF AlumniTablesTyped, AlumniDomain
<1>9. DeskIds \subseteq DeskIds'
  BY <1>8 DEF DeskIds
<1>10. AlumniTablesTyped' /\ db'.events = db.events /\ db'.notices = db.notices
  BY <1>1, <1>3, <1>8, <1>9 DEF AlumniTablesTyped, AlumniDomain, usePostgres
<1>11. Tail(todo[w]) \in AlumniTodo
       /\ (Tail(todo[w]) # <<>> => Head(Tail(todo[w])) \notin Inserts \cup Updates \cup {"noticeAudit"})
       /\ (usePostgres("alumni") /\ Tail(todo[w]) # <<>> => Head(Tail(todo[w])) # "publish")
  BY <1>1, AlumniAt DEF AlumniRouteOK, Updates
<1>12. GoesOn(Tail(todo[w]), IF Tail(todo[w]) = <<>> THEN None ELSE locals)
  BY <1>2, <1>5, <1>9, <1>11 DEF GoesOn
<1> QED
  BY <1>3, <1>6, <1>9, <1>10, <1>11, <1>12, AlumniStep, SMTT(30)

\* The trails of what a request did: its event, the domain event, the audit.
LEMMA DeskTrails ==
  ASSUME AlumniInv, NEW w \in Workers, RecordEvent(w) \/ PublishAlumniEvent(w) \/ RecordAlumniAudit(w)
  PROVE  AlumniInv'
<1>1. Slots /\ AlumniTablesTyped /\ todo[w] # <<>> /\ Head(todo[w]) \in {"event", "publish", "audit"}
  BY DEF AlumniInv, RecordEvent, PublishAlumniEvent, RecordAlumniAudit, At
<1>2. AlumniRequestOK(w) /\ arg[w].id \in DeskIds
  BY <1>1 DEF AlumniInv, AlumniRequestOK, Idle, Inserts
<1>3. configured' = configured
      /\ Moves(w, Tail(todo[w]), IF Tail(todo[w]) = <<>> THEN None ELSE arg[w])
  BY <1>1, ProceedMoves DEF RecordEvent, PublishAlumniEvent, RecordAlumniAudit, Proceed, GoOn
<1> PICK mark : mark = Mark(w)
  OBVIOUS
<1>4. /\ DOMAIN db' = DOMAIN db /\ \A t \in DOMAIN db \ {"events", "published", "audits"} : db'[t] = db[t]
      /\ db.events \subseteq db'.events
      /\ db'.events \subseteq db.events \cup {mark} /\ db'.audits \subseteq db.audits \cup {mark}
      /\ Head(todo[w]) = "event" => mark \in db'.events
      /\ \/ db'.published = db.published
         \/ Head(todo[w]) = "publish" /\ db'.published = db.published \cup {mark}
  <2>1. \/ db' = db /\ Head(todo[w]) # "event"
        \/ db' = [db EXCEPT !.events = @ \cup {mark}]
        \/ db' = [db EXCEPT !.published = @ \cup {mark}] /\ Head(todo[w]) = "publish"
        \/ db' = [db EXCEPT !.audits = @ \cup {mark}] /\ Head(todo[w]) = "audit"
    BY DEF RecordEvent, PublishAlumniEvent, RecordAlumniAudit, At
  <2>2. DOMAIN db = AlumniDomain
    BY <1>1 DEF AlumniTablesTyped
  <2>3. CASE db' = db /\ Head(todo[w]) # "event"
    BY <2>3
  <2>4. CASE db' = [db EXCEPT !.events = @ \cup {mark}]
    BY <2>2, <2>4 DEF AlumniDomain
  <2>5. CASE db' = [db EXCEPT !.published = @ \cup {mark}] /\ Head(todo[w]) = "publish"
    BY <2>2, <2>5 DEF AlumniDomain
  <2>6. CASE db' = [db EXCEPT !.audits = @ \cup {mark}] /\ Head(todo[w]) = "audit"
    BY <2>2, <2>6 DEF AlumniDomain
  <2> QED
    BY <2>1, <2>3, <2>4, <2>5, <2>6
<1>5. DeskIds' = DeskIds /\ db'.notices = db.notices
  BY <1>1, <1>4 DEF DeskIds, AlumniTablesTyped, AlumniDomain
<1>6. AlumniTablesTyped'
  <2>1. Mark(w)[2] \in DeskIds
    BY <1>2 DEF Mark
  <2>2. usePostgres("alumni") => db'.published \subseteq db'.events
    BY <1>1, <1>2, <1>4 DEF AlumniTablesTyped, AlumniRequestOK, Idle
  <2> QED
    BY <1>1, <1>3, <1>4, <1>5, <2>1, <2>2 DEF AlumniTablesTyped, AlumniDomain, usePostgres
<1>7. Tail(todo[w]) \in AlumniTodo
       /\ (Tail(todo[w]) # <<>> => Head(Tail(todo[w])) \notin Inserts \cup Updates \cup {"noticeAudit"})
       /\ (usePostgres("alumni") /\ Tail(todo[w]) # <<>> /\ Head(Tail(todo[w])) = "publish" => Head(todo[w]) = "event")
  BY <1>1, AlumniAt DEF AlumniRouteOK
<1>8. GoesOn(Tail(todo[w]), IF Tail(todo[w]) = <<>> THEN None ELSE arg[w])
  BY <1>1, <1>2, <1>4, <1>5, <1>7 DEF GoesOn, AlumniRequestOK, Idle, Mark
<1> QED
  BY <1>3, <1>4, <1>5, <1>6, <1>7, <1>8, AlumniStep

\* The notice of a request.
LEMMA DeskNotices ==
  ASSUME AlumniInv, NEW w \in Workers, TryInsertNotice(w) \/ TryAuditNotice(w) \/ AuditSkippedNotice(w)
  PROVE  AlumniInv'
<1>1. Slots /\ AlumniTablesTyped
  BY DEF AlumniInv
<1>2. todo[w] # <<>> /\ Head(todo[w]) \in {"notice", "noticeAudit", "noticeSkipped"}
  BY <1>1, NoticeMoves
<1>3. AlumniRequestOK(w) /\ arg[w].id \in DeskIds /\ DOMAIN arg[w] = {"type", "id", "value"}
  BY <1>2 DEF AlumniInv, AlumniRequestOK, Idle, Inserts
<1>4. PICK steps :
          /\ Moves(w, steps, IF steps = <<>> THEN None ELSE arg[w])
          /\ \/ steps = Tail(todo[w])
             \/ /\ steps = <<"noticeAudit">> \o Tail(todo[w]) /\ Head(todo[w]) = "notice"
                /\ "notices" \in DOMAIN db => arg[w].id \in db'.notices
             \/ /\ steps = <<"noticeSkipped">> \o Tail(todo[w])
                /\ Head(todo[w]) \in {"notice", "noticeAudit"}
  BY <1>1, NoticeMoves
<1>5. configured' = configured
  BY DEF TryInsertNotice, TryAuditNotice, AuditSkippedNotice, Proceed, GoOn
<1>6. /\ DOMAIN db' = DOMAIN db
      /\ \A t \in DOMAIN db \ {"notices", "unread", "noticeAudits"} : db'[t] = db[t]
      /\ db.notices \subseteq db'.notices /\ db'.unread \subseteq db'.notices
      /\ \A a \in db'.noticeAudits : \/ a \in db.noticeAudits
                                     \/ a[1] \in {"created", "skipped"} /\ a[2] = arg[w].id
                                          /\ (a[1] = "created" => a[2] \in db'.notices)
  <2>1. At(w, "noticeAudit") => arg[w].id \in db.notices
    BY DEF AlumniInv, AlumniRequestOK, At, Idle
  <2>2. {"notices", "unread", "noticeAudits"} \subseteq DOMAIN db /\ db.unread \subseteq db.notices
    BY <1>1 DEF AlumniTablesTyped, AlumniDomain
  <2> QED
    BY <2>1, <2>2, NoticeEffect
<1>7. DeskIds' = DeskIds /\ db'.events = db.events
  BY <1>1, <1>6 DEF DeskIds, AlumniTablesTyped, AlumniDomain
<1>8. AlumniTablesTyped'
  BY <1>1, <1>3, <1>5, <1>6, <1>7 DEF AlumniTablesTyped, AlumniDomain, usePostgres
<1>9. /\ steps \in AlumniTodo
      /\ steps # <<>> => Head(steps) \notin Inserts \cup Updates
      /\ steps # <<>> /\ Head(steps) = "publish" => ~usePostgres("alumni")
      /\ steps # <<>> /\ Head(steps) = "noticeAudit" => arg[w].id \in db'.notices
  <2>1. /\ AlumniRouteOK(AlumniTodo, todo[w]) /\ "notices" \in DOMAIN db
        /\ usePostgres("alumni") /\ Tail(todo[w]) # <<>> /\ Head(Tail(todo[w])) = "publish" => Head(todo[w]) = "event"
    BY <1>1, <1>2, AlumniAt DEF AlumniTablesTyped, AlumniDomain
  <2>2. CASE steps = Tail(todo[w])
    BY <1>2, <2>1, <2>2 DEF AlumniRouteOK
  <2>3. CASE steps = <<"noticeAudit">> \o Tail(todo[w]) /\ Head(todo[w]) = "notice" /\ arg[w].id \in db'.notices
    <3>1. steps \in AlumniTodo /\ Head(steps) = "noticeAudit"
      BY <2>1, <2>3 DEF AlumniRouteOK
    <3> QED
      BY <2>3, <3>1 DEF Inserts, Updates
  <2>4. CASE steps = <<"noticeSkipped">> \o Tail(todo[w]) /\ Head(todo[w]) \in {"notice", "noticeAudit"}
    <3>1. steps \in AlumniTodo /\ Head(steps) = "noticeSkipped"
      BY <2>1, <2>4 DEF AlumniRouteOK
    <3> QED
      BY <3>1 DEF Inserts, Updates
  <2> QED
    BY <1>4, <2>1, <2>2, <2>3, <2>4
<1>10. GoesOn(steps, IF steps = <<>> THEN None ELSE arg[w])
  BY <1>3, <1>7, <1>9 DEF GoesOn
<1> QED
  BY <1>4, <1>5, <1>6, <1>7, <1>8, <1>9, <1>10, AlumniStep

\* Every step of any service keeps the invariant of the alumni desk.
LEMMA AlumniKeep ==
  ASSUME service = "alumni" => AlumniInv, [Next]_vars
  PROVE  (service = "alumni" => AlumniInv)'
<1>1. service' = service
  BY ServiceKept DEF Kept
<1> SUFFICES ASSUME service = "alumni", AlumniInv
             PROVE  AlumniInv'
  BY <1>1
<1>2. CASE UNCHANGED vars
  BY <1>2 DEF vars, AlumniInv, AlumniTablesTyped, AlumniRequestOK, AlumniTodo, DeskIds, Mark, usePostgres, Slots, Idle
<1>3. CASE NotificationsNext
  <2>1. PICK w \in Workers : NotificationsNext!(w)
    BY <1>3 DEF NotificationsNext
  <2>2. todo[w] # <<>> => Head(todo[w]) \notin {"noticeRow", "createdAudit", "markRead", "readAudit", "readAllAudit"}
    BY AlumniAt DEF AlumniRouteOK, Inserts, Updates
  <2>3. TryInsertNotice(w) \/ TryAuditNotice(w) \/ AuditSkippedNotice(w)
    BY <2>1, <2>2 DEF CreateNotice, InsertCreatedNotice, AuditCreatedNotice, MarkRead, UpdateRead, AuditRead,
       MarkAllRead, AuditReadAll, Take, At
  <2> QED
    BY <2>3, DeskNotices
<1>4. CASE AlumniNext
  <2>1. PICK w \in Workers : AlumniNext!(w)
    BY <1>4 DEF AlumniNext
  <2>2. todo[w] # <<>> => Head(todo[w]) \notin {"insertLog", "upsertAccount"}
    BY AlumniAt DEF AlumniRouteOK, Inserts, Updates
  <2>3. ~(registerAlumni(w) \/ InsertLog(w) \/ UpsertAccount(w))
    BY <2>2 DEF registerAlumni, AlumniRequest, InsertLog, UpsertAccount, Take, At
  <2> QED
    BY <2>1, <2>3, AlumniRequests, DeskInserts, DeskUpdates, DeskTrails
<1> QED
  BY <1>2, <1>3, <1>4 DEF Next

\* The alumni tables at the beginning.
LEMMA AlumniTablesStart ==
  /\ DOMAIN AlumniTables = AlumniDomain
  /\ AlumniTables.notices = {} /\ AlumniTables.unread = {} /\ AlumniTables.noticeAudits = {}
  /\ AlumniTables.logs = {} /\ AlumniTables.accounts = [a \in Alumni |-> None]
  /\ AlumniTables.records = {} /\ AlumniTables.cards = {}
  /\ AlumniTables.events = {} /\ AlumniTables.published = {} /\ AlumniTables.audits = {}
BY DEF AlumniTables, NotificationTables, Merged, AlumniDomain

\* The invariant of the alumni desk holds at the beginning.
LEMMA AlumniStart == Init => (service = "alumni" => AlumniInv)
<1> SUFFICES ASSUME Init, service = "alumni"
             PROVE  AlumniInv
  OBVIOUS
<1>1. AlumniInit
  BY DEF Init, NotificationsInit, ProfessorsInit, GraduationsInit, ResourcesInit, RegistrarInit,
     ApplicationsInit, TenantsInit, BillingInit, Start
<1>2. todo = [w \in Workers |-> <<>>] /\ arg = [w \in Workers |-> None] /\ db = AlumniTables
  BY <1>1 DEF AlumniInit, Start
<1>3. AlumniTablesTyped
  BY <1>2, AlumniTablesStart DEF AlumniTablesTyped
<1> QED
  BY <1>2, <1>3 DEF AlumniInv, AlumniRequestOK, AlumniTodo, PostgresTodo, SupabaseTodo, Slots, Idle

-----------------------------------------------------------------------------
(* Registrations and graduations (service "graduations") *)

RegisterTodo == {
    <<"insertLog", "upsertAccount", "event">>, <<"upsertAccount", "event">>, <<"event">>,
    <<"insertLog", "upsertAccount">>, <<"upsertAccount">>}

ConsumeTodo == {
    <<"insertLog", "event", "handled">>, <<"event", "handled">>, <<"handled">>,
    <<"insertLog", "upsertAccount", "handled">>, <<"upsertAccount", "handled">>}

\* A message that names a graduate.
Full(m) == m \in 1 .. Len(db.topic) /\ db.topic[m] # None

\* The message is empty, was logged, or its handler reported an error.
MessageTaken(m) == db.topic[m] = None \/ logsOf(m) # {} \/ m \in db.dropped

\* Only messages that name a graduate are logged or reported.
SourcesOK ==
    /\ \A m \in db.dropped : Full(m)
    /\ \A row \in db.logs : row.message = None \/ Full(row.message)

\* The row that a request works on is the log it has written.
LogWritten(w) == \E row \in db.logs : row.id = arg[w].id /\ row.actor = arg[w].value.actor

\* The one request that consumes is at the message after the position, past
\* its first statement it has taken the message, and before the last one the
\* message is not empty.
ConsumerOK(w) ==
    /\ todo[w] \in ConsumeTodo
    /\ db.first # None /\ db.position < Len(db.topic) /\ arg[w].value.message = db.position + 1
    /\ \A v \in Workers \ {w} : ~Consuming(v)
    /\ Head(todo[w]) # "insertLog" => MessageTaken(db.position + 1)
    /\ Head(todo[w]) # "handled" => Full(db.position + 1)

GradRequestOK(w) == ~Idle(w) =>
    /\ DOMAIN arg[w] = {"type", "id", "value"}
    /\ Head(todo[w]) # "handled" => arg[w].value.actor \in Alumni
    /\ arg[w].type \in {"registered", "graduated"}
    /\ arg[w].type = "registered" => todo[w] \in RegisterTodo /\ arg[w].value.message = None
    /\ arg[w].type = "graduated" => ConsumerOK(w)
    /\ Head(todo[w]) \notin {"insertLog", "handled"} => LogWritten(w)

GradDomain == AlumniDomain \cup {"topic", "first", "position", "offset", "dropped", "restarts"}

LogsOK ==
    /\ IsFiniteSet(db.logs) /\ db.logs \subseteq LogRows
    /\ \A row \in db.logs : row.id \in 1 .. MaxRows["logs"]
    /\ db.accounts \in [Alumni -> Nat \cup {None}]
    /\ \A a \in Alumni : db.accounts[a] # None => \E row \in db.logs : row.actor = a /\ row.id = db.accounts[a]
    /\ \A e \in db.events : \E row \in db.logs : row.id = e[2]

TopicOK ==
    /\ db.topic \in Seq(Alumni \cup {None}) /\ db.position \in 0 .. Len(db.topic) /\ db.restarts \in Nat
    /\ db.first \in Nat \cup {None} /\ db.offset \in 0 .. Len(db.topic) \cup {None}
    /\ db.first = None => db.position = 0 /\ db.offset = None

OthersEmpty ==
    /\ db.notices = {} /\ db.unread = {} /\ db.noticeAudits = {} /\ db.records = {} /\ db.cards = {}
    /\ db.published = {} /\ db.audits = {}

\* Every message that the position or the committed offset has passed was taken.
Passed(m) ==
    db.first # None /\ db.first < m /\ (m <= db.position \/ (db.offset # None /\ m <= db.offset)) => MessageTaken(m)

\* A handler has, since the last start of the consumer, got past logging m.
Begun(m) == \/ m <= db.position
            \/ m = db.position + 1 /\ \E w \in Workers : Consuming(w) /\ Head(todo[w]) # "insertLog"

\* Once per start that is over, and once more when this one has begun with m.
CountOK(m) == Cardinality(logsOf(m)) <= db.restarts + (IF Begun(m) THEN 1 ELSE 0)

GradInv ==
    /\ Slots /\ DOMAIN db = GradDomain /\ LogsOK /\ TopicOK /\ SourcesOK /\ OthersEmpty
    /\ \A w \in Workers : GradRequestOK(w)
    /\ \A m \in Nat : Passed(m) /\ CountOK(m)

\* What follows each step of a registration and of a graduation.
LEMMA GradRoute ==
  ASSUME NEW r \in RegisterTodo \cup ConsumeTodo
  PROVE  /\ r # <<>> /\ Head(r) \in {"insertLog", "upsertAccount", "event", "handled"}
         /\ Tail(r) # <<>> => Tail(r) \in RegisterTodo \cup ConsumeTodo /\ Head(Tail(r)) # "insertLog"
         /\ r \in RegisterTodo => Head(r) # "handled" /\ (Tail(r) # <<>> => Tail(r) \in RegisterTodo)
         /\ r \in ConsumeTodo => /\ Tail(r) # <<>> => Tail(r) \in ConsumeTodo
                                 /\ Head(r) = "handled" <=> Tail(r) = <<>>
<1> DEFINE iue == <<"insertLog", "upsertAccount", "event">>
           ue == <<"upsertAccount", "event">>
           e == <<"event">>
           iu == <<"insertLog", "upsertAccount">>
           u == <<"upsertAccount">>
           ieh == <<"insertLog", "event", "handled">>
           eh == <<"event", "handled">>
           h == <<"handled">>
           iuh == <<"insertLog", "upsertAccount", "handled">>
           uh == <<"upsertAccount", "handled">>
<1>1. /\ Head(iue) = "insertLog" /\ Tail(iue) = ue /\ iue # <<>>
      /\ Head(ue) = "upsertAccount" /\ Tail(ue) = e /\ ue # <<>>
      /\ Head(e) = "event" /\ Tail(e) = <<>> /\ e # <<>>
      /\ Head(iu) = "insertLog" /\ Tail(iu) = u /\ iu # <<>>
      /\ Head(u) = "upsertAccount" /\ Tail(u) = <<>> /\ u # <<>>
  OBVIOUS
<1>2. /\ Head(ieh) = "insertLog" /\ Tail(ieh) = eh /\ ieh # <<>>
      /\ Head(eh) = "event" /\ Tail(eh) = h /\ eh # <<>>
      /\ Head(h) = "handled" /\ Tail(h) = <<>> /\ h # <<>>
      /\ Head(iuh) = "insertLog" /\ Tail(iuh) = uh /\ iuh # <<>>
      /\ Head(uh) = "upsertAccount" /\ Tail(uh) = h /\ uh # <<>>
  OBVIOUS
<1>3. RegisterTodo = {iue, ue, e, iu, u} /\ ConsumeTodo = {ieh, eh, h, iuh, uh}
  BY DEF RegisterTodo, ConsumeTodo
<1> HIDE DEF iue, ue, e, iu, u, ieh, eh, h, iuh, uh
<1>4. CASE r \in RegisterTodo
  <2>1. r \notin ConsumeTodo
    <3>1. /\ <<"insertLog", "upsertAccount", "event">> \notin ConsumeTodo /\ <<"upsertAccount", "event">> \notin ConsumeTodo
          /\ <<"event">> \notin ConsumeTodo /\ <<"insertLog", "upsertAccount">> \notin ConsumeTodo
          /\ <<"upsertAccount">> \notin ConsumeTodo
      BY DEF ConsumeTodo
    <3> QED
      BY <1>4, <3>1 DEF RegisterTodo
  <2> QED
    BY <1>1, <1>3, <1>4, <2>1
<1>5. CASE r \in ConsumeTodo
  <2>1. r \notin RegisterTodo
    <3>1. /\ <<"insertLog", "upsertAccount", "event">> \notin ConsumeTodo /\ <<"upsertAccount", "event">> \notin ConsumeTodo
          /\ <<"event">> \notin ConsumeTodo /\ <<"insertLog", "upsertAccount">> \notin ConsumeTodo
          /\ <<"upsertAccount">> \notin ConsumeTodo
      BY DEF ConsumeTodo
    <3> QED
      BY <1>5, <3>1 DEF RegisterTodo
  <2> QED
    BY <1>2, <1>3, <1>5, <2>1
<1> QED
  BY <1>4, <1>5

\* What was logged or dropped stays so, and the position does not move.
Onward ==
    /\ service' = service /\ configured' = configured
    /\ db'.topic = db.topic /\ db'.first = db.first /\ db'.position = db.position
    /\ db'.offset = db.offset /\ db'.restarts = db.restarts
    /\ db.logs \subseteq db'.logs /\ db.dropped \subseteq db'.dropped

\* A message that was taken stays taken: logs and reports are only added.
LEMMA TakenKept ==
  ASSUME db.logs \subseteq db'.logs, db.dropped \subseteq db'.dropped, NEW m, db'.topic[m] = db.topic[m], MessageTaken(m)
  PROVE  MessageTaken(m)'
BY DEF MessageTaken, logsOf

\* A request moves and the position does not.
LEMMA GradStep ==
  ASSUME GradInv, service = "graduations", NEW w \in Workers, NEW steps, NEW locals,
         Moves(w, steps, locals), Onward,
         DOMAIN db' = GradDomain, LogsOK', SourcesOK', OthersEmpty', GradRequestOK(w)',
         Consuming(w)' => Consuming(w) \/ ConsumerIdle,
         \A m \in Nat : CountOK(m)'
  PROVE  GradInv'
<1>1. TopicOK'
  BY DEF GradInv, TopicOK, Onward
<1>2. ASSUME NEW m \in Nat
      PROVE  Passed(m)'
  BY TakenKept DEF GradInv, Passed, Onward
<1>3. ASSUME NEW v \in Workers \ {w}
      PROVE  GradRequestOK(v)'
  <2>1. GradRequestOK(v) /\ todo'[v] = todo[v] /\ arg'[v] = arg[v]
    BY DEF GradInv, Moves
  <2>2. (Consuming(v)' <=> Consuming(v)) /\ (Idle(v)' <=> Idle(v)) /\ (LogWritten(v) => LogWritten(v)')
    BY <2>1 DEF Consuming, Idle, Onward, LogWritten
  <2>3. ASSUME ConsumerOK(v), Consuming(v)
        PROVE  ConsumerOK(v)'
    <3>1. \A u \in Workers \ {v} : ~Consuming(u)'
      <4>1. ~Consuming(w)'
        BY <2>3 DEF ConsumerOK, ConsumerIdle
      <4>2. \A u \in Workers \ {w} : Consuming(u)' <=> Consuming(u)
        BY DEF Moves, Consuming, Idle, Onward
      <4> QED
        BY <2>3, <4>1, <4>2 DEF ConsumerOK
    <3>2. Full(db.position + 1)' <=> Full(db.position + 1)
      BY DEF Full, Onward
    <3> QED
      BY <2>1, <2>3, <3>1, <3>2, TakenKept DEF ConsumerOK, Onward
  <2>4. arg[v].type = "graduated" /\ ~Idle(v) => ConsumerOK(v)'
    BY <2>1, <2>3 DEF GradRequestOK, Consuming
  <2> QED
    BY <2>1, <2>2, <2>4 DEF GradRequestOK
<1> QED
  BY <1>1, <1>2, <1>3 DEF GradInv, Moves

\* No log is written, and a handler that has begun stays so.
LEMMA CountKept ==
  ASSUME GradInv, NEW w \in Workers, NEW steps, NEW locals, Moves(w, steps, locals), service' = service,
         db'.logs = db.logs, db'.restarts = db.restarts, db'.position = db.position,
         Consuming(w) /\ Head(todo[w]) # "insertLog" => Consuming(w)' /\ Head(steps) # "insertLog"
  PROVE  \A m \in Nat : CountOK(m)'
<1> SUFFICES ASSUME NEW m \in Nat
             PROVE  CountOK(m)'
  OBVIOUS
<1>1. Begun(m) => Begun(m)'
  <2>1. \A v \in Workers \ {w} : Consuming(v) /\ Head(todo[v]) # "insertLog"
                                   => Consuming(v)' /\ Head(todo'[v]) # "insertLog"
    BY DEF Moves, Consuming, Idle
  <2> QED
    BY <2>1 DEF Begun, Moves
<1>2. CountOK(m) /\ logsOf(m)' = logsOf(m) /\ IsFiniteSet(logsOf(m))
  <2>1. IsFiniteSet(logsOf(m))
    BY FS_Subset DEF GradInv, LogsOK, logsOf
  <2> QED
    BY <2>1 DEF GradInv, logsOf
<1>3. Cardinality(logsOf(m)) \in Nat /\ db.restarts \in Nat
  BY <1>2, FS_CardinalityType DEF GradInv, TopicOK
<1>4. PICK n \in Nat, k \in Nat : n = Cardinality(logsOf(m)) /\ k = db.restarts
  BY <1>3
<1>5. n <= k + (IF Begun(m) THEN 1 ELSE 0) /\ Cardinality(logsOf(m))' = n
  BY <1>2, <1>4 DEF CountOK
<1> QED
  BY <1>1, <1>4, <1>5 DEF CountOK

\* A registration arrives, or one ends early.
LEMMA GradRequests ==
  ASSUME GradInv, service = "graduations", NEW w \in Workers,
         registerAlumni(w) \/ (~Consuming(w) /\ Fail(w))
  PROVE  GradInv'
<1>1. /\ Slots /\ UNCHANGED <<db, service, configured>> /\ Onward
      /\ DOMAIN db' = GradDomain /\ LogsOK' /\ SourcesOK' /\ OthersEmpty'
  BY DEF GradInv, LogsOK, SourcesOK, Full, OthersEmpty, registerAlumni, AlumniRequest, Fail, Take, Answer, GoOn, Onward
<1>2. ~Consuming(w)
  BY DEF registerAlumni, AlumniRequest, Take, Consuming
<1>3. \E steps, locals :
          /\ Moves(w, steps, locals)
          /\ steps # <<>> => /\ steps \in RegisterTodo /\ Head(steps) = "insertLog"
                             /\ DOMAIN locals = {"type", "id", "value"} /\ locals.type = "registered"
                             /\ locals.value.actor \in Alumni /\ locals.value.message = None
  <2>1. CASE registerAlumni(w)
    <3>1. PICK actor \in Alumni : AlumniRequest("graduations", w, "registered", None, [actor |-> actor, message |-> None])
      BY <2>1 DEF registerAlumni
    <3>2. Moves(w, route("registered"), [type |-> "registered", id |-> None, value |-> [actor |-> actor, message |-> None]])
      BY <1>1, <3>1, TakeMoves DEF AlumniRequest
    <3>3. route("registered") \in RegisterTodo /\ Head(route("registered")) = "insertLog"
      BY DEF route, postgresRoute, supabaseRoute, RegisterTodo
    <3> QED
      BY <3>2, <3>3
  <2>2. CASE Fail(w)
    BY <1>1, <2>2, FailMoves
  <2> QED
    BY <2>1, <2>2
<1>4. PICK steps, locals :
          /\ Moves(w, steps, locals)
          /\ steps # <<>> => /\ steps \in RegisterTodo /\ Head(steps) = "insertLog"
                             /\ DOMAIN locals = {"type", "id", "value"} /\ locals.type = "registered"
                             /\ locals.value.actor \in Alumni /\ locals.value.message = None
  BY <1>3
<1>5. GradRequestOK(w)' /\ ~Consuming(w)'
  BY <1>4 DEF GradRequestOK, Moves, Idle, Consuming
<1>6. \A m \in Nat : CountOK(m)'
  BY <1>1, <1>2, <1>4, CountKept
<1> QED
  BY <1>1, <1>4, <1>5, <1>6, GradStep

\* The consumer hands over the next message.
LEMMA GradMessages ==
  ASSUME GradInv, service = "graduations", NEW w \in Workers, EachMessage(w)
  PROVE  GradInv'
<1>1. /\ Slots /\ UNCHANGED <<db, service, configured>> /\ Onward
      /\ DOMAIN db' = GradDomain /\ LogsOK' /\ SourcesOK' /\ OthersEmpty' /\ TopicOK /\ ConsumerIdle
  BY DEF GradInv, LogsOK, SourcesOK, Full, OthersEmpty, EachMessage, Take, Onward
<1>2. PICK message : message = db.position + 1
  OBVIOUS
<1>3. PICK actor : actor = db.topic[message]
  OBVIOUS
<1>4. PICK steps : steps = messageRoute(message)
  OBVIOUS
<1>5. /\ Take("graduations", w, steps,
               [type |-> "graduated", id |-> None, value |-> [actor |-> actor, message |-> message]])
      /\ db.first # None /\ message <= Len(db.topic)
  BY <1>2, <1>3, <1>4 DEF EachMessage
<1>6. Moves(w, steps, [type |-> "graduated", id |-> None, value |-> [actor |-> actor, message |-> message]])
  BY <1>1, <1>5, TakeMoves
<1>7. /\ steps \in ConsumeTodo
      /\ actor # None => Head(steps) = "insertLog"
      /\ actor = None => Head(steps) = "handled"
  <2>1. route("graduated") \in ConsumeTodo /\ Head(route("graduated")) = "insertLog"
    BY DEF route, postgresRoute, supabaseRoute, ConsumeTodo
  <2>2. <<"handled">> \in ConsumeTodo /\ Head(<<"handled">>) = "handled"
    BY DEF ConsumeTodo
  <2>3. CASE actor = None
    <3>1. steps = <<"handled">>
      BY <1>3, <1>4, <2>3 DEF messageRoute
    <3> QED
      BY <2>2, <2>3, <3>1
  <2>4. CASE actor # None
    <3>1. steps = route("graduated")
      BY <1>3, <1>4, <2>4 DEF messageRoute
    <3> QED
      BY <2>1, <2>4, <3>1
  <2> QED
    BY <2>3, <2>4
<1>8. /\ db.position < Len(db.topic) /\ actor \in Alumni \cup {None}
      /\ actor # None => Full(message)
      /\ actor = None => MessageTaken(message)
  BY <1>1, <1>2, <1>3, <1>5 DEF TopicOK, Full, MessageTaken
<1>9. ConsumerOK(w)'
  <2>1. \A v \in Workers \ {w} : ~Consuming(v)'
    BY <1>1, <1>6 DEF ConsumerIdle, Consuming, Idle, Moves
  <2>2. /\ Head(steps) # "insertLog" => MessageTaken(db.position + 1)'
        /\ Head(steps) # "handled" => Full(db.position + 1)'
    BY <1>1, <1>2, <1>7, <1>8 DEF Full, MessageTaken, logsOf
  <2> QED
    BY <1>1, <1>2, <1>5, <1>6, <1>7, <1>8, <2>1, <2>2 DEF ConsumerOK, Moves
<1>10. GradRequestOK(w)'
  BY <1>6, <1>7, <1>8, <1>9 DEF GradRequestOK, Moves, Idle
<1>11. \A m \in Nat : CountOK(m)'
  BY <1>1, <1>6, CountKept DEF ConsumerIdle
<1> QED
  BY <1>1, <1>6, <1>10, <1>11, GradStep

\* A request that goes on after its log.
LEMMA GradLater ==
  ASSUME GradInv, service = "graduations", NEW w \in Workers, ~Idle(w), Head(todo[w]) # "handled",
         NEW locals, Moves(w, Tail(todo[w]), IF Tail(todo[w]) = <<>> THEN None ELSE locals), Onward,
         DOMAIN locals = {"type", "id", "value"}, locals.type = arg[w].type, locals.value = arg[w].value,
         \E row \in db'.logs : row.id = locals.id /\ row.actor = arg[w].value.actor,
         arg[w].type = "graduated" => MessageTaken(db.position + 1)'
  PROVE  /\ GradRequestOK(w)'
         /\ Consuming(w)' => Consuming(w)
         /\ Consuming(w) => Consuming(w)' /\ Head(Tail(todo[w])) # "insertLog"
<1>1. GradRequestOK(w)
  BY DEF GradInv
<1>2. todo[w] \in RegisterTodo \cup ConsumeTodo /\ arg[w].type \in {"registered", "graduated"}
  BY <1>1 DEF GradRequestOK, ConsumerOK
<1>3. /\ Tail(todo[w]) # <<>> => Head(Tail(todo[w])) # "insertLog"
      /\ todo[w] \in RegisterTodo => (Tail(todo[w]) # <<>> => Tail(todo[w]) \in RegisterTodo)
      /\ todo[w] \in ConsumeTodo => Tail(todo[w]) # <<>> /\ Tail(todo[w]) \in ConsumeTodo
  BY <1>2, GradRoute
<1>4. ASSUME arg[w].type = "graduated"
      PROVE  ConsumerOK(w)' /\ Tail(todo[w]) # <<>> /\ Consuming(w)
  <2>1. ConsumerOK(w)
    BY <1>1, <1>4 DEF GradRequestOK
  <2>2. \A v \in Workers \ {w} : ~Consuming(v)'
    BY <2>1 DEF ConsumerOK, Consuming, Idle, Moves, Onward
  <2>3. Tail(todo[w]) # <<>> /\ Tail(todo[w]) \in ConsumeTodo
    BY <1>3, <2>1 DEF ConsumerOK
  <2>4. todo'[w] = Tail(todo[w]) /\ arg'[w] = locals
    BY <2>3 DEF Moves
  <2>5. MessageTaken(db.position + 1)' /\ db'.position = db.position /\ db'.first = db.first /\ db'.topic = db.topic
    BY <1>4 DEF Onward
  <2>6. Full(db.position + 1)'
    BY <2>1 DEF ConsumerOK, Full, Onward
  <2>7. ConsumerOK(w)'
    BY <2>1, <2>2, <2>3, <2>4, <2>5, <2>6 DEF ConsumerOK
  <2> QED
    BY <1>4, <2>3, <2>7 DEF Consuming
<1>5. GradRequestOK(w)'
  <2>1. CASE Tail(todo[w]) = <<>>
    BY <2>1 DEF GradRequestOK, Moves, Idle
  <2>2. CASE Tail(todo[w]) # <<>>
    <3>1. todo'[w] = Tail(todo[w]) /\ arg'[w] = locals
      BY <2>2 DEF Moves
    <3>2. LogWritten(w)'
      BY <3>1 DEF LogWritten
    <3>3. /\ DOMAIN arg'[w] = {"type", "id", "value"} /\ arg'[w].value.actor \in Alumni
          /\ arg'[w].type = arg[w].type /\ arg'[w].value = arg[w].value
      BY <1>1, <3>1 DEF GradRequestOK
    <3>4. arg[w].type = "registered" => todo'[w] \in RegisterTodo /\ arg'[w].value.message = None
      BY <1>1, <1>3, <2>2, <3>1 DEF GradRequestOK
    <3> QED
      BY <1>2, <1>4, <3>2, <3>3, <3>4 DEF GradRequestOK
  <2> QED
    BY <2>1, <2>2
<1>6. Consuming(w)' => Consuming(w)
  BY <1>2 DEF Consuming, Moves, Onward, Idle
<1>7. Consuming(w) => Consuming(w)' /\ Head(Tail(todo[w])) # "insertLog"
  BY <1>3, <1>4 DEF Consuming, Moves, Onward, Idle
<1> QED
  BY <1>5, <1>6, <1>7

\* An account is written, or the event of a registration or a graduation.
LEMMA GradAccounts ==
  ASSUME GradInv, service = "graduations", NEW w \in Workers, UpsertAccount(w) \/ RecordEvent(w)
  PROVE  GradInv'
<1>1. /\ Slots /\ DOMAIN db = GradDomain /\ LogsOK /\ OthersEmpty /\ GradRequestOK(w) /\ ~Idle(w)
      /\ Head(todo[w]) \in {"upsertAccount", "event"}
  BY DEF GradInv, UpsertAccount, RecordEvent, At, Idle
<1>2. UNCHANGED <<service, configured>>
      /\ Moves(w, Tail(todo[w]), IF Tail(todo[w]) = <<>> THEN None ELSE arg[w])
  BY <1>1, ProceedMoves DEF UpsertAccount, RecordEvent, Proceed, GoOn
<1>3. LogWritten(w) /\ DOMAIN arg[w] = {"type", "id", "value"} /\ arg[w].value.actor \in Alumni
  BY <1>1 DEF GradRequestOK
<1>4. PICK row \in db.logs : row.id = arg[w].id /\ row.actor = arg[w].value.actor
  BY <1>3 DEF LogWritten
<1>5. PICK a, id : a \in Alumni /\ a = arg[w].value.actor /\ id = arg[w].id /\ id \in Nat
  BY <1>1, <1>3, <1>4 DEF LogsOK, LogRows
<1> PICK mark : mark = Mark(w)
  OBVIOUS
<1>6. mark = Mark(w) /\ mark[2] = id
  BY <1>5 DEF Mark
<1>7. \/ db' = db
      \/ db' = [db EXCEPT !.accounts[a] = id]
      \/ db' = [db EXCEPT !.events = @ \cup {mark}]
  BY <1>5, <1>6 DEF UpsertAccount, RecordEvent
<1>8. /\ DOMAIN db' = GradDomain /\ \A t \in GradDomain \ {"accounts", "events"} : db'[t] = db[t]
      /\ db'.accounts = db.accounts \/ db'.accounts = [db.accounts EXCEPT ![a] = id]
      /\ db'.events \subseteq db.events \cup {mark}
  <2>1. CASE db' = db
    BY <1>1, <2>1
  <2>2. CASE db' = [db EXCEPT !.accounts[a] = id]
    BY <1>1, <2>2 DEF GradDomain, AlumniDomain
  <2>3. CASE db' = [db EXCEPT !.events = @ \cup {mark}]
    BY <1>1, <2>3 DEF GradDomain, AlumniDomain
  <2> QED
    BY <1>7, <2>1, <2>2, <2>3
<1>9. /\ db'.logs = db.logs /\ db'.restarts = db.restarts /\ db'.position = db.position /\ Onward
      /\ OthersEmpty' /\ SourcesOK'
  BY <1>1, <1>2, <1>8 DEF GradInv, GradDomain, AlumniDomain, Onward, OthersEmpty, SourcesOK, Full
<1>10. LogsOK'
  BY <1>1, <1>4, <1>5, <1>6, <1>8, <1>9 DEF LogsOK
<1>11. arg[w].type = "graduated" => MessageTaken(db.position + 1)'
  BY <1>1, <1>9, TakenKept DEF GradRequestOK, ConsumerOK, Onward, MessageTaken, logsOf
<1>12. /\ GradRequestOK(w)'
       /\ Consuming(w)' => Consuming(w)
       /\ Consuming(w) => Consuming(w)' /\ Head(Tail(todo[w])) # "insertLog"
  BY <1>1, <1>2, <1>3, <1>4, <1>9, <1>11, GradLater
<1>13. \A m \in Nat : CountOK(m)'
  BY <1>2, <1>9, <1>12, CountKept
<1> QED
  BY <1>2, <1>8, <1>9, <1>10, <1>12, <1>13, GradStep

\* A log is written, of a registration or of a graduation message.
LEMMA GradInserts ==
  ASSUME GradInv, service = "graduations", NEW w \in Workers, InsertLog(w)
  PROVE  GradInv'
<1>1. /\ Slots /\ DOMAIN db = GradDomain /\ LogsOK /\ TopicOK /\ OthersEmpty /\ GradRequestOK(w) /\ ~Idle(w)
      /\ Head(todo[w]) = "insertLog" /\ Head(todo[w]) # "handled"
  BY DEF GradInv, InsertLog, At, Idle
<1>2. /\ DOMAIN arg[w] = {"type", "id", "value"} /\ arg[w].value.actor \in Alumni
      /\ arg[w].type \in {"registered", "graduated"}
      /\ arg[w].type = "registered" => arg[w].value.message = None
      /\ arg[w].type = "graduated" => ConsumerOK(w)
  BY <1>1 DEF GradRequestOK
<1>3. newLogId \in Nat /\ newLogId >= 1
  <2>1. Cardinality(db.logs) \in Nat /\ Cardinality(db.records) = 0 /\ Cardinality(db.cards) = 0
    BY <1>1, FS_CardinalityType, FS_EmptySet DEF LogsOK, OthersEmpty
  <2> QED
    BY <2>1 DEF newLogId
<1>4. PICK id \in Nat : id = newLogId /\ id >= 1
  BY <1>3
<1>5. PICK row : row = [id |-> id, actor |-> arg[w].value.actor, type |-> arg[w].type, message |-> arg[w].value.message]
  OBVIOUS
<1>6. PICK locals : locals = [arg[w] EXCEPT !.id = id, !.value = @]
  OBVIOUS
<1>7. DOMAIN locals = {"type", "id", "value"} /\ locals.type = arg[w].type /\ locals.value = arg[w].value /\ locals.id = id
  BY <1>2, <1>6
<1>8. arg[w].value.message \in Nat \cup {None}
  <2>1. CASE arg[w].type = "graduated"
    BY <1>1, <1>2, <2>1 DEF ConsumerOK, TopicOK
  <2> QED
    BY <1>2, <2>1
<1>9. row \in LogRows /\ row.id = id /\ row.actor = arg[w].value.actor /\ row.message = arg[w].value.message
  BY <1>2, <1>5, <1>8 DEF LogRows
<1>10. InsertRow(w, "logs", row)
  BY <1>4, <1>5 DEF InsertLog
<1>11. id \in 1 .. MaxRows["logs"]
  <2>1. MaxRows["logs"] \in Nat /\ id <= MaxRows["logs"]
    BY <1>4, <1>10, AlumniBounds DEF InsertRow
  <2> QED
    BY <1>4, <2>1
<1>12. UNCHANGED <<service, configured>> /\ Moves(w, Tail(todo[w]), IF Tail(todo[w]) = <<>> THEN None ELSE locals)
  BY <1>1, <1>4, <1>6, <1>10, ProceedWithMoves DEF InsertRow, ProceedWith, GoOn
<1>13. /\ DOMAIN db' = GradDomain /\ \A t \in GradDomain \ {"logs"} : db'[t] = db[t]
       /\ db'.logs = db.logs \cup {row}
  BY <1>1, <1>10 DEF InsertRow, GradDomain, AlumniDomain
<1>14. /\ db'.restarts = db.restarts /\ db'.position = db.position /\ Onward /\ OthersEmpty'
       /\ db'.accounts = db.accounts /\ db'.events = db.events
  BY <1>1, <1>12, <1>13 DEF GradDomain, AlumniDomain, Onward, OthersEmpty
<1>15. LogsOK'
  <2>1. IsFiniteSet(db'.logs) /\ db'.logs \subseteq LogRows
    BY <1>1, <1>9, <1>13, FS_AddElement DEF LogsOK
  <2>2. \A r \in db'.logs : r.id \in 1 .. MaxRows["logs"]
    BY <1>1, <1>9, <1>11, <1>13 DEF LogsOK
  <2>3. /\ db'.accounts \in [Alumni -> Nat \cup {None}]
        /\ \A a \in Alumni : db'.accounts[a] # None => \E r \in db'.logs : r.actor = a /\ r.id = db'.accounts[a]
    BY <1>1, <1>13, <1>14 DEF LogsOK
  <2>4. \A e \in db'.events : \E r \in db'.logs : r.id = e[2]
    BY <1>1, <1>13, <1>14 DEF LogsOK
  <2> QED
    BY <2>1, <2>2, <2>3, <2>4 DEF LogsOK
<1>16. arg[w].type = "graduated" => MessageTaken(db.position + 1)'
  <2> SUFFICES ASSUME arg[w].type = "graduated"
               PROVE  logsOf(db.position + 1)' # {}
    BY DEF MessageTaken
  <2>1. row.message = db.position + 1
    BY <1>2, <1>9 DEF ConsumerOK
  <2> QED
    BY <1>13, <1>14, <2>1 DEF logsOf
<1>17. /\ GradRequestOK(w)'
       /\ Consuming(w)' => Consuming(w)
       /\ Consuming(w) => Consuming(w)' /\ Head(Tail(todo[w])) # "insertLog"
  <2>1. row \in db'.logs /\ row.id = locals.id /\ row.actor = arg[w].value.actor
    BY <1>7, <1>9, <1>13
  <2>2. \E r \in db'.logs : r.id = locals.id /\ r.actor = arg[w].value.actor
    BY <2>1
  <2>3. Onward
    BY <1>14
  <2> QED
    BY <1>1, <1>7, <1>12, <1>16, <2>2, <2>3, GradLater
<1>18. ASSUME NEW m \in Nat
       PROVE  CountOK(m)'
  <2>1. CountOK(m) /\ IsFiniteSet(logsOf(m))
    BY <1>1, FS_Subset DEF GradInv, LogsOK, logsOf
  <2>2. PICK n \in Nat, k \in Nat : n = Cardinality(logsOf(m)) /\ k = db.restarts
    BY <1>1, <2>1, FS_CardinalityType DEF TopicOK
  <2>3. n <= k + (IF Begun(m) THEN 1 ELSE 0)
    BY <2>1, <2>2 DEF CountOK
  <2>4. Begun(m) => Begun(m)'
    <3>1. \A v \in Workers \ {w} : Consuming(v) /\ Head(todo[v]) # "insertLog"
                                     => Consuming(v)' /\ Head(todo'[v]) # "insertLog"
      BY <1>12 DEF Moves, Consuming, Idle
    <3> QED
      BY <1>1, <1>14, <3>1 DEF Begun
  <2>5. CASE row.message # m
    <3>1. logsOf(m)' = logsOf(m)
      BY <1>13, <2>5 DEF logsOf
    <3>2. Cardinality(logsOf(m))' = n
      BY <2>2, <3>1
    <3> QED
      BY <1>14, <2>2, <2>3, <2>4, <3>2 DEF CountOK
  <2>6. CASE row.message = m
    <3>1. arg[w].type = "graduated" /\ m = db.position + 1
      BY <1>2, <1>9, <2>6, NoneIsNoNumber DEF ConsumerOK
    <3>2. Consuming(w) /\ \A v \in Workers \ {w} : ~Consuming(v)
      BY <1>1, <1>2, <3>1 DEF Consuming, ConsumerOK
    <3>3. ~Begun(m)
      BY <1>1, <3>1, <3>2 DEF Begun, TopicOK
    <3>4. Begun(m)'
      BY <1>12, <1>14, <1>17, <3>1, <3>2 DEF Begun, Moves
    <3>5. Cardinality(logsOf(m))' <= n + 1 /\ Cardinality(logsOf(m))' \in Nat
      <4>1. logsOf(m)' = logsOf(m) \cup {row}
        BY <1>13, <2>6 DEF logsOf
      <4>2. Cardinality(logsOf(m) \cup {row}) \in {n, n + 1}
        BY <2>1, <2>2, FS_AddElement
      <4> HIDE DEF logsOf
      <4>3. Cardinality(logsOf(m)') = Cardinality(logsOf(m) \cup {row})
        BY <4>1
      <4>4. Cardinality(logsOf(m))' = Cardinality(logsOf(m)')
        OBVIOUS
      <4> QED
        BY <4>2, <4>3, <4>4
    <3> QED
      BY <1>14, <2>2, <2>3, <3>3, <3>4, <3>5 DEF CountOK
  <2> QED
    BY <2>5, <2>6
<1>19. SourcesOK'
  <2>1. db'.topic = db.topic /\ db'.dropped = db.dropped /\ SourcesOK
    BY <1>13 DEF GradInv, GradDomain, AlumniDomain
  <2>2. row.message = None \/ Full(row.message)
    BY <1>1, <1>2, <1>9 DEF ConsumerOK
  <2>3. \A m : Full(m)' <=> Full(m)
    BY <2>1 DEF Full
  <2> QED
    BY <1>13, <2>1, <2>2, <2>3 DEF SourcesOK
<1> QED
  BY <1>12, <1>13, <1>14, <1>15, <1>17, <1>18, <1>19, GradStep

\* The handler logs its error, and counts as done all the same.
LEMMA GradSwallows ==
  ASSUME GradInv, service = "graduations", NEW w \in Workers, SwallowError(w)
  PROVE  GradInv'
<1>1. /\ Slots /\ DOMAIN db = GradDomain /\ LogsOK /\ TopicOK /\ OthersEmpty /\ GradRequestOK(w)
      /\ Consuming(w) /\ ~Idle(w) /\ arg[w].type = "graduated"
  BY DEF GradInv, SwallowError, Consuming
<1>2. /\ ConsumerOK(w) /\ DOMAIN arg[w] = {"type", "id", "value"}
      /\ Head(todo[w]) # "handled"
  BY <1>1 DEF GradRequestOK, SwallowError, At
<1>3. UNCHANGED <<service, configured>> /\ Moves(w, <<"handled">>, arg[w])
  <2>1. Moves(w, <<"handled">>, IF <<"handled">> = <<>> THEN None ELSE arg[w])
    BY <1>1, GoOnMoves DEF SwallowError
  <2>2. <<"handled">> # <<>>
    OBVIOUS
  <2> QED
    BY <2>1, <2>2 DEF SwallowError, GoOn
<1>4. PICK message : message = arg[w].value.message
  OBVIOUS
<1>5. db' = [db EXCEPT !.dropped = @ \cup {message}]
  BY <1>4 DEF SwallowError
<1>6. /\ DOMAIN db' = GradDomain /\ \A t \in GradDomain \ {"dropped"} : db'[t] = db[t]
      /\ db'.dropped = db.dropped \cup {message}
  BY <1>1, <1>5 DEF GradDomain, AlumniDomain
<1>7. /\ db'.restarts = db.restarts /\ db'.position = db.position /\ db'.logs = db.logs /\ Onward
      /\ LogsOK' /\ OthersEmpty'
  BY <1>1, <1>3, <1>6 DEF GradDomain, AlumniDomain, Onward, OthersEmpty, LogsOK
<1>8. <<"handled">> \in ConsumeTodo /\ Head(<<"handled">>) = "handled" /\ <<"handled">> # <<>>
  BY DEF ConsumeTodo
<1>9. ConsumerOK(w)'
  <2>1. MessageTaken(db.position + 1)'
    BY <1>2, <1>4, <1>6, <1>7 DEF ConsumerOK, MessageTaken
  <2>2. \A v \in Workers \ {w} : ~Consuming(v)'
    BY <1>2, <1>3 DEF ConsumerOK, Consuming, Idle, Moves
  <2> QED
    BY <1>2, <1>3, <1>7, <1>8, <2>1, <2>2 DEF ConsumerOK, Moves, Onward
<1>10. GradRequestOK(w)'
  BY <1>1, <1>2, <1>3, <1>8, <1>9 DEF GradRequestOK, Moves, Idle
<1>11. Consuming(w)'
  BY <1>1, <1>3, <1>8 DEF Consuming, Moves, Idle
<1>12. \A m \in Nat : CountOK(m)'
  BY <1>3, <1>7, <1>8, <1>11, CountKept
<1>13. SourcesOK'
  <2>1. SourcesOK /\ Full(message)
    BY <1>2, <1>4 DEF GradInv, ConsumerOK
  <2>2. \A m : Full(m)' <=> Full(m)
    BY <1>7 DEF Full, Onward
  <2> QED
    BY <1>6, <1>7, <2>1, <2>2 DEF SourcesOK
<1> QED
  BY <1>1, <1>3, <1>6, <1>7, <1>10, <1>12, <1>13, GradStep

\* No consumer is on the way after the step, and the logs stay.
LEMMA GradRest ==
  ASSUME GradInv, Slots', service' = service, service = "graduations", DOMAIN db' = GradDomain,
         \A t \in {"notices", "unread", "noticeAudits", "logs", "accounts", "records", "cards", "events",
                   "published", "audits"} : db'[t] = db[t],
         TopicOK', SourcesOK', \A m \in Nat : Passed(m)' /\ CountOK(m)',
         \A w \in Workers : \/ todo'[w] = <<>>
                            \/ todo'[w] = todo[w] /\ arg'[w] = arg[w] /\ (Consuming(w) => ConsumerOK(w)')
  PROVE  GradInv'
<1>1. LogsOK' /\ OthersEmpty'
  BY DEF GradInv, LogsOK, OthersEmpty
<1>2. ASSUME NEW w \in Workers
      PROVE  GradRequestOK(w)'
  <2>1. CASE todo'[w] = <<>>
    BY <2>1 DEF GradRequestOK, Idle
  <2>2. CASE todo'[w] = todo[w] /\ arg'[w] = arg[w] /\ (Consuming(w) => ConsumerOK(w)')
    <3>1. GradRequestOK(w) /\ (LogWritten(w) => LogWritten(w)')
      BY <2>2 DEF GradInv, LogWritten
    <3>2. arg[w].type = "graduated" /\ ~Idle(w) => ConsumerOK(w)'
      BY <2>2 DEF Consuming
    <3> QED
      BY <2>2, <3>1, <3>2 DEF GradRequestOK, Idle
  <2> QED
    BY <2>1, <2>2
<1> QED
  BY <1>1, <1>2 DEF GradInv

\* The position moves past the message that was handled.
LEMMA GradHandled ==
  ASSUME GradInv, service = "graduations", NEW w \in Workers, Handled(w)
  PROVE  GradInv'
<1>1. /\ Slots /\ DOMAIN db = GradDomain /\ TopicOK /\ GradRequestOK(w) /\ ~Idle(w) /\ Head(todo[w]) = "handled"
  BY DEF GradInv, Handled, At, Idle
<1>2. arg[w].type = "graduated" /\ ConsumerOK(w) /\ Tail(todo[w]) = <<>>
  <2>1. arg[w].type # "registered"
    BY <1>1, GradRoute DEF GradRequestOK
  <2>2. arg[w].type = "graduated" /\ ConsumerOK(w)
    BY <1>1, <2>1 DEF GradRequestOK
  <2> QED
    BY <1>1, <2>2, GradRoute DEF ConsumerOK
<1>3. UNCHANGED <<service, configured>> /\ Moves(w, <<>>, None)
  BY <1>1, <1>2, ProceedMoves DEF Handled, Proceed, GoOn
<1>4. PICK p \in Nat : p = db.position /\ p < Len(db.topic)
  BY <1>1, <1>2 DEF ConsumerOK, TopicOK
<1>5. db' = [db EXCEPT !.position = p + 1]
  BY <1>2, <1>4 DEF Handled, ConsumerOK
<1>6. /\ DOMAIN db' = GradDomain /\ \A t \in GradDomain \ {"position"} : db'[t] = db[t]
      /\ db'.position = p + 1
  BY <1>1, <1>5 DEF GradDomain, AlumniDomain
<1>7. /\ db'.logs = db.logs /\ db'.dropped = db.dropped /\ db'.restarts = db.restarts /\ db'.topic = db.topic
      /\ db'.first = db.first /\ db'.offset = db.offset
      /\ \A t \in {"notices", "unread", "noticeAudits", "logs", "accounts", "records", "cards", "events",
                   "published", "audits"} : db'[t] = db[t]
  BY <1>6 DEF GradDomain, AlumniDomain
<1>8. TopicOK' /\ SourcesOK'
  BY <1>1, <1>2, <1>4, <1>6, <1>7 DEF GradInv, TopicOK, ConsumerOK, SourcesOK, Full
<1>9. ASSUME NEW m \in Nat
      PROVE  Passed(m)' /\ CountOK(m)'
  <2>1. Passed(m) /\ CountOK(m)
    BY DEF GradInv
  <2>2. MessageTaken(p + 1) /\ (MessageTaken(m)' <=> MessageTaken(m))
    BY <1>1, <1>2, <1>4, <1>7 DEF ConsumerOK, MessageTaken, logsOf
  <2>3. Passed(m)'
    <3>1. m <= p + 1 => m <= p \/ m = p + 1
      BY <1>4
    <3> QED
      BY <1>4, <1>6, <1>7, <2>1, <2>2, <3>1 DEF Passed
  <2>4. Begun(m) => m <= p + 1
    BY <1>4 DEF Begun
  <2>5. IsFiniteSet(logsOf(m)) /\ logsOf(m)' = logsOf(m)
    BY <1>7, FS_Subset DEF GradInv, LogsOK, logsOf
  <2>6. PICK n \in Nat, k \in Nat : n = Cardinality(logsOf(m)) /\ k = db.restarts
    BY <1>1, <2>5, FS_CardinalityType DEF TopicOK
  <2>7. Cardinality(logsOf(m))' = n /\ n <= k + (IF Begun(m) THEN 1 ELSE 0)
    BY <2>1, <2>5, <2>6 DEF CountOK
  <2>8. CountOK(m)'
    BY <1>6, <1>7, <2>4, <2>6, <2>7 DEF CountOK, Begun
  <2> QED
    BY <2>3, <2>8
<1>10. \A v \in Workers : \/ todo'[v] = <<>>
                          \/ todo'[v] = todo[v] /\ arg'[v] = arg[v] /\ (Consuming(v) => ConsumerOK(v)')
  BY <1>2, <1>3 DEF ConsumerOK, Moves
<1> QED
  BY <1>3, <1>6, <1>7, <1>8, <1>9, <1>10, GradRest DEF Moves

\* A message is published, the consumer subscribes, or an offset is committed.
LEMMA GradTopic ==
  ASSUME GradInv, service = "graduations", Graduate \/ Subscribe \/ AutoCommit
  PROVE  GradInv'
<1>1. Slots /\ DOMAIN db = GradDomain /\ TopicOK
  BY DEF GradInv
<1>2. UNCHANGED <<service, configured, todo, arg>>
  BY DEF Graduate, Subscribe, AutoCommit
<1>3. /\ DOMAIN db' = GradDomain /\ \A t \in GradDomain \ {"topic", "first", "position", "offset"} : db'[t] = db[t]
      /\ \/ /\ \E actor \in Alumni \cup {None} : db'.topic = Append(db.topic, actor)
            /\ db'.first = db.first /\ db'.position = db.position /\ db'.offset = db.offset
         \/ /\ db.first = None /\ db'.first = Len(db.topic) /\ db'.position = Len(db.topic)
            /\ db'.topic = db.topic /\ db'.offset = db.offset
         \/ /\ db.position # 0 /\ db'.offset = db.position
            /\ db'.topic = db.topic /\ db'.position = db.position /\ db'.first = db.first
  <2>1. CASE Graduate
    BY <1>1, <2>1 DEF Graduate, GradDomain, AlumniDomain
  <2>2. CASE Subscribe
    BY <1>1, <2>2 DEF Subscribe, GradDomain, AlumniDomain
  <2>3. CASE AutoCommit
    BY <1>1, <2>3 DEF AutoCommit, GradDomain, AlumniDomain
  <2> QED
    BY <2>1, <2>2, <2>3
<1>4. /\ db'.logs = db.logs /\ db'.dropped = db.dropped /\ db'.restarts = db.restarts
      /\ \A t \in {"notices", "unread", "noticeAudits", "logs", "accounts", "records", "cards", "events",
                   "published", "audits"} : db'[t] = db[t]
  BY <1>3 DEF GradDomain, AlumniDomain
<1>5. /\ TopicOK' /\ Len(db.topic) \in Nat /\ Len(db'.topic) >= Len(db.topic)
      /\ \A m \in 1 .. Len(db.topic) : db'.topic[m] = db.topic[m]
  <2>1. CASE \E actor \in Alumni \cup {None} : db'.topic = Append(db.topic, actor)
    <3>1. /\ db'.topic \in Seq(Alumni \cup {None}) /\ Len(db'.topic) = Len(db.topic) + 1 /\ Len(db.topic) \in Nat
          /\ \A m \in 1 .. Len(db.topic) : db'.topic[m] = db.topic[m]
      BY <1>1, <2>1 DEF TopicOK
    <3>2. db'.first = db.first /\ db'.position = db.position /\ db'.offset = db.offset
      BY <1>3, <2>1, <3>1
    <3> QED
      BY <1>1, <1>4, <3>1, <3>2 DEF TopicOK
  <2>2. CASE db'.topic = db.topic
    <3>1. Len(db.topic) \in Nat /\ Len(db'.topic) = Len(db.topic)
      BY <1>1, <2>2 DEF TopicOK
    <3> QED
      BY <1>1, <1>3, <1>4, <2>2, <3>1, NoneIsNoNumber DEF TopicOK
  <2> QED
    BY <1>3, <2>1, <2>2
<1>6. db'.position >= db.position /\ SourcesOK' /\ \A m : Full(m) => Full(m)'
  <2>1. \A m : Full(m) => Full(m)'
    BY <1>5 DEF Full, TopicOK
  <2>2. SourcesOK'
    BY <1>4, <2>1 DEF GradInv, SourcesOK
  <2> QED
    BY <1>1, <1>3, <1>5, <2>1, <2>2 DEF TopicOK
<1>7. ASSUME NEW w \in Workers, Consuming(w)
      PROVE  ConsumerOK(w)' /\ db'.position = db.position
  <2>1. ConsumerOK(w)
    BY <1>7 DEF GradInv, GradRequestOK, Consuming
  <2>2. db'.position = db.position /\ db'.first = db.first
    BY <1>3, <2>1 DEF ConsumerOK
  <2>3. \A v \in Workers \ {w} : ~Consuming(v)'
    BY <1>2, <2>1 DEF ConsumerOK, Consuming, Idle
  <2>4. MessageTaken(db.position + 1) => MessageTaken(db.position + 1)'
    <3>1. db.position + 1 \in 1 .. Len(db.topic)
      BY <1>1, <2>1 DEF ConsumerOK, TopicOK
    <3>2. db'.topic[db.position + 1] = db.topic[db.position + 1]
      BY <1>5, <3>1
    <3> QED
      BY <1>4, <2>2, <3>2 DEF MessageTaken, logsOf
  <2>5. Full(db.position + 1) => Full(db.position + 1)'
    BY <1>6, <2>2 DEF Full
  <2> QED
    BY <1>1, <1>2, <1>5, <2>1, <2>2, <2>3, <2>4, <2>5 DEF ConsumerOK, TopicOK
<1>8. ASSUME NEW m \in Nat
      PROVE  Passed(m)' /\ CountOK(m)'
  <2>1. Passed(m) /\ CountOK(m) /\ (m \in 1 .. Len(db.topic) /\ MessageTaken(m) => MessageTaken(m)')
    BY <1>4, <1>5, TakenKept DEF GradInv
  <2>2. Passed(m)'
    BY <1>1, <1>3, <1>5, <2>1 DEF Passed, TopicOK
  <2>3. Begun(m) => Begun(m)'
    <3>1. CASE m <= db.position
      BY <1>1, <1>5, <1>6, <3>1 DEF Begun, TopicOK
    <3>2. ASSUME m = db.position + 1, NEW w \in Workers, Consuming(w), Head(todo[w]) # "insertLog"
          PROVE  Begun(m)'
      BY <1>2, <1>7, <3>2 DEF Begun, Consuming, Idle
    <3> QED
      BY <3>1, <3>2 DEF Begun
  <2>4. IsFiniteSet(logsOf(m)) /\ logsOf(m)' = logsOf(m)
    BY <1>4, FS_Subset DEF GradInv, LogsOK, logsOf
  <2>5. PICK n \in Nat, k \in Nat : n = Cardinality(logsOf(m)) /\ k = db.restarts
    BY <1>1, <2>4, FS_CardinalityType DEF TopicOK
  <2>6. Cardinality(logsOf(m))' = n /\ n <= k + (IF Begun(m) THEN 1 ELSE 0)
    BY <2>1, <2>4, <2>5 DEF CountOK
  <2>7. CountOK(m)'
    BY <1>4, <2>3, <2>5, <2>6 DEF CountOK
  <2> QED
    BY <2>2, <2>7
<1> QED
  BY <1>1, <1>2, <1>3, <1>4, <1>5, <1>6, <1>7, <1>8, GradRest DEF Slots

\* The process stops and starts again from the committed offset.
LEMMA GradRestarts ==
  ASSUME GradInv, service = "graduations", RestartConsumer
  PROVE  GradInv'
<1>1. Slots /\ DOMAIN db = GradDomain /\ TopicOK /\ db.first # None
  BY DEF GradInv, RestartConsumer
<1>2. /\ UNCHANGED <<service, configured>> /\ Slots'
      /\ \A w \in Workers : IF Consuming(w) THEN todo'[w] = <<>> ELSE todo'[w] = todo[w] /\ arg'[w] = arg[w]
  BY DEF RestartConsumer, Slots
<1>3. PICK k \in Nat : k = db.restarts
  BY <1>1 DEF TopicOK
<1>4. PICK from : from = IF db.offset = None THEN Len(db.topic) ELSE db.offset
  OBVIOUS
<1>5. PICK first : first = IF db.offset = None THEN from ELSE db.first
  OBVIOUS
<1>6. db' = [db EXCEPT !.restarts = @ + 1, !.position = from, !.first = first]
  BY <1>4, <1>5 DEF RestartConsumer
<1>7. /\ DOMAIN db' = GradDomain /\ \A t \in GradDomain \ {"restarts", "position", "first"} : db'[t] = db[t]
      /\ db'.restarts = k + 1 /\ db'.position = from /\ db'.first = first
  BY <1>1, <1>3, <1>6 DEF GradDomain, AlumniDomain
<1>8. /\ db'.logs = db.logs /\ db'.dropped = db.dropped /\ db'.topic = db.topic /\ db'.offset = db.offset
      /\ \A t \in {"notices", "unread", "noticeAudits", "logs", "accounts", "records", "cards", "events",
                   "published", "audits"} : db'[t] = db[t]
  BY <1>7 DEF GradDomain, AlumniDomain
<1>9. Len(db.topic) \in Nat /\ from \in 0 .. Len(db.topic) /\ first \in Nat /\ first # None
  BY <1>1, <1>4, <1>5, NoneIsNoNumber DEF TopicOK
<1>10. TopicOK' /\ SourcesOK'
  BY <1>1, <1>3, <1>7, <1>8, <1>9 DEF GradInv, TopicOK, SourcesOK, Full
<1>11. ASSUME NEW m \in Nat
       PROVE  Passed(m)' /\ CountOK(m)'
  <2>1. Passed(m) /\ CountOK(m) /\ (MessageTaken(m)' <=> MessageTaken(m))
    BY <1>8 DEF GradInv, MessageTaken, logsOf
  <2>2. Passed(m)'
    <3>1. CASE db.offset = None
      BY <1>4, <1>5, <1>7, <1>8, <1>9, <3>1 DEF Passed
    <3>2. CASE db.offset # None
      BY <1>1, <1>4, <1>5, <1>7, <1>8, <2>1, <3>2 DEF Passed
    <3> QED
      BY <3>1, <3>2
  <2>3. IsFiniteSet(logsOf(m)) /\ logsOf(m)' = logsOf(m)
    BY <1>8, FS_Subset DEF GradInv, LogsOK, logsOf
  <2>4. PICK n \in Nat : n = Cardinality(logsOf(m))
    BY <2>3, FS_CardinalityType
  <2>5. Cardinality(logsOf(m))' = n /\ n <= k + 1
    BY <1>3, <2>1, <2>3, <2>4 DEF CountOK
  <2>6. CountOK(m)'
    BY <1>3, <1>7, <2>4, <2>5 DEF CountOK
  <2> QED
    BY <2>2, <2>6
<1>12. \A v \in Workers : \/ todo'[v] = <<>>
                          \/ todo'[v] = todo[v] /\ arg'[v] = arg[v] /\ (Consuming(v) => ConsumerOK(v)')
  BY <1>2
<1> QED
  BY <1>2, <1>7, <1>8, <1>10, <1>11, <1>12, GradRest

\* Every step of any service keeps the invariant of registrations and graduations.
LEMMA GradKeep ==
  ASSUME service = "graduations" => GradInv, [Next]_vars
  PROVE  (service = "graduations" => GradInv)'
<1>1. service' = service
  BY ServiceKept DEF Kept
<1> SUFFICES ASSUME service = "graduations", GradInv
             PROVE  GradInv'
  BY <1>1
<1>2. CASE UNCHANGED vars
  <2>1. service' = service /\ todo' = todo /\ arg' = arg /\ db' = db
    BY <1>2 DEF vars
  <2>2. Slots' /\ LogsOK' /\ TopicOK' /\ SourcesOK' /\ OthersEmpty' /\ DOMAIN db' = GradDomain
    BY <2>1 DEF GradInv, Slots, LogsOK, TopicOK, SourcesOK, Full, OthersEmpty
  <2>3. ASSUME NEW w \in Workers
        PROVE  GradRequestOK(w)'
    <3>1. \A v \in Workers : Consuming(v)' <=> Consuming(v)
      BY <2>1 DEF Consuming, Idle
    <3>2. ConsumerOK(w) => ConsumerOK(w)'
      BY <2>1, <3>1 DEF ConsumerOK, LogWritten, MessageTaken, Full, logsOf
    <3>3. LogWritten(w)' <=> LogWritten(w)
      BY <2>1 DEF LogWritten
    <3>4. GradRequestOK(w)
      BY DEF GradInv
    <3> QED
      BY <2>1, <3>2, <3>3, <3>4 DEF GradRequestOK, Idle
  <2>4. ASSUME NEW m \in Nat
        PROVE  Passed(m)' /\ CountOK(m)'
    <3>1. (Passed(m)' <=> Passed(m)) /\ (Begun(m)' <=> Begun(m))
      BY <2>1 DEF Passed, MessageTaken, logsOf, Begun, Consuming, Idle
    <3>2. logsOf(m)' = logsOf(m) /\ db'.restarts = db.restarts
      BY <2>1 DEF logsOf
    <3> QED
      BY <3>1, <3>2 DEF GradInv, CountOK
  <2> QED
    BY <2>2, <2>3, <2>4 DEF GradInv
<1>3. ASSUME NEW w \in Workers, todo[w] # <<>>
      PROVE  Head(todo[w]) \in {"insertLog", "upsertAccount", "event", "handled"}
  <2>1. todo[w] \in RegisterTodo \cup ConsumeTodo
    BY <1>3 DEF GradInv, GradRequestOK, ConsumerOK, Idle
  <2> QED
    BY <2>1, GradRoute
<1>4. CASE AlumniNext
  <2>1. PICK w \in Workers : AlumniNext!(w)
    BY <1>4 DEF AlumniNext
  <2>2. ~(requestRecord(w) \/ applyForCard(w) \/ updateRecordStatus(w) \/ updateCardApplicationStatus(w)
          \/ InsertRecord(w) \/ InsertCard(w) \/ UpdateRecord(w) \/ UpdateCard(w)
          \/ PublishAlumniEvent(w) \/ RecordAlumniAudit(w))
    BY <1>3 DEF requestRecord, applyForCard, updateRecordStatus, updateCardApplicationStatus, AlumniRequest,
       InsertRecord, InsertCard, UpdateRecord, UpdateCard, PublishAlumniEvent, RecordAlumniAudit, Take, At
  <2> QED
    BY <2>1, <2>2, GradRequests, GradInserts, GradAccounts
<1>5. CASE GraduationsNext
  <2>1. CASE Graduate \/ Subscribe \/ AutoCommit
    BY <2>1, GradTopic
  <2>2. CASE RestartConsumer
    BY <2>2, GradRestarts
  <2>3. ASSUME NEW w \in Workers,
               EachMessage(w) \/ SwallowError(w) \/ Handled(w) \/ (~Consuming(w) /\ Fail(w))
        PROVE  GradInv'
    BY <2>3, GradMessages, GradSwallows, GradHandled, GradRequests
  <2> QED
    BY <1>5, <2>1, <2>2, <2>3 DEF GraduationsNext
<1> QED
  BY <1>2, <1>4, <1>5 DEF Next

\* The tables and the topic at the beginning.
LEMMA GraduationTablesStart ==
  /\ DOMAIN GraduationTables = GradDomain
  /\ GraduationTables.notices = {} /\ GraduationTables.unread = {} /\ GraduationTables.noticeAudits = {}
  /\ GraduationTables.logs = {} /\ GraduationTables.accounts = [a \in Alumni |-> None]
  /\ GraduationTables.records = {} /\ GraduationTables.cards = {}
  /\ GraduationTables.events = {} /\ GraduationTables.published = {} /\ GraduationTables.audits = {}
  /\ GraduationTables.topic = <<>> /\ GraduationTables.first = None /\ GraduationTables.position = 0
  /\ GraduationTables.offset = None /\ GraduationTables.restarts = 0 /\ GraduationTables.dropped = {}
BY AlumniTablesStart DEF GraduationTables, Merged, GradDomain, AlumniDomain

\* The invariant of registrations and graduations holds at the beginning.
LEMMA GradStart == Init => (service = "graduations" => GradInv)
<1> SUFFICES ASSUME Init, service = "graduations"
             PROVE  GradInv
  OBVIOUS
<1>1. GraduationsInit
  BY DEF Init, NotificationsInit, ProfessorsInit, AlumniInit, ResourcesInit, RegistrarInit,
     ApplicationsInit, TenantsInit, BillingInit, Start
<1>2. todo = [w \in Workers |-> <<>>] /\ arg = [w \in Workers |-> None] /\ db = GraduationTables
  BY <1>1 DEF GraduationsInit, Start
<1>3. DOMAIN db = GradDomain /\ LogsOK /\ TopicOK /\ SourcesOK /\ OthersEmpty
  BY <1>2, GraduationTablesStart, FS_EmptySet DEF LogsOK, TopicOK, SourcesOK, OthersEmpty
<1>4. ASSUME NEW m \in Nat
      PROVE  Passed(m) /\ CountOK(m)
  <2>1. logsOf(m) = {} /\ db.first = None /\ db.restarts = 0
    BY <1>2, GraduationTablesStart DEF logsOf
  <2>2. Cardinality(logsOf(m)) = 0
    BY <2>1, FS_EmptySet
  <2> QED
    BY <2>1, <2>2 DEF Passed, CountOK
<1> QED
  BY <1>2, <1>3, <1>4 DEF GradInv, GradRequestOK, Slots, Idle

\* The inductive invariant of document requests and cards.
THEOREM AlumniInvariant == Spec => [](service = "alumni" => AlumniInv)
<1>1. Init => (service = "alumni" => AlumniInv)
  BY AlumniStart
<1>2. (service = "alumni" => AlumniInv) /\ [Next]_vars => (service = "alumni" => AlumniInv)'
  BY AlumniKeep
<1> QED
  BY <1>1, <1>2, PTL DEF Spec

\* The inductive invariant of registrations and graduations.
THEOREM GraduationInvariant == Spec => [](service = "graduations" => GradInv)
<1>1. Init => (service = "graduations" => GradInv)
  BY GradStart
<1>2. (service = "graduations" => GradInv) /\ [Next]_vars => (service = "graduations" => GradInv)'
  BY GradKeep
<1> QED
  BY <1>1, <1>2, PTL DEF Spec

\* However often the consumer of graduations stops in the middle of a message
\* and begins again, it has logged, or reported, every message that it passed
\* and that was not empty, has done neither with an empty one, and logged none
\* more often than once per start.
THEOREM GraduationsAreTaken == Spec => []GraduationAccount
<1>1. (service = "graduations" => GradInv) => GraduationAccount
  <2> SUFFICES ASSUME service = "graduations", GradInv, db.first # None, NEW m \in 1 .. Len(db.topic)
               PROVE  /\ db.first < m /\ m <= db.position =>
                             (db.topic[m] # None <=> logsOf(m) # {} \/ m \in db.dropped)
                      /\ Cardinality(logsOf(m)) <= 1 + db.restarts
    BY DEF GraduationAccount
  <2>1. Passed(m) /\ CountOK(m) /\ db.restarts \in Nat /\ IsFiniteSet(db.logs)
    BY DEF GradInv, TopicOK, LogsOK
  <2>2. Cardinality(logsOf(m)) \in Nat
    BY <2>1, FS_Subset, FS_CardinalityType DEF logsOf
  <2>3. Cardinality(logsOf(m)) <= 1 + db.restarts
    <3>1. PICK n \in Nat : n = Cardinality(logsOf(m))
      BY <2>2
    <3>2. n <= db.restarts + (IF Begun(m) THEN 1 ELSE 0)
      BY <2>1, <3>1 DEF CountOK
    <3> QED
      BY <2>1, <3>1, <3>2
  <2>4. db.first < m /\ m <= db.position => MessageTaken(m)
    BY <2>1 DEF Passed
  <2>5. logsOf(m) # {} \/ m \in db.dropped => db.topic[m] # None
    <3>1. m # None
      BY NoneIsNoNumber
    <3> QED
      BY <3>1 DEF GradInv, SourcesOK, Full, logsOf
  <2> QED
    BY <2>3, <2>4, <2>5 DEF MessageTaken
<1> QED
  BY <1>1, GraduationInvariant, PTL

\* An alumnus with a registration in the log has a profile: the latest one.
LEMMA ProfileOfRegistered ==
  ASSUME LogsOK, NEW a \in Alumni, NEW row \in db.logs, row.actor = a, row.type = "registered"
  PROVE  getAlumniProfile(a) # None
<1> DEFINE registered == {r \in getRegistrationLogs(a) : r.type = "registered"}
           T == {r.id : r \in registered}
<1>1. registered \subseteq LogRows /\ row \in registered /\ \A r \in registered : r.id \in 1 .. MaxRows["logs"]
  BY DEF LogsOK, getRegistrationLogs
<1>2. MaxRows["logs"] \in Nat
  BY AlumniBounds
<1>3. (\A x \in T : x \in Nat) /\ T # {} /\ \A x \in T : x <= MaxRows["logs"]
  BY <1>1, <1>2
<1>4. PICK x \in T : \A y \in T : y <= x
  <2> HIDE DEF T
  <2> QED
    BY <1>2, <1>3, LargestOf
<1>5. PICK r \in registered : r.id = x
  OBVIOUS
<1>6. \A other \in registered : other.id <= r.id
  BY <1>4, <1>5
<1>7. getAlumniProfile(a) = CHOOSE l \in registered : \A other \in registered : other.id <= l.id
  BY <1>1 DEF getAlumniProfile
<1> HIDE DEF registered
<1>8. (CHOOSE l \in registered : \A other \in registered : other.id <= l.id) \in registered
  BY <1>5, <1>6
<1> QED
  BY <1>1, <1>7, <1>8, NoneIsNoLog

\* The log-first rule holds whatever fails and however requests overlap: an
\* account comes from a registration log of its owner, and nothing was
\* recorded, audited or published about a row that is not in somebody's log.
THEOREM LogsComeFirst == Spec => []LogFirst
<1>1. service = "alumni" /\ AlumniInv => LogFirst
  <2> SUFFICES ASSUME service = "alumni", AlumniInv
               PROVE  LogFirst
    OBVIOUS
  <2>1. \A a \in Alumni : db.accounts[a] = None
    BY DEF AlumniInv, AlumniTablesTyped
  <2>2. DeskIds \subseteq UNION {getCommunicationLog(a) : a \in Alumni}
    <3> SUFFICES ASSUME NEW row \in db.records \cup db.cards
                 PROVE  \E a \in Alumni : row.id \in getCommunicationLog(a)
      BY DEF DeskIds
    <3>1. row.actor \in Alumni
      BY DEF AlumniInv, AlumniTablesTyped, DeskRowOK
    <3> QED
      BY <3>1 DEF getCommunicationLog, getRecordRequests, getCardApplications
  <2>3. \A e \in db.events \cup db.audits \cup db.published \cup db.noticeAudits : e[2] \in DeskIds
    BY DEF AlumniInv, AlumniTablesTyped
  <2>4. usePostgres("alumni") => db.published \subseteq db.events
    BY DEF AlumniInv, AlumniTablesTyped
  <2> QED
    BY <2>1, <2>2, <2>3, <2>4 DEF LogFirst
<1>2. service = "graduations" /\ GradInv => LogFirst
  <2> SUFFICES ASSUME service = "graduations", GradInv
               PROVE  LogFirst
    OBVIOUS
  <2>1. ASSUME NEW a \in Alumni, db.accounts[a] # None
        PROVE  \E row \in getRegistrationLogs(a) :
                  row.id = db.accounts[a] /\ (row.type = "registered" => getAlumniProfile(a) # None)
    <3>1. PICK row \in db.logs : row.actor = a /\ row.id = db.accounts[a]
      BY <2>1 DEF GradInv, LogsOK
    <3>2. row.type = "registered" => getAlumniProfile(a) # None
      BY <3>1, ProfileOfRegistered DEF GradInv
    <3> QED
      BY <3>1, <3>2 DEF getRegistrationLogs
  <2>2. ASSUME NEW e \in db.events
        PROVE  \E a \in Alumni : e[2] \in getCommunicationLog(a)
    <3>1. PICK row \in db.logs : row.id = e[2] /\ row.actor \in Alumni
      BY DEF GradInv, LogsOK, LogRows
    <3> QED
      BY <3>1 DEF getCommunicationLog, getRegistrationLogs
  <2>3. db.audits = {} /\ db.published = {} /\ db.noticeAudits = {}
    BY DEF GradInv, OthersEmpty
  <2> QED
    BY <2>1, <2>2, <2>3 DEF LogFirst
<1>3. service \notin {"alumni", "graduations"} => LogFirst
  BY DEF LogFirst
<1>4. (service = "alumni" => AlumniInv) /\ (service = "graduations" => GradInv) => LogFirst
  BY <1>1, <1>2, <1>3
<1> QED
  BY <1>4, AlumniInvariant, GraduationInvariant, PTL

-----------------------------------------------------------------------------
(* The audit trail of notices, over all services *)

\* The services that notify.
Notifying == {"notifications", "alumni", "graduations", "grades", "announcements"}

Quiet == {"resources", "registrar", "petitions", "forms", "decisions", "tenants", "billing"}

\* The other services have no notices.
QuietInv == service \in Notifying \cup Quiet /\ (service \in Quiet => "notices" \notin DOMAIN db)

\* A service that does not notify begins without a table of notices.
LEMMA QuietStart == Init => QuietInv
<1> SUFFICES ASSUME Init
             PROVE  QuietInv
  OBVIOUS
<1>1. /\ "notices" \notin DOMAIN ResourceTables /\ "notices" \notin DOMAIN RegistrarTables
      /\ "notices" \notin DOMAIN FormTables /\ "notices" \notin DOMAIN DecisionTables
      /\ "notices" \notin DOMAIN TenantTables /\ "notices" \notin DOMAIN BillingTables
  BY DEF ResourceTables, RegistrarTables, FormTables, DecisionTables, TenantTables, BillingTables
<1>2. CASE NotificationsInit \/ AlumniInit \/ GraduationsInit \/ ProfessorsInit
  BY <1>2 DEF NotificationsInit, AlumniInit, GraduationsInit, ProfessorsInit, Start, QuietInv, Notifying, Quiet
<1>3. CASE ResourcesInit \/ RegistrarInit \/ ApplicationsInit \/ TenantsInit \/ BillingInit
  BY <1>1, <1>3 DEF ResourcesInit, RegistrarInit, ApplicationsInit, TenantsInit, BillingInit, Start,
     QuietInv, Notifying, Quiet
<1> QED
  BY <1>2, <1>3 DEF Init

\* No statement makes or drops a table.
TablesStay == DOMAIN db' = DOMAIN db

\* So for the resources,
LEMMA ResourceTablesStay == ResourcesNext => TablesStay
<1> SUFFICES ASSUME NEW w \in Workers, ResourcesNext!(w)
             PROVE  TablesStay
  BY DEF ResourcesNext
<1>1. CASE CreateResource(w) \/ UpdateResource(w) \/ DeleteResource(w) \/ QueueDelivery(w)
           \/ ImportResources(w) \/ UpdateProfile(w) \/ InstitutionUpdate(w) \/ markAllNotificationsRead(w)
  BY <1>1 DEF CreateResource, UpdateResource, DeleteResource, QueueDelivery, ImportResources, UpdateProfile,
     InstitutionUpdate, markAllNotificationsRead, SchoolAdminRequest, TablesStay
<1>2. CASE InsertResource(w) \/ InsertNextResource(w) \/ FindResource(w) \/ ReadResource(w) \/ UpsertResource(w)
           \/ EraseResource(w) \/ MergeProfile(w)
  BY <1>2 DEF InsertResource, InsertNextResource, FindResource, ReadResource, UpsertResource, EraseResource,
     MergeProfile, PutResource, Reads, TablesStay
<1>3. CASE Deliver(w) \/ AuditResource(w) \/ AuditOther(w) \/ FailResources(w)
  BY <1>3, SMTT(30) DEF Deliver, AuditResource, AuditOther, FailResources, TablesStay
<1>4. CASE InstitutionCreate(w) \/ InstitutionRemove(w) \/ ReadUnread(w) \/ OverwriteResource(w)
  BY <1>4 DEF InstitutionCreate, InstitutionRemove, ReadUnread, OverwriteResource, Unaudited, Reads, TablesStay
<1>5. CASE MarkOne(w)
  BY <1>5 DEF MarkOne, Unaudited, TablesStay
<1> QED
  BY <1>1, <1>2, <1>3, <1>4, <1>5

\* the registrar,
LEMMA RegistrarTablesStay == RegistrarNext => TablesStay
<1> SUFFICES ASSUME NEW w \in Workers, RegistrarNext!(w)
             PROVE  TablesStay
  BY DEF RegistrarNext
<1>1. CASE SubmitSelection(w) \/ LoadHeld(w) \/ LoadCounts(w) \/ InsertSeats(w) \/ PublishSeats(w)
  BY <1>1 DEF SubmitSelection, LoadHeld, LoadCounts, Passes, InsertSeats, PublishSeats, TablesStay
<1>2. CASE FilePetition(w) \/ approveByRegistrar(w) \/ confirm(w) \/ writeAuditEvent(w) \/ Fail(w)
  BY <1>2 DEF FilePetition, approveByRegistrar, confirm, writeAuditEvent, Fail, TablesStay
<1> QED
  BY <1>1, <1>2

\* the applications,
LEMMA ApplicationTablesStay == ApplicationsNext => TablesStay
<1> SUFFICES ASSUME NEW w \in Workers, ApplicationsNext!(w)
             PROVE  TablesStay
  BY DEF ApplicationsNext
<1>1. CASE SaveBackground(w) \/ DeleteBackground(w) \/ InsertBackground(w)
           \/ UploadDocument(w) \/ InsertDocument(w) \/ verifyApplicantDocument(w)
  BY <1>1 DEF SaveBackground, DeleteBackground, InsertBackground, UploadDocument, InsertDocument,
     verifyApplicantDocument, ApplicantRequest, TablesStay
<1>2. CASE SelectProgram(w) \/ SetSelection(w) \/ SetProfileProgram(w) \/ updateAdminProgramSelection(w)
           \/ CreateProfile(w) \/ Submit(w) \/ (service \in {"forms", "decisions"} /\ Fail(w))
  BY <1>2 DEF SelectProgram, SetSelection, SetProfileProgram, updateAdminProgramSelection,
     CreateProfile, Submit, ApplicantRequest, Fail, TablesStay
<1>3. CASE updateAdminApplicationStatus(w) \/ SetStatus(w) \/ SendLetter(w) \/ PublishStatus(w)
           \/ scheduleEntranceExam(w) \/ ScheduleExam(w) \/ SetExamStatus(w) \/ SetWorkflowStatus(w)
  BY <1>3, ZenonT(40) DEF updateAdminApplicationStatus, SetStatus, SendLetter, PublishStatus, scheduleEntranceExam,
     ScheduleExam, SetExamStatus, SetWorkflowStatus, AdminRequest, ApplicantRequest, TablesStay
<1>4. CASE RecordActivity(w) \/ convertAcceptedApplicantToStudent(w) \/ ReadProfile(w)
           \/ InsertAccount(w) \/ SetEnrolled(w)
  BY <1>4 DEF RecordActivity, convertAcceptedApplicantToStudent, ReadProfile, InsertAccount, SetEnrolled,
     AdminRequest, ApplicantRequest, TablesStay
<1> QED
  BY <1>1, <1>2, <1>3, <1>4

\* the tenants
LEMMA TenantTablesStay == TenantsNext => TablesStay
BY DEF TenantsNext, TablesStay, registerSchool, FindSlug, CreateSchool, AnnounceSchool, reviewSchool, CheckReview,
       Transition, tenantRequest, ResolveTenant, ServeTenant, SchoolRequest, Fail

\* and the accounts.
LEMMA BillingTablesStay == BillingNext => TablesStay
BY DEF BillingNext, TablesStay, recordManualPayment, PublishPayment, getStudentBalance, ReadFees, ReadPayments,
       ShowBalance, Assess, Post, Fail

\* A service that does not notify stays without one.
LEMMA QuietKeep == QuietInv /\ [Next]_vars => QuietInv'
<1> SUFFICES ASSUME QuietInv, [Next]_vars
             PROVE  QuietInv'
  OBVIOUS
<1>1. service' = service
  BY ServiceKept DEF Kept
<1>2. service \in Quiet => TablesStay
  <2>1. UNCHANGED vars => TablesStay
    BY DEF vars, TablesStay
  <2> QED
    BY <2>1, ResourceTablesStay, RegistrarTablesStay, ApplicationTablesStay, TenantTablesStay, BillingTablesStay
       DEF Next, Quiet
<1> QED
  BY <1>1, <1>2 DEF QuietInv, TablesStay

\* The audit trail of notices is true in every service that notifies, whatever
\* statement fails: a notice audited as created is there, one that its profile
\* is audited to have read is no longer unread, and a profile is audited to
\* have read what is not its own over PostgreSQL only.
THEOREM NoticeAuditsAreTrue == Spec => []NoticeAuditsTrue
<1> DEFINE Told == /\ service = "notifications" => NotificationInv
                   /\ service = "alumni" => AlumniInv
                   /\ service = "graduations" => GradInv
                   /\ service = "grades" => GradeInv
                   /\ service = "announcements" => PostInv
                   /\ QuietInv
<1>1. Init => Told
  BY NotificationsStart, AlumniStart, GradStart, GradesStart, PostsStart, QuietStart
<1>2. Told /\ [Next]_vars => Told'
  BY NotificationsKeep, AlumniKeep, GradKeep, GradesKeep, PostsKeep, QuietKeep
<1>3. Told => NoticeAuditsTrue
  <2> SUFFICES ASSUME Told, "notices" \in DOMAIN db, NEW a \in db.noticeAudits
               PROVE  (a[1] = "created" => a[2] \in db.notices) /\ (a[1] = "read" => ReadBy(a[2], a[3]))
    BY DEF NoticeAuditsTrue, ReadBy
  <2>1. service \in Notifying
    BY DEF QuietInv
  <2>2. CASE service = "notifications"
    BY <2>2 DEF NotificationInv, NotificationTablesOK
  <2>3. CASE service = "alumni"
    BY <2>3 DEF AlumniInv, AlumniTablesTyped
  <2>4. CASE service = "graduations"
    BY <2>4 DEF GradInv, OthersEmpty
  <2>5. CASE service \in {"grades", "announcements"}
    BY <2>5 DEF GradeInv, PostInv, GradeTablesTyped
  <2> QED
    BY <2>1, <2>2, <2>3, <2>4, <2>5 DEF Notifying
<1> QED
  BY <1>1, <1>2, <1>3, PTL DEF Spec
=============================================================================
