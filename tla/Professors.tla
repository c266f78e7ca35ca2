------------------------------ MODULE Professors ------------------------------
(***************************************************************************)
(* What professors write: grades (service "grades"), over PostgreSQL or    *)
(* over Supabase, and the announcements of their classes (service          *)
(* "announcements").  Every handler first asks whether the class is the    *)
(* professor's, then writes, then tells others about it.                   *)
(***************************************************************************)
EXTENDS Notifications

CONSTANTS
    Enrollees,      \* class enrollments that get a grade
    Marks,          \* grades
    MaxPosts        \* bound: announcements that are posted

ASSUME MaxPostsType == MaxPosts \in Nat

\* A grade that is there: its value, is_locked, and whether the professor who
\* wrote it is the one of the class.
GradeRows == [mark : Marks, locked : BOOLEAN, own : BOOLEAN]

ASSUME NoneIsNoGrade == None \notin GradeRows

GradeTables == Merged(NotificationTables, [
    grades |-> [e \in Enrollees |-> None],  \* public.grades (Supabase)
    academicGrades |-> [e \in Enrollees |-> None],  \* academic_grades (PostgreSQL)
    gradeAudits |-> {},     \* grade.submitted audit events: <<enrollee, mark>>
    gradeEvents |-> {},     \* grade.submitted domain events
    cut |-> {},             \* submissions that ended between grade and audit
    posts |-> 0,            \* announcements posted so far; the last one's id
    board |-> {}])          \* announcements that are there

\* POST /grades/professor/save and submit.
GradeRequest(w, steps) == \E e \in Enrollees, mark \in Marks, own \in BOOLEAN :
    /\ Take("grades", w, <<"assertEnrollment">> \o steps, [id |-> e, mark |-> mark, own |-> own])
    /\ UNCHANGED db

\* Drafts are saved over Supabase, also when grades are submitted over
\* PostgreSQL.
saveProfessorGrade(w) == GradeRequest(w, <<"saveGrade">>)

submitProfessorGrade(w) == GradeRequest(w,
    IF usePostgres("academics")
    THEN <<"upsertGrade", "gradeAudit", "gradeEvent">>
    ELSE <<"lockGrade", "notice", "gradeEvent">>)

\* assertEnrollmentBelongsToProfessor
AssertEnrollment(w) ==
    /\ At(w, "assertEnrollment")
    /\ arg[w].own
    /\ Proceed(w)
    /\ UNCHANGED db

GradeRow(w, locked) == [mark |-> arg[w].mark, locked |-> locked, own |-> arg[w].own]

\* Mutation: the draft's row has is_locked = false.
SaveGradeUnlocking(w) ==
    /\ At(w, "saveGrade")
    /\ db' = [db EXCEPT !.grades[arg[w].id] = GradeRow(w, FALSE)]
    /\ Proceed(w)

\* The upsert of a draft has no is_locked: a new row gets the default, an old
\* one keeps what it has, and its grade is replaced even when it is locked.
SaveGrade(w) ==
    /\ At(w, "saveGrade")
    /\ LET old == db.grades[arg[w].id]
       IN  db' = [db EXCEPT !.grades[arg[w].id] = GradeRow(w, old # None /\ old.locked)]
    /\ Proceed(w)

\* A submission over Supabase; it does not look at is_locked either.
LockGrade(w) ==
    /\ At(w, "lockGrade")
    /\ db' = [db EXCEPT !.grades[arg[w].id] = GradeRow(w, TRUE)]
    /\ Proceed(w)

\* A submission over PostgreSQL: insert, on conflict update.
UpsertGrade(w) ==
    /\ At(w, "upsertGrade")
    /\ db' = [db EXCEPT !.academicGrades[arg[w].id] = GradeRow(w, TRUE)]
    /\ Proceed(w)

Submission(w) == <<arg[w].id, arg[w].mark>>

\* Mutation: only the first submission of a grade is audited.
AuditGradeOnce(w) ==
    /\ At(w, "gradeAudit")
    /\ Proceed(w)
    /\ db' = IF \E a \in db.gradeAudits : a[1] = arg[w].id THEN db
             ELSE [db EXCEPT !.gradeAudits = @ \cup {Submission(w)}]

AuditGrade(w) ==
    /\ At(w, "gradeAudit")
    /\ Proceed(w)
    /\ db' = [db EXCEPT !.gradeAudits = @ \cup {Submission(w)}]

PublishGrade(w) ==
    /\ At(w, "gradeEvent")
    /\ Proceed(w)
    /\ db' \in {db, [db EXCEPT !.gradeEvents = @ \cup {Submission(w)}]}

\* The request ends early; a grade that is written stays.
FailGrade(w) ==
    /\ service = "grades" /\ ~Idle(w)
    /\ Answer(w)
    /\ db' = IF At(w, "gradeAudit") THEN [db EXCEPT !.cut = @ \cup {Submission(w)}] ELSE db

-----------------------------------------------------------------------------
(* Announcements; an announcement that is there belongs to its class, so   *)
(* that its assert finds it as long as it is there.                        *)

createAnnouncement(w) == \E own \in BOOLEAN :
    /\ Take("announcements", w, <<"assertClass", "insertPost", "notice">>, [id |-> 0, own |-> own])
    /\ UNCHANGED db

AssertClass(w) ==
    /\ At(w, "assertClass")
    /\ arg[w].own
    /\ Proceed(w)
    /\ UNCHANGED db

InsertPost(w) ==
    /\ At(w, "insertPost")
    /\ db.posts < MaxPosts
    /\ db' = [db EXCEPT !.posts = @ + 1, !.board = @ \cup {db.posts + 1}]
    /\ ProceedWith(w, [arg[w] EXCEPT !.id = db.posts + 1])

changeAnnouncement(w) == service = "announcements" /\
    \E post \in db.board, step \in {"updatePost", "deletePost"}, own \in BOOLEAN :
        /\ Take("announcements", w, <<"assertPost", step>>, [id |-> post, own |-> own])
        /\ UNCHANGED db

\* assertAnnouncementBelongsToProfessor
AssertPost(w) ==
    /\ At(w, "assertPost")
    /\ arg[w].own /\ arg[w].id \in db.board
    /\ Proceed(w)
    /\ UNCHANGED db

\* An announcement that is deleted by now is an error, and does not come back.
UpdatePost(w) ==
    /\ At(w, "updatePost")
    /\ arg[w].id \in db.board
    /\ Proceed(w)
    /\ UNCHANGED db

\* A deletion that finds no row succeeds all the same.
DeletePost(w) ==
    /\ At(w, "deletePost")
    /\ db' = [db EXCEPT !.board = @ \ {arg[w].id}]
    /\ Proceed(w)

ProfessorsInit ==
    \/ Start("grades", {"academics", "notifications"}, GradeTables)
    \/ Start("announcements", {"notifications"}, GradeTables)

ProfessorsNext == \E w \in Workers :
    \/ saveProfessorGrade(w) \/ submitProfessorGrade(w) \/ AssertEnrollment(w)
    \/ SaveGrade(w) \/ LockGrade(w) \/ UpsertGrade(w) \/ AuditGrade(w) \/ PublishGrade(w)
    \/ FailGrade(w)
    \/ createAnnouncement(w) \/ AssertClass(w) \/ InsertPost(w)
    \/ changeAnnouncement(w) \/ AssertPost(w) \/ UpdatePost(w) \/ DeletePost(w)
    \/ service = "announcements" /\ Fail(w)

GradeTablesOK ==
    /\ NoticeTablesOK
    /\ db.grades \in [Enrollees -> GradeRows \cup {None}]
    /\ db.academicGrades \in [Enrollees -> GradeRows \cup {None}]
    /\ db.board \subseteq 1 .. db.posts

\* The audit trail of submitted grades is complete but for requests on the way
\* and requests that ended between their two statements: the grade that stands
\* on PostgreSQL was audited, however submissions overlapped, and it is locked
\* and by the professor of the class.
GradeTrail == service = "grades" => \A e \in Enrollees :
    LET row == db.academicGrades[e]
    IN  row # None =>
        /\ row.own /\ row.locked
        /\ <<e, row.mark>> \in db.gradeAudits \cup db.cut
              \cup {Submission(w) : w \in {w \in Workers : At(w, "gradeAudit")}}

\* A grade that is submitted stays locked, and a grade never goes away: no
\* later or overlapping save or submission resets the row.
LockNeverLost == [][service = "grades" => \A e \in Enrollees :
    /\ db.grades[e] # None => db'.grades[e] # None /\ (db.grades[e].locked => db'.grades[e].locked)
    /\ db.academicGrades[e] # None => db'.academicGrades[e] # None]_vars
=============================================================================
