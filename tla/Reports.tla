------------------------------- MODULE Reports -------------------------------
(***************************************************************************)
(* What students and registrars are shown.  A grade report is computed     *)
(* from the rows of one query; a profile, a count of students and the      *)
(* progress in a curriculum come from queries that run in parallel, while  *)
(* other services insert accounts and enroll.  Grades are in hundredths.   *)
(***************************************************************************)
EXTENDS Requests, Functions

CONSTANTS
    Courses,        \* the classes a student can have rows for
    Units,          \* academic_subjects.units
    Term,           \* academic_curriculum.term; None for a course outside it
    Curriculum,     \* the courses that the program requires
    Grades,         \* final grades, in hundredths
    FailingGrades,  \* those that fail where no remark says otherwise
    MaxStudents     \* bound: student accounts

ASSUME UnitsType == Units \in [Courses -> Nat]
ASSUME GradesType == FailingGrades \subseteq Grades /\ Grades \subseteq Nat /\ Curriculum \subseteq Courses
ASSUME MaxStudentsType == MaxStudents \in Nat
ASSUME CoursesAreFinite == IsFiniteSet(Courses)
\* getTermSummary is asked for a term, and the curriculum has one.
ASSUME TermType == DOMAIN Term = Courses /\ \E c \in Courses : Term[c] # None
\* On the five-point scale 5.00 fails, of the percentages those below 75.
ASSUME ScalesOfGrades == \A g \in Grades : g \in FailingGrades <=> g \in 500 .. 7499

ReportTables == [
    rows |-> [c \in Courses |-> None],  \* the student's grade rows: [grade, remarks]
    kinds |-> {},                       \* the tables in which a user has a row
    students |-> 0,                     \* student_accounts, counted
    enrolled |-> {}]                    \* class_enrollments: the courses of a student

Remarks == {"Passed", "Failed", "Incomplete", None}

ReportsElsewhere(s, tables) ==
    /\ service = s
    /\ db' = tables
    /\ UNCHANGED <<service, configured, todo, arg>>

\* Bound: a request of these services writes nothing, so that one at a time is
\* enough.
Alone == \A w \in Workers : Idle(w)

-----------------------------------------------------------------------------
(* Grades *)

\* A professor records a grade, or a row comes without one.  What is recorded
\* after the query of a report is none of its business.
RecordRow == Alone /\ \E c \in Courses, grade \in Grades \cup {None}, remarks \in Remarks :
    ReportsElsewhere("reports", [db EXCEPT !.rows[c] = [grade |-> grade, remarks |-> remarks]])

unitsOf(courses) == SumFunctionOnSet(Units, courses)

\* The sum of grade times units.
weightedTotal(rows, courses) ==
    SumFunctionOnSet([c \in courses |-> rows[c].grade * Units[c]], courses)

\* Mutation: the lowest mark of the five-point scale passes.
failedAboveFive(row) ==
    CASE row.remarks = "Failed" -> TRUE
      [] row.remarks = "Passed" -> FALSE
      [] row.remarks \notin {"Failed", "Passed"} -> row.grade > 500 /\ row.grade < 7500

\* A grade above 5 is a percentage.
failsByGrade(grade) == IF grade > 500 THEN grade < 7500 ELSE grade >= 500

isFailedGradeValue(row) ==
    CASE row.remarks = "Failed" -> TRUE
      [] row.remarks = "Passed" -> FALSE
      [] row.remarks \notin {"Failed", "Passed"} -> failsByGrade(row.grade)

\* toFixed(2) of a quotient in hundredths; '0.00' when there is nothing to divide by.
toFixed(dividend, divisor) == IF divisor = 0 THEN 0 ELSE (2 * dividend + divisor) \div (2 * divisor)

graded(rows, courses) == {c \in courses : rows[c].grade # None}

getAcademicStanding(count, failedUnits) ==
    IF count = 0 THEN "no_grades" ELSE IF failedUnits > 0 THEN "has_deficiencies" ELSE "good_standing"

\* summarizeGrades of the rows of these courses.
summarizeGrades(rows, courses) ==
    LET numeric == graded(rows, courses)
        failedUnits == unitsOf({c \in numeric : isFailedGradeValue(rows[c])})
    IN  [totalUnits |-> unitsOf(courses),
         gradedUnits |-> unitsOf(numeric),
         passedUnits |-> unitsOf(numeric) - failedUnits,
         failedUnits |-> failedUnits,
         gwa |-> toFixed(weightedTotal(rows, numeric), unitsOf(numeric)),
         status |-> getAcademicStanding(Cardinality(courses), failedUnits)]

rowsOf(rows) == {c \in Courses : rows[c] # None}

\* getTermSummary; the rows that Supabase returns have no term.
termRows(rows, term) ==
    {c \in rowsOf(rows) : ~usePostgres("reports") \/ Term[c] \in {term, None}}

\* getDeficiencies, by remark alone.
deficiencies(rows) == {c \in rowsOf(rows) : rows[c].remarks \in {"Failed", "Incomplete"}}

NoRows == [c \in Courses |-> None]

\* The rows that a query has for a report.  Supabase's errors are not looked
\* at: a query that fails has found no row.
rowsRead == IF usePostgres("reports") THEN {db.rows} ELSE {db.rows, NoRows}

\* getDeficiencies always asks Supabase, which has no rows of a service over
\* PostgreSQL.
rowsListed == IF usePostgres("reports") THEN {NoRows} ELSE rowsRead

\* getSummary, getTermSummary, getDeficiencies: each is one query, which may
\* fail by itself, and then arithmetic, here on the same rows.
getSummary(w) == service = "reports" /\ Alone /\
    /\ \E summed, termed \in rowsRead, listed \in rowsListed :
          Take("reports", w, <<"showGrades">>,
              [rows |-> db.rows,
               summary |-> summarizeGrades(summed, rowsOf(summed)),
               terms |-> [t \in {Term[c] : c \in Courses} \ {None} |->
                             summarizeGrades(termed, termRows(termed, t))],
               deficient |-> deficiencies(listed)])
    /\ UNCHANGED db

ShowGrades(w) ==
    /\ At(w, "showGrades")
    /\ Proceed(w)
    /\ UNCHANGED db

-----------------------------------------------------------------------------
(* Profile, student counts and curriculum progress *)

\* Accounts are made and never removed; a course is taken up and dropped.
AddKind == \E kind \in {"applicant", "student", "professor", "alumni"} :
    ReportsElsewhere("students", [db EXCEPT !.kinds = @ \cup {kind}])

AddStudent ==
    /\ db.students < MaxStudents
    /\ ReportsElsewhere("students", [db EXCEPT !.students = @ + 1])

Enroll == \E c \in Courses :
    ReportsElsewhere("students", [db EXCEPT !.enrolled = IF c \in @ THEN @ \ {c} ELSE @ \cup {c}])

\* accountType of getProfile: the first of these that has a row.
accountType(kinds) ==
    CASE "professor" \in kinds -> "professor"
      [] "professor" \notin kinds /\ "student" \in kinds -> "student"
      [] kinds \cap {"professor", "student"} = {} /\ "alumni" \in kinds -> "alumni"
      [] kinds = {"applicant"} -> "applicant"
      [] kinds = {} -> None

Kinds == {"applicant", "student", "professor", "alumni"}
ASSUME NoneIsNoKind == None \notin Kinds

\* ProfileService.getProfile: the queries answer in any order.  before are the
\* rows at the beginning and missed those that a failed query did not find,
\* both unknown to the handler.
getProfile(w) == service = "students" /\ Alone /\
    /\ Take("students", w, <<"readKind", "showProfile">>,
           [before |-> db.kinds, unread |-> Kinds, found |-> {}, missed |-> {}])
    /\ UNCHANGED db

\* A query that fails is one that found nothing.
ReadKind(w) == \E kind \in Kinds, result \in {"found", "missed"} :
    /\ At(w, "readKind") /\ kind \in arg[w].unread
    /\ GoOn(w, IF arg[w].unread = {kind} THEN Tail(todo[w]) ELSE todo[w],
           [arg[w] EXCEPT !.unread = @ \ {kind}, ![result] = @ \cup ({kind} \cap db.kinds)])
    /\ UNCHANGED db

\* StudentService.getStats: of its four counts, the one of all accounts.  A
\* count that fails is shown as 0.
getStats(w) == service = "students" /\ Alone /\
    /\ Take("students", w, <<"countStudents", "showStats">>, [before |-> db.students, count |-> 0])
    /\ UNCHANGED db

CountStudents(w) ==
    /\ At(w, "countStudents")
    /\ \E count \in {db.students, 0} : ProceedWith(w, [arg[w] EXCEPT !.count = count])
    /\ UNCHANGED db

\* StudentService.getCurriculumProgress; a student without a program, or whose
\* profile could not be read, has no curriculum.  Its other reads throw.
getCurriculumProgress(w) == service = "students" /\ Alone /\ \E program \in BOOLEAN :
    /\ Take("students", w, <<"readEnrolled", "showProgress">>,
           [required |-> unitsOf(IF program THEN Curriculum ELSE {}), completed |-> 0])
    /\ UNCHANGED db

ReadEnrolled(w) ==
    /\ At(w, "readEnrolled")
    /\ ProceedWith(w, [arg[w] EXCEPT !.completed = unitsOf(db.enrolled)])
    /\ UNCHANGED db

remainingUnits(required, completed) == IF required > completed THEN required - completed ELSE 0

\* Math.round of the percentage.
completionPercent(required, completed) ==
    IF required = 0 THEN 0 ELSE (200 * completed + required) \div (2 * required)

ShowToStudent(w) ==
    /\ At(w, "showProfile") \/ At(w, "showStats") \/ At(w, "showProgress")
    /\ Proceed(w)
    /\ UNCHANGED db

ReportsInit ==
    \/ Start("reports", {"reports"}, ReportTables)
    \/ Start("students", {}, ReportTables)

ReportsNext ==
    \/ RecordRow \/ AddKind \/ AddStudent \/ Enroll
    \/ \E w \in Workers :
        \/ getSummary(w) \/ ShowGrades(w)
        \/ getProfile(w) \/ ReadKind(w) \/ getStats(w) \/ CountStudents(w)
        \/ getCurriculumProgress(w) \/ ReadEnrolled(w) \/ ShowToStudent(w)
        \/ service \in {"reports", "students"} /\ Fail(w)

\* A row counts as failed by its remark, and without one by the scale that its
\* grade is on.
Failing(row) ==
    \/ row.remarks = "Failed"
    \/ row.remarks # "Passed" /\ row.grade \in FailingGrades

\* What a report shows is of the rows: over PostgreSQL always, over Supabase
\* unless it shows no grades.
shows(summary) == usePostgres("reports") \/ summary.status # "no_grades"

\* The figures of a report agree with each other, and those that show grades
\* agree with the rows: every unit that was graded is either passed or failed,
\* the average lies between the lowest and the highest grade that counts, a
\* student has deficiencies exactly when a course with units failed, and the
\* terms and the list of deficiencies leave no row out.
GradesAgree(r) ==
    LET counting == {c \in graded(r.rows, rowsOf(r.rows)) : Units[c] > 0}
    IN  /\ r.summary.passedUnits + r.summary.failedUnits = r.summary.gradedUnits
        /\ r.summary.gradedUnits <= r.summary.totalUnits
        /\ ~shows(r.summary) => r.summary.totalUnits = 0 /\ r.summary.gwa = 0
        /\ shows(r.summary) =>
              /\ (r.summary.status = "no_grades") <=> rowsOf(r.rows) = {}
              /\ (r.summary.status = "has_deficiencies") <=> \E c \in counting : Failing(r.rows[c])
              /\ counting # {} =>
                    /\ \E c \in counting : r.rows[c].grade <= r.summary.gwa
                    /\ \E c \in counting : r.rows[c].grade >= r.summary.gwa
              /\ \A t \in DOMAIN r.terms : r.terms[t].failedUnits <= r.summary.failedUnits
        /\ (\E t \in DOMAIN r.terms : shows(r.terms[t])) =>
              \A c \in rowsOf(r.rows) : \E t \in DOMAIN r.terms : r.terms[t].totalUnits >= Units[c]
        /\ r.deficient # {} => \A c \in rowsOf(r.rows) : r.rows[c].remarks = "Failed" => c \in r.deficient

\* The order in which accounts count for a profile.
Rank(type) == CASE type = None -> 0 [] type = "applicant" -> 1 [] type = "alumni" -> 2
                [] type = "student" -> 3 [] type = "professor" -> 4

\* What is shown is consistent and no older than its request: the figures of a
\* grade report agree; a profile is of the kind that the user had at some
\* moment since it was asked for, but for the rows that a failed query missed,
\* and a count of students is one that was true since, or 0; and a curriculum
\* is shown below 100 per cent only with units left.
ReportExact ==
    /\ service = "reports" => \A w \in Workers : At(w, "showGrades") => GradesAgree(arg[w])
    /\ service = "students" => \A w \in Workers :
        /\ At(w, "showProfile") =>
              Rank(accountType(arg[w].found)) \in
                  Rank(accountType(arg[w].before \ arg[w].missed)) .. Rank(accountType(db.kinds))
        /\ At(w, "showStats") => arg[w].count \in {0} \cup (arg[w].before .. db.students)
        /\ At(w, "showProgress") => LET r == arg[w] IN
              /\ r.required > 0 /\ completionPercent(r.required, r.completed) < 100 =>
                    remainingUnits(r.required, r.completed) > 0
              /\ remainingUnits(r.required, r.completed) <= r.required
=============================================================================
