----------------------------- MODULE Applications -----------------------------
(***************************************************************************)
(* Applications over Supabase (over PostgreSQL they are module Admissions; *)
(* forms, documents, exams and interviews always use Supabase): what the   *)
(* applicant files (service "forms") and what the administrators decide    *)
(* (service "decisions").  Every statement commits by itself, and most     *)
(* errors after the first one are ignored.                                 *)
(***************************************************************************)
EXTENDS Requests

CONSTANTS
    Candidates,     \* applicants
    Choices,        \* programs
    MaxFiles,       \* bound: documents that are uploaded, forms that pile up
    MaxActs         \* bound: administrators' requests

ASSUME ApplicationBounds == MaxFiles \in Nat /\ MaxActs \in Nat /\ IsFiniteSet(Candidates)
ASSUME NoneIsNoChoice == None \notin Choices

FormTables == [
    background |-> [a \in Candidates |-> 0],    \* forms whose rows academic_background has
    selections |-> [a \in Candidates |-> None], \* program_selections
    program |-> [a \in Candidates |-> None],    \* applicant_profiles.program
    files |-> 0,        \* files in the storage bucket
    documents |-> {},   \* applicant_documents: [file, status]
    acts |-> 0]

\* A row of applicant_profiles.
ProfileRows == [
    status : {"Under Review", "For Exam", "For Interview", "Missing Requirements", "Accepted", "Rejected"},
    number : Nat \cup {None}, enrolled : BOOLEAN]

ASSUME NoneIsNoProfile == None \notin ProfileRows

DecisionTables == [
    profiles |-> [a \in Candidates |-> None],   \* applicant_profiles
    results |-> [a \in Candidates |-> {}],      \* what admissions_results holds
    accounts |-> [a \in Candidates |-> None],   \* student_accounts: their numbers
    activity |-> {},    \* admissions_activity_logs and events: <<what, applicant>>
    acts |-> 0]

\* A request about one applicant; value is what the rest of it needs.
ApplicantRequest(s, w, steps, a, value) ==
    Take(s, w, steps, [id |-> a, value |-> value])

-----------------------------------------------------------------------------
(* Forms *)

\* saveAcademicBackground and saveAlumniRelatives: all rows are deleted, then
\* those of the form are inserted; an empty form inserts none.
SaveBackground(w) == \E a \in Candidates, steps \in {<<>>, <<"insertBackground">>} :
    /\ ApplicantRequest("forms", w, <<"deleteBackground">> \o steps, a, None)
    /\ UNCHANGED db

\* The delete; its error is not looked at.
DeleteBackground(w) ==
    /\ At(w, "deleteBackground")
    /\ db' \in {db, [db EXCEPT !.background[arg[w].id] = 0]}
    /\ Proceed(w)

\* Forms pile up when the delete failed or another form came in between.
InsertBackground(w) ==
    /\ At(w, "insertBackground")
    /\ db.background[arg[w].id] < MaxFiles
    /\ db' = [db EXCEPT !.background[arg[w].id] = @ + 1]
    /\ Proceed(w)

\* uploadApplicantDocument: the file, then its row.  A file whose row fails
\* stays in the bucket.
UploadDocument(w) == service = "forms" /\
    LET file == db.files + 1
    IN  /\ ApplicantRequest("forms", w, <<"insertDocument">>, None, [file |-> file])
        /\ file <= MaxFiles
        /\ db' = [db EXCEPT !.files = file]

InsertDocument(w) ==
    /\ At(w, "insertDocument")
    /\ db' = [db EXCEPT !.documents = @ \cup {[file |-> arg[w].value.file, status |-> "submitted"]}]
    /\ Proceed(w)

\* verifyApplicantDocument: an update that matches the document or nothing,
\* and an audit either way.
verifyApplicantDocument(w) ==
    /\ Serve("forms", w)
    /\ \E document \in db.documents, status \in {"approved", "rejected", "pending"} :
          db' = [db EXCEPT !.documents = (@ \ {document}) \cup {[document EXCEPT !.status = status]}]

\* saveProgramSelection: an upsert, then the applicant's program, whose error
\* is not looked at.
SelectProgram(w) == \E a \in Candidates, p \in Choices :
    /\ ApplicantRequest("forms", w, <<"setSelection", "setProfileProgram">>, a, p)
    /\ UNCHANGED db

SetSelection(w) ==
    /\ At(w, "setSelection")
    /\ db' = [db EXCEPT !.selections[arg[w].id] = arg[w].value]
    /\ Proceed(w)

SetProfileProgram(w) ==
    /\ At(w, "setProfileProgram")
    /\ db' \in {db, [db EXCEPT !.program[arg[w].id] = arg[w].value]}
    /\ Proceed(w)

\* updateAdminProgramSelection: the selection alone, when there is one.
updateAdminProgramSelection(w) ==
    /\ Serve("forms", w)
    /\ db.acts < MaxActs
    /\ \E a \in Candidates, p \in Choices :
          /\ db.selections[a] # None
          /\ db' = [db EXCEPT !.selections[a] = p, !.acts = @ + 1]

-----------------------------------------------------------------------------
(* Decisions *)

Passing == {"Passed", "Accepted"}
Profiled(a) == db.profiles[a] # None

\* createApplicantProfile
CreateProfile(w) ==
    /\ Serve("decisions", w)
    /\ \E a \in Candidates :
          /\ ~Profiled(a)
          /\ db' = [db EXCEPT !.profiles[a] =
                [status |-> "Under Review", number |-> None, enrolled |-> FALSE]]

\* submitApplication: under review again, whatever was decided.
Submit(w) ==
    /\ Serve("decisions", w)
    /\ \E a \in Candidates :
          Profiled(a) /\ db' = [db EXCEPT !.profiles[a].status = "Under Review"]

\* An administrator's request about an applicant.
AdminRequest(w, steps, a, value) ==
    /\ ApplicantRequest("decisions", w, steps, a, value)
    /\ db.acts < MaxActs
    /\ Profiled(a)
    /\ db' = [db EXCEPT !.acts = @ + 1]

\* generate_applicant_number counts the applicants: two applicants that are
\* accepted without a new one between them get the same number.  An error of
\* the call is not looked at and makes none.
generate_applicant_number == {None, Cardinality({a \in Candidates : Profiled(a)})}

\* The column is unique.
NumberFree(a, number) == number = None \/
    \A b \in Candidates \ {a} : Profiled(b) => db.profiles[b].number # number

\* updateAdminApplicationStatus, with an acceptance letter or without; an
\* acceptance first asks for a number.
updateAdminApplicationStatus(w) == service = "decisions" /\
    \E a \in Candidates, status \in {"Accepted", "Rejected"}, letter \in BOOLEAN :
        \E number \in IF status \in Passing THEN generate_applicant_number ELSE {0} :
            AdminRequest(w, IF letter THEN <<"setStatus", "letter", "statusEvent">> ELSE <<"setStatus", "statusEvent">>,
                a, [status |-> status, number |-> number, letter |-> letter])

\* Without an acceptance (0) the number is kept.
SetStatus(w) ==
    LET a == arg[w].id  number == arg[w].value.number
    IN  /\ At(w, "setStatus")
        /\ number = 0 \/ NumberFree(a, number)
        /\ db' = [db EXCEPT !.profiles[a].status = arg[w].value.status,
                            !.profiles[a].number = IF number = 0 THEN @ ELSE number]
        /\ ProceedWith(w, [arg[w] EXCEPT !.value = [letter |-> @.letter]])

SendLetter(w) ==
    /\ At(w, "letter")
    /\ db' = [db EXCEPT !.results[arg[w].id] = @ \cup {"letter"}]
    /\ Proceed(w)

\* The audit, the message and the domain event, whose errors are ignored.
PublishStatus(w) ==
    /\ At(w, "statusEvent")
    /\ Proceed(w)
    /\ db' \in {db, IF arg[w].value.letter THEN [db EXCEPT !.activity = @ \cup {<<"letter", arg[w].id>>}] ELSE db}

\* scheduleEntranceExam: the result row, then the applicant, then the audit.
scheduleEntranceExam(w) == service = "decisions" /\ \E a \in Candidates :
    AdminRequest(w, <<"exam", "examStatus", "examAudit">>, a, None)

ScheduleExam(w) ==
    /\ At(w, "exam")
    /\ db' = [db EXCEPT !.results[arg[w].id] = @ \cup {"exam"}]
    /\ Proceed(w)

\* updateApplicantWorkflowStatus
SetExamStatus(w) ==
    /\ At(w, "examStatus")
    /\ db' = [db EXCEPT !.profiles[arg[w].id].status = "For Exam"]
    /\ Proceed(w)

\* scheduleInterview and recordMissingRequirements: one update and an audit
\* that nothing depends on.
SetWorkflowStatus(w) ==
    /\ Serve("decisions", w)
    /\ db.acts < MaxActs
    /\ \E a \in Candidates, status \in {"For Interview", "Missing Requirements"} :
          /\ Profiled(a)
          /\ db' = [db EXCEPT !.profiles[a].status = status, !.acts = @ + 1]

\* recordAdmissionAudit; its error is not looked at.
RecordActivity(w) ==
    LET what == IF At(w, "examAudit") THEN "exam" ELSE "converted"
    IN  /\ At(w, "examAudit") \/ At(w, "convertedAudit")
        /\ Proceed(w)
        /\ db' \in {db, [db EXCEPT !.activity = @ \cup {<<what, arg[w].id>>}]}

\* Mutation: the applicant is marked as enrolled before the account is made.
convertMarkingFirst(w) == service = "decisions" /\ \E a \in Candidates :
    AdminRequest(w, <<"readProfile", "setEnrolled", "insertAccount", "convertedAudit">>, a, None)

\* convertAcceptedApplicantToStudent: unlike the conversion over PostgreSQL it
\* looks at no status.  An applicant without a number gets one here.
convertAcceptedApplicantToStudent(w) == service = "decisions" /\ \E a \in Candidates :
    AdminRequest(w, <<"readProfile", "insertAccount", "setEnrolled", "convertedAudit">>, a, None)

ReadProfile(w) ==
    /\ At(w, "readProfile")
    /\ LET number == db.profiles[arg[w].id].number
       IN  \E n \in IF number = None THEN generate_applicant_number ELSE {number} :
              ProceedWith(w, [arg[w] EXCEPT !.value = [number |-> n]])
    /\ UNCHANGED db

\* A plain insert: the number is required, and both it and the applicant are
\* unique, so that a conversion that stopped after it never succeeds again.
InsertAccount(w) ==
    /\ At(w, "insertAccount")
    /\ arg[w].value.number # None /\ db.accounts[arg[w].id] = None
    /\ \A b \in Candidates : db.accounts[b] # arg[w].value.number
    /\ db' = [db EXCEPT !.accounts[arg[w].id] = arg[w].value.number]
    /\ ProceedWith(w, [arg[w] EXCEPT !.value = None])

SetEnrolled(w) ==
    /\ At(w, "setEnrolled")
    /\ db' = [db EXCEPT !.profiles[arg[w].id].enrolled = TRUE]
    /\ Proceed(w)

ApplicationsInit == Start("forms", {}, FormTables) \/ Start("decisions", {}, DecisionTables)

ApplicationsNext == \E w \in Workers :
    \/ SaveBackground(w) \/ DeleteBackground(w) \/ InsertBackground(w)
    \/ UploadDocument(w) \/ InsertDocument(w) \/ verifyApplicantDocument(w)
    \/ SelectProgram(w) \/ SetSelection(w) \/ SetProfileProgram(w) \/ updateAdminProgramSelection(w)
    \/ CreateProfile(w) \/ Submit(w)
    \/ updateAdminApplicationStatus(w) \/ SetStatus(w) \/ SendLetter(w) \/ PublishStatus(w)
    \/ scheduleEntranceExam(w) \/ ScheduleExam(w) \/ SetExamStatus(w) \/ SetWorkflowStatus(w)
    \/ RecordActivity(w) \/ convertAcceptedApplicantToStudent(w) \/ ReadProfile(w)
    \/ InsertAccount(w) \/ SetEnrolled(w)
    \/ service \in {"forms", "decisions"} /\ Fail(w)

FormTablesOK ==
    /\ db.selections \in [Candidates -> Choices \cup {None}]
    /\ \A d \in db.documents : d.status \in {"submitted", "approved", "rejected", "pending"}

DecisionTablesOK == db.profiles \in [Candidates -> ProfileRows \cup {None}]

\* What belongs together is there together whatever fails or overlaps.  Every
\* document has its file, and an applicant has a program only with a selection.
\* The numbers of applicants are unique although two requests may make the same
\* one, nobody is shown as enrolled without an account, and no conversion, exam
\* or acceptance letter is announced before its rows are there.
AdmissionTrail ==
    /\ service = "forms" =>
          /\ {d.file : d \in db.documents} \subseteq 1 .. db.files
          /\ \A a \in Candidates : db.program[a] # None => db.selections[a] # None
    /\ service = "decisions" => \A a \in Candidates :
          /\ Profiled(a) => NumberFree(a, db.profiles[a].number)
          /\ Profiled(a) /\ db.profiles[a].enrolled => db.accounts[a] # None
          /\ <<"converted", a>> \in db.activity => db.profiles[a].enrolled
          /\ \A what \in {"exam", "letter"} : <<what, a>> \in db.activity => what \in db.results[a]
=============================================================================
