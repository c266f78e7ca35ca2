----------------------------- MODULE Admissions -----------------------------
(***************************************************************************)
(* The admission of applicants over two databases: admissions holds the    *)
(* applicants, their program selections and an activity log; academics     *)
(* holds the student accounts.  An operation is a series of single         *)
(* statements without a transaction, and the conversion of an applicant    *)
(* into a student writes both databases in turn.                           *)
(***************************************************************************)
EXTENDS Naturals, FiniteSets

CONSTANTS
    Applicants,
    Programs,
    Decisions,  \* the statuses an administrator can set
    Numbers,    \* bound: the applicant numbers that can be issued
    Workers,    \* requests that can be in flight at the same time
    None        \* SQL null

Accepting == {"Accepted", "Passed"}

ASSUME NumbersFinite == IsFiniteSet(Numbers)
ASSUME NullIsNoValue == None \notin Applicants \cup Programs \cup Numbers

VARIABLES
    applicants,  \* admission_applicants
    selections,  \* admission_program_selections: program of each applicant
    log,         \* admission_activity_logs: who has a conversion entry
    students,    \* academic_student_accounts: account of each applicant
    issued,      \* which applicant each number was made for
    pc,          \* where each request stands
    applicant,   \* the applicant that the request is about
    row          \* what the request has read or will write

vars == <<applicants, selections, log, students, issued, pc, applicant, row>>
admissionsDb == <<applicants, selections, log>>

Events == {"application_submitted", "status_changed", "applicant_converted_to_student"}
InFlight == {"setProgram", "convert", "upsertStudent", "markEnrolled"} \cup Events

Existing == DOMAIN applicants
Applicant ==
    [status : Decisions \cup {"Draft", "Under Review"}, number : Numbers \cup {None},
     program : Programs \cup {None}, enrolled : BOOLEAN]
Student == [number : Numbers, program : Programs \cup {None}]
Values == {None} \cup Programs \cup Student  \* what a request may have in hand

TypeOK ==
    /\ Existing \subseteq Applicants /\ applicants \in [Existing -> Applicant]
    /\ DOMAIN selections \subseteq Existing
    /\ selections \in [DOMAIN selections -> Programs \cup {None}]
    /\ log \subseteq Existing
    /\ DOMAIN students \subseteq Existing
    /\ students \in [DOMAIN students -> Student]
    /\ issued \in [Numbers -> Applicants \cup {None}]
    /\ pc \in [Workers -> {"idle"} \cup InFlight]
    /\ applicant \in [Workers -> Applicants \cup {None}]
    /\ row \in [Workers -> Values]
    /\ \A w \in Workers : IF pc[w] \in InFlight THEN applicant[w] \in Existing
                                                ELSE applicant[w] = None /\ row[w] = None

Init ==
    /\ applicants = <<>> /\ selections = <<>> /\ log = {} /\ students = <<>>
    /\ issued = [n \in Numbers |-> None]
    /\ pc = [w \in Workers |-> "idle"]
    /\ applicant = [w \in Workers |-> None]
    /\ row = [w \in Workers |-> None]

\* A table with a row more, or with one row changed.
Put(table, key, r) ==
    [k \in DOMAIN table \cup {key} |-> IF k = key THEN r ELSE table[k]]

\* The request continues with its next statement, about applicant a, with the
\* values r in hand.
Goto(w, a, step, r) ==
    /\ pc' = [pc EXCEPT ![w] = step]
    /\ applicant' = [applicant EXCEPT ![w] = a]
    /\ row' = [row EXCEPT ![w] = r]

\* The request ends, with a result, an error answer or none at all: what the
\* client is told has no effect on what it may ask next.
Answer(w) == Goto(w, None, "idle", None)

-----------------------------------------------------------------------------

\* POST /application/profile: a draft.  Names and addresses, which the applicant
\* saves afterwards, play no role here.
CreateApplicantProfile(a) ==
    /\ a \notin Existing
    /\ applicants' = Put(applicants, a, [status |-> "Draft", number |-> None,
                                         program |-> None, enrolled |-> FALSE])
    /\ UNCHANGED <<selections, log, students, issued, pc, applicant, row>>

\* Mutation: insert ... on conflict (applicant_id) do update.
SaveProgramSelectionUpserting(w, a, p) ==
    /\ pc[w] = "idle" /\ a \in Existing
    /\ selections' = Put(selections, a, p) /\ Goto(w, a, "setProgram", p)
    /\ UNCHANGED <<applicants, log, students, issued>>

\* PUT program-selection, of the applicant or of an administrator.  The insert
\* says "on conflict (id)", but the id is new each time and the table is unique
\* by applicant: the second selection of an applicant is an error.  A form that
\* names no program leaves the applicant's row alone.
SaveProgramSelection(w, a, p) ==
    /\ pc[w] = "idle" /\ a \in Existing
    /\ IF a \in DOMAIN selections
       THEN Answer(w) /\ UNCHANGED selections
       ELSE /\ selections' = Put(selections, a, p)
            /\ IF p = None THEN Answer(w) ELSE Goto(w, a, "setProgram", p)
    /\ UNCHANGED <<applicants, log, students, issued>>

SetProgram(w) ==
    /\ pc[w] = "setProgram"
    /\ applicants' = [applicants EXCEPT ![applicant[w]].program = row[w]]
    /\ Answer(w)
    /\ UNCHANGED <<selections, log, students, issued>>

\* POST submit: under review from any status, a decided one included.
SubmitApplication(w, a) ==
    /\ pc[w] = "idle" /\ a \in Existing
    /\ applicants' = [applicants EXCEPT ![a].status = "Under Review"]
    /\ Goto(w, a, "application_submitted", None)
    /\ UNCHANGED <<selections, log, students, issued>>

\* Mutation: the number is made when the letter is sent, for "Accepted" only.
UpdateStatusForAccepted(a, status, n) ==
    applicants' = [applicants EXCEPT ![a].status = status,
                                     ![a].number = IF status = "Accepted" THEN n ELSE @]

\* The update statement: number = coalesce(new number, number).
UpdateStatus(a, status, n) ==
    applicants' = [applicants EXCEPT ![a].status = status,
                                     ![a].number = IF n = None THEN @ ELSE n]

\* Mutation: a short number, which may have been made before.
UpdateAdminApplicationStatusReusing(w, a, status) ==
    /\ pc[w] = "idle" /\ a \in Existing
    /\ IF status \in Accepting
       THEN \E n \in Numbers :
               issued' = [issued EXCEPT ![n] = a] /\ UpdateStatus(a, status, n)
       ELSE UpdateStatus(a, status, None) /\ UNCHANGED issued
    /\ Goto(w, a, "status_changed", None)
    /\ UNCHANGED <<selections, log, students>>

\* PATCH status: any status may follow any other.  Each acceptance makes a
\* number that no applicant has had.
UpdateAdminApplicationStatus(w, a, status) ==
    /\ pc[w] = "idle" /\ a \in Existing
    /\ IF status \in Accepting
       THEN \E n \in Numbers :
               /\ issued[n] = None
               /\ issued' = [issued EXCEPT ![n] = a]
               /\ UpdateStatus(a, status, n)
       ELSE UpdateStatus(a, status, None) /\ UNCHANGED issued
    /\ Goto(w, a, "status_changed", None)
    /\ UNCHANGED <<selections, log, students>>

\* The audit entry is the last statement of each operation; the event that is
\* published after it never fails the request.  Of the entries only those of
\* conversions are kept here.
RecordAdmissionAudit(w) ==
    /\ pc[w] \in Events
    /\ log' = log \cup {a \in {applicant[w]} : pc[w] = "applicant_converted_to_student"}
    /\ Answer(w)
    /\ UNCHANGED <<applicants, selections, students, issued>>

-----------------------------------------------------------------------------

\* POST convert.
Convert(w, a) ==
    /\ pc[w] = "idle" /\ a \in Existing
    /\ Goto(w, a, "convert", None)
    /\ UNCHANGED <<admissionsDb, students, issued>>

\* The applicant is read once; only an accepted one is converted.  Its number
\* stands for applicant_number ?? reference_number: an accepted applicant has one.
ReadApplicant(w) ==
    LET a == applicants[applicant[w]] IN
    /\ pc[w] = "convert"
    /\ IF a.status \in Accepting
       THEN Goto(w, applicant[w], "upsertStudent", [number |-> a.number, program |-> a.program])
       ELSE Answer(w)
    /\ UNCHANGED <<admissionsDb, students, issued>>

\* Mutation: a plain insert, as the conversion without PostgreSQL has it.
UpsertStudentInserting(w) ==
    /\ pc[w] = "upsertStudent"
    /\ IF applicant[w] \in DOMAIN students
       THEN Answer(w) /\ UNCHANGED students
       ELSE /\ students' = Put(students, applicant[w], row[w])
            /\ Goto(w, applicant[w], "markEnrolled", None)
    /\ UNCHANGED <<admissionsDb, issued>>

\* Mutation: the admissions database is told first.
UpsertStudentLast(w) ==
    /\ pc[w] = "upsertStudent"
    /\ Goto(w, applicant[w], "markEnrolled", row[w])
    /\ UNCHANGED <<admissionsDb, students, issued>>

\* Mutation: the audit entry is written with the account, not at the end.
UpsertStudentLogged(w) ==
    /\ pc[w] = "upsertStudent"
    /\ log' = log \cup {applicant[w]}
    /\ students' = Put(students, applicant[w], row[w])
    /\ Goto(w, applicant[w], "markEnrolled", None)
    /\ UNCHANGED <<applicants, selections, issued>>

\* Academics: insert the account, or overwrite the one this applicant has.
UpsertStudent(w) ==
    /\ pc[w] = "upsertStudent"
    /\ students' = Put(students, applicant[w], row[w])
    /\ Goto(w, applicant[w], "markEnrolled", None)
    /\ UNCHANGED <<admissionsDb, issued>>

\* Admissions: is_enrolled.
MarkEnrolled(w) ==
    /\ pc[w] = "markEnrolled"
    /\ applicants' = [applicants EXCEPT ![applicant[w]].enrolled = TRUE]
    /\ Goto(w, applicant[w], "applicant_converted_to_student", None)
    /\ UNCHANGED <<selections, log, students, issued>>

\* A statement fails or the process stops; what was written stays.
Fail(w) ==
    /\ pc[w] \in InFlight
    /\ Answer(w)
    /\ UNCHANGED <<admissionsDb, students, issued>>

Serve(w) ==
    \/ SetProgram(w) \/ RecordAdmissionAudit(w)
    \/ ReadApplicant(w) \/ UpsertStudent(w) \/ MarkEnrolled(w)

Next ==
    \/ \E a \in Applicants : CreateApplicantProfile(a)
    \/ \E w \in Workers, a \in Applicants :
          \/ SubmitApplication(w, a)
          \/ Convert(w, a)
          \/ \E p \in Programs \cup {None} : SaveProgramSelection(w, a, p)
          \/ \E status \in Decisions : UpdateAdminApplicationStatus(w, a, status)
    \/ \E w \in Workers : Serve(w) \/ Fail(w)

Spec == Init /\ [][Next]_vars

\* Handlers resume when their statement is answered.  A conversion that stopped
\* half way is asked for again, and no statement of it fails every time.
HalfConverted(a) == a \in DOMAIN students /\ ~applicants[a].enrolled
FairSpec ==
    /\ Spec
    /\ \A w \in Workers :
          /\ WF_vars(Serve(w))
          /\ SF_vars(ReadApplicant(w)) /\ SF_vars(UpsertStudent(w)) /\ SF_vars(MarkEnrolled(w))
    /\ \A a \in Applicants : SF_vars(\E w \in Workers : HalfConverted(a) /\ Convert(w, a))

-----------------------------------------------------------------------------

\* Whatever stops a conversion, the admissions database never shows an enrolled
\* applicant without an account in the academics database.
EnrolledHasAccount ==
    \A a \in Existing : applicants[a].enrolled => a \in DOMAIN students

\* The student number is a number made for this very applicant at an acceptance,
\* not its reference number, however acceptances and conversions interleave.
NumberOfAcceptance ==
    \A a \in DOMAIN students : issued[students[a].number] = a

\* The activity log never tells a conversion that did not reach both databases.
LogNeverAhead ==
    \A a \in log : a \in DOMAIN students /\ applicants[a].enrolled

\* The program of the applicant and the selected one agree whenever both are
\* there, with several selections in flight.
ProgramMatchesSelection ==
    \A a \in Existing : applicants[a].program # None =>
        a \in DOMAIN selections /\ selections[a] = applicants[a].program

\* A conversion that stopped between the two databases is completed by asking
\* for it again, as long as the applicant stays accepted.
ConversionCompletes ==
    \A a \in Applicants :
        HalfConverted(a) ~> a \in Existing /\ (\/ applicants[a].enrolled
                                              \/ applicants[a].status \notin Accepting)

\* "Only accepted applicants can be converted to students".
OnlyAcceptedConverted ==
    [][\A a \in Existing :
          a \notin DOMAIN students /\ a \in DOMAIN students' =>
              applicants[a].status \in Accepting]_vars
=============================================================================
