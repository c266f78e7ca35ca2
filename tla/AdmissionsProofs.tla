-------------------------- MODULE AdmissionsProofs --------------------------
(***************************************************************************)
(* Proofs about Admissions for every set of applicants, programs, numbers  *)
(* and requests in flight.  A conversion works with what it has read, so   *)
(* the invariant says what the values in its hands are worth, whatever     *)
(* others have written since: a number, once made for an applicant, stays  *)
(* its own, and an account that is there stays there.  One lemma for each  *)
(* part of the invariant goes through the actions.                         *)
(***************************************************************************)
EXTENDS Admissions, TLAPS

Converted == "applicant_converted_to_student"

\* An accepted applicant has a number, and it was made for it.
ApplicantNumber ==
    \A a \in Existing :
        /\ applicants[a].status \in Accepting => applicants[a].number # None
        /\ applicants[a].number # None => issued[applicants[a].number] = a

\* What a request knows in each step.
InHand ==
    \A w \in Workers :
        /\ pc[w] = "setProgram" => /\ row[w] \in Programs
                                  /\ applicant[w] \in DOMAIN selections
                                  /\ selections[applicant[w]] = row[w]
        /\ pc[w] = "upsertStudent" => row[w] \in Student /\ issued[row[w].number] = applicant[w]
        /\ pc[w] \in {"markEnrolled", Converted} => applicant[w] \in DOMAIN students
        /\ pc[w] = Converted => applicants[applicant[w]].enrolled

IInv ==
    /\ TypeOK
    /\ ApplicantNumber
    /\ InHand
    /\ EnrolledHasAccount
    /\ NumberOfAcceptance
    /\ LogNeverAhead
    /\ ProgramMatchesSelection

-----------------------------------------------------------------------------

\* Only the row of applicant a changes, and it stays enrolled if it was.
OnlyRow(a) ==
    /\ a \in Existing
    /\ Existing' = Existing
    /\ applicants' \in [Existing -> Applicant]
    /\ \A b \in Existing \ {a} : applicants'[b] = applicants[b]
    /\ applicants[a].enrolled => applicants'[a].enrolled

\* A submission writes the status of one row.
LEMMA SubmitEffect ==
  ASSUME TypeOK, NEW w \in Workers, NEW a \in Applicants, SubmitApplication(w, a)
  PROVE  /\ pc[w] = "idle" /\ OnlyRow(a)
         /\ applicants'[a].status = "Under Review"
         /\ applicants'[a].number = applicants[a].number
         /\ applicants'[a].enrolled = applicants[a].enrolled
         /\ applicants'[a].program = applicants[a].program
         /\ Goto(w, a, "application_submitted", None)
         /\ UNCHANGED <<selections, log, students, issued>>
<1> DEFINE r == [applicants[a] EXCEPT !.status = "Under Review"]
<1>1. a \in Existing /\ applicants[a] \in Applicant
  BY DEF SubmitApplication, TypeOK
<1>2. /\ r \in Applicant /\ r.status = "Under Review"
      /\ r.number = applicants[a].number /\ r.enrolled = applicants[a].enrolled
      /\ r.program = applicants[a].program
  BY <1>1 DEF Applicant
<1>3. applicants' = [applicants EXCEPT ![a] = r]
  BY DEF SubmitApplication
<1> HIDE DEF r
<1>4. OnlyRow(a) /\ applicants'[a] = r
  BY <1>1, <1>2, <1>3 DEF OnlyRow, TypeOK, Existing
<1> QED
  BY <1>2, <1>4 DEF SubmitApplication

\* The conversion's second write sets is_enrolled of one row.
LEMMA MarkEffect ==
  ASSUME TypeOK, NEW w \in Workers, MarkEnrolled(w)
  PROVE  /\ pc[w] = "markEnrolled" /\ OnlyRow(applicant[w])
         /\ applicants'[applicant[w]].status = applicants[applicant[w]].status
         /\ applicants'[applicant[w]].number = applicants[applicant[w]].number
         /\ applicants'[applicant[w]].program = applicants[applicant[w]].program
         /\ applicants'[applicant[w]].enrolled
         /\ Goto(w, applicant[w], Converted, None)
         /\ UNCHANGED <<selections, log, students, issued>>
<1> DEFINE a == applicant[w]
           r == [applicants[a] EXCEPT !.enrolled = TRUE]
<1>1. a \in Existing /\ applicants[a] \in Applicant
  BY DEF MarkEnrolled, TypeOK, InFlight
<1>2. /\ r \in Applicant /\ r.enrolled /\ r.program = applicants[a].program
      /\ r.number = applicants[a].number /\ r.status = applicants[a].status
  BY <1>1 DEF Applicant
<1>3. applicants' = [applicants EXCEPT ![a] = r]
  BY DEF MarkEnrolled
<1> HIDE DEF r
<1>4. OnlyRow(a) /\ applicants'[a] = r
  BY <1>1, <1>2, <1>3 DEF OnlyRow, TypeOK, Existing
<1> QED
  BY <1>2, <1>4 DEF MarkEnrolled, Converted

\* A selection's second write sets the program of one row.
LEMMA SetProgramEffect ==
  ASSUME TypeOK, InHand, NEW w \in Workers, SetProgram(w)
  PROVE  /\ pc[w] = "setProgram" /\ OnlyRow(applicant[w])
         /\ applicants'[applicant[w]].status = applicants[applicant[w]].status
         /\ applicants'[applicant[w]].number = applicants[applicant[w]].number
         /\ applicants'[applicant[w]].enrolled = applicants[applicant[w]].enrolled
         /\ applicants'[applicant[w]].program = row[w]
         /\ Goto(w, None, "idle", None)
         /\ UNCHANGED <<selections, log, students, issued>>
<1> DEFINE a == applicant[w]
           r == [applicants[a] EXCEPT !.program = row[w]]
<1>1. a \in Existing /\ applicants[a] \in Applicant /\ row[w] \in Programs
  BY DEF SetProgram, TypeOK, InFlight, InHand
<1>2. /\ r \in Applicant /\ r.enrolled = applicants[a].enrolled /\ r.program = row[w]
      /\ r.number = applicants[a].number /\ r.status = applicants[a].status
  BY <1>1 DEF Applicant
<1>3. applicants' = [applicants EXCEPT ![a] = r]
  BY DEF SetProgram
<1> HIDE DEF r
<1>4. OnlyRow(a) /\ applicants'[a] = r
  BY <1>1, <1>2, <1>3 DEF OnlyRow, TypeOK, Existing
<1> QED
  BY <1>2, <1>4 DEF SetProgram, Answer

\* A decision writes the status of one row and, if it accepts, a new number.
LEMMA DecisionEffect ==
  ASSUME TypeOK, ApplicantNumber, NEW w \in Workers, NEW a \in Applicants,
         NEW status \in Decisions, UpdateAdminApplicationStatus(w, a, status)
  PROVE  /\ pc[w] = "idle" /\ OnlyRow(a)
         /\ applicants'[a].status \in Accepting => applicants'[a].number # None
         /\ applicants'[a].number # None => issued'[applicants'[a].number] = a
         /\ applicants'[a].enrolled = applicants[a].enrolled
         /\ applicants'[a].program = applicants[a].program
         /\ issued' \in [Numbers -> Applicants \cup {None}]
         /\ \A m \in Numbers : issued[m] # None => issued'[m] = issued[m]
         /\ Goto(w, a, "status_changed", None)
         /\ UNCHANGED <<selections, log, students>>
<1>1. PICK n \in Numbers \cup {None} :
         /\ UpdateStatus(a, status, n)
         /\ status \in Accepting => n # None
         /\ n # None => issued[n] = None /\ issued' = [issued EXCEPT ![n] = a]
         /\ n = None => issued' = issued
  BY NullIsNoValue DEF UpdateAdminApplicationStatus
<1> DEFINE r == [applicants[a] EXCEPT !.status = status,
                                      !.number = IF n = None THEN @ ELSE n]
<1>2. a \in Existing /\ applicants[a] \in Applicant
  BY DEF UpdateAdminApplicationStatus, TypeOK
<1>3. /\ r \in Applicant /\ r.status = status /\ r.enrolled = applicants[a].enrolled
      /\ r.program = applicants[a].program
      /\ r.number = IF n = None THEN applicants[a].number ELSE n
  BY <1>2 DEF Applicant
<1>4. applicants' = [applicants EXCEPT ![a] = r]
  BY <1>1, <1>2 DEF UpdateStatus, Applicant
<1> HIDE DEF r
<1>5. OnlyRow(a) /\ applicants'[a] = r
  BY <1>2, <1>3, <1>4 DEF OnlyRow, TypeOK, Existing
<1>6. /\ issued' \in [Numbers -> Applicants \cup {None}]
      /\ \A m \in Numbers : issued[m] # None => issued'[m] = issued[m]
      /\ n # None => issued'[n] = a
  BY <1>1, NullIsNoValue DEF TypeOK
<1>7. n = None => r.number = applicants[a].number /\ issued' = issued
  BY <1>1, <1>3
<1>8. r.number # None => issued'[r.number] = a
  BY <1>2, <1>3, <1>6, <1>7 DEF ApplicantNumber
<1>9. r.status \in Accepting => r.number # None
  BY <1>1, <1>2, <1>3
<1> QED
  BY <1>3, <1>5, <1>6, <1>8, <1>9 DEF UpdateAdminApplicationStatus

\* The conversion goes on only with the number of an accepted applicant.
LEMMA ReadEffect ==
  ASSUME TypeOK, ApplicantNumber, NEW w \in Workers, ReadApplicant(w)
  PROVE  /\ pc[w] = "convert" /\ applicant[w] \in Existing
         /\ \/ Goto(w, None, "idle", None)
            \/ \E r \in Student : /\ issued[r.number] = applicant[w]
                                  /\ Goto(w, applicant[w], "upsertStudent", r)
         /\ UNCHANGED <<applicants, selections, log, students, issued>>
<1> DEFINE a == applicants[applicant[w]]
           r == [number |-> a.number, program |-> a.program]
<1>1. applicant[w] \in Existing /\ a \in Applicant
  BY DEF ReadApplicant, TypeOK, InFlight
<1>2. CASE a.status \in Accepting
  <2>1. a.number # None /\ issued[a.number] = applicant[w]
    BY <1>1, <1>2 DEF ApplicantNumber
  <2>2. r \in Student /\ r.number = a.number
    BY <1>1, <2>1 DEF Applicant, Student
  <2>3. Goto(w, applicant[w], "upsertStudent", r)
    BY <1>2 DEF ReadApplicant
  <2> QED
    BY <1>1, <2>1, <2>2, <2>3 DEF ReadApplicant, admissionsDb
<1>3. CASE a.status \notin Accepting
  BY <1>1, <1>3 DEF ReadApplicant, Answer, admissionsDb
<1> QED
  BY <1>2, <1>3

\* Rows and requests keep their types.
LEMMA TypeKept ==
  ASSUME TypeOK, ApplicantNumber, InHand, [Next]_vars
  PROVE  TypeOK'
<1> USE NullIsNoValue DEF Existing, InFlight, Events, Values
<1>1. ASSUME NEW a \in Applicants, CreateApplicantProfile(a)
      PROVE  TypeOK'
  BY <1>1 DEF CreateApplicantProfile, Put, TypeOK, Applicant
<1>2. ASSUME NEW w \in Workers, NEW a \in Applicants, SubmitApplication(w, a)
      PROVE  TypeOK'
  <2>1. /\ OnlyRow(a)
        /\ Goto(w, a, "application_submitted", None)
        /\ UNCHANGED <<selections, log, students, issued>>
    BY <1>2, SubmitEffect
  <2> QED
    BY <2>1 DEF OnlyRow, Goto, TypeOK
<1>3. ASSUME NEW w \in Workers, NEW a \in Applicants, Convert(w, a)
      PROVE  TypeOK'
  BY <1>3 DEF Convert, Goto, admissionsDb, TypeOK
<1>4. ASSUME NEW w \in Workers, NEW a \in Applicants, NEW p \in Programs \cup {None},
             SaveProgramSelection(w, a, p)
      PROVE  TypeOK'
  BY <1>4 DEF SaveProgramSelection, Goto, Answer, Put, TypeOK
<1>5. ASSUME NEW w \in Workers, NEW a \in Applicants, NEW status \in Decisions,
             UpdateAdminApplicationStatus(w, a, status)
      PROVE  TypeOK'
  <2>1. /\ OnlyRow(a) /\ issued' \in [Numbers -> Applicants \cup {None}]
        /\ Goto(w, a, "status_changed", None)
        /\ UNCHANGED <<selections, log, students>>
    BY <1>5, DecisionEffect
  <2> QED
    BY <2>1 DEF OnlyRow, Goto, TypeOK
<1>6. ASSUME NEW w \in Workers, SetProgram(w)
      PROVE  TypeOK'
  BY <1>6, SetProgramEffect DEF Goto, OnlyRow, TypeOK
<1>7. ASSUME NEW w \in Workers, RecordAdmissionAudit(w)
      PROVE  TypeOK'
  BY <1>7 DEF RecordAdmissionAudit, Goto, Answer, TypeOK
<1>8. ASSUME NEW w \in Workers, ReadApplicant(w)
      PROVE  TypeOK'
  BY <1>8, ReadEffect DEF Goto, TypeOK
<1>9. ASSUME NEW w \in Workers, UpsertStudent(w)
      PROVE  TypeOK'
  BY <1>9 DEF UpsertStudent, Goto, Put, admissionsDb, TypeOK, InHand
<1>10. ASSUME NEW w \in Workers, MarkEnrolled(w)
       PROVE  TypeOK'
  <2>1. /\ OnlyRow(applicant[w])
        /\ Goto(w, applicant[w], Converted, None)
        /\ UNCHANGED <<selections, log, students, issued>>
    BY <1>10, MarkEffect
  <2> QED
    BY <2>1 DEF OnlyRow, Goto, TypeOK, Converted
<1>11. ASSUME NEW w \in Workers, Fail(w)
       PROVE  TypeOK'
  BY <1>11 DEF Fail, Goto, Answer, admissionsDb, TypeOK
<1>12. CASE UNCHANGED vars
  BY <1>12 DEF vars, TypeOK
<1> QED
  BY <1>1, <1>2, <1>3, <1>4, <1>5, <1>6, <1>7, <1>8, <1>9, <1>10, <1>11, <1>12
     DEF Next, Serve

\* An acceptance gives its applicant a number, and no step takes it away.
LEMMA NumberKept ==
  ASSUME TypeOK, ApplicantNumber, InHand, [Next]_vars
  PROVE  ApplicantNumber'
<1> USE NullIsNoValue DEF Existing, InFlight, Events
<1>1. ASSUME NEW a \in Applicants, CreateApplicantProfile(a)
      PROVE  ApplicantNumber'
  BY <1>1 DEF CreateApplicantProfile, Put, TypeOK, ApplicantNumber, Accepting
<1>2. ASSUME NEW w \in Workers, NEW a \in Applicants, SubmitApplication(w, a)
      PROVE  ApplicantNumber'
  <2>1. /\ OnlyRow(a) /\ UNCHANGED issued
        /\ applicants'[a].status = "Under Review"
        /\ applicants'[a].number = applicants[a].number
    BY <1>2, SubmitEffect
  <2>2. ASSUME NEW b \in Existing'
        PROVE  /\ applicants'[b].status \in Accepting => applicants'[b].number # None
               /\ applicants'[b].number # None => issued'[applicants'[b].number] = b
    <3>1. CASE b = a
      BY <2>1, <3>1 DEF OnlyRow, ApplicantNumber, Accepting
    <3>2. CASE b # a
      BY <2>1, <3>2 DEF OnlyRow, ApplicantNumber
    <3> QED
      BY <3>1, <3>2
  <2> QED
    BY <2>2 DEF ApplicantNumber
<1>3. ASSUME NEW w \in Workers, NEW a \in Applicants, Convert(w, a)
      PROVE  ApplicantNumber'
  BY <1>3 DEF Convert, Goto, admissionsDb, TypeOK, ApplicantNumber
<1>4. ASSUME NEW w \in Workers, NEW a \in Applicants, NEW p \in Programs \cup {None},
             SaveProgramSelection(w, a, p)
      PROVE  ApplicantNumber'
  BY <1>4 DEF SaveProgramSelection, Goto, Answer, Put, TypeOK, ApplicantNumber
<1>5. ASSUME NEW w \in Workers, NEW a \in Applicants, NEW status \in Decisions,
             UpdateAdminApplicationStatus(w, a, status)
      PROVE  ApplicantNumber'
  <2>1. /\ OnlyRow(a)
        /\ applicants'[a].status \in Accepting => applicants'[a].number # None
        /\ applicants'[a].number # None => issued'[applicants'[a].number] = a
        /\ \A m \in Numbers : issued[m] # None => issued'[m] = issued[m]
    BY <1>5, DecisionEffect
  <2>2. ASSUME NEW b \in Existing'
        PROVE  /\ applicants'[b].status \in Accepting => applicants'[b].number # None
               /\ applicants'[b].number # None => issued'[applicants'[b].number] = b
    <3>1. CASE b = a
      BY <2>1, <3>1 DEF OnlyRow, ApplicantNumber, Accepting
    <3>2. CASE b # a
      <4>1. b \in Existing /\ applicants'[b] = applicants[b]
        BY <2>1, <3>2 DEF OnlyRow
      <4>2. applicants[b].number \in Numbers \cup {None} /\ b # None
        BY <4>1 DEF TypeOK, Applicant
      <4> QED
        BY <2>1, <4>1, <4>2 DEF ApplicantNumber
    <3> QED
      BY <3>1, <3>2
  <2> QED
    BY <2>2 DEF ApplicantNumber
<1>6. ASSUME NEW w \in Workers, SetProgram(w)
      PROVE  ApplicantNumber'
  BY <1>6, SetProgramEffect DEF OnlyRow, TypeOK, ApplicantNumber
<1>7. ASSUME NEW w \in Workers, RecordAdmissionAudit(w)
      PROVE  ApplicantNumber'
  BY <1>7 DEF RecordAdmissionAudit, Goto, Answer, TypeOK, ApplicantNumber
<1>8. ASSUME NEW w \in Workers, ReadApplicant(w)
      PROVE  ApplicantNumber'
  BY <1>8, ReadEffect DEF TypeOK, ApplicantNumber
<1>9. ASSUME NEW w \in Workers, UpsertStudent(w)
      PROVE  ApplicantNumber'
  BY <1>9 DEF UpsertStudent, Goto, Put, admissionsDb, TypeOK, ApplicantNumber
<1>10. ASSUME NEW w \in Workers, MarkEnrolled(w)
       PROVE  ApplicantNumber'
  BY <1>10, MarkEffect DEF OnlyRow, TypeOK, ApplicantNumber
<1>11. ASSUME NEW w \in Workers, Fail(w)
       PROVE  ApplicantNumber'
  BY <1>11 DEF Fail, Goto, Answer, admissionsDb, TypeOK, ApplicantNumber
<1>12. CASE UNCHANGED vars
  BY <1>12 DEF vars, TypeOK, ApplicantNumber
<1> QED
  BY <1>1, <1>2, <1>3, <1>4, <1>5, <1>6, <1>7, <1>8, <1>9, <1>10, <1>11, <1>12
     DEF Next, Serve

\* What a request has in hand keeps its worth while others write.
LEMMA HandsKept ==
  ASSUME TypeOK, ApplicantNumber, InHand, [Next]_vars
  PROVE  InHand'
<1> USE NullIsNoValue DEF Existing, InFlight, Events, Values
<1>1. ASSUME NEW a \in Applicants, CreateApplicantProfile(a)
      PROVE  InHand'
  BY <1>1 DEF CreateApplicantProfile, Put, TypeOK, InHand, Converted
<1>2. ASSUME NEW w \in Workers, NEW a \in Applicants, SubmitApplication(w, a)
      PROVE  InHand'
  <2>1. /\ pc[w] = "idle" /\ OnlyRow(a)
        /\ Goto(w, a, "application_submitted", None)
        /\ UNCHANGED <<selections, log, students, issued>>
    BY <1>2, SubmitEffect
  <2> QED
    BY <2>1 DEF OnlyRow, Goto, TypeOK, InHand, Converted
<1>3. ASSUME NEW w \in Workers, NEW a \in Applicants, Convert(w, a)
      PROVE  InHand'
  BY <1>3 DEF Convert, Goto, admissionsDb, TypeOK, InHand, Converted
<1>4. ASSUME NEW w \in Workers, NEW a \in Applicants, NEW p \in Programs \cup {None},
             SaveProgramSelection(w, a, p)
      PROVE  InHand'
  BY <1>4 DEF SaveProgramSelection, Goto, Answer, Put, TypeOK, InHand, Converted
<1>5. ASSUME NEW w \in Workers, NEW a \in Applicants, NEW status \in Decisions,
             UpdateAdminApplicationStatus(w, a, status)
      PROVE  InHand'
  BY <1>5, DecisionEffect DEF Goto, OnlyRow, TypeOK, InHand, Converted, Student
<1>6. ASSUME NEW w \in Workers, SetProgram(w)
      PROVE  InHand'
  BY <1>6, SetProgramEffect DEF Goto, OnlyRow, TypeOK, InHand, Converted
<1>7. ASSUME NEW w \in Workers, RecordAdmissionAudit(w)
      PROVE  InHand'
  BY <1>7 DEF RecordAdmissionAudit, Goto, Answer, TypeOK, InHand, Converted
<1>8. ASSUME NEW w \in Workers, ReadApplicant(w)
      PROVE  InHand'
  BY <1>8, ReadEffect DEF Goto, TypeOK, InHand, Converted
<1>9. ASSUME NEW w \in Workers, UpsertStudent(w)
      PROVE  InHand'
  BY <1>9 DEF UpsertStudent, Goto, Put, admissionsDb, TypeOK, InHand, Converted, Student
<1>10. ASSUME NEW w \in Workers, MarkEnrolled(w)
       PROVE  InHand'
  BY <1>10, MarkEffect DEF Goto, OnlyRow, TypeOK, InHand, Converted
<1>11. ASSUME NEW w \in Workers, Fail(w)
       PROVE  InHand'
  BY <1>11 DEF Fail, Goto, Answer, admissionsDb, TypeOK, InHand, Converted
<1>12. CASE UNCHANGED vars
  BY <1>12 DEF vars, TypeOK, InHand, Converted
<1> QED
  BY <1>1, <1>2, <1>3, <1>4, <1>5, <1>6, <1>7, <1>8, <1>9, <1>10, <1>11, <1>12
     DEF Next, Serve

\* Nobody becomes enrolled without an account, and no account goes away.
LEMMA AccountsKept ==
  ASSUME TypeOK, ApplicantNumber, InHand, EnrolledHasAccount, [Next]_vars
  PROVE  EnrolledHasAccount'
<1> USE NullIsNoValue DEF Existing, InFlight, Events
<1>1. ASSUME NEW a \in Applicants, CreateApplicantProfile(a)
      PROVE  EnrolledHasAccount'
  BY <1>1 DEF CreateApplicantProfile, Put, TypeOK, EnrolledHasAccount
<1>2. ASSUME NEW w \in Workers, NEW a \in Applicants, SubmitApplication(w, a)
      PROVE  EnrolledHasAccount'
  BY <1>2, SubmitEffect DEF OnlyRow, TypeOK, EnrolledHasAccount
<1>3. ASSUME NEW w \in Workers, NEW a \in Applicants, Convert(w, a)
      PROVE  EnrolledHasAccount'
  BY <1>3 DEF Convert, Goto, admissionsDb, TypeOK, EnrolledHasAccount
<1>4. ASSUME NEW w \in Workers, NEW a \in Applicants, NEW p \in Programs \cup {None},
             SaveProgramSelection(w, a, p)
      PROVE  EnrolledHasAccount'
  BY <1>4 DEF SaveProgramSelection, Goto, Answer, Put, TypeOK, EnrolledHasAccount
<1>5. ASSUME NEW w \in Workers, NEW a \in Applicants, NEW status \in Decisions,
             UpdateAdminApplicationStatus(w, a, status)
      PROVE  EnrolledHasAccount'
  BY <1>5, DecisionEffect DEF OnlyRow, TypeOK, EnrolledHasAccount
<1>6. ASSUME NEW w \in Workers, SetProgram(w)
      PROVE  EnrolledHasAccount'
  BY <1>6, SetProgramEffect DEF OnlyRow, TypeOK, EnrolledHasAccount
<1>7. ASSUME NEW w \in Workers, RecordAdmissionAudit(w)
      PROVE  EnrolledHasAccount'
  BY <1>7 DEF RecordAdmissionAudit, Goto, Answer, TypeOK, EnrolledHasAccount
<1>8. ASSUME NEW w \in Workers, ReadApplicant(w)
      PROVE  EnrolledHasAccount'
  BY <1>8, ReadEffect DEF TypeOK, EnrolledHasAccount
<1>9. ASSUME NEW w \in Workers, UpsertStudent(w)
      PROVE  EnrolledHasAccount'
  BY <1>9 DEF UpsertStudent, Goto, Put, admissionsDb, TypeOK, EnrolledHasAccount
<1>10. ASSUME NEW w \in Workers, MarkEnrolled(w)
       PROVE  EnrolledHasAccount'
  BY <1>10, MarkEffect DEF OnlyRow, TypeOK, EnrolledHasAccount, InHand
<1>11. ASSUME NEW w \in Workers, Fail(w)
       PROVE  EnrolledHasAccount'
  BY <1>11 DEF Fail, Goto, Answer, admissionsDb, TypeOK, EnrolledHasAccount
<1>12. CASE UNCHANGED vars
  BY <1>12 DEF vars, TypeOK, EnrolledHasAccount
<1> QED
  BY <1>1, <1>2, <1>3, <1>4, <1>5, <1>6, <1>7, <1>8, <1>9, <1>10, <1>11, <1>12
     DEF Next, Serve

\* The number of an account stays the applicant's own.
LEMMA StudentNumbersKept ==
  ASSUME TypeOK, ApplicantNumber, InHand, NumberOfAcceptance, [Next]_vars
  PROVE  NumberOfAcceptance'
<1> USE NullIsNoValue DEF Existing, InFlight, Events
<1>1. ASSUME NEW a \in Applicants, CreateApplicantProfile(a)
      PROVE  NumberOfAcceptance'
  BY <1>1 DEF CreateApplicantProfile, Put, TypeOK, NumberOfAcceptance
<1>2. ASSUME NEW w \in Workers, NEW a \in Applicants, SubmitApplication(w, a)
      PROVE  NumberOfAcceptance'
  BY <1>2, SubmitEffect DEF OnlyRow, TypeOK, NumberOfAcceptance
<1>3. ASSUME NEW w \in Workers, NEW a \in Applicants, Convert(w, a)
      PROVE  NumberOfAcceptance'
  BY <1>3 DEF Convert, Goto, admissionsDb, TypeOK, NumberOfAcceptance
<1>4. ASSUME NEW w \in Workers, NEW a \in Applicants, NEW p \in Programs \cup {None},
             SaveProgramSelection(w, a, p)
      PROVE  NumberOfAcceptance'
  BY <1>4 DEF SaveProgramSelection, Goto, Answer, Put, TypeOK, NumberOfAcceptance
<1>5. ASSUME NEW w \in Workers, NEW a \in Applicants, NEW status \in Decisions,
             UpdateAdminApplicationStatus(w, a, status)
      PROVE  NumberOfAcceptance'
  BY <1>5, DecisionEffect DEF OnlyRow, TypeOK, NumberOfAcceptance, Student
<1>6. ASSUME NEW w \in Workers, SetProgram(w)
      PROVE  NumberOfAcceptance'
  BY <1>6, SetProgramEffect DEF OnlyRow, TypeOK, NumberOfAcceptance
<1>7. ASSUME NEW w \in Workers, RecordAdmissionAudit(w)
      PROVE  NumberOfAcceptance'
  BY <1>7 DEF RecordAdmissionAudit, Goto, Answer, TypeOK, NumberOfAcceptance
<1>8. ASSUME NEW w \in Workers, ReadApplicant(w)
      PROVE  NumberOfAcceptance'
  BY <1>8, ReadEffect DEF TypeOK, NumberOfAcceptance
<1>9. ASSUME NEW w \in Workers, UpsertStudent(w)
      PROVE  NumberOfAcceptance'
  BY <1>9 DEF UpsertStudent, Goto, Put, admissionsDb, TypeOK, NumberOfAcceptance, InHand
<1>10. ASSUME NEW w \in Workers, MarkEnrolled(w)
       PROVE  NumberOfAcceptance'
  BY <1>10, MarkEffect DEF OnlyRow, TypeOK, NumberOfAcceptance
<1>11. ASSUME NEW w \in Workers, Fail(w)
       PROVE  NumberOfAcceptance'
  BY <1>11 DEF Fail, Goto, Answer, admissionsDb, TypeOK, NumberOfAcceptance
<1>12. CASE UNCHANGED vars
  BY <1>12 DEF vars, TypeOK, NumberOfAcceptance
<1> QED
  BY <1>1, <1>2, <1>3, <1>4, <1>5, <1>6, <1>7, <1>8, <1>9, <1>10, <1>11, <1>12
     DEF Next, Serve

\* The log entry comes after both writes.
LEMMA LogKept ==
  ASSUME TypeOK, ApplicantNumber, InHand, LogNeverAhead, [Next]_vars
  PROVE  LogNeverAhead'
<1> USE NullIsNoValue DEF Existing, InFlight, Events
<1>1. ASSUME NEW a \in Applicants, CreateApplicantProfile(a)
      PROVE  LogNeverAhead'
  BY <1>1 DEF CreateApplicantProfile, Put, TypeOK, LogNeverAhead
<1>2. ASSUME NEW w \in Workers, NEW a \in Applicants, SubmitApplication(w, a)
      PROVE  LogNeverAhead'
  <2>1. /\ OnlyRow(a) /\ applicants'[a].enrolled = applicants[a].enrolled
        /\ UNCHANGED <<selections, log, students, issued>>
    BY <1>2, SubmitEffect
  <2> QED
    BY <2>1 DEF OnlyRow, TypeOK, LogNeverAhead
<1>3. ASSUME NEW w \in Workers, NEW a \in Applicants, Convert(w, a)
      PROVE  LogNeverAhead'
  BY <1>3 DEF Convert, Goto, admissionsDb, TypeOK, LogNeverAhead
<1>4. ASSUME NEW w \in Workers, NEW a \in Applicants, NEW p \in Programs \cup {None},
             SaveProgramSelection(w, a, p)
      PROVE  LogNeverAhead'
  BY <1>4 DEF SaveProgramSelection, Goto, Answer, Put, TypeOK, LogNeverAhead
<1>5. ASSUME NEW w \in Workers, NEW a \in Applicants, NEW status \in Decisions,
             UpdateAdminApplicationStatus(w, a, status)
      PROVE  LogNeverAhead'
  BY <1>5, DecisionEffect DEF OnlyRow, TypeOK, LogNeverAhead
<1>6. ASSUME NEW w \in Workers, SetProgram(w)
      PROVE  LogNeverAhead'
  BY <1>6, SetProgramEffect DEF OnlyRow, TypeOK, LogNeverAhead
<1>7. ASSUME NEW w \in Workers, RecordAdmissionAudit(w)
      PROVE  LogNeverAhead'
  BY <1>7 DEF RecordAdmissionAudit, Goto, Answer, TypeOK, LogNeverAhead, InHand, Converted
<1>8. ASSUME NEW w \in Workers, ReadApplicant(w)
      PROVE  LogNeverAhead'
  BY <1>8, ReadEffect DEF TypeOK, LogNeverAhead
<1>9. ASSUME NEW w \in Workers, UpsertStudent(w)
      PROVE  LogNeverAhead'
  BY <1>9 DEF UpsertStudent, Goto, Put, admissionsDb, TypeOK, LogNeverAhead
<1>10. ASSUME NEW w \in Workers, MarkEnrolled(w)
       PROVE  LogNeverAhead'
  BY <1>10, MarkEffect DEF OnlyRow, TypeOK, LogNeverAhead
<1>11. ASSUME NEW w \in Workers, Fail(w)
       PROVE  LogNeverAhead'
  BY <1>11 DEF Fail, Goto, Answer, admissionsDb, TypeOK, LogNeverAhead
<1>12. CASE UNCHANGED vars
  BY <1>12 DEF vars, TypeOK, LogNeverAhead
<1> QED
  BY <1>1, <1>2, <1>3, <1>4, <1>5, <1>6, <1>7, <1>8, <1>9, <1>10, <1>11, <1>12
     DEF Next, Serve

\* A selection never changes, so its program is the applicant's for good.
LEMMA ProgramsKept ==
  ASSUME TypeOK, ApplicantNumber, InHand, ProgramMatchesSelection, [Next]_vars
  PROVE  ProgramMatchesSelection'
<1> USE NullIsNoValue DEF Existing, InFlight, Events
<1>1. ASSUME NEW a \in Applicants, CreateApplicantProfile(a)
      PROVE  ProgramMatchesSelection'
  BY <1>1 DEF CreateApplicantProfile, Put, TypeOK, ProgramMatchesSelection
<1>2. ASSUME NEW w \in Workers, NEW a \in Applicants, SubmitApplication(w, a)
      PROVE  ProgramMatchesSelection'
  <2>1. /\ OnlyRow(a) /\ applicants'[a].program = applicants[a].program
        /\ UNCHANGED <<selections, log, students, issued>>
    BY <1>2, SubmitEffect
  <2> QED
    BY <2>1 DEF OnlyRow, TypeOK, ProgramMatchesSelection
<1>3. ASSUME NEW w \in Workers, NEW a \in Applicants, Convert(w, a)
      PROVE  ProgramMatchesSelection'
  BY <1>3 DEF Convert, Goto, admissionsDb, TypeOK, ProgramMatchesSelection
<1>4. ASSUME NEW w \in Workers, NEW a \in Applicants, NEW p \in Programs \cup {None},
             SaveProgramSelection(w, a, p)
      PROVE  ProgramMatchesSelection'
  BY <1>4 DEF SaveProgramSelection, Goto, Answer, Put, TypeOK, ProgramMatchesSelection
<1>5. ASSUME NEW w \in Workers, NEW a \in Applicants, NEW status \in Decisions,
             UpdateAdminApplicationStatus(w, a, status)
      PROVE  ProgramMatchesSelection'
  BY <1>5, DecisionEffect DEF OnlyRow, TypeOK, ProgramMatchesSelection
<1>6. ASSUME NEW w \in Workers, SetProgram(w)
      PROVE  ProgramMatchesSelection'
  BY <1>6, SetProgramEffect DEF OnlyRow, TypeOK, ProgramMatchesSelection, InHand
<1>7. ASSUME NEW w \in Workers, RecordAdmissionAudit(w)
      PROVE  ProgramMatchesSelection'
  BY <1>7 DEF RecordAdmissionAudit, Goto, Answer, TypeOK, ProgramMatchesSelection
<1>8. ASSUME NEW w \in Workers, ReadApplicant(w)
      PROVE  ProgramMatchesSelection'
  BY <1>8, ReadEffect DEF TypeOK, ProgramMatchesSelection
<1>9. ASSUME NEW w \in Workers, UpsertStudent(w)
      PROVE  ProgramMatchesSelection'
  BY <1>9 DEF UpsertStudent, Goto, Put, admissionsDb, TypeOK, ProgramMatchesSelection
<1>10. ASSUME NEW w \in Workers, MarkEnrolled(w)
       PROVE  ProgramMatchesSelection'
  BY <1>10, MarkEffect DEF OnlyRow, TypeOK, ProgramMatchesSelection
<1>11. ASSUME NEW w \in Workers, Fail(w)
       PROVE  ProgramMatchesSelection'
  BY <1>11 DEF Fail, Goto, Answer, admissionsDb, TypeOK, ProgramMatchesSelection
<1>12. CASE UNCHANGED vars
  BY <1>12 DEF vars, TypeOK, ProgramMatchesSelection
<1> QED
  BY <1>1, <1>2, <1>3, <1>4, <1>5, <1>6, <1>7, <1>8, <1>9, <1>10, <1>11, <1>12
     DEF Next, Serve

-----------------------------------------------------------------------------

\* The conversion of an applicant keeps both databases and the log in step,
\* through every step of every other request.
THEOREM ConversionInvariant == Spec => []IInv
<1>1. Init => IInv
  BY NullIsNoValue
     DEF Init, IInv, TypeOK, ApplicantNumber, InHand, EnrolledHasAccount, NumberOfAcceptance,
         LogNeverAhead, ProgramMatchesSelection, Existing, InFlight, Events, Values, Converted
<1>2. IInv /\ [Next]_vars => IInv'
  BY TypeKept, NumberKept, HandsKept, AccountsKept, StudentNumbersKept, LogKept,
     ProgramsKept DEF IInv
<1> QED
  BY <1>1, <1>2, PTL DEF Spec

\* The rows and the requests in flight keep their types.
THEOREM TypeCorrect == Spec => []TypeOK
<1>1. IInv => TypeOK
  BY DEF IInv
<1> QED
  BY <1>1, ConversionInvariant, PTL

\* An enrolled applicant has an account in the other database, whatever failed
\* between the two writes.
THEOREM EnrolledHaveAccounts == Spec => []EnrolledHasAccount
<1>1. IInv => EnrolledHasAccount
  BY DEF IInv
<1> QED
  BY <1>1, ConversionInvariant, PTL

\* A student number was made for the applicant who has it, so no two students
\* share one.
THEOREM NumbersAreTheirOwn ==
  Spec => [](/\ NumberOfAcceptance
             /\ \A a, b \in DOMAIN students :
                   students[a].number = students[b].number => a = b)
<1>1. IInv => /\ NumberOfAcceptance
              /\ \A a, b \in DOMAIN students :
                    students[a].number = students[b].number => a = b
  BY DEF IInv, NumberOfAcceptance
<1> QED
  BY <1>1, ConversionInvariant, PTL

\* The program of an applicant is the one of its selection, however many
\* selections are in flight.
THEOREM ProgramsAgree == Spec => []ProgramMatchesSelection
<1>1. IInv => ProgramMatchesSelection
  BY DEF IInv
<1> QED
  BY <1>1, ConversionInvariant, PTL

\* The activity log tells of a conversion only when both databases have it.
THEOREM LogTellsTheTruth == Spec => []LogNeverAhead
<1>1. IInv => LogNeverAhead
  BY DEF IInv
<1> QED
  BY <1>1, ConversionInvariant, PTL

-----------------------------------------------------------------------------

\* Nobody decides on an applicant, and the applicant submits nothing, between the
\* read and the insert of its conversion.
Undisturbed ==
    \A w \in Workers : pc[w] = "upsertStudent" =>
        applicants'[applicant[w]].status = applicants[applicant[w]].status

\* What a conversion has read of the status still holds.
StillAccepted ==
    \A w \in Workers : pc[w] = "upsertStudent" => applicants[applicant[w]].status \in Accepting

\* A request gets to the insert of a conversion only by reading an accepted
\* applicant; at the insert it is the same applicant.
LEMMA InsertFollowsRead ==
  ASSUME TypeOK, [Next]_vars, NEW v \in Workers, pc'[v] = "upsertStudent"
  PROVE  \/ pc[v] = "upsertStudent" /\ applicant'[v] = applicant[v]
         \/ applicants' = applicants /\ applicants[applicant'[v]].status \in Accepting
<1> USE DEF Goto, Answer, TypeOK
<1> DEFINE Steps == {"idle", "setProgram", "convert", "application_submitted", "status_changed"}
<1>1. CASE \E a \in Applicants : CreateApplicantProfile(a)
  BY <1>1 DEF CreateApplicantProfile
<1>2. ASSUME NEW w \in Workers, NEW a \in Applicants,
             \/ SubmitApplication(w, a) \/ Convert(w, a)
             \/ \E p \in Programs \cup {None} : SaveProgramSelection(w, a, p)
             \/ \E status \in Decisions : UpdateAdminApplicationStatus(w, a, status)
      PROVE  pc[v] = "upsertStudent" /\ applicant'[v] = applicant[v]
  <2>1. \E u \in {None} \cup Applicants, step \in Steps, r \in Programs \cup {None} :
           Goto(w, u, step, r)
    BY <1>2 DEF SubmitApplication, Convert, SaveProgramSelection, UpdateAdminApplicationStatus
  <2> QED
    BY <2>1
<1>3. ASSUME NEW w \in Workers, ReadApplicant(w)
      PROVE  \/ pc[v] = "upsertStudent" /\ applicant'[v] = applicant[v]
             \/ applicants' = applicants /\ applicants[applicant'[v]].status \in Accepting
  BY <1>3 DEF ReadApplicant, admissionsDb
<1>4. ASSUME NEW w \in Workers,
             \/ SetProgram(w) \/ RecordAdmissionAudit(w) \/ UpsertStudent(w)
             \/ MarkEnrolled(w) \/ Fail(w)
      PROVE  pc[v] = "upsertStudent" /\ applicant'[v] = applicant[v]
  BY <1>4 DEF SetProgram, RecordAdmissionAudit, UpsertStudent, MarkEnrolled, Fail
<1>5. CASE UNCHANGED vars
  BY <1>5 DEF vars
<1> QED
  BY <1>1, <1>2, <1>3, <1>4, <1>5 DEF Next, Serve

\* An account is inserted only by a conversion at its insert.
LEMMA AccountsByConversion ==
  ASSUME [Next]_vars, NEW a, a \notin DOMAIN students, a \in DOMAIN students'
  PROVE  \E w \in Workers : pc[w] = "upsertStudent" /\ applicant[w] = a
<1>1. students' # students
  OBVIOUS
<1>2. PICK w \in Workers : UpsertStudent(w)
  BY <1>1 DEF Next, Serve, vars, admissionsDb, CreateApplicantProfile, SubmitApplication,
     Convert, SaveProgramSelection, UpdateAdminApplicationStatus, SetProgram,
     RecordAdmissionAudit, ReadApplicant, MarkEnrolled, Fail
<1> QED
  BY <1>2 DEF UpsertStudent, Put

\* If nothing is decided or submitted about an applicant between the read and
\* the insert of its conversion, only accepted applicants are converted: that
\* overlap is the only way to the conversion of another.
THEOREM OnlyOverlapsConvertOthers == Spec /\ [][Undisturbed]_vars => OnlyAcceptedConverted
<1>1. Init => StillAccepted
  BY DEF Init, StillAccepted
<1>2. TypeOK /\ StillAccepted /\ [Next]_vars /\ [Undisturbed]_vars => StillAccepted'
  <2> SUFFICES ASSUME TypeOK, StillAccepted, [Next]_vars, [Undisturbed]_vars,
                      NEW v \in Workers, pc'[v] = "upsertStudent"
               PROVE  applicants'[applicant'[v]].status \in Accepting
    BY DEF StillAccepted
  <2>1. CASE pc[v] = "upsertStudent" /\ applicant'[v] = applicant[v]
    BY <2>1 DEF StillAccepted, Undisturbed, vars
  <2>2. CASE applicants' = applicants /\ applicants[applicant'[v]].status \in Accepting
    BY <2>2
  <2> QED
    BY <2>1, <2>2, InsertFollowsRead
<1>3. StillAccepted /\ [Next]_vars =>
        [\A a \in Existing : a \notin DOMAIN students /\ a \in DOMAIN students' =>
            applicants[a].status \in Accepting]_vars
  BY AccountsByConversion DEF StillAccepted
<1> QED
  BY <1>1, <1>2, <1>3, TypeCorrect, PTL DEF Spec, OnlyAcceptedConverted

\* With one request in flight at a time only accepted applicants are converted,
\* as the service says, which two requests violate.
COROLLARY SerialConversionsAreOfAccepted ==
  ASSUME NEW worker, Workers = {worker}
  PROVE  Spec => OnlyAcceptedConverted
<1>1. TypeOK /\ [Next]_vars => [Undisturbed]_vars
  <2> SUFFICES ASSUME TypeOK, [Next]_vars, NEW v \in Workers, pc[v] = "upsertStudent"
               PROVE  applicants'[applicant[v]].status = applicants[applicant[v]].status
    BY DEF Undisturbed
  <2>1. applicant[v] \in Existing /\ v = worker
    BY DEF TypeOK, InFlight
  <2>2. CASE \E a \in Applicants : CreateApplicantProfile(a)
    BY <2>1, <2>2 DEF CreateApplicantProfile, Put, Existing
  <2>3. CASE applicants' = applicants
    BY <2>3
  <2> QED
    BY <2>1, <2>2, <2>3 DEF Next, Serve, vars, admissionsDb, SubmitApplication, Convert,
       SaveProgramSelection, UpdateAdminApplicationStatus, SetProgram, RecordAdmissionAudit,
       ReadApplicant, UpsertStudent, MarkEnrolled, Fail, Events
<1> QED
  BY <1>1, TypeCorrect, OnlyOverlapsConvertOthers, PTL DEF Spec
=============================================================================
