----------------------------- MODULE Enrollment -----------------------------
(***************************************************************************)
(* Student enrollment over the academics Postgres database.  A request     *)
(* (POST /enrollment/submit) is validated by three queries and written by  *)
(* one insert per selected class.  No transaction and no lock spans these  *)
(* statements, so every await is a point where other requests run, the     *)
(* connection fails or the process stops.                                  *)
(***************************************************************************)
EXTENDS Naturals, Sequences, FiniteSets, Schedule

CONSTANTS
    Students,
    Classes,
    Workers,        \* requests that can be in flight at the same time
    MaxStudents,    \* max_students of each class assignment
    Schedules,      \* schedule of each class assignment
    MaxSelection    \* bound: the longest list of classes a request selects

ASSUME StudentsFinite == IsFiniteSet(Students)
ASSUME WorkersFinite == IsFiniteSet(Workers)
ASSUME MaxStudentsType == MaxStudents \in [Classes -> Nat]
ASSUME MaxSelectionType == MaxSelection \in Nat
ASSUME SchedulesType ==
    \A c \in Classes : Schedules[c].start \in Nat /\ Schedules[c].end \in Nat

VARIABLES
    enrolled,   \* academic_class_enrollments: <<student, class>> rows
    pc,         \* where each request stands
    student,    \* input.studentId
    classIds,   \* input.classAssignmentIds
    next,       \* position of the insert loop in classIds
    inserted    \* insertedRows: what the request will report

vars == <<enrolled, pc, student, classIds, next, inserted>>

InFlight == {"checkExisting", "loadClasses", "countSeats", "insert", "publish"}
Answered == {"ok", "refused", "failed"}

\* The lists a client can send, empty and repetitive ones included.
Selections == UNION {[1 .. n -> Classes] : n \in 0 .. MaxSelection}

TypeOK ==
    /\ enrolled \subseteq Students \X Classes
    /\ pc \in [Workers -> {"idle"} \cup InFlight \cup Answered]
    /\ student \in [Workers -> Students]
    /\ classIds \in [Workers -> Seq(Classes)]
    /\ next \in [Workers -> Nat \ {0}]
    /\ inserted \in [Workers -> SUBSET Classes]

\* The sets of classes that a request cannot select together.
Conflicting == {S \in SUBSET Classes : hasScheduleConflict(Schedules, S)}

Selected(w) == {classIds[w][i] : i \in 1 .. Len(classIds[w])}

Holders(c) == {s \in Students : <<s, c>> \in enrolled}

\* Two positions of the list name the same class.
HasDuplicates(ids) == \E i, j \in 1 .. Len(ids) : i # j /\ ids[i] = ids[j]

Init ==
    /\ enrolled = {}
    /\ pc = [w \in Workers |-> "idle"]
    /\ student \in [Workers -> Students]
    /\ classIds = [w \in Workers |-> <<>>]
    /\ next = [w \in Workers |-> 1]
    /\ inserted = [w \in Workers |-> {}]

\* The handler goes on with its next statement.
GoTo(w, step) ==
    /\ pc' = [pc EXCEPT ![w] = step]
    /\ UNCHANGED <<classIds, next, inserted>>

\* The handler throws: "refused" is a BadRequestException, "failed" any other
\* error or no answer at all.  Its local variables are gone.
Throw(w, answer) ==
    /\ pc' = [pc EXCEPT ![w] = answer]
    /\ classIds' = [classIds EXCEPT ![w] = <<>>]
    /\ next' = [next EXCEPT ![w] = 1]
    /\ inserted' = [inserted EXCEPT ![w] = {}]

\* Mutation: the loop index starts at 0 for a list that is counted from 1.
SubmitFromZero(w, s, ids) ==
    /\ pc[w] \in {"idle"} \cup Answered
    /\ student' = [student EXCEPT ![w] = s]
    /\ pc' = [pc EXCEPT ![w] = "checkExisting"]
    /\ classIds' = [classIds EXCEPT ![w] = ids]
    /\ next' = [next EXCEPT ![w] = 0]
    /\ inserted' = [inserted EXCEPT ![w] = {}]
    /\ UNCHANGED enrolled

\* A request arrives.  The empty list and repeated classes are refused before
\* any query is sent.
Submit(w, s, ids) ==
    /\ pc[w] \in {"idle"} \cup Answered
    /\ student' = [student EXCEPT ![w] = s]
    /\ IF ids = <<>> \/ HasDuplicates(ids)
       THEN Throw(w, "refused")
       ELSE /\ pc' = [pc EXCEPT ![w] = "checkExisting"]
            /\ classIds' = [classIds EXCEPT ![w] = ids]
            /\ next' = [next EXCEPT ![w] = 1]
            /\ inserted' = [inserted EXCEPT ![w] = {}]
    /\ UNCHANGED enrolled

\* First query: the student already holds one of the classes.
CheckExisting(w) ==
    /\ pc[w] = "checkExisting"
    /\ IF \E c \in Selected(w) : <<student[w], c>> \in enrolled
       THEN Throw(w, "refused")
       ELSE GoTo(w, "loadClasses")
    /\ UNCHANGED <<enrolled, student>>

\* Second query: every class is still open, and no two of them meet at the
\* same time.  Classes are opened and closed (is_active) outside this code, so
\* the query may find any set of them open.  The classes the student already
\* holds are not looked at.
LoadClasses(w) ==
    /\ pc[w] = "loadClasses"
    /\ \E open \in SUBSET Classes :
          IF Selected(w) \subseteq open /\ Selected(w) \notin Conflicting
          THEN GoTo(w, "countSeats")
          ELSE Throw(w, "refused")
    /\ UNCHANGED <<enrolled, student>>

\* Mutation: the seat check lets the class that is exactly full pass.
IsFullOffByOne(c) == Cardinality(Holders(c)) > MaxStudents[c]

\* A class is full: the test of the offerings page and of the seat check.
IsFull(c) == Cardinality(Holders(c)) >= MaxStudents[c]

\* Third query: one count per class, all at the same instant.
CountSeats(w) ==
    /\ pc[w] = "countSeats"
    /\ IF \E c \in Selected(w) : IsFull(c)
       THEN Throw(w, "refused")
       ELSE GoTo(w, "insert")
    /\ UNCHANGED <<enrolled, student>>

\* The row of class c is written and the loop goes to its next turn, with
\* the row added to insertedRows or not.
WriteRow(w, c, report) ==
    /\ enrolled' = enrolled \cup {<<student[w], c>>}
    /\ inserted' = [inserted EXCEPT ![w] = @ \cup report]
    /\ next' = [next EXCEPT ![w] = @ + 1]
    /\ pc' = [pc EXCEPT ![w] = IF next[w] = Len(classIds[w]) THEN "publish" ELSE "insert"]
    /\ UNCHANGED <<student, classIds>>

\* Mutation: insert ... on conflict do update returning: the row of the other
\* request is reported as this one's.
InsertNextUpserting(w) ==
    LET c == classIds[w][next[w]]
    IN  pc[w] = "insert" /\ WriteRow(w, c, {c})

\* Mutation: insert ... on conflict do nothing: the loop skips the row.
InsertNextSkipping(w) ==
    LET c == classIds[w][next[w]]
    IN  pc[w] = "insert" /\ WriteRow(w, c, IF <<student[w], c>> \in enrolled THEN {} ELSE {c})

\* Mutation: the row that violates the unique constraint is tried again.
InsertNextRetrying(w) ==
    LET c == classIds[w][next[w]]
    IN  pc[w] = "insert" /\ <<student[w], c>> \notin enrolled /\ WriteRow(w, c, {c})

\* One turn of the insert loop.  The table is unique on institution, student
\* and class: when another request has written the row the insert fails, the
\* request fails with it, and the rows of its earlier turns stay.
InsertNext(w) ==
    LET c == classIds[w][next[w]] IN
    /\ pc[w] = "insert"
    /\ \/ <<student[w], c>> \notin enrolled /\ WriteRow(w, c, {c})
       \/ /\ <<student[w], c>> \in enrolled
          /\ Throw(w, "failed")
          /\ UNCHANGED <<enrolled, student>>

\* The database commits the row and the answer is lost, with the connection or
\* with the process: the request fails although its row is there.
InsertReplyLost(w) ==
    LET c == classIds[w][next[w]] IN
    /\ pc[w] = "insert"
    /\ <<student[w], c>> \notin enrolled
    /\ enrolled' = enrolled \cup {<<student[w], c>>}
    /\ Throw(w, "failed")
    /\ UNCHANGED student

\* The rows are written; what is left is the enrollment.submitted event, which
\* tells the class list and the count.  tryPublishDomainEvent answers whether or
\* not the event was delivered, and the request succeeds either way.
Publish(w) ==
    /\ pc[w] = "publish"
    /\ GoTo(w, "ok")
    /\ UNCHANGED <<enrolled, student>>

\* A query fails, or the process stops between two statements.
Fail(w) ==
    /\ pc[w] \in InFlight
    /\ Throw(w, "failed")
    /\ UNCHANGED <<enrolled, student>>

\* What the server does for a request that it accepted.
Serve(w) ==
    \/ CheckExisting(w)
    \/ LoadClasses(w)
    \/ CountSeats(w)
    \/ InsertNext(w)
    \/ Publish(w)

Next ==
    \/ \E w \in Workers, s \in Students, ids \in Selections : Submit(w, s, ids)
    \/ \E w \in Workers : Serve(w)
    \/ \E w \in Workers : InsertReplyLost(w)
    \/ \E w \in Workers : Fail(w)

Spec == Init /\ [][Next]_vars

\* The event loop resumes a handler whose query has been answered.
FairSpec == Spec /\ \A w \in Workers : WF_vars(Serve(w))

-----------------------------------------------------------------------------

\* The seats a class can give out: between the count and the insert of one
\* request, every other request in flight may have passed the same check.  A
\* class with no seats (the column's default) never passes it.
SeatLimit ==
    [c \in Classes |-> IF MaxStudents[c] = 0 THEN 0
                       ELSE MaxStudents[c] + (Cardinality(Workers) - 1)]

Book == INSTANCE SeatBook WITH seats <- enrolled, Limit <- SeatLimit

\* submitEnrollment oversells a class by at most the requests that were in
\* flight beside the one that took the last seat, and never a class without
\* seats; requests served one at a time never oversell.
SeatsBounded == \A c \in Classes : Cardinality(Holders(c)) <= SeatLimit[c]

\* What "One or more classes are full" promises: no class holds more students
\* than max_students.
CapacityRespected == \A c \in Classes : Cardinality(Holders(c)) <= MaxStudents[c]

\* The requests together behave like the seat book: a student gets a seat in a
\* class once, keeps it, and gets it only below the limit.
SeatBookImplemented == Book!Spec

\* A request that answers success wrote, itself, a row for every class of its
\* list, although others wrote and failed in between; so does the event that is
\* published before the answer.
SuccessIsComplete ==
    \A w \in Workers : pc[w] \in {"publish", "ok"} =>
        /\ inserted[w] = Selected(w)
        /\ \A c \in Selected(w) : <<student[w], c>> \in enrolled

\* Two requests never both report the same seat, so a repeated or concurrent
\* submit is told apart from the one that enrolled the student.
SeatReportedOnce ==
    \A v, w \in Workers :
        v # w /\ student[v] = student[w] => inserted[v] \cap inserted[w] = {}

Clashing == {p \in Classes \X Classes : Clash(Schedules[p[1]], Schedules[p[2]])}

\* The classes written by one request never meet at the same minute.
NoClashInRequest ==
    \A w \in Workers : \A c, d \in inserted[w] : c # d => <<c, d>> \notin Clashing

\* Every submitted request is answered, or fails, however others interleave.
EveryRequestAnswered ==
    \A w \in Workers : pc[w] \in InFlight ~> pc[w] \in Answered
=============================================================================
