------------------------------ MODULE Registrar ------------------------------
(***************************************************************************)
(* The enrollment operations that run over Supabase: a submission that is  *)
(* validated by three reads and written by one insert of all its rows, and *)
(* the confirmation (service "registrar"); the add-drop and irregular      *)
(* requests with the registrar's approval (service "petitions").  The      *)
(* submission over PostgreSQL is module Enrollment.                        *)
(***************************************************************************)
EXTENDS Requests, Schedule

CONSTANTS
    Pupils,         \* student accounts
    Capacity,       \* max_students of each class assignment
    Timetable,      \* schedule of each class assignment
    MaxSubmissions, \* bound: submissions that are inserted
    MaxMisreads,    \* bound: failures of a read that let a submission pass
    MaxPetitions    \* bound: enrollment requests that are filed

ASSUME RegistrarBounds == {MaxSubmissions, MaxMisreads, MaxPetitions} \subseteq Nat
ASSUME CapacityType == Capacity \in [DOMAIN Capacity -> Nat]
ASSUME TimetableType ==
    \A c \in DOMAIN Capacity : Timetable[c].start \in Nat /\ Timetable[c].end \in Nat

Sections == DOMAIN Capacity

\* The lists of classes that can be selected together.
Selectable == {classes \in (SUBSET Sections) \ {{}} : ~hasScheduleConflict(Timetable, classes)}

\* Pairs of classes with a minute in common.
Clashing == {p \in Sections \X Sections : p[1] # p[2] /\ Clash(Timetable[p[1]], Timetable[p[2]])}

RegistrarTables == [
    seats |-> {},       \* class_enrollments: [batch, student, class, status]
    submissions |-> 0,  \* submissions inserted: the last one's batch
    misread |-> [held |-> 0, counts |-> 0], \* reads whose failure let a submission pass
    petitions |-> <<>>, \* enrollment_requests: their statuses, by id
    submitted |-> {},   \* enrollment.submitted events: [batch, student, classes]
    trail |-> {}]       \* enrollment_audit_events: [action, request]

SeatsOf(student, class) ==
    {row \in db.seats : row.student = student /\ row.class = class /\ row.status = "enrolled"}

\* Rows that the seat count of a class sees: confirmed rows are not among them.
countMap(class) == UNION {SeatsOf(student, class) : student \in Pupils}

\* POST /enrollment/submit: the list has no duplicates.  The read of the class
\* assignments, which the service never changes, refuses a list that names a
\* class that is not there and one whose schedules conflict.
SubmitSelection(w) == \E student \in Pupils, classes \in Selectable :
    /\ Take("registrar", w, <<"loadHeld", "loadCounts", "insertSeats", "publishSeats">>,
           [batch |-> None, student |-> student, classes |-> classes])
    /\ UNCHANGED db

\* What a read has to show for the submission to go on.  Its error is not
\* looked at: a read that fails has found nothing, and lets pass what it
\* should have refused.
Passes(w, read, allowed) ==
    /\ Proceed(w)
    /\ \/ allowed /\ UNCHANGED db
       \/ /\ ~allowed /\ db.misread.held + db.misread.counts < MaxMisreads
          /\ db' = [db EXCEPT !.misread[read] = @ + 1]

LoadHeld(w) ==
    /\ At(w, "loadHeld")
    /\ Passes(w, "held", \A class \in arg[w].classes : SeatsOf(arg[w].student, class) = {})

\* Mutation: a class counts as full only when it is beyond its capacity.
LoadCountsOffByOne(w) ==
    /\ At(w, "loadCounts")
    /\ Passes(w, "counts", \A class \in arg[w].classes : Cardinality(countMap(class)) <= Capacity[class])

LoadCounts(w) ==
    /\ At(w, "loadCounts")
    /\ Passes(w, "counts", \A class \in arg[w].classes : Cardinality(countMap(class)) < Capacity[class])

\* Mutation: only the first row of the list is inserted.
InsertSeatsFirstOnly(w) ==
    /\ At(w, "insertSeats")
    /\ db.submissions < MaxSubmissions
    /\ LET batch == db.submissions + 1
           class == CHOOSE c \in arg[w].classes : TRUE
       IN  /\ db' = [db EXCEPT !.submissions = batch, !.seats = @ \cup
                  {[batch |-> batch, student |-> arg[w].student, class |-> class, status |-> "enrolled"]}]
           /\ ProceedWith(w, [arg[w] EXCEPT !.batch = batch])

\* One insert of all the rows: all of them or none.
InsertSeats(w) ==
    /\ At(w, "insertSeats")
    /\ db.submissions < MaxSubmissions
    /\ LET batch == db.submissions + 1
       IN  /\ db' = [db EXCEPT !.submissions = batch, !.seats = @ \cup
                  {[batch |-> batch, student |-> arg[w].student, class |-> class, status |-> "enrolled"] :
                      class \in arg[w].classes}]
           /\ ProceedWith(w, [arg[w] EXCEPT !.batch = batch])

\* tryPublishDomainEvent: its error is only logged.
PublishSeats(w) ==
    /\ At(w, "publishSeats")
    /\ Proceed(w)
    /\ db' \in {db, [db EXCEPT !.submitted = @ \cup {arg[w]}]}

\* addDrop and requestIrregularApproval file a request; nothing is looked up.
FilePetition(w) == \E status \in {"pending_registrar_review", "pending_adviser_review"} :
    /\ Take("petitions", w, <<"seatAudit">>, [action |-> "requested", request |-> Len(db.petitions) + 1])
    /\ Len(db.petitions) < MaxPetitions
    /\ db' = [db EXCEPT !.petitions = Append(@, status)]

\* approveByRegistrar, of a request in any status, again if need be.
approveByRegistrar(w) == service = "petitions" /\ \E request \in 1 .. Len(db.petitions) :
    /\ Take("petitions", w, <<"seatAudit">>, [action |-> "approved", request |-> request])
    /\ db' = [db EXCEPT !.petitions[request] = "approved"]

\* confirm: the rows among those named that are the student's, whatever
\* their status; when none is, the confirmation is audited all the same.  A
\* database whose column does not allow the status refuses the update, and
\* the request fails.
confirm(w) == service = "registrar" /\ \E student \in Pupils, ids \in SUBSET (1 .. MaxSubmissions) :
    LET rows == {row \in db.seats : row.student = student /\ row.batch \in ids}
    IN  /\ Take("registrar", w, <<"seatAudit">>, [action |-> "confirmed", request |-> 0])
        /\ db' = [db EXCEPT !.seats = (@ \ rows) \cup {[row EXCEPT !.status = "confirmed"] : row \in rows}]

\* writeAuditEvent looks at no error.
writeAuditEvent(w) ==
    /\ At(w, "seatAudit")
    /\ Proceed(w)
    /\ db' \in {db, [db EXCEPT !.trail = @ \cup {arg[w]}]}

RegistrarInit ==
    \E s \in {"registrar", "petitions"} : Start(s, {}, RegistrarTables)

RegistrarNext == \E w \in Workers :
    \/ SubmitSelection(w) \/ LoadHeld(w) \/ LoadCounts(w)
    \/ InsertSeats(w) \/ PublishSeats(w)
    \/ FilePetition(w) \/ approveByRegistrar(w) \/ confirm(w) \/ writeAuditEvent(w)
    \/ service \in {"registrar", "petitions"} /\ Fail(w)

-----------------------------------------------------------------------------
(* What the pages read *)

\* getStatus: the rows that are enrolled; getHistory has the others too.
getStatus(student) == UNION {SeatsOf(student, class) : class \in Sections}
getHistory(student) == {row \in db.seats : row.student = student}

RegistrarTablesOK ==
    /\ \A row \in db.seats : row.class \in Sections /\ row.status \in {"enrolled", "confirmed"}
    /\ \A i \in 1 .. Len(db.petitions) : db.petitions[i] \in
          {"pending_registrar_review", "pending_adviser_review", "approved"}
    /\ \A a \in db.trail : a.action = "approved" => db.petitions[a.request] = "approved"

\* However requests overlap, a class is oversold by at most the other requests
\* in flight, and a student enrolled in one class by at most one row per
\* request, and by one more for each failed read that was taken for an empty
\* one.  Confirmed rows leave the count: only what is still enrolled is
\* bounded.
OversellBound == service = "registrar" =>
    \A class \in Sections :
        /\ Cardinality(countMap(class)) <= Capacity[class] + Cardinality(Workers) - 1 + db.misread.counts
        /\ \A student \in Pupils :
              Cardinality(SeatsOf(student, class)) <= Cardinality(Workers) + db.misread.held

\* A submission that is announced is there as a whole and fits together: its
\* rows, in the student's history, are exactly the selected classes, which do
\* not meet at the same time.
SubmittedIsWhole == service = "registrar" => \A e \in db.submitted :
    /\ {row.class : row \in {row \in getHistory(e.student) : row.batch = e.batch}} = e.classes
    /\ (e.classes \X e.classes) \cap Clashing = {}
=============================================================================
