-------------------------- MODULE EnrollmentProofs --------------------------
(***************************************************************************)
(* Proofs about Enrollment, for every set of students, classes, schedules  *)
(* and limits and every number of requests in flight.  The seat bound is   *)
(* not inductive by itself: the requests that have passed the seat check   *)
(* and not yet written their row hold a claim on the class, and it is the  *)
(* sum of rows and claims that the check keeps below the limit.            *)
(***************************************************************************)
EXTENDS Enrollment, ScheduleProofs, FiniteSetTheorems, SequenceTheorems, TLAPS

\* The requests that will still insert a row for class c.
Claims(c) ==
    {w \in Workers : /\ pc[w] = "insert"
                     /\ \E i \in next[w] .. Len(classIds[w]) : classIds[w][i] = c}

\* Where the insert loop stands in each phase.
LoopInv ==
    \A w \in Workers :
        /\ ~HasDuplicates(classIds[w])
        /\ pc[w] \in {"checkExisting", "loadClasses", "countSeats"} =>
               next[w] = 1 /\ classIds[w] # <<>>
        /\ pc[w] = "insert" => next[w] <= Len(classIds[w])

\* Rows and claims together stay within the limit.
SeatAccount ==
    \A c \in Classes :
        Cardinality(Holders(c)) + Cardinality(Claims(c)) <= SeatLimit[c]

BaseInv == TypeOK /\ LoopInv

\* What insertedRows of a request holds at each turn of the loop.
ReportOf(w) ==
    /\ inserted[w] = {classIds[w][i] : i \in 1 .. (next[w] - 1)}
    /\ \A c \in inserted[w] : <<student[w], c>> \in enrolled
    /\ pc[w] \in {"publish", "ok"} => next[w] = Len(classIds[w]) + 1
    /\ pc[w] \notin {"insert", "publish", "ok"} => next[w] = 1

ReportInv == (\A w \in Workers : ReportOf(w)) /\ SeatReportedOnce

-----------------------------------------------------------------------------

\* Every list a client can send is a sequence of classes.
LEMMA SelectionsAreLists == Selections \subseteq Seq(Classes)
<1> SUFFICES ASSUME NEW n \in 0 .. MaxSelection, NEW ids \in [1 .. n -> Classes]
             PROVE  ids \in Seq(Classes)
  BY DEF Selections
<1>1. n \in Nat
  BY MaxSelectionType
<1> QED
  BY <1>1, SeqDef

\* The phases of every handler keep their types and the insert loop stays on
\* its list, through every step of submitEnrollment.
THEOREM BaseInvariant == Spec => []BaseInv
<1>1. Init => BaseInv
  BY DEF Init, BaseInv, TypeOK, LoopInv, HasDuplicates, InFlight, Answered
<1>2. BaseInv /\ [Next]_vars => BaseInv'
  <2> SUFFICES ASSUME TypeOK, LoopInv, [Next]_vars
               PROVE  TypeOK' /\ LoopInv'
    BY DEF BaseInv
  <2> USE DEF TypeOK, LoopInv, InFlight, Answered
  <2>0. /\ ~HasDuplicates(<<>>)
        /\ \A w \in Workers : classIds[w] # <<>> => 1 <= Len(classIds[w])
    BY EmptySeq, LenProperties DEF HasDuplicates
  <2>1. ASSUME NEW w \in Workers, NEW answer \in {"refused", "failed"}, Throw(w, answer),
               enrolled' \subseteq Students \X Classes,
               student' \in [Workers -> Students]
        PROVE  TypeOK' /\ LoopInv'
    BY <2>0, <2>1 DEF Throw
  <2>2. ASSUME NEW w \in Workers, UNCHANGED <<enrolled, student>>,
               \/ pc[w] = "checkExisting" /\ GoTo(w, "loadClasses")
               \/ pc[w] = "loadClasses" /\ GoTo(w, "countSeats")
               \/ pc[w] = "countSeats" /\ GoTo(w, "insert")
               \/ pc[w] = "publish" /\ GoTo(w, "ok")
        PROVE  TypeOK' /\ LoopInv'
    <3>1. TypeOK'
      BY <2>2 DEF GoTo
    <3>2. LoopInv'
      BY <2>0, <2>2 DEF GoTo
    <3> QED
      BY <3>1, <3>2
  <2>3. ASSUME NEW w \in Workers, NEW s \in Students, NEW ids \in Selections,
               Submit(w, s, ids)
        PROVE  TypeOK' /\ LoopInv'
    <3>1. ids \in Seq(Classes)
      BY SelectionsAreLists
    <3>2. /\ student' \in [Workers -> Students]
          /\ enrolled' \subseteq Students \X Classes
      BY <2>3 DEF Submit
    <3>3. CASE ids = <<>> \/ HasDuplicates(ids)
      BY <2>1, <2>3, <3>2, <3>3 DEF Submit
    <3>4. CASE ~(ids = <<>> \/ HasDuplicates(ids))
      <4>1. /\ pc' = [pc EXCEPT ![w] = "checkExisting"]
            /\ classIds' = [classIds EXCEPT ![w] = ids]
            /\ next' = [next EXCEPT ![w] = 1]
            /\ inserted' = [inserted EXCEPT ![w] = {}]
        BY <2>3, <3>4 DEF Submit
      <4>2. TypeOK'
        BY <3>1, <3>2, <4>1
      <4>3. LoopInv'
        <5> SUFFICES ASSUME NEW v \in Workers
                     PROVE  /\ ~HasDuplicates(classIds'[v])
                            /\ pc'[v] \in {"checkExisting", "loadClasses", "countSeats"} =>
                                  next'[v] = 1 /\ classIds'[v] # <<>>
                            /\ pc'[v] = "insert" => next'[v] <= Len(classIds'[v])
          BY DEF HasDuplicates
        <5>1. CASE v = w
          BY <3>4, <4>1, <5>1
        <5>2. CASE v # w
          BY <4>1, <5>2
        <5> QED
          BY <5>1, <5>2
      <4> QED
        BY <4>2, <4>3
    <3> QED
      BY <3>3, <3>4
  <2>4. ASSUME NEW w \in Workers, CheckExisting(w)
        PROVE  TypeOK' /\ LoopInv'
    BY <2>1, <2>2, <2>4 DEF CheckExisting
  <2>5. ASSUME NEW w \in Workers, LoadClasses(w)
        PROVE  TypeOK' /\ LoopInv'
    BY <2>1, <2>2, <2>5 DEF LoadClasses
  <2>6. ASSUME NEW w \in Workers, CountSeats(w)
        PROVE  TypeOK' /\ LoopInv'
    BY <2>1, <2>2, <2>6 DEF CountSeats
  <2>7. ASSUME NEW w \in Workers, pc[w] = "insert"
        PROVE  /\ next[w] \in 1 .. Len(classIds[w])
               /\ classIds[w][next[w]] \in Classes
    BY <2>7, LenProperties, ElementOfSeq
  <2>8. ASSUME NEW w \in Workers, InsertNext(w)
        PROVE  TypeOK' /\ LoopInv'
    <3> DEFINE c == classIds[w][next[w]]
    <3>1. pc[w] = "insert" /\ next[w] \in 1 .. Len(classIds[w]) /\ c \in Classes
      BY <2>7, <2>8 DEF InsertNext
    <3>2. CASE WriteRow(w, c, {c})
      <4>1. Len(classIds[w]) \in Nat
        BY LenProperties
      <4> QED
        BY <3>1, <3>2, <4>1 DEF WriteRow
    <3>3. CASE Throw(w, "failed") /\ UNCHANGED <<enrolled, student>>
      BY <2>1, <3>3
    <3> QED
      BY <2>8, <3>2, <3>3 DEF InsertNext
  <2>9. ASSUME NEW w \in Workers, InsertReplyLost(w)
        PROVE  TypeOK' /\ LoopInv'
    <3>1. pc[w] = "insert" /\ classIds[w][next[w]] \in Classes
      BY <2>7, <2>9 DEF InsertReplyLost
    <3>2. enrolled' \subseteq Students \X Classes
      BY <2>9, <3>1 DEF InsertReplyLost
    <3> QED
      BY <2>1, <2>9, <3>2 DEF InsertReplyLost
  <2>10. ASSUME NEW w \in Workers, Publish(w)
         PROVE  TypeOK' /\ LoopInv'
    BY <2>2, <2>10 DEF Publish
  <2>11. ASSUME NEW w \in Workers, Fail(w)
         PROVE  TypeOK' /\ LoopInv'
    BY <2>1, <2>11 DEF Fail
  <2>12. CASE UNCHANGED vars
    BY <2>12 DEF vars
  <2> QED
    BY <2>3, <2>4, <2>5, <2>6, <2>8, <2>9, <2>10, <2>11, <2>12 DEF Next, Serve
<1> QED
  BY <1>1, <1>2, PTL DEF Spec

\* Type correctness of the enrollment tables and handlers.
THEOREM TypeCorrect == Spec => []TypeOK
  BY BaseInvariant, PTL DEF BaseInv

-----------------------------------------------------------------------------

\* A part of a finite set has a cardinality, and a smaller one.
LEMMA PartIsCounted ==
    ASSUME NEW S, IsFiniteSet(S), NEW T \in SUBSET S
    PROVE  /\ IsFiniteSet(T)
           /\ Cardinality(T) \in Nat
           /\ Cardinality(S) \in Nat
           /\ Cardinality(T) <= Cardinality(S)
  BY FS_Subset, FS_CardinalityType

\* The rows and the claims of a class can be counted.
LEMMA RowsAndClaimsCounted ==
    ASSUME NEW c \in Classes
    PROVE  /\ IsFiniteSet(Holders(c)) /\ Cardinality(Holders(c)) \in Nat
           /\ IsFiniteSet(Claims(c)) /\ Cardinality(Claims(c)) \in Nat
           /\ Cardinality(Claims(c)) <= Cardinality(Workers)
           /\ Cardinality(Workers) \in Nat
<1>1. Holders(c) \in SUBSET Students /\ Claims(c) \in SUBSET Workers
  BY DEF Holders, Claims
<1> QED
  BY <1>1, PartIsCounted, StudentsFinite, WorkersFinite

\* A request that stops, or goes on without writing, gives up claims only.
LEMMA ClaimsShrink ==
    ASSUME BaseInv, NEW w \in Workers, NEW c \in Classes,
           pc' = [pc EXCEPT ![w] = pc'[w]],
           classIds' = [classIds EXCEPT ![w] = classIds'[w]],
           next' = [next EXCEPT ![w] = next'[w]],
           pc'[w] # "insert"
    PROVE  Claims(c)' \subseteq Claims(c) \ {w}
  BY DEF Claims, BaseInv, TypeOK

\* Steps that write no row and take no claim keep the account.
LEMMA AccountKept ==
    ASSUME NEW c \in Classes, enrolled' = enrolled, Claims(c)' \subseteq Claims(c),
           Cardinality(Holders(c)) + Cardinality(Claims(c)) <= SeatLimit[c],
           SeatLimit[c] \in Int
    PROVE  Cardinality(Holders(c)') + Cardinality(Claims(c)') <= SeatLimit[c]
<1>1. Holders(c)' = Holders(c)
  BY DEF Holders
<1>2. Cardinality(Claims(c)') \in Nat /\ Cardinality(Claims(c)') <= Cardinality(Claims(c))
  BY RowsAndClaimsCounted, PartIsCounted
<1> QED
  BY <1>1, <1>2, RowsAndClaimsCounted

\* A row written against a claim turns the claim into a held seat.
LEMMA RowTakesClaim ==
    ASSUME BaseInv, NEW w \in Workers, NEW c \in Classes, NEW d \in Classes,
           pc[w] = "insert", classIds[w][next[w]] = d,
           <<student[w], d>> \notin enrolled,
           enrolled' = enrolled \cup {<<student[w], d>>},
           Claims(c)' \subseteq IF c = d THEN Claims(c) \ {w} ELSE Claims(c),
           Cardinality(Holders(c)) + Cardinality(Claims(c)) <= SeatLimit[c],
           SeatLimit[c] \in Int
    PROVE  Cardinality(Holders(c)') + Cardinality(Claims(c)') <= SeatLimit[c]
<1>1. CASE c = d
  <2>1. w \in Claims(c)
    <3>1. next[w] \in next[w] .. Len(classIds[w])
      BY LenProperties DEF BaseInv, TypeOK, LoopInv
    <3> QED
      BY <1>1, <3>1 DEF Claims
  <2>2. /\ IsFiniteSet(Claims(c) \ {w})
        /\ Cardinality(Claims(c) \ {w}) = Cardinality(Claims(c)) - 1
    BY <2>1, FS_RemoveElement, RowsAndClaimsCounted
  <2>3. /\ Cardinality(Claims(c)') \in Nat
        /\ Cardinality(Claims(c)') <= Cardinality(Claims(c)) - 1
    BY <1>1, <2>2, PartIsCounted
  <2>4. student[w] \notin Holders(c) /\ Holders(c)' = Holders(c) \cup {student[w]}
    BY <1>1 DEF Holders, BaseInv, TypeOK
  <2>5. Cardinality(Holders(c)') = Cardinality(Holders(c)) + 1
    BY <2>4, FS_AddElement, RowsAndClaimsCounted
  <2> QED
    BY <2>3, <2>5, RowsAndClaimsCounted
<1>2. CASE c # d
  <2>1. Holders(c)' = Holders(c)
    BY <1>2 DEF Holders
  <2>2. Cardinality(Claims(c)') \in Nat /\ Cardinality(Claims(c)') <= Cardinality(Claims(c))
    BY <1>2, RowsAndClaimsCounted, PartIsCounted
  <2> QED
    BY <2>1, <2>2, RowsAndClaimsCounted
<1> QED
  BY <1>1, <1>2

\* The account of rows and claims is kept by every step.
THEOREM SeatAccounting == Spec => []SeatAccount
<1>1. \A c \in Classes :
          /\ SeatLimit[c] \in Nat
          /\ MaxStudents[c] # 0 => SeatLimit[c] = MaxStudents[c] + (Cardinality(Workers) - 1)
  BY WorkersFinite, FS_CardinalityType, MaxStudentsType DEF SeatLimit
<1>2. Init => SeatAccount
  <2> SUFFICES ASSUME Init, NEW c \in Classes
               PROVE  Cardinality(Holders(c)) + Cardinality(Claims(c)) <= SeatLimit[c]
    BY DEF SeatAccount
  <2>1. Holders(c) = {} /\ Claims(c) = {}
    BY DEF Init, Holders, Claims
  <2> QED
    BY <1>1, <2>1, FS_EmptySet
<1>3. BaseInv /\ SeatAccount /\ [Next]_vars => SeatAccount'
  <2> SUFFICES ASSUME BaseInv, SeatAccount, [Next]_vars, NEW c \in Classes
               PROVE  Cardinality(Holders(c)') + Cardinality(Claims(c)') <= SeatLimit[c]
    BY DEF SeatAccount, SeatLimit
  <2>0. /\ Cardinality(Holders(c)) + Cardinality(Claims(c)) <= SeatLimit[c]
        /\ SeatLimit[c] \in Int
    BY <1>1 DEF SeatAccount
  <2> DEFINE Goal == Cardinality(Holders(c)') + Cardinality(Claims(c)') <= SeatLimit[c]
  <2>1. ASSUME NEW w \in Workers, NEW answer \in {"refused", "failed"}, Throw(w, answer)
        PROVE  Claims(c)' \subseteq Claims(c) \ {w}
    BY <2>1, ClaimsShrink DEF Throw, BaseInv, TypeOK
  <2>2. ASSUME NEW w \in Workers, NEW step \in {"loadClasses", "countSeats", "ok"},
               GoTo(w, step)
        PROVE  Claims(c)' \subseteq Claims(c) \ {w}
    BY <2>2, ClaimsShrink DEF GoTo, BaseInv, TypeOK
  <2>3. ASSUME NEW w \in Workers, NEW s \in Students, NEW ids \in Selections,
               Submit(w, s, ids)
        PROVE  Goal
    <3>1. enrolled' = enrolled /\ Claims(c)' \subseteq Claims(c)
      BY <2>1, <2>3, ClaimsShrink DEF Submit, BaseInv, TypeOK
    <3> QED
      BY <2>0, <3>1, AccountKept
  <2>4. ASSUME NEW w \in Workers, CheckExisting(w)
        PROVE  Goal
    BY <2>0, <2>1, <2>2, <2>4, AccountKept DEF CheckExisting
  <2>5. ASSUME NEW w \in Workers, LoadClasses(w)
        PROVE  Goal
    BY <2>0, <2>1, <2>2, <2>5, AccountKept DEF LoadClasses
  <2>6. ASSUME NEW w \in Workers, CountSeats(w)
        PROVE  Goal
    <3>1. enrolled' = enrolled /\ Holders(c)' = Holders(c)
      BY <2>6 DEF CountSeats, Holders
    <3>2. CASE Throw(w, "refused")
      BY <2>0, <2>1, <3>1, <3>2, AccountKept
    <3>3. CASE ~(\E d \in Selected(w) : IsFull(d)) /\ GoTo(w, "insert")
      <4>1. CASE c \in Selected(w)
        <5>1. Cardinality(Holders(c)) < MaxStudents[c] /\ MaxStudents[c] \in Nat
          BY <3>3, <4>1, RowsAndClaimsCounted, MaxStudentsType DEF IsFull
        <5>2. SeatLimit[c] = MaxStudents[c] + (Cardinality(Workers) - 1)
          BY <1>1, <5>1, RowsAndClaimsCounted
        <5>3. Cardinality(Claims(c)') \in Nat /\ Cardinality(Claims(c)') <= Cardinality(Workers)
          BY PartIsCounted, WorkersFinite DEF Claims
        <5> QED
          BY <3>1, <5>1, <5>2, <5>3, RowsAndClaimsCounted
      <4>2. CASE c \notin Selected(w)
        <5>1. \A i \in 1 .. Len(classIds[w]) : classIds[w][i] # c
          BY <4>2 DEF Selected
        <5>2. /\ pc' = [pc EXCEPT ![w] = "insert"]
              /\ UNCHANGED <<classIds, next>>
              /\ next[w] \in Nat \ {0} /\ Len(classIds[w]) \in Nat
          BY <3>3, LenProperties DEF GoTo, BaseInv, TypeOK
        <5>3. Claims(c)' \subseteq Claims(c)
          BY <5>1, <5>2 DEF Claims, BaseInv, TypeOK
        <5> QED
          BY <2>0, <3>1, <5>3, AccountKept
      <4> QED
        BY <4>1, <4>2
    <3> QED
      BY <2>6, <3>2, <3>3 DEF CountSeats
  <2>7. ASSUME NEW w \in Workers, pc[w] = "insert"
        PROVE  classIds[w][next[w]] \in Classes
    BY <2>7, LenProperties, ElementOfSeq DEF BaseInv, TypeOK, LoopInv
  <2>8. ASSUME NEW w \in Workers, InsertNext(w)
        PROVE  Goal
    <3> DEFINE d == classIds[w][next[w]]
    <3>1. pc[w] = "insert" /\ d \in Classes
      BY <2>7, <2>8 DEF InsertNext
    <3>2. CASE <<student[w], d>> \notin enrolled /\ WriteRow(w, d, {d})
      <4>1. /\ enrolled' = enrolled \cup {<<student[w], d>>}
            /\ next' = [next EXCEPT ![w] = next[w] + 1]
            /\ classIds' = classIds
            /\ \A v \in Workers : v # w => pc'[v] = pc[v]
        BY <3>2 DEF WriteRow, BaseInv, TypeOK
      <4>2. Claims(c)' \subseteq Claims(c)
        BY <3>1, <4>1, LenProperties DEF Claims, BaseInv, TypeOK
      <4>3. c = d => w \notin Claims(c)'
        <5>1. \A i \in (next[w] + 1) .. Len(classIds[w]) : classIds[w][i] # d
          BY <3>1, LenProperties DEF BaseInv, TypeOK, LoopInv, HasDuplicates
        <5> QED
          BY <4>1, <5>1 DEF Claims, BaseInv, TypeOK
      <4> QED
        BY <2>0, <3>1, <3>2, <4>1, <4>2, <4>3, RowTakesClaim
    <3>3. CASE Throw(w, "failed") /\ enrolled' = enrolled
      BY <2>0, <2>1, <3>3, AccountKept
    <3> QED
      BY <2>8, <3>2, <3>3 DEF InsertNext
  <2>9. ASSUME NEW w \in Workers, InsertReplyLost(w)
        PROVE  Goal
    <3> DEFINE d == classIds[w][next[w]]
    <3>1. /\ pc[w] = "insert" /\ d \in Classes
          /\ <<student[w], d>> \notin enrolled
          /\ enrolled' = enrolled \cup {<<student[w], d>>}
          /\ Throw(w, "failed")
      BY <2>7, <2>9 DEF InsertReplyLost
    <3>2. Claims(c)' \subseteq Claims(c) \ {w}
      BY <2>1, <3>1
    <3> QED
      BY <2>0, <3>1, <3>2, RowTakesClaim
  <2>10. ASSUME NEW w \in Workers, Publish(w)
         PROVE  Goal
    BY <2>0, <2>2, <2>10, AccountKept DEF Publish
  <2>11. ASSUME NEW w \in Workers, Fail(w)
         PROVE  Goal
    BY <2>0, <2>1, <2>11, AccountKept DEF Fail
  <2>12. CASE UNCHANGED vars
    BY <2>0, <2>12, AccountKept DEF vars, Claims
  <2> QED
    BY <2>3, <2>4, <2>5, <2>6, <2>8, <2>9, <2>10, <2>11, <2>12 DEF Next, Serve
<1> QED
  BY <1>2, <1>3, BaseInvariant, PTL DEF Spec

\* submitEnrollment never gives out more seats of a class than its limit and
\* one for each other request in flight, and none of a class without seats.
THEOREM SeatsAreBounded == Spec => []SeatsBounded
<1>1. BaseInv /\ SeatAccount => SeatsBounded
  <2> SUFFICES ASSUME SeatAccount, NEW c \in Classes
               PROVE  Cardinality(Holders(c)) <= SeatLimit[c]
    BY DEF SeatsBounded
  <2>1. SeatLimit[c] \in Int
    BY WorkersFinite, FS_CardinalityType, MaxStudentsType DEF SeatLimit
  <2> QED
    BY <2>1, RowsAndClaimsCounted DEF SeatAccount
<1> QED
  BY <1>1, BaseInvariant, SeatAccounting, PTL

\* A row that is about to be written is a free seat of the book: the request
\* still holds its claim.
LEMMA RowTakesSeat ==
    ASSUME BaseInv, SeatAccount, NEW w \in Workers, pc[w] = "insert",
           NEW c \in Classes, c = classIds[w][next[w]],
           <<student[w], c>> \notin enrolled,
           enrolled' = enrolled \cup {<<student[w], c>>}
    PROVE  Book!Next
<1>1. w \in Claims(c)
  <2>1. next[w] \in next[w] .. Len(classIds[w])
    BY LenProperties DEF BaseInv, TypeOK, LoopInv
  <2> QED
    BY <2>1 DEF Claims
<1>2. Cardinality(Claims(c)) # 0
  <2>1. IsFiniteSet(Claims(c)) /\ Claims(c) # {}
    BY <1>1, RowsAndClaimsCounted
  <2> QED
    BY <2>1, FS_EmptySet
<1>3. SeatLimit[c] \in Int
  BY WorkersFinite, FS_CardinalityType, MaxStudentsType DEF SeatLimit
<1>4. Cardinality(Holders(c)) < SeatLimit[c]
  <2>1. Cardinality(Holders(c)) + Cardinality(Claims(c)) <= SeatLimit[c]
    BY DEF SeatAccount
  <2> QED
    BY <1>2, <1>3, <2>1, RowsAndClaimsCounted
<1>5. Book!Holders(c) = Holders(c)
  BY DEF Book!Holders, Holders
<1>6. student[w] \in Students
  BY DEF BaseInv, TypeOK
<1>7. Book!Take(student[w], c)
  BY <1>4, <1>5 DEF Book!Take, Book!Cardinality, Cardinality
<1> QED
  BY <1>6, <1>7 DEF Book!Next

\* However the requests interleave and fail, the table behaves like the seat
\* book: each step gives out one free seat or none.
THEOREM SeatBookRefined == Spec => SeatBookImplemented
<1>1. Init => Book!Init
  BY DEF Init, Book!Init
<1>2. BaseInv /\ SeatAccount /\ [Next]_vars => [Book!Next]_enrolled
  <2> SUFFICES ASSUME BaseInv, SeatAccount, [Next]_vars
               PROVE  Book!Next \/ UNCHANGED enrolled
    OBVIOUS
  <2>1. ASSUME NEW w \in Workers, pc[w] = "insert"
        PROVE  classIds[w][next[w]] \in Classes
    BY <2>1, LenProperties, ElementOfSeq DEF BaseInv, TypeOK, LoopInv
  <2>2. ASSUME NEW w \in Workers, NEW s \in Students, NEW ids \in Selections,
               Submit(w, s, ids)
        PROVE  UNCHANGED enrolled
    BY <2>2 DEF Submit
  <2>3. ASSUME NEW w \in Workers, CheckExisting(w) \/ LoadClasses(w) \/ CountSeats(w)
                                  \/ Publish(w) \/ Fail(w)
        PROVE  UNCHANGED enrolled
    BY <2>3 DEF CheckExisting, LoadClasses, CountSeats, Publish, Fail
  <2>4. ASSUME NEW w \in Workers, InsertNext(w)
        PROVE  Book!Next \/ UNCHANGED enrolled
    BY <2>1, <2>4, RowTakesSeat DEF InsertNext, WriteRow
  <2>5. ASSUME NEW w \in Workers, InsertReplyLost(w)
        PROVE  Book!Next
    BY <2>1, <2>5, RowTakesSeat DEF InsertReplyLost
  <2>6. CASE UNCHANGED vars
    BY <2>6 DEF vars
  <2> QED
    BY <2>2, <2>3, <2>4, <2>5, <2>6 DEF Next, Serve
<1> QED
  BY <1>1, <1>2, BaseInvariant, SeatAccounting, PTL DEF Spec, SeatBookImplemented, Book!Spec

\* With one request in flight at a time the seat check is exact.
COROLLARY SerialRequestsNeverOverbook ==
    ASSUME Cardinality(Workers) = 1
    PROVE  Spec => []CapacityRespected
<1>1. SeatsBounded => CapacityRespected
  BY MaxStudentsType DEF SeatsBounded, CapacityRespected, SeatLimit
<1> QED
  BY <1>1, SeatsAreBounded, PTL

-----------------------------------------------------------------------------

\* Only what request w knows changes, and no row goes away.
OnlyRequest(w) ==
    /\ enrolled \subseteq enrolled'
    /\ \A v \in Workers \ {w} :
          /\ pc'[v] = pc[v] /\ student'[v] = student[v] /\ classIds'[v] = classIds[v]
          /\ next'[v] = next[v] /\ inserted'[v] = inserted[v]

\* A step of one request keeps the reports of all others, and its own report may
\* only name, beside what it named, rows that nobody had.
LEMMA OthersReportsKept ==
    ASSUME ReportInv, NEW w \in Workers, OnlyRequest(w), ReportOf(w)',
           \A c \in inserted'[w] : \/ student'[w] = student[w] /\ c \in inserted[w]
                                   \/ <<student'[w], c>> \notin enrolled
    PROVE  ReportInv'
<1>1. ASSUME NEW v \in Workers, v # w
      PROVE  ReportOf(v)'
  BY <1>1 DEF OnlyRequest, ReportInv, ReportOf
<1>2. SeatReportedOnce'
  <2> SUFFICES ASSUME NEW u \in Workers, NEW v \in Workers, u # v,
                      student'[u] = student'[v], NEW c \in inserted'[u], c \in inserted'[v]
               PROVE  FALSE
    BY DEF SeatReportedOnce
  <2>1. CASE u # w /\ v # w
    BY <2>1 DEF OnlyRequest, ReportInv, SeatReportedOnce
  <2>2. ASSUME NEW x \in Workers \ {w}, student'[x] = student'[w],
               c \in inserted'[x], c \in inserted'[w]
        PROVE  FALSE
    <3>1. student'[x] = student[x] /\ c \in inserted[x]
      BY <2>2 DEF OnlyRequest
    <3>2. <<student[x], c>> \in enrolled
      BY <3>1 DEF ReportInv, ReportOf
    <3>3. student[x] = student[w] /\ c \in inserted[w]
      BY <2>2, <3>1, <3>2
    <3> QED
      BY <3>1, <3>3 DEF ReportInv, SeatReportedOnce
  <2> QED
    BY <2>1, <2>2
<1> QED
  BY <1>1, <1>2 DEF ReportInv

\* The rows that requests report are theirs alone, and they are in the table.
THEOREM ReportInvariant == Spec => []ReportInv
<1>1. Init => ReportInv
  BY DEF Init, ReportInv, ReportOf, SeatReportedOnce
<1>2. BaseInv /\ ReportInv /\ [Next]_vars => ReportInv'
  <2> SUFFICES ASSUME BaseInv, ReportInv, [Next]_vars
               PROVE  ReportInv'
    OBVIOUS
  <2> USE DEF BaseInv
  <2>1. ASSUME NEW w \in Workers, NEW answer \in {"refused", "failed"}, Throw(w, answer),
               enrolled \subseteq enrolled',
               \A v \in Workers \ {w} : student'[v] = student[v]
        PROVE  ReportInv'
    <3>1. /\ inserted'[w] = {} /\ next'[w] = 1 /\ pc'[w] = answer
          /\ OnlyRequest(w)
      BY <2>1 DEF Throw, TypeOK, OnlyRequest
    <3>2. ReportOf(w)'
      BY <3>1 DEF ReportOf
    <3> QED
      BY <3>1, <3>2, OthersReportsKept
  <2>2. ASSUME NEW w \in Workers, UNCHANGED <<enrolled, student>>,
               \/ pc[w] = "checkExisting" /\ GoTo(w, "loadClasses")
               \/ pc[w] = "loadClasses" /\ GoTo(w, "countSeats")
               \/ pc[w] = "countSeats" /\ GoTo(w, "insert")
               \/ pc[w] = "publish" /\ GoTo(w, "ok")
        PROVE  ReportInv'
    <3>1. OnlyRequest(w) /\ inserted' = inserted
      BY <2>2 DEF GoTo, TypeOK, OnlyRequest
    <3>2. ReportOf(w)'
      BY <2>2 DEF GoTo, TypeOK, ReportInv, ReportOf
    <3> QED
      BY <2>2, <3>1, <3>2, OthersReportsKept
  <2>3. ASSUME NEW w \in Workers, NEW s \in Students, NEW ids \in Selections,
               Submit(w, s, ids)
        PROVE  ReportInv'
    <3>1. CASE ids = <<>> \/ HasDuplicates(ids)
      BY <2>1, <2>3, <3>1 DEF Submit, TypeOK
    <3>2. CASE ~(ids = <<>> \/ HasDuplicates(ids))
      <4>1. /\ inserted'[w] = {} /\ next'[w] = 1 /\ pc'[w] = "checkExisting"
            /\ OnlyRequest(w)
        BY <2>3, <3>2 DEF Submit, TypeOK, OnlyRequest
      <4>2. ReportOf(w)'
        BY <4>1 DEF ReportOf
      <4> QED
        BY <4>1, <4>2, OthersReportsKept
    <3> QED
      BY <3>1, <3>2
  <2>4. ASSUME NEW w \in Workers, CheckExisting(w) \/ LoadClasses(w) \/ CountSeats(w)
                                  \/ Publish(w) \/ Fail(w)
        PROVE  ReportInv'
    BY <2>1, <2>2, <2>4 DEF CheckExisting, LoadClasses, CountSeats, Publish, Fail
  <2>5. ASSUME NEW w \in Workers, InsertNext(w)
        PROVE  ReportInv'
    <3> DEFINE c == classIds[w][next[w]]
    <3>1. CASE <<student[w], c>> \notin enrolled /\ WriteRow(w, c, {c})
      <4>1. next[w] \in Nat \ {0} /\ next[w] <= Len(classIds[w]) /\ Len(classIds[w]) \in Nat
        BY <2>5, LenProperties DEF InsertNext, TypeOK, LoopInv
      <4>2. /\ inserted'[w] = inserted[w] \cup {c} /\ next'[w] = next[w] + 1
            /\ classIds' = classIds /\ student' = student
            /\ enrolled' = enrolled \cup {<<student[w], c>>}
            /\ pc'[w] = IF next[w] = Len(classIds[w]) THEN "publish" ELSE "insert"
            /\ OnlyRequest(w)
        BY <3>1 DEF WriteRow, TypeOK, OnlyRequest
      <4>3. 1 .. (next'[w] - 1) = (1 .. (next[w] - 1)) \cup {next[w]}
        BY <4>1, <4>2
      <4>4. inserted'[w] = {classIds'[w][i] : i \in 1 .. (next'[w] - 1)}
        <5>1. inserted[w] = {classIds[w][i] : i \in 1 .. (next[w] - 1)}
          BY DEF ReportInv, ReportOf
        <5>2. {classIds[w][i] : i \in (1 .. (next[w] - 1)) \cup {next[w]}}
                = {classIds[w][i] : i \in 1 .. (next[w] - 1)} \cup {c}
          OBVIOUS
        <5> QED
          BY <4>2, <4>3, <5>1, <5>2
      <4>5. ReportOf(w)'
        BY <4>1, <4>2, <4>4 DEF ReportInv, ReportOf
      <4> QED
        BY <3>1, <4>2, <4>5, OthersReportsKept
    <3>2. CASE Throw(w, "failed") /\ UNCHANGED <<enrolled, student>>
      BY <2>1, <3>2
    <3> QED
      BY <2>5, <3>1, <3>2 DEF InsertNext
  <2>6. ASSUME NEW w \in Workers, InsertReplyLost(w)
        PROVE  ReportInv'
    BY <2>1, <2>6 DEF InsertReplyLost
  <2>7. CASE UNCHANGED vars
    BY <2>7 DEF vars, ReportInv, ReportOf, SeatReportedOnce
  <2> QED
    BY <2>3, <2>4, <2>5, <2>6, <2>7 DEF Next, Serve
<1> QED
  BY <1>1, <1>2, BaseInvariant, PTL DEF Spec

\* A request that answers success has written, itself, every class of its list.
THEOREM SuccessesAreComplete == Spec => []SuccessIsComplete
<1>1. BaseInv /\ ReportInv => SuccessIsComplete
  <2> SUFFICES ASSUME BaseInv, ReportInv, NEW w \in Workers, pc[w] \in {"publish", "ok"}
               PROVE  /\ inserted[w] = Selected(w)
                      /\ \A c \in Selected(w) : <<student[w], c>> \in enrolled
    BY DEF SuccessIsComplete
  <2>1. Len(classIds[w]) \in Nat
    BY LenProperties DEF BaseInv, TypeOK
  <2>2. next[w] - 1 = Len(classIds[w])
    BY <2>1 DEF ReportInv, ReportOf
  <2> QED
    BY <2>2 DEF ReportInv, ReportOf, Selected
<1> QED
  BY <1>1, BaseInvariant, ReportInvariant, PTL

\* No seat is reported by two requests.
THEOREM SeatsAreReportedOnce == Spec => []SeatReportedOnce
  BY ReportInvariant, PTL DEF ReportInv

-----------------------------------------------------------------------------

\* A request past the conflict test has a list that passed it.
TestedInv ==
    \A w \in Workers :
        pc[w] \in {"countSeats", "insert", "publish", "ok"} => Selected(w) \notin Conflicting

\* A request keeps its list until it answers, and the lists of others alone.
LEMMA TestedKept ==
  ASSUME BaseInv, TestedInv, [Next]_vars
  PROVE  TestedInv'
<1> USE DEF BaseInv
<1>1. ASSUME NEW w \in Workers, OnlyRequest(w),
             pc'[w] \in {"countSeats", "insert", "publish", "ok"} =>
                 classIds'[w] = classIds[w] /\ Selected(w) \notin Conflicting
      PROVE  TestedInv'
  <2> SUFFICES ASSUME NEW v \in Workers, pc'[v] \in {"countSeats", "insert", "publish", "ok"}
               PROVE  Selected(v)' \notin Conflicting
    BY DEF TestedInv, Conflicting
  <2>1. classIds'[v] = classIds[v] /\ Selected(v) \notin Conflicting
    BY <1>1 DEF OnlyRequest, TestedInv
  <2>2. Selected(v)' = Selected(v)
    BY <2>1 DEF Selected
  <2> QED
    BY <2>1, <2>2
<1>2. ASSUME NEW w \in Workers, NEW answer \in {"refused", "failed"}, Throw(w, answer),
             enrolled \subseteq enrolled', \A v \in Workers \ {w} : student'[v] = student[v]
      PROVE  TestedInv'
  BY <1>1, <1>2 DEF Throw, TypeOK, OnlyRequest
<1>3. ASSUME NEW w \in Workers, UNCHANGED <<enrolled, student>>, NEW step, GoTo(w, step),
             step \in {"countSeats", "insert", "publish", "ok"} => Selected(w) \notin Conflicting
      PROVE  TestedInv'
  BY <1>1, <1>3 DEF GoTo, TypeOK, OnlyRequest
<1>4. ASSUME NEW w \in Workers, NEW s \in Students, NEW ids \in Selections, Submit(w, s, ids)
      PROVE  TestedInv'
  <2>1. CASE Throw(w, "refused")
    BY <1>2, <1>4, <2>1 DEF Submit, TypeOK
  <2>2. CASE pc' = [pc EXCEPT ![w] = "checkExisting"] /\ ~(ids = <<>> \/ HasDuplicates(ids))
    BY <1>1, <1>4, <2>2 DEF Submit, TypeOK, OnlyRequest
  <2> QED
    BY <1>4, <2>1, <2>2 DEF Submit
<1>5. ASSUME NEW w \in Workers, CheckExisting(w) \/ LoadClasses(w) \/ CountSeats(w)
                                \/ Publish(w) \/ Fail(w)
      PROVE  TestedInv'
  BY <1>2, <1>3, <1>5 DEF CheckExisting, LoadClasses, CountSeats, Publish, Fail, TestedInv
<1>6. ASSUME NEW w \in Workers, InsertNext(w) PROVE TestedInv'
  <2> DEFINE c == classIds[w][next[w]]
  <2>1. CASE WriteRow(w, c, {c})
    <3>1. OnlyRequest(w) /\ classIds' = classIds
      BY <2>1 DEF WriteRow, TypeOK, OnlyRequest
    <3>2. Selected(w) \notin Conflicting
      BY <1>6 DEF InsertNext, TestedInv
    <3> QED
      BY <1>1, <3>1, <3>2
  <2>2. CASE Throw(w, "failed") /\ UNCHANGED <<enrolled, student>>
    BY <1>2, <2>2
  <2> QED
    BY <1>6, <2>1, <2>2 DEF InsertNext
<1>7. ASSUME NEW w \in Workers, InsertReplyLost(w) PROVE TestedInv'
  BY <1>2, <1>7 DEF InsertReplyLost
<1>8. CASE UNCHANGED vars
  BY <1>8 DEF vars, TestedInv, Selected, Conflicting
<1> QED
  BY <1>4, <1>5, <1>6, <1>7, <1>8 DEF Next, Serve

\* The classes that one request writes have no minute in common.
THEOREM RequestsDoNotClash == Spec => []NoClashInRequest
<1>1. Init => TestedInv
  BY DEF Init, TestedInv
<1>2. BaseInv /\ TestedInv /\ [Next]_vars => TestedInv'
  BY TestedKept
<1>3. BaseInv /\ ReportInv /\ TestedInv => NoClashInRequest
  <2> SUFFICES ASSUME BaseInv, ReportInv, TestedInv, NEW w \in Workers,
                      NEW c \in inserted[w], NEW d \in inserted[w],
                      c # d, Clash(Schedules[c], Schedules[d])
               PROVE  FALSE
    BY DEF NoClashInRequest, Clashing
  <2>1. /\ next[w] \in Nat \ {0} /\ Len(classIds[w]) \in Nat /\ classIds[w] \in Seq(Classes)
        /\ Selected(w) \subseteq Classes
    BY LenProperties, ElementOfSeq DEF BaseInv, TypeOK, Selected
  <2>2. pc[w] \in {"insert", "publish", "ok"} /\ next[w] - 1 <= Len(classIds[w])
    BY <2>1 DEF BaseInv, LoopInv, ReportInv, ReportOf
  <2>3. c \in Selected(w) /\ d \in Selected(w)
    BY <2>1, <2>2 DEF ReportInv, ReportOf, Selected
  <2>4. ~hasScheduleConflict(Schedules, Selected(w))
    BY <2>1, <2>2 DEF TestedInv, Conflicting
  <2>5. InMinutes(Schedules, Selected(w))
    BY <2>1, SchedulesType DEF InMinutes
  <2> QED
    BY <2>3, <2>4, <2>5, ConflictIsClash
<1> QED
  BY <1>1, <1>2, <1>3, BaseInvariant, ReportInvariant, PTL DEF Spec
=============================================================================
