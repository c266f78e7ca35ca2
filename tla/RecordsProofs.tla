---------------------------- MODULE RecordsProofs ----------------------------
(***************************************************************************)
(* Proofs about the services of the campus, continued: the registrar's     *)
(* seats and petitions, the applicants' forms and the decisions about      *)
(* them, the records of a school, and the balance of a student.  At the    *)
(* end the services come together: their tables hold what their columns    *)
(* allow.                                                                  *)
(***************************************************************************)
EXTENDS CampusProofs, ScheduleProofs, SequenceTheorems

-----------------------------------------------------------------------------
(* Finite sets *)

\* A finite set with one more element,
LEMMA OneMore ==
  ASSUME NEW S, IsFiniteSet(S), NEW x, NEW T, T = S \cup {x}
  PROVE  /\ IsFiniteSet(T) /\ Cardinality(S) \in Nat /\ Cardinality(T) \in Nat
         /\ Cardinality(T) <= Cardinality(S) + 1
         /\ x \notin S => Cardinality(T) = Cardinality(S) + 1
<1>1. Cardinality(S) \in Nat
  BY FS_CardinalityType
<1>2. IsFiniteSet(T) /\ (Cardinality(T) = Cardinality(S) \/ Cardinality(T) = Cardinality(S) + 1)
      /\ (x \notin S => Cardinality(T) = Cardinality(S) + 1)
  BY FS_AddElement
<1> QED
  BY <1>1, <1>2

\* and one with one less.
LEMMA OneLess ==
  ASSUME NEW S, IsFiniteSet(S), NEW x \in S, NEW T, T = S \ {x}
  PROVE  IsFiniteSet(T) /\ Cardinality(S) \in Nat /\ Cardinality(T) \in Nat /\ Cardinality(T) = Cardinality(S) - 1
<1>1. Cardinality(S) \in Nat
  BY FS_CardinalityType
<1>2. IsFiniteSet(T) /\ Cardinality(T) = Cardinality(S) - 1
  BY FS_RemoveElement
<1>3. Cardinality(T) \in Nat
  BY <1>2, FS_CardinalityType
<1> QED
  BY <1>1, <1>2, <1>3

-----------------------------------------------------------------------------
(* The registrar *)

SubmitTodo == {
    <<"loadHeld", "loadCounts", "insertSeats", "publishSeats">>,
    <<"loadCounts", "insertSeats", "publishSeats">>, <<"insertSeats", "publishSeats">>, <<"publishSeats">>}

RegistrarTodo == {<<>>, <<"seatAudit">>} \cup SubmitTodo

SeatRows == [batch : Nat, student : Pupils, class : Sections, status : {"enrolled", "confirmed"}]

Submissions == [batch : Nat \cup {None}, student : Pupils, classes : Selectable]

\* The rows of a submission are those of its list, all of them.
Whole(e) == {row.class : row \in {row \in getHistory(e.student) : row.batch = e.batch}} = e.classes

\* A request that is past the seat count and has not inserted its rows.
Claims(class) == {w \in Workers : At(w, "insertSeats") /\ class \in arg[w].classes}

\* A request of the student that is past the check of what the student holds.
Repeats(student, class) ==
    {w \in Workers : /\ At(w, "loadCounts") \/ At(w, "insertSeats")
                     /\ arg[w].student = student /\ class \in arg[w].classes}

RegistrarRequestOK(w) == ~Idle(w) =>
    /\ todo[w] \in SubmitTodo => arg[w] \in Submissions
    /\ Head(todo[w]) = "publishSeats" => arg[w].batch \in 1 .. db.submissions /\ Whole(arg[w])
    /\ Head(todo[w]) = "seatAudit" /\ arg[w].action = "approved" =>
          arg[w].request \in 1 .. Len(db.petitions) /\ db.petitions[arg[w].request] = "approved"

RegistrarDomain == {"seats", "submissions", "misread", "petitions", "submitted", "trail"}

RegistrarTyped ==
    /\ DOMAIN db = RegistrarDomain
    /\ db.submissions \in Nat /\ db.misread \in [held : Nat, counts : Nat]
    /\ db.seats \subseteq SeatRows /\ \A row \in db.seats : row.batch \in 1 .. db.submissions
    /\ db.petitions \in Seq({"pending_registrar_review", "pending_adviser_review", "approved"})
    /\ \A e \in db.submitted : e \in Submissions /\ e.batch \in 1 .. db.submissions /\ Whole(e)
    /\ \A a \in db.trail : a.action = "approved" =>
          a.request \in 1 .. Len(db.petitions) /\ db.petitions[a.request] = "approved"

\* Rows and claims of a class: each request, and each failed read that let one
\* pass, adds at most one beyond the limit.
SeatsOK(class) ==
    /\ IsFiniteSet(countMap(class))
    /\ Cardinality(countMap(class)) + Cardinality(Claims(class)) <=
          Capacity[class] + Cardinality(Workers) - 1 + db.misread.counts
    /\ \A student \in Pupils :
          Cardinality(SeatsOf(student, class)) + Cardinality(Repeats(student, class)) <=
              Cardinality(Workers) + db.misread.held

RegistrarInv ==
    /\ Slots
    /\ \A w \in Workers : todo[w] \in RegistrarTodo
    /\ RegistrarTyped
    /\ \A w \in Workers : RegistrarRequestOK(w)
    /\ \A class \in Sections : SeatsOK(class)

\* What follows each step of a request to the registrar.
LEMMA RegistrarRoute ==
  ASSUME NEW r \in RegistrarTodo, r # <<>>
  PROVE  /\ Head(r) \in {"loadHeld", "loadCounts", "insertSeats", "publishSeats", "seatAudit"}
         /\ Head(r) # "seatAudit" => r \in SubmitTodo
         /\ Head(r) = "loadHeld" => Tail(r) \in SubmitTodo /\ Head(Tail(r)) = "loadCounts" /\ Tail(r) # <<>>
         /\ Head(r) = "loadCounts" => Tail(r) \in SubmitTodo /\ Head(Tail(r)) = "insertSeats" /\ Tail(r) # <<>>
         /\ Head(r) = "insertSeats" => Tail(r) \in SubmitTodo /\ Head(Tail(r)) = "publishSeats" /\ Tail(r) # <<>>
         /\ Head(r) \in {"publishSeats", "seatAudit"} => Tail(r) = <<>>
<1> DEFINE a == <<"seatAudit">>
           p == <<"publishSeats">>
           ip == <<"insertSeats", "publishSeats">>
           lip == <<"loadCounts", "insertSeats", "publishSeats">>
           hlip == <<"loadHeld", "loadCounts", "insertSeats", "publishSeats">>
<1>1. /\ Head(a) = "seatAudit" /\ Tail(a) = <<>> /\ a # <<>>
      /\ Head(p) = "publishSeats" /\ Tail(p) = <<>> /\ p # <<>>
      /\ Head(ip) = "insertSeats" /\ Tail(ip) = p /\ ip # <<>>
      /\ Head(lip) = "loadCounts" /\ Tail(lip) = ip /\ lip # <<>>
      /\ Head(hlip) = "loadHeld" /\ Tail(hlip) = lip /\ hlip # <<>>
  OBVIOUS
<1>2. r \in {a, p, ip, lip, hlip} /\ {p, ip, lip, hlip} = SubmitTodo
  BY DEF RegistrarTodo, SubmitTodo
<1> HIDE DEF a, p, ip, lip, hlip
<1> QED
  BY <1>1, <1>2

\* A set of rows of a class and the requests that claim one.
LEMMA SeatSets ==
  ASSUME RegistrarInv, NEW class \in Sections
  PROVE  /\ IsFiniteSet(Claims(class)) /\ Cardinality(Claims(class)) \in Nat
         /\ Cardinality(countMap(class)) \in Nat /\ Cardinality(Workers) \in Nat /\ Capacity[class] \in Nat
         /\ db.misread.counts \in Nat /\ db.misread.held \in Nat
         /\ \A student \in Pupils :
              /\ IsFiniteSet(Repeats(student, class)) /\ Cardinality(Repeats(student, class)) \in Nat
              /\ SeatsOf(student, class) \subseteq countMap(class)
              /\ IsFiniteSet(SeatsOf(student, class)) /\ Cardinality(SeatsOf(student, class)) \in Nat
<1>1. IsFiniteSet(countMap(class)) /\ IsFiniteSet(Workers)
  BY WorkersAreFinite DEF RegistrarInv, SeatsOK
<1>2. Claims(class) \subseteq Workers /\ \A student \in Pupils : Repeats(student, class) \subseteq Workers
  BY DEF Claims, Repeats
<1>3. \A student \in Pupils : SeatsOf(student, class) \subseteq countMap(class)
  BY DEF countMap
<1>4. Capacity[class] \in Nat /\ db.misread.counts \in Nat /\ db.misread.held \in Nat
  BY CapacityType DEF Sections, RegistrarInv, RegistrarTyped
<1> QED
  BY <1>1, <1>2, <1>3, <1>4, FS_Subset, FS_CardinalityType

\* What was written about submissions and petitions stays.
Filed ==
    /\ db'.submissions \in Nat /\ db.submissions <= db'.submissions
    /\ \A e \in Submissions : e.batch \in 1 .. db.submissions /\ Whole(e) => Whole(e)'
    /\ Len(db'.petitions) \in Nat
    /\ \A i \in 1 .. Len(db.petitions) : db.petitions[i] = "approved" =>
          i \in 1 .. Len(db'.petitions) /\ db'.petitions[i] = "approved"

\* A request to the registrar that goes on keeps the invariant, when the
\* tables do.
LEMMA RegistrarStep ==
  ASSUME RegistrarInv, NEW w \in Workers, NEW steps, NEW locals,
         Moves(w, steps, locals), steps \in RegistrarTodo, Filed,
         RegistrarTyped', RegistrarRequestOK(w)', \A class \in Sections : SeatsOK(class)'
  PROVE  RegistrarInv'
<1>1. Slots' /\ \A v \in Workers : todo'[v] \in RegistrarTodo
  BY DEF RegistrarInv, Moves
<1>2. ASSUME NEW v \in Workers \ {w}
      PROVE  RegistrarRequestOK(v)'
  <2>1. RegistrarRequestOK(v) /\ todo'[v] = todo[v] /\ arg'[v] = arg[v] /\ db.submissions \in Nat
    BY DEF RegistrarInv, RegistrarTyped, Moves
  <2> SUFFICES ASSUME ~Idle(v)
               PROVE  RegistrarRequestOK(v)'
    BY <2>1 DEF RegistrarRequestOK, Idle
  <2>2. todo[v] \in SubmitTodo => arg[v] \in Submissions
    BY <2>1 DEF RegistrarRequestOK
  <2>3. ASSUME Head(todo[v]) = "publishSeats"
        PROVE  arg[v].batch \in 1 .. db'.submissions /\ Whole(arg[v])'
    <3>1. arg[v] \in Submissions /\ arg[v].batch \in 1 .. db.submissions /\ Whole(arg[v])
      BY <2>1, <2>2, <2>3, RegistrarRoute DEF RegistrarInv, RegistrarRequestOK, Idle
    <3>2. PICK e \in Submissions : e = arg[v]
      BY <3>1
    <3>3. Whole(e)'
      BY <3>1, <3>2 DEF Filed
    <3>4. Whole(arg[v])'
      BY <2>1, <3>2, <3>3 DEF Whole, getHistory
    <3> QED
      BY <2>1, <3>1, <3>4 DEF Filed
  <2>4. Head(todo[v]) = "seatAudit" /\ arg[v].action = "approved" =>
            arg[v].request \in 1 .. Len(db'.petitions) /\ db'.petitions[arg[v].request] = "approved"
    BY <2>1 DEF RegistrarRequestOK, Filed
  <2> QED
    BY <2>1, <2>2, <2>3, <2>4 DEF RegistrarRequestOK, Whole, getHistory
<1> QED
  BY <1>1, <1>2 DEF RegistrarInv

\* Steps that let no request past a check and make no enrolled row.
LEMMA SeatsShrink ==
  ASSUME RegistrarInv, NEW w \in Workers, NEW steps, NEW locals, Moves(w, steps, locals), db'.misread = db.misread,
         steps # <<>> => Head(steps) \notin {"loadCounts", "insertSeats"},
         \A row \in db'.seats : row.status = "enrolled" => row \in db.seats,
         NEW class \in Sections
  PROVE  SeatsOK(class)'
<1>1. Claims(class)' \subseteq Claims(class)
      /\ \A student \in Pupils : Repeats(student, class)' \subseteq Repeats(student, class)
  BY DEF Claims, Repeats, At, Moves
<1>2. \A student \in Pupils : SeatsOf(student, class)' \subseteq SeatsOf(student, class)
  BY DEF SeatsOf
<1>3. countMap(class)' \subseteq countMap(class)
  BY <1>2 DEF countMap
<1> DEFINE n == Cardinality(countMap(class))
           k == Cardinality(Claims(class))
<1>4. /\ IsFiniteSet(countMap(class)') /\ Cardinality(countMap(class)') \in Nat /\ Cardinality(countMap(class)') <= n
      /\ Cardinality(Claims(class)') \in Nat /\ Cardinality(Claims(class)') <= k
  BY <1>1, <1>3, SeatSets, FS_Subset, FS_CardinalityType DEF RegistrarInv, SeatsOK
<1>5. ASSUME NEW student \in Pupils
      PROVE  Cardinality(SeatsOf(student, class)') + Cardinality(Repeats(student, class)') <=
                 Cardinality(Workers) + db'.misread.held
  <2>1. /\ Cardinality(SeatsOf(student, class)') \in Nat
        /\ Cardinality(SeatsOf(student, class)') <= Cardinality(SeatsOf(student, class))
        /\ Cardinality(Repeats(student, class)') \in Nat
        /\ Cardinality(Repeats(student, class)') <= Cardinality(Repeats(student, class))
    BY <1>1, <1>2, SeatSets, FS_Subset, FS_CardinalityType
  <2>2. Cardinality(SeatsOf(student, class)) + Cardinality(Repeats(student, class)) <= Cardinality(Workers) + db.misread.held
    BY DEF RegistrarInv, SeatsOK
  <2> QED
    BY <2>1, <2>2, SeatSets
<1>6. n + k <= Capacity[class] + Cardinality(Workers) - 1 + db.misread.counts /\ n \in Nat /\ k \in Nat
      /\ Capacity[class] \in Nat /\ Cardinality(Workers) \in Nat /\ db.misread.counts \in Nat
  BY SeatSets DEF RegistrarInv, SeatsOK
<1>7. Cardinality(countMap(class)') + Cardinality(Claims(class)') <=
          Capacity[class] + Cardinality(Workers) - 1 + db'.misread.counts
  BY <1>4, <1>6
<1> QED
  BY <1>4, <1>5, <1>7 DEF SeatsOK

\* A read that is passed, rightly or by its failure, changes no row; a failure
\* is counted.
LEMMA PassKeeps ==
  ASSUME RegistrarInv, NEW read \in {"held", "counts"}, NEW other \in {"held", "counts"} \ {read}, NEW failed \in {0, 1},
         \/ failed = 0 /\ db' = db
         \/ failed = 1 /\ db' = [db EXCEPT !.misread[read] = @ + 1]
  PROVE  /\ db'.seats = db.seats /\ db.misread \in [held : Nat, counts : Nat]
         /\ db'.misread[read] = db.misread[read] + failed /\ db'.misread[other] = db.misread[other]
         /\ Filed /\ RegistrarTyped'
<1>1. RegistrarTyped
  BY DEF RegistrarInv
<1>2. /\ DOMAIN db' = RegistrarDomain /\ db'.seats = db.seats /\ db'.submissions = db.submissions
      /\ db'.petitions = db.petitions /\ db'.submitted = db.submitted /\ db'.trail = db.trail
      /\ db'.misread = [db.misread EXCEPT ![read] = @ + failed]
  BY <1>1 DEF RegistrarTyped, RegistrarDomain
<1>3. /\ db'.misread \in [held : Nat, counts : Nat]
      /\ db'.misread[read] = db.misread[read] + failed /\ db'.misread[other] = db.misread[other]
  BY <1>1, <1>2 DEF RegistrarTyped
<1>4. Filed /\ RegistrarTyped'
  BY <1>1, <1>2, <1>3 DEF RegistrarTyped, Filed, Whole, getHistory
<1> QED
  BY <1>1, <1>2, <1>3, <1>4 DEF RegistrarTyped

\* Checks of what the student holds.
LEMMA HeldSteps ==
  ASSUME RegistrarInv, NEW w \in Workers, LoadHeld(w)
  PROVE  RegistrarInv'
<1>1. Slots /\ todo[w] \in RegistrarTodo /\ todo[w] # <<>> /\ Head(todo[w]) = "loadHeld" /\ Proceed(w)
  BY DEF RegistrarInv, LoadHeld, Passes, At
<1>2. Tail(todo[w]) \in SubmitTodo /\ Head(Tail(todo[w])) = "loadCounts" /\ Tail(todo[w]) # <<>>
      /\ todo[w] \in SubmitTodo /\ arg[w] \in Submissions
  BY <1>1, RegistrarRoute DEF RegistrarInv, RegistrarRequestOK, Idle
<1>3. Moves(w, Tail(todo[w]), arg[w])
  BY <1>1, <1>2, ProceedMoves
<1> PICK failed \in {0, 1} :
        \/ failed = 0 /\ db' = db /\ \A class \in arg[w].classes : SeatsOf(arg[w].student, class) = {}
        \/ failed = 1 /\ db' = [db EXCEPT !.misread["held"] = @ + 1]
  BY DEF LoadHeld, Passes
<1>4. /\ Filed /\ RegistrarTyped' /\ db'.seats = db.seats /\ db.misread.held \in Nat
      /\ db'.misread.held = db.misread.held + failed /\ db'.misread.counts = db.misread.counts
  <2>1. "held" \in {"held", "counts"} /\ "counts" \in {"held", "counts"} \ {"held"}
    OBVIOUS
  <2> QED
    BY <2>1, PassKeeps
<1>5. RegistrarRequestOK(w)'
  BY <1>2, <1>3 DEF RegistrarRequestOK, Moves, Idle
<1>6. ASSUME NEW class \in Sections
      PROVE  SeatsOK(class)'
  <2>1. countMap(class)' = countMap(class) /\ \A student \in Pupils : SeatsOf(student, class)' = SeatsOf(student, class)
    BY <1>4 DEF countMap, SeatsOf
  <2>2. Claims(class)' = Claims(class)
    BY <1>1, <1>2, <1>3 DEF Claims, At, Moves
  <2>3. ASSUME NEW student \in Pupils
        PROVE  Cardinality(SeatsOf(student, class)') + Cardinality(Repeats(student, class)') <=
                   Cardinality(Workers) + db'.misread.held
    <3> DEFINE i == Cardinality(SeatsOf(student, class))
               j == Cardinality(Repeats(student, class))
    <3>0. /\ i + j <= Cardinality(Workers) + db.misread.held /\ i \in Nat /\ j \in Nat
          /\ Cardinality(Workers) \in Nat /\ IsFiniteSet(Repeats(student, class))
      BY SeatSets DEF RegistrarInv, SeatsOK
    <3>1. CASE student = arg[w].student /\ class \in arg[w].classes /\ failed = 0
      <4>1. SeatsOf(student, class) = {}
        BY <3>1
      <4>2. Cardinality(SeatsOf(student, class)') = 0
        BY <2>1, <4>1, FS_EmptySet
      <4>3. Repeats(student, class)' \subseteq Workers
        BY DEF Repeats
      <4>4. /\ Cardinality(Repeats(student, class)') \in Nat
            /\ Cardinality(Repeats(student, class)') <= Cardinality(Workers)
        BY <4>3, WorkersAreFinite, FS_Subset, FS_CardinalityType
      <4> QED
        BY <1>4, <3>0, <3>1, <4>2, <4>4
    <3>2. CASE student = arg[w].student /\ class \in arg[w].classes /\ failed = 1
      <4>1. Repeats(student, class)' = Repeats(student, class) \cup {w}
        BY <1>1, <1>2, <1>3, <3>2 DEF Repeats, At, Moves
      <4>2. Cardinality(Repeats(student, class)') \in Nat /\ Cardinality(Repeats(student, class)') <= j + 1
        BY <3>0, <4>1, OneMore
      <4> QED
        BY <1>4, <2>1, <3>0, <3>2, <4>2
    <3>3. CASE ~(student = arg[w].student /\ class \in arg[w].classes)
      <4>1. Repeats(student, class)' = Repeats(student, class)
        BY <1>1, <1>2, <1>3, <3>3 DEF Repeats, At, Moves
      <4> QED
        BY <1>4, <2>1, <3>0, <4>1
    <3> QED
      BY <3>1, <3>2, <3>3
  <2> QED
    BY <1>4, <2>1, <2>2, <2>3 DEF RegistrarInv, SeatsOK
<1> QED
  BY <1>2, <1>3, <1>4, <1>5, <1>6, RegistrarStep DEF RegistrarTodo

\* The seat count: each class of the list has a seat left, whatever the other
\* requests have counted.
LEMMA CountSteps ==
  ASSUME RegistrarInv, NEW w \in Workers, LoadCounts(w)
  PROVE  RegistrarInv'
<1>1. Slots /\ todo[w] \in RegistrarTodo /\ todo[w] # <<>> /\ Head(todo[w]) = "loadCounts" /\ Proceed(w)
  BY DEF RegistrarInv, LoadCounts, Passes, At
<1>2. Tail(todo[w]) \in SubmitTodo /\ Head(Tail(todo[w])) = "insertSeats" /\ Tail(todo[w]) # <<>>
      /\ todo[w] \in SubmitTodo /\ arg[w] \in Submissions
  BY <1>1, RegistrarRoute DEF RegistrarInv, RegistrarRequestOK, Idle
<1>3. Moves(w, Tail(todo[w]), arg[w])
  BY <1>1, <1>2, ProceedMoves
<1> PICK failed \in {0, 1} :
        \/ failed = 0 /\ db' = db /\ \A class \in arg[w].classes : Cardinality(countMap(class)) < Capacity[class]
        \/ failed = 1 /\ db' = [db EXCEPT !.misread["counts"] = @ + 1]
  BY DEF LoadCounts, Passes
<1>4. /\ Filed /\ RegistrarTyped' /\ db'.seats = db.seats /\ db.misread.counts \in Nat
      /\ db'.misread.counts = db.misread.counts + failed /\ db'.misread.held = db.misread.held
  <2>1. "counts" \in {"held", "counts"} /\ "held" \in {"held", "counts"} \ {"counts"}
    OBVIOUS
  <2> QED
    BY <2>1, PassKeeps
<1>5. RegistrarRequestOK(w)'
  BY <1>2, <1>3 DEF RegistrarRequestOK, Moves, Idle
<1>6. ASSUME NEW class \in Sections
      PROVE  SeatsOK(class)'
  <2>1. countMap(class)' = countMap(class) /\ \A student \in Pupils : SeatsOf(student, class)' = SeatsOf(student, class)
    BY <1>4 DEF countMap, SeatsOf
  <2>2. \A student \in Pupils : Repeats(student, class)' = Repeats(student, class)
    BY <1>1, <1>2, <1>3 DEF Repeats, At, Moves
  <2>3. Cardinality(countMap(class)) + Cardinality(Claims(class)') <=
            Capacity[class] + Cardinality(Workers) - 1 + db'.misread.counts
    <3> DEFINE n == Cardinality(countMap(class))
               k == Cardinality(Claims(class))
    <3>0. /\ n + k <= Capacity[class] + Cardinality(Workers) - 1 + db.misread.counts /\ n \in Nat /\ k \in Nat
          /\ Capacity[class] \in Nat /\ Cardinality(Workers) \in Nat /\ IsFiniteSet(Claims(class))
      BY SeatSets DEF RegistrarInv, SeatsOK
    <3>1. CASE class \in arg[w].classes /\ failed = 0
      <4>1. Cardinality(countMap(class)) < Capacity[class]
        BY <3>1
      <4>2. Claims(class)' \subseteq Workers
        BY DEF Claims
      <4>3. Cardinality(Claims(class)') \in Nat /\ Cardinality(Claims(class)') <= Cardinality(Workers)
        BY <4>2, WorkersAreFinite, FS_Subset, FS_CardinalityType
      <4> QED
        BY <1>4, <3>0, <3>1, <4>1, <4>3
    <3>2. CASE class \in arg[w].classes /\ failed = 1
      <4>1. Claims(class)' = Claims(class) \cup {w}
        BY <1>1, <1>2, <1>3, <3>2 DEF Claims, At, Moves
      <4>2. Cardinality(Claims(class)') \in Nat /\ Cardinality(Claims(class)') <= k + 1
        BY <3>0, <4>1, OneMore
      <4> QED
        BY <1>4, <3>0, <3>2, <4>2
    <3>3. CASE class \notin arg[w].classes
      <4>1. Claims(class)' = Claims(class)
        BY <1>1, <1>2, <1>3, <3>3 DEF Claims, At, Moves
      <4> QED
        BY <1>4, <3>0, <4>1
    <3> QED
      BY <3>1, <3>2, <3>3
  <2> QED
    BY <1>4, <2>1, <2>2, <2>3 DEF RegistrarInv, SeatsOK
<1> QED
  BY <1>2, <1>3, <1>4, <1>5, <1>6, RegistrarStep DEF RegistrarTodo

\* The insert of a submission's rows uses the claims that the request has.
LEMMA InsertSteps ==
  ASSUME RegistrarInv, NEW w \in Workers, InsertSeats(w)
  PROVE  RegistrarInv'
<1>1. Slots /\ todo[w] \in RegistrarTodo /\ todo[w] # <<>> /\ Head(todo[w]) = "insertSeats" /\ RegistrarTyped
  BY DEF RegistrarInv, InsertSeats, At
<1>2. Tail(todo[w]) \in SubmitTodo /\ Head(Tail(todo[w])) = "publishSeats" /\ Tail(todo[w]) # <<>>
      /\ todo[w] \in SubmitTodo /\ arg[w] \in Submissions
  BY <1>1, RegistrarRoute DEF RegistrarInv, RegistrarRequestOK, Idle
<1>3. PICK s \in Pupils, classes \in Selectable, b \in Nat :
          s = arg[w].student /\ classes = arg[w].classes /\ b = db.submissions + 1
  BY <1>1, <1>2 DEF Submissions, RegistrarTyped
<1> DEFINE Seat(class) == [batch |-> b, student |-> s, class |-> class, status |-> "enrolled"]
           New == {Seat(class) : class \in classes}
<1> PICK submitted : submitted = [arg[w] EXCEPT !.batch = b]
  OBVIOUS
<1>4. db' = [db EXCEPT !.submissions = b, !.seats = @ \cup New] /\ ProceedWith(w, submitted)
  BY <1>3 DEF InsertSeats
<1>5. /\ DOMAIN db' = RegistrarDomain /\ db'.submissions = b /\ db'.seats = db.seats \cup New
      /\ db'.petitions = db.petitions /\ db'.submitted = db.submitted /\ db'.trail = db.trail
      /\ db'.misread = db.misread
  BY <1>1, <1>4 DEF RegistrarTyped, RegistrarDomain
<1>6. Moves(w, Tail(todo[w]), submitted)
  BY <1>1, <1>2, <1>4, ProceedWithMoves
<1>7. submitted \in Submissions /\ submitted.batch = b /\ submitted.student = s /\ submitted.classes = classes
  BY <1>2, <1>3 DEF Submissions
<1>8. db.submissions \in Nat /\ b = db.submissions + 1 /\ \A row \in db.seats : row.batch \in 1 .. db.submissions
  BY <1>1, <1>3 DEF RegistrarTyped
<1>9. classes \subseteq Sections
  BY DEF Selectable
<1>10. ASSUME NEW e \in Submissions, e.batch \in 1 .. db.submissions, Whole(e)
       PROVE  Whole(e)'
  <2>1. {row \in getHistory(e.student)' : row.batch = e.batch} = {row \in getHistory(e.student) : row.batch = e.batch}
    BY <1>5, <1>8, <1>10 DEF getHistory
  <2> QED
    BY <1>10, <2>1 DEF Whole
<1>11. Whole(submitted)'
  <2>1. {row \in db'.seats : row.student = s /\ row.batch = b} = New
    BY <1>5, <1>8
  <2>2. \A class : Seat(class).class = class
    OBVIOUS
  <2>3. {row.class : row \in New} = classes
    <3> HIDE DEF Seat
    <3> QED
      BY <2>2
  <2>4. {row \in getHistory(submitted.student)' : row.batch = submitted.batch} = New
    BY <1>7, <2>1 DEF getHistory
  <2> HIDE DEF New
  <2> QED
    BY <1>7, <2>3, <2>4 DEF Whole
<1>12. Filed
  BY <1>1, <1>5, <1>8, <1>10 DEF Filed, RegistrarTyped
<1>13. RegistrarTyped'
  <2>1. New \subseteq SeatRows /\ \A row \in New : row.batch = b
    BY <1>9 DEF SeatRows
  <2>2. \A row \in db'.seats : row \in SeatRows /\ row.batch \in 1 .. b
    BY <1>1, <1>5, <1>8, <2>1 DEF RegistrarTyped
  <2>3. \A e \in db'.submitted : e \in Submissions /\ e.batch \in 1 .. b /\ Whole(e)'
    BY <1>1, <1>5, <1>8, <1>10 DEF RegistrarTyped
  <2> QED
    BY <1>1, <1>5, <2>2, <2>3 DEF RegistrarTyped
<1>14. RegistrarRequestOK(w)'
  <2>1. todo'[w] = Tail(todo[w]) /\ arg'[w] = submitted
    BY <1>6 DEF Moves
  <2>2. Whole(arg[w])'
    BY <1>11, <2>1 DEF Whole, getHistory
  <2>3. arg'[w].batch \in 1 .. db'.submissions
    BY <1>5, <1>7, <1>8, <2>1
  <2> QED
    BY <1>2, <1>7, <2>1, <2>2, <2>3 DEF RegistrarRequestOK
<1>15. ASSUME NEW class \in Sections
       PROVE  SeatsOK(class)'
  <2>1. CASE class \in classes
    <3>1. SeatsOf(s, class)' = SeatsOf(s, class) \cup {Seat(class)}
      BY <1>5, <2>1 DEF SeatsOf
    <3>2. \A t \in Pupils \ {s} : SeatsOf(t, class)' = SeatsOf(t, class)
      BY <1>5 DEF SeatsOf
    <3>3. countMap(class)' = countMap(class) \cup {Seat(class)}
      BY <3>1, <3>2 DEF countMap
    <3>4. w \in Claims(class) /\ w \in Repeats(s, class)
      BY <1>1, <1>3, <2>1 DEF Claims, Repeats, At
    <3>5. Claims(class)' = Claims(class) \ {w} /\ \A t \in Pupils : Repeats(t, class)' = Repeats(t, class) \ {w}
      BY <1>2, <1>6, ZenonT(40) DEF Claims, Repeats, At, Moves
    <3> DEFINE n == Cardinality(countMap(class))
               k == Cardinality(Claims(class))
    <3>6. /\ IsFiniteSet(countMap(class)') /\ Cardinality(countMap(class)') \in Nat
          /\ Cardinality(countMap(class)') <= n + 1
      <4>1. IsFiniteSet(countMap(class))
        BY DEF RegistrarInv, SeatsOK
      <4> HIDE DEF Seat
      <4> QED
        BY <3>3, <4>1, OneMore
    <3>7. Cardinality(Claims(class)') = k - 1
      BY <3>4, <3>5, SeatSets, OneLess
    <3>8. n + k <= Capacity[class] + Cardinality(Workers) - 1 + db.misread.counts /\ n \in Nat /\ k \in Nat
          /\ Capacity[class] \in Nat /\ Cardinality(Workers) \in Nat /\ db.misread.counts \in Nat
      BY SeatSets DEF RegistrarInv, SeatsOK
    <3>9. Cardinality(countMap(class)') + Cardinality(Claims(class)') <=
              Capacity[class] + Cardinality(Workers) - 1 + db'.misread.counts
      BY <1>5, <3>6, <3>7, <3>8
    <3>10. ASSUME NEW t \in Pupils
           PROVE  Cardinality(SeatsOf(t, class)') + Cardinality(Repeats(t, class)') <=
                      Cardinality(Workers) + db'.misread.held
      <4> DEFINE i == Cardinality(SeatsOf(t, class))
                 j == Cardinality(Repeats(t, class))
      <4>1. i + j <= Cardinality(Workers) + db'.misread.held /\ i \in Nat /\ j \in Nat
            /\ Cardinality(Workers) \in Nat /\ db'.misread.held \in Nat
        BY <1>5, SeatSets DEF RegistrarInv, SeatsOK
      <4>2. CASE t = s
        <5>1. Cardinality(SeatsOf(t, class)') \in Nat /\ Cardinality(SeatsOf(t, class)') <= i + 1
          <6>1. IsFiniteSet(SeatsOf(t, class))
            BY SeatSets
          <6> HIDE DEF Seat
          <6> QED
            BY <3>1, <4>2, <6>1, OneMore
        <5>2. Cardinality(Repeats(t, class)') = j - 1
          BY <3>4, <3>5, <4>2, SeatSets, OneLess
        <5> QED
          BY <4>1, <5>1, <5>2
      <4>3. CASE t # s
        <5>1. SeatsOf(t, class)' = SeatsOf(t, class)
          BY <3>2, <4>3
        <5>2. Cardinality(Repeats(t, class)') \in Nat /\ Cardinality(Repeats(t, class)') <= j
          BY <3>5, SeatSets, FS_Subset, FS_CardinalityType
        <5> QED
          BY <4>1, <5>1, <5>2
      <4> QED
        BY <4>2, <4>3
    <3> QED
      BY <3>6, <3>9, <3>10 DEF SeatsOK
  <2>2. CASE class \notin classes
    <3>1. \A t \in Pupils : SeatsOf(t, class)' = SeatsOf(t, class)
      BY <1>5, <2>2 DEF SeatsOf
    <3>2. countMap(class)' = countMap(class)
      BY <3>1 DEF countMap
    <3>3. Claims(class)' = Claims(class) /\ \A t \in Pupils : Repeats(t, class)' = Repeats(t, class)
      BY <1>1, <1>2, <1>3, <1>6, <2>2 DEF Claims, Repeats, At, Moves
    <3> QED
      BY <1>5, <3>1, <3>2, <3>3 DEF RegistrarInv, SeatsOK
  <2> QED
    BY <2>1, <2>2
<1> QED
  BY <1>2, <1>6, <1>12, <1>13, <1>14, <1>15, RegistrarStep DEF RegistrarTodo

\* A submission or a petition arrives, or a request ends; no rows change.
LEMMA RegistrarRequests ==
  ASSUME RegistrarInv, NEW w \in Workers, SubmitSelection(w) \/ Fail(w)
  PROVE  RegistrarInv'
<1>1. Slots /\ db' = db
  BY DEF RegistrarInv, SubmitSelection, Fail
<1>2. PICK steps, locals :
          /\ Moves(w, steps, locals) /\ steps \in RegistrarTodo
          /\ steps # <<>> => Head(steps) = "loadHeld" /\ locals \in Submissions
  <2>1. CASE SubmitSelection(w)
    <3>1. PICK student \in Pupils, classes \in Selectable :
              Take("registrar", w, <<"loadHeld", "loadCounts", "insertSeats", "publishSeats">>,
                   [batch |-> None, student |-> student, classes |-> classes])
      BY <2>1 DEF SubmitSelection
    <3>2. [batch |-> None, student |-> student, classes |-> classes] \in Submissions
      BY DEF Submissions
    <3>3. <<"loadHeld", "loadCounts", "insertSeats", "publishSeats">> \in RegistrarTodo
      BY DEF RegistrarTodo, SubmitTodo
    <3> QED
      BY <1>1, <3>1, <3>2, <3>3, TakeMoves
  <2>2. CASE Fail(w)
    BY <1>1, <2>2, FailMoves DEF RegistrarTodo
  <2> QED
    BY <2>1, <2>2
<1>3. Filed /\ RegistrarTyped'
  BY <1>1 DEF RegistrarInv, RegistrarTyped, Filed, Whole, getHistory
<1>4. RegistrarRequestOK(w)'
  BY <1>2 DEF RegistrarRequestOK, Moves, Idle
<1>5. \A class \in Sections : SeatsOK(class)'
  BY <1>1, <1>2, SeatsShrink
<1> QED
  BY <1>2, <1>3, <1>4, <1>5, RegistrarStep

\* The event and the audit of what was written before.
LEMMA RegistrarTells ==
  ASSUME RegistrarInv, NEW w \in Workers, PublishSeats(w) \/ writeAuditEvent(w)
  PROVE  RegistrarInv'
<1>1. Slots /\ todo[w] \in RegistrarTodo /\ todo[w] # <<>> /\ RegistrarTyped /\ RegistrarRequestOK(w)
      /\ Head(todo[w]) \in {"publishSeats", "seatAudit"}
  BY DEF RegistrarInv, PublishSeats, writeAuditEvent, At
<1>2. Moves(w, <<>>, None)
  <2>1. Proceed(w) /\ Tail(todo[w]) = <<>>
    BY <1>1, RegistrarRoute DEF PublishSeats, writeAuditEvent
  <2> QED
    BY <1>1, <2>1, ProceedMoves
<1>3. /\ DOMAIN db' = RegistrarDomain /\ db'.seats = db.seats /\ db'.submissions = db.submissions
      /\ db'.petitions = db.petitions /\ db'.misread = db.misread
      /\ \A e \in db'.submitted : e \in db.submitted \/ (e = arg[w] /\ Head(todo[w]) = "publishSeats")
      /\ \A a \in db'.trail : a \in db.trail \/ (a = arg[w] /\ Head(todo[w]) = "seatAudit")
  <2>1. \/ db' = db
        \/ Head(todo[w]) = "publishSeats" /\ db' = [db EXCEPT !.submitted = @ \cup {arg[w]}]
        \/ Head(todo[w]) = "seatAudit" /\ db' = [db EXCEPT !.trail = @ \cup {arg[w]}]
    BY DEF PublishSeats, writeAuditEvent, At
  <2> QED
    BY <1>1, <2>1 DEF RegistrarTyped, RegistrarDomain
<1>4. Head(todo[w]) = "publishSeats" => arg[w] \in Submissions /\ arg[w].batch \in 1 .. db.submissions /\ Whole(arg[w])
  BY <1>1, RegistrarRoute DEF RegistrarRequestOK, Idle
<1>5. \A e : Whole(e) => Whole(e)'
  BY <1>3 DEF Whole, getHistory
<1>6. Filed
  BY <1>1, <1>3, <1>5 DEF Filed, RegistrarTyped
<1>7. \A e \in db'.submitted : e \in Submissions /\ e.batch \in 1 .. db.submissions /\ Whole(e)'
  BY <1>1, <1>3, <1>4, <1>5 DEF RegistrarTyped
<1>8. \A a \in db'.trail : a.action = "approved" =>
          a.request \in 1 .. Len(db.petitions) /\ db.petitions[a.request] = "approved"
  BY <1>1, <1>3 DEF RegistrarTyped, RegistrarRequestOK, Idle
<1>9. RegistrarTyped'
  BY <1>1, <1>3, <1>7, <1>8 DEF RegistrarTyped
<1>10. RegistrarRequestOK(w)' /\ <<>> \in RegistrarTodo
  BY <1>2 DEF RegistrarRequestOK, RegistrarTodo, Moves, Idle
<1>11. \A class \in Sections : SeatsOK(class)'
  BY <1>2, <1>3, SeatsShrink
<1> QED
  BY <1>2, <1>6, <1>9, <1>10, <1>11, RegistrarStep

\* A petition is filed or approved, and an approval stands.
LEMMA PetitionSteps ==
  ASSUME RegistrarInv, NEW w \in Workers, FilePetition(w) \/ approveByRegistrar(w)
  PROVE  RegistrarInv'
<1>1. Slots /\ RegistrarTyped
  BY DEF RegistrarInv
<1> DEFINE Statuses == {"pending_registrar_review", "pending_adviser_review", "approved"}
<1> DEFINE Effect(locals, petitions) ==
               /\ Moves(w, <<"seatAudit">>, locals)
               /\ db' = [db EXCEPT !.petitions = petitions]
               /\ Len(db.petitions) <= Len(petitions)
               /\ \A i \in 1 .. Len(db.petitions) : petitions[i] \in {db.petitions[i], "approved"}
               /\ locals.action = "approved" => locals.request \in 1 .. Len(petitions) /\ petitions[locals.request] = "approved"
<1>2. \E locals, petitions : petitions \in Seq(Statuses) /\ Effect(locals, petitions)
  <2>1. CASE FilePetition(w)
    <3>1. PICK status \in Statuses :
              /\ Take("petitions", w, <<"seatAudit">>, [action |-> "requested", request |-> Len(db.petitions) + 1])
              /\ db' = [db EXCEPT !.petitions = Append(db.petitions, status)]
      BY <2>1 DEF FilePetition
    <3>2. PICK petitions \in Seq(Statuses) : petitions = Append(db.petitions, status)
      <4>1. Append(db.petitions, status) \in Seq(Statuses)
        BY <1>1 DEF RegistrarTyped
      <4> QED
        BY <4>1
    <3>3. /\ Len(db.petitions) <= Len(petitions)
          /\ \A i \in 1 .. Len(db.petitions) : petitions[i] \in {db.petitions[i], "approved"}
      BY <1>1, <3>2 DEF RegistrarTyped
    <3>4. PICK locals : locals = [action |-> "requested", request |-> Len(db.petitions) + 1]
      OBVIOUS
    <3>5. locals.action # "approved"
      BY <3>4
    <3>6. Moves(w, <<"seatAudit">>, locals) /\ db' = [db EXCEPT !.petitions = petitions]
      BY <1>1, <3>1, <3>2, <3>4, TakeMoves
    <3>7. Effect(locals, petitions)
      BY <3>3, <3>5, <3>6
    <3> HIDE DEF Effect
    <3> QED
      BY <3>7
  <2>2. CASE approveByRegistrar(w)
    <3>1. PICK request \in 1 .. Len(db.petitions) :
              /\ Take("petitions", w, <<"seatAudit">>, [action |-> "approved", request |-> request])
              /\ db' = [db EXCEPT !.petitions[request] = "approved"]
      BY <2>2 DEF approveByRegistrar
    <3>2. PICK petitions \in Seq(Statuses) : petitions = [db.petitions EXCEPT ![request] = "approved"]
      <4>1. [db.petitions EXCEPT ![request] = "approved"] \in Seq(Statuses)
        BY <1>1 DEF RegistrarTyped
      <4> QED
        BY <4>1
    <3>3. /\ Len(petitions) = Len(db.petitions) /\ Len(db.petitions) \in Nat
          /\ \A i \in 1 .. Len(db.petitions) : petitions[i] \in {db.petitions[i], "approved"}
          /\ petitions[request] = "approved"
      BY <1>1, <3>2 DEF RegistrarTyped
    <3>4. PICK locals : locals = [action |-> "approved", request |-> request]
      OBVIOUS
    <3>5. locals.request = request
      BY <3>4
    <3>6. Moves(w, <<"seatAudit">>, locals) /\ db' = [db EXCEPT !.petitions = petitions]
      BY <1>1, <3>1, <3>2, <3>4, TakeMoves
    <3>7. Effect(locals, petitions)
      BY <3>3, <3>5, <3>6
    <3> HIDE DEF Effect
    <3> QED
      BY <3>7
  <2> QED
    BY <2>1, <2>2
<1> PICK locals, petitions : petitions \in Seq(Statuses) /\ Effect(locals, petitions)
  BY <1>2
<1>3. /\ DOMAIN db' = RegistrarDomain /\ db'.seats = db.seats /\ db'.submissions = db.submissions
      /\ db'.petitions = petitions /\ db'.submitted = db.submitted /\ db'.trail = db.trail
      /\ db'.misread = db.misread
  BY <1>1, <1>2 DEF RegistrarTyped, RegistrarDomain
<1>4. \A e : Whole(e) => Whole(e)'
  BY <1>3 DEF Whole, getHistory
<1>5. \A i \in 1 .. Len(db.petitions) : db.petitions[i] = "approved" =>
          i \in 1 .. Len(petitions) /\ petitions[i] = "approved"
  <2>1. Len(db.petitions) \in Nat /\ Len(petitions) \in Nat
    BY <1>1 DEF RegistrarTyped
  <2> QED
    BY <1>2, <2>1
<1>6. Filed
  BY <1>1, <1>3, <1>4, <1>5 DEF Filed, RegistrarTyped
<1>7. RegistrarTyped'
  <2>1. \A e \in db'.submitted : e \in Submissions /\ e.batch \in 1 .. db'.submissions /\ Whole(e)'
    BY <1>1, <1>3, <1>4 DEF RegistrarTyped
  <2>2. \A a \in db'.trail : a.action = "approved" =>
            a.request \in 1 .. Len(petitions) /\ petitions[a.request] = "approved"
    BY <1>1, <1>3, <1>5 DEF RegistrarTyped
  <2> QED
    BY <1>1, <1>3, <2>1, <2>2 DEF RegistrarTyped
<1>8. RegistrarRequestOK(w)' /\ <<"seatAudit">> \in RegistrarTodo /\ Head(<<"seatAudit">>) = "seatAudit"
  <2>1. <<"seatAudit">> \notin SubmitTodo /\ Head(<<"seatAudit">>) = "seatAudit"
    BY DEF SubmitTodo
  <2> QED
    BY <1>2, <1>3, <2>1 DEF RegistrarRequestOK, RegistrarTodo, Moves
<1>9. \A class \in Sections : SeatsOK(class)'
  BY <1>2, <1>3, <1>8, SeatsShrink
<1> QED
  BY <1>2, <1>6, <1>7, <1>8, <1>9, RegistrarStep

\* A confirmation takes rows out of the seat count and out of no submission.
LEMMA ConfirmSteps ==
  ASSUME RegistrarInv, NEW w \in Workers, confirm(w)
  PROVE  RegistrarInv'
<1>1. Slots /\ RegistrarTyped
  BY DEF RegistrarInv
<1>2. PICK student \in Pupils, ids \in SUBSET (1 .. MaxSubmissions), rows \in SUBSET db.seats :
          /\ Take("registrar", w, <<"seatAudit">>, [action |-> "confirmed", request |-> 0])
          /\ db' = [db EXCEPT !.seats = (db.seats \ rows) \cup {[row EXCEPT !.status = "confirmed"] : row \in rows}]
  BY DEF confirm
<1>3. Moves(w, <<"seatAudit">>, [action |-> "confirmed", request |-> 0])
  BY <1>1, <1>2, TakeMoves
<1> DEFINE done(row) == [row EXCEPT !.status = "confirmed"]
<1>4. /\ DOMAIN db' = RegistrarDomain /\ db'.seats = (db.seats \ rows) \cup {done(row) : row \in rows}
      /\ db'.submissions = db.submissions /\ db'.misread = db.misread
      /\ db'.petitions = db.petitions /\ db'.submitted = db.submitted /\ db'.trail = db.trail
  BY <1>1, <1>2 DEF RegistrarTyped, RegistrarDomain
<1>5. \A row \in db.seats : /\ done(row) \in SeatRows /\ done(row).batch = row.batch /\ done(row).student = row.student
                            /\ done(row).class = row.class /\ done(row).status = "confirmed"
  BY <1>1 DEF RegistrarTyped, SeatRows
<1> HIDE DEF done
<1>6. ASSUME NEW e
      PROVE  Whole(e) => Whole(e)'
  <2>1. \A row \in db'.seats : \E old \in db.seats : old.student = row.student /\ old.batch = row.batch /\ old.class = row.class
    BY <1>4, <1>5
  <2>2. \A old \in db.seats : \E row \in db'.seats : old.student = row.student /\ old.batch = row.batch /\ old.class = row.class
    BY <1>4, <1>5
  <2>3. {row.class : row \in {row \in getHistory(e.student) : row.batch = e.batch}}' =
            {row.class : row \in {row \in getHistory(e.student) : row.batch = e.batch}}
    BY <2>1, <2>2 DEF getHistory
  <2> QED
    BY <2>3 DEF Whole
<1>7. Filed
  BY <1>1, <1>4, <1>6 DEF Filed, RegistrarTyped
<1>8. RegistrarTyped'
  <2>1. \A row \in db'.seats : row \in SeatRows /\ row.batch \in 1 .. db.submissions
    BY <1>1, <1>4, <1>5 DEF RegistrarTyped
  <2>2. \A e \in db'.submitted : e \in Submissions /\ e.batch \in 1 .. db'.submissions /\ Whole(e)'
    BY <1>1, <1>4, <1>6 DEF RegistrarTyped
  <2> QED
    BY <1>1, <1>4, <2>1, <2>2 DEF RegistrarTyped
<1>9. RegistrarRequestOK(w)' /\ <<"seatAudit">> \in RegistrarTodo /\ Head(<<"seatAudit">>) = "seatAudit"
  <2>1. <<"seatAudit">> \notin SubmitTodo /\ Head(<<"seatAudit">>) = "seatAudit"
    BY DEF SubmitTodo
  <2> QED
    BY <1>3, <2>1 DEF RegistrarRequestOK, RegistrarTodo, Moves
<1>10. \A row \in db'.seats : row.status = "enrolled" => row \in db.seats
  BY <1>4, <1>5
<1>11. \A class \in Sections : SeatsOK(class)'
  BY <1>3, <1>4, <1>9, <1>10, SeatsShrink
<1> QED
  BY <1>3, <1>7, <1>8, <1>9, <1>11, RegistrarStep

\* Every step of any service keeps the invariant of the registrar.
LEMMA RegistrarKeep ==
  ASSUME service \in {"registrar", "petitions"} => RegistrarInv, [Next]_vars
  PROVE  (service \in {"registrar", "petitions"} => RegistrarInv)'
<1>1. service' = service
  BY ServiceKept DEF Kept
<1> SUFFICES ASSUME service \in {"registrar", "petitions"}, RegistrarInv
             PROVE  RegistrarInv'
  BY <1>1
<1>2. CASE UNCHANGED vars
  <2>1. Slots' /\ RegistrarTyped' /\ \A w \in Workers : todo'[w] \in RegistrarTodo /\ RegistrarRequestOK(w)'
    BY <1>2 DEF vars, RegistrarInv, RegistrarTyped, RegistrarRequestOK, Whole, getHistory, Slots, Idle
  <2>2. ASSUME NEW class \in Sections
        PROVE  SeatsOK(class)'
    BY <1>2, SMTT(30) DEF vars, RegistrarInv, SeatsOK, Claims, Repeats, countMap, SeatsOf, At
  <2> QED
    BY <2>1, <2>2 DEF RegistrarInv
<1>3. CASE RegistrarNext
  BY <1>3, HeldSteps, CountSteps, InsertSteps, RegistrarRequests, RegistrarTells, PetitionSteps, ConfirmSteps
     DEF RegistrarNext
<1> QED
  BY <1>2, <1>3 DEF Next

\* The invariant of the registrar holds at the beginning.
LEMMA RegistrarStart == Init => (service \in {"registrar", "petitions"} => RegistrarInv)
<1> SUFFICES ASSUME Init, service \in {"registrar", "petitions"}
             PROVE  RegistrarInv
  OBVIOUS
<1>1. RegistrarInit
  BY DEF Init, NotificationsInit, ProfessorsInit, AlumniInit, GraduationsInit, ResourcesInit,
     ApplicationsInit, TenantsInit, BillingInit, Start
<1>2. todo = [w \in Workers |-> <<>>] /\ arg = [w \in Workers |-> None] /\ db = RegistrarTables
  BY <1>1 DEF RegistrarInit, Start
<1>3. RegistrarTyped
  BY <1>2 DEF RegistrarTyped, RegistrarTables, RegistrarDomain
<1>4. ASSUME NEW class \in Sections
      PROVE  SeatsOK(class)
  <2>1. \A student \in Pupils : SeatsOf(student, class) = {} /\ Repeats(student, class) = {}
    BY <1>2 DEF SeatsOf, Repeats, At, RegistrarTables
  <2>2. countMap(class) = {} /\ Claims(class) = {}
    BY <1>2, <2>1 DEF countMap, Claims, At
  <2>3. PICK n \in Nat, k \in Nat : n = Cardinality(Workers) /\ n # 0 /\ k = Capacity[class]
        /\ db.misread.counts = 0 /\ db.misread.held = 0
    BY <1>2, WorkersAreFinite, FS_CardinalityType, FS_EmptySet, CapacityType DEF Sections, RegistrarTables
  <2>4. IsFiniteSet({}) /\ Cardinality({}) = 0
    BY FS_EmptySet
  <2>5. 0 + 0 <= k + n - 1 + 0 /\ 0 + 0 <= n + 0
    BY <2>3
  <2>6. /\ Cardinality(countMap(class)) + Cardinality(Claims(class)) <=
              Capacity[class] + Cardinality(Workers) - 1 + db.misread.counts
        /\ IsFiniteSet(countMap(class))
    BY <2>2, <2>3, <2>4, <2>5
  <2>7. \A student \in Pupils :
            Cardinality(SeatsOf(student, class)) + Cardinality(Repeats(student, class)) <=
                Cardinality(Workers) + db.misread.held
    BY <2>1, <2>3, <2>4, <2>5
  <2> QED
    BY <2>6, <2>7 DEF SeatsOK
<1> QED
  BY <1>2, <1>3, <1>4 DEF RegistrarInv, RegistrarRequestOK, RegistrarTodo, Slots, Idle

\* The inductive invariant of the registrar.
THEOREM RegistrarInvariant == Spec => [](service \in {"registrar", "petitions"} => RegistrarInv)
<1>1. Init => (service \in {"registrar", "petitions"} => RegistrarInv)
  BY RegistrarStart
<1>2. (service \in {"registrar", "petitions"} => RegistrarInv) /\ [Next]_vars
        => (service \in {"registrar", "petitions"} => RegistrarInv)'
  BY RegistrarKeep
<1> QED
  BY <1>1, <1>2, PTL DEF Spec

\* Over Supabase no class is oversold by more than the number of other
\* requests in flight, and no student holds more rows of a class than there
\* are requests, and one more for each failed read that was taken for an empty
\* one.
THEOREM OversellsAreBounded == Spec => []OversellBound
<1>1. (service \in {"registrar", "petitions"} => RegistrarInv) => OversellBound
  <2> SUFFICES ASSUME service = "registrar", RegistrarInv, NEW class \in Sections
               PROVE  /\ Cardinality(countMap(class)) <=
                             Capacity[class] + Cardinality(Workers) - 1 + db.misread.counts
                      /\ \A student \in Pupils :
                             Cardinality(SeatsOf(student, class)) <= Cardinality(Workers) + db.misread.held
    BY DEF OversellBound
  <2>1. SeatsOK(class)
    BY DEF RegistrarInv
  <2>2. Cardinality(countMap(class)) <= Capacity[class] + Cardinality(Workers) - 1 + db.misread.counts
    BY <2>1, SeatSets DEF SeatsOK
  <2>3. ASSUME NEW student \in Pupils
        PROVE  Cardinality(SeatsOf(student, class)) <= Cardinality(Workers) + db.misread.held
    BY <2>1, SeatSets DEF SeatsOK
  <2> QED
    BY <2>2, <2>3
<1> QED
  BY <1>1, RegistrarInvariant, PTL

\* What is reported as submitted is there as a whole, also when some of it was
\* confirmed since, and none of its classes meet at the same minute.
THEOREM SubmissionsAreWhole == Spec => []SubmittedIsWhole
<1>1. (service \in {"registrar", "petitions"} => RegistrarInv) => SubmittedIsWhole
  <2> SUFFICES ASSUME service = "registrar", RegistrarInv, NEW e \in db.submitted
               PROVE  /\ {row.class : row \in {row \in getHistory(e.student) : row.batch = e.batch}} = e.classes
                      /\ (e.classes \X e.classes) \cap Clashing = {}
    BY DEF SubmittedIsWhole
  <2>1. Whole(e) /\ e.classes \in Selectable
    BY DEF RegistrarInv, RegistrarTyped, Submissions
  <2>2. InMinutes(Timetable, e.classes)
    BY <2>1, TimetableType DEF InMinutes, Selectable, Sections
  <2>3. ~\E c, d \in e.classes : c # d /\ Clash(Timetable[c], Timetable[d])
    BY <2>1, <2>2, ConflictIsClash DEF Selectable
  <2>4. (e.classes \X e.classes) \cap Clashing = {}
    BY <2>3 DEF Clashing
  <2> QED
    BY <2>1, <2>4 DEF Whole
<1> QED
  BY <1>1, RegistrarInvariant, PTL

-----------------------------------------------------------------------------
(* The applicants' forms *)

FormTodo == {<<>>,
    <<"deleteBackground">> \o <<>>, <<"deleteBackground">> \o <<"insertBackground">>, <<"insertBackground">>,
    <<"insertDocument">>, <<"setSelection", "setProfileProgram">>, <<"setProfileProgram">>}

DocumentRows == [file : Nat, status : {"submitted", "approved", "rejected", "pending"}]

FormDomain == {"background", "selections", "program", "files", "documents", "acts"}

\* The tables of the forms: no document without its file, no program without
\* a selection.
FormsFit ==
    /\ DOMAIN db = FormDomain
    /\ db.selections \in [Candidates -> Choices \cup {None}] /\ DOMAIN db.program = Candidates
    /\ \A a \in Candidates : db.program[a] # None => db.selections[a] # None
    /\ db.files \in Nat
    /\ db.documents \subseteq DocumentRows /\ \A d \in db.documents : d.file \in 1 .. db.files

FormRequestOK(w) == ~Idle(w) =>
    /\ Head(todo[w]) = "insertDocument" => arg[w].value.file \in 1 .. db.files
    /\ Head(todo[w]) \in {"setSelection", "setProfileProgram"} => arg[w].id \in Candidates /\ arg[w].value \in Choices
    /\ Head(todo[w]) = "setProfileProgram" => db.selections[arg[w].id] # None

FormInv ==
    /\ Slots
    /\ \A w \in Workers : todo[w] \in FormTodo
    /\ FormsFit
    /\ \A w \in Workers : FormRequestOK(w)

\* What follows each step of a form.
LEMMA FormRoute ==
  ASSUME NEW r \in FormTodo, r # <<>>
  PROVE  /\ Head(r) \in {"deleteBackground", "insertBackground", "insertDocument", "setSelection", "setProfileProgram"}
         /\ Tail(r) \in FormTodo
         /\ Head(r) \in {"insertBackground", "insertDocument", "setProfileProgram"} => Tail(r) = <<>>
         /\ Head(r) = "deleteBackground" /\ Tail(r) # <<>> => Head(Tail(r)) = "insertBackground"
         /\ Head(r) = "setSelection" => Tail(r) # <<>> /\ Head(Tail(r)) = "setProfileProgram"
<1> DEFINE i == <<"insertBackground">>
           d == <<"insertDocument">>
           p == <<"setProfileProgram">>
           sp == <<"setSelection", "setProfileProgram">>
           b == <<"deleteBackground">> \o <<>>
           bi == <<"deleteBackground">> \o i
<1>1. /\ Head(i) = "insertBackground" /\ Tail(i) = <<>> /\ i # <<>>
      /\ Head(d) = "insertDocument" /\ Tail(d) = <<>>
      /\ Head(p) = "setProfileProgram" /\ Tail(p) = <<>> /\ p # <<>>
      /\ Head(sp) = "setSelection" /\ Tail(sp) = p
  OBVIOUS
<1>2. i \in Seq({"insertBackground"}) /\ <<>> \in Seq({"insertBackground"})
  OBVIOUS
<1>3. Head(b) = "deleteBackground" /\ Tail(b) = <<>> /\ Head(bi) = "deleteBackground" /\ Tail(bi) = i
  BY <1>2, Prefixed
<1>4. r \in {b, bi, i, d, sp, p} /\ {<<>>, i, p} \subseteq FormTodo
  BY DEF FormTodo
<1> HIDE DEF i, d, p, sp, b, bi
<1> QED
  BY <1>1, <1>3, <1>4

\* A step after which files and selections are still there keeps the
\* invariant, when the tables and its own request do.
LEMMA FormStep ==
  ASSUME FormInv, Slots', FormsFit', db.files <= db'.files,
         \A a \in Candidates : db.selections[a] # None => db'.selections[a] # None,
         \A v \in Workers : todo'[v] \in FormTodo,
         \A v \in Workers : (todo'[v] = todo[v] /\ arg'[v] = arg[v]) \/ FormRequestOK(v)'
  PROVE  FormInv'
<1>1. ASSUME NEW v \in Workers, todo'[v] = todo[v], arg'[v] = arg[v]
      PROVE  FormRequestOK(v)'
  BY <1>1 DEF FormInv, FormsFit, FormRequestOK, Idle
<1> QED
  BY <1>1 DEF FormInv

\* A form arrives, or a request ends.
LEMMA FormRequests ==
  ASSUME FormInv, NEW w \in Workers,
         SaveBackground(w) \/ UploadDocument(w) \/ SelectProgram(w) \/ Fail(w)
  PROVE  FormInv'
<1>1. Slots /\ FormsFit
  BY DEF FormInv
<1> DEFINE Sent(steps, locals) ==
               /\ Moves(w, steps, locals) /\ steps \in FormTodo
               /\ steps # <<>> /\ Head(steps) = "insertDocument" => locals.value.file \in 1 .. db'.files
               /\ steps # <<>> /\ Head(steps) \in {"setSelection", "setProfileProgram"} =>
                     Head(steps) = "setSelection" /\ locals.id \in Candidates /\ locals.value \in Choices
           Stays == db' = db \/ db' = [db EXCEPT !.files = db.files + 1]
<1>2. Stays /\ \E steps, locals : Sent(steps, locals)
  <2>1. CASE SaveBackground(w)
    <3>1. PICK a \in Candidates, steps \in {<<>>, <<"insertBackground">>} :
              ApplicantRequest("forms", w, <<"deleteBackground">> \o steps, a, None)
      BY <2>1 DEF SaveBackground
    <3>2. <<"deleteBackground">> \o steps \in FormTodo /\ Head(<<"deleteBackground">> \o steps) = "deleteBackground"
      <4>1. <<>> \in Seq({"insertBackground"}) /\ <<"insertBackground">> \in Seq({"insertBackground"})
        OBVIOUS
      <4> QED
        BY <3>1, <4>1, Prefixed DEF FormTodo
    <3>3. Moves(w, <<"deleteBackground">> \o steps, [id |-> a, value |-> None])
      BY <1>1, <3>1, TakeMoves DEF ApplicantRequest
    <3>4. db' = db
      BY <2>1 DEF SaveBackground
    <3>5. Sent(<<"deleteBackground">> \o steps, [id |-> a, value |-> None])
      BY <3>2, <3>3
    <3> QED
      BY <3>4, <3>5
  <2>2. CASE UploadDocument(w)
    <3>1. PICK file \in Nat : file = db.files + 1
      BY <1>1 DEF FormsFit
    <3>2. PICK locals : locals = [id |-> None, value |-> [file |-> file]]
      OBVIOUS
    <3>3. Take("forms", w, <<"insertDocument">>, locals) /\ db' = [db EXCEPT !.files = file]
      BY <2>2, <3>1, <3>2 DEF UploadDocument, ApplicantRequest
    <3>4. locals.value.file \in 1 .. db'.files
      BY <1>1, <3>1, <3>2, <3>3 DEF FormsFit, FormDomain
    <3>5. Head(<<"insertDocument">>) = "insertDocument" /\ <<"insertDocument">> \in FormTodo
      BY DEF FormTodo
    <3>6. Moves(w, <<"insertDocument">>, locals)
      BY <1>1, <3>3, TakeMoves
    <3>7. Sent(<<"insertDocument">>, locals)
      BY <3>4, <3>5, <3>6
    <3> QED
      BY <3>1, <3>3, <3>7
  <2>3. CASE SelectProgram(w)
    <3> DEFINE steps == <<"setSelection", "setProfileProgram">>
    <3>1. PICK a \in Candidates, p \in Choices : ApplicantRequest("forms", w, steps, a, p)
      BY <2>3 DEF SelectProgram
    <3>2. PICK locals : locals = [id |-> a, value |-> p]
      OBVIOUS
    <3>3. Moves(w, steps, locals)
      BY <1>1, <3>1, <3>2, TakeMoves DEF ApplicantRequest
    <3>4. Head(steps) = "setSelection" /\ steps \in FormTodo
      BY DEF FormTodo
    <3>5. Sent(steps, locals)
      BY <3>2, <3>3, <3>4
    <3> QED
      BY <2>3, <3>5 DEF SelectProgram
  <2>4. CASE Fail(w)
    <3>1. Sent(<<>>, None)
      BY <1>1, <2>4, FailMoves DEF FormTodo
    <3> QED
      BY <2>4, <3>1 DEF Fail
  <2> QED
    BY <2>1, <2>2, <2>3, <2>4
<1>3. PICK steps, locals : Sent(steps, locals)
  BY <1>2
<1>4. /\ DOMAIN db' = FormDomain /\ db'.selections = db.selections /\ db'.program = db.program
      /\ db'.documents = db.documents /\ db'.files \in Nat /\ db.files <= db'.files /\ db.files \in Nat
  BY <1>1, <1>2 DEF FormsFit, FormDomain
<1>5. FormsFit'
  BY <1>1, <1>4 DEF FormsFit
<1>6. FormRequestOK(w)'
  BY <1>3 DEF FormRequestOK, Moves, Idle
<1> QED
  BY <1>3, <1>4, <1>5, <1>6, FormStep DEF FormInv, Moves

\* The rows of a form are written, one statement after the other.
LEMMA FormWrites ==
  ASSUME FormInv, NEW w \in Workers,
         DeleteBackground(w) \/ InsertBackground(w) \/ InsertDocument(w) \/ SetSelection(w) \/ SetProfileProgram(w)
  PROVE  FormInv'
<1>1. Slots /\ FormsFit /\ todo[w] \in FormTodo /\ todo[w] # <<>> /\ Proceed(w)
  BY DEF FormInv, DeleteBackground, InsertBackground, InsertDocument, SetSelection, SetProfileProgram, At
<1>2. Moves(w, Tail(todo[w]), IF Tail(todo[w]) = <<>> THEN None ELSE arg[w]) /\ Tail(todo[w]) \in FormTodo
  BY <1>1, ProceedMoves, FormRoute
<1>3. FormRequestOK(w)
  BY DEF FormInv
<1> PICK id, value : id = arg[w].id /\ value = arg[w].value
  OBVIOUS
<1>4. CASE DeleteBackground(w) \/ InsertBackground(w)
  <2>1. \E rows : db' \in {db, [db EXCEPT !.background = rows]}
    <3>1. CASE DeleteBackground(w)
      <4>1. db' \in {db, [db EXCEPT !.background = [@ EXCEPT ![arg[w].id] = 0]]}
        BY <3>1 DEF DeleteBackground
      <4> QED
        BY <4>1
    <3>2. CASE InsertBackground(w)
      <4>1. db' = [db EXCEPT !.background = [@ EXCEPT ![arg[w].id] = db.background[arg[w].id] + 1]]
        BY <3>2 DEF InsertBackground
      <4> QED
        BY <4>1
    <3> QED
      BY <1>4, <3>1, <3>2
  <2>2. /\ DOMAIN db' = FormDomain /\ db'.selections = db.selections /\ db'.program = db.program
        /\ db'.documents = db.documents /\ db'.files = db.files
    BY <1>1, <2>1 DEF FormsFit, FormDomain
  <2>3. FormsFit' /\ db.files <= db'.files
    BY <1>1, <2>2 DEF FormsFit
  <2>4. Tail(todo[w]) # <<>> => Head(Tail(todo[w])) = "insertBackground"
    BY <1>1, <1>4, FormRoute DEF DeleteBackground, InsertBackground, At
  <2>5. FormRequestOK(w)'
    BY <1>2, <2>4 DEF FormRequestOK, Moves, Idle
  <2> QED
    BY <1>2, <2>2, <2>3, <2>5, FormStep DEF FormInv, Moves
<1>5. CASE InsertDocument(w)
  <2>1. Head(todo[w]) = "insertDocument" /\ Tail(todo[w]) = <<>> /\ value.file \in 1 .. db.files
    BY <1>1, <1>3, <1>5, FormRoute DEF InsertDocument, At, FormRequestOK, Idle
  <2>2. db' = [db EXCEPT !.documents = @ \cup {[file |-> value.file, status |-> "submitted"]}]
    BY <1>5 DEF InsertDocument
  <2>3. /\ DOMAIN db' = FormDomain /\ db'.selections = db.selections /\ db'.program = db.program
        /\ db'.files = db.files
        /\ db'.documents = db.documents \cup {[file |-> value.file, status |-> "submitted"]}
    BY <1>1, <2>2 DEF FormsFit, FormDomain
  <2>4. [file |-> value.file, status |-> "submitted"] \in DocumentRows
    BY <1>1, <2>1 DEF DocumentRows, FormsFit
  <2>5. FormsFit' /\ db.files <= db'.files
    BY <1>1, <2>1, <2>3, <2>4 DEF FormsFit
  <2>6. FormRequestOK(w)'
    BY <1>2, <2>1 DEF FormRequestOK, Moves, Idle
  <2> QED
    BY <1>2, <2>3, <2>5, <2>6, FormStep DEF FormInv, Moves
<1>6. CASE SetSelection(w)
  <2>1. /\ Head(todo[w]) = "setSelection" /\ id \in Candidates /\ value \in Choices
        /\ Tail(todo[w]) # <<>> /\ Head(Tail(todo[w])) = "setProfileProgram"
    BY <1>1, <1>3, <1>6, FormRoute DEF SetSelection, At, FormRequestOK, Idle
  <2>2. db' = [db EXCEPT !.selections = [@ EXCEPT ![id] = value]]
    BY <1>6 DEF SetSelection
  <2>3. /\ DOMAIN db' = FormDomain /\ db'.selections = [db.selections EXCEPT ![id] = value]
        /\ db'.program = db.program /\ db'.files = db.files /\ db'.documents = db.documents
    BY <1>1, <2>2 DEF FormsFit, FormDomain
  <2>4. value # None
    BY <2>1, NoneIsNoChoice
  <2>5. FormsFit' /\ db.files <= db'.files
        /\ \A a \in Candidates : db.selections[a] # None => db'.selections[a] # None
    BY <1>1, <2>1, <2>3, <2>4 DEF FormsFit
  <2>6. db'.selections[id] # None
    BY <1>1, <2>1, <2>3, <2>4 DEF FormsFit
  <2>7. FormRequestOK(w)'
    BY <1>2, <2>1, <2>6 DEF FormRequestOK, Moves, Idle
  <2> QED
    BY <1>2, <2>5, <2>7, FormStep DEF FormInv, Moves
<1>7. CASE SetProfileProgram(w)
  <2>1. Head(todo[w]) = "setProfileProgram" /\ id \in Candidates /\ db.selections[id] # None /\ Tail(todo[w]) = <<>>
    BY <1>1, <1>3, <1>7, FormRoute DEF SetProfileProgram, At, FormRequestOK, Idle
  <2>2. db' \in {db, [db EXCEPT !.program = [@ EXCEPT ![id] = value]]}
    BY <1>7 DEF SetProfileProgram
  <2>3. /\ DOMAIN db' = FormDomain /\ db'.selections = db.selections /\ db'.files = db.files
        /\ db'.documents = db.documents
        /\ db'.program = db.program \/ db'.program = [db.program EXCEPT ![id] = value]
    BY <1>1, <2>2 DEF FormsFit, FormDomain
  <2>4. FormsFit' /\ db.files <= db'.files
    BY <1>1, <2>1, <2>3 DEF FormsFit
  <2>5. FormRequestOK(w)'
    BY <1>2, <2>1 DEF FormRequestOK, Moves, Idle
  <2> QED
    BY <1>2, <2>3, <2>4, <2>5, FormStep DEF FormInv, Moves
<1> QED
  BY <1>4, <1>5, <1>6, <1>7

\* What the administrators do about a form.
LEMMA FormVerdicts ==
  ASSUME FormInv, NEW w \in Workers, verifyApplicantDocument(w) \/ updateAdminProgramSelection(w)
  PROVE  FormInv'
<1>1. Slots /\ FormsFit
  BY DEF FormInv
<1>2. Rests
  BY <1>1, ServeRests DEF verifyApplicantDocument, updateAdminProgramSelection
<1>3. FormsFit' /\ db'.files = db.files /\ \A a \in Candidates : db.selections[a] # None => db'.selections[a] # None
  <2>1. CASE verifyApplicantDocument(w)
    <3>1. PICK document \in db.documents, status \in {"approved", "rejected", "pending"} :
              db' = [db EXCEPT !.documents = (@ \ {document}) \cup {[document EXCEPT !.status = status]}]
      BY <2>1 DEF verifyApplicantDocument
    <3>2. PICK row : row = [document EXCEPT !.status = status]
      OBVIOUS
    <3>3. row \in DocumentRows /\ row.file \in 1 .. db.files
      BY <1>1, <3>2 DEF FormsFit, DocumentRows
    <3>4. /\ DOMAIN db' = FormDomain /\ db'.selections = db.selections /\ db'.program = db.program
          /\ db'.files = db.files /\ db'.documents = (db.documents \ {document}) \cup {row}
      BY <1>1, <3>1, <3>2 DEF FormsFit, FormDomain
    <3> QED
      BY <1>1, <3>3, <3>4 DEF FormsFit
  <2>2. CASE updateAdminProgramSelection(w)
    <3>1. PICK a \in Candidates, p \in Choices :
              db' = [db EXCEPT !.selections = [@ EXCEPT ![a] = p], !.acts = @ + 1]
      BY <2>2 DEF updateAdminProgramSelection
    <3>2. /\ DOMAIN db' = FormDomain /\ db'.selections = [db.selections EXCEPT ![a] = p]
          /\ db'.program = db.program /\ db'.files = db.files /\ db'.documents = db.documents
      BY <1>1, <3>1 DEF FormsFit, FormDomain
    <3>3. p # None
      BY NoneIsNoChoice
    <3> QED
      BY <1>1, <3>2, <3>3 DEF FormsFit
  <2> QED
    BY <2>1, <2>2
<1>4. db.files <= db'.files
  BY <1>1, <1>3 DEF FormsFit
<1> QED
  BY <1>2, <1>3, <1>4, FormStep DEF FormInv, Rests

-----------------------------------------------------------------------------
(* The administrators' decisions *)

DecisionTodo == {<<>>,
    <<"setStatus", "letter", "statusEvent">>, <<"letter", "statusEvent">>,
    <<"setStatus", "statusEvent">>, <<"statusEvent">>,
    <<"exam", "examStatus", "examAudit">>, <<"examStatus", "examAudit">>, <<"examAudit">>,
    <<"readProfile", "insertAccount", "setEnrolled", "convertedAudit">>,
    <<"insertAccount", "setEnrolled", "convertedAudit">>, <<"setEnrolled", "convertedAudit">>, <<"convertedAudit">>}

Verdicts == [status : {"Accepted", "Rejected"}, number : Nat \cup {None}, letter : BOOLEAN]

DecisionDomain == {"profiles", "results", "accounts", "activity", "acts"}

DecisionTyped ==
    /\ DOMAIN db = DecisionDomain
    /\ db.profiles \in [Candidates -> ProfileRows \cup {None}]
    /\ DOMAIN db.results = Candidates
    /\ db.accounts \in [Candidates -> Nat \cup {None}]

\* A request knows what the statements behind it have written.
DecisionRequestOK(w) == ~Idle(w) =>
    /\ DOMAIN arg[w] = {"id", "value"} /\ arg[w].id \in Candidates /\ Profiled(arg[w].id)
    /\ Head(todo[w]) = "setStatus" =>
          /\ arg[w].value \in Verdicts
          /\ arg[w].value.letter => todo[w] = <<"setStatus", "letter", "statusEvent">>
    /\ Head(todo[w]) = "statusEvent" /\ arg[w].value.letter => "letter" \in db.results[arg[w].id]
    /\ Head(todo[w]) \in {"examStatus", "examAudit"} => "exam" \in db.results[arg[w].id]
    /\ Head(todo[w]) = "insertAccount" => arg[w].value.number \in Nat \cup {None}
    /\ Head(todo[w]) = "setEnrolled" => db.accounts[arg[w].id] # None
    /\ Head(todo[w]) = "convertedAudit" => db.profiles[arg[w].id].enrolled

\* What AdmissionTrail says of one applicant.
Decided(a) ==
    /\ Profiled(a) => NumberFree(a, db.profiles[a].number)
    /\ Profiled(a) /\ db.profiles[a].enrolled => db.accounts[a] # None
    /\ <<"converted", a>> \in db.activity => Profiled(a) /\ db.profiles[a].enrolled
    /\ \A what \in {"exam", "letter"} : <<what, a>> \in db.activity => what \in db.results[a]

DecisionInv ==
    /\ Slots
    /\ \A w \in Workers : todo[w] \in DecisionTodo
    /\ DecisionTyped
    /\ \A w \in Workers : DecisionRequestOK(w)
    /\ \A a \in Candidates : Decided(a)

\* No applicant, enrollment, account or result goes away.
Stands == \A a \in Candidates :
    /\ Profiled(a) => db'.profiles[a] # None /\ (db.profiles[a].enrolled => db'.profiles[a].enrolled)
    /\ db.accounts[a] # None => db'.accounts[a] # None
    /\ db.results[a] \subseteq db'.results[a]

\* What follows each step of a decision.
LEMMA DecisionRoute ==
  ASSUME NEW r \in DecisionTodo, r # <<>>
  PROVE  /\ Tail(r) \in DecisionTodo
         /\ Head(r) \in {"statusEvent", "examAudit", "convertedAudit"} => Tail(r) = <<>>
         /\ Head(r) = "setStatus" => Tail(r) # <<>> /\ Head(Tail(r)) \in {"letter", "statusEvent"}
         /\ r = <<"setStatus", "letter", "statusEvent">> => Head(Tail(r)) = "letter"
         /\ Head(r) = "letter" => Tail(r) # <<>> /\ Head(Tail(r)) = "statusEvent"
         /\ Head(r) = "exam" => Tail(r) # <<>> /\ Head(Tail(r)) = "examStatus"
         /\ Head(r) = "examStatus" => Tail(r) # <<>> /\ Head(Tail(r)) = "examAudit"
         /\ Head(r) = "readProfile" => Tail(r) # <<>> /\ Head(Tail(r)) = "insertAccount"
         /\ Head(r) = "insertAccount" => Tail(r) # <<>> /\ Head(Tail(r)) = "setEnrolled"
         /\ Head(r) = "setEnrolled" => Tail(r) # <<>> /\ Head(Tail(r)) = "convertedAudit"
<1> DEFINE e == <<"statusEvent">>
           le == <<"letter", "statusEvent">>
           sle == <<"setStatus", "letter", "statusEvent">>
           se == <<"setStatus", "statusEvent">>
           x == <<"examAudit">>
           sx == <<"examStatus", "examAudit">>
           xsx == <<"exam", "examStatus", "examAudit">>
           c == <<"convertedAudit">>
           sc == <<"setEnrolled", "convertedAudit">>
           isc == <<"insertAccount", "setEnrolled", "convertedAudit">>
           risc == <<"readProfile", "insertAccount", "setEnrolled", "convertedAudit">>
<1>1. /\ Head(e) = "statusEvent" /\ Tail(e) = <<>> /\ e # <<>>
      /\ Head(le) = "letter" /\ Tail(le) = e /\ le # <<>>
      /\ Head(sle) = "setStatus" /\ Tail(sle) = le
      /\ Head(se) = "setStatus" /\ Tail(se) = e
  OBVIOUS
<1>2. /\ Head(x) = "examAudit" /\ Tail(x) = <<>> /\ x # <<>>
      /\ Head(sx) = "examStatus" /\ Tail(sx) = x /\ sx # <<>>
      /\ Head(xsx) = "exam" /\ Tail(xsx) = sx
  OBVIOUS
<1>3. /\ Head(c) = "convertedAudit" /\ Tail(c) = <<>> /\ c # <<>>
      /\ Head(sc) = "setEnrolled" /\ Tail(sc) = c /\ sc # <<>>
      /\ Head(isc) = "insertAccount" /\ Tail(isc) = sc /\ isc # <<>>
      /\ Head(risc) = "readProfile" /\ Tail(risc) = isc
  OBVIOUS
<1>4. /\ r \in {e, le, sle, se, x, sx, xsx, c, sc, isc, risc}
      /\ {<<>>, e, le, x, sx, c, sc, isc} \subseteq DecisionTodo
      /\ sle = <<"setStatus", "letter", "statusEvent">>
  BY DEF DecisionTodo
<1> HIDE DEF e, le, sle, se, x, sx, xsx, c, sc, isc, risc
<1>5. CASE r \in {e, le, sle, se}
  BY <1>1, <1>4, <1>5
<1>6. CASE r \in {x, sx, xsx}
  <2>1. Head(sle) # Head(r)
    BY <1>1, <1>2, <1>6
  <2> QED
    BY <1>2, <1>4, <1>6, <2>1
<1>7. CASE r \in {c, sc, isc, risc}
  <2>1. Head(sle) # Head(r)
    BY <1>1, <1>3, <1>7
  <2> QED
    BY <1>3, <1>4, <1>7, <2>1
<1> QED
  BY <1>4, <1>5, <1>6, <1>7

\* The statements of a decision are none of a form.
LEMMA DecisionHead ==
  ASSUME NEW r \in DecisionTodo, r # <<>>
  PROVE  Head(r) \in {"setStatus", "letter", "statusEvent", "exam", "examStatus", "examAudit",
                      "readProfile", "insertAccount", "setEnrolled", "convertedAudit"}
BY DEF DecisionTodo

\* A step that takes nothing away keeps the invariant, when the tables and its
\* own request do.
LEMMA DecisionStep ==
  ASSUME DecisionInv, Slots', DecisionTyped', Stands, \A a \in Candidates : Decided(a)',
         \A v \in Workers : todo'[v] \in DecisionTodo,
         \A v \in Workers : (todo'[v] = todo[v] /\ arg'[v] = arg[v]) \/ DecisionRequestOK(v)'
  PROVE  DecisionInv'
<1>1. ASSUME NEW v \in Workers, todo'[v] = todo[v], arg'[v] = arg[v]
      PROVE  DecisionRequestOK(v)'
  <2> SUFFICES ASSUME ~Idle(v)
               PROVE  DecisionRequestOK(v)'
    BY <1>1 DEF DecisionRequestOK, Idle
  <2> PICK a \in Candidates : a = arg[v].id /\ Profiled(a) /\ DecisionRequestOK(v)
    BY DEF DecisionInv, DecisionRequestOK
  <2>1. Profiled(a)' /\ (db.profiles[a].enrolled => db'.profiles[a].enrolled)
        /\ (db.accounts[a] # None => db'.accounts[a] # None) /\ db.results[a] \subseteq db'.results[a]
    BY DEF Stands, Profiled
  <2> QED
    BY <1>1, <2>1 DEF DecisionRequestOK, Profiled
<1> QED
  BY <1>1 DEF DecisionInv

\* Steps that write none of these tables.
LEMMA DecisionsStay ==
  ASSUME DecisionInv, DOMAIN db' = DecisionDomain,
         db'.profiles = db.profiles, db'.results = db.results, db'.accounts = db.accounts, db'.activity = db.activity
  PROVE  DecisionTyped' /\ Stands /\ \A a \in Candidates : Decided(a)'
BY DEF DecisionInv, DecisionTyped, Stands, Decided, Profiled, NumberFree

\* One applicant's row changes.
LEMMA ProfileChanges ==
  ASSUME DecisionInv, NEW a \in Candidates, NEW row \in ProfileRows,
         DOMAIN db' = DecisionDomain, db'.profiles = [db.profiles EXCEPT ![a] = row],
         db'.results = db.results, db'.accounts = db.accounts, db'.activity = db.activity,
         Profiled(a) => (db.profiles[a].enrolled => row.enrolled),
         NumberFree(a, row.number),
         row.enrolled => db.accounts[a] # None
  PROVE  DecisionTyped' /\ Stands /\ \A b \in Candidates : Decided(b)'
<1>1. row # None
  BY NoneIsNoProfile
<1>2. DecisionTyped /\ \A b \in Candidates : Decided(b)
  BY DEF DecisionInv
<1>3. db'.profiles[a] = row /\ \A b \in Candidates \ {a} : db'.profiles[b] = db.profiles[b]
  BY <1>2 DEF DecisionTyped
<1>4. DecisionTyped'
  BY <1>2, <1>3 DEF DecisionTyped
<1>5. Stands
  BY <1>1, <1>3 DEF Stands, Profiled
<1>6. ASSUME NEW b \in Candidates
      PROVE  Decided(b)'
  <2>1. CASE b = a
    BY <1>1, <1>2, <1>3, <2>1 DEF Decided, Profiled, NumberFree
  <2>2. CASE b # a
    <3>1. Profiled(b) => row.number # db.profiles[b].number \/ row.number = None
      BY <2>2 DEF NumberFree
    <3>2. db'.profiles[b] = db.profiles[b]
      BY <1>3, <2>2
    <3>3. ASSUME Profiled(b), db.profiles[b].number # None, NEW c \in Candidates \ {b}, db'.profiles[c] # None
          PROVE  db'.profiles[c].number # db.profiles[b].number
      <4>1. CASE c = a
        BY <1>3, <3>1, <3>3, <4>1
      <4>2. CASE c # a
        <5>1. db'.profiles[c] = db.profiles[c]
          BY <1>3, <4>2
        <5> QED
          BY <1>2, <3>3, <5>1 DEF Decided, NumberFree, Profiled
      <4> QED
        BY <4>1, <4>2
    <3>4. Profiled(b)' => NumberFree(b, db.profiles[b].number)'
      BY <3>2, <3>3 DEF Profiled, NumberFree
    <3> QED
      BY <1>2, <3>2, <3>4 DEF Decided, Profiled
  <2> QED
    BY <2>1, <2>2
<1> QED
  BY <1>4, <1>5, <1>6

\* A request arrives or ends, or reads the profile.
LEMMA DecisionRequests ==
  ASSUME DecisionInv, NEW w \in Workers,
         updateAdminApplicationStatus(w) \/ scheduleEntranceExam(w) \/ convertAcceptedApplicantToStudent(w)
           \/ ReadProfile(w) \/ Fail(w)
  PROVE  DecisionInv'
<1>1. Slots /\ DecisionTyped
  BY DEF DecisionInv
<1>2. /\ DOMAIN db' = DecisionDomain
      /\ db'.profiles = db.profiles /\ db'.results = db.results /\ db'.accounts = db.accounts /\ db'.activity = db.activity
  <2>1. db' = db \/ db' = [db EXCEPT !.acts = @ + 1]
    BY DEF updateAdminApplicationStatus, scheduleEntranceExam, convertAcceptedApplicantToStudent, AdminRequest,
       ReadProfile, Fail
  <2> QED
    BY <1>1, <2>1 DEF DecisionTyped, DecisionDomain
<1> DEFINE Sent(steps, locals) ==
               /\ Moves(w, steps, locals) /\ steps \in DecisionTodo
               /\ steps # <<>> =>
                     /\ DOMAIN locals = {"id", "value"} /\ locals.id \in Candidates /\ Profiled(locals.id)
                     /\ Head(steps) \in {"setStatus", "exam", "readProfile", "insertAccount"}
                     /\ Head(steps) = "setStatus" =>
                           /\ locals.value \in Verdicts
                           /\ locals.value.letter => steps = <<"setStatus", "letter", "statusEvent">>
                     /\ Head(steps) = "insertAccount" => locals.value.number \in Nat \cup {None}
<1>3. \A n \in generate_applicant_number : n \in Nat \cup {None}
  <2>1. IsFiniteSet({a \in Candidates : Profiled(a)})
    BY ApplicationBounds, FS_Subset
  <2> QED
    BY <2>1, FS_CardinalityType DEF generate_applicant_number
<1>4. \E steps, locals : Sent(steps, locals)
  <2>1. CASE updateAdminApplicationStatus(w)
    <3>1. PICK a \in Candidates, status \in {"Accepted", "Rejected"}, letter \in BOOLEAN :
              \E number \in IF status \in Passing THEN generate_applicant_number ELSE {0} :
                  AdminRequest(w, IF letter THEN <<"setStatus", "letter", "statusEvent">> ELSE <<"setStatus", "statusEvent">>,
                      a, [status |-> status, number |-> number, letter |-> letter])
      BY <2>1 DEF updateAdminApplicationStatus
    <3>2. PICK number \in Nat \cup {None} :
              AdminRequest(w, IF letter THEN <<"setStatus", "letter", "statusEvent">> ELSE <<"setStatus", "statusEvent">>,
                  a, [status |-> status, number |-> number, letter |-> letter])
      BY <1>3, <3>1
    <3>3. PICK value \in Verdicts : value = [status |-> status, number |-> number, letter |-> letter]
      BY DEF Verdicts
    <3>4. PICK locals : locals = [id |-> a, value |-> value]
      OBVIOUS
    <3>5. PICK steps \in {<<"setStatus", "letter", "statusEvent">>, <<"setStatus", "statusEvent">>} :
              /\ letter => steps = <<"setStatus", "letter", "statusEvent">>
              /\ Take("decisions", w, steps, locals)
      BY <3>2, <3>3, <3>4 DEF AdminRequest, ApplicantRequest
    <3>6. Moves(w, steps, locals) /\ Profiled(a)
      BY <1>1, <3>2, <3>5, TakeMoves DEF AdminRequest
    <3>7. Head(steps) = "setStatus" /\ steps \in DecisionTodo
      BY <3>5 DEF DecisionTodo
    <3>8. DOMAIN locals = {"id", "value"} /\ locals.id = a /\ locals.value \in Verdicts
          /\ (locals.value.letter => steps = <<"setStatus", "letter", "statusEvent">>)
      BY <3>3, <3>4, <3>5
    <3>9. Sent(steps, locals)
      BY <3>6, <3>7, <3>8
    <3> QED
      BY <3>9
  <2>2. CASE scheduleEntranceExam(w) \/ convertAcceptedApplicantToStudent(w)
    <3>1. PICK steps \in {<<"exam", "examStatus", "examAudit">>,
                          <<"readProfile", "insertAccount", "setEnrolled", "convertedAudit">>}, a \in Candidates :
              AdminRequest(w, steps, a, None)
      BY <2>2 DEF scheduleEntranceExam, convertAcceptedApplicantToStudent
    <3>2. PICK locals : locals = [id |-> a, value |-> None]
      OBVIOUS
    <3>3. Moves(w, steps, locals) /\ Profiled(a)
      BY <1>1, <3>1, <3>2, TakeMoves DEF AdminRequest, ApplicantRequest
    <3>4. Head(steps) \in {"exam", "readProfile"} /\ steps \in DecisionTodo
      BY <3>1 DEF DecisionTodo
    <3>5. Sent(steps, locals)
      BY <3>2, <3>3, <3>4
    <3> QED
      BY <3>5
  <2>3. CASE ReadProfile(w)
    <3>1. /\ todo[w] \in DecisionTodo /\ todo[w] # <<>> /\ Head(todo[w]) = "readProfile"
          /\ DOMAIN arg[w] = {"id", "value"} /\ arg[w].id \in Candidates /\ Profiled(arg[w].id)
      BY <2>3 DEF DecisionInv, DecisionRequestOK, Idle, ReadProfile, At
    <3>2. db.profiles[arg[w].id].number \in Nat \cup {None}
      BY <1>1, <3>1 DEF DecisionTyped, ProfileRows, Profiled
    <3>3. PICK n \in Nat \cup {None} : ProceedWith(w, [arg[w] EXCEPT !.value = [number |-> n]])
      BY <1>3, <2>3, <3>2 DEF ReadProfile
    <3>4. PICK locals : locals = [arg[w] EXCEPT !.value = [number |-> n]]
      OBVIOUS
    <3>5. Tail(todo[w]) # <<>> /\ Head(Tail(todo[w])) = "insertAccount" /\ Tail(todo[w]) \in DecisionTodo
      BY <3>1, DecisionRoute
    <3>6. Moves(w, Tail(todo[w]), locals)
      BY <1>1, <3>3, <3>4, <3>5, ProceedWithMoves
    <3>7. DOMAIN locals = {"id", "value"} /\ locals.id = arg[w].id /\ locals.value.number = n
      BY <3>1, <3>4
    <3>8. Sent(Tail(todo[w]), locals)
      BY <3>1, <3>5, <3>6, <3>7
    <3> QED
      BY <3>8
  <2>4. CASE Fail(w)
    <3>1. Sent(<<>>, None)
      BY <1>1, <2>4, FailMoves DEF DecisionTodo
    <3> QED
      BY <3>1
  <2> QED
    BY <2>1, <2>2, <2>3, <2>4
<1>5. PICK steps, locals : Sent(steps, locals)
  BY <1>4
<1>6. DecisionRequestOK(w)'
  BY <1>2, <1>5 DEF DecisionRequestOK, Moves, Idle, Profiled
<1>7. \A v \in Workers : todo'[v] \in DecisionTodo
  BY <1>5 DEF DecisionInv, Moves
<1>8. Slots' /\ \A v \in Workers \ {w} : todo'[v] = todo[v] /\ arg'[v] = arg[v]
  BY <1>5 DEF Moves
<1>9. DecisionTyped' /\ Stands /\ \A a \in Candidates : Decided(a)'
  BY <1>2, DecisionsStay
<1> QED
  BY <1>6, <1>7, <1>8, <1>9, DecisionStep

\* Profiles that one statement creates or changes.
LEMMA ProfileVerdicts ==
  ASSUME DecisionInv, NEW w \in Workers, CreateProfile(w) \/ Submit(w) \/ SetWorkflowStatus(w)
  PROVE  DecisionInv'
<1>1. Slots /\ DecisionTyped /\ \A a \in Candidates : Decided(a)
  BY DEF DecisionInv
<1>2. Rests
  BY <1>1, ServeRests, ZenonT(40) DEF CreateProfile, Submit, SetWorkflowStatus
<1> DEFINE Changes(a, row) ==
               /\ DOMAIN db' = DecisionDomain /\ db'.profiles = [db.profiles EXCEPT ![a] = row]
               /\ db'.results = db.results /\ db'.accounts = db.accounts /\ db'.activity = db.activity
               /\ Profiled(a) => (db.profiles[a].enrolled => row.enrolled)
               /\ NumberFree(a, row.number)
               /\ row.enrolled => db.accounts[a] # None
<1>3. \E a \in Candidates, row \in ProfileRows : Changes(a, row)
  <2>1. CASE CreateProfile(w)
    <3>1. PICK a \in Candidates : /\ ~Profiled(a)
                                  /\ db' = [db EXCEPT !.profiles = [@ EXCEPT ![a] =
                                        [status |-> "Under Review", number |-> None, enrolled |-> FALSE]]]
      BY <2>1 DEF CreateProfile
    <3>2. PICK row \in ProfileRows : row = [status |-> "Under Review", number |-> None, enrolled |-> FALSE]
      BY DEF ProfileRows
    <3>3. row.number = None /\ row.enrolled = FALSE
      BY <3>2
    <3>4. /\ DOMAIN db' = DecisionDomain /\ db'.profiles = [db.profiles EXCEPT ![a] = row]
          /\ db'.results = db.results /\ db'.accounts = db.accounts /\ db'.activity = db.activity
      BY <1>1, <3>1, <3>2 DEF DecisionTyped, DecisionDomain
    <3>5. Changes(a, row)
      BY <3>1, <3>3, <3>4 DEF NumberFree
    <3> HIDE DEF Changes
    <3> QED
      BY <3>5
  <2>2. CASE Submit(w) \/ SetWorkflowStatus(w)
    <3>1. PICK a \in Candidates, status \in {"Under Review", "For Interview", "Missing Requirements"} :
              /\ Profiled(a)
              /\ \/ db' = [db EXCEPT !.profiles = [@ EXCEPT ![a] = [db.profiles[a] EXCEPT !.status = status]]]
                 \/ db' = [db EXCEPT !.profiles = [@ EXCEPT ![a] = [db.profiles[a] EXCEPT !.status = status]],
                                     !.acts = @ + 1]
      <4>1. CASE Submit(w)
        BY <4>1 DEF Submit
      <4>2. CASE SetWorkflowStatus(w)
        BY <4>2 DEF SetWorkflowStatus
      <4> QED
        BY <2>2, <4>1, <4>2
    <3>2. PICK row : row = [db.profiles[a] EXCEPT !.status = status]
      OBVIOUS
    <3>3. db.profiles[a] \in ProfileRows
      BY <1>1, <3>1 DEF DecisionTyped, Profiled
    <3>4. row \in ProfileRows /\ row.number = db.profiles[a].number /\ row.enrolled = db.profiles[a].enrolled
      BY <3>2, <3>3 DEF ProfileRows
    <3>5. /\ DOMAIN db' = DecisionDomain /\ db'.profiles = [db.profiles EXCEPT ![a] = row]
          /\ db'.results = db.results /\ db'.accounts = db.accounts /\ db'.activity = db.activity
      BY <1>1, <3>1, <3>2, ZenonT(40) DEF DecisionTyped, DecisionDomain
    <3>6. Changes(a, row)
      BY <1>1, <3>1, <3>4, <3>5, ZenonT(40) DEF Decided
    <3> HIDE DEF Changes
    <3> QED
      BY <3>4, <3>6, ZenonT(40)
  <2> QED
    BY <2>1, <2>2
<1>4. DecisionTyped' /\ Stands /\ \A a \in Candidates : Decided(a)'
  BY <1>3, ProfileChanges
<1> QED
  BY <1>2, <1>4, DecisionStep DEF DecisionInv, Rests

\* Profiles that a statement of a longer request changes.
LEMMA ProfileWrites ==
  ASSUME DecisionInv, NEW w \in Workers, SetStatus(w) \/ SetExamStatus(w) \/ SetEnrolled(w)
  PROVE  DecisionInv'
<1>1. Slots /\ DecisionTyped /\ (\A a \in Candidates : Decided(a)) /\ todo[w] \in DecisionTodo /\ todo[w] # <<>>
      /\ DecisionRequestOK(w)
  BY DEF DecisionInv, SetStatus, SetExamStatus, SetEnrolled, At
<1>2. PICK a \in Candidates : a = arg[w].id /\ Profiled(a)
  BY <1>1 DEF DecisionRequestOK, Idle
<1>3. db.profiles[a] \in ProfileRows
  BY <1>1, <1>2 DEF DecisionTyped, Profiled
<1> DEFINE Changes(row) ==
               /\ DOMAIN db' = DecisionDomain /\ db'.profiles = [db.profiles EXCEPT ![a] = row]
               /\ db'.results = db.results /\ db'.accounts = db.accounts /\ db'.activity = db.activity
               /\ db.profiles[a].enrolled => row.enrolled
               /\ NumberFree(a, row.number)
               /\ row.enrolled => db.accounts[a] # None
<1>4. CASE SetStatus(w)
  <2>1. Head(todo[w]) = "setStatus" /\ arg[w].value \in Verdicts /\ DOMAIN arg[w] = {"id", "value"}
        /\ (arg[w].value.letter => todo[w] = <<"setStatus", "letter", "statusEvent">>)
    BY <1>1, <1>4 DEF SetStatus, At, DecisionRequestOK, Idle
  <2>2. PICK status \in {"Accepted", "Rejected"}, number \in Nat \cup {None}, letter \in BOOLEAN :
            status = arg[w].value.status /\ number = arg[w].value.number /\ letter = arg[w].value.letter
    BY <2>1 DEF Verdicts
  <2>3. PICK kept : kept = IF number = 0 THEN db.profiles[a].number ELSE number
    OBVIOUS
  <2>4. kept \in Nat \cup {None} /\ NumberFree(a, kept)
    BY <1>1, <1>2, <1>3, <1>4, <2>2, <2>3 DEF SetStatus, ProfileRows, Decided
  <2>5. PICK row : row = [db.profiles[a] EXCEPT !.status = status, !.number = kept]
    OBVIOUS
  <2>6. row \in ProfileRows /\ row.number = kept /\ row.enrolled = db.profiles[a].enrolled
    BY <1>3, <2>4, <2>5 DEF ProfileRows
  <2>7. db' = [db EXCEPT !.profiles = [@ EXCEPT ![a] = row]]
    <3>1. db' = [db EXCEPT !.profiles[a].status = status,
                           !.profiles[a].number = IF number = 0 THEN @ ELSE number]
      BY <1>2, <1>4, <2>2 DEF SetStatus
    <3>2. db' = [db EXCEPT !.profiles = [db.profiles EXCEPT ![a] =
              [db.profiles[a] EXCEPT !.status = status, !.number = IF number = 0 THEN @ ELSE number]]]
      BY <1>1, <1>3, <3>1 DEF DecisionTyped, DecisionDomain, ProfileRows
    <3>3. row = [db.profiles[a] EXCEPT !.status = status, !.number = IF number = 0 THEN @ ELSE number]
      BY <1>3, <2>3, <2>5 DEF ProfileRows
    <3> QED
      BY <3>2, <3>3
  <2>8. Changes(row)
    BY <1>1, <1>2, <2>4, <2>6, <2>7 DEF DecisionTyped, DecisionDomain, Decided
  <2>9. DecisionTyped' /\ Stands /\ \A b \in Candidates : Decided(b)'
    BY <2>6, <2>8, ProfileChanges
  <2>10. PICK locals : locals = [arg[w] EXCEPT !.value = [letter |-> letter]]
    OBVIOUS
  <2>11. ProceedWith(w, locals) /\ locals.id = a /\ locals.value.letter = letter /\ DOMAIN locals = {"id", "value"}
    BY <1>2, <1>4, <2>1, <2>2, <2>10 DEF SetStatus
  <2>12. Tail(todo[w]) \in DecisionTodo /\ Tail(todo[w]) # <<>> /\ Head(Tail(todo[w])) \in {"letter", "statusEvent"}
         /\ (letter => Head(Tail(todo[w])) = "letter")
    BY <1>1, <2>1, <2>2, DecisionRoute
  <2>13. Moves(w, Tail(todo[w]), locals)
    BY <1>1, <2>11, <2>12, ProceedWithMoves
  <2>14. Profiled(a)'
    BY <1>2, <2>9 DEF Stands, Profiled
  <2>15. DecisionRequestOK(w)'
    BY <2>11, <2>12, <2>13, <2>14 DEF DecisionRequestOK, Moves, Idle, Profiled
  <2> QED
    BY <2>9, <2>12, <2>13, <2>15, DecisionStep DEF DecisionInv, Moves
<1>5. CASE SetExamStatus(w) \/ SetEnrolled(w)
  <2>1. /\ SetExamStatus(w) => Head(todo[w]) = "examStatus" /\ "exam" \in db.results[a]
        /\ SetEnrolled(w) => Head(todo[w]) = "setEnrolled" /\ db.accounts[a] # None
        /\ Proceed(w) /\ DOMAIN arg[w] = {"id", "value"}
    BY <1>1, <1>2, <1>5 DEF SetExamStatus, SetEnrolled, At, DecisionRequestOK, Idle
  <2>2. PICK row : row = IF SetExamStatus(w) THEN [db.profiles[a] EXCEPT !.status = "For Exam"]
                                             ELSE [db.profiles[a] EXCEPT !.enrolled = TRUE]
    OBVIOUS
  <2>3. db' = [db EXCEPT !.profiles = [@ EXCEPT ![a] = row]]
    BY <1>2, <1>5, <2>2 DEF SetExamStatus, SetEnrolled
  <2>4. row \in ProfileRows /\ row.number = db.profiles[a].number
        /\ row.enrolled = IF SetExamStatus(w) THEN db.profiles[a].enrolled ELSE TRUE
    BY <1>3, <2>2 DEF ProfileRows
  <2>5. Changes(row)
    BY <1>1, <1>2, <1>5, <2>1, <2>3, <2>4 DEF DecisionTyped, DecisionDomain, Decided
  <2>6. DecisionTyped' /\ Stands /\ \A b \in Candidates : Decided(b)'
    BY <2>4, <2>5, ProfileChanges
  <2>7. Tail(todo[w]) \in DecisionTodo /\ Tail(todo[w]) # <<>>
        /\ (SetExamStatus(w) => Head(Tail(todo[w])) = "examAudit")
        /\ (SetEnrolled(w) => Head(Tail(todo[w])) = "convertedAudit")
    <3>1. /\ Tail(todo[w]) \in DecisionTodo
          /\ Head(todo[w]) = "examStatus" => Tail(todo[w]) # <<>> /\ Head(Tail(todo[w])) = "examAudit"
          /\ Head(todo[w]) = "setEnrolled" => Tail(todo[w]) # <<>> /\ Head(Tail(todo[w])) = "convertedAudit"
      BY <1>1, DecisionRoute
    <3> QED
      BY <1>5, <2>1, <3>1, Zenon
  <2>8. Moves(w, Tail(todo[w]), arg[w])
    BY <1>1, <2>1, <2>7, ProceedMoves
  <2>9. Profiled(a)' /\ db'.profiles[a] = row /\ db'.results = db.results
    BY <1>1, <1>2, <2>5, <2>6 DEF Stands, Profiled, DecisionTyped
  <2>10. DecisionRequestOK(w)'
    <3>1. CASE SetExamStatus(w)
      BY <1>2, <2>1, <2>7, <2>8, <2>9, <3>1 DEF DecisionRequestOK, Moves, Idle, Profiled
    <3>2. CASE ~SetExamStatus(w)
      BY <1>2, <1>5, <2>1, <2>4, <2>7, <2>8, <2>9, <3>2 DEF DecisionRequestOK, Moves, Idle, Profiled
    <3> QED
      BY <3>1, <3>2
  <2> QED
    BY <2>6, <2>7, <2>8, <2>10, DecisionStep DEF DecisionInv, Moves
<1> QED
  BY <1>4, <1>5

\* Every applicant's row stays, and what is announced is there.
LEMMA StillDecided ==
  ASSUME DecisionInv, db'.profiles = db.profiles,
         \A a \in Candidates : db.accounts[a] # None => db'.accounts[a] # None,
         \A a \in Candidates : <<"converted", a>> \in db'.activity => Profiled(a) /\ db.profiles[a].enrolled,
         \A a \in Candidates : \A what \in {"exam", "letter"} : <<what, a>> \in db'.activity => what \in db'.results[a]
  PROVE  \A a \in Candidates : Decided(a)'
<1> SUFFICES ASSUME NEW a \in Candidates
             PROVE  Decided(a)'
  OBVIOUS
<1>1. Decided(a)
  BY DEF DecisionInv
<1>2. NumberFree(a, db.profiles[a].number)' <=> NumberFree(a, db.profiles[a].number)
  BY DEF NumberFree, Profiled
<1>3. Profiled(a)' <=> Profiled(a)
  BY DEF Profiled
<1> QED
  BY <1>1, <1>2, <1>3 DEF Decided

\* The letter and the exam are recorded.
LEMMA ResultWrites ==
  ASSUME DecisionInv, NEW w \in Workers, SendLetter(w) \/ ScheduleExam(w)
  PROVE  DecisionInv'
<1>1. Slots /\ DecisionTyped /\ (\A a \in Candidates : Decided(a)) /\ todo[w] \in DecisionTodo /\ todo[w] # <<>>
      /\ DecisionRequestOK(w) /\ Proceed(w) /\ Head(todo[w]) \in {"letter", "exam"}
  BY DEF DecisionInv, SendLetter, ScheduleExam, At
<1>2. PICK a \in Candidates : a = arg[w].id /\ Profiled(a) /\ DOMAIN arg[w] = {"id", "value"}
  BY <1>1 DEF DecisionRequestOK, Idle
<1>3. PICK what \in {"letter", "exam"} :
          /\ what = Head(todo[w])
          /\ db' = [db EXCEPT !.results = [@ EXCEPT ![a] = db.results[a] \cup {what}]]
  BY <1>2 DEF SendLetter, ScheduleExam, At
<1>4. /\ DOMAIN db' = DecisionDomain /\ db'.results = [db.results EXCEPT ![a] = db.results[a] \cup {what}]
      /\ db'.profiles = db.profiles /\ db'.accounts = db.accounts /\ db'.activity = db.activity
  BY <1>1, <1>3 DEF DecisionTyped, DecisionDomain
<1>5. \A b \in Candidates : db.results[b] \subseteq db'.results[b]
  BY <1>1, <1>4 DEF DecisionTyped
<1>6. DecisionTyped' /\ Stands
  BY <1>1, <1>4, <1>5 DEF DecisionTyped, Stands, Profiled
<1>7. \A b \in Candidates : Decided(b)'
  BY <1>1, <1>4, <1>5, StillDecided DEF Decided
<1>8. Tail(todo[w]) \in DecisionTodo /\ Tail(todo[w]) # <<>>
      /\ (what = "letter" => Head(Tail(todo[w])) = "statusEvent")
      /\ (what = "exam" => Head(Tail(todo[w])) = "examStatus")
  BY <1>1, <1>3, DecisionRoute
<1>9. Moves(w, Tail(todo[w]), arg[w])
  BY <1>1, <1>8, ProceedMoves
<1>10. what \in db'.results[a]
  BY <1>1, <1>4 DEF DecisionTyped
<1>11. DecisionRequestOK(w)'
  BY <1>2, <1>4, <1>8, <1>9, <1>10 DEF DecisionRequestOK, Moves, Idle, Profiled
<1> QED
  BY <1>6, <1>7, <1>8, <1>9, <1>11, DecisionStep DEF DecisionInv, Moves

\* What happened is announced, or not.
LEMMA DecisionTells ==
  ASSUME DecisionInv, NEW w \in Workers, PublishStatus(w) \/ RecordActivity(w)
  PROVE  DecisionInv'
<1>1. Slots /\ DecisionTyped /\ (\A a \in Candidates : Decided(a)) /\ todo[w] \in DecisionTodo /\ todo[w] # <<>>
      /\ DecisionRequestOK(w) /\ Proceed(w) /\ Head(todo[w]) \in {"statusEvent", "examAudit", "convertedAudit"}
  BY DEF DecisionInv, PublishStatus, RecordActivity, At
<1>2. PICK a \in Candidates : a = arg[w].id /\ Profiled(a)
  BY <1>1 DEF DecisionRequestOK, Idle
<1> DEFINE Told(what) ==
               /\ db' = [db EXCEPT !.activity = @ \cup {<<what, a>>}]
               /\ what \in {"letter", "exam", "converted"}
               /\ what = "converted" => db.profiles[a].enrolled
               /\ what # "converted" => what \in db.results[a]
<1>3. db' = db \/ \E what : Told(what)
  <2>1. CASE PublishStatus(w)
    <3>1. CASE arg[w].value.letter
      <4>1. db' = db \/ db' = [db EXCEPT !.activity = @ \cup {<<"letter", a>>}]
        BY <1>2, <2>1, <3>1 DEF PublishStatus
      <4>2. "letter" \in db.results[a]
        BY <1>1, <1>2, <2>1, <3>1 DEF PublishStatus, At, DecisionRequestOK, Idle
      <4> QED
        BY <4>1, <4>2
    <3>2. CASE ~arg[w].value.letter
      BY <2>1, <3>2 DEF PublishStatus
    <3> QED
      BY <3>1, <3>2
  <2>2. CASE RecordActivity(w)
    <3>1. CASE Head(todo[w]) = "examAudit"
      <4>1. db' = db \/ db' = [db EXCEPT !.activity = @ \cup {<<"exam", a>>}]
        BY <1>1, <1>2, <2>2, <3>1 DEF RecordActivity, At
      <4>2. "exam" \in db.results[a]
        BY <1>1, <1>2, <3>1 DEF DecisionRequestOK, Idle
      <4> QED
        BY <4>1, <4>2
    <3>2. CASE Head(todo[w]) # "examAudit"
      <4>1. db' = db \/ db' = [db EXCEPT !.activity = @ \cup {<<"converted", a>>}]
        BY <1>1, <1>2, <2>2, <3>2 DEF RecordActivity, At
      <4>2. db.profiles[a].enrolled
        BY <1>1, <1>2, <2>2, <3>2 DEF RecordActivity, At, DecisionRequestOK, Idle
      <4> QED
        BY <4>1, <4>2
    <3> QED
      BY <3>1, <3>2
  <2> QED
    BY <2>1, <2>2
<1>4. /\ DOMAIN db' = DecisionDomain /\ db'.results = db.results
      /\ db'.profiles = db.profiles /\ db'.accounts = db.accounts
  BY <1>1, <1>3 DEF DecisionTyped, DecisionDomain
<1>5. DecisionTyped' /\ Stands
  BY <1>1, <1>4 DEF DecisionTyped, Stands, Profiled
<1>6. \A b \in Candidates : Decided(b)'
  <2>1. CASE db' = db
    BY <1>1, <1>4, <2>1, StillDecided DEF Decided
  <2>2. ASSUME NEW what, Told(what)
        PROVE  \A b \in Candidates : Decided(b)'
    <3>1. db'.activity = db.activity \cup {<<what, a>>}
      BY <1>1, <2>2 DEF DecisionTyped, DecisionDomain
    <3>2. \A b \in Candidates : <<"converted", b>> \in db'.activity => Profiled(b) /\ db.profiles[b].enrolled
      BY <1>1, <1>2, <2>2, <3>1 DEF Decided
    <3>3. \A b \in Candidates : \A x \in {"exam", "letter"} : <<x, b>> \in db'.activity => x \in db.results[b]
      BY <1>1, <2>2, <3>1 DEF Decided
    <3> HIDE DEF Told
    <3> QED
      BY <1>4, <3>2, <3>3, StillDecided
  <2> QED
    BY <1>3, <2>1, <2>2
<1>7. Tail(todo[w]) = <<>> /\ <<>> \in DecisionTodo
  BY <1>1, DecisionRoute DEF DecisionTodo
<1>8. Moves(w, <<>>, None)
  BY <1>1, <1>7, ProceedMoves
<1>9. DecisionRequestOK(w)'
  BY <1>8 DEF DecisionRequestOK, Moves, Idle
<1> QED
  BY <1>5, <1>6, <1>7, <1>8, <1>9, DecisionStep DEF DecisionInv, Moves

\* The student's account is made.
LEMMA AccountWrites ==
  ASSUME DecisionInv, NEW w \in Workers, InsertAccount(w)
  PROVE  DecisionInv'
<1>1. Slots /\ DecisionTyped /\ (\A a \in Candidates : Decided(a)) /\ todo[w] \in DecisionTodo /\ todo[w] # <<>>
      /\ DecisionRequestOK(w) /\ Head(todo[w]) = "insertAccount"
  BY DEF DecisionInv, InsertAccount, At
<1>2. PICK a \in Candidates, number \in Nat :
          a = arg[w].id /\ number = arg[w].value.number /\ Profiled(a) /\ DOMAIN arg[w] = {"id", "value"}
  BY <1>1 DEF DecisionRequestOK, Idle, InsertAccount
<1>3. db' = [db EXCEPT !.accounts = [@ EXCEPT ![a] = number]]
  BY <1>2 DEF InsertAccount
<1>4. /\ DOMAIN db' = DecisionDomain /\ db'.results = db.results /\ db'.profiles = db.profiles
      /\ db'.accounts = [db.accounts EXCEPT ![a] = number] /\ db'.activity = db.activity
  BY <1>1, <1>3 DEF DecisionTyped, DecisionDomain
<1>5. number # None
  BY NoneIsNoNumber
<1>6. db'.accounts[a] # None /\ \A b \in Candidates : db.accounts[b] # None => db'.accounts[b] # None
  BY <1>1, <1>4, <1>5 DEF DecisionTyped
<1>7. DecisionTyped' /\ Stands
  BY <1>1, <1>4, <1>6 DEF DecisionTyped, Stands, Profiled
<1>8. \A b \in Candidates : Decided(b)'
  BY <1>1, <1>4, <1>6, StillDecided DEF Decided
<1>9. PICK locals : locals = [arg[w] EXCEPT !.value = None]
  OBVIOUS
<1>10. ProceedWith(w, locals) /\ locals.id = a /\ DOMAIN locals = {"id", "value"}
  BY <1>2, <1>9 DEF InsertAccount
<1>11. Tail(todo[w]) \in DecisionTodo /\ Tail(todo[w]) # <<>> /\ Head(Tail(todo[w])) = "setEnrolled"
  BY <1>1, DecisionRoute
<1>12. Moves(w, Tail(todo[w]), locals)
  BY <1>1, <1>10, <1>11, ProceedWithMoves
<1>13. DecisionRequestOK(w)'
  BY <1>2, <1>4, <1>6, <1>10, <1>11, <1>12 DEF DecisionRequestOK, Moves, Idle, Profiled
<1> QED
  BY <1>7, <1>8, <1>11, <1>12, <1>13, DecisionStep DEF DecisionInv, Moves

\* In the forms' service only forms move,
LEMMA OnlyForms ==
  ASSUME service = "forms", FormInv, NEW w \in Workers, ApplicationsNext!(w)
  PROVE  \/ SaveBackground(w) \/ UploadDocument(w) \/ SelectProgram(w) \/ Fail(w)
         \/ DeleteBackground(w) \/ InsertBackground(w) \/ InsertDocument(w) \/ SetSelection(w) \/ SetProfileProgram(w)
         \/ verifyApplicantDocument(w) \/ updateAdminProgramSelection(w)
<1>1. todo[w] # <<>> => Head(todo[w]) \in
          {"deleteBackground", "insertBackground", "insertDocument", "setSelection", "setProfileProgram"}
  BY FormRoute, SMTT(30) DEF FormInv
<1>2. ~(SetStatus(w) \/ SendLetter(w) \/ PublishStatus(w) \/ ScheduleExam(w) \/ SetExamStatus(w)
        \/ RecordActivity(w) \/ ReadProfile(w) \/ InsertAccount(w) \/ SetEnrolled(w))
  BY <1>1 DEF SetStatus, SendLetter, PublishStatus, ScheduleExam, SetExamStatus, RecordActivity, ReadProfile,
     InsertAccount, SetEnrolled, At
<1>3. ~(CreateProfile(w) \/ Submit(w) \/ SetWorkflowStatus(w) \/ updateAdminApplicationStatus(w)
        \/ scheduleEntranceExam(w) \/ convertAcceptedApplicantToStudent(w))
  BY DEF CreateProfile, Submit, SetWorkflowStatus, updateAdminApplicationStatus, scheduleEntranceExam,
     convertAcceptedApplicantToStudent, Serve
<1> QED
  BY <1>2, <1>3, Zenon

\* and in the decisions' only decisions.
LEMMA OnlyDecisions ==
  ASSUME service = "decisions", DecisionInv, NEW w \in Workers, ApplicationsNext!(w)
  PROVE  \/ CreateProfile(w) \/ Submit(w) \/ SetWorkflowStatus(w)
         \/ updateAdminApplicationStatus(w) \/ scheduleEntranceExam(w) \/ convertAcceptedApplicantToStudent(w)
         \/ ReadProfile(w) \/ Fail(w)
         \/ SetStatus(w) \/ SetExamStatus(w) \/ SetEnrolled(w) \/ SendLetter(w) \/ ScheduleExam(w)
         \/ PublishStatus(w) \/ RecordActivity(w) \/ InsertAccount(w)
<1>1. todo[w] # <<>> => Head(todo[w]) \notin
          {"deleteBackground", "insertBackground", "insertDocument", "setSelection", "setProfileProgram"}
  BY DecisionHead DEF DecisionInv
<1>2. ~(DeleteBackground(w) \/ InsertBackground(w) \/ InsertDocument(w) \/ SetSelection(w) \/ SetProfileProgram(w))
  BY <1>1 DEF DeleteBackground, InsertBackground, InsertDocument, SetSelection, SetProfileProgram, At
<1>3. ~(SaveBackground(w) \/ UploadDocument(w) \/ SelectProgram(w) \/ verifyApplicantDocument(w)
        \/ updateAdminProgramSelection(w))
  BY DEF SaveBackground, UploadDocument, SelectProgram, verifyApplicantDocument, updateAdminProgramSelection,
     ApplicantRequest, Take, Serve
<1> QED
  BY <1>2, <1>3, Zenon

\* Every step of any service keeps the invariant of the forms,
LEMMA FormsKeep ==
  ASSUME service = "forms" => FormInv, [Next]_vars
  PROVE  (service = "forms" => FormInv)'
<1>1. service' = service
  BY ServiceKept DEF Kept
<1> SUFFICES ASSUME service = "forms", FormInv
             PROVE  FormInv'
  BY <1>1
<1>2. CASE UNCHANGED vars
  BY <1>2 DEF vars, FormInv, FormsFit, FormRequestOK, Slots, Idle
<1>3. CASE ApplicationsNext
  <2>1. PICK w \in Workers : ApplicationsNext!(w)
    BY <1>3 DEF ApplicationsNext
  <2> QED
    BY <2>1, OnlyForms, FormRequests, FormWrites, FormVerdicts
<1> QED
  BY <1>2, <1>3 DEF Next

\* and that of the decisions.
LEMMA DecisionsKeep ==
  ASSUME service = "decisions" => DecisionInv, [Next]_vars
  PROVE  (service = "decisions" => DecisionInv)'
<1>1. service' = service
  BY ServiceKept DEF Kept
<1> SUFFICES ASSUME service = "decisions", DecisionInv
             PROVE  DecisionInv'
  BY <1>1
<1>2. CASE UNCHANGED vars
  <2>1. todo' = todo /\ arg' = arg /\ db' = db
    BY <1>2 DEF vars
  <2>2. Slots' /\ DecisionTyped' /\ Stands /\ \A v \in Workers : todo'[v] \in DecisionTodo
    BY <2>1 DEF DecisionInv, DecisionTyped, Stands, Profiled, Slots
  <2>3. \A a \in Candidates : Decided(a)'
    BY <2>1, StillDecided DEF DecisionInv, Decided
  <2> QED
    BY <2>1, <2>2, <2>3, DecisionStep
<1>3. CASE ApplicationsNext
  <2>1. PICK w \in Workers : ApplicationsNext!(w)
    BY <1>3 DEF ApplicationsNext
  <2> QED
    BY <2>1, OnlyDecisions, DecisionRequests, ProfileVerdicts, ProfileWrites, ResultWrites, DecisionTells, AccountWrites
<1> QED
  BY <1>2, <1>3 DEF Next

\* Both hold at the beginning.
LEMMA ApplicationsStart == Init => (service = "forms" => FormInv) /\ (service = "decisions" => DecisionInv)
<1> SUFFICES ASSUME Init, service \in {"forms", "decisions"}
             PROVE  (service = "forms" => FormInv) /\ (service = "decisions" => DecisionInv)
  OBVIOUS
<1>1. ApplicationsInit
  BY DEF Init, NotificationsInit, ProfessorsInit, AlumniInit, GraduationsInit, ResourcesInit,
     RegistrarInit, TenantsInit, BillingInit, Start
<1>2. /\ todo = [w \in Workers |-> <<>>] /\ arg = [w \in Workers |-> None]
      /\ service = "forms" => db = FormTables
      /\ service = "decisions" => db = DecisionTables
  BY <1>1 DEF ApplicationsInit, Start
<1>3. service = "forms" => FormsFit
  BY <1>2 DEF FormsFit, FormTables, FormDomain
<1>4. service = "decisions" => DecisionTyped /\ \A a \in Candidates : Decided(a)
  BY <1>2 DEF DecisionTyped, DecisionTables, DecisionDomain, Decided, Profiled
<1> QED
  BY <1>2, <1>3, <1>4 DEF FormInv, FormRequestOK, FormTodo, DecisionInv, DecisionRequestOK, DecisionTodo, Slots, Idle

\* The inductive invariants of the applications.
THEOREM ApplicationsInvariant ==
    Spec => [](/\ service = "forms" => FormInv
               /\ service = "decisions" => DecisionInv)
<1> DEFINE Both == (service = "forms" => FormInv) /\ (service = "decisions" => DecisionInv)
<1>1. Init => Both
  BY ApplicationsStart
<1>2. Both /\ [Next]_vars => Both'
  BY FormsKeep, DecisionsKeep
<1> QED
  BY <1>1, <1>2, PTL DEF Spec

\* Every document has its file and every program its selection, numbers are
\* unique, nobody is enrolled without an account, and nothing is announced
\* before its rows are there.
THEOREM AdmissionsAreTrailed == Spec => []AdmissionTrail
<1> DEFINE Both == (service = "forms" => FormInv) /\ (service = "decisions" => DecisionInv)
<1>1. Both => AdmissionTrail
  <2>1. ASSUME FormsFit
        PROVE  /\ {d.file : d \in db.documents} \subseteq 1 .. db.files
               /\ \A a \in Candidates : db.program[a] # None => db.selections[a] # None
    BY <2>1 DEF FormsFit
  <2>2. ASSUME NEW a \in Candidates, Decided(a)
        PROVE  /\ Profiled(a) => NumberFree(a, db.profiles[a].number)
               /\ Profiled(a) /\ db.profiles[a].enrolled => db.accounts[a] # None
               /\ <<"converted", a>> \in db.activity => db.profiles[a].enrolled
               /\ \A what \in {"exam", "letter"} : <<what, a>> \in db.activity => what \in db.results[a]
    BY <2>2 DEF Decided
  <2> QED
    BY <2>1, <2>2 DEF FormInv, DecisionInv, AdmissionTrail
<1> QED
  BY <1>1, ApplicationsInvariant, PTL

-----------------------------------------------------------------------------
(* The records of a school *)

\* What a request about a record can have still to run.
ResourceTodo == {<<>>,
    <<"insertResource">> \o <<"auditResource">>, <<"auditResource">>,
    <<"insertResource">> \o (<<"deliver">> \o <<"auditResource">>), <<"deliver">> \o <<"auditResource">>,
    <<"readResource", "upsertResource", "auditResource">>, <<"upsertResource", "auditResource">>,
    <<"findResource", "deleteResource", "auditResource">>, <<"deleteResource", "auditResource">>,
    <<"findResource", "deliverMail", "mailAudit">>, <<"deliverMail", "mailAudit">>, <<"mailAudit">>,
    <<"insertResource", "auditResource", "insertNextResource", "auditResource", "importAudit">>,
    <<"auditResource", "insertNextResource", "auditResource", "importAudit">>,
    <<"insertNextResource", "auditResource", "importAudit">>, <<"auditResource", "importAudit">>, <<"importAudit">>,
    <<"mergeProfile", "auditResource">>,
    <<"readResource", "updateResource">>, <<"updateResource">>,
    <<"readAll">>, <<"markOne">>}

\* An import that has its second row still to insert.
Importing == {<<"auditResource", "insertNextResource", "auditResource", "importAudit">>,
    <<"insertNextResource", "auditResource", "importAudit">>}

\* Of these, a write that is not audited yet comes before the rest.
Pending(steps) == steps # <<>> /\ Head(steps) \in {"auditResource", "deliver"}
Owed(steps) == IF Pending(steps) THEN 1 ELSE 0

\* Statements that write back what was read.
Merging == {"upsertResource", "updateResource", "markOne"}

RecordData == [Fields -> Values]
ResourceDomain == {"rows", "audits", "writes", "written", "unaudited"}

ResourcesTyped ==
    /\ DOMAIN db = ResourceDomain
    /\ db.rows \in [Records -> RecordData \cup {None}]
    /\ db.audits \in Nat /\ db.writes \in 0 .. MaxWrites /\ db.unaudited \in Nat
    /\ db.written \in [Records -> 0 .. MaxWrites] /\ \A r \in Records : db.written[r] <= db.writes

\* A record that was not written since it was read is as it was read.
Remembers(seen, at) ==
    /\ DOMAIN seen \subseteq Records
    /\ \A r \in DOMAIN seen :
          /\ seen[r] \in RecordData /\ at[r] \in Nat /\ at[r] <= db.written[r]
          /\ at[r] = db.written[r] => seen[r] = db.rows[r]

\* What the request in slot w needs of its local variables.
Remembering(steps, locals) == steps # <<>> =>
    /\ DOMAIN locals = {"id", "payload", "seen", "at"}
    /\ DOMAIN locals.at = DOMAIN locals.seen
    /\ Head(steps) \notin Merging => DOMAIN locals.seen = {}
    /\ Head(steps) \in {"upsertResource", "updateResource"} => DOMAIN locals.seen = {locals.id}
    /\ Head(steps) \in {"insertResource", "findResource", "deleteResource", "readResource",
                        "upsertResource", "updateResource"} => locals.id \in Records
    /\ Head(steps) = "insertResource" \/ steps \in Importing => locals.payload \in RecordData
    /\ Head(steps) \in {"readResource", "readAll"} \cup Merging => locals.payload \in Payloads
    /\ Remembers(locals.seen, locals.at)

Audited == db.writes = db.audits + Unfinished + db.unaudited

ResourceInv ==
    /\ Slots
    /\ \A w \in Workers : todo[w] \in ResourceTodo
    /\ ResourcesTyped
    /\ \A w \in Workers : Remembering(todo[w], arg[w])
    /\ Audited

\* What follows each step of a request about a record.
LEMMA ResourceRoute ==
  ASSUME NEW r \in ResourceTodo, r # <<>>
  PROVE  /\ Tail(r) \in ResourceTodo
         /\ Head(r) \in {"insertResource", "insertNextResource", "upsertResource", "deleteResource", "mergeProfile",
                         "deliver"} => Pending(Tail(r))
         /\ Head(r) = "insertNextResource" => r \in Importing
         /\ Tail(r) \in Importing => Head(r) = "insertResource" \/ (Head(r) = "auditResource" /\ r \in Importing)
         /\ Head(r) = "deliver" => Head(Tail(r)) = "auditResource"
         /\ Head(r) = "auditResource" /\ Tail(r) # <<>> => Head(Tail(r)) \in {"insertNextResource", "importAudit"}
         /\ Head(r) = "findResource" => Tail(r) # <<>> /\ Head(Tail(r)) \in {"deleteResource", "deliverMail"}
         /\ Head(r) = "readResource" => Tail(r) # <<>> /\ Head(Tail(r)) \in {"upsertResource", "updateResource"}
         /\ Head(r) = "deliverMail" => Tail(r) # <<>> /\ Head(Tail(r)) = "mailAudit"
         /\ Head(r) \in {"mailAudit", "importAudit", "updateResource", "readAll", "markOne"} => Tail(r) = <<>>
<1> DEFINE a == <<"auditResource">>
           da == <<"deliver">> \o a
           ia == <<"insertResource">> \o a
           ida == <<"insertResource">> \o da
           ua == <<"upsertResource", "auditResource">>
           rua == <<"readResource", "upsertResource", "auditResource">>
           ea == <<"deleteResource", "auditResource">>
           fea == <<"findResource", "deleteResource", "auditResource">>
           m == <<"mailAudit">>
           dm == <<"deliverMail", "mailAudit">>
           fdm == <<"findResource", "deliverMail", "mailAudit">>
           i == <<"importAudit">>
           ai == <<"auditResource", "importAudit">>
           nai == <<"insertNextResource", "auditResource", "importAudit">>
           anai == <<"auditResource", "insertNextResource", "auditResource", "importAudit">>
           ianai == <<"insertResource", "auditResource", "insertNextResource", "auditResource", "importAudit">>
           pa == <<"mergeProfile", "auditResource">>
           u == <<"updateResource">>
           ru == <<"readResource", "updateResource">>
           all == <<"readAll">>
           one == <<"markOne">>
<1>1. a \in Seq({"auditResource", "deliver"}) /\ <<"deliver">> \in Seq({"auditResource", "deliver"})
  OBVIOUS
<1>2. da \in Seq({"auditResource", "deliver"})
  BY <1>1, ConcatProperties
<1>3. /\ Head(da) = "deliver" /\ Tail(da) = a /\ da # <<>>
      /\ Head(ia) = "insertResource" /\ Tail(ia) = a
      /\ Head(ida) = "insertResource" /\ Tail(ida) = da
  BY <1>1, <1>2, Prefixed, ZenonT(40)
<1>4. /\ Head(a) = "auditResource" /\ Tail(a) = <<>> /\ a # <<>>
      /\ Head(ua) = "upsertResource" /\ Tail(ua) = a /\ ua # <<>>
      /\ Head(rua) = "readResource" /\ Tail(rua) = ua
      /\ Head(ea) = "deleteResource" /\ Tail(ea) = a /\ ea # <<>>
      /\ Head(fea) = "findResource" /\ Tail(fea) = ea
  OBVIOUS
<1>5. /\ Head(m) = "mailAudit" /\ Tail(m) = <<>> /\ m # <<>>
      /\ Head(dm) = "deliverMail" /\ Tail(dm) = m /\ dm # <<>>
      /\ Head(fdm) = "findResource" /\ Tail(fdm) = dm
      /\ Head(pa) = "mergeProfile" /\ Tail(pa) = a
      /\ Head(u) = "updateResource" /\ Tail(u) = <<>> /\ u # <<>>
      /\ Head(ru) = "readResource" /\ Tail(ru) = u
      /\ Head(all) = "readAll" /\ Tail(all) = <<>>
      /\ Head(one) = "markOne" /\ Tail(one) = <<>>
  OBVIOUS
<1>6. /\ Head(i) = "importAudit" /\ Tail(i) = <<>> /\ i # <<>>
      /\ Head(ai) = "auditResource" /\ Tail(ai) = i /\ ai # <<>>
      /\ Head(nai) = "insertNextResource" /\ Tail(nai) = ai /\ nai # <<>>
      /\ Head(anai) = "auditResource" /\ Tail(anai) = nai /\ anai # <<>>
      /\ Head(ianai) = "insertResource" /\ Tail(ianai) = anai
  OBVIOUS
<1>7. /\ r \in {a, da, ia, ida, ua, rua, ea, fea, m, dm, fdm, i, ai, nai, anai, ianai, pa, u, ru, all, one}
      /\ {<<>>, a, da, ua, ea, m, dm, i, ai, nai, anai, u} \subseteq ResourceTodo /\ Importing = {nai, anai}
  BY DEF ResourceTodo, Importing
<1> HIDE DEF a, da, ia, ida, ua, rua, ea, fea, m, dm, fdm, i, ai, nai, anai, ianai, pa, u, ru, all, one
<1>8. /\ nai \notin {<<>>, a, da, ua, ea, m, dm, i, ai, u}
      /\ anai \notin {<<>>, a, da, ua, ea, m, dm, i, ai, u}
  BY <1>3, <1>4, <1>5, <1>6
<1>9. CASE r \in {a, da, ia, ida}
  BY <1>3, <1>4, <1>7, <1>8, <1>9 DEF Pending
<1>10. CASE r \in {ua, rua, ea, fea}
  BY <1>4, <1>7, <1>8, <1>10 DEF Pending
<1>11. CASE r \in {m, dm, fdm, pa, u, ru, all, one}
  <2>1. Tail(r) \in {<<>>, m, dm, a, u}
    BY <1>5, <1>11
  <2>2. Tail(r) \notin Importing /\ Tail(r) \in ResourceTodo
    BY <1>7, <1>8, <2>1
  <2> QED
    BY <1>4, <1>5, <1>11, <2>2 DEF Pending
<1>12. CASE r \in {i, ai}
  BY <1>6, <1>7, <1>8, <1>12 DEF Pending
<1>13. CASE r = nai
  BY <1>6, <1>7, <1>8, <1>13 DEF Pending
<1>14. CASE r \in {anai, ianai}
  BY <1>6, <1>7, <1>8, <1>14 DEF Pending
<1> QED
  BY <1>7, <1>9, <1>10, <1>11, <1>12, <1>13, <1>14

\* The first statement of such an import.
LEMMA ImportHead ==
  ASSUME NEW r \in Importing
  PROVE  Head(r) \in {"auditResource", "insertNextResource"}
BY DEF Importing

\* A request that goes on changes the number of audits on the way by its own.
LEMMA OwedMoves ==
  ASSUME Slots, NEW w \in Workers, NEW steps, NEW locals, Moves(w, steps, locals)
  PROVE  /\ Unfinished \in Nat /\ Unfinished' \in Nat
         /\ Unfinished' + Owed(todo[w]) = Unfinished + Owed(steps)
<1> DEFINE P == {v \in Workers : Pending(todo[v])}
           Q == {v \in Workers : Pending(todo'[v])}
<1>1. Unfinished = Cardinality(P) /\ Unfinished' = Cardinality(Q)
  <2>1. \A v \in Workers : (~Idle(v) /\ AuditPending(v)) <=> Pending(todo[v])
    BY DEF AuditPending, At, Idle, Pending
  <2>2. \A v \in Workers : (~Idle(v) /\ AuditPending(v))' <=> Pending(todo'[v])
    BY DEF AuditPending, At, Idle, Pending
  <2>3. {v \in Workers : ~Idle(v) /\ AuditPending(v)} = P
    BY <2>1
  <2>4. {v \in Workers : (~Idle(v) /\ AuditPending(v))'} = Q
    BY <2>2
  <2> QED
    BY <2>3, <2>4 DEF Unfinished
<1>2. IsFiniteSet(P) /\ IsFiniteSet(Q)
  BY WorkersAreFinite, FS_Subset
<1>3. todo'[w] = steps /\ \A v \in Workers \ {w} : todo'[v] = todo[v]
  BY DEF Moves
<1>4. Cardinality(P) \in Nat /\ Cardinality(Q) \in Nat
  BY <1>2, FS_CardinalityType
<1>5. CASE Pending(todo[w]) <=> Pending(steps)
  <2>1. P = Q
    BY <1>3, <1>5
  <2> QED
    BY <1>1, <1>4, <1>5, <2>1 DEF Owed
<1>6. CASE Pending(todo[w]) /\ ~Pending(steps)
  <2>1. w \in P /\ Q = P \ {w}
    BY <1>3, <1>6
  <2> HIDE DEF P, Q
  <2>2. Cardinality(Q) = Cardinality(P) - 1
    BY <1>2, <2>1, OneLess
  <2> QED
    BY <1>1, <1>4, <1>6, <2>2 DEF Owed
<1>7. CASE ~Pending(todo[w]) /\ Pending(steps)
  <2>1. w \notin P /\ Q = P \cup {w}
    BY <1>3, <1>7
  <2> HIDE DEF P, Q
  <2>2. Cardinality(Q) = Cardinality(P) + 1
    BY <1>2, <2>1, OneMore
  <2> QED
    BY <1>1, <1>4, <1>7, <2>2 DEF Owed
<1> QED
  BY <1>5, <1>6, <1>7

\* A record stays as it is or gets a write of a number that is new.
Rewrites == \A r \in Records :
    (db'.rows[r] = db.rows[r] /\ db'.written[r] = db.written[r]) \/ db'.written[r] = db.writes + 1

\* What a request remembers, it still remembers after the step of another.
LEMMA Remembered ==
  ASSUME ResourcesTyped, Rewrites, NEW steps, NEW locals, Remembering(steps, locals)
  PROVE  Remembering(steps, locals)'
<1> SUFFICES ASSUME steps # <<>>
             PROVE  Remembers(locals.seen, locals.at)'
  BY DEF Remembering
<1>1. Remembers(locals.seen, locals.at)
  BY DEF Remembering
<1> SUFFICES ASSUME NEW r \in DOMAIN locals.seen, r \in Records
             PROVE  /\ locals.at[r] <= db'.written[r]
                    /\ locals.at[r] = db'.written[r] => locals.seen[r] = db'.rows[r]
  BY <1>1 DEF Remembers
<1>2. PICK n \in Nat : n = locals.at[r] /\ n <= db.written[r] /\ (n = db.written[r] => locals.seen[r] = db.rows[r])
  BY <1>1 DEF Remembers
<1>3. PICK k \in Nat, m \in Nat : k = db.written[r] /\ m = db.writes /\ k <= m
  BY DEF ResourcesTyped
<1>4. CASE db'.rows[r] = db.rows[r] /\ db'.written[r] = db.written[r]
  BY <1>2, <1>4
<1>5. CASE db'.written[r] = db.writes + 1
  BY <1>2, <1>3, <1>5
<1> QED
  BY <1>4, <1>5 DEF Rewrites

\* A step of one request keeps the invariant, when the tables and its own
\* local variables do and the books balance.
LEMMA ResourceStep ==
  ASSUME ResourceInv, NEW w \in Workers, NEW steps \in ResourceTodo, NEW locals, Moves(w, steps, locals),
         ResourcesTyped', Rewrites, Remembering(steps, locals)',
         db'.writes + db.audits + db.unaudited + Owed(todo[w]) = db.writes + db'.audits + db'.unaudited + Owed(steps)
  PROVE  ResourceInv'
<1>1. Slots' /\ \A v \in Workers : todo'[v] \in ResourceTodo
  BY DEF ResourceInv, Moves
<1>2. ASSUME NEW v \in Workers
      PROVE  Remembering(todo[v], arg[v])'
  <2>1. CASE v = w
    BY <2>1 DEF Moves, Remembering, Remembers
  <2>2. CASE v # w
    <3>1. todo'[v] = todo[v] /\ arg'[v] = arg[v]
      BY <2>2 DEF Moves
    <3>2. PICK s, l : s = todo[v] /\ l = arg[v]
      OBVIOUS
    <3>3. Remembering(s, l)'
      BY <3>2, Remembered DEF ResourceInv
    <3> QED
      BY <3>1, <3>2, <3>3 DEF Remembering, Remembers
  <2> QED
    BY <2>1, <2>2
<1>3. Audited'
  <2>1. /\ Unfinished \in Nat /\ Unfinished' \in Nat
        /\ Unfinished' + Owed(todo[w]) = Unfinished + Owed(steps)
    BY OwedMoves DEF ResourceInv
  <2>2. /\ db.audits \in Nat /\ db.writes \in Nat /\ db.unaudited \in Nat
        /\ db'.audits \in Nat /\ db'.writes \in Nat /\ db'.unaudited \in Nat
    BY DEF ResourceInv, ResourcesTyped
  <2>3. Owed(todo[w]) \in Nat /\ Owed(steps) \in Nat
    BY DEF Owed
  <2>4. db.writes = db.audits + Unfinished + db.unaudited
    BY DEF ResourceInv, Audited
  <2>5. PICK u \in Nat, v \in Nat, o \in Nat, p \in Nat :
            u = Unfinished /\ v = Unfinished' /\ o = Owed(todo[w]) /\ p = Owed(steps)
    BY <2>1, <2>3
  <2>6. PICK k \in Nat, a \in Nat, e \in Nat : k = db.writes /\ a = db.audits /\ e = db.unaudited
    BY <2>2
  <2>7. PICK l \in Nat, b \in Nat, f \in Nat : l = db'.writes /\ b = db'.audits /\ f = db'.unaudited
    BY <2>2
  <2>8. v + o = u + p /\ k = a + u + e /\ l + a + e + o = k + b + f + p
    BY <2>1, <2>4, <2>5, <2>6, <2>7
  <2>9. l = b + v + f
    BY <2>8
  <2> QED
    BY <2>5, <2>7, <2>9 DEF Audited
<1> QED
  BY <1>1, <1>2, <1>3 DEF ResourceInv

\* The write of a record.
LEMMA RecordWritten ==
  ASSUME ResourcesTyped, NEW r \in Records, NEW data \in RecordData \cup {None}, db.writes < MaxWrites,
         DOMAIN db' = ResourceDomain, db'.rows = [db.rows EXCEPT ![r] = data], db'.writes = db.writes + 1,
         db'.written = [db.written EXCEPT ![r] = db.writes + 1], db'.audits = db.audits,
         db'.unaudited \in {db.unaudited, db.unaudited + 1}
  PROVE  ResourcesTyped' /\ Rewrites
<1>1. db.writes \in 0 .. MaxWrites /\ MaxWrites \in Nat /\ db.writes + 1 \in 0 .. MaxWrites
  BY ResourceBounds DEF ResourcesTyped
<1>2. db'.rows \in [Records -> RecordData \cup {None}] /\ db'.written \in [Records -> 0 .. MaxWrites]
  BY <1>1 DEF ResourcesTyped
<1>3. \A q \in Records : (q = r /\ db'.written[q] = db.writes + 1)
                         \/ (q # r /\ db'.rows[q] = db.rows[q] /\ db'.written[q] = db.written[q])
  BY DEF ResourcesTyped
<1>4. \A q \in Records : db'.written[q] <= db'.writes
  BY <1>1, <1>2, <1>3 DEF ResourcesTyped
<1>5. db'.audits \in Nat /\ db'.unaudited \in Nat
  BY DEF ResourcesTyped
<1> QED
  BY <1>1, <1>2, <1>3, <1>4, <1>5 DEF ResourcesTyped, Rewrites

\* Steps that write no record.
LEMMA RecordsSame ==
  ASSUME ResourcesTyped, DOMAIN db' = ResourceDomain, db'.rows = db.rows, db'.written = db.written,
         db'.audits \in {db.audits, db.audits + 1}, db'.unaudited \in {db.unaudited, db.unaudited + 1},
         db'.writes = db.writes \/ (db.writes < MaxWrites /\ db'.writes = db.writes + 1)
  PROVE  ResourcesTyped' /\ Rewrites
<1>1. db.writes \in 0 .. MaxWrites /\ MaxWrites \in Nat
  BY ResourceBounds DEF ResourcesTyped
<1>2. db'.writes \in 0 .. MaxWrites /\ db.writes <= db'.writes
  BY <1>1
<1>3. db'.audits \in Nat /\ db'.unaudited \in Nat
  BY DEF ResourcesTyped
<1>4. \A q \in Records : db'.written[q] <= db'.writes
  BY <1>1, <1>2 DEF ResourcesTyped
<1> QED
  BY <1>2, <1>3, <1>4 DEF ResourcesTyped, Rewrites

\* A request about a record arrives.
LEMMA ResourceRequests ==
  ASSUME ResourceInv, NEW w \in Workers,
         CreateResource(w) \/ UpdateResource(w) \/ DeleteResource(w) \/ QueueDelivery(w) \/ ImportResources(w)
           \/ UpdateProfile(w) \/ InstitutionUpdate(w) \/ markAllNotificationsRead(w)
  PROVE  ResourceInv'
<1> DEFINE Asks(steps, r, payload) ==
               /\ SchoolAdminRequest(w, steps, r, payload)
               /\ steps \in ResourceTodo /\ steps # <<>>
               /\ Head(steps) \in {"insertResource", "readResource", "findResource", "mergeProfile", "readAll"}
               /\ Head(steps) \in {"insertResource", "readResource", "findResource"} => r \in Records
               /\ Head(steps) = "insertResource" => payload \in RecordData
               /\ Head(steps) \in {"readResource", "readAll"} => payload \in Payloads
<1>1. \E steps, r, payload : Asks(steps, r, payload)
  <2>1. CASE CreateResource(w) \/ ImportResources(w)
    <3>1. \A payload \in NewData : payload \in RecordData
      BY DEF NewData, RecordData
    <3>2. CASE CreateResource(w)
      <4>1. PICK r \in Records, payload \in NewData, mail \in {<<>>, <<"deliver">>} :
                SchoolAdminRequest(w, <<"insertResource">> \o mail \o <<"auditResource">>, r, payload)
        BY <3>2 DEF CreateResource
      <4> DEFINE S == {"insertResource", "deliver", "auditResource"}
      <4>2. <<>> \in Seq(S) /\ <<"deliver">> \in Seq(S) /\ <<"insertResource">> \in Seq(S) /\ <<"auditResource">> \in Seq(S)
        OBVIOUS
      <4>3. PICK rest \in Seq(S) : rest = mail \o <<"auditResource">>
        BY <4>1, <4>2, ConcatProperties
      <4>4. <<"insertResource">> \o mail \o <<"auditResource">> = <<"insertResource">> \o rest
        BY <4>1, <4>2, <4>3, ConcatAssociative
      <4>5. PICK steps : steps = <<"insertResource">> \o rest
        OBVIOUS
      <4>6. steps # <<>> /\ Head(steps) = "insertResource"
        BY <4>3, <4>5, Prefixed
      <4>7. rest = <<"auditResource">> \/ rest = <<"deliver">> \o <<"auditResource">>
        BY <4>1, <4>2, <4>3, ConcatEmptySeq
      <4>8. steps \in ResourceTodo
        BY <4>5, <4>7 DEF ResourceTodo
      <4>9. Asks(steps, r, payload)
        BY <3>1, <4>1, <4>4, <4>5, <4>6, <4>8
      <4> QED
        BY <4>9
    <3>3. CASE ImportResources(w)
      <4> DEFINE steps == <<"insertResource", "auditResource", "insertNextResource", "auditResource", "importAudit">>
      <4>1. PICK r \in Records, payload \in NewData : SchoolAdminRequest(w, steps, r, payload)
        BY <3>3 DEF ImportResources
      <4>2. steps # <<>> /\ Head(steps) = "insertResource" /\ steps \in ResourceTodo
        BY DEF ResourceTodo
      <4> HIDE DEF steps
      <4>3. Asks(steps, r, payload)
        BY <3>1, <4>1, <4>2
      <4> QED
        BY <4>3
    <3> QED
      BY <2>1, <3>2, <3>3
  <2>2. CASE UpdateResource(w) \/ InstitutionUpdate(w)
    <3>1. PICK steps \in {<<"readResource", "upsertResource", "auditResource">>, <<"readResource", "updateResource">>},
               r \in Records, payload \in Payloads : SchoolAdminRequest(w, steps, r, payload)
      BY <2>2 DEF UpdateResource, InstitutionUpdate
    <3>2. steps # <<>> /\ Head(steps) = "readResource" /\ steps \in ResourceTodo
      BY <3>1 DEF ResourceTodo
    <3>3. Asks(steps, r, payload)
      BY <3>1, <3>2
    <3> QED
      BY <3>3
  <2>3. CASE DeleteResource(w) \/ QueueDelivery(w)
    <3>1. PICK steps \in {<<"findResource", "deleteResource", "auditResource">>, <<"findResource", "deliverMail", "mailAudit">>},
               r \in Records : SchoolAdminRequest(w, steps, r, <<>>)
      BY <2>3 DEF DeleteResource, QueueDelivery
    <3>2. steps # <<>> /\ Head(steps) = "findResource" /\ steps \in ResourceTodo
      BY <3>1 DEF ResourceTodo
    <3>3. Asks(steps, r, <<>>)
      BY <3>1, <3>2
    <3> QED
      BY <3>3
  <2>4. CASE UpdateProfile(w)
    <3> DEFINE steps == <<"mergeProfile", "auditResource">>
    <3>1. steps # <<>> /\ Head(steps) = "mergeProfile" /\ steps \in ResourceTodo
      BY DEF ResourceTodo
    <3>2. SchoolAdminRequest(w, steps, None, <<>>)
      BY <2>4 DEF UpdateProfile
    <3> HIDE DEF steps
    <3>3. Asks(steps, None, <<>>)
      BY <3>1, <3>2
    <3> QED
      BY <3>3
  <2>5. CASE markAllNotificationsRead(w)
    <3> DEFINE steps == <<"readAll">>
    <3>1. PICK read \in Values : SchoolAdminRequest(w, steps, None, [status |-> read])
      BY <2>5 DEF markAllNotificationsRead
    <3>2. [status |-> read] \in Payloads
      <4>1. [status |-> read] \in [{"status"} -> Values] /\ "status" \in Fields
        BY DEF Fields
      <4> QED
        BY <4>1 DEF Payloads
    <3>3. steps # <<>> /\ Head(steps) = "readAll" /\ steps \in ResourceTodo
      BY DEF ResourceTodo
    <3> HIDE DEF steps
    <3>4. Asks(steps, None, [status |-> read])
      BY <3>1, <3>2, <3>3
    <3> QED
      BY <3>4
  <2> QED
    BY <2>1, <2>2, <2>3, <2>4, <2>5
<1>2. PICK steps, r, payload : Asks(steps, r, payload)
  BY <1>1
<1>3. Slots /\ ResourcesTyped /\ db' = db /\ todo[w] = <<>>
  BY <1>2 DEF ResourceInv, SchoolAdminRequest, Take, Idle
<1>4. PICK locals : locals = [id |-> r, payload |-> payload, seen |-> <<>>, at |-> <<>>]
  OBVIOUS
<1>5. Moves(w, steps, locals)
  BY <1>2, <1>3, <1>4, TakeMoves DEF SchoolAdminRequest
<1>6. ResourcesTyped' /\ Rewrites
  BY <1>3, RecordsSame DEF ResourcesTyped
<1>7. Remembering(steps, locals)'
  <2>1. /\ DOMAIN locals = {"id", "payload", "seen", "at"} /\ locals.id = r /\ locals.payload = payload
        /\ DOMAIN locals.seen = {} /\ DOMAIN locals.at = {}
    BY <1>4
  <2>2. Remembers(locals.seen, locals.at)'
    BY <2>1 DEF Remembers
  <2> QED
    BY <1>2, <2>1, <2>2, ImportHead DEF Remembering, Merging
<1>8. Owed(todo[w]) = 0 /\ Owed(steps) = 0
  BY <1>2, <1>3 DEF Owed, Pending
<1>9. db'.writes + db.audits + db.unaudited + Owed(todo[w]) = db.writes + db'.audits + db'.unaudited + Owed(steps)
  BY <1>3, <1>8 DEF ResourcesTyped
<1> QED
  BY <1>2, <1>5, <1>6, <1>7, <1>9, ResourceStep

\* The record that is read is remembered as it is,
LEMMA RecordsRead ==
  ASSUME ResourceInv, NEW w \in Workers, ReadResource(w) \/ ReadUnread(w)
  PROVE  ResourceInv'
<1>1. /\ Slots /\ ResourcesTyped /\ todo[w] \in ResourceTodo /\ todo[w] # <<>> /\ db' = db
      /\ Remembering(todo[w], arg[w]) /\ Head(todo[w]) \in {"readResource", "readAll"}
  BY DEF ResourceInv, ReadResource, ReadUnread, Reads, At
<1>2. DOMAIN arg[w] = {"id", "payload", "seen", "at"} /\ arg[w].payload \in Payloads
      /\ (Head(todo[w]) = "readResource" => arg[w].id \in Records)
  BY <1>1 DEF Remembering
<1>3. PICK records \in SUBSET Records, steps \in ResourceTodo :
          /\ Reads(w, records, steps) /\ \A r \in records : ResourceExists(r)
          /\ steps # <<>> => Head(steps) \in Merging
                          /\ (Head(steps) # "markOne" => records = {arg[w].id} /\ arg[w].id \in Records)
  <2>1. CASE ReadResource(w)
    <3>1. Head(todo[w]) = "readResource"
      BY <2>1 DEF ReadResource, At
    <3>2. Reads(w, {arg[w].id}, Tail(todo[w])) /\ ResourceExists(arg[w].id) /\ arg[w].id \in Records
      BY <1>2, <2>1, <3>1 DEF ReadResource
    <3>3. Tail(todo[w]) \in ResourceTodo /\ Tail(todo[w]) # <<>>
          /\ Head(Tail(todo[w])) \in {"upsertResource", "updateResource"}
      BY <1>1, <3>1, ResourceRoute
    <3> QED
      BY <3>2, <3>3 DEF Merging
  <2>2. CASE ReadUnread(w)
    <3> DEFINE unread == {r \in Records : ResourceExists(r) /\ db.rows[r].status # arg[w].payload.status}
    <3>1. Reads(w, unread, IF unread = {} THEN <<>> ELSE <<"markOne">>)
      BY <2>2 DEF ReadUnread
    <3>2. <<>> \in ResourceTodo /\ <<"markOne">> \in ResourceTodo /\ Head(<<"markOne">>) = "markOne"
      BY DEF ResourceTodo
    <3> QED
      BY <3>1, <3>2 DEF Merging
  <2> QED
    BY <2>1, <2>2
<1>4. PICK locals : locals = [arg[w] EXCEPT !.seen = [r \in records |-> db.rows[r]], !.at = [r \in records |-> db.written[r]]]
  OBVIOUS
<1>5. Moves(w, steps, IF steps = <<>> THEN None ELSE locals)
  BY <1>1, <1>3, <1>4, GoOnMoves DEF Reads
<1>6. ResourcesTyped' /\ Rewrites
  BY <1>1, RecordsSame DEF ResourcesTyped
<1>7. Remembering(steps, IF steps = <<>> THEN None ELSE locals)'
  <2> SUFFICES ASSUME steps # <<>>
               PROVE  Remembering(steps, locals)'
    BY DEF Remembering
  <2>1. /\ DOMAIN locals = {"id", "payload", "seen", "at"} /\ locals.id = arg[w].id /\ locals.payload = arg[w].payload
        /\ locals.seen = [r \in records |-> db.rows[r]] /\ locals.at = [r \in records |-> db.written[r]]
    BY <1>2, <1>4
  <2>2. ASSUME NEW r \in records
        PROVE  /\ locals.seen[r] \in RecordData /\ locals.at[r] \in Nat /\ locals.at[r] <= db.written[r]
               /\ locals.seen[r] = db.rows[r]
    BY <1>1, <1>3, <2>1 DEF ResourcesTyped, ResourceExists
  <2>3. Remembers(locals.seen, locals.at)'
    BY <1>1, <1>3, <2>1, <2>2 DEF Remembers
  <2>4. Head(steps) \in Merging /\ (Head(steps) # "markOne" => DOMAIN locals.seen = {locals.id} /\ locals.id \in Records)
    BY <1>3, <2>1
  <2> QED
    BY <1>2, <2>1, <2>3, <2>4, ImportHead DEF Remembering, Merging
<1>8. Owed(todo[w]) = 0 /\ Owed(steps) = 0
  BY <1>1, <1>3 DEF Owed, Pending, Merging
<1>9. db'.writes + db.audits + db.unaudited + Owed(todo[w]) = db.writes + db'.audits + db'.unaudited + Owed(steps)
  BY <1>1, <1>8 DEF ResourcesTyped
<1> QED
  BY <1>5, <1>6, <1>7, <1>9, ResourceStep

\* and other steps between the writes remember nothing more.
LEMMA ResourcesGoOn ==
  ASSUME ResourceInv, NEW w \in Workers,
         FindResource(w) \/ Deliver(w) \/ AuditOther(w) \/ AuditResource(w)
  PROVE  ResourceInv'
<1>1. /\ Slots /\ ResourcesTyped /\ todo[w] \in ResourceTodo /\ todo[w] # <<>> /\ Proceed(w)
      /\ Remembering(todo[w], arg[w])
      /\ Head(todo[w]) \in {"findResource", "deliver", "deliverMail", "mailAudit", "importAudit", "auditResource"}
      /\ IF Head(todo[w]) = "auditResource" THEN db' = [db EXCEPT !.audits = @ + 1] ELSE db' = db
  BY DEF ResourceInv, FindResource, Deliver, AuditOther, AuditResource, At
<1>2. /\ DOMAIN db' = ResourceDomain /\ db'.rows = db.rows /\ db'.written = db.written /\ db'.unaudited = db.unaudited
      /\ db'.writes = db.writes
      /\ db'.audits = IF Head(todo[w]) = "auditResource" THEN db.audits + 1 ELSE db.audits
  BY <1>1 DEF ResourcesTyped, ResourceDomain
<1>3. ResourcesTyped' /\ Rewrites
  BY <1>1, <1>2, RecordsSame
<1>4. PICK steps \in ResourceTodo : steps = Tail(todo[w])
  BY <1>1, ResourceRoute
<1>5. PICK locals : locals = IF steps = <<>> THEN None ELSE arg[w]
  OBVIOUS
<1>6. Moves(w, steps, locals)
  BY <1>1, <1>4, <1>5, ProceedMoves
<1>7. steps # <<>> =>
        /\ Head(todo[w]) = "deliver" => Head(steps) = "auditResource"
        /\ Head(todo[w]) = "auditResource" => Head(steps) \in {"insertNextResource", "importAudit"}
        /\ Head(todo[w]) = "findResource" => Head(steps) \in {"deleteResource", "deliverMail"}
        /\ Head(todo[w]) = "deliverMail" => Head(steps) = "mailAudit"
        /\ Head(todo[w]) \notin {"mailAudit", "importAudit"}
  BY <1>1, <1>4, ResourceRoute
<1>8. Head(todo[w]) \in {"findResource", "deliver"} => steps # <<>>
  BY <1>1, <1>4, ResourceRoute DEF Pending
<1>9. Remembering(steps, locals)'
  <2> SUFFICES ASSUME steps # <<>>
               PROVE  Remembering(steps, locals)'
    BY DEF Remembering
  <2>1. locals = arg[w]
    BY <1>5
  <2>2. DOMAIN locals.seen = {} /\ DOMAIN locals.at = {} /\ DOMAIN locals = {"id", "payload", "seen", "at"}
        /\ (Head(todo[w]) = "findResource" => locals.id \in Records)
    BY <1>1, <2>1 DEF Remembering, Merging
  <2>3. Remembers(locals.seen, locals.at)'
    BY <2>2 DEF Remembers
  <2>4. Head(steps) \in {"auditResource", "insertNextResource", "importAudit", "deleteResource", "deliverMail", "mailAudit"}
        /\ (Head(steps) = "deleteResource" => Head(todo[w]) = "findResource")
    BY <1>1, <1>7
  <2>5. steps \in Importing => todo[w] \in Importing
    BY <1>1, <1>4, ResourceRoute
  <2>6. steps \in Importing => locals.payload \in RecordData
    BY <1>1, <2>1, <2>5 DEF Remembering
  <2> QED
    BY <2>2, <2>3, <2>4, <2>6 DEF Remembering, Merging
<1>10. /\ Head(todo[w]) = "auditResource" => Owed(todo[w]) = 1 /\ Owed(steps) = 0
       /\ Head(todo[w]) = "deliver" => Owed(todo[w]) = 1 /\ Owed(steps) = 1
       /\ Head(todo[w]) \notin {"auditResource", "deliver"} => Owed(todo[w]) = 0 /\ Owed(steps) = 0
  BY <1>1, <1>7, <1>8 DEF Owed, Pending
<1>11. db'.writes + db.audits + db.unaudited + Owed(todo[w]) = db.writes + db'.audits + db'.unaudited + Owed(steps)
  <2>1. PICK k \in Nat, a \in Nat, e \in Nat : k = db.writes /\ a = db.audits /\ e = db.unaudited
    BY <1>1 DEF ResourcesTyped
  <2>2. PICK i \in {0, 1} : i = IF Head(todo[w]) = "auditResource" THEN 1 ELSE 0
    OBVIOUS
  <2>3. db'.writes = k /\ db'.audits = a + i /\ db'.unaudited = e
    BY <1>2, <2>1, <2>2
  <2>4. PICK o \in {0, 1} : o = Owed(steps) /\ Owed(todo[w]) = o + i
    BY <1>10, <2>2
  <2>5. k + a + e + (o + i) = k + (a + i) + e + o
    BY <2>2, <2>4
  <2> QED
    BY <2>1, <2>3, <2>4, <2>5
<1> QED
  BY <1>3, <1>6, <1>9, <1>11, ResourceStep

\* A record with the fields that were asked for is a record, and has them.
LEMMA MergedRecord ==
  ASSUME NEW record \in RecordData, NEW changes \in Payloads
  PROVE  /\ Merged(record, changes) \in RecordData
         /\ \A f \in Fields : Merged(record, changes)[f] = IF f \in DOMAIN changes THEN changes[f] ELSE record[f]
<1>1. PICK f \in Fields : changes \in [{f} -> Values]
  BY DEF Payloads
<1>2. DOMAIN record = Fields /\ DOMAIN changes = {f} /\ Fields \cup {f} = Fields
  BY <1>1 DEF RecordData
<1>3. Merged(record, changes) = [g \in Fields |-> IF g \in DOMAIN changes THEN changes[g] ELSE record[g]]
  BY <1>2 DEF Merged
<1>4. \A g \in Fields : (IF g \in DOMAIN changes THEN changes[g] ELSE record[g]) \in Values
  BY <1>1, <1>2 DEF RecordData
<1>5. [g \in Fields |-> IF g \in DOMAIN changes THEN changes[g] ELSE record[g]] \in [Fields -> Values]
  BY <1>4
<1> QED
  BY <1>3, <1>5 DEF RecordData

\* A write of a record that has its audit still to come.
LEMMA RecordWrites ==
  ASSUME ResourceInv, NEW w \in Workers,
         InsertResource(w) \/ InsertNextResource(w) \/ UpsertResource(w) \/ EraseResource(w) \/ MergeProfile(w)
  PROVE  ResourceInv'
<1>1. /\ Slots /\ ResourcesTyped /\ todo[w] \in ResourceTodo /\ todo[w] # <<>> /\ Remembering(todo[w], arg[w])
      /\ Head(todo[w]) \in {"insertResource", "insertNextResource", "upsertResource", "deleteResource", "mergeProfile"}
  BY DEF ResourceInv, InsertResource, InsertNextResource, UpsertResource, EraseResource, MergeProfile, At
<1>2. PICK steps \in ResourceTodo : steps = Tail(todo[w]) /\ Pending(steps) /\ steps # <<>>
  BY <1>1, ResourceRoute DEF Pending
<1>3. DOMAIN arg[w] = {"id", "payload", "seen", "at"} /\ DOMAIN arg[w].at = DOMAIN arg[w].seen
      /\ (Head(todo[w]) \notin Merging => DOMAIN arg[w].seen = {})
  BY <1>1 DEF Remembering
<1>4. \E locals : /\ Moves(w, steps, locals)
                  /\ DOMAIN locals = {"id", "payload", "seen", "at"}
                  /\ DOMAIN locals.seen = {} /\ DOMAIN locals.at = {}
                  /\ Head(todo[w]) = "insertResource" => locals = arg[w]
  <2>1. CASE Proceed(w) /\ Head(todo[w]) \notin Merging
    BY <1>1, <1>2, <1>3, <2>1, ProceedMoves
  <2>2. CASE Written(w) /\ Head(todo[w]) # "insertResource"
    <3>1. PICK locals : locals = [arg[w] EXCEPT !.payload = <<>>, !.seen = <<>>, !.at = <<>>]
      OBVIOUS
    <3>2. DOMAIN locals = {"id", "payload", "seen", "at"} /\ DOMAIN locals.seen = {} /\ DOMAIN locals.at = {}
      BY <1>3, <3>1
    <3>3. Moves(w, steps, locals)
      BY <1>1, <1>2, <2>2, <3>1, ProceedWithMoves DEF Written
    <3> QED
      BY <2>2, <3>2, <3>3
  <2>3. (Proceed(w) /\ Head(todo[w]) \notin Merging) \/ (Written(w) /\ Head(todo[w]) # "insertResource")
    BY DEF InsertResource, InsertNextResource, UpsertResource, EraseResource, MergeProfile, At, Merging
  <2> QED
    BY <2>1, <2>2, <2>3
<1>5. PICK locals : /\ Moves(w, steps, locals)
                    /\ DOMAIN locals = {"id", "payload", "seen", "at"}
                    /\ DOMAIN locals.seen = {} /\ DOMAIN locals.at = {}
                    /\ Head(todo[w]) = "insertResource" => locals = arg[w]
  BY <1>4
<1>6. \/ \E r \in Records, data \in RecordData \cup {None} : PutResource(r, data)
      \/ db.writes < MaxWrites /\ db' = [db EXCEPT !.writes = @ + 1]
  <2>1. CASE InsertResource(w)
    <3>1. Head(todo[w]) = "insertResource" /\ PutResource(arg[w].id, arg[w].payload)
      BY <2>1 DEF InsertResource, At
    <3>2. arg[w].id \in Records /\ arg[w].payload \in RecordData
      BY <1>1, <3>1 DEF Remembering
    <3> QED
      BY <3>1, <3>2
  <2>2. CASE InsertNextResource(w)
    <3>1. PICK r \in Records : PutResource(r, arg[w].payload) /\ Head(todo[w]) = "insertNextResource"
      BY <2>2 DEF InsertNextResource, At
    <3>2. arg[w].payload \in RecordData
      BY <1>1, <3>1, ResourceRoute DEF Remembering
    <3> QED
      BY <3>1, <3>2
  <2>3. CASE UpsertResource(w)
    <3>1. Head(todo[w]) = "upsertResource" /\ PutResource(arg[w].id, Merged(arg[w].seen[arg[w].id], arg[w].payload))
      BY <2>3 DEF UpsertResource, At, mergedData
    <3>2. arg[w].id \in Records /\ arg[w].payload \in Payloads /\ arg[w].seen[arg[w].id] \in RecordData
      BY <1>1, <3>1 DEF Remembering, Remembers, Merging
    <3>3. Merged(arg[w].seen[arg[w].id], arg[w].payload) \in RecordData
      BY <3>2, MergedRecord
    <3> QED
      BY <3>1, <3>2, <3>3
  <2>4. CASE EraseResource(w)
    <3>1. Head(todo[w]) = "deleteResource" /\ PutResource(arg[w].id, None)
      BY <2>4 DEF EraseResource, At
    <3>2. arg[w].id \in Records
      BY <1>1, <3>1 DEF Remembering
    <3> QED
      BY <3>1, <3>2
  <2>5. CASE MergeProfile(w)
    BY <2>5 DEF MergeProfile
  <2> QED
    BY <2>1, <2>2, <2>3, <2>4, <2>5
<1>7. ResourcesTyped' /\ Rewrites /\ db'.writes = db.writes + 1 /\ db'.audits = db.audits /\ db'.unaudited = db.unaudited
  <2>1. ASSUME NEW r \in Records, NEW data \in RecordData \cup {None}, PutResource(r, data)
        PROVE  ResourcesTyped' /\ Rewrites /\ db'.writes = db.writes + 1 /\ db'.audits = db.audits
               /\ db'.unaudited = db.unaudited
    <3>1. db.writes < MaxWrites
          /\ db' = [db EXCEPT !.rows = [@ EXCEPT ![r] = data], !.writes = db.writes + 1,
                              !.written = [@ EXCEPT ![r] = db.writes + 1]]
      BY <2>1 DEF PutResource
    <3>2. /\ DOMAIN db' = ResourceDomain /\ db'.rows = [db.rows EXCEPT ![r] = data] /\ db'.writes = db.writes + 1
          /\ db'.written = [db.written EXCEPT ![r] = db.writes + 1] /\ db'.audits = db.audits
          /\ db'.unaudited = db.unaudited
      BY <1>1, <3>1 DEF ResourcesTyped, ResourceDomain
    <3> QED
      BY <1>1, <3>1, <3>2, RecordWritten
  <2>2. ASSUME db.writes < MaxWrites, db' = [db EXCEPT !.writes = @ + 1]
        PROVE  ResourcesTyped' /\ Rewrites /\ db'.writes = db.writes + 1 /\ db'.audits = db.audits
               /\ db'.unaudited = db.unaudited
    <3>1. /\ DOMAIN db' = ResourceDomain /\ db'.rows = db.rows /\ db'.writes = db.writes + 1
          /\ db'.written = db.written /\ db'.audits = db.audits /\ db'.unaudited = db.unaudited
      BY <1>1, <2>2 DEF ResourcesTyped, ResourceDomain
    <3> QED
      BY <1>1, <2>2, <3>1, RecordsSame
  <2> QED
    BY <1>6, <2>1, <2>2
<1>8. Head(steps) \in {"auditResource", "deliver"}
  BY <1>2 DEF Pending
<1>9. Remembering(steps, locals)'
  <2>1. Remembers(locals.seen, locals.at)'
    BY <1>5 DEF Remembers
  <2>2. steps \in Importing => Head(todo[w]) = "insertResource"
    BY <1>1, <1>2, ResourceRoute
  <2>3. steps \in Importing => locals.payload \in RecordData
    BY <1>1, <1>5, <2>2 DEF Remembering
  <2> QED
    BY <1>5, <1>8, <2>1, <2>3 DEF Remembering, Merging
<1>10. Owed(todo[w]) = 0 /\ Owed(steps) = 1
  BY <1>1, <1>2 DEF Owed, Pending
<1>11. db'.writes + db.audits + db.unaudited + Owed(todo[w]) = db.writes + db'.audits + db'.unaudited + Owed(steps)
  <2>1. PICK k \in Nat, a \in Nat, e \in Nat : k = db.writes /\ a = db.audits /\ e = db.unaudited
    BY <1>1 DEF ResourcesTyped
  <2> QED
    BY <1>7, <1>10, <2>1
<1> QED
  BY <1>5, <1>7, <1>9, <1>11, ResourceStep

\* A write of the institution data pages, which nothing will audit.
LEMMA UnauditedWrite ==
  ASSUME ResourcesTyped, NEW r \in Records, NEW data \in RecordData \cup {None}, Unaudited(r, data)
  PROVE  /\ ResourcesTyped' /\ Rewrites
         /\ db'.writes = db.writes + 1 /\ db'.audits = db.audits /\ db'.unaudited = db.unaudited + 1
         /\ db'.rows = [db.rows EXCEPT ![r] = data] /\ db'.written = [db.written EXCEPT ![r] = db.writes + 1]
<1>1. db.writes < MaxWrites
      /\ db' = [db EXCEPT !.rows = [@ EXCEPT ![r] = data], !.writes = db.writes + 1,
                          !.written = [@ EXCEPT ![r] = db.writes + 1], !.unaudited = db.unaudited + 1]
  BY DEF Unaudited
<1>2. /\ DOMAIN db' = ResourceDomain /\ db'.rows = [db.rows EXCEPT ![r] = data] /\ db'.writes = db.writes + 1
      /\ db'.written = [db.written EXCEPT ![r] = db.writes + 1] /\ db'.audits = db.audits
      /\ db'.unaudited = db.unaudited + 1
  BY <1>1 DEF ResourcesTyped, ResourceDomain
<1>3. ResourcesTyped' /\ Rewrites
  BY <1>1, <1>2, RecordWritten
<1> QED
  BY <1>2, <1>3

\* A record is created or removed there.
LEMMA PageWrites ==
  ASSUME ResourceInv, NEW w \in Workers, InstitutionCreate(w) \/ InstitutionRemove(w)
  PROVE  ResourceInv'
<1>1. Slots /\ ResourcesTyped /\ Idle(w) /\ Rests
  BY ServeRests DEF ResourceInv, InstitutionCreate, InstitutionRemove, Serve
<1>2. PICK r \in Records, data \in RecordData \cup {None} : Unaudited(r, data)
  <2>1. NewData \subseteq RecordData
    BY DEF NewData, RecordData
  <2> QED
    BY <2>1 DEF InstitutionCreate, InstitutionRemove
<1>3. ResourcesTyped' /\ Rewrites /\ db'.writes = db.writes + 1 /\ db'.audits = db.audits
      /\ db'.unaudited = db.unaudited + 1
  BY <1>1, <1>2, UnauditedWrite
<1>4. Moves(w, todo[w], arg[w]) /\ todo[w] \in ResourceTodo
  BY <1>1 DEF Moves, Rests, ResourceInv
<1>5. Remembering(todo[w], arg[w])'
  <2>1. PICK l : l = arg[w]
    OBVIOUS
  <2>2. Remembering(<<>>, l)'
    BY DEF Remembering
  <2>3. todo'[w] = <<>>
    BY <1>1 DEF Rests, Idle
  <2> QED
    BY <2>3 DEF Remembering
<1>6. PICK locals : locals = arg[w] /\ Moves(w, <<>>, locals)
  BY <1>1, <1>4 DEF Idle
<1>7. Remembering(<<>>, locals)' /\ <<>> \in ResourceTodo
  BY DEF Remembering, ResourceTodo
<1>8. Owed(todo[w]) = 0 /\ Owed(<<>>) = 0
  BY <1>1 DEF Owed, Pending, Idle
<1>9. db'.writes + db.audits + db.unaudited + Owed(todo[w]) = db.writes + db'.audits + db'.unaudited + Owed(<<>>)
  <2>1. PICK k \in Nat, a \in Nat, e \in Nat : k = db.writes /\ a = db.audits /\ e = db.unaudited
    BY <1>1 DEF ResourcesTyped
  <2>2. db'.writes = k + 1 /\ db'.audits = a /\ db'.unaudited = e + 1
    BY <1>3, <2>1
  <2>3. k + 1 + a + e + 0 = k + a + (e + 1) + 0
    OBVIOUS
  <2> QED
    BY <1>8, <2>1, <2>2, <2>3
<1> QED
  BY <1>3, <1>6, <1>7, <1>9, ResourceStep

\* A record is changed there, or one notification after the other.
LEMMA PageMerges ==
  ASSUME ResourceInv, NEW w \in Workers, OverwriteResource(w) \/ MarkOne(w)
  PROVE  ResourceInv'
<1>1. /\ Slots /\ ResourcesTyped /\ todo[w] \in ResourceTodo /\ todo[w] # <<>> /\ Remembering(todo[w], arg[w])
      /\ Head(todo[w]) \in {"updateResource", "markOne"}
  BY DEF ResourceInv, OverwriteResource, MarkOne, At
<1>2. /\ DOMAIN arg[w] = {"id", "payload", "seen", "at"} /\ arg[w].payload \in Payloads
      /\ DOMAIN arg[w].at = DOMAIN arg[w].seen /\ Remembers(arg[w].seen, arg[w].at)
  BY <1>1 DEF Remembering, Merging
<1>3. ASSUME NEW r \in DOMAIN arg[w].seen
      PROVE  r \in Records /\ mergedData(w, r) \in RecordData
  BY <1>2, MergedRecord DEF Remembers, mergedData
<1> DEFINE Wrote == \/ \E r \in Records, data \in RecordData \cup {None} : Unaudited(r, data)
                    \/ db' = db
<1>4. Wrote /\ ResourcesTyped' /\ Rewrites
  <2>1. Wrote
    <3>1. CASE OverwriteResource(w)
      <4>1. arg[w].id \in DOMAIN arg[w].seen
        BY <1>1, <3>1 DEF Remembering, OverwriteResource, At
      <4> QED
        BY <1>3, <3>1, <4>1 DEF OverwriteResource
    <3>2. CASE MarkOne(w)
      BY <1>3, <3>2 DEF MarkOne
    <3> QED
      BY <3>1, <3>2
  <2>2. CASE db' = db
    BY <1>1, <2>1, <2>2, RecordsSame DEF ResourcesTyped
  <2>3. ASSUME NEW r \in Records, NEW data \in RecordData \cup {None}, Unaudited(r, data)
        PROVE  ResourcesTyped' /\ Rewrites
    BY <1>1, <2>3, UnauditedWrite
  <2> QED
    BY <2>1, <2>2, <2>3
<1>5. \E steps \in {<<>>, <<"markOne">>} : \E locals : Moves(w, steps, locals) /\ Remembering(steps, locals)'
  <2>1. CASE OverwriteResource(w)
    <3>1. Tail(todo[w]) = <<>>
      BY <1>1, <2>1, ResourceRoute DEF OverwriteResource, At
    <3>2. Moves(w, <<>>, None)
      BY <1>1, <2>1, <3>1, ProceedWithMoves DEF OverwriteResource, Written
    <3>3. Remembering(<<>>, None)'
      BY DEF Remembering
    <3> QED
      BY <3>2, <3>3
  <2>2. CASE MarkOne(w)
    <3>1. PICK r \in DOMAIN arg[w].seen, rest \in SUBSET DOMAIN arg[w].seen :
              GoOn(w, IF rest = {} THEN <<>> ELSE <<"markOne">>,
                   [arg[w] EXCEPT !.seen = [q \in rest |-> arg[w].seen[q]], !.at = [q \in rest |-> arg[w].at[q]]])
      BY <2>2 DEF MarkOne
    <3>2. PICK locals : locals = [arg[w] EXCEPT !.seen = [q \in rest |-> arg[w].seen[q]], !.at = [q \in rest |-> arg[w].at[q]]]
      OBVIOUS
    <3>3. PICK steps \in {<<>>, <<"markOne">>} : steps = IF rest = {} THEN <<>> ELSE <<"markOne">>
      OBVIOUS
    <3>4. Moves(w, steps, IF steps = <<>> THEN None ELSE locals)
      BY <1>1, <3>1, <3>2, <3>3, GoOnMoves
    <3>5. CASE steps = <<>>
      <4>1. Remembering(<<>>, None)'
        BY DEF Remembering
      <4> QED
        BY <3>3, <3>4, <3>5, <4>1
    <3>6. CASE steps # <<>>
      <4>1. /\ DOMAIN locals = {"id", "payload", "seen", "at"} /\ locals.payload = arg[w].payload
            /\ locals.seen = [q \in rest |-> arg[w].seen[q]] /\ locals.at = [q \in rest |-> arg[w].at[q]]
        BY <1>2, <3>2
      <4>2. Remembers(locals.seen, locals.at)
        BY <1>2, <3>1, <4>1 DEF Remembers
      <4>3. steps = <<"markOne">> /\ Head(steps) = "markOne"
        BY <3>3, <3>6
      <4>4. Remembering(steps, locals)
        BY <1>2, <4>1, <4>2, <4>3, ImportHead DEF Remembering, Merging
      <4>5. Remembering(steps, locals)'
        BY <1>1, <1>4, <4>4, Remembered
      <4> QED
        BY <3>3, <3>4, <3>6, <4>5
    <3> QED
      BY <3>5, <3>6
  <2> QED
    BY <2>1, <2>2
<1>6. PICK steps, locals : /\ steps \in {<<>>, <<"markOne">>}
                           /\ Moves(w, steps, locals) /\ Remembering(steps, locals)'
  BY <1>5
<1>7. steps \in ResourceTodo /\ Owed(todo[w]) = 0 /\ Owed(steps) = 0
  <2>1. Head(<<"markOne">>) = "markOne"
    OBVIOUS
  <2> QED
    BY <1>1, <1>6, <2>1 DEF Owed, Pending, ResourceTodo
<1>8. PICK k \in Nat, a \in Nat, e \in Nat : k = db.writes /\ a = db.audits /\ e = db.unaudited
  BY <1>1 DEF ResourcesTyped
<1>9. db'.writes + db.audits + db.unaudited + Owed(todo[w]) = db.writes + db'.audits + db'.unaudited + Owed(steps)
  <2>1. CASE db' = db
    BY <1>7, <1>8, <2>1
  <2>2. ASSUME NEW r \in Records, NEW data \in RecordData \cup {None}, Unaudited(r, data)
        PROVE  db'.writes = db.writes + 1 /\ db'.audits = db.audits /\ db'.unaudited = db.unaudited + 1
    BY <1>1, <2>2, UnauditedWrite
  <2>3. CASE db'.writes = db.writes + 1 /\ db'.audits = db.audits /\ db'.unaudited = db.unaudited + 1
    <3>1. db'.writes = k + 1 /\ db'.audits = a /\ db'.unaudited = e + 1
      BY <1>8, <2>3
    <3>2. k + 1 + a + e + 0 = k + a + (e + 1) + 0
      OBVIOUS
    <3> QED
      BY <1>7, <1>8, <3>1, <3>2
  <2> QED
    BY <1>4, <2>1, <2>2, <2>3
<1> QED
  BY <1>4, <1>6, <1>7, <1>9, ResourceStep

\* A request ends early.
LEMMA ResourcesFail ==
  ASSUME ResourceInv, NEW w \in Workers, FailResources(w)
  PROVE  ResourceInv'
<1>1. /\ Slots /\ ResourcesTyped /\ todo[w] # <<>> /\ Answer(w)
      /\ db' = IF Pending(todo[w]) THEN [db EXCEPT !.unaudited = @ + 1] ELSE db
  BY DEF ResourceInv, FailResources, AuditPending, At, Pending, Idle
<1>2. Moves(w, <<>>, None)
  BY <1>1, GoOnMoves DEF Answer
<1>3. /\ DOMAIN db' = ResourceDomain /\ db'.rows = db.rows /\ db'.written = db.written /\ db'.writes = db.writes
      /\ db'.audits = db.audits
      /\ db'.unaudited = IF Pending(todo[w]) THEN db.unaudited + 1 ELSE db.unaudited
  BY <1>1 DEF ResourcesTyped, ResourceDomain
<1>4. ResourcesTyped' /\ Rewrites
  BY <1>1, <1>3, RecordsSame
<1>5. Remembering(<<>>, None)' /\ <<>> \in ResourceTodo
  BY DEF Remembering, ResourceTodo
<1>6. Owed(<<>>) = 0 /\ Owed(todo[w]) = IF Pending(todo[w]) THEN 1 ELSE 0
  BY DEF Owed, Pending
<1>7. db'.writes + db.audits + db.unaudited + Owed(todo[w]) = db.writes + db'.audits + db'.unaudited + Owed(<<>>)
  <2>1. PICK k \in Nat, a \in Nat, e \in Nat : k = db.writes /\ a = db.audits /\ e = db.unaudited
    BY <1>1 DEF ResourcesTyped
  <2>2. PICK i \in {0, 1} : i = Owed(todo[w])
    BY <1>6
  <2>3. db'.writes = k /\ db'.audits = a /\ db'.unaudited = e + i
    BY <1>3, <1>6, <2>1, <2>2
  <2>4. k + a + e + i = k + a + (e + i) + 0
    BY <2>2
  <2> QED
    BY <1>6, <2>1, <2>2, <2>3, <2>4
<1> QED
  BY <1>2, <1>4, <1>5, <1>7, ResourceStep

\* A behaviour of the records has only its own steps.
LEMMA ResourcesAlone ==
  ASSUME service = "resources", Next
  PROVE  ResourcesNext
BY DEF Next

\* Every step of any service keeps the invariant of the records.
LEMMA ResourcesKeep ==
  ASSUME service = "resources" => ResourceInv, [Next]_vars
  PROVE  (service = "resources" => ResourceInv)'
<1>1. service' = service
  BY ServiceKept DEF Kept
<1> SUFFICES ASSUME service = "resources", ResourceInv
             PROVE  ResourceInv'
  BY <1>1
<1>2. CASE UNCHANGED vars
  <2>1. db' = db /\ todo' = todo /\ arg' = arg
    BY <1>2 DEF vars
  <2>2. Slots' /\ ResourcesTyped' /\ Audited'
    BY <2>1 DEF ResourceInv, Slots, ResourcesTyped, Audited, Unfinished, Idle, AuditPending, At
  <2>3. ASSUME NEW w \in Workers
        PROVE  todo'[w] \in ResourceTodo /\ Remembering(todo[w], arg[w])'
    <3>1. PICK s, l : s = todo[w] /\ l = arg[w] /\ s = todo'[w] /\ l = arg'[w]
      BY <2>1
    <3>2. Remembering(s, l)'
      BY <2>1, <3>1 DEF ResourceInv, Remembering, Remembers
    <3> QED
      BY <2>1, <3>1, <3>2 DEF ResourceInv, Remembering, Remembers
  <2> QED
    BY <2>2, <2>3 DEF ResourceInv
<1>3. CASE Next
  <2>1. PICK w \in Workers : ResourcesNext!(w)
    BY <1>3, ResourcesAlone DEF ResourcesNext
  <2> QED
    BY <2>1, ResourceRequests, RecordsRead, ResourcesGoOn, RecordWrites, PageWrites, PageMerges, ResourcesFail
<1> QED
  BY <1>2, <1>3

\* The invariant of the records holds at the beginning.
LEMMA ResourcesStart == Init => (service = "resources" => ResourceInv)
<1> SUFFICES ASSUME Init, service = "resources"
             PROVE  ResourceInv
  OBVIOUS
<1>1. ResourcesInit
  BY DEF Init, NotificationsInit, AlumniInit, GraduationsInit, TenantsInit, RegistrarInit, ProfessorsInit,
     ApplicationsInit, BillingInit, Start
<1>2. todo = [w \in Workers |-> <<>>] /\ arg = [w \in Workers |-> None] /\ db = ResourceTables
  BY <1>1 DEF ResourcesInit, Start
<1>3. ResourcesTyped /\ db.writes = 0 /\ db.audits = 0 /\ db.unaudited = 0
  BY <1>2, ResourceBounds DEF ResourcesTyped, ResourceTables, ResourceDomain
<1>4. \A w \in Workers : Idle(w) /\ todo[w] \in ResourceTodo /\ Remembering(todo[w], arg[w])
  BY <1>2 DEF Remembering, ResourceTodo, Idle
<1>5. Unfinished = 0
  <2>1. {w \in Workers : ~Idle(w) /\ AuditPending(w)} = {}
    BY <1>4
  <2> QED
    BY <2>1, FS_EmptySet DEF Unfinished
<1>6. Slots
  BY <1>2 DEF Slots
<1> QED
  BY <1>3, <1>4, <1>5, <1>6 DEF ResourceInv, Audited

\* The inductive invariant of the records.
THEOREM ResourceInvariant == Spec => [](service = "resources" => ResourceInv)
<1>1. Init => (service = "resources" => ResourceInv)
  BY ResourcesStart
<1>2. (service = "resources" => ResourceInv) /\ [Next]_vars => (service = "resources" => ResourceInv)'
  BY ResourcesKeep
<1> QED
  BY <1>1, <1>2, PTL DEF Spec

\* Every write of the school administration is audited, on its way to its
\* audit, or of a request that failed in between.
THEOREM WritesAreAccounted == Spec => []AuditAccount
<1>1. (service = "resources" => ResourceInv) => AuditAccount
  BY DEF ResourceInv, Audited, AuditAccount
<1> QED
  BY <1>1, ResourceInvariant, PTL

\* One notification is marked, or not, and the rest goes on.
LEMMA MarkedOne ==
  ASSUME NEW w, MarkOne(w)
  PROVE  /\ \E q \in DOMAIN arg[w].seen : Unaudited(q, mergedData(w, q)) \/ db' = db
         /\ \E steps, locals : GoOn(w, steps, locals)
<1>1. \E q \in DOMAIN arg[w].seen : Unaudited(q, mergedData(w, q)) \/ db' = db
  BY Zenon DEF MarkOne
<1>2. \E steps, locals : GoOn(w, steps, locals)
  BY Zenon DEF MarkOne
<1> QED
  BY <1>1, <1>2

\* No step moves two requests.
LEMMA ResourceMover ==
  ASSUME Slots, NEW v \in Workers, ResourcesNext!(v), NEW w \in Workers, arg'[w] # arg[w]
  PROVE  v = w
<1> USE DEF Take, Serve, GoOn, Proceed, ProceedWith, Answer, SchoolAdminRequest, Slots
<1>1. CASE CreateResource(v) \/ UpdateResource(v) \/ DeleteResource(v) \/ QueueDelivery(v)
  BY <1>1 DEF CreateResource, UpdateResource, DeleteResource, QueueDelivery
<1>2. CASE ImportResources(v) \/ UpdateProfile(v) \/ InstitutionUpdate(v) \/ markAllNotificationsRead(v)
  BY <1>2 DEF ImportResources, UpdateProfile, InstitutionUpdate, markAllNotificationsRead
<1>3. CASE InsertResource(v) \/ InsertNextResource(v) \/ UpsertResource(v) \/ EraseResource(v) \/ MergeProfile(v)
           \/ OverwriteResource(v)
  BY <1>3 DEF InsertResource, InsertNextResource, UpsertResource, EraseResource, MergeProfile, OverwriteResource,
     Written
<1>4. CASE FindResource(v) \/ ReadResource(v) \/ Deliver(v) \/ AuditResource(v) \/ AuditOther(v) \/ FailResources(v)
  BY <1>4 DEF FindResource, ReadResource, Reads, Deliver, AuditResource, AuditOther, FailResources
<1>5. CASE InstitutionCreate(v) \/ InstitutionRemove(v)
  BY <1>5 DEF InstitutionCreate, InstitutionRemove
<1>6. CASE ReadUnread(v) \/ MarkOne(v)
  <2>1. ASSUME NEW steps, NEW locals, GoOn(v, steps, locals)
        PROVE  v = w
    BY <2>1
  <2> HIDE DEF GoOn
  <2>2. CASE ReadUnread(v)
    <3>1. PICK records, steps : Reads(v, records, steps)
      <4> DEFINE unread == {r \in Records : ResourceExists(r) /\ db.rows[r].status # arg[v].payload.status}
      <4>1. Reads(v, unread, IF unread = {} THEN <<>> ELSE <<"markOne">>)
        BY <2>2 DEF ReadUnread
      <4> QED
        BY <4>1
    <3> QED
      BY <2>1, <3>1 DEF Reads
  <2>3. CASE MarkOne(v)
    <3>1. PICK steps, locals : GoOn(v, steps, locals)
      BY <2>3, MarkedOne
    <3> QED
      BY <2>1, <3>1
  <2> QED
    BY <1>6, <2>2, <2>3
<1> QED
  BY <1>1, <1>2, <1>3, <1>4, <1>5, <1>6

\* A request that holds what it read writes that back or nothing.
LEMMA WritesMerged ==
  ASSUME ResourceInv, NEW w \in Workers, ResourcesNext!(w), todo[w] # <<>>, Head(todo[w]) \in Merging,
         NEW r \in Records, db'.written[r] # db.written[r]
  PROVE  db'.rows[r] = mergedData(w, r)
<1>1. UpsertResource(w) \/ MarkOne(w) \/ OverwriteResource(w) \/ FailResources(w)
  <2>1. /\ ~(\/ CreateResource(w) \/ UpdateResource(w) \/ DeleteResource(w) \/ QueueDelivery(w) \/ ImportResources(w)
             \/ UpdateProfile(w) \/ InstitutionUpdate(w) \/ markAllNotificationsRead(w))
        /\ ~InstitutionCreate(w) /\ ~InstitutionRemove(w)
    BY DEF CreateResource, UpdateResource, DeleteResource, QueueDelivery, ImportResources, UpdateProfile,
       InstitutionUpdate, markAllNotificationsRead, InstitutionCreate, InstitutionRemove, SchoolAdminRequest, Take,
       Serve, Idle
  <2>2. /\ ~InsertResource(w) /\ ~InsertNextResource(w) /\ ~EraseResource(w) /\ ~MergeProfile(w)
        /\ ~FindResource(w) /\ ~ReadResource(w) /\ ~ReadUnread(w) /\ ~Deliver(w) /\ ~AuditResource(w) /\ ~AuditOther(w)
    BY DEF InsertResource, InsertNextResource, EraseResource, MergeProfile, FindResource, ReadResource, ReadUnread,
       Deliver, AuditResource, AuditOther, At, Merging
  <2> QED
    BY <2>1, <2>2
<1>2. ResourcesTyped
  BY DEF ResourceInv
<1>3. ASSUME NEW q \in Records, db'.rows = [db.rows EXCEPT ![q] = mergedData(w, q)],
             db'.written = [db.written EXCEPT ![q] = db.writes + 1]
      PROVE  db'.rows[r] = mergedData(w, r)
  <2>1. DOMAIN db.rows = Records /\ DOMAIN db.written = Records
    BY <1>2 DEF ResourcesTyped
  <2>2. r = q
    BY <1>3, <2>1
  <2>3. db'.rows[q] = mergedData(w, q)
    BY <1>3, <2>1
  <2> QED
    BY <2>2, <2>3
<1>4. \A q \in DOMAIN arg[w].seen : q \in Records
  BY DEF ResourceInv, Remembering, Remembers
<1>5. CASE UpsertResource(w)
  <2>1. arg[w].id \in Records
    BY <1>5 DEF ResourceInv, Remembering, UpsertResource, At
  <2>2. db' = [db EXCEPT !.rows = [@ EXCEPT ![arg[w].id] = mergedData(w, arg[w].id)], !.writes = db.writes + 1,
                         !.written = [@ EXCEPT ![arg[w].id] = db.writes + 1]]
    BY <1>5 DEF UpsertResource, PutResource
  <2> HIDE DEF mergedData
  <2>3. db'.rows = [db.rows EXCEPT ![arg[w].id] = mergedData(w, arg[w].id)]
        /\ db'.written = [db.written EXCEPT ![arg[w].id] = db.writes + 1]
    BY <1>2, <2>2 DEF ResourcesTyped, ResourceDomain
  <2> QED
    BY <1>3, <2>1, <2>3
<1>6. ASSUME NEW q \in Records, Unaudited(q, mergedData(w, q))
      PROVE  db'.rows[r] = mergedData(w, r)
  <2>1. db' = [db EXCEPT !.rows = [@ EXCEPT ![q] = mergedData(w, q)], !.writes = db.writes + 1,
                         !.written = [@ EXCEPT ![q] = db.writes + 1], !.unaudited = db.unaudited + 1]
    BY <1>6 DEF Unaudited
  <2>2. db'.rows = [db.rows EXCEPT ![q] = mergedData(w, q)] /\ db'.written = [db.written EXCEPT ![q] = db.writes + 1]
    BY <1>2, <2>1 DEF ResourcesTyped, ResourceDomain
  <2> QED
    BY <1>3, <2>2
<1>7. CASE MarkOne(w)
  <2>1. PICK q \in DOMAIN arg[w].seen : Unaudited(q, mergedData(w, q)) \/ db' = db
    BY <1>7, MarkedOne
  <2> QED
    BY <1>4, <1>6, <2>1
<1>8. CASE OverwriteResource(w)
  <2>1. arg[w].id \in Records
    BY <1>8 DEF ResourceInv, Remembering, OverwriteResource, At
  <2> QED
    BY <1>6, <1>8, <2>1 DEF OverwriteResource
<1>9. CASE FailResources(w)
  BY <1>2, <1>9 DEF FailResources, ResourcesTyped, ResourceDomain
<1> QED
  BY <1>1, <1>5, <1>7, <1>8, <1>9

\* LoneUpdateExact, of one step.
LoneUpdate == service = "resources" => \A w \in Workers, r \in Records :
    WritesBack(w, r) /\ arg[w].at[r] = db.written[r] =>
        /\ ResourceExists(r)
        /\ \A f \in Fields : db'.rows[r][f] =
              IF f \in DOMAIN arg[w].payload THEN arg[w].payload[f] ELSE db.rows[r][f]

\* A write of a record that nobody has written since it was read changes what
\* it was asked to change and nothing else, and brings nothing back.
THEOREM LoneUpdatesAreExact == Spec => LoneUpdateExact
<1>1. ASSUME service = "resources", ResourceInv, [Next]_vars, NEW w \in Workers, NEW r \in Records,
             WritesBack(w, r), arg[w].at[r] = db.written[r]
      PROVE  /\ ResourceExists(r)
             /\ \A f \in Fields : db'.rows[r][f] =
                   IF f \in DOMAIN arg[w].payload THEN arg[w].payload[f] ELSE db.rows[r][f]
  <2>1. todo[w] # <<>> /\ arg'[w] # arg[w] /\ r \in DOMAIN arg[w].seen /\ db'.written[r] # db.written[r]
    BY <1>1 DEF WritesBack, Idle
  <2>2. PICK v \in Workers : ResourcesNext!(v)
    BY <1>1, <2>1, ResourcesAlone DEF ResourcesNext, vars
  <2>3. ResourcesNext!(w)
    BY <1>1, <2>1, <2>2, ResourceMover DEF ResourceInv
  <2>4. Remembering(todo[w], arg[w]) /\ Head(todo[w]) \in Merging
    BY <1>1, <2>1 DEF ResourceInv, Remembering
  <2>5. db'.rows[r] = Merged(arg[w].seen[r], arg[w].payload)
    BY <1>1, <2>1, <2>3, <2>4, WritesMerged DEF mergedData
  <2>6. arg[w].payload \in Payloads /\ arg[w].seen[r] \in RecordData /\ arg[w].seen[r] = db.rows[r]
    BY <1>1, <2>1, <2>4 DEF Remembering, Remembers
  <2>7. ResourceExists(r)
    BY <2>6, NoneIsNoData DEF ResourceExists, RecordData
  <2> QED
    BY <2>5, <2>6, <2>7, MergedRecord
<1>2. (service = "resources" => ResourceInv) /\ [Next]_vars => [LoneUpdate]_vars
  BY <1>1 DEF LoneUpdate
<1> QED
  BY <1>2, ResourceInvariant, PTL DEF Spec, LoneUpdateExact, LoneUpdate

-----------------------------------------------------------------------------
(* Totals *)

\* f[i] is the sum of the first i elements of s, up to n.
Sums(s, n, f) == /\ f \in [0 .. n -> Nat] /\ f[0] = 0
                 /\ \A i \in 1 .. n : f[i] = f[i - 1] + s[i]

\* A sequence of numbers has its partial sums: else there is a least place that
\* they do not reach, which is not the first one, and the place before it does.
LEMMA SumsExist ==
  ASSUME NEW s \in Seq(Nat)
  PROVE  \E f : Sums(s, Len(s), f)
<1> DEFINE T == {n \in 0 .. Len(s) : ~\E f : Sums(s, n, f)}
<1>1. Len(s) \in Nat /\ \A i \in 1 .. Len(s) : s[i] \in Nat
  OBVIOUS
<1> SUFFICES ASSUME T # {}
             PROVE  FALSE
  BY <1>1
<1>2. PICK n \in T : \A m \in T : n <= m
  <2>1. \A m \in T : m \in Nat
    BY <1>1
  <2> HIDE DEF T
  <2> QED
    BY <2>1, SmallestOf
<1>3. n \in 0 .. Len(s) /\ ~\E f : Sums(s, n, f)
  OBVIOUS
<1>4. n # 0
  <2>1. Sums(s, 0, [i \in 0 .. 0 |-> 0])
    BY DEF Sums
  <2> QED
    BY <1>3, <2>1
<1>5. n - 1 \in 0 .. Len(s) /\ n - 1 \notin T
  <2>1. n - 1 \in 0 .. Len(s) /\ ~(n <= n - 1)
    BY <1>1, <1>3, <1>4
  <2> HIDE DEF T
  <2> QED
    BY <1>2, <2>1
<1>6. PICK f : Sums(s, n - 1, f)
  BY <1>5
<1>7. Sums(s, n, [i \in 0 .. n |-> IF i = n THEN f[n - 1] + s[n] ELSE f[i]])
  <2>1. s[n] \in Nat /\ f[n - 1] \in Nat /\ n \in Nat
    BY <1>1, <1>3, <1>4, <1>6 DEF Sums
  <2> DEFINE g == [i \in 0 .. n |-> IF i = n THEN f[n - 1] + s[n] ELSE f[i]]
  <2>2. g \in [0 .. n -> Nat]
    <3>1. \A i \in 0 .. n : (IF i = n THEN f[n - 1] + s[n] ELSE f[i]) \in Nat
      BY <1>6, <2>1 DEF Sums
    <3> QED
      BY <3>1
  <2>3. g[0] = 0
    BY <1>4, <1>6, <2>1 DEF Sums
  <2>4. ASSUME NEW i \in 1 .. n
        PROVE  g[i] = g[i - 1] + s[i]
    <3>1. CASE i = n
      BY <2>1, <3>1
    <3>2. CASE i # n
      BY <1>6, <2>1, <3>2 DEF Sums
    <3> QED
      BY <3>1, <3>2
  <2> HIDE DEF g
  <2> QED
    BY <2>2, <2>3, <2>4 DEF Sums, g
<1> QED
  BY <1>3, <1>7

\* Each partial sum is the one before it and one more element.
LEMMA SumsStep ==
  ASSUME NEW s \in Seq(Nat), NEW f, Sums(s, Len(s), f), NEW n \in 1 .. Len(s)
  PROVE  /\ n - 1 \in 0 .. Len(s) /\ f[n - 1] \in Nat /\ f[n] \in Nat /\ s[n] \in Nat
         /\ f[n] = f[n - 1] + s[n]
<1>1. Len(s) \in Nat /\ s[n] \in Nat
  OBVIOUS
<1>2. n \in 0 .. Len(s) /\ n - 1 \in 0 .. Len(s)
  BY <1>1
<1> QED
  BY <1>1, <1>2 DEF Sums

\* The recursive function that the total is chosen as is the partial sums: there
\* is no least place where they differ.
LEMMA TotalIsSum ==
  ASSUME NEW s \in Seq(Nat)
  PROVE  \E f : Sums(s, Len(s), f) /\ total(s) = f[Len(s)]
<1> DEFINE P(f) == f = [n \in 0 .. Len(s) |-> IF n = 0 THEN 0 ELSE f[n - 1] + s[n]]
<1>1. total(s) = (CHOOSE f : P(f))[Len(s)]
  BY DEF total
<1>2. Len(s) \in Nat /\ \A i \in 1 .. Len(s) : s[i] \in Nat
  OBVIOUS
<1>3. PICK g : Sums(s, Len(s), g)
  BY SumsExist
<1>4. P(g)
  <2>1. g = [n \in 0 .. Len(s) |-> g[n]]
    BY <1>3 DEF Sums
  <2>2. \A n \in 0 .. Len(s) : g[n] = IF n = 0 THEN 0 ELSE g[n - 1] + s[n]
    BY <1>2, <1>3 DEF Sums
  <2> QED
    BY <2>1, <2>2
<1>5. PICK f : f = (CHOOSE h : P(h)) /\ P(f)
  <2> HIDE DEF P
  <2> QED
    BY <1>4
<1>6. /\ f[0] = 0 /\ \A i \in 1 .. Len(s) : f[i] = f[i - 1] + s[i]
      /\ DOMAIN f = 0 .. Len(s) /\ f = [n \in 0 .. Len(s) |-> f[n]]
  <2>1. f = [n \in 0 .. Len(s) |-> IF n = 0 THEN 0 ELSE f[n - 1] + s[n]]
    BY <1>5
  <2>2. DOMAIN f = 0 .. Len(s) /\ f = [n \in 0 .. Len(s) |-> f[n]]
    BY <2>1
  <2>3. \A n \in 0 .. Len(s) : f[n] = IF n = 0 THEN 0 ELSE f[n - 1] + s[n]
    BY <2>1
  <2>4. 0 \in 0 .. Len(s) /\ \A i \in 1 .. Len(s) : i \in 0 .. Len(s) /\ i # 0
    BY <1>2
  <2> QED
    BY <2>2, <2>3, <2>4
<1>7. \A n \in 0 .. Len(s) : f[n] = g[n]
  <2> DEFINE T == {n \in 0 .. Len(s) : f[n] # g[n]}
  <2> SUFFICES ASSUME T # {}
               PROVE  FALSE
    OBVIOUS
  <2>1. PICK n \in T : \A m \in T : n <= m
    <3>1. \A m \in T : m \in Nat
      BY <1>2
    <3> HIDE DEF T
    <3> QED
      BY <3>1, SmallestOf
  <2>2. n \in 0 .. Len(s) /\ f[n] # g[n]
    OBVIOUS
  <2>3. n # 0
    BY <1>3, <1>6, <2>2 DEF Sums
  <2>4. n \in 1 .. Len(s) /\ n - 1 \in 0 .. Len(s) /\ ~(n <= n - 1)
    BY <1>2, <2>2, <2>3
  <2>5. f[n - 1] = g[n - 1]
    <3>1. n - 1 \notin T
      <4> HIDE DEF T
      <4> QED
        BY <2>1, <2>4
    <3> QED
      BY <2>4, <3>1
  <2> QED
    BY <1>3, <1>6, <2>2, <2>4, <2>5 DEF Sums
<1>8. f = g
  <2>1. g = [n \in 0 .. Len(s) |-> g[n]]
    BY <1>3 DEF Sums
  <2> QED
    BY <1>6, <1>7, <2>1
<1> HIDE DEF P
<1> QED
  BY <1>1, <1>3, <1>5, <1>8

\* A list of amounts with more or larger amounts has no smaller total.
LEMMA TotalGrows ==
  ASSUME NEW s \in Seq(Nat), NEW t \in Seq(Nat), Len(s) <= Len(t), \A i \in 1 .. Len(s) : s[i] <= t[i]
  PROVE  total(s) \in Nat /\ total(t) \in Nat /\ total(s) <= total(t)
<1>1. PICK f : Sums(s, Len(s), f) /\ total(s) = f[Len(s)]
  BY TotalIsSum
<1>2. PICK g : Sums(t, Len(t), g) /\ total(t) = g[Len(t)]
  BY TotalIsSum
<1>3. /\ Len(s) \in Nat /\ \A i \in 1 .. Len(s) : s[i] \in Nat
      /\ Len(t) \in Nat /\ \A i \in 1 .. Len(t) : t[i] \in Nat
  OBVIOUS
<1>6. /\ f[Len(s)] \in Nat /\ f[0] = 0
      /\ g[Len(t)] \in Nat /\ g[0] = 0
  <2>1. Len(s) \in 0 .. Len(s) /\ Len(t) \in 0 .. Len(t)
    BY <1>3
  <2> QED
    BY <1>1, <1>2, <2>1 DEF Sums
<1> DEFINE T == {n \in 0 .. Len(t) : ~(f[IF n <= Len(s) THEN n ELSE Len(s)] <= g[n])}
<1>4. CASE T = {}
  <2>1. Len(t) \notin T /\ Len(t) \in 0 .. Len(t)
    BY <1>3, <1>4
  <2>2. f[Len(s)] <= g[Len(t)]
    BY <1>3, <2>1
  <2> QED
    BY <1>1, <1>2, <1>6, <2>2
<1>5. ASSUME T # {}
      PROVE  FALSE
  <2>1. PICK n \in T : \A m \in T : n <= m
    <3>1. \A m \in T : m \in Nat
      BY <1>3
    <3> HIDE DEF T
    <3> QED
      BY <1>5, <3>1, SmallestOf
  <2>2. n \in 0 .. Len(t) /\ ~(f[IF n <= Len(s) THEN n ELSE Len(s)] <= g[n])
    OBVIOUS
  <2>3. n # 0
    <3> SUFFICES ASSUME n = 0
                 PROVE  FALSE
      OBVIOUS
    <3>1. 0 <= Len(s) /\ 0 <= 0
      BY <1>3
    <3> QED
      BY <1>6, <2>2, <3>1
  <2>4. n \in 1 .. Len(t) /\ n - 1 \in 0 .. Len(t) /\ ~(n <= n - 1)
    BY <1>3, <2>2, <2>3
  <2>5. f[IF n - 1 <= Len(s) THEN n - 1 ELSE Len(s)] <= g[n - 1]
    <3>1. n - 1 \notin T
      <4> HIDE DEF T
      <4> QED
        BY <2>1, <2>4
    <3> QED
      BY <2>4, <3>1
  <2>6. g[n] = g[n - 1] + t[n] /\ g[n] \in Nat /\ g[n - 1] \in Nat /\ t[n] \in Nat
    BY <1>2, <2>4, SumsStep
  <2>7. CASE n <= Len(s)
    <3>1. f[n] = f[n - 1] + s[n] /\ f[n] \in Nat /\ f[n - 1] \in Nat /\ s[n] \in Nat /\ s[n] <= t[n]
      <4>1. n \in 1 .. Len(s)
        BY <1>3, <2>4, <2>7
      <4> QED
        BY <1>1, <4>1, SumsStep
    <3>2. f[n - 1] <= g[n - 1]
      BY <1>3, <2>4, <2>5, <2>7
    <3> QED
      <4>1. PICK a \in Nat, b \in Nat, c \in Nat, d \in Nat :
                a = f[n - 1] /\ b = s[n] /\ c = g[n - 1] /\ d = t[n]
        BY <2>6, <3>1
      <4>2. a <= c /\ b <= d
        BY <3>1, <3>2, <4>1
      <4>3. a + b <= c + d
        BY <4>2
      <4>4. f[n] <= g[n]
        BY <2>6, <3>1, <4>1, <4>3
      <4> QED
        BY <2>2, <2>7, <4>4
  <2>8. CASE ~(n <= Len(s))
    <3>1. f[Len(s)] <= g[n - 1]
      <4>1. CASE n - 1 <= Len(s)
        <5>1. n - 1 = Len(s)
          BY <1>3, <2>4, <2>8, <4>1
        <5> QED
          BY <2>5, <4>1, <5>1
      <4>2. CASE ~(n - 1 <= Len(s))
        BY <2>5, <4>2
      <4> QED
        BY <4>1, <4>2
    <3> QED
      BY <1>6, <2>2, <2>6, <2>8, <3>1
  <2> QED
    BY <2>7, <2>8
<1> QED
  BY <1>4, <1>5
-----------------------------------------------------------------------------
(* The account of a student *)

\* What a request about an account can have still to run.
BillingTodo == {<<>>, <<"publishPayment">>,
    <<"readAccount", "readAccount">>, <<"readAccount">>, <<"showBalance">>}

PaymentRows == [amount : Nat, status : {"pending_reconciliation", "posted", "paid"}]

BillingTyped ==
    /\ DOMAIN db = {"fees", "payments", "received"}
    /\ db.fees \in Seq(Nat) /\ db.payments \in Seq(PaymentRows)
    /\ db.received \subseteq 1 .. Len(db.payments)

\* What the request in slot w holds lies between the account of its beginning
\* and that of now, and what it has not read yet is still to be read.
BillingRequestOK(steps, locals) ==
    /\ steps = <<"publishPayment">> => locals.payment \in 1 .. Len(db.payments)
    /\ steps \in {<<"readAccount", "readAccount">>, <<"readAccount">>, <<"showBalance">>} =>
          /\ DOMAIN locals = {"fees", "settled", "assessed", "paid"}
          /\ locals.fees \in Nat /\ locals.fees <= total(db.fees)
          /\ locals.settled \in Nat /\ locals.settled <= Settled
          /\ locals.assessed # None =>
                locals.assessed \in Nat /\ locals.fees <= locals.assessed /\ locals.assessed <= total(db.fees)
          /\ locals.paid # None =>
                locals.paid \in Nat /\ locals.settled <= locals.paid /\ locals.paid <= Settled
    /\ steps = <<"readAccount", "readAccount">> => locals.assessed = None /\ locals.paid = None
    /\ steps = <<"readAccount">> => (locals.assessed = None <=> locals.paid # None)
    /\ steps = <<"showBalance">> => locals.assessed # None /\ locals.paid # None

BillingInv ==
    /\ Slots
    /\ \A w \in Workers : todo[w] \in BillingTodo
    /\ BillingTyped
    /\ \A w \in Workers : BillingRequestOK(todo[w], arg[w])

\* The amounts that are settled, one for each payment.
SettledOf(payments) ==
    [i \in 1 .. Len(payments) |-> IF payments[i].status = "pending_reconciliation" THEN 0 ELSE payments[i].amount]

\* What is posted or paid is what does not wait for reconciliation.
LEMMA SettledPayments ==
  ASSUME NEW payments \in Seq(PaymentRows)
  PROVE  /\ SettledOf(payments) \in Seq(Nat) /\ Len(SettledOf(payments)) = Len(payments)
         /\ totalPaid(payments) = total(SettledOf(payments))
<1>1. Len(payments) \in Nat /\ \A i \in 1 .. Len(payments) : payments[i] \in PaymentRows
  OBVIOUS
<1>2. \A i \in 1 .. Len(payments) :
          /\ (IF payments[i].status = "pending_reconciliation" THEN 0 ELSE payments[i].amount) \in Nat
          /\ (IF payments[i].status = "pending_reconciliation" THEN 0 ELSE payments[i].amount) =
                IF payments[i].status \in {"posted", "paid"} THEN payments[i].amount ELSE 0
  BY <1>1 DEF PaymentRows
<1>3. SettledOf(payments) \in [1 .. Len(payments) -> Nat]
  BY <1>2 DEF SettledOf
<1>4. SettledOf(payments) \in Seq(Nat) /\ Len(SettledOf(payments)) = Len(payments)
  BY <1>1, <1>3
<1>5. SettledOf(payments) =
          [i \in 1 .. Len(payments) |-> IF payments[i].status \in {"posted", "paid"} THEN payments[i].amount ELSE 0]
  BY <1>2 DEF SettledOf
<1> HIDE DEF SettledOf
<1> QED
  BY <1>4, <1>5 DEF totalPaid

\* A payment that is settled stays settled, with its amount.
LEMMA SettledGrows ==
  ASSUME NEW payments \in Seq(PaymentRows), NEW later \in Seq(PaymentRows), Len(payments) <= Len(later),
         \A i \in 1 .. Len(payments) : payments[i].status = "pending_reconciliation" \/ later[i] = payments[i]
  PROVE  total(SettledOf(payments)) <= total(SettledOf(later))
<1>1. /\ Len(payments) \in Nat /\ \A i \in 1 .. Len(payments) : payments[i] \in PaymentRows
      /\ Len(later) \in Nat /\ \A i \in 1 .. Len(later) : later[i] \in PaymentRows
  OBVIOUS
<1>2. ASSUME NEW i \in 1 .. Len(payments)
      PROVE  SettledOf(payments)[i] <= SettledOf(later)[i]
  <2>1. i \in 1 .. Len(later)
    BY <1>1
  <2>2. /\ SettledOf(payments)[i] = IF payments[i].status = "pending_reconciliation" THEN 0 ELSE payments[i].amount
        /\ SettledOf(later)[i] = IF later[i].status = "pending_reconciliation" THEN 0 ELSE later[i].amount
    BY <2>1 DEF SettledOf
  <2>3. payments[i].amount \in Nat /\ later[i].amount \in Nat
    BY <1>1, <2>1 DEF PaymentRows
  <2> QED
    BY <2>2, <2>3
<1>3. /\ SettledOf(payments) \in Seq(Nat) /\ Len(SettledOf(payments)) = Len(payments)
      /\ SettledOf(later) \in Seq(Nat) /\ Len(SettledOf(later)) = Len(later)
  BY SettledPayments
<1> QED
  BY <1>2, <1>3, TotalGrows

\* The account grows: fees and payments are added, and payments are settled.
Grows ==
    /\ total(db.fees) <= total(db'.fees)
    /\ total(SettledOf(db.payments)) <= total(SettledOf(db'.payments))
    /\ Len(db.payments) <= Len(db'.payments)

\* The totals of an account are numbers.
LEMMA AccountTotals ==
  ASSUME NEW fees \in Seq(Nat), NEW payments \in Seq(PaymentRows)
  PROVE  total(fees) \in Nat /\ total(SettledOf(payments)) \in Nat
<1>1. ASSUME NEW s \in Seq(Nat)
      PROVE  total(s) \in Nat
  <2>1. Len(s) \in Nat /\ \A i \in 1 .. Len(s) : s[i] \in Nat
    OBVIOUS
  <2>2. Len(s) <= Len(s) /\ \A i \in 1 .. Len(s) : s[i] <= s[i]
    BY <2>1
  <2> QED
    BY <2>2, TotalGrows
<1>2. SettledOf(payments) \in Seq(Nat)
  BY SettledPayments
<1> QED
  BY <1>1, <1>2

\* What a request holds, it can still hold when the account has grown.
LEMMA StillBetween ==
  ASSUME BillingTyped, BillingTyped', Grows, NEW steps, NEW locals, BillingRequestOK(steps, locals)
  PROVE  BillingRequestOK(steps, locals)'
<1>1. /\ Settled = total(SettledOf(db.payments)) /\ total(db.fees) \in Nat /\ Settled \in Nat
      /\ Settled' = total(SettledOf(db'.payments)) /\ total(db'.fees) \in Nat /\ Settled' \in Nat
  <2>1. Settled = total(SettledOf(db.payments)) /\ Settled' = total(SettledOf(db'.payments))
    BY DEF Settled, SettledOf
  <2>2. total(db.fees) \in Nat /\ total(SettledOf(db.payments)) \in Nat
    BY AccountTotals DEF BillingTyped
  <2>3. total(db'.fees) \in Nat /\ total(SettledOf(db'.payments)) \in Nat
    BY AccountTotals DEF BillingTyped
  <2> QED
    BY <2>1, <2>2, <2>3
<1>2. total(db.fees) <= total(db'.fees) /\ Settled <= Settled'
  BY <1>1 DEF Grows
<1>3. 1 .. Len(db.payments) \subseteq 1 .. Len(db'.payments)
  <2>1. Len(db.payments) \in Nat /\ Len(db'.payments) \in Nat
    BY DEF BillingTyped
  <2> QED
    BY <2>1 DEF Grows
<1>4. PICK a \in Nat, b \in Nat, c \in Nat, d \in Nat :
          a = total(db.fees) /\ b = total(db'.fees) /\ c = Settled /\ d = Settled' /\ a <= b /\ c <= d
  BY <1>1, <1>2
<1>5. \A n \in Nat : (n <= a => n <= b) /\ (n <= c => n <= d)
  BY <1>4
<1> QED
  BY <1>3, <1>4, <1>5 DEF BillingRequestOK

\* A step of one request keeps the invariant, when the account only grows and
\* its own local variables do.
LEMMA BillingStep ==
  ASSUME BillingInv, NEW w \in Workers, NEW steps \in BillingTodo, NEW locals, Moves(w, steps, locals),
         BillingTyped', Grows, BillingRequestOK(steps, locals)'
  PROVE  BillingInv'
<1>1. Slots' /\ \A v \in Workers : todo'[v] \in BillingTodo
  BY DEF BillingInv, Moves
<1>2. ASSUME NEW v \in Workers
      PROVE  BillingRequestOK(todo[v], arg[v])'
  <2>1. PICK s, l : s = todo'[v] /\ l = arg'[v]
    OBVIOUS
  <2>2. BillingRequestOK(s, l)'
    <3>1. CASE v = w
      BY <2>1, <3>1 DEF Moves
    <3>2. CASE v # w
      <4>1. s = todo[v] /\ l = arg[v]
        BY <2>1, <3>2 DEF Moves
      <4> QED
        BY <4>1, StillBetween DEF BillingInv
    <3> QED
      BY <3>1, <3>2
  <2> QED
    BY <2>1, <2>2 DEF BillingRequestOK
<1> QED
  BY <1>1, <1>2 DEF BillingInv

\* An account that stays as it is.
LEMMA AccountSame ==
  ASSUME BillingTyped, db' = db
  PROVE  BillingTyped' /\ Grows
<1>1. /\ total(db.fees) \in Nat /\ total(SettledOf(db.payments)) \in Nat /\ Len(db.payments) \in Nat
  BY AccountTotals DEF BillingTyped
<1> QED
  BY <1>1 DEF BillingTyped, Grows

\* A payment that is added waits for reconciliation.
LEMMA PaymentRecorded ==
  ASSUME BillingTyped, NEW amount \in Nat,
         db' = [db EXCEPT !.payments = Append(@, [amount |-> amount, status |-> "pending_reconciliation"])]
  PROVE  BillingTyped' /\ Grows /\ Len(db'.payments) = Len(db.payments) + 1
<1>1. PICK row \in PaymentRows : row = [amount |-> amount, status |-> "pending_reconciliation"]
  BY DEF PaymentRows
<1>2. /\ DOMAIN db' = {"fees", "payments", "received"} /\ db'.fees = db.fees /\ db'.received = db.received
      /\ db'.payments = Append(db.payments, row)
  BY <1>1 DEF BillingTyped
<1>3. /\ db'.payments \in Seq(PaymentRows) /\ Len(db.payments) \in Nat /\ Len(db'.payments) = Len(db.payments) + 1
      /\ \A i \in 1 .. Len(db.payments) : db'.payments[i] = db.payments[i]
  BY <1>2 DEF BillingTyped
<1>4. BillingTyped'
  <2>1. 1 .. Len(db.payments) \subseteq 1 .. Len(db'.payments)
    BY <1>3
  <2> QED
    BY <1>2, <1>3, <2>1 DEF BillingTyped
<1>5. total(SettledOf(db.payments)) <= total(SettledOf(db'.payments))
  <2>1. Len(db.payments) <= Len(db'.payments)
    BY <1>3
  <2> QED
    BY <1>3, <2>1, SettledGrows DEF BillingTyped
<1>6. total(db.fees) <= total(db'.fees)
  <2>1. total(db.fees) \in Nat
    BY AccountTotals DEF BillingTyped
  <2> QED
    BY <1>2, <2>1
<1> QED
  BY <1>3, <1>4, <1>5, <1>6 DEF Grows

\* Fees are assessed and payments are posted by the other system.
LEMMA OtherSystem ==
  ASSUME BillingInv, Assess \/ Post
  PROVE  BillingInv'
<1>1. Slots /\ BillingTyped /\ todo' = todo /\ arg' = arg
  BY DEF BillingInv, Assess, Post
<1>2. BillingTyped' /\ Grows
  <2>1. CASE Assess
    <3>1. PICK amount \in Amounts : db' = [db EXCEPT !.fees = Append(@, amount)]
      BY <2>1 DEF Assess
    <3>2. /\ DOMAIN db' = {"fees", "payments", "received"} /\ db'.payments = db.payments
          /\ db'.received = db.received /\ db'.fees = Append(db.fees, amount) /\ amount \in Nat
      BY <1>1, <3>1, BillingBounds DEF BillingTyped
    <3>3. /\ db'.fees \in Seq(Nat) /\ Len(db.fees) \in Nat /\ Len(db'.fees) = Len(db.fees) + 1
          /\ \A i \in 1 .. Len(db.fees) : db.fees[i] \in Nat /\ db'.fees[i] = db.fees[i]
      BY <1>1, <3>2 DEF BillingTyped
    <3>4. total(db.fees) <= total(db'.fees)
      <4>1. Len(db.fees) <= Len(db'.fees) /\ \A i \in 1 .. Len(db.fees) : db.fees[i] <= db'.fees[i]
        BY <3>3
      <4> QED
        BY <1>1, <3>3, <4>1, TotalGrows DEF BillingTyped
    <3>5. total(SettledOf(db.payments)) \in Nat /\ Len(db.payments) \in Nat
      BY <1>1, AccountTotals DEF BillingTyped
    <3> QED
      BY <1>1, <3>2, <3>3, <3>4, <3>5 DEF BillingTyped, Grows
  <2>2. CASE Post
    <3>1. PICK i \in 1 .. Len(db.payments), status \in {"posted", "paid"} :
              /\ db.payments[i].status = "pending_reconciliation"
              /\ db' = [db EXCEPT !.payments = [db.payments EXCEPT ![i] = [db.payments[i] EXCEPT !.status = status]]]
      BY <2>2 DEF Post
    <3>2. PICK row : row = [db.payments[i] EXCEPT !.status = status]
      OBVIOUS
    <3>3. /\ DOMAIN db' = {"fees", "payments", "received"} /\ db'.fees = db.fees /\ db'.received = db.received
          /\ db'.payments = [db.payments EXCEPT ![i] = row]
      BY <1>1, <3>1, <3>2 DEF BillingTyped
    <3>4. Len(db.payments) \in Nat /\ \A j \in 1 .. Len(db.payments) : db.payments[j] \in PaymentRows
      BY <1>1 DEF BillingTyped
    <3>5. row \in PaymentRows /\ row.status \in {"posted", "paid"} /\ row.amount \in Nat
      BY <3>2, <3>4 DEF PaymentRows
    <3>6. /\ db'.payments \in Seq(PaymentRows) /\ Len(db'.payments) = Len(db.payments)
          /\ \A j \in 1 .. Len(db.payments) : db'.payments[j] = IF j = i THEN row ELSE db.payments[j]
      BY <1>1, <3>3, <3>5 DEF BillingTyped
    <3>7. total(SettledOf(db.payments)) <= total(SettledOf(db'.payments))
      <4>1. \A j \in 1 .. Len(db.payments) :
                db.payments[j].status = "pending_reconciliation" \/ db'.payments[j] = db.payments[j]
        BY <3>1, <3>6
      <4>2. Len(db.payments) <= Len(db'.payments)
        BY <3>4, <3>6
      <4> QED
        BY <1>1, <3>6, <4>1, <4>2, SettledGrows DEF BillingTyped
    <3>8. total(db.fees) \in Nat
      BY <1>1, AccountTotals DEF BillingTyped
    <3> QED
      BY <1>1, <3>3, <3>4, <3>6, <3>7, <3>8 DEF BillingTyped, Grows
  <2> QED
    BY <2>1, <2>2
<1>3. ASSUME NEW v \in Workers
      PROVE  BillingRequestOK(todo[v], arg[v])'
  <2>1. PICK s, l : s = todo[v] /\ l = arg[v]
    OBVIOUS
  <2>2. BillingRequestOK(s, l)'
    BY <1>1, <1>2, <2>1, StillBetween DEF BillingInv
  <2> QED
    BY <1>1, <2>1, <2>2 DEF BillingRequestOK
<1> QED
  BY <1>1, <1>2, <1>3 DEF BillingInv, Slots

\* What follows each step of a request about an account.
LEMMA BillingRoute ==
         /\ Tail(<<"publishPayment">>) = <<>> /\ Tail(<<"showBalance">>) = <<>>
         /\ Tail(<<"readAccount", "readAccount">>) \o <<>> = <<"readAccount">>
         /\ Tail(<<"readAccount">>) \o <<"showBalance">> = <<"showBalance">>
         /\ Head(<<"publishPayment">>) = "publishPayment" /\ Head(<<"showBalance">>) = "showBalance"
         /\ Head(<<"readAccount", "readAccount">>) = "readAccount" /\ Head(<<"readAccount">>) = "readAccount"
         /\ <<"readAccount">> # <<"readAccount", "readAccount">> /\ <<"readAccount">> # <<>>
         /\ <<"showBalance">> # <<>> /\ <<"publishPayment">> # <<>> /\ <<"readAccount", "readAccount">> # <<>>
OBVIOUS

\* What of an account is read when.
LEMMA AccountReads ==
  ASSUME BillingInv, NEW w \in Workers, ReadFees(w) \/ ReadPayments(w)
  PROVE  BillingInv'
<1>1. /\ Slots /\ BillingTyped /\ todo[w] \in BillingTodo /\ BillingRequestOK(todo[w], arg[w]) /\ db' = db
      /\ todo[w] # <<>> /\ Head(todo[w]) = "readAccount"
  BY DEF BillingInv, ReadFees, ReadPayments, At
<1>2. todo[w] \in {<<"readAccount", "readAccount">>, <<"readAccount">>}
  BY <1>1, BillingRoute DEF BillingTodo
<1>3. BillingTyped' /\ Grows
  BY <1>1, AccountSame
<1>4. /\ total(db.fees) \in Nat /\ Settled \in Nat /\ totalPaid(db.payments) = Settled
  <2>1. total(db.fees) \in Nat /\ total(SettledOf(db.payments)) \in Nat
        /\ totalPaid(db.payments) = total(SettledOf(db.payments))
    BY <1>1, AccountTotals, SettledPayments DEF BillingTyped
  <2> QED
    BY <2>1 DEF Settled, SettledOf
<1>5. /\ DOMAIN arg[w] = {"fees", "settled", "assessed", "paid"}
      /\ arg[w].fees \in Nat /\ arg[w].fees <= total(db.fees)
      /\ arg[w].settled \in Nat /\ arg[w].settled <= Settled
      /\ arg[w].assessed # None =>
            arg[w].assessed \in Nat /\ arg[w].fees <= arg[w].assessed /\ arg[w].assessed <= total(db.fees)
      /\ arg[w].paid # None =>
            arg[w].paid \in Nat /\ arg[w].settled <= arg[w].paid /\ arg[w].paid <= Settled
      /\ todo[w] = <<"readAccount">> => (arg[w].assessed = None <=> arg[w].paid # None)
  BY <1>1, <1>2 DEF BillingRequestOK
<1> DEFINE after == IF todo[w] = <<"readAccount">> THEN <<"showBalance">> ELSE <<"readAccount">>
<1>6. \E locals : /\ Moves(w, after, locals)
                  /\ DOMAIN locals = {"fees", "settled", "assessed", "paid"}
                  /\ locals.fees = arg[w].fees /\ locals.settled = arg[w].settled
                  /\ \/ /\ arg[w].assessed = None /\ locals.assessed = total(db.fees) /\ locals.paid = arg[w].paid
                     \/ /\ arg[w].paid = None /\ locals.paid = totalPaid(db.payments) /\ locals.assessed = arg[w].assessed
  <2>1. CASE ReadFees(w)
    <3>1. PICK locals : locals = [arg[w] EXCEPT !.assessed = total(db.fees)]
      OBVIOUS
    <3>2. /\ DOMAIN locals = {"fees", "settled", "assessed", "paid"} /\ locals.assessed = total(db.fees)
          /\ locals.fees = arg[w].fees /\ locals.settled = arg[w].settled /\ locals.paid = arg[w].paid
      BY <1>5, <3>1
    <3>3. arg[w].assessed = None /\ GoOn(w, Tail(todo[w]) \o (IF arg[w].paid = None THEN <<>> ELSE <<"showBalance">>), locals)
      BY <2>1, <3>1 DEF ReadFees
    <3>4. todo[w] = <<"readAccount">> <=> arg[w].paid # None
      BY <1>1, <1>2, <3>3, BillingRoute DEF BillingRequestOK
    <3>5. GoOn(w, after, locals)
      BY <1>2, <3>3, <3>4, BillingRoute
    <3>6. after # <<>>
      BY BillingRoute
    <3> HIDE DEF after
    <3>7. Moves(w, after, locals)
      BY <1>1, <3>5, <3>6, GoOnMoves
    <3> QED
      BY <3>2, <3>3, <3>7
  <2>2. CASE ReadPayments(w)
    <3>1. PICK locals : locals = [arg[w] EXCEPT !.paid = totalPaid(db.payments)]
      OBVIOUS
    <3>2. /\ DOMAIN locals = {"fees", "settled", "assessed", "paid"} /\ locals.paid = totalPaid(db.payments)
          /\ locals.fees = arg[w].fees /\ locals.settled = arg[w].settled /\ locals.assessed = arg[w].assessed
      BY <1>5, <3>1
    <3>3. arg[w].paid = None /\ GoOn(w, Tail(todo[w]) \o (IF arg[w].assessed = None THEN <<>> ELSE <<"showBalance">>), locals)
      BY <2>2, <3>1 DEF ReadPayments
    <3>4. todo[w] = <<"readAccount">> <=> arg[w].assessed # None
      BY <1>1, <1>2, <3>3, BillingRoute DEF BillingRequestOK
    <3>5. GoOn(w, after, locals)
      BY <1>2, <3>3, <3>4, BillingRoute
    <3>6. after # <<>>
      BY BillingRoute
    <3> HIDE DEF after
    <3>7. Moves(w, after, locals)
      BY <1>1, <3>5, <3>6, GoOnMoves
    <3> QED
      BY <3>2, <3>3, <3>7
  <2> QED
    BY <2>1, <2>2
<1>7. PICK locals : /\ Moves(w, after, locals)
                    /\ DOMAIN locals = {"fees", "settled", "assessed", "paid"}
                    /\ locals.fees = arg[w].fees /\ locals.settled = arg[w].settled
                    /\ \/ /\ arg[w].assessed = None /\ locals.assessed = total(db.fees) /\ locals.paid = arg[w].paid
                       \/ /\ arg[w].paid = None /\ locals.paid = totalPaid(db.payments) /\ locals.assessed = arg[w].assessed
  BY <1>6
<1>8. /\ locals.assessed # None =>
            locals.assessed \in Nat /\ locals.fees <= locals.assessed /\ locals.assessed <= total(db.fees)
      /\ locals.paid # None =>
            locals.paid \in Nat /\ locals.settled <= locals.paid /\ locals.paid <= Settled
  BY <1>4, <1>5, <1>7
<1>9. /\ after = <<"readAccount">> => (locals.assessed = None <=> locals.paid # None)
      /\ after = <<"showBalance">> => locals.assessed # None /\ locals.paid # None
      /\ after # <<"readAccount", "readAccount">> /\ after # <<"publishPayment">>
      /\ after \in BillingTodo
  <2>1. <<"showBalance">> # <<"readAccount">> /\ <<"showBalance">> # <<"readAccount", "readAccount">>
        /\ after \in {<<"showBalance">>, <<"readAccount">>}
        /\ <<"publishPayment">> \notin {<<"showBalance">>, <<"readAccount">>}
    BY BillingRoute
  <2>2. total(db.fees) # None /\ totalPaid(db.payments) # None
    BY <1>4, NoneIsNoNumber
  <2>3. after \in BillingTodo
    BY <2>1 DEF BillingTodo
  <2>4. CASE todo[w] = <<"readAccount">>
    BY <1>5, <1>7, <2>1, <2>2, <2>3, <2>4, BillingRoute
  <2>5. CASE todo[w] = <<"readAccount", "readAccount">>
    <3>1. arg[w].assessed = None /\ arg[w].paid = None
      BY <1>1, <2>5 DEF BillingRequestOK
    <3> QED
      BY <1>7, <2>1, <2>2, <2>3, <2>5, <3>1, BillingRoute
  <2> QED
    BY <1>2, <2>4, <2>5
<1> HIDE DEF after
<1>10. PICK steps \in BillingTodo : steps = after /\ Moves(w, steps, locals) /\ BillingRequestOK(steps, locals)
  BY <1>5, <1>7, <1>8, <1>9 DEF BillingRequestOK
<1>11. BillingRequestOK(steps, locals)'
  BY <1>1, <1>3, <1>10, StillBetween
<1> QED
  BY <1>3, <1>10, <1>11, BillingStep

\* The other steps of a request about an account.
LEMMA AccountRequests ==
  ASSUME BillingInv, NEW w \in Workers,
         recordManualPayment(w) \/ PublishPayment(w) \/ getStudentBalance(w) \/ ShowBalance(w) \/ Fail(w)
  PROVE  BillingInv'
<1>1. Slots /\ BillingTyped /\ todo[w] \in BillingTodo /\ BillingRequestOK(todo[w], arg[w])
  BY DEF BillingInv
<1>2. CASE recordManualPayment(w)
  <2>1. PICK amount \in Amounts :
            /\ Take("billing", w, <<"publishPayment">>, [payment |-> Len(db.payments) + 1])
            /\ db' = [db EXCEPT !.payments = Append(@, [amount |-> amount, status |-> "pending_reconciliation"])]
    BY <1>2 DEF recordManualPayment
  <2>2. BillingTyped' /\ Grows /\ Len(db'.payments) = Len(db.payments) + 1
    BY <1>1, <2>1, PaymentRecorded, BillingBounds
  <2>3. PICK locals : locals = [payment |-> Len(db.payments) + 1]
    OBVIOUS
  <2>4. Moves(w, <<"publishPayment">>, locals)
    BY <1>1, <2>1, <2>3, TakeMoves
  <2>5. Len(db.payments) + 1 \in 1 .. Len(db'.payments)
    BY <1>1, <2>2 DEF BillingTyped
  <2>6. locals.payment \in 1 .. Len(db'.payments)
    BY <2>3, <2>5
  <2>7. PICK steps \in BillingTodo : steps = <<"publishPayment">>
    BY DEF BillingTodo
  <2>8. steps \notin {<<"readAccount", "readAccount">>, <<"readAccount">>, <<"showBalance">>}
    BY <2>7, BillingRoute
  <2>9. BillingRequestOK(steps, locals)'
    BY <2>6, <2>8 DEF BillingRequestOK
  <2> QED
    BY <2>2, <2>4, <2>7, <2>9, BillingStep
<1>3. CASE getStudentBalance(w)
  <2>1. PICK locals : locals = [fees |-> total(db.fees), settled |-> Settled, assessed |-> None, paid |-> None]
    OBVIOUS
  <2>2. PICK steps \in BillingTodo : steps = <<"readAccount", "readAccount">>
    BY DEF BillingTodo
  <2>3. Moves(w, steps, locals) /\ db' = db
    BY <1>1, <1>3, <2>1, <2>2, TakeMoves DEF getStudentBalance
  <2>4. BillingTyped' /\ Grows
    BY <1>1, <2>3, AccountSame
  <2>5. total(db.fees) \in Nat /\ Settled \in Nat
    BY <1>1, AccountTotals DEF BillingTyped, Settled, SettledOf
  <2>6. /\ DOMAIN locals = {"fees", "settled", "assessed", "paid"} /\ locals.fees = total(db.fees)
        /\ locals.settled = Settled /\ locals.assessed = None /\ locals.paid = None
    BY <2>1
  <2>7. steps # <<"publishPayment">> /\ steps # <<"readAccount">> /\ steps # <<"showBalance">>
    BY <2>2, BillingRoute
  <2>8. BillingRequestOK(steps, locals)
    BY <2>5, <2>6, <2>7 DEF BillingRequestOK
  <2>9. BillingRequestOK(steps, locals)'
    BY <1>1, <2>4, <2>8, StillBetween
  <2> QED
    BY <2>3, <2>4, <2>9, BillingStep
<1>4. CASE PublishPayment(w) \/ ShowBalance(w) \/ Fail(w)
  <2>1. todo[w] # <<>> /\ (~Fail(w) => Proceed(w) /\ Head(todo[w]) \in {"publishPayment", "showBalance"})
    BY <1>4 DEF PublishPayment, ShowBalance, Fail, At, Idle
  <2>2. Moves(w, <<>>, None)
    <3>1. CASE Fail(w)
      BY <1>1, <3>1, FailMoves
    <3>2. CASE ~Fail(w)
      <4>1. todo[w] \in {<<"publishPayment">>, <<"showBalance">>}
        BY <1>1, <2>1, <3>2, BillingRoute DEF BillingTodo
      <4>2. Tail(todo[w]) = <<>>
        BY <4>1, BillingRoute
      <4> QED
        BY <1>1, <2>1, <3>2, <4>2, ProceedMoves
    <3> QED
      BY <3>1, <3>2
  <2>3. BillingTyped' /\ Grows
    <3>1. CASE db' = db
      BY <1>1, <3>1, AccountSame
    <3>2. CASE PublishPayment(w) /\ db' # db
      <4>1. todo[w] = <<"publishPayment">>
        BY <1>1, <3>2, BillingRoute DEF BillingTodo, PublishPayment, At
      <4>2. PICK p \in 1 .. Len(db.payments) : p = arg[w].payment
        BY <1>1, <4>1 DEF BillingRequestOK
      <4>3. db' = [db EXCEPT !.received = @ \cup {p}]
        BY <3>2, <4>2 DEF PublishPayment
      <4>4. /\ DOMAIN db' = {"fees", "payments", "received"} /\ db'.fees = db.fees /\ db'.payments = db.payments
            /\ db'.received = db.received \cup {p}
        BY <1>1, <4>3 DEF BillingTyped
      <4>5. total(db.fees) \in Nat /\ total(SettledOf(db.payments)) \in Nat /\ Len(db.payments) \in Nat
        BY <1>1, AccountTotals DEF BillingTyped
      <4> QED
        BY <1>1, <4>4, <4>5 DEF BillingTyped, Grows
    <3>3. db' = db \/ PublishPayment(w)
      BY <1>4 DEF ShowBalance, Fail
    <3> QED
      BY <3>1, <3>2, <3>3
  <2>4. BillingRequestOK(<<>>, None)' /\ <<>> \in BillingTodo
    <3>1. <<>> \notin {<<"readAccount", "readAccount">>, <<"readAccount">>, <<"showBalance">>, <<"publishPayment">>}
      BY BillingRoute
    <3> QED
      BY <3>1 DEF BillingRequestOK, BillingTodo
  <2> QED
    BY <2>2, <2>3, <2>4, BillingStep
<1> QED
  BY <1>2, <1>3, <1>4

\* A behaviour of billing has only its own steps.
LEMMA BillingAlone ==
  ASSUME service = "billing", Next
  PROVE  BillingNext
BY DEF Next

\* Every step of any service keeps the invariant of accounts.
LEMMA BillingKeep ==
  ASSUME service = "billing" => BillingInv, [Next]_vars
  PROVE  (service = "billing" => BillingInv)'
<1>1. service' = service
  BY ServiceKept DEF Kept
<1> SUFFICES ASSUME service = "billing", BillingInv
             PROVE  BillingInv'
  BY <1>1
<1>2. CASE UNCHANGED vars
  <2>1. db' = db /\ todo' = todo /\ arg' = arg
    BY <1>2 DEF vars
  <2>2. ASSUME NEW v \in Workers
        PROVE  BillingRequestOK(todo[v], arg[v])'
    <3>1. PICK s, l : s = todo[v] /\ l = arg[v]
      OBVIOUS
    <3>2. BillingRequestOK(s, l)'
      BY <2>1, <3>1, AccountSame, StillBetween DEF BillingInv
    <3> QED
      BY <2>1, <3>1, <3>2 DEF BillingRequestOK
  <2> QED
    BY <2>1, <2>2, AccountSame DEF BillingInv, Slots
<1>3. CASE Next
  BY <1>3, BillingAlone, OtherSystem, AccountReads, AccountRequests DEF BillingNext
<1> QED
  BY <1>2, <1>3

\* The invariant of accounts holds at the beginning.
LEMMA BillingStart == Init => (service = "billing" => BillingInv)
<1> SUFFICES ASSUME Init, service = "billing"
             PROVE  BillingInv
  OBVIOUS
<1>1. BillingInit
  BY DEF Init, NotificationsInit, AlumniInit, GraduationsInit, ResourcesInit, RegistrarInit, ProfessorsInit,
     ApplicationsInit, TenantsInit, Start
<1>2. todo = [w \in Workers |-> <<>>] /\ arg = [w \in Workers |-> None] /\ db = BillingTables
  BY <1>1 DEF BillingInit, Start
<1>3. BillingTyped
  BY <1>2 DEF BillingTyped, BillingTables
<1>4. <<>> \notin {<<"readAccount", "readAccount">>, <<"readAccount">>, <<"showBalance">>, <<"publishPayment">>}
  BY BillingRoute
<1> QED
  BY <1>2, <1>3, <1>4 DEF BillingInv, BillingRequestOK, BillingTodo, Slots

\* The inductive invariant of accounts.
THEOREM BillingInvariant == Spec => [](service = "billing" => BillingInv)
<1>1. Init => (service = "billing" => BillingInv)
  BY BillingStart
<1>2. (service = "billing" => BillingInv) /\ [Next]_vars => (service = "billing" => BillingInv)'
  BY BillingKeep
<1> QED
  BY <1>1, <1>2, PTL DEF Spec

\* The balance that is shown lies between the one with the fees of the
\* beginning and the payments of now, and the one the other way round; who is
\* shown as paid has by now settled the fees of the beginning.
THEOREM BalancesAreBetween == Spec => []BalanceBetween
<1>1. (service = "billing" => BillingInv) => BalanceBetween
  <2> SUFFICES ASSUME service = "billing", BillingInv, NEW w \in Workers, At(w, "showBalance")
               PROVE  /\ balanceDue(arg[w].fees, Settled) <= balanceDue(arg[w].assessed, arg[w].paid)
                      /\ balanceDue(arg[w].assessed, arg[w].paid) <= balanceDue(total(db.fees), arg[w].settled)
                      /\ getPaymentStatus(arg[w].assessed, arg[w].paid) = "paid" => Settled >= arg[w].fees
    BY DEF BalanceBetween
  <2>1. todo[w] = <<"showBalance">>
    BY BillingRoute DEF BillingInv, BillingTodo, At
  <2>2. PICK f \in Nat, a \in Nat, b \in Nat, s \in Nat, p \in Nat, q \in Nat :
            /\ f = arg[w].fees /\ a = arg[w].assessed /\ b = total(db.fees) /\ f <= a /\ a <= b
            /\ s = arg[w].settled /\ p = arg[w].paid /\ q = Settled /\ s <= p /\ p <= q
    <3>1. BillingRequestOK(todo[w], arg[w])
      BY DEF BillingInv
    <3>2. total(db.fees) \in Nat /\ Settled \in Nat
      BY AccountTotals DEF BillingInv, BillingTyped, Settled, SettledOf
    <3> QED
      BY <2>1, <3>1, <3>2 DEF BillingRequestOK
  <2>3. balanceDue(f, q) <= balanceDue(a, p) /\ balanceDue(a, p) <= balanceDue(b, s)
    BY <2>2 DEF balanceDue
  <2>4. getPaymentStatus(a, p) = "paid" => q >= f
    BY <2>2 DEF getPaymentStatus
  <2> QED
    BY <2>2, <2>3, <2>4
<1> QED
  BY <1>1, BillingInvariant, PTL

-----------------------------------------------------------------------------
(* What the tables hold *)

\* A request that has answered has no local variables.
Tidy == Slots /\ \A w \in Workers : Idle(w) => arg[w] = None

\* A request that arrives has something to run;
LEMMA TidyTake ==
  ASSUME Tidy, NEW w \in Workers, NEW s, NEW steps, NEW locals, Take(s, w, steps, locals), steps # <<>>
  PROVE  Tidy'
BY DEF Tidy, Take, Slots, Idle

\* one that goes on and has nothing left to run has answered;
LEMMA TidyGoOn ==
  ASSUME Tidy, NEW w \in Workers, NEW steps, NEW locals, GoOn(w, steps, locals)
  PROVE  Tidy'
BY DEF Tidy, GoOn, Slots, Idle

\* and so it is
LEMMA TidyProceed ==
  ASSUME Tidy, NEW w \in Workers, Proceed(w) \/ Answer(w) \/ Fail(w)
  PROVE  Tidy'
BY TidyGoOn DEF Proceed, Answer, Fail

\* with other local variables,
LEMMA TidyProceedWith ==
  ASSUME Tidy, NEW w \in Workers, NEW locals, ProceedWith(w, locals)
  PROVE  Tidy'
BY TidyGoOn DEF ProceedWith

\* and when no request moves.
LEMMA TidyRest ==
  ASSUME Tidy, todo' = todo, arg' = arg
  PROVE  Tidy'
BY DEF Tidy, Slots, Idle

\* In one statement no request moves.
LEMMA TidyServe ==
  ASSUME Tidy, NEW s, NEW w, Serve(s, w)
  PROVE  Tidy'
BY TidyRest DEF Serve

\* Statements that follow another one.
LEMMA NotEmpty ==
  ASSUME NEW S, NEW e \in S, NEW s \in Seq(S)
  PROVE  <<e>> \o s # <<>>
<1>1. <<e>> \in Seq(S) /\ Len(<<e>>) = 1 /\ Len(<<>>) = 0
  OBVIOUS
<1>2. Len(<<e>> \o s) = 1 + Len(s) /\ Len(s) \in Nat
  BY <1>1, ConcatProperties, LenProperties
<1> QED
  BY <1>1, <1>2

\* Notifications,
LEMMA NotificationsTidy ==
  ASSUME Tidy, NEW w \in Workers, NotificationsNext!(w)
  PROVE  Tidy'
<1>1. CASE CreateNotice(w) \/ MarkRead(w) \/ MarkAllRead(w)
  <2>1. <<"noticeRow", "createdAudit">> # <<>> /\ <<"markRead", "readAudit">> # <<>> /\ <<"readAllAudit">> # <<>>
    OBVIOUS
  <2> QED
    BY <1>1, <2>1, TidyTake DEF CreateNotice, MarkRead, MarkAllRead
<1>2. CASE InsertCreatedNotice(w) \/ AuditCreatedNotice(w) \/ UpdateRead(w) \/ AuditRead(w) \/ AuditReadAll(w)
           \/ AuditSkippedNotice(w) \/ (service = "notifications" /\ Fail(w))
  BY <1>2, TidyProceed, TidyProceedWith DEF InsertCreatedNotice, AuditCreatedNotice, UpdateRead, AuditRead, AuditReadAll,
     AuditSkippedNotice
<1>3. CASE TryInsertNotice(w) \/ TryAuditNotice(w)
  BY <1>3, TidyProceed, TidyGoOn DEF TryInsertNotice, TryAuditNotice
<1> QED
  BY <1>1, <1>2, <1>3

\* alumni
LEMMA AlumniTidy ==
  ASSUME Tidy, NEW w \in Workers, AlumniNext!(w)
  PROVE  Tidy'
<1>1. /\ route("registered") # <<>> /\ route("recordRequested") # <<>> /\ route("recordUpdated") # <<>>
      /\ route("cardRequested") # <<>> /\ route("cardUpdated") # <<>>
  <2>1. route("registered") # <<>>
    BY DEF route, postgresRoute, supabaseRoute
  <2>2. route("recordRequested") # <<>>
    BY DEF route, postgresRoute, supabaseRoute
  <2>3. route("recordUpdated") # <<>>
    BY DEF route, postgresRoute, supabaseRoute
  <2>4. route("cardRequested") # <<>>
    BY DEF route, postgresRoute, supabaseRoute
  <2>5. route("cardUpdated") # <<>>
    BY DEF route, postgresRoute, supabaseRoute
  <2> QED
    BY <2>1, <2>2, <2>3, <2>4, <2>5
<1>2. CASE registerAlumni(w) \/ requestRecord(w) \/ applyForCard(w) \/ updateRecordStatus(w)
           \/ updateCardApplicationStatus(w)
  BY <1>1, <1>2, TidyTake DEF registerAlumni, requestRecord, applyForCard, updateRecordStatus,
     updateCardApplicationStatus, AlumniRequest
<1>3. CASE InsertLog(w) \/ InsertRecord(w) \/ InsertCard(w) \/ UpdateRecord(w) \/ UpdateCard(w)
  BY <1>3, TidyProceedWith DEF InsertLog, InsertRecord, InsertCard, InsertRow, UpdateRecord, UpdateCard
<1>4. CASE UpsertAccount(w) \/ RecordEvent(w) \/ PublishAlumniEvent(w) \/ RecordAlumniAudit(w)
           \/ (service = "alumni" /\ Fail(w))
  BY <1>4, TidyProceed DEF UpsertAccount, RecordEvent, PublishAlumniEvent, RecordAlumniAudit
<1> QED
  BY <1>2, <1>3, <1>4

\* and graduations,
LEMMA GraduationsTidy ==
  ASSUME Tidy, GraduationsNext
  PROVE  Tidy'
<1>1. CASE Graduate \/ Subscribe \/ AutoCommit
  BY <1>1, TidyRest DEF Graduate, Subscribe, AutoCommit
<1>2. CASE RestartConsumer
  BY <1>2 DEF RestartConsumer, Tidy, Slots, Idle
<1>3. ASSUME NEW w \in Workers,
             EachMessage(w) \/ SwallowError(w) \/ Handled(w)
               \/ (service = "graduations" /\ ~Consuming(w) /\ Fail(w))
      PROVE  Tidy'
  <2>1. CASE EachMessage(w)
    <3>1. messageRoute(db.position + 1) # <<>>
      BY DEF messageRoute, route, postgresRoute, supabaseRoute
    <3> QED
      BY <2>1, <3>1, TidyTake DEF EachMessage
  <2>2. CASE SwallowError(w) \/ Handled(w) \/ (service = "graduations" /\ ~Consuming(w) /\ Fail(w))
    BY <2>2, TidyGoOn, TidyProceed DEF SwallowError, Handled
  <2> QED
    BY <1>3, <2>1, <2>2
<1> QED
  BY <1>1, <1>2, <1>3 DEF GraduationsNext

\* records,
LEMMA ResourcesTidy ==
  ASSUME Tidy, NEW w \in Workers, ResourcesNext!(w)
  PROVE  Tidy'
<1>1. CASE CreateResource(w)
  <2>1. PICK r, payload, mail : /\ mail \in {<<>>, <<"deliver">>}
            /\ SchoolAdminRequest(w, <<"insertResource">> \o mail \o <<"auditResource">>, r, payload)
    BY <1>1 DEF CreateResource
  <2>2. <<"insertResource">> \o mail \o <<"auditResource">> # <<>>
    <3> DEFINE S == {"insertResource", "deliver", "auditResource"}
               a == <<"auditResource">>
               i == <<"insertResource">>
    <3>1. mail \in Seq(S)
      <4>1. <<>> \in Seq(S) /\ <<"deliver">> \in Seq(S)
        OBVIOUS
      <4> QED
        BY <2>1, <4>1
    <3>2. i \in Seq(S) /\ a \in Seq(S) /\ Len(a) = 1
      OBVIOUS
    <3> HIDE DEF S, a, i
    <3>3. i \o mail \in Seq(S)
      BY <3>1, <3>2, ConcatProperties
    <3>4. Len(i \o mail \o a) = Len(i \o mail) + 1 /\ Len(i \o mail) \in Nat
      <4>1. PICK x \in Seq(S) : x = i \o mail
        BY <3>3
      <4>2. Len(x \o a) = Len(x) + Len(a)
        BY <3>2, ConcatProperties
      <4>3. Len(x) \in Nat
        BY LenProperties
      <4> QED
        BY <3>2, <4>1, <4>2, <4>3
    <3>5. Len(<<>>) = 0
      OBVIOUS
    <3> QED
      BY <3>4, <3>5 DEF a, i
  <2> QED
    BY <2>1, <2>2, TidyTake DEF SchoolAdminRequest
<1>2. CASE \/ UpdateResource(w) \/ DeleteResource(w) \/ QueueDelivery(w) \/ ImportResources(w)
           \/ UpdateProfile(w) \/ InstitutionUpdate(w) \/ markAllNotificationsRead(w)
  <2>1. /\ <<"readResource", "upsertResource", "auditResource">> # <<>>
        /\ <<"findResource", "deleteResource", "auditResource">> # <<>>
        /\ <<"findResource", "deliverMail", "mailAudit">> # <<>>
        /\ <<"insertResource", "auditResource", "insertNextResource", "auditResource", "importAudit">> # <<>>
        /\ <<"mergeProfile", "auditResource">> # <<>> /\ <<"readResource", "updateResource">> # <<>>
        /\ <<"readAll">> # <<>>
    OBVIOUS
  <2> QED
    BY <1>2, <2>1, TidyTake DEF UpdateResource, DeleteResource, QueueDelivery, ImportResources, UpdateProfile,
       InstitutionUpdate, markAllNotificationsRead, SchoolAdminRequest
<1>3. CASE InsertResource(w) \/ FindResource(w) \/ MergeProfile(w) \/ Deliver(w) \/ AuditResource(w) \/ AuditOther(w)
           \/ FailResources(w)
  BY <1>3, TidyProceed DEF InsertResource, FindResource, MergeProfile, Deliver, AuditResource, AuditOther,
     FailResources
<1>4. CASE InsertNextResource(w) \/ UpsertResource(w) \/ EraseResource(w) \/ OverwriteResource(w)
  BY <1>4, TidyProceedWith DEF InsertNextResource, UpsertResource, EraseResource, OverwriteResource, Written
<1>5. CASE ReadResource(w) \/ ReadUnread(w) \/ MarkOne(w)
  <2>1. ReadResource(w) \/ ReadUnread(w) => \E steps, locals : GoOn(w, steps, locals)
    BY Zenon DEF ReadResource, ReadUnread, Reads
  <2>2. MarkOne(w) => \E steps, locals : GoOn(w, steps, locals)
    BY MarkedOne
  <2> QED
    BY <1>5, <2>1, <2>2, TidyGoOn
<1>6. CASE InstitutionCreate(w) \/ InstitutionRemove(w)
  BY <1>6, TidyServe DEF InstitutionCreate, InstitutionRemove
<1> QED
  BY <1>1, <1>2, <1>3, <1>4, <1>5, <1>6

\* the registrar,
LEMMA RegistrarTidy ==
  ASSUME Tidy, NEW w \in Workers, RegistrarNext!(w)
  PROVE  Tidy'
<1>1. CASE SubmitSelection(w) \/ FilePetition(w) \/ approveByRegistrar(w) \/ confirm(w)
  <2>1. <<"loadHeld", "loadCounts", "insertSeats", "publishSeats">> # <<>> /\ <<"seatAudit">> # <<>>
    OBVIOUS
  <2> QED
    BY <1>1, <2>1, TidyTake DEF SubmitSelection, FilePetition, approveByRegistrar, confirm
<1>2. CASE ~(SubmitSelection(w) \/ FilePetition(w) \/ approveByRegistrar(w) \/ confirm(w))
  BY <1>2, TidyProceed, TidyProceedWith, TidyGoOn, TidyRest DEF LoadHeld, LoadCounts, Passes, InsertSeats,
     PublishSeats, writeAuditEvent
<1> QED
  BY <1>1, <1>2

\* the professors,
LEMMA ProfessorsTidy ==
  ASSUME Tidy, NEW w \in Workers, ProfessorsNext!(w)
  PROVE  Tidy'
<1>1. CASE saveProfessorGrade(w) \/ submitProfessorGrade(w)
  <2> DEFINE S == {"assertEnrollment", "saveGrade", "upsertGrade", "gradeAudit", "gradeEvent", "lockGrade", "notice"}
  <2>1. "assertEnrollment" \in S /\ <<"saveGrade">> \in Seq(S)
    OBVIOUS
  <2>2. \A b \in BOOLEAN : (IF b THEN <<"upsertGrade", "gradeAudit", "gradeEvent">>
                             ELSE <<"lockGrade", "notice", "gradeEvent">>) \in Seq(S)
    <3>1. <<"upsertGrade", "gradeAudit", "gradeEvent">> \in Seq(S) /\ <<"lockGrade", "notice", "gradeEvent">> \in Seq(S)
      OBVIOUS
    <3> QED
      BY <3>1
  <2>3. \A s \in Seq(S) : <<"assertEnrollment">> \o s # <<>>
    BY <2>1, NotEmpty
  <2> HIDE DEF S
  <2>4. <<"assertEnrollment">> \o <<"saveGrade">> # <<>>
    BY <2>1, <2>3
  <2>5. <<"assertEnrollment">> \o (IF usePostgres("academics") THEN <<"upsertGrade", "gradeAudit", "gradeEvent">>
                                   ELSE <<"lockGrade", "notice", "gradeEvent">>) # <<>>
    BY <2>2, <2>3 DEF usePostgres
  <2> QED
    BY <1>1, <2>4, <2>5, TidyTake DEF saveProfessorGrade, submitProfessorGrade, GradeRequest
<1>2. CASE createAnnouncement(w) \/ changeAnnouncement(w)
  <2>1. <<"assertClass", "insertPost", "notice">> # <<>> /\ \A step : <<"assertPost", step>> # <<>>
    OBVIOUS
  <2> QED
    BY <1>2, <2>1, TidyTake DEF createAnnouncement, changeAnnouncement
<1>3. CASE InsertPost(w)
  BY <1>3, TidyProceedWith DEF InsertPost
<1>4. CASE \/ AssertEnrollment(w) \/ SaveGrade(w) \/ LockGrade(w) \/ UpsertGrade(w) \/ AuditGrade(w)
           \/ PublishGrade(w) \/ FailGrade(w) \/ AssertClass(w) \/ AssertPost(w) \/ UpdatePost(w) \/ DeletePost(w)
           \/ (service = "announcements" /\ Fail(w))
  BY <1>4, TidyProceed DEF AssertEnrollment, SaveGrade, LockGrade, UpsertGrade, AuditGrade, PublishGrade,
     FailGrade, AssertClass, AssertPost, UpdatePost, DeletePost
<1> QED
  BY <1>1, <1>2, <1>3, <1>4

\* the applications,
LEMMA ApplicationsTidy ==
  ASSUME Tidy, NEW w \in Workers, ApplicationsNext!(w)
  PROVE  Tidy'
<1>1. CASE SaveBackground(w)
  <2>1. \A s \in {<<>>, <<"insertBackground">>} : <<"deleteBackground">> \o s # <<>>
    <3> DEFINE S == {"deleteBackground", "insertBackground"}
    <3>1. <<>> \in Seq(S) /\ <<"insertBackground">> \in Seq(S) /\ "deleteBackground" \in S
      OBVIOUS
    <3> QED
      BY <3>1, NotEmpty
  <2> QED
    BY <1>1, <2>1, TidyTake DEF SaveBackground, ApplicantRequest
<1>2. CASE \/ UploadDocument(w) \/ SelectProgram(w) \/ updateAdminApplicationStatus(w) \/ scheduleEntranceExam(w)
           \/ convertAcceptedApplicantToStudent(w)
  <2>1. /\ <<"insertDocument">> # <<>> /\ <<"setSelection", "setProfileProgram">> # <<>>
        /\ \A b \in BOOLEAN : (IF b THEN <<"setStatus", "letter", "statusEvent">>
                                 ELSE <<"setStatus", "statusEvent">>) # <<>>
        /\ <<"exam", "examStatus", "examAudit">> # <<>>
        /\ <<"readProfile", "insertAccount", "setEnrolled", "convertedAudit">> # <<>>
    OBVIOUS
  <2> QED
    BY <1>2, <2>1, TidyTake, ZenonT(40) DEF UploadDocument, SelectProgram, updateAdminApplicationStatus, scheduleEntranceExam,
       convertAcceptedApplicantToStudent, AdminRequest, ApplicantRequest
<1>3. CASE \/ verifyApplicantDocument(w) \/ updateAdminProgramSelection(w) \/ CreateProfile(w) \/ Submit(w)
           \/ SetWorkflowStatus(w)
  BY <1>3, TidyServe DEF verifyApplicantDocument, updateAdminProgramSelection, CreateProfile, Submit,
     SetWorkflowStatus
<1>4. CASE SetStatus(w) \/ ReadProfile(w) \/ InsertAccount(w)
  BY <1>4, TidyProceedWith DEF SetStatus, ReadProfile, InsertAccount
<1>5. CASE \/ DeleteBackground(w) \/ InsertBackground(w) \/ InsertDocument(w) \/ SetSelection(w)
           \/ SetProfileProgram(w) \/ SendLetter(w) \/ PublishStatus(w) \/ ScheduleExam(w) \/ SetExamStatus(w)
           \/ RecordActivity(w) \/ SetEnrolled(w) \/ (service \in {"forms", "decisions"} /\ Fail(w))
  BY <1>5, TidyProceed DEF DeleteBackground, InsertBackground, InsertDocument, SetSelection, SetProfileProgram,
     SendLetter, PublishStatus, ScheduleExam, SetExamStatus, RecordActivity, SetEnrolled
<1> QED
  BY <1>1, <1>2, <1>3, <1>4, <1>5

\* schools
LEMMA TenantsTidy ==
  ASSUME Tidy, NEW w \in Workers, TenantsNext!(w)
  PROVE  Tidy'
<1>1. CASE registerSchool(w) \/ reviewSchool(w) \/ tenantRequest(w)
  <2>1. /\ <<"findSlug", "createSchool", "announceSchool">> # <<>> /\ <<"checkReview", "transition">> # <<>>
        /\ <<"resolve", "serveTenant">> # <<>>
    OBVIOUS
  <2> QED
    BY <1>1, <2>1, TidyTake DEF registerSchool, reviewSchool, tenantRequest, SchoolRequest
<1>2. CASE ~(registerSchool(w) \/ reviewSchool(w) \/ tenantRequest(w))
  BY <1>2, TidyProceed, TidyProceedWith DEF FindSlug, CreateSchool, AnnounceSchool, CheckReview, Transition,
     ResolveTenant, ServeTenant
<1> QED
  BY <1>1, <1>2

\* and billing.
LEMMA BillingTidy ==
  ASSUME Tidy, BillingNext
  PROVE  Tidy'
<1>1. CASE Assess \/ Post
  BY <1>1, TidyRest DEF Assess, Post
<1>2. ASSUME NEW w \in Workers,
             \/ recordManualPayment(w) \/ PublishPayment(w)
             \/ getStudentBalance(w) \/ ReadFees(w) \/ ReadPayments(w) \/ ShowBalance(w)
             \/ service = "billing" /\ Fail(w)
      PROVE  Tidy'
  <2>1. CASE recordManualPayment(w) \/ getStudentBalance(w)
    <3>1. <<"publishPayment">> # <<>> /\ <<"readAccount", "readAccount">> # <<>>
      OBVIOUS
    <3> QED
      BY <2>1, <3>1, TidyTake DEF recordManualPayment, getStudentBalance
  <2>2. CASE ReadFees(w) \/ ReadPayments(w)
    BY <2>2, TidyGoOn DEF ReadFees, ReadPayments
  <2>3. CASE PublishPayment(w) \/ ShowBalance(w) \/ (service = "billing" /\ Fail(w))
    BY <2>3, TidyProceed DEF PublishPayment, ShowBalance
  <2> QED
    BY <1>2, <2>1, <2>2, <2>3
<1> QED
  BY <1>1, <1>2 DEF BillingNext

\* Whatever happens, a request that has answered has no local variables.
LEMMA TidyKeep == Tidy /\ [Next]_vars => Tidy'
<1> SUFFICES ASSUME Tidy, [Next]_vars
             PROVE  Tidy'
  OBVIOUS
<1>1. CASE UNCHANGED vars
  BY <1>1, TidyRest DEF vars
<1>2. CASE Next
  <2>1. NotificationsNext => Tidy'
    BY NotificationsTidy DEF NotificationsNext
  <2>2. AlumniNext => Tidy'
    BY AlumniTidy DEF AlumniNext
  <2>3. ResourcesNext => Tidy'
    BY ResourcesTidy DEF ResourcesNext
  <2>4. RegistrarNext => Tidy'
    BY RegistrarTidy DEF RegistrarNext
  <2>5. ProfessorsNext => Tidy'
    BY ProfessorsTidy DEF ProfessorsNext
  <2>6. ApplicationsNext => Tidy'
    BY ApplicationsTidy DEF ApplicationsNext
  <2>7. TenantsNext => Tidy'
    BY TenantsTidy DEF TenantsNext
  <2> QED
    BY <1>2, <2>1, <2>2, <2>3, <2>4, <2>5, <2>6, <2>7, GraduationsTidy, BillingTidy DEF Next
<1> QED
  BY <1>1, <1>2

\* At the beginning no request is there.
LEMMA TidyStart == Init => Tidy
<1> SUFFICES ASSUME Init
             PROVE  Tidy
  OBVIOUS
<1>1. todo = [w \in Workers |-> <<>>] /\ arg = [w \in Workers |-> None]
  BY DEF Init, NotificationsInit, AlumniInit, GraduationsInit, ResourcesInit, RegistrarInit, ProfessorsInit,
     ApplicationsInit, TenantsInit, BillingInit, Start
<1> QED
  BY <1>1 DEF Tidy, Slots, Idle

-----------------------------------------------------------------------------
(* The tables of all services *)

\* Each service's invariant holds while its requests run.
ServicesInv ==
    /\ service = "notifications" => NotificationInv
    /\ service = "alumni" => AlumniInv
    /\ service = "graduations" => GradInv
    /\ service = "grades" => GradeInv
    /\ service = "announcements" => PostInv
    /\ service \in {"registrar", "petitions"} => RegistrarInv
    /\ service = "forms" => FormInv
    /\ service = "decisions" => DecisionInv
    /\ service = "resources" => ResourceInv
    /\ service = "tenants" => TenantInv
    /\ service = "billing" => BillingInv

\* What a service's invariant says of its tables is all that their columns
\* allow.
LEMMA ServicesAreTyped == ServicesInv /\ Tidy => TypeOK
<1> SUFFICES ASSUME ServicesInv, Tidy
             PROVE  TypeOK
  OBVIOUS
<1>1. service = "notifications" => NoticeTablesOK
  BY DEF ServicesInv, NotificationInv, NotificationTablesOK, NoticeTablesOK
<1>2. service = "alumni" => AlumniTablesOK
  BY DEF ServicesInv, AlumniInv, AlumniTablesTyped, DeskRowOK, AlumniTablesOK, NoticeTablesOK
<1>3. service = "graduations" => AlumniTablesOK
  <2> SUFFICES ASSUME service = "graduations"
               PROVE  AlumniTablesOK
    OBVIOUS
  <2>1. LogsOK /\ OthersEmpty
    BY DEF ServicesInv, GradInv
  <2>2. \A a \in Alumni : db.accounts[a] \in 1 .. MaxRows["logs"] \cup {None}
    BY <2>1 DEF LogsOK
  <2>3. db.accounts \in [Alumni -> 1 .. MaxRows["logs"] \cup {None}]
    BY <2>1, <2>2 DEF LogsOK
  <2> QED
    BY <2>1, <2>3 DEF OthersEmpty, AlumniTablesOK, NoticeTablesOK
<1>4. service = "resources" => ResourceTablesOK
  BY DEF ServicesInv, ResourceInv, ResourcesTyped, RecordData, ResourceTablesOK
<1>5. service \in {"registrar", "petitions"} => RegistrarTablesOK
  <2> SUFFICES ASSUME service \in {"registrar", "petitions"}
               PROVE  RegistrarTablesOK
    OBVIOUS
  <2>1. RegistrarTyped
    BY DEF ServicesInv, RegistrarInv
  <2> QED
    BY <2>1 DEF RegistrarTyped, SeatRows, RegistrarTablesOK
<1>6. service \in {"grades", "announcements"} => GradeTablesOK
  <2> SUFFICES ASSUME service \in {"grades", "announcements"}
               PROVE  GradeTablesOK
    OBVIOUS
  <2>1. GradeTablesTyped
    BY DEF ServicesInv, GradeInv, PostInv
  <2> QED
    BY <2>1 DEF GradeTablesTyped, GradeTablesOK, NoticeTablesOK
<1>7. service = "forms" => FormTablesOK
  BY DEF ServicesInv, FormInv, FormsFit, DocumentRows, FormTablesOK
<1>8. service = "decisions" => DecisionTablesOK
  BY DEF ServicesInv, DecisionInv, DecisionTyped, DecisionTablesOK
<1>9. service = "tenants" => TenantTablesOK
  BY DEF ServicesInv, TenantInv, TenantTypes, SchoolOK, TenantTablesOK, Registered
<1>10. service = "billing" => BillingTablesOK
  <2> SUFFICES ASSUME service = "billing"
               PROVE  BillingTablesOK
    OBVIOUS
  <2>1. BillingTyped
    BY DEF ServicesInv, BillingInv
  <2>2. \A i \in 1 .. Len(db.payments) : db.payments[i] \in PaymentRows
    BY <2>1 DEF BillingTyped
  <2> QED
    BY <2>1, <2>2 DEF BillingTyped, PaymentRows, BillingTablesOK
<1>11. \A w \in Workers : Idle(w) => arg[w] = None
  BY DEF Tidy
<1> HIDE DEF Idle
<1> QED
  BY <1>1, <1>2, <1>3, <1>4, <1>5, <1>6, <1>7, <1>8, <1>9, <1>10, <1>11, ZenonT(40) DEF TypeOK

\* The tables of every service hold what their columns allow, and a request
\* that has answered leaves no local variables behind: type correctness of all
\* services together.
THEOREM TablesAreTyped == Spec => []TypeOK
<1>1. Init => ServicesInv /\ Tidy
  BY TidyStart, NotificationsStart, AlumniStart, GradStart, GradesStart, PostsStart, RegistrarStart,
     ApplicationsStart, ResourcesStart, TenantsStart, BillingStart DEF ServicesInv
<1>2. ServicesInv /\ [Next]_vars => ServicesInv'
  BY NotificationsKeep, AlumniKeep, GradKeep, GradesKeep, PostsKeep, RegistrarKeep, FormsKeep, DecisionsKeep,
     ResourcesKeep, TenantsKeep, BillingKeep DEF ServicesInv
<1> QED
  BY <1>1, <1>2, TidyKeep, ServicesAreTyped, PTL DEF Spec
=============================================================================
