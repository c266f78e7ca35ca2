----------------------------- MODULE RulesProofs -----------------------------
(***************************************************************************)
(* The rules on who may act, where files are kept and what reports say,    *)
(* for any number of requests, schools, files, courses and grades.  A      *)
(* service's invariant says what its tables hold and what each request     *)
(* knows at the statement it is about to run.  The figures of a report are *)
(* sums over the courses of a student, and the first section says what     *)
(* such a sum is, whatever order the courses are added in.                 *)
(***************************************************************************)
EXTENDS Rules, FiniteSetTheorems, TLAPS

-----------------------------------------------------------------------------
(* Sums over finite sets *)

\* A set of natural numbers that is not empty has a least element.
LEMMA LeastOf ==
  ASSUME NEW N, N \subseteq Nat, N # {}
  PROVE  \E n \in N : \A m \in N : n <= m
<1> DEFINE R == OpToRel(<, Nat)
<1>1. IsWellFoundedOn(R, Nat)
  BY NatLessThanWellFounded
<1>2. \A m, n \in Nat : m < n => <<m, n>> \in R
  BY DEF OpToRel
<1> HIDE DEF R
<1>3. PICK n \in N : \A m \in N : ~(<<m, n>> \in R)
  BY <1>1, WFMin
<1>4. \A m \in N : m \in Nat /\ n \in Nat /\ ~(m < n)
  BY <1>2, <1>3
<1> QED
  BY <1>4

\* A finite set is well-founded: of some of its subsets, one is minimal, for
\* it has as few elements as any.
LEMMA MinimalSubset ==
  ASSUME NEW S, IsFiniteSet(S), NEW F, F \subseteq SUBSET S, F # {}
  PROVE  \E T \in F : \A x \in T : T \ {x} \notin F
<1> DEFINE sizes == {Cardinality(T) : T \in F}
<1>1. \A T \in F : IsFiniteSet(T) /\ Cardinality(T) \in Nat
  BY FS_Subset, FS_CardinalityType
<1>2. sizes \subseteq Nat /\ sizes # {}
  BY <1>1
<1>3. PICK n \in sizes : \A m \in sizes : n <= m
  <2> HIDE DEF sizes
  <2> QED
    BY <1>2, LeastOf
<1>4. PICK T \in F : n = Cardinality(T)
  OBVIOUS
<1>5. ASSUME NEW x \in T, T \ {x} \in F
      PROVE  FALSE
  <2>1. Cardinality(T \ {x}) = Cardinality(T) - 1
    BY <1>1, <1>4, FS_RemoveElement
  <2>2. Cardinality(T \ {x}) \in sizes /\ Cardinality(T) \in Nat
    BY <1>1, <1>5
  <2> HIDE DEF sizes
  <2> QED
    BY <1>3, <1>4, <2>1, <2>2
<1> QED
  BY <1>5

\* g gives each subset of S the sum of f over it: taking any element out takes
\* its summand away.
Adds(g, f, S) ==
    /\ g \in [SUBSET S -> Nat]
    /\ g[{}] = 0
    /\ \A T \in SUBSET S : \A x \in T : g[T] = f[x] + g[T \ {x}]

\* What adds up over S adds up over S and one more element.
LEMMA AddsOneMore ==
  ASSUME NEW S, NEW f, NEW x, x \notin S, f[x] \in Nat, \A y \in S : f[y] \in Nat, NEW g, Adds(g, f, S)
  PROVE  \E h : Adds(h, f, S \cup {x})
<1> DEFINE h == [T \in SUBSET (S \cup {x}) |-> IF x \in T THEN f[x] + g[T \ {x}] ELSE g[T]]
<1>1. h \in [SUBSET (S \cup {x}) -> Nat] /\ h[{}] = 0
  BY DEF Adds
<1>2. ASSUME NEW T \in SUBSET (S \cup {x}), NEW y \in T
      PROVE  h[T] = f[y] + h[T \ {y}]
  <2>1. T \ {y} \in SUBSET (S \cup {x})
    OBVIOUS
  <2>2. CASE y = x
    <3>1. T \ {x} \in SUBSET S /\ x \in T /\ x \notin T \ {x}
      BY <2>2
    <3>2. h[T] = f[x] + g[T \ {x}]
      BY <3>1
    <3>3. h[T \ {x}] = g[T \ {x}]
      BY <3>1
    <3> HIDE DEF h
    <3> QED
      BY <2>2, <3>2, <3>3
  <2>3. CASE y # x /\ x \notin T
    BY <2>1, <2>3 DEF Adds
  <2>4. CASE y # x /\ x \in T
    <3>1. h[T] = f[x] + g[T \ {x}] /\ h[T \ {y}] = f[x] + g[(T \ {y}) \ {x}]
      BY <2>1, <2>4
    <3>2. (T \ {y}) \ {x} = (T \ {x}) \ {y} /\ T \ {x} \in SUBSET S /\ y \in T \ {x} /\ (T \ {x}) \ {y} \in SUBSET S
      BY <2>4
    <3>3. g[T \ {x}] = f[y] + g[(T \ {x}) \ {y}]
      BY <3>2 DEF Adds
    <3>4. f[y] \in Nat /\ g[(T \ {x}) \ {y}] \in Nat
      BY <3>2 DEF Adds
    <3>5. PICK n : n = g[(T \ {x}) \ {y}]
      OBVIOUS
    <3>6. h[T \ {y}] = f[x] + n
      BY <3>1, <3>2, <3>5, Zenon
    <3>7. h[T] = f[x] + (f[y] + n)
      BY <3>1, <3>3, <3>5, Zenon
    <3>8. f[y] \in Nat /\ n \in Nat /\ f[x] \in Nat
      BY <3>4, <3>5, Zenon
    <3> HIDE DEF h
    <3> QED
      BY <3>6, <3>7, <3>8
  <2> QED
    BY <2>2, <2>3, <2>4
<1>3. Adds(h, f, S \cup {x})
  <2> HIDE DEF h
  <2> QED
    BY <1>1, <1>2 DEF Adds
<1> HIDE DEF h
<1> QED
  BY <1>3

\* Natural numbers add up over every finite set: else there is a minimal subset
\* over which they do not, and without one of its elements they do.
LEMMA SumsExist ==
  ASSUME NEW S, IsFiniteSet(S), NEW f, \A x \in S : f[x] \in Nat
  PROVE  \E g : Adds(g, f, S)
<1> DEFINE F == {T \in SUBSET S : ~\E g : Adds(g, f, T)}
<1> SUFFICES ASSUME F # {} PROVE FALSE
  OBVIOUS
<1>1. PICK T \in F : \A x \in T : T \ {x} \notin F
  BY MinimalSubset
<1>2. T # {}
  <2>1. Adds([s \in SUBSET {} |-> 0], f, {})
    BY DEF Adds
  <2> QED
    BY <2>1
<1>3. PICK x \in T : TRUE
  BY <1>2
<1>4. PICK g : Adds(g, f, T \ {x})
  BY <1>1
<1>5. \E h : Adds(h, f, (T \ {x}) \cup {x})
  BY <1>4, AddsOneMore
<1>6. (T \ {x}) \cup {x} = T
  OBVIOUS
<1> QED
  BY <1>5, <1>6

\* The fold of the community modules, unfolded.
Folding(f, S, g) == g = [s \in SUBSET S |-> IF s = {} THEN 0
    ELSE f[CHOOSE y \in s : TRUE] + g[s \ {CHOOSE y \in s : TRUE}]]

\* The sum of the library is what the fold gives for the whole set.
LEMMA SumUnfolds ==
  ASSUME NEW f, NEW S
  PROVE  SumFunctionOnSet(f, S) = (CHOOSE g : Folding(f, S, g))[S]
BY DEF SumFunctionOnSet, FoldFunctionOnSet, MapThenFoldSet, Folding

\* It is that sum: both agree on every subset, for else there is a minimal one
\* on which they differ, and without the element that the fold takes out first
\* they agree.
LEMMA SumIs ==
  ASSUME NEW S, IsFiniteSet(S), NEW f, \A x \in S : f[x] \in Nat, NEW g, Adds(g, f, S), NEW U \in SUBSET S
  PROVE  SumFunctionOnSet(f, U) = g[U]
<1> DEFINE G == [s \in SUBSET U |-> g[s]]
           h == CHOOSE k : Folding(f, U, k)
<1>1. Folding(f, U, G)
  <2>1. ASSUME NEW s \in SUBSET U
        PROVE  G[s] = IF s = {} THEN 0
                      ELSE f[CHOOSE y \in s : TRUE] + G[s \ {CHOOSE y \in s : TRUE}]
    <3>1. CASE s = {}
      BY <3>1 DEF Adds
    <3>2. CASE s # {}
      <4>1. PICK y : y = CHOOSE z \in s : TRUE
        OBVIOUS
      <4>2. y \in s
        BY <3>2, <4>1
      <4>3. s \in SUBSET S /\ s \ {y} \in SUBSET U
        OBVIOUS
      <4> QED
        BY <3>2, <4>1, <4>2, <4>3 DEF Adds
    <3> QED
      BY <3>1, <3>2
  <2> QED
    BY <2>1, Zenon DEF Folding
<1>2. Folding(f, U, h)
  BY <1>1
<1> HIDE DEF h
<1>3. SumFunctionOnSet(f, U) = h[U]
  BY SumUnfolds DEF h
<1> DEFINE F == {T \in SUBSET U : h[T] # g[T]}
<1> SUFFICES ASSUME F # {} PROVE FALSE
  BY <1>3
<1>4. PICK T \in F : \A x \in T : T \ {x} \notin F
  <2>1. IsFiniteSet(U) /\ F \subseteq SUBSET U
    BY FS_Subset
  <2> HIDE DEF F
  <2> QED
    BY <2>1, MinimalSubset
<1>5. PICK y : y = CHOOSE z \in T : TRUE
  OBVIOUS
<1>6. h[T] = IF T = {} THEN 0 ELSE f[y] + h[T \ {y}]
  BY <1>2, <1>5 DEF Folding
<1>7. T # {}
  BY <1>6 DEF Adds
<1>8. y \in T /\ T \ {y} \in SUBSET U /\ T \in SUBSET S
  BY <1>5, <1>7
<1>9. h[T \ {y}] = g[T \ {y}]
  BY <1>4, <1>8
<1> QED
  BY <1>6, <1>7, <1>8, <1>9 DEF Adds

\* So a sum is a natural number, and any element can be taken out of it.
LEMMA SumTakes ==
  ASSUME NEW S, IsFiniteSet(S), NEW f, \A x \in S : f[x] \in Nat
  PROVE  /\ \A T \in SUBSET S : SumFunctionOnSet(f, T) \in Nat
         /\ SumFunctionOnSet(f, {}) = 0
         /\ \A T \in SUBSET S : \A x \in T :
              SumFunctionOnSet(f, T) = f[x] + SumFunctionOnSet(f, T \ {x})
<1>1. PICK g : Adds(g, f, S)
  BY SumsExist
<1>2. \A T \in SUBSET S : SumFunctionOnSet(f, T) = g[T]
  BY <1>1, SumIs
<1>3. \A T \in SUBSET S : SumFunctionOnSet(f, T) \in Nat
  BY <1>1, <1>2 DEF Adds
<1>4. SumFunctionOnSet(f, {}) = 0
  BY <1>1, <1>2 DEF Adds
<1>5. ASSUME NEW T \in SUBSET S, NEW x \in T
      PROVE  SumFunctionOnSet(f, T) = f[x] + SumFunctionOnSet(f, T \ {x})
  <2>1. T \ {x} \in SUBSET S
    OBVIOUS
  <2>2. g[T] = f[x] + g[T \ {x}]
    BY <1>1 DEF Adds
  <2> QED
    BY <1>2, <2>1, <2>2
<1> QED
  BY <1>3, <1>4, <1>5

\* A part of the set sums up to no more: else there is a minimal set around the
\* part that sums up to less, and an element of it outside the part.
LEMMA SumOfPart ==
  ASSUME NEW S, IsFiniteSet(S), NEW f, \A x \in S : f[x] \in Nat, NEW T \in SUBSET S
  PROVE  SumFunctionOnSet(f, T) <= SumFunctionOnSet(f, S)
<1> DEFINE sum(U) == SumFunctionOnSet(f, U)
           F == {U \in SUBSET S : T \subseteq U /\ ~(sum(T) <= sum(U))}
<1> SUFFICES ASSUME F # {} PROVE FALSE
  OBVIOUS
<1>1. PICK U \in F : \A x \in U : U \ {x} \notin F
  <2>1. F \subseteq SUBSET S
    OBVIOUS
  <2> HIDE DEF F
  <2> QED
    BY <2>1, MinimalSubset
<1>2. sum(T) \in Nat /\ sum(U) \in Nat
  BY SumTakes
<1>3. U # T
  BY <1>2
<1>4. PICK x \in U : x \notin T
  BY <1>3
<1>5. sum(U) = f[x] + sum(U \ {x}) /\ sum(U \ {x}) \in Nat /\ f[x] \in Nat
  BY SumTakes
<1>6. sum(T) <= sum(U \ {x})
  BY <1>1, <1>4
<1>7. ~(sum(T) <= sum(U))
  OBVIOUS
<1> HIDE DEF sum, F
<1> QED
  BY <1>2, <1>5, <1>6, <1>7

\* No summand is larger than the sum, and the sum is positive exactly when a
\* summand is: else there is a minimal set with none but zeros and a positive sum.
LEMMA SumPositive ==
  ASSUME NEW S, IsFiniteSet(S), NEW f, \A x \in S : f[x] \in Nat
  PROVE  /\ \A x \in S : f[x] <= SumFunctionOnSet(f, S)
         /\ SumFunctionOnSet(f, S) > 0 <=> \E x \in S : f[x] > 0
<1> DEFINE sum(U) == SumFunctionOnSet(f, U)
           F == {U \in SUBSET S : sum(U) > 0 /\ \A x \in U : f[x] = 0}
<1>1. ASSUME NEW x \in S
      PROVE  f[x] <= sum(S)
  <2>1. sum(S) = f[x] + sum(S \ {x}) /\ sum(S \ {x}) \in Nat /\ f[x] \in Nat
    BY SumTakes
  <2> HIDE DEF sum
  <2> QED
    BY <2>1
<1>2. F = {}
  <2> SUFFICES ASSUME F # {} PROVE FALSE
    OBVIOUS
  <2>1. PICK U \in F : \A x \in U : U \ {x} \notin F
    <3>1. F \subseteq SUBSET S
      OBVIOUS
    <3> HIDE DEF F
    <3> QED
      BY <3>1, MinimalSubset
  <2>2. sum({}) = 0
    BY SumTakes
  <2>3. U # {}
    BY <2>2
  <2>4. PICK x \in U : TRUE
    BY <2>3
  <2>5. sum(U) = f[x] + sum(U \ {x}) /\ sum(U \ {x}) \in Nat /\ f[x] = 0
    BY SumTakes
  <2>6. sum(U \ {x}) = sum(U)
    <3> HIDE DEF sum
    <3> QED
      BY <2>5
  <2>7. U \ {x} \in F
    BY <2>6
  <2> QED
    BY <2>1, <2>7
<1>3. sum(S) \in Nat
  BY SumTakes
<1>4. sum(S) > 0 => \E x \in S : f[x] > 0
  BY <1>2
<1>5. (\E x \in S : f[x] > 0) => sum(S) > 0
  <2> HIDE DEF sum
  <2> QED
    BY <1>1, <1>3
<1> QED
  BY <1>1, <1>4, <1>5

\* Sums are compared summand by summand, up to a factor on either side.
LEMMA SumsCompare ==
  ASSUME NEW S, IsFiniteSet(S), NEW f, NEW g, NEW j \in Nat, NEW k \in Nat,
         \A x \in S : f[x] \in Nat /\ g[x] \in Nat /\ j * f[x] <= k * g[x]
  PROVE  j * SumFunctionOnSet(f, S) <= k * SumFunctionOnSet(g, S)
<1> DEFINE a(U) == SumFunctionOnSet(f, U)
           b(U) == SumFunctionOnSet(g, U)
           F == {U \in SUBSET S : ~(j * a(U) <= k * b(U))}
<1> SUFFICES ASSUME F # {} PROVE FALSE
  OBVIOUS
<1>1. PICK U \in F : \A x \in U : U \ {x} \notin F
  <2>1. F \subseteq SUBSET S
    OBVIOUS
  <2> HIDE DEF F
  <2> QED
    BY <2>1, MinimalSubset
<1>2. (\A x \in S : f[x] \in Nat) /\ (\A x \in S : g[x] \in Nat)
  OBVIOUS
<1>3. U # {}
  <2>1. a({}) = 0 /\ b({}) = 0
    BY <1>2, SumTakes
  <2>2. j * 0 = 0 /\ k * 0 = 0
    OBVIOUS
  <2>3. j * a({}) <= k * b({})
    BY <2>1, <2>2
  <2> QED
    BY <2>3
<1>4. PICK x \in U : TRUE
  BY <1>3
<1>5. U \in SUBSET S /\ x \in S /\ x \in U
  OBVIOUS
<1>6. j * a(U \ {x}) <= k * b(U \ {x})
  BY <1>1
<1>7. ~(j * a(U) <= k * b(U))
  OBVIOUS
<1> HIDE DEF F
<1>8. a(U) = f[x] + a(U \ {x}) /\ a(U \ {x}) \in Nat
  <2>1. U \ {x} \in SUBSET S
    BY <1>5
  <2> QED
    BY ONLY IsFiniteSet(S), <1>2, <1>5, <2>1, SumTakes
<1>9. b(U) = g[x] + b(U \ {x}) /\ b(U \ {x}) \in Nat
  <2>1. U \ {x} \in SUBSET S
    BY <1>5
  <2> QED
    BY ONLY IsFiniteSet(S), <1>2, <1>5, <2>1, SumTakes
<1> HIDE DEF a, b
<1>10. f[x] \in Nat /\ g[x] \in Nat /\ j * f[x] <= k * g[x]
  BY <1>5
<1>11. ASSUME NEW p \in Nat, NEW q \in Nat, NEW r \in Nat, NEW s \in Nat, j * p <= k * q, j * r <= k * s
       PROVE  j * (p + r) <= k * (q + s)
  <2>1. j * (p + r) = j * p + j * r /\ k * (q + s) = k * q + k * s
    OBVIOUS
  <2> QED
    BY <1>11, <2>1
<1>12. j * (f[x] + a(U \ {x})) <= k * (g[x] + b(U \ {x}))
  BY <1>8, <1>9, <1>6, <1>11, <1>10
<1> QED
  BY <1>8, <1>9, <1>7, <1>12

-----------------------------------------------------------------------------
(* Quotients *)

\* A quotient is bounded by what its divisor goes into, and how often.
LEMMA QuotientBounds ==
  ASSUME NEW n \in Nat, NEW d \in Nat, d > 0, NEW q \in Nat
  PROVE  /\ n \div d \in Nat
         /\ q * d <= n => q <= n \div d
         /\ n < (q + 1) * d => n \div d <= q
<1>1. n \div d \in Int /\ n % d \in 0 .. d - 1 /\ n = d * (n \div d) + (n % d)
  OBVIOUS
<1>2. PICK r \in 0 .. d - 1 : r = n % d
  BY <1>1
<1>3. PICK k \in Int : k = n \div d
  BY <1>1
<1>4. n = d * k + r
  BY <1>1, <1>2, <1>3
<1>5. k >= 0
  <2> SUFFICES ASSUME k <= -1 PROVE FALSE
    OBVIOUS
  <2>1. d * k <= d * (-1)
    OBVIOUS
  <2> QED
    BY <1>4, <2>1
<1>6. q * d <= n => q <= k
  <2> SUFFICES ASSUME q * d <= n, k + 1 <= q PROVE FALSE
    OBVIOUS
  <2>1. (k + 1) * d <= q * d
    BY <1>5
  <2>2. (k + 1) * d = d * k + d
    OBVIOUS
  <2> QED
    BY <1>4, <2>1, <2>2
<1>7. n < (q + 1) * d => k <= q
  <2> SUFFICES ASSUME n < (q + 1) * d, q + 1 <= k PROVE FALSE
    OBVIOUS
  <2>1. (q + 1) * d <= k * d /\ k * d = d * k
    BY <1>5
  <2> QED
    BY <1>4, <2>1
<1> QED
  BY <1>3, <1>5, <1>6, <1>7

\* A mean in hundredths lies between numbers that the exact mean lies between.
LEMMA MeanBounds ==
  ASSUME NEW sum \in Nat, NEW units \in Nat, units > 0, NEW q \in Nat
  PROVE  /\ toFixed(sum, units) \in Nat
         /\ q * units <= sum => q <= toFixed(sum, units)
         /\ sum <= q * units => toFixed(sum, units) <= q
<1> DEFINE n == 2 * sum + units
           d == 2 * units
<1>1. n \in Nat /\ d \in Nat /\ d > 0
  OBVIOUS
<1>2. toFixed(sum, units) = n \div d
  BY DEF toFixed
<1>3. q * units \in Nat /\ q * d = 2 * (q * units) /\ (q + 1) * d = 2 * (q * units) + 2 * units
  OBVIOUS
<1>4. q * units <= sum => q * d <= n
  BY <1>3
<1>5. sum <= q * units => n < (q + 1) * d
  BY <1>3
<1> HIDE DEF n, d
<1> QED
  BY <1>1, <1>2, <1>4, <1>5, QuotientBounds

-----------------------------------------------------------------------------
(* Grade reports *)

Rows == [grade : Grades \cup {None}, remarks : Remarks]
RowsType(rows) == DOMAIN rows = Courses /\ \A c \in Courses : rows[c] \in Rows \cup {None}

\* The rule for a row without a verdict agrees with the two scales,
LEMMA ScalesAgree ==
  ASSUME NEW g \in Grades
  PROVE  failsByGrade(g) <=> g \in FailingGrades
<1>1. g \in Nat
  BY GradesType
<1>2. g \in FailingGrades <=> g \in 500 .. 7499
  BY ScalesOfGrades
<1>3. failsByGrade(g) <=> g \in 500 .. 7499
  BY <1>1 DEF failsByGrade
<1> QED
  BY <1>2, <1>3

\* and so does the rule for any row with a grade.
LEMMA FailsByScale ==
  ASSUME NEW row \in Rows, row.grade # None
  PROVE  isFailedGradeValue(row) <=> Failing(row)
<1>1. row.grade \in Grades
  BY DEF Rows
<1>2. failsByGrade(row.grade) <=> row.grade \in FailingGrades
  BY <1>1, ScalesAgree
<1>3. CASE row.remarks = "Failed"
  BY <1>3 DEF isFailedGradeValue, Failing
<1>4. CASE row.remarks = "Passed"
  BY <1>4 DEF isFailedGradeValue, Failing
<1>5. CASE row.remarks \notin {"Failed", "Passed"}
  <2>1. row.remarks # "Failed" /\ row.remarks # "Passed"
    BY <1>5
  <2>2. isFailedGradeValue(row) <=> failsByGrade(row.grade)
    BY <1>5, <2>1, Zenon DEF isFailedGradeValue
  <2>3. Failing(row) <=> row.grade \in FailingGrades
    BY <2>1, Zenon DEF Failing
  <2> QED
    BY <1>2, <2>2, <2>3
<1> QED
  BY <1>3, <1>4, <1>5

\* The units of some courses.
LEMMA UnitsAddUp ==
  ASSUME NEW T \in SUBSET Courses
  PROVE  /\ IsFiniteSet(T)
         /\ unitsOf(T) \in Nat
         /\ \A c \in T : Units[c] <= unitsOf(T)
         /\ unitsOf(T) > 0 <=> \E c \in T : Units[c] > 0
         /\ \A U \in SUBSET T : unitsOf(U) <= unitsOf(T)
<1>1. IsFiniteSet(T)
  BY CoursesAreFinite, FS_Subset
<1>2. \A c \in T : Units[c] \in Nat
  BY UnitsType
<1>3. SumFunctionOnSet(Units, T) \in Nat
  BY <1>1, <1>2, SumTakes
<1>4. (\A c \in T : Units[c] <= SumFunctionOnSet(Units, T))
      /\ (SumFunctionOnSet(Units, T) > 0 <=> \E c \in T : Units[c] > 0)
  BY <1>1, <1>2, SumPositive
<1>5. \A U \in SUBSET T : SumFunctionOnSet(Units, U) <= SumFunctionOnSet(Units, T)
  BY <1>1, <1>2, SumOfPart
<1> QED
  BY <1>1, <1>3, <1>4, <1>5 DEF unitsOf

\* The average is between any bounds of the grades that count.
LEMMA AverageBounds ==
  ASSUME NEW rows, RowsType(rows), NEW N, N = graded(rows, rowsOf(rows)),
         unitsOf(N) > 0, NEW q \in Nat
  PROVE  LET gwa == toFixed(weightedTotal(rows, N), unitsOf(N))
         IN  /\ gwa \in Nat
             /\ (\A c \in N : Units[c] > 0 => q <= rows[c].grade) => q <= gwa
             /\ (\A c \in N : Units[c] > 0 => rows[c].grade <= q) => gwa <= q
<1> DEFINE weighted == [c \in N |-> rows[c].grade * Units[c]]
<1>1. N \subseteq Courses /\ \A c \in N : rows[c].grade \in Nat /\ Units[c] \in Nat
  <2>1. \A c \in N : c \in Courses /\ rows[c] \in Rows /\ rows[c].grade # None
    BY DEF graded, rowsOf, RowsType
  <2>2. \A c \in N : rows[c].grade \in Nat
    BY <2>1, GradesType DEF Rows
  <2> QED
    BY <2>1, <2>2, UnitsType
<1>2. IsFiniteSet(N)
  BY <1>1, UnitsAddUp
<1>3. \A c \in N : weighted[c] = rows[c].grade * Units[c] /\ weighted[c] \in Nat
  BY <1>1
<1> HIDE DEF weighted
<1>4. SumFunctionOnSet(weighted, N) \in Nat
  BY <1>2, <1>3, SumTakes
<1>5. unitsOf(N) \in Nat
  BY <1>1, UnitsAddUp
<1>6. ASSUME \A c \in N : Units[c] > 0 => q <= rows[c].grade
      PROVE  q * unitsOf(N) <= SumFunctionOnSet(weighted, N)
  <2>1. ASSUME NEW c \in N
        PROVE  q * Units[c] <= 1 * weighted[c]
    <3>1. PICK u \in Nat, g \in Nat : u = Units[c] /\ g = rows[c].grade
      BY <1>1
    <3>2. u = 0 => q * u = 0 /\ g * u = 0
      OBVIOUS
    <3>3. q <= g => q * u <= g * u
      OBVIOUS
    <3>4. q * u <= g * u
      BY <1>6, <3>1, <3>2, <3>3
    <3> QED
      BY <1>3, <3>1, <3>4
  <2>2. q * SumFunctionOnSet(Units, N) <= 1 * SumFunctionOnSet(weighted, N)
    BY <1>1, <1>2, <1>3, <2>1, SumsCompare
  <2> QED
    BY <1>4, <2>2 DEF unitsOf
<1>7. ASSUME \A c \in N : Units[c] > 0 => rows[c].grade <= q
      PROVE  SumFunctionOnSet(weighted, N) <= q * unitsOf(N)
  <2>1. ASSUME NEW c \in N
        PROVE  1 * weighted[c] <= q * Units[c]
    <3>1. PICK u \in Nat, g \in Nat : u = Units[c] /\ g = rows[c].grade
      BY <1>1
    <3>2. u = 0 => q * u = 0 /\ g * u = 0
      OBVIOUS
    <3>3. g <= q => g * u <= q * u
      OBVIOUS
    <3>4. g * u <= q * u
      BY <1>7, <3>1, <3>2, <3>3
    <3> QED
      BY <1>3, <3>1, <3>4
  <2>2. 1 * SumFunctionOnSet(weighted, N) <= q * SumFunctionOnSet(Units, N)
    BY <1>1, <1>2, <1>3, <2>1, SumsCompare
  <2> QED
    BY <1>4, <2>2 DEF unitsOf
<1>8. weightedTotal(rows, N) = SumFunctionOnSet(weighted, N)
  BY DEF weightedTotal, weighted
<1> QED
  BY <1>4, <1>5, <1>6, <1>7, <1>8, MeanBounds

\* The courses that a summary takes as failed.
failedOf(rows, N) == {c \in N : isFailedGradeValue(rows[c])}

\* The fields of a summary.
LEMMA SummaryFields ==
  ASSUME NEW rows, NEW T, NEW N, N = graded(rows, T), NEW s, s = summarizeGrades(rows, T)
  PROVE  /\ s.totalUnits = unitsOf(T) /\ s.gradedUnits = unitsOf(N)
         /\ s.failedUnits = unitsOf(failedOf(rows, N))
         /\ s.passedUnits = unitsOf(N) - unitsOf(failedOf(rows, N))
         /\ s.gwa = toFixed(weightedTotal(rows, N), unitsOf(N))
         /\ s.status = getAcademicStanding(Cardinality(T), unitsOf(failedOf(rows, N)))
BY DEF summarizeGrades, failedOf

\* The courses of the rows that count for the average.
countingOf(rows) == {c \in graded(rows, rowsOf(rows)) : Units[c] > 0}

\* The figures of a summary of all rows, and of those of the terms.
LEMMA SummaryAgrees ==
  ASSUME NEW rows, RowsType(rows), NEW s, s = summarizeGrades(rows, rowsOf(rows)),
         NEW terms, DOMAIN terms = {Term[c] : c \in Courses} \ {None},
         \A t \in DOMAIN terms : terms[t] = summarizeGrades(rows, termRows(rows, t))
  PROVE  /\ s.passedUnits + s.failedUnits = s.gradedUnits /\ s.gradedUnits <= s.totalUnits
         /\ s.failedUnits \in Nat
         /\ (s.status = "no_grades") <=> rowsOf(rows) = {}
         /\ rowsOf(rows) = {} => s.totalUnits = 0 /\ s.gwa = 0
         /\ (s.status = "has_deficiencies") <=> \E c \in countingOf(rows) : Failing(rows[c])
         /\ countingOf(rows) # {} =>
               /\ \E c \in countingOf(rows) : rows[c].grade <= s.gwa
               /\ \E c \in countingOf(rows) : rows[c].grade >= s.gwa
         /\ \A t \in DOMAIN terms : terms[t].failedUnits <= s.failedUnits
         /\ \A c \in rowsOf(rows) : \E t \in DOMAIN terms : terms[t].totalUnits >= Units[c]
<1>1. PICK R : R = rowsOf(rows)
  OBVIOUS
<1>2. PICK N : N = graded(rows, R)
  OBVIOUS
<1>3. PICK F : F = failedOf(rows, N)
  OBVIOUS
<1>4. PICK C : C = {c \in N : Units[c] > 0}
  OBVIOUS
<1>6. R \subseteq Courses /\ N \subseteq R /\ F \subseteq N /\ C \subseteq N
  BY <1>1, <1>2, <1>3, <1>4 DEF rowsOf, graded, failedOf
<1>7. /\ unitsOf(R) \in Nat /\ unitsOf(N) \in Nat /\ unitsOf(F) \in Nat
      /\ unitsOf(F) <= unitsOf(N) /\ unitsOf(N) <= unitsOf(R)
      /\ \A c \in R : Units[c] <= unitsOf(R)
      /\ unitsOf(N) > 0 <=> \E c \in N : Units[c] > 0
      /\ unitsOf(F) > 0 <=> \E c \in F : Units[c] > 0
  BY <1>6, UnitsAddUp
<1>8. /\ s.totalUnits = unitsOf(R) /\ s.gradedUnits = unitsOf(N)
      /\ s.failedUnits = unitsOf(F) /\ s.passedUnits = unitsOf(N) - unitsOf(F)
      /\ s.gwa = toFixed(weightedTotal(rows, N), unitsOf(N))
      /\ s.status = getAcademicStanding(Cardinality(R), unitsOf(F))
  BY <1>1, <1>2, <1>3, SummaryFields
<1>9. \A c \in N : rows[c] \in Rows /\ rows[c].grade \in Nat
  <2>1. \A c \in N : c \in Courses /\ rows[c] \in Rows /\ rows[c].grade # None
    BY <1>1, <1>2 DEF graded, rowsOf, RowsType
  <2> QED
    BY <2>1, GradesType DEF Rows
<1>10. s.passedUnits + s.failedUnits = s.gradedUnits /\ s.gradedUnits <= s.totalUnits
  BY <1>7, <1>8
<1>11. ASSUME C # {}
       PROVE  (\E c \in C : rows[c].grade <= s.gwa) /\ (\E c \in C : rows[c].grade >= s.gwa)
  <2>1. unitsOf(N) > 0
    BY <1>4, <1>7, <1>11
  <2>2. PICK c \in C : TRUE
    BY <1>11
  <2>3. rows[c].grade \in Nat
    BY <1>6, <1>9
  <2>4. s.gwa \in Nat
    BY <1>1, <1>2, <1>8, <2>1, AverageBounds
  <2>5. ASSUME \A d \in C : rows[d].grade > s.gwa
        PROVE  FALSE
    <3>1. PICK q \in Nat : q = s.gwa + 1
      BY <2>4
    <3>2. \A d \in N : Units[d] > 0 => q <= rows[d].grade
      BY <1>4, <1>9, <2>4, <2>5, <3>1
    <3>3. q <= s.gwa
      BY <1>1, <1>2, <1>8, <2>1, <3>2, AverageBounds
    <3> QED
      BY <2>4, <3>1, <3>3
  <2>6. ASSUME \A d \in C : rows[d].grade < s.gwa
        PROVE  FALSE
    <3>1. PICK q \in Nat : s.gwa = q + 1
      <4>1. s.gwa - 1 \in Nat /\ s.gwa = (s.gwa - 1) + 1
        BY <2>2, <2>3, <2>4, <2>6
      <4> QED
        BY <4>1
    <3>2. \A d \in N : Units[d] > 0 => rows[d].grade <= q
      BY <1>4, <1>9, <2>4, <2>6, <3>1
    <3>3. s.gwa <= q
      BY <1>1, <1>2, <1>8, <2>1, <3>2, AverageBounds
    <3> QED
      BY <2>4, <3>1, <3>3
  <2> QED
    BY <1>6, <1>9, <2>4, <2>5, <2>6
<1>12. (\E c \in F : Units[c] > 0) <=> \E c \in C : Failing(rows[c])
  <2>1. \A c \in N : isFailedGradeValue(rows[c]) <=> Failing(rows[c])
    <3>1. \A c \in N : rows[c].grade # None
      BY <1>2 DEF graded
    <3> QED
      BY <1>9, <3>1, FailsByScale
  <2> QED
    BY <1>3, <1>4, <2>1 DEF failedOf
<1>13. Cardinality(R) = 0 <=> R = {}
  BY <1>6, CoursesAreFinite, FS_Subset, FS_EmptySet
<1>14. (s.status = "has_deficiencies") <=> \E c \in C : Failing(rows[c])
  <2>1. (\E c \in C : Failing(rows[c])) => Cardinality(R) # 0
    BY <1>6, <1>13
  <2>2. s.status = IF Cardinality(R) = 0 THEN "no_grades"
                   ELSE IF unitsOf(F) > 0 THEN "has_deficiencies" ELSE "good_standing"
    BY <1>8 DEF getAcademicStanding
  <2> QED
    BY <1>7, <1>12, <2>1, <2>2
<1>15. (s.status = "no_grades") <=> R = {}
  BY <1>8, <1>13 DEF getAcademicStanding
<1>17. ASSUME NEW t \in DOMAIN terms
       PROVE  /\ terms[t].failedUnits <= s.failedUnits
              /\ \A c \in termRows(rows, t) : terms[t].totalUnits >= Units[c]
  <2>1. PICK T : T = termRows(rows, t)
    OBVIOUS
  <2>2. T \subseteq R
    BY <1>1, <2>1 DEF termRows
  <2>3. PICK M : M = graded(rows, T)
    OBVIOUS
  <2>4. terms[t].totalUnits = unitsOf(T) /\ terms[t].failedUnits = unitsOf(failedOf(rows, M))
    BY <2>1, <2>3, SummaryFields
  <2>5. failedOf(rows, M) \subseteq F
    BY <1>2, <1>3, <2>2, <2>3 DEF failedOf, graded
  <2>6. unitsOf(failedOf(rows, M)) <= unitsOf(F)
    BY <1>6, <2>5, UnitsAddUp
  <2>7. unitsOf(T) \in Nat /\ \A c \in T : Units[c] <= unitsOf(T) /\ Units[c] \in Nat
    BY <1>6, <2>2, UnitsAddUp, UnitsType
  <2> QED
    BY <1>8, <2>1, <2>4, <2>6, <2>7
<1>18. ASSUME NEW c \in R
       PROVE  \E t \in DOMAIN terms : terms[t].totalUnits >= Units[c]
  <2>1. PICK d \in Courses : Term[d] # None
    BY TermType
  <2>2. CASE Term[c] = None
    <3>1. c \in termRows(rows, Term[d]) /\ Term[d] \in DOMAIN terms
      BY <1>1, <1>6, <2>1, <2>2 DEF termRows
    <3> QED
      BY <1>17, <3>1
  <2>3. CASE Term[c] # None
    <3>1. c \in termRows(rows, Term[c]) /\ Term[c] \in DOMAIN terms
      BY <1>1, <1>6, <2>3 DEF termRows
    <3> QED
      BY <1>17, <3>1
  <2> QED
    BY <2>2, <2>3
<1>19. countingOf(rows) = C
  BY <1>1, <1>2, <1>4 DEF countingOf
<1>20. ASSUME R = {}
       PROVE  s.totalUnits = 0 /\ s.gwa = 0
  <2>1. N = {}
    BY <1>6, <1>20
  <2>2. unitsOf(R) = 0 /\ unitsOf(N) = 0
    BY <1>7, <1>20, <2>1
  <2> QED
    BY <1>8, <2>2 DEF toFixed
<1> QED
  BY <1>1, <1>7, <1>8, <1>10, <1>11, <1>14, <1>15, <1>17, <1>18, <1>19, <1>20

\* A query that fails has the rows of a student without any.
LEMMA NothingRead ==
  /\ RowsType(NoRows) /\ rowsOf(NoRows) = {} /\ deficiencies(NoRows) = {}
  /\ \A t : /\ summarizeGrades(NoRows, termRows(NoRows, t)).failedUnits = 0
            /\ summarizeGrades(NoRows, termRows(NoRows, t)).status = "no_grades"
<1>1. RowsType(NoRows) /\ rowsOf(NoRows) = {}
  BY DEF RowsType, rowsOf, NoRows
<1>2. deficiencies(NoRows) = {}
  BY <1>1 DEF deficiencies
<1>3. ASSUME NEW t
      PROVE  /\ summarizeGrades(NoRows, termRows(NoRows, t)).failedUnits = 0
             /\ summarizeGrades(NoRows, termRows(NoRows, t)).status = "no_grades"
  <2>1. termRows(NoRows, t) = {}
    BY <1>1 DEF termRows
  <2>2. PICK N : N = graded(NoRows, {})
    OBVIOUS
  <2>3. N = {} /\ failedOf(NoRows, N) = {}
    BY <2>2 DEF graded, failedOf
  <2>4. unitsOf({}) = 0 /\ Cardinality({}) = 0
    <3>1. {} \in SUBSET Courses /\ ~ \E c \in {} : Units[c] > 0
      OBVIOUS
    <3>2. unitsOf({}) \in Nat /\ ~ (unitsOf({}) > 0)
      BY <3>1, UnitsAddUp
    <3> QED
      BY <3>2, FS_EmptySet
  <2>5. PICK s : s = summarizeGrades(NoRows, {})
    OBVIOUS
  <2>6. s.failedUnits = 0 /\ s.status = getAcademicStanding(0, 0)
    BY <2>2, <2>3, <2>4, <2>5, SummaryFields
  <2>7. s.status = "no_grades"
    BY <2>6 DEF getAcademicStanding
  <2> QED
    BY <2>1, <2>5, <2>6, <2>7
<1> QED
  BY <1>1, <1>2, <1>3

\* The figures of a report, which are queries that may fail and then
\* arithmetic, agree.
LEMMA ReportAgrees ==
  ASSUME NEW rows, RowsType(rows), NEW summed \in {rows, NoRows}, NEW termed \in {rows, NoRows},
         NEW listed \in {rows, NoRows},
         usePostgres("reports") => summed = rows /\ termed = rows,
         NEW r, r.rows = rows,
         r.summary = summarizeGrades(summed, rowsOf(summed)),
         DOMAIN r.terms = {Term[c] : c \in Courses} \ {None},
         \A t \in DOMAIN r.terms : r.terms[t] = summarizeGrades(termed, termRows(termed, t)),
         r.deficient = deficiencies(listed)
  PROVE  GradesAgree(r)
<1>1. PICK s, terms : s = r.summary /\ terms = r.terms
  OBVIOUS
<1>2. PICK same : same = [t \in {Term[c] : c \in Courses} \ {None} |-> summarizeGrades(summed, termRows(summed, t))]
  OBVIOUS
<1>3. DOMAIN same = {Term[c] : c \in Courses} \ {None}
      /\ \A t \in DOMAIN same : same[t] = summarizeGrades(summed, termRows(summed, t))
  BY <1>2
<1>4. RowsType(summed) /\ RowsType(termed)
  BY NothingRead
<1>5. /\ s.passedUnits + s.failedUnits = s.gradedUnits /\ s.gradedUnits <= s.totalUnits
      /\ s.failedUnits \in Nat
      /\ (s.status = "no_grades") <=> rowsOf(summed) = {}
      /\ rowsOf(summed) = {} => s.totalUnits = 0 /\ s.gwa = 0
      /\ (s.status = "has_deficiencies") <=> \E c \in countingOf(summed) : Failing(summed[c])
      /\ countingOf(summed) # {} =>
            /\ \E c \in countingOf(summed) : summed[c].grade <= s.gwa
            /\ \E c \in countingOf(summed) : summed[c].grade >= s.gwa
      /\ \A t \in DOMAIN same : same[t].failedUnits <= s.failedUnits
  BY <1>1, <1>3, <1>4, SummaryAgrees
<1>6. ~shows(s) => rowsOf(summed) = {}
  BY <1>5 DEF shows
<1>7. shows(s) => summed = rows
  BY <1>5, NothingRead DEF shows
<1>8. ASSUME summed = rows, NEW t \in DOMAIN terms
      PROVE  terms[t].failedUnits <= s.failedUnits
  <2>1. CASE termed = rows
    BY <1>1, <1>3, <1>5, <1>8, <2>1
  <2>2. CASE termed = NoRows
    BY <1>1, <1>5, <1>8, <2>2, NothingRead
  <2> QED
    BY <2>1, <2>2
<1>9. ASSUME NEW t \in DOMAIN terms, shows(terms[t])
      PROVE  termed = rows
  BY <1>1, <1>9, NothingRead DEF shows
<1>10. ASSUME termed = rows, NEW c \in rowsOf(rows)
       PROVE  \E t \in DOMAIN terms : terms[t].totalUnits >= Units[c]
  <2>1. PICK whole : whole = summarizeGrades(rows, rowsOf(rows))
    OBVIOUS
  <2> QED
    BY <1>1, <1>10, <2>1, SummaryAgrees
<1>11. ASSUME r.deficient # {}, NEW c \in rowsOf(rows), rows[c].remarks = "Failed"
       PROVE  c \in r.deficient
  <2>1. listed = rows
    BY <1>11, NothingRead
  <2> QED
    BY <1>11, <2>1 DEF deficiencies
<1>12. {c \in graded(r.rows, rowsOf(r.rows)) : Units[c] > 0} = countingOf(rows)
  BY DEF countingOf
<1> QED
  BY <1>1, <1>5, <1>6, <1>7, <1>8, <1>9, <1>10, <1>11, <1>12 DEF GradesAgree

-----------------------------------------------------------------------------
(* What the services have in common *)

\* Every request slot has its statements and its local variables.
Slots == DOMAIN todo = Workers /\ DOMAIN arg = Workers

\* The request in slot w goes on with these statements and local variables,
\* and no other request moves.
Moves(w, steps, locals) ==
    /\ Slots'
    /\ todo'[w] = steps /\ (steps # <<>> => arg'[w] = locals)
    /\ \A v \in Workers \ {w} : todo'[v] = todo[v] /\ arg'[v] = arg[v]

\* No request moves.
Rests == todo' = todo /\ arg' = arg

\* The service, and whether it has a database, stay.
Kept == service' = service /\ configured' = configured

\* A request that arrives moves its own slot alone;
LEMMA TakeMoves ==
  ASSUME Slots, NEW s, NEW w \in Workers, NEW steps, NEW locals, Take(s, w, steps, locals)
  PROVE  Moves(w, steps, locals) /\ Kept /\ service = s /\ todo[w] = <<>>
BY DEF Slots, Take, Moves, Kept, Idle

\* so does one that goes on,
LEMMA GoOnMoves ==
  ASSUME Slots, NEW w \in Workers, NEW steps, NEW locals, GoOn(w, steps, locals)
  PROVE  Moves(w, steps, locals) /\ Kept
BY DEF Slots, GoOn, Moves, Kept

\* with the statements that are left,
LEMMA ProceedMoves ==
  ASSUME Slots, NEW w \in Workers, Proceed(w)
  PROVE  Moves(w, Tail(todo[w]), arg[w]) /\ Kept
BY GoOnMoves DEF Proceed

\* with other local variables,
LEMMA ProceedWithMoves ==
  ASSUME Slots, NEW w \in Workers, NEW locals, ProceedWith(w, locals)
  PROVE  Moves(w, Tail(todo[w]), locals) /\ Kept
BY GoOnMoves DEF ProceedWith

\* one that answers at once,
LEMMA AnswerMoves ==
  ASSUME Slots, NEW w \in Workers, Answer(w)
  PROVE  Moves(w, <<>>, None) /\ Kept
BY GoOnMoves DEF Answer

\* and one that fails, which writes nothing.
LEMMA FailMoves ==
  ASSUME Slots, NEW w \in Workers, Fail(w)
  PROVE  Moves(w, <<>>, None) /\ Kept /\ db' = db
BY AnswerMoves DEF Fail

-----------------------------------------------------------------------------
(* Access *)

SigningUp == {<<"findAccount", "insertAccount", "insertSuperAdmin">>,
              <<"insertAccount", "insertSuperAdmin">>, <<"insertSuperAdmin">>}
Routed == {<<"resolveTenant", "authorize", "act">>, <<"authorize", "act">>, <<"act">>}

\* A token with a role of a school was signed for an account that had it there.
Held(token) == token.role # Platform =>
    token.school # None /\ <<token.role, token.school>> \in token.grants

\* The school that a request was resolved to is the one that it names.
Resolved(r) ==
    /\ r.slug # None => r.context = r.slug
    /\ r.context # None /\ r.id # None => r.context = r.id

\* The school that it acts on is the one of its header, and its role is held there.
Authorized(r) ==
    /\ r.acts # None /\ r.token.role # Platform => <<r.token.role, r.acts>> \in r.token.grants
    /\ r.id # None => r.acts = r.id

\* What a request knows when steps are left of it.
RequestOK(r, steps) ==
    /\ DOMAIN r = {"token", "roles", "id", "slug", "context", "acts", "platform"}
    /\ Held(r.token)
    /\ r.platform => r.slug = None
    /\ IF Head(steps) = "resolveTenant" THEN r.context = None ELSE Resolved(r)
    /\ Head(steps) = "act" => Authorized(r)

AccessInv ==
    /\ Slots
    /\ DOMAIN db = {"accounts", "superAdmins", "owners", "members", "open", "tokens"}
    /\ \A token \in db.tokens : Held(token)
    /\ \A w \in Workers :
        /\ todo[w] \in {<<>>} \cup SigningUp \cup Routed
        /\ todo[w] \in Routed => RequestOK(arg[w], todo[w])

\* The statements that are left after the first, of each list.
LEMMA AccessRoute ==
  ASSUME NEW r \in SigningUp \cup Routed
  PROVE  /\ r # <<>> /\ Tail(r) \in {<<>>} \cup SigningUp \cup Routed
         /\ Head(r) = "findAccount" => Tail(r) \in SigningUp
         /\ Head(r) \in {"insertAccount", "insertSuperAdmin", "act"} => Tail(r) \notin Routed
         /\ Head(r) = "resolveTenant" => Tail(r) \in Routed /\ Head(Tail(r)) = "authorize" /\ r \in Routed
         /\ Head(r) = "authorize" => Tail(r) \in Routed /\ Head(Tail(r)) = "act" /\ r \in Routed
         /\ Head(r) = "act" => r \in Routed
         /\ r \in Routed => Head(r) \in {"resolveTenant", "authorize", "act"}
         /\ r \in SigningUp => r \notin Routed /\ Tail(r) \notin Routed
<1>1. CASE r = <<"findAccount", "insertAccount", "insertSuperAdmin">>
  BY <1>1 DEF SigningUp, Routed
<1>2. CASE r = <<"insertAccount", "insertSuperAdmin">>
  BY <1>2 DEF SigningUp, Routed
<1>3. CASE r = <<"insertSuperAdmin">>
  BY <1>3 DEF SigningUp, Routed
<1>4. CASE r = <<"resolveTenant", "authorize", "act">>
  BY <1>4 DEF SigningUp, Routed
<1>5. CASE r = <<"authorize", "act">>
  BY <1>5 DEF SigningUp, Routed
<1>6. CASE r = <<"act">>
  BY <1>6 DEF SigningUp, Routed
<1> QED
  BY <1>1, <1>2, <1>3, <1>4, <1>5, <1>6 DEF SigningUp, Routed

\* A step that moves one request and keeps the tokens good.
LEMMA AccessStep ==
  ASSUME AccessInv, NEW w \in Workers, NEW steps \in {<<>>} \cup SigningUp \cup Routed, NEW locals,
         Moves(w, steps, locals), DOMAIN db' = DOMAIN db, \A token \in db'.tokens : Held(token),
         steps \in Routed => RequestOK(locals, steps)
  PROVE  AccessInv'
<1>1. ASSUME NEW v \in Workers
      PROVE  /\ todo'[v] \in {<<>>} \cup SigningUp \cup Routed
             /\ todo'[v] \in Routed => RequestOK(arg'[v], todo'[v])
  <2>1. CASE v = w
    <3>1. todo'[v] = steps /\ (steps # <<>> => arg'[v] = locals)
      BY <2>1 DEF Moves
    <3>2. steps \in Routed => steps # <<>>
      BY AccessRoute
    <3> QED
      BY <3>1, <3>2
  <2>2. CASE v # w
    <3>1. todo'[v] = todo[v] /\ arg'[v] = arg[v]
      BY <2>2 DEF Moves
    <3> QED
      BY <3>1 DEF AccessInv
  <2> QED
    BY <2>1, <2>2
<1>2. Slots'
  BY DEF Moves
<1>3. DOMAIN db' = {"accounts", "superAdmins", "owners", "members", "open", "tokens"}
  BY DEF AccessInv
<1>4. ASSUME NEW v \in Workers
      PROVE  /\ todo'[v] \in {<<>>} \cup SigningUp \cup Routed
             /\ todo'[v] \in Routed => RequestOK(arg[v], todo[v])'
  BY <1>1 DEF RequestOK, Held, Resolved, Authorized
<1> QED
  BY <1>2, <1>3, <1>4 DEF AccessInv, Held

\* A token is signed with a role that the account has in the school, or with
\* the platform's.
LEMMA LoginSigns ==
  ASSUME NEW e, NEW s \in joined(e)
  PROVE  Held([role |-> roleOf(e, s), school |-> institutionOf(e, s), grants |-> Grants(e)])
<1>1. s # None => s \in Campuses /\ db.members[e][s] # None
  BY DEF joined
<1>2. CASE e \in db.superAdmins
  <2>1. roleOf(e, s) = Platform
    BY <1>2, Zenon DEF roleOf
  <2> QED
    BY <2>1 DEF Held
<1>3. CASE e \notin db.superAdmins /\ db.owners[e] # None
  <2>1. roleOf(e, s) = "school_owner"
    BY <1>3, Zenon DEF roleOf
  <2>2. institutionOf(e, s) = db.owners[e]
    BY <1>3 DEF institutionOf
  <2>3. <<"school_owner", db.owners[e]>> \in Grants(e)
    BY <1>3 DEF Grants
  <2> QED
    BY <1>3, <2>1, <2>2, <2>3 DEF Held
<1>4. CASE e \notin db.superAdmins /\ db.owners[e] = None /\ s # None
  <2>1. roleOf(e, s) = db.members[e][s]
    BY <1>4, Zenon DEF roleOf
  <2>2. institutionOf(e, s) = s
    BY <1>4 DEF institutionOf
  <2>3. <<db.members[e][s], s>> \in Grants(e)
    BY <1>1, <1>4 DEF Grants
  <2> QED
    BY <1>4, <2>1, <2>2, <2>3 DEF Held
<1>5. CASE e \notin db.superAdmins /\ db.owners[e] = None /\ s = None
  <2>1. roleOf(e, s) = Platform
    BY <1>5, Zenon DEF roleOf
  <2> QED
    BY <2>1 DEF Held
<1> QED
  BY <1>2, <1>3, <1>4, <1>5

\* Sign-ups.
LEMMA AccountSteps ==
  ASSUME AccessInv, NEW w \in Workers,
         signUp(w) \/ FindAccount(w) \/ InsertAccount(w) \/ InsertSuperAdmin(w)
  PROVE  AccessInv' /\ Kept
<1> USE DEF AccessInv
<1>1. CASE signUp(w)
  <2>1. PICK e : Take("access", w, <<"findAccount", "insertAccount", "insertSuperAdmin">>, e) /\ db' = db
    BY <1>1 DEF signUp
  <2>2. <<"findAccount", "insertAccount", "insertSuperAdmin">> \in SigningUp
    BY DEF SigningUp
  <2>3. <<"findAccount", "insertAccount", "insertSuperAdmin">> \notin Routed
    BY <2>2, AccessRoute
  <2> QED
    BY <2>1, <2>2, <2>3, TakeMoves, AccessStep
<1>2. CASE FindAccount(w)
  <2>1. todo[w] # <<>> /\ Head(todo[w]) = "findAccount" /\ todo[w] \in SigningUp \cup Routed /\ db' = db
    BY <1>2 DEF FindAccount, At
  <2>2. Tail(todo[w]) \in SigningUp /\ Tail(todo[w]) \notin Routed /\ <<>> \notin Routed
    BY <2>1, AccessRoute
  <2>3. \/ Moves(w, <<>>, None) /\ Kept
        \/ Moves(w, Tail(todo[w]), arg[w]) /\ Kept
    BY <1>2, AnswerMoves, ProceedMoves DEF FindAccount
  <2> QED
    BY <2>1, <2>2, <2>3, AccessStep
<1>3. CASE InsertAccount(w) \/ InsertSuperAdmin(w)
  <2>1. todo[w] # <<>> /\ Head(todo[w]) \in {"insertAccount", "insertSuperAdmin"} /\ todo[w] \in SigningUp \cup Routed
    BY <1>3 DEF InsertAccount, InsertSuperAdmin, At
  <2>2. Tail(todo[w]) \in {<<>>} \cup SigningUp \cup Routed /\ Tail(todo[w]) \notin Routed
    BY <2>1, AccessRoute
  <2>3. Moves(w, Tail(todo[w]), arg[w]) /\ Kept
    BY <1>3, ProceedMoves DEF InsertAccount, InsertSuperAdmin
  <2>4. DOMAIN db' = DOMAIN db /\ db'.tokens = db.tokens
    BY <1>3 DEF InsertAccount, InsertSuperAdmin
  <2> QED
    BY <2>2, <2>3, <2>4, AccessStep
<1> QED
  BY <1>1, <1>2, <1>3

\* A step that moves no request and keeps the tokens good.
LEMMA AccessRests ==
  ASSUME AccessInv, Rests, DOMAIN db' = DOMAIN db, \A token \in db'.tokens : Held(token)
  PROVE  AccessInv'
BY DEF AccessInv, Rests, Slots, RequestOK, Held, Resolved, Authorized

\* Logins and what other services write.
LEMMA AccessSides ==
  ASSUME AccessInv, (\E w \in Workers : login(w)) \/ ActivateOwner \/ ChangeMembership \/ ReviewCampus
  PROVE  AccessInv' /\ Kept
<1>1. ASSUME NEW w \in Workers, login(w)
      PROVE  AccessInv' /\ Kept
  <2>1. Rests /\ Kept
    BY <1>1 DEF login, Serve, Rests, Kept
  <2>2. PICK e \in db.accounts : \E s \in joined(e) :
          db' = [db EXCEPT !.tokens = @ \cup
              {[role |-> roleOf(e, s), school |-> institutionOf(e, s), grants |-> Grants(e)]}]
    BY <1>1 DEF login
  <2>3. PICK s \in joined(e) :
          db' = [db EXCEPT !.tokens = @ \cup
              {[role |-> roleOf(e, s), school |-> institutionOf(e, s), grants |-> Grants(e)]}]
    BY <2>2
  <2>4. PICK token : token = [role |-> roleOf(e, s), school |-> institutionOf(e, s), grants |-> Grants(e)]
    OBVIOUS
  <2>5. Held(token)
    BY <2>4, LoginSigns
  <2>6. db' = [db EXCEPT !.tokens = @ \cup {token}]
    BY <2>3, <2>4
  <2>7. DOMAIN db' = DOMAIN db /\ db'.tokens = db.tokens \cup {token}
    BY <2>6 DEF AccessInv
  <2> QED
    BY <2>1, <2>5, <2>7, AccessRests DEF AccessInv
<1>2. CASE ActivateOwner \/ ChangeMembership \/ ReviewCampus
  <2>1. Rests /\ Kept
    BY <1>2 DEF ActivateOwner, ChangeMembership, ReviewCampus, Elsewhere, Rests, Kept
  <2>2. DOMAIN db' = DOMAIN db /\ db'.tokens = db.tokens
    <3>1. DOMAIN db = {"accounts", "superAdmins", "owners", "members", "open", "tokens"}
      BY DEF AccessInv
    <3>2. CASE ActivateOwner
      <4>1. PICK e \in Emails \ db.accounts, s \in Campuses :
              db' = [db EXCEPT !.accounts = @ \cup {e}, !.owners[e] = s]
        BY <3>2 DEF ActivateOwner, Elsewhere
      <4> QED
        BY <3>1, <4>1
    <3>3. CASE ChangeMembership
      <4>1. PICK e \in Emails, s \in Campuses, role \in {"professor", None} :
              db' = [db EXCEPT !.members[e][s] = role]
        BY <3>3 DEF ChangeMembership, Elsewhere
      <4> QED
        BY <3>1, <4>1
    <3>4. CASE ReviewCampus
      BY <3>1, <3>4 DEF ReviewCampus, Elsewhere
    <3> QED
      BY <1>2, <3>2, <3>3, <3>4
  <2> QED
    BY <2>1, <2>2, AccessRests DEF AccessInv
<1> QED
  BY <1>1, <1>2

\* A request is resolved to the school that it names, and authorized for it.
LEMMA RouteSteps ==
  ASSUME AccessInv, NEW w \in Workers,
         routeRequest(w) \/ ResolveContext(w) \/ authorizeRoute(w) \/ Act(w)
  PROVE  AccessInv' /\ Kept
<1>0. Slots /\ todo[w] \in {<<>>} \cup SigningUp \cup Routed /\ (todo[w] \in Routed => RequestOK(arg[w], todo[w]))
      /\ \A token \in db.tokens : Held(token)
  BY DEF AccessInv
<1>1. CASE routeRequest(w)
  <2>1. PICK token \in db.tokens, roles \in AllowedRoles, id \in Campuses \cup {None}, slug \in Campuses \cup {None},
             platform \in BOOLEAN :
          /\ Take("access", w, <<"resolveTenant", "authorize", "act">>,
                 [token |-> token, roles |-> roles, id |-> id, slug |-> slug, context |-> None, acts |-> None,
                  platform |-> platform])
          /\ platform => slug = None
          /\ db' = db
    BY <1>1 DEF routeRequest
  <2>2. PICK r : r = [token |-> token, roles |-> roles, id |-> id, slug |-> slug, context |-> None, acts |-> None,
                      platform |-> platform]
    OBVIOUS
  <2>3. PICK steps : steps = <<"resolveTenant", "authorize", "act">>
    OBVIOUS
  <2>4. steps \in Routed /\ Head(steps) = "resolveTenant"
    BY <2>3 DEF Routed
  <2>5. Moves(w, steps, r) /\ Kept
    BY <1>0, <2>1, <2>2, <2>3, TakeMoves
  <2>6. RequestOK(r, steps)
    <3>1. DOMAIN r = {"token", "roles", "id", "slug", "context", "acts", "platform"}
      BY <2>2
    <3>2. r.token = token /\ r.context = None /\ r.slug = slug /\ r.platform = platform
      BY <2>2
    <3> QED
      BY <1>0, <2>1, <2>4, <3>1, <3>2 DEF RequestOK
  <2> QED
    BY <1>0, <2>1, <2>4, <2>5, <2>6, AccessStep
<1>2. CASE ResolveContext(w)
  <2>1. todo[w] # <<>> /\ Head(todo[w]) = "resolveTenant" /\ db' = db
    BY <1>2 DEF ResolveContext, At
  <2>2. todo[w] \in Routed /\ Tail(todo[w]) \in Routed /\ Head(Tail(todo[w])) = "authorize"
    BY <1>0, <2>1, AccessRoute
  <2>3. PICK r : r = arg[w]
    OBVIOUS
  <2>4. /\ DOMAIN r = {"token", "roles", "id", "slug", "context", "acts", "platform"}
        /\ Held(r.token) /\ (r.platform => r.slug = None) /\ r.context = None
    BY <1>0, <2>1, <2>2, <2>3 DEF RequestOK
  <2>5. CASE (r.platform \/ (r.slug = None /\ r.id = None)) /\ Proceed(w)
    <3>1. Moves(w, Tail(todo[w]), r) /\ Kept
      BY <1>0, <2>3, <2>5, ProceedMoves
    <3>2. RequestOK(r, Tail(todo[w]))
      BY <2>2, <2>4, <2>5 DEF RequestOK, Resolved
    <3> QED
      BY <1>0, <2>1, <2>2, <3>1, <3>2, AccessStep
  <2>6. CASE \E s \in institutionsFor(r) \cap db.open : ProceedWith(w, [r EXCEPT !.context = s])
    <3>1. PICK s \in institutionsFor(r) : ProceedWith(w, [r EXCEPT !.context = s])
      BY <2>6
    <3>2. PICK q : q = [r EXCEPT !.context = s]
      OBVIOUS
    <3>3. Moves(w, Tail(todo[w]), q) /\ Kept
      BY <1>0, <3>1, <3>2, ProceedWithMoves
    <3>4. DOMAIN q = DOMAIN r /\ q.context = s /\ q.token = r.token /\ q.slug = r.slug /\ q.id = r.id
          /\ q.platform = r.platform
      BY <2>4, <3>2
    <3>5. (r.slug # None => s = r.slug) /\ (r.id # None => s = r.id)
      BY <3>1 DEF institutionsFor
    <3>6. RequestOK(q, Tail(todo[w]))
      BY <2>2, <2>4, <3>4, <3>5 DEF RequestOK, Resolved
    <3> QED
      BY <1>0, <2>1, <2>2, <3>3, <3>6, AccessStep
  <2> QED
    BY <1>2, <2>3, <2>5, <2>6 DEF ResolveContext
<1>3. CASE authorizeRoute(w)
  <2>1. todo[w] # <<>> /\ Head(todo[w]) = "authorize" /\ db' = db
    BY <1>3 DEF authorizeRoute, At
  <2>2. todo[w] \in Routed /\ Tail(todo[w]) \in Routed /\ Head(Tail(todo[w])) = "act"
    BY <1>0, <2>1, AccessRoute
  <2>3. PICK r : r = arg[w]
    OBVIOUS
  <2>4. /\ DOMAIN r = {"token", "roles", "id", "slug", "context", "acts", "platform"}
        /\ Held(r.token) /\ (r.platform => r.slug = None) /\ Resolved(r)
    BY <1>0, <2>1, <2>2, <2>3 DEF RequestOK
  <2>5. PICK s : s = IF r.roles = SCHOOL_ADMIN_ROLES /\ r.token.school # None THEN r.token.school ELSE r.id
    OBVIOUS
  <2>6. PICK q : q = [r EXCEPT !.acts = s]
    OBVIOUS
  <2>7. ProceedWith(w, q) /\ (r.token.school # None /\ r.id # None => r.token.school = r.id)
    BY <1>3, <2>3, <2>5, <2>6 DEF authorizeRoute
  <2>8. Moves(w, Tail(todo[w]), q) /\ Kept
    BY <1>0, <2>7, ProceedWithMoves
  <2>9. DOMAIN q = DOMAIN r /\ q.acts = s /\ q.context = r.context /\ q.token = r.token /\ q.slug = r.slug
        /\ q.id = r.id /\ q.platform = r.platform
    BY <2>4, <2>6
  <2>10. r.id # None => s = r.id
    BY <2>5, <2>7
  <2>11. s # None /\ r.token.role # Platform => <<r.token.role, s>> \in r.token.grants
    <3> SUFFICES ASSUME s # None, r.token.role # Platform
                 PROVE  <<r.token.role, s>> \in r.token.grants
      OBVIOUS
    <3>1. r.token.school # None /\ <<r.token.role, r.token.school>> \in r.token.grants
      BY <2>4 DEF Held
    <3>2. s = r.token.school
      BY <2>5, <2>7, <3>1
    <3> QED
      BY <3>1, <3>2
  <2>12. Resolved(q) /\ Authorized(q)
    BY <2>4, <2>9, <2>10, <2>11 DEF Resolved, Authorized
  <2>13. RequestOK(q, Tail(todo[w]))
    BY <2>2, <2>4, <2>9, <2>12 DEF RequestOK
  <2> QED
    BY <1>0, <2>1, <2>2, <2>8, <2>13, AccessStep
<1>4. CASE Act(w)
  <2>1. todo[w] # <<>> /\ Head(todo[w]) = "act" /\ db' = db
    BY <1>4 DEF Act, At
  <2>2. Tail(todo[w]) \in {<<>>} \cup SigningUp \cup Routed /\ Tail(todo[w]) \notin Routed
    BY <1>0, <2>1, AccessRoute
  <2>3. Moves(w, Tail(todo[w]), arg[w]) /\ Kept
    BY <1>0, <1>4, ProceedMoves DEF Act
  <2> QED
    BY <1>0, <2>1, <2>2, <2>3, AccessStep
<1> QED
  BY <1>1, <1>2, <1>3, <1>4

\* Every step of access.
LEMMA AccessNextKeeps ==
  ASSUME AccessInv, AccessNext
  PROVE  AccessInv' /\ Kept
<1>1. CASE (\E w \in Workers : login(w)) \/ ActivateOwner \/ ChangeMembership \/ ReviewCampus
  BY <1>1, AccessSides
<1>2. ASSUME NEW w \in Workers, Fail(w)
      PROVE  AccessInv' /\ Kept
  <2>1. Moves(w, <<>>, None) /\ Kept /\ db' = db
    BY <1>2, FailMoves DEF AccessInv
  <2>2. <<>> \notin Routed
    BY AccessRoute
  <2> QED
    BY <2>1, <2>2, AccessStep DEF AccessInv
<1>3. ASSUME NEW w \in Workers, signUp(w) \/ FindAccount(w) \/ InsertAccount(w) \/ InsertSuperAdmin(w)
      PROVE  AccessInv' /\ Kept
  BY <1>3, AccountSteps
<1>4. ASSUME NEW w \in Workers, routeRequest(w) \/ ResolveContext(w) \/ authorizeRoute(w) \/ Act(w)
      PROVE  AccessInv' /\ Kept
  BY <1>4, RouteSteps
<1> QED
  BY <1>1, <1>2, <1>3, <1>4 DEF AccessNext

\* It starts with no token and no request.
LEMMA AccessStarts ==
  ASSUME AccessInit
  PROVE  AccessInv
<1>1. todo = [w \in Workers |-> <<>>] /\ arg = [w \in Workers |-> None] /\ db = AccessTables
  BY DEF AccessInit, Start
<1>2. <<>> \notin Routed
  BY AccessRoute
<1>3. DOMAIN db = {"accounts", "superAdmins", "owners", "members", "open", "tokens"} /\ db.tokens = {}
  BY <1>1 DEF AccessTables
<1> QED
  BY <1>1, <1>2, <1>3 DEF AccessInv, Slots

\* A request that is about to act does so by a grant.
LEMMA ActsHold ==
  ASSUME service = "access" => AccessInv
  PROVE  ActsByGrant
<1> SUFFICES ASSUME AccessInv, NEW w \in Workers, At(w, "act")
             PROVE  /\ arg[w].acts # None /\ arg[w].token.role # Platform =>
                          <<arg[w].token.role, arg[w].acts>> \in arg[w].token.grants
                    /\ arg[w].id # None => arg[w].acts = arg[w].id
                    /\ arg[w].context # None /\ arg[w].id # None => arg[w].context = arg[w].acts
                    /\ arg[w].slug # None => arg[w].context = arg[w].slug
  BY DEF ActsByGrant
<1>1. todo[w] # <<>> /\ Head(todo[w]) = "act"
  BY DEF At
<1>2. todo[w] \in Routed
  BY <1>1, AccessRoute DEF AccessInv
<1>3. Resolved(arg[w]) /\ Authorized(arg[w])
  BY <1>1, <1>2 DEF AccessInv, RequestOK
<1> QED
  BY <1>3 DEF Resolved, Authorized

-----------------------------------------------------------------------------
(* Files *)

FilesTodo == {<<>>, <<"upload", "handOver">>, <<"handOver">>}

\* The object of a file.
ObjectOf(f) == [path |-> f.path, body |-> f.body]

\* The upload of w has succeeded, and its metadata is not handed over yet.
Uploaded(w) == todo[w] = <<"handOver">>

\* What the tables hold: one object at a path, the object of every file that
\* a client knows of and of every link, and no two such files at one path.
TablesKept ==
    /\ DOMAIN db = {"objects", "handed", "urls", "readable", "time"}
    /\ \A o \in db.objects : ObjectOf(o) = o
    /\ \A o, p \in db.objects : o.path = p.path => o = p
    /\ \A f \in db.handed : ObjectOf(f) \in db.objects
    /\ \A f, g \in db.handed : f.path = g.path => f = g
    /\ \A link \in db.readable : ObjectOf(link) \in db.objects

\* The object of this file is stored, and no client knows of a file there.
Pending(file) == ObjectOf(file) \in db.objects /\ \A f \in db.handed : f.path # file.path

FilesInv ==
    /\ Slots
    /\ TablesKept
    /\ \A w \in Workers : todo[w] \in FilesTodo
    /\ \A w \in Workers : Uploaded(w) => Pending(arg[w])
    /\ \A v, w \in Workers : Uploaded(v) /\ Uploaded(w) /\ v # w => arg[v].path # arg[w].path

\* The statements that are left after the first, of each list.
LEMMA FilesRoute ==
  ASSUME NEW r \in FilesTodo, r # <<>>
  PROVE  /\ Tail(r) \in FilesTodo
         /\ Head(r) = "upload" => Tail(r) = <<"handOver">>
         /\ Head(r) = "handOver" => r = <<"handOver">> /\ Tail(r) # <<"handOver">>
<1>1. CASE r = <<"upload", "handOver">>
  BY <1>1 DEF FilesTodo
<1>2. CASE r = <<"handOver">>
  BY <1>2 DEF FilesTodo
<1> QED
  BY <1>1, <1>2 DEF FilesTodo

\* A step that moves one request, leaves what is pending of the others, and
\* stores for the request, if it is pending then, where no other is.
LEMMA FilesStep ==
  ASSUME FilesInv, NEW w \in Workers, NEW steps \in FilesTodo, NEW locals, Moves(w, steps, locals),
         TablesKept',
         \A v \in Workers \ {w} : Uploaded(v) =>
             ObjectOf(arg[v]) \in db'.objects /\ \A f \in db'.handed : f.path # arg[v].path,
         steps = <<"handOver">> =>
             /\ ObjectOf(locals) \in db'.objects /\ \A f \in db'.handed : f.path # locals.path
             /\ \A v \in Workers \ {w} : Uploaded(v) => arg[v].path # locals.path
  PROVE  FilesInv'
<1>1. Slots' /\ \A v \in Workers : todo'[v] \in FilesTodo
  BY DEF Moves, FilesInv
<1>2. ASSUME NEW v \in Workers \ {w}
      PROVE  todo'[v] = todo[v] /\ arg'[v] = arg[v]
  BY DEF Moves
<1>3. todo'[w] = steps /\ (steps = <<"handOver">> => arg'[w] = locals)
  BY DEF Moves
<1>4. ASSUME NEW v \in Workers, Uploaded(v)'
      PROVE  Pending(arg[v])'
  <2>1. CASE v = w
    BY <1>3, <1>4, <2>1 DEF Uploaded, Pending, ObjectOf
  <2>2. CASE v # w
    BY <1>2, <1>4, <2>2 DEF Uploaded, Pending, ObjectOf
  <2> QED
    BY <2>1, <2>2
<1>5. ASSUME NEW v \in Workers, NEW u \in Workers, Uploaded(v)', Uploaded(u)', v # u
      PROVE  (arg[v].path # arg[u].path)'
  <2>1. CASE v = w
    BY <1>2, <1>3, <1>5, <2>1 DEF Uploaded
  <2>2. CASE u = w
    BY <1>2, <1>3, <1>5, <2>2 DEF Uploaded
  <2>3. CASE v # w /\ u # w
    BY <1>2, <1>5, <2>3 DEF Uploaded, FilesInv
  <2> QED
    BY <2>1, <2>2, <2>3
<1> QED
  BY <1>1, <1>4, <1>5 DEF FilesInv

\* So does a step that moves none.
LEMMA FilesRests ==
  ASSUME FilesInv, Rests, TablesKept', db.objects \subseteq db'.objects,
         \A f \in db'.handed \ db.handed : \A w \in Workers : Uploaded(w) => arg[w].path # f.path
  PROVE  FilesInv'
<1>1. Slots' /\ \A v \in Workers : todo'[v] \in FilesTodo
  BY DEF Rests, FilesInv, Slots
<1>2. ASSUME NEW v \in Workers, Uploaded(v)'
      PROVE  Pending(arg[v])'
  BY <1>2 DEF Rests, FilesInv, Uploaded, Pending, ObjectOf
<1>3. ASSUME NEW v \in Workers, NEW u \in Workers, Uploaded(v)', Uploaded(u)', v # u
      PROVE  (arg[v].path # arg[u].path)'
  BY <1>3 DEF Rests, FilesInv, Uploaded
<1> QED
  BY <1>1, <1>2, <1>3 DEF FilesInv

\* An object is stored where there is none, unknown to its client
LEMMA ObjectStored ==
  ASSUME TablesKept, NEW path, NEW body, ~stored(path),
         db' = [db EXCEPT !.objects = @ \cup {[path |-> path, body |-> body]}]
  PROVE  TablesKept' /\ db'.objects = db.objects \cup {[path |-> path, body |-> body]} /\ db'.handed = db.handed
<1>1. PICK n : n = [path |-> path, body |-> body]
  OBVIOUS
<1>2. n.path = path /\ ObjectOf(n) = n /\ \A o \in db.objects : o.path # path
  BY <1>1 DEF stored, ObjectOf
<1>3. /\ DOMAIN db' = DOMAIN db /\ db'.objects = db.objects \cup {n}
      /\ db'.handed = db.handed /\ db'.readable = db.readable
  BY <1>1 DEF TablesKept
<1>4. TablesKept'
  BY <1>2, <1>3 DEF TablesKept, ObjectOf
<1> QED
  BY <1>1, <1>3, <1>4

\* or known.
LEMMA FilePut ==
  ASSUME TablesKept, NEW path, NEW body, NEW f, ~stored(path), ObjectOf(f) = [path |-> path, body |-> body],
         f.path = path,
         db' = [db EXCEPT !.objects = @ \cup {[path |-> path, body |-> body]}, !.handed = @ \cup {f}]
  PROVE  TablesKept' /\ db.objects \subseteq db'.objects /\ db'.handed = db.handed \cup {f}
<1>1. PICK n : n = [path |-> path, body |-> body]
  OBVIOUS
<1>2. n.path = path /\ ObjectOf(n) = n /\ \A o \in db.objects : o.path # path
  BY <1>1 DEF stored, ObjectOf
<1>3. /\ DOMAIN db' = DOMAIN db /\ db'.objects = db.objects \cup {n}
      /\ db'.handed = db.handed \cup {f} /\ db'.readable = db.readable
  BY <1>1 DEF TablesKept
<1>4. \A g \in db.handed : g.path # path
  BY <1>2 DEF TablesKept, ObjectOf
<1>5. \A g \in db'.handed : ObjectOf(g) \in db'.objects
  BY <1>1, <1>3 DEF TablesKept
<1>6. \A g, h \in db'.handed : g.path = h.path => g = h
  BY <1>3, <1>4 DEF TablesKept
<1>7. TablesKept'
  BY <1>2, <1>3, <1>5, <1>6 DEF TablesKept, ObjectOf
<1> QED
  BY <1>3, <1>7

\* The requests.
LEMMA FilesRequests ==
  ASSUME FilesInv, NEW w \in Workers, uploadBase64(w) \/ StoreObject(w) \/ HandOver(w) \/ Fail(w)
  PROVE  FilesInv' /\ Kept
<1>0. /\ Slots /\ TablesKept /\ todo[w] \in FilesTodo
      /\ \A v \in Workers : Uploaded(v) => Pending(arg[v])
      /\ <<>> \in FilesTodo /\ <<>> # <<"handOver">> /\ <<"upload", "handOver">> # <<"handOver">>
  BY DEF FilesInv, FilesTodo
<1>1. CASE uploadBase64(w)
  <2>1. PICK locals : Take("files", w, <<"upload", "handOver">>, locals) /\ db' = db
    BY <1>1 DEF uploadBase64
  <2>2. TablesKept' /\ <<"upload", "handOver">> \in FilesTodo
    BY <1>0, <2>1 DEF TablesKept, FilesTodo
  <2> QED
    BY <1>0, <2>1, <2>2, TakeMoves, FilesStep DEF Pending
<1>2. CASE StoreObject(w)
  <2>1. /\ Tail(todo[w]) = <<"handOver">> /\ <<"handOver">> \in FilesTodo
        /\ Moves(w, Tail(todo[w]), arg[w]) /\ Kept
    BY <1>0, <1>2, FilesRoute, ProceedMoves DEF StoreObject, At, FilesTodo
  <2>2. ~stored(arg[w].path)
        /\ db' = [db EXCEPT !.objects = @ \cup {[path |-> arg[w].path, body |-> arg[w].body]}]
    BY <1>2 DEF StoreObject
  <2>3. /\ TablesKept' /\ db'.handed = db.handed
        /\ db'.objects = db.objects \cup {[path |-> arg[w].path, body |-> arg[w].body]}
    BY <1>0, <2>2, ObjectStored
  <2>4. ASSUME NEW f, ObjectOf(f) \in db.objects
        PROVE  f.path # arg[w].path
    BY <2>2, <2>4 DEF stored, ObjectOf
  <2>5. \A f \in db'.handed : f.path # arg[w].path
    BY <1>0, <2>3, <2>4 DEF TablesKept
  <2>6. \A v \in Workers \ {w} : Uploaded(v) => arg[v].path # arg[w].path
    BY <1>0, <2>4 DEF Pending
  <2>7. ObjectOf(arg[w]) \in db'.objects
    BY <2>3 DEF ObjectOf
  <2>8. \A v \in Workers \ {w} : Uploaded(v) =>
          ObjectOf(arg[v]) \in db'.objects /\ \A f \in db'.handed : f.path # arg[v].path
    BY <1>0, <2>3 DEF Pending
  <2> QED
    BY <2>1, <2>3, <2>5, <2>6, <2>7, <2>8, FilesStep
<1>3. CASE HandOver(w)
  <2>1. /\ todo[w] = <<"handOver">> /\ Tail(todo[w]) \in FilesTodo /\ Tail(todo[w]) # <<"handOver">>
        /\ Moves(w, Tail(todo[w]), arg[w]) /\ Kept
    BY <1>0, <1>3, FilesRoute, ProceedMoves DEF HandOver, At
  <2>2. PICK a : a = arg[w]
    OBVIOUS
  <2>3. db' = [db EXCEPT !.handed = @ \cup {a}]
    BY <1>3, <2>2 DEF HandOver
  <2>4. /\ DOMAIN db' = DOMAIN db /\ db'.handed = db.handed \cup {a}
        /\ db'.objects = db.objects /\ db'.readable = db.readable
    BY <1>0, <2>3 DEF TablesKept
  <2>5. ObjectOf(a) \in db.objects /\ \A f \in db.handed : f.path # a.path
    BY <1>0, <2>1, <2>2 DEF Pending, Uploaded
  <2>6. TablesKept'
    BY <1>0, <2>4, <2>5 DEF TablesKept, ObjectOf
  <2>7. \A v \in Workers \ {w} : Uploaded(v) =>
          ObjectOf(arg[v]) \in db'.objects /\ \A f \in db'.handed : f.path # arg[v].path
    BY <1>0, <2>1, <2>2, <2>4 DEF Pending, Uploaded, FilesInv
  <2> QED
    BY <2>1, <2>6, <2>7, FilesStep
<1>4. CASE Fail(w)
  <2>1. Moves(w, <<>>, None) /\ Kept /\ db' = db
    BY <1>0, <1>4, FailMoves
  <2>2. TablesKept'
    BY <1>0, <2>1 DEF TablesKept
  <2> QED
    BY <1>0, <2>1, <2>2, FilesStep DEF Pending
<1> QED
  BY <1>1, <1>2, <1>3, <1>4

\* Signed URLs, what clients store at them, and time.
LEMMA FilesSides ==
  ASSUME FilesInv, PutObject \/ Tick \/ \E w \in Workers : createSignedUploadUrl(w) \/ createSignedDownloadUrl(w)
  PROVE  FilesInv' /\ Kept
<1>0. TablesKept
  BY DEF FilesInv
<1>1. Rests /\ Kept
  BY DEF PutObject, Tick, FilesElsewhere, createSignedUploadUrl, createSignedDownloadUrl, Serve, Rests, Kept
<1>2. CASE PutObject
  <2>1. PICK url \in db.urls, body \in Bodies :
          /\ ~stored(url.path)
          /\ \/ db' = [db EXCEPT !.objects = @ \cup {[path |-> url.path, body |-> body]}]
             \/ db' = [[db EXCEPT !.objects = @ \cup {[path |-> url.path, body |-> body]}]
                          EXCEPT !.handed = @ \cup {[path |-> url.path, owner |-> url.owner, body |-> body]}]
    BY <1>2 DEF PutObject, FilesElsewhere
  <2>2. CASE db' = [db EXCEPT !.objects = @ \cup {[path |-> url.path, body |-> body]}]
    <3>1. TablesKept' /\ db.objects \subseteq db'.objects /\ db'.handed = db.handed
      BY <1>0, <2>1, <2>2, ObjectStored
    <3> QED
      BY <1>1, <3>1, FilesRests
  <2>3. CASE db' = [[db EXCEPT !.objects = @ \cup {[path |-> url.path, body |-> body]}]
                       EXCEPT !.handed = @ \cup {[path |-> url.path, owner |-> url.owner, body |-> body]}]
    <3>1. PICK f : f = [path |-> url.path, owner |-> url.owner, body |-> body]
      OBVIOUS
    <3>2. f.path = url.path /\ ObjectOf(f) = [path |-> url.path, body |-> body]
      BY <3>1 DEF ObjectOf
    <3>3. db' = [db EXCEPT !.objects = @ \cup {[path |-> url.path, body |-> body]}, !.handed = @ \cup {f}]
      BY <1>0, <2>3, <3>1 DEF TablesKept
    <3>4. TablesKept' /\ db.objects \subseteq db'.objects /\ db'.handed = db.handed \cup {f}
      BY <1>0, <2>1, <3>2, <3>3, FilePut
    <3>5. \A w \in Workers : Uploaded(w) => arg[w].path # f.path
      BY <2>1, <3>2 DEF FilesInv, Pending, ObjectOf, stored
    <3> QED
      BY <1>1, <3>4, <3>5, FilesRests
  <2> QED
    BY <2>1, <2>2, <2>3
<1>3. CASE Tick
  <2>1. db' = [db EXCEPT !.time = @ + 1]
    BY <1>3 DEF Tick, FilesElsewhere
  <2>2. DOMAIN db' = DOMAIN db /\ db'.objects = db.objects /\ db'.handed = db.handed /\ db'.readable = db.readable
    BY <1>0, <2>1 DEF TablesKept
  <2>3. TablesKept'
    BY <1>0, <2>2 DEF TablesKept
  <2> QED
    BY <1>1, <2>2, <2>3, FilesRests
<1>4. CASE \E w \in Workers : createSignedUploadUrl(w)
  <2>1. \E urls : db' = [db EXCEPT !.urls = urls]
    BY <1>4 DEF createSignedUploadUrl
  <2>2. DOMAIN db' = DOMAIN db /\ db'.objects = db.objects /\ db'.handed = db.handed /\ db'.readable = db.readable
    BY <1>0, <2>1 DEF TablesKept
  <2>3. TablesKept'
    BY <1>0, <2>2 DEF TablesKept
  <2> QED
    BY <1>1, <2>2, <2>3, FilesRests
<1>5. CASE \E w \in Workers : createSignedDownloadUrl(w)
  <2>1. PICK object \in db.objects, requester \in {TenantOf[o] : o \in FileOwners} :
          db' = [db EXCEPT !.readable = @ \cup
                   {[path |-> object.path, body |-> object.body, requester |-> requester]}]
    BY <1>5 DEF createSignedDownloadUrl
  <2>2. PICK n : n = [path |-> object.path, body |-> object.body, requester |-> requester]
    OBVIOUS
  <2>3. /\ DOMAIN db' = DOMAIN db /\ db'.objects = db.objects
        /\ db'.handed = db.handed /\ db'.readable = db.readable \cup {n}
    BY <1>0, <2>1, <2>2 DEF TablesKept
  <2>4. ObjectOf(n) = ObjectOf(object) /\ ObjectOf(object) = object
    BY <1>0, <2>2 DEF ObjectOf, TablesKept
  <2>5. TablesKept'
    BY <1>0, <2>3, <2>4 DEF TablesKept
  <2> QED
    BY <1>1, <2>3, <2>5, FilesRests
<1> QED
  BY <1>2, <1>3, <1>4, <1>5

\* Every step of files.
LEMMA FilesNextKeeps ==
  ASSUME FilesInv, FilesNext
  PROVE  FilesInv' /\ Kept
BY FilesRequests, FilesSides DEF FilesNext

\* It starts with nothing stored.
LEMMA FilesStarts ==
  ASSUME FilesInit
  PROVE  FilesInv
<1>1. todo = [w \in Workers |-> <<>>] /\ arg = [w \in Workers |-> None] /\ db = FileTables
  BY DEF FilesInit, Start
<1>2. <<>> \in FilesTodo /\ <<>> # <<"handOver">>
  BY DEF FilesTodo
<1>3. TablesKept
  BY <1>1 DEF FileTables, TablesKept
<1> QED
  BY <1>1, <1>2, <1>3 DEF FilesInv, Slots, Uploaded

\* What clients know of is kept.
LEMMA FilesHold ==
  ASSUME service = "files" => FilesInv
  PROVE  FileKept
BY DEF FilesInv, TablesKept, ObjectOf, FileKept

-----------------------------------------------------------------------------
(* Reports *)

ReportsTodo == {<<>>, <<"showGrades">>,
                <<"readKind", "showProfile">>, <<"showProfile">>,
                <<"countStudents", "showStats">>, <<"showStats">>,
                <<"readEnrolled", "showProgress">>, <<"showProgress">>}

\* What a profile has found of the rows that there were: those of the queries
\* that have answered, but for what failed ones missed.
ProfileOK(r) ==
    /\ DOMAIN r = {"before", "unread", "found", "missed"}
    /\ r.unread \subseteq Kinds
    /\ r.before \subseteq r.found \cup r.missed \cup r.unread
    /\ r.found \subseteq db.kinds /\ r.before \subseteq db.kinds

CountOK(r) ==
    /\ DOMAIN r = {"before", "count"}
    /\ r.before \in Nat /\ r.before <= db.students

ProgressOK(r) ==
    /\ DOMAIN r = {"required", "completed"}
    /\ r.required \in Nat /\ r.completed \in Nat

LocalsOK(r, steps) ==
    /\ Head(steps) = "showGrades" => GradesAgree(r)
    /\ Head(steps) \in {"readKind", "showProfile"} => ProfileOK(r)
    /\ Head(steps) = "showProfile" => r.unread = {}
    /\ Head(steps) \in {"countStudents", "showStats"} => CountOK(r)
    /\ Head(steps) = "showStats" => r.count \in {0} \cup (r.before .. db.students)
    /\ Head(steps) \in {"readEnrolled", "showProgress"} => ProgressOK(r)

\* What the tables hold.
StudentsTyped ==
    /\ DOMAIN db = {"rows", "kinds", "students", "enrolled"}
    /\ RowsType(db.rows)
    /\ db.kinds \subseteq Kinds /\ db.students \in Nat /\ db.enrolled \subseteq Courses

ReportsInv ==
    /\ Slots
    /\ StudentsTyped
    /\ \A w \in Workers : todo[w] \in ReportsTodo /\ (todo[w] # <<>> => LocalsOK(arg[w], todo[w]))

\* The statements that are left after the first, of each list.
LEMMA ReportsRoute ==
  ASSUME NEW r \in ReportsTodo, r # <<>>
  PROVE  /\ Tail(r) \in ReportsTodo
         /\ Head(r) \in {"showGrades", "showProfile", "showStats", "showProgress"} => Tail(r) = <<>>
         /\ Head(r) = "readKind" => Tail(r) = <<"showProfile">>
         /\ Head(r) = "countStudents" => Tail(r) = <<"showStats">>
         /\ Head(r) = "readEnrolled" => Tail(r) = <<"showProgress">>
<1>1. ASSUME NEW x \in {"showGrades", "showProfile", "showStats", "showProgress"}, r = <<x>>
      PROVE  Head(r) = x /\ Tail(r) = <<>> /\ <<>> \in ReportsTodo
  BY <1>1 DEF ReportsTodo
<1>2. CASE r = <<"readKind", "showProfile">>
  BY <1>2 DEF ReportsTodo
<1>3. CASE r = <<"countStudents", "showStats">>
  BY <1>3 DEF ReportsTodo
<1>4. CASE r = <<"readEnrolled", "showProgress">>
  BY <1>4 DEF ReportsTodo
<1> QED
  BY <1>1, <1>2, <1>3, <1>4 DEF ReportsTodo

\* Accounts are made and never removed, so that what a request knows stays.
LEMMA LocalsKept ==
  ASSUME NEW r, NEW steps \in ReportsTodo, steps # <<>>, LocalsOK(r, steps), StudentsTyped, StudentsTyped',
         db.kinds \subseteq db'.kinds, db.students <= db'.students, configured' = configured
  PROVE  LocalsOK(r, steps)'
<1>1. GradesAgree(r) <=> GradesAgree(r)'
  BY DEF GradesAgree, shows, usePostgres, graded, rowsOf, Failing
<1>2. ProfileOK(r) => ProfileOK(r)'
  BY DEF ProfileOK
<1>3. CountOK(r) => CountOK(r)'
  BY DEF CountOK, StudentsTyped
<1>4. ProgressOK(r) <=> ProgressOK(r)'
  BY DEF ProgressOK
<1>5. Head(steps) = "showStats" /\ CountOK(r) /\ r.count \in {0} \cup (r.before .. db.students)
        => r.count \in {0} \cup (r.before .. db'.students)
  BY DEF CountOK, StudentsTyped
<1> QED
  BY <1>1, <1>2, <1>3, <1>4, <1>5, ZenonT(40) DEF LocalsOK

\* A step that moves one request and lets the tables grow.
LEMMA ReportsStep ==
  ASSUME ReportsInv, NEW w \in Workers, NEW steps \in ReportsTodo, NEW locals, Moves(w, steps, locals), Kept,
         StudentsTyped', db.kinds \subseteq db'.kinds, db.students <= db'.students,
         steps # <<>> => LocalsOK(locals, steps)
  PROVE  ReportsInv'
<1>1. Slots' /\ \A v \in Workers : todo'[v] \in ReportsTodo
  BY DEF Moves, ReportsInv
<1>2. ASSUME NEW v \in Workers, todo'[v] # <<>>
      PROVE  LocalsOK(arg[v], todo[v])'
  <2>1. PICK r, s : r = arg'[v] /\ s = todo'[v]
    OBVIOUS
  <2>2. s \in ReportsTodo /\ s # <<>>
    BY <1>1, <1>2, <2>1
  <2>3. LocalsOK(r, s)
    <3>1. CASE v = w
      BY <1>2, <2>1, <3>1 DEF Moves
    <3>2. CASE v # w
      BY <1>2, <2>1, <3>2 DEF Moves, ReportsInv
    <3> QED
      BY <3>1, <3>2
  <2>4. LocalsOK(r, s)'
    BY <2>2, <2>3, LocalsKept DEF ReportsInv, Kept
  <2> QED
    BY <2>1, <2>4
<1> QED
  BY <1>1, <1>2 DEF ReportsInv

\* So does one that moves none.
LEMMA ReportsRests ==
  ASSUME ReportsInv, Rests, Kept, StudentsTyped', db.kinds \subseteq db'.kinds, db.students <= db'.students
  PROVE  ReportsInv'
<1>1. Slots' /\ \A v \in Workers : todo'[v] \in ReportsTodo
  BY DEF Rests, ReportsInv, Slots
<1>2. ASSUME NEW v \in Workers, todo'[v] # <<>>
      PROVE  LocalsOK(arg[v], todo[v])'
  <2>1. PICK r, s : r = arg'[v] /\ s = todo'[v]
    OBVIOUS
  <2>2. s \in ReportsTodo /\ s # <<>> /\ LocalsOK(r, s)
    BY <1>1, <1>2, <2>1 DEF Rests, ReportsInv
  <2>3. LocalsOK(r, s)'
    BY <2>2, LocalsKept DEF ReportsInv, Kept
  <2> QED
    BY <2>1, <2>3
<1> QED
  BY <1>1, <1>2 DEF ReportsInv

\* The tables stay typed when nothing is written.
LEMMA TypedStill ==
  ASSUME ReportsInv, db' = db
  PROVE  StudentsTyped' /\ db.kinds \subseteq db'.kinds /\ db.students <= db'.students
BY DEF ReportsInv, StudentsTyped, RowsType

\* What professors, registrars and students write meanwhile.
LEMMA ReportsSides ==
  ASSUME ReportsInv, RecordRow \/ AddKind \/ AddStudent \/ Enroll
  PROVE  ReportsInv' /\ Kept
<1>0. StudentsTyped
  BY DEF ReportsInv
<1>1. Rests /\ Kept
  BY DEF RecordRow, AddKind, AddStudent, Enroll, ReportsElsewhere, Rests, Kept
<1>2. CASE RecordRow
  <2>1. PICK c \in Courses, grade \in Grades \cup {None}, remarks \in Remarks :
          db' = [db EXCEPT !.rows[c] = [grade |-> grade, remarks |-> remarks]]
    BY <1>2 DEF RecordRow, ReportsElsewhere
  <2>2. PICK row \in Rows : row = [grade |-> grade, remarks |-> remarks]
    BY DEF Rows
  <2>3. db' = [db EXCEPT !.rows[c] = row]
    BY <2>1, <2>2
  <2>4. /\ DOMAIN db' = DOMAIN db /\ db'.rows = [db.rows EXCEPT ![c] = row]
        /\ db'.kinds = db.kinds /\ db'.students = db.students /\ db'.enrolled = db.enrolled
    BY <1>0, <2>3 DEF StudentsTyped
  <2>5. RowsType(db'.rows)
    BY <1>0, <2>4 DEF StudentsTyped, RowsType
  <2>6. StudentsTyped'
    BY <1>0, <2>4, <2>5 DEF StudentsTyped, RowsType
  <2> QED
    BY <1>0, <1>1, <2>4, <2>6, ReportsRests DEF StudentsTyped
<1>3. CASE AddKind
  <2>1. PICK kind \in {"applicant", "student", "professor", "alumni"} : db' = [db EXCEPT !.kinds = @ \cup {kind}]
    BY <1>3 DEF AddKind, ReportsElsewhere
  <2>2. /\ DOMAIN db' = DOMAIN db /\ db'.kinds = db.kinds \cup {kind} /\ kind \in Kinds
        /\ db'.rows = db.rows /\ db'.students = db.students /\ db'.enrolled = db.enrolled
    BY <1>0, <2>1 DEF StudentsTyped, Kinds
  <2>3. StudentsTyped'
    BY <1>0, <2>2 DEF StudentsTyped, RowsType
  <2> QED
    BY <1>0, <1>1, <2>2, <2>3, ReportsRests DEF StudentsTyped
<1>4. CASE AddStudent
  <2>1. db' = [db EXCEPT !.students = @ + 1]
    BY <1>4 DEF AddStudent, ReportsElsewhere
  <2>2. /\ DOMAIN db' = DOMAIN db /\ db'.students = db.students + 1
        /\ db'.rows = db.rows /\ db'.kinds = db.kinds /\ db'.enrolled = db.enrolled
    BY <1>0, <2>1 DEF StudentsTyped
  <2>3. StudentsTyped'
    BY <1>0, <2>2 DEF StudentsTyped, RowsType
  <2> QED
    BY <1>0, <1>1, <2>2, <2>3, ReportsRests DEF StudentsTyped
<1>5. CASE Enroll
  <2>1. PICK c \in Courses : db' = [db EXCEPT !.enrolled = IF c \in @ THEN @ \ {c} ELSE @ \cup {c}]
    BY <1>5 DEF Enroll, ReportsElsewhere
  <2>2. /\ DOMAIN db' = DOMAIN db /\ db'.enrolled = IF c \in db.enrolled THEN db.enrolled \ {c} ELSE db.enrolled \cup {c}
        /\ db'.rows = db.rows /\ db'.kinds = db.kinds /\ db'.students = db.students
    BY <1>0, <2>1 DEF StudentsTyped
  <2>3. StudentsTyped'
    BY <1>0, <2>2 DEF StudentsTyped, RowsType
  <2> QED
    BY <1>0, <1>1, <2>2, <2>3, ReportsRests DEF StudentsTyped
<1> QED
  BY <1>2, <1>3, <1>4, <1>5

\* A grade report, a profile, a count and a progress are asked for.
LEMMA ReportRequests ==
  ASSUME ReportsInv, NEW w \in Workers, getSummary(w) \/ getProfile(w) \/ getStats(w) \/ getCurriculumProgress(w)
  PROVE  ReportsInv' /\ Kept
<1>0. Slots /\ StudentsTyped
  BY DEF ReportsInv
<1>1. ASSUME NEW s, NEW steps \in ReportsTodo, NEW locals, Take(s, w, steps, locals), db' = db, LocalsOK(locals, steps)
      PROVE  ReportsInv' /\ Kept
  BY <1>0, <1>1, TakeMoves, TypedStill, ReportsStep
<1>2. CASE getSummary(w)
  <2>0. PICK summed \in rowsRead, termed \in rowsRead, listed \in rowsListed :
          Take("reports", w, <<"showGrades">>,
              [rows |-> db.rows,
               summary |-> summarizeGrades(summed, rowsOf(summed)),
               terms |-> [t \in {Term[c] : c \in Courses} \ {None} |->
                             summarizeGrades(termed, termRows(termed, t))],
               deficient |-> deficiencies(listed)])
    BY <1>2 DEF getSummary
  <2>1. PICK r : /\ r = [rows |-> db.rows,
                         summary |-> summarizeGrades(summed, rowsOf(summed)),
                         terms |-> [t \in {Term[c] : c \in Courses} \ {None} |->
                                       summarizeGrades(termed, termRows(termed, t))],
                         deficient |-> deficiencies(listed)]
                 /\ Take("reports", w, <<"showGrades">>, r) /\ db' = db
    BY <1>2, <2>0 DEF getSummary
  <2>2. /\ r.rows = db.rows /\ r.summary = summarizeGrades(summed, rowsOf(summed))
        /\ r.terms = [t \in {Term[c] : c \in Courses} \ {None} |-> summarizeGrades(termed, termRows(termed, t))]
        /\ r.deficient = deficiencies(listed)
    BY <2>1
  <2>3. GradesAgree(r)
    <3>1. PICK rows : rows = db.rows
      OBVIOUS
    <3>2. RowsType(rows)
      BY <1>0, <3>1 DEF StudentsTyped
    <3>3. /\ DOMAIN r.terms = {Term[c] : c \in Courses} \ {None}
          /\ \A t \in DOMAIN r.terms : r.terms[t] = summarizeGrades(termed, termRows(termed, t))
      BY <2>2
    <3>4. /\ summed \in {rows, NoRows} /\ termed \in {rows, NoRows} /\ listed \in {rows, NoRows}
          /\ usePostgres("reports") => summed = rows /\ termed = rows
      BY <3>1 DEF rowsRead, rowsListed
    <3> QED
      BY <2>2, <3>1, <3>2, <3>3, <3>4, ReportAgrees
  <2>4. <<"showGrades">> \in ReportsTodo /\ LocalsOK(r, <<"showGrades">>)
    BY <2>3 DEF ReportsTodo, LocalsOK
  <2> QED
    BY <1>1, <2>1, <2>4
<1>3. CASE getProfile(w)
  <2>1. PICK r : r = [before |-> db.kinds, unread |-> Kinds, found |-> {}, missed |-> {}]
                 /\ Take("students", w, <<"readKind", "showProfile">>, r) /\ db' = db
    BY <1>3 DEF getProfile
  <2>2. /\ DOMAIN r = {"before", "unread", "found", "missed"}
        /\ r.before = db.kinds /\ r.unread = Kinds /\ r.found = {} /\ r.missed = {}
    BY <2>1
  <2>3. ProfileOK(r)
    BY <1>0, <2>2 DEF ProfileOK, StudentsTyped
  <2>4. <<"readKind", "showProfile">> \in ReportsTodo /\ LocalsOK(r, <<"readKind", "showProfile">>)
    BY <2>3 DEF ReportsTodo, LocalsOK
  <2> QED
    BY <1>1, <2>1, <2>4
<1>4. CASE getStats(w)
  <2>1. PICK r : r = [before |-> db.students, count |-> 0]
                 /\ Take("students", w, <<"countStudents", "showStats">>, r) /\ db' = db
    BY <1>4 DEF getStats
  <2>2. DOMAIN r = {"before", "count"} /\ r.before = db.students
    BY <2>1
  <2>3. CountOK(r)
    BY <1>0, <2>2 DEF CountOK, StudentsTyped
  <2>4. <<"countStudents", "showStats">> \in ReportsTodo /\ LocalsOK(r, <<"countStudents", "showStats">>)
    BY <2>3 DEF ReportsTodo, LocalsOK
  <2> QED
    BY <1>1, <2>1, <2>4
<1>5. CASE getCurriculumProgress(w)
  <2>1. PICK program \in BOOLEAN :
          Take("students", w, <<"readEnrolled", "showProgress">>,
               [required |-> unitsOf(IF program THEN Curriculum ELSE {}), completed |-> 0]) /\ db' = db
    BY <1>5 DEF getCurriculumProgress
  <2>2. PICK r : r = [required |-> unitsOf(IF program THEN Curriculum ELSE {}), completed |-> 0]
    OBVIOUS
  <2>3. (IF program THEN Curriculum ELSE {}) \in SUBSET Courses
    BY GradesType
  <2>4. DOMAIN r = {"required", "completed"} /\ r.required \in Nat /\ r.completed = 0
    BY <2>2, <2>3, UnitsAddUp
  <2>5. ProgressOK(r)
    BY <2>4 DEF ProgressOK
  <2>6. <<"readEnrolled", "showProgress">> \in ReportsTodo /\ LocalsOK(r, <<"readEnrolled", "showProgress">>)
    BY <2>5 DEF ReportsTodo, LocalsOK
  <2> QED
    BY <1>1, <2>1, <2>2, <2>6
<1> QED
  BY <1>2, <1>3, <1>4, <1>5

\* Their queries answer, and what they found is shown.
LEMMA ReportAnswers ==
  ASSUME ReportsInv, NEW w \in Workers,
         ReadKind(w) \/ CountStudents(w) \/ ReadEnrolled(w) \/ ShowGrades(w) \/ ShowToStudent(w) \/ Fail(w)
  PROVE  ReportsInv' /\ Kept
<1>0. /\ Slots /\ StudentsTyped /\ todo[w] \in ReportsTodo /\ <<>> \in ReportsTodo
      /\ todo[w] # <<>> => LocalsOK(arg[w], todo[w]) /\ Tail(todo[w]) \in ReportsTodo
  BY ReportsRoute DEF ReportsInv, ReportsTodo
<1>1. ASSUME NEW steps \in ReportsTodo, NEW locals, Moves(w, steps, locals), Kept, db' = db,
             steps # <<>> => LocalsOK(locals, steps)
      PROVE  ReportsInv' /\ Kept
  BY <1>1, TypedStill, ReportsStep
<1>2. PICK r : r = arg[w]
  OBVIOUS
<1>3. CASE ReadKind(w)
  <2>1. PICK kind \in Kinds, result \in {"found", "missed"} :
          /\ At(w, "readKind") /\ kind \in r.unread
          /\ GoOn(w, IF r.unread = {kind} THEN Tail(todo[w]) ELSE todo[w],
                 [r EXCEPT !.unread = @ \ {kind}, ![result] = @ \cup ({kind} \cap db.kinds)])
          /\ db' = db
    BY <1>2, <1>3 DEF ReadKind
  <2>2. Head(todo[w]) = "readKind" /\ todo[w] # <<>> /\ Tail(todo[w]) = <<"showProfile">>
    BY <1>0, <2>1, ReportsRoute DEF At
  <2>3. ProfileOK(r)
    BY <1>0, <1>2, <2>2 DEF LocalsOK
  <2>4. PICK q : q = [r EXCEPT !.unread = @ \ {kind}, ![result] = @ \cup ({kind} \cap db.kinds)]
    OBVIOUS
  <2>5. /\ DOMAIN q = DOMAIN r /\ q.before = r.before /\ q.unread = r.unread \ {kind}
        /\ r.found \subseteq q.found /\ q.found \subseteq db.kinds /\ r.missed \subseteq q.missed
        /\ {kind} \cap db.kinds \subseteq q.found \cup q.missed
    <3>1. CASE result = "found"
      BY <2>3, <2>4, <3>1 DEF ProfileOK
    <3>2. CASE result = "missed"
      BY <2>3, <2>4, <3>2 DEF ProfileOK
    <3> QED
      BY <2>1, <3>1, <3>2
  <2>6. ProfileOK(q)
    BY <2>3, <2>5 DEF ProfileOK
  <2>7. PICK steps : steps = IF r.unread = {kind} THEN Tail(todo[w]) ELSE todo[w]
    OBVIOUS
  <2>8. steps \in ReportsTodo /\ Moves(w, steps, q) /\ Kept
    BY <1>0, <2>1, <2>2, <2>4, <2>7, GoOnMoves
  <2>9. LocalsOK(q, steps)
    <3>1. CASE r.unread = {kind}
      <4>1. steps = <<"showProfile">> /\ q.unread = {}
        BY <2>2, <2>5, <2>7, <3>1
      <4> QED
        BY <2>6, <4>1 DEF LocalsOK
    <3>2. CASE r.unread # {kind}
      <4>1. Head(steps) = "readKind"
        BY <2>2, <2>7, <3>2
      <4> QED
        BY <2>6, <4>1 DEF LocalsOK
    <3> QED
      BY <3>1, <3>2
  <2> QED
    BY <1>1, <2>1, <2>8, <2>9
<1>4. CASE CountStudents(w)
  <2>1. PICK count \in {db.students, 0} :
          At(w, "countStudents") /\ ProceedWith(w, [r EXCEPT !.count = count]) /\ db' = db
    BY <1>2, <1>4 DEF CountStudents
  <2>2. Head(todo[w]) = "countStudents" /\ todo[w] # <<>> /\ Tail(todo[w]) = <<"showStats">>
    BY <1>0, <2>1, ReportsRoute DEF At
  <2>3. CountOK(r)
    BY <1>0, <1>2, <2>2 DEF LocalsOK
  <2>4. PICK q : q = [r EXCEPT !.count = count]
    OBVIOUS
  <2>5. DOMAIN q = DOMAIN r /\ q.before = r.before /\ q.count \in {db.students, 0}
    BY <2>3, <2>4 DEF CountOK
  <2>6. CountOK(q) /\ q.count \in {0} \cup (q.before .. db.students)
    BY <1>0, <2>3, <2>5 DEF CountOK, StudentsTyped
  <2>7. LocalsOK(q, <<"showStats">>)
    BY <2>6 DEF LocalsOK
  <2>8. Moves(w, <<"showStats">>, q) /\ Kept
    BY <1>0, <2>1, <2>2, <2>4, ProceedWithMoves
  <2> QED
    BY <1>0, <1>1, <2>1, <2>2, <2>7, <2>8
<1>5. CASE ReadEnrolled(w)
  <2>1. At(w, "readEnrolled") /\ ProceedWith(w, [r EXCEPT !.completed = unitsOf(db.enrolled)]) /\ db' = db
    BY <1>2, <1>5 DEF ReadEnrolled
  <2>2. Head(todo[w]) = "readEnrolled" /\ todo[w] # <<>> /\ Tail(todo[w]) = <<"showProgress">>
    BY <1>0, <2>1, ReportsRoute DEF At
  <2>3. ProgressOK(r)
    BY <1>0, <1>2, <2>2 DEF LocalsOK
  <2>4. PICK q : q = [r EXCEPT !.completed = unitsOf(db.enrolled)]
    OBVIOUS
  <2>5. DOMAIN q = DOMAIN r /\ q.required = r.required /\ q.completed = unitsOf(db.enrolled)
    BY <2>3, <2>4 DEF ProgressOK
  <2>6. unitsOf(db.enrolled) \in Nat
    BY <1>0, UnitsAddUp DEF StudentsTyped
  <2>7. ProgressOK(q)
    BY <2>3, <2>5, <2>6 DEF ProgressOK
  <2>8. LocalsOK(q, <<"showProgress">>)
    BY <2>7 DEF LocalsOK
  <2>9. Moves(w, <<"showProgress">>, q) /\ Kept
    BY <1>0, <2>1, <2>2, <2>4, ProceedWithMoves
  <2> QED
    BY <1>0, <1>1, <2>1, <2>2, <2>8, <2>9
<1>6. CASE ShowGrades(w) \/ ShowToStudent(w)
  <2>1. /\ At(w, "showGrades") \/ At(w, "showProfile") \/ At(w, "showStats") \/ At(w, "showProgress")
        /\ Proceed(w) /\ db' = db
    BY <1>6 DEF ShowGrades, ShowToStudent
  <2>2. Tail(todo[w]) = <<>>
    BY <1>0, <2>1, ReportsRoute DEF At
  <2>3. Moves(w, <<>>, arg[w]) /\ Kept
    BY <1>0, <2>1, <2>2, ProceedMoves
  <2> QED
    BY <1>0, <1>1, <2>1, <2>3
<1>7. CASE Fail(w)
  <2>1. Moves(w, <<>>, None) /\ Kept /\ db' = db
    BY <1>0, <1>7, FailMoves
  <2> QED
    BY <1>0, <1>1, <2>1
<1> QED
  BY <1>3, <1>4, <1>5, <1>6, <1>7

\* Every step of reports.
LEMMA ReportsNextKeeps ==
  ASSUME ReportsInv, ReportsNext
  PROVE  ReportsInv' /\ Kept
<1>1. CASE RecordRow \/ AddKind \/ AddStudent \/ Enroll
  BY <1>1, ReportsSides
<1>2. ASSUME NEW w \in Workers,
             getSummary(w) \/ getProfile(w) \/ getStats(w) \/ getCurriculumProgress(w)
      PROVE  ReportsInv' /\ Kept
  BY <1>2, ReportRequests
<1>3. ASSUME NEW w \in Workers, ReadKind(w) \/ CountStudents(w) \/ ReadEnrolled(w) \/ ShowGrades(w)
                                \/ ShowToStudent(w) \/ Fail(w)
      PROVE  ReportsInv' /\ Kept
  BY <1>3, ReportAnswers
<1> QED
  BY <1>1, <1>2, <1>3 DEF ReportsNext

\* It starts with no rows and no request.
LEMMA ReportsStarts ==
  ASSUME ReportsInit
  PROVE  ReportsInv
<1>1. todo = [w \in Workers |-> <<>>] /\ arg = [w \in Workers |-> None] /\ db = ReportTables
  BY DEF ReportsInit, Start
<1>2. StudentsTyped
  BY <1>1 DEF ReportTables, StudentsTyped, RowsType
<1>3. <<>> \in ReportsTodo
  BY DEF ReportsTodo
<1> QED
  BY <1>1, <1>2, <1>3 DEF ReportsInv, Slots

\* More rows make no lower kind of account.
LEMMA RankGrows ==
  ASSUME NEW K \in SUBSET Kinds, NEW L \in SUBSET Kinds, K \subseteq L
  PROVE  /\ Rank(accountType(K)) \in 0 .. 4
         /\ Rank(accountType(K)) <= Rank(accountType(L))
<1>1. ASSUME NEW k \in SUBSET Kinds
      PROVE  /\ "professor" \in k => Rank(accountType(k)) = 4
             /\ "professor" \notin k /\ "student" \in k => Rank(accountType(k)) = 3
             /\ k \cap {"professor", "student"} = {} /\ "alumni" \in k => Rank(accountType(k)) = 2
             /\ k = {"applicant"} => Rank(accountType(k)) = 1
             /\ k = {} => Rank(accountType(k)) = 0
  <2>1. None # "professor" /\ None # "student" /\ None # "alumni" /\ None # "applicant"
    BY NoneIsNoKind DEF Kinds
  <2>2. /\ Rank("professor") = 4 /\ Rank("student") = 3 /\ Rank("alumni") = 2
        /\ Rank("applicant") = 1 /\ Rank(None) = 0
    BY <2>1, Zenon DEF Rank
  <2>3. /\ "professor" \in k => accountType(k) = "professor"
        /\ "professor" \notin k /\ "student" \in k => accountType(k) = "student"
    BY ZenonT(40) DEF accountType
  <2>4. k \cap {"professor", "student"} = {} /\ "alumni" \in k => accountType(k) = "alumni"
    BY ZenonT(40) DEF accountType
  <2>5. (k = {"applicant"} => accountType(k) = "applicant") /\ (k = {} => accountType(k) = None)
    BY ZenonT(40) DEF accountType
  <2> QED
    BY <2>2, <2>3, <2>4, <2>5
<1>2. ASSUME NEW k \in SUBSET Kinds
      PROVE  \/ "professor" \in k
             \/ "professor" \notin k /\ "student" \in k
             \/ k \cap {"professor", "student"} = {} /\ "alumni" \in k
             \/ k = {"applicant"}
             \/ k = {}
  BY DEF Kinds
<1> QED
  BY <1>1, <1>2

\* What is shown is exact.
LEMMA ReportsHold ==
  ASSUME service \in {"reports", "students"} => ReportsInv
  PROVE  ReportExact
<1>1. ASSUME service = "reports", NEW w \in Workers, At(w, "showGrades")
      PROVE  GradesAgree(arg[w])
  BY <1>1 DEF ReportsInv, At, LocalsOK
<1>2. ASSUME service = "students", NEW w \in Workers, At(w, "showProfile")
      PROVE  Rank(accountType(arg[w].found)) \in
                 Rank(accountType(arg[w].before \ arg[w].missed)) .. Rank(accountType(db.kinds))
  <2>1. PICK r : r = arg[w]
    OBVIOUS
  <2>2. ProfileOK(r) /\ r.unread = {} /\ db.kinds \subseteq Kinds
    BY <1>2, <2>1 DEF ReportsInv, At, LocalsOK, StudentsTyped
  <2>3. PICK K : K = r.before \ r.missed
    OBVIOUS
  <2>4. K \subseteq r.found /\ r.found \subseteq db.kinds
    BY <2>2, <2>3 DEF ProfileOK
  <2>5. /\ Rank(accountType(r.found)) \in 0 .. 4 /\ Rank(accountType(K)) \in 0 .. 4
        /\ Rank(accountType(db.kinds)) \in 0 .. 4
        /\ Rank(accountType(K)) <= Rank(accountType(r.found))
        /\ Rank(accountType(r.found)) <= Rank(accountType(db.kinds))
    BY <2>2, <2>4, RankGrows
  <2> QED
    BY <2>1, <2>3, <2>5
<1>3. ASSUME service = "students", NEW w \in Workers, At(w, "showStats")
      PROVE  arg[w].count \in {0} \cup (arg[w].before .. db.students)
  BY <1>3 DEF ReportsInv, At, LocalsOK
<1>4. ASSUME service = "students", NEW w \in Workers, At(w, "showProgress")
      PROVE  LET r == arg[w] IN
               /\ r.required > 0 /\ completionPercent(r.required, r.completed) < 100 =>
                     remainingUnits(r.required, r.completed) > 0
               /\ remainingUnits(r.required, r.completed) <= r.required
  <2>1. ProgressOK(arg[w])
    BY <1>4 DEF ReportsInv, At, LocalsOK
  <2>2. PICK p \in Nat, c \in Nat : p = arg[w].required /\ c = arg[w].completed
    BY <2>1 DEF ProgressOK
  <2>3. ASSUME p > 0, completionPercent(p, c) < 100
        PROVE  c < p
    <3>1. 200 * c + p \in Nat /\ 2 * p \in Nat /\ 2 * p > 0
      BY <2>3
    <3>2. (200 * c + p) \div (2 * p) < 100
      BY <2>3 DEF completionPercent
    <3>3. (200 * c + p) \div (2 * p) \in Nat
          /\ (100 * (2 * p) <= 200 * c + p => 100 <= (200 * c + p) \div (2 * p))
      BY <3>1, QuotientBounds
    <3>4. ~(100 * (2 * p) <= 200 * c + p)
      BY <3>2, <3>3
    <3> QED
      BY <3>4
  <2>4. remainingUnits(p, c) <= p /\ (c < p => remainingUnits(p, c) > 0)
    BY DEF remainingUnits
  <2> QED
    BY <2>2, <2>3, <2>4
<1> QED
  BY <1>1, <1>2, <1>3, <1>4 DEF ReportExact

-----------------------------------------------------------------------------
(* The services together *)

RulesInv ==
    /\ service \in {"access", "files", "reports", "students"}
    /\ service = "access" => AccessInv
    /\ service = "files" => FilesInv
    /\ service \in {"reports", "students"} => ReportsInv

\* A step is of the behaviour's own service, or changes nothing.
LEMMA RulesKept ==
  ASSUME RulesInv, [Next]_vars
  PROVE  RulesInv'
<1>1. CASE service = "access" /\ AccessNext
  BY <1>1, AccessNextKeeps DEF RulesInv, Kept
<1>2. CASE service = "files" /\ FilesNext
  BY <1>2, FilesNextKeeps DEF RulesInv, Kept
<1>3. CASE service \in {"reports", "students"} /\ ReportsNext
  BY <1>3, ReportsNextKeeps DEF RulesInv, Kept
<1>4. CASE UNCHANGED vars
  <2>1. /\ service' = service /\ configured' = configured /\ todo' = todo /\ arg' = arg /\ db' = db
        /\ Rests /\ Kept
    BY <1>4 DEF vars, Rests, Kept
  <2>2. CASE service = "access"
    BY <2>1, <2>2, AccessRests DEF RulesInv, AccessInv
  <2>3. CASE service = "files"
    <3>1. TablesKept'
      BY <2>1, <2>3 DEF RulesInv, FilesInv, TablesKept
    <3> QED
      BY <2>1, <2>3, <3>1, FilesRests DEF RulesInv
  <2>4. CASE service \in {"reports", "students"}
    BY <2>1, <2>4, TypedStill, ReportsRests DEF RulesInv
  <2> QED
    BY <2>2, <2>3, <2>4 DEF RulesInv
<1> QED
  BY <1>1, <1>2, <1>3, <1>4 DEF Next

\* The tokens, files and rows, and what each request knows of them, stay as the
\* code relies on.
THEOREM RulesInvariant == Spec => []RulesInv
<1>1. Init => RulesInv
  <2>1. CASE AccessInit
    BY <2>1, AccessStarts DEF RulesInv, AccessInit, Start
  <2>2. CASE FilesInit
    BY <2>2, FilesStarts DEF RulesInv, FilesInit, Start
  <2>3. CASE ReportsInit
    BY <2>3, ReportsStarts DEF RulesInv, ReportsInit, Start
  <2> QED
    BY <2>1, <2>2, <2>3 DEF Init
<1>2. RulesInv /\ [Next]_vars => RulesInv'
  BY RulesKept
<1> QED
  BY <1>1, <1>2, PTL DEF Spec

\* However many schools an account belongs to, and whatever changes after it
\* logged in, a request acts on a school by a role held there at login, and on
\* the school that it names.
THEOREM RequestsActByGrant == Spec => []ActsByGrant
<1>1. RulesInv => ActsByGrant
  BY ActsHold DEF RulesInv
<1> QED
  BY <1>1, RulesInvariant, PTL

\* For any number of uploads at once, through the service or by signed URLs,
\* and any way that paths are normalised, a client finds at its path what it
\* uploaded, and a link shows what it showed when it was made.
THEOREM FilesAreKept == Spec => []FileKept
<1>1. RulesInv => FileKept
  BY FilesHold DEF RulesInv
<1> QED
  BY <1>1, RulesInvariant, PTL

\* For any courses, units and grades, and whatever queries fail unseen, the
\* figures of a report agree with each other, and with the rows where any are
\* shown; and what comes from queries that run in parallel was true at some
\* moment since the request, but for what a failed one missed.
THEOREM ReportsAreExact == Spec => []ReportExact
<1>1. RulesInv => ReportExact
  BY ReportsHold DEF RulesInv
<1> QED
  BY <1>1, RulesInvariant, PTL
=============================================================================
