-------------------------- MODULE RateLimitProofs --------------------------
(***************************************************************************)
(* Proofs about RateLimit for every set of clients, limit, window and      *)
(* bound.  What makes the burst bound hold is that the windows of a client *)
(* do not overlap, and that what passes in a window is numbered up to the  *)
(* limit: a span as long as a window meets two of them at most.            *)
(***************************************************************************)
EXTENDS RateLimit, Integers, FiniteSetTheorems, FunctionTheorems, TLAPS

\* Each pass lies in its window and has its own number there, up to the limit.
Numbered ==
    /\ \A p \in passed :
          /\ p.at <= now /\ p.resetAt - WindowMs <= p.at /\ p.at < p.resetAt
          /\ p.nth <= Limit[p.key]
    /\ \A p, q \in passed :
          p.key = q.key /\ p.resetAt = q.resetAt /\ p.nth = q.nth => p = q

\* The current window of a client is the last one, and its count is the last
\* number given.
LastWindow ==
    \A p \in passed :
        /\ p.key \in Seen
        /\ \/ p.resetAt + WindowMs <= windows[p.key].resetAt
           \/ p.resetAt = windows[p.key].resetAt /\ p.nth <= windows[p.key].count

\* The windows of a client do not overlap.
Disjoint ==
    \A p, q \in passed :
        p.key = q.key /\ p.resetAt < q.resetAt => p.resetAt + WindowMs <= q.resetAt

IInv == TypeOK /\ Numbered /\ LastWindow /\ Disjoint

\* What client k had passed in the window that ends at r.
PassedUntil(k, r) == {p \in passed : p.key = k /\ p.resetAt = r}

-----------------------------------------------------------------------------

\* A request keeps the numbering and the order of the windows: it continues the
\* current window, or opens one that starts after the end of all earlier ones.
LEMMA RequestKeeps ==
  ASSUME NEW k \in Keys, IInv, Request(k)
  PROVE  IInv'
<1> USE LimitType, WindowType, BoundsType
<1> DEFINE old == entryOf(k)
           count == old.count + 1
           new == [key |-> k, at |-> now, resetAt |-> old.resetAt, nth |-> count]
<1>1. /\ old \in [count : 0 .. MaxRequests, resetAt : WindowMs .. (now + WindowMs)]
      /\ now < old.resetAt
      /\ old.count = 0 => old.resetAt = now + WindowMs
      /\ k \in Seen => \/ old = windows[k]
                       \/ windows[k].resetAt <= now /\ old.count = 0
      /\ k \notin Seen => old.count = 0
  BY DEF IInv, TypeOK, Entry, entryOf
<1>2. /\ old.count < MaxRequests
      /\ windows' = [j \in Seen \cup {k} |->
                        IF j = k THEN [old EXCEPT !.count = count] ELSE windows[j]]
      /\ passed' = passed \/ (passed' = passed \cup {new} /\ count <= Limit[k])
      /\ now' = now
  BY <1>1 DEF Request, overLimit
<1>3. Seen' = Seen \cup {k} /\ windows'[k] = [count |-> count, resetAt |-> old.resetAt]
      /\ \A j \in Seen \ {k} : windows'[j] = windows[j]
  BY <1>1, <1>2 DEF Seen
<1> HIDE DEF old
<1>4. TypeOK'
  <2>1. windows' \in [Seen' -> Entry']
    BY <1>1, <1>2, <1>3 DEF IInv, TypeOK, Entry, Seen
  <2>2. new \in Pass
    BY <1>1 DEF Pass, IInv, TypeOK
  <2> QED
    BY <1>2, <1>3, <2>1, <2>2 DEF IInv, TypeOK, Pass
<1>5. \A p \in passed : p.key = k =>
          \/ p.resetAt + WindowMs <= old.resetAt
          \/ p.resetAt = old.resetAt /\ p.nth < count
  <2> SUFFICES ASSUME NEW p \in passed, p.key = k
               PROVE  \/ p.resetAt + WindowMs <= old.resetAt
                      \/ p.resetAt = old.resetAt /\ p.nth < count
    OBVIOUS
  <2>1. p \in Pass /\ windows[k] \in Entry /\ k \in Seen
    BY DEF IInv, TypeOK, LastWindow
  <2>2. \/ p.resetAt + WindowMs <= windows[k].resetAt
        \/ p.resetAt = windows[k].resetAt /\ p.nth <= windows[k].count
    BY DEF IInv, LastWindow
  <2>3. CASE old = windows[k]
    BY <1>1, <2>1, <2>2, <2>3 DEF Pass, Entry
  <2>4. CASE windows[k].resetAt <= now /\ old.count = 0
    BY <1>1, <2>1, <2>2, <2>4 DEF Pass, Entry, IInv, TypeOK
  <2> QED
    BY <1>1, <2>1, <2>3, <2>4
<1>6. old.resetAt - WindowMs <= now
  BY <1>1 DEF IInv, TypeOK
<1>7. CASE passed' = passed
  <2>1. Numbered' /\ Disjoint'
    BY <1>2, <1>7 DEF IInv, Numbered, Disjoint
  <2>2. LastWindow'
    <3> SUFFICES ASSUME NEW p \in passed
                 PROVE  /\ p.key \in Seen'
                        /\ \/ p.resetAt + WindowMs <= windows'[p.key].resetAt
                           \/ p.resetAt = windows'[p.key].resetAt
                              /\ p.nth <= windows'[p.key].count
      BY <1>7 DEF LastWindow
    <3>1. CASE p.key = k
      BY <1>1, <1>3, <1>5, <3>1 DEF IInv, TypeOK, Pass
    <3>2. CASE p.key # k
      BY <1>3, <3>2 DEF IInv, LastWindow
    <3> QED
      BY <3>1, <3>2
  <2> QED
    BY <1>4, <2>1, <2>2 DEF IInv
<1>8. CASE passed' = passed \cup {new} /\ count <= Limit[k]
  <2>0. new \in Pass /\ passed \subseteq Pass
    BY <1>1 DEF IInv, TypeOK, Pass
  <2>1. Numbered'
    <3>1. \A p \in passed' : /\ p.at <= now /\ p.resetAt - WindowMs <= p.at
                             /\ p.at < p.resetAt /\ p.nth <= Limit[p.key]
      <4>1. /\ new.at <= now /\ new.resetAt - WindowMs <= new.at
            /\ new.at < new.resetAt /\ new.nth <= Limit[new.key]
        BY <1>1, <1>6, <1>8 DEF IInv, TypeOK
      <4> QED
        BY <1>8, <4>1 DEF IInv, Numbered
    <3>2. \A p \in passed : ~(p.key = k /\ p.resetAt = old.resetAt /\ p.nth = count)
      BY <1>1, <1>5, <2>0 DEF Pass
    <3> QED
      BY <1>2, <1>8, <3>1, <3>2 DEF IInv, Numbered
  <2>2. LastWindow'
    <3> SUFFICES ASSUME NEW p \in passed'
                 PROVE  /\ p.key \in Seen'
                        /\ \/ p.resetAt + WindowMs <= windows'[p.key].resetAt
                           \/ p.resetAt = windows'[p.key].resetAt
                              /\ p.nth <= windows'[p.key].count
      BY DEF LastWindow
    <3>1. CASE p = new
      BY <1>1, <1>3, <3>1
    <3>2. CASE p \in passed /\ p.key = k
      BY <1>1, <1>3, <1>5, <2>0, <3>2 DEF Pass
    <3>3. CASE p \in passed /\ p.key # k
      BY <1>3, <3>3 DEF IInv, LastWindow
    <3> QED
      BY <1>8, <3>1, <3>2, <3>3
  <2>3. Disjoint'
    <3> SUFFICES ASSUME NEW p \in passed', NEW q \in passed',
                        p.key = q.key, p.resetAt < q.resetAt
                 PROVE  p.resetAt + WindowMs <= q.resetAt
      BY DEF Disjoint
    <3>1. CASE p \in passed /\ q \in passed
      BY <3>1 DEF IInv, Disjoint
    <3>2. CASE p \in passed /\ q = new
      BY <1>1, <1>5, <2>0, <3>2 DEF Pass
    <3>3. CASE p = new /\ q \in passed
      BY <1>1, <1>5, <2>0, <3>3 DEF Pass
    <3>4. CASE p = new /\ q = new
      BY <1>1, <3>4
    <3> QED
      BY <1>8, <3>1, <3>2, <3>3, <3>4
  <2> QED
    BY <1>4, <2>1, <2>2, <2>3 DEF IInv
<1> QED
  BY <1>2, <1>7, <1>8

\* The numbering of passes and the order of windows hold in every state.
THEOREM WindowInvariant == Spec => []IInv
<1> USE LimitType, WindowType, BoundsType
<1>1. Init => IInv
  BY DEF Init, IInv, TypeOK, Numbered, LastWindow, Disjoint, Seen, Entry, Pass
<1>2. IInv /\ [Next]_vars => IInv'
  <2> SUFFICES ASSUME IInv, [Next]_vars PROVE IInv'
    OBVIOUS
  <2>1. ASSUME NEW k \in Keys, Request(k) PROVE IInv'
    BY <2>1, RequestKeeps
  <2>2. CASE Tick
    <3>1. TypeOK'
      BY <2>2 DEF Tick, IInv, TypeOK, Entry, Seen, Pass
    <3>2. Numbered' /\ LastWindow' /\ Disjoint'
      BY <2>2 DEF Tick, IInv, TypeOK, Numbered, LastWindow, Disjoint, Seen, Pass
    <3> QED
      BY <3>1, <3>2 DEF IInv
  <2>3. CASE Restart
    BY <2>3 DEF Restart, IInv, TypeOK, Numbered, LastWindow, Disjoint, Seen, Entry, Pass
  <2>4. CASE UNCHANGED vars
    BY <2>4 DEF vars, IInv, TypeOK, Numbered, LastWindow, Disjoint, Seen, Entry, Pass
  <2> QED
    BY <2>1, <2>2, <2>3, <2>4 DEF Next
<1> QED
  BY <1>1, <1>2, PTL DEF Spec

\* The counters and windows of the limiter keep their types and ranges.
THEOREM TypeCorrect == Spec => []TypeOK
<1>1. IInv => TypeOK
  BY DEF IInv
<1> QED
  BY <1>1, WindowInvariant, PTL

-----------------------------------------------------------------------------

\* No more than the limit passes in one window.
LEMMA WindowLimited ==
  ASSUME IInv, NEW k \in Keys, NEW r
  PROVE  /\ IsFiniteSet(PassedUntil(k, r))
         /\ Cardinality(PassedUntil(k, r)) <= Limit[k]
<1> DEFINE S == PassedUntil(k, r)
           number == [p \in S |-> p.nth]
<1> USE LimitType
<1>1. number \in Injection(S, 1 .. Limit[k])
  <2>1. number \in [S -> 1 .. Limit[k]]
    BY DEF PassedUntil, IInv, TypeOK, Pass, Numbered
  <2>2. \A p, q \in S : number[p] = number[q] => p = q
    BY DEF PassedUntil, IInv, Numbered
  <2> QED
    BY <2>1, <2>2, Fun_IsInj
<1>2. IsFiniteSet(1 .. Limit[k]) /\ Cardinality(1 .. Limit[k]) = Limit[k]
  BY FS_Interval
<1> QED
  BY <1>1, <1>2, FS_Injection

\* A span as long as a window meets at most two windows of a client, so no more
\* than twice its limit gets through.
THEOREM BurstsAreBounded == Spec => []BurstBounded
<1>1. IInv => BurstBounded
  <2> SUFFICES ASSUME IInv, NEW k \in Keys, NEW t \in 0 .. MaxTime
               PROVE  Cardinality(PassedFrom(k, t)) <= 2 * Limit[k]
    BY DEF BurstBounded
  <2> USE LimitType, WindowType, BoundsType
  <2> DEFINE S == PassedFrom(k, t)
  <2>0. \A p \in S : /\ p \in passed /\ p \in Pass /\ p.key = k
                     /\ t < p.resetAt /\ p.resetAt < t + 2 * WindowMs
    BY DEF PassedFrom, IInv, TypeOK, Pass, Numbered
  <2>1. \E r1, r2 \in Nat : S \subseteq PassedUntil(k, r1) \cup PassedUntil(k, r2)
    <3>1. CASE S = {}
      BY <3>1
    <3>2. CASE S # {}
      <4>1. PICK p \in S : TRUE
        BY <3>2
      <4>2. CASE \A q \in S : q.resetAt = p.resetAt
        BY <2>0, <4>1, <4>2 DEF PassedUntil, Pass
      <4>3. CASE \E q \in S : q.resetAt # p.resetAt
        <5>1. PICK q \in S : q.resetAt # p.resetAt
          BY <4>3
        <5>2. ASSUME NEW s \in S
              PROVE  s.resetAt = p.resetAt \/ s.resetAt = q.resetAt
          <6>1. \A u, v \in S : u.resetAt < v.resetAt =>
                    u.resetAt + WindowMs <= v.resetAt
            BY <2>0 DEF IInv, Disjoint
          <6>2. \A u \in S : u.resetAt \in Nat
            BY <2>0 DEF Pass
          <6> QED
            BY <2>0, <4>1, <5>1, <5>2, <6>1, <6>2
        <5> QED
          BY <2>0, <4>1, <5>1, <5>2 DEF PassedUntil, Pass
      <4> QED
        BY <4>2, <4>3
    <3> QED
      BY <3>1, <3>2
  <2>2. PICK r1 \in Nat, r2 \in Nat :
            S \subseteq PassedUntil(k, r1) \cup PassedUntil(k, r2)
    BY <2>1
  <2> DEFINE A == PassedUntil(k, r1)
             B == PassedUntil(k, r2)
  <2>3. /\ IsFiniteSet(A) /\ Cardinality(A) <= Limit[k] /\ Cardinality(A) \in Nat
        /\ IsFiniteSet(B) /\ Cardinality(B) <= Limit[k] /\ Cardinality(B) \in Nat
    BY WindowLimited, FS_CardinalityType
  <2> HIDE DEF A, B, S
  <2>4. IsFiniteSet(A \cup B) /\ Cardinality(A \cup B) <= Cardinality(A) + Cardinality(B)
    <3>1. IsFiniteSet(A \cap B) /\ Cardinality(A \cap B) \in Nat
      BY <2>3, FS_Intersection, FS_CardinalityType
    <3> QED
      BY <2>3, <3>1, FS_Union
  <2>5. IsFiniteSet(S) /\ Cardinality(S) <= Cardinality(A \cup B)
    BY <2>2, <2>4, FS_Subset DEF A, B
  <2>6. Cardinality(S) \in Nat /\ Cardinality(A \cup B) \in Nat
    BY <2>4, <2>5, FS_CardinalityType
  <2> QED
    BY <2>3, <2>4, <2>5, <2>6 DEF S
<1> QED
  BY <1>1, WindowInvariant, PTL

-----------------------------------------------------------------------------

\* Every number up to the count and the limit was given to a pass.
Counted ==
    \A k \in Seen : \A i \in 1 .. Limit[k] :
        i <= windows[k].count =>
            \E p \in passed : p.key = k /\ p.resetAt = windows[k].resetAt /\ p.nth = i

\* A request gives the next number, or 1 in a new window; the others keep theirs.
LEMMA RequestCounts ==
  ASSUME NEW k \in Keys, IInv, Counted, Request(k)
  PROVE  Counted'
<1> USE LimitType, WindowType, BoundsType
<1> DEFINE old == entryOf(k)
           count == old.count + 1
           new == [key |-> k, at |-> now, resetAt |-> old.resetAt, nth |-> count]
<1>1. /\ old \in [count : 0 .. MaxRequests, resetAt : WindowMs .. (now + WindowMs)]
      /\ old.count = 0 \/ (k \in Seen /\ old = windows[k])
  BY DEF IInv, TypeOK, Entry, entryOf
<1>2. /\ windows' = [j \in Seen \cup {k} |->
                        IF j = k THEN [old EXCEPT !.count = count] ELSE windows[j]]
      /\ passed \subseteq passed'
      /\ count <= Limit[k] => new \in passed'
  BY <1>1 DEF Request, overLimit
<1>3. /\ Seen' = Seen \cup {k}
      /\ windows'[k].count = count /\ windows'[k].resetAt = old.resetAt
      /\ \A j \in Seen \ {k} : windows'[j] = windows[j]
  BY <1>1, <1>2 DEF Seen
<1> HIDE DEF old
<1>4. SUFFICES ASSUME NEW j \in Seen', NEW i \in 1 .. Limit[j], i <= windows'[j].count
               PROVE  \E p \in passed' :
                          p.key = j /\ p.resetAt = windows'[j].resetAt /\ p.nth = i
  BY DEF Counted
<1>5. CASE j # k
  BY <1>2, <1>3, <1>4, <1>5 DEF Counted
<1>6. CASE j = k /\ i = count
  <2>1. new \in passed' /\ new.key = k /\ new.resetAt = old.resetAt /\ new.nth = i
    BY <1>2, <1>4, <1>6
  <2> QED
    BY <1>3, <1>6, <2>1
<1>7. CASE j = k /\ i # count
  <2>1. i <= old.count /\ k \in Seen /\ old = windows[k]
    BY <1>1, <1>3, <1>4, <1>7
  <2> QED
    BY <1>2, <1>3, <1>4, <1>7, <2>1 DEF Counted
<1> QED
  BY <1>5, <1>6, <1>7

\* The limiter neither refuses a request early nor lets one pass that is over:
\* the passes of the current window are numbered 1 to the count or the limit,
\* each number once.
THEOREM AccountsAreExact == Spec => []WindowAccount
<1> USE LimitType, WindowType, BoundsType
<1>1. Init => Counted
  BY DEF Init, Counted, Seen
<1>2. IInv /\ Counted /\ [Next]_vars => Counted'
  <2> SUFFICES ASSUME IInv, Counted, [Next]_vars PROVE Counted'
    OBVIOUS
  <2>1. ASSUME NEW k \in Keys, Request(k) PROVE Counted'
    BY <2>1, RequestCounts
  <2>2. CASE Tick \/ UNCHANGED vars
    BY <2>2 DEF Tick, vars, Counted, Seen, PassedUntil
  <2>3. CASE Restart
    BY <2>3 DEF Restart, Counted, Seen
  <2> QED
    BY <2>1, <2>2, <2>3 DEF Next
<1>3. IInv /\ Counted => WindowAccount
  <2> SUFFICES ASSUME IInv, Counted, NEW k \in Seen
               PROVE  Cardinality(PassedUntil(k, windows[k].resetAt)) =
                        (IF windows[k].count > Limit[k] THEN Limit[k] ELSE windows[k].count)
    BY DEF WindowAccount, PassedUntil
  <2> DEFINE S == PassedUntil(k, windows[k].resetAt)
             most == IF windows[k].count > Limit[k] THEN Limit[k] ELSE windows[k].count
             number == [p \in S |-> p.nth]
  <2>1. k \in Keys /\ windows[k] \in Entry /\ most \in Nat
        /\ most <= Limit[k] /\ most <= windows[k].count
    BY DEF IInv, TypeOK, Entry
  <2>2. \A p \in S : /\ p \in Pass /\ p \in passed /\ p.key = k /\ p.resetAt = windows[k].resetAt
                     /\ p.nth <= Limit[k] /\ p.nth <= windows[k].count
    BY <2>1 DEF PassedUntil, IInv, TypeOK, Pass, Entry, Numbered, LastWindow
  <2>3. number \in Bijection(S, 1 .. most)
    <3>1. number \in [S -> 1 .. most]
      BY <2>1, <2>2 DEF Pass, Entry
    <3>2. \A p, q \in S : number[p] = number[q] => p = q
      BY <2>2 DEF IInv, Numbered
    <3>3. \A i \in 1 .. most : \E p \in S : number[p] = i
      BY <2>1 DEF Counted, PassedUntil, Entry
    <3>4. number \in Injection(S, 1 .. most)
      BY <3>1, <3>2, Fun_IsInj
    <3>5. number \in Surjection(S, 1 .. most)
      BY <3>1, <3>3, Fun_IsSurj
    <3> QED
      BY <3>4, <3>5 DEF Bijection
  <2> HIDE DEF S, number, most
  <2>4. IsFiniteSet(1 .. most) /\ Cardinality(1 .. most) = most
    BY <2>1, FS_Interval
  <2>5. ExistsBijection(1 .. most, S)
    BY <2>3, Fun_BijInverse DEF ExistsBijection
  <2>6. Cardinality(S) = Cardinality(1 .. most)
    BY <2>4, <2>5, FS_Bijection
  <2> QED
    BY <2>4, <2>6 DEF S, most
<1> QED
  BY <1>1, <1>2, <1>3, WindowInvariant, PTL DEF Spec

\* Retry-After is rounded up to seconds: the client that waits for it finds its
\* window over, and was not told a second too much.
THEOREM RetriesSucceed == Spec => []RetryAfterEnough
<1>1. IInv => RetryAfterEnough
  <2> SUFFICES ASSUME IInv, NEW k \in Seen, windows[k].resetAt > now
               PROVE  LET wait == retryAfterSeconds(windows[k]) * Second
                      IN  now + wait >= windows[k].resetAt /\ now + wait < windows[k].resetAt + Second
    BY DEF RetryAfterEnough
  <2> DEFINE left == windows[k].resetAt - now
             seconds == (left + Second - 1) \div Second
  <2>1. left \in Nat /\ left >= 1 /\ now \in Nat /\ windows[k].resetAt = now + left
    BY WindowType, BoundsType DEF IInv, TypeOK, Entry
  <2>2. seconds \in Nat /\ Second * seconds <= left + Second - 1
        /\ left + Second - 1 < Second * seconds + Second
    BY <2>1, SecondType DEF seconds
  <2>3. retryAfterSeconds(windows[k]) = (IF seconds >= 1 THEN seconds ELSE 1)
    BY DEF retryAfterSeconds
  <2> HIDE DEF left, seconds
  <2>4. seconds >= 1
    BY <2>1, <2>2, SecondType
  <2>5. retryAfterSeconds(windows[k]) * Second = Second * seconds
    BY <2>2, <2>3, <2>4, SecondType
  <2>6. Second * seconds \in Nat
    BY <2>2, SecondType
  <2> QED
    BY <2>1, <2>2, <2>5, <2>6, SecondType
<1> QED
  BY <1>1, WindowInvariant, PTL
=============================================================================
