--------------------------- MODULE ScheduleProofs ---------------------------
(***************************************************************************)
(* The conflict test of Schedule compares the ends of two intervals; what  *)
(* it is for is that no minute of the week is taken twice.  The two say    *)
(* the same of every timetable whose times are numbers of minutes.         *)
(***************************************************************************)
EXTENDS Schedule, Integers, TLAPS

\* The times of these classes are minutes.
InMinutes(schedules, classes) ==
    \A c \in classes : schedules[c].start \in Nat /\ schedules[c].end \in Nat

\* Two classes whose windows overlap on a day have the later of the two
\* beginnings in common.
LEMMA OverlapIsClash ==
  ASSUME NEW s, NEW t, NEW day \in Days,
         s.start \in Nat, s.end \in Nat, t.start \in Nat, t.end \in Nat,
         s.start < s.end, t.start < t.end,
         day \in parseDays(s.days), day \in parseDays(t.days),
         s.start < t.end, t.start < s.end
  PROVE  Clash(s, t)
<1>1. CASE s.start <= t.start
  <2>1. /\ t.start \in s.start .. (s.end - 1)
        /\ InSession(s, day, t.start) /\ InSession(t, day, t.start)
    BY <1>1 DEF InSession
  <2> QED
    BY <2>1 DEF Clash
<1>2. CASE t.start < s.start
  <2>1. /\ s.start \in s.start .. (s.end - 1)
        /\ InSession(s, day, s.start) /\ InSession(t, day, s.start)
    BY <1>2 DEF InSession
  <2> QED
    BY <2>1 DEF Clash
<1> QED
  BY <1>1, <1>2

\* hasScheduleConflict finds a conflict exactly when two different classes of
\* the list are in session at the same minute of the same day.
THEOREM ConflictIsClash ==
  ASSUME NEW schedules, NEW classes, InMinutes(schedules, classes)
  PROVE  hasScheduleConflict(schedules, classes) <=>
            \E c, d \in classes : c # d /\ Clash(schedules[c], schedules[d])
<1> DEFINE windows == UNION {parseScheduleWindows(c, schedules[c]) : c \in classes}
<1>1. ASSUME NEW v \in windows, NEW w \in windows,
             v.id # w.id, v.day = w.day, v.start < w.end, w.start < v.end
      PROVE  \E c, d \in classes : c # d /\ Clash(schedules[c], schedules[d])
  <2>1. PICK c \in classes, d \in classes : /\ v \in parseScheduleWindows(c, schedules[c])
                                            /\ w \in parseScheduleWindows(d, schedules[d])
    OBVIOUS
  <2>2. /\ v.id = c /\ v.start = schedules[c].start /\ v.end = schedules[c].end
        /\ w.id = d /\ w.start = schedules[d].start /\ w.end = schedules[d].end
        /\ schedules[c].start < schedules[c].end /\ schedules[d].start < schedules[d].end
        /\ v.day \in parseDays(schedules[c].days) /\ w.day \in parseDays(schedules[d].days)
        /\ v.day \in Days
    BY <2>1 DEF parseScheduleWindows, parseDays
  <2>3. Clash(schedules[c], schedules[d])
    BY <1>1, <2>2, OverlapIsClash DEF InMinutes
  <2> QED
    BY <1>1, <2>2, <2>3
<1>2. ASSUME NEW c \in classes, NEW d \in classes, c # d, Clash(schedules[c], schedules[d])
      PROVE  \E v, w \in windows : v.id # w.id /\ v.day = w.day /\ v.start < w.end /\ w.start < v.end
  <2> DEFINE s == schedules[c]
             t == schedules[d]
  <2>1. PICK day \in Days, minute \in s.start .. (s.end - 1) :
            InSession(s, day, minute) /\ InSession(t, day, minute)
    BY <1>2 DEF Clash
  <2>2. /\ s.start \in Nat /\ s.end \in Nat /\ t.start \in Nat /\ t.end \in Nat
        /\ minute \in Int
        /\ s.start <= minute /\ minute < s.end /\ t.start <= minute /\ minute < t.end
        /\ day \in parseDays(s.days) /\ day \in parseDays(t.days)
    BY <2>1 DEF InMinutes, InSession
  <2> DEFINE v == [id |-> c, day |-> day, start |-> s.start, end |-> s.end]
             w == [id |-> d, day |-> day, start |-> t.start, end |-> t.end]
  <2>3. /\ v \in parseScheduleWindows(c, s) /\ w \in parseScheduleWindows(d, t)
        /\ v.id # w.id /\ v.day = w.day /\ v.start < w.end /\ w.start < v.end
    BY <1>2, <2>2 DEF parseScheduleWindows
  <2>4. v \in windows /\ w \in windows
    BY <2>3
  <2> QED
    BY <2>3, <2>4
<1> QED
  BY <1>1, <1>2 DEF hasScheduleConflict
=============================================================================
