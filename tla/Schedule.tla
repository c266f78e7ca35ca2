------------------------------ MODULE Schedule ------------------------------
(***************************************************************************)
(* Weekly meeting times of class sections, and the conflict test that an   *)
(* enrollment request must pass.  The free text of a section's schedule    *)
(* ("Mon/Wed 08:00-09:00") is a record: the day tokens before the time     *)
(* range, and the two ends of the range in minutes.  A text that does not  *)
(* have that form, an empty one and "TBA" have no day tokens.              *)
(***************************************************************************)
EXTENDS Naturals

\* The spellings of each day that the code's dayMap knows.
dayMap ==
    [mon |-> {"m", "mon", "monday"},
     tue |-> {"t", "tue", "tues", "tuesday"},
     wed |-> {"w", "wed", "wednesday"},
     thu |-> {"th", "thu", "thur", "thurs", "thursday"},
     fri |-> {"f", "fri", "friday"},
     sat |-> {"sat", "saturday"},
     sun |-> {"sun", "sunday"}]

Days == DOMAIN dayMap

\* The days a set of tokens names: a token the map does not know is dropped.
parseDays(tokens) == {d \in Days : dayMap[d] \cap tokens # {}}

\* One window per meeting day; none when the range is empty or reversed.
parseScheduleWindows(id, schedule) ==
    {[id |-> id, day |-> d, start |-> schedule.start, end |-> schedule.end] :
        d \in IF schedule.start < schedule.end
              THEN parseDays(schedule.days) ELSE {}}

\* Mutation: back-to-back windows forgotten on one side, so a class that
\* starts inside another one is only seen when it also ends inside it.
hasScheduleConflictNested(schedules, classes) ==
    LET windows == UNION {parseScheduleWindows(c, schedules[c]) : c \in classes}
    IN  \E v, w \in windows :
            /\ v.id # w.id /\ v.day = w.day
            /\ v.start <= w.start /\ w.end <= v.end

\* Two windows of different classes, on one day, that overlap.
hasScheduleConflict(schedules, classes) ==
    LET windows == UNION {parseScheduleWindows(c, schedules[c]) : c \in classes}
    IN  \E v, w \in windows :
            /\ v.id # w.id /\ v.day = w.day
            /\ v.start < w.end /\ w.start < v.end

\* What a conflict means, without intervals: some minute of some day at which
\* both classes are in session.
InSession(schedule, day, minute) ==
    /\ day \in parseDays(schedule.days)
    /\ schedule.start <= minute /\ minute < schedule.end
Clash(s, t) ==
    \E day \in Days, minute \in s.start .. (s.end - 1) :
        InSession(s, day, minute) /\ InSession(t, day, minute)
=============================================================================
