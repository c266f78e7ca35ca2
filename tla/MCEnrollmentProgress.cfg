SPECIFICATION FairSpec
CONSTANTS
    Students = {s1, s2}
    Workers = {w1, w2}
    Classes <- MCFewClasses
    Schedules <- MCSchedules
    MaxStudents <- MCFewMaxStudents
    MaxSelection = 2
PROPERTIES
    EveryRequestAnswered
