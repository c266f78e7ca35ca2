SPECIFICATION Spec
CONSTANTS
    Students = {s1, s2}
    Workers = {w1, w2}
    Classes <- MCFewClasses
    Schedules <- MCSchedules
    MaxStudents <- MCFewMaxStudents
    MaxSelection = 1
INVARIANTS
    CapacityRespected
