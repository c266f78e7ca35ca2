SPECIFICATION Spec
CONSTANTS
    Students = {s1, s2, s3}
    Workers = {w1, w2}
    Classes <- MCClasses
    Schedules <- MCSchedules
    MaxStudents <- MCMaxStudents
    MaxSelection = 2
SYMMETRY Symmetry
INVARIANTS
    TypeOK
    SeatsBounded
    SuccessIsComplete
    SeatReportedOnce
    NoClashInRequest
PROPERTIES
    SeatBookImplemented
