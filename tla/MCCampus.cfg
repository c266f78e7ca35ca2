SPECIFICATION Spec
CONSTANTS
    Workers = {w1, w2}
    None = None
    Profiles = {p1, p2}
    MaxNotices = 1
    Alumni = {a1}
    Documents = {"TOR", "unknown"}
    Copies = {0, 1}
    StatusCodes = {200, 300}
    Payments = {"paid", None}
    MaxRows <- MCMaxRows
    MaxGraduations = 2
    MaxRestarts = 1
    Records = {r1, r2}
    Values = {v1, v2}
    MaxWrites = 3
    Pupils = {s1, s2}
    Capacity <- MCCapacity
    Timetable <- MCTimetable
    MaxSubmissions = 2
    MaxMisreads = 1
    MaxPetitions = 2
    Enrollees = {e1}
    Marks = {m1, m2}
    MaxPosts = 2
    Candidates = {c1, c2}
    Choices = {bsit}
    MaxFiles = 1
    MaxActs = 2
    Slugs = {"north"}
    MaxReviews = 3
    Amounts = {0, 1}
    MaxFees = 2
    MaxPayments = 2
INVARIANTS
    TypeOK NoticeAuditsTrue LogFirst GraduationAccount AuditAccount
    OversellBound SubmittedIsWhole GradeTrail AdmissionTrail ReviewTrail BalanceBetween
PROPERTIES LoneUpdateExact LockNeverLost LoneReviewAllowed
SYMMETRY Symmetry
CHECK_DEADLOCK FALSE
