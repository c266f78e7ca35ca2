SPECIFICATION Spec
CONSTANTS
    Workers = {w1, w2}
    None = None
    Emails = {e1}
    Campuses = {north, south}
    MaxTokens = 1
    FileOwners = {"ana", "ben"}
    TenantOf <- MCTenantOf
    OwnerPath <- MCOwnerPath
    FileNames = {"upper", "lower"}
    SafeName <- MCSafeName
    Buckets = {"applicantDocuments"}
    Bodies = {"tor", "scan", "film", "empty"}
    SizeOf <- MCSizeOf
    MaxTime = 1
    MaxObjects = 2
    Courses = {"algebra", "biology", "nstp"}
    Units <- MCUnits
    Term <- MCTerm
    Curriculum = {"algebra", "nstp"}
    Grades = {175, 500, 7450, 7500}
    FailingGrades = {500, 7450}
    MaxStudents = 2
INVARIANTS ActsByGrant FileKept ReportExact
SYMMETRY Symmetry
CHECK_DEADLOCK FALSE
