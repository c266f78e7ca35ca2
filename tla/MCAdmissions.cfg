SPECIFICATION Spec
CONSTANTS
    Applicants = {a1, a2}
    Programs = {p1, p2}
    Decisions <- MCDecisions
    Numbers = {n1, n2}
    Workers = {w1, w2}
    None = None
SYMMETRY Symmetry
INVARIANTS
    TypeOK
    EnrolledHasAccount
    NumberOfAcceptance
    LogNeverAhead
    ProgramMatchesSelection
