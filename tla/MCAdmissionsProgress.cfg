SPECIFICATION FairSpec
CONSTANTS
    Applicants = {a1}
    Programs = {p1}
    Decisions <- MCDecisions
    Numbers = {n1, n2}
    Workers = {w1, w2}
    None = None
PROPERTIES
    ConversionCompletes
