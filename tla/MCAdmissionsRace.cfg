SPECIFICATION Spec
CONSTANTS
    Applicants = {a1}
    Programs = {p1}
    Decisions <- MCDecisions
    Numbers = {n1}
    Workers = {w1, w2}
    None = None
PROPERTIES
    OnlyAcceptedConverted
