SPECIFICATION Spec
CONSTANTS
    Schools <- MCSchools
    Slug <- MCSlug
    Email <- MCEmail
    Workers = {w1, w2}
    None = None
SYMMETRY Symmetry
INVARIANTS
    TypeOK
    AcceptedHasOwner
    SetupTellsActivation
    OneActivationAtATime
PROPERTIES
    MilestonesKept
