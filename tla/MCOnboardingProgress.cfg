SPECIFICATION FairSpec
CONSTANTS
    Schools <- MCOneSchool
    Slug <- MCSlug
    Email <- MCEmail
    Workers = {w1, w2}
    None = None
PROPERTIES
    EveryRequestAnswered
