SPECIFICATION Spec
CONSTANTS
    Schools <- MCSchools
    Slug <- MCSlug
    Email <- MCEmail
    Workers = {w1}
    None = None
INVARIANTS
    FreeSlugCanBeRegistered
