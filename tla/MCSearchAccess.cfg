CONSTANTS
    Pages = {a, b}
    NoPage = NoPage
    Roles = {"editor", "viewer"}
    SearchLimit = 2
    RelatedLimit = 1
    MaxChanges = 2
SPECIFICATION Spec
INVARIANTS
    ShownWasViewable
    SteadyIsShown
SYMMETRY Symmetry
CHECK_DEADLOCK FALSE
