CONSTANTS
    Target = {"a"}
    CommentOnly = {}
    MaxCycles = 2
    MaxIterations = 1
SPECIFICATION Spec
INVARIANTS StatusIsJournaled AcceptedOnGrounds
PROPERTIES PublishedAsVetted AcceptanceLostForCause
