CONSTANTS
    Caller = {a, b}
    File = {f}
    NoFile = NoFile
    Config = {k1, k2}
    Policies <- MCPolicies
    Requests <- MCRequests
    MaxRetries = 1
    Ats = {1, 3}
    MaxCalls = 2
SPECIFICATION CallsSpec
SYMMETRY Symmetry
INVARIANTS CallsInv
PROPERTIES FailureNotRepeated
CHECK_DEADLOCK FALSE
