SPECIFICATION Spec
CONSTANTS
    Dir = {left, right}
    Datasets <- MCDatasets
    Policies <- MCPolicies
    Batches <- MCBatches
    Printed <- MCPrinted
    Fixed <- MCFixed
    Hashed <- MCHashed
    None = None
    MaxCommands = 4
INVARIANTS NothingLost EnforceThenCheck
PROPERTIES PatchMakesRight BatchRetryHarmless
CHECK_DEADLOCK FALSE
