SPECIFICATION Spec
CONSTANTS
    Docs <- MCDocs
    Ops <- MCOps
    OpsOf <- MCOpsOf
    DependsOn <- MCDependsOn
    MaxRedrive = 1
    MaxEdits = 1
    MaxFaults = 1
    NoDoc = NoDoc
INVARIANTS StatusIsTruth PrereqsApplied
PROPERTIES RedriveOnlyAfterFailure DeliversAsPromised
