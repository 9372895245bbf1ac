SPECIFICATION Spec
CONSTANTS
    Jobs = {j1, j2}
    Status = status
    Files = {f1}
    MaxAttempts = 2
    MaxTroubles = 2
    Setups <- MCSetups
INVARIANTS GoodNewsIsEarned VerdictIsCombined NoSilentGreen SnapshotGetsItsEnv
PROPERTY FailureIsTold
