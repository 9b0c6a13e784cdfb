CONSTANTS
    MaxChunks <- MCMaxChunks
    MaxInfo <- MCMaxInfo
    MaxPending <- MCMaxPending
SPECIFICATION Spec
INVARIANT ReadFailureCloses
CHECK_DEADLOCK FALSE
