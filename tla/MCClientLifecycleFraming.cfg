CONSTANTS
    MaxChunks <- MCMaxChunks
    MaxInfo <- MCMaxInfo
    MaxPending <- MCMaxPending
SPECIFICATION Spec
INVARIANT PooledOnlyWhenFramed
CHECK_DEADLOCK FALSE
