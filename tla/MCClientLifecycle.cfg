CONSTANTS
    MaxChunks <- MCMaxChunks
    MaxInfo <- MCMaxInfo
    MaxPending <- MCMaxPending
SPECIFICATION FairSpec
INVARIANT TypeOK NoReleaseWhileWriting ConnectionReturnedOnce ContinueGatesBody LifecycleInv
PROPERTY ReleaseEventuallyReturnsConnection
CHECK_DEADLOCK FALSE
