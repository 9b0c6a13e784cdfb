CONSTANTS
    s1 = s1
    s2 = s2
    s3 = s3
    h1 = h1
    n1 = n1
    f1 = f1
    f2 = f2
    f3 = f3
    NoName = NoName
    Slots <- MCSlots
    Hosts <- MCHosts
    Names <- MCNames
    FpObjs <- MCFpObjs
    FpLen <- MCFpLen
    Pin <- MCPin
    MaxConns <- MCMaxConns
SPECIFICATION Spec
INVARIANT ServedUnderOwnServerName
CHECK_DEADLOCK FALSE
