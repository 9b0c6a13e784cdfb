CONSTANTS
    Absent = Absent
SPECIFICATION Spec
INVARIANT WireFramingMatchesHeaders
CHECK_DEADLOCK FALSE
