CONSTANTS
    Absent = Absent
SPECIFICATION Spec
INVARIANT LengthHeadersExclusive
CHECK_DEADLOCK FALSE
