CONSTANTS
    Absent = Absent
SPECIFICATION Spec
INVARIANT CompressionAnnounced
CHECK_DEADLOCK FALSE
