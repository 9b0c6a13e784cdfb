CONSTANTS
    Absent = Absent
SPECIFICATION Spec
INVARIANT OnlyConflictsRejected
CHECK_DEADLOCK FALSE
