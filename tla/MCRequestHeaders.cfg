CONSTANTS
    Absent = Absent
SPECIFICATION Spec
INVARIANT TypeOK ConflictsRejected BodyLengthAnnounced
CHECK_DEADLOCK FALSE
