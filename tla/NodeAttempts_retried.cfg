CONSTANTS
    MaxRetries = 1
    MaxResumes = 1
    Callers = {0, 1}
    Slots = {0, 1}
    Repeatable = TRUE
SPECIFICATION Spec
PROPERTY CommittedIsNotRetried
CHECK_DEADLOCK FALSE
