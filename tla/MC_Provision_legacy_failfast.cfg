CONSTANTS
    NULL = NULL
    Absent = Absent
    Script <- LegacyScript
    MaxRuns = 1
    MaxFaults = 0

SPECIFICATION Spec

PROPERTY WritesConfined
