CONSTANTS
    NULL = NULL
    Absent = Absent
    Script <- CurrentScript
    MaxRuns = 2
    MaxFaults = 1

SPECIFICATION Spec

INVARIANT TypeOK
INVARIANT NoSchemaError
PROPERTY WritesConfined
