CONSTANTS
    NULL = NULL
    Absent = Absent
    Script <- LegacyScript
    MaxRuns = 3
    MaxFaults = 2

SPECIFICATION Spec

INVARIANT NoSchemaError
INVARIANT CleanRunSucceeds
 
