CONSTANTS
    NULL = NULL
    Absent = Absent
    Script <- CurrentScript
    MaxRuns = 1
    MaxFaults = 0

SPECIFICATION Spec

INVARIANT CleanRunSucceeds
