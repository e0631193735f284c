CONSTANTS
    NULL = NULL
    Absent = Absent
    Script <- LegacyScript
    MaxInserts = 3

SPECIFICATION Spec

INVARIANT TypeOK
INVARIANT NoDuplicateDefaultId
