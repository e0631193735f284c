CONSTANTS
    NULL = NULL
    Absent = Absent
    Script <- CurrentScriptPeersNullable
    MaxInserts = 3

SPECIFICATION Spec

INVARIANT SequencesAtOnePastMax
