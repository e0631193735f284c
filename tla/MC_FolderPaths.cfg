CONSTANTS
    Null = Null
    MaxLen = 3
    MaxEdits = 2

SPECIFICATION Spec

INVARIANT RenderedFoldersTrimmed
