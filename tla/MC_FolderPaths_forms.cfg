CONSTANTS
    Null = Null
    MaxLen = 3
    MaxEdits = 1

SPECIFICATION Spec

INVARIANT SlashAndBackslashFormsAgree
