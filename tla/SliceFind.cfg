SPECIFICATION FindSpec
CONSTANTS
    Char = {a, b}
    npos = npos
    Texts <- MCTexts
    Patterns <- MCPatterns
INVARIANTS
    FoundIsOccurrence
    FindsFirst
    InternalFindsFirst
\* find stops when it is done
CHECK_DEADLOCK FALSE
