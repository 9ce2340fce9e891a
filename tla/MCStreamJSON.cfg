SPECIFICATION Spec
CONSTANTS
    Wanted <- MCWanted
    KeyLimit = 9
    ValueLimit = 5
    MaxDepth = 5
    Starts <- MCStarts
INVARIANTS
    AgreesWithGrammar
    ExtractsSelected
\* A start's bytes run out, or the recognizer has failed: nothing more to feed.
CHECK_DEADLOCK FALSE
