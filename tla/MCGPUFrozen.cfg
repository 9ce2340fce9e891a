SPECIFICATION Spec
CONSTANTS
    Nil = Nil
    Card <- MCCard
    Backend = {"linux", "darwin", "other"}
    Contents <- MCContents
    IORegOutputs <- MCIORegOutputs
    Machines <- MCMachines
    Totals = {0, 16}
    MaxChanges <- MCMaxChanges
CHECK_DEADLOCK FALSE
PROPERTY
    UnreadableIsAbsent
