SPECIFICATION Spec
CONSTANTS
    Nil = Nil
    Card <- MCCard
    Backend = {"linux", "darwin", "other"}
    Contents <- MCContents
    IORegOutputs <- MCIORegOutputs
    Machines <- MCMachines
    Totals = {0, 16}
    MaxChanges <- MCMaxChanges
INVARIANTS
    NeverFrozen
    OneNoticePerChange
PROPERTIES
    Settles
    StopsOnCancel
\* A cancelled collector has returned from Run and takes no further step.
CHECK_DEADLOCK FALSE
