SPECIFICATION SetupSpec
CONSTANTS
    Stream = {"s", "t"}
    Layouts <- Grown
    PrimaryKey <- Key
    Linked = {"s"}
    Examples <- Sums
    Width = 6
    MaxSetups = 3
    MaxFaults = 1
INVARIANTS
    SetupSound
PROPERTIES
    EnumsKept
CHECK_DEADLOCK FALSE
