SPECIFICATION CatalogSpec
CONSTANTS
    p1 = p1
    p2 = p2
    Process = {p1, p2}
    TableOf <- Tables
    Excluded = {"credits"}
    Reserved = {"id", "deleted", "_updated_at"}
    Compatibility <- Compat
    Task <- Tasks
    Specs <- Documents
    Depths <- AllDepths
    Bundled = "now"
    Cdn <- OfCdn
    Dated <- OfDay
    MaxSetups = 2
    MaxFaults = 2
SYMMETRY Processes
INVARIANTS
    SpecsAreSound
    TablesAreSound
CHECK_DEADLOCK FALSE
