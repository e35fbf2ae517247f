SPECIFICATION FairSpec
CONSTANTS
    Configs <- Ways
    MaxSockets = 3
    MaxEvents = 3
INVARIANTS
    InputsAreSound
    ConnectionsAreSound
PROPERTIES
    InputsGoOn
CHECK_DEADLOCK FALSE
