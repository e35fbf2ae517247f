SPECIFICATION FairSpec
CONSTANTS
    Events = {e1, e2, e3}
    WebhookEvents = {w1}
    LiveEventBatchSize = 2
    ContinueAsNewThreshold = 3
    Pages = 2
    MaxBackfills = 3
    MaxToggles = 3
INVARIANTS
    TypeOK
    EventsInOrder
PROPERTIES
    SyncStateAdvances
    WorkflowGoesOn
CHECK_DEADLOCK FALSE
