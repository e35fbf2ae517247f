SPECIFICATION Spec
CONSTANTS
    Events = {e1}
    WebhookEvents = {w1}
    LiveEventBatchSize = 1
    ContinueAsNewThreshold = 3
    Pages = 1
    MaxBackfills = 2
    MaxToggles = 2
INVARIANT AckedEventsReachWorkflow
CHECK_DEADLOCK FALSE
