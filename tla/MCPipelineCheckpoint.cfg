SPECIFICATION Spec
CONSTANTS
    Events = {e1}
    WebhookEvents = {}
    LiveEventBatchSize = 1
    ContinueAsNewThreshold = 3
    Pages = 2
    MaxBackfills = 2
    MaxToggles = 2
PROPERTY StoredCheckpointKept
CHECK_DEADLOCK FALSE
