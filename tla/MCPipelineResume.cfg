SPECIFICATION Spec
CONSTANTS
    Events = {e1}
    WebhookEvents = {}
    LiveEventBatchSize = 1
    ContinueAsNewThreshold = 3
    Pages = 1
    MaxBackfills = 2
    MaxToggles = 2
INVARIANT ResumeRestartsLoops
CHECK_DEADLOCK FALSE
