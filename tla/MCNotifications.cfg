CONSTANTS
    Approvals = {p1}
    Events <- ReviewAndApproval
    Requests = {r1}
    Crons = {c1}
    MaxAttempts = 2
    LeaseTime = 1
    Backoff = 2
    InlineDelay = 1
    InlineCap = 1
    RetryAfters = {0}
    MaxAge = 1
    MaxCrashes = 1
    Alerts = {a1}
    Backgrounds = {r1}
    MaxAlertAttempts = 3
    Sweepers = {c1}
    AlertLease = 1
    AlertBackoff = 2
    AlertRetryAfters = {0}
    MaxPassAge = 1
    MaxLosses = 1
SPECIFICATION FairQueues
INVARIANTS
    EveryAttemptIsLogged
    QueuedIsClaimable
    ResolutionsFollowTheReview
    AlertAttemptsAreLogged
PROPERTIES
    NotificationsSettle
    ResolutionsAreQueued
    AlertsSettle
