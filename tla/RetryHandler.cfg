SPECIFICATION FairSpec
CONSTANTS
    c1 = c1
    c2 = c2
    Calls = {c1, c2}
    Timed = {c1}
    maxAttempts = 3
    initialDelay = 1
    maxDelay = 2
    backoffMultiplier = 2
    strategy = "Exponential"
    attemptTimeout = 1
    retryAllErrors = FALSE
    retryOnTimeout = TRUE
    Retryable = {"transient", "open"}
    failureThreshold = 2
    resetTimeout = 2
    successThreshold = 2
    failureWindow = 2
    minDelay = 2
INVARIANT HonestResult
PROPERTIES QuietWhileOpen EventuallyAnswered
