\* A handler that may die, and an executor that never stops repeating.
SPECIFICATION RetryingSpec
CONSTANTS
    w1 = w1
    w2 = w2
    k1 = k1
    NoCallback = NoCallback
    Executors <- MCExecutors
    Workers = {w1}
    Events = {"e1", "e2"}
    Capsules = {k1}
    Callbacks <- MCRetryCallbacks
PROPERTY RetriedCallbackSettles
