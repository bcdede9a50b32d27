\* A callback of an executor that does not own the task.
SPECIFICATION Spec
CONSTANTS
    w1 = w1
    w2 = w2
    k1 = k1
    NoCallback = NoCallback
    Executors <- MCExecutors
    Workers = {w1}
    Events = {"e3"}
    Capsules = {k1}
    Callbacks <- MCMismatchCallbacks
INVARIANT AppliedAfterGraphSuccess
