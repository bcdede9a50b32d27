\* Two racing handlers, either of which may die anywhere.
SPECIFICATION HistorySpec
CONSTANTS
    w1 = w1
    w2 = w2
    k1 = k1
    NoCallback = NoCallback
    Workers = {w1, w2}
    Events = {"e1", "e2", "e3"}
    Capsules = {k1}
    Executors <- MCExecutors
    Callbacks <- MCCallbacks
INVARIANTS
    TypeOK
    AppliedFinalCompleted
    StaleIsSuperseded
    AttemptCountBounded
    RepliesTruthful
    AppliedFinalsCounted
    StaleNeverWrites
PROPERTIES
    FreshEventsApplied
    CompletionJustified
    ImplementsInbox
