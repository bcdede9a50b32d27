\* One run at a time and a callback handler, none of which dies.
SPECIFICATION BrainCrashFreeSpec
CONSTANTS
    r1 = r1
    r2 = r2
    t1 = t1
    t2 = t2
    u1 = u1
    u2 = u2
    u3 = u3
    l1 = l1
    w1 = w1
    NoCandidate = NoCandidate
    NoRow = NoRow
    NoCallback = NoCallback
    Threads = {"h1"}
    Texts = {"delegate", "note"}
    DedupeKeys = {"delegate", "note"}
    Normal <- MCNormal
    Delegating = {"delegate"}
    Remembering = {}
    Blank = {}
    Submissions <- MCSubmissions
    Messages <- MCMessages
    Executors <- MCExecutors
    Callbacks <- MCCallbacks
    Events = {"e1"}
    LlmRuns = {}
    Handlers = {w1}
    Keys = {u1, u2}
    MaxDeliveries = 2
    Writers = {r1}
    Tracks = {t1}
PROPERTY FeedbackReachesTrack
CHECK_DEADLOCK FALSE
