\* Two graph runs, a run of the LLM path and a callback handler, any of which
\* may die.
SPECIFICATION BrainSpec
CONSTANTS
    r1 = r1
    r2 = r2
    t1 = t1
    t2 = t2
    u1 = u1
    u2 = u2
    u3 = u3
    l1 = l1
    w1 = w1
    NoCandidate = NoCandidate
    NoRow = NoRow
    NoCallback = NoCallback
    Threads = {"h1"}
    Texts = {"delegate", "note"}
    DedupeKeys = {"delegate", "note"}
    Normal <- MCNormal
    Delegating = {"delegate"}
    Remembering = {}
    Blank = {}
    Submissions <- MCSubmissions
    Messages <- MCMessages
    Executors <- MCExecutors
    Callbacks <- MCCallbacks
    Events = {"e1"}
    LlmRuns = {l1}
    Handlers = {w1}
    Keys = {u1, u2, u3}
    MaxDeliveries = 2
    Writers = {r1, r2}
    Tracks = {t1, t2}
SYMMETRY Symmetry
INVARIANTS
    EventsHaveTrack
    CompletedWasDelegated
PROPERTIES
    ServesCallbacks
    OnlyLlmTurnsEndWaits
