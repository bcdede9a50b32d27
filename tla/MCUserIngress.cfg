\* Two runs, at work together or not, either of which may die anywhere.
SPECIFICATION UserSpec
CONSTANTS
    r1 = r1
    r2 = r2
    t1 = t1
    t2 = t2
    t3 = t3
    u1 = u1
    u2 = u2
    u3 = u3
    NoCandidate = NoCandidate
    NoRow = NoRow
    Threads = {"h1", "h2"}
    DedupeKeys = {"a", "b", "blank"}
    Texts = {"delegate: a", "Delegate: a", "remember: b", " "}
    Normal <- MCNormal
    Delegating = {"delegate: a", "Delegate: a"}
    Remembering = {"remember: b"}
    Blank = {" "}
    Submissions <- MCSubmissions
    Writers = {r1, r2}
    Tracks = {t1, t2, t3}
    Keys = {u1, u2, u3}
    MaxDeliveries = 3
    Messages <- MCMessages
SYMMETRY Symmetry
INVARIANTS
    UserTypeOK
    ReferencesAgree
    WaitingHasTask
    MemoryHasItsTurn
    OneTrackPerThread
    TracksOwnTheirTurns
    StatusesAgree
    EveryTurnServed
\* The deliveries are bounded, so the last run ends and nothing follows.
CHECK_DEADLOCK FALSE
