\* One process, and a decision may hold a dict with a key named summary.
SPECIFICATION LlmSpec
CONSTANTS
    r1 = r1
    r2 = r2
    t1 = t1
    t2 = t2
    DedupeKeys = {"tea", "cat"}
    Stage0Payloads <- MCStage0
    Stage1Payloads <- MCSummaryStage1
    Stage2Payloads <- MCStage2
    Runs = {r1}
    Tracks = {t1}
    MemoryIds = {"m1", "m2"}
    Memories = {"m2"}
    LLM_CONTEXT_LAST_MESSAGES = 2
    SELECTED_MEMORY_MAX_ITEMS = 1
    MaxMessages = 2
INVARIANT EveryMessageAnswered
\* The messages are bounded, so the last process ends and nothing follows.
CHECK_DEADLOCK FALSE
