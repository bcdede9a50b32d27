\* Two processes, either of which may die; no decision has a summary.
SPECIFICATION LlmSpec
CONSTANTS
    r1 = r1
    r2 = r2
    t1 = t1
    t2 = t2
    DedupeKeys = {"tea", "cat"}
    Stage0Payloads <- MCStage0
    Stage1Payloads <- MCPlainStage1
    Stage2Payloads <- MCStage2
    Runs = {r1, r2}
    Tracks = {t1, t2}
    MemoryIds = {"m1", "m2"}
    Memories = {"m2"}
    LLM_CONTEXT_LAST_MESSAGES = 2
    SELECTED_MEMORY_MAX_ITEMS = 1
    MaxMessages = 3
SYMMETRY Symmetry
INVARIANTS
    LlmTypeOK
    AnswersComplete
    ActsRepaired
    SelectionPartitioned
    ContextIsTail
    AnalysisCoversContext
    EveryMessageAnswered
\* The messages are bounded, so the last process ends and nothing follows.
CHECK_DEADLOCK FALSE
