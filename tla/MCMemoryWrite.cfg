\* Two racing writers, either of which may die anywhere.
SPECIFICATION MemoryFairSpec
CONSTANTS
    w1 = w1
    w2 = w2
    NoCandidate = NoCandidate
    Keys = {"c1", "c2", "c3", "c4"}
    DedupeKeys = {"tea", "cat"}
    Submissions <- MCSubmissions
    Writers = {w1, w2}
INVARIANTS
    MemoryTypeOK
    OneMemoryPerDedupeKey
    OutcomesAtomic
    SkipsJustified
PROPERTIES
    ImplementsBook
    StagedWhileNew
    SavedMemoryLands
