-------------------------- MODULE MemoryWriteProofs --------------------------
(***************************************************************************)
(* What holds of MemoryWrite for any set of writers, candidates and        *)
(* dedupe keys.                                                            *)
(***************************************************************************)
EXTENDS MemoryWrite, TLAPS

\* What a writer carries is what it was called with, and past the candidate
\* steps the row it works on is stored.
WriterHolds ==
    \A w \in Writers :
        /\ wpc[w] # "idle" => submission[w] \in Submissions
        /\ wpc[w] \in {"decide", "apply"} => Stored(Key(w))

MemoryTypeInv == MemoryTypeOK /\ WriterHolds

LEMMA SubmissionFields ==
    ASSUME NEW s \in Submissions
    PROVE  /\ s # NoCandidate
           /\ s.key \in Keys
           /\ s.dedupe_key \in DedupeKeys
  BY SubmissionsAssumption DEF Submission

LEMMA AuditRowTyped ==
    ASSUME MemoryTypeInv, NEW w \in Writers, wpc[w] # "idle",
           NEW type \in AuditType
    PROVE  AuditRow(w, type) \in Audit
  BY SubmissionFields DEF MemoryTypeInv, MemoryTypeOK, WriterHolds, AuditRow, Audit, Key

LEMMA MemoryTypeInit == MemoryInit => MemoryTypeInv
  BY DEF MemoryInit, MemoryTypeInv, MemoryTypeOK, WriterHolds

LEMMA MemoryTypeNext == MemoryTypeInv /\ [MemoryNext]_memoryVars => MemoryTypeInv'
  <1> SUFFICES ASSUME MemoryTypeInv, [MemoryNext]_memoryVars PROVE MemoryTypeInv'
    OBVIOUS
  <1> USE SubmissionFields
      DEF MemoryTypeInv, MemoryTypeOK, WriterHolds, Stored, Key, Candidate,
          WriterGoto, Leave, Applying, tables
  <1>1. ASSUME NEW w \in Writers, NEW s \in Submissions, Submit(w, s) PROVE MemoryTypeInv'
    BY <1>1 DEF Submit
  <1>2. ASSUME NEW w \in Writers, WriterStep(w) PROVE MemoryTypeInv'
    <2>1. CASE FindCandidate(w)
      BY <2>1 DEF FindCandidate
    <2>2. CASE InsertCandidate(w)
      BY <2>2 DEF InsertCandidate
    <2>3. CASE CandidateTaken(w)
      BY <2>3 DEF CandidateTaken
    <2>4. CASE Decide(w)
      BY <2>4 DEF Decide, ActiveMemory
    <2>5. CASE SkipDuplicate(w)
      BY <2>5, AuditRowTyped DEF SkipDuplicate, AuditType
    <2>6. CASE StageMemory(w)
      BY <2>6, AuditRowTyped DEF StageMemory, AuditType
    <2>7. CASE WriteMemory(w)
      BY <2>7, AuditRowTyped DEF WriteMemory, AuditType
    <2>8. CASE RollBack(w)
      BY <2>8 DEF RollBack
    <2>9. QED
      BY <1>2, <2>1, <2>2, <2>3, <2>4, <2>5, <2>6, <2>7, <2>8 DEF WriterStep
  <1>3. ASSUME NEW w \in Writers, WriterCrash(w) PROVE MemoryTypeInv'
    BY <1>3 DEF WriterCrash
  <1>4. CASE UNCHANGED memoryVars
    BY <1>4 DEF memoryVars, writerVars
  <1>5. QED
    BY <1>1, <1>2, <1>3, <1>4 DEF MemoryNext, MemoryNextNoCrash

LEMMA MemoryTypeAlways == MemorySpec => []MemoryTypeInv
  BY MemoryTypeInit, MemoryTypeNext, PTL DEF MemorySpec

(* Rows, audit records and decisions keep their type: no step works on a   *)
(* candidate that was not stored first.                                    *)
THEOREM MemoryTypeCorrect == MemorySpec => []MemoryTypeOK
  <1>1. MemoryTypeInv => MemoryTypeOK
    BY DEF MemoryTypeInv
  <1>2. QED
    BY <1>1, MemoryTypeAlways, PTL

-----------------------------------------------------------------------------
\* What a decision on its way to the tables is known to rest on, whatever
\* other writers did since it was read: the recommendation never changes,
\* and memory found once stays.
DecisionRests ==
    \A w \in Writers : wpc[w] = "apply" =>
        /\ decision[w] = "write_memory" =>
              Candidate(w).recommended_action = "save_immediately"
        /\ decision[w] = "stage_memory" => Candidate(w).recommended_action = "stage"
        /\ decision[w] = "skip_duplicate" =>
              /\ conflicts[w] # {}
              /\ conflicts[w] \subseteq ActiveMemory(Candidate(w).dedupe_key)

\* A skipped candidate is stored.
SkippedStored ==
    \A a \in audits : Stored(a.key)

MemoryInv ==
    /\ DecisionRests
    /\ SkippedStored
    /\ OneMemoryPerDedupeKey
    /\ OutcomesAtomic
    /\ SkipsJustified
    /\ ConflictDecisionNotBypassed

LEMMA MemoryInvInit == MemoryInit => MemoryInv
  BY DEF MemoryInit, MemoryInv, DecisionRests, SkippedStored, OneMemoryPerDedupeKey,
         OutcomesAtomic, SkipsJustified, ConflictDecisionNotBypassed

LEMMA MemoryInvNext ==
    MemoryTypeInv /\ MemoryTypeInv' /\ MemoryInv /\ [MemoryNext]_memoryVars => MemoryInv'
  <1> SUFFICES ASSUME MemoryTypeInv, MemoryTypeInv', MemoryInv, [MemoryNext]_memoryVars
               PROVE  MemoryInv'
    OBVIOUS
  <1> USE SubmissionFields
      DEF MemoryInv, DecisionRests, SkippedStored, OneMemoryPerDedupeKey,
          OutcomesAtomic, SkipsJustified, ConflictDecisionNotBypassed, ActiveMemory,
          MemoryTypeInv, MemoryTypeOK, WriterHolds, Stored, Key, Candidate,
          WriterGoto, Leave, Applying, tables
  <1>1. ASSUME NEW w \in Writers, NEW s \in Submissions, Submit(w, s) PROVE MemoryInv'
    BY <1>1 DEF Submit
  <1>2. ASSUME NEW w \in Writers, WriterStep(w) PROVE MemoryInv'
    <2>1. CASE FindCandidate(w)
      BY <2>1 DEF FindCandidate
    <2>2. CASE InsertCandidate(w)
      BY <2>2 DEF InsertCandidate
    <2>3. CASE CandidateTaken(w)
      BY <2>3 DEF CandidateTaken
    <2>4. CASE Decide(w)
      BY <2>4, SubmissionsAssumption DEF Decide, Submission
    <2>5. CASE SkipDuplicate(w)
      BY <2>5 DEF SkipDuplicate, AuditRow
    <2>6. CASE StageMemory(w)
      <3>1. /\ wpc[w] = "apply"
            /\ Key(w) \in Keys
            /\ UNCHANGED candidates
        BY <2>6 DEF StageMemory
      <3>2. DecisionRests'
        BY <2>6, <3>1 DEF StageMemory
      <3>3. SkippedStored' /\ OneMemoryPerDedupeKey' /\ ConflictDecisionNotBypassed'
        BY <2>6, <3>1 DEF StageMemory, AuditRow
      <3>4. OutcomesAtomic'
        <4> DEFINE new == AuditRow(w, "memory_staged")
        <4>1. /\ audits' = audits \cup {new}
              /\ staged' = staged \cup {Key(w)}
              /\ items' = items
          BY <2>6 DEF StageMemory
        <4>2. new.event_type = "memory_staged" /\ new.key = Key(w)
          BY DEF AuditRow
        <4>3. Key(w) \notin items
          BY <2>6, <3>1 DEF StageMemory
        <4>4. assigned' \subseteq items'
          BY <2>6 DEF StageMemory
        <4> HIDE DEF new
        <4>5. \A k \in Keys : k \in staged' <=>
                 \E a \in audits' : a.event_type = "memory_staged" /\ a.key = k
          BY <4>1, <4>2
        <4>6. \A k \in Keys : k \in items' <=>
                 \E a \in audits' : a.event_type = "memory_written" /\ a.key = k
          BY <4>1, <4>2
        <4>7. QED
          BY <4>1, <4>3, <4>4, <4>5, <4>6
      <3>5. SkipsJustified'
        BY <2>6, <3>1 DEF StageMemory, AuditRow
      <3>6. QED
        BY <3>2, <3>3, <3>4, <3>5
    <2>7. CASE WriteMemory(w)
      <3>1. /\ wpc[w] = "apply"
            /\ Key(w) \in Keys
            /\ UNCHANGED candidates
        BY <2>7 DEF WriteMemory
      <3>2. DecisionRests'
        BY <2>7, <3>1 DEF WriteMemory
      <3>3. SkippedStored' /\ OneMemoryPerDedupeKey' /\ ConflictDecisionNotBypassed'
        BY <2>7, <3>1 DEF WriteMemory, WriteAllowed, KeyFree, AuditRow
      <3>4. OutcomesAtomic'
        <4> DEFINE new == AuditRow(w, "memory_written")
        <4>1. /\ audits' = audits \cup {new}
              /\ items' = items \cup {Key(w)}
              /\ staged' = staged
          BY <2>7 DEF WriteMemory
        <4>2. new.event_type = "memory_written" /\ new.key = Key(w)
          BY DEF AuditRow
        <4>3. Key(w) \notin staged
          BY <2>7, <3>1 DEF WriteMemory
        <4>4. assigned' \subseteq items'
          BY <2>7 DEF WriteMemory
        <4> HIDE DEF new
        <4>5. \A k \in Keys : k \in items' <=>
                 \E a \in audits' : a.event_type = "memory_written" /\ a.key = k
          BY <4>1, <4>2
        <4>6. \A k \in Keys : k \in staged' <=>
                 \E a \in audits' : a.event_type = "memory_staged" /\ a.key = k
          BY <4>1, <4>2
        <4>7. QED
          BY <4>1, <4>3, <4>4, <4>5, <4>6
      <3>5. SkipsJustified'
        BY <2>7, <3>1 DEF WriteMemory, WriteAllowed, KeyFree, AuditRow
      <3>6. QED
        BY <3>2, <3>3, <3>4, <3>5
    <2>8. CASE RollBack(w)
      BY <2>8 DEF RollBack
    <2>9. QED
      BY <1>2, <2>1, <2>2, <2>3, <2>4, <2>5, <2>6, <2>7, <2>8 DEF WriterStep
  <1>3. ASSUME NEW w \in Writers, WriterCrash(w) PROVE MemoryInv'
    BY <1>3 DEF WriterCrash
  <1>4. CASE UNCHANGED memoryVars
    BY <1>4 DEF memoryVars, writerVars
  <1>5. QED
    BY <1>1, <1>2, <1>3, <1>4 DEF MemoryNext, MemoryNextNoCrash

LEMMA MemoryInvAlways == MemorySpec => []MemoryInv
  BY MemoryInvInit, MemoryInvNext, MemoryTypeAlways, PTL DEF MemorySpec

(* Writers racing on one dedupe key leave one active memory.               *)
THEOREM UniqueMemory == MemorySpec => []OneMemoryPerDedupeKey
  <1>1. MemoryInv => OneMemoryPerDedupeKey
    BY DEF MemoryInv
  <1>2. QED
    BY <1>1, MemoryInvAlways, PTL

(* Memory, review, identity and audit rows stand or fall together.         *)
THEOREM AtomicOutcomes == MemorySpec => []OutcomesAtomic
  <1>1. MemoryInv => OutcomesAtomic
    BY DEF MemoryInv
  <1>2. QED
    BY <1>1, MemoryInvAlways, PTL

(* A stale decision to skip is still a justified one when it is recorded.  *)
THEOREM JustifiedSkips == MemorySpec => []SkipsJustified
  <1>1. MemoryInv => SkipsJustified
    BY DEF MemoryInv
  <1>2. QED
    BY <1>1, MemoryInvAlways, PTL

(* No candidate reaches memory or review but by its own recommendation.    *)
THEOREM NoBypass == MemorySpec => []ConflictDecisionNotBypassed
  <1>1. MemoryInv => ConflictDecisionNotBypassed
    BY DEF MemoryInv
  <1>2. QED
    BY <1>1, MemoryInvAlways, PTL

-----------------------------------------------------------------------------
\* The decision to stage was made on an empty answer; only memory written by
\* another writer since could fill it.
StagingNew ==
    \A w \in Writers : Applying(w, "stage_memory") =>
        ActiveMemory(Candidate(w).dedupe_key) = {}

LEMMA StagingNewNext ==
    MemoryTypeInv /\ OneWriterAtATime /\ StagingNew /\ [MemoryNext]_memoryVars => StagingNew'
  <1> SUFFICES ASSUME MemoryTypeInv, OneWriterAtATime, StagingNew, [MemoryNext]_memoryVars
               PROVE  StagingNew'
    OBVIOUS
  <1> USE SubmissionFields
      DEF StagingNew, MemoryTypeInv, MemoryTypeOK, WriterHolds, Stored, Key, Candidate,
          ActiveMemory, Applying, WriterGoto, Leave, tables
  <1>1. ASSUME NEW w \in Writers, NEW s \in Submissions, Submit(w, s) PROVE StagingNew'
    BY <1>1 DEF Submit
  <1>2. ASSUME NEW w \in Writers, WriterStep(w) PROVE StagingNew'
    <2>1. CASE FindCandidate(w)
      BY <2>1 DEF FindCandidate
    <2>2. CASE InsertCandidate(w)
      BY <2>2 DEF InsertCandidate, OneWriterAtATime
    <2>3. CASE CandidateTaken(w)
      BY <2>3 DEF CandidateTaken
    <2>4. CASE Decide(w)
      BY <2>4 DEF Decide
    <2>5. CASE SkipDuplicate(w)
      BY <2>5 DEF SkipDuplicate
    <2>6. CASE StageMemory(w)
      BY <2>6 DEF StageMemory
    <2>7. CASE WriteMemory(w)
      \* No other writer holds a decision.
      BY <2>7 DEF WriteMemory, OneWriterAtATime
    <2>8. CASE RollBack(w)
      BY <2>8 DEF RollBack
    <2>9. QED
      BY <1>2, <2>1, <2>2, <2>3, <2>4, <2>5, <2>6, <2>7, <2>8 DEF WriterStep
  <1>3. ASSUME NEW w \in Writers, WriterCrash(w) PROVE StagingNew'
    BY <1>3 DEF WriterCrash
  <1>4. CASE UNCHANGED memoryVars
    BY <1>4 DEF memoryVars, writerVars
  <1>5. QED
    BY <1>1, <1>2, <1>3, <1>4 DEF MemoryNext, MemoryNextNoCrash

(* While a caller waits for one pipeline before it starts another, a       *)
(* candidate goes to review only while no active memory says the same,     *)
(* however many pipelines died on the way.                                 *)
THEOREM StagesWhatIsNew == MemorySpec => StagedWhileNew
  <1>1. MemoryInit => StagingNew
    BY DEF MemoryInit, StagingNew, Applying
  <1>2. MemorySpec /\ []OneWriterAtATime => []StagingNew
    BY <1>1, StagingNewNext, MemoryTypeAlways, PTL DEF MemorySpec
  <1>3. QED
    BY <1>2, PTL DEF StagedWhileNew, StagingNew

-----------------------------------------------------------------------------
\* The pairs of the book's duplicates.
Duplicates == {<<a.key, a.conflicts>> : a \in Skipped}

\* The step of a writer that adds no audit row of a skip adds no duplicate.
LEMMA DuplicatesStay ==
    ASSUME \/ audits' = audits
           \/ \E new : audits' = audits \cup {new} /\ new.event_type # "memory_duplicate_skipped"
    PROVE  Duplicates' = Duplicates
  <1>1. Skipped' = Skipped
    BY DEF Skipped
  <1>2. QED
    BY <1>1 DEF Duplicates

LEMMA DuplicateAdded ==
    ASSUME NEW new, audits' = audits \cup {new},
           new.event_type = "memory_duplicate_skipped"
    PROVE  Duplicates' = Duplicates \cup {<<new.key, new.conflicts>>}
  <1>1. Skipped' = Skipped \cup {new}
    BY DEF Skipped
  <1>2. QED
    BY <1>1 DEF Duplicates

\* What a decision to skip found is still all the memory there is of its
\* dedupe key.
LEMMA FoundIsAll ==
    ASSUME MemoryTypeInv, MemoryInv, NEW w \in Writers, Applying(w, "skip_duplicate")
    PROVE  conflicts[w] = ActiveMemory(Candidate(w).dedupe_key)
  BY DEF MemoryTypeInv, MemoryTypeOK, WriterHolds, MemoryInv, DecisionRests,
         OneMemoryPerDedupeKey, ActiveMemory, Applying, Candidate, Key

\* Each step of a writer is one of the book, or none.
LEMMA BookNext ==
    MemoryTypeInv /\ MemoryInv /\ [MemoryNext]_memoryVars => [Book!Next]_(Book!bookVars)
  <1> SUFFICES ASSUME MemoryTypeInv, MemoryInv, [MemoryNext]_memoryVars
               PROVE  [Book!Next]_(Book!bookVars)
    OBVIOUS
  <1> DEFINE Stutter == UNCHANGED <<candidates, items, assigned, staged, Duplicates>>
  <1>0. Stutter => [Book!Next]_(Book!bookVars)
    BY DEF Book!bookVars, Duplicates
  <1>a. ASSUME UNCHANGED tables PROVE Stutter
    BY <1>a, DuplicatesStay DEF tables
  <1>b. ASSUME NEW w \in Writers, wpc[w] = "apply"
        PROVE  /\ Key(w) \in Keys
               /\ Stored(Key(w))
               /\ Candidate(w) = candidates[Key(w)]
               /\ Book!Same(Key(w)) = ActiveMemory(Candidate(w).dedupe_key)
    BY <1>b, SubmissionFields
       DEF MemoryTypeInv, WriterHolds, Key, Candidate, Book!Same, ActiveMemory
  <1> HIDE DEF Stutter
  <1>1. ASSUME NEW w \in Writers, NEW s \in Submissions, Submit(w, s) PROVE Stutter
    BY <1>1, <1>a DEF Submit
  <1>2. ASSUME NEW w \in Writers, WriterStep(w) PROVE Stutter \/ Book!Next
    <2>1. CASE FindCandidate(w) \/ CandidateTaken(w) \/ Decide(w) \/ RollBack(w)
      BY <2>1, <1>a DEF FindCandidate, CandidateTaken, Decide, RollBack
    <2>2. CASE InsertCandidate(w)
      <3>1. submission[w] \in Submissions
        BY <2>2 DEF InsertCandidate, MemoryTypeInv, WriterHolds
      <3>2. Duplicates' = Duplicates
        BY <2>2, DuplicatesStay DEF InsertCandidate
      <3>3. Book!Propose(submission[w])
        BY <2>2, <3>2 DEF InsertCandidate, Stored, Key, Book!Propose, Duplicates
      <3>4. QED
        BY <3>1, <3>3 DEF Book!Next
    <2>3. CASE SkipDuplicate(w)
      <3> DEFINE new == AuditRow(w, "memory_duplicate_skipped")
      <3>1. new.event_type = "memory_duplicate_skipped" /\ new.key = Key(w)
            /\ new.conflicts = conflicts[w]
        BY DEF AuditRow
      <3>2. audits' = audits \cup {new}
        BY <2>3 DEF SkipDuplicate
      <3> HIDE DEF new
      <3>3. wpc[w] = "apply" /\ conflicts[w] = Book!Same(Key(w)) /\ conflicts[w] # {}
        BY <2>3, <1>b, FoundIsAll DEF SkipDuplicate, Applying, MemoryInv, DecisionRests
      <3>4. Duplicates' = Duplicates \cup {<<Key(w), Book!Same(Key(w))>>}
        BY <3>1, <3>2, <3>3, DuplicateAdded
      <3>5. Book!Repeat(Key(w))
        BY <2>3, <1>b, <3>3, <3>4 DEF SkipDuplicate, Stored, Book!Repeat, Duplicates
      <3>6. Key(w) \in Keys
        BY <1>b, <3>3
      <3>7. QED
        BY <3>5, <3>6 DEF Book!Next, Book!Repeat
    <2>4. CASE StageMemory(w)
      <3>1. Duplicates' = Duplicates
        BY <2>4, DuplicatesStay DEF StageMemory, AuditRow
      <3>2. wpc[w] = "apply" /\ Candidate(w).recommended_action = "stage"
        BY <2>4 DEF StageMemory, Applying, MemoryInv, DecisionRests
      <3>3. Book!Review(Key(w))
        BY <2>4, <1>b, <3>1, <3>2
           DEF StageMemory, StagingAllowed, Stored, Book!Review, Book!Recommends, Duplicates
      <3>4. QED
        BY <1>b, <3>2, <3>3 DEF Book!Next
    <2>5. CASE WriteMemory(w)
      <3>1. Duplicates' = Duplicates
        BY <2>5, DuplicatesStay DEF WriteMemory, AuditRow
      <3>2. wpc[w] = "apply" /\ Candidate(w).recommended_action = "save_immediately"
        BY <2>5 DEF WriteMemory, Applying, MemoryInv, DecisionRests
      <3>3. Book!Same(Key(w)) = {}
        BY <2>5, <1>b, <3>2 DEF WriteMemory, WriteAllowed, KeyFree
      <3>4. Book!Remember(Key(w))
        BY <2>5, <1>b, <3>1, <3>2, <3>3
           DEF WriteMemory, Stored, Book!Remember, Book!Recommends, Duplicates
      <3>5. QED
        BY <1>b, <3>2, <3>4 DEF Book!Next
    <2>6. QED
      BY <1>2, <2>1, <2>2, <2>3, <2>4, <2>5 DEF WriterStep
  <1>3. ASSUME NEW w \in Writers, WriterCrash(w) PROVE Stutter
    BY <1>3, <1>a DEF WriterCrash
  <1>4. CASE UNCHANGED memoryVars
    BY <1>4, <1>a, <1>0 DEF memoryVars
  <1>5. QED
    BY <1>0, <1>1, <1>2, <1>3, <1>4 DEF MemoryNext, MemoryNextNoCrash

(* The pipeline implements MemoryBook for any writers and candidates: what *)
(* was remembered or put up for review stays so, and a skip names exactly  *)
(* the memory that made the candidate a duplicate.                         *)
THEOREM KeepsTheBook == MemorySpec => ImplementsBook
  <1>1. MemoryInit => Book!Init
    BY DEF MemoryInit, Book!Init, Skipped
  <1>2. QED
    BY <1>1, BookNext, MemoryTypeAlways, MemoryInvAlways, PTL
       DEF MemorySpec, ImplementsBook, Book!Spec
=============================================================================
