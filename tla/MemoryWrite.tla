---------------------------- MODULE MemoryWrite ----------------------------
(***************************************************************************)
(* The memory write pipeline: the candidate row, the ConflictDecision read *)
(* from memory_items, and the transaction that applies it                  *)
(* (memory/conflicts.py, memory/write.py and the repository statements     *)
(* they call).                                                             *)
(*                                                                         *)
(* The decision is read before the transaction begins, so writers on       *)
(* different connections interleave between the two.  The transaction only *)
(* writes, and is one step that commits or rolls back as a whole.          *)
(***************************************************************************)
CONSTANTS
    Writers,      \* pipeline invocations that may be in flight together
    Keys,         \* values of idempotency_key; they name a candidate's rows too
    DedupeKeys,   \* values of dedupe_key
    Submissions,  \* the candidates that may be submitted, with their assignment
    NoCandidate   \* the absent row

Submission == [key : Keys, dedupe_key : DedupeKeys,
               recommended_action : {"save_immediately", "stage"},
               \* none, or one whose foreign keys exist, or do not
               assignment : {"none", "sound", "dangling"}]

ASSUME SubmissionsAssumption ==
    /\ Submissions \subseteq Submission
    /\ NoCandidate \notin Submission

VARIABLES
    candidates,  \* memory_candidates, by idempotency_key
    items,       \* memory_items, by the key of the candidate they came from
    staged,      \* memory_staging, by idempotency_key
    assigned,    \* identifier_assignments written with a candidate
    audits,      \* audit_events of the pipeline
    wpc,         \* where each writer is
    submission,  \* what it was called with
    decision,    \* its ConflictDecision
    conflicts    \* conflict_memory_ids of that decision

tables == <<candidates, items, staged, assigned, audits>>
writerVars == <<wpc, submission, decision, conflicts>>
memoryVars == <<tables, writerVars>>

AuditType == {"memory_written", "memory_staged", "memory_duplicate_skipped"}
Audit == [event_type : AuditType, key : Keys, conflicts : SUBSET Keys]

MemoryTypeOK ==
    /\ candidates \in [Keys -> Submissions \cup {NoCandidate}]
    /\ items \subseteq Keys
    /\ staged \subseteq Keys
    /\ assigned \subseteq Keys
    /\ audits \subseteq Audit
    /\ wpc \in [Writers -> {"idle", "find_candidate", "insert_candidate", "decide", "apply"}]
    /\ submission \in [Writers -> Submissions \cup {NoCandidate}]
    /\ decision \in [Writers -> {"none", "write_memory", "stage_memory", "skip_duplicate"}]
    /\ conflicts \in [Writers -> SUBSET Keys]

MemoryInit ==
    /\ candidates = [k \in Keys |-> NoCandidate]
    /\ items = {}
    /\ staged = {}
    /\ assigned = {}
    /\ audits = {}
    /\ wpc = [w \in Writers |-> "idle"]
    /\ submission = [w \in Writers |-> NoCandidate]
    /\ decision = [w \in Writers |-> "none"]
    /\ conflicts = [w \in Writers |-> {}]

-----------------------------------------------------------------------------
Key(w) == submission[w].key
Stored(k) == candidates[k] # NoCandidate
Candidate(w) == candidates[Key(w)]

WriterGoto(w, where) == wpc' = [wpc EXCEPT ![w] = where]

\* The invocation returns, or ends with an exception: its locals are gone.
Leave(w) ==
    /\ WriterGoto(w, "idle")
    /\ submission' = [submission EXCEPT ![w] = NoCandidate]
    /\ decision' = [decision EXCEPT ![w] = "none"]
    /\ conflicts' = [conflicts EXCEPT ![w] = {}]

\* memory_items rows with the dedupe key; every row is active.
ActiveMemory(d) == {k \in items : candidates[k].dedupe_key = d}

-----------------------------------------------------------------------------
\* A caller hands a candidate over, one that was submitted before or not.
Submit(w, s) ==
    /\ wpc[w] = "idle"
    /\ WriterGoto(w, "find_candidate")
    /\ submission' = [submission EXCEPT ![w] = s]
    /\ UNCHANGED <<tables, decision, conflicts>>

\* persist_memory_candidate: the SELECT by idempotency key ...
FindCandidate(w) ==
    /\ wpc[w] = "find_candidate"
    /\ WriterGoto(w, IF Stored(Key(w)) THEN "decide" ELSE "insert_candidate")
    /\ UNCHANGED <<tables, submission, decision, conflicts>>

\* ... and the INSERT, refused when another writer was faster.
InsertCandidate(w) ==
    /\ wpc[w] = "insert_candidate"
    /\ ~Stored(Key(w))
    /\ candidates' = [candidates EXCEPT ![Key(w)] = submission[w]]
    /\ WriterGoto(w, "decide")
    /\ UNCHANGED <<items, staged, assigned, audits, submission, decision, conflicts>>

CandidateTaken(w) ==
    /\ wpc[w] = "insert_candidate"
    /\ Stored(Key(w))
    /\ Leave(w)
    /\ UNCHANGED tables

\* Mutants: the recommendation is the action; staged candidates count as
\* conflicts; the recommendation is not looked at; it is looked at first.
DecideAsRecommended(w) ==
    /\ wpc[w] = "decide"
    /\ decision' = [decision EXCEPT ![w] = Candidate(w).recommended_action]
    /\ WriterGoto(w, "apply")
    /\ UNCHANGED <<tables, submission, conflicts>>
DecideOnStaged(w) ==
    LET found == {k \in items \cup staged :
                    candidates[k].dedupe_key = Candidate(w).dedupe_key} IN
    /\ wpc[w] = "decide"
    /\ decision' = [decision EXCEPT ![w] =
          CASE found # {} -> "skip_duplicate"
            [] found = {} /\ Candidate(w).recommended_action = "save_immediately" -> "write_memory"
            [] OTHER -> "stage_memory"]
    /\ conflicts' = [conflicts EXCEPT ![w] = found]
    /\ WriterGoto(w, "apply")
    /\ UNCHANGED <<tables, submission>>
DecideToWrite(w) ==
    LET found == ActiveMemory(Candidate(w).dedupe_key) IN
    /\ wpc[w] = "decide"
    /\ decision' = [decision EXCEPT ![w] =
          IF found # {} THEN "skip_duplicate" ELSE "write_memory"]
    /\ conflicts' = [conflicts EXCEPT ![w] = found]
    /\ WriterGoto(w, "apply")
    /\ UNCHANGED <<tables, submission>>
DecideByRecommendation(w) ==
    LET found == ActiveMemory(Candidate(w).dedupe_key) IN
    /\ wpc[w] = "decide"
    /\ decision' = [decision EXCEPT ![w] =
          CASE Candidate(w).recommended_action = "stage" -> "stage_memory"
            [] OTHER -> IF found # {} THEN "skip_duplicate" ELSE "write_memory"]
    /\ conflicts' = [conflicts EXCEPT ![w] = found]
    /\ WriterGoto(w, "apply")
    /\ UNCHANGED <<tables, submission>>

\* ConflictResolver.decide on the stored candidate.
Decide(w) ==
    LET found == ActiveMemory(Candidate(w).dedupe_key) IN
    /\ wpc[w] = "decide"
    /\ decision' = [decision EXCEPT ![w] =
          CASE found # {} -> "skip_duplicate"
            [] found = {} /\ Candidate(w).recommended_action = "save_immediately" -> "write_memory"
            [] OTHER -> "stage_memory"]
    /\ conflicts' = [conflicts EXCEPT ![w] = found]
    /\ WriterGoto(w, "apply")
    /\ UNCHANGED <<tables, submission>>

-----------------------------------------------------------------------------
\* apply_conflict_decision_atomic, one branch of the decision each.
Applying(w, action) == wpc[w] = "apply" /\ decision[w] = action

AuditRow(w, type) == [event_type |-> type, key |-> Key(w), conflicts |-> conflicts[w]]

SkipDuplicate(w) ==
    /\ Applying(w, "skip_duplicate")
    /\ audits' = audits \cup {AuditRow(w, "memory_duplicate_skipped")}
    /\ Leave(w)
    /\ UNCHANGED <<candidates, items, staged, assigned>>

\* The constraints of memory_staging: a row of a stored candidate, with an
\* idempotency key of its own.
StagingAllowed(w) == Stored(Key(w)) /\ Key(w) \notin staged

StageMemory(w) ==
    /\ Applying(w, "stage_memory")
    /\ StagingAllowed(w)
    /\ staged' = staged \cup {Key(w)}
    /\ audits' = audits \cup {AuditRow(w, "memory_staged")}
    /\ Leave(w)
    /\ UNCHANGED <<candidates, items, assigned>>

\* Mutant: no unique index.
Unindexed(w) == TRUE

\* uniq_active_memory_dedupe: the dedupe key of active memory is unique.
KeyFree(w) == ActiveMemory(Candidate(w).dedupe_key) = {}

\* What the constraints let through: the assignment's foreign keys, and the
\* index of memory_items.
WriteAllowed(w) == submission[w].assignment # "dangling" /\ KeyFree(w)

WriteMemory(w) ==
    /\ Applying(w, "write_memory")
    /\ WriteAllowed(w)
    /\ assigned' = IF submission[w].assignment = "none" THEN assigned
                   ELSE assigned \cup {Key(w)}
    /\ items' = items \cup {Key(w)}
    /\ audits' = audits \cup {AuditRow(w, "memory_written")}
    /\ Leave(w)
    /\ UNCHANGED <<candidates, staged>>

\* Mutant: the assignment is inserted before the transaction begins.
RollBackMemoryOnly(w) ==
    /\ \/ Applying(w, "write_memory") /\ ~WriteAllowed(w)
       \/ Applying(w, "stage_memory") /\ ~StagingAllowed(w)
    /\ assigned' = IF submission[w].assignment = "sound" THEN assigned \cup {Key(w)}
                   ELSE assigned
    /\ Leave(w)
    /\ UNCHANGED <<candidates, items, staged, audits>>

\* A constraint fails: IntegrityError, everything is rolled back, and the
\* error goes up through the caller.
RollBack(w) ==
    /\ \/ Applying(w, "write_memory") /\ ~WriteAllowed(w)
       \/ Applying(w, "stage_memory") /\ ~StagingAllowed(w)
    /\ Leave(w)
    /\ UNCHANGED tables

\* The writer dies between two statements; an open transaction is undone.
WriterCrash(w) ==
    /\ wpc[w] # "idle"
    /\ Leave(w)
    /\ UNCHANGED tables

-----------------------------------------------------------------------------
WriterStep(w) ==
    \/ FindCandidate(w) \/ InsertCandidate(w) \/ CandidateTaken(w)
    \/ Decide(w)
    \/ SkipDuplicate(w) \/ StageMemory(w) \/ WriteMemory(w) \/ RollBack(w)

MemoryNextNoCrash ==
    \E w \in Writers : WriterStep(w) \/ \E s \in Submissions : Submit(w, s)

MemoryNext == MemoryNextNoCrash \/ \E w \in Writers : WriterCrash(w)

MemorySpec == MemoryInit /\ [][MemoryNext]_memoryVars

\* A writer that was started goes on until it ends or dies.
MemoryFairSpec == MemorySpec /\ \A w \in Writers : WF_memoryVars(WriterStep(w))

-----------------------------------------------------------------------------
(* At most one active memory carries a dedupe key, however many writers    *)
(* decided to write it on the same empty answer.                           *)
OneMemoryPerDedupeKey ==
    \A j, k \in items : candidates[j].dedupe_key = candidates[k].dedupe_key => j = k

(* Memory, staging, identity assignment and audit are written together or  *)
(* not at all, and a candidate is never both remembered and under review.  *)
OutcomesAtomic ==
    /\ \A k \in Keys :
          /\ k \in items <=> \E a \in audits : a.event_type = "memory_written" /\ a.key = k
          /\ k \in staged <=> \E a \in audits : a.event_type = "memory_staged" /\ a.key = k
    /\ assigned \subseteq items
    /\ items \cap staged = {}

(* The audit of a skipped duplicate names memory that is there and carries *)
(* the candidate's dedupe key.                                             *)
SkipsJustified ==
    \A a \in audits : a.event_type = "memory_duplicate_skipped" =>
        /\ a.conflicts # {}
        /\ a.conflicts \subseteq ActiveMemory(candidates[a.key].dedupe_key)

(* Nothing is remembered, and nothing staged, but a stored candidate, and  *)
(* only by the action it recommends.                                       *)
ConflictDecisionNotBypassed ==
    \A k \in items \cup staged :
        /\ Stored(k)
        /\ k \in items <=> candidates[k].recommended_action = "save_immediately"

\* A caller that waits for one pipeline before it starts another.
OneWriterAtATime == \A v, w \in Writers : wpc[v] # "idle" /\ wpc[w] # "idle" => v = w

(* When one pipeline runs at a time, dead ones included, a candidate goes  *)
(* to review only while no active memory says the same: the decision still *)
(* holds when it is applied.                                               *)
StagedWhileNew ==
    []OneWriterAtATime =>
        [](\A w \in Writers : Applying(w, "stage_memory") =>
              ActiveMemory(Candidate(w).dedupe_key) = {})

(* When writers die no more from some point on, a candidate to be saved at *)
(* once, with a sound assignment or none, that is submitted again and      *)
(* again ends up as active memory of its dedupe key: its own, or that of a *)
(* writer it lost to.                                                      *)
SavedMemoryLands ==
    <>[][\A w \in Writers : WriterCrash(w) => WriterStep(w)]_memoryVars =>
        \A s \in {t \in Submissions : /\ t.recommended_action = "save_immediately"
                                      /\ t.assignment # "dangling"} :
            []<><<\E w \in Writers : Submit(w, s)>>_memoryVars
                => <>(ActiveMemory(s.dedupe_key) # {})

-----------------------------------------------------------------------------
\* The promise it keeps.
Skipped == {a \in audits : a.event_type = "memory_duplicate_skipped"}

Book == INSTANCE MemoryBook WITH
    proposed <- candidates,
    memory <- items,
    identities <- assigned,
    review <- staged,
    duplicates <- {<<a.key, a.conflicts>> : a \in Skipped}

(* Behind any number of racing and dying writers, the pipeline behaves as  *)
(* the book of MemoryBook: one step of it or none.                         *)
ImplementsBook == Book!Spec
=============================================================================
