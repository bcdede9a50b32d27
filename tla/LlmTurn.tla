------------------------------ MODULE LlmTurn ------------------------------
(***************************************************************************)
(* A message on the staged LLM path: cli.py run_llm_message, the           *)
(* orchestrator it drives and the contexts context_builder.py builds.      *)
(* Two transactions, with the provider calls between them outside any      *)
(* transaction: the user turn, and then the assistant turn with the        *)
(* analysis and the memory candidates.  Each SELECT of a context stands    *)
(* by itself, so other processes write between them.                       *)
(*                                                                         *)
(* A turn is its position in dialogue_turns.  The order of created_at may  *)
(* be another: the stamp of an assistant turn is taken before the second   *)
(* transaction has the write lock, and see ServerNow.  A track is opened   *)
(* in the transaction of its first turn.                                   *)
(***************************************************************************)
EXTENDS LlmContracts, ServerNow

CONSTANTS
    Runs,             \* CLI processes that may be at work together
    Tracks,           \* one for each thread
    MemoryIds,        \* ids the model may ask for, of memory or not
    Memories,         \* those that other processes may make active memory
    DedupeKeys,       \* dedupe keys of the model's memory candidates
    Stage0Payloads,   \* what the model may answer to each request
    Stage1Payloads,
    Stage2Payloads,
    LLM_CONTEXT_LAST_MESSAGES,
    SELECTED_MEMORY_MAX_ITEMS,
    MaxMessages       \* bound: user messages altogether

\* What build_llm_memory_candidates does with it: it keeps it, or skips it
\* for a rule it breaks, or raises, on a recommended_action that has no hash
\* or an integer confidence that is no float.
RawCandidate == [dedupe_key : DedupeKeys, fate : {"kept", "skipped", "raises"}]
\* `summary`: some dict in it has that key, which no contract forbids.
Decision == [memory_candidates : SUBSET RawCandidate, summary : BOOLEAN,
             text : Text, selected : Seq(MemoryIds)]
NoDecision == [memory_candidates |-> {}, summary |-> FALSE, text |-> "", selected |-> <<>>]
NoFrame == [raw |-> <<>>, acts |-> <<>>]

\* The JSON objects the provider's answers hold.
Stage0Payload == [shape : BOOLEAN, normalized_intent : Text, strings : BOOLEAN,
                  dialogue_acts : Seq(STRING), needed : BOOLEAN, question : Text]
Stage1Payload == [shape : BOOLEAN, schema_version : STRING, reason : Text,
                  status : {"ok", "fail"}, summary : BOOLEAN,
                  memory_candidates : SUBSET RawCandidate,
                  decision_type : {"answer_directly", "request_memory"},
                  selected_memory_ids : Seq(MemoryIds), draft_answer : Text]
Stage2Payload == [shape : BOOLEAN, schema_version : STRING, reason : Text,
                  status : {"ok", "fail"}, summary : BOOLEAN,
                  memory_candidates : SUBSET RawCandidate, final_answer : Text]

\* What is no list of strings is left out.
ASSUME PayloadsAssumption ==
    /\ Stage0Payloads \subseteq Stage0Payload
    /\ \A p \in Stage0Payloads : p.strings \/ p.dialogue_acts = <<>>
    /\ Stage1Payloads \subseteq Stage1Payload
    /\ Stage2Payloads \subseteq Stage2Payload
ASSUME LimitsAssumption ==
    /\ Memories \subseteq MemoryIds
    /\ LLM_CONTEXT_LAST_MESSAGES \in Nat
    /\ SELECTED_MEMORY_MAX_ITEMS \in Nat
    /\ MaxMessages \in Nat

VARIABLES
    turns,       \* dialogue_turns: track, role and created_at
    lastTurn,    \* dialogue_tracks_temp.last_turn_id, 0 while there is none
    analyses,    \* audit_events of type track_analysis_saved
    candidates,  \* memory_candidates of source "llm"
    items,       \* ids of active memory_items
    pc,          \* where each run is
    stage,       \* 1 or 2: the context it builds
    userTurn,    \* user_turn
    recent,      \* recent_messages of the context
    previous,    \* previous_analysis of the context, 0 for none
    frame,       \* dialogue acts of stage0_nlu_frame, and what they were
    decision1,   \* stage1_decision
    decision2,   \* stage2_decision
    chosen,      \* selected_memory_context
    rejected,    \* rejected_memory_ids
    stamp,       \* created_at of the assistant turn it is about to save
    answers,     \* which user turn each assistant turn was saved for
    failures,    \* the failures main printed: user turn and cause
    escaped,     \* runs that an exception main does not expect ended: user turn and cause
    died         \* history: whether a process ever died

rows == <<turns, lastTurn, analyses, candidates, items>>
context == <<stage, recent, previous, chosen, rejected>>
results == <<frame, decision1, decision2, stamp>>
outcome == <<answers, failures, escaped, died>>
vars == <<rows, pc, userTurn, context, results, outcome, clockVars>>

\* What the provider did, or the rule against summaries.
Cause == {"provider", "summary"}

\* Where an exception came from that main does not expect.
EscapeCause == {"timeout", "candidate", "hook"}

LlmTypeOK ==
    /\ turns \in Seq([track : Tracks, role : {"user", "assistant"}, at : 1..clock])
    /\ lastTurn \in [Tracks -> 0..Len(turns)]
    /\ analyses \in Seq([turn : 1..Len(turns), summary : BOOLEAN, at : 1..clock])
    /\ candidates \subseteq [turn : 1..Len(turns), dedupe_key : DedupeKeys]
    /\ items \subseteq Memories
    /\ pc \in [Runs -> {"idle", "recent", "analysis", "signal", "nlu", "stage1",
                        "select", "stage2", "stamp", "save"}]
    /\ stage \in [Runs -> {1, 2}]
    /\ userTurn \in [Runs -> 0..Len(turns)]
    /\ \A r \in Runs : recent[r] \in Seq(1..Len(turns))
    /\ previous \in [Runs -> 0..Len(analyses)]
    /\ \A r \in Runs : {decision1[r], decision2[r]} \subseteq Decision
    /\ \A r \in Runs : {chosen[r], rejected[r]} \subseteq Seq(MemoryIds)
    /\ stamp \in [Runs -> 0..clock]
    /\ answers \subseteq [user : 1..Len(turns), assistant : 1..Len(turns), text : Text]
    /\ failures \subseteq [user : 1..Len(turns), cause : Cause]
    /\ escaped \subseteq [user : 1..Len(turns), cause : EscapeCause]
    /\ died \in BOOLEAN

Init ==
    /\ ClockInit
    /\ turns = <<>>
    /\ lastTurn = [t \in Tracks |-> 0]
    /\ analyses = <<>>
    /\ candidates = {}
    /\ items = {}
    /\ pc = [r \in Runs |-> "idle"]
    /\ stage = [r \in Runs |-> 1]
    /\ userTurn = [r \in Runs |-> 0]
    /\ recent = [r \in Runs |-> <<>>]
    /\ previous = [r \in Runs |-> 0]
    /\ frame = [r \in Runs |-> NoFrame]
    /\ decision1 = [r \in Runs |-> NoDecision]
    /\ decision2 = [r \in Runs |-> NoDecision]
    /\ chosen = [r \in Runs |-> <<>>]
    /\ rejected = [r \in Runs |-> <<>>]
    /\ stamp = [r \in Runs |-> 0]
    /\ answers = {}
    /\ failures = {}
    /\ escaped = {}
    /\ died = FALSE

-----------------------------------------------------------------------------
At(r, where) == pc[r] = where
Goto(r, where) == pc' = [pc EXCEPT ![r] = where]
TrackOf(r) == turns[userTurn[r]].track
UserTurns == {n \in DOMAIN turns : turns[n].role = "user"}

\* The process ends, and its memory with it.
Exit(r) ==
    /\ Goto(r, "idle")
    /\ stage' = [stage EXCEPT ![r] = 1]
    /\ userTurn' = [userTurn EXCEPT ![r] = 0]
    /\ recent' = [recent EXCEPT ![r] = <<>>]
    /\ previous' = [previous EXCEPT ![r] = 0]
    /\ frame' = [frame EXCEPT ![r] = NoFrame]
    /\ decision1' = [decision1 EXCEPT ![r] = NoDecision]
    /\ decision2' = [decision2 EXCEPT ![r] = NoDecision]
    /\ chosen' = [chosen EXCEPT ![r] = <<>>]
    /\ rejected' = [rejected EXCEPT ![r] = <<>>]
    /\ stamp' = [stamp EXCEPT ![r] = 0]

\* main prints the failure and returns 1.
FailTurn(r, cause) ==
    /\ failures' = failures \cup {[user |-> userTurn[r], cause |-> cause]}
    /\ Exit(r)
    /\ UNCHANGED <<rows, answers, escaped, died, clockVars>>

\* The process ends with a traceback; an open transaction is undone.
Escape(r, cause) ==
    /\ escaped' = escaped \cup {[user |-> userTurn[r], cause |-> cause]}
    /\ Exit(r)
    /\ UNCHANGED <<rows, answers, failures, died, clockVars>>

\* persist_dialogue_turn on a track: the row, and the track's last turn.
AppendTurn(t, role, at) ==
    /\ turns' = Append(turns, [track |-> t, role |-> role, at |-> at])
    /\ lastTurn' = [lastTurn EXCEPT ![t] = Len(turns) + 1]

-----------------------------------------------------------------------------
\* The first transaction.  It reads before the turn gets its stamp, so no
\* other commits between the stamp and its own commit.
SaveUserTurn(r, t) ==
    /\ At(r, "idle")
    /\ Cardinality(UserTurns) < MaxMessages
    /\ \E s \in {clock + 1} : server_now(s) /\ AppendTurn(t, "user", s)
    /\ userTurn' = [userTurn EXCEPT ![r] = Len(turns) + 1]
    /\ Goto(r, "recent")
    /\ UNCHANGED <<analyses, candidates, items, context, results, outcome>>

\* ORDER BY created_at DESC LIMIT, turned around.
TakeLast(s) ==
    SubSeq(s, IF Len(s) > LLM_CONTEXT_LAST_MESSAGES
              THEN Len(s) - LLM_CONTEXT_LAST_MESSAGES + 1 ELSE 1, Len(s))

OfTrack(r) ==
    LET others == {n \in DOMAIN turns : turns[n].track = TrackOf(r) /\ n # userTurn[r]}
    IN InOrder(others, {p \in others \X others : SortsBefore(turns[p[1]].at, turns[p[2]].at)})

\* _recent_messages: the last ones of the track but the message itself.
ReadRecent(r) ==
    /\ At(r, "recent")
    /\ recent' = [recent EXCEPT ![r] = TakeLast(OfTrack(r))]
    /\ Goto(r, "analysis")
    /\ UNCHANGED <<rows, userTurn, stage, previous, chosen, rejected, results, outcome, clockVars>>

AnalysesOf(t) == {i \in DOMAIN analyses : turns[analyses[i].turn].track = t}

\* Mutant: ordered the wrong way.
Earliest(t) ==
    IF AnalysesOf(t) = {} THEN 0
    ELSE CHOOSE i \in AnalysesOf(t) : \A j \in AnalysesOf(t) : i <= j

\* get_latest_track_analysis.
Latest(t) ==
    IF AnalysesOf(t) = {} THEN 0
    ELSE CHOOSE i \in AnalysesOf(t) :
            \A j \in AnalysesOf(t) \ {i} : SortsBefore(analyses[j].at, analyses[i].at)

\* Mutant: the newest messages are popped.
OverflowNewest(s) == Prefixes(s)

\* _apply_overflow_policy pops the oldest messages, as many as it takes.
Overflow(s) == Suffixes(s)

\* The last of the reads, then _validate_no_summary_keys and the overflow.
ReadAnalysis(r) ==
    LET latest == Latest(TrackOf(r)) IN
    /\ At(r, "analysis")
    /\ IF latest # 0 /\ analyses[latest].summary
       THEN FailTurn(r, "summary")
       ELSE /\ previous' = [previous EXCEPT ![r] = latest]
            /\ \E kept \in Overflow(recent[r]) : recent' = [recent EXCEPT ![r] = kept]
            /\ Goto(r, IF stage[r] = 1 THEN "signal" ELSE "stage2")
            /\ UNCHANGED <<rows, userTurn, stage, chosen, rejected, results, outcome, clockVars>>

\* What the signal hook may raise: what its first clause names, or any other
\* exception.
HookError == {"named", "other"}

\* Mutant: the clause that names no class is gone.
CatchNamed == {"named"}

Caught == HookError

\* _capture_phase_v1_current_signal: what is caught is put aside as text.
CaptureSignal(r) ==
    /\ At(r, "signal")
    /\ \E raised \in HookError \cup {"none"} :
          IF raised \in Caught \cup {"none"}
          THEN /\ Goto(r, "nlu")
               /\ UNCHANGED <<rows, userTurn, context, results, outcome, clockVars>>
          ELSE Escape(r, "hook")

\* run_stage0_nlu; the frame only goes into the Stage 1 context.
RunNlu(r) ==
    /\ At(r, "nlu")
    /\ \E p \in Stage0Payloads :
          IF FrameFits(p)
          THEN /\ frame' = [frame EXCEPT ![r] = [raw |-> p.dialogue_acts, acts |-> RepairedActs(p)]]
               /\ Goto(r, "stage1")
               /\ UNCHANGED <<rows, userTurn, context, decision1, decision2, stamp, outcome,
                              clockVars>>
          ELSE FailTurn(r, "provider")

\* The request fails, or there is no JSON object in the answer.
ProviderFails(r) ==
    /\ pc[r] \in {"nlu", "stage1", "stage2"}
    /\ FailTurn(r, "provider")

\* The answer does not come in time: getresponse and read raise TimeoutError,
\* which post_json does not catch, and neither does main.
TimesOut(r) == pc[r] \in {"nlu", "stage1", "stage2"} /\ Escape(r, "timeout")

\* Nothing reads the messages and the analysis of a context once the model
\* has answered it.
DropContext(r) ==
    /\ recent' = [recent EXCEPT ![r] = <<>>]
    /\ previous' = [previous EXCEPT ![r] = 0]

Stage1(r) ==
    /\ At(r, "stage1")
    /\ \E p \in Stage1Payloads :
          LET direct == p.decision_type = "answer_directly" IN
          IF ~Stage1Fits(p) \/ (direct /\ p.draft_answer # "text") THEN FailTurn(r, "provider")
          ELSE /\ decision1' = [decision1 EXCEPT ![r] = Stage1Decision(p)]
               /\ frame' = [frame EXCEPT ![r] = NoFrame]
               /\ DropContext(r)
               /\ Goto(r, IF direct THEN "stamp" ELSE "select")
               /\ UNCHANGED <<rows, userTurn, stage, chosen, rejected, decision2, stamp, outcome,
                              clockVars>>

\* build_stage2_context: at most so many of the selected ids, in their
\* order, and of them those that are active memory; the others are rejected.
Limited(ids) ==
    SubSeq(ids, 1, IF Len(ids) < SELECTED_MEMORY_MAX_ITEMS
                   THEN Len(ids) ELSE SELECTED_MEMORY_MAX_ITEMS)

\* Mutant: what is over the limit is not reported.
RejectsUnknown(ids) ==
    AtPositions(Limited(ids), {i \in DOMAIN Limited(ids) : ids[i] \notin items})

Chooses(ids) == AtPositions(Limited(ids), {i \in DOMAIN Limited(ids) : ids[i] \in items})

Rejects(ids) ==
    AtPositions(ids, {i \in DOMAIN ids : ids[i] \notin items \cap ToSet(Limited(ids))})

SelectMemory(r) ==
    LET ids == decision1[r].selected IN
    /\ At(r, "select")
    /\ chosen' = [chosen EXCEPT ![r] = Chooses(ids)]
    /\ rejected' = [rejected EXCEPT ![r] = Rejects(ids)]
    /\ stage' = [stage EXCEPT ![r] = 2]
    /\ Goto(r, "recent")
    /\ UNCHANGED <<rows, userTurn, recent, previous, results, outcome, clockVars>>

Stage2(r) ==
    /\ At(r, "stage2")
    /\ \E p \in Stage2Payloads :
          IF Stage2Fits(p)
          THEN /\ decision2' = [decision2 EXCEPT ![r] = Stage2Decision(p)]
               /\ DropContext(r)
               /\ Goto(r, "stamp")
               /\ UNCHANGED <<rows, userTurn, stage, chosen, rejected, frame, decision1, stamp,
                              outcome, clockVars>>
          ELSE FailTurn(r, "provider")

\* persist_dialogue_turn stamps the assistant turn before its INSERT waits
\* for the write lock.
StampAnswer(r) ==
    /\ At(r, "stamp")
    /\ \E s \in {clock + 1} : server_now(s) /\ stamp' = [stamp EXCEPT ![r] = s]
    /\ Goto(r, "save")
    /\ UNCHANGED <<rows, userTurn, context, frame, decision1, decision2, outcome>>

\* build_llm_memory_candidates: of what both stages propose, the keys the
\* track has not, unless the loop raises.
Proposed(r) == decision1[r].memory_candidates \cup decision2[r].memory_candidates
KnownKeys(t) == {c.dedupe_key : c \in {k \in candidates : turns[k.turn].track = t}}
NewKeys(r) ==
    {c.dedupe_key : c \in {k \in Proposed(r) : k.fate = "kept"}} \ KnownKeys(TrackOf(r))
LoopRaises(r) == \E c \in Proposed(r) : c.fate = "raises"

Answer(r) ==
    [user |-> userTurn[r], assistant |-> Len(turns) + 1,
     text |-> IF stage[r] = 2 THEN decision2[r].text ELSE decision1[r].text]

\* Mutants: the turn is saved outside the transaction, and the process may
\* die, or fail, before the rest.
SaveTurnFirst(r) ==
    /\ At(r, "save")
    /\ AppendTurn(TrackOf(r), "assistant", stamp[r])
    /\ answers' = answers \cup {Answer(r)}
    /\ Exit(r)
    /\ UNCHANGED <<analyses, candidates, items, failures, escaped, died, clockVars>>
SaveThenFail(r) ==
    /\ At(r, "save")
    /\ AppendTurn(TrackOf(r), "assistant", stamp[r])
    /\ answers' = answers \cup {Answer(r)}
    /\ failures' = failures \cup {[user |-> userTurn[r], cause |-> "provider"]}
    /\ Exit(r)
    /\ UNCHANGED <<analyses, candidates, items, escaped, died, clockVars>>

\* The second transaction; then the answer is printed.
SaveAnswer(r) ==
    /\ At(r, "save")
    /\ ~LoopRaises(r)
    /\ AppendTurn(TrackOf(r), "assistant", stamp[r])
    /\ \E s \in {clock + 1} :
          /\ server_now(s)
          /\ analyses' = Append(analyses, [turn |-> Len(turns) + 1, at |-> s,
                                summary |-> decision1[r].summary \/ decision2[r].summary])
    /\ candidates' = candidates \cup {[turn |-> userTurn[r], dedupe_key |-> d] : d \in NewKeys(r)}
    /\ answers' = answers \cup {Answer(r)}
    /\ Exit(r)
    /\ UNCHANGED <<items, failures, escaped, died>>

\* Mutant: the track is made to point at the turn before the transaction.
PointFirst(r) ==
    /\ At(r, "save")
    /\ LoopRaises(r)
    /\ lastTurn' = [lastTurn EXCEPT ![TrackOf(r)] = Len(turns) + 1]
    /\ escaped' = escaped \cup {[user |-> userTurn[r], cause |-> "candidate"]}
    /\ Exit(r)
    /\ UNCHANGED <<turns, analyses, candidates, items, answers, failures, died, clockVars>>

\* Its loop raises TypeError or OverflowError, after the turn and the
\* analysis were written.
SaveRaises(r) == At(r, "save") /\ LoopRaises(r) /\ Escape(r, "candidate")

\* The process dies, or SQLite refuses it; an open transaction is undone.
LlmCrash(r) ==
    /\ ~At(r, "idle")
    /\ Exit(r)
    /\ died' = TRUE
    /\ UNCHANGED <<rows, answers, failures, escaped, clockVars>>

\* The memory pipeline of some other process makes an item active.
WriteMemoryItem(m) ==
    /\ m \notin items
    /\ items' = items \cup {m}
    /\ UNCHANGED <<turns, lastTurn, analyses, candidates, pc, userTurn, context, results,
                   outcome, clockVars>>

-----------------------------------------------------------------------------
RunStep(r) ==
    \/ ReadRecent(r) \/ ReadAnalysis(r) \/ CaptureSignal(r) \/ RunNlu(r)
    \/ ProviderFails(r) \/ TimesOut(r) \/ Stage1(r) \/ SelectMemory(r) \/ Stage2(r)
    \/ StampAnswer(r) \/ SaveAnswer(r) \/ SaveRaises(r)

LlmNext ==
    \/ \E r \in Runs : RunStep(r) \/ LlmCrash(r) \/ \E t \in Tracks : SaveUserTurn(r, t)
    \/ \E m \in Memories : WriteMemoryItem(m)

LlmSpec == Init /\ [][LlmNext]_vars

-----------------------------------------------------------------------------
(* An assistant turn, its analysis and its candidates are saved together   *)
(* or not at all: each assistant turn has one analysis and answers a user  *)
(* turn of its track, with a text that is not blank whichever stage wrote  *)
(* it, and only answered turns have candidates, one of a key and track.    *)
AnswersComplete ==
    /\ \A n \in DOMAIN turns : turns[n].role = "assistant" =>
          /\ Cardinality({i \in DOMAIN analyses : analyses[i].turn = n}) = 1
          /\ \E a \in answers : /\ a.assistant = n
                               /\ a.text = "text"
                               /\ turns[a.user].track = turns[n].track
    /\ \A c, d \in candidates :
          /\ \E a \in answers : a.user = c.turn
          /\ c.dedupe_key = d.dedupe_key /\ turns[c.turn].track = turns[d.turn].track => c = d

(* The dialogue acts Stage 1 is given are those of the contract, each once *)
(* and at least one; every act of the model's answer that the contract has *)
(* is among them, in the order of the answer, and "other" stands in for    *)
(* the rest.                                                               *)
ActsRepaired ==
    \A r \in Runs : At(r, "stage1") =>
        LET acts == frame[r].acts
            raw  == frame[r].raw
            First(a) == CHOOSE i \in DOMAIN raw : raw[i] = a /\ \A j \in 1..(i - 1) : raw[j] # a
        IN /\ acts # <<>> /\ ToSet(acts) \subseteq Stage0DialogueAct
           /\ \A i, j \in DOMAIN acts : i # j => acts[i] # acts[j]
           /\ ToSet(raw) \cap Stage0DialogueAct \subseteq ToSet(acts)
           /\ ToSet(acts) \subseteq ToSet(raw) \cup {"other"}
           /\ "other" \in ToSet(acts) <=>
                  raw = <<>> \/ ~(ToSet(raw) \subseteq Stage0DialogueAct \ {"other"})
           /\ \A i, j \in DOMAIN acts :
                  i < j /\ "other" \notin {acts[i], acts[j]} => First(acts[i]) < First(acts[j])

(* When the second context is built every id the model selected is either  *)
(* in it, as memory that is active, or reported as rejected, none twice,   *)
(* and they are no more than the limit, while other processes add memory.  *)
SelectionPartitioned ==
    \A r \in Runs : stage[r] = 2 =>
        LET in == ToSet(chosen[r]) IN
        /\ in \cup ToSet(rejected[r]) = ToSet(decision1[r].selected)
        /\ Len(chosen[r]) + Len(rejected[r]) = Cardinality(ToSet(decision1[r].selected))
        /\ in \subseteq items
        /\ Len(chosen[r]) <= SELECTED_MEMORY_MAX_ITEMS

(* The messages of a context are of its track, without the user's own, and *)
(* none that was stamped after one of them and saved before the user's, or *)
(* before one of them, is left out, however late it was saved: but that    *)
(* the message of a full second hides what follows it in the second.       *)
ContextIsTail ==
    \A r \in Runs : pc[r] \notin {"idle", "recent"} =>
        LET shown == ToSet(recent[r]) IN
        /\ Len(recent[r]) <= LLM_CONTEXT_LAST_MESSAGES
        /\ \A n \in shown : turns[n].track = TrackOf(r) /\ n # userTurn[r]
        /\ \A first, last \in shown, n \in DOMAIN turns \ {userTurn[r]} :
              /\ turns[n].track = TrackOf(r)
              /\ turns[first].at < turns[n].at
              /\ turns[first].at # whole
              /\ n < last \/ n < userTurn[r]
              => n \in shown

(* The analysis in a context is one of its track, and not older than that  *)
(* of any answer shown with it, which other processes may be adding: it is *)
(* read after the messages, and saved with them.  One of a full second may *)
(* be older.                                                               *)
AnalysisCoversContext ==
    \A r \in Runs : pc[r] \notin {"idle", "recent", "analysis"} =>
        /\ previous[r] # 0 => turns[analyses[previous[r]].turn].track = TrackOf(r)
        /\ \A n \in ToSet(recent[r]) : turns[n].role = "assistant" =>
              /\ previous[r] # 0
              /\ \/ analyses[previous[r]].at = whole
                 \/ \E j \in 1..previous[r] : analyses[j].turn = n

(* While no process died, a user message that none is at work on has been  *)
(* answered, or what the provider did is why not: a request that failed or *)
(* timed out, or a memory candidate that makes the program raise.  Neither *)
(* the signal hook nor what earlier turns of the track left behind stops   *)
(* it.  A turn that failed, reported (cli.py:322) or with a traceback, is  *)
(* for ever without an assistant turn: what was written of it is undone.   *)
EveryMessageAnswered ==
    /\ ~died => \A n \in UserTurns : (\A r \in Runs : userTurn[r] # n) =>
          \/ \E a \in answers : a.user = n
          \/ \E f \in failures : f.user = n /\ f.cause = "provider"
          \/ \E x \in escaped : x.user = n /\ x.cause \in {"timeout", "candidate"}
    /\ \A f \in failures \cup escaped, a \in answers : a.user # f.user

(* tests/test_cli.py:900: a failure of the provider is printed, and that   *)
(* the user turn is saved and the assistant turn is not (cli.py:322): so   *)
(* of each message that no process is at work on, while none died and the  *)
(* provider's decisions, where there are any, can be saved.                *)
FailuresReported ==
    \A n \in UserTurns : (\A r \in Runs : userTurn[r] # n) /\ ~died =>
        \/ \E a \in answers : a.user = n
        \/ \E f \in failures : f.user = n
        \/ [user |-> n, cause |-> "candidate"] \in escaped
=============================================================================
