---------------------------- MODULE LlmContracts ----------------------------
(***************************************************************************)
(* The decisions of the model as contracts/analysis.py accepts them, and   *)
(* the repair llm_provider.py makes before.  A payload is the JSON object  *)
(* in an answer; `shape` says whether the fields, their types and their    *)
(* enumerations fit.  Of a text field only what strip() leaves matters.    *)
(***************************************************************************)
EXTENDS Naturals, Sequences, FiniteSets, SequencesExt

Text == {"", "blank", "text"}

Stage0DialogueAct ==
    {"question", "complaint_or_challenge", "memory_instruction",
     "correction_or_refinement", "alias_or_equivalence_proposal", "relationship_update",
     "biographical_context_update", "preference_or_constraint_update",
     "confirmation_request", "answer_to_clarification", "no_new_durable_info", "other"}

\* The members of a finite set by a strict order on it, a set of pairs: the
\* i-th has i - 1 of them before it.
InOrder(S, before) ==
    [i \in 1..Cardinality(S) |->
        CHOOSE x \in S : Cardinality({y \in S : <<y, x>> \in before}) = i - 1]

\* What a loop over `s` keeps that tests each position.
AtPositions(s, P) ==
    LET kept == InOrder(P, {p \in P \X P : p[1] < p[2]})
    IN [i \in DOMAIN kept |-> s[kept[i]]]

\* `seen`: the first of equal values stays.
Dedupe(s) == AtPositions(s, {i \in DOMAIN s : \A j \in 1..(i - 1) : s[j] # s[i]})

\* Mutant: an act that is not known is left out.
DropUnknown(p) ==
    LET known == {i \in DOMAIN p.dialogue_acts : p.dialogue_acts[i] \in Stage0DialogueAct}
    IN IF p.strings THEN Dedupe(AtPositions(p.dialogue_acts, known)) ELSE <<"other">>

\* _repair_stage0_dialogue_acts; `strings`: it is a list of strings.
RepairedActs(p) ==
    LET acts == Dedupe([i \in DOMAIN p.dialogue_acts |->
                           IF p.dialogue_acts[i] \in Stage0DialogueAct
                           THEN p.dialogue_acts[i] ELSE "other"])
    IN IF p.strings /\ acts # <<>> THEN acts ELSE <<"other">>

\* Stage0NLUFrame, with its clarification, after the repair.
FrameFits(p) ==
    /\ p.shape
    /\ p.normalized_intent = "text"
    /\ p.question \in (IF p.needed THEN {"text"} ELSE {""})
    /\ RepairedActs(p) # <<>>

\* _validate_schema_version and _validate_memory_update_extraction.
PersistedFits(p) ==
    /\ p.shape
    /\ p.schema_version = "0.4.3"
    /\ p.reason = "text"
    /\ p.status = IF p.memory_candidates = {} THEN "fail" ELSE "ok"

Stage1Fits(p) ==
    /\ p.decision_type = IF p.selected_memory_ids = <<>>
                         THEN "answer_directly" ELSE "request_memory"
    /\ PersistedFits(p)

\* Mutant: the answer is not stripped first.
AcceptsBlank(p) == p.final_answer # "" /\ PersistedFits(p)

Stage2Fits(p) == p.final_answer = "text" /\ PersistedFits(p)

\* What the contract keeps of a Stage 1 payload.
Stage1Decision(p) ==
    [memory_candidates |-> p.memory_candidates, summary |-> p.summary,
     text |-> p.draft_answer, selected |-> Dedupe(p.selected_memory_ids)]
Stage2Decision(p) ==
    [memory_candidates |-> p.memory_candidates, summary |-> p.summary,
     text |-> p.final_answer, selected |-> <<>>]
=============================================================================
