----------------------------- MODULE MCLlmTurn -----------------------------
(* Small instances of LlmTurn. *)
EXTENDS LlmTurn, TLC

CONSTANTS r1, r2, t1, t2

Raw(key, fate) == [dedupe_key |-> key, fate |-> fate]

Nlu(acts, strings, needed, question) ==
    [shape |-> TRUE, normalized_intent |-> "text", strings |-> strings,
     dialogue_acts |-> acts, needed |-> needed, question |-> question]

\* Acts in an order of their own, with unknown and repeated ones; a list that
\* is none; a question that is missing.
MCStage0 ==
    {Nlu(<<"relationship_update", "greeting", "question", "relationship_update", "chat">>,
         TRUE, TRUE, "text"),
     Nlu(<<>>, FALSE, FALSE, ""), Nlu(<<"question">>, TRUE, TRUE, "blank")}

Payload(raw, summary, version) ==
    [shape |-> TRUE, schema_version |-> version, reason |-> "text", summary |-> summary,
     memory_candidates |-> raw, status |-> IF raw = {} THEN "fail" ELSE "ok"]
Direct(raw, summary, draft) ==
    [decision_type |-> "answer_directly", selected_memory_ids |-> <<>>,
     draft_answer |-> draft] @@ Payload(raw, summary, "0.4.3")
Request(ids, raw, version) ==
    [decision_type |-> "request_memory", selected_memory_ids |-> ids,
     draft_answer |-> ""] @@ Payload(raw, FALSE, version)
Final(raw, answer) == [final_answer |-> answer] @@ Payload(raw, FALSE, "0.4.3")

\* An answer at once, with a candidate that is new or known and one that
\* breaks a rule; a blank one; a request for more memory than the limit, not
\* all of it there, with an id twice; a request of an old schema.
MCPlainStage1 ==
    {Direct({Raw("tea", "kept"), Raw("cat", "skipped")}, FALSE, "text"), Direct({}, FALSE, "blank"),
     Request(<<"m2", "m1", "m2">>, {Raw("tea", "kept")}, "0.4.3"),
     Request(<<"m1">>, {}, "0.4.2")}

\* An answer with a candidate the first one had; one with a candidate that
\* raises; a blank one.
MCStage2 ==
    {Final({Raw("tea", "kept")}, "text"), Final({Raw("cat", "raises")}, "text"),
     Final({}, "blank")}

\* An answer with a dict in it that has a key named summary.
MCSummaryStage1 == MCPlainStage1 \cup {Direct({}, TRUE, "text")}

Symmetry == Permutations(Runs) \cup Permutations(Tracks)
=============================================================================
