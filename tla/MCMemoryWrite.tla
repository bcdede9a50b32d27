--------------------------- MODULE MCMemoryWrite ---------------------------
(* Small instances of MemoryWrite. *)
EXTENDS MemoryWrite

CONSTANTS w1, w2

Cand(k, d, action, assignment) ==
    [key |-> k, dedupe_key |-> d, recommended_action |-> action, assignment |-> assignment]

\* Three candidates that say the same, one of them for review only, one with
\* an identity; and one whose assignment breaks a foreign key.
MCSubmissions ==
    {Cand("c1", "tea", "save_immediately", "none"),
     Cand("c2", "tea", "save_immediately", "sound"),
     Cand("c3", "tea", "stage", "none"),
     Cand("c4", "cat", "save_immediately", "dangling")}
=============================================================================
