------------------------------ MODULE MCBrain ------------------------------
(* Small instances of Brain. *)
EXTENDS Brain, TLC

CONSTANTS r1, r2, t1, t2, w1, l1, u1, u2, u3

MCSubmissions ==
    {[key |-> k, dedupe_key |-> d, recommended_action |-> a, assignment |-> "none"] :
        k \in Keys, d \in DedupeKeys, a \in {"save_immediately", "stage"}}

MCNormal == [x \in Texts |-> x]

MCExecutors == {"hermes", "browser"}

Msg(ext, text) == [ext |-> ext, thread |-> "h1", text |-> text]

\* A message that delegates, one with its id that says something else, and
\* the same instruction without an id.
MCMessages == {Msg("x1", "delegate"), Msg("x1", "note"), Msg(NoRow, "delegate")}

\* A callback for the instruction, on any track it may be on.
MCCallbacks ==
    {[event_id |-> "e1", capsule_id |-> <<t, "delegate">>, executor |-> "hermes",
      attempt |-> 0, is_final |-> TRUE] : t \in Tracks}

Symmetry == Permutations(Runs) \cup Permutations(Tracks) \cup Permutations(Keys)
=============================================================================
