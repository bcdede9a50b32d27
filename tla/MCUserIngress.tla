--------------------------- MODULE MCUserIngress ---------------------------
(* Small instances of UserIngress. *)
EXTENDS UserIngress, TLC

CONSTANTS r1, r2, t1, t2, t3, u1, u2, u3

MCSubmissions ==
    {[key |-> k, dedupe_key |-> d, recommended_action |-> a, assignment |-> "none"] :
        k \in Keys, d \in DedupeKeys, a \in {"save_immediately", "stage"}}

MCNormal == [x \in Texts |-> CASE x \in Delegating -> "a"
                               [] x \in Remembering -> "b"
                               [] OTHER -> "blank"]

Msg(ext, thread, text) == [ext |-> ext, thread |-> thread, text |-> text]

\* A message that delegates, and one with its id on another thread that
\* says something else; without an id, the same instruction in other
\* letters, one to remember, and a blank one.
MCMessages ==
    {Msg("x1", "h1", "delegate: a"), Msg("x1", "h2", "remember: b"),
     Msg(NoRow, "h1", "Delegate: a"), Msg(NoRow, "h1", "remember: b"),
     Msg(NoRow, "h1", " ")}

Symmetry == Permutations(Runs) \cup Permutations(Tracks) \cup Permutations(Keys)
=============================================================================
