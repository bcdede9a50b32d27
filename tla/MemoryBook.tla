----------------------------- MODULE MemoryBook -----------------------------
(***************************************************************************)
(* What the memory pipeline promises, with no writer, no statement and no  *)
(* failure in sight.  A candidate is proposed once.  It is remembered or   *)
(* put up for review as it recommends, for ever, and remembered only while *)
(* nothing that says the same is.  It is called a duplicate of exactly the *)
(* memory that says the same.                                              *)
(***************************************************************************)
CONSTANTS Keys, Submissions, NoCandidate

VARIABLES
    proposed,    \* the candidate of each key, NoCandidate before it
    memory,      \* the keys remembered
    identities,  \* those that carried an identity with them
    review,      \* the keys under review
    duplicates   \* each duplicate, with the memory it repeats

bookVars == <<proposed, memory, identities, review, duplicates>>

Init ==
    /\ proposed = [k \in Keys |-> NoCandidate]
    /\ memory = {}
    /\ identities = {}
    /\ review = {}
    /\ duplicates = {}

\* The memory that says what the candidate of `k` says.
Same(k) == {j \in memory : proposed[j].dedupe_key = proposed[k].dedupe_key}

Recommends(k, action) ==
    /\ proposed[k] # NoCandidate
    /\ proposed[k].recommended_action = action

Propose(s) ==
    /\ proposed[s.key] = NoCandidate
    /\ proposed' = [proposed EXCEPT ![s.key] = s]
    /\ UNCHANGED <<memory, identities, review, duplicates>>

Remember(k) ==
    /\ Recommends(k, "save_immediately")
    /\ Same(k) = {}
    /\ memory' = memory \cup {k}
    /\ identities' \in {identities, identities \cup {k}}
    /\ UNCHANGED <<proposed, review, duplicates>>

\* Memory that says the same may have been written since this was decided.
Review(k) ==
    /\ Recommends(k, "stage")
    /\ k \notin review
    /\ review' = review \cup {k}
    /\ UNCHANGED <<proposed, memory, identities, duplicates>>

\* A candidate that comes again repeats itself.
Repeat(k) ==
    /\ proposed[k] # NoCandidate
    /\ Same(k) # {}
    /\ duplicates' = duplicates \cup {<<k, Same(k)>>}
    /\ UNCHANGED <<proposed, memory, identities, review>>

Next ==
    \/ \E s \in Submissions : Propose(s)
    \/ \E k \in Keys : Remember(k) \/ Review(k) \/ Repeat(k)

Spec == Init /\ [][Next]_bookVars
=============================================================================
