--------------------------- MODULE CallbackInbox ---------------------------
(***************************************************************************)
(* What the executor callback service promises, with no handler, no        *)
(* statement and no failure in sight.  Each event is received once, with   *)
(* the body of one delivery, as fresh or as stale; a fresh event may take  *)
(* effect and be marked applied; a stale one does neither, and is only     *)
(* ever one whose capsule is done already.  A capsule stays done.          *)
(***************************************************************************)
EXTENDS Integers

CONSTANTS Events, Capsules, Callbacks, NoCallback

VARIABLES
    body,   \* the received body of each event, NoCallback before that
    mark,   \* "unseen", "fresh", "stale" or "applied"
    done    \* the capsules a final event completed

boxVars == <<body, mark, done>>

Init ==
    /\ body = [e \in Events |-> NoCallback]
    /\ mark = [e \in Events |-> "unseen"]
    /\ done = {}

Receive(callback, how) ==
    LET e == callback.event_id IN
    /\ mark[e] = "unseen"
    /\ how = "stale" => callback.capsule_id \in done
    /\ body' = [body EXCEPT ![e] = callback]
    /\ mark' = [mark EXCEPT ![e] = how]
    /\ UNCHANGED done

\* A final event completes its capsule, the first time or again.
Effect(e) ==
    /\ mark[e] = "fresh"
    /\ body[e].is_final
    /\ done' = done \cup {body[e].capsule_id}
    /\ UNCHANGED <<body, mark>>

\* Only a final event whose effect is there is marked applied.
Apply(e) ==
    /\ mark[e] = "fresh"
    /\ body[e].is_final => body[e].capsule_id \in done
    /\ mark' = [mark EXCEPT ![e] = "applied"]
    /\ UNCHANGED <<body, done>>

Next ==
    \/ \E callback \in Callbacks, how \in {"fresh", "stale"} : Receive(callback, how)
    \/ \E e \in Events : Effect(e) \/ Apply(e)

Spec == Init /\ [][Next]_boxVars
=============================================================================
