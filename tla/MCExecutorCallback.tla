------------------------- MODULE MCExecutorCallback -------------------------
(* Small instances of ExecutorCallback. *)
EXTENDS ExecutorCallback

CONSTANTS w1, w2, k1

MCExecutors == {"hermes", "browser"}

Body(e, k, executor, attempt, final) ==
    [event_id |-> e, capsule_id |-> k, executor |-> executor,
     attempt |-> attempt, is_final |-> final]

\* Two final events of one capsule, one of them late, one of another
\* executor, and one that announces progress only.
MCCallbacks ==
    {Body("e1", k1, "hermes", 1, TRUE),
     Body("e2", k1, "hermes", 0, TRUE),
     Body("e3", k1, "browser", 1, TRUE),
     Body("e3", k1, "hermes", 1, FALSE)}

MCRetryCallbacks ==
    {Body("e1", k1, "hermes", 1, TRUE), Body("e2", k1, "hermes", 0, FALSE)}

MCMismatchCallbacks == {Body("e3", k1, "browser", 1, TRUE)}
=============================================================================
