------------------------- MODULE MCCallbackHistory -------------------------
(* ExecutorCallback with what its properties remember of a behaviour.      *)
EXTENDS MCExecutorCallback

VARIABLES
    died,       \* history: whether a handler ever died
    overlapped  \* history: whether two were ever at work together

historyVars == <<died, overlapped>>

NoteOverlap ==
    overlapped' = (overlapped \/ \E v, w \in Workers : /\ v # w
                                                       /\ pc'[v] # "idle"
                                                       /\ pc'[w] # "idle")

HistoryNext ==
    /\ \/ NextNoCrash /\ died' = died
       \/ \E w \in Workers : Crash(w) /\ died' = TRUE
    /\ NoteOverlap

\* What was started and did not die goes on; nothing obliges the executor
\* to deliver anything.
HistoryInit == Init /\ died = FALSE /\ overlapped = FALSE

HistorySpec ==
    /\ HistoryInit
    /\ [][HistoryNext]_<<vars, historyVars>>
    /\ \A w \in Workers :
          WF_<<vars, historyVars>>(HandlerStep(w) /\ died' = died /\ NoteOverlap)

(* While no handler died, a stored fresh event is applied in the end, even *)
(* when deliveries of it race and whatever executor it names.              *)
FreshEventsApplied == \A e \in Events : Fresh(e) ~> (e \in applied \/ died)

(* While one handler ran at a time, dead ones included, no event that the  *)
(* stale test excludes reaches the task row: the decision of line 27 is    *)
(* still right when the row is written.                                    *)
StaleNeverWrites ==
    ~overlapped => \A w \in Workers : At(w, "write_task") =>
        ~ /\ request[w].attempt < attemptCount[request[w].capsule_id]
          /\ taskStatus[request[w].capsule_id] \in FINAL_TASK_STATUSES

(* While one handler ran at a time, dead ones included, every applied      *)
(* final event is counted.                                                 *)
AppliedFinalsCounted ==
    ~overlapped => \A k \in Capsules :
        Cardinality({e \in applied : /\ persisted[e].capsule_id = k
                                     /\ persisted[e].is_final}) <= attemptCount[k]
=============================================================================
