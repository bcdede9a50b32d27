------------------------------- MODULE Brain -------------------------------
(***************************************************************************)
(* The graph of graph/graph.py with both its ingresses, user messages      *)
(* (UserIngress) and executor callbacks (ExecutorCallback), and beside it  *)
(* the LLM path of cli.py: they meet in executor_tasks, dialogue_turns and *)
(* dialogue_tracks_temp.  A capsule is named by its idempotency key, the   *)
(* track and the instruction.                                              *)
(*                                                                         *)
(* Of an LLM turn there is what it does to turns and tracks; LlmTurn has   *)
(* the rest.                                                               *)
(***************************************************************************)
EXTENDS UserIngress

CONSTANTS
    Handlers,    \* callback handlers that may be in flight together
    Events,      \* values of event_id
    Executors,   \* names an executor may put in a callback
    Callbacks,   \* the request bodies that may be delivered
    NoCallback,  \* the absent row
    LlmRuns      \* processes on the LLM path

VARIABLES
    llmTrack,    \* the track of each LLM run between its two transactions
    attemptCount, persisted, applied, stale, audited,         \* the rows
    pc, request, staleDecision, readAttempts, route, replies  \* the handlers

callbackVars == <<attemptCount, persisted, applied, stale, audited,
                  pc, request, staleDecision, readAttempts, route, replies>>
allVars == <<userVars, callbackVars, llmTrack>>

Capsules == Tracks \X Texts

Service == INSTANCE ExecutorCallback WITH Workers <- Handlers

ASSUME ServiceAssumption ==
    /\ Callbacks \subseteq Service!ExecutorCallback
    /\ NoCallback \notin Service!ExecutorCallback
    /\ IsFiniteSet(Events)

\* Every table is empty and nothing is at work.
BrainInit == UserInit /\ Service!Init /\ llmTrack = [l \in LlmRuns |-> NoRow]

-----------------------------------------------------------------------------
\* persist_dialogue_turn with a track: the turn, which has no message id,
\* and the status of the track, in both tables.
SaveLlmTurn(t, u) ==
    /\ turns[u] = NoRow
    /\ turns' = [turns EXCEPT ![u] = [ext |-> NoRow, text |-> NoRow, track |-> t,
                                     thread |-> tracks'[t].thread]]

LlmOnly == UNCHANGED <<taskStatus, rpc, stateVars, historyVars, memoryVars, callbackVars>>

\* The first transaction of run_llm_message, on the track of the thread ...
LlmBegin(l, h) ==
    /\ llmTrack[l] = NoRow
    /\ \E t \in ThreadTracks(h), u \in Turns :
          /\ SetTrackStatus(t, "active", u)
          /\ SetThreadStatus(t, "active")
          /\ SaveLlmTurn(t, u)
          /\ llmTrack' = [llmTrack EXCEPT ![l] = t]
    /\ LlmOnly

\* ... or on a new one; refused when a run that died left the thread's row.
LlmBootstrap(l, h) ==
    /\ llmTrack[l] = NoRow
    /\ ThreadTracks(h) = {}
    /\ threads[h] = NoRow
    /\ \E t \in Tracks, u \in Turns :
          /\ tracks[t] = NoRow
          /\ tracks' = [tracks EXCEPT ![t] = [thread |-> h, status |-> "active", last_turn |-> u]]
          /\ threads' = [threads EXCEPT ![h] = [track |-> t, status |-> "active"]]
          /\ SaveLlmTurn(t, u)
          /\ llmTrack' = [llmTrack EXCEPT ![l] = t]
    /\ LlmOnly

\* The second transaction: the assistant turn.
LlmEnd(l) ==
    /\ llmTrack[l] # NoRow
    /\ SetThreadStatus(llmTrack[l], "active")
    /\ \E u \in Turns : /\ SetTrackStatus(llmTrack[l], "active", u)
                        /\ SaveLlmTurn(llmTrack[l], u)
    /\ llmTrack' = [llmTrack EXCEPT ![l] = NoRow]
    /\ LlmOnly

\* No answer: the provider failed, or the process died.
LlmStops(l) ==
    /\ llmTrack[l] # NoRow
    /\ llmTrack' = [llmTrack EXCEPT ![l] = NoRow]
    /\ UNCHANGED <<userVars, callbackVars>>

LlmPath ==
    \E l \in LlmRuns :
        LlmEnd(l) \/ LlmStops(l) \/ \E h \in Threads : LlmBegin(l, h) \/ LlmBootstrap(l, h)

-----------------------------------------------------------------------------

\* A handler works on executor_tasks, and only reads the track (the node
\* load_track_by_capsule): no statement of its path writes one.
UserPath == UserNext /\ UNCHANGED <<callbackVars, llmTrack>>
CallbackPath ==
    /\ \E w \in Handlers :
          \/ Service!HandlerStep(w) \/ Service!Crash(w)
          \/ \E callback \in Callbacks : Service!Deliver(w, callback)
    /\ UNCHANGED <<dialogueVars, rpc, stateVars, historyVars, memoryVars, llmTrack>>

BrainNext == UserPath \/ CallbackPath \/ LlmPath

BrainSpec == BrainInit /\ [][BrainNext]_allVars

\* No process dies (a step that looks like a handler's death is one that
\* ends it by itself); runs and handlers that were started go on.
BrainCrashFreeSpec ==
    /\ BrainInit
    /\ [][/\ BrainNext
          /\ ~died'
          /\ \A w \in Handlers : Service!Crash(w) => Service!HandlerStep(w)]_allVars
    /\ \A r \in Runs : WF_allVars(RunStep(r) /\ UNCHANGED <<callbackVars, llmTrack>>)
    /\ \A w \in Handlers : WF_allVars(CallbackPath /\ Service!HandlerStep(w))

-----------------------------------------------------------------------------
(* All the callback service assumes of the rest of the program holds: the  *)
(* user path does nothing to executor_tasks but create a queued task, once *)
(* for each capsule, so everything shown of ExecutorCallback holds here.   *)
ServesCallbacks == Service!Spec

(* An event is stored only for a capsule whose track is there, so that     *)
(* load_track_by_capsule cannot fail once the event is persisted, which    *)
(* would leave it persisted and never applied.  No foreign key leads from  *)
(* executor_tasks to the track (0003_executor.sql:6): that the graph has   *)
(* stored it before it stores a task, in every order of runs, is all.      *)
EventsHaveTrack ==
    \A e \in Events : persisted[e] # NoCallback =>
        tracks[persisted[e].capsule_id[1]] # NoRow

(* What an executor completed is the instruction of a stored turn that was *)
(* attached to a track, whatever was sent under the id of that turn since. *)
CompletedWasDelegated ==
    \A k \in Capsules : taskStatus[k] = "completed" =>
        \E u \in Turns : /\ turns[u] # NoRow
                         /\ turns[u].track # NoRow
                         /\ turns[u].text = k[2]

Waiting(t) == tracks[t] # NoRow /\ tracks[t].status = "waiting_for_executor"

(* While graph runs worked one at a time, nothing ends a track's wait but  *)
(* a turn of the LLM path saved on that track, its answer perhaps begun    *)
(* before the wait: no user message does, whose run writes back what it    *)
(* read, and no callback.                                                  *)
OnlyLlmTurnsEndWaits ==
    [][~overlapped' => \A t \in Tracks : Waiting(t) /\ ~Waiting(t)' =>
          \E u \in Turns : /\ turns[u] = NoRow /\ turns'[u] # NoRow
                           /\ turns'[u].track = t
                           /\ tracks'[t].last_turn = u]_allVars

(* executor_ingress.py:73: executor feedback is applied to "task/track     *)
(* state", so when every task of a track is completed the track does not   *)
(* wait for its executor for ever.                                         *)
FeedbackReachesTrack ==
    \A t \in Tracks :
        (\E x \in Texts : taskStatus[<<t, x>>] = "completed") ~>
            \/ \E x \in Texts : taskStatus[<<t, x>>] = "queued"
            \/ tracks[t] # NoRow /\ tracks[t].status # "waiting_for_executor"
=============================================================================
