----------------------------- MODULE BrainProofs -----------------------------
(***************************************************************************)
(* What holds of the whole graph, with the LLM path beside it, for any     *)
(* number of runs, callback handlers and LLM processes.                    *)
(***************************************************************************)
EXTENDS Brain, UserIngressProofs

\* An LLM run between its transactions is on a stored track.
LlmHolds ==
    /\ llmTrack \in [LlmRuns -> Tracks \cup {NoRow}]
    /\ \A l \in LlmRuns : llmTrack[l] # NoRow => tracks[llmTrack[l]] # NoRow

BrainTypeInv == UserTypeInv /\ LlmHolds

LEMMA BrainTypeInit == BrainInit => BrainTypeInv
  BY UserTypeInit DEF BrainInit, BrainTypeInv, LlmHolds

\* A turn is saved on a stored track, where none was.
LEMMA SavedTurn ==
    ASSUME RowsTyped, tracks' \in [Tracks -> TrackRow \cup {NoRow}],
           NEW t \in Tracks, tracks'[t] # NoRow, NEW u \in Turns, SaveLlmTurn(t, u)
    PROVE  /\ turns' \in [Turns -> TurnRow \cup {NoRow}]
           /\ \A v \in Turns : turns[v] # NoRow => turns'[v] = turns[v]
           /\ turns[u] = NoRow
           /\ turns'[u] # NoRow
           /\ turns'[u].track = t
  <1> DEFINE row == [ext |-> NoRow, text |-> NoRow, track |-> t, thread |-> tracks'[t].thread]
  <1>1. tracks'[t].thread \in Threads
    BY DEF RowsTyped, TrackRow
  <1>2. row \in TurnRow /\ row # NoRow /\ row.track = t
    BY <1>1, NoRowAssumption DEF TurnRow
  <1>3. turns[u] = NoRow /\ turns' = [turns EXCEPT ![u] = row]
    BY DEF SaveLlmTurn
  <1> HIDE DEF row
  <1>4. QED
    BY <1>2, <1>3 DEF RowsTyped

\* The LLM path adds rows and touches none of another turn.
LEMMA LlmRows ==
    ASSUME BrainTypeInv, NEW l \in LlmRuns,
           \/ LlmEnd(l) \/ LlmStops(l)
           \/ \E h \in Threads : LlmBegin(l, h) \/ LlmBootstrap(l, h)
    PROVE  /\ RowsTyped' /\ RowsStay /\ LlmHolds'
           /\ \A u \in Turns : turns[u] # NoRow => turns'[u] = turns[u]
           /\ UNCHANGED <<taskStatus, rpc, stateVars, historyVars, memoryVars, callbackVars>>
  <1> DEFINE Goal == /\ RowsTyped' /\ RowsStay /\ LlmHolds'
                     /\ \A u \in Turns : turns[u] # NoRow => turns'[u] = turns[u]
                     /\ UNCHANGED <<taskStatus, rpc, stateVars, historyVars, memoryVars,
                                    callbackVars>>
  <1>1. RowsTyped
    BY DEF BrainTypeInv, UserTypeInv, UserTypeOK, RowsTyped
  <1>2. ASSUME NEW t \in Tracks, tracks[t] # NoRow, NEW u \in Turns,
               SetTrackStatus(t, "active", u), SetThreadStatus(t, "active"), SaveLlmTurn(t, u),
               llmTrack' = [llmTrack EXCEPT ![l] = t] \/ llmTrack' = [llmTrack EXCEPT ![l] = NoRow],
               LlmOnly
        PROVE  Goal
    <2>1. "active" \in TrackStatus
      BY DEF TrackStatus
    <2>2. /\ tracks' \in [Tracks -> TrackRow \cup {NoRow}]
          /\ \A s \in Tracks : tracks[s] # NoRow =>
                tracks'[s] # NoRow /\ tracks'[s].thread = tracks[s].thread
      BY <1>1, <1>2, <2>1, StatusRows
    <2>3. threads' \in [Threads -> ThreadRow \cup {NoRow}]
      BY <1>1, <1>2, <2>1, ThreadRows
    <2>4. /\ turns' \in [Turns -> TurnRow \cup {NoRow}]
          /\ \A v \in Turns : turns[v] # NoRow => turns'[v] = turns[v]
      BY <1>1, <1>2, <2>2, SavedTurn
    <2>5. LlmHolds'
      BY <1>2, <2>2 DEF BrainTypeInv, LlmHolds
    <2>6. UNCHANGED <<taskStatus, rpc, stateVars, historyVars, memoryVars, callbackVars>>
      BY <1>2 DEF LlmOnly
    <2>7. RowsTyped' /\ RowsStay
      BY <1>1, <2>2, <2>3, <2>4, <2>6 DEF RowsTyped, RowsStay
    <2>8. QED
      BY <2>4, <2>5, <2>6, <2>7
  <1>3. ASSUME NEW h \in Threads, LlmBegin(l, h) PROVE Goal
    <2>1. PICK t \in ThreadTracks(h), u \in Turns :
             /\ SetTrackStatus(t, "active", u)
             /\ SetThreadStatus(t, "active")
             /\ SaveLlmTurn(t, u)
             /\ llmTrack' = [llmTrack EXCEPT ![l] = t]
             /\ LlmOnly
      BY <1>3 DEF LlmBegin
    <2>2. t \in Tracks /\ tracks[t] # NoRow
      BY DEF ThreadTracks
    <2>3. QED
      BY <1>2, <2>1, <2>2
  <1>4. ASSUME LlmEnd(l) PROVE Goal
    <2>1. llmTrack[l] \in Tracks /\ tracks[llmTrack[l]] # NoRow
      BY <1>4 DEF LlmEnd, BrainTypeInv, LlmHolds
    <2>2. PICK u \in Turns : SetTrackStatus(llmTrack[l], "active", u) /\ SaveLlmTurn(llmTrack[l], u)
      BY <1>4 DEF LlmEnd
    <2>3. /\ SetThreadStatus(llmTrack[l], "active")
          /\ llmTrack' = [llmTrack EXCEPT ![l] = NoRow]
          /\ LlmOnly
      BY <1>4 DEF LlmEnd
    <2>4. QED
      BY <1>2, <2>1, <2>2, <2>3
  <1>5. ASSUME NEW h \in Threads, LlmBootstrap(l, h) PROVE Goal
    <2>1. PICK t \in Tracks, u \in Turns :
             /\ tracks[t] = NoRow
             /\ tracks' = [tracks EXCEPT ![t] = [thread |-> h, status |-> "active", last_turn |-> u]]
             /\ threads' = [threads EXCEPT ![h] = [track |-> t, status |-> "active"]]
             /\ SaveLlmTurn(t, u)
             /\ llmTrack' = [llmTrack EXCEPT ![l] = t]
             /\ LlmOnly
      BY <1>5 DEF LlmBootstrap
    <2> DEFINE row == [thread |-> h, status |-> "active", last_turn |-> u]
               thread == [track |-> t, status |-> "active"]
    <2>2. row \in TrackRow /\ row # NoRow /\ thread \in ThreadRow
      BY NoRowAssumption DEF TrackRow, ThreadRow, TrackStatus
    <2>3. tracks' = [tracks EXCEPT ![t] = row] /\ threads' = [threads EXCEPT ![h] = thread]
      BY <2>1
    <2> HIDE DEF row, thread
    <2>4. /\ tracks' \in [Tracks -> TrackRow \cup {NoRow}]
          /\ threads' \in [Threads -> ThreadRow \cup {NoRow}]
          /\ \A s \in Tracks : tracks[s] # NoRow => tracks'[s] = tracks[s]
          /\ tracks'[t] # NoRow
      BY <1>1, <2>1, <2>2, <2>3 DEF RowsTyped
    <2>5. /\ turns' \in [Turns -> TurnRow \cup {NoRow}]
          /\ \A v \in Turns : turns[v] # NoRow => turns'[v] = turns[v]
      BY <1>1, <2>1, <2>4, SavedTurn
    <2>6. LlmHolds'
      BY <2>1, <2>4 DEF BrainTypeInv, LlmHolds
    <2>7. UNCHANGED <<taskStatus, rpc, stateVars, historyVars, memoryVars, callbackVars>>
      BY <2>1 DEF LlmOnly
    <2>8. RowsTyped' /\ RowsStay
      BY <1>1, <2>4, <2>5, <2>7 DEF RowsTyped, RowsStay
    <2>9. QED
      BY <2>5, <2>6, <2>7, <2>8
  <1>6. ASSUME LlmStops(l) PROVE Goal
    <2>1. UNCHANGED <<dialogueVars, taskStatus, rpc, stateVars, historyVars, memoryVars,
                      callbackVars>>
      BY <1>6 DEF LlmStops, userVars, ingressVars
    <2>2. LlmHolds'
      BY <1>6, <2>1 DEF LlmStops, BrainTypeInv, LlmHolds, dialogueVars
    <2>3. QED
      BY <1>1, <2>1, <2>2 DEF RowsTyped, RowsStay, dialogueVars
  <1>7. QED
    BY <1>3, <1>4, <1>5, <1>6

-----------------------------------------------------------------------------
\* What a handler holds, and what it has found: past get_executor_task its
\* capsule has a task, and in the graph its event has a row.
HandlersHold ==
    /\ pc \in [Handlers -> {"idle", "find", "get_task", "persist", "validate",
                            "read_task", "write_task", "mark"}]
    /\ request \in [Handlers -> Callbacks \cup {NoCallback}]
    /\ persisted \in [Events -> Callbacks \cup {NoCallback}]
    /\ \A w \in Handlers :
          /\ pc[w] # "idle" => request[w] \in Callbacks
          /\ pc[w] = "persist" => taskStatus[request[w].capsule_id] # "absent"
          /\ pc[w] \in {"validate", "read_task", "write_task", "mark"} =>
                persisted[request[w].event_id] # NoCallback
    /\ \A e \in Events : persisted[e] # NoCallback =>
          taskStatus[persisted[e].capsule_id] # "absent"

LEMMA CallbackParts ==
    ASSUME NEW callback \in Callbacks
    PROVE  /\ callback # NoCallback
           /\ callback.event_id \in Events
           /\ callback.capsule_id \in Capsules
  BY ServiceAssumption DEF Service!ExecutorCallback

\* A handler completes a task that is there, and leaves the others alone.
LEMMA TasksOfHandler ==
    ASSUME BrainTypeInv, HandlersHold, NEW w \in Handlers, Service!HandlerStep(w)
    PROVE  /\ taskStatus' \in [Capsules -> {"absent", "queued", "completed"}]
           /\ \A k \in Capsules : taskStatus[k] = "absent" <=> taskStatus'[k] = "absent"
  <1>1. taskStatus \in [Capsules -> {"absent", "queued", "completed"}]
    BY DEF BrainTypeInv, UserTypeInv, UserTypeOK, Capsules
  <1>2. CASE Service!WriteTask(w)
    <2>1. /\ pc[w] = "write_task"
          /\ taskStatus' = [taskStatus EXCEPT ![Service!Event(w).capsule_id] = "completed"]
      BY <1>2 DEF Service!WriteTask, Service!At
    <2>2. /\ request[w] \in Callbacks
          /\ persisted[request[w].event_id] # NoCallback
      BY <2>1 DEF HandlersHold
    <2>3. taskStatus[Service!Event(w).capsule_id] # "absent"
      BY <2>2, CallbackParts DEF HandlersHold, Service!Event
    <2>4. QED
      BY <1>1, <2>1, <2>3
  <1>3. CASE ~Service!WriteTask(w)
    <2>1. taskStatus' = taskStatus
      BY <1>3 DEF Service!HandlerStep, Service!AnswerDuplicate, Service!FindNothing,
           Service!DecideStale, Service!UnknownCapsule, Service!PersistStale,
           Service!PersistFresh, Service!InsertRefused, Service!ValidateExecutorEvent,
           Service!ReadTask, Service!MarkApplied, Service!taskVars
    <2>2. QED
      BY <1>1, <2>1
  <1>4. QED
    BY <1>2, <1>3

LEMMA TasksOfCallbacks ==
    ASSUME BrainTypeInv, HandlersHold, CallbackPath
    PROVE  /\ taskStatus' \in [Capsules -> {"absent", "queued", "completed"}]
           /\ \A k \in Capsules : taskStatus[k] = "absent" <=> taskStatus'[k] = "absent"
  <1>1. ASSUME NEW w \in Handlers, Service!HandlerStep(w)
        PROVE  /\ taskStatus' \in [Capsules -> {"absent", "queued", "completed"}]
               /\ \A k \in Capsules : taskStatus[k] = "absent" <=> taskStatus'[k] = "absent"
    BY <1>1, TasksOfHandler
  <1>2. ASSUME NEW w \in Handlers,
               Service!Crash(w) \/ \E callback \in Callbacks : Service!Deliver(w, callback)
        PROVE  taskStatus' = taskStatus
    BY <1>2 DEF Service!Crash, Service!Deliver, Service!taskVars
  <1>3. taskStatus \in [Capsules -> {"absent", "queued", "completed"}]
    BY DEF BrainTypeInv, UserTypeInv, UserTypeOK, Capsules
  <1>4. QED
    BY <1>1, <1>2, <1>3 DEF CallbackPath

LEMMA HandlerNext ==
    ASSUME HandlersHold, NEW w \in Handlers,
           \/ Service!HandlerStep(w) \/ Service!Crash(w)
           \/ \E callback \in Callbacks : Service!Deliver(w, callback),
           \A k \in Capsules : taskStatus[k] = "absent" <=> taskStatus'[k] = "absent"
    PROVE  HandlersHold'
  <1>1. \A callback \in Callbacks : taskStatus[callback.capsule_id] # "absent" =>
           taskStatus'[callback.capsule_id] # "absent"
    BY CallbackParts
  <1>2. ASSUME Service!Fail(w) \/ Service!Stop(w), persisted' = persisted PROVE HandlersHold'
    BY <1>1, <1>2 DEF Service!Fail, Service!Stop, Service!Goto, HandlersHold
  <1>3. ASSUME request' = request, persisted' = persisted,
               \E where \in {"find", "get_task", "persist", "validate", "read_task",
                             "write_task", "mark"} : Service!Goto(w, where),
               pc[w] # "idle",
               pc'[w] = "persist" => taskStatus[request[w].capsule_id] # "absent",
               pc'[w] \in {"validate", "read_task", "write_task", "mark"} =>
                  pc[w] \in {"validate", "read_task", "write_task", "mark"}
        PROVE  HandlersHold'
    BY <1>1, <1>3 DEF Service!Goto, HandlersHold
  <1>4. ASSUME Service!InsertEvent(w),
               \/ Service!Stop(w)
               \/ Service!Goto(w, "validate") /\ request' = request
        PROVE  HandlersHold'
    <2>1. /\ pc[w] = "persist"
          /\ request[w] \in Callbacks
          /\ persisted' = [persisted EXCEPT ![request[w].event_id] = request[w]]
          /\ taskStatus'[request[w].capsule_id] # "absent"
      BY <1>1, <1>4 DEF Service!InsertEvent, Service!At, HandlersHold
    <2>2. request[w] # NoCallback /\ request[w].event_id \in Events
      BY <2>1, CallbackParts
    <2>3. /\ persisted' \in [Events -> Callbacks \cup {NoCallback}]
          /\ \A e \in Events : persisted[e] # NoCallback => persisted'[e] # NoCallback
          /\ \A e \in Events : persisted'[e] # NoCallback =>
                taskStatus'[persisted'[e].capsule_id] # "absent"
          /\ persisted'[request[w].event_id] # NoCallback
      BY <1>1, <2>1, <2>2 DEF HandlersHold
    <2>4. \A v \in Handlers : pc[v] # "idle" => request[v].event_id \in Events
      BY CallbackParts DEF HandlersHold
    <2>5. QED
      BY <1>1, <1>4, <2>1, <2>3, <2>4 DEF Service!Stop, Service!Goto, HandlersHold
  <1>5. ASSUME NEW callback \in Callbacks, Service!Deliver(w, callback) PROVE HandlersHold'
    BY <1>1, <1>5 DEF Service!Deliver, Service!Goto, Service!eventVars, HandlersHold
  <1>6. ASSUME Service!Crash(w) \/ Service!AnswerDuplicate(w) \/ Service!UnknownCapsule(w)
               \/ Service!InsertRefused(w) \/ Service!MarkApplied(w)
        PROVE  HandlersHold'
    BY <1>2, <1>6 DEF Service!Crash, Service!AnswerDuplicate, Service!UnknownCapsule,
         Service!InsertRefused, Service!MarkApplied, Service!Fail, Service!Return,
         Service!eventVars
  <1>7. ASSUME Service!FindNothing(w) \/ Service!DecideStale(w) PROVE HandlersHold'
    <2>1. /\ request' = request
          /\ persisted' = persisted
          /\ pc[w] # "idle"
          /\ \/ Service!Goto(w, "get_task")
             \/ Service!Goto(w, "persist") /\ taskStatus[request[w].capsule_id] # "absent"
      BY <1>7 DEF Service!FindNothing, Service!DecideStale, Service!At, Service!eventVars,
           Service!localVars
    <2>2. QED
      BY <1>3, <2>1 DEF Service!Goto, HandlersHold
  <1>8. ASSUME Service!ValidateExecutorEvent(w) \/ Service!ReadTask(w) \/ Service!WriteTask(w)
        PROVE  HandlersHold'
    <2>1. /\ request' = request
          /\ persisted' = persisted
          /\ pc[w] \in {"validate", "read_task", "write_task"}
          /\ \E where \in {"read_task", "write_task", "mark"} : Service!Goto(w, where)
      BY <1>8 DEF Service!ValidateExecutorEvent, Service!ReadTask, Service!WriteTask,
           Service!At, Service!eventVars, Service!localVars
    <2>2. QED
      BY <1>3, <2>1 DEF Service!Goto, HandlersHold
  <1>9. ASSUME Service!PersistStale(w) \/ Service!PersistFresh(w) PROVE HandlersHold'
    BY <1>4, <1>9 DEF Service!PersistStale, Service!PersistFresh, Service!Return,
         Service!localVars
  <1>10. QED
    BY <1>5, <1>6, <1>7, <1>8, <1>9 DEF Service!HandlerStep

-----------------------------------------------------------------------------
\* Every task is that of a stored track, and a turn asked for it.
TasksAsked ==
    \A t \in Tracks, x \in Texts : taskStatus[<<t, x>>] # "absent" =>
        /\ tracks[t] # NoRow
        /\ \E u \in Turns : turns[u] # NoRow /\ turns[u].track # NoRow /\ turns[u].text = x

BrainInv ==
    /\ BrainTypeInv
    /\ HandlersHold
    /\ \A r \in Runs : RunRemembers(r)
    /\ TasksAsked

LEMMA BrainInvInit == BrainInit => BrainInv
  BY BrainTypeInit
     DEF BrainInit, UserInit, Service!Init, BrainInv, HandlersHold, RunRemembers, PastAttach,
         Delegates, TasksAsked, Runs

\* The user path creates a queued task for a capsule that had none.
LEMMA TasksOfUser ==
    ASSUME BrainInv, UserNext
    PROVE  \/ taskStatus' = taskStatus
           \/ \E r \in Runs : /\ rpc[r] = "insert_task"
                              /\ Capsule(r) \in Capsules
                              /\ taskStatus[Capsule(r)] = "absent"
                              /\ taskStatus' = [taskStatus EXCEPT ![Capsule(r)] = "queued"]
  <1>1. ASSUME NEW r \in Runs, InsertTask(r)
        PROVE  /\ rpc[r] = "insert_task"
               /\ Capsule(r) \in Capsules
               /\ taskStatus[Capsule(r)] = "absent"
               /\ taskStatus' = [taskStatus EXCEPT ![Capsule(r)] = "queued"]
    <2>1. /\ rpc[r] = "insert_task"
          /\ taskStatus[Capsule(r)] = "absent"
          /\ taskStatus' = [taskStatus EXCEPT ![Capsule(r)] = "queued"]
      BY <1>1 DEF InsertTask, RunAt
    <2>2. track[r] \in Tracks /\ message[r] \in Messages
      BY <2>1 DEF BrainInv, BrainTypeInv, UserTypeInv, RunHolds, HasTurn, HasTrack
    <2>3. QED
      BY <2>1, <2>2, MessageFields DEF Capsule, Capsules
  <1>2. ASSUME taskStatus' # taskStatus PROVE \E r \in Runs : InsertTask(r)
    BY <1>2 DEF UserNext, RunStep, Receive, RunCrash, FindTurn, InsertTurn, MessageTaken,
         FindTrack, InsertTrack, InsertThread, ThreadTaken, GetTrack, AttachTurn, WriteTrack,
         WriteThread, Analyze, MemoryWorks, Route, FindTask, TaskTaken, WaitTrack, WaitThread
  <1>3. QED
    BY <1>1, <1>2

\* All the callback service sees of a step of the program is a step of its own.
LEMMA ServiceStep == BrainInv /\ [BrainNext]_allVars => [Service!Next]_(Service!vars)
  <1> SUFFICES ASSUME BrainInv, [BrainNext]_allVars PROVE [Service!Next]_(Service!vars)
    OBVIOUS
  <1>1. ASSUME UNCHANGED <<taskStatus, callbackVars>> PROVE UNCHANGED Service!vars
    BY <1>1 DEF callbackVars, Service!vars, Service!taskVars, Service!eventVars,
         Service!localVars
  <1>2. CASE UserPath
    <2>1. UNCHANGED callbackVars
      BY <1>2 DEF UserPath
    <2>2. ASSUME NEW k \in Capsules, taskStatus[k] = "absent",
                 taskStatus' = [taskStatus EXCEPT ![k] = "queued"]
          PROVE  Service!CreateTask(k)
      BY <2>1, <2>2 DEF callbackVars, Service!CreateTask, Service!eventVars, Service!localVars
    <2>3. CASE taskStatus' = taskStatus
      BY <1>1, <2>1, <2>3
    <2>4. QED
      BY <1>2, <2>2, <2>3, TasksOfUser
         DEF UserPath, Service!Next, Service!NextNoCrash, Service!Environment
  <1>3. CASE CallbackPath
    BY <1>3 DEF CallbackPath, Service!Next, Service!NextNoCrash, Service!Environment
  <1>4. CASE LlmPath
    <2>1. UNCHANGED <<taskStatus, callbackVars>>
      BY <1>4, LlmRows DEF LlmPath, BrainInv
    <2>2. QED
      BY <1>1, <2>1
  <1>5. CASE UNCHANGED allVars
    BY <1>1, <1>5 DEF allVars, userVars, ingressVars
  <1>6. QED
    BY <1>2, <1>3, <1>4, <1>5 DEF BrainNext

\* Steps that only add rows leave what runs remember and tasks rest on alone.
LEMMA RowsAdded ==
    ASSUME BrainInv, RowsStay, UNCHANGED <<rpc, stateVars, submission>>,
           \A u \in Turns : turns[u] # NoRow => turns'[u] = turns[u],
           \A k \in Capsules : taskStatus'[k] # "absent" => taskStatus[k] # "absent"
    PROVE  (\A r \in Runs : RunRemembers(r)') /\ TasksAsked'
  <1>1. \A r \in Runs : HasTurn(r) => turn[r] \in Turns /\ turns[turn[r]] # NoRow
    BY DEF BrainInv, BrainTypeInv, UserTypeInv, RunHolds
  <1>2. \A r \in Runs : rpc[r] \in PastAttach => HasTurn(r)
    BY DEF PastAttach, HasTurn
  <1>3. ASSUME NEW r \in Runs PROVE RunRemembers(r)'
    BY <1>1, <1>2 DEF BrainInv, RunRemembers, stateVars, HasTurn
  <1>4. TasksAsked'
    BY DEF BrainInv, TasksAsked, RowsStay, Capsules
  <1>5. QED
    BY <1>3, <1>4

LEMMA BrainInvNext == BrainInv /\ [BrainNext]_allVars => BrainInv'
  <1> SUFFICES ASSUME BrainInv, [BrainNext]_allVars PROVE BrainInv'
    OBVIOUS
  <1>1. CASE UserPath
    <2>1. UserTypeInv' /\ RowsStay
      BY <1>1, UserTypeNext, RowsNext DEF UserPath, BrainInv, BrainTypeInv
    <2>2. LlmHolds'
      BY <1>1, <2>1 DEF UserPath, BrainInv, BrainTypeInv, LlmHolds, RowsStay
    <2>3. \A r \in Runs : RunRemembers(r)'
      BY <1>1, RemembersNext DEF UserPath, BrainInv, BrainTypeInv
    <2>4. taskStatus \in [Capsules -> {"absent", "queued", "completed"}]
      BY DEF BrainInv, BrainTypeInv, UserTypeInv, UserTypeOK, Capsules
    <2>5. HandlersHold'
      <3>1. \A k \in Capsules : taskStatus[k] # "absent" => taskStatus'[k] # "absent"
        BY <1>1, <2>4, TasksOfUser DEF UserPath
      <3>2. UNCHANGED <<pc, request, persisted>>
        BY <1>1 DEF UserPath, callbackVars
      <3>3. QED
        BY <3>1, <3>2, CallbackParts DEF BrainInv, HandlersHold
    <2>6. TasksAsked'
      <3>1. ASSUME NEW t \in Tracks, NEW x \in Texts, taskStatus[<<t, x>>] # "absent"
            PROVE  /\ tracks'[t] # NoRow
                   /\ \E u \in Turns : /\ turns'[u] # NoRow
                                       /\ turns'[u].track # NoRow
                                       /\ turns'[u].text = x
        <4>1. tracks[t] # NoRow
          BY <3>1 DEF BrainInv, TasksAsked
        <4>2. PICK u \in Turns : turns[u] # NoRow /\ turns[u].track # NoRow /\ turns[u].text = x
          BY <3>1 DEF BrainInv, TasksAsked
        <4>3. turns'[u] # NoRow /\ turns'[u].track # NoRow /\ turns'[u].text = x
          BY <1>1, <4>2, TurnsStay DEF UserPath, BrainInv, BrainTypeInv
        <4>4. QED
          BY <2>1, <4>1, <4>3 DEF RowsStay
      <3>2. ASSUME NEW r \in Runs, rpc[r] = "insert_task", NEW t \in Tracks, NEW x \in Texts,
                   <<t, x>> = Capsule(r)
            PROVE  /\ tracks'[t] # NoRow
                   /\ \E u \in Turns : /\ turns'[u] # NoRow
                                       /\ turns'[u].track # NoRow
                                       /\ turns'[u].text = x
        <4>1. t = track[r] /\ x = message[r].text
          BY <3>2 DEF Capsule
        <4>2. /\ tracks[t] # NoRow
              /\ turn[r] \in Turns
              /\ turns[turn[r]] # NoRow
          BY <3>2, <4>1 DEF BrainInv, BrainTypeInv, UserTypeInv, RunHolds, HasTurn, HasTrack
        <4>3. turns[turn[r]].track # NoRow /\ turns[turn[r]].text = x
          BY <3>2, <4>1 DEF BrainInv, RunRemembers, PastAttach, Delegates
        <4>4. /\ turns'[turn[r]] # NoRow
              /\ turns'[turn[r]].track # NoRow
              /\ turns'[turn[r]].text = x
          BY <1>1, <4>2, <4>3, TurnsStay DEF UserPath, BrainInv, BrainTypeInv
        <4>5. QED
          BY <2>1, <4>2, <4>4 DEF RowsStay
      <3>3. ASSUME NEW t \in Tracks, NEW x \in Texts, taskStatus'[<<t, x>>] # "absent"
            PROVE  \/ taskStatus[<<t, x>>] # "absent"
                   \/ \E r \in Runs : rpc[r] = "insert_task" /\ <<t, x>> = Capsule(r)
        BY <1>1, <2>4, <3>3, TasksOfUser DEF UserPath, Capsules
      <3>4. QED
        BY <3>1, <3>2, <3>3 DEF TasksAsked
    <2>7. QED
      BY <2>1, <2>2, <2>3, <2>5, <2>6 DEF BrainInv, BrainTypeInv
  <1>2. CASE CallbackPath
    <2>1. UNCHANGED <<dialogueVars, rpc, stateVars, historyVars, memoryVars, llmTrack>>
      BY <1>2 DEF CallbackPath
    <2>2. /\ taskStatus' \in [Capsules -> {"absent", "queued", "completed"}]
          /\ \A k \in Capsules : taskStatus[k] = "absent" <=> taskStatus'[k] = "absent"
      BY <1>2, TasksOfCallbacks DEF BrainInv
    <2>3. BrainTypeInv'
      BY <2>1, <2>2 DEF BrainInv, BrainTypeInv, LlmHolds, UserTypeInv, UserTypeOK,
           MemoryTypeOK, WriterHolds, Stored, Key, RunHolds, HasTurn, HasTrack, Capsules,
           dialogueVars, stateVars, historyVars, memoryVars, tables, writerVars
    <2>4. RowsStay /\ \A u \in Turns : turns[u] # NoRow => turns'[u] = turns[u]
      BY <2>1 DEF RowsStay, dialogueVars
    <2>5. (\A r \in Runs : RunRemembers(r)') /\ TasksAsked'
      BY <2>1, <2>2, <2>4, RowsAdded DEF memoryVars, writerVars
    <2>6. HandlersHold'
      BY <1>2, <2>2, HandlerNext DEF CallbackPath, BrainInv
    <2>7. QED
      BY <2>3, <2>5, <2>6 DEF BrainInv
  <1>3. CASE LlmPath
    <2>1. /\ RowsTyped' /\ RowsStay /\ LlmHolds'
          /\ \A u \in Turns : turns[u] # NoRow => turns'[u] = turns[u]
          /\ UNCHANGED <<taskStatus, rpc, stateVars, historyVars, memoryVars, callbackVars>>
      BY <1>3, LlmRows DEF LlmPath, BrainInv
    <2>2. UserTypeInv'
      <3>1. RunHolds'
        BY <2>1 DEF BrainInv, BrainTypeInv, UserTypeInv, RunHolds, HasTurn, HasTrack, RowsStay,
             stateVars
      <3>2. WriterHolds' /\ MemoryTypeOK'
        BY <2>1 DEF BrainInv, BrainTypeInv, UserTypeInv, UserTypeOK, MemoryTypeOK, WriterHolds,
             Stored, Key, memoryVars, tables, writerVars
      <3>3. QED
        BY <2>1, <3>1, <3>2 DEF BrainInv, BrainTypeInv, UserTypeInv, UserTypeOK, RowsTyped,
             stateVars, historyVars
    <2>3. (\A r \in Runs : RunRemembers(r)') /\ TasksAsked'
      BY <2>1, RowsAdded DEF memoryVars, writerVars
    <2>4. HandlersHold'
      BY <2>1 DEF BrainInv, HandlersHold, callbackVars
    <2>5. QED
      BY <2>1, <2>2, <2>3, <2>4 DEF BrainInv, BrainTypeInv
  <1>4. CASE UNCHANGED allVars
    BY <1>4 DEF allVars, userVars, ingressVars, callbackVars, dialogueVars, stateVars,
         historyVars, memoryVars, tables, writerVars, BrainInv, BrainTypeInv, LlmHolds,
         UserTypeInv, UserTypeOK, MemoryTypeOK, WriterHolds, Stored, Key, RunHolds, HasTurn,
         HasTrack, HandlersHold, RunRemembers, TasksAsked
  <1>5. QED
    BY <1>1, <1>2, <1>3, <1>4 DEF BrainNext

LEMMA BrainInvAlways == BrainSpec => []BrainInv
  BY BrainInvInit, BrainInvNext, PTL DEF BrainSpec

(* The graph and the LLM path are the environment the callback service was *)
(* proved in: nobody else completes, deletes or recounts a task.           *)
THEOREM CallbacksServed == BrainSpec => ServesCallbacks
  <1>1. BrainInit => Service!Init
    BY DEF BrainInit
  <1>2. QED
    BY <1>1, ServiceStep, BrainInvAlways, PTL DEF BrainSpec, ServesCallbacks, Service!Spec

(* Once an event is stored, load_track_by_capsule finds the track of its   *)
(* capsule, whatever runs and LLM turns are under way.                     *)
THEOREM StoredEventsHaveTrack == BrainSpec => []EventsHaveTrack
  <1>1. BrainInv => EventsHaveTrack
    <2> SUFFICES ASSUME BrainInv, NEW e \in Events, persisted[e] # NoCallback
                 PROVE  tracks[persisted[e].capsule_id[1]] # NoRow
      BY DEF EventsHaveTrack
    <2>1. /\ persisted[e].capsule_id \in Capsules
          /\ taskStatus[persisted[e].capsule_id] # "absent"
      BY CallbackParts DEF BrainInv, HandlersHold
    <2>2. PICK t \in Tracks, x \in Texts : persisted[e].capsule_id = <<t, x>>
      BY <2>1 DEF Capsules
    <2>3. QED
      BY <2>1, <2>2 DEF BrainInv, TasksAsked
  <1>2. QED
    BY <1>1, BrainInvAlways, PTL

(* Whatever an executor completed, a stored and attached turn asked for.   *)
THEOREM CompletionsAsked == BrainSpec => []CompletedWasDelegated
  <1>1. BrainInv => CompletedWasDelegated
    <2> SUFFICES ASSUME BrainInv, NEW k \in Capsules, taskStatus[k] = "completed"
                 PROVE  \E u \in Turns : /\ turns[u] # NoRow
                                        /\ turns[u].track # NoRow
                                        /\ turns[u].text = k[2]
      BY DEF CompletedWasDelegated
    <2>1. PICK t \in Tracks, x \in Texts : k = <<t, x>>
      BY DEF Capsules
    <2>2. QED
      BY <2>1 DEF BrainInv, TasksAsked
  <1>2. QED
    BY <1>1, BrainInvAlways, PTL

-----------------------------------------------------------------------------
\* While graph runs work one at a time nobody starts a wait between a run's
\* reading the status of its track and writing it back, so a wait that is
\* there then was there to be read.
SeenWaits ==
    /\ OneRunAtWork
    /\ ~overlapped => \A r \in Runs :
          rpc[r] \in {"attach", "write_track"} /\ Waiting(track[r]) =>
              seenStatus[r] = "waiting_for_executor"

\* An LLM run makes the track active that it saves its turn on.
LEMMA LlmTracks ==
    ASSUME BrainTypeInv, LlmPath, NEW t \in Tracks, tracks'[t] # tracks[t]
    PROVE  /\ tracks'[t].status = "active"
           /\ \E u \in Turns : /\ turns[u] = NoRow /\ turns'[u] # NoRow
                               /\ turns'[u].track = t
                               /\ tracks'[t].last_turn = u
  <1> DEFINE Goal == /\ tracks'[t].status = "active"
                     /\ \E u \in Turns : /\ turns[u] = NoRow /\ turns'[u] # NoRow
                                         /\ turns'[u].track = t
                                         /\ tracks'[t].last_turn = u
  <1>1. RowsTyped
    BY DEF BrainTypeInv, UserTypeInv, UserTypeOK, RowsTyped
  <1>2. ASSUME NEW s \in Tracks, tracks[s] # NoRow, NEW u \in Turns,
               SetTrackStatus(s, "active", u), SaveLlmTurn(s, u)
        PROVE  Goal
    <2>1. "active" \in TrackStatus /\ u # NoRow
      BY NoRowAssumption DEF TrackStatus
    <2>2. /\ tracks' \in [Tracks -> TrackRow \cup {NoRow}]
          /\ tracks'[s] # NoRow
          /\ \A v \in Tracks : v # s => tracks'[v] = tracks[v]
          /\ tracks'[s].status = "active"
          /\ tracks'[s].last_turn = u
      BY <1>1, <1>2, <2>1, StatusRows
    <2>3. s = t
      BY <2>2
    <2>4. turns[u] = NoRow /\ turns'[u] # NoRow /\ turns'[u].track = s
      BY <1>1, <1>2, <2>2, SavedTurn
    <2>5. QED
      BY <2>2, <2>3, <2>4
  <1>3. ASSUME NEW l \in LlmRuns, NEW h \in Threads, LlmBegin(l, h) PROVE Goal
    <2>1. PICK s \in ThreadTracks(h), u \in Turns :
             SetTrackStatus(s, "active", u) /\ SaveLlmTurn(s, u)
      BY <1>3 DEF LlmBegin
    <2>2. s \in Tracks /\ tracks[s] # NoRow
      BY DEF ThreadTracks
    <2>3. QED
      BY <1>2, <2>1, <2>2
  <1>4. ASSUME NEW l \in LlmRuns, LlmEnd(l) PROVE Goal
    <2>1. llmTrack[l] \in Tracks /\ tracks[llmTrack[l]] # NoRow
      BY <1>4 DEF LlmEnd, BrainTypeInv, LlmHolds
    <2>2. PICK u \in Turns : SetTrackStatus(llmTrack[l], "active", u) /\ SaveLlmTurn(llmTrack[l], u)
      BY <1>4 DEF LlmEnd
    <2>3. QED
      BY <1>2, <2>1, <2>2
  <1>5. ASSUME NEW l \in LlmRuns, NEW h \in Threads, LlmBootstrap(l, h) PROVE Goal
    <2>1. PICK s \in Tracks, u \in Turns :
             /\ tracks' = [tracks EXCEPT ![s] = [thread |-> h, status |-> "active",
                                                 last_turn |-> u]]
             /\ SaveLlmTurn(s, u)
      BY <1>5 DEF LlmBootstrap
    <2> DEFINE row == [thread |-> h, status |-> "active", last_turn |-> u]
    <2>2. /\ row \in TrackRow /\ row # NoRow
          /\ row.status = "active" /\ row.last_turn = u
      BY NoRowAssumption DEF TrackRow, TrackStatus
    <2>3. tracks' = [tracks EXCEPT ![s] = row]
      BY <2>1
    <2> HIDE DEF row
    <2>4. /\ tracks' \in [Tracks -> TrackRow \cup {NoRow}]
          /\ s = t
          /\ tracks'[s] # NoRow
          /\ tracks'[s].status = "active"
          /\ tracks'[s].last_turn = u
      BY <1>1, <2>2, <2>3 DEF RowsTyped
    <2>5. turns[u] = NoRow /\ turns'[u] # NoRow /\ turns'[u].track = s
      BY <1>1, <2>1, <2>4, SavedTurn
    <2>6. QED
      BY <2>4, <2>5
  <1>6. ASSUME NEW l \in LlmRuns, LlmStops(l) PROVE FALSE
    BY <1>6 DEF LlmStops, userVars, ingressVars, dialogueVars
  <1>7. QED
    BY <1>3, <1>4, <1>5, <1>6 DEF LlmPath

\* A run changes the status of no track but its own, in these two statements.
LEMMA UserTracks ==
    ASSUME UserTypeInv, UserNext, NEW t \in Tracks, tracks[t] # NoRow,
           tracks'[t].status # tracks[t].status
    PROVE  \E r \in Runs : /\ t = track[r]
                           /\ \/ /\ WriteTrack(r)
                                 /\ tracks'[t].status = seenStatus[r]
                              \/ /\ WaitTrack(r)
                                 /\ tracks'[t].status = "waiting_for_executor"
  <1>1. RowsTyped
    BY DEF UserTypeInv, UserTypeOK, RowsTyped
  <1>2. PICK r \in Runs : InsertTrack(r) \/ WriteTrack(r) \/ WaitTrack(r)
    BY DEF UserNext, RunStep, Receive, RunCrash, FindTurn, InsertTurn, MessageTaken,
         FindTrack, InsertThread, ThreadTaken, GetTrack, AttachTurn, WriteThread, Analyze,
         MemoryWorks, Route, FindTask, InsertTask, TaskTaken, WaitThread, dialogueVars
  <1>3. ~InsertTrack(r)
    <2>1. ASSUME InsertTrack(r) PROVE tracks'[t] = tracks[t]
      <3>1. PICK s \in Tracks : tracks[s] = NoRow /\ \E row : tracks' = [tracks EXCEPT ![s] = row]
        BY <2>1 DEF InsertTrack
      <3>2. QED
        BY <1>1, <3>1 DEF RowsTyped
    <2>2. QED
      BY <2>1
  <1>4. /\ track[r] \in Tracks
        /\ tracks[track[r]] # NoRow
        /\ turn[r] \in Turns
        /\ seenStatus[r] \in TrackStatus
        /\ "waiting_for_executor" \in TrackStatus
    BY <1>2, <1>3 DEF WriteTrack, WaitTrack, RunAt, UserTypeInv, UserTypeOK, RunHolds, HasTurn,
         HasTrack, TrackStatus
  <1>5. CASE WriteTrack(r)
    <2>1. SetTrackStatus(track[r], seenStatus[r], turn[r])
      BY <1>5 DEF WriteTrack
    <2>2. QED
      BY <1>1, <1>4, <1>5, <2>1, StatusRows
  <1>6. CASE WaitTrack(r)
    <2>1. SetTrackStatus(track[r], "waiting_for_executor", NoRow)
      BY <1>6 DEF WaitTrack
    <2>2. QED
      BY <1>1, <1>4, <1>6, <2>1, StatusRows
  <1>7. QED
    BY <1>2, <1>3, <1>5, <1>6

LEMMA SeenWaitsNext == BrainInv /\ SeenWaits /\ [BrainNext]_allVars => SeenWaits'
  <1> SUFFICES ASSUME BrainInv, SeenWaits, [BrainNext]_allVars PROVE SeenWaits'
    OBVIOUS
  <1>1. UserTypeInv /\ RowsTyped /\ RunsTyped /\ RunHolds
    BY DEF BrainInv, BrainTypeInv, UserTypeInv, UserTypeOK, RowsTyped, RunsTyped
  \* No step of another path starts a wait.
  <1>2. ASSUME UNCHANGED <<rpc, stateVars, historyVars>>,
               \A t \in Tracks : Waiting(t)' => Waiting(t)
        PROVE  SeenWaits'
    <2>1. \A r \in Runs : rpc[r] \in {"attach", "write_track"} => track[r] \in Tracks
      BY <1>1 DEF RunHolds, HasTurn, HasTrack
    <2>2. QED
      BY <1>2, <2>1 DEF SeenWaits, OneRunAtWork, stateVars, historyVars, Waiting
  <1>3. CASE UserPath
    <2>1. OneRunAtWork'
      BY <1>1, <1>3, AtWorkNext DEF UserPath, SeenWaits
    <2>2. ASSUME NEW r \in Runs, ~overlapped', rpc'[r] \in {"attach", "write_track"},
                 Waiting(track[r])'
          PROVE  seenStatus'[r] = "waiting_for_executor"
      <3>1. PICK q \in Runs : RunMoves(q)
        BY <1>3 DEF UserPath, UserNext, RunMoves
      <3>2. q = r
        BY <1>1, <2>2, <3>1, Alone DEF SeenWaits
      <3>3. ~overlapped
        BY <1>3, <2>2, NeverBefore DEF UserPath
      <3>4. FindTrack(r) \/ GetTrack(r) \/ AttachTurn(r)
        BY <1>1, <2>2, <3>1, <3>2
           DEF RunMoves, RunStep, Receive, RunCrash, FindTurn, InsertTurn, MessageTaken,
               InsertTrack, InsertThread, ThreadTaken, WriteTrack, WriteThread, Analyze,
               MemoryWorks, Route, FindTask, InsertTask, TaskTaken, WaitTrack, WaitThread,
               RunAt, RunGoto, EndRun, RunsTyped
      <3>5. CASE FindTrack(r)
        <4>1. PICK t \in ThreadTracks(message[r].thread) :
                 /\ track' = [track EXCEPT ![r] = t]
                 /\ seenStatus' = [seenStatus EXCEPT ![r] = tracks[t].status]
          BY <1>1, <2>2, <3>5 DEF FindTrack, RunGoto, RunsTyped
        <4>2. track'[r] = t /\ seenStatus'[r] = tracks[t].status /\ tracks' = tracks
          BY <1>1, <3>5, <4>1 DEF FindTrack, RunsTyped, dialogueVars
        <4>3. QED
          BY <2>2, <4>2 DEF Waiting
      <3>6. CASE GetTrack(r)
        <4>1. /\ track' = track
              /\ tracks' = tracks
              /\ seenStatus'[r] = tracks[track[r]].status
          BY <1>1, <3>6 DEF GetTrack, RunsTyped, dialogueVars
        <4>2. QED
          BY <2>2, <4>1 DEF Waiting
      <3>7. CASE AttachTurn(r)
        <4>1. rpc[r] = "attach" /\ UNCHANGED <<tracks, track, seenStatus>>
          BY <3>7 DEF AttachTurn, RunAt, stateVars
        <4>2. QED
          BY <2>2, <3>3, <4>1 DEF SeenWaits, Waiting
      <3>8. QED
        BY <3>4, <3>5, <3>6, <3>7
    <2>3. QED
      BY <2>1, <2>2 DEF SeenWaits
  <1>4. CASE CallbackPath
    BY <1>2, <1>4 DEF CallbackPath, dialogueVars, Waiting
  <1>5. CASE LlmPath
    <2>1. UNCHANGED <<rpc, stateVars, historyVars>>
      BY <1>5, LlmRows DEF LlmPath, BrainInv
    <2>2. \A t \in Tracks : Waiting(t)' => Waiting(t)
      <3>1. ASSUME NEW t \in Tracks, Waiting(t)' PROVE Waiting(t)
        <4>1. tracks'[t].status # "active"
          BY <3>1 DEF Waiting
        <4>2. tracks'[t] = tracks[t]
          BY <1>5, <4>1, LlmTracks DEF BrainInv
        <4>3. QED
          BY <3>1, <4>2 DEF Waiting
      <3>2. QED
        BY <3>1
    <2>3. QED
      BY <1>2, <2>1, <2>2
  <1>6. CASE UNCHANGED allVars
    BY <1>2, <1>6 DEF allVars, userVars, ingressVars, dialogueVars, Waiting
  <1>7. QED
    BY <1>3, <1>4, <1>5, <1>6 DEF BrainNext

\* What the property says of one step.
EndsByLlmTurn(t) ==
    \E u \in Turns : /\ turns[u] = NoRow /\ turns'[u] # NoRow
                     /\ turns'[u].track = t
                     /\ tracks'[t].last_turn = u

LEMMA WaitEnds ==
    ASSUME BrainInv, SeenWaits, [BrainNext]_allVars, ~overlapped', NEW t \in Tracks,
           Waiting(t), ~Waiting(t)'
    PROVE  EndsByLlmTurn(t)
  <1>1. CASE UserPath
    <2>1. tracks'[t] # NoRow
      BY <1>1, RowsNext DEF UserPath, BrainInv, BrainTypeInv, RowsStay, Waiting
    <2>2. /\ tracks[t] # NoRow
          /\ tracks[t].status = "waiting_for_executor"
          /\ tracks'[t].status # "waiting_for_executor"
      BY <2>1 DEF Waiting
    <2>3. PICK r \in Runs : t = track[r] /\ WriteTrack(r) /\ tracks'[t].status = seenStatus[r]
      BY <1>1, <2>2, UserTracks DEF UserPath, BrainInv, BrainTypeInv
    <2>4. ~overlapped
      BY <1>1, NeverBefore DEF UserPath
    <2>5. seenStatus[r] = "waiting_for_executor"
      BY <2>3, <2>4 DEF SeenWaits, WriteTrack, RunAt
    <2>6. QED
      BY <2>2, <2>3, <2>5
  <1>2. CASE CallbackPath
    BY <1>2 DEF CallbackPath, dialogueVars, Waiting
  <1>3. CASE LlmPath
    <2>1. tracks'[t] # tracks[t]
      BY DEF Waiting
    <2>2. QED
      BY <1>3, <2>1, LlmTracks DEF BrainInv, EndsByLlmTurn
  <1>4. CASE UNCHANGED allVars
    BY <1>4 DEF allVars, userVars, ingressVars, dialogueVars, Waiting
  <1>5. QED
    BY <1>1, <1>2, <1>3, <1>4 DEF BrainNext

(* While graph runs worked one at a time, a user message that writes back  *)
(* an old status, or a callback, ends no wait: a track that waits and then *)
(* does not had a turn of the LLM path saved on it in that very step, even *)
(* with LLM runs and handlers at work between any two statements.          *)
THEOREM WaitsEndByLlmTurns == BrainSpec => OnlyLlmTurnsEndWaits
  <1>1. BrainInit => SeenWaits
    BY DEF BrainInit, UserInit, SeenWaits, OneRunAtWork
  <1>2. BrainInv /\ SeenWaits /\ [BrainNext]_allVars =>
           [~overlapped' => \A t \in Tracks : Waiting(t) /\ ~Waiting(t)' =>
              \E u \in Turns : /\ turns[u] = NoRow /\ turns'[u] # NoRow
                               /\ turns'[u].track = t
                               /\ tracks'[t].last_turn = u]_allVars
    BY WaitEnds DEF EndsByLlmTurn
  <1>3. QED
    BY <1>1, <1>2, SeenWaitsNext, BrainInvAlways, PTL DEF BrainSpec, OnlyLlmTurnsEndWaits
=============================================================================
