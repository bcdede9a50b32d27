---------------------------- MODULE UserIngress ----------------------------
(***************************************************************************)
(* The user path of the graph: graph/nodes/user_ingress.py, memory.py and  *)
(* executor.py, from the message to the terminal node, over the tables     *)
(* dialogue_turns, dialogue_tracks_temp, dialogue_threads and              *)
(* executor_tasks.  The memory step is the pipeline of MemoryWrite, called *)
(* by the run and waited for.                                              *)
(*                                                                         *)
(* No node opens a transaction (only the memory writer does), so every     *)
(* statement is durable by itself and is a step of its own.  A run may die *)
(* between two statements, and a message may be sent again.  Runs are the  *)
(* Writers of MemoryWrite and turns its Keys: a candidate's idempotency_key *)
(* is the hash of its turn and its text, and a turn has one text.          *)
(***************************************************************************)
EXTENDS MemoryWrite, Naturals, FiniteSets

CONSTANTS
    Tracks,          \* values of track_id
    Texts,           \* values of input_text
    Normal,          \* what a text is deduplicated by: the hash of its
                     \* stripped, lower-cased form
    Threads,         \* values of thread_id
    Delegating,      \* the texts that contain "delegate:"
    Remembering,     \* the texts that start with "remember:"
    Blank,           \* the texts of white space only
    Messages,        \* the requests that may be sent
    NoRow,           \* no row, or a NULL reference
    MaxDeliveries    \* bound: requests taken in altogether

Turns == Keys
Runs == Writers

\* external_message_id is NoRow in a request that has none.
ASSUME MessagesAssumption ==
    \A m \in Messages : m.thread \in Threads /\ m.text \in Texts
ASSUME TextsAssumption ==
    /\ Normal \in [Texts -> DedupeKeys]
    /\ Delegating \subseteq Texts /\ Remembering \subseteq Texts /\ Blank \subseteq Texts
    /\ Blank \cap (Delegating \cup Remembering) = {}
ASSUME BoundAssumption == MaxDeliveries \in Nat

VARIABLES
    turns,       \* dialogue_turns
    tracks,      \* dialogue_tracks_temp
    threads,     \* dialogue_threads, whose thread_id is unique
    taskStatus,  \* executor_tasks by idempotency key: track and instruction
    rpc,         \* where each run is
    message,     \* its request
    turn,        \* state["turn_id"]
    created,     \* state["turn_created"]
    track,       \* track.track_id, later state["track_id"]
    seenStatus,  \* track.status as bootstrap_or_load_track returned it
    deliveries,  \* requests taken in so far
    died,        \* history: whether a run ever died
    overlapped,  \* history: whether a run began while another was at work
    moved        \* history: turns attached to one thread and then to another

dialogueVars == <<turns, tracks, threads>>
stateVars == <<message, turn, created, track, seenStatus>>
historyVars == <<deliveries, died, overlapped, moved>>
ingressVars == <<dialogueVars, taskStatus, rpc, stateVars, historyVars>>
userVars == <<ingressVars, memoryVars>>

TrackStatus == {"active", "waiting_for_executor", "closed"}
\* Turns of the LLM path (module Brain) have no message id, and their text
\* is left out.
TurnRow == [ext : {m.ext : m \in Messages} \cup {NoRow}, text : Texts \cup {NoRow},
            track : Tracks \cup {NoRow}, thread : Threads \cup {NoRow}]
TrackRow == [thread : Threads, status : TrackStatus, last_turn : Turns \cup {NoRow}]
ThreadRow == [track : Tracks, status : TrackStatus]

\* NoRow is none of the values it stands in for, and the pipeline takes any
\* candidate a turn can make.
ASSUME NoRowAssumption ==
    NoRow \notin TurnRow \cup TrackRow \cup ThreadRow \cup Messages \cup Turns \cup Tracks
               \cup Threads
ASSUME PipelineAssumption ==
    [key : Turns, dedupe_key : DedupeKeys, recommended_action : {"save_immediately", "stage"},
     assignment : {"none"}] \subseteq Submissions

UserTypeOK ==
    /\ MemoryTypeOK
    /\ turns \in [Turns -> TurnRow \cup {NoRow}]
    /\ tracks \in [Tracks -> TrackRow \cup {NoRow}]
    /\ threads \in [Threads -> ThreadRow \cup {NoRow}]
    /\ taskStatus \in [Tracks \X Texts -> {"absent", "queued", "completed"}]
    /\ rpc \in [Runs -> {"idle", "find_turn", "insert_turn", "find_track", "insert_track",
                         "insert_thread", "get_track", "attach", "write_track",
                         "write_thread", "analyze", "memory", "router", "find_task",
                         "insert_task", "wait_track", "wait_thread"}]
    /\ message \in [Runs -> Messages \cup {NoRow}]
    /\ turn \in [Runs -> Turns \cup {NoRow}]
    /\ created \in [Runs -> BOOLEAN]
    /\ track \in [Runs -> Tracks \cup {NoRow}]
    /\ seenStatus \in [Runs -> TrackStatus]
    /\ deliveries \in 0..MaxDeliveries
    /\ died \in BOOLEAN
    /\ overlapped \in BOOLEAN
    /\ moved \subseteq Turns

UserInit ==
    /\ MemoryInit
    /\ turns = [u \in Turns |-> NoRow]
    /\ tracks = [t \in Tracks |-> NoRow]
    /\ threads = [h \in Threads |-> NoRow]
    /\ taskStatus = [k \in Tracks \X Texts |-> "absent"]
    /\ rpc = [r \in Runs |-> "idle"]
    /\ message = [r \in Runs |-> NoRow]
    /\ turn = [r \in Runs |-> NoRow]
    /\ created = [r \in Runs |-> FALSE]
    /\ track = [r \in Runs |-> NoRow]
    /\ seenStatus = [r \in Runs |-> "active"]
    /\ deliveries = 0
    /\ died = FALSE
    /\ overlapped = FALSE
    /\ moved = {}

-----------------------------------------------------------------------------
RunAt(r, where) == rpc[r] = where
RunGoto(r, where) == rpc' = [rpc EXCEPT ![r] = where]

\* Mutant: the task names a track id that was made anew; no foreign key of
\* executor_tasks refuses it.
CapsuleOfNewTrack(r) ==
    LET unused == {t \in Tracks : tracks[t] = NoRow} IN
    <<IF unused = {} THEN track[r] ELSE CHOOSE t \in unused : TRUE, message[r].text>>

Capsule(r) == <<track[r], message[r].text>>

\* The graph ended or raised: its runtime state is gone.
EndRun(r) ==
    /\ RunGoto(r, "idle")
    /\ message' = [message EXCEPT ![r] = NoRow]
    /\ turn' = [turn EXCEPT ![r] = NoRow]
    /\ created' = [created EXCEPT ![r] = FALSE]
    /\ track' = [track EXCEPT ![r] = NoRow]
    /\ seenStatus' = [seenStatus EXCEPT ![r] = "active"]

-----------------------------------------------------------------------------
\* handle_user_message invokes the graph.
Receive(r, m) ==
    /\ RunAt(r, "idle")
    /\ deliveries < MaxDeliveries
    /\ deliveries' = deliveries + 1
    /\ overlapped' = (overlapped \/ \E q \in Runs : ~RunAt(q, "idle"))
    /\ message' = [message EXCEPT ![r] = m]
    /\ RunGoto(r, "find_turn")
    /\ UNCHANGED <<dialogueVars, taskStatus, turn, created, track, seenStatus, died, moved,
                   memoryVars>>

\* persist_dialogue_turn: the SELECT by external_message_id ...
SameMessage(r) == {u \in Turns : /\ turns[u] # NoRow
                                 /\ turns[u].ext # NoRow
                                 /\ turns[u].ext = message[r].ext}

FindTurn(r) ==
    /\ RunAt(r, "find_turn")
    /\ \/ /\ SameMessage(r) = {}
          /\ RunGoto(r, "insert_turn")
          /\ UNCHANGED turn
       \/ \E u \in SameMessage(r) :
             /\ turn' = [turn EXCEPT ![r] = u]
             /\ RunGoto(r, "find_track")
    /\ UNCHANGED <<dialogueVars, taskStatus, message, created, track, seenStatus,
                   historyVars, memoryVars>>

\* ... and the INSERT, refused by the unique index when another run has
\* stored the message since.
InsertTurn(r) ==
    /\ RunAt(r, "insert_turn")
    /\ SameMessage(r) = {}
    /\ \E u \in Turns :
          /\ turns[u] = NoRow
          /\ turns' = [turns EXCEPT ![u] = [ext |-> message[r].ext, text |-> message[r].text,
                                            track |-> NoRow, thread |-> NoRow]]
          /\ turn' = [turn EXCEPT ![r] = u]
    /\ created' = [created EXCEPT ![r] = TRUE]
    /\ RunGoto(r, "find_track")
    /\ UNCHANGED <<tracks, threads, taskStatus, message, track, seenStatus, historyVars,
                   memoryVars>>

MessageTaken(r) ==
    /\ RunAt(r, "insert_turn")
    /\ SameMessage(r) # {}
    /\ EndRun(r)
    /\ UNCHANGED <<dialogueVars, taskStatus, historyVars, memoryVars>>

-----------------------------------------------------------------------------
\* bootstrap_or_load_track: the SELECT has no ORDER BY and takes one row.
ThreadTracks(h) == {t \in Tracks : tracks[t] # NoRow /\ tracks[t].thread = h}

\* Mutant: the thread is looked up in dialogue_threads.
FindOpenTrack(r) ==
    LET found == {t \in Tracks : /\ threads[message[r].thread] # NoRow
                                 /\ threads[message[r].thread].track = t} IN
    /\ RunAt(r, "find_track")
    /\ \/ /\ found = {}
          /\ RunGoto(r, "insert_track")
          /\ UNCHANGED <<track, seenStatus>>
       \/ \E t \in found :
             /\ track' = [track EXCEPT ![r] = t]
             /\ seenStatus' = [seenStatus EXCEPT ![r] = tracks[t].status]
             /\ RunGoto(r, "attach")
    /\ UNCHANGED <<dialogueVars, taskStatus, message, turn, created, historyVars, memoryVars>>

FindTrack(r) ==
    LET found == ThreadTracks(message[r].thread) IN
    /\ RunAt(r, "find_track")
    /\ \/ /\ found = {}
          /\ RunGoto(r, "insert_track")
          /\ UNCHANGED <<track, seenStatus>>
       \/ \E t \in found :
             /\ track' = [track EXCEPT ![r] = t]
             /\ seenStatus' = [seenStatus EXCEPT ![r] = tracks[t].status]
             /\ RunGoto(r, "attach")
    /\ UNCHANGED <<dialogueVars, taskStatus, message, turn, created, historyVars, memoryVars>>

InsertTrack(r) ==
    /\ RunAt(r, "insert_track")
    /\ \E t \in Tracks :
          /\ tracks[t] = NoRow
          /\ tracks' = [tracks EXCEPT ![t] = [thread |-> message[r].thread,
                                              status |-> "active", last_turn |-> NoRow]]
          /\ track' = [track EXCEPT ![r] = t]
    /\ RunGoto(r, "insert_thread")
    /\ UNCHANGED <<turns, threads, taskStatus, message, turn, created, seenStatus,
                   historyVars, memoryVars>>

InsertThread(r) ==
    LET h == message[r].thread IN
    /\ RunAt(r, "insert_thread")
    /\ threads[h] = NoRow
    /\ threads' = [threads EXCEPT ![h] = [track |-> track[r], status |-> "active"]]
    /\ RunGoto(r, "get_track")
    /\ UNCHANGED <<turns, tracks, taskStatus, stateVars, historyVars, memoryVars>>

\* uniq_dialogue_threads_thread: another run opened the thread meanwhile.
ThreadTaken(r) ==
    /\ RunAt(r, "insert_thread")
    /\ threads[message[r].thread] # NoRow
    /\ EndRun(r)
    /\ UNCHANGED <<dialogueVars, taskStatus, historyVars, memoryVars>>

GetTrack(r) ==
    /\ RunAt(r, "get_track")
    /\ seenStatus' = [seenStatus EXCEPT ![r] = tracks[track[r]].status]
    /\ RunGoto(r, "attach")
    /\ UNCHANGED <<dialogueVars, taskStatus, message, turn, created, track, historyVars,
                   memoryVars>>

Moving(r) ==
    moved' = IF turns[turn[r]].thread \in {NoRow, message[r].thread} THEN moved
             ELSE moved \cup {turn[r]}

\* Mutants: the arguments are swapped; a thread once set is kept; only a new
\* turn is attached.
AttachSwapped(r) ==
    /\ RunAt(r, "attach")
    /\ turns' = [turns EXCEPT ![turn[r]].track = message[r].thread,
                              ![turn[r]].thread = track[r]]
    /\ RunGoto(r, "write_track")
    /\ Moving(r)
    /\ UNCHANGED <<tracks, threads, taskStatus, stateVars, deliveries, died, overlapped,
                   memoryVars>>
AttachKeepsThread(r) ==
    /\ RunAt(r, "attach")
    /\ turns' = [turns EXCEPT ![turn[r]].track = track[r],
                              ![turn[r]].thread = IF @ = NoRow THEN message[r].thread ELSE @]
    /\ RunGoto(r, "write_track")
    /\ Moving(r)
    /\ UNCHANGED <<tracks, threads, taskStatus, stateVars, deliveries, died, overlapped,
                   memoryVars>>
AttachNewTurn(r) ==
    /\ RunAt(r, "attach")
    /\ turns' = IF created[r]
                THEN [turns EXCEPT ![turn[r]].track = track[r],
                                   ![turn[r]].thread = message[r].thread]
                ELSE turns
    /\ RunGoto(r, "write_track")
    /\ Moving(r)
    /\ UNCHANGED <<tracks, threads, taskStatus, stateVars, deliveries, died, overlapped,
                   memoryVars>>

AttachTurn(r) ==
    /\ RunAt(r, "attach")
    /\ turns' = [turns EXCEPT ![turn[r]].track = track[r],
                              ![turn[r]].thread = message[r].thread]
    /\ RunGoto(r, "write_track")
    /\ Moving(r)
    /\ UNCHANGED <<tracks, threads, taskStatus, stateVars, deliveries, died, overlapped,
                   memoryVars>>

\* update_track_status: one UPDATE for each of the two tables.
SetTrackStatus(t, status, last) ==
    tracks' = [tracks EXCEPT ![t].status = status,
                             ![t].last_turn = IF last = NoRow THEN @ ELSE last]

\* Mutant: the second UPDATE is missing.
KeepThreadStatus(t, status) == threads' = threads

SetThreadStatus(t, status) ==
    threads' = [h \in Threads |-> IF threads[h] # NoRow /\ threads[h].track = t
                                  THEN [threads[h] EXCEPT !.status = status]
                                  ELSE threads[h]]

\* Mutant: a user turn makes its track active.
ActivateTrack(r) ==
    /\ RunAt(r, "write_track")
    /\ SetTrackStatus(track[r], "active", turn[r])
    /\ RunGoto(r, "write_thread")
    /\ UNCHANGED <<turns, threads, taskStatus, stateVars, historyVars, memoryVars>>

\* The node writes back the status it was given, however old, to set
\* last_turn_id.
WriteTrack(r) ==
    /\ RunAt(r, "write_track")
    /\ SetTrackStatus(track[r], seenStatus[r], turn[r])
    /\ RunGoto(r, "write_thread")
    /\ UNCHANGED <<turns, threads, taskStatus, stateVars, historyVars, memoryVars>>

WriteThread(r) ==
    /\ RunAt(r, "write_thread")
    /\ SetThreadStatus(track[r], seenStatus[r])
    /\ RunGoto(r, "analyze")
    /\ UNCHANGED <<turns, tracks, taskStatus, stateVars, historyVars, memoryVars>>

-----------------------------------------------------------------------------
\* Mutants: a message sent again is analyzed again; what starts with
\* "remember:" is all that is remembered.
WritesMemoryAgain(r) == message[r].text \notin Blank
CallsExecutorAgain(r) == message[r].text \in Delegating
WritesRememberedOnly(r) == created[r] /\ message[r].text \in Remembering

\* TurnAnalyzerNode: a turn that was stored before asks for nothing.
WritesMemory(r) == created[r] /\ message[r].text \notin Blank
CallsExecutor(r) == created[r] /\ message[r].text \in Delegating

MemoryCandidate(r) ==
    [key |-> turn[r], dedupe_key |-> Normal[message[r].text],
     recommended_action |-> IF message[r].text \in Remembering
                            THEN "save_immediately" ELSE "stage",
     assignment |-> "none"]

Analyze(r) ==
    /\ RunAt(r, "analyze")
    /\ IF WritesMemory(r)
       THEN RunGoto(r, "memory") /\ Submit(r, MemoryCandidate(r))
       ELSE RunGoto(r, "router") /\ UNCHANGED memoryVars
    /\ UNCHANGED <<dialogueVars, taskStatus, stateVars, historyVars>>

\* The run works through the pipeline; an exception there ends the run.
MemoryWorks(r) ==
    /\ RunAt(r, "memory")
    /\ \/ /\ FindCandidate(r) \/ InsertCandidate(r) \/ Decide(r)
          /\ UNCHANGED <<rpc, stateVars>>
       \/ /\ SkipDuplicate(r) \/ StageMemory(r) \/ WriteMemory(r)
          /\ RunGoto(r, "router")
          /\ UNCHANGED stateVars
       \/ /\ RollBack(r)
          /\ EndRun(r)
    /\ UNCHANGED <<dialogueVars, taskStatus, historyVars>>

\* Mutant: the track waits, then the task would be stored.
RouteToWait(r) ==
    /\ RunAt(r, "router")
    /\ IF CallsExecutor(r)
       THEN RunGoto(r, "wait_track") /\ UNCHANGED stateVars
       ELSE EndRun(r)
    /\ UNCHANGED <<dialogueVars, taskStatus, historyVars, memoryVars>>

\* RouterNode, and LocalAnswerNode when nothing is delegated.
Route(r) ==
    /\ RunAt(r, "router")
    /\ IF CallsExecutor(r)
       THEN RunGoto(r, "find_task") /\ UNCHANGED stateVars
       ELSE EndRun(r)
    /\ UNCHANGED <<dialogueVars, taskStatus, historyVars, memoryVars>>

\* Mutant: a completed task is queued again.
ReopenTask(r) ==
    /\ RunAt(r, "find_task")
    /\ RunGoto(r, IF taskStatus[Capsule(r)] = "absent" THEN "insert_task" ELSE "wait_track")
    /\ taskStatus' = [taskStatus EXCEPT ![Capsule(r)] = IF @ = "completed" THEN "queued" ELSE @]
    /\ UNCHANGED <<dialogueVars, stateVars, historyVars, memoryVars>>

\* insert_executor_task: the SELECT by idempotency key, and the INSERT.
FindTask(r) ==
    /\ RunAt(r, "find_task")
    /\ RunGoto(r, IF taskStatus[Capsule(r)] = "absent" THEN "insert_task" ELSE "wait_track")
    /\ UNCHANGED <<dialogueVars, taskStatus, stateVars, historyVars, memoryVars>>

InsertTask(r) ==
    /\ RunAt(r, "insert_task")
    /\ taskStatus[Capsule(r)] = "absent"
    /\ taskStatus' = [taskStatus EXCEPT ![Capsule(r)] = "queued"]
    /\ RunGoto(r, "wait_track")
    /\ UNCHANGED <<dialogueVars, stateVars, historyVars, memoryVars>>

TaskTaken(r) ==
    /\ RunAt(r, "insert_task")
    /\ taskStatus[Capsule(r)] # "absent"
    /\ EndRun(r)
    /\ UNCHANGED <<dialogueVars, taskStatus, historyVars, memoryVars>>

\* update_track_status(WAITING_FOR_EXECUTOR), and the run is over.
WaitTrack(r) ==
    /\ RunAt(r, "wait_track")
    /\ SetTrackStatus(track[r], "waiting_for_executor", NoRow)
    /\ RunGoto(r, "wait_thread")
    /\ UNCHANGED <<turns, threads, taskStatus, stateVars, historyVars, memoryVars>>

WaitThread(r) ==
    /\ RunAt(r, "wait_thread")
    /\ SetThreadStatus(track[r], "waiting_for_executor")
    /\ EndRun(r)
    /\ UNCHANGED <<turns, tracks, taskStatus, historyVars, memoryVars>>

\* The run dies between two statements; an open transaction is undone.
RunCrash(r) ==
    /\ ~RunAt(r, "idle")
    /\ EndRun(r)
    /\ died' = TRUE
    /\ IF RunAt(r, "memory") THEN WriterCrash(r) ELSE UNCHANGED memoryVars
    /\ UNCHANGED <<dialogueVars, taskStatus, deliveries, overlapped, moved>>

-----------------------------------------------------------------------------
RunStep(r) ==
    \/ FindTurn(r) \/ InsertTurn(r) \/ MessageTaken(r)
    \/ FindTrack(r) \/ InsertTrack(r) \/ InsertThread(r) \/ ThreadTaken(r) \/ GetTrack(r)
    \/ AttachTurn(r) \/ WriteTrack(r) \/ WriteThread(r)
    \/ Analyze(r) \/ MemoryWorks(r) \/ Route(r)
    \/ FindTask(r) \/ InsertTask(r) \/ TaskTaken(r) \/ WaitTrack(r) \/ WaitThread(r)

UserNext ==
    \E r \in Runs : RunStep(r) \/ RunCrash(r) \/ \E m \in Messages : Receive(r, m)

UserSpec == UserInit /\ [][UserNext]_userVars

-----------------------------------------------------------------------------
Idle == \A r \in Runs : RunAt(r, "idle")

(* A turn attached to a track belongs to the thread of that track, and the *)
(* row of a thread names a track of it: a race to open the thread leaves a *)
(* spare track behind, never a crossed reference.                          *)
ReferencesAgree ==
    /\ \A u \in Turns : turns[u] # NoRow /\ turns[u].track # NoRow =>
          /\ tracks[turns[u].track] # NoRow
          /\ tracks[turns[u].track].thread = turns[u].thread
    /\ \A h \in Threads : threads[h] # NoRow =>
          /\ tracks[threads[h].track] # NoRow
          /\ tracks[threads[h].track].thread = h

(* No track waits for an executor, in either table, that has no task: the  *)
(* task is stored first, and a status written back late was read from the  *)
(* same track.                                                             *)
WaitingHasTask ==
    \A t \in Tracks :
        \/ tracks[t] # NoRow /\ tracks[t].status = "waiting_for_executor"
        \/ \E h \in Threads : /\ threads[h] # NoRow
                              /\ threads[h].track = t
                              /\ threads[h].status = "waiting_for_executor"
        => \E x \in Texts : taskStatus[<<t, x>>] # "absent"

(* What is remembered or under review comes from a stored turn of the same *)
(* meaning that was attached to a track first, however often its message   *)
(* was sent and whoever stored it.                                         *)
MemoryHasItsTurn ==
    \A u \in items \cup staged :
        /\ turns[u] # NoRow
        /\ turns[u].track # NoRow
        /\ candidates[u].dedupe_key = Normal[turns[u].text]

(* While runs worked one at a time, whichever of them died and wherever, a *)
(* thread has one track.                                                   *)
OneTrackPerThread ==
    ~overlapped => \A h \in Threads : Cardinality(ThreadTracks(h)) <= 1

(* While runs worked one at a time, a track's last turn is one of its own, *)
(* and so is a turn that asked for each of its tasks, but for turns whose  *)
(* message was sent again on another thread, which took them with it.      *)
TracksOwnTheirTurns ==
    ~overlapped => \A t \in Tracks : tracks[t] # NoRow =>
        /\ tracks[t].last_turn \notin moved \cup {NoRow} =>
              turns[tracks[t].last_turn].track = t
        /\ \A x \in Texts : taskStatus[<<t, x>>] # "absent" =>
              \E u \in Turns : /\ turns[u] # NoRow
                               /\ turns[u].text = x
                               /\ u \in moved \/ turns[u].track = t

(* Between runs that worked one at a time and did not die, the two tables  *)
(* give a track the same status.                                           *)
StatusesAgree ==
    Idle /\ ~died /\ ~overlapped =>
        \A h \in Threads : threads[h] # NoRow =>
            threads[h].status = tracks[threads[h].track].status

Served(u) ==
    /\ turns[u].text \in Delegating =>
          \E t \in Tracks : turns[u].track = t /\ taskStatus[<<t, turns[u].text>>] # "absent"
    /\ turns[u].text \notin Blank =>
          \E k \in items \cup staged : candidates[k].dedupe_key = Normal[turns[u].text]

(* When runs worked one at a time and did not die, every turn that none is *)
(* at work on is served: one that is not blank reached memory or review by *)
(* its own text, and one that delegates reached Hermes, on its track.      *)
EveryTurnServed ==
    ~overlapped /\ ~died =>
        \A u \in Turns \ moved :
            turns[u] # NoRow /\ (\A r \in Runs : turn[r] # u) => Served(u)
=============================================================================
