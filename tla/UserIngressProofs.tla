-------------------------- MODULE UserIngressProofs --------------------------
(***************************************************************************)
(* What holds of UserIngress for any number of runs, messages, turns,      *)
(* tracks and threads, however runs interleave and wherever they die.      *)
(***************************************************************************)
EXTENDS UserIngress, MemoryWriteProofs, FiniteSetTheorems

\* Where a run has its turn, and where it has its track.
HasTurn(r) == rpc[r] \notin {"idle", "find_turn", "insert_turn"}
HasTrack(r) == HasTurn(r) /\ rpc[r] \notin {"find_track", "insert_track"}

\* A run's state names rows that are stored, and its track is one of its
\* message's thread.
RunHolds ==
    \A r \in Runs :
        /\ rpc[r] # "idle" => message[r] \in Messages
        /\ HasTurn(r) => turn[r] \in Turns /\ turns[turn[r]] # NoRow
        /\ HasTrack(r) => /\ track[r] \in Tracks
                          /\ tracks[track[r]] # NoRow
                          /\ tracks[track[r]].thread = message[r].thread

UserTypeInv == UserTypeOK /\ WriterHolds /\ RunHolds

LEMMA MessageFields ==
    ASSUME NEW m \in Messages
    PROVE  /\ m # NoRow
           /\ m.thread \in Threads
           /\ m.text \in Texts
           /\ m.ext \in {n.ext : n \in Messages}
           /\ Normal[m.text] \in DedupeKeys
  BY MessagesAssumption, NoRowAssumption, TextsAssumption

LEMMA CandidateSubmitted ==
    ASSUME UserTypeInv, NEW r \in Runs, rpc[r] = "analyze"
    PROVE  MemoryCandidate(r) \in Submissions
  <1>1. turn[r] \in Turns /\ message[r] \in Messages
    BY DEF UserTypeInv, RunHolds, HasTurn
  <1>2. QED
    BY <1>1, MessageFields, PipelineAssumption DEF MemoryCandidate

\* A run handles its candidate as a writer of the pipeline does.
LEMMA MemoryStepsTaken ==
    UserTypeInv /\ [UserNext]_userVars => [MemoryNext]_memoryVars
  <1> SUFFICES ASSUME UserTypeInv, [UserNext]_userVars PROVE [MemoryNext]_memoryVars
    OBVIOUS
  <1>1. ASSUME NEW r \in Runs, Analyze(r) PROVE [MemoryNext]_memoryVars
    BY <1>1, CandidateSubmitted DEF Analyze, RunAt, Runs, MemoryNext, MemoryNextNoCrash
  <1>2. ASSUME NEW r \in Runs, MemoryWorks(r) PROVE [MemoryNext]_memoryVars
    BY <1>2 DEF MemoryWorks, Runs, MemoryNext, MemoryNextNoCrash, WriterStep
  <1>3. ASSUME NEW r \in Runs, RunCrash(r) PROVE [MemoryNext]_memoryVars
    BY <1>3 DEF RunCrash, Runs, MemoryNext
  <1>4. ASSUME NEW r \in Runs, RunStep(r), ~Analyze(r), ~MemoryWorks(r)
        PROVE  UNCHANGED memoryVars
    BY <1>4 DEF RunStep, FindTurn, InsertTurn, MessageTaken, FindTrack, InsertTrack,
         InsertThread, ThreadTaken, GetTrack, AttachTurn, WriteTrack, WriteThread, Route,
         FindTask, InsertTask, TaskTaken, WaitTrack, WaitThread
  <1>5. ASSUME NEW r \in Runs, NEW m \in Messages, Receive(r, m) PROVE UNCHANGED memoryVars
    BY <1>5 DEF Receive
  <1>6. CASE UNCHANGED userVars
    BY <1>6 DEF userVars
  <1>7. QED
    BY <1>1, <1>2, <1>3, <1>4, <1>5, <1>6 DEF UserNext

LEMMA UserTypeInit == UserInit => UserTypeInv
  <1> SUFFICES ASSUME UserInit PROVE UserTypeInv
    OBVIOUS
  <1>1. MemoryTypeOK /\ WriterHolds
    BY MemoryTypeInit DEF UserInit, MemoryTypeInv
  <1>2. RunHolds
    BY DEF UserInit, RunHolds, HasTurn, HasTrack
  <1>3. 0 \in 0..MaxDeliveries
    BY BoundAssumption
  <1>4. UserTypeOK
    BY <1>1, <1>3 DEF UserInit, UserTypeOK, TrackStatus
  <1>5. QED
    BY <1>1, <1>2, <1>4 DEF UserTypeInv

\* The tables keep their types, and stored rows stay, with their threads.
RowsTyped ==
    /\ turns \in [Turns -> TurnRow \cup {NoRow}]
    /\ tracks \in [Tracks -> TrackRow \cup {NoRow}]
    /\ threads \in [Threads -> ThreadRow \cup {NoRow}]
    /\ taskStatus \in [Tracks \X Texts -> {"absent", "queued", "completed"}]

RowsStay ==
    /\ \A u \in Turns : turns[u] # NoRow => turns'[u] # NoRow
    /\ \A t \in Tracks : tracks[t] # NoRow =>
          tracks'[t] # NoRow /\ tracks'[t].thread = tracks[t].thread

LEMMA StatusRows ==
    ASSUME RowsTyped, NEW t \in Tracks, tracks[t] # NoRow,
           NEW status \in TrackStatus, NEW last \in Turns \cup {NoRow},
           SetTrackStatus(t, status, last)
    PROVE  /\ tracks' \in [Tracks -> TrackRow \cup {NoRow}]
           /\ \A s \in Tracks : tracks[s] # NoRow =>
                 tracks'[s] # NoRow /\ tracks'[s].thread = tracks[s].thread
           /\ \A s \in Tracks : s # t => tracks'[s] = tracks[s]
           /\ tracks'[t].status = status
           /\ tracks'[t].last_turn = IF last = NoRow THEN tracks[t].last_turn ELSE last
  <1> DEFINE row == [thread |-> tracks[t].thread, status |-> status,
                     last_turn |-> IF last = NoRow THEN tracks[t].last_turn ELSE last]
  <1>1. tracks[t] \in TrackRow
    BY DEF RowsTyped
  <1>2. row \in TrackRow /\ row # NoRow
    BY <1>1, NoRowAssumption DEF TrackRow
  <1>3. tracks' = [tracks EXCEPT ![t] = row]
    <2> DEFINE named == [tracks[t] EXCEPT !.status = status]
    <2>1. [named EXCEPT !.last_turn = IF last = NoRow THEN named.last_turn ELSE last] = row
      <3>1. named = [thread |-> tracks[t].thread, status |-> status,
                     last_turn |-> tracks[t].last_turn]
        BY <1>1 DEF TrackRow
      <3>2. named \in [thread : {tracks[t].thread}, status : {status},
                       last_turn : {tracks[t].last_turn}]
        BY <3>1
      <3> HIDE DEF named
      <3>3. QED
        BY <3>1, <3>2
    <2>2. tracks' = [tracks EXCEPT ![t] = [named EXCEPT !.last_turn =
                        IF last = NoRow THEN named.last_turn ELSE last]]
      BY DEF SetTrackStatus, RowsTyped
    <2>3. QED
      BY <2>1, <2>2
  <1> HIDE DEF row
  <1>4. /\ row.thread = tracks[t].thread
        /\ row.status = status
        /\ row.last_turn = IF last = NoRow THEN tracks[t].last_turn ELSE last
    BY DEF row
  <1>5. QED
    BY <1>2, <1>3, <1>4 DEF RowsTyped

LEMMA ThreadRows ==
    ASSUME RowsTyped, NEW t \in Tracks, NEW status \in TrackStatus, SetThreadStatus(t, status)
    PROVE  /\ threads' \in [Threads -> ThreadRow \cup {NoRow}]
           /\ \A h \in Threads :
                 /\ threads[h] = NoRow <=> threads'[h] = NoRow
                 /\ threads[h] # NoRow =>
                       /\ threads'[h].track = threads[h].track
                       /\ threads'[h].status = IF threads[h].track = t THEN status
                                               ELSE threads[h].status
  <1> SUFFICES ASSUME NEW h \in Threads
               PROVE  /\ threads'[h] \in ThreadRow \cup {NoRow}
                      /\ threads[h] = NoRow <=> threads'[h] = NoRow
                      /\ threads[h] # NoRow =>
                            /\ threads'[h].track = threads[h].track
                            /\ threads'[h].status = IF threads[h].track = t THEN status
                                                    ELSE threads[h].status
    BY DEF SetThreadStatus
  <1>1. threads[h] \in ThreadRow \cup {NoRow}
    BY DEF RowsTyped
  <1>2. CASE threads[h] # NoRow /\ threads[h].track = t
    <2> DEFINE row == [track |-> threads[h].track, status |-> status]
    <2>1. threads'[h] = row
      BY <1>1, <1>2 DEF SetThreadStatus, ThreadRow
    <2>2. row \in ThreadRow
      BY <1>1, <1>2 DEF ThreadRow
    <2>3. row # NoRow
      BY <2>2, NoRowAssumption
    <2>4. QED
      BY <1>2, <2>1, <2>2, <2>3
  <1>3. CASE ~(threads[h] # NoRow /\ threads[h].track = t)
    <2>1. threads'[h] = threads[h]
      BY <1>3 DEF SetThreadStatus
    <2>2. QED
      BY <1>1, <1>3, <2>1
  <1>4. QED
    BY <1>2, <1>3

LEMMA AttachRows ==
    ASSUME UserTypeInv, NEW r \in Runs, AttachTurn(r)
    PROVE  /\ turns' = [turns EXCEPT ![turn[r]] =
                          [ext |-> turns[turn[r]].ext, text |-> turns[turn[r]].text,
                           track |-> track[r], thread |-> message[r].thread]]
           /\ turns' \in [Turns -> TurnRow \cup {NoRow}]
           /\ \A u \in Turns : turns[u] # NoRow => turns'[u] # NoRow
           /\ turn[r] \in Turns
  <1> DEFINE row == [ext |-> turns[turn[r]].ext, text |-> turns[turn[r]].text,
                     track |-> track[r], thread |-> message[r].thread]
  <1>1. /\ turn[r] \in Turns
        /\ turns[turn[r]] \in TurnRow
        /\ track[r] \in Tracks
        /\ message[r].thread \in Threads
        /\ turns \in [Turns -> TurnRow \cup {NoRow}]
    BY MessageFields
       DEF AttachTurn, RunAt, UserTypeInv, UserTypeOK, RunHolds, HasTurn, HasTrack
  <1>2. row \in TurnRow /\ row # NoRow
    BY <1>1, NoRowAssumption DEF TurnRow
  <1>3. turns' = [turns EXCEPT ![turn[r]] = row]
    <2> DEFINE tracked == [turns[turn[r]] EXCEPT !.track = track[r]]
    <2>1. [tracked EXCEPT !.thread = message[r].thread] = row
      <3>1. tracked = [ext |-> turns[turn[r]].ext, text |-> turns[turn[r]].text,
                       track |-> track[r], thread |-> turns[turn[r]].thread]
        BY <1>1 DEF TurnRow
      <3>2. tracked \in [ext : {turns[turn[r]].ext}, text : {turns[turn[r]].text},
                         track : {track[r]}, thread : {turns[turn[r]].thread}]
        BY <3>1
      <3> HIDE DEF tracked
      <3>3. QED
        BY <3>1, <3>2
    <2>2. turns' = [turns EXCEPT ![turn[r]] = [tracked EXCEPT !.thread = message[r].thread]]
      BY <1>1 DEF AttachTurn
    <2>3. QED
      BY <2>1, <2>2
  <1> HIDE DEF row
  <1>4. /\ turns' \in [Turns -> TurnRow \cup {NoRow}]
        /\ \A u \in Turns : turns[u] # NoRow => turns'[u] # NoRow
    BY <1>1, <1>2, <1>3
  <1>5. QED
    BY <1>1, <1>3, <1>4 DEF row

LEMMA RowsNext == UserTypeInv /\ [UserNext]_userVars => RowsTyped' /\ RowsStay
  <1> SUFFICES ASSUME UserTypeInv, [UserNext]_userVars PROVE RowsTyped' /\ RowsStay
    OBVIOUS
  <1>1. RowsTyped
    BY DEF UserTypeInv, UserTypeOK, RowsTyped
  <1>2. ASSUME UNCHANGED <<dialogueVars, taskStatus>> PROVE RowsTyped' /\ RowsStay
    BY <1>1, <1>2 DEF RowsTyped, RowsStay, dialogueVars
  <1>3. ASSUME NEW r \in Runs, InsertTurn(r) PROVE RowsTyped' /\ RowsStay
    <2>1. message[r] \in Messages
      BY <1>3 DEF InsertTurn, RunAt, UserTypeInv, RunHolds
    <2> DEFINE row == [ext |-> message[r].ext, text |-> message[r].text,
                       track |-> NoRow, thread |-> NoRow]
    <2>2. row \in TurnRow /\ row # NoRow
      BY <2>1, MessageFields, NoRowAssumption DEF TurnRow
    <2>3. PICK u \in Turns : turns' = [turns EXCEPT ![u] = row]
      BY <1>3 DEF InsertTurn
    <2> HIDE DEF row
    <2>4. UNCHANGED <<tracks, threads, taskStatus>>
      BY <1>3 DEF InsertTurn
    <2>5. QED
      BY <1>1, <2>2, <2>3, <2>4 DEF RowsTyped, RowsStay
  <1>4. ASSUME NEW r \in Runs, InsertTrack(r) PROVE RowsTyped' /\ RowsStay
    <2>1. message[r] \in Messages
      BY <1>4 DEF InsertTrack, RunAt, UserTypeInv, RunHolds
    <2> DEFINE row == [thread |-> message[r].thread, status |-> "active", last_turn |-> NoRow]
    <2>2. row \in TrackRow /\ row # NoRow
      BY <2>1, MessageFields, NoRowAssumption DEF TrackRow, TrackStatus
    <2>3. PICK t \in Tracks : tracks[t] = NoRow /\ tracks' = [tracks EXCEPT ![t] = row]
      BY <1>4 DEF InsertTrack
    <2> HIDE DEF row
    <2>4. UNCHANGED <<turns, threads, taskStatus>>
      BY <1>4 DEF InsertTrack
    <2>5. QED
      BY <1>1, <2>2, <2>3, <2>4 DEF RowsTyped, RowsStay
  <1>5. ASSUME NEW r \in Runs, InsertThread(r) PROVE RowsTyped' /\ RowsStay
    <2>1. message[r] \in Messages /\ track[r] \in Tracks
      BY <1>5 DEF InsertThread, RunAt, UserTypeInv, RunHolds, HasTurn, HasTrack
    <2> DEFINE row == [track |-> track[r], status |-> "active"]
    <2>2. row \in ThreadRow
      BY <2>1 DEF ThreadRow, TrackStatus
    <2>3. threads' = [threads EXCEPT ![message[r].thread] = row]
      BY <1>5 DEF InsertThread
    <2> HIDE DEF row
    <2>4. UNCHANGED <<turns, tracks, taskStatus>>
      BY <1>5 DEF InsertThread
    <2>5. QED
      BY <1>1, <2>2, <2>3, <2>4 DEF RowsTyped, RowsStay
  <1>6. ASSUME NEW r \in Runs, AttachTurn(r) PROVE RowsTyped' /\ RowsStay
    <2>1. UNCHANGED <<tracks, threads, taskStatus>>
      BY <1>6 DEF AttachTurn
    <2>2. QED
      BY <1>1, <1>6, <2>1, AttachRows DEF RowsTyped, RowsStay
  <1>7. ASSUME NEW r \in Runs, WriteTrack(r) \/ WaitTrack(r) PROVE RowsTyped' /\ RowsStay
    <2>1. /\ track[r] \in Tracks
          /\ tracks[track[r]] # NoRow
          /\ turn[r] \in Turns
          /\ seenStatus[r] \in TrackStatus
      BY <1>7 DEF WriteTrack, WaitTrack, RunAt, UserTypeInv, UserTypeOK, RunHolds, HasTurn,
           HasTrack
    <2>2. UNCHANGED <<turns, threads, taskStatus>>
      BY <1>7 DEF WriteTrack, WaitTrack
    <2>3. PICK status \in TrackStatus, last \in Turns \cup {NoRow} :
             SetTrackStatus(track[r], status, last)
      BY <1>7, <2>1 DEF WriteTrack, WaitTrack, TrackStatus
    <2>4. QED
      BY <1>1, <2>1, <2>2, <2>3, StatusRows DEF RowsTyped, RowsStay
  <1>8. ASSUME NEW r \in Runs, WriteThread(r) \/ WaitThread(r) PROVE RowsTyped' /\ RowsStay
    <2>1. track[r] \in Tracks /\ seenStatus[r] \in TrackStatus
      BY <1>8 DEF WriteThread, WaitThread, RunAt, UserTypeInv, UserTypeOK, RunHolds, HasTurn,
           HasTrack
    <2>2. UNCHANGED <<turns, tracks, taskStatus>>
      BY <1>8 DEF WriteThread, WaitThread
    <2>3. PICK status \in TrackStatus : SetThreadStatus(track[r], status)
      BY <1>8, <2>1 DEF WriteThread, WaitThread, TrackStatus
    <2>4. threads' \in [Threads -> ThreadRow \cup {NoRow}]
      BY <1>1, <2>1, <2>3, ThreadRows
    <2>5. QED
      BY <1>1, <2>2, <2>4 DEF RowsTyped, RowsStay
  <1>9. ASSUME NEW r \in Runs, InsertTask(r) PROVE RowsTyped' /\ RowsStay
    BY <1>1, <1>9 DEF InsertTask, RowsTyped, RowsStay, dialogueVars
  <1>10. ASSUME NEW r \in Runs, FindTurn(r) \/ MessageTaken(r) \/ FindTrack(r) \/ ThreadTaken(r)
                                \/ GetTrack(r) \/ Analyze(r) \/ MemoryWorks(r) \/ Route(r)
                                \/ FindTask(r) \/ TaskTaken(r) \/ RunCrash(r)
         PROVE RowsTyped' /\ RowsStay
    <2>1. UNCHANGED <<dialogueVars, taskStatus>>
      BY <1>10 DEF FindTurn, MessageTaken, FindTrack, ThreadTaken, GetTrack, Analyze,
           MemoryWorks, Route, FindTask, TaskTaken, RunCrash
    <2>2. QED
      BY <1>2, <2>1
  <1>11. ASSUME NEW r \in Runs, NEW m \in Messages, Receive(r, m) PROVE RowsTyped' /\ RowsStay
    BY <1>2, <1>11 DEF Receive
  <1>12. CASE UNCHANGED userVars
    BY <1>2, <1>12 DEF userVars, ingressVars
  <1>13. QED
    BY <1>3, <1>4, <1>5, <1>6, <1>7, <1>8, <1>9, <1>10, <1>11, <1>12 DEF UserNext, RunStep

\* What a run carries keeps its type and goes on naming stored rows.
RunsTyped ==
    /\ rpc \in [Runs -> {"idle", "find_turn", "insert_turn", "find_track", "insert_track",
                         "insert_thread", "get_track", "attach", "write_track",
                         "write_thread", "analyze", "memory", "router", "find_task",
                         "insert_task", "wait_track", "wait_thread"}]
    /\ message \in [Runs -> Messages \cup {NoRow}]
    /\ turn \in [Runs -> Turns \cup {NoRow}]
    /\ created \in [Runs -> BOOLEAN]
    /\ track \in [Runs -> Tracks \cup {NoRow}]
    /\ seenStatus \in [Runs -> TrackStatus]
    /\ deliveries \in 0..MaxDeliveries
    /\ died \in BOOLEAN
    /\ overlapped \in BOOLEAN
    /\ moved \subseteq Turns

LEMMA RunsNext == UserTypeInv /\ [UserNext]_userVars => RunsTyped' /\ RunHolds'
  <1> SUFFICES ASSUME UserTypeInv, [UserNext]_userVars PROVE RunsTyped' /\ RunHolds'
    OBVIOUS
  <1>1. RunsTyped /\ RunHolds /\ RowsTyped /\ RowsStay
    BY RowsNext DEF UserTypeInv, UserTypeOK, RunsTyped, RowsTyped
  <1>2. ASSUME NEW r \in Runs, EndRun(r), UNCHANGED <<deliveries, overlapped, moved>>,
               died' \in BOOLEAN
        PROVE  RunsTyped' /\ RunHolds'
    BY <1>1, <1>2 DEF EndRun, RunGoto, RunsTyped, RunHolds, HasTurn, HasTrack, RowsStay,
         TrackStatus
  <1> USE <1>1 DEF RunsTyped, RunHolds, HasTurn, HasTrack, RowsStay, RunAt, RunGoto,
                   stateVars, historyVars
  <1>3. ASSUME NEW r \in Runs, NEW m \in Messages, Receive(r, m)
        PROVE  RunsTyped' /\ RunHolds'
    <2>1. deliveries' \in 0..MaxDeliveries
      BY <1>3, BoundAssumption DEF Receive
    <2>2. overlapped' \in BOOLEAN
      BY <1>3 DEF Receive
    <2>3. QED
      BY <1>3, <2>1, <2>2 DEF Receive
  <1>4. ASSUME NEW r \in Runs, FindTurn(r) PROVE RunsTyped' /\ RunHolds'
    BY <1>4 DEF FindTurn, SameMessage
  <1>5. ASSUME NEW r \in Runs, InsertTurn(r) PROVE RunsTyped' /\ RunHolds'
    <2>1. PICK u \in Turns : turn' = [turn EXCEPT ![r] = u] /\ turns'[u] # NoRow
      <3>1. message[r] \in Messages
        BY <1>5 DEF InsertTurn
      <3> DEFINE row == [ext |-> message[r].ext, text |-> message[r].text,
                         track |-> NoRow, thread |-> NoRow]
      <3>2. row # NoRow
        BY <3>1, MessageFields, NoRowAssumption DEF TurnRow
      <3>3. PICK u \in Turns : /\ turns' = [turns EXCEPT ![u] = row]
                               /\ turn' = [turn EXCEPT ![r] = u]
        BY <1>5 DEF InsertTurn
      <3> HIDE DEF row
      <3>4. QED
        BY <3>2, <3>3 DEF RowsTyped
    <2>2. QED
      BY <1>5, <2>1 DEF InsertTurn
  <1>6. ASSUME NEW r \in Runs, FindTrack(r) PROVE RunsTyped' /\ RunHolds'
    <2>1. CASE RunGoto(r, "insert_track") /\ UNCHANGED <<track, seenStatus>>
      BY <1>6, <2>1 DEF FindTrack
    <2>2. CASE \E t \in ThreadTracks(message[r].thread) :
                  /\ track' = [track EXCEPT ![r] = t]
                  /\ seenStatus' = [seenStatus EXCEPT ![r] = tracks[t].status]
                  /\ RunGoto(r, "attach")
      <3>1. PICK t \in ThreadTracks(message[r].thread) :
                  /\ track' = [track EXCEPT ![r] = t]
                  /\ seenStatus' = [seenStatus EXCEPT ![r] = tracks[t].status]
                  /\ RunGoto(r, "attach")
        BY <2>2
      <3>2. /\ t \in Tracks
            /\ tracks[t] # NoRow
            /\ tracks[t].thread = message[r].thread
            /\ tracks[t].status \in TrackStatus
        BY DEF ThreadTracks, RowsTyped, TrackRow
      <3>3. UNCHANGED <<turns, tracks, message, turn, created, deliveries, died, overlapped, moved>>
        BY <1>6 DEF FindTrack, dialogueVars
      <3>4. rpc[r] = "find_track"
        BY <1>6 DEF FindTrack
      <3>5. QED
        BY <3>1, <3>2, <3>3, <3>4
    <2>3. QED
      BY <1>6, <2>1, <2>2 DEF FindTrack
  <1>7. ASSUME NEW r \in Runs, InsertTrack(r) PROVE RunsTyped' /\ RunHolds'
    <2>1. PICK t \in Tracks : /\ track' = [track EXCEPT ![r] = t]
                              /\ tracks'[t] # NoRow
                              /\ tracks'[t].thread = message[r].thread
      <3>1. message[r] \in Messages
        BY <1>7 DEF InsertTrack
      <3> DEFINE row == [thread |-> message[r].thread, status |-> "active",
                         last_turn |-> NoRow]
      <3>2. row # NoRow /\ row.thread = message[r].thread
        BY <3>1, MessageFields, NoRowAssumption DEF TrackRow, TrackStatus
      <3>3. PICK t \in Tracks : /\ tracks' = [tracks EXCEPT ![t] = row]
                                /\ track' = [track EXCEPT ![r] = t]
        BY <1>7 DEF InsertTrack
      <3> HIDE DEF row
      <3>4. QED
        BY <3>2, <3>3 DEF RowsTyped
    <2>2. QED
      BY <1>7, <2>1 DEF InsertTrack
  <1>8. ASSUME NEW r \in Runs, GetTrack(r) PROVE RunsTyped' /\ RunHolds'
    <2>1. tracks[track[r]].status \in TrackStatus
      BY <1>8 DEF GetTrack, RowsTyped, TrackRow
    <2>2. QED
      BY <1>8, <2>1 DEF GetTrack
  <1>9. ASSUME NEW r \in Runs, AttachTurn(r) PROVE RunsTyped' /\ RunHolds'
    <2>1. turn[r] \in Turns /\ UNCHANGED <<tracks, stateVars, deliveries, died, overlapped>>
      BY <1>9, AttachRows DEF AttachTurn
    <2>2. moved' \subseteq Turns
      BY <1>9, <2>1 DEF AttachTurn, Moving
    <2>3. rpc[r] = "attach" /\ rpc' = [rpc EXCEPT ![r] = "write_track"]
      BY <1>9 DEF AttachTurn
    <2>4. QED
      BY <2>1, <2>2, <2>3
  <1>10. ASSUME NEW r \in Runs, InsertThread(r) \/ WriteTrack(r) \/ WriteThread(r) \/ Analyze(r)
                                \/ FindTask(r) \/ InsertTask(r) \/ WaitTrack(r)
         PROVE RunsTyped' /\ RunHolds'
    BY <1>10 DEF InsertThread, WriteTrack, WriteThread, Analyze, FindTask, InsertTask, WaitTrack
  <1>11. ASSUME NEW r \in Runs, MemoryWorks(r) \/ Route(r) PROVE RunsTyped' /\ RunHolds'
    <2>1. CASE EndRun(r)
      BY <1>2, <1>11, <2>1 DEF MemoryWorks, Route
    <2>2. CASE UNCHANGED <<rpc, stateVars>>
      BY <1>11, <2>2 DEF MemoryWorks, Route
    <2>3. CASE (RunGoto(r, "router") \/ RunGoto(r, "find_task")) /\ UNCHANGED stateVars
      BY <1>11, <2>3 DEF MemoryWorks, Route
    <2>4. QED
      BY <1>11, <2>1, <2>2, <2>3 DEF MemoryWorks, Route
  <1>12. ASSUME NEW r \in Runs, MessageTaken(r) \/ ThreadTaken(r) \/ TaskTaken(r) \/ WaitThread(r)
                                \/ RunCrash(r)
         PROVE RunsTyped' /\ RunHolds'
    BY <1>2, <1>12 DEF MessageTaken, ThreadTaken, TaskTaken, WaitThread, RunCrash
  <1>13. CASE UNCHANGED userVars
    BY <1>13 DEF userVars, ingressVars
  <1>14. QED
    BY <1>3, <1>4, <1>5, <1>6, <1>7, <1>8, <1>9, <1>10, <1>11, <1>12, <1>13
       DEF UserNext, RunStep

LEMMA UserTypeNext == UserTypeInv /\ [UserNext]_userVars => UserTypeInv'
  <1>1. UserTypeInv => MemoryTypeInv
    BY DEF UserTypeInv, UserTypeOK, MemoryTypeInv
  <1>2. UserTypeInv /\ [UserNext]_userVars => MemoryTypeInv'
    BY <1>1, MemoryStepsTaken, MemoryTypeNext
  <1>3. QED
    BY <1>2, RowsNext, RunsNext
       DEF UserTypeInv, UserTypeOK, MemoryTypeInv, RowsTyped, RunsTyped

LEMMA UserTypeAlways == UserSpec => []UserTypeInv
  BY UserTypeInit, UserTypeNext, PTL DEF UserSpec

(* Rows, runs and the pipeline's tables keep their type: a run works on    *)
(* rows that are stored, whatever other runs did since it found them.      *)
THEOREM UserTypeCorrect == UserSpec => []UserTypeOK
  <1>1. UserTypeInv => UserTypeOK
    BY DEF UserTypeInv
  <1>2. QED
    BY <1>1, UserTypeAlways, PTL

(* The user path uses the memory pipeline as MemoryWrite says it may be    *)
(* used: a run that dies, and a rollback that ends a run, included.        *)
THEOREM PipelineUsed == UserSpec => MemorySpec
  <1>1. UserInit => MemoryInit
    BY DEF UserInit
  <1>2. QED
    BY <1>1, MemoryStepsTaken, UserTypeAlways, PTL DEF UserSpec, MemorySpec

-----------------------------------------------------------------------------
\* Steps that touch a table, told apart by what they do to one of its rows.
LEMMA TurnsStep ==
    ASSUME UserTypeInv, [UserNext]_userVars, NEW u \in Turns
    PROVE  \/ turns'[u] = turns[u]
           \/ turns[u] = NoRow /\ turns'[u].track = NoRow
           \/ \E r \in Runs : /\ HasTrack(r)
                              /\ u = turn[r]
                              /\ turns'[u].text = turns[u].text
                              /\ turns'[u].track = track[r]
                              /\ turns'[u].thread = message[r].thread
  <1>1. turns \in [Turns -> TurnRow \cup {NoRow}]
    BY DEF UserTypeInv, UserTypeOK
  <1>2. ASSUME NEW r \in Runs, InsertTurn(r)
        PROVE  turns'[u] = turns[u] \/ (turns[u] = NoRow /\ turns'[u].track = NoRow)
    <2> DEFINE row == [ext |-> message[r].ext, text |-> message[r].text,
                       track |-> NoRow, thread |-> NoRow]
    <2>1. PICK v \in Turns : turns[v] = NoRow /\ turns' = [turns EXCEPT ![v] = row]
      BY <1>2 DEF InsertTurn
    <2>2. row.track = NoRow
      OBVIOUS
    <2> HIDE DEF row
    <2>3. QED
      BY <1>1, <2>1, <2>2
  <1>3. ASSUME NEW r \in Runs, AttachTurn(r), turns'[u] # turns[u]
        PROVE  /\ HasTrack(r)
               /\ u = turn[r]
               /\ turns'[u].text = turns[u].text
               /\ turns'[u].track = track[r]
               /\ turns'[u].thread = message[r].thread
    <2> DEFINE row == [ext |-> turns[turn[r]].ext, text |-> turns[turn[r]].text,
                       track |-> track[r], thread |-> message[r].thread]
    <2>1. turns' = [turns EXCEPT ![turn[r]] = row]
      BY <1>3, AttachRows
    <2>2. /\ row.text = turns[turn[r]].text
          /\ row.track = track[r]
          /\ row.thread = message[r].thread
      OBVIOUS
    <2> HIDE DEF row
    <2>3. HasTrack(r)
      BY <1>3 DEF AttachTurn, RunAt, HasTurn, HasTrack
    <2>4. QED
      BY <1>1, <1>3, <2>1, <2>2, <2>3
  <1>4. ASSUME turns' # turns PROVE \E r \in Runs : InsertTurn(r) \/ AttachTurn(r)
    BY <1>4 DEF UserNext, RunStep, Receive, RunCrash, FindTurn, MessageTaken, FindTrack,
         InsertTrack, InsertThread, ThreadTaken, GetTrack, WriteTrack, WriteThread, Analyze,
         MemoryWorks, Route, FindTask, InsertTask, TaskTaken, WaitTrack, WaitThread,
         dialogueVars, userVars, ingressVars
  <1>5. QED
    BY <1>2, <1>3, <1>4

LEMMA TracksStep ==
    ASSUME UserTypeInv, [UserNext]_userVars, NEW t \in Tracks, tracks'[t] # NoRow,
           tracks'[t].status = "waiting_for_executor"
    PROVE  \/ tracks[t] # NoRow /\ tracks[t].status = "waiting_for_executor"
           \/ \E r \in Runs : /\ HasTrack(r)
                              /\ track[r] = t
                              /\ \/ rpc[r] = "wait_track"
                                 \/ seenStatus[r] = "waiting_for_executor"
  <1>1. RowsTyped
    BY DEF UserTypeInv, UserTypeOK, RowsTyped
  <1>2. ASSUME NEW r \in Runs, InsertTrack(r)
        PROVE  tracks'[t] = tracks[t]
    <2> DEFINE row == [thread |-> message[r].thread, status |-> "active", last_turn |-> NoRow]
    <2>1. PICK s \in Tracks : tracks' = [tracks EXCEPT ![s] = row]
      BY <1>2 DEF InsertTrack
    <2>2. row.status # "waiting_for_executor"
      OBVIOUS
    <2> HIDE DEF row
    <2>3. QED
      BY <1>1, <2>1, <2>2 DEF RowsTyped
  <1>3. ASSUME NEW r \in Runs, WriteTrack(r) \/ WaitTrack(r), tracks'[t] # tracks[t]
        PROVE  /\ HasTrack(r)
               /\ track[r] = t
               /\ \/ rpc[r] = "wait_track"
                  \/ seenStatus[r] = "waiting_for_executor"
    <2>1. /\ HasTrack(r)
          /\ track[r] \in Tracks
          /\ tracks[track[r]] # NoRow
          /\ turn[r] \in Turns
          /\ seenStatus[r] \in TrackStatus
      BY <1>3 DEF WriteTrack, WaitTrack, RunAt, UserTypeInv, UserTypeOK, RunHolds, HasTurn,
           HasTrack
    <2>2. CASE WriteTrack(r)
      <3>1. SetTrackStatus(track[r], seenStatus[r], turn[r])
        BY <2>2 DEF WriteTrack
      <3>2. QED
        BY <1>1, <1>3, <2>1, <3>1, StatusRows
    <2>3. CASE WaitTrack(r)
      <3>1. /\ SetTrackStatus(track[r], "waiting_for_executor", NoRow)
            /\ rpc[r] = "wait_track"
        BY <2>3 DEF WaitTrack, RunAt
      <3>2. QED
        BY <1>1, <1>3, <2>1, <3>1, StatusRows DEF TrackStatus
    <2>4. QED
      BY <1>3, <2>2, <2>3
  <1>4. ASSUME tracks' # tracks
        PROVE  \E r \in Runs : InsertTrack(r) \/ WriteTrack(r) \/ WaitTrack(r)
    BY <1>4 DEF UserNext, RunStep, Receive, RunCrash, FindTurn, InsertTurn, MessageTaken,
         FindTrack, InsertThread, ThreadTaken, GetTrack, AttachTurn, WriteThread, Analyze,
         MemoryWorks, Route, FindTask, InsertTask, TaskTaken, WaitThread,
         dialogueVars, userVars, ingressVars
  <1>5. QED
    BY <1>2, <1>3, <1>4

LEMMA ThreadsStep ==
    ASSUME UserTypeInv, [UserNext]_userVars, NEW h \in Threads, threads'[h] # NoRow
    PROVE  \/ /\ threads[h] # NoRow
              /\ threads'[h].track = threads[h].track
              /\ \/ threads'[h].status = threads[h].status
                 \/ threads'[h].status # "waiting_for_executor"
                 \/ \E r \in Runs : /\ HasTrack(r)
                                    /\ track[r] = threads[h].track
                                    /\ \/ rpc[r] = "wait_thread"
                                       \/ seenStatus[r] = "waiting_for_executor"
           \/ \E r \in Runs : /\ HasTrack(r)
                              /\ message[r].thread = h
                              /\ threads'[h].track = track[r]
                              /\ threads'[h].status = "active"
  <1>1. RowsTyped
    BY DEF UserTypeInv, UserTypeOK, RowsTyped
  <1>2. ASSUME NEW r \in Runs, InsertThread(r), threads'[h] # threads[h]
        PROVE  /\ HasTrack(r)
               /\ message[r].thread = h
               /\ threads'[h].track = track[r]
               /\ threads'[h].status = "active"
    <2> DEFINE row == [track |-> track[r], status |-> "active"]
    <2>1. threads' = [threads EXCEPT ![message[r].thread] = row]
      BY <1>2 DEF InsertThread
    <2>2. row.track = track[r] /\ row.status = "active"
      OBVIOUS
    <2> HIDE DEF row
    <2>3. HasTrack(r)
      BY <1>2 DEF InsertThread, RunAt, HasTurn, HasTrack
    <2>4. QED
      BY <1>1, <1>2, <2>1, <2>2, <2>3 DEF RowsTyped
  <1>3. ASSUME NEW r \in Runs, WriteThread(r) \/ WaitThread(r)
        PROVE  /\ threads[h] # NoRow
               /\ threads'[h].track = threads[h].track
               /\ \/ threads'[h].status = threads[h].status
                  \/ threads'[h].status # "waiting_for_executor"
                  \/ /\ HasTrack(r)
                     /\ track[r] = threads[h].track
                     /\ \/ rpc[r] = "wait_thread"
                        \/ seenStatus[r] = "waiting_for_executor"
    <2>1. /\ HasTrack(r)
          /\ track[r] \in Tracks
          /\ seenStatus[r] \in TrackStatus
      BY <1>3 DEF WriteThread, WaitThread, RunAt, UserTypeInv, UserTypeOK, RunHolds, HasTurn,
           HasTrack
    <2>2. CASE WriteThread(r)
      <3>1. SetThreadStatus(track[r], seenStatus[r])
        BY <2>2 DEF WriteThread
      <3>2. QED
        BY <1>1, <2>1, <3>1, ThreadRows
    <2>3. CASE WaitThread(r)
      <3>1. /\ SetThreadStatus(track[r], "waiting_for_executor")
            /\ rpc[r] = "wait_thread"
        BY <2>3 DEF WaitThread, RunAt
      <3>2. QED
        BY <1>1, <2>1, <3>1, ThreadRows DEF TrackStatus
    <2>4. QED
      BY <1>3, <2>2, <2>3
  <1>4. ASSUME threads' # threads
        PROVE  \E r \in Runs : InsertThread(r) \/ WriteThread(r) \/ WaitThread(r)
    BY <1>4 DEF UserNext, RunStep, Receive, RunCrash, FindTurn, InsertTurn, MessageTaken,
         FindTrack, InsertTrack, ThreadTaken, GetTrack, AttachTurn, WriteTrack, Analyze,
         MemoryWorks, Route, FindTask, InsertTask, TaskTaken, WaitTrack,
         dialogueVars, userVars, ingressVars
  <1>5. CASE threads'[h] = threads[h]
    BY <1>5
  <1>6. CASE threads'[h] # threads[h]
    BY <1>2, <1>3, <1>4, <1>6
  <1>7. QED
    BY <1>5, <1>6

-----------------------------------------------------------------------------
LEMMA ReferencesNext ==
    UserTypeInv /\ UserTypeInv' /\ ReferencesAgree /\ [UserNext]_userVars => ReferencesAgree'
  <1> SUFFICES ASSUME UserTypeInv, UserTypeInv', ReferencesAgree, [UserNext]_userVars
               PROVE  ReferencesAgree'
    OBVIOUS
  <1>1. RowsTyped /\ RowsStay /\ RunHolds
    BY RowsNext DEF UserTypeInv, UserTypeOK, RowsTyped
  <1>2. ASSUME NEW u \in Turns, turns'[u] # NoRow, turns'[u].track # NoRow
        PROVE  /\ tracks'[turns'[u].track] # NoRow
               /\ tracks'[turns'[u].track].thread = turns'[u].thread
    <2>1. CASE turns'[u] = turns[u]
      <3>1. turns[u].track \in Tracks
        BY <1>1, <1>2, <2>1 DEF RowsTyped, TurnRow
      <3>2. QED
        BY <1>1, <1>2, <2>1, <3>1 DEF ReferencesAgree, RowsStay
    <2>2. ASSUME NEW r \in Runs, HasTrack(r), turns'[u].track = track[r],
                 turns'[u].thread = message[r].thread
          PROVE  /\ tracks'[turns'[u].track] # NoRow
                 /\ tracks'[turns'[u].track].thread = turns'[u].thread
      BY <1>1, <2>2 DEF RunHolds, RowsStay
    <2>3. QED
      BY <1>2, <2>1, <2>2, TurnsStep
  <1>3. ASSUME NEW h \in Threads, threads'[h] # NoRow
        PROVE  /\ tracks'[threads'[h].track] # NoRow
               /\ tracks'[threads'[h].track].thread = h
    <2>1. CASE threads[h] # NoRow /\ threads'[h].track = threads[h].track
      <3>1. threads[h].track \in Tracks
        BY <1>1, <2>1 DEF RowsTyped, ThreadRow
      <3>2. QED
        BY <1>1, <2>1, <3>1 DEF ReferencesAgree, RowsStay
    <2>2. ASSUME NEW r \in Runs, HasTrack(r), message[r].thread = h,
                 threads'[h].track = track[r]
          PROVE  /\ tracks'[threads'[h].track] # NoRow
                 /\ tracks'[threads'[h].track].thread = h
      BY <1>1, <2>2 DEF RunHolds, RowsStay
    <2>3. QED
      BY <1>3, <2>1, <2>2, ThreadsStep
  <1>4. QED
    BY <1>2, <1>3 DEF ReferencesAgree

(* However runs race to open a thread, no turn and no thread's row ever    *)
(* refers to a track of another thread.                                    *)
THEOREM ReferencesNeverCross == UserSpec => []ReferencesAgree
  <1>1. UserInit => ReferencesAgree
    BY DEF UserInit, ReferencesAgree
  <1>2. QED
    BY <1>1, ReferencesNext, UserTypeAlways, PTL DEF UserSpec

-----------------------------------------------------------------------------
HasTask(t) == \E x \in Texts : taskStatus[<<t, x>>] # "absent"

\* A run that read that its track waits, or is about to say so, is on a
\* track with a task.
WaitInv ==
    /\ WaitingHasTask
    /\ \A r \in Runs :
          /\ seenStatus[r] = "waiting_for_executor" => HasTrack(r) /\ HasTask(track[r])
          /\ rpc[r] \in {"wait_track", "wait_thread"} => HasTask(track[r])

\* No statement of the user path deletes a task.
LEMMA TasksStay ==
    ASSUME UserTypeInv, [UserNext]_userVars, NEW t \in Tracks, HasTask(t)
    PROVE  HasTask(t)'
  <1>1. ASSUME NEW r \in Runs, InsertTask(r) PROVE HasTask(t)'
    <2>1. PICK x \in Texts : taskStatus[<<t, x>>] # "absent"
      BY DEF HasTask
    <2>2. taskStatus'[<<t, x>>] # "absent"
      BY <1>1, <2>1 DEF InsertTask, UserTypeInv, UserTypeOK
    <2>3. QED
      BY <2>2 DEF HasTask
  <1>2. ASSUME taskStatus' # taskStatus PROVE \E r \in Runs : InsertTask(r)
    BY <1>2 DEF UserNext, RunStep, Receive, RunCrash, FindTurn, InsertTurn, MessageTaken,
         FindTrack, InsertTrack, InsertThread, ThreadTaken, GetTrack, AttachTurn, WriteTrack,
         WriteThread, Analyze, MemoryWorks, Route, FindTask, TaskTaken, WaitTrack, WaitThread,
         userVars, ingressVars
  <1>3. QED
    BY <1>1, <1>2 DEF HasTask

\* A status read is that of a row, and the task is there before the run says
\* that the track waits.
LEMMA SeenNext ==
    UserTypeInv /\ UserTypeInv' /\ WaitInv /\ [UserNext]_userVars =>
        \A r \in Runs :
            /\ seenStatus'[r] = "waiting_for_executor" => HasTrack(r)' /\ HasTask(track[r])'
            /\ rpc'[r] \in {"wait_track", "wait_thread"} => HasTask(track[r])'
  <1> SUFFICES ASSUME UserTypeInv, UserTypeInv', WaitInv, [UserNext]_userVars, NEW r \in Runs
               PROVE  /\ seenStatus'[r] = "waiting_for_executor" =>
                            HasTrack(r)' /\ HasTask(track[r])'
                      /\ rpc'[r] \in {"wait_track", "wait_thread"} => HasTask(track[r])'
    OBVIOUS
  <1> DEFINE Goal == /\ seenStatus'[r] = "waiting_for_executor" =>
                           HasTrack(r)' /\ HasTask(track[r])'
                     /\ rpc'[r] \in {"wait_track", "wait_thread"} => HasTask(track[r])'
  <1>1. /\ rpc \in [Runs -> {"idle", "find_turn", "insert_turn", "find_track", "insert_track",
                             "insert_thread", "get_track", "attach", "write_track",
                             "write_thread", "analyze", "memory", "router", "find_task",
                             "insert_task", "wait_track", "wait_thread"}]
        /\ track \in [Runs -> Tracks \cup {NoRow}]
        /\ seenStatus \in [Runs -> TrackStatus]
        /\ HasTrack(r) => track[r] \in Tracks /\ tracks[track[r]] # NoRow
    BY DEF UserTypeInv, UserTypeOK, RunHolds
  <1>2. \A t \in Tracks : HasTask(t) => HasTask(t)'
    BY TasksStay
  <1>3. /\ seenStatus[r] = "waiting_for_executor" => HasTrack(r) /\ HasTask(track[r])
        /\ rpc[r] \in {"wait_track", "wait_thread"} => HasTask(track[r])
        /\ \A t \in Tracks : tracks[t] # NoRow /\ tracks[t].status = "waiting_for_executor" =>
              HasTask(t)
    BY DEF WaitInv, WaitingHasTask, HasTask
  <1>4. ASSUME track'[r] = track[r], seenStatus'[r] = seenStatus[r],
               HasTrack(r) => HasTrack(r)',
               rpc'[r] \in {"wait_track", "wait_thread"} =>
                  rpc[r] \in {"wait_track", "wait_thread"}
        PROVE  Goal
    <2>1. HasTrack(r) => HasTask(track[r])' \/ ~HasTask(track[r])
      <3>1. ASSUME HasTrack(r), HasTask(track[r]) PROVE HasTask(track[r])'
        <4>1. PICK t \in Tracks : t = track[r]
          BY <1>1, <3>1
        <4>2. HasTask(t)'
          BY <1>2, <3>1, <4>1
        <4>3. QED
          BY <1>4, <4>1, <4>2 DEF HasTask
      <3>2. QED
        BY <3>1
    <2>2. rpc[r] \in {"wait_track", "wait_thread"} => HasTrack(r)
      BY DEF HasTurn, HasTrack
    <2>3. QED
      BY <1>3, <1>4, <2>1, <2>2
  <1>5. ASSUME NEW q \in Runs, EndRun(q) PROVE Goal
    <2>1. CASE q = r
      BY <1>1, <1>5, <2>1 DEF EndRun, RunGoto
    <2>2. CASE q # r
      BY <1>1, <1>4, <1>5, <2>2 DEF EndRun, RunGoto, HasTurn, HasTrack
    <2>3. QED
      BY <2>1, <2>2
  <1>6. ASSUME NEW q \in Runs, FindTrack(q) PROVE Goal
    <2>1. CASE UNCHANGED <<track, seenStatus>>
      BY <1>1, <1>4, <1>6, <2>1 DEF FindTrack, RunAt, RunGoto, HasTurn, HasTrack
    <2>2. ASSUME NEW t \in ThreadTracks(message[q].thread),
                 track' = [track EXCEPT ![q] = t],
                 seenStatus' = [seenStatus EXCEPT ![q] = tracks[t].status],
                 RunGoto(q, "attach")
          PROVE  Goal
      <3>1. t \in Tracks /\ tracks[t] # NoRow
        BY DEF ThreadTracks
      <3>2. CASE q = r
        <4>1. track'[r] = t /\ seenStatus'[r] = tracks[t].status /\ rpc'[r] = "attach"
          BY <1>1, <2>2, <3>2 DEF RunGoto
        <4>2. tracks[t].status = "waiting_for_executor" => HasTask(t)'
          BY <1>2, <1>3, <3>1
        <4>3. QED
          BY <4>1, <4>2 DEF HasTask, HasTurn, HasTrack
      <3>3. CASE q # r
        BY <1>1, <1>4, <2>2, <3>3 DEF RunGoto, HasTurn, HasTrack
      <3>4. QED
        BY <3>2, <3>3
    <2>3. QED
      BY <1>6, <2>1, <2>2 DEF FindTrack
  <1>7. ASSUME NEW q \in Runs, GetTrack(q) PROVE Goal
    <2>1. CASE q = r
      <3>1. /\ HasTrack(r)
            /\ track'[r] = track[r]
            /\ seenStatus'[r] = tracks[track[r]].status
            /\ rpc'[r] = "attach"
        BY <1>1, <1>7, <2>1 DEF GetTrack, RunAt, RunGoto, HasTurn, HasTrack
      <3>2. PICK t \in Tracks : t = track[r] /\ tracks[t] # NoRow
        BY <1>1, <3>1
      <3>3. tracks[t].status = "waiting_for_executor" => HasTask(t)'
        BY <1>2, <1>3, <3>2
      <3>4. QED
        BY <3>1, <3>2, <3>3 DEF HasTask, HasTurn, HasTrack
    <2>2. CASE q # r
      BY <1>1, <1>4, <1>7, <2>2 DEF GetTrack, RunGoto, HasTurn, HasTrack
    <2>3. QED
      BY <2>1, <2>2
  <1>8. ASSUME NEW q \in Runs, InsertTrack(q) PROVE Goal
    <2>1. CASE q = r
      <3>1. ~HasTrack(r) /\ seenStatus'[r] = seenStatus[r] /\ rpc'[r] = "insert_thread"
        BY <1>1, <1>8, <2>1 DEF InsertTrack, RunAt, RunGoto, HasTurn, HasTrack
      <3>2. QED
        BY <1>3, <3>1
    <2>2. CASE q # r
      BY <1>1, <1>4, <1>8, <2>2 DEF InsertTrack, RunGoto, HasTurn, HasTrack
    <2>3. QED
      BY <2>1, <2>2
  <1>9. ASSUME NEW q \in Runs, FindTask(q) \/ InsertTask(q) PROVE Goal
    <2>1. CASE q = r
      <3>1. /\ rpc[r] \in {"find_task", "insert_task"}
            /\ HasTrack(r) /\ HasTrack(r)'
            /\ track' = track /\ seenStatus' = seenStatus
            /\ message[r] \in Messages
        BY <1>1, <1>9, <2>1
           DEF FindTask, InsertTask, RunAt, RunGoto, stateVars, HasTurn, HasTrack,
               UserTypeInv, RunHolds
      <3>2. PICK t \in Tracks : t = track[r]
        BY <1>1, <3>1
      <3>3. message[r].text \in Texts
        BY <3>1, MessageFields
      <3>4. rpc'[r] \in {"wait_track", "wait_thread"} =>
               taskStatus'[<<t, message[r].text>>] # "absent"
        <4>1. CASE FindTask(r)
          BY <1>1, <3>2, <4>1 DEF FindTask, RunGoto, Capsule
        <4>2. CASE InsertTask(r)
          BY <3>2, <3>3, <4>2 DEF InsertTask, Capsule, UserTypeInv, UserTypeOK
        <4>3. QED
          BY <1>9, <2>1, <4>1, <4>2
      <3>5. rpc'[r] \in {"wait_track", "wait_thread"} => HasTask(t)'
        BY <3>3, <3>4 DEF HasTask
      <3>6. seenStatus[r] = "waiting_for_executor" => HasTask(t)'
        BY <1>2, <1>3, <3>2
      <3>7. QED
        BY <3>1, <3>2, <3>5, <3>6 DEF HasTask
    <2>2. CASE q # r
      BY <1>1, <1>4, <1>9, <2>2
         DEF FindTask, InsertTask, RunGoto, stateVars, HasTurn, HasTrack
    <2>3. QED
      BY <2>1, <2>2
  <1>10. ASSUME NEW q \in Runs,
                FindTurn(q) \/ InsertTurn(q) \/ InsertThread(q) \/ AttachTurn(q) \/ WriteTrack(q)
                \/ WriteThread(q) \/ Analyze(q) \/ WaitTrack(q)
         PROVE  Goal
    <2>1. UNCHANGED <<track, seenStatus>>
      BY <1>10 DEF FindTurn, InsertTurn, InsertThread, AttachTurn, WriteTrack, WriteThread,
           Analyze, WaitTrack, stateVars
    <2>2. /\ HasTrack(r) => HasTrack(r)'
          /\ rpc'[r] \in {"wait_track", "wait_thread"} =>
                rpc[r] \in {"wait_track", "wait_thread"}
      BY <1>1, <1>10
         DEF FindTurn, InsertTurn, InsertThread, AttachTurn, WriteTrack, WriteThread, Analyze,
             WaitTrack, RunAt, RunGoto, HasTurn, HasTrack
    <2>3. QED
      BY <1>4, <2>1, <2>2
  <1>11. ASSUME NEW q \in Runs, MemoryWorks(q) \/ Route(q) PROVE Goal
    <2>1. CASE EndRun(q)
      BY <1>5, <2>1
    <2>2. CASE UNCHANGED <<rpc, stateVars>>
      BY <1>4, <2>2 DEF stateVars, HasTurn, HasTrack
    <2>3. CASE (RunGoto(q, "router") \/ RunGoto(q, "find_task")) /\ UNCHANGED stateVars
      BY <1>1, <1>4, <1>11, <2>3 DEF stateVars, RunGoto, HasTurn, HasTrack
    <2>4. QED
      BY <1>11, <2>1, <2>2, <2>3 DEF MemoryWorks, Route
  <1>12. ASSUME NEW q \in Runs, NEW m \in Messages, Receive(q, m) PROVE Goal
    BY <1>1, <1>4, <1>12 DEF Receive, RunAt, RunGoto, HasTurn, HasTrack
  <1>13. ASSUME NEW q \in Runs, MessageTaken(q) \/ ThreadTaken(q) \/ TaskTaken(q)
                                 \/ WaitThread(q) \/ RunCrash(q)
         PROVE  Goal
    BY <1>5, <1>13 DEF MessageTaken, ThreadTaken, TaskTaken, WaitThread, RunCrash
  <1>14. CASE UNCHANGED userVars
    BY <1>4, <1>14 DEF userVars, ingressVars, stateVars, HasTurn, HasTrack
  <1>15. QED
    BY <1>6, <1>7, <1>8, <1>9, <1>10, <1>11, <1>12, <1>13, <1>14, Zenon DEF UserNext, RunStep

LEMMA WaitNext == UserTypeInv /\ UserTypeInv' /\ WaitInv /\ [UserNext]_userVars => WaitInv'
  <1> SUFFICES ASSUME UserTypeInv, UserTypeInv', WaitInv, [UserNext]_userVars PROVE WaitInv'
    OBVIOUS
  <1>1. \A t \in Tracks : HasTask(t) => HasTask(t)'
    BY TasksStay
  <1>2. ASSUME NEW t \in Tracks, tracks'[t] # NoRow, tracks'[t].status = "waiting_for_executor"
        PROVE  HasTask(t)'
    <2>1. CASE tracks[t] # NoRow /\ tracks[t].status = "waiting_for_executor"
      BY <1>1, <2>1 DEF WaitInv, WaitingHasTask, HasTask
    <2>2. ASSUME NEW r \in Runs, HasTrack(r), track[r] = t,
                 rpc[r] = "wait_track" \/ seenStatus[r] = "waiting_for_executor"
          PROVE  HasTask(t)'
      BY <1>1, <2>2 DEF WaitInv
    <2>3. QED
      BY <1>2, <2>1, <2>2, TracksStep
  <1>3. ASSUME NEW t \in Tracks, NEW h \in Threads, threads'[h] # NoRow, threads'[h].track = t,
               threads'[h].status = "waiting_for_executor"
        PROVE  HasTask(t)'
    <2>1. CASE /\ threads[h] # NoRow
               /\ threads[h].track = t
               /\ threads[h].status = "waiting_for_executor"
      BY <1>1, <2>1 DEF WaitInv, WaitingHasTask, HasTask
    <2>2. ASSUME NEW r \in Runs, HasTrack(r), track[r] = t,
                 rpc[r] = "wait_thread" \/ seenStatus[r] = "waiting_for_executor"
          PROVE  HasTask(t)'
      BY <1>1, <2>2 DEF WaitInv
    <2>3. QED
      BY <1>3, <2>1, <2>2, ThreadsStep
  <1>4. WaitingHasTask'
    BY <1>2, <1>3 DEF WaitingHasTask, HasTask
  <1>5. QED
    BY <1>4, SeenNext DEF WaitInv

(* A track that waits for an executor has a task the executor can finish,  *)
(* however late a status is written back and wherever a run dies.          *)
THEOREM WaitsHaveTasks == UserSpec => []WaitingHasTask
  <1>1. UserInit => WaitInv
    BY DEF UserInit, WaitInv, WaitingHasTask
  <1>2. WaitInv => WaitingHasTask
    BY DEF WaitInv
  <1>3. QED
    BY <1>1, <1>2, WaitNext, UserTypeAlways, PTL DEF UserSpec

-----------------------------------------------------------------------------
\* Where a run has attached its turn, and where it is about to store a task.
PastAttach == {"write_track", "write_thread", "analyze", "memory", "router"} \cup
              {"find_task", "insert_task"}
Delegates == {"find_task", "insert_task"}

\* The turn a run created has its message's text, and the run remembers and
\* delegates nothing but on behalf of such a turn.
RunRemembers(r) ==
    /\ created[r] => HasTurn(r) /\ turns[turn[r]].text = message[r].text
    /\ rpc[r] \in PastAttach => turns[turn[r]].track # NoRow
    /\ rpc[r] \in Delegates => created[r]
    /\ rpc[r] = "memory" =>
          created[r] /\ submission[r].key = turn[r]
                     /\ submission[r].dedupe_key = Normal[message[r].text]

CandidateInv ==
    /\ \A k \in Turns : Stored(k) =>
          /\ turns[k] # NoRow
          /\ turns[k].track # NoRow
          /\ candidates[k].dedupe_key = Normal[turns[k].text]
    /\ \A r \in Runs : RunRemembers(r)

\* A stored turn keeps its text, and once it has a track it has one.
LEMMA TurnsStay ==
    ASSUME UserTypeInv, [UserNext]_userVars, NEW u \in Turns, turns[u] # NoRow
    PROVE  /\ turns'[u] # NoRow
           /\ turns'[u].text = turns[u].text
           /\ turns[u].track # NoRow => turns'[u].track # NoRow
  <1>1. \A r \in Runs : HasTrack(r) => track[r] # NoRow
    BY NoRowAssumption DEF UserTypeInv, RunHolds
  <1>2. turns'[u] # NoRow
    BY RowsNext DEF RowsStay
  <1>3. QED
    BY <1>1, <1>2, TurnsStep

LEMMA CandidatesStep ==
    ASSUME UserTypeInv, [UserNext]_userVars, NEW k \in Turns, candidates'[k] # candidates[k]
    PROVE  \E r \in Runs : rpc[r] = "memory" /\ Key(r) = k /\ candidates'[k] = submission[r]
  <1>1. ASSUME NEW r \in Runs, MemoryWorks(r)
        PROVE  rpc[r] = "memory" /\ Key(r) = k /\ candidates'[k] = submission[r]
    <2>1. rpc[r] = "memory"
      BY <1>1 DEF MemoryWorks, RunAt
    <2>2. CASE InsertCandidate(r)
      BY <2>1, <2>2 DEF InsertCandidate, UserTypeInv, UserTypeOK, MemoryTypeOK, Turns
    <2>3. CASE FindCandidate(r) \/ Decide(r) \/ SkipDuplicate(r) \/ StageMemory(r)
               \/ WriteMemory(r) \/ RollBack(r)
      BY <2>3 DEF FindCandidate, Decide, SkipDuplicate, StageMemory, WriteMemory, RollBack,
           tables
    <2>4. QED
      BY <1>1, <2>2, <2>3 DEF MemoryWorks
  <1>2. ASSUME NEW r \in Runs, Analyze(r) PROVE candidates' = candidates
    BY <1>2 DEF Analyze, Submit, memoryVars, tables
  <1>3. ASSUME NEW r \in Runs, RunCrash(r) PROVE candidates' = candidates
    BY <1>3 DEF RunCrash, WriterCrash, memoryVars, tables
  <1>4. ASSUME UNCHANGED memoryVars PROVE candidates' = candidates
    BY <1>4 DEF memoryVars, tables
  <1>5. CASE UNCHANGED userVars
    BY <1>4, <1>5 DEF userVars
  <1>6. ASSUME NEW r \in Runs, RunStep(r), ~Analyze(r), ~MemoryWorks(r)
        PROVE  UNCHANGED memoryVars
    BY <1>6 DEF RunStep, FindTurn, InsertTurn, MessageTaken, FindTrack, InsertTrack,
         InsertThread, ThreadTaken, GetTrack, AttachTurn, WriteTrack, WriteThread, Route,
         FindTask, InsertTask, TaskTaken, WaitTrack, WaitThread
  <1>7. ASSUME NEW r \in Runs, NEW m \in Messages, Receive(r, m) PROVE UNCHANGED memoryVars
    BY <1>7 DEF Receive
  <1>8. QED
    BY <1>1, <1>2, <1>3, <1>4, <1>5, <1>6, <1>7 DEF UserNext

LEMMA RemembersNext ==
    ASSUME UserTypeInv, [UserNext]_userVars, NEW r \in Runs, RunRemembers(r)
    PROVE  RunRemembers(r)'
  <1>1. /\ rpc \in [Runs -> {"idle", "find_turn", "insert_turn", "find_track", "insert_track",
                             "insert_thread", "get_track", "attach", "write_track",
                             "write_thread", "analyze", "memory", "router", "find_task",
                             "insert_task", "wait_track", "wait_thread"}]
        /\ turn \in [Runs -> Turns \cup {NoRow}]
        /\ created \in [Runs -> BOOLEAN]
        /\ message \in [Runs -> Messages \cup {NoRow}]
        /\ submission \in [Runs -> Submissions \cup {NoCandidate}]
        /\ HasTurn(r) => turn[r] \in Turns /\ turns[turn[r]] # NoRow
    BY DEF UserTypeInv, UserTypeOK, RunHolds, MemoryTypeOK, Runs
  <1>2. HasTurn(r) => /\ turns'[turn[r]] # NoRow
                      /\ turns'[turn[r]].text = turns[turn[r]].text
                      /\ turns[turn[r]].track # NoRow => turns'[turn[r]].track # NoRow
    BY <1>1, TurnsStay
  \* A step that leaves the run where it was, or takes it on with its state.
  <1>3. ASSUME turn'[r] = turn[r], created'[r] = created[r], message'[r] = message[r],
               HasTurn(r) => HasTurn(r)',
               rpc'[r] \in PastAttach => rpc[r] \in PastAttach,
               rpc'[r] \in Delegates => rpc[r] \in Delegates,
               rpc'[r] = "memory" => rpc[r] = "memory" /\ submission'[r] = submission[r]
        PROVE  RunRemembers(r)'
    <2>1. rpc[r] \in PastAttach => HasTurn(r)
      BY DEF PastAttach, Delegates, HasTurn
    <2>2. QED
      BY <1>2, <1>3, <2>1 DEF RunRemembers
  <1>4. ASSUME NEW q \in Runs, q # r,
               UNCHANGED stateVars \/ EndRun(q) \/ InsertTurn(q) \/ FindTurn(q)
               \/ FindTrack(q) \/ InsertTrack(q) \/ GetTrack(q)
               \/ \E m \in Messages : Receive(q, m),
               rpc'[r] = rpc[r], submission'[r] = submission[r]
        PROVE  RunRemembers(r)'
    <2>1. turn'[r] = turn[r] /\ created'[r] = created[r] /\ message'[r] = message[r]
      BY <1>1, <1>4 DEF stateVars, EndRun, InsertTurn, FindTurn, FindTrack, InsertTrack,
           GetTrack, Receive
    <2>2. QED
      BY <1>3, <1>4, <2>1 DEF HasTurn
  <1>5. ASSUME EndRun(r) PROVE RunRemembers(r)'
    BY <1>1, <1>5 DEF EndRun, RunGoto, RunRemembers, PastAttach, Delegates
  <1>6. ASSUME NEW m \in Messages, Receive(r, m) PROVE RunRemembers(r)'
    BY <1>1, <1>6 DEF Receive, RunAt, RunGoto, RunRemembers, PastAttach, Delegates, HasTurn
  <1>7. ASSUME FindTurn(r) PROVE RunRemembers(r)'
    BY <1>1, <1>7 DEF FindTurn, RunAt, RunGoto, RunRemembers, PastAttach, Delegates, HasTurn
  <1>8. ASSUME InsertTurn(r) PROVE RunRemembers(r)'
    <2> DEFINE row == [ext |-> message[r].ext, text |-> message[r].text,
                       track |-> NoRow, thread |-> NoRow]
    <2>1. PICK u \in Turns : /\ turns' = [turns EXCEPT ![u] = row]
                             /\ turn' = [turn EXCEPT ![r] = u]
      BY <1>8 DEF InsertTurn
    <2>2. row.text = message[r].text
      OBVIOUS
    <2> HIDE DEF row
    <2>3. turns'[turn'[r]].text = message[r].text
      BY <1>1, <2>1, <2>2 DEF UserTypeInv, UserTypeOK
    <2>4. message'[r] = message[r] /\ rpc'[r] = "find_track"
      BY <1>1, <1>8 DEF InsertTurn, RunGoto
    <2>5. QED
      BY <2>3, <2>4 DEF RunRemembers, PastAttach, Delegates, HasTurn
  <1>9. ASSUME AttachTurn(r) PROVE RunRemembers(r)'
    <2>1. /\ HasTrack(r)
          /\ turns'[turn[r]].track = track[r]
          /\ track[r] # NoRow
      <3>1. HasTrack(r) /\ turns \in [Turns -> TurnRow \cup {NoRow}]
        BY <1>9 DEF AttachTurn, RunAt, HasTurn, HasTrack, UserTypeInv, UserTypeOK
      <3> DEFINE row == [ext |-> turns[turn[r]].ext, text |-> turns[turn[r]].text,
                         track |-> track[r], thread |-> message[r].thread]
      <3>2. turns' = [turns EXCEPT ![turn[r]] = row] /\ turn[r] \in Turns
        BY <1>9, AttachRows
      <3>3. row.track = track[r]
        OBVIOUS
      <3> HIDE DEF row
      <3>4. track[r] # NoRow
        BY <3>1, NoRowAssumption DEF UserTypeInv, RunHolds
      <3>5. QED
        BY <3>1, <3>2, <3>3, <3>4
    <2>2. UNCHANGED <<turn, created, message>> /\ rpc'[r] = "write_track"
      BY <1>1, <1>9 DEF AttachTurn, RunGoto, stateVars
    <2>3. QED
      BY <1>2, <2>1, <2>2 DEF RunRemembers, PastAttach, Delegates, HasTrack, HasTurn
  <1>10. ASSUME Analyze(r) PROVE RunRemembers(r)'
    <2>1. /\ rpc[r] = "analyze"
          /\ UNCHANGED <<turn, created, message>>
      BY <1>10 DEF Analyze, RunAt, stateVars
    <2>2. CASE WritesMemory(r)
      <3>1. rpc'[r] = "memory" /\ submission'[r] = MemoryCandidate(r)
        BY <1>1, <1>10, <2>2 DEF Analyze, RunGoto, Submit
      <3>2. created[r]
        BY <2>2 DEF WritesMemory
      <3>3. /\ submission'[r].key = turn[r]
            /\ submission'[r].dedupe_key = Normal[message[r].text]
        BY <3>1 DEF MemoryCandidate
      <3>4. QED
        BY <1>2, <2>1, <3>1, <3>2, <3>3 DEF RunRemembers, PastAttach, Delegates, HasTurn
    <2>3. CASE ~WritesMemory(r)
      <3>1. rpc'[r] = "router"
        BY <1>1, <1>10, <2>3 DEF Analyze, RunGoto
      <3>2. QED
        BY <1>3, <2>1, <3>1 DEF PastAttach, Delegates, HasTurn
    <2>4. QED
      BY <2>2, <2>3
  <1>11. ASSUME MemoryWorks(r) PROVE RunRemembers(r)'
    <2>1. CASE EndRun(r)
      BY <1>5, <2>1
    <2>2. CASE /\ FindCandidate(r) \/ InsertCandidate(r) \/ Decide(r)
               /\ UNCHANGED <<rpc, stateVars>>
      BY <1>3, <2>2 DEF FindCandidate, InsertCandidate, Decide, stateVars, HasTurn
    <2>3. CASE RunGoto(r, "router") /\ UNCHANGED stateVars
      BY <1>1, <1>3, <1>11, <2>3
         DEF RunGoto, stateVars, PastAttach, Delegates, HasTurn, MemoryWorks, RunAt
    <2>4. QED
      BY <1>11, <2>1, <2>2, <2>3 DEF MemoryWorks
  <1>12. ASSUME FindTrack(r) \/ InsertTrack(r) \/ InsertThread(r) \/ GetTrack(r) \/ WriteTrack(r)
                \/ WriteThread(r) \/ FindTask(r) \/ InsertTask(r) \/ WaitTrack(r)
         PROVE  RunRemembers(r)'
    <2>1. turn'[r] = turn[r] /\ created'[r] = created[r] /\ message'[r] = message[r]
      BY <1>12 DEF FindTrack, InsertTrack, InsertThread, GetTrack, WriteTrack, WriteThread,
           FindTask, InsertTask, WaitTrack, stateVars
    <2>2. /\ HasTurn(r) => HasTurn(r)'
          /\ rpc'[r] \in PastAttach => rpc[r] \in PastAttach
          /\ rpc'[r] \in Delegates => rpc[r] \in Delegates
          /\ rpc'[r] # "memory"
      BY <1>1, <1>12 DEF FindTrack, InsertTrack, InsertThread, GetTrack, WriteTrack,
           WriteThread, FindTask, InsertTask, WaitTrack, RunAt, RunGoto, HasTurn, PastAttach,
           Delegates
    <2>3. QED
      BY <1>3, <2>1, <2>2
  <1>13. ASSUME Route(r) PROVE RunRemembers(r)'
    <2>1. CASE EndRun(r)
      BY <1>5, <2>1
    <2>2. CASE CallsExecutor(r) /\ RunGoto(r, "find_task") /\ UNCHANGED stateVars
      <3>1. /\ created[r]
            /\ rpc[r] = "router"
            /\ rpc'[r] = "find_task"
            /\ UNCHANGED <<turn, created, message>>
        BY <1>1, <1>13, <2>2 DEF Route, RunAt, RunGoto, stateVars, CallsExecutor
      <3>2. QED
        BY <1>2, <3>1 DEF RunRemembers, PastAttach, Delegates, HasTurn
    <2>3. QED
      BY <1>13, <2>1, <2>2 DEF Route
  <1>14. ASSUME MessageTaken(r) \/ ThreadTaken(r) \/ TaskTaken(r) \/ WaitThread(r) \/ RunCrash(r)
         PROVE  RunRemembers(r)'
    BY <1>5, <1>14 DEF MessageTaken, ThreadTaken, TaskTaken, WaitThread, RunCrash
  <1>15. ASSUME RunStep(r) \/ RunCrash(r) \/ \E m \in Messages : Receive(r, m)
         PROVE  RunRemembers(r)'
    BY <1>6, <1>7, <1>8, <1>9, <1>10, <1>11, <1>12, <1>13, <1>14, <1>15 DEF RunStep
  <1>16. ASSUME NEW q \in Runs, q # r,
                RunStep(q) \/ RunCrash(q) \/ \E m \in Messages : Receive(q, m)
         PROVE  RunRemembers(r)'
    <2>1. rpc'[r] = rpc[r]
      BY <1>1, <1>16
         DEF RunStep, Receive, RunCrash, FindTurn, InsertTurn, MessageTaken, FindTrack,
             InsertTrack, InsertThread, ThreadTaken, GetTrack, AttachTurn, WriteTrack,
             WriteThread, Analyze, MemoryWorks, Route, FindTask, InsertTask, TaskTaken,
             WaitTrack, WaitThread, RunGoto, EndRun
    <2>2. UNCHANGED stateVars \/ EndRun(q) \/ InsertTurn(q) \/ FindTurn(q)
          \/ FindTrack(q) \/ InsertTrack(q) \/ GetTrack(q)
          \/ \E m \in Messages : Receive(q, m)
      BY <1>16
         DEF RunStep, RunCrash, MessageTaken, InsertThread, ThreadTaken, AttachTurn,
             WriteTrack, WriteThread, Analyze, MemoryWorks, Route, FindTask, InsertTask,
             TaskTaken, WaitTrack, WaitThread
    <2>3. submission'[r] = submission[r]
      <3>1. CASE MemoryWorks(q)
        BY <1>1, <1>16, <3>1
           DEF MemoryWorks, FindCandidate, InsertCandidate, Decide, SkipDuplicate,
               StageMemory, WriteMemory, RollBack, Leave
      <3>2. CASE Analyze(q)
        BY <1>1, <1>16, <3>2 DEF Analyze, Submit, memoryVars, writerVars
      <3>3. CASE RunCrash(q)
        BY <1>1, <1>16, <3>3 DEF RunCrash, WriterCrash, Leave, memoryVars, writerVars
      <3>4. ASSUME NEW m \in Messages, Receive(q, m) PROVE submission' = submission
        BY <3>4 DEF Receive, memoryVars, writerVars
      <3>5. ASSUME RunStep(q), ~MemoryWorks(q), ~Analyze(q) PROVE submission' = submission
        BY <3>5 DEF RunStep, FindTurn, InsertTurn, MessageTaken, FindTrack, InsertTrack,
             InsertThread, ThreadTaken, GetTrack, AttachTurn, WriteTrack, WriteThread, Route,
             FindTask, InsertTask, TaskTaken, WaitTrack, WaitThread, memoryVars, writerVars
      <3>6. QED
        BY <1>16, <3>1, <3>2, <3>3, <3>4, <3>5
    <2>4. QED
      BY <1>4, <1>16, <2>1, <2>2, <2>3
  <1>17. CASE UNCHANGED userVars
    BY <1>3, <1>17 DEF userVars, ingressVars, stateVars, memoryVars, writerVars, HasTurn
  <1>18. QED
    BY <1>15, <1>16, <1>17 DEF UserNext

LEMMA CandidateNext ==
    UserTypeInv /\ UserTypeInv' /\ CandidateInv /\ [UserNext]_userVars => CandidateInv'
  <1> SUFFICES ASSUME UserTypeInv, UserTypeInv', CandidateInv, [UserNext]_userVars
               PROVE  CandidateInv'
    OBVIOUS
  <1>1. \A r \in Runs : RunRemembers(r)
    BY DEF CandidateInv
  <1>2. \A r \in Runs : RunRemembers(r)'
    BY <1>1, RemembersNext
  <1>3. ASSUME NEW k \in Turns, candidates'[k] # NoCandidate
        PROVE  /\ turns'[k] # NoRow
               /\ turns'[k].track # NoRow
               /\ candidates'[k].dedupe_key = Normal[turns'[k].text]
    <2>1. CASE candidates'[k] = candidates[k]
      <3>1. /\ turns[k] # NoRow
            /\ turns[k].track # NoRow
            /\ candidates[k].dedupe_key = Normal[turns[k].text]
        BY <1>3, <2>1 DEF CandidateInv, Stored
      <3>2. QED
        BY <2>1, <3>1, TurnsStay
    <2>2. ASSUME NEW r \in Runs, rpc[r] = "memory", Key(r) = k, candidates'[k] = submission[r]
          PROVE  /\ turns'[k] # NoRow
                 /\ turns'[k].track # NoRow
                 /\ candidates'[k].dedupe_key = Normal[turns'[k].text]
      <3>1. /\ k = turn[r]
            /\ turns[k] # NoRow
            /\ turns[k].track # NoRow
            /\ turns[k].text = message[r].text
            /\ submission[r].dedupe_key = Normal[message[r].text]
        BY <1>1, <2>2 DEF RunRemembers, Key, PastAttach, UserTypeInv, RunHolds, HasTurn
      <3>2. QED
        BY <2>2, <3>1, TurnsStay
    <2>3. QED
      BY <2>1, <2>2, CandidatesStep
  <1>4. QED
    BY <1>2, <1>3 DEF CandidateInv, Stored

LEMMA CandidateAlways == UserSpec => []CandidateInv
  <1>1. UserInit => CandidateInv
    BY DEF UserInit, MemoryInit, CandidateInv, RunRemembers, Stored, PastAttach, Delegates,
         Turns, Runs
  <1>2. QED
    BY <1>1, CandidateNext, UserTypeAlways, PTL DEF UserSpec

(* Nothing is remembered or reviewed but what a stored and attached turn   *)
(* says, however messages are repeated and changed: by NoBypass of the     *)
(* pipeline it is a stored candidate, and by CandidateInv that is a turn's. *)
THEOREM MemoryIsOfTurns == UserSpec => []MemoryHasItsTurn
  <1>1. UserTypeInv /\ CandidateInv /\ ConflictDecisionNotBypassed => MemoryHasItsTurn
    BY DEF UserTypeInv, UserTypeOK, MemoryTypeOK, CandidateInv, ConflictDecisionNotBypassed,
         MemoryHasItsTurn, Turns
  <1>2. QED
    BY <1>1, CandidateAlways, UserTypeAlways, PipelineUsed, NoBypass, PTL

-----------------------------------------------------------------------------
\* While no run began during another, one run at most is at work.
RunMoves(r) == RunStep(r) \/ RunCrash(r) \/ \E m \in Messages : Receive(r, m)

OneRunAtWork ==
    ~overlapped => \A q, r \in Runs : rpc[q] # "idle" /\ rpc[r] # "idle" => q = r

\* A run that has no turn yet carries none, and only a run in its memory
\* step is in the pipeline.
RunClean ==
    \A r \in Runs :
        /\ ~HasTurn(r) => turn[r] = NoRow /\ ~created[r]
        /\ wpc[r] # "idle" => rpc[r] = "memory"

LEMMA OthersStay ==
    ASSUME UserTypeInv, NEW r \in Runs, RunMoves(r), NEW q \in Runs, q # r
    PROVE  /\ rpc'[q] = rpc[q]
           /\ message'[q] = message[q]
           /\ turn'[q] = turn[q]
           /\ created'[q] = created[q]
           /\ track'[q] = track[q]
           /\ seenStatus'[q] = seenStatus[q]
           /\ wpc'[q] = wpc[q]
  <1>1. RunsTyped /\ wpc \in [Runs -> {"idle", "find_candidate", "insert_candidate", "decide",
                                       "apply"}]
    BY DEF UserTypeInv, UserTypeOK, RunsTyped, MemoryTypeOK, Runs
  <1> USE <1>1 DEF RunsTyped
  <1>2. rpc'[q] = rpc[q]
    BY DEF RunMoves, RunStep, Receive, RunCrash, FindTurn, InsertTurn, MessageTaken, FindTrack,
           InsertTrack, InsertThread, ThreadTaken, GetTrack, AttachTurn, WriteTrack,
           WriteThread, Analyze, MemoryWorks, Route, FindTask, InsertTask, TaskTaken,
           WaitTrack, WaitThread, RunGoto, EndRun
  <1>3. /\ message'[q] = message[q]
        /\ created'[q] = created[q]
        /\ seenStatus'[q] = seenStatus[q]
    BY DEF RunMoves, RunStep, Receive, RunCrash, FindTurn, InsertTurn, MessageTaken, FindTrack,
           InsertTrack, InsertThread, ThreadTaken, GetTrack, AttachTurn, WriteTrack,
           WriteThread, Analyze, MemoryWorks, Route, FindTask, InsertTask, TaskTaken,
           WaitTrack, WaitThread, stateVars, EndRun
  <1>4. turn'[q] = turn[q] /\ track'[q] = track[q]
    BY DEF RunMoves, RunStep, Receive, RunCrash, FindTurn, InsertTurn, MessageTaken, FindTrack,
           InsertTrack, InsertThread, ThreadTaken, GetTrack, AttachTurn, WriteTrack,
           WriteThread, Analyze, MemoryWorks, Route, FindTask, InsertTask, TaskTaken,
           WaitTrack, WaitThread, stateVars, EndRun
  <1>5. wpc'[q] = wpc[q]
    <2>1. CASE MemoryWorks(r)
      BY <2>1 DEF MemoryWorks, FindCandidate, InsertCandidate, Decide, SkipDuplicate,
           StageMemory, WriteMemory, RollBack, Leave, WriterGoto
    <2>2. CASE Analyze(r)
      BY <2>2 DEF Analyze, Submit, WriterGoto, memoryVars, writerVars
    <2>3. CASE RunCrash(r)
      BY <2>3 DEF RunCrash, WriterCrash, Leave, WriterGoto, memoryVars, writerVars
    <2>4. ASSUME ~MemoryWorks(r), ~Analyze(r), ~RunCrash(r) PROVE wpc' = wpc
      BY <2>4 DEF RunMoves, RunStep, Receive, FindTurn, InsertTurn, MessageTaken, FindTrack,
           InsertTrack, InsertThread, ThreadTaken, GetTrack, AttachTurn, WriteTrack,
           WriteThread, Route, FindTask, InsertTask, TaskTaken, WaitTrack, WaitThread,
           memoryVars, writerVars
    <2>5. QED
      BY <2>1, <2>2, <2>3, <2>4
  <1>6. QED
    BY <1>2, <1>3, <1>4, <1>5

LEMMA NeverBefore == ASSUME [UserNext]_userVars, ~overlapped' PROVE ~overlapped
  <1>1. ASSUME NEW r \in Runs, RunStep(r) \/ RunCrash(r) PROVE overlapped' = overlapped
    BY <1>1 DEF RunStep, RunCrash, FindTurn, InsertTurn, MessageTaken, FindTrack,
         InsertTrack, InsertThread, ThreadTaken, GetTrack, AttachTurn, WriteTrack,
         WriteThread, Analyze, MemoryWorks, Route, FindTask, InsertTask, TaskTaken,
         WaitTrack, WaitThread, historyVars
  <1>2. ASSUME NEW r \in Runs, NEW m \in Messages, Receive(r, m) PROVE ~overlapped
    BY <1>2 DEF Receive
  <1>3. CASE UNCHANGED userVars
    BY <1>3 DEF userVars, ingressVars, historyVars
  <1>4. QED
    BY <1>1, <1>2, <1>3 DEF UserNext

LEMMA Alone ==
    ASSUME UserTypeInv, OneRunAtWork, NEW r \in Runs, RunMoves(r), ~overlapped',
           NEW q \in Runs, q # r
    PROVE  rpc[q] = "idle" /\ rpc'[q] = "idle"
  <1>1. CASE RunStep(r) \/ RunCrash(r)
    <2>1. rpc[r] # "idle"
      BY <1>1 DEF RunStep, RunCrash, FindTurn, InsertTurn, MessageTaken, FindTrack,
           InsertTrack, InsertThread, ThreadTaken, GetTrack, AttachTurn, WriteTrack,
           WriteThread, Analyze, MemoryWorks, Route, FindTask, InsertTask, TaskTaken,
           WaitTrack, WaitThread, RunAt
    <2>2. ~overlapped
      BY NeverBefore DEF UserNext, RunMoves
    <2>3. QED
      BY <2>1, <2>2, OthersStay DEF OneRunAtWork
  <1>2. ASSUME NEW m \in Messages, Receive(r, m) PROVE rpc[q] = "idle"
    BY <1>2 DEF Receive, RunAt
  <1>3. QED
    BY <1>1, <1>2, OthersStay DEF RunMoves

LEMMA AtWorkNext == UserTypeInv /\ OneRunAtWork /\ [UserNext]_userVars => OneRunAtWork'
  <1> SUFFICES ASSUME UserTypeInv, OneRunAtWork, [UserNext]_userVars PROVE OneRunAtWork'
    OBVIOUS
  <1>1. ASSUME NEW r \in Runs, RunMoves(r), ~overlapped', NEW q \in Runs, q # r
        PROVE  rpc'[q] = "idle"
    BY <1>1, Alone
  <1>2. CASE UNCHANGED userVars
    BY <1>2 DEF OneRunAtWork, userVars, ingressVars, historyVars
  <1>3. CASE \E r \in Runs : RunMoves(r)
    BY <1>1, <1>3 DEF OneRunAtWork
  <1>4. QED
    BY <1>2, <1>3 DEF UserNext, RunMoves

LEMMA CleanNext == UserTypeInv /\ RunClean /\ [UserNext]_userVars => RunClean'
  <1> SUFFICES ASSUME UserTypeInv, RunClean, [UserNext]_userVars PROVE RunClean'
    OBVIOUS
  <1>1. RunsTyped /\ wpc \in [Runs -> {"idle", "find_candidate", "insert_candidate", "decide",
                                       "apply"}]
    BY DEF UserTypeInv, UserTypeOK, RunsTyped, MemoryTypeOK, Runs
  <1>2. ASSUME NEW r \in Runs, RunMoves(r)
        PROVE  /\ ~HasTurn(r)' => turn'[r] = NoRow /\ ~created'[r]
               /\ wpc'[r] # "idle" => rpc'[r] = "memory"
    <2> USE <1>1 DEF RunsTyped, RunClean, HasTurn, RunAt, RunGoto
    <2>1. CASE MemoryWorks(r)
      BY <2>1 DEF MemoryWorks, SkipDuplicate, StageMemory, WriteMemory, RollBack, Leave,
           WriterGoto, EndRun, stateVars
    <2>2. CASE Analyze(r)
      BY <2>2 DEF Analyze, Submit, WriterGoto, memoryVars, writerVars, stateVars
    <2>3. CASE RunCrash(r)
      BY <2>3 DEF RunCrash, WriterCrash, Leave, WriterGoto, memoryVars, writerVars, EndRun
    <2>4. ASSUME ~MemoryWorks(r), ~Analyze(r), ~RunCrash(r)
          PROVE  wpc' = wpc /\ rpc[r] # "memory"
      BY <1>2, <2>4 DEF RunMoves, RunStep, Receive, FindTurn, InsertTurn, MessageTaken,
           FindTrack, InsertTrack, InsertThread, ThreadTaken, GetTrack, AttachTurn, WriteTrack,
           WriteThread, Route, FindTask, InsertTask, TaskTaken, WaitTrack, WaitThread,
           memoryVars, writerVars
    <2>5. ASSUME ~MemoryWorks(r), ~Analyze(r), ~RunCrash(r), ~EndRun(r)
          PROVE  ~HasTurn(r)' => turn'[r] = NoRow /\ ~created'[r]
      BY <1>2, <2>5 DEF RunMoves, RunStep, Receive, FindTurn, InsertTurn, MessageTaken,
           FindTrack, InsertTrack, InsertThread, ThreadTaken, GetTrack, AttachTurn, WriteTrack,
           WriteThread, Route, FindTask, InsertTask, TaskTaken, WaitTrack, WaitThread,
           stateVars
    <2>6. CASE EndRun(r)
      BY <2>6, <2>1, <2>2, <2>3, <2>4 DEF EndRun
    <2>7. QED
      BY <2>1, <2>2, <2>3, <2>4, <2>5, <2>6
  <1>3. CASE UNCHANGED userVars
    BY <1>3 DEF RunClean, HasTurn, userVars, ingressVars, stateVars, memoryVars, writerVars
  <1>4. CASE \E r \in Runs : RunMoves(r)
    BY <1>2, <1>4, OthersStay DEF RunClean, HasTurn
  <1>5. QED
    BY <1>3, <1>4 DEF UserNext, RunMoves

-----------------------------------------------------------------------------
\* In such a time a thread is found to have no track only while it has none,
\* and a run that opens a thread is the only one to do so.
OpenInv ==
    ~overlapped =>
        /\ \A s, t \in Tracks :
              /\ tracks[s] # NoRow
              /\ tracks[t] # NoRow
              /\ tracks[s].thread = tracks[t].thread
              => s = t
        /\ \A r \in Runs :
              /\ rpc[r] = "insert_track" => ThreadTracks(message[r].thread) = {}
              /\ rpc[r] \in {"insert_track", "insert_thread"} =>
                    threads[message[r].thread] = NoRow

\* A new track is that of a run that found none for its thread.
LEMMA TrackOpened ==
    ASSUME UserTypeInv, [UserNext]_userVars, NEW t \in Tracks, tracks[t] = NoRow,
           tracks'[t] # NoRow
    PROVE  \E r \in Runs : /\ InsertTrack(r)
                           /\ tracks'[t].thread = message[r].thread
                           /\ tracks'[t].status = "active"
                           /\ tracks'[t].last_turn = NoRow
                           /\ track'[r] = t
                           /\ \A s \in Tracks : s # t => tracks'[s] = tracks[s]
  <1>1. RowsTyped
    BY DEF UserTypeInv, UserTypeOK, RowsTyped
  <1>2. PICK r \in Runs : InsertTrack(r) \/ WriteTrack(r) \/ WaitTrack(r)
    BY DEF UserNext, RunStep, Receive, RunCrash, FindTurn, InsertTurn, MessageTaken,
         FindTrack, InsertThread, ThreadTaken, GetTrack, AttachTurn, WriteThread, Analyze,
         MemoryWorks, Route, FindTask, InsertTask, TaskTaken, WaitThread,
         dialogueVars, userVars, ingressVars
  <1>3. ASSUME NEW status, NEW last, SetTrackStatus(track[r], status, last), HasTrack(r)
        PROVE  FALSE
    <2>1. track[r] \in Tracks /\ tracks[track[r]] # NoRow
      BY <1>3 DEF UserTypeInv, RunHolds
    <2>2. tracks'[t] = tracks[t]
      BY <1>1, <1>3, <2>1 DEF SetTrackStatus, RowsTyped
    <2>3. QED
      BY <2>2
  <1>4. ~WriteTrack(r) /\ ~WaitTrack(r)
    BY <1>3 DEF WriteTrack, WaitTrack, RunAt, HasTurn, HasTrack
  <1>5. InsertTrack(r)
    BY <1>2, <1>4
  <1> DEFINE row == [thread |-> message[r].thread, status |-> "active", last_turn |-> NoRow]
  <1>6. /\ row.thread = message[r].thread
        /\ row.status = "active"
        /\ row.last_turn = NoRow
    OBVIOUS
  <1>7. PICK s \in Tracks : /\ tracks' = [tracks EXCEPT ![s] = row]
                            /\ track' = [track EXCEPT ![r] = s]
    BY <1>5 DEF InsertTrack
  <1> HIDE DEF row
  <1>8. s = t /\ tracks'[t] = row /\ \A u \in Tracks : u # t => tracks'[u] = tracks[u]
    BY <1>1, <1>7 DEF RowsTyped
  <1>9. track'[r] = t
    BY <1>7, <1>8 DEF UserTypeInv, UserTypeOK
  <1>10. QED
    BY <1>5, <1>6, <1>8, <1>9

LEMMA ThreadOpened ==
    ASSUME UserTypeInv, [UserNext]_userVars, NEW h \in Threads, threads[h] = NoRow,
           threads'[h] # NoRow
    PROVE  \E r \in Runs : InsertThread(r) /\ message[r].thread = h
  <1>1. RowsTyped
    BY DEF UserTypeInv, UserTypeOK, RowsTyped
  <1>2. PICK r \in Runs : InsertThread(r) \/ WriteThread(r) \/ WaitThread(r)
    BY DEF UserNext, RunStep, Receive, RunCrash, FindTurn, InsertTurn, MessageTaken,
         FindTrack, InsertTrack, ThreadTaken, GetTrack, AttachTurn, WriteTrack, Analyze,
         MemoryWorks, Route, FindTask, InsertTask, TaskTaken, WaitTrack,
         dialogueVars, userVars, ingressVars
  <1>3. ~WriteThread(r) /\ ~WaitThread(r)
    BY DEF WriteThread, WaitThread, SetThreadStatus
  <1>4. QED
    BY <1>1, <1>2, <1>3 DEF InsertThread, RowsTyped

LEMMA OpenNext ==
    UserTypeInv /\ UserTypeInv' /\ ReferencesAgree /\ OneRunAtWork /\ OpenInv
        /\ [UserNext]_userVars => OpenInv'
  <1> SUFFICES ASSUME UserTypeInv, UserTypeInv', ReferencesAgree, OneRunAtWork, OpenInv,
                      [UserNext]_userVars
               PROVE  OpenInv'
    OBVIOUS
  <1>1. CASE UNCHANGED userVars
    BY <1>1 DEF OpenInv, ThreadTracks, userVars, ingressVars, dialogueVars, stateVars,
                historyVars
  <1>2. ASSUME NEW r \in Runs, RunMoves(r), ~overlapped' PROVE OpenInv'
    <2>1. ~overlapped
      BY <1>2, NeverBefore
    <2>2. \A q \in Runs : q # r => rpc'[q] = "idle"
      BY <1>2, Alone
    <2>3. RowsTyped /\ RowsStay /\ RunsTyped /\ RunHolds
      BY RowsNext DEF UserTypeInv, UserTypeOK, RowsTyped, RunsTyped
    <2>4. ASSUME NEW s \in Tracks, NEW t \in Tracks, tracks'[s] # NoRow, tracks'[t] # NoRow,
                 tracks'[s].thread = tracks'[t].thread, tracks[t] = NoRow
          PROVE  s = t
      <3>1. PICK q \in Runs : /\ InsertTrack(q)
                              /\ tracks'[t].thread = message[q].thread
                              /\ \A u \in Tracks : u # t => tracks'[u] = tracks[u]
        BY <2>4, TrackOpened
      <3>2. ThreadTracks(message[q].thread) = {}
        BY <2>1, <3>1 DEF OpenInv, InsertTrack, RunAt
      <3>3. QED
        BY <2>4, <3>1, <3>2 DEF ThreadTracks
    <2>5. ASSUME NEW s \in Tracks, NEW t \in Tracks, tracks'[s] # NoRow, tracks'[t] # NoRow,
                 tracks'[s].thread = tracks'[t].thread
          PROVE  s = t
      <3>1. CASE tracks[s] # NoRow /\ tracks[t] # NoRow
        BY <2>1, <2>3, <2>5, <3>1 DEF OpenInv, RowsStay
      <3>2. QED
        BY <2>4, <2>5, <3>1
    <2>6. ASSUME rpc'[r] = "insert_track"
          PROVE  ThreadTracks(message[r].thread)' = {} /\ threads'[message'[r].thread] = NoRow
      <3>1. FindTrack(r)
        BY <1>2, <2>3, <2>6
           DEF RunMoves, RunStep, Receive, RunCrash, FindTurn, InsertTurn, MessageTaken,
               InsertTrack, InsertThread, ThreadTaken, GetTrack, AttachTurn, WriteTrack,
               WriteThread, Analyze, MemoryWorks, Route, FindTask, InsertTask, TaskTaken,
               WaitTrack, WaitThread, RunsTyped, RunGoto, RunAt, EndRun
      <3>2. ThreadTracks(message[r].thread) = {}
        BY <2>3, <2>6, <3>1 DEF FindTrack, RunsTyped, RunGoto
      <3>3. UNCHANGED <<tracks, threads, message>> /\ message[r] \in Messages
        BY <2>3, <3>1 DEF FindTrack, dialogueVars, RunAt, RunHolds
      <3>4. threads[message[r].thread] = NoRow
        <4> DEFINE h == message[r].thread
        <4>1. h \in Threads
          BY <3>3, MessageFields
        <4>2. threads[h] # NoRow => threads[h].track \in ThreadTracks(h)
          BY <2>3, <4>1 DEF ReferencesAgree, ThreadTracks, RowsTyped, ThreadRow
        <4>3. QED
          BY <3>2, <4>2
      <3>5. QED
        BY <3>2, <3>3, <3>4 DEF ThreadTracks
    <2>7. ASSUME rpc'[r] = "insert_thread" PROVE threads'[message'[r].thread] = NoRow
      <3>1. InsertTrack(r)
        BY <1>2, <2>3, <2>7
           DEF RunMoves, RunStep, Receive, RunCrash, FindTurn, InsertTurn, MessageTaken,
               FindTrack, InsertThread, ThreadTaken, GetTrack, AttachTurn, WriteTrack,
               WriteThread, Analyze, MemoryWorks, Route, FindTask, InsertTask, TaskTaken,
               WaitTrack, WaitThread, RunsTyped, RunGoto, RunAt, EndRun
      <3>2. QED
        BY <2>1, <3>1 DEF OpenInv, InsertTrack, RunAt
    <2>8. QED
      BY <2>2, <2>5, <2>6, <2>7 DEF OpenInv
  <1>3. CASE \E r \in Runs : RunMoves(r)
    BY <1>2, <1>3 DEF OpenInv
  <1>4. QED
    BY <1>1, <1>3 DEF UserNext, RunMoves

-----------------------------------------------------------------------------
\* A thread's row is behind its track's only between a run's two UPDATEs,
\* and what the second will write is then what the first has written.
StatusInv ==
    ~overlapped /\ ~died =>
        /\ \A h \in Threads : threads[h] # NoRow =>
              \/ threads[h].status = tracks[threads[h].track].status
              \/ \E r \in Runs : /\ rpc[r] \in {"write_thread", "wait_thread"}
                                 /\ track[r] = threads[h].track
        /\ \A r \in Runs :
              /\ rpc[r] = "insert_thread" => tracks[track[r]].status = "active"
              /\ rpc[r] = "write_thread" => tracks[track[r]].status = seenStatus[r]
              /\ rpc[r] = "wait_thread" =>
                    tracks[track[r]].status = "waiting_for_executor"

LEMMA StatusNext ==
    UserTypeInv /\ UserTypeInv' /\ ReferencesAgree /\ OneRunAtWork /\ StatusInv
        /\ [UserNext]_userVars => StatusInv'
  <1> SUFFICES ASSUME UserTypeInv, UserTypeInv', ReferencesAgree, OneRunAtWork, StatusInv,
                      [UserNext]_userVars, ~overlapped', ~died'
               PROVE  StatusInv'
    BY DEF StatusInv
  <1>1. CASE UNCHANGED userVars
    BY <1>1 DEF StatusInv, userVars, ingressVars, dialogueVars, stateVars, historyVars
  <1>2. ASSUME NEW r \in Runs, RunMoves(r) PROVE StatusInv'
    <2>1. ~overlapped /\ ~died /\ ~RunCrash(r)
      <3>1. ~RunCrash(r)
        BY DEF RunCrash
      <3>2. died' = died
        BY <1>2, <3>1 DEF RunMoves, RunStep, Receive, FindTurn, InsertTurn, MessageTaken,
             FindTrack, InsertTrack, InsertThread, ThreadTaken, GetTrack, AttachTurn,
             WriteTrack, WriteThread, Analyze, MemoryWorks, Route, FindTask, InsertTask,
             TaskTaken, WaitTrack, WaitThread, historyVars
      <3>3. QED
        BY <3>1, <3>2, NeverBefore
    <2>2. \A q \in Runs : q # r => rpc[q] = "idle" /\ rpc'[q] = "idle"
      BY <1>2, Alone
    <2>3. RowsTyped /\ RunsTyped /\ RunHolds
      BY DEF UserTypeInv, UserTypeOK, RowsTyped, RunsTyped
    <2>4. ASSUME NEW h \in Threads, threads[h] # NoRow
          PROVE  /\ threads[h].track \in Tracks
                 /\ tracks[threads[h].track] # NoRow
                 /\ \/ threads[h].status = tracks[threads[h].track].status
                    \/ /\ rpc[r] \in {"write_thread", "wait_thread"}
                       /\ track[r] = threads[h].track
      BY <2>1, <2>2, <2>3, <2>4 DEF ReferencesAgree, RowsTyped, ThreadRow, StatusInv
    <2>5. ASSUME UNCHANGED <<tracks, threads>>,
                 rpc[r] \notin {"write_thread", "wait_thread"},
                 rpc'[r] \notin {"insert_thread", "write_thread", "wait_thread"}
          PROVE  StatusInv'
      BY <2>2, <2>4, <2>5 DEF StatusInv
    <2>6. CASE InsertTrack(r)
      <3>1. PICK t \in Tracks :
               /\ tracks[t] = NoRow
               /\ tracks' = [tracks EXCEPT ![t] = [thread |-> message[r].thread,
                                                   status |-> "active", last_turn |-> NoRow]]
               /\ track' = [track EXCEPT ![r] = t]
        BY <2>6 DEF InsertTrack
      <3>2. /\ tracks'[t].status = "active"
            /\ \A s \in Tracks : s # t => tracks'[s] = tracks[s]
            /\ track'[r] = t
        BY <2>3, <3>1 DEF RowsTyped, RunsTyped
      <3>3. rpc[r] = "insert_track" /\ rpc'[r] = "insert_thread" /\ threads' = threads
        BY <2>3, <2>6 DEF InsertTrack, RunAt, RunGoto, RunsTyped
      <3>4. \A h \in Threads : threads[h] # NoRow =>
               threads'[h].status = tracks'[threads'[h].track].status
        BY <2>4, <3>1, <3>2, <3>3
      <3>5. QED
        BY <2>2, <3>2, <3>3, <3>4 DEF StatusInv
    <2>7. CASE InsertThread(r)
      <3>1. /\ threads' = [threads EXCEPT ![message[r].thread] =
                             [track |-> track[r], status |-> "active"]]
            /\ rpc[r] = "insert_thread"
            /\ rpc'[r] = "get_track"
            /\ UNCHANGED <<tracks, track>>
        BY <2>3, <2>7 DEF InsertThread, RunAt, RunGoto, RunsTyped, stateVars
      <3>2. tracks[track[r]].status = "active"
        BY <2>1, <3>1 DEF StatusInv
      <3>3. ASSUME NEW h \in Threads, threads'[h] # NoRow
            PROVE  threads'[h].status = tracks'[threads'[h].track].status
        <4>1. CASE h = message[r].thread
          BY <2>3, <3>1, <3>2, <4>1 DEF RowsTyped
        <4>2. CASE h # message[r].thread
          BY <2>3, <2>4, <3>1, <3>3, <4>2 DEF RowsTyped
        <4>3. QED
          BY <4>1, <4>2
      <3>4. QED
        BY <2>2, <3>1, <3>3 DEF StatusInv
    <2>8. CASE WriteTrack(r) \/ WaitTrack(r)
      <3>1. PICK status \in TrackStatus, last \in Turns \cup {NoRow} :
               /\ SetTrackStatus(track[r], status, last)
               /\ \/ rpc'[r] = "write_thread" /\ status = seenStatus[r]
                  \/ rpc'[r] = "wait_thread" /\ status = "waiting_for_executor"
        BY <2>3, <2>8 DEF WriteTrack, WaitTrack, RunGoto, RunsTyped, TrackStatus
      <3>2. /\ track[r] \in Tracks
            /\ tracks[track[r]] # NoRow
            /\ rpc[r] \in {"write_track", "wait_track"}
            /\ UNCHANGED <<threads, track, seenStatus>>
        BY <2>3, <2>8 DEF WriteTrack, WaitTrack, RunAt, RunHolds, HasTurn, HasTrack, stateVars
      <3>3. /\ \A s \in Tracks : s # track[r] => tracks'[s] = tracks[s]
            /\ tracks'[track[r]].status = status
        BY <2>3, <3>1, <3>2, StatusRows
      <3>4. \A h \in Threads : threads[h] # NoRow =>
               \/ threads'[h].status = tracks'[threads'[h].track].status
               \/ track'[r] = threads'[h].track
        BY <2>4, <3>2, <3>3
      <3>5. QED
        BY <2>2, <3>1, <3>2, <3>3, <3>4 DEF StatusInv
    <2>9. CASE WriteThread(r) \/ WaitThread(r)
      <3>1. PICK status \in TrackStatus :
               /\ SetThreadStatus(track[r], status)
               /\ \/ rpc[r] = "write_thread" /\ status = seenStatus[r]
                  \/ rpc[r] = "wait_thread" /\ status = "waiting_for_executor"
        BY <2>3, <2>9 DEF WriteThread, WaitThread, RunAt, RunsTyped, TrackStatus
      <3>2. /\ track[r] \in Tracks
            /\ tracks[track[r]].status = status
            /\ UNCHANGED tracks
            /\ rpc'[r] \in {"analyze", "idle"}
        BY <2>1, <2>3, <2>9, <3>1
           DEF WriteThread, WaitThread, RunHolds, HasTurn, HasTrack, StatusInv, RunsTyped,
               RunGoto, EndRun
      <3>3. ASSUME NEW h \in Threads, threads'[h] # NoRow
            PROVE  threads'[h].status = tracks'[threads'[h].track].status
        BY <2>3, <2>4, <3>1, <3>2, <3>3, ThreadRows
      <3>4. QED
        BY <2>2, <3>2, <3>3 DEF StatusInv
    <2>10. ASSUME FindTurn(r) \/ InsertTurn(r) \/ MessageTaken(r) \/ FindTrack(r)
                  \/ ThreadTaken(r) \/ GetTrack(r) \/ AttachTurn(r) \/ Analyze(r)
                  \/ MemoryWorks(r) \/ Route(r) \/ FindTask(r) \/ InsertTask(r) \/ TaskTaken(r)
                  \/ \E m \in Messages : Receive(r, m)
           PROVE  StatusInv'
      <3>1. UNCHANGED <<tracks, threads>>
        BY <2>10 DEF FindTurn, InsertTurn, MessageTaken, FindTrack, ThreadTaken, GetTrack,
             AttachTurn, Analyze, MemoryWorks, Route, FindTask, InsertTask, TaskTaken,
             Receive, dialogueVars
      <3>2. rpc[r] \notin {"write_thread", "wait_thread"}
        BY <2>10 DEF FindTurn, InsertTurn, MessageTaken, FindTrack, ThreadTaken, GetTrack,
             AttachTurn, Analyze, MemoryWorks, Route, FindTask, InsertTask, TaskTaken,
             Receive, RunAt
      <3>3. rpc'[r] \notin {"insert_thread", "write_thread", "wait_thread"}
        BY <2>3, <2>10 DEF FindTurn, InsertTurn, MessageTaken, FindTrack, ThreadTaken, GetTrack,
             AttachTurn, Analyze, MemoryWorks, Route, FindTask, InsertTask, TaskTaken,
             Receive, RunAt, RunGoto, EndRun, RunsTyped
      <3>4. QED
        BY <2>5, <3>1, <3>2, <3>3
    <2>11. QED
      BY <1>2, <2>1, <2>6, <2>7, <2>8, <2>9, <2>10 DEF RunMoves, RunStep
  <1>3. QED
    BY <1>1, <1>2 DEF UserNext, RunMoves

-----------------------------------------------------------------------------
\* Every turn a track refers to, by its last turn or by a task, is one of
\* its own or was moved; so is that of a run past its attach step.
Waits == {"wait_track", "wait_thread"}

OwnInv ==
    ~overlapped =>
        /\ \A t \in Tracks : tracks[t] # NoRow /\ tracks[t].last_turn # NoRow =>
              /\ turns[tracks[t].last_turn] # NoRow
              /\ tracks[t].last_turn \notin moved => turns[tracks[t].last_turn].track = t
        /\ \A t \in Tracks, x \in Texts : taskStatus[<<t, x>>] # "absent" =>
              \E u \in Turns : /\ turns[u] # NoRow
                               /\ turns[u].text = x
                               /\ u \in moved \/ turns[u].track = t
        /\ \A r \in Runs : rpc[r] \in PastAttach \cup Waits => turns[turn[r]].track = track[r]

LEMMA MovedStays == ASSUME [UserNext]_userVars PROVE moved \subseteq moved'
  BY DEF UserNext, RunStep, Receive, RunCrash, FindTurn, InsertTurn, MessageTaken, FindTrack,
         InsertTrack, InsertThread, ThreadTaken, GetTrack, AttachTurn, Moving, WriteTrack,
         WriteThread, Analyze, MemoryWorks, Route, FindTask, InsertTask, TaskTaken, WaitTrack,
         WaitThread, historyVars, userVars, ingressVars

\* The one track of a turn's thread is the one a message sent again finds.
LEMMA TrackKept ==
    ASSUME UserTypeInv, ReferencesAgree, OpenInv, ~overlapped, [UserNext]_userVars,
           NEW u \in Turns, turns[u] # NoRow, turns[u].track # NoRow, u \notin moved'
    PROVE  turns'[u].track = turns[u].track
  <1>1. RowsTyped /\ RunHolds
    BY DEF UserTypeInv, UserTypeOK, RowsTyped
  <1>2. /\ turns[u].track \in Tracks
        /\ tracks[turns[u].track] # NoRow
        /\ tracks[turns[u].track].thread = turns[u].thread
        /\ turns[u].thread # NoRow
    BY <1>1, NoRowAssumption DEF RowsTyped, TurnRow, TrackRow, ReferencesAgree
  <1>3. ASSUME turns'[u] # turns[u] PROVE \E r \in Runs : AttachTurn(r)
    <2>1. PICK r \in Runs : InsertTurn(r) \/ AttachTurn(r)
      BY <1>3 DEF UserNext, RunStep, Receive, RunCrash, FindTurn, MessageTaken, FindTrack,
           InsertTrack, InsertThread, ThreadTaken, GetTrack, WriteTrack, WriteThread, Analyze,
           MemoryWorks, Route, FindTask, InsertTask, TaskTaken, WaitTrack, WaitThread,
           dialogueVars, userVars, ingressVars
    <2>2. CASE InsertTurn(r)
      <3>1. PICK v \in Turns : turns[v] = NoRow /\ \E row : turns' = [turns EXCEPT ![v] = row]
        BY <2>2 DEF InsertTurn
      <3>2. QED
        BY <1>1, <1>3, <3>1 DEF RowsTyped
    <2>3. QED
      BY <2>1, <2>2
  <1>4. ASSUME NEW r \in Runs, AttachTurn(r), turns'[u] # turns[u]
        PROVE  turns'[u].track = turns[u].track
    <2> DEFINE row == [ext |-> turns[turn[r]].ext, text |-> turns[turn[r]].text,
                       track |-> track[r], thread |-> message[r].thread]
    <2>1. turns' = [turns EXCEPT ![turn[r]] = row] /\ turn[r] \in Turns
      BY <1>4, AttachRows
    <2>2. row.track = track[r]
      OBVIOUS
    <2> HIDE DEF row
    <2>3. u = turn[r] /\ turns'[u].track = track[r]
      BY <1>1, <1>4, <2>1, <2>2 DEF RowsTyped
    <2>4. turns[u].thread = message[r].thread
      BY <1>2, <1>4, <2>3 DEF AttachTurn, Moving
    <2>5. /\ track[r] \in Tracks
          /\ tracks[track[r]] # NoRow
          /\ tracks[track[r]].thread = message[r].thread
      BY <1>1, <1>4 DEF AttachTurn, RunAt, RunHolds, HasTurn, HasTrack
    <2>6. track[r] = turns[u].track
      BY <1>2, <2>4, <2>5 DEF OpenInv
    <2>7. QED
      BY <2>3, <2>6
  <1>5. QED
    BY <1>3, <1>4

LEMMA LastTurnStep ==
    ASSUME UserTypeInv, [UserNext]_userVars, NEW t \in Tracks, tracks'[t] # NoRow,
           tracks'[t].last_turn # NoRow
    PROVE  \/ tracks[t] # NoRow /\ tracks'[t].last_turn = tracks[t].last_turn
           \/ \E r \in Runs : /\ WriteTrack(r)
                              /\ t = track[r]
                              /\ tracks'[t].last_turn = turn[r]
  <1>1. RowsTyped
    BY DEF UserTypeInv, UserTypeOK, RowsTyped
  <1>2. CASE tracks[t] = NoRow
    BY <1>2, TrackOpened
  <1>3. ASSUME tracks'[t] # tracks[t], tracks[t] # NoRow
        PROVE  \E r \in Runs : WriteTrack(r) \/ WaitTrack(r)
    <2>1. PICK r \in Runs : InsertTrack(r) \/ WriteTrack(r) \/ WaitTrack(r)
      BY <1>3 DEF UserNext, RunStep, Receive, RunCrash, FindTurn, InsertTurn, MessageTaken,
           FindTrack, InsertThread, ThreadTaken, GetTrack, AttachTurn, WriteThread, Analyze,
           MemoryWorks, Route, FindTask, InsertTask, TaskTaken, WaitThread,
           dialogueVars, userVars, ingressVars
    <2>2. CASE InsertTrack(r)
      <3>1. PICK s \in Tracks : tracks[s] = NoRow /\ \E row : tracks' = [tracks EXCEPT ![s] = row]
        BY <2>2 DEF InsertTrack
      <3>2. QED
        BY <1>1, <1>3, <3>1 DEF RowsTyped
    <2>3. QED
      BY <2>1, <2>2
  <1>4. ASSUME NEW r \in Runs, WriteTrack(r) \/ WaitTrack(r), tracks'[t] # tracks[t]
        PROVE  \/ tracks'[t].last_turn = tracks[t].last_turn
               \/ WriteTrack(r) /\ t = track[r] /\ tracks'[t].last_turn = turn[r]
    <2>1. /\ track[r] \in Tracks
          /\ tracks[track[r]] # NoRow
          /\ turn[r] \in Turns
          /\ seenStatus[r] \in TrackStatus
          /\ "waiting_for_executor" \in TrackStatus
      BY <1>4 DEF WriteTrack, WaitTrack, RunAt, UserTypeInv, UserTypeOK, RunHolds, HasTurn,
           HasTrack, TrackStatus
    <2>2. CASE WriteTrack(r)
      <3>1. SetTrackStatus(track[r], seenStatus[r], turn[r]) /\ turn[r] # NoRow
        BY <2>1, <2>2, NoRowAssumption DEF WriteTrack
      <3>2. QED
        BY <1>1, <1>4, <2>1, <2>2, <3>1, StatusRows
    <2>3. CASE WaitTrack(r)
      <3>1. SetTrackStatus(track[r], "waiting_for_executor", NoRow)
        BY <2>3 DEF WaitTrack
      <3>2. QED
        BY <1>1, <1>4, <2>1, <3>1, StatusRows
    <2>4. QED
      BY <1>4, <2>2, <2>3
  <1>5. QED
    BY <1>2, <1>3, <1>4

LEMMA OwnNext ==
    UserTypeInv /\ UserTypeInv' /\ ReferencesAgree /\ CandidateInv /\ OneRunAtWork
        /\ OpenInv /\ OwnInv /\ [UserNext]_userVars => OwnInv'
  <1> SUFFICES ASSUME UserTypeInv, UserTypeInv', ReferencesAgree, CandidateInv, OneRunAtWork,
                      OpenInv, OwnInv, [UserNext]_userVars, ~overlapped'
               PROVE  OwnInv'
    BY DEF OwnInv
  <1>1. ~overlapped /\ moved \subseteq moved' /\ RowsTyped /\ RunsTyped /\ RunHolds
    BY NeverBefore, MovedStays DEF UserTypeInv, UserTypeOK, RowsTyped, RunsTyped
  <1>2. ASSUME NEW t \in Tracks, tracks'[t] # NoRow, tracks'[t].last_turn # NoRow
        PROVE  /\ turns'[tracks'[t].last_turn] # NoRow
               /\ tracks'[t].last_turn \notin moved' => turns'[tracks'[t].last_turn].track = t
    <2> DEFINE u == tracks'[t].last_turn
    <2>1. u \in Turns /\ t # NoRow
      BY <1>2, NoRowAssumption DEF UserTypeInv, UserTypeOK, TrackRow
    <2>2. CASE tracks[t] # NoRow /\ u = tracks[t].last_turn
      <3>1. turns[u] # NoRow /\ (u \notin moved => turns[u].track = t)
        BY <1>1, <1>2, <2>2 DEF OwnInv
      <3> HIDE DEF u
      <3>2. turns'[u] # NoRow
        BY <2>1, <3>1, TurnsStay
      <3>3. u \notin moved' => turns'[u].track = t
        BY <1>1, <2>1, <3>1, TrackKept
      <3>4. QED
        BY <3>2, <3>3 DEF u
    <2>3. ASSUME NEW r \in Runs, WriteTrack(r), t = track[r], u = turn[r]
          PROVE  turns'[u] # NoRow /\ turns'[u].track = t
      <3>1. turns[u] # NoRow /\ turns[u].track = t /\ UNCHANGED turns
        BY <1>1, <2>3 DEF WriteTrack, RunAt, RunHolds, HasTurn, OwnInv, PastAttach
      <3>2. QED
        BY <3>1
    <2>4. QED
      BY <1>2, <2>2, <2>3, LastTurnStep
  <1>3. ASSUME NEW t \in Tracks, NEW x \in Texts, taskStatus'[<<t, x>>] # "absent"
        PROVE  \E u \in Turns : /\ turns'[u] # NoRow
                                /\ turns'[u].text = x
                                /\ u \in moved' \/ turns'[u].track = t
    <2>1. CASE taskStatus[<<t, x>>] # "absent"
      <3>1. PICK u \in Turns : /\ turns[u] # NoRow
                               /\ turns[u].text = x
                               /\ u \in moved \/ turns[u].track = t
        BY <1>1, <2>1 DEF OwnInv
      <3>2. turns'[u] # NoRow /\ turns'[u].text = x
        BY <3>1, TurnsStay
      <3>3. t # NoRow
        BY NoRowAssumption
      <3>4. u \in moved' \/ turns'[u].track = t
        BY <1>1, <3>1, <3>3, TrackKept
      <3>5. QED
        BY <3>2, <3>4
    <2>2. ASSUME NEW r \in Runs, InsertTask(r), taskStatus[<<t, x>>] = "absent"
          PROVE  \E u \in Turns : /\ turns'[u] # NoRow
                                  /\ turns'[u].text = x
                                  /\ turns'[u].track = t
      <3>1. <<t, x>> = Capsule(r)
        BY <1>1, <1>3, <2>2 DEF InsertTask, RowsTyped
      <3>2. t = track[r] /\ x = message[r].text
        BY <3>1 DEF Capsule
      <3>3. /\ turn[r] \in Turns
            /\ turns[turn[r]] # NoRow
            /\ turns[turn[r]].track = track[r]
            /\ turns[turn[r]].text = message[r].text
            /\ UNCHANGED turns
        BY <1>1, <2>2 DEF InsertTask, RunAt, RunHolds, HasTurn, OwnInv, PastAttach,
             CandidateInv, RunRemembers, Delegates, dialogueVars
      <3>4. QED
        BY <3>2, <3>3
    <2>3. ASSUME taskStatus' # taskStatus PROVE \E r \in Runs : InsertTask(r)
      BY <2>3 DEF UserNext, RunStep, Receive, RunCrash, FindTurn, InsertTurn, MessageTaken,
           FindTrack, InsertTrack, InsertThread, ThreadTaken, GetTrack, AttachTurn,
           WriteTrack, WriteThread, Analyze, MemoryWorks, Route, FindTask, TaskTaken,
           WaitTrack, WaitThread, userVars, ingressVars
    <2>4. QED
      BY <1>3, <2>1, <2>2, <2>3
  <1>4. ASSUME NEW r \in Runs, rpc'[r] \in PastAttach \cup Waits
        PROVE  turns'[turn'[r]].track = track'[r]
    <2>1. CASE UNCHANGED userVars
      BY <1>1, <1>4, <2>1 DEF OwnInv, userVars, ingressVars, dialogueVars, stateVars
    <2>2. CASE RunMoves(r)
      <3>1. CASE AttachTurn(r)
        <4> DEFINE row == [ext |-> turns[turn[r]].ext, text |-> turns[turn[r]].text,
                           track |-> track[r], thread |-> message[r].thread]
        <4>1. turns' = [turns EXCEPT ![turn[r]] = row] /\ turn[r] \in Turns
          BY <3>1, AttachRows
        <4>2. row.track = track[r]
          OBVIOUS
        <4> HIDE DEF row
        <4>3. UNCHANGED <<turn, track>>
          BY <3>1 DEF AttachTurn, stateVars
        <4>4. QED
          BY <1>1, <4>1, <4>2, <4>3 DEF RowsTyped
      <3>2. CASE ~AttachTurn(r)
        <4>1. /\ ~EndRun(r)
              /\ rpc[r] \in PastAttach \cup Waits
          BY <1>1, <1>4, <2>2, <3>2
             DEF RunMoves, RunStep, Receive, RunCrash, FindTurn, InsertTurn, MessageTaken,
                 FindTrack, InsertTrack, InsertThread, ThreadTaken, GetTrack, WriteTrack,
                 WriteThread, Analyze, MemoryWorks, Route, FindTask, InsertTask, TaskTaken,
                 WaitTrack, WaitThread, RunAt, RunGoto, EndRun, RunsTyped, PastAttach, Waits
        <4>2. UNCHANGED <<turns, turn, track>>
          BY <2>2, <3>2, <4>1
             DEF RunMoves, RunStep, Receive, RunCrash, FindTurn, InsertTurn, MessageTaken,
                 FindTrack, InsertTrack, InsertThread, ThreadTaken, GetTrack, WriteTrack,
                 WriteThread, Analyze, MemoryWorks, Route, FindTask, InsertTask, TaskTaken,
                 WaitTrack, WaitThread, RunAt, PastAttach, Waits, dialogueVars, stateVars
        <4>3. QED
          BY <1>1, <4>1, <4>2 DEF OwnInv
      <3>3. QED
        BY <3>1, <3>2
    <2>3. ASSUME NEW q \in Runs, RunMoves(q), q # r PROVE FALSE
      BY <1>4, <2>3, Alone DEF PastAttach, Waits
    <2>4. QED
      BY <2>1, <2>2, <2>3 DEF UserNext, RunMoves
  <1>5. QED
    BY <1>2, <1>3, <1>4 DEF OwnInv

-----------------------------------------------------------------------------
\* The pipeline has the run's own candidate to decide on, which is in no
\* table yet, and a decision to write still holds when it is applied.
PastMemory == {"router", "find_task", "insert_task"} \cup Waits

ClearInv ==
    ~overlapped => \A r \in Runs :
        /\ created[r] /\ rpc[r] \notin PastMemory => turn[r] \notin items \cup staged
        /\ rpc[r] = "memory" => submission[r].assignment = "none"
        /\ Applying(r, "write_memory") => ActiveMemory(Candidate(r).dedupe_key) = {}

LEMMA ClearNext ==
    UserTypeInv /\ UserTypeInv' /\ CandidateInv /\ ConflictDecisionNotBypassed /\ RunClean
        /\ RunClean' /\ OneRunAtWork /\ ClearInv /\ [UserNext]_userVars => ClearInv'
  <1> SUFFICES ASSUME UserTypeInv, UserTypeInv', CandidateInv, ConflictDecisionNotBypassed,
                      RunClean, RunClean', OneRunAtWork, ClearInv, [UserNext]_userVars,
                      ~overlapped'
               PROVE  ClearInv'
    BY DEF ClearInv
  <1>1. ~overlapped /\ RowsTyped /\ RunsTyped /\ RunHolds /\ MemoryTypeOK
    BY NeverBefore DEF UserTypeInv, UserTypeOK, RowsTyped, RunsTyped
  <1>2. CASE UNCHANGED userVars
    BY <1>1, <1>2 DEF ClearInv, Applying, ActiveMemory, Candidate, Key, userVars, ingressVars,
         stateVars, memoryVars, writerVars, tables
  <1>3. ASSUME NEW r \in Runs, RunMoves(r) PROVE ClearInv'
    <2> DEFINE Goal == /\ created'[r] /\ rpc'[r] \notin PastMemory =>
                             turn'[r] \notin items' \cup staged'
                       /\ rpc'[r] = "memory" => submission'[r].assignment = "none"
                       /\ Applying(r, "write_memory")' =>
                             ActiveMemory(Candidate(r).dedupe_key)' = {}
    <2>1. \A q \in Runs : q # r => rpc'[q] = "idle" /\ ~created'[q] /\ wpc'[q] = "idle"
      BY <1>3, Alone DEF RunClean, HasTurn
    <2>2. /\ created[r] /\ rpc[r] \notin PastMemory => turn[r] \notin items \cup staged
          /\ rpc[r] = "memory" => submission[r].assignment = "none"
          /\ Applying(r, "write_memory") => ActiveMemory(Candidate(r).dedupe_key) = {}
      BY <1>1 DEF ClearInv
    <2>3. CASE EndRun(r)
      <3>1. rpc'[r] = "idle" /\ ~created'[r] /\ wpc'[r] = "idle"
        BY <1>1, <2>3 DEF EndRun, RunGoto, RunsTyped, RunClean, HasTurn
      <3>2. Goal
        BY <3>1 DEF Applying
      <3>3. QED
        BY <2>1, <3>2 DEF ClearInv, Applying
    <2>4. CASE InsertTurn(r)
      <3>1. PICK u \in Turns : turns[u] = NoRow /\ turn' = [turn EXCEPT ![r] = u]
        BY <2>4 DEF InsertTurn
      <3>2. turn'[r] \notin items \cup staged
        BY <1>1, <3>1 DEF CandidateInv, ConflictDecisionNotBypassed, RunsTyped, Turns
      <3>3. UNCHANGED memoryVars /\ rpc'[r] = "find_track"
        BY <1>1, <2>4 DEF InsertTurn, RunGoto, RunsTyped
      <3>4. wpc'[r] = "idle"
        BY <3>3 DEF RunClean
      <3>5. Goal
        BY <3>2, <3>3, <3>4 DEF Applying, memoryVars, tables
      <3>6. QED
        BY <2>1, <3>5 DEF ClearInv, Applying
    <2>5. CASE Analyze(r)
      <3>1. UNCHANGED <<created, turn, items, staged>> /\ rpc[r] = "analyze"
        BY <2>5 DEF Analyze, RunAt, Submit, stateVars, memoryVars, tables
      <3>2. rpc'[r] = "memory" => submission'[r].assignment = "none"
        <4>1. CASE WritesMemory(r)
          <5>1. submission'[r] = MemoryCandidate(r)
            BY <1>1, <2>5, <4>1 DEF Analyze, Submit, MemoryTypeOK, Runs
          <5>2. QED
            BY <5>1 DEF MemoryCandidate
        <4>2. CASE ~WritesMemory(r)
          BY <1>1, <2>5, <4>2 DEF Analyze, RunGoto, RunsTyped
        <4>3. QED
          BY <4>1, <4>2
      <3>3. wpc'[r] # "apply"
        BY <1>1, <2>5, <3>1 DEF Analyze, Submit, WriterGoto, MemoryTypeOK, Runs, RunClean,
             memoryVars, writerVars
      <3>4. Goal
        BY <2>2, <3>1, <3>2, <3>3 DEF Applying, PastMemory, Waits
      <3>5. QED
        BY <2>1, <3>4 DEF ClearInv, Applying
    <2>6. CASE MemoryWorks(r) /\ ~EndRun(r)
      <3>1. CASE FindCandidate(r) \/ InsertCandidate(r)
        <4>1. /\ wpc'[r] # "apply"
              /\ UNCHANGED <<items, staged, submission>>
          BY <1>1, <3>1 DEF FindCandidate, InsertCandidate, WriterGoto, MemoryTypeOK, Runs,
               tables
        <4>2. UNCHANGED <<rpc, created, turn>>
          BY <2>6, <3>1 DEF MemoryWorks, SkipDuplicate, StageMemory, WriteMemory, RollBack,
               FindCandidate, InsertCandidate, Applying, stateVars
        <4>3. Goal
          BY <2>2, <4>1, <4>2 DEF Applying
        <4>4. QED
          BY <2>1, <4>3 DEF ClearInv, Applying
      <3>2. CASE Decide(r)
        <4>1. UNCHANGED <<tables, submission>> /\ wpc[r] = "decide"
          BY <3>2 DEF Decide
        <4>2. UNCHANGED <<rpc, created, turn>>
          BY <2>6, <4>1 DEF MemoryWorks, SkipDuplicate, StageMemory, WriteMemory, RollBack,
               FindCandidate, InsertCandidate, Applying, stateVars
        <4>3. decision'[r] = "write_memory" => ActiveMemory(Candidate(r).dedupe_key) = {}
          BY <1>1, <3>2 DEF Decide, MemoryTypeOK, Runs
        <4>4. ActiveMemory(Candidate(r).dedupe_key)' = ActiveMemory(Candidate(r).dedupe_key)
          BY <4>1 DEF ActiveMemory, Candidate, Key, tables
        <4>5. Goal
          BY <2>2, <4>1, <4>2, <4>3, <4>4 DEF Applying, tables
        <4>6. QED
          BY <2>1, <4>5 DEF ClearInv, Applying
      <3>3. CASE RunGoto(r, "router") /\ ~FindCandidate(r) /\ ~InsertCandidate(r) /\ ~Decide(r)
        <4>1. rpc'[r] = "router"
          BY <1>1, <3>3 DEF RunGoto, RunsTyped
        <4>2. wpc'[r] = "idle"
          BY <4>1 DEF RunClean
        <4>3. Goal
          BY <4>1, <4>2 DEF Applying, PastMemory
        <4>4. QED
          BY <2>1, <4>3 DEF ClearInv, Applying
      <3>4. QED
        BY <2>6, <3>1, <3>2, <3>3 DEF MemoryWorks
    <2>7. CASE ~EndRun(r) /\ ~InsertTurn(r) /\ ~Analyze(r) /\ ~MemoryWorks(r)
      <3>1. UNCHANGED memoryVars /\ created' = created
        BY <1>3, <2>7 DEF RunMoves, RunStep, Receive, RunCrash, FindTurn, MessageTaken,
             FindTrack, InsertTrack, InsertThread, ThreadTaken, GetTrack, AttachTurn,
             WriteTrack, WriteThread, Route, FindTask, InsertTask, TaskTaken, WaitTrack,
             WaitThread, stateVars
      <3>2. /\ rpc'[r] # "memory"
            /\ created[r] /\ rpc'[r] \notin PastMemory => rpc[r] \notin PastMemory
        BY <1>1, <1>3, <2>7
           DEF RunMoves, RunStep, Receive, RunCrash, FindTurn, MessageTaken,
               FindTrack, InsertTrack, InsertThread, ThreadTaken, GetTrack, AttachTurn,
               WriteTrack, WriteThread, Route, FindTask, InsertTask, TaskTaken, WaitTrack,
               WaitThread, RunAt, RunGoto, RunsTyped, PastMemory, Waits
      <3>3. created[r] => turn'[r] = turn[r]
        BY <1>3, <2>7 DEF RunMoves, RunStep, Receive, RunCrash, FindTurn, MessageTaken,
             FindTrack, InsertTrack, InsertThread, ThreadTaken, GetTrack, AttachTurn,
             WriteTrack, WriteThread, Route, FindTask, InsertTask, TaskTaken, WaitTrack,
             WaitThread, stateVars, RunAt, RunClean, HasTurn
      <3>4. wpc'[r] = "idle"
        BY <3>2 DEF RunClean
      <3>5. Goal
        BY <2>2, <3>1, <3>2, <3>3, <3>4 DEF Applying, memoryVars, tables
      <3>6. QED
        BY <2>1, <3>5 DEF ClearInv, Applying
    <2>8. QED
      BY <2>3, <2>4, <2>5, <2>6, <2>7
  <1>4. QED
    BY <1>2, <1>3 DEF UserNext, RunMoves

-----------------------------------------------------------------------------
\* In a time without overlap or death, a turn is served once the run that
\* created it is over, and what that run has behind it is done.
Remembered(x) ==
    x \notin Blank => \E k \in items \cup staged : candidates[k].dedupe_key = Normal[x]

ServedInv ==
    ~overlapped /\ ~died =>
        /\ \A u \in Turns \ moved :
              turns[u] # NoRow /\ (\A r \in Runs : turn[r] = u => ~created[r]) => Served(u)
        /\ \A r \in Runs : created[r] =>
              /\ rpc[r] \in PastMemory => Remembered(message[r].text)
              /\ rpc[r] \in Waits => taskStatus[Capsule(r)] # "absent"

\* Memory, review and the rows they come from stay as they are.
LEMMA MemoryStays ==
    ASSUME MemoryTypeInv, [MemoryNext]_memoryVars
    PROVE  /\ items \subseteq items'
           /\ staged \subseteq staged'
           /\ \A k \in Keys : Stored(k) => candidates'[k] = candidates[k]
  <1>1. ASSUME NEW w \in Writers, InsertCandidate(w)
        PROVE  \A k \in Keys : Stored(k) => candidates'[k] = candidates[k]
    BY <1>1 DEF InsertCandidate, Stored, MemoryTypeInv, MemoryTypeOK
  <1>2. ASSUME candidates' # candidates PROVE \E w \in Writers : InsertCandidate(w)
    BY <1>2 DEF MemoryNext, MemoryNextNoCrash, WriterStep, Submit, FindCandidate,
         CandidateTaken, Decide, SkipDuplicate, StageMemory, WriteMemory, RollBack,
         WriterCrash, tables, memoryVars
  <1>3. items \subseteq items' /\ staged \subseteq staged'
    BY DEF MemoryNext, MemoryNextNoCrash, WriterStep, Submit, FindCandidate,
         InsertCandidate, CandidateTaken, Decide, SkipDuplicate, StageMemory, WriteMemory,
         RollBack, WriterCrash, tables, memoryVars
  <1>4. QED
    BY <1>1, <1>2, <1>3

LEMMA RememberedStays ==
    ASSUME UserTypeInv, ConflictDecisionNotBypassed, [UserNext]_userVars, NEW x, Remembered(x)
    PROVE  Remembered(x)'
  <1>1. MemoryTypeInv /\ [MemoryNext]_memoryVars
    BY MemoryStepsTaken DEF UserTypeInv, UserTypeOK, MemoryTypeInv
  <1>2. \A k \in items \cup staged : Stored(k) /\ k \in Keys
    BY <1>1 DEF ConflictDecisionNotBypassed, MemoryTypeInv, MemoryTypeOK
  <1>3. QED
    BY <1>1, <1>2, MemoryStays DEF Remembered

LEMMA TaskStays ==
    ASSUME UserTypeInv, [UserNext]_userVars, NEW c \in Tracks \X Texts,
           taskStatus[c] # "absent"
    PROVE  taskStatus'[c] # "absent"
  <1>1. ASSUME NEW r \in Runs, InsertTask(r) PROVE taskStatus'[c] # "absent"
    BY <1>1 DEF InsertTask, UserTypeInv, UserTypeOK
  <1>2. ASSUME taskStatus' # taskStatus PROVE \E r \in Runs : InsertTask(r)
    BY <1>2 DEF UserNext, RunStep, Receive, RunCrash, FindTurn, InsertTurn, MessageTaken,
         FindTrack, InsertTrack, InsertThread, ThreadTaken, GetTrack, AttachTurn, WriteTrack,
         WriteThread, Analyze, MemoryWorks, Route, FindTask, TaskTaken, WaitTrack, WaitThread,
         userVars, ingressVars
  <1>3. QED
    BY <1>1, <1>2

LEMMA ServedStays ==
    ASSUME UserTypeInv, ReferencesAgree, ConflictDecisionNotBypassed, OpenInv, ~overlapped,
           [UserNext]_userVars, NEW u \in Turns, turns[u] # NoRow, u \notin moved', Served(u)
    PROVE  Served(u)'
  <1>1. turns'[u].text = turns[u].text
    BY TurnsStay
  <1>2. Remembered(turns[u].text)'
    <2> DEFINE x == turns[u].text
    <2>1. Remembered(x)
      BY DEF Served, Remembered
    <2>2. PICK y : y = x
      OBVIOUS
    <2>3. Remembered(y)'
      <3>1. Remembered(y)
        BY <2>1, <2>2
      <3> HIDE DEF x
      <3>2. QED
        BY <3>1, RememberedStays
    <2>4. QED
      BY <1>1, <2>2, <2>3 DEF Remembered
  <1>3. ASSUME turns[u].text \in Delegating
        PROVE  \E t \in Tracks : /\ turns'[u].track = t
                                 /\ taskStatus'[<<t, turns[u].text>>] # "absent"
    <2>1. PICK t \in Tracks : turns[u].track = t /\ taskStatus[<<t, turns[u].text>>] # "absent"
      BY <1>3 DEF Served
    <2>2. turns'[u].track = t
      BY <2>1, TrackKept, NoRowAssumption
    <2>3. <<t, turns[u].text>> \in Tracks \X Texts
      BY <1>3, TextsAssumption
    <2>4. taskStatus'[<<t, turns[u].text>>] # "absent"
      BY <2>1, <2>3, TaskStays
    <2>5. QED
      BY <2>2, <2>4
  <1>4. QED
    BY <1>1, <1>2, <1>3 DEF Served, Remembered

\* Whatever the decision was, memory or review then says what the turn says.
LEMMA OutcomeReached ==
    ASSUME UserTypeInv, CandidateInv, DecisionRests, NEW r \in Runs, rpc[r] = "memory",
           SkipDuplicate(r) \/ StageMemory(r) \/ WriteMemory(r)
    PROVE  \E k \in items' \cup staged' : candidates'[k].dedupe_key = Normal[message[r].text]
  <1>1. wpc[r] = "apply" /\ candidates' = candidates
    BY DEF SkipDuplicate, StageMemory, WriteMemory, Applying
  <1>2. Key(r) \in Turns /\ candidates[Key(r)].dedupe_key = Normal[message[r].text]
    BY <1>1 DEF CandidateInv, RunRemembers, UserTypeInv, WriterHolds, RunHolds, HasTurn, Key, Runs
  <1>3. CASE SkipDuplicate(r)
    <2>1. /\ conflicts[r] # {}
          /\ conflicts[r] \subseteq ActiveMemory(Candidate(r).dedupe_key)
      BY <1>1, <1>3 DEF SkipDuplicate, Applying, DecisionRests, Runs
    <2>2. PICK k \in items : candidates[k].dedupe_key = Candidate(r).dedupe_key
      BY <2>1 DEF ActiveMemory
    <2>3. items' = items
      BY <1>3 DEF SkipDuplicate
    <2>4. QED
      BY <1>1, <1>2, <2>2, <2>3 DEF Candidate
  <1>4. CASE StageMemory(r) \/ WriteMemory(r)
    <2>1. Key(r) \in items' \cup staged'
      BY <1>4 DEF StageMemory, WriteMemory
    <2>2. QED
      BY <1>1, <1>2, <2>1
  <1>5. QED
    BY <1>3, <1>4

LEMMA NoRollBack ==
    ASSUME UserTypeInv, CandidateInv, ClearInv, ~overlapped, NEW r \in Runs, rpc[r] = "memory"
    PROVE  ~RollBack(r)
  <1>1. /\ created[r]
        /\ Key(r) = turn[r]
        /\ turn[r] \notin staged
        /\ submission[r].assignment # "dangling"
    BY DEF CandidateInv, RunRemembers, ClearInv, PastMemory, Waits, Key
  <1>2. Applying(r, "stage_memory") => StagingAllowed(r)
    BY <1>1 DEF Applying, StagingAllowed, Key, Runs, UserTypeInv, WriterHolds
  <1>3. QED
    BY <1>1, <1>2 DEF RollBack, ClearInv, WriteAllowed, KeyFree

\* A run that ends without dying leaves the turn it created served.
LEMMA EndServes ==
    ASSUME UserTypeInv, CandidateInv, RunClean, OpenInv, OwnInv, ClearInv, ServedInv,
           ~overlapped, ~died, NEW r \in Runs, RunStep(r), EndRun(r), created[r],
           turn[r] \notin moved
    PROVE  Served(turn[r])
  <1>1. /\ RowsTyped
        /\ RunsTyped
        /\ HasTurn(r)
        /\ turn[r] \in Turns
        /\ turns[turn[r]].text = message[r].text
        /\ message[r] \in Messages
    BY DEF UserTypeInv, UserTypeOK, RowsTyped, RunsTyped, CandidateInv, RunRemembers, RunHolds,
           HasTurn
  <1>2. rpc'[r] = "idle"
    BY <1>1 DEF EndRun, RunGoto, RunsTyped
  <1>3. Route(r) \/ TaskTaken(r) \/ WaitThread(r)
    <2>1. ~MessageTaken(r)
      BY <1>1 DEF MessageTaken, RunAt, HasTurn
    <2>2. ~ThreadTaken(r)
      BY DEF ThreadTaken, RunAt, OpenInv
    <2>3. ~MemoryWorks(r)
      BY <1>1, <1>2, NoRollBack DEF MemoryWorks, RunAt, RunGoto, RunsTyped
    <2>4. ~( FindTurn(r) \/ InsertTurn(r) \/ FindTrack(r) \/ InsertTrack(r) \/ InsertThread(r)
             \/ GetTrack(r) \/ AttachTurn(r) \/ WriteTrack(r) \/ WriteThread(r) \/ Analyze(r)
             \/ FindTask(r) \/ InsertTask(r) \/ WaitTrack(r) )
      BY <1>1, <1>2 DEF FindTurn, InsertTurn, FindTrack, InsertTrack, InsertThread, GetTrack,
           AttachTurn, WriteTrack, WriteThread, Analyze, FindTask, InsertTask, WaitTrack,
           RunGoto, RunsTyped
    <2>5. QED
      BY <2>1, <2>2, <2>3, <2>4 DEF RunStep
  <1>4. rpc[r] \in PastMemory
    BY <1>3 DEF Route, TaskTaken, WaitThread, RunAt, PastMemory, Waits
  <1>5. Remembered(turns[turn[r]].text)
    <2>1. Remembered(message[r].text)
      BY <1>4 DEF ServedInv
    <2>2. QED
      BY <1>1, <2>1 DEF Remembered
  <1>6. ASSUME message[r].text \in Delegating
        PROVE  /\ turns[turn[r]].track = track[r]
               /\ track[r] \in Tracks
               /\ taskStatus[<<track[r], message[r].text>>] # "absent"
    <2>1. ~Route(r)
      BY <1>1, <1>2, <1>6 DEF Route, CallsExecutor, RunGoto, RunsTyped
    <2>2. TaskTaken(r) \/ WaitThread(r)
      BY <1>3, <2>1
    <2>3. taskStatus[Capsule(r)] # "absent"
      BY <2>2 DEF TaskTaken, WaitThread, RunAt, ServedInv, Waits
    <2>4. turns[turn[r]].track = track[r] /\ track[r] \in Tracks
      BY <1>1, <1>4, <2>2 DEF OwnInv, TaskTaken, WaitThread, RunAt, PastAttach, Waits,
           UserTypeInv, RunHolds, HasTrack, HasTurn
    <2>5. QED
      BY <2>3, <2>4 DEF Capsule
  <1>7. QED
    BY <1>1, <1>5, <1>6 DEF Served, Remembered

LEMMA ServedNext ==
    UserTypeInv /\ UserTypeInv' /\ ReferencesAgree /\ CandidateInv /\ MemoryInv /\ RunClean
        /\ OneRunAtWork /\ OpenInv /\ OwnInv /\ ClearInv /\ ServedInv
        /\ [UserNext]_userVars => ServedInv'
  <1> SUFFICES ASSUME UserTypeInv, UserTypeInv', ReferencesAgree, CandidateInv, MemoryInv,
                      RunClean, OneRunAtWork, OpenInv, OwnInv, ClearInv, ServedInv,
                      [UserNext]_userVars, ~overlapped', ~died'
               PROVE  ServedInv'
    BY DEF ServedInv
  <1>1. CASE UNCHANGED userVars
    BY <1>1 DEF ServedInv, Served, Remembered, Capsule, userVars, ingressVars, dialogueVars,
         stateVars, historyVars, memoryVars, tables
  <1>2. ASSUME NEW r \in Runs, RunMoves(r) PROVE ServedInv'
    <2>1. ~overlapped /\ ~died /\ ~RunCrash(r) /\ moved \subseteq moved'
      <3>1. ~RunCrash(r)
        BY DEF RunCrash
      <3>2. died' = died
        BY <1>2, <3>1 DEF RunMoves, RunStep, Receive, FindTurn, InsertTurn, MessageTaken,
             FindTrack, InsertTrack, InsertThread, ThreadTaken, GetTrack, AttachTurn,
             WriteTrack, WriteThread, Analyze, MemoryWorks, Route, FindTask, InsertTask,
             TaskTaken, WaitTrack, WaitThread, historyVars
      <3>3. QED
        BY <3>1, <3>2, NeverBefore, MovedStays
    <2>2. \A q \in Runs : q # r => rpc'[q] = "idle" /\ ~created[q] /\ ~created'[q]
      BY <1>2, Alone, OthersStay DEF RunClean, HasTurn
    <2>3. /\ RowsTyped /\ RunsTyped /\ RunHolds
          /\ ConflictDecisionNotBypassed /\ DecisionRests
      BY DEF UserTypeInv, UserTypeOK, RowsTyped, RunsTyped, MemoryInv
    <2>4. created[r] => \/ EndRun(r)
                        \/ UNCHANGED <<turn, created, message>>
      BY <1>2, <2>1 DEF RunMoves, RunStep, Receive, FindTurn, InsertTurn, MessageTaken,
           FindTrack, InsertTrack, InsertThread, ThreadTaken, GetTrack, AttachTurn,
           WriteTrack, WriteThread, Analyze, MemoryWorks, Route, FindTask, InsertTask,
           TaskTaken, WaitTrack, WaitThread, stateVars, RunClean, HasTurn, RunAt
    <2>5. ASSUME NEW u \in Turns, u \notin moved', turns'[u] # NoRow,
                 \A q \in Runs : turn'[q] = u => ~created'[q]
          PROVE  Served(u)'
      <3>1. turns[u] # NoRow
        <4>1. ASSUME NEW q \in Runs, InsertTurn(q), turns[u] = NoRow
              PROVE  turn'[q] = u /\ created'[q]
          <5>1. PICK v \in Turns : /\ \E row : turns' = [turns EXCEPT ![v] = row]
                                   /\ turn' = [turn EXCEPT ![q] = v]
            BY <4>1 DEF InsertTurn
          <5>2. v = u
            BY <2>3, <2>5, <4>1, <5>1 DEF RowsTyped
          <5>3. QED
            BY <2>3, <4>1, <5>1, <5>2 DEF InsertTurn, RunsTyped
        <4>2. ASSUME NEW q \in Runs, AttachTurn(q), turns[u] = NoRow PROVE FALSE
          <5>1. PICK row : turns' = [turns EXCEPT ![turn[q]] = row]
            BY <4>2, AttachRows
          <5>2. turns[turn[q]] # NoRow /\ turn[q] \in Turns
            BY <2>3, <4>2 DEF AttachTurn, RunAt, RunHolds, HasTurn
          <5>3. QED
            BY <2>3, <2>5, <4>2, <5>1, <5>2 DEF RowsTyped
        <4>3. ASSUME turns' # turns PROVE InsertTurn(r) \/ AttachTurn(r)
          BY <1>2, <4>3 DEF RunMoves, RunStep, Receive, RunCrash, FindTurn, MessageTaken,
               FindTrack, InsertTrack, InsertThread, ThreadTaken, GetTrack, WriteTrack,
               WriteThread, Analyze, MemoryWorks, Route, FindTask, InsertTask, TaskTaken,
               WaitTrack, WaitThread, dialogueVars
        <4>4. QED
          BY <2>5, <4>1, <4>2, <4>3
      <3>2. Served(u)
        <4>1. CASE \A q \in Runs : turn[q] = u => ~created[q]
          BY <2>1, <2>5, <3>1, <4>1 DEF ServedInv
        <4>2. CASE \E q \in Runs : turn[q] = u /\ created[q]
          <5>1. turn[r] = u /\ created[r]
            BY <2>2, <4>2
          <5>2. EndRun(r)
            BY <2>4, <2>5, <5>1
          <5>3. RunStep(r)
            <6>1. ASSUME NEW m \in Messages, Receive(r, m) PROVE FALSE
              BY <5>1, <6>1 DEF Receive, RunAt, RunClean, HasTurn
            <6>2. QED
              BY <1>2, <2>1, <6>1 DEF RunMoves
          <5>4. turn[r] \notin moved
            BY <2>1, <2>5, <5>1
          <5>5. Served(turn[r])
            BY <2>1, <5>1, <5>2, <5>3, <5>4, EndServes
          <5>6. QED
            BY <5>1, <5>5
        <4>3. QED
          BY <4>1, <4>2
      <3>3. QED
        BY <2>1, <2>3, <2>5, <3>1, <3>2, ServedStays
    <2>6. ASSUME created'[r]
          PROVE  /\ rpc'[r] \in PastMemory => Remembered(message[r].text)'
                 /\ rpc'[r] \in Waits => taskStatus'[Capsule(r)'] # "absent"
      <3>1. ~EndRun(r)
        BY <2>3, <2>6 DEF EndRun, RunsTyped
      <3>2. CASE InsertTurn(r)
        BY <2>3, <3>2 DEF InsertTurn, RunGoto, RunsTyped, PastMemory, Waits
      <3>3. CASE ~InsertTurn(r)
        <4>1. created[r] /\ UNCHANGED <<turn, message>>
          <5>1. created[r]
            BY <1>2, <2>1, <2>6, <3>1, <3>3
               DEF RunMoves, RunStep, Receive, FindTurn, MessageTaken, FindTrack,
                   InsertTrack, InsertThread, ThreadTaken, GetTrack, AttachTurn, WriteTrack,
                   WriteThread, Analyze, MemoryWorks, Route, FindTask, InsertTask, TaskTaken,
                   WaitTrack, WaitThread, stateVars
          <5>2. QED
            BY <2>4, <3>1, <5>1
        <4>2. ASSUME rpc'[r] \in PastMemory PROVE Remembered(message[r].text)'
          <5>1. CASE rpc[r] \in PastMemory
            <6> DEFINE x == message[r].text
            <6>1. Remembered(x)
              BY <2>1, <4>1, <5>1 DEF ServedInv
            <6>2. PICK y : y = x
              OBVIOUS
            <6>3. Remembered(y)'
              <7>1. Remembered(y)
                BY <6>1, <6>2
              <7> HIDE DEF x
              <7>2. QED
                BY <2>3, <7>1, RememberedStays
            <6>4. QED
              BY <4>1, <6>2, <6>3 DEF Remembered
          <5>2. CASE rpc[r] \notin PastMemory
            <6>1. Analyze(r) \/ MemoryWorks(r)
              BY <1>2, <2>1, <2>3, <3>1, <3>3, <4>2, <5>2
                 DEF RunMoves, RunStep, Receive, FindTurn, MessageTaken, FindTrack,
                     InsertTrack, InsertThread, ThreadTaken, GetTrack, AttachTurn, WriteTrack,
                     WriteThread, Route, FindTask, InsertTask, TaskTaken, WaitTrack,
                     WaitThread, RunAt, RunGoto, RunsTyped, PastMemory, Waits
            <6>2. CASE Analyze(r)
              <7>1. ~WritesMemory(r)
                BY <2>3, <4>2, <6>2 DEF Analyze, RunGoto, RunsTyped, PastMemory, Waits
              <7>2. message'[r].text \in Blank
                BY <4>1, <7>1 DEF WritesMemory
              <7>3. QED
                BY <7>2 DEF Remembered
            <6>3. CASE MemoryWorks(r)
              <7>1. rpc[r] = "memory"
                BY <6>3 DEF MemoryWorks, RunAt
              <7>2. rpc'[r] # "memory"
                BY <4>2 DEF PastMemory, Waits
              <7>3. SkipDuplicate(r) \/ StageMemory(r) \/ WriteMemory(r)
                BY <3>1, <6>3, <7>1, <7>2 DEF MemoryWorks
              <7>4. QED
                BY <2>3, <4>1, <7>1, <7>3, OutcomeReached DEF Remembered
            <6>4. QED
              BY <6>1, <6>2, <6>3
          <5>3. QED
            BY <5>1, <5>2
        <4>3. ASSUME rpc'[r] \in Waits PROVE taskStatus'[Capsule(r)'] # "absent"
          <5>1. FindTask(r) \/ InsertTask(r) \/ WaitTrack(r)
            BY <1>2, <2>1, <2>3, <3>1, <3>3, <4>3
               DEF RunMoves, RunStep, Receive, FindTurn, MessageTaken, FindTrack, InsertTrack,
                   InsertThread, ThreadTaken, GetTrack, AttachTurn, WriteTrack, WriteThread,
                   Analyze, MemoryWorks, Route, TaskTaken, WaitThread, RunAt, RunGoto,
                   RunsTyped, Waits
          <5>2. /\ Capsule(r)' = Capsule(r)
                /\ HasTrack(r)
            BY <5>1 DEF FindTask, InsertTask, WaitTrack, stateVars, Capsule, RunAt, HasTrack,
                 HasTurn
          <5>3. Capsule(r) \in Tracks \X Texts
            BY <2>3, <5>2, MessageFields DEF RunHolds, Capsule, HasTrack, HasTurn
          <5>4. CASE InsertTask(r)
            BY <2>3, <5>2, <5>3, <5>4 DEF InsertTask, RowsTyped
          <5>5. CASE FindTask(r) \/ WaitTrack(r)
            <6>1. taskStatus[Capsule(r)] # "absent"
              <7>1. CASE FindTask(r)
                BY <2>3, <4>3, <7>1 DEF FindTask, RunGoto, RunsTyped, Waits
              <7>2. CASE WaitTrack(r)
                BY <2>1, <4>1, <7>2 DEF WaitTrack, RunAt, ServedInv, Waits
              <7>3. QED
                BY <5>5, <7>1, <7>2
            <6>2. QED
              BY <5>2, <5>3, <6>1, TaskStays
          <5>6. QED
            BY <5>1, <5>4, <5>5
        <4>4. QED
          BY <4>2, <4>3
      <3>4. QED
        BY <3>2, <3>3
    <2>7. QED
      BY <2>2, <2>5, <2>6 DEF ServedInv
  <1>3. QED
    BY <1>1, <1>2 DEF UserNext, RunMoves

-----------------------------------------------------------------------------
SerialInv ==
    /\ RunClean
    /\ OneRunAtWork
    /\ OpenInv
    /\ StatusInv
    /\ OwnInv
    /\ ClearInv
    /\ ServedInv

LEMMA SerialInit == UserInit => SerialInv
  <1> SUFFICES ASSUME UserInit PROVE SerialInv
    OBVIOUS
  <1>1. /\ \A r \in Runs : /\ rpc[r] = "idle"
                           /\ turn[r] = NoRow
                           /\ created[r] = FALSE
                           /\ wpc[r] = "idle"
        /\ \A u \in Turns : turns[u] = NoRow
        /\ \A t \in Tracks : tracks[t] = NoRow
        /\ \A h \in Threads : threads[h] = NoRow
        /\ \A t \in Tracks, x \in Texts : taskStatus[<<t, x>>] = "absent"
    BY DEF UserInit, MemoryInit, Runs
  <1>2. QED
    BY <1>1 DEF SerialInv, RunClean, OneRunAtWork, OpenInv, StatusInv, OwnInv, ClearInv,
         ServedInv, Applying, PastAttach, Waits

LEMMA SerialAlways == UserSpec => []SerialInv
  <1>1. UserTypeInv /\ UserTypeInv' /\ ReferencesAgree /\ CandidateInv /\ MemoryInv
            /\ SerialInv /\ [UserNext]_userVars => SerialInv'
    <2> SUFFICES ASSUME UserTypeInv, UserTypeInv', ReferencesAgree, CandidateInv, MemoryInv,
                        SerialInv, [UserNext]_userVars
                 PROVE  SerialInv'
      OBVIOUS
    <2>1. RunClean' /\ OneRunAtWork'
      BY CleanNext, AtWorkNext DEF SerialInv
    <2>2. OpenInv' /\ StatusInv' /\ OwnInv'
      BY OpenNext, StatusNext, OwnNext DEF SerialInv
    <2>3. ClearInv'
      BY <2>1, ClearNext DEF SerialInv, MemoryInv
    <2>4. ServedInv'
      BY ServedNext DEF SerialInv
    <2>5. QED
      BY <2>1, <2>2, <2>3, <2>4 DEF SerialInv
  <1>2. QED
    BY <1>1, SerialInit, UserTypeAlways, ReferencesNeverCross, CandidateAlways,
       PipelineUsed, MemoryInvAlways, PTL DEF UserSpec

(* While runs worked one at a time, a thread has one track, whichever of   *)
(* the runs died, and between which statements.                            *)
THEOREM OneTrack == UserSpec => []OneTrackPerThread
  <1>1. SerialInv => OneTrackPerThread
    <2> SUFFICES ASSUME SerialInv, ~overlapped, NEW h \in Threads
                 PROVE  Cardinality(ThreadTracks(h)) <= 1
      BY DEF OneTrackPerThread
    <2>1. \A s, t \in ThreadTracks(h) : s = t
      BY DEF SerialInv, OpenInv, ThreadTracks
    <2>2. CASE ThreadTracks(h) = {}
      BY <2>2, FS_EmptySet
    <2>3. ASSUME NEW t \in ThreadTracks(h) PROVE Cardinality(ThreadTracks(h)) <= 1
      <3>1. ThreadTracks(h) = {t}
        BY <2>1
      <3>2. Cardinality({t}) = 1
        BY FS_Singleton
      <3>3. QED
        BY <3>1, <3>2
    <2>4. QED
      BY <2>2, <2>3
  <1>2. QED
    BY <1>1, SerialAlways, PTL

(* While runs worked one at a time, a track refers to no turn of another,  *)
(* by its last turn or by its tasks, but for a turn that a message sent    *)
(* again took to another thread.                                           *)
THEOREM OwnTurns == UserSpec => []TracksOwnTheirTurns
  <1>1. UserTypeInv /\ SerialInv => TracksOwnTheirTurns
    BY DEF SerialInv, OwnInv, TracksOwnTheirTurns
  <1>2. QED
    BY <1>1, SerialAlways, UserTypeAlways, PTL

(* Between runs that worked one at a time and did not die, both tables     *)
(* give a track the same status, however the UPDATEs came to be written.   *)
THEOREM StatusAgrees == UserSpec => []StatusesAgree
  <1>1. SerialInv => StatusesAgree
    BY DEF SerialInv, StatusInv, StatusesAgree, Idle, RunAt
  <1>2. QED
    BY <1>1, SerialAlways, PTL

(* When runs worked one at a time and did not die, no turn is left with    *)
(* less than its text asks for.                                            *)
THEOREM TurnsServed == UserSpec => []EveryTurnServed
  <1>1. SerialInv => EveryTurnServed
    BY DEF SerialInv, ServedInv, EveryTurnServed
  <1>2. QED
    BY <1>1, SerialAlways, PTL
=============================================================================
