----------------------- MODULE CallbackHistoryProofs -----------------------
(***************************************************************************)
(* What MCCallbackHistory promises of a service whose handlers run one at  *)
(* a time, for any set of handlers, events, capsules and callbacks.        *)
(***************************************************************************)
EXTENDS MCCallbackHistory, ExecutorCallbackProofs

\* The history variables watch the service and never steer it.
LEMMA HistoryImplements == HistorySpec => Spec
  <1>1. HistoryInit => Init
    BY DEF HistoryInit
  <1>2. [HistoryNext]_<<vars, historyVars>> => [Next]_vars
    BY DEF HistoryNext, Next
  <1>3. QED
    BY <1>1, <1>2, PTL DEF HistorySpec, Spec

LEMMA HistoryHandling == HistorySpec => [](TypeInv /\ HandlingInv)
  BY HistoryImplements, HandlingAlways, PTL

\* Handlers that hold a decision that the event is not stale.
HoldsFresh(w) ==
    \/ pc[w] = "persist" /\ ~staleDecision[w]
    \/ pc[w] \in {"validate", "read_task", "write_task"}

\* The final events of a capsule whose update of the task row is done.
Written(k) ==
    {e \in Events : /\ e \in applied \/ \E w \in Workers : Processing(w, e) /\ pc[w] = "mark"
                    /\ persisted[e].capsule_id = k
                    /\ persisted[e].is_final}

OneHandler == \A v, w \in Workers : pc[v] # "idle" /\ pc[w] # "idle" => v = w

\* Nobody else writes between a handler's reads and its update, so what it
\* decided and what it read still hold, and no update is lost.
AloneInv ==
    ~overlapped =>
        /\ OneHandler
        /\ \A w \in Workers : HoldsFresh(w) => ~IsStale(request[w])
        /\ \A w \in Workers : pc[w] = "write_task" =>
              readAttempts[w] = attemptCount[request[w].capsule_id]
        /\ \A k \in Capsules : Cardinality(Written(k)) <= attemptCount[k]

-----------------------------------------------------------------------------
\* The handler of a step and its request.
LEMMA AtWork ==
    ASSUME TypeInv, NEW w \in Workers, pc[w] # "idle"
    PROVE  /\ request[w] \in Callbacks
           /\ request[w].event_id \in Events
           /\ request[w].capsule_id \in Capsules
           /\ InGraph(w) => Event(w) = request[w]
  BY CallbackFields DEF TypeInv, RequestHeld, Event

\* Only the update of the task row ends the freshness of a decision, and it
\* is a handler's own while no other is at work.
LEMMA FreshNext ==
    ASSUME TypeInv, TypeInv', HandlingInv, OneHandler, [Next]_vars,
           \A w \in Workers : HoldsFresh(w) => ~IsStale(request[w])
    PROVE  \A w \in Workers : HoldsFresh(w)' => ~IsStale(request[w])'
  <1> DEFINE Goal == \A w \in Workers : HoldsFresh(w)' => ~IsStale(request[w])'
  <1> USE CallbackFields
      DEF HoldsFresh, IsStale, TypeInv, TypeOK, RequestHeld, FINAL_TASK_STATUSES,
          At, Goto, Stop, Fail, Return, taskVars, eventVars, localVars
  <1>1. ASSUME NEW k \in Capsules, CreateTask(k) PROVE Goal
    BY <1>1 DEF CreateTask
  <1>2. ASSUME NEW w \in Workers, NEW callback \in Callbacks, Deliver(w, callback)
        PROVE  Goal
    BY <1>2 DEF Deliver
  <1>3. ASSUME NEW w \in Workers, HandlerStep(w) PROVE Goal
    <2>1. CASE AnswerDuplicate(w) \/ FindNothing(w) \/ UnknownCapsule(w) \/ InsertRefused(w)
      BY <2>1 DEF AnswerDuplicate, FindNothing, UnknownCapsule, InsertRefused
    <2>2. CASE DecideStale(w)
      BY <2>2 DEF DecideStale
    <2>3. CASE PersistStale(w) \/ PersistFresh(w)
      BY <2>3 DEF PersistStale, PersistFresh, InsertEvent
    <2>4. CASE ValidateExecutorEvent(w) \/ ReadTask(w)
      BY <2>4 DEF ValidateExecutorEvent, ReadTask
    <2>5. CASE WriteTask(w)
      BY <2>5 DEF WriteTask, OneHandler
    <2>6. CASE MarkApplied(w)
      BY <2>6 DEF MarkApplied
    <2>7. QED
      BY <1>3, <2>1, <2>2, <2>3, <2>4, <2>5, <2>6 DEF HandlerStep
  <1>4. ASSUME NEW w \in Workers, Crash(w) PROVE Goal
    BY <1>4 DEF Crash
  <1>5. CASE UNCHANGED vars
    BY <1>5 DEF vars
  <1>6. QED
    BY <1>1, <1>2, <1>3, <1>4, <1>5 DEF Next, NextNoCrash, Environment

\* So is the count it read.
LEMMA ReadNext ==
    ASSUME TypeInv, TypeInv', HandlingInv, OneHandler, [Next]_vars,
           \A w \in Workers : pc[w] = "write_task" =>
              readAttempts[w] = attemptCount[request[w].capsule_id]
    PROVE  \A w \in Workers : pc'[w] = "write_task" =>
              readAttempts'[w] = attemptCount'[request'[w].capsule_id]
  <1> DEFINE Goal == \A w \in Workers : pc'[w] = "write_task" =>
                        readAttempts'[w] = attemptCount'[request'[w].capsule_id]
  <1> USE DEF TypeInv, TypeOK, RequestHeld, InGraph, At, Goto, Event, Stop, Fail, Return,
              taskVars, eventVars, localVars
  <1>1. ASSUME NEW k \in Capsules, CreateTask(k) PROVE Goal
    BY <1>1 DEF CreateTask
  <1>2. ASSUME NEW w \in Workers, NEW callback \in Callbacks, Deliver(w, callback)
        PROVE  Goal
    BY <1>2 DEF Deliver
  <1>3. ASSUME NEW w \in Workers, HandlerStep(w) PROVE Goal
    <2>1. CASE AnswerDuplicate(w) \/ FindNothing(w) \/ UnknownCapsule(w) \/ InsertRefused(w)
      BY <2>1 DEF AnswerDuplicate, FindNothing, UnknownCapsule, InsertRefused
    <2>2. CASE DecideStale(w) \/ ValidateExecutorEvent(w)
      BY <2>2 DEF DecideStale, ValidateExecutorEvent
    <2>3. CASE PersistStale(w) \/ PersistFresh(w)
      BY <2>3 DEF PersistStale, PersistFresh, InsertEvent
    <2>4. CASE ReadTask(w)
      BY <2>4 DEF ReadTask
    <2>5. CASE WriteTask(w)
      BY <2>5 DEF WriteTask, OneHandler
    <2>6. CASE MarkApplied(w)
      BY <2>6 DEF MarkApplied
    <2>7. QED
      BY <1>3, <2>1, <2>2, <2>3, <2>4, <2>5, <2>6 DEF HandlerStep
  <1>4. ASSUME NEW w \in Workers, Crash(w) PROVE Goal
    BY <1>4 DEF Crash
  <1>5. CASE UNCHANGED vars
    BY <1>5 DEF vars
  <1>6. QED
    BY <1>1, <1>2, <1>3, <1>4, <1>5 DEF Next, NextNoCrash, Environment

-----------------------------------------------------------------------------
LEMMA WrittenFinite ==
    ASSUME NEW k
    PROVE  IsFiniteSet(Written(k)) /\ Cardinality(Written(k)) \in Nat
  <1>1. Written(k) \subseteq Events
    BY DEF Written
  <1>2. QED
    BY <1>1, EventsAssumption, FS_Subset, FS_CardinalityType

\* The update adds the event of its handler to those written for its capsule,
\* and no other step adds any: the mark of an event only follows its update.
LEMMA WrittenNext ==
    ASSUME TypeInv, TypeInv', HandlingInv, [Next]_vars, NEW k \in Capsules
    PROVE  \/ /\ Written(k)' \subseteq Written(k)
              /\ ~ \E w \in Workers : WriteTask(w) /\ request[w].capsule_id = k
           \/ \E w \in Workers : /\ WriteTask(w)
                                  /\ request[w].capsule_id = k
                                  /\ Written(k)' \subseteq Written(k) \cup {request[w].event_id}
  <1> USE DEF Written, Processing, Exists, TypeInv, TypeOK, RequestHeld, InGraph,
              HandlingInv, RowsKeyed, HandlerKnows,
              At, Goto, Event, Stop, Fail, Return, taskVars, eventVars, localVars
  <1>1. ASSUME NEW j \in Capsules, CreateTask(j) PROVE Written(k)' \subseteq Written(k)
    BY <1>1 DEF CreateTask
  <1>2. ASSUME NEW w \in Workers, NEW callback \in Callbacks, Deliver(w, callback)
        PROVE  Written(k)' \subseteq Written(k)
    BY <1>2 DEF Deliver
  <1>3. ASSUME NEW w \in Workers, HandlerStep(w), ~WriteTask(w)
        PROVE  Written(k)' \subseteq Written(k)
    <2>1. CASE AnswerDuplicate(w) \/ FindNothing(w) \/ UnknownCapsule(w) \/ InsertRefused(w)
      BY <2>1 DEF AnswerDuplicate, FindNothing, UnknownCapsule, InsertRefused
    <2>2. CASE DecideStale(w)
      BY <2>2 DEF DecideStale
    <2>3. CASE PersistStale(w) \/ PersistFresh(w)
      BY <2>3, CallbackFields DEF PersistStale, PersistFresh, InsertEvent, InsertAllowed
    <2>4. CASE ValidateExecutorEvent(w) \/ ReadTask(w)
      BY <2>4, CallbackFields DEF ValidateExecutorEvent, ReadTask
    <2>5. CASE MarkApplied(w)
      BY <2>5, CallbackFields DEF MarkApplied
    <2>6. QED
      BY <1>3, <2>1, <2>2, <2>3, <2>4, <2>5 DEF HandlerStep
  <1>4. ASSUME NEW w \in Workers, Crash(w) PROVE Written(k)' \subseteq Written(k)
    BY <1>4 DEF Crash
  <1>5. CASE UNCHANGED vars
    BY <1>5 DEF vars
  <1>6. ASSUME NEW w \in Workers, WriteTask(w)
        PROVE  /\ request[w].capsule_id = k =>
                     Written(k)' \subseteq Written(k) \cup {request[w].event_id}
               /\ request[w].capsule_id # k => Written(k)' \subseteq Written(k)
    BY <1>6, CallbackFields DEF WriteTask
  <1>7. QED
    <2> HIDE DEF Written, Processing, Exists, TypeInv, TypeOK, RequestHeld, InGraph,
                 HandlingInv, RowsKeyed, HandlerKnows,
                 At, Goto, Event, Stop, Fail, Return, taskVars, eventVars, localVars
    <2>1. CASE \E w \in Workers : WriteTask(w)
      BY <1>6, <2>1
    <2>2. CASE ~ \E w \in Workers : WriteTask(w)
      <3>1. Written(k)' \subseteq Written(k)
        BY <1>1, <1>2, <1>3, <1>4, <1>5, <2>2 DEF Next, NextNoCrash, Environment
      <3>2. QED
        BY <2>2, <3>1
    <2>3. QED
      BY <2>1, <2>2

\* The row never loses a count, and an update made on a count that still
\* stands adds one.
LEMMA CountsGrow ==
    ASSUME TypeInv, HandlingInv, OneHandler, [Next]_vars, NEW k \in Capsules,
           \A w \in Workers : pc[w] = "write_task" =>
              readAttempts[w] = attemptCount[request[w].capsule_id]
    PROVE  /\ attemptCount'[k] >= attemptCount[k]
           /\ \A w \in Workers : WriteTask(w) /\ request[w].capsule_id = k =>
                 attemptCount'[k] = attemptCount[k] + 1
  <1>1. ASSUME NEW w \in Workers, WriteTask(w)
        PROVE  attemptCount'[k] = IF request[w].capsule_id = k
                                  THEN attemptCount[k] + 1 ELSE attemptCount[k]
    BY <1>1, AtWork DEF WriteTask, At, InGraph, TypeInv, TypeOK
  <1>2. ASSUME attemptCount' = attemptCount, NEW w \in Workers, WriteTask(w)
        PROVE  request[w].capsule_id # k
    BY <1>1, <1>2 DEF TypeInv, TypeOK
  <1>3. attemptCount' = attemptCount \/ \E w \in Workers : WriteTask(w)
    BY DEF Next, NextNoCrash, Environment, HandlerStep, CreateTask, Deliver, AnswerDuplicate,
         FindNothing, DecideStale, UnknownCapsule, PersistStale, PersistFresh, InsertRefused,
         ValidateExecutorEvent, ReadTask, MarkApplied, Crash, vars, taskVars
  <1>4. attemptCount[k] \in Nat
    BY DEF TypeInv, TypeOK
  <1>5. QED
    BY <1>1, <1>2, <1>3, <1>4

LEMMA AloneInit == HistoryInit => AloneInv
  <1> SUFFICES ASSUME HistoryInit, NEW k \in Capsules
               PROVE  Cardinality(Written(k)) <= attemptCount[k]
    BY DEF HistoryInit, Init, AloneInv, OneHandler, HoldsFresh
  <1>1. Written(k) = {}
    BY DEF HistoryInit, Init, Written, Processing
  <1>2. QED
    BY <1>1, FS_EmptySet DEF HistoryInit, Init

LEMMA AloneNext ==
    TypeInv /\ TypeInv' /\ HandlingInv /\ AloneInv /\ [HistoryNext]_<<vars, historyVars>>
      => AloneInv'
  <1> SUFFICES ASSUME TypeInv, TypeInv', HandlingInv, AloneInv,
                      [HistoryNext]_<<vars, historyVars>>, ~overlapped'
               PROVE  /\ OneHandler'
                      /\ \A w \in Workers : HoldsFresh(w)' => ~IsStale(request[w])'
                      /\ \A w \in Workers : pc'[w] = "write_task" =>
                            readAttempts'[w] = attemptCount'[request'[w].capsule_id]
                      /\ \A k \in Capsules : Cardinality(Written(k)') <= attemptCount'[k]
    BY DEF AloneInv
  <1>1. [Next]_vars
    BY DEF HistoryNext, Next
  <1>2. ~overlapped
    BY DEF HistoryNext, NoteOverlap, historyVars
  <1>3. /\ OneHandler
        /\ \A w \in Workers : HoldsFresh(w) => ~IsStale(request[w])
        /\ \A w \in Workers : pc[w] = "write_task" =>
              readAttempts[w] = attemptCount[request[w].capsule_id]
        /\ \A k \in Capsules : Cardinality(Written(k)) <= attemptCount[k]
    BY <1>2 DEF AloneInv
  <1>4. OneHandler'
    <2>1. CASE HistoryNext
      BY <2>1 DEF HistoryNext, NoteOverlap, OneHandler
    <2>2. CASE UNCHANGED <<vars, historyVars>>
      BY <1>3, <2>2 DEF vars, OneHandler
    <2>3. QED
      BY <2>1, <2>2
  <1>5. \A w \in Workers : HoldsFresh(w)' => ~IsStale(request[w])'
    BY <1>1, <1>3, FreshNext
  <1>6. \A w \in Workers : pc'[w] = "write_task" =>
            readAttempts'[w] = attemptCount'[request'[w].capsule_id]
    BY <1>1, <1>3, ReadNext
  <1>7. ASSUME NEW k \in Capsules PROVE Cardinality(Written(k)') <= attemptCount'[k]
    <2>1. /\ attemptCount'[k] >= attemptCount[k]
          /\ \A w \in Workers : WriteTask(w) /\ request[w].capsule_id = k =>
                attemptCount'[k] = attemptCount[k] + 1
      BY <1>1, <1>3, CountsGrow
    <2>2. PICK n \in Nat : n = Cardinality(Written(k)) /\ n <= attemptCount[k]
      BY <1>3, WrittenFinite
    <2>3. attemptCount[k] \in Nat /\ attemptCount'[k] \in Nat
      BY DEF TypeInv, TypeOK
    <2>4. CASE Written(k)' \subseteq Written(k)
      <3>1. Cardinality(Written(k)') <= n /\ Cardinality(Written(k)') \in Nat
        BY <2>2, <2>4, WrittenFinite, FS_Subset, FS_CardinalityType
      <3>2. QED
        BY <2>1, <2>2, <2>3, <3>1
    <2>5. CASE \E w \in Workers : /\ WriteTask(w)
                                  /\ request[w].capsule_id = k
                                  /\ Written(k)' \subseteq Written(k) \cup {request[w].event_id}
      <3>1. PICK w \in Workers : /\ WriteTask(w)
                                 /\ request[w].capsule_id = k
                                 /\ Written(k)' \subseteq Written(k) \cup {request[w].event_id}
        BY <2>5
      <3>2. PICK e : e = request[w].event_id
        OBVIOUS
      <3>3. /\ IsFiniteSet(Written(k) \cup {e})
            /\ Cardinality(Written(k) \cup {e}) <= n + 1
            /\ Cardinality(Written(k) \cup {e}) \in Nat
        <4>1. IsFiniteSet(Written(k))
          BY WrittenFinite
        <4>2. /\ IsFiniteSet(Written(k) \cup {e})
              /\ Cardinality(Written(k) \cup {e}) = IF e \in Written(k) THEN n ELSE n + 1
          BY <2>2, <4>1, FS_AddElement
        <4>3. QED
          BY <4>2
      <3>4. Cardinality(Written(k)') <= Cardinality(Written(k) \cup {e})
            /\ Cardinality(Written(k)') \in Nat
        BY <3>1, <3>2, <3>3, FS_Subset, FS_CardinalityType
      <3>5. attemptCount'[k] = attemptCount[k] + 1
        BY <2>1, <3>1
      <3>6. QED
        BY <2>2, <2>3, <3>3, <3>4, <3>5
    <2>6. QED
      BY <1>1, <2>4, <2>5, WrittenNext
  <1>8. QED
    BY <1>4, <1>5, <1>6, <1>7

LEMMA AloneAlways == HistorySpec => [](TypeInv /\ HandlingInv /\ AloneInv)
  BY AloneInit, AloneNext, HistoryHandling, PTL DEF HistorySpec

(* While one handler runs at a time, dead ones included, the decision that *)
(* an event is not stale is still right when the task row is written.      *)
THEOREM DecisionStands == HistorySpec => []StaleNeverWrites
  <1>1. AloneInv => StaleNeverWrites
    BY DEF AloneInv, StaleNeverWrites, HoldsFresh, IsStale, At
  <1>2. QED
    BY <1>1, AloneAlways, PTL

(* And no update of it is lost: every final event that is marked applied   *)
(* has been counted.                                                       *)
THEOREM NoUpdateLost == HistorySpec => []AppliedFinalsCounted
  <1>1. TypeInv /\ AloneInv => AppliedFinalsCounted
    <2> SUFFICES ASSUME TypeInv, AloneInv, ~overlapped, NEW k \in Capsules
                 PROVE  Cardinality({e \in applied : /\ persisted[e].capsule_id = k
                                                     /\ persisted[e].is_final})
                          <= attemptCount[k]
      BY DEF AppliedFinalsCounted
    <2> DEFINE Counted == {e \in applied : /\ persisted[e].capsule_id = k
                                           /\ persisted[e].is_final}
    <2>1. Counted \subseteq Written(k)
      BY DEF Written, TypeInv, TypeOK
    <2>2. Cardinality(Counted) <= Cardinality(Written(k)) /\ Cardinality(Counted) \in Nat
      BY <2>1, WrittenFinite, FS_Subset, FS_CardinalityType
    <2>3. /\ Cardinality(Written(k)) <= attemptCount[k]
          /\ Cardinality(Written(k)) \in Nat
          /\ attemptCount[k] \in Nat
      BY WrittenFinite DEF AloneInv, TypeInv, TypeOK
    <2> HIDE DEF Counted
    <2>4. Cardinality(Counted) <= attemptCount[k]
      BY <2>2, <2>3
    <2>5. QED
      BY <2>4 DEF Counted
  <1>2. QED
    BY <1>1, AloneAlways, PTL
=============================================================================
