----------------------- MODULE ExecutorCallbackProofs -----------------------
(***************************************************************************)
(* What holds of ExecutorCallback for any set of handlers, events,         *)
(* capsules and callbacks.                                                 *)
(***************************************************************************)
EXTENDS ExecutorCallback, FiniteSetTheorems, TLAPS

InGraph(w) == pc[w] \in {"validate", "read_task", "write_task", "mark"}

\* A handler at work holds a request, and the row the graph loads again by
\* event_id is the request it was invoked with.
RequestHeld ==
    /\ \A w \in Workers : pc[w] # "idle" => request[w] \in Callbacks
    /\ \A w \in Workers : InGraph(w) => persisted[request[w].event_id] = request[w]

TypeInv == TypeOK /\ RequestHeld

LEMMA CallbackFields ==
    ASSUME NEW callback \in Callbacks
    PROVE  /\ callback # NoCallback
           /\ callback.event_id \in Events
           /\ callback.capsule_id \in Capsules
           /\ callback.is_final \in BOOLEAN
           /\ callback.attempt \in Int
  BY CallbacksAssumption DEF ExecutorCallback

LEMMA RepliesTyped ==
    ASSUME TypeOK,
           NEW w \in Workers, request[w].event_id \in Events,
           NEW status \in {"accepted", "duplicate_accepted", "accepted_stale"},
           NEW isApplied \in BOOLEAN, NEW isStale \in BOOLEAN,
           Return(w, status, isApplied, isStale)
    PROVE  replies' \subseteq Reply
  BY DEF TypeOK, Return, Reply

LEMMA TypeInvInit == Init => TypeInv
  BY DEF Init, TypeInv, TypeOK, RequestHeld, InGraph, FINAL_TASK_STATUSES

LEMMA TypeInvNext == TypeInv /\ [Next]_vars => TypeInv'
  <1> SUFFICES ASSUME TypeInv, [Next]_vars PROVE TypeInv'
    OBVIOUS
  <1> USE DEF TypeInv, TypeOK, RequestHeld, InGraph, FINAL_TASK_STATUSES, Reply,
              At, Goto, Exists, Event, Stop, Fail, Return,
              taskVars, eventVars, localVars
  <1>1. ASSUME NEW k \in Capsules, CreateTask(k) PROVE TypeInv'
    BY <1>1 DEF CreateTask
  <1>2. ASSUME NEW w \in Workers, NEW callback \in Callbacks, Deliver(w, callback)
        PROVE TypeInv'
    BY <1>2 DEF Deliver
  <1>3. ASSUME NEW w \in Workers, HandlerStep(w) PROVE TypeInv'
    <2>1. /\ pc[w] # "idle"
          /\ request[w] \in Callbacks
          /\ request[w] # NoCallback
          /\ request[w].event_id \in Events
          /\ request[w].capsule_id \in Capsules
      <3>1. pc[w] # "idle"
        BY <1>3 DEF HandlerStep, AnswerDuplicate, FindNothing, DecideStale,
              UnknownCapsule, PersistStale, PersistFresh, InsertEvent, InsertAllowed, InsertRefused,
              ValidateExecutorEvent, ReadTask, WriteTask, MarkApplied
      <3>2. QED
        BY <3>1, CallbackFields
    <2>2. CASE AnswerDuplicate(w)
      <3> DEFINE e == request[w].event_id
      <3>1. (e \in applied) \in BOOLEAN /\ (e \in stale) \in BOOLEAN
        OBVIOUS
      <3>2. replies' \subseteq Reply
        <4> HIDE DEF TypeOK, Return
        <4>1. TypeOK
          BY DEF TypeInv
        <4>2. QED
          BY <2>1, <2>2, <3>1, <4>1, RepliesTyped DEF AnswerDuplicate
      <3> HIDE DEF Reply
      <3>3. QED
        BY <2>1, <2>2, <3>2 DEF AnswerDuplicate
    <2>3. CASE FindNothing(w)
      BY <2>1, <2>3 DEF FindNothing
    <2>4. CASE DecideStale(w)
      <3>1. IsStale(request[w]) \in BOOLEAN
        BY DEF IsStale
      <3>2. QED
        BY <2>1, <2>4, <3>1 DEF DecideStale
    <2>5. CASE UnknownCapsule(w)
      BY <2>1, <2>5 DEF UnknownCapsule
    <2>6. CASE PersistStale(w)
      <3>1. replies' \subseteq Reply
        <4> HIDE DEF TypeOK, Return
        <4>1. TypeOK
          BY DEF TypeInv
        <4>2. QED
          BY <2>1, <2>6, <4>1, RepliesTyped DEF PersistStale
      <3> HIDE DEF Reply
      <3>2. QED
        BY <2>1, <2>6, <3>1, CallbackFields DEF PersistStale, InsertEvent, InsertAllowed
    <2>7. CASE PersistFresh(w)
      BY <2>1, <2>7, CallbackFields DEF PersistFresh, InsertEvent, InsertAllowed
    <2>8. CASE InsertRefused(w)
      BY <2>1, <2>8 DEF InsertRefused
    <2>9. CASE ValidateExecutorEvent(w)
      BY <2>1, <2>9 DEF ValidateExecutorEvent
    <2>10. CASE ReadTask(w)
      BY <2>1, <2>10 DEF ReadTask
    <2>11. CASE WriteTask(w)
      BY <2>1, <2>11 DEF WriteTask
    <2>12. CASE MarkApplied(w)
      <3>1. replies' \subseteq Reply
        <4> HIDE DEF TypeOK, Return
        <4>1. TypeOK
          BY DEF TypeInv
        <4>2. QED
          BY <2>1, <2>12, <4>1, RepliesTyped DEF MarkApplied
      <3> HIDE DEF Reply
      <3>2. QED
        BY <2>1, <2>12, <3>1 DEF MarkApplied
    <2>13. QED
      BY <1>3, <2>2, <2>3, <2>4, <2>5, <2>6, <2>7, <2>8, <2>9, <2>10, <2>11, <2>12
         DEF HandlerStep
  <1>4. ASSUME NEW w \in Workers, Crash(w) PROVE TypeInv'
    BY <1>4 DEF Crash
  <1>5. CASE UNCHANGED vars
    BY <1>5 DEF vars
  <1>6. QED
    BY <1>1, <1>2, <1>3, <1>4, <1>5 DEF Next, NextNoCrash, Environment

LEMMA TypeInvAlways == Spec => []TypeInv
  BY TypeInvInit, TypeInvNext, PTL DEF Spec

(* Every row and every answer keeps its type.  That an answer names an     *)
(* event, and the updated task a capsule, rests on RequestHeld.            *)
THEOREM TypeCorrect == Spec => []TypeOK
  <1>1. TypeInv => TypeOK
    BY DEF TypeInv
  <1>2. QED
    BY <1>1, TypeInvAlways, PTL

-----------------------------------------------------------------------------
Completed(k) == taskStatus[k] = "completed"

\* executor_events is keyed by event_id, and the flags are columns of a row.
RowsKeyed ==
    /\ \A e \in Events : Exists(e) => persisted[e].event_id = e
    /\ \A e \in applied \cup stale : Exists(e)

\* "failed" and "cancelled" are never stored.
OnlyCompletedIsFinal == \A k \in Capsules : taskStatus[k] \in {"absent", "queued", "completed"}

\* What a handler knows of its request where it stands.
HandlerKnows ==
    \A w \in Workers :
        LET k == request[w].capsule_id IN
        /\ pc[w] \in {"read_task", "write_task"} => request[w].is_final
        /\ pc[w] = "mark" /\ request[w].is_final => Completed(k)
        /\ pc[w] = "persist" /\ staleDecision[w] => Completed(k)

StaleSettled ==
    \A e \in stale : e \notin applied /\ e \in audited /\ Completed(persisted[e].capsule_id)

HandlingInv ==
    RowsKeyed /\ OnlyCompletedIsFinal /\ HandlerKnows /\ ProcessedOnce
    /\ StaleSettled /\ AppliedFinalCompleted

LEMMA HandlingInit == Init => HandlingInv
  BY DEF Init, HandlingInv, RowsKeyed, OnlyCompletedIsFinal, HandlerKnows, ProcessedOnce,
         Processing, StaleSettled, AppliedFinalCompleted, Exists

LEMMA HandlingNext == TypeInv /\ TypeInv' /\ HandlingInv /\ [Next]_vars => HandlingInv'
  <1> SUFFICES ASSUME TypeInv, TypeInv', HandlingInv, [Next]_vars PROVE HandlingInv'
    OBVIOUS
  <1> USE DEF HandlingInv, RowsKeyed, OnlyCompletedIsFinal, HandlerKnows, ProcessedOnce,
              Processing, StaleSettled, AppliedFinalCompleted, Completed,
              TypeInv, TypeOK, RequestHeld, InGraph,
              At, Goto, Exists, Event, Stop, Fail, Return,
              taskVars, eventVars, localVars
  <1>1. ASSUME NEW k \in Capsules, CreateTask(k) PROVE HandlingInv'
    BY <1>1, CallbackFields DEF CreateTask
  <1>2. ASSUME NEW w \in Workers, NEW callback \in Callbacks, Deliver(w, callback)
        PROVE HandlingInv'
    BY <1>2 DEF Deliver
  <1>3. ASSUME NEW w \in Workers, HandlerStep(w) PROVE HandlingInv'
    <2>1. CASE AnswerDuplicate(w)
      BY <2>1 DEF AnswerDuplicate
    <2>2. CASE FindNothing(w)
      BY <2>2 DEF FindNothing
    <2>3. CASE DecideStale(w)
      BY <2>3, CallbackFields DEF DecideStale, IsStale, FINAL_TASK_STATUSES
    <2>4. CASE UnknownCapsule(w)
      BY <2>4 DEF UnknownCapsule
    <2>5. CASE PersistStale(w)
      BY <2>5, CallbackFields DEF PersistStale, InsertEvent, InsertAllowed
    <2>6. CASE PersistFresh(w)
      BY <2>6, CallbackFields DEF PersistFresh, InsertEvent, InsertAllowed
    <2>7. CASE InsertRefused(w)
      BY <2>7 DEF InsertRefused
    <2>8. CASE ValidateExecutorEvent(w)
      BY <2>8 DEF ValidateExecutorEvent
    <2>9. CASE ReadTask(w)
      BY <2>9 DEF ReadTask
    <2>10. CASE WriteTask(w)
      BY <2>10, CallbackFields DEF WriteTask
    <2>11. CASE MarkApplied(w)
      BY <2>11, CallbackFields DEF MarkApplied
    <2>12. QED
      BY <1>3, <2>1, <2>2, <2>3, <2>4, <2>5, <2>6, <2>7, <2>8, <2>9, <2>10, <2>11
         DEF HandlerStep
  <1>4. ASSUME NEW w \in Workers, Crash(w) PROVE HandlingInv'
    BY <1>4 DEF Crash
  <1>5. CASE UNCHANGED vars
    BY <1>5 DEF vars
  <1>6. QED
    BY <1>1, <1>2, <1>3, <1>4, <1>5 DEF Next, NextNoCrash, Environment

LEMMA HandlingAlways == Spec => [](TypeInv /\ HandlingInv)
  BY HandlingInit, HandlingNext, TypeInvAlways, PTL DEF Spec

(* No event is ever handled by two handlers at once, nor again after it    *)
(* was marked: the primary key of executor_events is what guarantees it.   *)
THEOREM HandledOnce == Spec => []ProcessedOnce
  <1>1. HandlingInv => ProcessedOnce
    BY DEF HandlingInv
  <1>2. QED
    BY <1>1, HandlingAlways, PTL

(* A final event is marked applied only on a capsule it has completed.     *)
THEOREM AppliedAfterEffect == Spec => []AppliedFinalCompleted
  <1>1. HandlingInv => AppliedFinalCompleted
    BY DEF HandlingInv
  <1>2. QED
    BY <1>1, HandlingAlways, PTL

-----------------------------------------------------------------------------
\* An answer is about a stored event, whose `stale` column no later statement
\* sets, and once it says applied the event stays so.
RepliesInv ==
    /\ \A r \in replies : Exists(r.event_id)
    /\ RepliesTruthful

LEMMA RepliesInit == Init => RepliesInv
  BY DEF Init, RepliesInv, RepliesTruthful

\* The two facts a new answer needs, and that the older ones keep.
LEMMA AnswerKeeps ==
    ASSUME TypeInv, RepliesInv,
           NEW e \in Events, NEW status, NEW isApplied \in BOOLEAN, NEW isStale \in BOOLEAN,
           replies' = replies \cup {[event_id |-> e, status |-> status,
                                    applied |-> isApplied, stale |-> isStale]},
           persisted'[e] # NoCallback,
           isApplied => e \in applied',
           isStale <=> e \in stale',
           \A f \in Events : Exists(f) => /\ persisted'[f] # NoCallback
                                          /\ f \in applied => f \in applied'
                                          /\ f \in stale <=> f \in stale'
    PROVE  RepliesInv'
  <1> SUFFICES ASSUME NEW r \in replies'
               PROVE  /\ persisted'[r.event_id] # NoCallback
                      /\ r.applied => r.event_id \in applied'
                      /\ r.stale <=> r.event_id \in stale'
    BY DEF RepliesInv, RepliesTruthful, Exists
  <1>1. CASE r \in replies
    <2>1. r.event_id \in Events
      BY <1>1 DEF TypeInv, TypeOK, Reply
    <2>2. /\ Exists(r.event_id)
          /\ r.applied => r.event_id \in applied
          /\ r.stale <=> r.event_id \in stale
      BY <1>1 DEF RepliesInv, RepliesTruthful
    <2>3. QED
      BY <2>1, <2>2
  <1>2. CASE r = [event_id |-> e, status |-> status, applied |-> isApplied, stale |-> isStale]
    <2>1. r.event_id = e /\ r.applied = isApplied /\ r.stale = isStale
      BY <1>2
    <2>2. QED
      BY <2>1
  <1>3. QED
    BY <1>1, <1>2

LEMMA RepliesNext ==
    TypeInv /\ TypeInv' /\ HandlingInv /\ HandlingInv' /\ RepliesInv /\ [Next]_vars
      => RepliesInv'
  <1> SUFFICES ASSUME TypeInv, TypeInv', HandlingInv, HandlingInv', RepliesInv, [Next]_vars
               PROVE  RepliesInv'
    OBVIOUS
  <1> USE DEF RepliesInv, RepliesTruthful, Exists
  \* A step that answers nothing leaves the marks of stored events alone.
  <1>1. ASSUME UNCHANGED <<persisted, applied, stale, replies>> PROVE RepliesInv'
    BY <1>1
  <1>2. ASSUME NEW k \in Capsules, CreateTask(k) PROVE RepliesInv'
    BY <1>1, <1>2 DEF CreateTask, eventVars
  <1>3. ASSUME NEW w \in Workers, NEW callback \in Callbacks, Deliver(w, callback)
        PROVE  RepliesInv'
    BY <1>1, <1>3 DEF Deliver, eventVars
  <1>4. ASSUME NEW w \in Workers,
               FindNothing(w) \/ DecideStale(w) \/ UnknownCapsule(w) \/ InsertRefused(w)
               \/ ValidateExecutorEvent(w) \/ ReadTask(w) \/ WriteTask(w) \/ Crash(w)
        PROVE  RepliesInv'
    BY <1>1, <1>4 DEF FindNothing, DecideStale, UnknownCapsule, InsertRefused,
         ValidateExecutorEvent, ReadTask, WriteTask, Crash, Fail, eventVars
  <1>5. ASSUME NEW w \in Workers, AnswerDuplicate(w) PROVE RepliesInv'
    <2> DEFINE e == request[w].event_id
    <2>1. /\ persisted[e] # NoCallback
          /\ UNCHANGED <<persisted, applied, stale>>
          /\ e \in Events
      BY <1>5, CallbackFields
         DEF AnswerDuplicate, eventVars, At, TypeInv, TypeOK, RequestHeld
    <2>2. replies' = replies \cup {[event_id |-> e, status |-> "duplicate_accepted",
                                    applied |-> e \in applied, stale |-> e \in stale]}
      BY <1>5, Zenon DEF AnswerDuplicate, Return
    <2>3. (e \in applied) \in BOOLEAN /\ (e \in stale) \in BOOLEAN
      OBVIOUS
    <2> HIDE DEF e, RepliesInv
    <2>4. QED
      BY <2>1, <2>2, <2>3, AnswerKeeps
  <1>6. ASSUME NEW w \in Workers, PersistStale(w) PROVE RepliesInv'
    <2> DEFINE e == request[w].event_id
    <2>1. /\ persisted[e] = NoCallback
          /\ persisted' = [persisted EXCEPT ![e] = request[w]]
          /\ stale' = stale \cup {e}
          /\ applied' = applied
          /\ replies' = replies \cup {[event_id |-> e, status |-> "accepted_stale",
                                        applied |-> FALSE, stale |-> TRUE]}
          /\ request[w] \in Callbacks
      BY <1>6 DEF PersistStale, InsertEvent, InsertAllowed, At, TypeInv, RequestHeld, Return
    <2>2. e \in Events /\ persisted'[e] # NoCallback
      BY <2>1, CallbackFields DEF TypeInv, TypeOK
    <2>3. \A f \in Events : Exists(f) => /\ persisted'[f] # NoCallback
                                         /\ f \in applied => f \in applied'
                                         /\ f \in stale <=> f \in stale'
      BY <2>1 DEF TypeInv, TypeOK
    <2>4. e \in stale'
      BY <2>1
    <2> HIDE DEF e, RepliesInv
    <2>5. QED
      BY <2>1, <2>2, <2>3, <2>4, AnswerKeeps
  <1>7. ASSUME NEW w \in Workers, PersistFresh(w) PROVE RepliesInv'
    BY <1>7 DEF PersistFresh, InsertEvent, InsertAllowed, TypeInv, TypeOK, Reply
  <1>8. ASSUME NEW w \in Workers, MarkApplied(w) PROVE RepliesInv'
    <2> DEFINE e == request[w].event_id
    <2>1. /\ request[w] \in Callbacks
          /\ persisted[e] = request[w]
          /\ pc[w] = "mark"
          /\ applied' = applied \cup {e}
          /\ replies' = replies \cup {[event_id |-> e, status |-> "accepted",
                                        applied |-> TRUE, stale |-> FALSE]}
          /\ UNCHANGED <<persisted, stale>>
      BY <1>8 DEF MarkApplied, At, TypeInv, RequestHeld, InGraph, Return
    <2>2. e \in Events /\ persisted[e] # NoCallback /\ e \notin stale
      BY <2>1, CallbackFields DEF HandlingInv, ProcessedOnce, Processing
    <2> HIDE DEF e, RepliesInv
    <2>3. QED
      BY <2>1, <2>2, AnswerKeeps
  <1>9. CASE UNCHANGED vars
    BY <1>1, <1>9 DEF vars, eventVars
  <1>10. QED
    BY <1>2, <1>3, <1>4, <1>5, <1>6, <1>7, <1>8, <1>9
       DEF Next, NextNoCrash, Environment, HandlerStep

(* What the service told an executor about an event is never taken back,   *)
(* however many handlers answer for it.                                    *)
THEOREM RepliesStayTrue == Spec => []RepliesTruthful
  <1>1. RepliesInv => RepliesTruthful
    BY DEF RepliesInv
  <1>2. QED
    BY <1>1, RepliesInit, RepliesNext, HandlingAlways, PTL DEF Spec

(* A capsule is completed only by the handler of a final event that is     *)
(* stored for it, not stale and not yet marked.                            *)
THEOREM CompletionsJustified == Spec => CompletionJustified
  <1> DEFINE Allowed(k) ==
        \/ taskStatus'[k] = taskStatus[k] /\ attemptCount'[k] = attemptCount[k]
        \/ taskStatus[k] = "absent" /\ taskStatus'[k] = "queued"
        \/ /\ taskStatus'[k] = "completed"
           /\ \E e \in Events : /\ Fresh(e)
                                /\ e \notin applied
                                /\ persisted[e].capsule_id = k
                                /\ persisted[e].is_final
  <1>1. TypeInv /\ HandlingInv /\ [Next]_vars => [\A k \in Capsules : Allowed(k)]_vars
    <2> SUFFICES ASSUME TypeInv, HandlingInv, Next, NEW k \in Capsules PROVE Allowed(k)
      OBVIOUS
    <2>1. ASSUME NEW j \in Capsules, CreateTask(j) PROVE Allowed(k)
      BY <2>1 DEF CreateTask, TypeInv, TypeOK
    <2>2. ASSUME NEW w \in Workers, WriteTask(w) PROVE Allowed(k)
      <3> DEFINE e == request[w].event_id
      <3>1. /\ request[w] \in Callbacks
            /\ persisted[e] = request[w]
            /\ request[w].is_final
            /\ pc[w] = "write_task"
            /\ e \in Events
        BY <2>2, CallbackFields
           DEF WriteTask, At, TypeInv, RequestHeld, InGraph, HandlingInv, HandlerKnows
      <3>2. Fresh(e) /\ e \notin applied
        BY <3>1, CallbackFields DEF HandlingInv, ProcessedOnce, Processing, Fresh, Exists
      <3>3. QED
        BY <2>2, <3>1, <3>2 DEF WriteTask, Event, TypeInv, TypeOK
    <2>3. ASSUME taskVars' = taskVars PROVE Allowed(k)
      BY <2>3 DEF taskVars
    <2>4. QED
      BY <2>1, <2>2, <2>3
         DEF Next, NextNoCrash, Environment, HandlerStep, Deliver, AnswerDuplicate,
             FindNothing, DecideStale, UnknownCapsule, PersistStale, PersistFresh,
             InsertRefused, ValidateExecutorEvent, ReadTask, MarkApplied, Crash
  <1>2. QED
    BY <1>1, HandlingAlways, PTL DEF Spec, CompletionJustified

-----------------------------------------------------------------------------
\* Every count and every attempt a handler acts on is bounded by the finals
\* that were settled when it was read, and settled finals only accumulate.
CountInv ==
    \A k \in Capsules :
        LET settled == Cardinality(SettledFinals(k)) IN
        /\ attemptCount[k] <= settled
        /\ \A w \in Workers : request[w] # NoCallback /\ request[w].capsule_id = k =>
              /\ pc[w] = "write_task" => readAttempts[w] <= settled
              /\ pc[w] = "persist" /\ staleDecision[w] => request[w].attempt < settled
        /\ \A e \in stale : persisted[e].capsule_id = k => persisted[e].attempt < settled

LEMMA SettledFinite ==
    ASSUME NEW k
    PROVE  /\ IsFiniteSet(SettledFinals(k))
           /\ Cardinality(SettledFinals(k)) \in Nat
  <1>1. SettledFinals(k) \subseteq Events
    BY DEF SettledFinals
  <1>2. QED
    BY <1>1, EventsAssumption, FS_Subset, FS_CardinalityType

LEMMA SettledFiniteNext ==
    ASSUME NEW k
    PROVE  /\ IsFiniteSet(SettledFinals(k)')
           /\ Cardinality(SettledFinals(k)') \in Nat
  <1>1. SettledFinals(k)' \subseteq Events
    BY DEF SettledFinals
  <1>2. QED
    BY <1>1, EventsAssumption, FS_Subset, FS_CardinalityType

\* A settled final stays settled: a row is never removed or rewritten, and no
\* handler ever takes up an event that is stored already.
LEMMA SettledGrows ==
    ASSUME TypeInv, HandlingInv, [Next]_vars, NEW k \in Capsules
    PROVE  SettledFinals(k) \subseteq SettledFinals(k)'
  <1> USE DEF SettledFinals, Pending, Processing, Fresh, Exists,
              TypeInv, TypeOK, RequestHeld, InGraph, HandlingInv, RowsKeyed,
              At, Goto, Event, Stop, Fail, Return, taskVars, eventVars, localVars
  <1>1. ASSUME NEW j \in Capsules, CreateTask(j)
        PROVE  SettledFinals(k) \subseteq SettledFinals(k)'
    BY <1>1 DEF CreateTask
  <1>2. ASSUME NEW w \in Workers, NEW callback \in Callbacks, Deliver(w, callback)
        PROVE  SettledFinals(k) \subseteq SettledFinals(k)'
    BY <1>2 DEF Deliver
  <1>3. ASSUME NEW w \in Workers, HandlerStep(w)
        PROVE  SettledFinals(k) \subseteq SettledFinals(k)'
    <2>1. CASE AnswerDuplicate(w) \/ FindNothing(w) \/ DecideStale(w)
               \/ UnknownCapsule(w) \/ InsertRefused(w)
      BY <2>1 DEF AnswerDuplicate, FindNothing, DecideStale, UnknownCapsule, InsertRefused
    <2>2. CASE PersistStale(w)
      BY <2>2 DEF PersistStale, InsertEvent, InsertAllowed
    <2>3. CASE PersistFresh(w)
      BY <2>3 DEF PersistFresh, InsertEvent, InsertAllowed
    <2>4. CASE ValidateExecutorEvent(w) \/ ReadTask(w) \/ WriteTask(w) \/ MarkApplied(w)
      BY <2>4 DEF ValidateExecutorEvent, ReadTask, WriteTask, MarkApplied
    <2>5. QED
      BY <1>3, <2>1, <2>2, <2>3, <2>4 DEF HandlerStep
  <1>4. ASSUME NEW w \in Workers, Crash(w)
        PROVE  SettledFinals(k) \subseteq SettledFinals(k)'
    BY <1>4 DEF Crash
  <1>5. CASE UNCHANGED vars
    BY <1>5 DEF vars
  <1>6. QED
    BY <1>1, <1>2, <1>3, <1>4, <1>5 DEF Next, NextNoCrash, Environment

LEMMA SettledCountGrows ==
    ASSUME TypeInv, HandlingInv, [Next]_vars, NEW k \in Capsules
    PROVE  Cardinality(SettledFinals(k)) <= Cardinality(SettledFinals(k)')
  BY SettledGrows, SettledFiniteNext, FS_Subset

\* The update settles an event that was pending.
LEMMA WriteSettles ==
    ASSUME TypeInv, HandlingInv, [Next]_vars, NEW w \in Workers, WriteTask(w),
           NEW k \in Capsules, request[w].capsule_id = k
    PROVE  Cardinality(SettledFinals(k)) + 1 <= Cardinality(SettledFinals(k)')
  <1>1. PICK e \in Events : e = request[w].event_id
    BY CallbackFields DEF WriteTask, At, TypeInv, RequestHeld
  <1>2. /\ Processing(w, e)
        /\ persisted[e] = request[w]
        /\ request[w] \in Callbacks
        /\ request[w].is_final
    BY <1>1, CallbackFields
       DEF WriteTask, At, TypeInv, RequestHeld, InGraph, HandlingInv, HandlerKnows, Processing
  <1>3. /\ e \notin SettledFinals(k)
        /\ e \notin stale
        /\ Exists(e)
    BY <1>1, <1>2, CallbackFields
       DEF SettledFinals, Pending, WriteTask, At, HandlingInv, ProcessedOnce, Exists
  <1>4. UNCHANGED <<request, persisted, stale>> /\ pc' = [pc EXCEPT ![w] = "mark"]
    BY DEF WriteTask, Goto, localVars, eventVars
  <1>5. \A v \in Workers : ~Pending(v, e)'
    <2> SUFFICES ASSUME NEW v \in Workers, Pending(v, e)' PROVE FALSE
      OBVIOUS
    <2>1. v # w
      BY <1>4 DEF Pending, Processing, TypeInv, TypeOK
    <2>2. Processing(v, e)
      BY <1>4, <2>1 DEF Pending, Processing, TypeInv, TypeOK
    <2>3. QED
      BY <1>2, <2>1, <2>2 DEF HandlingInv, ProcessedOnce
  <1>6. e \in SettledFinals(k)'
    BY <1>2, <1>3, <1>4, <1>5 DEF SettledFinals, Fresh, Exists
  <1>7. SettledFinals(k) \cup {e} \subseteq SettledFinals(k)'
    BY <1>6, SettledGrows
  <1>8. Cardinality(SettledFinals(k) \cup {e}) = Cardinality(SettledFinals(k)) + 1
    BY <1>3, SettledFinite, FS_AddElement
  <1>9. QED
    BY <1>7, <1>8, SettledFiniteNext, FS_Subset

LEMMA CountInit == Init => CountInv
  <1> SUFFICES ASSUME Init, NEW k \in Capsules
               PROVE  attemptCount[k] <= Cardinality(SettledFinals(k))
    BY DEF Init, CountInv
  <1>1. QED
    BY SettledFinite DEF Init

LEMMA CountNext ==
    TypeInv /\ TypeInv' /\ HandlingInv /\ CountInv /\ [Next]_vars => CountInv'
  <1> SUFFICES ASSUME TypeInv, TypeInv', HandlingInv, CountInv, [Next]_vars,
                      NEW k \in Capsules
               PROVE  /\ attemptCount'[k] <= Cardinality(SettledFinals(k)')
                      /\ \A w \in Workers :
                            request'[w] # NoCallback /\ request'[w].capsule_id = k =>
                               /\ pc'[w] = "write_task" =>
                                     readAttempts'[w] <= Cardinality(SettledFinals(k)')
                               /\ pc'[w] = "persist" /\ staleDecision'[w] =>
                                     request'[w].attempt < Cardinality(SettledFinals(k)')
                      /\ \A e \in stale' : persisted'[e].capsule_id = k =>
                            persisted'[e].attempt < Cardinality(SettledFinals(k)')
    BY DEF CountInv
  <1>1. PICK n \in Nat : n = Cardinality(SettledFinals(k))
    BY SettledFinite
  <1>2. PICK m \in Nat : m = Cardinality(SettledFinals(k)')
    BY SettledFiniteNext
  <1>3. n <= m
    BY <1>1, <1>2, SettledCountGrows
  <1>4. \A w \in Workers : WriteTask(w) /\ request[w].capsule_id = k => n + 1 <= m
    BY <1>1, <1>2, WriteSettles
  <1>5. /\ attemptCount[k] <= n
        /\ \A w \in Workers : request[w] # NoCallback /\ request[w].capsule_id = k =>
              /\ pc[w] = "write_task" => readAttempts[w] <= n
              /\ pc[w] = "persist" /\ staleDecision[w] => request[w].attempt < n
        /\ \A e \in stale : persisted[e].capsule_id = k => persisted[e].attempt < n
    BY <1>1 DEF CountInv
  <1> DEFINE Goal ==
        /\ attemptCount'[k] <= m
        /\ \A w \in Workers : request'[w] # NoCallback /\ request'[w].capsule_id = k =>
              /\ pc'[w] = "write_task" => readAttempts'[w] <= m
              /\ pc'[w] = "persist" /\ staleDecision'[w] => request'[w].attempt < m
        /\ \A e \in stale' : persisted'[e].capsule_id = k => persisted'[e].attempt < m
  <1>6. Goal
    <2> USE <1>3, <1>4, <1>5, CallbackFields
        DEF TypeInv, TypeOK, RequestHeld, InGraph, HandlingInv, RowsKeyed, Exists,
            At, Goto, Event, Stop, Fail, Return, taskVars, eventVars, localVars
    <2>1. ASSUME NEW w \in Workers, HandlerStep(w) PROVE Goal
      <3>1. CASE AnswerDuplicate(w) \/ FindNothing(w) \/ UnknownCapsule(w) \/ InsertRefused(w)
        BY <3>1 DEF AnswerDuplicate, FindNothing, UnknownCapsule, InsertRefused
      <3>2. CASE DecideStale(w)
        BY <3>2 DEF DecideStale, IsStale
      <3>3. CASE PersistStale(w)
        BY <3>3 DEF PersistStale, InsertEvent, InsertAllowed
      <3>4. CASE PersistFresh(w)
        BY <3>4 DEF PersistFresh, InsertEvent, InsertAllowed
      <3>5. CASE ValidateExecutorEvent(w) \/ MarkApplied(w)
        BY <3>5 DEF ValidateExecutorEvent, MarkApplied
      <3>6. CASE ReadTask(w)
        BY <3>6 DEF ReadTask
      <3>7. CASE WriteTask(w)
        <4>1. /\ pc[w] = "write_task"
              /\ request[w] \in Callbacks
              /\ Event(w) = request[w]
              /\ readAttempts[w] \in Nat
          BY <3>7 DEF WriteTask
        <4>2. attemptCount' = [attemptCount EXCEPT ![request[w].capsule_id] = readAttempts[w] + 1]
          BY <3>7, <4>1 DEF WriteTask
        <4>3. attemptCount'[k] <= m
          <5>1. CASE request[w].capsule_id = k
            BY <3>7, <4>1, <4>2, <5>1
          <5>2. CASE request[w].capsule_id # k
            BY <4>1, <4>2, <5>2
          <5>3. QED
            BY <5>1, <5>2
        <4>4. QED
          BY <3>7, <4>3 DEF WriteTask
      <3>8. QED
        BY <2>1, <3>1, <3>2, <3>3, <3>4, <3>5, <3>6, <3>7 DEF HandlerStep
    <2>2. ASSUME NEW w \in Workers,
                 Crash(w) \/ \E callback \in Callbacks : Deliver(w, callback)
          PROVE  Goal
      \* Its locals are new, or gone.
      BY <2>2 DEF Crash, Deliver
    <2>3. CASE UNCHANGED vars \/ \E j \in Capsules : CreateTask(j)
      \* No handler takes the step.
      BY <2>3 DEF CreateTask, vars
    <2>4. QED
      BY <2>1, <2>2, <2>3 DEF Next, NextNoCrash, Environment
  <1>7. QED
    BY <1>2, <1>6

LEMMA CountAlways == Spec => [](TypeInv /\ HandlingInv /\ CountInv)
  BY CountInit, CountNext, HandlingAlways, PTL DEF Spec

(* Redeliveries, crashes and racing updates never count a final event      *)
(* twice: attempt_count is at most the number of settled ones.             *)
THEOREM AttemptsNeverOvercount == Spec => []AttemptCountBounded
  <1>1. CountInv => AttemptCountBounded
    BY DEF CountInv, AttemptCountBounded
  <1>2. QED
    BY <1>1, CountAlways, PTL

(* The stale verdict is never passed too early: the capsule is completed   *)
(* and more finals than the event's attempt were settled for it.           *)
THEOREM StaleVerdictJustified == Spec => []StaleIsSuperseded
  <1>1. TypeInv /\ HandlingInv /\ CountInv => StaleIsSuperseded
    <2> SUFFICES ASSUME TypeInv, HandlingInv, CountInv, NEW e \in stale
                 PROVE  /\ e \notin applied
                        /\ e \in audited
                        /\ taskStatus[persisted[e].capsule_id] \in FINAL_TASK_STATUSES
                        /\ persisted[e].attempt
                             < Cardinality(SettledFinals(persisted[e].capsule_id))
      BY DEF StaleIsSuperseded
    <2>1. persisted[e].capsule_id \in Capsules
      BY CallbackFields DEF TypeInv, TypeOK, HandlingInv, RowsKeyed, Exists
    <2>2. e \notin applied /\ e \in audited /\ Completed(persisted[e].capsule_id)
      BY DEF HandlingInv, StaleSettled
    <2>3. QED
      BY <2>1, <2>2 DEF CountInv, Completed, FINAL_TASK_STATUSES
  <1>2. QED
    BY <1>1, CountAlways, PTL

-----------------------------------------------------------------------------
\* The four marks of an event, spelled out.
Mark(e) == CASE e \in applied -> "applied"
             [] e \in stale   -> "stale"
             [] Fresh(e) /\ e \notin applied -> "fresh"
             [] OTHER         -> "unseen"

LEMMA MarkOf ==
    ASSUME HandlingInv, NEW e \in Events
    PROVE  /\ Mark(e) = "unseen" <=> ~Exists(e)
           /\ Mark(e) = "fresh" <=> Exists(e) /\ e \notin stale /\ e \notin applied
           /\ Mark(e) = "stale" <=> e \in stale
           /\ Mark(e) = "applied" <=> e \in applied
           /\ Mark(e) \in {"unseen", "fresh", "stale", "applied"}
  BY DEF Mark, Fresh, Exists, HandlingInv, RowsKeyed, StaleSettled

Marks == [e \in Events |-> Mark(e)]
Done == {k \in Capsules : Completed(k)}

\* A step that leaves rows, flags and statuses alone maps to a stutter.
LEMMA Stutters ==
    ASSUME UNCHANGED <<persisted, applied, stale>>, Done' = Done
    PROVE  UNCHANGED <<persisted, Marks, Done>>
  BY DEF Marks, Mark, Fresh, Exists

LEMMA InboxStep ==
    ASSUME TypeInv, TypeInv', HandlingInv, HandlingInv', [Next]_vars
    PROVE  \/ \E callback \in Callbacks, how \in {"fresh", "stale"} :
                 LET e == callback.event_id IN
                 /\ Marks[e] = "unseen"
                 /\ how = "stale" => callback.capsule_id \in Done
                 /\ persisted' = [persisted EXCEPT ![e] = callback]
                 /\ Marks' = [Marks EXCEPT ![e] = how]
                 /\ Done' = Done
           \/ \E e \in Events :
                 /\ Marks[e] = "fresh"
                 /\ persisted[e].is_final
                 /\ Done' = Done \cup {persisted[e].capsule_id}
                 /\ persisted' = persisted /\ Marks' = Marks
           \/ \E e \in Events :
                 /\ Marks[e] = "fresh"
                 /\ persisted[e].is_final => persisted[e].capsule_id \in Done
                 /\ Marks' = [Marks EXCEPT ![e] = "applied"]
                 /\ persisted' = persisted /\ Done' = Done
           \/ UNCHANGED <<persisted, Marks, Done>>
  <1> DEFINE Stutter == UNCHANGED <<persisted, Marks, Done>>
  <1>1. ASSUME NEW k \in Capsules, CreateTask(k) PROVE Stutter
    <2>1. Done' = Done
      BY <1>1 DEF CreateTask, Done, Completed, TypeInv, TypeOK
    <2>2. QED
      BY <1>1, <2>1, Stutters DEF CreateTask, eventVars
  <1>2. ASSUME NEW w \in Workers, NEW callback \in Callbacks, Deliver(w, callback)
        PROVE Stutter
    BY <1>2, Stutters DEF Deliver, eventVars, taskVars, Done, Completed
  <1>3. ASSUME NEW w \in Workers,
               AnswerDuplicate(w) \/ FindNothing(w) \/ DecideStale(w) \/ UnknownCapsule(w)
               \/ InsertRefused(w) \/ ValidateExecutorEvent(w) \/ ReadTask(w) \/ Crash(w)
        PROVE Stutter
    BY <1>3, Stutters DEF AnswerDuplicate, FindNothing, DecideStale, UnknownCapsule, InsertRefused,
         ValidateExecutorEvent, ReadTask, Crash, eventVars, taskVars, Done, Completed
  <1>4. CASE UNCHANGED vars
    <2>1. Stutter
      BY <1>4, Stutters DEF vars, eventVars, taskVars, Done, Completed
    <2>2. QED
      BY <2>1
  <1>5. ASSUME NEW w \in Workers, PersistStale(w) \/ PersistFresh(w)
        PROVE \E callback \in Callbacks, how \in {"fresh", "stale"} :
                 LET e == callback.event_id IN
                 /\ Marks[e] = "unseen"
                 /\ how = "stale" => callback.capsule_id \in Done
                 /\ persisted' = [persisted EXCEPT ![e] = callback]
                 /\ Marks' = [Marks EXCEPT ![e] = how]
                 /\ Done' = Done
    <2> DEFINE c == request[w]
               how == IF staleDecision[w] THEN "stale" ELSE "fresh"
    <2>1. /\ c \in Callbacks
          /\ c.event_id \in Events
          /\ c.capsule_id \in Capsules
          /\ ~Exists(c.event_id)
          /\ persisted' = [persisted EXCEPT ![c.event_id] = c]
          /\ pc[w] = "persist"
          /\ Done' = Done
      BY <1>5, CallbackFields
         DEF PersistStale, PersistFresh, InsertEvent, InsertAllowed, At, TypeInv, RequestHeld,
             taskVars,
             Done, Completed
    <2>2. Marks[c.event_id] = "unseen"
      BY <2>1, MarkOf DEF Marks
    <2>3. how = "stale" => c.capsule_id \in Done
      BY <2>1 DEF HandlingInv, HandlerKnows, Done
    <2>4. Marks' = [Marks EXCEPT ![c.event_id] = how]
      <3>1. /\ applied' = applied
            /\ stale' = IF staleDecision[w] THEN stale \cup {c.event_id} ELSE stale
        BY <1>5 DEF PersistStale, PersistFresh
      <3>2. c.event_id \notin applied \cup stale
        BY <2>1 DEF HandlingInv, RowsKeyed
      <3>3. \A e \in Events : Mark(e)' = IF e = c.event_id THEN how ELSE Mark(e)
        BY <2>1, <3>1, <3>2, CallbackFields DEF Mark, Fresh, Exists, TypeInv, TypeOK
      <3>4. QED
        BY <3>3 DEF Marks
    <2>5. QED
      BY <2>1, <2>2, <2>3, <2>4
  <1>6. ASSUME NEW w \in Workers, WriteTask(w)
        PROVE \E e \in Events :
                 /\ Marks[e] = "fresh"
                 /\ persisted[e].is_final
                 /\ Done' = Done \cup {persisted[e].capsule_id}
                 /\ persisted' = persisted /\ Marks' = Marks
    <2> DEFINE e == request[w].event_id
    <2>1. /\ e \in Events
          /\ Processing(w, e)
          /\ persisted[e] = request[w]
          /\ request[w].is_final
          /\ request[w].capsule_id \in Capsules
          /\ Exists(e)
      BY <1>6, CallbackFields
         DEF WriteTask, At, TypeInv, RequestHeld, InGraph, HandlingInv, HandlerKnows, Processing,
             Exists
    <2>2. Mark(e) = "fresh"
      BY <2>1, MarkOf DEF HandlingInv, ProcessedOnce
    <2>3. Done' = Done \cup {persisted[e].capsule_id}
      BY <1>6, <2>1 DEF WriteTask, Event, Done, Completed, TypeInv, TypeOK
    <2>4. persisted' = persisted /\ Marks' = Marks
      BY <1>6 DEF WriteTask, eventVars, Marks, Mark, Fresh, Exists
    <2>5. QED
      BY <2>1, <2>2, <2>3, <2>4 DEF Marks
  <1>7. ASSUME NEW w \in Workers, MarkApplied(w)
        PROVE \E e \in Events :
                 /\ Marks[e] = "fresh"
                 /\ persisted[e].is_final => persisted[e].capsule_id \in Done
                 /\ Marks' = [Marks EXCEPT ![e] = "applied"]
                 /\ persisted' = persisted /\ Done' = Done
    <2> DEFINE e == request[w].event_id
    <2>1. /\ e \in Events
          /\ Processing(w, e)
          /\ persisted[e] = request[w]
          /\ request[w].capsule_id \in Capsules
          /\ Exists(e)
          /\ pc[w] = "mark"
      BY <1>7, CallbackFields
         DEF MarkApplied, At, TypeInv, RequestHeld, InGraph, Processing, Exists
    <2>2. Mark(e) = "fresh"
      BY <2>1, MarkOf DEF HandlingInv, ProcessedOnce
    <2>3. persisted[e].is_final => persisted[e].capsule_id \in Done
      BY <2>1 DEF HandlingInv, HandlerKnows, Done
    <2>4. persisted' = persisted /\ Done' = Done
      BY <1>7 DEF MarkApplied, taskVars, Done, Completed
    <2>5. Marks' = [Marks EXCEPT ![e] = "applied"]
      <3>1. applied' = applied \cup {e} /\ UNCHANGED <<persisted, stale>>
        BY <1>7 DEF MarkApplied
      <3>2. \A f \in Events : Mark(f)' = IF f = e THEN "applied" ELSE Mark(f)
        <4> SUFFICES ASSUME NEW f \in Events
                     PROVE  Mark(f)' = IF f = e THEN "applied" ELSE Mark(f)
          OBVIOUS
        <4>1. CASE f = e
          <5>1. f \in applied' /\ f \notin stale'
            BY <2>1, <3>1, <4>1 DEF HandlingInv, ProcessedOnce
          <5>2. QED
            BY <4>1, <5>1 DEF Mark
        <4>2. CASE f # e
          <5>1. f \in applied' <=> f \in applied
            BY <3>1, <4>2
          <5>2. QED
            BY <3>1, <4>2, <5>1 DEF Mark, Fresh, Exists
        <4>3. QED
          BY <4>1, <4>2
      <3>3. QED
        BY <3>2 DEF Marks
    <2>6. QED
      BY <2>1, <2>2, <2>3, <2>4, <2>5 DEF Marks
  <1>8. QED
    BY <1>1, <1>2, <1>3, <1>4, <1>5, <1>6, <1>7
       DEF Next, NextNoCrash, Environment, HandlerStep

(* The service with its races, crashes and repeated deliveries implements  *)
(* the inbox, for any number of handlers, events and capsules.             *)
THEOREM Refinement == Spec => ImplementsInbox
  <1>1. Init => Inbox!Init
    BY DEF Init, Inbox!Init, Fresh, Exists
  <1>2. TypeInv /\ TypeInv' /\ HandlingInv /\ HandlingInv' /\ [Next]_vars
          => [Inbox!Next]_(Inbox!boxVars)
    BY InboxStep DEF Inbox!Next, Inbox!Receive, Inbox!Effect, Inbox!Apply, Inbox!boxVars,
         Marks, Mark, Done, Completed
  <1>3. QED
    BY <1>1, <1>2, HandlingAlways, PTL DEF Spec, ImplementsInbox, Inbox!Spec
=============================================================================
