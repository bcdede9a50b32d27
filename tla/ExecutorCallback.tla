-------------------------- MODULE ExecutorCallback --------------------------
(***************************************************************************)
(* The executor callback service, api/executor_callback.py, with the part  *)
(* of the graph it invokes, graph/nodes/executor_ingress.py, and the rows  *)
(* of executor_tasks and executor_events they read and write.              *)
(*                                                                         *)
(* Several handlers run at the same time, each on a connection of its own  *)
(* to the same SQLite file.  The connection is in autocommit mode, so      *)
(* every statement outside `with db.transaction()` is durable by itself    *)
(* and is a step of its own here.  A handler may stop between two          *)
(* statements (the process dies, or a statement raises "database is        *)
(* locked"), and the executor may deliver a callback any number of times.  *)
(***************************************************************************)
EXTENDS Integers, FiniteSets

CONSTANTS
    Workers,     \* handler invocations that may be in flight together
    Events,      \* values of event_id
    Capsules,    \* values of capsule_id
    Executors,   \* names an executor may put in a callback
    Callbacks,   \* the request bodies that may be delivered
    NoCallback   \* the absent row

HERMES_EXECUTOR_NAME == "hermes"
FINAL_TASK_STATUSES == {"completed", "failed", "cancelled"}

ExecutorCallback == [event_id : Events, capsule_id : Capsules,
                     executor : Executors, attempt : Int, is_final : BOOLEAN]

ASSUME CallbacksAssumption ==
    /\ Callbacks \subseteq ExecutorCallback
    /\ NoCallback \notin ExecutorCallback
ASSUME EventsAssumption == IsFiniteSet(Events)

VARIABLES
    taskStatus,    \* executor_tasks.status, "absent" when there is no row
    attemptCount,  \* executor_tasks.attempt_count
    persisted,     \* executor_events, the callback columns
    applied,       \* executor_events with applied = 1
    stale,         \* executor_events with stale = 1
    audited,       \* audit_events of type executor_event_stale, by target_id
    pc,            \* where each handler is
    request,       \* the callback it handles
    staleDecision, \* its local variable `stale`
    readAttempts,  \* task.attempt_count read by update_executor_task_status
    route,         \* state["route"] of its graph run
    replies        \* every dictionary a handler returned

taskVars == <<taskStatus, attemptCount>>
eventVars == <<persisted, applied, stale, audited>>
localVars == <<request, staleDecision, readAttempts, route>>
vars == <<taskVars, eventVars, localVars, pc, replies>>

Reply == [event_id : Events, status : {"accepted", "duplicate_accepted", "accepted_stale"},
          applied : BOOLEAN, stale : BOOLEAN]

TypeOK ==
    /\ taskStatus \in [Capsules -> {"absent", "queued"} \cup FINAL_TASK_STATUSES]
    /\ attemptCount \in [Capsules -> Nat]
    /\ persisted \in [Events -> Callbacks \cup {NoCallback}]
    /\ applied \subseteq Events
    /\ stale \subseteq Events
    /\ audited \subseteq Events
    /\ pc \in [Workers -> {"idle", "find", "get_task", "persist", "validate",
                           "read_task", "write_task", "mark"}]
    /\ request \in [Workers -> Callbacks \cup {NoCallback}]
    /\ staleDecision \in [Workers -> BOOLEAN]
    /\ readAttempts \in [Workers -> Nat]
    /\ route \in [Workers -> {"local_answer", "error_handler"}]
    /\ replies \subseteq Reply

Init ==
    /\ taskStatus = [k \in Capsules |-> "absent"]
    /\ attemptCount = [k \in Capsules |-> 0]
    /\ persisted = [e \in Events |-> NoCallback]
    /\ applied = {}
    /\ stale = {}
    /\ audited = {}
    /\ pc = [w \in Workers |-> "idle"]
    /\ request = [w \in Workers |-> NoCallback]
    /\ staleDecision = [w \in Workers |-> FALSE]
    /\ readAttempts = [w \in Workers |-> 0]
    /\ route = [w \in Workers |-> "local_answer"]
    /\ replies = {}

-----------------------------------------------------------------------------
At(w, where) == pc[w] = where
Goto(w, where) == pc' = [pc EXCEPT ![w] = where]
Exists(e) == persisted[e] # NoCallback

\* The invocation is over and its local variables are gone.
Stop(w) ==
    /\ Goto(w, "idle")
    /\ request' = [request EXCEPT ![w] = NoCallback]
    /\ staleDecision' = [staleDecision EXCEPT ![w] = FALSE]
    /\ readAttempts' = [readAttempts EXCEPT ![w] = 0]
    /\ route' = [route EXCEPT ![w] = "local_answer"]

\* It ends with an exception: no answer.
Fail(w) == Stop(w) /\ UNCHANGED replies

\* It returns a dictionary to the executor.
Return(w, status, isApplied, isStale) ==
    /\ Stop(w)
    /\ replies' = replies \cup
         {[event_id |-> request[w].event_id, status |-> status,
           applied |-> isApplied, stale |-> isStale]}

\* The row the graph nodes load again by event_id.
Event(w) == persisted[request[w].event_id]

-----------------------------------------------------------------------------
\* HermesExecutor.create_task stores a queued task; the key already exists
\* for a capsule that was created before, so nothing happens a second time.
CreateTask(k) ==
    /\ taskStatus[k] = "absent"
    /\ taskStatus' = [taskStatus EXCEPT ![k] = "queued"]
    /\ UNCHANGED <<attemptCount, eventVars, localVars, pc, replies>>

\* The executor posts a callback, for the first time or again.
Deliver(w, callback) ==
    /\ At(w, "idle")
    /\ Goto(w, "find")
    /\ request' = [request EXCEPT ![w] = callback]
    /\ UNCHANGED <<taskVars, eventVars, staleDecision, readAttempts, route, replies>>

\* Mutants: an event not yet applied is taken up again by the duplicate's
\* handler; the duplicate's answer is that of a first delivery.
ResumeDuplicate(w) ==
    LET e == request[w].event_id IN
    /\ At(w, "find")
    /\ Exists(e)
    /\ IF e \in applied \cup stale
       THEN Return(w, "duplicate_accepted", e \in applied, e \in stale)
       ELSE /\ Goto(w, "validate")
            /\ UNCHANGED <<localVars, replies>>
    /\ UNCHANGED <<taskVars, eventVars>>
ClaimApplied(w) ==
    /\ At(w, "find")
    /\ Exists(request[w].event_id)
    /\ Return(w, "duplicate_accepted", TRUE, FALSE)
    /\ UNCHANGED <<taskVars, eventVars>>

\* find_executor_event found the row: answer from it and stop.
AnswerDuplicate(w) ==
    LET e == request[w].event_id IN
    /\ At(w, "find")
    /\ Exists(e)
    /\ Return(w, "duplicate_accepted", e \in applied, e \in stale)
    /\ UNCHANGED <<taskVars, eventVars>>

FindNothing(w) ==
    /\ At(w, "find")
    /\ ~Exists(request[w].event_id)
    /\ Goto(w, "get_task")
    /\ UNCHANGED <<taskVars, eventVars, localVars, replies>>

\* Mutants: off by one, either way.
IsStaleOrCurrent(callback) ==
    /\ callback.attempt <= attemptCount[callback.capsule_id]
    /\ taskStatus[callback.capsule_id] \in FINAL_TASK_STATUSES
IsLongStale(callback) ==
    /\ callback.attempt + 1 < attemptCount[callback.capsule_id]
    /\ taskStatus[callback.capsule_id] \in FINAL_TASK_STATUSES

IsStale(callback) ==
    /\ callback.attempt < attemptCount[callback.capsule_id]
    /\ taskStatus[callback.capsule_id] \in FINAL_TASK_STATUSES

\* get_executor_task, and the decision taken on the row it returned.
DecideStale(w) ==
    /\ At(w, "get_task")
    /\ taskStatus[request[w].capsule_id] # "absent"
    /\ staleDecision' = [staleDecision EXCEPT ![w] = IsStale(request[w])]
    /\ Goto(w, "persist")
    /\ UNCHANGED <<taskVars, eventVars, request, readAttempts, route, replies>>

\* get_executor_task raises KeyError: nothing is stored.
UnknownCapsule(w) ==
    /\ At(w, "get_task")
    /\ taskStatus[request[w].capsule_id] = "absent"
    /\ Fail(w)
    /\ UNCHANGED <<taskVars, eventVars>>

\* The constraints of executor_events: event_id is the primary key, and
\* capsule_id refers to executor_tasks.
InsertAllowed(callback) ==
    /\ ~Exists(callback.event_id)
    /\ taskStatus[callback.capsule_id] # "absent"

\* The transaction that inserts the event, committed.
InsertEvent(w) ==
    /\ At(w, "persist")
    /\ InsertAllowed(request[w])
    /\ persisted' = [persisted EXCEPT ![request[w].event_id] = request[w]]

PersistStale(w) ==
    LET e == request[w].event_id IN
    /\ InsertEvent(w)
    /\ staleDecision[w]
    /\ stale' = stale \cup {e}
    /\ audited' = audited \cup {e}
    /\ Return(w, "accepted_stale", FALSE, TRUE)
    /\ UNCHANGED <<taskVars, applied>>

\* Mutant: the insert already stores applied = 1.
PersistApplied(w) ==
    /\ InsertEvent(w)
    /\ ~staleDecision[w]
    /\ applied' = applied \cup {request[w].event_id}
    /\ Goto(w, "validate")
    /\ UNCHANGED <<taskVars, stale, audited, localVars, replies>>

PersistFresh(w) ==
    /\ InsertEvent(w)
    /\ ~staleDecision[w]
    /\ Goto(w, "validate")
    /\ UNCHANGED <<taskVars, applied, stale, audited, localVars, replies>>

\* IntegrityError, as when another handler inserted the same event_id since
\* `find`: the transaction is rolled back and the caller gets no answer.
InsertRefused(w) ==
    /\ At(w, "persist")
    /\ ~InsertAllowed(request[w])
    /\ Fail(w)
    /\ UNCHANGED <<taskVars, eventVars>>

\* Mutants: the is_final test of the feedback handler is lost; a mismatch
\* ends the run there and then.
FeedbackIgnoresFinal(w) ==
    /\ At(w, "validate")
    /\ Goto(w, "read_task")
    /\ UNCHANGED <<taskVars, eventVars, localVars, replies>>
DropMismatch(w) ==
    /\ At(w, "validate")
    /\ IF Event(w).executor = HERMES_EXECUTOR_NAME
       THEN /\ Goto(w, IF Event(w).is_final THEN "read_task" ELSE "mark")
            /\ UNCHANGED <<localVars, replies>>
       ELSE Fail(w)
    /\ UNCHANGED <<taskVars, eventVars>>

\* graph.invoke up to the feedback handler.  A mismatch only sets the route:
\* the edges go on to the feedback handler either way.
ValidateExecutorEvent(w) ==
    /\ At(w, "validate")
    /\ route' = [route EXCEPT ![w] = IF Event(w).executor = HERMES_EXECUTOR_NAME
                                     THEN "local_answer" ELSE "error_handler"]
    /\ Goto(w, IF Event(w).is_final THEN "read_task" ELSE "mark")
    /\ UNCHANGED <<taskVars, eventVars, request, staleDecision, readAttempts, replies>>

\* update_executor_task_status: the SELECT, then the UPDATE computed from it.
ReadTask(w) ==
    /\ At(w, "read_task")
    /\ readAttempts' = [readAttempts EXCEPT ![w] = attemptCount[Event(w).capsule_id]]
    /\ Goto(w, "write_task")
    /\ UNCHANGED <<taskVars, eventVars, request, staleDecision, route, replies>>

\* Mutant: the attempt of the event is stored instead of the count.
WriteEventAttempt(w) ==
    LET k == Event(w).capsule_id IN
    /\ At(w, "write_task")
    /\ taskStatus' = [taskStatus EXCEPT ![k] = "completed"]
    /\ attemptCount' = [attemptCount EXCEPT ![k] = Event(w).attempt]
    /\ Goto(w, "mark")
    /\ UNCHANGED <<eventVars, localVars, replies>>

WriteTask(w) ==
    LET k == Event(w).capsule_id IN
    /\ At(w, "write_task")
    /\ taskStatus' = [taskStatus EXCEPT ![k] = "completed"]
    /\ attemptCount' = [attemptCount EXCEPT ![k] = readAttempts[w] + 1]
    /\ Goto(w, "mark")
    /\ UNCHANGED <<eventVars, localVars, replies>>

\* Mutant: marked by the wrong id.
MarkCapsule(w) ==
    /\ At(w, "mark")
    /\ applied' = applied \cup {request[w].capsule_id}
    /\ Return(w, "accepted", TRUE, FALSE)
    /\ UNCHANGED <<taskVars, persisted, stale, audited>>

\* The graph ended, whatever its route; mark_executor_event_applied.
MarkApplied(w) ==
    /\ At(w, "mark")
    /\ applied' = applied \cup {request[w].event_id}
    /\ Return(w, "accepted", TRUE, FALSE)
    /\ UNCHANGED <<taskVars, persisted, stale, audited>>

\* The handler stops between two statements and its caller gets no answer.
Crash(w) ==
    /\ pc[w] # "idle"
    /\ Fail(w)
    /\ UNCHANGED <<taskVars, eventVars>>

-----------------------------------------------------------------------------
HandlerStep(w) ==
    \/ AnswerDuplicate(w) \/ FindNothing(w)
    \/ DecideStale(w) \/ UnknownCapsule(w)
    \/ PersistStale(w) \/ PersistFresh(w) \/ InsertRefused(w)
    \/ ValidateExecutorEvent(w) \/ ReadTask(w) \/ WriteTask(w) \/ MarkApplied(w)

Environment ==
    \/ \E k \in Capsules : CreateTask(k)
    \/ \E w \in Workers, callback \in Callbacks : Deliver(w, callback)

NextNoCrash == Environment \/ \E w \in Workers : HandlerStep(w)

Next == NextNoCrash \/ \E w \in Workers : Crash(w)

Spec == Init /\ [][Next]_vars

\* Handlers may die, and the executor delivers every callback again and again.
RetryingSpec ==
    /\ Spec
    /\ \A w \in Workers : WF_vars(HandlerStep(w))
    /\ \A w \in Workers, callback \in Callbacks : SF_vars(Deliver(w, callback))
    /\ \A k \in Capsules : WF_vars(CreateTask(k))

-----------------------------------------------------------------------------
\* Handlers inside graph.invoke, or between it and mark_executor_event_applied.
Processing(w, e) ==
    /\ pc[w] \in {"validate", "read_task", "write_task", "mark"}
    /\ request[w].event_id = e

\* Those whose effect on the task is still to come.
Pending(w, e) == Processing(w, e) /\ pc[w] # "mark"

Fresh(e) == Exists(e) /\ e \notin stale

\* Fresh final events of a capsule whose effect is not still to come: it has
\* happened, or their handler died before it and it never will.
SettledFinals(k) ==
    {e \in Events : /\ Fresh(e)
                    /\ persisted[e].capsule_id = k
                    /\ persisted[e].is_final
                    /\ \A w \in Workers : ~Pending(w, e)}

(* An event is in the hands of one handler at most, and once it is marked  *)
(* applied or stale, of none: the check of line 17 is made long before the *)
(* insert, and only the primary key decides between two deliveries.        *)
ProcessedOnce ==
    \A w \in Workers, e \in Events :
        Processing(w, e) =>
            /\ e \notin applied \cup stale
            /\ \A v \in Workers : Processing(v, e) => v = w

(* A final event marked applied has completed its capsule, whatever other  *)
(* handlers did to the row between the read and the write of the update.   *)
AppliedFinalCompleted ==
    \A e \in applied :
        persisted[e].is_final => taskStatus[persisted[e].capsule_id] = "completed"

(* An event is stored as stale only on a capsule that is settled, and      *)
(* whose recorded finals outnumber the attempt it answers; it is never     *)
(* applied later.                                                          *)
StaleIsSuperseded ==
    \A e \in stale :
        /\ e \notin applied
        /\ e \in audited
        /\ taskStatus[persisted[e].capsule_id] \in FINAL_TASK_STATUSES
        /\ persisted[e].attempt < Cardinality(SettledFinals(persisted[e].capsule_id))

(* attempt_count is never more than the number of distinct final events    *)
(* taken for the capsule: redeliveries, crashes and racing updates never   *)
(* count an event twice.  (Racing updates may count two events once.)      *)
AttemptCountBounded ==
    \A k \in Capsules : attemptCount[k] <= Cardinality(SettledFinals(k))

(* What a handler answered stays true: an answer that says applied is      *)
(* about an event that is, and `stale` is decided once for an event.       *)
RepliesTruthful ==
    \A r \in replies :
        /\ r.applied => r.event_id \in applied
        /\ r.stale <=> r.event_id \in stale

(* The task row changes after its creation only to count a fresh final     *)
(* event of that capsule which is stored and not yet marked applied.       *)
CompletionJustified ==
    [][\A k \in Capsules :
          \/ taskStatus'[k] = taskStatus[k] /\ attemptCount'[k] = attemptCount[k]
          \/ taskStatus[k] = "absent" /\ taskStatus'[k] = "queued"
          \/ /\ taskStatus'[k] = "completed"
             /\ \E e \in Events : /\ Fresh(e)
                                  /\ e \notin applied
                                  /\ persisted[e].capsule_id = k
                                  /\ persisted[e].is_final]_vars

(* executor_callback.py:14: callbacks are processed idempotently, so an    *)
(* executor that repeats a callback until it is handled sees it applied or *)
(* refused as stale.                                                       *)
RetriedCallbackSettles ==
    \A callback \in Callbacks :
        (\E w \in Workers : pc[w] # "idle" /\ request[w] = callback)
            ~> callback.event_id \in applied \cup stale

(* repository.py:554: an event is marked applied "after graph success".    *)
(* The graph fails an event of an executor other than the task's.          *)
AppliedAfterGraphSuccess ==
    \A e \in applied : persisted[e].executor = HERMES_EXECUTOR_NAME

-----------------------------------------------------------------------------
\* The promise it keeps.
Inbox == INSTANCE CallbackInbox WITH
    body <- persisted,
    mark <- [e \in Events |-> CASE e \in applied -> "applied"
                                [] e \in stale   -> "stale"
                                [] Fresh(e) /\ e \notin applied -> "fresh"
                                [] OTHER         -> "unseen"],
    done <- {k \in Capsules : taskStatus[k] = "completed"}

(* Behind any number of racing, dying and repeated handlers, the service   *)
(* behaves as the inbox of CallbackInbox: one step of it or none.          *)
ImplementsInbox == Inbox!Spec
=============================================================================
