# Mnemosyne Brain: specification and proofs

This directory holds TLA+ models of the durable core of Mnemosyne Brain: how a
user message, an executor callback, a staged LLM turn, an identity assignment
and the migration runner change the SQLite tables, statement by statement, while
other processes do the same, die, or do it again. TLC checks the models on small
instances; TLAPS proves the invariants of all of them for instances of every
size. What is left to TLC alone is liveness.

Paths below are relative to `src/mnemosyne_brain/app/` unless they say otherwise.

## The system

There is no server process in the repository: services are plain functions over
a `SqliteRepository`, called by the CLI, by tests, or by an adapter yet to come.
Each call has a connection of its own to one database file. The connection is
put in autocommit mode (`db/repository.py:34`), so a statement outside
`with repository.transaction()` is durable as soon as it returns. Everything
hard about this code follows from that: what one call does in several
statements, other calls interleave with, and a crash cuts in two.

| Component | State | Operations | What makes it correct |
|---|---|---|---|
| Executor callback service (`api/executor_callback.py`, `graph/nodes/executor_ingress.py`) | `executor_events`, `executor_tasks` | find, decide stale, persist, graph run, mark applied | an event takes effect once; nothing is answered that is not so; a task is completed for a reason |
| User graph path (`api/user_message.py`, `graph/nodes/user_ingress.py`, `executor.py`, `executors/hermes.py`) | `dialogue_turns`, `dialogue_tracks_temp`, `dialogue_threads`, `executor_tasks` | persist turn, bootstrap track, attach, analyze, write memory, delegate, wait | references agree; a waiting track has a task; a repeated message is not served twice |
| Memory write pipeline (`memory/*.py`) | `memory_candidates`, `memory_items`, `memory_staging`, `identifier_assignments`, `audit_events` | persist candidate, decide, apply in one transaction | one active memory for a meaning; all rows of an outcome or none; no decision bypassed |
| Graph (`graph/graph.py`, `router.py`, `state.py`) | the runtime state of a run | two ingresses, one router, five terminal nodes | both paths and the LLM path leave the shared tables fit for each other |
| Staged LLM turn (`cli.py`, `llm_orchestrator.py`, `context_builder.py`) | `dialogue_turns`, `dialogue_tracks_temp`, `audit_events`, `memory_candidates` | save user turn; contexts and provider calls; save answer, analysis and candidates | an answer is saved whole; contexts hold the right turns and memories; a turn that cannot be answered says why |
| LLM provider adapter (`llm_provider.py`) and contracts (`contracts/analysis.py`) | none | three requests, parsing, repair of dialogue acts, validation | what they let through fits the contract; a failure is reported |
| Repository (`db/repository.py`, `transactions.py`, `contracts/base.py`) | the tables | the statements the others issue, with their timestamps | constraints are enforced in SQLite; rows sort by their stamps |
| Identity (`identity/*.py`) | `persons`, `identifiers`, `identifier_assignments` | normalize, insert, assign, end, resolve | the two lookups agree with each other; a newer assignment is not hidden by an older |
| Migrations (`db/migrate.py`) | `schema_migrations` and the schema | run what is not recorded | scripts take effect in order; a program that goes on has every table |
| Current-signal service, configuration, demo, context debug | none | pure functions, validation, printing | |

How they interact: `handle_user_message` and `handle_executor_callback` both
invoke the compiled graph, which routes by `input_source`. The user path stores
tasks that callbacks complete; both read the track. The LLM path uses the same
turn and track tables without the graph, and writes the track's status too. The
memory pipeline is called by a graph node and waited for. Every program that
opens the database runs the migrations first.

The behaviours that are hard to test are listed, each at its line, in
`PROJECT.json` under `hazards`. In short: duplicate deliveries that race; a
crash between two autocommitted statements; decisions taken on rows that change
before they are used (stale test, conflict decision, track status); a read and
a write of `attempt_count` in two statements; messages sent again, on the same
thread or another; provider failures and timeouts between two transactions;
stamps taken before the lock is, and stamps that sort out of order; processes
that race to migrate; limits of the LLM context.

## Modules

| Module | Models | Extends / instances |
|---|---|---|
| `ExecutorCallback` | the callback service and the graph nodes it runs | |
| `CallbackInbox` | what that service promises, with no handler in sight | instanced by `ExecutorCallback` |
| `MemoryWrite` | the memory write pipeline | |
| `MemoryBook` | what that pipeline promises, with no writer in sight | instanced by `MemoryWrite` |
| `UserIngress` | the user path of the graph | `MemoryWrite` |
| `Brain` | both ingresses and the LLM path on shared tables | `UserIngress`, instance of `ExecutorCallback` |
| `ServerNow` | the timestamps of `contracts/base.py` and how they sort | |
| `LlmContracts` | what the Stage 0, 1 and 2 contracts accept, and the repair of dialogue acts | |
| `LlmTurn` | the staged LLM turn of the CLI | `LlmContracts`, `ServerNow` |
| `Identity` | identifiers, persons and assignments, and the lookups | `ServerNow` |
| `Migrations` | `run_migrations` | |
| `ExecutorCallbackProofs`, `MemoryWriteProofs`, `MigrationsProofs`, `IdentityProofs` | the theorems on a component | that component |
| `UserIngressProofs` | the theorems on the user path | `UserIngress`, `MemoryWriteProofs` |
| `BrainProofs` | the theorems on the composition | `Brain`, `UserIngressProofs` |
| `LlmTurnProofs` | the theorems on the staged LLM turn | `LlmTurn` |
| `MCCallbackHistory` | the callback service with history variables, and the properties that need them | `MCExecutorCallback` |
| `CallbackHistoryProofs` | the theorems on handlers that run one at a time | `MCCallbackHistory`, `ExecutorCallbackProofs` |
| other `MC...` | the small values of the constants | the module of that name |

### How the models read the code

One action is one SQL statement, or one transaction when the code opens one,
with the Python that follows it up to the next statement. Python locals that
live across statements are variables indexed by the process (`staleDecision`,
`readAttempts`, `seenStatus`, `decision`). A process dies between statements
(`Crash`, `WriterCrash`, `RunCrash`, `LlmStops`, `LlmCrash`, `Die`): its locals
go, its rows stay, and an open transaction is undone. An exception of SQLite,
such as "database is locked", does the same to the caller and is the same
action. Unique indexes, primary keys and foreign keys are guards (`InsertAllowed`,
`WriteAllowed`, `StagingAllowed`), with an action of its own for the statement
that is refused (`InsertRefused`, `ThreadTaken`,
`MessageTaken`, `TaskTaken`, `CandidateTaken`, `VersionTaken`, `RollBack`).

A transaction is one step where the code needs nothing else of it: the
callback's and the memory writer's begin with an INSERT, after which SQLite
lets no other writer in. The second LLM transaction begins with an INSERT too,
and its lookup of dedupe keys comes after, so that it is also one step; only the
stamp of the assistant turn is taken before it, and is a step of its own
(`StampAnswer`). The loop over the candidates is in that transaction and may
raise, which undoes it (`SaveRaises`). The first LLM transaction begins with a SELECT; when two of
those collide SQLite refuses one, which then has done nothing (`LlmCrash`).

* `ExecutorCallback`. `Deliver` is a call; `AnswerDuplicate`/`FindNothing`,
  `DecideStale`/`UnknownCapsule`, `PersistStale`/`PersistFresh`/`InsertRefused`
  are lines 17, 26 and 36-47 with what follows; `ValidateExecutorEvent` is the
  graph up to the feedback handler; `ReadTask` and `WriteTask` are the two
  statements of `update_executor_task_status`; `MarkApplied` is line 65.
* `MemoryWrite`. `FindCandidate` and `InsertCandidate` are
  `persist_memory_candidate`; `Decide` is `ConflictResolver.decide`, outside the
  transaction; `SkipDuplicate`, `StageMemory`, `WriteMemory` and `RollBack` are
  the outcomes of the transaction. In `MemoryBook` a candidate is proposed,
  remembered, put up for review or called a duplicate, each in one step.
* `UserIngress`. From `Receive` through `FindTurn`, `FindTrack`, `AttachTurn`,
  `WriteTrack`, `WriteThread`, `Analyze`, `MemoryWorks` (steps of `MemoryWrite`
  by the same process) and `Route` to `FindTask`, `WaitTrack` and `WaitThread`.
* `Brain`. A step is one of `UserIngress`, one of a callback handler, or one of
  an LLM process. Graph and handlers share `executor_tasks`; a handler reads the
  track in `load_track_by_capsule`, and `EventsHaveTrack` says that the read
  cannot fail. Of an LLM turn there is here what it does to turns and tracks:
  `LlmBegin`/`LlmBootstrap` and `LlmEnd` are its two transactions, each of which
  sets the track active.
* `LlmTurn`. `SaveUserTurn` is the first transaction, `SaveAnswer` the second;
  between them `ReadRecent` and `ReadAnalysis` build a context (twice when the
  model asks for memory), with `CaptureSignal`, `RunNlu`, `Stage1`,
  `SelectMemory` and `Stage2` in the order of `run_turn`, and `ProviderFails` or
  `TimesOut` at each of the three calls. The signal hook of an adapter that
  has one (none in `src/` does) raises anything or nothing, and `Caught` is what its two `except` clauses let go on. An exception
  ends a process with the message of `main` when `main` expects it (`FailTurn`)
  and with a traceback when not (`Escape`): a timeout, and in place of
  `SaveAnswer` a candidate whose `recommended_action` has no hash or whose
  confidence is no float (`SaveRaises`). A context is forgotten when the model
  has answered it (`DropContext`), since nothing reads it after that. An answer of the provider is a payload,
  which `LlmContracts` repairs and accepts or refuses as the contract does.
* `LlmContracts`. A loop that leaves elements of a list out is read as the set of
  positions it keeps (`AtPositions`), and sorting as the ranks of the elements
  (`InOrder`): what either makes of a list of any length can then be reasoned
  about without a fold. `Stage0Payload`, `Stage1Payload` and `Stage2Payload` say
  what a JSON object can look like to the contracts.
* `ServerNow`. Stamps are numbered as they are taken. One of them may fall on a
  full second: `isoformat` then leaves out the fraction, and as text `...05Z`
  sorts after `...05.1Z`. A turn's or an assignment's place in an `ORDER BY
  created_at` is that of its stamp, which is not that of its row.
* `Migrations`. `OpenLedger`, `ReadApplied`, and for each script `RunScript`
  (`executescript`) and `RecordVersion`, or `VersionTaken` when another process
  recorded it first.
* `Identity`. Insertions, `BuildAssignment` (the caller makes the object, stamp
  included) and its later insertion, its update; `resolve_by_phone` and
  `get_current_persona_phone` as queries.

Texts, ids and payloads are members of small sets. A text is characterised by
what the code asks of it: is it blank, does it contain `delegate:`, does it
start with `remember:`, what is it deduplicated by. A phone is characterised by
what its digits are. A model's payload is characterised by what its contract
looks at, the candidates in it, the ids it selects, and whether a dict in it has
the key `summary`.

## Runs

Operators commented as mutants in the modules are plausible slips in the
definition that follows them; no specification uses them. Putting one in the
place of that definition breaks the property `PROJECT.json` pairs it with.

| Run (`.cfg`) | Instance | Distinct states | Shows |
|---|---|---|---|
| `MCCallbackHistory` | 2 handlers, 3 events of one capsule (finals in and out of order, one of another executor, one that is not final) | 368,000 | ten properties, among them `ImplementsInbox` and `FreshEventsApplied` |
| `MCExecutorCallbackRetry` | 1 handler that may die, endless repetition | | violated: `RetriedCallbackSettles` |
| `MCExecutorCallbackMismatch` | 1 event of another executor | | violated: `AppliedAfterGraphSuccess` |
| `MCMemoryWrite` | 2 writers, 4 candidates on 2 dedupe keys | 37,000 | four invariants, `ImplementsBook`, `StagedWhileNew` and `SavedMemoryLands` |
| `MCUserIngress` | 2 runs, 3 deliveries of 5 messages, 2 threads, 3 tracks | 389,501 | eight invariants |
| `MCBrain` | 2 user runs, 1 LLM run, 1 handler, 1 event, 2 deliveries | 461,456 | `ServesCallbacks`, `EventsHaveTrack`, `CompletedWasDelegated`, `OnlyLlmTurnsEndWaits` |
| `MCBrainFeedback` | 1 run, 1 handler, none dies | | violated: `FeedbackReachesTrack` |
| `MCLlmTurn` | 2 processes, 2 tracks, 3 messages | 1,243,376 | seven invariants |
| `MCLlmTurnPoisoned` | 1 process, decisions with a key `summary` | | violated: `EveryMessageAnswered` |
| `MCLlmTurnTimeout` | 1 process, 1 message | | violated: `FailuresReported` |
| `MCMigrations` | 3 processes, the 4 scripts there are | 5,437 | `SchemaInOrder`, `SchemaCompletes` |
| `MCIdentity` | 2 callers, 2 persons, 4 spellings of phones, 3 stamps | 211,632 | `PhoneLeadsBack`, `NewestPhoneStays` |

Bounds. A race on a row needs two processes; `Migrations` has three, so that a
process may race with one while the other has died in the middle. Three events
of a capsule are the least with which an event is stale while another is being
counted. `MaxDeliveries = 3` allows a message, its repetition and another one
between them. `MaxMessages = 3` with a context of two messages makes messages
fall out of it, and lets an answer that was stamped early be saved after a later
one. `LLM_CONTEXT_LAST_MESSAGES` (12 in the code) and
`SELECTED_MEMORY_MAX_ITEMS` (20) are set to 2 and 1 so that the limits bite.
`MaxAssigned = 3` allows an assignment to be built first, inserted last and
compared with a later one and with one of a full second. `ExecutorCallback`,
`MemoryWrite` and `Migrations` need no bound on what is repeated: their state is
finite whatever happens. Symmetry is used only for processes, tracks and
generated ids, and only where invariants and action properties are checked.

History variables, which no guard reads, record what a property is conditioned
on: `died` (some process died), `overlapped` (two were at work together),
`moved` (turns whose message was sent again on another thread). So
one run shows both what holds always and what holds of calls that a caller
serialises: `AppliedFinalsCounted`, `StaleNeverWrites`, `OneTrackPerThread`,
`TracksOwnTheirTurns` and `OnlyLlmTurnsEndWaits` are about behaviours in which
runs (of the graph, or of the callback service) did not overlap but may have died at every statement and started again on
what was left behind; `StatusesAgree` and `EveryTurnServed` also assume that none
died. `StagedWhileNew` says the same of itself
(`[]OneWriterAtATime => []...`). Racing processes break them, and the
documentation of the repository promises nothing about that. In `LlmTurn`,
`answers`, `failures` and `escaped` record what was saved, what `main` printed,
and which message ended its process with a traceback, and where that came from.

A property conditioned on `overlapped` or `died` says nothing of the race or the
crash it excludes; where the code lets such a thing happen, the `note` of the
hazard in `PROJECT.json` says so.

Deadlock is checked where the environment never stops. Runs whose messages or
stamps are bounded end, and say `CHECK_DEADLOCK FALSE`.

### Fairness

The code is straight-line Python without waiting, so a call that was started and
does not die goes on to its end: weak fairness of the steps of each process, and
nothing else, is what `HistorySpec`, `MemoryFairSpec`, `BrainCrashFreeSpec` and
`MigrationsSpec` assume of the program. Steps of processes that die are not made
fair by it, and crashes remain possible in all of them but `BrainCrashFreeSpec`:
`FreshEventsApplied` lets an event off once a handler died, `SavedMemoryLands`
and `SchemaCompletes` speak of behaviours in which processes die no more from
some point on.

Of the environment, `HistorySpec` and `BrainCrashFreeSpec` assume nothing: no
message and no callback need ever come. `SavedMemoryLands` names the one
submission that has to be repeated. `MigrationsSpec` has programs started for
ever, without which nobody would need the schema. `RetryingSpec` has crashes, and
strong fairness of every delivery: an executor that never stops repeating. That
is the strongest environment one could ask for, and it does not help.
`UserIngress`, `LlmTurn` and `Identity` need no fairness: that a turn is served,
or a message answered, is an invariant of the states in which nobody is at work
on it.

## What the runs found

* `RetriedCallbackSettles`: an event whose handler stops after it is stored is
  never applied, since its repetition is answered as a duplicate
  (`api/executor_callback.py:57`).
* `AppliedAfterGraphSuccess`: an event that the graph fails for a mismatch of
  executors completes the task and is marked applied
  (`api/executor_callback.py:65`).
* `FeedbackReachesTrack`: a completed task does not end its track's wait
  (`graph/nodes/executor_ingress.py:81`).
* `EveryMessageAnswered` in `MCLlmTurnPoisoned`: a saved decision with a key
  named `summary` makes every later message of its track fail
  (`context_builder.py:130`).
* `FailuresReported`: a timeout while the answer is awaited is not a `URLError`,
  so neither `post_json` nor `main` catches it, and the process ends with a
  traceback in place of the failure message (`llm_provider.py:354`).

Seen while modelling, and left without a run:

* on the graph path the two INSERTs of `bootstrap_or_load_track` commit one by
  one, though its docstring says "atomically" (`db/repository.py:77`, `:111`);
  in `UserIngress` a run may die between `InsertTrack` and `InsertThread`, and
  no later message adds the row of the thread;
* the Stage 1 context is given the summary of the Stage 0 frame after the check
  for summaries (`llm_orchestrator.py:43`), while the repository's README has
  no free-form summary in a context (`src/README.md:55`);
* a full second's stamp sorts after the later ones of that second
  (`contracts/base.py:17`), so the "latest" analysis or assignment may be the
  earlier of the two; `AnalysisCoversContext`, `ContextIsTail` and
  `NewestPhoneStays` name that exception, and do not hold without it;
* a migration script may run twice, when a process dies or another overtakes it
  between the script and its record (`db/migrate.py:30`); every statement of the
  four scripts is `IF NOT EXISTS`, so it does no harm, and the mutant of
  `SchemaCompletes` shows what it would do otherwise. A process that loses the
  race ends with an `IntegrityError`;
* `used_memory_ids` of an answer is not held against what the context offered;
* an unhashable `recommended_action` raises `TypeError` out of the second LLM
  transaction (`cli.py:179`), and an integer confidence too large for a float
  `OverflowError` (`cli.py:175`); the transaction is undone, and the process ends
  with a traceback, as no exception of `main` (`cli.py:320`) is one of them.
  `MCLlmTurn` has such candidates, and `EveryMessageAnswered` names them;
* `context_debug`, which calls itself read-only, runs the migrations, and its
  signal preview raises a `ValidationError` for a blank message.

## Proofs

Each theorem is about the specification the run checks, or the same without
fairness, for all constants that satisfy the named assumptions of its modules:
these say that the inputs are well formed, that the absent row is not a row, and
that event ids, which are counted, are finitely many. Every invariant and every
action property of a passing run is stated by a theorem.

**`ExecutorCallbackProofs`.** `TypeCorrect`, `HandledOnce`, `AppliedAfterEffect`,
`AttemptsNeverOvercount`, `StaleVerdictJustified`, `RepliesStayTrue`,
`CompletionsJustified`, and `Refinement`: `Spec` implements `CallbackInbox`.
None of these invariants is inductive. What makes them so is `HandlingInv`: a
handler past the insert handles the event as it was stored and decided to be
fresh, it is the only one, the event is not yet marked, and a handler past the
write has completed its capsule. `CountInv` then bounds both `attempt_count` and
every `readAttempts` by the finals that are settled without the reader's own, so
that the write of the reader's value plus one stays within the bound. That bound
never sinks is a lemma on the cardinality of the set of settled finals.
`RepliesInv` adds that an answer was about a stored event, which nobody decides
again. The refinement follows step by step from `HandlingInv`.

**`CallbackHistoryProofs`.** `DecisionStands` and `NoUpdateLost`, of handlers
that run one at a time and may die anywhere. `HistoryImplements` (the history
variables steer nothing) brings `HandlingInv` over. `AloneInv` is conditioned on
`~overlapped` as a whole, which is what makes it inductive: one handler is at
work, a handler that holds the verdict "fresh" still would decide so, one about
to write has read the `attempt_count` there is, and the finals of a capsule whose
update is done are no more than its `attempt_count`. `Written` counts an event
from its update on and not from its mark, since a handler may die between them.

**`MemoryWriteProofs`.** `MemoryTypeCorrect`, `UniqueMemory`, `AtomicOutcomes`,
`JustifiedSkips` and `NoBypass`, from `SubmissionsAssumption` alone. The
strengthening `MemoryInv` says that a writer past `find` has a stored candidate,
and what each decision in flight knows of it: a skip names conflicts that are
active memory, a write and a staging follow the recommendation. It says nothing
of the absence of conflicts, which is what another writer may invalidate.
`KeepsTheBook`: the pipeline implements `MemoryBook`. The one step that is not
plain is a skip, whose audit row has to name all the memory that says the same
although it was looked up before the transaction: `FoundIsAll` has it from
`OneMemoryPerDedupeKey`, as memory found once stays and no second can be added.
`StagesWhatIsNew` adds, for `[]OneWriterAtATime`, that a decision to stage was
made on an answer that is still empty (`StagingNew`); the two temporal formulas
are related by one induction under both.

**`UserIngressProofs`.** `PipelineUsed` says that the graph path is a use of the
memory pipeline its specification allows, so that what was proved of
`MemoryWrite` holds here without being proved again. `RunHolds` relates a run's
`turn`, `message` and `track` to stored rows; with it `UserTypeCorrect` and
`ReferencesNeverCross` follow. For `WaitsHaveTasks`, `WaitInv` adds that a run
that is about to write `waiting_for_executor`, or that has read it and will write
it back, is on a track that has a task. For `MemoryIsOfTurns`, `RunRemembers`
relates the run's candidate to its turn and `CandidateInv` the stored candidates to
theirs; a message sent again with another text or thread does not change the
text of the stored turn, and that is what the proof turns on.

Of runs that work one at a time: `OneTrack` and `OwnTurns`, and, when none died
either, `StatusAgrees` and `TurnsServed`. Their strengthening is `SerialInv`.
`OpenInv`: a thread found without a track has none when the track is inserted.
`StatusInv`: a thread's row differs from its track's only between the two
UPDATEs of the run on it, and what the second will write is what the first has
written. `OwnInv`: every turn a track or one of its tasks refers to is its own,
unless it was moved. `ClearInv`: the candidate of a run that created its turn is
in no table before its outcome, and a decision to write holds when it is applied,
so that such a run is not rolled back. `ServedInv` says how far a run has served
the turn it created at each place in the program, and that the turn is served
wholly once the run is over.

**`BrainProofs`.** `CallbacksServed`: the composition implies
`ExecutorCallback`'s `Spec`, so all theorems on the callback service carry over.
`StoredEventsHaveTrack` follows from it with `TasksAsked` (a task is on a stored
track and repeats the text of a stored, attached turn) and `HandlersHold` (a
handler that is past the stale test has seen its task). `CompletionsAsked` is
the composition of `TasksAsked` with the fact that only existing tasks are
completed. An LLM turn takes part: it has no text that matters to a task, and it
only ever writes a status of a track that is there. `WaitsEndByLlmTurns` is the
action property `OnlyLlmTurnsEndWaits`. A graph run writes back the status that
it read, and `SeenWaits` says that while graph runs work one at a time it has
read a wait that is there; an LLM turn in between can only end the wait, never
begin one.

**`LlmTurnProofs`.** From `PayloadsAssumption` and `LimitsAssumption`, for any
processes, tracks, memory, limits and answers of the model:

* `LlmTypes`, from `Shape` (what a process remembers points at rows that are
  there, a stamp taken for an answer is nobody else's) and `RestTyped`.
* `ActsAlwaysRepaired` and `SelectionComplete`, from `StagesAgree`: the stage a
  process is in fits its place in `run_turn`, and what it holds there is what the
  contracts let through. They rest on what `Dedupe` makes of every list
  (`DedupeKeeps`): the positions it keeps are in order, hold each value once and
  miss none. `Positions`, `FirstPosition` and `InOrderSorts` say so by
  cardinalities of sets of positions, where a recursive definition would have
  needed an induction.
* `AnswersSavedWhole`, from `Whole`: each assistant turn has one analysis and an
  answer that is not blank, each candidate comes from an answered message, and no
  track has two candidates of one dedupe key.
* `ContextsAreTails`, from `ContextsAgree`: a context is sorted, and closed
  upwards. All it may miss is a turn saved after the message and after every turn
  of the context, which was not there to be read.
* `AnalysesCover`, from `AnalysesAgree`, `ContextsAgree` and `Whole`.
* `MessagesAccounted`, of the program as it is: while no process died, a message
  that nobody works on was answered, or reported as failed, or ended its process
  with a traceback, at a request that timed out or at a candidate that raised;
  and what failed, either way, is not answered as well. `SignalCaught` is the
  lemma that the signal hook adds no fourth case.
  `MessagesAnswered` adds `NoSummaries`, that the model answers no dict with a
  key `summary`, for the stronger `EveryMessageAnswered`. The hypothesis is
  needed: without it `MCLlmTurnPoisoned` violates the property.

**`MigrationsProofs`.** `MigrationsTypeCorrect` and `MigratesInOrder`, for any
number of processes and of scripts. `LoopInv`: what a loop has left out is
recorded, and a process about to record a version has run its script.

**`IdentityProofs`.** `PhonesLeadBack`, for every idempotent normalization, and
`NewestPhonesStay`, for any number of callers. `KeysInv`: raw values are stored
under their own key, and an inserted assignment refers to a stored one.

`HandledOnce`, `NoBypass`, `PipelineUsed` and `MessagesAccounted` are proved and
no property of a run: `ImplementsInbox`, `ImplementsBook` and, in its instances,
`EveryMessageAnswered` say more.

Only model-checked: `FreshEventsApplied`, `SavedMemoryLands` and
`SchemaCompletes`. They are liveness properties, and fairness and ENABLED are out
of the prover's reach. The counterexamples of the runs that expect a violation
are TLC's as well.

## Not modelled, and why

* `llm_provider.py` beyond requests that fail, time out or are answered with a
  payload: HTTP, JSON and prompts are input and output.
* The Phase V1 classes of `contracts/analysis.py`: they check one field at a
  time, and no code but the signal hook, which no provider has, fills them. The
  other contracts are validators of one object.
* The status `CLOSED`, the nodes `ask_clarification` and `close_track`, pinned
  messages, personas and aliases: nothing in the code reaches them.
* The size of a context in characters (any suffix may be kept), and an empty
  message over the limit; the memory manifest and its counters; what the signal
  hook returns, which only goes into the result of `run_turn`, and what the Stage
  0 frame puts into the text of a context.
* Text that SQLite cannot store (a lone surrogate in an answer of the model): its
  exception is a `ValueError`, which undoes the transaction and is reported as
  any failure is.
* The reducers of `graph/state.py`, which merge references within one run.
* `config.py`, `run_demo.py`, `context_debug.py`, and the debug extraction of the
  signal service: environment, printing and text matching, without state.

## Plan

The order followed so far is that of importance: the callback service, which
promises idempotency; the memory pipeline, which promises not to be bypassed;
the user path that feeds both; the LLM turn with its contracts and stamps; their
composition; migrations and identity.

The plan's theorems are proved. Next, as models: the reducers of `graph/state.py`
against a reference definition, with what they preserve as lemmas; and an
abstract dialogue of which `UserIngress`, for runs that work one at a time, is an
implementation, in place of the four properties that describe it piece by piece.
