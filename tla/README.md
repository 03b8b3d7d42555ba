# Verification of the agent system

TLA+ models of the platform in `src/`: a multi-service backend that runs LLM
agents as *jobs*.  An API gateway admits a job, an orchestrator runs the agent
loop, tool workers execute tools, events stream to the browser through Redis,
an archiver writes the conversation to PostgreSQL, and billing services meter
all of it.

This directory holds the specifications (`*.tla`), the TLC configurations
(`*.cfg`), the machine-checked proofs (`*Proofs.tla`) and `PROJECT.json`, which
maps each definition to the lines it models and lists runs, mutants, hazards
and theorems.  Paths below are relative to `src/services/` unless they start
with `src/`.

To run: `tlc -config core.cfg MCSuspendResume.tla`, and so on with the table
in section 4, and `tlapm SuspendResumeProofs.tla` and so on for the `*Proofs` modules.

---------------------------------------------------------------------------

## 1. Inventory

### 1.1 How a job goes through the system

    browser --POST--> api-gateway --Kafka agent.jobs--> orchestrator (JobHandler)
                                                          |  saves job_snapshots (PostgreSQL)
                                                          |  Kafka tool requests --> tool-workers
    browser <--SSE-- stream-edge <--Redis stream+pubsub--- |        | SETEX tool_result:<id>
       |                                                   |        v
       +--POST tool result / confirm--> api-gateway    Kafka agent.job-resume
                     |                                     |
                     +--Kafka agent.confirm--> ConfirmHandler, ResumeHandler (lock:job:<id>)
                                                           |
    archiver <--XREADGROUP-- Redis stream  ----> chat_messages, jobs (PostgreSQL)

Services meet in four places only: Kafka topics (at least once, one consumer
group per service), Redis keys (lock, tool results, event stream, wallet cache,
rate counters), PostgreSQL rows, and the browser's HTTP requests.  Every service
is asyncio: a "task" below is a coroutine that can be interrupted at every
`await`, and several processes of each service may run.

### 1.2 Components

| Component | State it keeps | Operations | What is hard | What makes it correct |
|---|---|---|---|---|
| **Agent loop, suspend/resume** (`orchestrator/src/engine/agent.py`, `handlers/{job,resume,confirm,tool}_handler.py`, `services/snapshot_service.py`) | `AgentState`, rows of `job_snapshots`, `jobs.status`, `tool_result:<id>` keys | handle_job, execute_streaming, dispatch_tools_async, handle_resume, resume_from_snapshot, handle_confirmation | signals handled by concurrent tasks of several processes; a tool that answers before the job handler has finished; crashes between save, dispatch and release; results and locks that expire; rows that tie on `sequence_num` | a tool is never sent out before a durable snapshot waits for it; each result enters the conversation once; every request to the LLM is well formed; the row never runs ahead of the snapshots; a job whose tools have answered goes on |
| **State lock** (`services/state_lock.py`) | one Redis key per job with a TTL | acquire, release, extend | TTL shorter than the work; release without ownership; death of the holder | a second handler works on a job only after a key expired under the first |
| **Multi-phase engine** (`engine/phase_executor.py`, `engine/phases.py`, `handlers/user_response_handler.py`) | `PhaseState` in `AgentState.metadata`: phase, groups of sub-tasks, index, evaluations, draft | triage, decompose, execute, synthesize, evaluate, respond, ask the user, resume after tools or an answer | three handlers load and save one state; suspension in any phase; late and repeated answers; added groups | findings are combined only when every group has run; no answer is streamed over an open tool call; an ended job is left alone |
| **Tool workers** (`tool-workers/src/main.py`) | none but Kafka offsets | handle_tool_request | crash between result, signal and commit; a signal that cannot be sent | a stored result is announced |
| **Job events** (`orchestrator/.../event_publisher.py`, `src/libs/messaging/redis/*`, `stream-edge/src/routers/events.py`, `handlers/catchup.py`) | stream `events:<job>`, channel, `last_yielded_id`, browser's Last-Event-ID | publish_event, event_generator, hot and cold catch-up, periodic check | an event between subscription, catch-up and live loop; two publishers; reconnection; at-most-once pub/sub | each event once, in order, none missing |
| **Archiver** (`archiver/src/services/{redis_reader,postgres_writer}.py`, `main.py`) | consumer group position, buffer, rows of `chat_messages` | read, add_event, flush, stop | acknowledgement before persistence; two instances numbering rows; ambiguous COMMIT; cancellation during a flush | every event archived once, in order |
| **Kafka consumer/producer** (`src/libs/messaging/kafka/`) | running tasks, positions and committed offsets, retry counter | run, _process_message, retry, commit, stop | a `commit()` of one task commits the offsets of its siblings; a rebalance under running tasks; shutdown at the concurrency limit | no message is skipped; offsets only advance |
| **Partner wallet** (`api-gateway/src/services/wallet.py`) | cached balance in Redis for a minute, balance row, deposits, credit pool | get_balance, debit, create and complete deposit | check and decrement apart; a stale value stored; a rejected amount put back on another key; a deposit completed twice | deposits are credited once; the row is overdrawn only by the races of the cache |
| **Credits** (`services/billing.py`, `services/subscription.py`, `jobs/credit_reset.py`, `jobs/topup_expiration.py`) | plans, subscriptions, top-ups, usage records | create, change, cancel, reactivate, renew, consume, buy and expire top-ups | a status read renews without a lock; top-ups bought or expired between two steps of a consumption; the job and a read renew one period | top-ups are accounted for and spent oldest first; one renewal a period |
| **Reservations** (`services/billing.py`) | reserved credits | reserve, settle, release, expire | the release of what was already settled | not modelled: section 8 |
| **Admission and cancellation** (`routers/chat.py`, `routers/jobs.py`) | `jobs` rows, messages | create, cancel, confirm, tool result, user response | row without message and message without row | a question is stored before its job is sent |
| **Rate limits, key caches** (`middleware/rate_limit.py`, `services/*api_key_cache.py`) | windows and cached keys in Redis | check, populate, invalidate | check and add apart; a cached key outlives its row's change for the TTL | not modelled: section 8 |
| **Conversations** (`services/conversation.py`, `routers/{conversations,chat}.py`) | tree of `chat_messages`, `active_branch`, jobs; events not yet archived | post, edit, switch_branch, get messages, archive | two posts that read the tree at different moments; answers half archived; branch maps read and written apart | an answer stands whole after its question; who writes sees it; answers move nobody to another branch |
| **Live sessions** (`live-session-manager`, `websocket-gateway`) | `LiveSessionData` shared by five asyncio tasks, the session's row, pub/sub channels | start, pause, resume, interrupt, end; transcripts, turns, answers, speech, the timer | every await lets another task change the state; cancellations that are swallowed; messages nobody hears | the answer to a turn is heard but for four named reasons; what was interrupted stays silent; a session ends |
| **LLM providers and the agent's parser** (`src/libs/llm/`, `engine/agent.py`) | partial tool calls, pending text, refused parameters | stream, complete, complete_structured, retries | thinking tags cut anywhere; pieces of overlapping calls; refused parameters; truncated answers | text is split as written; calls are handed over whole and in order; a refused parameter is not sent again |
| **Chat window** (`src/frontend/packages/chatbot-ui`) | the message under construction: text and steps | the event handlers of `RealChatClient`, `MessageBubble` | thoughts, text and tools in any order; results in any order | what was sent is shown once and in order |
| **Feature flags, files and knowledge base, admin/users/partners/auth routers, the rest of the frontend, migrations, scripts** | database rows, objects | create, read, update, delete | dual writes of files | one transaction each |

### 1.3 Hazards

`PROJECT.json` lists every hazard at its line, with the properties that would
catch it.  They fall into six groups:

* *Who works on a job*: resume tasks competing for a lock, the job handler that
  takes none, a lock that expires under a long LLM call, a crash with the lock held,
  three services that write one status.
* *What is durable when*: snapshot before dispatch, row after snapshot, several
  snapshots of one sequence number, acknowledgement before persistence.
* *What is lost or repeated*: dropped signals, redelivered messages, pub/sub
  messages nobody hears, an `XADD`, `PUBLISH` or `COMMIT` that raised after it was applied.
* *Money*: a cached balance behind its row, periods renewed by two parties, one
  debt paid from several top-ups.
* *What is shown*: text cut at any letter, answers half archived, branches that
  two clients change, an interrupted voice.
* *Limits*: max iterations, max resume rounds, catch-up limits, the batch size
  of the archiver.

---------------------------------------------------------------------------

## 2. Plan

The modules, the most important behaviour first.

| Module | Models | Composes / refines | Runs | Theorems |
|---|---|---|---|---|
| `SuspendResume` | one job: job handler, resume and confirm tasks, workers, browser's answers, Redis, snapshots, topics | implements `ToolTurns` | core, failures | type correctness, lock exclusion, snapshot before dispatch, row after snapshot, well-formed conversations, results shown, sequence numbers, results injected once, stuck only if something was missed |
| `ToolTurns` | abstract specification: turns of tool calls | - | (core) | `SuspendResume` implements it, where nothing fails |
| `StateLock` | the Redis lock with time | - | lock | who is let in by keys that expire; whose a key is |
| `Phases` | the multi-phase engine and its three handlers | takes the lock, calls and crashes of `SuspendResume` as one step each | phases | type correctness and all three properties |
| `JobEvents` | publishers, stream, pub/sub, SSE connection, browser | - | events | type correctness, received once, no gap, nothing missed at the hand-over |
| `Archiver` | two instances on one stream, and who else writes the job's status | - | archiver | type correctness, archived once, numbered in order, ended stays ended |
| `KafkaConsumer` | members of a group on one partition: loop, tasks, commits, rebalance, shutdown, crash | - | consumer | no message skipped, offsets advance, handled once per assignment |
| `Credits` | plans, subscriptions, renewals, top-ups, consumption | - | credits | type correctness (credits never negative), top-ups accounted for, oldest spent first, one renewal a period |
| `Wallet` | cached balance and row, debits, deposits | - | wallet | type correctness, deposits accounted for, overdrawn only after a race |
| `Conversations` | the tree of one conversation, concurrent clients, the archiver | - | conversations | answers in place, own writes shown, answers keep the branch |
| `LiveSessions` | one live session: the manager's tasks, gateway, client | - | live | type correctness, silenced answers stay silent, turns are followed |
| `ModelCalls`, `ChatView` | providers, the agent's parser, the chat window | `ModelCalls` extends `ChatView`, so what is parsed is checked up to what is shown | streams | text split right, answers handed over whole, refusals settled, messages shown as sent |

The first module is the heart of the system: everything the platform promises a
user rests on a suspended job being resumed once, with all its results.  `MC*`
modules hold the definitions TLC's configurations need.

---------------------------------------------------------------------------

## 3. Modules

### 3.1 SuspendResume

One job in suspend/resume mode (`enable_suspend_resume`, the default).

| Variable | In the code |
|---|---|
| `lock` | the key `lock:job:<id>`; the task whose `SET NX EX` created it |
| `results` | the calls `c` whose key `tool_result:<c>` exists |
| `snapshots` | the *distinct* rows of `job_snapshots`; `sequence_num` is the field `iteration` |
| `jobStatus` | `jobs.status` as `SnapshotService` writes it |
| `work`, `stored`, `signals`, `decisions` | Kafka messages, or calls a browser has heard, not consumed; `stored[c]` is a worker between `SETEX` and the signal |
| `prompts` | confirm_request events the user has seen |
| `pc`, `state`, `todo`, `fetched`, `rounds`, `msg` | program counter and locals of each asyncio task |
| `failures`, `clicks` | budgets (bounds) |
| `used`, `decided`, `executed`, `injected`, `emitted`, `unseen`, `missed`, `expiries`, `handledAgain` | history, read by properties only |

An action is the code between two awaits that other tasks can observe.
`StartJob` is `handle_job` up to the executor; `MaxIterationsReached`,
`NextIteration`, `Checkpoint`, `LLMCallsTools`, `LLMAnswers`, `StreamEndsEarly`,
`SaveWaiting`, `UpdateWaiting`, `DispatchTool` and `ExecutorFails` are
`execute_streaming` (the same for `execute`); `FinalSave`/`FinalUpdate` the end
of both handlers; `TakeSignal` ... `StopResuming` is `handle_resume`,
`TakeDecision` ... `SignalRejection` is `handle_confirmation`; `RunTool`,
`SendSignal`, `SignalFails`, `StoreFails`, `WorkerCrash` the worker or the browser.

Decisions that matter:

* `load_latest_snapshot` orders by `sequence_num` only, so among rows that tie any
  may come first: `LatestSnapshots` is a set and the load picks one of it.
  Because the choice is arbitrary, duplicates of a row do not matter and the table is a set.
* A conversation is the set of calls asked and the set of calls answered.  What
  the properties ask of it is whether each request to the LLM answers every call
  it contains.
* A resume signal's payload is only logged; the handler reads Redis.  So the topic
  is a counter.
* `HandlerFails`: an exception in a handler outside the executor publishes an
  error event, releases the lock in `finally`, and the message is committed.
* `Crash` kills the tasks of any subset of the three consumer groups.  The message
  of a dead task comes back, or does not if a sibling task's `commit()` had
  moved the offset past it.
* `SendOut` is a request to execute: to a worker on Kafka, or, for a tool of the
  browser, a `client_tool_call` on the job's channel, which nobody keeps for a
  browser that does not listen just then (`not_heard`).  `DispatchTool` and
  `ForwardConfirmed` both send that way.
* `EmitToolResults` publishes the results that `_should_emit_tool_event` allows
  (`Hidden` are the tools it does not); one that cannot be published is logged and marked as
  shown all the same (`unseen`).
* `OutliveLock`: the key expires under a task at work, which goes on and deletes
  whoever's key it finds when it leaves; `expiries` counts them.
* `missed` records what came to nothing since the last turn was saved: a signal or decision
  (lock held, snapshot not waiting, too many rounds, handler failed, send failed), a
  result (store failed, expired), a browser's call (not heard), or a task (crash).
  `SaveWaiting` clears it, so that `StuckOnlyIfMissed` blames a turn's standstill
  on that turn.
* `Orderly` is the one condition some properties have: no task has outlived its lock and
  the job message was not handled again once the job was suspended.  After either, two
  tasks work on the job at once, and turns mix.

Properties: `LockExclusion` (one task at work, and one more for each lock that
expired); `SnapshotBeforeDispatch` (no tool is in flight that
no durable snapshot waits for); `ConversationWellFormed`; `RowAfterSnapshot`;
`SequenceIdentifiesTurn` (the arbitrary choice among ties never mixes turns: a
suspended row of one sequence number always stands for the same pending calls);
`InjectedOnce`; `StuckOnlyIfMissed`; `ResultsShown` (a result the agent used was
shown to the user, but for hidden tools and failed publications); `ImplementsToolTurns`;
and, under fairness, `JobEnds`: the job ends unless a failure, something missed
(see section 7), the user or the browser keeps it.

### 3.2 ToolTurns

The abstract specification: `Ask`, `Provide`, `Take`, `End` over four variables.
The refinement mapping reads them from the history and the snapshots (`Turns` at
the end of `SuspendResume`).  It says what a user may rely on: the agent takes
all the results of a batch at once, only when every one exists, and asks for
more only after that.

### 3.3 StateLock

`DistributedStateLock` with a TTL in ticks: `Acquire`, `Release` (deletes the key
whoever set it), `Extend` (prolongs it whoever set it), `Tick`, `Die`.  Handlers may work
longer than the TTL, as nothing in the code prevents it and no handler calls `extend`;
`expired[j]` counts the keys of `j` that expire while somebody works on `j`.
`Exclusion` says what that costs: each lets one more handler in, and no more, although
`release` deletes keys of others.  `HolderHasKey`: until one does, a handler's key is its own and
lives as long as the TTL says (proved; no run asks it).

### 3.4 JobEvents

From `publish_event` to the browser.  The stream is a sequence and an entry's id
its position; `channel` is what the connection's subscription has received; `batch` is
what a catch-up has read and not yielded yet, a set because it is yielded by id;
`conn` is where `event_generator` stands; `lastId` is `last_yielded_id` and,
because what was yielded and lost is treated as never yielded, the browser's
Last-Event-ID as well.

* `Add`, `Publish` are separate because another task may run between `XADD` and
  `PUBLISH`; `AddFails`, `PublishFails` may have been applied or not.
* `HotCatchup`, `ColdCatchup` + `HotAfterCold`, `YieldCaught`, `SkipDuplicate`,
  `Forward`, `CheckMissed` are the steps of `event_generator`.
* The browser (external) reconnects with Last-Event-ID; without one its used token is refused.
* `excused` are the ids the connection could not deliver: overtaken (published after
  a later id), beyond `catchup_max_events`, or hit by a Redis failure.  The
  properties say there is no other way to miss an event.

Properties: `ReceivedOnce`, `NothingMissed`, `PrefixReceived` (no gap
below the Last-Event-ID, at every moment, so that a reconnection is sound),
`TerminalArrives`.

### 3.5 Archiver

Instances of the archiver on one job's stream: the consumer group (`delivered`,
`pending`), per instance a reader (`batch`, `buffered`), the writer's `buffer` and
its transaction (`flusher`, `stage`, `events`, `base`, `loaded`), and the tables.
`flusher` names the task that holds the writer's asyncio lock.  A transaction is
three steps, `ReadMax`, `LoadJob`, `Commit`, because two instances interleave
them.  `lost` and `unsure` are history: entries no instance will archive any
more, entries of a COMMIT that raised after it was applied.


`jobs.status` has other writers: `SnapshotService.save_job` and `update_job` in the
orchestrator and the gateway's cancellation.  `SaveJob` is any of them, at any moment, between
the archiver's SELECT and its COMMIT too; `reopened` is history: one of them took back an end.

Properties: `ArchivedOnce` (no entry has two rows but for an ambiguous COMMIT),
`NumberedInOrder` (rows of one instance are numbered as the stream has them), `EventuallyArchived`, and
`EndedStaysEnded`: once one instance has archived the job's start and its end, the job is ended,
whatever was saved meanwhile, unless a service saved another status over the end.  Before
that an archived start may well turn an end the orchestrator has written back to running.

### 3.6 KafkaConsumer

The consumer every service uses, on one partition.  `position[m]` is where member
`m`'s iterator stands, `committed` the group's offset, `active[m]` is
`_active_tasks`, `waiting[m]` the message `run` holds while it waits for a slot,
`up[m]` the process; `gen` counts assignments, so that tasks of an old one can be
told from new ones.

* `Deliver`, `DeliverAtLimit`, `StartWaiting` are `run`; `HandlerReturns`,
  `HandlerRaises`, `Commit`, `CommitFails` are `_process_message`.
* `Commit` is `commit()` without arguments: the position of the iterator, if the
  partition is still the member's.
* `HandlerRaises` leads to a commit like success does: `_retry_message` sleeps and
  logs.  The branch for the dead letter queue needs a header nobody sets.
* `Assign`, `Rebalance`, `LeaveGroup` (broker), `Crash`, `Restart` are external.
  `Shutdown` cancels `run` wherever it waits, whose `finally` lets the tasks end.
* `failed` and `dropped` are history: handlers that raised, and messages that were
  with a member when it crashed, or waited for a slot when it was stopped.

Properties: `NothingSkipped`, `OncePerAssignment`, `CommitsAdvance`, `EventuallyAnswered`.

### 3.7 Phases

A job in multi-phase execution.  `work[h]` is the state that handler `h` holds in
memory with the method it runs next; `snapshots`, `lock`, `running`, `results`
are those of `SuspendResume`, with all calls of a group as one.

* `Triage`, `Decompose`, `Execute`, `Synthesize`, `Evaluate`, `Respond` are the
  `_run_*` methods of `PhaseExecutor` with what they call: `Transition` is
  `_transition_phase` with the reflection, which may ask the user first
  (`AskUser`); `Suspend` saves the waiting state before the dispatch.
* `Stream` is one iteration of `AgentExecutor.execute_streaming`, where the mode
  `simple` and the phase `respond` end up.
* `HandleJob`, `HandleResume`, `HandleUserResponse` load a state, `Save` and `Fail`
  end a handler's work; `ResumeAfterTools` and `Recheck` are the resume handler's loop.
* What the LLM says is a choice: a plan of `Plans`, a follow-up group, an empty or a
  full draft, ask or proceed.
* `Latest` is any of the rows that share the highest sequence number; in the phases
  before the answer they all share 0.

Properties: `SynthesisCoversPlan`, `ConversationAnswered`, `NoWorkAfterEnd`; all
three are proved (section 6).

### 3.8 Credits

`sub[t]` is the tenant's row, `topups[t]` its top-ups in the order of `created_at`, in which
purchases are taken to commit,
`plan[p]` a plan.  A transaction that locks all it reads is one step; `consume_credits`
is two (`BeginConsume` takes the row's lock, `Consume` or `Insufficient` reads the
top-ups and ends it), and so is a status read (`ReadStatus`, then `WriteRenewal`
writes the columns it changed, as SQLAlchemy's UPDATE does).  `Owed` is the loop
over the top-ups.  `recorded`, `renewals`, `overwritten` are history.

`Owed` is written as a recursive function of the place in the list, so that it can be
reasoned about.

Properties: `TopUpsAccounted`, `OldestFirst`, `RenewedOncePerPeriod` (unless a late
status read has overwritten a period renewed since it read: then the counted
renewals and the row part).

### 3.9 Wallet

The row `wallet`, the key `cache`, the `pool` of the partner, `deposits`, and what each
request does next (`task`).  `Miss` and `Store` are the two halves of populating the
key; `Decrement`, `Restore`, the charge of the row are `debit`.  `raced` is history:
the key was given more than the row, less the debits under way, can pay.  `SetPool` is the platform
owner's PUT of the partner, which writes the pool without a lock; what the pool is after that is
not followed (`poolSet`).

Properties: `WalletAccounted`, `OverdrawnOnlyIfRaced`.

### 3.10 Conversations

A message is a pair of its job and a number, so parents need no table; `jobs` holds
each job's parent, whether its rows are committed and sent, and how many records of
its answer have been emitted and archived.  `op[c]` is what client `c`'s request
does next: a post (`BeginPost`, `ReadTree`, `CommitPost`, `PublishPost`), an edit
(`Edit`, `PublishEdit`) and a switch (`Switch`, `ReadBranch`, `WriteBranch`).
`Walk` is the walk of `get_conversation_messages_tree` along the chosen branch, over rows and
hot events: a function of what may come next (`Ahead`), the answer to the last message and the
questions met since the last one that was chosen.  Each step goes past an answer (`Past`) or under
the question chosen (`Under`).  `failed` counts requests that raised.

Properties: `AnswersInPlace`, `OwnWriteShown`, `AnswersKeepBranch`.

### 3.11 LiveSessions

A step goes from one await to the next.  `control` is the manager's control listener
with the messages of the gateway in `inbox`, `audio` the audio listener, `listener` the
response listener, `speech[t]` the task that speaks answer `t`, `timer` the session's
timer, `ending` how far `end_session` is; `session` is `LiveSessionData`, `turns[t]` the
way of a transcript to its job's answer.

* The audio listener interrupts an answer that is spoken over and then waits for its
  speech (`SpeakOver`, `AwaitSpeech`, `FinishSpeakOver`).  A cancellation that finds it there is
  swallowed (`manager.py:244`), so it goes back to its channel; `Pop` tells (`another`).
* `MissSession` and `ListenerFails` end a listener, `FailEnd` ends `end_session` half way.
* `overlapped` is history: the turns whose jobs were under way together with another's.

Properties: `TurnsFollowed`: when the answer to a turn comes that was never under way with another, the
response listener waits for it, unless it has not come to that job yet, is *deaf* (waits for
a job that could not be created or was answered before it subscribed), or has ended with a
failing call.  `SilencedStaysSilent` (an answer that had begun when an interrupt
came is not heard until another begins).  Under fairness `SessionEnds`: unless a call of the
end fails, or the end is `late`: it comes while the audio listener waits for a speech, or
while a turn is under way and something else sets the session's state.  Then the
session waits for audio, or an answer, that need not come (section 7).

### 3.12 ModelCalls and ChatView

A call of a model by provider and kind: the request with the parameters the model
refuses (`Params`, `Refused`, `Settles`; the reasoning effort is sent if the library knows it), the retries of structured completions (`Again`),
the stream's pieces (`TextArrives`, `CallBegins`, `PieceArrives`, `BlockStops`,
`Finishes`) and the agent's parser (`Take`, `Scan`, `Flush`), over texts of letters in
which the tags are `<>` and `</>`.  What is sent goes through `Handle` of
`ChatView`: the handlers of `RealChatClient`, and `ShownText` is `MessageBubble`.
`Split`, the reference for the parser, reads the whole text once.  `Scan` and `Split` are
recursive functions, on the states of the parser and on texts, and so is `HandleAll` on the
events of a step, so that theorems can be proved about them.

Properties: `SplitRight`, `HandedOverWhole`, `RefusalsSettled`, `ShownAsSent`.

---------------------------------------------------------------------------

## 4. Runs

| Run | Module | Asks | States |
|---|---|---|---|
| `core` | MCSuspendResume | what a sequence number stands for, how often a result is used, refinement of `ToolTurns`, that the job ends | 280 000 |
| `failures` | MCSuspendResume | the safety properties with one failure, expired lock or crash anywhere | 1.6 million |
| `lock` | StateLock | how many handlers the expiries of a key let in | 25 000 |
| `events` | JobEvents | duplicates, gaps, termination | 0.9 million |
| `archiver` | Archiver | where an entry may be, how rows are numbered, whether an end stands, everything archived in the end | 0.2 million |
| `consumer` | KafkaConsumer | that no message is skipped, handled twice in one assignment or left over | 90 000 |
| `phases` | MCPhases | what is combined, streamed over and taken up again | 0.5 million |
| `credits` | Credits | accounts, order of consumption, renewals | 3.6 million |
| `wallet` | Wallet | accounts, overdrafts | 7.1 million |
| `conversations` | Conversations | the branch shown | 59 000 |
| `live` | LiveSessions | turns, interruptions, the end | 0.6 million |
| `streams` | ModelCalls | parsing, calls, refusals, what is shown | 3.4 million |

All runs pass.  For each property of a run `PROJECT.json` names a mutant
of the code's model that breaks it under the same configuration.

### Bounds, and why they are enough

* **core, failures**: two resume tasks (exclusion, dropped signals and ties need one
  that holds the lock and one that does not; a third behaves as the second); three
  calls in `core` (two turns, one of them with two calls, and a call of the browser to confirm), two in
  `failures`, one hidden and one of the browser to confirm; `MaxIterations` 3 and 2, so that two suspensions and the limit are reached;
  `SnapshotInterval` 2 makes periodic snapshots collide with suspended ones, 9 switches
  them off; `MaxResumeIterations` 2: the second round and the limit happen; one
  failing call, expired lock or crash at any point (the properties name what a failure may cost;
  the theorems hold for any number), one confirmation.
* **lock**: three handlers, two jobs, handlers that work up to a tick longer than the TTL, so
  that keys expire under them; two such expiries per job.
* **events**: two publishers (overtaking), an event of each kind, `CatchupLimit`
  2 below the length of the stream (truncation), `MaxConnects` 2 (one
  reconnection), one Redis failure or cold catch-up.
* **archiver**: two instances, three entries (two messages and the end), `BatchSize` 2 (a
  full buffer and a partial one), `MaxTroubles` 1
  for everything that may fail, one status saved by another service at any time.  Without a start event (the
  publisher may lose one) the status goes from pending to ended; with one and four
  entries (1.5 million states) all four properties hold as well, but take several times as long, and
  `EndedJobsStayEnded` is proved for any starts and ends.
* **consumer**: two members, three messages and two slots (one message waits),
  one crash, shutdown, rebalance or failing commit.
* **phases**: plans of no, two plain and two mixed groups, one group added by an
  evaluation; two suspensions, two questions with two responses, so that one comes late or
  twice; two iterations of the agent loop; one failing LLM call.  The theorems hold
  for any plans and numbers.
* **credits**: one tenant, since rows of tenants are not related; a period and a top-up's
  life of one tick in two ticks of time, so that both end and a second period does; two
  top-ups and amounts 1 and 2, so that a debt is paid by the plan and by
  one, two or not enough top-ups; two requests that change plan or subscription.
* **wallet**: two requests in every interleaving, two deposits, one expiry of the key, the pool set
  at any time.
* **conversations**: two clients, three questions (siblings, and a follow-up of
  either), answers of two records, two switches, one request that fails half way.
* **live**: two turns (one overlaps the other or not), one control message besides
  start and the client's leaving, one failing call (of a turn, a listener or the end).  With `MaxTurns` 3 (20 million states
  without the liveness property) `TurnsFollowed` and `SilencedStaysSilent` hold as well; a third
  turn matters where answers overtake one another.
* **streams**: seven letters hold an opening and a closing tag and text around them, in
  every cutting into chunks; a call counts as three letters, so texts with
  two calls are short; two tools, one to confirm; two turns.

Symmetry is used in `failures`, which checks safety only.  Deadlock is
not checked where the system may stop: a job ends, a browser leaves.

### Fairness

* `SuspendResume`: weak fairness of the job task, of each resume and confirm task,
  of each worker's execution and signal, and of the expiry of an orphaned lock
  (Redis expires keys).  asyncio schedules ready tasks in FIFO order and every
  await in these handlers returns or raises.  No fairness for the user, for
  failures, crashes, or the expiry of results, nor for a browser's execution of a call it has
  heard.  `JobEnds` excuses behaviours in which a failure, something missed, an unanswered
  confirmation or a browser leaves the job suspended: nothing in the code retries then.
* `JobEvents`: weak fairness of the server's loop and of a publisher's second half.
* `Archiver`: weak fairness of reader, writer, shutdown and timer of each instance:
  `asyncio.Lock` is FIFO, so the timer is not starved by the reader.  Restart is not fair.
* `KafkaConsumer`: weak fairness of each loop, of each task (every handler returns or
  raises), of a stopping member's exit and of the broker's assignment.
* `LiveSessions`: weak fairness of the session's timer, of `end_session`, of the response
  listener, of each step of an interruption that has begun and of each speech (Deepgram ends or
  raises).  Nothing is asked of the client, the user or the orchestrator.

---------------------------------------------------------------------------

## 5. Refinement

`core` checks `ImplementsToolTurns`: the initial state maps to `ToolTurns!Init`
and every step to a step or a stutter.  `JobImplementsToolTurns` proves the same for any
number of tasks, calls and iterations.  Both are about behaviours without failures: after
a crash a redelivered job starts from scratch (section 7) and asks without taking.

`ModelCalls` composes two components: the agent's events are the chat window's
input, so `ShownAsSent` is about what a model said and not about events in general.

---------------------------------------------------------------------------

## 6. Proofs

All theorems are checked by TLAPS for every value of the constants allowed by the
named assumptions of the modules (any number of tasks, calls, plans, tenants,
iterations, failures, decisions), which TLC evaluates in the runs.  Every safety invariant and
action property of the modules below is proved; a hypothesis, where a theorem has one,
is in its statement and named here.

### 6.1 SuspendResumeProofs

| Theorem | States | Inductive invariant |
|---|---|---|
| `TypeCorrect` | `TypeOK` | `TypeOK` |
| `LockExcludes` | `LockExclusion` | tasks at work without the key are no more than the expiries; with `LockInv`, what holds until the first of them: a task at work is the one named in `lock` |
| `SnapshotPrecedesDispatch` | `SnapshotBeforeDispatch` | `Durability` |
| `RowFollowsSnapshot` | `RowAfterSnapshot` | `Durability` |
| `ConversationsWellFormed` | `ConversationWellFormed` | `ConversationInv` with `TypeOK` |
| `EveryResultIsShown` | `ResultsShown` | what a task or a row says was shown was emitted, is hidden or could not be published |
| `InjectedWasProduced` | no conversation holds a result nobody produced | with the answers of every task and row |
| `SequenceNumberIdentifiesTurn` | `SequenceIdentifiesTurn` | `TurnInv` while `Orderly` |
| `ResultsAreInjectedOnce` | `InjectedOnce` under `FaultFree` | `RunInv`, `AnsweredInv`, `CallsInv`, `InjectionInv` |
| `JobImplementsToolTurns` | `ImplementsToolTurns` under `FaultFree` | the same |
| `OnlyMissedWakeUpsStick` | `StuckOnlyIfMissed` | `UnmissedInv`, `AwaitedInv`, `FreshInv` |

`FaultFree` is `MaxFailures = 0`.  The two theorems under it need it: a
crash makes the job start from scratch, so that a call is asked and answered again.  The
others hold with any number of failures, crashes and locks that expire, at any step.
What `SequenceIdentifiesTurn` and `StuckOnlyIfMissed` say stops with the first accident of
`Orderly`; it is a part of the properties, and the crashes before which the job was
not suspended, of resume and confirm tasks, of workers, with messages that come again or not,
are covered.

*The lock.*  Once a key has expired, a task without it may delete another's.  What is counted is
not who has the key but how many tasks work without it: `OutliveLock` makes one such task,
and a release that takes another's key away makes one of its holder, but the releasing
task was one itself and is gone.

`SnapshotBeforeDispatch` is not inductive: a task that dispatches must be known to
have saved its state, and that the state it dispatches from waits for the call.
`DurableInv` says so per task (`state[t] \in snapshots` from "update" to "dispatch",
`todo[t]` within the pending calls, a confirm task answers an awaited call).
Snapshots are never deleted, which is why another task can disturb none of it.
The same fact at "finalUpdate" gives `RowAfterSnapshot`.

`ConversationWellFormed` looks at tasks that are about to call the LLM and at
rows.  `ConversationInv` adds what each task's own state satisfies at every
label, and which status goes with which label: without it a task at "loop" might
come from a suspended state.

*Turns.*  `TurnInv` places every task relative to the suspended rows: a task in the
agent loop is ahead of all of them, a resume task before the loop is in the turn of one,
and the job handler has its first turn to itself because nobody can resume before it has
saved (`BegunOnRow`).  By exclusion only one resume task advances, so two rows of one
number come from one turn.

*Runs, answers, calls, injections.*  Without faults there is one run of the loop at a time and it
starts from the latest row (`RunInv`); a final row outranks every suspended one unless the
job ran into `MaxIterations`, which is the exception the property has.  The run and the latest row know
every call the LLM ever made (`CallsInv`), so a new turn asks for calls of its own
(`OneTurnPerCall`), and a result that was injected belongs to a turn that is overtaken
(`InjectedOvertaken`): nobody can load its row to inject it again.  The refinement
follows step by step: a save of a waiting state is `Ask`, a worker's result `Provide`, the
resume `Take`, an end `End`, and everything else stutters.

*Wake-ups.*  `StuckOnlyIfMissed` says that nothing keeps a turn besides the reasons counted in
`missed` since it was saved.  `SentInv`: every call of the turn is out, prompted for, answered, or some
task `Owes` it and will send it out.  `WakeInv` is the rest of the argument: if the latest row's results have all arrived, then
somebody will still send a signal or one is on its way (`Awake`), or a resume task exists that
will go on (`Responsible`): it will look at the results again before it gives up.
The critical moment is a signal dropped because the lock is held; then the holder must not have
looked yet, or the drop is a miss.  `DecidedInv` carries a decision to its answer,
`StoredInv` a stored result, `AwaitedInv` and `FreshInv` say that what was executed was
awaited by a row before and that a turn not saved yet shares no call with any row.

### 6.2 StateLock

Proved at the end of `KafkaConsumerProofs`: `LockExcludes` and `HolderKeepsKey`, for any TTL and however long
handlers work.  The inductive invariant is `LockTypeOK /\ Occupancy /\ HolderHasKey`.
`Occupancy` is `Exclusion` with the key counted in: the handlers of a job are at most its expiries,
and one more only while its key is alive.  A key that is alive keeps a further handler out, and
a key that goes, by release or expiry, takes a handler with it or counts as an expiry.

### 6.3 KafkaConsumerProofs

`TypeCorrect`, `NothingIsSkipped`, `OffsetsAdvance` and `HandledOncePerAssignment`.
`NothingSkipped` speaks of committed messages only; but a commit moves the offset to
the owner's position, so `ConsumerInv` accounts for every message below that position
too (`Given`), says that a task past its handler has its message answered (its end
then loses nothing), that a member that stops or is down holds nothing that would
vanish, and that the offset is at most the owner's position, which gives `CommitsAdvance`.
For `OncePerAssignment`, the handlings of a message and the tasks that may still handle it
are together no more than the assignments so far, and one fewer while the owner
has not given the message yet (`OnceFor`): a new assignment pays for one more.

### 6.4 PhasesProofs

`TypeCorrect`, `SynthesisIsComplete`, `NothingOpen` and
`EndedIsLeftAlone`.  `StateInv` says what every state says of itself, saved or in a
handler's hands: the open call is the pending one, groups before the index have run, a
state about to go on with a late phase is past its groups.  This alone gives the first two
properties, but a handler gets its state from the snapshots, where another put it,
so it is an invariant of both.  The third needs who works with whom: the job handler takes no
lock, and others may start only on what it has saved (`JobInv`); the
others exclude one another and hold a state at least as new as any saved one
(`LockInv`); a dispatched call is a new one (`CallInv`), so nobody can resume a job
handler's state before it is dispatched; and the streamed end outranks every
suspended snapshot because the agent loop counts an iteration before it answers
(`EndInv`).  The proof has one lemma per kind of step (go on, wait, end, start) and
one per method of the code.

### 6.5 JobEventsProofs

`TypeCorrect`, `PrefixIsReceived`, `NothingIsMissed`, `EventsAreReceivedOnce`, for any publishers,
limits, connections and failures.  `EventsInv` types messages and pending publications by the
entry of the stream they stand for.  `GapInv` is what an SSE connection relies on: below
`lastId` everything is covered (received, excused or a delta), the ids of a catch-up's
batch leave no hole above it, and once a connection has caught up, what was published after its
subscription is on the channel with nothing missing before it.  `OnceInv` counts an
event's entries, its messages and what the browser has, so that catch-up and live loop
cannot both yield it.

The module goes on with what the model says until the window shows it, the subject
of `ModelCalls` and `ChatView`.

*The parser and the calls*: `TextIsSplitRight`, `AnswersAreHandedOverWhole`,
`RefusalsAreSettled`.  `Scan` and `Split` are recursions over texts.  That each is defined for
every argument and satisfies its equation (`ScanUnfolds`, `SplitUnfolds`) follows from
`RecursionSolved`: a recursion whose calls are all of smaller arguments has a solution.  What
they compute is proved by a smallest counterexample.  `SplitRight` is not inductive: what is held
back may become text or a tag.  `ReadSoFar` is: *whatever text comes next*, reading
the whole from its first letter gives what the parser has put on each side and then what
it would read from its pending letters on, and these are fewer than a tag has.  `ScanMoves` shows that
a scan keeps this equation.  For the calls, `Gathered` says that those handed over and then
those begun are the calls of the answer in their order, each with as many pieces as were
sent; for the parameters, `Asked` lists the refusals there may be (a refusal of the effort is the last) and what
is no longer sent after them.

*The window*: `MessagesAreShownAsSent`.  `Windows` is what every handler keeps of a message:
the text of its steps, after what the first thoughts hid, is its content; its thoughts are whole
from the second piece on; a completed tool has its own result or a namesake; the
steps of one call are of one tool.  One lemma for each handler (`DeltaFacts`, `ReasoningFacts`,
`ToolCallFacts`, `ToolResultFacts`, ...); most need only that a handler keeps the tools and
the thoughts it does not mean (`ToolsKept`, `ThoughtsKept`).  The events of a step are handled
in a row (`HandledAll`), and the text of a list of steps is a fold that the prover is taught
first (`FlattenLast`, `FlattenQuiet`).  The part that no handler can know is why a result finds
its step: calls are numbered by turn, no step is of a later turn than those asked for
(`UpTo`), and every call waited for is shown by its name (`Awaited`); this joins `WindowInv` to
`CallsInv`.

### 6.6 ArchiverProofs

`TypeCorrect`, `EntriesAreArchivedOnce`, `RowsAreNumberedInOrder`, `EndedJobsStayEnded`, for any finite
set of instances and any number of troubles.  `HolderInv` says who holds the writer's lock at which
stage.  `PlaceInv` says of each delivered entry that it is somewhere (with a reader, in a
buffer, in a transaction, in the database, lost) and in one of these places only, and
that each instance carries its entries in the order of the stream; one lemma (`Effects`)
reduces every action to what it moves.  Rows are numbered by the rank of an event among those of its
transaction (`Ranks`, by cardinalities), after the maximum that was read.  Another
instance may give the same numbers meanwhile, which leaves no hole either (`NumbersInv`) and
disturbs no order within one instance.
`EndedJobsStayEnded` rests on `StatusInv`: the instance that archived every change so far has left the job
ended if the last of them was an end, whatever others saved since its SELECT, and an instance that
loaded an ended job may leave it alone; both until an end is taken back.  It assumes that the last
of the job's starts and ends is an end; without it the property has nothing to say of the code.

### 6.7 CreditsProofs

`TypeCorrect`, `AtMostOnePerPeriod`, `TopUpsAreAccounted`, `OldestPaysFirst`.
The number of renewals times the
cycle is at most the start of the current period (`PeriodInv`), and a status read holds
a row whose period had ended when it read (`ReadInv`): if nobody has moved the end
since, its renewal begins after that end.  `LockInv`: between the two steps of a consumption
the row keeps the credits that were found in it, which is why they do not become negative.

The top-ups are a list of any length and `Owed`, `Lost` recursive functions over it.
That they exist and satisfy their equations (`Recursion`) and what follows at every place
(`OwedFacts`, `LostMore`, `PaysInOrder`) is proved by the least place where it would fail:
natural numbers are well-founded (`Least`), and `Upward` turns this into a rule about sets of places.
`TopUpInv` says that each top-up is sound, that they are spent in order, and that what they
have lost together is what was recorded.

### 6.8 WalletProofs

`TypeCorrect`, `DepositsAreAccounted`, `OverdrawnOnlyAfterRace`, for any finite set of requests.
The properties speak of sums over requests and deposits (`SumFunction`); the first part of the module
shows, again by least elements, that such a sum exists, splits and changes with one place
(`SumSplit`, `SumChange`).  `OverdrawnOnlyIfRaced` says nothing of the key, so `RaceInv`
does: without a race the row can pay all debits that were let through (`Charged`); a key that exists
holds no more than what is left beyond these and beyond what rejected debits will put back
(`Restored`); and while there is no key, no rejected debit of the old one is unmarked.
A key can only be replaced by a stored value, which is measured against the row at that moment.

### 6.9 LiveSessionsProofs

`LiveTypeCorrect`, `SilencedAnswersStaySilent` and `TurnsAreFollowed` (an action property),
for any number of turns, control messages and failures.  `SilencedStaysSilent` holds because
while every answer that has begun is silenced the session's flag is up (`Silent`), and only a
new answer takes it down.  `TurnsFollowed` speaks of one moment, when the answer comes; `Followed`
says what leads there: from the naming of its job on, a turn that is under way alone is the
session's job with the listener idle, or the listener waits for its job, or is deaf or over.
It would be lost by a listener that forgets or follows another job, so the invariant says that
while such a turn waits no other turn is under way (`Apart`), that neither the
session's job nor the listener's is relayed yet (`Jobs`), that the session is not ended
before its end begins (`Running`), and that the start is the client's first message and
nobody listens before it (`StartFirst`, `Quiet`).

### 6.10 Conversations

Proved in the second half of `ArchiverProofs`: `AnswersStayInPlace`, `OwnWritesAreShown` and
`AnswersKeepTheBranch` (two action properties), for any clients, jobs, switches and failures and
answers of any length.  The one assumption is `MaxRecords \in Nat`.

*The tree and the walk.*  The branch shown is a recursion, and nothing in the rows says that it
ends.  `TreeInv` does: every parent is an archived message of a committed job, and there is a rank of
the jobs that falls from parent to child by more than an answer is long.  Along a walk the
rank below what may come next falls with each question, and what is left of an answer with each record
(`WalkShrinks`); so the walk exists and satisfies its equation (`WalkUnfolds`, from
`RecursionSolved`).  New rows always hang off old ones, which keeps a rank (`TreeStep`).

*What it shows.*  Statements about all walks are proved by one of least size that fails.
`WalkInPlace` gives the first property.  `Picked(k, j)` says without any recursion which question
below job `k` is shown: the one that the map has for the parent of the first of them or else the
last.  A walk below `k` gathers all questions below `k` (`Gathered`) and then shows the one
picked (`PickFacts`), so the questions on the branch shown (`Path`) are the chain of picked ones
(`PathFacts`).  A step that changes only what is below a job leaves that job on the path (`PathKept`).

*What requests rely on.*  `OwnWriteShown` compares a write with what was read some steps
before.  `RequestInv` carries that over: while no other request has written, the parent of a post is on
the path with no question below it, and the key of an edit or switch is a message of a job on the path
that has the wanted question below it; the map that is to be written is still the row's.  Answers that
come meanwhile change none of this (`QuietStep`).  `~Mixed` is needed for writes of the branch
only: a post that was not disturbed is shown in any case (`PostShown`).

*Answers.*  A step without any request's is one of the orchestrator or the archiver
(`OnlyAnswersAreQuiet`); the picked questions stay, and two chains of the same picks are equal
(`SameChain`).

### 6.11 Only model-checked

All liveness (`JobEnds`, `TerminalArrives`, `EventuallyArchived`, `EventuallyAnswered`,
`SessionEnds`): fairness and ENABLED are out of the prover's reach.  Every safety invariant and action
property of the runs is stated by a theorem.

---------------------------------------------------------------------------

## 7. What the models show about the code

Facts met while modelling, each included in a model unless it says otherwise.
Properties that they would break name them as excuses (`missed`, `unseen`, `Orderly`, `excused`,
`unsure`, `reopened`, `raced`, `overwritten`, `overlapped`, `Deaf`, `late`).

Where one of these contradicts a comment, the property is as weak as the code makes it:

* `state_lock.py:15`: "Multiple orchestrator instances competing for the same job will only
  allow one to proceed."  The key lives 300 s, nothing calls `extend`, and ten rounds
  of LLM calls may run under it: `LockExclusion` and `Exclusion` count the expiries.
* `resume_handler.py:256`: "a future resume signal will pick this up."  It may have come
  while this handler had the lock, and was dropped: `lock_held` in `missed`.
* `tool-workers/src/main.py:200`: "The orchestrator will timeout and handle it".  Nothing does:
  `send_failed` in `missed`.
* `stream-edge/src/routers/events.py:195`: "Always handle catch-up to ensure no events missed between
  job creation and SSE connection".  The limit of the catch-up counts deltas: `excused`.

Jobs:

* A signal that meets a held lock is dropped (`resume_handler.py:70`).  If the holder
  has already looked for results, nobody looks again and the job stays suspended with
  every result there (`missed`).
* A redelivered `agent.jobs` message starts the job from scratch (`job_handler.py:133`),
  although `agent.py:71` has the "Periodic snapshot for crash recovery".
* Client tool calls are published on pub/sub only (`tool_handler.py:76`,
  `confirm_handler.py:222`): a browser that is not subscribed at that moment never gets them,
  and the job waits (`not_heard`).
* A `tool_result` event that cannot be published is logged, and its call counts as shown
  (`unseen`).
* `SnapshotService` writes `jobs.status` as it finds its state: `job_handler.py:190` may put a job that
  has ended meanwhile back to RUNNING, for good (`reopened`).
* The ids of the results already shown to the user are in one of several rows with
  the same sequence number; a handler that loads another row shows them again
  (`emitted[c]` exceeds 1 in `core`, against the comment at `resume_handler.py:153`).
* A job that failed with "max iterations" has the sequence number of its last
  suspension (`agent.py:550` does not advance it), so a late signal may resume it:
  the reason for the exception in `InjectedOnce`.
* `handle_job` takes no lock, so a fast tool's resume task runs beside it; the
  safety properties hold all the same.
* A handler that outlives the lock shares the job, and its `release` deletes the other's key.
* A second confirmation of one call dispatches it again.

Phases:

* Every snapshot before the final answer has sequence number 0, so any of them may be
  loaded; a job that completes without a draft may be taken up again from a waiting one.
* A tool call in RESPOND sends the job back to SYNTHESIZE when it is answered.
* A sub-task that is BLOCKED never leaves that status; `_map_status` has no WAITING_USER;
  an LLM call that raises leaves the row RUNNING.

Delivery and archive:

* The consumer's retry publishes nothing and its dead letter queue is never used:
  a message whose handler raises is committed and gone (`failed` in `KafkaConsumer`).
* `commit()` after one task commits the messages of its siblings (`consumer.py:196`); if the
  process then dies, they are lost.
* A message that waits for a free slot at shutdown is given up, and the tasks that
  end afterwards commit past it: a graceful shutdown may lose it (`dropped`).
* The periodic check of the SSE endpoint reads after `last_yielded_id` and so never
  finds an event that was overtaken; only a new connection would, and it asks
  with the same id.
* `sse.ts` reconnects with `last_event_id` in the query, which stream-edge does not read; the
  native EventSource's header it does.  A browser that lost its first connection
  before any id is refused (`events.py:387`).
* The archiver acknowledges before it persists and never reads pending entries again: a
  crash loses the buffer; `stop()` cancels the timer in the middle of a flush
  (`postgres_writer.py:41`), which loses the batch.
* The archiver's `cleanup_old_streams` compares the event loop's clock with epoch
  times and deletes nothing.

Conversations:

* Two overlapping posts that read the tree at different moments of an answer become
  siblings with different parents; a switch or edit key may then have no effect (`Mixed`).
* A follow-up's parent is the first record of a merged answer, so an edit of it builds its
  context without that answer's final text.
* Edits send no system prompt.  Their siblings' order is by `created_at`.
* Once one record of an answer is archived its other, hot records are not shown, and the
  first answer of a conversation is not shown from Redis at all.
* Branches at the root cannot be switched back; concurrent switches lose an update.
* A failed publish leaves a PENDING job that never runs.
* A first request of several messages makes several roots, all but one hidden later (not
  modelled); `conversation.py` says a deletion cascades to jobs, `models.py:914` sets their
  column to NULL (not modelled).

Live sessions:

* `_listen_responses` clears `current_job_id` whichever job is current, so an
  overlapped turn may never be answered; a turn that failed to be created, or a job
  answered before the listener subscribes, leaves the listener on it (`Deaf`); a Redis error ends
  the listener, and every later answer is unheard.
* Cancellations are swallowed in `pubsub.listen()` and in the wait for a speech that was spoken over
  (`manager.py:244`), so an end at the wrong moment waits (`late`).
* An exception in `start_session` or `end_session` ends the control listener of all sessions.
* A WebSocket that disconnects does not end its session; the timer does.
* Speech that ends after a pause sets LISTENING while the audio is still paused; an
  interruption between the status "speaking" and the task's creation is lost; a second
  answer overwrites the first one's task, and once another begins, which resets the flag of the
  interruption, the first one is heard beside it.
* The gateway publishes `start` before it subscribes.
* Not modelled: frames use `subscribe` with a pattern; the row that `POST /live/sessions`
  makes is not the gateway's; `live_session_max_per_tenant` is unused; a manager that dies
  leaves its rows ACTIVE; a client that reconnects starts a new session beside the old one.

Money:

* A key that INCRBY or DECRBY makes has no expiry, and a value read before another debit
  may be stored after it (`raced`).
* Two purchases that overlap may commit in the other order than `created_at` says, so that a younger
  top-up has paid before an older one exists (not modelled).
* The platform owner's PUT of a partner sets the pool without a lock: a deposit under way writes over
  it or loses what it added (`poolSet`).
* `get_subscription_with_plan` renews a period without a lock and may overwrite one renewed
  since (`overwritten`); it renews a CANCELLED subscription too; `change_plan`
  gives credits to one.
* `consume_credits`, `get_subscription_with_plan`, `SubscriptionService.reset_monthly_credits` and
  `WalletService.debit` have no callers outside tests and each other.
* Not modelled: `billing.py` uses `func` without importing it, so a reservation that misses
  the cache raises NameError.

Models and window:

* A thinking tag still open at the end repeats the thoughts (`agent.py:445`).
* A temperature refused first makes a refused `max_tokens` fail; the other order is settled.  A refused
  reasoning effort always fails the call.
* An OpenAI stream without a `finish_reason` loses its gathered calls and the job completes;
  an Anthropic stream without `message_delta` makes the agent ask again after its text was shown.
* Arguments that are no JSON become `{}` and are dispatched.
* The first `reasoning_delta` makes an empty step, so a single piece is never shown; text
  written before the first thoughts disappears from the bubble; a result is matched by id or
  name, so two calls of one tool both show the last one's.
* Not modelled: the EventSource is closed on any error, so the window never reconnects; a stream
  goes on writing into a conversation that was left; the thoughts of a turn
  that calls tools never enter the state; Anthropic's `complete` keeps the last text block only.

---------------------------------------------------------------------------

## 8. Not modelled, and why

* In the modelled parts: the legacy synchronous mode (`enable_suspend_resume` off),
  message contents, event payloads, metadata of rows, the engine's todo list (its adjustments
  change no control), trimming of a stream beyond 10000 entries, batches that mix jobs,
  audio and video data, prompts, images and token counts.
* Cancellation of orchestrator handlers: shutdown lets them finish; a killed
  process is `Crash`.
* `cancel_job`: it writes a row no handler looks at (its write of the status is a `SaveJob` of `Archiver`).
* The second try of a request whose library does not know `reasoning_effort` (TypeError,
  `openai.py:119`): the effort is sent only when the library's signature has it.
* Credit reservations: without a filled cache they raise (section 7), and
  `release_reservation` does not look at the reservation's status, so there is no
  life cycle to check yet.
* Rate limits and key caches: counters and cached keys of one request each.  The check
  and the add are two calls, refused requests are counted, and a cached key lives for its TTL
  because nothing calls `invalidate`: what would be worth stating is not what the code does.
* Feature decisions over configuration, files and knowledge base (one call of I/O after the
  other), single-row CRUD routers, the rest of the frontend, scripts, migrations, deployment.
