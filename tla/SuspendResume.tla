---------------------------- MODULE SuspendResume ----------------------------
(***************************************************************************)
(* One agent job of the orchestrator in suspend/resume mode.               *)
(*                                                                         *)
(* JobHandler runs the agent loop until the LLM asks for tools; the state  *)
(* is saved as a snapshot row, the tools are dispatched and the handler    *)
(* returns.  Tool workers (and browsers) put results into Redis and send a *)
(* resume signal.  Each signal is handled by a task of the resume          *)
(* consumer, which takes the job's Redis lock, loads the latest snapshot   *)
(* and, once every pending tool has a result, runs the agent loop again.   *)
(* Confirmations from the user go through the confirm consumer.            *)
(*                                                                         *)
(* A conversation is abstracted to the tool calls it asked for and the     *)
(* tool calls it holds a result of; a resume signal carries nothing the    *)
(* handler uses except the job, so the topic is a count.                   *)
(***************************************************************************)
EXTENDS Naturals, FiniteSets

CONSTANTS
    JobTask,             \* the task that runs JobHandler.handle_job
    ResumeTasks,         \* tasks of the agent.job-resume consumer
    ConfirmTasks,        \* tasks of the agent.confirm consumer
    None,                \* no lock holder
    Calls,               \* tool calls the LLM may make, each at most once
    NeedsConfirm,        \* the calls of CONFIRM_REQUIRED tools
    ClientSide,          \* the calls a browser executes
    Hidden,              \* the calls of tools with emit_events = False
    MaxIterations,       \* of the agent loop
    SnapshotInterval,    \* iterations between two periodic snapshots
    MaxResumeIterations, \* rounds of one resume handler
    MaxDecisions,        \* bound: confirm/reject messages the user sends
    MaxFailures,         \* bound: failing calls to the LLM, database, Redis or
                         \* Kafka, locks that expire under their holder, and
                         \* crashes of the orchestrator or a worker
    ResultsMayExpire     \* a result may outlive its 300 s in Redis

LockTasks == ResumeTasks \cup ConfirmTasks
Tasks == {JobTask} \cup LockTasks

ASSUME TasksAssumption ==
    /\ JobTask \notin LockTasks
    /\ ResumeTasks \cap ConfirmTasks = {}
    /\ None \notin Tasks
    /\ IsFiniteSet(Tasks)

ASSUME BoundsAssumption ==
    /\ NeedsConfirm \subseteq Calls
    /\ ClientSide \subseteq Calls
    /\ Hidden \subseteq Calls
    /\ MaxIterations \in Nat
    /\ SnapshotInterval \in Nat \ {0}
    /\ MaxResumeIterations \in Nat
    /\ MaxDecisions \in Nat
    /\ MaxFailures \in Nat
    /\ ResultsMayExpire \in BOOLEAN

VARIABLES
    \* Redis
    lock,        \* the task whose SETNX created lock:job:<id>, or None
    results,     \* the calls c whose key tool_result:<c> exists
    \* PostgreSQL
    snapshots,   \* the distinct rows of job_snapshots
    jobStatus,   \* jobs.status as SnapshotService writes it
    \* Kafka topics, browser
    work,        \* work[c]: undone requests to execute c (worker or browser)
    stored,      \* stored[c]: executions of c with no resume signal sent yet
    signals,     \* resume signals not yet consumed
    prompts,     \* the calls the user was asked to confirm
    decisions,   \* decisions[c][b]: confirmations of c not yet consumed
    \* the tasks of the orchestrator
    pc,          \* where each task is
    state,       \* its AgentState
    todo,        \* the pending calls it has still to go through
    fetched,     \* the pending calls it found a result of
    rounds,      \* its resume iterations
    msg,         \* the confirmation a confirm task handles
    \* budgets
    failures, clicks,
    \* history, read by properties only
    used,        \* the calls the LLM has made
    decided,     \* the calls the user has confirmed or rejected
    executed,    \* the calls that were answered, their result stored or not
    injected,    \* injected[c]: times a result of c entered a conversation
    emitted,     \* emitted[c]: tool_result events published for c
    unseen,      \* the calls whose tool_result event could not be published
    missed,      \* what came to nothing in the turn of the last suspension
    expiries,    \* locks that expired under a task at work
    handledAgain \* the job message came again after a suspended snapshot

redis == <<lock, results>>
tables == <<snapshots, jobStatus>>
topics == <<work, stored, signals, prompts, decisions>>
locals == <<state, todo, fetched, rounds, msg>>
budgets == <<failures, clicks>>
history ==
    <<used, decided, executed, injected, emitted, unseen, missed, expiries, handledAgain>>
vars == <<redis, tables, topics, pc, locals, budgets, history>>

-----------------------------------------------------------------------------
(* AgentState: what the handlers and the properties look at.               *)

AgentStatus == {"pending", "running", "waiting_tool", "completed", "failed"}
Terminal == {"completed", "failed"}

AgentState ==
    [status : AgentStatus, iteration : Nat, asked : SUBSET Calls,
     answered : SUBSET Calls, pending : SUBSET Calls, shown : SUBSET Calls]

NewState ==
    [status |-> "pending", iteration |-> 0, asked |-> {}, answered |-> {},
     pending |-> {}, shown |-> {}]

\* The messages of the agent.confirm topic.
Decisions == [call : Calls, confirmed : BOOLEAN]

\* metadata["emitted_tool_result_ids"] is the field shown.
MarkFailed(s) == [s EXCEPT !.status = "failed", !.pending = {}]
MarkCompleted(s) == [s EXCEPT !.status = "completed", !.pending = {}]
MarkWaitingTool(s, T) ==
    [s EXCEPT !.status = "waiting_tool", !.asked = @ \cup T, !.pending = T]

\* Mutant: the tool results are not added to the messages.
InjectNothing(s) ==
    [s EXCEPT !.status = "running", !.pending = {}, !.shown = {}]

\* resume_from_snapshot up to the loop: every pending call gets its result.
InjectResults(s) ==
    [s EXCEPT !.status = "running", !.answered = @ \cup s.pending,
              !.pending = {}, !.shown = {}]

MapStatus(status) == IF status = "waiting_tool" THEN "running" ELSE status

Waiting == {s \in snapshots : s.status = "waiting_tool"}

\* Mutant: the first snapshot is loaded.
FirstSnapshots ==
    {s \in snapshots : \A r \in snapshots : s.iteration <= r.iteration}

\* load_latest_snapshot orders by sequence_num alone: any row of the highest
\* sequence number may come first.
LatestSnapshots ==
    {s \in snapshots : \A r \in snapshots : r.iteration <= s.iteration}

Labels ==
    {"ready", "done", "idle", "load", "fetch", "persist", "loop", "checkpoint",
     "llm", "save", "update", "dispatch", "resave", "finalSave",
     "finalUpdate", "answer", "signal", "release"}

\* A lock task holds the lock, as far as it knows, from "load" to "release".
Critical == Labels \ {"ready", "done", "idle"}

Goto(t, label) == pc' = [pc EXCEPT ![t] = label]

-----------------------------------------------------------------------------
Init ==
    /\ lock = None
    /\ results = {}
    /\ snapshots = {}
    /\ jobStatus = "pending"
    /\ work = [c \in Calls |-> 0]
    /\ stored = [c \in Calls |-> 0]
    /\ signals = 0
    /\ prompts = {}
    /\ decisions = [c \in Calls |-> [b \in BOOLEAN |-> 0]]
    /\ pc = [t \in Tasks |-> IF t = JobTask THEN "ready" ELSE "idle"]
    /\ state = [t \in Tasks |-> NewState]
    /\ todo = [t \in Tasks |-> {}]
    /\ fetched = [t \in Tasks |-> {}]
    /\ rounds = [t \in Tasks |-> 0]
    /\ msg = [t \in ConfirmTasks |-> None]
    /\ failures = 0
    /\ clicks = 0
    /\ decided = {}
    /\ used = {}
    /\ executed = {}
    /\ injected = [c \in Calls |-> 0]
    /\ emitted = [c \in Calls |-> 0]
    /\ unseen = {}
    /\ missed = {}
    /\ expiries = 0
    /\ handledAgain = FALSE

-----------------------------------------------------------------------------
(* JobHandler.handle_job up to the executor: a fresh AgentState, never a   *)
(* loaded one, and no lock.                                                *)

StartJob ==
    /\ pc[JobTask] = "ready"
    /\ jobStatus' = "pending"
    /\ state' = [state EXCEPT ![JobTask] = [NewState EXCEPT !.status = "running"]]
    /\ Goto(JobTask, "loop")
    /\ UNCHANGED <<redis, snapshots, topics, todo, fetched, rounds, msg, budgets,
                   history>>

-----------------------------------------------------------------------------
(* AgentExecutor.execute and execute_streaming, run by JobTask or, after   *)
(* resume_from_snapshot, by a resume task.  A failing call inside the loop *)
(* is caught there and marks the state failed.                             *)

\* Where the caller continues when the executor returns state s.
ReturnLabel(t, s) ==
    IF t # JobTask /\ s.status = "waiting_tool" THEN "resave" ELSE "finalSave"

SetState(t, s) == state' = [state EXCEPT ![t] = s]

\* The executor ends with state s and returns to the handler.
Return(t, s) ==
    /\ SetState(t, s)
    /\ Goto(t, ReturnLabel(t, s))

SaveSnapshot(t) == snapshots' = snapshots \cup {state[t]}
UpdateJob(t) == jobStatus' = MapStatus(state[t].status)

MaxIterationsReached(t) ==
    /\ pc[t] = "loop"
    /\ state[t].iteration >= MaxIterations
    /\ Return(t, MarkFailed(state[t]))
    /\ UNCHANGED <<redis, tables, topics, todo, fetched, rounds, msg, budgets,
                   history>>

\* Mutant: the iteration is not counted.
IterateUncounted(t) ==
    /\ pc[t] = "loop"
    /\ state[t].iteration < MaxIterations
    /\ Goto(t, "llm")
    /\ UNCHANGED <<redis, tables, topics, locals, budgets, history>>

NextIteration(t) ==
    /\ pc[t] = "loop"
    /\ state[t].iteration < MaxIterations
    /\ SetState(t, [state[t] EXCEPT !.iteration = @ + 1])
    /\ Goto(t, IF (state[t].iteration + 1) % SnapshotInterval = 0
               THEN "checkpoint" ELSE "llm")
    /\ UNCHANGED <<redis, tables, topics, todo, fetched, rounds, msg, budgets,
                   history>>

Checkpoint(t) ==
    /\ pc[t] = "checkpoint"
    /\ SaveSnapshot(t)
    /\ Goto(t, "llm")
    /\ UNCHANGED <<redis, jobStatus, topics, locals, budgets, history>>

LLMCallsTools(t) ==
    /\ pc[t] = "llm"
    /\ \E T \in (SUBSET (Calls \ used)) \ {{}} :
         /\ SetState(t, MarkWaitingTool(state[t], T))
         /\ used' = used \cup T
    /\ Goto(t, "save")
    /\ UNCHANGED <<redis, tables, topics, todo, fetched, rounds, msg, budgets,
                   decided, executed, injected, emitted, unseen, missed, expiries,
                   handledAgain>>

LLMAnswers(t) ==
    /\ pc[t] = "llm"
    /\ Return(t, MarkCompleted(state[t]))
    /\ UNCHANGED <<redis, tables, topics, todo, fetched, rounds, msg, budgets,
                   history>>

\* A stream that ends without a final chunk: execute_streaming loops.
StreamEndsEarly(t) ==
    /\ pc[t] = "llm"
    /\ Goto(t, "loop")
    /\ UNCHANGED <<redis, tables, topics, locals, budgets, history>>

\* Mutant: the tools are dispatched without a snapshot.
SkipSaveWaiting(t) ==
    /\ pc[t] = "save"
    /\ Goto(t, "update")
    /\ UNCHANGED <<redis, tables, topics, locals, budgets, history>>

\* A new turn: what came to nothing in the last one is history.
SaveWaiting(t) ==
    /\ pc[t] = "save"
    /\ SaveSnapshot(t)
    /\ Goto(t, "update")
    /\ missed' = {}
    /\ UNCHANGED <<redis, jobStatus, topics, locals, budgets, used, decided, executed,
                   injected, emitted, unseen, expiries, handledAgain>>

UpdateWaiting(t) ==
    /\ pc[t] = "update"
    /\ UpdateJob(t)
    /\ todo' = [todo EXCEPT ![t] = state[t].pending]
    /\ Goto(t, "dispatch")
    /\ UNCHANGED <<redis, snapshots, topics, state, fetched, rounds, msg, budgets,
                   history>>

\* A request to execute c: a Kafka message to the workers, or a client_tool_call
\* on the job's channel, which a browser hears if it listens just then.
SendOut(c) ==
    \/ work' = [work EXCEPT ![c] = @ + 1] /\ UNCHANGED missed
    \/ c \in ClientSide /\ missed' = missed \cup {"not_heard"} /\ UNCHANGED work

\* One turn of dispatch_tools_async: a confirm_request to the browser, or a
\* request to execute.  A prompt nobody hears is one nobody answers.
DispatchTool(t) ==
    /\ pc[t] = "dispatch"
    /\ \E c \in todo[t] :
         /\ IF c \in NeedsConfirm
            THEN prompts' = prompts \cup {c} /\ UNCHANGED <<work, missed>>
            ELSE SendOut(c) /\ UNCHANGED prompts
         /\ todo' = [todo EXCEPT ![t] = @ \ {c}]
         /\ Goto(t, IF todo[t] = {c} THEN ReturnLabel(t, state[t]) ELSE "dispatch")
    /\ UNCHANGED <<redis, tables, stored, signals, decisions, state, fetched, rounds,
                   msg, budgets, used, decided, executed, injected, emitted, unseen,
                   expiries, handledAgain>>

ExecutorFails(t) ==
    /\ pc[t] \in {"checkpoint", "llm", "save", "update", "dispatch"}
    /\ failures < MaxFailures
    /\ failures' = failures + 1
    /\ Return(t, MarkFailed(state[t]))
    /\ todo' = [todo EXCEPT ![t] = {}]
    /\ UNCHANGED <<redis, tables, topics, fetched, rounds, msg, clicks,
                   history>>

Execute(t) ==
    \/ MaxIterationsReached(t) \/ NextIteration(t) \/ Checkpoint(t)
    \/ LLMCallsTools(t) \/ LLMAnswers(t) \/ StreamEndsEarly(t)
    \/ SaveWaiting(t) \/ UpdateWaiting(t) \/ DispatchTool(t) \/ ExecutorFails(t)

-----------------------------------------------------------------------------
(* The end of handle_job and of handle_resume.                             *)

FinalSave(t) ==
    /\ pc[t] = "finalSave"
    /\ SaveSnapshot(t)
    /\ Goto(t, "finalUpdate")
    /\ UNCHANGED <<redis, jobStatus, topics, locals, budgets, history>>

FinalUpdate(t) ==
    /\ pc[t] = "finalUpdate"
    /\ UpdateJob(t)
    /\ Goto(t, IF t = JobTask THEN "done" ELSE "release")
    /\ UNCHANGED <<redis, snapshots, topics, locals, budgets, history>>

Forget(t) ==
    /\ state' = [state EXCEPT ![t] = NewState]
    /\ todo' = [todo EXCEPT ![t] = {}]
    /\ fetched' = [fetched EXCEPT ![t] = {}]
    /\ rounds' = [rounds EXCEPT ![t] = 0]

\* DistributedStateLock.release deletes the key whoever set it.
Release(t) ==
    /\ pc[t] = "release"
    /\ lock' = None
    /\ Goto(t, "idle")
    /\ Forget(t)
    /\ UNCHANGED <<results, tables, topics, msg, budgets, history>>

\* A failing call outside the executor: an "error" event, the lock is released,
\* and the consumer commits the message all the same.
HandlerFails(t) ==
    /\ pc[t] \in {"ready", "load", "fetch", "persist", "resave", "finalSave",
                  "finalUpdate", "answer", "signal"}
    /\ failures < MaxFailures
    /\ failures' = failures + 1
    /\ missed' = missed \cup {"handler_failed"}
    /\ Goto(t, IF t = JobTask THEN "done" ELSE "release")
    /\ UNCHANGED <<redis, tables, topics, locals, clicks, used, decided, executed,
                   injected, emitted, unseen, expiries, handledAgain>>

-----------------------------------------------------------------------------
(* ResumeHandler.handle_resume                                             *)

\* Mutant: SET without NX.
LockTaken == TRUE

\* DistributedStateLock.acquire succeeds: SET NX EX.
LockFree == lock = None

TakeSignal(t) ==
    /\ pc[t] = "idle"
    /\ signals > 0
    /\ signals' = signals - 1
    /\ IF LockFree
       THEN lock' = t /\ Goto(t, "load") /\ UNCHANGED missed
       ELSE missed' = missed \cup {"lock_held"} /\ UNCHANGED <<lock, pc>>
    /\ UNCHANGED <<results, tables, work, stored, prompts, decisions, locals, budgets,
                   used, decided, executed, injected, emitted, unseen, expiries,
                   handledAgain>>

LoadForResume(t) ==
    /\ pc[t] = "load"
    /\ \E s \in LatestSnapshots :
         /\ s.status = "waiting_tool"
         /\ SetState(t, s)
         /\ todo' = [todo EXCEPT ![t] = s.pending]
    /\ Goto(t, "fetch")
    /\ UNCHANGED <<redis, tables, topics, fetched, rounds, msg, budgets, history>>

\* No snapshot, or one of another status: the signal is consumed.
NothingToResume(t) ==
    /\ pc[t] = "load"
    /\ \/ snapshots = {}
       \/ \E s \in LatestSnapshots : s.status # "waiting_tool"
    /\ missed' = missed \cup {"not_waiting"}
    /\ Goto(t, "release")
    /\ UNCHANGED <<redis, tables, topics, locals, budgets, used, decided, executed,
                   injected, emitted, unseen, expiries, handledAgain>>

\* One turn of _fetch_tool_results: GET tool_result:<c>.
FetchResult(t) ==
    /\ pc[t] = "fetch"
    /\ \E c \in todo[t] :
         /\ todo' = [todo EXCEPT ![t] = @ \ {c}]
         /\ fetched' = [fetched EXCEPT ![t] = @ \cup (results \cap {c})]
    /\ UNCHANGED <<redis, tables, topics, pc, state, rounds, msg, budgets, history>>

Fetched(t) == pc[t] = "fetch" /\ todo[t] = {}

\* Mutant: a result already shown to the user does not count.
UnshownTools(t) == state[t].pending \ (fetched[t] \ state[t].shown)

MissingTools(t) == state[t].pending \ fetched[t]

\* tool_result events for those calls of T that _should_emit_tool_event allows.
\* What cannot be published, those of gone, is logged and counts as emitted.
EmitToolResults(T) ==
    \E gone \in SUBSET (T \ Hidden) :
        /\ gone # {} => failures < MaxFailures
        /\ failures' = IF gone = {} THEN failures ELSE failures + 1
        /\ emitted' = [c \in Calls |->
                         emitted[c] + (IF c \in T \ (Hidden \cup gone) THEN 1 ELSE 0)]
        /\ unseen' = unseen \cup gone

\* Mutant: the calls still missing are marked as well.
MarkPending(t, T) == SetState(t, [state[t] EXCEPT !.shown = state[t].pending])

\* emitted_ids of the row that is saved next.
MarkShown(t, T) == SetState(t, [state[t] EXCEPT !.shown = @ \cup T])

EmitPartialResults(t) ==
    /\ Fetched(t)
    /\ MissingTools(t) # {}
    /\ rounds[t] = 0
    /\ LET newly == fetched[t] \ state[t].shown
       IN /\ newly # {}
          /\ EmitToolResults(newly)
          /\ MarkShown(t, newly)
    /\ Goto(t, "persist")
    /\ UNCHANGED <<redis, tables, topics, todo, fetched, rounds, msg, clicks, used,
                   decided, executed, injected, missed, expiries, handledAgain>>

PersistPartial(t) ==
    /\ pc[t] = "persist"
    /\ SaveSnapshot(t)
    /\ Goto(t, "release")
    /\ UNCHANGED <<redis, jobStatus, topics, locals, budgets, history>>

NothingNew(t) ==
    /\ Fetched(t)
    /\ MissingTools(t) # {}
    /\ rounds[t] = 0
    /\ fetched[t] \subseteq state[t].shown
    /\ Goto(t, "release")
    /\ UNCHANGED <<redis, tables, topics, locals, budgets, history>>

\* resume_from_snapshot: inject and emit the results, then the agent loop.
ResumeFromSnapshot(t) ==
    /\ Fetched(t)
    /\ MissingTools(t) = {}
    /\ rounds[t] < MaxResumeIterations
    /\ rounds' = [rounds EXCEPT ![t] = @ + 1]
    /\ SetState(t, InjectResults(state[t]))
    /\ injected' = [c \in Calls |->
                      injected[c] + (IF c \in state[t].pending THEN 1 ELSE 0)]
    /\ EmitToolResults(state[t].pending \ state[t].shown)
    /\ fetched' = [fetched EXCEPT ![t] = {}]
    /\ Goto(t, "loop")
    /\ UNCHANGED <<redis, tables, topics, todo, msg, clicks, used, decided, executed,
                   missed, expiries, handledAgain>>

\* The executor suspended again: save, and look for results right away.
SaveAndRecheck(t) ==
    /\ pc[t] = "resave"
    /\ SaveSnapshot(t)
    /\ todo' = [todo EXCEPT ![t] = state[t].pending]
    /\ Goto(t, "fetch")
    /\ UNCHANGED <<redis, jobStatus, topics, state, fetched, rounds, msg, budgets,
                   history>>

\* Tools still missing after a round, or max_resume_iterations.
StopResuming(t) ==
    /\ Fetched(t)
    /\ IF MissingTools(t) = {}
       THEN rounds[t] = MaxResumeIterations /\ missed' = missed \cup {"max_rounds"}
       ELSE rounds[t] > 0 /\ UNCHANGED missed
    /\ Goto(t, "finalSave")
    /\ UNCHANGED <<redis, tables, topics, locals, budgets, used, decided, executed,
                   injected, emitted, unseen, expiries, handledAgain>>

Resume(t) ==
    \/ TakeSignal(t) \/ LoadForResume(t) \/ NothingToResume(t) \/ FetchResult(t)
    \/ EmitPartialResults(t) \/ PersistPartial(t) \/ NothingNew(t)
    \/ ResumeFromSnapshot(t) \/ SaveAndRecheck(t) \/ StopResuming(t)
    \/ Execute(t) \/ FinalSave(t) \/ FinalUpdate(t) \/ HandlerFails(t) \/ Release(t)

Job == StartJob \/ Execute(JobTask) \/ FinalSave(JobTask) \/ FinalUpdate(JobTask)
       \/ HandlerFails(JobTask)

-----------------------------------------------------------------------------
(* ConfirmHandler.handle_confirmation                                      *)

TakeDecision(t) ==
    /\ pc[t] = "idle"
    /\ \E c \in Calls, b \in BOOLEAN :
         /\ decisions[c][b] > 0
         /\ decisions' = [decisions EXCEPT ![c][b] = @ - 1]
         /\ IF LockFree
            THEN /\ lock' = t
                 /\ msg' = [msg EXCEPT ![t] = [call |-> c, confirmed |-> b]]
                 /\ Goto(t, "load")
                 /\ UNCHANGED missed
            ELSE /\ missed' = missed \cup {"lock_held"}
                 /\ UNCHANGED <<lock, msg, pc>>
    /\ UNCHANGED <<results, tables, work, stored, signals, prompts, state, todo,
                   fetched, rounds, budgets, used, decided, executed, injected, emitted,
                   unseen, expiries, handledAgain>>

LoadForConfirm(t) ==
    /\ pc[t] = "load"
    /\ \E s \in LatestSnapshots :
         /\ s.status = "waiting_tool"
         /\ msg[t].call \in s.pending
         /\ SetState(t, s)
    /\ Goto(t, "answer")
    /\ UNCHANGED <<redis, tables, topics, todo, fetched, rounds, msg, budgets, history>>

NothingToConfirm(t) ==
    /\ pc[t] = "load"
    /\ \/ snapshots = {}
       \/ \E s \in LatestSnapshots :
            s.status = "waiting_tool" => msg[t].call \notin s.pending
    /\ missed' = missed \cup {"not_waiting"}
    /\ Goto(t, "release")
    /\ UNCHANGED <<redis, tables, topics, locals, budgets, used, decided, executed,
                   injected, emitted, unseen, expiries, handledAgain>>

\* Confirmed: the tool is dispatched to a worker or to the browser.
ForwardConfirmed(t) ==
    /\ pc[t] = "answer"
    /\ msg[t].confirmed
    /\ SendOut(msg[t].call)
    /\ Goto(t, "release")
    /\ UNCHANGED <<redis, tables, stored, signals, prompts, decisions, locals, budgets,
                   used, decided, executed, injected, emitted, unseen, expiries,
                   handledAgain>>

\* Rejected: the rejection is the result.
StoreRejection(t) ==
    /\ pc[t] = "answer"
    /\ ~msg[t].confirmed
    /\ results' = results \cup {msg[t].call}
    /\ executed' = executed \cup {msg[t].call}
    /\ Goto(t, "signal")
    /\ UNCHANGED <<lock, tables, topics, locals, budgets, used, decided, injected,
                   emitted, unseen, missed, expiries, handledAgain>>

\* The resume signal is sent while this task still holds the lock.
SignalRejection(t) ==
    /\ pc[t] = "signal"
    /\ signals' = signals + 1
    /\ Goto(t, "release")
    /\ UNCHANGED <<redis, tables, work, stored, prompts, decisions, locals, budgets,
                   history>>

Confirm(t) ==
    \/ TakeDecision(t) \/ LoadForConfirm(t) \/ NothingToConfirm(t)
    \/ ForwardConfirmed(t) \/ StoreRejection(t) \/ SignalRejection(t)
    \/ HandlerFails(t) \/ Release(t)

-----------------------------------------------------------------------------
(* Tool workers and browsers: handle_tool_request, submit_tool_result.     *)

RunTool(c) ==
    /\ work[c] > 0
    /\ work' = [work EXCEPT ![c] = @ - 1]
    /\ results' = results \cup {c}
    /\ executed' = executed \cup {c}
    /\ stored' = [stored EXCEPT ![c] = @ + 1]
    /\ UNCHANGED <<lock, tables, signals, prompts, decisions, pc, locals, budgets, used,
                   decided, injected, emitted, unseen, missed, expiries, handledAgain>>

SendSignal(c) ==
    /\ stored[c] > 0
    /\ stored' = [stored EXCEPT ![c] = @ - 1]
    /\ signals' = signals + 1
    /\ UNCHANGED <<redis, tables, work, prompts, decisions, pc, locals, budgets, history>>

\* The worker swallows a failing send: "The orchestrator will timeout and handle it".
SignalFails(c) ==
    /\ stored[c] > 0
    /\ failures < MaxFailures
    /\ failures' = failures + 1
    /\ stored' = [stored EXCEPT ![c] = @ - 1]
    /\ missed' = missed \cup {"send_failed"}
    /\ UNCHANGED <<redis, tables, work, signals, prompts, decisions, pc, locals,
                   clicks, used, decided, executed, injected, emitted, unseen, expiries,
                   handledAgain>>

\* Storing the result raises: the consumer commits the request all the same.
StoreFails(c) ==
    /\ work[c] > 0
    /\ failures < MaxFailures
    /\ failures' = failures + 1
    /\ work' = [work EXCEPT ![c] = @ - 1]
    /\ executed' = executed \cup {c}
    /\ missed' = missed \cup {"store_failed"}
    /\ UNCHANGED <<redis, tables, stored, signals, prompts, decisions, pc, locals,
                   clicks, used, decided, injected, emitted, unseen, expiries,
                   handledAgain>>

\* Whoever stored the result dies.  A worker's message is delivered again, or not
\* if a commit of a sibling task has passed it; a browser's request is not repeated.
WorkerCrash(c) ==
    /\ stored[c] > 0
    /\ failures < MaxFailures
    /\ failures' = failures + 1
    /\ stored' = [stored EXCEPT ![c] = @ - 1]
    /\ \/ /\ c \notin ClientSide
          /\ work' = [work EXCEPT ![c] = @ + 1]
          /\ UNCHANGED missed
       \/ missed' = missed \cup {"crash"} /\ UNCHANGED work
    /\ UNCHANGED <<redis, tables, signals, prompts, decisions, pc, locals, clicks, used,
                   decided, executed, injected, emitted, unseen, expiries, handledAgain>>

-----------------------------------------------------------------------------
(* The user, time, and crashes.                                            *)

\* POST /confirm-response publishes whatever the browser sends.
Decide(c, b) ==
    /\ c \in prompts
    /\ clicks < MaxDecisions
    /\ clicks' = clicks + 1
    /\ decisions' = [decisions EXCEPT ![c][b] = @ + 1]
    /\ decided' = decided \cup {c}
    /\ UNCHANGED <<redis, tables, work, stored, signals, prompts, pc, locals, failures,
                   used, executed, injected, emitted, unseen, missed, expiries,
                   handledAgain>>

ExpireResult(c) ==
    /\ ResultsMayExpire
    /\ c \in results
    /\ results' = results \ {c}
    /\ missed' = IF \E s \in LatestSnapshots : c \in s.pending
                 THEN missed \cup {"expired"} ELSE missed
    /\ UNCHANGED <<lock, tables, topics, pc, locals, budgets, used, decided, executed,
                   injected, emitted, unseen, expiries, handledAgain>>

\* The key of a task that died is dropped when its time is over,
ExpireLock ==
    /\ lock # None
    /\ pc[lock] = "idle"
    /\ lock' = None
    /\ UNCHANGED <<results, tables, topics, pc, locals, budgets, history>>

\* and so is that of a task at work: nothing calls extend.
OutliveLock ==
    /\ lock # None
    /\ pc[lock] # "idle"
    /\ failures < MaxFailures
    /\ failures' = failures + 1
    /\ lock' = None
    /\ expiries' = expiries + 1
    /\ UNCHANGED <<results, tables, topics, pc, locals, clicks, used, decided, executed,
                   injected, emitted, unseen, missed, handledAgain>>

\* A task that has saved a turn and not sent out all of it, or failed meanwhile:
\* the resume signal that comes again finds the turn saved and waits for it.
Undispatched(t) ==
    \/ pc[t] \in {"update", "dispatch"}
    \/ pc[t] = "finalSave" /\ state[t].status = "failed"

\* The three topics' partitions of this job may be assigned to different
\* processes.  The tasks of D die; the messages of those in Back were not
\* committed and are delivered again, the others' were committed by a commit()
\* of a sibling task.
Crash ==
    /\ failures < MaxFailures
    /\ \E G \in SUBSET {{JobTask}, ResumeTasks, ConfirmTasks} :
         LET D == {t \in UNION G : pc[t] \notin {"ready", "done", "idle"}}
         IN /\ D # {}
            /\ \E Back \in SUBSET D :
                 /\ pc' = [t \in Tasks |->
                            IF t \notin D THEN pc[t]
                            ELSE IF t # JobTask THEN "idle"
                            ELSE IF t \in Back THEN "ready" ELSE "done"]
                 /\ signals' = signals + Cardinality(Back \cap ResumeTasks)
                 /\ decisions' = [c \in Calls |-> [b \in BOOLEAN |->
                      decisions[c][b] + Cardinality({t \in Back \cap ConfirmTasks :
                                          msg[t] = [call |-> c, confirmed |-> b]})]]
                 /\ missed' = IF /\ Back = D
                                 /\ JobTask \in D => Waiting = {}
                                 /\ \A t \in D : ~Undispatched(t)
                              THEN missed ELSE missed \cup {"crash"}
                 /\ handledAgain' = (handledAgain \/ (JobTask \in Back /\ Waiting # {}))
            /\ state' = [t \in Tasks |-> IF t \in D THEN NewState ELSE state[t]]
            /\ todo' = [t \in Tasks |-> IF t \in D THEN {} ELSE todo[t]]
            /\ fetched' = [t \in Tasks |-> IF t \in D THEN {} ELSE fetched[t]]
            /\ rounds' = [t \in Tasks |-> IF t \in D THEN 0 ELSE rounds[t]]
    /\ failures' = failures + 1
    /\ UNCHANGED <<redis, tables, work, stored, prompts, msg, clicks, used, decided,
                   executed, injected, emitted, unseen, expiries>>

-----------------------------------------------------------------------------
Next ==
    \/ Job
    \/ \E t \in ResumeTasks : Resume(t)
    \/ \E t \in ConfirmTasks : Confirm(t)
    \/ \E c \in Calls : \/ RunTool(c) \/ SendSignal(c) \/ SignalFails(c)
                        \/ StoreFails(c) \/ WorkerCrash(c) \/ ExpireResult(c)
    \/ \E c \in Calls, b \in BOOLEAN : Decide(c, b)
    \/ ExpireLock
    \/ OutliveLock
    \/ Crash

Spec == Init /\ [][Next]_vars

\* Every task runs on, workers execute what they are sent, and an orphaned lock
\* is eventually dropped.  Neither the user nor a browser need answer.
Fairness ==
    /\ WF_vars(Job)
    /\ \A t \in ResumeTasks : WF_vars(Resume(t))
    /\ \A t \in ConfirmTasks : WF_vars(Confirm(t))
    /\ \A c \in Calls \ ClientSide : WF_vars(RunTool(c))
    /\ \A c \in Calls : WF_vars(SendSignal(c))
    /\ WF_vars(ExpireLock)

FairSpec == Spec /\ Fairness

-----------------------------------------------------------------------------
(* Properties                                                              *)

RedisType ==
    /\ lock \in LockTasks \cup {None}
    /\ results \subseteq Calls

TableType ==
    /\ snapshots \subseteq AgentState
    /\ jobStatus \in AgentStatus \ {"waiting_tool"}

TopicType ==
    /\ work \in [Calls -> Nat]
    /\ stored \in [Calls -> Nat]
    /\ signals \in Nat
    /\ prompts \subseteq NeedsConfirm
    /\ decisions \in [Calls -> [BOOLEAN -> Nat]]

TaskType ==
    /\ pc \in [Tasks -> Labels]
    /\ state \in [Tasks -> AgentState]
    /\ todo \in [Tasks -> SUBSET Calls]
    /\ fetched \in [Tasks -> SUBSET Calls]
    /\ rounds \in [Tasks -> Nat]
    /\ msg \in [ConfirmTasks -> Decisions \cup {None}]
    /\ \A t \in ConfirmTasks : pc[t] # "idle" => msg[t] \in Decisions

HistoryType ==
    /\ failures \in Nat /\ clicks \in Nat
    /\ used \subseteq Calls /\ decided \subseteq Calls /\ executed \subseteq Calls
    /\ injected \in [Calls -> Nat]
    /\ emitted \in [Calls -> Nat]
    /\ unseen \subseteq Calls
    /\ missed \subseteq {"lock_held", "not_waiting", "not_heard", "max_rounds",
                         "handler_failed", "send_failed", "store_failed", "expired",
                         "crash"}
    /\ expiries \in Nat /\ handledAgain \in BOOLEAN

TypeOK == RedisType /\ TableType /\ TopicType /\ TaskType /\ HistoryType

Processing(t) == pc[t] \in Critical

\* One of the tasks that take the lock is between acquire and release, and one
\* more for every lock that expired under its holder: the key that a task without
\* the lock deletes on its way out lets one in, but that task has gone by then.
LockExclusion ==
    Cardinality({t \in LockTasks : Processing(t)}) <= 1 + expiries

\* No task outlived its lock and the job message was not handled again once the
\* job was suspended: the two accidents after which tasks may mix turns.
Orderly == expiries = 0 /\ ~handledAgain

\* Some durable snapshot waits for the result of c.
Awaited(c) ==
    \E s \in snapshots : s.status = "waiting_tool" /\ c \in s.pending

\* A tool is sent out, prompted for or answered only after a snapshot that waits
\* for it is durable (agent.py: "Save snapshot before dispatching tools"), so
\* that no resume signal can find nothing to resume.
SnapshotBeforeDispatch ==
    \A c \in Calls :
        work[c] > 0 \/ stored[c] > 0 \/ c \in results \cup prompts => Awaited(c)

\* The messages that go to the LLM answer every tool call they contain, and so
\* does every snapshot but one that waits for exactly the missing results, or
\* one that failed while dispatching.
ConversationWellFormed ==
    /\ \A t \in Tasks : pc[t] = "llm" => state[t].asked = state[t].answered
    /\ \A s \in snapshots :
         /\ s.status # "failed" => s.pending = s.asked \ s.answered
         /\ s.status = "waiting_tool" <=> s.pending # {}

\* jobs.status never says completed or failed before a snapshot of that status
\* is durable.
RowAfterSnapshot ==
    jobStatus \in Terminal => \E s \in snapshots : s.status = jobStatus

\* Two suspended snapshots with one sequence number are of the same turn: what
\* load_latest_snapshot picks among them does not matter.
SequenceIdentifiesTurn ==
    Orderly => \A r, s \in Waiting :
        r.iteration = s.iteration => r.pending = s.pending /\ r.answered = s.answered

\* The result of a call enters the conversation once, unless the agent ran into
\* MaxIterations while waiting for it: then the failed and the suspended
\* snapshot have the same sequence number and the job may be resumed again.
InjectedOnce ==
    \A s \in snapshots :
        s.status = "waiting_tool" /\ s.iteration < MaxIterations
        => \A c \in s.pending : injected[c] <= 1

\* The user was shown every result that the LLM was given or that a snapshot says
\* was shown, but for those of hidden tools and those whose publication failed:
\* neither a partial batch, a repeated handler nor a crash hides one.
ResultsShown ==
    \A c \in Calls \ (Hidden \cup unseen) :
        injected[c] > 0 \/ (\E s \in snapshots : c \in s.shown) => emitted[c] > 0

\* Nothing is running or on its way.
Quiet ==
    /\ \A t \in Tasks : pc[t] \in {"idle", "done"}
    /\ signals = 0
    /\ \A c \in Calls :
         work[c] = 0 /\ stored[c] = 0 /\ \A b \in BOOLEAN : decisions[c][b] = 0

\* The job is suspended, waits for no decision of the user, and nothing happens.
Stuck ==
    /\ Quiet
    /\ \A s \in snapshots : s.status \notin Terminal
    /\ \E s \in LatestSnapshots :
         s.status = "waiting_tool" /\ s.pending \cap prompts \subseteq decided

\* Whoever works on the job one at a time, it is stuck in a turn only if something
\* came to nothing since that turn was saved, for one of the reasons in missed:
\* every call of the turn was sent out, and whoever answers last wakes the job up.
StuckOnlyIfMissed == Orderly /\ Stuck => missed # {}

\* The job reaches a terminal snapshot, unless something crashes or fails, a
\* wake-up comes to nothing, or the user or a browser leaves it unanswered.
JobEnds ==
    []<>(\/ \E s \in snapshots : s.status \in Terminal
         \/ failures > 0 \/ missed # {}
         \/ prompts \ decided # {}
         \/ \E c \in ClientSide : work[c] > 0)

-----------------------------------------------------------------------------
(* The inductive invariants behind SnapshotBeforeDispatch, RowAfterSnapshot *)
(* and ConversationWellFormed.                                             *)

\* What a task knows of the table from the row it has just saved or loaded.
TaskDurable(t) ==
    /\ pc[t] \in {"save", "update", "dispatch"} => state[t].status = "waiting_tool"
    /\ pc[t] \in {"update", "dispatch", "finalUpdate"} => state[t] \in snapshots
    /\ pc[t] = "dispatch" => todo[t] \subseteq state[t].pending
    /\ t \in ConfirmTasks /\ pc[t] = "answer" => Awaited(msg[t].call)

DurableInv == \A t \in Tasks : TaskDurable(t)

Coherent(s) ==
    /\ s.answered \subseteq s.asked
    /\ s.asked \subseteq used
    /\ s.status # "failed" => s.pending = s.asked \ s.answered
    /\ s.status = "waiting_tool" <=> s.pending # {}

\* A task is in the agent loop or in the suspended half of a handler as its
\* AgentState says.
TaskCoherent(t) ==
    /\ Coherent(state[t])
    /\ pc[t] \in {"loop", "checkpoint", "llm"} => state[t].status = "running"
    /\ pc[t] \in {"save", "update", "dispatch", "fetch", "persist", "resave"}
       => state[t].status = "waiting_tool"

ConversationInv ==
    /\ \A s \in snapshots : Coherent(s)
    /\ \A t \in Tasks : TaskCoherent(t)

\* Without faults the tasks, the lock, the snapshots and the topics together
\* behave as the turns of ToolTurns.
Turns == INSTANCE ToolTurns WITH
    asked <- used,
    available <- executed,
    taken <- {c \in Calls : injected[c] > 0},
    ended <- \E s \in snapshots : s.status \in Terminal

ImplementsToolTurns == Turns!Spec
=============================================================================
