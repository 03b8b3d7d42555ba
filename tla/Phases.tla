--------------------------------- MODULE Phases ---------------------------------
(***************************************************************************)
(* A job in multi-phase execution: PhaseExecutor, driven by the job        *)
(* handler, the resume handler (a tool has answered) and the user response *)
(* handler (the user has answered a question).                             *)
(*                                                                         *)
(* A handler works on its own copy of the state and runs one phase after   *)
(* the other until the job ends or waits; then it saves the copy.  What    *)
(* the LLM answers is a free choice.  The tool calls of a group are        *)
(* dispatched and answered together and stand for one call here, and so do *)
(* its LLM sub-tasks; SuspendResume has the calls of a turn one by one,    *)
(* expiring results and locks, and crashes.                                *)
(***************************************************************************)
EXTENDS Naturals, Sequences, FiniteSets

CONSTANTS
    Job, Resumer, Responder, \* the three handlers
    Nobody,         \* the lock is free, a handler has no work
    Plans,          \* execution orders the LLM may plan: sequences of groups
    FollowUps,      \* groups an evaluation may add
    MaxEvaluations, \* max_evaluations of the effort level
    MaxIterations,  \* max_iterations of the effort level
    MaxQuestions,   \* bound: questions
    MaxReplies,     \* bound: user responses
    MaxCalls,       \* bound: dispatches
    MaxFailures     \* bound: LLM calls that raise

VARIABLES
    snapshots, \* saved states; their iteration is their sequence number
    work,      \* work[h]: the state handler h holds and the method it runs next
    lock,      \* holder of the job's lock
    running,   \* calls at the tools
    results,   \* answered calls
    requested, \* the job's message is still to be handled
    signals,   \* resume signals
    replies,   \* user responses
    calls, questions, replied, failures \* counters

mail == <<requested, signals, replies>>
bounds == <<questions, replied, failures>>
vars == <<snapshots, work, lock, running, results, mail, calls, bounds>>

Handlers == {Job, Resumer, Responder}

\* A group's tool and LLM sub-tasks: absent, planned, at work or finished.
Group == [tools : {"none", "planned", "running", "done"},
          llm : {"none", "planned", "done"}]
PlannedGroup == [tools : {"none", "planned"}, llm : {"none", "planned"}]

ASSUME PhasesAssumption ==
    /\ Job # Resumer /\ Job # Responder /\ Resumer # Responder
    /\ Nobody \notin Handlers
    /\ Plans \subseteq Seq(PlannedGroup)
    /\ FollowUps \subseteq PlannedGroup
    /\ {MaxEvaluations, MaxIterations} \subseteq Nat
    /\ {MaxQuestions, MaxReplies, MaxCalls, MaxFailures} \subseteq Nat

AgentPhase ==
    {"triage", "decompose", "execute", "synthesize", "evaluate", "respond", "simple",
     "waiting_user"}
PhaseState ==
    [phase : AgentPhase, resume : AgentPhase \cup {"none"},
     status : {"running", "waiting_tool", "waiting_user", "completed", "failed"},
     groups : Seq(Group), index : Nat \ {0}, pending : Nat, open : SUBSET Nat,
     evals : Nat, draft : BOOLEAN, iteration : Nat]
Method == AgentPhase \cup {"stream", "dispatch", "recheck", "save", "resume"}

TypeOK ==
    /\ snapshots \subseteq PhaseState
    /\ work \in [Handlers -> [state : PhaseState, next : Method] \cup {Nobody}]
    /\ lock \in Handlers \cup {Nobody}
    /\ running \subseteq Nat
    /\ results \subseteq Nat
    /\ requested \in BOOLEAN
    /\ {signals, replies, calls, questions, replied, failures} \subseteq Nat

InitialState ==
    [phase |-> "triage", resume |-> "none", status |-> "running",
     groups |-> <<>>, index |-> 1, pending |-> 0, open |-> {}, evals |-> 0,
     draft |-> FALSE, iteration |-> 0]

Init ==
    /\ snapshots = {}
    /\ work = [h \in Handlers |-> Nobody]
    /\ lock = Nobody
    /\ running = {}
    /\ results = {}
    /\ requested = TRUE
    /\ signals = 0
    /\ replies = 0
    /\ calls = 0
    /\ questions = 0
    /\ replied = 0
    /\ failures = 0

Runs(h, method) == work[h] # Nobody /\ work[h].next = method
Held(h) == work[h].state
Goto(h, s, method) == work' = [work EXCEPT ![h] = [state |-> s, next |-> method]]

Quiet == UNCHANGED <<lock, running, results, mail, replied, failures>>
Local == Quiet /\ UNCHANGED <<snapshots, calls, questions>>

AllGroupsComplete(s) == s.index > Len(s.groups)
GroupComplete(g) == g.tools \in {"none", "done"} /\ g.llm \in {"none", "done"}

-----------------------------------------------------------------------------
(* Phases                                                                  *)

Asking(s) == [s EXCEPT !.phase = "waiting_user", !.status = "waiting_user"]

AskUser(h, s) ==
    /\ questions < MaxQuestions
    /\ questions' = questions + 1
    /\ snapshots' = snapshots \cup {Asking(s)}
    /\ Goto(h, Asking(s), "save")
    /\ UNCHANGED calls
    /\ Quiet

\* _transition_phase: the reflection proceeds, whether it adjusts the todo list
\* or not, or asks the user first.
Transition(h, s, phase) ==
    \/ Goto(h, [s EXCEPT !.phase = phase], phase) /\ Local
    \/ AskUser(h, [s EXCEPT !.resume = phase])

Simple(s) ==
    [s EXCEPT !.phase = "simple", !.resume = "none", !.groups = <<>>,
              !.index = 1, !.evals = 0, !.draft = FALSE]

Triage(h) ==
    /\ Runs(h, "triage")
    /\ \/ \E phase \in {"decompose", "simple"} :
             AskUser(h, [Held(h) EXCEPT !.resume = phase])
       \/ Transition(h, Held(h), "decompose")
       \/ Goto(h, Simple(Held(h)), "stream") /\ Local

Decompose(h) ==
    /\ Runs(h, "decompose")
    /\ \E plan \in Plans :
          Transition(h, [Held(h) EXCEPT !.groups = plan, !.index = 1], "execute")

\* The state with a call out, saved before it is dispatched.
Waiting(s, call) ==
    [s EXCEPT !.status = "waiting_tool", !.pending = call, !.open = @ \cup {call}]

Suspend(h, s) ==
    /\ calls < MaxCalls
    /\ calls' = calls + 1
    /\ snapshots' = snapshots \cup {Waiting(s, calls')}
    /\ Goto(h, Waiting(s, calls'), "dispatch")
    /\ UNCHANGED questions
    /\ Quiet

\* The LLM sub-tasks of a group: one that fails is over, too.
LlmDone(g) == [g EXCEPT !.llm = IF @ = "planned" THEN "done" ELSE @]

\* advance_group, and what comes after it.
Advanced(s) == [s EXCEPT !.index = @ + 1]
GoOn(h, s) ==
    IF AllGroupsComplete(s) THEN Transition(h, s, "synthesize")
    ELSE Goto(h, s, "execute") /\ Local

\* The group at index: its LLM sub-tasks are done at once.
WithGroup(s, g) == [s EXCEPT !.groups[s.index] = g]

Execute(h) ==
    /\ Runs(h, "execute")
    /\ LET s == Held(h)
           thought == LlmDone(s.groups[s.index])
       IN  IF AllGroupsComplete(s) THEN Transition(h, s, "synthesize")
           ELSE IF thought.tools # "none"
                THEN Suspend(h, WithGroup(s, [thought EXCEPT !.tools = "running"]))
                ELSE GoOn(h, Advanced(WithGroup(s, thought)))

\* An answer of the LLM may be empty.
Synthesize(h) ==
    /\ Runs(h, "synthesize")
    /\ \E draft \in BOOLEAN :
          Transition(h, [Held(h) EXCEPT !.draft = draft], "evaluate")

\* Mutant: the index is left past the groups that have run.
AddGroupBehind(s, g) ==
    [s EXCEPT !.groups = Append(@, g), !.index = Len(s.groups) + 2]

AddGroup(s, g) ==
    [s EXCEPT !.groups = Append(@, g), !.index = Len(s.groups) + 1]

\* The phase stays "evaluate" while an added group runs.
Evaluate(h) ==
    /\ Runs(h, "evaluate")
    /\ LET s == Held(h)
           counted == [s EXCEPT !.evals = @ + 1]
       IN  IF s.evals >= MaxEvaluations THEN Transition(h, s, "respond")
           ELSE \/ Transition(h, counted, "respond")
                \/ AskUser(h, [counted EXCEPT !.resume = "evaluate"])
                \/ \E g \in FollowUps : Goto(h, AddGroup(counted, g), "execute") /\ Local

Respond(h) ==
    /\ Runs(h, "respond")
    /\ IF Held(h).draft THEN Goto(h, Held(h), "stream")
       ELSE Goto(h, [Held(h) EXCEPT !.status = "completed"], "save")
    /\ Local

\* Mutant: an iteration of the agent loop is not counted.
Uncounted(s) == s

Counted(s) == [s EXCEPT !.iteration = @ + 1]

\* AgentExecutor.execute_streaming, in phase "simple" or "respond".
Stream(h) ==
    /\ Runs(h, "stream")
    /\ IF Held(h).iteration >= MaxIterations
       THEN Goto(h, [Held(h) EXCEPT !.status = "failed"], "save") /\ Local
       ELSE \/ Goto(h, [Counted(Held(h)) EXCEPT !.status = "completed"], "save") /\ Local
            \/ Suspend(h, Counted(Held(h)))

Dispatch(h) ==
    /\ Runs(h, "dispatch")
    /\ running' = running \cup {Held(h).pending}
    /\ Goto(h, Held(h), IF h = Resumer THEN "recheck" ELSE "save")
    /\ UNCHANGED <<snapshots, lock, results, mail, calls, bounds>>

-----------------------------------------------------------------------------
(* Handlers                                                                *)

Release(h) == lock' = IF lock = h THEN Nobody ELSE lock

Save(h) ==
    /\ Runs(h, "save")
    /\ snapshots' = snapshots \cup {Held(h)}
    /\ work' = [work EXCEPT ![h] = Nobody]
    /\ Release(h)
    /\ UNCHANGED <<running, results, mail, calls, bounds>>

\* An exception: an error event, and nothing is saved.
Fail(h) ==
    /\ work[h] # Nobody
    /\ work[h].next \in {"triage", "decompose", "execute", "synthesize", "evaluate",
                         "respond", "stream"}
    /\ failures < MaxFailures
    /\ failures' = failures + 1
    /\ work' = [work EXCEPT ![h] = Nobody]
    /\ Release(h)
    /\ UNCHANGED <<snapshots, running, results, mail, calls, questions, replied>>

HandleJob ==
    /\ requested
    /\ requested' = FALSE
    /\ Goto(Job, InitialState, "triage")
    /\ UNCHANGED <<snapshots, lock, running, results, signals, replies, calls, bounds>>

\* load_latest_snapshot orders by sequence number only: any of those that share
\* the highest may come.
Latest == {s \in snapshots : \A other \in snapshots : other.iteration <= s.iteration}

\* Handler h takes the lock and starts on a state it loaded, ...
Start(h, s, method) ==
    /\ work[h] = Nobody
    /\ lock = Nobody
    /\ lock' = h
    /\ Goto(h, s, method)
    /\ UNCHANGED <<snapshots, running, results, requested, calls, bounds>>

\* ... or drops a signal that finds the lock held, or a state that is not ready.
Drop(h, ready) ==
    /\ work[h] = Nobody
    /\ lock # Nobody \/ snapshots = {} \/ Latest \ ready # {}
    /\ UNCHANGED <<lock, work, snapshots, running, results, requested, calls, bounds>>

ToolsReady == {s \in snapshots : s.status = "waiting_tool" /\ s.pending \in results}

HandleResume ==
    /\ signals > 0
    /\ signals' = signals - 1
    /\ \/ \E s \in Latest \cap ToolsReady : Start(Resumer, s, "resume")
       \/ Drop(Resumer, ToolsReady)
    /\ UNCHANGED replies

\* The call's result is in the conversation, and the sub-tasks that ran are done.
ToolsDone(g) == [g EXCEPT !.tools = IF @ = "running" THEN "done" ELSE @]
Resumed(s) ==
    [s EXCEPT !.status = "running", !.pending = 0, !.open = @ \ {s.pending},
              !.groups = [i \in DOMAIN @ |-> ToolsDone(@[i])]]

\* resume_after_tools, or resume_from_snapshot in the simple mode.
ResumeAfterTools(h) ==
    /\ Runs(h, "resume")
    /\ LET s == Resumed(Held(h))
       IN  IF s.phase = "simple" THEN Goto(h, s, "stream") /\ Local
           ELSE IF ~AllGroupsComplete(s) /\ ~GroupComplete(s.groups[s.index])
                THEN Goto(h, s, "save") /\ Local
                ELSE GoOn(h, Advanced(s))

\* The loop of the resume handler: the state that waits again is saved, and
\* gone on with if the new call has already been answered.
Recheck ==
    /\ Runs(Resumer, "recheck")
    /\ snapshots' = snapshots \cup {Held(Resumer)}
    /\ Goto(Resumer, Held(Resumer),
            IF Held(Resumer).pending \in results THEN "resume" ELSE "save")
    /\ UNCHANGED <<lock, running, results, mail, calls, bounds>>

\* Mutant: the status is not looked at.
AnyUnended == {s \in snapshots : s.status \in {"waiting_user", "waiting_tool"}}

UserReady == {s \in snapshots : s.status = "waiting_user"}

\* The phase to go on with, in the simple mode with a state made anew.
Answered(s) ==
    IF s.resume = "simple" THEN [Simple(s) EXCEPT !.status = "running"]
    ELSE [s EXCEPT !.status = "running", !.resume = "none",
                   !.phase = IF s.resume = "none" THEN "triage" ELSE s.resume]

HandleUserResponse ==
    /\ replies > 0
    /\ replies' = replies - 1
    /\ \/ \E s \in Latest \cap UserReady :
             Start(Responder, Answered(s),
                   IF s.resume = "simple" THEN "stream" ELSE Answered(s).phase)
       \/ Drop(Responder, UserReady)
    /\ UNCHANGED signals

-----------------------------------------------------------------------------
(* Tools and users                                                         *)

FinishTool(c) ==
    /\ running' = running \ {c}
    /\ results' = results \cup {c}
    /\ signals' = signals + 1
    /\ UNCHANGED <<snapshots, work, lock, requested, replies, calls, bounds>>

\* Whoever sees a question may answer it, more than once.
Reply ==
    /\ replied < MaxReplies
    /\ questions > 0
    /\ replied' = replied + 1
    /\ replies' = replies + 1
    /\ UNCHANGED <<snapshots, work, lock, running, results, requested, signals, calls,
                   questions, failures>>

RunPhase(h) ==
    \/ Triage(h)
    \/ Decompose(h)
    \/ Execute(h)
    \/ Synthesize(h)
    \/ Evaluate(h)
    \/ Respond(h)
    \/ Stream(h)
    \/ Dispatch(h)
    \/ Save(h)
    \/ Fail(h)

Next ==
    \/ HandleJob
    \/ HandleResume
    \/ HandleUserResponse
    \/ \E h \in Handlers : RunPhase(h)
    \/ ResumeAfterTools(Resumer)
    \/ Recheck
    \/ \E c \in running : FinishTool(c)
    \/ Reply

Spec == Init /\ [][Next]_vars

-----------------------------------------------------------------------------
(* Properties                                                              *)

\* Whatever was planned, added by an evaluation, answered or loaded again: when
\* the findings are combined, every group that was planned has run to its end.
SynthesisCoversPlan ==
    \A h \in Handlers : Runs(h, "synthesize") =>
        \A i \in DOMAIN Held(h).groups : GroupComplete(Held(h).groups[i])

\* The conversation handed to the streaming LLM has an answer to each tool call
\* in it: no handler takes up a state that waits for something else.
ConversationAnswered ==
    \A h \in Handlers : Runs(h, "stream") => Held(h).open = {}

\* A job whose final answer was streamed is never taken up again, by a late or
\* repeated signal or response: its snapshot outranks those that wait.  A job
\* completed without a draft has no such protection: its snapshot may share its
\* sequence number with one that waits.
Streamed(s) == s.status = "completed" /\ (s.draft \/ s.phase = "simple")
NoWorkAfterEnd ==
    [][\A h \in Handlers :
          work[h] = Nobody /\ (\E s \in snapshots : Streamed(s)) => work'[h] = Nobody]_vars
=============================================================================
