------------------------ MODULE SuspendResumeProofs ------------------------
(***************************************************************************)
(* What is proved of one suspended and resumed job, in this order: types,  *)
(* the lock, durability of what was dispatched, the conversations, results *)
(* shown and produced, turns and sequence numbers; then, where nothing     *)
(* fails, runs, calls and injections and the refinement of ToolTurns; and, *)
(* whatever fails, that a job is stuck only if something it waits for was  *)
(* missed.                                                                 *)
(***************************************************************************)
EXTENDS SuspendResume, FiniteSetTheorems, TLAPS

-----------------------------------------------------------------------------
(* The operations of AgentState.                                           *)

\* The state handle_job builds is an AgentState.
LEMMA NewStateType == NewState \in AgentState
  BY DEF NewState, AgentState, AgentStatus

\* The fields of an AgentState and their types.
LEMMA AgentStateFields ==
  ASSUME NEW s \in AgentState
  PROVE  /\ s.status \in AgentStatus
         /\ s.iteration \in Nat
         /\ s.asked \subseteq Calls
         /\ s.answered \subseteq Calls
         /\ s.pending \subseteq Calls
         /\ s.shown \subseteq Calls
  BY DEF AgentState

\* A field may be given any value of its type.
LEMMA AgentStateUpdate ==
  ASSUME NEW s \in AgentState
  PROVE  /\ \A x \in AgentStatus : [s EXCEPT !.status = x] \in AgentState
         /\ \A i \in Nat : [s EXCEPT !.iteration = i] \in AgentState
         /\ \A T \in SUBSET Calls : [s EXCEPT !.asked = T] \in AgentState
         /\ \A T \in SUBSET Calls : [s EXCEPT !.answered = T] \in AgentState
         /\ \A T \in SUBSET Calls : [s EXCEPT !.pending = T] \in AgentState
         /\ \A T \in SUBSET Calls : [s EXCEPT !.shown = T] \in AgentState
<1>1. \A x \in AgentStatus : [s EXCEPT !.status = x] \in AgentState
  BY DEF AgentState
<1>2. \A i \in Nat : [s EXCEPT !.iteration = i] \in AgentState
  BY DEF AgentState
<1>3. \A T \in SUBSET Calls : [s EXCEPT !.asked = T] \in AgentState
  BY DEF AgentState
<1>4. \A T \in SUBSET Calls : [s EXCEPT !.answered = T] \in AgentState
  BY DEF AgentState
<1>5. \A T \in SUBSET Calls : [s EXCEPT !.pending = T] \in AgentState
  BY DEF AgentState
<1>6. \A T \in SUBSET Calls : [s EXCEPT !.shown = T] \in AgentState
  BY DEF AgentState
<1> QED  BY <1>1, <1>2, <1>3, <1>4, <1>5, <1>6

\* mark_completed and mark_failed give an AgentState.
LEMMA MarkEndedType ==
  ASSUME NEW s \in AgentState
  PROVE  MarkFailed(s) \in AgentState /\ MarkCompleted(s) \in AgentState
<1>1. [[s EXCEPT !.status = "failed"] EXCEPT !.pending = {}] \in AgentState
  BY AgentStateUpdate DEF AgentStatus
<1>2. [[s EXCEPT !.status = "completed"] EXCEPT !.pending = {}] \in AgentState
  BY AgentStateUpdate DEF AgentStatus
<1> QED  BY <1>1, <1>2 DEF MarkFailed, MarkCompleted

\* mark_waiting_tool gives an AgentState.
LEMMA MarkWaitingToolType ==
  ASSUME NEW s \in AgentState, NEW T \in SUBSET Calls
  PROVE  MarkWaitingTool(s, T) \in AgentState
<1> DEFINE s1 == [s EXCEPT !.status = "waiting_tool"]
           s2 == [s1 EXCEPT !.asked = s.asked \cup T]
           s3 == [s2 EXCEPT !.pending = T]
<1>1. s1 \in AgentState
  BY AgentStateUpdate DEF AgentStatus
<1>2. s2 \in AgentState
  <2> HIDE DEF s1
  <2> QED  BY <1>1, AgentStateUpdate, AgentStateFields
<1>3. s3 \in AgentState
  <2> HIDE DEF s2
  <2> QED  BY <1>2, AgentStateUpdate
<1>4. MarkWaitingTool(s, T) = s3
  BY DEF MarkWaitingTool, AgentState
<1> QED  BY <1>3, <1>4

\* Injecting the results of the pending calls gives an AgentState.
LEMMA InjectResultsType ==
  ASSUME NEW s \in AgentState
  PROVE  InjectResults(s) \in AgentState
<1> DEFINE s1 == [s EXCEPT !.status = "running"]
           s2 == [s1 EXCEPT !.answered = s.answered \cup s.pending]
           s3 == [s2 EXCEPT !.pending = {}]
           s4 == [s3 EXCEPT !.shown = {}]
<1>1. s1 \in AgentState
  BY AgentStateUpdate DEF AgentStatus
<1>2. s2 \in AgentState
  <2> HIDE DEF s1
  <2> QED  BY <1>1, AgentStateUpdate, AgentStateFields
<1>3. s3 \in AgentState
  <2> HIDE DEF s2
  <2> QED  BY <1>2, AgentStateUpdate
<1>4. s4 \in AgentState
  <2> HIDE DEF s3
  <2> QED  BY <1>3, AgentStateUpdate
<1>5. InjectResults(s) = s4
  BY DEF InjectResults, AgentState
<1> QED  BY <1>4, <1>5

\* What the operations do to the fields the invariants speak of.
LEMMA MarkEndedFields ==
  ASSUME NEW s \in AgentState
  PROVE  /\ MarkFailed(s).status = "failed"
         /\ MarkFailed(s).asked = s.asked
         /\ MarkFailed(s).answered = s.answered
         /\ MarkFailed(s).pending = {}
         /\ MarkCompleted(s).status = "completed"
         /\ MarkCompleted(s).asked = s.asked
         /\ MarkCompleted(s).answered = s.answered
         /\ MarkCompleted(s).pending = {}
  BY DEF MarkFailed, MarkCompleted, AgentState

\* What mark_waiting_tool does to the fields the invariants speak of.
LEMMA MarkWaitingToolFields ==
  ASSUME NEW s \in AgentState, NEW T \in SUBSET Calls
  PROVE  /\ MarkWaitingTool(s, T).status = "waiting_tool"
         /\ MarkWaitingTool(s, T).asked = s.asked \cup T
         /\ MarkWaitingTool(s, T).answered = s.answered
         /\ MarkWaitingTool(s, T).pending = T
  BY DEF MarkWaitingTool, AgentState

\* What injecting the results does to the same fields.
LEMMA InjectResultsFields ==
  ASSUME NEW s \in AgentState
  PROVE  /\ InjectResults(s).status = "running"
         /\ InjectResults(s).asked = s.asked
         /\ InjectResults(s).answered = s.answered \cup s.pending
         /\ InjectResults(s).pending = {}
  BY DEF InjectResults, AgentState

-----------------------------------------------------------------------------
(* Type correctness.                                                       *)

\* The orchestrator starts with every variable in its type.
LEMMA InitTypeOK == Init => TypeOK
<1> SUFFICES ASSUME Init
             PROVE  TypeOK
  OBVIOUS
<1> USE DEF Init
<1>1. RedisType /\ TableType /\ TopicType /\ HistoryType
  BY DEF RedisType, TableType, TopicType, HistoryType, AgentStatus
<1>2. TaskType
  BY NewStateType, TasksAssumption DEF TaskType, Labels, Tasks, LockTasks
<1> QED  BY <1>1, <1>2 DEF TypeOK

\* A step that leaves a group of variables alone keeps its type.
LEMMA UnchangedType ==
  /\ RedisType /\ UNCHANGED redis => RedisType'
  /\ TableType /\ UNCHANGED tables => TableType'
  /\ TopicType /\ UNCHANGED topics => TopicType'
  /\ TaskType /\ UNCHANGED <<pc, locals>> => TaskType'
  /\ HistoryType /\ UNCHANGED <<budgets, history>> => HistoryType'
  BY DEF RedisType, TableType, TopicType, TaskType, HistoryType, redis, tables, topics,
     locals, budgets, history

\* A task at work goes to another label, perhaps with another AgentState.
LEMMA TaskTypeStep ==
  ASSUME TaskType, NEW t \in Tasks, pc[t] # "idle", NEW l \in Labels, Goto(t, l),
         UNCHANGED msg,
         state' \in [Tasks -> AgentState],
         todo' \in [Tasks -> SUBSET Calls],
         fetched' \in [Tasks -> SUBSET Calls],
         rounds' \in [Tasks -> Nat]
  PROVE  TaskType'
<1>1. pc' \in [Tasks -> Labels]
  BY DEF TaskType, Goto
<1>2. msg' \in [ConfirmTasks -> Decisions \cup {None}]
  BY DEF TaskType
<1>3. \A u \in ConfirmTasks : pc'[u] # "idle" => msg'[u] \in Decisions
  <2> SUFFICES ASSUME NEW u \in ConfirmTasks, pc'[u] # "idle"
               PROVE  msg'[u] \in Decisions
    OBVIOUS
  <2>1. u \in Tasks
    BY DEF Tasks, LockTasks
  <2>2. pc[u] # "idle"
    BY <2>1 DEF TaskType, Goto
  <2> QED  BY <2>2 DEF TaskType
<1> QED  BY <1>1, <1>2, <1>3 DEF TaskType

\* Replacing the AgentState a task works on keeps the tasks typed.
LEMMA SetStateType ==
  ASSUME TaskType, NEW t \in Tasks, NEW s \in AgentState, SetState(t, s)
  PROVE  state' \in [Tasks -> AgentState]
  BY DEF TaskType, SetState

\* save_snapshot adds an AgentState to the snapshots.
LEMMA SaveSnapshotType ==
  ASSUME TypeOK, NEW t \in Tasks, SaveSnapshot(t)
  PROVE  snapshots' \subseteq AgentState
  BY DEF TypeOK, TableType, TaskType, SaveSnapshot

\* update_job writes a status of the jobs table.
LEMMA UpdateJobType ==
  ASSUME TypeOK, NEW t \in Tasks, UpdateJob(t)
  PROVE  jobStatus' \in AgentStatus \ {"waiting_tool"}
<1>1. state[t].status \in AgentStatus
  BY AgentStateFields DEF TypeOK, TaskType
<1> QED  BY <1>1 DEF UpdateJob, MapStatus, AgentStatus

\* Returning from the executor to its caller keeps every type.
LEMMA ReturnType ==
  ASSUME TypeOK, NEW t \in Tasks, pc[t] # "idle", NEW s \in AgentState, Return(t, s),
         UNCHANGED <<fetched, rounds, msg>>,
         todo' \in [Tasks -> SUBSET Calls]
  PROVE  TaskType'
<1>1. ReturnLabel(t, s) \in Labels
  BY DEF ReturnLabel, Labels
<1>2. state' \in [Tasks -> AgentState]
  BY SetStateType DEF Return, TypeOK
<1> QED  BY <1>1, <1>2, TaskTypeStep DEF Return, TypeOK, TaskType

\* The agent loop.
LEMMA ExecuteTypeOK ==
  ASSUME TypeOK, NEW t \in Tasks, Execute(t)
  PROVE  TypeOK'
<1> USE DEF TypeOK
<1>0. /\ state[t] \in AgentState
      /\ todo[t] \subseteq Calls
      /\ todo \in [Tasks -> SUBSET Calls]
  BY DEF TaskType
<1>1. CASE MaxIterationsReached(t)
  <2>1. TaskType'
    BY <1>0, <1>1, ReturnType, MarkEndedType DEF MaxIterationsReached
  <2> QED  BY <1>1, <2>1, UnchangedType DEF MaxIterationsReached
<1>2. CASE NextIteration(t)
  <2>1. [state[t] EXCEPT !.iteration = state[t].iteration + 1] \in AgentState
    BY <1>0, AgentStateFields, AgentStateUpdate
  <2>2. state' \in [Tasks -> AgentState]
    BY <1>2, <2>1, SetStateType DEF NextIteration
  <2>3. TaskType'
    BY <1>2, <2>2, TaskTypeStep DEF NextIteration, Labels, TaskType
  <2> QED  BY <1>2, <2>3, UnchangedType DEF NextIteration
<1>3. CASE Checkpoint(t)
  <2>1. TaskType'
    BY <1>3, TaskTypeStep DEF Checkpoint, Labels, TaskType, locals
  <2>2. TableType'
    BY <1>3, SaveSnapshotType DEF Checkpoint, TableType
  <2> QED  BY <1>3, <2>1, <2>2, UnchangedType DEF Checkpoint
<1>4. CASE LLMCallsTools(t)
  <2>1. PICK T \in SUBSET (Calls \ used) :
           SetState(t, MarkWaitingTool(state[t], T)) /\ used' = used \cup T
    BY <1>4 DEF LLMCallsTools
  <2>2. state' \in [Tasks -> AgentState]
    BY <1>0, <2>1, SetStateType, MarkWaitingToolType
  <2>3. TaskType'
    BY <1>4, <2>2, TaskTypeStep DEF LLMCallsTools, Labels, TaskType
  <2>4. HistoryType'
    BY <1>4, <2>1 DEF LLMCallsTools, HistoryType, budgets
  <2> QED  BY <1>4, <2>3, <2>4, UnchangedType DEF LLMCallsTools
<1>5. CASE LLMAnswers(t)
  <2>1. TaskType'
    BY <1>0, <1>5, ReturnType, MarkEndedType DEF LLMAnswers
  <2> QED  BY <1>5, <2>1, UnchangedType DEF LLMAnswers
<1>6. CASE StreamEndsEarly(t)
  <2>1. TaskType'
    BY <1>6, TaskTypeStep DEF StreamEndsEarly, Labels, TaskType, locals
  <2> QED  BY <1>6, <2>1, UnchangedType DEF StreamEndsEarly
<1>7. CASE SaveWaiting(t)
  <2>1. TaskType'
    BY <1>7, TaskTypeStep DEF SaveWaiting, Labels, TaskType, locals
  <2>2. TableType'
    BY <1>7, SaveSnapshotType DEF SaveWaiting, TableType
  <2>3. HistoryType'
    BY <1>7 DEF SaveWaiting, HistoryType, budgets
  <2> QED  BY <1>7, <2>1, <2>2, <2>3, UnchangedType DEF SaveWaiting
<1>8. CASE UpdateWaiting(t)
  <2>1. state[t].pending \subseteq Calls
    BY <1>0, AgentStateFields
  <2>2. todo' \in [Tasks -> SUBSET Calls]
    BY <1>0, <1>8, <2>1 DEF UpdateWaiting
  <2>3. TaskType'
    BY <1>8, <2>2, TaskTypeStep DEF UpdateWaiting, Labels, TaskType
  <2>4. TableType'
    BY <1>8, UpdateJobType DEF UpdateWaiting, TableType
  <2> QED  BY <1>8, <2>3, <2>4, UnchangedType DEF UpdateWaiting
<1>9. CASE DispatchTool(t)
  <2>1. PICK c \in todo[t] :
           /\ IF c \in NeedsConfirm
              THEN prompts' = prompts \cup {c} /\ UNCHANGED <<work, missed>>
              ELSE SendOut(c) /\ UNCHANGED prompts
           /\ todo' = [todo EXCEPT ![t] = @ \ {c}]
           /\ Goto(t, IF todo[t] = {c} THEN ReturnLabel(t, state[t]) ELSE "dispatch")
    BY <1>9 DEF DispatchTool
  <2>2. todo' \in [Tasks -> SUBSET Calls]
    BY <1>0, <2>1
  <2>3. (IF todo[t] = {c} THEN ReturnLabel(t, state[t]) ELSE "dispatch") \in Labels
    BY DEF ReturnLabel, Labels
  <2>4. TaskType'
    BY <1>9, <2>1, <2>2, <2>3, TaskTypeStep DEF DispatchTool, TaskType
  <2>5. TopicType'
    BY <1>0, <1>9, <2>1 DEF DispatchTool, SendOut, TopicType
  <2>6. HistoryType'
    BY <1>9, <2>1 DEF DispatchTool, SendOut, HistoryType, budgets
  <2> QED  BY <1>9, <2>4, <2>5, <2>6, UnchangedType DEF DispatchTool
<1>10. CASE ExecutorFails(t)
  <2>1. TaskType'
    <3>1. todo' \in [Tasks -> SUBSET Calls]
      BY <1>0, <1>10 DEF ExecutorFails
    <3> QED  BY <1>0, <1>10, <3>1, ReturnType, MarkEndedType DEF ExecutorFails
  <2>2. HistoryType'
    BY <1>10 DEF ExecutorFails, HistoryType, history
  <2> QED  BY <1>10, <2>1, <2>2, UnchangedType DEF ExecutorFails
<1> QED  BY <1>1, <1>2, <1>3, <1>4, <1>5, <1>6, <1>7, <1>8, <1>9, <1>10 DEF Execute

\* The end of a handler.
LEMMA EndTypeOK ==
  ASSUME TypeOK, NEW t \in Tasks,
         FinalSave(t) \/ FinalUpdate(t) \/ HandlerFails(t) \/ Release(t)
  PROVE  TypeOK'
<1> USE DEF TypeOK
<1>1. CASE FinalSave(t)
  <2>1. TaskType'
    BY <1>1, TaskTypeStep DEF FinalSave, Labels, TaskType, locals
  <2>2. TableType'
    BY <1>1, SaveSnapshotType DEF FinalSave, TableType
  <2> QED  BY <1>1, <2>1, <2>2, UnchangedType DEF FinalSave
<1>2. CASE FinalUpdate(t)
  <2>1. TaskType'
    BY <1>2, TaskTypeStep DEF FinalUpdate, Labels, TaskType, locals
  <2>2. TableType'
    BY <1>2, UpdateJobType DEF FinalUpdate, TableType
  <2> QED  BY <1>2, <2>1, <2>2, UnchangedType DEF FinalUpdate
<1>3. CASE HandlerFails(t)
  <2>1. TaskType'
    BY <1>3, TaskTypeStep DEF HandlerFails, Labels, TaskType, locals
  <2>2. HistoryType'
    BY <1>3 DEF HandlerFails, HistoryType
  <2> QED  BY <1>3, <2>1, <2>2, UnchangedType DEF HandlerFails
<1>4. CASE Release(t)
  <2>1. /\ state' \in [Tasks -> AgentState]
        /\ todo' \in [Tasks -> SUBSET Calls]
        /\ fetched' \in [Tasks -> SUBSET Calls]
        /\ rounds' \in [Tasks -> Nat]
    BY <1>4, NewStateType DEF Release, Forget, TaskType
  <2>2. TaskType'
    BY <1>4, <2>1, TaskTypeStep DEF Release, Labels
  <2>3. RedisType'
    BY <1>4 DEF Release, RedisType
  <2> QED  BY <1>4, <2>2, <2>3, UnchangedType DEF Release
<1> QED  BY <1>1, <1>2, <1>3, <1>4

\* A snapshot that load_latest_snapshot may return is an AgentState.
LEMMA LatestType ==
  ASSUME TypeOK, NEW s \in LatestSnapshots
  PROVE  s \in AgentState /\ s \in snapshots
  BY DEF TypeOK, TableType, LatestSnapshots

\* What is emitted or could not be published are calls.
LEMMA EmitType ==
  ASSUME HistoryType, NEW T \in SUBSET Calls, EmitToolResults(T),
         UNCHANGED <<clicks, used, decided, executed, missed, expiries, handledAgain>>,
         injected' \in [Calls -> Nat]
  PROVE  HistoryType'
<1>1. PICK gone \in SUBSET (T \ Hidden) :
         /\ failures' = IF gone = {} THEN failures ELSE failures + 1
         /\ emitted' = [c \in Calls |->
                          emitted[c] + (IF c \in T \ (Hidden \cup gone) THEN 1 ELSE 0)]
         /\ unseen' = unseen \cup gone
  BY DEF EmitToolResults
<1>2. failures' \in Nat
  BY <1>1 DEF HistoryType
<1>3. emitted' \in [Calls -> Nat]
  BY <1>1 DEF HistoryType
<1>4. unseen' \subseteq Calls
  BY <1>1 DEF HistoryType
<1> QED  BY <1>2, <1>3, <1>4 DEF HistoryType

\* ResumeHandler.
LEMMA ResumeTypeOK ==
  ASSUME TypeOK, NEW t \in ResumeTasks, Resume(t)
  PROVE  TypeOK'
<1> USE DEF TypeOK
<1>0. /\ t \in Tasks /\ t \in LockTasks /\ t \notin ConfirmTasks
      /\ state[t] \in AgentState
      /\ state \in [Tasks -> AgentState]
      /\ todo \in [Tasks -> SUBSET Calls]
      /\ fetched \in [Tasks -> SUBSET Calls]
      /\ rounds \in [Tasks -> Nat]
  BY TasksAssumption DEF TaskType, Tasks, LockTasks
<1>a. /\ state[t].pending \subseteq Calls /\ state[t].shown \subseteq Calls
      /\ fetched[t] \subseteq Calls
  BY <1>0, AgentStateFields
<1>1. CASE TakeSignal(t)
  <2>1. TaskType'
    <3>1. pc' \in [Tasks -> Labels]
      BY <1>1 DEF TakeSignal, TaskType, Goto, Labels
    <3>2. \A u \in ConfirmTasks : pc'[u] = pc[u]
      BY <1>0, <1>1 DEF TakeSignal, TaskType, Goto, Tasks, LockTasks
    <3> QED  BY <1>1, <3>1, <3>2 DEF TakeSignal, TaskType, locals
  <2>2. RedisType'
    BY <1>0, <1>1 DEF TakeSignal, RedisType
  <2>3. TopicType'
    BY <1>1 DEF TakeSignal, TopicType
  <2>4. HistoryType'
    BY <1>1 DEF TakeSignal, HistoryType, budgets
  <2> QED  BY <1>1, <2>1, <2>2, <2>3, <2>4, UnchangedType DEF TakeSignal
<1>2. CASE LoadForResume(t)
  <2>1. PICK s \in LatestSnapshots :
           SetState(t, s) /\ todo' = [todo EXCEPT ![t] = s.pending]
    BY <1>2 DEF LoadForResume
  <2>2. s \in AgentState
    BY LatestType
  <2>3. todo' \in [Tasks -> SUBSET Calls]
    BY <1>0, <2>1, <2>2, AgentStateFields
  <2>4. state' \in [Tasks -> AgentState]
    BY <1>0, <2>1, <2>2, SetStateType
  <2>5. TaskType'
    BY <1>0, <1>2, <2>3, <2>4, TaskTypeStep DEF LoadForResume, Labels
  <2> QED  BY <1>2, <2>5, UnchangedType DEF LoadForResume
<1>3. CASE NothingToResume(t)
  <2>1. TaskType'
    BY <1>0, <1>3, TaskTypeStep DEF NothingToResume, Labels, locals
  <2>2. HistoryType'
    BY <1>3 DEF NothingToResume, HistoryType, budgets
  <2> QED  BY <1>3, <2>1, <2>2, UnchangedType DEF NothingToResume
<1>4. CASE FetchResult(t)
  <2>1. TaskType'
    BY <1>4 DEF FetchResult, TaskType, RedisType
  <2> QED  BY <1>4, <2>1, UnchangedType DEF FetchResult
<1>5. CASE EmitPartialResults(t)
  <2> DEFINE newly == fetched[t] \ state[t].shown
  <2>1. state[t].shown \cup newly \in SUBSET Calls
    BY <1>0, <1>a
  <2>2. [state[t] EXCEPT !.shown = state[t].shown \cup newly] \in AgentState
    BY <1>0, <2>1, AgentStateUpdate
  <2>3. state' \in [Tasks -> AgentState]
    BY <1>0, <1>5, <2>2, SetStateType DEF EmitPartialResults, MarkShown
  <2>4. TaskType'
    BY <1>0, <1>5, <2>3, TaskTypeStep DEF EmitPartialResults, MarkShown, Fetched, Labels
  <2>5. HistoryType'
    <3>1. newly \in SUBSET Calls /\ injected \in [Calls -> Nat]
      BY <1>a DEF HistoryType
    <3> QED  BY <1>5, <3>1, EmitType DEF EmitPartialResults
  <2> QED  BY <1>5, <2>4, <2>5, UnchangedType DEF EmitPartialResults, MarkShown
<1>6. CASE PersistPartial(t)
  <2>1. TaskType'
    BY <1>0, <1>6, TaskTypeStep DEF PersistPartial, Labels, locals
  <2>2. TableType'
    BY <1>0, <1>6, SaveSnapshotType DEF PersistPartial, TableType
  <2> QED  BY <1>6, <2>1, <2>2, UnchangedType DEF PersistPartial
<1>7. CASE NothingNew(t)
  <2>1. TaskType'
    BY <1>0, <1>7, TaskTypeStep DEF NothingNew, Fetched, Labels, locals
  <2> QED  BY <1>7, <2>1, UnchangedType DEF NothingNew
<1>8. CASE ResumeFromSnapshot(t)
  <2>1. state' \in [Tasks -> AgentState]
    BY <1>0, <1>8, SetStateType, InjectResultsType DEF ResumeFromSnapshot
  <2>2. fetched' \in [Tasks -> SUBSET Calls] /\ rounds' \in [Tasks -> Nat]
    BY <1>0, <1>8 DEF ResumeFromSnapshot
  <2>3. TaskType'
    BY <1>0, <1>8, <2>1, <2>2, TaskTypeStep DEF ResumeFromSnapshot, Fetched, Labels
  <2>4. HistoryType'
    <3>1. state[t].pending \ state[t].shown \in SUBSET Calls
      BY <1>a
    <3>2. injected' \in [Calls -> Nat]
      BY <1>8 DEF ResumeFromSnapshot, HistoryType
    <3> QED  BY <1>8, <3>1, <3>2, EmitType DEF ResumeFromSnapshot
  <2> QED  BY <1>8, <2>3, <2>4, UnchangedType DEF ResumeFromSnapshot
<1>9. CASE SaveAndRecheck(t)
  <2>1. todo' \in [Tasks -> SUBSET Calls]
    BY <1>0, <1>a, <1>9 DEF SaveAndRecheck
  <2>2. TaskType'
    BY <1>0, <1>9, <2>1, TaskTypeStep DEF SaveAndRecheck, Labels
  <2>3. TableType'
    BY <1>0, <1>9, SaveSnapshotType DEF SaveAndRecheck, TableType
  <2> QED  BY <1>9, <2>2, <2>3, UnchangedType DEF SaveAndRecheck
<1>10. CASE StopResuming(t)
  <2>1. TaskType'
    BY <1>0, <1>10, TaskTypeStep DEF StopResuming, Fetched, Labels, locals
  <2>2. HistoryType'
    BY <1>10 DEF StopResuming, HistoryType, budgets
  <2> QED  BY <1>10, <2>1, <2>2, UnchangedType DEF StopResuming
<1> QED  BY <1>0, <1>1, <1>2, <1>3, <1>4, <1>5, <1>6, <1>7, <1>8, <1>9, <1>10,
            ExecuteTypeOK, EndTypeOK DEF Resume

\* JobHandler: taking the job and every step of handle_job.
LEMMA JobTypeOK ==
  ASSUME TypeOK, Job
  PROVE  TypeOK'
<1> USE DEF TypeOK
<1>0. JobTask \in Tasks
  BY DEF Tasks
<1>1. CASE StartJob
  <2>1. [NewState EXCEPT !.status = "running"] \in AgentState
    BY NewStateType, AgentStateUpdate DEF AgentStatus
  <2>2. state' \in [Tasks -> AgentState]
    BY <1>1, <2>1 DEF StartJob, TaskType
  <2>3. TaskType'
    BY <1>0, <1>1, <2>2, TaskTypeStep DEF StartJob, Labels, TaskType
  <2>4. TableType'
    BY <1>1 DEF StartJob, TableType, AgentStatus
  <2> QED  BY <1>1, <2>3, <2>4, UnchangedType DEF StartJob
<1> QED  BY <1>0, <1>1, ExecuteTypeOK, EndTypeOK DEF Job

\* ConfirmHandler.
LEMMA ConfirmTypeOK ==
  ASSUME TypeOK, NEW t \in ConfirmTasks, Confirm(t)
  PROVE  TypeOK'
<1> USE DEF TypeOK
<1>0. /\ t \in Tasks /\ t \in LockTasks
      /\ todo \in [Tasks -> SUBSET Calls]
      /\ fetched \in [Tasks -> SUBSET Calls]
      /\ rounds \in [Tasks -> Nat]
      /\ state \in [Tasks -> AgentState]
  BY DEF TaskType, Tasks, LockTasks
<1>1. CASE TakeDecision(t)
  <2>1. PICK c \in Calls, b \in BOOLEAN :
           /\ decisions[c][b] > 0
           /\ decisions' = [decisions EXCEPT ![c][b] = @ - 1]
           /\ IF LockFree
              THEN /\ lock' = t
                   /\ msg' = [msg EXCEPT ![t] = [call |-> c, confirmed |-> b]]
                   /\ Goto(t, "load")
                   /\ UNCHANGED missed
              ELSE /\ missed' = missed \cup {"lock_held"}
                   /\ UNCHANGED <<lock, msg, pc>>
    BY <1>1 DEF TakeDecision
  <2>2. [call |-> c, confirmed |-> b] \in Decisions
    BY DEF Decisions
  <2>3. TaskType'
    <3>1. pc' \in [Tasks -> Labels]
      BY <2>1 DEF TaskType, Goto, Labels
    <3>2. msg' \in [ConfirmTasks -> Decisions \cup {None}]
      BY <2>1, <2>2 DEF TaskType
    <3>3. \A u \in ConfirmTasks : pc'[u] # "idle" => msg'[u] \in Decisions
      <4> SUFFICES ASSUME NEW u \in ConfirmTasks, pc'[u] # "idle"
                   PROVE  msg'[u] \in Decisions
        OBVIOUS
      <4>1. u \in Tasks
        BY DEF Tasks, LockTasks
      <4>2. CASE u = t /\ LockFree
        BY <2>1, <2>2, <4>2 DEF TaskType
      <4>3. CASE ~(u = t /\ LockFree)
        BY <1>0, <2>1, <4>1, <4>3 DEF TaskType, Goto
      <4> QED  BY <4>2, <4>3
    <3> QED  BY <1>1, <3>1, <3>2, <3>3 DEF TakeDecision, TaskType
  <2>4. RedisType'
    BY <1>0, <1>1, <2>1 DEF TakeDecision, RedisType
  <2>5. TopicType'
    <3>1. decisions[c] \in [BOOLEAN -> Nat] /\ decisions[c][b] - 1 \in Nat
      BY <2>1 DEF TopicType
    <3>2. decisions' \in [Calls -> [BOOLEAN -> Nat]]
      BY <2>1, <3>1 DEF TopicType
    <3> QED  BY <1>1, <3>2 DEF TakeDecision, TopicType
  <2>6. HistoryType'
    BY <1>1, <2>1 DEF TakeDecision, HistoryType, budgets
  <2> QED  BY <1>1, <2>3, <2>4, <2>5, <2>6, UnchangedType DEF TakeDecision
<1>2. CASE LoadForConfirm(t)
  <2>1. PICK s \in LatestSnapshots : SetState(t, s)
    BY <1>2 DEF LoadForConfirm
  <2>2. state' \in [Tasks -> AgentState]
    BY <1>0, <2>1, LatestType, SetStateType
  <2>3. TaskType'
    BY <1>0, <1>2, <2>2, TaskTypeStep DEF LoadForConfirm, Labels
  <2> QED  BY <1>2, <2>3, UnchangedType DEF LoadForConfirm
<1>3. CASE NothingToConfirm(t)
  <2>1. TaskType'
    BY <1>0, <1>3, TaskTypeStep DEF NothingToConfirm, Labels, locals
  <2>2. HistoryType'
    BY <1>3 DEF NothingToConfirm, HistoryType, budgets
  <2> QED  BY <1>3, <2>1, <2>2, UnchangedType DEF NothingToConfirm
<1>4. CASE ForwardConfirmed(t)
  <2>1. msg[t].call \in Calls
    BY <1>4 DEF ForwardConfirmed, TaskType, Decisions
  <2>2. TaskType'
    BY <1>0, <1>4, TaskTypeStep DEF ForwardConfirmed, Labels, locals
  <2>3. TopicType'
    BY <1>4, <2>1 DEF ForwardConfirmed, SendOut, TopicType
  <2>4. HistoryType'
    BY <1>4 DEF ForwardConfirmed, SendOut, HistoryType, budgets
  <2> QED  BY <1>4, <2>2, <2>3, <2>4, UnchangedType DEF ForwardConfirmed
<1>5. CASE StoreRejection(t)
  <2>1. msg[t].call \in Calls
    BY <1>5 DEF StoreRejection, TaskType, Decisions
  <2>2. TaskType'
    BY <1>0, <1>5, TaskTypeStep DEF StoreRejection, Labels, locals
  <2>3. RedisType'
    BY <1>5, <2>1 DEF StoreRejection, RedisType
  <2>4. HistoryType'
    BY <1>5, <2>1 DEF StoreRejection, HistoryType, budgets
  <2> QED  BY <1>5, <2>2, <2>3, <2>4, UnchangedType DEF StoreRejection
<1>6. CASE SignalRejection(t)
  <2>1. TaskType'
    BY <1>0, <1>6, TaskTypeStep DEF SignalRejection, Labels, locals
  <2>2. TopicType'
    BY <1>6 DEF SignalRejection, TopicType
  <2> QED  BY <1>6, <2>1, <2>2, UnchangedType DEF SignalRejection
<1> QED  BY <1>0, <1>1, <1>2, <1>3, <1>4, <1>5, <1>6, EndTypeOK DEF Confirm

\* Workers, the user and time.
LEMMA EnvironmentTypeOK ==
  ASSUME TypeOK,
         \/ \E c \in Calls : \/ RunTool(c) \/ SendSignal(c) \/ SignalFails(c)
                             \/ StoreFails(c) \/ WorkerCrash(c) \/ ExpireResult(c)
         \/ \E c \in Calls, b \in BOOLEAN : Decide(c, b)
         \/ ExpireLock \/ OutliveLock
  PROVE  TypeOK'
<1> USE DEF TypeOK
<1>1. ASSUME NEW c \in Calls, RunTool(c)  PROVE TypeOK'
  <2>1. RedisType' /\ TopicType' /\ HistoryType'
    BY <1>1 DEF RunTool, RedisType, TopicType, HistoryType, budgets
  <2> QED  BY <1>1, <2>1, UnchangedType DEF RunTool
<1>2. ASSUME NEW c \in Calls, SendSignal(c)  PROVE TypeOK'
  <2>1. TopicType'
    BY <1>2 DEF SendSignal, TopicType
  <2> QED  BY <1>2, <2>1, UnchangedType DEF SendSignal
<1>3. ASSUME NEW c \in Calls, SignalFails(c)  PROVE TypeOK'
  <2>1. TopicType' /\ HistoryType'
    BY <1>3 DEF SignalFails, TopicType, HistoryType
  <2> QED  BY <1>3, <2>1, UnchangedType DEF SignalFails
<1>4. ASSUME NEW c \in Calls, WorkerCrash(c)  PROVE TypeOK'
  <2>1. TopicType'
    <3>1. CASE work' = work
      BY <1>4, <3>1 DEF WorkerCrash, TopicType
    <3>2. CASE work' = [work EXCEPT ![c] = @ + 1]
      BY <1>4, <3>2 DEF WorkerCrash, TopicType
    <3> QED  BY <1>4, <3>1, <3>2 DEF WorkerCrash
  <2>2. HistoryType'
    <3>1. missed' \in {missed, missed \cup {"crash"}}
      BY <1>4 DEF WorkerCrash
    <3> QED  BY <1>4, <3>1 DEF WorkerCrash, HistoryType
  <2> QED  BY <1>4, <2>1, <2>2, UnchangedType DEF WorkerCrash
<1>5. ASSUME NEW c \in Calls, ExpireResult(c)  PROVE TypeOK'
  <2>1. RedisType' /\ HistoryType'
    BY <1>5 DEF ExpireResult, RedisType, HistoryType, budgets
  <2> QED  BY <1>5, <2>1, UnchangedType DEF ExpireResult
<1>6. ASSUME NEW c \in Calls, NEW b \in BOOLEAN, Decide(c, b)  PROVE TypeOK'
  <2>1. decisions' \in [Calls -> [BOOLEAN -> Nat]]
    <3>1. decisions[c] \in [BOOLEAN -> Nat] /\ decisions[c][b] + 1 \in Nat
      BY <1>6 DEF TopicType
    <3> QED  BY <1>6, <3>1 DEF Decide, TopicType
  <2>2. TopicType' /\ HistoryType'
    BY <1>6, <2>1 DEF Decide, TopicType, HistoryType
  <2> QED  BY <1>6, <2>2, UnchangedType DEF Decide
<1>7. CASE ExpireLock
  <2>1. RedisType'
    BY <1>7 DEF ExpireLock, RedisType
  <2> QED  BY <1>7, <2>1, UnchangedType DEF ExpireLock
<1>8. ASSUME NEW c \in Calls, StoreFails(c)  PROVE TypeOK'
  <2>1. TopicType' /\ HistoryType'
    BY <1>8 DEF StoreFails, TopicType, HistoryType
  <2> QED  BY <1>8, <2>1, UnchangedType DEF StoreFails
<1>9. CASE OutliveLock
  <2>1. RedisType' /\ HistoryType'
    BY <1>9 DEF OutliveLock, RedisType, HistoryType
  <2> QED  BY <1>9, <2>1, UnchangedType DEF OutliveLock
<1> QED  BY <1>1, <1>2, <1>3, <1>4, <1>5, <1>6, <1>7, <1>8, <1>9

\* A crash returns the messages of the crashed tasks to their topics.
LEMMA CrashTypeOK ==
  ASSUME TypeOK, Crash
  PROVE  TypeOK'
<1> USE DEF TypeOK
<1>1. PICK G \in SUBSET {{JobTask}, ResumeTasks, ConfirmTasks} :
        LET D == {t \in UNION G : pc[t] \notin {"ready", "done", "idle"}}
        IN /\ \E Back \in SUBSET D :
                /\ pc' = [t \in Tasks |->
                           IF t \notin D THEN pc[t]
                           ELSE IF t # JobTask THEN "idle"
                           ELSE IF t \in Back THEN "ready" ELSE "done"]
                /\ signals' = signals + Cardinality(Back \cap ResumeTasks)
                /\ decisions' = [c \in Calls |-> [b \in BOOLEAN |->
                     decisions[c][b] + Cardinality({t \in Back \cap ConfirmTasks :
                                         msg[t] = [call |-> c, confirmed |-> b]})]]
                /\ missed' = IF /\ Back = D
                                /\ JobTask \in D => Waiting = {}
                                /\ \A t \in D : ~Undispatched(t)
                             THEN missed ELSE missed \cup {"crash"}
                /\ handledAgain' = (handledAgain \/ (JobTask \in Back /\ Waiting # {}))
           /\ state' = [t \in Tasks |-> IF t \in D THEN NewState ELSE state[t]]
           /\ todo' = [t \in Tasks |-> IF t \in D THEN {} ELSE todo[t]]
           /\ fetched' = [t \in Tasks |-> IF t \in D THEN {} ELSE fetched[t]]
           /\ rounds' = [t \in Tasks |-> IF t \in D THEN 0 ELSE rounds[t]]
  BY DEF Crash
<1> DEFINE D == {t \in UNION G : pc[t] \notin {"ready", "done", "idle"}}
<1>2. PICK Back \in SUBSET D :
        /\ pc' = [t \in Tasks |->
                   IF t \notin D THEN pc[t]
                   ELSE IF t # JobTask THEN "idle"
                   ELSE IF t \in Back THEN "ready" ELSE "done"]
        /\ signals' = signals + Cardinality(Back \cap ResumeTasks)
        /\ decisions' = [c \in Calls |-> [b \in BOOLEAN |->
             decisions[c][b] + Cardinality({t \in Back \cap ConfirmTasks :
                                 msg[t] = [call |-> c, confirmed |-> b]})]]
        /\ missed' = IF /\ Back = D
                        /\ JobTask \in D => Waiting = {}
                        /\ \A t \in D : ~Undispatched(t)
                     THEN missed ELSE missed \cup {"crash"}
        /\ handledAgain' = (handledAgain \/ (JobTask \in Back /\ Waiting # {}))
  BY <1>1
<1>3. /\ state' = [t \in Tasks |-> IF t \in D THEN NewState ELSE state[t]]
      /\ todo' = [t \in Tasks |-> IF t \in D THEN {} ELSE todo[t]]
      /\ fetched' = [t \in Tasks |-> IF t \in D THEN {} ELSE fetched[t]]
      /\ rounds' = [t \in Tasks |-> IF t \in D THEN 0 ELSE rounds[t]]
  BY <1>1
<1>4. UNCHANGED <<redis, tables, work, stored, prompts, msg>>
  BY DEF Crash
<1>5. Back \subseteq Tasks
  BY DEF Tasks, LockTasks
<1> HIDE DEF D
<1>6. TaskType'
  <2>1. pc' \in [Tasks -> Labels]
    BY <1>2 DEF TaskType, Labels
  <2>2. /\ state' \in [Tasks -> AgentState]
        /\ todo' \in [Tasks -> SUBSET Calls]
        /\ fetched' \in [Tasks -> SUBSET Calls]
        /\ rounds' \in [Tasks -> Nat]
    BY <1>3, NewStateType DEF TaskType
  <2>3. \A u \in ConfirmTasks : pc'[u] # "idle" => msg'[u] \in Decisions
    <3> SUFFICES ASSUME NEW u \in ConfirmTasks, pc'[u] # "idle"
                 PROVE  msg'[u] \in Decisions
      OBVIOUS
    <3>1. u \in Tasks /\ u # JobTask
      BY TasksAssumption DEF Tasks, LockTasks
    <3>2. pc[u] # "idle"
      BY <1>2, <3>1
    <3> QED  BY <1>4, <3>2 DEF TaskType
  <2> QED  BY <1>4, <2>1, <2>2, <2>3 DEF TaskType
<1>7. TopicType'
  <2>1. \A S : S \subseteq Tasks => Cardinality(S) \in Nat
    BY TasksAssumption, FS_Subset, FS_CardinalityType
  <2>2. signals' \in Nat
    <3>1. Back \cap ResumeTasks \subseteq Tasks
      BY <1>5
    <3>2. Cardinality(Back \cap ResumeTasks) \in Nat
      BY <2>1, <3>1
    <3> QED  BY <1>2, <3>2 DEF TopicType
  <2>3. decisions' \in [Calls -> [BOOLEAN -> Nat]]
    <3> DEFINE n(c, b) == Cardinality({t \in Back \cap ConfirmTasks :
                                         msg[t] = [call |-> c, confirmed |-> b]})
    <3>1. ASSUME NEW c \in Calls, NEW b \in BOOLEAN
          PROVE  n(c, b) \in Nat
      <4>1. {t \in Back \cap ConfirmTasks :
               msg[t] = [call |-> c, confirmed |-> b]} \subseteq Tasks
        BY <1>5
      <4> QED  BY <2>1, <4>1
    <3>2. decisions' = [c \in Calls |-> [b \in BOOLEAN |-> decisions[c][b] + n(c, b)]]
      BY <1>2
    <3> HIDE DEF n
    <3>3. \A c \in Calls, b \in BOOLEAN : decisions[c][b] + n(c, b) \in Nat
      BY <3>1 DEF TopicType
    <3> QED  BY <3>2, <3>3
  <2> QED  BY <1>4, <2>2, <2>3 DEF TopicType
<1>8. HistoryType'
  <2>1. missed' \in {missed, missed \cup {"crash"}} /\ handledAgain' \in BOOLEAN
    BY <1>2 DEF HistoryType
  <2> QED  BY <2>1 DEF Crash, HistoryType
<1> QED  BY <1>4, <1>6, <1>7, <1>8, UnchangedType

\* Every variable keeps its type: the rows are agent states, no signal or
\* decision is counted below zero, and a busy confirm task knows its message.
THEOREM TypeCorrect == Spec => []TypeOK
<1>1. TypeOK /\ [Next]_vars => TypeOK'
  <2> SUFFICES ASSUME TypeOK, [Next]_vars
               PROVE  TypeOK'
    OBVIOUS
  <2>1. CASE Next
    BY <2>1, JobTypeOK, ResumeTypeOK, ConfirmTypeOK, EnvironmentTypeOK, CrashTypeOK DEF Next
  <2>2. CASE UNCHANGED vars
    BY <2>2, UnchangedType DEF TypeOK, vars
  <2> QED  BY <2>1, <2>2
<1> QED  BY InitTypeOK, <1>1, PTL DEF Spec

-----------------------------------------------------------------------------
(* The lock.  A lock task at work owns the key, but for as many tasks as    *)
(* keys expired under their holder: release deletes the key of another, and *)
(* by then one task without a key has stopped working.                      *)

LockInv == \A t \in LockTasks : pc[t] # "idle" => lock = t

\* The lock tasks at work without the key.
Keyless == {t \in LockTasks : pc[t] # "idle"} \ {lock}

KeyInv == Cardinality(Keyless) <= expiries

\* What a step may do to the key: nothing, while no lock task starts to work;
KeyStays ==
    /\ UNCHANGED <<lock, expiries>>
    /\ \A u \in LockTasks : pc'[u] # "idle" => pc[u] # "idle"

\* a task that starts to work takes it;
KeyTaken(t) ==
    /\ lock = None /\ lock' = t /\ UNCHANGED expiries
    /\ \A u \in LockTasks \ {t} : pc'[u] = pc[u]

\* a task that stops deletes it, whose ever it is.
KeyDeleted(t) ==
    /\ pc[t] # "idle" /\ pc'[t] = "idle" /\ lock' = None /\ UNCHANGED expiries
    /\ \A u \in LockTasks \ {t} : pc'[u] = pc[u]

\* The handlers that take the lock are tasks.
LEMMA LockTasksAreTasks ==
  ASSUME NEW t \in LockTasks
  PROVE  t \in Tasks /\ t # JobTask /\ t # None
  BY TasksAssumption DEF Tasks

\* A task at work goes on.
LEMMA MoveKeepsKey ==
  ASSUME TypeOK, NEW t \in Tasks, pc[t] # "idle", NEW l, Goto(t, l),
         UNCHANGED <<lock, expiries>>
  PROVE  KeyStays
<1> SUFFICES ASSUME NEW u \in LockTasks, pc'[u] # "idle"
             PROVE  pc[u] # "idle"
  BY DEF KeyStays
<1>1. u \in Tasks
  BY LockTasksAreTasks
<1> QED  BY <1>1 DEF TypeOK, TaskType, Goto

\* No step of the agent loop touches the key.
LEMMA ExecuteKeepsKey ==
  ASSUME TypeOK, NEW t \in Tasks,
         Execute(t) \/ FinalSave(t) \/ FinalUpdate(t) \/ HandlerFails(t)
  PROVE  KeyStays
<1> USE DEF redis, history
<1>1. CASE MaxIterationsReached(t) \/ LLMAnswers(t) \/ ExecutorFails(t)
  BY <1>1, MoveKeepsKey DEF MaxIterationsReached, LLMAnswers, ExecutorFails, Return
<1>2. CASE NextIteration(t)
  BY <1>2, MoveKeepsKey DEF NextIteration
<1>3. CASE Checkpoint(t) \/ SaveWaiting(t) \/ FinalSave(t)
  BY <1>3, MoveKeepsKey DEF Checkpoint, SaveWaiting, FinalSave
<1>4. CASE LLMCallsTools(t)
  BY <1>4, MoveKeepsKey DEF LLMCallsTools
<1>5. CASE StreamEndsEarly(t)
  BY <1>5, MoveKeepsKey DEF StreamEndsEarly
<1>6. CASE UpdateWaiting(t)
  BY <1>6, MoveKeepsKey DEF UpdateWaiting
<1>7. CASE DispatchTool(t)
  <2>1. PICK c \in todo[t] :
          Goto(t, IF todo[t] = {c} THEN ReturnLabel(t, state[t]) ELSE "dispatch")
    BY <1>7 DEF DispatchTool
  <2> QED  BY <1>7, <2>1, MoveKeepsKey DEF DispatchTool
<1>8. CASE FinalUpdate(t) \/ HandlerFails(t)
  BY <1>8, MoveKeepsKey DEF FinalUpdate, HandlerFails
<1> QED  BY <1>1, <1>2, <1>3, <1>4, <1>5, <1>6, <1>7, <1>8 DEF Execute

\* ResumeHandler takes the key first and deletes it last.
LEMMA ResumeKeepsKey ==
  ASSUME TypeOK, NEW t \in ResumeTasks, Resume(t)
  PROVE  KeyStays \/ KeyTaken(t) \/ KeyDeleted(t)
<1> USE DEF redis, history
<1>0. /\ t \in LockTasks /\ t \in Tasks
      /\ pc \in [Tasks -> Labels] /\ \A u \in LockTasks : u \in Tasks
  BY DEF Tasks, LockTasks, TypeOK, TaskType
<1>1. CASE TakeSignal(t)
  BY <1>0, <1>1 DEF TakeSignal, LockFree, Goto, KeyTaken, KeyStays
<1>2. CASE LoadForResume(t) \/ NothingToResume(t)
  BY <1>0, <1>2, MoveKeepsKey DEF LoadForResume, NothingToResume
<1>3. CASE FetchResult(t)
  BY <1>3 DEF FetchResult, KeyStays
<1>4. CASE EmitPartialResults(t) \/ PersistPartial(t) \/ NothingNew(t)
  BY <1>0, <1>4, MoveKeepsKey DEF EmitPartialResults, PersistPartial, NothingNew, Fetched
<1>5. CASE ResumeFromSnapshot(t) \/ SaveAndRecheck(t) \/ StopResuming(t)
  BY <1>0, <1>5, MoveKeepsKey DEF ResumeFromSnapshot, SaveAndRecheck, StopResuming, Fetched
<1>6. CASE Release(t)
  BY <1>0, <1>6 DEF Release, Goto, KeyDeleted
<1> QED  BY <1>0, <1>1, <1>2, <1>3, <1>4, <1>5, <1>6, ExecuteKeepsKey DEF Resume

\* ConfirmHandler takes the key first and deletes it last.
LEMMA ConfirmKeepsKey ==
  ASSUME TypeOK, NEW t \in ConfirmTasks, Confirm(t)
  PROVE  KeyStays \/ KeyTaken(t) \/ KeyDeleted(t)
<1> USE DEF redis, history
<1>0. /\ t \in LockTasks /\ t \in Tasks
      /\ pc \in [Tasks -> Labels] /\ \A u \in LockTasks : u \in Tasks
  BY DEF Tasks, LockTasks, TypeOK, TaskType
<1>1. CASE TakeDecision(t)
  BY <1>0, <1>1 DEF TakeDecision, LockFree, Goto, KeyTaken, KeyStays
<1>2. CASE LoadForConfirm(t) \/ NothingToConfirm(t)
  BY <1>0, <1>2, MoveKeepsKey DEF LoadForConfirm, NothingToConfirm
<1>3. CASE ForwardConfirmed(t) \/ StoreRejection(t) \/ SignalRejection(t)
  BY <1>0, <1>3, MoveKeepsKey DEF ForwardConfirmed, StoreRejection, SignalRejection
<1>4. CASE Release(t)
  BY <1>0, <1>4 DEF Release, Goto, KeyDeleted
<1> QED  BY <1>0, <1>1, <1>2, <1>3, <1>4, ExecuteKeepsKey DEF Confirm

\* A crash idles tasks and leaves their key in Redis.
LEMMA CrashKeepsKey ==
  ASSUME Crash
  PROVE  KeyStays
<1>1. UNCHANGED <<lock, expiries>>
  BY DEF Crash, redis
<1>2. ASSUME NEW u \in LockTasks, pc'[u] # "idle"
      PROVE  pc[u] # "idle"
  <2>1. u \in Tasks /\ u # JobTask
    BY LockTasksAreTasks
  <2> QED  BY <1>2, <2>1 DEF Crash
<1> QED  BY <1>1, <1>2 DEF KeyStays

\* Every step leaves the key alone, takes it, deletes it or is its expiry.
LEMMA NextAndKey ==
  ASSUME TypeOK, [Next]_vars
  PROVE  \/ KeyStays
         \/ \E t \in LockTasks : KeyTaken(t) \/ KeyDeleted(t)
         \/ ExpireLock \/ OutliveLock
<1>1. CASE Job
  <2>1. JobTask \in Tasks
    BY DEF Tasks
  <2>2. CASE StartJob
    BY <2>1, <2>2, MoveKeepsKey DEF StartJob, redis, history
  <2> QED  BY <1>1, <2>1, <2>2, ExecuteKeepsKey DEF Job
<1>2. CASE \E t \in ResumeTasks : Resume(t)
  BY <1>2, ResumeKeepsKey DEF LockTasks
<1>3. CASE \E t \in ConfirmTasks : Confirm(t)
  BY <1>3, ConfirmKeepsKey DEF LockTasks
<1>4. CASE \/ \E c \in Calls : \/ RunTool(c) \/ SendSignal(c) \/ SignalFails(c)
                               \/ StoreFails(c) \/ WorkerCrash(c) \/ ExpireResult(c)
           \/ \E c \in Calls, b \in BOOLEAN : Decide(c, b)
           \/ UNCHANGED vars
  BY <1>4 DEF RunTool, SendSignal, SignalFails, StoreFails, WorkerCrash, ExpireResult,
     Decide, KeyStays, vars, redis, history
<1>5. CASE Crash
  BY <1>5, CrashKeepsKey
<1> QED  BY <1>1, <1>2, <1>3, <1>4, <1>5 DEF Next

\* No more lock tasks work without the key than keys expired under their holder.
LEMMA NextKeepsKey ==
  ASSUME TypeOK, KeyInv, [Next]_vars
  PROVE  KeyInv'
<1>0. IsFiniteSet(Keyless) /\ Cardinality(Keyless) \in Nat /\ expiries \in Nat
  <2>1. Keyless \subseteq Tasks
    BY DEF Keyless, Tasks
  <2>2. IsFiniteSet(Keyless)
    BY <2>1, TasksAssumption, FS_Subset
  <2> QED  BY <2>2, FS_CardinalityType DEF TypeOK, HistoryType
<1>a. ASSUME Keyless' \subseteq Keyless, UNCHANGED expiries  PROVE KeyInv'
  <2>1. Cardinality(Keyless') <= Cardinality(Keyless) /\ IsFiniteSet(Keyless')
    BY <1>0, <1>a, FS_Subset
  <2>2. Cardinality(Keyless') \in Nat
    BY <2>1, FS_CardinalityType
  <2> QED  BY <1>0, <1>a, <2>1, <2>2 DEF KeyInv
<1>1. CASE KeyStays
  BY <1>1, <1>a DEF KeyStays, Keyless
<1>2. ASSUME NEW t \in LockTasks, KeyTaken(t)  PROVE KeyInv'
  <2>1. Keyless' \subseteq Keyless
    BY <1>2, LockTasksAreTasks DEF KeyTaken, Keyless
  <2> QED  BY <1>2, <1>a, <2>1 DEF KeyTaken
<1>3. ASSUME NEW t \in LockTasks, KeyDeleted(t)  PROVE KeyInv'
  <2>1. CASE lock = t
    <3>1. Keyless' \subseteq Keyless
      BY <1>3, <2>1 DEF KeyDeleted, Keyless
    <3> QED  BY <1>3, <1>a, <3>1 DEF KeyDeleted
  <2>2. CASE lock # t
    <3> DEFINE S == Keyless \ {t}
    <3>1. t \in Keyless
      BY <1>3, <2>2 DEF KeyDeleted, Keyless
    <3>2. IsFiniteSet(S) /\ Cardinality(S) = Cardinality(Keyless) - 1
      BY <1>0, <3>1, FS_RemoveElement
    <3>3. Keyless' \subseteq S \cup {lock}
      BY <1>3 DEF KeyDeleted, Keyless
    <3> HIDE DEF S
    <3>4. IsFiniteSet(S \cup {lock}) /\ Cardinality(S \cup {lock}) <= Cardinality(Keyless)
      <4>1. /\ IsFiniteSet(S \cup {lock})
            /\ Cardinality(S \cup {lock}) =
                 IF lock \in S THEN Cardinality(S) ELSE Cardinality(S) + 1
        BY <3>2, FS_AddElement
      <4> QED  BY <1>0, <3>2, <4>1
    <3>5. Cardinality(Keyless') <= Cardinality(S \cup {lock}) /\ IsFiniteSet(Keyless')
      BY <3>3, <3>4, FS_Subset
    <3>6. Cardinality(Keyless') \in Nat /\ Cardinality(S \cup {lock}) \in Nat
      BY <3>4, <3>5, FS_CardinalityType
    <3>7. UNCHANGED expiries
      BY <1>3 DEF KeyDeleted
    <3> QED  BY <1>0, <3>4, <3>5, <3>6, <3>7 DEF KeyInv
  <2> QED  BY <2>1, <2>2
<1>4. CASE ExpireLock
  BY <1>4, <1>a DEF ExpireLock, Keyless, history
<1>5. CASE OutliveLock
  <2>1. Keyless' \subseteq Keyless \cup {lock} /\ expiries' = expiries + 1
    BY <1>5 DEF OutliveLock, Keyless
  <2>2. /\ IsFiniteSet(Keyless \cup {lock})
        /\ Cardinality(Keyless \cup {lock}) <= Cardinality(Keyless) + 1
    <3>1. /\ IsFiniteSet(Keyless \cup {lock})
          /\ Cardinality(Keyless \cup {lock}) =
               IF lock \in Keyless THEN Cardinality(Keyless) ELSE Cardinality(Keyless) + 1
      BY <1>0, FS_AddElement
    <3> QED  BY <1>0, <3>1
  <2>3. Cardinality(Keyless') <= Cardinality(Keyless \cup {lock}) /\ IsFiniteSet(Keyless')
    BY <2>1, <2>2, FS_Subset
  <2>4. Cardinality(Keyless') \in Nat /\ Cardinality(Keyless \cup {lock}) \in Nat
    BY <2>2, <2>3, FS_CardinalityType
  <2> QED  BY <1>0, <2>1, <2>2, <2>3, <2>4 DEF KeyInv
<1> QED  BY <1>1, <1>2, <1>3, <1>4, <1>5, NextAndKey

\* The invariant behind the next two.
LEMMA KeyInvariant == Spec => []KeyInv
<1>1. ASSUME Init  PROVE KeyInv
  <2>1. Keyless = {} /\ expiries = 0
    BY <1>1, LockTasksAreTasks DEF Init, Keyless
  <2>2. Cardinality(Keyless) = 0
    BY <2>1, FS_EmptySet
  <2> QED  BY <2>1, <2>2 DEF KeyInv
<1>2. TypeOK /\ KeyInv /\ [Next]_vars => KeyInv'
  BY NextKeepsKey
<1> QED  BY TypeCorrect, <1>1, <1>2, PTL DEF Spec

\* While no key expired under its holder, who works has the key.
LEMMA LockInvariant == Spec => [](expiries = 0 => LockInv)
<1>1. ASSUME KeyInv, expiries = 0  PROVE LockInv
  <2>1. IsFiniteSet(Keyless)
    <3>1. Keyless \subseteq Tasks
      BY DEF Keyless, Tasks
    <3> QED  BY <3>1, TasksAssumption, FS_Subset
  <2>2. Cardinality(Keyless) \in Nat
    BY <2>1, FS_CardinalityType
  <2>3. Keyless = {}
    BY <1>1, <2>1, <2>2, FS_EmptySet DEF KeyInv
  <2> QED  BY <2>3 DEF Keyless, LockInv
<1>2. KeyInv => (expiries = 0 => LockInv)
  BY <1>1
<1> QED  BY <1>2, KeyInvariant, PTL

\* One of the tasks of the resume and confirm consumers is between acquire and
\* release, and at most one more for every key that expired under its holder:
\* release, which deletes the key of whoever has it, never lets in a third.
THEOREM LockExcludes == Spec => []LockExclusion
<1>1. ASSUME TypeOK, KeyInv  PROVE LockExclusion
  <2> DEFINE W == {t \in LockTasks : Processing(t)}
  <2>1. W \subseteq Keyless \cup {lock}
    BY DEF Keyless, Processing, Critical
  <2>2. IsFiniteSet(Keyless) /\ Cardinality(Keyless) \in Nat /\ expiries \in Nat
    <3>1. Keyless \subseteq Tasks
      BY DEF Keyless, Tasks
    <3>2. IsFiniteSet(Keyless)
      BY <3>1, TasksAssumption, FS_Subset
    <3> QED  BY <1>1, <3>2, FS_CardinalityType DEF TypeOK, HistoryType
  <2>3. /\ IsFiniteSet(Keyless \cup {lock})
        /\ Cardinality(Keyless \cup {lock}) <= Cardinality(Keyless) + 1
    <3>1. /\ IsFiniteSet(Keyless \cup {lock})
          /\ Cardinality(Keyless \cup {lock}) =
               IF lock \in Keyless THEN Cardinality(Keyless) ELSE Cardinality(Keyless) + 1
      BY <2>2, FS_AddElement
    <3> QED  BY <2>2, <3>1
  <2> HIDE DEF W
  <2>4. Cardinality(W) <= Cardinality(Keyless \cup {lock}) /\ IsFiniteSet(W)
    BY <2>1, <2>3, FS_Subset
  <2>5. Cardinality(W) \in Nat /\ Cardinality(Keyless \cup {lock}) \in Nat
    BY <2>3, <2>4, FS_CardinalityType
  <2>6. Cardinality(W) <= 1 + expiries
    BY <1>1, <2>2, <2>3, <2>4, <2>5 DEF KeyInv
  <2> QED  BY <2>6 DEF W, LockExclusion
<1> QED  BY <1>1, TypeCorrect, KeyInvariant, PTL

-----------------------------------------------------------------------------
(* What is durable when the tools are sent out.                            *)

\* A step of t leaves the other tasks where they are.
OthersStand(t) ==
    \A u \in Tasks \ {t} :
        /\ pc'[u] = pc[u] /\ state'[u] = state[u] /\ todo'[u] = todo[u]
        /\ u \in ConfirmTasks => msg'[u] = msg[u]

\* A step of t that keeps the snapshots needs only show t durable.
LEMMA StepKeepsDurable ==
  ASSUME DurableInv, NEW t \in Tasks, OthersStand(t), snapshots \subseteq snapshots',
         TaskDurable(t)'
  PROVE  DurableInv'
<1>1. ASSUME NEW u \in Tasks \ {t}  PROVE TaskDurable(u)'
  <2>1. /\ pc'[u] = pc[u] /\ state'[u] = state[u] /\ todo'[u] = todo[u]
        /\ u \in ConfirmTasks => msg'[u] = msg[u]
    BY DEF OthersStand
  <2>2. TaskDurable(u)
    BY DEF DurableInv
  <2> QED  BY <2>1, <2>2 DEF TaskDurable, Awaited
<1> QED  BY <1>1 DEF DurableInv

Durability == DurableInv /\ SnapshotBeforeDispatch /\ RowAfterSnapshot

\* Where nothing need be durable.
LEMMA ElsewhereIsDurable ==
  ASSUME NEW t \in Tasks,
         pc'[t] \notin {"save", "update", "dispatch", "finalUpdate", "answer"}
  PROVE  TaskDurable(t)'
  BY DEF TaskDurable

\* A step that leaves the row alone and forgets no snapshot.
LEMMA RowKept ==
  ASSUME RowAfterSnapshot, UNCHANGED jobStatus, snapshots \subseteq snapshots'
  PROVE  RowAfterSnapshot'
  BY DEF RowAfterSnapshot

\* A step that leaves the topics and the results alone and forgets no snapshot.
LEMMA NothingSentOut ==
  ASSUME SnapshotBeforeDispatch, UNCHANGED <<work, stored, results, prompts>>,
         snapshots \subseteq snapshots'
  PROVE  SnapshotBeforeDispatch'
  BY DEF SnapshotBeforeDispatch, Awaited

\* A step of t that at most adds a row, and needs nothing durable after it.
LEMMA QuietStep ==
  ASSUME Durability, NEW t \in Tasks, OthersStand(t), snapshots \subseteq snapshots',
         pc'[t] \notin {"save", "update", "dispatch", "finalUpdate", "answer"},
         UNCHANGED <<jobStatus, work, stored, results, prompts>>
  PROVE  Durability'
  BY ElsewhereIsDurable, StepKeepsDurable, RowKept, NothingSentOut DEF Durability

\* The row of a terminal state is written after its snapshot.
LEMMA UpdateKeepsRow ==
  ASSUME NEW t \in Tasks, state[t] \in snapshots, UpdateJob(t), UNCHANGED snapshots
  PROVE  RowAfterSnapshot'
  BY DEF UpdateJob, MapStatus, RowAfterSnapshot, Terminal

\* The agent loop: dispatch_tools_async runs after save_snapshot.
LEMMA ExecuteKeepsDurability ==
  ASSUME TypeOK, Durability, NEW t \in Tasks, Execute(t)
  PROVE  Durability'
<1> USE DEF OthersStand, Goto, SetState, locals, tables, topics, redis
<1>0. /\ pc \in [Tasks -> Labels] /\ state \in [Tasks -> AgentState]
      /\ todo \in [Tasks -> SUBSET Calls] /\ state[t] \in AgentState
  BY DEF TypeOK, TaskType
<1>a. TaskDurable(t)
  BY DEF Durability, DurableInv
<1>1. CASE MaxIterationsReached(t) \/ LLMAnswers(t) \/ ExecutorFails(t)
  <2>1. pc'[t] \in {"finalSave", "resave"}
    BY <1>0, <1>1
       DEF MaxIterationsReached, LLMAnswers, ExecutorFails, Return, ReturnLabel
  <2>2. OthersStand(t)
    BY <1>0, <1>1 DEF MaxIterationsReached, LLMAnswers, ExecutorFails, Return
  <2> QED  BY <1>1, <2>1, <2>2, QuietStep DEF MaxIterationsReached, LLMAnswers, ExecutorFails
<1>2. CASE NextIteration(t)
  <2>1. OthersStand(t) /\ pc'[t] \in {"checkpoint", "llm"}
    BY <1>0, <1>2 DEF NextIteration
  <2> QED  BY <1>2, <2>1, QuietStep DEF NextIteration
<1>3. CASE Checkpoint(t)
  <2>1. OthersStand(t) /\ pc'[t] = "llm"
    BY <1>0, <1>3 DEF Checkpoint
  <2> QED  BY <1>3, <2>1, QuietStep DEF Checkpoint, SaveSnapshot
<1>4. CASE LLMCallsTools(t)
  <2>1. PICK T \in SUBSET (Calls \ used) : SetState(t, MarkWaitingTool(state[t], T))
    BY <1>4 DEF LLMCallsTools
  <2>2. state'[t].status = "waiting_tool"
    BY <1>0, <2>1, MarkWaitingToolFields
  <2>3. TaskDurable(t)'
    BY <1>0, <1>4, <2>2 DEF LLMCallsTools, TaskDurable
  <2>4. OthersStand(t)
    BY <1>0, <1>4, <2>1 DEF LLMCallsTools
  <2> QED  BY <1>4, <2>3, <2>4, StepKeepsDurable, RowKept, NothingSentOut
           DEF LLMCallsTools, Durability
<1>5. CASE StreamEndsEarly(t)
  <2>1. OthersStand(t) /\ pc'[t] = "loop"
    BY <1>0, <1>5 DEF StreamEndsEarly
  <2> QED  BY <1>5, <2>1, QuietStep DEF StreamEndsEarly
<1>6. CASE SaveWaiting(t)
  <2>1. OthersStand(t) /\ pc'[t] = "update"
    BY <1>0, <1>6 DEF SaveWaiting
  <2>2. TaskDurable(t)'
    BY <1>a, <1>6, <2>1 DEF SaveWaiting, SaveSnapshot, TaskDurable
  <2> QED  BY <1>6, <2>1, <2>2, StepKeepsDurable, RowKept, NothingSentOut
           DEF SaveWaiting, SaveSnapshot, Durability
<1>7. CASE UpdateWaiting(t)
  <2>1. OthersStand(t) /\ pc'[t] = "dispatch" /\ todo'[t] = state[t].pending
    BY <1>0, <1>7 DEF UpdateWaiting
  <2>2. TaskDurable(t)'
    BY <1>a, <1>7, <2>1 DEF UpdateWaiting, TaskDurable
  <2>3. RowAfterSnapshot'
    BY <1>a, <1>7, UpdateKeepsRow DEF UpdateWaiting, TaskDurable
  <2> QED  BY <1>7, <2>1, <2>2, <2>3, StepKeepsDurable, NothingSentOut
           DEF UpdateWaiting, Durability
<1>8. CASE DispatchTool(t)
  <2>1. PICK c \in todo[t] :
           /\ IF c \in NeedsConfirm
              THEN prompts' = prompts \cup {c} /\ UNCHANGED <<work, missed>>
              ELSE SendOut(c) /\ UNCHANGED prompts
           /\ todo' = [todo EXCEPT ![t] = @ \ {c}]
           /\ Goto(t, IF todo[t] = {c} THEN ReturnLabel(t, state[t]) ELSE "dispatch")
    BY <1>8 DEF DispatchTool
  <2>2. /\ state[t] \in snapshots /\ state[t].status = "waiting_tool"
        /\ todo[t] \subseteq state[t].pending
    BY <1>a, <1>8 DEF DispatchTool, TaskDurable
  <2>3. Awaited(c)
    BY <2>1, <2>2 DEF Awaited
  <2>4. OthersStand(t) /\ pc'[t] \in {"resave", "finalSave", "dispatch"}
    BY <1>0, <1>8, <2>1 DEF DispatchTool, ReturnLabel
  <2>5. TaskDurable(t)'
    BY <1>0, <1>8, <2>1, <2>2, <2>4 DEF DispatchTool, TaskDurable
  <2>6. SnapshotBeforeDispatch'
    BY <1>8, <2>1, <2>3 DEF DispatchTool, SendOut, SnapshotBeforeDispatch, Awaited,
       Durability, TypeOK, TopicType
  <2> QED  BY <1>8, <2>4, <2>5, <2>6, StepKeepsDurable, RowKept
           DEF DispatchTool, Durability
<1> QED  BY <1>1, <1>2, <1>3, <1>4, <1>5, <1>6, <1>7, <1>8 DEF Execute

\* The end of a handler: the final save, the final update, the release.
LEMMA EndKeepsDurability ==
  ASSUME TypeOK, Durability, NEW t \in Tasks,
         FinalSave(t) \/ FinalUpdate(t) \/ HandlerFails(t) \/ Release(t)
  PROVE  Durability'
<1> USE DEF OthersStand, Goto, locals, tables, topics, redis
<1>0. pc \in [Tasks -> Labels] /\ state \in [Tasks -> AgentState]
  BY DEF TypeOK, TaskType
<1>a. TaskDurable(t)
  BY DEF Durability, DurableInv
<1>1. CASE FinalSave(t)
  <2>1. OthersStand(t) /\ pc'[t] = "finalUpdate"
    BY <1>0, <1>1 DEF FinalSave
  <2>2. TaskDurable(t)'
    BY <1>1, <2>1 DEF FinalSave, SaveSnapshot, TaskDurable
  <2> QED  BY <1>1, <2>1, <2>2, StepKeepsDurable, RowKept, NothingSentOut
           DEF FinalSave, SaveSnapshot, Durability
<1>2. CASE FinalUpdate(t)
  <2>1. OthersStand(t) /\ pc'[t] \in {"done", "release"}
    BY <1>0, <1>2 DEF FinalUpdate
  <2>2. RowAfterSnapshot'
    BY <1>a, <1>2, UpdateKeepsRow DEF FinalUpdate, TaskDurable
  <2> QED  BY <1>2, <2>1, <2>2, ElsewhereIsDurable, StepKeepsDurable, NothingSentOut
           DEF FinalUpdate, Durability
<1>3. CASE HandlerFails(t)
  <2>1. OthersStand(t) /\ pc'[t] \in {"done", "release"}
    BY <1>0, <1>3 DEF HandlerFails
  <2> QED  BY <1>3, <2>1, QuietStep DEF HandlerFails
<1>4. CASE Release(t)
  <2>1. OthersStand(t) /\ pc'[t] = "idle"
    BY <1>0, <1>4 DEF Release, Forget, TypeOK, TaskType
  <2> QED  BY <1>4, <2>1, QuietStep DEF Release
<1> QED  BY <1>1, <1>2, <1>3, <1>4

\* ResumeHandler works on a state it loaded from the snapshots.
LEMMA ResumeKeepsDurability ==
  ASSUME TypeOK, Durability, NEW t \in ResumeTasks, Resume(t)
  PROVE  Durability'
<1> USE DEF OthersStand, Goto, SetState, locals, tables, topics, redis
<1>0. /\ t \in Tasks
      /\ pc \in [Tasks -> Labels] /\ state \in [Tasks -> AgentState]
      /\ todo \in [Tasks -> SUBSET Calls]
  BY DEF TypeOK, TaskType, Tasks, LockTasks
<1>1. CASE TakeSignal(t)
  <2>1. OthersStand(t) /\ pc'[t] \in {"idle", "load"}
    BY <1>0, <1>1 DEF TakeSignal
  <2> QED  BY <1>0, <1>1, <2>1, QuietStep DEF TakeSignal
<1>2. CASE LoadForResume(t)
  <2>1. OthersStand(t) /\ pc'[t] = "fetch"
    BY <1>0, <1>2 DEF LoadForResume
  <2> QED  BY <1>0, <1>2, <2>1, QuietStep DEF LoadForResume
<1>3. CASE NothingToResume(t)
  <2>1. OthersStand(t) /\ pc'[t] = "release"
    BY <1>0, <1>3 DEF NothingToResume
  <2> QED  BY <1>0, <1>3, <2>1, QuietStep DEF NothingToResume
<1>4. CASE FetchResult(t)
  <2>1. OthersStand(t) /\ pc'[t] = "fetch"
    BY <1>0, <1>4 DEF FetchResult
  <2> QED  BY <1>0, <1>4, <2>1, QuietStep DEF FetchResult
<1>5. CASE EmitPartialResults(t)
  <2>1. OthersStand(t) /\ pc'[t] = "persist"
    BY <1>0, <1>5 DEF EmitPartialResults, MarkShown
  <2> QED  BY <1>0, <1>5, <2>1, QuietStep DEF EmitPartialResults, MarkShown
<1>6. CASE PersistPartial(t)
  <2>1. OthersStand(t) /\ pc'[t] = "release"
    BY <1>0, <1>6 DEF PersistPartial
  <2> QED  BY <1>0, <1>6, <2>1, QuietStep DEF PersistPartial, SaveSnapshot
<1>7. CASE NothingNew(t)
  <2>1. OthersStand(t) /\ pc'[t] = "release"
    BY <1>0, <1>7 DEF NothingNew
  <2> QED  BY <1>0, <1>7, <2>1, QuietStep DEF NothingNew
<1>8. CASE ResumeFromSnapshot(t)
  <2>1. OthersStand(t) /\ pc'[t] = "loop"
    BY <1>0, <1>8 DEF ResumeFromSnapshot
  <2> QED  BY <1>0, <1>8, <2>1, QuietStep DEF ResumeFromSnapshot
<1>9. CASE SaveAndRecheck(t)
  <2>1. OthersStand(t) /\ pc'[t] = "fetch"
    BY <1>0, <1>9 DEF SaveAndRecheck
  <2> QED  BY <1>0, <1>9, <2>1, QuietStep DEF SaveAndRecheck, SaveSnapshot
<1>10. CASE StopResuming(t)
  <2>1. OthersStand(t) /\ pc'[t] = "finalSave"
    BY <1>0, <1>10 DEF StopResuming
  <2> QED  BY <1>0, <1>10, <2>1, QuietStep DEF StopResuming
<1> QED  BY <1>0, <1>1, <1>2, <1>3, <1>4, <1>5, <1>6, <1>7, <1>8, <1>9, <1>10,
            ExecuteKeepsDurability, EndKeepsDurability DEF Resume

\* ConfirmHandler answers calls that a loaded snapshot waits for.
LEMMA ConfirmKeepsDurability ==
  ASSUME TypeOK, Durability, NEW t \in ConfirmTasks, Confirm(t)
  PROVE  Durability'
<1> USE DEF OthersStand, Goto, SetState, locals, tables, topics, redis
<1>0. /\ t \in Tasks
      /\ pc \in [Tasks -> Labels] /\ state \in [Tasks -> AgentState]
      /\ ConfirmTasks \subseteq Tasks
      /\ msg \in [ConfirmTasks -> Decisions \cup {None}]
  BY DEF TypeOK, TaskType, Tasks, LockTasks
<1>a. pc[t] = "answer" => Awaited(msg[t].call)
  BY <1>0 DEF Durability, DurableInv, TaskDurable
<1>1. CASE TakeDecision(t)
  <2>1. OthersStand(t) /\ pc'[t] \in {"idle", "load"}
    BY <1>0, <1>1 DEF TakeDecision
  <2> QED  BY <1>0, <1>1, <2>1, QuietStep DEF TakeDecision
<1>2. CASE LoadForConfirm(t)
  <2>1. PICK s \in LatestSnapshots :
           /\ s.status = "waiting_tool"
           /\ msg[t].call \in s.pending
    BY <1>2 DEF LoadForConfirm
  <2>2. Awaited(msg[t].call)
    BY <2>1, LatestType DEF Awaited
  <2>3. OthersStand(t) /\ pc'[t] = "answer"
    BY <1>0, <1>2 DEF LoadForConfirm
  <2>4. TaskDurable(t)'
    BY <1>2, <2>2, <2>3 DEF LoadForConfirm, TaskDurable, Awaited
  <2> QED  BY <1>0, <1>2, <2>3, <2>4, StepKeepsDurable, RowKept, NothingSentOut
           DEF LoadForConfirm, Durability
<1>3. CASE NothingToConfirm(t)
  <2>1. OthersStand(t) /\ pc'[t] = "release"
    BY <1>0, <1>3 DEF NothingToConfirm
  <2> QED  BY <1>0, <1>3, <2>1, QuietStep DEF NothingToConfirm
<1>4. CASE ForwardConfirmed(t)
  <2>1. OthersStand(t) /\ pc'[t] = "release"
    BY <1>0, <1>4 DEF ForwardConfirmed
  <2>2. SnapshotBeforeDispatch'
    BY <1>a, <1>4 DEF ForwardConfirmed, SendOut, SnapshotBeforeDispatch, Awaited,
       Durability, TypeOK, TopicType
  <2> QED  BY <1>0, <1>4, <2>1, <2>2, ElsewhereIsDurable, StepKeepsDurable, RowKept
           DEF ForwardConfirmed, Durability
<1>5. CASE StoreRejection(t)
  <2>1. OthersStand(t) /\ pc'[t] = "signal"
    BY <1>0, <1>5 DEF StoreRejection
  <2>2. SnapshotBeforeDispatch'
    BY <1>a, <1>5 DEF StoreRejection, SnapshotBeforeDispatch, Awaited, Durability
  <2> QED  BY <1>0, <1>5, <2>1, <2>2, ElsewhereIsDurable, StepKeepsDurable, RowKept
           DEF StoreRejection, Durability
<1>6. CASE SignalRejection(t)
  <2>1. OthersStand(t) /\ pc'[t] = "release"
    BY <1>0, <1>6 DEF SignalRejection
  <2> QED  BY <1>0, <1>6, <2>1, QuietStep DEF SignalRejection
<1> QED  BY <1>0, <1>1, <1>2, <1>3, <1>4, <1>5, <1>6, EndKeepsDurability DEF Confirm

\* Workers, the user and time: a request, an unsent signal and a result of a
\* call come from a request, an unsent signal or a result of the same call.
LEMMA EnvironmentKeepsDurability ==
  ASSUME TypeOK, Durability,
         \/ \E c \in Calls : \/ RunTool(c) \/ SendSignal(c) \/ SignalFails(c)
                             \/ StoreFails(c) \/ WorkerCrash(c) \/ ExpireResult(c)
         \/ \E c \in Calls, b \in BOOLEAN : Decide(c, b)
         \/ ExpireLock \/ OutliveLock
  PROVE  Durability'
<1> USE DEF locals, tables, redis, topics
<1>1. UNCHANGED <<pc, state, todo, msg, snapshots, jobStatus>>
  BY DEF RunTool, SendSignal, SignalFails, StoreFails, WorkerCrash, ExpireResult, Decide,
     ExpireLock, OutliveLock
<1>2. DurableInv'
  BY <1>1 DEF Durability, DurableInv, TaskDurable, Awaited
<1>3. \A c \in Calls :
        /\ work'[c] > 0 => work[c] > 0 \/ stored[c] > 0
        /\ stored'[c] > 0 => work[c] > 0 \/ stored[c] > 0
        /\ c \in results' => work[c] > 0 \/ c \in results
  <2>1. CASE \E c \in Calls : RunTool(c) \/ StoreFails(c)
    BY <2>1 DEF RunTool, StoreFails, TypeOK, TopicType
  <2>2. CASE \E c \in Calls : SendSignal(c) \/ SignalFails(c)
    BY <2>2 DEF SendSignal, SignalFails, TypeOK, TopicType
  <2>3. CASE \E c \in Calls : WorkerCrash(c)
    BY <2>3 DEF WorkerCrash, TypeOK, TopicType
  <2>4. CASE \/ \E c \in Calls : ExpireResult(c)
             \/ \E c \in Calls, b \in BOOLEAN : Decide(c, b)
             \/ ExpireLock \/ OutliveLock
    BY <2>4 DEF ExpireResult, Decide, ExpireLock, OutliveLock
  <2> QED  BY <2>1, <2>2, <2>3, <2>4
<1>4. UNCHANGED prompts
  BY DEF RunTool, SendSignal, SignalFails, StoreFails, WorkerCrash, ExpireResult, Decide,
     ExpireLock, OutliveLock
<1>5. SnapshotBeforeDispatch'
  BY <1>1, <1>3, <1>4 DEF Durability, SnapshotBeforeDispatch, Awaited
<1> QED  BY <1>1, <1>2, <1>5, RowKept DEF Durability

\* A crash loses the tasks but neither tables nor topics.
LEMMA CrashKeepsDurability ==
  ASSUME TypeOK, Durability, Crash
  PROVE  Durability'
<1> USE DEF tables, redis
<1>1. UNCHANGED <<snapshots, jobStatus, work, stored, results, prompts, msg>>
  BY DEF Crash
<1>2. ASSUME NEW t \in Tasks
      PROVE  \/ pc'[t] = pc[t] /\ state'[t] = state[t] /\ todo'[t] = todo[t]
             \/ pc'[t] \in {"idle", "ready", "done"}
  BY DEF Crash
<1>3. ASSUME NEW t \in Tasks
      PROVE  TaskDurable(t)'
  <2>1. TaskDurable(t)
    BY DEF Durability, DurableInv
  <2> QED  BY <1>1, <1>2, <2>1 DEF TaskDurable, Awaited
<1> QED  BY <1>1, <1>3, RowKept, NothingSentOut DEF Durability, DurableInv

\* Every step keeps the durability invariant.
LEMMA NextKeepsDurability ==
  ASSUME TypeOK, Durability, [Next]_vars
  PROVE  Durability'
<1>1. CASE Job
  <2>1. JobTask \in Tasks
    BY DEF Tasks
  <2>2. CASE StartJob
    <3>1. OthersStand(JobTask) /\ pc'[JobTask] = "loop"
      BY <2>1, <2>2 DEF StartJob, OthersStand, Goto, TypeOK, TaskType
    <3>2. RowAfterSnapshot'
      BY <2>2 DEF StartJob, RowAfterSnapshot, Terminal
    <3> QED  BY <2>1, <2>2, <3>1, <3>2, ElsewhereIsDurable, StepKeepsDurable, NothingSentOut
             DEF StartJob, Durability, redis, topics
  <2> QED  BY <1>1, <2>1, <2>2, ExecuteKeepsDurability, EndKeepsDurability DEF Job
<1>2. CASE UNCHANGED vars
  BY <1>2 DEF vars, tables, topics, redis, locals, Durability, DurableInv, TaskDurable,
     SnapshotBeforeDispatch, RowAfterSnapshot, Awaited
<1> QED  BY <1>1, <1>2, ResumeKeepsDurability, ConfirmKeepsDurability,
            EnvironmentKeepsDurability, CrashKeepsDurability DEF Next

\* What a task has dispatched or recorded is in the snapshots: the inductive
\* invariant behind the two theorems that follow (execute_streaming and the
\* handlers save before they dispatch, forward or update the job).
THEOREM DurabilityInvariant == Spec => []Durability
<1>1. Init => Durability
  BY DEF Init, Durability, DurableInv, TaskDurable, SnapshotBeforeDispatch,
     RowAfterSnapshot, Terminal
<1> QED  BY <1>1, TypeCorrect, NextKeepsDurability, PTL DEF Spec

\* Whatever fails, crashes or expires, a tool is out only while some durable
\* snapshot waits for it.
THEOREM SnapshotPrecedesDispatch == Spec => []SnapshotBeforeDispatch
  BY DurabilityInvariant, PTL DEF Durability

\* The job's row never says completed or failed before a snapshot does.
THEOREM RowFollowsSnapshot == Spec => []RowAfterSnapshot
  BY DurabilityInvariant, PTL DEF Durability

-----------------------------------------------------------------------------
(* The conversations.                                                      *)

\* A step of t that forgets no call needs only show t coherent.
LEMMA StepKeepsCoherent ==
  ASSUME ConversationInv, NEW t \in Tasks, OthersStand(t), used \subseteq used',
         snapshots' \subseteq snapshots \cup {state[t]}, TaskCoherent(t)'
  PROVE  ConversationInv'
<1>1. ASSUME NEW s, Coherent(s)  PROVE Coherent(s)'
  BY <1>1 DEF Coherent
<1>2. \A s \in snapshots' : Coherent(s)'
  BY <1>1 DEF ConversationInv, TaskCoherent
<1>3. ASSUME NEW u \in Tasks \ {t}  PROVE TaskCoherent(u)'
  BY DEF ConversationInv, TaskCoherent, Coherent, OthersStand
<1> QED  BY <1>2, <1>3 DEF ConversationInv

\* A step that leaves the AgentState of t alone.
LEMMA SameStateCoherent ==
  ASSUME ConversationInv, NEW t \in Tasks, OthersStand(t), UNCHANGED used,
         state'[t] = state[t],
         snapshots' \subseteq snapshots \cup {state[t]},
         \/ pc'[t] \notin {"loop", "checkpoint", "llm", "save", "update", "dispatch",
                           "fetch", "persist", "resave"}
         \/ /\ pc'[t] \in {"loop", "checkpoint", "llm"}
            /\ pc[t] \in {"loop", "checkpoint", "llm"}
         \/ /\ pc'[t] \in {"save", "update", "dispatch", "fetch", "persist", "resave"}
            /\ pc[t] \in {"save", "update", "dispatch", "fetch", "persist", "resave"}
  PROVE  ConversationInv'
<1>1. TaskCoherent(t)
  BY DEF ConversationInv
<1>2. TaskCoherent(t)'
  BY <1>1 DEF TaskCoherent, Coherent
<1> QED  BY <1>2, StepKeepsCoherent

\* The agent loop: only the LLM adds calls, and they wait for results.
LEMMA ExecuteKeepsCoherent ==
  ASSUME TypeOK, ConversationInv, NEW t \in Tasks, Execute(t)
  PROVE  ConversationInv'
<1> USE DEF OthersStand, Goto, SetState, locals, tables, history
<1>0. /\ pc \in [Tasks -> Labels] /\ state \in [Tasks -> AgentState]
      /\ todo \in [Tasks -> SUBSET Calls] /\ state[t] \in AgentState
  BY DEF TypeOK, TaskType
<1>a. TaskCoherent(t)
  BY DEF ConversationInv
<1>1. CASE MaxIterationsReached(t) \/ ExecutorFails(t)
  <2>1. state'[t] = MarkFailed(state[t]) /\ pc'[t] = "finalSave"
    BY <1>0, <1>1, MarkEndedFields DEF MaxIterationsReached, ExecutorFails, Return, ReturnLabel
  <2>2. OthersStand(t)
    BY <1>0, <1>1 DEF MaxIterationsReached, ExecutorFails, Return
  <2>3. TaskCoherent(t)'
    <3>1. /\ state'[t].status = "failed"
          /\ state'[t].asked = state[t].asked
          /\ state'[t].answered = state[t].answered
          /\ state'[t].pending = {}
      BY <1>0, <2>1, MarkEndedFields
    <3>2. UNCHANGED used
      BY <1>1 DEF MaxIterationsReached, ExecutorFails
    <3> QED  BY <1>a, <2>1, <3>1, <3>2 DEF TaskCoherent, Coherent
  <2> QED  BY <1>1, <2>2, <2>3, StepKeepsCoherent DEF MaxIterationsReached, ExecutorFails
<1>2. CASE NextIteration(t)
  <2>1. /\ state'[t].status = state[t].status
        /\ state'[t].asked = state[t].asked
        /\ state'[t].answered = state[t].answered
        /\ state'[t].pending = state[t].pending
    BY <1>0, <1>2 DEF NextIteration, AgentState
  <2>2. OthersStand(t) /\ pc'[t] \in {"checkpoint", "llm"}
    BY <1>0, <1>2 DEF NextIteration
  <2>3. TaskCoherent(t)'
    BY <1>2, <1>a, <2>1, <2>2 DEF NextIteration, TaskCoherent, Coherent
  <2> QED  BY <1>2, <2>2, <2>3, StepKeepsCoherent DEF NextIteration
<1>3. CASE Checkpoint(t)
  <2>1. OthersStand(t) /\ pc'[t] = "llm"
    BY <1>0, <1>3 DEF Checkpoint
  <2> QED  BY <1>3, <2>1, SameStateCoherent DEF Checkpoint, SaveSnapshot
<1>4. CASE LLMCallsTools(t)
  <2>1. PICK T \in (SUBSET (Calls \ used)) \ {{}} :
           SetState(t, MarkWaitingTool(state[t], T)) /\ used' = used \cup T
    BY <1>4 DEF LLMCallsTools
  <2>2. /\ state'[t].status = "waiting_tool"
        /\ state'[t].asked = state[t].asked \cup T
        /\ state'[t].answered = state[t].answered
        /\ state'[t].pending = T
    BY <1>0, <2>1, MarkWaitingToolFields
  <2>3. state[t].asked = state[t].answered /\ state[t].asked \subseteq used
    BY <1>4, <1>a DEF LLMCallsTools, TaskCoherent, Coherent
  <2>4. OthersStand(t) /\ pc'[t] = "save"
    BY <1>0, <1>4, <2>1 DEF LLMCallsTools
  <2>5. state'[t].pending = state'[t].asked \ state'[t].answered
    BY <2>2, <2>3
  <2>6. /\ state'[t].answered \subseteq state'[t].asked
        /\ state'[t].asked \subseteq used'
        /\ state'[t].pending # {}
    BY <2>1, <2>2, <2>3
  <2>7. TaskCoherent(t)'
    BY <2>2, <2>4, <2>5, <2>6 DEF TaskCoherent, Coherent
  <2> QED  BY <1>4, <2>1, <2>4, <2>7, StepKeepsCoherent DEF LLMCallsTools
<1>5. CASE LLMAnswers(t)
  <2>1. state'[t] = MarkCompleted(state[t]) /\ pc'[t] = "finalSave"
    BY <1>0, <1>5, MarkEndedFields DEF LLMAnswers, Return, ReturnLabel
  <2>2. OthersStand(t)
    BY <1>0, <1>5 DEF LLMAnswers, Return
  <2>3. TaskCoherent(t)'
    <3>1. /\ state'[t].status = "completed"
          /\ state'[t].asked = state[t].asked
          /\ state'[t].answered = state[t].answered
          /\ state'[t].pending = {}
      BY <1>0, <2>1, MarkEndedFields
    <3>2. UNCHANGED used /\ state[t].status = "running"
      BY <1>5, <1>a DEF LLMAnswers, TaskCoherent
    <3> QED  BY <1>a, <2>1, <3>1, <3>2 DEF TaskCoherent, Coherent
  <2> QED  BY <1>5, <2>2, <2>3, StepKeepsCoherent DEF LLMAnswers
<1>6. CASE StreamEndsEarly(t)
  <2>1. OthersStand(t) /\ pc'[t] = "loop"
    BY <1>0, <1>6 DEF StreamEndsEarly
  <2> QED  BY <1>6, <2>1, SameStateCoherent DEF StreamEndsEarly
<1>7. CASE SaveWaiting(t)
  <2>1. OthersStand(t) /\ pc'[t] = "update"
    BY <1>0, <1>7 DEF SaveWaiting
  <2> QED  BY <1>7, <2>1, SameStateCoherent DEF SaveWaiting, SaveSnapshot
<1>8. CASE UpdateWaiting(t)
  <2>1. OthersStand(t) /\ pc'[t] = "dispatch"
    BY <1>0, <1>8 DEF UpdateWaiting
  <2> QED  BY <1>8, <2>1, SameStateCoherent DEF UpdateWaiting
<1>9. CASE DispatchTool(t)
  <2>1. PICK c \in todo[t] :
           /\ todo' = [todo EXCEPT ![t] = @ \ {c}]
           /\ Goto(t, IF todo[t] = {c} THEN ReturnLabel(t, state[t]) ELSE "dispatch")
    BY <1>9 DEF DispatchTool
  <2>2. OthersStand(t) /\ pc'[t] \in {"resave", "finalSave", "dispatch"}
    BY <1>0, <1>9, <2>1 DEF DispatchTool, ReturnLabel
  <2> QED  BY <1>9, <2>2, SameStateCoherent DEF DispatchTool
<1> QED  BY <1>1, <1>2, <1>3, <1>4, <1>5, <1>6, <1>7, <1>8, <1>9 DEF Execute

\* The end of a handler saves the state it holds.
LEMMA EndKeepsCoherent ==
  ASSUME TypeOK, ConversationInv, NEW t \in Tasks,
         FinalSave(t) \/ FinalUpdate(t) \/ HandlerFails(t) \/ Release(t)
  PROVE  ConversationInv'
<1> USE DEF OthersStand, Goto, locals, tables, history
<1>0. pc \in [Tasks -> Labels] /\ state \in [Tasks -> AgentState]
  BY DEF TypeOK, TaskType
<1>1. CASE FinalSave(t)
  <2>1. OthersStand(t) /\ pc'[t] = "finalUpdate"
    BY <1>0, <1>1 DEF FinalSave
  <2> QED  BY <1>1, <2>1, SameStateCoherent DEF FinalSave, SaveSnapshot
<1>2. CASE FinalUpdate(t)
  <2>1. OthersStand(t) /\ pc'[t] \in {"done", "release"}
    BY <1>0, <1>2 DEF FinalUpdate
  <2> QED  BY <1>2, <2>1, SameStateCoherent DEF FinalUpdate
<1>3. CASE HandlerFails(t)
  <2>1. OthersStand(t) /\ pc'[t] \in {"done", "release"}
    BY <1>0, <1>3 DEF HandlerFails
  <2> QED  BY <1>3, <2>1, SameStateCoherent DEF HandlerFails
<1>4. CASE Release(t)
  <2>1. OthersStand(t) /\ pc'[t] = "idle" /\ state'[t] = NewState
    BY <1>0, <1>4 DEF Release, Forget, TypeOK, TaskType
  <2>2. TaskCoherent(t)'
    BY <2>1 DEF TaskCoherent, Coherent, NewState
  <2> QED  BY <1>4, <2>1, <2>2, StepKeepsCoherent DEF Release
<1> QED  BY <1>1, <1>2, <1>3, <1>4

\* ResumeHandler injects the results of all pending calls or of none.
LEMMA ResumeKeepsCoherent ==
  ASSUME TypeOK, ConversationInv, NEW t \in ResumeTasks, Resume(t)
  PROVE  ConversationInv'
<1> USE DEF OthersStand, Goto, SetState, locals, tables, history
<1>0. /\ t \in Tasks
      /\ pc \in [Tasks -> Labels] /\ state \in [Tasks -> AgentState]
      /\ todo \in [Tasks -> SUBSET Calls]
      /\ state[t] \in AgentState
  BY DEF TypeOK, TaskType, Tasks, LockTasks
<1>a. TaskCoherent(t)
  BY <1>0 DEF ConversationInv
<1>1. CASE TakeSignal(t)
  <2>1. OthersStand(t) /\ pc'[t] \in {"idle", "load"}
    BY <1>0, <1>1 DEF TakeSignal
  <2> QED  BY <1>0, <1>1, <2>1, SameStateCoherent DEF TakeSignal
<1>2. CASE LoadForResume(t)
  <2>1. PICK s \in LatestSnapshots : s.status = "waiting_tool" /\ SetState(t, s)
    BY <1>2 DEF LoadForResume
  <2>2. Coherent(s)
    BY <2>1, LatestType DEF ConversationInv
  <2>3. OthersStand(t) /\ pc'[t] = "fetch" /\ state'[t] = s
    BY <1>0, <1>2, <2>1 DEF LoadForResume
  <2>4. TaskCoherent(t)'
    BY <1>2, <2>1, <2>2, <2>3 DEF LoadForResume, TaskCoherent, Coherent
  <2> QED  BY <1>0, <1>2, <2>3, <2>4, StepKeepsCoherent DEF LoadForResume
<1>3. CASE NothingToResume(t)
  <2>1. OthersStand(t) /\ pc'[t] = "release"
    BY <1>0, <1>3 DEF NothingToResume
  <2> QED  BY <1>0, <1>3, <2>1, SameStateCoherent DEF NothingToResume
<1>4. CASE FetchResult(t)
  <2>1. OthersStand(t) /\ pc'[t] = "fetch"
    BY <1>0, <1>4 DEF FetchResult
  <2> QED  BY <1>0, <1>4, <2>1, SameStateCoherent DEF FetchResult
<1>5. CASE EmitPartialResults(t)
  <2>1. /\ state'[t].status = state[t].status
        /\ state'[t].asked = state[t].asked
        /\ state'[t].answered = state[t].answered
        /\ state'[t].pending = state[t].pending
    BY <1>0, <1>5 DEF EmitPartialResults, MarkShown, AgentState
  <2>2. OthersStand(t) /\ pc'[t] = "persist"
    BY <1>0, <1>5 DEF EmitPartialResults, MarkShown
  <2>3. TaskCoherent(t)'
    BY <1>5, <1>a, <2>1, <2>2 DEF EmitPartialResults, MarkShown, Fetched, TaskCoherent, Coherent
  <2> QED  BY <1>0, <1>5, <2>2, <2>3, StepKeepsCoherent DEF EmitPartialResults, MarkShown
<1>6. CASE PersistPartial(t)
  <2>1. OthersStand(t) /\ pc'[t] = "release"
    BY <1>0, <1>6 DEF PersistPartial
  <2> QED  BY <1>0, <1>6, <2>1, SameStateCoherent DEF PersistPartial, SaveSnapshot
<1>7. CASE NothingNew(t)
  <2>1. OthersStand(t) /\ pc'[t] = "release"
    BY <1>0, <1>7 DEF NothingNew
  <2> QED  BY <1>0, <1>7, <2>1, SameStateCoherent DEF NothingNew
<1>8. CASE ResumeFromSnapshot(t)
  <2>1. /\ state'[t].status = "running"
        /\ state'[t].asked = state[t].asked
        /\ state'[t].answered = state[t].answered \cup state[t].pending
        /\ state'[t].pending = {}
    BY <1>0, <1>8, InjectResultsFields DEF ResumeFromSnapshot
  <2>2. OthersStand(t) /\ pc'[t] = "loop"
    BY <1>0, <1>8 DEF ResumeFromSnapshot
  <2>3. Coherent(state[t]) /\ state[t].status = "waiting_tool"
    BY <1>8, <1>a DEF ResumeFromSnapshot, Fetched, TaskCoherent
  <2>4. /\ state'[t].answered = state'[t].asked
        /\ state'[t].asked \subseteq used'
    BY <1>8, <2>1, <2>3 DEF ResumeFromSnapshot, Coherent
  <2>5. TaskCoherent(t)'
    BY <2>1, <2>2, <2>4 DEF TaskCoherent, Coherent
  <2> QED  BY <1>0, <1>8, <2>2, <2>5, StepKeepsCoherent DEF ResumeFromSnapshot
<1>9. CASE SaveAndRecheck(t)
  <2>1. OthersStand(t) /\ pc'[t] = "fetch"
    BY <1>0, <1>9 DEF SaveAndRecheck
  <2> QED  BY <1>0, <1>9, <2>1, SameStateCoherent DEF SaveAndRecheck, SaveSnapshot
<1>10. CASE StopResuming(t)
  <2>1. OthersStand(t) /\ pc'[t] = "finalSave"
    BY <1>0, <1>10 DEF StopResuming
  <2> QED  BY <1>0, <1>10, <2>1, SameStateCoherent DEF StopResuming
<1> QED  BY <1>0, <1>1, <1>2, <1>3, <1>4, <1>5, <1>6, <1>7, <1>8, <1>9, <1>10,
            ExecuteKeepsCoherent, EndKeepsCoherent DEF Resume

\* ConfirmHandler changes no conversation.
LEMMA ConfirmKeepsCoherent ==
  ASSUME TypeOK, ConversationInv, NEW t \in ConfirmTasks, Confirm(t)
  PROVE  ConversationInv'
<1> USE DEF OthersStand, Goto, SetState, locals, tables, history
<1>0. /\ t \in Tasks
      /\ pc \in [Tasks -> Labels] /\ state \in [Tasks -> AgentState]
      /\ msg \in [ConfirmTasks -> Decisions \cup {None}]
  BY DEF TypeOK, TaskType, Tasks, LockTasks
<1>1. CASE TakeDecision(t)
  <2>1. OthersStand(t) /\ pc'[t] \in {"idle", "load"}
    <3>1. pc[t] = "idle" /\ (Goto(t, "load") \/ UNCHANGED pc)
      BY <1>1 DEF TakeDecision
    <3>2. \A u \in ConfirmTasks \ {t} : msg'[u] = msg[u]
      BY <1>0, <1>1 DEF TakeDecision
    <3> QED  BY <1>0, <1>1, <3>1, <3>2 DEF TakeDecision
  <2> QED  BY <1>0, <1>1, <2>1, SameStateCoherent DEF TakeDecision
<1>2. CASE LoadForConfirm(t)
  <2>1. PICK s \in LatestSnapshots : SetState(t, s)
    BY <1>2 DEF LoadForConfirm
  <2>2. Coherent(s)
    BY LatestType DEF ConversationInv
  <2>3. OthersStand(t) /\ pc'[t] = "answer" /\ state'[t] = s
    BY <1>0, <1>2, <2>1 DEF LoadForConfirm
  <2>4. TaskCoherent(t)'
    BY <1>2, <2>2, <2>3 DEF LoadForConfirm, TaskCoherent, Coherent
  <2> QED  BY <1>0, <1>2, <2>3, <2>4, StepKeepsCoherent DEF LoadForConfirm
<1>3. CASE NothingToConfirm(t)
  <2>1. OthersStand(t) /\ pc'[t] = "release"
    BY <1>0, <1>3 DEF NothingToConfirm
  <2> QED  BY <1>0, <1>3, <2>1, SameStateCoherent DEF NothingToConfirm
<1>4. CASE ForwardConfirmed(t)
  <2>1. OthersStand(t) /\ pc'[t] = "release"
    BY <1>0, <1>4 DEF ForwardConfirmed
  <2> QED  BY <1>0, <1>4, <2>1, SameStateCoherent DEF ForwardConfirmed
<1>5. CASE StoreRejection(t)
  <2>1. OthersStand(t) /\ pc'[t] = "signal"
    BY <1>0, <1>5 DEF StoreRejection
  <2> QED  BY <1>0, <1>5, <2>1, SameStateCoherent DEF StoreRejection
<1>6. CASE SignalRejection(t)
  <2>1. OthersStand(t) /\ pc'[t] = "release"
    BY <1>0, <1>6 DEF SignalRejection
  <2> QED  BY <1>0, <1>6, <2>1, SameStateCoherent DEF SignalRejection
<1> QED  BY <1>0, <1>1, <1>2, <1>3, <1>4, <1>5, <1>6, EndKeepsCoherent DEF Confirm

\* A crash changes no snapshot.
LEMMA CrashKeepsCoherent ==
  ASSUME ConversationInv, Crash
  PROVE  ConversationInv'
<1>1. UNCHANGED snapshots /\ UNCHANGED used
  BY DEF Crash, tables
<1>2. ASSUME NEW t \in Tasks
      PROVE  \/ pc'[t] = pc[t] /\ state'[t] = state[t]
             \/ pc'[t] \in {"idle", "ready", "done"} /\ state'[t] = NewState
  BY DEF Crash
<1>3. ASSUME NEW t \in Tasks  PROVE TaskCoherent(t)'
  <2>1. TaskCoherent(t)
    BY DEF ConversationInv
  <2> QED  BY <1>1, <1>2, <2>1 DEF TaskCoherent, Coherent, NewState
<1> QED  BY <1>1, <1>3 DEF ConversationInv, Coherent

\* Every step keeps the conversations coherent.
LEMMA NextKeepsCoherent ==
  ASSUME TypeOK, ConversationInv, [Next]_vars
  PROVE  ConversationInv'
<1>1. CASE Job
  <2>1. JobTask \in Tasks
    BY DEF Tasks
  <2>2. CASE StartJob
    <3>1. /\ OthersStand(JobTask) /\ pc'[JobTask] = "loop"
          /\ state'[JobTask] = [NewState EXCEPT !.status = "running"]
      BY <2>1, <2>2 DEF StartJob, OthersStand, Goto, TypeOK, TaskType
    <3>2. TaskCoherent(JobTask)'
      BY <3>1 DEF TaskCoherent, Coherent, NewState
    <3> QED  BY <2>1, <2>2, <3>1, <3>2, StepKeepsCoherent DEF StartJob, history
  <2> QED  BY <1>1, <2>1, <2>2, ExecuteKeepsCoherent, EndKeepsCoherent DEF Job
<1>2. CASE \/ \E c \in Calls : \/ RunTool(c) \/ SendSignal(c) \/ SignalFails(c)
                               \/ StoreFails(c) \/ WorkerCrash(c) \/ ExpireResult(c)
           \/ \E c \in Calls, b \in BOOLEAN : Decide(c, b)
           \/ ExpireLock \/ OutliveLock
           \/ UNCHANGED vars
  <2>1. UNCHANGED <<pc, state, snapshots, used>>
    BY <1>2 DEF RunTool, SendSignal, SignalFails, StoreFails, WorkerCrash, ExpireResult, Decide,
       ExpireLock, OutliveLock, vars, locals, tables, history
  <2> QED  BY <2>1 DEF ConversationInv, TaskCoherent, Coherent
<1> QED  BY <1>1, <1>2, ResumeKeepsCoherent, ConfirmKeepsCoherent, CrashKeepsCoherent DEF Next

\* Every AgentState, held by a task or saved as a snapshot, waits, unless it failed,
\* for exactly the calls of its conversation that have no result, is suspended just
\* when it waits, and a task is in the agent loop only with a running one
\* (add_assistant_message, mark_waiting_tool, resume_from_snapshot).
THEOREM ConversationInvariant == Spec => []ConversationInv
<1>1. Init => ConversationInv
  BY DEF Init, ConversationInv, TaskCoherent, Coherent, NewState
<1> QED  BY <1>1, TypeCorrect, NextKeepsCoherent, PTL DEF Spec

\* The LLM never sees a tool call without its result, and a snapshot lacks
\* exactly the results it waits for.
THEOREM ConversationsWellFormed == Spec => []ConversationWellFormed
<1>1. ASSUME TypeOK, ConversationInv
      PROVE  ConversationWellFormed
  <2>1. ASSUME NEW t \in Tasks, pc[t] = "llm"
        PROVE  state[t].asked = state[t].answered
    BY <1>1, <2>1 DEF ConversationInv, TaskCoherent, Coherent
  <2> QED  BY <1>1, <2>1 DEF ConversationWellFormed, ConversationInv, Coherent
<1> QED  BY <1>1, TypeCorrect, ConversationInvariant, PTL

-----------------------------------------------------------------------------
(* Results: what is shown to the user and what was produced, whatever      *)
(* fails.                                                                  *)

Seen == {c \in Calls : emitted[c] > 0}
Injected == {c \in Calls : injected[c] > 0}

\* The calls whose result was emitted, may not be or could not be.
Settled == Seen \cup Hidden \cup unseen

\* Everything injected or marked as shown is settled.
ShownInv ==
    /\ Injected \subseteq Settled
    /\ \A s \in snapshots : s.shown \subseteq Settled
    /\ \A t \in Tasks : state[t].shown \subseteq Settled

\* What is fetched was stored, and what is stored or injected was produced.
ProducedInv ==
    /\ results \subseteq executed
    /\ \A t \in Tasks : fetched[t] \subseteq executed
    /\ Injected \subseteq executed

\* The operations of the agent loop keep the marks of the shown results.
LEMMA ShownFields ==
  ASSUME NEW s \in AgentState
  PROVE  /\ MarkFailed(s).shown = s.shown
         /\ MarkCompleted(s).shown = s.shown
         /\ \A T \in SUBSET Calls : MarkWaitingTool(s, T).shown = s.shown
         /\ \A i \in Nat : [s EXCEPT !.iteration = i].shown = s.shown
         /\ \A T \in SUBSET Calls : [s EXCEPT !.shown = T].shown = T
         /\ InjectResults(s).shown = {}
  BY DEF MarkFailed, MarkCompleted, MarkWaitingTool, InjectResults, AgentState

\* A step of t that emits nothing: only its own state and the row it saves count.
LEMMA StepKeepsShown ==
  ASSUME ShownInv, NEW t \in Tasks, \A u \in Tasks \ {t} : state'[u] = state[u],
         UNCHANGED <<injected, emitted, unseen>>,
         snapshots' \subseteq snapshots \cup {state[t]},
         state'[t].shown \subseteq Settled
  PROVE  ShownInv'
  BY DEF ShownInv, Settled, Seen, Injected

\* What a step of the agent loop or of the end of a handler does to a task's state
\* and to the rows.
LEMMA LoopEffect ==
  ASSUME TypeOK, NEW t \in Tasks, Execute(t) \/ FinalSave(t) \/ FinalUpdate(t) \/ HandlerFails(t)
  PROVE  /\ \A u \in Tasks \ {t} : state'[u] = state[u]
         /\ state'[t].shown = state[t].shown
         /\ snapshots' \subseteq snapshots \cup {state[t]}
         /\ UNCHANGED <<fetched, results, executed, injected, emitted, unseen>>
<1> USE DEF SetState, Return, SaveSnapshot, redis, tables, history, locals
<1>0. state \in [Tasks -> AgentState] /\ state[t] \in AgentState
  BY DEF TypeOK, TaskType
<1>1. CASE MaxIterationsReached(t) \/ LLMAnswers(t) \/ ExecutorFails(t)
  BY <1>0, <1>1, ShownFields DEF MaxIterationsReached, LLMAnswers, ExecutorFails
<1>2. CASE NextIteration(t)
  <2>1. state[t].iteration + 1 \in Nat
    BY <1>0, AgentStateFields
  <2>2. state'[t] = [state[t] EXCEPT !.iteration = state[t].iteration + 1]
    BY <1>0, <1>2 DEF NextIteration
  <2> QED  BY <1>0, <1>2, <2>1, <2>2, ShownFields DEF NextIteration
<1>3. CASE LLMCallsTools(t)
  <2>1. PICK T \in SUBSET Calls : SetState(t, MarkWaitingTool(state[t], T))
    BY <1>3 DEF LLMCallsTools
  <2> QED  BY <1>0, <1>3, <2>1, ShownFields DEF LLMCallsTools
<1>4. CASE \/ Checkpoint(t) \/ StreamEndsEarly(t) \/ SaveWaiting(t) \/ UpdateWaiting(t)
           \/ DispatchTool(t) \/ FinalSave(t) \/ FinalUpdate(t) \/ HandlerFails(t)
  BY <1>4 DEF Checkpoint, StreamEndsEarly, SaveWaiting, UpdateWaiting, DispatchTool,
     FinalSave, FinalUpdate, HandlerFails
<1> QED  BY <1>1, <1>2, <1>3, <1>4 DEF Execute


\* A batch of results is settled when it is emitted, and what was settled stays so.
LEMMA EmitSettles ==
  ASSUME TypeOK, NEW T \in SUBSET Calls, EmitToolResults(T)
  PROVE  Settled \cup T \subseteq Settled'
<1>1. PICK gone \in SUBSET (T \ Hidden) :
         /\ emitted' = [c \in Calls |->
                          emitted[c] + (IF c \in T \ (Hidden \cup gone) THEN 1 ELSE 0)]
         /\ unseen' = unseen \cup gone
  BY DEF EmitToolResults
<1>2. \A c \in Calls : emitted[c] \in Nat
  BY DEF TypeOK, HistoryType
<1>3. Seen \subseteq Seen'
  BY <1>1, <1>2 DEF Seen
<1>4. T \ (Hidden \cup gone) \subseteq Seen'
  BY <1>1, <1>2 DEF Seen
<1> QED  BY <1>1, <1>3, <1>4 DEF Settled

\* Every step settles a result before, or when, it counts as shown or enters a
\* conversation.
LEMMA NextKeepsShown ==
  ASSUME TypeOK, ShownInv, [Next]_vars
  PROVE  ShownInv'
<1> USE DEF SetState, SaveSnapshot, redis, tables, history, locals
<1>0. /\ state \in [Tasks -> AgentState] /\ snapshots \subseteq AgentState
      /\ emitted \in [Calls -> Nat] /\ injected \in [Calls -> Nat]
      /\ \A t \in Tasks : fetched[t] \subseteq Calls
  BY DEF TypeOK, TaskType, TableType, HistoryType
<1>1. ASSUME NEW t \in Tasks,
             Execute(t) \/ FinalSave(t) \/ FinalUpdate(t) \/ HandlerFails(t)
      PROVE  ShownInv'
  <2>1. state'[t].shown \subseteq Settled
    BY <1>1, LoopEffect DEF ShownInv
  <2> QED  BY <1>1, <2>1, LoopEffect, StepKeepsShown
<1>2. ASSUME NEW t \in Tasks, Release(t)
      PROVE  ShownInv'
  <2>1. state'[t].shown = {}
    BY <1>0, <1>2 DEF Release, Forget, NewState
  <2> QED  BY <1>0, <1>2, <2>1, StepKeepsShown DEF Release, Forget
<1>3. ASSUME StartJob  PROVE ShownInv'
  <2>1. state'[JobTask].shown = {} /\ JobTask \in Tasks
    BY <1>0, <1>3 DEF StartJob, NewState, Tasks
  <2> QED  BY <1>0, <1>3, <2>1, StepKeepsShown DEF StartJob
<1>4. ASSUME NEW t \in Tasks, LoadForResume(t) \/ LoadForConfirm(t)
      PROVE  ShownInv'
  <2>1. PICK s \in LatestSnapshots : state' = [state EXCEPT ![t] = s]
    BY <1>4 DEF LoadForResume, LoadForConfirm
  <2>2. state'[t].shown \subseteq Settled
    BY <1>0, <2>1, LatestType DEF ShownInv
  <2> QED  BY <1>0, <1>4, <2>1, <2>2, StepKeepsShown DEF LoadForResume, LoadForConfirm
<1>5. ASSUME NEW t \in Tasks, EmitPartialResults(t)
      PROVE  ShownInv'
  <2> DEFINE newly == fetched[t] \ state[t].shown
  <2>1. /\ EmitToolResults(newly)
        /\ state' = [state EXCEPT ![t] = [state[t] EXCEPT !.shown = @ \cup newly]]
        /\ UNCHANGED <<snapshots, injected>>
    BY <1>5 DEF EmitPartialResults, MarkShown
  <2>2. /\ state[t] \in AgentState /\ newly \in SUBSET Calls
        /\ state[t].shown \cup newly \in SUBSET Calls
    BY <1>0, AgentStateFields
  <2>3. state'[t].shown = state[t].shown \cup newly
    <3>1. [state[t] EXCEPT !.shown = state[t].shown \cup newly].shown = state[t].shown \cup newly
      BY <2>2, ShownFields
    <3> QED  BY <1>0, <2>1, <3>1
  <2>4. \A u \in Tasks \ {t} : state'[u] = state[u]
    BY <1>0, <2>1
  <2>5. Settled \cup newly \subseteq Settled'
    BY <2>1, <2>2, EmitSettles
  <2>6. \A u \in Tasks : state'[u].shown \subseteq Settled'
    BY <2>3, <2>4, <2>5 DEF ShownInv
  <2> QED  BY <2>1, <2>5, <2>6 DEF ShownInv, Injected
<1>6. ASSUME NEW t \in Tasks, ResumeFromSnapshot(t)
      PROVE  ShownInv'
  <2> DEFINE P == state[t].pending
             N == state[t].pending \ state[t].shown
  <2>1. /\ EmitToolResults(N)
        /\ injected' = [c \in Calls |-> injected[c] + (IF c \in P THEN 1 ELSE 0)]
        /\ state' = [state EXCEPT ![t] = InjectResults(state[t])]
        /\ UNCHANGED snapshots
    BY <1>6 DEF ResumeFromSnapshot
  <2>2. state'[t].shown = {}
    BY <1>0, <2>1, ShownFields
  <2>3. \A u \in Tasks \ {t} : state'[u] = state[u]
    BY <1>0, <2>1
  <2>4. N \in SUBSET Calls
    BY <1>0, AgentStateFields
  <2>5. Settled \cup N \subseteq Settled'
    BY <2>1, <2>4, EmitSettles
  <2>6. Injected' \subseteq Injected \cup P
    BY <1>0, <2>1 DEF Injected
  <2>7. P \subseteq N \cup Settled
    BY DEF ShownInv
  <2>8. Injected' \subseteq Settled'
    BY <2>5, <2>6, <2>7 DEF ShownInv
  <2> QED  BY <2>1, <2>2, <2>3, <2>5, <2>8 DEF ShownInv
<1>7. ASSUME NEW t \in Tasks,
             \/ TakeSignal(t) \/ NothingToResume(t) \/ FetchResult(t) \/ PersistPartial(t)
             \/ NothingNew(t) \/ SaveAndRecheck(t) \/ StopResuming(t)
             \/ TakeDecision(t) \/ NothingToConfirm(t) \/ ForwardConfirmed(t)
             \/ StoreRejection(t) \/ SignalRejection(t)
      PROVE  ShownInv'
  <2>1. /\ UNCHANGED <<state, injected, emitted, unseen>>
        /\ snapshots' \subseteq snapshots \cup {state[t]}
    BY <1>7 DEF TakeSignal, NothingToResume, FetchResult, PersistPartial, NothingNew,
       SaveAndRecheck, StopResuming, TakeDecision, NothingToConfirm, ForwardConfirmed,
       StoreRejection, SignalRejection
  <2> QED  BY <2>1, StepKeepsShown DEF ShownInv
<1>8. ASSUME Crash  PROVE ShownInv'
  <2>1. UNCHANGED <<snapshots, injected, emitted, unseen>>
    BY <1>8 DEF Crash
  <2>2. \A t \in Tasks : state'[t] = state[t] \/ state'[t] = NewState
    BY <1>8 DEF Crash
  <2> QED  BY <2>1, <2>2 DEF ShownInv, Settled, Seen, Injected, NewState
<1>9. ASSUME \/ \E c \in Calls : \/ RunTool(c) \/ SendSignal(c) \/ SignalFails(c)
                                 \/ StoreFails(c) \/ WorkerCrash(c) \/ ExpireResult(c)
             \/ \E c \in Calls, b \in BOOLEAN : Decide(c, b)
             \/ ExpireLock \/ OutliveLock
             \/ UNCHANGED vars
      PROVE  ShownInv'
  <2>1. UNCHANGED <<state, snapshots, injected, emitted, unseen>>
    BY <1>9 DEF RunTool, SendSignal, SignalFails, StoreFails, WorkerCrash, ExpireResult,
       Decide, ExpireLock, OutliveLock, vars
  <2> QED  BY <2>1 DEF ShownInv, Settled, Seen, Injected
<1>10. ResumeTasks \subseteq Tasks /\ ConfirmTasks \subseteq Tasks /\ JobTask \in Tasks
  BY DEF Tasks, LockTasks
<1> QED  BY <1>1, <1>2, <1>3, <1>4, <1>5, <1>6, <1>7, <1>8, <1>9, <1>10
         DEF Next, Job, Resume, Confirm

\* The user has seen every result the LLM was given and every result a snapshot
\* says was shown, whatever fails, crashes or expires, but those of hidden tools
\* and those whose publication failed (_emit_partial_results,
\* emitted_tool_result_ids, _should_emit_tool_event).
THEOREM EveryResultIsShown == Spec => []ResultsShown
<1>1. Init => ShownInv
  BY DEF Init, ShownInv, Seen, Injected, NewState
<1>2. TypeOK /\ ShownInv => ResultsShown
  <2> SUFFICES ASSUME TypeOK, ShownInv, NEW c \in Calls \ (Hidden \cup unseen),
                      injected[c] > 0 \/ (\E s \in snapshots : c \in s.shown)
               PROVE  emitted[c] > 0
    BY DEF ResultsShown
  <2> QED  BY DEF ShownInv, Settled, Seen, Injected
<1> QED  BY <1>1, <1>2, TypeCorrect, NextKeepsShown, PTL DEF Spec

\* Every step stores, fetches and injects only results that were produced.
LEMMA NextKeepsProduced ==
  ASSUME TypeOK, ProducedInv, [Next]_vars
  PROVE  ProducedInv'
<1> USE DEF redis, tables, history, locals
<1>0. /\ fetched \in [Tasks -> SUBSET Calls] /\ injected \in [Calls -> Nat]
      /\ results \subseteq Calls
  BY DEF TypeOK, TaskType, RedisType, HistoryType
<1>1. ASSUME UNCHANGED injected, executed \subseteq executed',
             results' \subseteq executed', \A u \in Tasks : fetched'[u] \subseteq executed'
      PROVE  ProducedInv'
  BY <1>1 DEF ProducedInv, Injected
<1>2. ASSUME NEW t \in Tasks,
             Execute(t) \/ FinalSave(t) \/ FinalUpdate(t) \/ HandlerFails(t)
      PROVE  ProducedInv'
  BY <1>2, LoopEffect DEF ProducedInv, Injected
<1>3. ASSUME NEW t \in Tasks, Release(t)
      PROVE  ProducedInv'
  <2>1. \A u \in Tasks : fetched'[u] = {} \/ fetched'[u] = fetched[u]
    BY <1>0, <1>3 DEF Release, Forget
  <2> QED  BY <1>3, <2>1 DEF Release, ProducedInv, Injected
<1>4. ASSUME NEW t \in Tasks, FetchResult(t)
      PROVE  ProducedInv'
  <2>1. PICK c \in todo[t] : fetched' = [fetched EXCEPT ![t] = @ \cup (results \cap {c})]
    BY <1>4 DEF FetchResult
  <2>2. \A u \in Tasks : fetched'[u] \subseteq fetched[u] \cup results
    BY <1>0, <2>1
  <2> QED  BY <1>4, <2>2 DEF FetchResult, ProducedInv, Injected
<1>5. ASSUME NEW t \in Tasks, ResumeFromSnapshot(t)
      PROVE  ProducedInv'
  <2>1. /\ injected' = [c \in Calls |->
                          injected[c] + (IF c \in state[t].pending THEN 1 ELSE 0)]
        /\ fetched' = [fetched EXCEPT ![t] = {}]
        /\ state[t].pending \subseteq fetched[t]
        /\ UNCHANGED <<results, executed>>
    BY <1>5 DEF ResumeFromSnapshot, MissingTools
  <2>2. Injected' \subseteq Injected \cup fetched[t]
    BY <1>0, <2>1 DEF Injected
  <2>3. \A u \in Tasks : fetched'[u] \subseteq fetched[u]
    BY <1>0, <2>1
  <2> QED  BY <2>1, <2>2, <2>3 DEF ProducedInv
<1>6. ASSUME NEW t \in Tasks,
             \/ TakeSignal(t) \/ LoadForResume(t) \/ NothingToResume(t)
             \/ EmitPartialResults(t) \/ PersistPartial(t) \/ NothingNew(t)
             \/ SaveAndRecheck(t) \/ StopResuming(t)
             \/ TakeDecision(t) \/ LoadForConfirm(t) \/ NothingToConfirm(t)
             \/ ForwardConfirmed(t) \/ StoreRejection(t) \/ SignalRejection(t)
      PROVE  ProducedInv'
  <2>1. CASE StoreRejection(t)
    BY <1>1, <2>1 DEF StoreRejection, ProducedInv
  <2>2. CASE ~StoreRejection(t)
    <3>1. UNCHANGED <<injected, executed, results, fetched>>
      BY <1>6, <2>2 DEF TakeSignal, LoadForResume, NothingToResume, EmitPartialResults,
         PersistPartial, NothingNew, SaveAndRecheck, StopResuming, TakeDecision,
         LoadForConfirm, NothingToConfirm, ForwardConfirmed, SignalRejection
    <3> QED  BY <3>1 DEF ProducedInv, Injected
  <2> QED  BY <2>1, <2>2
<1>7. ASSUME StartJob \/ Crash  PROVE ProducedInv'
  <2>1. UNCHANGED <<injected, executed, results>>
    BY <1>7 DEF StartJob, Crash
  <2>2. \A u \in Tasks : fetched'[u] = {} \/ fetched'[u] = fetched[u]
    BY <1>7 DEF StartJob, Crash
  <2> QED  BY <2>1, <2>2 DEF ProducedInv, Injected
<1>8. ASSUME \/ \E c \in Calls : \/ RunTool(c) \/ SendSignal(c) \/ SignalFails(c)
                                 \/ StoreFails(c) \/ WorkerCrash(c) \/ ExpireResult(c)
             \/ \E c \in Calls, b \in BOOLEAN : Decide(c, b)
             \/ ExpireLock \/ OutliveLock
             \/ UNCHANGED vars
      PROVE  ProducedInv'
  <2>1. UNCHANGED <<fetched, injected>>
    BY <1>8 DEF RunTool, SendSignal, SignalFails, StoreFails, WorkerCrash, ExpireResult,
       Decide, ExpireLock, OutliveLock, vars
  <2>2. \/ results' \subseteq results /\ executed \subseteq executed'
        \/ \E c \in Calls : results' = results \cup {c} /\ executed' = executed \cup {c}
    BY <1>8 DEF RunTool, SendSignal, SignalFails, StoreFails, WorkerCrash, ExpireResult,
       Decide, ExpireLock, OutliveLock, vars
  <2> QED  BY <1>1, <2>1, <2>2 DEF ProducedInv
<1>9. ResumeTasks \subseteq Tasks /\ ConfirmTasks \subseteq Tasks /\ JobTask \in Tasks
  BY DEF Tasks, LockTasks
<1> QED  BY <1>2, <1>3, <1>4, <1>5, <1>6, <1>7, <1>8, <1>9
         DEF Next, Job, Resume, Confirm

\* No conversation holds the result of a call that nobody answered
\* (_fetch_tool_results, resume_from_snapshot).
THEOREM InjectedWasProduced == Spec => []ProducedInv
<1>1. Init => ProducedInv
  BY DEF Init, ProducedInv, Injected
<1> QED  BY <1>1, TypeCorrect, NextKeepsProduced, PTL DEF Spec

-----------------------------------------------------------------------------
(* Turns: which suspended snapshots share a sequence number, until a task   *)
(* outlives its lock or the job message is handled again.                  *)

SameTurn(r, s) ==
    r.iteration = s.iteration /\ r.pending = s.pending /\ r.answered = s.answered

\* A task on its way to the next suspended snapshot, and one that works on one.
Thinking == {"loop", "checkpoint", "llm", "save"}
Suspended == {"update", "dispatch", "fetch", "persist", "resave"}

\* A task at label l with AgentState s is ahead of every suspended snapshot, or
\* its state is the turn of one.
TurnOf(t, l, s) ==
    /\ t \notin ConfirmTasks /\ l \in Thinking
       => \A r \in Waiting : r.iteration <= s.iteration
    /\ t \notin ConfirmTasks /\ l \in Thinking \ {"loop"}
       => \A r \in Waiting : r.iteration # s.iteration
    /\ s.status = "waiting_tool" /\ l # "save" => \E r \in Waiting : SameTurn(r, s)
    /\ t \in ResumeTasks /\ l \in Suspended => \A r \in Waiting : r.iteration <= s.iteration

NotBegun(t) == pc[t] \in {"idle", "load", "release"}

\* handle_job has not saved its first suspended snapshot: nothing to resume.
FirstTurn == pc[JobTask] \in {"ready"} \cup Thinking
NothingSuspended == Waiting = {} /\ \A t \in ResumeTasks : NotBegun(t)

\* Whoever resumes has a suspended snapshot to resume from.
BegunOnRow == \A t \in ResumeTasks : NotBegun(t) \/ Waiting # {}

OneTurnPerNumber ==
    \A r, s \in snapshots :
        r.status = "waiting_tool" /\ s.status = "waiting_tool" /\ r.iteration = s.iteration
        => r.pending = s.pending /\ r.answered = s.answered

TurnInv ==
    /\ OneTurnPerNumber
    /\ \A t \in Tasks : TurnOf(t, pc[t], state[t])
    /\ FirstTurn => NothingSuspended
    /\ BegunOnRow

\* The job message is not handled again once there is a suspended snapshot.
HandledOnce == pc'[JobTask] = "ready" => pc[JobTask] = "ready" \/ Waiting = {}

\* A step that saves no suspended snapshot of a new turn.
NoNewTurn ==
    /\ snapshots \subseteq snapshots'
    /\ \A s \in snapshots' : s.status = "waiting_tool" => \E r \in Waiting : SameTurn(r, s)

\* The lock leaves one resume or confirm task at work.
LEMMA OneAtWork ==
  ASSUME LockInv, NEW t \in LockTasks, NEW u \in LockTasks, pc[t] # "idle", u # t
  PROVE  pc[u] = "idle"
  BY DEF LockInv

\* A step of t that starts no turn: what has to be shown of t.
LEMMA StepKeepsTurns ==
  ASSUME TurnInv, NEW t \in Tasks, OthersStand(t), NoNewTurn,
         TurnOf(t, pc'[t], state'[t]),
         t = JobTask /\ FirstTurn' => FirstTurn,
         t \in ResumeTasks => pc'[t] \in {"idle", "load", "release"} \/ ~NotBegun(t)
                              \/ Waiting # {}
  PROVE  TurnInv'
<1>1. \A s \in Waiting' : \E r \in Waiting : SameTurn(r, s)
  BY DEF NoNewTurn, Waiting
<1>2. Waiting \subseteq Waiting'
  BY DEF NoNewTurn, Waiting
<1>3. OneTurnPerNumber'
  <2> SUFFICES ASSUME NEW r \in snapshots', NEW s \in snapshots',
                      r.status = "waiting_tool", s.status = "waiting_tool",
                      r.iteration = s.iteration
               PROVE  r.pending = s.pending /\ r.answered = s.answered
    BY DEF OneTurnPerNumber
  <2>1. PICK p \in Waiting : SameTurn(p, r)
    BY DEF NoNewTurn
  <2>2. PICK q \in Waiting : SameTurn(q, s)
    BY DEF NoNewTurn
  <2> QED  BY <2>1, <2>2 DEF TurnInv, OneTurnPerNumber, Waiting, SameTurn
<1>4. ASSUME NEW u \in Tasks, NEW l, NEW s, TurnOf(u, l, s)
      PROVE  /\ u \notin ConfirmTasks /\ l \in Thinking
                => \A r \in Waiting' : r.iteration <= s.iteration
             /\ u \notin ConfirmTasks /\ l \in Thinking \ {"loop"}
                => \A r \in Waiting' : r.iteration # s.iteration
             /\ s.status = "waiting_tool" /\ l # "save" => \E r \in Waiting' : SameTurn(r, s)
             /\ u \in ResumeTasks /\ l \in Suspended
                => \A r \in Waiting' : r.iteration <= s.iteration
  BY <1>1, <1>2, <1>4 DEF TurnOf, SameTurn
<1>5. ASSUME NEW u \in Tasks
      PROVE  TurnOf(u, pc[u], state[u])'
  <2>1. TurnOf(u, pc'[u], state'[u])
    BY DEF TurnInv, OthersStand
  <2> QED  BY <1>4, <2>1 DEF TurnOf
<1>6. FirstTurn' => NothingSuspended'
  <2> SUFFICES ASSUME FirstTurn'  PROVE NothingSuspended'
    OBVIOUS
  <2>0. JobTask \in Tasks /\ ResumeTasks \subseteq Tasks /\ JobTask \notin ResumeTasks
    BY TasksAssumption DEF Tasks, LockTasks
  <2>1. FirstTurn
    <3>1. CASE t = JobTask
      BY <3>1
    <3>2. CASE t # JobTask
      BY <2>0, <3>2 DEF FirstTurn, OthersStand
    <3> QED  BY <3>1, <3>2
  <2>2. NothingSuspended
    BY <2>1 DEF TurnInv
  <2>3. Waiting' = {}
    BY <1>1, <2>2 DEF NothingSuspended
  <2>4. ASSUME NEW u \in ResumeTasks  PROVE NotBegun(u)'
    <3>1. NotBegun(u) /\ Waiting = {}
      BY <2>2 DEF NothingSuspended
    <3>2. CASE u = t
      BY <3>1, <3>2 DEF NotBegun
    <3>3. CASE u # t
      BY <2>0, <3>1, <3>3 DEF NotBegun, OthersStand
    <3> QED  BY <3>2, <3>3
  <2> QED  BY <2>3, <2>4 DEF NothingSuspended
<1>7. BegunOnRow'
  <2> SUFFICES ASSUME NEW u \in ResumeTasks, ~NotBegun(u)'
               PROVE  Waiting # {}
    BY <1>2 DEF BegunOnRow
  <2>1. u \in Tasks
    BY DEF Tasks, LockTasks
  <2>2. CASE u = t
    BY <2>2 DEF TurnInv, BegunOnRow, NotBegun
  <2>3. CASE u # t
    <3>1. ~NotBegun(u)
      BY <2>1, <2>3 DEF NotBegun, OthersStand
    <3> QED  BY <3>1 DEF TurnInv, BegunOnRow
  <2> QED  BY <2>2, <2>3
<1> QED  BY <1>3, <1>5, <1>6, <1>7 DEF TurnInv

\* A new suspended snapshot is ahead of all the others, and nobody else is thinking.
LEMMA SaveKeepsTurns ==
  ASSUME TypeOK, LockInv, ConversationInv, TurnInv, NEW t \in Tasks, t \notin ConfirmTasks,
         SaveWaiting(t)
  PROVE  TurnInv'
<1>0. /\ pc \in [Tasks -> Labels] /\ state \in [Tasks -> AgentState]
      /\ snapshots \subseteq AgentState
      /\ JobTask \in Tasks /\ ResumeTasks \subseteq Tasks /\ JobTask \notin LockTasks
      /\ t = JobTask \/ t \in ResumeTasks
      /\ ResumeTasks \subseteq LockTasks
  BY TasksAssumption DEF TypeOK, TaskType, TableType, Tasks, LockTasks
<1>1. /\ pc[t] = "save" /\ pc'[t] = "update" /\ OthersStand(t)
      /\ UNCHANGED state /\ snapshots' = snapshots \cup {state[t]}
  BY <1>0 DEF SaveWaiting, SaveSnapshot, OthersStand, Goto, locals
<1>2. state[t].status = "waiting_tool"
  BY <1>1 DEF ConversationInv, TaskCoherent
<1>3. Waiting' = Waiting \cup {state[t]}
  BY <1>1, <1>2 DEF Waiting
<1>4. \A r \in Waiting : /\ r.iteration \in Nat /\ state[t].iteration \in Nat
                         /\ r.iteration <= state[t].iteration
                         /\ r.iteration # state[t].iteration
  BY <1>0, <1>1, AgentStateFields DEF TurnInv, TurnOf, Waiting, Thinking
<1>5. OneTurnPerNumber'
  <2>1. \A r, s \in Waiting' : r.iteration = s.iteration
                               => r.pending = s.pending /\ r.answered = s.answered
    BY <1>3, <1>4 DEF TurnInv, OneTurnPerNumber, Waiting
  <2> QED  BY <2>1 DEF OneTurnPerNumber, Waiting
<1>6. TurnOf(t, pc[t], state[t])'
  <2>1. \A r \in Waiting' : r.iteration <= state[t].iteration
    BY <1>0, <1>3, <1>4, AgentStateFields
  <2>2. SameTurn(state[t], state[t]) /\ state[t] \in Waiting'
    BY <1>3 DEF SameTurn
  <2> QED  BY <1>1, <2>1, <2>2 DEF TurnOf, Thinking, Suspended
<1>7. ASSUME NEW u \in Tasks \ {t}
      PROVE  TurnOf(u, pc[u], state[u])'
  <2>1. pc'[u] = pc[u] /\ state'[u] = state[u] /\ TurnOf(u, pc[u], state[u])
    BY <1>1 DEF TurnInv, OthersStand
  <2>2. u \notin ConfirmTasks => pc[u] \notin Thinking
    <3> SUFFICES ASSUME u \notin ConfirmTasks, pc[u] \in Thinking
                 PROVE  FALSE
      OBVIOUS
    <3>1. CASE u = JobTask
      <4>1. t \in ResumeTasks /\ FirstTurn
        BY <1>0, <3>1 DEF FirstTurn
      <4>2. NotBegun(t)
        BY <4>1 DEF TurnInv, NothingSuspended
      <4> QED  BY <1>1, <4>2 DEF NotBegun
    <3>2. CASE t = JobTask
      <4>1. FirstTurn /\ u \in ResumeTasks
        BY <1>1, <3>2 DEF FirstTurn, Thinking, Tasks, LockTasks
      <4>2. NotBegun(u)
        BY <4>1 DEF TurnInv, NothingSuspended
      <4> QED  BY <4>2 DEF NotBegun, Thinking
    <3>3. CASE u # JobTask /\ t # JobTask
      <4>1. t \in LockTasks /\ u \in LockTasks
        BY <1>0, <3>3 DEF Tasks
      <4>2. pc[u] = "idle"
        BY <1>1, <4>1, OneAtWork
      <4> QED  BY <4>2 DEF Thinking
    <3> QED  BY <3>1, <3>2, <3>3
  <2>3. u \in ResumeTasks => pc[u] \notin Suspended
    <3> SUFFICES ASSUME u \in ResumeTasks, pc[u] \in Suspended
                 PROVE  FALSE
      OBVIOUS
    <3>1. CASE t = JobTask
      <4>1. NotBegun(u)
        BY <1>1, <3>1 DEF FirstTurn, Thinking, TurnInv, NothingSuspended
      <4> QED  BY <4>1 DEF NotBegun, Suspended
    <3>2. CASE t # JobTask
      <4>1. pc[u] = "idle"
        BY <1>0, <1>1, <3>2, OneAtWork
      <4> QED  BY <4>1 DEF Suspended
    <3> QED  BY <3>1, <3>2
  <2>4. state[u].status = "waiting_tool" /\ pc[u] # "save"
        => \E r \in Waiting' : SameTurn(r, state[u])
    BY <1>3, <2>1 DEF TurnOf
  <2> QED  BY <2>1, <2>2, <2>3, <2>4 DEF TurnOf, SameTurn
<1>8. ~FirstTurn'
  <2>1. CASE t = JobTask
    BY <1>1, <2>1 DEF FirstTurn, Thinking
  <2>2. CASE t # JobTask
    <3>1. ~NotBegun(t) /\ t \in ResumeTasks
      BY <1>0, <1>1, <2>2 DEF NotBegun
    <3>2. ~FirstTurn
      BY <3>1 DEF TurnInv, NothingSuspended
    <3> QED  BY <1>0, <1>1, <2>2, <3>2 DEF FirstTurn, OthersStand
  <2> QED  BY <2>1, <2>2
<1> QED  BY <1>3, <1>5, <1>6, <1>7, <1>8 DEF TurnInv, BegunOnRow

\* Only NextIteration counts, and the marks do not touch the turn.
LEMMA IterationFields ==
  ASSUME NEW s \in AgentState
  PROVE  /\ MarkFailed(s).iteration = s.iteration
         /\ MarkCompleted(s).iteration = s.iteration
         /\ \A T \in SUBSET Calls : MarkWaitingTool(s, T).iteration = s.iteration
         /\ InjectResults(s).iteration = s.iteration
         /\ \A i \in Nat : /\ [s EXCEPT !.iteration = i].iteration = i
                           /\ [s EXCEPT !.iteration = i].status = s.status
                           /\ [s EXCEPT !.iteration = i].asked = s.asked
                           /\ [s EXCEPT !.iteration = i].answered = s.answered
                           /\ [s EXCEPT !.iteration = i].pending = s.pending
         /\ \A T \in SUBSET Calls : /\ [s EXCEPT !.shown = T].iteration = s.iteration
                                    /\ [s EXCEPT !.shown = T].status = s.status
                                    /\ [s EXCEPT !.shown = T].asked = s.asked
                                    /\ [s EXCEPT !.shown = T].answered = s.answered
                                    /\ [s EXCEPT !.shown = T].pending = s.pending
  BY DEF MarkFailed, MarkCompleted, MarkWaitingTool, InjectResults, AgentState

\* A row of a state that was saved before is of a known turn.
LEMMA KnownTurn ==
  ASSUME TurnInv, NEW t \in Tasks, pc[t] # "save", SaveSnapshot(t)
  PROVE  NoNewTurn
<1>1. TurnOf(t, pc[t], state[t])
  BY DEF TurnInv
<1>2. \A s \in snapshots : s.status = "waiting_tool" => s \in Waiting /\ SameTurn(s, s)
  BY DEF Waiting, SameTurn
<1> QED  BY <1>1, <1>2 DEF NoNewTurn, SaveSnapshot, TurnOf

\* No row, no turn.
LEMMA NoRow ==
  ASSUME UNCHANGED snapshots
  PROVE  NoNewTurn
  BY DEF NoNewTurn, Waiting, SameTurn

\* The agent loop.
LEMMA ExecuteKeepsTurns ==
  ASSUME TypeOK, LockInv, ConversationInv, TurnInv, NEW t \in Tasks, t \notin ConfirmTasks,
         Execute(t)
  PROVE  TurnInv'
<1> USE DEF OthersStand, Goto, SetState, locals, tables, FirstTurn, NotBegun, Thinking, Suspended
<1>0. /\ pc \in [Tasks -> Labels] /\ state \in [Tasks -> AgentState]
      /\ todo \in [Tasks -> SUBSET Calls] /\ state[t] \in AgentState
      /\ snapshots \subseteq AgentState
  BY DEF TypeOK, TaskType, TableType
<1>a. TaskCoherent(t) /\ TurnOf(t, pc[t], state[t])
  BY DEF ConversationInv, TurnInv
<1>b. state[t].iteration \in Nat /\ \A r \in Waiting : r.iteration \in Nat
  BY <1>0, AgentStateFields DEF Waiting
<1>1. CASE MaxIterationsReached(t) \/ LLMAnswers(t) \/ ExecutorFails(t)
  <2>1. state'[t].status \in Terminal /\ pc'[t] = "finalSave"
    BY <1>0, <1>1, MarkEndedFields
       DEF MaxIterationsReached, LLMAnswers, ExecutorFails, Return, ReturnLabel, Terminal
  <2>2. OthersStand(t) /\ UNCHANGED snapshots
    BY <1>0, <1>1 DEF MaxIterationsReached, LLMAnswers, ExecutorFails, Return
  <2>3. TurnOf(t, pc'[t], state'[t])
    BY <2>1 DEF TurnOf, Terminal
  <2>4. ~NotBegun(t)
    BY <1>1 DEF MaxIterationsReached, LLMAnswers, ExecutorFails
  <2> QED  BY <2>1, <2>2, <2>3, <2>4, NoRow, StepKeepsTurns
<1>2. CASE NextIteration(t)
  <2>1. state[t].iteration + 1 \in Nat
    BY <1>b
  <2>2. /\ state'[t].iteration = state[t].iteration + 1
        /\ state'[t].status = "running"
    BY <1>0, <1>2, <1>a, <2>1, IterationFields DEF NextIteration, TaskCoherent
  <2>3. /\ OthersStand(t) /\ UNCHANGED snapshots
        /\ pc[t] = "loop" /\ pc'[t] \in {"checkpoint", "llm"}
    BY <1>0, <1>2 DEF NextIteration
  <2>4. TurnOf(t, pc'[t], state'[t])
    BY <1>a, <1>b, <2>2, <2>3 DEF TurnOf
  <2> QED  BY <2>3, <2>4, NoRow, StepKeepsTurns
<1>3. CASE Checkpoint(t)
  <2>1. OthersStand(t) /\ pc[t] = "checkpoint" /\ pc'[t] = "llm" /\ state'[t] = state[t]
    BY <1>0, <1>3 DEF Checkpoint
  <2>2. NoNewTurn
    BY <1>3, <2>1, KnownTurn DEF Checkpoint
  <2>3. TurnOf(t, pc'[t], state'[t])
    BY <1>a, <2>1 DEF TurnOf
  <2> QED  BY <2>1, <2>2, <2>3, StepKeepsTurns
<1>4. CASE LLMCallsTools(t)
  <2>1. PICK T \in SUBSET Calls : SetState(t, MarkWaitingTool(state[t], T))
    BY <1>4 DEF LLMCallsTools
  <2>2. state'[t].iteration = state[t].iteration
    BY <1>0, <2>1, IterationFields
  <2>3. /\ OthersStand(t) /\ UNCHANGED snapshots /\ pc[t] = "llm" /\ pc'[t] = "save"
    BY <1>0, <1>4, <2>1 DEF LLMCallsTools
  <2>4. TurnOf(t, pc'[t], state'[t])
    BY <1>a, <2>2, <2>3 DEF TurnOf
  <2> QED  BY <2>3, <2>4, NoRow, StepKeepsTurns
<1>5. CASE StreamEndsEarly(t)
  <2>1. /\ OthersStand(t) /\ pc[t] = "llm" /\ pc'[t] = "loop" /\ state'[t] = state[t]
        /\ UNCHANGED snapshots
    BY <1>0, <1>5 DEF StreamEndsEarly
  <2>2. TurnOf(t, pc'[t], state'[t])
    BY <1>a, <2>1 DEF TurnOf
  <2> QED  BY <2>1, <2>2, NoRow, StepKeepsTurns
<1>6. CASE SaveWaiting(t)
  BY <1>6, SaveKeepsTurns
<1>7. CASE UpdateWaiting(t) \/ DispatchTool(t)
  <2>1. \E l \in {"dispatch", "resave", "finalSave"} : Goto(t, l)
    <3>1. CASE UpdateWaiting(t)
      BY <3>1 DEF UpdateWaiting
    <3>2. CASE DispatchTool(t)
      <4>1. PICK c \in todo[t] :
              Goto(t, IF todo[t] = {c} THEN ReturnLabel(t, state[t]) ELSE "dispatch")
        BY <3>2 DEF DispatchTool
      <4> QED  BY <4>1 DEF ReturnLabel
    <3> QED  BY <1>7, <3>1, <3>2
  <2>2. \A u \in Tasks \ {t} : todo'[u] = todo[u]
    BY <1>0, <1>7 DEF UpdateWaiting, DispatchTool
  <2>3. /\ pc[t] \in {"update", "dispatch"} /\ pc'[t] \in {"dispatch", "resave", "finalSave"}
        /\ state'[t] = state[t] /\ UNCHANGED <<state, msg, snapshots>>
    BY <1>0, <1>7, <2>1 DEF UpdateWaiting, DispatchTool
  <2>4. OthersStand(t)
    BY <1>0, <2>1, <2>2, <2>3
  <2>5. TurnOf(t, pc'[t], state'[t])
    BY <1>a, <2>3 DEF TurnOf
  <2> QED  BY <2>3, <2>4, <2>5, NoRow, StepKeepsTurns
<1> QED  BY <1>1, <1>2, <1>3, <1>4, <1>5, <1>6, <1>7 DEF Execute

\* A task at rest, or at the end of a handler, only remembers the turn it is in.
LEMMA AwayKeepsTurns ==
  ASSUME TurnInv, NEW t \in Tasks, OthersStand(t), NoNewTurn,
         pc[t] # "save", pc'[t] \notin {"ready"} \cup Thinking \cup Suspended,
         \/ state'[t] = state[t]
         \/ state'[t] = NewState
         \/ state'[t] \in snapshots,
         t \in ResumeTasks => pc'[t] \in {"idle", "load", "release"} \/ ~NotBegun(t)
  PROVE  TurnInv'
<1>1. TurnOf(t, pc[t], state[t])
  BY DEF TurnInv
<1>2. \A s \in Waiting : SameTurn(s, s)
  BY DEF SameTurn
<1>3. TurnOf(t, pc'[t], state'[t])
  BY <1>1, <1>2 DEF TurnOf, NewState, Waiting
<1> QED  BY <1>3, StepKeepsTurns DEF FirstTurn

\* The end of a handler.
LEMMA EndKeepsTurns ==
  ASSUME TypeOK, TurnInv, NEW t \in Tasks,
         FinalSave(t) \/ FinalUpdate(t) \/ HandlerFails(t) \/ Release(t),
         t \in ConfirmTasks => pc[t] # "ready"
  PROVE  TurnInv'
<1> USE DEF OthersStand, Goto, locals, tables, NotBegun, Thinking, Suspended
<1>0. pc \in [Tasks -> Labels] /\ state \in [Tasks -> AgentState] /\ todo \in [Tasks -> SUBSET Calls]
  BY DEF TypeOK, TaskType
<1>1. OthersStand(t)
  BY <1>0 DEF FinalSave, FinalUpdate, HandlerFails, Release, Forget
<1>2. state'[t] = state[t] \/ state'[t] = NewState
  BY <1>0 DEF FinalSave, FinalUpdate, HandlerFails, Release, Forget
<1>3. NoNewTurn
  BY NoRow, KnownTurn DEF FinalSave, FinalUpdate, HandlerFails, Release
<1>4. pc[t] # "save" /\ pc'[t] \in {"finalUpdate", "done", "release", "idle"}
  BY <1>0 DEF FinalSave, FinalUpdate, HandlerFails, Release
<1>5. t \in ResumeTasks => pc'[t] \in {"idle", "load", "release"} \/ ~NotBegun(t)
  BY <1>0, TasksAssumption DEF FinalSave, FinalUpdate, HandlerFails, Release, LockTasks
<1> QED  BY <1>1, <1>2, <1>3, <1>4, <1>5, AwayKeepsTurns

\* ResumeHandler resumes the latest snapshot, so no suspended one is ahead of it.
LEMMA ResumeKeepsTurns ==
  ASSUME TypeOK, LockInv, ConversationInv, TurnInv, NEW t \in ResumeTasks, Resume(t)
  PROVE  TurnInv'
<1> USE DEF OthersStand, Goto, SetState, locals, tables, NotBegun, Thinking, Suspended
<1>0. /\ t \in Tasks /\ t # JobTask /\ t \notin ConfirmTasks
      /\ pc \in [Tasks -> Labels] /\ state \in [Tasks -> AgentState]
      /\ todo \in [Tasks -> SUBSET Calls] /\ state[t] \in AgentState
      /\ snapshots \subseteq AgentState
  BY TasksAssumption DEF TypeOK, TaskType, TableType, Tasks, LockTasks
<1>a. TaskCoherent(t) /\ TurnOf(t, pc[t], state[t])
  BY <1>0 DEF ConversationInv, TurnInv
<1>1. CASE TakeSignal(t) \/ NothingToResume(t) \/ NothingNew(t) \/ StopResuming(t)
           \/ PersistPartial(t)
  <2>1. OthersStand(t) /\ state'[t] = state[t] /\ pc[t] # "save"
    BY <1>0, <1>1 DEF TakeSignal, NothingToResume, NothingNew, StopResuming, PersistPartial,
       Fetched
  <2>2. NoNewTurn
    BY <1>0, <1>1, NoRow, KnownTurn DEF TakeSignal, NothingToResume, NothingNew, StopResuming,
       PersistPartial
  <2>3. /\ pc'[t] \in {"idle", "load", "release", "finalSave"}
        /\ pc'[t] = "finalSave" => pc[t] = "fetch"
    BY <1>0, <1>1 DEF TakeSignal, NothingToResume, NothingNew, StopResuming, PersistPartial,
       Fetched
  <2> QED  BY <1>0, <2>1, <2>2, <2>3, AwayKeepsTurns
<1>2. CASE LoadForResume(t)
  <2>1. PICK s \in LatestSnapshots : s.status = "waiting_tool" /\ SetState(t, s)
    BY <1>2 DEF LoadForResume
  <2>2. /\ s \in Waiting /\ SameTurn(s, s)
        /\ \A r \in Waiting : r.iteration <= s.iteration
    BY <2>1 DEF LatestSnapshots, Waiting, SameTurn
  <2>3. OthersStand(t) /\ pc'[t] = "fetch" /\ state'[t] = s /\ UNCHANGED snapshots
    BY <1>0, <1>2, <2>1 DEF LoadForResume
  <2>4. TurnOf(t, pc'[t], state'[t])
    BY <2>1, <2>2, <2>3 DEF TurnOf
  <2> QED  BY <1>0, <2>2, <2>3, <2>4, NoRow, StepKeepsTurns
<1>3. CASE FetchResult(t)
  <2>1. /\ OthersStand(t) /\ pc[t] = "fetch" /\ pc'[t] = "fetch" /\ state'[t] = state[t]
        /\ UNCHANGED snapshots
    BY <1>0, <1>3 DEF FetchResult
  <2> QED  BY <1>0, <1>a, <2>1, NoRow, StepKeepsTurns
<1>4. CASE EmitPartialResults(t)
  <2> DEFINE S == state[t].shown \cup (fetched[t] \ state[t].shown)
  <2>1. S \in SUBSET Calls
    BY <1>0, AgentStateFields DEF TypeOK, TaskType
  <2>2. state'[t] = [state[t] EXCEPT !.shown = S]
    BY <1>0, <1>4 DEF EmitPartialResults, MarkShown
  <2>3. /\ state'[t].iteration = state[t].iteration
        /\ state'[t].status = state[t].status
        /\ state'[t].answered = state[t].answered
        /\ state'[t].pending = state[t].pending
    <3> HIDE DEF S
    <3> QED  BY <1>0, <2>1, <2>2, IterationFields
  <2>4. /\ OthersStand(t) /\ pc[t] = "fetch" /\ pc'[t] = "persist" /\ UNCHANGED snapshots
    BY <1>0, <1>4 DEF EmitPartialResults, MarkShown, Fetched
  <2>5. TurnOf(t, pc'[t], state'[t])
    BY <1>a, <2>3, <2>4 DEF TurnOf, SameTurn
  <2> QED  BY <1>0, <2>4, <2>5, NoRow, StepKeepsTurns
<1>5. CASE ResumeFromSnapshot(t)
  <2>1. state'[t].iteration = state[t].iteration /\ state'[t].status = "running"
    BY <1>0, <1>5, IterationFields, InjectResultsFields DEF ResumeFromSnapshot
  <2>2. /\ OthersStand(t) /\ pc[t] = "fetch" /\ pc'[t] = "loop" /\ UNCHANGED snapshots
    BY <1>0, <1>5 DEF ResumeFromSnapshot, Fetched
  <2>3. TurnOf(t, pc'[t], state'[t])
    BY <1>a, <2>1, <2>2 DEF TurnOf
  <2> QED  BY <1>0, <2>2, <2>3, NoRow, StepKeepsTurns
<1>6. CASE SaveAndRecheck(t)
  <2>1. /\ OthersStand(t) /\ pc[t] = "resave" /\ pc'[t] = "fetch" /\ state'[t] = state[t]
    BY <1>0, <1>6 DEF SaveAndRecheck
  <2>2. NoNewTurn
    BY <1>0, <1>6, <2>1, KnownTurn DEF SaveAndRecheck
  <2>3. TurnOf(t, pc'[t], state'[t])
    BY <1>a, <2>1 DEF TurnOf
  <2> QED  BY <1>0, <2>1, <2>2, <2>3, StepKeepsTurns
<1> QED  BY <1>0, <1>1, <1>2, <1>3, <1>4, <1>5, <1>6, ExecuteKeepsTurns, EndKeepsTurns
         DEF Resume

\* ConfirmHandler saves nothing.
LEMMA ConfirmKeepsTurns ==
  ASSUME TypeOK, TurnInv, NEW t \in ConfirmTasks, pc[t] \notin {"ready", "save"}, Confirm(t)
  PROVE  TurnInv'
<1> USE DEF OthersStand, Goto, SetState, locals, tables, Thinking, Suspended
<1>0. /\ t \in Tasks /\ t \notin ResumeTasks
      /\ pc \in [Tasks -> Labels] /\ state \in [Tasks -> AgentState]
      /\ msg \in [ConfirmTasks -> Decisions \cup {None}]
  BY TasksAssumption DEF TypeOK, TaskType, Tasks, LockTasks
<1>1. CASE TakeDecision(t)
  <2>1. OthersStand(t) /\ pc'[t] \in {"idle", "load"}
    <3>1. pc[t] = "idle" /\ (Goto(t, "load") \/ UNCHANGED pc)
      BY <1>1 DEF TakeDecision
    <3>2. \A u \in ConfirmTasks \ {t} : msg'[u] = msg[u]
      BY <1>0, <1>1 DEF TakeDecision
    <3> QED  BY <1>0, <1>1, <3>1, <3>2 DEF TakeDecision
  <2>2. NoNewTurn /\ state'[t] = state[t]
    BY <1>1, NoRow DEF TakeDecision
  <2> QED  BY <1>0, <2>1, <2>2, AwayKeepsTurns
<1>2. CASE LoadForConfirm(t)
  <2>1. PICK s \in LatestSnapshots : SetState(t, s)
    BY <1>2 DEF LoadForConfirm
  <2>2. OthersStand(t) /\ pc'[t] = "answer" /\ state'[t] \in snapshots /\ NoNewTurn
    BY <1>0, <1>2, <2>1, NoRow, LatestType DEF LoadForConfirm
  <2> QED  BY <1>0, <2>2, AwayKeepsTurns
<1>3. CASE NothingToConfirm(t) \/ ForwardConfirmed(t) \/ StoreRejection(t) \/ SignalRejection(t)
  <2>1. /\ OthersStand(t) /\ pc'[t] \in {"release", "signal"} /\ state'[t] = state[t]
        /\ NoNewTurn
    BY <1>0, <1>3, NoRow DEF NothingToConfirm, ForwardConfirmed, StoreRejection, SignalRejection
  <2> QED  BY <1>0, <2>1, AwayKeepsTurns
<1> QED  BY <1>0, <1>1, <1>2, <1>3, EndKeepsTurns DEF Confirm

\* A confirm task is in ConfirmHandler.
ConfirmInv == \A t \in ConfirmTasks : pc[t] \in {"idle", "load", "answer", "signal", "release"}

\* No step takes a confirm task elsewhere.
LEMMA NextKeepsConfirm ==
  ASSUME TypeOK, ConfirmInv, [Next]_vars
  PROVE  ConfirmInv'
<1> USE DEF Goto, ConfirmInv
<1>0. /\ pc \in [Tasks -> Labels] /\ ConfirmTasks \subseteq Tasks
      /\ JobTask \notin ConfirmTasks /\ ResumeTasks \cap ConfirmTasks = {}
      /\ ResumeTasks \subseteq Tasks /\ JobTask \in Tasks
  BY TasksAssumption DEF TypeOK, TaskType, Tasks, LockTasks
<1>1. ASSUME NEW t \in Tasks \ ConfirmTasks, NEW l, Goto(t, l)
      PROVE  ConfirmInv'
  BY <1>0, <1>1
<1>2. ASSUME NEW t \in Tasks \ ConfirmTasks,
             Execute(t) \/ FinalSave(t) \/ FinalUpdate(t) \/ HandlerFails(t) \/ Release(t)
      PROVE  ConfirmInv'
  <2>1. CASE DispatchTool(t)
    <3>1. PICK c \in todo[t] :
            Goto(t, IF todo[t] = {c} THEN ReturnLabel(t, state[t]) ELSE "dispatch")
      BY <2>1 DEF DispatchTool
    <3> HIDE DEF Goto
    <3> QED  BY <1>1, <3>1
  <2>2. CASE ~DispatchTool(t)
    <3>1. \A u \in Tasks \ {t} : pc'[u] = pc[u]
      BY <1>0, <1>2, <2>2 DEF Execute, MaxIterationsReached, NextIteration, Checkpoint, LLMCallsTools,
         LLMAnswers, StreamEndsEarly, SaveWaiting, UpdateWaiting, ExecutorFails, Return,
         FinalSave, FinalUpdate, HandlerFails, Release
    <3> QED  BY <1>0, <3>1
  <2> QED  BY <2>1, <2>2
<1>3. ASSUME NEW t \in ResumeTasks, Resume(t)
      PROVE  ConfirmInv'
  <2>1. CASE Execute(t) \/ FinalSave(t) \/ FinalUpdate(t) \/ HandlerFails(t) \/ Release(t)
    BY <1>0, <1>2, <2>1
  <2>2. CASE ~(Execute(t) \/ FinalSave(t) \/ FinalUpdate(t) \/ HandlerFails(t) \/ Release(t))
    <3>1. \A u \in Tasks \ {t} : pc'[u] = pc[u]
      BY <1>0, <1>3, <2>2 DEF Resume, TakeSignal, LoadForResume, NothingToResume, FetchResult,
         EmitPartialResults, PersistPartial, NothingNew, ResumeFromSnapshot, SaveAndRecheck,
         StopResuming
    <3> QED  BY <1>0, <3>1
  <2> QED  BY <2>1, <2>2
<1>4. ASSUME NEW t \in ConfirmTasks, Confirm(t)
      PROVE  ConfirmInv'
  <2>1. /\ \A u \in Tasks \ {t} : pc'[u] = pc[u]
        /\ pc'[t] \in {"idle", "load", "answer", "signal", "release"}
    BY <1>0, <1>4 DEF Confirm, TakeDecision, LoadForConfirm, NothingToConfirm, ForwardConfirmed,
       StoreRejection, SignalRejection, HandlerFails, Release
  <2> QED  BY <1>0, <2>1
<1>5. ASSUME Crash  PROVE ConfirmInv'
  <2>1. \A u \in ConfirmTasks : pc'[u] = pc[u] \/ pc'[u] = "idle"
    BY <1>0, <1>5 DEF Crash
  <2> QED  BY <2>1
<1>6. ASSUME StartJob  PROVE ConfirmInv'
  BY <1>0, <1>6 DEF StartJob
<1>7. ASSUME \/ \E c \in Calls : \/ RunTool(c) \/ SendSignal(c) \/ SignalFails(c)
                                 \/ StoreFails(c) \/ WorkerCrash(c) \/ ExpireResult(c)
             \/ \E c \in Calls, b \in BOOLEAN : Decide(c, b)
             \/ ExpireLock \/ OutliveLock
             \/ UNCHANGED vars
      PROVE  ConfirmInv'
  BY <1>7 DEF RunTool, SendSignal, SignalFails, StoreFails, WorkerCrash, ExpireResult, Decide,
     ExpireLock, OutliveLock, vars
<1> QED  BY <1>0, <1>2, <1>3, <1>4, <1>5, <1>6, <1>7 DEF Next, Job

\* A crash saves nothing; the tasks it hits start over.
LEMMA CrashKeepsTurns ==
  ASSUME TurnInv, Crash, HandledOnce
  PROVE  TurnInv'
<1>1. UNCHANGED snapshots
  BY DEF Crash, tables
<1>2. ASSUME NEW t \in Tasks
      PROVE  \/ pc'[t] = pc[t] /\ state'[t] = state[t]
             \/ pc'[t] \in {"idle", "ready", "done"} /\ state'[t] = NewState
  BY DEF Crash
<1>3. Waiting' = Waiting
  BY <1>1 DEF Waiting
<1>4. ASSUME NEW t \in Tasks  PROVE TurnOf(t, pc[t], state[t])'
  <2>1. TurnOf(t, pc[t], state[t])
    BY DEF TurnInv
  <2>2. TurnOf(t, pc'[t], state'[t])
    BY <1>2, <2>1 DEF TurnOf, NewState, Thinking, Suspended
  <2> QED  BY <1>3, <2>2 DEF TurnOf
<1>5. FirstTurn' => NothingSuspended'
  <2> SUFFICES ASSUME FirstTurn'  PROVE NothingSuspended'
    OBVIOUS
  <2>1. JobTask \in Tasks /\ ResumeTasks \subseteq Tasks /\ JobTask \notin ResumeTasks
    BY TasksAssumption DEF Tasks, LockTasks
  <2>2. FirstTurn \/ Waiting = {}
    BY <1>2, <2>1 DEF FirstTurn, HandledOnce, Thinking
  <2>3. NothingSuspended
    BY <2>2 DEF TurnInv, NothingSuspended, BegunOnRow
  <2>4. \A u \in ResumeTasks : pc'[u] = pc[u] \/ pc'[u] = "idle"
    BY <2>1 DEF Crash
  <2> QED  BY <1>3, <2>3, <2>4 DEF NothingSuspended, NotBegun
<1>6. BegunOnRow'
  <2>0. JobTask \in Tasks /\ ResumeTasks \subseteq Tasks /\ JobTask \notin ResumeTasks
    BY TasksAssumption DEF Tasks, LockTasks
  <2>1. \A u \in ResumeTasks : pc'[u] = pc[u] \/ pc'[u] = "idle"
    BY <2>0 DEF Crash
  <2> QED  BY <1>3, <2>1 DEF TurnInv, BegunOnRow, NotBegun
<1> QED  BY <1>1, <1>4, <1>5, <1>6 DEF TurnInv, OneTurnPerNumber

\* Every step keeps the turns apart.
LEMMA NextKeepsTurns ==
  ASSUME TypeOK, LockInv, ConversationInv, ConfirmInv, TurnInv, HandledOnce, [Next]_vars
  PROVE  TurnInv'
<1>0. /\ JobTask \in Tasks /\ JobTask \notin ConfirmTasks /\ JobTask \notin ResumeTasks
  BY TasksAssumption DEF Tasks, LockTasks
<1>1. CASE StartJob
  <2>1. /\ OthersStand(JobTask) /\ UNCHANGED snapshots
        /\ pc[JobTask] = "ready" /\ pc'[JobTask] = "loop"
        /\ state'[JobTask].status = "running"
    BY <1>0, <1>1 DEF StartJob, OthersStand, Goto, NewState, TypeOK, TaskType
  <2>2. FirstTurn /\ Waiting = {}
    BY <2>1 DEF FirstTurn, TurnInv, NothingSuspended
  <2>3. TurnOf(JobTask, pc'[JobTask], state'[JobTask])
    BY <1>0, <2>1, <2>2 DEF TurnOf
  <2> QED  BY <1>0, <2>1, <2>2, <2>3, NoRow, StepKeepsTurns
<1>2. CASE Job /\ ~StartJob
  BY <1>0, <1>2, ExecuteKeepsTurns, EndKeepsTurns DEF Job
<1>3. CASE \E t \in ResumeTasks : Resume(t)
  BY <1>3, ResumeKeepsTurns
<1>4. CASE \E t \in ConfirmTasks : Confirm(t)
  BY <1>4, ConfirmKeepsTurns DEF ConfirmInv
<1>5. CASE \/ \E c \in Calls : \/ RunTool(c) \/ SendSignal(c) \/ SignalFails(c)
                               \/ StoreFails(c) \/ WorkerCrash(c) \/ ExpireResult(c)
           \/ \E c \in Calls, b \in BOOLEAN : Decide(c, b)
           \/ ExpireLock \/ OutliveLock
           \/ UNCHANGED vars
  <2>1. UNCHANGED <<pc, state, snapshots>>
    BY <1>5 DEF RunTool, SendSignal, SignalFails, StoreFails, WorkerCrash, ExpireResult, Decide,
       ExpireLock, OutliveLock, vars, locals, tables
  <2> QED  BY <2>1 DEF TurnInv, OneTurnPerNumber, TurnOf, Waiting, FirstTurn,
           NothingSuspended, BegunOnRow, NotBegun
<1> QED  BY <1>1, <1>2, <1>3, <1>4, <1>5, CrashKeepsTurns DEF Next

\* Confirm tasks stay in ConfirmHandler.
LEMMA ConfirmInvariant == Spec => []ConfirmInv
<1>1. Init => ConfirmInv
  BY TasksAssumption DEF Init, ConfirmInv, Tasks, LockTasks
<1> QED  BY <1>1, TypeCorrect, NextKeepsConfirm, PTL DEF Spec

\* The job message is handled again after a crash only.
LEMMA OnlyCrashHandlesAgain ==
  ASSUME TypeOK, [Next]_vars
  PROVE  Crash \/ HandledOnce
<1> USE DEF Goto
<1>0. /\ pc \in [Tasks -> Labels] /\ JobTask \in Tasks
      /\ \A t \in ResumeTasks \cup ConfirmTasks : t \in Tasks /\ t # JobTask
  BY TasksAssumption DEF TypeOK, TaskType, Tasks, LockTasks
<1>1. ASSUME NEW t \in Tasks, NEW l, l # "ready", Goto(t, l)
      PROVE  HandledOnce
  BY <1>0, <1>1 DEF HandledOnce
<1>2. ASSUME NEW t \in Tasks, UNCHANGED pc
      PROVE  HandledOnce
  BY <1>2 DEF HandledOnce
<1>3. ASSUME NEW t \in Tasks,
             Execute(t) \/ FinalSave(t) \/ FinalUpdate(t) \/ HandlerFails(t) \/ Release(t)
      PROVE  HandledOnce
  <2>1. CASE DispatchTool(t)
    <3>1. PICK c \in todo[t] :
            Goto(t, IF todo[t] = {c} THEN ReturnLabel(t, state[t]) ELSE "dispatch")
      BY <2>1 DEF DispatchTool
    <3>2. (IF todo[t] = {c} THEN ReturnLabel(t, state[t]) ELSE "dispatch") # "ready"
      BY DEF ReturnLabel
    <3> HIDE DEF Goto
    <3> QED  BY <1>1, <3>1, <3>2
  <2>2. CASE ~DispatchTool(t)
    BY <1>0, <1>3, <2>2 DEF HandledOnce, Execute, MaxIterationsReached, NextIteration, Checkpoint,
       LLMCallsTools, LLMAnswers, StreamEndsEarly, SaveWaiting, UpdateWaiting, ExecutorFails,
       Return, ReturnLabel, FinalSave, FinalUpdate, HandlerFails, Release
  <2> QED  BY <2>1, <2>2
<1>4. ASSUME NEW t \in ResumeTasks, Resume(t)
      PROVE  HandledOnce
  <2>1. CASE Execute(t) \/ FinalSave(t) \/ FinalUpdate(t) \/ HandlerFails(t) \/ Release(t)
    BY <1>0, <1>3, <2>1
  <2>2. CASE ~(Execute(t) \/ FinalSave(t) \/ FinalUpdate(t) \/ HandlerFails(t) \/ Release(t))
    BY <1>0, <1>4, <2>2 DEF HandledOnce, Resume, TakeSignal, LoadForResume, NothingToResume,
       FetchResult, EmitPartialResults, PersistPartial, NothingNew, ResumeFromSnapshot,
       SaveAndRecheck, StopResuming
  <2> QED  BY <2>1, <2>2
<1>5. ASSUME NEW t \in ConfirmTasks, Confirm(t)
      PROVE  HandledOnce
  BY <1>0, <1>5 DEF HandledOnce, Confirm, TakeDecision, LoadForConfirm, NothingToConfirm,
     ForwardConfirmed, StoreRejection, SignalRejection, HandlerFails, Release
<1>6. ASSUME StartJob  PROVE HandledOnce
  BY <1>0, <1>6 DEF StartJob, HandledOnce
<1>7. ASSUME \/ \E c \in Calls : \/ RunTool(c) \/ SendSignal(c) \/ SignalFails(c)
                                 \/ StoreFails(c) \/ WorkerCrash(c) \/ ExpireResult(c)
             \/ \E c \in Calls, b \in BOOLEAN : Decide(c, b)
             \/ ExpireLock \/ OutliveLock
             \/ UNCHANGED vars
      PROVE  HandledOnce
  BY <1>7 DEF RunTool, SendSignal, SignalFails, StoreFails, WorkerCrash, ExpireResult, Decide,
     ExpireLock, OutliveLock, vars, HandledOnce
<1> QED  BY <1>0, <1>3, <1>4, <1>5, <1>6, <1>7 DEF Next, Job

\* And so is what tells.
LEMMA OnlyCrashTellsAgain ==
  ASSUME [Next]_vars
  PROVE  Crash \/ UNCHANGED handledAgain
<1> USE DEF history
<1>1. ASSUME NEW t \in Tasks,
             Execute(t) \/ FinalSave(t) \/ FinalUpdate(t) \/ HandlerFails(t) \/ Release(t)
      PROVE  UNCHANGED handledAgain
  BY <1>1 DEF Execute, MaxIterationsReached, NextIteration, Checkpoint, LLMCallsTools,
     LLMAnswers, StreamEndsEarly, SaveWaiting, UpdateWaiting, DispatchTool, ExecutorFails,
     FinalSave, FinalUpdate, HandlerFails, Release
<1>2. ASSUME NEW t \in Tasks,
             \/ TakeSignal(t) \/ LoadForResume(t) \/ NothingToResume(t) \/ FetchResult(t)
             \/ EmitPartialResults(t) \/ PersistPartial(t) \/ NothingNew(t)
             \/ ResumeFromSnapshot(t) \/ SaveAndRecheck(t) \/ StopResuming(t)
      PROVE  UNCHANGED handledAgain
  BY <1>2 DEF TakeSignal, LoadForResume, NothingToResume, FetchResult, EmitPartialResults,
     PersistPartial, NothingNew, ResumeFromSnapshot, SaveAndRecheck, StopResuming
<1>3. ASSUME NEW t \in Tasks,
             \/ TakeDecision(t) \/ LoadForConfirm(t) \/ NothingToConfirm(t)
             \/ ForwardConfirmed(t) \/ StoreRejection(t) \/ SignalRejection(t)
      PROVE  UNCHANGED handledAgain
  BY <1>3 DEF TakeDecision, LoadForConfirm, NothingToConfirm, ForwardConfirmed,
     StoreRejection, SignalRejection
<1>4. ASSUME \/ StartJob
             \/ \E c \in Calls : \/ RunTool(c) \/ SendSignal(c) \/ SignalFails(c)
                                 \/ StoreFails(c) \/ WorkerCrash(c) \/ ExpireResult(c)
             \/ \E c \in Calls, b \in BOOLEAN : Decide(c, b)
             \/ ExpireLock \/ OutliveLock
             \/ UNCHANGED vars
      PROVE  UNCHANGED handledAgain
  BY <1>4 DEF StartJob, RunTool, SendSignal, SignalFails, StoreFails, WorkerCrash,
     ExpireResult, Decide, ExpireLock, OutliveLock, vars
<1>5. ResumeTasks \subseteq Tasks /\ ConfirmTasks \subseteq Tasks /\ JobTask \in Tasks
  BY DEF Tasks, LockTasks
<1> QED  BY <1>1, <1>2, <1>3, <1>4, <1>5 DEF Next, Job, Resume, Confirm

\* An orderly state follows an orderly one, and the job message did not come again.
LEMMA OrderlyStep ==
  ASSUME TypeOK, [Next]_vars, Orderly'
  PROVE  Orderly /\ HandledOnce
<1>1. expiries = 0
  <2>1. expiries' = expiries \/ expiries' = expiries + 1
    BY NextAndKey DEF KeyStays, KeyTaken, KeyDeleted, ExpireLock, OutliveLock, history
  <2> QED  BY <2>1 DEF Orderly, TypeOK, HistoryType
<1>2. CASE Crash
  <2>1. PICK G \in SUBSET {{JobTask}, ResumeTasks, ConfirmTasks} :
          LET D == {t \in UNION G : pc[t] \notin {"ready", "done", "idle"}}
          IN \E Back \in SUBSET D :
                /\ pc' = [t \in Tasks |->
                           IF t \notin D THEN pc[t]
                           ELSE IF t # JobTask THEN "idle"
                           ELSE IF t \in Back THEN "ready" ELSE "done"]
                /\ handledAgain' = (handledAgain \/ (JobTask \in Back /\ Waiting # {}))
    BY <1>2 DEF Crash
  <2>2. PICK Back :
          /\ pc'[JobTask] = "ready" => pc[JobTask] = "ready" \/ JobTask \in Back
          /\ handledAgain' = (handledAgain \/ (JobTask \in Back /\ Waiting # {}))
    BY <2>1 DEF Tasks
  <2> QED  BY <1>1, <2>2 DEF Orderly, HandledOnce
<1>3. CASE ~Crash
  BY <1>1, <1>3, OnlyCrashHandlesAgain, OnlyCrashTellsAgain DEF Orderly
<1> QED  BY <1>2, <1>3

\* Every step keeps the turns apart, as long as the state is orderly.
LEMMA StepKeepsTurnInv ==
  ASSUME TypeOK, expiries = 0 => LockInv, ConversationInv, ConfirmInv,
         Orderly => TurnInv, [Next]_vars, Orderly'
  PROVE  TurnInv'
<1>1. Orderly /\ HandledOnce
  BY OrderlyStep
<1>2. LockInv /\ TurnInv
  BY <1>1 DEF Orderly
<1> QED  BY <1>1, <1>2, NextKeepsTurns

\* Nothing is suspended at first.
LEMMA InitTurns == Init => TurnInv
<1> SUFFICES ASSUME Init  PROVE TurnInv
  OBVIOUS
<1>1. snapshots = {} /\ Waiting = {}
  BY DEF Init, Waiting
<1>2. ASSUME NEW t \in Tasks
      PROVE  pc[t] \in {"ready", "idle"} /\ state[t] = NewState
             /\ (t # JobTask => pc[t] = "idle")
  BY DEF Init
<1>3. \A t \in Tasks : TurnOf(t, pc[t], state[t])
  BY <1>2 DEF TurnOf, NewState, Thinking, Suspended
<1>4. NothingSuspended
  <2>1. \A t \in ResumeTasks : t \in Tasks /\ t # JobTask
    BY TasksAssumption DEF Tasks, LockTasks
  <2> QED  BY <1>1, <1>2, <2>1 DEF NothingSuspended, NotBegun
<1> QED  BY <1>1, <1>3, <1>4 DEF TurnInv, OneTurnPerNumber, NothingSuspended, BegunOnRow

\* Every task is ahead of the suspended snapshots or in the turn of one, and there
\* is nothing to resume before handle_job has saved its first: whatever fails, until
\* a handler outlives its lock or the job message is handled again after that.
THEOREM TurnInvariant == Spec => [](Orderly => TurnInv)
<1>1. Init => (Orderly => TurnInv)
  BY InitTurns
<1>2. TypeOK /\ (expiries = 0 => LockInv) /\ ConversationInv /\ ConfirmInv
      /\ (Orderly => TurnInv) /\ [Next]_vars => (Orderly => TurnInv)'
  BY StepKeepsTurnInv
<1> QED  BY <1>1, <1>2, TypeCorrect, LockInvariant, ConversationInvariant,
            ConfirmInvariant, PTL DEF Spec

\* Two suspended snapshots with one sequence number are of one turn, whatever fails,
\* until a handler outlives its lock or the job message is handled again once the job
\* was suspended: what load_latest_snapshot picks among them does not matter.
THEOREM SequenceNumberIdentifiesTurn == Spec => []SequenceIdentifiesTurn
<1>1. (Orderly => TurnInv) => SequenceIdentifiesTurn
  BY DEF TurnInv, OneTurnPerNumber, SequenceIdentifiesTurn, Waiting
<1> QED  BY <1>1, TurnInvariant, PTL

-----------------------------------------------------------------------------
(* The runs of the agent loop where nothing fails: one run at a time, each  *)
(* from the latest snapshot.                                               *)

FaultFree == MaxFailures = 0

\* Without a budget for faults, no step is one.
LEMMA NoFaults ==
  ASSUME TypeOK, FaultFree
  PROVE  /\ \A t \in Tasks : ~ExecutorFails(t) /\ ~HandlerFails(t)
         /\ \A c \in Calls : ~SignalFails(c) /\ ~StoreFails(c) /\ ~WorkerCrash(c)
         /\ ~OutliveLock /\ ~Crash
<1>1. ~(failures < MaxFailures)
  BY DEF TypeOK, HistoryType, FaultFree
<1> QED  BY <1>1 DEF ExecutorFails, HandlerFails, SignalFails, StoreFails, WorkerCrash,
            OutliveLock, Crash

\* Without faults every state is orderly.
LEMMA OrderlyWithoutFaults ==
  ASSUME FaultFree
  PROVE  Spec => []Orderly
<1>1. Init => Orderly
  BY DEF Init, Orderly
<1>2. ASSUME TypeOK, Orderly, [Next]_vars  PROVE Orderly'
  <2>1. ~OutliveLock /\ ~Crash
    BY <1>2, NoFaults
  <2>2. UNCHANGED expiries
    BY <1>2, <2>1, NextAndKey DEF KeyStays, KeyTaken, KeyDeleted, ExpireLock, history
  <2> QED  BY <1>2, <2>1, <2>2, OnlyCrashTellsAgain DEF Orderly
<1>3. TypeOK /\ Orderly /\ [Next]_vars => Orderly'
  BY <1>2
<1> QED  BY <1>1, <1>3, TypeCorrect, PTL DEF Spec

\* So who works has the key, and the turns stay apart.
LEMMA LockWithoutFaults ==
  ASSUME FaultFree
  PROVE  Spec => []LockInv
<1>1. Orderly /\ (expiries = 0 => LockInv) => LockInv
  BY DEF Orderly
<1> QED  BY <1>1, OrderlyWithoutFaults, LockInvariant, PTL

LEMMA TurnsWithoutFaults ==
  ASSUME FaultFree
  PROVE  Spec => []TurnInv
  BY OrderlyWithoutFaults, TurnInvariant, PTL

\* What the rows look like to a task u at label l with AgentState s: a resumed run is
\* not behind any row; no run starts another iteration of a job that has ended; and a
\* final state is ahead of every suspended row, unless MaxIterations was reached.
RunOf(u, l, s) ==
    /\ u \in ResumeTasks /\ l \in Thinking \cup Suspended
       => \A r \in snapshots : r.iteration <= s.iteration
    /\ l \in {"ready"} \cup Thinking /\ (l = "loop" => s.iteration < MaxIterations)
       => \A r \in snapshots : r.status \notin Terminal
    /\ l = "finalSave" /\ s.status \in Terminal
       => \A r \in Waiting : r.iteration < s.iteration \/ s.iteration >= MaxIterations

\* The job task has no suspended row to its name.
FirstRun == state[JobTask].status # "waiting_tool" \/ pc[JobTask] = "save"

EndsLast ==
    \A r \in snapshots, s \in Waiting :
        r.status \in Terminal => s.iteration < r.iteration \/ r.iteration >= MaxIterations

RunInv ==
    /\ FirstRun => NothingSuspended
    /\ \A u \in Tasks \ ConfirmTasks : RunOf(u, pc[u], state[u])
    /\ EndsLast

\* A step of t that saves no row.
LEMMA StepKeepsRuns ==
  ASSUME RunInv, NEW t \in Tasks, OthersStand(t), UNCHANGED snapshots,
         t \notin ConfirmTasks => RunOf(t, pc'[t], state'[t]),
         t = JobTask /\ FirstRun' => FirstRun,
         t \in ResumeTasks => pc'[t] \in {"idle", "load", "release"} \/ ~NotBegun(t)
                              \/ Waiting # {}
  PROVE  RunInv'
<1>1. Waiting' = Waiting
  BY DEF Waiting
<1>2. ASSUME NEW u \in Tasks \ ConfirmTasks
      PROVE  RunOf(u, pc[u], state[u])'
  <2>1. RunOf(u, pc'[u], state'[u])
    BY DEF RunInv, OthersStand
  <2> QED  BY <1>1, <2>1 DEF RunOf
<1>3. EndsLast'
  BY <1>1 DEF RunInv, EndsLast
<1>4. FirstRun' => NothingSuspended'
  <2> SUFFICES ASSUME FirstRun'  PROVE NothingSuspended'
    OBVIOUS
  <2>0. JobTask \in Tasks /\ ResumeTasks \subseteq Tasks /\ JobTask \notin ResumeTasks
    BY TasksAssumption DEF Tasks, LockTasks
  <2>1. FirstRun
    BY <2>0 DEF FirstRun, OthersStand
  <2>2. NothingSuspended
    BY <2>1 DEF RunInv
  <2>3. ASSUME NEW u \in ResumeTasks  PROVE NotBegun(u)'
    BY <2>0, <2>2 DEF NothingSuspended, NotBegun, OthersStand
  <2> QED  BY <1>1, <2>2, <2>3 DEF NothingSuspended
<1> QED  BY <1>2, <1>3, <1>4 DEF RunInv

\* When t saves a row that is not of a known turn, nobody else is in a run.
LEMMA AloneInRun ==
  ASSUME TypeOK, LockInv, RunInv, NEW t \in Tasks \ ConfirmTasks,
         t \in ResumeTasks => ~NotBegun(t), t = JobTask => FirstRun,
         NEW u \in Tasks \ ConfirmTasks, u # t
  PROVE  /\ u \in ResumeTasks => NotBegun(u)
         /\ u = JobTask => pc[u] # "save" /\ state[u].status = "waiting_tool"
<1>0. /\ t = JobTask \/ t \in ResumeTasks
      /\ u = JobTask \/ u \in ResumeTasks
      /\ JobTask \notin LockTasks /\ ResumeTasks \subseteq LockTasks
  BY TasksAssumption DEF Tasks, LockTasks
<1>1. CASE t = JobTask
  BY <1>0, <1>1 DEF RunInv, NothingSuspended
<1>2. CASE t \in ResumeTasks
  <2>1. ~FirstRun
    BY <1>2 DEF RunInv, NothingSuspended
  <2>2. u \in ResumeTasks => NotBegun(u)
    BY <1>0, <1>2, OneAtWork DEF NotBegun
  <2> QED  BY <1>0, <2>1, <2>2 DEF FirstRun
<1> QED  BY <1>0, <1>1, <1>2

\* t saves a row of a turn that was saved before.
LEMMA KnownRowKeepsRuns ==
  ASSUME TypeOK, TurnInv, RunInv, NEW t \in Tasks \ ConfirmTasks, OthersStand(t),
         SaveSnapshot(t), UNCHANGED state, state[t].status = "waiting_tool",
         pc[t] # "save", pc'[t] \notin {"ready"} \cup Thinking,
         t \in ResumeTasks /\ pc'[t] \in Suspended => pc[t] \in Suspended,
         t \in ResumeTasks => ~NotBegun(t)
  PROVE  RunInv'
<1>0. /\ t \in Tasks /\ JobTask \in Tasks /\ JobTask \notin ResumeTasks
      /\ snapshots \subseteq AgentState /\ state[t] \in AgentState
  BY TasksAssumption DEF Tasks, LockTasks, TypeOK, TaskType, TableType
<1>1. PICK w \in Waiting : SameTurn(w, state[t])
  BY <1>0 DEF TurnInv, TurnOf
<1>2. snapshots' = snapshots \cup {state[t]} /\ Waiting' = Waiting \cup {state[t]}
  BY DEF SaveSnapshot, Waiting
<1>3. /\ state[t].status \notin Terminal /\ state[t].iteration = w.iteration
      /\ w \in snapshots /\ w.iteration \in Nat
  BY <1>0, <1>1, AgentStateFields DEF Terminal, SameTurn, Waiting
<1>5. ASSUME NEW u \in Tasks \ ConfirmTasks
      PROVE  RunOf(u, pc[u], state[u])'
  <2>1. RunOf(u, pc[u], state[u])
    BY DEF RunInv
  <2>2. CASE u = t
    <3>1. \A r \in snapshots' : t \in ResumeTasks /\ pc'[t] \in Suspended
                                => r.iteration <= state[t].iteration
      BY <1>2, <1>3, <2>1, <2>2 DEF RunOf
    <3> QED  BY <1>3, <2>2, <3>1 DEF RunOf, Terminal
  <2>3. CASE u # t
    <3>1. pc'[u] = pc[u] /\ state'[u] = state[u]
      BY <2>3 DEF OthersStand
    <3>2. u \in ResumeTasks /\ pc[u] \in Thinking \cup Suspended
          => \A r \in snapshots' : r.iteration <= state[u].iteration
      BY <1>2, <1>3, <2>1 DEF RunOf
    <3>3. pc[u] \in {"ready"} \cup Thinking
          /\ (pc[u] = "loop" => state[u].iteration < MaxIterations)
          => \A r \in snapshots' : r.status \notin Terminal
      BY <1>2, <1>3, <2>1 DEF RunOf
    <3>4. pc[u] = "finalSave" /\ state[u].status \in Terminal
          => \A r \in Waiting' :
               r.iteration < state[u].iteration \/ state[u].iteration >= MaxIterations
      BY <1>1, <1>2, <1>3, <2>1 DEF RunOf
    <3> QED  BY <3>1, <3>2, <3>3, <3>4 DEF RunOf
  <2> QED  BY <2>2, <2>3
<1>6. EndsLast'
  BY <1>1, <1>2, <1>3 DEF RunInv, EndsLast
<1>7. ~FirstRun'
  <2>1. CASE t = JobTask
    BY <2>1 DEF FirstRun, Thinking
  <2>2. CASE t # JobTask
    <3>1. ~FirstRun
      <4>1. t \in ResumeTasks
        BY <1>0, <2>2 DEF Tasks, LockTasks
      <4> QED  BY <4>1 DEF RunInv, NothingSuspended
    <3> QED  BY <1>0, <2>2, <3>1 DEF FirstRun, OthersStand
  <2> QED  BY <2>1, <2>2
<1> QED  BY <1>5, <1>6, <1>7 DEF RunInv

\* t saves any other row: it is the only one in a run.
LEMMA NewRowKeepsRuns ==
  ASSUME TypeOK, LockInv, TurnInv, RunInv, NEW t \in Tasks \ ConfirmTasks, OthersStand(t),
         SaveSnapshot(t), UNCHANGED state, FirstRun \/ t # JobTask,
         t \in ResumeTasks => ~NotBegun(t),
         RunOf(t, pc[t], state[t])', EndsLast',
         t = JobTask => state[t].status # "waiting_tool" \/ ~FirstRun'
  PROVE  RunInv'
<1>0. /\ t \in Tasks /\ JobTask \in Tasks /\ JobTask \notin ResumeTasks
      /\ JobTask \notin ConfirmTasks /\ ResumeTasks \cap ConfirmTasks = {}
      /\ ResumeTasks \subseteq Tasks
  BY TasksAssumption DEF Tasks, LockTasks
<1>1. ASSUME NEW u \in Tasks \ ConfirmTasks, u # t
      PROVE  RunOf(u, pc[u], state[u])'
  <2>1. /\ u \in ResumeTasks => NotBegun(u)
        /\ u = JobTask => pc[u] # "save" /\ state[u].status = "waiting_tool"
    BY <1>1, AloneInRun
  <2>2. pc'[u] = pc[u] /\ state'[u] = state[u]
    BY <1>1 DEF OthersStand
  <2>3. u \in ResumeTasks \/ u = JobTask
    BY DEF Tasks, LockTasks
  <2>4. CASE u \in ResumeTasks
    BY <2>1, <2>2, <2>4 DEF RunOf, NotBegun, Thinking, Suspended
  <2>5. CASE u = JobTask
    <3>1. t \in ResumeTasks
      BY <1>0, <1>1, <2>5 DEF Tasks, LockTasks
    <3>2. pc[u] \notin {"ready"} \cup Thinking
      BY <2>5, <3>1 DEF TurnInv, NothingSuspended, FirstTurn
    <3> QED  BY <1>0, <2>1, <2>2, <2>5, <3>2 DEF RunOf, Terminal
  <2> QED  BY <2>3, <2>4, <2>5
<1>2. FirstRun' => NothingSuspended'
  <2> SUFFICES ASSUME FirstRun'  PROVE NothingSuspended'
    OBVIOUS
  <2>1. CASE t = JobTask
    <3>1. state[t].status # "waiting_tool" /\ NothingSuspended
      BY <2>1 DEF RunInv
    <3>2. Waiting' = Waiting
      BY <3>1 DEF Waiting, SaveSnapshot
    <3>3. \A u \in ResumeTasks : u \in Tasks \ {t} /\ pc'[u] = pc[u]
      BY <1>0, <2>1 DEF OthersStand
    <3> QED  BY <3>1, <3>2, <3>3 DEF NothingSuspended, NotBegun
  <2>2. CASE t # JobTask
    <3>1. t \in ResumeTasks
      BY <1>0, <2>2 DEF Tasks, LockTasks
    <3>2. ~FirstRun
      BY <3>1 DEF RunInv, NothingSuspended
    <3> QED  BY <1>0, <2>2, <3>2 DEF FirstRun, OthersStand
  <2> QED  BY <2>1, <2>2
<1> QED  BY <1>1, <1>2 DEF RunInv

\* What holds of a run, for the layers above it.
RunsOK == TypeOK /\ LockInv /\ ConversationInv /\ ConfirmInv /\ TurnInv /\ RunInv

\* The agent loop.
LEMMA ExecuteKeepsRuns ==
  ASSUME RunsOK, NEW t \in Tasks \ ConfirmTasks, Execute(t), ~ExecutorFails(t)
  PROVE  RunInv'
<1> USE DEF OthersStand, Goto, SetState, locals, tables, NotBegun, Thinking, Suspended
<1>0. /\ t \in Tasks
      /\ pc \in [Tasks -> Labels] /\ state \in [Tasks -> AgentState]
      /\ todo \in [Tasks -> SUBSET Calls] /\ state[t] \in AgentState
      /\ snapshots \subseteq AgentState /\ MaxIterations \in Nat
  BY BoundsAssumption DEF RunsOK, TypeOK, TaskType, TableType
<1>a. TaskCoherent(t) /\ TurnOf(t, pc[t], state[t]) /\ RunOf(t, pc[t], state[t])
  BY DEF RunsOK, ConversationInv, TurnInv, RunInv
<1>b. state[t].iteration \in Nat /\ \A r \in snapshots : r.iteration \in Nat
  BY <1>0, AgentStateFields
<1>1. CASE MaxIterationsReached(t)
  <2>1. /\ state'[t].iteration = state[t].iteration
        /\ pc[t] = "loop" /\ pc'[t] = "finalSave" /\ state[t].iteration >= MaxIterations
    BY <1>0, <1>1, MarkEndedFields, IterationFields
       DEF MaxIterationsReached, Return, ReturnLabel
  <2>2. OthersStand(t) /\ UNCHANGED snapshots
    BY <1>0, <1>1 DEF MaxIterationsReached, Return
  <2>3. RunOf(t, pc'[t], state'[t])
    BY <2>1 DEF RunOf
  <2>4. FirstRun \/ t # JobTask
    BY <1>a, <2>1 DEF TaskCoherent, FirstRun
  <2> QED  BY <1>0, <2>1, <2>2, <2>3, <2>4, StepKeepsRuns DEF RunsOK
<1>2. CASE NextIteration(t)
  <2>1. state[t].iteration + 1 \in Nat
    BY <1>b
  <2>2. state'[t].iteration = state[t].iteration + 1
    BY <1>0, <1>2, <2>1, IterationFields DEF NextIteration
  <2>3. /\ OthersStand(t) /\ UNCHANGED snapshots
        /\ pc[t] = "loop" /\ pc'[t] \in {"checkpoint", "llm"}
        /\ state[t].iteration < MaxIterations
    BY <1>0, <1>2 DEF NextIteration
  <2>4. RunOf(t, pc'[t], state'[t])
    BY <1>a, <1>b, <2>2, <2>3 DEF RunOf
  <2>5. FirstRun \/ t # JobTask
    BY <1>a, <2>3 DEF TaskCoherent, FirstRun
  <2> QED  BY <1>0, <2>3, <2>4, <2>5, StepKeepsRuns DEF RunsOK
<1>3. CASE Checkpoint(t)
  <2>1. /\ OthersStand(t) /\ SaveSnapshot(t) /\ UNCHANGED state
        /\ pc[t] = "checkpoint" /\ pc'[t] = "llm"
    BY <1>0, <1>3 DEF Checkpoint
  <2>2. state[t].status = "running"
    BY <1>a, <2>1 DEF TaskCoherent
  <2>3. snapshots' = snapshots \cup {state[t]} /\ Waiting' = Waiting
    BY <2>1, <2>2 DEF SaveSnapshot, Waiting
  <2>4. RunOf(t, pc[t], state[t])'
    BY <1>a, <1>b, <2>1, <2>2, <2>3 DEF RunOf, Terminal
  <2>5. EndsLast'
    BY <2>2, <2>3 DEF RunsOK, RunInv, EndsLast, Terminal
  <2> QED  BY <1>0, <2>1, <2>2, <2>4, <2>5, NewRowKeepsRuns DEF RunsOK, FirstRun
<1>4. CASE LLMCallsTools(t)
  <2>1. PICK T \in SUBSET Calls : SetState(t, MarkWaitingTool(state[t], T))
    BY <1>4 DEF LLMCallsTools
  <2>2. state'[t].iteration = state[t].iteration
    BY <1>0, <2>1, IterationFields
  <2>3. /\ OthersStand(t) /\ UNCHANGED snapshots /\ pc[t] = "llm" /\ pc'[t] = "save"
    BY <1>0, <1>4, <2>1 DEF LLMCallsTools
  <2>4. RunOf(t, pc'[t], state'[t])
    BY <1>a, <2>2, <2>3 DEF RunOf
  <2>5. FirstRun \/ t # JobTask
    BY <1>a, <2>3 DEF TaskCoherent, FirstRun
  <2> QED  BY <1>0, <2>3, <2>4, <2>5, StepKeepsRuns DEF RunsOK
<1>5. CASE LLMAnswers(t)
  <2>1. /\ state'[t].iteration = state[t].iteration
        /\ pc[t] = "llm" /\ pc'[t] = "finalSave"
    BY <1>0, <1>5, MarkEndedFields, IterationFields DEF LLMAnswers, Return, ReturnLabel
  <2>2. OthersStand(t) /\ UNCHANGED snapshots
    BY <1>0, <1>5 DEF LLMAnswers, Return
  <2>3. \A r \in Waiting : r.iteration < state[t].iteration
    BY <1>a, <1>b, <2>1 DEF TurnOf, Waiting
  <2>4. RunOf(t, pc'[t], state'[t])
    BY <2>1, <2>3 DEF RunOf
  <2>5. FirstRun \/ t # JobTask
    BY <1>a, <2>1 DEF TaskCoherent, FirstRun
  <2> QED  BY <1>0, <2>1, <2>2, <2>4, <2>5, StepKeepsRuns DEF RunsOK
<1>6. CASE StreamEndsEarly(t)
  <2>1. /\ OthersStand(t) /\ pc[t] = "llm" /\ pc'[t] = "loop" /\ state'[t] = state[t]
        /\ UNCHANGED snapshots
    BY <1>0, <1>6 DEF StreamEndsEarly
  <2>2. RunOf(t, pc'[t], state'[t])
    BY <1>a, <2>1 DEF RunOf
  <2>3. FirstRun \/ t # JobTask
    BY <1>a, <2>1 DEF TaskCoherent, FirstRun
  <2> QED  BY <1>0, <2>1, <2>2, <2>3, StepKeepsRuns DEF RunsOK
<1>7. CASE SaveWaiting(t)
  <2>1. /\ OthersStand(t) /\ SaveSnapshot(t) /\ UNCHANGED state
        /\ pc[t] = "save" /\ pc'[t] = "update"
    BY <1>0, <1>7 DEF SaveWaiting
  <2>2. state[t].status = "waiting_tool"
    BY <1>a, <2>1 DEF TaskCoherent
  <2>3. snapshots' = snapshots \cup {state[t]} /\ Waiting' = Waiting \cup {state[t]}
    BY <2>1, <2>2 DEF SaveSnapshot, Waiting
  <2>4. RunOf(t, pc[t], state[t])'
    BY <1>a, <1>b, <2>1, <2>3 DEF RunOf
  <2>5. \A r \in snapshots' : r.status \notin Terminal
    BY <1>a, <2>1, <2>2, <2>3 DEF RunOf, Terminal
  <2>6. EndsLast'
    BY <2>5 DEF EndsLast
  <2>7. FirstRun \/ t # JobTask
    BY <2>1 DEF FirstRun
  <2>8. t = JobTask => ~FirstRun'
    BY <2>1, <2>2 DEF FirstRun
  <2> QED  BY <1>0, <2>1, <2>4, <2>6, <2>7, <2>8, NewRowKeepsRuns DEF RunsOK
<1>8. CASE UpdateWaiting(t) \/ DispatchTool(t)
  <2>1. \E l \in {"dispatch", "resave", "finalSave"} : Goto(t, l)
    <3>1. CASE UpdateWaiting(t)
      BY <3>1 DEF UpdateWaiting
    <3>2. CASE DispatchTool(t)
      <4>1. PICK c \in todo[t] :
              Goto(t, IF todo[t] = {c} THEN ReturnLabel(t, state[t]) ELSE "dispatch")
        BY <3>2 DEF DispatchTool
      <4> QED  BY <4>1 DEF ReturnLabel
    <3> QED  BY <1>8, <3>1, <3>2
  <2>2. \A u \in Tasks \ {t} : todo'[u] = todo[u]
    BY <1>0, <1>8 DEF UpdateWaiting, DispatchTool
  <2>3. /\ pc[t] \in {"update", "dispatch"} /\ pc'[t] \in {"dispatch", "resave", "finalSave"}
        /\ state'[t] = state[t] /\ UNCHANGED <<state, msg, snapshots>>
    BY <1>0, <1>8, <2>1 DEF UpdateWaiting, DispatchTool
  <2>4. OthersStand(t)
    BY <1>0, <2>1, <2>2, <2>3
  <2>5. state[t].status = "waiting_tool"
    BY <1>a, <2>3 DEF TaskCoherent
  <2>6. RunOf(t, pc'[t], state'[t])
    BY <1>a, <2>3, <2>5 DEF RunOf, Terminal
  <2>7. t = JobTask => ~FirstRun'
    BY <2>3, <2>5 DEF FirstRun
  <2> QED  BY <1>0, <2>3, <2>4, <2>6, <2>7, StepKeepsRuns DEF RunsOK
<1> QED  BY <1>1, <1>2, <1>3, <1>4, <1>5, <1>6, <1>7, <1>8 DEF Execute

\* The end of a handler: a final state is the last word, a suspended one is known.
LEMMA EndKeepsRuns ==
  ASSUME RunsOK, NEW t \in Tasks \ ConfirmTasks,
         FinalSave(t) \/ FinalUpdate(t) \/ (Release(t) /\ t # JobTask)
  PROVE  RunInv'
<1> USE DEF OthersStand, Goto, locals, tables, NotBegun, Thinking, Suspended
<1>0. /\ t \in Tasks
      /\ pc \in [Tasks -> Labels] /\ state \in [Tasks -> AgentState]
      /\ todo \in [Tasks -> SUBSET Calls] /\ state[t] \in AgentState
  BY DEF RunsOK, TypeOK, TaskType
<1>a. RunOf(t, pc[t], state[t])
  BY DEF RunsOK, RunInv
<1>1. CASE FinalSave(t)
  <2>1. /\ OthersStand(t) /\ SaveSnapshot(t) /\ UNCHANGED state
        /\ pc[t] = "finalSave" /\ pc'[t] = "finalUpdate"
    BY <1>0, <1>1 DEF FinalSave
  <2>2. CASE state[t].status = "waiting_tool"
    BY <1>0, <2>1, <2>2, KnownRowKeepsRuns DEF RunsOK
  <2>3. CASE state[t].status # "waiting_tool"
    <3>1. snapshots' = snapshots \cup {state[t]} /\ Waiting' = Waiting
      BY <2>1, <2>3 DEF SaveSnapshot, Waiting
    <3>2. RunOf(t, pc[t], state[t])'
      BY <2>1 DEF RunOf
    <3>3. EndsLast'
      BY <1>a, <2>1, <3>1 DEF RunsOK, RunInv, RunOf, EndsLast
    <3>4. FirstRun \/ t # JobTask
      BY <2>3 DEF FirstRun
    <3> QED  BY <1>0, <2>1, <2>3, <3>2, <3>3, <3>4, NewRowKeepsRuns DEF RunsOK
  <2> QED  BY <2>2, <2>3
<1>2. CASE FinalUpdate(t)
  <2>1. /\ OthersStand(t) /\ pc[t] = "finalUpdate" /\ pc'[t] \in {"done", "release"}
        /\ state'[t] = state[t] /\ UNCHANGED snapshots
    BY <1>0, <1>2 DEF FinalUpdate
  <2>2. RunOf(t, pc'[t], state'[t])
    BY <2>1 DEF RunOf
  <2>3. t = JobTask /\ FirstRun' => FirstRun
    BY <2>1 DEF FirstRun
  <2> QED  BY <1>0, <2>1, <2>2, <2>3, StepKeepsRuns DEF RunsOK
<1>3. CASE Release(t) /\ t # JobTask
  <2>1. /\ OthersStand(t) /\ pc'[t] = "idle" /\ UNCHANGED snapshots
    BY <1>0, <1>3 DEF Release, Forget
  <2>2. RunOf(t, pc'[t], state'[t])
    BY <2>1 DEF RunOf
  <2> QED  BY <1>0, <1>3, <2>1, <2>2, StepKeepsRuns DEF RunsOK
<1> QED  BY <1>1, <1>2, <1>3

\* ResumeHandler: a run goes on from the latest snapshot, and only if the job has
\* not ended or MaxIterations is reached anyway.
LEMMA ResumeKeepsRuns ==
  ASSUME RunsOK, NEW t \in ResumeTasks, Resume(t), ~ExecutorFails(t), ~HandlerFails(t)
  PROVE  RunInv'
<1> USE DEF OthersStand, Goto, SetState, locals, tables, NotBegun, Thinking, Suspended
<1>0. /\ t \in Tasks \ ConfirmTasks /\ t # JobTask
      /\ pc \in [Tasks -> Labels] /\ state \in [Tasks -> AgentState]
      /\ todo \in [Tasks -> SUBSET Calls] /\ state[t] \in AgentState
      /\ snapshots \subseteq AgentState /\ MaxIterations \in Nat
  BY BoundsAssumption, TasksAssumption DEF RunsOK, TypeOK, TaskType, TableType, Tasks, LockTasks
<1>a. TaskCoherent(t) /\ TurnOf(t, pc[t], state[t]) /\ RunOf(t, pc[t], state[t])
  BY <1>0 DEF RunsOK, ConversationInv, TurnInv, RunInv
<1>b. state[t].iteration \in Nat /\ \A r \in snapshots : r.iteration \in Nat
  BY <1>0, AgentStateFields
<1>1. CASE TakeSignal(t) \/ NothingToResume(t) \/ NothingNew(t) \/ StopResuming(t)
  <2>1. /\ OthersStand(t) /\ state'[t] = state[t] /\ UNCHANGED snapshots
        /\ pc'[t] \in {"idle", "load", "release", "finalSave"}
        /\ pc'[t] = "finalSave" => pc[t] = "fetch"
    BY <1>0, <1>1 DEF TakeSignal, NothingToResume, NothingNew, StopResuming, Fetched
  <2>2. pc'[t] = "finalSave" => state[t].status = "waiting_tool"
    BY <1>a, <2>1 DEF TaskCoherent
  <2>3. RunOf(t, pc'[t], state'[t])
    BY <2>1, <2>2 DEF RunOf, Terminal
  <2> QED  BY <1>0, <2>1, <2>3, StepKeepsRuns DEF RunsOK
<1>2. CASE LoadForResume(t)
  <2>1. PICK s \in LatestSnapshots : s.status = "waiting_tool" /\ SetState(t, s)
    BY <1>2 DEF LoadForResume
  <2>2. s \in Waiting /\ \A r \in snapshots : r.iteration <= s.iteration
    BY <2>1 DEF LatestSnapshots, Waiting
  <2>3. OthersStand(t) /\ pc'[t] = "fetch" /\ state'[t] = s /\ UNCHANGED snapshots
    BY <1>0, <1>2, <2>1 DEF LoadForResume
  <2>4. RunOf(t, pc'[t], state'[t])
    BY <2>2, <2>3 DEF RunOf
  <2> QED  BY <1>0, <2>2, <2>3, <2>4, StepKeepsRuns DEF RunsOK
<1>3. CASE FetchResult(t)
  <2>1. /\ OthersStand(t) /\ pc[t] = "fetch" /\ pc'[t] = "fetch" /\ state'[t] = state[t]
        /\ UNCHANGED snapshots
    BY <1>0, <1>3 DEF FetchResult
  <2> QED  BY <1>0, <1>a, <2>1, StepKeepsRuns DEF RunsOK
<1>4. CASE EmitPartialResults(t)
  <2> DEFINE S == state[t].shown \cup (fetched[t] \ state[t].shown)
  <2>1. S \in SUBSET Calls
    BY <1>0, AgentStateFields DEF RunsOK, TypeOK, TaskType
  <2>2. state'[t] = [state[t] EXCEPT !.shown = S]
    BY <1>0, <1>4 DEF EmitPartialResults, MarkShown
  <2>3. state'[t].iteration = state[t].iteration
    <3> HIDE DEF S
    <3> QED  BY <1>0, <2>1, <2>2, IterationFields
  <2>4. /\ OthersStand(t) /\ pc[t] = "fetch" /\ pc'[t] = "persist" /\ UNCHANGED snapshots
    BY <1>0, <1>4 DEF EmitPartialResults, MarkShown, Fetched
  <2>5. RunOf(t, pc'[t], state'[t])
    BY <1>a, <2>3, <2>4 DEF RunOf
  <2> QED  BY <1>0, <2>4, <2>5, StepKeepsRuns DEF RunsOK
<1>5. CASE ResumeFromSnapshot(t)
  <2>1. state'[t].iteration = state[t].iteration
    BY <1>0, <1>5, IterationFields DEF ResumeFromSnapshot
  <2>2. /\ OthersStand(t) /\ pc[t] = "fetch" /\ pc'[t] = "loop" /\ UNCHANGED snapshots
    BY <1>0, <1>5 DEF ResumeFromSnapshot, Fetched
  <2>3. PICK w \in Waiting : SameTurn(w, state[t])
    BY <1>a, <2>2 DEF TaskCoherent, TurnOf
  <2>4. ASSUME NEW r \in snapshots, r.status \in Terminal
        PROVE  state[t].iteration >= MaxIterations
    <3>1. w.iteration < r.iteration \/ r.iteration >= MaxIterations
      BY <2>4 DEF RunsOK, RunInv, EndsLast
    <3>2. w.iteration = state[t].iteration /\ r.iteration <= state[t].iteration
      BY <1>a, <2>2, <2>3 DEF SameTurn, RunOf
    <3> QED  BY <1>0, <1>b, <3>1, <3>2
  <2>5. RunOf(t, pc'[t], state'[t])
    BY <1>0, <1>a, <1>b, <2>1, <2>2, <2>4 DEF RunOf
  <2> QED  BY <1>0, <2>2, <2>5, StepKeepsRuns DEF RunsOK
<1>6. CASE PersistPartial(t) \/ SaveAndRecheck(t)
  <2>1. /\ OthersStand(t) /\ SaveSnapshot(t) /\ UNCHANGED state
        /\ pc[t] \in {"persist", "resave"} /\ pc'[t] \in {"release", "fetch"}
    BY <1>0, <1>6 DEF PersistPartial, SaveAndRecheck
  <2>2. state[t].status = "waiting_tool"
    BY <1>a, <2>1 DEF TaskCoherent
  <2> QED  BY <1>0, <2>1, <2>2, KnownRowKeepsRuns DEF RunsOK
<1> QED  BY <1>0, <1>1, <1>2, <1>3, <1>4, <1>5, <1>6, ExecuteKeepsRuns, EndKeepsRuns
         DEF Resume

\* ConfirmHandler is in no run and saves nothing.
LEMMA ConfirmKeepsRuns ==
  ASSUME RunsOK, NEW t \in ConfirmTasks, Confirm(t), ~HandlerFails(t)
  PROVE  RunInv'
<1> USE DEF OthersStand, Goto, SetState, locals, tables
<1>0. /\ t \in Tasks /\ t \notin ResumeTasks /\ t # JobTask
      /\ pc \in [Tasks -> Labels] /\ state \in [Tasks -> AgentState]
      /\ todo \in [Tasks -> SUBSET Calls]
      /\ msg \in [ConfirmTasks -> Decisions \cup {None}]
  BY TasksAssumption DEF RunsOK, TypeOK, TaskType, Tasks, LockTasks
<1>1. UNCHANGED snapshots
  BY DEF Confirm, TakeDecision, LoadForConfirm, NothingToConfirm, ForwardConfirmed,
     StoreRejection, SignalRejection, Release
<1>2. /\ \A u \in Tasks \ {t} : pc'[u] = pc[u] /\ state'[u] = state[u] /\ todo'[u] = todo[u]
      /\ \A u \in ConfirmTasks \ {t} : msg'[u] = msg[u]
  BY <1>0 DEF Confirm, TakeDecision, LoadForConfirm, NothingToConfirm, ForwardConfirmed,
     StoreRejection, SignalRejection, Release, Forget
<1>3. OthersStand(t)
  BY <1>2
<1> QED  BY <1>0, <1>1, <1>3, StepKeepsRuns DEF RunsOK

\* Every step keeps the runs apart.
LEMMA NextKeepsRuns ==
  ASSUME RunsOK, FaultFree, [Next]_vars
  PROVE  RunInv'
<1>0. /\ JobTask \in Tasks \ ConfirmTasks /\ JobTask \notin ResumeTasks
      /\ ResumeTasks \subseteq Tasks /\ ConfirmTasks \subseteq Tasks
  BY TasksAssumption DEF Tasks, LockTasks
<1>a. /\ \A t \in Tasks : ~ExecutorFails(t) /\ ~HandlerFails(t)
      /\ ~Crash
  BY NoFaults DEF RunsOK
<1>1. CASE StartJob
  <2>1. /\ OthersStand(JobTask) /\ UNCHANGED snapshots
        /\ pc[JobTask] = "ready" /\ pc'[JobTask] = "loop" /\ state[JobTask] \in AgentState
        /\ state'[JobTask].status = "running" /\ state'[JobTask].iteration = 0
    BY <1>0, <1>1 DEF StartJob, OthersStand, Goto, NewState, RunsOK, TypeOK, TaskType
  <2>2. RunOf(JobTask, pc'[JobTask], state'[JobTask])
    BY <1>0, <2>1 DEF RunsOK, RunInv, RunOf, Terminal
  <2>3. FirstRun
    <3>1. FirstTurn /\ TurnOf(JobTask, pc[JobTask], state[JobTask])
      BY <1>0, <2>1 DEF FirstTurn, RunsOK, TurnInv
    <3> QED  BY <2>1, <3>1 DEF FirstRun, RunsOK, TurnInv, NothingSuspended, TurnOf
  <2> QED  BY <1>0, <2>1, <2>2, <2>3, StepKeepsRuns DEF RunsOK
<1>2. CASE Job /\ ~StartJob
  BY <1>0, <1>a, <1>2, ExecuteKeepsRuns, EndKeepsRuns DEF Job
<1>3. CASE \E t \in ResumeTasks : Resume(t)
  BY <1>0, <1>a, <1>3, ResumeKeepsRuns
<1>4. CASE \E t \in ConfirmTasks : Confirm(t)
  BY <1>0, <1>a, <1>4, ConfirmKeepsRuns
<1>5. CASE \/ \E c \in Calls : \/ RunTool(c) \/ SendSignal(c) \/ SignalFails(c)
                               \/ StoreFails(c) \/ WorkerCrash(c) \/ ExpireResult(c)
           \/ \E c \in Calls, b \in BOOLEAN : Decide(c, b)
           \/ ExpireLock \/ OutliveLock
           \/ UNCHANGED vars
  <2>1. UNCHANGED <<pc, state, snapshots>>
    BY <1>5 DEF RunTool, SendSignal, SignalFails, StoreFails, WorkerCrash, ExpireResult, Decide,
       ExpireLock, OutliveLock, vars, locals, tables
  <2> QED  BY <2>1 DEF RunsOK, RunInv, RunOf, EndsLast, Waiting, FirstRun, NothingSuspended,
           NotBegun
<1> QED  BY <1>a, <1>1, <1>2, <1>3, <1>4, <1>5 DEF Next

\* Nothing runs and nothing is saved at first.
LEMMA InitRuns == Init => RunInv
<1> SUFFICES ASSUME Init  PROVE RunInv
  OBVIOUS
<1>1. snapshots = {} /\ Waiting = {}
  BY DEF Init, Waiting
<1>2. \A t \in ResumeTasks : pc[t] = "idle"
  BY TasksAssumption DEF Init, Tasks, LockTasks
<1> QED  BY <1>1, <1>2 DEF RunInv, RunOf, EndsLast, NothingSuspended, NotBegun

\* One run of the agent loop at a time, from the latest snapshot, and none of a job
\* that has ended.
THEOREM RunInvariant ==
  ASSUME FaultFree
  PROVE  Spec => []RunInv
<1>1. TypeOK /\ LockInv /\ ConversationInv /\ ConfirmInv /\ TurnInv /\ RunInv /\ [Next]_vars
      => RunInv'
  BY NextKeepsRuns DEF RunsOK
<1> QED  BY <1>1, InitRuns, TypeCorrect, LockWithoutFaults, ConversationInvariant,
            ConfirmInvariant, TurnsWithoutFaults, PTL DEF Spec

-----------------------------------------------------------------------------
(* Answers: a conversation holds only results that were injected, of calls  *)
(* the LLM has made, whatever fails.                                        *)

AnsweredInv ==
    /\ Injected \subseteq used
    /\ \A s \in snapshots : s.answered \subseteq Injected
    /\ \A t \in Tasks : state[t].answered \subseteq Injected

\* A step that injects nothing.
LEMMA StepKeepsAnswered ==
  ASSUME AnsweredInv, NEW t \in Tasks, \A u \in Tasks \ {t} : state'[u] = state[u],
         UNCHANGED injected, used \subseteq used',
         snapshots' \subseteq snapshots \cup {state[t]},
         state'[t].answered \subseteq Injected
  PROVE  AnsweredInv'
  BY DEF AnsweredInv, Injected

\* The agent loop injects nothing.
LEMMA LoopAnswered ==
  ASSUME TypeOK, NEW t \in Tasks,
         Execute(t) \/ FinalSave(t) \/ FinalUpdate(t) \/ HandlerFails(t)
  PROVE  /\ state'[t].answered = state[t].answered
         /\ used \subseteq used'
<1> USE DEF SetState, Return, SaveSnapshot, redis, tables, history, locals
<1>0. state \in [Tasks -> AgentState] /\ state[t] \in AgentState
  BY DEF TypeOK, TaskType
<1>1. CASE MaxIterationsReached(t) \/ LLMAnswers(t) \/ ExecutorFails(t)
  BY <1>0, <1>1, MarkEndedFields DEF MaxIterationsReached, LLMAnswers, ExecutorFails
<1>2. CASE NextIteration(t)
  <2>1. state[t].iteration + 1 \in Nat
    BY <1>0, AgentStateFields
  <2>2. state'[t] = [state[t] EXCEPT !.iteration = state[t].iteration + 1]
    BY <1>0, <1>2 DEF NextIteration
  <2> QED  BY <1>0, <1>2, <2>1, <2>2, IterationFields DEF NextIteration
<1>3. CASE LLMCallsTools(t)
  <2>1. PICK T \in SUBSET Calls :
          SetState(t, MarkWaitingTool(state[t], T)) /\ used' = used \cup T
    BY <1>3 DEF LLMCallsTools
  <2> QED  BY <1>0, <2>1, MarkWaitingToolFields
<1>4. CASE \/ Checkpoint(t) \/ StreamEndsEarly(t) \/ SaveWaiting(t) \/ UpdateWaiting(t)
           \/ DispatchTool(t) \/ FinalSave(t) \/ FinalUpdate(t) \/ HandlerFails(t)
  BY <1>4 DEF Checkpoint, StreamEndsEarly, SaveWaiting, UpdateWaiting, DispatchTool,
     FinalSave, FinalUpdate, HandlerFails
<1> QED  BY <1>1, <1>2, <1>3, <1>4 DEF Execute

\* resume_from_snapshot injects the pending calls of a suspended state, nothing else
\* injects.
LEMMA InjectionStep ==
  ASSUME TypeOK, ConversationInv, NEW t \in ResumeTasks, ResumeFromSnapshot(t)
  PROVE  /\ Injected' = Injected \cup state[t].pending
         /\ state[t].pending \subseteq used
         /\ state'[t].answered = state[t].answered \cup state[t].pending
         /\ \A u \in Tasks \ {t} : state'[u] = state[u]
         /\ UNCHANGED <<snapshots, used>>
<1>0. /\ t \in Tasks /\ state[t] \in AgentState /\ state \in [Tasks -> AgentState]
      /\ injected \in [Calls -> Nat]
  BY DEF TypeOK, TaskType, HistoryType, Tasks, LockTasks
<1>1. /\ injected' = [c \in Calls |->
                        injected[c] + (IF c \in state[t].pending THEN 1 ELSE 0)]
      /\ state' = [state EXCEPT ![t] = InjectResults(state[t])]
      /\ pc[t] = "fetch" /\ UNCHANGED <<snapshots, used>>
  BY DEF ResumeFromSnapshot, SetState, Fetched, tables
<1>2. Coherent(state[t]) /\ state[t].status = "waiting_tool"
  BY <1>0, <1>1 DEF ConversationInv, TaskCoherent
<1>3. state[t].pending \subseteq Calls
  BY <1>0, AgentStateFields
<1>4. Injected' = Injected \cup state[t].pending
  BY <1>0, <1>1, <1>3 DEF Injected
<1> QED  BY <1>0, <1>1, <1>2, <1>4, InjectResultsFields DEF Coherent

\* Every step.
LEMMA NextKeepsAnswered ==
  ASSUME TypeOK, ConversationInv, AnsweredInv, [Next]_vars
  PROVE  AnsweredInv'
<1> USE DEF SetState, SaveSnapshot, redis, tables, history, locals
<1>0. /\ state \in [Tasks -> AgentState] /\ snapshots \subseteq AgentState
      /\ \A t \in Tasks : fetched[t] \subseteq Calls
      /\ ResumeTasks \subseteq Tasks /\ ConfirmTasks \subseteq Tasks /\ JobTask \in Tasks
  BY DEF TypeOK, TaskType, TableType, Tasks, LockTasks
<1>1. ASSUME NEW t \in Tasks,
             Execute(t) \/ FinalSave(t) \/ FinalUpdate(t) \/ HandlerFails(t)
      PROVE  AnsweredInv'
  <2>1. state'[t].answered \subseteq Injected
    BY <1>1, LoopAnswered DEF AnsweredInv
  <2> QED  BY <1>1, <2>1, LoopEffect, LoopAnswered, StepKeepsAnswered
<1>2. ASSUME NEW t \in Tasks, Release(t)
      PROVE  AnsweredInv'
  <2>1. state'[t].answered = {}
    BY <1>0, <1>2 DEF Release, Forget, NewState
  <2> QED  BY <1>0, <1>2, <2>1, StepKeepsAnswered DEF Release, Forget
<1>3. ASSUME StartJob  PROVE AnsweredInv'
  <2>1. state'[JobTask].answered = {}
    BY <1>0, <1>3 DEF StartJob, NewState
  <2> QED  BY <1>0, <1>3, <2>1, StepKeepsAnswered DEF StartJob
<1>4. ASSUME NEW t \in Tasks, LoadForResume(t) \/ LoadForConfirm(t)
      PROVE  AnsweredInv'
  <2>1. PICK s \in LatestSnapshots : state' = [state EXCEPT ![t] = s]
    BY <1>4 DEF LoadForResume, LoadForConfirm
  <2>2. state'[t].answered \subseteq Injected
    BY <1>0, <2>1, LatestType DEF AnsweredInv
  <2> QED  BY <1>0, <1>4, <2>1, <2>2, StepKeepsAnswered DEF LoadForResume, LoadForConfirm
<1>5. ASSUME NEW t \in Tasks, EmitPartialResults(t)
      PROVE  AnsweredInv'
  <2> DEFINE S == state[t].shown \cup (fetched[t] \ state[t].shown)
  <2>1. state' = [state EXCEPT ![t] = [state[t] EXCEPT !.shown = S]]
    BY <1>5 DEF EmitPartialResults, MarkShown
  <2>2. S \in SUBSET Calls /\ state[t] \in AgentState
    BY <1>0, AgentStateFields
  <2>3. state'[t].answered = state[t].answered
    <3> HIDE DEF S
    <3> QED  BY <1>0, <2>1, <2>2, IterationFields
  <2>4. \A u \in Tasks \ {t} : state'[u] = state[u]
    BY <1>0, <2>1
  <2> QED  BY <1>5, <2>3, <2>4, StepKeepsAnswered DEF EmitPartialResults, AnsweredInv
<1>6. ASSUME NEW t \in ResumeTasks, ResumeFromSnapshot(t)
      PROVE  AnsweredInv'
  BY <1>6, InjectionStep DEF AnsweredInv
<1>7. ASSUME NEW t \in Tasks,
             \/ TakeSignal(t) \/ NothingToResume(t) \/ FetchResult(t) \/ PersistPartial(t)
             \/ NothingNew(t) \/ SaveAndRecheck(t) \/ StopResuming(t)
             \/ TakeDecision(t) \/ NothingToConfirm(t) \/ ForwardConfirmed(t)
             \/ StoreRejection(t) \/ SignalRejection(t)
      PROVE  AnsweredInv'
  <2>1. /\ UNCHANGED <<state, injected, used>>
        /\ snapshots' \subseteq snapshots \cup {state[t]}
    BY <1>7 DEF TakeSignal, NothingToResume, FetchResult, PersistPartial, NothingNew,
       SaveAndRecheck, StopResuming, TakeDecision, NothingToConfirm, ForwardConfirmed,
       StoreRejection, SignalRejection
  <2> QED  BY <2>1, StepKeepsAnswered DEF AnsweredInv
<1>8. ASSUME Crash  PROVE AnsweredInv'
  <2>1. UNCHANGED <<snapshots, injected, used>>
    BY <1>8 DEF Crash
  <2>2. \A t \in Tasks : state'[t] = state[t] \/ state'[t] = NewState
    BY <1>8 DEF Crash
  <2> QED  BY <2>1, <2>2 DEF AnsweredInv, Injected, NewState
<1>9. ASSUME \/ \E c \in Calls : \/ RunTool(c) \/ SendSignal(c) \/ SignalFails(c)
                                 \/ StoreFails(c) \/ WorkerCrash(c) \/ ExpireResult(c)
             \/ \E c \in Calls, b \in BOOLEAN : Decide(c, b)
             \/ ExpireLock \/ OutliveLock
             \/ UNCHANGED vars
      PROVE  AnsweredInv'
  <2>1. UNCHANGED <<state, snapshots, injected, used>>
    BY <1>9 DEF RunTool, SendSignal, SignalFails, StoreFails, WorkerCrash, ExpireResult,
       Decide, ExpireLock, OutliveLock, vars
  <2> QED  BY <2>1 DEF AnsweredInv, Injected
<1> QED  BY <1>0, <1>1, <1>2, <1>3, <1>4, <1>5, <1>6, <1>7, <1>8, <1>9
         DEF Next, Job, Resume, Confirm

\* Only calls the LLM has made are answered, and only with injected results.
THEOREM AnsweredInvariant == Spec => []AnsweredInv
<1>1. Init => AnsweredInv
  BY DEF Init, AnsweredInv, Injected, NewState
<1> QED  BY <1>1, TypeCorrect, ConversationInvariant, NextKeepsAnswered, PTL DEF Spec

-----------------------------------------------------------------------------
(* Calls: where nothing fails, the run in progress and the latest suspended *)
(* snapshot know every call the LLM has made, and no two turns share one.   *)

CallsOf(t, l, s) ==
    /\ l = "ready" => used = {}
    /\ l \in Thinking \/ (t \in ResumeTasks /\ l \in Suspended) => s.asked = used
    /\ l = "save" => \A w \in Waiting : w.pending \cap s.pending = {}

NewestKnows ==
    \A w \in Waiting :
        \/ w.asked = used
        \/ \E r \in snapshots : r.iteration > w.iteration
        \/ \E t \in ResumeTasks : pc[t] = "save"

OneTurnPerCall ==
    \A r, w \in Waiting : r.pending \cap w.pending # {} => r.iteration = w.iteration

CallsInv ==
    /\ \A t \in Tasks \ ConfirmTasks : CallsOf(t, pc[t], state[t])
    /\ NewestKnows
    /\ OneTurnPerCall

\* Suspended states of one turn have asked for the same calls.
LEMMA SameTurnAsked ==
  ASSUME NEW r, NEW s, Coherent(r), Coherent(s), SameTurn(r, s),
         r.status = "waiting_tool", s.status = "waiting_tool"
  PROVE  r.asked = s.asked
<1>1. r.asked = r.answered \cup r.pending /\ s.asked = s.answered \cup s.pending
  BY DEF Coherent
<1> QED  BY <1>1 DEF SameTurn

\* A step of t that starts no turn and makes no call.
LEMMA StepKeepsCalls ==
  ASSUME ConversationInv, CallsInv, NEW t \in Tasks, OthersStand(t), UNCHANGED used, NoNewTurn,
         snapshots' \subseteq snapshots \cup {state[t]}, pc[t] # "save",
         t \notin ConfirmTasks => CallsOf(t, pc'[t], state'[t])
  PROVE  CallsInv'
<1>1. \A s \in Waiting' : \E w \in Waiting : SameTurn(w, s) /\ w.asked = s.asked
  <2> SUFFICES ASSUME NEW s \in Waiting'
               PROVE  \E w \in Waiting : SameTurn(w, s) /\ w.asked = s.asked
    OBVIOUS
  <2>1. PICK w \in Waiting : SameTurn(w, s)
    BY DEF NoNewTurn, Waiting
  <2>2. Coherent(w) /\ Coherent(s)
    BY DEF ConversationInv, TaskCoherent, Waiting
  <2> QED  BY <2>1, <2>2, SameTurnAsked DEF Waiting
<1>2. ASSUME NEW u \in Tasks \ ConfirmTasks
      PROVE  CallsOf(u, pc[u], state[u])'
  <2>1. CallsOf(u, pc'[u], state'[u])
    BY DEF CallsInv, OthersStand
  <2> QED  BY <1>1, <2>1 DEF CallsOf, SameTurn
<1>3. NewestKnows'
  <2> SUFFICES ASSUME NEW s \in Waiting'
               PROVE  \/ s.asked = used
                      \/ \E r \in snapshots' : r.iteration > s.iteration
                      \/ \E u \in ResumeTasks : pc'[u] = "save"
    BY DEF NewestKnows
  <2>1. PICK w \in Waiting : SameTurn(w, s) /\ w.asked = s.asked
    BY <1>1
  <2>2. \/ w.asked = used
        \/ \E r \in snapshots : r.iteration > w.iteration
        \/ \E u \in ResumeTasks : pc[u] = "save"
    BY DEF CallsInv, NewestKnows
  <2>3. \A u \in ResumeTasks : pc[u] = "save" => pc'[u] = "save"
    BY DEF OthersStand, Tasks, LockTasks
  <2> QED  BY <2>1, <2>2, <2>3 DEF SameTurn, NoNewTurn
<1>4. OneTurnPerCall'
  BY <1>1 DEF CallsInv, OneTurnPerCall, SameTurn
<1> QED  BY <1>2, <1>3, <1>4 DEF CallsInv

\* While t is in a run, no other task is.
LEMMA OneRun ==
  ASSUME RunsOK, NEW t \in Tasks \ ConfirmTasks, pc[t] \in Thinking,
         NEW u \in Tasks \ ConfirmTasks, u # t
  PROVE  /\ pc[u] \notin {"ready"} \cup Thinking
         /\ u \in ResumeTasks => pc[u] \notin Suspended
<1>0. /\ t = JobTask \/ t \in ResumeTasks
      /\ u = JobTask \/ u \in ResumeTasks
      /\ ResumeTasks \subseteq LockTasks
  BY DEF Tasks, LockTasks
<1>1. CASE t = JobTask
  <2>1. NothingSuspended /\ u \in ResumeTasks
    BY <1>0, <1>1 DEF RunsOK, TurnInv, FirstTurn
  <2> QED  BY <2>1 DEF NothingSuspended, NotBegun, Thinking, Suspended
<1>2. CASE t \in ResumeTasks /\ u \in ResumeTasks
  <2>1. pc[u] = "idle"
    BY <1>0, <1>2, OneAtWork DEF RunsOK, Thinking
  <2> QED  BY <2>1 DEF Thinking, Suspended
<1>3. CASE t \in ResumeTasks /\ u = JobTask
  <2>1. ~NothingSuspended
    BY <1>3 DEF NothingSuspended, NotBegun, Thinking
  <2>2. JobTask \notin ResumeTasks
    BY TasksAssumption DEF LockTasks
  <2> QED  BY <1>3, <2>1, <2>2 DEF RunsOK, TurnInv, FirstTurn
<1> QED  BY <1>0, <1>1, <1>2, <1>3

CallsOK == RunsOK /\ CallsInv

\* The LLM makes new calls: they go into the conversation of the only run.
LEMMA LLMKeepsCalls ==
  ASSUME CallsOK, NEW t \in Tasks \ ConfirmTasks, LLMCallsTools(t)
  PROVE  CallsInv'
<1>0. /\ t \in Tasks /\ state[t] \in AgentState /\ state \in [Tasks -> AgentState]
      /\ pc \in [Tasks -> Labels]
  BY DEF CallsOK, RunsOK, TypeOK, TaskType
<1>1. PICK T \in SUBSET (Calls \ used) :
        SetState(t, MarkWaitingTool(state[t], T)) /\ used' = used \cup T
  BY DEF LLMCallsTools
<1>2. /\ pc[t] = "llm" /\ pc'[t] = "save" /\ OthersStand(t) /\ UNCHANGED snapshots
      /\ state'[t].asked = state[t].asked \cup T
      /\ state'[t].pending = T
  BY <1>0, <1>1, MarkWaitingToolFields
     DEF LLMCallsTools, OthersStand, Goto, SetState, tables
<1>3. Waiting' = Waiting
  BY <1>2 DEF Waiting
<1>4. state[t].asked = used
  BY <1>2 DEF CallsOK, CallsInv, CallsOf, Thinking
<1>5. \A w \in Waiting : w.pending \subseteq used
  BY DEF CallsOK, RunsOK, ConversationInv, Coherent, Waiting
<1>6. CallsOf(t, pc[t], state[t])'
  BY <1>1, <1>2, <1>3, <1>4, <1>5 DEF CallsOf
<1>7. ASSUME NEW u \in Tasks \ ConfirmTasks, u # t
      PROVE  CallsOf(u, pc[u], state[u])'
  <2>1. /\ pc[u] \notin {"ready"} \cup Thinking
        /\ u \in ResumeTasks => pc[u] \notin Suspended
    BY <1>2, <1>7, OneRun DEF CallsOK, Thinking
  <2>2. pc'[u] = pc[u]
    BY <1>2, <1>7 DEF OthersStand
  <2> QED  BY <2>1, <2>2 DEF CallsOf, Thinking
<1>8. NewestKnows'
  <2>1. CASE t \in ResumeTasks
    BY <1>2, <2>1 DEF NewestKnows
  <2>2. CASE t \notin ResumeTasks
    <3>1. t = JobTask
      BY <2>2 DEF Tasks, LockTasks
    <3>2. Waiting = {}
      BY <1>2, <3>1 DEF CallsOK, RunsOK, TurnInv, FirstTurn, NothingSuspended, Thinking
    <3> QED  BY <1>3, <3>2 DEF NewestKnows
  <2> QED  BY <2>1, <2>2
<1>9. OneTurnPerCall'
  BY <1>3 DEF CallsOK, CallsInv, OneTurnPerCall
<1> QED  BY <1>6, <1>7, <1>8, <1>9 DEF CallsInv

\* The snapshot of a new turn is the one that knows every call.
LEMMA SaveKeepsCalls ==
  ASSUME CallsOK, NEW t \in Tasks \ ConfirmTasks, SaveWaiting(t)
  PROVE  CallsInv'
<1>0. /\ t \in Tasks /\ state[t] \in AgentState /\ snapshots \subseteq AgentState
      /\ pc \in [Tasks -> Labels]
  BY DEF CallsOK, RunsOK, TypeOK, TaskType, TableType
<1>1. /\ pc[t] = "save" /\ pc'[t] = "update" /\ OthersStand(t) /\ UNCHANGED <<state, used>>
      /\ snapshots' = snapshots \cup {state[t]}
  BY <1>0 DEF SaveWaiting, SaveSnapshot, OthersStand, Goto, locals, history
<1>2. state[t].status = "waiting_tool"
  BY <1>1 DEF CallsOK, RunsOK, ConversationInv, TaskCoherent
<1>3. Waiting' = Waiting \cup {state[t]}
  BY <1>1, <1>2 DEF Waiting
<1>4. CallsOf(t, pc[t], state[t]) /\ TurnOf(t, pc[t], state[t])
  BY DEF CallsOK, RunsOK, CallsInv, TurnInv
<1>5. \A w \in Waiting : w.iteration < state[t].iteration
  BY <1>0, <1>1, <1>4, AgentStateFields DEF TurnOf, Thinking, Waiting
<1>6. CallsOf(t, pc[t], state[t])'
  BY <1>1, <1>4 DEF CallsOf, Thinking
<1>7. ASSUME NEW u \in Tasks \ ConfirmTasks, u # t
      PROVE  CallsOf(u, pc[u], state[u])'
  <2>1. /\ pc[u] \notin {"ready"} \cup Thinking
        /\ u \in ResumeTasks => pc[u] \notin Suspended
    BY <1>1, <1>7, OneRun DEF CallsOK, Thinking
  <2>2. pc'[u] = pc[u]
    BY <1>1, <1>7 DEF OthersStand
  <2> QED  BY <2>1, <2>2 DEF CallsOf, Thinking
<1>8. NewestKnows'
  <2>1. state[t].asked = used
    BY <1>1, <1>4 DEF CallsOf, Thinking
  <2>2. \A w \in Waiting : \E r \in snapshots' : r.iteration > w.iteration
    BY <1>0, <1>1, <1>5, AgentStateFields DEF Waiting
  <2> QED  BY <1>1, <1>3, <2>1, <2>2 DEF NewestKnows
<1>9. OneTurnPerCall'
  BY <1>1, <1>3, <1>4 DEF CallsOK, CallsInv, OneTurnPerCall, CallsOf
<1> QED  BY <1>6, <1>7, <1>8, <1>9 DEF CallsInv

\* The rest of the agent loop.
LEMMA ExecuteKeepsCalls ==
  ASSUME CallsOK, NEW t \in Tasks \ ConfirmTasks, Execute(t), ~ExecutorFails(t)
  PROVE  CallsInv'
<1> USE DEF OthersStand, Goto, SetState, locals, tables, history, Thinking, Suspended
<1>0. /\ t \in Tasks
      /\ pc \in [Tasks -> Labels] /\ state \in [Tasks -> AgentState]
      /\ todo \in [Tasks -> SUBSET Calls] /\ state[t] \in AgentState
  BY DEF CallsOK, RunsOK, TypeOK, TaskType
<1>a. CallsOf(t, pc[t], state[t]) /\ CallsInv /\ ConversationInv /\ TurnInv
  BY DEF CallsOK, RunsOK, CallsInv
<1>1. CASE MaxIterationsReached(t) \/ LLMAnswers(t)
  <2>1. /\ OthersStand(t) /\ UNCHANGED <<snapshots, used>>
        /\ pc[t] \in {"loop", "llm"} /\ pc'[t] = "finalSave"
    BY <1>0, <1>1, MarkEndedFields DEF MaxIterationsReached, LLMAnswers, Return, ReturnLabel
  <2>2. CallsOf(t, pc'[t], state'[t])
    BY <2>1 DEF CallsOf
  <2> QED  BY <1>0, <1>a, <2>1, <2>2, NoRow, StepKeepsCalls
<1>2. CASE NextIteration(t)
  <2>1. state[t].iteration + 1 \in Nat
    BY <1>0, AgentStateFields
  <2>2. state'[t].asked = state[t].asked
    BY <1>0, <1>2, <2>1, IterationFields DEF NextIteration
  <2>3. /\ OthersStand(t) /\ UNCHANGED <<snapshots, used>>
        /\ pc[t] = "loop" /\ pc'[t] \in {"checkpoint", "llm"}
    BY <1>0, <1>2 DEF NextIteration
  <2>4. CallsOf(t, pc'[t], state'[t])
    BY <1>a, <2>2, <2>3 DEF CallsOf
  <2> QED  BY <1>0, <1>a, <2>3, <2>4, NoRow, StepKeepsCalls
<1>3. CASE Checkpoint(t) \/ StreamEndsEarly(t)
  <2>1. /\ OthersStand(t) /\ UNCHANGED <<state, used>>
        /\ pc[t] \in {"checkpoint", "llm"} /\ pc'[t] \in {"loop", "llm"}
        /\ snapshots' \subseteq snapshots \cup {state[t]}
    BY <1>0, <1>3 DEF Checkpoint, StreamEndsEarly, SaveSnapshot
  <2>2. NoNewTurn
    BY <1>0, <1>3, <1>a, <2>1, NoRow, KnownTurn DEF Checkpoint, StreamEndsEarly
  <2>3. CallsOf(t, pc'[t], state'[t])
    BY <1>a, <2>1 DEF CallsOf
  <2> QED  BY <1>0, <1>a, <2>1, <2>2, <2>3, StepKeepsCalls
<1>4. CASE UpdateWaiting(t) \/ DispatchTool(t)
  <2>1. \E l \in {"dispatch", "resave", "finalSave"} : Goto(t, l)
    <3>1. CASE UpdateWaiting(t)
      BY <3>1 DEF UpdateWaiting
    <3>2. CASE DispatchTool(t)
      <4>1. PICK c \in todo[t] :
              Goto(t, IF todo[t] = {c} THEN ReturnLabel(t, state[t]) ELSE "dispatch")
        BY <3>2 DEF DispatchTool
      <4> QED  BY <4>1 DEF ReturnLabel
    <3> QED  BY <1>4, <3>1, <3>2
  <2>2. /\ pc[t] \in {"update", "dispatch"} /\ pc'[t] \in {"dispatch", "resave", "finalSave"}
        /\ UNCHANGED <<state, msg, snapshots, used>>
        /\ \A u \in Tasks \ {t} : todo'[u] = todo[u]
    BY <1>0, <1>4, <2>1 DEF UpdateWaiting, DispatchTool
  <2>3. OthersStand(t)
    BY <1>0, <2>1, <2>2
  <2>4. CallsOf(t, pc'[t], state'[t])
    BY <1>a, <2>2 DEF CallsOf
  <2> QED  BY <1>0, <1>a, <2>2, <2>3, <2>4, NoRow, StepKeepsCalls
<1> QED  BY <1>1, <1>2, <1>3, <1>4, LLMKeepsCalls, SaveKeepsCalls DEF Execute

\* The end of a handler.
LEMMA EndKeepsCalls ==
  ASSUME CallsOK, NEW t \in Tasks,
         FinalSave(t) \/ FinalUpdate(t) \/ (Release(t) /\ t # JobTask)
  PROVE  CallsInv'
<1> USE DEF OthersStand, Goto, locals, tables, history
<1>0. /\ pc \in [Tasks -> Labels] /\ state \in [Tasks -> AgentState]
      /\ todo \in [Tasks -> SUBSET Calls] /\ state[t] \in AgentState
  BY DEF CallsOK, RunsOK, TypeOK, TaskType
<1>1. /\ OthersStand(t) /\ UNCHANGED used
      /\ pc[t] \in {"finalSave", "finalUpdate", "release"}
      /\ pc'[t] \in {"finalUpdate", "done", "release", "idle"}
      /\ snapshots' \subseteq snapshots \cup {state[t]}
  BY <1>0 DEF FinalSave, FinalUpdate, Release, Forget, SaveSnapshot
<1>2. NoNewTurn
  BY <1>1, NoRow, KnownTurn DEF FinalSave, FinalUpdate, Release, CallsOK, RunsOK
<1>3. CallsOf(t, pc'[t], state'[t])
  BY <1>1 DEF CallsOf, Thinking, Suspended
<1> QED  BY <1>1, <1>2, <1>3, StepKeepsCalls DEF CallsOK, RunsOK

\* ResumeHandler: the latest suspended snapshot knows every call.
LEMMA ResumeKeepsCalls ==
  ASSUME CallsOK, NEW t \in ResumeTasks, Resume(t), ~ExecutorFails(t), ~HandlerFails(t)
  PROVE  CallsInv'
<1> USE DEF OthersStand, Goto, SetState, locals, tables, history, Thinking, Suspended
<1>0. /\ t \in Tasks \ ConfirmTasks /\ t # JobTask /\ t \in LockTasks
      /\ pc \in [Tasks -> Labels] /\ state \in [Tasks -> AgentState]
      /\ todo \in [Tasks -> SUBSET Calls] /\ state[t] \in AgentState
      /\ snapshots \subseteq AgentState /\ fetched[t] \subseteq Calls
  BY TasksAssumption DEF CallsOK, RunsOK, TypeOK, TaskType, TableType, Tasks, LockTasks
<1>a. CallsOf(t, pc[t], state[t]) /\ CallsInv /\ ConversationInv /\ TurnInv /\ LockInv
  BY <1>0 DEF CallsOK, RunsOK, CallsInv
<1>1. CASE TakeSignal(t) \/ NothingToResume(t) \/ NothingNew(t) \/ StopResuming(t)
  <2>1. /\ OthersStand(t) /\ UNCHANGED <<snapshots, used>>
        /\ pc[t] \in {"idle", "load", "fetch"}
        /\ pc'[t] \in {"idle", "load", "release", "finalSave"}
    BY <1>0, <1>1 DEF TakeSignal, NothingToResume, NothingNew, StopResuming, Fetched
  <2>2. CallsOf(t, pc'[t], state'[t])
    BY <2>1 DEF CallsOf
  <2> QED  BY <1>0, <1>a, <2>1, <2>2, NoRow, StepKeepsCalls
<1>2. CASE LoadForResume(t)
  <2>1. PICK s \in LatestSnapshots : s.status = "waiting_tool" /\ SetState(t, s)
    BY <1>2 DEF LoadForResume
  <2>2. s \in Waiting /\ \A r \in snapshots : ~(r.iteration > s.iteration)
    BY <1>0, <2>1, AgentStateFields DEF LatestSnapshots, Waiting
  <2>3. /\ OthersStand(t) /\ pc[t] = "load" /\ pc'[t] = "fetch" /\ state'[t] = s
        /\ UNCHANGED <<snapshots, used>>
    BY <1>0, <1>2, <2>1 DEF LoadForResume
  <2>4. \A u \in ResumeTasks : pc[u] # "save"
    BY <1>0, <1>a, <2>3, OneAtWork DEF LockTasks
  <2>5. s.asked = used
    BY <1>a, <2>2, <2>4 DEF CallsInv, NewestKnows
  <2>6. CallsOf(t, pc'[t], state'[t])
    BY <2>3, <2>5 DEF CallsOf
  <2> QED  BY <1>0, <1>a, <2>3, <2>6, NoRow, StepKeepsCalls
<1>3. CASE FetchResult(t)
  <2>1. /\ OthersStand(t) /\ pc[t] = "fetch" /\ pc'[t] = "fetch" /\ state'[t] = state[t]
        /\ UNCHANGED <<snapshots, used>>
    BY <1>0, <1>3 DEF FetchResult
  <2> QED  BY <1>0, <1>a, <2>1, NoRow, StepKeepsCalls
<1>4. CASE EmitPartialResults(t)
  <2> DEFINE S == state[t].shown \cup (fetched[t] \ state[t].shown)
  <2>1. S \in SUBSET Calls
    BY <1>0, AgentStateFields
  <2>2. state'[t] = [state[t] EXCEPT !.shown = S]
    BY <1>0, <1>4 DEF EmitPartialResults, MarkShown
  <2>3. state'[t].asked = state[t].asked
    <3> HIDE DEF S
    <3> QED  BY <1>0, <2>1, <2>2, IterationFields
  <2>4. /\ OthersStand(t) /\ pc[t] = "fetch" /\ pc'[t] = "persist"
        /\ UNCHANGED <<snapshots, used>>
    BY <1>0, <1>4 DEF EmitPartialResults, MarkShown, Fetched
  <2>5. CallsOf(t, pc'[t], state'[t])
    BY <1>a, <2>3, <2>4 DEF CallsOf
  <2> QED  BY <1>0, <1>a, <2>4, <2>5, NoRow, StepKeepsCalls
<1>5. CASE ResumeFromSnapshot(t)
  <2>1. state'[t].asked = state[t].asked
    BY <1>0, <1>5, InjectResultsFields DEF ResumeFromSnapshot
  <2>2. /\ OthersStand(t) /\ pc[t] = "fetch" /\ pc'[t] = "loop"
        /\ UNCHANGED <<snapshots, used>>
    BY <1>0, <1>5 DEF ResumeFromSnapshot, Fetched
  <2>3. CallsOf(t, pc'[t], state'[t])
    BY <1>a, <2>1, <2>2 DEF CallsOf
  <2> QED  BY <1>0, <1>a, <2>2, <2>3, NoRow, StepKeepsCalls
<1>6. CASE PersistPartial(t) \/ SaveAndRecheck(t)
  <2>1. /\ OthersStand(t) /\ SaveSnapshot(t) /\ UNCHANGED <<state, used>>
        /\ pc[t] \in {"persist", "resave"} /\ pc'[t] \in {"release", "fetch"}
    BY <1>0, <1>6 DEF PersistPartial, SaveAndRecheck
  <2>2. NoNewTurn /\ snapshots' \subseteq snapshots \cup {state[t]}
    BY <1>0, <1>a, <2>1, KnownTurn DEF SaveSnapshot
  <2>3. CallsOf(t, pc'[t], state'[t])
    BY <1>0, <1>a, <2>1 DEF CallsOf
  <2> QED  BY <1>0, <1>a, <2>1, <2>2, <2>3, StepKeepsCalls
<1> QED  BY <1>0, <1>1, <1>2, <1>3, <1>4, <1>5, <1>6, ExecuteKeepsCalls, EndKeepsCalls
         DEF Resume

\* ConfirmHandler makes no call and saves nothing.
LEMMA ConfirmKeepsCalls ==
  ASSUME CallsOK, NEW t \in ConfirmTasks, Confirm(t), ~HandlerFails(t)
  PROVE  CallsInv'
<1> USE DEF OthersStand, Goto, SetState, locals, tables, history
<1>0. /\ t \in Tasks
      /\ pc \in [Tasks -> Labels] /\ state \in [Tasks -> AgentState]
      /\ todo \in [Tasks -> SUBSET Calls]
      /\ msg \in [ConfirmTasks -> Decisions \cup {None}]
  BY TasksAssumption DEF CallsOK, RunsOK, TypeOK, TaskType, Tasks, LockTasks
<1>1. UNCHANGED <<snapshots, used>> /\ pc[t] # "save"
  BY <1>0 DEF Confirm, TakeDecision, LoadForConfirm, NothingToConfirm, ForwardConfirmed,
     StoreRejection, SignalRejection, Release
<1>2. /\ \A u \in Tasks \ {t} : pc'[u] = pc[u] /\ state'[u] = state[u] /\ todo'[u] = todo[u]
      /\ \A u \in ConfirmTasks \ {t} : msg'[u] = msg[u]
  BY <1>0 DEF Confirm, TakeDecision, LoadForConfirm, NothingToConfirm, ForwardConfirmed,
     StoreRejection, SignalRejection, Release, Forget
<1>3. OthersStand(t)
  BY <1>2
<1> QED  BY <1>0, <1>1, <1>3, NoRow, StepKeepsCalls DEF CallsOK, RunsOK

\* Every step.
LEMMA NextKeepsCalls ==
  ASSUME CallsOK, FaultFree, [Next]_vars
  PROVE  CallsInv'
<1>0. /\ JobTask \in Tasks \ ConfirmTasks /\ JobTask \notin ResumeTasks
      /\ ResumeTasks \subseteq Tasks /\ ConfirmTasks \subseteq Tasks
  BY TasksAssumption DEF Tasks, LockTasks
<1>a. /\ \A t \in Tasks : ~ExecutorFails(t) /\ ~HandlerFails(t)
      /\ ~Crash
  BY NoFaults DEF CallsOK, RunsOK
<1>1. CASE StartJob
  <2>1. /\ OthersStand(JobTask) /\ UNCHANGED <<snapshots, used>>
        /\ pc[JobTask] = "ready" /\ pc'[JobTask] = "loop"
        /\ state'[JobTask].asked = {}
    BY <1>0, <1>1
       DEF StartJob, OthersStand, Goto, NewState, CallsOK, RunsOK, TypeOK, TaskType, history
  <2>2. used = {}
    BY <1>0, <2>1 DEF CallsOK, CallsInv, CallsOf
  <2>3. CallsOf(JobTask, pc'[JobTask], state'[JobTask])
    BY <1>0, <2>1, <2>2 DEF CallsOf
  <2> QED  BY <1>0, <2>1, <2>3, NoRow, StepKeepsCalls DEF CallsOK, RunsOK
<1>2. CASE Job /\ ~StartJob
  BY <1>0, <1>a, <1>2, ExecuteKeepsCalls, EndKeepsCalls DEF Job
<1>3. CASE \E t \in ResumeTasks : Resume(t)
  BY <1>0, <1>a, <1>3, ResumeKeepsCalls
<1>4. CASE \E t \in ConfirmTasks : Confirm(t)
  BY <1>0, <1>a, <1>4, ConfirmKeepsCalls
<1>5. CASE \/ \E c \in Calls : \/ RunTool(c) \/ SendSignal(c) \/ SignalFails(c)
                               \/ StoreFails(c) \/ WorkerCrash(c) \/ ExpireResult(c)
           \/ \E c \in Calls, b \in BOOLEAN : Decide(c, b)
           \/ ExpireLock \/ OutliveLock
           \/ UNCHANGED vars
  <2>1. UNCHANGED <<pc, state, snapshots, used>>
    BY <1>5 DEF RunTool, SendSignal, SignalFails, StoreFails, WorkerCrash, ExpireResult, Decide,
       ExpireLock, OutliveLock, vars, locals, tables, history
  <2> QED  BY <2>1 DEF CallsOK, CallsInv, CallsOf, NewestKnows, OneTurnPerCall, Waiting
<1> QED  BY <1>a, <1>1, <1>2, <1>3, <1>4, <1>5 DEF Next

\* No call is made at first.
LEMMA InitCalls == Init => CallsInv
<1> SUFFICES ASSUME Init  PROVE CallsInv
  OBVIOUS
<1>1. Waiting = {} /\ used = {}
  BY DEF Init, Waiting
<1>2. \A t \in Tasks : pc[t] \in {"ready", "idle"}
  BY DEF Init
<1> QED  BY <1>1, <1>2
         DEF CallsInv, CallsOf, NewestKnows, OneTurnPerCall, Thinking, Suspended

\* The run in progress and the latest suspended snapshot know every call the LLM has
\* made, and no call belongs to two turns.
THEOREM CallsInvariant ==
  ASSUME FaultFree
  PROVE  Spec => []CallsOK
<1>1. CallsOK /\ [Next]_vars => CallsInv'
  BY NextKeepsCalls
<1>2. RunsOK <=> TypeOK /\ LockInv /\ ConversationInv /\ ConfirmInv /\ TurnInv /\ RunInv
  BY DEF RunsOK
<1>3. CallsOK <=> RunsOK /\ CallsInv
  BY DEF CallsOK
<1> QED  BY <1>1, <1>2, <1>3, InitCalls, TypeCorrect, LockWithoutFaults,
            ConversationInvariant, ConfirmInvariant, TurnsWithoutFaults, RunInvariant, PTL
         DEF Spec

-----------------------------------------------------------------------------
(* Injections: where nothing fails, the results of a turn enter a           *)
(* conversation once.                                                       *)

\* A run at label l with AgentState s leads to a row with a number higher than i.
Advancing(l, s, i) ==
    \/ l = "loop" /\ i <= s.iteration
    \/ l \in {"checkpoint", "llm", "save", "finalSave"} /\ i < s.iteration

\* A suspended snapshot whose results were injected is not the latest any more, or
\* will not be when the run that took them saves.
Overtaken(w) ==
    \/ \E r \in snapshots : r.iteration > w.iteration
    \/ \E t \in ResumeTasks : Advancing(pc[t], state[t], w.iteration)

InjectedOvertaken ==
    \A w \in Waiting : \A c \in w.pending :
        injected[c] > 0 /\ w.iteration < MaxIterations => Overtaken(w)

\* What the LLM has just asked for was not injected.
NotYetInjected(l, s) == l = "save" => \A c \in s.pending : injected[c] = 0

InjectionInv ==
    /\ InjectedOnce
    /\ InjectedOvertaken
    /\ \A t \in Tasks \ ConfirmTasks : NotYetInjected(pc[t], state[t])

\* A step of t that starts no turn and injects nothing.
LEMMA StepKeepsInjection ==
  ASSUME InjectionInv, NEW t \in Tasks, OthersStand(t), UNCHANGED injected, NoNewTurn,
         t \notin ConfirmTasks => NotYetInjected(pc'[t], state'[t]),
         t \in ResumeTasks =>
             \A w \in Waiting :
                 w.iteration < MaxIterations /\ Advancing(pc[t], state[t], w.iteration)
                 => \/ Advancing(pc'[t], state'[t], w.iteration)
                    \/ \E r \in snapshots' : r.iteration > w.iteration
  PROVE  InjectionInv'
<1>1. ASSUME NEW w \in Waiting, Overtaken(w), w.iteration < MaxIterations
      PROVE  \/ \E r \in snapshots' : r.iteration > w.iteration
             \/ \E u \in ResumeTasks : Advancing(pc'[u], state'[u], w.iteration)
  <2>1. CASE \E r \in snapshots : r.iteration > w.iteration
    BY <2>1 DEF NoNewTurn
  <2>2. CASE \E u \in ResumeTasks : Advancing(pc[u], state[u], w.iteration)
    <3>1. PICK u \in ResumeTasks : Advancing(pc[u], state[u], w.iteration)
      BY <2>2
    <3>2. u # t => pc'[u] = pc[u] /\ state'[u] = state[u]
      BY DEF OthersStand, Tasks, LockTasks
    <3> QED  BY <1>1, <3>1, <3>2
  <2> QED  BY <1>1, <2>1, <2>2 DEF Overtaken
<1>2. \A s \in Waiting' : \E w \in Waiting : w.iteration = s.iteration /\ w.pending = s.pending
  BY DEF NoNewTurn, SameTurn, Waiting
<1>3. InjectedOnce'
  BY <1>2 DEF InjectionInv, InjectedOnce, Waiting
<1>4. InjectedOvertaken'
  <2> SUFFICES ASSUME NEW s \in Waiting', NEW c \in s.pending, injected'[c] > 0,
                      s.iteration < MaxIterations
               PROVE  \/ \E r \in snapshots' : r.iteration > s.iteration
                      \/ \E u \in ResumeTasks : Advancing(pc'[u], state'[u], s.iteration)
    BY DEF InjectedOvertaken, Overtaken, Advancing
  <2>1. PICK w \in Waiting : w.iteration = s.iteration /\ w.pending = s.pending
    BY <1>2
  <2>2. Overtaken(w)
    BY <2>1 DEF InjectionInv, InjectedOvertaken
  <2> QED  BY <1>1, <2>1, <2>2
<1>5. ASSUME NEW u \in Tasks \ ConfirmTasks
      PROVE  NotYetInjected(pc[u], state[u])'
  <2>1. NotYetInjected(pc'[u], state'[u])
    BY DEF InjectionInv, OthersStand
  <2> QED  BY <2>1 DEF NotYetInjected
<1> QED  BY <1>3, <1>4, <1>5 DEF InjectionInv

InjectionOK == CallsOK /\ AnsweredInv /\ InjectionInv

\* The agent loop.
LEMMA ExecuteKeepsInjection ==
  ASSUME InjectionOK, NEW t \in Tasks \ ConfirmTasks, Execute(t), ~ExecutorFails(t)
  PROVE  InjectionInv'
<1> USE DEF OthersStand, Goto, SetState, locals, tables, history
<1>0. /\ t \in Tasks
      /\ pc \in [Tasks -> Labels] /\ state \in [Tasks -> AgentState]
      /\ todo \in [Tasks -> SUBSET Calls] /\ state[t] \in AgentState
      /\ snapshots \subseteq AgentState /\ MaxIterations \in Nat
      /\ injected \in [Calls -> Nat]
  BY BoundsAssumption
     DEF InjectionOK, CallsOK, RunsOK, TypeOK, TaskType, TableType, HistoryType
<1>a. TurnInv /\ InjectionInv
  BY DEF InjectionOK, CallsOK, RunsOK
<1>b. state[t].iteration \in Nat /\ \A w \in Waiting : w \in snapshots /\ w.iteration \in Nat
  BY <1>0, AgentStateFields DEF Waiting
<1>1. CASE MaxIterationsReached(t) \/ LLMAnswers(t)
  <2>1. /\ OthersStand(t) /\ UNCHANGED <<snapshots, injected>>
        /\ pc'[t] = "finalSave" /\ state'[t].iteration = state[t].iteration
        /\ pc[t] = "llm" \/ (pc[t] = "loop" /\ state[t].iteration >= MaxIterations)
    BY <1>0, <1>1, MarkEndedFields, IterationFields
       DEF MaxIterationsReached, LLMAnswers, Return, ReturnLabel
  <2>2. \A w \in Waiting : w.iteration < MaxIterations
                           /\ Advancing(pc[t], state[t], w.iteration)
                           => Advancing(pc'[t], state'[t], w.iteration)
    BY <1>0, <1>b, <2>1 DEF Advancing
  <2> QED  BY <1>0, <1>a, <2>1, <2>2, NoRow, StepKeepsInjection DEF NotYetInjected
<1>2. CASE NextIteration(t)
  <2>1. state[t].iteration + 1 \in Nat
    BY <1>b
  <2>2. state'[t].iteration = state[t].iteration + 1
    BY <1>0, <1>2, <2>1, IterationFields DEF NextIteration
  <2>3. /\ OthersStand(t) /\ UNCHANGED <<snapshots, injected>>
        /\ pc[t] = "loop" /\ pc'[t] \in {"checkpoint", "llm"}
    BY <1>0, <1>2 DEF NextIteration
  <2>4. \A w \in Waiting : Advancing(pc[t], state[t], w.iteration)
                           => Advancing(pc'[t], state'[t], w.iteration)
    BY <1>b, <2>2, <2>3 DEF Advancing
  <2> QED  BY <1>0, <1>a, <2>3, <2>4, NoRow, StepKeepsInjection DEF NotYetInjected
<1>3. CASE Checkpoint(t) \/ StreamEndsEarly(t)
  <2>1. /\ OthersStand(t) /\ UNCHANGED <<state, injected>>
        /\ pc[t] \in {"checkpoint", "llm"} /\ pc'[t] \in {"loop", "llm"}
    BY <1>0, <1>3 DEF Checkpoint, StreamEndsEarly
  <2>2. NoNewTurn
    BY <1>0, <1>3, <1>a, <2>1, NoRow, KnownTurn DEF Checkpoint, StreamEndsEarly
  <2>3. \A w \in Waiting : Advancing(pc[t], state[t], w.iteration)
                           => Advancing(pc'[t], state'[t], w.iteration)
    BY <1>b, <2>1 DEF Advancing
  <2> QED  BY <1>0, <1>a, <2>1, <2>2, <2>3, StepKeepsInjection DEF NotYetInjected
<1>4. CASE LLMCallsTools(t)
  <2>1. PICK T \in SUBSET (Calls \ used) : SetState(t, MarkWaitingTool(state[t], T))
    BY <1>4 DEF LLMCallsTools
  <2>2. state'[t].iteration = state[t].iteration /\ state'[t].pending = T
    BY <1>0, <2>1, MarkWaitingToolFields, IterationFields
  <2>3. /\ OthersStand(t) /\ UNCHANGED <<snapshots, injected>>
        /\ pc[t] = "llm" /\ pc'[t] = "save"
    BY <1>0, <1>4, <2>1 DEF LLMCallsTools
  <2>4. \A w \in Waiting : Advancing(pc[t], state[t], w.iteration)
                           => Advancing(pc'[t], state'[t], w.iteration)
    BY <1>b, <2>2, <2>3 DEF Advancing
  <2>5. \A c \in T : injected[c] = 0
    BY <1>0, <2>1 DEF InjectionOK, AnsweredInv, Injected
  <2>6. NotYetInjected(pc'[t], state'[t])
    BY <2>2, <2>5 DEF NotYetInjected
  <2> QED  BY <1>0, <1>a, <2>3, <2>4, <2>6, NoRow, StepKeepsInjection
<1>5. CASE SaveWaiting(t)
  <2>1. /\ OthersStand(t) /\ UNCHANGED <<state, injected>>
        /\ pc[t] = "save" /\ pc'[t] = "update"
        /\ snapshots' = snapshots \cup {state[t]}
    BY <1>0, <1>5 DEF SaveWaiting, SaveSnapshot
  <2>2. Waiting' \subseteq Waiting \cup {state[t]}
    BY <2>1 DEF Waiting
  <2>3. \A c \in state[t].pending : injected[c] = 0
    BY <2>1, <1>a DEF InjectionInv, NotYetInjected
  <2>4. InjectedOnce'
    BY <1>0, <1>a, <2>1, <2>3, AgentStateFields DEF InjectionInv, InjectedOnce
  <2>5. ASSUME NEW w \in Waiting, Overtaken(w)
        PROVE  Overtaken(w)'
    <3>1. CASE \E r \in snapshots : r.iteration > w.iteration
      BY <2>1, <3>1 DEF Overtaken
    <3>2. CASE \E u \in ResumeTasks : Advancing(pc[u], state[u], w.iteration)
      <4>1. PICK u \in ResumeTasks : Advancing(pc[u], state[u], w.iteration)
        BY <3>2
      <4>2. CASE u = t
        BY <1>b, <2>1, <4>1, <4>2 DEF Advancing, Overtaken
      <4>3. CASE u # t
        <5>1. pc'[u] = pc[u] /\ state'[u] = state[u]
          BY <2>1, <4>3 DEF Tasks, LockTasks
        <5>2. Advancing(pc'[u], state'[u], w.iteration)
          BY <4>1, <5>1
        <5> QED  BY <5>2 DEF Overtaken, Advancing
      <4> QED  BY <4>2, <4>3
    <3> QED  BY <2>5, <3>1, <3>2 DEF Overtaken
  <2>6. InjectedOvertaken'
    <3> SUFFICES ASSUME NEW w \in Waiting', NEW c \in w.pending, injected'[c] > 0,
                        w.iteration < MaxIterations
                 PROVE  Overtaken(w)'
      BY DEF InjectedOvertaken
    <3>1. w \in Waiting
      BY <2>1, <2>2, <2>3
    <3> QED  BY <1>a, <2>1, <2>5, <3>1 DEF InjectionInv, InjectedOvertaken
  <2>7. ASSUME NEW u \in Tasks \ ConfirmTasks
        PROVE  NotYetInjected(pc[u], state[u])'
    BY <1>a, <2>1 DEF InjectionInv, NotYetInjected
  <2> QED  BY <2>4, <2>6, <2>7 DEF InjectionInv
<1>6. CASE UpdateWaiting(t) \/ DispatchTool(t)
  <2>1. \E l \in {"dispatch", "resave", "finalSave"} : Goto(t, l)
    <3>1. CASE UpdateWaiting(t)
      BY <3>1 DEF UpdateWaiting
    <3>2. CASE DispatchTool(t)
      <4>1. PICK c \in todo[t] :
              Goto(t, IF todo[t] = {c} THEN ReturnLabel(t, state[t]) ELSE "dispatch")
        BY <3>2 DEF DispatchTool
      <4> QED  BY <4>1 DEF ReturnLabel
    <3> QED  BY <1>6, <3>1, <3>2
  <2>2. /\ pc[t] \in {"update", "dispatch"} /\ pc'[t] \in {"dispatch", "resave", "finalSave"}
        /\ UNCHANGED <<state, msg, snapshots, injected>>
        /\ \A u \in Tasks \ {t} : todo'[u] = todo[u]
    BY <1>0, <1>6, <2>1 DEF UpdateWaiting, DispatchTool
  <2>3. OthersStand(t)
    BY <1>0, <2>1, <2>2
  <2> QED  BY <1>0, <1>a, <2>2, <2>3, NoRow, StepKeepsInjection DEF NotYetInjected, Advancing
<1> QED  BY <1>1, <1>2, <1>3, <1>4, <1>5, <1>6 DEF Execute

\* The end of a handler saves the row that was missing.
LEMMA EndKeepsInjection ==
  ASSUME InjectionOK, NEW t \in Tasks,
         FinalSave(t) \/ FinalUpdate(t) \/ (Release(t) /\ t # JobTask)
  PROVE  InjectionInv'
<1> USE DEF OthersStand, Goto, locals, tables, history
<1>0. /\ pc \in [Tasks -> Labels] /\ state \in [Tasks -> AgentState]
      /\ todo \in [Tasks -> SUBSET Calls] /\ state[t] \in AgentState
      /\ snapshots \subseteq AgentState
  BY DEF InjectionOK, CallsOK, RunsOK, TypeOK, TaskType, TableType
<1>1. /\ OthersStand(t) /\ UNCHANGED injected
      /\ pc[t] \in {"finalSave", "finalUpdate", "release"}
      /\ pc'[t] \in {"finalUpdate", "done", "release", "idle"}
      /\ pc[t] = "finalSave" => snapshots' = snapshots \cup {state[t]}
  BY <1>0 DEF FinalSave, FinalUpdate, Release, Forget, SaveSnapshot
<1>2. NoNewTurn
  BY <1>1, NoRow, KnownTurn
     DEF FinalSave, FinalUpdate, Release, InjectionOK, CallsOK, RunsOK
<1>3. \A w \in Waiting : Advancing(pc[t], state[t], w.iteration)
                         => \E r \in snapshots' : r.iteration > w.iteration
  BY <1>0, <1>1, AgentStateFields DEF Advancing, Waiting
<1> QED  BY <1>1, <1>2, <1>3, StepKeepsInjection DEF InjectionOK, NotYetInjected

\* resume_from_snapshot injects results that were not injected before.
LEMMA ResumptionKeepsInjection ==
  ASSUME InjectionOK, NEW t \in ResumeTasks, ResumeFromSnapshot(t)
  PROVE  InjectionInv'
<1> USE DEF Goto, SetState, tables
<1>0. /\ t \in Tasks \ ConfirmTasks /\ t \in LockTasks /\ ResumeTasks \subseteq LockTasks
      /\ pc \in [Tasks -> Labels] /\ state \in [Tasks -> AgentState]
      /\ state[t] \in AgentState /\ snapshots \subseteq AgentState
      /\ injected \in [Calls -> Nat] /\ MaxIterations \in Nat
  BY BoundsAssumption, TasksAssumption
     DEF InjectionOK, CallsOK, RunsOK, TypeOK, TaskType, TableType, HistoryType, Tasks, LockTasks
<1>a. /\ TypeOK /\ ConversationInv /\ InjectionInv /\ CallsInv /\ LockInv /\ RunsOK
      /\ TaskCoherent(t) /\ TurnOf(t, pc[t], state[t]) /\ RunOf(t, pc[t], state[t])
  BY <1>0 DEF InjectionOK, CallsOK, RunsOK, ConversationInv, TurnInv, RunInv
<1>1. /\ pc[t] = "fetch" /\ pc'[t] = "loop" /\ UNCHANGED snapshots
      /\ state'[t].iteration = state[t].iteration
      /\ \A u \in Tasks \ {t} : pc'[u] = pc[u] /\ state'[u] = state[u]
      /\ injected' = [c \in Calls |->
                        injected[c] + (IF c \in state[t].pending THEN 1 ELSE 0)]
  BY <1>0, IterationFields DEF ResumeFromSnapshot, Fetched
<1>2. \A w \in Waiting : w \in snapshots /\ w.iteration \in Nat /\ w.pending \subseteq Calls
  BY <1>0, AgentStateFields DEF Waiting
<1>3. Waiting' = Waiting /\ state[t].iteration \in Nat
  BY <1>0, <1>1, AgentStateFields DEF Waiting
<1>4. PICK w0 \in Waiting : SameTurn(w0, state[t])
  BY <1>a, <1>1 DEF TaskCoherent, TurnOf
<1>5. \A w \in Waiting : w.pending \cap state[t].pending # {} => w.iteration = state[t].iteration
  BY <1>a, <1>4 DEF CallsInv, OneTurnPerCall, SameTurn
<1>6. ASSUME NEW u \in ResumeTasks, u # t
      PROVE  pc[u] = "idle"
  BY <1>0, <1>a, <1>1, <1>6, OneAtWork
<1>7. ASSUME NEW w \in Waiting, NEW c \in w.pending, c \in state[t].pending,
             w.iteration < MaxIterations
      PROVE  injected[c] = 0
  <2>1. w.iteration = state[t].iteration
    BY <1>5, <1>7
  <2>2. \A r \in snapshots : ~(r.iteration > w.iteration)
    BY <1>0, <1>a, <1>1, <2>1, AgentStateFields DEF RunOf, Suspended
  <2>3. \A u \in ResumeTasks : ~Advancing(pc[u], state[u], w.iteration)
    BY <1>1, <1>6 DEF Advancing
  <2>4. ~Overtaken(w)
    BY <2>2, <2>3 DEF Overtaken
  <2> QED  BY <1>0, <1>2, <1>7, <1>a, <2>4 DEF InjectionInv, InjectedOvertaken
<1>8. InjectedOnce'
  <2> SUFFICES ASSUME NEW w \in Waiting, w.iteration < MaxIterations, NEW c \in w.pending
               PROVE  injected'[c] <= 1
    BY <1>1, <1>3 DEF InjectedOnce, Waiting
  <2>1. CASE c \in state[t].pending
    BY <1>1, <1>2, <1>7, <2>1
  <2>2. CASE c \notin state[t].pending
    BY <1>0, <1>1, <1>2, <1>a, <2>2 DEF InjectionInv, InjectedOnce, Waiting
  <2> QED  BY <2>1, <2>2
<1>9. InjectedOvertaken'
  <2> SUFFICES ASSUME NEW w \in Waiting, NEW c \in w.pending, injected'[c] > 0,
                      w.iteration < MaxIterations
               PROVE  Overtaken(w)'
    BY <1>3 DEF InjectedOvertaken
  <2>1. CASE c \in state[t].pending
    <3>1. w.iteration = state'[t].iteration
      BY <1>1, <1>5, <2>1
    <3>2. w.iteration <= state'[t].iteration
      BY <1>2, <3>1
    <3> QED  BY <1>1, <3>2 DEF Overtaken, Advancing
  <2>2. CASE c \notin state[t].pending
    <3>1. Overtaken(w)
      BY <1>0, <1>1, <1>2, <1>a, <2>2 DEF InjectionInv, InjectedOvertaken
    <3>2. \A u \in ResumeTasks : ~Advancing(pc[u], state[u], w.iteration)
      BY <1>1, <1>6 DEF Advancing
    <3> QED  BY <1>1, <3>1, <3>2 DEF Overtaken
  <2> QED  BY <2>1, <2>2
<1>10. ASSUME NEW u \in Tasks \ ConfirmTasks
       PROVE  NotYetInjected(pc[u], state[u])'
  <2>1. pc'[u] # "save"
    BY <1>0, <1>1, <1>a, OneRun DEF Thinking, Suspended
  <2> QED  BY <2>1 DEF NotYetInjected
<1> QED  BY <1>8, <1>9, <1>10 DEF InjectionInv

\* The rest of ResumeHandler injects nothing.
LEMMA ResumeKeepsInjection ==
  ASSUME InjectionOK, NEW t \in ResumeTasks, Resume(t), ~ExecutorFails(t), ~HandlerFails(t)
  PROVE  InjectionInv'
<1> USE DEF OthersStand, Goto, SetState, locals, tables, history
<1>0. /\ t \in Tasks \ ConfirmTasks /\ t # JobTask
      /\ pc \in [Tasks -> Labels] /\ state \in [Tasks -> AgentState]
      /\ todo \in [Tasks -> SUBSET Calls]
  BY TasksAssumption
     DEF InjectionOK, CallsOK, RunsOK, TypeOK, TaskType, Tasks, LockTasks
<1>a. TurnInv /\ InjectionInv
  BY DEF InjectionOK, CallsOK, RunsOK
<1>1. CASE \/ TakeSignal(t) \/ LoadForResume(t) \/ NothingToResume(t) \/ FetchResult(t)
           \/ EmitPartialResults(t) \/ PersistPartial(t) \/ NothingNew(t)
           \/ SaveAndRecheck(t) \/ StopResuming(t)
  <2>1. /\ OthersStand(t) /\ UNCHANGED injected
        /\ pc[t] \in {"idle", "load", "fetch", "persist", "resave"}
        /\ pc'[t] # "save"
    BY <1>0, <1>1
       DEF TakeSignal, LoadForResume, NothingToResume, FetchResult, EmitPartialResults, Fetched,
           PersistPartial, NothingNew, SaveAndRecheck, StopResuming, MarkShown
  <2>2. NoNewTurn
    <3>1. CASE PersistPartial(t) \/ SaveAndRecheck(t)
      BY <1>0, <1>a, <2>1, <3>1, KnownTurn DEF PersistPartial, SaveAndRecheck
    <3>2. CASE ~(PersistPartial(t) \/ SaveAndRecheck(t))
      BY <1>1, <3>2, NoRow
         DEF TakeSignal, LoadForResume, NothingToResume, FetchResult, EmitPartialResults,
             NothingNew, StopResuming
    <3> QED  BY <3>1, <3>2
  <2>3. NotYetInjected(pc'[t], state'[t])
    BY <2>1 DEF NotYetInjected
  <2>4. \A w \in Waiting : ~Advancing(pc[t], state[t], w.iteration)
    BY <2>1 DEF Advancing
  <2> QED  BY <1>0, <1>a, <2>1, <2>2, <2>3, <2>4, StepKeepsInjection
<1> QED  BY <1>0, <1>1, ExecuteKeepsInjection, EndKeepsInjection, ResumptionKeepsInjection
         DEF Resume

\* Nor does ConfirmHandler.
LEMMA ConfirmKeepsInjection ==
  ASSUME InjectionOK, NEW t \in ConfirmTasks, Confirm(t), ~HandlerFails(t)
  PROVE  InjectionInv'
<1> USE DEF OthersStand, Goto, SetState, locals, tables, history
<1>0. /\ t \in Tasks /\ t \notin ResumeTasks
      /\ pc \in [Tasks -> Labels] /\ state \in [Tasks -> AgentState]
      /\ todo \in [Tasks -> SUBSET Calls]
      /\ msg \in [ConfirmTasks -> Decisions \cup {None}]
  BY TasksAssumption DEF InjectionOK, CallsOK, RunsOK, TypeOK, TaskType, Tasks, LockTasks
<1>1. UNCHANGED <<snapshots, injected>>
  BY <1>0 DEF Confirm, TakeDecision, LoadForConfirm, NothingToConfirm, ForwardConfirmed,
     StoreRejection, SignalRejection, Release
<1>2. /\ \A u \in Tasks \ {t} : pc'[u] = pc[u] /\ state'[u] = state[u] /\ todo'[u] = todo[u]
      /\ \A u \in ConfirmTasks \ {t} : msg'[u] = msg[u]
  BY <1>0 DEF Confirm, TakeDecision, LoadForConfirm, NothingToConfirm, ForwardConfirmed,
     StoreRejection, SignalRejection, Release, Forget
<1>3. OthersStand(t)
  BY <1>2
<1> QED  BY <1>0, <1>1, <1>3, NoRow, StepKeepsInjection DEF InjectionOK

\* Every step.
LEMMA NextKeepsInjection ==
  ASSUME InjectionOK, FaultFree, [Next]_vars
  PROVE  InjectionInv'
<1>0. /\ JobTask \in Tasks \ ConfirmTasks /\ JobTask \notin ResumeTasks
      /\ ResumeTasks \subseteq Tasks /\ ConfirmTasks \subseteq Tasks
  BY TasksAssumption DEF Tasks, LockTasks
<1>a. /\ \A t \in Tasks : ~ExecutorFails(t) /\ ~HandlerFails(t)
      /\ ~Crash
  BY NoFaults DEF InjectionOK, CallsOK, RunsOK
<1>1. CASE StartJob
  <2>1. /\ OthersStand(JobTask) /\ UNCHANGED <<snapshots, injected>>
        /\ pc'[JobTask] = "loop"
    BY <1>0, <1>1
       DEF StartJob, OthersStand, Goto, InjectionOK, CallsOK, RunsOK, TypeOK, TaskType, history
  <2> QED  BY <1>0, <2>1, NoRow, StepKeepsInjection DEF InjectionOK, NotYetInjected
<1>2. CASE Job /\ ~StartJob
  BY <1>0, <1>a, <1>2, ExecuteKeepsInjection, EndKeepsInjection DEF Job
<1>3. CASE \E t \in ResumeTasks : Resume(t)
  BY <1>0, <1>a, <1>3, ResumeKeepsInjection
<1>4. CASE \E t \in ConfirmTasks : Confirm(t)
  BY <1>0, <1>a, <1>4, ConfirmKeepsInjection
<1>5. CASE \/ \E c \in Calls : \/ RunTool(c) \/ SendSignal(c) \/ SignalFails(c)
                               \/ StoreFails(c) \/ WorkerCrash(c) \/ ExpireResult(c)
           \/ \E c \in Calls, b \in BOOLEAN : Decide(c, b)
           \/ ExpireLock \/ OutliveLock
           \/ UNCHANGED vars
  <2>1. UNCHANGED <<pc, state, snapshots, injected>>
    BY <1>5 DEF RunTool, SendSignal, SignalFails, StoreFails, WorkerCrash, ExpireResult, Decide,
       ExpireLock, OutliveLock, vars, locals, tables, history
  <2> QED  BY <2>1 DEF InjectionOK, InjectionInv, InjectedOnce, InjectedOvertaken, Overtaken,
           Advancing, NotYetInjected, Waiting
<1> QED  BY <1>a, <1>1, <1>2, <1>3, <1>4, <1>5 DEF Next

\* Nothing is injected at first.
LEMMA InitInjection == Init => InjectionInv
<1> SUFFICES ASSUME Init  PROVE InjectionInv
  OBVIOUS
<1>1. snapshots = {} /\ Waiting = {}
  BY DEF Init, Waiting
<1>2. \A t \in Tasks : pc[t] \in {"ready", "idle"}
  BY DEF Init
<1> QED  BY <1>1, <1>2 DEF InjectionInv, InjectedOnce, InjectedOvertaken, NotYetInjected

\* With what was shown before.
THEOREM InjectionInvariant ==
  ASSUME FaultFree
  PROVE  Spec => []InjectionOK
<1>1. InjectionOK /\ [Next]_vars => InjectionInv'
  BY NextKeepsInjection
<1>2. InjectionOK <=> CallsOK /\ AnsweredInv /\ InjectionInv
  BY DEF InjectionOK
<1> QED  BY <1>1, <1>2, InitInjection, CallsInvariant, AnsweredInvariant, PTL DEF Spec

\* Where nothing fails, the result of a call enters the conversation once, however many signals are sent, and whoever resumes.
THEOREM ResultsAreInjectedOnce ==
  ASSUME FaultFree
  PROVE  Spec => []InjectedOnce
  BY InjectionInvariant, PTL DEF InjectionOK, InjectionInv

-----------------------------------------------------------------------------
(* Without faults the tasks, the lock, the tables and the topics together   *)
(* implement ToolTurns, step by step.                                       *)

Ended == \E s \in snapshots : s.status \in Terminal

RefinementOK == InjectionOK /\ Durability /\ ProducedInv

\* A step maps to a stutter when it leaves the calls, the results and the end alone.
LEMMA StutterMaps ==
  ASSUME UNCHANGED <<used, executed, injected>>,
         snapshots \subseteq snapshots',
         \A s \in snapshots' \ snapshots : s.status \notin Terminal
  PROVE  UNCHANGED Turns!vars
<1>1. Ended' = Ended
  BY DEF Ended
<1> QED  BY <1>1 DEF Turns!vars, Ended

\* A saved row ends the job or maps to a stutter.
LEMMA SaveMaps ==
  ASSUME NEW t \in Tasks, SaveSnapshot(t), UNCHANGED <<used, executed, injected>>
  PROVE  [Turns!Next]_(Turns!vars)
<1>1. CASE state[t].status \in Terminal
  <2>1. Ended'
    BY <1>1 DEF SaveSnapshot, Ended
  <2> QED  BY <2>1 DEF Ended, Turns!Next, Turns!End
<1>2. CASE state[t].status \notin Terminal
  BY <1>2, StutterMaps DEF SaveSnapshot
<1> QED  BY <1>1, <1>2

\* A batch of tool calls is an Ask: the job has not ended, and the conversation has a
\* result of every call made before.
LEMMA LLMCallsMap ==
  ASSUME RefinementOK, NEW t \in Tasks \ ConfirmTasks, LLMCallsTools(t)
  PROVE  Turns!Ask
<1>1. /\ pc[t] = "llm" /\ UNCHANGED <<snapshots, executed, injected>>
      /\ \E T \in SUBSET (Calls \ used) : used' = used \cup T
  BY DEF LLMCallsTools, tables
<1>2. ~Ended
  <2>1. RunOf(t, pc[t], state[t])
    BY DEF RefinementOK, InjectionOK, CallsOK, RunsOK, RunInv
  <2> QED  BY <1>1, <2>1 DEF RunOf, Thinking, Ended
<1>3. Injected = used
  <2>1. state[t].asked = used
    BY <1>1 DEF RefinementOK, InjectionOK, CallsOK, CallsInv, CallsOf, Thinking
  <2>2. Coherent(state[t]) /\ state[t].status = "running"
    BY <1>1 DEF RefinementOK, InjectionOK, CallsOK, RunsOK, ConversationInv, TaskCoherent
  <2>3. state[t].asked \subseteq state[t].answered
    BY <2>2 DEF Coherent
  <2> QED  BY <2>1, <2>3 DEF RefinementOK, InjectionOK, AnsweredInv
<1> QED  BY <1>1, <1>2, <1>3 DEF Turns!Ask, Ended, Injected

\* A result of an awaited call is a Provide.
LEMMA ResultMaps ==
  ASSUME RefinementOK, NEW c \in Calls, Awaited(c), executed' = executed \cup {c},
         UNCHANGED <<used, injected, snapshots>>
  PROVE  Turns!Provide
<1>1. c \in used
  BY DEF Awaited, RefinementOK, InjectionOK, CallsOK, RunsOK, ConversationInv, Coherent
<1> QED  BY <1>1 DEF Turns!Provide

\* resume_from_snapshot is a Take: every result is there, and all are taken.
LEMMA ResumptionMaps ==
  ASSUME RefinementOK, NEW t \in ResumeTasks, ResumeFromSnapshot(t)
  PROVE  Turns!Take
<1>0. t \in Tasks \ ConfirmTasks
  BY TasksAssumption DEF Tasks, LockTasks
<1>1. /\ Injected' = Injected \cup state[t].pending
      /\ state[t].pending \subseteq used
      /\ UNCHANGED <<snapshots, used, executed>>
      /\ pc[t] = "fetch" /\ state[t].pending \subseteq fetched[t]
  BY InjectionStep
     DEF RefinementOK, InjectionOK, CallsOK, RunsOK, ResumeFromSnapshot, Fetched, MissingTools
<1>2. state[t].asked = used
  BY <1>0, <1>1 DEF RefinementOK, InjectionOK, CallsOK, CallsInv, CallsOf, Suspended
<1>3. Coherent(state[t]) /\ state[t].status = "waiting_tool"
  BY <1>0, <1>1 DEF RefinementOK, InjectionOK, CallsOK, RunsOK, ConversationInv, TaskCoherent
<1>4. used = state[t].answered \cup state[t].pending
  BY <1>2, <1>3 DEF Coherent
<1>5. state[t].answered \subseteq Injected /\ Injected \subseteq used
  BY <1>0 DEF RefinementOK, InjectionOK, AnsweredInv
<1>6. Injected' = used
  BY <1>1, <1>4, <1>5
<1>7. used \subseteq executed
  BY <1>0, <1>1, <1>4, <1>5 DEF RefinementOK, ProducedInv
<1> QED  BY <1>1, <1>6, <1>7 DEF Turns!Take, Injected

\* Every step of the job is a step of ToolTurns or a stutter.
LEMMA NextMaps ==
  ASSUME RefinementOK, FaultFree, [Next]_vars
  PROVE  [Turns!Next]_(Turns!vars)
<1> USE DEF redis, tables, topics, locals, budgets, history
<1>0. /\ JobTask \in Tasks \ ConfirmTasks
      /\ ResumeTasks \subseteq Tasks \ ConfirmTasks /\ ConfirmTasks \subseteq Tasks
  BY TasksAssumption DEF Tasks, LockTasks
<1>a. /\ \A t \in Tasks : ~ExecutorFails(t) /\ ~HandlerFails(t)
      /\ \A c \in Calls : ~StoreFails(c)
      /\ ~Crash
  BY NoFaults DEF RefinementOK, InjectionOK, CallsOK, RunsOK
<1>b. ASSUME UNCHANGED <<used, executed, injected, snapshots>>
      PROVE  [Turns!Next]_(Turns!vars)
  BY <1>b, StutterMaps
<1>1. ASSUME NEW t \in Tasks \ ConfirmTasks, Execute(t)
      PROVE  [Turns!Next]_(Turns!vars)
  <2>1. CASE LLMCallsTools(t)
    BY <2>1, LLMCallsMap DEF Turns!Next
  <2>2. CASE Checkpoint(t) \/ SaveWaiting(t)
    BY <2>2, SaveMaps DEF Checkpoint, SaveWaiting
  <2>3. CASE \/ MaxIterationsReached(t) \/ NextIteration(t) \/ LLMAnswers(t)
             \/ StreamEndsEarly(t) \/ UpdateWaiting(t) \/ DispatchTool(t)
    BY <1>b, <2>3 DEF MaxIterationsReached, NextIteration, LLMAnswers, StreamEndsEarly,
       UpdateWaiting, DispatchTool
  <2> QED  BY <1>a, <1>1, <2>1, <2>2, <2>3 DEF Execute
<1>2. ASSUME NEW t \in Tasks, FinalSave(t)
      PROVE  [Turns!Next]_(Turns!vars)
  BY <1>2, SaveMaps DEF FinalSave
<1>3. ASSUME NEW t \in Tasks, FinalUpdate(t) \/ Release(t)
      PROVE  [Turns!Next]_(Turns!vars)
  BY <1>b, <1>3 DEF FinalUpdate, Release
<1>4. CASE Job
  <2>1. CASE StartJob
    BY <1>b, <2>1 DEF StartJob
  <2> QED  BY <1>0, <1>a, <1>1, <1>2, <1>3, <1>4, <2>1 DEF Job
<1>5. ASSUME NEW t \in ResumeTasks, Resume(t)
      PROVE  [Turns!Next]_(Turns!vars)
  <2>1. CASE ResumeFromSnapshot(t)
    BY <2>1, ResumptionMaps DEF Turns!Next
  <2>2. CASE PersistPartial(t) \/ SaveAndRecheck(t)
    BY <1>0, <2>2, SaveMaps DEF PersistPartial, SaveAndRecheck
  <2>3. CASE \/ TakeSignal(t) \/ LoadForResume(t) \/ NothingToResume(t) \/ FetchResult(t)
             \/ EmitPartialResults(t) \/ NothingNew(t) \/ StopResuming(t)
    BY <1>b, <2>3 DEF TakeSignal, LoadForResume, NothingToResume, FetchResult,
       EmitPartialResults, NothingNew, StopResuming
  <2> QED  BY <1>0, <1>a, <1>1, <1>2, <1>3, <1>5, <2>1, <2>2, <2>3 DEF Resume
<1>6. ASSUME NEW t \in ConfirmTasks, Confirm(t)
      PROVE  [Turns!Next]_(Turns!vars)
  <2>1. CASE StoreRejection(t)
    <3>1. /\ pc[t] = "answer" /\ executed' = executed \cup {msg[t].call}
          /\ UNCHANGED <<used, injected, snapshots>>
      BY <2>1 DEF StoreRejection
    <3>2. Awaited(msg[t].call)
      BY <1>0, <3>1 DEF RefinementOK, Durability, DurableInv, TaskDurable
    <3>3. msg[t].call \in Calls
      BY <1>0, <3>1 DEF RefinementOK, InjectionOK, CallsOK, RunsOK, TypeOK, TaskType, Decisions
    <3> QED  BY <3>1, <3>2, <3>3, ResultMaps DEF Turns!Next
  <2>2. CASE \/ TakeDecision(t) \/ LoadForConfirm(t) \/ NothingToConfirm(t)
             \/ ForwardConfirmed(t) \/ SignalRejection(t)
    BY <1>b, <2>2 DEF TakeDecision, LoadForConfirm, NothingToConfirm, ForwardConfirmed,
       SignalRejection
  <2> QED  BY <1>0, <1>a, <1>3, <1>6, <2>1, <2>2 DEF Confirm
<1>7. ASSUME NEW c \in Calls, RunTool(c)
      PROVE  [Turns!Next]_(Turns!vars)
  <2>1. Awaited(c)
    BY <1>7 DEF RunTool, RefinementOK, Durability, SnapshotBeforeDispatch
  <2>2. executed' = executed \cup {c} /\ UNCHANGED <<used, injected, snapshots>>
    BY <1>7 DEF RunTool
  <2> QED  BY <2>1, <2>2, ResultMaps DEF Turns!Next
<1>8. ASSUME \/ \E c \in Calls : \/ SendSignal(c) \/ SignalFails(c) \/ WorkerCrash(c)
                                 \/ ExpireResult(c)
             \/ \E c \in Calls, b \in BOOLEAN : Decide(c, b)
             \/ ExpireLock \/ OutliveLock
             \/ UNCHANGED vars
      PROVE  [Turns!Next]_(Turns!vars)
  BY <1>b, <1>8 DEF SendSignal, SignalFails, WorkerCrash, ExpireResult, Decide, ExpireLock, OutliveLock, vars
<1> QED  BY <1>a, <1>4, <1>5, <1>6, <1>7, <1>8 DEF Next

\* Before anything happened.
LEMMA InitMaps == Init => Turns!Init
<1> SUFFICES ASSUME Init  PROVE Turns!Init
  OBVIOUS
<1>1. used = {} /\ executed = {} /\ snapshots = {} /\ {c \in Calls : injected[c] > 0} = {}
  BY DEF Init
<1> QED  BY <1>1 DEF Turns!Init

\* A job whose handlers do not fail keeps the promise of suspend/resume: it asks, waits for every result, takes them all, and asks again.
THEOREM JobImplementsToolTurns ==
  ASSUME FaultFree
  PROVE  Spec => ImplementsToolTurns
<1>1. RefinementOK /\ [Next]_vars => [Turns!Next]_(Turns!vars)
  BY NextMaps
<1>2. RefinementOK <=> InjectionOK /\ Durability /\ ProducedInv
  BY DEF RefinementOK
<1> QED  BY <1>1, <1>2, InitMaps, InjectionInvariant, DurabilityInvariant, InjectedWasProduced,
            PTL DEF Spec, ImplementsToolTurns, Turns!Spec

-----------------------------------------------------------------------------
(* Wake-ups: why a suspended job goes on once every call of its turn is     *)
(* answered, unless something came to nothing since the turn was saved.     *)

\* A call somebody has to execute, confirm or reject.
InFlight(c) ==
    \/ work[c] > 0
    \/ \E b \in BOOLEAN : decisions[c][b] > 0
    \/ \E t \in ConfirmTasks : pc[t] \in {"load", "answer"} /\ msg[t].call = c

\* Somebody has still to send a resume signal, or one is on its way.
Awake ==
    \/ signals > 0
    \/ \E c \in Calls : stored[c] > 0 \/ InFlight(c)
    \/ \E t \in ConfirmTasks : pc[t] = "signal"

\* t has still to send out c, or to end the job for having failed at it.
Owes(t, c) ==
    \/ pc[t] = "update" /\ c \in state[t].pending
    \/ pc[t] = "dispatch" /\ c \in todo[t]
    \/ pc[t] = "finalSave" /\ state[t].status = "failed"

Sent(c) == c \in executed \cup prompts \/ InFlight(c)

\* Every call of the latest turn is sent out, or somebody is about to.
SentInv ==
    ~Ended => \A s \in LatestSnapshots : \A c \in s.pending :
                Sent(c) \/ \E t \in Tasks : Owes(t, c)

\* What the user decided in it is on its way to an answer.
DecidedInv ==
    \A s \in LatestSnapshots : \A c \in s.pending \cap decided :
        c \in executed \/ InFlight(c)

\* A result that expired was not one the job waits for.
StoredInv ==
    \A s \in LatestSnapshots, c \in executed \ results : c \notin s.pending

\* A resume task that will go on with a job whose results have all arrived.
Responsible(t) ==
    \/ pc[t] \in {"load"} \cup Thinking
    \/ pc[t] = "fetch" /\ state[t].pending \subseteq fetched[t] \cup todo[t]
    \/ pc[t] = "finalSave" /\ state[t].status \in Terminal

\* A latest snapshot that waits for results, all of which have arrived.
Complete(s) == s \in LatestSnapshots /\ s.pending # {} /\ s.pending \subseteq results

WakeInv ==
    ~Awake /\ ~Ended /\ (\E s \in snapshots : Complete(s))
    => \E t \in ResumeTasks : Responsible(t)

UnmissedParts == SentInv /\ DecidedInv /\ StoredInv /\ WakeInv

UnmissedInv == Orderly /\ missed = {} => UnmissedParts

\* No step forgets a row, an execution, a decision or a prompt, and only a new turn
\* forgets what came to nothing.
LEMMA NextGrows ==
  ASSUME TypeOK, [Next]_vars
  PROVE  /\ snapshots \subseteq snapshots' /\ executed \subseteq executed'
         /\ decided \subseteq decided' /\ prompts \subseteq prompts'
         /\ missed \subseteq missed' \/ \E t \in Tasks \ ConfirmTasks : SaveWaiting(t)
<1> DEFINE Grows == /\ snapshots \subseteq snapshots' /\ executed \subseteq executed'
                    /\ decided \subseteq decided' /\ prompts \subseteq prompts'
<1> USE DEF tables, history, topics, SaveSnapshot, SendOut
<1>1. ASSUME NEW t \in Tasks,
             Execute(t) \/ FinalSave(t) \/ FinalUpdate(t) \/ HandlerFails(t) \/ Release(t)
      PROVE  Grows /\ (missed \subseteq missed' \/ SaveWaiting(t))
  BY <1>1 DEF Execute, MaxIterationsReached, NextIteration, Checkpoint, LLMCallsTools, LLMAnswers,
     StreamEndsEarly, SaveWaiting, UpdateWaiting, DispatchTool, ExecutorFails, FinalSave,
     FinalUpdate, HandlerFails, Release
<1>2. ASSUME NEW t \in Tasks,
             \/ TakeSignal(t) \/ LoadForResume(t) \/ NothingToResume(t) \/ FetchResult(t)
             \/ EmitPartialResults(t) \/ PersistPartial(t) \/ NothingNew(t)
             \/ ResumeFromSnapshot(t) \/ SaveAndRecheck(t) \/ StopResuming(t)
             \/ TakeDecision(t) \/ LoadForConfirm(t) \/ NothingToConfirm(t)
             \/ ForwardConfirmed(t) \/ StoreRejection(t) \/ SignalRejection(t)
      PROVE  Grows /\ missed \subseteq missed'
  BY <1>2 DEF TakeSignal, LoadForResume, NothingToResume, FetchResult, EmitPartialResults,
     PersistPartial, NothingNew, ResumeFromSnapshot, SaveAndRecheck, StopResuming, TakeDecision,
     LoadForConfirm, NothingToConfirm, ForwardConfirmed, StoreRejection, SignalRejection
<1>3. ASSUME \/ \E c \in Calls : \/ RunTool(c) \/ SendSignal(c) \/ SignalFails(c)
                                 \/ StoreFails(c) \/ WorkerCrash(c) \/ ExpireResult(c)
             \/ \E c \in Calls, b \in BOOLEAN : Decide(c, b)
             \/ ExpireLock \/ OutliveLock \/ StartJob \/ UNCHANGED vars
      PROVE  Grows /\ missed \subseteq missed'
  BY <1>3 DEF RunTool, SendSignal, SignalFails, StoreFails, WorkerCrash, ExpireResult, Decide,
     ExpireLock, OutliveLock, StartJob, vars
<1>4. ASSUME Crash
      PROVE  Grows /\ missed \subseteq missed'
  BY <1>4 DEF Crash
<1>5. /\ ResumeTasks \subseteq Tasks \ ConfirmTasks /\ JobTask \in Tasks \ ConfirmTasks
      /\ ConfirmTasks \subseteq Tasks
  BY TasksAssumption DEF Tasks, LockTasks
<1>6. ASSUME NEW t \in Tasks, HandlerFails(t) \/ Release(t)
      PROVE  Grows /\ missed \subseteq missed'
  BY <1>6 DEF HandlerFails, Release
<1> HIDE DEF Grows
<1>7. Grows /\ (missed \subseteq missed' \/ \E t \in Tasks \ ConfirmTasks : SaveWaiting(t))
  <2> USE DEF Resume, Confirm
  <2> QED  BY <1>1, <1>2, <1>3, <1>4, <1>5, <1>6 DEF Next, Job
<1> QED  BY <1>7 DEF Grows

-----------------------------------------------------------------------------
(* Whatever was executed or decided, some suspended snapshot waits for or   *)
(* waited for.                                                              *)

AwaitedInv == \A c \in executed \cup decided : Awaited(c)

\* A call is executed or decided only after a snapshot that waits for it.
LEMMA NextKeepsAwaited ==
  ASSUME TypeOK, Durability, AwaitedInv, [Next]_vars
  PROVE  AwaitedInv'
<1> USE DEF history
<1>0. \A c : Awaited(c) => Awaited(c)'
  BY NextGrows DEF Awaited
<1>1. ASSUME \A c \in (executed \cup decided)' : c \in executed \cup decided \/ Awaited(c)
      PROVE  AwaitedInv'
  BY <1>0, <1>1 DEF AwaitedInv
<1>2. ASSUME NEW t \in Tasks,
             Execute(t) \/ FinalSave(t) \/ FinalUpdate(t) \/ HandlerFails(t) \/ Release(t)
      PROVE  UNCHANGED <<executed, decided>>
  BY <1>2 DEF Execute, MaxIterationsReached, NextIteration, Checkpoint, LLMCallsTools, LLMAnswers,
     StreamEndsEarly, SaveWaiting, UpdateWaiting, DispatchTool, ExecutorFails, FinalSave,
     FinalUpdate, HandlerFails, Release
<1>3. ASSUME NEW t \in Tasks,
             \/ TakeSignal(t) \/ LoadForResume(t) \/ NothingToResume(t) \/ FetchResult(t)
             \/ EmitPartialResults(t) \/ PersistPartial(t) \/ NothingNew(t)
             \/ ResumeFromSnapshot(t) \/ SaveAndRecheck(t) \/ StopResuming(t)
             \/ TakeDecision(t) \/ LoadForConfirm(t) \/ NothingToConfirm(t)
             \/ ForwardConfirmed(t) \/ SignalRejection(t)
      PROVE  UNCHANGED <<executed, decided>>
  BY <1>3 DEF TakeSignal, LoadForResume, NothingToResume, FetchResult, EmitPartialResults,
     PersistPartial, NothingNew, ResumeFromSnapshot, SaveAndRecheck, StopResuming, TakeDecision,
     LoadForConfirm, NothingToConfirm, ForwardConfirmed, SignalRejection
<1>4. ASSUME NEW t \in ConfirmTasks, StoreRejection(t)
      PROVE  AwaitedInv'
  <2>1. Awaited(msg[t].call)
    BY <1>4 DEF StoreRejection, Durability, DurableInv, TaskDurable, Tasks, LockTasks
  <2> QED  BY <1>1, <1>4, <2>1 DEF StoreRejection
<1>5. ASSUME NEW c \in Calls, RunTool(c) \/ StoreFails(c)
      PROVE  AwaitedInv'
  BY <1>1, <1>5 DEF RunTool, StoreFails, Durability, SnapshotBeforeDispatch
<1>6. ASSUME \/ \E c \in Calls : SendSignal(c) \/ SignalFails(c) \/ WorkerCrash(c) \/ ExpireResult(c)
             \/ ExpireLock \/ OutliveLock \/ StartJob \/ Crash \/ UNCHANGED vars
      PROVE  UNCHANGED <<executed, decided>>
  BY <1>6 DEF SendSignal, SignalFails, WorkerCrash, ExpireResult, ExpireLock, OutliveLock, StartJob,
     Crash, vars
<1>8. ASSUME NEW c \in Calls, NEW b \in BOOLEAN, Decide(c, b)
      PROVE  AwaitedInv'
  BY <1>1, <1>8 DEF Decide, Durability, SnapshotBeforeDispatch
<1>7. ResumeTasks \subseteq Tasks /\ ConfirmTasks \subseteq Tasks /\ JobTask \in Tasks
  BY DEF Tasks, LockTasks
<1> QED  BY <1>1, <1>2, <1>3, <1>4, <1>5, <1>6, <1>7, <1>8 DEF Next, Job, Resume, Confirm

\* What was executed or decided was asked for by a durable suspended snapshot.
LEMMA AwaitedInvariant == Spec => []AwaitedInv
<1>1. Init => AwaitedInv
  BY DEF Init, AwaitedInv
<1> QED  BY <1>1, TypeCorrect, DurabilityInvariant, NextKeepsAwaited, PTL DEF Spec

-----------------------------------------------------------------------------
(* The calls of a turn that is not saved yet are in no snapshot, and no     *)
(* other task waits for them.                                               *)

FreshInv ==
    \A t \in Tasks : pc[t] = "save" =>
        /\ \A s \in snapshots : s.pending \cap state[t].pending = {}
        /\ \A u \in Tasks \ {t} : state[u].pending \cap state[t].pending = {}

\* A step of t that saves at most the state of t and makes t wait for nothing new.
LEMMA StepKeepsFresh ==
  ASSUME FreshInv, NEW t \in Tasks, OthersStand(t), snapshots' \subseteq snapshots \cup {state[t]},
         \/ state'[t].pending \subseteq state[t].pending
         \/ \E s \in snapshots : state'[t].pending = s.pending,
         pc'[t] # "save"
  PROVE  FreshInv'
<1> SUFFICES ASSUME NEW u \in Tasks, pc'[u] = "save"
             PROVE  /\ \A s \in snapshots' : s.pending \cap state'[u].pending = {}
                    /\ \A v \in Tasks \ {u} : state'[v].pending \cap state'[u].pending = {}
  BY DEF FreshInv
<1>1. u # t /\ pc[u] = "save" /\ state'[u] = state[u]
  BY DEF OthersStand
<1>2. /\ \A s \in snapshots : s.pending \cap state[u].pending = {}
      /\ \A v \in Tasks \ {u} : state[v].pending \cap state[u].pending = {}
  BY <1>1 DEF FreshInv
<1>3. state'[t].pending \cap state'[u].pending = {}
  BY <1>1, <1>2
<1>4. ASSUME NEW v \in Tasks \ {u, t}  PROVE state'[v].pending \cap state'[u].pending = {}
  BY <1>1, <1>2 DEF OthersStand
<1>5. \A s \in snapshots' : s.pending \cap state'[u].pending = {}
  BY <1>1, <1>2
<1> QED  BY <1>3, <1>4, <1>5

\* A coherent conversation waits for calls the LLM has made.
LEMMA PendingUsed ==
  ASSUME NEW s, Coherent(s)
  PROVE  s.pending \subseteq used
  BY DEF Coherent

\* Steps of the agent loop and of the end of a handler change nothing of the other
\* tasks.
LEMMA LoopStands ==
  ASSUME TypeOK, NEW t \in Tasks,
         Execute(t) \/ FinalSave(t) \/ FinalUpdate(t) \/ HandlerFails(t) \/ Release(t)
  PROVE  /\ OthersStand(t)
         /\ \A u \in Tasks \ {t} : fetched'[u] = fetched[u]
         /\ UNCHANGED <<stored, signals, decisions, results, executed, decided, msg>>
<1> USE DEF OthersStand, Goto, SetState, Return, SaveSnapshot, UpdateJob, redis, tables, locals, topics, history
<1>0. /\ pc \in [Tasks -> Labels] /\ state \in [Tasks -> AgentState]
      /\ todo \in [Tasks -> SUBSET Calls] /\ fetched \in [Tasks -> SUBSET Calls]
  BY DEF TypeOK, TaskType
<1>1. CASE MaxIterationsReached(t) \/ LLMAnswers(t) \/ ExecutorFails(t) \/ NextIteration(t)
           \/ Checkpoint(t) \/ StreamEndsEarly(t) \/ SaveWaiting(t) \/ UpdateWaiting(t)
  BY <1>0, <1>1 DEF MaxIterationsReached, LLMAnswers, ExecutorFails, NextIteration, Checkpoint,
     StreamEndsEarly, SaveWaiting, UpdateWaiting
<1>2. CASE LLMCallsTools(t)
  <2>1. PICK T \in SUBSET Calls : SetState(t, MarkWaitingTool(state[t], T))
    BY <1>2 DEF LLMCallsTools
  <2> QED  BY <1>0, <1>2, <2>1 DEF LLMCallsTools
<1>3. CASE DispatchTool(t)
  <2>1. PICK c \in todo[t] :
          /\ todo' = [todo EXCEPT ![t] = todo[t] \ {c}]
          /\ Goto(t, IF todo[t] = {c} THEN ReturnLabel(t, state[t]) ELSE "dispatch")
    BY <1>3 DEF DispatchTool
  <2>2. \A u \in Tasks \ {t} : todo'[u] = todo[u]
    BY <1>0, <2>1
  <2>3. \A u \in Tasks \ {t} : pc'[u] = pc[u]
    BY <1>0, <2>1
  <2> QED  BY <1>0, <1>3, <2>2, <2>3 DEF DispatchTool
<1>4. CASE FinalSave(t) \/ FinalUpdate(t) \/ HandlerFails(t) \/ Release(t)
  BY <1>0, <1>4 DEF FinalSave, FinalUpdate, HandlerFails, Release, Forget
<1> QED  BY <1>1, <1>2, <1>3, <1>4 DEF Execute

\* The LLM asks for calls it has not made before.
LEMMA LLMKeepsFresh ==
  ASSUME TypeOK, ConversationInv, FreshInv, NEW t \in Tasks, LLMCallsTools(t)
  PROVE  FreshInv'
<1>0. /\ pc \in [Tasks -> Labels] /\ state \in [Tasks -> AgentState]
      /\ state[t] \in AgentState
  BY DEF TypeOK, TaskType
<1>1. PICK T \in (SUBSET (Calls \ used)) \ {{}} : SetState(t, MarkWaitingTool(state[t], T))
  BY DEF LLMCallsTools
<1>2. state'[t].pending = T
  BY <1>0, <1>1, MarkWaitingToolFields DEF SetState
<1>3. /\ OthersStand(t) /\ UNCHANGED snapshots /\ pc'[t] = "save"
  BY <1>0, LoopStands DEF LLMCallsTools, Goto, tables, Execute
<1>4. /\ \A s \in snapshots : s.pending \subseteq used
      /\ \A u \in Tasks : state[u].pending \subseteq used
  BY PendingUsed DEF ConversationInv, TaskCoherent
<1> SUFFICES ASSUME NEW u \in Tasks, pc'[u] = "save"
             PROVE  /\ \A s \in snapshots : s.pending \cap state'[u].pending = {}
                    /\ \A v \in Tasks \ {u} : state'[v].pending \cap state'[u].pending = {}
  BY <1>3 DEF FreshInv
<1>5. CASE u = t
  BY <1>2, <1>3, <1>4, <1>5 DEF OthersStand
<1>6. CASE u # t
  <2>1. pc[u] = "save" /\ state'[u] = state[u]
    BY <1>3, <1>6 DEF OthersStand
  <2>2. ASSUME NEW v \in Tasks \ {u}  PROVE state'[v].pending \cap state'[u].pending = {}
    <3>1. CASE v = t
      BY <1>2, <1>4, <2>1, <3>1
    <3>2. CASE v # t
      <4>1. state'[v] = state[v]
        BY <1>3, <3>2 DEF OthersStand
      <4> QED  BY <2>1, <4>1 DEF FreshInv
    <3> QED  BY <3>1, <3>2
  <2> QED  BY <2>1, <2>2 DEF FreshInv
<1> QED  BY <1>5, <1>6

\* The agent loop and the end of a handler.
LEMMA LoopKeepsFresh ==
  ASSUME TypeOK, ConversationInv, FreshInv, NEW t \in Tasks,
         Execute(t) \/ FinalSave(t) \/ FinalUpdate(t) \/ HandlerFails(t) \/ Release(t)
  PROVE  FreshInv'
<1> USE DEF Goto, SetState, Return, SaveSnapshot, tables, locals
<1>0. /\ pc \in [Tasks -> Labels] /\ state \in [Tasks -> AgentState]
      /\ state[t] \in AgentState
  BY DEF TypeOK, TaskType
<1>1. OthersStand(t)
  BY LoopStands
<1>2. CASE MaxIterationsReached(t) \/ LLMAnswers(t) \/ ExecutorFails(t)
  <2>1. state'[t].pending = {} /\ pc'[t] # "save" /\ UNCHANGED snapshots
    BY <1>0, <1>2, MarkEndedFields DEF MaxIterationsReached, LLMAnswers, ExecutorFails, ReturnLabel
  <2> QED  BY <1>1, <2>1, StepKeepsFresh
<1>3. CASE NextIteration(t)
  <2>1. state[t].iteration + 1 \in Nat
    BY <1>0, AgentStateFields
  <2>2. state'[t] = [state[t] EXCEPT !.iteration = state[t].iteration + 1]
    BY <1>0, <1>3 DEF NextIteration
  <2>3. state'[t].pending = state[t].pending /\ pc'[t] # "save" /\ UNCHANGED snapshots
    BY <1>0, <1>3, <2>1, <2>2, IterationFields DEF NextIteration
  <2> QED  BY <1>1, <2>3, StepKeepsFresh
<1>4. CASE \/ Checkpoint(t) \/ StreamEndsEarly(t) \/ SaveWaiting(t) \/ UpdateWaiting(t)
           \/ FinalSave(t) \/ FinalUpdate(t) \/ HandlerFails(t)
  <2>1. /\ state'[t] = state[t] /\ pc'[t] # "save"
        /\ snapshots' \subseteq snapshots \cup {state[t]}
    BY <1>0, <1>4 DEF Checkpoint, StreamEndsEarly, SaveWaiting, UpdateWaiting, FinalSave,
       FinalUpdate, HandlerFails
  <2> QED  BY <1>1, <2>1, StepKeepsFresh
<1>5. CASE DispatchTool(t)
  <2>1. PICK c \in todo[t] :
          Goto(t, IF todo[t] = {c} THEN ReturnLabel(t, state[t]) ELSE "dispatch")
    BY <1>5 DEF DispatchTool
  <2>2. state'[t] = state[t] /\ pc'[t] # "save" /\ UNCHANGED snapshots
    BY <1>0, <1>5, <2>1 DEF DispatchTool, ReturnLabel
  <2> QED  BY <1>1, <2>2, StepKeepsFresh
<1>6. CASE Release(t)
  <2>1. state'[t].pending = {} /\ pc'[t] # "save" /\ UNCHANGED snapshots
    BY <1>0, <1>6 DEF Release, Forget, NewState
  <2> QED  BY <1>1, <2>1, StepKeepsFresh
<1> QED  BY <1>2, <1>3, <1>4, <1>5, <1>6, LLMKeepsFresh DEF Execute

\* ResumeHandler, outside the agent loop: what its steps leave alone.
ResumeStep(t) ==
    \/ TakeSignal(t) \/ LoadForResume(t) \/ NothingToResume(t) \/ FetchResult(t)
    \/ EmitPartialResults(t) \/ PersistPartial(t) \/ NothingNew(t)
    \/ ResumeFromSnapshot(t) \/ SaveAndRecheck(t) \/ StopResuming(t)

\* A step of the handler changes nothing of the other tasks and produces no result.
LEMMA ResumeStands ==
  ASSUME TypeOK, NEW t \in ResumeTasks, ResumeStep(t)
  PROVE  /\ OthersStand(t)
         /\ \A u \in Tasks \ {t} : fetched'[u] = fetched[u]
         /\ snapshots' \subseteq snapshots \cup {state[t]}
         /\ UNCHANGED <<work, stored, decisions, results, executed, decided, msg>>
         /\ TakeSignal(t) \/ UNCHANGED signals
<1> USE DEF OthersStand, Goto, SetState, SaveSnapshot, redis, tables, locals, topics, history
<1>0. /\ t \in Tasks
      /\ pc \in [Tasks -> Labels] /\ state \in [Tasks -> AgentState]
      /\ todo \in [Tasks -> SUBSET Calls] /\ fetched \in [Tasks -> SUBSET Calls]
  BY DEF TypeOK, TaskType, Tasks, LockTasks
<1>1. CASE TakeSignal(t) \/ LoadForResume(t) \/ NothingToResume(t) \/ FetchResult(t)
           \/ PersistPartial(t) \/ NothingNew(t) \/ SaveAndRecheck(t) \/ StopResuming(t)
  BY <1>0, <1>1 DEF TakeSignal, LoadForResume, NothingToResume, FetchResult, PersistPartial,
     NothingNew, SaveAndRecheck, StopResuming
<1>2. CASE EmitPartialResults(t)
  BY <1>0, <1>2 DEF EmitPartialResults, MarkShown
<1>3. CASE ResumeFromSnapshot(t)
  BY <1>0, <1>3 DEF ResumeFromSnapshot
<1> QED  BY <1>1, <1>2, <1>3 DEF ResumeStep

\* ConfirmHandler: what its steps leave alone.
ConfirmStep(t) ==
    \/ TakeDecision(t) \/ LoadForConfirm(t) \/ NothingToConfirm(t)
    \/ ForwardConfirmed(t) \/ StoreRejection(t) \/ SignalRejection(t)

\* It saves nothing and changes nothing of the other tasks.
LEMMA ConfirmStands ==
  ASSUME TypeOK, NEW t \in ConfirmTasks, ConfirmStep(t)
  PROVE  /\ OthersStand(t)
         /\ UNCHANGED <<snapshots, fetched, stored, decided>>
<1> USE DEF OthersStand, Goto, SetState, redis, tables, locals, topics, history
<1>0. /\ t \in Tasks
      /\ pc \in [Tasks -> Labels] /\ state \in [Tasks -> AgentState]
      /\ msg \in [ConfirmTasks -> Decisions \cup {None}]
  BY DEF TypeOK, TaskType, Tasks, LockTasks
<1>1. CASE TakeDecision(t)
  <2>1. pc[t] = "idle" /\ (Goto(t, "load") \/ UNCHANGED pc)
    BY <1>1 DEF TakeDecision
  <2>2. \A u \in ConfirmTasks \ {t} : msg'[u] = msg[u]
    BY <1>0, <1>1 DEF TakeDecision
  <2> QED  BY <1>0, <1>1, <2>1, <2>2 DEF TakeDecision
<1>2. CASE LoadForConfirm(t) \/ NothingToConfirm(t) \/ ForwardConfirmed(t) \/ StoreRejection(t)
           \/ SignalRejection(t)
  BY <1>0, <1>2 DEF LoadForConfirm, NothingToConfirm, ForwardConfirmed, StoreRejection,
     SignalRejection
<1> QED  BY <1>1, <1>2 DEF ConfirmStep

\* Every step keeps the calls of an unsaved turn apart.
LEMMA NextKeepsFresh ==
  ASSUME TypeOK, ConversationInv, ConfirmInv, FreshInv, [Next]_vars
  PROVE  FreshInv'
<1> USE DEF Goto, SetState, tables, locals
<1>0. /\ pc \in [Tasks -> Labels] /\ state \in [Tasks -> AgentState]
      /\ JobTask \in Tasks /\ ResumeTasks \subseteq Tasks /\ ConfirmTasks \subseteq Tasks
  BY DEF TypeOK, TaskType, Tasks, LockTasks
<1>1. ASSUME NEW t \in Tasks,
             Execute(t) \/ FinalSave(t) \/ FinalUpdate(t) \/ HandlerFails(t) \/ Release(t)
      PROVE  FreshInv'
  BY <1>1, LoopKeepsFresh
<1>2. ASSUME NEW t \in ResumeTasks, ResumeStep(t)
      PROVE  FreshInv'
  <2>1. pc'[t] # "save" \/ (TakeSignal(t) /\ UNCHANGED <<pc, state, snapshots>>)
    BY <1>0, <1>2 DEF ResumeStep, TakeSignal, LoadForResume, NothingToResume, FetchResult,
       EmitPartialResults, PersistPartial, NothingNew, ResumeFromSnapshot, SaveAndRecheck,
       StopResuming, Fetched
  <2>2. CASE TakeSignal(t) /\ UNCHANGED <<pc, state, snapshots>>
    BY <2>2 DEF FreshInv
  <2>3. \/ state'[t].pending \subseteq state[t].pending
        \/ \E s \in snapshots : state'[t].pending = s.pending
    <3>1. CASE LoadForResume(t)
      BY <1>0, <3>1 DEF LoadForResume, LatestSnapshots
    <3>2. CASE EmitPartialResults(t)
      <4> DEFINE S == state[t].shown \cup (fetched[t] \ state[t].shown)
      <4>1. S \in SUBSET Calls /\ state[t] \in AgentState
        BY <1>0, AgentStateFields DEF TypeOK, TaskType
      <4>2. state'[t] = [state[t] EXCEPT !.shown = S]
        BY <1>0, <3>2 DEF EmitPartialResults, MarkShown
      <4> HIDE DEF S
      <4> QED  BY <4>1, <4>2, IterationFields
    <3>3. CASE ResumeFromSnapshot(t)
      BY <1>0, <3>3, InjectResultsFields DEF ResumeFromSnapshot
    <3>4. CASE ~LoadForResume(t) /\ ~EmitPartialResults(t) /\ ~ResumeFromSnapshot(t)
      BY <1>2, <3>4 DEF ResumeStep, TakeSignal, NothingToResume, FetchResult, PersistPartial,
         NothingNew, SaveAndRecheck, StopResuming
    <3> QED  BY <3>1, <3>2, <3>3, <3>4
  <2> QED  BY <1>0, <1>2, <2>1, <2>2, <2>3, ResumeStands, StepKeepsFresh
<1>3. ASSUME NEW t \in ConfirmTasks, ConfirmStep(t)
      PROVE  FreshInv'
  <2>1. pc'[t] # "save"
    BY <1>0, <1>3 DEF ConfirmInv, ConfirmStep, TakeDecision, LoadForConfirm, NothingToConfirm,
       ForwardConfirmed, StoreRejection, SignalRejection
  <2>2. \/ state'[t].pending \subseteq state[t].pending
        \/ \E s \in snapshots : state'[t].pending = s.pending
    <3>1. CASE LoadForConfirm(t)
      BY <1>0, <3>1 DEF LoadForConfirm, LatestSnapshots
    <3>2. CASE ~LoadForConfirm(t)
      BY <1>3, <3>2 DEF ConfirmStep, TakeDecision, NothingToConfirm, ForwardConfirmed,
         StoreRejection, SignalRejection
    <3> QED  BY <3>1, <3>2
  <2> QED  BY <1>0, <1>3, <2>1, <2>2, ConfirmStands, StepKeepsFresh
<1>4. ASSUME Crash
      PROVE  FreshInv'
  <2>1. ASSUME NEW u \in Tasks
        PROVE  \/ pc'[u] = pc[u] /\ state'[u] = state[u]
               \/ pc'[u] # "save" /\ state'[u].pending = {}
    BY <1>4 DEF Crash, NewState
  <2> QED  BY <1>4, <2>1 DEF FreshInv, Crash
<1>5. ASSUME StartJob
      PROVE  FreshInv'
  <2>1. /\ OthersStand(JobTask) /\ UNCHANGED snapshots
        /\ pc'[JobTask] = "loop" /\ state'[JobTask].pending = {}
    BY <1>0, <1>5 DEF StartJob, OthersStand, NewState
  <2> QED  BY <1>0, <2>1, StepKeepsFresh
<1>6. ASSUME \/ \E c \in Calls : \/ RunTool(c) \/ SendSignal(c) \/ SignalFails(c)
                                 \/ StoreFails(c) \/ WorkerCrash(c) \/ ExpireResult(c)
             \/ \E c \in Calls, b \in BOOLEAN : Decide(c, b)
             \/ ExpireLock \/ OutliveLock \/ UNCHANGED vars
      PROVE  FreshInv'
  <2>1. UNCHANGED <<pc, state, snapshots>>
    BY <1>6 DEF RunTool, SendSignal, SignalFails, StoreFails, WorkerCrash, ExpireResult, Decide,
       ExpireLock, OutliveLock, vars
  <2> QED  BY <2>1 DEF FreshInv
<1> QED  BY <1>0, <1>1, <1>2, <1>3, <1>4, <1>5, <1>6
         DEF Next, Job, Resume, ResumeStep, Confirm, ConfirmStep

\* The calls of a turn that is not saved yet belong to no other.
LEMMA FreshInvariant == Spec => []FreshInv
<1>1. Init => FreshInv
  BY DEF Init, FreshInv
<1> QED  BY <1>1, TypeCorrect, ConversationInvariant, ConfirmInvariant, NextKeepsFresh, PTL DEF Spec

-----------------------------------------------------------------------------
(* One step.                                                               *)

\* A latest snapshot after the step waits for nothing, or for what a latest snapshot
\* waited for before.
LatestKnown ==
    \A s \in LatestSnapshots' :
        s.pending = {} \/ \E r \in LatestSnapshots : r.pending = s.pending

\* Everything a snapshot waits for is asked; a snapshot that waits is suspended.
LEMMA PendingWaits ==
  ASSUME ConversationInv
  PROVE  /\ \A s \in snapshots : s.pending # {} => s \in Waiting
         /\ \A t \in Tasks : state[t].pending # {} => state[t].status = "waiting_tool"
  BY DEF ConversationInv, TaskCoherent, Coherent, Waiting

\* Only the first snapshot of a turn is a new one.
LEMMA LatestIsKnown ==
  ASSUME TypeOK, ConversationInv, TurnInv, NEW t \in Tasks, pc[t] # "save" \/ UNCHANGED snapshots,
         snapshots \subseteq snapshots', snapshots' \subseteq snapshots \cup {state[t]}
  PROVE  LatestKnown
<1> SUFFICES ASSUME NEW s \in LatestSnapshots', s.pending # {}
             PROVE  \E r \in LatestSnapshots : r.pending = s.pending
  BY DEF LatestKnown
<1>1. s \in snapshots' /\ \A r \in snapshots' : r.iteration <= s.iteration
  BY DEF LatestSnapshots
<1>2. CASE s \in snapshots
  BY <1>1, <1>2 DEF LatestSnapshots
<1>3. CASE s = state[t] /\ s \notin snapshots
  <2>1. pc[t] # "save"
    BY <1>1, <1>3
  <2>2. PICK r \in Waiting : SameTurn(r, s)
    BY <1>3, <2>1, PendingWaits DEF TurnInv, TurnOf
  <2>3. r \in LatestSnapshots
    BY <1>1, <2>2 DEF LatestSnapshots, SameTurn, Waiting
  <2> QED  BY <2>2, <2>3 DEF SameTurn
<1> QED  BY <1>1, <1>2, <1>3

\* What keeps StoredInv.
LEMMA StepKeepsStored ==
  ASSUME StoredInv, LatestKnown, executed' \ results' \subseteq executed \ results
  PROVE  StoredInv'
<1> SUFFICES ASSUME NEW s \in LatestSnapshots', NEW c \in executed' \ results'
             PROVE  c \notin s.pending
  BY DEF StoredInv
<1> QED  BY DEF StoredInv, LatestKnown

\* A complete snapshot was complete before, if no result has come.
LEMMA CompleteBefore ==
  ASSUME LatestKnown, results' \subseteq results, \E s \in snapshots' : Complete(s)'
  PROVE  \E s \in snapshots : Complete(s)
<1>1. PICK s \in snapshots' : Complete(s)'
  OBVIOUS
<1>2. s \in LatestSnapshots' /\ s.pending # {} /\ s.pending \subseteq results
  BY <1>1 DEF Complete
<1>3. PICK r \in LatestSnapshots : r.pending = s.pending
  BY <1>2 DEF LatestKnown
<1> QED  BY <1>2, <1>3 DEF Complete, LatestSnapshots

\* What keeps WakeInv.
LEMMA StepKeepsWake ==
  ASSUME WakeInv, LatestKnown, results' \subseteq results,
         snapshots \subseteq snapshots', Awake => Awake',
         NEW t \in Tasks,
         \A u \in ResumeTasks \ {t} : Responsible(u) => Responsible(u)',
         ~Ended' /\ t \in ResumeTasks /\ Responsible(t) /\ (\E s \in snapshots : Complete(s))
         => Responsible(t)'
  PROVE  WakeInv'
<1> SUFFICES ASSUME ~Awake', ~Ended', \E s \in snapshots' : Complete(s)'
             PROVE  \E u \in ResumeTasks : Responsible(u)'
  BY DEF WakeInv
<1>1. ~Awake /\ ~Ended
  BY DEF Ended
<1>2. \E s \in snapshots : Complete(s)
  BY CompleteBefore
<1>3. PICK u \in ResumeTasks : Responsible(u)
  BY <1>1, <1>2 DEF WakeInv
<1> QED  BY <1>2, <1>3

\* What keeps DecidedInv and SentInv: t sends out what it owes.
LEMMA StepKeepsSent ==
  ASSUME TypeOK, SentInv, DecidedInv, LatestKnown,
         snapshots \subseteq snapshots', executed \subseteq executed', prompts \subseteq prompts',
         UNCHANGED decided,
         \A c \in Calls : InFlight(c) => InFlight(c)' \/ c \in executed',
         NEW t \in Tasks,
         \A u \in Tasks \ {t} : \A c \in Calls : Owes(u, c) => Owes(u, c)',
         ~Ended' => \A c \in Calls : Owes(t, c) => Owes(t, c)' \/ Sent(c)'
  PROVE  SentInv' /\ DecidedInv'
<1>1. \A r \in LatestSnapshots : r.pending \subseteq Calls
  BY AgentStateFields DEF TypeOK, TableType, LatestSnapshots
<1>2. DecidedInv'
  BY <1>1 DEF DecidedInv, LatestKnown
<1>3. SentInv'
  <2> SUFFICES ASSUME ~Ended', NEW s \in LatestSnapshots', NEW c \in s.pending
               PROVE  Sent(c)' \/ \E u \in Tasks : Owes(u, c)'
    BY DEF SentInv
  <2>1. PICK r \in LatestSnapshots : r.pending = s.pending
    BY DEF LatestKnown
  <2>2. c \in Calls /\ ~Ended
    BY <1>1, <2>1 DEF Ended
  <2>3. Sent(c) \/ \E u \in Tasks : Owes(u, c)
    BY <2>1, <2>2 DEF SentInv
  <2>4. Sent(c) => Sent(c)'
    BY <2>2 DEF Sent
  <2> QED  BY <2>2, <2>3, <2>4
<1> QED  BY <1>2, <1>3

\* A step of a task that is not a confirm task takes nothing out of flight.
LEMMA OthersFly ==
  ASSUME NEW t \in Tasks, t \notin ConfirmTasks, OthersStand(t), UNCHANGED decisions,
         \A c \in Calls : work[c] > 0 => work'[c] > 0
  PROVE  \A c \in Calls : InFlight(c) => InFlight(c)'
<1>1. \A u \in ConfirmTasks : u \in Tasks \ {t} /\ u \in Tasks
  BY DEF Tasks, LockTasks
<1>2. \A u \in ConfirmTasks : pc'[u] = pc[u] /\ msg'[u] = msg[u]
  BY <1>1 DEF OthersStand
<1> QED  BY <1>2 DEF InFlight

\* Nor does it put anything to sleep.
LEMMA OthersAwake ==
  ASSUME NEW t \in Tasks, t \notin ConfirmTasks, OthersStand(t),
         UNCHANGED <<decisions, stored, signals>>,
         \A c \in Calls : work[c] > 0 => work'[c] > 0
  PROVE  Awake => Awake'
<1>1. \A u \in ConfirmTasks : u \in Tasks \ {t} /\ u \in Tasks
  BY DEF Tasks, LockTasks
<1>2. \A u \in ConfirmTasks : pc'[u] = pc[u]
  BY <1>1 DEF OthersStand
<1> QED  BY <1>2, OthersFly DEF Awake

\* A step of t leaves the others responsible.
LEMMA OthersResponsible ==
  ASSUME NEW t \in Tasks, OthersStand(t), \A u \in Tasks \ {t} : fetched'[u] = fetched[u]
  PROVE  \A u \in ResumeTasks \ {t} : Responsible(u) => Responsible(u)'
<1> SUFFICES ASSUME NEW u \in ResumeTasks \ {t}, Responsible(u)
             PROVE  Responsible(u)'
  OBVIOUS
<1>1. u \in Tasks \ {t}
  BY DEF Tasks, LockTasks
<1>2. pc'[u] = pc[u] /\ state'[u] = state[u] /\ todo'[u] = todo[u] /\ fetched'[u] = fetched[u]
  BY <1>1 DEF OthersStand
<1> QED  BY <1>2 DEF Responsible

\* Nor does it pay what the others owe.
LEMMA OthersOwe ==
  ASSUME NEW t \in Tasks, OthersStand(t)
  PROVE  \A u \in Tasks \ {t} : \A c \in Calls : Owes(u, c) => Owes(u, c)'
BY DEF OthersStand, Owes

\* The four together, for a step of a job or resume task that takes no signal and
\* begins no turn.
WakeOK ==
    /\ TypeOK /\ ConversationInv /\ ProducedInv /\ AwaitedInv /\ FreshInv
    /\ TurnInv /\ UnmissedParts

\* What such a step has to show.
LEMMA TaskKeepsUnmissed ==
  ASSUME WakeOK, NEW t \in Tasks, t \notin ConfirmTasks, OthersStand(t),
         \A u \in Tasks \ {t} : fetched'[u] = fetched[u],
         snapshots \subseteq snapshots', snapshots' \subseteq snapshots \cup {state[t]},
         pc[t] # "save" \/ UNCHANGED snapshots, prompts \subseteq prompts',
         UNCHANGED <<decisions, stored, signals, results, executed, decided>>,
         \A c \in Calls : work[c] > 0 => work'[c] > 0,
         ~Ended' => \A c \in Calls : Owes(t, c) => Owes(t, c)' \/ Sent(c)',
         ~Ended' /\ t \in ResumeTasks /\ Responsible(t) /\ (\E s \in snapshots : Complete(s))
         => Responsible(t)'
  PROVE  UnmissedParts'
<1>1. LatestKnown
  BY LatestIsKnown DEF WakeOK
<1>2. SentInv' /\ DecidedInv'
  <2>1. \A c \in Calls : InFlight(c) => InFlight(c)'
    BY OthersFly
  <2>2. \A u \in Tasks \ {t} : \A c \in Calls : Owes(u, c) => Owes(u, c)'
    BY OthersOwe
  <2> QED  BY <1>1, <2>1, <2>2, StepKeepsSent DEF WakeOK, UnmissedParts
<1>3. StoredInv'
  BY <1>1, StepKeepsStored DEF WakeOK, UnmissedParts
<1>4. WakeInv'
  BY <1>1, OthersAwake, OthersResponsible, StepKeepsWake DEF WakeOK, UnmissedParts
<1> QED  BY <1>2, <1>3, <1>4 DEF UnmissedParts

-----------------------------------------------------------------------------
(* The steps of the tasks.                                                 *)

\* The first snapshot of a turn waits for calls that are still to be sent out, and
\* nobody has decided or executed one of them: whatever came to nothing before.
LEMMA SaveBeginsUnmissed ==
  ASSUME TypeOK, ConversationInv, ProducedInv, AwaitedInv, FreshInv, TurnInv,
         NEW t \in Tasks, t \notin ConfirmTasks, SaveWaiting(t)
  PROVE  UnmissedParts'
<1>0. /\ pc \in [Tasks -> Labels] /\ state \in [Tasks -> AgentState] /\ state[t] \in AgentState
      /\ snapshots \subseteq AgentState
  BY DEF TypeOK, TaskType, TableType
<1>1. /\ pc[t] = "save" /\ pc'[t] = "update" /\ snapshots' = snapshots \cup {state[t]}
      /\ state[t].status = "waiting_tool" /\ state' = state
      /\ UNCHANGED <<results, executed, decided>>
  BY <1>0 DEF SaveWaiting, SaveSnapshot, Goto, redis, locals, ConversationInv, TaskCoherent
<1>2. ASSUME NEW s \in LatestSnapshots', s.pending # {}
      PROVE  s = state[t]
  <2> SUFFICES ASSUME s \in snapshots  PROVE FALSE
    BY <1>1, <1>2 DEF LatestSnapshots
  <2>1. s \in Waiting
    BY <1>2, PendingWaits
  <2>2. s.iteration <= state[t].iteration /\ s.iteration # state[t].iteration
    BY <1>1, <2>1 DEF TurnInv, TurnOf, Thinking
  <2>3. state[t].iteration <= s.iteration
    BY <1>1, <1>2 DEF LatestSnapshots
  <2>4. s.iteration \in Nat /\ state[t].iteration \in Nat
    BY <1>0, AgentStateFields
  <2> QED  BY <2>2, <2>3, <2>4
<1>3. state[t].pending \cap (executed \cup decided) = {}
  <2> SUFFICES ASSUME NEW c \in state[t].pending, c \in executed \cup decided  PROVE FALSE
    OBVIOUS
  <2>1. PICK r \in snapshots : c \in r.pending
    BY DEF AwaitedInv, Awaited
  <2> QED  BY <1>1, <2>1 DEF FreshInv
<1>4. SentInv'
  <2> SUFFICES ASSUME NEW s \in LatestSnapshots', NEW c \in s.pending
               PROVE  \E u \in Tasks : Owes(u, c)'
    BY DEF SentInv
  <2>1. Owes(t, c)'
    BY <1>1, <1>2 DEF Owes
  <2> QED  BY <2>1
<1>5. DecidedInv' /\ StoredInv'
  BY <1>1, <1>2, <1>3 DEF DecidedInv, StoredInv
<1>6. WakeInv'
  <2> SUFFICES ASSUME NEW s \in snapshots', Complete(s)'  PROVE FALSE
    BY DEF WakeInv
  <2>1. s \in LatestSnapshots' /\ s.pending # {} /\ s.pending \subseteq results
    BY <1>1 DEF Complete
  <2>2. results \subseteq executed
    BY DEF ProducedInv
  <2> QED  BY <1>2, <1>3, <2>1, <2>2
<1> QED  BY <1>4, <1>5, <1>6 DEF UnmissedParts

\* The agent loop sends out what it has saved, and stays responsible until it has
\* saved a turn or ends.
LEMMA LoopKeepsUnmissed ==
  ASSUME WakeOK, NEW t \in Tasks, t \notin ConfirmTasks, ~SaveWaiting(t), missed' = {},
         Execute(t) \/ FinalSave(t) \/ FinalUpdate(t) \/ Release(t)
  PROVE  UnmissedParts'
<1> USE DEF Goto, SetState, Return, SaveSnapshot, tables, locals, topics
<1>0. /\ pc \in [Tasks -> Labels] /\ state \in [Tasks -> AgentState]
      /\ todo \in [Tasks -> SUBSET Calls]
      /\ state[t] \in AgentState /\ TypeOK
      /\ work \in [Calls -> Nat]
  BY DEF WakeOK, TypeOK, TaskType, TopicType
<1>1. /\ OthersStand(t)
      /\ \A u \in Tasks \ {t} : fetched'[u] = fetched[u]
      /\ UNCHANGED <<stored, signals, decisions, results, executed, decided>>
  BY <1>0, LoopStands
<1>2. /\ snapshots \subseteq snapshots' /\ snapshots' \subseteq snapshots \cup {state[t]}
      /\ pc[t] # "save" \/ UNCHANGED snapshots
  BY DEF Execute, MaxIterationsReached, NextIteration, Checkpoint, LLMCallsTools,
     LLMAnswers, StreamEndsEarly, UpdateWaiting, DispatchTool, ExecutorFails, FinalSave,
     FinalUpdate, Release
<1>3. CASE DispatchTool(t)
  <2>1. PICK d \in todo[t] :
          /\ IF d \in NeedsConfirm
             THEN prompts' = prompts \cup {d} /\ UNCHANGED <<work, missed>>
             ELSE SendOut(d) /\ UNCHANGED prompts
          /\ todo' = [todo EXCEPT ![t] = todo[t] \ {d}]
          /\ pc' = [pc EXCEPT ![t] = IF todo[t] = {d} THEN ReturnLabel(t, state[t]) ELSE "dispatch"]
    BY <1>3 DEF DispatchTool
  <2>2. \/ prompts' = prompts \cup {d} /\ UNCHANGED work
        \/ work' = [work EXCEPT ![d] = @ + 1] /\ UNCHANGED prompts
    BY <2>1 DEF SendOut
  <2>3. /\ prompts \subseteq prompts' /\ \A c \in Calls : work[c] > 0 => work'[c] > 0
        /\ d \in Calls /\ (d \in prompts' \/ work'[d] > 0)
    BY <1>0, <2>2
  <2>4. pc[t] = "dispatch" /\ UNCHANGED snapshots
    BY <1>3 DEF DispatchTool
  <2>5. ASSUME NEW c \in Calls, Owes(t, c)  PROVE Owes(t, c)' \/ Sent(c)'
    <3>1. c \in todo[t]
      BY <2>4, <2>5 DEF Owes
    <3>2. CASE c = d
      BY <2>3, <3>2 DEF Sent, InFlight
    <3>3. CASE c # d
      <4>1. todo'[t] = todo[t] \ {d} /\ pc'[t] = "dispatch"
        BY <1>0, <2>1, <3>1, <3>3
      <4> QED  BY <3>1, <3>3, <4>1 DEF Owes
    <3> QED  BY <3>2, <3>3
  <2>6. ~Responsible(t)
    BY <2>4 DEF Responsible, Thinking
  <2> QED  BY <1>1, <1>2, <2>3, <2>4, <2>5, <2>6, TaskKeepsUnmissed
<1>4. CASE ~DispatchTool(t)
  <2>1. UNCHANGED <<prompts, work>>
    BY <1>4 DEF Execute, MaxIterationsReached, NextIteration, Checkpoint, LLMCallsTools,
       LLMAnswers, StreamEndsEarly, UpdateWaiting, ExecutorFails, FinalSave, FinalUpdate, Release
  <2>2. ASSUME ~Ended'
        PROVE  /\ \A c \in Calls : Owes(t, c) => Owes(t, c)'
               /\ Responsible(t) => Responsible(t)'
    <3>1. CASE MaxIterationsReached(t) \/ LLMAnswers(t)
      <4>1. /\ state'[t].status \in Terminal /\ pc'[t] = "finalSave"
            /\ pc[t] \notin {"update", "dispatch", "finalSave"}
        BY <1>0, <3>1, MarkEndedFields DEF MaxIterationsReached, LLMAnswers, ReturnLabel, Terminal
      <4> QED  BY <4>1 DEF Responsible, Owes
    <3>2. CASE ExecutorFails(t)
      <4>1. state'[t].status = "failed" /\ pc'[t] = "finalSave"
        BY <1>0, <3>2, MarkEndedFields DEF ExecutorFails, ReturnLabel
      <4> QED  BY <4>1 DEF Responsible, Owes, Terminal
    <3>3. CASE NextIteration(t) \/ Checkpoint(t) \/ StreamEndsEarly(t) \/ LLMCallsTools(t)
      <4>1. pc[t] \in Thinking /\ pc'[t] \in Thinking
        BY <1>0, <3>3 DEF NextIteration, Checkpoint, StreamEndsEarly, LLMCallsTools, Thinking
      <4> QED  BY <4>1 DEF Responsible, Owes, Thinking
    <3>4. CASE FinalSave(t)
      BY <2>2, <3>4 DEF FinalSave, Responsible, Thinking, Ended, Owes, Terminal
    <3>5. CASE UpdateWaiting(t)
      <4>1. /\ pc[t] = "update" /\ pc'[t] = "dispatch" /\ todo'[t] = state[t].pending
        BY <1>0, <3>5 DEF UpdateWaiting
      <4> QED  BY <4>1 DEF Owes, Responsible, Thinking
    <3>6. CASE FinalUpdate(t) \/ Release(t)
      BY <3>6 DEF FinalUpdate, Release, Responsible, Thinking, Owes
    <3> QED  BY <1>4, <3>1, <3>2, <3>3, <3>4, <3>5, <3>6 DEF Execute
  <2> QED  BY <1>1, <1>2, <2>1, <2>2, TaskKeepsUnmissed
<1> QED  BY <1>3, <1>4

\* A resume handler that finds every result resumes the job.
LEMMA ResumeKeepsUnmissed ==
  ASSUME WakeOK, NEW t \in ResumeTasks, ResumeStep(t), missed' = {}
  PROVE  UnmissedParts'
<1> USE DEF Goto, SetState, SaveSnapshot, tables, locals
<1>0. /\ pc \in [Tasks -> Labels] /\ state \in [Tasks -> AgentState]
      /\ todo \in [Tasks -> SUBSET Calls] /\ fetched \in [Tasks -> SUBSET Calls]
      /\ t \in Tasks /\ t \notin ConfirmTasks /\ TypeOK
  BY TasksAssumption DEF WakeOK, TypeOK, TaskType, Tasks, LockTasks
<1>1. /\ OthersStand(t)
      /\ \A u \in Tasks \ {t} : fetched'[u] = fetched[u]
      /\ snapshots' \subseteq snapshots \cup {state[t]}
      /\ UNCHANGED <<work, stored, decisions, results, executed, decided>>
      /\ TakeSignal(t) \/ UNCHANGED signals
  BY <1>0, ResumeStands
<1>2. /\ snapshots \subseteq snapshots' /\ UNCHANGED prompts
      /\ pc[t] \notin Thinking \cup {"update", "dispatch", "finalSave"}
  BY DEF ResumeStep, TakeSignal, LoadForResume, NothingToResume, FetchResult,
     EmitPartialResults, PersistPartial, NothingNew, ResumeFromSnapshot, SaveAndRecheck,
     StopResuming, Fetched, Thinking, topics
<1>10. pc[t] # "save" /\ \A c \in Calls : ~Owes(t, c)
  BY <1>2 DEF Owes, Thinking
<1>3. CASE TakeSignal(t)
  <2>1. LatestKnown
    BY <1>0, <1>1, <1>2, <1>10, LatestIsKnown DEF WakeOK
  <2>4. \A c \in Calls : InFlight(c) => InFlight(c)'
    BY <1>0, <1>1, OthersFly
  <2>5. \A u \in Tasks \ {t} : \A c \in Calls : Owes(u, c) => Owes(u, c)'
    BY <1>0, <1>1, OthersOwe
  <2>6. SentInv' /\ DecidedInv'
    BY <1>0, <1>1, <1>2, <1>10, <2>1, <2>4, <2>5, StepKeepsSent DEF WakeOK, UnmissedParts
  <2>2. StoredInv'
    BY <1>1, <2>1, StepKeepsStored DEF WakeOK, UnmissedParts
  <2>3. Responsible(t)'
    BY <1>0, <1>3 DEF TakeSignal, Responsible
  <2> QED  BY <2>2, <2>3, <2>6 DEF WakeInv, UnmissedParts
<1>4. CASE LoadForResume(t)
  <2>1. PICK s \in LatestSnapshots : SetState(t, s) /\ todo' = [todo EXCEPT ![t] = s.pending]
    BY <1>4 DEF LoadForResume
  <2>2. pc'[t] = "fetch" /\ state'[t].pending \subseteq todo'[t]
    BY <1>0, <1>4, <2>1 DEF LoadForResume
  <2>3. Responsible(t)'
    BY <2>2 DEF Responsible
  <2> QED  BY <1>0, <1>1, <1>2, <1>10, <1>4, <2>3, TaskKeepsUnmissed DEF LoadForResume, TakeSignal
<1>5. CASE FetchResult(t)
  <2>1. ASSUME Responsible(t), NEW s \in snapshots, Complete(s)
        PROVE  Responsible(t)'
    <3>1. /\ s \in Waiting /\ s.pending \subseteq results
          /\ \A r \in snapshots : r.iteration <= s.iteration
      BY <2>1, PendingWaits DEF Complete, WakeOK, LatestSnapshots
    <3>2. pc[t] = "fetch" /\ pc'[t] = "fetch" /\ state'[t] = state[t]
      BY <1>5 DEF FetchResult
    <3>3. state[t].pending \subseteq fetched[t] \cup todo[t]
      BY <2>1, <3>2 DEF Responsible, Thinking
    <3>4. /\ \E r \in Waiting : SameTurn(r, state[t])
          /\ \A r \in Waiting : r.iteration <= state[t].iteration
      BY <1>0, <3>2 DEF WakeOK, ConversationInv, TaskCoherent, TurnInv, TurnOf, Suspended
    <3>5. PICK r \in Waiting : SameTurn(r, state[t])
      BY <3>4
    <3>6. r.iteration <= s.iteration /\ s.iteration <= r.iteration
      BY <3>1, <3>4, <3>5 DEF SameTurn, Waiting
    <3>7. r.iteration \in Nat /\ s.iteration \in Nat
      BY <3>1, <3>5, AgentStateFields DEF WakeOK, TypeOK, TableType, Waiting
    <3>8. r.iteration = s.iteration
      BY <3>6, <3>7
    <3>9. state[t].pending \subseteq results
      BY <3>1, <3>5, <3>8 DEF WakeOK, TurnInv, OneTurnPerNumber, SameTurn, Waiting
    <3>10. PICK c \in todo[t] : /\ todo' = [todo EXCEPT ![t] = todo[t] \ {c}]
                                /\ fetched' = [fetched EXCEPT ![t] = fetched[t] \cup (results \cap {c})]
      BY <1>5 DEF FetchResult
    <3>11. todo'[t] = todo[t] \ {c} /\ fetched'[t] = fetched[t] \cup (results \cap {c})
      BY <1>0, <3>10
    <3> QED  BY <3>2, <3>3, <3>9, <3>11 DEF Responsible
  <2> QED  BY <1>0, <1>1, <1>2, <1>10, <1>5, <2>1, TaskKeepsUnmissed DEF FetchResult, TakeSignal
<1>6. CASE EmitPartialResults(t) \/ PersistPartial(t) \/ NothingNew(t) \/ SaveAndRecheck(t)
           \/ NothingToResume(t) \/ StopResuming(t)
  <2>1. ~Responsible(t) \/ missed' # {}
    BY <1>6 DEF EmitPartialResults, PersistPartial, NothingNew, SaveAndRecheck, NothingToResume,
       StopResuming, Fetched, MissingTools, Responsible, Thinking
  <2>2. UNCHANGED signals
    BY <1>6 DEF EmitPartialResults, PersistPartial, NothingNew, SaveAndRecheck, NothingToResume,
       StopResuming, topics
  <2> QED  BY <1>0, <1>1, <1>2, <1>10, <2>1, <2>2, TaskKeepsUnmissed
<1>7. CASE ResumeFromSnapshot(t)
  <2>1. Responsible(t)' /\ UNCHANGED signals
    BY <1>0, <1>7 DEF ResumeFromSnapshot, Responsible, Thinking, topics
  <2> QED  BY <1>0, <1>1, <1>2, <1>10, <2>1, TaskKeepsUnmissed
<1> QED  BY <1>3, <1>4, <1>5, <1>6, <1>7 DEF ResumeStep

\* A decision goes on to a worker, or becomes a result whose signal is still due.
LEMMA ConfirmKeepsUnmissed ==
  ASSUME WakeOK, NEW t \in ConfirmTasks, ConfirmStep(t), missed' = {}
  PROVE  UnmissedParts'
<1> USE DEF Goto, SetState, tables, locals
<1>0. /\ pc \in [Tasks -> Labels]
      /\ t \in Tasks /\ t \notin ResumeTasks /\ TypeOK
      /\ msg \in [ConfirmTasks -> Decisions \cup {None}]
      /\ \A u \in ConfirmTasks : u \in Tasks
      /\ work \in [Calls -> Nat] /\ decisions \in [Calls -> [BOOLEAN -> Nat]]
      /\ signals \in Nat /\ results \subseteq Calls
  BY TasksAssumption DEF WakeOK, TypeOK, TaskType, TopicType, RedisType, Tasks, LockTasks
<1>1. OthersStand(t) /\ UNCHANGED <<snapshots, fetched, stored, decided>>
  BY <1>0, ConfirmStands
<1>2. LatestKnown
  BY <1>1, LatestIsKnown, <1>0 DEF WakeOK
<1>3. \A u \in ConfirmTasks \ {t} : pc'[u] = pc[u] /\ msg'[u] = msg[u]
  BY <1>0, <1>1 DEF OthersStand
<1>4. \A u \in ResumeTasks : Responsible(u) => Responsible(u)'
  BY <1>0, <1>1, OthersResponsible
<1>11. UNCHANGED prompts /\ \A c \in Calls : ~Owes(t, c)
  BY DEF ConfirmStep, TakeDecision, LoadForConfirm, NothingToConfirm, ForwardConfirmed,
     StoreRejection, SignalRejection, Owes, topics
<1>12. \A u \in Tasks \ {t} : \A c \in Calls : Owes(u, c) => Owes(u, c)'
  BY <1>0, <1>1, OthersOwe
<1>13. ASSUME executed \subseteq executed',
              \A c \in Calls : InFlight(c) => InFlight(c)' \/ c \in executed'
       PROVE  SentInv' /\ DecidedInv'
  BY <1>0, <1>1, <1>2, <1>11, <1>12, <1>13, StepKeepsSent DEF WakeOK, UnmissedParts
<1>5. CASE TakeDecision(t)
  <2>1. PICK c \in Calls, b \in BOOLEAN :
          /\ decisions[c][b] > 0
          /\ decisions' = [decisions EXCEPT ![c][b] = @ - 1]
          /\ msg' = [msg EXCEPT ![t] = [call |-> c, confirmed |-> b]]
          /\ Goto(t, "load")
    BY <1>0, <1>5 DEF TakeDecision
  <2>2. pc[t] = "idle" /\ UNCHANGED <<work, results, executed>>
    BY <1>5 DEF TakeDecision
  <2>3. pc'[t] = "load" /\ msg'[t].call = c
    BY <1>0, <2>1
  <2>4. InFlight(c)'
    BY <2>3 DEF InFlight
  <2>5. ASSUME NEW d \in Calls, d # c, InFlight(d)  PROVE InFlight(d)'
    <3>1. decisions'[d] = decisions[d]
      BY <1>0, <2>1, <2>5
    <3> QED  BY <1>3, <2>2, <2>5, <3>1 DEF InFlight
  <2>6. SentInv' /\ DecidedInv'
    BY <1>13, <2>2, <2>4, <2>5
  <2>7. StoredInv'
    BY <1>2, <2>2, StepKeepsStored DEF WakeOK, UnmissedParts
  <2>8. Awake'
    BY <2>4 DEF Awake
  <2> QED  BY <2>6, <2>7, <2>8 DEF UnmissedParts, WakeInv
<1>6. CASE LoadForConfirm(t)
  <2>1. pc[t] = "load" /\ pc'[t] = "answer" /\ msg'[t] = msg[t]
    BY <1>0, <1>6 DEF LoadForConfirm
  <2>2. UNCHANGED <<work, decisions, signals, results, executed>>
    BY <1>6 DEF LoadForConfirm, topics, redis, history
  <2>3. \A c \in Calls : InFlight(c) => InFlight(c)'
    BY <1>3, <2>1, <2>2 DEF InFlight
  <2>4. Awake => Awake'
    BY <1>1, <1>3, <2>1, <2>2, <2>3 DEF Awake
  <2>5. WakeInv'
    BY <1>0, <1>1, <1>2, <1>4, <2>2, <2>4, StepKeepsWake DEF WakeOK, UnmissedParts
  <2> QED  BY <1>0, <1>2, <1>13, <2>2, <2>3, <2>5, StepKeepsStored
           DEF WakeOK, UnmissedParts
<1>7. CASE NothingToConfirm(t)
  BY <1>7 DEF NothingToConfirm
<1>8. CASE ForwardConfirmed(t)
  <2>1. PICK c \in Calls : c = msg[t].call
    BY <1>0, <1>8 DEF ForwardConfirmed, TypeOK, TaskType, Decisions
  <2>2. work' = [work EXCEPT ![c] = @ + 1] /\ pc[t] = "answer" /\ pc'[t] = "release"
    BY <1>0, <1>8, <2>1 DEF ForwardConfirmed, SendOut
  <2>3. UNCHANGED <<decisions, signals, results, executed, msg>>
    BY <1>8 DEF ForwardConfirmed, redis, history
  <2>4. InFlight(c)'
    <3>1. work'[c] > 0
      BY <1>0, <2>1, <2>2
    <3> QED  BY <2>3, <3>1 DEF InFlight
  <2>5. ASSUME NEW d \in Calls, d # c, InFlight(d)  PROVE InFlight(d)'
    <3>1. work'[d] = work[d]
      BY <1>0, <2>2, <2>5
    <3> QED  BY <1>3, <2>1, <2>2, <2>3, <2>5, <3>1 DEF InFlight
  <2>6. Awake'
    BY <2>1, <2>4 DEF Awake
  <2>7. \A d \in Calls : InFlight(d) => InFlight(d)'
    BY <2>4, <2>5
  <2> QED  BY <1>0, <1>2, <1>13, <2>3, <2>6, <2>7, StepKeepsStored
           DEF WakeOK, UnmissedParts, WakeInv
<1>9. CASE StoreRejection(t)
  <2>1. PICK c \in Calls : c = msg[t].call
    BY <1>0, <1>9 DEF StoreRejection, TypeOK, TaskType, Decisions
  <2>2. /\ results' = results \cup {c} /\ executed' = executed \cup {c}
        /\ pc[t] = "answer" /\ pc'[t] = "signal"
    BY <1>0, <1>9, <2>1 DEF StoreRejection
  <2>3. UNCHANGED <<work, decisions, msg>>
    BY <1>9 DEF StoreRejection, topics
  <2>4. \A d \in Calls : InFlight(d) => InFlight(d)' \/ d \in executed'
    BY <1>3, <2>1, <2>2, <2>3 DEF InFlight
  <2>5. Awake'
    BY <2>2 DEF Awake
  <2>6. executed' \ results' \subseteq executed \ results /\ executed \subseteq executed'
    BY <2>2
  <2> QED  BY <1>0, <1>2, <1>13, <2>4, <2>5, <2>6, StepKeepsStored
           DEF WakeOK, UnmissedParts, WakeInv
<1>10. CASE SignalRejection(t)
  <2>1. /\ pc[t] = "signal" /\ signals' > 0
        /\ UNCHANGED <<work, decisions, msg, results, executed>>
    BY <1>0, <1>10 DEF SignalRejection, redis, history
  <2>2. \A c \in Calls : InFlight(c) => InFlight(c)'
    BY <1>3, <2>1 DEF InFlight
  <2>3. Awake'
    BY <2>1 DEF Awake
  <2> QED  BY <1>0, <1>2, <1>13, <2>1, <2>2, <2>3, StepKeepsStored
           DEF WakeOK, UnmissedParts, WakeInv
<1> QED  BY <1>5, <1>6, <1>7, <1>8, <1>9, <1>10 DEF ConfirmStep

-----------------------------------------------------------------------------
(* The steps of the others.                                                *)

\* Tool workers, browsers and time: what is stored is signalled, or missed.
LEMMA EnvironmentKeepsUnmissed ==
  ASSUME WakeOK, missed' = {},
         \/ \E c \in Calls : \/ RunTool(c) \/ SendSignal(c) \/ SignalFails(c)
                             \/ StoreFails(c) \/ WorkerCrash(c) \/ ExpireResult(c)
         \/ \E c \in Calls, b \in BOOLEAN : Decide(c, b)
         \/ ExpireLock \/ UNCHANGED vars
  PROVE  UnmissedParts'
<1> USE DEF tables, locals, redis, topics, history
<1>0. /\ work \in [Calls -> Nat] /\ stored \in [Calls -> Nat] /\ signals \in Nat
      /\ decisions \in [Calls -> [BOOLEAN -> Nat]]
      /\ decided \subseteq Calls /\ TypeOK
      /\ JobTask \in Tasks /\ JobTask \notin ResumeTasks
  BY TasksAssumption DEF WakeOK, TypeOK, TopicType, HistoryType, Tasks, LockTasks
<1>1. UNCHANGED <<pc, state, todo, fetched, msg, snapshots, prompts>>
  BY DEF RunTool, SendSignal, SignalFails, StoreFails, WorkerCrash, ExpireResult, Decide,
     ExpireLock, vars
<1>2. LatestKnown
  BY <1>0, <1>1, LatestIsKnown DEF WakeOK
<1>3. \A u \in ResumeTasks : Responsible(u) => Responsible(u)'
  BY <1>1 DEF Responsible
<1>12. \A u \in Tasks : \A c \in Calls : Owes(u, c) => Owes(u, c)'
  BY <1>1 DEF Owes
<1>13. ASSUME UNCHANGED decided, executed \subseteq executed',
              \A c \in Calls : InFlight(c) => InFlight(c)' \/ c \in executed'
       PROVE  SentInv' /\ DecidedInv'
  BY <1>0, <1>1, <1>2, <1>12, <1>13, StepKeepsSent DEF WakeOK, UnmissedParts
<1>4. ASSUME UNCHANGED <<work, decisions, decided, results, executed>>, Awake'
      PROVE  UnmissedParts'
  <2>1. \A d \in Calls : InFlight(d) => InFlight(d)'
    BY <1>1, <1>4 DEF InFlight
  <2> QED  BY <1>0, <1>2, <1>4, <1>13, <2>1, StepKeepsStored
           DEF WakeOK, UnmissedParts, WakeInv
<1>5. ASSUME NEW c \in Calls, RunTool(c)  PROVE UnmissedParts'
  <2>1. /\ work' = [work EXCEPT ![c] = @ - 1] /\ stored' = [stored EXCEPT ![c] = @ + 1]
        /\ results' = results \cup {c} /\ executed' = executed \cup {c}
        /\ UNCHANGED <<decisions, decided>>
    BY <1>5 DEF RunTool
  <2>2. stored'[c] > 0
    BY <1>0, <2>1
  <2>3. ASSUME NEW d \in Calls, InFlight(d)  PROVE InFlight(d)' \/ d \in executed'
    <3>1. CASE d = c
      BY <2>1, <3>1
    <3>2. CASE d # c
      <4>1. work'[d] = work[d]
        BY <1>0, <2>1, <3>2
      <4> QED  BY <1>1, <2>1, <2>3, <4>1 DEF InFlight
    <3> QED  BY <3>1, <3>2
  <2>4. Awake'
    BY <2>2 DEF Awake
  <2>5. executed' \ results' \subseteq executed \ results /\ executed \subseteq executed'
    BY <2>1
  <2> QED  BY <1>0, <1>2, <1>13, <2>1, <2>3, <2>4, <2>5, StepKeepsStored
           DEF WakeOK, UnmissedParts, WakeInv
<1>6. ASSUME NEW c \in Calls, SendSignal(c)  PROVE UnmissedParts'
  <2>1. signals' > 0 /\ UNCHANGED <<work, decisions, decided, results, executed>>
    BY <1>0, <1>6 DEF SendSignal
  <2>2. Awake'
    BY <2>1 DEF Awake
  <2> QED  BY <1>4, <2>1, <2>2
<1>7. ASSUME NEW c \in Calls, SignalFails(c) \/ StoreFails(c)  PROVE UnmissedParts'
  BY <1>7 DEF SignalFails, StoreFails
<1>8. ASSUME NEW c \in Calls, WorkerCrash(c)  PROVE UnmissedParts'
  <2>1. /\ work' = [work EXCEPT ![c] = @ + 1]
        /\ UNCHANGED <<decisions, decided, results, executed>>
    BY <1>8 DEF WorkerCrash
  <2>2. work'[c] > 0 /\ \A d \in Calls : work[d] > 0 => work'[d] > 0
    BY <1>0, <2>1
  <2>3. \A d \in Calls : InFlight(d) => InFlight(d)'
    BY <1>1, <2>1, <2>2 DEF InFlight
  <2>4. Awake'
    BY <2>2 DEF Awake, InFlight
  <2> QED  BY <1>0, <1>2, <1>13, <2>1, <2>3, <2>4, StepKeepsStored
           DEF WakeOK, UnmissedParts, WakeInv
<1>9. ASSUME NEW c \in Calls, ExpireResult(c)  PROVE UnmissedParts'
  <2>1. /\ results' = results \ {c} /\ \A s \in LatestSnapshots : c \notin s.pending
        /\ UNCHANGED <<work, stored, signals, decisions, decided, executed>>
    BY <1>9 DEF ExpireResult
  <2>2. StoredInv'
    <3>1. LatestSnapshots' = LatestSnapshots
      BY <1>1 DEF LatestSnapshots
    <3> QED  BY <2>1, <3>1 DEF StoredInv, WakeOK, UnmissedParts
  <2>3. \A d \in Calls : InFlight(d) => InFlight(d)'
    BY <1>1, <2>1 DEF InFlight
  <2>4. Awake => Awake'
    BY <1>1, <2>1, <2>3 DEF Awake
  <2>5. WakeInv'
    BY <1>0, <1>1, <1>2, <1>3, <2>1, <2>4, StepKeepsWake DEF WakeOK, UnmissedParts
  <2> QED  BY <1>13, <2>1, <2>2, <2>3, <2>5 DEF UnmissedParts
<1>10. ASSUME NEW c \in Calls, NEW b \in BOOLEAN, Decide(c, b)  PROVE UnmissedParts'
  <2>1. /\ decisions' = [decisions EXCEPT ![c][b] = @ + 1]
        /\ decided' = decided \cup {c}
        /\ UNCHANGED <<work, results, executed>>
    BY <1>10 DEF Decide
  <2>2. /\ decisions'[c][b] > 0
        /\ \A d \in Calls, e \in BOOLEAN : decisions[d][e] > 0 => decisions'[d][e] > 0
    BY <1>0, <2>1
  <2>3. \A d \in Calls : InFlight(d) => InFlight(d)'
    BY <1>1, <2>1, <2>2 DEF InFlight
  <2>4. InFlight(c)'
    BY <2>2 DEF InFlight
  <2>7. LatestSnapshots' = LatestSnapshots /\ (Ended' <=> Ended)
    BY <1>1 DEF LatestSnapshots, Ended
  <2>8. \A s \in LatestSnapshots : s.pending \subseteq Calls
    BY AgentStateFields DEF WakeOK, TypeOK, TableType, LatestSnapshots
  <2>5. DecidedInv' /\ SentInv'
    <3>1. DecidedInv'
      BY <2>1, <2>3, <2>4, <2>7, <2>8 DEF DecidedInv, WakeOK, UnmissedParts
    <3>2. \A d \in Calls : Sent(d) => Sent(d)'
      BY <1>1, <2>1, <2>3 DEF Sent
    <3>3. SentInv'
      BY <1>12, <2>7, <2>8, <3>2 DEF SentInv, WakeOK, UnmissedParts
    <3> QED  BY <3>1, <3>3
  <2>6. Awake'
    BY <2>4 DEF Awake
  <2> QED  BY <1>2, <2>1, <2>5, <2>6, StepKeepsStored DEF WakeOK, UnmissedParts, WakeInv
<1>11. ASSUME ExpireLock \/ UNCHANGED vars  PROVE UnmissedParts'
  <2>1. UNCHANGED <<work, stored, signals, decisions, decided, results, executed>>
    BY <1>11 DEF ExpireLock, vars
  <2>2. \A d \in Calls : InFlight(d) => InFlight(d)'
    BY <1>1, <2>1 DEF InFlight
  <2>3. Awake => Awake'
    BY <1>1, <2>1, <2>2 DEF Awake
  <2>4. WakeInv'
    BY <1>0, <1>1, <1>2, <1>3, <2>1, <2>3, StepKeepsWake DEF WakeOK, UnmissedParts
  <2> QED  BY <1>0, <1>2, <1>13, <2>1, <2>2, <2>4, StepKeepsStored
           DEF WakeOK, UnmissedParts
<1> QED  BY <1>5, <1>6, <1>7, <1>8, <1>9, <1>10, <1>11

\* A crash after which nothing is missed: every message the dead tasks handled is
\* delivered again.
LEMMA CrashKeepsUnmissed ==
  ASSUME WakeOK, Crash, missed' = {}
  PROVE  UnmissedParts'
<1> USE DEF tables, redis, history
<1>0. /\ stored \in [Calls -> Nat] /\ signals \in Nat /\ work \in [Calls -> Nat]
      /\ decisions \in [Calls -> [BOOLEAN -> Nat]]
      /\ msg \in [ConfirmTasks -> Decisions \cup {None}]
      /\ \A u \in ConfirmTasks : pc[u] # "idle" => msg[u] \in Decisions
      /\ TypeOK /\ JobTask \in Tasks /\ JobTask \notin ResumeTasks
      /\ ResumeTasks \subseteq Tasks /\ ConfirmTasks \subseteq Tasks /\ JobTask \notin ConfirmTasks
      /\ IsFiniteSet(Tasks)
  BY TasksAssumption DEF WakeOK, TypeOK, TopicType, TaskType, Tasks, LockTasks
<1>1. PICK D \in SUBSET Tasks :
        /\ \A u \in D : pc[u] # "idle"
        /\ pc' = [u \in Tasks |-> IF u \notin D THEN pc[u]
                                  ELSE IF u # JobTask THEN "idle" ELSE "ready"]
        /\ signals' = signals + Cardinality(D \cap ResumeTasks)
        /\ decisions' = [c \in Calls |-> [b \in BOOLEAN |->
             decisions[c][b] + Cardinality({u \in D \cap ConfirmTasks :
                                 msg[u] = [call |-> c, confirmed |-> b]})]]
        /\ state' = [u \in Tasks |-> IF u \in D THEN NewState ELSE state[u]]
        /\ todo' = [u \in Tasks |-> IF u \in D THEN {} ELSE todo[u]]
        /\ fetched' = [u \in Tasks |-> IF u \in D THEN {} ELSE fetched[u]]
        /\ \A u \in D : ~Undispatched(u)
  <2>1. PICK G \in SUBSET {{JobTask}, ResumeTasks, ConfirmTasks} :
          LET D == {u \in UNION G : pc[u] \notin {"ready", "done", "idle"}}
          IN /\ D # {}
             /\ \E Back \in SUBSET D :
                  /\ pc' = [u \in Tasks |->
                             IF u \notin D THEN pc[u]
                             ELSE IF u # JobTask THEN "idle"
                             ELSE IF u \in Back THEN "ready" ELSE "done"]
                  /\ signals' = signals + Cardinality(Back \cap ResumeTasks)
                  /\ decisions' = [c \in Calls |-> [b \in BOOLEAN |->
                       decisions[c][b] + Cardinality({u \in Back \cap ConfirmTasks :
                                           msg[u] = [call |-> c, confirmed |-> b]})]]
                  /\ missed' = IF /\ Back = D
                                  /\ JobTask \in D => Waiting = {}
                                  /\ \A u \in D : ~Undispatched(u)
                               THEN missed ELSE missed \cup {"crash"}
                  /\ handledAgain' = (handledAgain \/ (JobTask \in Back /\ Waiting # {}))
             /\ state' = [u \in Tasks |-> IF u \in D THEN NewState ELSE state[u]]
             /\ todo' = [u \in Tasks |-> IF u \in D THEN {} ELSE todo[u]]
             /\ fetched' = [u \in Tasks |-> IF u \in D THEN {} ELSE fetched[u]]
    BY DEF Crash
  <2> DEFINE D == {u \in UNION G : pc[u] \notin {"ready", "done", "idle"}}
  <2>2. D \subseteq Tasks
    BY <1>0, <2>1
  <2>3. PICK Back \in SUBSET D :
          /\ pc' = [u \in Tasks |->
                     IF u \notin D THEN pc[u]
                     ELSE IF u # JobTask THEN "idle"
                     ELSE IF u \in Back THEN "ready" ELSE "done"]
          /\ signals' = signals + Cardinality(Back \cap ResumeTasks)
          /\ decisions' = [c \in Calls |-> [b \in BOOLEAN |->
               decisions[c][b] + Cardinality({u \in Back \cap ConfirmTasks :
                                   msg[u] = [call |-> c, confirmed |-> b]})]]
          /\ missed' = IF /\ Back = D
                          /\ JobTask \in D => Waiting = {}
                          /\ \A u \in D : ~Undispatched(u)
                       THEN missed ELSE missed \cup {"crash"}
    BY <2>1
  <2>4. Back = D /\ \A u \in D : ~Undispatched(u)
    <3> HIDE DEF D
    <3> QED  BY <2>3
  <2>5. \A u \in D : pc[u] # "idle"
    OBVIOUS
  <2>6. /\ state' = [u \in Tasks |-> IF u \in D THEN NewState ELSE state[u]]
        /\ todo' = [u \in Tasks |-> IF u \in D THEN {} ELSE todo[u]]
        /\ fetched' = [u \in Tasks |-> IF u \in D THEN {} ELSE fetched[u]]
    BY <2>1
  <2>7. pc' = [u \in Tasks |-> IF u \notin D THEN pc[u]
                               ELSE IF u # JobTask THEN "idle" ELSE "ready"]
    <3> HIDE DEF D
    <3> QED  BY <2>3, <2>4
  <2>8. /\ signals' = signals + Cardinality(D \cap ResumeTasks)
        /\ decisions' = [c \in Calls |-> [b \in BOOLEAN |->
             decisions[c][b] + Cardinality({u \in D \cap ConfirmTasks :
                                 msg[u] = [call |-> c, confirmed |-> b]})]]
    <3> HIDE DEF D
    <3> QED  BY <2>3, <2>4, Zenon
  <2>9. D \in SUBSET Tasks
    BY <2>2
  <2> HIDE DEF D
  <2> QED  BY <2>4, <2>5, <2>6, <2>7, <2>8, <2>9
<1>2. UNCHANGED <<snapshots, results, executed, decided, prompts, work, stored, msg>>
  BY DEF Crash
<1>3. \A S : S \subseteq D /\ S # {} => Cardinality(S) \in Nat /\ Cardinality(S) > 0
  <2> SUFFICES ASSUME NEW S, S \subseteq D, S # {}
               PROVE  Cardinality(S) \in Nat /\ Cardinality(S) > 0
    OBVIOUS
  <2>1. IsFiniteSet(S)
    BY <1>0, FS_Subset
  <2>2. Cardinality(S) \in Nat /\ Cardinality(S) # 0
    BY <2>1, FS_CardinalityType, FS_EmptySet
  <2> QED  BY <2>2
<1>4. \A S : S \subseteq D => Cardinality(S) \in Nat
  <2> SUFFICES ASSUME NEW S, S \subseteq D  PROVE Cardinality(S) \in Nat
    OBVIOUS
  <2>1. IsFiniteSet(S)
    BY <1>0, FS_Subset
  <2> QED  BY <2>1, FS_CardinalityType
<1>5. ASSUME NEW c \in Calls, NEW b \in BOOLEAN
      PROVE  /\ decisions[c][b] > 0 => decisions'[c][b] > 0
             /\ \A u \in D \cap ConfirmTasks :
                  msg[u] = [call |-> c, confirmed |-> b] => decisions'[c][b] > 0
  <2> DEFINE S == {u \in D \cap ConfirmTasks : msg[u] = [call |-> c, confirmed |-> b]}
  <2>1. decisions'[c][b] = decisions[c][b] + Cardinality(S) /\ decisions[c][b] \in Nat
    BY <1>0, <1>1
  <2>2. Cardinality(S) \in Nat
    BY <1>4
  <2>3. \A u \in D \cap ConfirmTasks :
          msg[u] = [call |-> c, confirmed |-> b] => Cardinality(S) > 0
    BY <1>3
  <2> HIDE DEF S
  <2> QED  BY <2>1, <2>2, <2>3
<1>6. ASSUME NEW u \in ConfirmTasks, u \in D
      PROVE  \E c \in Calls, b \in BOOLEAN : msg[u].call = c /\ decisions'[c][b] > 0
  <2>1. PICK c \in Calls, b \in BOOLEAN : msg[u] = [call |-> c, confirmed |-> b]
    BY <1>0, <1>1, <1>6 DEF Decisions
  <2> QED  BY <1>5, <1>6, <2>1
<1>7. ASSUME NEW c \in Calls, InFlight(c)  PROVE InFlight(c)'
  <2>1. CASE work[c] > 0 \/ \E b \in BOOLEAN : decisions[c][b] > 0
    BY <1>2, <1>5, <2>1 DEF InFlight
  <2>2. ASSUME NEW u \in ConfirmTasks, pc[u] \in {"load", "answer"}, msg[u].call = c
        PROVE  InFlight(c)'
    <3>1. CASE u \in D
      BY <1>6, <2>2, <3>1 DEF InFlight
    <3>2. CASE u \notin D
      BY <1>0, <1>1, <1>2, <2>2, <3>2 DEF InFlight
    <3> QED  BY <3>1, <3>2
  <2> QED  BY <1>7, <2>1, <2>2 DEF InFlight
<1>8. Cardinality(D \cap ResumeTasks) \in Nat
      /\ (D \cap ResumeTasks # {} => Cardinality(D \cap ResumeTasks) > 0)
  BY <1>3, <1>4
<1>9. ASSUME Awake  PROVE Awake'
  <2>1. CASE signals > 0
    BY <1>0, <1>1, <1>8, <2>1 DEF Awake
  <2>2. CASE \E c \in Calls : stored[c] > 0 \/ InFlight(c)
    BY <1>2, <1>7, <2>2 DEF Awake
  <2>3. ASSUME NEW u \in ConfirmTasks, pc[u] = "signal"
        PROVE  Awake'
    <3>1. CASE u \in D
      BY <1>6, <3>1 DEF Awake, InFlight
    <3>2. CASE u \notin D
      BY <1>0, <1>1, <2>3, <3>2 DEF Awake
    <3> QED  BY <3>1, <3>2
  <2> QED  BY <1>9, <2>1, <2>2, <2>3 DEF Awake
<1>10. ASSUME NEW u \in ResumeTasks, Responsible(u), ~Awake'
       PROVE  Responsible(u)'
  <2>1. u \notin D
    BY <1>0, <1>1, <1>8, <1>10 DEF Awake
  <2>2. pc'[u] = pc[u] /\ state'[u] = state[u] /\ todo'[u] = todo[u] /\ fetched'[u] = fetched[u]
    BY <1>0, <1>1, <2>1
  <2> QED  BY <1>10, <2>2 DEF Responsible
<1>11. LatestKnown
  BY <1>0, <1>2, LatestIsKnown DEF WakeOK
<1>14. ASSUME NEW u \in Tasks, NEW c \in Calls, Owes(u, c)
       PROVE  Owes(u, c)'
  <2>1. u \notin D
    BY <1>1, <1>14 DEF Owes, Undispatched
  <2>2. pc'[u] = pc[u] /\ state'[u] = state[u] /\ todo'[u] = todo[u]
    BY <1>1, <2>1
  <2> QED  BY <1>14, <2>2 DEF Owes
<1>12. SentInv' /\ DecidedInv' /\ StoredInv'
  <2>1. SentInv' /\ DecidedInv'
    BY <1>0, <1>2, <1>7, <1>11, <1>14, StepKeepsSent DEF WakeOK, UnmissedParts
  <2> QED  BY <1>2, <1>11, <2>1, StepKeepsStored DEF WakeOK, UnmissedParts
<1>13. WakeInv'
  <2> SUFFICES ASSUME ~Awake', ~Ended', \E s \in snapshots' : Complete(s)'
               PROVE  \E u \in ResumeTasks : Responsible(u)'
    BY DEF WakeInv
  <2>1. ~Awake /\ ~Ended /\ \E s \in snapshots : Complete(s)
    BY <1>2, <1>9, <1>11, CompleteBefore DEF WakeOK, Ended
  <2>2. PICK u \in ResumeTasks : Responsible(u)
    BY <2>1 DEF WakeOK, UnmissedParts, WakeInv
  <2> QED  BY <1>10, <2>2
<1> QED  BY <1>12, <1>13 DEF UnmissedParts

\* Every step either leaves the calls of the turn to somebody or something comes to
\* nothing in it.
LEMMA NextKeepsUnmissed ==
  ASSUME TypeOK, ConversationInv, ProducedInv, AwaitedInv, FreshInv, Orderly => TurnInv,
         UnmissedInv, [Next]_vars
  PROVE  UnmissedInv'
<1> SUFFICES ASSUME Orderly', missed' = {}  PROVE UnmissedParts'
  BY DEF UnmissedInv
<1>2. Orderly /\ TurnInv
  BY OrderlyStep
<1>12. CASE \E t \in Tasks \ ConfirmTasks : SaveWaiting(t)
  BY <1>2, <1>12, SaveBeginsUnmissed
<1> SUFFICES ASSUME \A t \in Tasks \ ConfirmTasks : ~SaveWaiting(t)  PROVE UnmissedParts'
  BY <1>12
<1>1. WakeOK
  <2>1. missed = {}
    BY NextGrows
  <2> QED  BY <1>2, <2>1 DEF WakeOK, UnmissedInv
<1>0. /\ JobTask \in Tasks /\ JobTask \notin ConfirmTasks /\ JobTask \notin ResumeTasks
      /\ ResumeTasks \subseteq Tasks /\ ConfirmTasks \subseteq Tasks
      /\ ResumeTasks \cap ConfirmTasks = {}
  BY TasksAssumption DEF Tasks, LockTasks
<1>3. ASSUME NEW t \in Tasks, HandlerFails(t)  PROVE FALSE
  BY <1>3 DEF HandlerFails
<1>4. ASSUME NEW t \in Tasks, t \notin ConfirmTasks,
             Execute(t) \/ FinalSave(t) \/ FinalUpdate(t) \/ Release(t)
      PROVE  UnmissedParts'
  BY <1>1, <1>4, LoopKeepsUnmissed
<1>5. ASSUME NEW t \in ResumeTasks, ResumeStep(t)  PROVE UnmissedParts'
  BY <1>1, <1>5, ResumeKeepsUnmissed
<1>6. ASSUME NEW t \in ConfirmTasks, ConfirmStep(t)  PROVE UnmissedParts'
  BY <1>1, <1>6, ConfirmKeepsUnmissed
<1>7. ASSUME NEW t \in ConfirmTasks, Release(t)  PROVE UnmissedParts'
  <2>1. /\ OthersStand(t) /\ \A u \in Tasks \ {t} : fetched'[u] = fetched[u]
        /\ UNCHANGED <<stored, signals, decisions, results, executed, decided, msg>>
    BY <1>0, <1>7, LoopStands
  <2>2. UNCHANGED <<work, snapshots, prompts>> /\ pc[t] = "release"
    BY <1>7 DEF Release, topics, tables
  <2>3. \A u \in ConfirmTasks \ {t} : pc'[u] = pc[u]
    BY <1>0, <2>1 DEF OthersStand
  <2>4. \A c \in Calls : InFlight(c) => InFlight(c)'
    BY <2>1, <2>2, <2>3 DEF InFlight
  <2>5. Awake => Awake'
    BY <2>1, <2>2, <2>3, <2>4 DEF Awake
  <2>6. LatestKnown
    BY <1>0, <1>1, <2>2, LatestIsKnown DEF WakeOK
  <2>7. \A u \in ResumeTasks \ {t} : Responsible(u) => Responsible(u)'
    BY <1>0, <2>1, OthersResponsible
  <2>8. WakeInv'
    BY <1>0, <1>1, <2>1, <2>2, <2>5, <2>6, <2>7, StepKeepsWake DEF WakeOK, UnmissedParts
  <2>9. /\ \A u \in Tasks \ {t} : \A c \in Calls : Owes(u, c) => Owes(u, c)'
        /\ \A c \in Calls : ~Owes(t, c)
    BY <1>0, <2>1, <2>2, OthersOwe DEF Owes
  <2>10. SentInv' /\ DecidedInv'
    BY <1>0, <1>1, <2>1, <2>2, <2>4, <2>6, <2>9, StepKeepsSent DEF WakeOK, UnmissedParts
  <2> QED  BY <1>1, <2>1, <2>6, <2>8, <2>10, StepKeepsStored DEF WakeOK, UnmissedParts
<1>8. ASSUME StartJob  PROVE UnmissedParts'
  <2>1. /\ OthersStand(JobTask)
        /\ UNCHANGED <<snapshots, fetched, work, stored, signals, decisions, prompts, results,
                       executed, decided>>
        /\ pc[JobTask] = "ready" /\ \A c \in Calls : ~Owes(JobTask, c)
    BY <1>0, <1>8 DEF StartJob, OthersStand, Goto, topics, redis, history, TypeOK, TaskType,
       Owes
  <2> QED  BY <1>0, <1>1, <2>1, TaskKeepsUnmissed
<1>9. ASSUME Crash  PROVE UnmissedParts'
  BY <1>1, <1>9, CrashKeepsUnmissed
<1>10. ASSUME \/ \E c \in Calls : \/ RunTool(c) \/ SendSignal(c) \/ SignalFails(c)
                                  \/ StoreFails(c) \/ WorkerCrash(c) \/ ExpireResult(c)
              \/ \E c \in Calls, b \in BOOLEAN : Decide(c, b)
              \/ ExpireLock \/ UNCHANGED vars
       PROVE  UnmissedParts'
  BY <1>1, <1>10, EnvironmentKeepsUnmissed
<1>13. ASSUME OutliveLock  PROVE FALSE
  BY <1>2, <1>13 DEF OutliveLock, Orderly
<1> QED
  BY <1>0, <1>3, <1>4, <1>5, <1>6, <1>7, <1>8, <1>9, <1>10, <1>13
     DEF Next, Job, Resume, ResumeStep, Confirm, ConfirmStep

\* At first nothing is suspended.
LEMMA InitUnmissed == Init => UnmissedInv
<1> SUFFICES ASSUME Init  PROVE UnmissedInv
  OBVIOUS
<1>1. snapshots = {} /\ LatestSnapshots = {}
  BY DEF Init, LatestSnapshots
<1> QED  BY <1>1 DEF UnmissedInv, UnmissedParts, SentInv, DecidedInv, StoredInv, WakeInv

\* As long as nothing came to nothing since the latest turn was saved, every call of it
\* is sent out or about to be, every decision is answered or on its way, and if all
\* its results have arrived, a signal is on its way or a resume task will go on with
\* it: whatever fails, until a handler outlives its lock or the job message is handled
\* again once the job was suspended.
THEOREM UnmissedInvariant == Spec => []UnmissedInv
<1>1. /\ TypeOK /\ ConversationInv /\ ProducedInv /\ AwaitedInv /\ FreshInv
      /\ (Orderly => TurnInv) /\ UnmissedInv /\ [Next]_vars
      => UnmissedInv'
  BY NextKeepsUnmissed
<1> QED  BY <1>1, InitUnmissed, TypeCorrect, ConversationInvariant, InjectedWasProduced,
            AwaitedInvariant, FreshInvariant, TurnInvariant, PTL DEF Spec

\* A suspended job is stuck in a turn only if something came to nothing since that turn
\* was saved, for one of the reasons in missed.
THEOREM OnlyMissedWakeUpsStick == Spec => []StuckOnlyIfMissed
<1>1. TypeOK /\ ConversationInv /\ UnmissedInv => StuckOnlyIfMissed
  <2> SUFFICES ASSUME TypeOK, ConversationInv, UnmissedInv, Orderly, Stuck, missed = {}
               PROVE  FALSE
    BY DEF StuckOnlyIfMissed
  <2>1. /\ \A t \in Tasks : pc[t] \in {"idle", "done"}
        /\ \A t \in ResumeTasks \cup ConfirmTasks : t \in Tasks
        /\ signals = 0
        /\ \A c \in Calls : work[c] = 0 /\ stored[c] = 0
        /\ \A c \in Calls, b \in BOOLEAN : decisions[c][b] = 0
    BY DEF Stuck, Quiet, Tasks, LockTasks
  <2>2. ~Awake /\ \A c \in Calls : ~InFlight(c)
    BY <2>1 DEF Awake, InFlight
  <2>3. PICK s \in LatestSnapshots :
          s.status = "waiting_tool" /\ s.pending \cap prompts \subseteq decided
    BY DEF Stuck
  <2>4. ~Ended /\ UnmissedParts
    BY DEF Stuck, Ended, UnmissedInv
  <2>5. s \in snapshots /\ s.pending # {} /\ s.pending \subseteq Calls
    BY <2>3, AgentStateFields DEF ConversationInv, Coherent, LatestSnapshots, TypeOK, TableType
  <2>6. \A t \in Tasks : \A c : ~Owes(t, c)
    BY <2>1 DEF Owes
  <2>7. s.pending \subseteq executed
    <3> SUFFICES ASSUME NEW c \in s.pending  PROVE c \in executed
      OBVIOUS
    <3>1. c \in Calls /\ Sent(c)
      BY <2>4, <2>5, <2>6 DEF UnmissedParts, SentInv
    <3>2. c \in decided => c \in executed
      BY <2>2, <2>4, <3>1 DEF UnmissedParts, DecidedInv
    <3> QED  BY <2>2, <2>3, <3>1, <3>2 DEF Sent
  <2>8. s.pending \subseteq results
    BY <2>4, <2>7 DEF UnmissedParts, StoredInv
  <2>9. \A t \in ResumeTasks : ~Responsible(t)
    BY <2>1 DEF Responsible, Thinking
  <2> QED  BY <2>2, <2>4, <2>5, <2>8, <2>9 DEF UnmissedParts, WakeInv, Complete
<1> QED  BY <1>1, TypeCorrect, ConversationInvariant, UnmissedInvariant, PTL
=============================================================================
