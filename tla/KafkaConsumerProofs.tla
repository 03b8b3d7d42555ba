--------------------------- MODULE KafkaConsumerProofs ---------------------------
(***************************************************************************)
(* Proofs about KafkaConsumer, for any number of members, messages,        *)
(* concurrent tasks, crashes, rebalances and failing commits; and, at the  *)
(* end, about StateLock, for which the consumers' handlers compete:         *)
(* how many handlers of a job can work at once, for any number of jobs and *)
(* handlers and any time they work.                                        *)
(***************************************************************************)
EXTENDS KafkaConsumer, StateLock, FiniteSetTheorems, TLAPS

-----------------------------------------------------------------------------
(* Types                                                                   *)

\* A task given by the iterator is typed.
LEMMA NextTaskType ==
    ASSUME TypeOK, NEW m \in Members, CanYield(m)
    PROVE  /\ NextTask(m) \in Task
           /\ NextTask(m).stage = "handling"
           /\ NextTask(m).msg = position[m] + 1
           /\ position[m] + 1 \in Msgs
<1>1. position[m] \in 0..Messages /\ position[m] < Messages /\ gen \in Nat
  BY DEF TypeOK, CanYield
<1>2. Messages \in Nat
  BY ConsumerAssumption
<1>3. position[m] + 1 \in Msgs
  BY <1>1, <1>2 DEF Msgs
<1> QED  BY <1>1, <1>3 DEF NextTask, Task, Stages

\* Moving a task to another stage keeps its message.
LEMMA StagedTask ==
    ASSUME NEW t \in Task, NEW stage \in Stages
    PROVE  /\ [t EXCEPT !.stage = stage] \in Task
           /\ [t EXCEPT !.stage = stage].msg = t.msg
           /\ [t EXCEPT !.stage = stage].stage = stage
  BY DEF Task

\* A step of the loop keeps the types.
LEMMA RunType ==
    ASSUME TypeOK, NEW m \in Members, Run(m)
    PROVE  TypeOK'
<1>1. CASE Deliver(m)
  <2>1. NextTask(m) \in Task /\ position[m] + 1 \in 0..Messages
    BY <1>1, NextTaskType, ConsumerAssumption DEF Deliver, Msgs
  <2> QED  BY <1>1, <2>1 DEF TypeOK, Deliver, Advance, broker, history
<1>2. CASE DeliverAtLimit(m)
  <2>1. NextTask(m) \in Task /\ position[m] + 1 \in 0..Messages
    BY <1>2, NextTaskType, ConsumerAssumption DEF DeliverAtLimit, Msgs
  <2> QED  BY <1>2, <2>1 DEF TypeOK, DeliverAtLimit, Advance, broker, history
<1>3. CASE StartWaiting(m)
  BY <1>3 DEF TypeOK, StartWaiting, broker, history
<1> QED  BY <1>1, <1>2, <1>3 DEF Run

\* So does a step of a task.
LEMMA ProcessType ==
    ASSUME TypeOK, NEW m \in Members, NEW t \in active[m],
           HandlerReturns(m, t) \/ HandlerRaises(m, t) \/ Commit(m, t) \/ CommitFails(m, t)
    PROVE  TypeOK'
<1>0. t \in Task /\ t.msg \in Msgs
  BY DEF TypeOK, Task
<1>s. ASSUME NEW stage \in Stages, SetStage(m, t, stage)
      PROVE  active' \in [Members -> SUBSET Task]
  <2>1. [t EXCEPT !.stage = stage] \in Task
    BY <1>0, StagedTask
  <2> QED  BY <1>s, <2>1 DEF TypeOK, SetStage
<1>e. EndTask(m, t) => active' \in [Members -> SUBSET Task]
  BY DEF TypeOK, EndTask
<1>1. CASE HandlerReturns(m, t)
  <2>1. active' \in [Members -> SUBSET Task]
    BY <1>1, <1>s DEF HandlerReturns, Stages
  <2> QED  BY <1>0, <1>1, <2>1 DEF TypeOK, HandlerReturns, broker
<1>2. CASE HandlerRaises(m, t)
  <2>1. active' \in [Members -> SUBSET Task]
    BY <1>2, <1>s DEF HandlerRaises, Stages
  <2> QED  BY <1>0, <1>2, <2>1 DEF TypeOK, HandlerRaises, broker
<1>3. CASE Commit(m, t)
  <2>1. active' \in [Members -> SUBSET Task]
    BY <1>3, <1>e DEF Commit
  <2> QED  BY <1>3, <2>1 DEF TypeOK, Commit, history
<1>4. CASE CommitFails(m, t)
  <2>1. active' \in [Members -> SUBSET Task]
    BY <1>4, <1>s, <1>e DEF CommitFails, Stages
  <2> QED  BY <1>4, <2>1 DEF TypeOK, CommitFails, Trouble, broker, history
<1> QED  BY <1>1, <1>2, <1>3, <1>4

\* What a member holds are messages of the partition.
LEMMA HeldType ==
    ASSUME TypeOK, NEW m \in Members
    PROVE  Held(m) \subseteq Msgs /\ MsgsOf(waiting[m]) \subseteq Held(m)
  BY DEF TypeOK, Held, MsgsOf, Task

\* So do the broker, shutdown, crash and restart.
LEMMA GroupType ==
    ASSUME TypeOK, NEW m \in Members,
           Assign(m) \/ Rebalance(m) \/ Shutdown(m) \/ Exit(m) \/ Crash(m) \/ Restart(m)
    PROVE  TypeOK'
<1>1. CASE Assign(m)
  BY <1>1 DEF TypeOK, Assign, AssignTo, history
<1>2. CASE Rebalance(m)
  BY <1>2 DEF TypeOK, Rebalance, AssignTo, Trouble, history
<1>3. CASE Shutdown(m)
  BY <1>3, HeldType DEF TypeOK, Shutdown, Trouble, broker
<1>4. CASE Exit(m)
  BY <1>4 DEF TypeOK, Exit, LeaveGroup, loop, history
<1>5. CASE Crash(m)
  BY <1>5, HeldType DEF TypeOK, Crash, LeaveGroup, Trouble
<1>6. CASE Restart(m)
  BY <1>6 DEF TypeOK, Restart, broker, loop, history
<1> QED  BY <1>1, <1>2, <1>3, <1>4, <1>5, <1>6

\* Every reachable state is typed; in particular the committed offset and the
\* positions stay within the partition.
THEOREM TypeCorrect == Spec => []TypeOK
<1>1. Init => TypeOK
  BY ConsumerAssumption DEF Init, TypeOK
<1>2. TypeOK /\ [Next]_vars => TypeOK'
  <2> SUFFICES ASSUME TypeOK, [Next]_vars PROVE TypeOK'
    OBVIOUS
  <2>1. CASE UNCHANGED vars
    BY <2>1 DEF TypeOK, vars, broker, loop, history
  <2>2. CASE Next
    BY <2>2, RunType, ProcessType, GroupType DEF Next, Process
  <2> QED  BY <2>1, <2>2
<1> QED  BY <1>1, <1>2, PTL DEF Spec

-----------------------------------------------------------------------------
(* No message is skipped                                                   *)

\* Message i has an answer, or is known to be with or lost by a member.
Accounted(i) == handled[i] > 0 \/ i \in failed \/ InProgress(i) \/ i \in dropped

\* Messages below the owner's position are out of the partition as well as the
\* committed ones.
Given(i) == i <= committed \/ (owner # Nobody /\ i <= position[owner])

\* A member that is not running waits for no slot; one that is down has no task.
IdleInv ==
    \A m \in Members :
        /\ up[m] # "running" => waiting[m] = {}
        /\ up[m] = "down" => active[m] = {}

\* A task past its handler has its message answered; one that waits is not.
AnsweredInv ==
    \A m \in Members :
        /\ \A t \in active[m] :
             t.stage # "handling" => handled[t.msg] > 0 \/ t.msg \in failed
        /\ \A t \in waiting[m] : t.stage = "handling"

\* The inductive invariant behind NothingSkipped and CommitsAdvance.
ConsumerInv ==
    /\ TypeOK
    /\ IdleInv
    /\ AnsweredInv
    /\ owner # Nobody => committed <= position[owner]
    /\ \A i \in Msgs : Given(i) => Accounted(i)

\* A step that keeps or answers what members hold, and drops the rest openly,
\* keeps every message accounted for.
LEMMA StaysAccounted ==
    ASSUME NEW i \in Msgs, TypeOK, Accounted(i),
           \A j \in Msgs : handled[j] > 0 => handled'[j] > 0,
           failed \subseteq failed', dropped \subseteq dropped',
           \A m \in Members : up[m] # "down" /\ i \in Held(m) =>
               \/ up'[m] # "down" /\ i \in Held(m)'
               \/ handled'[i] > 0 \/ i \in failed' \/ i \in dropped'
    PROVE  Accounted(i)'
  BY DEF Accounted, InProgress

\* A message taken from the iterator is with the member that took it.
LEMMA RunInv ==
    ASSUME ConsumerInv, NEW m \in Members, Run(m)
    PROVE  ConsumerInv'
<1>0. TypeOK /\ TypeOK'
  BY RunType DEF ConsumerInv
<1>1. CASE Deliver(m) \/ DeliverAtLimit(m)
  <2>1. /\ CanYield(m) /\ up' = up /\ owner' = owner /\ owner = m /\ committed' = committed
        /\ position' = [position EXCEPT ![m] = @ + 1]
        /\ handled' = handled /\ failed' = failed /\ dropped' = dropped
    BY <1>1 DEF Deliver, DeliverAtLimit, CanYield, Advance, broker, history
  <2>2. /\ NextTask(m) \in Task /\ NextTask(m).stage = "handling"
        /\ NextTask(m).msg = position[m] + 1 /\ position[m] + 1 \in Msgs
    BY <1>0, <2>1, NextTaskType
  <2>3. /\ \A n \in Members : Held(n) \subseteq Held(n)'
        /\ position[m] + 1 \in Held(m)'
    BY <1>0, <1>1, <2>2 DEF Deliver, DeliverAtLimit, Held, MsgsOf, TypeOK, CanYield
  <2>4. ASSUME NEW i \in Msgs, Given(i)' PROVE Accounted(i)'
    <3>1. CASE i = position[m] + 1
      <4>1. up[m] = "running"
        BY <2>1 DEF CanYield
      <4> QED  BY <2>1, <2>3, <3>1, <4>1 DEF Accounted, InProgress
    <3>2. CASE i # position[m] + 1
      <4>1. position[m] \in Nat /\ committed \in Nat /\ i \in Nat /\ position'[m] = position[m] + 1
        BY <1>0, <2>1, ConsumerAssumption DEF TypeOK, Msgs
      <4>2. Given(i)
        BY <2>1, <2>4, <3>2, <4>1 DEF Given
      <4>3. Accounted(i)
        BY <4>2 DEF ConsumerInv
      <4> QED  BY <1>0, <2>1, <2>3, <4>3, StaysAccounted
    <3> QED  BY <3>1, <3>2
  <2>5. IdleInv'
    BY <1>0, <1>1, <2>1 DEF ConsumerInv, IdleInv, Deliver, DeliverAtLimit, CanYield, TypeOK
  <2>6. AnsweredInv'
    BY <1>0, <1>1, <2>1, <2>2 DEF ConsumerInv, AnsweredInv, Deliver, DeliverAtLimit, TypeOK
  <2>7. (owner # Nobody => committed <= position[owner])'
    BY <1>0, <2>1, ConsumerAssumption DEF ConsumerInv, TypeOK
  <2> QED  BY <1>0, <2>4, <2>5, <2>6, <2>7 DEF ConsumerInv
<1>2. CASE StartWaiting(m)
  <2>1. /\ broker' = broker /\ up' = up /\ position' = position /\ history' = history
        /\ up[m] = "running"
    BY <1>2 DEF StartWaiting, broker, history
  <2>2. \A n \in Members : Held(n)' = Held(n)
    BY <1>0, <1>2 DEF StartWaiting, Held, MsgsOf, TypeOK
  <2>3. ASSUME NEW i \in Msgs, Given(i)' PROVE Accounted(i)'
    BY <2>1, <2>2, <2>3 DEF ConsumerInv, Given, Accounted, InProgress, broker, history
  <2>4. IdleInv'
    BY <1>0, <1>2, <2>1 DEF ConsumerInv, IdleInv, StartWaiting, TypeOK
  <2>5. AnsweredInv'
    BY <1>0, <1>2 DEF ConsumerInv, AnsweredInv, StartWaiting, history, TypeOK
  <2> QED  BY <1>0, <2>1, <2>3, <2>4, <2>5 DEF ConsumerInv, broker
<1> QED  BY <1>1, <1>2 DEF Run

\* A task goes on, is answered or ends.  Only an answered task commits or ends,
\* and what it commits is the position of the owner.
LEMMA ProcessInv ==
    ASSUME ConsumerInv, NEW m \in Members, NEW t \in active[m],
           HandlerReturns(m, t) \/ HandlerRaises(m, t) \/ Commit(m, t) \/ CommitFails(m, t)
    PROVE  ConsumerInv'
<1>0. TypeOK /\ TypeOK'
  BY ProcessType DEF ConsumerInv
<1>t. t \in Task /\ t.msg \in Msgs /\ \A i \in Msgs : handled[i] \in Nat
  BY <1>0 DEF TypeOK, Task
<1>1. /\ owner' = owner /\ up' = up /\ position' = position /\ waiting' = waiting
      /\ dropped' = dropped /\ failed \subseteq failed'
      /\ \A i \in Msgs : handled[i] > 0 => handled'[i] > 0
  BY <1>0, <1>t DEF HandlerReturns, HandlerRaises, Commit, CommitFails, TypeOK, broker, history
<1>2. handled'[t.msg] > 0 \/ t.msg \in failed'
  BY <1>0, <1>t DEF HandlerReturns, HandlerRaises, Commit, CommitFails, TypeOK,
     ConsumerInv, AnsweredInv, history
<1>3. \/ EndTask(m, t)
      \/ \E stage \in {"commit", "recommit"} : SetStage(m, t, stage)
  BY DEF HandlerReturns, HandlerRaises, Commit, CommitFails
<1>4. \A u \in active[m] : u # t => u \in active'[m]
  BY <1>0, <1>3 DEF EndTask, SetStage, TypeOK
<1>5. \A n \in Members : n # m => active'[n] = active[n]
  BY <1>0, <1>3 DEF EndTask, SetStage, TypeOK
<1>6. \A u \in active'[m] : u \in active[m] \/ u.msg = t.msg
  <2>1. CASE EndTask(m, t)
    BY <1>0, <2>1 DEF EndTask, TypeOK
  <2>2. ASSUME NEW stage \in {"commit", "recommit"}, SetStage(m, t, stage)
        PROVE  \A u \in active'[m] : u \in active[m] \/ u.msg = t.msg
    <3> DEFINE s == [t EXCEPT !.stage = stage]
    <3>1. s.msg = t.msg
      BY <1>t, StagedTask DEF Stages
    <3>2. active'[m] = (active[m] \ {t}) \cup {s}
      BY <1>0, <2>2 DEF SetStage, TypeOK
    <3> HIDE DEF s
    <3> QED  BY <3>1, <3>2
  <2> QED  BY <1>3, <2>1, <2>2
<1>7. ASSUME NEW i \in Msgs, Given(i)' PROVE Accounted(i)'
  <2>1. Given(i)
    BY <1>0, <1>1, <1>7, ConsumerAssumption
       DEF Given, HandlerReturns, HandlerRaises, Commit, CommitFails, broker, TypeOK, Msgs
  <2>2. Accounted(i)
    BY <2>1 DEF ConsumerInv
  <2>3. ASSUME NEW n \in Members, up[n] # "down", i \in Held(n)
        PROVE  (up'[n] # "down" /\ i \in Held(n)') \/ handled'[i] > 0 \/ i \in failed'
    <3>1. CASE i = t.msg
      BY <1>2, <3>1
    <3>2. CASE i # t.msg
      BY <1>1, <1>4, <1>5, <2>3, <3>2 DEF Held, MsgsOf
    <3> QED  BY <3>1, <3>2
  <2> QED  BY <1>0, <1>1, <2>2, <2>3, StaysAccounted
<1>8. IdleInv'
  <2>1. up[m] # "down"
    BY DEF ConsumerInv, IdleInv
  <2> QED  BY <1>1, <1>5, <2>1 DEF ConsumerInv, IdleInv
<1>9. AnsweredInv'
  <2>1. ASSUME NEW n \in Members, NEW u \in active'[n], u.stage # "handling"
        PROVE  handled'[u.msg] > 0 \/ u.msg \in failed'
    <3>1. CASE u \in active[n]
      <4>1. u.msg \in Msgs
        BY <1>0, <3>1 DEF TypeOK, Task
      <4> QED  BY <1>1, <2>1, <3>1, <4>1 DEF ConsumerInv, AnsweredInv
    <3>2. CASE u \notin active[n]
      BY <1>2, <1>5, <1>6, <2>1, <3>2
    <3> QED  BY <3>1, <3>2
  <2> QED  BY <1>1, <2>1 DEF ConsumerInv, AnsweredInv
<1>10. (owner # Nobody => committed <= position[owner])'
  BY <1>0, <1>1, ConsumerAssumption DEF ConsumerInv, HandlerReturns, HandlerRaises,
     Commit, CommitFails, broker, TypeOK
<1> QED  BY <1>0, <1>7, <1>8, <1>9, <1>10 DEF ConsumerInv

\* An assignment starts at the committed offset; a member that leaves ends its
\* tasks first, or drops them.
LEMMA GroupInv ==
    ASSUME ConsumerInv, NEW m \in Members,
           Assign(m) \/ Rebalance(m) \/ Shutdown(m) \/ Exit(m) \/ Crash(m) \/ Restart(m)
    PROVE  ConsumerInv'
<1>0. TypeOK /\ TypeOK'
  BY GroupType DEF ConsumerInv
<1>n. committed \in Nat /\ Nobody \notin Members
  BY <1>0, ConsumerAssumption DEF TypeOK
<1>1. CASE Assign(m) \/ Rebalance(m)
  <2>1. /\ AssignTo(m) /\ committed' = committed /\ up' = up /\ waiting' = waiting
        /\ active' = active /\ history' = history
    BY <1>1 DEF Assign, Rebalance
  <2>2. position'[m] = committed /\ owner' = m
    BY <1>0, <2>1 DEF AssignTo, TypeOK
  <2>3. ASSUME NEW i \in Msgs, Given(i)' PROVE Accounted(i)'
    <3>1. Given(i)
      BY <2>1, <2>2, <2>3 DEF Given
    <3> QED  BY <2>1, <3>1 DEF ConsumerInv, Accounted, InProgress, Held, history
  <2> QED  BY <1>0, <1>n, <2>1, <2>2, <2>3
           DEF ConsumerInv, IdleInv, AnsweredInv, history
<1>2. CASE Shutdown(m) \/ Exit(m) \/ Crash(m)
  <2>1. /\ committed' = committed /\ position' = position
        /\ owner' = owner \/ owner' = Nobody
        /\ handled' = handled /\ failed' = failed /\ dropped \subseteq dropped'
    BY <1>2 DEF Shutdown, Exit, Crash, LeaveGroup, broker, loop, history
  <2>2. ASSUME NEW i \in Msgs, Given(i)' PROVE Accounted(i)'
    <3>1. Accounted(i)
      BY <2>1, <2>2 DEF ConsumerInv, Given
    <3>2. ASSUME NEW n \in Members, up[n] # "down", i \in Held(n)
          PROVE  (up'[n] # "down" /\ i \in Held(n)') \/ i \in dropped'
      <4>1. CASE Shutdown(m)
        BY <1>0, <3>2, <4>1 DEF Shutdown, Held, MsgsOf, TypeOK
      <4>2. CASE Exit(m)
        <5>1. n # m
          BY <3>2, <4>2 DEF Exit, Held, MsgsOf, ConsumerInv, IdleInv
        <5> QED  BY <1>0, <3>2, <4>2, <5>1 DEF Exit, Held, loop, TypeOK
      <4>3. CASE Crash(m)
        BY <1>0, <3>2, <4>3 DEF Crash, Held, TypeOK
      <4> QED  BY <1>2, <4>1, <4>2, <4>3
    <3> QED  BY <1>0, <2>1, <3>1, <3>2, StaysAccounted
  <2>3. IdleInv' /\ AnsweredInv'
    <3>1. CASE Shutdown(m)
      BY <1>0, <3>1 DEF Shutdown, ConsumerInv, IdleInv, AnsweredInv, TypeOK
    <3>2. CASE Exit(m)
      BY <1>0, <3>2 DEF Exit, loop, history, ConsumerInv, IdleInv, AnsweredInv, TypeOK
    <3>3. CASE Crash(m)
      BY <1>0, <3>3 DEF Crash, ConsumerInv, IdleInv, AnsweredInv, TypeOK
    <3> QED  BY <1>2, <3>1, <3>2, <3>3
  <2> QED  BY <1>0, <2>1, <2>2, <2>3 DEF ConsumerInv
<1>3. CASE Restart(m)
  <2>1. /\ broker' = broker /\ loop' = loop /\ history' = history
        /\ \A n \in Members : up[n] # "down" => up'[n] # "down"
        /\ \A n \in Members : n # m => up'[n] = up[n]
        /\ up[m] = "down" /\ up'[m] = "running"
    BY <1>0, <1>3 DEF Restart, TypeOK
  <2>2. IdleInv'
    BY <2>1 DEF ConsumerInv, IdleInv, loop
  <2>3. \A i \in Msgs : Given(i)' => Accounted(i)'
    BY <2>1 DEF ConsumerInv, Given, Accounted, InProgress, Held, broker, loop, history
  <2>4. AnsweredInv'
    BY <2>1 DEF ConsumerInv, AnsweredInv, loop, history
  <2> QED  BY <1>0, <2>1, <2>2, <2>3, <2>4 DEF ConsumerInv, broker, loop
<1> QED  BY <1>1, <1>2, <1>3

\* The invariant is inductive.
LEMMA Invariance == Spec => []ConsumerInv
<1>1. Init => ConsumerInv
  <2>1. Init => TypeOK
    BY ConsumerAssumption DEF Init, TypeOK
  <2>2. ASSUME Init, NEW i \in Msgs PROVE ~Given(i)
    BY <2>2, ConsumerAssumption DEF Init, Given, Msgs
  <2> QED  BY <2>1, <2>2 DEF Init, ConsumerInv, IdleInv, AnsweredInv
<1>2. ConsumerInv /\ [Next]_vars => ConsumerInv'
  <2> SUFFICES ASSUME ConsumerInv, [Next]_vars PROVE ConsumerInv'
    OBVIOUS
  <2>1. CASE UNCHANGED vars
    BY <2>1 DEF ConsumerInv, TypeOK, IdleInv, AnsweredInv, Given, Accounted, InProgress,
       Held, vars, broker, loop, history
  <2>2. CASE Next
    BY <2>2, RunInv, ProcessInv, GroupInv DEF Next, Process
  <2> QED  BY <2>1, <2>2
<1> QED  BY <1>1, <1>2, PTL DEF Spec

\* run() and commit() skip no message: whatever is below the committed offset was
\* answered by a handler, is with a live member, or was lost with one.
THEOREM NothingIsSkipped == Spec => []NothingSkipped
<1>1. ConsumerInv => NothingSkipped
  BY ConsumerAssumption
     DEF ConsumerInv, NothingSkipped, Given, Accounted, TypeOK, Msgs
<1> QED  BY <1>1, Invariance, PTL

\* The committed offset never goes back: only the owner commits, and its position
\* is never below the offset it was assigned at.
THEOREM OffsetsAdvance == Spec => CommitsAdvance
<1>1. ConsumerInv /\ [Next]_vars => [committed' >= committed]_vars
  <2> SUFFICES ASSUME ConsumerInv, [Next]_vars PROVE committed' >= committed \/ UNCHANGED vars
    OBVIOUS
  <2>0. committed \in Nat
    BY ConsumerAssumption DEF ConsumerInv, TypeOK
  <2>1. ASSUME NEW m \in Members, NEW t \in active[m], Commit(m, t)
        PROVE  committed' >= committed
    BY <2>0, <2>1, ConsumerAssumption DEF ConsumerInv, TypeOK, Commit
  <2>2. CASE UNCHANGED vars
    BY <2>2
  <2>3. CASE Next
    BY <2>0, <2>1, <2>3 DEF Next, Run, Process, Deliver, DeliverAtLimit, StartWaiting,
       HandlerReturns, HandlerRaises, CommitFails, Assign, Rebalance, Shutdown, Exit,
       Crash, Restart, broker
  <2> QED  BY <2>2, <2>3
<1> QED  BY <1>1, Invariance, PTL DEF Spec, CommitsAdvance

-----------------------------------------------------------------------------
(* Once per assignment                                                     *)

\* The handlers at work on message i, and those that wait for a slot.
Live(i) ==
    {p \in Members \X Task :
        p[2] \in active[p[1]] \cup waiting[p[1]] /\ p[2].msg = i /\ p[2].stage = "handling"}

\* The assignment under way still has to give message i.
ToCome(i) == owner # Nobody /\ position[owner] < i

\* Every handling of message i used up an assignment, and one that has not given i
\* yet is not among them.
OnceFor(i) ==
    /\ IsFiniteSet(Live(i))
    /\ handled[i] + Cardinality(Live(i)) <= gen
    /\ ToCome(i) => handled[i] + Cardinality(Live(i)) < gen

\* Tasks are of assignments made so far, and of messages they have given; a task
\* that waits for a slot has none.
TasksInv ==
    \A m \in Members :
        /\ \A t \in active[m] \cup waiting[m] :
             t.gen <= gen /\ (t.gen = gen /\ owner = m => t.msg <= position[m])
        /\ \A t \in waiting[m] : t.stage = "handling" /\ t \notin active[m]

\* The inductive invariant behind OncePerAssignment.
OnceInv == TypeOK /\ TasksInv /\ \A i \in Msgs : OnceFor(i)

\* Moving a task to another stage keeps its assignment.
LEMMA StagedGen ==
    ASSUME NEW t \in Task, NEW stage \in Stages
    PROVE  [t EXCEPT !.stage = stage].gen = t.gen
  BY DEF Task

\* A step that starts no handling, and gives nothing back to the assignment, keeps
\* the count.
LEMMA StaysOnce ==
    ASSUME TypeOK, TypeOK', NEW i \in Msgs, OnceFor(i),
           Live(i)' \subseteq Live(i), handled'[i] = handled[i],
           \/ gen' = gen /\ (ToCome(i)' => ToCome(i))
           \/ gen' = gen + 1
    PROVE  OnceFor(i)'
<1>1. /\ IsFiniteSet(Live(i)') /\ Cardinality(Live(i)') <= Cardinality(Live(i))
      /\ Cardinality(Live(i)') \in Nat /\ Cardinality(Live(i)) \in Nat
  BY FS_Subset, FS_CardinalityType DEF OnceFor
<1>2. handled[i] \in Nat /\ gen \in Nat
  BY DEF TypeOK
<1> QED  BY <1>1, <1>2 DEF OnceFor

\* A message the iterator gives is one more handling of it, of an assignment that
\* had not given it.
LEMMA GivenOnce ==
    ASSUME OnceInv, TypeOK', NEW m \in Members, Deliver(m) \/ DeliverAtLimit(m)
    PROVE  OnceInv'
<1>0. TypeOK
  BY DEF OnceInv
<1>1. /\ CanYield(m) /\ owner' = owner /\ owner = m /\ gen' = gen /\ handled' = handled
      /\ position' = [position EXCEPT ![m] = @ + 1]
  BY DEF Deliver, DeliverAtLimit, CanYield, Advance, broker, history
<1>2. /\ NextTask(m) \in Task /\ NextTask(m).msg = position[m] + 1
      /\ position[m] \in Nat /\ position[m] + 1 \in Msgs
  BY <1>0, <1>1, NextTaskType, ConsumerAssumption DEF TypeOK
<1>3. \A n \in Members : (active[n] \cup waiting[n])'
                           \subseteq active[n] \cup waiting[n] \cup (IF n = m THEN {NextTask(m)} ELSE {})
  BY <1>0, <1>1 DEF Deliver, DeliverAtLimit, TypeOK, CanYield
<1>4. ASSUME NEW i \in Msgs PROVE OnceFor(i)'
  <2>0. OnceFor(i) /\ i \in Nat /\ handled[i] \in Nat /\ gen \in Nat
    <3>1. OnceFor(i)
      BY DEF OnceInv
    <3>2. handled[i] \in Nat /\ gen \in Nat
      BY <1>0 DEF TypeOK
    <3>3. i \in Nat
      BY ConsumerAssumption DEF Msgs
    <3> QED  BY <3>1, <3>2, <3>3
  <2>1. CASE i = position[m] + 1
    <3>1. Live(i)' \subseteq Live(i) \cup {<<m, NextTask(m)>>}
      BY <1>3 DEF Live
    <3>2. /\ IsFiniteSet(Live(i) \cup {<<m, NextTask(m)>>})
          /\ Cardinality(Live(i) \cup {<<m, NextTask(m)>>}) <= Cardinality(Live(i)) + 1
          /\ Cardinality(Live(i)) \in Nat
          /\ Cardinality(Live(i) \cup {<<m, NextTask(m)>>}) \in Nat
      <4> DEFINE p == <<m, NextTask(m)>>
      <4> HIDE DEF p
      <4>1. /\ IsFiniteSet(Live(i) \cup {p})
            /\ Cardinality(Live(i) \cup {p}) =
                 IF p \in Live(i) THEN Cardinality(Live(i)) ELSE Cardinality(Live(i)) + 1
        BY <2>0, FS_AddElement DEF OnceFor
      <4>2. Cardinality(Live(i)) \in Nat
        BY <2>0, FS_CardinalityType DEF OnceFor
      <4> QED  BY <4>1, <4>2 DEF p
    <3>3. /\ IsFiniteSet(Live(i)') /\ Cardinality(Live(i)') \in Nat
          /\ Cardinality(Live(i)') <= Cardinality(Live(i)) + 1
      BY <3>1, <3>2, FS_Subset, FS_CardinalityType
    <3>4. ToCome(i) /\ ~ToCome(i)'
      BY <1>0, <1>1, <1>2, <2>1, ConsumerAssumption DEF ToCome, TypeOK
    <3> QED  BY <1>1, <2>0, <3>2, <3>3, <3>4 DEF OnceFor
  <2>2. CASE i # position[m] + 1
    <3>1. Live(i)' \subseteq Live(i)
      BY <1>2, <1>3, <2>2 DEF Live
    <3>2. ToCome(i)' => ToCome(i)
      BY <1>0, <1>1, <1>2, <2>0 DEF ToCome, TypeOK
    <3> QED  BY <1>0, <1>1, <2>0, <3>1, <3>2, StaysOnce
  <2> QED  BY <2>1, <2>2
<1>5. TasksInv'
  <2>0. /\ NextTask(m).gen = gen /\ gen \in Nat /\ NextTask(m).stage = "handling"
        /\ position'[m] = position[m] + 1 /\ waiting[m] = {}
        /\ \A n \in Members : n # m => position'[n] = position[n]
    BY <1>0, <1>1 DEF NextTask, TypeOK, CanYield
  <2>1. \A n \in Members : \A u \in active[n] \cup waiting[n] : u.msg \in Nat
    BY <1>0 DEF TypeOK, Task, Msgs
  <2>2. ASSUME NEW n \in Members, NEW u \in (active[n] \cup waiting[n])'
        PROVE  u.gen <= gen' /\ (u.gen = gen' /\ owner' = n => u.msg <= position'[n])
    <3>1. CASE u \in active[n] \cup waiting[n]
      BY <1>1, <1>2, <2>0, <2>1, <3>1 DEF OnceInv, TasksInv
    <3>2. CASE u = NextTask(m) /\ n = m
      BY <1>1, <1>2, <2>0, <3>2
    <3> QED  BY <1>3, <3>1, <3>2
  <2>3. NextTask(m) \notin active[m]
    BY <1>1, <1>2, <2>0 DEF OnceInv, TasksInv
  <2>4. ASSUME NEW n \in Members, NEW u \in waiting'[n]
        PROVE  u.stage = "handling" /\ u \notin active'[n]
    BY <1>0, <2>0, <2>3, <2>4 DEF Deliver, DeliverAtLimit, OnceInv, TasksInv, TypeOK
  <2> QED  BY <2>2, <2>4 DEF TasksInv
<1> QED  BY <1>4, <1>5 DEF OnceInv

\* A task that leaves its handler is one handling less under way.
LEMMA ProcessOnce ==
    ASSUME OnceInv, TypeOK', NEW m \in Members, NEW t \in active[m],
           HandlerReturns(m, t) \/ HandlerRaises(m, t) \/ Commit(m, t) \/ CommitFails(m, t)
    PROVE  OnceInv'
<1>0. TypeOK /\ t \in Task /\ t.msg \in Msgs
  BY DEF OnceInv, TypeOK, Task
<1>1. owner' = owner /\ gen' = gen /\ position' = position /\ waiting' = waiting
  BY DEF HandlerReturns, HandlerRaises, Commit, CommitFails, broker
<1>2. /\ \A n \in Members : n # m => active'[n] = active[n]
      /\ \A u \in active'[m] :
           u \in active[m] \ {t} \/ (u.stage # "handling" /\ u.msg = t.msg /\ u.gen = t.gen)
  <2>1. CASE EndTask(m, t)
    BY <1>0, <2>1 DEF EndTask, TypeOK
  <2>2. ASSUME NEW stage \in {"commit", "recommit"}, SetStage(m, t, stage)
        PROVE  /\ \A n \in Members : n # m => active'[n] = active[n]
               /\ \A u \in active'[m] :
                    u \in active[m] \ {t} \/ (u.stage # "handling" /\ u.msg = t.msg /\ u.gen = t.gen)
    <3>1. /\ [t EXCEPT !.stage = stage].stage = stage
          /\ [t EXCEPT !.stage = stage].msg = t.msg /\ [t EXCEPT !.stage = stage].gen = t.gen
      BY <1>0, StagedTask, StagedGen DEF Stages
    <3>2. stage # "handling"
      OBVIOUS
    <3> DEFINE s == [t EXCEPT !.stage = stage]
    <3>3. active' = [active EXCEPT ![m] = (@ \ {t}) \cup {s}]
      BY <2>2 DEF SetStage
    <3>4. s.stage # "handling" /\ s.msg = t.msg /\ s.gen = t.gen
      BY <3>1, <3>2
    <3> HIDE DEF s
    <3> QED  BY <1>0, <3>3, <3>4 DEF TypeOK
  <2> QED  BY <2>1, <2>2 DEF HandlerReturns, HandlerRaises, Commit, CommitFails
<1>3. ASSUME NEW i \in Msgs PROVE Live(i)' \subseteq Live(i) \ {<<m, t>>}
  BY <1>1, <1>2 DEF Live, OnceInv, TasksInv
<1>4. ASSUME NEW i \in Msgs PROVE OnceFor(i)'
  <2>0. OnceFor(i) /\ (ToCome(i)' => ToCome(i)) /\ handled[i] \in Nat /\ gen \in Nat
    BY <1>0, <1>1 DEF OnceInv, ToCome, TypeOK
  <2>1. CASE HandlerReturns(m, t) /\ i = t.msg
    <3>1. <<m, t>> \in Live(i) /\ handled'[i] = handled[i] + 1
      BY <1>0, <2>1 DEF Live, HandlerReturns, TypeOK
    <3>2. /\ IsFiniteSet(Live(i) \ {<<m, t>>})
          /\ Cardinality(Live(i) \ {<<m, t>>}) = Cardinality(Live(i)) - 1
          /\ Cardinality(Live(i)) \in Nat /\ Cardinality(Live(i) \ {<<m, t>>}) \in Nat
      BY <2>0, <3>1, FS_RemoveElement, FS_CardinalityType DEF OnceFor
    <3>3. /\ IsFiniteSet(Live(i)') /\ Cardinality(Live(i)') \in Nat
          /\ Cardinality(Live(i)') <= Cardinality(Live(i)) - 1
      BY <1>3, <3>2, FS_Subset, FS_CardinalityType
    <3> QED  BY <1>1, <2>0, <3>1, <3>2, <3>3 DEF OnceFor
  <2>2. CASE ~(HandlerReturns(m, t) /\ i = t.msg)
    <3>1. handled'[i] = handled[i]
      BY <1>0, <2>2 DEF HandlerReturns, HandlerRaises, Commit, CommitFails, history, TypeOK
    <3> QED  BY <1>0, <1>1, <1>3, <2>0, <3>1, StaysOnce
  <2> QED  BY <2>1, <2>2
<1>5. TasksInv'
  BY <1>1, <1>2 DEF OnceInv, TasksInv
<1> QED  BY <1>4, <1>5 DEF OnceInv

\* No other step starts a handling, and an assignment is one more.
LEMMA GroupOnce ==
    ASSUME OnceInv, TypeOK', NEW m \in Members,
           \/ StartWaiting(m) \/ Assign(m) \/ Rebalance(m) \/ Shutdown(m) \/ Exit(m)
           \/ Crash(m) \/ Restart(m)
    PROVE  OnceInv'
<1>0. TypeOK
  BY DEF OnceInv
<1>1. handled' = handled
  BY DEF StartWaiting, Assign, Rebalance, Shutdown, Exit, Crash, Restart, history
<1>2. \A n \in Members : (active[n] \cup waiting[n])' \subseteq active[n] \cup waiting[n]
  BY <1>0 DEF StartWaiting, Assign, Rebalance, Shutdown, Exit, Crash, Restart, loop, TypeOK
<1>3. ASSUME NEW i \in Msgs
      PROVE  \/ gen' = gen /\ (ToCome(i)' => ToCome(i))
             \/ gen' = gen + 1
  <2>1. CASE Assign(m) \/ Rebalance(m)
    BY <2>1 DEF Assign, Rebalance, AssignTo
  <2>2. CASE StartWaiting(m) \/ Shutdown(m) \/ Exit(m) \/ Crash(m) \/ Restart(m)
    <3>1. gen' = gen /\ position' = position /\ (owner' = owner \/ owner' = Nobody)
      BY <2>2 DEF StartWaiting, Shutdown, Exit, Crash, LeaveGroup, Restart, broker, loop
    <3> QED  BY <3>1 DEF ToCome
  <2> QED  BY <2>1, <2>2
<1>4. ASSUME NEW i \in Msgs PROVE Live(i)' \subseteq Live(i)
  BY <1>2 DEF Live
<1>5. TasksInv'
  <2>1. CASE Assign(m) \/ Rebalance(m)
    <3>1. gen' = gen + 1 /\ active' = active /\ waiting' = waiting /\ gen \in Nat
      BY <1>0, <2>1 DEF Assign, Rebalance, AssignTo, TypeOK
    <3>2. \A n \in Members : \A u \in active[n] \cup waiting[n] : u.gen \in Nat
      BY <1>0 DEF TypeOK, Task
    <3> QED  BY <3>1, <3>2 DEF OnceInv, TasksInv
  <2>2. CASE StartWaiting(m) \/ Shutdown(m) \/ Exit(m) \/ Crash(m) \/ Restart(m)
    <3>1. gen' = gen /\ position' = position /\ (owner' = owner \/ owner' = Nobody)
      BY <2>2 DEF StartWaiting, Shutdown, Exit, Crash, LeaveGroup, Restart, broker, loop
    <3>2. \A n \in Members : waiting'[n] = {} \/ (waiting'[n] = waiting[n] /\ active'[n] = active[n])
      BY <1>0, <2>2 DEF StartWaiting, Shutdown, Exit, Crash, Restart, loop, TypeOK
    <3>3. Nobody \notin Members
      BY ConsumerAssumption
    <3> QED  BY <1>2, <3>1, <3>2, <3>3 DEF OnceInv, TasksInv
  <2> QED  BY <2>1, <2>2
<1> QED  BY <1>0, <1>1, <1>3, <1>4, <1>5, StaysOnce DEF OnceInv

\* The invariant is inductive.
LEMMA OnceInvariance == Spec => []OnceInv
<1>1. Init => OnceInv
  <2> SUFFICES ASSUME Init PROVE OnceInv
    OBVIOUS
  <2>1. TypeOK
    BY ConsumerAssumption DEF Init, TypeOK
  <2>2. ASSUME NEW i \in Msgs PROVE Live(i) = {} /\ handled[i] = 0 /\ gen = 0 /\ ~ToCome(i)
    BY DEF Init, Live, ToCome
  <2>3. TasksInv
    BY DEF Init, TasksInv
  <2> QED  BY <2>1, <2>2, <2>3, FS_EmptySet DEF OnceInv, OnceFor
<1>2. OnceInv /\ [Next]_vars => OnceInv'
  <2> SUFFICES ASSUME OnceInv, [Next]_vars PROVE OnceInv'
    OBVIOUS
  <2>0. TypeOK
    BY DEF OnceInv
  <2>1. CASE UNCHANGED vars
    BY <2>1 DEF OnceInv, OnceFor, TasksInv, Live, ToCome, TypeOK, vars, broker, loop, history
  <2>2. CASE Next
    <3>1. ASSUME NEW m \in Members, Run(m) PROVE OnceInv'
      BY <2>0, <3>1, RunType, GivenOnce, GroupOnce DEF Run
    <3>2. ASSUME NEW m \in Members, NEW t \in active[m],
                 HandlerReturns(m, t) \/ HandlerRaises(m, t) \/ Commit(m, t) \/ CommitFails(m, t)
          PROVE  OnceInv'
      <4>1. TypeOK'
        BY <2>0, <3>2, ProcessType
      <4> QED  BY <3>2, <4>1, ProcessOnce
    <3>3. ASSUME NEW m \in Members,
                 Assign(m) \/ Rebalance(m) \/ Shutdown(m) \/ Exit(m) \/ Crash(m) \/ Restart(m)
          PROVE  OnceInv'
      BY <2>0, <3>3, GroupType, GroupOnce
    <3> QED  BY <2>2, <3>1, <3>2, <3>3 DEF Next, Process
  <2> QED  BY <2>1, <2>2
<1> QED  BY <1>1, <1>2, PTL DEF Spec

\* A message is handled at most once per assignment of the partition, however many
\* members, tasks of earlier assignments, crashes and failing commits there are.
THEOREM HandledOncePerAssignment == Spec => []OncePerAssignment
<1>1. OnceInv => OncePerAssignment
  <2> SUFFICES ASSUME OnceInv, NEW i \in Msgs
               PROVE  handled[i] + Cardinality(Handlers(i)) <= gen
    BY DEF OncePerAssignment
  <2>1. OnceFor(i) /\ handled[i] \in Nat /\ gen \in Nat /\ TypeOK
    BY DEF OnceInv, TypeOK
  <2>2. Handlers(i) \subseteq Live(i)
    BY <2>1 DEF Handlers, Live, TypeOK
  <2>3. /\ Cardinality(Handlers(i)) <= Cardinality(Live(i))
        /\ Cardinality(Handlers(i)) \in Nat /\ Cardinality(Live(i)) \in Nat
    BY <2>1, <2>2, FS_Subset, FS_CardinalityType DEF OnceFor
  <2> QED  BY <2>1, <2>3 DEF OnceFor
<1> QED  BY <1>1, OnceInvariance, PTL

-----------------------------------------------------------------------------
(* The lock of a job                                                        *)

\* The handlers that work on j beyond those whose key expired under somebody need
\* the key.
Occupancy ==
    \A j \in Jobs : Cardinality(Holders(j)) <= expired[j] + (IF ttl[j] > 0 THEN 1 ELSE 0)

LockInv == LockTypeOK /\ Occupancy /\ HolderHasKey

\* The handlers of a job are finitely many.
LEMMA HoldersFinite ==
  /\ \A j \in Jobs : IsFiniteSet(Holders(j)) /\ Cardinality(Holders(j)) \in Nat
  /\ \A j \in Jobs : IsFiniteSet(Holders(j)') /\ Cardinality(Holders(j)') \in Nat
<1>1. \A S \in SUBSET Contenders : IsFiniteSet(S) /\ Cardinality(S) \in Nat
  BY LockAssumption, FS_Subset, FS_CardinalityType
<1>2. \A j \in Jobs : Holders(j) \in SUBSET Contenders /\ Holders(j)' \in SUBSET Contenders
  BY DEF Holders
<1> QED  BY <1>1, <1>2

\* With no handler at work the invariant holds.
LEMMA InitLockInv == LockInit => LockInv
<1> SUFFICES ASSUME LockInit  PROVE LockInv
  OBVIOUS
<1>1. LockTypeOK
  BY LockAssumption DEF LockInit, LockTypeOK
<1>2. \A j \in Jobs : Holders(j) = {}
  BY LockAssumption DEF LockInit, Holders
<1>3. \A j \in Jobs : Cardinality(Holders(j)) = 0
  BY <1>2, FS_EmptySet
<1>4. Occupancy
  BY <1>3 DEF LockInit, Occupancy
<1>5. HolderHasKey
  BY DEF LockInit, HolderHasKey
<1> QED  BY <1>1, <1>4, <1>5 DEF LockInv

\* While no key of its job has expired under somebody, a holder is alone.
LEMMA HolderIsAlone ==
  ASSUME LockInv, NEW h \in Contenders, job[h] # None, expired[job[h]] = 0,
         NEW g \in Contenders, job[g] = job[h]
  PROVE  g = h
<1>1. job[h] \in Jobs
  BY DEF LockInv, LockTypeOK
<1>2. Cardinality(Holders(job[h])) <= 1
  BY <1>1, HoldersFinite DEF LockInv, Occupancy
<1>3. g \in Holders(job[h]) /\ h \in Holders(job[h])
  BY DEF Holders
<1>4. Cardinality(Holders(job[h])) # 0
  BY <1>1, <1>3, HoldersFinite, FS_EmptySet
<1>5. Cardinality(Holders(job[h])) = 1
  BY <1>1, <1>2, <1>4, HoldersFinite
<1>6. PICK x : Holders(job[h]) = {x}
  BY <1>1, <1>5, HoldersFinite, FS_Singleton
<1> QED  BY <1>3, <1>6

\* acquire: SETNX succeeds only on a job without a key, which makes room for one.
LEMMA AcquireLockInv ==
  ASSUME LockInv, NEW h \in Contenders, NEW j \in Jobs, Acquire(h, j)
  PROVE  LockInv'
<1>1. LockTypeOK'
  BY LockAssumption DEF LockInv, LockTypeOK, Acquire
<1>2. ASSUME NEW i \in Jobs
      PROVE  Cardinality(Holders(i)') <= expired'[i] + (IF ttl'[i] > 0 THEN 1 ELSE 0)
  <2>1. CASE i = j
    <3>1. Holders(j)' = Holders(j) \cup {h} /\ h \notin Holders(j)
      BY LockAssumption DEF LockInv, LockTypeOK, Acquire, Holders
    <3>2. Cardinality(Holders(j)') = Cardinality(Holders(j)) + 1
      BY <3>1, HoldersFinite, FS_AddElement
    <3>3. ttl[j] = 0 /\ ttl'[j] = TTL /\ expired'[j] = expired[j] /\ TTL > 0
          /\ expired[j] \in Nat
      BY LockAssumption DEF LockInv, LockTypeOK, Acquire
    <3>4. Cardinality(Holders(j)) <= expired[j]
      BY <3>3, HoldersFinite DEF LockInv, Occupancy
    <3> QED  BY <2>1, <3>2, <3>3, <3>4, HoldersFinite
  <2>2. CASE i # j
    <3>1. Holders(i)' = Holders(i)
      BY <2>2, LockAssumption DEF LockInv, LockTypeOK, Acquire, Holders
    <3>2. ttl'[i] = ttl[i] /\ expired' = expired
      BY <2>2 DEF LockInv, LockTypeOK, Acquire
    <3> QED  BY <3>1, <3>2 DEF LockInv, Occupancy
  <2> QED  BY <2>1, <2>2
<1>3. HolderHasKey'
  <2> SUFFICES ASSUME NEW g \in Contenders, job'[g] # None, expired'[job'[g]] = 0
               PROVE  ttl'[job'[g]] > 0 /\ ttl'[job'[g]] + held'[g] = TTL
    BY DEF HolderHasKey
  <2>1. CASE g = h
    BY <2>1, LockAssumption DEF LockInv, LockTypeOK, Acquire
  <2>2. CASE g # h
    <3>1. job'[g] = job[g] /\ held'[g] = held[g] /\ expired' = expired
      BY <2>2 DEF LockInv, LockTypeOK, Acquire
    <3>2. ttl[job[g]] > 0 /\ ttl[job[g]] + held[g] = TTL
      BY <3>1 DEF LockInv, HolderHasKey
    <3>3. ttl'[job[g]] = ttl[job[g]]
      BY <3>1, <3>2 DEF LockInv, LockTypeOK, Acquire
    <3> QED  BY <3>1, <3>2, <3>3
  <2> QED  BY <2>1, <2>2
<1> QED  BY <1>1, <1>2, <1>3 DEF LockInv, Occupancy

\* A handler that stops works on its job no more.
LEMMA StopOccupancy ==
  ASSUME LockInv, NEW h \in Contenders, job[h] # None,
         job' = [job EXCEPT ![h] = None], UNCHANGED expired,
         \A j \in Jobs : j # job[h] => ttl'[j] = ttl[j],
         ttl'[job[h]] = 0 \/ ttl'[job[h]] = ttl[job[h]]
  PROVE  Occupancy'
<1> SUFFICES ASSUME NEW j \in Jobs
             PROVE  Cardinality(Holders(j)') <= expired'[j] + (IF ttl'[j] > 0 THEN 1 ELSE 0)
  BY DEF Occupancy
<1>0. Cardinality(Holders(j)) <= expired[j] + (IF ttl[j] > 0 THEN 1 ELSE 0)
      /\ expired[j] \in Nat /\ ttl[j] \in Nat
  BY LockAssumption DEF LockInv, LockTypeOK, Occupancy
<1>1. CASE j = job[h]
  <2>1. Holders(j)' = Holders(j) \ {h} /\ h \in Holders(j)
    BY <1>1, LockAssumption DEF LockInv, LockTypeOK, Holders
  <2>2. Cardinality(Holders(j)') = Cardinality(Holders(j)) - 1
    BY <2>1, HoldersFinite, FS_RemoveElement
  <2>3. ttl'[j] = 0 \/ ttl'[j] = ttl[j]
    BY <1>1
  <2> QED  BY <1>0, <2>2, <2>3, HoldersFinite
<1>2. CASE j # job[h]
  <2>1. Holders(j)' = Holders(j)
    BY <1>2, LockAssumption DEF LockInv, LockTypeOK, Holders
  <2> QED  BY <1>0, <1>2, <2>1
<1> QED  BY <1>1, <1>2

\* release: the key goes with the handler, whosever it is.
LEMMA ReleaseLockInv ==
  ASSUME LockInv, NEW h \in Contenders, Release(h)
  PROVE  LockInv'
<1>1. LockTypeOK'
  BY LockAssumption DEF LockInv, LockTypeOK, Release
<1>2. Occupancy'
  BY StopOccupancy, LockAssumption DEF LockInv, LockTypeOK, Release
<1>3. HolderHasKey'
  <2> SUFFICES ASSUME NEW g \in Contenders, job'[g] # None, expired'[job'[g]] = 0
               PROVE  ttl'[job'[g]] > 0 /\ ttl'[job'[g]] + held'[g] = TTL
    BY DEF HolderHasKey
  <2>1. g # h
    BY DEF LockInv, LockTypeOK, Release
  <2>2. job'[g] = job[g] /\ held'[g] = held[g] /\ expired' = expired
    BY <2>1 DEF LockInv, LockTypeOK, Release
  <2>3. job[g] # job[h]
    BY <2>1, <2>2, HolderIsAlone DEF Release
  <2>4. ttl'[job[g]] = ttl[job[g]]
    BY <2>2, <2>3 DEF LockInv, LockTypeOK, Release
  <2> QED  BY <2>2, <2>4 DEF LockInv, HolderHasKey
<1> QED  BY <1>1, <1>2, <1>3 DEF LockInv

\* extend: the key lives TTL again.
LEMMA ExtendLockInv ==
  ASSUME LockInv, NEW h \in Contenders, NEW j \in Jobs, Extend(h, j)
  PROVE  LockInv'
<1>1. LockTypeOK'
  BY LockAssumption DEF LockInv, LockTypeOK, Extend
<1>2. Occupancy'
  <2>1. \A i \in Jobs : Holders(i)' = Holders(i)
    BY DEF Extend, Holders
  <2>2. \A i \in Jobs : ttl[i] > 0 => ttl'[i] > 0
    BY LockAssumption DEF LockInv, LockTypeOK, Extend
  <2>3. \A i \in Jobs : ttl'[i] > 0 => ttl[i] > 0
    BY LockAssumption DEF LockInv, LockTypeOK, Extend
  <2> QED  BY <2>1, <2>2, <2>3 DEF LockInv, Occupancy, Extend
<1>3. HolderHasKey'
  <2> SUFFICES ASSUME NEW g \in Contenders, job'[g] # None, expired'[job'[g]] = 0
               PROVE  ttl'[job'[g]] > 0 /\ ttl'[job'[g]] + held'[g] = TTL
    BY DEF HolderHasKey
  <2>1. job' = job /\ expired' = expired /\ job[h] = j
    BY DEF Extend
  <2>2. CASE g = h
    BY <2>1, <2>2, LockAssumption DEF LockInv, LockTypeOK, Extend
  <2>3. CASE g # h
    <3>1. job[g] # j
      BY <2>1, <2>3, HolderIsAlone
    <3> QED  BY <2>1, <2>3, <3>1 DEF LockInv, LockTypeOK, HolderHasKey, Extend
  <2> QED  BY <2>2, <2>3
<1> QED  BY <1>1, <1>2, <1>3 DEF LockInv

\* A tick ages keys and holders alike, and counts the keys that go under somebody.
LEMMA TickLockInv ==
  ASSUME LockInv, Tick
  PROVE  LockInv'
<1>0. /\ ttl \in [Jobs -> 0..TTL] /\ expired \in [Jobs -> Nat] /\ TTL \in Nat
      /\ ttl' = [j \in Jobs |-> IF ttl[j] > 0 THEN ttl[j] - 1 ELSE 0]
      /\ expired' = [j \in Jobs |->
                      expired[j] + (IF ttl[j] = 1 /\ Holders(j) # {} THEN 1 ELSE 0)]
      /\ job' = job
  BY LockAssumption DEF LockInv, LockTypeOK, Tick
<1>1. LockTypeOK'
  <2>1. ttl' \in [Jobs -> 0..TTL] /\ expired' \in [Jobs -> Nat]
    BY <1>0
  <2>2. held' \in [Contenders -> 0..MaxHold]
    BY LockAssumption DEF LockInv, LockTypeOK, Tick
  <2> QED  BY <2>1, <2>2 DEF LockInv, LockTypeOK, Tick
<1>2. ASSUME NEW j \in Jobs
      PROVE  Cardinality(Holders(j)') <= expired'[j] + (IF ttl'[j] > 0 THEN 1 ELSE 0)
  <2>1. Holders(j)' = Holders(j)
    BY <1>0 DEF Holders
  <2>2. Cardinality(Holders(j)) <= expired[j] + (IF ttl[j] > 0 THEN 1 ELSE 0)
    BY DEF LockInv, Occupancy
  <2>3. Holders(j) = {} => Cardinality(Holders(j)) = 0
    BY FS_EmptySet
  <2>4. ttl[j] \in Nat /\ expired[j] \in Nat /\ Cardinality(Holders(j)) \in Nat
    BY <1>0, HoldersFinite
  <2>5. CASE ttl[j] = 1 /\ Holders(j) # {}
    <3>1. expired'[j] = expired[j] + 1 /\ ttl'[j] = 0
      BY <1>0, <2>5
    <3> QED  BY <2>1, <2>2, <2>4, <2>5, <3>1
  <2>6. CASE ~(ttl[j] = 1 /\ Holders(j) # {})
    <3>1. expired'[j] = expired[j]
      BY <1>0, <2>6
    <3>2. ttl'[j] = IF ttl[j] > 0 THEN ttl[j] - 1 ELSE 0
      BY <1>0
    <3> QED  BY <2>1, <2>2, <2>3, <2>4, <2>6, <3>1, <3>2
  <2> QED  BY <2>5, <2>6
<1>3. HolderHasKey'
  <2> SUFFICES ASSUME NEW h \in Contenders, job[h] # None, expired'[job[h]] = 0
               PROVE  ttl'[job[h]] > 0 /\ ttl'[job[h]] + held'[h] = TTL
    BY <1>0 DEF HolderHasKey
  <2>1. held[h] \in 0..MaxHold /\ job[h] \in Jobs /\ held'[h] = held[h] + 1
    BY DEF LockInv, LockTypeOK, Tick
  <2>2. Holders(job[h]) # {}
    BY DEF Holders
  <2>3. expired[job[h]] \in Nat /\ ttl[job[h]] \in 0..TTL
    BY <1>0, <2>1
  <2>4. expired[job[h]] = 0 /\ ttl[job[h]] # 1
    BY <1>0, <2>1, <2>2, <2>3
  <2>5. ttl[job[h]] > 0 /\ ttl[job[h]] + held[h] = TTL
    BY <2>4 DEF LockInv, HolderHasKey
  <2>6. ttl'[job[h]] = ttl[job[h]] - 1
    BY <1>0, <2>1, <2>5
  <2> QED  BY <2>1, <2>3, <2>4, <2>5, <2>6, LockAssumption
<1> QED  BY <1>1, <1>2, <1>3 DEF LockInv, Occupancy

\* A handler that dies leaves a key that nobody relies on.
LEMMA DieLockInv ==
  ASSUME LockInv, NEW h \in Contenders, Die(h)
  PROVE  LockInv'
<1>1. LockTypeOK'
  BY LockAssumption DEF LockInv, LockTypeOK, Die
<1>2. Occupancy'
  BY StopOccupancy DEF Die
<1>3. HolderHasKey'
  <2> SUFFICES ASSUME NEW g \in Contenders, job'[g] # None, expired'[job'[g]] = 0
               PROVE  ttl'[job'[g]] > 0 /\ ttl'[job'[g]] + held'[g] = TTL
    BY DEF HolderHasKey
  <2>1. g # h
    BY DEF LockInv, LockTypeOK, Die
  <2>2. job'[g] = job[g] /\ held'[g] = held[g] /\ expired' = expired /\ ttl' = ttl
    BY <2>1 DEF LockInv, LockTypeOK, Die
  <2> QED  BY <2>2 DEF LockInv, HolderHasKey
<1> QED  BY <1>1, <1>2, <1>3 DEF LockInv

\* The inductive invariant of the lock, for every number of jobs, handlers, extend
\* calls and expiries, and however long the handlers work.
THEOREM LockInvariant == LockSpec => []LockInv
<1>1. LockInv /\ [LockNext]_lockVars => LockInv'
  <2> SUFFICES ASSUME LockInv, [LockNext]_lockVars
               PROVE  LockInv'
    OBVIOUS
  <2>1. CASE UNCHANGED lockVars
    BY <2>1 DEF LockInv, LockTypeOK, Occupancy, Holders, HolderHasKey, lockVars
  <2>2. ASSUME NEW h \in Contenders, Release(h)
        PROVE  LockInv'
    BY <2>2, ReleaseLockInv
  <2>3. ASSUME NEW h \in Contenders, Die(h)
        PROVE  LockInv'
    BY <2>3, DieLockInv
  <2>4. ASSUME NEW h \in Contenders, NEW j \in Jobs, Acquire(h, j)
        PROVE  LockInv'
    BY <2>4, AcquireLockInv
  <2>5. ASSUME NEW h \in Contenders, NEW j \in Jobs, Extend(h, j)
        PROVE  LockInv'
    BY <2>5, ExtendLockInv
  <2>6. CASE Tick
    BY <2>6, TickLockInv
  <2> QED  BY <2>1, <2>2, <2>3, <2>4, <2>5, <2>6 DEF LockNext
<1> QED  BY <1>1, InitLockInv, PTL DEF LockSpec

\* However long handlers work and whosever key they delete: each expiry of a key
\* under a working handler lets at most one more handler in.
THEOREM LockExcludes == LockSpec => []Exclusion
<1>1. LockInv => Exclusion
  <2> SUFFICES ASSUME LockInv, NEW j \in Jobs
               PROVE  Cardinality(Holders(j)) <= 1 + expired[j]
    BY DEF Exclusion
  <2>1. expired[j] \in Nat /\ Cardinality(Holders(j)) \in Nat
    BY HoldersFinite DEF LockInv, LockTypeOK
  <2> QED  BY <2>1 DEF LockInv, Occupancy
<1> QED  BY <1>1, LockInvariant, PTL

\* Until that happens no handler works without its own key.
THEOREM HolderKeepsKey == LockSpec => []HolderHasKey
<1>1. LockInv => HolderHasKey
  BY DEF LockInv
<1> QED  BY <1>1, LockInvariant, PTL
=============================================================================
