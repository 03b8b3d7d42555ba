------------------------------ MODULE PhasesProofs ------------------------------
(***************************************************************************)
(* Proofs about multi-phase jobs, for any plans and any bounds.            *)
(***************************************************************************)
EXTENDS Phases, SequenceTheorems, TLAPS

Others == {Resumer, Responder}
Late == {"synthesize", "evaluate", "respond"}
Saving == {"dispatch", "recheck", "save", "resume"}

-----------------------------------------------------------------------------
(* What a state says of itself, wherever it is                             *)

\* The one call that may be open is the one a suspended state waits for, and the
\* groups before the index have run.
Coherent(s) ==
    /\ s.open = IF s.status = "waiting_tool" THEN {s.pending} ELSE {}
    /\ \A i \in DOMAIN s.groups : i < s.index => GroupComplete(s.groups[i])
    /\ s.status = "waiting_user" /\ s.resume \in Late => AllGroupsComplete(s)

\* A state that is at a phase is running, and past the groups in the late ones.
Fits(s, method) ==
    /\ method \in Late => AllGroupsComplete(s)
    /\ method = "respond" => s.phase # "simple"
    /\ method \notin Saving => s.status = "running"
    /\ method \in {"dispatch", "recheck", "resume"} => s.status = "waiting_tool"

StateInv ==
    /\ \A s \in snapshots : Coherent(s)
    /\ \A h \in Handlers : work[h] # Nobody =>
          Coherent(work[h].state) /\ Fits(work[h].state, work[h].next)

-----------------------------------------------------------------------------
(* Who works, and on what                                                  *)

Suspended(s) == s.status \in {"waiting_tool", "waiting_user"}
OthersIdle == \A h \in Others : work[h] = Nobody
Outranks(x) == \A s \in snapshots : Suspended(s) => s.iteration < x.iteration

\* The job handler takes no lock, but others can only start on what it has saved,
\* and then it does no more than save that once again.
JobInv ==
    /\ requested => snapshots = {} /\ \A h \in Handlers : work[h] = Nobody
    /\ work[Job] # Nobody =>
          \/ snapshots = {} /\ OthersIdle /\ work[Job].next # "dispatch"
          \/ /\ work[Job].next = "dispatch"
             /\ snapshots = {work[Job].state}
             /\ OthersIdle
             /\ work[Job].state.pending \notin running \cup results
          \/ work[Job].next = "save" /\ work[Job].state \in snapshots

\* The others exclude one another and work on the newest state there is.
LockInv ==
    \A h \in Others : work[h] # Nobody =>
        /\ lock = h
        /\ \A s \in snapshots : s.iteration <= work[h].state.iteration

CallInv ==
    /\ \A c \in running \cup results : c <= calls
    /\ \A h \in Handlers : Runs(h, "dispatch") => Held(h).pending <= calls

EndInv ==
    /\ \A x \in snapshots : Streamed(x) => Outranks(x) /\ OthersIdle
    /\ \A h \in Handlers :
          work[h] # Nobody /\ work[h].next \in Saving /\ Streamed(work[h].state) =>
              Outranks(work[h].state)

IInv == TypeOK /\ StateInv /\ JobInv /\ LockInv /\ CallInv /\ EndInv

-----------------------------------------------------------------------------
(* States                                                                  *)

\* What a handler may go on with at a method.
Ready(s, method) ==
    /\ s \in PhaseState
    /\ method \in Method
    /\ Coherent(s)
    /\ Fits(s, method)

LEMMA AskingReady ==
    ASSUME NEW s \in PhaseState, Coherent(s), s.status = "running",
           s.resume \in Late => AllGroupsComplete(s)
    PROVE  Ready(Asking(s), "save")
  BY DEF Ready, Asking, PhaseState, AgentPhase, Method, Coherent, Fits, Late, Saving,
         AllGroupsComplete, GroupComplete

LEMMA WaitingReady ==
    ASSUME NEW s \in PhaseState, Coherent(s), s.status = "running", NEW call \in Nat
    PROVE  Ready(Waiting(s, call), "dispatch") /\ Ready(Waiting(s, call), "save")
  BY DEF Ready, Waiting, PhaseState, AgentPhase, Method, Coherent, Fits, Late, Saving,
         AllGroupsComplete, GroupComplete

LEMMA PhaseReady ==
    ASSUME NEW s \in PhaseState, Coherent(s), s.status = "running",
           NEW phase \in AgentPhase \ {"simple", "waiting_user"},
           phase \in Late => AllGroupsComplete(s)
    PROVE  Ready([s EXCEPT !.phase = phase], phase)
  BY DEF Ready, PhaseState, AgentPhase, Method, Coherent, Fits, Late, Saving,
         AllGroupsComplete, GroupComplete

LEMMA SimpleReady ==
    ASSUME NEW s \in PhaseState, Coherent(s), s.status = "running"
    PROVE  Ready(Simple(s), "stream")
  <1>1. <<>> \in Seq(Group) /\ DOMAIN <<>> = {}
    OBVIOUS
  <1>2. Simple(s) \in PhaseState
    <2>1. \A g \in Seq(Group), i \in Nat \ {0} :
             [s EXCEPT !.phase = "simple", !.resume = "none", !.groups = g,
                       !.index = i, !.evals = 0, !.draft = FALSE] \in PhaseState
      BY DEF PhaseState, AgentPhase
    <2>2. 1 \in Nat \ {0}
      OBVIOUS
    <2> QED  BY <1>1, <2>1, <2>2, Zenon DEF Simple
  <1>3. Simple(s).groups = <<>> /\ Simple(s).status = "running" /\ Simple(s).open = s.open
    BY DEF Simple, PhaseState
  <1>4. DOMAIN Simple(s).groups = {} /\ s.open = {}
    BY <1>1, <1>3 DEF Coherent
  <1>5. Coherent(Simple(s))
    <2>1. \A i \in DOMAIN Simple(s).groups :
             i < Simple(s).index => GroupComplete(Simple(s).groups[i])
      BY <1>4
    <2> QED  BY <1>3, <1>4, <2>1, Zenon DEF Coherent
  <1> QED  BY <1>2, <1>3, <1>5 DEF Ready, Method, Fits, Late, Saving

LEMMA PlanReady ==
    ASSUME NEW s \in PhaseState, Coherent(s), s.status = "running", NEW plan \in Plans
    PROVE  LET p == [s EXCEPT !.groups = plan, !.index = 1]
           IN  p \in PhaseState /\ Coherent(p) /\ p.status = "running"
                 /\ p.iteration = s.iteration
  <1>1. plan \in Seq(Group)
    <2>1. PlannedGroup \subseteq Group
      BY DEF PlannedGroup, Group
    <2>2. plan \in Seq(PlannedGroup)
      BY PhasesAssumption
    <2>3. Seq(PlannedGroup) \subseteq Seq(Group)
      BY <2>1
    <2> QED  BY <2>2, <2>3
  <1>2. DOMAIN plan = 1 .. Len(plan) /\ Len(plan) \in Nat
    BY <1>1, LenProperties
  <1>3. 1 \in Nat \ {0} /\ \A i \in DOMAIN plan : ~(i < 1)
    BY <1>2
  <1>4. \A i \in Nat \ {0} : [s EXCEPT !.groups = plan, !.index = i] \in PhaseState
    BY <1>1 DEF PhaseState
  <1> DEFINE p == [s EXCEPT !.groups = plan, !.index = 1]
  <1>5. p.groups = plan /\ p.index = 1 /\ p.status = "running" /\ p.open = s.open
          /\ p.iteration = s.iteration /\ p.pending = s.pending
    BY DEF PhaseState
  <1>6. Coherent(p)
    <2> HIDE DEF p
    <2>1. s.open = {}
      BY DEF Coherent
    <2> QED  BY <1>3, <1>5, <2>1 DEF Coherent
  <1> QED  BY <1>3, <1>4, <1>5, <1>6

\* A group that has run, or has no tools, is complete once its LLM sub-tasks are.
LEMMA ThoughtComplete ==
    ASSUME NEW g \in Group, g.tools = "none"
    PROVE  GroupComplete(LlmDone(g))
  BY DEF Group, GroupComplete, LlmDone

LEMMA LlmDoneGroup ==
    ASSUME NEW g \in Group
    PROVE  /\ LlmDone(g) \in Group
           /\ LlmDone(g).tools = g.tools
           /\ [LlmDone(g) EXCEPT !.tools = "running"] \in Group
  BY DEF Group, LlmDone

LEMMA WithGroupCoherent ==
    ASSUME NEW s \in PhaseState, Coherent(s), s.status = "running",
           ~AllGroupsComplete(s), NEW g \in Group
    PROVE  LET w == WithGroup(s, g)
           IN  /\ w \in PhaseState
               /\ Coherent(w)
               /\ w.status = "running"
               /\ w.iteration = s.iteration
               /\ w.index = s.index
               /\ w.groups[w.index] = g
  <1>1. s.groups \in Seq(Group) /\ s.index \in Nat \ {0}
    BY DEF PhaseState
  <1>2. Len(s.groups) \in Nat /\ DOMAIN s.groups = 1 .. Len(s.groups)
    BY <1>1, LenProperties
  <1>3. s.index \in 1 .. Len(s.groups)
    BY <1>1, <1>2 DEF AllGroupsComplete
  <1> DEFINE gs == [s.groups EXCEPT ![s.index] = g]
  <1>4. /\ gs \in Seq(Group)
        /\ Len(gs) = Len(s.groups)
        /\ \A j \in 1 .. Len(s.groups) : gs[j] = IF j = s.index THEN g ELSE s.groups[j]
    BY <1>1, <1>3, ExceptSeq
  <1>5. DOMAIN gs = 1 .. Len(s.groups)
    BY <1>4, LenProperties
  <1>6. WithGroup(s, g) = [s EXCEPT !.groups = gs]
    BY DEF WithGroup, PhaseState
  <1> HIDE DEF gs
  <1>7. [s EXCEPT !.groups = gs] \in PhaseState
    BY <1>4 DEF PhaseState
  <1>8. /\ WithGroup(s, g).groups = gs
        /\ WithGroup(s, g).index = s.index
        /\ WithGroup(s, g).status = "running"
        /\ WithGroup(s, g).open = s.open
        /\ WithGroup(s, g).iteration = s.iteration
    BY <1>6 DEF PhaseState
  <1>9. Coherent(WithGroup(s, g))
    <2>1. s.open = {}
      BY DEF Coherent
    <2>2. ASSUME NEW i \in DOMAIN gs, i < s.index
          PROVE  GroupComplete(gs[i])
      <3>1. i \in DOMAIN s.groups /\ i # s.index
        BY <1>1, <1>2, <1>5, <2>2
      <3>2. gs[i] = s.groups[i]
        BY <1>2, <1>4, <3>1
      <3> QED  BY <2>2, <3>1, <3>2 DEF Coherent
    <2> QED  BY <1>8, <2>1, <2>2 DEF Coherent
  <1> QED  BY <1>3, <1>4, <1>6, <1>7, <1>8, <1>9

LEMMA AdvancedCoherent ==
    ASSUME NEW s \in PhaseState, Coherent(s), s.status = "running",
           AllGroupsComplete(s) \/ GroupComplete(s.groups[s.index])
    PROVE  LET a == Advanced(s)
           IN  a \in PhaseState /\ Coherent(a) /\ a.status = "running"
                 /\ a.iteration = s.iteration
  <1>1. s.groups \in Seq(Group) /\ s.index \in Nat \ {0}
    BY DEF PhaseState
  <1>2. Len(s.groups) \in Nat /\ DOMAIN s.groups = 1 .. Len(s.groups)
    BY <1>1, LenProperties
  <1>3. s.index + 1 \in Nat \ {0}
    BY <1>1
  <1>4. Advanced(s) \in PhaseState
    BY <1>3 DEF Advanced, PhaseState
  <1>5. /\ Advanced(s).groups = s.groups
        /\ Advanced(s).index = s.index + 1
        /\ Advanced(s).status = "running"
        /\ Advanced(s).open = s.open
        /\ Advanced(s).iteration = s.iteration
    BY DEF Advanced, PhaseState
  <1>6. ASSUME NEW i \in DOMAIN s.groups, i < s.index + 1
        PROVE  GroupComplete(s.groups[i])
    <2>1. i < s.index \/ i = s.index
      BY <1>1, <1>2, <1>6
    <2>2. CASE i < s.index
      BY <2>2 DEF Coherent
    <2>3. CASE i = s.index
      BY <1>1, <1>2, <2>3 DEF AllGroupsComplete
    <2> QED  BY <2>1, <2>2, <2>3
  <1>7. s.open = {}
    BY DEF Coherent
  <1> QED  BY <1>4, <1>5, <1>6, <1>7 DEF Coherent

LEMMA EvaluatedReady ==
    ASSUME NEW s \in PhaseState, Coherent(s), s.status = "running"
    PROVE  LET c == [s EXCEPT !.evals = @ + 1]
           IN  /\ c \in PhaseState /\ Coherent(c) /\ c.status = "running"
               /\ c.iteration = s.iteration
               /\ AllGroupsComplete(s) => AllGroupsComplete(c)
  BY DEF PhaseState, Coherent, AllGroupsComplete

LEMMA AddGroupCoherent ==
    ASSUME NEW s \in PhaseState, Coherent(s), s.status = "running",
           AllGroupsComplete(s), NEW g \in FollowUps
    PROVE  LET a == AddGroup(s, g)
           IN  a \in PhaseState /\ Coherent(a) /\ a.status = "running"
                 /\ a.iteration = s.iteration
  <1>1. s.groups \in Seq(Group) /\ s.index \in Nat \ {0}
    BY DEF PhaseState
  <1>2. Len(s.groups) \in Nat /\ DOMAIN s.groups = 1 .. Len(s.groups)
    BY <1>1, LenProperties
  <1>3. g \in Group
    BY PhasesAssumption DEF PlannedGroup, Group
  <1> DEFINE gs == Append(s.groups, g)
  <1>4. /\ gs \in Seq(Group)
        /\ Len(gs) = Len(s.groups) + 1
        /\ \A i \in 1 .. Len(s.groups) : gs[i] = s.groups[i]
    BY <1>1, <1>3, AppendProperties
  <1>5. DOMAIN gs = 1 .. Len(s.groups) + 1
    BY <1>4, LenProperties
  <1>6. AddGroup(s, g) = [s EXCEPT !.groups = gs, !.index = Len(s.groups) + 1]
    BY DEF AddGroup, PhaseState
  <1> HIDE DEF gs
  <1>7. Len(s.groups) + 1 \in Nat \ {0}
    BY <1>2
  <1>8. AddGroup(s, g) \in PhaseState
    BY <1>4, <1>6, <1>7 DEF PhaseState
  <1>9. /\ AddGroup(s, g).groups = gs
        /\ AddGroup(s, g).index = Len(s.groups) + 1
        /\ AddGroup(s, g).status = "running"
        /\ AddGroup(s, g).open = s.open
        /\ AddGroup(s, g).iteration = s.iteration
    BY <1>6 DEF PhaseState
  <1>10. ASSUME NEW i \in DOMAIN gs, i < Len(s.groups) + 1
         PROVE  GroupComplete(gs[i])
    <2>1. i \in 1 .. Len(s.groups) /\ i < s.index
      BY <1>1, <1>2, <1>5, <1>10 DEF AllGroupsComplete
    <2> QED  BY <1>2, <1>4, <2>1 DEF Coherent
  <1>11. s.open = {}
    BY DEF Coherent
  <1> QED  BY <1>8, <1>9, <1>10, <1>11 DEF Coherent

LEMMA CountedReady ==
    ASSUME NEW s \in PhaseState, Coherent(s), s.status = "running"
    PROVE  /\ Counted(s) \in PhaseState /\ Coherent(Counted(s))
           /\ Counted(s).status = "running"
           /\ Counted(s).iteration = s.iteration + 1
  BY DEF Counted, PhaseState, Coherent, AllGroupsComplete

LEMMA EndedReady ==
    ASSUME NEW s \in PhaseState, Coherent(s), s.status = "running",
           NEW status \in {"completed", "failed"}
    PROVE  LET e == [s EXCEPT !.status = status]
           IN  Ready(e, "save") /\ e.iteration = s.iteration /\ e.status = status
                 /\ e.draft = s.draft /\ e.phase = s.phase
  BY DEF Ready, Fits, Saving, Late, Method, PhaseState, Coherent, AllGroupsComplete

LEMMA ToolsDoneGroup ==
    ASSUME NEW g \in Group
    PROVE  ToolsDone(g) \in Group /\ (GroupComplete(g) => GroupComplete(ToolsDone(g)))
  BY DEF Group, ToolsDone, GroupComplete

LEMMA ResumedCoherent ==
    ASSUME NEW s \in PhaseState, Coherent(s), s.status = "waiting_tool"
    PROVE  /\ Resumed(s) \in PhaseState /\ Coherent(Resumed(s))
           /\ Resumed(s).status = "running"
           /\ Resumed(s).iteration = s.iteration
  <1>1. s.groups \in Seq(Group) /\ s.index \in Nat \ {0}
    BY DEF PhaseState
  <1>2. Len(s.groups) \in Nat /\ DOMAIN s.groups = 1 .. Len(s.groups)
          /\ s.groups \in [1 .. Len(s.groups) -> Group]
    BY <1>1, LenProperties
  <1> DEFINE gs == [i \in DOMAIN s.groups |-> ToolsDone(s.groups[i])]
  <1>3. gs \in [1 .. Len(s.groups) -> Group]
    BY <1>2, ToolsDoneGroup
  <1>4. gs \in Seq(Group)
    BY <1>2, <1>3, SeqDef
  <1>5. Resumed(s) = [s EXCEPT !.status = "running", !.pending = 0,
                               !.open = s.open \ {s.pending}, !.groups = gs]
    BY DEF Resumed, PhaseState
  <1>6. DOMAIN gs = DOMAIN s.groups
    OBVIOUS
  <1>7. \A i \in DOMAIN gs : GroupComplete(s.groups[i]) => GroupComplete(gs[i])
    BY <1>2, ToolsDoneGroup
  <1> HIDE DEF gs
  <1>8. Resumed(s) \in PhaseState
    <2>1. s.open \ {s.pending} \in SUBSET Nat
      BY DEF PhaseState
    <2>2. \A open \in SUBSET Nat, pending \in Nat :
             [s EXCEPT !.status = "running", !.pending = pending, !.open = open,
                       !.groups = gs] \in PhaseState
      BY <1>4 DEF PhaseState
    <2>3. [s EXCEPT !.status = "running", !.pending = 0, !.open = s.open \ {s.pending},
                    !.groups = gs] \in PhaseState
      BY <2>1, <2>2
    <2> QED  BY <1>5, <2>3
  <1>9. /\ Resumed(s).groups = gs
        /\ Resumed(s).index = s.index
        /\ Resumed(s).status = "running"
        /\ Resumed(s).open = s.open \ {s.pending}
        /\ Resumed(s).iteration = s.iteration
    BY <1>5 DEF PhaseState
  <1>10. s.open \ {s.pending} = {}
    BY DEF Coherent
  <1> QED  BY <1>6, <1>7, <1>8, <1>9, <1>10 DEF Coherent

LEMMA AnsweredReady ==
    ASSUME NEW s \in PhaseState, Coherent(s), s.status = "waiting_user"
    PROVE  /\ Ready(Answered(s), IF s.resume = "simple" THEN "stream" ELSE Answered(s).phase)
           /\ Answered(s).iteration = s.iteration
  <1>1. s.open = {}
    BY DEF Coherent
  <1>2. CASE s.resume = "simple"
    <2> DEFINE r == [s EXCEPT !.status = "running"]
    <2>1. r \in PhaseState /\ Coherent(r) /\ r.status = "running" /\ r.iteration = s.iteration
      BY <1>1 DEF PhaseState, Coherent
    <2>2. Answered(s) = Simple(r)
      BY <1>2 DEF Answered, Simple, PhaseState
    <2> HIDE DEF r
    <2>3. Simple(r).iteration = r.iteration
      BY <2>1 DEF Simple, PhaseState
    <2>4. Ready(Simple(r), "stream")
      BY <2>1, SimpleReady
    <2> QED  BY <1>2, <2>1, <2>2, <2>3, <2>4
  <1>3. CASE s.resume # "simple"
    <2> DEFINE phase == IF s.resume = "none" THEN "triage" ELSE s.resume
    <2>1. phase \in AgentPhase \ {"simple"}
      BY <1>3 DEF phase, PhaseState, AgentPhase
    <2>2. phase \in Late => AllGroupsComplete(s)
      BY DEF Late, Coherent
    <2>3. Answered(s) = [s EXCEPT !.status = "running", !.resume = "none", !.phase = phase]
      BY <1>3 DEF Answered
    <2> HIDE DEF phase
    <2> QED  BY <1>1, <1>3, <2>1, <2>2, <2>3
             DEF Ready, Fits, Late, Saving, Method, PhaseState, AgentPhase, Coherent,
                 AllGroupsComplete
  <1> QED  BY <1>2, <1>3

-----------------------------------------------------------------------------
(* Steps of a handler at work                                              *)

\* Nobody else touches the job while a handler works on it, but for the job
\* handler's second save of what is already there.
LEMMA Alone ==
    ASSUME IInv, NEW h \in Handlers, work[h] # Nobody,
           h = Job => work[h].next \notin Saving
    PROVE  /\ work[h].state \in PhaseState /\ work[h].next \in Method
           /\ Coherent(work[h].state) /\ Fits(work[h].state, work[h].next)
           /\ ~requested
           /\ \A x \in snapshots : ~Streamed(x) /\ x.iteration <= work[h].state.iteration
           /\ \A g \in Others \ {h} : work[g] = Nobody
           /\ h = Job => snapshots = {}
           /\ h # Job => lock = h
           /\ h # Job /\ work[Job] # Nobody =>
                 work[Job].next = "save" /\ work[Job].state \in snapshots
  <1>1. /\ work[h].state \in PhaseState /\ work[h].next \in Method
        /\ Coherent(work[h].state) /\ Fits(work[h].state, work[h].next)
        /\ ~requested
    BY DEF IInv, TypeOK, StateInv, JobInv
  <1>2. CASE h = Job
    <2>1. snapshots = {} /\ OthersIdle
      BY <1>2 DEF IInv, JobInv, Saving
    <2> QED  BY <1>1, <1>2, <2>1 DEF OthersIdle
  <1>3. CASE h # Job
    <2>1. h \in Others
      BY <1>3 DEF Handlers, Others
    <2>2. lock = h /\ \A x \in snapshots : x.iteration <= work[h].state.iteration
      BY <2>1 DEF IInv, LockInv
    <2>3. \A g \in Others \ {h} : work[g] = Nobody
      BY <2>2 DEF IInv, LockInv
    <2>4. ~OthersIdle
      BY <2>1 DEF OthersIdle
    <2>5. \A x \in snapshots : ~Streamed(x)
      BY <2>4 DEF IInv, EndInv
    <2>6. work[Job] # Nobody => work[Job].next = "save" /\ work[Job].state \in snapshots
      BY <2>4 DEF IInv, JobInv
    <2> QED  BY <1>1, <1>3, <2>2, <2>3, <2>5, <2>6
  <1> QED  BY <1>2, <1>3

LEMMA GotoWork ==
    ASSUME TypeOK, NEW h \in Handlers, NEW s \in PhaseState, NEW m \in Method,
           Goto(h, s, m)
    PROVE  /\ work' \in [Handlers -> [state : PhaseState, next : Method] \cup {Nobody}]
           /\ work'[h].state = s /\ work'[h].next = m
           /\ \A g \in Handlers \ {h} : work'[g] = work[g]
  BY DEF TypeOK, Goto

\* To the next method of a phase, without a save.
LEMMA GotoStep ==
    ASSUME IInv, NEW h \in Handlers, work[h] # Nobody,
           h = Job => work[h].next \notin Saving,
           NEW s, NEW m, Ready(s, m), Goto(h, s, m), Local, m # "dispatch",
           s.iteration >= work[h].state.iteration,
           m \in Saving /\ Streamed(s) => s.iteration > work[h].state.iteration
    PROVE  IInv'
  <1>1. s \in PhaseState /\ m \in Method /\ Coherent(s) /\ Fits(s, m)
    BY DEF Ready
  <1>2. /\ work' \in [Handlers -> [state : PhaseState, next : Method] \cup {Nobody}]
        /\ work'[h].state = s /\ work'[h].next = m
        /\ \A g \in Handlers \ {h} : work'[g] = work[g]
    BY <1>1, GotoWork DEF IInv
  <1>3. UNCHANGED <<snapshots, lock, running, results, mail, calls, bounds>>
    BY DEF Local, Quiet, bounds
  <1>4. TypeOK'
    BY <1>2, <1>3 DEF IInv, TypeOK, mail, bounds
  <1>5. StateInv'
    BY <1>1, <1>2, <1>3 DEF IInv, StateInv
  <1>6. JobInv'
    <2>1. ~requested'
      BY <1>3, Alone DEF mail
    <2>2. CASE h = Job
      <3>1. snapshots' = {} /\ \A g \in Others : work'[g] = Nobody
        BY <1>2, <1>3, <2>2, Alone, PhasesAssumption DEF Others, Handlers
      <3> QED  BY <1>2, <2>1, <2>2, <3>1 DEF JobInv, OthersIdle
    <2>3. CASE h # Job
      <3>1. work'[Job] = work[Job]
        BY <1>2, <2>3 DEF Handlers
      <3> QED  BY <1>3, <2>1, <2>3, <3>1, Alone DEF JobInv
    <2> QED  BY <2>2, <2>3
  <1>7. LockInv'
    <2>1. ASSUME NEW g \in Others, work'[g] # Nobody
          PROVE  g = h
      BY <1>2, <2>1, Alone DEF Others, Handlers
    <2>2. ASSUME h \in Others
          PROVE  lock' = h /\ \A x \in snapshots' : x.iteration <= work'[h].state.iteration
      <3>1. h # Job
        BY <2>2, PhasesAssumption DEF Others
      <3>2. lock = h /\ \A x \in snapshots : x.iteration <= work[h].state.iteration
        BY <3>1, Alone
      <3>3. s.iteration \in Nat /\ work[h].state.iteration \in Nat
        BY <1>1, Alone DEF PhaseState
      <3>4. \A x \in snapshots : x.iteration \in Nat
        BY DEF IInv, TypeOK, PhaseState
      <3> QED  BY <1>2, <1>3, <3>2, <3>3, <3>4
    <2> QED  BY <2>1, <2>2 DEF LockInv
  <1>8. CallInv'
    BY <1>2, <1>3 DEF IInv, CallInv, Runs, Held
  <1>9. EndInv'
    <2>1. \A x \in snapshots' : ~Streamed(x)
      BY <1>3, Alone
    <2>2. ASSUME NEW g \in Handlers, work'[g] # Nobody, work'[g].next \in Saving,
                 Streamed(work'[g].state)
          PROVE  \A x \in snapshots' : Suspended(x) => x.iteration < work'[g].state.iteration
      <3>1. CASE g = h
        <4>1. s.iteration \in Nat /\ work[h].state.iteration \in Nat
          BY <1>1, Alone DEF PhaseState
        <4>2. \A x \in snapshots : x.iteration \in Nat
          BY DEF IInv, TypeOK, PhaseState
        <4>3. s.iteration > work[h].state.iteration
          BY <1>2, <2>2, <3>1
        <4>4. \A x \in snapshots : x.iteration < s.iteration
          BY <4>1, <4>2, <4>3, Alone
        <4> QED  BY <1>2, <1>3, <3>1, <4>4
      <3>2. CASE g # h
        <4>1. work'[g] = work[g]
          BY <1>2, <3>2
        <4> QED  BY <1>3, <2>2, <4>1 DEF IInv, EndInv, Outranks
      <3> QED  BY <3>1, <3>2
    <2> QED  BY <2>1, <2>2 DEF EndInv, Outranks
  <1> QED  BY <1>4, <1>5, <1>6, <1>7, <1>8, <1>9 DEF IInv

\* To a state that waits, which is saved at once.
LEMMA WaitStep ==
    ASSUME IInv, NEW h \in Handlers, work[h] # Nobody,
           h = Job => work[h].next \notin Saving,
           NEW s, NEW m \in {"save", "dispatch", "resume"}, Ready(s, m),
           h = Job => m # "resume", Goto(h, s, m),
           Suspended(s), s.iteration >= work[h].state.iteration,
           snapshots' = snapshots \cup {s},
           calls' \in Nat, calls' >= calls, questions' \in Nat,
           m = "dispatch" => calls' > calls /\ s.pending = calls',
           Quiet
    PROVE  IInv'
  <1>1. s \in PhaseState /\ m \in Method /\ Coherent(s) /\ Fits(s, m)
    BY DEF Ready
  <1>2. /\ work' \in [Handlers -> [state : PhaseState, next : Method] \cup {Nobody}]
        /\ work'[h].state = s /\ work'[h].next = m
        /\ \A g \in Handlers \ {h} : work'[g] = work[g]
    BY <1>1, GotoWork DEF IInv
  <1>3. UNCHANGED <<lock, running, results, requested, signals, replies, replied, failures>>
    BY DEF Quiet, mail
  <1>4. TypeOK'
    BY <1>1, <1>2, <1>3 DEF IInv, TypeOK
  <1>5. StateInv'
    BY <1>1, <1>2 DEF IInv, StateInv
  <1>6. /\ calls \in Nat /\ running \subseteq Nat /\ results \subseteq Nat
        /\ \A c \in running \cup results : c <= calls
    BY DEF IInv, TypeOK, CallInv
  <1>7. JobInv'
    <2>1. ~requested'
      BY <1>3, Alone
    <2>2. CASE h = Job
      <3>1. snapshots' = {s} /\ \A g \in Others : work'[g] = Nobody
        BY <1>2, <2>2, Alone, PhasesAssumption DEF Others, Handlers
      <3>2. m = "dispatch" => s.pending \notin running' \cup results'
        BY <1>3, <1>6
      <3> QED  BY <1>2, <2>1, <2>2, <3>1, <3>2 DEF JobInv, OthersIdle
    <2>3. CASE h # Job
      <3>1. work'[Job] = work[Job]
        BY <1>2, <2>3 DEF Handlers
      <3> QED  BY <2>1, <2>3, <3>1, Alone DEF JobInv
    <2> QED  BY <2>2, <2>3
  <1>8. LockInv'
    <2>1. ASSUME NEW g \in Others, work'[g] # Nobody
          PROVE  g = h
      BY <1>2, <2>1, Alone DEF Others, Handlers
    <2>2. ASSUME h \in Others
          PROVE  lock' = h /\ \A x \in snapshots' : x.iteration <= work'[h].state.iteration
      <3>1. h # Job
        BY <2>2, PhasesAssumption DEF Others
      <3>2. lock = h /\ \A x \in snapshots : x.iteration <= work[h].state.iteration
        BY <3>1, Alone
      <3>3. s.iteration \in Nat /\ work[h].state.iteration \in Nat
        BY <1>1, Alone DEF PhaseState
      <3>4. \A x \in snapshots : x.iteration \in Nat
        BY DEF IInv, TypeOK, PhaseState
      <3> QED  BY <1>2, <1>3, <3>2, <3>3, <3>4
    <2> QED  BY <2>1, <2>2 DEF LockInv
  <1>9. CallInv'
    <2>1. \A c \in running' \cup results' : c <= calls'
      BY <1>3, <1>6
    <2>2. ASSUME NEW g \in Handlers, work'[g] # Nobody, work'[g].next = "dispatch"
          PROVE  work'[g].state.pending <= calls'
      <3>1. CASE g = h
        BY <1>2, <2>2, <3>1
      <3>2. CASE g # h
        <4>1. work[g] # Nobody /\ work[g].next = "dispatch" /\ work'[g].state = work[g].state
          BY <1>2, <2>2, <3>2
        <4>2. work[g].state.pending <= calls /\ work[g].state.pending \in Nat
          BY <4>1 DEF IInv, CallInv, Runs, Held, TypeOK, PhaseState
        <4> QED  BY <1>6, <4>1, <4>2
      <3> QED  BY <3>1, <3>2
    <2> QED  BY <2>1, <2>2 DEF CallInv, Runs, Held
  <1>10. EndInv'
    <2>1. \A x \in snapshots' : ~Streamed(x)
      BY Alone DEF Streamed, Suspended
    <2>2. ASSUME NEW g \in Handlers, work'[g] # Nobody, work'[g].next \in Saving
          PROVE  ~Streamed(work'[g].state)
      <3>1. CASE g = h
        BY <1>2, <3>1 DEF Streamed, Suspended
      <3>2. CASE g # h
        <4>1. g = Job /\ h # Job /\ work'[g] = work[g]
          BY <1>2, <2>2, <3>2, Alone DEF Others, Handlers
        <4>2. work[g].state \in snapshots
          BY <2>2, <4>1, Alone
        <4> QED  BY <4>1, <4>2, Alone
      <3> QED  BY <3>1, <3>2
    <2> QED  BY <2>1, <2>2 DEF EndInv
  <1> QED  BY <1>4, <1>5, <1>7, <1>8, <1>9, <1>10 DEF IInv

\* The end of a handler's work, with or without a last save.
LEMMA EndStep ==
    ASSUME IInv, NEW h \in Handlers, work[h] # Nobody,
           h = Job => work[h].next # "dispatch",
           work' = [work EXCEPT ![h] = Nobody], Release(h),
           \/ snapshots' = snapshots
           \/ work[h].next = "save" /\ snapshots' = snapshots \cup {work[h].state},
           UNCHANGED <<running, results, requested, calls>>,
           {signals, replies, questions, replied, failures}' \subseteq Nat
    PROVE  IInv'
  <1>1. /\ work' \in [Handlers -> [state : PhaseState, next : Method] \cup {Nobody}]
        /\ work'[h] = Nobody
        /\ \A g \in Handlers \ {h} : work'[g] = work[g]
    BY DEF IInv, TypeOK
  <1>2. work[h].state \in PhaseState /\ Coherent(work[h].state) /\ ~requested
    BY DEF IInv, TypeOK, StateInv, JobInv
  <1>3. TypeOK'
    <2>1. snapshots' \subseteq PhaseState
      BY <1>2 DEF IInv, TypeOK
    <2>2. lock' \in Handlers \cup {Nobody}
      BY DEF IInv, TypeOK, Release
    <2> QED  BY <1>1, <2>1, <2>2 DEF IInv, TypeOK
  <1>4. StateInv'
    BY <1>1, <1>2 DEF IInv, StateInv
  <1>5. ASSUME NEW g \in Others \ {h}, work[g] # Nobody
        PROVE  h = Job /\ snapshots' = snapshots
    <2>1. lock = g
      BY <1>5 DEF IInv, LockInv
    <2>2. h \notin Others
      BY <1>5, <2>1 DEF IInv, LockInv
    <2>3. h = Job
      BY <2>2 DEF Handlers, Others
    <2>4. ~OthersIdle
      BY <1>5 DEF OthersIdle
    <2>5. work[h].state \in snapshots
      BY <2>3, <2>4 DEF IInv, JobInv
    <2> QED  BY <2>3, <2>5
  <1>6. JobInv'
    <2>1. CASE h = Job
      BY <1>1, <1>2, <2>1 DEF JobInv
    <2>2. CASE h # Job
      <3>1. h \in Others /\ work'[Job] = work[Job]
        BY <1>1, <2>2 DEF Handlers, Others
      <3>2. ~OthersIdle
        BY <3>1 DEF OthersIdle
      <3>3. work[Job] # Nobody => work[Job].next = "save" /\ work[Job].state \in snapshots
        BY <3>2 DEF IInv, JobInv
      <3> QED  BY <1>2, <3>1, <3>3 DEF JobInv
    <2> QED  BY <2>1, <2>2
  <1>7. LockInv'
    <2>1. SUFFICES ASSUME NEW g \in Others, work'[g] # Nobody
          PROVE  lock' = g /\ \A x \in snapshots' : x.iteration <= work'[g].state.iteration
      BY DEF LockInv
    <2>2. g # h /\ work'[g] = work[g]
      BY <1>1, <2>1 DEF Others, Handlers
    <2>3. h = Job /\ snapshots' = snapshots
      BY <1>5, <2>1, <2>2
    <2>4. lock = g /\ \A x \in snapshots : x.iteration <= work[g].state.iteration
      BY <2>1, <2>2 DEF IInv, LockInv
    <2> QED  BY <2>2, <2>3, <2>4 DEF Release
  <1>8. CallInv'
    BY <1>1 DEF IInv, CallInv, Runs, Held
  <1>9. EndInv'
    <2>1. ASSUME NEW x \in snapshots, Streamed(x)
          PROVE  snapshots' = snapshots /\ h = Job
      <3>1. OthersIdle
        BY <2>1 DEF IInv, EndInv
      <3>2. h = Job
        BY <3>1 DEF OthersIdle, Handlers, Others
      <3>3. work[h].next = "save" => work[h].state \in snapshots
        BY <2>1, <3>2 DEF IInv, JobInv
      <3> QED  BY <3>2, <3>3
    <2>2. ASSUME NEW x \in snapshots', Streamed(x)
          PROVE  /\ \A g \in Others : work'[g] = Nobody
                 /\ \A s \in snapshots' : Suspended(s) => s.iteration < x.iteration
      <3>1. CASE x \in snapshots
        <4>1. OthersIdle /\ Outranks(x) /\ snapshots' = snapshots
          BY <2>1, <2>2, <3>1 DEF IInv, EndInv
        <4> QED  BY <1>1, <4>1 DEF OthersIdle, Outranks, Others, Handlers
      <3>2. CASE x \notin snapshots
        <4>1. x = work[h].state /\ work[h].next = "save" /\ snapshots' = snapshots \cup {x}
          BY <2>2, <3>2
        <4>2. Outranks(x) /\ ~Suspended(x)
          BY <2>2, <4>1 DEF IInv, EndInv, Saving, Streamed, Suspended
        <4>3. \A g \in Others \ {h} : work[g] = Nobody
          BY <1>5, <3>2, <4>1
        <4> QED  BY <1>1, <4>1, <4>2, <4>3 DEF Outranks, Others, Handlers
      <3> QED  BY <3>1, <3>2
    <2>3. ASSUME NEW g \in Handlers, work'[g] # Nobody, work'[g].next \in Saving,
                 Streamed(work'[g].state)
          PROVE  \A s \in snapshots' : Suspended(s) => s.iteration < work'[g].state.iteration
      <3>1. g # h /\ work'[g] = work[g]
        BY <1>1, <2>3
      <3>2. Outranks(work[g].state)
        BY <2>3, <3>1 DEF IInv, EndInv
      <3>3. CASE g \in Others
        <4>1. snapshots' = snapshots
          BY <1>5, <2>3, <3>1, <3>3
        <4> QED  BY <3>1, <3>2, <4>1 DEF Outranks
      <3>4. CASE g = Job
        <4>1. h \in Others
          BY <3>1, <3>4 DEF Handlers, Others
        <4>2. ~OthersIdle
          BY <4>1 DEF OthersIdle
        <4>3. work[g].state \in snapshots
          BY <2>3, <3>1, <3>4, <4>2 DEF IInv, JobInv
        <4> QED  BY <2>3, <3>1, <4>2, <4>3 DEF IInv, EndInv
      <3> QED  BY <3>3, <3>4 DEF Handlers, Others
    <2> QED  BY <2>2, <2>3 DEF EndInv, OthersIdle, Outranks
  <1> QED  BY <1>3, <1>4, <1>6, <1>7, <1>8, <1>9 DEF IInv

\* A handler that holds no work takes the lock and one of the newest states.
LEMMA StartStep ==
    ASSUME IInv, NEW h \in Others, NEW loaded \in Latest, Suspended(loaded),
           NEW s, NEW m, Ready(s, m), Start(h, s, m), m # "dispatch",
           loaded.status = "waiting_tool" => loaded.pending \in results,
           s.iteration = loaded.iteration, s.status \in {"running", "waiting_tool"},
           signals' \in Nat, replies' \in Nat
    PROVE  IInv'
  <1>1. /\ s \in PhaseState /\ m \in Method /\ Coherent(s) /\ Fits(s, m)
        /\ h \in Handlers /\ h # Job
    BY PhasesAssumption DEF Ready, Others, Handlers
  <1>2. /\ work' \in [Handlers -> [state : PhaseState, next : Method] \cup {Nobody}]
        /\ work'[h].state = s /\ work'[h].next = m
        /\ \A g \in Handlers \ {h} : work'[g] = work[g]
    BY <1>1, GotoWork DEF IInv, Start
  <1>3. /\ UNCHANGED <<snapshots, running, results, requested, calls, questions, replied,
                       failures>>
        /\ work[h] = Nobody /\ lock = Nobody /\ lock' = h
    BY DEF Start, bounds
  <1>4. TypeOK'
    BY <1>1, <1>2, <1>3 DEF IInv, TypeOK
  <1>5. StateInv'
    BY <1>1, <1>2, <1>3 DEF IInv, StateInv
  <1>6. loaded \in snapshots /\ loaded.iteration \in Nat
          /\ \A x \in snapshots : x.iteration <= loaded.iteration /\ x.iteration \in Nat
    BY DEF Latest, IInv, TypeOK, PhaseState
  <1>7. \A g \in Others : work[g] = Nobody
    <2>1. lock \notin Others
      BY <1>3, PhasesAssumption DEF Others, Handlers
    <2> QED  BY <2>1 DEF IInv, LockInv
  <1>8. \A x \in snapshots : ~Streamed(x)
    <2>1. ASSUME NEW x \in snapshots, Streamed(x)
          PROVE  FALSE
      <3>1. loaded.iteration < x.iteration
        BY <1>6, <2>1 DEF IInv, EndInv, Outranks
      <3> QED  BY <1>6, <3>1
    <2> QED  BY <2>1
  <1>9. /\ ~requested
        /\ work[Job] # Nobody => work[Job].next = "save" /\ work[Job].state \in snapshots
    <2>1. ~requested
      BY <1>6 DEF IInv, JobInv
    <2>2. ASSUME work[Job] # Nobody, work[Job].next = "dispatch",
                 snapshots = {work[Job].state},
                 work[Job].state.pending \notin running \cup results
          PROVE  FALSE
      <3>1. loaded = work[Job].state
        BY <1>6, <2>2
      <3>2. loaded.status = "waiting_tool"
        BY <2>2, <3>1 DEF IInv, StateInv, Fits, Handlers
      <3> QED  BY <2>2, <3>1, <3>2
    <2> QED  BY <1>6, <2>1, <2>2 DEF IInv, JobInv
  <1>10. work'[Job] = work[Job]
    BY <1>1, <1>2 DEF Handlers
  <1>11. JobInv'
    BY <1>3, <1>9, <1>10 DEF JobInv
  <1>12. LockInv'
    <2>1. SUFFICES ASSUME NEW g \in Others, work'[g] # Nobody
                   PROVE  lock' = g /\ \A x \in snapshots' :
                                          x.iteration <= work'[g].state.iteration
      BY DEF LockInv
    <2>2. g = h
      BY <1>2, <1>7, <2>1 DEF Others, Handlers
    <2> QED  BY <1>2, <1>3, <1>6, <2>2
  <1>13. CallInv'
    BY <1>2, <1>3 DEF IInv, CallInv, Runs, Held
  <1>14. EndInv'
    <2>1. ASSUME NEW g \in Handlers, work'[g] # Nobody, work'[g].next \in Saving
          PROVE  ~Streamed(work'[g].state)
      <3>1. CASE g = h
        BY <1>2, <3>1 DEF Streamed
      <3>2. CASE g # h
        <4>1. g = Job
          BY <1>2, <1>7, <2>1, <3>2 DEF Others, Handlers
        <4> QED  BY <1>8, <1>9, <1>10, <2>1, <4>1
      <3> QED  BY <3>1, <3>2
    <2> QED  BY <1>3, <1>8, <2>1 DEF EndInv
  <1> QED  BY <1>4, <1>5, <1>11, <1>12, <1>13, <1>14 DEF IInv

LEMMA DispatchStep ==
    ASSUME IInv, NEW h \in Handlers, Dispatch(h)
    PROVE  IInv'
  <1> DEFINE s == work[h].state
             m == IF h = Resumer THEN "recheck" ELSE "save"
  <1>1. /\ work[h] # Nobody /\ work[h].next = "dispatch"
        /\ running' = running \cup {s.pending}
        /\ Goto(h, s, m)
        /\ UNCHANGED <<snapshots, lock, results, requested, signals, replies, calls,
                       questions, replied, failures>>
    BY DEF Dispatch, Runs, Held, mail, bounds
  <1>2. /\ s \in PhaseState /\ Coherent(s) /\ s.status = "waiting_tool" /\ ~requested
        /\ s.pending \in Nat /\ s.pending <= calls
    BY <1>1 DEF IInv, TypeOK, StateInv, Fits, JobInv, CallInv, Runs, Held, PhaseState
  <1>3. m \in Method /\ Fits(s, m) /\ m # "dispatch"
    BY <1>2 DEF Method, Fits, Saving, Late
  <1>4. /\ work' \in [Handlers -> [state : PhaseState, next : Method] \cup {Nobody}]
        /\ work'[h].state = s /\ work'[h].next = m
        /\ \A g \in Handlers \ {h} : work'[g] = work[g]
    BY <1>1, <1>2, <1>3, GotoWork DEF IInv
  <1>5. ~Streamed(s)
    BY <1>2 DEF Streamed
  <1> HIDE DEF s, m
  <1>6. TypeOK'
    BY <1>1, <1>2, <1>4 DEF IInv, TypeOK
  <1>7. StateInv'
    BY <1>1, <1>2, <1>3, <1>4 DEF IInv, StateInv
  <1>8. JobInv'
    <2>1. CASE h = Job
      <3>1. m = "save"
        BY <2>1, PhasesAssumption DEF m
      <3>2. s \in snapshots
        BY <1>1, <2>1 DEF IInv, JobInv, s
      <3> QED  BY <1>1, <1>2, <1>4, <2>1, <3>1, <3>2 DEF JobInv
    <2>2. CASE h # Job
      <3>1. h \in Others /\ work'[Job] = work[Job]
        BY <1>4, <2>2 DEF Handlers, Others
      <3>2. ~OthersIdle
        BY <1>1, <3>1 DEF OthersIdle
      <3> QED  BY <1>1, <1>2, <3>1, <3>2 DEF IInv, JobInv
    <2> QED  BY <2>1, <2>2
  <1>9. LockInv'
    <2>1. \A g \in Handlers : work'[g] # Nobody =>
             work[g] # Nobody /\ work'[g].state.iteration = work[g].state.iteration
      BY <1>1, <1>4 DEF s
    <2> QED  BY <1>1, <2>1 DEF IInv, LockInv, Others, Handlers
  <1>10. CallInv'
    BY <1>1, <1>2, <1>3, <1>4 DEF IInv, CallInv, Runs, Held
  <1>11. EndInv'
    <2>1. ASSUME NEW x \in snapshots', Streamed(x)
          PROVE  Outranks(x)' /\ OthersIdle'
      <3>1. Outranks(x) /\ OthersIdle
        BY <1>1, <2>1 DEF IInv, EndInv
      <3>2. \A g \in Others : work'[g] = Nobody
        BY <1>1, <1>4, <3>1 DEF OthersIdle, Others, Handlers
      <3> QED  BY <1>1, <3>1, <3>2 DEF Outranks, OthersIdle
    <2>2. ASSUME NEW g \in Handlers, work'[g] # Nobody, work'[g].next \in Saving,
                 Streamed(work'[g].state)
          PROVE  \A x \in snapshots' : Suspended(x) => x.iteration < work'[g].state.iteration
      <3>1. g # h /\ work'[g] = work[g]
        BY <1>4, <1>5, <2>2
      <3> QED  BY <1>1, <2>2, <3>1 DEF IInv, EndInv, Outranks
    <2> QED  BY <2>1, <2>2 DEF EndInv, Outranks
  <1> QED  BY <1>6, <1>7, <1>8, <1>9, <1>10, <1>11 DEF IInv

-----------------------------------------------------------------------------
(* The phases                                                              *)

\* A handler at a phase, or at the start of what follows the answered tools.
Working(h) ==
    /\ h \in Handlers
    /\ work[h] # Nobody
    /\ h = Job => work[h].next \notin Saving

\* s is what handler h has made of its state, at the same iteration.
Made(h, s) ==
    /\ s \in PhaseState
    /\ Coherent(s)
    /\ s.status = "running"
    /\ s.iteration = work[h].state.iteration

LEMMA AskStep ==
    ASSUME IInv, NEW h, Working(h), NEW s, Made(h, s), NEW phase \in AgentPhase,
           phase \in Late => AllGroupsComplete(s),
           AskUser(h, [s EXCEPT !.resume = phase])
    PROVE  IInv'
  <1> DEFINE r == [s EXCEPT !.resume = phase]
  <1>1. /\ r \in PhaseState /\ Coherent(r) /\ r.status = "running"
        /\ r.iteration = s.iteration
        /\ r.resume \in Late => AllGroupsComplete(r)
    BY DEF Made, PhaseState, Coherent, AllGroupsComplete
  <1> HIDE DEF r
  <1>2. Ready(Asking(r), "save")
    BY <1>1, AskingReady
  <1>3. Suspended(Asking(r)) /\ Asking(r).iteration = s.iteration
    BY <1>1 DEF Asking, Suspended, PhaseState
  <1>4. work[h].state.iteration \in Nat
    BY DEF IInv, TypeOK, PhaseState, Working
  <1>5. calls \in Nat /\ questions \in Nat
    BY DEF IInv, TypeOK
  <1>6. /\ Goto(h, Asking(r), "save") /\ snapshots' = snapshots \cup {Asking(r)}
        /\ calls' = calls /\ questions' = questions + 1 /\ Quiet
    BY DEF AskUser, r
  <1> QED
    BY <1>2, <1>3, <1>4, <1>5, <1>6, WaitStep DEF Working, Made

LEMMA TransitionStep ==
    ASSUME IInv, NEW h, Working(h), NEW s, Made(h, s),
           NEW phase \in AgentPhase \ {"simple", "waiting_user"},
           phase \in Late => AllGroupsComplete(s),
           Transition(h, s, phase)
    PROVE  IInv'
  <1>1. CASE AskUser(h, [s EXCEPT !.resume = phase])
    BY <1>1, AskStep
  <1>2. CASE Goto(h, [s EXCEPT !.phase = phase], phase) /\ Local
    <2> DEFINE r == [s EXCEPT !.phase = phase]
    <2>1. Ready(r, phase)
      BY PhaseReady DEF Made
    <2>2. r.iteration = s.iteration /\ ~Streamed(r)
      BY DEF Made, PhaseState, Streamed
    <2>3. work[h].state.iteration \in Nat
      BY DEF IInv, TypeOK, PhaseState, Working
    <2>4. phase # "dispatch"
      BY DEF AgentPhase
    <2> HIDE DEF r
    <2>5. Goto(h, r, phase) /\ Local
      BY <1>2 DEF r
    <2> QED  BY <2>1, <2>2, <2>3, <2>4, <2>5, GotoStep DEF Working, Made
  <1> QED  BY <1>1, <1>2 DEF Transition

LEMMA SuspendStep ==
    ASSUME IInv, NEW h, Working(h), NEW s \in PhaseState, Coherent(s),
           s.status = "running", s.iteration >= work[h].state.iteration, Suspend(h, s)
    PROVE  IInv'
  <1>1. calls \in Nat /\ questions \in Nat
    BY DEF IInv, TypeOK
  <1> DEFINE w == Waiting(s, calls')
  <1>2. /\ calls' = calls + 1 /\ questions' = questions /\ Quiet
        /\ Goto(h, w, "dispatch") /\ snapshots' = snapshots \cup {w}
    BY DEF Suspend
  <1>3. Ready(w, "dispatch")
    BY <1>1, <1>2, WaitingReady
  <1>4. Suspended(w) /\ w.iteration = s.iteration /\ w.pending = calls'
    BY DEF Waiting, Suspended, PhaseState
  <1> HIDE DEF w
  <1> QED  BY <1>1, <1>2, <1>3, <1>4, WaitStep DEF Working

\* To another method with a state made of the one held.
LEMMA MadeStep ==
    ASSUME IInv, NEW h, Working(h), NEW s, Made(h, s), NEW m, Ready(s, m),
           m # "dispatch", Goto(h, s, m), Local
    PROVE  IInv'
  <1>1. work[h].state.iteration \in Nat /\ ~Streamed(s)
    BY DEF IInv, TypeOK, PhaseState, Working, Made, Streamed
  <1> QED  BY <1>1, GotoStep DEF Working, Made

\* In the phases a state has nothing open.
LEMMA AtPhase ==
    ASSUME IInv, NEW h \in Handlers, work[h] # Nobody, work[h].next \notin Saving
    PROVE  Working(h) /\ Made(h, work[h].state) /\ Fits(work[h].state, work[h].next)
  BY DEF IInv, TypeOK, StateInv, Fits, Working, Made

LEMMA TriageStep ==
    ASSUME IInv, NEW h \in Handlers, Triage(h)
    PROVE  IInv'
  <1> DEFINE s == Held(h)
  <1>1. Working(h) /\ Made(h, s)
    BY AtPhase DEF Triage, Runs, Held, Saving
  <1>2. ASSUME NEW phase \in {"decompose", "simple"},
               AskUser(h, [s EXCEPT !.resume = phase])
        PROVE  IInv'
    BY <1>1, <1>2, AskStep DEF AgentPhase, Late
  <1>3. CASE Transition(h, s, "decompose")
    BY <1>1, <1>3, TransitionStep DEF AgentPhase, Late
  <1>4. CASE Goto(h, Simple(s), "stream") /\ Local
    <2>1. Ready(Simple(s), "stream")
      BY <1>1, SimpleReady DEF Made
    <2>2. Simple(s).status = "running" /\ Simple(s).iteration = s.iteration
      BY <1>1 DEF Simple, Made, PhaseState
    <2>3. Made(h, Simple(s))
      BY <1>1, <2>1, <2>2 DEF Made, Ready
    <2> QED  BY <1>1, <1>4, <2>1, <2>3, MadeStep
  <1> QED  BY <1>2, <1>3, <1>4 DEF Triage

LEMMA DecomposeStep ==
    ASSUME IInv, NEW h \in Handlers, Decompose(h)
    PROVE  IInv'
  <1> DEFINE s == Held(h)
  <1>1. Working(h) /\ Made(h, s)
    BY AtPhase DEF Decompose, Runs, Held, Saving
  <1>2. PICK plan \in Plans :
           Transition(h, [s EXCEPT !.groups = plan, !.index = 1], "execute")
    BY DEF Decompose
  <1> DEFINE p == [s EXCEPT !.groups = plan, !.index = 1]
  <1>3. Made(h, p)
    BY <1>1, PlanReady DEF Made
  <1> HIDE DEF p
  <1>4. Transition(h, p, "execute")
    BY <1>2 DEF p
  <1> QED  BY <1>1, <1>3, <1>4, TransitionStep DEF AgentPhase, Late

\* After a group: the next one, or the synthesis.
LEMMA GoOnStep ==
    ASSUME IInv, NEW h, Working(h), NEW s, Made(h, s), GoOn(h, s)
    PROVE  IInv'
  <1>1. CASE AllGroupsComplete(s)
    BY <1>1, TransitionStep DEF GoOn, AgentPhase, Late
  <1>2. CASE ~AllGroupsComplete(s)
    <2>1. Ready(s, "execute")
      BY DEF Made, Ready, Fits, Late, Saving, Method, AgentPhase
    <2> QED  BY <1>2, <2>1, MadeStep DEF GoOn
  <1> QED  BY <1>1, <1>2

LEMMA ExecuteStep ==
    ASSUME IInv, NEW h \in Handlers, Execute(h)
    PROVE  IInv'
  <1> DEFINE s == Held(h)
             g == s.groups[s.index]
  <1>1. Working(h) /\ Made(h, s)
    BY AtPhase DEF Execute, Runs, Held, Saving
  <1>2. CASE AllGroupsComplete(s)
    BY <1>1, <1>2, TransitionStep DEF Execute, AgentPhase, Late
  <1>3. CASE ~AllGroupsComplete(s)
    <2>1. g \in Group
      <3>1. s.groups \in Seq(Group) /\ s.index \in Nat \ {0}
        BY <1>1 DEF Made, PhaseState
      <3>2. s.index \in 1 .. Len(s.groups)
        BY <1>3, <3>1, LenProperties DEF AllGroupsComplete
      <3> QED  BY <3>1, <3>2, LenProperties
    <2>2. /\ LlmDone(g) \in Group /\ LlmDone(g).tools = g.tools
          /\ [LlmDone(g) EXCEPT !.tools = "running"] \in Group
      BY <2>1, LlmDoneGroup
    <2>3. work[h].state.iteration \in Nat
      BY <1>1 DEF Made, PhaseState, Held
    <2>4. CASE LlmDone(g).tools # "none"
      <3> DEFINE w == WithGroup(s, [LlmDone(g) EXCEPT !.tools = "running"])
      <3>1. w \in PhaseState /\ Coherent(w) /\ w.status = "running"
              /\ w.iteration = s.iteration
        BY <1>1, <1>3, <2>2, WithGroupCoherent DEF Made
      <3>2. Suspend(h, w)
        BY <1>3, <2>4 DEF Execute
      <3> HIDE DEF w
      <3> QED  BY <1>1, <2>3, <3>1, <3>2, SuspendStep DEF Held
    <2>5. CASE LlmDone(g).tools = "none"
      <3> DEFINE w == WithGroup(s, LlmDone(g))
      <3>1. /\ w \in PhaseState /\ Coherent(w) /\ w.status = "running"
            /\ w.iteration = s.iteration
            /\ w.groups[w.index] = LlmDone(g)
        BY <1>1, <1>3, <2>2, WithGroupCoherent DEF Made
      <3>2. GroupComplete(LlmDone(g))
        BY <2>1, <2>2, <2>5, ThoughtComplete
      <3>3. GoOn(h, Advanced(w))
        BY <1>3, <2>5 DEF Execute
      <3> HIDE DEF w
      <3>4. Made(h, Advanced(w))
        BY <1>1, <3>1, <3>2, AdvancedCoherent DEF Made
      <3> QED  BY <1>1, <3>3, <3>4, GoOnStep
    <2> QED  BY <2>4, <2>5
  <1> QED  BY <1>2, <1>3

LEMMA SynthesizeStep ==
    ASSUME IInv, NEW h \in Handlers, Synthesize(h)
    PROVE  IInv'
  <1> DEFINE s == Held(h)
  <1>1. Working(h) /\ Made(h, s) /\ AllGroupsComplete(s)
    BY AtPhase DEF Synthesize, Runs, Held, Saving, Fits, Late
  <1>2. PICK draft \in BOOLEAN : Transition(h, [s EXCEPT !.draft = draft], "evaluate")
    BY DEF Synthesize
  <1> DEFINE d == [s EXCEPT !.draft = draft]
  <1>3. Made(h, d) /\ AllGroupsComplete(d)
    BY <1>1 DEF Made, PhaseState, Coherent, AllGroupsComplete
  <1> HIDE DEF d
  <1>4. Transition(h, d, "evaluate")
    BY <1>2 DEF d
  <1> QED  BY <1>1, <1>3, <1>4, TransitionStep DEF AgentPhase

LEMMA EvaluateStep ==
    ASSUME IInv, NEW h \in Handlers, Evaluate(h)
    PROVE  IInv'
  <1> DEFINE s == Held(h)
             c == [s EXCEPT !.evals = @ + 1]
  <1>1. Working(h) /\ Made(h, s) /\ AllGroupsComplete(s)
    BY AtPhase DEF Evaluate, Runs, Held, Saving, Fits, Late
  <1>2. Made(h, c) /\ AllGroupsComplete(c)
    BY <1>1, EvaluatedReady DEF Made
  <1>3. CASE Transition(h, s, "respond")
    BY <1>1, <1>3, TransitionStep DEF AgentPhase
  <1>4. \/ Transition(h, s, "respond")
        \/ Transition(h, c, "respond")
        \/ AskUser(h, [c EXCEPT !.resume = "evaluate"])
        \/ \E g \in FollowUps : Goto(h, AddGroup(c, g), "execute") /\ Local
    BY DEF Evaluate
  <1> HIDE DEF c
  <1>5. CASE Transition(h, c, "respond")
    BY <1>1, <1>2, <1>5, TransitionStep DEF AgentPhase
  <1>6. CASE AskUser(h, [c EXCEPT !.resume = "evaluate"])
    BY <1>1, <1>2, <1>6, AskStep DEF AgentPhase
  <1>7. ASSUME NEW g \in FollowUps, Goto(h, AddGroup(c, g), "execute") /\ Local
        PROVE  IInv'
    <2>1. Made(h, AddGroup(c, g))
      BY <1>2, AddGroupCoherent DEF Made
    <2>2. Ready(AddGroup(c, g), "execute")
      BY <2>1 DEF Made, Ready, Fits, Late, Saving, Method, AgentPhase
    <2> QED  BY <1>1, <1>7, <2>1, <2>2, MadeStep
  <1> QED  BY <1>3, <1>4, <1>5, <1>6, <1>7

LEMMA RespondStep ==
    ASSUME IInv, NEW h \in Handlers, Respond(h)
    PROVE  IInv'
  <1> DEFINE s == Held(h)
  <1>1. /\ Working(h) /\ Made(h, s)
        /\ s.phase # "simple"
    BY AtPhase DEF Respond, Runs, Held, Saving, Fits
  <1>2. CASE s.draft
    <2>1. Ready(s, "stream")
      BY <1>1 DEF Made, Ready, Fits, Late, Saving, Method
    <2> QED  BY <1>1, <1>2, <2>1, MadeStep DEF Respond
  <1>3. CASE ~s.draft
    <2> DEFINE e == [s EXCEPT !.status = "completed"]
    <2>1. /\ Ready(e, "save") /\ e.iteration = s.iteration
          /\ e.draft = s.draft /\ e.phase = s.phase
      BY <1>1, EndedReady DEF Made
    <2>2. Goto(h, e, "save") /\ Local
      BY <1>3 DEF Respond
    <2> HIDE DEF e
    <2>3. ~Streamed(e)
      BY <1>1, <1>3, <2>1 DEF Streamed
    <2>4. s.iteration \in Nat
      BY <1>1 DEF Made, PhaseState
    <2> QED  BY <1>1, <2>1, <2>2, <2>3, <2>4, GotoStep DEF Working, Made
  <1> QED  BY <1>2, <1>3

LEMMA StreamStep ==
    ASSUME IInv, NEW h \in Handlers, Stream(h)
    PROVE  IInv'
  <1> DEFINE s == Held(h)
  <1>1. Working(h) /\ Made(h, s)
    BY AtPhase DEF Stream, Runs, Held, Saving
  <1>2. s.iteration \in Nat /\ s.iteration = work[h].state.iteration
    BY <1>1 DEF Made, PhaseState
  <1>3. /\ Counted(s) \in PhaseState /\ Coherent(Counted(s))
        /\ Counted(s).status = "running" /\ Counted(s).iteration = s.iteration + 1
    BY <1>1, CountedReady DEF Made
  <1>4. CASE Goto(h, [s EXCEPT !.status = "failed"], "save") /\ Local
    <2> DEFINE e == [s EXCEPT !.status = "failed"]
    <2>1. Ready(e, "save") /\ e.iteration = s.iteration /\ e.status = "failed"
      BY <1>1, EndedReady DEF Made
    <2>2. Goto(h, e, "save") /\ Local
      BY <1>4
    <2> HIDE DEF e
    <2>3. ~Streamed(e)
      BY <2>1 DEF Streamed
    <2> QED  BY <1>1, <1>2, <2>1, <2>2, <2>3, GotoStep DEF Working
  <1>5. CASE Goto(h, [Counted(s) EXCEPT !.status = "completed"], "save") /\ Local
    <2> DEFINE e == [Counted(s) EXCEPT !.status = "completed"]
    <2>1. Ready(e, "save") /\ e.iteration = s.iteration + 1
      BY <1>3, EndedReady
    <2>2. Goto(h, e, "save") /\ Local
      BY <1>5
    <2> HIDE DEF e
    <2>3. e.iteration > s.iteration
      BY <1>2, <2>1
    <2> QED  BY <1>1, <1>2, <2>1, <2>2, <2>3, GotoStep DEF Working
  <1>6. CASE Suspend(h, Counted(s))
    <2>1. Counted(s).iteration >= work[h].state.iteration
      BY <1>2, <1>3
    <2> QED  BY <1>1, <1>3, <1>6, <2>1, SuspendStep
  <1> QED  BY <1>4, <1>5, <1>6 DEF Stream

-----------------------------------------------------------------------------
(* The other steps                                                         *)

LEMMA SaveStep ==
    ASSUME IInv, NEW h \in Handlers, Save(h)
    PROVE  IInv'
  BY EndStep DEF Save, Runs, Held, mail, bounds, IInv, TypeOK

LEMMA FailStep ==
    ASSUME IInv, NEW h \in Handlers, Fail(h)
    PROVE  IInv'
  <1>1. failures' \in Nat /\ signals' \in Nat /\ replies' \in Nat /\ questions' \in Nat
          /\ replied' \in Nat
    BY DEF Fail, mail, IInv, TypeOK
  <1> QED  BY <1>1, EndStep DEF Fail, mail

LEMMA ResumeStep ==
    ASSUME IInv, ResumeAfterTools(Resumer)
    PROVE  IInv'
  <1> DEFINE h == Resumer
             s == Resumed(Held(h))
  <1>1. Working(h) /\ h # Job
    BY PhasesAssumption DEF ResumeAfterTools, Runs, Working, Handlers
  <1>2. Made(h, s)
    <2>1. /\ work[h].state \in PhaseState /\ Coherent(work[h].state)
          /\ work[h].state.status = "waiting_tool"
      BY <1>1 DEF ResumeAfterTools, Runs, IInv, TypeOK, StateInv, Fits, Working
    <2> QED  BY <2>1, ResumedCoherent DEF Made, Held
  <1>3. \/ s.phase = "simple" /\ Goto(h, s, "stream") /\ Local
        \/ Goto(h, s, "save") /\ Local
        \/ (AllGroupsComplete(s) \/ GroupComplete(s.groups[s.index])) /\ GoOn(h, Advanced(s))
    BY DEF ResumeAfterTools
  <1> HIDE DEF s
  <1>4. CASE Goto(h, s, "stream") /\ Local
    <2>1. Ready(s, "stream")
      BY <1>2 DEF Made, Ready, Fits, Late, Saving, Method
    <2> QED  BY <1>1, <1>2, <1>4, <2>1, MadeStep
  <1>5. CASE Goto(h, s, "save") /\ Local
    <2>1. Ready(s, "save")
      BY <1>2 DEF Made, Ready, Fits, Late, Saving, Method
    <2> QED  BY <1>1, <1>2, <1>5, <2>1, MadeStep
  <1>6. CASE (AllGroupsComplete(s) \/ GroupComplete(s.groups[s.index])) /\ GoOn(h, Advanced(s))
    <2>1. Made(h, Advanced(s))
      BY <1>2, <1>6, AdvancedCoherent DEF Made
    <2> QED  BY <1>1, <1>6, <2>1, GoOnStep
  <1> QED  BY <1>3, <1>4, <1>5, <1>6

LEMMA RecheckStep ==
    ASSUME IInv, Recheck
    PROVE  IInv'
  <1> DEFINE s == work[Resumer].state
             m == IF s.pending \in results THEN "resume" ELSE "save"
  <1>1. /\ work[Resumer] # Nobody /\ work[Resumer].next = "recheck"
        /\ Resumer \in Handlers /\ Resumer # Job
    BY PhasesAssumption DEF Recheck, Runs, Handlers
  <1>2. s \in PhaseState /\ Coherent(s) /\ s.status = "waiting_tool"
    BY <1>1 DEF IInv, TypeOK, StateInv, Fits
  <1>3. Ready(s, m) /\ Suspended(s)
    BY <1>2 DEF Ready, Fits, Late, Saving, Method, Suspended
  <1>4. s.iteration \in Nat /\ calls \in Nat /\ questions \in Nat
    BY <1>2 DEF PhaseState, IInv, TypeOK
  <1>5. /\ Goto(Resumer, s, m) /\ snapshots' = snapshots \cup {s}
        /\ calls' = calls /\ questions' = questions /\ Quiet
    BY DEF Recheck, Held, Quiet, bounds
  <1>6. m \in {"save", "dispatch", "resume"} /\ m # "dispatch"
    OBVIOUS
  <1> HIDE DEF m
  <1> QED  BY <1>1, <1>3, <1>4, <1>5, <1>6, WaitStep

LEMMA HandleJobStep ==
    ASSUME IInv, HandleJob
    PROVE  IInv'
  <1> DEFINE s == InitialState
  <1>1. /\ snapshots = {} /\ \A h \in Handlers : work[h] = Nobody
        /\ ~requested' /\ Goto(Job, s, "triage")
        /\ UNCHANGED <<snapshots, lock, running, results, signals, replies, calls,
                       questions, replied, failures>>
    BY DEF HandleJob, IInv, JobInv, bounds
  <1>2. /\ s \in PhaseState /\ s.status = "running" /\ s.open = {} /\ DOMAIN s.groups = {}
    <2>1. <<>> \in Seq(Group) /\ 1 \in Nat \ {0} /\ DOMAIN <<>> = {}
      OBVIOUS
    <2>2. \A groups \in Seq(Group), index \in Nat \ {0} :
             [phase |-> "triage", resume |-> "none", status |-> "running",
              groups |-> groups, index |-> index, pending |-> 0, open |-> {}, evals |-> 0,
              draft |-> FALSE, iteration |-> 0] \in PhaseState
      BY DEF PhaseState, AgentPhase
    <2>3. s \in PhaseState
      BY <2>1, <2>2, Zenon DEF InitialState
    <2>4. s.groups = <<>> /\ s.status = "running" /\ s.open = {}
      BY DEF InitialState
    <2> QED  BY <2>1, <2>3, <2>4
  <1>3. Coherent(s) /\ Fits(s, "triage") /\ "triage" \in Method
    <2> HIDE DEF s
    <2> QED  BY <1>2 DEF Coherent, Fits, Late, Method, AgentPhase
  <1> HIDE DEF s
  <1>4. Job \in Handlers
    BY DEF Handlers
  <1>5. /\ work' \in [Handlers -> [state : PhaseState, next : Method] \cup {Nobody}]
        /\ work'[Job].state = s /\ work'[Job].next = "triage"
        /\ \A g \in Handlers \ {Job} : work'[g] = Nobody
    BY <1>1, <1>2, <1>3, <1>4, GotoWork DEF IInv
  <1>6. TypeOK'
    BY <1>1, <1>5 DEF IInv, TypeOK, HandleJob
  <1>7. StateInv'
    BY <1>1, <1>3, <1>5 DEF IInv, StateInv
  <1>8. \A g \in Others : work'[g] = Nobody
    BY <1>5, PhasesAssumption DEF Others, Handlers
  <1>9. JobInv'
    BY <1>1, <1>5, <1>8 DEF JobInv, OthersIdle
  <1>10. LockInv'
    BY <1>8 DEF LockInv
  <1>11. CallInv'
    BY <1>1, <1>5 DEF IInv, CallInv, Runs, Held
  <1>12. EndInv'
    BY <1>1, <1>5 DEF EndInv, Saving
  <1> QED  BY <1>6, <1>7, <1>9, <1>10, <1>11, <1>12 DEF IInv

\* A step that leaves the handlers and what is saved alone.
LEMMA IdleStep ==
    ASSUME IInv, UNCHANGED <<snapshots, work, lock, requested, calls, questions, failures>>,
           {signals, replies, replied}' \subseteq Nat,
           running' \cup results' = running \cup results
    PROVE  IInv'
  <1>1. TypeOK'
    BY DEF IInv, TypeOK
  <1>2. StateInv'
    BY DEF IInv, StateInv
  <1>3. JobInv'
    BY DEF IInv, JobInv, OthersIdle
  <1>4. LockInv' /\ CallInv' /\ EndInv'
    BY DEF IInv, LockInv, CallInv, EndInv, Outranks, OthersIdle, Runs, Held
  <1> QED  BY <1>1, <1>2, <1>3, <1>4 DEF IInv

LEMMA FinishToolStep ==
    ASSUME IInv, NEW c \in running, FinishTool(c)
    PROVE  IInv'
  BY IdleStep DEF FinishTool, bounds, IInv, TypeOK

LEMMA ReplyStep ==
    ASSUME IInv, Reply
    PROVE  IInv'
  BY IdleStep DEF Reply, IInv, TypeOK

LEMMA HandleResumeStep ==
    ASSUME IInv, HandleResume
    PROVE  IInv'
  <1>1. signals' \in Nat /\ replies' \in Nat
    BY DEF HandleResume, IInv, TypeOK
  <1>2. ASSUME NEW s \in Latest \cap ToolsReady, Start(Resumer, s, "resume")
        PROVE  IInv'
    <2>1. s \in snapshots /\ s.status = "waiting_tool" /\ s.pending \in results
      BY DEF ToolsReady
    <2>2. Ready(s, "resume")
      BY <2>1 DEF IInv, TypeOK, StateInv, Ready, Fits, Late, Saving, Method
    <2>3. s.iteration \in Nat
      BY <2>2 DEF Ready, PhaseState
    <2> QED  BY <1>1, <1>2, <2>1, <2>2, <2>3, StartStep DEF Suspended, Others
  <1>3. CASE Drop(Resumer, ToolsReady)
    BY <1>1, <1>3, IdleStep DEF Drop, bounds, IInv, TypeOK
  <1> QED  BY <1>2, <1>3 DEF HandleResume

LEMMA HandleUserResponseStep ==
    ASSUME IInv, HandleUserResponse
    PROVE  IInv'
  <1>1. signals' \in Nat /\ replies' \in Nat
    BY DEF HandleUserResponse, IInv, TypeOK
  <1>2. ASSUME NEW s \in Latest \cap UserReady,
               Start(Responder, Answered(s),
                     IF s.resume = "simple" THEN "stream" ELSE Answered(s).phase)
        PROVE  IInv'
    <2> DEFINE m == IF s.resume = "simple" THEN "stream" ELSE Answered(s).phase
    <2>1. s \in PhaseState /\ Coherent(s) /\ s.status = "waiting_user"
      BY DEF UserReady, IInv, TypeOK, StateInv
    <2>2. Ready(Answered(s), m) /\ Answered(s).iteration = s.iteration
      BY <2>1, AnsweredReady
    <2>3. m \notin Saving
      <3>1. Answered(s) \in PhaseState
        BY <2>2 DEF Ready
      <3> QED  BY <3>1 DEF PhaseState, AgentPhase, Saving
    <2>4. Answered(s).status = "running" /\ s.iteration \in Nat
      BY <2>1, <2>2, <2>3 DEF Ready, Fits, PhaseState
    <2>5. Suspended(s) /\ Responder \in Others
      BY <2>1 DEF Suspended, Others
    <2>6. Start(Responder, Answered(s), m)
      BY <1>2
    <2> HIDE DEF m
    <2> QED  BY <1>1, <2>1, <2>2, <2>3, <2>4, <2>5, <2>6, StartStep DEF Saving
  <1>3. CASE Drop(Responder, UserReady)
    BY <1>1, <1>3, IdleStep DEF Drop, bounds, IInv, TypeOK
  <1> QED  BY <1>2, <1>3 DEF HandleUserResponse

LEMMA InitIInv ==
    ASSUME Init
    PROVE  IInv
  <1>1. TypeOK
    BY DEF Init, TypeOK
  <1>2. StateInv /\ JobInv /\ LockInv /\ CallInv /\ EndInv
    BY DEF Init, StateInv, JobInv, LockInv, CallInv, EndInv, Handlers, Others, Runs
  <1> QED  BY <1>1, <1>2 DEF IInv

LEMMA NextIInv ==
    ASSUME IInv, [Next]_vars
    PROVE  IInv'
  <1>1. CASE UNCHANGED vars
    BY <1>1, IdleStep DEF vars, mail, bounds, IInv, TypeOK
  <1>2. CASE HandleJob
    BY <1>2, HandleJobStep
  <1>3. CASE HandleResume
    BY <1>3, HandleResumeStep
  <1>4. CASE HandleUserResponse
    BY <1>4, HandleUserResponseStep
  <1>5. ASSUME NEW h \in Handlers, RunPhase(h)
        PROVE  IInv'
    BY <1>5, TriageStep, DecomposeStep, ExecuteStep, SynthesizeStep, EvaluateStep,
       RespondStep, StreamStep, DispatchStep, SaveStep, FailStep DEF RunPhase
  <1>6. CASE ResumeAfterTools(Resumer)
    BY <1>6, ResumeStep
  <1>7. CASE Recheck
    BY <1>7, RecheckStep
  <1>8. ASSUME NEW c \in running, FinishTool(c)
        PROVE  IInv'
    BY <1>8, FinishToolStep
  <1>9. CASE Reply
    BY <1>9, ReplyStep
  <1> QED
    BY <1>1, <1>2, <1>3, <1>4, <1>5, <1>6, <1>7, <1>8, <1>9 DEF Next

LEMMA Invariant == Spec => []IInv
  <1>1. Init => IInv
    BY InitIInv
  <1>2. IInv /\ [Next]_vars => IInv'
    BY NextIInv
  <1> QED  BY <1>1, <1>2, PTL DEF Spec

-----------------------------------------------------------------------------
(* Theorems                                                                *)

\* Every state saved or worked on, by whichever handler, has the shape that the
\* engine's dataclass gives it, and the counters and mail stay numbers.
THEOREM TypeCorrect == Spec => []TypeOK
  <1>1. IInv => TypeOK
    BY DEF IInv
  <1> QED  BY <1>1, Invariant, PTL

\* Whatever was planned, added by an evaluation, answered or loaded again: the
\* findings are combined only when every group has run to its end, since a
\* handler comes to the synthesis only with the index past them all.
THEOREM SynthesisIsComplete == Spec => []SynthesisCoversPlan
  <1>1. IInv => SynthesisCoversPlan
    <2>1. SUFFICES ASSUME IInv, NEW h \in Handlers, Runs(h, "synthesize"),
                          NEW i \in DOMAIN Held(h).groups
                   PROVE  GroupComplete(Held(h).groups[i])
      BY DEF SynthesisCoversPlan
    <2>2. Made(h, Held(h)) /\ AllGroupsComplete(Held(h))
      BY <2>1, AtPhase DEF Runs, Held, Saving, Fits, Late
    <2>3. Held(h).groups \in Seq(Group) /\ Held(h).index \in Nat
      BY <2>2 DEF Made, PhaseState
    <2>4. i < Held(h).index
      BY <2>1, <2>2, <2>3, LenProperties DEF AllGroupsComplete
    <2> QED  BY <2>1, <2>2, <2>4 DEF Made, Coherent
  <1> QED  BY <1>1, Invariant, PTL

\* The conversation handed to the streaming LLM has an answer to each tool call
\* in it: the one call that can be open belongs to a state that waits for it.
THEOREM NothingOpen == Spec => []ConversationAnswered
  <1>1. IInv => ConversationAnswered
    <2>1. SUFFICES ASSUME IInv, NEW h \in Handlers, Runs(h, "stream")
                   PROVE  Held(h).open = {}
      BY DEF ConversationAnswered
    <2>2. Made(h, Held(h))
      BY <2>1, AtPhase DEF Runs, Held, Saving
    <2> QED  BY <2>2 DEF Made, Coherent
  <1> QED  BY <1>1, Invariant, PTL

\* A step that works is the working handler's own.
LEMMA OwnStep ==
    ASSUME IInv, NEW h \in Handlers, RunPhase(h) \/ (h = Resumer /\ (ResumeAfterTools(h) \/ Recheck))
    PROVE  work[h] # Nobody /\ \A g \in Handlers \ {h} : work'[g] = work[g]
  <1>1. work \in [Handlers -> [state : PhaseState, next : Method] \cup {Nobody}]
    BY DEF IInv, TypeOK
  <1>2. work[h] # Nobody
    BY DEF RunPhase, Triage, Decompose, Execute, Synthesize, Evaluate, Respond, Stream,
           Dispatch, Save, Fail, ResumeAfterTools, Recheck, Runs
  <1>3. \E new : work' = [work EXCEPT ![h] = new]
    <2>1. \A s, m : Goto(h, s, m) => \E new : work' = [work EXCEPT ![h] = new]
      BY DEF Goto
    <2>2. \A s : AskUser(h, s) \/ Suspend(h, s) => \E new : work' = [work EXCEPT ![h] = new]
      BY <2>1 DEF AskUser, Suspend
    <2>3. \A s, phase : Transition(h, s, phase) => \E new : work' = [work EXCEPT ![h] = new]
      BY <2>1, <2>2 DEF Transition
    <2>4. \A s : GoOn(h, s) => \E new : work' = [work EXCEPT ![h] = new]
      BY <2>1, <2>3 DEF GoOn
    <2>5. CASE Triage(h) \/ Decompose(h) \/ Execute(h) \/ Synthesize(h)
      BY <2>1, <2>2, <2>3, <2>4, <2>5 DEF Triage, Decompose, Execute, Synthesize
    <2>6. CASE Evaluate(h) \/ Respond(h) \/ Stream(h) \/ Dispatch(h)
      BY <2>1, <2>2, <2>3, <2>6 DEF Evaluate, Respond, Stream, Dispatch
    <2>7. CASE Save(h) \/ Fail(h)
      BY <2>7 DEF Save, Fail
    <2>8. CASE h = Resumer /\ (ResumeAfterTools(h) \/ Recheck)
      BY <2>1, <2>4, <2>8 DEF ResumeAfterTools, Recheck
    <2> QED  BY <2>5, <2>6, <2>7, <2>8 DEF RunPhase
  <1> QED  BY <1>1, <1>2, <1>3

\* A job whose final answer was streamed is never taken up again, by a late or
\* repeated signal or response: its snapshot outranks all that wait.
THEOREM EndedIsLeftAlone == Spec => NoWorkAfterEnd
  <1> DEFINE Left == \A h \in Handlers :
                        work[h] = Nobody /\ (\E s \in snapshots : Streamed(s)) =>
                            work'[h] = Nobody
  <1>1. IInv /\ [Next]_vars => [Left]_vars
    <2>1. SUFFICES ASSUME IInv, Next,
                          NEW h \in Handlers, work[h] = Nobody,
                          NEW end \in snapshots, Streamed(end)
                   PROVE  work'[h] = Nobody
      OBVIOUS
    <2>2. \A s \in Latest : ~Suspended(s)
      <3>1. SUFFICES ASSUME NEW s \in Latest, Suspended(s)
                     PROVE  FALSE
        OBVIOUS
      <3>2. s.iteration \in Nat /\ end.iteration \in Nat
        BY <2>1, <3>1 DEF IInv, TypeOK, PhaseState, Latest
      <3>3. s.iteration < end.iteration
        BY <2>1, <3>1 DEF IInv, EndInv, Outranks, Latest
      <3>4. end.iteration <= s.iteration
        BY <2>1, <3>1 DEF Latest
      <3> QED  BY <3>2, <3>3, <3>4
    <2>3. CASE HandleJob
      BY <2>1, <2>3 DEF HandleJob, IInv, JobInv
    <2>4. CASE HandleResume
      <3>1. UNCHANGED work
        BY <2>2, <2>4 DEF HandleResume, Drop, ToolsReady, Suspended
      <3> QED  BY <2>1, <3>1
    <2>5. CASE HandleUserResponse
      <3>1. UNCHANGED work
        BY <2>2, <2>5 DEF HandleUserResponse, Drop, UserReady, Suspended
      <3> QED  BY <2>1, <3>1
    <2>6. ASSUME NEW g \in Handlers, RunPhase(g)
          PROVE  work'[h] = Nobody
      BY <2>1, <2>6, OwnStep
    <2>7. CASE ResumeAfterTools(Resumer) \/ Recheck
      <3>1. Resumer \in Handlers
        BY DEF Handlers
      <3> QED  BY <2>1, <2>7, <3>1, OwnStep
    <2>8. CASE (\E c \in running : FinishTool(c)) \/ Reply
      BY <2>1, <2>8 DEF FinishTool, Reply
    <2> QED  BY <2>1, <2>3, <2>4, <2>5, <2>6, <2>7, <2>8 DEF Next
  <1> QED  BY <1>1, Invariant, PTL DEF Spec, NoWorkAfterEnd
=============================================================================
