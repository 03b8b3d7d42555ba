------------------------------ MODULE KafkaConsumer ------------------------------
(***************************************************************************)
(* The members of one consumer group on one partition.                     *)
(*                                                                         *)
(* Each member runs KafkaConsumer.run: it takes messages in order and      *)
(* starts a task for each, at most max_concurrent_messages at a time.  A   *)
(* task calls the handler and then commit(), which commits the position of *)
(* the whole iterator: siblings still at work included.  A handler that    *)
(* raises is logged as retried, which publishes nothing, and committed.    *)
(*                                                                         *)
(* The broker assigns the partition to one member, at the committed        *)
(* offset; tasks of an earlier assignment run on.                          *)
(***************************************************************************)
EXTENDS Naturals, FiniteSets

CONSTANTS
    Members,    \* processes of the group
    Messages,   \* messages in the partition
    MaxActive,  \* max_concurrent_messages
    Nobody,     \* the partition is not assigned
    MaxTroubles \* bound: crashes, shutdowns, rebalances and failing commits

ASSUME ConsumerAssumption ==
    /\ Nobody \notin Members
    /\ Messages \in Nat
    /\ MaxActive \in Nat \ {0}
    /\ MaxTroubles \in Nat

VARIABLES
    owner,     \* the member the partition is assigned to, or Nobody
    gen,       \* number of assignments so far
    committed, \* messages 1..committed are committed
    up,        \* up[m]: "running", "stopping" or "down"
    position,  \* position[m]: the last message its iterator gave it
    waiting,   \* waiting[m]: the task it will start when a slot is free, if any
    active,    \* active[m]: its _active_tasks
    troubles,
    \* history, read by properties only
    handled,   \* handled[i]: times a handler returned from message i
    failed,    \* messages whose handler raised
    dropped    \* messages a member held when it crashed or was stopped

broker == <<owner, gen, committed>>
loop == <<position, waiting, active>>
history == <<handled, failed, dropped>>
vars == <<broker, up, loop, troubles, history>>

Msgs == 1..Messages
Stages == {"handling", "commit", "recommit"}
Task == [msg : Msgs, gen : Nat, stage : Stages]

Init ==
    /\ owner = Nobody
    /\ gen = 0
    /\ committed = 0
    /\ up = [m \in Members |-> "running"]
    /\ position = [m \in Members |-> 0]
    /\ waiting = [m \in Members |-> {}]
    /\ active = [m \in Members |-> {}]
    /\ troubles = 0
    /\ handled = [i \in Msgs |-> 0]
    /\ failed = {}
    /\ dropped = {}

Trouble == troubles < MaxTroubles /\ troubles' = troubles + 1

-----------------------------------------------------------------------------
(* KafkaConsumer.run                                                       *)

Full(m) == Cardinality(active[m]) >= MaxActive

\* The iterator can give m its next message.
CanYield(m) ==
    /\ up[m] = "running"
    /\ owner = m
    /\ waiting[m] = {}
    /\ position[m] < Messages

\* The task of the message m is given next.
NextTask(m) == [msg |-> position[m] + 1, gen |-> gen, stage |-> "handling"]

Advance(m) == position' = [position EXCEPT ![m] = @ + 1]

\* Mutant: the position stays.
DeliverAgain(m) ==
    /\ CanYield(m)
    /\ ~Full(m)
    /\ active' = [active EXCEPT ![m] = @ \cup {NextTask(m)}]
    /\ UNCHANGED <<broker, up, position, waiting, troubles, history>>

Deliver(m) ==
    /\ CanYield(m)
    /\ ~Full(m)
    /\ Advance(m)
    /\ active' = [active EXCEPT ![m] = @ \cup {NextTask(m)}]
    /\ UNCHANGED <<broker, up, waiting, troubles, history>>

\* Mutant: a message that finds no free slot is not kept.
SkipAtLimit(m) ==
    /\ CanYield(m)
    /\ Full(m)
    /\ Advance(m)
    /\ UNCHANGED <<broker, up, waiting, active, troubles, history>>

\* The loop has taken the message and awaits a task's end.
DeliverAtLimit(m) ==
    /\ CanYield(m)
    /\ Full(m)
    /\ Advance(m)
    /\ waiting' = [waiting EXCEPT ![m] = {NextTask(m)}]
    /\ UNCHANGED <<broker, up, active, troubles, history>>

\* It goes on whoever the partition belongs to by now.
StartWaiting(m) ==
    /\ up[m] = "running"
    /\ waiting[m] # {}
    /\ ~Full(m)
    /\ active' = [active EXCEPT ![m] = @ \cup waiting[m]]
    /\ waiting' = [waiting EXCEPT ![m] = {}]
    /\ UNCHANGED <<broker, up, position, troubles, history>>

-----------------------------------------------------------------------------
(* _process_message                                                        *)

SetStage(m, t, stage) ==
    active' = [active EXCEPT ![m] = (@ \ {t}) \cup {[t EXCEPT !.stage = stage]}]

\* Mutant: the finished task stays in _active_tasks.
LeaveTask(m, t) == active' = active

\* The done callback discards the task.
EndTask(m, t) == active' = [active EXCEPT ![m] = @ \ {t}]

HandlerReturns(m, t) ==
    /\ t.stage = "handling"
    /\ handled' = [handled EXCEPT ![t.msg] = @ + 1]
    /\ SetStage(m, t, "commit")
    /\ UNCHANGED <<broker, up, position, waiting, troubles, failed, dropped>>

\* _retry_message sleeps and logs.
HandlerRaises(m, t) ==
    /\ t.stage = "handling"
    /\ failed' = failed \cup {t.msg}
    /\ SetStage(m, t, "recommit")
    /\ UNCHANGED <<broker, up, position, waiting, troubles, handled, dropped>>

\* Mutant: a member that lost the partition commits its position.
CommitUnowned(m, t) ==
    /\ t.stage \in {"commit", "recommit"}
    /\ committed' = position[m]
    /\ EndTask(m, t)
    /\ UNCHANGED <<owner, gen, up, position, waiting, troubles, history>>

\* commit(): the position of the assigned partition, if it still is.
Commit(m, t) ==
    /\ t.stage \in {"commit", "recommit"}
    /\ committed' = IF owner = m THEN position[m] ELSE committed
    /\ EndTask(m, t)
    /\ UNCHANGED <<owner, gen, up, position, waiting, troubles, history>>

\* A commit() that raises after the handler returned counts as an error of the
\* handler and is repeated; the second time the task ends with the exception.
CommitFails(m, t) ==
    /\ Trouble
    /\ \/ t.stage = "commit" /\ SetStage(m, t, "recommit")
       \/ t.stage = "recommit" /\ EndTask(m, t)
    /\ UNCHANGED <<broker, up, position, waiting, history>>

-----------------------------------------------------------------------------
(* The broker; shutdown, crash and restart of a member.                    *)

AssignTo(m) ==
    /\ up[m] = "running"
    /\ owner' = m
    /\ gen' = gen + 1
    /\ position' = [position EXCEPT ![m] = committed]

Assign(m) ==
    /\ owner = Nobody
    /\ AssignTo(m)
    /\ UNCHANGED <<committed, up, waiting, active, troubles, history>>

\* A member joined, or the owner was too slow to poll.
Rebalance(m) ==
    /\ owner # Nobody
    /\ Trouble
    /\ AssignTo(m)
    /\ UNCHANGED <<committed, up, waiting, active, history>>

MsgsOf(T) == {t.msg : t \in T}

\* Messages that are with m.
Held(m) == MsgsOf(active[m] \cup waiting[m])

\* SIGTERM cancels the loop, wherever it waits, and lets the tasks finish.
Shutdown(m) ==
    /\ up[m] = "running"
    /\ Trouble
    /\ up' = [up EXCEPT ![m] = "stopping"]
    /\ waiting' = [waiting EXCEPT ![m] = {}]
    /\ dropped' = dropped \cup MsgsOf(waiting[m])
    /\ UNCHANGED <<broker, position, active, handled, failed>>

LeaveGroup(m) == owner' = IF owner = m THEN Nobody ELSE owner

Exit(m) ==
    /\ up[m] = "stopping"
    /\ active[m] = {}
    /\ up' = [up EXCEPT ![m] = "down"]
    /\ LeaveGroup(m)
    /\ UNCHANGED <<gen, committed, loop, troubles, history>>

Crash(m) ==
    /\ up[m] # "down"
    /\ Trouble
    /\ up' = [up EXCEPT ![m] = "down"]
    /\ LeaveGroup(m)
    /\ waiting' = [waiting EXCEPT ![m] = {}]
    /\ active' = [active EXCEPT ![m] = {}]
    /\ dropped' = dropped \cup Held(m)
    /\ UNCHANGED <<gen, committed, position, handled, failed>>

Restart(m) ==
    /\ up[m] = "down"
    /\ up' = [up EXCEPT ![m] = "running"]
    /\ UNCHANGED <<broker, loop, troubles, history>>

-----------------------------------------------------------------------------
Process(m) ==
    \E t \in active[m] :
        HandlerReturns(m, t) \/ HandlerRaises(m, t) \/ Commit(m, t)

Run(m) == Deliver(m) \/ DeliverAtLimit(m) \/ StartWaiting(m)

Next ==
    \E m \in Members :
        \/ Run(m) \/ Process(m) \/ \E t \in active[m] : CommitFails(m, t)
        \/ Assign(m) \/ Rebalance(m)
        \/ Shutdown(m) \/ Exit(m) \/ Crash(m) \/ Restart(m)

Spec == Init /\ [][Next]_vars

\* The loops and the broker run on, and every handler returns or raises.
FairSpec ==
    /\ Spec
    /\ \A m \in Members : WF_vars(Run(m)) /\ WF_vars(Exit(m))
    /\ \A m \in Members, i \in Msgs, g \in 1 .. MaxTroubles + 1 :
         WF_vars(\E t \in active[m] :
                    /\ t.msg = i /\ t.gen = g
                    /\ HandlerReturns(m, t) \/ HandlerRaises(m, t) \/ Commit(m, t))
    /\ WF_vars(\E m \in Members : Assign(m))

-----------------------------------------------------------------------------
TypeOK ==
    /\ owner \in Members \cup {Nobody}
    /\ gen \in Nat
    /\ committed \in 0..Messages
    /\ up \in [Members -> {"running", "stopping", "down"}]
    /\ position \in [Members -> 0..Messages]
    /\ waiting \in [Members -> SUBSET Task]
    /\ active \in [Members -> SUBSET Task]
    /\ troubles \in Nat
    /\ handled \in [Msgs -> Nat]
    /\ failed \subseteq Msgs
    /\ dropped \subseteq Msgs

\* Message i is with a live member.
InProgress(i) == \E m \in Members : up[m] # "down" /\ i \in Held(m)

\* Every committed message was handled, failed, is with a live member, or was
\* with one that crashed or was stopped: commit() never skips a message that no
\* handler was given.
NothingSkipped ==
    \A i \in 1..committed :
        handled[i] > 0 \/ i \in failed \/ InProgress(i) \/ i \in dropped

\* The handlers at work on message i.
Handlers(i) ==
    {p \in Members \X UNION {active[m] : m \in Members} :
        p[2] \in active[p[1]] /\ p[2].msg = i /\ p[2].stage = "handling"}

\* Within one assignment a message is handled once: it is handled again only
\* after a rebalance.
OncePerAssignment ==
    \A i \in Msgs : handled[i] + Cardinality(Handlers(i)) <= gen

\* The committed offset never goes back, whatever tasks of earlier assignments
\* still do: a message committed once is not delivered again.
CommitsAdvance == [][committed' >= committed]_vars

\* No message is left without a handler's answer for good while a member runs,
\* unless it was lost with a crash or a shutdown.
EventuallyAnswered ==
    []<>(\/ \A i \in Msgs : handled[i] > 0 \/ i \in failed \/ i \in dropped
         \/ \A m \in Members : up[m] # "running")
=============================================================================
