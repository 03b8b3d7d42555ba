-------------------------------- MODULE Archiver --------------------------------
(***************************************************************************)
(* The archiver service on the event stream of one job.                    *)
(*                                                                         *)
(* Each instance has a reader, which takes new entries from the stream's   *)
(* consumer group, puts them one by one into the writer's buffer and       *)
(* acknowledges each, and a writer, which moves the buffer into PostgreSQL *)
(* when it holds batch_size events (the reader does it), every             *)
(* flush_interval (the timer task does it) and at shutdown.  A write is a  *)
(* transaction that reads the last row and then numbers its own rows.      *)
(*                                                                         *)
(* Entry ids are positions in the stream.  The writer's lock is held by    *)
(* the task named in flusher while a transaction is open.                  *)
(***************************************************************************)
EXTENDS Naturals, Sequences, FiniteSets

CONSTANTS
    Instances,   \* archiver processes
    Entries,     \* the number of events the job publishes
    RowEvents,   \* ids of message, tool_call and tool_result events
    StartEvents, \* ids of start events
    EndEvents,   \* ids of complete, error and cancelled events
    BatchSize,   \* batch_size: of a read and of a flush
    MaxTroubles, \* bound: failing calls, crashes and shutdowns
    MaxSaves,    \* bound: other services' updates of the job's status
    Nobody       \* the writer's lock is free

Tasks == {"reader", "timer", "main"}

ASSUME EntriesAssumption ==
    /\ Entries \in Nat
    /\ RowEvents \subseteq 1..Entries
    /\ StartEvents \subseteq 1..Entries /\ EndEvents \subseteq 1..Entries
    /\ RowEvents \cap (StartEvents \cup EndEvents) = {}
    /\ StartEvents \cap EndEvents = {}

ASSUME LimitsAssumption ==
    /\ IsFiniteSet(Instances)
    /\ Nobody \notin Tasks
    /\ BatchSize \in Nat \ {0}
    /\ MaxTroubles \in Nat /\ MaxSaves \in Nat

VARIABLES
    len,       \* length of the stream
    delivered, \* last-delivered id of the consumer group
    pending,   \* entries delivered and not acknowledged
    up,        \* up[a]: "running", "stopping", "flushing" or "down"
    batch,     \* batch[a]: what the reader has read and not put away
    buffered,  \* buffered[a]: the head of batch[a] is in the buffer
    buffer,    \* buffer[a]: the writer's _buffer
    flusher,   \* flusher[a]: the task inside _flush_buffer, or Nobody
    stage,     \* stage[a]: the next statement of its transaction
    events,    \* events[a]: the events it is writing
    base,      \* base[a]: MAX(sequence_num) as it read it
    loaded,    \* loaded[a]: the job's status as it loaded it
    rows,      \* the rows of chat_messages
    status,    \* jobs.status, which the orchestrator and the gateway write too
    failures, stops, saves,
    \* history, read by properties only
    commits,   \* the committed transactions in order
    unsure,    \* entries of transactions that were committed and then retried
    lost,      \* entries no instance will archive any more
    reopened   \* a service's save took back the end of the job

group == <<delivered, pending>>
reading == <<batch, buffered>>
writing == <<flusher, stage, events, base, loaded>>
database == <<rows, status, commits>>
budgets == <<failures, stops, saves>>
history == <<unsure, lost, reopened>>
vars == <<len, group, up, reading, buffer, writing, database, budgets, history>>

Init ==
    /\ len = 0
    /\ delivered = 0
    /\ pending = {}
    /\ up = [a \in Instances |-> "running"]
    /\ batch = [a \in Instances |-> <<>>]
    /\ buffered = [a \in Instances |-> FALSE]
    /\ buffer = [a \in Instances |-> <<>>]
    /\ flusher = [a \in Instances |-> Nobody]
    /\ stage = [a \in Instances |-> "max"]
    /\ events = [a \in Instances |-> <<>>]
    /\ base = [a \in Instances |-> 0]
    /\ loaded = [a \in Instances |-> "pending"]
    /\ rows = {}
    /\ status = "pending"
    /\ failures = 0
    /\ stops = 0
    /\ saves = 0
    /\ commits = <<>>
    /\ unsure = {}
    /\ lost = {}
    /\ reopened = FALSE

\* The orchestrator appends the job's next event.
Produce ==
    /\ len < Entries
    /\ len' = len + 1
    /\ UNCHANGED <<group, up, reading, buffer, writing, database, budgets, history>>

Status == {"pending", "running", "ended"}

\* The job's row is updated by another service: the orchestrator saves the state a
\* handler returned with, waiting for tools as running, and the gateway cancels.
\* None of them looks at the status it replaces.
SaveJob(s) ==
    /\ s # status
    /\ saves < MaxSaves
    /\ saves' = saves + 1
    /\ status' = s
    /\ reopened' = (reopened \/ status = "ended")
    /\ UNCHANGED <<len, group, up, reading, buffer, writing, rows, commits, failures,
                   stops, unsure, lost>>

-----------------------------------------------------------------------------
(* RedisStreamReader                                                       *)

\* XREADGROUP with ">": entries that no member was given, never pending ones.
ReadGroup(a) ==
    /\ up[a] = "running"
    /\ batch[a] = <<>>
    /\ delivered < len
    /\ LET n == IF len - delivered < BatchSize THEN len - delivered ELSE BatchSize IN
         /\ batch' = [batch EXCEPT ![a] = [i \in 1..n |-> delivered + i]]
         /\ delivered' = delivered + n
         /\ pending' = pending \cup delivered + 1 .. delivered + n
    /\ UNCHANGED <<len, up, buffered, buffer, writing, database, budgets, history>>

\* add_event takes the writer's lock, and flushes a full buffer under it.
AddEvent(a) ==
    /\ batch[a] # <<>>
    /\ ~buffered[a]
    /\ flusher[a] = Nobody
    /\ LET b == Append(buffer[a], Head(batch[a])) IN
         IF Len(b) >= BatchSize
         THEN /\ flusher' = [flusher EXCEPT ![a] = "reader"]
              /\ events' = [events EXCEPT ![a] = b]
              /\ buffer' = [buffer EXCEPT ![a] = <<>>]
         ELSE /\ buffer' = [buffer EXCEPT ![a] = b]
              /\ UNCHANGED <<flusher, events>>
    /\ buffered' = [buffered EXCEPT ![a] = TRUE]
    /\ UNCHANGED <<len, group, up, batch, stage, base, loaded, database, budgets,
                   history>>

\* The entry is acknowledged once it is in the buffer, archived or not.
Ack(a) ==
    /\ buffered[a]
    /\ flusher[a] # "reader"
    /\ pending' = pending \ {Head(batch[a])}
    /\ batch' = [batch EXCEPT ![a] = Tail(@)]
    /\ buffered' = [buffered EXCEPT ![a] = FALSE]
    /\ UNCHANGED <<len, delivered, up, buffer, writing, database, budgets, history>>

IdsIn(s) == {s[i] : i \in 1..Len(s)}

\* What the reader holds outside the writer.
Unbuffered(a) == IdsIn(IF buffered[a] THEN Tail(batch[a]) ELSE batch[a])

\* XACK or the answer of XREADGROUP fails: start() logs it and the rest of the
\* batch, still pending in the group, is never read again.
ReaderFails(a) ==
    /\ batch[a] # <<>>
    /\ flusher[a] # "reader"
    /\ failures + stops < MaxTroubles
    /\ failures' = failures + 1
    /\ lost' = lost \cup Unbuffered(a)
    /\ batch' = [batch EXCEPT ![a] = <<>>]
    /\ buffered' = [buffered EXCEPT ![a] = FALSE]
    /\ UNCHANGED <<len, group, up, buffer, writing, database, stops, saves, unsure,
                   reopened>>

-----------------------------------------------------------------------------
(* PostgresWriter                                                          *)

\* _flush_buffer entered by task t: the buffer is copied and cleared.
StartFlush(a, t) ==
    /\ flusher[a] = Nobody
    /\ buffer[a] # <<>>
    /\ flusher' = [flusher EXCEPT ![a] = t]
    /\ events' = [events EXCEPT ![a] = buffer[a]]
    /\ buffer' = [buffer EXCEPT ![a] = <<>>]

\* Mutant: the timer flushes full buffers only.
FlushFullBuffer(a) ==
    /\ up[a] \in {"running", "stopping"}
    /\ Len(buffer[a]) >= BatchSize
    /\ StartFlush(a, "timer")
    /\ UNCHANGED <<len, group, up, reading, stage, base, loaded, database, budgets,
                   history>>

PeriodicFlush(a) ==
    /\ up[a] \in {"running", "stopping"}
    /\ StartFlush(a, "timer")
    /\ UNCHANGED <<len, group, up, reading, stage, base, loaded, database, budgets,
                   history>>

\* Mutant: rows are numbered by their place in the stream.
StreamPosition(a) == delivered

LastSeq(a) ==
    IF rows = {} THEN 0
    ELSE CHOOSE n \in {r.seq : r \in rows} : \A r \in rows : r.seq <= n

ReadMax(a) ==
    /\ flusher[a] # Nobody
    /\ stage[a] = "max"
    /\ base' = [base EXCEPT ![a] = LastSeq(a)]
    /\ stage' = [stage EXCEPT ![a] = "job"]
    /\ UNCHANGED <<len, group, up, reading, buffer, flusher, events, loaded, database,
                   budgets, history>>

LoadJob(a) ==
    /\ flusher[a] # Nobody
    /\ stage[a] = "job"
    /\ loaded' = [loaded EXCEPT ![a] = status]
    /\ stage' = [stage EXCEPT ![a] = "commit"]
    /\ UNCHANGED <<len, group, up, reading, buffer, flusher, events, base, database,
                   budgets, history>>

\* Where the events for E are in the transaction of a.
Places(a, E) == {i \in 1..Len(events[a]) : events[a][i] \in E}

\* Each message takes the next number.
NewRows(a) ==
    {[entry |-> events[a][i],
      seq |-> base[a] + Cardinality(Places(a, RowEvents) \cap 1..i),
      by |-> a] : i \in Places(a, RowEvents)}

\* The status the last start or end leaves in the Job object loaded before.
NewStatus(a) ==
    LET changes == Places(a, StartEvents \cup EndEvents)
        last == CHOOSE i \in changes : \A j \in changes : j <= i
    IN IF changes = {} THEN loaded[a]
       ELSE IF events[a][last] \in StartEvents THEN "running" ELSE "ended"

\* Mutant: the row is written whether the object changed or not.
ApplyAlways(a) ==
    /\ rows' = rows \cup NewRows(a)
    /\ status' = NewStatus(a)
    /\ commits' = Append(commits, [by |-> a, events |-> events[a]])

\* COMMIT: the new rows, and the status if the object changed: from one kind of
\* end to another, too.
Apply(a) ==
    /\ rows' = rows \cup NewRows(a)
    /\ \/ NewStatus(a) # loaded[a] /\ status' = NewStatus(a)
       \/ NewStatus(a) = loaded[a] /\ status' = status
       \/ NewStatus(a) = "ended" /\ Places(a, EndEvents) # {} /\ status' = "ended"
    /\ commits' = Append(commits, [by |-> a, events |-> events[a]])

EndFlush(a) ==
    /\ flusher' = [flusher EXCEPT ![a] = Nobody]
    /\ stage' = [stage EXCEPT ![a] = "max"]
    /\ events' = [events EXCEPT ![a] = <<>>]
    /\ base' = [base EXCEPT ![a] = 0]
    /\ loaded' = [loaded EXCEPT ![a] = "pending"]

Commit(a) ==
    /\ flusher[a] # Nobody
    /\ stage[a] = "commit"
    /\ Apply(a)
    /\ EndFlush(a)
    /\ UNCHANGED <<len, group, up, reading, buffer, budgets, history>>

\* Mutant: a failed batch is dropped.
DropBatch(a) == buffer' = buffer

\* The events of a failed write go back into the buffer.
PutBack(a) == buffer' = [buffer EXCEPT ![a] = @ \o events[a]]

\* A transaction that raises may have been committed all the same.
WriteFails(a) ==
    /\ flusher[a] # Nobody
    /\ failures + stops < MaxTroubles
    /\ failures' = failures + 1
    /\ \/ UNCHANGED <<database, unsure>>
       \/ /\ stage[a] = "commit"
          /\ Apply(a)
          /\ unsure' = unsure \cup IdsIn(events[a])
    /\ PutBack(a)
    /\ EndFlush(a)
    /\ UNCHANGED <<len, group, up, reading, stops, saves, lost, reopened>>

-----------------------------------------------------------------------------
(* main(): shutdown; crashes.                                              *)

\* SIGTERM: the reader ends after the batch it is in.
StopReader(a) ==
    /\ up[a] = "running"
    /\ failures + stops < MaxTroubles
    /\ stops' = stops + 1
    /\ up' = [up EXCEPT ![a] = "stopping"]
    /\ UNCHANGED <<len, group, reading, buffer, writing, database, failures, saves,
                   history>>

\* writer.stop() cancels the timer task.  In a flush the CancelledError passes
\* _flush_buffer's "except Exception": the batch is gone, unless its COMMIT had
\* already gone through.
CancelTimer(a) ==
    /\ up[a] = "stopping"
    /\ batch[a] = <<>>
    /\ up' = [up EXCEPT ![a] = "flushing"]
    /\ IF flusher[a] = "timer"
       THEN /\ \/ lost' = lost \cup IdsIn(events[a]) /\ UNCHANGED database
               \/ stage[a] = "commit" /\ Apply(a) /\ UNCHANGED lost
            /\ EndFlush(a)
       ELSE UNCHANGED <<writing, database, lost>>
    /\ UNCHANGED <<len, group, reading, buffer, budgets, unsure, reopened>>

\* The last flush of stop(): once.
FinalFlush(a) ==
    /\ up[a] = "flushing"
    /\ StartFlush(a, "main")
    /\ up' = [up EXCEPT ![a] = "exiting"]
    /\ UNCHANGED <<len, group, reading, stage, base, loaded, database, budgets, history>>

Exit(a) ==
    /\ \/ up[a] = "flushing" /\ buffer[a] = <<>>
       \/ up[a] = "exiting"
    /\ flusher[a] = Nobody
    /\ up' = [up EXCEPT ![a] = "down"]
    /\ lost' = lost \cup IdsIn(buffer[a])
    /\ buffer' = [buffer EXCEPT ![a] = <<>>]
    /\ UNCHANGED <<len, group, reading, writing, database, budgets, unsure, reopened>>

Crash(a) ==
    /\ up[a] # "down"
    /\ failures + stops < MaxTroubles
    /\ failures' = failures + 1
    /\ up' = [up EXCEPT ![a] = "down"]
    /\ LET rest == Unbuffered(a) \cup IdsIn(buffer[a]) IN
         \/ lost' = lost \cup rest \cup IdsIn(events[a]) /\ UNCHANGED database
         \/ stage[a] = "commit" /\ Apply(a) /\ lost' = lost \cup rest
    /\ batch' = [batch EXCEPT ![a] = <<>>]
    /\ buffered' = [buffered EXCEPT ![a] = FALSE]
    /\ buffer' = [buffer EXCEPT ![a] = <<>>]
    /\ EndFlush(a)
    /\ UNCHANGED <<len, group, stops, saves, unsure, reopened>>

Restart(a) ==
    /\ up[a] = "down"
    /\ up' = [up EXCEPT ![a] = "running"]
    /\ UNCHANGED <<len, group, reading, buffer, writing, database, budgets, history>>

-----------------------------------------------------------------------------
Reader(a) == ReadGroup(a) \/ AddEvent(a) \/ Ack(a)
Writer(a) == ReadMax(a) \/ LoadJob(a) \/ Commit(a)
Shutdown(a) == CancelTimer(a) \/ FinalFlush(a) \/ Exit(a)

Next ==
    \/ Produce
    \/ \E s \in Status : SaveJob(s)
    \/ \E a \in Instances :
         \/ Reader(a) \/ Writer(a) \/ PeriodicFlush(a) \/ Shutdown(a)
         \/ StopReader(a) \/ ReaderFails(a) \/ WriteFails(a)
         \/ Crash(a) \/ Restart(a)

Spec == Init /\ [][Next]_vars

\* The tasks of an instance run on, and the timer flushes every interval.
FairSpec ==
    /\ Spec
    /\ \A a \in Instances :
         /\ WF_vars(Reader(a)) /\ WF_vars(Writer(a))
         /\ WF_vars(Shutdown(a)) /\ WF_vars(PeriodicFlush(a))

-----------------------------------------------------------------------------
(* Properties                                                              *)

Row == [entry : RowEvents, seq : Nat, by : Instances]

TypeOK ==
    /\ len \in 0..Entries /\ delivered \in 0..len
    /\ up \in [Instances -> {"running", "stopping", "flushing", "exiting", "down"}]
    /\ batch \in [Instances -> Seq(Nat)]
    /\ buffered \in [Instances -> BOOLEAN]
    /\ buffer \in [Instances -> Seq(Nat)]
    /\ flusher \in [Instances -> Tasks \cup {Nobody}]
    /\ stage \in [Instances -> {"max", "job", "commit"}]
    /\ events \in [Instances -> Seq(Nat)]
    /\ base \in [Instances -> Nat]
    /\ loaded \in [Instances -> Status]
    /\ rows \subseteq Row /\ status \in Status
    /\ failures \in Nat /\ stops \in Nat /\ saves \in Nat /\ reopened \in BOOLEAN
    /\ commits \in Seq([by : Instances, events : Seq(Nat)])

\* The transactions that archived entry e.
Archivings(e) == {k \in 1..Len(commits) : e \in IdsIn(commits[k].events)}

\* The instances whose reader, buffer or transaction holds e.
Carriers(e) == {a \in Instances : e \in Unbuffered(a)}
Bufferers(e) == {a \in Instances : e \in IdsIn(buffer[a])}
Writers(e) == {a \in Instances : e \in IdsIn(events[a])}

\* An entry that was delivered is with a reader, in a buffer, in a transaction, in
\* the database, or an instance crashed, failed or was stopped with it: in one of
\* these places and in no two, unless its transaction was committed and then
\* retried.
ArchivedOnce ==
    \A e \in 1..delivered :
        LET places == Cardinality(Carriers(e)) + Cardinality(Bufferers(e))
                        + Cardinality(Writers(e)) + Cardinality(Archivings(e))
                        + Cardinality({e} \cap lost)
        IN  places >= 1 /\ (e \notin unsure => places = 1)

\* MAX(sequence_num) + 1 leaves no hole, whatever other instances insert, and
\* numbers the messages one instance archives in the order of the stream.
NumberedInOrder ==
    /\ \A r \in rows : \A n \in 1 .. r.seq - 1 : \E s \in rows : s.seq = n
    /\ \A r, s \in rows :
           r.by = s.by /\ r.entry < s.entry /\ {r.entry, s.entry} \cap unsure = {}
           => r.seq < s.seq

\* A job whose start and end one instance archived is not left running: whatever
\* else was saved between a transaction's SELECT and its COMMIT, the archivers
\* record the end and never undo it.  A save that takes the end back afterwards is
\* another matter: SaveJob may come at any time, and nothing corrects it.
EndedStaysEnded ==
    ~reopened /\ (\E a \in Instances : \A e \in (StartEvents \cup EndEvents) :
        e \notin unsure /\ \E k \in Archivings(e) : commits[k].by = a)
    => status = "ended"

\* Again and again every event published so far is archived, or was lost as
\* above, or no instance runs.
EventuallyArchived ==
    []<>(\/ \A e \in 1..len : Archivings(e) # {} \/ e \in lost
         \/ \A a \in Instances : up[a] = "down")
=============================================================================
