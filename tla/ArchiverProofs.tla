--------------------------- MODULE ArchiverProofs ---------------------------
(***************************************************************************)
(* The rows that the archiver writes and the branch that is put together   *)
(* from them.                                                              *)
(*                                                                         *)
(* Archiver: where an entry is (ArchivedOnce), how its row is numbered     *)
(* (NumberedInOrder) and what becomes of the job's status                  *)
(* (EndedStaysEnded), for any instances and any crashes and failures.      *)
(* Two lemmas say once what every step can do: Effects to the entries,     *)
(* Transactions to the open transactions.  The invariants follow from      *)
(* these and not from the actions one by one.                              *)
(*                                                                         *)
(* Conversations: answers are shown in their place (AnswersInPlace), a     *)
(* request that was not disturbed sees what it has written                 *)
(* (OwnWriteShown) and answers move nobody to another branch               *)
(* (AnswersKeepBranch), for any number of clients, jobs and records.  The  *)
(* tree has a rank, so that the walk down it ends; the walk shows, below   *)
(* each job on its way, the one question that is picked there.             *)
(***************************************************************************)
EXTENDS Archiver, Conversations, FiniteSetTheorems, FunctionTheorems, SequenceTheorems,
        WellFoundedInduction, TLAPS

-----------------------------------------------------------------------------
(* Sequences of entries.                                                   *)

Increasing(s) == \A i, j \in 1..Len(s) : i < j => s[i] < s[j]

\* The ids in a sequence after each operation on it.
LEMMA NoIds == IdsIn(<<>>) = {} /\ Increasing(<<>>)
  BY DEF IdsIn, Increasing

LEMMA IdsAreNat ==
  ASSUME NEW s \in Seq(Nat)
  PROVE  IdsIn(s) \subseteq Nat
  BY LenProperties DEF IdsIn

LEMMA AppendIds ==
  ASSUME NEW s \in Seq(Nat), NEW e \in Nat
  PROVE  /\ Append(s, e) \in Seq(Nat)
         /\ IdsIn(Append(s, e)) = IdsIn(s) \cup {e}
         /\ Increasing(s) /\ (\A d \in IdsIn(s) : d < e) => Increasing(Append(s, e))
<1>1. /\ Append(s, e) \in Seq(Nat) /\ Len(s) \in Nat /\ Len(Append(s, e)) = Len(s) + 1
      /\ \A i \in 1..Len(s) : Append(s, e)[i] = s[i]
      /\ Append(s, e)[Len(s) + 1] = e
  BY AppendProperties, LenProperties
<1>2. 1..Len(s) + 1 = (1..Len(s)) \cup {Len(s) + 1}
  BY <1>1
<1>3. IdsIn(Append(s, e)) = IdsIn(s) \cup {e}
  BY <1>1, <1>2 DEF IdsIn
<1>4. ASSUME Increasing(s), \A d \in IdsIn(s) : d < e
      PROVE  Increasing(Append(s, e))
  BY <1>1, <1>4 DEF Increasing, IdsIn
<1> QED  BY <1>1, <1>3, <1>4

LEMMA TailIds ==
  ASSUME NEW s \in Seq(Nat), s # <<>>
  PROVE  /\ Head(s) \in Nat /\ Tail(s) \in Seq(Nat)
         /\ IdsIn(s) = {Head(s)} \cup IdsIn(Tail(s))
         /\ Increasing(s) => Increasing(Tail(s)) /\ \A e \in IdsIn(Tail(s)) : Head(s) < e
<1>1. /\ Head(s) = s[1] /\ Head(s) \in Nat /\ Tail(s) \in Seq(Nat) /\ Len(s) \in Nat
      /\ Len(s) >= 1 /\ Len(Tail(s)) = Len(s) - 1
      /\ \A i \in 1..Len(Tail(s)) : Tail(s)[i] = s[i + 1]
  BY HeadTailProperties, LenProperties, EmptySeq
<1>2. IdsIn(s) = {Head(s)} \cup IdsIn(Tail(s))
  <2>1. \A i \in 1..Len(s) : i = 1 \/ (i - 1 \in 1..Len(Tail(s)) /\ s[i] = Tail(s)[i - 1])
    BY <1>1
  <2>2. \A i \in 1..Len(Tail(s)) : i + 1 \in 1..Len(s) /\ Tail(s)[i] = s[i + 1]
    BY <1>1
  <2>3. 1 \in 1..Len(s)
    BY <1>1
  <2> QED  BY <1>1, <2>1, <2>2, <2>3 DEF IdsIn
<1>3. ASSUME Increasing(s)
      PROVE  Increasing(Tail(s)) /\ \A e \in IdsIn(Tail(s)) : Head(s) < e
  <2>1. \A i \in 1..Len(Tail(s)) : i + 1 \in 1..Len(s) /\ Tail(s)[i] = s[i + 1]
    BY <1>1
  <2>2. Increasing(Tail(s))
    BY <1>1, <1>3, <2>1 DEF Increasing
  <2>3. ASSUME NEW i \in 1..Len(Tail(s))  PROVE Head(s) < Tail(s)[i]
    BY <1>1, <1>3, <2>1 DEF Increasing
  <2> QED  BY <2>2, <2>3 DEF IdsIn
<1> QED  BY <1>1, <1>2, <1>3

LEMMA RunIds ==
  ASSUME NEW d \in Nat, NEW n \in Nat
  PROVE  LET s == [i \in 1..n |-> d + i]
         IN  /\ s \in Seq(Nat) /\ IdsIn(s) = d + 1 .. d + n /\ Increasing(s)
<1> DEFINE s == [i \in 1..n |-> d + i]
<1>1. s \in [1..n -> Nat]
  OBVIOUS
<1>2. s \in Seq(Nat)
  BY <1>1, SeqDef
<1>3. Len(s) = n
  BY <1>2, LenProperties, <1>1
<1>4. IdsIn(s) = d + 1 .. d + n
  <2>1. \A e \in d + 1 .. d + n : e - d \in 1..n /\ s[e - d] = e
    OBVIOUS
  <2>2. \A i \in 1..n : s[i] \in d + 1 .. d + n
    OBVIOUS
  <2> HIDE DEF s
  <2> QED  BY <1>3, <2>1, <2>2 DEF IdsIn
<1>5. Increasing(s)
  BY <1>3 DEF Increasing
<1> QED  BY <1>2, <1>4, <1>5

-----------------------------------------------------------------------------
(* The invariants.                                                         *)

\* Entries that instance a has and has not archived.
Held(a) == Unbuffered(a) \cup IdsIn(buffer[a]) \cup IdsIn(events[a])

\* A transaction is open while a task holds the lock, and the buffer stays empty
\* until it ends; the reader holds entries in order.
HolderInv ==
    \A a \in Instances :
        /\ flusher[a] = Nobody => events[a] = <<>> /\ stage[a] = "max"
        /\ flusher[a] # Nobody => buffer[a] = <<>>
        /\ buffered[a] => batch[a] # <<>>
        /\ Increasing(batch[a])

\* The rows have the numbers 1..m, and a transaction read none beyond.
NumbersInv ==
    \E m \in Nat : {r.seq : r \in rows} = 1..m /\ \A a \in Instances : base[a] \in 0..m

\* Instance a has e in one place.
Single(a, e) ==
    /\ ~(e \in Unbuffered(a) /\ e \in IdsIn(buffer[a]))
    /\ ~(e \in Unbuffered(a) /\ e \in IdsIn(events[a]))
    /\ ~(e \in IdsIn(buffer[a]) /\ e \in IdsIn(events[a]))

\* Transaction k archived e.
Archives(k, e) == e \in IdsIn(commits[k].events)

KnownInv ==
    /\ \A a \in Instances : Held(a) \subseteq 1..delivered
    /\ \A k \in 1..Len(commits) : IdsIn(commits[k].events) \subseteq 1..delivered
    /\ lost \subseteq 1..delivered /\ unsure \subseteq 1..delivered

\* Every delivered entry is somewhere, and in one place unless unsure.
SomewhereInv ==
    \A e \in 1..delivered :
        \/ \E a \in Instances : e \in Held(a)
        \/ \E k \in 1..Len(commits) : Archives(k, e)
        \/ e \in lost

OnePlaceInv ==
    \A e \in 1..delivered \ unsure :
        /\ \A a \in Instances : e \in Held(a) =>
               /\ Single(a, e)
               /\ \A b \in Instances : e \in Held(b) => b = a
               /\ \A k \in 1..Len(commits) : ~Archives(k, e)
               /\ e \notin lost
        /\ \A k \in 1..Len(commits) : Archives(k, e) =>
               /\ \A l \in 1..Len(commits) : Archives(l, e) => l = k
               /\ e \notin lost

\* An instance takes its entries through the buffer and the transactions in the
\* order of the stream.
OrderInv ==
    \A a \in Instances :
        /\ Increasing(buffer[a]) /\ Increasing(events[a])
        /\ \A e \in IdsIn(buffer[a]) \cup IdsIn(events[a]), f \in Unbuffered(a) : e < f
        /\ \A k \in 1..Len(commits) : commits[k].by = a =>
               \A e \in IdsIn(commits[k].events) \ unsure, f \in Held(a) : e < f

\* A row comes from a transaction of its instance, which numbers it beyond the
\* rows the instance inserted before.
RowInv ==
    /\ \A r \in rows : \E k \in 1..Len(commits) : commits[k].by = r.by /\ Archives(k, r.entry)
    /\ \A a \in Instances : stage[a] # "max" =>
           \A r \in rows : r.by = a => r.seq <= base[a]
    /\ \A r, s \in rows :
           r.by = s.by /\ r.entry < s.entry /\ {r.entry, s.entry} \cap unsure = {}
           => r.seq < s.seq

Changes == StartEvents \cup EndEvents
IsCommitted(e) == \E k \in 1..Len(commits) : Archives(k, e)

\* Only instance a archived starts and ends, and none was retried after its COMMIT.
OnlyBy(a) ==
    \A k \in 1..Len(commits) : \A e \in Changes :
        Archives(k, e) => commits[k].by = a /\ e \notin unsure

\* Then the job is ended if the last of them is an end, and an instance that
\* loaded an ended job may leave it so: unless another service took the end back.
StatusInv ==
    \A a \in Instances : OnlyBy(a) /\ ~reopened =>
        /\ (\E e \in EndEvents :
                IsCommitted(e) /\ \A f \in Changes : IsCommitted(f) => f <= e)
           => status = "ended"
        /\ stage[a] = "commit" /\ loaded[a] = "ended" => status = "ended"

-----------------------------------------------------------------------------
(* Types.                                                                  *)

\* A transaction writes rows and a status.
LEMMA ApplyType ==
  ASSUME TypeOK, NEW a \in Instances
  PROVE  NewRows(a) \subseteq Row /\ NewStatus(a) \in Status
<1>1. /\ events[a] \in Seq(Nat) /\ Len(events[a]) \in Nat /\ base[a] \in Nat
      /\ loaded[a] \in Status
  BY LenProperties DEF TypeOK
<1>2. ASSUME NEW i \in Places(a, RowEvents)
      PROVE  base[a] + Cardinality(Places(a, RowEvents) \cap 1..i) \in Nat
  <2>1. IsFiniteSet(1..Len(events[a]))
    BY <1>1, FS_Interval
  <2>2. IsFiniteSet(Places(a, RowEvents) \cap 1..i)
    BY <2>1, FS_Subset DEF Places
  <2>3. Cardinality(Places(a, RowEvents) \cap 1..i) \in Nat
    BY <2>2, FS_CardinalityType
  <2> QED  BY <1>1, <2>3
<1>3. \A i \in Places(a, RowEvents) : events[a][i] \in RowEvents
  BY DEF Places
<1>4. NewRows(a) \subseteq Row
  <2> SUFFICES ASSUME NEW i \in Places(a, RowEvents)
               PROVE  [entry |-> events[a][i],
                       seq |-> base[a] + Cardinality(Places(a, RowEvents) \cap 1..i),
                       by |-> a] \in Row
    BY DEF NewRows
  <2> QED  BY <1>2, <1>3 DEF Row
<1>5. NewStatus(a) \in Status
  BY <1>1, Zenon DEF NewStatus, Status
<1> QED  BY <1>4, <1>5

\* A COMMIT, and the end of a transaction.
LEMMA CommitType ==
  ASSUME TypeOK, NEW a \in Instances, Apply(a)
  PROVE  /\ rows' \subseteq Row /\ status' \in Status
         /\ commits' \in Seq([by : Instances, events : Seq(Nat)])
<1>1. [by |-> a, events |-> events[a]] \in [by : Instances, events : Seq(Nat)]
  BY DEF TypeOK
<1>2. commits' \in Seq([by : Instances, events : Seq(Nat)])
  BY <1>1, AppendProperties DEF Apply, TypeOK
<1> QED  BY <1>2, ApplyType DEF Apply, TypeOK

LEMMA EndFlushType ==
  ASSUME TypeOK, NEW a \in Instances, EndFlush(a)
  PROVE  /\ flusher' \in [Instances -> Tasks \cup {Nobody}]
         /\ stage' \in [Instances -> {"max", "job", "commit"}]
         /\ events' \in [Instances -> Seq(Nat)]
         /\ base' \in [Instances -> Nat]
         /\ loaded' \in [Instances -> Status]
<1>1. <<>> \in Seq(Nat)
  BY EmptySeq
<1> QED  BY <1>1 DEF EndFlush, TypeOK, Status

\* MAX(sequence_num).
LEMMA LastSeqIsMax ==
  ASSUME NEW m \in Nat, {r.seq : r \in rows} = 1..m, NEW a \in Instances
  PROVE  LastSeq(a) = m
<1>1. CASE rows = {}
  <2>1. 1..m = {}
    BY <1>1
  <2> QED  BY <1>1, <2>1 DEF LastSeq
<1>2. CASE rows # {}
  <2>1. 1..m # {}
    BY <1>2
  <2>2. m \in 1..m /\ \A r \in rows : r.seq \in 1..m
    BY <2>1
  <2>3. \E r \in rows : r.seq = m
    BY <2>2
  <2>4. \A n \in {r.seq : r \in rows} : (\A r \in rows : r.seq <= n) => n = m
    BY <2>2, <2>3
  <2> QED  BY <1>2, <2>2, <2>3, <2>4 DEF LastSeq
<1> QED  BY <1>1, <1>2

LEMMA ConcatType ==
  ASSUME NEW s \in Seq(Nat), NEW t \in Seq(Nat)
  PROVE  s \o t \in Seq(Nat)
  OBVIOUS

\* A read of the group returns the next entries, as many as there are at most.
ReadsNext(a, n) ==
    /\ n <= len - delivered
    /\ batch' = [batch EXCEPT ![a] = [i \in 1..n |-> delivered + i]]
    /\ delivered' = delivered + n

LEMMA ReadsNextBatch ==
  ASSUME TypeOK, NEW a \in Instances, ReadGroup(a)
  PROVE  \E n \in Nat : ReadsNext(a, n)
<1> DEFINE n == IF len - delivered < BatchSize THEN len - delivered ELSE BatchSize
<1>1. n \in Nat /\ n <= len - delivered
  BY LimitsAssumption, EntriesAssumption DEF TypeOK, ReadGroup
<1>2. /\ batch' = [batch EXCEPT ![a] = [i \in 1..n |-> delivered + i]]
      /\ delivered' = delivered + n
  BY DEF ReadGroup
<1> HIDE DEF n
<1> QED  BY <1>1, <1>2 DEF ReadsNext

\* Every step keeps the types.
LEMMA NextType ==
  ASSUME TypeOK, HolderInv, NumbersInv, [Next]_vars
  PROVE  TypeOK'
<1> USE DEF group, reading, writing, database, budgets, history
<1>0. <<>> \in Seq(Nat) /\ Entries \in Nat /\ BatchSize \in Nat \ {0}
  BY EmptySeq, EntriesAssumption, LimitsAssumption
<1>1. CASE Produce
  <2>1. len + 1 \in 0..Entries /\ delivered \in 0..len + 1
    BY <1>0, <1>1 DEF Produce, TypeOK
  <2> QED  BY <1>1, <2>1 DEF Produce, TypeOK
<1>2. ASSUME NEW a \in Instances, ReadGroup(a)  PROVE TypeOK'
  <2>1. PICK n \in Nat : ReadsNext(a, n)
    BY <1>2, ReadsNextBatch
  <2>2. [i \in 1..n |-> delivered + i] \in Seq(Nat) /\ delivered \in Nat /\ len \in Nat
    BY RunIds DEF TypeOK
  <2>3. batch' \in [Instances -> Seq(Nat)]
    BY <2>1, <2>2 DEF ReadsNext, TypeOK
  <2>4. delivered' \in 0..len'
    BY <1>2, <2>1, <2>2 DEF ReadsNext, ReadGroup, TypeOK
  <2> QED  BY <1>2, <2>3, <2>4 DEF ReadGroup, TypeOK
<1>3. ASSUME NEW a \in Instances, AddEvent(a)  PROVE TypeOK'
  <2>1. batch[a] \in Seq(Nat) /\ batch[a] # <<>> /\ buffer[a] \in Seq(Nat)
    BY <1>3 DEF AddEvent, TypeOK
  <2>2. Append(buffer[a], Head(batch[a])) \in Seq(Nat)
    BY <2>1, TailIds, AppendIds
  <2>3. CASE Len(Append(buffer[a], Head(batch[a]))) >= BatchSize
    <3>1. /\ flusher' = [flusher EXCEPT ![a] = "reader"]
          /\ events' = [events EXCEPT ![a] = Append(buffer[a], Head(batch[a]))]
          /\ buffer' = [buffer EXCEPT ![a] = <<>>]
      BY <1>3, <2>3 DEF AddEvent
    <3>2. /\ flusher' \in [Instances -> Tasks \cup {Nobody}]
          /\ events' \in [Instances -> Seq(Nat)]
          /\ buffer' \in [Instances -> Seq(Nat)]
      BY <1>0, <2>2, <3>1 DEF TypeOK, Tasks
    <3> QED  BY <1>3, <3>2 DEF AddEvent, TypeOK
  <2>4. CASE ~(Len(Append(buffer[a], Head(batch[a]))) >= BatchSize)
    <3>1. /\ buffer' = [buffer EXCEPT ![a] = Append(buffer[a], Head(batch[a]))]
          /\ UNCHANGED <<flusher, events>>
      BY <1>3, <2>4 DEF AddEvent
    <3> QED  BY <1>3, <2>2, <3>1 DEF AddEvent, TypeOK
  <2> QED  BY <2>3, <2>4
<1>4. ASSUME NEW a \in Instances, Ack(a)  PROVE TypeOK'
  <2>1. batch[a] \in Seq(Nat) /\ batch[a] # <<>>
    BY <1>4 DEF Ack, HolderInv, TypeOK
  <2>2. Tail(batch[a]) \in Seq(Nat)
    BY <2>1, TailIds
  <2> QED  BY <1>4, <2>2 DEF Ack, TypeOK
<1>5. ASSUME NEW a \in Instances, ReaderFails(a)  PROVE TypeOK'
  BY <1>0, <1>5 DEF ReaderFails, TypeOK
<1>6. ASSUME NEW a \in Instances, PeriodicFlush(a) \/ FinalFlush(a)  PROVE TypeOK'
  <2>1. PICK t \in Tasks : StartFlush(a, t)
    BY <1>6 DEF PeriodicFlush, FinalFlush, Tasks
  <2>2. /\ flusher' \in [Instances -> Tasks \cup {Nobody}]
        /\ events' \in [Instances -> Seq(Nat)]
        /\ buffer' \in [Instances -> Seq(Nat)]
    BY <1>0, <2>1 DEF StartFlush, TypeOK
  <2> QED  BY <1>6, <2>2 DEF PeriodicFlush, FinalFlush, TypeOK
<1>7. ASSUME NEW a \in Instances, ReadMax(a)  PROVE TypeOK'
  <2>1. LastSeq(a) \in Nat
    BY LastSeqIsMax DEF NumbersInv
  <2> QED  BY <1>7, <2>1 DEF ReadMax, TypeOK
<1>8. ASSUME NEW a \in Instances, LoadJob(a)  PROVE TypeOK'
  BY <1>8 DEF LoadJob, TypeOK
<1>9. ASSUME NEW a \in Instances, Commit(a)  PROVE TypeOK'
  BY <1>9, CommitType, EndFlushType DEF Commit, TypeOK
<1>10. ASSUME NEW a \in Instances, WriteFails(a)  PROVE TypeOK'
  <2>1. buffer' \in [Instances -> Seq(Nat)]
    BY <1>10, ConcatType DEF WriteFails, PutBack, TypeOK
  <2>2. rows' \subseteq Row /\ status' \in Status
        /\ commits' \in Seq([by : Instances, events : Seq(Nat)])
    BY <1>10, CommitType DEF WriteFails, TypeOK
  <2>3. EndFlush(a) /\ failures' \in Nat
    BY <1>10 DEF WriteFails, TypeOK
  <2>4. UNCHANGED <<len, group, up, reading, stops, saves, reopened>>
    BY <1>10 DEF WriteFails
  <2> QED  BY <2>1, <2>2, <2>3, <2>4, EndFlushType DEF TypeOK
<1>11. ASSUME NEW a \in Instances, StopReader(a)  PROVE TypeOK'
  BY <1>11 DEF StopReader, TypeOK
<1>12. ASSUME NEW a \in Instances, CancelTimer(a)  PROVE TypeOK'
  <2>1. rows' \subseteq Row /\ status' \in Status
        /\ commits' \in Seq([by : Instances, events : Seq(Nat)])
    BY <1>12, CommitType DEF CancelTimer, TypeOK
  <2> QED  BY <1>12, <2>1, EndFlushType DEF CancelTimer, TypeOK
<1>13. ASSUME NEW a \in Instances, Exit(a)  PROVE TypeOK'
  BY <1>0, <1>13 DEF Exit, TypeOK
<1>14. ASSUME NEW a \in Instances, Crash(a)  PROVE TypeOK'
  <2>1. rows' \subseteq Row /\ status' \in Status
        /\ commits' \in Seq([by : Instances, events : Seq(Nat)])
    BY <1>14, CommitType DEF Crash, TypeOK
  <2>2. /\ flusher' \in [Instances -> Tasks \cup {Nobody}]
        /\ stage' \in [Instances -> {"max", "job", "commit"}]
        /\ events' \in [Instances -> Seq(Nat)]
        /\ base' \in [Instances -> Nat]
        /\ loaded' \in [Instances -> Status]
    BY <1>14, EndFlushType DEF Crash
  <2>3. /\ up' \in [Instances -> {"running", "stopping", "flushing", "exiting", "down"}]
        /\ batch' \in [Instances -> Seq(Nat)]
        /\ buffered' \in [Instances -> BOOLEAN]
        /\ buffer' \in [Instances -> Seq(Nat)]
    BY <1>0, <1>14 DEF Crash, TypeOK
  <2>4. /\ len' \in 0..Entries /\ delivered' \in 0..len'
        /\ failures' \in Nat /\ stops' \in Nat /\ saves' \in Nat /\ reopened' \in BOOLEAN
    BY <1>14 DEF Crash, TypeOK, group
  <2> QED  BY <2>1, <2>2, <2>3, <2>4 DEF TypeOK
<1>15. ASSUME NEW a \in Instances, Restart(a)  PROVE TypeOK'
  BY <1>15 DEF Restart, TypeOK
<1>16. CASE UNCHANGED vars
  BY <1>16 DEF vars, TypeOK
<1>17. ASSUME NEW s \in Status, SaveJob(s)  PROVE TypeOK'
  <2>1. status' \in Status /\ saves' \in Nat /\ reopened' \in BOOLEAN
    BY <1>17 DEF SaveJob, TypeOK
  <2> QED  BY <1>17, <2>1 DEF SaveJob, TypeOK
<1> QED
  BY <1>1, <1>2, <1>3, <1>4, <1>5, <1>6, <1>7, <1>8, <1>9, <1>10, <1>11, <1>12, <1>13,
     <1>14, <1>15, <1>16, <1>17 DEF Next, Reader, Writer, Shutdown

-----------------------------------------------------------------------------
(* Ranks: Cardinality(P \cap 1..i) numbers the members of P from 1.         *)

LEMMA Ranks ==
  ASSUME NEW n \in Nat, NEW P \in SUBSET (1..n)
  PROVE  /\ Cardinality(P) \in Nat
         /\ \A i \in P : Cardinality(P \cap 1..i) \in 1..Cardinality(P)
         /\ \A i, j \in P : i < j => Cardinality(P \cap 1..i) < Cardinality(P \cap 1..j)
         /\ \A c \in 1..Cardinality(P) : \E i \in P : Cardinality(P \cap 1..i) = c
<1>1. IsFiniteSet(P) /\ Cardinality(P) \in Nat
  <2>1. IsFiniteSet(1..n)
    BY FS_Interval
  <2>2. IsFiniteSet(P)
    BY <2>1, FS_Subset
  <2> QED  BY <2>2, FS_CardinalityType
<1>2. ASSUME NEW i \in P
      PROVE  /\ IsFiniteSet(P \cap 1..i) /\ Cardinality(P \cap 1..i) \in Nat
             /\ Cardinality(P \cap 1..i) \in 1..Cardinality(P)
  <2>1. /\ IsFiniteSet(P \cap 1..i) /\ Cardinality(P \cap 1..i) \in Nat
        /\ Cardinality(P \cap 1..i) <= Cardinality(P)
    BY <1>1, FS_Subset, FS_CardinalityType
  <2>2. i \in P \cap 1..i
    OBVIOUS
  <2>3. Cardinality(P \cap 1..i) # 0
    BY <2>1, <2>2, FS_EmptySet
  <2> QED  BY <1>1, <2>1, <2>3
<1>3. ASSUME NEW i \in P, NEW j \in P, i < j
      PROVE  Cardinality(P \cap 1..i) < Cardinality(P \cap 1..j)
  <2>1. P \cap 1..i \in SUBSET (P \cap 1..j)
    BY <1>3
  <2>2. j \in P \cap 1..j /\ j \notin P \cap 1..i
    BY <1>3
  <2>3. /\ Cardinality(P \cap 1..i) <= Cardinality(P \cap 1..j)
        /\ Cardinality(P \cap 1..j) # Cardinality(P \cap 1..i)
    BY <1>2, <2>1, <2>2, FS_Subset
  <2> QED  BY <1>2, <2>3
<1>4. ASSUME NEW c \in 1..Cardinality(P)
      PROVE  \E i \in P : Cardinality(P \cap 1..i) = c
  <2> DEFINE f == [i \in P |-> Cardinality(P \cap 1..i)]
             T == 1..Cardinality(P)
  <2>1. f \in [P -> T]
    BY <1>2
  <2>2. \A i, j \in P : i < j => f[i] < f[j]
    BY <1>3
  <2>3. \A i, j \in P : f[i] = f[j] => i = j
    <3> SUFFICES ASSUME NEW i \in P, NEW j \in P, f[i] = f[j], i # j  PROVE FALSE
      OBVIOUS
    <3>1. f[i] \in Nat /\ f[j] \in Nat
      BY <1>2
    <3>2. i < j \/ j < i
      OBVIOUS
    <3> HIDE DEF f
    <3> QED  BY <2>2, <3>1, <3>2
  <2>4. f \in Injection(P, T)
    BY <2>1, <2>3, Fun_IsInj
  <2>5. IsFiniteSet(T) /\ Cardinality(T) = Cardinality(P)
    BY <1>1, FS_Interval
  <2>6. f \in Surjection(P, T)
    BY <2>4, <2>5, FS_Injection
  <2>7. \A t \in T : \E i \in P : f[i] = t
    <3> HIDE DEF f, T
    <3> QED  BY <2>6, Fun_SurjectionProperties
  <2> QED  BY <2>7
<1> QED  BY <1>1, <1>2, <1>3, <1>4

\* A set of places that is not empty has a last one.
LEMMA LastPlace ==
  ASSUME NEW n \in Nat, NEW P \in SUBSET (1..n), P # {}
  PROVE  \E i \in P : \A j \in P : j <= i
<1> DEFINE rank(i) == Cardinality(P \cap 1..i)
<1>1. /\ Cardinality(P) \in Nat
      /\ \A i \in P : rank(i) \in 1..Cardinality(P)
      /\ \A i, j \in P : i < j => rank(i) < rank(j)
      /\ \A c \in 1..Cardinality(P) : \E i \in P : rank(i) = c
  BY Ranks, Zenon
<1> HIDE DEF rank
<1>2. PICK i \in P : rank(i) = Cardinality(P)
  <2>1. PICK j \in P : TRUE
    OBVIOUS
  <2>2. rank(j) \in 1..Cardinality(P)
    BY <1>1
  <2>3. Cardinality(P) \in 1..Cardinality(P)
    BY <1>1, <2>2
  <2> QED  BY <1>1, <2>3, Zenon
<1>3. \A j \in P : ~(i < j)
  BY <1>1, <1>2
<1> QED  BY <1>3

-----------------------------------------------------------------------------
(* What a step does to the transactions.                                   *)

NoTransaction ==
    /\ UNCHANGED <<rows, status, commits, stage, base, loaded, unsure, reopened>>
    /\ \A a \in Instances : stage[a] # "max" => events'[a] = events[a]

Aborts(a) ==
    /\ EndFlush(a)
    /\ UNCHANGED <<rows, status, commits, unsure, reopened>>

Saves ==
    /\ UNCHANGED <<rows, commits, stage, base, loaded, events, unsure>>
    /\ reopened' = (reopened \/ status = "ended")

Commits(a) ==
    /\ stage[a] = "commit"
    /\ Apply(a)
    /\ EndFlush(a)
    /\ unsure' = unsure \/ unsure' = unsure \cup IdsIn(events[a])
    /\ reopened' = reopened

LEMMA Transactions ==
  ASSUME TypeOK, HolderInv, [Next]_vars
  PROVE  \/ NoTransaction
         \/ Saves
         \/ \E a \in Instances : ReadMax(a) \/ LoadJob(a) \/ Aborts(a) \/ Commits(a)
<1> USE DEF group, reading, writing, database, budgets, history
<1>1. CASE Produce
  BY <1>1 DEF Produce, NoTransaction
<1>2. ASSUME NEW a \in Instances, ReadGroup(a)  PROVE NoTransaction
  BY <1>2 DEF ReadGroup, NoTransaction
<1>3. ASSUME NEW a \in Instances, AddEvent(a)  PROVE NoTransaction
  <2>1. stage[a] = "max"
    BY <1>3 DEF AddEvent, HolderInv
  <2>2. \A b \in Instances \ {a} : events'[b] = events[b]
    BY <1>3 DEF AddEvent, TypeOK
  <2> QED  BY <1>3, <2>1, <2>2 DEF AddEvent, NoTransaction
<1>4. ASSUME NEW a \in Instances, Ack(a)  PROVE NoTransaction
  BY <1>4 DEF Ack, NoTransaction
<1>5. ASSUME NEW a \in Instances, ReaderFails(a)  PROVE NoTransaction
  BY <1>5 DEF ReaderFails, NoTransaction
<1>6. ASSUME NEW a \in Instances, PeriodicFlush(a) \/ FinalFlush(a)  PROVE NoTransaction
  <2>1. stage[a] = "max"
    BY <1>6 DEF PeriodicFlush, FinalFlush, StartFlush, HolderInv
  <2>2. \A b \in Instances \ {a} : events'[b] = events[b]
    BY <1>6 DEF PeriodicFlush, FinalFlush, StartFlush, TypeOK
  <2> QED  BY <1>6, <2>1, <2>2 DEF PeriodicFlush, FinalFlush, NoTransaction
<1>7. ASSUME NEW a \in Instances, Commit(a)  PROVE Commits(a)
  BY <1>7 DEF Commit, Commits
<1>8. ASSUME NEW a \in Instances, WriteFails(a)  PROVE Aborts(a) \/ Commits(a)
  BY <1>8 DEF WriteFails, Aborts, Commits
<1>9. ASSUME NEW a \in Instances, StopReader(a)  PROVE NoTransaction
  BY <1>9 DEF StopReader, NoTransaction
<1>10. ASSUME NEW a \in Instances, CancelTimer(a)
       PROVE  NoTransaction \/ Aborts(a) \/ Commits(a)
  BY <1>10 DEF CancelTimer, NoTransaction, Aborts, Commits
<1>11. ASSUME NEW a \in Instances, Exit(a)  PROVE NoTransaction
  BY <1>11 DEF Exit, NoTransaction
<1>12. ASSUME NEW a \in Instances, Crash(a)  PROVE Aborts(a) \/ Commits(a)
  BY <1>12 DEF Crash, Aborts, Commits
<1>13. ASSUME NEW a \in Instances, Restart(a)  PROVE NoTransaction
  BY <1>13 DEF Restart, NoTransaction
<1>14. CASE UNCHANGED vars
  BY <1>14 DEF vars, NoTransaction
<1>15. ASSUME NEW s \in Status, SaveJob(s)  PROVE Saves
  BY <1>15 DEF SaveJob, Saves
<1> QED
  BY <1>1, <1>2, <1>3, <1>4, <1>5, <1>6, <1>7, <1>8, <1>9, <1>10, <1>11, <1>12, <1>13,
     <1>14, <1>15 DEF Next, Reader, Writer, Shutdown

-----------------------------------------------------------------------------
(* The numbers of the rows.                                                *)

\* A transaction numbers its rows from the number it read.
LEMMA NewNumbers ==
  ASSUME TypeOK, NEW a \in Instances
  PROVE  \E k \in Nat : {r.seq : r \in NewRows(a)} = base[a] + 1 .. base[a] + k
<1> DEFINE P == Places(a, RowEvents)
           rank(i) == Cardinality(P \cap 1..i)
           row(i) == [entry |-> events[a][i], seq |-> base[a] + rank(i), by |-> a]
<1>1. Len(events[a]) \in Nat /\ P \in SUBSET (1..Len(events[a])) /\ base[a] \in Nat
  BY LenProperties DEF TypeOK, Places
<1>2. NewRows(a) = {row(i) : i \in P}
  BY DEF NewRows
<1> HIDE DEF P
<1>3. /\ Cardinality(P) \in Nat
      /\ \A i \in P : rank(i) \in 1..Cardinality(P)
      /\ \A c \in 1..Cardinality(P) : \E i \in P : rank(i) = c
  BY <1>1, Ranks
<1> HIDE DEF rank
<1>4. \A i \in P : row(i).seq = base[a] + rank(i)
  OBVIOUS
<1> HIDE DEF row
<1>5. \A r \in NewRows(a) : r.seq \in base[a] + 1 .. base[a] + Cardinality(P)
  BY <1>1, <1>2, <1>3, <1>4
<1>6. ASSUME NEW n \in base[a] + 1 .. base[a] + Cardinality(P)
      PROVE  \E r \in NewRows(a) : r.seq = n
  <2>1. n - base[a] \in 1..Cardinality(P) /\ n = base[a] + (n - base[a])
    BY <1>1, <1>3
  <2>2. PICK i \in P : rank(i) = n - base[a]
    BY <1>3, <2>1
  <2>3. row(i) \in NewRows(a) /\ row(i).seq = n
    BY <1>2, <1>4, <2>1, <2>2
  <2> QED  BY <2>3
<1>7. {r.seq : r \in NewRows(a)} = base[a] + 1 .. base[a] + Cardinality(P)
  BY <1>5, <1>6
<1> QED  BY <1>3, <1>7

LEMMA NumbersNext ==
  ASSUME TypeOK, HolderInv, NumbersInv, [Next]_vars
  PROVE  NumbersInv'
<1> PICK m \in Nat : {r.seq : r \in rows} = 1..m /\ \A b \in Instances : base[b] \in 0..m
  BY DEF NumbersInv
<1>1. CASE NoTransaction
  BY <1>1 DEF NoTransaction, NumbersInv
<1>2. ASSUME NEW a \in Instances, ReadMax(a)  PROVE NumbersInv'
  <2>1. LastSeq(a) = m
    BY LastSeqIsMax
  <2>2. \A b \in Instances : base'[b] \in 0..m
    BY <1>2, <2>1 DEF ReadMax, TypeOK
  <2>3. rows' = rows
    BY <1>2 DEF ReadMax, database
  <2> QED  BY <2>2, <2>3 DEF NumbersInv
<1>3. ASSUME NEW a \in Instances, LoadJob(a)  PROVE NumbersInv'
  BY <1>3 DEF LoadJob, database, NumbersInv
<1>4. ASSUME NEW a \in Instances, Aborts(a)  PROVE NumbersInv'
  <2>1. \A b \in Instances : base'[b] \in 0..m
    BY <1>4 DEF Aborts, EndFlush, TypeOK
  <2> QED  BY <1>4, <2>1 DEF Aborts, NumbersInv
<1>5. ASSUME NEW a \in Instances, Commits(a)  PROVE NumbersInv'
  <2>1. PICK k \in Nat : {r.seq : r \in NewRows(a)} = base[a] + 1 .. base[a] + k
    BY NewNumbers
  <2>2. rows' = rows \cup NewRows(a)
    BY <1>5 DEF Commits, Apply
  <2>3. {r.seq : r \in rows'} = (1..m) \cup (base[a] + 1 .. base[a] + k)
    BY <2>1, <2>2
  <2>4. base[a] \in 0..m
    OBVIOUS
  <2>5. \A b \in Instances : base'[b] \in 0..m
    BY <1>5 DEF Commits, EndFlush, TypeOK
  <2>6. CASE base[a] + k <= m
    <3>1. (1..m) \cup (base[a] + 1 .. base[a] + k) = 1..m
      BY <2>4, <2>6
    <3> QED  BY <2>3, <2>5, <3>1 DEF NumbersInv
  <2>7. CASE base[a] + k > m
    <3>1. (1..m) \cup (base[a] + 1 .. base[a] + k) = 1..base[a] + k /\ base[a] + k \in Nat
      BY <2>4, <2>7
    <3>2. \A b \in Instances : base'[b] \in 0..base[a] + k
      BY <2>5, <2>7, <3>1
    <3> QED  BY <2>3, <3>1, <3>2 DEF NumbersInv
  <2> QED  BY <2>4, <2>6, <2>7
<1>6. CASE Saves
  BY <1>6 DEF Saves, NumbersInv
<1> QED  BY Transactions, <1>1, <1>2, <1>3, <1>4, <1>5, <1>6

-----------------------------------------------------------------------------
(* The first invariants hold.                                              *)

LEMMA EndFlushHolder ==
  ASSUME TypeOK, NEW a \in Instances, EndFlush(a)
  PROVE  /\ flusher'[a] = Nobody /\ events'[a] = <<>> /\ stage'[a] = "max"
         /\ \A b \in Instances \ {a} : /\ flusher'[b] = flusher[b]
                                       /\ events'[b] = events[b]
                                       /\ stage'[b] = stage[b]
  BY DEF EndFlush, TypeOK

LEMMA HolderNext ==
  ASSUME TypeOK, HolderInv, [Next]_vars
  PROVE  HolderInv'
<1> USE DEF group, reading, writing, database, budgets, history, HolderInv
<1>1. CASE Produce
  BY <1>1 DEF Produce
<1>2. ASSUME NEW a \in Instances, ReadGroup(a)  PROVE HolderInv'
  <2>1. PICK n \in Nat : ReadsNext(a, n)
    BY <1>2, ReadsNextBatch
  <2>2. Increasing([i \in 1..n |-> delivered + i]) /\ ~buffered[a]
    BY <1>2, RunIds DEF ReadGroup, TypeOK
  <2>3. \A b \in Instances : Increasing(batch'[b]) /\ (buffered[b] => batch'[b] # <<>>)
    BY <2>1, <2>2 DEF ReadsNext, TypeOK
  <2> QED  BY <1>2, <2>3 DEF ReadGroup
<1>3. ASSUME NEW a \in Instances, AddEvent(a)  PROVE HolderInv'
  <2>1. /\ Nobody # "reader" /\ stage[a] = "max" /\ buffered'[a] /\ batch[a] # <<>>
        /\ UNCHANGED <<batch, stage>>
    BY <1>3, LimitsAssumption DEF AddEvent, Tasks, TypeOK
  <2>2. /\ flusher'[a] = Nobody => events'[a] = <<>>
        /\ flusher'[a] # Nobody => buffer'[a] = <<>>
    BY <1>3, <2>1 DEF AddEvent, TypeOK
  <2>3. \A b \in Instances \ {a} : /\ flusher'[b] = flusher[b] /\ events'[b] = events[b]
                                   /\ buffer'[b] = buffer[b] /\ buffered'[b] = buffered[b]
    BY <1>3 DEF AddEvent, TypeOK
  <2> QED  BY <2>1, <2>2, <2>3
<1>4. ASSUME NEW a \in Instances, Ack(a)  PROVE HolderInv'
  <2>1. batch[a] \in Seq(Nat) /\ batch[a] # <<>> /\ Increasing(batch[a])
    BY <1>4 DEF Ack, TypeOK
  <2>2. Increasing(Tail(batch[a]))
    BY <2>1, TailIds
  <2>3. \A b \in Instances : Increasing(batch'[b]) /\ (buffered'[b] => batch'[b] # <<>>)
    BY <1>4, <2>2 DEF Ack, TypeOK
  <2> QED  BY <1>4, <2>3 DEF Ack
<1>5. ASSUME NEW a \in Instances, ReaderFails(a)  PROVE HolderInv'
  <2>1. \A b \in Instances : Increasing(batch'[b]) /\ (buffered'[b] => batch'[b] # <<>>)
    BY <1>5, NoIds DEF ReaderFails, TypeOK
  <2> QED  BY <1>5, <2>1 DEF ReaderFails
<1>6. ASSUME NEW a \in Instances, PeriodicFlush(a) \/ FinalFlush(a)  PROVE HolderInv'
  <2>1. PICK t \in Tasks : StartFlush(a, t)
    BY <1>6 DEF PeriodicFlush, FinalFlush, Tasks
  <2>2. /\ flusher'[a] # Nobody /\ buffer'[a] = <<>>
        /\ \A b \in Instances \ {a} : /\ flusher'[b] = flusher[b] /\ events'[b] = events[b]
                                      /\ buffer'[b] = buffer[b]
    BY <2>1, LimitsAssumption DEF StartFlush, TypeOK
  <2>3. UNCHANGED <<batch, buffered, stage>>
    BY <1>6 DEF PeriodicFlush, FinalFlush
  <2> QED  BY <2>2, <2>3
<1>7. ASSUME NEW a \in Instances, ReadMax(a)  PROVE HolderInv'
  BY <1>7 DEF ReadMax, TypeOK
<1>8. ASSUME NEW a \in Instances, LoadJob(a)  PROVE HolderInv'
  BY <1>8 DEF LoadJob, TypeOK
<1>9. ASSUME NEW a \in Instances, Commit(a)  PROVE HolderInv'
  BY <1>9, EndFlushHolder DEF Commit
<1>10. ASSUME NEW a \in Instances, WriteFails(a)  PROVE HolderInv'
  <2>1. \A b \in Instances \ {a} : buffer'[b] = buffer[b]
    BY <1>10 DEF WriteFails, PutBack, TypeOK
  <2>2. EndFlush(a) /\ UNCHANGED <<batch, buffered>>
    BY <1>10 DEF WriteFails
  <2> QED  BY <2>1, <2>2, EndFlushHolder
<1>11. ASSUME NEW a \in Instances, StopReader(a)  PROVE HolderInv'
  BY <1>11 DEF StopReader
<1>12. ASSUME NEW a \in Instances, CancelTimer(a)  PROVE HolderInv'
  BY <1>12, EndFlushHolder DEF CancelTimer
<1>13. ASSUME NEW a \in Instances, Exit(a)  PROVE HolderInv'
  BY <1>13 DEF Exit, TypeOK
<1>14. ASSUME NEW a \in Instances, Crash(a)  PROVE HolderInv'
  <2>1. \A b \in Instances : Increasing(batch'[b]) /\ (buffered'[b] => batch'[b] # <<>>)
    BY <1>14, NoIds DEF Crash, TypeOK
  <2>2. \A b \in Instances \ {a} : buffer'[b] = buffer[b]
    BY <1>14 DEF Crash, TypeOK
  <2> QED  BY <1>14, <2>1, <2>2, EndFlushHolder DEF Crash
<1>15. ASSUME NEW a \in Instances, Restart(a)  PROVE HolderInv'
  BY <1>15 DEF Restart
<1>16. CASE UNCHANGED vars
  BY <1>16 DEF vars
<1>17. ASSUME NEW s \in Status, SaveJob(s)  PROVE HolderInv'
  BY <1>17 DEF SaveJob
<1> QED
  BY <1>1, <1>2, <1>3, <1>4, <1>5, <1>6, <1>7, <1>8, <1>9, <1>10, <1>11, <1>12, <1>13,
     <1>14, <1>15, <1>16, <1>17 DEF Next, Reader, Writer, Shutdown

LEMMA InitBasics == Init => TypeOK /\ HolderInv /\ NumbersInv
<1> SUFFICES ASSUME Init  PROVE TypeOK /\ HolderInv /\ NumbersInv
  OBVIOUS
<1>1. <<>> \in Seq(Nat) /\ <<>> \in Seq([by : Instances, events : Seq(Nat)])
      /\ Entries \in Nat
  BY EmptySeq, EntriesAssumption
<1>2. TypeOK
  <2>1. /\ len \in 0..Entries /\ delivered \in 0..len
        /\ batch \in [Instances -> Seq(Nat)]
        /\ buffer \in [Instances -> Seq(Nat)]
        /\ events \in [Instances -> Seq(Nat)]
        /\ base \in [Instances -> Nat]
        /\ commits \in Seq([by : Instances, events : Seq(Nat)])
    BY <1>1 DEF Init
  <2>2. /\ up \in [Instances -> {"running", "stopping", "flushing", "exiting", "down"}]
        /\ buffered \in [Instances -> BOOLEAN]
        /\ flusher \in [Instances -> Tasks \cup {Nobody}]
        /\ stage \in [Instances -> {"max", "job", "commit"}]
        /\ loaded \in [Instances -> Status]
        /\ rows \subseteq Row /\ status \in Status
    BY DEF Init, Status
  <2>3. failures \in Nat /\ stops \in Nat /\ saves \in Nat /\ reopened \in BOOLEAN
    BY DEF Init
  <2> QED  BY <2>1, <2>2, <2>3 DEF TypeOK
<1>3. HolderInv
  BY NoIds DEF Init, HolderInv
<1>4. NumbersInv
  <2>1. {r.seq : r \in rows} = 1..0
    BY DEF Init
  <2>2. \A a \in Instances : base[a] \in 0..0
    BY DEF Init
  <2> QED  BY <2>1, <2>2 DEF NumbersInv
<1> QED  BY <1>2, <1>3, <1>4

\* The types of the archiver's state, its transactions and the buffer they leave
\* alone, and the rows numbered without a hole.
THEOREM TypeCorrect == Spec => [](TypeOK /\ HolderInv /\ NumbersInv)
<1>1. TypeOK /\ HolderInv /\ NumbersInv /\ [Next]_vars
      => TypeOK' /\ HolderInv' /\ NumbersInv'
  BY NextType, HolderNext, NumbersNext
<1> QED  BY InitBasics, <1>1, PTL DEF Spec

-----------------------------------------------------------------------------
(* What a step does to the entries.                                        *)

Still ==
    UNCHANGED <<delivered, batch, buffered, buffer, events, commits, lost, unsure>>

Others(a) ==
    \A b \in Instances \ {a} : /\ Unbuffered(b)' = Unbuffered(b)
                               /\ buffer'[b] = buffer[b]
                               /\ events'[b] = events[b]

\* Instance a reads the next n entries.
Fetches(a, n) ==
    /\ Unbuffered(a) = {}
    /\ Unbuffered(a)' = delivered + 1 .. delivered + n
    /\ delivered' = delivered + n
    /\ Others(a)
    /\ UNCHANGED <<buffer, events, commits, lost, unsure>>

\* Instance a archives the entries in C, loses those in L and keeps the rest.
Keeps(a, C, L) ==
    /\ delivered' = delivered
    /\ Others(a)
    /\ \/ C = {} /\ commits' = commits
       \/ C = IdsIn(events[a]) /\ commits' = Append(commits, [by |-> a, events |-> events[a]])
    /\ lost' = lost \cup L
    /\ unsure \subseteq unsure' /\ unsure' \subseteq unsure \cup Held(a)
    /\ Held(a)' \cup C \cup L = Held(a)
    /\ \A e \in Held(a) \ unsure' : Single(a, e) =>
           /\ Single(a, e)'
           /\ e \in C \cup L => e \notin Held(a)'
           /\ ~(e \in C /\ e \in L)
    /\ Increasing(buffer'[a]) /\ Increasing(events'[a])
    /\ \A e \in IdsIn(buffer'[a]) \cup IdsIn(events'[a]), f \in Unbuffered(a)' : e < f
    /\ \A e \in C \ unsure', f \in Held(a)' : e < f

LEMMA ReadGroupFetches ==
  ASSUME TypeOK, HolderInv, NEW a \in Instances, ReadGroup(a)
  PROVE  \E n \in Nat : Fetches(a, n)
<1>1. PICK n \in Nat : ReadsNext(a, n)
  BY ReadsNextBatch
<1>2. ~buffered[a] /\ batch[a] = <<>> /\ delivered \in Nat
  BY DEF ReadGroup, HolderInv, TypeOK
<1>3. Unbuffered(a) = {}
  BY <1>2, NoIds DEF Unbuffered
<1>4. batch'[a] = [i \in 1..n |-> delivered + i] /\ buffered' = buffered
  BY <1>1 DEF ReadsNext, ReadGroup, TypeOK
<1>5. IdsIn([i \in 1..n |-> delivered + i]) = delivered + 1 .. delivered + n
  BY <1>2, RunIds
<1>6. Unbuffered(a)' = delivered + 1 .. delivered + n
  BY <1>2, <1>4, <1>5 DEF Unbuffered
<1>7. Others(a)
  BY <1>1, <1>4 DEF ReadsNext, ReadGroup, writing, Others, Unbuffered, TypeOK
<1> QED
  BY <1>1, <1>3, <1>6, <1>7 DEF Fetches, ReadsNext, ReadGroup, writing, database, history

LEMMA AddEventKeeps ==
  ASSUME TypeOK, HolderInv, OrderInv, NEW a \in Instances, AddEvent(a)
  PROVE  Keeps(a, {}, {})
<1> DEFINE e == Head(batch[a])
           b == Append(buffer[a], e)
<1>1. /\ batch[a] \in Seq(Nat) /\ batch[a] # <<>> /\ buffer[a] \in Seq(Nat)
      /\ ~buffered[a] /\ buffered'[a] /\ batch' = batch
      /\ events[a] = <<>> /\ Increasing(batch[a]) /\ Increasing(buffer[a])
  BY DEF AddEvent, HolderInv, OrderInv, TypeOK
<1>2. /\ e \in Nat /\ IdsIn(batch[a]) = {e} \cup IdsIn(Tail(batch[a]))
      /\ \A f \in IdsIn(Tail(batch[a])) : e < f
  BY <1>1, TailIds
<1>3. Unbuffered(a) = {e} \cup Unbuffered(a)' /\ \A f \in Unbuffered(a)' : e < f
  BY <1>1, <1>2 DEF Unbuffered
<1>4. \A d \in IdsIn(buffer[a]), f \in Unbuffered(a) : d < f
  BY DEF OrderInv
<1>5. \A d \in IdsIn(buffer[a]) : d < e
  BY <1>3, <1>4
<1>6. b \in Seq(Nat) /\ IdsIn(b) = IdsIn(buffer[a]) \cup {e} /\ Increasing(b)
  BY <1>1, <1>2, <1>5, AppendIds
<1>7. \/ buffer'[a] = b /\ events'[a] = <<>>
      \/ buffer'[a] = <<>> /\ events'[a] = b
  BY <1>1 DEF AddEvent, TypeOK
<1>8. Others(a)
  BY DEF AddEvent, Others, Unbuffered, TypeOK
<1> HIDE DEF e, b
<1>9. Held(a)' = Held(a)
  BY <1>1, <1>3, <1>6, <1>7, NoIds DEF Held
<1>10. IdsIn(buffer'[a]) \cup IdsIn(events'[a]) = IdsIn(b)
       /\ Increasing(buffer'[a]) /\ Increasing(events'[a])
       /\ (IdsIn(buffer'[a]) = {} \/ IdsIn(events'[a]) = {})
  BY <1>6, <1>7, NoIds
<1>11. \A d \in IdsIn(b), f \in Unbuffered(a)' : d < f
  BY <1>3, <1>4, <1>6
<1>12. \A d \in IdsIn(b) : ~(d < d)
  BY <1>6, IdsAreNat
<1>13. \A d \in Held(a) : Single(a, d)'
  BY <1>10, <1>11, <1>12 DEF Single
<1>14. UNCHANGED <<delivered, commits, lost, unsure>>
  BY DEF AddEvent, group, database, history
<1> QED  BY <1>8, <1>9, <1>10, <1>11, <1>13, <1>14 DEF Keeps
LEMMA AckKeeps ==
  ASSUME TypeOK, HolderInv, OrderInv, NEW a \in Instances, Ack(a)
  PROVE  Keeps(a, {}, {})
<1>1. Unbuffered(a)' = Unbuffered(a)
  BY DEF Ack, Unbuffered, TypeOK
<1>2. UNCHANGED <<delivered, buffer, events, commits, lost, unsure>>
  BY DEF Ack, writing, database, history
<1>3. Others(a)
  BY <1>2 DEF Ack, Others, Unbuffered, TypeOK
<1>4. Held(a)' = Held(a) /\ \A d \in Held(a) : Single(a, d)' <=> Single(a, d)
  BY <1>1, <1>2 DEF Held, Single
<1> QED  BY <1>1, <1>2, <1>3, <1>4 DEF Keeps, OrderInv

LEMMA ReaderFailsKeeps ==
  ASSUME TypeOK, HolderInv, OrderInv, NEW a \in Instances, ReaderFails(a)
  PROVE  Keeps(a, {}, Unbuffered(a))
<1>1. Unbuffered(a)' = {}
  BY NoIds DEF ReaderFails, Unbuffered, TypeOK
<1>2. /\ UNCHANGED <<delivered, buffer, events, commits, unsure>>
      /\ lost' = lost \cup Unbuffered(a)
  BY DEF ReaderFails, group, writing, database
<1>3. Others(a)
  BY <1>2 DEF ReaderFails, Others, Unbuffered, TypeOK
<1>4. Held(a)' = IdsIn(buffer[a]) \cup IdsIn(events[a])
  BY <1>1, <1>2 DEF Held
<1>5. \A d \in Held(a) : Single(a, d) => Single(a, d)' /\ (d \in Unbuffered(a) => d \notin Held(a)')
  BY <1>1, <1>2, <1>4 DEF Single
<1> QED  BY <1>1, <1>2, <1>3, <1>4, <1>5 DEF Keeps, OrderInv, Held

LEMMA StartFlushKeeps ==
  ASSUME TypeOK, HolderInv, OrderInv, NEW a \in Instances, NEW t, StartFlush(a, t),
         UNCHANGED <<delivered, batch, buffered, commits, lost, unsure>>
  PROVE  Keeps(a, {}, {})
<1>1. /\ events[a] = <<>> /\ events'[a] = buffer[a] /\ buffer'[a] = <<>>
      /\ \A b \in Instances : Unbuffered(b)' = Unbuffered(b)
  BY DEF StartFlush, HolderInv, TypeOK, Unbuffered
<1>2. Others(a)
  BY <1>1 DEF StartFlush, Others, TypeOK
<1>3. Held(a)' = Held(a) /\ \A d \in Held(a) : Single(a, d)' <=> Single(a, d)
  BY <1>1, NoIds DEF Held, Single
<1> QED  BY <1>1, <1>2, <1>3, NoIds DEF Keeps, OrderInv

\* A transaction ends: its entries are archived, lost, or back in the buffer.
LEMMA EndKeeps ==
  ASSUME TypeOK, HolderInv, OrderInv, NEW a \in Instances, flusher[a] # Nobody,
         EndFlush(a), UNCHANGED <<delivered, batch, buffered>>,
         NEW C, NEW L,
         \/ /\ C = IdsIn(events[a]) /\ L = {} /\ buffer' = buffer
            /\ commits' = Append(commits, [by |-> a, events |-> events[a]])
            /\ UNCHANGED unsure
         \/ /\ C = {} /\ L = IdsIn(events[a]) /\ buffer' = buffer
            /\ UNCHANGED <<commits, unsure>>
         \/ /\ C = {} /\ L = {} /\ PutBack(a)
            /\ UNCHANGED <<commits, unsure>>,
         lost' = lost \cup L
  PROVE  Keeps(a, C, L)
<1>1. /\ buffer[a] = <<>> /\ events'[a] = <<>> /\ events[a] \in Seq(Nat)
      /\ \A b \in Instances : Unbuffered(b)' = Unbuffered(b)
  BY DEF EndFlush, HolderInv, TypeOK, Unbuffered
<1>2. Others(a)
  BY <1>1 DEF EndFlush, PutBack, Others, TypeOK
<1>3. \/ buffer'[a] = <<>> /\ C \cup L = IdsIn(events[a]) /\ (C = {} \/ L = {})
      \/ buffer'[a] = events[a] /\ C = {} /\ L = {}
  <2>1. <<>> \o events[a] = events[a]
    BY <1>1, ConcatEmptySeq
  <2> QED  BY <1>1, <2>1 DEF PutBack, TypeOK
<1>4. Held(a)' \cup C \cup L = Held(a)
  BY <1>1, <1>3, NoIds DEF Held
<1>5. \A d \in Held(a) : Single(a, d) =>
          Single(a, d)' /\ (d \in C \cup L => d \notin Held(a)') /\ ~(d \in C /\ d \in L)
  BY <1>1, <1>3, NoIds DEF Held, Single
<1>6. /\ Increasing(buffer'[a]) /\ Increasing(events'[a])
      /\ \A e \in IdsIn(buffer'[a]) \cup IdsIn(events'[a]), f \in Unbuffered(a)' : e < f
  BY <1>1, <1>3, NoIds DEF OrderInv
<1>7. \A e \in C, f \in Held(a)' : e < f
  BY <1>1, <1>3, NoIds DEF OrderInv, Held
<1> QED  BY <1>2, <1>4, <1>5, <1>6, <1>7 DEF Keeps

\* A transaction was committed and its events go back into the buffer all the same.
LEMMA RetriedKeeps ==
  ASSUME TypeOK, HolderInv, OrderInv, NEW a \in Instances, flusher[a] # Nobody,
         EndFlush(a), UNCHANGED <<delivered, batch, buffered, lost>>, PutBack(a),
         commits' = Append(commits, [by |-> a, events |-> events[a]]),
         unsure' = unsure \cup IdsIn(events[a])
  PROVE  Keeps(a, IdsIn(events[a]), {})
<1>1. /\ buffer[a] = <<>> /\ events'[a] = <<>> /\ events[a] \in Seq(Nat)
      /\ \A b \in Instances : Unbuffered(b)' = Unbuffered(b)
  BY DEF EndFlush, HolderInv, TypeOK, Unbuffered
<1>2. Others(a)
  BY <1>1 DEF EndFlush, PutBack, Others, TypeOK
<1>3. buffer'[a] = events[a]
  <2>1. <<>> \o events[a] = events[a]
    BY <1>1, ConcatEmptySeq
  <2> QED  BY <1>1, <2>1 DEF PutBack, TypeOK
<1>4. Held(a)' \cup IdsIn(events[a]) = Held(a)
  BY <1>1, <1>3, NoIds DEF Held
<1>5. \A d \in Held(a) \ unsure' : Single(a, d) => Single(a, d)' /\ d \notin IdsIn(events[a])
  BY <1>1, <1>3, NoIds DEF Held, Single
<1>6. /\ Increasing(buffer'[a]) /\ Increasing(events'[a])
      /\ \A e \in IdsIn(buffer'[a]) \cup IdsIn(events'[a]), f \in Unbuffered(a)' : e < f
  BY <1>1, <1>3, NoIds DEF OrderInv
<1>7. unsure \subseteq unsure' /\ unsure' \subseteq unsure \cup Held(a)
  BY DEF Held
<1> QED  BY <1>2, <1>4, <1>5, <1>6, <1>7 DEF Keeps

LEMMA ExitKeeps ==
  ASSUME TypeOK, HolderInv, OrderInv, NEW a \in Instances, Exit(a)
  PROVE  Keeps(a, {}, IdsIn(buffer[a]))
<1>1. /\ UNCHANGED <<delivered, batch, buffered, events, commits, unsure>>
      /\ lost' = lost \cup IdsIn(buffer[a]) /\ buffer'[a] = <<>> /\ events[a] = <<>>
      /\ \A b \in Instances : Unbuffered(b)' = Unbuffered(b)
  BY DEF Exit, group, reading, writing, database, HolderInv, TypeOK, Unbuffered
<1>2. Others(a)
  BY <1>1 DEF Exit, Others, TypeOK
<1>3. Held(a)' \cup IdsIn(buffer[a]) = Held(a)
  BY <1>1, NoIds DEF Held
<1>4. \A d \in Held(a) : Single(a, d) =>
          Single(a, d)' /\ (d \in IdsIn(buffer[a]) => d \notin Held(a)')
  BY <1>1, NoIds DEF Held, Single
<1> QED  BY <1>1, <1>2, <1>3, <1>4, NoIds DEF Keeps, OrderInv

LEMMA CrashKeeps ==
  ASSUME TypeOK, HolderInv, OrderInv, NEW a \in Instances, Crash(a)
  PROVE  \E C, L : Keeps(a, C, L)
<1> DEFINE rest == Unbuffered(a) \cup IdsIn(buffer[a])
<1>1. /\ UNCHANGED <<delivered, unsure>>
      /\ batch'[a] = <<>> /\ ~buffered'[a] /\ buffer'[a] = <<>> /\ events'[a] = <<>>
  BY DEF Crash, EndFlush, group, TypeOK
<1>2. Unbuffered(a)' = {} /\ Held(a)' = {}
  BY <1>1, NoIds DEF Unbuffered, Held
<1>3. Others(a)
  BY DEF Crash, EndFlush, Others, Unbuffered, TypeOK
<1>4. \A d : Single(a, d)'
  BY <1>1, <1>2, NoIds DEF Single
<1>5. ASSUME NEW C, NEW L, C \cup L = Held(a), lost' = lost \cup L,
             \A d \in Held(a) : Single(a, d) => ~(d \in C /\ d \in L),
             \/ C = {} /\ commits' = commits
             \/ C = IdsIn(events[a]) /\ commits' = Append(commits, [by |-> a, events |-> events[a]])
      PROVE  Keeps(a, C, L)
  BY <1>1, <1>2, <1>3, <1>4, <1>5, NoIds DEF Keeps
<1>6. CASE lost' = lost \cup rest \cup IdsIn(events[a]) /\ UNCHANGED database
  <2>1. Keeps(a, {}, Held(a))
    BY <1>5, <1>6 DEF Held, database
  <2> QED  BY <2>1
<1>7. CASE Apply(a) /\ lost' = lost \cup rest
  <2>1. IdsIn(events[a]) \cup rest = Held(a)
    BY DEF Held
  <2>2. \A d \in Held(a) : Single(a, d) => ~(d \in IdsIn(events[a]) /\ d \in rest)
    BY DEF Single
  <2>3. /\ commits' = Append(commits, [by |-> a, events |-> events[a]])
        /\ lost' = lost \cup rest
    BY <1>7 DEF Apply
  <2> HIDE DEF rest
  <2>4. Keeps(a, IdsIn(events[a]), rest)
    BY <1>5, <2>1, <2>2, <2>3
  <2> QED  BY <2>4
<1> QED  BY <1>6, <1>7 DEF Crash

\* Every step leaves the entries alone, fetches new ones, or keeps those it has.
LEMMA Effects ==
  ASSUME TypeOK, HolderInv, OrderInv, [Next]_vars
  PROVE  \/ Still
         \/ \E a \in Instances : \/ \E n \in Nat : Fetches(a, n)
                                 \/ \E C, L : Keeps(a, C, L)
<1> USE DEF group, reading, writing, database, budgets, history
<1>1. CASE Produce
  BY <1>1 DEF Produce, Still
<1>2. ASSUME NEW a \in Instances, PeriodicFlush(a) \/ FinalFlush(a)
      PROVE  Keeps(a, {}, {})
  BY <1>2, StartFlushKeeps DEF PeriodicFlush, FinalFlush
<1>0. ASSUME NEW s \in Status, SaveJob(s)  PROVE Still
  BY <1>0 DEF SaveJob, Still
<1>3. ASSUME NEW a \in Instances, ReadMax(a) \/ LoadJob(a)  PROVE Still
  BY <1>3 DEF ReadMax, LoadJob, Still
<1>4. ASSUME NEW a \in Instances, Commit(a)  PROVE Keeps(a, IdsIn(events[a]), {})
  <2>1. /\ flusher[a] # Nobody /\ EndFlush(a) /\ buffer' = buffer /\ lost' = lost
        /\ UNCHANGED <<delivered, batch, buffered, unsure>>
        /\ commits' = Append(commits, [by |-> a, events |-> events[a]])
    BY <1>4 DEF Commit, Apply
  <2> QED  BY <2>1, EndKeeps
<1>5. ASSUME NEW a \in Instances, WriteFails(a)  PROVE \E C, L : Keeps(a, C, L)
  <2>1. /\ flusher[a] # Nobody /\ EndFlush(a) /\ PutBack(a)
        /\ UNCHANGED <<delivered, batch, buffered, lost>>
    BY <1>5 DEF WriteFails
  <2>2. CASE UNCHANGED <<database, unsure>>
    <3>1. Keeps(a, {}, {})
      BY <2>1, <2>2, EndKeeps
    <3> QED  BY <3>1
  <2>3. CASE Apply(a) /\ unsure' = unsure \cup IdsIn(events[a])
    <3>1. commits' = Append(commits, [by |-> a, events |-> events[a]])
      BY <2>3 DEF Apply
    <3>2. Keeps(a, IdsIn(events[a]), {})
      BY <2>1, <2>3, <3>1, RetriedKeeps
    <3> QED  BY <3>2
  <2> QED  BY <1>5, <2>2, <2>3 DEF WriteFails
<1>6. ASSUME NEW a \in Instances, StopReader(a) \/ Restart(a)  PROVE Still
  BY <1>6 DEF StopReader, Restart, Still
<1>7. ASSUME NEW a \in Instances, CancelTimer(a)
      PROVE  Still \/ \E C, L : Keeps(a, C, L)
  <2>1. UNCHANGED <<delivered, batch, buffered, buffer, unsure>>
    BY <1>7 DEF CancelTimer
  <2>2. CASE flusher[a] # "timer"
    BY <1>7, <2>1, <2>2 DEF CancelTimer, Still
  <2>3. CASE flusher[a] = "timer"
    <3>1. flusher[a] # Nobody /\ EndFlush(a)
      BY <1>7, <2>3, LimitsAssumption DEF CancelTimer, Tasks
    <3>2. CASE lost' = lost \cup IdsIn(events[a]) /\ UNCHANGED database
      <4>1. Keeps(a, {}, IdsIn(events[a]))
        BY <2>1, <3>1, <3>2, EndKeeps
      <4> QED  BY <4>1
    <3>3. CASE Apply(a) /\ UNCHANGED lost
      <4>1. commits' = Append(commits, [by |-> a, events |-> events[a]])
        BY <3>3 DEF Apply
      <4>2. Keeps(a, IdsIn(events[a]), {})
        BY <2>1, <3>1, <3>3, <4>1, EndKeeps
      <4> QED  BY <4>2
    <3> QED  BY <1>7, <2>3, <3>2, <3>3 DEF CancelTimer
  <2> QED  BY <2>2, <2>3
<1>8. CASE UNCHANGED vars
  BY <1>8 DEF vars, Still
<1> QED
  BY <1>0, <1>1, <1>2, <1>3, <1>4, <1>5, <1>6, <1>7, <1>8, ReadGroupFetches, AddEventKeeps,
     AckKeeps, ReaderFailsKeeps, ExitKeeps, CrashKeeps DEF Next, Reader, Writer, Shutdown
-----------------------------------------------------------------------------
(* Every entry is in one place.                                            *)

LEMMA OthersHold ==
  ASSUME NEW a \in Instances, Others(a), NEW b \in Instances \ {a}
  PROVE  Held(b)' = Held(b) /\ \A e : Single(b, e)' <=> Single(b, e)
  BY DEF Others, Held, Single

LEMMA StillHold ==
  ASSUME Still, NEW b \in Instances
  PROVE  /\ Unbuffered(b)' = Unbuffered(b) /\ Held(b)' = Held(b)
         /\ \A e : Single(b, e)' <=> Single(b, e)
  BY DEF Still, Unbuffered, Held, Single

\* The committed transactions after a step.
LEMMA KeepsCommits ==
  ASSUME TypeOK, NEW a \in Instances, NEW C, NEW L, Keeps(a, C, L)
  PROVE  /\ \A k \in 1..Len(commits) : k \in 1..Len(commits') /\ commits'[k] = commits[k]
         /\ \A k \in 1..Len(commits') : k \notin 1..Len(commits) =>
                /\ k = Len(commits) + 1
                /\ commits'[k].by = a /\ commits'[k].events = events[a]
                /\ C = IdsIn(events[a])
         /\ \A e \in C : \E k \in 1..Len(commits') : Archives(k, e)'
<1> DEFINE c == [by |-> a, events |-> events[a]]
<1>1. CASE C = {} /\ commits' = commits
  BY <1>1
<1>2. CASE C = IdsIn(events[a]) /\ commits' = Append(commits, c)
  <2>1. /\ commits \in Seq([by : Instances, events : Seq(Nat)])
        /\ c \in [by : Instances, events : Seq(Nat)]
    BY DEF TypeOK
  <2>2. /\ Len(commits) \in Nat /\ Len(commits') = Len(commits) + 1
        /\ \A k \in 1..Len(commits) : commits'[k] = commits[k]
        /\ commits'[Len(commits) + 1] = c
    BY <1>2, <2>1, AppendProperties, LenProperties
  <2>3. c.by = a /\ c.events = events[a]
    OBVIOUS
  <2> HIDE DEF c
  <2>4. PICK n \in Nat : n = Len(commits) + 1
    BY <2>2
  <2>5. n \in 1..Len(commits') /\ commits'[n].events = events[a]
    BY <2>2, <2>3, <2>4
  <2>6. \A e \in C : Archives(n, e)'
    BY <1>2, <2>5 DEF Archives
  <2>7. \A k \in 1..Len(commits) : k \in 1..Len(commits')
    BY <2>2
  <2>8. \A k \in 1..Len(commits') : k \notin 1..Len(commits) => k = Len(commits) + 1
    BY <2>2
  <2>9. \A k \in 1..Len(commits') : k \notin 1..Len(commits) =>
            commits'[k].by = a /\ commits'[k].events = events[a]
    BY <2>2, <2>3, <2>8
  <2> QED  BY <1>2, <2>2, <2>5, <2>6, <2>7, <2>8, <2>9
<1> QED  BY <1>1, <1>2 DEF Keeps

LEMMA KnownNext ==
  ASSUME TypeOK, HolderInv, OrderInv, KnownInv, [Next]_vars
  PROVE  KnownInv'
<1>1. CASE Still
  BY <1>1, StillHold DEF Still, KnownInv
<1>2. ASSUME NEW a \in Instances, NEW n \in Nat, Fetches(a, n)  PROVE KnownInv'
  <2>1. delivered \in Nat /\ 1..delivered \subseteq 1..delivered'
        /\ delivered + 1 .. delivered + n \subseteq 1..delivered'
    BY <1>2 DEF TypeOK, Fetches
  <2>2. Held(a)' \subseteq 1..delivered'
    BY <1>2, <2>1 DEF Fetches, Held, KnownInv
  <2>3. \A b \in Instances \ {a} : Held(b)' = Held(b)
    BY <1>2, OthersHold DEF Fetches
  <2> QED  BY <1>2, <2>1, <2>2, <2>3 DEF Fetches, KnownInv
<1>3. ASSUME NEW a \in Instances, NEW C, NEW L, Keeps(a, C, L)  PROVE KnownInv'
  <2>1. \A b \in Instances \ {a} : Held(b)' = Held(b)
    BY <1>3, OthersHold DEF Keeps
  <2>2. /\ delivered' = delivered /\ Held(a)' \cup C \cup L \subseteq 1..delivered
        /\ lost' \subseteq 1..delivered /\ unsure' \subseteq 1..delivered
    BY <1>3 DEF Keeps, KnownInv
  <2>3. IdsIn(events[a]) \subseteq 1..delivered
    BY DEF KnownInv, Held
  <2>4. \A k \in 1..Len(commits') : IdsIn(commits'[k].events) \subseteq 1..delivered
    <3> SUFFICES ASSUME NEW k \in 1..Len(commits')
                 PROVE  IdsIn(commits'[k].events) \subseteq 1..delivered
      OBVIOUS
    <3>1. CASE k \in 1..Len(commits)
      BY <1>3, <3>1, KeepsCommits DEF KnownInv
    <3>2. CASE k \notin 1..Len(commits)
      BY <1>3, <2>3, <3>2, KeepsCommits
    <3> QED  BY <3>1, <3>2
  <2> QED  BY <2>1, <2>2, <2>4 DEF KnownInv
<1> QED  BY Effects, <1>1, <1>2, <1>3

LEMMA SomewhereNext ==
  ASSUME TypeOK, HolderInv, OrderInv, SomewhereInv, [Next]_vars
  PROVE  SomewhereInv'
<1>1. CASE Still
  BY <1>1, StillHold DEF Still, SomewhereInv, Archives
<1>2. ASSUME NEW a \in Instances, NEW n \in Nat, Fetches(a, n)  PROVE SomewhereInv'
  <2>1. delivered \in Nat /\ \A e \in 1..delivered' : e \in 1..delivered \/ e \in Unbuffered(a)'
    BY <1>2 DEF TypeOK, Fetches
  <2>2. \A b \in Instances : Held(b) \subseteq Held(b)'
    BY <1>2, OthersHold DEF Fetches, Held
  <2>3. \A e \in Unbuffered(a)' : e \in Held(a)'
    BY DEF Held
  <2> QED  BY <1>2, <2>1, <2>2, <2>3 DEF Fetches, SomewhereInv, Archives
<1>3. ASSUME NEW a \in Instances, NEW C, NEW L, Keeps(a, C, L)  PROVE SomewhereInv'
  <2> SUFFICES ASSUME NEW e \in 1..delivered
               PROVE  \/ \E b \in Instances : e \in Held(b)'
                      \/ \E k \in 1..Len(commits') : Archives(k, e)'
                      \/ e \in lost'
    BY <1>3 DEF SomewhereInv, Keeps
  <2>1. ASSUME NEW b \in Instances, e \in Held(b), b # a  PROVE e \in Held(b)'
    BY <1>3, <2>1, OthersHold DEF Keeps
  <2>2. ASSUME e \in Held(a)
        PROVE  \/ e \in Held(a)' \/ e \in lost'
               \/ \E k \in 1..Len(commits') : Archives(k, e)'
    BY <1>3, <2>2, KeepsCommits DEF Keeps
  <2>3. ASSUME NEW k \in 1..Len(commits), Archives(k, e)
        PROVE  k \in 1..Len(commits') /\ Archives(k, e)'
    BY <1>3, <2>3, KeepsCommits DEF Archives
  <2>4. e \in lost => e \in lost'
    BY <1>3 DEF Keeps
  <2> QED  BY <2>1, <2>2, <2>3, <2>4 DEF SomewhereInv
<1> QED  BY Effects, <1>1, <1>2, <1>3
LEMMA OnePlaceNext ==
  ASSUME TypeOK, HolderInv, OrderInv, KnownInv, OnePlaceInv, [Next]_vars
  PROVE  OnePlaceInv'
<1>1. CASE Still
  <2> SUFFICES ASSUME NEW e \in 1..delivered \ unsure
               PROVE  (/\ \A a \in Instances : e \in Held(a) =>
                             /\ Single(a, e)
                             /\ \A b \in Instances : e \in Held(b) => b = a
                             /\ \A k \in 1..Len(commits) : ~Archives(k, e)
                             /\ e \notin lost
                       /\ \A k \in 1..Len(commits) : Archives(k, e) =>
                             /\ \A l \in 1..Len(commits) : Archives(l, e) => l = k
                             /\ e \notin lost)'
    BY <1>1 DEF OnePlaceInv, Still
  <2> QED  BY <1>1, StillHold DEF Still, OnePlaceInv, Archives
<1>2. ASSUME NEW a \in Instances, NEW n \in Nat, Fetches(a, n)  PROVE OnePlaceInv'
  <2>1. /\ delivered \in Nat /\ UNCHANGED <<commits, lost, unsure, buffer, events>>
        /\ Unbuffered(a) = {} /\ Unbuffered(a)' = delivered + 1 .. delivered + n
        /\ delivered' = delivered + n
    BY <1>2 DEF TypeOK, Fetches
  <2>2. \A b \in Instances \ {a} : Held(b)' = Held(b) /\ \A e : Single(b, e)' <=> Single(b, e)
    BY <1>2, OthersHold DEF Fetches
  <2>3. Held(a)' = Held(a) \cup (delivered + 1 .. delivered + n)
    BY <2>1 DEF Held
  <2>4. \A k \in 1..Len(commits) : \A e : Archives(k, e)' <=> Archives(k, e)
    BY <2>1 DEF Archives
  <2>5. ASSUME NEW e \in 1..delivered \ unsure
        PROVE  /\ e \notin Unbuffered(a)' /\ (e \in Held(a)' <=> e \in Held(a))
               /\ Single(a, e)' <=> Single(a, e)
    BY <2>1, <2>3 DEF Single
  <2>6. ASSUME NEW e \in delivered + 1 .. delivered + n
        PROVE  /\ \A b \in Instances : e \notin Held(b)
               /\ \A k \in 1..Len(commits) : ~Archives(k, e)
               /\ e \notin lost
               /\ Single(a, e)'
    <3>1. e \notin 1..delivered
      BY <2>1
    <3>2. e \notin Held(a)
      BY <3>1 DEF KnownInv
    <3>3. Single(a, e)'
      BY <2>1, <3>2 DEF Held, Single
    <3> QED  BY <3>1, <3>3 DEF KnownInv, Archives
  <2>7. \A e \in 1..delivered' : e \in 1..delivered \/ e \in delivered + 1 .. delivered + n
    BY <2>1
  <2> SUFFICES ASSUME NEW e \in 1..delivered' \ unsure
               PROVE  /\ \A b \in Instances : e \in Held(b)' =>
                             /\ Single(b, e)'
                             /\ \A d \in Instances : e \in Held(d)' => d = b
                             /\ \A k \in 1..Len(commits) : ~Archives(k, e)
                             /\ e \notin lost
                      /\ \A k \in 1..Len(commits) : Archives(k, e) =>
                             /\ \A l \in 1..Len(commits) : Archives(l, e) => l = k
                             /\ e \notin lost
    BY <2>1, <2>4 DEF OnePlaceInv
  <2>8. CASE e \in 1..delivered
    BY <2>2, <2>5, <2>8 DEF OnePlaceInv
  <2>9. CASE e \in delivered + 1 .. delivered + n
    BY <2>2, <2>6, <2>9
  <2> QED  BY <2>7, <2>8, <2>9
<1>3. ASSUME NEW a \in Instances, NEW C, NEW L, Keeps(a, C, L)  PROVE OnePlaceInv'
  <2>1. \A b \in Instances \ {a} : Held(b)' = Held(b) /\ \A e : Single(b, e)' <=> Single(b, e)
    BY <1>3, OthersHold DEF Keeps
  <2> SUFFICES ASSUME NEW e \in 1..delivered \ unsure'
               PROVE  /\ \A b \in Instances : e \in Held(b)' =>
                             /\ Single(b, e)'
                             /\ \A d \in Instances : e \in Held(d)' => d = b
                             /\ \A k \in 1..Len(commits') : ~Archives(k, e)'
                             /\ e \notin lost'
                      /\ \A k \in 1..Len(commits') : Archives(k, e)' =>
                             /\ \A l \in 1..Len(commits') : Archives(l, e)' => l = k
                             /\ e \notin lost'
    BY <1>3 DEF OnePlaceInv, Keeps
  <2>2. e \notin unsure /\ lost' = lost \cup L /\ Held(a)' \cup C \cup L = Held(a)
    BY <1>3 DEF Keeps
  <2>3. \A k \in 1..Len(commits') : Archives(k, e)' =>
            \/ k \in 1..Len(commits) /\ Archives(k, e)
            \/ k = Len(commits) + 1 /\ k \notin 1..Len(commits) /\ e \in C
    BY <1>3, KeepsCommits DEF Archives
  <2>4. CASE e \in Held(a)
    <3>1. /\ Single(a, e) /\ e \notin lost
          /\ \A b \in Instances \ {a} : e \notin Held(b)
          /\ \A k \in 1..Len(commits) : ~Archives(k, e)
      BY <2>2, <2>4 DEF OnePlaceInv
    <3>2. /\ Single(a, e)' /\ (e \in C \cup L => e \notin Held(a)')
          /\ ~(e \in C /\ e \in L)
      BY <1>3, <2>4, <3>1 DEF Keeps
    <3> QED  BY <2>1, <2>2, <2>3, <3>1, <3>2
  <2>5. CASE e \notin Held(a)
    <3>1. e \notin Held(a)' /\ e \notin C /\ e \notin L
      BY <2>2, <2>5
    <3> QED  BY <2>1, <2>2, <2>3, <3>1 DEF OnePlaceInv
  <2> QED  BY <2>4, <2>5
<1> QED  BY Effects, <1>1, <1>2, <1>3

LEMMA OrderNext ==
  ASSUME TypeOK, HolderInv, OrderInv, KnownInv, [Next]_vars
  PROVE  OrderInv'
<1>1. CASE Still
  BY <1>1, StillHold DEF Still, OrderInv
<1>2. ASSUME NEW a \in Instances, NEW n \in Nat, Fetches(a, n)  PROVE OrderInv'
  <2>1. /\ delivered \in Nat /\ UNCHANGED <<commits, unsure, buffer, events>>
        /\ Unbuffered(a) = {} /\ Unbuffered(a)' = delivered + 1 .. delivered + n
    BY <1>2 DEF TypeOK, Fetches
  <2>2. \A b \in Instances \ {a} : Held(b)' = Held(b) /\ Unbuffered(b)' = Unbuffered(b)
    BY <1>2, OthersHold DEF Fetches, Others
  <2>3. Held(a)' = Held(a) \cup (delivered + 1 .. delivered + n)
    BY <2>1 DEF Held
  <2>4. \A e \in 1..delivered, f \in delivered + 1 .. delivered + n : e < f
    BY <2>1
  <2>5. \A e \in IdsIn(buffer[a]) \cup IdsIn(events[a]), f \in Unbuffered(a)' : e < f
    BY <2>1, <2>4 DEF KnownInv, Held
  <2>6. \A k \in 1..Len(commits) : commits[k].by = a =>
               \A e \in IdsIn(commits[k].events) \ unsure, f \in Held(a)' : e < f
    BY <2>3, <2>4 DEF KnownInv, OrderInv
  <2> QED  BY <2>1, <2>2, <2>5, <2>6 DEF OrderInv
<1>3. ASSUME NEW a \in Instances, NEW C, NEW L, Keeps(a, C, L)  PROVE OrderInv'
  <2>1. /\ unsure \subseteq unsure' /\ Held(a)' \subseteq Held(a)
        /\ Increasing(buffer'[a]) /\ Increasing(events'[a])
        /\ \A e \in IdsIn(buffer'[a]) \cup IdsIn(events'[a]), f \in Unbuffered(a)' : e < f
        /\ \A e \in C \ unsure', f \in Held(a)' : e < f
    BY <1>3 DEF Keeps
  <2>2. \A b \in Instances \ {a} : /\ Held(b)' = Held(b) /\ Unbuffered(b)' = Unbuffered(b)
                                   /\ buffer'[b] = buffer[b] /\ events'[b] = events[b]
    BY <1>3, OthersHold DEF Keeps, Others
  <2>3. ASSUME NEW b \in Instances, NEW k \in 1..Len(commits'), commits'[k].by = b,
               NEW e \in IdsIn(commits'[k].events) \ unsure', NEW f \in Held(b)'
        PROVE  e < f
    <3>1. CASE k \in 1..Len(commits)
      <4>1. commits'[k] = commits[k] /\ f \in Held(b) /\ e \notin unsure
        BY <1>3, <2>1, <2>2, <3>1, KeepsCommits
      <4> QED  BY <2>3, <3>1, <4>1 DEF OrderInv
    <3>2. CASE k \notin 1..Len(commits)
      <4>1. b = a /\ e \in C
        BY <1>3, <2>3, <3>2, KeepsCommits
      <4> QED  BY <2>1, <4>1
    <3> QED  BY <3>1, <3>2
  <2>4. \A b \in Instances :
           /\ Increasing(buffer'[b]) /\ Increasing(events'[b])
           /\ \A e \in IdsIn(buffer'[b]) \cup IdsIn(events'[b]), f \in Unbuffered(b)' : e < f
    BY <2>1, <2>2 DEF OrderInv
  <2> QED  BY <2>3, <2>4 DEF OrderInv
<1> QED  BY Effects, <1>1, <1>2, <1>3

PlaceInv == KnownInv /\ SomewhereInv /\ OnePlaceInv /\ OrderInv

LEMMA InitPlace == Init => PlaceInv
<1> SUFFICES ASSUME Init  PROVE PlaceInv
  OBVIOUS
<1>1. /\ delivered = 0 /\ commits = <<>> /\ lost = {} /\ unsure = {}
      /\ \A a \in Instances : Held(a) = {} /\ buffer[a] = <<>> /\ events[a] = <<>>
  BY NoIds DEF Init, Held, Unbuffered
<1>2. 1..Len(commits) = {} /\ 1..delivered = {}
  BY <1>1
<1>3. KnownInv
  BY <1>1, <1>2 DEF KnownInv
<1>4. SomewhereInv
  BY <1>2 DEF SomewhereInv
<1>5. OnePlaceInv
  BY <1>2 DEF OnePlaceInv
<1>6. OrderInv
  BY <1>1, <1>2, NoIds DEF OrderInv
<1> QED
  BY <1>3, <1>4, <1>5, <1>6 DEF PlaceInv

\* Every delivered entry is in one of the places it can be in, no entry is in two,
\* and no instance archives entries out of order.
THEOREM PlaceInvariant == Spec => []PlaceInv
<1>1. TypeOK /\ HolderInv /\ PlaceInv /\ [Next]_vars => PlaceInv'
  BY KnownNext, SomewhereNext, OnePlaceNext, OrderNext DEF PlaceInv
<1> QED  BY InitPlace, TypeCorrect, <1>1, PTL DEF Spec

LEMMA Sizes ==
  ASSUME NEW S, IsFiniteSet(S)
  PROVE  /\ Cardinality(S) \in Nat
         /\ S = {} => Cardinality(S) = 0
         /\ S # {} => Cardinality(S) >= 1
         /\ \A x : S = {x} => Cardinality(S) = 1
<1>1. Cardinality(S) \in Nat
  BY FS_CardinalityType
<1>2. S = {} <=> Cardinality(S) = 0
  BY FS_EmptySet
<1>3. \A x : S = {x} => Cardinality(S) = 1
  BY FS_Singleton
<1>4. S # {} => Cardinality(S) >= 1
  BY <1>1, <1>2
<1> QED  BY <1>1, <1>2, <1>3, <1>4

LEMMA PlacesAreFinite ==
  ASSUME TypeOK, NEW e
  PROVE  /\ IsFiniteSet(Carriers(e)) /\ IsFiniteSet(Bufferers(e)) /\ IsFiniteSet(Writers(e))
         /\ IsFiniteSet(Archivings(e)) /\ IsFiniteSet({e} \cap lost)
<1>1. IsFiniteSet(Instances)
  BY LimitsAssumption
<1>2. Carriers(e) \in SUBSET Instances /\ Bufferers(e) \in SUBSET Instances
      /\ Writers(e) \in SUBSET Instances
  BY DEF Carriers, Bufferers, Writers
<1>3. IsFiniteSet(1..Len(commits))
  BY LenProperties, FS_Interval DEF TypeOK
<1>4. Archivings(e) \in SUBSET (1..Len(commits))
  BY DEF Archivings
<1>5. IsFiniteSet({e}) /\ {e} \cap lost \in SUBSET {e}
  BY FS_Singleton
<1> QED  BY <1>1, <1>2, <1>3, <1>4, <1>5, FS_Subset

\* An entry the group delivered is archived once, whatever instances crash or are
\* stopped and whichever transactions fail: unless an instance lost it or still has
\* it, one transaction archived it, and two only if one was retried after its COMMIT.
THEOREM EntriesAreArchivedOnce == Spec => []ArchivedOnce
<1>1. ASSUME TypeOK, PlaceInv  PROVE ArchivedOnce
  <2> SUFFICES ASSUME NEW e \in 1..delivered
               PROVE  LET places == Cardinality(Carriers(e)) + Cardinality(Bufferers(e))
                                      + Cardinality(Writers(e)) + Cardinality(Archivings(e))
                                      + Cardinality({e} \cap lost)
                      IN  places >= 1 /\ (e \notin unsure => places = 1)
    BY DEF ArchivedOnce
  <2> DEFINE U == Carriers(e)
             B == Bufferers(e)
             W == Writers(e)
             A == Archivings(e)
             L == {e} \cap lost
  <2>1. /\ IsFiniteSet(U) /\ IsFiniteSet(B) /\ IsFiniteSet(W) /\ IsFiniteSet(A)
        /\ IsFiniteSet(L)
    BY <1>1, PlacesAreFinite
  <2>2. /\ \A a : a \in U <=> a \in Instances /\ e \in Unbuffered(a)
        /\ \A a : a \in B <=> a \in Instances /\ e \in IdsIn(buffer[a])
        /\ \A a : a \in W <=> a \in Instances /\ e \in IdsIn(events[a])
        /\ \A k : k \in A <=> k \in 1..Len(commits) /\ Archives(k, e)
        /\ \A a \in Instances : e \in Held(a) <=> a \in U \/ a \in B \/ a \in W
    BY DEF Carriers, Bufferers, Writers, Archivings, Archives, Held
  <2>3. L = IF e \in lost THEN {e} ELSE {}
    OBVIOUS
  <2> HIDE DEF U, B, W, A, L
  <2>4. U # {} \/ B # {} \/ W # {} \/ A # {} \/ L # {}
    BY <1>1, <2>2, <2>3 DEF PlaceInv, SomewhereInv
  <2>5. /\ Cardinality(U) + Cardinality(B) + Cardinality(W) + Cardinality(A)
             + Cardinality(L) >= 1
    BY <2>1, <2>4, Sizes
  <2>6. Cardinality({}) = 0 /\ \A x : Cardinality({x}) = 1
    BY FS_EmptySet, FS_Singleton
  <2>7. ASSUME e \notin unsure
        PROVE  Cardinality(U) + Cardinality(B) + Cardinality(W) + Cardinality(A)
                 + Cardinality(L) = 1
    <3>1. CASE \E a \in Instances : e \in Held(a)
      <4>1. PICK a \in Instances : e \in Held(a)
        BY <3>1
      <4>2. /\ Single(a, e) /\ \A b \in Instances : e \in Held(b) => b = a
            /\ A = {} /\ L = {}
        BY <1>1, <2>2, <2>3, <2>7, <4>1 DEF PlaceInv, OnePlaceInv
      <4>3. U \subseteq {a} /\ B \subseteq {a} /\ W \subseteq {a}
        BY <2>2, <4>2
      <4>4. a \in U \/ a \in B \/ a \in W
        BY <2>2, <4>1
      <4>5. ~(a \in U /\ a \in B) /\ ~(a \in U /\ a \in W) /\ ~(a \in B /\ a \in W)
        BY <2>2, <4>2 DEF Single
      <4>6. \/ U = {a} /\ B = {} /\ W = {}
            \/ U = {} /\ B = {a} /\ W = {}
            \/ U = {} /\ B = {} /\ W = {a}
        BY <4>3, <4>4, <4>5
      <4>7. Cardinality(A) = 0 /\ Cardinality(L) = 0
        BY <2>6, <4>2
      <4>8. CASE U = {a} /\ B = {} /\ W = {}
        <5>1. Cardinality(U) = 1 /\ Cardinality(B) = 0 /\ Cardinality(W) = 0
          BY <2>6, <4>8
        <5> QED  BY <4>7, <5>1
      <4>9. CASE U = {} /\ B = {a} /\ W = {}
        <5>1. Cardinality(U) = 0 /\ Cardinality(B) = 1 /\ Cardinality(W) = 0
          BY <2>6, <4>9
        <5> QED  BY <4>7, <5>1
      <4>10. CASE U = {} /\ B = {} /\ W = {a}
        <5>1. Cardinality(U) = 0 /\ Cardinality(B) = 0 /\ Cardinality(W) = 1
          BY <2>6, <4>10
        <5> QED  BY <4>7, <5>1
      <4> QED  BY <4>6, <4>8, <4>9, <4>10
    <3>2. CASE \A a \in Instances : e \notin Held(a)
      <4>1. U = {} /\ B = {} /\ W = {}
        BY <2>2, <3>2
      <4>2. CASE A # {}
        <5>1. PICK k \in A : TRUE
          BY <4>2
        <5>2. A = {k} /\ L = {}
          BY <1>1, <2>2, <2>3, <2>7, <5>1 DEF PlaceInv, OnePlaceInv
        <5> QED  BY <2>6, <4>1, <5>2
      <4>3. CASE A = {}
        <5>1. L = {e}
          BY <2>3, <2>4, <4>1, <4>3
        <5> QED  BY <2>6, <4>1, <4>3, <5>1
      <4> QED  BY <4>2, <4>3
    <3> QED  BY <3>1, <3>2
  <2> QED  BY <2>5, <2>7 DEF U, B, W, A, L
<1> QED  BY <1>1, TypeCorrect, PlaceInvariant, PTL
-----------------------------------------------------------------------------
(* The order of the rows.                                                  *)

LEMMA NewRowFacts ==
  ASSUME TypeOK, OrderInv, NEW a \in Instances
  PROVE  /\ \A r \in NewRows(a) :
                r.by = a /\ r.entry \in IdsIn(events[a]) /\ base[a] < r.seq /\ r.seq \in Nat
         /\ \A r, s \in NewRows(a) : r.entry < s.entry => r.seq < s.seq
<1> DEFINE P == Places(a, RowEvents)
           rank(i) == Cardinality(P \cap 1..i)
           row(i) == [entry |-> events[a][i], seq |-> base[a] + rank(i), by |-> a]
<1>1. /\ events[a] \in Seq(Nat) /\ Len(events[a]) \in Nat /\ base[a] \in Nat
      /\ P \in SUBSET (1..Len(events[a])) /\ Increasing(events[a])
  <2>1. events[a] \in Seq(Nat) /\ base[a] \in Nat /\ Increasing(events[a])
    BY DEF TypeOK, OrderInv
  <2>2. Len(events[a]) \in Nat
    BY <2>1, LenProperties
  <2>3. P \in SUBSET (1..Len(events[a]))
    BY DEF Places
  <2> QED  BY <2>1, <2>2, <2>3
<1>2. NewRows(a) = {row(i) : i \in P}
  BY DEF NewRows
<1> HIDE DEF P
<1>3. /\ Cardinality(P) \in Nat
      /\ \A i \in P : rank(i) \in 1..Cardinality(P)
      /\ \A i, j \in P : i < j => rank(i) < rank(j)
  BY <1>1, Ranks
<1> HIDE DEF rank
<1>4. \A i \in P : /\ row(i).seq = base[a] + rank(i) /\ row(i).by = a
                    /\ row(i).entry = events[a][i]
  OBVIOUS
<1> HIDE DEF row
<1>5. ASSUME NEW i \in P
      PROVE  /\ row(i).by = a /\ row(i).entry \in IdsIn(events[a])
             /\ base[a] < row(i).seq /\ row(i).seq \in Nat
  <2>1. i \in 1..Len(events[a]) /\ rank(i) \in Nat /\ rank(i) >= 1
    BY <1>1, <1>3
  <2>2. row(i).seq = base[a] + rank(i) /\ row(i).by = a /\ row(i).entry = events[a][i]
    BY <1>4
  <2>3. base[a] < base[a] + rank(i) /\ base[a] + rank(i) \in Nat
    BY <1>1, <2>1
  <2>4. events[a][i] \in IdsIn(events[a])
    BY <1>1, <2>1 DEF IdsIn
  <2> QED  BY <2>2, <2>3, <2>4
<1>6. ASSUME NEW i \in P, NEW j \in P, row(i).entry < row(j).entry
      PROVE  row(i).seq < row(j).seq
  <2>1. i \in 1..Len(events[a]) /\ j \in 1..Len(events[a]) /\ events[a][i] < events[a][j]
        /\ events[a][i] \in Nat /\ events[a][j] \in Nat
    BY <1>1, <1>4, <1>6
  <2>2. i # j /\ ~(j < i)
    BY <1>1, <2>1 DEF Increasing
  <2>3. rank(i) < rank(j) /\ rank(i) \in Nat /\ rank(j) \in Nat
    BY <1>3, <2>1, <2>2
  <2> QED  BY <1>1, <1>4, <2>3
<1> QED  BY <1>2, <1>5, <1>6

\* The committed transactions after Commits(a).
LEMMA CommitsCommits ==
  ASSUME TypeOK, NEW a \in Instances, Commits(a)
  PROVE  /\ \A k \in 1..Len(commits) : k \in 1..Len(commits') /\ commits'[k] = commits[k]
         /\ \A k \in 1..Len(commits') : k \notin 1..Len(commits) =>
                commits'[k].by = a /\ commits'[k].events = events[a]
         /\ \E k \in 1..Len(commits') :
                commits'[k].by = a /\ commits'[k].events = events[a]
<1> DEFINE c == [by |-> a, events |-> events[a]]
<1>1. /\ commits \in Seq([by : Instances, events : Seq(Nat)])
      /\ c \in [by : Instances, events : Seq(Nat)]
      /\ commits' = Append(commits, c)
  BY DEF TypeOK, Commits, Apply
<1>2. /\ Len(commits) \in Nat /\ Len(commits') = Len(commits) + 1
      /\ \A k \in 1..Len(commits) : commits'[k] = commits[k]
      /\ commits'[Len(commits) + 1] = c
  BY <1>1, AppendProperties, LenProperties
<1>3. c.by = a /\ c.events = events[a]
  OBVIOUS
<1> HIDE DEF c
<1>4. \A k \in 1..Len(commits') : k \in 1..Len(commits) \/ k = Len(commits) + 1
  BY <1>2
<1>5. Len(commits) + 1 \in 1..Len(commits')
  BY <1>2
<1>6. \A k \in 1..Len(commits) : k \in 1..Len(commits')
  BY <1>2
<1> QED  BY <1>2, <1>3, <1>4, <1>5, <1>6

LEMMA RowNext ==
  ASSUME TypeOK, HolderInv, NumbersInv, OrderInv, RowInv, [Next]_vars
  PROVE  RowInv'
<1>1. CASE NoTransaction
  BY <1>1 DEF NoTransaction, RowInv, Archives
<1>2. ASSUME NEW a \in Instances, ReadMax(a)  PROVE RowInv'
  <2>1. /\ UNCHANGED <<rows, commits, unsure>> /\ base'[a] = LastSeq(a)
        /\ \A b \in Instances \ {a} : base'[b] = base[b] /\ stage'[b] = stage[b]
    BY <1>2 DEF ReadMax, database, history, TypeOK
  <2>2. \A r \in rows : r.seq <= LastSeq(a)
    BY LastSeqIsMax DEF NumbersInv
  <2> QED  BY <2>1, <2>2 DEF RowInv, Archives
<1>3. ASSUME NEW a \in Instances, LoadJob(a)  PROVE RowInv'
  <2>1. /\ UNCHANGED <<rows, commits, unsure, base>>
        /\ \A b \in Instances : stage'[b] # "max" => stage[b] # "max"
    BY <1>3 DEF LoadJob, database, history, TypeOK
  <2> QED  BY <2>1 DEF RowInv, Archives
<1>4. ASSUME NEW a \in Instances, Aborts(a)  PROVE RowInv'
  <2>1. /\ UNCHANGED <<rows, commits, unsure>> /\ stage'[a] = "max"
        /\ \A b \in Instances \ {a} : base'[b] = base[b] /\ stage'[b] = stage[b]
    BY <1>4 DEF Aborts, EndFlush, TypeOK
  <2> QED  BY <2>1 DEF RowInv, Archives
<1>5. ASSUME NEW a \in Instances, Commits(a)  PROVE RowInv'
  <2>1. /\ rows' = rows \cup NewRows(a) /\ unsure \subseteq unsure' /\ stage'[a] = "max"
        /\ stage[a] = "commit"
        /\ \A b \in Instances \ {a} : base'[b] = base[b] /\ stage'[b] = stage[b]
    BY <1>5 DEF Commits, Apply, EndFlush, TypeOK
  <2>2. /\ \A r \in NewRows(a) :
               r.by = a /\ r.entry \in IdsIn(events[a]) /\ base[a] < r.seq /\ r.seq \in Nat
        /\ \A r, s \in NewRows(a) : r.entry < s.entry => r.seq < s.seq
    BY NewRowFacts
  <2>3. ASSUME NEW r \in rows'
        PROVE  \E k \in 1..Len(commits') :
                   commits'[k].by = r.by /\ r.entry \in IdsIn(commits'[k].events)
    <3>1. CASE r \in rows
      <4>1. PICK k \in 1..Len(commits) : commits[k].by = r.by /\ Archives(k, r.entry)
        BY <3>1 DEF RowInv
      <4>2. k \in 1..Len(commits') /\ commits'[k] = commits[k]
        BY <1>5, CommitsCommits
      <4> QED  BY <4>1, <4>2 DEF Archives
    <3>2. CASE r \in NewRows(a)
      BY <1>5, <2>2, <3>2, CommitsCommits
    <3> QED  BY <2>1, <3>1, <3>2
  <2>4. \A b \in Instances : stage'[b] # "max" =>
            \A r \in rows' : r.by = b => r.seq <= base'[b]
    BY <2>1, <2>2 DEF RowInv
  <2>5. \A r \in rows : r.by = a => r.seq <= base[a]
    BY <2>1 DEF RowInv
  <2>6. \A r \in rows : r.by = a /\ r.entry \notin unsure =>
            \A e \in IdsIn(events[a]) : r.entry < e
    BY DEF RowInv, OrderInv, Held, Archives
  <2>7. base[a] \in Nat /\ rows \subseteq Row /\ IdsIn(events[a]) \subseteq Nat
        /\ \A r \in rows : r.seq \in Nat /\ r.entry \in Nat
    <3>1. events[a] \in Seq(Nat) /\ base[a] \in Nat /\ rows \subseteq Row
      BY DEF TypeOK
    <3>2. RowEvents \subseteq Nat
      BY EntriesAssumption
    <3>3. IdsIn(events[a]) \subseteq Nat
      BY <3>1, IdsAreNat
    <3>4. \A r \in rows : r.seq \in Nat /\ r.entry \in Nat
      BY <3>1, <3>2 DEF Row
    <3> QED  BY <3>1, <3>3, <3>4
  <2>8. ASSUME NEW r \in rows', NEW s \in rows', r.by = s.by, r.entry < s.entry,
               {r.entry, s.entry} \cap unsure' = {}
        PROVE  r.seq < s.seq
    <3>1. r.entry \notin unsure /\ s.entry \notin unsure
      BY <2>1, <2>8
    <3>2. CASE r \in rows /\ s \in rows
      BY <2>8, <3>1, <3>2 DEF RowInv
    <3>3. CASE r \in NewRows(a) /\ s \in NewRows(a)
      BY <2>2, <2>8, <3>3
    <3>4. CASE r \in rows /\ s \in NewRows(a)
      <4>1. r.seq <= base[a] /\ base[a] < s.seq
        BY <2>2, <2>5, <2>8, <3>4
      <4> QED  BY <2>2, <2>7, <3>4, <4>1
    <3>5. CASE r \in NewRows(a) /\ s \in rows
      <4>1. s.entry < r.entry /\ r.entry \in Nat /\ s.entry \in Nat
        BY <2>2, <2>6, <2>7, <2>8, <3>1, <3>5
      <4> QED  BY <2>8, <4>1
    <3> QED  BY <2>1, <3>2, <3>3, <3>4, <3>5
  <2> QED  BY <2>3, <2>4, <2>8 DEF RowInv, Archives
<1>6. CASE Saves
  BY <1>6 DEF Saves, RowInv, Archives
<1> QED  BY Transactions, <1>1, <1>2, <1>3, <1>4, <1>5, <1>6

\* The messages of a job are numbered from 1 without a hole, whatever instances
\* insert at the same time, and in the order of the stream by each instance.
THEOREM RowsAreNumberedInOrder == Spec => []NumberedInOrder
<1>1. Init => RowInv
  BY DEF Init, RowInv
<1>2. TypeOK /\ HolderInv /\ NumbersInv /\ PlaceInv /\ RowInv /\ [Next]_vars => RowInv'
  BY RowNext DEF PlaceInv
<1>3. TypeOK /\ NumbersInv /\ RowInv => NumberedInOrder
  <2> SUFFICES ASSUME TypeOK, NumbersInv, RowInv,
                      NEW r \in rows, NEW n \in 1 .. r.seq - 1
               PROVE  \E s \in rows : s.seq = n
    BY DEF NumberedInOrder, RowInv
  <2>1. PICK m \in Nat : {q.seq : q \in rows} = 1..m
    BY DEF NumbersInv
  <2>2. r.seq \in 1..m
    BY <2>1
  <2>3. n \in 1..m
    BY <2>2
  <2> QED  BY <2>1, <2>3
<1> QED  BY <1>1, <1>2, <1>3, TypeCorrect, PlaceInvariant, PTL DEF Spec
-----------------------------------------------------------------------------
(* The status.                                                             *)

\* What a transaction makes of the job: the last change it holds, if any.
LEMMA NewStatusFacts ==
  ASSUME TypeOK, OrderInv, NEW a \in Instances
  PROVE  \/ /\ \A e \in Changes : e \notin IdsIn(events[a])
            /\ NewStatus(a) = loaded[a]
         \/ \E e \in Changes :
                /\ e \in IdsIn(events[a])
                /\ \A f \in Changes : f \in IdsIn(events[a]) => f <= e
                /\ NewStatus(a) = IF e \in StartEvents THEN "running" ELSE "ended"
<1> DEFINE P == Places(a, Changes)
           last == CHOOSE i \in P : \A j \in P : j <= i
<1>1. /\ events[a] \in Seq(Nat) /\ Len(events[a]) \in Nat /\ Increasing(events[a])
      /\ P \in SUBSET (1..Len(events[a]))
      /\ \A i \in 1..Len(events[a]) : events[a][i] \in Nat
      /\ \A i \in 1..Len(events[a]) : i \in P <=> events[a][i] \in Changes
  BY LenProperties DEF TypeOK, Places, OrderInv
<1>2. NewStatus(a) = IF P = {} THEN loaded[a]
                     ELSE IF events[a][last] \in StartEvents THEN "running" ELSE "ended"
  BY DEF NewStatus, Changes
<1> HIDE DEF P
<1>3. CASE P = {}
  <2>1. \A e \in Changes : e \notin IdsIn(events[a])
    BY <1>1, <1>3 DEF IdsIn
  <2> QED  BY <1>2, <1>3, <2>1
<1>4. CASE P # {}
  <2>1. \E i \in P : \A j \in P : j <= i
    BY <1>1, <1>4, LastPlace
  <2>2. last \in P /\ \A j \in P : j <= last
    BY <2>1
  <2> HIDE DEF last
  <2>3. last \in 1..Len(events[a]) /\ events[a][last] \in Changes
    BY <1>1, <2>2
  <2>4. events[a][last] \in IdsIn(events[a])
    BY <2>3 DEF IdsIn
  <2>5. ASSUME NEW f \in Changes, f \in IdsIn(events[a])  PROVE f <= events[a][last]
    <3>1. PICK j \in 1..Len(events[a]) : f = events[a][j]
      BY <2>5 DEF IdsIn
    <3>2. j \in P /\ j <= last
      BY <1>1, <2>2, <2>5, <3>1
    <3>3. j = last \/ j < last
      BY <2>3, <3>2
    <3> QED  BY <1>1, <2>3, <3>1, <3>3 DEF Increasing
  <2> QED  BY <1>2, <1>4, <2>3, <2>4, <2>5
<1> QED  BY <1>3, <1>4

LEMMA StatusNext ==
  ASSUME TypeOK, HolderInv, OrderInv, StatusInv, [Next]_vars
  PROVE  StatusInv'
<1>1. CASE NoTransaction
  BY <1>1 DEF NoTransaction, StatusInv, OnlyBy, IsCommitted, Archives
<1>2. ASSUME NEW a \in Instances, ReadMax(a)  PROVE StatusInv'
  <2>1. /\ UNCHANGED <<status, commits, unsure, loaded, reopened>>
        /\ \A b \in Instances : stage'[b] = "commit" => stage[b] = "commit"
    BY <1>2 DEF ReadMax, database, history, TypeOK
  <2> QED  BY <2>1 DEF StatusInv, OnlyBy, IsCommitted, Archives
<1>3. ASSUME NEW a \in Instances, LoadJob(a)  PROVE StatusInv'
  <2>1. /\ UNCHANGED <<status, commits, unsure, reopened>> /\ loaded'[a] = status
        /\ \A b \in Instances \ {a} : stage'[b] = stage[b] /\ loaded'[b] = loaded[b]
    BY <1>3 DEF LoadJob, database, history, TypeOK
  <2> QED  BY <2>1 DEF StatusInv, OnlyBy, IsCommitted, Archives
<1>4. ASSUME NEW a \in Instances, Aborts(a)  PROVE StatusInv'
  <2>1. /\ UNCHANGED <<status, commits, unsure, reopened>> /\ stage'[a] = "max"
        /\ \A b \in Instances \ {a} : stage'[b] = stage[b] /\ loaded'[b] = loaded[b]
    BY <1>4 DEF Aborts, EndFlush, TypeOK
  <2> QED  BY <2>1 DEF StatusInv, OnlyBy, IsCommitted, Archives
<1>5. ASSUME NEW a \in Instances, Commits(a)  PROVE StatusInv'
  <2>1. /\ \/ NewStatus(a) # loaded[a] /\ status' = NewStatus(a)
           \/ NewStatus(a) = loaded[a] /\ status' = status
           \/ NewStatus(a) = "ended" /\ Places(a, EndEvents) # {} /\ status' = "ended"
        /\ stage[a] = "commit" /\ unsure \subseteq unsure' /\ stage'[a] = "max"
        /\ reopened' = reopened
        /\ \A b \in Instances \ {a} : stage'[b] = stage[b] /\ loaded'[b] = loaded[b]
    BY <1>5 DEF Commits, Apply, EndFlush, TypeOK
  <2> SUFFICES ASSUME NEW b \in Instances, OnlyBy(b)', ~reopened
               PROVE  /\ \A e \in EndEvents :
                             IsCommitted(e)' /\ (\A f \in Changes : IsCommitted(f)' => f <= e)
                             => status' = "ended"
                      /\ stage'[b] = "commit" /\ loaded'[b] = "ended" => status' = "ended"
    BY <2>1 DEF StatusInv
  <2>2. OnlyBy(b)
    <3> SUFFICES ASSUME NEW k \in 1..Len(commits), NEW e \in Changes, Archives(k, e)
                 PROVE  commits[k].by = b /\ e \notin unsure
      BY DEF OnlyBy
    <3>1. k \in 1..Len(commits') /\ commits'[k] = commits[k]
      BY <1>5, CommitsCommits
    <3> QED  BY <2>1, <3>1 DEF OnlyBy, Archives
  <2>3. \A e : IsCommitted(e)' <=> IsCommitted(e) \/ e \in IdsIn(events[a])
    <3> SUFFICES ASSUME NEW e
                 PROVE  IsCommitted(e)' <=> IsCommitted(e) \/ e \in IdsIn(events[a])
      OBVIOUS
    <3>1. ASSUME NEW k \in 1..Len(commits'), Archives(k, e)'
          PROVE  IsCommitted(e) \/ e \in IdsIn(events[a])
      BY <1>5, <3>1, CommitsCommits DEF IsCommitted, Archives
    <3>2. ASSUME NEW k \in 1..Len(commits), Archives(k, e)
          PROVE  k \in 1..Len(commits') /\ Archives(k, e)'
      BY <1>5, <3>2, CommitsCommits DEF Archives
    <3>3. ASSUME e \in IdsIn(events[a])
          PROVE  \E k \in 1..Len(commits') : Archives(k, e)'
      BY <1>5, <3>3, CommitsCommits DEF Archives
    <3> QED  BY <3>1, <3>2, <3>3 DEF IsCommitted
  <2>4. CASE /\ \A e \in Changes : e \notin IdsIn(events[a])
             /\ NewStatus(a) = loaded[a]
    <3>1. Places(a, EndEvents) = {}
      BY <2>4 DEF Places, IdsIn, Changes
    <3>2. status' = status /\ \A e \in Changes : IsCommitted(e)' <=> IsCommitted(e)
      BY <2>1, <2>3, <2>4, <3>1
    <3>3. EndEvents \subseteq Changes
      BY DEF Changes
    <3> QED  BY <2>1, <2>2, <3>2, <3>3 DEF StatusInv
  <2>5. ASSUME NEW e \in Changes, e \in IdsIn(events[a]),
               \A f \in Changes : f \in IdsIn(events[a]) => f <= e,
               NewStatus(a) = IF e \in StartEvents THEN "running" ELSE "ended"
        PROVE  /\ \A f \in EndEvents :
                      IsCommitted(f)' /\ (\A g \in Changes : IsCommitted(g)' => g <= f)
                      => status' = "ended"
               /\ stage'[b] = "commit" /\ loaded'[b] = "ended" => status' = "ended"
    <3>1. PICK k \in 1..Len(commits') : commits'[k].by = a /\ commits'[k].events = events[a]
      BY <1>5, CommitsCommits
    <3>2. b = a
      BY <2>5, <3>1 DEF OnlyBy, Archives
    <3>3. loaded[a] = "ended" => status = "ended"
      BY <2>1, <2>2, <3>2 DEF StatusInv
    <3>4. NewStatus(a) = "ended" => status' = "ended"
      BY <2>1, <3>3
    <3>5. ASSUME NEW f \in Changes, IsCommitted(f)  PROVE f < e
      <4>1. PICK l \in 1..Len(commits) : Archives(l, f)
        BY <3>5 DEF IsCommitted
      <4>2. commits[l].by = a /\ f \notin unsure
        BY <2>2, <3>2, <4>1 DEF OnlyBy
      <4> QED  BY <2>5, <4>1, <4>2 DEF OrderInv, Archives, Held
    <3>6. IsCommitted(e)' /\ Changes \subseteq Nat
      BY <2>3, <2>5, EntriesAssumption DEF Changes
    <3>7. ASSUME NEW f \in Changes, IsCommitted(f)',
                 \A g \in Changes : IsCommitted(g)' => g <= f
          PROVE  f = e
      <4>1. e <= f
        BY <3>6, <3>7
      <4>2. f <= e
        BY <2>3, <2>5, <3>5, <3>6, <3>7
      <4> QED  BY <3>6, <4>1, <4>2
    <3>8. \A f \in EndEvents : f \in Changes /\ f \notin StartEvents
      BY EntriesAssumption DEF Changes
    <3> QED  BY <2>1, <2>5, <3>2, <3>4, <3>7, <3>8
  <2> QED  BY <2>4, <2>5, NewStatusFacts
<1>6. CASE Saves
  BY <1>6 DEF Saves, StatusInv, OnlyBy, IsCommitted, Archives
<1> QED  BY Transactions, <1>1, <1>2, <1>3, <1>4, <1>5, <1>6

\* A job whose starts and ends one instance archived, none of them retried after its
\* COMMIT, is not left running, when the last of them is an end and no service takes
\* the end back.
THEOREM EndedJobsStayEnded ==
  ASSUME \E e \in EndEvents : \A f \in StartEvents \cup EndEvents : f <= e
  PROVE  Spec => []EndedStaysEnded
<1>1. Init => StatusInv
  <2> SUFFICES ASSUME Init  PROVE StatusInv
    OBVIOUS
  <2>1. 1..Len(commits) = {} /\ status = "pending" /\ \A a \in Instances : stage[a] = "max"
    BY DEF Init
  <2> QED  BY <2>1 DEF StatusInv, IsCommitted
<1>2. TypeOK /\ HolderInv /\ PlaceInv /\ StatusInv /\ [Next]_vars => StatusInv'
  BY StatusNext DEF PlaceInv
<1>3. ASSUME PlaceInv, StatusInv  PROVE EndedStaysEnded
  <2> SUFFICES ASSUME NEW a \in Instances,
                      ~reopened,
                      \A e \in Changes :
                          e \notin unsure /\ \E k \in Archivings(e) : commits[k].by = a
               PROVE  status = "ended"
    BY DEF EndedStaysEnded, Changes
  <2>1. PICK e \in EndEvents : \A f \in Changes : f <= e
    BY DEF Changes
  <2>2. \A f \in Changes : IsCommitted(f)
    BY DEF IsCommitted, Archivings, Archives
  <2>3. ASSUME NEW k \in 1..Len(commits), NEW f \in Changes, Archives(k, f)
        PROVE  commits[k].by = a /\ f \notin unsure
    <3>1. f \in 1..delivered \ unsure
      BY <1>3, <2>3 DEF PlaceInv, KnownInv, Archives
    <3>2. PICK l \in 1..Len(commits) : Archives(l, f) /\ commits[l].by = a
      BY DEF Archivings, Archives
    <3>3. k = l
      BY <1>3, <2>3, <3>1, <3>2 DEF PlaceInv, OnePlaceInv
    <3> QED  BY <3>1, <3>2, <3>3
  <2>4. OnlyBy(a)
    BY <2>3 DEF OnlyBy
  <2>5. e \in Changes /\ e \notin StartEvents
    BY EntriesAssumption DEF Changes
  <2> QED  BY <1>3, <2>1, <2>2, <2>4, <2>5 DEF StatusInv
<1> QED  BY <1>1, <1>2, <1>3, TypeCorrect, PlaceInvariant, PTL DEF Spec

-----------------------------------------------------------------------------
(* Recursion that ends                                                     *)

\* A non-empty set of numbers has a least element.
LEMMA LeastOf ==
    ASSUME NEW T \in SUBSET Nat, T # {}
    PROVE  \E x \in T : \A y \in T : x <= y
  <1> DEFINE R == OpToRel(<, Nat)
  <1>1. IsWellFoundedOn(R, Nat)
    BY NatLessThanWellFounded
  <1>2. \A x, y \in Nat : <<y, x>> \in R <=> y < x
    BY DEF OpToRel
  <1> HIDE DEF R
  <1>3. PICK x \in T : \A y \in T : <<y, x>> \notin R
    BY <1>1, WFMin
  <1>4. ASSUME NEW y \in T
        PROVE  x <= y
    <2>1. x \in Nat /\ y \in Nat
      OBVIOUS
    <2>2. ~(y < x)
      BY <1>2, <1>3, <2>1
    <2> QED  BY <2>1, <2>2
  <1> QED  BY <1>4

\* What a step makes of f at x depends on f at smaller arguments only.
Descends(D, F, size, step) ==
    /\ \A x \in D : size[x] \in Nat
    /\ \A f \in F : step[f] \in F
    /\ \A f, g \in F, x \in D :
         (\A y \in D : size[y] < size[x] => f[y] = g[y]) => step[f][x] = step[g][x]

\* A recursion whose calls are all of smaller arguments has a solution.
LEMMA RecursionSolved ==
    ASSUME NEW D, NEW R, R # {},
           NEW size, NEW step,
           Descends(D, [D -> R], size, step)
    PROVE  \E f \in [D -> R] : f = step[f]
  <1> USE DEF Descends
  <1> DEFINE Solves(n) == {f \in [D -> R] : \A x \in D : size[x] < n => f[x] = step[f][x]}
  <1>1. ASSUME NEW n \in Nat, NEW f \in Solves(n), NEW g \in Solves(n), NEW x \in D, size[x] < n
        PROVE  f[x] = g[x]
    <2> SUFFICES ASSUME f[x] # g[x]
                 PROVE  FALSE
      OBVIOUS
    <2> DEFINE T == {k \in Nat : \E y \in D : size[y] = k /\ k < n /\ f[y] # g[y]}
    <2>1. T \in SUBSET Nat /\ T # {}
      <3>1. size[x] \in T
        BY <1>1
      <3> QED  BY <3>1
    <2>2. PICK k \in T : \A l \in T : k <= l
      BY <2>1, LeastOf
    <2>3. PICK y \in D : size[y] < n /\ f[y] # g[y] /\ k = size[y]
      BY <2>2
    <2>4. ASSUME NEW z \in D, size[z] < size[y]
          PROVE  f[z] = g[z]
      <3>1. size[z] \in Nat /\ size[y] \in Nat
        OBVIOUS
      <3>2. size[z] \notin T
        BY <2>2, <2>3, <2>4, <3>1
      <3>3. size[z] < n
        BY <2>3, <2>4, <3>1
      <3> QED  BY <3>2, <3>3
    <2>5. f \in [D -> R] /\ g \in [D -> R] /\ f[y] = step[f][y] /\ g[y] = step[g][y]
      BY <2>3
    <2>6. step[f][y] = step[g][y]
      BY <2>4, <2>5
    <2> QED  BY <2>3, <2>5, <2>6
  <1>2. \A n \in Nat : Solves(n) # {}
    <2> SUFFICES ASSUME NEW m \in Nat, Solves(m) = {}
                 PROVE  FALSE
      OBVIOUS
    <2> DEFINE T == {n \in Nat : Solves(n) = {}}
    <2>1. PICK n \in T : \A l \in T : n <= l
      <3>1. T \in SUBSET Nat /\ m \in T
        OBVIOUS
      <3> HIDE DEF T
      <3> QED  BY <3>1, LeastOf
    <2>2. CASE n = 0
      <3>1. PICK r \in R : TRUE
        OBVIOUS
      <3>2. [x \in D |-> r] \in Solves(0)
        OBVIOUS
      <3> QED  BY <2>2, <3>2
    <2>3. CASE n # 0
      <3>1. n - 1 \in Nat /\ n \in Nat /\ ~(n <= n - 1)
        BY <2>3
      <3>2. PICK f \in [D -> R] : \A x \in D : size[x] < n - 1 => f[x] = step[f][x]
        BY <2>1, <3>1
      <3> DEFINE g == step[f]
      <3>3. g \in [D -> R]
        OBVIOUS
      <3>4. ASSUME NEW x \in D, size[x] < n
            PROVE  g[x] = step[g][x]
        <4>1. \A y \in D : size[y] < size[x] => f[y] = g[y]
          <5>1. \A y \in D : size[y] < size[x] => size[y] < n - 1
            BY <3>1, <3>4
          <5> QED  BY <3>2, <5>1
        <4>2. step[f][x] = step[g][x]
          BY <3>3, <4>1
        <4> QED  BY <4>2
      <3> HIDE DEF g
      <3>5. g \in Solves(n)
        BY <3>3, <3>4
      <3> QED  BY <3>5, <2>1
    <2> QED  BY <2>2, <2>3
  <1> DEFINE pick == [n \in Nat |-> CHOOSE f \in [D -> R] : f \in Solves(n)]
             F == [x \in D |-> pick[size[x] + 1][x]]
  <1>3. \A n \in Nat : pick[n] \in Solves(n)
    <2> SUFFICES ASSUME NEW n \in Nat
                 PROVE  pick[n] \in Solves(n)
      OBVIOUS
    <2>1. \E f \in [D -> R] : f \in Solves(n)
      BY <1>2
    <2> HIDE DEF Solves
    <2> QED  BY <2>1
  <1> HIDE DEF pick
  <1>4. F \in [D -> R]
    BY <1>3
  <1>5. ASSUME NEW x \in D
        PROVE  F[x] = step[F][x]
    <2> DEFINE n == size[x] + 1
               f == pick[n]
    <2>1. n \in Nat /\ size[x] < n /\ f \in Solves(n) /\ F[x] = f[x]
      BY <1>3
    <2>2. ASSUME NEW y \in D, size[y] < size[x]
          PROVE  F[y] = f[y]
      <3> DEFINE k == size[y] + 1
      <3>1. k \in Nat /\ size[y] < k /\ pick[k] \in Solves(k) /\ F[y] = pick[k][y]
        BY <1>3
      <3>2. f \in Solves(k)
        <4>1. \A z \in D : size[z] < k => size[z] < n
          BY <2>2
        <4> HIDE DEF k, n, f
        <4> QED  BY <2>1, <4>1
      <3> HIDE DEF k, n, f, F, Solves
      <3> QED  BY <1>1, <3>1, <3>2
    <2> HIDE DEF n, f, F
    <2>3. f \in [D -> R] /\ f[x] = step[f][x]
      BY <2>1
    <2>4. step[F][x] = step[f][x]
      BY <1>4, <2>2, <2>3
    <2> QED  BY <2>1, <2>3, <2>4
  <1> HIDE DEF F
  <1>6. F = step[F]
    BY <1>4, <1>5
  <1> QED  BY <1>4, <1>6

-----------------------------------------------------------------------------
(* Lists of jobs in order                                                  *)

\* Numbers up to n can be listed in order.
LEMMA InOrderExists ==
    ASSUME NEW n \in Nat, NEW T \in SUBSET (1..n)
    PROVE  \E s \in [1..Cardinality(T) -> T] :
             \A i, k \in 1..Cardinality(T) : i < k => s[i] < s[k]
  <1> DEFINE Listed(U) == \E s \in [1..Cardinality(U) -> U] :
                            \A i, k \in 1..Cardinality(U) : i < k => s[i] < s[k]
             Bad == {m \in Nat : \E U \in SUBSET (1..m) : ~Listed(U)}
  <1> SUFFICES ASSUME ~Listed(T)
               PROVE  FALSE
    OBVIOUS
  <1> HIDE DEF Listed
  <1>1. Bad \in SUBSET Nat /\ n \in Bad
    OBVIOUS
  <1>2. PICK m \in Bad : \A l \in Bad : m <= l
    <2> HIDE DEF Bad
    <2> QED  BY <1>1, LeastOf
  <1>3. PICK U \in SUBSET (1..m) : m \in Nat /\ ~Listed(U)
    BY <1>2
  <1>4. m # 0
    <2> SUFFICES ASSUME m = 0
                 PROVE  FALSE
      OBVIOUS
    <2>1. U = {}
      BY <1>3
    <2>2. Cardinality(U) = 0
      BY <2>1, FS_EmptySet
    <2>3. [i \in 1..0 |-> i] \in [1..0 -> {}]
      OBVIOUS
    <2> QED  BY <1>3, <2>1, <2>2, <2>3 DEF Listed
  <1>5. m - 1 \in Nat /\ ~(m <= m - 1)
    BY <1>3, <1>4
  <1> DEFINE V == U \ {m}
  <1>6. V \in SUBSET (1..m - 1) /\ IsFiniteSet(U)
    <2>1. IsFiniteSet(1..m)
      BY <1>3, FS_Interval
    <2>2. IsFiniteSet(U)
      BY <2>1, FS_Subset
    <2>3. \A x \in U : x # m => x \in 1..m - 1
      BY <1>3
    <2> QED  BY <2>2, <2>3
  <1>7. Listed(V)
    <2>1. m - 1 \notin Bad
      BY <1>2, <1>5
    <2> QED  BY <1>5, <1>6, <2>1
  <1> HIDE DEF Bad
  <1>8. m \in U
    <2>1. m \notin U => V = U
      OBVIOUS
    <2> QED  BY <1>3, <1>7, <2>1
  <1>9. /\ Cardinality(U) \in Nat /\ Cardinality(U) # 0
        /\ Cardinality(V) = Cardinality(U) - 1
    <2>1. Cardinality(V) = Cardinality(U) - 1 /\ IsFiniteSet(V)
      BY <1>6, <1>8, FS_RemoveElement
    <2>2. Cardinality(U) \in Nat /\ Cardinality(V) \in Nat
      BY <1>6, <2>1, FS_CardinalityType
    <2> QED  BY <2>1, <2>2
  <1> DEFINE c == Cardinality(U)
  <1>10. PICK s \in [1..c - 1 -> V] : \A i, k \in 1..c - 1 : i < k => s[i] < s[k]
    BY <1>7, <1>9 DEF Listed
  <1> DEFINE t == [i \in 1..c |-> IF i = c THEN m ELSE s[i]]
  <1>11. /\ t \in [1..c -> U]
         /\ \A i, k \in 1..c : i < k => t[i] < t[k]
    <2> HIDE DEF c, V
    <2>1. c \in Nat /\ V \subseteq U /\ \A v \in V : v \in Nat /\ v < m
      <3>1. \A v \in V : v \in 1..m - 1
        BY <1>6
      <3> QED  BY <1>3, <1>9, <3>1 DEF c, V
    <2>2. \A i \in 1..c : i # c => i \in 1..c - 1 /\ s[i] \in V
      BY <2>1
    <2>3. t \in [1..c -> U]
      BY <1>8, <2>1, <2>2
    <2>4. ASSUME NEW i \in 1..c, NEW k \in 1..c, i < k
          PROVE  t[i] < t[k]
      <3>1. i # c
        BY <2>1, <2>4
      <3>2. t[i] = s[i] /\ s[i] \in V
        BY <2>2, <3>1
      <3>3. CASE k = c
        BY <2>1, <3>2, <3>3
      <3>4. CASE k # c
        BY <1>10, <2>2, <2>4, <3>1, <3>2, <3>4
      <3> QED  BY <3>3, <3>4
    <2> QED  BY <2>3, <2>4
  <1> HIDE DEF t
  <1> QED  BY <1>3, <1>11 DEF Listed

\* The list has all of them.
LEMMA InOrderFacts ==
    ASSUME NEW n \in Nat, NEW T \in SUBSET (1..n)
    PROVE  /\ InOrder(T) \in Seq(T)
           /\ \A i, k \in 1..Len(InOrder(T)) : i < k => InOrder(T)[i] < InOrder(T)[k]
           /\ \A x \in T : \E i \in 1..Len(InOrder(T)) : InOrder(T)[i] = x
  <1> DEFINE c == Cardinality(T)
             s == InOrder(T)
             Ordered(u) == \A i, k \in DOMAIN u : i < k => u[i] < u[k]
  <1>1. IsFiniteSet(T) /\ c \in Nat
    <2>1. IsFiniteSet(1..n)
      BY FS_Interval
    <2>2. IsFiniteSet(T)
      BY <2>1, FS_Subset
    <2> QED  BY <2>2, FS_CardinalityType
  <1>2. s \in [1..c -> T] /\ \A i, k \in 1..c : i < k => s[i] < s[k]
    <2>1. PICK u \in [1..c -> T] : \A i, k \in 1..c : i < k => u[i] < u[k]
      BY InOrderExists
    <2>2. s = CHOOSE v \in [1..c -> T] : Ordered(v)
      BY DEF InOrder
    <2>3. Ordered(u)
      BY <2>1
    <2> HIDE DEF s, c, Ordered
    <2>4. s \in [1..c -> T] /\ Ordered(s)
      BY <2>2, <2>3
    <2> QED  BY <2>4 DEF Ordered
  <1> HIDE DEF s, c
  <1>3. s \in Seq(T) /\ Len(s) = c
    BY <1>1, <1>2
  <1>4. ASSUME NEW x \in T, \A i \in 1..c : s[i] # x
        PROVE  FALSE
    <2> DEFINE U == T \ {x}
    <2>1. IsFiniteSet(U) /\ Cardinality(U) = c - 1
      BY <1>1, FS_RemoveElement DEF c
    <2>2. IsFiniteSet(1..c) /\ Cardinality(1..c) = c
      <3>1. IsFiniteSet(1..c) /\ Cardinality(1..c) = IF 1 > c THEN 0 ELSE c - 1 + 1
        BY <1>1, FS_Interval
      <3> QED  BY <1>1, <3>1
    <2>3. s \in [1..c -> U]
      BY <1>2, <1>4
    <2>4. Cardinality(U) < Cardinality(1..c)
      BY <1>1, <2>1, <2>2
    <2>5. PICK i \in 1..c, k \in 1..c : i # k /\ s[i] = s[k]
      <3> HIDE DEF U
      <3> QED  BY <2>1, <2>2, <2>3, <2>4, FS_PigeonHole
    <2>6. (i < k \/ k < i) /\ s[i] \in T /\ s[k] \in T
      BY <1>1, <1>2, <2>5
    <2>7. \A y \in T : ~(y < y)
      OBVIOUS
    <2> QED  BY <1>2, <2>5, <2>6, <2>7
  <1> QED  BY <1>2, <1>3, <1>4 DEF s

-----------------------------------------------------------------------------
(* The tree                                                                *)

\* A row of jobs with what its stream has.
JobRow ==
    [parent : {None} \cup (Nat \X Nat), committed : BOOLEAN, published : BOOLEAN,
     emitted : 0..MaxRecords, archived : 0..MaxRecords]

\* The rows a message may have for a parent.
Parents == {m \in Committed \X (0..MaxRecords) : m[2] <= jobs[m[1]].archived}

\* A rank that leaves room for the answers between a question and those below it.
Ranked(rank, top) ==
    /\ rank \in [DOMAIN jobs -> 0..top]
    /\ \A j \in DOMAIN jobs :
         jobs[j].parent \in Parents =>
             rank[j] + MaxRecords + 2 <= rank[jobs[j].parent[1]]

\* Rows hang off archived messages and have a rank that falls from parent to child.
TreeInv ==
    /\ jobs \in Seq(JobRow)
    /\ 1 \in Committed
    /\ jobs[1].parent = Root
    /\ \A j \in DOMAIN jobs : jobs[j].parent \in {None, Root} \cup Parents
    /\ \A j \in Committed : jobs[j].parent # None
    /\ \E top \in Nat : \E rank \in [DOMAIN jobs -> 0..top] : Ranked(rank, top)

\* Root is a place and None is not.
LEMMA PairFacts ==
    /\ Root \in Nat \X Nat
    /\ None \notin Nat \X Nat
    /\ \A m \in Nat \X Nat : m # None /\ m = <<m[1], m[2]>> /\ m[1] \in Nat /\ m[2] \in Nat
  <1>1. \A a, b : <<a, b>> # <<>>
    <2>1. \A a, b : DOMAIN <<a, b>> = 1..2 /\ DOMAIN <<>> = 1..0 /\ 1 \in 1..2 /\ 1 \notin 1..0
      OBVIOUS
    <2> QED  BY <2>1
  <1> QED  BY <1>1 DEF Root, None

\* What the tree says of its jobs and of what a reader can find.
LEMMA CommittedFacts ==
    ASSUME TreeInv
    PROVE  /\ Len(jobs) \in Nat
           /\ DOMAIN jobs = 1..Len(jobs)
           /\ Committed \in SUBSET (1..Len(jobs))
           /\ \A j \in DOMAIN jobs : j \in Nat /\ j # 0 /\ jobs[j] \in JobRow
           /\ \A j \in DOMAIN jobs : Found(j) \in 0..MaxRecords /\ Found(j) \in Nat
           /\ \A j \in DOMAIN jobs : jobs[j].archived \in Nat /\ jobs[j].archived <= Found(j)
           /\ Parents \subseteq Messages
           /\ Messages \subseteq Nat \X Nat
           /\ \A m \in Messages :
                /\ m = <<m[1], m[2]>> /\ m # None /\ m # Root
                /\ m[1] \in Committed /\ m[2] \in Nat /\ m[2] <= Found(m[1])
           /\ \A j \in Committed : <<j, 0>> \in Messages /\ <<j, 0>> \in Parents
           /\ \A j \in Committed : jobs[j].parent # Root => jobs[j].parent \in Parents
  <1> USE ConversationAssumption
  <1>1. /\ Len(jobs) \in Nat
        /\ DOMAIN jobs = 1..Len(jobs)
        /\ \A j \in DOMAIN jobs : jobs[j] \in JobRow
    BY LenProperties DEF TreeInv
  <1>2. \A j \in DOMAIN jobs : j \in Nat /\ j # 0
    BY <1>1
  <1>3. \A j \in DOMAIN jobs :
          /\ jobs[j].archived \in 0..MaxRecords /\ jobs[j].emitted \in 0..MaxRecords
    BY <1>1 DEF JobRow
  <1>4. \A j \in DOMAIN jobs : /\ Found(j) \in 0..MaxRecords /\ Found(j) \in Nat
                               /\ jobs[j].archived \in Nat /\ jobs[j].archived <= Found(j)
    BY <1>3 DEF Found, Hot
  <1>5. Committed \subseteq DOMAIN jobs
    BY DEF Committed
  <1>6. Messages \subseteq Nat \X Nat
    BY <1>2, <1>5 DEF Messages
  <1>7. Parents \subseteq Messages
    <2> SUFFICES ASSUME NEW m \in Parents
                 PROVE  m \in Messages
      OBVIOUS
    <2>1. m \in Committed \X (0..MaxRecords) /\ m[2] <= jobs[m[1]].archived
      BY DEF Parents
    <2>2. m[1] \in Committed /\ m[2] \in Nat
      BY <2>1
    <2>3. m[2] <= Found(m[1])
      BY <1>4, <1>5, <2>1, <2>2
    <2> QED  BY <2>1, <2>3 DEF Messages
  <1>8. \A m \in Messages : /\ m = <<m[1], m[2]>> /\ m # None /\ m # Root
                            /\ m[1] \in Committed /\ m[2] \in Nat /\ m[2] <= Found(m[1])
    <2> SUFFICES ASSUME NEW m \in Messages
                 PROVE  /\ m = <<m[1], m[2]>> /\ m # None /\ m # Root
                        /\ m[1] \in Committed /\ m[2] \in Nat /\ m[2] <= Found(m[1])
      OBVIOUS
    <2>1. m \in Committed \X (0..MaxRecords) /\ m[2] <= Found(m[1])
      BY DEF Messages
    <2>2. m \in Nat \X Nat
      BY <1>6
    <2>3. m[1] \in Committed /\ m[1] # 0
      BY <1>2, <1>5, <2>1
    <2> QED  BY <2>1, <2>2, <2>3, PairFacts DEF Root
  <1>9. \A j \in Committed : <<j, 0>> \in Messages /\ <<j, 0>> \in Parents
    BY <1>4, <1>5 DEF Messages, Parents
  <1>10. \A j \in Committed : jobs[j].parent # Root => jobs[j].parent \in Parents
    BY <1>5 DEF TreeInv
  <1> QED  BY <1>1, <1>2, <1>4, <1>5, <1>6, <1>7, <1>8, <1>9, <1>10

\* An answer is the next record, and the last record found has none.
LEMMA AnswerFacts ==
    ASSUME TreeInv, NEW m \in Messages
    PROVE  /\ Answer(m) \in {None} \cup Messages
           /\ Answer(m) = None => m[2] = Found(m[1])
           /\ Answer(m) # None => /\ Answer(m) = <<m[1], m[2] + 1>>
                                  /\ m[2] + 1 <= Found(m[1])
                                  /\ ParentOf(Answer(m)) = m
  <1>1. /\ m = <<m[1], m[2]>> /\ m # None /\ m # Root
        /\ m[1] \in Committed /\ m[2] \in Nat /\ m[2] <= Found(m[1])
        /\ Found(m[1]) \in 0..MaxRecords /\ MaxRecords \in Nat
    BY CommittedFacts, ConversationAssumption DEF Committed
  <1>2. CASE m[2] < Found(m[1])
    <2>1. Answer(m) = <<m[1], m[2] + 1>>
      BY <1>1, <1>2 DEF Answer
    <2>2. m[2] + 1 \in 0..MaxRecords /\ m[2] + 1 <= Found(m[1]) /\ m[2] + 1 # 0
          /\ (m[2] + 1) - 1 = m[2]
      BY <1>1, <1>2
    <2>3. Answer(m) \in Messages
      BY <1>1, <2>1, <2>2 DEF Messages
    <2>4. ParentOf(Answer(m)) = m
      BY <1>1, <2>1, <2>2 DEF ParentOf
    <2>5. Answer(m) # None
      BY <2>3, CommittedFacts
    <2> QED  BY <2>1, <2>2, <2>3, <2>4, <2>5
  <1>3. CASE ~(m[2] < Found(m[1]))
    <2>1. Answer(m) = None
      BY <1>3 DEF Answer
    <2> QED  BY <1>1, <1>3, <2>1
  <1> QED  BY <1>2, <1>3

\* The questions below a message are all that are committed, in order.
LEMMA QuestionFacts ==
    ASSUME TreeInv, NEW m
    PROVE  /\ Questions(m) \in Seq(Committed)
           /\ \A i \in 1..Len(Questions(m)) : /\ Questions(m)[i] \in Committed
                                              /\ jobs[Questions(m)[i]].parent = m
           /\ \A j \in Committed :
                jobs[j].parent = m => \E i \in 1..Len(Questions(m)) : Questions(m)[i] = j
           /\ \A i, k \in 1..Len(Questions(m)) : i < k => Questions(m)[i] < Questions(m)[k]
  <1> DEFINE T == {j \in Committed : jobs[j].parent = m}
             s == InOrder(T)
  <1>1. Len(jobs) \in Nat /\ T \in SUBSET (1..Len(jobs))
    BY CommittedFacts
  <1>2. Questions(m) = s
    BY DEF Questions
  <1> HIDE DEF T
  <1>3. /\ s \in Seq(T)
        /\ \A i, k \in 1..Len(s) : i < k => s[i] < s[k]
        /\ \A x \in T : \E i \in 1..Len(s) : s[i] = x
    BY <1>1, InOrderFacts
  <1> HIDE DEF s
  <1>4. T \subseteq Committed
    BY DEF T
  <1>5. s \in Seq(Committed)
    BY <1>3, <1>4, SeqMonotonic
  <1>6. \A i \in 1..Len(s) : s[i] \in T
    BY <1>3, ElementOfSeq
  <1> QED  BY <1>2, <1>3, <1>5, <1>6 DEF T

\* A question is chosen from those it is offered with.
LEMMA ChosenFacts ==
    ASSUME TreeInv, NEW q \in Seq(Committed), q # <<>>
    PROVE  /\ \E i \in 1..Len(q) : Chosen(q) = <<q[i], 0>>
           /\ Chosen(q) \in Messages
           /\ Chosen(q)[1] \in Range(q)
           /\ Range(q) \in SUBSET Committed
  <1>1. /\ Len(q) \in Nat /\ Len(q) \in 1..Len(q) /\ DOMAIN q = 1..Len(q)
        /\ \A i \in 1..Len(q) : q[i] \in Committed
    BY LenProperties, EmptySeq
  <1>2. Range(q) = {q[i] : i \in 1..Len(q)}
    BY <1>1 DEF Range
  <1> DEFINE key == jobs[q[1]].parent
             marked == {j \in Range(q) : /\ key # Root
                                         /\ key \in DOMAIN branch
                                         /\ branch[key] = <<j, 0>>}
  <1>3. Chosen(q) = <<IF marked = {} THEN Last(q) ELSE CHOOSE j \in marked : TRUE, 0>>
    BY DEF Chosen
  <1>4. Last(q) = q[Len(q)]
    BY DEF Last
  <1>5. marked # {} => (CHOOSE j \in marked : TRUE) \in Range(q)
    OBVIOUS
  <1> HIDE DEF marked
  <1>6. PICK i \in 1..Len(q) : Chosen(q) = <<q[i], 0>>
    BY <1>1, <1>2, <1>3, <1>4, <1>5
  <1>7. Chosen(q) \in Messages /\ Chosen(q)[1] = q[i]
    BY <1>1, <1>6, CommittedFacts
  <1> QED  BY <1>1, <1>2, <1>6, <1>7

-----------------------------------------------------------------------------
(* The walk                                                                *)

\* An entry of a walk.
ShownAt == [message : Messages, among : SUBSET Committed]

\* The walk, with its definition unfolded once.
WalkOnce(walk, ahead) ==
    IF ahead.answer # None
    THEN <<[message |-> ahead.answer, among |-> {}]>>
             \o walk[Past(ahead.answer, ahead.questions)]
    ELSE IF ahead.questions # <<>>
    THEN <<[message |-> Chosen(ahead.questions), among |-> Range(ahead.questions)]>>
             \o walk[Under(Chosen(ahead.questions))]
    ELSE <<>>

\* A walk goes on to something it is defined for.
LEMMA AheadFacts ==
    ASSUME TreeInv, NEW x \in Ahead
    PROVE  /\ x.answer \in {None} \cup Messages /\ x.questions \in Seq(Committed)
           /\ x.answer # None => /\ x.answer \in Messages
                                 /\ Past(x.answer, x.questions) \in Ahead
           /\ x.questions # <<>> => /\ Chosen(x.questions) \in Messages
                                    /\ Under(Chosen(x.questions)) \in Ahead
  <1>1. x.answer \in {None} \cup Messages /\ x.questions \in Seq(Committed)
    BY DEF Ahead
  <1>2. ASSUME x.answer # None
        PROVE  Past(x.answer, x.questions) \in Ahead
    <2>1. x.answer \in Messages
      BY <1>1, <1>2
    <2>2. Answer(x.answer) \in {None} \cup Messages
      BY <2>1, AnswerFacts
    <2>3. x.questions \o Questions(x.answer) \in Seq(Committed)
      BY <1>1, QuestionFacts, ConcatProperties
    <2> QED  BY <2>2, <2>3 DEF Past, Beside, Ahead
  <1>3. ASSUME x.questions # <<>>
        PROVE  Chosen(x.questions) \in Messages /\ Under(Chosen(x.questions)) \in Ahead
    <2>1. Chosen(x.questions) \in Messages
      BY <1>1, <1>3, ChosenFacts
    <2>2. Answer(Chosen(x.questions)) \in {None} \cup Messages
      BY <2>1, AnswerFacts
    <2>3. Questions(Chosen(x.questions)) \in Seq(Committed)
      BY QuestionFacts
    <2> QED  BY <2>1, <2>2, <2>3 DEF Under, Ahead
  <1> QED  BY <1>1, <1>2, <1>3

\* One unfolding of the walk lists shown messages.
LEMMA WalkOnceFacts ==
    ASSUME TreeInv, NEW walk \in [Ahead -> Seq(ShownAt)], NEW x \in Ahead
    PROVE  WalkOnce(walk, x) \in Seq(ShownAt)
  <1>1. CASE x.answer # None
    <2>1. x.answer \in Messages /\ walk[Past(x.answer, x.questions)] \in Seq(ShownAt)
      BY <1>1, AheadFacts
    <2>2. <<[message |-> x.answer, among |-> {}]>> \in Seq(ShownAt)
      BY <2>1 DEF ShownAt
    <2>3. WalkOnce(walk, x) = <<[message |-> x.answer, among |-> {}]>>
                                  \o walk[Past(x.answer, x.questions)]
      BY <1>1 DEF WalkOnce
    <2> QED  BY <2>1, <2>2, <2>3, ConcatProperties
  <1>2. CASE x.answer = None /\ x.questions # <<>>
    <2> DEFINE m == Chosen(x.questions)
    <2>1. m \in Messages /\ walk[Under(m)] \in Seq(ShownAt)
      BY <1>2, AheadFacts
    <2>2. Range(x.questions) \in SUBSET Committed
      BY <1>2, AheadFacts, ChosenFacts
    <2>3. WalkOnce(walk, x) = <<[message |-> m, among |-> Range(x.questions)]>>
                                  \o walk[Under(m)]
      BY <1>2 DEF WalkOnce
    <2> HIDE DEF m
    <2>4. <<[message |-> m, among |-> Range(x.questions)]>> \in Seq(ShownAt)
      BY <2>1, <2>2 DEF ShownAt
    <2> QED  BY <2>1, <2>3, <2>4, ConcatProperties
  <1>3. CASE x.answer = None /\ x.questions = <<>>
    <2>1. WalkOnce(walk, x) = <<>>
      BY <1>3 DEF WalkOnce
    <2> QED  BY <2>1, EmptySeq
  <1> QED  BY <1>1, <1>2, <1>3

\* What a walk has before it shrinks with every message.
Shrinks(size) ==
    /\ size \in [Ahead -> Nat]
    /\ \A x \in Ahead :
         /\ x.answer # None => size[Past(x.answer, x.questions)] < size[x]
         /\ x.answer = None /\ x.questions # <<>> =>
                size[Under(Chosen(x.questions))] < size[x]

\* The rank of a tree gives such a size, so that every walk ends.
LEMMA WalkShrinks ==
    ASSUME TreeInv
    PROVE  \E size \in [Ahead -> Nat] : Shrinks(size)
  <1>0. PICK top \in Nat : \E rank \in [DOMAIN jobs -> 0..top] : Ranked(rank, top)
    BY DEF TreeInv
  <1>1. PICK rank \in [DOMAIN jobs -> 0..top] : Ranked(rank, top)
    BY <1>0
  <1> DEFINE Gap == MaxRecords + 2
             Bound(x, n) == /\ x.answer # None => rank[x.answer[1]] <= n
                            /\ \A i \in 1..Len(x.questions) : rank[x.questions[i]] + Gap <= n
             Bounds(x) == {n \in Nat : Bound(x, n)}
             level == [x \in Ahead |-> CHOOSE n \in Bounds(x) : \A k \in Bounds(x) : n <= k]
             left == [x \in Ahead |-> IF x.answer = None THEN 0
                                      ELSE MaxRecords + 1 - x.answer[2]]
             size == [x \in Ahead |-> level[x] + left[x]]
  <1>2. /\ MaxRecords \in Nat /\ Gap \in Nat
        /\ \A j \in Committed : j \in DOMAIN jobs /\ rank[j] \in Nat /\ rank[j] <= top
    BY CommittedFacts, ConversationAssumption
  <1>3. ASSUME NEW j \in Committed, NEW k \in Committed, NEW n, jobs[k].parent = <<j, n>>
        PROVE  rank[k] + Gap <= rank[j]
    <2>1. jobs[k].parent # Root /\ j \in Nat
      BY <1>3, CommittedFacts DEF Root
    <2>2. jobs[k].parent \in Parents
      BY <2>1, CommittedFacts
    <2>3. rank[k] + MaxRecords + 2 <= rank[j]
      BY <1>1, <1>2, <1>3, <2>2 DEF Ranked
    <2> QED  BY <1>2, <2>3
  <1> HIDE DEF Gap
  <1>4. ASSUME NEW x \in Ahead
        PROVE  /\ level[x] \in Nat /\ Bound(x, level[x])
               /\ \A k \in Nat : Bound(x, k) => level[x] <= k
    <2>1. x.answer # None => x.answer[1] \in Committed
      BY AheadFacts, CommittedFacts
    <2>2. \A i \in 1..Len(x.questions) : x.questions[i] \in Committed
      BY AheadFacts, ElementOfSeq
    <2>3. top + Gap \in Bounds(x)
      BY <1>2, <2>1, <2>2
    <2> HIDE DEF Bound
    <2>4. PICK n \in Bounds(x) : \A k \in Bounds(x) : n <= k
      <3> DEFINE T == Bounds(x)
      <3>1. T \in SUBSET Nat /\ T # {}
        BY <2>3
      <3> HIDE DEF T
      <3>2. \E n \in T : \A k \in T : n <= k
        BY <3>1, LeastOf
      <3> QED  BY <3>2 DEF T
    <2>5. level[x] = CHOOSE l \in Bounds(x) : \A k \in Bounds(x) : l <= k
      OBVIOUS
    <2> HIDE DEF level
    <2>6. level[x] \in Bounds(x) /\ \A k \in Bounds(x) : level[x] <= k
      BY <2>4, <2>5
    <2> QED  BY <2>6
  <1> HIDE DEF level
  <1>5. ASSUME NEW x \in Ahead
        PROVE  /\ left[x] \in Nat
               /\ left[x] = IF x.answer = None THEN 0 ELSE MaxRecords + 1 - x.answer[2]
               /\ left[x] <= MaxRecords + 1
    <2>1. x.answer # None => x.answer[2] \in Nat /\ x.answer[2] <= MaxRecords
      <3> SUFFICES ASSUME x.answer # None
                   PROVE  x.answer[2] \in Nat /\ x.answer[2] <= MaxRecords
        OBVIOUS
      <3>1. x.answer \in Messages
        BY AheadFacts
      <3> QED  BY <3>1, <1>2 DEF Messages
    <2> QED  BY <1>2, <2>1
  <1> HIDE DEF left
  <1>6. size \in [Ahead -> Nat] /\ \A x \in Ahead : size[x] = level[x] + left[x]
    BY <1>4, <1>5
  <1> HIDE DEF size
  <1>7. ASSUME NEW x \in Ahead, x.answer # None
        PROVE  size[Past(x.answer, x.questions)] < size[x]
    <2> DEFINE m == x.answer
               y == Past(m, x.questions)
    <2>1. /\ m \in Messages /\ y \in Ahead /\ m[1] \in Committed /\ m[2] \in Nat
          /\ m = <<m[1], m[2]>>
      BY <1>7, AheadFacts, CommittedFacts
    <2>2. y.answer = Answer(m) /\ y.questions = x.questions \o Questions(m)
      BY DEF Past, Beside
    <2>3. Answer(m) # None => Answer(m)[1] = m[1] /\ Answer(m)[2] = m[2] + 1
      BY <2>1, AnswerFacts
    <2> HIDE DEF y
    <2>4. left[y] < left[x]
      <3>1. left[x] = MaxRecords + 1 - m[2] /\ m[2] <= MaxRecords
        BY <1>2, <1>5, <1>7, <2>1 DEF Messages
      <3>2. left[y] = IF Answer(m) = None THEN 0 ELSE MaxRecords + 1 - (m[2] + 1)
        BY <1>5, <2>1, <2>2, <2>3
      <3> QED  BY <1>2, <2>1, <3>1, <3>2
    <2>5. Bound(y, level[x])
      <3>1. Bound(x, level[x]) /\ level[x] \in Nat
        BY <1>4
      <3>2. y.answer # None => rank[y.answer[1]] <= level[x]
        BY <1>7, <2>2, <2>3, <3>1
      <3>3. ASSUME NEW i \in 1..Len(y.questions)
            PROVE  rank[y.questions[i]] + Gap <= level[x]
        <4>1. /\ x.questions \in Seq(Committed) /\ Questions(m) \in Seq(Committed)
              /\ Len(x.questions) \in Nat /\ Len(Questions(m)) \in Nat
          BY AheadFacts, QuestionFacts, LenProperties
        <4>2. /\ Len(y.questions) = Len(x.questions) + Len(Questions(m))
              /\ y.questions[i] = IF i <= Len(x.questions) THEN x.questions[i]
                                  ELSE Questions(m)[i - Len(x.questions)]
          BY <2>2, <3>3, <4>1, ConcatProperties
        <4>3. CASE i <= Len(x.questions)
          BY <3>1, <4>1, <4>2, <4>3
        <4>4. CASE ~(i <= Len(x.questions))
          <5> DEFINE k == i - Len(x.questions)
          <5>1. k \in 1..Len(Questions(m))
            <6>1. i \in 1..(Len(x.questions) + Len(Questions(m)))
              BY <4>2
            <6>2. \A a, b \in Nat : \A e \in 1..(a + b) : ~(e <= a) => e - a \in 1..b
              OBVIOUS
            <6> QED  BY <4>1, <4>4, <6>1, <6>2
          <5>2. Questions(m)[k] \in Committed /\ jobs[Questions(m)[k]].parent = m
            BY <5>1, QuestionFacts
          <5>3. rank[Questions(m)[k]] + Gap <= rank[m[1]]
            BY <1>3, <2>1, <5>2
          <5>4. rank[m[1]] <= level[x]
            BY <1>7, <3>1
          <5>5. rank[Questions(m)[k]] \in Nat /\ rank[m[1]] \in Nat
            BY <1>2, <2>1, <5>2
          <5>6. y.questions[i] = Questions(m)[k]
            BY <4>2, <4>4
          <5> HIDE DEF k
          <5> QED  BY <1>2, <3>1, <5>3, <5>4, <5>5, <5>6
        <4> QED  BY <4>3, <4>4
      <3> QED  BY <3>2, <3>3
    <2>6. level[y] <= level[x]
      BY <1>4, <2>1, <2>5
    <2>7. size[y] = level[y] + left[y] /\ size[x] = level[x] + left[x]
      BY <1>6, <2>1
    <2>8. level[y] \in Nat /\ level[x] \in Nat /\ left[y] \in Nat /\ left[x] \in Nat
      BY <1>4, <1>5, <2>1
    <2>9. size[y] < size[x]
      BY <2>4, <2>6, <2>7, <2>8
    <2> QED  BY <2>9 DEF y
  <1>8. ASSUME NEW x \in Ahead, x.answer = None, x.questions # <<>>
        PROVE  size[Under(Chosen(x.questions))] < size[x]
    <2> DEFINE m == Chosen(x.questions)
               y == Under(m)
    <2>1. m \in Messages /\ y \in Ahead
      BY <1>8, AheadFacts
    <2>2. PICK i \in 1..Len(x.questions) : m = <<x.questions[i], 0>>
      BY <1>8, AheadFacts, ChosenFacts
    <2> DEFINE j == x.questions[i]
    <2>3. j \in Committed /\ m[1] = j /\ m[2] = 0
      BY <2>1, <2>2, CommittedFacts
    <2>4. y.answer = Answer(m) /\ y.questions = Questions(m)
      BY DEF Under
    <2>5. Answer(m) # None => Answer(m)[1] = j
      BY <2>1, <2>3, AnswerFacts
    <2>6. Bound(x, level[x]) /\ level[x] \in Nat
      BY <1>4
    <2>7. rank[j] + Gap <= level[x]
      BY <2>6
    <2> HIDE DEF y
    <2>8. Bound(y, rank[j])
      <3>1. y.answer # None => rank[y.answer[1]] <= rank[j]
        BY <1>2, <2>3, <2>4, <2>5
      <3>2. ASSUME NEW k \in 1..Len(y.questions)
            PROVE  rank[y.questions[k]] + Gap <= rank[j]
        <4>1. Questions(m)[k] \in Committed /\ jobs[Questions(m)[k]].parent = <<j, 0>>
          BY <2>2, <2>4, <3>2, QuestionFacts
        <4> QED  BY <1>3, <2>3, <2>4, <4>1
      <3> QED  BY <3>1, <3>2
    <2>9. level[y] <= rank[j] /\ rank[j] \in Nat
      BY <1>2, <1>4, <2>1, <2>3, <2>8
    <2>10. size[y] = level[y] + left[y] /\ size[x] = level[x] + left[x]
      BY <1>6, <2>1
    <2>11. /\ level[y] \in Nat /\ left[y] \in Nat /\ left[x] \in Nat
           /\ left[y] <= MaxRecords + 1
      BY <1>4, <1>5, <2>1
    <2>12. size[y] < size[x]
      <3>1. \A a, b, c, l, e \in Nat :
              /\ b <= MaxRecords + 1 /\ a <= e /\ e + MaxRecords + 2 <= l
              => a + b < l + c
        BY <1>2
      <3>2. rank[j] + MaxRecords + 2 <= level[x]
        BY <1>2, <2>7, <2>9 DEF Gap
      <3> QED  BY <2>6, <2>9, <2>10, <2>11, <3>1, <3>2
    <2> QED  BY <2>12 DEF y
  <1>9. Shrinks(size)
    BY <1>6, <1>7, <1>8 DEF Shrinks
  <1> QED  BY <1>6, <1>9

\* The walk is what its definition says.
LEMMA WalkUnfolds ==
    ASSUME TreeInv
    PROVE  /\ Walk \in [Ahead -> Seq(ShownAt)]
           /\ \A x \in Ahead : Walk[x] = WalkOnce(Walk, x)
  <1>1. PICK size \in [Ahead -> Nat] : Shrinks(size)
    BY WalkShrinks
  <1> DEFINE R == Seq(ShownAt)
             step == [f \in [Ahead -> R] |-> [x \in Ahead |-> WalkOnce(f, x)]]
  <1>2. step \in [[Ahead -> R] -> [Ahead -> R]]
    BY WalkOnceFacts
  <1>3. ASSUME NEW f \in [Ahead -> R], NEW g \in [Ahead -> R], NEW x \in Ahead,
               \A y \in Ahead : size[y] < size[x] => f[y] = g[y]
        PROVE  step[f][x] = step[g][x]
    <2>1. step[f][x] = WalkOnce(f, x) /\ step[g][x] = WalkOnce(g, x)
      OBVIOUS
    <2>2. CASE x.answer # None
      <3>1. f[Past(x.answer, x.questions)] = g[Past(x.answer, x.questions)]
        BY <1>1, <1>3, <2>2, AheadFacts DEF Shrinks
      <3> QED  BY <2>1, <2>2, <3>1 DEF WalkOnce
    <2>3. CASE x.answer = None /\ x.questions # <<>>
      <3>1. f[Under(Chosen(x.questions))] = g[Under(Chosen(x.questions))]
        BY <1>1, <1>3, <2>3, AheadFacts DEF Shrinks
      <3> QED  BY <2>1, <2>3, <3>1 DEF WalkOnce
    <2>4. CASE x.answer = None /\ x.questions = <<>>
      BY <2>1, <2>4 DEF WalkOnce
    <2> QED  BY <2>2, <2>3, <2>4
  <1>4. R # {}
    <2>1. <<>> \in R
      BY EmptySeq
    <2> QED  BY <2>1
  <1>5. \E f \in [Ahead -> R] : f = step[f]
    <2> HIDE DEF step, R
    <2>1. Descends(Ahead, [Ahead -> R], size, step)
      BY <1>1, <1>2, <1>3 DEF Descends, Shrinks
    <2> QED  BY ONLY <1>4, <2>1, RecursionSolved
  <1>6. PICK f \in [Ahead -> R] : f = [x \in Ahead |-> WalkOnce(f, x)]
    BY <1>5
  <1>7. Walk = [x \in Ahead |-> WalkOnce(Walk, x)]
    BY <1>6 DEF Walk, WalkOnce, AnswerNext
  <1> DEFINE w == Walk
  <1> HIDE DEF w
  <1>8. w = [x \in Ahead |-> WalkOnce(w, x)]
    BY <1>7 DEF w
  <1>9. \A x \in Ahead : w[x] = WalkOnce(w, x)
    BY <1>8
  <1>10. \A x \in Ahead : w[x] \in R
    <2> SUFFICES ASSUME NEW z \in Ahead, w[z] \notin R
                 PROVE  FALSE
      OBVIOUS
    <2> DEFINE T == {n \in Nat : \E y \in Ahead : size[y] = n /\ w[y] \notin R}
    <2>1. T \in SUBSET Nat /\ T # {}
      <3>1. size[z] \in T
        OBVIOUS
      <3> QED  BY <3>1
    <2>2. PICK n \in T : \A k \in T : n <= k
      <3> HIDE DEF T
      <3> QED  BY <2>1, LeastOf
    <2>3. PICK x \in Ahead : size[x] = n /\ w[x] \notin R
      OBVIOUS
    <2>4. ASSUME NEW y \in Ahead, size[y] < size[x]
          PROVE  w[y] \in R
      <3>1. size[y] \in Nat /\ n \in Nat
        OBVIOUS
      <3>2. ~(n <= size[y])
        BY <2>3, <2>4, <3>1
      <3> QED  BY <2>2, <3>1, <3>2
    <2> DEFINE v == [y \in Ahead |-> IF w[y] \in R THEN w[y] ELSE <<>>]
    <2>5. v \in [Ahead -> R]
      BY EmptySeq
    <2>6. \A y \in Ahead : size[y] < size[x] => v[y] = w[y]
      BY <2>4
    <2> HIDE DEF v, R
    <2>7. WalkOnce(v, x) = WalkOnce(w, x)
      <3>1. CASE x.answer # None
        <4>1. v[Past(x.answer, x.questions)] = w[Past(x.answer, x.questions)]
          BY <1>1, <2>6, <3>1, AheadFacts DEF Shrinks
        <4> QED  BY <3>1, <4>1 DEF WalkOnce
      <3>2. CASE x.answer = None /\ x.questions # <<>>
        <4>1. v[Under(Chosen(x.questions))] = w[Under(Chosen(x.questions))]
          BY <1>1, <2>6, <3>2, AheadFacts DEF Shrinks
        <4> QED  BY <3>2, <4>1 DEF WalkOnce
      <3>3. CASE x.answer = None /\ x.questions = <<>>
        BY <3>3 DEF WalkOnce
      <3> QED  BY <3>1, <3>2, <3>3
    <2>8. WalkOnce(v, x) \in R
      BY <2>5, WalkOnceFacts DEF R
    <2> QED  BY <1>9, <2>3, <2>7, <2>8
  <1>11. w \in [Ahead -> R]
    BY <1>8, <1>10
  <1> QED  BY <1>9, <1>11 DEF w, R

-----------------------------------------------------------------------------
(* Answers are shown in place                                              *)

\* A walk is its first message and the walk that goes on from there.
LEMMA WalkStep ==
    ASSUME TreeInv, NEW x \in Ahead
    PROVE  /\ x.answer = None /\ x.questions = <<>> => Walk[x] = <<>>
           /\ x.answer # None =>
                LET y == Past(x.answer, x.questions)
                IN  /\ y \in Ahead
                    /\ Walk[x] = <<[message |-> x.answer, among |-> {}]>> \o Walk[y]
                    /\ Len(Walk[x]) = Len(Walk[y]) + 1
                    /\ Walk[x][1] = [message |-> x.answer, among |-> {}]
                    /\ \A i \in 1..Len(Walk[y]) : Walk[x][i + 1] = Walk[y][i]
           /\ x.answer = None /\ x.questions # <<>> =>
                LET m == Chosen(x.questions)
                    y == Under(m)
                IN  /\ y \in Ahead
                    /\ Walk[x] = <<[message |-> m, among |-> Range(x.questions)]>> \o Walk[y]
                    /\ Len(Walk[x]) = Len(Walk[y]) + 1
                    /\ Walk[x][1] = [message |-> m, among |-> Range(x.questions)]
                    /\ \A i \in 1..Len(Walk[y]) : Walk[x][i + 1] = Walk[y][i]
  <1>1. ASSUME NEW h, NEW t \in Seq(ShownAt), h \in ShownAt
        PROVE  /\ Len(<<h>> \o t) = Len(t) + 1
               /\ (<<h>> \o t)[1] = h
               /\ \A i \in 1..Len(t) : (<<h>> \o t)[i + 1] = t[i]
    <2>1. <<h>> \in Seq(ShownAt) /\ Len(<<h>>) = 1 /\ <<h>>[1] = h /\ Len(t) \in Nat
      BY <1>1, LenProperties
    <2> DEFINE s == <<h>> \o t
    <2>2. /\ Len(s) = 1 + Len(t)
          /\ \A i \in 1..(1 + Len(t)) : s[i] = IF i <= 1 THEN <<h>>[i] ELSE t[i - 1]
      <3>1. /\ Len(s) = Len(<<h>>) + Len(t)
            /\ \A i \in 1..(Len(<<h>>) + Len(t)) :
                 s[i] = IF i <= Len(<<h>>) THEN <<h>>[i] ELSE t[i - Len(<<h>>)]
        BY <2>1, ConcatProperties
      <3> QED  BY <2>1, <3>1
    <2> HIDE DEF s
    <2>3. s[1] = h
      BY <2>1, <2>2
    <2>4. ASSUME NEW i \in 1..Len(t)
          PROVE  s[i + 1] = t[i]
      <3>1. i + 1 \in 1..(1 + Len(t)) /\ ~(i + 1 <= 1) /\ (i + 1) - 1 = i
        BY <2>1
      <3> QED  BY <2>2, <3>1
    <2> QED  BY <2>1, <2>2, <2>3, <2>4 DEF s
  <1>2. Walk[x] = WalkOnce(Walk, x) /\ Walk \in [Ahead -> Seq(ShownAt)]
    BY WalkUnfolds
  <1>3. x.answer = None /\ x.questions = <<>> => Walk[x] = <<>>
    BY <1>2 DEF WalkOnce
  <1>4. ASSUME x.answer # None
        PROVE  LET y == Past(x.answer, x.questions)
               IN  /\ y \in Ahead
                   /\ Walk[x] = <<[message |-> x.answer, among |-> {}]>> \o Walk[y]
                   /\ Len(Walk[x]) = Len(Walk[y]) + 1
                   /\ Walk[x][1] = [message |-> x.answer, among |-> {}]
                   /\ \A i \in 1..Len(Walk[y]) : Walk[x][i + 1] = Walk[y][i]
    <2> DEFINE y == Past(x.answer, x.questions)
               h == [message |-> x.answer, among |-> {}]
    <2>1. y \in Ahead /\ Walk[y] \in Seq(ShownAt) /\ x.answer \in Messages
      BY <1>2, <1>4, AheadFacts
    <2>2. h \in ShownAt
      BY <2>1 DEF ShownAt
    <2>3. Walk[x] = <<h>> \o Walk[y]
      BY <1>2, <1>4 DEF WalkOnce
    <2> HIDE DEF y, h
    <2>4. /\ Len(Walk[x]) = Len(Walk[y]) + 1 /\ Walk[x][1] = h
          /\ \A i \in 1..Len(Walk[y]) : Walk[x][i + 1] = Walk[y][i]
      BY <1>1, <2>1, <2>2, <2>3
    <2> QED  BY <2>1, <2>3, <2>4 DEF y, h
  <1>5. ASSUME x.answer = None, x.questions # <<>>
        PROVE  LET m == Chosen(x.questions)
                   y == Under(m)
               IN  /\ y \in Ahead
                   /\ Walk[x] = <<[message |-> m, among |-> Range(x.questions)]>> \o Walk[y]
                   /\ Len(Walk[x]) = Len(Walk[y]) + 1
                   /\ Walk[x][1] = [message |-> m, among |-> Range(x.questions)]
                   /\ \A i \in 1..Len(Walk[y]) : Walk[x][i + 1] = Walk[y][i]
    <2> DEFINE m == Chosen(x.questions)
               y == Under(m)
               h == [message |-> m, among |-> Range(x.questions)]
    <2>1. y \in Ahead /\ Walk[y] \in Seq(ShownAt) /\ m \in Messages
          /\ Range(x.questions) \in SUBSET Committed
      BY <1>2, <1>5, AheadFacts, ChosenFacts
    <2>2. h \in ShownAt
      BY <2>1 DEF ShownAt
    <2>3. Walk[x] = <<h>> \o Walk[y]
      BY <1>2, <1>5 DEF WalkOnce
    <2> HIDE DEF m, y, h
    <2>4. /\ Len(Walk[x]) = Len(Walk[y]) + 1 /\ Walk[x][1] = h
          /\ \A i \in 1..Len(Walk[y]) : Walk[x][i + 1] = Walk[y][i]
      BY <1>1, <2>1, <2>2, <2>3
    <2> QED  BY <2>1, <2>3, <2>4 DEF m, y, h
  <1> QED  BY <1>3, <1>4, <1>5

\* Every answer comes next, and what is no question comes after what it answers.
InPlace(x, s) ==
    /\ x.answer # None => Len(s) >= 1 /\ s[1].message = x.answer
    /\ x.answer = None /\ Len(s) >= 1 => s[1].message[2] = 0
    /\ \A i \in 1..Len(s) :
         /\ Answer(s[i].message) # None =>
                i < Len(s) /\ s[i + 1].message = Answer(s[i].message)
         /\ s[i].message[2] > 0 =>
                \/ i = 1 /\ x.answer # None
                \/ i > 1 /\ s[i - 1].message = ParentOf(s[i].message)

\* One more message in front keeps answers in their place.
LEMMA InPlaceStep ==
    ASSUME NEW x, NEW y, NEW s, NEW t, NEW m, Len(t) \in Nat,
           Len(s) = Len(t) + 1, s[1].message = m,
           \A i \in 1..Len(t) : s[i + 1] = t[i],
           y.answer = Answer(m), InPlace(y, t),
           x.answer # None => m = x.answer,
           x.answer = None => m[2] = 0,
           Answer(m) # None => ParentOf(Answer(m)) = m
    PROVE  InPlace(x, s)
  <1>1. ASSUME NEW i \in 1..Len(s)
        PROVE  i = 1 \/ (i - 1 \in 1..Len(t) /\ s[i] = t[i - 1] /\ i > 1)
    <2> SUFFICES ASSUME i # 1
                 PROVE  i - 1 \in 1..Len(t) /\ s[i] = t[i - 1] /\ i > 1
      OBVIOUS
    <2>1. i - 1 \in 1..Len(t) /\ (i - 1) + 1 = i /\ i > 1
      OBVIOUS
    <2> QED  BY <2>1
  <1>2. Len(s) >= 1 /\ Len(s) \in Nat
    OBVIOUS
  <1>3. ASSUME NEW i \in 1..Len(s)
        PROVE  Answer(s[i].message) # None =>
                 i < Len(s) /\ s[i + 1].message = Answer(s[i].message)
    <2> SUFFICES ASSUME Answer(s[i].message) # None
                 PROVE  i < Len(s) /\ s[i + 1].message = Answer(s[i].message)
      OBVIOUS
    <2>1. CASE i = 1
      <3>1. y.answer # None /\ s[i].message = m
        BY <2>1
      <3>2. Len(t) >= 1 /\ t[1].message = y.answer
        BY <3>1 DEF InPlace
      <3>3. 1 \in 1..Len(t) /\ i < Len(s)
        BY <2>1, <3>2
      <3>4. s[i + 1] = t[1]
        BY <2>1, <3>3
      <3> QED  BY <3>1, <3>2, <3>3, <3>4
    <2>2. CASE i # 1
      <3>1. i - 1 \in 1..Len(t) /\ s[i] = t[i - 1]
        BY <1>1, <2>2
      <3>2. i - 1 < Len(t) /\ t[(i - 1) + 1].message = Answer(t[i - 1].message)
        BY <3>1 DEF InPlace
      <3>3. (i - 1) + 1 = i /\ i \in 1..Len(t) /\ i < Len(s)
        BY <2>2, <3>2
      <3>4. s[i + 1] = t[i]
        BY <3>3
      <3> QED  BY <3>1, <3>2, <3>3, <3>4
    <2> QED  BY <2>1, <2>2
  <1>4. ASSUME NEW i \in 1..Len(s)
        PROVE  s[i].message[2] > 0 =>
                 \/ i = 1 /\ x.answer # None
                 \/ i > 1 /\ s[i - 1].message = ParentOf(s[i].message)
    <2> SUFFICES ASSUME s[i].message[2] > 0
                 PROVE  \/ i = 1 /\ x.answer # None
                        \/ i > 1 /\ s[i - 1].message = ParentOf(s[i].message)
      OBVIOUS
    <2>1. CASE i = 1
      BY <2>1
    <2>2. CASE i # 1
      <3>1. i - 1 \in 1..Len(t) /\ s[i] = t[i - 1] /\ i > 1
        BY <1>1, <2>2
      <3>2. \/ i - 1 = 1 /\ y.answer # None
            \/ i - 1 > 1 /\ t[(i - 1) - 1].message = ParentOf(t[i - 1].message)
        BY <3>1 DEF InPlace
      <3>3. CASE i - 1 = 1 /\ y.answer # None
        <4>1. t[1].message = y.answer
          BY <3>3 DEF InPlace
        <4> QED  BY <3>1, <3>3, <4>1
      <3>4. CASE i - 1 > 1 /\ t[(i - 1) - 1].message = ParentOf(t[i - 1].message)
        <4>1. (i - 1) - 1 \in 1..Len(t) /\ ((i - 1) - 1) + 1 = i - 1
          BY <3>1, <3>4
        <4>2. s[i - 1] = t[(i - 1) - 1]
          BY <4>1
        <4> QED  BY <3>1, <3>4, <4>2
      <3> QED  BY <3>2, <3>3, <3>4
    <2> QED  BY <2>1, <2>2
  <1> QED  BY <1>2, <1>3, <1>4 DEF InPlace

\* In any walk answers are in their place.
LEMMA WalkInPlace ==
    ASSUME TreeInv, NEW x \in Ahead
    PROVE  InPlace(x, Walk[x])
  <1> SUFFICES ASSUME ~InPlace(x, Walk[x])
               PROVE  FALSE
    OBVIOUS
  <1>1. PICK size \in [Ahead -> Nat] : Shrinks(size)
    BY WalkShrinks
  <1> DEFINE T == {n \in Nat : \E y \in Ahead : size[y] = n /\ ~InPlace(y, Walk[y])}
  <1>2. T \in SUBSET Nat /\ T # {}
    <2>1. size[x] \in T
      OBVIOUS
    <2> QED  BY <2>1
  <1>3. PICK n \in T : \A k \in T : n <= k
    <2> HIDE DEF T
    <2> QED  BY <1>2, LeastOf
  <1>4. PICK z \in Ahead : size[z] = n /\ ~InPlace(z, Walk[z])
    OBVIOUS
  <1>5. ASSUME NEW y \in Ahead, size[y] < size[z]
        PROVE  InPlace(y, Walk[y])
    <2>1. size[y] \in Nat /\ n \in Nat
      OBVIOUS
    <2>2. ~(n <= size[y])
      BY <1>4, <1>5, <2>1
    <2> QED  BY <1>3, <2>1, <2>2
  <1>6. \A y \in Ahead : Walk[y] \in Seq(ShownAt) /\ Len(Walk[y]) \in Nat
    BY WalkUnfolds, LenProperties
  <1> HIDE DEF T
  <1>7. CASE z.answer # None
    <2> DEFINE y == Past(z.answer, z.questions)
    <2>1. /\ y \in Ahead /\ size[y] < size[z] /\ z.answer \in Messages
          /\ Len(Walk[z]) = Len(Walk[y]) + 1
          /\ Walk[z][1] = [message |-> z.answer, among |-> {}]
          /\ \A i \in 1..Len(Walk[y]) : Walk[z][i + 1] = Walk[y][i]
      BY <1>1, <1>7, WalkStep, AheadFacts DEF Shrinks
    <2>2. y.answer = Answer(z.answer)
      BY DEF Past
    <2> HIDE DEF y
    <2>3. Walk[z][1].message = z.answer
      BY <2>1
    <2>4. Answer(z.answer) # None => ParentOf(Answer(z.answer)) = z.answer
      BY <2>1, AnswerFacts
    <2>5. InPlace(y, Walk[y]) /\ Len(Walk[y]) \in Nat
      BY <1>5, <1>6, <2>1
    <2> QED  BY <1>4, <1>7, <2>1, <2>2, <2>3, <2>4, <2>5, InPlaceStep
  <1>8. CASE z.answer = None /\ z.questions # <<>>
    <2> DEFINE m == Chosen(z.questions)
               y == Under(m)
    <2>1. /\ y \in Ahead /\ size[y] < size[z] /\ m \in Messages
          /\ Len(Walk[z]) = Len(Walk[y]) + 1
          /\ Walk[z][1] = [message |-> m, among |-> Range(z.questions)]
          /\ \A i \in 1..Len(Walk[y]) : Walk[z][i + 1] = Walk[y][i]
      BY <1>1, <1>8, WalkStep, AheadFacts DEF Shrinks
    <2>2. y.answer = Answer(m)
      BY DEF Under
    <2>3. m[2] = 0
      BY <1>8, AheadFacts, ChosenFacts
    <2> HIDE DEF y, m
    <2>4. Walk[z][1].message = m
      BY <2>1
    <2>5. Answer(m) # None => ParentOf(Answer(m)) = m
      BY <2>1, AnswerFacts
    <2>6. InPlace(y, Walk[y]) /\ Len(Walk[y]) \in Nat
      BY <1>5, <1>6, <2>1
    <2>7. z.answer # None => m = z.answer
      BY <1>8
    <2>8. z.answer = None => m[2] = 0
      BY <2>3
    <2>9. InPlace(z, Walk[z])
      <3>1. Len(Walk[z]) = Len(Walk[y]) + 1 /\ \A i \in 1..Len(Walk[y]) : Walk[z][i + 1] = Walk[y][i]
        BY <2>1
      <3> QED  BY ONLY <2>2, <2>4, <2>5, <2>6, <2>7, <2>8, <3>1, InPlaceStep
    <2> QED  BY <1>4, <2>9
  <1>9. CASE z.answer = None /\ z.questions = <<>>
    <2>1. Walk[z] = <<>>
      BY <1>9, WalkStep
    <2>2. Len(Walk[z]) = 0
      BY <2>1
    <2>3. InPlace(z, Walk[z])
      BY <1>9, <2>2 DEF InPlace
    <2> QED  BY <1>4, <2>3
  <1> QED  BY <1>7, <1>8, <1>9

\* Where the walk starts.
Start == [answer |-> None, questions |-> Questions(Root)]

\* The walk from the root and the messages it shows.
LEMMA WalkedFacts ==
    ASSUME TreeInv
    PROVE  /\ Start \in Ahead
           /\ Walked = Walk[Start]
           /\ Walked \in Seq(ShownAt)
           /\ Len(Walked) \in Nat
           /\ MessagesOf(Walked) \in Seq(Messages)
           /\ Len(MessagesOf(Walked)) = Len(Walked)
           /\ DOMAIN MessagesOf(Walked) = 1..Len(Walked)
           /\ \A i \in 1..Len(Walked) : /\ MessagesOf(Walked)[i] = Walked[i].message
                                        /\ Walked[i].message \in Messages
                                        /\ Walked[i].among \in SUBSET Committed
  <1>1. Start \in Ahead
    BY QuestionFacts DEF Start, Ahead
  <1>2. Walked = Walk[Start]
    BY DEF Walked, Start
  <1>3. Walked \in Seq(ShownAt)
    BY <1>1, <1>2, WalkUnfolds
  <1> DEFINE w == Walked
  <1> HIDE DEF w
  <1>4. /\ Len(w) \in Nat /\ DOMAIN w = 1..Len(w)
        /\ \A i \in 1..Len(w) : w[i] \in ShownAt
    BY <1>3, LenProperties DEF w
  <1>5. /\ MessagesOf(w) = [i \in 1..Len(w) |-> w[i].message]
        /\ \A i \in 1..Len(w) : w[i].message \in Messages /\ w[i].among \in SUBSET Committed
    BY <1>4 DEF MessagesOf, ShownAt
  <1>6. MessagesOf(w) \in Seq(Messages) /\ Len(MessagesOf(w)) = Len(w)
    BY <1>4, <1>5
  <1> QED  BY <1>1, <1>2, <1>3, <1>4, <1>5, <1>6 DEF w

\* Without any cycle in the tree, answers are shown in their place.
LEMMA TreeShowsInPlace == TreeInv => AnswersInPlace
  <1> SUFFICES ASSUME TreeInv, HasTree
               PROVE  \A i \in DOMAIN Shown :
                        /\ Answer(Shown[i]) # None =>
                               i < Len(Shown) /\ Shown[i + 1] = Answer(Shown[i])
                        /\ Shown[i][2] > 0 => i > 1 /\ Shown[i - 1] = ParentOf(Shown[i])
    BY DEF AnswersInPlace
  <1>1. Shown = MessagesOf(Walked)
    BY DEF Shown
  <1>2. InPlace(Start, Walked) /\ Start.answer = None
    BY WalkedFacts, WalkInPlace DEF Start
  <1> DEFINE s == Shown
             w == Walked
  <1> HIDE DEF s, w
  <1>3. /\ DOMAIN s = 1..Len(w) /\ Len(s) = Len(w) /\ Len(w) \in Nat
        /\ \A i \in 1..Len(w) : s[i] = w[i].message
    BY <1>1, WalkedFacts DEF s, w
  <1>4. ASSUME NEW i \in 1..Len(w)
        PROVE  /\ Answer(s[i]) # None => i < Len(s) /\ s[i + 1] = Answer(s[i])
               /\ s[i][2] > 0 => i > 1 /\ s[i - 1] = ParentOf(s[i])
    <2>1. /\ Answer(w[i].message) # None =>
                 i < Len(w) /\ w[i + 1].message = Answer(w[i].message)
          /\ w[i].message[2] > 0 => i > 1 /\ w[i - 1].message = ParentOf(w[i].message)
      BY <1>2 DEF InPlace, w
    <2>2. i < Len(w) => i + 1 \in 1..Len(w)
      BY <1>3
    <2>3. i > 1 => i - 1 \in 1..Len(w)
      BY <1>3
    <2> QED  BY <1>3, <2>1, <2>2, <2>3
  <1> QED  BY <1>3, <1>4 DEF s

-----------------------------------------------------------------------------
(* The branch as a path of questions                                       *)

\* The questions below a job's messages; the conversation's first ones are below 0.
Children(k) == {j \in Committed : jobs[j].parent[1] = k}

\* The order in which a walk meets the questions below a job.
Before(i, j) ==
    \/ jobs[i].parent[2] < jobs[j].parent[2]
    \/ jobs[i].parent[2] = jobs[j].parent[2] /\ i < j

\* The branch map names the question for its key.
Marked(key, j) == key # Root /\ key \in DOMAIN branch /\ branch[key] = <<j, 0>>

\* Which of the questions below job k is shown: the one the map has for the parent of
\* the first of them or else the last one.
Picked(k, j) ==
    /\ j \in Children(k)
    /\ \E f \in Children(k) :
         /\ \A i \in Children(k) : i = f \/ Before(f, i)
         /\ IF \E i \in Children(k) : Marked(jobs[f].parent, i)
            THEN Marked(jobs[f].parent, j)
            ELSE \A i \in Children(k) : i = j \/ Before(i, j)

\* A list of the questions in C in the order a walk meets them.
Lists(q, C) ==
    /\ q \in Seq(Committed)
    /\ \A i \in 1..Len(q) : q[i] \in C
    /\ \A j \in C : \E i \in 1..Len(q) : q[i] = j
    /\ \A i, k \in 1..Len(q) : i < k => Before(q[i], q[k])

\* A question below a job hangs off one of its archived messages.
LEMMA ChildFacts ==
    ASSUME TreeInv, NEW k, NEW j \in Children(k)
    PROVE  /\ j \in Committed /\ j \in Nat /\ j # 0
           /\ k \in Nat
           /\ jobs[j].parent = <<k, jobs[j].parent[2]>>
           /\ jobs[j].parent[2] \in Nat
           /\ k = 0 => jobs[j].parent = Root
           /\ k # 0 => /\ jobs[j].parent \in Parents /\ jobs[j].parent # Root
                       /\ k \in Committed
                       /\ jobs[j].parent[2] <= jobs[k].archived
                       /\ jobs[j].parent[2] <= Found(k)
  <1>1. j \in Committed /\ jobs[j].parent[1] = k
    BY DEF Children
  <1>2. j \in Nat /\ j # 0
    BY <1>1, CommittedFacts
  <1>3. CASE jobs[j].parent = Root
    BY <1>1, <1>2, <1>3 DEF Root
  <1>4. CASE jobs[j].parent # Root
    <2>1. jobs[j].parent \in Parents
      BY <1>1, <1>4, CommittedFacts
    <2> DEFINE m == jobs[j].parent
    <2>2. m \in Parents /\ m[1] = k
      BY <1>1, <2>1
    <2> HIDE DEF m
    <2>3. /\ m \in Messages /\ m = <<k, m[2]>> /\ k \in Committed /\ m[2] \in Nat
          /\ m[2] <= Found(k)
      BY <2>2, CommittedFacts
    <2>4. m[2] <= jobs[k].archived
      BY <2>2 DEF Parents
    <2>5. k \in Nat /\ k # 0
      BY <2>3, CommittedFacts
    <2> QED  BY <1>1, <1>2, <1>4, <2>1, <2>3, <2>4, <2>5 DEF m
  <1> QED  BY <1>3, <1>4

\* Of two questions one comes before the other at most.
LEMMA BeforeFacts ==
    ASSUME TreeInv, NEW k, NEW i \in Children(k), NEW j \in Children(k)
    PROVE  ~(Before(i, j) /\ Before(j, i))
  <1>1. /\ jobs[i].parent[2] \in Nat /\ jobs[j].parent[2] \in Nat /\ i \in Nat /\ j \in Nat
    BY ChildFacts
  <1> QED  BY <1>1 DEF Before

\* One question is picked at most.
LEMMA PickedOnce ==
    ASSUME TreeInv, NEW k, NEW i, NEW j, Picked(k, i), Picked(k, j)
    PROVE  i = j
  <1> DEFINE C == Children(k)
  <1>1. \A a, b \in C : ~(Before(a, b) /\ Before(b, a))
    BY BeforeFacts
  <1>2. PICK f \in C : /\ \A a \in C : a = f \/ Before(f, a)
                      /\ IF \E a \in C : Marked(jobs[f].parent, a)
                         THEN Marked(jobs[f].parent, i)
                         ELSE \A a \in C : a = i \/ Before(a, i)
    BY DEF Picked
  <1>3. PICK g \in C : /\ \A a \in C : a = g \/ Before(g, a)
                      /\ IF \E a \in C : Marked(jobs[g].parent, a)
                         THEN Marked(jobs[g].parent, j)
                         ELSE \A a \in C : a = j \/ Before(a, j)
    BY DEF Picked
  <1>4. i \in C /\ j \in C
    BY DEF Picked
  <1> HIDE DEF C
  <1>5. f = g
    BY <1>1, <1>2, <1>3
  <1>6. CASE \E a \in C : Marked(jobs[f].parent, a)
    <2>1. Marked(jobs[f].parent, i) /\ Marked(jobs[f].parent, j)
      BY <1>2, <1>3, <1>5, <1>6
    <2>2. <<i, 0>> = <<j, 0>>
      BY <2>1 DEF Marked
    <2> QED  BY <2>2
  <1>7. CASE ~\E a \in C : Marked(jobs[f].parent, a)
    <2>1. /\ \A a \in C : a = i \/ Before(a, i)
          /\ \A a \in C : a = j \/ Before(a, j)
      BY <1>2, <1>3, <1>5, <1>7
    <2> QED  BY <1>1, <1>4, <2>1
  <1> QED  BY <1>6, <1>7

\* What a walk chooses from the questions below a job is the one picked.
LEMMA PickFacts ==
    ASSUME TreeInv, NEW k, NEW q, Lists(q, Children(k))
    PROVE  /\ q = <<>> => Children(k) = {}
           /\ q # <<>> => /\ Children(k) # {}
                          /\ Range(q) = Children(k)
                          /\ \E j : Picked(k, j) /\ Chosen(q) = <<j, 0>>
  <1> DEFINE C == Children(k)
  <1>1. /\ q \in Seq(Committed)
        /\ \A i \in 1..Len(q) : q[i] \in C
        /\ \A j \in C : \E i \in 1..Len(q) : q[i] = j
        /\ \A i, l \in 1..Len(q) : i < l => Before(q[i], q[l])
    BY DEF Lists
  <1> HIDE DEF C
  <1>2. ASSUME q = <<>>
        PROVE  C = {}
    <2>1. Len(q) = 0
      BY <1>2
    <2> QED  BY <1>1, <2>1
  <1>3. ASSUME q # <<>>
        PROVE  /\ C # {} /\ Range(q) = C
               /\ \E j : Picked(k, j) /\ Chosen(q) = <<j, 0>>
    <2>1. Len(q) \in Nat /\ Len(q) # 0 /\ DOMAIN q = 1..Len(q)
      BY <1>1, <1>3, EmptySeq, LenProperties
    <2>2. 1 \in 1..Len(q) /\ Len(q) \in 1..Len(q)
      BY <2>1
    <2>3. Range(q) = C
      BY <1>1, <2>1 DEF Range
    <2> DEFINE f == q[1]
               l == q[Len(q)]
               marked == {j \in C : Marked(jobs[f].parent, j)}
               chosen == IF marked = {} THEN l ELSE CHOOSE j \in marked : TRUE
    <2>4. f \in C /\ \A j \in C : j = f \/ Before(f, j)
      <3> SUFFICES ASSUME NEW j \in C
                   PROVE  j = f \/ Before(f, j)
        BY <1>1, <2>2
      <3>1. PICK i \in 1..Len(q) : q[i] = j
        BY <1>1
      <3>2. i = 1 \/ 1 < i
        OBVIOUS
      <3> QED  BY <1>1, <2>2, <3>1, <3>2
    <2>5. l \in C /\ \A j \in C : j = l \/ Before(j, l)
      <3> SUFFICES ASSUME NEW j \in C
                   PROVE  j = l \/ Before(j, l)
        BY <1>1, <2>2
      <3>1. PICK i \in 1..Len(q) : q[i] = j
        BY <1>1
      <3>2. i = Len(q) \/ i < Len(q)
        <4>1. \A n \in Nat : \A a \in 1..n : a = n \/ a < n
          OBVIOUS
        <4> QED  BY <2>1, <4>1
      <3> QED  BY <1>1, <2>2, <3>1, <3>2
    <2>6. Chosen(q) = <<chosen, 0>>
      <3>1. Last(q) = l
        BY DEF Last
      <3>2. marked = {j \in Range(q) : /\ jobs[f].parent # Root
                                       /\ jobs[f].parent \in DOMAIN branch
                                       /\ branch[jobs[f].parent] = <<j, 0>>}
        BY <2>3 DEF Marked
      <3> QED  BY <3>1, <3>2 DEF Chosen
    <2>7. /\ marked # {} => chosen \in marked
          /\ marked = {} => chosen = l
      OBVIOUS
    <2> HIDE DEF chosen, f, l
    <2>8. Picked(k, chosen)
      <3>1. chosen \in C
        BY <2>5, <2>7
      <3>2. /\ (\E i \in C : Marked(jobs[f].parent, i)) => Marked(jobs[f].parent, chosen)
            /\ (~\E i \in C : Marked(jobs[f].parent, i)) =>
                   \A i \in C : i = chosen \/ Before(i, chosen)
        BY <2>5, <2>7
      <3> HIDE DEF marked
      <3> QED  BY <2>4, <3>1, <3>2 DEF Picked, C
    <2> QED  BY <1>1, <2>2, <2>3, <2>6, <2>8
  <1> QED  BY <1>2, <1>3 DEF C

\* In a walk below job k the questions met so far are those below its messages up to
\* the next answer.
Gathered(x, k) ==
    /\ x.answer # None => x.answer[1] = k /\ x.answer[2] > 0
    /\ Lists(x.questions,
             {j \in Children(k) : x.answer = None \/ jobs[j].parent[2] < x.answer[2]})

\* A walk starts with the first questions of the conversation.
LEMMA GatheredStart ==
    ASSUME TreeInv
    PROVE  Gathered(Start, 0)
  <1>1. Start.answer = None /\ Start.questions = Questions(Root)
    BY DEF Start
  <1>2. \A j \in Committed : jobs[j].parent = Root <=> j \in Children(0)
    <2>1. \A j \in Children(0) : jobs[j].parent = Root
      BY ChildFacts
    <2> QED  BY <2>1 DEF Children, Root
  <1>3. Children(0) \subseteq Committed
    BY DEF Children
  <1>4. Lists(Questions(Root), Children(0))
    <2>1. \A i \in 1..Len(Questions(Root)) : Questions(Root)[i] \in Children(0)
      BY <1>2, QuestionFacts
    <2>2. \A i, k \in 1..Len(Questions(Root)) :
            i < k => Before(Questions(Root)[i], Questions(Root)[k])
      BY QuestionFacts DEF Before
    <2> QED  BY <1>2, <1>3, <2>1, <2>2, QuestionFacts DEF Lists
  <1>5. Children(0) = {j \in Children(0) :
                         Start.answer = None \/ jobs[j].parent[2] < Start.answer[2]}
    BY <1>1
  <1> QED  BY <1>1, <1>4, <1>5 DEF Gathered

\* Below a question a walk starts with the questions beside its first answer.
LEMMA GatheredUnder ==
    ASSUME TreeInv, NEW k \in Committed
    PROVE  Gathered(Under(<<k, 0>>), k)
  <1> DEFINE m == <<k, 0>>
             x == Under(m)
             C == {j \in Children(k) : x.answer = None \/ jobs[j].parent[2] < x.answer[2]}
  <1>1. x.answer = Answer(m) /\ x.questions = Questions(m)
    BY DEF Under
  <1>2. m \in Messages /\ k \in Nat /\ k # 0 /\ Found(k) \in Nat
    BY CommittedFacts
  <1>3. /\ Answer(m) = None => Found(k) = 0
        /\ Answer(m) # None => Answer(m)[1] = k /\ Answer(m)[2] = 1
    BY <1>2, AnswerFacts
  <1>4. ASSUME NEW j \in Committed
        PROVE  jobs[j].parent = m <=> j \in C
    <2>1. jobs[j].parent = m => j \in Children(k) /\ jobs[j].parent[2] = 0
      BY DEF Children
    <2>2. ASSUME j \in C
          PROVE  jobs[j].parent = m
      <3>1. /\ jobs[j].parent = <<k, jobs[j].parent[2]>> /\ jobs[j].parent[2] \in Nat
            /\ jobs[j].parent[2] <= Found(k)
        BY <1>2, <2>2, ChildFacts
      <3>2. jobs[j].parent[2] = 0
        BY <1>1, <1>3, <2>2, <3>1
      <3> QED  BY <3>1, <3>2
    <2> QED  BY <1>1, <1>3, <2>1, <2>2
  <1>5. C \subseteq Committed
    BY DEF Children
  <1> HIDE DEF C
  <1>6. Lists(Questions(m), C)
    <2>1. \A i \in 1..Len(Questions(m)) : Questions(m)[i] \in C
      BY <1>4, QuestionFacts
    <2>2. \A i, l \in 1..Len(Questions(m)) :
            i < l => Before(Questions(m)[i], Questions(m)[l])
      BY QuestionFacts DEF Before
    <2> QED  BY <1>4, <1>5, <2>1, <2>2, QuestionFacts DEF Lists
  <1> QED  BY <1>1, <1>3, <1>6 DEF Gathered, C

\* Past an answer the questions below it are added.
LEMMA GatheredPast ==
    ASSUME TreeInv, NEW k, NEW x \in Ahead, Gathered(x, k), x.answer # None
    PROVE  Gathered(Past(x.answer, x.questions), k)
  <1> DEFINE m == x.answer
             y == Past(m, x.questions)
             C == {j \in Children(k) : jobs[j].parent[2] < m[2]}
             D == {j \in Children(k) : y.answer = None \/ jobs[j].parent[2] < y.answer[2]}
             p == x.questions
             q == Questions(m)
  <1>1. y.answer = Answer(m) /\ y.questions = p \o q
    BY DEF Past, Beside
  <1>2. /\ m \in Messages /\ m[1] = k /\ m = <<k, m[2]>> /\ m[2] \in Nat
        /\ m[2] > 0 /\ k \in Committed /\ k # 0 /\ Found(k) \in Nat /\ m[2] <= Found(k)
    BY AheadFacts, CommittedFacts DEF Gathered
  <1>3. /\ Answer(m) = None => Found(k) = m[2]
        /\ Answer(m) # None => Answer(m)[1] = k /\ Answer(m)[2] = m[2] + 1
    BY <1>2, AnswerFacts
  <1>4. Lists(p, C)
    <2>1. C = {j \in Children(k) : x.answer = None \/ jobs[j].parent[2] < x.answer[2]}
      OBVIOUS
    <2> HIDE DEF C
    <2> QED  BY <2>1 DEF Gathered
  <1>5. \A j \in Children(k) : /\ j \in Committed /\ jobs[j].parent = <<k, jobs[j].parent[2]>>
                               /\ jobs[j].parent[2] \in Nat /\ jobs[j].parent[2] <= Found(k)
    BY <1>2, ChildFacts
  <1>6. \A j \in Committed : jobs[j].parent = m => j \in D /\ jobs[j].parent[2] = m[2]
    BY <1>1, <1>2, <1>3 DEF Children
  <1>7. \A j \in C : j \in D
    BY <1>1, <1>2, <1>3, <1>5
  <1>8. ASSUME NEW j \in D
        PROVE  j \in Committed /\ (j \in C \/ jobs[j].parent = m)
    <2>1. j \in Children(k)
      OBVIOUS
    <2>2. jobs[j].parent[2] <= m[2]
      BY <1>1, <1>2, <1>3, <1>5, <2>1
    <2>3. jobs[j].parent[2] < m[2] \/ jobs[j].parent[2] = m[2]
      BY <1>2, <1>5, <2>1, <2>2
    <2> QED  BY <1>2, <1>5, <2>1, <2>3
  <1>9. \A j \in C : jobs[j].parent[2] < m[2]
    OBVIOUS
  <1> HIDE DEF m, C, D, p, q
  <1>10. Lists(p \o q, D)
    <2>1. /\ p \in Seq(Committed) /\ q \in Seq(Committed)
          /\ Len(p) \in Nat /\ Len(q) \in Nat
      BY <1>4, QuestionFacts, LenProperties DEF Lists, q
    <2>2. /\ p \o q \in Seq(Committed) /\ Len(p \o q) = Len(p) + Len(q)
          /\ \A i \in 1..(Len(p) + Len(q)) :
               (p \o q)[i] = IF i <= Len(p) THEN p[i] ELSE q[i - Len(p)]
      BY <2>1, ConcatProperties
    <2>3. \A i \in 1..(Len(p) + Len(q)) :
            \/ i \in 1..Len(p) /\ (p \o q)[i] = p[i]
            \/ i > Len(p) /\ i - Len(p) \in 1..Len(q) /\ (p \o q)[i] = q[i - Len(p)]
      BY <2>1, <2>2
    <2>4. \A i \in 1..Len(p) : p[i] \in C
      BY <1>4 DEF Lists
    <2>5. \A i \in 1..Len(q) : q[i] \in Committed /\ jobs[q[i]].parent = m
      BY QuestionFacts DEF q
    <2>6. \A i \in 1..(Len(p) + Len(q)) : (p \o q)[i] \in D
      BY <1>6, <1>7, <2>3, <2>4, <2>5
    <2>7. ASSUME NEW j \in D
          PROVE  \E i \in 1..(Len(p) + Len(q)) : (p \o q)[i] = j
      <3>1. CASE j \in C
        <4>1. PICK i \in 1..Len(p) : p[i] = j
          BY <1>4, <3>1 DEF Lists
        <4>2. i \in 1..(Len(p) + Len(q)) /\ i <= Len(p)
          BY <2>1
        <4> QED  BY <2>2, <4>1, <4>2
      <3>2. CASE jobs[j].parent = m
        <4>1. PICK i \in 1..Len(q) : q[i] = j
          BY <1>8, <3>2, QuestionFacts DEF q
        <4> DEFINE l == Len(p) + i
        <4>2. l \in 1..(Len(p) + Len(q)) /\ ~(l <= Len(p)) /\ l - Len(p) = i
          BY <2>1
        <4> QED  BY <2>2, <4>1, <4>2
      <3> QED  BY <1>8, <3>1, <3>2
    <2>8. ASSUME NEW i \in 1..(Len(p) + Len(q)), NEW l \in 1..(Len(p) + Len(q)), i < l
          PROVE  Before((p \o q)[i], (p \o q)[l])
      <3>1. CASE i \in 1..Len(p) /\ l \in 1..Len(p)
        <4>1. Before(p[i], p[l])
          BY <1>4, <2>8, <3>1 DEF Lists
        <4>2. i <= Len(p) /\ l <= Len(p)
          BY <2>1, <3>1
        <4> QED  BY <2>2, <4>1, <4>2
      <3>2. CASE i \in 1..Len(p) /\ ~(l <= Len(p))
        <4>1. l - Len(p) \in 1..Len(q) /\ (p \o q)[l] = q[l - Len(p)] /\ (p \o q)[i] = p[i]
          BY <2>1, <2>3, <3>2
        <4>2. jobs[p[i]].parent[2] < m[2] /\ jobs[q[l - Len(p)]].parent[2] = m[2]
          BY <1>6, <1>9, <2>4, <2>5, <3>2, <4>1
        <4> QED  BY <4>1, <4>2 DEF Before
      <3>3. CASE ~(i <= Len(p)) /\ ~(l <= Len(p))
        <4>1. /\ l - Len(p) \in 1..Len(q) /\ (p \o q)[l] = q[l - Len(p)]
              /\ i - Len(p) \in 1..Len(q) /\ (p \o q)[i] = q[i - Len(p)]
              /\ i - Len(p) < l - Len(p)
          BY <2>1, <2>3, <2>8, <3>3
        <4>2. q[i - Len(p)] < q[l - Len(p)]
          BY <4>1, QuestionFacts DEF q
        <4> QED  BY <2>5, <4>1, <4>2 DEF Before
      <3>4. \/ i \in 1..Len(p) /\ l \in 1..Len(p)
            \/ i \in 1..Len(p) /\ ~(l <= Len(p))
            \/ ~(i <= Len(p)) /\ ~(l <= Len(p))
        BY <2>1, <2>8
      <3> QED  BY <3>1, <3>2, <3>3, <3>4
    <2> QED  BY <2>2, <2>6, <2>7, <2>8 DEF Lists
  <1>11. y.answer # None => y.answer[1] = k /\ y.answer[2] > 0
    BY <1>1, <1>2, <1>3
  <1>12. Lists(y.questions, D)
    BY <1>1, <1>10
  <1> HIDE DEF y
  <1>13. Gathered(y, k)
    BY <1>11, <1>12 DEF Gathered, D
  <1> QED  BY <1>13 DEF y, m

\* A walk shows a message.
Shows(s, m) == \E i \in 1..Len(s) : s[i].message = m

\* A place in a walk where the question picked below a job is shown.
ChosenFrom(place, k) ==
    /\ place.among = Children(k)
    /\ \E j : Picked(k, j) /\ place.message = <<j, 0>>

\* A walk shows the question picked below a job.
Chooses(s, k) == \E i \in 1..Len(s) : ChosenFrom(s[i], k)

\* It does after a place in it.
ChoosesAfter(s, i, k) == \E a \in 1..Len(s) : a > i /\ ChosenFrom(s[a], k)

\* What a walk s below job k shows, and from what.
Branches(s, k) ==
    /\ \A i \in 1..Len(s) :
         s[i].message[2] = 0 \/ s[i].among # {} =>
             \E l \in Nat : ChosenFrom(s[i], l) /\ (l = k \/ Shows(s, <<l, 0>>))
    /\ Children(k) # {} => Chooses(s, k)
    /\ \A i \in 1..Len(s) :
         Children(s[i].message[1]) # {} => ChoosesAfter(s, i, s[i].message[1])
    /\ \A i \in 1..Len(s) :
         s[i].message[1] = k \/ Shows(s, <<s[i].message[1], 0>>)

\* Places in a sequence that goes on with t.
LEMMA Shifted ==
    ASSUME NEW s, NEW t, Len(t) \in Nat, Len(s) = Len(t) + 1,
           \A i \in 1..Len(t) : s[i + 1] = t[i]
    PROVE  /\ 1 \in 1..Len(s)
           /\ \A i \in 1..Len(s) : i = 1 \/ (i > 1 /\ i - 1 \in 1..Len(t) /\ s[i] = t[i - 1])
           /\ \A i \in 1..Len(t) : i + 1 \in 1..Len(s) /\ s[i + 1] = t[i]
  <1>1. ASSUME NEW i \in 1..Len(s)
        PROVE  i = 1 \/ (i > 1 /\ i - 1 \in 1..Len(t) /\ s[i] = t[i - 1])
    <2> SUFFICES ASSUME i # 1
                 PROVE  i - 1 \in 1..Len(t) /\ s[i] = t[i - 1] /\ i > 1
      OBVIOUS
    <2>1. i - 1 \in 1..Len(t) /\ (i - 1) + 1 = i /\ i > 1
      OBVIOUS
    <2> QED  BY <2>1
  <1> QED  BY <1>1

\* What the rest of a walk shows and chooses, all of it does.
LEMMA ShownLater ==
    ASSUME NEW s, NEW t, Len(t) \in Nat, Len(s) = Len(t) + 1,
           \A i \in 1..Len(t) : s[i + 1] = t[i]
    PROVE  /\ \A k : Chooses(t, k) => ChoosesAfter(s, 1, k)
           /\ \A k : Chooses(t, k) => Chooses(s, k)
           /\ \A m : Shows(t, m) => Shows(s, m)
           /\ \A i \in 1..Len(s) : \A k :
                i # 1 /\ ChoosesAfter(t, i - 1, k) => ChoosesAfter(s, i, k)
           /\ Shows(s, s[1].message)
           /\ \A k : ChosenFrom(s[1], k) => Chooses(s, k)
  <1>1. /\ 1 \in 1..Len(s)
        /\ \A i \in 1..Len(t) : i + 1 \in 1..Len(s) /\ s[i + 1] = t[i]
    BY Shifted
  <1>2. ASSUME NEW k, Chooses(t, k)
        PROVE  ChoosesAfter(s, 1, k) /\ Chooses(s, k)
    <2>1. PICK i \in 1..Len(t) : ChosenFrom(t[i], k)
      BY <1>2 DEF Chooses
    <2>2. i + 1 \in 1..Len(s) /\ s[i + 1] = t[i] /\ i + 1 > 1
      BY <1>1
    <2> QED  BY <2>1, <2>2 DEF Chooses, ChoosesAfter
  <1>3. ASSUME NEW m, Shows(t, m)
        PROVE  Shows(s, m)
    BY <1>1, <1>3 DEF Shows
  <1>4. ASSUME NEW i \in 1..Len(s), NEW k, i # 1, ChoosesAfter(t, i - 1, k)
        PROVE  ChoosesAfter(s, i, k)
    <2>1. PICK a \in 1..Len(t) : a > i - 1 /\ ChosenFrom(t[a], k)
      BY <1>4 DEF ChoosesAfter
    <2>2. a + 1 \in 1..Len(s) /\ s[a + 1] = t[a] /\ a + 1 > i
      BY <1>1, <2>1
    <2> QED  BY <2>1, <2>2 DEF ChoosesAfter
  <1> QED  BY <1>1, <1>2, <1>3, <1>4 DEF Shows, Chooses

\* One more answer in front keeps the branches.
LEMMA BranchesAnswer ==
    ASSUME NEW k, NEW s, NEW t, Len(t) \in Nat, Len(s) = Len(t) + 1,
           \A i \in 1..Len(t) : s[i + 1] = t[i],
           s[1].message[1] = k, s[1].message[2] # 0, s[1].among = {},
           Branches(t, k)
    PROVE  Branches(s, k)
  <1>1. /\ 1 \in 1..Len(s)
        /\ \A i \in 1..Len(s) : i = 1 \/ (i - 1 \in 1..Len(t) /\ s[i] = t[i - 1])
    BY Shifted
  <1>2. /\ \A l : Chooses(t, l) => ChoosesAfter(s, 1, l)
        /\ \A l : Chooses(t, l) => Chooses(s, l)
        /\ \A m : Shows(t, m) => Shows(s, m)
        /\ \A i \in 1..Len(s) : \A l :
             i # 1 /\ ChoosesAfter(t, i - 1, l) => ChoosesAfter(s, i, l)
        /\ Shows(s, s[1].message)
        /\ \A l : ChosenFrom(s[1], l) => Chooses(s, l)
    BY ShownLater
  <1>3. ASSUME NEW i \in 1..Len(s), s[i].message[2] = 0 \/ s[i].among # {}
        PROVE  \E l \in Nat : ChosenFrom(s[i], l) /\ (l = k \/ Shows(s, <<l, 0>>))
    <2>1. CASE i = 1
      BY <1>3, <2>1
    <2>2. CASE i # 1
      <3>1. i - 1 \in 1..Len(t) /\ s[i] = t[i - 1]
        BY <1>1, <2>2
      <3>2. t[i - 1].message[2] = 0 \/ t[i - 1].among # {}
        BY <1>3, <3>1
      <3>3. PICK l \in Nat : ChosenFrom(t[i - 1], l) /\ (l = k \/ Shows(t, <<l, 0>>))
        BY <3>1, <3>2 DEF Branches
      <3> QED  BY <1>2, <3>1, <3>3
    <2> QED  BY <2>1, <2>2
  <1>4. ASSUME NEW i \in 1..Len(s), Children(s[i].message[1]) # {}
        PROVE  ChoosesAfter(s, i, s[i].message[1])
    <2>1. CASE i = 1
      <3>1. s[i].message[1] = k
        BY <2>1
      <3>2. Chooses(t, k)
        BY <1>4, <3>1 DEF Branches
      <3> QED  BY <1>2, <2>1, <3>1, <3>2
    <2>2. CASE i # 1
      <3>1. i - 1 \in 1..Len(t) /\ s[i] = t[i - 1]
        BY <1>1, <2>2
      <3>2. Children(t[i - 1].message[1]) # {}
        BY <1>4, <3>1
      <3>3. ChoosesAfter(t, i - 1, t[i - 1].message[1])
        BY <3>1, <3>2 DEF Branches
      <3> QED  BY <1>2, <2>2, <3>1, <3>3
    <2> QED  BY <2>1, <2>2
  <1>5. ASSUME NEW i \in 1..Len(s)
        PROVE  s[i].message[1] = k \/ Shows(s, <<s[i].message[1], 0>>)
    <2>1. CASE i = 1
      <3>1. s[i].message[1] = k
        BY <2>1
      <3> QED  BY <1>2, <2>1, <3>1
    <2>2. CASE i # 1
      <3>1. i - 1 \in 1..Len(t) /\ s[i] = t[i - 1]
        BY <1>1, <2>2
      <3>2. t[i - 1].message[1] = k \/ Shows(t, <<t[i - 1].message[1], 0>>)
        BY <3>1 DEF Branches
      <3> QED  BY <1>2, <3>1, <3>2
    <2> QED  BY <2>1, <2>2
  <1>6. Children(k) # {} => Chooses(s, k)
    BY <1>2 DEF Branches
  <1> QED  BY <1>3, <1>4, <1>5, <1>6 DEF Branches

\* One more question in front, picked below k, keeps the branches.
LEMMA BranchesQuestion ==
    ASSUME NEW k \in Nat, NEW s, NEW t, Len(t) \in Nat, Len(s) = Len(t) + 1,
           \A i \in 1..Len(t) : s[i + 1] = t[i],
           NEW j, ChosenFrom(s[1], k), s[1].message = <<j, 0>>,
           Branches(t, j)
    PROVE  Branches(s, k)
  <1>1. /\ 1 \in 1..Len(s)
        /\ \A i \in 1..Len(s) : i = 1 \/ (i - 1 \in 1..Len(t) /\ s[i] = t[i - 1])
    BY Shifted
  <1>2. /\ \A l : Chooses(t, l) => ChoosesAfter(s, 1, l)
        /\ \A l : Chooses(t, l) => Chooses(s, l)
        /\ \A m : Shows(t, m) => Shows(s, m)
        /\ \A i \in 1..Len(s) : \A l :
             i # 1 /\ ChoosesAfter(t, i - 1, l) => ChoosesAfter(s, i, l)
        /\ Shows(s, s[1].message)
        /\ \A l : ChosenFrom(s[1], l) => Chooses(s, l)
    BY ShownLater
  <1>3. ASSUME NEW i \in 1..Len(s), s[i].message[2] = 0 \/ s[i].among # {}
        PROVE  \E l \in Nat : ChosenFrom(s[i], l) /\ (l = k \/ Shows(s, <<l, 0>>))
    <2>1. CASE i = 1
      BY <1>3, <2>1
    <2>2. CASE i # 1
      <3>1. i - 1 \in 1..Len(t) /\ s[i] = t[i - 1]
        BY <1>1, <2>2
      <3>2. t[i - 1].message[2] = 0 \/ t[i - 1].among # {}
        BY <1>3, <3>1
      <3>3. PICK l \in Nat : ChosenFrom(t[i - 1], l) /\ (l = j \/ Shows(t, <<l, 0>>))
        BY <3>1, <3>2 DEF Branches
      <3>4. Shows(s, <<j, 0>>)
        BY <1>2
      <3> QED  BY <1>2, <3>1, <3>3, <3>4
    <2> QED  BY <2>1, <2>2
  <1>4. ASSUME NEW i \in 1..Len(s), Children(s[i].message[1]) # {}
        PROVE  ChoosesAfter(s, i, s[i].message[1])
    <2>1. CASE i = 1
      <3>1. s[i].message[1] = j
        BY <2>1
      <3>2. Chooses(t, j)
        BY <1>4, <3>1 DEF Branches
      <3> QED  BY <1>2, <2>1, <3>1, <3>2
    <2>2. CASE i # 1
      <3>1. i - 1 \in 1..Len(t) /\ s[i] = t[i - 1]
        BY <1>1, <2>2
      <3>2. Children(t[i - 1].message[1]) # {}
        BY <1>4, <3>1
      <3>3. ChoosesAfter(t, i - 1, t[i - 1].message[1])
        BY <3>1, <3>2 DEF Branches
      <3> QED  BY <1>2, <2>2, <3>1, <3>3
    <2> QED  BY <2>1, <2>2
  <1>5. ASSUME NEW i \in 1..Len(s)
        PROVE  s[i].message[1] = k \/ Shows(s, <<s[i].message[1], 0>>)
    <2>1. CASE i = 1
      <3>1. s[i].message[1] = j
        BY <2>1
      <3> QED  BY <1>2, <2>1, <3>1
    <2>2. CASE i # 1
      <3>1. i - 1 \in 1..Len(t) /\ s[i] = t[i - 1]
        BY <1>1, <2>2
      <3>2. t[i - 1].message[1] = j \/ Shows(t, <<t[i - 1].message[1], 0>>)
        BY <3>1 DEF Branches
      <3> QED  BY <1>2, <3>1, <3>2
    <2> QED  BY <2>1, <2>2
  <1>6. Children(k) # {} => Chooses(s, k)
    BY <1>2
  <1> QED  BY <1>3, <1>4, <1>5, <1>6 DEF Branches

\* Every walk below a job shows its messages and those picked below them.
LEMMA WalkBranches ==
    ASSUME TreeInv, NEW x0 \in Ahead, NEW k0 \in Nat, Gathered(x0, k0)
    PROVE  Branches(Walk[x0], k0)
  <1> SUFFICES ASSUME ~Branches(Walk[x0], k0)
               PROVE  FALSE
    OBVIOUS
  <1>1. PICK size \in [Ahead -> Nat] : Shrinks(size)
    BY WalkShrinks
  <1> DEFINE T == {n \in Nat : \E y \in Ahead, l \in Nat :
                     size[y] = n /\ Gathered(y, l) /\ ~Branches(Walk[y], l)}
  <1>2. T \in SUBSET Nat /\ T # {}
    <2>1. size[x0] \in T
      OBVIOUS
    <2> QED  BY <2>1
  <1>3. PICK n \in T : \A l \in T : n <= l
    <2> HIDE DEF T
    <2> QED  BY <1>2, LeastOf
  <1>4. PICK x \in Ahead, k \in Nat : size[x] = n /\ Gathered(x, k) /\ ~Branches(Walk[x], k)
    OBVIOUS
  <1>5. ASSUME NEW y \in Ahead, NEW l \in Nat, size[y] < size[x], Gathered(y, l)
        PROVE  Branches(Walk[y], l)
    <2>1. size[y] \in Nat /\ n \in Nat
      OBVIOUS
    <2>2. ~(n <= size[y])
      BY <1>4, <1>5, <2>1
    <2> QED  BY <1>3, <1>5, <2>1, <2>2
  <1>6. \A y \in Ahead : Walk[y] \in Seq(ShownAt) /\ Len(Walk[y]) \in Nat
    BY WalkUnfolds, LenProperties
  <1> HIDE DEF T
  <1>7. CASE x.answer # None
    <2> DEFINE y == Past(x.answer, x.questions)
    <2>1. /\ y \in Ahead /\ size[y] < size[x] /\ x.answer \in Messages
          /\ Len(Walk[x]) = Len(Walk[y]) + 1
          /\ Walk[x][1] = [message |-> x.answer, among |-> {}]
          /\ \A i \in 1..Len(Walk[y]) : Walk[x][i + 1] = Walk[y][i]
      BY <1>1, <1>7, WalkStep, AheadFacts DEF Shrinks
    <2>2. Gathered(y, k)
      BY <1>4, <1>7, GatheredPast
    <2>3. Branches(Walk[y], k) /\ Len(Walk[y]) \in Nat
      BY <1>5, <1>6, <2>1, <2>2
    <2>4. x.answer[1] = k /\ x.answer[2] # 0
      <3>1. x.answer[1] = k /\ x.answer[2] > 0
        BY <1>4, <1>7 DEF Gathered
      <3>2. x.answer[2] \in Nat
        BY <2>1, CommittedFacts
      <3> QED  BY <3>1, <3>2
    <2> HIDE DEF y
    <2>5. Walk[x][1].message[1] = k /\ Walk[x][1].message[2] # 0 /\ Walk[x][1].among = {}
      BY <2>1, <2>4
    <2>6. Len(Walk[x]) = Len(Walk[y]) + 1 /\ \A i \in 1..Len(Walk[y]) : Walk[x][i + 1] = Walk[y][i]
      BY <2>1
    <2>7. Branches(Walk[x], k)
      BY ONLY <2>3, <2>5, <2>6, BranchesAnswer
    <2> QED  BY <1>4, <2>7
  <1>8. CASE x.answer = None
    <2> DEFINE q == x.questions
               m == Chosen(q)
               y == Under(m)
    <2>1. Lists(q, Children(k))
      <3>1. Children(k) = {i \in Children(k) : x.answer = None \/ jobs[i].parent[2] < x.answer[2]}
        BY <1>8
      <3> QED  BY <1>4, <3>1 DEF Gathered
    <2>2. CASE q = <<>>
      <3>1. Walk[x] = <<>> /\ Children(k) = {}
        BY <1>8, <2>1, <2>2, WalkStep, PickFacts
      <3>2. Len(Walk[x]) = 0
        BY <3>1
      <3>3. Branches(Walk[x], k)
        BY <3>1, <3>2 DEF Branches
      <3> QED  BY <1>4, <3>3
    <2>3. CASE q # <<>>
      <3>0. /\ Children(k) # {} /\ Range(q) = Children(k)
            /\ \E j : Picked(k, j) /\ m = <<j, 0>>
        BY <2>1, <2>3, PickFacts
      <3>1. PICK j \in Children(k) : Picked(k, j) /\ m = <<j, 0>>
        BY <3>0 DEF Picked
      <3>2. j \in Committed /\ j \in Nat
        BY <3>1, ChildFacts
      <3>3. /\ y \in Ahead /\ size[y] < size[x]
            /\ Len(Walk[x]) = Len(Walk[y]) + 1
            /\ Walk[x][1] = [message |-> m, among |-> Range(q)]
            /\ \A i \in 1..Len(Walk[y]) : Walk[x][i + 1] = Walk[y][i]
        BY <1>1, <1>8, <2>3, WalkStep, AheadFacts DEF Shrinks
      <3>4. Gathered(y, j)
        BY <3>1, <3>2, GatheredUnder
      <3>5. Branches(Walk[y], j) /\ Len(Walk[y]) \in Nat
        BY <1>5, <1>6, <3>2, <3>3, <3>4
      <3>6. ChosenFrom(Walk[x][1], k) /\ Walk[x][1].message = <<j, 0>>
        BY <3>0, <3>1, <3>3 DEF ChosenFrom
      <3>7. /\ Len(Walk[x]) = Len(Walk[y]) + 1
            /\ \A i \in 1..Len(Walk[y]) : Walk[x][i + 1] = Walk[y][i]
        BY <3>3
      <3> HIDE DEF y, m, q
      <3>8. Branches(Walk[x], k)
        BY ONLY <3>1, <3>5, <3>6, <3>7, BranchesQuestion, k \in Nat
      <3> QED  BY <1>4, <3>8
    <2> QED  BY <2>2, <2>3
  <1> QED  BY <1>7, <1>8

\* The questions on the branch that is walked.
Path == {j \in Committed : Shows(Walked, <<j, 0>>)}

\* The path follows the picked questions from the root as far as there are any.
LEMMA PathFacts ==
    ASSUME TreeInv
    PROVE  /\ \A k \in {0} \cup Path : Children(k) # {} => Chooses(Walked, k)
           /\ \A k \in {0} \cup Path : Children(k) # {} => \E j \in Path : Picked(k, j)
           /\ \A i \in 1..Len(Walked) :
                /\ Walked[i].message[1] \in Path
                /\ Walked[i].message[2] = 0 \/ Walked[i].among # {} =>
                     \E k \in {0} \cup Path : ChosenFrom(Walked[i], k)
                /\ Children(Walked[i].message[1]) # {} =>
                     ChoosesAfter(Walked, i, Walked[i].message[1])
           /\ \A j \in Path : \E k \in {0} \cup Path : Picked(k, j)
  <1> DEFINE w == Walked
  <1>1. Branches(w, 0)
    <2>1. w = Walk[Start] /\ Start \in Ahead /\ 0 \in Nat
      BY WalkedFacts
    <2> HIDE DEF w
    <2>2. Branches(Walk[Start], 0)
      BY <2>1, GatheredStart, WalkBranches
    <2> QED  BY <2>1, <2>2
  <1>2. /\ Len(w) \in Nat
        /\ \A i \in 1..Len(w) : w[i].message \in Messages
    BY WalkedFacts
  <1>3. Path = {j \in Committed : Shows(w, <<j, 0>>)}
    BY DEF Path
  <1> HIDE DEF w
  <1>4. \A l : Shows(w, <<l, 0>>) => l \in Path
    <2> SUFFICES ASSUME NEW l, Shows(w, <<l, 0>>)
                 PROVE  l \in Path
      OBVIOUS
    <2>1. PICK i \in 1..Len(w) : w[i].message = <<l, 0>>
      BY DEF Shows
    <2>2. <<l, 0>> \in Messages
      BY <1>2, <2>1
    <2>3. l \in Committed
      BY <2>2, CommittedFacts
    <2> QED  BY <1>3, <2>3
  <1>5. ASSUME NEW i \in 1..Len(w), w[i].message[2] = 0 \/ w[i].among # {}
        PROVE  \E k \in {0} \cup Path : ChosenFrom(w[i], k)
    <2>1. PICK k \in Nat : ChosenFrom(w[i], k) /\ (k = 0 \/ Shows(w, <<k, 0>>))
      BY <1>1, <1>5 DEF Branches
    <2> QED  BY <1>4, <2>1
  <1>6. ASSUME NEW i \in 1..Len(w)
        PROVE  /\ w[i].message[1] \in Path
               /\ Children(w[i].message[1]) # {} => ChoosesAfter(w, i, w[i].message[1])
    <2>1. w[i].message[1] = 0 \/ Shows(w, <<w[i].message[1], 0>>)
      BY <1>1 DEF Branches
    <2>2. w[i].message[1] # 0
      BY <1>2, CommittedFacts
    <2>3. Children(w[i].message[1]) # {} => ChoosesAfter(w, i, w[i].message[1])
      BY <1>1 DEF Branches
    <2> QED  BY <1>4, <2>1, <2>2, <2>3
  <1>7. ASSUME NEW k \in {0} \cup Path, Children(k) # {}
        PROVE  Chooses(w, k) /\ \E j \in Path : Picked(k, j)
    <2>1. Chooses(w, k)
      <3>1. CASE k = 0
        BY <1>1, <1>7, <3>1 DEF Branches
      <3>2. CASE k \in Path
        <4>1. PICK i \in 1..Len(w) : w[i].message = <<k, 0>>
          BY <1>3, <3>2 DEF Shows
        <4>2. w[i].message[1] = k
          BY <4>1
        <4>3. ChoosesAfter(w, i, k)
          BY <1>6, <1>7, <4>2
        <4> QED  BY <4>3 DEF Chooses, ChoosesAfter
      <3> QED  BY <3>1, <3>2
    <2>2. PICK i \in 1..Len(w) : ChosenFrom(w[i], k)
      BY <2>1 DEF Chooses
    <2>3. PICK j : Picked(k, j) /\ w[i].message = <<j, 0>>
      BY <2>2 DEF ChosenFrom
    <2>4. Shows(w, <<j, 0>>)
      BY <2>3 DEF Shows
    <2> QED  BY <1>4, <2>1, <2>3, <2>4
  <1>8. ASSUME NEW j \in Path
        PROVE  \E k \in {0} \cup Path : Picked(k, j)
    <2>1. PICK i \in 1..Len(w) : w[i].message = <<j, 0>>
      BY <1>3 DEF Shows
    <2>2. w[i].message[2] = 0
      BY <2>1
    <2>3. PICK k \in {0} \cup Path : ChosenFrom(w[i], k)
      BY <1>5, <2>2
    <2>4. PICK l : Picked(k, l) /\ <<j, 0>> = <<l, 0>>
      BY <2>1, <2>3 DEF ChosenFrom
    <2>5. l = j
      BY <2>4
    <2> QED  BY <2>4, <2>5
  <1> QED  BY <1>5, <1>6, <1>7, <1>8 DEF w

-----------------------------------------------------------------------------
(* Where a post goes                                                       *)

\* Max of a set of numbers that has a bound.
LEMMA GreatestOf ==
    ASSUME NEW n \in Nat, NEW T \in SUBSET (1..n), T # {}
    PROVE  /\ Max(T) \in T
           /\ \A x \in T : x <= Max(T)
  <1> DEFINE U == {n - x : x \in T}
  <1>1. U \in SUBSET Nat /\ U # {}
    <2>1. \A x \in T : n - x \in Nat
      OBVIOUS
    <2>2. PICK x : x \in T
      OBVIOUS
    <2>3. n - x \in U
      BY <2>2
    <2> QED  BY <2>1, <2>3
  <1>2. PICK u \in U : \A y \in U : u <= y
    <2> HIDE DEF U
    <2> QED  BY <1>1, LeastOf
  <1>3. PICK x \in T : u = n - x
    OBVIOUS
  <1>4. ASSUME NEW y \in T
        PROVE  x >= y
    <2>1. n - y \in U
      OBVIOUS
    <2>2. n - x <= n - y
      BY <1>2, <1>3, <2>1
    <2> QED  BY <2>2
  <1>5. Max(T) \in T /\ \A y \in T : Max(T) >= y
    BY <1>4 DEF Max
  <1>6. \A y \in T : y \in Nat
    OBVIOUS
  <1> QED  BY <1>5, <1>6

\* The first job is a question of the conversation.
LEMMA FirstQuestion ==
    ASSUME TreeInv
    PROVE  1 \in Children(0)
  BY DEF TreeInv, Children, Root

\* The last row shown is on the path's last job, with no question below it.
LEMMA LastRowFacts ==
    ASSUME TreeInv
    PROVE  /\ LastRow \in Parents
           /\ LastRow[1] \in Path
           /\ Children(LastRow[1]) = {}
  <1> DEFINE s == Shown
             kept == {i \in DOMAIN s : Merged(s[i])}
             last == Max(kept)
  <1>1. LastRow = s[last]
    BY DEF LastRow
  <1>2. ASSUME NEW m \in Messages, Merged(m)
        PROVE  m \in Parents
    <2>1. m \in Committed \X (0..MaxRecords) /\ m[2] <= jobs[m[1]].archived
      BY <1>2 DEF Messages, Merged, IsRow
    <2> QED  BY <2>1 DEF Parents
  <1>3. ASSUME NEW j \in Committed
        PROVE  Merged(<<j, 0>>)
    <2>1. jobs[j].archived \in Nat
      BY CommittedFacts
    <2> QED  BY <2>1 DEF Merged, IsRow
  <1>4. CASE HasTree
    <2> DEFINE w == Walked
    <2>1. s = MessagesOf(w)
      BY <1>4 DEF Shown
    <2>2. /\ Len(w) \in Nat /\ DOMAIN s = 1..Len(w)
          /\ \A i \in 1..Len(w) : s[i] = w[i].message /\ w[i].message \in Messages
      BY <2>1, WalkedFacts
    <2> HIDE DEF s
    <2>3. \A i \in 1..Len(w) : \A k : ChosenFrom(w[i], k) => i \in kept
      <3> SUFFICES ASSUME NEW i \in 1..Len(w), NEW k, ChosenFrom(w[i], k)
                   PROVE  i \in kept
        OBVIOUS
      <3>1. PICK j \in Committed : w[i].message = <<j, 0>>
        BY DEF ChosenFrom, Picked, Children
      <3>2. Merged(s[i])
        BY <1>3, <2>2, <3>1
      <3> QED  BY <2>2, <3>2
    <2> HIDE DEF w
    <2>4. kept # {}
      <3>1. Chooses(w, 0)
        BY FirstQuestion, PathFacts DEF w
      <3> QED  BY <2>3, <3>1 DEF Chooses
    <2>5. last \in kept /\ \A i \in kept : i <= last
      <3> DEFINE T == kept
      <3>1. T \in SUBSET (1..Len(w)) /\ T # {}
        BY <2>2, <2>4
      <3> HIDE DEF T
      <3>2. Max(T) \in T /\ \A i \in T : i <= Max(T)
        BY <2>2, <3>1, GreatestOf
      <3> QED  BY <3>2 DEF T
    <2> HIDE DEF last
    <2>6. last \in 1..Len(w) /\ Merged(s[last]) /\ s[last] = w[last].message
          /\ s[last] \in Messages
      BY <2>2, <2>5
    <2>7. s[last][1] \in Path
      BY <2>6, PathFacts DEF w
    <2>8. ASSUME Children(s[last][1]) # {}
          PROVE  FALSE
      <3>1. ChoosesAfter(w, last, s[last][1])
        BY <2>6, <2>8, PathFacts DEF w
      <3>2. PICK a \in 1..Len(w) : a > last /\ ChosenFrom(w[a], s[last][1])
        BY <3>1 DEF ChoosesAfter
      <3>3. a <= last
        BY <2>3, <2>5, <3>2
      <3>4. a \in Nat /\ last \in Nat
        BY <2>2, <2>6
      <3> QED  BY <3>2, <3>3, <3>4
    <2> QED  BY <1>1, <1>2, <2>6, <2>7, <2>8
  <1>5. CASE ~HasTree
    <2> DEFINE q == Questions(Root)
    <2>1. s = [i \in DOMAIN q |-> <<q[i], 0>>]
      BY <1>5 DEF Shown
    <2>2. /\ q \in Seq(Committed) /\ Len(q) \in Nat /\ DOMAIN q = 1..Len(q)
          /\ \A i \in 1..Len(q) : q[i] \in Committed /\ jobs[q[i]].parent = Root
          /\ \E i \in 1..Len(q) : q[i] = 1
      BY QuestionFacts, LenProperties DEF TreeInv
    <2>3. Lists(q, Children(0))
      <3>1. Gathered(Start, 0) /\ Start.answer = None /\ Start.questions = q
        BY GatheredStart DEF Start
      <3>2. Children(0) = {j \in Children(0) :
                             Start.answer = None \/ jobs[j].parent[2] < Start.answer[2]}
        BY <3>1
      <3> QED  BY <3>1, <3>2 DEF Gathered
    <2>4. q # <<>>
      <3>1. Len(q) # 0
        BY <2>2
      <3> QED  BY <3>1
    <2>5. Chosen(q) = <<q[Len(q)], 0>>
      <3>1. jobs[q[1]].parent = Root
        BY <2>2
      <3>2. Last(q) = q[Len(q)]
        BY DEF Last
      <3> HIDE DEF q
      <3> QED  BY <3>1, <3>2 DEF Chosen
    <2>6. \E j \in Path : Chosen(q) = <<j, 0>>
      <3>1. PICK j : Picked(0, j) /\ Chosen(q) = <<j, 0>>
        BY <2>3, <2>4, PickFacts
      <3>2. PICK i \in Path : Picked(0, i)
        BY FirstQuestion, PathFacts
      <3>3. i = j
        BY <3>1, <3>2, PickedOnce
      <3> QED  BY <3>1, <3>2, <3>3
    <2> HIDE DEF q
    <2>7. q[Len(q)] \in Path
      <3>1. PICK j \in Path : <<q[Len(q)], 0>> = <<j, 0>>
        BY <2>5, <2>6
      <3>2. q[Len(q)] = j
        BY <3>1
      <3> QED  BY <3>2
    <2>8. kept = 1..Len(q)
      BY <1>3, <2>1, <2>2
    <2>9. last = Len(q) /\ last \in 1..Len(q)
      <3>1. 1..Len(q) # {}
        BY <2>2
      <3>2. Max(1..Len(q)) \in 1..Len(q) /\ \A x \in 1..Len(q) : x <= Max(1..Len(q))
        BY <2>2, <3>1, GreatestOf
      <3>3. \A n \in Nat : \A m \in 1..n : (\A x \in 1..n : x <= m) => m = n
        OBVIOUS
      <3> HIDE DEF s
      <3> QED  BY <2>2, <2>8, <3>2, <3>3
    <2> HIDE DEF last
    <2>10. s[last] = <<q[Len(q)], 0>> /\ q[Len(q)] \in Committed
      BY <2>1, <2>2, <2>9
    <2>11. Children(q[Len(q)]) = {}
      <3>1. \A j \in Committed : jobs[j].parent[1] = 0
        BY <1>5 DEF HasTree, Root
      <3>2. q[Len(q)] # 0
        BY <2>10, CommittedFacts
      <3> QED  BY <3>1, <3>2 DEF Children
    <2> HIDE DEF s
    <2>12. LastRow[1] = q[Len(q)]
      BY <1>1, <2>10
    <2>13. LastRow \in Parents
      BY <1>1, <2>10, CommittedFacts
    <2> QED  BY <2>7, <2>11, <2>12, <2>13
  <1> QED  BY <1>4, <1>5

\* Jobs that are not committed may get a parent, or come; the rest of the tree stays.
LEMMA TreeStep ==
    ASSUME TreeInv, jobs' \in Seq(JobRow),
           \A j \in Committed : /\ j \in DOMAIN jobs' /\ jobs'[j].committed
                                /\ jobs'[j].parent = jobs[j].parent
                                /\ jobs[j].archived <= jobs'[j].archived,
           \A j \in DOMAIN jobs' \ Committed :
             /\ jobs'[j].parent \in {None, Root} \cup Parents
             /\ jobs'[j].committed => jobs'[j].parent # None
    PROVE  TreeInv' /\ Committed \subseteq Committed' /\ Parents \subseteq Parents'
  <1>1. Committed \subseteq Committed'
    BY DEF Committed
  <1>2. Parents \subseteq Parents'
    <2> SUFFICES ASSUME NEW m \in Parents
                 PROVE  m \in Parents'
      OBVIOUS
    <2>1. m \in Committed \X (0..MaxRecords) /\ m[2] <= jobs[m[1]].archived
      BY DEF Parents
    <2>2. m[1] \in Committed /\ m[2] \in Nat /\ jobs[m[1]].archived \in Nat
      BY <2>1, CommittedFacts DEF Committed
    <2>3. jobs[m[1]].archived <= jobs'[m[1]].archived /\ jobs'[m[1]].archived \in Nat
      <3>1. m[1] \in DOMAIN jobs'
        BY <2>2
      <3>2. jobs'[m[1]] \in JobRow
        BY <3>1, LenProperties
      <3>3. jobs'[m[1]].archived \in 0..MaxRecords
        BY <3>2 DEF JobRow
      <3> QED  BY <2>2, <3>3, ConversationAssumption
    <2>4. m[2] <= jobs'[m[1]].archived
      BY <2>1, <2>2, <2>3
    <2>5. m \in Committed' \X (0..MaxRecords)
      BY <1>1, <2>1
    <2> QED  BY <2>4, <2>5 DEF Parents
  <1>3. 1 \in Committed' /\ jobs'[1].parent = Root
    BY <1>1 DEF TreeInv
  <1>4. ASSUME NEW j \in DOMAIN jobs'
        PROVE  jobs'[j].parent \in {None, Root} \cup Parents
    <2>1. CASE j \in Committed
      <3>1. j \in DOMAIN jobs /\ jobs'[j].parent = jobs[j].parent
        BY <2>1 DEF Committed
      <3> QED  BY <3>1 DEF TreeInv
    <2>2. CASE j \notin Committed
      BY <2>2
    <2> QED  BY <2>1, <2>2
  <1>5. \A j \in Committed' : jobs'[j].parent # None
    <2> SUFFICES ASSUME NEW j \in Committed'
                 PROVE  jobs'[j].parent # None
      OBVIOUS
    <2>1. j \in DOMAIN jobs' /\ jobs'[j].committed
      BY DEF Committed
    <2>2. CASE j \in Committed
      BY <2>2 DEF TreeInv
    <2>3. CASE j \notin Committed
      BY <2>1, <2>3
    <2> QED  BY <2>2, <2>3
  <1>6. PICK top \in Nat : \E rank \in [DOMAIN jobs -> 0..top] : Ranked(rank, top)
    BY DEF TreeInv
  <1>7. PICK rank \in [DOMAIN jobs -> 0..top] : Ranked(rank, top)
    BY <1>6
  <1> DEFINE Gap == MaxRecords + 2
             top2 == top + Gap
             rank2 == [j \in DOMAIN jobs' |-> IF j \in Committed THEN rank[j] + Gap ELSE 0]
  <1>8. Gap \in Nat /\ top2 \in Nat /\ \A j \in Committed : rank[j] \in 0..top /\ j \in DOMAIN jobs
    BY ConversationAssumption DEF Committed
  <1>9. rank2 \in [DOMAIN jobs' -> 0..top2]
    <2> HIDE DEF Gap
    <2>1. \A j \in Committed : rank[j] + Gap \in 0..top2
      BY <1>8
    <2>2. 0 \in 0..top2
      BY <1>8
    <2> QED  BY <2>1, <2>2
  <1>10. ASSUME NEW j \in DOMAIN jobs', jobs'[j].parent \in Parents'
         PROVE  rank2[j] + MaxRecords + 2 <= rank2[jobs'[j].parent[1]]
    <2>1. jobs'[j].parent \notin {None, Root}
      <3>1. jobs'[j].parent[1] # 0 /\ jobs'[j].parent # None
        <4>1. jobs'[j].parent \in Committed' \X (0..MaxRecords)
          BY <1>10 DEF Parents
        <4>2. \A i \in Committed' : i \in Nat /\ i # 0
          <5>1. \A i \in DOMAIN jobs' : i \in Nat /\ i # 0
            BY LenProperties
          <5> QED  BY <5>1 DEF Committed
        <4>3. jobs'[j].parent \in Nat \X Nat /\ jobs'[j].parent[1] # 0
          BY <4>1, <4>2, ConversationAssumption
        <4> QED  BY <4>3, PairFacts
      <3> QED  BY <3>1 DEF Root
    <2>2. jobs'[j].parent \in Parents
      BY <1>4, <2>1
    <2> DEFINE k == jobs'[j].parent[1]
    <2>3. k \in Committed /\ k \in DOMAIN jobs'
      BY <2>2 DEF Parents
    <2>4. rank2[k] = rank[k] + Gap /\ rank[k] \in 0..top
      BY <1>8, <2>3
    <2>5. CASE j \in Committed
      <3>1. j \in DOMAIN jobs /\ jobs'[j].parent = jobs[j].parent
        BY <2>5 DEF Committed
      <3>2. rank[j] + MaxRecords + 2 <= rank[k]
        BY <1>7, <2>2, <3>1 DEF Ranked
      <3>3. rank2[j] = rank[j] + Gap /\ rank[j] \in 0..top
        BY <1>8, <2>5
      <3>4. \A a, b \in 0..top : a + MaxRecords + 2 <= b => (a + Gap) + MaxRecords + 2 <= b + Gap
        BY ConversationAssumption
      <3> HIDE DEF k, Gap, rank2
      <3> QED  BY <2>4, <3>2, <3>3, <3>4 DEF k
    <2>6. CASE j \notin Committed
      <3>1. rank2[j] = 0
        BY <2>6
      <3>2. \A b \in 0..top : 0 + MaxRecords + 2 <= b + Gap
        BY ConversationAssumption
      <3> HIDE DEF k, Gap, rank2
      <3> QED  BY <2>4, <3>1, <3>2 DEF k
    <2> QED  BY <2>5, <2>6
  <1> HIDE DEF rank2, top2
  <1>11. \E t \in Nat : \E r \in [DOMAIN jobs' -> 0..t] :
           \A j \in DOMAIN jobs' :
             jobs'[j].parent \in Parents' =>
                 r[j] + MaxRecords + 2 <= r[jobs'[j].parent[1]]
    BY <1>8, <1>9, <1>10
  <1>12. (\E t \in Nat : \E r \in [DOMAIN jobs -> 0..t] : Ranked(r, t))'
    BY <1>11 DEF Ranked
  <1>13. \A j \in DOMAIN jobs' : jobs'[j].parent \in {None, Root} \cup Parents'
    BY <1>2, <1>4
  <1> QED  BY <1>1, <1>2, <1>3, <1>5, <1>12, <1>13 DEF TreeInv

-----------------------------------------------------------------------------
(* The path from one state to the next                                     *)

\* What the proofs of the requests use of the path.
PathProps ==
    /\ \A k, i, j : Picked(k, i) /\ Picked(k, j) => i = j
    /\ \A k \in {0} \cup Path : Children(k) # {} => \E j \in Path : Picked(k, j)
    /\ \A j \in Path : \E k \in {0} \cup Path : Picked(k, j)
    /\ ~Mixed => \A k \in {0} \cup Path : \A i, j \in Children(k) :
                     jobs[i].parent = jobs[j].parent
    /\ HasTree => \A j \in Path : <<j, 0>> \in Range(Shown)

\* All of this holds of every tree.
LEMMA TreePaths == TreeInv => PathProps
  <1> SUFFICES ASSUME TreeInv
               PROVE  PathProps
    OBVIOUS
  <1>1. \A k, i, j : Picked(k, i) /\ Picked(k, j) => i = j
    BY PickedOnce
  <1>2. \A k \in {0} \cup Path : Children(k) # {} => \E j \in Path : Picked(k, j)
    BY PathFacts
  <1>3. \A j \in Path : \E k \in {0} \cup Path : Picked(k, j)
    BY PathFacts
  <1> DEFINE w == Walked
  <1>4. Len(w) \in Nat /\ DOMAIN w = 1..Len(w)
    BY WalkedFacts, LenProperties
  <1>5. ASSUME ~Mixed, NEW k \in {0} \cup Path, NEW i \in Children(k), NEW j \in Children(k)
        PROVE  jobs[i].parent = jobs[j].parent
    <2>1. PICK a \in 1..Len(w) : ChosenFrom(w[a], k)
      BY PathFacts DEF Chooses
    <2>2. w[a].among = Children(k)
      BY <2>1 DEF ChosenFrom
    <2>3. w[a] \in Range(w)
      BY <1>4 DEF Range
    <2> QED  BY <1>5, <2>2, <2>3 DEF Mixed
  <1>6. ASSUME HasTree, NEW j \in Path
        PROVE  <<j, 0>> \in Range(Shown)
    <2>1. PICK a \in 1..Len(w) : w[a].message = <<j, 0>>
      BY DEF Path, Shows
    <2>2. Shown = MessagesOf(w)
      BY <1>6 DEF Shown
    <2>3. DOMAIN Shown = 1..Len(w) /\ Shown[a] = w[a].message
      BY <2>2, WalkedFacts
    <2> QED  BY <2>1, <2>3 DEF Range
  <1> QED  BY <1>1, <1>2, <1>3, <1>5, <1>6 DEF PathProps

\* And of the next state's.
LEMMA TreePathsNext == TreeInv' => PathProps'
  BY TreePaths, PTL

\* What is picked below a job stays so while nothing changes there.
LEMMA PickStays ==
    ASSUME NEW k, Children(k)' = Children(k),
           \A f \in Children(k) :
             /\ jobs'[f].parent = jobs[f].parent
             /\ jobs[f].parent \in DOMAIN branch' <=> jobs[f].parent \in DOMAIN branch
             /\ jobs[f].parent \in DOMAIN branch =>
                    branch'[jobs[f].parent] = branch[jobs[f].parent],
           NEW j, Picked(k, j)
    PROVE  Picked(k, j)'
  <1>1. PICK f \in Children(k) :
          /\ \A i \in Children(k) : i = f \/ Before(f, i)
          /\ IF \E i \in Children(k) : Marked(jobs[f].parent, i)
             THEN Marked(jobs[f].parent, j)
             ELSE \A i \in Children(k) : i = j \/ Before(i, j)
    BY DEF Picked
  <1>2. \A a, b \in Children(k) : Before(a, b)' <=> Before(a, b)
    BY DEF Before
  <1>3. \A i : Marked(jobs[f].parent, i)' <=> Marked(jobs[f].parent, i)
    BY DEF Marked, Root
  <1>4. j \in Children(k)
    BY DEF Picked
  <1>5. \A i \in Children(k) : i = f \/ Before(f, i)'
    BY <1>1, <1>2
  <1>6. CASE \E i \in Children(k) : Marked(jobs[f].parent, i)
    <2>1. Marked(jobs[f].parent, j)'
      BY <1>1, <1>3, <1>6
    <2> QED  BY <1>4, <1>5, <2>1 DEF Picked
  <1>7. CASE ~\E i \in Children(k) : Marked(jobs[f].parent, i)
    <2>1. ~\E i \in Children(k) : Marked(jobs[f].parent, i)'
      BY <1>3, <1>7
    <2>2. \A i \in Children(k) : i = j \/ Before(i, j)'
      BY <1>1, <1>2, <1>4, <1>7
    <2> QED  BY <1>4, <1>5, <2>1, <2>2 DEF Picked
  <1> QED  BY <1>6, <1>7

\* A job stays on the path while what changes is below it.
LEMMA PathKept ==
    ASSUME TreeInv, TreeInv', Committed \subseteq Committed', NEW l \in Path,
           \A k \in {0} \cup Committed : k # l => \A j : Picked(k, j) => Picked(k, j)'
    PROVE  l \in Path'
  <1> SUFFICES ASSUME l \notin Path'
               PROVE  FALSE
    OBVIOUS
  <1>1. PICK top \in Nat : \E rank \in [DOMAIN jobs -> 0..top] : Ranked(rank, top)
    BY DEF TreeInv
  <1>2. PICK rank \in [DOMAIN jobs -> 0..top] : Ranked(rank, top)
    BY <1>1
  <1>3. \A j \in Path : j \in Committed /\ rank[j] \in 0..top
    BY DEF Path, Committed
  <1> DEFINE T == {top - rank[j] : j \in {i \in Path : i \notin Path' /\ rank[l] <= rank[i]}}
  <1>4. T \in SUBSET Nat /\ T # {}
    <2>1. \A j \in Path : top - rank[j] \in Nat
      BY <1>3
    <2>2. rank[l] <= rank[l]
      BY <1>3
    <2>3. top - rank[l] \in T
      BY <2>2
    <2> QED  BY <2>1, <2>3
  <1>5. PICK n \in T : \A i \in T : n <= i
    <2> HIDE DEF T
    <2> QED  BY <1>4, LeastOf
  <1>6. PICK j \in Path : n = top - rank[j] /\ j \notin Path' /\ rank[l] <= rank[j]
    OBVIOUS
  <1>7. PICK k \in {0} \cup Path : Picked(k, j)
    BY TreePaths DEF PathProps
  <1>8. k # l /\ k \in ({0} \cup Path)' /\ k \in {0} \cup Committed
    <2>1. CASE k = 0
      <3>1. l # 0
        BY <1>3, CommittedFacts
      <3> QED  BY <2>1, <3>1
    <2>2. CASE k # 0
      <3>1. j \in Children(k) /\ k \in Path
        BY <1>7, <2>2 DEF Picked
      <3>2. jobs[j].parent \in Parents /\ jobs[j].parent[1] = k /\ j \in DOMAIN jobs
        BY <2>2, <3>1, ChildFacts DEF Children, Committed
      <3>3. rank[j] + MaxRecords + 2 <= rank[k]
        BY <1>2, <3>2 DEF Ranked
      <3>4. rank[j] \in 0..top /\ rank[k] \in 0..top /\ rank[l] \in 0..top
        BY <1>3, <3>1
      <3>5. rank[j] < rank[k] /\ rank[l] < rank[k]
        BY <1>6, <3>3, <3>4, ConversationAssumption
      <3>6. k # l
        BY <3>4, <3>5
      <3>7. k \in Path'
        <4> SUFFICES ASSUME k \notin Path'
                     PROVE  FALSE
          OBVIOUS
        <4>1. rank[l] <= rank[k]
          BY <3>4, <3>5
        <4>2. top - rank[k] \in T
          BY <3>1, <4>1
        <4>3. n <= top - rank[k]
          BY <1>5, <4>2
        <4> QED  BY <1>6, <3>4, <3>5, <4>3
      <3> QED  BY <1>3, <3>1, <3>6, <3>7
    <2> QED  BY <2>1, <2>2
  <1> HIDE DEF T
  <1>9. Picked(k, j)'
    BY <1>7, <1>8
  <1>10. Children(k)' # {}
    BY <1>9 DEF Picked
  <1>11. PathProps'
    BY TreePathsNext
  <1>12. PICK i \in Path' : Picked(k, i)'
    BY <1>8, <1>10, <1>11 DEF PathProps
  <1>13. i = j
    BY <1>9, <1>11, <1>12 DEF PathProps
  <1> QED  BY <1>6, <1>12, <1>13

-----------------------------------------------------------------------------
(* Requests                                                                *)

\* Branch maps.
Maps == UNION {[D -> Nat \X Nat] : D \in SUBSET (Nat \X Nat)}

\* A completion in progress.
Post ==
    [kind : {"post"}, step : {"tree", "commit", "publish"}, alone : BOOLEAN, job : Nat]

\* An edit or a switch in progress.
Change ==
    [kind : {"edit", "switch"}, step : {"read", "write", "publish"}, alone : BOOLEAN,
     job : Nat, key : Nat \X Nat, target : Nat \X Nat, map : Maps]

\* What a client may be doing.
Requests == {Idle} \cup Post \cup Change

\* The types of what requests keep.
RequestsTyped ==
    /\ op \in [Clients -> Requests]
    /\ branch \in Maps
    /\ switches \in Nat
    /\ failed \in Nat

\* A post adds to the end of the path, as long as no other request writes.
PostOk(c) ==
    op[c].kind = "post" =>
        /\ op[c].step # "publish" => ~jobs[op[c].job].committed
        /\ op[c].step = "commit" => jobs[op[c].job].parent \in Parents
        /\ op[c].step = "commit" /\ op[c].alone =>
               /\ jobs[op[c].job].parent[1] \in Path
               /\ Children(jobs[op[c].job].parent[1]) = {}

\* A change of the branch is made on the path and to a question that is there.
ChangeOk(c) ==
    op[c].kind \in {"edit", "switch"} /\ op[c].step # "publish" /\ op[c].alone =>
        /\ op[c].key[1] \in Path
        /\ \E t \in Children(op[c].key[1]) : op[c].target = <<t, 0>>
        /\ \E i \in Children(op[c].key[1]) : jobs[i].parent = op[c].key
        /\ op[c].step = "write" => op[c].map = branch

\* A request has a job of its own.
JobOk(c) == op[c].kind \in {"post", "edit"} => op[c].job \in DOMAIN jobs

\* No two completions have the same job.
OwnJobs ==
    \A c, d \in Clients :
        op[c].kind = "post" /\ op[d].kind = "post" /\ op[c].job = op[d].job => c = d

\* What requests in progress rely on.
RequestInv ==
    /\ RequestsTyped
    /\ OwnJobs
    /\ \A c \in Clients : PostOk(c) /\ ChangeOk(c) /\ JobOk(c)

\* The kind of a request says which record it is.
LEMMA Kinds ==
    /\ Idle.kind = "idle"
    /\ Idle \in Requests /\ Post \subseteq Requests /\ Change \subseteq Requests
    /\ \A o \in Post : o.kind = "post" /\ o # Idle
    /\ \A o \in Change : o.kind \in {"edit", "switch"} /\ o # Idle
    /\ \A o \in Requests :
         /\ o.kind = "idle" => o = Idle
         /\ o.kind = "post" => o \in Post
         /\ o.kind \in {"edit", "switch"} => o \in Change
  <1>1. Idle.kind = "idle"
    BY DEF Idle
  <1>2. \A o \in Post : o.kind = "post"
    BY DEF Post
  <1>3. \A o \in Change : o.kind \in {"edit", "switch"}
    BY DEF Change
  <1> QED  BY <1>1, <1>2, <1>3 DEF Requests

\* What another request's write does to a request.
Told(before, now) ==
    /\ now.kind = before.kind
    /\ before = Idle => now = Idle
    /\ before # Idle => /\ now = [before EXCEPT !.alone = FALSE]
                        /\ now.alone = FALSE
                        /\ now.step = before.step
                        /\ now.job = before.job
                        /\ now # Idle

\* The other requests are told that what they have seen is out of date.
LEMMA DisturbedFacts ==
    ASSUME NEW c \in Clients, NEW next \in Requests, NEW ops, NEW mid, NEW now,
           ops \in [Clients -> Requests],
           mid = [ops EXCEPT ![c] = next], now = Disturbed(c, mid)
    PROVE  /\ now \in [Clients -> Requests]
           /\ now[c] = next
           /\ \A d \in Clients \ {c} : Told(ops[d], now[d])
  <1>1. /\ now = [d \in Clients |-> IF d = c \/ [ops EXCEPT ![c] = next][d] = Idle
                                    THEN [ops EXCEPT ![c] = next][d]
                                    ELSE [[ops EXCEPT ![c] = next][d] EXCEPT !.alone = FALSE]]
    BY DEF Disturbed
  <1>2. now[c] = next
    BY <1>1
  <1>3. ASSUME NEW d \in Clients \ {c}
        PROVE  now[d] = IF ops[d] = Idle THEN Idle ELSE [ops[d] EXCEPT !.alone = FALSE]
    BY <1>1
  <1>4. DOMAIN now = Clients /\ now = [d \in Clients |-> now[d]]
    BY <1>1
  <1>5. ASSUME NEW d \in Clients \ {c}, ops[d] # Idle
        PROVE  /\ now[d] \in Post \cup Change
               /\ now[d].kind = ops[d].kind
               /\ now[d] = [ops[d] EXCEPT !.alone = FALSE]
               /\ now[d].alone = FALSE
               /\ now[d].step = ops[d].step
               /\ now[d].job = ops[d].job
    <2>1. now[d] = [ops[d] EXCEPT !.alone = FALSE]
      BY <1>3, <1>5
    <2>2. CASE ops[d] \in Post
      <3>1. now[d] \in Post
        BY <2>1, <2>2 DEF Post
      <3>2. /\ now[d].kind = ops[d].kind /\ now[d].alone = FALSE
            /\ now[d].step = ops[d].step /\ now[d].job = ops[d].job
        BY <2>1, <2>2 DEF Post
      <3> QED  BY <2>1, <3>1, <3>2
    <2>3. CASE ops[d] \in Change
      <3>1. now[d] \in Change
        BY <2>1, <2>3 DEF Change
      <3>2. /\ now[d].kind = ops[d].kind /\ now[d].alone = FALSE
            /\ now[d].step = ops[d].step /\ now[d].job = ops[d].job
        BY <2>1, <2>3 DEF Change
      <3> QED  BY <2>1, <3>1, <3>2
    <2> QED  BY <1>5, <2>2, <2>3 DEF Requests
  <1>6. \A d \in Clients \ {c} : ops[d] = Idle => now[d] = Idle
    BY <1>3
  <1>7. \A d \in Clients : now[d] \in Requests
    BY <1>2, <1>5, <1>6 DEF Requests
  <1>8. now \in [Clients -> Requests]
    BY <1>4, <1>7
  <1>9. \A d \in Clients \ {c} : ops[d] # Idle => now[d] # Idle
    BY <1>5, Kinds
  <1>10. \A d \in Clients \ {c} : Told(ops[d], now[d])
    BY <1>5, <1>6, <1>9 DEF Told
  <1> QED  BY <1>2, <1>8, <1>10

\* The rows after one of them was written.
LEMMA RowWritten ==
    ASSUME jobs \in Seq(JobRow), NEW j \in DOMAIN jobs, NEW row \in JobRow,
           jobs' = [jobs EXCEPT ![j] = row]
    PROVE  /\ jobs' \in Seq(JobRow)
           /\ DOMAIN jobs' = DOMAIN jobs
           /\ jobs'[j] = row
           /\ \A i \in DOMAIN jobs : i # j => jobs'[i] = jobs[i]
  <1>1. DOMAIN jobs = 1..Len(jobs)
    BY LenProperties
  <1>2. jobs' \in Seq(JobRow)
    BY <1>1, ExceptSeq
  <1> QED  BY <1>2

\* A job that comes is the last one.
LEMMA RowAdded ==
    ASSUME jobs \in Seq(JobRow), NEW row \in JobRow, jobs' = Append(jobs, row)
    PROVE  /\ jobs' \in Seq(JobRow)
           /\ Len(jobs') \in Nat
           /\ Len(jobs') \notin DOMAIN jobs
           /\ DOMAIN jobs' = DOMAIN jobs \cup {Len(jobs')}
           /\ jobs'[Len(jobs')] = row
           /\ \A i \in DOMAIN jobs : jobs'[i] = jobs[i]
  <1>1. Len(jobs) \in Nat /\ DOMAIN jobs = 1..Len(jobs)
    BY LenProperties
  <1>2. /\ jobs' \in Seq(JobRow)
        /\ Len(jobs') = Len(jobs) + 1
        /\ \A i \in 1..Len(jobs) : jobs'[i] = jobs[i]
        /\ jobs'[Len(jobs) + 1] = row
    BY AppendProperties
  <1>3. DOMAIN jobs' = 1..(Len(jobs) + 1)
    BY <1>2, LenProperties
  <1> QED  BY <1>1, <1>2, <1>3

\* A step that writes neither a message nor the branch.
Quietly ==
    /\ jobs' \in Seq(JobRow)
    /\ branch' = branch
    /\ DOMAIN jobs \subseteq DOMAIN jobs'
    /\ \A j \in DOMAIN jobs : jobs'[j].committed = jobs[j].committed
    /\ \A j \in Committed : /\ jobs'[j].parent = jobs[j].parent
                            /\ jobs[j].archived <= jobs'[j].archived
    /\ \A j \in DOMAIN jobs' \ Committed :
         /\ jobs'[j].parent \in {None, Root} \cup Parents
         /\ ~jobs'[j].committed

\* Such a step moves no path, and what other requests rely on stays.
LEMMA QuietStep ==
    ASSUME TreeInv, Quietly
    PROVE  /\ TreeInv'
           /\ Committed' = Committed
           /\ Parents \subseteq Parents'
           /\ \A k : Children(k)' = Children(k)
           /\ \A k, j : Picked(k, j) => Picked(k, j)'
           /\ Path \subseteq Path'
           /\ \A d \in Clients :
                /\ op'[d] = op[d]
                /\ op[d].kind = "post" => jobs'[op[d].job].parent = jobs[op[d].job].parent
                /\ PostOk(d) /\ ChangeOk(d) /\ JobOk(d)
                => PostOk(d)' /\ ChangeOk(d)' /\ JobOk(d)'
  <1> USE DEF Quietly
  <1>1. TreeInv' /\ Committed \subseteq Committed' /\ Parents \subseteq Parents'
    <2>1. \A j \in Committed : /\ j \in DOMAIN jobs' /\ jobs'[j].committed
                               /\ jobs'[j].parent = jobs[j].parent
                               /\ jobs[j].archived <= jobs'[j].archived
      BY DEF Committed
    <2> QED  BY <2>1, TreeStep
  <1>2. Committed' = Committed
    BY <1>1 DEF Committed
  <1>3. \A k : Children(k)' = Children(k)
    BY <1>2 DEF Children
  <1>4. ASSUME NEW k, NEW j, Picked(k, j)
        PROVE  Picked(k, j)'
    <2>1. \A f \in Children(k) : jobs'[f].parent = jobs[f].parent
      BY DEF Children
    <2> QED  BY <1>3, <1>4, <2>1, PickStays
  <1>5. Path \subseteq Path'
    BY <1>1, <1>4, PathKept
  <1>6. ASSUME NEW d \in Clients, op'[d] = op[d], PostOk(d), ChangeOk(d), JobOk(d),
               op[d].kind = "post" => jobs'[op[d].job].parent = jobs[op[d].job].parent
        PROVE  PostOk(d)' /\ ChangeOk(d)' /\ JobOk(d)'
    <2>1. JobOk(d)'
      BY <1>6 DEF JobOk
    <2>2. PostOk(d)'
      <3> SUFFICES ASSUME op[d].kind = "post"
                   PROVE  PostOk(d)'
        BY <1>6 DEF PostOk
      <3>1. op[d].job \in DOMAIN jobs /\ jobs'[op[d].job].parent = jobs[op[d].job].parent
        BY <1>6 DEF JobOk
      <3>2. op[d].step # "publish" => ~jobs'[op[d].job].committed
        BY <1>6, <3>1 DEF PostOk
      <3>3. op[d].step = "commit" => jobs'[op[d].job].parent \in Parents'
        BY <1>1, <1>6, <3>1 DEF PostOk
      <3>4. op[d].step = "commit" /\ op[d].alone =>
              /\ jobs'[op[d].job].parent[1] \in Path'
              /\ Children(jobs[op[d].job].parent[1])' = {}
        <4> SUFFICES ASSUME op[d].step = "commit", op[d].alone
                     PROVE  /\ jobs'[op[d].job].parent[1] \in Path'
                            /\ Children(jobs[op[d].job].parent[1])' = {}
          OBVIOUS
        <4> DEFINE k == jobs[op[d].job].parent[1]
        <4>1. k \in Path /\ Children(k) = {} /\ jobs'[op[d].job].parent[1] = k
          BY <1>6, <3>1 DEF PostOk
        <4>2. {j \in Committed' : jobs'[j].parent[1] = k} = {}
          BY <1>2, <4>1 DEF Children
        <4>3. Children(jobs[op[d].job].parent[1])' =
                {j \in Committed' : jobs'[j].parent[1] = jobs'[op'[d].job].parent[1]}
          BY DEF Children
        <4> QED  BY <1>5, <1>6, <4>1, <4>2, <4>3
      <3> QED  BY <1>6, <3>1, <3>2, <3>3, <3>4 DEF PostOk
    <2>3. ChangeOk(d)'
      <3> SUFFICES ASSUME op[d].kind \in {"edit", "switch"}, op[d].step # "publish", op[d].alone
                   PROVE  ChangeOk(d)'
        BY <1>6 DEF ChangeOk
      <3> DEFINE k == op[d].key[1]
      <3>1. /\ k \in Path
            /\ \E t \in Children(k) : op[d].target = <<t, 0>>
            /\ \E i \in Children(k) : jobs[i].parent = op[d].key
            /\ op[d].step = "write" => op[d].map = branch
        BY <1>6 DEF ChangeOk
      <3>2. {j \in Committed' : jobs'[j].parent[1] = k} = Children(k)
        BY <1>2 DEF Children
      <3>3. \A i \in Children(k) : jobs'[i].parent = jobs[i].parent
        BY DEF Children
      <3>4. Children(op[d].key[1])' = {j \in Committed' : jobs'[j].parent[1] = op'[d].key[1]}
        BY DEF Children
      <3>5. Children(op[d].key[1])' = Children(k)
        BY <1>6, <3>2, <3>4
      <3> HIDE DEF k
      <3>6. k = op'[d].key[1]
        BY <1>6 DEF k
      <3>7. /\ op'[d].key[1] \in Path'
            /\ \E t \in Children(op[d].key[1])' : op'[d].target = <<t, 0>>
            /\ \E i \in Children(op[d].key[1])' : jobs'[i].parent = op'[d].key
            /\ op'[d].step = "write" => op'[d].map = branch'
        BY <1>5, <1>6, <3>1, <3>3, <3>5, <3>6
      <3> QED  BY <3>7 DEF ChangeOk
    <2> QED  BY <2>1, <2>2, <2>3
  <1> QED  BY <1>1, <1>2, <1>3, <1>4, <1>5, <1>6

\* The requests after a quiet step of client c's.
LEMMA QuietRequests ==
    ASSUME TreeInv, RequestInv, Quietly,
           NEW c \in Clients, NEW next \in Requests,
           op' = [op EXCEPT ![c] = next],
           switches' \in Nat, failed' \in Nat,
           \A d \in Clients \ {c} :
             op[d].kind = "post" => jobs'[op[d].job].parent = jobs[op[d].job].parent,
           PostOk(c)', ChangeOk(c)', JobOk(c)',
           next.kind = "post" =>
             \/ op[c].kind = "post" /\ next.job = op[c].job
             \/ next.job \notin DOMAIN jobs
    PROVE  TreeInv' /\ RequestInv'
  <1>1. /\ op \in [Clients -> Requests]
        /\ \A d \in Clients : PostOk(d) /\ ChangeOk(d) /\ JobOk(d)
    BY DEF RequestInv, RequestsTyped
  <1>2. op'[c] = next /\ \A d \in Clients \ {c} : op'[d] = op[d]
    BY <1>1
  <1>3. TreeInv' /\ \A d \in Clients \ {c} : PostOk(d)' /\ ChangeOk(d)' /\ JobOk(d)'
    BY <1>1, <1>2, QuietStep
  <1>4. RequestsTyped'
    <2>1. op' \in [Clients -> Requests]
      BY <1>1
    <2> QED  BY <2>1 DEF RequestInv, RequestsTyped, Quietly
  <1>5. OwnJobs'
    <2>1. \A d \in Clients : op[d].kind = "post" => op[d].job \in DOMAIN jobs
      BY <1>1 DEF JobOk
    <2>2. ASSUME NEW a \in Clients, NEW b \in Clients,
                 op'[a].kind = "post", op'[b].kind = "post", op'[a].job = op'[b].job
          PROVE  a = b
      BY <1>2, <2>1, <2>2 DEF RequestInv, OwnJobs
    <2> QED  BY <2>2 DEF OwnJobs
  <1>6. \A d \in Clients : PostOk(d)' /\ ChangeOk(d)' /\ JobOk(d)'
    BY <1>3
  <1> QED  BY <1>3, <1>4, <1>5, <1>6 DEF RequestInv

\* The requests after client c has written.
LEMMA DisturbedRequests ==
    ASSUME TreeInv, RequestInv, Parents \subseteq Parents', DOMAIN jobs \subseteq DOMAIN jobs',
           NEW c \in Clients, NEW next \in Requests,
           op' = Disturbed(c, [op EXCEPT ![c] = next]),
           branch' \in Maps, switches' \in Nat, failed' \in Nat,
           \A d \in Clients \ {c} :
             op[d].kind = "post" =>
                 /\ jobs'[op[d].job].parent = jobs[op[d].job].parent
                 /\ jobs'[op[d].job].committed = jobs[op[d].job].committed,
           PostOk(c)', ChangeOk(c)', JobOk(c)',
           next.kind = "post" => op[c].kind = "post" /\ next.job = op[c].job
    PROVE  RequestInv'
  <1>1. /\ op \in [Clients -> Requests]
        /\ \A d \in Clients : PostOk(d) /\ ChangeOk(d) /\ JobOk(d)
    BY DEF RequestInv, RequestsTyped
  <1>2. /\ op' \in [Clients -> Requests]
        /\ op'[c] = next
        /\ \A d \in Clients \ {c} :
             /\ op'[d].kind = op[d].kind
             /\ op[d] = Idle => op'[d] = Idle
             /\ op[d] # Idle => /\ op'[d].alone = FALSE /\ op'[d].step = op[d].step
                                /\ op'[d].job = op[d].job
    <2> DEFINE ops == op
               mid == [op EXCEPT ![c] = next]
               now == op'
    <2>1. /\ ops \in [Clients -> Requests]
          /\ mid = [ops EXCEPT ![c] = next]
          /\ now = Disturbed(c, mid)
      BY <1>1
    <2> HIDE DEF ops, mid, now
    <2>2. /\ now \in [Clients -> Requests]
          /\ now[c] = next
          /\ \A d \in Clients \ {c} : Told(ops[d], now[d])
      BY ONLY <2>1, c \in Clients, next \in Requests, DisturbedFacts
    <2> QED  BY <2>2 DEF ops, now, Told
  <1>3. ASSUME NEW d \in Clients \ {c}
        PROVE  PostOk(d)' /\ ChangeOk(d)' /\ JobOk(d)'
    <2>1. CASE op[d] = Idle
      <3>1. op'[d].kind = "idle"
        BY <1>2, <2>1, Kinds
      <3> QED  BY <3>1 DEF PostOk, ChangeOk, JobOk
    <2>2. CASE op[d] # Idle
      <3>1. /\ op'[d].kind = op[d].kind /\ op'[d].alone = FALSE
            /\ op'[d].step = op[d].step /\ op'[d].job = op[d].job
        BY <1>2, <2>2
      <3>2. JobOk(d)'
        BY <1>1, <3>1 DEF JobOk
      <3>3. ChangeOk(d)'
        BY <3>1 DEF ChangeOk
      <3>4. PostOk(d)'
        BY <1>1, <3>1 DEF PostOk
      <3> QED  BY <3>2, <3>3, <3>4
    <2> QED  BY <2>1, <2>2
  <1>4. RequestsTyped'
    BY <1>2 DEF RequestsTyped
  <1>5. OwnJobs'
    <2>1. ASSUME NEW a \in Clients, NEW b \in Clients,
                 op'[a].kind = "post", op'[b].kind = "post", op'[a].job = op'[b].job
          PROVE  a = b
      <3>1. \A d \in Clients : op'[d].kind = "post" =>
                                 op[d].kind = "post" /\ op[d].job = op'[d].job
        <4> SUFFICES ASSUME NEW d \in Clients, op'[d].kind = "post"
                     PROVE  op[d].kind = "post" /\ op[d].job = op'[d].job
          OBVIOUS
        <4>1. CASE d = c
          BY <1>2, <4>1
        <4>2. CASE d # c
          BY <1>2, <4>2, Kinds
        <4> QED  BY <4>1, <4>2
      <3> QED  BY <2>1, <3>1 DEF RequestInv, OwnJobs
    <2> QED  BY <2>1 DEF OwnJobs
  <1> QED  BY <1>3, <1>4, <1>5 DEF RequestInv

\* What the invariant says of one request.
LEMMA RequestFacts ==
    ASSUME RequestInv, NEW c \in Clients
    PROVE  /\ op \in [Clients -> Requests]
           /\ branch \in Maps /\ switches \in Nat /\ failed \in Nat
           /\ PostOk(c) /\ ChangeOk(c) /\ JobOk(c)
           /\ op[c].kind = "idle" => op[c] = Idle
           /\ op[c].kind = "post" => op[c] \in Post /\ op[c].job \in DOMAIN jobs
           /\ op[c].kind = "edit" => op[c].job \in DOMAIN jobs
           /\ op[c].kind \in {"edit", "switch"} => op[c] \in Change
  BY Kinds DEF RequestInv, RequestsTyped, JobOk

\* A quiet step writes one row without its parent and commit.
LEMMA QuietRow ==
    ASSUME TreeInv, NEW j \in DOMAIN jobs, NEW row \in JobRow,
           jobs' = [jobs EXCEPT ![j] = row], branch' = branch,
           row.committed = jobs[j].committed, jobs[j].archived <= row.archived,
           \/ row.parent = jobs[j].parent
           \/ row.parent \in Parents /\ ~row.committed
    PROVE  /\ Quietly
           /\ DOMAIN jobs' = DOMAIN jobs
           /\ jobs'[j] = row
           /\ \A i \in DOMAIN jobs : i # j => jobs'[i] = jobs[i]
  <1>1. /\ jobs' \in Seq(JobRow)
        /\ DOMAIN jobs' = DOMAIN jobs
        /\ jobs'[j] = row
        /\ \A i \in DOMAIN jobs : i # j => jobs'[i] = jobs[i]
    BY RowWritten DEF TreeInv
  <1>2. \A i \in DOMAIN jobs : jobs'[i].committed = jobs[i].committed
    BY <1>1
  <1>3. ASSUME NEW i \in Committed
        PROVE  jobs'[i].parent = jobs[i].parent /\ jobs[i].archived <= jobs'[i].archived
    <2>1. i \in DOMAIN jobs /\ jobs[i].committed /\ jobs[i].archived \in Nat
      BY CommittedFacts DEF Committed
    <2> QED  BY <1>1, <2>1
  <1>4. ASSUME NEW i \in DOMAIN jobs \ Committed
        PROVE  jobs'[i].parent \in {None, Root} \cup Parents /\ ~jobs'[i].committed
    <2>1. ~jobs[i].committed /\ jobs[i].parent \in {None, Root} \cup Parents
      BY DEF Committed, TreeInv
    <2> QED  BY <1>1, <1>2, <2>1
  <1> QED  BY <1>1, <1>2, <1>3, <1>4 DEF Quietly

\* A step that leaves rows and branch alone is quiet.
LEMMA QuietSame ==
    ASSUME TreeInv, UNCHANGED <<jobs, branch>>
    PROVE  Quietly
  <1>1. \A i \in DOMAIN jobs : jobs[i].archived \in Nat
    BY CommittedFacts
  <1> QED  BY <1>1 DEF Quietly, TreeInv, Committed

\* BeginPost keeps the invariant: the new row has no place in the tree yet.
LEMMA BeginPostStep ==
    ASSUME TreeInv, RequestInv, NEW c \in Clients, BeginPost(c)
    PROVE  TreeInv' /\ RequestInv'
  <1> DEFINE row == NewJob(None)
             n == Len(jobs')
             next == [kind |-> "post", step |-> "tree", alone |-> TRUE, job |-> n]
  <1>1. /\ op[c] = Idle /\ jobs' = Append(jobs, row) /\ op' = [op EXCEPT ![c] = next]
        /\ UNCHANGED <<branch, switches, failed>>
    BY DEF BeginPost, Continue
  <1>2. row \in JobRow /\ row.parent = None /\ row.committed = FALSE
    BY ConversationAssumption DEF NewJob, JobRow
  <1>3. /\ jobs' \in Seq(JobRow) /\ n \in Nat /\ n \notin DOMAIN jobs
        /\ DOMAIN jobs' = DOMAIN jobs \cup {n} /\ jobs'[n] = row
        /\ \A i \in DOMAIN jobs : jobs'[i] = jobs[i]
    <2> HIDE DEF row
    <2> QED  BY <1>1, <1>2, RowAdded DEF TreeInv
  <1>4. Quietly
    <2>1. \A i \in DOMAIN jobs : jobs[i].archived \in Nat
      BY CommittedFacts
    <2>2. \A i \in DOMAIN jobs' \ Committed :
            jobs'[i].parent \in {None, Root} \cup Parents /\ ~jobs'[i].committed
      BY <1>2, <1>3 DEF TreeInv, Committed
    <2> QED  BY <1>1, <1>3, <2>1, <2>2 DEF Quietly, Committed
  <1>5. next \in Post /\ op'[c] = next
    BY <1>1, <1>3, RequestFacts DEF Post
  <1>6. PostOk(c)' /\ ChangeOk(c)' /\ JobOk(c)'
    BY <1>2, <1>3, <1>5 DEF PostOk, ChangeOk, JobOk
  <1>7. \A d \in Clients : op[d].kind = "post" =>
                             jobs'[op[d].job].parent = jobs[op[d].job].parent
    BY <1>3, RequestFacts
  <1>8. switches' \in Nat /\ failed' \in Nat /\ next.job \notin DOMAIN jobs
    BY <1>1, <1>3, RequestFacts
  <1> HIDE DEF next, n
  <1> QED  BY <1>1, <1>4, <1>5, <1>6, <1>7, <1>8, QuietRequests, Kinds

\* ReadTree keeps the invariant: the parent is the path's end.
LEMMA ReadTreeStep ==
    ASSUME TreeInv, RequestInv, NEW c \in Clients, ReadTree(c)
    PROVE  TreeInv' /\ RequestInv'
  <1> DEFINE j == op[c].job
             row == [jobs[j] EXCEPT !.parent = LastRow]
             next == [op[c] EXCEPT !.step = "commit", !.alone = TRUE]
  <1>1. /\ op[c].kind = "post" /\ op[c].step = "tree"
        /\ jobs' = [jobs EXCEPT ![j] = row] /\ op' = [op EXCEPT ![c] = next]
        /\ UNCHANGED <<branch, switches, failed>>
    BY DEF ReadTree, Continue
  <1>2. op[c] \in Post /\ j \in DOMAIN jobs /\ ~jobs[j].committed /\ jobs[j] \in JobRow
    <2>1. op[c] \in Post /\ j \in DOMAIN jobs /\ PostOk(c)
      BY <1>1, RequestFacts
    <2> QED  BY <1>1, <2>1, CommittedFacts DEF PostOk
  <1>3. LastRow \in Parents /\ LastRow \in Nat \X Nat /\ LastRow[1] \in Path
        /\ Children(LastRow[1]) = {}
    BY LastRowFacts, CommittedFacts
  <1>4. /\ row \in JobRow /\ row.parent = LastRow /\ row.committed = jobs[j].committed
        /\ row.archived = jobs[j].archived /\ jobs[j].archived <= row.archived
    <2>1. jobs[j].archived \in Nat
      BY <1>2, CommittedFacts
    <2> QED  BY <1>2, <1>3, <2>1 DEF JobRow
  <1>5. next \in Post /\ next.kind = "post" /\ next.job = j /\ next.step = "commit"
    BY <1>1, <1>2 DEF Post
  <1>6. op'[c] = next
    BY <1>1, RequestFacts
  <1> HIDE DEF row, j
  <1>7. /\ Quietly
        /\ DOMAIN jobs' = DOMAIN jobs
        /\ jobs'[j] = row
        /\ \A i \in DOMAIN jobs : i # j => jobs'[i] = jobs[i]
    BY <1>1, <1>2, <1>3, <1>4, QuietRow
  <1> HIDE DEF next
  <1>8. Parents \subseteq Parents' /\ Path \subseteq Path' /\ \A k : Children(k)' = Children(k)
    BY <1>7, QuietStep
  <1>9. PostOk(c)'
    <2>0. PICK k : k = LastRow[1]
      OBVIOUS
    <2>1. op'[c].job = j /\ jobs'[op'[c].job].parent = LastRow
      BY <1>4, <1>5, <1>6, <1>7
    <2>2. LastRow \in Parents' /\ k \in Path' /\ {i \in Committed' : jobs'[i].parent[1] = k} = {}
      <3>1. Children(k)' = Children(k) /\ Children(k)' = {i \in Committed' : jobs'[i].parent[1] = k}
        BY <1>8 DEF Children
      <3> QED  BY <1>3, <1>8, <2>0, <3>1
    <2>3. Children(jobs[op[c].job].parent[1])' = {i \in Committed' : jobs'[i].parent[1] = k}
      BY <2>0, <2>1 DEF Children
    <2>4. ~jobs'[op'[c].job].committed
      BY <1>2, <1>4, <1>7, <2>1
    <2> QED  BY <2>0, <2>1, <2>2, <2>3, <2>4 DEF PostOk
  <1>10. ChangeOk(c)' /\ JobOk(c)'
    BY <1>2, <1>5, <1>6, <1>7 DEF ChangeOk, JobOk
  <1>11. \A d \in Clients \ {c} : op[d].kind = "post" =>
                                    jobs'[op[d].job].parent = jobs[op[d].job].parent
    <2> SUFFICES ASSUME NEW d \in Clients \ {c}, op[d].kind = "post"
                 PROVE  jobs'[op[d].job].parent = jobs[op[d].job].parent
      OBVIOUS
    <2>1. op[d].job # op[c].job
      BY <1>1 DEF RequestInv, OwnJobs
    <2> QED  BY <1>7, <2>1, RequestFacts DEF j
  <1>12. switches' \in Nat /\ failed' \in Nat /\ (op[c].kind = "post" /\ next.job = op[c].job)
    BY <1>1, <1>5, RequestFacts DEF j
  <1> QED  BY <1>1, <1>5, <1>7, <1>9, <1>10, <1>11, <1>12, QuietRequests, Kinds

\* The fields of new and of updated rows.
LEMMA RowFacts ==
    /\ \A p \in {None} \cup (Nat \X Nat) :
         /\ NewJob(p) \in JobRow /\ NewJob(p).parent = p /\ NewJob(p).committed = FALSE
    /\ \A row \in JobRow :
         /\ [row EXCEPT !.committed = TRUE] \in JobRow
         /\ [row EXCEPT !.committed = TRUE].parent = row.parent
         /\ [row EXCEPT !.committed = TRUE].committed = TRUE
         /\ [row EXCEPT !.published = TRUE] \in JobRow
         /\ [row EXCEPT !.published = TRUE].parent = row.parent
         /\ [row EXCEPT !.published = TRUE].committed = row.committed
         /\ [row EXCEPT !.published = TRUE].archived = row.archived
  <1>1. ASSUME NEW p \in {None} \cup (Nat \X Nat)
        PROVE  NewJob(p) \in JobRow /\ NewJob(p).parent = p /\ NewJob(p).committed = FALSE
    BY ConversationAssumption DEF NewJob, JobRow
  <1>2. ASSUME NEW row \in JobRow
        PROVE  /\ [row EXCEPT !.committed = TRUE] \in JobRow
               /\ [row EXCEPT !.committed = TRUE].parent = row.parent
               /\ [row EXCEPT !.committed = TRUE].committed = TRUE
    BY DEF JobRow
  <1>3. ASSUME NEW row \in JobRow
        PROVE  /\ [row EXCEPT !.published = TRUE] \in JobRow
               /\ [row EXCEPT !.published = TRUE].parent = row.parent
               /\ [row EXCEPT !.published = TRUE].committed = row.committed
               /\ [row EXCEPT !.published = TRUE].archived = row.archived
    BY DEF JobRow
  <1> QED  BY <1>1, <1>2, <1>3

\* A post is written below the path's end.
LEMMA CommitPostRow ==
    ASSUME TreeInv, RequestInv, NEW c \in Clients, CommitPost(c)
    PROVE  \E j \in DOMAIN jobs, row \in JobRow :
             /\ j = op[c].job /\ ~jobs[j].committed /\ jobs[j].parent \in Parents
             /\ jobs' = [jobs EXCEPT ![j] = row]
             /\ row.parent = jobs[j].parent /\ row.committed = TRUE
             /\ row.archived = jobs[j].archived
             /\ Committed' = Committed \cup {j}
             /\ \A i \in DOMAIN jobs : jobs'[i].parent = jobs[i].parent
  <1> DEFINE row == [jobs[op[c].job] EXCEPT !.committed = TRUE]
  <1>1. PICK j : j = op[c].job
    OBVIOUS
  <1>2. op[c].kind = "post" /\ op[c].step = "commit" /\ jobs' = [jobs EXCEPT ![j] = row]
    BY <1>1 DEF CommitPost
  <1>3. /\ j \in DOMAIN jobs /\ ~jobs[j].committed /\ jobs[j] \in JobRow
        /\ jobs[j].parent \in Parents
    <2>1. j \in DOMAIN jobs /\ PostOk(c)
      BY <1>1, <1>2, RequestFacts
    <2> QED  BY <1>1, <1>2, <2>1, CommittedFacts DEF PostOk
  <1>4. /\ row \in JobRow /\ row.parent = jobs[j].parent /\ row.committed = TRUE
        /\ row.archived = jobs[j].archived
    BY <1>1, <1>3 DEF JobRow
  <1> HIDE DEF row
  <1>5. /\ jobs' \in Seq(JobRow) /\ DOMAIN jobs' = DOMAIN jobs /\ jobs'[j] = row
        /\ \A i \in DOMAIN jobs : i # j => jobs'[i] = jobs[i]
    BY <1>2, <1>3, <1>4, RowWritten DEF TreeInv
  <1>6. Committed' = Committed \cup {j}
    BY <1>3, <1>4, <1>5 DEF Committed
  <1>7. \A i \in DOMAIN jobs : jobs'[i].parent = jobs[i].parent
    BY <1>4, <1>5
  <1> QED  BY <1>1, <1>2, <1>3, <1>4, <1>6, <1>7

\* CommitPost keeps the invariant.
LEMMA CommitPostStep ==
    ASSUME TreeInv, RequestInv, NEW c \in Clients, CommitPost(c)
    PROVE  TreeInv' /\ RequestInv'
  <1> DEFINE next == [op[c] EXCEPT !.step = "publish"]
  <1>1. /\ op[c].kind = "post" /\ op[c].step = "commit"
        /\ op' = Disturbed(c, [op EXCEPT ![c] = next])
        /\ UNCHANGED <<branch, switches, failed>>
    BY DEF CommitPost, Write
  <1>0. PICK j \in DOMAIN jobs, row \in JobRow :
          /\ j = op[c].job /\ ~jobs[j].committed /\ jobs[j].parent \in Parents
          /\ jobs' = [jobs EXCEPT ![j] = row]
          /\ row.parent = jobs[j].parent /\ row.committed = TRUE
          /\ row.archived = jobs[j].archived
    BY CommitPostRow
  <1>2. op[c] \in Post
    BY <1>1, RequestFacts
  <1>4. next \in Post /\ next.kind = "post" /\ next.job = j /\ next.step = "publish"
        /\ next \in Requests
    BY <1>0, <1>1, <1>2 DEF Post, Requests
  <1> HIDE DEF next
  <1>5. /\ jobs' \in Seq(JobRow) /\ DOMAIN jobs' = DOMAIN jobs /\ jobs'[j] = row
        /\ \A i \in DOMAIN jobs : i # j => jobs'[i] = jobs[i]
    BY <1>0, RowWritten DEF TreeInv
  <1>6. /\ \A i \in Committed : i # j /\ i \in DOMAIN jobs /\ jobs[i].archived \in Nat
        /\ None \notin Parents
    BY <1>0, CommittedFacts DEF Committed
  <1>8. TreeInv' /\ Parents \subseteq Parents'
    <2>1. \A i \in Committed : /\ i \in DOMAIN jobs' /\ jobs'[i].committed
                               /\ jobs'[i].parent = jobs[i].parent
                               /\ jobs[i].archived <= jobs'[i].archived
      BY <1>5, <1>6 DEF Committed
    <2>2. ASSUME NEW i \in DOMAIN jobs' \ Committed
          PROVE  /\ jobs'[i].parent \in {None, Root} \cup Parents
                 /\ jobs'[i].committed => jobs'[i].parent # None
      <3>1. i \in DOMAIN jobs /\ ~jobs[i].committed /\ jobs[i].parent \in {None, Root} \cup Parents
        BY <1>5 DEF Committed, TreeInv
      <3>2. CASE i = j
        BY <1>0, <1>5, <1>6, <3>2
      <3>3. CASE i # j
        BY <1>5, <3>1, <3>3
      <3> QED  BY <3>2, <3>3
    <2> QED  BY <1>5, <2>1, <2>2, TreeStep
  <1>9. op'[c] = next
    <2>1. op \in [Clients -> Requests]
      BY RequestFacts
    <2> QED  BY <1>1, <2>1 DEF Disturbed
  <1>10. PostOk(c)' /\ ChangeOk(c)' /\ JobOk(c)'
    BY <1>4, <1>5, <1>9 DEF PostOk, ChangeOk, JobOk
  <1>11. ASSUME NEW d \in Clients \ {c}, op[d].kind = "post"
         PROVE  /\ jobs'[op[d].job].parent = jobs[op[d].job].parent
                /\ jobs'[op[d].job].committed = jobs[op[d].job].committed
    <2>1. op[d].job # j
      BY <1>0, <1>1, <1>11 DEF RequestInv, OwnJobs
    <2> QED  BY <1>5, <1>11, <2>1, RequestFacts
  <1>12. branch' \in Maps /\ switches' \in Nat /\ failed' \in Nat
    BY <1>1, RequestFacts
  <1>13. next.kind = "post" => op[c].kind = "post" /\ next.job = op[c].job
    BY <1>0, <1>1, <1>4
  <1>14. RequestInv'
    BY <1>1, <1>4, <1>5, <1>8, <1>10, <1>11, <1>12, <1>13, DisturbedRequests
  <1> QED  BY <1>8, <1>14

\* The empty branch map.
LEMMA NoMap == NewConversation \in Maps
  <1>1. NewConversation \in [{} -> Nat \X Nat]
    BY DEF NewConversation
  <1>2. {} \in SUBSET (Nat \X Nat)
    OBVIOUS
  <1> QED  BY <1>1, <1>2 DEF Maps

\* A map with one entry written.
LEMMA EntryWritten ==
    ASSUME NEW map \in Maps, NEW key \in Nat \X Nat, NEW target \in Nat \X Nat
    PROVE  WithEntry(map, key, target) \in Maps
  <1>1. PICK D \in SUBSET (Nat \X Nat) : map \in [D -> Nat \X Nat]
    BY DEF Maps
  <1>2. WithEntry(map, key, target) \in [D \cup {key} -> Nat \X Nat]
    BY <1>1 DEF WithEntry
  <1>3. D \cup {key} \in SUBSET (Nat \X Nat)
    OBVIOUS
  <1> QED  BY <1>2, <1>3 DEF Maps

\* The question of an edit that is seen hangs off the path.
LEMMA EditedHangs ==
    ASSUME TreeInv, NEW j \in Committed, jobs[j].parent # Root, <<j, 0>> \in Range(Shown)
    PROVE  jobs[j].parent[1] \in Path
  <1>1. HasTree
    BY DEF HasTree
  <1> DEFINE w == Walked
  <1>2. Shown = MessagesOf(w)
    BY <1>1 DEF Shown
  <1>3. PICK i \in 1..Len(w) : w[i].message = <<j, 0>>
    BY <1>2, WalkedFacts DEF Range
  <1>4. j \in Path
    BY <1>3 DEF Path, Shows
  <1>5. PICK k \in {0} \cup Path : Picked(k, j)
    BY <1>4, PathFacts
  <1>6. jobs[j].parent[1] = k /\ j \in Children(k)
    BY <1>5 DEF Picked, Children
  <1>7. k # 0
    BY <1>6, ChildFacts
  <1> QED  BY <1>5, <1>6, <1>7

\* Edit keeps the invariant.
LEMMA EditStep ==
    ASSUME TreeInv, RequestInv, NEW c \in Clients, NEW j \in Committed, Edit(c, j)
    PROVE  TreeInv' /\ RequestInv'
  <1> DEFINE row == [NewJob(jobs[j].parent) EXCEPT !.committed = TRUE]
             next == [kind |-> "edit",
                      step |-> IF jobs[j].parent = Root THEN "publish" ELSE "read",
                      alone |-> <<j, 0>> \in Range(Shown), job |-> Len(jobs'),
                      key |-> jobs[j].parent, target |-> <<Len(jobs'), 0>>,
                      map |-> NewConversation]
  <1>0. PICK n : n = Len(jobs')
    OBVIOUS
  <1>00. PICK p : p = jobs[j].parent
    OBVIOUS
  <1>1. /\ op[c] = Idle /\ jobs' = Append(jobs, row)
        /\ op' = Disturbed(c, [op EXCEPT ![c] = next])
        /\ UNCHANGED <<branch, switches, failed>>
    BY DEF Edit, Write
  <1>2. /\ p \in {Root} \cup Parents /\ p \in Nat \X Nat /\ p # None
        /\ j \in DOMAIN jobs /\ None \notin Parents
    BY <1>00, CommittedFacts, PairFacts DEF Committed
  <1>3. row \in JobRow /\ row.parent = p /\ row.committed = TRUE
    <2> DEFINE old == NewJob(p)
    <2>1. old \in JobRow /\ old.parent = p
      BY <1>2, RowFacts
    <2>2. row = [old EXCEPT !.committed = TRUE]
      BY <1>00
    <2> HIDE DEF old, row
    <2> QED  BY <2>1, <2>2, RowFacts
  <1> HIDE DEF row
  <1>4. /\ jobs' \in Seq(JobRow) /\ n \in Nat /\ n \notin DOMAIN jobs
        /\ DOMAIN jobs' = DOMAIN jobs \cup {n} /\ jobs'[n] = row
        /\ \A i \in DOMAIN jobs : jobs'[i] = jobs[i]
    BY <1>0, <1>1, <1>3, RowAdded DEF TreeInv
  <1>5. /\ next \in Change /\ next \in Requests
        /\ next.kind = "edit" /\ next.key = p /\ next.target = <<n, 0>> /\ next.job = n
        /\ next.step = IF p = Root THEN "publish" ELSE "read"
        /\ next.alone = (<<j, 0>> \in Range(Shown))
    <2>1. next \in Change
      BY <1>0, <1>00, <1>2, <1>4, NoMap DEF Change
    <2> QED  BY <1>0, <1>00, <2>1 DEF Requests
  <1> HIDE DEF next
  <1>6. TreeInv' /\ Parents \subseteq Parents' /\ Committed \subseteq Committed'
    <2>1. \A i \in Committed : /\ i \in DOMAIN jobs' /\ jobs'[i].committed
                               /\ jobs'[i].parent = jobs[i].parent
                               /\ jobs[i].archived <= jobs'[i].archived
      <3>1. \A i \in Committed : i \in DOMAIN jobs /\ jobs[i].committed /\ jobs[i].archived \in Nat
        BY CommittedFacts DEF Committed
      <3> QED  BY <1>4, <3>1
    <2>2. ASSUME NEW i \in DOMAIN jobs' \ Committed
          PROVE  /\ jobs'[i].parent \in {None, Root} \cup Parents
                 /\ jobs'[i].committed => jobs'[i].parent # None
      <3>1. CASE i = n
        BY <1>2, <1>3, <1>4, <3>1
      <3>2. CASE i # n
        BY <1>4, <3>2 DEF Committed, TreeInv
      <3> QED  BY <3>1, <3>2
    <2> QED  BY <1>4, <2>1, <2>2, TreeStep
  <1>7. op'[c] = next
    <2>1. op \in [Clients -> Requests]
      BY RequestFacts
    <2> QED  BY <1>1, <2>1 DEF Disturbed
  <1>8. Committed' = Committed \cup {n}
    BY <1>3, <1>4 DEF Committed
  <1>9. ASSUME NEW k, k # p[1]
        PROVE  Children(k)' = Children(k)
    <2>1. \A i \in Committed : i # n /\ jobs'[i] = jobs[i]
      BY <1>4 DEF Committed
    <2> QED  BY <1>3, <1>4, <1>8, <1>9, <2>1 DEF Children
  <1>10. ChangeOk(c)'
    <2> SUFFICES ASSUME p # Root, <<j, 0>> \in Range(Shown)
                 PROVE  ChangeOk(c)'
      BY <1>5, <1>7 DEF ChangeOk
    <2>0. PICK k : k = p[1]
      OBVIOUS
    <2>1. k \in Path
      BY <1>00, <2>0, EditedHangs
    <2>2. ASSUME NEW l \in {0} \cup Committed, l # k, NEW i, Picked(l, i)
          PROVE  Picked(l, i)'
      <3>1. \A f \in Children(l) : jobs'[f].parent = jobs[f].parent
        BY <1>4 DEF Children, Committed
      <3>2. Children(l)' = Children(l)
        BY <1>9, <2>0, <2>2
      <3> QED  BY <1>1, <2>2, <3>1, <3>2, PickStays
    <2>3. k \in Path'
      BY <1>6, <2>1, <2>2, PathKept
    <2>4. n \in {i \in Committed' : jobs'[i].parent[1] = k} /\ jobs'[n].parent = p
      BY <1>3, <1>4, <1>8, <2>0
    <2>5. Children(op[c].key[1])' = {i \in Committed' : jobs'[i].parent[1] = k}
      BY <1>5, <1>7, <2>0 DEF Children
    <2> QED  BY <1>5, <1>7, <2>0, <2>3, <2>4, <2>5 DEF ChangeOk
  <1>11. PostOk(c)' /\ JobOk(c)'
    BY <1>4, <1>5, <1>7 DEF PostOk, JobOk
  <1>12. \A d \in Clients \ {c} :
           op[d].kind = "post" =>
               /\ jobs'[op[d].job].parent = jobs[op[d].job].parent
               /\ jobs'[op[d].job].committed = jobs[op[d].job].committed
    BY <1>4, RequestFacts
  <1>13. branch' \in Maps /\ switches' \in Nat /\ failed' \in Nat /\ next.kind # "post"
    BY <1>1, <1>5, RequestFacts
  <1>14. RequestInv'
    BY <1>1, <1>4, <1>5, <1>6, <1>10, <1>11, <1>12, <1>13, DisturbedRequests
  <1> QED  BY <1>6, <1>14

\* What the arrows offer hangs off the path.
LEMMA ArrowsHang ==
    ASSUME TreeInv, NEW point \in Range(Walked), NEW wanted \in point.among,
           ParentOf(point.message) # Root
    PROVE  /\ ParentOf(point.message) \in Nat \X Nat
           /\ ParentOf(point.message)[1] \in Path
           /\ wanted \in Children(ParentOf(point.message)[1])
           /\ wanted \in Nat
           /\ \E i \in Children(ParentOf(point.message)[1]) :
                jobs[i].parent = ParentOf(point.message)
  <1> DEFINE w == Walked
  <1>1. DOMAIN w = 1..Len(w)
    BY WalkedFacts, LenProperties
  <1>2. PICK a \in 1..Len(w) : point = w[a]
    BY <1>1 DEF Range
  <1>3. PICK k \in {0} \cup Path : ChosenFrom(w[a], k)
    BY <1>2, PathFacts
  <1>4. PICK i : Picked(k, i) /\ point.message = <<i, 0>> /\ point.among = Children(k)
    BY <1>2, <1>3 DEF ChosenFrom
  <1>5. i \in Children(k) /\ ParentOf(point.message) = jobs[i].parent
    BY <1>4 DEF Picked, ParentOf
  <1>6. /\ jobs[i].parent = <<k, jobs[i].parent[2]>> /\ jobs[i].parent[2] \in Nat /\ k \in Nat
        /\ k # 0
    BY <1>5, ChildFacts
  <1>7. wanted \in Nat
    BY <1>4, ChildFacts
  <1>8. jobs[i].parent \in Nat \X Nat /\ jobs[i].parent[1] = k
    <2>1. PICK b \in Nat : jobs[i].parent = <<k, b>>
      BY <1>6
    <2> QED  BY <1>6, <2>1
  <1> QED  BY <1>3, <1>4, <1>5, <1>6, <1>7, <1>8

\* Switch keeps the invariant.
LEMMA SwitchStep ==
    ASSUME TreeInv, RequestInv, NEW c \in Clients, Switch(c)
    PROVE  TreeInv' /\ RequestInv'
  <1>0. PICK point \in Range(Walked) : \E wanted \in point.among \ {point.message[1]} :
          /\ ParentOf(point.message) # Root
          /\ op' = [op EXCEPT ![c] =
                      [kind |-> "switch", step |-> "read", alone |-> TRUE, job |-> 0,
                       key |-> ParentOf(point.message), target |-> <<wanted, 0>>,
                       map |-> NewConversation]]
    BY DEF Switch, Continue
  <1>1. PICK wanted \in point.among :
          /\ ParentOf(point.message) # Root
          /\ op' = [op EXCEPT ![c] =
                      [kind |-> "switch", step |-> "read", alone |-> TRUE, job |-> 0,
                       key |-> ParentOf(point.message), target |-> <<wanted, 0>>,
                       map |-> NewConversation]]
    BY <1>0
  <1>2. PICK key : key = ParentOf(point.message)
    OBVIOUS
  <1> DEFINE next == [kind |-> "switch", step |-> "read", alone |-> TRUE, job |-> 0,
                      key |-> key, target |-> <<wanted, 0>>, map |-> NewConversation]
  <1>3. op' = [op EXCEPT ![c] = next] /\ UNCHANGED <<jobs, branch, failed>>
        /\ switches' = switches + 1
    BY <1>1, <1>2 DEF Switch
  <1>4. /\ key \in Nat \X Nat /\ wanted \in Nat /\ key[1] \in Path
        /\ wanted \in Children(key[1])
        /\ \E i \in Children(key[1]) : jobs[i].parent = key
    BY <1>1, <1>2, ArrowsHang
  <1>5. next \in Change /\ next \in Requests
    BY <1>4, NoMap DEF Change, Requests
  <1>6. /\ next.kind = "switch" /\ next.step = "read" /\ next.key = key
        /\ next.target = <<wanted, 0>>
    OBVIOUS
  <1>7. op'[c] = next
    BY <1>3, RequestFacts
  <1> HIDE DEF next
  <1>8. Quietly
    BY <1>3, QuietSame
  <1>9. PICK k : k = key[1]
    OBVIOUS
  <1>10. ChangeOk(c)'
    <2>1. Children(k)' = Children(k) /\ k \in Path'
      BY <1>4, <1>8, <1>9, QuietStep
    <2>2. {i \in Committed' : jobs'[i].parent[1] = k} = Children(k)
      BY <2>1 DEF Children
    <2>3. Children(op[c].key[1])' = {i \in Committed' : jobs'[i].parent[1] = k}
      BY <1>6, <1>7, <1>9 DEF Children
    <2> QED  BY <1>3, <1>4, <1>6, <1>7, <1>9, <2>1, <2>2, <2>3 DEF ChangeOk
  <1>11. PostOk(c)' /\ JobOk(c)'
    BY <1>6, <1>7 DEF PostOk, JobOk
  <1>12. switches' \in Nat /\ failed' \in Nat
    BY <1>3, RequestFacts
  <1> QED  BY <1>3, <1>5, <1>6, <1>8, <1>10, <1>11, <1>12, QuietRequests

\* ReadBranch keeps the invariant.
LEMMA ReadBranchStep ==
    ASSUME TreeInv, RequestInv, NEW c \in Clients, ReadBranch(c)
    PROVE  TreeInv' /\ RequestInv'
  <1> DEFINE next == [op[c] EXCEPT !.step = "write", !.map = branch]
  <1>1. /\ op[c].kind \in {"edit", "switch"} /\ op[c].step = "read"
        /\ op' = [op EXCEPT ![c] = next] /\ UNCHANGED <<jobs, branch, switches, failed>>
    BY DEF ReadBranch, Continue
  <1>2. op[c] \in Change /\ branch \in Maps /\ ChangeOk(c) /\ JobOk(c)
    BY <1>1, RequestFacts
  <1>3. /\ next \in Change /\ next \in Requests
        /\ next.kind = op[c].kind /\ next.key = op[c].key /\ next.target = op[c].target
        /\ next.alone = op[c].alone /\ next.map = branch /\ next.job = op[c].job
    BY <1>2 DEF Change, Requests
  <1> HIDE DEF next
  <1>4. op'[c] = next
    BY <1>1, RequestFacts
  <1>5. Quietly
    BY <1>1, QuietSame
  <1>6. PICK k : k = op[c].key[1]
    OBVIOUS
  <1>7. ChangeOk(c)'
    <2> SUFFICES ASSUME op[c].alone
                 PROVE  ChangeOk(c)'
      BY <1>3, <1>4 DEF ChangeOk
    <2>1. /\ k \in Path
          /\ \E t \in Children(k) : op[c].target = <<t, 0>>
          /\ \E i \in Children(k) : jobs[i].parent = op[c].key
      BY <1>1, <1>2, <1>6 DEF ChangeOk
    <2>2. Children(k)' = Children(k) /\ k \in Path'
      BY <1>5, <2>1, QuietStep
    <2>3. {i \in Committed' : jobs'[i].parent[1] = k} = Children(k)
      BY <2>2 DEF Children
    <2>4. Children(op[c].key[1])' = {i \in Committed' : jobs'[i].parent[1] = k}
      BY <1>3, <1>4, <1>6 DEF Children
    <2> QED  BY <1>1, <1>3, <1>4, <1>6, <2>1, <2>2, <2>3, <2>4 DEF ChangeOk
  <1>8. PostOk(c)' /\ JobOk(c)'
    BY <1>1, <1>2, <1>3, <1>4 DEF PostOk, JobOk
  <1>9. switches' \in Nat /\ failed' \in Nat /\ next.kind # "post"
    BY <1>1, <1>3, RequestFacts
  <1> QED  BY <1>1, <1>3, <1>5, <1>7, <1>8, <1>9, QuietRequests

\* A step that leaves the rows alone leaves the tree.
LEMMA TreeStays ==
    ASSUME TreeInv, UNCHANGED jobs
    PROVE  TreeInv' /\ Committed' = Committed /\ Parents' = Parents
  <1>1. \A j \in Committed : j \in DOMAIN jobs /\ jobs[j].committed /\ jobs[j].archived \in Nat
    BY CommittedFacts DEF Committed
  <1>2. \A j \in DOMAIN jobs \ Committed :
          jobs[j].parent \in {None, Root} \cup Parents /\ ~jobs[j].committed
    BY DEF TreeInv, Committed
  <1>3. jobs \in Seq(JobRow)
    BY DEF TreeInv
  <1>4. TreeInv'
    BY <1>1, <1>2, <1>3, TreeStep
  <1> QED  BY <1>4 DEF Parents, Committed

\* WriteBranch keeps the invariant.
LEMMA WriteBranchStep ==
    ASSUME TreeInv, RequestInv, NEW c \in Clients, WriteBranch(c)
    PROVE  TreeInv' /\ RequestInv'
  <1> DEFINE next == IF op[c].kind = "switch" THEN Idle
                     ELSE [op[c] EXCEPT !.step = "publish", !.map = NewConversation]
  <1>1. /\ op[c].kind \in {"edit", "switch"} /\ op[c].step = "write"
        /\ branch' = WithEntry(op[c].map, op[c].key, op[c].target)
        /\ op' = Disturbed(c, [op EXCEPT ![c] = next])
        /\ UNCHANGED <<jobs, switches, failed>>
    BY DEF WriteBranch, Write
  <1>2. op[c] \in Change /\ JobOk(c)
    BY <1>1, RequestFacts
  <1>3. /\ next \in Requests
        /\ \/ next = Idle
           \/ next.kind = "edit" /\ next.step = "publish" /\ next.job = op[c].job
              /\ op[c].kind = "edit"
    <2>1. CASE op[c].kind = "switch"
      BY <2>1 DEF Requests
    <2>2. CASE op[c].kind # "switch"
      <3>1. next = [op[c] EXCEPT !.step = "publish", !.map = NewConversation]
        BY <2>2
      <3>2. next \in Change
        BY <1>2, <3>1, NoMap DEF Change
      <3>3. next.kind = op[c].kind /\ next.step = "publish" /\ next.job = op[c].job
        BY <1>2, <3>1 DEF Change
      <3> QED  BY <1>1, <2>2, <3>2, <3>3 DEF Requests
    <2> QED  BY <2>1, <2>2
  <1> HIDE DEF next
  <1>4. op'[c] = next
    <2>1. op \in [Clients -> Requests]
      BY RequestFacts
    <2> QED  BY <1>1, <2>1 DEF Disturbed
  <1>5. branch' \in Maps
    <2>1. op[c].map \in Maps /\ op[c].key \in Nat \X Nat /\ op[c].target \in Nat \X Nat
      BY <1>2 DEF Change
    <2> QED  BY <1>1, <2>1, EntryWritten
  <1>6. PostOk(c)' /\ ChangeOk(c)' /\ JobOk(c)'
    BY <1>1, <1>2, <1>3, <1>4, Kinds DEF PostOk, ChangeOk, JobOk
  <1>7. TreeInv' /\ Parents \subseteq Parents'
    BY <1>1, TreeStays
  <1>8. switches' \in Nat /\ failed' \in Nat /\ next.kind # "post"
    BY <1>1, <1>3, RequestFacts, Kinds
  <1>9. RequestInv'
    BY <1>1, <1>3, <1>5, <1>6, <1>7, <1>8, DisturbedRequests
  <1> QED  BY <1>7, <1>9

\* SendJob keeps the invariant.
LEMMA SendJobStep ==
    ASSUME TreeInv, RequestInv, NEW c \in Clients, op[c].kind \in {"post", "edit"}, SendJob(c)
    PROVE  TreeInv' /\ RequestInv'
  <1> DEFINE row == [jobs[op[c].job] EXCEPT !.published = TRUE]
  <1>0. PICK j : j = op[c].job
    OBVIOUS
  <1>1. /\ jobs' = [jobs EXCEPT ![j] = row] /\ op' = [op EXCEPT ![c] = Idle]
        /\ UNCHANGED <<branch, switches, failed>>
    BY <1>0 DEF SendJob, Continue
  <1>2. j \in DOMAIN jobs /\ jobs[j] \in JobRow /\ jobs[j].archived \in Nat
    <2>1. j \in DOMAIN jobs
      BY <1>0, RequestFacts
    <2> QED  BY <2>1, CommittedFacts
  <1>3. /\ row \in JobRow /\ row.parent = jobs[j].parent
        /\ row.committed = jobs[j].committed /\ row.archived = jobs[j].archived
        /\ jobs[j].archived <= row.archived
    <2> DEFINE old == jobs[j]
    <2>1. old \in JobRow /\ old.archived \in Nat /\ row = [old EXCEPT !.published = TRUE]
      BY <1>0, <1>2
    <2> HIDE DEF old, row
    <2>2. /\ row \in JobRow /\ row.parent = old.parent
          /\ row.committed = old.committed /\ row.archived = old.archived
      BY <2>1, RowFacts
    <2> QED  BY <2>1, <2>2 DEF old
  <1> HIDE DEF row
  <1>4. /\ Quietly
        /\ DOMAIN jobs' = DOMAIN jobs
        /\ jobs'[j] = row
        /\ \A i \in DOMAIN jobs : i # j => jobs'[i] = jobs[i]
    BY <1>1, <1>2, <1>3, QuietRow
  <1>5. \A d \in Clients : op[d].kind = "post" =>
                             jobs'[op[d].job].parent = jobs[op[d].job].parent
    BY <1>3, <1>4, RequestFacts
  <1>6. op'[c] = Idle
    BY <1>1, RequestFacts
  <1>7. PostOk(c)' /\ ChangeOk(c)' /\ JobOk(c)'
    BY <1>6, Kinds DEF PostOk, ChangeOk, JobOk
  <1>8. switches' \in Nat /\ failed' \in Nat
    BY <1>1, RequestFacts
  <1> QED  BY <1>1, <1>4, <1>5, <1>7, <1>8, Kinds, QuietRequests

\* FailRequest keeps the invariant: what it leaves behind is never taken up.
LEMMA FailRequestStep ==
    ASSUME TreeInv, RequestInv, NEW c \in Clients, FailRequest(c)
    PROVE  TreeInv' /\ RequestInv'
  <1>1. op' = [op EXCEPT ![c] = Idle] /\ UNCHANGED <<jobs, branch, switches>>
        /\ failed' = failed + 1
    BY DEF FailRequest, Continue
  <1>2. Quietly
    BY <1>1, QuietSame
  <1>3. op'[c] = Idle
    BY <1>1, RequestFacts
  <1>4. PostOk(c)' /\ ChangeOk(c)' /\ JobOk(c)'
    BY <1>3, Kinds DEF PostOk, ChangeOk, JobOk
  <1>5. switches' \in Nat /\ failed' \in Nat
    BY <1>1, RequestFacts
  <1>6. \A d \in Clients : jobs'[op[d].job].parent = jobs[op[d].job].parent
    BY <1>1
  <1> QED  BY <1>1, <1>2, <1>4, <1>5, <1>6, Kinds, QuietRequests

\* The orchestrator and the archiver add to an answer and do no more.
Answered ==
    /\ UNCHANGED <<branch, op, switches, failed>>
    /\ \E j \in DOMAIN jobs, row \in JobRow :
         /\ jobs' = [jobs EXCEPT ![j] = row]
         /\ row.parent = jobs[j].parent
         /\ row.committed = jobs[j].committed
         /\ jobs[j].archived <= row.archived

\* Emitting and archiving records add to an answer.
LEMMA RecordsAnswer ==
    ASSUME TreeInv, NEW j \in DOMAIN jobs, EmitRecord(j) \/ ArchiveRecords(j)
    PROVE  Answered
  <1>1. jobs[j] \in JobRow /\ jobs[j].archived \in Nat
    BY CommittedFacts
  <1>2. jobs[j].emitted \in 0..MaxRecords /\ jobs[j].archived \in 0..MaxRecords
    BY <1>1 DEF JobRow
  <1>3. CASE EmitRecord(j)
    <2> DEFINE row == [jobs[j] EXCEPT !.emitted = @ + 1]
    <2>1. /\ jobs[j].emitted < MaxRecords /\ jobs' = [jobs EXCEPT ![j] = row]
          /\ UNCHANGED <<branch, op, switches, failed>>
      BY <1>3 DEF EmitRecord
    <2>2. jobs[j].emitted + 1 \in 0..MaxRecords
      BY <1>2, <2>1, ConversationAssumption
    <2>3. /\ row \in JobRow /\ row.parent = jobs[j].parent
          /\ row.committed = jobs[j].committed /\ jobs[j].archived <= row.archived
      BY <1>1, <2>2 DEF JobRow
    <2> HIDE DEF row
    <2> QED  BY <2>1, <2>3 DEF Answered
  <1>4. CASE ArchiveRecords(j)
    <2>1. PICK n \in jobs[j].archived + 1 .. jobs[j].emitted :
            jobs' = [jobs EXCEPT ![j].archived = n]
      BY <1>4 DEF ArchiveRecords
    <2> DEFINE row == [jobs[j] EXCEPT !.archived = n]
    <2>2. jobs' = [jobs EXCEPT ![j] = row] /\ UNCHANGED <<branch, op, switches, failed>>
      BY <1>4, <2>1 DEF ArchiveRecords
    <2>3. n \in 0..MaxRecords /\ jobs[j].archived <= n
      BY <1>2, ConversationAssumption
    <2>4. /\ row \in JobRow /\ row.parent = jobs[j].parent
          /\ row.committed = jobs[j].committed /\ jobs[j].archived <= row.archived
      BY <1>1, <2>3 DEF JobRow
    <2> HIDE DEF row
    <2> QED  BY <2>2, <2>4 DEF Answered
  <1> QED  BY <1>3, <1>4

\* A step that adds to an answer is quiet and keeps the invariant.
LEMMA AnsweredStep ==
    ASSUME TreeInv, RequestInv, Answered
    PROVE  Quietly /\ TreeInv' /\ RequestInv'
  <1>1. PICK j \in DOMAIN jobs, row \in JobRow :
          /\ jobs' = [jobs EXCEPT ![j] = row]
          /\ row.parent = jobs[j].parent
          /\ row.committed = jobs[j].committed
          /\ jobs[j].archived <= row.archived
    BY DEF Answered
  <1>2. UNCHANGED <<branch, op, switches, failed>>
    BY DEF Answered
  <1>3. /\ Quietly
        /\ DOMAIN jobs' = DOMAIN jobs
        /\ jobs'[j] = row
        /\ \A i \in DOMAIN jobs : i # j => jobs'[i] = jobs[i]
    BY <1>1, <1>2, QuietRow
  <1>4. \A d \in Clients : op[d].kind = "post" =>
                             jobs'[op[d].job].parent = jobs[op[d].job].parent
    BY <1>1, <1>3, RequestFacts
  <1>5. TreeInv' /\ \A d \in Clients : PostOk(d)' /\ ChangeOk(d)' /\ JobOk(d)'
    BY <1>2, <1>3, <1>4, QuietStep DEF RequestInv
  <1>6. RequestsTyped' /\ OwnJobs'
    BY <1>2 DEF RequestInv, RequestsTyped, OwnJobs
  <1> QED  BY <1>3, <1>5, <1>6 DEF RequestInv

\* A stuttering step keeps the invariant.
LEMMA StutterStep ==
    ASSUME TreeInv, RequestInv, UNCHANGED convVars
    PROVE  TreeInv' /\ RequestInv'
  <1>1. UNCHANGED <<jobs, branch, op, switches, failed>>
    BY DEF convVars
  <1>2. Quietly
    BY <1>1, QuietSame
  <1>3. \A d \in Clients : jobs'[op[d].job].parent = jobs[op[d].job].parent /\ op'[d] = op[d]
    BY <1>1
  <1>4. TreeInv' /\ \A d \in Clients : PostOk(d)' /\ ChangeOk(d)' /\ JobOk(d)'
    BY <1>2, <1>3, QuietStep DEF RequestInv
  <1>5. RequestsTyped' /\ OwnJobs'
    BY <1>1 DEF RequestInv, RequestsTyped, OwnJobs
  <1> QED  BY <1>4, <1>5 DEF RequestInv

\* A conversation begins with one question.
LEMMA ConversationBegins ==
    ASSUME ConvInit
    PROVE  TreeInv /\ RequestInv
  <1> DEFINE row == [NewJob(Root) EXCEPT !.committed = TRUE, !.published = TRUE]
  <1>1. jobs = <<row>> /\ branch = NewConversation /\ switches = 0 /\ failed = 0
        /\ op = [c \in Clients |-> Idle]
    BY DEF ConvInit
  <1>2. Root \in {None} \cup (Nat \X Nat)
    BY PairFacts
  <1>3. row \in JobRow /\ row.parent = Root /\ row.committed = TRUE
    <2> DEFINE old == NewJob(Root)
               half == [old EXCEPT !.committed = TRUE]
    <2>1. old \in JobRow /\ old.parent = Root
      BY <1>2, RowFacts
    <2>2. row = [half EXCEPT !.published = TRUE]
      OBVIOUS
    <2> HIDE DEF old, row
    <2>3. half \in JobRow /\ half.parent = Root /\ half.committed = TRUE
      BY <2>1, RowFacts
    <2> HIDE DEF half
    <2> QED  BY <2>2, <2>3, RowFacts
  <1> HIDE DEF row
  <1>4. jobs \in Seq(JobRow) /\ DOMAIN jobs = {1} /\ jobs[1] = row
    BY <1>1, <1>3
  <1>5. 1 \in Committed /\ Committed = {1}
    BY <1>3, <1>4 DEF Committed
  <1>6. Root # None
    BY PairFacts
  <1>7. Root \notin Parents
    BY <1>5 DEF Parents, Root
  <1>8. \E top \in Nat : \E rank \in [DOMAIN jobs -> 0..top] : Ranked(rank, top)
    <2> DEFINE r == [j \in {1} |-> 0]
    <2>1. r \in [DOMAIN jobs -> 0..0]
      BY <1>4
    <2> HIDE DEF r
    <2>2. Ranked(r, 0)
      BY <1>3, <1>4, <1>7, <2>1 DEF Ranked
    <2> QED  BY <2>1, <2>2
  <1>9. TreeInv
    BY <1>3, <1>4, <1>5, <1>6, <1>8 DEF TreeInv
  <1>10. RequestsTyped
    BY <1>1, NoMap, Kinds DEF RequestsTyped
  <1>11. \A c \in Clients : op[c].kind = "idle"
    BY <1>1, Kinds
  <1>12. OwnJobs /\ \A c \in Clients : PostOk(c) /\ ChangeOk(c) /\ JobOk(c)
    BY <1>11 DEF OwnJobs, PostOk, ChangeOk, JobOk
  <1> QED  BY <1>9, <1>10, <1>12 DEF RequestInv

\* Every step keeps the invariant.
LEMMA ConversationStep ==
    ASSUME TreeInv, RequestInv, [ConvNext]_convVars
    PROVE  TreeInv' /\ RequestInv'
  <1>1. ASSUME NEW c \in Clients, BeginPost(c)
        PROVE  TreeInv' /\ RequestInv'
    BY <1>1, BeginPostStep
  <1>2. ASSUME NEW c \in Clients, ReadTree(c)
        PROVE  TreeInv' /\ RequestInv'
    BY <1>2, ReadTreeStep
  <1>3. ASSUME NEW c \in Clients, CommitPost(c)
        PROVE  TreeInv' /\ RequestInv'
    BY <1>3, CommitPostStep
  <1>4. ASSUME NEW c \in Clients, NEW j \in Committed, Edit(c, j)
        PROVE  TreeInv' /\ RequestInv'
    BY <1>4, EditStep
  <1>5. ASSUME NEW c \in Clients, Switch(c)
        PROVE  TreeInv' /\ RequestInv'
    BY <1>5, SwitchStep
  <1>6. ASSUME NEW c \in Clients, ReadBranch(c)
        PROVE  TreeInv' /\ RequestInv'
    BY <1>6, ReadBranchStep
  <1>7. ASSUME NEW c \in Clients, WriteBranch(c)
        PROVE  TreeInv' /\ RequestInv'
    BY <1>7, WriteBranchStep
  <1>8. ASSUME NEW c \in Clients, PublishPost(c) \/ PublishEdit(c)
        PROVE  TreeInv' /\ RequestInv'
    BY <1>8, SendJobStep DEF PublishPost, PublishEdit
  <1>9. ASSUME NEW c \in Clients, FailRequest(c)
        PROVE  TreeInv' /\ RequestInv'
    BY <1>9, FailRequestStep
  <1>10. ASSUME NEW j \in DOMAIN jobs, EmitRecord(j) \/ ArchiveRecords(j)
         PROVE  TreeInv' /\ RequestInv'
    BY <1>10, RecordsAnswer, AnsweredStep
  <1>11. ASSUME UNCHANGED convVars
         PROVE  TreeInv' /\ RequestInv'
    BY <1>11, StutterStep
  <1> QED  BY <1>1, <1>2, <1>3, <1>4, <1>5, <1>6, <1>7, <1>8, <1>9, <1>10, <1>11 DEF ConvNext

\* The tree of a conversation has no cycle and hangs off archived rows, and a request
\* that no other one disturbed relies on a path that is still there.
THEOREM ConversationInvariant == ConvSpec => [](TreeInv /\ RequestInv)
  <1>1. ConvInit => TreeInv /\ RequestInv
    BY ConversationBegins
  <1>2. TreeInv /\ RequestInv /\ [ConvNext]_convVars => (TreeInv /\ RequestInv)'
    BY ConversationStep
  <1> QED  BY <1>1, <1>2, PTL DEF ConvSpec

\* An answer is shown whole, right after its question and before the next one:
\* AnswersInPlace holds in every state, whatever posts, edits, failures and flushes did.
THEOREM AnswersStayInPlace == ConvSpec => []AnswersInPlace
  <1>1. TreeInv => AnswersInPlace
    BY TreeShowsInPlace
  <1> QED  BY <1>1, ConversationInvariant, PTL

-----------------------------------------------------------------------------
(* What was written is shown                                               *)

\* Only client c's own commit and its write of the branch count as written.
LEMMA OthersWriteNothing ==
    ASSUME RequestInv, NEW c \in Clients, NEW d \in Clients, c # d, NEW next,
           \/ op' = [op EXCEPT ![d] = next]
           \/ op' = Disturbed(d, [op EXCEPT ![d] = next])
    PROVE  ~Written(c)
  <1> SUFFICES ASSUME op[c] # Idle
               PROVE  op'[c] # Idle /\ op'[c].step = op[c].step
    BY DEF Written
  <1>1. op \in [Clients -> Requests] /\ op[c] \in Post \cup Change
    BY RequestFacts DEF Requests
  <1>2. op'[c] = op[c] \/ op'[c] = [op[c] EXCEPT !.alone = FALSE]
    <2>1. [op EXCEPT ![d] = next][c] = op[c]
      BY <1>1
    <2> QED  BY <1>1, <2>1 DEF Disturbed
  <1>3. CASE op[c] \in Post
    <2>1. op'[c] \in Post /\ op'[c].step = op[c].step
      BY <1>2, <1>3 DEF Post
    <2> QED  BY <2>1, Kinds
  <1>4. CASE op[c] \in Change
    <2>1. op'[c] \in Change /\ op'[c].step = op[c].step
      BY <1>2, <1>4 DEF Change
    <2> QED  BY <2>1, Kinds
  <1> QED  BY <1>1, <1>3, <1>4

\* A request has written when it has committed a post or written the branch.
LEMMA WhatWrites ==
    ASSUME RequestInv, NEW c \in Clients, Written(c), [ConvNext]_convVars
    PROVE  CommitPost(c) \/ WriteBranch(c)
  <1>1. op[c] # Idle /\ op[c].step \in {"commit", "write"} /\ failed' = failed
        /\ ~(op'[c] = op[c])
    BY DEF Written
  <1>2. ~(op' = op)
    BY <1>1
  <1>3. \A d \in Clients : \A next :
          \/ op' = [op EXCEPT ![d] = next]
          \/ op' = Disturbed(d, [op EXCEPT ![d] = next])
          => d = c
    BY OthersWriteNothing
  <1>4. PICK d \in Clients :
          \/ BeginPost(d)
          \/ ReadTree(d)
          \/ CommitPost(d)
          \/ \E j \in Committed : Edit(d, j)
          \/ Switch(d)
          \/ ReadBranch(d)
          \/ WriteBranch(d)
          \/ PublishPost(d)
          \/ PublishEdit(d)
          \/ FailRequest(d)
    BY <1>2 DEF ConvNext, convVars, EmitRecord, ArchiveRecords
  <1>5. d = c
    BY <1>3, <1>4 DEF BeginPost, ReadTree, CommitPost, Edit, Switch, ReadBranch, WriteBranch,
                     PublishPost, PublishEdit, SendJob, FailRequest, Continue, Write
  <1>6. ~BeginPost(c) /\ ~ReadTree(c) /\ ~ReadBranch(c) /\ ~PublishPost(c) /\ ~PublishEdit(c)
    BY <1>1 DEF BeginPost, ReadTree, ReadBranch, PublishPost, PublishEdit, SendJob
  <1>7. (\A j \in Committed : ~Edit(c, j)) /\ ~Switch(c)
    BY <1>1 DEF Edit, Switch
  <1>8. ~FailRequest(c)
    <2>1. failed + 1 # failed
      BY RequestFacts
    <2> QED  BY <1>1, <2>1 DEF FailRequest
  <1> QED  BY <1>4, <1>5, <1>6, <1>7, <1>8

\* A post that was not disturbed is shown once it is committed.
LEMMA PostShown ==
    ASSUME TreeInv, RequestInv, TreeInv', NEW c \in Clients, CommitPost(c), op[c].alone
    PROVE  <<op[c].job, 0>> \in Range(Shown')
  <1>1. PICK j \in DOMAIN jobs :
          /\ j = op[c].job /\ ~jobs[j].committed /\ jobs[j].parent \in Parents
          /\ Committed' = Committed \cup {j}
          /\ \A i \in DOMAIN jobs : jobs'[i].parent = jobs[i].parent
    BY CommitPostRow
  <1>2. PICK p : p = jobs[j].parent
    OBVIOUS
  <1>3. PICK k : k = p[1]
    OBVIOUS
  <1>4. k \in Path /\ Children(k) = {}
    <2>1. op[c].kind = "post" /\ op[c].step = "commit" /\ PostOk(c)
      BY RequestFacts DEF CommitPost
    <2> QED  BY <1>1, <1>2, <1>3, <2>1 DEF PostOk
  <1>5. branch' = branch
    BY DEF CommitPost
  <1>6. \A i \in Committed : i \in DOMAIN jobs
    BY DEF Committed
  <1>7. ASSUME NEW l, l # k
        PROVE  Children(l)' = Children(l)
    BY <1>1, <1>2, <1>3, <1>6, <1>7 DEF Children
  <1>8. Children(k)' = {j}
    BY <1>1, <1>2, <1>3, <1>4, <1>6 DEF Children
  <1>9. \A l \in {0} \cup Committed : l # k => \A i : Picked(l, i) => Picked(l, i)'
    <2> SUFFICES ASSUME NEW l \in {0} \cup Committed, l # k, NEW i, Picked(l, i)
                 PROVE  Picked(l, i)'
      OBVIOUS
    <2>1. \A f \in Children(l) : jobs'[f].parent = jobs[f].parent
      BY <1>1, <1>6 DEF Children
    <2> QED  BY <1>5, <1>7, <2>1, PickStays
  <1>10. k \in Path'
    BY <1>1, <1>4, <1>9, PathKept
  <1>11. PathProps'
    BY TreePathsNext
  <1>12. PICK i \in Path' : Picked(k, i)'
    BY <1>8, <1>10, <1>11 DEF PathProps
  <1>13. i = j
    BY <1>8, <1>12 DEF Picked
  <1>14. HasTree'
    <2>1. p # Root
      BY <1>1, <1>2, CommittedFacts
    <2>2. j \in Committed' /\ jobs'[j].parent = p
      BY <1>1, <1>2
    <2> QED  BY <2>1, <2>2 DEF HasTree, Root
  <1> QED  BY <1>1, <1>11, <1>12, <1>13, <1>14 DEF PathProps

\* An entry that was written undisturbed is followed, unless siblings are mixed.
LEMMA BranchShown ==
    ASSUME TreeInv, RequestInv, TreeInv', NEW c \in Clients, WriteBranch(c), op[c].alone,
           ~Mixed'
    PROVE  op[c].target \in Range(Shown')
  <1>1. /\ op[c].kind \in {"edit", "switch"} /\ op[c].step = "write" /\ jobs' = jobs
        /\ branch' = WithEntry(op[c].map, op[c].key, op[c].target)
    BY DEF WriteBranch
  <1>2. PICK key : key = op[c].key
    OBVIOUS
  <1>3. PICK k : k = key[1]
    OBVIOUS
  <1>4. /\ k \in Path
        /\ \E t \in Children(k) : op[c].target = <<t, 0>>
        /\ \E i \in Children(k) : jobs[i].parent = key
        /\ op[c].map = branch
    <2>1. ChangeOk(c)
      BY <1>1, RequestFacts
    <2> QED  BY <1>1, <1>2, <1>3, <2>1 DEF ChangeOk
  <1>5. PICK t : t \in Children(k) /\ op[c].target = <<t, 0>>
    BY <1>4
  <1>6. PICK i : i \in Children(k) /\ jobs[i].parent = key
    BY <1>4
  <1>7. branch' = [m \in DOMAIN branch \cup {key} |-> IF m = key THEN <<t, 0>> ELSE branch[m]]
    BY <1>1, <1>2, <1>4, <1>5 DEF WithEntry
  <1>8. Committed' = Committed /\ \A l : Children(l)' = Children(l)
    BY <1>1 DEF Committed, Children
  <1>9. \A l \in {0} \cup Committed : l # k => \A j : Picked(l, j) => Picked(l, j)'
    <2> SUFFICES ASSUME NEW l \in {0} \cup Committed, l # k, NEW j, Picked(l, j)
                 PROVE  Picked(l, j)'
      OBVIOUS
    <2>1. \A f \in Children(l) : jobs[f].parent # key
      BY <1>3 DEF Children
    <2>2. \A f \in Children(l) :
            /\ jobs'[f].parent = jobs[f].parent
            /\ jobs[f].parent \in DOMAIN branch' <=> jobs[f].parent \in DOMAIN branch
      BY <1>1, <1>7, <2>1
    <2>3. \A f \in Children(l) : jobs[f].parent \in DOMAIN branch =>
            branch'[jobs[f].parent] = branch[jobs[f].parent]
      BY <1>7, <2>1
    <2> QED  BY <1>8, <2>2, <2>3, PickStays
  <1>10. k \in Path'
    BY <1>4, <1>8, <1>9, PathKept
  <1>11. PathProps'
    BY TreePathsNext
  <1>12. PICK j \in Path' : Picked(k, j)'
    BY <1>5, <1>8, <1>10, <1>11 DEF PathProps
  <1>13. key # Root
    <2>1. k # 0
      BY <1>4, CommittedFacts DEF Path
    <2> QED  BY <1>3, <2>1 DEF Root
  <1>14. \A f \in Children(k) : jobs'[f].parent = key
    <2>1. \A a, b \in Children(k)' : jobs'[a].parent = jobs'[b].parent
      BY <1>10, <1>11 DEF PathProps
    <2> QED  BY <1>1, <1>6, <1>8, <2>1
  <1>15. Marked(key, t)'
    BY <1>7, <1>13 DEF Marked, Root
  <1>16. Marked(key, j)'
    <2>1. PICK f \in Children(k)' :
            IF \E a \in Children(k)' : Marked(jobs[f].parent, a)'
            THEN Marked(jobs[f].parent, j)'
            ELSE \A a \in Children(k)' : a = j \/ Before(a, j)'
      BY <1>12 DEF Picked
    <2>2. \A a : Marked(jobs[f].parent, a)' <=> Marked(key, a)'
      BY <1>8, <1>14 DEF Marked
    <2> QED  BY <1>5, <1>8, <1>15, <2>1, <2>2
  <1>17. <<t, 0>> = <<j, 0>>
    BY <1>15, <1>16 DEF Marked
  <1>18. HasTree'
    <2>1. i \in Committed' /\ jobs'[i].parent # Root
      BY <1>1, <1>6, <1>8, <1>13 DEF Children
    <2> QED  BY <2>1 DEF HasTree, Root
  <1> QED  BY <1>5, <1>11, <1>12, <1>17, <1>18 DEF PathProps

\* A request that no other one disturbed has its message or branch shown once it has
\* written (OwnWriteShown).
THEOREM OwnWritesAreShown == ConvSpec => OwnWriteShown
  <1>1. TreeInv /\ RequestInv /\ [ConvNext]_convVars =>
          [\A c \in Clients :
             Written(c) /\ op[c].alone /\ ~Mixed' => Target(op[c]) \in Range(Shown')]_convVars
    <2> SUFFICES ASSUME TreeInv, RequestInv, [ConvNext]_convVars, NEW c \in Clients,
                        Written(c), op[c].alone, ~Mixed'
                 PROVE  Target(op[c]) \in Range(Shown')
      OBVIOUS
    <2>1. TreeInv'
      BY ConversationStep
    <2>2. CommitPost(c) \/ WriteBranch(c)
      BY WhatWrites
    <2>3. CASE CommitPost(c)
      <3>1. op[c].kind = "post"
        BY <2>3 DEF CommitPost
      <3> QED  BY <2>1, <2>3, <3>1, PostShown DEF Target
    <2>4. CASE WriteBranch(c)
      <3>1. op[c].kind # "post"
        BY <2>4 DEF WriteBranch
      <3> QED  BY <2>1, <2>4, <3>1, BranchShown DEF Target
    <2> QED  BY <2>2, <2>3, <2>4
  <1> QED  BY <1>1, ConversationInvariant, PTL DEF ConvSpec, OwnWriteShown

-----------------------------------------------------------------------------
(* The questions on the branch, in their order                             *)

\* From job k down, each question is the one picked below the one before.
Chain(s, k) ==
    /\ Children(k) = {} => Len(s) = 0
    /\ Children(k) # {} => Len(s) >= 1 /\ \E j : Picked(k, j) /\ s[1] = <<j, 0>>
    /\ \A i \in 1..Len(s) :
         /\ Children(s[i][1]) = {} => i = Len(s)
         /\ Children(s[i][1]) # {} =>
                i < Len(s) /\ \E j : Picked(s[i][1], j) /\ s[i + 1] = <<j, 0>>

\* A job and a number.
Spots == Nat \X Nat

\* Asked, with its definition unfolded once.
AskedOnce(asked, path) ==
    IF path = <<>> THEN <<>>
    ELSE (IF path[1][2] = 0 THEN <<path[1]>> ELSE <<>>) \o asked[Tail(path)]

\* Asked is what its definition says.
LEMMA AskedUnfolds ==
    \A path \in Seq(Spots) : Asked[path] = AskedOnce(Asked, path)
  <1> DEFINE D == Seq(Spots)
             size == [p \in D |-> Len(p)]
             step == [f \in [D -> D] |-> [p \in D |-> AskedOnce(f, p)]]
  <1>1. ASSUME NEW p \in D, p # <<>>
        PROVE  /\ Tail(p) \in D /\ Len(Tail(p)) < Len(p) /\ p[1] \in Spots
    <2>1. Tail(p) \in D /\ Len(Tail(p)) = Len(p) - 1 /\ Len(p) \in Nat /\ Len(p) # 0
      BY <1>1, HeadTailProperties, LenProperties, EmptySeq
    <2>2. 1 \in 1..Len(p)
      BY <2>1
    <2>3. p[1] \in Spots
      BY <2>2, ElementOfSeq
    <2> QED  BY <2>1, <2>3
  <1>2. \A f \in [D -> D], p \in D : AskedOnce(f, p) \in D
    <2> SUFFICES ASSUME NEW f \in [D -> D], NEW p \in D
                 PROVE  AskedOnce(f, p) \in D
      OBVIOUS
    <2>1. CASE p = <<>>
      BY <2>1, EmptySeq DEF AskedOnce
    <2>2. CASE p # <<>>
      <3> DEFINE h == IF p[1][2] = 0 THEN <<p[1]>> ELSE <<>>
      <3>1. h \in D
        <4>1. <<p[1]>> \in D /\ <<>> \in D
          BY <1>1, <2>2, EmptySeq
        <4> QED  BY <4>1
      <3>2. f[Tail(p)] \in D
        BY <1>1, <2>2
      <3>3. AskedOnce(f, p) = h \o f[Tail(p)]
        BY <2>2 DEF AskedOnce
      <3> HIDE DEF h
      <3> QED  BY <3>1, <3>2, <3>3, ConcatProperties
    <2> QED  BY <2>1, <2>2
  <1>3. step \in [[D -> D] -> [D -> D]]
    BY <1>2
  <1>4. ASSUME NEW f \in [D -> D], NEW g \in [D -> D], NEW p \in D,
               \A q \in D : size[q] < size[p] => f[q] = g[q]
        PROVE  step[f][p] = step[g][p]
    <2>1. step[f][p] = AskedOnce(f, p) /\ step[g][p] = AskedOnce(g, p)
      OBVIOUS
    <2>2. CASE p = <<>>
      BY <2>1, <2>2 DEF AskedOnce
    <2>3. CASE p # <<>>
      <3>1. Tail(p) \in D /\ size[Tail(p)] < size[p]
        BY <1>1, <2>3
      <3>2. f[Tail(p)] = g[Tail(p)]
        BY <1>4, <3>1
      <3> QED  BY <2>1, <2>3, <3>2 DEF AskedOnce
    <2> QED  BY <2>2, <2>3
  <1>5. \A p \in D : size[p] \in Nat
    BY LenProperties
  <1>6. \E f \in [D -> D] : f = step[f]
    <2>1. D # {}
      BY EmptySeq
    <2> HIDE DEF step, size, D
    <2>2. Descends(D, [D -> D], size, step)
      BY <1>3, <1>4, <1>5 DEF Descends
    <2> QED  BY ONLY <2>1, <2>2, RecursionSolved
  <1>7. PICK f \in [D -> D] : f = [p \in D |-> AskedOnce(f, p)]
    BY <1>6
  <1>8. Asked = [p \in D |-> AskedOnce(Asked, p)]
    BY <1>7 DEF Asked, AskedOnce, Spots
  <1> DEFINE a == Asked
  <1> HIDE DEF a
  <1>9. a = [p \in D |-> AskedOnce(a, p)]
    BY <1>8 DEF a
  <1>10. \A p \in D : a[p] = AskedOnce(a, p)
    BY <1>9
  <1> QED  BY <1>10 DEF a

\* A shown message is asked when it is a question.
LEMMA AskedShown ==
    ASSUME TreeInv, NEW h \in ShownAt, NEW t \in Seq(ShownAt)
    PROVE  Asked[MessagesOf(<<h>> \o t)] =
             (IF h.message[2] = 0 THEN <<h.message>> ELSE <<>>) \o Asked[MessagesOf(t)]
  <1> DEFINE s == <<h>> \o t
             p == MessagesOf(s)
             q == MessagesOf(t)
  <1>1. \A r \in Seq(ShownAt) :
          /\ MessagesOf(r) \in Seq(Spots) /\ Len(MessagesOf(r)) = Len(r)
          /\ \A i \in 1..Len(r) : MessagesOf(r)[i] = r[i].message
    <2> SUFFICES ASSUME NEW r \in Seq(ShownAt)
                 PROVE  /\ MessagesOf(r) \in Seq(Spots) /\ Len(MessagesOf(r)) = Len(r)
                        /\ \A i \in 1..Len(r) : MessagesOf(r)[i] = r[i].message
      OBVIOUS
    <2>1. /\ Len(r) \in Nat /\ DOMAIN r = 1..Len(r)
          /\ \A i \in 1..Len(r) : r[i] \in ShownAt
      BY LenProperties
    <2>2. \A i \in 1..Len(r) : r[i].message \in Spots
      BY <2>1, CommittedFacts DEF ShownAt, Spots
    <2>3. MessagesOf(r) = [i \in 1..Len(r) |-> r[i].message]
      BY <2>1 DEF MessagesOf
    <2> QED  BY <2>1, <2>2, <2>3
  <1>2. /\ s \in Seq(ShownAt) /\ Len(t) \in Nat /\ Len(s) = 1 + Len(t)
        /\ s[1] = h /\ \A i \in 1..Len(t) : s[i + 1] = t[i]
    <2>1. <<h>> \in Seq(ShownAt) /\ Len(<<h>>) = 1 /\ <<h>>[1] = h /\ Len(t) \in Nat
      BY LenProperties
    <2>2. /\ s \in Seq(ShownAt) /\ Len(s) = Len(<<h>>) + Len(t)
          /\ \A i \in 1..(Len(<<h>>) + Len(t)) :
               s[i] = IF i <= Len(<<h>>) THEN <<h>>[i] ELSE t[i - Len(<<h>>)]
      BY <2>1, ConcatProperties
    <2> HIDE DEF s
    <2>3. s[1] = h
      BY <2>1, <2>2
    <2>4. ASSUME NEW i \in 1..Len(t)
          PROVE  s[i + 1] = t[i]
      <3>1. i + 1 \in 1..(1 + Len(t)) /\ ~(i + 1 <= 1) /\ (i + 1) - 1 = i
        BY <2>1
      <3> QED  BY <2>1, <2>2, <3>1
    <2> QED  BY <2>1, <2>2, <2>3, <2>4
  <1> HIDE DEF s
  <1>3. /\ p \in Seq(Spots) /\ Len(p) = Len(t) + 1 /\ p[1] = h.message
        /\ q \in Seq(Spots) /\ Len(q) = Len(t) /\ p # <<>>
        /\ \A i \in 1..Len(t) : p[i + 1] = q[i]
    <2>1. p \in Seq(Spots) /\ Len(p) = Len(s) /\ \A i \in 1..Len(s) : p[i] = s[i].message
      BY <1>1, <1>2
    <2>2. q \in Seq(Spots) /\ Len(q) = Len(t) /\ \A i \in 1..Len(t) : q[i] = t[i].message
      BY <1>1
    <2>3. 1 \in 1..Len(s) /\ \A i \in 1..Len(t) : i + 1 \in 1..Len(s)
      BY <1>2
    <2>4. p # <<>>
      BY <2>1, <2>3
    <2> HIDE DEF p, q
    <2> QED  BY <1>2, <2>1, <2>2, <2>3, <2>4
  <1> HIDE DEF p, q
  <1>4. Tail(p) = q
    <2>1. Tail(p) \in Seq(Spots) /\ Len(Tail(p)) = Len(t)
          /\ \A i \in 1..Len(Tail(p)) : Tail(p)[i] = p[i + 1]
      BY <1>2, <1>3, HeadTailProperties
    <2>2. \A i \in 1..Len(t) : Tail(p)[i] = q[i]
      BY <1>3, <2>1
    <2> QED  BY <1>3, <2>1, <2>2, SeqEqual
  <1>5. Asked[p] = (IF p[1][2] = 0 THEN <<p[1]>> ELSE <<>>) \o Asked[Tail(p)]
    BY <1>3, AskedUnfolds DEF AskedOnce
  <1> QED  BY <1>3, <1>4, <1>5 DEF p, q, s

\* A question picked below k, in front of a chain below it, makes a chain below k.
LEMMA ChainGrows ==
    ASSUME NEW k, NEW j, NEW t \in Seq(Spots), Picked(k, j), j \in Nat, Chain(t, j)
    PROVE  <<<<j, 0>>>> \o t \in Seq(Spots) /\ Chain(<<<<j, 0>>>> \o t, k)
  <1> DEFINE h == <<<<j, 0>>>>
             s == h \o t
  <1>1. h \in Seq(Spots) /\ Len(h) = 1 /\ h[1] = <<j, 0>> /\ Len(t) \in Nat
    BY LenProperties DEF Spots
  <1>2. /\ s \in Seq(Spots) /\ Len(s) = 1 + Len(t)
        /\ \A i \in 1..(1 + Len(t)) : s[i] = IF i <= 1 THEN h[i] ELSE t[i - 1]
    <2>1. /\ s \in Seq(Spots) /\ Len(s) = Len(h) + Len(t)
          /\ \A i \in 1..(Len(h) + Len(t)) : s[i] = IF i <= Len(h) THEN h[i] ELSE t[i - Len(h)]
      BY <1>1, ConcatProperties
    <2> QED  BY <1>1, <2>1
  <1> HIDE DEF s, h
  <1>3. s[1] = <<j, 0>> /\ 1 \in 1..Len(s)
    BY <1>1, <1>2
  <1>4. \A i \in 1..Len(s) : i = 1 \/ (i - 1 \in 1..Len(t) /\ s[i] = t[i - 1])
    BY <1>1, <1>2
  <1>5. \A i \in 1..Len(t) : i + 1 \in 1..Len(s) /\ s[i + 1] = t[i]
    <2> SUFFICES ASSUME NEW i \in 1..Len(t)
                 PROVE  i + 1 \in 1..Len(s) /\ s[i + 1] = t[i]
      OBVIOUS
    <2>1. i + 1 \in 1..(1 + Len(t)) /\ ~(i + 1 <= 1) /\ (i + 1) - 1 = i
      BY <1>1
    <2> QED  BY <1>2, <2>1
  <1>6. Children(k) # {}
    BY DEF Picked
  <1>7. ASSUME NEW i \in 1..Len(s)
        PROVE  /\ Children(s[i][1]) = {} => i = Len(s)
               /\ Children(s[i][1]) # {} =>
                      i < Len(s) /\ \E l : Picked(s[i][1], l) /\ s[i + 1] = <<l, 0>>
    <2>1. CASE i = 1
      <3>1. s[i][1] = j
        BY <1>3, <2>1
      <3>2. CASE Children(j) = {}
        <4>1. Len(t) = 0
          BY <3>2 DEF Chain
        <4> QED  BY <1>2, <2>1, <3>1, <3>2, <4>1
      <3>3. CASE Children(j) # {}
        <4>1. Len(t) >= 1 /\ \E l : Picked(j, l) /\ t[1] = <<l, 0>>
          BY <3>3 DEF Chain
        <4>2. 1 \in 1..Len(t) /\ i < Len(s)
          BY <1>1, <1>2, <2>1, <4>1
        <4>3. s[i + 1] = t[1]
          BY <1>5, <2>1, <4>2
        <4> QED  BY <3>1, <3>3, <4>1, <4>2, <4>3
      <3> QED  BY <3>2, <3>3
    <2>2. CASE i # 1
      <3>1. i - 1 \in 1..Len(t) /\ s[i] = t[i - 1]
        BY <1>4, <2>2
      <3>2. CASE Children(t[i - 1][1]) = {}
        <4>1. i - 1 = Len(t)
          BY <3>1, <3>2 DEF Chain
        <4>2. i = Len(s)
          BY <1>1, <1>2, <4>1
        <4> QED  BY <3>1, <3>2, <4>2
      <3>3. CASE Children(t[i - 1][1]) # {}
        <4>1. i - 1 < Len(t) /\ \E l : Picked(t[i - 1][1], l) /\ t[(i - 1) + 1] = <<l, 0>>
          BY <3>1, <3>3 DEF Chain
        <4>2. (i - 1) + 1 = i /\ i \in 1..Len(t) /\ i < Len(s)
          BY <1>1, <1>2, <3>1, <4>1
        <4>3. s[i + 1] = t[i]
          BY <1>5, <4>2
        <4> QED  BY <3>1, <3>3, <4>1, <4>2, <4>3
      <3> QED  BY <3>2, <3>3
    <2> QED  BY <2>1, <2>2
  <1>8. Len(s) >= 1
    BY <1>1, <1>2
  <1>9. Chain(s, k)
    BY <1>3, <1>6, <1>7, <1>8 DEF Chain
  <1> QED  BY <1>2, <1>9 DEF s, h

\* The questions of a walk are a chain below a job.
AskedAt(x, k) ==
    \E s \in Seq(Spots) : s = Asked[MessagesOf(Walk[x])] /\ Chain(s, k)

\* The questions a walk shows are a chain.
LEMMA WalkAsks ==
    ASSUME TreeInv, NEW x0 \in Ahead, NEW k0 \in Nat, Gathered(x0, k0)
    PROVE  AskedAt(x0, k0)
  <1> SUFFICES ASSUME ~AskedAt(x0, k0)
               PROVE  FALSE
    OBVIOUS
  <1>1. PICK size \in [Ahead -> Nat] : Shrinks(size)
    BY WalkShrinks
  <1> DEFINE T == {n \in Nat : \E y \in Ahead, l \in Nat :
                     size[y] = n /\ Gathered(y, l) /\ ~AskedAt(y, l)}
  <1>2. T \in SUBSET Nat /\ T # {}
    <2>1. size[x0] \in T
      OBVIOUS
    <2> QED  BY <2>1
  <1>3. PICK n \in T : \A l \in T : n <= l
    <2> HIDE DEF T
    <2> QED  BY <1>2, LeastOf
  <1>4. PICK x \in Ahead, k \in Nat : size[x] = n /\ Gathered(x, k) /\ ~AskedAt(x, k)
    OBVIOUS
  <1>5. ASSUME NEW y \in Ahead, NEW l \in Nat, size[y] < size[x], Gathered(y, l)
        PROVE  AskedAt(y, l)
    <2>1. size[y] \in Nat /\ n \in Nat
      OBVIOUS
    <2>2. ~(n <= size[y])
      BY <1>4, <1>5, <2>1
    <2> QED  BY <1>3, <1>5, <2>1, <2>2
  <1>6. \A y \in Ahead : Walk[y] \in Seq(ShownAt)
    BY WalkUnfolds
  <1> HIDE DEF T
  <1>7. CASE x.answer # None
    <2> DEFINE y == Past(x.answer, x.questions)
               h == [message |-> x.answer, among |-> {}]
    <2>1. /\ y \in Ahead /\ size[y] < size[x] /\ x.answer \in Messages
          /\ Walk[x] = <<h>> \o Walk[y]
      BY <1>1, <1>7, WalkStep, AheadFacts DEF Shrinks
    <2>2. Gathered(y, k)
      BY <1>4, <1>7, GatheredPast
    <2>3. PICK s \in Seq(Spots) : s = Asked[MessagesOf(Walk[y])] /\ Chain(s, k)
      BY <1>5, <2>1, <2>2 DEF AskedAt
    <2>4. x.answer[2] # 0
      <3>1. x.answer[2] > 0
        BY <1>4, <1>7 DEF Gathered
      <3>2. x.answer[2] \in Nat
        BY <2>1, CommittedFacts
      <3> QED  BY <3>1, <3>2
    <2>5. h \in ShownAt /\ h.message[2] # 0
      BY <2>1, <2>4 DEF ShownAt
    <2> HIDE DEF y, h
    <2>6. Asked[MessagesOf(Walk[x])] = <<>> \o s
      BY <1>6, <2>1, <2>3, <2>5, AskedShown
    <2>7. <<>> \o s = s
      BY ConcatEmptySeq
    <2> QED  BY <1>4, <2>3, <2>6, <2>7 DEF AskedAt
  <1>8. CASE x.answer = None
    <2> DEFINE q == x.questions
               m == Chosen(q)
               y == Under(m)
               h == [message |-> m, among |-> Range(q)]
    <2>1. Lists(q, Children(k))
      <3>1. Children(k) = {i \in Children(k) : x.answer = None \/ jobs[i].parent[2] < x.answer[2]}
        BY <1>8
      <3> QED  BY <1>4, <3>1 DEF Gathered
    <2>2. CASE q = <<>>
      <3>1. Walk[x] = <<>> /\ Children(k) = {}
        BY <1>8, <2>1, <2>2, WalkStep, PickFacts
      <3>2. MessagesOf(<<>>) = <<>>
        BY DEF MessagesOf
      <3>3. <<>> \in Seq(Spots)
        BY EmptySeq
      <3>4. Asked[<<>>] = <<>>
        BY <3>3, AskedUnfolds DEF AskedOnce
      <3>5. Chain(<<>>, k)
        BY <3>1 DEF Chain
      <3> QED  BY <1>4, <3>1, <3>2, <3>3, <3>4, <3>5 DEF AskedAt
    <2>3. CASE q # <<>>
      <3>0. /\ Children(k) # {} /\ Range(q) = Children(k)
            /\ \E j : Picked(k, j) /\ m = <<j, 0>>
        BY <2>1, <2>3, PickFacts
      <3>1. PICK j \in Children(k) : Picked(k, j) /\ m = <<j, 0>>
        BY <3>0 DEF Picked
      <3>2. j \in Committed /\ j \in Nat
        BY <3>1, ChildFacts
      <3>3. /\ y \in Ahead /\ size[y] < size[x] /\ m \in Messages
            /\ Walk[x] = <<h>> \o Walk[y]
        BY <1>1, <1>8, <2>3, WalkStep, AheadFacts DEF Shrinks
      <3>4. Gathered(y, j)
        BY <3>1, <3>2, GatheredUnder
      <3>5. PICK s \in Seq(Spots) : s = Asked[MessagesOf(Walk[y])] /\ Chain(s, j)
        BY <1>5, <3>2, <3>3, <3>4 DEF AskedAt
      <3>6. h \in ShownAt /\ h.message = <<j, 0>> /\ h.message[2] = 0
        <4>1. Range(q) \in SUBSET Committed
          BY <2>3, AheadFacts, ChosenFacts
        <4> QED  BY <3>1, <3>3, <4>1 DEF ShownAt
      <3> HIDE DEF y, m, q, h
      <3>7. Asked[MessagesOf(Walk[x])] = <<<<j, 0>>>> \o s
        BY <1>6, <3>3, <3>5, <3>6, AskedShown
      <3>8. <<<<j, 0>>>> \o s \in Seq(Spots) /\ Chain(<<<<j, 0>>>> \o s, k)
        BY <3>1, <3>2, <3>5, ChainGrows
      <3> QED  BY <1>4, <3>7, <3>8 DEF AskedAt
    <2> QED  BY <2>2, <2>3
  <1> QED  BY <1>7, <1>8

\* The questions of the branch that is walked are a chain from the root.
AskedBranch == \E s \in Seq(Spots) : s = Asked[MessagesOf(Walked)] /\ Chain(s, 0)

\* The questions of the branch that is walked are the chain from the root.
LEMMA BranchAsked == TreeInv => AskedBranch
  <1> SUFFICES ASSUME TreeInv
               PROVE  AskedBranch
    OBVIOUS
  <1>1. AskedAt(Start, 0)
    BY WalkedFacts, GatheredStart, WalkAsks
  <1> QED  BY <1>1, WalkedFacts DEF AskedAt, AskedBranch

\* And in the next state.
LEMMA BranchAskedNext == TreeInv' => AskedBranch'
  BY BranchAsked, PTL

\* Two chains from the root are the same while the picked questions are.
LEMMA SameChain ==
    ASSUME NEW a \in Seq(Spots), NEW b \in Seq(Spots), Chain(a, 0), Chain(b, 0)',
           \A k : Children(k)' = Children(k),
           \A k, j : Picked(k, j) => Picked(k, j)',
           \A k, i, j : Picked(k, i)' /\ Picked(k, j)' => i = j
    PROVE  a = b
  <1>1. Len(a) \in Nat /\ Len(b) \in Nat
    BY LenProperties
  <1>2. /\ Children(0) = {} => Len(a) = 0 /\ Len(b) = 0
        /\ Children(0) # {} => /\ Len(a) >= 1 /\ Len(b) >= 1
                               /\ a[1] = b[1]
    <2>1. Children(0) = {} => Len(a) = 0 /\ Len(b) = 0
      BY DEF Chain
    <2>2. ASSUME Children(0) # {}
          PROVE  Len(a) >= 1 /\ Len(b) >= 1 /\ a[1] = b[1]
      <3>1. Len(a) >= 1 /\ \E j : Picked(0, j) /\ a[1] = <<j, 0>>
        BY <2>2 DEF Chain
      <3>2. Len(b) >= 1 /\ \E j : Picked(0, j)' /\ b[1] = <<j, 0>>
        BY <2>2 DEF Chain
      <3> QED  BY <3>1, <3>2
    <2> QED  BY <2>1, <2>2
  <1>3. ASSUME NEW i \in 1..Len(a), i \in 1..Len(b), a[i] = b[i]
        PROVE  /\ i = Len(a) <=> i = Len(b)
               /\ i < Len(a) => a[i + 1] = b[i + 1]
    <2>1. CASE Children(a[i][1]) = {}
      <3>1. i = Len(a) /\ i = Len(b)
        <4>1. Children(b[i][1])' = {}
          BY <1>3, <2>1
        <4> QED  BY <1>3, <2>1, <4>1 DEF Chain
      <3> QED  BY <1>1, <3>1
    <2>2. CASE Children(a[i][1]) # {}
      <3>1. i < Len(a) /\ \E j : Picked(a[i][1], j) /\ a[i + 1] = <<j, 0>>
        BY <2>2 DEF Chain
      <3>2. i < Len(b) /\ \E j : Picked(b[i][1], j)' /\ b[i + 1] = <<j, 0>>
        <4>1. Children(b[i][1])' # {}
          BY <1>3, <2>2
        <4> QED  BY <1>3, <4>1 DEF Chain
      <3>3. a[i + 1] = b[i + 1]
        BY <1>3, <3>1, <3>2
      <3> QED  BY <1>1, <3>1, <3>2, <3>3
    <2> QED  BY <2>1, <2>2
  <1>4. \A i \in 1..Len(a) : i <= Len(b) /\ a[i] = b[i]
    <2> SUFFICES ASSUME NEW l \in 1..Len(a), ~(l <= Len(b) /\ a[l] = b[l])
                 PROVE  FALSE
      OBVIOUS
    <2> DEFINE T == {i \in 1..Len(a) : ~(i <= Len(b) /\ a[i] = b[i])}
    <2>1. PICK i \in T : \A n \in T : i <= n
      <3>1. T \in SUBSET Nat /\ l \in T
        OBVIOUS
      <3> HIDE DEF T
      <3> QED  BY <3>1, LeastOf
    <2>2. i \in 1..Len(a) /\ ~(i <= Len(b) /\ a[i] = b[i])
      OBVIOUS
    <2>3. i # 1
      BY <1>1, <1>2, <2>2
    <2>4. i - 1 \in 1..Len(a) /\ ~(i <= i - 1) /\ (i - 1) + 1 = i /\ i - 1 < Len(a)
      BY <1>1, <2>2, <2>3
    <2>5. i - 1 <= Len(b) /\ a[i - 1] = b[i - 1]
      BY <2>1, <2>4
    <2>6. i - 1 \in 1..Len(b)
      BY <1>1, <2>4, <2>5
    <2>7. i - 1 # Len(b) /\ a[i] = b[i]
      BY <1>1, <1>3, <2>4, <2>5, <2>6
    <2>8. i <= Len(b)
      BY <1>1, <2>2, <2>5, <2>7
    <2> QED  BY <2>2, <2>7, <2>8
  <1>5. Len(a) = Len(b)
    <2>1. CASE Len(a) = 0
      BY <1>1, <1>2, <2>1
    <2>2. CASE Len(a) # 0
      <3>1. Len(a) \in 1..Len(a) /\ Len(a) \in 1..Len(b) /\ a[Len(a)] = b[Len(a)]
        BY <1>1, <1>4, <2>2
      <3> QED  BY <1>3, <3>1
    <2> QED  BY <2>1, <2>2
  <1> QED  BY <1>4, <1>5, SeqEqual

\* A request's own step sets what it does next.
LEMMA OpMoves ==
    ASSUME RequestInv, NEW c \in Clients, NEW next,
           \/ op' = [op EXCEPT ![c] = next]
           \/ op' = Disturbed(c, [op EXCEPT ![c] = next])
    PROVE  op'[c] = next
  <1>1. op \in [Clients -> Requests]
    BY RequestFacts
  <1> QED  BY <1>1 DEF Disturbed

\* Every step of a request changes what the request does next.
LEMMA OnlyAnswersAreQuiet ==
    ASSUME TreeInv, RequestInv, ConvNext, op' = op
    PROVE  Answered
  <1>1. ASSUME NEW c \in Clients
        PROVE  /\ ~BeginPost(c) /\ ~(\E j \in Committed : Edit(c, j)) /\ ~Switch(c)
    <2>1. ~BeginPost(c)
      <3> SUFFICES ASSUME BeginPost(c)
                   PROVE  FALSE
        OBVIOUS
      <3> DEFINE next == [kind |-> "post", step |-> "tree", alone |-> TRUE,
                          job |-> Len(jobs')]
      <3>1. op' = [op EXCEPT ![c] = next] /\ op[c] = Idle
        BY DEF BeginPost, Continue
      <3>2. next.kind = "post"
        OBVIOUS
      <3> HIDE DEF next
      <3>3. op[c] = next
        BY <3>1, OpMoves
      <3> QED  BY <3>1, <3>2, <3>3 DEF Idle
    <2>2. ~\E j \in Committed : Edit(c, j)
      <3> SUFFICES ASSUME NEW j \in Committed, Edit(c, j)
                   PROVE  FALSE
        OBVIOUS
      <3> DEFINE next == [kind |-> "edit",
                          step |-> IF jobs[j].parent = Root THEN "publish" ELSE "read",
                          alone |-> <<j, 0>> \in Range(Shown), job |-> Len(jobs'),
                          key |-> jobs[j].parent, target |-> <<Len(jobs'), 0>>,
                          map |-> NewConversation]
      <3>1. op' = Disturbed(c, [op EXCEPT ![c] = next]) /\ op[c] = Idle
        BY DEF Edit, Write
      <3>2. next.kind = "edit"
        OBVIOUS
      <3> HIDE DEF next
      <3>3. op[c] = next
        BY <3>1, OpMoves DEF Write
      <3> QED  BY <3>1, <3>2, <3>3 DEF Idle
    <2>3. ~Switch(c)
      BY OpMoves, Kinds DEF Switch, Continue
    <2> QED  BY <2>1, <2>2, <2>3
  <1>2. ASSUME NEW c \in Clients
        PROVE  ~ReadTree(c) /\ ~CommitPost(c)
    <2>1. op[c].kind = "post" => op[c] \in Post
      BY RequestFacts
    <2>2. ~ReadTree(c)
      <3> SUFFICES ASSUME ReadTree(c)
                   PROVE  FALSE
        OBVIOUS
      <3>1. op[c] = [op[c] EXCEPT !.step = "commit", !.alone = TRUE]
        BY OpMoves DEF ReadTree, Continue
      <3>2. op[c].step = "tree" /\ op[c] \in Post
        BY <2>1 DEF ReadTree
      <3> QED  BY <3>1, <3>2 DEF Post
    <2>3. ~CommitPost(c)
      <3> SUFFICES ASSUME CommitPost(c)
                   PROVE  FALSE
        OBVIOUS
      <3>1. op[c] = [op[c] EXCEPT !.step = "publish"]
        BY OpMoves DEF CommitPost, Write
      <3>2. op[c].step = "commit" /\ op[c] \in Post
        BY <2>1 DEF CommitPost
      <3> QED  BY <3>1, <3>2 DEF Post
    <2> QED  BY <2>2, <2>3
  <1>3. ASSUME NEW c \in Clients
        PROVE  ~ReadBranch(c) /\ ~WriteBranch(c)
    <2>1. op[c].kind \in {"edit", "switch"} => op[c] \in Change
      BY RequestFacts
    <2>2. ~ReadBranch(c)
      <3> SUFFICES ASSUME ReadBranch(c)
                   PROVE  FALSE
        OBVIOUS
      <3>1. op[c] = [op[c] EXCEPT !.step = "write", !.map = branch]
        BY OpMoves DEF ReadBranch, Continue
      <3>2. op[c].step = "read" /\ op[c] \in Change
        BY <2>1 DEF ReadBranch
      <3> QED  BY <3>1, <3>2 DEF Change
    <2>3. ~WriteBranch(c)
      <3> SUFFICES ASSUME WriteBranch(c)
                   PROVE  FALSE
        OBVIOUS
      <3>1. op[c] = IF op[c].kind = "switch" THEN Idle
                    ELSE [op[c] EXCEPT !.step = "publish", !.map = NewConversation]
        BY OpMoves DEF WriteBranch, Write
      <3>2. op[c].step = "write" /\ op[c] \in Change /\ op[c] # Idle
        BY <2>1, Kinds DEF WriteBranch
      <3>3. op[c] = [op[c] EXCEPT !.step = "publish", !.map = NewConversation]
        BY <3>1, <3>2
      <3> QED  BY <3>2, <3>3 DEF Change
    <2> QED  BY <2>2, <2>3
  <1>4. ASSUME NEW c \in Clients
        PROVE  ~PublishPost(c) /\ ~PublishEdit(c) /\ ~FailRequest(c)
    BY OpMoves, Kinds DEF PublishPost, PublishEdit, SendJob, FailRequest, Continue
  <1>5. \E j \in DOMAIN jobs : EmitRecord(j) \/ ArchiveRecords(j)
    BY <1>1, <1>2, <1>3, <1>4 DEF ConvNext
  <1> QED  BY <1>5, RecordsAnswer

\* A step that adds to an answer keeps the questions of the branch.
LEMMA BranchKept ==
    ASSUME TreeInv, RequestInv, Answered, HasTree
    PROVE  Asked[Shown'] = Asked[Shown]
  <1>1. Quietly /\ TreeInv' /\ RequestInv'
    BY AnsweredStep
  <1>2. /\ Committed' = Committed
        /\ \A k : Children(k)' = Children(k)
        /\ \A k, j : Picked(k, j) => Picked(k, j)'
    BY <1>1, QuietStep
  <1>3. \A k, i, j : Picked(k, i)' /\ Picked(k, j)' => i = j
    BY <1>1, TreePathsNext DEF PathProps
  <1>4. PICK a \in Seq(Spots) : a = Asked[MessagesOf(Walked)] /\ Chain(a, 0)
    BY BranchAsked DEF AskedBranch
  <1>5. PICK b \in Seq(Spots) : b = Asked[MessagesOf(Walked)]' /\ Chain(b, 0)'
    BY <1>1, BranchAskedNext DEF AskedBranch
  <1>6. a = b
    BY <1>2, <1>3, <1>4, <1>5, SameChain
  <1>7. HasTree'
    <2>1. PICK j \in Committed : jobs[j].parent # Root \/ jobs[j].archived > 0
      BY DEF HasTree
    <2>2. /\ jobs'[j].parent = jobs[j].parent /\ jobs[j].archived <= jobs'[j].archived
          /\ jobs[j].archived \in Nat /\ j \in Committed' /\ jobs'[j].archived \in Nat
      <3>1. /\ jobs'[j].parent = jobs[j].parent /\ jobs[j].archived <= jobs'[j].archived
            /\ jobs[j].archived \in Nat /\ j \in DOMAIN jobs
        BY <1>1, CommittedFacts DEF Quietly, Committed
      <3>2. jobs'[j] \in JobRow
        BY <1>1, <3>1, LenProperties DEF Quietly
      <3>3. jobs'[j].archived \in 0..MaxRecords
        BY <3>2 DEF JobRow
      <3> QED  BY <1>2, <3>1, <3>3, ConversationAssumption
    <2>3. jobs'[j].parent # Root \/ jobs'[j].archived > 0
      BY <2>1, <2>2
    <2> QED  BY <2>2, <2>3 DEF HasTree, Root
  <1>8. Shown = MessagesOf(Walked)
    BY DEF Shown
  <1>9. Shown' = MessagesOf(Walked)'
    BY <1>7 DEF Shown
  <1> QED  BY <1>4, <1>5, <1>6, <1>8, <1>9

\* The orchestrator and the archiver never move a client to another branch
\* (AnswersKeepBranch).
THEOREM AnswersKeepTheBranch == ConvSpec => AnswersKeepBranch
  <1>1. TreeInv /\ RequestInv /\ [ConvNext]_convVars =>
          [UNCHANGED op /\ HasTree => Asked[Shown'] = Asked[Shown]]_convVars
    BY OnlyAnswersAreQuiet, BranchKept
  <1> QED  BY <1>1, ConversationInvariant, PTL DEF ConvSpec, AnswersKeepBranch
=============================================================================
