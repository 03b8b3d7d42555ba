----------------------------- MODULE StateLock -----------------------------
(***************************************************************************)
(* DistributedStateLock: one Redis key per job, created with SET NX EX,    *)
(* dropped by Redis when its time to live is over, deleted by release      *)
(* whoever created it.  Time is counted in ticks.                          *)
(***************************************************************************)
EXTENDS Naturals, FiniteSets

CONSTANTS
    Jobs,       \* the jobs that may be locked
    Contenders, \* the handler invocations that compete for them
    None,       \* no job
    TTL,        \* job_lock_ttl_seconds, in ticks
    MaxHold,    \* bound: ticks a handler works after it acquired or extended
    MaxExtends, \* bound: calls of extend (no handler calls it)
    MaxExpiries \* bound: keys of one job that expire while somebody works on it

ASSUME LockAssumption ==
    /\ None \notin Jobs
    /\ TTL \in Nat \ {0}
    /\ MaxHold \in Nat
    /\ MaxExtends \in Nat
    /\ MaxExpiries \in Nat
    /\ IsFiniteSet(Contenders)

VARIABLES
    ttl,     \* ttl[j]: remaining time to live of lock:job:<j>, 0 if no key
    job,     \* job[h]: the job h believes it has locked, or None
    held,    \* held[h]: ticks since h acquired or extended its lock
    extends, \* number of successful extend calls
    expired  \* history: expired[j] keys of j expired while somebody worked on j

lockVars == <<ttl, job, held, extends, expired>>

LockTypeOK ==
    /\ ttl \in [Jobs -> 0..TTL]
    /\ job \in [Contenders -> Jobs \cup {None}]
    /\ held \in [Contenders -> 0..MaxHold]
    /\ extends \in 0..MaxExtends
    /\ expired \in [Jobs -> Nat]

LockInit ==
    /\ ttl = [j \in Jobs |-> 0]
    /\ job = [h \in Contenders |-> None]
    /\ held = [h \in Contenders |-> 0]
    /\ extends = 0
    /\ expired = [j \in Jobs |-> 0]

\* The handlers that believe they have locked j.
Holders(j) == {h \in Contenders : job[h] = j}

\* Mutant: SET without NX.
AcquireUnchecked(h, j) ==
    /\ job[h] = None
    /\ ttl' = [ttl EXCEPT ![j] = TTL]
    /\ job' = [job EXCEPT ![h] = j]
    /\ held' = [held EXCEPT ![h] = 0]
    /\ UNCHANGED <<extends, expired>>

\* acquire that returns True; when the key exists nothing changes and the
\* handler goes away.
Acquire(h, j) ==
    /\ job[h] = None
    /\ ttl[j] = 0
    /\ ttl' = [ttl EXCEPT ![j] = TTL]
    /\ job' = [job EXCEPT ![h] = j]
    /\ held' = [held EXCEPT ![h] = 0]
    /\ UNCHANGED <<extends, expired>>

\* release: DEL, without a look at the value.
Release(h) ==
    /\ job[h] # None
    /\ ttl' = [j \in Jobs |-> IF j = job[h] THEN 0 ELSE ttl[j]]
    /\ job' = [job EXCEPT ![h] = None]
    /\ held' = [held EXCEPT ![h] = 0]
    /\ UNCHANGED <<extends, expired>>

\* EXPIRE changes an existing key, whoever created it.
Extend(h, j) ==
    /\ job[h] = j
    /\ ttl[j] > 0
    /\ extends < MaxExtends
    /\ ttl' = [ttl EXCEPT ![j] = TTL]
    /\ held' = [held EXCEPT ![h] = 0]
    /\ extends' = extends + 1
    /\ UNCHANGED <<job, expired>>

\* Redis drops the keys whose time is over, whether or not somebody still works:
\* no handler calls extend.
Tick ==
    /\ \A h \in Contenders : job[h] # None => held[h] < MaxHold
    /\ ttl' = [j \in Jobs |-> IF ttl[j] > 0 THEN ttl[j] - 1 ELSE 0]
    /\ held' = [h \in Contenders |-> IF job[h] = None THEN 0 ELSE held[h] + 1]
    /\ expired' = [j \in Jobs |->
                     expired[j] + (IF ttl[j] = 1 /\ Holders(j) # {} THEN 1 ELSE 0)]
    /\ \A j \in Jobs : expired'[j] <= MaxExpiries
    /\ UNCHANGED <<job, extends>>

\* The process of h dies; its key stays until its time is over.
Die(h) ==
    /\ job[h] # None
    /\ job' = [job EXCEPT ![h] = None]
    /\ held' = [held EXCEPT ![h] = 0]
    /\ UNCHANGED <<ttl, extends, expired>>

LockNext ==
    \/ \E h \in Contenders : Release(h) \/ Die(h)
    \/ \E h \in Contenders, j \in Jobs : Acquire(h, j) \/ Extend(h, j)
    \/ Tick

LockSpec == LockInit /\ [][LockNext]_lockVars

-----------------------------------------------------------------------------
\* Every key that expires while somebody works on its job lets one more handler
\* in, and no more: release deletes a key of another holder, which lets a next one
\* in only as the releasing one leaves.  Without such an expiry at most one works.
Exclusion == \A j \in Jobs : Cardinality(Holders(j)) <= 1 + expired[j]

\* Until a key of its job expires under somebody, a holder's key is its own: its
\* remaining time and the time since the handler last acquired or extended it add
\* up to the TTL, so that it can neither be taken over nor deleted by another.
HolderHasKey ==
    \A h \in Contenders :
        job[h] # None /\ expired[job[h]] = 0
        => ttl[job[h]] > 0 /\ ttl[job[h]] + held[h] = TTL
=============================================================================
