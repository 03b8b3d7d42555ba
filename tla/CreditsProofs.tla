------------------------------ MODULE CreditsProofs ------------------------------
(***************************************************************************)
(* Proofs about subscriptions, their billing periods and their top-ups,    *)
(* for any tenants, plans, amounts and times.  What consume_credits takes  *)
(* from the top-ups is computed by recursion along their list; instead of  *)
(* an induction theorem, what is said of every place of the list is the    *)
(* set of places for which it holds, and Upward says that this is all.     *)
(***************************************************************************)
EXTENDS Credits, SequenceTheorems, WellFoundedInduction, TLAPS

\* A period has the plan's length and began in the past; without an overwritten
\* one, all the periods counted fit before its start.
PeriodInv ==
    \A t \in Tenants :
        /\ ~Subscribed(t) => renewals[t] = 0
        /\ Subscribed(t) =>
              /\ sub[t].end = sub[t].start + Cycle
              /\ sub[t].start <= now
              /\ t \notin overwritten => Cycle * renewals[t] <= sub[t].start

\* A status read has a row as it once was, whose period had ended by then.
ReadInv ==
    \A t \in Tenants : reading[t] # NoRow =>
        /\ Subscribed(t)
        /\ reading[t].row.end = reading[t].row.start + Cycle
        /\ reading[t].row.end <= reading[t].at
        /\ reading[t].at <= now

\* The lock is held on a row that has the credits the plan is to pay.
LockInv ==
    \A t \in Tenants : spending[t] # NoRow =>
        /\ Subscribed(t)
        /\ spending[t].fromPlan <= sub[t].credits
        /\ spending[t].fromPlan <= spending[t].amount

IInv == RowsOK /\ PeriodInv /\ ReadInv /\ LockInv

-----------------------------------------------------------------------------
\* What a renewal makes of a row: the period begins anew, or the row stays in it.
LEMMA RenewedRow ==
    ASSUME NEW row \in Subscription, NEW monthly \in Nat, NEW at \in Nat
    PROVE  /\ Renewed(row, monthly, at) \in Subscription
           /\ row.cancelAtEnd => /\ Renewed(row, monthly, at).start = row.start
                                 /\ Renewed(row, monthly, at).end = row.end
           /\ ~row.cancelAtEnd => /\ Renewed(row, monthly, at).start = at
                                  /\ Renewed(row, monthly, at).end = at + Cycle
  <1>1. at + Cycle \in Nat
    BY CreditsAssumption
  <1> QED  BY <1>1 DEF Renewed, Subscription, SubStatus

LEMMA OneMore ==
    ASSUME NEW n \in Nat
    PROVE  Cycle * (n + 1) = Cycle * n + Cycle /\ Cycle * n \in Nat
  BY CreditsAssumption

\* A step that changes one row at most, keeps its period or begins one now, and
\* is not counted.
LEMMA RowStep ==
    ASSUME IInv, NEW t \in Tenants, NEW row \in Subscription,
           Subscribed(t), Unlocked(t),
           sub' = [sub EXCEPT ![t] = row],
           \/ row.start = sub[t].start /\ row.end = sub[t].end
           \/ row.start = now /\ row.end = now + Cycle,
           UNCHANGED <<now, plan, spending, reading, history>>, requests' \in Nat
    PROVE  IInv'
  <1>1. /\ sub \in [Tenants -> Subscription \cup {NoRow}]
        /\ now \in Nat /\ sub[t] \in Subscription /\ Cycle \in Nat /\ NoRow \notin Subscription
    BY CreditsAssumption DEF IInv, RowsOK, Subscribed
  <1>2. /\ sub' \in [Tenants -> Subscription \cup {NoRow}]
        /\ sub'[t] = row /\ row # NoRow
        /\ \A u \in Tenants \ {t} : sub'[u] = sub[u]
    BY <1>1
  <1>3. RowsOK'
    BY <1>2 DEF IInv, RowsOK, history
  <1>4. PeriodInv'
    <2>1. SUFFICES ASSUME NEW u \in Tenants
                   PROVE  /\ sub'[u] = NoRow => renewals'[u] = 0
                          /\ sub'[u] # NoRow =>
                                /\ sub'[u].end = sub'[u].start + Cycle
                                /\ sub'[u].start <= now'
                                /\ u \notin overwritten' => Cycle * renewals'[u] <= sub'[u].start
      BY DEF PeriodInv, Subscribed
    <2>2. CASE u # t
      BY <1>2, <2>2 DEF IInv, PeriodInv, Subscribed, history
    <2>3. CASE u = t
      <3>1. /\ sub[t].end = sub[t].start + Cycle /\ sub[t].start <= now
            /\ t \notin overwritten => Cycle * renewals[t] <= sub[t].start
            /\ sub[t].start \in Nat /\ Cycle * renewals[t] \in Nat
        BY <1>1, OneMore DEF IInv, RowsOK, PeriodInv, Subscription
      <3> QED  BY <1>1, <1>2, <2>3, <3>1 DEF history
    <2> QED  BY <2>2, <2>3
  <1>5. ReadInv'
    BY <1>2 DEF IInv, ReadInv, Subscribed
  <1>6. LockInv'
    <2>1. ASSUME NEW u \in Tenants, spending'[u] # NoRow
          PROVE  u # t /\ sub'[u] = sub[u]
      BY <1>2, <2>1 DEF Unlocked
    <2> QED  BY <2>1 DEF IInv, LockInv, Subscribed
  <1> QED  BY <1>3, <1>4, <1>5, <1>6 DEF IInv

\* A step that leaves the subscriptions alone.
LEMMA OtherStep ==
    ASSUME IInv, UNCHANGED <<now, sub, spending, reading, history>>, requests' \in Nat,
           plan' \in [Plans -> Plan]
    PROVE  IInv'
  BY DEF IInv, RowsOK, PeriodInv, ReadInv, LockInv, Subscribed, history

LEMMA ChangePlanStep ==
    ASSUME IInv, NEW t \in Tenants, NEW p \in Plans, NEW prorate \in BOOLEAN,
           ChangePlan(t, p, prorate)
    PROVE  IInv'
  <1>1. sub \in [Tenants -> Subscription \cup {NoRow}] /\ sub[t] \in Subscription
          /\ plan[p].monthly \in Nat /\ requests' \in Nat
    BY DEF IInv, RowsOK, Subscribed, ChangePlan, Request, Plan
  <1> DEFINE credits == (IF prorate THEN sub[t].credits ELSE 0) + plan[p].monthly
             row == [sub[t] EXCEPT !.plan = p, !.credits = credits]
  <1>2. credits \in Nat
    BY <1>1 DEF Subscription
  <1>3. sub' = [sub EXCEPT ![t] = row]
    BY <1>1 DEF ChangePlan, Subscription
  <1> HIDE DEF credits
  <1>4. row \in Subscription /\ row.start = sub[t].start /\ row.end = sub[t].end
    BY <1>1, <1>2 DEF Subscription
  <1> HIDE DEF row
  <1> QED  BY <1>1, <1>3, <1>4, RowStep DEF ChangePlan

LEMMA CancelStep ==
    ASSUME IInv, NEW t \in Tenants, NEW atPeriodEnd \in BOOLEAN,
           CancelSubscription(t, atPeriodEnd)
    PROVE  IInv'
  <1>1. sub \in [Tenants -> Subscription \cup {NoRow}] /\ sub[t] \in Subscription
          /\ requests' \in Nat
    BY DEF IInv, RowsOK, Subscribed, CancelSubscription, Request
  <1> DEFINE row == IF atPeriodEnd THEN [sub[t] EXCEPT !.cancelAtEnd = TRUE]
                    ELSE [sub[t] EXCEPT !.status = "cancelled", !.credits = 0]
  <1>2. sub' = [sub EXCEPT ![t] = row]
    BY <1>1 DEF CancelSubscription
  <1>3. row \in Subscription /\ row.start = sub[t].start /\ row.end = sub[t].end
    BY <1>1 DEF Subscription, SubStatus
  <1> HIDE DEF row
  <1> QED  BY <1>1, <1>2, <1>3, RowStep DEF CancelSubscription

LEMMA ReactivateStep ==
    ASSUME IInv, NEW t \in Tenants, ReactivateSubscription(t)
    PROVE  IInv'
  <1>1. sub \in [Tenants -> Subscription \cup {NoRow}] /\ sub[t] \in Subscription
          /\ requests' \in Nat
    BY DEF IInv, RowsOK, Subscribed, ReactivateSubscription, Request
  <1> DEFINE row == [sub[t] EXCEPT !.status = "active", !.cancelAtEnd = FALSE]
  <1>2. sub' = [sub EXCEPT ![t] = row]
    BY <1>1 DEF ReactivateSubscription, Subscription
  <1>3. row \in Subscription /\ row.start = sub[t].start /\ row.end = sub[t].end
    BY <1>1 DEF Subscription, SubStatus
  <1> HIDE DEF row
  <1> QED  BY <1>1, <1>2, <1>3, RowStep DEF ReactivateSubscription

LEMMA ResetStep ==
    ASSUME IInv, NEW t \in Tenants, ResetSubscription(t)
    PROVE  IInv'
  <1>1. /\ sub \in [Tenants -> Subscription \cup {NoRow}] /\ sub[t] \in Subscription
        /\ requests' \in Nat /\ now \in Nat
    BY DEF IInv, RowsOK, Subscribed, ResetSubscription, Request
  <1>2. plan[sub[t].plan].monthly \in Nat
    BY <1>1 DEF IInv, RowsOK, Plan, Subscription
  <1> DEFINE row == Renewed(sub[t], plan[sub[t].plan].monthly, now)
  <1>3. sub' = [sub EXCEPT ![t] = row]
    BY <1>1 DEF ResetSubscription
  <1>4. /\ row \in Subscription
        /\ \/ row.start = sub[t].start /\ row.end = sub[t].end
           \/ row.start = now /\ row.end = now + Cycle
    <2>1. \A monthly \in Nat :
             LET r == Renewed(sub[t], monthly, now)
             IN  /\ r \in Subscription
                 /\ \/ r.start = sub[t].start /\ r.end = sub[t].end
                    \/ r.start = now /\ r.end = now + Cycle
      <3> DEFINE old == sub[t]
      <3>1. old \in Subscription /\ now \in Nat /\ old.cancelAtEnd \in BOOLEAN
        BY <1>1 DEF Subscription
      <3> HIDE DEF old
      <3>2. ASSUME NEW monthly \in Nat
            PROVE  LET r == Renewed(old, monthly, now)
                   IN  /\ r \in Subscription
                       /\ \/ r.start = old.start /\ r.end = old.end
                          \/ r.start = now /\ r.end = now + Cycle
        BY <3>1, RenewedRow
      <3> QED  BY <3>2 DEF old
    <2> QED  BY <1>2, <2>1
  <1> HIDE DEF row
  <1> QED  BY <1>1, <1>3, <1>4, RowStep DEF ResetSubscription

LEMMA CreateStep ==
    ASSUME IInv, NEW t \in Tenants, NEW p \in Plans, NEW days \in Nat,
           CreateSubscription(t, p, days)
    PROVE  IInv'
  <1>1. /\ sub \in [Tenants -> Subscription \cup {NoRow}] /\ now \in Nat /\ Cycle \in Nat
        /\ plan[p].monthly \in Nat /\ sub[t] = NoRow /\ NoRow \notin Subscription
        /\ UNCHANGED <<now, plan, topups, spending, reading, requests, recorded, renewals,
                       overwritten>>
    BY CreditsAssumption
       DEF IInv, RowsOK, Subscribed, CreateSubscription, Plan, history
  <1> DEFINE row == [plan |-> p, status |-> IF days > 0 THEN "trial" ELSE "active",
                     start |-> now, end |-> now + Cycle, credits |-> plan[p].monthly,
                     trialEnds |-> now + days, cancelAtEnd |-> FALSE]
  <1>2. sub' = [sub EXCEPT ![t] = row]
    BY DEF CreateSubscription
  <1>3. row \in Subscription /\ row.start = now /\ row.end = now + Cycle
    BY <1>1 DEF Subscription, SubStatus
  <1> HIDE DEF row
  <1>4. /\ sub' \in [Tenants -> Subscription \cup {NoRow}]
        /\ sub'[t] = row /\ row # NoRow
        /\ \A u \in Tenants \ {t} : sub'[u] = sub[u]
    BY <1>1, <1>2, <1>3
  <1>5. RowsOK'
    BY <1>1, <1>4 DEF IInv, RowsOK
  <1>6. renewals[t] = 0 /\ Cycle * renewals[t] = 0
    BY <1>1 DEF IInv, PeriodInv, Subscribed
  <1>7. PeriodInv'
    <2>1. SUFFICES ASSUME NEW u \in Tenants
                   PROVE  /\ sub'[u] = NoRow => renewals'[u] = 0
                          /\ sub'[u] # NoRow =>
                                /\ sub'[u].end = sub'[u].start + Cycle
                                /\ sub'[u].start <= now'
                                /\ u \notin overwritten' => Cycle * renewals'[u] <= sub'[u].start
      BY DEF PeriodInv, Subscribed
    <2>2. CASE u # t
      BY <1>1, <1>4, <2>2 DEF IInv, PeriodInv, Subscribed
    <2>3. CASE u = t
      BY <1>1, <1>3, <1>4, <1>6, <2>3
    <2> QED  BY <2>2, <2>3
  <1>8. ReadInv'
    BY <1>1, <1>4 DEF IInv, ReadInv, Subscribed
  <1>9. LockInv'
    <2>1. ASSUME NEW u \in Tenants, spending'[u] # NoRow
          PROVE  u # t /\ sub'[u] = sub[u]
      BY <1>1, <1>4, <2>1 DEF IInv, LockInv, Subscribed
    <2> QED  BY <1>1, <2>1 DEF IInv, LockInv, Subscribed
  <1> QED  BY <1>5, <1>7, <1>8, <1>9 DEF IInv

\* A renewed period: the one before it has ended, so there is room for it.
LEMMA RenewalStep ==
    ASSUME IInv, NEW t \in Tenants, Subscribed(t), Unlocked(t), NEW row \in Subscription,
           sub' = [sub EXCEPT ![t] = row],
           NEW cancel \in BOOLEAN,
           renewals' = [renewals EXCEPT ![t] = IF cancel THEN @ ELSE @ + 1],
           cancel => row.start = sub[t].start /\ row.end = sub[t].end,
           ~cancel => /\ row.end = row.start + Cycle /\ row.start <= now
                      /\ t \notin overwritten' => sub[t].end <= row.start,
           overwritten \subseteq overwritten', overwritten' \subseteq overwritten \cup {t},
           \/ reading' = reading
           \/ reading' = [reading EXCEPT ![t] = NoRow],
           UNCHANGED <<now, plan, spending, requests, recorded>>
    PROVE  IInv'
  <1>1. /\ sub \in [Tenants -> Subscription \cup {NoRow}]
        /\ renewals \in [Tenants -> Nat] /\ overwritten \subseteq Tenants
        /\ now \in Nat /\ sub[t] \in Subscription /\ Cycle \in Nat /\ NoRow \notin Subscription
    BY CreditsAssumption DEF IInv, RowsOK, Subscribed
  <1>2. /\ sub' \in [Tenants -> Subscription \cup {NoRow}]
        /\ sub'[t] = row /\ row # NoRow
        /\ \A u \in Tenants \ {t} : sub'[u] = sub[u] /\ renewals'[u] = renewals[u]
        /\ renewals' \in [Tenants -> Nat]
        /\ renewals'[t] = IF cancel THEN renewals[t] ELSE renewals[t] + 1
    BY <1>1
  <1>3. \A u \in Tenants : reading'[u] # NoRow => reading'[u] = reading[u]
    BY DEF IInv, RowsOK
  <1>4. RowsOK'
    <2>1. reading' \in [Tenants -> Reading \cup {NoRow}]
      BY DEF IInv, RowsOK
    <2>2. overwritten' \subseteq Tenants
      BY <1>1
    <2> QED  BY <1>2, <2>1, <2>2 DEF IInv, RowsOK
  <1>5. PeriodInv'
    <2>1. SUFFICES ASSUME NEW u \in Tenants
                   PROVE  /\ sub'[u] = NoRow => renewals'[u] = 0
                          /\ sub'[u] # NoRow =>
                                /\ sub'[u].end = sub'[u].start + Cycle
                                /\ sub'[u].start <= now'
                                /\ u \notin overwritten' => Cycle * renewals'[u] <= sub'[u].start
      BY DEF PeriodInv, Subscribed
    <2>2. CASE u # t
      <3>1. u \in overwritten' <=> u \in overwritten
        BY <2>2
      <3> QED  BY <1>2, <2>2, <3>1 DEF IInv, PeriodInv, Subscribed
    <2>3. CASE u = t
      <3>1. /\ sub[t].end = sub[t].start + Cycle /\ sub[t].start <= now
            /\ t \notin overwritten => Cycle * renewals[t] <= sub[t].start
        BY DEF IInv, PeriodInv
      <3>2. sub[t].start \in Nat /\ row.start \in Nat /\ renewals[t] \in Nat
        BY <1>1 DEF Subscription
      <3>3. Cycle * (renewals[t] + 1) = Cycle * renewals[t] + Cycle
              /\ Cycle * renewals[t] \in Nat
        BY <3>2, OneMore
      <3>4. CASE cancel
        BY <1>2, <2>3, <3>1, <3>4
      <3>5. CASE ~cancel
        <4>1. row.end = row.start + Cycle /\ row.start <= now
          BY <3>5
        <4>2. ASSUME t \notin overwritten'
              PROVE  Cycle * (renewals[t] + 1) <= row.start
          <5>1. sub[t].end <= row.start /\ Cycle * renewals[t] <= sub[t].start
            BY <3>1, <3>5, <4>2
          <5> QED  BY <1>1, <3>1, <3>2, <3>3, <5>1
        <4> QED  BY <1>2, <2>3, <3>5, <4>1, <4>2
      <3> QED  BY <3>4, <3>5
    <2> QED  BY <2>2, <2>3
  <1>6. ReadInv'
    BY <1>2, <1>3 DEF IInv, ReadInv, Subscribed
  <1>7. LockInv'
    <2>1. ASSUME NEW u \in Tenants, spending'[u] # NoRow
          PROVE  u # t /\ sub'[u] = sub[u]
      BY <1>2, <2>1 DEF Unlocked
    <2> QED  BY <2>1 DEF IInv, LockInv, Subscribed
  <1> QED  BY <1>4, <1>5, <1>6, <1>7 DEF IInv

LEMMA ResetMonthlyStep ==
    ASSUME IInv, NEW t \in Tenants, ResetMonthlyCredits(t)
    PROVE  IInv'
  <1>1. /\ sub \in [Tenants -> Subscription \cup {NoRow}] /\ sub[t] \in Subscription
        /\ now \in Nat /\ Cycle \in Nat /\ sub[t].cancelAtEnd \in BOOLEAN
        /\ Subscribed(t) /\ Unlocked(t) /\ sub[t].end <= now
    BY CreditsAssumption DEF IInv, RowsOK, Subscribed, ResetMonthlyCredits, PeriodEnded,
                             Subscription
  <1>2. plan[sub[t].plan].monthly \in Nat
    BY <1>1 DEF IInv, RowsOK, Plan, Subscription
  <1> DEFINE monthly == plan[sub[t].plan].monthly
             row == Renewed(sub[t], monthly, now)
             cancel == sub[t].cancelAtEnd
  <1>3. sub' = [sub EXCEPT ![t] = row]
    BY <1>1 DEF ResetMonthlyCredits
  <1>4. renewals' = [renewals EXCEPT ![t] = IF cancel THEN @ ELSE @ + 1]
    BY DEF ResetMonthlyCredits, CountRenewal
  <1>5. UNCHANGED <<now, plan, spending, reading, requests, recorded, overwritten>>
    BY DEF ResetMonthlyCredits
  <1>6. /\ row \in Subscription
        /\ cancel => row.start = sub[t].start /\ row.end = sub[t].end
        /\ ~cancel => row.start = now /\ row.end = now + Cycle
    <2> DEFINE old == sub[t]
    <2>1. old \in Subscription /\ monthly \in Nat /\ now \in Nat
      BY <1>1, <1>2
    <2> HIDE DEF monthly, old
    <2>2. /\ Renewed(old, monthly, now) \in Subscription
          /\ old.cancelAtEnd => /\ Renewed(old, monthly, now).start = old.start
                                /\ Renewed(old, monthly, now).end = old.end
          /\ ~old.cancelAtEnd => /\ Renewed(old, monthly, now).start = now
                                 /\ Renewed(old, monthly, now).end = now + Cycle
      BY ONLY <2>1, RenewedRow
    <2> QED  BY <2>2 DEF old
  <1> HIDE DEF monthly
  <1> HIDE DEF row, cancel
  <1>7. cancel \in BOOLEAN
    BY <1>1 DEF cancel
  <1>8. ~cancel => /\ row.end = row.start + Cycle /\ row.start <= now
                   /\ sub[t].end <= row.start
    BY <1>1, <1>6
  <1> QED  BY <1>1, <1>3, <1>4, <1>5, <1>6, <1>7, <1>8, RenewalStep

\* The row as it is now, with the columns that the reader changed in its own.
LEMMA WriteRenewalStep ==
    ASSUME IInv, NEW t \in Tenants, WriteRenewal(t)
    PROVE  IInv'
  <1> DEFINE old == reading[t].row
             at == reading[t].at
             new == Renewed(old, reading[t].monthly, at)
             row == [c \in DOMAIN old |-> IF new[c] # old[c] THEN new[c] ELSE sub[t][c]]
             cancel == old.cancelAtEnd
  <1>1. /\ reading[t] # NoRow /\ Unlocked(t) /\ Subscribed(t)
        /\ sub \in [Tenants -> Subscription \cup {NoRow}] /\ sub[t] \in Subscription
        /\ now \in Nat /\ Cycle \in Nat \ {0}
    BY CreditsAssumption DEF IInv, RowsOK, ReadInv, Subscribed, WriteRenewal
  <1>2. old \in Subscription /\ reading[t].monthly \in Nat /\ at \in Nat
    BY <1>1 DEF IInv, RowsOK, Reading
  <1>3. old.end = old.start + Cycle /\ old.end <= at /\ at <= now
    BY <1>1 DEF IInv, ReadInv
  <1>4. /\ sub' = [sub EXCEPT ![t] = row]
        /\ renewals' = [renewals EXCEPT ![t] = IF cancel THEN @ ELSE @ + 1]
        /\ overwritten' = IF sub[t].end # old.end THEN overwritten \cup {t} ELSE overwritten
        /\ reading' = [reading EXCEPT ![t] = NoRow]
        /\ UNCHANGED <<now, plan, spending, requests, recorded>>
    BY <1>1 DEF WriteRenewal, CountRenewal
  <1> HIDE DEF old, at
  <1>5. /\ new \in Subscription
        /\ cancel => new.start = old.start /\ new.end = old.end
        /\ ~cancel => new.start = at /\ new.end = at + Cycle
    <2>1. \A monthly \in Nat :
             LET r == Renewed(old, monthly, at)
             IN  /\ r \in Subscription
                 /\ cancel => r.start = old.start /\ r.end = old.end
                 /\ ~cancel => r.start = at /\ r.end = at + Cycle
      BY <1>2, RenewedRow
    <2> QED  BY <1>2, <2>1
  <1> HIDE DEF new
  <1>6. /\ row \in Subscription
        /\ row.start = IF new.start # old.start THEN new.start ELSE sub[t].start
        /\ row.end = IF new.end # old.end THEN new.end ELSE sub[t].end
    BY <1>1, <1>2, <1>5 DEF Subscription
  <1> HIDE DEF row
  <1>7. cancel \in BOOLEAN /\ old.start \in Nat /\ old.end \in Nat /\ sub[t].end \in Nat
    BY <1>1, <1>2 DEF Subscription
  <1> HIDE DEF cancel
  <1>8. cancel => row.start = sub[t].start /\ row.end = sub[t].end
    BY <1>5, <1>6
  <1>9. ASSUME ~cancel
        PROVE  /\ row.end = row.start + Cycle /\ row.start <= now
               /\ t \notin overwritten' => sub[t].end <= row.start
    <2>1. row.start = at /\ row.end = at + Cycle
      BY <1>1, <1>2, <1>3, <1>5, <1>6, <1>7, <1>9
    <2> QED  BY <1>3, <1>4, <2>1
  <1> QED  BY <1>1, <1>4, <1>6, <1>7, <1>8, <1>9, RenewalStep

LEMMA ReadStatusStep ==
    ASSUME IInv, NEW t \in Tenants, ReadStatus(t)
    PROVE  IInv'
  <1>1. /\ Subscribed(t) /\ sub[t] \in Subscription /\ now \in Nat /\ sub[t].end <= now
        /\ UNCHANGED <<now, plan, sub, spending, requests, recorded, renewals, overwritten>>
    BY DEF ReadStatus, IInv, RowsOK, Subscribed, history
  <1>2. plan[sub[t].plan].monthly \in Nat
    BY <1>1 DEF IInv, RowsOK, Plan, Subscription
  <1> DEFINE r == [row |-> sub[t], monthly |-> plan[sub[t].plan].monthly, at |-> now]
  <1>3. /\ r \in Reading /\ r.row = sub[t] /\ r.at = now
        /\ reading' = [reading EXCEPT ![t] = r]
    BY <1>1, <1>2 DEF Reading, ReadStatus
  <1> HIDE DEF r
  <1>4. /\ reading' \in [Tenants -> Reading \cup {NoRow}] /\ reading'[t] = r
        /\ \A u \in Tenants \ {t} : reading'[u] = reading[u]
    BY <1>3 DEF IInv, RowsOK
  <1>5. RowsOK' /\ PeriodInv' /\ LockInv'
    BY <1>1, <1>4 DEF IInv, RowsOK, PeriodInv, LockInv, Subscribed
  <1>6. ReadInv'
    <2>1. SUFFICES ASSUME NEW u \in Tenants, reading'[u] # NoRow
                   PROVE  /\ Subscribed(u)
                          /\ reading'[u].row.end = reading'[u].row.start + Cycle
                          /\ reading'[u].row.end <= reading'[u].at
                          /\ reading'[u].at <= now
      BY <1>1 DEF ReadInv, Subscribed
    <2>2. CASE u = t
      BY <1>1, <1>3, <1>4, <2>2 DEF IInv, PeriodInv
    <2>3. CASE u # t
      BY <1>4, <2>1, <2>3 DEF IInv, ReadInv
    <2> QED  BY <2>2, <2>3
  <1> QED  BY <1>5, <1>6 DEF IInv

LEMMA BeginConsumeStep ==
    ASSUME IInv, NEW t \in Tenants, NEW a \in Amounts, BeginConsume(t, a)
    PROVE  IInv'
  <1>1. /\ Subscribed(t) /\ sub[t] \in Subscription /\ a \in Nat /\ sub[t].credits \in Nat
        /\ UNCHANGED <<now, plan, sub, reading, requests, recorded, renewals, overwritten>>
    BY CreditsAssumption
       DEF BeginConsume, IInv, RowsOK, Subscribed, history, Subscription
  <1> DEFINE s == [amount |-> a,
                   fromPlan |-> IF a <= sub[t].credits THEN a ELSE sub[t].credits]
  <1>2. /\ s \in Spending /\ s.fromPlan <= sub[t].credits /\ s.fromPlan <= s.amount
        /\ spending' = [spending EXCEPT ![t] = s]
    BY <1>1 DEF Spending, BeginConsume
  <1> HIDE DEF s
  <1>3. /\ spending' \in [Tenants -> Spending \cup {NoRow}] /\ spending'[t] = s
        /\ \A u \in Tenants \ {t} : spending'[u] = spending[u]
    BY <1>2 DEF IInv, RowsOK
  <1>4. RowsOK' /\ PeriodInv' /\ ReadInv'
    BY <1>1, <1>3 DEF IInv, RowsOK, PeriodInv, ReadInv, Subscribed
  <1>5. LockInv'
    BY <1>1, <1>2, <1>3 DEF IInv, LockInv, Subscribed
  <1> QED  BY <1>4, <1>5 DEF IInv

\* The plan pays what it had when the lock was taken: nobody has touched the row.
LEMMA ConsumeStep ==
    ASSUME IInv, NEW t \in Tenants, Consume(t)
    PROVE  IInv'
  <1> DEFINE s == spending[t]
             row == [sub[t] EXCEPT !.credits = @ - s.fromPlan]
  <1>1. /\ s # NoRow /\ s \in Spending /\ Subscribed(t) /\ sub[t] \in Subscription
        /\ s.fromPlan <= sub[t].credits /\ s.fromPlan <= s.amount
        /\ s.fromPlan \in Nat /\ s.amount \in Nat /\ sub[t].credits \in Nat
        /\ sub \in [Tenants -> Subscription \cup {NoRow}] /\ NoRow \notin Subscription
    BY CreditsAssumption
       DEF IInv, RowsOK, LockInv, Subscribed, Consume, Unlocked, Spending, Subscription
  <1>2. /\ sub' = [sub EXCEPT ![t] = row]
        /\ spending' = [spending EXCEPT ![t] = NoRow]
        /\ recorded' = [recorded EXCEPT ![t] = @ + (s.amount - s.fromPlan)]
        /\ UNCHANGED <<now, plan, reading, requests, renewals, overwritten>>
    BY <1>1 DEF Consume, Record, Subscription
  <1>3. sub[t].credits - s.fromPlan \in Nat /\ s.amount - s.fromPlan \in Nat
    BY <1>1
  <1>4. row \in Subscription /\ row.start = sub[t].start /\ row.end = sub[t].end
    BY <1>1, <1>3 DEF Subscription
  <1> HIDE DEF row
  <1>5. /\ sub' \in [Tenants -> Subscription \cup {NoRow}]
        /\ sub'[t] = row /\ row # NoRow
        /\ \A u \in Tenants \ {t} : sub'[u] = sub[u] /\ spending'[u] = spending[u]
        /\ spending' \in [Tenants -> Spending \cup {NoRow}] /\ spending'[t] = NoRow
        /\ recorded' \in [Tenants -> Nat]
    BY <1>1, <1>2, <1>3, <1>4 DEF IInv, RowsOK
  <1>6. RowsOK'
    BY <1>2, <1>5 DEF IInv, RowsOK
  <1>7. PeriodInv'
    <2>1. SUFFICES ASSUME NEW u \in Tenants
                   PROVE  /\ sub'[u] = NoRow => renewals'[u] = 0
                          /\ sub'[u] # NoRow =>
                                /\ sub'[u].end = sub'[u].start + Cycle
                                /\ sub'[u].start <= now'
                                /\ u \notin overwritten' => Cycle * renewals'[u] <= sub'[u].start
      BY DEF PeriodInv, Subscribed
    <2>2. CASE u # t
      BY <1>2, <1>5, <2>2 DEF IInv, PeriodInv, Subscribed
    <2>3. CASE u = t
      BY <1>1, <1>2, <1>4, <1>5, <2>3 DEF IInv, PeriodInv
    <2> QED  BY <2>2, <2>3
  <1>8. ReadInv' /\ LockInv'
    BY <1>1, <1>2, <1>5 DEF IInv, ReadInv, LockInv, Subscribed
  <1> QED  BY <1>6, <1>7, <1>8 DEF IInv

LEMMA InsufficientStep ==
    ASSUME IInv, NEW t \in Tenants, Insufficient(t)
    PROVE  IInv'
  BY DEF Insufficient, IInv, RowsOK, PeriodInv, ReadInv, LockInv, Subscribed, history

LEMMA TickStep ==
    ASSUME IInv, Tick
    PROVE  IInv'
  <1>1. /\ now \in Nat /\ now' = now + 1
        /\ UNCHANGED <<plan, sub, spending, reading, requests, recorded, renewals, overwritten>>
    BY DEF IInv, RowsOK, Tick, history
  <1>2. RowsOK' /\ LockInv'
    BY <1>1 DEF IInv, RowsOK, LockInv, Subscribed
  <1>3. PeriodInv'
    <2>1. \A t \in Tenants : Subscribed(t) => sub[t].start \in Nat
      BY DEF IInv, RowsOK, Subscribed, Subscription
    <2> QED  BY <1>1, <2>1 DEF IInv, PeriodInv, Subscribed
  <1>4. ReadInv'
    <2>1. \A t \in Tenants : reading[t] # NoRow => reading[t].at \in Nat
      BY DEF IInv, RowsOK, Reading
    <2> QED  BY <1>1, <2>1 DEF IInv, ReadInv, Subscribed
  <1> QED  BY <1>2, <1>3, <1>4 DEF IInv

LEMMA PlanStep ==
    ASSUME IInv, NEW p \in Plans, PlanRequest(p)
    PROVE  IInv'
  <1>1. plan' \in [Plans -> Plan] /\ requests' \in Nat
    BY CreditsAssumption
       DEF PlanRequest, CreatePlan, UpdatePlan, ArchivePlan, Request, IInv, RowsOK, Plan,
           PlanStatus
  <1>2. UNCHANGED <<now, sub, spending, reading, history>>
    BY DEF PlanRequest, CreatePlan, UpdatePlan, ArchivePlan, Request
  <1> QED  BY <1>1, <1>2, OtherStep

LEMMA TopUpStep ==
    ASSUME IInv, NEW t \in Tenants,
           (\E a \in Amounts : PurchaseTopUp(t, a)) \/ ExpireTopUps(t)
    PROVE  IInv'
  BY OtherStep DEF PurchaseTopUp, ExpireTopUps, IInv, RowsOK

LEMMA InitIInv ==
    ASSUME Init
    PROVE  IInv
  BY DEF Init, IInv, RowsOK, PeriodInv, ReadInv, LockInv, Subscribed, Plan, PlanStatus

LEMMA NextIInv ==
    ASSUME IInv, [Next]_vars
    PROVE  IInv'
  <1>1. CASE UNCHANGED vars
    BY <1>1, OtherStep DEF vars, history, IInv, RowsOK
  <1>2. ASSUME NEW p \in Plans, PlanRequest(p)
        PROVE  IInv'
    BY <1>2, PlanStep
  <1>3. ASSUME NEW t \in Tenants, SubscriptionRequest(t)
        PROVE  IInv'
    <2>1. {0, Cycle + 1} \subseteq Nat
      BY CreditsAssumption
    <2> QED
      BY <1>3, <2>1, CreateStep, ChangePlanStep, CancelStep, ReactivateStep, ResetStep
         DEF SubscriptionRequest
  <1>4. ASSUME NEW t \in Tenants, Use(t)
        PROVE  IInv'
    BY <1>4, ReadStatusStep, WriteRenewalStep, TopUpStep, BeginConsumeStep, ConsumeStep,
       InsufficientStep DEF Use
  <1>5. ASSUME NEW t \in Tenants, Job(t)
        PROVE  IInv'
    BY <1>5, ResetMonthlyStep, TopUpStep DEF Job
  <1>6. CASE Tick
    BY <1>6, TickStep
  <1> QED  BY <1>1, <1>2, <1>3, <1>4, <1>5, <1>6 DEF Next

LEMMA Invariant == Spec => []IInv
  <1>1. Init => IInv
    BY InitIInv
  <1>2. IInv /\ [Next]_vars => IInv'
    BY NextIInv
  <1> QED  BY <1>1, <1>2, PTL DEF Spec

-----------------------------------------------------------------------------
(* Recursion over the list of a tenant's top-ups                           *)

\* The least element of a set of numbers: what stands in for induction below.
LEMMA Least ==
    ASSUME NEW T \in SUBSET Nat, T # {}
    PROVE  \E x \in T : \A y \in T : x <= y
  <1> DEFINE R == OpToRel(<, Nat)
  <1>1. IsWellFoundedOn(R, Nat)
    BY NatLessThanWellFounded
  <1>2. \A x, y \in Nat : <<y, x>> \in R <=> y < x
    BY DEF OpToRel
  <1> HIDE DEF R
  <1>3. PICK x \in T : \A y \in T : <<y, x>> \notin R
    BY <1>1, WFMin
  <1>4. ASSUME NEW y \in T
        PROVE  x <= y
    <2>1. x \in Nat /\ y \in Nat
      OBVIOUS
    <2>2. ~(y < x)
      BY <1>2, <1>3, <2>1
    <2> QED  BY <2>1, <2>2
  <1> QED  BY <1>4

\* A set of numbers that has 0 and, below n, the successor of each of its
\* elements has all the numbers up to n.
LEMMA Upward ==
    ASSUME NEW T, NEW n \in Nat, 0 \in T, \A i \in 0..n : i \in T /\ i < n => i + 1 \in T
    PROVE  \A i \in 0..n : i \in T
  <1> SUFFICES ASSUME NEW k \in 0..n, k \notin T
               PROVE  FALSE
    OBVIOUS
  <1> DEFINE C == {i \in 0..n : i \notin T}
  <1>1. C \in SUBSET Nat /\ C # {}
    OBVIOUS
  <1>2. PICK x \in C : \A y \in C : x <= y
    BY <1>1, Least
  <1>3. x # 0 /\ x \in 0..n
    BY <1>2
  <1>4. x - 1 \in 0..n /\ x - 1 < n /\ ~(x <= x - 1)
    BY <1>3
  <1>5. x - 1 \in T
    BY <1>2, <1>4
  <1> QED  BY <1>3, <1>4, <1>5

\* A recursion along 1..n has a solution.
LEMMA Recursion ==
    ASSUME NEW n \in Nat, NEW a \in Int, NEW g \in [1..n -> [Int -> Int]]
    PROVE  \E f \in [0..n -> Int] : f[0] = a /\ \A i \in 1..n : f[i] = g[i][f[i - 1]]
  <1> DEFINE Solves(f, k) == f[0] = a /\ \A i \in 1..k : f[i] = g[i][f[i - 1]]
             T == {k \in 0..n : \E f \in [0..k -> Int] : Solves(f, k)}
  <1>1. 0 \in T
    <2> DEFINE h == [i \in 0..0 |-> a]
    <2>1. h \in [0..0 -> Int] /\ Solves(h, 0) /\ 0 \in 0..n
      OBVIOUS
    <2> HIDE DEF h, Solves
    <2> QED  BY <2>1
  <1>2. ASSUME NEW k \in 0..n, k \in T, k < n
        PROVE  k + 1 \in T
    <2>1. PICK f \in [0..k -> Int] : Solves(f, k)
      BY <1>2
    <2> DEFINE h == [i \in 0..(k + 1) |-> IF i <= k THEN f[i] ELSE g[k + 1][f[k]]]
    <2>2. g[k + 1] \in [Int -> Int] /\ f[k] \in Int
      <3>1. k + 1 \in 1..n /\ k \in 0..k
        BY <1>2
      <3> QED  BY <3>1
    <2>3. h \in [0..(k + 1) -> Int]
      BY <2>2
    <2>4. h[0] = a
      BY <2>1
    <2>5. ASSUME NEW i \in 1..(k + 1)
          PROVE  h[i] = g[i][h[i - 1]]
      <3>1. CASE i = k + 1
        BY <3>1
      <3>2. CASE i # k + 1
        <4>1. i \in 1..k /\ i <= k /\ i - 1 <= k /\ i - 1 \in 0..k
          BY <3>2
        <4>2. h[i] = f[i] /\ h[i - 1] = f[i - 1]
          BY <4>1
        <4> HIDE DEF h
        <4> QED  BY <2>1, <4>1, <4>2
      <3> QED  BY <3>1, <3>2
    <2>6. Solves(h, k + 1)
      BY <2>4, <2>5
    <2> HIDE DEF h
    <2>7. k + 1 \in 0..n
      BY <1>2
    <2> QED  BY <2>3, <2>6, <2>7
  <1> HIDE DEF T
  <1>3. \A i \in 0..n : i \in T
    <2>1. \A k \in 0..n : k \in T /\ k < n => k + 1 \in T
      BY <1>2
    <2> QED  BY <1>1, <2>1, Upward
  <1>4. n \in T
    BY <1>3
  <1> QED  BY <1>4 DEF T

\* What top-up u leaves unpaid of o.
Left(u, o) ==
    IF ~Usable(u) THEN o ELSE IF u.remaining >= o THEN 0 ELSE o - u.remaining

\* A top-up pays no more than it has and than is owed, pays only when it may
\* be used, and is used up when something is left to pay.
LEMMA LeftFacts ==
    ASSUME NEW u \in TopUp, NEW o \in Nat
    PROVE  /\ Left(u, o) \in Nat
           /\ o - Left(u, o) \in Nat
           /\ o - Left(u, o) <= u.remaining
           /\ o - Left(u, o) > 0 => Usable(u)
           /\ Usable(u) /\ Left(u, o) > 0 => o - Left(u, o) = u.remaining
  <1>1. u.remaining \in Nat
    BY DEF TopUp
  <1>2. CASE ~Usable(u)
    BY <1>1, <1>2 DEF Left
  <1>3. CASE Usable(u)
    <2>1. Left(u, o) = IF u.remaining >= o THEN 0 ELSE o - u.remaining
      BY <1>3 DEF Left
    <2>2. CASE u.remaining >= o
      BY <1>1, <1>3, <2>1, <2>2
    <2>3. CASE ~(u.remaining >= o)
      BY <1>1, <1>3, <2>1, <2>3
    <2> QED  BY <2>2, <2>3
  <1> QED  BY <1>2, <1>3

\* Owed is what its recursion says.
LEMMA OwedFacts ==
    ASSUME NEW us \in Seq(TopUp), NEW debt \in Nat
    PROVE  /\ Owed(us, debt) \in [0..Len(us) -> Nat]
           /\ Owed(us, debt)[0] = debt
           /\ \A i \in 1..Len(us) : Owed(us, debt)[i] = Left(us[i], Owed(us, debt)[i - 1])
  <1> DEFINE n == Len(us)
             g == [i \in 1..n |-> [o \in Int |-> Left(us[i], o)]]
  <1>1. n \in Nat /\ \A i \in 1..n : us[i] \in TopUp
    OBVIOUS
  <1>2. \A i \in 1..n : \A o \in Int : Left(us[i], o) \in Int
    BY <1>1 DEF Left, TopUp
  <1>3. g \in [1..n -> [Int -> Int]]
    BY <1>2
  <1>4. \A i \in 1..n : \A o \in Int : g[i][o] = Left(us[i], o)
    OBVIOUS
  <1> HIDE DEF g, n
  <1>5. PICK f \in [0..n -> Int] : f[0] = debt /\ \A i \in 1..n : f[i] = g[i][f[i - 1]]
    <2>1. n \in Nat /\ debt \in Int
      BY <1>1
    <2> QED  BY ONLY <1>3, <2>1, Recursion
  <1>6. ASSUME NEW i \in 1..n
        PROVE  f[i] = Left(us[i], f[i - 1])
    <2>1. i - 1 \in 0..n
      BY <1>1
    <2>2. f[i - 1] \in Int
      BY <2>1
    <2> QED  BY <1>4, <1>5, <2>2
  <1>7. f = [i \in 0..n |-> IF i = 0 THEN debt ELSE Left(us[i], f[i - 1])]
    <2>1. \A i \in 0..n : f[i] = IF i = 0 THEN debt ELSE Left(us[i], f[i - 1])
      BY <1>1, <1>5, <1>6
    <2>2. f = [i \in 0..n |-> f[i]]
      OBVIOUS
    <2> QED  BY <2>1, <2>2
  <1>8. Owed(us, debt) =
            [i \in 0..n |-> IF i = 0 THEN debt ELSE Left(us[i], Owed(us, debt)[i - 1])]
    <2>1. f = [i \in 0..Len(us) |-> IF i = 0 THEN debt ELSE Left(us[i], f[i - 1])]
      BY <1>7 DEF n
    <2>2. Owed(us, debt) = [i \in 0..Len(us) |->
                               IF i = 0 THEN debt ELSE Left(us[i], Owed(us, debt)[i - 1])]
      BY ONLY <2>1 DEF Owed, Left
    <2> QED  BY <2>2 DEF n
  <1> DEFINE w == Owed(us, debt)
  <1> HIDE DEF w
  <1>9. w = [i \in 0..n |-> IF i = 0 THEN debt ELSE Left(us[i], w[i - 1])]
    BY <1>8 DEF w
  <1>10. w[0] = debt /\ \A i \in 1..n : w[i] = Left(us[i], w[i - 1])
    BY <1>1, <1>9
  <1>11. \A i \in 0..n : w[i] \in Nat
    <2> DEFINE T == {i \in 0..n : w[i] \in Nat}
    <2>1. 0 \in T
      BY <1>1, <1>10
    <2>2. ASSUME NEW i \in 0..n, i \in T, i < n
          PROVE  i + 1 \in T
      <3>1. i + 1 \in 1..n /\ w[i] \in Nat /\ (i + 1) - 1 = i
        BY <1>1, <2>2
      <3>2. w[i + 1] = Left(us[i + 1], w[i])
        BY <1>10, <3>1
      <3>3. w[i + 1] \in Nat
        BY <1>1, <3>1, <3>2, LeftFacts
      <3> QED  BY <1>1, <3>1, <3>3
    <2> HIDE DEF T
    <2>3. \A i \in 0..n : i \in T
      BY <1>1, <2>1, <2>2, Upward
    <2> QED  BY <2>3 DEF T
  <1>12. w \in [0..n -> Nat]
    <2>1. w = [i \in 0..n |-> w[i]]
      BY <1>9
    <2> QED  BY <1>11, <2>1
  <1> QED  BY <1>10, <1>12 DEF w, n

\* What a later top-up leaves is no more than what an earlier one left.
LEMMA OwedDecreases ==
    ASSUME NEW us \in Seq(TopUp), NEW debt \in Nat,
           NEW i \in 0..Len(us), NEW j \in i..Len(us)
    PROVE  Owed(us, debt)[j] <= Owed(us, debt)[i]
  <1> DEFINE n == Len(us)
             w == Owed(us, debt)
             T == {k \in 0..(n - i) : w[i + k] <= w[i]}
  <1>1. n \in Nat /\ \A k \in 1..n : us[k] \in TopUp
    OBVIOUS
  <1>2. w \in [0..n -> Nat] /\ \A k \in 1..n : w[k] = Left(us[k], w[k - 1])
    BY OwedFacts
  <1> HIDE DEF w
  <1>3. 0 \in T
    <2>1. 0 \in 0..(n - i) /\ i + 0 = i /\ i \in 0..n
      BY <1>1
    <2>2. w[i] \in Nat
      BY <1>2, <2>1
    <2>3. w[i + 0] <= w[i]
      BY <2>1, <2>2
    <2> QED  BY <2>1, <2>3
  <1>4. ASSUME NEW k \in 0..(n - i), k \in T, k < n - i
        PROVE  k + 1 \in T
    <2>1. /\ i + (k + 1) \in 1..n /\ (i + (k + 1)) - 1 = i + k /\ i + k \in 0..n
          /\ w[i + k] <= w[i]
      BY <1>1, <1>4
    <2>2. w[i + (k + 1)] = Left(us[i + (k + 1)], w[i + k])
      BY <1>2, <2>1
    <2>3. w[i + k] \in Nat /\ us[i + (k + 1)] \in TopUp
      BY <1>1, <1>2, <2>1
    <2>4. /\ Left(us[i + (k + 1)], w[i + k]) \in Nat
          /\ w[i + k] - Left(us[i + (k + 1)], w[i + k]) \in Nat
      BY <2>3, LeftFacts
    <2>5. w[i] \in Nat /\ k + 1 \in 0..(n - i)
      <3>1. i \in 0..n /\ k + 1 \in 0..(n - i)
        BY <1>1, <1>4
      <3> QED  BY <1>2, <3>1
    <2> DEFINE new == Left(us[i + (k + 1)], w[i + k])
               old == w[i + k]
    <2>6. new \in Nat /\ old - new \in Nat /\ old \in Nat /\ old <= w[i] /\ w[i] \in Nat
      BY <2>1, <2>3, <2>4, <2>5
    <2>7. w[i + (k + 1)] = new
      BY <2>2
    <2>8. new <= w[i]
      <3> HIDE DEF new, old
      <3> QED  BY <2>6
    <2> HIDE DEF n, new
    <2> QED  BY <2>5, <2>7, <2>8
  <1> HIDE DEF T
  <1>5. n - i \in Nat /\ j - i \in 0..(n - i) /\ i + (j - i) = j
    BY <1>1
  <1>6. j - i \in T
    BY <1>3, <1>4, <1>5, Upward
  <1> QED  BY <1>5, <1>6 DEF T, w

\* What TopUpsAccounted adds up: lost[i] is what top-ups 1..i have paid.
Lost(us) ==
    LET lost[i \in 0..Len(us)] ==
            IF i = 0 THEN 0 ELSE lost[i - 1] + (us[i].amount - us[i].remaining)
    IN  lost

LEMMA LostFacts ==
    ASSUME NEW us \in Seq(TopUp)
    PROVE  /\ Lost(us) \in [0..Len(us) -> Int]
           /\ Lost(us)[0] = 0
           /\ \A i \in 1..Len(us) :
                 Lost(us)[i] = Lost(us)[i - 1] + (us[i].amount - us[i].remaining)
  <1> DEFINE n == Len(us)
             g == [i \in 1..n |-> [o \in Int |-> o + (us[i].amount - us[i].remaining)]]
  <1>1. n \in Nat /\ \A i \in 1..n : us[i].amount \in Nat /\ us[i].remaining \in Nat
    <2>1. n \in Nat /\ \A i \in 1..n : us[i] \in TopUp
      OBVIOUS
    <2> QED  BY <2>1 DEF TopUp
  <1>2. g \in [1..n -> [Int -> Int]]
    BY <1>1
  <1>3. \A i \in 1..n : \A o \in Int : g[i][o] = o + (us[i].amount - us[i].remaining)
    OBVIOUS
  <1> HIDE DEF g, n
  <1>4. PICK f \in [0..n -> Int] : f[0] = 0 /\ \A i \in 1..n : f[i] = g[i][f[i - 1]]
    <2>1. n \in Nat /\ 0 \in Int
      BY <1>1
    <2> QED  BY ONLY <1>2, <2>1, Recursion
  <1>5. ASSUME NEW i \in 1..n
        PROVE  f[i] = f[i - 1] + (us[i].amount - us[i].remaining)
    <2>1. i - 1 \in 0..n
      BY <1>1
    <2>2. f[i - 1] \in Int
      BY <2>1
    <2> QED  BY <1>3, <1>4, <2>2
  <1>6. f = [i \in 0..n |-> IF i = 0 THEN 0
                            ELSE f[i - 1] + (us[i].amount - us[i].remaining)]
    <2>1. \A i \in 0..n : f[i] = IF i = 0 THEN 0
                                 ELSE f[i - 1] + (us[i].amount - us[i].remaining)
      BY <1>1, <1>4, <1>5
    <2>2. f = [i \in 0..n |-> f[i]]
      OBVIOUS
    <2> QED  BY <2>1, <2>2
  <1>7. Lost(us) = [i \in 0..n |-> IF i = 0 THEN 0
                        ELSE Lost(us)[i - 1] + (us[i].amount - us[i].remaining)]
    <2>1. f = [i \in 0..Len(us) |-> IF i = 0 THEN 0
                                    ELSE f[i - 1] + (us[i].amount - us[i].remaining)]
      BY <1>6 DEF n
    <2>2. Lost(us) = [i \in 0..Len(us) |-> IF i = 0 THEN 0
                          ELSE Lost(us)[i - 1] + (us[i].amount - us[i].remaining)]
      BY ONLY <2>1 DEF Lost
    <2> QED  BY <2>2 DEF n
  <1> DEFINE w == Lost(us)
  <1> HIDE DEF w
  <1>8. w = [i \in 0..n |-> IF i = 0 THEN 0
                            ELSE w[i - 1] + (us[i].amount - us[i].remaining)]
    BY <1>7 DEF w
  <1>9. w[0] = 0 /\ \A i \in 1..n : w[i] = w[i - 1] + (us[i].amount - us[i].remaining)
    BY <1>1, <1>8
  <1>10. \A i \in 0..n : w[i] \in Int
    <2> DEFINE T == {i \in 0..n : w[i] \in Int}
    <2>1. 0 \in T
      BY <1>1, <1>9
    <2>2. ASSUME NEW i \in 0..n, i \in T, i < n
          PROVE  i + 1 \in T
      <3>1. i + 1 \in 1..n /\ i + 1 \in 0..n /\ w[i] \in Int /\ (i + 1) - 1 = i
        BY <1>1, <2>2
      <3>2. w[i + 1] = w[i] + (us[i + 1].amount - us[i + 1].remaining)
        BY <1>9, <3>1
      <3>3. us[i + 1].amount \in Nat /\ us[i + 1].remaining \in Nat
        BY <1>1, <3>1
      <3>4. w[i + 1] \in Int
        BY <3>1, <3>2, <3>3
      <3> QED  BY <3>1, <3>4
    <2> HIDE DEF T
    <2>3. \A i \in 0..n : i \in T
      BY <1>1, <2>1, <2>2, Upward
    <2> QED  BY <2>3 DEF T
  <1>11. w \in [0..n -> Int]
    <2>1. w = [i \in 0..n |-> w[i]]
      BY <1>8
    <2> QED  BY <1>10, <2>1
  <1> QED  BY <1>9, <1>11 DEF w, n

\* When each of the first top-ups has lost d[i] - d[i - 1] more, together they
\* have lost the sum of these.
LEMMA LostMore ==
    ASSUME NEW us \in Seq(TopUp), NEW vs \in Seq(TopUp), Len(us) <= Len(vs),
           NEW d \in [0..Len(us) -> Int],
           \A i \in 1..Len(us) :
              vs[i].amount - vs[i].remaining
                  = (us[i].amount - us[i].remaining) + (d[i] - d[i - 1])
    PROVE  Lost(vs)[Len(us)] = Lost(us)[Len(us)] + (d[Len(us)] - d[0])
  <1> DEFINE n == Len(us)
             v == Lost(vs)
             w == Lost(us)
             T == {i \in 0..n : v[i] = w[i] + (d[i] - d[0])}
  <1>1. n \in Nat /\ Len(vs) \in Nat /\ n <= Len(vs)
    OBVIOUS
  <1>2. /\ v \in [0..Len(vs) -> Int] /\ v[0] = 0
        /\ \A i \in 1..Len(vs) : v[i] = v[i - 1] + (vs[i].amount - vs[i].remaining)
    BY LostFacts
  <1>3. /\ w \in [0..n -> Int] /\ w[0] = 0
        /\ \A i \in 1..n : w[i] = w[i - 1] + (us[i].amount - us[i].remaining)
    BY LostFacts
  <1>4. \A i \in 1..n : us[i].amount \in Nat /\ us[i].remaining \in Nat
    <2>1. \A i \in 1..n : us[i] \in TopUp
      OBVIOUS
    <2> QED  BY <2>1 DEF TopUp
  <1> HIDE DEF v, w
  <1>5. 0 \in T
    <2>1. 0 \in 0..n /\ d[0] \in Int
      BY <1>1
    <2>2. v[0] = 0 /\ w[0] = 0
      BY <1>2, <1>3
    <2>3. \A x \in Int : 0 = 0 + (x - x)
      OBVIOUS
    <2>4. v[0] = w[0] + (d[0] - d[0])
      BY <2>1, <2>2, <2>3
    <2> QED  BY <2>1, <2>4
  <1>6. ASSUME NEW i \in 0..n, i \in T, i < n
        PROVE  i + 1 \in T
    <2>1. /\ i + 1 \in 1..n /\ i + 1 \in 1..Len(vs) /\ (i + 1) - 1 = i /\ i + 1 \in 0..n
          /\ v[i] = w[i] + (d[i] - d[0])
      BY <1>1, <1>6
    <2>2. /\ v[i + 1] = v[i] + (vs[i + 1].amount - vs[i + 1].remaining)
          /\ w[i + 1] = w[i] + (us[i + 1].amount - us[i + 1].remaining)
          /\ vs[i + 1].amount - vs[i + 1].remaining
                = (us[i + 1].amount - us[i + 1].remaining) + (d[i + 1] - d[i])
      BY <1>2, <1>3, <2>1
    <2>3. us[i + 1].amount \in Nat /\ us[i + 1].remaining \in Nat
      BY <1>4, <2>1
    <2>4. d[i] \in Int /\ d[i + 1] \in Int /\ d[0] \in Int /\ w[i] \in Int
      <3>1. 0 \in 0..n /\ d \in [0..n -> Int]
        BY <1>1
      <3> QED  BY <1>3, <2>1, <3>1
    <2>5. v[i + 1] = w[i + 1] + (d[i + 1] - d[0])
      <3>1. \A a, b, x, y, z \in Int : (a + (x - z)) + (b + (y - x)) = (a + b) + (y - z)
        OBVIOUS
      <3> DEFINE b == us[i + 1].amount - us[i + 1].remaining
      <3>2. b \in Int
        BY <2>3
      <3>3. v[i + 1] = (w[i] + (d[i] - d[0])) + (b + (d[i + 1] - d[i]))
        BY <2>1, <2>2
      <3>4. w[i + 1] = w[i] + b
        BY <2>2
      <3> DEFINE a == w[i]
                 x == d[i]
                 y == d[i + 1]
                 z == d[0]
      <3>5. a \in Int /\ x \in Int /\ y \in Int /\ z \in Int
        BY <2>4
      <3>6. v[i + 1] = (a + (x - z)) + (b + (y - x)) /\ w[i + 1] = a + b
        BY <3>3, <3>4
      <3> HIDE DEF a, b, x, y, z
      <3>7. v[i + 1] = w[i + 1] + (y - z)
        BY <3>1, <3>2, <3>5, <3>6
      <3> QED  BY <3>7 DEF y, z
    <2> QED  BY <2>1, <2>5
  <1> HIDE DEF T
  <1>7. \A i \in 0..n : i \in T
    BY <1>1, <1>5, <1>6, Upward
  <1>8. n \in T
    BY <1>1, <1>7
  <1> QED  BY <1>8 DEF T, v, w

LEMMA TopUpTypes ==
    ASSUME NEW us \in Seq(TopUp)
    PROVE  \A i \in 1..Len(us) :
              us[i].amount \in Nat /\ us[i].remaining \in Nat /\ us[i].expires \in Nat
  <1>1. \A i \in 1..Len(us) : us[i] \in TopUp
    OBVIOUS
  <1> QED  BY <1>1 DEF TopUp

\* Top-ups that have what they had have lost what they had lost.
LEMMA LostSame ==
    ASSUME NEW us \in Seq(TopUp), NEW vs \in Seq(TopUp), Len(us) <= Len(vs),
           \A i \in 1..Len(us) : /\ vs[i].amount = us[i].amount
                                 /\ vs[i].remaining = us[i].remaining
    PROVE  Lost(vs)[Len(us)] = Lost(us)[Len(us)]
  <1> DEFINE n == Len(us)
             d == [i \in 0..n |-> 0]
  <1>1. n \in Nat /\ d \in [0..n -> Int]
    OBVIOUS
  <1>2. ASSUME NEW i \in 1..n
        PROVE  vs[i].amount - vs[i].remaining
                   = (us[i].amount - us[i].remaining) + (d[i] - d[i - 1])
    <2>1. i \in 0..n /\ i - 1 \in 0..n
      BY <1>1
    <2>2. d[i] = 0 /\ d[i - 1] = 0
      BY <2>1
    <2>3. us[i].amount \in Nat /\ us[i].remaining \in Nat
      BY TopUpTypes
    <2> HIDE DEF d
    <2> QED  BY <2>2, <2>3
  <1>3. d[n] = 0 /\ d[0] = 0
    BY <1>1
  <1> HIDE DEF d
  <1>4. Lost(vs)[n] = Lost(us)[n] + (d[n] - d[0])
    BY <1>1, <1>2, LostMore
  <1>5. Lost(us)[n] \in Int
    BY <1>1, LostFacts
  <1> QED  BY <1>3, <1>4, <1>5

-----------------------------------------------------------------------------
(* Top-ups                                                                 *)

\* One tenant's top-ups at a time: none has more than was bought, the depleted
\* ones are those with nothing left, the expired ones are past their time.
Sound(us, time) ==
    /\ us \in Seq(TopUp)
    /\ \A i \in 1..Len(us) :
          /\ us[i].remaining <= us[i].amount
          /\ us[i].status = "depleted" <=> us[i].remaining = 0
          /\ us[i].status = "expired" => us[i].expires <= time

\* A top-up has been touched only when the older ones are used up or expired.
InOrder(us, time) ==
    \A j \in 1..Len(us) : \A i \in 1..(j - 1) :
        us[j].remaining < us[j].amount => us[i].remaining = 0 \/ us[i].expires <= time

TopUpInv ==
    /\ topups \in [Tenants -> Seq(TopUp)]
    /\ \A t \in Tenants : /\ Sound(topups[t], now)
                          /\ InOrder(topups[t], now)
                          /\ Lost(topups[t])[Len(topups[t])] = recorded[t]

\* A top-up after it paid.
LEMMA PayFacts ==
    ASSUME NEW u \in TopUp, NEW o \in Nat, NEW paid \in Nat, paid = o - Left(u, o),
           u.remaining <= u.amount, u.status = "depleted" <=> u.remaining = 0
    PROVE  /\ Pay(u, paid) \in TopUp
           /\ Pay(u, paid).amount = u.amount
           /\ Pay(u, paid).expires = u.expires
           /\ Pay(u, paid).remaining = u.remaining - paid
           /\ Pay(u, paid).remaining <= u.amount
           /\ Pay(u, paid).status = "depleted" <=> Pay(u, paid).remaining = 0
           /\ Pay(u, paid).status = "expired" => u.status = "expired"
  <1>1. /\ u.remaining \in Nat /\ u.amount \in Nat /\ u.expires \in Nat
        /\ u.status \in TopUpStatus
    BY DEF TopUp
  <1>2. paid <= u.remaining /\ (paid > 0 => u.status = "active")
    BY LeftFacts DEF Usable
  <1>3. u.remaining - paid \in Nat
    BY <1>1, <1>2
  <1>4. /\ Pay(u, paid).amount = u.amount
        /\ Pay(u, paid).expires = u.expires
        /\ Pay(u, paid).remaining = u.remaining - paid
        /\ Pay(u, paid).status =
              IF paid > 0 /\ u.remaining = paid THEN "depleted" ELSE u.status
    BY DEF Pay, TopUp
  <1>5. Pay(u, paid) \in TopUp
    BY <1>1, <1>3 DEF Pay, TopUp, TopUpStatus
  <1>6. Pay(u, paid).status = "depleted" <=> u.remaining - paid = 0
    <2>1. CASE paid = 0
      BY <1>1, <1>4, <2>1
    <2>2. CASE paid > 0
      BY <1>1, <1>2, <1>4, <2>2
    <2> QED  BY <2>1, <2>2
  <1> QED  BY <1>1, <1>2, <1>3, <1>4, <1>5, <1>6

\* The loop of consume_credits over one tenant's top-ups.
LEMMA PaysInOrder ==
    ASSUME NEW us, Sound(us, now), InOrder(us, now), NEW debt \in Nat, now \in Nat,
           Owed(us, debt)[Len(us)] = 0,
           NEW vs, vs = [i \in DOMAIN us |->
                            Pay(us[i], Owed(us, debt)[i - 1] - Owed(us, debt)[i])]
    PROVE  /\ Sound(vs, now) /\ InOrder(vs, now)
           /\ Lost(vs)[Len(vs)] = Lost(us)[Len(us)] + debt
  <1> DEFINE n == Len(us)
             w == Owed(us, debt)
             paid(i) == w[i - 1] - w[i]
  <1>1. /\ us \in Seq(TopUp) /\ n \in Nat /\ DOMAIN us = 1..n
        /\ \A i \in 1..n : us[i] \in TopUp
    BY DEF Sound
  <1>2. /\ w \in [0..n -> Nat] /\ w[0] = debt /\ w[n] = 0
        /\ \A i \in 1..n : w[i] = Left(us[i], w[i - 1])
    BY <1>1, OwedFacts
  <1>3. \A i \in 0..n : \A j \in i..n : w[j] <= w[i]
    BY <1>1, OwedDecreases
  <1>4. \A i \in 1..n : vs[i] = Pay(us[i], paid(i))
    BY <1>1
  <1>5. vs = [i \in 1..n |-> Pay(us[i], paid(i))]
    BY <1>1
  <1> HIDE DEF n, w
  <1>6. ASSUME NEW i \in 1..n
        PROVE  /\ i - 1 \in 0..n /\ w[i - 1] \in Nat /\ w[i] \in Nat
               /\ paid(i) \in Nat /\ paid(i) = w[i - 1] - Left(us[i], w[i - 1])
               /\ us[i].remaining \in Nat /\ us[i].expires \in Nat /\ us[i].amount \in Nat
               /\ paid(i) <= us[i].remaining
               /\ us[i].remaining <= us[i].amount
               /\ us[i].status = "depleted" <=> us[i].remaining = 0
               /\ us[i].status = "expired" => us[i].expires <= now
               /\ Usable(us[i]) /\ w[i] > 0 => paid(i) = us[i].remaining
    <2>1. i - 1 \in 0..n /\ i \in 0..n
      BY <1>1
    <2>2. w[i - 1] \in Nat /\ w[i] \in Nat /\ us[i] \in TopUp
      BY <1>1, <1>2, <2>1
    <2>3. w[i] = Left(us[i], w[i - 1])
      BY <1>2
    <2>4. /\ w[i - 1] - w[i] \in Nat
          /\ w[i - 1] - w[i] <= us[i].remaining
          /\ Usable(us[i]) /\ w[i] > 0 => w[i - 1] - w[i] = us[i].remaining
      BY <2>2, <2>3, LeftFacts
    <2>5. us[i].remaining \in Nat /\ us[i].expires \in Nat /\ us[i].amount \in Nat
      BY <2>2 DEF TopUp
    <2>6. /\ us[i].remaining <= us[i].amount
          /\ us[i].status = "depleted" <=> us[i].remaining = 0
          /\ us[i].status = "expired" => us[i].expires <= now
      BY <1>1 DEF Sound, n
    <2> QED  BY <2>1, <2>2, <2>3, <2>4, <2>5, <2>6
  <1>7. ASSUME NEW i \in 1..n
        PROVE  /\ vs[i] \in TopUp
               /\ vs[i].amount = us[i].amount
               /\ vs[i].expires = us[i].expires
               /\ vs[i].remaining = us[i].remaining - paid(i)
               /\ vs[i].remaining <= us[i].amount
               /\ vs[i].status = "depleted" <=> vs[i].remaining = 0
               /\ vs[i].status = "expired" => us[i].status = "expired"
    <2> DEFINE p == paid(i)
    <2>1. p \in Nat /\ p = w[i - 1] - Left(us[i], w[i - 1]) /\ w[i - 1] \in Nat
      BY <1>6
    <2>2. us[i] \in TopUp /\ vs[i] = Pay(us[i], p)
      BY <1>1, <1>4
    <2>3. us[i].remaining <= us[i].amount /\ (us[i].status = "depleted" <=> us[i].remaining = 0)
      BY <1>6
    <2> HIDE DEF p
    <2>4. /\ vs[i] \in TopUp
          /\ vs[i].amount = us[i].amount
          /\ vs[i].expires = us[i].expires
          /\ vs[i].remaining = us[i].remaining - p
          /\ vs[i].remaining <= us[i].amount
          /\ vs[i].status = "depleted" <=> vs[i].remaining = 0
          /\ vs[i].status = "expired" => us[i].status = "expired"
      BY <2>1, <2>2, <2>3, PayFacts
    <2> QED  BY <2>4 DEF p
  <1>8. vs \in Seq(TopUp) /\ Len(vs) = n
    <2>1. vs \in [1..n -> TopUp]
      BY <1>5, <1>7
    <2> QED  BY <1>1, <2>1
  <1>9. Sound(vs, now)
    <2>1. SUFFICES ASSUME NEW i \in 1..n
                   PROVE  /\ vs[i].remaining <= vs[i].amount
                          /\ vs[i].status = "depleted" <=> vs[i].remaining = 0
                          /\ vs[i].status = "expired" => vs[i].expires <= now
      BY <1>8 DEF Sound
    <2>2. us[i].status = "expired" => us[i].expires <= now
      BY <1>6
    <2> QED  BY <1>7, <2>2
  <1>10. InOrder(vs, now)
    <2>1. SUFFICES ASSUME NEW j \in 1..n, NEW i \in 1..(j - 1),
                          vs[j].remaining < vs[j].amount
                   PROVE  vs[i].remaining = 0 \/ vs[i].expires <= now
      BY <1>8 DEF InOrder
    <2>2. i \in 1..n /\ i \in 0..n /\ j - 1 \in i..n
      BY <1>1
    <2>3. /\ vs[i].expires = us[i].expires /\ vs[i].remaining = us[i].remaining - paid(i)
          /\ us[i].remaining \in Nat /\ paid(i) \in Nat /\ paid(i) <= us[i].remaining
      BY <1>6, <1>7, <2>2
    <2>4. CASE paid(j) = 0
      <3>1. us[j].remaining < us[j].amount
        <4>1. vs[j].amount = us[j].amount /\ vs[j].remaining = us[j].remaining - paid(j)
          BY <1>7
        <4>2. us[j].remaining \in Nat
          BY <1>6
        <4> HIDE DEF paid
        <4> QED  BY <2>1, <2>4, <4>1, <4>2
      <3>2. us[i].remaining = 0 \/ us[i].expires <= now
        BY <3>1 DEF InOrder, n
      <3> QED  BY <2>3, <3>2
    <2>5. CASE paid(j) # 0
      <3>1. w[j - 1] > 0
        BY <1>6, <2>5
      <3>2. w[i] > 0
        <4>1. w[j - 1] <= w[i] /\ w[i] \in Nat /\ w[j - 1] \in Nat
          BY <1>3, <1>6, <2>2
        <4> QED  BY <3>1, <4>1
      <3>3. CASE Usable(us[i])
        <4>1. paid(i) = us[i].remaining
          BY <1>6, <2>2, <3>2, <3>3
        <4> QED  BY <2>3, <4>1
      <3>4. CASE ~Usable(us[i])
        <4>1. us[i].status \in TopUpStatus /\ us[i].expires \in Nat
          BY <1>1, <2>2 DEF TopUp
        <4>2. /\ us[i].status = "depleted" => us[i].remaining = 0
              /\ us[i].status = "expired" => us[i].expires <= now
          BY <1>6, <2>2
        <4>3. us[i].status # "active" \/ ~(us[i].remaining > 0) \/ ~(us[i].expires > now)
          BY <3>4 DEF Usable
        <4>4. us[i].remaining \in Nat
          BY <2>3
        <4>5. us[i].remaining = 0 \/ us[i].expires <= now
          BY <4>1, <4>2, <4>3, <4>4 DEF TopUpStatus
        <4> QED  BY <2>3, <4>5
      <3> QED  BY <3>3, <3>4
    <2> QED  BY <2>4, <2>5
  <1>11. Lost(vs)[n] = Lost(us)[n] + debt
    <2> DEFINE d == [i \in 0..n |-> 0 - w[i]]
    <2>1. d \in [0..n -> Int]
      BY <1>2
    <2>2. ASSUME NEW i \in 1..n
          PROVE  vs[i].amount - vs[i].remaining
                     = (us[i].amount - us[i].remaining) + (d[i] - d[i - 1])
      <3>1. i \in 0..n /\ i - 1 \in 0..n
        BY <1>6, <1>1
      <3>2. d[i] = 0 - w[i] /\ d[i - 1] = 0 - w[i - 1]
        BY <3>1
      <3>3. /\ vs[i].amount = us[i].amount
            /\ vs[i].remaining = us[i].remaining - (w[i - 1] - w[i])
        BY <1>7
      <3>4. /\ us[i].amount \in Nat /\ us[i].remaining \in Nat
            /\ w[i] \in Nat /\ w[i - 1] \in Nat
        BY <1>6
      <3> DEFINE a == us[i].amount
                 r == us[i].remaining
                 x == w[i - 1]
                 y == w[i]
                 s == vs[i].remaining
      <3>5. /\ a \in Int /\ r \in Int /\ x \in Int /\ y \in Int
            /\ vs[i].amount = a /\ s = r - (x - y)
            /\ d[i] = 0 - y /\ d[i - 1] = 0 - x
        BY <3>2, <3>3, <3>4
      <3> HIDE DEF a, r, x, y, s, d
      <3>6. a - s = (a - r) + ((0 - y) - (0 - x))
        BY <3>5
      <3> QED  BY <3>5, <3>6 DEF a, r, s
    <2>3. d[0] = 0 - debt /\ d[n] = 0
      BY <1>1, <1>2
    <2> HIDE DEF d
    <2>4. Lost(vs)[n] = Lost(us)[n] + (d[n] - d[0])
      <3>1. us \in Seq(TopUp) /\ vs \in Seq(TopUp) /\ Len(us) = n /\ Len(us) <= Len(vs)
        BY <1>1, <1>8 DEF n
      <3>2. d \in [0..Len(us) -> Int]
        BY <2>1, <3>1
      <3>3. \A i \in 1..Len(us) :
               vs[i].amount - vs[i].remaining
                   = (us[i].amount - us[i].remaining) + (d[i] - d[i - 1])
        BY <2>2, <3>1
      <3>4. Lost(vs)[Len(us)] = Lost(us)[Len(us)] + (d[Len(us)] - d[0])
        BY <3>1, <3>2, <3>3, LostMore
      <3> QED  BY <3>1, <3>4
    <2>5. Lost(us)[n] \in Int
      BY <1>1, LostFacts DEF n
    <2> QED  BY <2>3, <2>4, <2>5
  <1> QED  BY <1>8, <1>9, <1>10, <1>11 DEF n

\* A step that changes one tenant's top-ups.
LEMMA TenantStep ==
    ASSUME TopUpInv, IInv, NEW t \in Tenants, NEW vs, NEW more \in Int,
           topups' = [topups EXCEPT ![t] = vs], now' = now,
           recorded' = [recorded EXCEPT ![t] = @ + more],
           Sound(vs, now), InOrder(vs, now),
           Lost(vs)[Len(vs)] = Lost(topups[t])[Len(topups[t])] + more
    PROVE  TopUpInv'
  <1>1. /\ topups \in [Tenants -> Seq(TopUp)] /\ recorded \in [Tenants -> Nat]
        /\ vs \in Seq(TopUp)
    BY DEF TopUpInv, IInv, RowsOK, Sound
  <1>2. topups' \in [Tenants -> Seq(TopUp)]
    BY <1>1
  <1>3. ASSUME NEW u \in Tenants
        PROVE  /\ Sound(topups'[u], now)
               /\ InOrder(topups'[u], now)
               /\ Lost(topups'[u])[Len(topups'[u])] = recorded'[u]
    <2>1. CASE u = t
      <3>1. topups'[u] = vs /\ recorded'[u] = recorded[t] + more
        BY <1>1, <2>1
      <3>2. Lost(topups[t])[Len(topups[t])] = recorded[t]
        BY DEF TopUpInv
      <3> QED  BY <3>1, <3>2
    <2>2. CASE u # t
      <3>1. topups'[u] = topups[u] /\ recorded'[u] = recorded[u]
        BY <1>1, <2>2
      <3> QED  BY <3>1 DEF TopUpInv
    <2> QED  BY <2>1, <2>2
  <1> QED  BY <1>2, <1>3 DEF TopUpInv

LEMMA PurchaseStep ==
    ASSUME TopUpInv, IInv, NEW t \in Tenants, NEW a \in Amounts, PurchaseTopUp(t, a)
    PROVE  TopUpInv'
  <1> DEFINE us == topups[t]
             n == Len(us)
             u == [amount |-> a, remaining |-> a, status |-> "active",
                   expires |-> now + Lifetime]
             vs == Append(us, u)
  <1>1. /\ us \in Seq(TopUp) /\ n \in Nat /\ Sound(us, now) /\ InOrder(us, now)
        /\ a \in Nat \ {0} /\ now \in Nat /\ Lifetime \in Nat
    BY CreditsAssumption DEF TopUpInv, IInv, RowsOK
  <1>2. u \in TopUp /\ u.amount = a /\ u.remaining = a /\ u.status = "active"
    BY <1>1 DEF TopUp, TopUpStatus
  <1>3. /\ topups' = [topups EXCEPT ![t] = vs]
        /\ now' = now /\ recorded' = recorded
    BY DEF PurchaseTopUp, history
  <1> HIDE DEF us, u
  <1>4. /\ vs \in Seq(TopUp) /\ Len(vs) = n + 1 /\ vs[n + 1] = u
        /\ \A i \in 1..n : vs[i] = us[i]
    BY <1>1, <1>2
  <1> HIDE DEF vs, n
  <1>5. Sound(vs, now)
    <2>1. SUFFICES ASSUME NEW i \in 1..(n + 1)
                   PROVE  /\ vs[i].remaining <= vs[i].amount
                          /\ vs[i].status = "depleted" <=> vs[i].remaining = 0
                          /\ vs[i].status = "expired" => vs[i].expires <= now
      BY <1>4 DEF Sound
    <2>2. CASE i = n + 1
      BY <1>1, <1>2, <1>4, <2>2
    <2>3. CASE i # n + 1
      <3>1. i \in 1..n
        BY <1>1, <2>3
      <3> QED  BY <1>1, <1>4, <3>1 DEF Sound, n
    <2> QED  BY <2>2, <2>3
  <1>6. InOrder(vs, now)
    <2>1. SUFFICES ASSUME NEW j \in 1..(n + 1), NEW i \in 1..(j - 1),
                          vs[j].remaining < vs[j].amount
                   PROVE  vs[i].remaining = 0 \/ vs[i].expires <= now
      BY <1>4 DEF InOrder
    <2>2. j # n + 1
      BY <1>1, <1>2, <1>4, <2>1
    <2>3. j \in 1..n /\ i \in 1..n
      BY <1>1, <2>2
    <2>4. us[j].remaining < us[j].amount
      BY <1>4, <2>1, <2>3
    <2>5. us[i].remaining = 0 \/ us[i].expires <= now
      BY <1>1, <2>3, <2>4 DEF InOrder, n
    <2> QED  BY <1>4, <2>3, <2>5
  <1>7. Lost(vs)[Len(vs)] = Lost(us)[n]
    <2>1. Len(us) = n /\ Len(us) <= Len(vs)
      BY <1>1, <1>4 DEF n
    <2>2. Lost(vs)[n] = Lost(us)[n]
      BY <1>1, <1>4, <2>1, LostSame
    <2>3. Lost(vs) \in [0..(n + 1) -> Int] /\ n + 1 \in 1..(n + 1) /\ n \in 0..(n + 1)
      <3>1. Lost(vs) \in [0..Len(vs) -> Int]
        BY <1>4, LostFacts
      <3> QED  BY <1>1, <1>4, <3>1
    <2>4. Lost(vs)[n + 1] = Lost(vs)[(n + 1) - 1] + (vs[n + 1].amount - vs[n + 1].remaining)
      BY <1>4, <2>3, LostFacts
    <2>5. (n + 1) - 1 = n /\ vs[n + 1].amount - vs[n + 1].remaining = 0
      BY <1>1, <1>2, <1>4
    <2>6. Lost(vs)[n] \in Int
      BY <2>3
    <2> QED  BY <1>4, <2>2, <2>4, <2>5, <2>6
  <1>8. Lost(vs)[Len(vs)] = Lost(topups[t])[Len(topups[t])] + 0
    <2>1. Lost(us)[n] \in Int
      BY <1>1, LostFacts DEF n
    <2> QED  BY <1>7, <2>1 DEF us, n
  <1>9. recorded' = [recorded EXCEPT ![t] = @ + 0]
    <2>1. recorded \in [Tenants -> Nat] /\ recorded[t] + 0 = recorded[t]
      BY DEF IInv, RowsOK
    <2> QED  BY <1>3, <2>1
  <1> DEFINE none == 0
  <1>10. /\ none \in Int
         /\ Lost(vs)[Len(vs)] = Lost(topups[t])[Len(topups[t])] + none
         /\ recorded' = [recorded EXCEPT ![t] = @ + none]
    BY <1>8, <1>9
  <1> HIDE DEF none
  <1> QED  BY <1>3, <1>5, <1>6, <1>10, TenantStep

LEMMA ExpireStep ==
    ASSUME TopUpInv, IInv, NEW t \in Tenants, ExpireTopUps(t)
    PROVE  TopUpInv'
  <1> DEFINE us == topups[t]
             n == Len(us)
             ended(u) == u.status = "active" /\ u.expires <= now
             vs == [i \in DOMAIN us |->
                       IF ended(us[i]) THEN [us[i] EXCEPT !.status = "expired"] ELSE us[i]]
  <1>1. /\ us \in Seq(TopUp) /\ n \in Nat /\ DOMAIN us = 1..n
        /\ Sound(us, now) /\ InOrder(us, now)
    BY DEF TopUpInv
  <1>2. /\ topups' = [topups EXCEPT ![t] = vs]
        /\ now' = now /\ recorded' = recorded
    BY <1>1 DEF ExpireTopUps, history, TopUpInv
  <1>3. vs = [i \in 1..n |->
                 IF ended(us[i]) THEN [us[i] EXCEPT !.status = "expired"] ELSE us[i]]
    BY <1>1
  <1> HIDE DEF vs
  <1>4. ASSUME NEW i \in 1..n
        PROVE  /\ vs[i] \in TopUp
               /\ vs[i].amount = us[i].amount /\ vs[i].remaining = us[i].remaining
               /\ vs[i].expires = us[i].expires
               /\ \/ vs[i].status = us[i].status
                  \/ /\ us[i].status = "active" /\ vs[i].status = "expired"
                     /\ us[i].expires <= now
    <2>1. us[i] \in TopUp
      BY <1>1
    <2>2. CASE ended(us[i])
      <3>1. vs[i] = [us[i] EXCEPT !.status = "expired"]
        BY <1>3, <2>2
      <3>2. "expired" \in TopUpStatus
        BY DEF TopUpStatus
      <3> QED  BY <2>1, <2>2, <3>1, <3>2 DEF TopUp
    <2>3. CASE ~ended(us[i])
      BY <1>3, <2>1, <2>3
    <2> QED  BY <2>2, <2>3
  <1>5. vs \in Seq(TopUp) /\ Len(vs) = n
    <2>1. vs \in [1..n -> TopUp]
      BY <1>3, <1>4
    <2> QED  BY <1>1, <2>1
  <1> HIDE DEF us, n
  <1>6. Sound(vs, now)
    <2>1. SUFFICES ASSUME NEW i \in 1..n
                   PROVE  /\ vs[i].remaining <= vs[i].amount
                          /\ vs[i].status = "depleted" <=> vs[i].remaining = 0
                          /\ vs[i].status = "expired" => vs[i].expires <= now
      BY <1>5 DEF Sound
    <2>2. /\ us[i].remaining <= us[i].amount
          /\ us[i].status = "depleted" <=> us[i].remaining = 0
          /\ us[i].status = "expired" => us[i].expires <= now
      BY <1>1 DEF Sound, n
    <2> QED  BY <1>4, <2>2
  <1>7. InOrder(vs, now)
    <2>1. SUFFICES ASSUME NEW j \in 1..n, NEW i \in 1..(j - 1),
                          vs[j].remaining < vs[j].amount
                   PROVE  vs[i].remaining = 0 \/ vs[i].expires <= now
      BY <1>5 DEF InOrder
    <2>2. i \in 1..n
      BY <1>1
    <2>3. us[i].remaining = 0 \/ us[i].expires <= now
      BY <1>1, <1>4, <2>1 DEF InOrder, n
    <2> QED  BY <1>4, <2>2, <2>3
  <1>8. Lost(vs)[n] = Lost(us)[n]
    <2>1. Len(us) = n /\ Len(us) <= Len(vs)
      BY <1>1, <1>5 DEF n
    <2> QED  BY <1>1, <1>4, <1>5, <2>1, LostSame
  <1>9. Lost(vs)[Len(vs)] = Lost(topups[t])[Len(topups[t])] + 0
    <2>1. Lost(us)[n] \in Int
      BY <1>1, LostFacts DEF n
    <2> QED  BY <1>5, <1>8, <2>1 DEF us, n
  <1>10. recorded' = [recorded EXCEPT ![t] = @ + 0]
    <2>1. recorded \in [Tenants -> Nat] /\ recorded[t] + 0 = recorded[t]
      BY DEF IInv, RowsOK
    <2> QED  BY <1>2, <2>1
  <1> DEFINE none == 0
  <1>11. /\ none \in Int
         /\ Lost(vs)[Len(vs)] = Lost(topups[t])[Len(topups[t])] + none
         /\ recorded' = [recorded EXCEPT ![t] = @ + none]
    BY <1>9, <1>10
  <1> HIDE DEF none
  <1> QED  BY <1>2, <1>6, <1>7, <1>11, TenantStep

LEMMA PayStep ==
    ASSUME TopUpInv, IInv, NEW t \in Tenants, Consume(t)
    PROVE  TopUpInv'
  <1> DEFINE us == topups[t]
             debt == spending[t].amount - spending[t].fromPlan
             w == Owed(us, debt)
             vs == [i \in DOMAIN us |-> Pay(us[i], w[i - 1] - w[i])]
  <1>1. debt \in Nat /\ now \in Nat
    <2>1. spending[t] # NoRow
      BY DEF Consume, Unlocked
    <2>2. /\ spending[t] \in Spending /\ spending[t].fromPlan <= spending[t].amount
          /\ now \in Nat
      BY <2>1 DEF IInv, RowsOK, LockInv
    <2> QED  BY <2>2 DEF Spending
  <1>2. Sound(us, now) /\ InOrder(us, now)
    BY DEF TopUpInv
  <1>3. /\ w[Len(us)] = 0
        /\ topups' = [topups EXCEPT ![t] = vs]
        /\ recorded' = [recorded EXCEPT ![t] = @ + debt]
        /\ now' = now
    BY DEF Consume, Record, TopUpInv
  <1>4. /\ Sound(vs, now) /\ InOrder(vs, now)
        /\ Lost(vs)[Len(vs)] = Lost(us)[Len(us)] + debt
    BY <1>1, <1>2, <1>3, PaysInOrder
  <1>5. debt \in Int
    BY <1>1
  <1> HIDE DEF vs, debt
  <1> QED  BY <1>3, <1>4, <1>5, TenantStep

LEMMA OtherTopUpStep ==
    ASSUME TopUpInv, IInv, UNCHANGED <<topups, recorded>>, now' = now \/ now' = now + 1
    PROVE  TopUpInv'
  <1>1. ASSUME NEW t \in Tenants
        PROVE  Sound(topups[t], now') /\ InOrder(topups[t], now')
    <2> DEFINE us == topups[t]
    <2>1. Sound(us, now) /\ InOrder(us, now) /\ us \in Seq(TopUp)
      BY DEF TopUpInv
    <2>2. \A i \in 1..Len(us) : us[i].expires \in Nat
      BY <2>1, TopUpTypes
    <2>3. now \in Nat
      BY DEF IInv, RowsOK
    <2> HIDE DEF us
    <2>4. Sound(us, now')
      BY <2>1, <2>2, <2>3 DEF Sound
    <2>5. InOrder(us, now')
      BY <2>1, <2>2, <2>3 DEF InOrder
    <2> QED  BY <2>4, <2>5 DEF us
  <1> QED  BY <1>1 DEF TopUpInv

LEMMA InitTopUps ==
    ASSUME Init
    PROVE  TopUpInv
  <1>1. << >> \in Seq(TopUp) /\ Len(<< >>) = 0
    OBVIOUS
  <1>2. Lost(<< >>)[0] = 0
    BY <1>1, LostFacts
  <1>3. Sound(<< >>, 0) /\ InOrder(<< >>, 0)
    BY <1>1 DEF Sound, InOrder
  <1> QED  BY <1>1, <1>2, <1>3 DEF Init, TopUpInv

LEMMA NextTopUps ==
    ASSUME TopUpInv, IInv, [Next]_vars
    PROVE  TopUpInv'
  <1>1. CASE UNCHANGED vars
    BY <1>1, OtherTopUpStep DEF vars, history
  <1>2. ASSUME NEW p \in Plans, PlanRequest(p)
        PROVE  TopUpInv'
    BY <1>2, OtherTopUpStep DEF PlanRequest, CreatePlan, UpdatePlan, ArchivePlan, history
  <1>3. ASSUME NEW t \in Tenants, SubscriptionRequest(t)
        PROVE  TopUpInv'
    <2>1. UNCHANGED <<now, topups, recorded>>
      BY <1>3 DEF SubscriptionRequest, CreateSubscription, ChangePlan, CancelSubscription,
                  ReactivateSubscription, ResetSubscription, history
    <2> QED  BY <2>1, OtherTopUpStep
  <1>4. ASSUME NEW t \in Tenants, Use(t)
        PROVE  TopUpInv'
    <2>1. ASSUME ReadStatus(t) \/ WriteRenewal(t) \/ Insufficient(t)
                   \/ \E a \in Amounts : BeginConsume(t, a)
          PROVE  TopUpInv'
      <3>1. UNCHANGED <<now, topups, recorded>>
        BY <2>1 DEF ReadStatus, WriteRenewal, Insufficient, BeginConsume, history
      <3> QED  BY <3>1, OtherTopUpStep
    <2> QED  BY <1>4, <2>1, PurchaseStep, PayStep DEF Use
  <1>5. ASSUME NEW t \in Tenants, Job(t)
        PROVE  TopUpInv'
    <2>1. ASSUME ResetMonthlyCredits(t)
          PROVE  UNCHANGED <<now, topups, recorded>>
      BY <2>1 DEF ResetMonthlyCredits
    <2> QED  BY <1>5, <2>1, ExpireStep, OtherTopUpStep DEF Job
  <1>6. CASE Tick
    BY <1>6, OtherTopUpStep DEF Tick, history
  <1> QED  BY <1>1, <1>2, <1>3, <1>4, <1>5, <1>6 DEF Next

LEMMA TopUpInvariant == Spec => []TopUpInv
  <1>1. Init => TopUpInv
    BY InitTopUps
  <1>2. IInv /\ TopUpInv /\ [Next]_vars => TopUpInv'
    BY NextTopUps
  <1> QED  BY <1>1, <1>2, Invariant, PTL DEF Spec

-----------------------------------------------------------------------------
(* Theorems                                                                *)

\* The rows keep their types; in particular neither a subscription's credits
\* nor a top-up's become negative, since what consume_credits found in the row
\* that it locked is still there when it subtracts.
THEOREM TypeCorrect == Spec => []TypeOK
  <1>1. IInv /\ TopUpInv => TypeOK
    BY DEF IInv, TopUpInv, TypeOK
  <1> QED  BY <1>1, Invariant, TopUpInvariant, PTL

\* _reset_billing_period, in the job and in status reads, renews a tenant's
\* credits at most once in a period, unless a status read overwrote a period
\* that somebody else had renewed since it read.
THEOREM AtMostOnePerPeriod == Spec => []RenewedOncePerPeriod
  <1>1. IInv => RenewedOncePerPeriod
    <2>1. SUFFICES ASSUME IInv, NEW t \in Tenants, t \notin overwritten
                   PROVE  Cycle * renewals[t] <= now
      BY DEF RenewedOncePerPeriod
    <2>2. /\ now \in Nat /\ Cycle \in Nat /\ renewals[t] \in Nat
          /\ Cycle * renewals[t] \in Nat
      BY <2>1, CreditsAssumption, OneMore DEF IInv, RowsOK
    <2>3. CASE Subscribed(t)
      <3>1. sub[t].start \in Nat
        BY <2>1, <2>3 DEF IInv, RowsOK, Subscribed, Subscription
      <3> QED  BY <2>1, <2>2, <2>3, <3>1 DEF IInv, PeriodInv
    <2>4. CASE ~Subscribed(t)
      BY <2>1, <2>2, <2>4 DEF IInv, PeriodInv
    <2> QED  BY <2>3, <2>4
  <1> QED  BY <1>1, Invariant, PTL

\* What consume_credits recorded as paid by top-ups is what they have lost, and
\* a top-up is depleted exactly when nothing remains of it.
THEOREM TopUpsAreAccounted == Spec => []TopUpsAccounted
  <1>1. TopUpInv => TopUpsAccounted
    <2>1. SUFFICES ASSUME TopUpInv, NEW t \in Tenants
                   PROVE  /\ Lost(topups[t])[Len(topups[t])] = recorded[t]
                          /\ \A i \in DOMAIN topups[t] :
                                topups[t][i].status = "depleted"
                                    <=> topups[t][i].remaining = 0
      BY DEF TopUpsAccounted, Lost
    <2>2. topups[t] \in Seq(TopUp) /\ DOMAIN topups[t] = 1..Len(topups[t])
      BY <2>1 DEF TopUpInv
    <2> QED  BY <2>1, <2>2 DEF TopUpInv, Sound
  <1> QED  BY <1>1, TopUpInvariant, PTL

\* The loop of consume_credits: a top-up is touched only when every older one
\* is used up or has expired, whatever was bought or expired meanwhile; purchases
\* commit in the order they began.
THEOREM OldestPaysFirst == Spec => []OldestFirst
  <1>1. TopUpInv => OldestFirst
    <2>1. SUFFICES ASSUME TopUpInv, NEW t \in Tenants, NEW j \in DOMAIN topups[t],
                          NEW i \in 1..(j - 1),
                          topups[t][j].remaining < topups[t][j].amount
                   PROVE  topups[t][i].remaining = 0 \/ topups[t][i].expires <= now
      BY DEF OldestFirst
    <2>2. j \in 1..Len(topups[t])
      BY <2>1 DEF TopUpInv
    <2> QED  BY <2>1, <2>2 DEF TopUpInv, InOrder
  <1> QED  BY <1>1, TopUpInvariant, PTL
=============================================================================
