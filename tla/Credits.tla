-------------------------------- MODULE Credits --------------------------------
(***************************************************************************)
(* Subscriptions, plan credits and top-ups of the tenants: the services    *)
(* SubscriptionService and BillingService.consume_credits of the gateway   *)
(* over the database, and the two scheduled jobs that renew periods and    *)
(* expire top-ups.                                                         *)
(*                                                                         *)
(* A transaction that locks every row it reads (FOR UPDATE) is one step;   *)
(* consume_credits, which reads the top-ups only after it has the          *)
(* subscription's lock, is two.  get_subscription_with_plan reads without  *)
(* a lock and may write the renewed period back later.  A rolled back      *)
(* transaction changes nothing and is not a step, except where it ends     *)
(* one begun before.                                                       *)
(***************************************************************************)
EXTENDS Integers, Sequences

CONSTANTS
    Tenants,
    Plans,
    Amounts,     \* credits that are bought or asked for
    Grants,      \* monthly credits of a plan
    Cycle,       \* billing_cycle_days, in ticks of the clock
    Lifetime,    \* extra_credit_lifetime_days
    NoRow,       \* no subscription, no status read, no consumption
    MaxTime,     \* bound: ticks
    MaxTopUps,   \* bound: top-ups of a tenant
    MaxRequests  \* bound: changes of plans and subscriptions

VARIABLES
    now,
    plan,       \* plan[p]: its status and monthly credits
    sub,        \* sub[t]: the row of tenant_subscriptions, or NoRow
    topups,     \* topups[t]: the tenant's top-ups, oldest first
    spending,   \* spending[t]: the transaction holding the lock of sub[t]
    reading,    \* reading[t]: a status read that found the period ended
    requests,
    \* history, read by properties only
    recorded,   \* recorded[t]: top-up credits in CreditUsageRecord
    renewals,   \* renewals[t]: periods begun by the job or a status read
    overwritten \* tenants whose renewed period a late status read overwrote

history == <<recorded, renewals, overwritten>>
vars == <<now, plan, sub, topups, spending, reading, requests, history>>

SubStatus == {"trial", "active", "cancelled"}
TopUpStatus == {"active", "depleted", "expired"}
Subscription ==
    [plan : Plans, status : SubStatus, start : Nat, end : Nat, credits : Nat,
     trialEnds : Nat, cancelAtEnd : BOOLEAN]
TopUp == [amount : Nat, remaining : Nat, status : TopUpStatus, expires : Nat]
PlanStatus == {"draft", "active", "archived"}
Plan == [status : PlanStatus \cup {"none"}, monthly : Nat]
Spending == [amount : Nat, fromPlan : Nat]
Reading == [row : Subscription, monthly : Nat, at : Nat]

ASSUME CreditsAssumption ==
    /\ Amounts \subseteq Nat \ {0}
    /\ Grants \subseteq Nat
    /\ Cycle \in Nat \ {0}
    /\ Lifetime \in Nat
    /\ MaxTime \in Nat
    /\ MaxTopUps \in Nat
    /\ MaxRequests \in Nat
    /\ NoRow \notin Subscription \cup Reading

\* The rows other than the top-ups, and the histories.
RowsOK ==
    /\ now \in Nat
    /\ plan \in [Plans -> Plan]
    /\ sub \in [Tenants -> Subscription \cup {NoRow}]
    /\ spending \in [Tenants -> Spending \cup {NoRow}]
    /\ reading \in [Tenants -> Reading \cup {NoRow}]
    /\ requests \in Nat
    /\ recorded \in [Tenants -> Nat]
    /\ renewals \in [Tenants -> Nat]
    /\ overwritten \subseteq Tenants

TypeOK == RowsOK /\ topups \in [Tenants -> Seq(TopUp)]

Init ==
    /\ now = 0
    /\ plan = [p \in Plans |-> [status |-> "none", monthly |-> 0]]
    /\ sub = [t \in Tenants |-> NoRow]
    /\ topups = [t \in Tenants |-> <<>>]
    /\ spending = [t \in Tenants |-> NoRow]
    /\ reading = [t \in Tenants |-> NoRow]
    /\ requests = 0
    /\ recorded = [t \in Tenants |-> 0]
    /\ renewals = [t \in Tenants |-> 0]
    /\ overwritten = {}

Request == requests < MaxRequests /\ requests' = requests + 1

Subscribed(t) == sub[t] # NoRow
Unlocked(t) == spending[t] = NoRow

-----------------------------------------------------------------------------
(* Plans and subscriptions                                                 *)

CreatePlan(p, a) ==
    /\ plan[p].status = "none"
    /\ plan' = [plan EXCEPT ![p] = [status |-> "active", monthly |-> a]]
    /\ UNCHANGED <<now, sub, topups, spending, reading, requests, history>>

\* Subscriptions keep the credits they were granted.
UpdatePlan(p, status, a) ==
    /\ Request
    /\ plan[p].status # "none"
    /\ plan' = [plan EXCEPT ![p] = [status |-> status, monthly |-> a]]
    /\ UNCHANGED <<now, sub, topups, spending, reading, history>>

ArchivePlan(p) ==
    /\ Request
    /\ plan[p].status # "none"
    /\ plan' = [plan EXCEPT ![p].status = "archived"]
    /\ UNCHANGED <<now, sub, topups, spending, reading, history>>

CreateSubscription(t, p, trialDays) ==
    /\ ~Subscribed(t)
    /\ plan[p].status = "active"
    /\ sub' = [sub EXCEPT ![t] =
          [plan |-> p, status |-> IF trialDays > 0 THEN "trial" ELSE "active",
           start |-> now, end |-> now + Cycle, credits |-> plan[p].monthly,
           trialEnds |-> now + trialDays, cancelAtEnd |-> FALSE]]
    /\ UNCHANGED <<now, plan, topups, spending, reading, requests, history>>

\* The status and the period are left alone.
ChangePlan(t, p, prorate) ==
    /\ Request
    /\ Subscribed(t)
    /\ Unlocked(t)
    /\ plan[p].status = "active"
    /\ LET kept == IF prorate THEN sub[t].credits ELSE 0
       IN  sub' = [sub EXCEPT ![t].plan = p,
                              ![t].credits = kept + plan[p].monthly]
    /\ UNCHANGED <<now, plan, topups, spending, reading, history>>

CancelSubscription(t, atPeriodEnd) ==
    /\ Request
    /\ Subscribed(t)
    /\ Unlocked(t)
    /\ sub' = [sub EXCEPT ![t] =
          IF atPeriodEnd THEN [@ EXCEPT !.cancelAtEnd = TRUE]
          ELSE [@ EXCEPT !.status = "cancelled", !.credits = 0]]
    /\ UNCHANGED <<now, plan, topups, spending, reading, history>>

ReactivateSubscription(t) ==
    /\ Request
    /\ Subscribed(t)
    /\ Unlocked(t)
    /\ sub' = [sub EXCEPT ![t].status = "active", ![t].cancelAtEnd = FALSE]
    /\ UNCHANGED <<now, plan, topups, spending, reading, history>>

-----------------------------------------------------------------------------
(* Billing periods                                                         *)

Renewed(row, monthly, at) ==
    IF row.cancelAtEnd THEN [row EXCEPT !.status = "cancelled", !.credits = 0]
    ELSE [row EXCEPT !.start = at, !.end = at + Cycle, !.credits = monthly,
                     !.status = IF @ = "trial" /\ row.trialEnds <= at
                                THEN "active" ELSE @]

CountRenewal(t, row) ==
    renewals' = [renewals EXCEPT ![t] = IF row.cancelAtEnd THEN @ ELSE @ + 1]

\* Mutant: the job does not look at the end of the period.
AnyPeriod(t) == Subscribed(t) /\ sub[t].status \in {"active", "trial"}

\* What the job selects.
PeriodEnded(t) ==
    /\ Subscribed(t)
    /\ sub[t].status \in {"active", "trial"}
    /\ sub[t].end <= now

\* jobs/credit_reset.py: one row of the job's transaction.
ResetMonthlyCredits(t) ==
    /\ PeriodEnded(t)
    /\ Unlocked(t)
    /\ sub' = [sub EXCEPT ![t] = Renewed(@, plan[@.plan].monthly, now)]
    /\ CountRenewal(t, sub[t])
    /\ UNCHANGED <<now, plan, topups, spending, reading, requests, recorded,
                   overwritten>>

\* SubscriptionService.reset_monthly_credits: whatever the period.
ResetSubscription(t) ==
    /\ Request
    /\ Subscribed(t)
    /\ Unlocked(t)
    /\ sub' = [sub EXCEPT ![t] = Renewed(@, plan[@.plan].monthly, now)]
    /\ UNCHANGED <<now, plan, topups, spending, reading, history>>

\* get_subscription_with_plan: the rows are read without a lock ...
ReadStatus(t) ==
    /\ Subscribed(t)
    /\ reading[t] = NoRow
    /\ sub[t].end <= now
    /\ reading' = [reading EXCEPT ![t] =
          [row |-> sub[t], monthly |-> plan[sub[t].plan].monthly, at |-> now]]
    /\ UNCHANGED <<now, plan, sub, topups, spending, requests, history>>

\* ... and the UPDATE writes the columns whose value the reader changed.
WriteRenewal(t) ==
    /\ reading[t] # NoRow
    /\ Unlocked(t)
    /\ LET old == reading[t].row
           new == Renewed(old, reading[t].monthly, reading[t].at)
       IN  /\ sub' = [sub EXCEPT ![t] =
                 [c \in DOMAIN old |-> IF new[c] # old[c] THEN new[c] ELSE @[c]]]
           /\ CountRenewal(t, old)
           /\ overwritten' = IF sub[t].end # old.end THEN overwritten \cup {t}
                             ELSE overwritten
    /\ reading' = [reading EXCEPT ![t] = NoRow]
    /\ UNCHANGED <<now, plan, topups, spending, requests, recorded>>

-----------------------------------------------------------------------------
(* Top-ups and consumption                                                 *)

\* Neither the status of the subscription nor that of its plan matters.  topups is
\* in the order of created_at, the start of the purchase's transaction: purchases
\* that overlap and commit in the other order (they take no lock) are left out.
PurchaseTopUp(t, a) ==
    /\ Subscribed(t)
    /\ Len(topups[t]) < MaxTopUps
    /\ topups' = [topups EXCEPT ![t] = Append(@,
          [amount |-> a, remaining |-> a, status |-> "active",
           expires |-> now + Lifetime])]
    /\ UNCHANGED <<now, plan, sub, spending, reading, requests, history>>

ExpireTopUps(t) ==
    /\ \E i \in DOMAIN topups[t] :
          topups[t][i].status = "active" /\ topups[t][i].expires <= now
    /\ topups' = [topups EXCEPT ![t] = [i \in DOMAIN @ |->
          IF @[i].status = "active" /\ @[i].expires <= now
          THEN [@[i] EXCEPT !.status = "expired"] ELSE @[i]]]
    /\ UNCHANGED <<now, plan, sub, spending, reading, requests, history>>

\* consume_credits: the subscription is locked and the plan pays first ...
BeginConsume(t, a) ==
    /\ Subscribed(t)
    /\ Unlocked(t)
    /\ spending' = [spending EXCEPT ![t] = [amount |-> a,
          fromPlan |-> IF a <= sub[t].credits THEN a ELSE sub[t].credits]]
    /\ UNCHANGED <<now, plan, sub, topups, reading, requests, history>>

Usable(u) == u.status = "active" /\ u.remaining > 0 /\ u.expires > now

\* Mutant: a top-up that cannot pay the whole debt is passed over.
OwedWhole(us, debt) ==
    LET owed[i \in 0..Len(us)] ==
          IF i = 0 THEN debt
          ELSE IF Usable(us[i]) /\ us[i].remaining >= owed[i - 1] THEN 0
          ELSE owed[i - 1]
    IN  owed

\* owed[i]: what top-ups 1..i leave unpaid of a debt, the oldest paying first.
Owed(us, debt) ==
    LET owed[i \in 0..Len(us)] ==
          IF i = 0 THEN debt
          ELSE IF ~Usable(us[i]) THEN owed[i - 1]
          ELSE IF us[i].remaining >= owed[i - 1] THEN 0
          ELSE owed[i - 1] - us[i].remaining
    IN  owed

Pay(u, paid) ==
    [u EXCEPT !.remaining = @ - paid,
              !.status = IF paid > 0 /\ u.remaining = paid THEN "depleted" ELSE @]

\* The CreditUsageRecord: its topup_credits_used_micros.
Record(t, fromTopUps) == recorded' = [recorded EXCEPT ![t] = @ + fromTopUps]

\* ... then the top-ups, read now, pay the rest.
Consume(t) ==
    /\ ~Unlocked(t)
    /\ LET s == spending[t]
           owed == Owed(topups[t], s.amount - s.fromPlan)
       IN  /\ owed[Len(topups[t])] = 0
           /\ sub' = [sub EXCEPT ![t].credits = @ - s.fromPlan]
           /\ topups' = [topups EXCEPT ![t] = [i \in DOMAIN @ |->
                            Pay(@[i], owed[i - 1] - owed[i])]]
           /\ Record(t, s.amount - s.fromPlan)
    /\ spending' = [spending EXCEPT ![t] = NoRow]
    /\ UNCHANGED <<now, plan, reading, requests, renewals, overwritten>>

\* Mutant: what the top-ups paid is committed.
KeepPartial(t) ==
    /\ ~Unlocked(t)
    /\ LET s == spending[t]
           owed == Owed(topups[t], s.amount - s.fromPlan)
       IN  /\ owed[Len(topups[t])] > 0
           /\ topups' = [topups EXCEPT ![t] = [i \in DOMAIN @ |->
                            Pay(@[i], owed[i - 1] - owed[i])]]
    /\ spending' = [spending EXCEPT ![t] = NoRow]
    /\ UNCHANGED <<now, plan, sub, reading, requests, history>>

\* BillingError: the session rolls back what the plan and the top-ups paid.
Insufficient(t) ==
    /\ ~Unlocked(t)
    /\ LET s == spending[t]
       IN  Owed(topups[t], s.amount - s.fromPlan)[Len(topups[t])] > 0
    /\ spending' = [spending EXCEPT ![t] = NoRow]
    /\ UNCHANGED <<now, plan, sub, topups, reading, requests, history>>

Tick ==
    /\ now < MaxTime
    /\ now' = now + 1
    /\ UNCHANGED <<plan, sub, topups, spending, reading, requests, history>>

-----------------------------------------------------------------------------
PlanRequest(p) ==
    \/ \E a \in Grants : CreatePlan(p, a)
    \/ \E a \in Grants, status \in PlanStatus : UpdatePlan(p, status, a)
    \/ ArchivePlan(p)

SubscriptionRequest(t) ==
    \/ \E p \in Plans, days \in {0, Cycle + 1} : CreateSubscription(t, p, days)
    \/ \E p \in Plans, prorate \in BOOLEAN : ChangePlan(t, p, prorate)
    \/ \E atPeriodEnd \in BOOLEAN : CancelSubscription(t, atPeriodEnd)
    \/ ReactivateSubscription(t)
    \/ ResetSubscription(t)

\* The services' own callers: routers, jobs and tests.
Use(t) ==
    \/ ReadStatus(t)
    \/ WriteRenewal(t)
    \/ \E a \in Amounts : PurchaseTopUp(t, a) \/ BeginConsume(t, a)
    \/ Consume(t)
    \/ Insufficient(t)

Job(t) == ResetMonthlyCredits(t) \/ ExpireTopUps(t)

Next ==
    \/ \E p \in Plans : PlanRequest(p)
    \/ \E t \in Tenants : SubscriptionRequest(t) \/ Use(t) \/ Job(t)
    \/ Tick

Spec == Init /\ [][Next]_vars

-----------------------------------------------------------------------------
(* Properties                                                              *)

\* What consume_credits recorded as paid by top-ups is what they lost, and a
\* top-up is depleted exactly when nothing remains of it.
TopUpsAccounted ==
    \A t \in Tenants :
        LET us == topups[t]
            lost[i \in 0..Len(us)] ==
                IF i = 0 THEN 0 ELSE lost[i - 1] + (us[i].amount - us[i].remaining)
        IN  /\ lost[Len(us)] = recorded[t]
            /\ \A i \in DOMAIN us : us[i].status = "depleted" <=> us[i].remaining = 0

\* The loop of consume_credits: a top-up is touched only when every older one
\* is used up or has expired, whatever was bought or expired meanwhile; purchases
\* commit in the order they began.
OldestFirst ==
    \A t \in Tenants : \A j \in DOMAIN topups[t] : \A i \in 1..(j - 1) :
        topups[t][j].remaining < topups[t][j].amount =>
            topups[t][i].remaining = 0 \/ topups[t][i].expires <= now

\* The job and the status reads of _reset_billing_period together renew a
\* tenant's credits at most once in a period, unless a status read overwrote a
\* period that somebody else had renewed since it read.
RenewedOncePerPeriod ==
    \A t \in Tenants : t \notin overwritten => Cycle * renewals[t] <= now
=============================================================================
