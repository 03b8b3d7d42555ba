--------------------------------- MODULE Wallet ---------------------------------
(***************************************************************************)
(* The wallet of one partner: WalletService of the gateway.                *)
(*                                                                         *)
(* The balance is in the row of partner_wallets and, for at most a minute, *)
(* in a Redis key.  A reader that misses the key reads the row and stores  *)
(* what it read; a deposit commits and then deletes the key; a debit       *)
(* decrements the key, puts the amount back if that went below zero, and   *)
(* otherwise writes the row in a transaction of its own.  Each of these is *)
(* a step, so requests interleave between them.  DECRBY and INCRBY make a  *)
(* key that does not exist, from zero and without an expiry.               *)
(***************************************************************************)
EXTENDS Integers, Sequences, FiniteSets, Functions

CONSTANTS
    Requests,    \* concurrent requests of the gateway
    Amounts,     \* of a deposit or a debit
    Absent,      \* no row, no key
    MaxDeposits, \* bound: deposits
    MaxExpiries  \* bound: expiries of the key

PartnerWallet == [balance : Int, deposited : Nat, spent : Nat]
WalletDeposit == [amount : Amounts, status : {"pending", "completed"}]
KeyValue == [value : Int, expires : BOOLEAN]
Task ==
    [op : {"idle", "store", "decrement", "restore", "charge", "drop"},
     amount : Nat, value : Int, replaced : BOOLEAN]

ASSUME WalletAssumption ==
    /\ IsFiniteSet(Requests)
    /\ Amounts \subseteq Nat \ {0}
    /\ MaxDeposits \in Nat
    /\ MaxExpiries \in Nat
    /\ Absent \notin PartnerWallet \cup KeyValue

VARIABLES
    wallet,   \* the row, or Absent
    pool,     \* partners.credit_balance_micros
    deposits, \* the partner's deposits
    cache,    \* the Redis key, or Absent
    task,     \* task[r]: what request r does next
    expiries,
    raced,    \* history: the key was given more than the row can pay
    poolSet   \* history: the platform owner has set the pool

vars == <<wallet, pool, deposits, cache, task, expiries, raced, poolSet>>

TypeOK ==
    /\ wallet \in PartnerWallet \cup {Absent}
    /\ pool \in Nat
    /\ deposits \in Seq(WalletDeposit)
    /\ cache \in KeyValue \cup {Absent}
    /\ task \in [Requests -> Task]
    /\ expiries \in Nat
    /\ raced \in BOOLEAN
    /\ poolSet \in BOOLEAN

Idle == [op |-> "idle", amount |-> 0, value |-> 0, replaced |-> FALSE]
NewDeposit(a, status) == [amount |-> a, status |-> status]
NewWallet == [balance |-> 0, deposited |-> 0, spent |-> 0]

Init ==
    /\ wallet = Absent
    /\ pool = 0
    /\ deposits = <<>>
    /\ cache = Absent
    /\ task = [r \in Requests |-> Idle]
    /\ expiries = 0
    /\ raced = FALSE
    /\ poolSet = FALSE

Row == IF wallet = Absent THEN NewWallet ELSE wallet
Goto(r, op) == task' = [task EXCEPT ![r].op = op]
Done(r) == task' = [task EXCEPT ![r] = Idle]

\* The key is set or deleted: requests that decremented it will restore another.
Replaced ==
    [r \in Requests |-> [task[r] EXCEPT !.replaced = @ \/ task[r].op = "restore"]]

-----------------------------------------------------------------------------
(* get_balance and debit: the key                                          *)

\* What debits that were let through have not yet taken from the row.
Charged ==
    SumFunction([r \in Requests |->
                    IF task[r].op = "charge" THEN task[r].amount ELSE 0])

\* A miss: the row is read, and created if need be.  amount is 0 for
\* get_balance, which stops when it has stored the value.
Miss(r, a) ==
    /\ task[r].op = "idle"
    /\ cache = Absent
    /\ wallet' = Row
    /\ task' = [task EXCEPT ![r] =
          [op |-> "store", amount |-> a, value |-> Row.balance, replaced |-> FALSE]]
    /\ UNCHANGED <<pool, deposits, cache, expiries, raced, poolSet>>

Store(r) ==
    /\ task[r].op = "store"
    /\ cache' = [value |-> task[r].value, expires |-> TRUE]
    /\ raced' = (raced \/ task[r].value > Row.balance - Charged)
    /\ task' = [Replaced EXCEPT ![r] =
          IF @.amount = 0 THEN Idle ELSE [@ EXCEPT !.op = "decrement"]]
    /\ UNCHANGED <<wallet, pool, deposits, expiries, poolSet>>

Hit(r, a) ==
    /\ task[r].op = "idle"
    /\ cache # Absent
    /\ task' = [task EXCEPT ![r] = [Idle EXCEPT !.op = "decrement", !.amount = a]]
    /\ UNCHANGED <<wallet, pool, deposits, cache, expiries, raced, poolSet>>

\* DECRBY and INCRBY
Added(n) ==
    IF cache = Absent THEN [value |-> n, expires |-> FALSE]
    ELSE [cache EXCEPT !.value = @ + n]

\* Mutant: the key may go one amount below zero.
Covered(value) == value >= -1

Enough(value) == value >= 0

Decrement(r) ==
    /\ task[r].op = "decrement"
    /\ cache' = Added(-task[r].amount)
    /\ task' = [task EXCEPT ![r].op =
                    IF Enough(cache'.value) THEN "charge" ELSE "restore"]
    /\ UNCHANGED <<wallet, pool, deposits, expiries, raced, poolSet>>

\* WalletError follows.  The key may be another one by now.
Restore(r) ==
    /\ task[r].op = "restore"
    /\ cache' = Added(task[r].amount)
    /\ raced' = (raced \/ task[r].replaced)
    /\ Done(r)
    /\ UNCHANGED <<wallet, pool, deposits, expiries, poolSet>>

\* The row is locked, and not asked whether it can pay.
Charge(r) ==
    /\ task[r].op = "charge"
    /\ wallet' = [Row EXCEPT !.balance = @ - task[r].amount,
                             !.spent = @ + task[r].amount]
    /\ Done(r)
    /\ UNCHANGED <<pool, deposits, cache, expiries, raced, poolSet>>

-----------------------------------------------------------------------------
(* Deposits                                                                *)

Credit(a) ==
    /\ wallet' = [Row EXCEPT !.balance = @ + a, !.deposited = @ + a]
    /\ pool' = pool + a

Deposit(r, a, complete) ==
    /\ task[r].op = "idle"
    /\ Len(deposits) < MaxDeposits
    /\ deposits' = Append(deposits,
          NewDeposit(a, IF complete THEN "completed" ELSE "pending"))
    /\ IF complete THEN Credit(a) ELSE wallet' = Row /\ pool' = pool
    /\ Goto(r, "drop")
    /\ UNCHANGED <<cache, expiries, raced, poolSet>>

\* Mutant: the deposit's status is not looked at.
CompleteAgain(r, i) ==
    /\ task[r].op = "idle"
    /\ deposits' = [deposits EXCEPT ![i].status = "completed"]
    /\ Credit(deposits[i].amount)
    /\ Goto(r, "drop")
    /\ UNCHANGED <<cache, expiries, raced, poolSet>>

CompleteDeposit(r, i) ==
    /\ task[r].op = "idle"
    /\ deposits[i].status = "pending"
    /\ deposits' = [deposits EXCEPT ![i].status = "completed"]
    /\ Credit(deposits[i].amount)
    /\ Goto(r, "drop")
    /\ UNCHANGED <<cache, expiries, raced, poolSet>>

\* The platform owner sets the pool to a value of their own.  No lock is taken:
\* a deposit under way may overwrite it.
SetPool(v) ==
    /\ pool' = v
    /\ poolSet' = TRUE
    /\ UNCHANGED <<wallet, deposits, cache, task, expiries, raced>>

\* The key is deleted after the commit.
Drop(r) ==
    /\ task[r].op = "drop"
    /\ cache' = Absent
    /\ task' = [Replaced EXCEPT ![r] = Idle]
    /\ UNCHANGED <<wallet, pool, deposits, expiries, raced, poolSet>>

Expire ==
    /\ expiries < MaxExpiries
    /\ cache # Absent
    /\ cache.expires
    /\ cache' = Absent
    /\ task' = Replaced
    /\ expiries' = expiries + 1
    /\ UNCHANGED <<wallet, pool, deposits, raced, poolSet>>

Serve(r) ==
    \/ \E a \in Amounts \cup {0} : Miss(r, a)
    \/ \E a \in Amounts : Hit(r, a)
    \/ Store(r)
    \/ Decrement(r)
    \/ Restore(r)
    \/ Charge(r)
    \/ \E a \in Amounts, complete \in BOOLEAN : Deposit(r, a, complete)
    \/ \E i \in DOMAIN deposits : CompleteDeposit(r, i)
    \/ Drop(r)

Next ==
    \/ \E r \in Requests : Serve(r)
    \/ \E v \in Amounts : SetPool(v)
    \/ Expire

Spec == Init /\ [][Next]_vars

-----------------------------------------------------------------------------
(* Properties                                                              *)

\* The row adds up and was credited with each completed deposit once, however
\* many requests complete it; and so was the partner's credit pool, as long as
\* the platform owner has not set it.
WalletAccounted ==
    LET completed == {i \in DOMAIN deposits : deposits[i].status = "completed"}
    IN  /\ Row.balance = Row.deposited - Row.spent
        /\ Row.deposited = SumFunction([i \in completed |-> deposits[i].amount])
        /\ poolSet \/ pool = Row.deposited

\* debit looks at the key only.  The row goes below zero only after one of the
\* races that give the key more than the row can pay: a value read before
\* another debit wrote the row was stored after it, or a rejected amount was
\* put back on a key that had been replaced since.
OverdrawnOnlyIfRaced == Row.balance < 0 => raced
=============================================================================
