------------------------------ MODULE WalletProofs ------------------------------
(***************************************************************************)
(* What is proved of the wallet, for any number of requests: its types,    *)
(* that each deposit is credited once (WalletAccounted), and that the row  *)
(* is overdrawn only after one of the two races (OverdrawnOnlyIfRaced,     *)
(* from RaceInv).  The first part is about sums over a finite set; an      *)
(* induction in it is a set and its least element.                         *)
(***************************************************************************)
EXTENDS Wallet, FiniteSetTheorems, WellFoundedInduction, TLAPS

-----------------------------------------------------------------------------
(* Sums                                                                    *)

\* The least element of a set of numbers: what stands in for induction below.
LEMMA Least ==
    ASSUME NEW T \in SUBSET Nat, T # {}
    PROVE  \E x \in T : \A y \in T : x <= y
  <1> DEFINE R == OpToRel(<, Nat)
  <1>1. IsWellFoundedOn(R, Nat)
    BY NatLessThanWellFounded
  <1>2. \A x, y \in Nat : <<y, x>> \in R <=> y < x
    BY DEF OpToRel
  <1> HIDE DEF R
  <1>3. PICK x \in T : \A y \in T : <<y, x>> \notin R
    BY <1>1, WFMin
  <1>4. ASSUME NEW y \in T
        PROVE  x <= y
    <2>1. x \in Nat /\ y \in Nat
      OBVIOUS
    <2>2. ~(y < x)
      BY <1>2, <1>3, <2>1
    <2> QED  BY <2>1, <2>2
  <1> QED  BY <1>4

\* A property of the empty set, that a set has when each of its subsets with one
\* element less has it, is one of every finite set.
LEMMA Subsets ==
    ASSUME NEW D, IsFiniteSet(D), NEW P, {} \in P,
           \A s \in SUBSET D : s # {} /\ (\A x \in s : s \ {x} \in P) => s \in P
    PROVE  \A s \in SUBSET D : s \in P
  <1> SUFFICES ASSUME NEW r \in SUBSET D, r \notin P
               PROVE  FALSE
    OBVIOUS
  <1> DEFINE C == {Cardinality(s) : s \in {u \in SUBSET D : u \notin P}}
  <1>1. \A s \in SUBSET D : IsFiniteSet(s) /\ Cardinality(s) \in Nat
    BY FS_Subset, FS_CardinalityType
  <1>2. C \in SUBSET Nat /\ Cardinality(r) \in C
    BY <1>1
  <1>3. PICK n \in C : \A m \in C : n <= m
    BY <1>2, Least
  <1>4. PICK s \in SUBSET D : s \notin P /\ Cardinality(s) = n
    OBVIOUS
  <1>5. s # {}
    BY <1>4
  <1>6. PICK x \in s : s \ {x} \notin P
    BY <1>4, <1>5
  <1>7. Cardinality(s \ {x}) = Cardinality(s) - 1 /\ Cardinality(s) \in Nat
    BY <1>1, FS_RemoveElement
  <1>8. Cardinality(s \ {x}) \in C
    BY <1>6
  <1> HIDE DEF C
  <1> QED  BY <1>3, <1>4, <1>7, <1>8

\* The recursion along the subsets of D that a sum is made of.
Adds(T, f, D) ==
    T = [s \in SUBSET D |-> IF s = {} THEN 0
                            ELSE LET x == CHOOSE x \in s : TRUE
                                 IN  f[x] + T[s \ {x}]]


\* There is a sum for each subset of a finite set: the one that takes an element out
\* of a subset at a time.
LEMMA SumExists ==
    ASSUME NEW D, IsFiniteSet(D), NEW f \in [D -> Int]
    PROVE  \E T \in [SUBSET D -> Int] : Adds(T, f, D)
  <1> DEFINE c(s) == CHOOSE x \in s : TRUE
             n == Cardinality(D)
             L(k) == {s \in SUBSET D : Cardinality(s) <= k}
             Solves(T, k) == \A s \in L(k) :
                                T[s] = IF s = {} THEN 0 ELSE f[c(s)] + T[s \ {c(s)}]
             K == {k \in 0..n : \E T \in [L(k) -> Int] : Solves(T, k)}
  <1>1. n \in Nat
    BY FS_CardinalityType
  <1>2. ASSUME NEW s \in SUBSET D
        PROVE  /\ Cardinality(s) \in Nat /\ Cardinality(s) <= n
               /\ Cardinality(s) = 0 <=> s = {}
               /\ s # {} => /\ c(s) \in s
                            /\ Cardinality(s \ {c(s)}) = Cardinality(s) - 1
    <2>1. IsFiniteSet(s) /\ Cardinality(s) <= n
      BY FS_Subset
    <2>2. Cardinality(s) \in Nat /\ (Cardinality(s) = 0 <=> s = {})
      BY <2>1, FS_CardinalityType, FS_EmptySet
    <2>3. ASSUME s # {}
          PROVE  c(s) \in s
      BY <2>3
    <2>4. \A x \in s : Cardinality(s \ {x}) = Cardinality(s) - 1
      BY <2>1, FS_RemoveElement
    <2> HIDE DEF c
    <2> QED  BY <2>1, <2>2, <2>3, <2>4
  <1> HIDE DEF c, n
  <1>3. 0 \in K
    <2> DEFINE T == [s \in L(0) |-> 0]
    <2>1. ASSUME NEW s \in L(0)
          PROVE  s = {}
      <3>1. s \in SUBSET D /\ Cardinality(s) <= 0
        OBVIOUS
      <3>2. Cardinality(s) \in Nat /\ (Cardinality(s) = 0 <=> s = {})
        BY <1>2, <3>1
      <3> QED  BY <3>1, <3>2
    <2>2. T \in [L(0) -> Int] /\ Solves(T, 0)
      BY <2>1
    <2> HIDE DEF T, Solves, L
    <2> QED  BY <1>1, <2>2
  <1>4. ASSUME NEW k \in 0..n, k \in K, k < n
        PROVE  k + 1 \in K
    <2>1. PICK T \in [L(k) -> Int] : Solves(T, k)
      BY <1>4
    <2> DEFINE U == [s \in L(k + 1) |-> IF s \in L(k) THEN T[s]
                                        ELSE f[c(s)] + T[s \ {c(s)}]]
    <2>2. ASSUME NEW s \in L(k + 1)
          PROVE  /\ s # {} => s \ {c(s)} \in L(k) /\ c(s) \in D
                 /\ s \notin L(k) => s # {}
      BY <1>1, <1>2
    <2>3. U \in [L(k + 1) -> Int]
      <3>1. ASSUME NEW s \in L(k + 1)
            PROVE  U[s] \in Int
        <4>1. CASE s \in L(k)
          BY <4>1
        <4>2. CASE s \notin L(k)
          <5>1. f[c(s)] \in Int /\ T[s \ {c(s)}] \in Int
            BY <2>2, <4>2
          <5> HIDE DEF L
          <5> QED  BY <4>2, <5>1
        <4> QED  BY <4>1, <4>2
      <3> HIDE DEF L
      <3> QED  BY <3>1
    <2>4. Solves(U, k + 1)
      <3>1. SUFFICES ASSUME NEW s \in L(k + 1)
                     PROVE  U[s] = IF s = {} THEN 0 ELSE f[c(s)] + U[s \ {c(s)}]
        OBVIOUS
      <3>2. CASE s = {}
        <4>1. s \in L(k)
          <5>1. s \in SUBSET D
            OBVIOUS
          <5>2. Cardinality(s) = 0
            BY <1>2, <3>2, <5>1
          <5> QED  BY <1>1, <5>1, <5>2
        <4> HIDE DEF L
        <4> QED  BY <2>1, <3>2, <4>1
      <3>3. CASE s # {}
        <4>1. s \ {c(s)} \in L(k) /\ s \ {c(s)} \in L(k + 1)
          <5>1. s \ {c(s)} \in L(k)
            BY <2>2, <3>3
          <5>2. ASSUME NEW u \in L(k)
                PROVE  u \in L(k + 1)
            <6>1. u \in SUBSET D /\ Cardinality(u) <= k
              OBVIOUS
            <6>2. Cardinality(u) \in Nat
              BY <1>2, <6>1
            <6> QED  BY <1>1, <6>1, <6>2
          <5> HIDE DEF L
          <5> QED  BY <5>1, <5>2
        <4> HIDE DEF L
        <4>2. U[s \ {c(s)}] = T[s \ {c(s)}]
          BY <4>1
        <4>3. CASE s \in L(k)
          BY <2>1, <3>3, <4>2, <4>3
        <4>4. CASE s \notin L(k)
          BY <3>3, <4>2, <4>4
        <4> QED  BY <4>3, <4>4
      <3> QED  BY <3>2, <3>3
    <2> HIDE DEF U, Solves, L
    <2> QED  BY <1>1, <1>4, <2>3, <2>4
  <1>5. n \in K
    <2> DEFINE C == {k \in 0..n : k \notin K}
    <2> HIDE DEF K
    <2>1. SUFFICES ASSUME n \notin K
                   PROVE  FALSE
      OBVIOUS
    <2>2. C \in SUBSET Nat /\ C # {}
      BY <1>1, <2>1
    <2>3. PICK k \in C : \A m \in C : k <= m
      BY <2>2, Least
    <2>4. k # 0 /\ k \in 0..n
      BY <1>3, <2>3
    <2>5. k - 1 \in 0..n /\ k - 1 < n /\ ~(k <= k - 1) /\ (k - 1) + 1 = k
      BY <1>1, <2>4
    <2>6. k - 1 \in K
      BY <2>3, <2>5
    <2> QED  BY <1>4, <2>3, <2>5, <2>6
  <1>6. PICK T \in [L(n) -> Int] : Solves(T, n)
    BY <1>5
  <1>7. L(n) = SUBSET D
    BY <1>2
  <1>8. T \in [SUBSET D -> Int]
    BY <1>6, <1>7
  <1>9. \A s \in SUBSET D : T[s] = IF s = {} THEN 0 ELSE f[c(s)] + T[s \ {c(s)}]
    BY <1>6, <1>7
  <1>10. T = [s \in SUBSET D |-> T[s]]
    BY <1>8
  <1>11. T = [s \in SUBSET D |-> IF s = {} THEN 0 ELSE f[c(s)] + T[s \ {c(s)}]]
    BY <1>9, <1>10
  <1> QED  BY <1>8, <1>11 DEF Adds, c

\* SumFunction is the sum for the whole set.
LEMMA SumIs ==
    ASSUME NEW D, IsFiniteSet(D), NEW f \in [D -> Int]
    PROVE  \E T : Adds(T, f, D) /\ SumFunction(f) = T[D]
  <1>1. PICK U : Adds(U, f, D)
    BY SumExists
  <1>2. DOMAIN f = D
    OBVIOUS
  <1> DEFINE T == CHOOSE T : Adds(T, f, D)
  <1>3. Adds(T, f, D)
    BY <1>1
  <1>4. SumFunction(f) = T[D]
    BY <1>2 DEF SumFunction, SumFunctionOnSet, FoldFunctionOnSet, MapThenFoldSet, Adds
  <1> QED  BY <1>3, <1>4

\* What the sum is made of is a number for each subset, and any element of it may
\* come first.
LEMMA SumTotal ==
    ASSUME NEW D, IsFiniteSet(D), NEW f \in [D -> Int], NEW T, Adds(T, f, D)
    PROVE  /\ T[{}] = 0
           /\ \A s \in SUBSET D : T[s] \in Int
           /\ \A s \in SUBSET D : \A x \in s : T[s] = f[x] + T[s \ {x}]
  <1> DEFINE c(s) == CHOOSE x \in s : TRUE
  <1>1. \A s \in SUBSET D : s # {} => c(s) \in s
    OBVIOUS
  <1>2. \A s \in SUBSET D : T[s] = IF s = {} THEN 0 ELSE f[c(s)] + T[s \ {c(s)}]
    <2>1. T = [s \in SUBSET D |-> IF s = {} THEN 0 ELSE f[c(s)] + T[s \ {c(s)}]]
      BY DEF Adds
    <2> HIDE DEF c
    <2> DEFINE rhs(s) == IF s = {} THEN 0 ELSE f[c(s)] + T[s \ {c(s)}]
    <2>2. T = [s \in SUBSET D |-> rhs(s)]
      BY <2>1
    <2> HIDE DEF rhs
    <2>3. \A s \in SUBSET D : T[s] = rhs(s)
      BY <2>2
    <2> QED  BY <2>3 DEF rhs
  <1> HIDE DEF c
  <1>3. T[{}] = 0
    BY <1>2
  <1>4. \A s \in SUBSET D : T[s] \in Int
    <2> DEFINE P == {s \in SUBSET D : T[s] \in Int}
    <2>1. {} \in P
      BY <1>3
    <2>2. ASSUME NEW s \in SUBSET D, s # {}, \A x \in s : s \ {x} \in P
          PROVE  s \in P
      <3>1. c(s) \in s /\ c(s) \in D
        BY <1>1, <2>2
      <3>2. f[c(s)] \in Int /\ T[s \ {c(s)}] \in Int
        BY <2>2, <3>1
      <3>3. T[s] = f[c(s)] + T[s \ {c(s)}]
        BY <1>2, <2>2
      <3> QED  BY <3>2, <3>3
    <2> HIDE DEF P
    <2>3. \A s \in SUBSET D : s \in P
      BY <2>1, <2>2, Subsets
    <2> QED  BY <2>3 DEF P
  <1>5. \A s \in SUBSET D : \A x \in s : T[s] = f[x] + T[s \ {x}]
    <2> DEFINE P == {s \in SUBSET D : \A x \in s : T[s] = f[x] + T[s \ {x}]}
    <2>1. {} \in P
      OBVIOUS
    <2>2. ASSUME NEW s \in SUBSET D, s # {}, \A x \in s : s \ {x} \in P
          PROVE  s \in P
      <3>1. SUFFICES ASSUME NEW x \in s
                     PROVE  T[s] = f[x] + T[s \ {x}]
        OBVIOUS
      <3> DEFINE y == c(s)
      <3>2. y \in s /\ T[s] = f[y] + T[s \ {y}]
        BY <1>1, <1>2, <2>2
      <3> HIDE DEF y
      <3>3. CASE x = y
        BY <3>2, <3>3
      <3>4. CASE x # y
        <4>1. s \ {y} \in P /\ s \ {x} \in P /\ x \in s \ {y} /\ y \in s \ {x}
          BY <2>2, <3>2, <3>4
        <4>2. /\ T[s \ {y}] = f[x] + T[(s \ {y}) \ {x}]
              /\ T[s \ {x}] = f[y] + T[(s \ {x}) \ {y}]
          BY <4>1
        <4> DEFINE rest == s \ {x, y}
        <4>3. (s \ {y}) \ {x} = rest /\ (s \ {x}) \ {y} = rest /\ rest \in SUBSET D
          OBVIOUS
        <4> HIDE DEF rest
        <4>4. T[rest] \in Int /\ f[x] \in Int /\ f[y] \in Int
          BY <1>4, <3>2, <4>3
        <4>5. T[s \ {y}] = f[x] + T[rest] /\ T[s \ {x}] = f[y] + T[rest]
          BY <4>2, <4>3
        <4> QED  BY <3>2, <4>4, <4>5
      <3> QED  BY <3>3, <3>4
    <2> HIDE DEF P
    <2>3. \A s \in SUBSET D : s \in P
      BY <2>1, <2>2, Subsets
    <2> QED  BY <2>3 DEF P
  <1> QED  BY <1>3, <1>4, <1>5

\* A sum of integers is an integer.
LEMMA SumType ==
    ASSUME NEW D, IsFiniteSet(D), NEW f \in [D -> Int]
    PROVE  SumFunction(f) \in Int
  <1>1. PICK T : Adds(T, f, D) /\ SumFunction(f) = T[D]
    BY SumIs
  <1>2. T[D] \in Int
    BY <1>1, SumTotal
  <1> QED  BY <1>1, <1>2

\* No places add up to nothing.
LEMMA SumOfNone ==
    ASSUME NEW f \in [{} -> Int]
    PROVE  SumFunction(f) = 0
  <1>1. IsFiniteSet({})
    BY FS_EmptySet
  <1>2. PICK T : Adds(T, f, {}) /\ SumFunction(f) = T[{}]
    BY <1>1, SumIs
  <1> QED  BY <1>1, <1>2, SumTotal

\* A sum is what one place has and the sum over the others.
LEMMA SumSplit ==
    ASSUME NEW D, IsFiniteSet(D), NEW f \in [D -> Int], NEW x \in D,
           NEW g \in [D \ {x} -> Int], \A y \in D \ {x} : g[y] = f[y]
    PROVE  SumFunction(f) = f[x] + SumFunction(g)
  <1> DEFINE E == D \ {x}
  <1>1. IsFiniteSet(E) /\ g \in [E -> Int] /\ E \subseteq D /\ \A y \in E : g[y] = f[y]
    BY FS_Subset
  <1>2. PICK T : Adds(T, f, D) /\ SumFunction(f) = T[D]
    BY SumIs
  <1> HIDE DEF E
  <1>3. PICK U : Adds(U, g, E) /\ SumFunction(g) = U[E]
    BY <1>1, SumIs
  <1>4. T[{}] = 0 /\ \A s \in SUBSET D : \A z \in s : T[s] = f[z] + T[s \ {z}]
    BY ONLY <1>2, IsFiniteSet(D), f \in [D -> Int], SumTotal
  <1>5. U[{}] = 0 /\ \A s \in SUBSET E : \A z \in s : U[s] = g[z] + U[s \ {z}]
    BY ONLY <1>1, <1>3, SumTotal
  <1>6. T[E] = U[E]
    <2> DEFINE P == {s \in SUBSET E : T[s] = U[s]}
    <2>1. {} \in P
      BY <1>4, <1>5
    <2>2. ASSUME NEW s \in SUBSET E, s # {}, \A z \in s : s \ {z} \in P
          PROVE  s \in P
      <3>1. PICK z : z \in s
        BY <2>2
      <3>2. T[s \ {z}] = U[s \ {z}]
        BY <2>2, <3>1
      <3>3. T[s] = f[z] + T[s \ {z}] /\ U[s] = g[z] + U[s \ {z}] /\ g[z] = f[z]
        BY <1>1, <1>4, <1>5, <3>1
      <3> QED  BY <3>2, <3>3
    <2> HIDE DEF P
    <2>3. \A s \in SUBSET E : s \in P
      BY <1>1, <2>1, <2>2, Subsets
    <2> QED  BY <2>3 DEF P
  <1>7. T[D] = f[x] + T[E]
    BY <1>4 DEF E
  <1> QED  BY <1>2, <1>3, <1>6, <1>7

\* Where one place has changed, so has the sum.
LEMMA SumChange ==
    ASSUME NEW D, IsFiniteSet(D), NEW f \in [D -> Int], NEW g \in [D -> Int],
           NEW x \in D, \A y \in D \ {x} : g[y] = f[y]
    PROVE  SumFunction(g) = SumFunction(f) + (g[x] - f[x])
  <1> DEFINE h == [y \in D \ {x} |-> f[y]]
  <1>1. \A y \in D \ {x} : h[y] = f[y] /\ h[y] = g[y]
    OBVIOUS
  <1>2. IsFiniteSet(D \ {x}) /\ h \in [D \ {x} -> Int]
    BY FS_Subset
  <1> HIDE DEF h
  <1>3. SumFunction(h) \in Int
    BY <1>2, SumType
  <1>4. SumFunction(f) = f[x] + SumFunction(h)
    BY <1>1, <1>2, SumSplit
  <1>5. SumFunction(g) = g[x] + SumFunction(h)
    BY <1>1, <1>2, SumSplit
  <1>6. f[x] \in Int /\ g[x] \in Int
    OBVIOUS
  <1> QED  BY <1>3, <1>4, <1>5, <1>6

\* A sum of natural numbers is one, and no place has more than the sum.
LEMMA SumOfNats ==
    ASSUME NEW D, IsFiniteSet(D), NEW f \in [D -> Nat]
    PROVE  /\ SumFunction(f) \in Nat
           /\ \A x \in D : f[x] <= SumFunction(f)
  <1>1. f \in [D -> Int]
    OBVIOUS
  <1>2. PICK T : Adds(T, f, D) /\ SumFunction(f) = T[D]
    BY <1>1, SumIs
  <1>3. /\ T[{}] = 0
        /\ \A s \in SUBSET D : \A x \in s : T[s] = f[x] + T[s \ {x}]
    BY <1>1, <1>2, SumTotal
  <1>4. \A s \in SUBSET D : T[s] \in Nat
    <2> DEFINE P == {s \in SUBSET D : T[s] \in Nat}
    <2>1. {} \in P
      BY <1>3
    <2>2. ASSUME NEW s \in SUBSET D, s # {}, \A x \in s : s \ {x} \in P
          PROVE  s \in P
      <3>1. PICK x : x \in s
        BY <2>2
      <3>2. T[s \ {x}] \in Nat /\ f[x] \in Nat
        BY <2>2, <3>1
      <3>3. T[s] = f[x] + T[s \ {x}]
        BY <1>3, <3>1
      <3> QED  BY <3>2, <3>3
    <2> HIDE DEF P
    <2>3. \A s \in SUBSET D : s \in P
      BY <2>1, <2>2, Subsets
    <2> QED  BY <2>3 DEF P
  <1>5. ASSUME NEW x \in D
        PROVE  f[x] <= T[D]
    <2>1. T[D] = f[x] + T[D \ {x}] /\ T[D \ {x}] \in Nat /\ f[x] \in Nat
      BY <1>3, <1>4
    <2> QED  BY <2>1
  <1> QED  BY <1>2, <1>4, <1>5

\* Places that have nothing add up to nothing.
LEMMA SumOfZeros ==
    ASSUME NEW D, IsFiniteSet(D), NEW f \in [D -> Int], \A x \in D : f[x] = 0
    PROVE  SumFunction(f) = 0
  <1>1. PICK T : Adds(T, f, D) /\ SumFunction(f) = T[D]
    BY SumIs
  <1>2. T[{}] = 0 /\ \A s \in SUBSET D : \A x \in s : T[s] = f[x] + T[s \ {x}]
    BY ONLY <1>1, IsFiniteSet(D), f \in [D -> Int], SumTotal
  <1>3. T[D] = 0
    <2> DEFINE P == {s \in SUBSET D : T[s] = 0}
    <2>1. {} \in P
      BY <1>2
    <2>2. ASSUME NEW s \in SUBSET D, s # {}, \A x \in s : s \ {x} \in P
          PROVE  s \in P
      <3>1. PICK x : x \in s
        BY <2>2
      <3>2. T[s \ {x}] = 0 /\ f[x] = 0 /\ T[s] = f[x] + T[s \ {x}]
        BY <1>2, <2>2, <3>1
      <3> QED  BY <3>2
    <2> HIDE DEF P
    <2>3. \A s \in SUBSET D : s \in P
      BY <2>1, <2>2, Subsets
    <2> QED  BY <2>3 DEF P
  <1> QED  BY <1>1, <1>3

-----------------------------------------------------------------------------
(* The row and the tasks                                                   *)

Charging == [r \in Requests |-> IF task[r].op = "charge" THEN task[r].amount ELSE 0]

\* What rejected debits will put back on the key they took it from.
Restoring ==
    [r \in Requests |-> IF task[r].op = "restore" /\ ~task[r].replaced
                        THEN task[r].amount ELSE 0]
Restored == SumFunction(Restoring)

\* A partner's row, or the new one that stands for a missing row.
LEMMA RowType ==
    ASSUME TypeOK
    PROVE  /\ Row \in PartnerWallet
           /\ Row.balance \in Int /\ Row.deposited \in Nat /\ Row.spent \in Nat
  <1>1. Row \in PartnerWallet
    BY DEF TypeOK, Row, NewWallet, PartnerWallet
  <1> QED  BY <1>1 DEF PartnerWallet

\* What a request does next.
LEMMA TaskType ==
    ASSUME TypeOK, NEW r \in Requests
    PROVE  /\ task[r].amount \in Nat /\ task[r].value \in Int
           /\ task[r].replaced \in BOOLEAN /\ task[r] \in Task
  BY DEF TypeOK, Task

\* Both sums are natural numbers, and no request has more than the sum.
LEMMA SumTypes ==
    ASSUME TypeOK
    PROVE  /\ Charging \in [Requests -> Nat] /\ Charging \in [Requests -> Int]
           /\ Restoring \in [Requests -> Nat] /\ Restoring \in [Requests -> Int]
           /\ IsFiniteSet(Requests)
           /\ Charged = SumFunction(Charging)
           /\ Charged \in Nat /\ Restored \in Nat
           /\ \A r \in Requests : Charging[r] <= Charged /\ Restoring[r] <= Restored
  <1>1. \A r \in Requests : task[r].amount \in Nat
    BY TaskType
  <1>2. /\ Charging \in [Requests -> Nat] /\ Charging \in [Requests -> Int]
        /\ Restoring \in [Requests -> Nat] /\ Restoring \in [Requests -> Int]
    BY <1>1 DEF Charging, Restoring
  <1>3. IsFiniteSet(Requests) /\ Charged = SumFunction(Charging)
    BY WalletAssumption DEF Charged, Charging
  <1> QED  BY <1>2, <1>3, SumOfNats DEF Restored

\* The sums before and after a step of one request.
LEMMA OneTask ==
    ASSUME TypeOK, TypeOK', NEW r \in Requests, NEW new,
           task' = [task EXCEPT ![r] = new]
    PROVE  /\ Charged' = Charged + ((IF new.op = "charge" THEN new.amount ELSE 0)
                                     - Charging[r])
           /\ Restored' = Restored
                 + ((IF new.op = "restore" /\ ~new.replaced THEN new.amount ELSE 0)
                     - Restoring[r])
           /\ \A u \in Requests \ {r} : task'[u] = task[u]
           /\ task'[r] = new
  <1>1. /\ task'[r] = new
        /\ \A u \in Requests \ {r} : task'[u] = task[u]
    BY DEF TypeOK
  <1>2. /\ \A u \in Requests \ {r} : Charging'[u] = Charging[u] /\ Restoring'[u] = Restoring[u]
        /\ Charging'[r] = IF new.op = "charge" THEN new.amount ELSE 0
        /\ Restoring'[r] = IF new.op = "restore" /\ ~new.replaced THEN new.amount ELSE 0
    BY <1>1 DEF Charging, Restoring
  <1>3. /\ Charging \in [Requests -> Int] /\ Charged = SumFunction(Charging)
        /\ Restoring \in [Requests -> Int] /\ IsFiniteSet(Requests)
    BY SumTypes
  <1>4. /\ Charging' \in [Requests -> Int] /\ Charged' = SumFunction(Charging')
        /\ Restoring' \in [Requests -> Int]
    <2>1. /\ Charging \in [Requests -> Int] /\ Charged = SumFunction(Charging)
          /\ Restoring \in [Requests -> Int]
      BY SumTypes
    <2>2. \A u \in Requests : task'[u].amount \in Nat
      BY DEF TypeOK, Task
    <2>3. Charging' \in [Requests -> Int] /\ Restoring' \in [Requests -> Int]
      BY <2>2 DEF Charging, Restoring
    <2> QED  BY <2>3 DEF Charged, Charging
  <1>5. SumFunction(Charging') = SumFunction(Charging) + (Charging'[r] - Charging[r])
    BY <1>2, <1>3, <1>4, SumChange
  <1>6. SumFunction(Restoring') = SumFunction(Restoring) + (Restoring'[r] - Restoring[r])
    BY <1>2, <1>3, <1>4, SumChange
  <1> QED  BY <1>1, <1>2, <1>3, <1>4, <1>5, <1>6 DEF Restored

\* ... and of one that sets or deletes the key: nothing is to be put back on the
\* one that is there now.
LEMMA KeyReplaced ==
    ASSUME TypeOK, TypeOK', NEW new \in [Requests -> Task],
           \A u \in Requests : \/ new[u] = Replaced[u]
                               \/ task[u].op # "charge" /\ new[u].op \notin {"charge", "restore"},
           task' = new
    PROVE  /\ Charged' = Charged
           /\ Restored' = 0
           /\ \A u \in Requests : task'[u].op = "restore" => task'[u].replaced
  <1>1. \A u \in Requests : /\ Replaced[u].op = task[u].op
                            /\ Replaced[u].amount = task[u].amount
                            /\ Replaced[u].op = "restore" => Replaced[u].replaced
    <2>1. SUFFICES ASSUME NEW u \in Requests
                   PROVE  /\ Replaced[u].op = task[u].op
                          /\ Replaced[u].amount = task[u].amount
                          /\ Replaced[u].op = "restore" => Replaced[u].replaced
      OBVIOUS
    <2> DEFINE b == task[u].replaced \/ task[u].op = "restore"
    <2>2. task[u] \in Task
      BY TaskType
    <2>3. Replaced[u] = [task[u] EXCEPT !.replaced = b]
      BY DEF Replaced
    <2>4. task[u].op = "restore" => b
      OBVIOUS
    <2> HIDE DEF b
    <2>5. /\ Replaced[u].op = task[u].op /\ Replaced[u].amount = task[u].amount
          /\ Replaced[u].replaced = b
      BY <2>2, <2>3 DEF Task
    <2> QED  BY <2>4, <2>5
  <1>2. \A u \in Requests : task'[u].op = "restore" => task'[u].replaced
    BY <1>1
  <1>3. Charging' = Charging
    BY <1>1 DEF Charging
  <1>4. Charged' = Charged
    BY <1>3 DEF Charged, Charging
  <1>5. /\ Restoring' \in [Requests -> Int]
        /\ \A u \in Requests : Restoring'[u] = 0
    BY <1>2 DEF Restoring
  <1>6. SumFunction(Restoring') = 0
    BY <1>5, WalletAssumption, SumOfZeros
  <1> QED  BY <1>2, <1>4, <1>6 DEF Restored

-----------------------------------------------------------------------------
(* Types                                                                   *)

\* The task of a request that does nothing.
LEMMA IdleType == Idle \in Task /\ Idle.op = "idle" /\ Idle.amount = 0
  BY DEF Idle, Task

\* A request goes on, whatever its task was.
LEMMA TaskUpdate ==
    ASSUME TypeOK, NEW r \in Requests, NEW new \in Task
    PROVE  [task EXCEPT ![r] = new] \in [Requests -> Task]
  BY DEF TypeOK

\* Requests go on as they were when the key is set or deleted.
LEMMA ReplacedType ==
    ASSUME TypeOK
    PROVE  /\ Replaced \in [Requests -> Task]
           /\ \A u \in Requests : /\ Replaced[u].op = task[u].op
                                  /\ Replaced[u].amount = task[u].amount
  <1>1. ASSUME NEW u \in Requests
        PROVE  /\ Replaced[u] \in Task
               /\ Replaced[u].op = task[u].op
               /\ Replaced[u].amount = task[u].amount
    <2> DEFINE b == task[u].replaced \/ task[u].op = "restore"
    <2>1. task[u] \in Task /\ b \in BOOLEAN
      BY TaskType
    <2>2. Replaced[u] = [task[u] EXCEPT !.replaced = b]
      BY DEF Replaced
    <2> HIDE DEF b
    <2> QED  BY <2>1, <2>2 DEF Task
  <1> QED  BY <1>1 DEF Replaced

\* What a request that goes on to do op has.
LEMMA OpType ==
    ASSUME NEW k \in Task, NEW op \in {"idle", "store", "decrement", "restore", "charge", "drop"}
    PROVE  /\ [k EXCEPT !.op = op] \in Task
           /\ [k EXCEPT !.op = op].op = op
           /\ [k EXCEPT !.op = op].amount = k.amount
           /\ [k EXCEPT !.op = op].replaced = k.replaced
  BY DEF Task

\* DECRBY and INCRBY.
LEMMA AddedType ==
    ASSUME TypeOK, NEW n \in Int
    PROVE  /\ Added(n) \in KeyValue
           /\ Added(n).value = (IF cache = Absent THEN 0 ELSE cache.value) + n
           /\ cache # Absent => cache.value \in Int
  <1>1. cache # Absent => cache \in KeyValue
    BY DEF TypeOK
  <1>2. CASE cache = Absent
    BY <1>2 DEF Added, KeyValue
  <1>3. CASE cache # Absent
    BY <1>1, <1>3 DEF Added, KeyValue
  <1> QED  BY <1>2, <1>3

\* Each action of a request, as what becomes of its task.
LEMMA MissEffect ==
    ASSUME TypeOK, NEW r \in Requests, NEW a \in Nat, Miss(r, a)
    PROVE  /\ \E new \in Task : new.op = "store" /\ task' = [task EXCEPT ![r] = new]
           /\ task[r].op = "idle" /\ wallet' = Row
           /\ UNCHANGED <<pool, deposits, cache, expiries, raced>>
  <1> DEFINE new == [op |-> "store", amount |-> a, value |-> Row.balance, replaced |-> FALSE]
  <1>1. new \in Task /\ new.op = "store"
    BY RowType DEF Task
  <1>2. task' = [task EXCEPT ![r] = new]
    BY DEF Miss
  <1> HIDE DEF new
  <1> QED  BY <1>1, <1>2 DEF Miss

\* A hit goes on to the decrement.
LEMMA HitEffect ==
    ASSUME TypeOK, NEW r \in Requests, NEW a \in Nat, Hit(r, a)
    PROVE  /\ \E new \in Task : new.op = "decrement" /\ task' = [task EXCEPT ![r] = new]
           /\ task[r].op = "idle"
           /\ UNCHANGED <<wallet, pool, deposits, cache, expiries, raced>>
  <1> DEFINE new == [Idle EXCEPT !.op = "decrement", !.amount = a]
  <1>1. new \in Task /\ new.op = "decrement"
    <2>1. \A k \in Task : LET n == [k EXCEPT !.op = "decrement", !.amount = a]
                          IN  n \in Task /\ n.op = "decrement"
      BY DEF Task
    <2> QED  BY <2>1, IdleType
  <1>2. task' = [task EXCEPT ![r] = new]
    BY DEF Hit
  <1> HIDE DEF new
  <1> QED  BY <1>1, <1>2 DEF Hit

\* A store sets the key to the value that was read.
LEMMA StoreEffect ==
    ASSUME TypeOK, NEW r \in Requests, Store(r)
    PROVE  /\ \E new \in Task : /\ new.op \in {"idle", "decrement"}
                                /\ task' = [Replaced EXCEPT ![r] = new]
           /\ task[r].op = "store"
           /\ cache' \in KeyValue /\ cache'.value = task[r].value
           /\ raced' = (raced \/ task[r].value > Row.balance - Charged)
           /\ UNCHANGED <<wallet, pool, deposits, expiries>>
  <1> DEFINE old == Replaced[r]
             new == IF old.amount = 0 THEN Idle ELSE [old EXCEPT !.op = "decrement"]
  <1>1. old \in Task /\ Replaced \in [Requests -> Task]
    BY ReplacedType
  <1>2. new \in Task /\ new.op \in {"idle", "decrement"}
    BY <1>1, OpType, IdleType
  <1>3. task' = [Replaced EXCEPT ![r] = new]
    BY <1>1 DEF Store
  <1>4. cache' \in KeyValue /\ cache'.value = task[r].value
    BY TaskType DEF Store, KeyValue
  <1> HIDE DEF new
  <1> QED  BY <1>2, <1>3, <1>4 DEF Store

\* A decrement is let through when the key stays at or above zero.
LEMMA DecrementEffect ==
    ASSUME TypeOK, NEW r \in Requests, Decrement(r)
    PROVE  /\ \E new \in Task :
                 /\ new.op = IF cache'.value >= 0 THEN "charge" ELSE "restore"
                 /\ new.amount = task[r].amount /\ new.replaced = task[r].replaced
                 /\ task' = [task EXCEPT ![r] = new]
           /\ task[r].op = "decrement"
           /\ cache' = Added(-task[r].amount)
           /\ UNCHANGED <<wallet, pool, deposits, expiries, raced>>
  <1> DEFINE op == IF cache'.value >= 0 THEN "charge" ELSE "restore"
             new == [task[r] EXCEPT !.op = op]
  <1>1. op \in {"idle", "store", "decrement", "restore", "charge", "drop"}
    OBVIOUS
  <1>2. task' = [task EXCEPT ![r] = new]
    BY DEF Decrement, Enough, TypeOK
  <1>3. task[r] \in Task
    BY TaskType
  <1> HIDE DEF op
  <1>4. new \in Task /\ new.op = op /\ new.amount = task[r].amount
          /\ new.replaced = task[r].replaced
    BY <1>1, <1>3, OpType
  <1> HIDE DEF new
  <1> QED  BY <1>2, <1>4 DEF Decrement, op

\* Deposits and their completion leave the key to a later step.
LEMMA DropNext ==
    ASSUME TypeOK, NEW r \in Requests, Goto(r, "drop")
    PROVE  \E new \in Task : new.op = "drop" /\ task' = [task EXCEPT ![r] = new]
  <1> DEFINE new == [task[r] EXCEPT !.op = "drop"]
  <1>1. task[r] \in Task
    BY TaskType
  <1>2. new \in Task /\ new.op = "drop"
    BY <1>1, OpType
  <1>3. task' = [task EXCEPT ![r] = new]
    BY DEF Goto, TypeOK
  <1> HIDE DEF new
  <1> QED  BY <1>2, <1>3

\* A credit raises the balance and what was deposited, of the row and the pool.
LEMMA CreditEffect ==
    ASSUME TypeOK, NEW a \in Nat, Credit(a)
    PROVE  /\ wallet' \in PartnerWallet /\ pool' \in Nat /\ pool' = pool + a
           /\ wallet'.balance = Row.balance + a
           /\ wallet'.deposited = Row.deposited + a
           /\ wallet'.spent = Row.spent
  <1> DEFINE b == Row.balance + a
             d == Row.deposited + a
  <1>1. Row \in PartnerWallet /\ b \in Int /\ d \in Nat
    BY RowType
  <1>2. wallet' = [Row EXCEPT !.balance = b, !.deposited = d]
    BY <1>1 DEF Credit, PartnerWallet
  <1> HIDE DEF b, d
  <1>3. /\ wallet' \in PartnerWallet
        /\ wallet'.balance = b /\ wallet'.deposited = d /\ wallet'.spent = Row.spent
    BY <1>1, <1>2 DEF PartnerWallet
  <1>4. pool' \in Nat /\ pool' = pool + a
    BY DEF Credit, TypeOK
  <1> QED  BY <1>3, <1>4 DEF b, d

\* A charge moves its amount from the balance to what was spent.
LEMMA ChargeEffect ==
    ASSUME TypeOK, NEW r \in Requests, Charge(r)
    PROVE  /\ wallet' \in PartnerWallet
           /\ wallet'.balance = Row.balance - task[r].amount
           /\ wallet'.deposited = Row.deposited
           /\ wallet'.spent = Row.spent + task[r].amount
           /\ task' = [task EXCEPT ![r] = Idle] /\ task[r].op = "charge"
           /\ UNCHANGED <<pool, deposits, cache, expiries, raced>>
  <1> DEFINE b == Row.balance - task[r].amount
             s == Row.spent + task[r].amount
  <1>1. Row \in PartnerWallet /\ b \in Int /\ s \in Nat
    BY RowType, TaskType
  <1>2. wallet' = [Row EXCEPT !.balance = b, !.spent = s]
    BY <1>1 DEF Charge, PartnerWallet
  <1> HIDE DEF b, s
  <1>3. /\ wallet' \in PartnerWallet
        /\ wallet'.balance = b /\ wallet'.deposited = Row.deposited /\ wallet'.spent = s
    BY <1>1, <1>2 DEF PartnerWallet
  <1> QED  BY <1>3 DEF b, s, Charge, Done

\* The rows of partner_wallet_deposits.
LEMMA DepositTypes ==
    ASSUME TypeOK
    PROVE  /\ \A a \in Amounts, complete \in BOOLEAN :
                 NewDeposit(a, IF complete THEN "completed" ELSE "pending") \in WalletDeposit
           /\ \A i \in DOMAIN deposits :
                 /\ deposits[i].amount \in Amounts /\ deposits[i].amount \in Nat
                 /\ [deposits EXCEPT ![i].status = "completed"] \in Seq(WalletDeposit)
           /\ \A a \in Amounts : a \in Nat
  <1>1. \A a \in Amounts : a \in Nat
    BY WalletAssumption
  <1>2. \A a \in Amounts, complete \in BOOLEAN :
            NewDeposit(a, IF complete THEN "completed" ELSE "pending") \in WalletDeposit
    BY DEF NewDeposit, WalletDeposit
  <1>3. ASSUME NEW i \in DOMAIN deposits
        PROVE  /\ deposits[i].amount \in Amounts
               /\ [deposits EXCEPT ![i].status = "completed"] \in Seq(WalletDeposit)
    <2>1. deposits \in Seq(WalletDeposit) /\ deposits[i] \in WalletDeposit
      BY DEF TypeOK
    <2> DEFINE new == [deposits[i] EXCEPT !.status = "completed"]
    <2>2. new \in WalletDeposit /\ deposits[i].amount \in Amounts
      BY <2>1 DEF WalletDeposit
    <2>3. [deposits EXCEPT ![i].status = "completed"] = [deposits EXCEPT ![i] = new]
      BY <2>1
    <2> HIDE DEF new
    <2>4. [deposits EXCEPT ![i] = new] \in Seq(WalletDeposit)
      BY <2>1, <2>2
    <2> QED  BY <2>2, <2>3, <2>4
  <1> QED  BY <1>1, <1>2, <1>3

\* A deposit is appended, and credited if it is complete.
LEMMA DepositEffect ==
    ASSUME TypeOK, NEW r \in Requests, NEW a \in Amounts, NEW complete \in BOOLEAN,
           Deposit(r, a, complete)
    PROVE  /\ \E new \in Task : new.op = "drop" /\ task' = [task EXCEPT ![r] = new]
           /\ task[r].op = "idle"
           /\ deposits' = Append(deposits,
                                 NewDeposit(a, IF complete THEN "completed" ELSE "pending"))
           /\ deposits' \in Seq(WalletDeposit)
           /\ wallet' \in PartnerWallet /\ pool' \in Nat
           /\ LET paid == IF complete THEN a ELSE 0
              IN  /\ wallet'.balance = Row.balance + paid
                  /\ wallet'.deposited = Row.deposited + paid
                  /\ wallet'.spent = Row.spent
                  /\ pool' = pool + paid
           /\ UNCHANGED <<cache, expiries, raced>>
  <1> DEFINE d == NewDeposit(a, IF complete THEN "completed" ELSE "pending")
  <1>1. d \in WalletDeposit /\ a \in Nat
    BY DepositTypes
  <1>2. deposits' = Append(deposits, d)
    BY DEF Deposit
  <1> HIDE DEF d
  <1>3. deposits' \in Seq(WalletDeposit)
    BY <1>1, <1>2 DEF TypeOK
  <1>4. \E new \in Task : new.op = "drop" /\ task' = [task EXCEPT ![r] = new]
    BY DropNext DEF Deposit
  <1>5. CASE complete
    <2>1. Credit(a)
      BY <1>5 DEF Deposit
    <2>2. /\ wallet' \in PartnerWallet /\ pool' \in Nat /\ pool' = pool + a
          /\ wallet'.balance = Row.balance + a
          /\ wallet'.deposited = Row.deposited + a
          /\ wallet'.spent = Row.spent
      BY <1>1, <2>1, CreditEffect
    <2> QED  BY <1>2, <1>3, <1>4, <1>5, <2>2 DEF Deposit, d
  <1>6. CASE ~complete
    <2>1. wallet' = Row /\ pool' = pool
      BY <1>6 DEF Deposit
    <2>2. Row \in PartnerWallet /\ pool \in Nat /\ Row.balance \in Int /\ Row.deposited \in Nat
      BY RowType DEF TypeOK
    <2>3. /\ wallet'.balance = Row.balance + 0
          /\ wallet'.deposited = Row.deposited + 0
          /\ wallet'.spent = Row.spent
          /\ pool' = pool + 0
      BY <2>1, <2>2
    <2> QED  BY <1>2, <1>3, <1>4, <1>6, <2>1, <2>2, <2>3 DEF Deposit, d
  <1> QED  BY <1>5, <1>6

\* A completed deposit was pending; its amount is credited.
LEMMA CompleteEffect ==
    ASSUME TypeOK, NEW r \in Requests, NEW i \in DOMAIN deposits, CompleteDeposit(r, i)
    PROVE  /\ \E new \in Task : new.op = "drop" /\ task' = [task EXCEPT ![r] = new]
           /\ task[r].op = "idle"
           /\ deposits[i].status = "pending" /\ deposits[i].amount \in Nat
           /\ deposits' = [deposits EXCEPT ![i].status = "completed"]
           /\ deposits' \in Seq(WalletDeposit)
           /\ wallet' \in PartnerWallet /\ pool' \in Nat
           /\ wallet'.balance = Row.balance + deposits[i].amount
           /\ wallet'.deposited = Row.deposited + deposits[i].amount
           /\ wallet'.spent = Row.spent
           /\ pool' = pool + deposits[i].amount
           /\ UNCHANGED <<cache, expiries, raced>>
  <1>1. deposits[i].amount \in Nat /\ deposits' \in Seq(WalletDeposit)
    BY DepositTypes DEF CompleteDeposit
  <1> DEFINE a == deposits[i].amount
  <1>2. Credit(a)
    BY DEF CompleteDeposit
  <1> HIDE DEF a
  <1>3. /\ wallet' \in PartnerWallet /\ pool' \in Nat /\ pool' = pool + a
        /\ wallet'.balance = Row.balance + a
        /\ wallet'.deposited = Row.deposited + a
        /\ wallet'.spent = Row.spent
    BY <1>1, <1>2, CreditEffect DEF a
  <1>4. \E new \in Task : new.op = "drop" /\ task' = [task EXCEPT ![r] = new]
    BY DropNext DEF CompleteDeposit
  <1> QED  BY <1>1, <1>3, <1>4 DEF CompleteDeposit, a

\* Only the platform owner's requests set the pool.
LEMMA ServeLeavesPoolSet ==
    ASSUME NEW r \in Requests, Serve(r)
    PROVE  poolSet' = poolSet
  BY DEF Serve, Miss, Store, Hit, Decrement, Restore, Charge, Deposit, CompleteDeposit, Drop

\* Every step keeps the types.
LEMMA TypeStep ==
    ASSUME TypeOK, [Next]_vars
    PROVE  TypeOK'
  <1>1. CASE UNCHANGED vars
    BY <1>1 DEF vars, TypeOK
  <1>2. CASE Expire
    <2>1. task' \in [Requests -> Task] /\ cache' = Absent /\ expiries' \in Nat
      BY <1>2, ReplacedType DEF Expire, TypeOK
    <2> QED  BY <1>2, <2>1 DEF Expire, TypeOK
  <1>3. ASSUME NEW r \in Requests, Serve(r)
        PROVE  TypeOK'
    <2>0. poolSet' \in BOOLEAN
      BY <1>3, ServeLeavesPoolSet DEF TypeOK
    <2>1. ASSUME NEW a \in Nat, Miss(r, a)
          PROVE  TypeOK'
      <3>1. wallet' \in PartnerWallet /\ task' \in [Requests -> Task]
        BY <2>1, MissEffect, RowType, TaskUpdate
      <3> QED  BY <2>0, <2>1, <3>1, MissEffect DEF TypeOK
    <2>2. ASSUME NEW a \in Nat, Hit(r, a)
          PROVE  TypeOK'
      <3>1. task' \in [Requests -> Task]
        BY <2>2, HitEffect, TaskUpdate
      <3> QED  BY <2>0, <2>2, <3>1, HitEffect DEF TypeOK
    <2>3. CASE Store(r)
      <3>1. task' \in [Requests -> Task]
        BY <2>3, StoreEffect, ReplacedType
      <3>2. raced' \in BOOLEAN
        BY <2>3 DEF Store
      <3> QED  BY <2>0, <2>3, <3>1, <3>2, StoreEffect DEF TypeOK
    <2>4. CASE Decrement(r)
      <3>1. task' \in [Requests -> Task]
        BY <2>4, DecrementEffect, TaskUpdate
      <3>2. -task[r].amount \in Int
        BY TaskType
      <3>3. cache' \in KeyValue
        BY <2>4, <3>2, DecrementEffect, AddedType
      <3> QED  BY <2>0, <2>4, <3>1, <3>3, DecrementEffect DEF TypeOK
    <2>5. CASE Restore(r)
      <3>1. task' \in [Requests -> Task]
        BY <2>5, IdleType, TaskUpdate DEF Restore, Done
      <3>2. task[r].amount \in Int
        BY TaskType
      <3>3. cache' \in KeyValue
        BY <2>5, <3>2, AddedType DEF Restore
      <3>4. raced' \in BOOLEAN
        BY <2>5 DEF Restore
      <3> QED  BY <2>0, <2>5, <3>1, <3>3, <3>4 DEF Restore, TypeOK
    <2>6. CASE Charge(r)
      <3>1. task' \in [Requests -> Task]
        BY <2>6, ChargeEffect, IdleType, TaskUpdate
      <3> QED  BY <2>0, <2>6, <3>1, ChargeEffect DEF TypeOK
    <2>7. ASSUME NEW a \in Amounts, NEW complete \in BOOLEAN, Deposit(r, a, complete)
          PROVE  TypeOK'
      <3>1. task' \in [Requests -> Task]
        BY <2>7, DepositEffect, TaskUpdate
      <3>2. wallet' \in PartnerWallet /\ pool' \in Nat /\ deposits' \in Seq(WalletDeposit)
        BY <2>7, DepositEffect
      <3>3. UNCHANGED <<cache, expiries, raced>>
        BY <2>7 DEF Deposit
      <3> QED  BY <2>0, <3>1, <3>2, <3>3 DEF TypeOK
    <2>8. ASSUME NEW i \in DOMAIN deposits, CompleteDeposit(r, i)
          PROVE  TypeOK'
      <3>1. task' \in [Requests -> Task]
        BY <2>8, CompleteEffect, TaskUpdate
      <3> QED  BY <2>0, <2>8, <3>1, CompleteEffect DEF TypeOK
    <2>9. CASE Drop(r)
      <3>1. task' \in [Requests -> Task]
        BY <2>9, ReplacedType, IdleType DEF Drop
      <3> QED  BY <2>0, <2>9, <3>1 DEF Drop, TypeOK
    <2>10. \A a \in Amounts \cup {0} : a \in Nat
      BY WalletAssumption
    <2> QED
      BY <1>3, <2>1, <2>2, <2>3, <2>4, <2>5, <2>6, <2>7, <2>8, <2>9, <2>10 DEF Serve
  <1>4. ASSUME NEW v \in Amounts, SetPool(v)
        PROVE  TypeOK'
    <2>1. v \in Nat
      BY WalletAssumption
    <2> QED  BY <1>4, <2>1 DEF SetPool, TypeOK
  <1> QED  BY <1>1, <1>2, <1>3, <1>4 DEF Next

-----------------------------------------------------------------------------
(* Deposits                                                                *)

Completed == {i \in DOMAIN deposits : deposits[i].status = "completed"}
Deposited == [i \in Completed |-> deposits[i].amount]

\* The completed deposits are finitely many.
LEMMA DepositedType ==
    ASSUME TypeOK
    PROVE  IsFiniteSet(Completed) /\ Deposited \in [Completed -> Int]
              /\ Completed \subseteq 1..Len(deposits) /\ Len(deposits) \in Nat
              /\ DOMAIN deposits = 1..Len(deposits)
  <1>1. Len(deposits) \in Nat /\ DOMAIN deposits = 1..Len(deposits)
    BY DEF TypeOK
  <1>2. Completed \subseteq 1..Len(deposits)
    BY <1>1 DEF Completed
  <1>3. IsFiniteSet(1..Len(deposits))
    BY <1>1, FS_Interval
  <1>4. IsFiniteSet(Completed)
    BY <1>2, <1>3, FS_Subset
  <1>5. \A i \in Completed : deposits[i].amount \in Int
    <2>1. \A i \in DOMAIN deposits : deposits[i].amount \in Nat
      BY DepositTypes
    <2> QED  BY <2>1 DEF Completed
  <1> QED  BY <1>1, <1>2, <1>4, <1>5 DEF Deposited

\* One more completed deposit.
LEMMA OneMoreCompleted ==
    ASSUME TypeOK, TypeOK', NEW i, i \notin Completed, Completed' = Completed \cup {i},
           \A k \in Completed : deposits'[k].amount = deposits[k].amount
    PROVE  SumFunction(Deposited') = deposits'[i].amount + SumFunction(Deposited)
  <1> DEFINE D == Completed'
             f == Deposited'
  <1>1. IsFiniteSet(Completed) /\ Deposited \in [Completed -> Int]
    BY DepositedType
  <1>2. IsFiniteSet(D)
    BY <1>1, FS_AddElement
  <1>3. f \in [D -> Int]
    <2>1. ASSUME NEW k \in Completed'
          PROVE  deposits'[k].amount \in Int
      <3>1. deposits' \in Seq(WalletDeposit) /\ k \in DOMAIN deposits'
        BY DEF TypeOK, Completed
      <3>2. deposits'[k] \in WalletDeposit
        BY <3>1
      <3>3. deposits'[k].amount \in Amounts
        BY <3>2 DEF WalletDeposit
      <3>4. \A a \in Amounts : a \in Int
        BY WalletAssumption
      <3> QED  BY <3>3, <3>4
    <2> QED  BY <2>1 DEF Deposited
  <1>4. i \in D /\ D \ {i} = Completed
    OBVIOUS
  <1>5. \A k \in D \ {i} : Deposited[k] = f[k]
    BY <1>4 DEF Deposited
  <1>6. f[i] = deposits'[i].amount
    BY <1>4 DEF Deposited
  <1>7. Deposited \in [D \ {i} -> Int]
    BY <1>1, <1>4
  <1> HIDE DEF D, f
  <1>8. SumFunction(f) = f[i] + SumFunction(Deposited)
    BY <1>2, <1>3, <1>4, <1>5, <1>7, SumSplit
  <1> QED  BY <1>6, <1>8 DEF f

\* A row that was written, or created by being read.
LEMMA RowWritten ==
    ASSUME wallet' \in PartnerWallet
    PROVE  Row' = wallet'
  BY WalletAssumption DEF Row

\* What WalletAccounted says of the row, the pool and the deposits.
LEMMA Accounts ==
    ASSUME TypeOK
    PROVE  WalletAccounted <=> /\ Row.balance = Row.deposited - Row.spent
                               /\ Row.deposited = SumFunction(Deposited)
                               /\ poolSet \/ pool = Row.deposited
  BY DEF WalletAccounted, Deposited, Completed

\* ... and after a step.
LEMMA AccountsAfter ==
    ASSUME TypeOK'
    PROVE  WalletAccounted' <=> /\ Row'.balance = Row'.deposited - Row'.spent
                                /\ Row'.deposited = SumFunction(Deposited')
                                /\ poolSet' \/ pool' = Row'.deposited
  BY DEF WalletAccounted, Deposited, Completed

\* A step that pays out of the row, or leaves it alone.
LEMMA NoDeposit ==
    ASSUME TypeOK, TypeOK', WalletAccounted, UNCHANGED <<pool, deposits, poolSet>>,
           NEW n \in Nat, Row'.balance = Row.balance - n,
           Row'.deposited = Row.deposited, Row'.spent = Row.spent + n
    PROVE  WalletAccounted'
  <1>1. Deposited' = Deposited
    BY DEF Deposited, Completed
  <1>2. Row.balance \in Int /\ Row.deposited \in Nat /\ Row.spent \in Nat
    BY RowType
  <1>3. Row'.balance = Row'.deposited - Row'.spent
    BY <1>2, Accounts
  <1> QED  BY <1>1, <1>3, Accounts, AccountsAfter

\* A step that completes deposit i, or none.
LEMMA SomeDeposit ==
    ASSUME TypeOK, TypeOK', WalletAccounted, NEW n \in Nat,
           Row'.balance = Row.balance + n, Row'.deposited = Row.deposited + n,
           Row'.spent = Row.spent, pool' = pool + n, poolSet' = poolSet,
           SumFunction(Deposited') = SumFunction(Deposited) + n
    PROVE  WalletAccounted'
  <1>1. /\ Row.balance \in Int /\ Row.deposited \in Nat /\ Row.spent \in Nat
        /\ pool \in Nat
    BY RowType DEF TypeOK
  <1>2. Row'.balance = Row'.deposited - Row'.spent
    BY <1>1, Accounts
  <1> QED  BY <1>1, <1>2, Accounts, AccountsAfter

\* A new deposit, complete or pending.
LEMMA DepositAccounted ==
    ASSUME TypeOK, TypeOK', WalletAccounted, NEW r \in Requests, NEW a \in Amounts,
           NEW complete \in BOOLEAN, Deposit(r, a, complete)
    PROVE  WalletAccounted'
  <1> DEFINE n == Len(deposits)
             status == IF complete THEN "completed" ELSE "pending"
             paid == IF complete THEN a ELSE 0
  <1>1. n \in Nat /\ DOMAIN deposits = 1..n /\ Completed \subseteq 1..n
    BY DepositedType
  <1>2. /\ DOMAIN deposits' = 1..(n + 1)
        /\ \A k \in 1..n : deposits'[k] = deposits[k]
        /\ deposits'[n + 1].amount = a /\ deposits'[n + 1].status = status
    <2> DEFINE d == NewDeposit(a, status)
    <2>1. deposits' = Append(deposits, d) /\ deposits \in Seq(WalletDeposit)
      BY DEF Deposit, TypeOK
    <2>2. d.amount = a /\ d.status = status /\ d \in WalletDeposit
      BY DepositTypes DEF NewDeposit
    <2> HIDE DEF d
    <2> QED  BY <1>1, <2>1, <2>2
  <1>3. a \in Nat /\ paid \in Nat
    BY DepositTypes
  <1>4. /\ Row'.balance = Row.balance + paid /\ Row'.deposited = Row.deposited + paid
        /\ Row'.spent = Row.spent /\ pool' = pool + paid /\ poolSet' = poolSet
    <2>1. /\ wallet' \in PartnerWallet
          /\ wallet'.balance = Row.balance + paid /\ wallet'.deposited = Row.deposited + paid
          /\ wallet'.spent = Row.spent /\ pool' = pool + paid
      BY DepositEffect
    <2>2. poolSet' = poolSet
      BY DEF Deposit
    <2> QED  BY <2>1, <2>2, RowWritten
  <1>5. SumFunction(Deposited) \in Int
    BY DepositedType, SumType
  <1> HIDE DEF n
  <1>6. CASE complete
    <2>1. Completed' = Completed \cup {n + 1} /\ n + 1 \notin Completed
      BY <1>1, <1>2, <1>6 DEF Completed
    <2>2. \A k \in Completed : deposits'[k].amount = deposits[k].amount
      BY <1>1, <1>2
    <2>3. SumFunction(Deposited') = deposits'[n + 1].amount + SumFunction(Deposited)
      BY <2>1, <2>2, OneMoreCompleted
    <2>4. SumFunction(Deposited') = SumFunction(Deposited) + paid
      BY <1>2, <1>3, <1>5, <1>6, <2>3
    <2> HIDE DEF paid
    <2> QED  BY <1>3, <1>4, <2>4, SomeDeposit
  <1>7. CASE ~complete
    <2>1. Completed' = Completed
      BY <1>1, <1>2, <1>7 DEF Completed
    <2>2. Deposited' = Deposited
      BY <1>1, <1>2, <2>1 DEF Deposited
    <2>3. SumFunction(Deposited') = SumFunction(Deposited) + paid
      BY <1>5, <1>7, <2>2
    <2> HIDE DEF paid
    <2> QED  BY <1>3, <1>4, <2>3, SomeDeposit
  <1> QED  BY <1>6, <1>7

\* The completion of a pending deposit.
LEMMA CompleteAccounted ==
    ASSUME TypeOK, TypeOK', WalletAccounted, NEW r \in Requests, NEW i \in DOMAIN deposits,
           CompleteDeposit(r, i)
    PROVE  WalletAccounted'
  <1> DEFINE a == deposits[i].amount
  <1>1. /\ a \in Nat /\ deposits[i].status = "pending"
        /\ wallet' \in PartnerWallet
        /\ wallet'.balance = Row.balance + a /\ wallet'.deposited = Row.deposited + a
        /\ wallet'.spent = Row.spent /\ pool' = pool + a
    BY CompleteEffect
  <1>2. /\ DOMAIN deposits' = DOMAIN deposits
        /\ \A k \in DOMAIN deposits : /\ deposits'[k].amount = deposits[k].amount
                                      /\ k # i => deposits'[k] = deposits[k]
        /\ deposits'[i].status = "completed"
    <2>1. deposits' = [deposits EXCEPT ![i].status = "completed"]
      BY CompleteEffect
    <2>2. deposits \in Seq(WalletDeposit) /\ deposits[i] \in WalletDeposit
      BY DEF TypeOK
    <2> DEFINE d == [deposits[i] EXCEPT !.status = "completed"]
    <2>3. d.status = "completed" /\ d.amount = deposits[i].amount
      BY <2>2 DEF WalletDeposit
    <2>4. deposits' = [deposits EXCEPT ![i] = d]
      BY <2>1, <2>2
    <2> HIDE DEF d
    <2> QED  BY <2>2, <2>3, <2>4
  <1>3. Completed' = Completed \cup {i} /\ i \notin Completed
    BY <1>1, <1>2 DEF Completed
  <1>4. \A k \in Completed : deposits'[k].amount = deposits[k].amount
    BY <1>2 DEF Completed
  <1>5. SumFunction(Deposited') = deposits'[i].amount + SumFunction(Deposited)
    BY <1>3, <1>4, OneMoreCompleted
  <1>6. deposits'[i].amount = a /\ SumFunction(Deposited) \in Int
    BY <1>2, DepositedType, SumType
  <1> HIDE DEF a
  <1>7. SumFunction(Deposited') = SumFunction(Deposited) + a
    BY <1>1, <1>5, <1>6
  <1>8. /\ Row'.balance = Row.balance + a /\ Row'.deposited = Row.deposited + a
        /\ Row'.spent = Row.spent /\ pool' = pool + a /\ poolSet' = poolSet
    BY <1>1, RowWritten DEF CompleteDeposit
  <1> QED  BY <1>1, <1>7, <1>8, SomeDeposit

\* Every step keeps the accounts.
LEMMA AccountStep ==
    ASSUME TypeOK, TypeOK', WalletAccounted, [Next]_vars
    PROVE  WalletAccounted'
  <1> DEFINE none == 0
  <1>1. /\ Row.balance \in Int /\ Row.deposited \in Nat /\ Row.spent \in Nat
        /\ none \in Nat
        /\ Row.balance - none = Row.balance /\ Row.spent + none = Row.spent
    BY RowType
  <1> HIDE DEF none
  <1>2. ASSUME Row' = Row, UNCHANGED <<pool, deposits, poolSet>>
        PROVE  WalletAccounted'
    <2>1. /\ Row'.balance = Row.balance - none /\ Row'.deposited = Row.deposited
          /\ Row'.spent = Row.spent + none
      BY <1>1, <1>2
    <2> QED  BY <1>1, <1>2, <2>1, NoDeposit
  <1>3. ASSUME UNCHANGED <<wallet, pool, deposits, poolSet>>
        PROVE  WalletAccounted'
    BY <1>2, <1>3 DEF Row
  <1>4. CASE UNCHANGED vars
    BY <1>3, <1>4 DEF vars
  <1>5. CASE Expire
    BY <1>3, <1>5 DEF Expire
  <1>6. ASSUME NEW r \in Requests, Serve(r)
        PROVE  WalletAccounted'
    <2>0. poolSet' = poolSet
      BY <1>6, ServeLeavesPoolSet
    <2>1. ASSUME NEW a, Miss(r, a)
          PROVE  WalletAccounted'
      <3>1. wallet' = Row /\ wallet' \in PartnerWallet
        BY <2>1, RowType DEF Miss
      <3>2. Row' = Row
        BY <3>1, RowWritten
      <3> QED  BY <1>2, <2>0, <2>1, <3>2 DEF Miss
    <2>2. ASSUME (\E a \in Amounts : Hit(r, a)) \/ Store(r) \/ Decrement(r) \/ Restore(r) \/ Drop(r)
          PROVE  WalletAccounted'
      BY <1>3, <2>0, <2>2 DEF Hit, Store, Decrement, Restore, Drop
    <2>3. CASE Charge(r)
      <3>1. /\ wallet' \in PartnerWallet
            /\ wallet'.balance = Row.balance - task[r].amount
            /\ wallet'.deposited = Row.deposited
            /\ wallet'.spent = Row.spent + task[r].amount
            /\ UNCHANGED <<pool, deposits>>
        BY <2>3, ChargeEffect
      <3>2. Row' = wallet' /\ task[r].amount \in Nat
        BY <3>1, RowWritten, TaskType
      <3> QED  BY <2>0, <3>1, <3>2, NoDeposit
    <2> QED
      BY <1>6, <2>1, <2>2, <2>3, DepositAccounted, CompleteAccounted DEF Serve
  <1>7. ASSUME NEW v \in Amounts, SetPool(v)
        PROVE  WalletAccounted'
    <2>1. /\ Row' = Row /\ Deposited' = Deposited /\ poolSet'
      BY <1>7 DEF SetPool, Row, Deposited, Completed
    <2> QED  BY <2>1, Accounts, AccountsAfter
  <1> QED  BY <1>4, <1>5, <1>6, <1>7 DEF Next

-----------------------------------------------------------------------------
(* The key and the row                                                     *)

\* Without a race the row can pay what was let through, the key has no more than
\* what it can pay beyond that and beyond what will be put back, and nothing will
\* be put back on a key that is gone.
RaceInv ==
    raced \/ /\ Charged <= Row.balance
             /\ cache # Absent => cache.value + Restored <= Row.balance - Charged
             /\ cache = Absent =>
                    \A r \in Requests : task[r].op = "restore" => task[r].replaced

\* A step of a request that leaves the key alone and makes neither a debit that
\* was let through nor one to be put back: it was neither before.
LEMMA KeyUntouched ==
    ASSUME TypeOK, TypeOK', RaceInv, NEW r \in Requests, NEW new \in Task,
           new.op \notin {"charge", "restore"}, task[r].op \notin {"charge", "restore"},
           task' = [task EXCEPT ![r] = new], cache' = cache, raced' = raced,
           Row'.balance >= Row.balance
    PROVE  RaceInv'
  <1>1. /\ Charged' = Charged + (0 - Charging[r])
        /\ Restored' = Restored + (0 - Restoring[r])
        /\ \A u \in Requests \ {r} : task'[u] = task[u]
        /\ task'[r] = new
    BY OneTask
  <1>2. Charging[r] = 0 /\ Restoring[r] = 0
    BY DEF Charging, Restoring
  <1>3. Charged \in Nat /\ Restored \in Nat
    BY SumTypes
  <1>4. Row.balance \in Int /\ Row'.balance \in Int
    <2>1. Row' \in PartnerWallet
      BY DEF TypeOK, Row, NewWallet, PartnerWallet
    <2> QED  BY <2>1, RowType DEF PartnerWallet
  <1>5. Charged' = Charged /\ Restored' = Restored
    BY <1>1, <1>2, <1>3
  <1>6. cache # Absent => cache.value \in Int
    BY DEF TypeOK, KeyValue
  <1>7. cache = Absent /\ ~raced =>
            \A u \in Requests : task'[u].op = "restore" => task'[u].replaced
    <2>1. SUFFICES ASSUME cache = Absent, ~raced, NEW u \in Requests, task'[u].op = "restore"
                   PROVE  task'[u].replaced
      OBVIOUS
    <2>2. u # r
      BY <1>1, <2>1
    <2>3. task'[u] = task[u]
      BY <1>1, <2>2
    <2> QED  BY <2>1, <2>3 DEF RaceInv
  <1> DEFINE C == Charged
             R == Restored
             B == Row.balance
             B1 == Row'.balance
             v == cache.value
  <1>8. raced \/ (C <= B1 /\ (cache # Absent => v + R <= B1 - C))
    <2>1. raced \/ (C <= B /\ (cache # Absent => v + R <= B - C))
      BY DEF RaceInv
    <2>2. C \in Nat /\ R \in Nat /\ B \in Int /\ B1 \in Int /\ B1 >= B
      BY <1>3, <1>4
    <2>3. cache # Absent => v \in Int
      BY <1>6
    <2> HIDE DEF C, R, B, B1, v
    <2> QED  BY <2>1, <2>2, <2>3
  <1> HIDE DEF C, R, B, B1, v
  <1>9. raced \/ ( /\ Charged <= Row'.balance
                   /\ cache # Absent => cache.value + Restored <= Row'.balance - Charged)
    BY <1>8 DEF C, R, B, B1, v
  <1> QED  BY <1>5, <1>7, <1>9 DEF RaceInv

\* A step that leaves the row alone.
LEMMA SameRow ==
    ASSUME TypeOK, wallet' = wallet
    PROVE  Row' = Row /\ Row.balance \in Int
  BY RowType DEF Row

\* A step that deletes the key.
LEMMA KeyDeleted ==
    ASSUME TypeOK, TypeOK', RaceInv, Charged' = Charged, Row' = Row, raced' = raced,
           cache' = Absent, \A u \in Requests : task'[u].op = "restore" => task'[u].replaced
    PROVE  RaceInv'
  BY DEF RaceInv

\* A value is stored that was read some time ago: it fits, or it races.
LEMMA StoreRaces ==
    ASSUME TypeOK, TypeOK', RaceInv, NEW r \in Requests, Store(r)
    PROVE  RaceInv'
  <1>1. PICK new \in Task : /\ new.op \in {"idle", "decrement"}
                            /\ task' = [Replaced EXCEPT ![r] = new]
    BY StoreEffect
  <1>2. /\ task[r].op = "store"
        /\ cache' \in KeyValue /\ cache'.value = task[r].value
        /\ raced' = (raced \/ task[r].value > Row.balance - Charged)
        /\ UNCHANGED <<wallet, pool, deposits, expiries>>
    BY StoreEffect
  <1> DEFINE next == [Replaced EXCEPT ![r] = new]
  <1>3. /\ next \in [Requests -> Task]
        /\ next[r] = new
        /\ \A u \in Requests \ {r} : next[u] = Replaced[u]
    BY ReplacedType
  <1>4. task' = next
    BY <1>1
  <1>5. \A u \in Requests : \/ next[u] = Replaced[u]
                            \/ task[u].op # "charge" /\ next[u].op \notin {"charge", "restore"}
    BY <1>1, <1>2, <1>3
  <1> HIDE DEF next
  <1>6. Charged' = Charged /\ Restored' = 0
    BY <1>3, <1>4, <1>5, KeyReplaced
  <1>7. Row' = Row /\ Row.balance \in Int
    BY <1>2, SameRow
  <1>8. task[r].value \in Int /\ Charged \in Nat
    BY TaskType, SumTypes
  <1>9. cache' # Absent
    BY <1>2, WalletAssumption
  <1> DEFINE C == Charged
             B == Row.balance
             v == task[r].value
  <1>10. raced' \/ (C <= B /\ v + 0 <= B - C)
    <2>1. raced \/ C <= B
      BY DEF RaceInv
    <2>2. C \in Nat /\ B \in Int /\ v \in Int /\ (~raced' => ~raced /\ ~(v > B - C))
      BY <1>2, <1>7, <1>8
    <2> HIDE DEF C, B, v
    <2> QED  BY <2>1, <2>2
  <1> HIDE DEF C, B, v
  <1>11. raced' \/ (Charged <= Row.balance /\ task[r].value + 0 <= Row.balance - Charged)
    BY <1>10 DEF C, B, v
  <1> QED  BY <1>2, <1>6, <1>7, <1>9, <1>11 DEF RaceInv

\* DECRBY takes from the key what the debit may then take from the row, or will
\* be put back.
LEMMA DecrementRaces ==
    ASSUME TypeOK, TypeOK', RaceInv, NEW r \in Requests, Decrement(r)
    PROVE  RaceInv'
  <1>1. PICK new \in Task : /\ new.op = IF cache'.value >= 0 THEN "charge" ELSE "restore"
                            /\ new.amount = task[r].amount
                            /\ new.replaced = task[r].replaced
                            /\ task' = [task EXCEPT ![r] = new]
    BY DecrementEffect
  <1>2. /\ task[r].op = "decrement"
        /\ cache' = Added(-task[r].amount)
        /\ UNCHANGED <<wallet, pool, deposits, expiries, raced>>
    BY DecrementEffect
  <1> DEFINE a == task[r].amount
             ok == cache'.value >= 0
             back == IF ok \/ new.replaced THEN 0 ELSE a
             out == IF ok THEN a ELSE 0
             had == IF cache = Absent THEN 0 ELSE cache.value
  <1>3. a \in Nat /\ -a \in Int
    BY TaskType
  <1>4. /\ cache' \in KeyValue /\ cache'.value = had + (-a)
        /\ cache # Absent => cache.value \in Int
    BY <1>2, <1>3, AddedType
  <1>5. had \in Int /\ cache'.value = had - a
    BY <1>3, <1>4
  <1>6. /\ Charged' = Charged + ((IF new.op = "charge" THEN new.amount ELSE 0) - Charging[r])
        /\ Restored' = Restored
               + ((IF new.op = "restore" /\ ~new.replaced THEN new.amount ELSE 0)
                   - Restoring[r])
    BY <1>1, OneTask
  <1>7. Charging[r] = 0 /\ Restoring[r] = 0
    BY <1>2 DEF Charging, Restoring
  <1>8. /\ (IF new.op = "charge" THEN new.amount ELSE 0) = out
        /\ (IF new.op = "restore" /\ ~new.replaced THEN new.amount ELSE 0) = back
    BY <1>1
  <1>9. Charged \in Nat /\ Restored \in Nat
    BY SumTypes
  <1>10. out \in Nat /\ back \in Nat
    BY <1>3
  <1>11. Charged' = Charged + out /\ Restored' = Restored + back
    <2> DEFINE o == IF new.op = "charge" THEN new.amount ELSE 0
               b == IF new.op = "restore" /\ ~new.replaced THEN new.amount ELSE 0
    <2>1. o = out /\ b = back /\ Charged' = Charged + (o - 0) /\ Restored' = Restored + (b - 0)
      BY <1>6, <1>7, <1>8
    <2> HIDE DEF o, b, out, back
    <2> QED  BY <2>1, <1>9, <1>10
  <1>12. Row' = Row /\ Row.balance \in Int
    BY <1>2, SameRow
  <1>13. cache' # Absent
    BY <1>4, WalletAssumption
  \* Without a key, no rejected debit has anything to put back.
  <1>14. ~raced /\ cache = Absent => Restored = 0
    <2>1. SUFFICES ASSUME ~raced, cache = Absent
                   PROVE  Restored = 0
      OBVIOUS
    <2>2. \A u \in Requests : task[u].op = "restore" => task[u].replaced
      BY <2>1 DEF RaceInv
    <2>3. Restoring \in [Requests -> Int] /\ \A u \in Requests : Restoring[u] = 0
      BY <2>2, SumTypes DEF Restoring
    <2> QED  BY <2>3, WalletAssumption, SumOfZeros DEF Restored
  <1> DEFINE C == Charged
             R == Restored
             B == Row.balance
             v == cache'.value
  <1>15. raced \/ (C + out <= B /\ v + (R + back) <= B - (C + out))
    <2>1. raced \/ (C <= B /\ had + R <= B - C)
      BY <1>14, <1>9, <1>12 DEF RaceInv
    <2>2. /\ C \in Nat /\ R \in Nat /\ B \in Int /\ had \in Int /\ a \in Nat
          /\ v = had - a
      BY <1>3, <1>5, <1>9, <1>12
    <2>3. /\ v >= 0 => out = a /\ back = 0
          /\ ~(v >= 0) => out = 0 /\ back \in {0, a}
      BY <1>3
    <2> HIDE DEF C, R, B, v, had, out, back, a
    <2>4. ASSUME v >= 0, ~raced
          PROVE  C + out <= B /\ v + (R + back) <= B - (C + out)
      BY <2>1, <2>2, <2>3, <2>4
    <2>5. ASSUME ~(v >= 0), ~raced
          PROVE  C + out <= B /\ v + (R + back) <= B - (C + out)
      BY <2>1, <2>2, <2>3, <2>5
    <2> QED  BY <2>4, <2>5
  <1> HIDE DEF C, R, B, v, out, back, had, a
  <1>16. raced \/ ( /\ Charged + out <= Row.balance
                    /\ cache'.value + (Restored + back) <= Row.balance - (Charged + out))
    BY <1>15 DEF C, R, B, v
  <1> QED  BY <1>2, <1>11, <1>12, <1>13, <1>16 DEF RaceInv

\* INCRBY puts back what was taken, if the key is still the one it was taken from.
LEMMA RestoreRaces ==
    ASSUME TypeOK, TypeOK', RaceInv, NEW r \in Requests, Restore(r)
    PROVE  RaceInv'
  <1>1. /\ task[r].op = "restore"
        /\ cache' = Added(task[r].amount)
        /\ raced' = (raced \/ task[r].replaced)
        /\ task' = [task EXCEPT ![r] = Idle]
        /\ UNCHANGED <<wallet, pool, deposits, expiries>>
    BY DEF Restore, Done
  <1> DEFINE a == task[r].amount
  <1>2. a \in Nat
    BY TaskType
  <1>3. /\ cache' \in KeyValue
        /\ cache'.value = (IF cache = Absent THEN 0 ELSE cache.value) + a
        /\ cache # Absent => cache.value \in Int
    BY <1>1, <1>2, AddedType
  <1>4. /\ Charged' = Charged + (0 - Charging[r])
        /\ Restored' = Restored + (0 - Restoring[r])
    BY <1>1, IdleType, OneTask
  <1>5. Charging[r] = 0 /\ (~task[r].replaced => Restoring[r] = a)
    BY <1>1 DEF Charging, Restoring
  <1>6. Charged \in Nat /\ Restored \in Nat /\ Restoring[r] \in Nat
    BY SumTypes
  <1>7. Row' = Row /\ Row.balance \in Int
    BY <1>1, SameRow
  <1>8. cache' # Absent
    BY <1>3, WalletAssumption
  <1>9. ASSUME ~raced, ~task[r].replaced
        PROVE  Charged' <= Row.balance /\ cache'.value + Restored' <= Row.balance - Charged'
    <2>1. cache # Absent
      BY <1>1, <1>9 DEF RaceInv
    <2> DEFINE C == Charged
               R == Restored
               B == Row.balance
               v == cache.value
               q == Restoring[r]
               p == Charging[r]
    <2>2. C <= B /\ v + R <= B - C
      BY <1>9, <2>1 DEF RaceInv
    <2>3. /\ C \in Nat /\ R \in Nat /\ B \in Int /\ v \in Int /\ q = a /\ p = 0
          /\ cache'.value = v + a /\ Charged' = C + (0 - p) /\ Restored' = R + (0 - q)
      BY <1>3, <1>4, <1>5, <1>6, <1>7, <1>9, <2>1
    <2>4. Charged' <= B /\ cache'.value + Restored' <= B - Charged'
      <3> HIDE DEF C, R, B, v, a, p, q
      <3>1. Charged' = C
        BY <2>3
      <3>2. cache'.value + Restored' = v + R
        BY <2>3, <1>2
      <3> QED  BY <2>2, <3>1, <3>2
    <2> QED  BY <2>4
  <1>10. raced' \/ (~raced /\ ~task[r].replaced)
    BY <1>1 DEF TypeOK
  <1> QED  BY <1>7, <1>8, <1>9, <1>10 DEF RaceInv

\* The row pays what was let through.
LEMMA ChargeRaces ==
    ASSUME TypeOK, TypeOK', RaceInv, NEW r \in Requests, Charge(r)
    PROVE  RaceInv'
  <1>1. /\ wallet' \in PartnerWallet
        /\ wallet'.balance = Row.balance - task[r].amount
        /\ task' = [task EXCEPT ![r] = Idle] /\ task[r].op = "charge"
        /\ UNCHANGED <<pool, deposits, cache, expiries, raced>>
    BY ChargeEffect
  <1>2. Row' = wallet'
    BY <1>1, RowWritten
  <1>3. /\ Charged' = Charged + (0 - Charging[r])
        /\ Restored' = Restored + (0 - Restoring[r])
        /\ \A u \in Requests \ {r} : task'[u] = task[u]
        /\ task'[r] = Idle
    BY <1>1, IdleType, OneTask
  <1>4. Charging[r] = task[r].amount /\ Restoring[r] = 0
    BY <1>1 DEF Charging, Restoring
  <1>5. Charged \in Nat /\ Restored \in Nat /\ task[r].amount \in Nat /\ Row.balance \in Int
    BY SumTypes, TaskType, RowType
  <1>6. cache # Absent => cache.value \in Int
    BY DEF TypeOK, KeyValue
  <1> DEFINE C == Charged
             R == Restored
             B == Row.balance
             v == cache.value
             a == task[r].amount
  <1>7. Charged' = C - a /\ Restored' = R /\ Row'.balance = B - a
    <2> DEFINE p == Charging[r]
               q == Restoring[r]
    <2>1. /\ Charged' = C + (0 - p) /\ Restored' = R + (0 - q) /\ p = a /\ q = 0
          /\ C \in Nat /\ R \in Nat /\ a \in Nat
      BY <1>3, <1>4, <1>5
    <2>2. Row'.balance = B - a
      BY <1>1, <1>2
    <2> HIDE DEF p, q, C, R, a
    <2> QED  BY <2>1, <2>2
  <1>8. raced \/ (C - a <= B - a /\ (cache # Absent => v + R <= (B - a) - (C - a)))
    <2>1. raced \/ (C <= B /\ (cache # Absent => v + R <= B - C))
      BY DEF RaceInv
    <2>2. C \in Nat /\ R \in Nat /\ B \in Int /\ a \in Nat /\ (cache # Absent => v \in Int)
      BY <1>5, <1>6
    <2> HIDE DEF C, R, B, v, a
    <2> QED  BY <2>1, <2>2
  <1>9. raced \/ ( /\ Charged' <= Row'.balance
                   /\ cache # Absent => v + Restored' <= Row'.balance - Charged')
    BY <1>7, <1>8
  <1>10. cache = Absent /\ ~raced =>
            \A u \in Requests : task'[u].op = "restore" => task'[u].replaced
    <2>1. SUFFICES ASSUME cache = Absent, ~raced, NEW u \in Requests, task'[u].op = "restore"
                   PROVE  task'[u].replaced
      OBVIOUS
    <2>2. u # r
      BY <1>3, <2>1, IdleType
    <2>3. task'[u] = task[u]
      BY <1>3, <2>2
    <2> QED  BY <2>1, <2>3 DEF RaceInv
  <1>11. cache' = cache /\ raced' = raced
    BY <1>1
  <1>12. raced' \/ ( /\ Charged' <= Row'.balance
                     /\ cache' # Absent => cache'.value + Restored' <= Row'.balance - Charged')
    BY <1>9, <1>11
  <1> QED  BY <1>10, <1>11, <1>12 DEF RaceInv

\* The key is deleted after a deposit's commit.
LEMMA DropRaces ==
    ASSUME TypeOK, TypeOK', RaceInv, NEW r \in Requests, Drop(r)
    PROVE  RaceInv'
  <1> DEFINE next == [Replaced EXCEPT ![r] = Idle]
  <1>1. /\ task' = next /\ task[r].op = "drop" /\ cache' = Absent
        /\ UNCHANGED <<wallet, raced>>
    BY DEF Drop
  <1>2. /\ next \in [Requests -> Task]
        /\ next[r] = Idle
        /\ \A u \in Requests \ {r} : next[u] = Replaced[u]
    BY ReplacedType, IdleType
  <1>3. \A u \in Requests : \/ next[u] = Replaced[u]
                            \/ task[u].op # "charge" /\ next[u].op \notin {"charge", "restore"}
    BY <1>1, <1>2, IdleType
  <1>4. task' = next
    BY <1>1
  <1> HIDE DEF next
  <1>5. /\ Charged' = Charged
        /\ \A u \in Requests : task'[u].op = "restore" => task'[u].replaced
    BY <1>2, <1>3, <1>4, KeyReplaced
  <1>6. Row' = Row
    BY <1>1, SameRow
  <1> QED  BY <1>1, <1>5, <1>6, KeyDeleted

\* The key expires.
LEMMA ExpireRaces ==
    ASSUME TypeOK, TypeOK', RaceInv, Expire
    PROVE  RaceInv'
  <1>1. task' = Replaced /\ cache' = Absent /\ UNCHANGED <<wallet, raced>>
    BY DEF Expire
  <1>2. Replaced \in [Requests -> Task]
    BY ReplacedType
  <1>3. /\ Charged' = Charged
        /\ \A u \in Requests : task'[u].op = "restore" => task'[u].replaced
    BY <1>1, <1>2, KeyReplaced
  <1>4. Row' = Row
    BY <1>1, SameRow
  <1> QED  BY <1>1, <1>3, <1>4, KeyDeleted

\* Every step keeps the row able to pay, or is one of the races.
LEMMA RaceStep ==
    ASSUME TypeOK, TypeOK', RaceInv, [Next]_vars
    PROVE  RaceInv'
  <1>0. \A a \in Amounts : a \in Nat
    BY DepositTypes
  <1>1. CASE UNCHANGED vars
    BY <1>1 DEF vars, RaceInv, Row, Charged, Restored, Restoring
  <1>2. CASE Expire
    BY <1>2, ExpireRaces
  <1>3. ASSUME NEW r \in Requests, Serve(r)
        PROVE  RaceInv'
    <2>1. ASSUME NEW a \in Amounts \cup {0}, Miss(r, a)
          PROVE  RaceInv'
      <3>1. a \in Nat
        BY <1>0
      <3>2. PICK new \in Task : new.op = "store" /\ task' = [task EXCEPT ![r] = new]
        BY <2>1, <3>1, MissEffect
      <3>3. task[r].op = "idle" /\ wallet' = Row /\ cache' = cache /\ raced' = raced
        BY <2>1, <3>1, MissEffect
      <3>4. Row' = Row /\ Row.balance \in Int
        BY <3>3, RowType, RowWritten
      <3>5. Row'.balance >= Row.balance
        BY <3>4
      <3> QED  BY <3>2, <3>3, <3>5, KeyUntouched
    <2>2. ASSUME NEW a \in Amounts, Hit(r, a)
          PROVE  RaceInv'
      <3>1. a \in Nat
        BY <1>0
      <3>2. PICK new \in Task : new.op = "decrement" /\ task' = [task EXCEPT ![r] = new]
        BY <2>2, <3>1, HitEffect
      <3>3. task[r].op = "idle" /\ wallet' = wallet /\ cache' = cache /\ raced' = raced
        BY <2>2, <3>1, HitEffect
      <3>4. Row' = Row /\ Row.balance \in Int
        BY <3>3, SameRow
      <3>5. Row'.balance >= Row.balance
        BY <3>4
      <3> QED  BY <3>2, <3>3, <3>5, KeyUntouched
    <2>3. ASSUME NEW a \in Amounts, NEW complete \in BOOLEAN, Deposit(r, a, complete)
          PROVE  RaceInv'
      <3>1. PICK new \in Task : new.op = "drop" /\ task' = [task EXCEPT ![r] = new]
        BY <2>3, DepositEffect
      <3>2. task[r].op = "idle" /\ cache' = cache /\ raced' = raced
        BY <2>3 DEF Deposit
      <3>3. a \in Nat /\ Row.balance \in Int
        BY <1>0, RowType
      <3>4. Row'.balance >= Row.balance
        <4>1. CASE complete
          <5>1. wallet' \in PartnerWallet /\ wallet'.balance = Row.balance + a
            BY <2>3, <3>3, <4>1, CreditEffect DEF Deposit
          <5>2. Row'.balance = Row.balance + a
            BY <5>1, RowWritten
          <5> QED  BY <3>3, <5>2
        <4>2. CASE ~complete
          <5>1. wallet' = Row
            BY <2>3, <4>2 DEF Deposit
          <5>2. Row' = Row
            BY <5>1, RowType, RowWritten
          <5> QED  BY <3>3, <5>2
        <4> QED  BY <4>1, <4>2
      <3> QED  BY <3>1, <3>2, <3>4, KeyUntouched
    <2>4. ASSUME NEW i \in DOMAIN deposits, CompleteDeposit(r, i)
          PROVE  RaceInv'
      <3>1. PICK new \in Task : new.op = "drop" /\ task' = [task EXCEPT ![r] = new]
        BY <2>4, CompleteEffect
      <3>2. task[r].op = "idle" /\ cache' = cache /\ raced' = raced
        BY <2>4 DEF CompleteDeposit
      <3>3. deposits[i].amount \in Nat /\ Row.balance \in Int
        BY RowType, DepositTypes
      <3>4. wallet' \in PartnerWallet /\ wallet'.balance = Row.balance + deposits[i].amount
        BY <2>4, <3>3, CreditEffect DEF CompleteDeposit
      <3>5. Row'.balance = Row.balance + deposits[i].amount
        BY <3>4, RowWritten
      <3>6. Row'.balance >= Row.balance
        BY <3>3, <3>5
      <3> QED  BY <3>1, <3>2, <3>6, KeyUntouched
    <2> QED
      BY <1>3, <2>1, <2>2, <2>3, <2>4, StoreRaces, DecrementRaces, RestoreRaces, ChargeRaces,
         DropRaces DEF Serve
  <1>4. ASSUME NEW v \in Amounts, SetPool(v)
        PROVE  RaceInv'
    BY <1>4 DEF SetPool, RaceInv, Row, Charged, Restored, Restoring
  <1> QED  BY <1>1, <1>2, <1>3, <1>4 DEF Next

-----------------------------------------------------------------------------
(* The theorems                                                            *)

\* Nothing is deposited, and no request does anything.
LEMMA InitFacts ==
    ASSUME Init
    PROVE  TypeOK /\ WalletAccounted /\ RaceInv
  <1>1. TypeOK
    <2>1. Idle \in Task /\ <<>> \in Seq(WalletDeposit)
      BY IdleType
    <2> QED  BY <2>1 DEF Init, TypeOK
  <1>2. Row = NewWallet
    BY DEF Init, Row
  <1>3. Row.balance = 0 /\ Row.deposited = 0 /\ Row.spent = 0 /\ pool = 0
    BY <1>2 DEF Init, NewWallet
  <1>4. Completed = {}
    BY DEF Init, Completed
  <1>5. SumFunction(Deposited) = 0
    <2>1. Deposited \in [{} -> Int]
      BY <1>1, <1>4, DepositedType
    <2> QED  BY <2>1, SumOfNone
  <1>6. WalletAccounted
    BY <1>1, <1>3, <1>5, Accounts
  <1>7. \A r \in Requests : task[r].op = "idle"
    BY IdleType DEF Init
  <1>8. Charged = 0
    <2>1. \A r \in Requests : Charging[r] = 0
      BY <1>7 DEF Charging
    <2>2. Charging \in [Requests -> Int] /\ Charged = SumFunction(Charging)
      BY <1>1, SumTypes
    <2> QED  BY <2>1, <2>2, WalletAssumption, SumOfZeros
  <1>9. RaceInv
    BY <1>3, <1>7, <1>8 DEF Init, RaceInv
  <1> QED  BY <1>1, <1>6, <1>9

\* The row, the deposits, the Redis key and what each request does next have the
\* shapes the code gives them.
THEOREM TypeCorrect == Spec => []TypeOK
  <1>1. Init => TypeOK
    BY InitFacts
  <1>2. TypeOK /\ [Next]_vars => TypeOK'
    BY TypeStep
  <1> QED  BY <1>1, <1>2, PTL DEF Spec

\* However many requests complete a deposit and however their transactions are
\* ordered, it is credited once, to the row and, as long as the platform owner has
\* not set it, to the partner's credit pool, and the row's balance is what was
\* deposited less what was spent.
THEOREM DepositsAreAccounted == Spec => []WalletAccounted
  <1>1. Init => TypeOK /\ WalletAccounted
    BY InitFacts
  <1>2. TypeOK /\ TypeOK' /\ WalletAccounted /\ [Next]_vars => WalletAccounted'
    BY AccountStep
  <1>3. Spec => []TypeOK
    BY TypeCorrect
  <1> QED  BY <1>1, <1>2, <1>3, PTL DEF Spec

\* The row goes below zero only after the key was given more than the row could
\* pay: with neither of the two races a debit never overdraws.
THEOREM OverdrawnOnlyAfterRace == Spec => []OverdrawnOnlyIfRaced
  <1>1. Init => RaceInv
    BY InitFacts
  <1>2. TypeOK /\ TypeOK' /\ RaceInv /\ [Next]_vars => RaceInv'
    BY RaceStep
  <1>3. Spec => []TypeOK
    BY TypeCorrect
  <1>4. TypeOK /\ RaceInv => OverdrawnOnlyIfRaced
    <2>1. SUFFICES ASSUME TypeOK, RaceInv, ~raced
                   PROVE  ~(Row.balance < 0)
      BY DEF OverdrawnOnlyIfRaced
    <2>2. Charged \in Nat /\ Row.balance \in Int /\ Charged <= Row.balance
      BY <2>1, SumTypes, RowType DEF RaceInv
    <2> QED  BY <2>2
  <1> QED  BY <1>1, <1>2, <1>3, <1>4, PTL DEF Spec
=================================================================================
