----------------------------- MODULE BankProofs -----------------------------
(***************************************************************************)
(* Theorems about the spin barrier (Barrier), alone and as the workers of  *)
(* the bank workload use it, and about the workload itself (Bank): its     *)
(* books balance, and it accuses no library wrongly.                       *)
(***************************************************************************)
EXTENDS Bank, FiniteSetTheorems, SequenceTheorems, WellFoundedInduction, TLAPS

\* The threads that the counter counts.
CountedIn == {t \in Threads : pc[t] \in {"set_leave", "wait_leave", "leave"}}

\* Where threads can be while the entrance is open, and while the exit is.
Entering == {"out", "set_leave", "wait_leave", "wait_enter"}
Leaving == {"wait_leave", "leave", "set_enter", "wait_enter"}

\* The thread that has to open the exit, or the entrance, is the last one.
Opens ==
  /\ \A t \in Threads : pc[t] \in IF mode = "enter" THEN Entering ELSE Leaving
  /\ \A t, u \in Threads : t # u /\ pc[t] = "set_leave" => pc[u] = "wait_leave"
  /\ \A t, u \in Threads : t # u /\ pc[t] = "set_enter" => pc[u] = "wait_enter"

\* The rounds a thread has been let out of.
LetOut(t) == IF mode = "enter" /\ pc[t] = "wait_enter" THEN left[t] + 1 ELSE left[t]

RoundsEqual ==
  /\ \A t \in Threads : arrived[t] = IF pc[t] = "out" THEN left[t] ELSE left[t] + 1
  /\ \A t, u \in Threads : LetOut(t) = LetOut(u)

BarrierInv ==
  /\ TypeOK
  /\ step = Cardinality(CountedIn)
  /\ Opens
  /\ RoundsEqual

-----------------------------------------------------------------------------
LEMMA CardinalType == cardinal \in Nat \ {0}
  BY BarrierAssumption, FS_CardinalityType, FS_EmptySet DEF cardinal

LEMMA InitBarrier == ASSUME Init PROVE BarrierInv
  <1>1. CountedIn = {}
    BY DEF CountedIn, Init
  <1> QED
    BY <1>1, CardinalType, FS_EmptySet, BarrierAssumption
    DEF Init, BarrierInv, TypeOK, Opens, RoundsEqual, LetOut, Entering, Leaving

\* A thread enters the barrier.
LEMMA EnterKeeps ==
  ASSUME BarrierInv, NEW t \in Threads, Enter(t) PROVE BarrierInv'
  <1> USE BarrierAssumption, CardinalType
  <1>1. pc[t] = "out" /\ mode = "enter" /\ t \notin CountedIn /\ IsFiniteSet(CountedIn)
    <2>1. CountedIn \in SUBSET Threads
      BY DEF CountedIn
    <2> QED
      BY <2>1, FS_Subset DEF BarrierInv, Opens, Leaving, Enter, Goto, TypeOK, CountedIn
  <1>2. CountedIn' = CountedIn \cup {t}
    BY DEF BarrierInv, TypeOK, Enter, Goto, CountedIn
  <1>3. step' = Cardinality(CountedIn') /\ IsFiniteSet(CountedIn')
    BY <1>1, <1>2, FS_AddElement DEF BarrierInv, Enter
  <1>4. CountedIn' \in SUBSET Threads
    BY DEF CountedIn
  <1>5. step' <= cardinal /\ (step' = cardinal => CountedIn' = Threads)
    BY <1>3, <1>4, FS_Subset DEF cardinal
  <1>6. TypeOK'
    BY <1>5 DEF BarrierInv, TypeOK, Enter, Goto
  <1>7. Opens'
    <2>1. \A u \in Threads : pc'[u] \in Entering
      BY <1>1, <1>6 DEF BarrierInv, TypeOK, Opens, Entering, Enter, Goto
    <2>2. pc'[t] = "set_leave" => \A u \in Threads \ {t} : pc'[u] = "wait_leave"
      <3>1. SUFFICES ASSUME step' = cardinal, NEW u \in Threads \ {t} PROVE pc[u] = "wait_leave"
        BY DEF BarrierInv, TypeOK, Enter, Goto
      <3>2. u \in CountedIn
        BY <3>1, <1>5, <1>2
      <3> QED
        BY <3>2, <1>1 DEF BarrierInv, Opens, Entering, CountedIn
    <2> QED
      BY <1>1, <2>1, <2>2 DEF BarrierInv, TypeOK, Opens, Entering, Enter, Goto
  <1>8. RoundsEqual'
    BY <1>1 DEF BarrierInv, TypeOK, RoundsEqual, LetOut, Enter, Goto
  <1> QED
    BY <1>3, <1>6, <1>7, <1>8 DEF BarrierInv

\* A thread counts itself out.
LEMMA LeaveKeeps ==
  ASSUME BarrierInv, NEW t \in Threads, Leave(t) PROVE BarrierInv'
  <1> USE BarrierAssumption, CardinalType
  <1>1. pc[t] = "leave" /\ mode = "leave" /\ t \in CountedIn /\ IsFiniteSet(CountedIn)
    <2>1. CountedIn \in SUBSET Threads
      BY DEF CountedIn
    <2> QED
      BY <2>1, FS_Subset DEF BarrierInv, Opens, Entering, Leave, Goto, TypeOK, CountedIn
  <1>2. CountedIn' = CountedIn \ {t}
    BY DEF BarrierInv, TypeOK, Leave, Goto, CountedIn
  <1>3. step' = Cardinality(CountedIn') /\ IsFiniteSet(CountedIn') /\ step' \in Nat
    <2>1. IsFiniteSet(CountedIn') /\ Cardinality(CountedIn') = Cardinality(CountedIn) - 1
      BY <1>1, <1>2, FS_RemoveElement
    <2>2. Cardinality(CountedIn') \in Nat
      BY <2>1, FS_CardinalityType
    <2> QED
      BY <2>1, <2>2 DEF BarrierInv, Leave
  <1>4. step' = 0 => CountedIn' = {}
    BY <1>3, FS_EmptySet
  <1>5. TypeOK'
    BY <1>3 DEF BarrierInv, TypeOK, Leave, Goto
  <1>6. Opens'
    <2>1. \A u \in Threads : pc'[u] \in Leaving
      BY <1>1, <1>5 DEF BarrierInv, TypeOK, Opens, Leaving, Leave, Goto
    <2>2. pc'[t] = "set_enter" => \A u \in Threads \ {t} : pc'[u] = "wait_enter"
      <3>1. SUFFICES ASSUME step' = 0, NEW u \in Threads \ {t} PROVE pc[u] = "wait_enter"
        BY DEF BarrierInv, TypeOK, Leave, Goto
      <3>2. u \notin CountedIn
        BY <3>1, <1>4, <1>2
      <3> QED
        BY <3>2, <1>1 DEF BarrierInv, Opens, Leaving, CountedIn
    <2> QED
      BY <1>1, <2>1, <2>2 DEF BarrierInv, TypeOK, Opens, Leaving, Leave, Goto
  <1>7. RoundsEqual'
    BY <1>1 DEF BarrierInv, TypeOK, RoundsEqual, LetOut, Leave, Goto
  <1> QED
    BY <1>3, <1>5, <1>6, <1>7 DEF BarrierInv

\* The other steps leave the counter alone.
LEMMA OtherKeeps ==
  ASSUME BarrierInv, NEW t \in Threads,
         SetLeave(t) \/ WaitLeave(t) \/ SetEnter(t) \/ WaitEnter(t)
  PROVE  BarrierInv'
  <1> USE BarrierAssumption, CardinalType
  <1>1. CASE SetLeave(t)
    <2>1. CountedIn' = CountedIn
      BY <1>1 DEF BarrierInv, TypeOK, SetLeave, Goto, CountedIn
    <2>2. mode = "enter" /\ \A u \in Threads \ {t} : pc[u] = "wait_leave"
      BY <1>1 DEF BarrierInv, TypeOK, Opens, Leaving, SetLeave, Goto
    <2> QED
      BY <1>1, <2>1, <2>2
      DEF BarrierInv, TypeOK, Opens, RoundsEqual, LetOut, Leaving, SetLeave, Goto
  <1>2. CASE WaitLeave(t)
    <2>1. CountedIn' = CountedIn
      BY <1>2 DEF BarrierInv, TypeOK, WaitLeave, Goto, CountedIn
    <2> QED
      BY <1>2, <2>1 DEF BarrierInv, TypeOK, Opens, RoundsEqual, LetOut, Leaving, WaitLeave, Goto
  <1>3. CASE SetEnter(t)
    <2>1. CountedIn' = CountedIn
      BY <1>3 DEF BarrierInv, TypeOK, SetEnter, Goto, CountedIn
    <2>2. mode = "leave" /\ \A u \in Threads \ {t} : pc[u] = "wait_enter"
      BY <1>3 DEF BarrierInv, TypeOK, Opens, Entering, SetEnter, Goto
    <2> QED
      BY <1>3, <2>1, <2>2
      DEF BarrierInv, TypeOK, Opens, RoundsEqual, LetOut, Entering, SetEnter, Goto
  <1>4. CASE WaitEnter(t)
    <2>1. CountedIn' = CountedIn
      BY <1>4 DEF BarrierInv, TypeOK, WaitEnter, Goto, CountedIn
    <2> QED
      BY <1>4, <2>1 DEF BarrierInv, TypeOK, Opens, RoundsEqual, LetOut, Entering, WaitEnter, Goto
  <1> QED
    BY <1>1, <1>2, <1>3, <1>4

LEMMA StutterBarrier == ASSUME BarrierInv, UNCHANGED vars PROVE BarrierInv'
  BY DEF BarrierInv, TypeOK, CountedIn, Opens, RoundsEqual, LetOut, vars

LEMMA BarrierStep == ASSUME BarrierInv, [Next]_vars PROVE BarrierInv'
  BY EnterKeeps, LeaveKeeps, OtherKeeps, StutterBarrier DEF Next, Sync

\* The invariant that the barrier of common.hpp keeps: the counter counts the
\* threads inside, and whoever finds it full or empty is alone in finding it so.
THEOREM BarrierInvariance == Spec => []BarrierInv
  BY InitBarrier, BarrierStep, PTL DEF Spec

LEMMA InvRounds == BarrierInv => RoundsTogether
  BY BarrierAssumption DEF BarrierInv, TypeOK, Opens, RoundsEqual, LetOut, Entering, Leaving, RoundsTogether

-----------------------------------------------------------------------------
(***************************************************************************)
(* The barrier in the workload.                                            *)
(***************************************************************************)
\* A step of a worker in check that is not one in the barrier leaves it alone.
LEMMA CheckUsesBarrier ==
  ASSUME NEW w \in Threads, Check(w) PROVE Enter(w) \/ Sync(w) \/ UNCHANGED vars
  BY DEF Check, FirstSync, CallSync, InSync, WriteCounter, VerifyCounter, BadSecondSync, SecondSync,
         ReadCounter, DecreaseCounter, ThirdSync, BadThirdSync, ReturnBad, ReturnFinal, CheckThrows,
         barrierVars, vars

\* The other transactions of the workload do not use it.
LEMMA RunUsesNoBarrier ==
  ASSUME NEW w \in Threads, InitWrite(w) \/ InitCheck(w) \/ Run(w) \/ Spin(w) PROVE UNCHANGED vars
  BY DEF InitWrite, InitCheck, Run, LongTx, LastLongTx, AllocTx, AllocThrows, ShortTx, ShortAbort,
         ShortCommit, Spin, bankVars, barrierVars, vars

LEMMA BankBarrierStep == [BankNext]_bankVars => [Next]_vars
  <1>1. ASSUME BankNext PROVE [Next]_vars
    <2>1. CASE StartRound \/ Over
      BY <2>1 DEF StartRound, Over, bankVars, barrierVars, vars
    <2>2. ASSUME NEW w \in Threads, InitWrite(w) \/ InitCheck(w) \/ Run(w) \/ Check(w) \/ Spin(w)
          PROVE [Next]_vars
      BY <2>2, CheckUsesBarrier, RunUsesNoBarrier DEF Next
    <2> QED
      BY <1>1, <2>1, <2>2 DEF BankNext
  <1>2. UNCHANGED bankVars => UNCHANGED vars
    BY DEF bankVars, barrierVars, vars
  <1> QED
    BY <1>1, <1>2

\* The workload (workload.hpp) uses the barrier as its class intends: every
\* behaviour of the workers is one of threads that call sync().
THEOREM BankUsesBarrier == BankSpec => Spec
  <1>1. BankInit => Init
    BY DEF BankInit
  <1> QED
    BY <1>1, BankBarrierStep, PTL DEF BankSpec, Spec

\* The counter of the barrier stays between zero and the number of workers.
THEOREM BarrierTypes == BankSpec => []TypeOK
  <1>1. BarrierInv => TypeOK
    BY DEF BarrierInv
  <1> QED
    BY BankUsesBarrier, BarrierInvariance, <1>1, PTL

\* No worker of the check gets through a barrier.sync() before every worker has
\* made the matching call, for any number of workers.
THEOREM WorkersMeet == BankSpec => []RoundsTogether
  BY BankUsesBarrier, BarrierInvariance, InvRounds, PTL

-----------------------------------------------------------------------------
(***************************************************************************)
(* Sums.  AddUp is a fold over the subsets of the domain, chosen by their  *)
(* largest member.  Such a recursive function exists, so that the sum of a *)
(* sequence is that of all but its last entry, plus this entry.            *)
(***************************************************************************)
\* Every set of natural numbers with a member has a least one.
LEMMA LeastOf ==
  ASSUME NEW T \in SUBSET Nat, T # {} PROVE \E n \in T : \A m \in T : n <= m
  <1>1. PICK n \in T : \A m \in T : ~(<<m, n>> \in OpToRel(<, Nat))
    BY WFMin, NatLessThanWellFounded
  <1>2. \A m \in T : ~(m < n)
    BY <1>1 DEF OpToRel
  <1> QED
    BY <1>2

LEMMA NatSetInduction ==
  ASSUME NEW T \in SUBSET Nat, 0 \in T, \A n \in T : n + 1 \in T PROVE T = Nat
  <1> SUFFICES ASSUME Nat \ T # {} PROVE FALSE
    OBVIOUS
  <1>1. PICK n \in Nat \ T : \A m \in Nat \ T : n <= m
    BY LeastOf
  <1>2. n # 0 /\ n - 1 \in Nat
    BY <1>1
  <1>3. n - 1 \in T
    BY <1>1, <1>2
  <1>4. (n - 1) + 1 \in T
    BY <1>3
  <1> QED
    BY <1>1, <1>4

\* g adds up the entries of s over the subsets of D.
Adds(g, s, D) ==
  g = [T \in SUBSET D |-> IF T = {} THEN 0 ELSE g[T \ {Max(T)}] + s[Max(T)]]

LEMMA AddUpIs == ASSUME NEW s PROVE AddUp(s) = (CHOOSE g : Adds(g, s, DOMAIN s))[DOMAIN s]
  BY DEF AddUp, FoldLeft, MapThenFoldSet, Adds

LEMMA LargestIn ==
  ASSUME NEW n \in Nat, NEW T \in SUBSET (1..(n + 1)), n + 1 \in T PROVE Max(T) = n + 1
  <1>1. \A y \in T : n + 1 >= y
    OBVIOUS
  <1>2. \A x \in T : (\A y \in T : x >= y) => x = n + 1
    OBVIOUS
  <1> QED
    BY <1>1, <1>2 DEF Max

LEMMA AddsExtends ==
  ASSUME NEW n \in Nat, NEW s, NEW g, Adds(g, s, 1..n) PROVE \E h : Adds(h, s, 1..(n + 1))
  <1> DEFINE h == [T \in SUBSET (1..(n + 1)) |->
                     IF n + 1 \in T THEN g[T \ {n + 1}] + s[n + 1] ELSE g[T]]
  <1>1. g = [T \in SUBSET (1..n) |-> IF T = {} THEN 0 ELSE g[T \ {Max(T)}] + s[Max(T)]]
    BY DEF Adds
  <1> SUFFICES Adds(h, s, 1..(n + 1))
    OBVIOUS
  <1>2. ASSUME NEW T \in SUBSET (1..(n + 1))
        PROVE  h[T] = IF T = {} THEN 0 ELSE h[T \ {Max(T)}] + s[Max(T)]
    <2>1. CASE T = {}
      <3>1. h[T] = g[{}]
        BY <2>1
      <3>2. g[{}] = 0
        BY <1>1
      <3> QED
        BY <2>1, <3>1, <3>2
    <2>2. CASE n + 1 \in T
      <3>1. Max(T) = n + 1
        BY <2>2, LargestIn
      <3>2. h[T \ {n + 1}] = g[T \ {n + 1}]
        OBVIOUS
      <3> QED
        BY <2>2, <3>1, <3>2
    <2>3. CASE T # {} /\ n + 1 \notin T
      <3>1. T \in SUBSET (1..n)
        BY <2>3
      <3>2. g[T] = g[T \ {Max(T)}] + s[Max(T)]
        BY <1>1, <2>3, <3>1
      <3>3. h[T \ {Max(T)}] = g[T \ {Max(T)}]
        BY <2>3
      <3> QED
        BY <2>3, <3>2, <3>3
    <2> QED
      BY <2>1, <2>2, <2>3
  <1> HIDE DEF h
  <1>3. h = [T \in SUBSET (1..(n + 1)) |-> h[T]]
    BY DEF h
  <1> QED
    BY <1>2, <1>3 DEF Adds

LEMMA AddsExists == \A n \in Nat : \A s : \E g : Adds(g, s, 1..n)
  <1> SUFFICES ASSUME NEW s PROVE \A n \in Nat : \E g : Adds(g, s, 1..n)
    OBVIOUS
  <1> DEFINE T == {n \in Nat : \E g : Adds(g, s, 1..n)}
  <1>1. 0 \in T
    <2>1. Adds([X \in SUBSET (1..0) |-> 0], s, 1..0)
      <3>1. \A X \in SUBSET (1..0) : X = {}
        OBVIOUS
      <3> QED
        BY <3>1 DEF Adds
    <2> QED
      BY <2>1
  <1>2. \A n \in T : n + 1 \in T
    BY AddsExtends
  <1> HIDE DEF T
  <1>3. T \in SUBSET Nat
    BY DEF T
  <1>4. T = Nat
    BY <1>1, <1>2, <1>3, NatSetInduction
  <1> QED
    BY <1>4 DEF T

\* What AddUp evaluates over the prefixes of a sequence.
LEMMA AddsPrefix ==
  ASSUME NEW n \in Nat, NEW s, NEW g, Adds(g, s, 1..n)
  PROVE  g[{}] = 0 /\ \A k \in Nat : k < n => g[1..(k + 1)] = g[1..k] + s[k + 1]
  <1>1. g = [T \in SUBSET (1..n) |-> IF T = {} THEN 0 ELSE g[T \ {Max(T)}] + s[Max(T)]]
    BY DEF Adds
  <1>2. g[{}] = 0
    BY <1>1
  <1>3. ASSUME NEW k \in Nat, k < n PROVE g[1..(k + 1)] = g[1..k] + s[k + 1]
    <2>1. 1..(k + 1) \in SUBSET (1..n) /\ 1..(k + 1) # {} /\ (1..(k + 1)) \ {k + 1} = 1..k
      BY <1>3
    <2>2. Max(1..(k + 1)) = k + 1
      BY LargestIn
    <2> QED
      BY <1>1, <2>1, <2>2
  <1> QED
    BY <1>2, <1>3

\* The sum depends on the entries only, not on the function that adds them up.
LEMMA AddsUnique ==
  ASSUME NEW m \in Nat, NEW n \in Nat, NEW s, NEW t, NEW g, NEW h, Adds(g, s, 1..m), Adds(h, t, 1..n),
         NEW k \in Nat, k <= m, k <= n, \A i \in 1..k : s[i] = t[i]
  PROVE  g[1..k] = h[1..k]
  <1> DEFINE T == {j \in Nat : j <= k => g[1..j] = h[1..j]}
  <1>1. 0 \in T
    <2>1. 1..0 = {}
      OBVIOUS
    <2> QED
      BY <2>1, AddsPrefix
  <1>2. ASSUME NEW j \in T PROVE j + 1 \in T
    <2> SUFFICES ASSUME j + 1 <= k PROVE g[1..(j + 1)] = h[1..(j + 1)]
      OBVIOUS
    <2>1. g[1..(j + 1)] = g[1..j] + s[j + 1] /\ h[1..(j + 1)] = h[1..j] + t[j + 1]
      BY AddsPrefix
    <2> QED
      BY <2>1
  <1> HIDE DEF T
  <1>3. T \in SUBSET Nat
    BY DEF T
  <1>4. T = Nat
    BY <1>1, <1>2, <1>3, NatSetInduction
  <1> QED
    BY <1>4 DEF T

LEMMA AddUpEmpty == \A s : DOMAIN s = {} => AddUp(s) = 0
  <1> SUFFICES ASSUME NEW s, DOMAIN s = {} PROVE AddUp(s) = 0
    OBVIOUS
  <1>1. DOMAIN s = 1..0
    OBVIOUS
  <1>2. PICK g : Adds(g, s, 1..0)
    BY AddsExists
  <1> DEFINE c == CHOOSE f : Adds(f, s, DOMAIN s)
  <1>3. Adds(c, s, 1..0)
    BY <1>1, <1>2
  <1>4. AddUp(s) = c[DOMAIN s]
    BY AddUpIs
  <1> HIDE DEF c
  <1> QED
    BY <1>1, <1>3, <1>4, AddsPrefix

\* The sum of a sequence is that of a prefix one shorter, plus the last entry.
LEMMA AddUpLast ==
  ASSUME NEW n \in Nat, NEW s, NEW p, DOMAIN s = 1..(n + 1), DOMAIN p = 1..n,
         \A i \in 1..n : p[i] = s[i]
  PROVE  AddUp(s) = AddUp(p) + s[n + 1]
  <1>1. (\E g : Adds(g, s, DOMAIN s)) /\ (\E g : Adds(g, p, DOMAIN p))
    <2>1. n + 1 \in Nat
      OBVIOUS
    <2> QED
      BY <2>1, AddsExists
  <1> DEFINE c == CHOOSE f : Adds(f, s, DOMAIN s)
             d == CHOOSE f : Adds(f, p, DOMAIN p)
  <1>2. Adds(c, s, 1..(n + 1)) /\ Adds(d, p, 1..n)
    BY <1>1
  <1>3. AddUp(s) = c[1..(n + 1)] /\ AddUp(p) = d[1..n]
    BY AddUpIs
  <1> HIDE DEF c, d
  <1>4. c[1..(n + 1)] = c[1..n] + s[n + 1]
    BY <1>2, AddsPrefix
  <1>5. c[1..n] = d[1..n]
    BY <1>2, AddsUnique
  <1> QED
    BY <1>3, <1>4, <1>5

LEMMA AddUpType == \A n \in Nat : \A s \in [1..n -> Int] : AddUp(s) \in Int
  <1> DEFINE T == {n \in Nat : \A s \in [1..n -> Int] : AddUp(s) \in Int}
  <1>1. 0 \in T
    <2>1. \A s \in [1..0 -> Int] : DOMAIN s = {}
      OBVIOUS
    <2> QED
      BY <2>1, AddUpEmpty
  <1>2. ASSUME NEW n \in T PROVE n + 1 \in T
    <2> SUFFICES ASSUME NEW s \in [1..(n + 1) -> Int] PROVE AddUp(s) \in Int
      OBVIOUS
    <2> DEFINE p == [i \in 1..n |-> s[i]]
    <2>1. p \in [1..n -> Int] /\ s[n + 1] \in Int
      OBVIOUS
    <2>2. AddUp(s) = AddUp(p) + s[n + 1]
      BY AddUpLast
    <2>3. AddUp(p) \in Int
      BY <2>1
    <2> HIDE DEF p
    <2> QED
      BY <2>1, <2>2, <2>3
  <1> HIDE DEF T
  <1>3. T \in SUBSET Nat
    BY DEF T
  <1>4. T = Nat
    BY <1>1, <1>2, <1>3, NatSetInduction
  <1> QED
    BY <1>4 DEF T

\* One entry that changes by d changes the sum by d.
LEMMA AddUpChange ==
  \A n \in Nat : \A s, t \in [1..n -> Int] : \A k \in 1..n :
    (\A i \in 1..n : i # k => t[i] = s[i]) => AddUp(t) = AddUp(s) + (t[k] - s[k])
  <1> DEFINE Changed(n) ==
        \A s, t \in [1..n -> Int] : \A k \in 1..n :
          (\A i \in 1..n : i # k => t[i] = s[i]) => AddUp(t) = AddUp(s) + (t[k] - s[k])
      T == {n \in Nat : Changed(n)}
  <1>1. 0 \in T
    OBVIOUS
  <1>2. ASSUME NEW n \in T PROVE n + 1 \in T
    <2>0. n \in Nat /\ n + 1 \in Nat
      OBVIOUS
    <2>a. SUFFICES Changed(n + 1)
      BY <2>0 DEF T
    <2> SUFFICES ASSUME NEW s \in [1..(n + 1) -> Int], NEW t \in [1..(n + 1) -> Int],
                        NEW k \in 1..(n + 1), \A i \in 1..(n + 1) : i # k => t[i] = s[i]
                 PROVE  AddUp(t) = AddUp(s) + (t[k] - s[k])
      BY Zenon DEF Changed
    <2> DEFINE p == [i \in 1..n |-> s[i]]
               q == [i \in 1..n |-> t[i]]
    <2>1. p \in [1..n -> Int] /\ q \in [1..n -> Int] /\ n + 1 \in 1..(n + 1)
      OBVIOUS
    <2>2. AddUp(s) = AddUp(p) + s[n + 1]
      BY AddUpLast
    <2>3. AddUp(t) = AddUp(q) + t[n + 1]
      BY AddUpLast
    <2>4. AddUp(p) \in Int /\ AddUp(q) \in Int
      BY <2>1, AddUpType
    <2>5. CASE k = n + 1
      <3>1. p = q
        BY <2>5
      <3> HIDE DEF p, q
      <3> QED
        BY <3>1, <2>1, <2>2, <2>3, <2>4, <2>5
    <2>6. CASE k # n + 1
      <3>1. k \in 1..n
        BY <2>6
      <3>2. t[n + 1] = s[n + 1] /\ p[k] = s[k] /\ q[k] = t[k]
        BY <2>6, <3>1
      <3>3. AddUp(q) = AddUp(p) + (q[k] - p[k])
        <4>1. \A i \in 1..n : i # k => q[i] = p[i]
          OBVIOUS
        <4>2. Changed(n)
          OBVIOUS
        <4> HIDE DEF p, q
        <4> QED
          BY <4>1, <4>2, <2>1, <3>1
      <3> HIDE DEF p, q
      <3> QED
        BY <3>2, <3>3, <2>1, <2>2, <2>3, <2>4
    <2> QED
      BY <2>5, <2>6
  <1> HIDE DEF T
  <1>3. T \in SUBSET Nat
    BY DEF T
  <1>4. T = Nat
    BY <1>1, <1>2, <1>3, NatSetInduction
  <1> QED
    BY <1>4 DEF T

\* Equal entries.
LEMMA AddUpConstant ==
  \A c \in Int : \A n \in Nat : AddUp([i \in 1..n |-> c]) = c * n
  <1> SUFFICES ASSUME NEW c \in Int PROVE \A n \in Nat : AddUp([i \in 1..n |-> c]) = c * n
    OBVIOUS
  <1> DEFINE T == {n \in Nat : AddUp([i \in 1..n |-> c]) = c * n}
  <1>1. 0 \in T
    <2>1. DOMAIN [i \in 1..0 |-> c] = {} /\ c * 0 = 0
      OBVIOUS
    <2> QED
      BY <2>1, AddUpEmpty
  <1>2. ASSUME NEW n \in T PROVE n + 1 \in T
    <2> DEFINE s == [i \in 1..(n + 1) |-> c]
               p == [i \in 1..n |-> c]
    <2>1. AddUp(s) = AddUp(p) + s[n + 1]
      BY AddUpLast
    <2>2. AddUp(p) = c * n /\ s[n + 1] = c /\ c * n + c = c * (n + 1)
      OBVIOUS
    <2> QED
      BY <2>1, <2>2
  <1> HIDE DEF T
  <1>3. T \in SUBSET Nat
    BY DEF T
  <1>4. T = Nat
    BY <1>1, <1>2, <1>3, NatSetInduction
  <1> QED
    BY <1>4 DEF T

-----------------------------------------------------------------------------
(***************************************************************************)
(* The segments of the bank, and what replacing, adding or removing one    *)
(* does to the sums that long_tx computes.                                 *)
(***************************************************************************)
SegType == [count : 0..nbaccounts, parity : Int, accounts : [Account -> Int]]

SumOf(ss) == AddUp([j \in DOMAIN ss |-> Held(ss[j])])
CountOf(ss, j) == AddUp([i \in 1..j |-> ss[i].count])

LEMMA SumsAre ==
  /\ Sum = SumOf(segs)
  /\ Total = CountOf(segs, Len(segs))
  /\ \A j : Before(j) = CountOf(segs, j)
  BY DEF Sum, SumOf, Total, Before, CountOf

LEMMA BankConstants ==
  /\ nbaccounts \in Nat \ {0}
  /\ init_balance \in Nat
  /\ Account = 0..(nbaccounts - 1)
  /\ nbchecks \in Nat \ {0}
  /\ nbtxperwrk \in Nat \ {0}
  BY BankAssumption DEF Account

\* The balances that Held adds up.
Balances(s) == [i \in 1..s.count |-> s.accounts[i - 1]]

LEMMA BalancesType ==
  ASSUME NEW s \in SegType
  PROVE  /\ s.count \in Nat
         /\ s.parity \in Int
         /\ Balances(s) \in [1..s.count -> Int]
         /\ Held(s) = s.parity + AddUp(Balances(s))
         /\ AddUp(Balances(s)) \in Int
         /\ Held(s) \in Int
  <1>1. s.count \in Nat /\ s.parity \in Int
    BY BankConstants DEF SegType
  <1>2. Balances(s) \in [1..s.count -> Int]
    BY BankConstants DEF SegType, Balances
  <1>3. Held(s) = s.parity + AddUp(Balances(s))
    BY DEF Held, Balances
  <1>4. AddUp(Balances(s)) \in Int
    BY <1>1, <1>2, AddUpType
  <1> QED
    BY <1>1, <1>2, <1>3, <1>4

LEMMA AllocatedIn == ASSUME NEW s \in SegType PROVE Allocated(s) \in SUBSET Account
  <1>1. s.count \in 0..nbaccounts
    BY DEF SegType
  <1> QED
    BY <1>1, BankConstants DEF Allocated

\* An account in use whose balance changes.
LEMMA HeldChange ==
  ASSUME NEW s \in SegType, NEW a \in Allocated(s), NEW d \in Int
  PROVE  LET t == [s EXCEPT !.accounts[a] = @ + d]
         IN  t \in SegType /\ t.count = s.count /\ Held(t) = Held(s) + d
  <1> DEFINE t == [s EXCEPT !.accounts[a] = @ + d]
  <1>1. a \in Account /\ a + 1 \in 1..s.count /\ a \in Int
    BY BankConstants DEF SegType, Allocated
  <1>2. t \in SegType /\ t.count = s.count /\ t.parity = s.parity
    BY <1>1 DEF SegType
  <1>3. /\ t.accounts[a] = s.accounts[a] + d /\ s.accounts[a] \in Int
        /\ \A b \in Account : b # a => t.accounts[b] = s.accounts[b]
    BY <1>1 DEF SegType
  <1> HIDE DEF t
  <1>4. \A i \in 1..s.count : i # a + 1 => Balances(t)[i] = Balances(s)[i]
    BY <1>1, <1>2, <1>3, BankConstants DEF Balances, SegType
  <1>5. Balances(t)[a + 1] = s.accounts[a] + d /\ Balances(s)[a + 1] = s.accounts[a]
    BY <1>1, <1>2, <1>3 DEF Balances
  <1>6. AddUp(Balances(t)) = AddUp(Balances(s)) + (Balances(t)[a + 1] - Balances(s)[a + 1])
    BY <1>1, <1>2, <1>4, BalancesType, AddUpChange
  <1>7. AddUp(Balances(t)) = AddUp(Balances(s)) + d
    BY <1>3, <1>5, <1>6, <1>2, BalancesType
  <1>8. Held(t) = Held(s) + d
    BY <1>7, <1>2, BalancesType
  <1> QED
    BY <1>2, <1>8 DEF t

\* The last account of a segment.
LEMMA HeldLast ==
  ASSUME NEW s \in SegType, NEW t \in SegType, s.count = t.count + 1,
         \A i \in Allocated(t) : t.accounts[i] = s.accounts[i]
  PROVE  /\ s.accounts[t.count] \in Int
         /\ Held(s) = ((Held(t) - t.parity) + s.parity) + s.accounts[t.count]
         /\ Held(t) = ((Held(s) - s.parity) - s.accounts[t.count]) + t.parity
  <1> DEFINE c == t.count
  <1>1. c \in Account /\ c \in Nat /\ s.count = c + 1
    BY BankConstants DEF SegType
  <1>2. s.accounts[c] \in Int
    BY <1>1 DEF SegType
  <1> HIDE DEF c
  <1>3. Balances(t) = [i \in 1..c |-> t.accounts[i - 1]] /\ Balances(s) = [i \in 1..(c + 1) |-> s.accounts[i - 1]]
    BY <1>1 DEF Balances, c
  <1>4. \A i \in 1..c : t.accounts[i - 1] = s.accounts[i - 1]
    BY <1>1 DEF Allocated, c
  <1>5. Balances(s)[c + 1] = s.accounts[c]
    BY <1>1, <1>3
  <1>6. AddUp(Balances(s)) = AddUp(Balances(t)) + Balances(s)[c + 1]
    <2>1. DOMAIN Balances(s) = 1..(c + 1) /\ DOMAIN Balances(t) = 1..c
      BY <1>3
    <2>2. \A i \in 1..c : Balances(t)[i] = Balances(s)[i]
      BY <1>1, <1>3, <1>4
    <2> QED
      BY <1>1, <2>1, <2>2, AddUpLast
  <1>7. /\ Held(s) = ((Held(t) - t.parity) + s.parity) + s.accounts[c]
        /\ Held(t) = ((Held(s) - s.parity) - s.accounts[c]) + t.parity
    <2>1. PICK u \in Int : u = AddUp(Balances(t))
      BY BalancesType
    <2>2. PICK a \in Int : a = s.accounts[c]
      BY <1>2
    <2>3. s.parity \in Int /\ t.parity \in Int
      BY BalancesType
    <2>4. Held(t) = t.parity + u /\ Held(s) = s.parity + (u + a)
      BY <1>5, <1>6, <2>1, <2>2, BalancesType
    <2> QED
      BY <2>2, <2>3, <2>4
  <1> QED
    BY <1>2, <1>7 DEF c

\* The sums over a sequence of segments.
LEMMA SumTypes ==
  ASSUME NEW ss \in Seq(SegType)
  PROVE  /\ Len(ss) \in Nat /\ DOMAIN ss = 1..Len(ss)
         /\ [j \in DOMAIN ss |-> Held(ss[j])] \in [1..Len(ss) -> Int]
         /\ SumOf(ss) \in Int
         /\ \A j \in 0..Len(ss) : [i \in 1..j |-> ss[i].count] \in [1..j -> Int] /\ CountOf(ss, j) \in Int
  <1>1. Len(ss) \in Nat /\ DOMAIN ss = 1..Len(ss) /\ \A j \in 1..Len(ss) : ss[j] \in SegType
    OBVIOUS
  <1>2. [j \in DOMAIN ss |-> Held(ss[j])] \in [1..Len(ss) -> Int]
    BY <1>1, BalancesType
  <1>3. SumOf(ss) \in Int
    BY <1>1, <1>2, AddUpType DEF SumOf
  <1>4. ASSUME NEW j \in 0..Len(ss)
        PROVE  [i \in 1..j |-> ss[i].count] \in [1..j -> Int] /\ CountOf(ss, j) \in Int
    <2>1. j \in Nat /\ \A i \in 1..j : ss[i].count \in Int
      BY <1>1, BalancesType
    <2>2. [i \in 1..j |-> ss[i].count] \in [1..j -> Int]
      BY <2>1
    <2> QED
      BY <2>1, <2>2, AddUpType DEF CountOf
  <1> QED
    BY <1>1, <1>2, <1>3, <1>4

LEMMA CountStep ==
  ASSUME NEW ss \in Seq(SegType)
  PROVE  /\ CountOf(ss, 0) = 0
         /\ \A j \in 1..Len(ss) : CountOf(ss, j) = CountOf(ss, j - 1) + ss[j].count
  <1>1. CountOf(ss, 0) = 0
    BY AddUpEmpty DEF CountOf
  <1>2. ASSUME NEW j \in 1..Len(ss) PROVE CountOf(ss, j) = CountOf(ss, j - 1) + ss[j].count
    <2> DEFINE s == [i \in 1..j |-> ss[i].count]
               p == [i \in 1..(j - 1) |-> ss[i].count]
    <2>1. j - 1 \in Nat /\ (j - 1) + 1 = j
      BY SumTypes
    <2>2. AddUp(s) = AddUp(p) + s[j]
      BY <2>1, AddUpLast
    <2> QED
      BY <2>1, <2>2 DEF CountOf
  <1> QED
    BY <1>1, <1>2

LEMMA CountPrefix ==
  ASSUME NEW ss, NEW tt, NEW j, \A i \in 1..j : tt[i] = ss[i]
  PROVE  CountOf(tt, j) = CountOf(ss, j)
  <1>1. [i \in 1..j |-> tt[i].count] = [i \in 1..j |-> ss[i].count]
    OBVIOUS
  <1> QED
    BY <1>1 DEF CountOf

\* One segment is replaced.
LEMMA SumReplace ==
  ASSUME NEW ss \in Seq(SegType), NEW k \in 1..Len(ss), NEW x \in SegType
  PROVE  LET tt == [ss EXCEPT ![k] = x]
         IN  /\ tt \in Seq(SegType) /\ Len(tt) = Len(ss)
             /\ SumOf(tt) = SumOf(ss) + (Held(x) - Held(ss[k]))
             /\ CountOf(tt, Len(tt)) = CountOf(ss, Len(ss)) + (x.count - ss[k].count)
  <1> DEFINE tt == [ss EXCEPT ![k] = x]
  <1>1. tt \in Seq(SegType) /\ Len(tt) = Len(ss) /\ tt[k] = x
    OBVIOUS
  <1>2. \A j \in 1..Len(ss) : j # k => tt[j] = ss[j]
    OBVIOUS
  <1> HIDE DEF tt
  <1>3. SumOf(tt) = SumOf(ss) + (Held(tt[k]) - Held(ss[k]))
    <2> DEFINE s == [j \in DOMAIN ss |-> Held(ss[j])]
               t == [j \in DOMAIN tt |-> Held(tt[j])]
    <2>1. s \in [1..Len(ss) -> Int] /\ t \in [1..Len(ss) -> Int]
      BY <1>1, SumTypes
    <2>2. \A j \in 1..Len(ss) : j # k => t[j] = s[j]
      BY <1>1, <1>2, SumTypes
    <2>3. t[k] = Held(tt[k]) /\ s[k] = Held(ss[k])
      BY <1>1, SumTypes
    <2>4. SumOf(ss) = AddUp(s) /\ SumOf(tt) = AddUp(t)
      BY DEF SumOf
    <2> HIDE DEF s, t
    <2>5. AddUp(t) = AddUp(s) + (t[k] - s[k])
      BY <2>1, <2>2, SumTypes, AddUpChange
    <2> QED
      BY <2>3, <2>4, <2>5
  <1>4. CountOf(tt, Len(tt)) = CountOf(ss, Len(ss)) + (tt[k].count - ss[k].count)
    <2> DEFINE s == [j \in 1..Len(ss) |-> ss[j].count]
               t == [j \in 1..Len(ss) |-> tt[j].count]
    <2>1. s \in [1..Len(ss) -> Int] /\ t \in [1..Len(ss) -> Int]
      <3>1. Len(ss) \in 0..Len(ss)
        BY SumTypes
      <3> QED
        BY <1>1, <3>1, SumTypes
    <2>2. \A j \in 1..Len(ss) : j # k => t[j] = s[j]
      BY <1>2
    <2>3. t[k] = tt[k].count /\ s[k] = ss[k].count
      OBVIOUS
    <2>4. CountOf(ss, Len(ss)) = AddUp(s) /\ CountOf(tt, Len(tt)) = AddUp(t)
      BY <1>1 DEF CountOf
    <2> HIDE DEF s, t
    <2>5. AddUp(t) = AddUp(s) + (t[k] - s[k])
      BY <2>1, <2>2, SumTypes, AddUpChange
    <2> QED
      BY <2>3, <2>4, <2>5
  <1> QED
    BY <1>1, <1>3, <1>4 DEF tt

\* A segment at the end.
LEMMA SumLast ==
  ASSUME NEW ss \in Seq(SegType), NEW tt \in Seq(SegType), Len(tt) = Len(ss) + 1,
         \A j \in 1..Len(ss) : tt[j] = ss[j]
  PROVE  /\ SumOf(tt) = SumOf(ss) + Held(tt[Len(tt)])
         /\ CountOf(tt, Len(tt)) = CountOf(ss, Len(ss)) + tt[Len(tt)].count
  <1>1. SumOf(tt) = SumOf(ss) + Held(tt[Len(tt)])
    <2> DEFINE s == [j \in DOMAIN ss |-> Held(ss[j])]
               t == [j \in DOMAIN tt |-> Held(tt[j])]
    <2>1. DOMAIN s = 1..Len(ss) /\ DOMAIN t = 1..(Len(ss) + 1) /\ \A j \in 1..Len(ss) : s[j] = t[j]
      BY SumTypes
    <2>2. t[Len(ss) + 1] = Held(tt[Len(tt)])
      BY SumTypes
    <2>3. SumOf(ss) = AddUp(s) /\ SumOf(tt) = AddUp(t)
      BY DEF SumOf
    <2>4. Len(ss) \in Nat
      OBVIOUS
    <2> HIDE DEF s, t
    <2>5. AddUp(t) = AddUp(s) + t[Len(ss) + 1]
      BY <2>1, <2>4, AddUpLast
    <2> QED
      BY <2>2, <2>3, <2>5
  <1>2. CountOf(tt, Len(ss)) = CountOf(ss, Len(ss))
    BY CountPrefix
  <1>3. Len(tt) \in 1..Len(tt) /\ Len(tt) - 1 = Len(ss)
    BY SumTypes
  <1> QED
    BY <1>1, <1>2, <1>3, CountStep

-----------------------------------------------------------------------------
(***************************************************************************)
(* The segments that transactions of run leave.                            *)
(***************************************************************************)
GoodSegment(s) == s.count >= 1 /\ \A i \in Allocated(s) : s.accounts[i] >= 0

Good(ss) ==
  /\ ss \in Seq(SegType)
  /\ ss # <<>>
  /\ \A j \in 1..Len(ss) : GoodSegment(ss[j])
  /\ SumOf(ss) = init_balance * CountOf(ss, Len(ss))

LEMMA GoodReplace ==
  ASSUME NEW ss, Good(ss), NEW k \in 1..Len(ss), NEW x \in SegType, GoodSegment(x),
         Held(x) - Held(ss[k]) = init_balance * (x.count - ss[k].count)
  PROVE  Good([ss EXCEPT ![k] = x])
  <1> DEFINE tt == [ss EXCEPT ![k] = x]
             d == x.count - ss[k].count
             c == CountOf(ss, Len(ss))
  <1>1. ss \in Seq(SegType) /\ ss[k] \in SegType /\ Len(ss) \in 0..Len(ss)
    BY DEF Good
  <1>2. d \in Int /\ c \in Int /\ init_balance \in Int
    <2>1. x.count \in Nat /\ ss[k].count \in Nat
      BY <1>1, BalancesType
    <2>2. c \in Int /\ init_balance \in Int
      BY <1>1, SumTypes, BankConstants
    <2> QED
      BY <2>1, <2>2
  <1>3. \A j \in 1..Len(tt) : GoodSegment(tt[j])
    BY <1>1 DEF Good
  <1>4. tt \in Seq(SegType) /\ tt # <<>>
    BY <1>1
  <1>5. SumOf(tt) = SumOf(ss) + (Held(x) - Held(ss[k])) /\ CountOf(tt, Len(tt)) = c + d
    BY <1>1, SumReplace
  <1> HIDE DEF tt
  <1>6. SumOf(tt) = init_balance * c + init_balance * d
    BY <1>5 DEF Good
  <1> HIDE DEF d, c
  <1>7. SumOf(tt) = init_balance * (c + d)
    BY <1>2, <1>6
  <1>8. Good(tt)
    BY <1>3, <1>4, <1>5, <1>7 DEF Good
  <1> QED
    BY <1>8 DEF tt

\* The segment that init leaves: every account in use, with the initial balance.
FullSegment == [EmptySegment EXCEPT !.count = nbaccounts, !.accounts = [i \in Account |-> init_balance]]

LEMMA SingleSum ==
  ASSUME NEW x \in SegType PROVE SumOf(<<x>>) = Held(x) /\ CountOf(<<x>>, 1) = x.count
  <1>1. <<>> \in Seq(SegType) /\ <<x>> \in Seq(SegType) /\ Len(<<x>>) = Len(<<>>) + 1 /\ Len(<<>>) = 0
    OBVIOUS
  <1>2. \A j \in 1..Len(<<>>) : <<x>>[j] = <<>>[j]
    OBVIOUS
  <1>3. SumOf(<<>>) = 0 /\ CountOf(<<>>, 0) = 0
    BY AddUpEmpty DEF SumOf, CountOf
  <1>4. /\ SumOf(<<x>>) = SumOf(<<>>) + Held(<<x>>[Len(<<x>>)])
        /\ CountOf(<<x>>, Len(<<x>>)) = CountOf(<<>>, Len(<<>>)) + <<x>>[Len(<<x>>)].count
    BY <1>1, <1>2, SumLast
  <1>5. <<x>>[Len(<<x>>)] = x
    OBVIOUS
  <1> QED
    BY <1>1, <1>3, <1>4, <1>5, BalancesType

LEMMA FullGood == Good(<<FullSegment>>)
  <1> DEFINE x == FullSegment
  <1>1. x \in SegType /\ x.count = nbaccounts /\ x.parity = 0 /\ x.accounts = [i \in Account |-> init_balance]
    <2>1. FullSegment = [count |-> nbaccounts, parity |-> 0, accounts |-> [i \in Account |-> init_balance]]
      <3>1. FullSegment = [[EmptySegment EXCEPT !.count = nbaccounts]
                             EXCEPT !.accounts = [i \in Account |-> init_balance]]
        BY DEF FullSegment
      <3> QED
        BY <3>1 DEF EmptySegment
    <2> QED
      BY <2>1, BankConstants DEF SegType
  <1> HIDE DEF x
  <1>2. Balances(x) = [i \in 1..nbaccounts |-> init_balance]
    BY <1>1, BankConstants DEF Balances
  <1>3. AddUp(Balances(x)) = init_balance * nbaccounts
    BY <1>2, AddUpConstant, BankConstants
  <1>4. Held(x) = init_balance * nbaccounts
    BY <1>1, <1>3, BalancesType
  <1>5. GoodSegment(x)
    BY <1>1, BankConstants DEF GoodSegment, Allocated
  <1>6. <<x>> \in Seq(SegType) /\ <<x>> # <<>> /\ Len(<<x>>) = 1 /\ <<x>>[1] = x
    BY <1>1
  <1>7. Good(<<x>>)
    BY <1>1, <1>4, <1>5, <1>6, SingleSum DEF Good
  <1> QED
    BY <1>7 DEF x

LEMMA GoodFacts ==
  ASSUME NEW ss, Good(ss)
  PROVE  /\ ss \in Seq(SegType)
         /\ Len(ss) \in Nat \ {0} /\ Len(ss) \in 1..Len(ss)
         /\ ss[Len(ss)] \in SegType /\ GoodSegment(ss[Len(ss)])
         /\ CountOf(ss, Len(ss)) \in Int /\ SumOf(ss) \in Int
         /\ CountOf(ss, Len(ss)) = CountOf(ss, Len(ss) - 1) + ss[Len(ss)].count
  <1>1. ss \in Seq(SegType) /\ Len(ss) \in Nat \ {0}
    BY DEF Good
  <1>2. Len(ss) \in 1..Len(ss) /\ Len(ss) \in 0..Len(ss)
    BY <1>1
  <1> QED
    BY <1>1, <1>2, SumTypes, CountStep DEF Good

\* A segment gets one more account.
LEMMA SegmentMore ==
  ASSUME NEW s \in SegType, NEW c, c = s.count, c < nbaccounts
  PROVE  LET x == [s EXCEPT !.accounts[c] = init_balance, !.count = c + 1]
         IN  /\ x \in SegType /\ x.count = c + 1
             /\ Held(x) = Held(s) + init_balance
             /\ (\A i \in Allocated(s) : s.accounts[i] >= 0) => GoodSegment(x)
  <1> DEFINE y == [s EXCEPT !.accounts[c] = init_balance]
             x == [y EXCEPT !.count = c + 1]
  <1>1. c \in Nat /\ c \in Account /\ c + 1 \in 0..nbaccounts
    BY BankConstants DEF SegType
  <1>2. /\ y \in SegType /\ y.count = c /\ y.parity = s.parity
        /\ y.accounts = [s.accounts EXCEPT ![c] = init_balance]
    <2>1. y \in SegType
      <3>1. init_balance \in Int
        BY BankConstants
      <3> QED
        BY <1>1, <3>1 DEF SegType
    <2>2. y.count = c /\ y.parity = s.parity
      BY DEF SegType
    <2>3. y.accounts = [s.accounts EXCEPT ![c] = init_balance]
      BY DEF SegType
    <2> QED
      BY <2>1, <2>2, <2>3
  <1> HIDE DEF y
  <1>3. x \in SegType /\ x.count = c + 1 /\ x.parity = s.parity /\ x.accounts = y.accounts
    BY <1>1, <1>2 DEF SegType
  <1> HIDE DEF x
  <1>4. x.accounts[c] = init_balance /\ \A i \in Account : i # c => x.accounts[i] = s.accounts[i]
    BY <1>1, <1>2, <1>3 DEF SegType
  <1>5. Allocated(s) \in SUBSET Account /\ c \notin Allocated(s) /\ Allocated(x) = Allocated(s) \cup {c}
    BY <1>1, <1>3, BankConstants DEF Allocated
  <1>6. Held(x) = ((Held(s) - s.parity) + x.parity) + x.accounts[s.count]
    BY <1>3, <1>4, <1>5, HeldLast
  <1>7. Held(x) = Held(s) + init_balance
    <2>1. Held(x) \in Int /\ Held(s) \in Int /\ s.parity \in Int /\ init_balance \in Int
      BY <1>3, BalancesType, BankConstants
    <2>2. Held(x) = ((Held(s) - s.parity) + s.parity) + init_balance
      BY <1>3, <1>4, <1>6
    <2> QED
      BY <2>1, <2>2
  <1>8. (\A i \in Allocated(s) : s.accounts[i] >= 0) => GoodSegment(x)
    <2>1. x.count >= 1 /\ init_balance >= 0
      BY <1>1, <1>3, BankConstants
    <2> QED
      BY <2>1, <1>4, <1>5 DEF GoodSegment
  <1>9. x = [s EXCEPT !.accounts[c] = init_balance, !.count = c + 1]
    BY DEF x, y
  <1> QED
    BY <1>3, <1>7, <1>8, <1>9

LEMMA EmptyHolds == EmptySegment \in SegType /\ EmptySegment.count = 0 /\ Held(EmptySegment) = 0
  <1>1. EmptySegment \in SegType /\ EmptySegment.count = 0 /\ EmptySegment.parity = 0
    BY BankConstants DEF EmptySegment, SegType
  <1>2. DOMAIN Balances(EmptySegment) = {}
    BY <1>1 DEF Balances
  <1> QED
    BY <1>1, <1>2, AddUpEmpty, BalancesType

\* A segment loses its last account.
LEMMA SegmentFewer ==
  ASSUME NEW s \in SegType, s.count >= 1, NEW p, p = s.parity + s.accounts[s.count - 1] - init_balance
  PROVE  LET x == [s EXCEPT !.count = @ - 1, !.parity = p]
         IN  /\ p \in Int
             /\ x \in SegType /\ x.count = s.count - 1 /\ x.parity = p
             /\ Held(x) = Held(s) - init_balance
             /\ GoodSegment(s) /\ s.count > 1 => GoodSegment(x)
             /\ s.count = 1 => Held(x) = p
  <1> DEFINE c == s.count - 1
             y == [s EXCEPT !.count = c]
             x == [y EXCEPT !.parity = p]
  <1>1. c \in Nat /\ c \in Account /\ c \in 0..nbaccounts /\ s.count = c + 1 /\ s.count \in Int
    BY BankConstants DEF SegType
  <1>2. s.accounts[c] \in Int /\ s.parity \in Int /\ init_balance \in Int
    BY <1>1, BankConstants DEF SegType
  <1>3. p = s.parity + s.accounts[c] - init_balance
    OBVIOUS
  <1> HIDE DEF c
  <1>4. p \in Int
    BY <1>2, <1>3
  <1>5. y \in SegType /\ y.count = c /\ y.accounts = s.accounts
    BY <1>1 DEF SegType
  <1> HIDE DEF y
  <1>6. x \in SegType /\ x.count = c /\ x.accounts = s.accounts /\ x.parity = p
    BY <1>4, <1>5 DEF SegType
  <1> HIDE DEF x
  <1>7. Held(x) = ((Held(s) - s.parity) - s.accounts[x.count]) + x.parity
    BY <1>1, <1>6, HeldLast
  <1>8. Held(x) \in Int /\ Held(s) \in Int
    BY <1>6, BalancesType
  <1>9. Held(x) = Held(s) - init_balance
    <2>1. Held(x) = ((Held(s) - s.parity) - s.accounts[c]) + p
      BY <1>6, <1>7
    <2> QED
      BY <2>1, <1>2, <1>3, <1>8
  <1>10. GoodSegment(s) /\ s.count > 1 => GoodSegment(x)
    BY <1>1, <1>6 DEF GoodSegment, Allocated
  <1>11. s.count = 1 => Held(x) = p
    <2>1. s.count = 1 => DOMAIN Balances(x) = {}
      BY <1>1, <1>6 DEF Balances
    <2> QED
      BY <2>1, <1>4, <1>6, AddUpEmpty, BalancesType
  <1>12. x = [s EXCEPT !.count = @ - 1, !.parity = p]
    BY DEF x, y, c
  <1>13. x.count = s.count - 1
    BY <1>6 DEF c
  <1> QED
    BY <1>4, <1>6, <1>9, <1>10, <1>11, <1>12, <1>13

\* The parity of a removed segment goes to another one.
LEMMA SegmentParity ==
  ASSUME NEW s \in SegType, NEW p \in Int
  PROVE  LET x == [s EXCEPT !.parity = @ + p]
         IN  /\ x \in SegType /\ x.count = s.count /\ Held(x) = Held(s) + p
             /\ GoodSegment(s) => GoodSegment(x)
  <1> DEFINE x == [s EXCEPT !.parity = @ + p]
  <1>1. x \in SegType /\ x.count = s.count /\ x.accounts = s.accounts /\ x.parity = s.parity + p
    BY DEF SegType
  <1> HIDE DEF x
  <1>2. Balances(x) = Balances(s)
    BY <1>1 DEF Balances
  <1>3. Held(x) = Held(s) + p
    BY <1>1, <1>2, BalancesType
  <1>4. GoodSegment(s) => GoodSegment(x)
    BY <1>1 DEF GoodSegment, Allocated
  <1> QED
    BY <1>1, <1>3, <1>4 DEF x

LEMMA AddAccountKeeps == ASSUME Good(segs), AddAccount PROVE Good(segs')
  <1> DEFINE n == Len(segs)
             s == segs[n]
             c == s.count
  <1>1. segs \in Seq(SegType) /\ n \in Nat \ {0} /\ n \in 1..n /\ s \in SegType /\ GoodSegment(s)
    BY GoodFacts
  <1>2. c \in Nat
    BY <1>1, BalancesType
  <1>3. ASSUME c < nbaccounts, segs' = [segs EXCEPT ![n].accounts[c] = init_balance, ![n].count = c + 1]
        PROVE  Good(segs')
    <2> DEFINE x == [s EXCEPT !.accounts[c] = init_balance, !.count = c + 1]
    <2>1. segs' = [segs EXCEPT ![n] = x]
      BY <1>1, <1>3
    <2>2. x \in SegType /\ x.count = c + 1 /\ Held(x) = Held(s) + init_balance /\ GoodSegment(x)
      BY <1>1, <1>3, SegmentMore DEF GoodSegment
    <2> HIDE DEF x
    <2>3. Held(x) - Held(s) = init_balance * (x.count - s.count)
      <3>1. x.count - s.count = 1
        BY <1>2, <2>2
      <3>2. Held(s) \in Int /\ init_balance \in Int
        BY <1>1, BalancesType, BankConstants
      <3> HIDE DEF s
      <3>3. Held(x) - Held(s) = init_balance
        BY <2>2, <3>2
      <3> QED
        BY <3>1, <3>2, <3>3
    <2> QED
      BY <1>1, <2>1, <2>2, <2>3, GoodReplace
  <1>4. ASSUME segs' = Append(segs, [EmptySegment EXCEPT !.count = 1, !.accounts[0] = init_balance])
        PROVE  Good(segs')
    <2> DEFINE x == [EmptySegment EXCEPT !.count = 1, !.accounts[0] = init_balance]
    <2>1. x = [EmptySegment EXCEPT !.accounts[0] = init_balance, !.count = 0 + 1]
      <3>1. x = [[EmptySegment EXCEPT !.count = 0 + 1] EXCEPT !.accounts[0] = init_balance]
        OBVIOUS
      <3> QED
        BY <3>1 DEF EmptySegment
    <2>2. x \in SegType /\ x.count = 1 /\ Held(x) = init_balance /\ GoodSegment(x)
      <3>1. \A i \in Allocated(EmptySegment) : EmptySegment.accounts[i] >= 0
        BY EmptyHolds DEF Allocated
      <3>2. 0 < nbaccounts /\ 0 + 1 = 1 /\ 0 + init_balance = init_balance
        BY BankConstants
      <3> HIDE DEF x
      <3> QED
        BY <2>1, <3>1, <3>2, EmptyHolds, SegmentMore
    <2> HIDE DEF x
    <2>3. /\ segs' \in Seq(SegType) /\ segs' # <<>> /\ Len(segs') = n + 1 /\ segs'[n + 1] = x
          /\ \A j \in 1..n : segs'[j] = segs[j]
      BY <1>1, <1>4, <2>2 DEF x
    <2>4. \A j \in 1..Len(segs') : GoodSegment(segs'[j])
      BY <1>1, <2>2, <2>3 DEF Good
    <2>5. SumOf(segs') = SumOf(segs) + init_balance /\ CountOf(segs', Len(segs')) = CountOf(segs, n) + 1
      BY <1>1, <2>2, <2>3, SumLast
    <2>6. SumOf(segs) = init_balance * CountOf(segs, n) /\ CountOf(segs, n) \in Int
      BY GoodFacts DEF Good
    <2>7. SumOf(segs') = init_balance * CountOf(segs', Len(segs'))
      BY <2>5, <2>6, BankConstants
    <2> QED
      BY <2>3, <2>4, <2>7 DEF Good
  <1> QED
    BY <1>3, <1>4 DEF AddAccount, BeforeAlloc

LEMMA RemoveAccountKeeps == ASSUME Good(segs), Total > 2, RemoveAccount PROVE Good(segs')
  <1> DEFINE n == Len(segs)
             s == segs[n]
             p == s.parity + s.accounts[s.count - 1] - init_balance
             t == [s EXCEPT !.count = @ - 1, !.parity = p]
  <1>1. segs \in Seq(SegType) /\ n \in Nat \ {0} /\ n \in 1..n /\ s \in SegType /\ GoodSegment(s)
    BY GoodFacts
  <1>2. s.count \in Nat \ {0} /\ s.count >= 1
    BY <1>1, BalancesType DEF GoodSegment
  <1>3. /\ p \in Int
        /\ t \in SegType /\ t.count = s.count - 1 /\ t.parity = p
        /\ Held(t) = Held(s) - init_balance
        /\ GoodSegment(s) /\ s.count > 1 => GoodSegment(t)
        /\ s.count = 1 => Held(t) = p
    <2> HIDE DEF s
    <2> QED
      BY <1>1, <1>2, SegmentFewer
  <1>4. Held(s) \in Int /\ init_balance \in Int
    BY <1>1, BalancesType, BankConstants
  <1>5. CASE s.count > 1
    <2>1. segs' = [segs EXCEPT ![n] = t]
      BY <1>1, <1>5 DEF RemoveAccount
    <2> HIDE DEF t, p
    <2>2. Held(t) - Held(s) = init_balance * (t.count - s.count)
      <3>1. t.count - s.count = -1
        BY <1>2, <1>3
      <3> HIDE DEF s
      <3> QED
        BY <3>1, <1>3, <1>4
    <2> QED
      BY <1>1, <1>3, <1>5, <2>1, <2>2, GoodReplace
  <1>6. CASE s.count = 1
    <2> DEFINE pre == SubSeq(segs, 1, n - 1)
    <2>1. CountOf(segs, n) = CountOf(segs, n - 1) + 1 /\ CountOf(segs, n) > 2
      BY <1>6, GoodFacts, SumsAre
    <2>2. n > 1
      BY <1>1, <2>1, CountStep
    <2>3. /\ pre \in Seq(SegType) /\ Len(pre) = n - 1 /\ n - 1 \in 1..(n - 1) /\ n - 1 \in 0..(n - 1)
          /\ \A j \in 1..(n - 1) : pre[j] = segs[j]
      BY <1>1, <2>2
    <2> DEFINE r == pre[n - 1]
               x == [r EXCEPT !.parity = @ + p]
    <2>4. segs' = [pre EXCEPT ![n - 1] = x]
      BY <1>6, <2>3 DEF RemoveAccount
    <2> HIDE DEF pre, p, t
    <2>5. SumOf(segs) = SumOf(pre) + Held(s) /\ CountOf(segs, n) = CountOf(pre, n - 1) + 1
      BY <1>1, <1>6, <2>3, SumLast
    <2>6. r \in SegType /\ GoodSegment(r)
      BY <1>1, <2>3 DEF Good
    <2> HIDE DEF r
    <2>7. x \in SegType /\ x.count = r.count /\ Held(x) = Held(r) + p /\ GoodSegment(x)
      BY <1>3, <2>6, SegmentParity
    <2> HIDE DEF x
    <2>8. /\ segs' \in Seq(SegType) /\ Len(segs') = n - 1
          /\ SumOf(segs') = SumOf(pre) + (Held(x) - Held(pre[n - 1]))
          /\ CountOf(segs', Len(segs')) = CountOf(pre, Len(pre)) + (x.count - pre[n - 1].count)
      <3>1. n - 1 \in 1..Len(pre) /\ Len(pre) = n - 1
        BY <2>3
      <3> HIDE DEF n
      <3> QED
        BY <3>1, <2>3, <2>4, <2>7, SumReplace
    <2>9. SumOf(pre) \in Int /\ CountOf(pre, n - 1) \in Int
      BY <2>3, SumTypes
    <2>10. Held(r) \in Int /\ r.count \in Int
      BY <2>6, BalancesType
    <2>11. SumOf(segs') = SumOf(segs) - init_balance
      <3>1. p = Held(s) - init_balance
        BY <1>3, <1>6
      <3> HIDE DEF s
      <3>2. SumOf(segs') = SumOf(pre) + (Held(x) - Held(r))
        BY <2>8 DEF r
      <3> QED
        BY <3>1, <3>2, <1>3, <1>4, <2>5, <2>7, <2>9, <2>10
    <2>12. CountOf(segs', Len(segs')) = CountOf(segs, n) - 1
      <3>1. CountOf(segs', Len(segs')) = CountOf(pre, n - 1) + (x.count - r.count)
        BY <2>3, <2>8 DEF r
      <3> QED
        BY <3>1, <2>5, <2>7, <2>9, <2>10
    <2>13. SumOf(segs) = init_balance * CountOf(segs, n) /\ CountOf(segs, n) \in Int
      BY GoodFacts DEF Good
    <2>14. SumOf(segs') = init_balance * CountOf(segs', Len(segs'))
      BY <2>11, <2>12, <2>13, BankConstants
    <2>15. segs' # <<>>
      BY <2>2, <2>8, <1>1
    <2>16. \A j \in 1..Len(segs') : GoodSegment(segs'[j])
      <3>1. \A j \in 1..(n - 1) : GoodSegment(pre[j])
        BY <1>1, <2>3 DEF Good
      <3>2. DOMAIN pre = 1..(n - 1)
        BY <2>3
      <3> QED
        BY <2>4, <2>7, <2>8, <3>1, <3>2
    <2> QED
      BY <2>8, <2>14, <2>15, <2>16 DEF Good
  <1> QED
    BY <1>2, <1>5, <1>6

\* The first segment at which the accounts counted so far exceed an index.
LEMMA FirstPast ==
  ASSUME NEW ss \in Seq(SegType), NEW k \in 0..Len(ss), NEW id \in Nat, id < CountOf(ss, k)
  PROVE  \E j \in 1..k : CountOf(ss, j - 1) <= id /\ id < CountOf(ss, j)
  <1> DEFINE T == {j \in 0..k : id < CountOf(ss, j)}
  <1>1. Len(ss) \in Nat /\ k \in Nat /\ k \in T /\ T \in SUBSET Nat
    OBVIOUS
  <1>2. PICK j \in T : \A m \in T : j <= m
    BY <1>1, LeastOf
  <1>3. j \in 0..k /\ id < CountOf(ss, j)
    BY <1>2
  <1>4. j # 0
    BY <1>3, CountStep
  <1>5. j \in 1..k /\ j - 1 \in 0..k /\ ~(j <= j - 1) /\ j - 1 \in 0..Len(ss)
    BY <1>1, <1>3, <1>4
  <1>6. ~(id < CountOf(ss, j - 1))
    BY <1>2, <1>5
  <1>7. CountOf(ss, j - 1) \in Int
    BY <1>5, SumTypes
  <1>8. CountOf(ss, j - 1) <= id
    BY <1>6, <1>7
  <1> QED
    BY <1>3, <1>5, <1>8

\* An aborted attempt of short_tx leaves an index.
LEMMA WalkType ==
  ASSUME Good(segs), NEW k \in DOMAIN segs, NEW id \in Nat PROVE Walk(id, k) \in Nat
  <1> DEFINE P(j) == Before(j) <= id /\ (j < k => id < Before(j + 1))
  <1>1. segs \in Seq(SegType) /\ k \in 1..Len(segs) /\ k \in Nat /\ k \in 0..Len(segs) /\ Len(segs) \in Nat
    BY GoodFacts
  <1>2. \A j \in 0..Len(segs) : Before(j) \in Int /\ Before(j) = CountOf(segs, j)
    BY <1>1, SumTypes, SumsAre
  <1>3. \E j \in 0..k : P(j)
    <2>1. CASE id < Before(k)
      <3>1. PICK j \in 1..k : CountOf(segs, j - 1) <= id /\ id < CountOf(segs, j)
        BY <1>1, <1>2, <2>1, FirstPast
      <3>2. j - 1 \in 0..k /\ j - 1 \in 0..Len(segs) /\ j \in 0..Len(segs) /\ (j - 1) + 1 = j
        BY <1>1
      <3>3. Before(j - 1) <= id /\ id < Before((j - 1) + 1)
        BY <1>2, <3>1, <3>2
      <3> QED
        BY <3>2, <3>3
    <2>2. CASE ~(id < Before(k))
      <3>1. Before(k) <= id
        BY <1>1, <1>2, <2>2
      <3> QED
        BY <1>1, <3>1
    <2> QED
      BY <2>1, <2>2
  <1> DEFINE c == CHOOSE j \in 0..k : P(j)
  <1>4. c \in 0..k /\ P(c)
    BY <1>3
  <1>5. Walk(id, k) = id - Before(c)
    BY DEF Walk
  <1> HIDE DEF c
  <1>6. c \in 0..Len(segs)
    BY <1>1, <1>4
  <1> QED
    BY <1>2, <1>4, <1>5, <1>6

\* Every index below the number of accounts has a segment and a place in it.
LEMMA PlaceOf ==
  ASSUME Good(segs), NEW id \in Nat, id < Total
  PROVE  Segment(id) \in 1..Len(segs) /\ Place(id) \in Allocated(segs[Segment(id)])
  <1> DEFINE P(j) == Before(j - 1) <= id /\ id < Before(j)
             c == CHOOSE j \in DOMAIN segs : P(j)
  <1>1. segs \in Seq(SegType) /\ DOMAIN segs = 1..Len(segs) /\ Len(segs) \in 0..Len(segs) /\ Len(segs) \in Nat
    BY GoodFacts
  <1>2. PICK j \in 1..Len(segs) : CountOf(segs, j - 1) <= id /\ id < CountOf(segs, j)
    BY <1>1, FirstPast, SumsAre
  <1>3. P(j)
    BY <1>2, SumsAre
  <1>4. c \in 1..Len(segs) /\ P(c)
    BY <1>1, <1>2, <1>3
  <1>5. Segment(id) = c
    BY DEF Segment
  <1> HIDE DEF c
  <1>6. CountOf(segs, c) = CountOf(segs, c - 1) + segs[c].count
    BY <1>1, <1>4, CountStep
  <1>7. CountOf(segs, c - 1) <= id /\ id < CountOf(segs, c)
    BY <1>4, SumsAre
  <1>8. c - 1 \in 0..Len(segs) /\ segs[c] \in SegType
    BY <1>1, <1>4
  <1>9. CountOf(segs, c - 1) \in Int /\ segs[c].count \in Nat
    BY <1>1, <1>8, SumTypes, BalancesType
  <1>10. Place(id) = id - CountOf(segs, c - 1)
    BY <1>5, SumsAre DEF Place
  <1>11. id - CountOf(segs, c - 1) \in 0..(segs[c].count - 1)
    BY <1>6, <1>7, <1>9
  <1> QED
    BY <1>4, <1>5, <1>10, <1>11 DEF Allocated

\* A balance changes.
Changed(ss, j, a, d) == [ss EXCEPT ![j].accounts[a] = @ + d]

LEMMA SumAccount ==
  ASSUME NEW ss \in Seq(SegType), \A i \in 1..Len(ss) : GoodSegment(ss[i]),
         NEW j \in 1..Len(ss), NEW a \in Allocated(ss[j]), NEW d \in Int, ss[j].accounts[a] + d >= 0
  PROVE  /\ Changed(ss, j, a, d) \in Seq(SegType) /\ Len(Changed(ss, j, a, d)) = Len(ss)
         /\ \A i \in 1..Len(ss) : /\ GoodSegment(Changed(ss, j, a, d)[i])
                                  /\ Changed(ss, j, a, d)[i].count = ss[i].count
         /\ SumOf(Changed(ss, j, a, d)) = SumOf(ss) + d
         /\ CountOf(Changed(ss, j, a, d), Len(Changed(ss, j, a, d))) = CountOf(ss, Len(ss))
  <1> DEFINE s == ss[j]
             x == [s EXCEPT !.accounts[a] = @ + d]
             tt == [ss EXCEPT ![j] = x]
  <1>0. Changed(ss, j, a, d) = tt
    BY DEF Changed
  <1>1. s \in SegType /\ GoodSegment(s)
    OBVIOUS
  <1>2. a \in Account
    <2>1. PICK n \in 0..nbaccounts : n = s.count
      BY <1>1, Zenon DEF SegType
    <2>2. a \in 0..(n - 1)
      BY <2>1 DEF Allocated
    <2> HIDE DEF s
    <2> QED
      BY <2>2, BankConstants
  <1> HIDE DEF s
  <1>3. x \in SegType /\ x.count = s.count /\ Held(x) = Held(s) + d
    BY <1>1, HeldChange DEF s
  <1>4. x.accounts[a] = s.accounts[a] + d /\ \A b \in Account : b # a => x.accounts[b] = s.accounts[b]
    BY <1>1, <1>2 DEF SegType
  <1>5. GoodSegment(x)
    <2>1. Allocated(x) = Allocated(s) /\ Allocated(s) \in SUBSET Account
      BY <1>1, <1>3, AllocatedIn DEF Allocated
    <2>2. s.accounts[a] + d >= 0
      BY DEF s
    <2> QED
      BY <1>1, <1>3, <1>4, <2>1, <2>2 DEF GoodSegment
  <1> HIDE DEF x
  <1>6. /\ tt \in Seq(SegType) /\ Len(tt) = Len(ss)
        /\ SumOf(tt) = SumOf(ss) + (Held(x) - Held(ss[j]))
        /\ CountOf(tt, Len(tt)) = CountOf(ss, Len(ss)) + (x.count - ss[j].count)
    BY <1>3, SumReplace
  <1>7. tt[j] = x /\ \A i \in 1..Len(ss) : i # j => tt[i] = ss[i]
    OBVIOUS
  <1> HIDE DEF tt
  <1>8. SumOf(tt) = SumOf(ss) + d
    <2>1. Held(s) \in Int /\ SumOf(ss) \in Int
      BY <1>1, BalancesType, SumTypes
    <2>2. SumOf(tt) = SumOf(ss) + (Held(x) - Held(s))
      BY <1>6 DEF s
    <2> QED
      BY <1>3, <2>1, <2>2
  <1>9. CountOf(tt, Len(tt)) = CountOf(ss, Len(ss))
    <2>1. s.count \in Nat /\ CountOf(ss, Len(ss)) \in Int
      <3>1. Len(ss) \in 0..Len(ss)
        OBVIOUS
      <3> QED
        BY <1>1, <3>1, BalancesType, SumTypes
    <2>2. CountOf(tt, Len(tt)) = CountOf(ss, Len(ss)) + (x.count - s.count)
      BY <1>6 DEF s
    <2> QED
      BY <1>3, <2>1, <2>2
  <1>10. \A i \in 1..Len(ss) : GoodSegment(tt[i]) /\ tt[i].count = ss[i].count
    BY <1>3, <1>5, <1>7 DEF s
  <1> QED
    BY <1>0, <1>6, <1>8, <1>9, <1>10

LEMMA TransferKeeps ==
  ASSUME Good(segs), NEW s \in Nat, NEW r \in Nat, s < Total, r < Total, Transfer(s, r)
  PROVE  Good(segs')
  <1> PICK d \in Int : d = -1
    OBVIOUS
  <1> DEFINE j == Segment(s)
             a == Place(s)
             k == Segment(r)
             b == Place(r)
             m == Changed(segs, j, a, d)
  <1>1. j \in 1..Len(segs) /\ a \in Allocated(segs[j]) /\ k \in 1..Len(segs) /\ b \in Allocated(segs[k])
    BY PlaceOf
  <1>2. CASE ~(segs[j].accounts[a] > 0)
    BY <1>2 DEF Transfer
  <1>3. CASE segs[j].accounts[a] > 0
    <2>1. segs' = Changed(m, k, b, 1)
      BY <1>3 DEF Transfer, Add, Changed
    <2> HIDE DEF j, a, k, b
    <2>2. segs \in Seq(SegType) /\ segs[j] \in SegType /\ segs[k] \in SegType
      BY <1>1 DEF Good
    <2>3. a \in Account /\ b \in Account
      BY <1>1, <2>2, AllocatedIn
    <2>4. segs[j].accounts[a] \in Int /\ segs[k].accounts[b] \in Int
      BY <2>2, <2>3 DEF SegType
    <2>5. segs[j].accounts[a] + d >= 0
      BY <1>3, <2>4
    <2>6. /\ m \in Seq(SegType) /\ Len(m) = Len(segs)
          /\ \A i \in 1..Len(segs) : GoodSegment(m[i]) /\ m[i].count = segs[i].count
          /\ SumOf(m) = SumOf(segs) + d
          /\ CountOf(m, Len(m)) = CountOf(segs, Len(segs))
      <3>1. \A i \in 1..Len(segs) : GoodSegment(segs[i])
        BY DEF Good
      <3> QED
        BY <3>1, <1>1, <2>2, <2>5, SumAccount
    <2> HIDE DEF m
    <2>7. b \in Allocated(m[k])
      BY <1>1, <2>6 DEF Allocated
    <2>8. m[k].accounts[b] + 1 >= 0
      <3>1. m[k] \in SegType
        BY <1>1, <2>6
      <3>2. m[k].accounts[b] \in Int
        BY <2>3, <3>1 DEF SegType
      <3>3. m[k].accounts[b] >= 0
        BY <1>1, <2>6, <2>7 DEF GoodSegment
      <3> QED
        BY <3>2, <3>3
    <2>9. /\ segs' \in Seq(SegType) /\ Len(segs') = Len(m)
          /\ \A i \in 1..Len(m) : GoodSegment(segs'[i])
          /\ SumOf(segs') = SumOf(m) + 1
          /\ CountOf(segs', Len(segs')) = CountOf(m, Len(m))
      <3>1. \A i \in 1..Len(m) : GoodSegment(m[i])
        BY <2>6
      <3>2. k \in 1..Len(m) /\ 1 \in Int
        BY <1>1, <2>6
      <3> QED
        BY <3>1, <3>2, <2>1, <2>6, <2>7, <2>8, SumAccount
    <2>10. SumOf(segs') = SumOf(segs)
      BY <2>6, <2>9, GoodFacts
    <2>11. segs' # <<>>
      BY <2>6, <2>9, GoodFacts
    <2> QED
      BY <2>6, <2>9, <2>10, <2>11 DEF Good
  <1> QED
    BY <1>2, <1>3

-----------------------------------------------------------------------------
(***************************************************************************)
(* The invariant of the workload.                                          *)
(***************************************************************************)
InitPlaces == {"init", "init_check", "done"}
RunPlaces == {"run", "short", "done"}
BadPlaces == {"bad_second", "bad_third", "bad"}
CheckPlaces ==
  {"check", "write", "verify", "second", "loop", "decrease", "final", "done"} \cup BadPlaces

BankTypes ==
  /\ lib \in {"atomic", "faulty"}
  /\ round \in {"init", "run", "check"}
  /\ at \in [Threads -> InitPlaces \cup RunPlaces \cup CheckPlaces]
  /\ error \in SUBSET Threads
  /\ ntx \in [Threads -> Nat]
  /\ count \in [Threads -> Int]
  /\ send_id \in [Threads -> Nat]
  /\ recv_id \in [Threads -> Nat]
  /\ DOMAIN lastval = Threads

\* The shared memory in the rounds, and where the workers are in them.
RoundInv ==
  /\ round = "init" =>
       /\ \A w \in Threads : at[w] \in InitPlaces
       /\ segs \in {<<EmptySegment>>, <<FullSegment>>}
       /\ \A w \in Threads : at[w] # "init" => segs = <<FullSegment>>
  /\ round = "run" => Good(segs) /\ \A w \in Threads : at[w] \in RunPlaces
  /\ round = "check" => \A w \in Threads : at[w] \in CheckPlaces

\* How often a worker has called sync(), by its place in check.
Calls(w) ==
  /\ at[w] = "check" => arrived[w] = 0
  /\ at[w] \in {"write", "verify", "bad_second", "second"} => arrived[w] = 1
  /\ at[w] \in {"loop", "decrease", "bad_third"} => arrived[w] = 2
  /\ at[w] \in {"final", "bad"} => arrived[w] = 3
  /\ at[w] \in {"write", "verify", "bad_second"} => w = Leader
  /\ at[w] \in {"verify", "decrease"} => pc[w] = "out"

CallsInv ==
  /\ round # "check" => \A w \in Threads : arrived[w] = 0
  /\ round = "check" => \A w \in Threads : Calls(w)

\* The decrements of the counter that are still to be made, when each worker w
\* has made done[w].
ToDo(done) == {p \in Threads \X (1..nbchecks) : p[2] > done[p[1]]}

\* What an atomic library leaves in the counter.
CounterInv ==
  /\ \A w \in Threads :
       /\ ntx[w] <= nbchecks
       /\ left[w] <= 1 => ntx[w] = 0
       /\ arrived[w] >= 3 => ntx[w] = nbchecks
       /\ at[w] = "decrease" => ntx[w] < nbchecks /\ lastval[w] \in Nat /\ lastval[w] >= counter
  /\ at[Leader] \in {"verify", "second"} \/ arrived[Leader] >= 2 => counter = Cardinality(ToDo(ntx))

AtomicInv ==
  lib = "atomic" =>
    /\ error = {}
    /\ \A w \in Threads : at[w] \notin BadPlaces
    /\ round = "check" => CounterInv

\* All but the barrier.
WorkInv == BankTypes /\ RoundInv /\ CallsInv /\ AtomicInv

BankInv == BarrierInv /\ WorkInv

-----------------------------------------------------------------------------
LEMMA ToDoFinite ==
  /\ IsFiniteSet(Threads \X (1..nbchecks))
  /\ Cardinality(Threads \X (1..nbchecks)) = cardinal * nbchecks
  /\ \A done : IsFiniteSet(ToDo(done)) /\ Cardinality(ToDo(done)) \in Nat
                 /\ Cardinality(ToDo(done)) <= cardinal * nbchecks
  <1>1. IsFiniteSet(1..nbchecks) /\ Cardinality(1..nbchecks) = nbchecks
    BY FS_Interval, BankConstants
  <1>2. /\ IsFiniteSet(Threads \X (1..nbchecks))
        /\ Cardinality(Threads \X (1..nbchecks)) = cardinal * nbchecks
    BY <1>1, FS_Product, BarrierAssumption DEF cardinal
  <1>3. ASSUME NEW done
        PROVE  IsFiniteSet(ToDo(done)) /\ Cardinality(ToDo(done)) \in Nat
                 /\ Cardinality(ToDo(done)) <= cardinal * nbchecks
    <2>1. ToDo(done) \in SUBSET (Threads \X (1..nbchecks))
      BY DEF ToDo
    <2> QED
      BY <1>2, <2>1, FS_Subset, FS_CardinalityType
  <1> QED
    BY <1>2, <1>3

LEMMA ToDoAll ==
  ASSUME NEW done, \A w \in Threads : done[w] = 0 PROVE Cardinality(ToDo(done)) = nbchecks * cardinal
  <1>1. ToDo(done) = Threads \X (1..nbchecks)
    BY BankConstants DEF ToDo
  <1>2. cardinal * nbchecks = nbchecks * cardinal
    BY BankConstants, CardinalType
  <1> QED
    BY <1>1, <1>2, ToDoFinite

LEMMA ToDoNone ==
  ASSUME NEW done, \A w \in Threads : done[w] = nbchecks PROVE Cardinality(ToDo(done)) = 0
  <1>1. ToDo(done) = {}
    BY BankConstants DEF ToDo
  <1> QED
    BY <1>1, FS_EmptySet

LEMMA ToDoOne ==
  ASSUME NEW done \in [Threads -> Nat], NEW w \in Threads, done[w] < nbchecks
  PROVE  /\ Cardinality(ToDo(done)) > 0
         /\ Cardinality(ToDo([done EXCEPT ![w] = @ + 1])) = Cardinality(ToDo(done)) - 1
  <1> DEFINE p == <<w, done[w] + 1>>
             more == [done EXCEPT ![w] = @ + 1]
  <1>1. p \in ToDo(done)
    BY BankConstants DEF ToDo
  <1>2. ToDo(more) = ToDo(done) \ {p}
    <2>1. \A q \in Threads \X (1..nbchecks) : q[2] > more[q[1]] <=> (q[2] > done[q[1]] /\ q # p)
      <3> TAKE q \in Threads \X (1..nbchecks)
      <3>1. PICK u \in Threads, i \in 1..nbchecks : q = <<u, i>>
        OBVIOUS
      <3> QED
        BY <3>1
    <2> QED
      BY <2>1 DEF ToDo
  <1>3. Cardinality(ToDo(done)) # 0
    BY <1>1, ToDoFinite, FS_EmptySet
  <1>4. Cardinality(ToDo(more)) = Cardinality(ToDo(done)) - 1
    <2> HIDE DEF p, more
    <2>1. IsFiniteSet(ToDo(done))
      BY ToDoFinite
    <2>2. Cardinality(ToDo(done) \ {p}) = Cardinality(ToDo(done)) - 1
      BY <1>1, <2>1, FS_RemoveElement
    <2> QED
      BY <1>2, <2>2
  <1>5. Cardinality(ToDo(done)) \in Nat
    BY ToDoFinite
  <1> QED
    BY <1>3, <1>4, <1>5

LEMMA Decrease ==
  ASSUME NEW m \in Nat, NEW c \in Nat, 0 < c, c < m PROVE (c + m - 1) % m = c - 1
  OBVIOUS

-----------------------------------------------------------------------------
(***************************************************************************)
(* init and run keep the invariant.                                        *)
(***************************************************************************)
LEMMA BankInitInv == ASSUME BankInit PROVE BankInv
  <1>1. BarrierInv
    BY InitBarrier DEF BankInit
  <1>2. BankTypes
    BY BankConstants DEF BankInit, BankTypes, InitPlaces
  <1>3. RoundInv /\ CallsInv /\ AtomicInv
    BY DEF BankInit, Init, RoundInv, CallsInv, AtomicInv, InitPlaces, BadPlaces
  <1> QED
    BY <1>1, <1>2, <1>3 DEF BankInv, WorkInv

\* A worker's place tells the round.
LEMMA RoundOf ==
  ASSUME BankInv, NEW w \in Threads
  PROVE  /\ at[w] \in {"init", "init_check"} => round = "init"
         /\ at[w] \in {"run", "short"} => round = "run"
         /\ at[w] \in CheckPlaces \ {"done"} => round = "check"
  BY DEF BankInv, WorkInv, BankTypes, RoundInv, InitPlaces, RunPlaces, CheckPlaces, BadPlaces

\* A step outside of check leaves the barrier and the counter alone.
LEMMA NoCheckKeeps ==
  ASSUME BankInv, round # "check", UNCHANGED <<barrierVars, lib, round>>,
         lib = "atomic" => error' = error,
         \A w \in Threads : at'[w] \in {at[w], "init_check", "run", "short", "done"}
  PROVE  CallsInv' /\ AtomicInv'
  BY DEF BankInv, WorkInv, CallsInv, AtomicInv, BadPlaces, barrierVars

LEMMA InitFills ==
  ASSUME segs \in {<<EmptySegment>>, <<FullSegment>>},
         segs' = [segs EXCEPT ![1].count = nbaccounts, ![1].accounts = [i \in Account |-> init_balance]]
  PROVE  segs' = <<FullSegment>>
  <1> DEFINE F == [i \in Account |-> init_balance]
             full == [count |-> nbaccounts, parity |-> 0, accounts |-> F]
  <1>1. FullSegment = full
    <2>1. FullSegment = [[EmptySegment EXCEPT !.count = nbaccounts] EXCEPT !.accounts = F]
      BY DEF FullSegment
    <2> QED
      BY <2>1 DEF EmptySegment
  <1>2. segs' = [segs EXCEPT ![1] = [[segs[1] EXCEPT !.count = nbaccounts] EXCEPT !.accounts = F]]
    OBVIOUS
  <1> DEFINE y == [[segs[1] EXCEPT !.count = nbaccounts] EXCEPT !.accounts = F]
  <1>3. CASE segs = <<EmptySegment>>
    <2>1. y = full
      <3>1. segs[1] = EmptySegment
        BY <1>3
      <3>2. y = [[EmptySegment EXCEPT !.count = nbaccounts] EXCEPT !.accounts = F]
        BY <3>1
      <3> HIDE DEF y
      <3> QED
        BY <3>2 DEF EmptySegment
    <2> HIDE DEF y
    <2>2. [<<EmptySegment>> EXCEPT ![1] = y] = <<y>>
      OBVIOUS
    <2> QED
      BY <1>1, <1>2, <1>3, <2>1, <2>2 DEF y
  <1>4. CASE segs = <<FullSegment>>
    <2>1. y = full
      BY <1>4, <1>1
    <2> HIDE DEF y
    <2>2. [<<FullSegment>> EXCEPT ![1] = y] = <<y>>
      OBVIOUS
    <2> QED
      BY <1>1, <1>2, <1>4, <2>1, <2>2 DEF y
  <1> QED
    BY <1>3, <1>4

LEMMA InitWriteKeeps == ASSUME BankInv, NEW w \in Threads, InitWrite(w) PROVE WorkInv'
  <1>1. round = "init"
    BY RoundOf DEF InitWrite, At
  <1>2. segs' = <<FullSegment>>
    BY <1>1, InitFills DEF BankInv, WorkInv, RoundInv, InitWrite
  <1>3. BankTypes'
    BY DEF BankInv, WorkInv, BankTypes, InitWrite, At, InitPlaces, libVars, runVars
  <1>4. RoundInv'
    BY <1>1, <1>2 DEF BankInv, WorkInv, BankTypes, RoundInv, InitWrite, At, InitPlaces
  <1>5. CallsInv' /\ AtomicInv'
    BY <1>1, NoCheckKeeps DEF BankInv, WorkInv, BankTypes, InitWrite, At, libVars
  <1> QED
    BY <1>3, <1>4, <1>5 DEF WorkInv

LEMMA InitCheckKeeps == ASSUME BankInv, NEW w \in Threads, InitCheck(w) PROVE WorkInv'
  <1>1. round = "init"
    BY RoundOf DEF InitCheck
  <1>2. segs = <<FullSegment>>
    BY <1>1 DEF BankInv, WorkInv, RoundInv, InitCheck
  <1>3. PICK correct \in Seen(segs[1].accounts[0] = init_balance) : Return(w, "init_check", correct)
    BY DEF InitCheck
  <1>4. at' = [at EXCEPT ![w] = "done"] /\ error' \in {error, error \cup {w}}
    BY <1>3 DEF Return, At
  <1>5. lib = "atomic" => error' = error
    <2>1. FullSegment.accounts = [i \in Account |-> init_balance]
      <3>1. FullSegment = [[EmptySegment EXCEPT !.count = nbaccounts]
                             EXCEPT !.accounts = [i \in Account |-> init_balance]]
        BY DEF FullSegment
      <3> QED
        BY <3>1 DEF EmptySegment
    <2>2. 0 \in Account
      BY BankConstants
    <2>3. segs[1].accounts[0] = init_balance
      BY <1>2, <2>1, <2>2
    <2> QED
      BY <1>3, <2>3 DEF Seen, Return
  <1>6. BankTypes'
    BY <1>4 DEF BankInv, WorkInv, BankTypes, InitCheck, InitPlaces, libVars, runVars
  <1>7. RoundInv'
    BY <1>1, <1>2, <1>4 DEF BankInv, WorkInv, BankTypes, RoundInv, InitCheck, InitPlaces
  <1>8. CallsInv' /\ AtomicInv'
    BY <1>1, <1>4, <1>5, NoCheckKeeps DEF BankInv, WorkInv, BankTypes, InitCheck, libVars
  <1> QED
    BY <1>6, <1>7, <1>8 DEF WorkInv

LEMMA StartRoundKeeps == ASSUME BankInv, StartRound PROVE WorkInv'
  <1>1. BankTypes'
    BY BankConstants DEF BankInv, WorkInv, BankTypes, StartRound, RunPlaces, CheckPlaces, libVars
  <1>2. CASE round = "init"
    <2>1. Good(segs)
      BY <1>2, FullGood, BarrierAssumption DEF BankInv, WorkInv, RoundInv, StartRound
    <2> QED
      BY <1>1, <1>2, <2>1
      DEF BankInv, WorkInv, RoundInv, CallsInv, AtomicInv, StartRound, RunPlaces, BadPlaces, barrierVars, libVars
  <1>3. CASE round = "run"
    <2>1. round' = "check" /\ \A w \in Threads : at'[w] = "check" /\ arrived'[w] = 0 /\ ntx'[w] = 0
      BY <1>3 DEF BankInv, WorkInv, CallsInv, StartRound, barrierVars
    <2>2. RoundInv' /\ CallsInv'
      BY <2>1 DEF RoundInv, CallsInv, Calls, CheckPlaces
    <2>3. AtomicInv'
      BY <2>1, BankConstants, BankAssumption
      DEF BankInv, WorkInv, AtomicInv, CounterInv, StartRound, BadPlaces, libVars
    <2> QED
      BY <1>1, <2>2, <2>3 DEF WorkInv
  <1> QED
    BY <1>2, <1>3 DEF StartRound

\* Good segments are those that long_tx finds consistent.
LEMMA GoodConsistent == Good(segs) => Consistent /\ Total \in Int
  <1> SUFFICES ASSUME Good(segs) PROVE Consistent /\ Total \in Int
    OBVIOUS
  <1>1. Sum = init_balance * Total /\ Total \in Int
    BY GoodFacts, SumsAre DEF Good
  <1>2. \A j \in DOMAIN segs : \A i \in Allocated(segs[j]) : segs[j].accounts[i] >= 0
    BY DEF Good, GoodSegment
  <1> QED
    BY <1>1, <1>2 DEF Consistent

\* A step of run that leaves good segments, and reports no error when the
\* transactions are atomic.
LEMMA RunStepKeeps ==
  ASSUME BankInv, NEW w \in Threads, at[w] \in {"run", "short"}, BankTypes', Good(segs'),
         UNCHANGED <<barrierVars, lib, round>>,
         lib = "atomic" => error' = error,
         \E to \in RunPlaces : at' = [at EXCEPT ![w] = to]
  PROVE  WorkInv'
  <1>1. round = "run"
    BY RoundOf
  <1>2. \A u \in Threads : at'[u] \in {at[u], "run", "short", "done"} /\ at'[u] \in RunPlaces
    BY <1>1 DEF BankInv, WorkInv, BankTypes, RoundInv, RunPlaces
  <1>3. RoundInv'
    BY <1>1, <1>2 DEF RoundInv
  <1>4. CallsInv' /\ AtomicInv'
    BY <1>1, <1>2, NoCheckKeeps
  <1> QED
    BY <1>3, <1>4 DEF WorkInv

LEMMA RunGood ==
  ASSUME BankInv, NEW w \in Threads, at[w] \in {"run", "short"}
  PROVE  round = "run" /\ Good(segs) /\ Consistent /\ Total \in Int
  BY RoundOf, GoodConsistent DEF BankInv, WorkInv, RoundInv

LEMMA LongTxKeeps ==
  ASSUME BankInv, NEW w \in Threads, LongTx(w) \/ LastLongTx(w) PROVE WorkInv'
  <1>1. at[w] = "run"
    BY DEF LongTx, LastLongTx
  <1>2. Good(segs) /\ Consistent /\ Total \in Int
    BY <1>1, RunGood
  <1>3. PICK correct \in Seen(Consistent) :
          \/ correct /\ At(w, "run", "run") /\ UNCHANGED error
          \/ ~correct /\ Return(w, "run", FALSE)
          \/ Return(w, "run", correct)
    BY DEF LongTx, LastLongTx
  <1>4. (\E to \in RunPlaces : at' = [at EXCEPT ![w] = to]) /\ error' \in {error, error \cup {w}}
    BY <1>3 DEF Return, At, RunPlaces
  <1>5. lib = "atomic" => error' = error
    <2>1. lib = "atomic" => correct
      BY <1>2, <1>3 DEF Seen
    <2> QED
      BY <1>3, <2>1 DEF Return
  <1>6. ntx' \in {ntx, [ntx EXCEPT ![w] = @ + 1]}
    BY DEF LongTx, LastLongTx, Counted
  <1>7. count' \in {[count EXCEPT ![w] = Total], [count EXCEPT ![w] = nbaccounts]}
    BY DEF LongTx, LastLongTx
  <1>8. UNCHANGED <<barrierVars, lib, round, segs, send_id, recv_id, lastval>>
    BY DEF LongTx, LastLongTx, libVars
  <1>9. ntx' \in [Threads -> Nat] /\ count' \in [Threads -> Int]
    <2>1. nbaccounts \in Int
      BY BankConstants
    <2>2. ntx \in [Threads -> Nat] /\ count \in [Threads -> Int]
      BY DEF BankInv, WorkInv, BankTypes
    <2>3. ntx' \in [Threads -> Nat]
      BY <1>6, <2>2
    <2>4. count' \in [Threads -> Int]
      BY <1>2, <1>7, <2>1, <2>2
    <2> QED
      BY <2>3, <2>4
  <1>10. BankTypes'
    BY <1>4, <1>8, <1>9 DEF BankInv, WorkInv, BankTypes
  <1> QED
    BY <1>1, <1>2, <1>4, <1>5, <1>8, <1>10, RunStepKeeps

LEMMA AllocKeeps ==
  ASSUME BankInv, NEW w \in Threads, NEW trigger, AllocTx(w, trigger) \/ AllocThrows(w, trigger)
  PROVE  WorkInv'
  <1>1. at[w] = "run"
    BY DEF AllocTx, AllocThrows, Throw, At
  <1>2. Good(segs)
    BY <1>1, RunGood
  <1>3. Good(segs')
    BY <1>2, AddAccountKeeps, RemoveAccountKeeps DEF AllocTx, AllocThrows, BeforeAlloc
  <1>4. /\ UNCHANGED <<barrierVars, lib, round, error, send_id, recv_id, lastval>>
        /\ \E to \in RunPlaces : at' = [at EXCEPT ![w] = to]
    BY DEF AllocTx, AllocThrows, Throw, At, RunPlaces, libVars, runVars
  <1>5. ntx' \in {ntx, [ntx EXCEPT ![w] = @ + 1]} /\ count' \in {count, [count EXCEPT ![w] = nbaccounts]}
    BY DEF AllocTx, AllocThrows, Counted, runVars
  <1>6. BankTypes'
    BY <1>4, <1>5, BankConstants DEF BankInv, WorkInv, BankTypes
  <1> QED
    BY <1>1, <1>3, <1>4, <1>6, RunStepKeeps

LEMMA ShortKeeps ==
  ASSUME BankInv, NEW w \in Threads,
         \/ \E s, r \in 0..(count[w] - 1) : ShortTx(w, s, r)
         \/ \E k \in DOMAIN segs : ShortAbort(w, k)
         \/ ShortCommit(w)
  PROVE  WorkInv'
  <1>1. at[w] \in {"run", "short"}
    BY DEF ShortTx, ShortAbort, ShortCommit, At
  <1>2. Good(segs) /\ Total \in Int
    BY <1>1, RunGood
  <1>3. ASSUME NEW s \in 0..(count[w] - 1), NEW r \in 0..(count[w] - 1), ShortTx(w, s, r) PROVE WorkInv'
    <2>1. s \in Nat /\ r \in Nat
      OBVIOUS
    <2>2. BankTypes'
      BY <1>3, <2>1 DEF BankInv, WorkInv, BankTypes, ShortTx, At, RunPlaces, libVars
    <2>3. Good(segs')
      BY <1>2, <1>3 DEF ShortTx
    <2>4. UNCHANGED <<barrierVars, lib, round, error>> /\ \E to \in RunPlaces : at' = [at EXCEPT ![w] = to]
      BY <1>3 DEF ShortTx, At, RunPlaces, libVars
    <2> QED
      BY <1>1, <2>2, <2>3, <2>4, RunStepKeeps
  <1>4. ASSUME NEW k \in DOMAIN segs, ShortAbort(w, k) PROVE WorkInv'
    <2>1. Walk(send_id[w], k) \in Nat /\ Walk(recv_id[w], k) \in Nat
      BY <1>2, WalkType DEF BankInv, WorkInv, BankTypes
    <2>2. send_id' = [send_id EXCEPT ![w] = Walk(send_id[w], k)] /\ recv_id' = [recv_id EXCEPT ![w] = Walk(recv_id[w], k)]
      BY <1>4 DEF ShortAbort
    <2>3. BankTypes'
      BY <1>4, <2>1, <2>2 DEF BankInv, WorkInv, BankTypes, ShortAbort, libVars
    <2>4. Good(segs')
      BY <1>2, <1>4 DEF ShortAbort
    <2>5. UNCHANGED <<barrierVars, lib, round, error>> /\ \E to \in RunPlaces : at' = [at EXCEPT ![w] = to]
      <3>1. at' = [at EXCEPT ![w] = "short"]
        BY <1>4 DEF ShortAbort, BankInv, WorkInv, BankTypes
      <3> QED
        BY <1>4, <3>1 DEF ShortAbort, RunPlaces, libVars
    <2> QED
      BY <1>1, <2>3, <2>4, <2>5, RunStepKeeps
  <1>5. ASSUME ShortCommit(w) PROVE WorkInv'
    <2>1. ntx' \in {ntx, [ntx EXCEPT ![w] = @ + 1]}
      BY <1>5 DEF ShortCommit, Counted
    <2>2. BankTypes'
      BY <1>5, <2>1 DEF BankInv, WorkInv, BankTypes, ShortCommit, At, RunPlaces, libVars
    <2>3. Good(segs')
      <3>1. send_id[w] \in Nat /\ recv_id[w] \in Nat
        BY DEF BankInv, WorkInv, BankTypes
      <3>2. CASE send_id[w] < Total /\ recv_id[w] < Total
        BY <1>2, <1>5, <3>1, <3>2, TransferKeeps DEF ShortCommit
      <3>3. CASE ~(send_id[w] < Total /\ recv_id[w] < Total)
        BY <1>2, <1>5, <3>3 DEF ShortCommit
      <3> QED
        BY <3>2, <3>3
    <2>4. UNCHANGED <<barrierVars, lib, round, error>> /\ \E to \in RunPlaces : at' = [at EXCEPT ![w] = to]
      BY <1>5 DEF ShortCommit, At, RunPlaces, libVars
    <2> QED
      BY <1>1, <2>2, <2>3, <2>4, RunStepKeeps
  <1> QED
    BY <1>3, <1>4, <1>5

LEMMA RunKeeps == ASSUME BankInv, NEW w \in Threads, Run(w) PROVE WorkInv'
  BY LongTxKeeps, AllocKeeps, ShortKeeps DEF Run

-----------------------------------------------------------------------------
(***************************************************************************)
(* check keeps the invariant.                                              *)
(***************************************************************************)
\* The types of a worker's step in check.
LEMMA CheckTypes ==
  ASSUME BankInv, NEW w \in Threads, round = "check",
         \E to \in CheckPlaces : at' = [at EXCEPT ![w] = to],
         error' \in {error, error \cup {w}},
         ntx' \in {ntx, [ntx EXCEPT ![w] = @ + 1]},
         UNCHANGED <<lib, round, runVars>>, DOMAIN lastval' = Threads
  PROVE  BankTypes' /\ RoundInv'
  <1>1. \A u \in Threads : at'[u] \in CheckPlaces
    BY DEF BankInv, WorkInv, BankTypes, RoundInv
  <1>2. BankTypes'
    BY DEF BankInv, WorkInv, BankTypes, runVars
  <1>3. RoundInv'
    BY <1>1 DEF RoundInv
  <1> QED
    BY <1>2, <1>3

\* What the barrier tells of another worker's place.
LEMMA Meets ==
  ASSUME BankInv, round = "check", NEW w \in Threads
  PROVE  /\ Calls(w)
         /\ arrived[w] \in Nat /\ left[w] \in Nat
         /\ arrived[w] = IF pc[w] = "out" THEN left[w] ELSE left[w] + 1
         /\ \A u \in Threads : left[u] <= arrived[w]
         /\ at[w] \in CheckPlaces
  BY InvRounds, BarrierAssumption
  DEF BankInv, WorkInv, BarrierInv, TypeOK, RoundsEqual, RoundsTogether, CallsInv, RoundInv

LEMMA InSyncKeeps == ASSUME BankInv, NEW w \in Threads, InSync(w) PROVE WorkInv'
  <1>1. pc[w] # "out" /\ UNCHANGED <<arrived, counter, at, error, ntx, lastval, lib, round, segs, runVars>>
    BY DEF InSync, Sync, SetLeave, WaitLeave, Leave, SetEnter, WaitEnter, Goto, checkVars, libVars
  <1>2. round = "check"
    BY <1>1, BarrierAssumption DEF BankInv, WorkInv, BarrierInv, TypeOK, RoundsEqual, CallsInv
  <1>3. \A u \in Threads \ {w} : pc'[u] = pc[u] /\ left'[u] = left[u]
    BY DEF InSync, Sync, SetLeave, WaitLeave, Leave, SetEnter, WaitEnter, Goto, BankInv, BarrierInv, TypeOK
  <1>4. left'[w] \in {left[w], left[w] + 1} /\ left[w] \in Nat
    BY BarrierAssumption
    DEF InSync, Sync, SetLeave, WaitLeave, Leave, SetEnter, WaitEnter, Goto, BankInv, BarrierInv, TypeOK
  <1>5. BankTypes' /\ RoundInv'
    BY <1>1, <1>2 DEF BankInv, WorkInv, BankTypes, RoundInv, runVars
  <1>6. CallsInv'
    BY <1>1, <1>2, <1>3 DEF BankInv, WorkInv, CallsInv, Calls
  <1>7. AtomicInv'
    <2> SUFFICES ASSUME lib = "atomic" PROVE AtomicInv'
      BY <1>1 DEF AtomicInv
    <2>1. CounterInv
      BY <1>2 DEF BankInv, WorkInv, AtomicInv
    <2>2. \A u \in Threads : left'[u] <= 1 => ntx'[u] = 0
      BY <1>1, <1>3, <1>4, <2>1 DEF CounterInv
    <2>3. CounterInv'
      BY <1>1, <2>1, <2>2 DEF CounterInv
    <2> QED
      BY <1>1, <2>3 DEF BankInv, WorkInv, AtomicInv
  <1> QED
    BY <1>5, <1>6, <1>7 DEF WorkInv

\* A call of sync().
LEMMA CallSyncKeeps ==
  ASSUME BankInv, NEW w \in Threads, NEW from, NEW to, CallSync(w, from, to),
         \/ from = "check" /\ to = IF w = Leader THEN "write" ELSE "second"
         \/ from = "bad_second" /\ to = "bad_third"
         \/ from = "second" /\ to = "loop"
         \/ from = "loop" /\ to = "final" /\ ntx[w] = nbchecks
         \/ from = "bad_third" /\ to = "bad"
  PROVE  WorkInv'
  <1>1. /\ at[w] = from /\ at' = [at EXCEPT ![w] = to] /\ pc[w] = "out"
        /\ UNCHANGED <<left, counter, error, ntx, lastval, lib, round, segs, runVars>>
        /\ arrived' = [arrived EXCEPT ![w] = @ + 1]
    BY DEF CallSync, At, Enter, checkVars, libVars
  <1>2. round = "check"
    BY <1>1, RoundOf DEF CheckPlaces, BadPlaces
  <1>3. \A u \in Threads \ {w} : pc'[u] = pc[u] /\ arrived'[u] = arrived[u] /\ at'[u] = at[u]
    BY <1>1 DEF CallSync, Enter, Goto, BankInv, BarrierInv, TypeOK, WorkInv, BankTypes
  <1>4. arrived'[w] = arrived[w] + 1 /\ arrived[w] \in Nat /\ at'[w] = to
    BY <1>1, Meets, <1>2 DEF BankInv, BarrierInv, TypeOK, WorkInv, BankTypes
  <1>5. BankTypes' /\ RoundInv'
    BY <1>1, <1>2, CheckTypes DEF BankInv, WorkInv, BankTypes, CheckPlaces, BadPlaces
  <1>6. Calls(w)
    BY <1>2, Meets
  <1>7. CallsInv'
    <2>1. Calls(w)'
      BY <1>1, <1>4, <1>6 DEF Calls
    <2>2. \A u \in Threads \ {w} : Calls(u)'
      BY <1>2, <1>3 DEF BankInv, WorkInv, CallsInv, Calls
    <2> QED
      BY <1>1, <1>2, <2>1, <2>2 DEF CallsInv
  <1>8. AtomicInv'
    <2> SUFFICES ASSUME lib = "atomic" PROVE AtomicInv'
      BY <1>1 DEF AtomicInv
    <2>1. CounterInv /\ error = {} /\ \A u \in Threads : at[u] \notin BadPlaces
      BY <1>2 DEF BankInv, WorkInv, AtomicInv
    <2>2. /\ \/ from = "check" /\ to = IF w = Leader THEN "write" ELSE "second"
             \/ from = "second" /\ to = "loop"
             \/ from = "loop" /\ to = "final" /\ ntx[w] = nbchecks
    BY <1>1, <2>1 DEF BadPlaces
    <2>3. \A u \in Threads : at'[u] \notin BadPlaces
      BY <1>3, <1>4, <2>1, <2>2 DEF BadPlaces
    <2>4. \A u \in Threads :
            /\ arrived'[u] >= 3 => ntx'[u] = nbchecks
            /\ at'[u] = "decrease" => at[u] = "decrease"
      BY <1>1, <1>3, <1>4, <1>6, <2>1, <2>2 DEF CounterInv, Calls
    <2>5. at'[Leader] \in {"verify", "second"} \/ arrived'[Leader] >= 2 => counter' = Cardinality(ToDo(ntx'))
      <3>1. CASE w = Leader
        BY <3>1, <1>1, <1>4, <1>6, <2>1, <2>2 DEF CounterInv, Calls
      <3>2. CASE w # Leader
        BY <3>2, <1>1, <1>3, <2>1, BankAssumption DEF CounterInv
      <3> QED
        BY <3>1, <3>2
    <2>6. CounterInv'
      BY <1>1, <2>1, <2>4, <2>5 DEF CounterInv
    <2> QED
      BY <1>1, <2>1, <2>3, <2>6 DEF AtomicInv
  <1> QED
    BY <1>5, <1>7, <1>8 DEF WorkInv

LEMMA SyncCallsKeep ==
  ASSUME BankInv, NEW w \in Threads,
         FirstSync(w) \/ BadSecondSync(w) \/ SecondSync(w) \/ ThirdSync(w) \/ BadThirdSync(w)
  PROVE  WorkInv'
  BY CallSyncKeeps DEF FirstSync, BadSecondSync, SecondSync, ThirdSync, BadThirdSync

\* A step of check that leaves the barrier alone and takes worker w to to.
LEMMA WorkStepCalls ==
  ASSUME BankInv, NEW w \in Threads, NEW from, NEW to, at[w] = from, at' = [at EXCEPT ![w] = to],
         round = "check", round' = round, UNCHANGED barrierVars,
         \/ from = "write" /\ to = "verify" /\ pc[w] = "out"
         \/ from = "verify" /\ to \in {"second", "bad_second"}
         \/ from = "loop" /\ to = "decrease" /\ pc[w] = "out"
         \/ from = "decrease" /\ to \in {"loop", "bad_third"}
         \/ to = "done"
  PROVE  CallsInv'
  <1>1. \A u \in Threads : Calls(u)
    BY DEF BankInv, WorkInv, CallsInv
  <1>2. \A u \in Threads \ {w} : at'[u] = at[u]
    BY DEF BankInv, WorkInv, BankTypes
  <1>3. at'[w] = to
    BY DEF BankInv, WorkInv, BankTypes
  <1>4. UNCHANGED <<arrived, pc>>
    BY DEF barrierVars
  <1>5. Calls(w)'
    BY <1>1, <1>3, <1>4 DEF Calls
  <1>6. \A u \in Threads \ {w} : Calls(u)'
    BY <1>1, <1>2, <1>4 DEF Calls
  <1> QED
    BY <1>5, <1>6 DEF CallsInv

\* Until the leader has met the others for the second time, no worker decreases.
LEMMA NoneDone ==
  ASSUME BankInv, lib = "atomic", at[Leader] \in {"write", "verify"}, pc[Leader] = "out"
  PROVE  /\ \A u \in Threads : ntx[u] = 0 /\ at[u] # "decrease"
         /\ Cardinality(ToDo(ntx)) = nbchecks * cardinal
  <1>1. Leader \in Threads
    BY BankAssumption
  <1>2. round = "check"
    BY <1>1, RoundOf DEF CheckPlaces
  <1>3. arrived[Leader] = 1 /\ \A u \in Threads : left[u] <= 1
    BY <1>1, <1>2, Meets DEF Calls
  <1>4. \A u \in Threads : ntx[u] = 0
    BY <1>2, <1>3 DEF BankInv, WorkInv, AtomicInv, CounterInv
  <1>5. \A u \in Threads : at[u] # "decrease"
    BY <1>2, <1>3, Meets DEF Calls
  <1> QED
    BY <1>4, <1>5, ToDoAll

LEMMA WriteCounterKeeps == ASSUME BankInv, NEW w \in Threads, WriteCounter(w) PROVE WorkInv'
  <1>1. /\ at[w] = "write" /\ at' = [at EXCEPT ![w] = "verify"] /\ pc[w] = "out"
        /\ counter' = nbchecks * cardinal
        /\ UNCHANGED <<barrierVars, lib, round, runVars, error, ntx, lastval>>
    BY DEF WriteCounter, At, checkVars, libVars
  <1>2. round = "check" /\ w = Leader
    BY <1>1, RoundOf, Meets DEF CheckPlaces, Calls
  <1>3. BankTypes' /\ RoundInv'
    BY <1>1, <1>2, CheckTypes DEF BankInv, WorkInv, BankTypes, CheckPlaces
  <1>4. CallsInv'
    BY <1>1, <1>2, WorkStepCalls
  <1>5. AtomicInv'
    <2> SUFFICES ASSUME lib = "atomic" PROVE AtomicInv'
      BY <1>1 DEF AtomicInv
    <2>1. CounterInv /\ error = {} /\ \A u \in Threads : at[u] \notin BadPlaces
      BY <1>2 DEF BankInv, WorkInv, AtomicInv
    <2>2. counter' = Cardinality(ToDo(ntx')) /\ \A u \in Threads : at[u] # "decrease"
      BY <1>1, <1>2, NoneDone
    <2>3. \A u \in Threads : at'[u] # "decrease" /\ at'[u] \notin BadPlaces
      BY <1>1, <2>1, <2>2 DEF BankInv, WorkInv, BankTypes, BadPlaces
    <2>4. CounterInv'
      BY <1>1, <2>1, <2>2, <2>3 DEF CounterInv, barrierVars
    <2> QED
      BY <1>1, <2>1, <2>3, <2>4 DEF AtomicInv
  <1> QED
    BY <1>3, <1>4, <1>5 DEF WorkInv

LEMMA VerifyCounterKeeps == ASSUME BankInv, NEW w \in Threads, VerifyCounter(w) PROVE WorkInv'
  <1>1. PICK v \in SeenValue(counter) :
          At(w, "verify", IF v = nbchecks * cardinal THEN "second" ELSE "bad_second")
    BY DEF VerifyCounter
  <1>2. PICK to : to = IF v = nbchecks * cardinal THEN "second" ELSE "bad_second"
    OBVIOUS
  <1>3. /\ at[w] = "verify" /\ at' = [at EXCEPT ![w] = to] /\ to \in {"second", "bad_second"}
        /\ UNCHANGED <<barrierVars, lib, round, runVars, error, ntx, lastval, counter>>
    BY <1>1, <1>2 DEF VerifyCounter, At, checkVars, libVars
  <1>4. round = "check" /\ w = Leader /\ pc[w] = "out"
    BY <1>3, RoundOf, Meets DEF CheckPlaces, Calls
  <1>5. BankTypes' /\ RoundInv'
    BY <1>3, <1>4, CheckTypes DEF BankInv, WorkInv, BankTypes, CheckPlaces, BadPlaces
  <1>6. CallsInv'
    BY <1>3, <1>4, WorkStepCalls
  <1>7. AtomicInv'
    <2> SUFFICES ASSUME lib = "atomic" PROVE AtomicInv'
      BY <1>3 DEF AtomicInv
    <2>1. CounterInv /\ error = {} /\ \A u \in Threads : at[u] \notin BadPlaces
      BY <1>4 DEF BankInv, WorkInv, AtomicInv
    <2>2. counter = nbchecks * cardinal /\ counter = Cardinality(ToDo(ntx))
      BY <1>3, <1>4, <2>1, NoneDone DEF CounterInv
    <2>3. to = "second"
      BY <1>1, <1>2, <2>2 DEF SeenValue
    <2>4. \A u \in Threads : at'[u] \notin BadPlaces /\ (at'[u] = "decrease" => at[u] = "decrease")
      BY <1>3, <2>1, <2>3 DEF BankInv, WorkInv, BankTypes, BadPlaces
    <2>5. CounterInv'
      BY <1>3, <2>1, <2>2, <2>4 DEF CounterInv, barrierVars
    <2> QED
      BY <1>3, <2>1, <2>4, <2>5 DEF AtomicInv
  <1> QED
    BY <1>5, <1>6, <1>7 DEF WorkInv

\* What the counter holds when the workers decrease it.
LEMMA InLoop ==
  ASSUME BankInv, lib = "atomic", NEW w \in Threads, at[w] \in {"loop", "decrease"}, pc[w] = "out"
  PROVE  counter = Cardinality(ToDo(ntx)) /\ counter \in Nat /\ counter < SizeSpan
  <1>1. round = "check"
    BY RoundOf DEF CheckPlaces
  <1>2. arrived[w] = 2 /\ left[w] = 2
    BY <1>1, Meets DEF Calls
  <1>3. arrived[Leader] >= 2
    BY <1>1, <1>2, Meets, BankAssumption
  <1>4. counter = Cardinality(ToDo(ntx))
    BY <1>1, <1>3 DEF BankInv, WorkInv, AtomicInv, CounterInv
  <1>5. Cardinality(ToDo(ntx)) \in Nat /\ Cardinality(ToDo(ntx)) <= cardinal * nbchecks
    BY ToDoFinite
  <1>6. cardinal * nbchecks = nbchecks * cardinal /\ nbchecks * cardinal < SizeSpan
        /\ nbchecks * cardinal \in Nat /\ SizeSpan \in Nat
    BY BankConstants, CardinalType, BankAssumption
  <1> QED
    BY <1>4, <1>5, <1>6

LEMMA ReadCounterKeeps == ASSUME BankInv, NEW w \in Threads, ReadCounter(w) PROVE WorkInv'
  <1>1. PICK v \in SeenValue(counter) : lastval' = [lastval EXCEPT ![w] = v]
    BY DEF ReadCounter
  <1>2. /\ at[w] = "loop" /\ at' = [at EXCEPT ![w] = "decrease"] /\ pc[w] = "out" /\ ntx[w] < nbchecks
        /\ UNCHANGED <<barrierVars, lib, round, runVars, error, ntx, counter>>
    BY DEF ReadCounter, At, checkVars, libVars
  <1>3. round = "check"
    BY <1>2, RoundOf DEF CheckPlaces
  <1>4. BankTypes' /\ RoundInv'
    BY <1>1, <1>2, <1>3, CheckTypes DEF BankInv, WorkInv, BankTypes, CheckPlaces
  <1>5. CallsInv'
    BY <1>2, <1>3, WorkStepCalls
  <1>6. AtomicInv'
    <2> SUFFICES ASSUME lib = "atomic" PROVE AtomicInv'
      BY <1>2 DEF AtomicInv
    <2>1. CounterInv /\ error = {} /\ \A u \in Threads : at[u] \notin BadPlaces
      BY <1>3 DEF BankInv, WorkInv, AtomicInv
    <2>2. counter \in Nat
      BY <1>2, InLoop
    <2>3. lastval'[w] = counter /\ \A u \in Threads \ {w} : lastval'[u] = lastval[u] /\ at'[u] = at[u]
      BY <1>1, <1>2 DEF SeenValue, BankInv, WorkInv, BankTypes
    <2>4. at'[w] = "decrease"
      BY <1>2 DEF BankInv, WorkInv, BankTypes
    <2>5. \A u \in Threads : at'[u] \notin BadPlaces
      BY <2>1, <2>3, <2>4 DEF BadPlaces
    <2>6. \A u \in Threads : at'[u] = "decrease" =>
            ntx'[u] < nbchecks /\ lastval'[u] \in Nat /\ lastval'[u] >= counter'
      BY <1>2, <2>1, <2>2, <2>3 DEF CounterInv
    <2>7. at'[Leader] \in {"verify", "second"} => at[Leader] \in {"verify", "second"}
      BY <2>3, <2>4, BankAssumption
    <2>8. CounterInv'
      BY <1>2, <2>1, <2>6, <2>7 DEF CounterInv, barrierVars
    <2> QED
      BY <1>2, <2>1, <2>5, <2>8 DEF AtomicInv
  <1> QED
    BY <1>4, <1>5, <1>6 DEF WorkInv

LEMMA DecreaseCounterKeeps == ASSUME BankInv, NEW w \in Threads, DecreaseCounter(w) PROVE WorkInv'
  <1>1. PICK v \in SeenValue(counter) :
          \/ /\ v > lastval[w]
             /\ At(w, "decrease", "bad_third")
             /\ UNCHANGED <<counter, ntx>>
          \/ /\ v <= lastval[w]
             /\ At(w, "decrease", "loop")
             /\ counter' = (v + SizeSpan - 1) % SizeSpan
             /\ ntx' = [ntx EXCEPT ![w] = @ + 1]
    BY DEF DecreaseCounter
  <1>2. PICK to \in {"loop", "bad_third"} : at' = [at EXCEPT ![w] = to]
    BY <1>1 DEF At
  <1>3. /\ at[w] = "decrease"
        /\ UNCHANGED <<barrierVars, lib, round, runVars, error>>
        /\ lastval' = [lastval EXCEPT ![w] = 0]
        /\ ntx' \in {ntx, [ntx EXCEPT ![w] = @ + 1]}
    BY <1>1 DEF DecreaseCounter, At, checkVars, libVars
  <1>4. round = "check" /\ pc[w] = "out"
    BY <1>3, RoundOf, Meets DEF CheckPlaces, Calls
  <1>5. BankTypes' /\ RoundInv'
    BY <1>2, <1>3, <1>4, CheckTypes DEF BankInv, WorkInv, BankTypes, CheckPlaces, BadPlaces
  <1>6. CallsInv'
    BY <1>2, <1>3, <1>4, WorkStepCalls
  <1>7. AtomicInv'
    <2> SUFFICES ASSUME lib = "atomic" PROVE AtomicInv'
      BY <1>3 DEF AtomicInv
    <2>1. CounterInv /\ error = {} /\ \A u \in Threads : at[u] \notin BadPlaces
      BY <1>4 DEF BankInv, WorkInv, AtomicInv
    <2>2. counter = Cardinality(ToDo(ntx)) /\ counter \in Nat /\ counter < SizeSpan
      BY <1>3, <1>4, InLoop
    <2>3. ntx[w] < nbchecks /\ lastval[w] \in Nat /\ lastval[w] >= counter
      BY <1>3, <2>1 DEF CounterInv
    <2>4. v = counter
      BY DEF SeenValue
    <2>5. /\ at' = [at EXCEPT ![w] = "loop"]
          /\ counter' = (counter + SizeSpan - 1) % SizeSpan
          /\ ntx' = [ntx EXCEPT ![w] = @ + 1]
      BY <1>1, <2>2, <2>3, <2>4 DEF At
    <2>6. ntx \in [Threads -> Nat] /\ SizeSpan \in Nat
      BY BankAssumption DEF BankInv, WorkInv, BankTypes
    <2>7. counter > 0 /\ Cardinality(ToDo(ntx')) = counter - 1
      BY <2>2, <2>3, <2>5, <2>6, ToDoOne
    <2>8. counter' = counter - 1
      BY <2>2, <2>5, <2>6, <2>7, Decrease
    <2>9. at'[w] = "loop" /\ \A u \in Threads \ {w} : at'[u] = at[u] /\ lastval'[u] = lastval[u] /\ ntx'[u] = ntx[u]
      BY <1>3, <2>5, <2>6 DEF BankInv, WorkInv, BankTypes
    <2>10. ntx'[w] = ntx[w] + 1 /\ ntx[w] \in Nat
      BY <2>5, <2>6
    <2>11. left'[w] = 2 /\ arrived'[w] = 2
      BY <1>3, <1>4, Meets DEF Calls, barrierVars
    <2>12. \A u \in Threads : at'[u] \notin BadPlaces
      BY <2>1, <2>9 DEF BadPlaces
    <2>13. \A u \in Threads \ {w} : at'[u] = "decrease" =>
             ntx'[u] < nbchecks /\ lastval'[u] \in Nat /\ lastval'[u] >= counter'
      BY <2>1, <2>2, <2>8, <2>9 DEF CounterInv
    <2>14. \A u \in Threads \ {w} :
             /\ ntx'[u] <= nbchecks
             /\ left'[u] <= 1 => ntx'[u] = 0
             /\ arrived'[u] >= 3 => ntx'[u] = nbchecks
      BY <1>3, <2>1, <2>9 DEF CounterInv, barrierVars
    <2>15. /\ ntx'[w] <= nbchecks
           /\ ~(left'[w] <= 1) /\ ~(arrived'[w] >= 3) /\ at'[w] # "decrease"
      BY <2>3, <2>9, <2>10, <2>11, BankConstants
    <2>16. CounterInv'
      BY <2>7, <2>8, <2>13, <2>14, <2>15 DEF CounterInv
    <2> QED
      BY <1>3, <2>1, <2>12, <2>16 DEF AtomicInv
  <1> QED
    BY <1>5, <1>6, <1>7 DEF WorkInv

\* A worker leaves check.
LEMMA DoneKeeps ==
  ASSUME BankInv, NEW w \in Threads, at[w] \in CheckPlaces \ {"done"}, at' = [at EXCEPT ![w] = "done"],
         UNCHANGED <<barrierVars, lib, round, runVars, counter, ntx>>,
         lastval' \in {lastval, [lastval EXCEPT ![w] = 0]},
         error' \in {error, error \cup {w}}, lib = "atomic" => error' = error
  PROVE  WorkInv'
  <1>1. round = "check"
    BY RoundOf
  <1>2. BankTypes' /\ RoundInv'
    BY <1>1, CheckTypes DEF BankInv, WorkInv, BankTypes, CheckPlaces
  <1>3. CallsInv'
    BY <1>1, WorkStepCalls
  <1>4. AtomicInv'
    <2> SUFFICES ASSUME lib = "atomic" PROVE AtomicInv'
      BY DEF AtomicInv
    <2>1. CounterInv /\ error = {} /\ \A u \in Threads : at[u] \notin BadPlaces
      BY <1>1 DEF BankInv, WorkInv, AtomicInv
    <2>2. at'[w] = "done" /\ \A u \in Threads \ {w} : at'[u] = at[u] /\ lastval'[u] = lastval[u]
      BY DEF BankInv, WorkInv, BankTypes
    <2>3. \A u \in Threads : at'[u] \notin BadPlaces
      BY <2>1, <2>2 DEF BadPlaces
    <2>4. CounterInv'
      BY <2>1, <2>2, BankAssumption DEF CounterInv, barrierVars
    <2> QED
      BY <2>1, <2>3, <2>4 DEF AtomicInv
  <1> QED
    BY <1>2, <1>3, <1>4 DEF WorkInv

LEMMA ReturnsKeep ==
  ASSUME BankInv, NEW w \in Threads, ReturnBad(w) \/ ReturnFinal(w) \/ CheckThrows(w) PROVE WorkInv'
  <1>1. CASE ReturnBad(w)
    <2>1. lib # "atomic"
      BY <1>1 DEF ReturnBad, Return, At, BankInv, WorkInv, AtomicInv, BadPlaces
    <2> QED
      BY <1>1, <2>1, DoneKeeps DEF ReturnBad, Return, At, CheckPlaces, BadPlaces, checkVars, libVars
  <1>2. CASE ReturnFinal(w)
    <2>1. /\ at[w] = "final" /\ at' = [at EXCEPT ![w] = "done"] /\ error' \in {error, error \cup {w}} /\ pc[w] = "out"
          /\ UNCHANGED <<barrierVars, lib, round, runVars, counter, ntx, lastval>>
      BY <1>2 DEF ReturnFinal, Return, At, checkVars, libVars
    <2>2. round = "check"
      BY <2>1, RoundOf DEF CheckPlaces
    <2>3. lib = "atomic" => error' = error
      <3>1. CASE w # Leader
        BY <1>2, <3>1 DEF ReturnFinal, Return
      <3>2. ASSUME w = Leader, lib = "atomic" PROVE error' = error
        <4>1. arrived[w] = 3 /\ left[w] = 3
          BY <2>1, <2>2, Meets DEF Calls
        <4>2. \A u \in Threads : arrived[u] >= 3
          BY <4>1, <2>2, Meets
        <4>3. CounterInv
          BY <2>2, <3>2 DEF BankInv, WorkInv, AtomicInv
        <4>4. \A u \in Threads : ntx[u] = nbchecks
          BY <4>2, <4>3 DEF CounterInv
        <4>5. counter = Cardinality(ToDo(ntx))
          BY <3>2, <4>1, <4>3 DEF CounterInv
        <4>6. counter = 0
          BY <4>4, <4>5, ToDoNone
        <4> QED
          BY <1>2, <3>2, <4>6 DEF ReturnFinal, Return, SeenValue
      <3> QED
        BY <3>1, <3>2
    <2> QED
      BY <2>1, <2>3, DoneKeeps DEF CheckPlaces
  <1>3. CASE CheckThrows(w)
    <2>1. at[w] \in CheckPlaces \ {"done"}
      BY <1>3 DEF CheckThrows, CheckPlaces
    <2>2. /\ at' = [at EXCEPT ![w] = "done"] /\ lastval' = [lastval EXCEPT ![w] = 0]
          /\ UNCHANGED <<barrierVars, lib, round, runVars, counter, ntx, error>>
      BY <1>3 DEF CheckThrows, Throw, At
    <2> QED
      BY <2>1, <2>2, DoneKeeps
  <1> QED
    BY <1>1, <1>2, <1>3

LEMMA CheckKeeps == ASSUME BankInv, NEW w \in Threads, Check(w) PROVE WorkInv'
  BY InSyncKeeps, SyncCallsKeep, WriteCounterKeeps, VerifyCounterKeeps, ReadCounterKeeps,
     DecreaseCounterKeeps, ReturnsKeep
  DEF Check

-----------------------------------------------------------------------------
LEMMA StutterWork == ASSUME BankInv, UNCHANGED bankVars PROVE WorkInv'
  <1>1. UNCHANGED <<lib, round, segs, counter, at, error, ntx, count, send_id, recv_id, lastval, pc, arrived, left>>
    BY DEF bankVars, barrierVars, libVars, runVars
  <1>2. BankTypes' /\ RoundInv'
    BY <1>1 DEF BankInv, WorkInv, BankTypes, RoundInv
  <1>3. CallsInv' /\ AtomicInv'
    BY <1>1 DEF BankInv, WorkInv, CallsInv, Calls, AtomicInv, CounterInv
  <1> QED
    BY <1>2, <1>3 DEF WorkInv

LEMMA BankStep == ASSUME BankInv, [BankNext]_bankVars PROVE BankInv'
  <1>1. BarrierInv'
    BY BankBarrierStep, BarrierStep DEF BankInv
  <1>2. CASE StartRound
    BY <1>1, <1>2, StartRoundKeeps DEF BankInv
  <1>3. ASSUME NEW w \in Threads, InitWrite(w) \/ InitCheck(w) \/ Run(w) \/ Check(w) PROVE BankInv'
    BY <1>1, <1>3, InitWriteKeeps, InitCheckKeeps, RunKeeps, CheckKeeps DEF BankInv
  <1>4. CASE UNCHANGED bankVars
    BY <1>1, <1>4, StutterWork DEF BankInv
  <1> QED
    BY <1>2, <1>3, <1>4 DEF BankNext, Spin, Over

\* The invariant of the bank workload (workload.hpp): in init and in run, what the
\* segments hold; in check, how often each worker has met the others and, for an
\* atomic library, that the counter is the number of decrements still to be made.
THEOREM BankInvariance == BankSpec => []BankInv
  BY BankInitInv, BankStep, PTL DEF BankSpec

\* The books of the bank balance in every state of run, for any number of workers,
\* accounts, segments and transactions: long_tx finds every balance that is in use
\* not negative and their sum, with the parities, the initial one, through
\* transfers, additions and removals of accounts, retries and lack of memory.
THEOREM BooksBalance == BankSpec => []BankConsistent
  <1>1. BankInv => BankConsistent
    <2> SUFFICES ASSUME BankInv, round = "run" PROVE BankConsistent
      BY DEF BankConsistent
    <2>1. Good(segs)
      BY DEF BankInv, WorkInv, RoundInv
    <2>2. Consistent /\ segs # <<>>
      BY <2>1, GoodConsistent DEF Good
    <2>3. ASSUME NEW j \in 2..Len(segs) PROVE segs[j].count \in 1..nbaccounts
      <3>1. j \in 1..Len(segs) /\ segs[j] \in SegType /\ GoodSegment(segs[j])
        BY <2>1 DEF Good
      <3>2. segs[j].count \in 0..nbaccounts /\ segs[j].count >= 1
        BY <3>1 DEF SegType, GoodSegment
      <3> QED
        BY <3>2, BankConstants
    <2> QED
      BY <2>2, <2>3 DEF BankConsistent
  <1> QED
    BY BankInvariance, <1>1, PTL

\* The workload reports no error of a library whose transactions are atomic, for
\* any number of workers and transactions: the sums of run are right, the counter
\* of check only goes down between two reads of a worker and ends at zero.
THEOREM AtomicNeverAccused == BankSpec => []NoFalseAlarm
  <1>1. BankInv => NoFalseAlarm
    BY DEF BankInv, WorkInv, AtomicInv, NoFalseAlarm
  <1> QED
    BY BankInvariance, <1>1, PTL

=============================================================================
