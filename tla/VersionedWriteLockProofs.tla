---------------------- MODULE VersionedWriteLockProofs ----------------------
(***************************************************************************)
(* Theorems about VersionedWriteLock: for any set of threads and as long   *)
(* as versions fit in "unsigned int" shifted by one, lock(), unlock() and  *)
(* setVersion() implement the one-step lock of AtomicLock.                 *)
(***************************************************************************)
EXTENDS VersionedWriteLock, TLAPS

\* Every lock word fits in an unsigned int: unlock() loses no bit.
NoWrap == 2 * MaxVersion + 1 < UintSpan

\* The lock bit is set exactly while one thread holds the lock; a thread at its
\* compare-exchange expects a free word, and one at the store of unlock() is
\* about to store the word it holds, lock bit cleared.
LockInv ==
  /\ TypeOK
  /\ isLocked(version_and_lock) <=> Holders # {}
  /\ \A t, u \in Holders : t = u
  /\ \A t \in Threads : pc[t] = "cas" => ~isLocked(reg[t])
  /\ \A t \in Threads : pc[t] = "store" => reg[t] = lockExpected(version_and_lock)

\* The arithmetic of the lock word.
LEMMA WordFacts ==
  ASSUME NEW w \in 0..(2 * MaxVersion + 1), NoWrap
  PROVE  /\ lockExpected(w) \in 0..(2 * MaxVersion)
         /\ lockDesired(w) \in 0..(2 * MaxVersion + 1)
         /\ unlockValue(w) = lockExpected(w)
         /\ ~isLocked(lockExpected(w))
         /\ isLocked(lockDesired(w))
         /\ ~isLocked(w) => lockDesired(w) = w + 1 /\ lockExpected(w) = w
         /\ getVersion(lockDesired(w)) = getVersion(w)
         /\ getVersion(lockExpected(w)) = getVersion(w)
  BY LockAssumption, UintSpanAssumption
  DEF NoWrap, lockExpected, lockDesired, unlockValue, isLocked, getVersion

LEMMA VersionFacts ==
  ASSUME NEW v \in 1..MaxVersion
  PROVE  /\ setVersionValue(v) \in 0..(2 * MaxVersion + 1)
         /\ ~isLocked(setVersionValue(v))
         /\ getVersion(setVersionValue(v)) = v
  BY LockAssumption DEF setVersionValue, isLocked, getVersion

LEMMA LockInit == Init => LockInv
  BY LockAssumption DEF Init, LockInv, TypeOK, Holders, isLocked

\* Thread t leaves the lock, or takes it, and nobody else moves.
LEMMA HoldersAfter ==
  ASSUME TypeOK, NEW t \in Threads, NEW p, pc' = [pc EXCEPT ![t] = p]
  PROVE  Holders' = IF p \in {"in", "store"} THEN Holders \cup {t} ELSE Holders \ {t}
  BY DEF TypeOK, Holders

LEMMA LockNext ==
  ASSUME NoWrap, LockInv, [Next]_vars
  PROVE  LockInv'
<1> USE DEF LockInv
<1>0. TypeOK
  OBVIOUS
<1>1. ASSUME NEW t \in Threads, LockLoad(t) PROVE LockInv'
  <2>1. Holders' = Holders
    BY <1>0, <1>1, HoldersAfter DEF LockLoad, Goto, Holders
  <2>2. TypeOK'
    BY <1>0, <1>1, WordFacts DEF LockLoad, Goto, TypeOK
  <2> QED
    BY <1>0, <1>1, <2>1, <2>2, WordFacts DEF LockLoad, Goto, TypeOK
<1>2. ASSUME NEW t \in Threads, LockCAS(t) PROVE LockInv'
  <2>1. ~isLocked(version_and_lock) /\ Holders = {}
    BY <1>2 DEF LockCAS, Goto
  <2>2. Holders' = {t}
    BY <1>0, <1>2, <2>1, HoldersAfter DEF LockCAS, Goto
  <2>3. TypeOK'
    BY <1>0, <1>2, WordFacts, LockAssumption DEF LockCAS, Goto, TypeOK
  <2>4. isLocked(version_and_lock')
    BY <1>0, <1>2, WordFacts DEF LockCAS, TypeOK
  <2>5. \A u \in Threads : /\ pc'[u] # "store"
                           /\ pc'[u] = "cas" => ~isLocked(reg'[u])
    BY <1>0, <1>2, <2>1 DEF LockCAS, Goto, TypeOK, Holders
  <2> QED
    BY <2>2, <2>3, <2>4, <2>5
<1>3. ASSUME NEW t \in Threads, LockFail(t) PROVE LockInv'
  <2>1. Holders' = Holders
    BY <1>0, <1>3, HoldersAfter DEF LockFail, Goto, Holders
  <2>2. TypeOK'
    BY <1>0, <1>3, LockAssumption DEF LockFail, Goto, TypeOK
  <2> QED
    BY <1>0, <1>3, <2>1, <2>2 DEF LockFail, Goto, TypeOK
<1>4. ASSUME NEW t \in Threads, UnlockLoad(t) PROVE LockInv'
  <2>1. Holders' = Holders
    BY <1>0, <1>4, HoldersAfter DEF UnlockLoad, Goto, Holders
  <2>2. TypeOK'
    BY <1>0, <1>4, WordFacts DEF UnlockLoad, Goto, TypeOK
  <2> QED
    BY <1>0, <1>4, <2>1, <2>2, WordFacts DEF UnlockLoad, Goto, TypeOK
\* A release: the word becomes a free one.
<1>5. ASSUME NEW t \in Threads, pc[t] \in {"in", "store"}, pc' = [pc EXCEPT ![t] = "out"],
             version_and_lock' \in 0..(2 * MaxVersion + 1), ~isLocked(version_and_lock'),
             reg' = reg \/ reg' = [reg EXCEPT ![t] = 0]
      PROVE  LockInv'
  <2>1. Holders = {t}
    BY <1>5 DEF Holders
  <2>2. Holders' = {}
    BY <1>0, <1>5, <2>1, HoldersAfter
  <2>3. TypeOK'
    BY <1>0, <1>5, LockAssumption DEF TypeOK
  <2>4. \A u \in Threads : /\ pc'[u] # "store"
                           /\ pc'[u] = "cas" => ~isLocked(reg'[u])
    BY <1>0, <1>5, <2>1 DEF TypeOK, Holders
  <2> QED
    BY <1>5, <2>2, <2>3, <2>4
<1>6. ASSUME NEW t \in Threads, UnlockStore(t) PROVE LockInv'
  <2>1. version_and_lock' = lockExpected(version_and_lock)
    BY <1>6 DEF UnlockStore, Goto
  <2>2. version_and_lock' \in 0..(2 * MaxVersion + 1) /\ ~isLocked(version_and_lock')
    BY <1>0, <2>1, WordFacts, LockAssumption DEF TypeOK
  <2> QED
    BY <1>5, <1>6, <2>2 DEF UnlockStore, Goto
<1>7. ASSUME NEW t \in Threads, NEW v \in 1..MaxVersion, SetVersion(t, v) PROVE LockInv'
  BY <1>5, <1>7, VersionFacts DEF SetVersion, Goto
<1>8. CASE UNCHANGED vars
  BY <1>8 DEF vars, TypeOK, Holders
<1> QED
  BY <1>1, <1>2, <1>3, <1>4, <1>6, <1>7, <1>8 DEF Next

\* The lock word of a VersionedWriteLock and its threads' locals stay in range.
THEOREM LockTypeCorrect == NoWrap => (Spec => []TypeOK)
<1> SUFFICES ASSUME NoWrap PROVE Spec => []TypeOK
  OBVIOUS
<1>1. LockInv /\ [Next]_vars => LockInv'
  BY LockNext
<1>2. LockInv => TypeOK
  BY DEF LockInv
<1> QED
  BY <1>1, <1>2, LockInit, PTL DEF Spec

-----------------------------------------------------------------------------
\* The holder of the abstract lock is the one thread that holds the lock.
HolderKnown ==
  /\ Holders = {} => Holder = NoThread
  /\ \A t \in Holders : Holder = t

LEMMA HolderFacts == LockInv => HolderKnown
<1> SUFFICES ASSUME LockInv PROVE HolderKnown
  OBVIOUS
<1>1. Holders = {} => Holder = NoThread
  BY DEF Holder
<1>2. ASSUME NEW t \in Holders PROVE Holder = t
  <2>1. \E u \in Threads : u \in Holders
    BY <1>2 DEF Holders
  <2>2. Holder \in Holders
    BY <1>2, <2>1 DEF Holder
  <2> QED
    BY <1>2, <2>2 DEF LockInv
<1> QED
  BY <1>1, <1>2 DEF HolderKnown

LEMMA HolderFactsNext == LockInv' => HolderKnown'
  BY HolderFacts, PTL

LEMMA InitRefines == Init => Atomic!AInit
<1> SUFFICES ASSUME Init PROVE Atomic!AInit
  OBVIOUS
<1>1. Holder = NoThread
  BY LockInit, HolderFacts DEF Init, Holders, HolderKnown
<1>2. getVersion(version_and_lock) = 0
  BY DEF Init, getVersion
<1> QED
  BY <1>1, <1>2 DEF Atomic!AInit

\* A step that keeps the holders and the version is a stutter.
LEMMA Stutters ==
  ASSUME Holders' = Holders,
         getVersion(version_and_lock') = getVersion(version_and_lock)
  PROVE  UNCHANGED Atomic!avars
  BY DEF Atomic!avars, Holder

LEMMA NextRefines ==
  ASSUME NoWrap, LockInv, [Next]_vars
  PROVE  [Atomic!ANext]_Atomic!avars
<1>0. TypeOK /\ LockInv'
  BY LockNext DEF LockInv
<1>1. ASSUME NEW t \in Threads, LockLoad(t) \/ LockFail(t) \/ UnlockLoad(t)
      PROVE  UNCHANGED Atomic!avars
  <2>1. Holders' = Holders /\ version_and_lock' = version_and_lock
    BY <1>0, <1>1, HoldersAfter DEF LockLoad, LockFail, UnlockLoad, Goto, Holders
  <2> QED
    BY <2>1, Stutters
<1>2. ASSUME NEW t \in Threads, LockCAS(t) PROVE Atomic!Acquire(t)
  <2>1. Holders = {}
    BY <1>2 DEF LockCAS, Goto, LockInv
  <2>2. t \in Holders'
    BY <1>0, <1>2, HoldersAfter DEF LockCAS, Goto
  <2>3. Holder = NoThread /\ Holder' = t
    BY <1>0, <2>1, <2>2, HolderFacts, HolderFactsNext DEF HolderKnown
  <2>4. getVersion(version_and_lock') = getVersion(version_and_lock)
    BY <1>0, <1>2, WordFacts DEF LockCAS, TypeOK
  <2> QED
    BY <2>3, <2>4 DEF Atomic!Acquire
<1>3. ASSUME NEW t \in Threads, pc[t] \in {"in", "store"}, pc' = [pc EXCEPT ![t] = "out"]
      PROVE  Holder = t /\ Holder' = NoThread
  <2>1. t \in Holders /\ Holders = {t}
    BY <1>3 DEF Holders, LockInv
  <2>2. Holders' = {}
    BY <1>0, <1>3, <2>1, HoldersAfter
  <2> QED
    BY <1>0, <2>1, <2>2, HolderFacts, HolderFactsNext DEF HolderKnown
<1>4. ASSUME NEW t \in Threads, UnlockStore(t) PROVE Atomic!Release(t)
  <2>1. version_and_lock' = lockExpected(version_and_lock)
    BY <1>4 DEF UnlockStore, Goto, LockInv
  <2>2. getVersion(version_and_lock') = getVersion(version_and_lock)
    BY <1>0, <2>1, WordFacts DEF TypeOK
  <2> QED
    BY <1>3, <1>4, <2>2 DEF UnlockStore, Goto, Atomic!Release
<1>5. ASSUME NEW t \in Threads, NEW v \in 1..MaxVersion, SetVersion(t, v)
      PROVE  Atomic!Publish(t, v)
  BY <1>3, <1>5, VersionFacts DEF SetVersion, Goto, Atomic!Publish
<1>6. CASE UNCHANGED vars
  <2>1. Holders' = Holders /\ version_and_lock' = version_and_lock
    BY <1>6 DEF vars, Holders
  <2> QED
    BY <2>1, Stutters
<1> QED
  BY <1>1, <1>2, <1>4, <1>5, <1>6 DEF Next, Atomic!ANext

\* lock() as a load and a compare-exchange, unlock() as a load and a store and
\* setVersion() as a store implement the one-step lock that TL2 uses, for any
\* number of threads and whatever the interleaving, while versions fit.
THEOREM LockRefines == NoWrap => (Spec => ImplementsAtomicLock)
<1> SUFFICES ASSUME NoWrap PROVE Spec => ImplementsAtomicLock
  OBVIOUS
<1>1. LockInv /\ [Next]_vars => LockInv'
  BY LockNext
<1>2. LockInv /\ [Next]_vars => [Atomic!ANext]_Atomic!avars
  BY NextRefines
<1> QED
  BY <1>1, <1>2, LockInit, InitRefines, PTL DEF Spec, ImplementsAtomicLock, Atomic!ASpec

=============================================================================
