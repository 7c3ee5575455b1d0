------------------------- MODULE VersionedWriteLock -------------------------
(***************************************************************************)
(* One VersionedWriteLock used by several threads, every atomic access to  *)
(* the word a step of its own.  lock() is a load and a compare-exchange,   *)
(* unlock() a load and a store, setVersion() a store; isLocked() and       *)
(* getVersion() are loads that change nothing.  A thread calls unlock() or *)
(* setVersion() only after a successful lock(), as tm_end does.            *)
(***************************************************************************)
EXTENDS LockWord

CONSTANTS
  Threads,
  NoThread,     \* the abstract lock's "nobody"
  MaxVersion    \* bound: versions a holder may publish

ASSUME LockAssumption ==
  /\ NoThread \notin Threads
  /\ MaxVersion \in Nat

VARIABLES
  version_and_lock,   \* the atomic word
  pc,                 \* where each thread is
  reg                 \* the local of lock() and unlock() computed from the load

vars == <<version_and_lock, pc, reg>>

Init ==
  /\ version_and_lock = 0
  /\ pc = [t \in Threads |-> "out"]
  /\ reg = [t \in Threads |-> 0]

Goto(t, from, to) ==
  /\ pc[t] = from
  /\ pc' = [pc EXCEPT ![t] = to]

\* lock(): load the word and clear the lock bit in the local copy.
LockLoad(t) ==
  /\ Goto(t, "out", "cas")
  /\ reg' = [reg EXCEPT ![t] = lockExpected(version_and_lock)]
  /\ UNCHANGED version_and_lock

\* Mutant of LockCAS: test and set as two accesses, the test being the load.
LockCASBlind(t) ==
  /\ Goto(t, "cas", "in")
  /\ version_and_lock' = lockDesired(reg[t])
  /\ reg' = [reg EXCEPT ![t] = 0]

\* lock(): the compare-exchange found the expected word.
LockCAS(t) ==
  /\ Goto(t, "cas", "in")
  /\ version_and_lock = reg[t]
  /\ version_and_lock' = lockDesired(reg[t])
  /\ reg' = [reg EXCEPT ![t] = 0]

\* lock(): the compare-exchange failed; the weak form may also fail when the
\* word is the expected one.
LockFail(t) ==
  /\ Goto(t, "cas", "out")
  /\ reg' = [reg EXCEPT ![t] = 0]
  /\ UNCHANGED version_and_lock

\* unlock(): load the word and clear the lock bit in the local copy.
UnlockLoad(t) ==
  /\ Goto(t, "in", "store")
  /\ reg' = [reg EXCEPT ![t] = unlockValue(version_and_lock)]
  /\ UNCHANGED version_and_lock

\* unlock(): store the local copy.
UnlockStore(t) ==
  /\ Goto(t, "store", "out")
  /\ version_and_lock' = reg[t]
  /\ reg' = [reg EXCEPT ![t] = 0]

\* setVersion(v): v comes from the global clock, so it is newer than the
\* version the holder found.
SetVersion(t, v) ==
  /\ Goto(t, "in", "out")
  /\ v > getVersion(version_and_lock)
  /\ version_and_lock' = setVersionValue(v)
  /\ UNCHANGED reg

Next ==
  \E t \in Threads :
    \/ LockLoad(t)
    \/ LockCAS(t)
    \/ LockFail(t)
    \/ UnlockLoad(t)
    \/ UnlockStore(t)
    \/ \E v \in 1..MaxVersion : SetVersion(t, v)

Spec == Init /\ [][Next]_vars

-----------------------------------------------------------------------------
\* The threads between a successful lock() and the end of their release.
Holders == {t \in Threads : pc[t] \in {"in", "store"}}

\* Types of the word and of the threads' locals; the word never exceeds the
\* last version with the lock bit set.
TypeOK ==
  /\ version_and_lock \in 0..(2 * MaxVersion + 1)
  /\ pc \in [Threads -> {"out", "cas", "in", "store"}]
  /\ reg \in [Threads -> 0..(2 * MaxVersion)]

(***************************************************************************)
(* The two-access lock() and unlock() of data-structures.cpp implement the *)
(* one-step lock of AtomicLock: the holder is the thread that is between   *)
(* lock() and its release, the version is the upper part of the word.      *)
(***************************************************************************)
Holder == IF Holders = {} THEN NoThread ELSE CHOOSE t \in Threads : t \in Holders

Atomic == INSTANCE AtomicLock
            WITH holder <- Holder, version <- getVersion(version_and_lock)

\* The lock implements AtomicLock: whatever the interleaving of the loads,
\* compare-exchanges and stores, every change of the word is an acquisition
\* by one thread, or its release with the version kept or advanced.
ImplementsAtomicLock == Atomic!ASpec

=============================================================================
