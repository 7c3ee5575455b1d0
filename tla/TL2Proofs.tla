----------------------------- MODULE TL2Proofs ------------------------------
(***************************************************************************)
(* Theorems about TL2, for any set of threads, any memory, any number of   *)
(* locks and a clock without bound.                                        *)
(***************************************************************************)
EXTENDS TL2, TLAPS

-----------------------------------------------------------------------------
\* The addresses in the registers of a call belong to the memory: a loop of
\* tm_read stays inside the words the client named, and a loop of tm_end works
\* on a word that it has still to visit.
RegistersOf(t) ==
  /\ pc[t] \in ReadSteps => word[t] <= last[t] /\ word[t]..last[t] \subseteq Addr
  /\ pc[t] \in {"validate_version", "set_version"} => word[t] \in todo[t]
  /\ pc[t] \in {"lock", "write", "set_version"} => todo[t] \subseteq WriteDom(t)

Registers == \A t \in Thread : RegistersOf(t)

\* The locks of the words of a set.
LocksOf(S) == {LockOf(a) : a \in S}

\* locks_held is what it says: nothing before the locking loop, then the locks
\* of the words visited, then those of the whole write set.
HeldOf(t) ==
  /\ pc[t] \in {"idle", "ready"} \cup ReadSteps => held[t] = {}
  /\ pc[t] = "lock" => held[t] = LocksOf(WriteDom(t) \ todo[t])
  /\ pc[t] \in {"clock", "validate", "validate_version"} => held[t] = LocksOf(WriteDom(t))
  /\ ClashFree => NoClash(WriteDom(t))

\* The inductive invariant.
Inv ==
  /\ TypeOK
  /\ Registers
  /\ \A t \in Thread : HeldOf(t)
  /\ ClashFree => LockOwnership

\* The lock that protects an address is one of the region.
LEMMA LockOfType == \A a \in Addr : LockOf(a) \in Lock
  BY TL2Assumption DEF Addr, LockOf, Lock

LEMMA ReadRegisters ==
  ASSUME TypeOK, Registers, NEW t \in Thread, pc[t] \in ReadSteps
  PROVE  /\ word[t] \in Addr
         /\ word[t] \in Nat
         /\ last[t] \in Nat
         /\ word[t] < last[t] => word[t] + 1 \in Addr
<1>1. word[t] \in Nat /\ last[t] \in Nat
  <2>1. \A x \in Addr \cup {0} : x \in Nat
    BY TL2Assumption DEF Addr
  <2>2. word[t] \in Addr \cup {0} /\ last[t] \in Addr \cup {0}
    BY DEF TypeOK
  <2> QED
    BY <2>1, <2>2, Zenon
<1>2. word[t] <= last[t] /\ word[t]..last[t] \subseteq Addr
  BY DEF Registers, RegistersOf
<1> QED
  BY <1>1, <1>2

\* What the operations put in a lock word is a word.
LEMMA LockWordType ==
  ASSUME NEW w \in Nat
  PROVE  /\ lockExpected(w) \in Nat
         /\ lockDesired(w) \in Nat
         /\ unlockValue(w) \in Nat
         /\ setVersionValue(w) \in Nat
         /\ getVersion(w) \in Nat
  BY UintSpanAssumption DEF lockExpected, lockDesired, unlockValue, setVersionValue, getVersion

LEMMA WriteDomType ==
  ASSUME TypeOK, NEW t \in Thread
  PROVE  /\ WriteDom(t) \subseteq Addr
         /\ \A a \in WriteDom(t) : write_set[t][a] \in Val
  BY DEF TypeOK, WriteDom

LEMMA InitType == Init => TypeOK
  BY TL2Assumption, LockOfType DEF Init, TypeOK, Steps, Addr

LEMMA DeleteTxnType ==
  ASSUME TypeOK, NEW t \in Thread, NEW segs \in SUBSET Heap, DeleteTxn(t, segs),
         locks' \in [Lock -> Nat], mem' = mem, gvc' = gvc,
         seg_list' \in SUBSET Heap, list_lock' \in Thread \cup {NoThread}
  PROVE  TypeOK'
  BY TL2Assumption DEF TypeOK, DeleteTxn, FreeSegments, Set, Steps

LEMMA CallType ==
  ASSUME TypeOK, NEW t \in Thread, Call(t)
  PROVE  TypeOK'
<1> USE DEF Set, vars, sharedVars, txnVars, callVars, readRegs, endRegs, histVars
<1>1. ASSUME NEW ro \in BOOLEAN, tm_begin(t, ro) PROVE TypeOK'
  BY <1>1 DEF tm_begin, TypeOK, Steps
<1>2. ASSUME NEW a \in Addr, NEW n \in 1..MaxLen, tm_read(t, a, n) PROVE TypeOK'
  <2>1. a + n - 1 \in Addr
    <3>1. a + n - 1 \in Words(a, n)
      BY TL2Assumption DEF Words, Addr
    <3>2. Accessible(t) \subseteq Addr
      BY DEF Accessible, TypeOK, Addr
    <3> QED
      BY <3>1, <3>2, <1>2 DEF tm_read
  <2> QED
    BY <1>2, <2>1 DEF tm_read, TypeOK, Steps, ReadSteps
<1>3. ASSUME NEW a \in Addr, NEW n \in 1..MaxLen, tm_write(t, a, n) PROVE TypeOK'
  <2>1. PICK val \in [Words(a, n) -> Val] :
          write_set' = Set(write_set, t,
            [b \in Addr |-> IF b \in Words(a, n) THEN val[b] ELSE write_set[t][b]])
    BY <1>3 DEF tm_write
  <2> QED
    BY <1>3, <2>1 DEF tm_write, TypeOK
<1>4. ASSUME NEW s \in Heap, tm_alloc(t, s) PROVE TypeOK'
  BY <1>4, TL2Assumption DEF tm_alloc, TypeOK, Addr
<1>5. ASSUME NEW s \in Heap, tm_free(t, s) PROVE TypeOK'
  BY <1>5 DEF tm_free, TypeOK
<1>6. CASE tm_end(t)
  <2>1. CASE is_ro[t]
    <3>1. txn_segs[t] \in SUBSET Heap
      BY DEF TypeOK
    <3> QED
      BY <1>6, <2>1, <3>1, DeleteTxnType DEF tm_end, TypeOK
  <2>2. CASE ~is_ro[t]
    <3>1. WriteDom(t) \in SUBSET Addr
      BY WriteDomType
    <3>2. \E p \in Steps, d \in SUBSET Addr : pc' = [pc EXCEPT ![t] = p] /\ todo' = [todo EXCEPT ![t] = d]
      BY <1>6, <2>2, <3>1 DEF tm_end, Steps, TrySteps
    <3> QED
      BY <1>6, <2>2, <3>2 DEF tm_end, TypeOK
  <2> QED
    BY <2>1, <2>2
<1> QED
  BY <1>1, <1>2, <1>3, <1>4, <1>5, <1>6 DEF Call

LEMMA AbortType ==
  ASSUME TypeOK, NEW t \in Thread, Abort(t), locks' \in [Lock -> Nat],
         UNCHANGED <<gvc, mem, seg_list, list_lock>>
  PROVE  TypeOK'
<1>1. txn_segs[t] \in SUBSET Heap
  BY DEF TypeOK
<1>2. DeleteTxn(t, txn_segs[t])
  BY DEF Abort
<1> QED
  BY <1>1, <1>2, DeleteTxnType DEF TypeOK

LEMMA WordReadType ==
  ASSUME TypeOK, Registers, NEW t \in Thread, pc[t] = "post_locked", WordRead(t)
  PROVE  TypeOK'
<1>1. word[t] \in Addr /\ (word[t] < last[t] => word[t] + 1 \in Addr)
  BY ReadRegisters DEF ReadSteps
<1>2. /\ read_set' \in [Thread -> SUBSET Addr]
      /\ reads' \in [Thread -> SUBSET (Addr \X Val)]
      /\ raced' \in [Thread -> BOOLEAN]
  BY <1>1 DEF WordRead, TypeOK, Set
<1>3. /\ pc' \in [Thread -> Steps]
      /\ word' \in [Thread -> Addr \cup {0}]
      /\ last' \in [Thread -> Addr \cup {0}]
  <2>0. /\ pc \in [Thread -> Steps]
        /\ word \in [Thread -> Addr \cup {0}]
        /\ last \in [Thread -> Addr \cup {0}]
        /\ {"pre_version", "ready"} \subseteq Steps
    BY DEF TypeOK, Steps, ReadSteps
  <2>1. CASE word[t] < last[t]
    <3>1. /\ pc' = [pc EXCEPT ![t] = "pre_version"]
          /\ word' = [word EXCEPT ![t] = word[t] + 1]
          /\ last' = last
      BY <2>1 DEF WordRead, Set
    <3> QED
      BY <1>1, <2>0, <2>1, <3>1
  <2>2. CASE ~(word[t] < last[t])
    <3>1. /\ pc' = [pc EXCEPT ![t] = "ready"]
          /\ word' = [word EXCEPT ![t] = 0]
          /\ last' = [last EXCEPT ![t] = 0]
      BY <2>2 DEF WordRead, Set
    <3> QED
      BY <2>0, <3>1
  <2> QED
    BY <2>1, <2>2
<1>4. /\ ver' \in [Thread -> Nat]
      /\ new_ver' \in [Thread -> Nat]
      /\ got' \in [Thread -> Val]
  BY TL2Assumption DEF WordRead, TypeOK, Set
<1> QED
  BY <1>2, <1>3, <1>4 DEF WordRead, TypeOK, sharedVars, endRegs

LEMMA ReadStepType ==
  ASSUME TypeOK, Registers, NEW t \in Thread,
         PreVersion(t) \/ PreLocked(t) \/ Copy(t) \/ PostVersion(t) \/ PostLocked(t)
  PROVE  TypeOK'
<1> USE DEF Set, sharedVars, txnVars, readRegs, endRegs, histVars
<1>0. /\ pc[t] \in ReadSteps => word[t] \in Addr
      /\ word[t] \in Addr => /\ LockAt(word[t]) \in Nat
                             /\ getVersion(LockAt(word[t])) \in Nat
  <2>1. pc[t] \in ReadSteps => word[t] \in Addr
    BY ReadRegisters
  <2>2. word[t] \in Addr => LockAt(word[t]) \in Nat
    BY LockOfType DEF LockAt, TypeOK
  <2> QED
    BY <2>1, <2>2, LockWordType
<1>1. CASE PreVersion(t)
  BY <1>0, <1>1 DEF PreVersion, TypeOK, Steps, ReadSteps
<1>2. CASE PreLocked(t)
  <2>1. CASE Abort(t) /\ UNCHANGED <<gvc, locks, mem, seg_list, list_lock>>
    BY <2>1, AbortType DEF TypeOK
  <2>2. CASE ~PreValidateFails(t)
    BY <1>2, <2>2 DEF PreLocked, TypeOK, Steps, ReadSteps
  <2> QED
    BY <1>2, <2>1, <2>2 DEF PreLocked
<1>3. CASE Copy(t)
  <2>1. (IF ReadsOwnWrite(t) THEN write_set[t][word[t]] ELSE mem[word[t]]) \in Val
    BY <1>0, <1>3 DEF Copy, ReadsOwnWrite, TypeOK, ReadSteps
  <2> QED
    BY <1>3, <2>1 DEF Copy, TypeOK, Steps, ReadSteps
<1>4. CASE PostVersion(t)
  BY <1>0, <1>4 DEF PostVersion, TypeOK, Steps, ReadSteps
<1>5. CASE PostLocked(t)
  <2>1. CASE Abort(t) /\ UNCHANGED <<gvc, locks, mem, seg_list, list_lock>>
    BY <2>1, AbortType DEF TypeOK
  <2>2. CASE WordRead(t)
    BY <1>5, <2>2, WordReadType DEF PostLocked
  <2> QED
    BY <1>5, <2>1, <2>2 DEF PostLocked
<1> QED
  BY <1>1, <1>2, <1>3, <1>4, <1>5

LEMMA GiveUpType ==
  ASSUME TypeOK, NEW t \in Thread, GiveUp(t)
  PROVE  TypeOK'
<1>1. CASE held[t] = {}
  BY <1>1, AbortType DEF GiveUp, TypeOK
<1>2. CASE held[t] # {}
  BY <1>2 DEF GiveUp, TypeOK, Set, Steps, TrySteps, sharedVars, txnVars, readRegs, histVars
<1> QED
  BY <1>1, <1>2

LEMMA CommitType ==
  ASSUME TypeOK, NEW t \in Thread, NEW v \in Nat, Commit(t, v), gvc' \in Nat,
         wv' \in [Thread -> Nat]
  PROVE  TypeOK'
<1>1. hist' \in [Addr -> SUBSET (Nat \X Val)]
  BY WriteDomType DEF Commit, TypeOK
<1>2. \E p \in Steps, d \in SUBSET Addr : pc' = [pc EXCEPT ![t] = p] /\ todo' = [todo EXCEPT ![t] = d]
  <2>1. WriteDom(t) \in SUBSET Addr
    BY WriteDomType
  <2> QED
    BY <2>1 DEF Commit, Set, Steps, CommitSteps
<1>3. pc' \in [Thread -> Steps] /\ todo' \in [Thread -> SUBSET Addr]
  BY <1>2 DEF TypeOK
<1>4. word' \in [Thread -> Addr \cup {0}] /\ published' \subseteq Heap
  BY DEF Commit, TypeOK, Set
<1> QED
  BY <1>1, <1>3, <1>4 DEF Commit, TypeOK, txnVars, readRegs

LEMMA LockStepType ==
  ASSUME TypeOK, NEW t \in Thread, NEW a \in Addr,
         LockTaken(t, a) \/ LockMine(t, a) \/ LockBusy(t, a)
  PROVE  TypeOK'
<1> USE DEF Set, txnVars, readRegs, histVars
<1>1. CASE LockTaken(t, a)
  <2>1. LockOf(a) \in Lock /\ locks' \in [Lock -> Nat]
    BY <1>1, LockOfType, LockWordType DEF LockTaken, TypeOK
  <2>2. \E p \in Steps : pc' = [pc EXCEPT ![t] = p]
    BY <1>1 DEF LockTaken, LockedWord, Steps, TrySteps
  <2> QED
    BY <1>1, <2>1, <2>2 DEF LockTaken, LockedWord, TypeOK
<1>2. CASE LockMine(t, a)
  <2>1. \E p \in Steps : pc' = [pc EXCEPT ![t] = p]
    BY <1>2 DEF LockMine, LockedWord, Steps, TrySteps
  <2> QED
    BY <1>2, <2>1 DEF LockMine, LockedWord, TypeOK
<1>3. CASE LockBusy(t, a)
  BY <1>3, GiveUpType DEF LockBusy
<1> QED
  BY <1>1, <1>2, <1>3

LEMMA UnlockType ==
  ASSUME TypeOK, NEW t \in Thread, NEW l \in Lock, Unlock(t, l)
  PROVE  TypeOK'
<1>1. locks' \in [Lock -> Nat]
  BY LockWordType DEF Unlock, TypeOK
<1>2. CASE held[t] = {l}
  BY <1>1, <1>2, AbortType DEF Unlock
<1>3. CASE held[t] # {l}
  <2>1. /\ held' = [held EXCEPT ![t] = held[t] \ {l}]
        /\ UNCHANGED <<gvc, mem, seg_list, list_lock, live, alive, txnVars,
                       pc, word, readRegs, todo, wv, histVars>>
    BY <1>3 DEF Unlock, Set
  <2>2. held' \in [Thread -> SUBSET Lock]
    BY <2>1 DEF TypeOK
  <2> QED
    BY <1>1, <2>1, <2>2 DEF TypeOK, txnVars, readRegs, histVars
<1> QED
  BY <1>2, <1>3

LEMMA ClockType ==
  ASSUME TypeOK, NEW t \in Thread, IncrementClock(t)
  PROVE  TypeOK'
<1>1. gvc' \in Nat /\ gvc + 1 \in Nat /\ wv' \in [Thread -> Nat]
  BY DEF IncrementClock, TypeOK, Set
<1>2. CASE Commit(t, gvc + 1)
  BY <1>1, <1>2, CommitType
<1>3. CASE ~(NobodyCommitted(t) \/ read_set[t] = {})
  BY <1>1, <1>3 DEF IncrementClock, TypeOK, Set, Steps, TrySteps, txnVars, readRegs, histVars
<1> QED
  BY <1>2, <1>3 DEF IncrementClock

LEMMA CheckVersionType ==
  ASSUME TypeOK, NEW t \in Thread, NEW a \in Addr, CheckVersion(t, a)
  PROVE  TypeOK'
<1>1. CASE GiveUp(t)
  BY <1>1, GiveUpType
<1>2. CASE UNCHANGED <<gvc, wv>> /\ Commit(t, wv[t])
  BY <1>2, CommitType DEF TypeOK
<1>3. CASE getVersion(LockAt(a)) <= rv[t] /\ todo[t] # {a}
  <2>1. ~(getVersion(LockAt(a)) > rv[t])
    <3>1. LockAt(a) \in Nat /\ rv[t] \in Nat
      BY LockOfType DEF LockAt, TypeOK
    <3> QED
      BY <1>3, <3>1, LockWordType
  <2>2. /\ pc' = [pc EXCEPT ![t] = "validate"]
        /\ todo' = [todo EXCEPT ![t] = todo[t] \ {a}]
        /\ word' = [word EXCEPT ![t] = 0]
        /\ UNCHANGED <<sharedVars, txnVars, readRegs, held, wv, histVars>>
    BY <1>3, <2>1 DEF CheckVersion, Set, sharedVars
  <2> QED
    BY <2>2 DEF TypeOK, Steps, TrySteps, sharedVars, txnVars, readRegs, histVars
<1> QED
  BY <1>1, <1>2, <1>3 DEF CheckVersion

LEMMA ValidateType ==
  ASSUME TypeOK, Registers, NEW t \in Thread,
         \/ ValidateVersion(t)
         \/ \E a \in Addr : ValidateLocked(t, a) \/ ValidateMine(t, a)
  PROVE  TypeOK'
<1>1. CASE ValidateVersion(t)
  <2>1. word[t] \in Addr
    BY <1>1 DEF ValidateVersion, Registers, RegistersOf, TypeOK
  <2> QED
    BY <1>1, <2>1, CheckVersionType DEF ValidateVersion
<1>2. ASSUME NEW a \in Addr, ValidateLocked(t, a) PROVE TypeOK'
  <2>1. CASE GiveUp(t)
    BY <2>1, GiveUpType
  <2>2. CASE ~isLocked(LockAt(a))
    <3>1. /\ pc' = [pc EXCEPT ![t] = "validate_version"]
          /\ word' = [word EXCEPT ![t] = a]
          /\ UNCHANGED <<sharedVars, txnVars, readRegs, endRegs, histVars>>
      BY <1>2, <2>2 DEF ValidateLocked, Set
    <3> QED
      BY <3>1 DEF TypeOK, Steps, TrySteps, sharedVars, txnVars, readRegs, endRegs, histVars
  <2> QED
    BY <1>2, <2>1, <2>2 DEF ValidateLocked
<1>3. ASSUME NEW a \in Addr, ValidateMine(t, a) PROVE TypeOK'
  BY <1>3, CheckVersionType DEF ValidateMine
<1> QED
  BY <1>1, <1>2, <1>3

LEMMA WriteBackType ==
  ASSUME TypeOK, Registers, NEW t \in Thread,
         SetVersion(t) \/ \E a \in Addr : WriteBack(t, a)
  PROVE  TypeOK'
<1>1. ASSUME NEW a \in Addr, WriteBack(t, a) PROVE TypeOK'
  <2>1. write_set[t][a] \in Val
    BY <1>1, WriteDomType DEF WriteBack, Registers, RegistersOf
  <2> QED
    BY <1>1, <2>1
    DEF WriteBack, TypeOK, Set, Steps, CommitSteps, txnVars, readRegs, endRegs, histVars
<1>2. CASE SetVersion(t)
  <2>1. word[t] \in Addr /\ LockOf(word[t]) \in Lock
    BY <1>2, LockOfType DEF SetVersion, Registers, RegistersOf, TypeOK
  <2>2. locks' \in [Lock -> Nat]
    BY <1>2, <2>1, LockWordType DEF SetVersion, TypeOK
  <2>3. \E p \in Steps : pc' = [pc EXCEPT ![t] = p]
    BY <1>2 DEF SetVersion, Set, Steps, CommitSteps
  <2> QED
    BY <1>2, <2>2, <2>3 DEF SetVersion, TypeOK, Set, txnVars, readRegs, histVars
<1> QED
  BY <1>1, <1>2

LEMMA SpliceType ==
  ASSUME TypeOK, NEW t \in Thread, SpliceLock(t) \/ Splice(t)
  PROVE  TypeOK'
<1>1. CASE SpliceLock(t)
  BY <1>1 DEF SpliceLock, TypeOK, Set, Steps, CommitSteps, txnVars, readRegs, endRegs, histVars
<1>2. CASE Splice(t)
  <2>1. seg_list' \in SUBSET Heap /\ list_lock' \in Thread \cup {NoThread}
    BY <1>2 DEF Splice, TypeOK
  <2> QED
    BY <1>2, <2>1, DeleteTxnType DEF Splice, TypeOK
<1> QED
  BY <1>1, <1>2

LEMMA DestroyType ==
  ASSUME TypeOK, tm_destroy \/ Destroyed
  PROVE  TypeOK'
<1>1. CASE tm_destroy
  BY <1>1 DEF tm_destroy, FreeSegments, TypeOK, txnVars, callVars, readRegs, endRegs, histVars
<1>2. CASE Destroyed
  BY <1>2
  DEF Destroyed, TypeOK, vars, sharedVars, txnVars, callVars, readRegs, endRegs, histVars
<1> QED
  BY <1>1, <1>2

LEMMA NextType ==
  ASSUME TypeOK, Registers, [Next]_vars
  PROVE  TypeOK'
<1>1. ASSUME NEW t \in Thread, Call(t) PROVE TypeOK'
  BY <1>1, CallType
<1>2. ASSUME NEW t \in Thread, Step(t) PROVE TypeOK'
  <2>1. CASE PreVersion(t) \/ PreLocked(t) \/ Copy(t) \/ PostVersion(t) \/ PostLocked(t)
    BY <2>1, ReadStepType
  <2>2. CASE \E a \in Addr : LockTaken(t, a) \/ LockMine(t, a) \/ LockBusy(t, a)
    BY <2>2, LockStepType
  <2>3. CASE \E l \in Lock : Unlock(t, l)
    BY <2>3, UnlockType
  <2>4. CASE IncrementClock(t)
    BY <2>4, ClockType
  <2>5. CASE \/ ValidateVersion(t)
             \/ \E a \in Addr : ValidateLocked(t, a) \/ ValidateMine(t, a)
    BY <2>5, ValidateType
  <2>6. CASE SetVersion(t) \/ \E a \in Addr : WriteBack(t, a)
    BY <2>6, WriteBackType
  <2>7. CASE SpliceLock(t) \/ Splice(t)
    BY <2>7, SpliceType
  <2> QED
    BY <1>2, <2>1, <2>2, <2>3, <2>4, <2>5, <2>6, <2>7 DEF Step
<1>3. CASE tm_destroy \/ Destroyed
  BY <1>3, DestroyType
<1>4. CASE UNCHANGED vars
  BY <1>4 DEF TypeOK, vars, sharedVars, txnVars, callVars, readRegs, endRegs, histVars
<1> QED
  BY <1>1, <1>2, <1>3, <1>4 DEF Next

-----------------------------------------------------------------------------
\* Only thread t moves.
OnlyThread(t) ==
  \A u \in Thread \ {t} :
    /\ pc'[u] = pc[u]
    /\ word'[u] = word[u]
    /\ last'[u] = last[u]
    /\ todo'[u] = todo[u]
    /\ held'[u] = held[u]
    /\ write_set'[u] = write_set[u]

\* What a step of thread t can do to the lock words.
KeepsLocks(t) == locks' = locks /\ Owned(t)' = Owned(t)

TakesLock(t) ==
  \E l \in Lock : \E x \in Nat :
    /\ ~isLocked(locks[l]) /\ isLocked(x)
    /\ locks' = [locks EXCEPT ![l] = x]
    /\ Owned(t)' = Owned(t) \cup {l}

DropsLock(t) ==
  \E l \in Owned(t) : \E x \in Nat :
    /\ ~isLocked(x)
    /\ locks' = [locks EXCEPT ![l] = x]
    /\ Owned(t)' = Owned(t) \ {l}

LEMMA OthersKeep ==
  ASSUME NEW t \in Thread, OnlyThread(t), NEW u \in Thread \ {t}
  PROVE  /\ Owned(u)' = Owned(u)
         /\ RegistersOf(u) => RegistersOf(u)'
         /\ HeldOf(u) => HeldOf(u)'
<1>1. WriteDom(u)' = WriteDom(u)
  BY DEF OnlyThread, WriteDom
<1>2. Owned(u)' = Owned(u)
  BY DEF OnlyThread, Owned
<1>3. RegistersOf(u) => RegistersOf(u)'
  BY <1>1 DEF OnlyThread, RegistersOf
<1>4. HeldOf(u) => HeldOf(u)'
  BY <1>1 DEF OnlyThread, HeldOf, LocksOf, NoClash
<1> QED
  BY <1>2, <1>3, <1>4

LEMMA OwnershipKept ==
  ASSUME TypeOK, LockOwnership, NEW t \in Thread, OnlyThread(t),
         Owned(t) \subseteq Lock,
         KeepsLocks(t) \/ TakesLock(t) \/ DropsLock(t)
  PROVE  LockOwnership'
<1>1. \A u \in Thread \ {t} : Owned(u)' = Owned(u)
  BY OthersKeep
<1>2. CASE KeepsLocks(t)
  <2>1. \A u \in Thread : Owned(u)' = Owned(u)
    BY <1>1, <1>2 DEF KeepsLocks
  <2> QED
    BY <1>2, <2>1 DEF LockOwnership, KeepsLocks
<1>3. CASE TakesLock(t)
  <2>1. PICK l \in Lock, x \in Nat :
          /\ ~isLocked(locks[l]) /\ isLocked(x)
          /\ locks' = [locks EXCEPT ![l] = x]
          /\ Owned(t)' = Owned(t) \cup {l}
    BY <1>3 DEF TakesLock
  <2>2. \A u \in Thread : l \notin Owned(u)
    BY <2>1 DEF LockOwnership
  <2>3. \A k \in Lock : isLocked(locks'[k]) <=> isLocked(locks[k]) \/ k = l
    BY <2>1 DEF TypeOK
  <2>4. \A k \in Lock : isLocked(locks'[k]) <=> \E u \in Thread : k \in Owned(u)'
    BY <1>1, <2>1, <2>3 DEF LockOwnership
  <2>5. \A u, v \in Thread : u # v => Owned(u)' \cap Owned(v)' = {}
    BY <1>1, <2>1, <2>2 DEF LockOwnership
  <2> QED
    BY <2>4, <2>5 DEF LockOwnership
<1>4. CASE DropsLock(t)
  <2>1. PICK l \in Owned(t), x \in Nat :
          /\ ~isLocked(x)
          /\ locks' = [locks EXCEPT ![l] = x]
          /\ Owned(t)' = Owned(t) \ {l}
    BY <1>4 DEF DropsLock
  <2>2. \A u \in Thread \ {t} : l \notin Owned(u)
    BY <2>1 DEF LockOwnership
  <2>3. \A k \in Lock : isLocked(locks'[k]) <=> isLocked(locks[k]) /\ k # l
    BY <2>1 DEF TypeOK
  <2>4. \A k \in Lock : isLocked(locks'[k]) <=> \E u \in Thread : k \in Owned(u)'
    BY <1>1, <2>1, <2>2, <2>3 DEF LockOwnership
  <2>5. \A u, v \in Thread : u # v => Owned(u)' \cap Owned(v)' = {}
    BY <1>1, <2>1 DEF LockOwnership
  <2> QED
    BY <2>4, <2>5 DEF LockOwnership
<1> QED
  BY <1>2, <1>3, <1>4

-----------------------------------------------------------------------------
\* What every step of thread t has to satisfy for Inv to be preserved.
GoodStep(t) ==
  /\ OnlyThread(t)
  /\ RegistersOf(t)'
  /\ HeldOf(t)'
  /\ ClashFree => KeepsLocks(t) \/ TakesLock(t) \/ DropsLock(t)

LEMMA DeleteTxnGood ==
  ASSUME TypeOK, NEW t \in Thread, NEW segs, DeleteTxn(t, segs)
  PROVE  /\ OnlyThread(t)
         /\ RegistersOf(t)'
         /\ HeldOf(t)'
         /\ Owned(t)' = {}
<1> USE DEF DeleteTxn, Set, TypeOK
<1>1. OnlyThread(t)
  BY DEF OnlyThread
<1>2. pc'[t] = "idle" /\ held'[t] = {} /\ write_set'[t] = [a \in Addr |-> NoVal]
  OBVIOUS
<1>3. WriteDom(t)' = {}
  BY <1>2 DEF WriteDom
<1>4. RegistersOf(t)'
  BY <1>2 DEF RegistersOf, ReadSteps
<1>5. HeldOf(t)'
  BY <1>2, <1>3 DEF HeldOf, NoClash
<1>6. Owned(t)' = {}
  BY <1>2 DEF Owned, TrySteps
<1> QED
  BY <1>1, <1>4, <1>5, <1>6

LEMMA AbortGood ==
  ASSUME TypeOK, NEW t \in Thread, Abort(t), locks' = locks, Owned(t) = {}
  PROVE  GoodStep(t)
  BY DeleteTxnGood DEF Abort, GoodStep, KeepsLocks

LEMMA CallGood ==
  ASSUME Inv, NEW t \in Thread, Call(t)
  PROVE  GoodStep(t)
<1> USE DEF Set, vars, sharedVars, txnVars, callVars, readRegs, endRegs, histVars
<1>0. TypeOK /\ HeldOf(t) /\ RegistersOf(t)
  BY DEF Inv, Registers
<1>1. ASSUME NEW ro \in BOOLEAN, tm_begin(t, ro) PROVE GoodStep(t)
  <2>1. /\ OnlyThread(t) /\ pc[t] = "idle" /\ pc'[t] = "ready" /\ locks' = locks
        /\ held'[t] = held[t] /\ write_set' = write_set
    BY <1>0, <1>1 DEF tm_begin, OnlyThread, TypeOK
  <2> QED
    BY <1>0, <2>1
    DEF GoodStep, RegistersOf, HeldOf, KeepsLocks, Owned, ReadSteps, TrySteps, WriteDom
<1>2. ASSUME NEW a \in Addr, NEW n \in 1..MaxLen, tm_read(t, a, n) PROVE GoodStep(t)
  <2>1. /\ OnlyThread(t) /\ pc[t] = "ready" /\ pc'[t] = "pre_version" /\ locks' = locks
        /\ held'[t] = held[t] /\ write_set' = write_set
        /\ word'[t] = a /\ last'[t] = a + n - 1
    BY <1>0, <1>2 DEF tm_read, OnlyThread, TypeOK
  <2>2. a..(a + n - 1) \subseteq Addr /\ a <= a + n - 1
    <3>1. a..(a + n - 1) \subseteq Accessible(t)
      BY <1>2 DEF tm_read, Words
    <3>2. Accessible(t) \subseteq Addr
      BY <1>0 DEF Accessible, TypeOK, Addr
    <3>3. a \in Nat /\ n \in Nat /\ n >= 1
      BY TL2Assumption DEF Addr
    <3> QED
      BY <3>1, <3>2, <3>3
  <2>3. RegistersOf(t)'
    BY <2>1, <2>2 DEF RegistersOf, ReadSteps
  <2>4. HeldOf(t)'
    BY <1>0, <2>1 DEF HeldOf, ReadSteps, WriteDom
  <2> QED
    BY <2>1, <2>3, <2>4 DEF GoodStep, KeepsLocks, Owned, TrySteps
<1>3. ASSUME NEW a \in Addr, NEW n \in 1..MaxLen, tm_write(t, a, n) PROVE GoodStep(t)
  <2>1. /\ OnlyThread(t) /\ pc[t] = "ready" /\ pc' = pc /\ locks' = locks
        /\ held' = held /\ todo' = todo
    BY <1>0, <1>3 DEF tm_write, OnlyThread, TypeOK
  <2>2. WriteDom(t)' \subseteq WriteDom(t) \cup Words(a, n)
    <3>1. PICK val \in [Words(a, n) -> Val] :
            write_set' = Set(write_set, t,
              [b \in Addr |-> IF b \in Words(a, n) THEN val[b] ELSE write_set[t][b]])
      BY <1>3 DEF tm_write
    <3> QED
      BY <1>0, <3>1 DEF WriteDom, TypeOK
  <2>3. ClashFree => NoClash(WriteDom(t))'
    BY <1>3, <2>2 DEF tm_write, NoClash
  <2> QED
    BY <1>0, <2>1, <2>3
    DEF GoodStep, RegistersOf, HeldOf, KeepsLocks, Owned, ReadSteps, TrySteps
<1>4. ASSUME NEW s \in Heap, tm_alloc(t, s) PROVE GoodStep(t)
  <2>1. OnlyThread(t) /\ UNCHANGED <<pc, word, last, todo, held, write_set, locks>>
    BY <1>4 DEF tm_alloc, OnlyThread
  <2> QED
    BY <1>0, <2>1 DEF GoodStep, RegistersOf, HeldOf, KeepsLocks, Owned, WriteDom, NoClash, LocksOf
<1>5. ASSUME NEW s \in Heap, tm_free(t, s) PROVE GoodStep(t)
  <2>1. OnlyThread(t) /\ UNCHANGED <<pc, word, last, todo, held, write_set, locks>>
    BY <1>5 DEF tm_free, OnlyThread
  <2> QED
    BY <1>0, <2>1 DEF GoodStep, RegistersOf, HeldOf, KeepsLocks, Owned, WriteDom, NoClash, LocksOf
<1>6. CASE tm_end(t)
  <2>0. pc[t] = "ready" /\ held[t] = {} /\ Owned(t) = {}
    BY <1>0, <1>6 DEF tm_end, HeldOf, Owned, TrySteps
  <2>1. CASE is_ro[t]
    BY <1>0, <1>6, <2>0, <2>1, DeleteTxnGood DEF tm_end, GoodStep, KeepsLocks
  <2>2. CASE ~is_ro[t]
    <3>1. /\ OnlyThread(t) /\ locks' = locks /\ held' = held /\ write_set' = write_set
          /\ todo'[t] = WriteDom(t)
          /\ pc'[t] = IF WriteDom(t) = {} THEN "clock" ELSE "lock"
      BY <1>0, <1>6, <2>2 DEF tm_end, OnlyThread, TypeOK
    <3>2. WriteDom(t)' = WriteDom(t)
      BY <3>1 DEF WriteDom
    <3>3. RegistersOf(t)'
      BY <3>1, <3>2 DEF RegistersOf, ReadSteps
    <3>4. HeldOf(t)'
      BY <1>0, <2>0, <3>1, <3>2 DEF HeldOf, ReadSteps, LocksOf, NoClash
    <3>5. Owned(t)' = {}
      BY <2>0, <3>1 DEF Owned, TrySteps
    <3> QED
      BY <2>0, <3>1, <3>3, <3>4, <3>5 DEF GoodStep, KeepsLocks
  <2> QED
    BY <2>1, <2>2
<1> QED
  BY <1>1, <1>2, <1>3, <1>4, <1>5, <1>6 DEF Call

LEMMA ReadStepGood ==
  ASSUME Inv, NEW t \in Thread,
         PreVersion(t) \/ PreLocked(t) \/ Copy(t) \/ PostVersion(t) \/ PostLocked(t)
  PROVE  GoodStep(t)
<1> USE DEF Set, sharedVars, txnVars, readRegs, endRegs, histVars
<1>0. TypeOK /\ Registers /\ HeldOf(t) /\ RegistersOf(t)
  BY DEF Inv, Registers
<1>1. pc[t] \in ReadSteps /\ held[t] = {} /\ Owned(t) = {}
  <2>1. pc[t] \in ReadSteps
    BY DEF PreVersion, PreLocked, Copy, PostVersion, PostLocked, ReadSteps
  <2> QED
    BY <1>0, <2>1 DEF HeldOf, Owned, ReadSteps, TrySteps
\* A step inside the loop keeps the registers and stays in tm_read.
<1>2. ASSUME OnlyThread(t), pc'[t] \in ReadSteps \cup {"ready"},
             locks' = locks, held'[t] = held[t], write_set' = write_set,
             RegistersOf(t)'
      PROVE  GoodStep(t)
  <2>1. WriteDom(t)' = WriteDom(t)
    BY <1>2 DEF WriteDom
  <2>2. HeldOf(t)'
    BY <1>0, <1>1, <1>2, <2>1 DEF HeldOf, ReadSteps
  <2>3. Owned(t)' = {}
    BY <1>2 DEF Owned, ReadSteps, TrySteps
  <2> QED
    BY <1>1, <1>2, <2>2, <2>3 DEF GoodStep, KeepsLocks
<1>3. CASE Abort(t) /\ locks' = locks
  BY <1>0, <1>1, <1>3, AbortGood
<1>4. ASSUME NEW p \in ReadSteps, pc' = [pc EXCEPT ![t] = p],
             UNCHANGED <<locks, held, write_set, word, last, todo>>
      PROVE  GoodStep(t)
  <2>1. OnlyThread(t) /\ pc'[t] = p
    BY <1>0, <1>4 DEF OnlyThread, TypeOK
  <2>2. RegistersOf(t)'
    BY <1>0, <1>1, <1>4, <2>1 DEF RegistersOf, ReadSteps
  <2> QED
    BY <1>2, <1>4, <2>1, <2>2
<1>5. CASE PreVersion(t)
  BY <1>4, <1>5 DEF PreVersion, ReadSteps
<1>6. CASE PreLocked(t)
  BY <1>3, <1>4, <1>6 DEF PreLocked, ReadSteps
<1>7. CASE Copy(t)
  BY <1>4, <1>7 DEF Copy, ReadSteps
<1>8. CASE PostVersion(t)
  BY <1>4, <1>8 DEF PostVersion, ReadSteps
<1>9. CASE PostLocked(t) /\ WordRead(t)
  <2>1. /\ OnlyThread(t) /\ UNCHANGED <<locks, held, write_set, todo>>
    BY <1>0, <1>9 DEF WordRead, OnlyThread, TypeOK
  <2>2. CASE word[t] < last[t]
    <3>1. pc'[t] = "pre_version" /\ word'[t] = word[t] + 1 /\ last'[t] = last[t]
      BY <1>0, <1>9, <2>2 DEF WordRead, TypeOK
    <3>2. word[t] \in Nat /\ last[t] \in Nat /\ word[t]..last[t] \subseteq Addr
      BY <1>0, <1>1, ReadRegisters DEF RegistersOf
    <3>3. word[t] + 1 <= last[t] /\ (word[t] + 1)..last[t] \subseteq Addr
      BY <2>2, <3>2
    <3>4. RegistersOf(t)'
      BY <3>1, <3>3 DEF RegistersOf, ReadSteps
    <3> QED
      BY <1>2, <2>1, <3>1, <3>4 DEF ReadSteps
  <2>3. CASE ~(word[t] < last[t])
    <3>1. pc'[t] = "ready"
      BY <1>0, <1>9, <2>3 DEF WordRead, TypeOK
    <3>2. RegistersOf(t)'
      BY <3>1 DEF RegistersOf, ReadSteps
    <3> QED
      BY <1>2, <2>1, <3>1, <3>2
  <2> QED
    BY <2>2, <2>3
<1> QED
  BY <1>3, <1>5, <1>6, <1>7, <1>8, <1>9 DEF PostLocked

LEMMA GiveUpGood ==
  ASSUME Inv, NEW t \in Thread, pc[t] \in TrySteps, GiveUp(t)
  PROVE  GoodStep(t)
<1>0. TypeOK /\ HeldOf(t) /\ Owned(t) = held[t]
  BY DEF Inv, Owned
<1>1. CASE held[t] = {}
  BY <1>0, <1>1, AbortGood DEF GiveUp
<1>2. CASE held[t] # {}
  <2>1. /\ OnlyThread(t) /\ pc'[t] = "unlock"
        /\ locks' = locks /\ held' = held /\ write_set' = write_set
    BY <1>0, <1>2 DEF GiveUp, Set, OnlyThread, TypeOK, sharedVars, txnVars, readRegs
  <2>2. RegistersOf(t)'
    BY <2>1 DEF RegistersOf, ReadSteps
  <2>3. HeldOf(t)' /\ Owned(t)' = held[t]
    <3>1. WriteDom(t)' = WriteDom(t)
      BY <2>1 DEF WriteDom
    <3>2. HeldOf(t)'
      BY <1>0, <2>1, <3>1 DEF HeldOf, ReadSteps, NoClash
    <3> QED
      BY <2>1, <3>2 DEF Owned, TrySteps
  <2> QED
    BY <1>0, <2>1, <2>2, <2>3 DEF GoodStep, KeepsLocks
<1> QED
  BY <1>1, <1>2

LEMMA CommitGood ==
  ASSUME Inv, NEW t \in Thread, NEW v \in Nat, Commit(t, v),
         pc[t] \in {"clock", "validate", "validate_version"}
  PROVE  GoodStep(t)
<1>0. TypeOK /\ HeldOf(t) /\ Owned(t) = LocksOf(WriteDom(t))
  BY DEF Inv, HeldOf, Owned, TrySteps
<1>1. /\ OnlyThread(t) /\ locks' = locks /\ held' = held /\ write_set' = write_set
      /\ todo'[t] = WriteDom(t)
      /\ pc'[t] = IF WriteDom(t) = {} THEN "splice_lock" ELSE "write"
  BY <1>0 DEF Commit, Set, OnlyThread, TypeOK, txnVars, readRegs
<1>2. WriteDom(t)' = WriteDom(t)
  BY <1>1 DEF WriteDom
<1>3. RegistersOf(t)'
  BY <1>1, <1>2 DEF RegistersOf, ReadSteps
<1>4. HeldOf(t)'
  BY <1>0, <1>1, <1>2 DEF HeldOf, ReadSteps, NoClash
<1>5. Owned(t)' = LocksOf(WriteDom(t))
  BY <1>1 DEF Owned, TrySteps, LocksOf
<1> QED
  BY <1>0, <1>1, <1>3, <1>4, <1>5 DEF GoodStep, KeepsLocks

LEMMA LockStepGood ==
  ASSUME Inv, NEW t \in Thread, NEW a \in Addr,
         LockTaken(t, a) \/ LockMine(t, a) \/ LockBusy(t, a)
  PROVE  GoodStep(t)
<1>0. /\ TypeOK /\ pc[t] = "lock" /\ Owned(t) = held[t]
      /\ todo[t] \subseteq WriteDom(t) /\ WriteDom(t) \subseteq Addr
      /\ held[t] = LocksOf(WriteDom(t) \ todo[t])
      /\ ClashFree => NoClash(WriteDom(t))
  <2>1. TypeOK /\ pc[t] = "lock" /\ HeldOf(t) /\ RegistersOf(t)
    BY DEF Inv, Registers, LockTaken, LockMine, LockBusy
  <2> QED
    BY <2>1 DEF HeldOf, RegistersOf, Owned, TrySteps, WriteDom
\* The loop goes on, with the lock of address a among the locks held.
<1>1. ASSUME LockedWord(t, a), a \in todo[t], held' = [held EXCEPT ![t] = held[t] \cup {LockOf(a)}]
      PROVE  OnlyThread(t) /\ RegistersOf(t)' /\ HeldOf(t)' /\ Owned(t)' = held[t] \cup {LockOf(a)}
  <2>1. /\ OnlyThread(t) /\ write_set' = write_set
        /\ todo'[t] = todo[t] \ {a}
        /\ pc'[t] = IF todo[t] = {a} THEN "clock" ELSE "lock"
        /\ held'[t] = held[t] \cup {LockOf(a)}
    BY <1>0, <1>1 DEF LockedWord, Set, OnlyThread, TypeOK, txnVars, readRegs
  <2>2. WriteDom(t)' = WriteDom(t)
    BY <2>1 DEF WriteDom
  <2>3. RegistersOf(t)'
    BY <1>0, <2>1, <2>2 DEF RegistersOf, ReadSteps
  <2>4. held'[t] = LocksOf(WriteDom(t) \ (todo[t] \ {a}))
    BY <1>0, <1>1, <2>1 DEF LocksOf
  <2>5. todo[t] = {a} => held'[t] = LocksOf(WriteDom(t))
    BY <2>4
  <2>6. HeldOf(t)'
    BY <1>0, <2>1, <2>2, <2>4, <2>5 DEF HeldOf, ReadSteps, NoClash, LocksOf
  <2>7. Owned(t)' = held'[t]
    BY <2>1 DEF Owned, TrySteps
  <2> QED
    BY <2>1, <2>3, <2>6, <2>7
<1>2. CASE LockTaken(t, a)
  <2>1. LockOf(a) \in Lock /\ LockAt(a) \in Nat
    BY <1>0, LockOfType DEF LockAt, TypeOK
  <2>2. lockDesired(LockAt(a)) \in Nat /\ isLocked(lockDesired(LockAt(a)))
    BY <2>1 DEF lockDesired, lockExpected, isLocked
  <2>3. TakesLock(t) /\ OnlyThread(t) /\ RegistersOf(t)' /\ HeldOf(t)'
    BY <1>0, <1>1, <1>2, <2>1, <2>2 DEF LockTaken, Set, TakesLock, LockAt
  <2> QED
    BY <2>3 DEF GoodStep
<1>3. CASE LockMine(t, a)
  <2>1. held' = [held EXCEPT ![t] = held[t] \cup {LockOf(a)}]
    BY <1>0, <1>3 DEF LockMine, TypeOK
  <2> QED
    BY <1>0, <1>1, <1>3, <2>1 DEF LockMine, GoodStep, KeepsLocks
<1>4. CASE LockBusy(t, a)
  BY <1>0, <1>4, GiveUpGood DEF LockBusy, TrySteps
<1> QED
  BY <1>2, <1>3, <1>4

LEMMA UnlockGood ==
  ASSUME Inv, NEW t \in Thread, NEW l \in Lock, Unlock(t, l)
  PROVE  GoodStep(t)
<1>0. TypeOK /\ HeldOf(t) /\ pc[t] = "unlock" /\ Owned(t) = held[t] /\ l \in Owned(t)
  BY DEF Inv, Unlock, Owned, TrySteps
<1>1. locks' = [locks EXCEPT ![l] = unlockValue(locks[l])]
  BY DEF Unlock
<1>2. unlockValue(locks[l]) \in Nat /\ ~isLocked(unlockValue(locks[l]))
  <2>1. locks[l] \in Nat
    BY <1>0 DEF TypeOK
  <2> QED
    BY <2>1, UintSpanAssumption DEF unlockValue, lockExpected, isLocked
<1>3. CASE held[t] = {l}
  <2>1. OnlyThread(t) /\ RegistersOf(t)' /\ HeldOf(t)' /\ Owned(t)' = {}
    BY <1>0, <1>3, DeleteTxnGood DEF Unlock, Abort
  <2> QED
    BY <1>0, <1>1, <1>2, <1>3, <2>1 DEF GoodStep, DropsLock
<1>4. CASE held[t] # {l}
  <2>1. /\ OnlyThread(t) /\ UNCHANGED <<pc, word, last, todo, write_set>>
        /\ held'[t] = held[t] \ {l}
    BY <1>0, <1>4 DEF Unlock, Set, OnlyThread, TypeOK, txnVars, readRegs
  <2>2. WriteDom(t)' = WriteDom(t)
    BY <2>1 DEF WriteDom
  <2>3. RegistersOf(t)' /\ HeldOf(t)'
    BY <1>0, <2>1, <2>2 DEF RegistersOf, HeldOf, ReadSteps, NoClash
  <2>4. Owned(t)' = Owned(t) \ {l}
    BY <1>0, <2>1 DEF Owned, TrySteps
  <2> QED
    BY <1>0, <1>1, <1>2, <2>1, <2>3, <2>4 DEF GoodStep, DropsLock
<1> QED
  BY <1>3, <1>4

\* A step that only moves the program counter between steps that hold the locks
\* of the whole write set.
LEMMA MovesGood ==
  ASSUME Inv, NEW t \in Thread, pc[t] \in {"clock", "validate", "validate_version"},
         OnlyThread(t), pc'[t] \in {"validate", "validate_version"},
         UNCHANGED <<locks, held, write_set>>,
         pc'[t] = "validate_version" => word'[t] \in todo'[t]
  PROVE  GoodStep(t)
<1>1. WriteDom(t)' = WriteDom(t)
  BY DEF WriteDom
<1>2. RegistersOf(t)'
  BY DEF RegistersOf, ReadSteps
<1>3. HeldOf(t)'
  BY <1>1 DEF Inv, HeldOf, ReadSteps, NoClash
<1>4. Owned(t)' = Owned(t)
  BY DEF Owned, TrySteps
<1> QED
  BY <1>2, <1>3, <1>4 DEF GoodStep, KeepsLocks

LEMMA ClockGood ==
  ASSUME Inv, NEW t \in Thread, IncrementClock(t)
  PROVE  GoodStep(t)
<1>0. TypeOK /\ pc[t] = "clock" /\ gvc + 1 \in Nat
  BY DEF Inv, TypeOK, IncrementClock
<1>1. CASE Commit(t, gvc + 1)
  BY <1>0, <1>1, CommitGood
<1>2. CASE ~(NobodyCommitted(t) \/ read_set[t] = {})
  <2>1. /\ OnlyThread(t) /\ pc'[t] = "validate" /\ UNCHANGED <<locks, held, write_set>>
    BY <1>0, <1>2 DEF IncrementClock, Set, OnlyThread, TypeOK, txnVars, readRegs
  <2> QED
    BY <1>0, <2>1, MovesGood
<1> QED
  BY <1>1, <1>2 DEF IncrementClock

LEMMA CheckVersionGood ==
  ASSUME Inv, NEW t \in Thread, NEW a \in Addr, CheckVersion(t, a),
         pc[t] \in {"validate", "validate_version"}
  PROVE  GoodStep(t)
<1>0. TypeOK /\ wv[t] \in Nat
  BY DEF Inv, TypeOK
<1>1. CASE GiveUp(t)
  BY <1>1, GiveUpGood DEF TrySteps
<1>2. CASE Commit(t, wv[t])
  BY <1>0, <1>2, CommitGood
<1>3. CASE ~GiveUp(t) /\ ~Commit(t, wv[t])
  <2>1. /\ pc' = [pc EXCEPT ![t] = "validate"]
        /\ todo' = [todo EXCEPT ![t] = todo[t] \ {a}]
        /\ word' = [word EXCEPT ![t] = 0]
        /\ UNCHANGED <<locks, held, write_set, last>>
    BY <1>3 DEF CheckVersion, Set, txnVars, readRegs
  <2>2. OnlyThread(t) /\ pc'[t] = "validate"
    BY <1>0, <2>1 DEF OnlyThread, TypeOK
  <2> QED
    BY <2>1, <2>2, MovesGood
<1> QED
  BY <1>1, <1>2, <1>3

LEMMA ValidateGood ==
  ASSUME Inv, NEW t \in Thread,
         \/ ValidateVersion(t)
         \/ \E a \in Addr : ValidateLocked(t, a) \/ ValidateMine(t, a)
  PROVE  GoodStep(t)
<1>0. TypeOK /\ RegistersOf(t)
  BY DEF Inv, Registers
<1>1. CASE ValidateVersion(t)
  <2>1. word[t] \in Addr
    BY <1>0, <1>1 DEF ValidateVersion, RegistersOf, TypeOK
  <2> QED
    BY <1>1, <2>1, CheckVersionGood DEF ValidateVersion
<1>2. ASSUME NEW a \in Addr, ValidateLocked(t, a) PROVE GoodStep(t)
  <2>1. CASE GiveUp(t)
    BY <1>2, <2>1, GiveUpGood DEF ValidateLocked, TrySteps
  <2>2. CASE ~isLocked(LockAt(a))
    <3>1. /\ pc[t] = "validate" /\ a \in todo[t]
          /\ pc' = [pc EXCEPT ![t] = "validate_version"]
          /\ word' = [word EXCEPT ![t] = a]
          /\ UNCHANGED <<sharedVars, txnVars, readRegs, endRegs, histVars>>
      BY <1>2, <2>2 DEF ValidateLocked, Set
    <3>2. /\ OnlyThread(t) /\ pc'[t] = "validate_version" /\ word'[t] = a /\ todo' = todo
          /\ UNCHANGED <<locks, held, write_set>>
      BY <1>0, <3>1 DEF OnlyThread, TypeOK, sharedVars, txnVars, readRegs, endRegs
    <3> QED
      BY <3>1, <3>2, MovesGood
  <2> QED
    BY <1>2, <2>1, <2>2 DEF ValidateLocked
<1>3. ASSUME NEW a \in Addr, ValidateMine(t, a) PROVE GoodStep(t)
  BY <1>3, CheckVersionGood DEF ValidateMine
<1> QED
  BY <1>1, <1>2, <1>3

LEMMA WriteBackGood ==
  ASSUME Inv, NEW t \in Thread, SetVersion(t) \/ \E a \in Addr : WriteBack(t, a)
  PROVE  GoodStep(t)
<1>0. TypeOK /\ RegistersOf(t) /\ HeldOf(t)
  BY DEF Inv, Registers
<1>1. ASSUME NEW a \in Addr, WriteBack(t, a) PROVE GoodStep(t)
  <2>1. /\ pc[t] = "write" /\ a \in todo[t]
        /\ OnlyThread(t) /\ pc'[t] = "set_version" /\ word'[t] = a
        /\ UNCHANGED <<locks, held, write_set, todo>>
    BY <1>0, <1>1 DEF WriteBack, Set, OnlyThread, TypeOK, txnVars, readRegs, endRegs
  <2>2. WriteDom(t)' = WriteDom(t)
    BY <2>1 DEF WriteDom
  <2>3. RegistersOf(t)'
    BY <1>0, <2>1, <2>2 DEF RegistersOf, ReadSteps
  <2>4. HeldOf(t)'
    BY <1>0, <2>1, <2>2 DEF HeldOf, ReadSteps, NoClash
  <2>5. Owned(t)' = Owned(t)
    BY <2>1 DEF Owned, TrySteps
  <2> QED
    BY <2>1, <2>3, <2>4, <2>5 DEF GoodStep, KeepsLocks
<1>2. CASE SetVersion(t)
  <2>1. /\ pc[t] = "set_version" /\ word[t] \in todo[t] /\ todo[t] \subseteq WriteDom(t)
        /\ ClashFree => NoClash(WriteDom(t))
        /\ word[t] \in Addr /\ LockOf(word[t]) \in Lock
    BY <1>0, <1>2, LockOfType DEF SetVersion, RegistersOf, HeldOf, TypeOK
  <2>2. /\ OnlyThread(t) /\ UNCHANGED <<held, write_set>>
        /\ todo'[t] = todo[t] \ {word[t]}
        /\ pc'[t] = IF todo[t] = {word[t]} THEN "splice_lock" ELSE "write"
        /\ locks' = [locks EXCEPT ![LockOf(word[t])] = setVersionValue(wv[t])]
    BY <1>0, <1>2 DEF SetVersion, Set, OnlyThread, TypeOK, txnVars, readRegs
  <2>3. WriteDom(t)' = WriteDom(t)
    BY <2>2 DEF WriteDom
  <2>4. RegistersOf(t)'
    BY <2>1, <2>2, <2>3 DEF RegistersOf, ReadSteps
  <2>5. HeldOf(t)'
    BY <1>0, <2>1, <2>2, <2>3 DEF HeldOf, ReadSteps, NoClash
  <2>6. setVersionValue(wv[t]) \in Nat /\ ~isLocked(setVersionValue(wv[t]))
    <3>1. wv[t] \in Nat
      BY <1>0 DEF TypeOK
    <3> QED
      BY <3>1 DEF setVersionValue, isLocked
  <2>7. Owned(t) = LocksOf(todo[t]) /\ Owned(t)' = LocksOf(todo[t] \ {word[t]})
    BY <2>1, <2>2 DEF Owned, TrySteps, LocksOf
  \* No other word of the write set has this lock.
  <2>8. ClashFree => LocksOf(todo[t] \ {word[t]}) = LocksOf(todo[t]) \ {LockOf(word[t])}
    BY <2>1 DEF NoClash, LocksOf
  <2>9. LockOf(word[t]) \in Owned(t)
    BY <2>1, <2>7 DEF LocksOf
  <2> QED
    BY <2>2, <2>4, <2>5, <2>6, <2>7, <2>8, <2>9 DEF GoodStep, DropsLock
<1> QED
  BY <1>1, <1>2

LEMMA SpliceGood ==
  ASSUME Inv, NEW t \in Thread, SpliceLock(t) \/ Splice(t)
  PROVE  GoodStep(t)
<1>0. TypeOK /\ HeldOf(t) /\ Owned(t) = {}
  BY DEF Inv, SpliceLock, Splice, Owned, TrySteps
<1>1. CASE SpliceLock(t)
  <2>1. OnlyThread(t) /\ pc'[t] = "splice" /\ UNCHANGED <<locks, held, write_set>>
    BY <1>0, <1>1 DEF SpliceLock, Set, OnlyThread, TypeOK, txnVars, readRegs, endRegs
  <2>2. WriteDom(t)' = WriteDom(t)
    BY <2>1 DEF WriteDom
  <2>3. RegistersOf(t)' /\ HeldOf(t)' /\ Owned(t)' = {}
    BY <1>0, <2>1, <2>2 DEF RegistersOf, HeldOf, ReadSteps, NoClash, Owned, TrySteps
  <2> QED
    BY <1>0, <2>1, <2>3 DEF GoodStep, KeepsLocks
<1>2. CASE Splice(t)
  BY <1>0, <1>2, DeleteTxnGood DEF Splice, GoodStep, KeepsLocks
<1> QED
  BY <1>1, <1>2

LEMMA OwnedType ==
  ASSUME TypeOK, NEW t \in Thread
  PROVE  Owned(t) \subseteq Lock
  BY LockOfType DEF TypeOK, Owned

LEMMA GoodStepKeeps ==
  ASSUME Inv, NEW t \in Thread, GoodStep(t), TypeOK'
  PROVE  Inv'
<1>1. \A u \in Thread : RegistersOf(u)' /\ HeldOf(u)'
  BY OthersKeep DEF GoodStep, Inv, Registers
<1>2. ClashFree => LockOwnership'
  BY OwnershipKept, OwnedType DEF Inv, GoodStep
<1> QED
  BY <1>1, <1>2 DEF Inv, Registers

LEMMA NextKeeps ==
  ASSUME Inv, [Next]_vars
  PROVE  Inv'
<1>0. TypeOK'
  BY NextType DEF Inv
<1>1. ASSUME NEW t \in Thread, Call(t) PROVE Inv'
  BY <1>0, <1>1, CallGood, GoodStepKeeps
<1>2. ASSUME NEW t \in Thread, Step(t) PROVE Inv'
  <2>1. CASE PreVersion(t) \/ PreLocked(t) \/ Copy(t) \/ PostVersion(t) \/ PostLocked(t)
    BY <1>0, <2>1, ReadStepGood, GoodStepKeeps
  <2>2. CASE \E a \in Addr : LockTaken(t, a) \/ LockMine(t, a) \/ LockBusy(t, a)
    BY <1>0, <2>2, LockStepGood, GoodStepKeeps
  <2>3. CASE \E l \in Lock : Unlock(t, l)
    BY <1>0, <2>3, UnlockGood, GoodStepKeeps
  <2>4. CASE IncrementClock(t)
    BY <1>0, <2>4, ClockGood, GoodStepKeeps
  <2>5. CASE \/ ValidateVersion(t)
             \/ \E a \in Addr : ValidateLocked(t, a) \/ ValidateMine(t, a)
    BY <1>0, <2>5, ValidateGood, GoodStepKeeps
  <2>6. CASE SetVersion(t) \/ \E a \in Addr : WriteBack(t, a)
    BY <1>0, <2>6, WriteBackGood, GoodStepKeeps
  <2>7. CASE SpliceLock(t) \/ Splice(t)
    BY <1>0, <2>7, SpliceGood, GoodStepKeeps
  <2> QED
    BY <1>2, <2>1, <2>2, <2>3, <2>4, <2>5, <2>6, <2>7 DEF Step
<1>3. CASE tm_destroy \/ Destroyed \/ UNCHANGED vars
  <2>1. UNCHANGED <<pc, word, last, todo, held, write_set, locks>>
    BY <1>3
    DEF tm_destroy, Destroyed, vars, sharedVars, txnVars, callVars, readRegs, endRegs
  <2>2. \A t \in Thread : WriteDom(t)' = WriteDom(t) /\ Owned(t)' = Owned(t)
    BY <2>1 DEF WriteDom, Owned
  <2>3. \A t \in Thread : RegistersOf(t)' /\ HeldOf(t)'
    BY <2>1, <2>2 DEF Inv, Registers, RegistersOf, HeldOf, NoClash, LocksOf
  <2>4. ClashFree => LockOwnership'
    BY <2>1, <2>2 DEF Inv, LockOwnership
  <2> QED
    BY <1>0, <2>3, <2>4 DEF Inv, Registers
<1> QED
  BY <1>1, <1>2, <1>3 DEF Next

LEMMA InitInv == Init => Inv
<1> SUFFICES ASSUME Init PROVE Inv
  OBVIOUS
<1>1. TypeOK
  BY InitType
<1>2. \A t \in Thread : /\ pc[t] = "idle" /\ held[t] = {}
                        /\ WriteDom(t) = {} /\ Owned(t) = {}
  BY DEF Init, WriteDom, Owned, TrySteps
<1>3. \A t \in Thread : RegistersOf(t) /\ HeldOf(t)
  BY <1>2 DEF RegistersOf, HeldOf, ReadSteps, NoClash
<1>4. LockOwnership
  BY <1>2 DEF Init, LockOwnership, isLocked
<1> QED
  BY <1>1, <1>3, <1>4 DEF Inv, Registers

\* Inv holds in every reachable state.
THEOREM Invariance == Spec => []Inv
  BY InitInv, NextKeeps, PTL DEF Spec

\* Type correctness: in particular the loop of tm_read never leaves the words
\* of the region, whatever the length of the call.
THEOREM TypeCorrect == Spec => []TypeOK
<1>1. Inv => TypeOK
  BY DEF Inv
<1> QED
  BY <1>1, Invariance, PTL

\* When no write set holds two words of one lock, the lock bit of tm_end is a
\* mutual exclusion: it is set exactly while one thread owns the lock, so no path
\* out of tm_end leaks a lock or releases that of another thread.
THEOREM LocksExclusive == Spec => [](ClashFree => LockOwnership)
<1>1. Inv => (ClashFree => LockOwnership)
  BY DEF Inv
<1> QED
  BY <1>1, Invariance, PTL

=============================================================================
