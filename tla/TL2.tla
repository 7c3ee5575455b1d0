-------------------------------- MODULE TL2 ---------------------------------
(***************************************************************************)
(* The transaction manager of 394984/tm.cpp: transactional locking with a  *)
(* global version clock and an array of versioned write locks, each lock   *)
(* protecting the words whose address is equal to its index modulo         *)
(* NumLocks.                                                               *)
(*                                                                         *)
(* Every access to memory that threads share (an atomic load, a            *)
(* compare-exchange, a store, the copy of one word) is a step of its own;  *)
(* what a thread does on its private data before its next shared access    *)
(* belongs to that step.  A call to lock() or unlock() is one step: module *)
(* VersionedWriteLock shows that its accesses implement that.              *)
(*                                                                         *)
(* The clients are arbitrary: between two calls a thread with an open      *)
(* transaction may read, write, allocate, free or end.  They keep the      *)
(* contract of tm.hpp: a transaction is used by one thread, an aborted one *)
(* is not used again, a read-only one only reads, and addresses come from  *)
(* the first segment, from the transaction's own allocations or from       *)
(* segments that a committed transaction allocated.                        *)
(***************************************************************************)
EXTENDS LockWord, FiniteSets

CONSTANTS
  Readers,       \* threads that run read-only transactions
  Writers,       \* threads that run read-write transactions
  NoThread,      \* nobody holds list_lock
  FirstSegment,  \* word addresses of the segment tm_create allocated
  Heap,          \* addresses where tm_alloc can place a segment (of one word)
  NumLocks,      \* NUM_LOCKS, 10000 in the build
  Val,           \* contents of a word
  Zero,          \* what memset(..., 0, ...) leaves in a word
  NoVal,         \* a word absent from a write set
  MaxLen,        \* bound: words per tm_read or tm_write call
  MaxClock,      \* bound: value the global version clock may reach
  ClashFree      \* TRUE restricts the clients to write sets in which no two
                 \* words share a lock

Thread == Readers \cup Writers
Addr == FirstSegment \cup Heap
Lock == 0..(NumLocks - 1)

ASSUME TL2Assumption ==
  /\ IsFiniteSet(Writers)
  /\ NoThread \notin Thread
  /\ FirstSegment \subseteq Nat
  /\ Heap \subseteq Nat
  /\ FirstSegment \cap Heap = {}
  /\ NumLocks \in Nat \ {0}
  /\ Zero \in Val
  /\ NoVal \notin Val
  /\ MaxLen \in Nat \ {0}
  /\ MaxClock \in Nat
  /\ ClashFree \in BOOLEAN

VARIABLES
  gvc,          \* the global version clock
  locks,        \* region->locks: one lock word per index
  mem,          \* the shared words
  seg_list,     \* region->seg_list
  list_lock,    \* region->list_lock: its holder
  live,         \* segments obtained from the allocator and not freed
  alive         \* the region exists (tm_destroy was not called)

sharedVars == <<gvc, locks, mem, seg_list, list_lock, live, alive>>

VARIABLES
  is_ro, rv,    \* struct Transaction of each thread's open transaction
  read_set,
  write_set,    \* value buffered for each word, NoVal when absent
  txn_segs      \* Transaction::seg_list

txnVars == <<is_ro, rv, read_set, write_set, txn_segs>>

VARIABLES
  pc,           \* where each thread is
  word,         \* address the loop of the current call is at
  last,         \* last address of a tm_read
  ver,          \* version loaded by the first validation of a read
  new_ver,      \* version loaded by the second
  got,          \* value copied to the client's buffer
  todo,         \* addresses a loop of tm_end has still to visit
  held,         \* locks_held
  wv            \* write version of a tm_end

readRegs == <<last, ver, new_ver, got>>
endRegs == <<todo, held, wv>>
callVars == <<pc, word, readRegs, endRegs>>

(***************************************************************************)
(* History variables: they record what happened and no step depends on     *)
(* them (Accessible apart, which says what a client can know).             *)
(***************************************************************************)
VARIABLES
  hist,         \* per word, the pairs <<write version, value>> committed
  reads,        \* per thread, the pairs <<address, value>> its open
                \* transaction took from shared memory
  raced,        \* per thread, whether a lock was released between the two
                \* loads that end the validation of one of those reads
  published     \* segments allocated by committed transactions

histVars == <<hist, reads, raced, published>>

vars == <<sharedVars, txnVars, callVars, histVars>>

-----------------------------------------------------------------------------
\* &region->locks[(word)addr % NUM_LOCKS]
LockOf(a) == a % NumLocks

\* The word of the lock that protects address a.
LockAt(a) == locks[LockOf(a)]

\* The keys of a transaction's write set.
WriteDom(t) == {a \in Addr : write_set[t][a] # NoVal}

\* The addresses a client can name.
Accessible(t) == FirstSegment \cup txn_segs[t] \cup published

\* n consecutive words from address a.
Words(a, n) == a..(a + n - 1)

Set(f, t, x) == [f EXCEPT ![t] = x]

\* Where a thread is: outside any transaction, between two calls, in the
\* part of tm_end that can still fail, and in the part that cannot.
ReadSteps == {"pre_version", "pre_locked", "copy", "post_version", "post_locked"}
TrySteps == {"lock", "unlock", "clock", "validate", "validate_version"}
CommitSteps == {"write", "set_version", "splice_lock", "splice"}
Steps == {"idle", "ready"} \cup ReadSteps \cup TrySteps \cup CommitSteps

Init ==
  /\ gvc = 0
  /\ locks = [l \in Lock |-> 0]
  /\ mem \in {m \in [Addr -> Val] : \A a \in FirstSegment : m[a] = Zero}
  /\ seg_list = {}
  /\ list_lock = NoThread
  /\ live = {}
  /\ alive = TRUE
  /\ is_ro = [t \in Thread |-> FALSE]
  /\ rv = [t \in Thread |-> 0]
  /\ read_set = [t \in Thread |-> {}]
  /\ write_set = [t \in Thread |-> [a \in Addr |-> NoVal]]
  /\ txn_segs = [t \in Thread |-> {}]
  /\ pc = [t \in Thread |-> "idle"]
  /\ word = [t \in Thread |-> 0]
  /\ last = [t \in Thread |-> 0]
  /\ ver = [t \in Thread |-> 0]
  /\ new_ver = [t \in Thread |-> 0]
  /\ got = [t \in Thread |-> Zero]
  /\ todo = [t \in Thread |-> {}]
  /\ held = [t \in Thread |-> {}]
  /\ wv = [t \in Thread |-> 0]
  /\ hist = [a \in Addr |-> {<<0, Zero>>}]
  /\ reads = [t \in Thread |-> {}]
  /\ raced = [t \in Thread |-> FALSE]
  /\ published = {}

-----------------------------------------------------------------------------
\* The read-write transactions that have still to increment the clock.
Pending == {t \in Writers : pc[t] # "idle" /\ ~is_ro[t] /\ wv[t] = 0}

\* Bound: the clock can still serve every one of them and one more.
ClockBudget == gvc + Cardinality(Pending) < MaxClock

\* tm_begin(ro): sample the clock.
tm_begin(t, ro) ==
  /\ alive
  /\ pc[t] = "idle"
  /\ IF ro THEN t \in Readers ELSE t \in Writers /\ ClockBudget
  /\ is_ro' = Set(is_ro, t, ro)
  /\ rv' = Set(rv, t, gvc)
  /\ pc' = Set(pc, t, "ready")
  /\ UNCHANGED <<sharedVars, read_set, write_set, txn_segs,
                 word, readRegs, endRegs, histVars>>

\* Mutant of FreeSegments: the destructor forgets its list.
FreeSegmentsLeaks(segs) == UNCHANGED live

\* The loop of a destructor over its seg_list: each segment is freed.
FreeSegments(segs) == live' = live \ segs

\* delete txn, and the return from the call: the destructor frees the
\* segments still in the transaction's list, here segs.
DeleteTxn(t, segs) ==
  /\ FreeSegments(segs)
  /\ pc' = Set(pc, t, "idle")
  /\ is_ro' = Set(is_ro, t, FALSE)
  /\ rv' = Set(rv, t, 0)
  /\ read_set' = Set(read_set, t, {})
  /\ write_set' = Set(write_set, t, [a \in Addr |-> NoVal])
  /\ txn_segs' = Set(txn_segs, t, {})
  /\ word' = Set(word, t, 0)
  /\ last' = Set(last, t, 0)
  /\ ver' = Set(ver, t, 0)
  /\ new_ver' = Set(new_ver, t, 0)
  /\ got' = Set(got, t, Zero)
  /\ todo' = Set(todo, t, {})
  /\ held' = Set(held, t, {})
  /\ wv' = Set(wv, t, 0)
  /\ reads' = Set(reads, t, {})
  /\ raced' = Set(raced, t, FALSE)
  /\ UNCHANGED <<alive, hist, published>>

\* The transaction aborts: its allocations go with it.
Abort(t) == DeleteTxn(t, txn_segs[t])

-----------------------------------------------------------------------------
(***************************************************************************)
(* tm_read: for each word, load its lock's version, load its lock bit,     *)
(* copy the word, load the version again, load the bit again.  The two     *)
(* branches of the code (read-only and read-write) make the same accesses  *)
(* in the same order.                                                      *)
(***************************************************************************)
\* Mutant of tm_read: the loop runs once too often (i <= size).
tm_readTooFar(t, a, n) ==
  /\ pc[t] = "ready"
  /\ Words(a, n) \subseteq Accessible(t)
  /\ pc' = Set(pc, t, "pre_version")
  /\ word' = Set(word, t, a)
  /\ last' = Set(last, t, a + n)
  /\ UNCHANGED <<sharedVars, txnVars, ver, new_ver, got, endRegs, histVars>>

tm_read(t, a, n) ==
  /\ pc[t] = "ready"
  /\ Words(a, n) \subseteq Accessible(t)
  /\ pc' = Set(pc, t, "pre_version")
  /\ word' = Set(word, t, a)
  /\ last' = Set(last, t, a + n - 1)
  /\ UNCHANGED <<sharedVars, txnVars, ver, new_ver, got, endRegs, histVars>>

PreVersion(t) ==
  /\ pc[t] = "pre_version"
  /\ ver' = Set(ver, t, getVersion(LockAt(word[t])))
  /\ pc' = Set(pc, t, "pre_locked")
  /\ UNCHANGED <<sharedVars, txnVars, word, last, new_ver, got, endRegs, histVars>>

\* The first validation rejects a locked word or one newer than the snapshot.
PreValidateFails(t) == isLocked(LockAt(word[t])) \/ ver[t] > rv[t]

PreLocked(t) ==
  /\ pc[t] = "pre_locked"
  /\ \/ /\ PreValidateFails(t)
        /\ Abort(t)
        /\ UNCHANGED <<gvc, locks, mem, seg_list, list_lock>>
     \/ /\ ~PreValidateFails(t)
        /\ pc' = Set(pc, t, "copy")
        /\ UNCHANGED <<sharedVars, txnVars, word, readRegs, endRegs, histVars>>

\* A read-write transaction sees its own buffered write.
ReadsOwnWrite(t) == ~is_ro[t] /\ write_set[t][word[t]] # NoVal

\* memcpy(target_addr, val_addr, word_size)
Copy(t) ==
  /\ pc[t] = "copy"
  /\ got' = Set(got, t, IF ReadsOwnWrite(t) THEN write_set[t][word[t]] ELSE mem[word[t]])
  /\ pc' = Set(pc, t, "post_version")
  /\ UNCHANGED <<sharedVars, txnVars, word, last, ver, new_ver, endRegs, histVars>>

PostVersion(t) ==
  /\ pc[t] = "post_version"
  /\ new_ver' = Set(new_ver, t, getVersion(LockAt(word[t])))
  /\ pc' = Set(pc, t, "post_locked")
  /\ UNCHANGED <<sharedVars, txnVars, word, last, ver, got, endRegs, histVars>>

\* Mutant of PostValidateFails: the version is not compared with the first.
PostValidateSkipsVersion(t) == isLocked(LockAt(word[t]))

\* The second validation rejects a locked word or one whose version moved.
PostValidateFails(t) ==
  \/ isLocked(LockAt(word[t]))
  \/ new_ver[t] # ver[t]
  \/ is_ro[t] /\ new_ver[t] > rv[t]

\* The word is read: a read-write transaction remembers it, and the loop goes
\* to the next word or tm_read returns true.
WordRead(t) ==
  /\ read_set' = IF is_ro[t] THEN read_set ELSE Set(read_set, t, read_set[t] \cup {word[t]})
  /\ reads' = IF ReadsOwnWrite(t) THEN reads
              ELSE Set(reads, t, reads[t] \cup {<<word[t], got[t]>>})
  /\ raced' = Set(raced, t, \/ raced[t]
                            \/ getVersion(LockAt(word[t])) # new_ver[t])
  /\ IF word[t] < last[t]
       THEN /\ pc' = Set(pc, t, "pre_version")
            /\ word' = Set(word, t, word[t] + 1)
            /\ UNCHANGED last
       ELSE /\ pc' = Set(pc, t, "ready")
            /\ word' = Set(word, t, 0)
            /\ last' = Set(last, t, 0)
  /\ ver' = Set(ver, t, 0)
  /\ new_ver' = Set(new_ver, t, 0)
  /\ got' = Set(got, t, Zero)
  /\ UNCHANGED <<sharedVars, is_ro, rv, write_set, txn_segs, endRegs, hist, published>>

PostLocked(t) ==
  /\ pc[t] = "post_locked"
  /\ \/ /\ PostValidateFails(t)
        /\ Abort(t)
        /\ UNCHANGED <<gvc, locks, mem, seg_list, list_lock>>
     \/ /\ ~PostValidateFails(t)
        /\ WordRead(t)

-----------------------------------------------------------------------------
\* No two words of the set share a lock.
NoClash(S) == \A a, b \in S : a # b => LockOf(a) # LockOf(b)

\* tm_write: buffer the words; always returns true.
tm_write(t, a, n) ==
  /\ pc[t] = "ready"
  /\ ~is_ro[t]
  /\ Words(a, n) \subseteq Accessible(t)
  /\ ClashFree => NoClash(WriteDom(t) \cup Words(a, n))
  /\ \E val \in [Words(a, n) -> Val] :
       write_set' = Set(write_set, t,
                        [b \in Addr |-> IF b \in Words(a, n) THEN val[b] ELSE write_set[t][b]])
  /\ UNCHANGED <<sharedVars, is_ro, rv, read_set, txn_segs, callVars, histVars>>

\* Mutant of tm_alloc: no memset.
tm_allocDirty(t, s) ==
  /\ pc[t] = "ready"
  /\ ~is_ro[t]
  /\ s \notin live
  /\ live' = live \cup {s}
  /\ txn_segs' = Set(txn_segs, t, txn_segs[t] \cup {s})
  /\ UNCHANGED <<gvc, locks, mem, seg_list, list_lock, alive,
                 is_ro, rv, read_set, write_set, callVars, histVars>>

\* tm_alloc: a zeroed segment, private to the transaction for now.  Without
\* memory it returns nomem and changes nothing.
tm_alloc(t, s) ==
  /\ pc[t] = "ready"
  /\ ~is_ro[t]
  /\ s \notin live
  /\ live' = live \cup {s}
  /\ mem' = [mem EXCEPT ![s] = Zero]
  /\ txn_segs' = Set(txn_segs, t, txn_segs[t] \cup {s})
  /\ UNCHANGED <<gvc, locks, seg_list, list_lock, alive,
                 is_ro, rv, read_set, write_set, callVars, histVars>>

\* tm_free does nothing: a segment lives until tm_destroy.
tm_free(t, s) ==
  /\ pc[t] = "ready"
  /\ ~is_ro[t]
  /\ s \in Accessible(t) \ FirstSegment
  /\ UNCHANGED vars

-----------------------------------------------------------------------------
(***************************************************************************)
(* tm_end.  A read-only transaction just ends.  A read-write one locks its *)
(* write set, takes a write version, validates its read set unless nobody  *)
(* committed since it began, copies its writes to memory releasing each    *)
(* lock with the write version, and hands its segments to the region.      *)
(* The containers are unordered: a loop visits its elements in any order.  *)
(***************************************************************************)
tm_end(t) ==
  /\ pc[t] = "ready"
  /\ \/ /\ is_ro[t]
        /\ DeleteTxn(t, txn_segs[t])
        /\ UNCHANGED <<gvc, locks, mem, seg_list, list_lock>>
     \/ /\ ~is_ro[t]
        /\ todo' = Set(todo, t, WriteDom(t))
        /\ pc' = Set(pc, t, IF WriteDom(t) = {} THEN "clock" ELSE "lock")
        /\ UNCHANGED <<sharedVars, txnVars, word, readRegs, held, wv, histVars>>

\* Mutant of GiveUp: the locks are not released.
GiveUpKeepsLocks(t) == Abort(t) /\ UNCHANGED <<gvc, locks, mem, seg_list, list_lock>>

\* Give up: unlock what is held, then delete the transaction.
GiveUp(t) ==
  IF held[t] = {}
    THEN Abort(t) /\ UNCHANGED <<gvc, locks, mem, seg_list, list_lock>>
    ELSE /\ pc' = Set(pc, t, "unlock")
         /\ todo' = Set(todo, t, {})
         /\ word' = Set(word, t, 0)
         /\ UNCHANGED <<sharedVars, txnVars, readRegs, held, wv, histVars>>

\* The locking loop is done with address a.
LockedWord(t, a) ==
  /\ todo' = Set(todo, t, todo[t] \ {a})
  /\ pc' = Set(pc, t, IF todo[t] = {a} THEN "clock" ELSE "lock")
  /\ UNCHANGED <<gvc, mem, seg_list, list_lock, live, alive, txnVars,
                 word, readRegs, wv, histVars>>

\* lock() returned true.
LockTaken(t, a) ==
  /\ pc[t] = "lock"
  /\ a \in todo[t]
  /\ ~isLocked(LockAt(a))
  /\ locks' = [locks EXCEPT ![LockOf(a)] = lockDesired(@)]
  /\ held' = Set(held, t, held[t] \cup {LockOf(a)})
  /\ LockedWord(t, a)

\* lock() returned false on a lock taken earlier in this loop.
LockMine(t, a) ==
  /\ pc[t] = "lock"
  /\ a \in todo[t]
  /\ LockOf(a) \in held[t]
  /\ UNCHANGED <<locks, held>>
  /\ LockedWord(t, a)

\* lock() returned false: the lock is taken, its word moved under the
\* compare-exchange, or the weak compare-exchange failed for no reason.
LockBusy(t, a) ==
  /\ pc[t] = "lock"
  /\ a \in todo[t]
  /\ LockOf(a) \notin held[t]
  /\ GiveUp(t)

\* Mutant of Unlock: the lock word is cleared, version included.
UnlockClears(t, l) ==
  /\ pc[t] = "unlock"
  /\ l \in held[t]
  /\ locks' = [locks EXCEPT ![l] = 0]
  /\ IF held[t] = {l}
       THEN Abort(t) /\ UNCHANGED <<gvc, mem, seg_list, list_lock>>
       ELSE /\ held' = Set(held, t, held[t] \ {l})
            /\ UNCHANGED <<gvc, mem, seg_list, list_lock, live, alive, txnVars,
                           pc, word, readRegs, todo, wv, histVars>>

\* Release one lock of a transaction that gives up.
Unlock(t, l) ==
  /\ pc[t] = "unlock"
  /\ l \in held[t]
  /\ locks' = [locks EXCEPT ![l] = unlockValue(@)]
  /\ IF held[t] = {l}
       THEN Abort(t) /\ UNCHANGED <<gvc, mem, seg_list, list_lock>>
       ELSE /\ held' = Set(held, t, held[t] \ {l})
            /\ UNCHANGED <<gvc, mem, seg_list, list_lock, live, alive, txnVars,
                           pc, word, readRegs, todo, wv, histVars>>

\* Nothing can stop the transaction any more: its writes are committed at
\* version v, although they still have to reach the memory.
Commit(t, v) ==
  /\ hist' = [a \in Addr |-> IF a \in WriteDom(t) THEN hist[a] \cup {<<v, write_set[t][a]>>}
                             ELSE hist[a]]
  /\ published' = published \cup txn_segs[t]
  /\ todo' = Set(todo, t, WriteDom(t))
  /\ word' = Set(word, t, 0)
  /\ pc' = Set(pc, t, IF WriteDom(t) = {} THEN "splice_lock" ELSE "write")
  /\ UNCHANGED <<locks, mem, seg_list, list_lock, live, alive, txnVars,
                 readRegs, held, reads, raced>>

\* Mutant of NobodyCommitted: fetch_add taken for the incremented value.
NobodyCommittedOffByOne(t) == rv[t] + 1 = gvc

\* rv + 1 = wv: nobody took a write version since the transaction began.
NobodyCommitted(t) == rv[t] + 1 = gvc + 1

\* wv = gvc.fetch_add(1) + 1
IncrementClock(t) ==
  /\ pc[t] = "clock"
  /\ gvc' = gvc + 1
  /\ wv' = Set(wv, t, gvc + 1)
  /\ IF NobodyCommitted(t) \/ read_set[t] = {}
       THEN Commit(t, gvc + 1)
       ELSE /\ pc' = Set(pc, t, "validate")
            /\ todo' = Set(todo, t, read_set[t])
            /\ UNCHANGED <<locks, mem, seg_list, list_lock, live, alive, txnVars,
                           word, readRegs, held, histVars>>

\* Mutant of ValidateLocked: the lock bit is not looked at.
ValidateIgnoresLock(t, a) ==
  /\ pc[t] = "validate"
  /\ a \in todo[t]
  /\ LockOf(a) \notin held[t]
  /\ word' = Set(word, t, a)
  /\ pc' = Set(pc, t, "validate_version")
  /\ UNCHANGED <<sharedVars, txnVars, readRegs, endRegs, histVars>>

\* Validation of an address whose lock is not ours: first the lock bit...
ValidateLocked(t, a) ==
  /\ pc[t] = "validate"
  /\ a \in todo[t]
  /\ LockOf(a) \notin held[t]
  /\ \/ /\ isLocked(LockAt(a))
        /\ GiveUp(t)
     \/ /\ ~isLocked(LockAt(a))
        /\ word' = Set(word, t, a)
        /\ pc' = Set(pc, t, "validate_version")
        /\ UNCHANGED <<sharedVars, txnVars, readRegs, endRegs, histVars>>

\* ... then, and for a lock of ours at once, the version.
CheckVersion(t, a) ==
  \/ /\ getVersion(LockAt(a)) > rv[t]
     /\ GiveUp(t)
  \/ /\ getVersion(LockAt(a)) <= rv[t]
     /\ UNCHANGED <<gvc, wv>>
     /\ IF todo[t] = {a}
          THEN Commit(t, wv[t])
          ELSE /\ pc' = Set(pc, t, "validate")
               /\ todo' = Set(todo, t, todo[t] \ {a})
               /\ word' = Set(word, t, 0)
               /\ UNCHANGED <<locks, mem, seg_list, list_lock, live, alive, txnVars,
                              readRegs, held, histVars>>

ValidateVersion(t) ==
  /\ pc[t] = "validate_version"
  /\ CheckVersion(t, word[t])

ValidateMine(t, a) ==
  /\ pc[t] = "validate"
  /\ a \in todo[t]
  /\ LockOf(a) \in held[t]
  /\ CheckVersion(t, a)

\* Copy one word of the write set to the shared memory.
WriteBack(t, a) ==
  /\ pc[t] = "write"
  /\ a \in todo[t]
  /\ mem' = [mem EXCEPT ![a] = write_set[t][a]]
  /\ word' = Set(word, t, a)
  /\ pc' = Set(pc, t, "set_version")
  /\ UNCHANGED <<gvc, locks, seg_list, list_lock, live, alive, txnVars,
                 readRegs, endRegs, histVars>>

\* Mutant of SetVersion: the lock is released with the snapshot's version.
SetVersionStale(t) ==
  /\ pc[t] = "set_version"
  /\ locks' = [locks EXCEPT ![LockOf(word[t])] = setVersionValue(rv[t])]
  /\ todo' = Set(todo, t, todo[t] \ {word[t]})
  /\ word' = Set(word, t, 0)
  /\ pc' = Set(pc, t, IF todo[t] = {word[t]} THEN "splice_lock" ELSE "write")
  /\ UNCHANGED <<gvc, mem, seg_list, list_lock, live, alive, txnVars,
                 readRegs, held, wv, histVars>>

\* Release the lock of the word just copied.
SetVersion(t) ==
  /\ pc[t] = "set_version"
  /\ locks' = [locks EXCEPT ![LockOf(word[t])] = setVersionValue(wv[t])]
  /\ todo' = Set(todo, t, todo[t] \ {word[t]})
  /\ word' = Set(word, t, 0)
  /\ pc' = Set(pc, t, IF todo[t] = {word[t]} THEN "splice_lock" ELSE "write")
  /\ UNCHANGED <<gvc, mem, seg_list, list_lock, live, alive, txnVars,
                 readRegs, held, wv, histVars>>

SpliceLock(t) ==
  /\ pc[t] = "splice_lock"
  /\ list_lock = NoThread
  /\ list_lock' = t
  /\ pc' = Set(pc, t, "splice")
  /\ UNCHANGED <<gvc, locks, mem, seg_list, live, alive, txnVars,
                 word, readRegs, endRegs, histVars>>

\* Mutant of Splice: the segments stay with the transaction, whose destructor
\* frees them.
SpliceForgotten(t) ==
  /\ pc[t] = "splice"
  /\ list_lock' = NoThread
  /\ DeleteTxn(t, txn_segs[t])
  /\ UNCHANGED <<gvc, locks, mem, seg_list>>

\* Mutant of Splice: list_lock is not released.
SpliceKeepsLock(t) ==
  /\ pc[t] = "splice"
  /\ seg_list' = seg_list \cup txn_segs[t]
  /\ DeleteTxn(t, {})
  /\ UNCHANGED <<gvc, locks, mem, list_lock>>

\* The region takes the transaction's segments, so the destructor finds none.
Splice(t) ==
  /\ pc[t] = "splice"
  /\ seg_list' = seg_list \cup txn_segs[t]
  /\ list_lock' = NoThread
  /\ DeleteTxn(t, {})
  /\ UNCHANGED <<gvc, locks, mem>>

-----------------------------------------------------------------------------
\* tm_destroy, called with no transaction running: the destructor of the
\* region frees every segment of its list.
tm_destroy ==
  /\ alive
  /\ \A t \in Thread : pc[t] = "idle"
  /\ alive' = FALSE
  /\ FreeSegments(seg_list)
  /\ seg_list' = {}
  /\ UNCHANGED <<gvc, locks, mem, list_lock, txnVars, callVars, histVars>>

\* Nothing happens to a destroyed region.
Destroyed == ~alive /\ UNCHANGED vars

\* The calls a client makes.
Call(t) ==
  \/ \E ro \in BOOLEAN : tm_begin(t, ro)
  \/ \E a \in Addr, n \in 1..MaxLen : tm_read(t, a, n)
  \/ \E a \in Addr, n \in 1..MaxLen : tm_write(t, a, n)
  \/ \E s \in Heap : tm_alloc(t, s)
  \/ \E s \in Heap : tm_free(t, s)
  \/ tm_end(t)

\* The steps of a call in progress.
Step(t) ==
  \/ PreVersion(t)
  \/ PreLocked(t)
  \/ Copy(t)
  \/ PostVersion(t)
  \/ PostLocked(t)
  \/ \E a \in Addr : LockTaken(t, a)
  \/ \E a \in Addr : LockMine(t, a)
  \/ \E a \in Addr : LockBusy(t, a)
  \/ \E l \in Lock : Unlock(t, l)
  \/ IncrementClock(t)
  \/ \E a \in Addr : ValidateLocked(t, a)
  \/ ValidateVersion(t)
  \/ \E a \in Addr : ValidateMine(t, a)
  \/ \E a \in Addr : WriteBack(t, a)
  \/ SetVersion(t)
  \/ SpliceLock(t)
  \/ Splice(t)

Next ==
  \/ \E t \in Thread : Call(t)
  \/ \E t \in Thread : Step(t)
  \/ tm_destroy
  \/ Destroyed

Spec == Init /\ [][Next]_vars

\* A thread inside a call keeps running: the operating system schedules it.
\* Nothing obliges a client to make a call.
Fairness == \A t \in Thread : WF_vars(Step(t))

-----------------------------------------------------------------------------
\* Types of the variables.  An address register is 0 when not in use.
TypeOK ==
  /\ gvc \in Nat
  /\ locks \in [Lock -> Nat]
  /\ mem \in [Addr -> Val]
  /\ seg_list \subseteq Heap
  /\ list_lock \in Thread \cup {NoThread}
  /\ live \subseteq Heap
  /\ alive \in BOOLEAN
  /\ is_ro \in [Thread -> BOOLEAN]
  /\ rv \in [Thread -> Nat]
  /\ read_set \in [Thread -> SUBSET Addr]
  /\ write_set \in [Thread -> [Addr -> Val \cup {NoVal}]]
  /\ txn_segs \in [Thread -> SUBSET Heap]
  /\ pc \in [Thread -> Steps]
  /\ word \in [Thread -> Addr \cup {0}]
  /\ last \in [Thread -> Addr \cup {0}]
  /\ ver \in [Thread -> Nat]
  /\ new_ver \in [Thread -> Nat]
  /\ got \in [Thread -> Val]
  /\ todo \in [Thread -> SUBSET Addr]
  /\ held \in [Thread -> SUBSET Lock]
  /\ wv \in [Thread -> Nat]
  /\ hist \in [Addr -> SUBSET (Nat \X Val)]
  /\ reads \in [Thread -> SUBSET (Addr \X Val)]
  /\ raced \in [Thread -> BOOLEAN]
  /\ published \subseteq Heap

\* The locks thread t has taken and not yet released.
Owned(t) ==
  IF pc[t] \in TrySteps THEN held[t]
  ELSE IF pc[t] \in {"write", "set_version"} THEN {LockOf(a) : a \in todo[t]}
  ELSE {}

\* v is the value of word a after the commits up to version s.
IsValueAt(a, v, s) ==
  \E p \in hist[a] :
    /\ p[1] <= s
    /\ p[2] = v
    /\ \A q \in hist[a] : q[1] <= s => q[1] <= p[1]

\* What transaction t read is the memory as of version s.
ReadsAt(t, s) == \A r \in reads[t] : IsValueAt(r[1], r[2], s)

\* A lock bit is set exactly while one thread inside tm_end owns the lock, and
\* two threads never own the same one: whatever path leaves tm_end, every lock
\* it took is released, and nobody releases the lock of another.
LockOwnership ==
  /\ \A l \in Lock : isLocked(locks[l]) <=> \E t \in Thread : l \in Owned(t)
  /\ \A t, u \in Thread : t # u => Owned(t) \cap Owned(u) = {}

\* Everything a read-write transaction read is, at the moment it can no longer
\* fail, the memory left by the commits before its own: ordering committed
\* transactions by write version explains all their reads, whether tm_end
\* validated the read set or skipped the validation.
CommittedReadsSerial ==
  \A t \in Thread : pc[t] \in CommitSteps => ReadsAt(t, wv[t] - 1)

\* Until a tm_read is overtaken by the release of a lock between the two loads
\* that end its validation, all a transaction has read, in any call, belongs to
\* the snapshot its tm_begin took.
SnapshotUnlessRaced ==
  \A t \in Thread : ~raced[t] => ReadsAt(t, rv[t])

\* All the reads of a read-only transaction appear to come from one atomic
\* snapshot of the memory.
ReadOnlySnapshot ==
  \A t \in Thread : is_ro[t] => \E s \in 0..gvc : ReadsAt(t, s)

\* tm_read never lets a transaction go on with a value that no transaction
\* committed: neither the buffered write of another, nor what a segment held
\* before it was allocated.
NoDirtyRead ==
  \A t \in Thread : \A r \in reads[t] : \E p \in hist[r[1]] : p[2] = r[2]

\* While its lock is free, a word contains what its last committed writer wrote
\* and the version of the lock is not older than that commit.
UnlockedWordsAreCommitted ==
  \A a \in FirstSegment \cup live :
    ~isLocked(LockAt(a)) => IsValueAt(a, mem[a], getVersion(LockAt(a)))
                            /\ \A p \in hist[a] : p[1] <= getVersion(LockAt(a))

\* A segment obtained from the allocator is in exactly one list, that of one
\* open transaction or that of the region: none is lost, none is freed twice,
\* and after tm_destroy none is left.
SegmentOwnership ==
  /\ live = seg_list \cup UNION {txn_segs[t] : t \in Thread}
  /\ \A t \in Thread : txn_segs[t] \cap seg_list = {}
  /\ \A t, u \in Thread : t # u => txn_segs[t] \cap txn_segs[u] = {}
  /\ ~alive => live = {}

\* A segment that a committed transaction allocated stays allocated until
\* tm_destroy, so no transaction reads or writes back to freed memory.
PublishedLive ==
  alive => /\ published \subseteq live
           /\ \A t \in Thread : WriteDom(t) \subseteq FirstSegment \cup live

\* No step takes the version of a lock back: a release after a failed commit
\* keeps it, a release after a commit moves it forward.
VersionsOnlyGrow ==
  [][\A l \in Lock : getVersion(locks'[l]) >= getVersion(locks[l])]_vars

\* Every call returns: no thread waits for ever for list_lock, and no loop of
\* tm_read or tm_end goes on for ever.
CallReturns ==
  \A t \in Thread :
    pc[t] \notin {"idle", "ready"} ~> pc[t] \in {"idle", "ready"}

=============================================================================
