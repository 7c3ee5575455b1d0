---------------------------- MODULE ReferenceTM -----------------------------
(***************************************************************************)
(* The reference transaction manager of reference/tm.c: one reader-writer  *)
(* lock held from tm_begin to tm_end, writes in place, and a doubly linked *)
(* list of the segments that transactions allocated.                       *)
(*                                                                         *)
(* Each access to a shared word or to a field of the list is a step of its *)
(* own.  pthread_rwlock_t is external: a set of readers and a writer.  A   *)
(* call that finds no memory, or no lock, returns an error and changes     *)
(* nothing; in tm_create it also frees what it obtained before.            *)
(***************************************************************************)
EXTENDS Naturals, FiniteSets

CONSTANTS
  Threads,
  NoThread,
  FirstSegment,  \* word addresses of the segment tm_create allocates
  Region, Start, \* the blocks of memory of the region and of its first segment
  Segments,      \* addresses where tm_alloc can place a segment (of one word)
  Null,
  Val,
  Zero,
  MaxLen         \* bound: words per tm_read or tm_write call

Addr == FirstSegment \cup Segments

ASSUME ReferenceAssumption ==
  /\ NoThread \notin Threads
  /\ FirstSegment \subseteq Nat
  /\ Segments \subseteq Nat
  /\ IsFiniteSet(Segments)
  /\ FirstSegment \cap Segments = {}
  /\ Null \notin Segments
  /\ Region # Start
  /\ {Region, Start} \cap Segments = {}
  /\ Zero \in Val
  /\ MaxLen \in Nat \ {0}

VARIABLES
  phase,       \* life of the region: steps of tm_create and tm_destroy
  blocks,      \* the blocks allocated and not freed
  misfreed,    \* history: a block was freed that was not allocated
  rwreaders,   \* the rwlock: threads with shared access
  rwwriter,    \* the rwlock: thread with exclusive access
  mem,         \* the shared words
  allocs,      \* region->allocs
  prev, next   \* the fields of each segment_node

regionVars == <<phase, blocks, misfreed>>
lockVars == <<rwreaders, rwwriter>>
listVars == <<allocs, prev, next>>

VARIABLES
  tx,          \* "out", or the kind of each thread's open transaction
  pc,          \* where the thread is in a call
  word, last,  \* words a copying loop has still to visit
  sn,          \* segment_node of a tm_alloc or tm_free
  got          \* word last copied to the client

callVars == <<tx, pc, word, last, sn, got>>

\* History: the memory when each transaction began.
VARIABLE base

vars == <<regionVars, lockVars, mem, listVars, callVars, base>>

Blank == [a \in Addr |-> Zero]

Init ==
  /\ phase = "malloc"
  /\ blocks = {}
  /\ misfreed = FALSE
  /\ rwreaders = {}
  /\ rwwriter = NoThread
  /\ mem \in [Addr -> Val]
  /\ allocs = Null
  /\ prev = [s \in Segments |-> Null]
  /\ next = [s \in Segments |-> Null]
  /\ tx = [t \in Threads |-> "out"]
  /\ pc = [t \in Threads |-> "ready"]
  /\ word = [t \in Threads |-> 0]
  /\ last = [t \in Threads |-> 0]
  /\ sn = [t \in Threads |-> Null]
  /\ got = [t \in Threads |-> Zero]
  /\ base = [t \in Threads |-> Blank]

\* free() of some blocks.
Free(B) ==
  /\ blocks' = blocks \ B
  /\ misfreed' = (misfreed \/ ~(B \subseteq blocks))

\* What the fields of a freed node hold matters to nobody: tm_alloc sets both.
Forget(s) ==
  /\ prev' = [prev EXCEPT ![s] = Null]
  /\ next' = [next EXCEPT ![s] = Null]

-----------------------------------------------------------------------------
(***************************************************************************)
(* tm_create: the region, its first segment, its lock; each can fail.      *)
(***************************************************************************)
CreateRegion ==
  /\ phase = "malloc"
  /\ \/ phase' = "memalign" /\ blocks' = blocks \cup {Region}
     \/ phase' = "failed" /\ UNCHANGED blocks
  /\ UNCHANGED <<misfreed, lockVars, mem, listVars, callVars, base>>

CreateStart ==
  /\ phase = "memalign"
  /\ \/ phase' = "lock_init" /\ blocks' = blocks \cup {Start} /\ UNCHANGED misfreed
     \/ phase' = "failed" /\ Free({Region})
  /\ UNCHANGED <<lockVars, mem, listVars, callVars, base>>

\* Mutant of CreateLock: the first segment is forgotten.
CreateLockLeaks ==
  /\ phase = "lock_init"
  /\ \/ /\ phase' = "exists"
        /\ mem' = [a \in Addr |-> IF a \in FirstSegment THEN Zero ELSE mem[a]]
        /\ allocs' = Null
        /\ UNCHANGED <<blocks, misfreed>>
     \/ /\ phase' = "failed"
        /\ Free({Region})
        /\ UNCHANGED <<mem, allocs>>
  /\ UNCHANGED <<lockVars, prev, next, callVars, base>>

CreateLock ==
  /\ phase = "lock_init"
  /\ \/ /\ phase' = "exists"
        /\ mem' = [a \in Addr |-> IF a \in FirstSegment THEN Zero ELSE mem[a]]
        /\ allocs' = Null
        /\ UNCHANGED <<blocks, misfreed>>
     \/ /\ phase' = "failed"
        /\ Free({Start, Region})
        /\ UNCHANGED <<mem, allocs>>
  /\ UNCHANGED <<lockVars, prev, next, callVars, base>>

-----------------------------------------------------------------------------
(***************************************************************************)
(* tm_destroy, called with no transaction running.                         *)
(***************************************************************************)
\* One iteration of the loop over the segments.
DestroySegment ==
  /\ phase \in {"exists", "destroying"}
  /\ \A t \in Threads : tx[t] = "out"
  /\ allocs # Null
  /\ phase' = "destroying"
  /\ Free({allocs})
  /\ Forget(allocs)
  /\ allocs' = next[allocs]
  /\ UNCHANGED <<lockVars, mem, callVars, base>>

\* The rest: the first segment, the lock and the region.
DestroyRegion ==
  /\ phase \in {"exists", "destroying"}
  /\ \A t \in Threads : tx[t] = "out"
  /\ allocs = Null
  /\ phase' = "destroyed"
  /\ Free({Start, Region})
  /\ UNCHANGED <<lockVars, mem, listVars, callVars, base>>

-----------------------------------------------------------------------------
(***************************************************************************)
(* tm_begin and tm_end.                                                    *)
(***************************************************************************)
\* shared_lock_acquire_shared
AcquireShared(t) ==
  /\ rwwriter = NoThread
  /\ rwreaders' = rwreaders \cup {t}
  /\ UNCHANGED rwwriter

\* Mutant of Acquire: readers are not waited for.
AcquireOverReaders(t) ==
  /\ rwwriter = NoThread
  /\ rwwriter' = t
  /\ UNCHANGED rwreaders

\* shared_lock_acquire
Acquire(t) ==
  /\ rwwriter = NoThread
  /\ rwreaders = {}
  /\ rwwriter' = t
  /\ UNCHANGED rwreaders

tm_begin(t, ro) ==
  /\ phase = "exists"
  /\ tx[t] = "out"
  /\ IF ro THEN AcquireShared(t) ELSE Acquire(t)
  /\ tx' = [tx EXCEPT ![t] = IF ro THEN "ro" ELSE "rw"]
  /\ base' = [base EXCEPT ![t] = mem]
  /\ UNCHANGED <<regionVars, mem, listVars, pc, word, last, sn, got>>

\* Releases the lock in the mode in which it was taken; always commits.
tm_end(t) ==
  /\ tx[t] # "out"
  /\ pc[t] = "ready"
  /\ rwreaders' = rwreaders \ {t}
  /\ rwwriter' = IF rwwriter = t THEN NoThread ELSE rwwriter
  /\ tx' = [tx EXCEPT ![t] = "out"]
  /\ got' = [got EXCEPT ![t] = Zero]
  /\ base' = [base EXCEPT ![t] = Blank]
  /\ UNCHANGED <<regionVars, mem, listVars, pc, word, last, sn>>

-----------------------------------------------------------------------------
(***************************************************************************)
(* tm_read and tm_write: memcpy, word by word.                             *)
(***************************************************************************)
\* The words a client can name: the first segment and those in the list.
Accessible == FirstSegment \cup (blocks \cap Segments)

CopyCall(t, call, a, n) ==
  /\ tx[t] # "out"
  /\ pc[t] = "ready"
  /\ a..(a + n - 1) \subseteq Accessible
  /\ pc' = [pc EXCEPT ![t] = call]
  /\ word' = [word EXCEPT ![t] = a]
  /\ last' = [last EXCEPT ![t] = a + n - 1]
  /\ UNCHANGED <<regionVars, lockVars, mem, listVars, tx, sn, got, base>>

tm_read(t, a, n) == CopyCall(t, "read", a, n)

tm_write(t, a, n) == tx[t] = "rw" /\ CopyCall(t, "write", a, n)

\* The loop goes to the next word, or the call returns.
NextWord(t) ==
  IF word[t] < last[t]
    THEN word' = [word EXCEPT ![t] = @ + 1] /\ UNCHANGED <<pc, last>>
    ELSE /\ pc' = [pc EXCEPT ![t] = "ready"]
         /\ word' = [word EXCEPT ![t] = 0]
         /\ last' = [last EXCEPT ![t] = 0]

ReadWord(t) ==
  /\ pc[t] = "read"
  /\ got' = [got EXCEPT ![t] = mem[word[t]]]
  /\ NextWord(t)
  /\ UNCHANGED <<regionVars, lockVars, mem, listVars, tx, sn, base>>

WriteWord(t, v) ==
  /\ pc[t] = "write"
  /\ mem' = [mem EXCEPT ![word[t]] = v]
  /\ NextWord(t)
  /\ UNCHANGED <<regionVars, lockVars, listVars, tx, sn, got, base>>

-----------------------------------------------------------------------------
(***************************************************************************)
(* tm_alloc: a node in front of the list, then its segment zeroed.         *)
(***************************************************************************)
Goto(t, from, to) ==
  /\ pc[t] = from
  /\ pc' = [pc EXCEPT ![t] = to]

tm_alloc(t, s) ==
  /\ tx[t] = "rw"
  /\ s \in Segments \ blocks
  /\ Goto(t, "ready", "link_next")
  /\ blocks' = blocks \cup {s}
  /\ sn' = [sn EXCEPT ![t] = s]
  /\ prev' = [prev EXCEPT ![s] = Null]
  /\ next' = [next EXCEPT ![s] = allocs]
  /\ UNCHANGED <<phase, misfreed, lockVars, mem, allocs, tx, word, last, got, base>>

\* Mutant of LinkNext: the old head does not learn of its predecessor.
LinkNextNot(t) ==
  /\ Goto(t, "link_next", "link_head")
  /\ UNCHANGED <<regionVars, lockVars, mem, listVars, tx, word, last, sn, got, base>>

\* if (sn->next) sn->next->prev = sn
LinkNext(t) ==
  /\ Goto(t, "link_next", "link_head")
  /\ prev' = IF next[sn[t]] = Null THEN prev ELSE [prev EXCEPT ![next[sn[t]]] = sn[t]]
  /\ UNCHANGED <<regionVars, lockVars, mem, allocs, next, tx, word, last, sn, got, base>>

LinkHead(t) ==
  /\ Goto(t, "link_head", "zero")
  /\ allocs' = sn[t]
  /\ UNCHANGED <<regionVars, lockVars, mem, prev, next, tx, word, last, sn, got, base>>

ZeroSegment(t) ==
  /\ Goto(t, "zero", "ready")
  /\ mem' = [mem EXCEPT ![sn[t]] = Zero]
  /\ sn' = [sn EXCEPT ![t] = Null]
  /\ UNCHANGED <<regionVars, lockVars, listVars, tx, word, last, got, base>>

-----------------------------------------------------------------------------
(***************************************************************************)
(* tm_free: take the node out of the list and free it.                     *)
(***************************************************************************)
tm_free(t, s) ==
  /\ tx[t] = "rw"
  /\ s \in blocks \cap Segments
  /\ Goto(t, "ready", "unlink_next")
  /\ sn' = [sn EXCEPT ![t] = s]
  /\ IF prev[s] # Null
       THEN next' = [next EXCEPT ![prev[s]] = next[s]] /\ UNCHANGED allocs
       ELSE allocs' = next[s] /\ UNCHANGED next
  /\ UNCHANGED <<regionVars, lockVars, mem, prev, tx, word, last, got, base>>

UnlinkNext(t) ==
  /\ Goto(t, "unlink_next", "free")
  /\ prev' = IF next[sn[t]] = Null THEN prev ELSE [prev EXCEPT ![next[sn[t]]] = prev[sn[t]]]
  /\ UNCHANGED <<regionVars, lockVars, mem, allocs, next, tx, word, last, sn, got, base>>

FreeNode(t) ==
  /\ Goto(t, "free", "ready")
  /\ Free({sn[t]})
  /\ Forget(sn[t])
  /\ sn' = [sn EXCEPT ![t] = Null]
  /\ UNCHANGED <<phase, lockVars, mem, allocs, tx, word, last, got, base>>

-----------------------------------------------------------------------------
Call(t) ==
  \/ \E ro \in BOOLEAN : tm_begin(t, ro)
  \/ tm_end(t)
  \/ \E a \in Addr, n \in 1..MaxLen : tm_read(t, a, n)
  \/ \E a \in Addr, n \in 1..MaxLen : tm_write(t, a, n)
  \/ \E s \in Segments : tm_alloc(t, s)
  \/ \E s \in Segments : tm_free(t, s)

Step(t) ==
  \/ ReadWord(t)
  \/ \E v \in Val : WriteWord(t, v)
  \/ LinkNext(t)
  \/ LinkHead(t)
  \/ ZeroSegment(t)
  \/ UnlinkNext(t)
  \/ FreeNode(t)

\* The region does not exist any more, or never did.
Over == phase \in {"failed", "destroyed"} /\ UNCHANGED vars

Next ==
  \/ CreateRegion
  \/ CreateStart
  \/ CreateLock
  \/ \E t \in Threads : Call(t) \/ Step(t)
  \/ DestroySegment
  \/ DestroyRegion
  \/ Over

Spec == Init /\ [][Next]_vars

-----------------------------------------------------------------------------
\* The nodes within n steps from the head of the list.
Within[n \in Nat] ==
  IF n = 0 THEN {allocs} \ {Null}
  ELSE Within[n - 1] \cup ({next[s] : s \in Within[n - 1]} \ {Null})

\* Between calls that change it, the list contains the allocated segments and
\* no other, and its links agree in both directions; so tm_free can take any
\* segment out, and tm_destroy finds them all.
ListIsHeap ==
  (phase = "exists" /\ \A t \in Threads : sn[t] = Null) =>
    /\ Within[Cardinality(Segments)] = blocks \cap Segments
    /\ \A r, s \in blocks \cap Segments : next[r] = s <=> prev[s] = r
    /\ allocs # Null => prev[allocs] = Null

\* Whatever fails in tm_create and whatever transactions allocated and freed,
\* each block is freed once and none outlives the region.
BlocksFreedOnce ==
  /\ ~misfreed
  /\ phase \in {"failed", "destroyed"} => blocks = {}

(***************************************************************************)
(* A transaction that writes in place under the reader-writer lock behaves *)
(* as one that works on a copy and installs it at the end.                 *)
(***************************************************************************)
Mem0 ==
  [a \in Addr |-> IF a \in FirstSegment /\ phase \in {"malloc", "memalign", "lock_init", "failed"}
                    THEN Zero ELSE mem[a]]

Serial ==
  INSTANCE SerialMemory
    WITH amem <- IF rwwriter = NoThread THEN Mem0 ELSE base[rwwriter],
         amode <- tx,
         abase <- base,
         aview <- [t \in Threads |-> IF tx[t] = "out" THEN Blank ELSE mem],
         agot <- got

\* Transactions are serializable and a read-only one sees a snapshot: what any
\* transaction reads, in any call, is the memory committed when it began with
\* its own writes on top, while others wait for or share the lock.
ImplementsSerialMemory == Serial!ASpec

=============================================================================
