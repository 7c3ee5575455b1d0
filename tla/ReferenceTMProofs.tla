-------------------------- MODULE ReferenceTMProofs -------------------------
(***************************************************************************)
(* Theorems about the reference transaction manager: transactions are      *)
(* serial, and the list of segments is the heap, for any number of         *)
(* threads, words and segments.                                            *)
(***************************************************************************)
EXTENDS ReferenceTM, FiniteSetTheorems, WellFoundedInduction, TLAPS

AllocSteps == {"link_next", "link_head", "zero"}
FreeSteps == {"unlink_next", "free"}
CopySteps == {"read", "write"}

\* Types of the variables.
Types ==
  /\ phase \in {"malloc", "memalign", "lock_init", "failed", "exists", "destroying", "destroyed"}
  /\ misfreed \in BOOLEAN
  /\ rwreaders \subseteq Threads
  /\ rwwriter \in Threads \cup {NoThread}
  /\ mem \in [Addr -> Val]
  /\ allocs \in Segments \cup {Null}
  /\ prev \in [Segments -> Segments \cup {Null}]
  /\ next \in [Segments -> Segments \cup {Null}]
  /\ tx \in [Threads -> {"out", "ro", "rw"}]
  /\ pc \in [Threads -> {"ready"} \cup CopySteps \cup AllocSteps \cup FreeSteps]
  /\ word \in [Threads -> Nat]
  /\ last \in [Threads -> Nat]
  /\ sn \in [Threads -> Segments \cup {Null}]
  /\ got \in [Threads -> Val]
  /\ base \in [Threads -> [Addr -> Val]]

\* The lock is held for the whole of each transaction, in its mode.
LockInv ==
  /\ \A t \in Threads : tx[t] = "rw" <=> rwwriter = t
  /\ \A t \in Threads : tx[t] = "ro" <=> t \in rwreaders
  /\ rwwriter # NoThread => rwreaders = {}

\* Transactions run on a region that exists, calls in transactions, and calls
\* that write in those that may.
CallInv ==
  \A t \in Threads :
    /\ tx[t] # "out" => phase = "exists"
    /\ pc[t] # "ready" => tx[t] # "out"
    /\ pc[t] \notin {"ready", "read"} => tx[t] = "rw"
    /\ pc[t] \in CopySteps => word[t] \in Addr /\ word[t]..last[t] \subseteq Addr
    /\ pc[t] \in AllocSteps \cup FreeSteps <=> sn[t] # Null

\* The memory is the one that every reader began with.
BaseInv == \A t \in Threads : tx[t] = "ro" => base[t] = mem

TxInv == Types /\ LockInv /\ CallInv /\ BaseInv

-----------------------------------------------------------------------------
LEMMA BlankType == Blank \in [Addr -> Val]
  BY ReferenceAssumption DEF Blank

LEMMA InitTx == ASSUME Init PROVE TxInv
  BY ReferenceAssumption, BlankType
  DEF Init, TxInv, Types, LockInv, CallInv, BaseInv, CopySteps, AllocSteps, FreeSteps

\* The steps of tm_create and tm_destroy.
LEMMA RegionTx ==
  ASSUME TxInv, CreateRegion \/ CreateStart \/ CreateLock \/ DestroySegment \/ DestroyRegion
  PROVE  TxInv'
  <1> USE ReferenceAssumption
  <1>0. UNCHANGED <<lockVars, callVars, base>>
    BY DEF CreateRegion, CreateStart, CreateLock, DestroySegment, DestroyRegion
  <1>1. /\ phase' \in {"memalign", "lock_init", "failed", "exists", "destroying", "destroyed"}
        /\ \A t \in Threads : tx[t] = "out"
    BY DEF CreateRegion, CreateStart, CreateLock, DestroySegment, DestroyRegion, TxInv, Types, CallInv
  <1>2. mem' \in [Addr -> Val]
    BY DEF CreateRegion, CreateStart, CreateLock, DestroySegment, DestroyRegion, TxInv, Types
  <1>3. /\ allocs' \in Segments \cup {Null}
        /\ prev' \in [Segments -> Segments \cup {Null}]
        /\ next' \in [Segments -> Segments \cup {Null}]
    BY DEF CreateRegion, CreateStart, CreateLock, DestroySegment, DestroyRegion, Forget,
           TxInv, Types, listVars
  <1>4. misfreed' \in BOOLEAN
    BY DEF CreateRegion, CreateStart, CreateLock, DestroySegment, DestroyRegion, Free, TxInv, Types
  <1> QED
    BY <1>0, <1>1, <1>2, <1>3, <1>4
    DEF TxInv, Types, LockInv, CallInv, BaseInv, lockVars, callVars

\* The calls.
LEMMA BeginTx ==
  ASSUME TxInv, NEW t \in Threads, NEW ro \in BOOLEAN, tm_begin(t, ro) PROVE TxInv'
  <1> USE ReferenceAssumption
  <1>1. Types'
    BY DEF tm_begin, AcquireShared, Acquire, TxInv, Types, regionVars, listVars
  <1>2. LockInv'
    BY DEF tm_begin, AcquireShared, Acquire, TxInv, Types, LockInv
  <1>3. CallInv'
    BY DEF tm_begin, TxInv, Types, CallInv, regionVars
  <1>4. BaseInv'
    BY DEF tm_begin, TxInv, Types, BaseInv
  <1> QED
    BY <1>1, <1>2, <1>3, <1>4 DEF TxInv

LEMMA EndTx ==
  ASSUME TxInv, NEW t \in Threads, tm_end(t) PROVE TxInv'
  <1> USE ReferenceAssumption, BlankType
  <1>1. Types'
    BY DEF tm_end, TxInv, Types, regionVars, listVars
  <1>2. LockInv'
    BY DEF tm_end, TxInv, Types, LockInv
  <1>3. CallInv'
    BY DEF tm_end, TxInv, Types, CallInv, regionVars, CopySteps, AllocSteps, FreeSteps
  <1>4. BaseInv'
    BY DEF tm_end, TxInv, Types, BaseInv
  <1> QED
    BY <1>1, <1>2, <1>3, <1>4 DEF TxInv

LEMMA CopyTx ==
  ASSUME TxInv, NEW t \in Threads, NEW a \in Addr, NEW n \in 1..MaxLen,
         tm_read(t, a, n) \/ tm_write(t, a, n)
  PROVE  TxInv'
  <1> USE ReferenceAssumption
  <1>1. a \in Nat /\ a + n - 1 \in Nat /\ a..(a + n - 1) \subseteq Addr
    BY DEF Addr, Accessible, tm_read, tm_write, CopyCall
  <1>2. Types'
    <2>1. /\ word' = [word EXCEPT ![t] = a]
          /\ last' = [last EXCEPT ![t] = a + n - 1]
          /\ \E call \in CopySteps : pc' = [pc EXCEPT ![t] = call]
          /\ UNCHANGED <<regionVars, lockVars, mem, listVars, tx, sn, got, base>>
      BY DEF tm_read, tm_write, CopyCall, CopySteps
    <2> QED
      BY <1>1, <2>1 DEF TxInv, Types, regionVars, lockVars, listVars
  <1>3. CallInv'
    <2>1. /\ \A u \in Threads \ {t} : pc'[u] = pc[u] /\ word'[u] = word[u] /\ last'[u] = last[u]
          /\ pc'[t] \in CopySteps /\ word'[t] = a /\ last'[t] = a + n - 1
          /\ (pc'[t] = "write" => tx[t] = "rw") /\ tx[t] # "out" /\ pc[t] = "ready"
          /\ UNCHANGED <<tx, sn, phase>>
      BY DEF tm_read, tm_write, CopyCall, TxInv, Types, CopySteps, regionVars
    <2> QED
      BY <1>1, <2>1 DEF TxInv, CallInv, CopySteps, AllocSteps, FreeSteps
  <1> QED
    BY <1>2, <1>3 DEF TxInv, LockInv, BaseInv, tm_read, tm_write, CopyCall, lockVars

\* The loops that copy.
LEMMA NextWordCall ==
  ASSUME TxInv, NEW t \in Threads, pc[t] \in CopySteps, NextWord(t),
         UNCHANGED <<tx, sn, phase>>
  PROVE  /\ pc' \in [Threads -> {"ready"} \cup CopySteps \cup AllocSteps \cup FreeSteps]
         /\ word' \in [Threads -> Nat]
         /\ last' \in [Threads -> Nat]
         /\ CallInv'
  <1> USE ReferenceAssumption
  <1>1. CASE word[t] < last[t]
    <2>1. word[t] + 1 \in word[t]..last[t] /\ (word[t] + 1)..last[t] \subseteq word[t]..last[t]
      BY <1>1 DEF TxInv, Types
    <2>2. word[t] + 1 \in Addr /\ (word[t] + 1)..last[t] \subseteq Addr
      BY <2>1 DEF TxInv, CallInv
    <2>3. /\ \A u \in Threads \ {t} : word'[u] = word[u]
          /\ word'[t] = word[t] + 1 /\ word' \in [Threads -> Nat]
          /\ UNCHANGED <<pc, last>>
      BY <1>1 DEF NextWord, TxInv, Types
    <2> QED
      BY <2>2, <2>3 DEF TxInv, Types, CallInv
  <1>2. CASE ~(word[t] < last[t])
    <2>0. /\ pc' = [pc EXCEPT ![t] = "ready"]
          /\ word' = [word EXCEPT ![t] = 0]
          /\ last' = [last EXCEPT ![t] = 0]
      BY <1>2 DEF NextWord
    <2>1. /\ \A u \in Threads \ {t} : pc'[u] = pc[u] /\ word'[u] = word[u] /\ last'[u] = last[u]
          /\ pc'[t] = "ready"
      BY <2>0 DEF TxInv, Types
    <2>2. /\ pc' \in [Threads -> {"ready"} \cup CopySteps \cup AllocSteps \cup FreeSteps]
          /\ word' \in [Threads -> Nat]
          /\ last' \in [Threads -> Nat]
      BY <2>0 DEF TxInv, Types
    <2> QED
      BY <2>1, <2>2 DEF TxInv, CallInv, CopySteps, AllocSteps, FreeSteps
  <1> QED
    BY <1>1, <1>2

LEMMA ReadWordTx ==
  ASSUME TxInv, NEW t \in Threads, ReadWord(t) PROVE TxInv'
  <1> USE ReferenceAssumption
  <1>1. /\ pc[t] \in CopySteps /\ NextWord(t) /\ UNCHANGED <<tx, sn, phase>>
        /\ mem[word[t]] \in Val
    BY DEF ReadWord, CopySteps, regionVars, TxInv, Types, CallInv
  <1>2. /\ pc' \in [Threads -> {"ready"} \cup CopySteps \cup AllocSteps \cup FreeSteps]
        /\ word' \in [Threads -> Nat]
        /\ last' \in [Threads -> Nat]
        /\ CallInv'
    BY <1>1, NextWordCall
  <1> QED
    BY <1>1, <1>2 DEF ReadWord, TxInv, Types, LockInv, BaseInv, regionVars, lockVars, listVars

\* A writer is alone.
LEMMA WriterAlone ==
  ASSUME TxInv, NEW t \in Threads, tx[t] = "rw"
  PROVE  rwwriter = t /\ \A u \in Threads \ {t} : tx[u] = "out"
  BY ReferenceAssumption DEF TxInv, Types, LockInv

LEMMA WriteWordTx ==
  ASSUME TxInv, NEW t \in Threads, NEW v \in Val, WriteWord(t, v) PROVE TxInv'
  <1> USE ReferenceAssumption
  <1>1. /\ pc[t] \in CopySteps /\ NextWord(t) /\ UNCHANGED <<tx, sn, phase>>
        /\ word[t] \in Addr
        /\ tx[t] = "rw"
    BY DEF WriteWord, CopySteps, regionVars, TxInv, CallInv
  <1>2. /\ pc' \in [Threads -> {"ready"} \cup CopySteps \cup AllocSteps \cup FreeSteps]
        /\ word' \in [Threads -> Nat]
        /\ last' \in [Threads -> Nat]
        /\ CallInv'
    BY <1>1, NextWordCall
  <1>3. \A u \in Threads : tx[u] # "ro"
    BY <1>1, WriterAlone
  <1> QED
    BY <1>1, <1>2, <1>3
    DEF WriteWord, TxInv, Types, LockInv, BaseInv, regionVars, lockVars, listVars

\* tm_alloc and tm_free.
LEMMA AllocTx ==
  ASSUME TxInv, NEW t \in Threads,
         (\E s \in Segments : tm_alloc(t, s)) \/ LinkNext(t) \/ LinkHead(t)
  PROVE  TxInv'
  <1> USE ReferenceAssumption DEF AllocSteps, FreeSteps, CopySteps
  <1>1. Types'
    <2>1. CASE \E s \in Segments : tm_alloc(t, s)
      BY <2>1 DEF tm_alloc, Goto, TxInv, Types, lockVars
    <2>2. CASE LinkNext(t)
      BY <2>2 DEF LinkNext, Goto, TxInv, Types, CallInv, regionVars, lockVars
    <2>3. CASE LinkHead(t)
      BY <2>3 DEF LinkHead, Goto, TxInv, Types, CallInv, regionVars, lockVars
    <2> QED
      BY <2>1, <2>2, <2>3
  <1>2. CallInv'
    BY DEF tm_alloc, LinkNext, LinkHead, Goto, TxInv, Types, CallInv, regionVars
  <1> QED
    BY <1>1, <1>2 DEF tm_alloc, LinkNext, LinkHead, TxInv, LockInv, BaseInv, lockVars

LEMMA ZeroTx ==
  ASSUME TxInv, NEW t \in Threads, ZeroSegment(t) PROVE TxInv'
  <1> USE ReferenceAssumption DEF AllocSteps, FreeSteps, CopySteps
  <1>1. tx[t] = "rw"
    BY DEF ZeroSegment, Goto, TxInv, CallInv
  <1>2. \A u \in Threads : tx[u] # "ro"
    BY <1>1, WriterAlone
  <1>3. Types'
    BY DEF ZeroSegment, Goto, TxInv, Types, regionVars, lockVars, listVars
  <1>4. CallInv'
    BY DEF ZeroSegment, Goto, TxInv, Types, CallInv, regionVars
  <1> QED
    BY <1>2, <1>3, <1>4 DEF ZeroSegment, TxInv, LockInv, BaseInv, lockVars

LEMMA FreeTx ==
  ASSUME TxInv, NEW t \in Threads,
         (\E s \in Segments : tm_free(t, s)) \/ UnlinkNext(t) \/ FreeNode(t)
  PROVE  TxInv'
  <1> USE ReferenceAssumption DEF AllocSteps, FreeSteps, CopySteps
  <1>1. Types'
    <2>1. CASE \E s \in Segments : tm_free(t, s)
      BY <2>1 DEF tm_free, Goto, TxInv, Types, regionVars, lockVars
    <2>2. CASE UnlinkNext(t)
      BY <2>2 DEF UnlinkNext, Goto, TxInv, Types, CallInv, regionVars, lockVars
    <2>3. CASE FreeNode(t)
      BY <2>3 DEF FreeNode, Free, Forget, Goto, TxInv, Types, lockVars
    <2> QED
      BY <2>1, <2>2, <2>3
  <1>2. CallInv'
    BY DEF tm_free, UnlinkNext, FreeNode, Goto, TxInv, Types, CallInv, regionVars
  <1> QED
    BY <1>1, <1>2 DEF tm_free, UnlinkNext, FreeNode, TxInv, LockInv, BaseInv, lockVars

LEMMA StutterTx == ASSUME TxInv, UNCHANGED vars PROVE TxInv'
  BY DEF TxInv, Types, LockInv, CallInv, BaseInv, vars, regionVars, lockVars, listVars, callVars

LEMMA NextTx == ASSUME TxInv, [Next]_vars PROVE TxInv'
  <1>1. CASE Next
    <2>1. ASSUME NEW t \in Threads, Call(t) PROVE TxInv'
      BY <2>1, BeginTx, EndTx, CopyTx, AllocTx, FreeTx DEF Call
    <2>2. ASSUME NEW t \in Threads, Step(t) PROVE TxInv'
      BY <2>2, ReadWordTx, WriteWordTx, AllocTx, ZeroTx, FreeTx DEF Step
    <2> QED
      BY <1>1, <2>1, <2>2, RegionTx, StutterTx DEF Next, Over
  <1> QED
    BY <1>1, StutterTx

-----------------------------------------------------------------------------
(***************************************************************************)
(* Transactions are serial.                                                *)
(***************************************************************************)
\* The committed memory and the transactions' copies of it.
Committed == IF rwwriter = NoThread THEN Mem0 ELSE base[rwwriter]
View == [t \in Threads |-> IF tx[t] = "out" THEN Blank ELSE mem]

\* The steps of the abstract memory, in these terms.
LEMMA SerialBegin ==
  ASSUME NEW t \in Threads, tx[t] = "out",
         \E m \in {"ro", "rw"} : tx' = [tx EXCEPT ![t] = m],
         base' = [base EXCEPT ![t] = Committed],
         View' = [View EXCEPT ![t] = Committed],
         UNCHANGED <<Committed, got>>
  PROVE  Serial!ANext
  BY DEF Serial!ANext, Serial!ABegin, Committed, View

LEMMA SerialRead ==
  ASSUME NEW t \in Threads, tx[t] # "out",
         \E a \in Addr : got' = [got EXCEPT ![t] = View[t][a]],
         UNCHANGED <<Committed, tx, base, View>>
  PROVE  Serial!ANext
  BY DEF Serial!ANext, Serial!ARead, Committed, View

LEMMA SerialWrite ==
  ASSUME NEW t \in Threads, tx[t] = "rw",
         \E a \in Addr, v \in Val : View' = [View EXCEPT ![t][a] = v],
         UNCHANGED <<Committed, tx, base, got>>
  PROVE  Serial!ANext
  BY DEF Serial!ANext, Serial!AWrite, Committed, View

LEMMA SerialEnd ==
  ASSUME NEW t \in Threads, tx[t] # "out",
         IF tx[t] = "rw" THEN Committed = base[t] /\ Committed' = View[t] ELSE UNCHANGED Committed,
         tx' = [tx EXCEPT ![t] = "out"],
         base' = [base EXCEPT ![t] = Blank],
         View' = [View EXCEPT ![t] = Blank],
         got' = [got EXCEPT ![t] = Zero]
  PROVE  Serial!ANext
  BY DEF Serial!ANext, Serial!AEnd, Serial!Blank, Blank, Committed, View

LEMMA SerialStutter ==
  ASSUME UNCHANGED <<Committed, tx, base, View, got>> PROVE UNCHANGED Serial!avars
  BY DEF Serial!avars, Committed, View

-----------------------------------------------------------------------------
LEMMA InitSerial == ASSUME Init PROVE Serial!AInit
  <1>1. Committed \in {m \in [Addr -> Val] : \A a \in FirstSegment : m[a] = Zero}
    BY ReferenceAssumption DEF Init, Committed, Mem0, Addr
  <1>2. View = [t \in Threads |-> Blank]
    BY DEF Init, View
  <1> QED
    BY <1>1, <1>2 DEF Init, Serial!AInit, Serial!Blank, Blank, Committed, View

\* What the region's own steps change is not seen.
LEMMA RegionSerial ==
  ASSUME TxInv, CreateRegion \/ CreateStart \/ CreateLock \/ DestroySegment \/ DestroyRegion
  PROVE  UNCHANGED Serial!avars
  <1>1. UNCHANGED <<lockVars, callVars, base>>
    BY DEF CreateRegion, CreateStart, CreateLock, DestroySegment, DestroyRegion
  <1>2. \A t \in Threads : tx[t] = "out"
    BY DEF CreateRegion, CreateStart, CreateLock, DestroySegment, DestroyRegion, TxInv, Types, CallInv
  <1>3. Mem0' = Mem0
    BY DEF CreateRegion, CreateStart, CreateLock, DestroySegment, DestroyRegion, TxInv, Types, Mem0
  <1>4. UNCHANGED <<Committed, View>>
    BY <1>1, <1>2, <1>3 DEF Committed, View, lockVars, callVars
  <1> QED
    BY <1>1, <1>4, SerialStutter DEF callVars

\* While a transaction is open the region exists.
LEMMA OpenMem0 ==
  ASSUME Types, phase = "exists" PROVE Mem0 = mem
  BY DEF Types, Mem0

LEMMA BeginSerial ==
  ASSUME TxInv, TxInv', NEW t \in Threads, NEW ro \in BOOLEAN, tm_begin(t, ro) PROVE Serial!ANext
  <1> USE ReferenceAssumption
  <1>1. Mem0 = mem /\ Mem0' = mem
    BY OpenMem0 DEF tm_begin, TxInv, regionVars, Types, Mem0
  <1>2. rwwriter = NoThread
    BY DEF tm_begin, Acquire, AcquireShared
  <1>3. Committed = mem
    BY <1>1, <1>2 DEF Committed
  <1>4. Committed' = mem
    BY <1>1, <1>2 DEF Committed, tm_begin, Acquire, AcquireShared, TxInv, Types
  <1>5. View' = [View EXCEPT ![t] = mem]
    BY DEF View, tm_begin, TxInv, Types
  <1> QED
    BY <1>3, <1>4, <1>5, SerialBegin DEF tm_begin

LEMMA EndSerial ==
  ASSUME TxInv, TxInv', NEW t \in Threads, tm_end(t) PROVE Serial!ANext
  <1> USE ReferenceAssumption
  <1>1. Mem0 = mem /\ Mem0' = mem
    BY OpenMem0 DEF tm_end, TxInv, CallInv, regionVars, Types, Mem0
  <1>2. View' = [View EXCEPT ![t] = Blank]
    BY DEF View, tm_end, TxInv, Types
  <1>3. View[t] = mem
    BY DEF View, tm_end
  <1>4. CASE tx[t] = "rw"
    <2>1. rwwriter = t /\ rwwriter' = NoThread
      BY <1>4, WriterAlone DEF tm_end
    <2>2. Committed = base[t] /\ Committed' = mem
      BY <1>1, <2>1 DEF Committed
    <2> QED
      BY <1>2, <1>3, <1>4, <2>2, SerialEnd DEF tm_end
  <1>5. CASE tx[t] # "rw"
    <2>1. rwwriter = NoThread /\ rwwriter' = NoThread
      BY <1>5 DEF tm_end, TxInv, LockInv, Types
    <2>2. UNCHANGED Committed
      BY <1>1, <2>1 DEF Committed
    <2> QED
      BY <1>2, <1>5, <2>2, SerialEnd DEF tm_end
  <1> QED
    BY <1>4, <1>5

\* What the committed memory is during a step of a call.
LEMMA CallCommitted ==
  ASSUME TxInv, TxInv', NEW t \in Threads, tx[t] # "out",
         UNCHANGED <<phase, rwwriter, base>>, mem' = mem \/ tx[t] = "rw"
  PROVE  UNCHANGED Committed
  <1> USE ReferenceAssumption
  <1>1. phase = "exists"
    BY DEF TxInv, CallInv
  <1>2. CASE tx[t] = "rw"
    BY <1>2, WriterAlone DEF Committed
  <1>3. CASE mem' = mem
    BY <1>3 DEF Committed, Mem0
  <1> QED
    BY <1>2, <1>3

\* A step of a call that copies nothing to or from the shared words.
LEMMA QuietSerial ==
  ASSUME TxInv, TxInv', NEW t \in Threads, tx[t] # "out",
         UNCHANGED <<phase, rwwriter, mem, tx, got, base>>
  PROVE  UNCHANGED Serial!avars
  <1>1. UNCHANGED Committed
    BY CallCommitted
  <1>2. UNCHANGED View
    BY DEF View
  <1> QED
    BY <1>1, <1>2, SerialStutter

LEMMA ReadWordSerial ==
  ASSUME TxInv, TxInv', NEW t \in Threads, ReadWord(t) PROVE Serial!ANext
  <1>1. tx[t] # "out" /\ word[t] \in Addr
    BY DEF ReadWord, TxInv, CallInv, CopySteps
  <1>2. UNCHANGED <<phase, rwwriter, mem, tx, base>>
    BY DEF ReadWord, regionVars, lockVars
  <1>3. UNCHANGED <<Committed, View>>
    BY <1>1, <1>2, CallCommitted DEF View
  <1>4. got' = [got EXCEPT ![t] = View[t][word[t]]]
    BY <1>1 DEF ReadWord, View
  <1> QED
    BY <1>1, <1>2, <1>3, <1>4, SerialRead

\* A writer stores v at address a.
LEMMA StoreSerial ==
  ASSUME TxInv, TxInv', NEW t \in Threads, tx[t] = "rw", NEW a \in Addr, NEW v \in Val,
         mem' = [mem EXCEPT ![a] = v], UNCHANGED <<phase, rwwriter, tx, got, base>>
  PROVE  Serial!ANext
  <1>1. UNCHANGED Committed
    BY CallCommitted
  <1>2. \A u \in Threads \ {t} : tx[u] = "out"
    BY WriterAlone
  <1>3. View' = [View EXCEPT ![t][a] = v]
    BY <1>2 DEF View, TxInv, Types
  <1> QED
    BY <1>1, <1>3, SerialWrite

LEMMA WriteWordSerial ==
  ASSUME TxInv, TxInv', NEW t \in Threads, NEW v \in Val, WriteWord(t, v) PROVE Serial!ANext
  <1>1. tx[t] = "rw" /\ word[t] \in Addr
    BY DEF WriteWord, TxInv, CallInv, CopySteps
  <1>2. UNCHANGED <<phase, rwwriter, tx, got, base>> /\ mem' = [mem EXCEPT ![word[t]] = v]
    BY DEF WriteWord, regionVars, lockVars
  <1> QED
    BY <1>1, <1>2, StoreSerial

LEMMA ZeroSerial ==
  ASSUME TxInv, TxInv', NEW t \in Threads, ZeroSegment(t) PROVE Serial!ANext
  <1>1. tx[t] = "rw" /\ sn[t] \in Addr
    BY DEF ZeroSegment, Goto, TxInv, Types, CallInv, AllocSteps, Addr
  <1>2. UNCHANGED <<phase, rwwriter, tx, got, base>> /\ mem' = [mem EXCEPT ![sn[t]] = Zero]
    BY DEF ZeroSegment, regionVars, lockVars
  <1> QED
    BY <1>1, <1>2, StoreSerial, ReferenceAssumption

LEMMA OtherSerial ==
  ASSUME TxInv, TxInv', NEW t \in Threads,
         \/ \E a \in Addr, n \in 1..MaxLen : tm_read(t, a, n) \/ tm_write(t, a, n)
         \/ \E s \in Segments : tm_alloc(t, s) \/ tm_free(t, s)
         \/ LinkNext(t) \/ LinkHead(t) \/ UnlinkNext(t) \/ FreeNode(t)
  PROVE  UNCHANGED Serial!avars
  <1>1. tx[t] # "out"
    BY DEF tm_read, tm_write, CopyCall, tm_alloc, tm_free, LinkNext, LinkHead, UnlinkNext, FreeNode, Goto,
           TxInv, CallInv
  <1>2. UNCHANGED <<phase, rwwriter, mem, tx, got, base>>
    BY DEF tm_read, tm_write, CopyCall, tm_alloc, tm_free, LinkNext, LinkHead, UnlinkNext, FreeNode,
           regionVars, lockVars
  <1> QED
    BY <1>1, <1>2, QuietSerial

LEMMA NextSerial ==
  ASSUME TxInv, TxInv', [Next]_vars PROVE [Serial!ANext]_(Serial!avars)
  <1>1. ASSUME NEW t \in Threads, Call(t) PROVE [Serial!ANext]_(Serial!avars)
    BY <1>1, BeginSerial, EndSerial, OtherSerial DEF Call
  <1>2. ASSUME NEW t \in Threads, Step(t) PROVE [Serial!ANext]_(Serial!avars)
    BY <1>2, ReadWordSerial, WriteWordSerial, ZeroSerial, OtherSerial DEF Step
  <1>3. UNCHANGED vars => UNCHANGED Serial!avars
    <2>1. UNCHANGED vars => UNCHANGED <<Committed, tx, base, View, got>>
      BY DEF vars, regionVars, lockVars, callVars, Committed, Mem0, View
    <2> QED
      BY <2>1, SerialStutter
  <1> QED
    BY <1>1, <1>2, <1>3, RegionSerial DEF Next, Over

\* Transactions of reference/tm.c hold the lock in their mode from tm_begin to
\* tm_end, and readers find the memory as they found it first.
THEOREM TxInvariance == Spec => []TxInv
  BY InitTx, NextTx, PTL DEF Spec

\* Each transaction of reference/tm.c reads the memory committed when it began
\* with its own writes on top, and commits that: writing in place under the lock
\* implements working on a copy.
THEOREM ReferenceIsSerial == Spec => ImplementsSerialMemory
  BY InitSerial, NextSerial, TxInvariance, PTL DEF Spec, ImplementsSerialMemory, Serial!ASpec

-----------------------------------------------------------------------------
(***************************************************************************)
(* The list of segments.                                                   *)
(***************************************************************************)
\* A node that tm_alloc has not put into the list yet, or tm_free has taken out.
LooseSteps == {"link_next", "link_head", "unlink_next", "free"}
Loose == {s \in Segments : \E t \in Threads : pc[t] \in LooseSteps /\ s = sn[t]}

\* The nodes in the list.
Listed == (blocks \cap Segments) \ Loose

\* The predecessor of a node, once the call that is changing it is through.
Mended(t, x) == pc[t] \in {"link_head", "unlink_next"} /\ x = next[sn[t]]

Before(x) ==
  IF \E t \in Threads : Mended(t, x)
    THEN prev[sn[CHOOSE t \in Threads : Mended(t, x)]]
    ELSE prev[x]

\* The links agree in both directions.
LinkInv ==
  /\ allocs \in Listed \cup {Null}
  /\ \A s \in Listed : next[s] # Null => next[s] \in Listed /\ next[s] # allocs /\ Before(next[s]) = s
  /\ \A s \in Listed : s # allocs => Before(s) \in Listed /\ next[Before(s)] = s
  /\ phase = "exists" /\ allocs # Null => Before(allocs) = Null

\* The list has no cycle.
Ranked(rank) ==
  /\ rank \in [Segments -> Nat]
  /\ \A s \in Listed : next[s] # Null => rank[s] < rank[next[s]]

\* The node that a call is working on.
NodeInv ==
  \A t \in Threads :
    /\ pc[t] \in AllocSteps \cup FreeSteps => sn[t] \in blocks
    /\ pc[t] \in {"link_next", "link_head"} => next[sn[t]] = allocs /\ prev[sn[t]] = Null
    /\ pc[t] = "link_head" /\ allocs # Null => prev[allocs] = sn[t]
    /\ pc[t] = "unlink_next" => next[sn[t]] \in Listed \cup {Null}

\* The blocks that exist, as the region comes and goes.
BlockInv ==
  /\ ~misfreed
  /\ phase \in {"malloc", "failed", "destroyed"} => blocks = {}
  /\ phase = "memalign" => blocks = {Region}
  /\ phase = "lock_init" => blocks = {Region, Start}
  /\ phase \in {"exists", "destroying"} => {Region, Start} \subseteq blocks
  /\ blocks \subseteq {Region, Start} \cup Segments

HeapInv ==
  /\ BlockInv
  /\ NodeInv
  /\ LinkInv
  /\ \E rank : Ranked(rank)

-----------------------------------------------------------------------------
\* Between the calls that change the list it holds all allocated segments.
LEMMA Settled ==
  ASSUME Types, \A t \in Threads : pc[t] \notin LooseSteps
  PROVE  Listed = blocks \cap Segments /\ \A x : Before(x) = prev[x]
  BY DEF Listed, Loose, LooseSteps, Before, Mended

\* Only the writer can be changing the list.
OnlyWriter(t) ==
  /\ \A u \in Threads \ {t} : pc[u] = "ready" \/ pc[u] = "read"
  /\ Loose = IF pc[t] \in LooseSteps THEN {sn[t]} \cap Segments ELSE {}
  /\ \A x : Before(x) = IF Mended(t, x) THEN prev[sn[t]] ELSE prev[x]

LEMMA WriterLoose == TxInv => \A t \in Threads : tx[t] = "rw" => OnlyWriter(t)
  <1> SUFFICES ASSUME TxInv, NEW t \in Threads, tx[t] = "rw" PROVE OnlyWriter(t)
    OBVIOUS
  <1>1. \A u \in Threads \ {t} : pc[u] = "ready" \/ pc[u] = "read"
    BY WriterAlone DEF TxInv, Types, CallInv
  <1>2. Loose = IF pc[t] \in LooseSteps THEN {sn[t]} \cap Segments ELSE {}
    BY <1>1 DEF Loose, LooseSteps
  <1>3. \A x : \A u \in Threads : Mended(u, x) => u = t
    BY <1>1 DEF Mended
  <1>4. \A x : Before(x) = IF Mended(t, x) THEN prev[sn[t]] ELSE prev[x]
    BY <1>3 DEF Before
  <1> QED
    BY <1>1, <1>2, <1>4 DEF OnlyWriter

LEMMA WriterLooseNext == TxInv' => \A t \in Threads : tx'[t] = "rw" => OnlyWriter(t)'
  <1>1. (TxInv => \A t \in Threads : tx[t] = "rw" => OnlyWriter(t))'
    BY WriterLoose, PTL
  <1> QED
    BY <1>1

\* Every set of natural numbers with a member has a least one.
LEMMA LeastOf ==
  ASSUME NEW T \in SUBSET Nat, T # {} PROVE \E n \in T : \A m \in T : n <= m
  <1>1. PICK n \in T : \A m \in T : ~(<<m, n>> \in OpToRel(<, Nat))
    BY WFMin, NatLessThanWellFounded
  <1>2. \A m \in T : ~(m < n)
    BY <1>1 DEF OpToRel
  <1> QED
    BY <1>2

\* What holds the head and, with each node, the next one, holds the list.
LEMMA ListClosed ==
  ASSUME Types, LinkInv, NEW rank, Ranked(rank), NEW W,
         allocs # Null => allocs \in W,
         \A s \in Listed \cap W : next[s] # Null => next[s] \in W
  PROVE  Listed \subseteq W
  <1> SUFFICES ASSUME Listed \ W # {} PROVE FALSE
    OBVIOUS
  <1> DEFINE T == {rank[s] : s \in Listed \ W}
  <1>1. T \in SUBSET Nat /\ T # {}
    BY DEF Ranked, Listed
  <1>2. PICK n \in T : \A m \in T : n <= m
    BY <1>1, LeastOf
  <1>3. PICK s \in Listed \ W : n = rank[s]
    BY <1>2
  <1>4. s # allocs
    BY <1>3, ReferenceAssumption DEF Listed
  <1>5. Before(s) \in Listed /\ next[Before(s)] = s /\ s # Null
    BY <1>3, <1>4, ReferenceAssumption DEF LinkInv, Listed
  <1>6. rank[Before(s)] < rank[s] /\ rank[s] \in Nat /\ rank[Before(s)] \in Nat
    BY <1>5, <1>3 DEF Ranked, Listed
  <1>7. Before(s) \in W
    BY <1>2, <1>3, <1>5, <1>6
  <1> QED
    BY <1>3, <1>5, <1>7

\* An empty head means an empty list.
LEMMA ListEmpty ==
  ASSUME Types, LinkInv, NEW rank, Ranked(rank), allocs = Null PROVE Listed = {}
  <1> DEFINE W == {}
  <1>1. \A s \in Listed \cap W : next[s] # Null => next[s] \in W
    OBVIOUS
  <1>2. allocs # Null => allocs \in W
    OBVIOUS
  <1> HIDE DEF W
  <1>3. Listed \subseteq W
    BY <1>1, <1>2, ListClosed
  <1> QED
    BY <1>3 DEF W

-----------------------------------------------------------------------------
LEMMA InitHeap == ASSUME Init PROVE HeapInv
  <1>1. Listed = {}
    BY DEF Init, Listed
  <1>2. Ranked([s \in Segments |-> 0])
    BY <1>1 DEF Ranked
  <1> QED
    BY <1>1, <1>2 DEF Init, HeapInv, BlockInv, NodeInv, LinkInv, AllocSteps, FreeSteps

\* A step that leaves the list alone, and every node that is loose.
LEMMA QuietHeap ==
  ASSUME HeapInv,
         UNCHANGED <<regionVars, listVars>>,
         \A u \in Threads : pc'[u] \in AllocSteps \cup FreeSteps => pc'[u] = pc[u] /\ sn'[u] = sn[u],
         \A u \in Threads : pc[u] \in LooseSteps => pc'[u] = pc[u] /\ sn'[u] = sn[u]
  PROVE  HeapInv'
  <1> USE DEF AllocSteps, FreeSteps, LooseSteps, regionVars, listVars
  <1>1. Loose' = Loose
    BY DEF Loose
  <1>2. Listed' = Listed
    BY <1>1 DEF Listed
  <1>3. \A x : \A u \in Threads : Mended(u, x)' <=> Mended(u, x)
    BY DEF Mended
  <1>4. \A x : \A u \in Threads : Mended(u, x) => sn'[u] = sn[u]
    BY DEF Mended
  <1>5. \A x : Before(x)' = Before(x)
    <2> TAKE x
    <2>1. (CHOOSE u \in Threads : Mended(u, x)') = CHOOSE u \in Threads : Mended(u, x)
      BY <1>3
    <2>2. CASE \E u \in Threads : Mended(u, x)
      BY <1>3, <1>4, <2>1, <2>2 DEF Before
    <2>3. CASE ~ \E u \in Threads : Mended(u, x)
      BY <1>3, <2>3 DEF Before
    <2> QED
      BY <2>2, <2>3
  <1>6. LinkInv'
    BY <1>2, <1>5 DEF HeapInv, LinkInv
  <1>7. \A rank : Ranked(rank)' <=> Ranked(rank)
    BY <1>2 DEF Ranked
  <1>8. NodeInv'
    BY <1>2 DEF HeapInv, NodeInv
  <1> QED
    BY <1>6, <1>7, <1>8 DEF HeapInv, BlockInv

\* Blocks that exist can be freed.
LEMMA FreeOk ==
  ASSUME NEW B, Free(B), B \subseteq blocks, ~misfreed PROVE blocks' = blocks \ B /\ ~misfreed'
  BY Zenon DEF Free

LEMMA CreateHeap ==
  ASSUME TxInv, TxInv', HeapInv, CreateRegion \/ CreateStart \/ CreateLock PROVE HeapInv'
  <1> USE ReferenceAssumption
  <1>1. \A t \in Threads : pc[t] = "ready" /\ pc'[t] = "ready"
    BY DEF CreateRegion, CreateStart, CreateLock, TxInv, CallInv, callVars
  <1>2. Listed = {} /\ Listed' = {} /\ allocs = Null
    BY DEF CreateRegion, CreateStart, CreateLock, Free, HeapInv, BlockInv, LinkInv, Listed
  <1>3. allocs' = Null
    BY <1>2 DEF CreateRegion, CreateStart, CreateLock, listVars
  <1>4. BlockInv'
    <2>1. CASE CreateRegion
      BY <2>1 DEF CreateRegion, HeapInv, BlockInv
    <2>2. CASE CreateStart
      BY <2>2, FreeOk DEF CreateStart, HeapInv, BlockInv
    <2>3. CASE CreateLock
      BY <2>3, FreeOk DEF CreateLock, HeapInv, BlockInv
    <2> QED
      BY <2>1, <2>2, <2>3
  <1>5. NodeInv'
    BY <1>1 DEF NodeInv, AllocSteps, FreeSteps
  <1>6. LinkInv'
    BY <1>2, <1>3 DEF LinkInv
  <1>7. Ranked([s \in Segments |-> 0])'
    BY <1>2 DEF Ranked
  <1> QED
    BY <1>4, <1>5, <1>6, <1>7 DEF HeapInv

LEMMA DestroySegmentHeap ==
  ASSUME TxInv, TxInv', HeapInv, DestroySegment PROVE HeapInv'
  <1> USE ReferenceAssumption
  <1>1. \A t \in Threads : pc[t] = "ready" /\ pc'[t] = "ready"
    BY DEF DestroySegment, TxInv, CallInv, callVars
  <1>2. /\ Listed = blocks \cap Segments /\ \A x : Before(x) = prev[x]
        /\ Listed' = blocks' \cap Segments /\ \A x : Before(x)' = prev'[x]
    BY <1>1, Settled DEF TxInv, LooseSteps, Listed, Loose, Before, Mended
  <1>3. allocs \in Listed /\ allocs \in blocks /\ allocs \in Segments
    BY <1>2 DEF DestroySegment, HeapInv, LinkInv
  <1>4. Listed' = Listed \ {allocs}
    BY <1>2 DEF DestroySegment, Free
  <1>5. /\ \A s \in Listed' : prev'[s] = prev[s] /\ next'[s] = next[s]
        /\ allocs' = next[allocs]
    BY <1>4 DEF DestroySegment, Forget, TxInv, Types, Listed
  <1>6. LinkInv'
    <2>1. allocs' \in Listed' \cup {Null} /\ phase' # "exists"
      BY <1>3, <1>4, <1>5 DEF DestroySegment, HeapInv, LinkInv
    <2>2. ASSUME NEW s \in Listed', NEW y, y = next'[s], y # Null
          PROVE  y \in Listed' /\ y # allocs' /\ Before(y)' = s
      <3>1. s \in Listed /\ s # allocs /\ y = next[s]
        BY <1>4, <1>5, <2>2
      <3>2. next[s] \in Listed /\ next[s] # allocs /\ prev[next[s]] = s
        BY <1>2, <2>2, <3>1 DEF HeapInv, LinkInv
      <3>3. next[s] = next[allocs] => prev[next[s]] = allocs
        BY <1>2, <1>3, <2>2, <3>1 DEF HeapInv, LinkInv
      <3>4. next[s] \in Listed' /\ prev'[next[s]] = s
        BY <1>4, <1>5, <3>2
      <3>5. Before(y)' = prev'[y]
        BY <1>2
      <3> QED
        BY <1>5, <3>1, <3>2, <3>3, <3>4, <3>5
    <2>3. ASSUME NEW s \in Listed', s # allocs'
          PROVE  Before(s)' \in Listed' /\ next'[Before(s)'] = s
      <3>1. s \in Listed /\ s # allocs /\ Before(s)' = prev[s]
        BY <1>2, <1>4, <1>5
      <3>2. prev[s] \in Listed /\ next[prev[s]] = s
        BY <1>2, <3>1 DEF HeapInv, LinkInv
      <3>3. prev[s] # allocs
        BY <1>5, <2>3, <3>2
      <3> QED
        BY <1>4, <1>5, <3>1, <3>2, <3>3
    <2> QED
      BY <2>1, <2>2, <2>3 DEF LinkInv
  <1>7. PICK rank : Ranked(rank)
    BY DEF HeapInv
  <1>8. Ranked(rank)'
    BY <1>4, <1>5, <1>7 DEF Ranked
  <1>9. BlockInv'
    BY <1>3 DEF DestroySegment, Free, HeapInv, BlockInv
  <1>10. NodeInv'
    BY <1>1 DEF NodeInv, AllocSteps, FreeSteps
  <1> QED
    BY <1>6, <1>8, <1>9, <1>10 DEF HeapInv

LEMMA DestroyRegionHeap ==
  ASSUME TxInv, TxInv', HeapInv, DestroyRegion PROVE HeapInv'
  <1> USE ReferenceAssumption
  <1>1. \A t \in Threads : pc[t] = "ready" /\ pc'[t] = "ready"
    BY DEF DestroyRegion, TxInv, CallInv, callVars
  <1>2. Listed = blocks \cap Segments
    BY <1>1, Settled DEF TxInv, LooseSteps
  <1>3. Listed = {}
    BY ListEmpty DEF HeapInv, TxInv, DestroyRegion
  <1>4. BlockInv'
    BY <1>2, <1>3 DEF DestroyRegion, Free, HeapInv, BlockInv
  <1>5. Listed' = {} /\ allocs' = Null
    BY <1>4 DEF DestroyRegion, BlockInv, Listed, listVars
  <1>6. NodeInv'
    BY <1>1 DEF NodeInv, AllocSteps, FreeSteps
  <1>7. LinkInv' /\ Ranked([s \in Segments |-> 0])'
    BY <1>5 DEF LinkInv, Ranked
  <1> QED
    BY <1>4, <1>6, <1>7 DEF HeapInv

\* The links of the list stay as they are.
LEMMA LinkTransfer ==
  ASSUME LinkInv, Listed' = Listed, UNCHANGED <<allocs, phase>>,
         \A r \in Listed : next'[r] = next[r] /\ Before(r)' = Before(r)
  PROVE  LinkInv'
  <1>1. ASSUME NEW r \in Listed', NEW y, y = next'[r], y # Null
        PROVE  y \in Listed' /\ y # allocs' /\ Before(y)' = r
    BY <1>1 DEF LinkInv
  <1>2. ASSUME NEW r \in Listed', r # allocs'
        PROVE  Before(r)' \in Listed' /\ next'[Before(r)'] = r
    BY <1>2 DEF LinkInv
  <1>3. phase' = "exists" /\ allocs' # Null => Before(allocs)' = Null
    BY DEF LinkInv
  <1> QED
    BY <1>1, <1>2, <1>3 DEF LinkInv

\* tm_alloc takes a new node; the list does not have it yet.
LEMMA AllocHeap ==
  ASSUME TxInv, TxInv', HeapInv, NEW t \in Threads, NEW s \in Segments, tm_alloc(t, s) PROVE HeapInv'
  <1> USE ReferenceAssumption DEF AllocSteps, FreeSteps, LooseSteps
  <1>1. /\ tx[t] = "rw" /\ tx'[t] = "rw" /\ pc[t] = "ready" /\ pc'[t] = "link_next" /\ sn'[t] = s
        /\ s \notin blocks /\ blocks' = blocks \cup {s}
        /\ next'[s] = allocs /\ prev'[s] = Null
        /\ \A r \in Segments \ {s} : next'[r] = next[r] /\ prev'[r] = prev[r]
        /\ UNCHANGED <<phase, misfreed, allocs>>
        /\ \A u \in Threads \ {t} : pc'[u] = pc[u] /\ sn'[u] = sn[u]
    BY DEF tm_alloc, Goto, TxInv, Types
  <1>2. /\ Listed = blocks \cap Segments
        /\ \A x : Before(x) = prev[x]
    BY <1>1, WriterLoose DEF OnlyWriter, Listed, Mended
  <1>3. /\ Loose' = {s}
        /\ \A x : Before(x)' = prev'[x]
    BY <1>1, WriterLooseNext DEF OnlyWriter, Mended
  <1>4. Listed' = Listed /\ s \notin Listed /\ Listed \subseteq Segments
    BY <1>1, <1>2, <1>3 DEF Listed
  <1>5. \A r \in Listed : next'[r] = next[r] /\ prev'[r] = prev[r]
    BY <1>1, <1>4
  <1>6. \A r \in Listed : Before(r)' = Before(r)
    BY <1>2, <1>3, <1>5
  <1>7. LinkInv'
    BY <1>1, <1>4, <1>5, <1>6, LinkTransfer DEF HeapInv
  <1>8. PICK rank : Ranked(rank)
    BY DEF HeapInv
  <1>9. Ranked(rank)'
    BY <1>4, <1>5, <1>8 DEF Ranked
  <1>10. NodeInv'
    BY <1>1, WriterLoose DEF OnlyWriter, HeapInv, NodeInv
  <1>11. BlockInv'
    BY <1>1 DEF HeapInv, BlockInv, TxInv, CallInv
  <1> QED
    BY <1>7, <1>9, <1>10, <1>11 DEF HeapInv

LEMMA LinkNextHeap ==
  ASSUME TxInv, TxInv', HeapInv, NEW t \in Threads, LinkNext(t) PROVE HeapInv'
  <1> USE ReferenceAssumption DEF AllocSteps, FreeSteps, LooseSteps
  <1> DEFINE s == sn[t]
  <1>1. /\ tx[t] = "rw" /\ tx'[t] = "rw" /\ pc[t] = "link_next" /\ pc'[t] = "link_head" /\ sn'[t] = s
        /\ UNCHANGED <<phase, blocks, misfreed, allocs, next, sn>>
        /\ \A u \in Threads \ {t} : pc'[u] = pc[u]
        /\ s \in Segments /\ s \in blocks /\ phase = "exists"
        /\ next[s] = allocs /\ prev[s] = Null
    BY DEF LinkNext, Goto, TxInv, Types, CallInv, regionVars, HeapInv, NodeInv
  <1>2. /\ Loose = {s} /\ Loose' = {s}
        /\ \A x : Before(x) = prev[x]
        /\ \A x : Before(x)' = IF x = allocs THEN prev'[s] ELSE prev'[x]
    BY <1>1, WriterLoose, WriterLooseNext DEF OnlyWriter, Mended
  <1>3. Listed' = Listed /\ s \notin Listed /\ Listed \subseteq Segments /\ s # allocs
    BY <1>1, <1>2 DEF Listed, HeapInv, LinkInv
  <1>4. /\ allocs # Null => prev'[allocs] = s
        /\ \A x \in Segments : x # allocs => prev'[x] = prev[x]
    BY <1>1 DEF LinkNext, TxInv, Types
  <1>5. \A r \in Listed : Before(r)' = Before(r)
    <2> TAKE r \in Listed
    <2>1. CASE r = allocs
      BY <1>1, <1>2, <1>3, <1>4, <2>1 DEF HeapInv, LinkInv
    <2>2. CASE r # allocs
      BY <1>2, <1>3, <1>4, <2>2
    <2> QED
      BY <2>1, <2>2
  <1>6. LinkInv'
    BY <1>1, <1>3, <1>5, LinkTransfer DEF HeapInv
  <1>7. PICK rank : Ranked(rank)
    BY DEF HeapInv
  <1>8. Ranked(rank)'
    BY <1>1, <1>3, <1>7 DEF Ranked
  <1>9. NodeInv'
    <2>1. prev'[s] = Null
      BY <1>1, <1>3, <1>4
    <2> QED
      BY <1>1, <1>4, <2>1, WriterLoose DEF OnlyWriter, HeapInv, NodeInv
  <1>10. BlockInv'
    BY <1>1 DEF HeapInv, BlockInv
  <1> QED
    BY <1>6, <1>8, <1>9, <1>10 DEF HeapInv

\* The node becomes the head of the list.
LEMMA LinkHeadHeap ==
  ASSUME TxInv, TxInv', HeapInv, NEW t \in Threads, LinkHead(t) PROVE HeapInv'
  <1> USE ReferenceAssumption DEF AllocSteps, FreeSteps, LooseSteps
  <1>0. PICK s : s = sn[t]
    OBVIOUS
  <1>1. /\ tx[t] = "rw" /\ tx'[t] = "rw" /\ pc[t] = "link_head" /\ pc'[t] = "zero"
        /\ UNCHANGED <<phase, blocks, misfreed, prev, next, sn>> /\ allocs' = s
        /\ \A u \in Threads \ {t} : pc'[u] = pc[u]
        /\ s \in Segments /\ s \in blocks
        /\ next[s] = allocs /\ prev[s] = Null /\ (allocs # Null => prev[allocs] = s)
    BY <1>0 DEF LinkHead, Goto, TxInv, Types, CallInv, regionVars, HeapInv, NodeInv
  <1>2. /\ Loose = {s} /\ Loose' = {}
        /\ \A x : Before(x) = IF x = allocs THEN Null ELSE prev[x]
        /\ \A x : Before(x)' = prev[x]
    BY <1>0, <1>1, WriterLoose, WriterLooseNext DEF OnlyWriter, Mended
  <1>3. Listed' = Listed \cup {s} /\ s \notin Listed /\ Listed \subseteq Segments /\ s # allocs /\ s # Null
    BY <1>1, <1>2 DEF Listed, HeapInv, LinkInv
  <1>4. /\ allocs \in Listed \cup {Null}
        /\ \A r \in Listed : next[r] # Null => next[r] \in Listed /\ next[r] # allocs /\ prev[next[r]] = r
        /\ \A r \in Listed : r # allocs => prev[r] \in Listed /\ next[prev[r]] = r
    BY <1>2 DEF HeapInv, LinkInv
  <1>5. LinkInv'
    <2>1. \A r \in Listed' : next[r] # Null => next[r] \in Listed' /\ next[r] # s /\ prev[next[r]] = r
      BY <1>1, <1>3, <1>4
    <2>2. \A r \in Listed' : r # s => prev[r] \in Listed' /\ next[prev[r]] = r
      BY <1>1, <1>3, <1>4
    <2> QED
      BY <1>1, <1>2, <1>3, <2>1, <2>2 DEF LinkInv
  <1>6. PICK rank : Ranked(rank)
    BY DEF HeapInv
  <1>7. PICK rank1 : rank1 = [r \in Segments |-> IF r = s THEN 0 ELSE rank[r] + 1]
    OBVIOUS
  <1>10. Ranked(rank1)'
    <2>1. rank1 \in [Segments -> Nat]
      BY <1>6, <1>7 DEF Ranked
    <2>2. ASSUME NEW r \in Listed', next[r] # Null PROVE rank1[r] < rank1[next[r]]
      <3>1. next[r] \in Listed /\ next[r] # s /\ next[r] \in Segments /\ r \in Segments
        BY <1>1, <1>3, <1>4, <2>2
      <3>2. rank1[next[r]] = rank[next[r]] + 1 /\ rank[next[r]] \in Nat
        BY <1>6, <1>7, <3>1 DEF Ranked
      <3>3. CASE r = s
        BY <1>7, <3>1, <3>2, <3>3
      <3>4. CASE r # s
        <4>1. rank[r] < rank[next[r]] /\ rank[r] \in Nat
          BY <1>3, <1>6, <2>2, <3>4 DEF Ranked
        <4> QED
          BY <1>7, <3>1, <3>2, <3>4, <4>1
      <3> QED
        BY <3>3, <3>4
    <2> QED
      BY <1>1, <2>1, <2>2 DEF Ranked
  <1>8. NodeInv'
    BY <1>0, <1>1, WriterLoose DEF OnlyWriter, HeapInv, NodeInv
  <1>9. BlockInv'
    BY <1>1 DEF HeapInv, BlockInv
  <1> QED
    BY <1>5, <1>8, <1>9, <1>10 DEF HeapInv

\* tm_free takes a node out of the list...
LEMMA FreeHeap ==
  ASSUME TxInv, TxInv', HeapInv, NEW t \in Threads, NEW s \in Segments, tm_free(t, s) PROVE HeapInv'
  <1> USE ReferenceAssumption DEF AllocSteps, FreeSteps, LooseSteps
  <1>1. /\ tx[t] = "rw" /\ tx'[t] = "rw" /\ pc[t] = "ready" /\ pc'[t] = "unlink_next" /\ sn'[t] = s
        /\ s \in blocks
        /\ UNCHANGED <<phase, blocks, misfreed, prev>>
        /\ \A u \in Threads \ {t} : pc'[u] = pc[u] /\ sn'[u] = sn[u]
        /\ phase = "exists"
    BY DEF tm_free, Goto, TxInv, Types, CallInv, regionVars
  <1>2. /\ Listed = blocks \cap Segments
        /\ \A x : Before(x) = prev[x]
    BY <1>1, WriterLoose DEF OnlyWriter, Listed, Mended
  <1>3. /\ Loose' = {s}
        /\ \A x : Before(x)' = IF x = next'[s] THEN prev[s] ELSE prev[x]
    BY <1>1, WriterLooseNext DEF OnlyWriter, Mended
  <1>4. Listed' = Listed \ {s} /\ s \in Listed /\ Listed \subseteq Segments
    BY <1>1, <1>2, <1>3 DEF Listed
  <1>5. /\ allocs \in Listed \cup {Null}
        /\ \A r \in Listed : next[r] # Null => next[r] \in Listed /\ next[r] # allocs /\ prev[next[r]] = r
        /\ \A r \in Listed : r # allocs => prev[r] \in Listed /\ next[prev[r]] = r
        /\ allocs # Null => prev[allocs] = Null
    BY <1>1, <1>2 DEF HeapInv, LinkInv
  <1>6. PICK rank : Ranked(rank)
    BY DEF HeapInv
  <1>7. /\ next[s] # s
        /\ s # Null
        /\ prev[s] = Null <=> s = allocs
    <2>1. rank[s] \in Nat /\ (next[s] # Null => rank[s] < rank[next[s]])
      BY <1>4, <1>6 DEF Ranked
    <2>2. s # Null
      OBVIOUS
    <2>3. next[s] # s
      BY <2>1, <2>2
    <2>4. s = allocs => prev[s] = Null
      BY <1>5, <2>2
    <2>5. s # allocs => prev[s] \in Segments
      BY <1>4, <1>5
    <2> QED
      BY <2>2, <2>3, <2>4, <2>5
  <1>8. /\ \A r \in Listed' : next'[r] = IF r = prev[s] THEN next[s] ELSE next[r]
        /\ next'[s] = next[s]
        /\ allocs' = IF s = allocs THEN next[s] ELSE allocs
    BY <1>4, <1>5, <1>7 DEF tm_free, TxInv, Types
  <1>9. prev[s] # Null => prev[s] \in Listed' /\ next[prev[s]] = s
    BY <1>4, <1>5, <1>7
  <1>10. next[s] # Null => next[s] \in Listed' /\ prev[next[s]] = s
    BY <1>4, <1>5, <1>7
  <1>11. LinkInv'
    <2>1. allocs' \in Listed' \cup {Null}
      BY <1>4, <1>5, <1>7, <1>8, <1>10
    <2>2. ASSUME NEW r \in Listed', NEW y, y = next'[r], y # Null
          PROVE  y \in Listed' /\ y # allocs' /\ Before(y)' = r
      <3>1. CASE r = prev[s]
        BY <1>3, <1>4, <1>5, <1>7, <1>8, <1>10, <2>2, <3>1
      <3>2. CASE r # prev[s]
        <4>1. y = next[r] /\ y \in Listed /\ y # allocs /\ prev[y] = r
          BY <1>4, <1>5, <1>8, <2>2, <3>2
        <4>2. y # s /\ y # next[s]
          BY <1>4, <1>5, <1>9, <2>2, <3>2, <4>1
        <4> QED
          BY <1>3, <1>4, <1>8, <4>1, <4>2
      <3> QED
        BY <3>1, <3>2
    <2>3. ASSUME NEW r \in Listed', r # allocs', NEW p, p = Before(r)'
          PROVE  p \in Listed' /\ next'[p] = r
      <3>1. CASE r = next[s]
        BY <1>3, <1>4, <1>5, <1>7, <1>8, <1>9, <2>3, <3>1
      <3>2. CASE r # next[s]
        <4>1. p = prev[r] /\ r # allocs
          BY <1>3, <1>4, <1>8, <2>3, <3>2
        <4>2. p \in Listed /\ next[p] = r
          BY <1>4, <1>5, <4>1
        <4>3. p # s /\ p # prev[s]
          BY <1>4, <1>9, <3>2, <4>2, ReferenceAssumption
        <4> QED
          BY <1>4, <1>8, <4>2, <4>3
      <3> QED
        BY <3>1, <3>2
    <2>4. ASSUME allocs' # Null, NEW h, h = allocs' PROVE Before(h)' = Null
      BY <1>3, <1>4, <1>5, <1>7, <1>8, <2>4
    <2> QED
      BY <2>1, <2>2, <2>3, <2>4 DEF LinkInv
  <1>12. Ranked(rank)'
    <2>1. ASSUME NEW r \in Listed', next'[r] # Null PROVE rank[r] < rank[next'[r]]
      <3>1. CASE r = prev[s]
        <4>1. rank[r] < rank[s] /\ rank[s] < rank[next[s]] /\ next[s] \in Listed
          BY <1>4, <1>6, <1>7, <1>8, <1>9, <1>10, <2>1, <3>1 DEF Ranked
        <4>2. rank[r] \in Nat /\ rank[s] \in Nat /\ rank[next[s]] \in Nat
          BY <1>4, <1>6, <4>1 DEF Ranked
        <4> QED
          BY <1>8, <3>1, <4>1, <4>2
      <3>2. CASE r # prev[s]
        BY <1>4, <1>6, <1>8, <2>1, <3>2 DEF Ranked
      <3> QED
        BY <3>1, <3>2
    <2> QED
      BY <1>6, <2>1 DEF Ranked
  <1>13. NodeInv'
    BY <1>1, <1>4, <1>8, <1>10, WriterLoose DEF OnlyWriter, HeapInv, NodeInv
  <1>14. BlockInv'
    BY <1>1 DEF HeapInv, BlockInv
  <1> QED
    BY <1>11, <1>12, <1>13, <1>14 DEF HeapInv

\* ... tells the next node...
LEMMA UnlinkNextHeap ==
  ASSUME TxInv, TxInv', HeapInv, NEW t \in Threads, UnlinkNext(t) PROVE HeapInv'
  <1> USE ReferenceAssumption DEF AllocSteps, FreeSteps, LooseSteps
  <1>0. PICK s : s = sn[t]
    OBVIOUS
  <1>1. /\ tx[t] = "rw" /\ tx'[t] = "rw" /\ pc[t] = "unlink_next" /\ pc'[t] = "free"
        /\ UNCHANGED <<phase, blocks, misfreed, allocs, next, sn>>
        /\ \A u \in Threads \ {t} : pc'[u] = pc[u]
        /\ s \in Segments /\ s \in blocks
    BY <1>0 DEF UnlinkNext, Goto, TxInv, Types, CallInv, regionVars, HeapInv, NodeInv
  <1>2. /\ Loose = {s} /\ Loose' = {s}
        /\ \A x : Before(x) = IF x = next[s] THEN prev[s] ELSE prev[x]
        /\ \A x : Before(x)' = prev'[x]
    BY <1>0, <1>1, WriterLoose, WriterLooseNext DEF OnlyWriter, Mended
  <1>3. Listed' = Listed /\ Listed \subseteq Segments
    BY <1>1, <1>2 DEF Listed
  <1>4. \A r \in Listed : prev'[r] = IF r = next[s] THEN prev[s] ELSE prev[r]
    BY <1>0, <1>3 DEF UnlinkNext, TxInv, Types
  <1>5. LinkInv'
    BY <1>1, <1>2, <1>3, <1>4, LinkTransfer DEF HeapInv
  <1>6. PICK rank : Ranked(rank)
    BY DEF HeapInv
  <1>7. Ranked(rank)'
    BY <1>1, <1>3, <1>6 DEF Ranked
  <1>8. NodeInv'
    BY <1>0, <1>1, WriterLoose DEF OnlyWriter, HeapInv, NodeInv
  <1>9. BlockInv'
    BY <1>1 DEF HeapInv, BlockInv
  <1> QED
    BY <1>5, <1>7, <1>8, <1>9 DEF HeapInv

\* ... and frees the node.
LEMMA FreeNodeHeap ==
  ASSUME TxInv, TxInv', HeapInv, NEW t \in Threads, FreeNode(t) PROVE HeapInv'
  <1> USE ReferenceAssumption DEF AllocSteps, FreeSteps, LooseSteps
  <1>0. PICK s : s = sn[t]
    OBVIOUS
  <1>1. /\ tx[t] = "rw" /\ tx'[t] = "rw" /\ pc[t] = "free" /\ pc'[t] = "ready"
        /\ UNCHANGED <<phase, allocs>>
        /\ \A u \in Threads \ {t} : pc'[u] = pc[u]
        /\ s \in Segments /\ s \in blocks
        /\ \A r \in Segments \ {s} : next'[r] = next[r] /\ prev'[r] = prev[r]
    BY <1>0 DEF FreeNode, Forget, Goto, TxInv, Types, CallInv, HeapInv, NodeInv
  <1>2. blocks' = blocks \ {s} /\ ~misfreed'
    BY <1>0, <1>1, FreeOk DEF FreeNode, HeapInv, BlockInv
  <1>3. /\ Loose = {s} /\ Loose' = {}
        /\ \A x : Before(x) = prev[x]
        /\ \A x : Before(x)' = prev'[x]
    BY <1>0, <1>1, WriterLoose, WriterLooseNext DEF OnlyWriter, Mended
  <1>4. Listed' = Listed /\ Listed \subseteq Segments \ {s}
    BY <1>1, <1>2, <1>3 DEF Listed
  <1>5. LinkInv'
    BY <1>1, <1>3, <1>4, LinkTransfer DEF HeapInv
  <1>6. PICK rank : Ranked(rank)
    BY DEF HeapInv
  <1>7. Ranked(rank)'
    BY <1>1, <1>4, <1>6 DEF Ranked
  <1>8. NodeInv'
    BY <1>0, <1>1, WriterLoose DEF OnlyWriter, HeapInv, NodeInv
  <1>9. BlockInv'
    BY <1>1, <1>2 DEF HeapInv, BlockInv, TxInv, CallInv
  <1> QED
    BY <1>5, <1>7, <1>8, <1>9 DEF HeapInv

\* The other calls.
LEMMA OtherHeap ==
  ASSUME TxInv, TxInv', HeapInv, NEW t \in Threads,
         \/ \E ro \in BOOLEAN : tm_begin(t, ro)
         \/ tm_end(t)
         \/ \E a \in Addr, n \in 1..MaxLen : tm_read(t, a, n) \/ tm_write(t, a, n)
         \/ ReadWord(t)
         \/ \E v \in Val : WriteWord(t, v)
         \/ ZeroSegment(t)
  PROVE  HeapInv'
  <1> USE DEF AllocSteps, FreeSteps, LooseSteps
  <1>1. UNCHANGED <<regionVars, listVars>>
    BY DEF tm_begin, tm_end, tm_read, tm_write, CopyCall, ReadWord, WriteWord, ZeroSegment
  <1>2. CASE \E ro \in BOOLEAN : tm_begin(t, ro)
    BY <1>1, <1>2, QuietHeap DEF tm_begin
  <1>3. CASE tm_end(t)
    BY <1>1, <1>3, QuietHeap DEF tm_end
  <1>4. CASE \E a \in Addr, n \in 1..MaxLen : tm_read(t, a, n) \/ tm_write(t, a, n)
    <2>1. /\ \A u \in Threads \ {t} : pc'[u] = pc[u]
          /\ pc[t] = "ready" /\ pc'[t] \in {"read", "write"}
          /\ sn' = sn
      BY <1>4 DEF tm_read, tm_write, CopyCall, TxInv, Types
    <2> QED
      BY <1>1, <2>1, QuietHeap
  <1>5. CASE ReadWord(t) \/ \E v \in Val : WriteWord(t, v)
    <2>1. /\ \A u \in Threads \ {t} : pc'[u] = pc[u]
          /\ pc[t] \in {"read", "write"} /\ pc'[t] \in {pc[t], "ready"}
          /\ sn' = sn
      BY <1>5 DEF ReadWord, WriteWord, NextWord, TxInv, Types
    <2> QED
      BY <1>1, <2>1, QuietHeap
  <1>6. CASE ZeroSegment(t)
    <2>1. /\ \A u \in Threads \ {t} : pc'[u] = pc[u] /\ sn'[u] = sn[u]
          /\ pc[t] = "zero" /\ pc'[t] = "ready"
      BY <1>6 DEF ZeroSegment, Goto, TxInv, Types
    <2> QED
      BY <1>1, <2>1, QuietHeap
  <1> QED
    BY <1>2, <1>3, <1>4, <1>5, <1>6

LEMMA NextHeap == ASSUME TxInv, TxInv', HeapInv, [Next]_vars PROVE HeapInv'
  <1>1. ASSUME NEW t \in Threads, Call(t) PROVE HeapInv'
    BY <1>1, OtherHeap, AllocHeap, FreeHeap DEF Call
  <1>2. ASSUME NEW t \in Threads, Step(t) PROVE HeapInv'
    BY <1>2, OtherHeap, LinkNextHeap, LinkHeadHeap, UnlinkNextHeap, FreeNodeHeap DEF Step
  <1>3. UNCHANGED vars => HeapInv'
    BY QuietHeap DEF vars, callVars
  <1> QED
    BY <1>1, <1>2, <1>3, CreateHeap, DestroySegmentHeap, DestroyRegionHeap DEF Next, Over

\* The list that tm_alloc and tm_free of reference/tm.c edit link by link holds
\* the segments that exist, up to the one that a call is working on.
THEOREM HeapInvariance == Spec => [](TxInv /\ HeapInv)
  BY InitTx, NextTx, InitHeap, NextHeap, PTL DEF Spec

\* Whatever fails in tm_create and whatever transactions allocate and free, every
\* block of reference/tm.c is freed once, and tm_destroy leaves none behind.
THEOREM FreedOnce == Spec => []BlocksFreedOnce
  <1>1. HeapInv => BlocksFreedOnce
    BY DEF HeapInv, BlockInv, BlocksFreedOnce
  <1> QED
    BY HeapInvariance, <1>1, PTL

-----------------------------------------------------------------------------
(***************************************************************************)
(* What the list holds is what can be reached from its head.               *)
(***************************************************************************)
LEMMA NatSetInduction ==
  ASSUME NEW T \in SUBSET Nat, 0 \in T, \A n \in T : n + 1 \in T PROVE T = Nat
  <1> SUFFICES ASSUME Nat \ T # {} PROVE FALSE
    OBVIOUS
  <1>1. PICK n \in Nat \ T : \A m \in Nat \ T : n <= m
    BY LeastOf
  <1>2. n # 0 /\ n - 1 \in Nat
    BY <1>1
  <1>3. n - 1 \in T
    BY <1>1, <1>2
  <1>4. (n - 1) + 1 \in T
    BY <1>3
  <1> QED
    BY <1>1, <1>4

\* The nodes at the end of a path of at most n links from the head.
Path(m, p) ==
  /\ p \in [0..m -> Segments]
  /\ p[0] = allocs
  /\ \A i \in 0..(m - 1) : next[p[i]] = p[i + 1]

Reach(n) == {s \in Segments : \E m \in 0..n : \E p : Path(m, p) /\ p[m] = s}

LEMMA ReachHead == ASSUME Types PROVE Reach(0) = {allocs} \ {Null}
  <1> USE ReferenceAssumption
  <1>1. ASSUME NEW s \in Reach(0) PROVE s \in {allocs} \ {Null}
    BY <1>1 DEF Reach, Path
  <1>2. ASSUME allocs # Null PROVE allocs \in Reach(0)
    <2>1. allocs \in Segments
      BY <1>2 DEF Types
    <2>2. PICK p : p = [i \in 0..0 |-> allocs]
      OBVIOUS
    <2>3. Path(0, p) /\ p[0] = allocs
      BY <2>1, <2>2 DEF Path
    <2> QED
      BY <2>1, <2>3 DEF Reach
  <1> QED
    BY <1>1, <1>2

LEMMA ReachNext ==
  ASSUME Types, NEW n \in Nat \ {0}
  PROVE  Reach(n) = Reach(n - 1) \cup ({next[s] : s \in Reach(n - 1)} \ {Null})
  <1> USE ReferenceAssumption
  <1>1. ASSUME NEW s \in Reach(n) PROVE s \in Reach(n - 1) \/ \E r \in Reach(n - 1) : s = next[r]
    <2>0. PICK m \in 0..n : \E p : Path(m, p) /\ p[m] = s
      BY <1>1 DEF Reach
    <2>1. PICK p : Path(m, p) /\ p[m] = s
      BY <2>0
    <2>2. CASE m <= n - 1
      BY <1>1, <2>1, <2>2 DEF Reach
    <2>3. CASE m = n
      <3>1. PICK q : q = [i \in 0..(n - 1) |-> p[i]]
        OBVIOUS
      <3>2. Path(n - 1, q) /\ q[n - 1] = p[n - 1] /\ q[n - 1] \in Segments
        BY <2>1, <2>3, <3>1 DEF Path
      <3>3. next[p[n - 1]] = p[n]
        <4>1. n - 1 \in 0..(n - 1) /\ (n - 1) + 1 = n
          OBVIOUS
        <4> QED
          BY <2>1, <2>3, <4>1 DEF Path
      <3>4. p[n - 1] \in Reach(n - 1)
        BY <3>2 DEF Reach
      <3> QED
        BY <2>1, <2>3, <3>3, <3>4
    <2> QED
      BY <2>2, <2>3
  <1>2. ASSUME NEW s \in Reach(n - 1) PROVE s \in Reach(n)
    BY <1>2 DEF Reach
  <1>3. ASSUME NEW s \in Reach(n - 1), next[s] # Null PROVE next[s] \in Reach(n)
    <2>0. PICK m \in 0..(n - 1) : \E p : Path(m, p) /\ p[m] = s
      BY <1>3 DEF Reach
    <2>1. PICK p : Path(m, p) /\ p[m] = s
      BY <2>0
    <2>2. PICK q : q = [i \in 0..(m + 1) |-> IF i = m + 1 THEN next[s] ELSE p[i]]
      OBVIOUS
    <2>3. next[s] \in Segments
      BY <1>3 DEF Types, Reach
    <2>4. q \in [0..(m + 1) -> Segments] /\ q[0] = allocs /\ q[m + 1] = next[s]
      BY <2>1, <2>2, <2>3 DEF Path
    <2>5. ASSUME NEW i \in 0..m PROVE next[q[i]] = q[i + 1]
      <3>1. CASE i = m
        BY <2>1, <2>2, <3>1
      <3>2. CASE i # m
        BY <2>1, <2>2, <3>2 DEF Path
      <3> QED
        BY <3>1, <3>2
    <2>6. Path(m + 1, q) /\ m + 1 \in 0..n
      BY <2>4, <2>5 DEF Path
    <2> QED
      BY <2>3, <2>4, <2>6 DEF Reach
  <1>4. \A s \in Reach(n) : s # Null
    BY DEF Reach
  <1> QED
    BY <1>1, <1>2, <1>3, <1>4

\* The recursive definition of Within has a solution, so that it is one.
LEMMA WithinDef ==
  ASSUME Types
  PROVE  Within = [n \in Nat |->
                     IF n = 0 THEN {allocs} \ {Null}
                     ELSE Within[n - 1] \cup ({next[s] : s \in Within[n - 1]} \ {Null})]
  <1>1. PICK g : g = [n \in Nat |-> Reach(n)]
    OBVIOUS
  <1>2. \A n \in Nat : g[n] = IF n = 0 THEN {allocs} \ {Null}
                             ELSE g[n - 1] \cup ({next[s] : s \in g[n - 1]} \ {Null})
    <2> TAKE n \in Nat
    <2>1. CASE n = 0
      BY <1>1, <2>1, ReachHead
    <2>2. CASE n # 0
      <3>1. g[n - 1] = Reach(n - 1) /\ g[n] = Reach(n)
        BY <1>1, <2>2
      <3> QED
        BY <2>2, <3>1, ReachNext
    <2> QED
      BY <2>1, <2>2
  <1>3. g = [n \in Nat |-> IF n = 0 THEN {allocs} \ {Null}
                          ELSE g[n - 1] \cup ({next[s] : s \in g[n - 1]} \ {Null})]
    BY <1>1, <1>2
  <1> QED
    BY <1>3 DEF Within

LEMMA WithinZero == ASSUME Types PROVE Within[0] = {allocs} \ {Null}
  BY WithinDef

LEMMA WithinNext ==
  ASSUME Types, NEW n \in Nat
  PROVE  Within[n + 1] = Within[n] \cup ({next[s] : s \in Within[n]} \ {Null})
  <1>1. n + 1 \in Nat /\ n + 1 # 0 /\ (n + 1) - 1 = n
    OBVIOUS
  <1> QED
    BY <1>1, WithinDef

LEMMA WithinListed ==
  ASSUME Types, LinkInv PROVE \A n \in Nat : Within[n] \subseteq Listed
  <1> DEFINE T == {n \in Nat : Within[n] \subseteq Listed}
  <1>1. 0 \in T
    BY WithinZero DEF LinkInv
  <1>2. ASSUME NEW n \in T PROVE n + 1 \in T
    BY <1>2, WithinNext DEF LinkInv
  <1> HIDE DEF T
  <1>3. T \in SUBSET Nat
    BY DEF T
  <1>4. T = Nat
    BY <1>1, <1>2, <1>3, NatSetInduction
  <1> QED
    BY <1>4 DEF T

\* One more link finds one more node, until all have been found.
Closed(n) == \A s \in Within[n] : next[s] # Null => next[s] \in Within[n]

LEMMA WithinGrows ==
  ASSUME Types, LinkInv
  PROVE  \A n \in Nat : Closed(n) \/ Cardinality(Within[n]) >= n + 1
  <1> USE ReferenceAssumption
  <1> DEFINE T == {n \in Nat : Closed(n) \/ Cardinality(Within[n]) >= n + 1}
  <1>1. 0 \in T
    <2>1. CASE allocs = Null
      BY <2>1, WithinZero DEF Closed
    <2>2. CASE allocs # Null
      <3>1. Within[0] = {allocs}
        BY <2>2, WithinZero
      <3>2. Cardinality(Within[0]) = 1
        BY <3>1, FS_Singleton
      <3> QED
        BY <3>2
    <2> QED
      BY <2>1, <2>2
  <1>2. ASSUME NEW n \in T PROVE n + 1 \in T
    <2>0. n \in Nat
      OBVIOUS
    <2>1. CASE Closed(n)
      <3>0. PICK W : W = Within[n]
        OBVIOUS
      <3>1. Within[n + 1] = Within[n]
        <4>1. Within[n + 1] = W \cup ({next[s] : s \in W} \ {Null})
          BY <2>0, <3>0, WithinNext
        <4>2. \A s \in W : next[s] # Null => next[s] \in W
          BY <2>1, <3>0 DEF Closed
        <4>3. W \cup ({next[s] : s \in W} \ {Null}) = W
          BY <4>2
        <4> QED
          BY <3>0, <4>1, <4>3
      <3>2. Closed(n + 1)
        BY <2>1, <3>1 DEF Closed
      <3> QED
        BY <2>0, <3>2
    <2>2. CASE ~Closed(n)
      <3>1. PICK s \in Within[n] : next[s] # Null /\ next[s] \notin Within[n]
        BY <2>2 DEF Closed
      <3>2. Within[n] \cup {next[s]} \subseteq Within[n + 1]
        BY <2>0, <3>1, WithinNext
      <3>3. Within[n] \in SUBSET Segments /\ Within[n + 1] \in SUBSET Segments
        BY <2>0, WithinListed DEF Listed
      <3>4. IsFiniteSet(Within[n]) /\ IsFiniteSet(Within[n + 1])
        BY <3>3, FS_Subset
      <3>5. Cardinality(Within[n] \cup {next[s]}) = Cardinality(Within[n]) + 1
        BY <3>1, <3>4, FS_AddElement
      <3>6. Cardinality(Within[n] \cup {next[s]}) <= Cardinality(Within[n + 1])
        <4>1. (Within[n] \cup {next[s]}) \in SUBSET Within[n + 1]
          BY <3>2
        <4> QED
          BY <3>4, <4>1, FS_Subset
      <3>7. Cardinality(Within[n]) \in Nat /\ Cardinality(Within[n + 1]) \in Nat
        BY <3>4, FS_CardinalityType
      <3>8. Cardinality(Within[n]) >= n + 1
        BY <2>2
      <3>9. Cardinality(Within[n + 1]) >= (n + 1) + 1
        BY <2>0, <3>5, <3>6, <3>7, <3>8
      <3> QED
        BY <2>0, <3>9
    <2> QED
      BY <2>1, <2>2
  <1> HIDE DEF T
  <1>3. T \in SUBSET Nat
    BY DEF T
  <1>4. T = Nat
    BY <1>1, <1>2, <1>3, NatSetInduction
  <1> QED
    BY <1>4 DEF T

LEMMA WithinAll ==
  ASSUME Types, LinkInv, NEW rank, Ranked(rank) PROVE Within[Cardinality(Segments)] = Listed
  <1> USE ReferenceAssumption
  <1>1. PICK N : N = Cardinality(Segments)
    OBVIOUS
  <1>2. N \in Nat
    BY <1>1, FS_CardinalityType
  <1>3. Within[N] \subseteq Listed /\ Within[N] \in SUBSET Segments
    BY <1>2, WithinListed DEF Listed
  <1>4. Cardinality(Within[N]) <= N /\ Cardinality(Within[N]) \in Nat
    <2>1. IsFiniteSet(Within[N]) /\ Cardinality(Within[N]) <= N
      BY <1>1, <1>3, FS_Subset
    <2> QED
      BY <2>1, FS_CardinalityType
  <1>5. Closed(N)
    BY <1>2, <1>4, WithinGrows
  <1>6. allocs # Null => allocs \in Within[N]
    <2> SUFFICES ASSUME allocs # Null PROVE allocs \in Within[N]
      OBVIOUS
    <2> DEFINE T == {n \in Nat : allocs \in Within[n]}
    <2>1. 0 \in T
      BY WithinZero
    <2>2. ASSUME NEW n \in T PROVE n + 1 \in T
      BY <2>2, WithinNext
    <2> HIDE DEF T
    <2>3. T \in SUBSET Nat
      BY DEF T
    <2>4. T = Nat
      BY <2>1, <2>2, <2>3, NatSetInduction
    <2> QED
      BY <1>2, <2>4 DEF T
  <1>7. PICK W : W = Within[N]
    OBVIOUS
  <1>8. Listed \subseteq W
    BY <1>5, <1>6, <1>7, ListClosed DEF Closed
  <1> QED
    BY <1>1, <1>3, <1>7, <1>8

\* In reference/tm.c tm_free can take any segment out of the list and tm_destroy
\* finds them all: whenever no call is changing it, the list holds exactly the
\* allocated segments and its links agree in both directions.
THEOREM ListHoldsHeap == Spec => []ListIsHeap
  <1>1. ASSUME TxInv, HeapInv PROVE ListIsHeap
    <2> USE ReferenceAssumption
    <2> SUFFICES ASSUME phase = "exists", \A t \in Threads : sn[t] = Null
                 PROVE  /\ Within[Cardinality(Segments)] = blocks \cap Segments
                        /\ \A r, s \in blocks \cap Segments : next[r] = s <=> prev[s] = r
                        /\ allocs # Null => prev[allocs] = Null
      BY DEF ListIsHeap
    <2>1. \A t \in Threads : pc[t] \notin LooseSteps
      BY <1>1 DEF TxInv, CallInv, LooseSteps, AllocSteps, FreeSteps
    <2>2. Listed = blocks \cap Segments /\ \A x : Before(x) = prev[x]
      BY <1>1, <2>1, Settled DEF TxInv
    <2>3. Within[Cardinality(Segments)] = Listed
      BY <1>1, WithinAll DEF TxInv, HeapInv
    <2>4. allocs # Null => prev[allocs] = Null
      BY <1>1, <2>2 DEF HeapInv, LinkInv
    <2>5. ASSUME NEW r \in Listed, NEW s \in Listed PROVE next[r] = s <=> prev[s] = r
      <3>1. r # Null /\ s # Null
        BY DEF Listed
      <3>2. next[r] = s => prev[s] = r
        BY <1>1, <2>2, <3>1 DEF HeapInv, LinkInv
      <3>3. prev[s] = r => s # allocs
        BY <2>4, <3>1
      <3>4. prev[s] = r => next[r] = s
        BY <1>1, <2>2, <3>3 DEF HeapInv, LinkInv
      <3> QED
        BY <3>2, <3>4
    <2> QED
      BY <2>2, <2>3, <2>4, <2>5
  <1> QED
    BY <1>1, HeapInvariance, PTL

=============================================================================
