--------------------------- MODULE TL2HeapProofs ----------------------------
(***************************************************************************)
(* Theorems about the segments and the words of TL2: who owns a segment,   *)
(* when it may be freed, and what a word can contain.  They hold for all   *)
(* clients, those whose write sets share locks included.                   *)
(***************************************************************************)
EXTENDS TL2Proofs

-----------------------------------------------------------------------------
\* The words that exist: of the first segment and of the allocated ones.
Visible == FirstSegment \cup live

\* An open transaction names words it can know of, and keeps its segments to
\* itself until it commits.
HeapOf(t) ==
  /\ pc[t] # "idle" => alive
  /\ pc[t] = "idle" => txn_segs[t] = {} /\ WriteDom(t) = {} /\ reads[t] = {}
  /\ WriteDom(t) \subseteq Accessible(t)
  /\ pc[t] \in ReadSteps => word[t]..last[t] \subseteq Accessible(t)
  /\ pc[t] \notin CommitSteps => txn_segs[t] \cap published = {}

\* Every word that exists has a committed value, from the zeroes of its
\* allocation to the writes of a commit; so has every word that a call of
\* tm_read copied.
Committed(a, v) == \E p \in hist[a] : p[2] = v

ValuesOf(t) ==
  /\ pc[t] \in {"write", "set_version"} => \A a \in todo[t] : Committed(a, write_set[t][a])
  /\ pc[t] \in {"post_version", "post_locked"} /\ ~ReadsOwnWrite(t) => Committed(word[t], got[t])
  /\ \A r \in reads[t] : Committed(r[1], r[2])

Values ==
  /\ \A a \in Addr : <<0, Zero>> \in hist[a]
  /\ \A a \in Heap \ published : hist[a] = {<<0, Zero>>}
  /\ \A a \in Visible : Committed(a, mem[a])

\* The two halves of the inductive invariant.
SegInv ==
  /\ SegmentOwnership
  /\ alive => published \subseteq live
  /\ \A t \in Thread : HeapOf(t)

ValInv ==
  /\ Values
  /\ \A t \in Thread : ValuesOf(t)

HeapInv == SegInv /\ ValInv

-----------------------------------------------------------------------------
\* Nothing of another thread changes.
Others(t) ==
  \A u \in Thread \ {t} :
    /\ pc'[u] = pc[u] /\ word'[u] = word[u] /\ last'[u] = last[u]
    /\ todo'[u] = todo[u] /\ held'[u] = held[u] /\ wv'[u] = wv[u]
    /\ is_ro'[u] = is_ro[u] /\ rv'[u] = rv[u]
    /\ read_set'[u] = read_set[u] /\ write_set'[u] = write_set[u]
    /\ txn_segs'[u] = txn_segs[u]
    /\ ver'[u] = ver[u] /\ new_ver'[u] = new_ver[u] /\ got'[u] = got[u]
    /\ reads'[u] = reads[u] /\ raced'[u] = raced[u]

LEMMA DeleteOthers ==
  ASSUME TypeOK, NEW t \in Thread, NEW segs, DeleteTxn(t, segs)
  PROVE  Others(t)
  BY DEF DeleteTxn, Set, TypeOK, Others

LEMMA GiveUpOthers ==
  ASSUME TypeOK, NEW t \in Thread, GiveUp(t)
  PROVE  Others(t)
<1>1. CASE held[t] = {}
  BY <1>1, DeleteOthers DEF GiveUp, Abort
<1>2. CASE held[t] # {}
  BY <1>2 DEF GiveUp, Set, TypeOK, Others, txnVars, readRegs, histVars
<1> QED
  BY <1>1, <1>2

LEMMA CommitOthers ==
  ASSUME TypeOK, NEW t \in Thread, NEW v, Commit(t, v),
         UNCHANGED wv \/ \E x : wv' = Set(wv, t, x)
  PROVE  Others(t)
  BY DEF Commit, Set, TypeOK, Others, txnVars, readRegs

LEMMA CheckVersionOthers ==
  ASSUME TypeOK, NEW t \in Thread, NEW a, CheckVersion(t, a)
  PROVE  Others(t)
<1>1. CASE GiveUp(t)
  BY <1>1, GiveUpOthers
<1>2. CASE UNCHANGED wv /\ Commit(t, wv[t])
  BY <1>2, CommitOthers
<1>3. CASE ~GiveUp(t) /\ todo[t] # {a}
  BY <1>3 DEF CheckVersion, Set, TypeOK, Others, txnVars, readRegs, histVars
<1> QED
  BY <1>1, <1>2, <1>3 DEF CheckVersion

\* A step of a thread is private to it, shared variables apart.
LEMMA ThreadOthers ==
  ASSUME TypeOK, NEW t \in Thread, Call(t) \/ Step(t)
  PROVE  Others(t)
<1> USE DEF Set, Others, vars, sharedVars, txnVars, callVars, readRegs, endRegs, histVars
<1>1. ASSUME NEW ro, tm_begin(t, ro) PROVE Others(t)
  BY <1>1 DEF tm_begin, TypeOK
<1>2. ASSUME NEW a, NEW n, tm_read(t, a, n) PROVE Others(t)
  BY <1>2 DEF tm_read, TypeOK
<1>3. ASSUME NEW a, NEW n, tm_write(t, a, n) PROVE Others(t)
  BY <1>3 DEF tm_write, TypeOK
<1>4. ASSUME NEW s, tm_alloc(t, s) \/ tm_free(t, s) PROVE Others(t)
  BY <1>4 DEF tm_alloc, tm_free, TypeOK
<1>5. CASE tm_end(t)
  BY <1>5, DeleteOthers DEF tm_end, TypeOK
<1>6. CASE PreVersion(t) \/ Copy(t) \/ PostVersion(t)
  BY <1>6 DEF PreVersion, Copy, PostVersion, TypeOK
<1>7. CASE PreLocked(t)
  BY <1>7, DeleteOthers DEF PreLocked, Abort, TypeOK
<1>8. CASE PostLocked(t)
  <2>1. CASE Abort(t)
    BY <2>1, DeleteOthers DEF Abort
  <2>2. CASE WordRead(t)
    BY <2>2 DEF WordRead, TypeOK
  <2> QED
    BY <1>8, <2>1, <2>2 DEF PostLocked
<1>9. ASSUME NEW a, LockTaken(t, a) \/ LockMine(t, a) PROVE Others(t)
  BY <1>9 DEF LockTaken, LockMine, LockedWord, TypeOK
<1>10. ASSUME NEW a, LockBusy(t, a) PROVE Others(t)
  BY <1>10, GiveUpOthers DEF LockBusy
<1>11. ASSUME NEW l, Unlock(t, l) PROVE Others(t)
  <2>1. CASE Abort(t)
    BY <2>1, DeleteOthers DEF Abort
  <2>2. CASE held[t] # {l}
    BY <1>11, <2>2 DEF Unlock, TypeOK
  <2> QED
    BY <1>11, <2>1, <2>2 DEF Unlock
<1>12. CASE IncrementClock(t)
  <2>1. CASE Commit(t, gvc + 1)
    BY <1>12, <2>1, CommitOthers DEF IncrementClock
  <2>2. CASE ~(NobodyCommitted(t) \/ read_set[t] = {})
    BY <1>12, <2>2 DEF IncrementClock, TypeOK
  <2> QED
    BY <1>12, <2>1, <2>2 DEF IncrementClock
<1>13. ASSUME NEW a, ValidateLocked(t, a) PROVE Others(t)
  <2>1. CASE GiveUp(t)
    BY <2>1, GiveUpOthers
  <2>2. CASE ~GiveUp(t)
    BY <1>13, <2>2 DEF ValidateLocked, TypeOK
  <2> QED
    BY <2>1, <2>2
<1>14. ASSUME NEW a, ValidateMine(t, a) PROVE Others(t)
  BY <1>14, CheckVersionOthers DEF ValidateMine
<1>15. CASE ValidateVersion(t)
  BY <1>15, CheckVersionOthers DEF ValidateVersion
<1>16. ASSUME NEW a, WriteBack(t, a) PROVE Others(t)
  BY <1>16 DEF WriteBack, TypeOK
<1>17. CASE SetVersion(t) \/ SpliceLock(t)
  BY <1>17 DEF SetVersion, SpliceLock, TypeOK
<1>18. CASE Splice(t)
  BY <1>18, DeleteOthers DEF Splice
<1>19. CASE Call(t)
  BY <1>1, <1>2, <1>3, <1>4, <1>5, <1>19 DEF Call
<1>20. CASE Step(t)
  BY <1>6, <1>7, <1>8, <1>9, <1>10, <1>11, <1>12, <1>13, <1>14, <1>15, <1>16, <1>17, <1>18, <1>20
  DEF Step
<1> QED
  BY <1>19, <1>20

-----------------------------------------------------------------------------
\* A step of thread t that moves no segment.
QuietStep(t) ==
  /\ UNCHANGED <<alive, live, seg_list, published, txn_segs>>
  /\ alive
  /\ pc'[t] # "idle"
  /\ pc'[t] \in CommitSteps <=> pc[t] \in CommitSteps
  /\ WriteDom(t)' \subseteq Accessible(t)
  /\ pc'[t] \in ReadSteps => word'[t]..last'[t] \subseteq Accessible(t)

LEMMA QuietKeeps ==
  ASSUME SegInv, NEW t \in Thread, Others(t), QuietStep(t)
  PROVE  SegInv'
<1>1. txn_segs' = txn_segs
  BY DEF QuietStep
<1>2. SegmentOwnership' /\ (alive' => published' \subseteq live')
  BY <1>1 DEF SegInv, SegmentOwnership, QuietStep
<1>3. \A u \in Thread : Accessible(u)' = Accessible(u)
  BY <1>1 DEF Accessible, QuietStep
<1>4. HeapOf(t)'
  <2>1. alive' /\ pc'[t] # "idle"
    BY DEF QuietStep
  <2>2. WriteDom(t)' \subseteq Accessible(t)'
    BY <1>3 DEF QuietStep
  <2>3. pc'[t] \in ReadSteps => word'[t]..last'[t] \subseteq Accessible(t)'
    BY <1>3 DEF QuietStep
  <2>4. pc'[t] \notin CommitSteps => txn_segs'[t] \cap published' = {}
    BY DEF QuietStep, SegInv, HeapOf
  <2> QED
    BY <2>1, <2>2, <2>3, <2>4, Zenon DEF HeapOf
<1>5. ASSUME NEW u \in Thread \ {t} PROVE HeapOf(u)'
  <2>1. WriteDom(u)' = WriteDom(u)
    BY DEF WriteDom, Others
  <2> QED
    BY <1>1, <1>3, <2>1 DEF SegInv, HeapOf, QuietStep, Others
<1> QED
  BY <1>2, <1>4, <1>5 DEF SegInv

\* A transaction that does not commit goes, and its segments with it.
LEMMA DeleteKeeps ==
  ASSUME TypeOK, SegInv, NEW t \in Thread, DeleteTxn(t, txn_segs[t]), UNCHANGED seg_list,
         pc[t] \notin CommitSteps, pc[t] # "idle"
  PROVE  SegInv'
<1> USE DEF DeleteTxn, FreeSegments, Set
<1>1. Others(t)
  BY DeleteOthers
<1>2. /\ live' = live \ txn_segs[t] /\ txn_segs'[t] = {} /\ pc'[t] = "idle"
      /\ reads'[t] = {} /\ WriteDom(t)' = {}
      /\ UNCHANGED <<alive, published, seg_list>>
  BY DEF TypeOK, WriteDom
<1>3. SegmentOwnership'
  <2>1. \A u \in Thread \ {t} : txn_segs'[u] = txn_segs[u]
    BY <1>1 DEF Others
  <2>2. live' = seg_list' \cup UNION {txn_segs'[u] : u \in Thread}
    BY <1>2, <2>1 DEF SegInv, SegmentOwnership
  <2>3. \A u \in Thread : txn_segs'[u] \cap seg_list' = {}
    BY <1>2, <2>1 DEF SegInv, SegmentOwnership
  <2>4. \A u, v \in Thread : u # v => txn_segs'[u] \cap txn_segs'[v] = {}
    BY <1>2, <2>1 DEF SegInv, SegmentOwnership
  <2> QED
    BY <1>2, <2>2, <2>3, <2>4 DEF SegInv, SegmentOwnership
<1>4. alive' => published' \subseteq live'
  BY <1>2 DEF SegInv, HeapOf
<1>5. HeapOf(t)'
  BY <1>2 DEF HeapOf, ReadSteps
<1>6. ASSUME NEW u \in Thread \ {t} PROVE HeapOf(u)'
  <2>1. WriteDom(u)' = WriteDom(u) /\ Accessible(u)' = Accessible(u)
    BY <1>1, <1>2 DEF WriteDom, Accessible, Others
  <2> QED
    BY <1>1, <1>2, <2>1 DEF SegInv, HeapOf, Others
<1> QED
  BY <1>3, <1>4, <1>5, <1>6 DEF SegInv

LEMMA SpliceKeeps ==
  ASSUME TypeOK, SegInv, NEW t \in Thread, Splice(t)
  PROVE  SegInv'
<1> USE DEF Splice, DeleteTxn, FreeSegments, Set
<1>1. Others(t)
  BY DeleteOthers
<1>2. /\ live' = live /\ txn_segs'[t] = {} /\ pc'[t] = "idle"
      /\ reads'[t] = {} /\ WriteDom(t)' = {}
      /\ seg_list' = seg_list \cup txn_segs[t]
      /\ UNCHANGED <<alive, published>>
      /\ alive
  BY DEF TypeOK, WriteDom, SegInv, HeapOf
<1>3. SegmentOwnership'
  <2>1. \A u \in Thread \ {t} : txn_segs'[u] = txn_segs[u]
    BY <1>1 DEF Others
  <2>2. live' = seg_list' \cup UNION {txn_segs'[u] : u \in Thread}
    BY <1>2, <2>1 DEF SegInv, SegmentOwnership
  <2>3. \A u \in Thread : txn_segs'[u] \cap seg_list' = {}
    BY <1>2, <2>1 DEF SegInv, SegmentOwnership
  <2>4. \A u, v \in Thread : u # v => txn_segs'[u] \cap txn_segs'[v] = {}
    BY <1>2, <2>1 DEF SegInv, SegmentOwnership
  <2> QED
    BY <1>2, <2>2, <2>3, <2>4 DEF SegInv, SegmentOwnership
<1>4. alive' => published' \subseteq live'
  BY <1>2 DEF SegInv
<1>5. HeapOf(t)'
  BY <1>2 DEF HeapOf, ReadSteps
<1>6. ASSUME NEW u \in Thread \ {t} PROVE HeapOf(u)'
  <2>1. WriteDom(u)' = WriteDom(u) /\ Accessible(u)' = Accessible(u)
    BY <1>1, <1>2 DEF WriteDom, Accessible, Others
  <2> QED
    BY <1>1, <1>2, <2>1 DEF SegInv, HeapOf, Others
<1> QED
  BY <1>3, <1>4, <1>5, <1>6 DEF SegInv

LEMMA AllocKeeps ==
  ASSUME TypeOK, SegInv, NEW t \in Thread, NEW s \in Heap, tm_alloc(t, s)
  PROVE  SegInv'
<1> USE DEF tm_alloc, Set, callVars, readRegs, endRegs, histVars
<1>1. Others(t)
  BY ThreadOthers DEF Call
<1>2. /\ s \notin live /\ live' = live \cup {s}
      /\ txn_segs'[t] = txn_segs[t] \cup {s}
      /\ pc[t] = "ready" /\ alive
      /\ UNCHANGED <<alive, published, seg_list, pc, write_set, reads>>
  BY DEF TypeOK, SegInv, HeapOf
<1>3. SegmentOwnership'
  <2>1. \A u \in Thread \ {t} : txn_segs'[u] = txn_segs[u]
    BY <1>1 DEF Others
  <2>2. live' = seg_list' \cup UNION {txn_segs'[u] : u \in Thread}
    BY <1>2, <2>1 DEF SegInv, SegmentOwnership
  <2>3. \A u \in Thread : s \notin txn_segs[u] /\ s \notin seg_list
    BY <1>2 DEF SegInv, SegmentOwnership
  <2>4. \A u \in Thread : txn_segs'[u] \cap seg_list' = {}
    BY <1>2, <2>1, <2>3 DEF SegInv, SegmentOwnership
  <2>5. \A u, v \in Thread : u # v => txn_segs'[u] \cap txn_segs'[v] = {}
    BY <1>2, <2>1, <2>3 DEF SegInv, SegmentOwnership
  <2> QED
    BY <1>2, <2>2, <2>4, <2>5 DEF SegInv, SegmentOwnership
<1>4. alive' => published' \subseteq live'
  BY <1>2 DEF SegInv
<1>5. HeapOf(t)'
  <2>1. WriteDom(t)' = WriteDom(t) /\ Accessible(t) \subseteq Accessible(t)'
    BY <1>2 DEF WriteDom, Accessible
  <2>2. s \notin published
    BY <1>2 DEF SegInv
  <2> QED
    BY <1>2, <2>1, <2>2 DEF SegInv, HeapOf, ReadSteps, CommitSteps
<1>6. ASSUME NEW u \in Thread \ {t} PROVE HeapOf(u)'
  <2>1. WriteDom(u)' = WriteDom(u) /\ Accessible(u)' = Accessible(u)
    BY <1>1, <1>2 DEF WriteDom, Accessible, Others
  <2> QED
    BY <1>1, <1>2, <2>1 DEF SegInv, HeapOf, Others
<1> QED
  BY <1>3, <1>4, <1>5, <1>6 DEF SegInv

LEMMA CommitKeeps ==
  ASSUME TypeOK, SegInv, NEW t \in Thread, NEW v, Commit(t, v), Others(t), pc[t] # "idle"
  PROVE  SegInv'
<1>1. /\ published' = published \cup txn_segs[t]
      /\ pc'[t] \in {"write", "splice_lock"}
      /\ UNCHANGED <<alive, live, seg_list, txn_segs, write_set, reads>>
      /\ alive
  BY DEF Commit, Set, TypeOK, txnVars, SegInv, HeapOf
<1>2. SegmentOwnership'
  BY <1>1 DEF SegInv, SegmentOwnership
<1>3. txn_segs[t] \subseteq live
  BY DEF SegInv, SegmentOwnership
<1>4. HeapOf(t)'
  <2>1. WriteDom(t)' = WriteDom(t) /\ Accessible(t) \subseteq Accessible(t)'
    BY <1>1 DEF WriteDom, Accessible
  <2> QED
    BY <1>1, <2>1 DEF SegInv, HeapOf, ReadSteps, CommitSteps
<1>5. ASSUME NEW u \in Thread \ {t} PROVE HeapOf(u)'
  <2>1. WriteDom(u)' = WriteDom(u) /\ Accessible(u) \subseteq Accessible(u)'
    BY <1>1 DEF WriteDom, Accessible, Others
  <2>2. txn_segs[u] \cap txn_segs[t] = {}
    BY DEF SegInv, SegmentOwnership
  <2> QED
    BY <1>1, <2>1, <2>2 DEF SegInv, HeapOf, Others
<1> QED
  BY <1>1, <1>2, <1>3, <1>4, <1>5 DEF SegInv

LEMMA GiveUpKeeps ==
  ASSUME TypeOK, SegInv, NEW t \in Thread, GiveUp(t), pc[t] \in TrySteps
  PROVE  SegInv'
<1>0. Others(t) /\ pc[t] # "idle" /\ pc[t] \notin CommitSteps
  BY GiveUpOthers DEF TrySteps, CommitSteps
<1>1. CASE held[t] = {}
  BY <1>0, <1>1, DeleteKeeps DEF GiveUp, Abort
<1>2. CASE held[t] # {}
  <2>1. /\ UNCHANGED <<sharedVars, txnVars, histVars>> /\ pc'[t] = "unlock"
    BY <1>2 DEF GiveUp, Set, TypeOK
  <2>2. WriteDom(t)' = WriteDom(t)
    BY <2>1 DEF WriteDom, txnVars
  <2> QED
    BY <1>0, <2>1, <2>2, QuietKeeps
    DEF QuietStep, SegInv, HeapOf, sharedVars, txnVars, histVars, CommitSteps, ReadSteps
<1> QED
  BY <1>1, <1>2

LEMMA CheckVersionKeeps ==
  ASSUME TypeOK, SegInv, NEW t \in Thread, NEW a, CheckVersion(t, a),
         pc[t] \in {"validate", "validate_version"}
  PROVE  SegInv'
<1>0. Others(t) /\ pc[t] \in TrySteps /\ pc[t] # "idle"
  BY CheckVersionOthers DEF TrySteps
<1>1. CASE GiveUp(t)
  BY <1>0, <1>1, GiveUpKeeps
<1>2. CASE Commit(t, wv[t])
  BY <1>0, <1>2, CommitKeeps
<1>3. CASE ~GiveUp(t) /\ todo[t] # {a}
  <2>1. /\ UNCHANGED <<live, alive, seg_list, txnVars, histVars>> /\ pc'[t] = "validate"
    BY <1>3 DEF CheckVersion, Set, TypeOK
  <2>2. WriteDom(t)' = WriteDom(t)
    BY <2>1 DEF WriteDom, txnVars
  <2> QED
    BY <1>0, <2>1, <2>2, QuietKeeps
    DEF QuietStep, SegInv, HeapOf, txnVars, histVars, CommitSteps, ReadSteps
<1> QED
  BY <1>1, <1>2, <1>3 DEF CheckVersion

LEMMA CallKeepsSegs ==
  ASSUME Inv, SegInv, NEW t \in Thread, Call(t)
  PROVE  SegInv'
<1> USE DEF Set, sharedVars, txnVars, callVars, readRegs, endRegs, histVars
<1>0. TypeOK /\ Others(t) /\ HeapOf(t)
  BY ThreadOthers DEF Inv, SegInv
<1>1. ASSUME NEW ro, tm_begin(t, ro) PROVE SegInv'
  <2>1. /\ UNCHANGED <<alive, live, seg_list, published, txn_segs, write_set>>
        /\ alive /\ pc[t] = "idle" /\ pc'[t] = "ready"
    BY <1>0, <1>1 DEF tm_begin, TypeOK
  <2>2. WriteDom(t)' = WriteDom(t)
    BY <2>1 DEF WriteDom
  <2> QED
    BY <1>0, <2>1, <2>2, QuietKeeps DEF QuietStep, HeapOf, CommitSteps, ReadSteps
<1>2. ASSUME NEW a, NEW n, tm_read(t, a, n) PROVE SegInv'
  <2>1. /\ UNCHANGED <<alive, live, seg_list, published, txn_segs, write_set>>
        /\ pc[t] = "ready" /\ pc'[t] = "pre_version"
        /\ word'[t] = a /\ last'[t] = a + n - 1
        /\ a..(a + n - 1) \subseteq Accessible(t)
    BY <1>0, <1>2 DEF tm_read, TypeOK, Words
  <2>2. WriteDom(t)' = WriteDom(t)
    BY <2>1 DEF WriteDom
  <2> QED
    BY <1>0, <2>1, <2>2, QuietKeeps DEF QuietStep, HeapOf, CommitSteps, ReadSteps
<1>3. ASSUME NEW a, NEW n, tm_write(t, a, n) PROVE SegInv'
  <2>1. /\ UNCHANGED <<alive, live, seg_list, published, txn_segs, pc>>
        /\ pc[t] = "ready" /\ Words(a, n) \subseteq Accessible(t)
    BY <1>0, <1>3 DEF tm_write, TypeOK
  <2>2. WriteDom(t)' \subseteq WriteDom(t) \cup Words(a, n)
    <3>1. PICK val \in [Words(a, n) -> Val] :
            write_set' = Set(write_set, t,
              [b \in Addr |-> IF b \in Words(a, n) THEN val[b] ELSE write_set[t][b]])
      BY <1>3 DEF tm_write
    <3> QED
      BY <1>0, <3>1 DEF WriteDom, TypeOK
  <2> QED
    BY <1>0, <2>1, <2>2, QuietKeeps DEF QuietStep, HeapOf, CommitSteps, ReadSteps
<1>4. ASSUME NEW s \in Heap, tm_alloc(t, s) PROVE SegInv'
  BY <1>0, <1>4, AllocKeeps
<1>5. ASSUME NEW s, tm_free(t, s) PROVE SegInv'
  <2>1. UNCHANGED vars
    BY <1>5 DEF tm_free
  <2>2. \A u \in Thread : WriteDom(u)' = WriteDom(u) /\ Accessible(u)' = Accessible(u)
    BY <2>1 DEF WriteDom, Accessible, vars
  <2> QED
    BY <2>1, <2>2 DEF SegInv, HeapOf, SegmentOwnership, vars
<1>6. CASE tm_end(t)
  <2>1. CASE is_ro[t]
    BY <1>0, <1>6, <2>1, DeleteKeeps DEF tm_end, CommitSteps
  <2>2. CASE ~is_ro[t]
    <3>1. /\ UNCHANGED <<alive, live, seg_list, published, txn_segs, write_set>>
          /\ pc[t] = "ready" /\ pc'[t] \in {"clock", "lock"}
      BY <1>0, <1>6, <2>2 DEF tm_end, TypeOK
    <3>2. WriteDom(t)' = WriteDom(t)
      BY <3>1 DEF WriteDom
    <3> QED
      BY <1>0, <3>1, <3>2, QuietKeeps DEF QuietStep, HeapOf, CommitSteps, ReadSteps
  <2> QED
    BY <2>1, <2>2
<1> QED
  BY <1>1, <1>2, <1>3, <1>4, <1>5, <1>6 DEF Call

LEMMA StepKeepsSegs ==
  ASSUME Inv, SegInv, NEW t \in Thread, Step(t)
  PROVE  SegInv'
<1> USE DEF Set, sharedVars, txnVars, callVars, readRegs, endRegs, histVars
<1>0. TypeOK /\ Registers /\ Others(t) /\ HeapOf(t)
  BY ThreadOthers DEF Inv, SegInv
\* A step that goes on within the same call.
<1>1. ASSUME UNCHANGED <<alive, live, seg_list, published, txn_segs, write_set>>,
             pc[t] # "idle", pc'[t] # "idle", pc'[t] \in CommitSteps <=> pc[t] \in CommitSteps,
             pc'[t] \in ReadSteps => pc[t] \in ReadSteps /\ word'[t]..last'[t] \subseteq word[t]..last[t]
      PROVE  SegInv'
  <2>1. WriteDom(t)' = WriteDom(t)
    BY <1>1 DEF WriteDom
  <2> QED
    BY <1>0, <1>1, <2>1, QuietKeeps DEF QuietStep, HeapOf
<1>2. CASE PreVersion(t) \/ Copy(t) \/ PostVersion(t)
  BY <1>0, <1>1, <1>2 DEF PreVersion, Copy, PostVersion, TypeOK, CommitSteps, ReadSteps
<1>3. CASE PreLocked(t)
  <2>1. CASE Abort(t) /\ UNCHANGED seg_list
    BY <1>0, <1>3, <2>1, DeleteKeeps DEF PreLocked, Abort, CommitSteps
  <2>2. CASE ~PreValidateFails(t)
    BY <1>0, <1>1, <1>3, <2>2 DEF PreLocked, TypeOK, CommitSteps, ReadSteps
  <2> QED
    BY <1>3, <2>1, <2>2 DEF PreLocked
<1>4. CASE PostLocked(t)
  <2>1. CASE Abort(t) /\ UNCHANGED seg_list
    BY <1>0, <1>4, <2>1, DeleteKeeps DEF PostLocked, Abort, CommitSteps
  <2>2. CASE WordRead(t)
    <3>1. word[t] \in Nat /\ last[t] \in Nat
      BY <1>0, <1>4, ReadRegisters DEF PostLocked, ReadSteps
    <3>2. /\ pc'[t] \in {"pre_version", "ready"}
          /\ pc'[t] = "pre_version" => word'[t] = word[t] + 1 /\ last'[t] = last[t]
          /\ pc[t] = "post_locked"
          /\ UNCHANGED <<alive, live, seg_list, published, txn_segs, write_set>>
      BY <1>0, <1>4, <2>2 DEF PostLocked, WordRead, TypeOK
    <3>3. pc'[t] = "pre_version" => word'[t]..last'[t] \subseteq word[t]..last[t]
      BY <3>1, <3>2
    <3> QED
      BY <1>1, <3>2, <3>3 DEF CommitSteps, ReadSteps
  <2> QED
    BY <1>4, <2>1, <2>2 DEF PostLocked
<1>5. ASSUME NEW a, LockTaken(t, a) \/ LockMine(t, a) PROVE SegInv'
  BY <1>0, <1>1, <1>5 DEF LockTaken, LockMine, LockedWord, TypeOK, CommitSteps, ReadSteps
<1>6. ASSUME NEW a, LockBusy(t, a) PROVE SegInv'
  BY <1>0, <1>6, GiveUpKeeps DEF LockBusy, TrySteps
<1>7. ASSUME NEW l, Unlock(t, l) PROVE SegInv'
  <2>1. CASE Abort(t) /\ UNCHANGED seg_list
    BY <1>0, <1>7, <2>1, DeleteKeeps DEF Unlock, Abort, CommitSteps
  <2>2. CASE held[t] # {l}
    BY <1>0, <1>1, <1>7, <2>2 DEF Unlock, TypeOK, CommitSteps, ReadSteps
  <2> QED
    BY <1>7, <2>1, <2>2 DEF Unlock
<1>8. CASE IncrementClock(t)
  <2>1. CASE Commit(t, gvc + 1)
    BY <1>0, <1>8, <2>1, CommitKeeps DEF IncrementClock
  <2>2. CASE ~(NobodyCommitted(t) \/ read_set[t] = {})
    BY <1>0, <1>1, <1>8, <2>2 DEF IncrementClock, TypeOK, CommitSteps, ReadSteps
  <2> QED
    BY <1>8, <2>1, <2>2 DEF IncrementClock
<1>9. ASSUME NEW a, ValidateLocked(t, a) PROVE SegInv'
  <2>1. CASE GiveUp(t)
    BY <1>0, <1>9, <2>1, GiveUpKeeps DEF ValidateLocked, TrySteps
  <2>2. CASE ~GiveUp(t)
    BY <1>0, <1>1, <1>9, <2>2 DEF ValidateLocked, TypeOK, CommitSteps, ReadSteps
  <2> QED
    BY <2>1, <2>2
<1>10. ASSUME NEW a, ValidateMine(t, a) PROVE SegInv'
  BY <1>0, <1>10, CheckVersionKeeps DEF ValidateMine
<1>11. CASE ValidateVersion(t)
  BY <1>0, <1>11, CheckVersionKeeps DEF ValidateVersion
<1>12. ASSUME NEW a, WriteBack(t, a) PROVE SegInv'
  BY <1>0, <1>1, <1>12 DEF WriteBack, TypeOK, CommitSteps, ReadSteps
<1>13. CASE SetVersion(t) \/ SpliceLock(t)
  BY <1>0, <1>1, <1>13 DEF SetVersion, SpliceLock, TypeOK, CommitSteps, ReadSteps
<1>14. CASE Splice(t)
  BY <1>0, <1>14, SpliceKeeps
<1> QED
  BY <1>2, <1>3, <1>4, <1>5, <1>6, <1>7, <1>8, <1>9, <1>10, <1>11, <1>12, <1>13, <1>14 DEF Step

LEMMA NextKeepsSegs ==
  ASSUME Inv, SegInv, [Next]_vars
  PROVE  SegInv'
<1>1. CASE tm_destroy
  <2>1. /\ \A t \in Thread : pc[t] = "idle" /\ txn_segs[t] = {}
        /\ ~alive' /\ live' = live \ seg_list /\ seg_list' = {}
        /\ UNCHANGED <<txnVars, callVars, histVars>>
    BY <1>1 DEF tm_destroy, FreeSegments, SegInv, HeapOf
  <2>2. SegmentOwnership'
    BY <2>1 DEF SegInv, SegmentOwnership, txnVars
  <2>3. \A t \in Thread : HeapOf(t)'
    <3>1. \A t \in Thread : WriteDom(t)' = WriteDom(t) /\ Accessible(t)' = Accessible(t)
      BY <2>1 DEF WriteDom, Accessible, txnVars, histVars
    <3> QED
      BY <2>1, <3>1 DEF SegInv, HeapOf, txnVars, callVars, readRegs, histVars
  <2> QED
    BY <2>1, <2>2, <2>3 DEF SegInv
<1>2. CASE UNCHANGED vars
  <2> USE DEF vars, sharedVars, txnVars, callVars, readRegs, histVars
  <2>1. \A t \in Thread : WriteDom(t)' = WriteDom(t) /\ Accessible(t)' = Accessible(t)
    BY <1>2 DEF WriteDom, Accessible
  <2> QED
    BY <1>2, <2>1 DEF SegInv, HeapOf, SegmentOwnership
<1> QED
  BY <1>1, <1>2, CallKeepsSegs, StepKeepsSegs DEF Next, Destroyed

LEMMA InitSegs == Init => SegInv
<1> SUFFICES ASSUME Init PROVE SegInv
  OBVIOUS
<1>1. \A t \in Thread : WriteDom(t) = {}
  BY DEF Init, WriteDom
<1> QED
  BY <1>1 DEF Init, SegInv, SegmentOwnership, HeapOf, ReadSteps, CommitSteps

-----------------------------------------------------------------------------
\* What is committed stays so.
LEMMA CommittedStays ==
  ASSUME \A a \in Addr : hist[a] \subseteq hist'[a], NEW a \in Addr, NEW v, Committed(a, v)
  PROVE  Committed(a, v)'
  BY DEF Committed

LEMMA VisibleType == TypeOK => Visible \subseteq Addr
  BY DEF TypeOK, Visible, Addr

\* The addresses a client can name exist.
LEMMA AccessibleVisible ==
  ASSUME TypeOK, SegInv, NEW t \in Thread, alive
  PROVE  Accessible(t) \subseteq Visible
  BY DEF SegInv, SegmentOwnership, Accessible, Visible

\* A step of thread t that commits nothing and changes no word that exists
\* afterwards.
SameValues(t) ==
  /\ hist' = hist
  /\ published' = published
  /\ \A a \in Visible' : a \in Visible /\ mem'[a] = mem[a]

LEMMA ValuesKept ==
  ASSUME TypeOK, Registers, ValInv, NEW t \in Thread, Others(t), SameValues(t), ValuesOf(t)'
  PROVE  ValInv'
<1>1. \A a, v : Committed(a, v)' <=> Committed(a, v)
  BY DEF Committed, SameValues
<1>2. Values'
  BY <1>1 DEF ValInv, Values, SameValues
<1>3. ASSUME NEW u \in Thread \ {t} PROVE ValuesOf(u)'
  <2>1. ReadsOwnWrite(u)' <=> ReadsOwnWrite(u)
    BY DEF Others, ReadsOwnWrite
  <2> QED
    BY <1>1, <2>1 DEF ValInv, ValuesOf, Others
<1> QED
  BY <1>2, <1>3 DEF ValInv

\* A thread that is neither copying nor writing back has only its reads.
LEMMA PlainValues ==
  ASSUME ValInv, NEW t \in Thread, hist' = hist,
         pc'[t] \notin {"write", "set_version", "post_version", "post_locked"},
         reads'[t] \subseteq reads[t]
  PROVE  ValuesOf(t)'
<1>1. \A a, v : Committed(a, v)' <=> Committed(a, v)
  BY DEF Committed
<1> QED
  BY <1>1 DEF ValInv, ValuesOf

LEMMA DeleteValues ==
  ASSUME TypeOK, Registers, ValInv, NEW t \in Thread, NEW segs, DeleteTxn(t, segs), mem' = mem
  PROVE  ValInv'
<1>1. Others(t)
  BY DeleteOthers
<1>2. /\ live' \subseteq live /\ hist' = hist /\ published' = published
      /\ pc'[t] = "idle" /\ reads'[t] = {}
  BY DEF DeleteTxn, FreeSegments, Set, TypeOK
<1>3. SameValues(t)
  BY <1>2 DEF SameValues, Visible
<1>4. ValuesOf(t)'
  BY <1>2, PlainValues
<1> QED
  BY <1>1, <1>3, <1>4, ValuesKept

LEMMA GiveUpValues ==
  ASSUME TypeOK, Registers, ValInv, NEW t \in Thread, GiveUp(t)
  PROVE  ValInv'
<1>0. Others(t)
  BY GiveUpOthers
<1>1. CASE held[t] = {}
  BY <1>1, DeleteValues DEF GiveUp, Abort
<1>2. CASE held[t] # {}
  <2>1. /\ UNCHANGED <<live, hist, published, mem, reads>> /\ pc'[t] = "unlock"
    BY <1>2 DEF GiveUp, Set, TypeOK, sharedVars, histVars
  <2> QED
    BY <1>0, <2>1, ValuesKept, PlainValues DEF SameValues, Visible
<1> QED
  BY <1>1, <1>2

LEMMA CommitValues ==
  ASSUME TypeOK, Registers, SegInv, ValInv, NEW t \in Thread, NEW v, Commit(t, v), Others(t)
  PROVE  ValInv'
<1>1. /\ hist' = [a \in Addr |-> IF a \in WriteDom(t) THEN hist[a] \cup {<<v, write_set[t][a]>>}
                                 ELSE hist[a]]
      /\ published' = published \cup txn_segs[t]
      /\ UNCHANGED <<live, mem, write_set, reads>>
      /\ todo'[t] = WriteDom(t) /\ pc'[t] \in {"write", "splice_lock"}
  BY DEF Commit, Set, TypeOK, txnVars
<1>2. \A a \in Addr : hist[a] \subseteq hist'[a]
  BY <1>1
<1>3. Values'
  <2>1. \A a \in Addr : <<0, Zero>> \in hist'[a]
    BY <1>2 DEF ValInv, Values
  <2>2. \A a \in Heap \ published' : hist'[a] = {<<0, Zero>>}
    <3>1. ASSUME NEW a \in Heap \ published' PROVE a \notin WriteDom(t) /\ a \in Heap \ published
      BY <1>1, TL2Assumption DEF SegInv, HeapOf, Accessible
    <3> QED
      BY <1>1, <3>1 DEF ValInv, Values, Addr
  <2>3. \A a \in Visible' : a \in Visible /\ mem'[a] = mem[a] /\ a \in Addr
    BY <1>1, VisibleType DEF Visible
  <2>4. \A a \in Visible' : Committed(a, mem[a])'
    BY <1>2, <2>3, CommittedStays DEF ValInv, Values
  <2> QED
    BY <2>1, <2>2, <2>3, <2>4 DEF Values, Committed
<1>4. ValuesOf(t)'
  <2>1. \A a \in todo'[t] : Committed(a, write_set[t][a])'
    <3>1. ASSUME NEW a \in WriteDom(t) PROVE <<v, write_set[t][a]>> \in hist'[a]
      BY <1>1 DEF WriteDom
    <3> QED
      BY <1>1, <3>1 DEF Committed
  <2>2. \A r \in reads[t] : Committed(r[1], r[2])'
    <3>1. \A r \in reads[t] : r[1] \in Addr /\ Committed(r[1], r[2])
      BY DEF TypeOK, ValInv, ValuesOf
    <3> QED
      BY <1>2, <3>1, CommittedStays
  <2> QED
    BY <1>1, <2>1, <2>2 DEF ValuesOf, Committed
<1>5. ASSUME NEW u \in Thread \ {t} PROVE ValuesOf(u)'
  <2>0. /\ pc'[u] = pc[u] /\ todo'[u] = todo[u] /\ write_set'[u] = write_set[u]
        /\ word'[u] = word[u] /\ got'[u] = got[u] /\ reads'[u] = reads[u]
    BY DEF Others
  <2>1. ReadsOwnWrite(u)' <=> ReadsOwnWrite(u)
    BY DEF Others, ReadsOwnWrite
  <2>2. \A r \in reads[u] : Committed(r[1], r[2])'
    <3>1. \A r \in reads[u] : r[1] \in Addr /\ Committed(r[1], r[2])
      BY DEF TypeOK, ValInv, ValuesOf
    <3> QED
      BY <1>2, <3>1, CommittedStays
  <2>3. pc[u] \in {"write", "set_version"} =>
          \A a \in todo[u] : \E p \in hist'[a] : p[2] = write_set[u][a]
    <3>1. todo[u] \subseteq Addr
      BY DEF TypeOK
    <3> QED
      BY <1>2, <3>1 DEF ValInv, ValuesOf, Committed
  <2>4. pc[u] \in {"post_version", "post_locked"} /\ ~ReadsOwnWrite(u) =>
          \E p \in hist'[word[u]] : p[2] = got[u]
    <3>1. pc[u] \in {"post_version", "post_locked"} => word[u] \in Addr
      BY ReadRegisters DEF ReadSteps
    <3> QED
      BY <1>2, <3>1 DEF ValInv, ValuesOf, Committed
  <2> QED
    BY <2>0, <2>1, <2>2, <2>3, <2>4 DEF ValuesOf, Committed
<1> QED
  BY <1>3, <1>4, <1>5 DEF ValInv

LEMMA CheckVersionValues ==
  ASSUME TypeOK, Registers, SegInv, ValInv, NEW t \in Thread, NEW a, CheckVersion(t, a)
  PROVE  ValInv'
<1>0. Others(t)
  BY CheckVersionOthers
<1>1. CASE GiveUp(t)
  BY <1>1, GiveUpValues
<1>2. CASE Commit(t, wv[t])
  BY <1>0, <1>2, CommitValues
<1>3. CASE ~GiveUp(t) /\ todo[t] # {a}
  <2>1. UNCHANGED <<live, hist, published, mem, reads>> /\ pc'[t] = "validate"
    BY <1>3 DEF CheckVersion, Set, TypeOK, histVars
  <2> QED
    BY <1>0, <2>1, ValuesKept, PlainValues DEF SameValues, Visible
<1> QED
  BY <1>1, <1>2, <1>3 DEF CheckVersion

LEMMA CallValues ==
  ASSUME Inv, SegInv, ValInv, NEW t \in Thread, Call(t)
  PROVE  ValInv'
<1> USE DEF Set, sharedVars, txnVars, callVars, readRegs, endRegs, histVars
<1>0. TypeOK /\ Registers /\ Others(t)
  BY ThreadOthers DEF Inv
<1>1. ASSUME UNCHANGED <<live, hist, published, mem, reads>>,
             pc'[t] \in {"ready", "pre_version", "lock", "clock"}
      PROVE  ValInv'
  BY <1>0, <1>1, ValuesKept, PlainValues DEF SameValues, Visible
<1>2. ASSUME NEW ro, tm_begin(t, ro) PROVE ValInv'
  BY <1>0, <1>1, <1>2 DEF tm_begin, TypeOK
<1>3. ASSUME NEW a, NEW n, tm_read(t, a, n) PROVE ValInv'
  BY <1>0, <1>1, <1>3 DEF tm_read, TypeOK
<1>4. ASSUME NEW a, NEW n, tm_write(t, a, n) PROVE ValInv'
  BY <1>0, <1>1, <1>4 DEF tm_write, TypeOK
<1>5. ASSUME NEW s \in Heap, tm_alloc(t, s) PROVE ValInv'
  <2>1. /\ UNCHANGED <<hist, published, reads, pc, todo, word, got, write_set, is_ro>>
        /\ mem' = [mem EXCEPT ![s] = Zero] /\ live' = live \cup {s}
        /\ s \in Addr
    BY <1>5 DEF tm_alloc, Addr
  <2>2. \A a, v : Committed(a, v)' <=> Committed(a, v)
    BY <2>1 DEF Committed
  <2>3. Values'
    <3>1. Committed(s, Zero)
      BY <2>1 DEF ValInv, Values, Committed
    <3>2. \A a \in Visible' : a \in Addr /\ (a # s => a \in Visible)
      BY <1>0, <2>1, VisibleType DEF Visible
    <3>3. \A a \in Visible' : Committed(a, mem'[a])
      BY <1>0, <2>1, <3>1, <3>2 DEF ValInv, Values, TypeOK
    <3> QED
      BY <2>1, <2>2, <3>3 DEF ValInv, Values
  <2>4. \A u \in Thread : ReadsOwnWrite(u)' <=> ReadsOwnWrite(u)
    BY <2>1 DEF ReadsOwnWrite
  <2> QED
    BY <2>1, <2>2, <2>3, <2>4 DEF ValInv, ValuesOf
<1>6. ASSUME NEW s, tm_free(t, s) PROVE ValInv'
  BY <1>0, <1>1, <1>6 DEF tm_free, vars, TypeOK
<1>7. CASE tm_end(t)
  <2>1. CASE is_ro[t]
    BY <1>0, <1>7, <2>1, DeleteValues DEF tm_end
  <2>2. CASE ~is_ro[t]
    BY <1>0, <1>1, <1>7, <2>2 DEF tm_end, TypeOK
  <2> QED
    BY <2>1, <2>2
<1> QED
  BY <1>2, <1>3, <1>4, <1>5, <1>6, <1>7 DEF Call

LEMMA ReadStepValues ==
  ASSUME Inv, SegInv, ValInv, NEW t \in Thread,
         PreVersion(t) \/ PreLocked(t) \/ Copy(t) \/ PostVersion(t) \/ PostLocked(t)
  PROVE  ValInv'
<1> USE DEF Set, sharedVars, txnVars, readRegs, endRegs, histVars
<1>0. /\ TypeOK /\ Registers /\ Others(t) /\ HeapOf(t) /\ ValuesOf(t)
  BY ThreadOthers DEF Inv, Step, SegInv, ValInv
<1>1. CASE PreVersion(t)
  <2>1. UNCHANGED <<live, hist, published, mem, reads>> /\ pc'[t] = "pre_locked"
    BY <1>0, <1>1 DEF PreVersion, TypeOK
  <2> QED
    BY <1>0, <2>1, ValuesKept, PlainValues DEF SameValues, Visible
<1>2. CASE PreLocked(t)
  <2>1. CASE Abort(t) /\ mem' = mem
    BY <1>0, <2>1, DeleteValues DEF Abort
  <2>2. CASE ~PreValidateFails(t)
    <3>1. UNCHANGED <<live, hist, published, mem, reads>> /\ pc'[t] = "copy"
      BY <1>0, <1>2, <2>2 DEF PreLocked, TypeOK
    <3> QED
      BY <1>0, <3>1, ValuesKept, PlainValues DEF SameValues, Visible
  <2> QED
    BY <1>2, <2>1, <2>2 DEF PreLocked
<1>3. CASE Copy(t)
  <2>1. /\ UNCHANGED <<live, hist, published, mem, reads, word, is_ro, write_set>>
        /\ pc[t] = "copy" /\ pc'[t] = "post_version"
        /\ ~ReadsOwnWrite(t) => got'[t] = mem[word[t]]
    BY <1>0, <1>3 DEF Copy, TypeOK
  <2>2. word[t] \in Visible
    <3>1. word[t] \in Nat /\ last[t] \in Nat /\ word[t] <= last[t]
      BY <1>0, <2>1, ReadRegisters DEF Registers, RegistersOf, ReadSteps
    <3>2. word[t]..last[t] \subseteq Accessible(t) /\ alive
      BY <1>0, <2>1 DEF HeapOf, ReadSteps
    <3>3. word[t] \in Accessible(t)
      BY <3>1, <3>2
    <3> QED
      BY <1>0, <3>2, <3>3, AccessibleVisible
  <2>3. ~ReadsOwnWrite(t) => Committed(word[t], got'[t])
    BY <2>1, <2>2 DEF ValInv, Values
  <2>4. ValuesOf(t)'
    <3>1. \A a, v : Committed(a, v)' <=> Committed(a, v)
      BY <2>1 DEF Committed
    <3>2. ReadsOwnWrite(t)' <=> ReadsOwnWrite(t)
      BY <2>1 DEF ReadsOwnWrite
    <3> QED
      BY <1>0, <2>1, <2>3, <3>1, <3>2 DEF ValuesOf
  <2> QED
    BY <1>0, <2>1, <2>4, ValuesKept DEF SameValues, Visible
<1>4. CASE PostVersion(t)
  <2>1. /\ UNCHANGED <<live, hist, published, mem, reads, word, is_ro, write_set, got>>
        /\ pc[t] = "post_version" /\ pc'[t] = "post_locked"
    BY <1>0, <1>4 DEF PostVersion, TypeOK
  <2>2. ValuesOf(t)'
    <3>1. \A a, v : Committed(a, v)' <=> Committed(a, v)
      BY <2>1 DEF Committed
    <3>2. ReadsOwnWrite(t)' <=> ReadsOwnWrite(t)
      BY <2>1 DEF ReadsOwnWrite
    <3> QED
      BY <1>0, <2>1, <3>1, <3>2 DEF ValuesOf
  <2> QED
    BY <1>0, <2>1, <2>2, ValuesKept DEF SameValues, Visible
<1>5. CASE PostLocked(t)
  <2>1. CASE Abort(t) /\ mem' = mem
    BY <1>0, <2>1, DeleteValues DEF Abort
  <2>2. CASE WordRead(t)
    <3>1. /\ UNCHANGED <<live, hist, published, mem>>
          /\ pc[t] = "post_locked" /\ pc'[t] \in {"pre_version", "ready"}
      BY <1>0, <1>5, <2>2 DEF PostLocked, WordRead, TypeOK
    <3>2. \A r \in reads'[t] :
            r \in reads[t] \/ (~ReadsOwnWrite(t) /\ r[1] = word[t] /\ r[2] = got[t])
      BY <1>0, <2>2 DEF WordRead, TypeOK
    <3>3. \A r \in reads'[t] : Committed(r[1], r[2])
      BY <1>0, <3>1, <3>2 DEF ValuesOf
    <3>4. ValuesOf(t)'
      BY <3>1, <3>3 DEF ValuesOf, Committed
    <3> QED
      BY <1>0, <3>1, <3>4, ValuesKept DEF SameValues, Visible
  <2> QED
    BY <1>5, <2>1, <2>2 DEF PostLocked
<1> QED
  BY <1>1, <1>2, <1>3, <1>4, <1>5

LEMMA EndStepValues ==
  ASSUME Inv, SegInv, ValInv, NEW t \in Thread, Step(t), pc[t] \notin ReadSteps
  PROVE  ValInv'
<1> USE DEF Set, sharedVars, txnVars, readRegs, endRegs, histVars
<1>0. /\ TypeOK /\ Registers /\ Others(t) /\ HeapOf(t) /\ ValuesOf(t)
  BY ThreadOthers DEF Inv, SegInv, ValInv
<1>1. ASSUME UNCHANGED <<live, hist, published, mem, reads>>,
             pc'[t] \in TrySteps \cup {"splice_lock", "splice"}
      PROVE  ValInv'
  BY <1>0, <1>1, ValuesKept, PlainValues DEF SameValues, Visible, TrySteps
<1>2. ASSUME NEW a, LockTaken(t, a) \/ LockMine(t, a) PROVE ValInv'
  BY <1>0, <1>1, <1>2 DEF LockTaken, LockMine, LockedWord, TypeOK, TrySteps
<1>3. ASSUME NEW a, LockBusy(t, a) PROVE ValInv'
  BY <1>0, <1>3, GiveUpValues DEF LockBusy
<1>4. ASSUME NEW l, Unlock(t, l) PROVE ValInv'
  <2>1. CASE Abort(t) /\ mem' = mem
    BY <1>0, <2>1, DeleteValues DEF Abort
  <2>2. CASE held[t] # {l}
    BY <1>0, <1>1, <1>4, <2>2 DEF Unlock, TypeOK, TrySteps
  <2> QED
    BY <1>4, <2>1, <2>2 DEF Unlock
<1>5. CASE IncrementClock(t)
  <2>1. CASE Commit(t, gvc + 1)
    BY <1>0, <2>1, CommitValues
  <2>2. CASE ~(NobodyCommitted(t) \/ read_set[t] = {})
    BY <1>0, <1>1, <1>5, <2>2 DEF IncrementClock, TypeOK, TrySteps
  <2> QED
    BY <1>5, <2>1, <2>2 DEF IncrementClock
<1>6. ASSUME NEW a, ValidateLocked(t, a) PROVE ValInv'
  <2>1. CASE GiveUp(t)
    BY <1>0, <2>1, GiveUpValues
  <2>2. CASE ~GiveUp(t)
    BY <1>0, <1>1, <1>6, <2>2 DEF ValidateLocked, TypeOK, TrySteps
  <2> QED
    BY <2>1, <2>2
<1>7. ASSUME NEW a, ValidateMine(t, a) PROVE ValInv'
  BY <1>0, <1>7, CheckVersionValues DEF ValidateMine
<1>8. CASE ValidateVersion(t)
  BY <1>0, <1>8, CheckVersionValues DEF ValidateVersion
<1>9. ASSUME NEW a, WriteBack(t, a) PROVE ValInv'
  <2>1. /\ UNCHANGED <<live, hist, published, reads, todo, write_set>>
        /\ pc[t] = "write" /\ pc'[t] = "set_version" /\ a \in todo[t] /\ a \in Addr
        /\ mem' = [mem EXCEPT ![a] = write_set[t][a]]
    BY <1>0, <1>9 DEF WriteBack, TypeOK
  <2>2. \A b, v : Committed(b, v)' <=> Committed(b, v)
    BY <2>1 DEF Committed
  <2>3. Committed(a, write_set[t][a])
    BY <1>0, <2>1 DEF ValuesOf
  <2>4. Values'
    <3>1. \A b \in Visible' : b \in Visible /\ b \in Addr
      BY <1>0, <2>1, VisibleType DEF Visible
    <3>2. \A b \in Visible' : Committed(b, mem'[b])
      BY <1>0, <2>1, <2>3, <3>1 DEF ValInv, Values, TypeOK
    <3> QED
      BY <2>1, <2>2, <3>2 DEF ValInv, Values
  <2>5. ValuesOf(t)'
    BY <1>0, <2>1, <2>2 DEF ValuesOf
  <2>6. ASSUME NEW u \in Thread \ {t} PROVE ValuesOf(u)'
    <3>1. ReadsOwnWrite(u)' <=> ReadsOwnWrite(u)
      BY <1>0 DEF Others, ReadsOwnWrite
    <3> QED
      BY <1>0, <2>2, <3>1 DEF ValInv, ValuesOf, Others
  <2> QED
    BY <2>4, <2>5, <2>6 DEF ValInv
<1>10. CASE SetVersion(t)
  <2>1. /\ UNCHANGED <<live, hist, published, mem, reads, write_set>>
        /\ pc[t] = "set_version" /\ pc'[t] \in {"write", "splice_lock"}
        /\ todo'[t] \subseteq todo[t]
    BY <1>0, <1>10 DEF SetVersion, TypeOK
  <2>2. ValuesOf(t)'
    <3>1. \A a, v : Committed(a, v)' <=> Committed(a, v)
      BY <2>1 DEF Committed
    <3> QED
      BY <1>0, <2>1, <3>1 DEF ValuesOf
  <2> QED
    BY <1>0, <2>1, <2>2, ValuesKept DEF SameValues, Visible
<1>11. CASE SpliceLock(t)
  BY <1>0, <1>1, <1>11 DEF SpliceLock, TypeOK
<1>12. CASE Splice(t)
  BY <1>0, <1>12, DeleteValues DEF Splice
<1>13. ~(PreVersion(t) \/ PreLocked(t) \/ Copy(t) \/ PostVersion(t) \/ PostLocked(t))
  BY DEF PreVersion, PreLocked, Copy, PostVersion, PostLocked, ReadSteps
<1> QED
  BY <1>2, <1>3, <1>4, <1>5, <1>6, <1>7, <1>8, <1>9, <1>10, <1>11, <1>12, <1>13 DEF Step

LEMMA NextValues ==
  ASSUME Inv, SegInv, ValInv, [Next]_vars
  PROVE  ValInv'
<1> USE DEF vars, sharedVars, txnVars, callVars, readRegs, endRegs, histVars
<1>1. ASSUME NEW t \in Thread, Step(t) PROVE ValInv'
  <2>1. CASE PreVersion(t) \/ PreLocked(t) \/ Copy(t) \/ PostVersion(t) \/ PostLocked(t)
    BY <2>1, ReadStepValues
  <2>2. CASE pc[t] \notin ReadSteps
    BY <1>1, <2>2, EndStepValues
  <2>3. CASE pc[t] \in ReadSteps /\ ~(PreVersion(t) \/ PreLocked(t) \/ Copy(t) \/ PostVersion(t) \/ PostLocked(t))
    BY <1>1, <2>3
    DEF Step, ReadSteps, LockTaken, LockMine, LockBusy, Unlock, IncrementClock, ValidateLocked,
        ValidateVersion, ValidateMine, WriteBack, SetVersion, SpliceLock, Splice
  <2> QED
    BY <2>1, <2>2, <2>3
<1>2. CASE tm_destroy \/ UNCHANGED vars
  <2>1. /\ UNCHANGED <<hist, published, mem, reads, pc, todo, word, got, write_set, is_ro>>
        /\ live' \subseteq live
    BY <1>2 DEF tm_destroy, FreeSegments
  <2>2. \A a, v : Committed(a, v)' <=> Committed(a, v)
    BY <2>1 DEF Committed
  <2>3. \A u \in Thread : ReadsOwnWrite(u)' <=> ReadsOwnWrite(u)
    BY <2>1 DEF ReadsOwnWrite
  <2>4. Values'
    BY <2>1, <2>2 DEF ValInv, Values, Visible
  <2> QED
    BY <2>1, <2>2, <2>3, <2>4 DEF ValInv, ValuesOf
<1> QED
  BY <1>1, <1>2, CallValues DEF Next, Destroyed

LEMMA InitValues == Init => ValInv
  BY TL2Assumption DEF Init, ValInv, Values, ValuesOf, Committed, Visible, Addr

-----------------------------------------------------------------------------
\* HeapInv holds in every reachable state.
THEOREM HeapInvariance == Spec => [](Inv /\ HeapInv)
<1>1. Init => Inv /\ HeapInv
  BY InitInv, InitSegs, InitValues DEF HeapInv
<1>2. (Inv /\ HeapInv) /\ [Next]_vars => (Inv /\ HeapInv)'
  BY NextKeeps, NextKeepsSegs, NextValues DEF HeapInv
<1> QED
  BY <1>1, <1>2, PTL DEF Spec

\* A segment has exactly one owner, an open transaction or the region, which is
\* the one that frees it; whatever aborts and whoever shares locks.
THEOREM SegmentsOwnedOnce == Spec => []SegmentOwnership
<1>1. HeapInv => SegmentOwnership
  BY DEF HeapInv, SegInv
<1> QED
  BY <1>1, HeapInvariance, PTL

\* No transaction reads or writes back to freed memory: what a commit published
\* stays allocated as long as the region.
THEOREM PublishedStaysLive == Spec => []PublishedLive
<1>1. HeapInv => PublishedLive
  BY DEF HeapInv, SegInv, SegmentOwnership, PublishedLive, HeapOf, Accessible
<1> QED
  BY <1>1, HeapInvariance, PTL

\* Whatever tm_read lets a transaction go on with is a value that some commit,
\* or the allocation of the word, put there; also for clients whose write sets
\* share locks.
THEOREM NoDirtyReads == Spec => []NoDirtyRead
<1>1. HeapInv => NoDirtyRead
  BY DEF HeapInv, ValInv, ValuesOf, Committed, NoDirtyRead
<1> QED
  BY <1>1, HeapInvariance, PTL

=============================================================================
