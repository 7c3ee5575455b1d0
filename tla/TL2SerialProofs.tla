-------------------------- MODULE TL2SerialProofs ---------------------------
(***************************************************************************)
(* Theorems about what transactions of TL2 read, for clients whose write   *)
(* sets hold no two words of one lock and versions that fit in an unsigned *)
(* int.                                                                    *)
(***************************************************************************)
EXTENDS TL2HeapProofs, TL2History, FiniteSetTheorems

\* The largest lock word fits in an unsigned int.
NoWrap == 2 * MaxClock + 1 < UintSpan

\* The version of the lock of address a.
VersionOf(a) == getVersion(LockAt(a))

\* Thread t has a write version.
HasClock(t) == wv[t] # 0

\* Thread t writes its words back; address a is still to be released.
Back(t) == pc[t] \in {"write", "set_version"}
InBack(t, a) == Back(t) /\ a \in todo[t]

\* Address a has been copied to memory and its lock is not yet released.
Copied(t, a) == pc[t] = "set_version" /\ word[t] = a

-----------------------------------------------------------------------------
\* The steps before a transaction has a write version, and those after it has.
EarlySteps == {"idle", "ready", "lock", "clock"} \cup ReadSteps
LateSteps == {"validate", "validate_version"} \cup CommitSteps

\* The clock is ahead of all versions; a write version is ahead of the snapshot
\* of its transaction and of the locks that it is going to release.
ClockOf(t) ==
  /\ rv[t] <= gvc
  /\ pc[t] # "idle" /\ ~is_ro[t] => t \in Writers
  /\ wv[t] <= gvc
  /\ pc[t] \in EarlySteps => ~HasClock(t)
  /\ pc[t] \in LateSteps => HasClock(t)
  /\ HasClock(t) => rv[t] < wv[t] /\ \A l \in Owned(t) : getVersion(locks[l]) < wv[t]

Clock ==
  /\ gvc + Cardinality(Pending) <= MaxClock
  /\ \A l \in Lock : getVersion(locks[l]) <= gvc
  /\ \A a \in Addr : \A p \in hist[a] : p[1] <= gvc
  /\ \A t \in Thread : ClockOf(t)

\* A word that exists has the value of its last commit up to the version of its
\* lock, except while a commit that has copied it has not yet released it; later
\* commits of the word are being written back.
WordOf(a) ==
  /\ \A p \in hist[a] : p[1] <= VersionOf(a) \/ \E t \in Thread : InBack(t, a) /\ p[1] = wv[t]
  /\ \A t \in Thread : InBack(t, a) =>
       /\ <<wv[t], write_set[t][a]>> \in hist[a]
       /\ Copied(t, a) => mem[a] = write_set[t][a]
  /\ (\A t \in Thread : ~Copied(t, a)) => IsValueAt(a, mem[a], VersionOf(a))

WordsInv == \A a \in Visible : WordOf(a)

\* Whoever holds the lock of a commits after the snapshot of t was taken.
Fresh(t, a) == \A u \in Thread : LockOf(a) \in Owned(u) /\ HasClock(u) => wv[u] > rv[t]

\* Somebody writes back under the lock of a.
Dirty(a) == \E u \in Thread : LockOf(a) \in Owned(u) /\ Back(u)

\* What a transaction has read is of its snapshot, or the lock has a newer
\* version, which a race between the last two loads let through.
PastReads(t) ==
  \A r \in reads[t] :
    /\ Fresh(t, r[1])
    /\ IsValueAt(r[1], r[2], rv[t]) \/ (raced[t] /\ VersionOf(r[1]) > rv[t])
    /\ r[1] \in Accessible(t)
    /\ ~is_ro[t] => r[1] \in read_set[t]

\* The word that tm_read is at.
InFlight(t) ==
  LET a == word[t]
  IN  /\ pc[t] \in {"pre_locked", "copy", "post_version", "post_locked"} => ver[t] <= VersionOf(a)
      /\ pc[t] \in {"copy", "post_version", "post_locked"} => ver[t] <= rv[t] /\ Fresh(t, a)
      /\ pc[t] = "post_version" /\ ~ReadsOwnWrite(t) /\ VersionOf(a) = ver[t] =>
           IsValueAt(a, got[t], rv[t]) \/ Dirty(a)
      /\ pc[t] = "post_locked" /\ ~ReadsOwnWrite(t) /\ new_ver[t] = ver[t] =>
           IsValueAt(a, got[t], rv[t]) \/ Dirty(a) \/ VersionOf(a) > rv[t]

\* Whoever else holds the lock of a commits after t.
NoOlderOwner(t, a) ==
  \A u \in Thread : u # t /\ LockOf(a) \in Owned(u) /\ HasClock(u) => wv[u] > wv[t]

\* The read r of t is validated: no commit between its snapshot and its own
\* write version changes the word.
Validated(t, r) ==
  /\ IsValueAt(r[1], r[2], rv[t])
  /\ \A p \in hist[r[1]] : p[1] <= rv[t] \/ p[1] >= wv[t]
  /\ NoOlderOwner(t, r[1])

Validation(t) ==
  /\ pc[t] \in TrySteps \cup CommitSteps => ~is_ro[t]
  /\ pc[t] \in {"validate", "validate_version"} =>
       \A r \in reads[t] : r[1] \in todo[t] \/ Validated(t, r)
  /\ pc[t] = "validate_version" => NoOlderOwner(t, word[t])
  /\ pc[t] \in CommitSteps => \A r \in reads[t] : Validated(t, r)

\* The inductive invariant.
SerialInv ==
  /\ Clock
  /\ WordsInv
  /\ \A t \in Thread : PastReads(t) /\ InFlight(t) /\ Validation(t)

-----------------------------------------------------------------------------
(***************************************************************************)
(* What a step of one thread may do to the others.                         *)
(***************************************************************************)
\* Commits go forward: a step of t gives it a lock together with a write version
\* only if that is newer than the clock, and commits a word at a version newer
\* than the clock or at the one it had while it held the lock.
Forward(t) ==
  /\ Others(t)
  /\ gvc <= gvc'
  /\ \A l \in Owned(t)' : HasClock(t)' =>
       \/ l \in Owned(t) /\ HasClock(t) /\ wv'[t] = wv[t]
       \/ wv'[t] > gvc
  /\ \A a \in Addr :
       /\ hist[a] \subseteq hist'[a]
       /\ \A p \in hist'[a] \ hist[a] :
            \/ LockOf(a) \in Owned(t) /\ HasClock(t) /\ p[1] = wv[t]
            \/ p[1] > gvc

\* Besides, a version changes only when t releases a lock with its write version,
\* and t goes on writing back until it releases.
Effect(t) ==
  /\ Forward(t)
  /\ published \subseteq published'
  /\ \A l \in Lock :
       \/ getVersion(locks'[l]) = getVersion(locks[l])
       \/ l \in Owned(t) /\ Back(t) /\ getVersion(locks'[l]) = wv[t]
  /\ \A l \in Owned(t) : Back(t) =>
       \/ Back(t)' /\ l \in Owned(t)'
       \/ getVersion(locks'[l]) = wv[t]

LEMMA Numbers ==
  ASSUME TypeOK
  PROVE  /\ gvc \in Nat
         /\ \A t \in Thread : rv[t] \in Nat /\ wv[t] \in Nat /\ ver[t] \in Nat /\ new_ver[t] \in Nat
         /\ \A l \in Lock : locks[l] \in Nat /\ getVersion(locks[l]) \in Nat
         /\ \A a \in Addr : VersionOf(a) \in Nat /\ \A p \in hist[a] : p[1] \in Nat
<1>1. \A l \in Lock : locks[l] \in Nat /\ getVersion(locks[l]) \in Nat
  BY LockWordType DEF TypeOK
<1>2. \A a \in Addr : VersionOf(a) \in Nat
  BY <1>1, LockOfType DEF VersionOf, LockAt
<1> QED
  BY <1>1, <1>2 DEF TypeOK

LEMMA OthersSame ==
  ASSUME NEW t \in Thread, Others(t), NEW u \in Thread \ {t}
  PROVE  /\ Owned(u)' = Owned(u)
         /\ HasClock(u)' <=> HasClock(u)
         /\ Back(u)' <=> Back(u)
         /\ \A a : (InBack(u, a)' <=> InBack(u, a)) /\ (Copied(u, a)' <=> Copied(u, a))
         /\ ReadsOwnWrite(u)' <=> ReadsOwnWrite(u)
         /\ WriteDom(u)' = WriteDom(u)
  BY DEF Others, Owned, HasClock, Back, InBack, Copied, ReadsOwnWrite, WriteDom

\* A version never goes back, and moves only past the snapshots of those who
\* rely on it.
LEMMA VersionsGrow ==
  ASSUME TypeOK, Clock, NEW t \in Thread, Effect(t), NEW l \in Lock
  PROVE  /\ getVersion(locks'[l]) \in Nat
         /\ getVersion(locks[l]) <= getVersion(locks'[l])
<1>1. getVersion(locks[l]) \in Nat /\ wv[t] \in Nat
  BY Numbers
<1>2. Back(t) => HasClock(t)
  BY DEF Back, Clock, ClockOf, LateSteps, CommitSteps
<1>3. l \in Owned(t) /\ Back(t) => getVersion(locks[l]) < wv[t]
  BY <1>2 DEF Clock, ClockOf
<1> QED
  BY <1>1, <1>3 DEF Effect, Forward

LEMMA FreshKept ==
  ASSUME TypeOK, TypeOK', Clock, NEW t \in Thread, Effect(t), NEW u \in Thread, NEW a \in Addr,
         rv'[u] = rv[u], Fresh(u, a)
  PROVE  Fresh(u, a)'
<1>1. rv[u] <= gvc /\ rv[u] \in Nat /\ gvc \in Nat
  BY Numbers DEF Clock, ClockOf
<1>2. ASSUME NEW x \in Thread \ {t}, LockOf(a) \in Owned(x)', HasClock(x)' PROVE wv'[x] > rv[u]
  BY <1>2, OthersSame DEF Effect, Forward, Fresh, Others
<1>3. ASSUME LockOf(a) \in Owned(t)', HasClock(t)' PROVE wv'[t] > rv[u]
  <2>1. CASE LockOf(a) \in Owned(t) /\ HasClock(t) /\ wv'[t] = wv[t]
    BY <2>1 DEF Fresh
  <2>2. CASE wv'[t] > gvc
    BY <1>1, <2>2 DEF TypeOK
  <2> QED
    BY <1>3, <2>1, <2>2 DEF Effect, Forward
<1> QED
  BY <1>2, <1>3 DEF Fresh

\* A commit of t is newer than version s when t holds the lock of the word only
\* with a newer write version.
LEMMA ValueStays ==
  ASSUME TypeOK, TypeOK', NEW t \in Thread, Forward(t), NEW a \in Addr, NEW v, NEW s \in Nat,
         s <= gvc, LockOf(a) \in Owned(t) /\ HasClock(t) => wv[t] > s,
         IsValueAt(a, v, s)
  PROVE  IsValueAt(a, v, s)'
<1>1. \A p \in hist'[a] : p \in hist[a] \/ p[1] > s
  <2>1. \A p \in hist'[a] : p[1] \in Nat
    BY DEF TypeOK
  <2> QED
    BY <2>1, Numbers DEF Forward
<1>2. PICK p \in hist[a] : p[1] <= s /\ p[2] = v /\ \A q \in hist[a] : q[1] <= s => q[1] <= p[1]
  BY DEF IsValueAt
<1>3. p \in hist'[a]
  BY DEF Forward
<1>4. ASSUME NEW q \in hist'[a], q[1] <= s PROVE q[1] <= p[1]
  <2>1. q[1] \in Nat
    BY DEF TypeOK
  <2> QED
    BY <1>1, <1>2, <1>4, <2>1
<1> QED
  BY <1>2, <1>3, <1>4 DEF IsValueAt

LEMMA ValueKept ==
  ASSUME TypeOK, TypeOK', NEW t \in Thread, Effect(t), NEW a \in Addr, NEW v, NEW s \in Nat,
         s <= gvc, LockOf(a) \in Owned(t) /\ HasClock(t) => wv[t] > s,
         IsValueAt(a, v, s)
  PROVE  IsValueAt(a, v, s)'
<1>1. Forward(t)
  BY DEF Effect
<1> QED
  BY <1>1, ValueStays

\* What a transaction has read stays explained while it goes on.
LEMMA PastReadsKept ==
  ASSUME TypeOK, TypeOK', Clock, NEW t \in Thread, Effect(t), NEW u \in Thread, PastReads(u),
         rv'[u] = rv[u], reads'[u] \subseteq reads[u], raced[u] => raced'[u],
         is_ro'[u] = is_ro[u], read_set[u] \subseteq read_set'[u],
         txn_segs[u] \subseteq txn_segs'[u]
  PROVE  PastReads(u)'
<1> SUFFICES ASSUME NEW r \in reads'[u]
             PROVE  /\ Fresh(u, r[1])'
                    /\ IsValueAt(r[1], r[2], rv[u])' \/ (raced[u] /\ VersionOf(r[1])' > rv[u])
                    /\ r[1] \in Accessible(u)'
                    /\ ~is_ro[u] => r[1] \in read_set'[u]
  BY DEF PastReads, IsValueAt
<1>0. /\ r \in reads[u] /\ r[1] \in Addr /\ LockOf(r[1]) \in Lock
      /\ rv[u] \in Nat /\ rv[u] <= gvc
  BY LockOfType DEF TypeOK, Clock, ClockOf
<1>1. Fresh(u, r[1])
  BY <1>0 DEF PastReads
<1>2. Fresh(u, r[1])'
  BY <1>0, <1>1, FreshKept
<1>3. CASE IsValueAt(r[1], r[2], rv[u])
  <2>1. LockOf(r[1]) \in Owned(t) /\ HasClock(t) => wv[t] > rv[u]
    BY <1>1 DEF Fresh
  <2>2. IsValueAt(r[1], r[2], rv[u])'
    BY <1>0, <1>3, <2>1, ValueKept DEF IsValueAt
  <2> QED
    BY <1>0, <1>2, <2>2 DEF PastReads, Accessible, Effect, Forward
<1>4. CASE raced[u] /\ VersionOf(r[1]) > rv[u]
  <2>1. VersionOf(r[1])' > rv[u]
    BY <1>0, <1>4, VersionsGrow, Numbers DEF VersionOf, LockAt
  <2> QED
    BY <1>0, <1>2, <1>4, <2>1 DEF PastReads, Accessible, Effect, Forward
<1> QED
  BY <1>0, <1>3, <1>4 DEF PastReads

\* The word another thread is reading.
LEMMA InFlightKept ==
  ASSUME Inv, TypeOK', Clock, NEW t \in Thread, Effect(t), NEW u \in Thread \ {t}, InFlight(u)
  PROVE  InFlight(u)'
<1> DEFINE a == word[u]
<1>0. /\ TypeOK /\ Others(t)
      /\ pc'[u] = pc[u] /\ word'[u] = word[u] /\ ver'[u] = ver[u] /\ new_ver'[u] = new_ver[u]
      /\ got'[u] = got[u] /\ rv'[u] = rv[u] /\ (ReadsOwnWrite(u)' <=> ReadsOwnWrite(u))
  BY OthersSame DEF Inv, Effect, Forward, Others
<1>1. CASE pc[u] \in ReadSteps
  <2>0. a \in Addr /\ LockOf(a) \in Lock /\ rv[u] \in Nat /\ ver[u] \in Nat /\ rv[u] <= gvc
    BY <1>0, <1>1, ReadRegisters, LockOfType, Numbers DEF Inv, Clock, ClockOf
  <2>1. VersionOf(a) \in Nat /\ VersionOf(a)' \in Nat /\ VersionOf(a) <= VersionOf(a)'
    BY <1>0, <2>0, VersionsGrow, Numbers DEF VersionOf, LockAt
  <2>2. Fresh(u, a) => Fresh(u, a)'
    BY <1>0, <2>0, FreshKept
  <2>3. Fresh(u, a) /\ IsValueAt(a, got[u], rv[u]) => IsValueAt(a, got[u], rv[u])'
    <3>1. Fresh(u, a) => (LockOf(a) \in Owned(t) /\ HasClock(t) => wv[t] > rv[u])
      BY DEF Fresh
    <3> QED
      BY <1>0, <2>0, <3>1, ValueKept DEF IsValueAt
  <2>4. Fresh(u, a) /\ Dirty(a) => Dirty(a)' \/ VersionOf(a)' > rv[u]
    <3>1. SUFFICES ASSUME Fresh(u, a), NEW x \in Thread, LockOf(a) \in Owned(x), Back(x)
                   PROVE  Dirty(a)' \/ VersionOf(a)' > rv[u]
      BY DEF Dirty
    <3>2. CASE x # t
      <4>1. LockOf(a) \in Owned(x)' /\ Back(x)'
        BY <1>0, <3>1, <3>2, OthersSame
      <4> QED
        BY <1>0, <4>1 DEF Dirty
    <3>3. CASE x = t
      <4>1. wv[t] > rv[u]
        BY <3>1, <3>3 DEF Fresh, Back, Clock, ClockOf, LateSteps, CommitSteps
      <4> QED
        BY <1>0, <2>0, <3>1, <3>3, <4>1 DEF Effect, Forward, Dirty, VersionOf, LockAt
    <3> QED
      BY <3>2, <3>3
  <2>5. /\ pc[u] \in {"pre_locked", "copy", "post_version", "post_locked"} => ver[u] <= VersionOf(a)
        /\ pc[u] \in {"copy", "post_version", "post_locked"} => ver[u] <= rv[u] /\ Fresh(u, a)
        /\ pc[u] = "post_version" /\ ~ReadsOwnWrite(u) /\ VersionOf(a) = ver[u] =>
             IsValueAt(a, got[u], rv[u]) \/ Dirty(a)
        /\ pc[u] = "post_locked" /\ ~ReadsOwnWrite(u) /\ new_ver[u] = ver[u] =>
             IsValueAt(a, got[u], rv[u]) \/ Dirty(a) \/ VersionOf(a) > rv[u]
    BY DEF InFlight
  <2>6. pc[u] \in {"pre_locked", "copy", "post_version", "post_locked"} => ver[u] <= VersionOf(a)'
    BY <2>0, <2>1, <2>5
  <2>7. pc[u] \in {"copy", "post_version", "post_locked"} => ver[u] <= rv[u] /\ Fresh(u, a)'
    BY <2>2, <2>5
  <2>8. pc[u] = "post_version" /\ ~ReadsOwnWrite(u) /\ VersionOf(a)' = ver[u] =>
          IsValueAt(a, got[u], rv[u])' \/ Dirty(a)'
    <3>1. SUFFICES ASSUME pc[u] = "post_version", ~ReadsOwnWrite(u), VersionOf(a)' = ver[u]
                   PROVE  IsValueAt(a, got[u], rv[u])' \/ Dirty(a)'
      OBVIOUS
    <3>2. VersionOf(a) = ver[u] /\ ~(VersionOf(a)' > rv[u]) /\ Fresh(u, a)
      BY <2>0, <2>1, <2>5, <3>1
    <3> QED
      BY <2>3, <2>4, <2>5, <3>1, <3>2
  <2>9. pc[u] = "post_locked" /\ ~ReadsOwnWrite(u) /\ new_ver[u] = ver[u] =>
          IsValueAt(a, got[u], rv[u])' \/ Dirty(a)' \/ VersionOf(a)' > rv[u]
    <3>1. VersionOf(a) > rv[u] => VersionOf(a)' > rv[u]
      BY <2>0, <2>1
    <3> QED
      BY <2>3, <2>4, <2>5, <3>1
  <2> QED
    BY <1>0, <2>6, <2>7, <2>8, <2>9 DEF InFlight, IsValueAt, Dirty, Fresh, VersionOf, LockAt
<1>2. CASE pc[u] \notin ReadSteps
  BY <1>0, <1>2 DEF InFlight, ReadSteps
<1> QED
  BY <1>1, <1>2

LEMMA NoOlderOwnerKept ==
  ASSUME TypeOK, TypeOK', Clock, NEW t \in Thread, Effect(t), NEW u \in Thread, NEW a \in Addr,
         wv'[u] = wv[u], NoOlderOwner(u, a)
  PROVE  NoOlderOwner(u, a)'
<1>1. wv[u] <= gvc /\ wv[u] \in Nat /\ gvc \in Nat
  BY Numbers DEF Clock, ClockOf
<1>2. ASSUME NEW x \in Thread \ {t}, x # u, LockOf(a) \in Owned(x)', HasClock(x)' PROVE wv'[x] > wv[u]
  BY <1>2, OthersSame DEF Effect, Forward, NoOlderOwner, Others
<1>3. ASSUME t # u, LockOf(a) \in Owned(t)', HasClock(t)' PROVE wv'[t] > wv[u]
  <2>1. CASE LockOf(a) \in Owned(t) /\ HasClock(t) /\ wv'[t] = wv[t]
    BY <1>3, <2>1 DEF NoOlderOwner
  <2>2. CASE wv'[t] > gvc
    BY <1>1, <2>2 DEF TypeOK
  <2> QED
    BY <1>3, <2>1, <2>2 DEF Effect, Forward
<1> QED
  BY <1>2, <1>3 DEF NoOlderOwner

\* A validated read stays validated: later commits of the word have later write
\* versions, its own transaction's included.
LEMMA ValidatedKept ==
  ASSUME TypeOK, TypeOK', Clock, NEW t \in Thread, Effect(t), NEW u \in Thread,
         rv'[u] = rv[u], wv'[u] = wv[u],
         NEW r, r[1] \in Addr, Fresh(u, r[1]), Validated(u, r)
  PROVE  Validated(u, r)'
<1>0. /\ rv[u] \in Nat /\ wv[u] \in Nat /\ gvc \in Nat /\ rv[u] <= gvc /\ wv[u] <= gvc
      /\ wv[t] \in Nat
  BY Numbers DEF Clock, ClockOf
<1>1. IsValueAt(r[1], r[2], rv[u])'
  <2>1. LockOf(r[1]) \in Owned(t) /\ HasClock(t) => wv[t] > rv[u]
    BY DEF Fresh
  <2>2. IsValueAt(r[1], r[2], rv[u])
    BY DEF Validated
  <2> QED
    BY <1>0, <2>1, <2>2, ValueKept DEF IsValueAt
<1>2. ASSUME NEW p \in hist'[r[1]] PROVE p[1] <= rv[u] \/ p[1] >= wv[u]
  <2>1. p[1] \in Nat
    BY DEF TypeOK
  <2>2. CASE p \in hist[r[1]]
    BY <2>2 DEF Validated
  <2>3. CASE p[1] > gvc
    BY <1>0, <2>1, <2>3
  <2>4. CASE LockOf(r[1]) \in Owned(t) /\ HasClock(t) /\ p[1] = wv[t]
    <3>1. t # u => wv[t] > wv[u]
      BY <2>4 DEF Validated, NoOlderOwner
    <3> QED
      BY <1>0, <2>4, <3>1
  <2> QED
    BY <2>2, <2>3, <2>4 DEF Effect, Forward
<1>3. NoOlderOwner(u, r[1])'
  BY NoOlderOwnerKept DEF Validated
<1> QED
  BY <1>1, <1>2, <1>3 DEF Validated

LEMMA ValidationKept ==
  ASSUME Inv, TypeOK', Clock, NEW t \in Thread, Effect(t), NEW u \in Thread \ {t},
         PastReads(u), Validation(u)
  PROVE  Validation(u)'
<1>0. /\ TypeOK /\ Others(t)
      /\ pc'[u] = pc[u] /\ word'[u] = word[u] /\ todo'[u] = todo[u] /\ is_ro'[u] = is_ro[u]
      /\ rv'[u] = rv[u] /\ wv'[u] = wv[u] /\ reads'[u] = reads[u]
  BY DEF Inv, Effect, Forward, Others
<1>1. ASSUME NEW r \in reads[u], Validated(u, r) PROVE Validated(u, r)'
  <2>1. r[1] \in Addr /\ Fresh(u, r[1])
    BY <1>0 DEF TypeOK, PastReads
  <2> QED
    BY <1>0, <1>1, <2>1, ValidatedKept
<1>2. pc[u] = "validate_version" => NoOlderOwner(u, word[u])'
  <2>1. SUFFICES ASSUME pc[u] = "validate_version" PROVE NoOlderOwner(u, word[u])'
    OBVIOUS
  <2>2. PICK a \in Addr : a = word[u]
    BY <1>0, <2>1 DEF Inv, Registers, RegistersOf, TypeOK
  <2>3. NoOlderOwner(u, a)'
    BY <1>0, <2>1, <2>2, NoOlderOwnerKept DEF Validation
  <2> QED
    BY <1>0, <2>2, <2>3
<1> QED
  BY <1>0, <1>1, <1>2 DEF Validation

LEMMA ClockOfKept ==
  ASSUME Inv, ClashFree, TypeOK', Clock, NEW t \in Thread, Effect(t), NEW u \in Thread \ {t}
  PROVE  ClockOf(u)'
<1>0. /\ TypeOK /\ Others(t) /\ LockOwnership
      /\ pc'[u] = pc[u] /\ is_ro'[u] = is_ro[u] /\ rv'[u] = rv[u] /\ wv'[u] = wv[u]
      /\ Owned(u)' = Owned(u) /\ (HasClock(u)' <=> HasClock(u))
  BY OthersSame DEF Inv, Effect, Forward, Others
<1>1. ClockOf(u)
  BY DEF Clock
<1>2. rv[u] <= gvc' /\ wv[u] <= gvc'
  BY <1>0, <1>1, Numbers DEF ClockOf, Effect, Forward, TypeOK
<1>3. \A l \in Owned(u) : getVersion(locks'[l]) = getVersion(locks[l])
  <2>1. Owned(u) \subseteq Lock /\ Owned(u) \cap Owned(t) = {}
    BY <1>0, OwnedType DEF LockOwnership
  <2> QED
    BY <2>1 DEF Effect, Forward
<1> QED
  BY <1>0, <1>1, <1>2, <1>3 DEF ClockOf

\* The part of Clock that no thread owns.
ClockBound ==
  /\ gvc + Cardinality(Pending) <= MaxClock
  /\ \A l \in Lock : getVersion(locks[l]) <= gvc
  /\ \A a \in Addr : \A p \in hist[a] : p[1] <= gvc

\* What is left to show of a step of thread t.
LEMMA EffectKeeps ==
  ASSUME Inv, ClashFree, SerialInv, TypeOK', NEW t \in Thread, Effect(t), ClockBound', WordsInv',
         ClockOf(t)', PastReads(t)', InFlight(t)', Validation(t)'
  PROVE  SerialInv'
<1>1. ASSUME NEW u \in Thread \ {t}
      PROVE  ClockOf(u)' /\ PastReads(u)' /\ InFlight(u)' /\ Validation(u)'
  <2>1. TypeOK /\ Clock /\ PastReads(u) /\ InFlight(u) /\ Validation(u)
    BY DEF Inv, SerialInv
  <2>2. PastReads(u)'
    BY <2>1, PastReadsKept DEF Effect, Forward, Others
  <2> QED
    BY <2>1, <2>2, ClockOfKept, InFlightKept, ValidationKept
<1> QED
  BY <1>1 DEF SerialInv, Clock, ClockBound

-----------------------------------------------------------------------------
(***************************************************************************)
(* Steps that leave memory, versions and commits alone.                    *)
(***************************************************************************)
SameVersions == \A l \in Lock : getVersion(locks'[l]) = getVersion(locks[l])

Plain(t) ==
  /\ Others(t)
  /\ gvc <= gvc'
  /\ hist' = hist
  /\ published' = published
  /\ mem' = mem
  /\ live' \subseteq live
  /\ SameVersions
  /\ ~Back(t) /\ ~Back(t)'
  /\ \A l \in Owned(t)' : HasClock(t)' =>
       \/ l \in Owned(t) /\ HasClock(t) /\ wv'[t] = wv[t]
       \/ wv'[t] > gvc

LEMMA PlainEffect ==
  ASSUME NEW t \in Thread, Plain(t)
  PROVE  Effect(t)
  BY DEF Plain, Effect, Forward, SameVersions

LEMMA PlainWords ==
  ASSUME TypeOK, WordsInv, NEW t \in Thread, Plain(t)
  PROVE  WordsInv'
<1> SUFFICES ASSUME NEW a \in Visible' PROVE WordOf(a)'
  BY DEF WordsInv
<1>1. a \in Visible /\ a \in Addr
  BY VisibleType DEF Visible, Plain
<1>2. WordOf(a)
  BY <1>1 DEF WordsInv
<1>3. VersionOf(a)' = VersionOf(a) /\ hist'[a] = hist[a] /\ mem'[a] = mem[a]
  BY <1>1, LockOfType DEF Plain, SameVersions, VersionOf, LockAt
<1>4. \A u \in Thread : /\ InBack(u, a)' <=> InBack(u, a)
                        /\ Copied(u, a)' <=> Copied(u, a)
                        /\ InBack(u, a) => wv'[u] = wv[u] /\ write_set'[u] = write_set[u]
  <2>1. ~InBack(t, a) /\ ~InBack(t, a)' /\ ~Copied(t, a) /\ ~Copied(t, a)'
    BY DEF Plain, Back, InBack, Copied
  <2> QED
    BY <2>1, OthersSame DEF Plain, Others
<1>5. IsValueAt(a, mem[a], VersionOf(a)) => IsValueAt(a, mem[a], VersionOf(a))'
  BY <1>3 DEF IsValueAt
<1> QED
  BY <1>2, <1>3, <1>4, <1>5 DEF WordOf

LEMMA PendingFinite ==
  /\ IsFiniteSet(Pending) /\ Cardinality(Pending) \in Nat
  /\ IsFiniteSet(Pending') /\ Cardinality(Pending') \in Nat
<1>1. Pending \subseteq Writers /\ Pending' \subseteq Writers
  BY DEF Pending
<1> QED
  BY <1>1, FS_Subset, FS_CardinalityType, TL2Assumption

\* The clock still has room for the transactions that have to increment it.
LEMMA PendingKept ==
  ASSUME TypeOK, ClockBound, NEW t \in Thread, Others(t), gvc' = gvc, t \in Pending' => t \in Pending
  PROVE  (gvc + Cardinality(Pending) <= MaxClock)'
<1>1. Pending' \subseteq Pending
  BY DEF Pending, Others, Thread
<1>2. Cardinality(Pending') <= Cardinality(Pending)
  BY <1>1, PendingFinite, FS_Subset
<1> QED
  BY <1>2, PendingFinite, TL2Assumption DEF TypeOK, ClockBound

LEMMA PlainKeeps ==
  ASSUME Inv, ClashFree, SerialInv, TypeOK', NEW t \in Thread, Plain(t), gvc' = gvc,
         t \in Pending' => t \in Pending,
         ClockOf(t)', PastReads(t)', InFlight(t)', Validation(t)'
  PROVE  SerialInv'
<1>1. TypeOK /\ ClockBound /\ WordsInv /\ Others(t)
  BY DEF Inv, SerialInv, Clock, ClockBound, Plain
<1>2. ClockBound'
  BY <1>1, PendingKept DEF ClockBound, Plain, SameVersions
<1> QED
  BY <1>1, <1>2, PlainEffect, PlainWords, EffectKeeps

\* The transaction ends.
LEMMA DeleteSerial ==
  ASSUME Inv, ClashFree, SerialInv, TypeOK', NEW t \in Thread, NEW segs, DeleteTxn(t, segs),
         UNCHANGED <<gvc, mem>>, SameVersions, pc[t] \notin {"write", "set_version"}
  PROVE  SerialInv'
<1>0. TypeOK /\ Others(t)
  BY DeleteOthers DEF Inv
<1>1. /\ TypeOK /\ Others(t) /\ pc'[t] = "idle" /\ reads'[t] = {} /\ rv'[t] = 0 /\ wv'[t] = 0
      /\ UNCHANGED <<hist, published>> /\ live' \subseteq live
  BY <1>0 DEF DeleteTxn, FreeSegments, Set, TypeOK
<1>2. Plain(t)
  BY <1>1 DEF Plain, Back, HasClock, TypeOK
<1>3. ClockOf(t)'
  BY <1>1 DEF ClockOf, HasClock, LateSteps, CommitSteps, TypeOK
<1>4. PastReads(t)' /\ InFlight(t)' /\ Validation(t)' /\ ~(t \in Pending')
  BY <1>1 DEF PastReads, InFlight, Validation, TrySteps, CommitSteps, Pending
<1> QED
  BY <1>2, <1>3, <1>4, PlainKeeps

\* The transaction goes on and has read nothing new.
SameTxn(t) ==
  /\ rv'[t] = rv[t] /\ reads'[t] = reads[t] /\ raced'[t] = raced[t] /\ is_ro'[t] = is_ro[t]
  /\ read_set'[t] = read_set[t] /\ txn_segs'[t] = txn_segs[t]

\* A step inside a call that keeps the clock of its transaction.
QuietCall(t) ==
  /\ Others(t)
  /\ UNCHANGED <<gvc, hist, published, mem, live>>
  /\ SameVersions
  /\ ~Back(t) /\ ~Back(t)'
  /\ SameTxn(t)
  /\ wv'[t] = wv[t]
  /\ pc[t] # "idle" /\ pc'[t] # "idle"
  /\ pc'[t] \in EarlySteps => pc[t] \in EarlySteps
  /\ pc'[t] \in LateSteps => pc[t] \in LateSteps
  /\ Owned(t)' \subseteq Owned(t) \/ pc[t] \in EarlySteps

LEMMA QuietPlain ==
  ASSUME Inv, SerialInv, TypeOK', NEW t \in Thread, QuietCall(t)
  PROVE  Plain(t) /\ PastReads(t)' /\ ClockOf(t)' /\ (t \in Pending' => t \in Pending)
<1>0. TypeOK /\ Clock /\ ClockOf(t) /\ PastReads(t)
  BY DEF Inv, SerialInv, Clock
<1>1. Plain(t)
  BY <1>0 DEF QuietCall, Plain, HasClock, ClockOf, TypeOK
<1>2. PastReads(t)'
  BY <1>0, <1>1, PlainEffect, PastReadsKept DEF QuietCall, SameTxn
<1>3. HasClock(t)' <=> HasClock(t)
  BY DEF QuietCall, HasClock
<1>4. HasClock(t)' => \A l \in Owned(t)' : getVersion(locks'[l]) < wv'[t]
  BY <1>0, <1>3, OwnedType DEF QuietCall, ClockOf, SameVersions
<1>5. ClockOf(t)'
  BY <1>0, <1>3, <1>4 DEF ClockOf, QuietCall, SameTxn
<1> QED
  BY <1>1, <1>2, <1>5 DEF QuietCall, SameTxn, Pending

LEMMA QuietCallKeeps ==
  ASSUME Inv, ClashFree, SerialInv, TypeOK', NEW t \in Thread, QuietCall(t),
         InFlight(t)', Validation(t)'
  PROVE  SerialInv'
  BY QuietPlain, PlainKeeps DEF QuietCall

-----------------------------------------------------------------------------
(***************************************************************************)
(* The calls of a client and the steps of tm_read.                         *)
(***************************************************************************)
LEMMA BeginSerial ==
  ASSUME Inv, HeapInv, ClashFree, SerialInv, TypeOK', NEW t \in Thread, NEW ro \in BOOLEAN,
         tm_begin(t, ro)
  PROVE  SerialInv'
<1> USE DEF sharedVars, readRegs, endRegs, histVars
<1>0. TypeOK /\ Clock /\ ClockOf(t) /\ WordsInv /\ reads[t] = {} /\ pc[t] = "idle"
  BY DEF Inv, SerialInv, Clock, HeapInv, SegInv, HeapOf, tm_begin
<1>1. Others(t)
  BY <1>0, ThreadOthers DEF Call
<1>2. /\ UNCHANGED <<gvc, hist, published, mem, live, locks, reads, wv>>
      /\ pc'[t] = "ready" /\ rv'[t] = gvc /\ is_ro'[t] = ro /\ ~HasClock(t) /\ ~HasClock(t)'
  BY <1>0 DEF tm_begin, Set, TypeOK, HasClock, ClockOf, EarlySteps
<1>3. Plain(t)
  BY <1>0, <1>1, <1>2 DEF Plain, SameVersions, Back, TypeOK
<1>4. ClockOf(t)'
  BY <1>0, <1>2 DEF ClockOf, HasClock, LateSteps, CommitSteps, TypeOK, tm_begin
<1>5. PastReads(t)' /\ InFlight(t)' /\ Validation(t)'
  BY <1>0, <1>2 DEF PastReads, InFlight, Validation, TrySteps, CommitSteps
<1>6. gvc' + Cardinality(Pending') <= MaxClock
  <2>0. ClockBound /\ gvc \in Nat
    BY <1>0 DEF Clock, ClockBound, TypeOK
  <2>1. CASE ro
    <3>1. t \notin Pending'
      BY <1>2, <2>1 DEF Pending
    <3> QED
      BY <1>0, <1>1, <1>2, <2>0, <3>1, PendingKept
  <2>2. CASE ~ro
    <3>1. gvc + Cardinality(Pending) < MaxClock
      BY <2>2 DEF tm_begin, ClockBudget
    <3>2. Pending' \subseteq Pending \cup {t} /\ t \notin Pending
      BY <1>0, <1>1 DEF Pending, Others, Thread
    <3>3. IsFiniteSet(Pending \cup {t}) /\ Cardinality(Pending \cup {t}) = Cardinality(Pending) + 1
      BY <3>2, PendingFinite, FS_AddElement
    <3>4. Cardinality(Pending') <= Cardinality(Pending) + 1
      BY <3>2, <3>3, FS_Subset
    <3> QED
      BY <1>2, <2>0, <3>1, <3>4, PendingFinite, TL2Assumption
  <2> QED
    BY <2>1, <2>2
<1>7. ClockBound'
  BY <1>0, <1>2, <1>6 DEF ClockBound, Clock
<1> QED
  BY <1>0, <1>3, <1>4, <1>5, <1>7, PlainEffect, PlainWords, EffectKeeps

LEMMA CallSerial ==
  ASSUME Inv, HeapInv, ClashFree, SerialInv, TypeOK', NEW t \in Thread, NEW a, NEW n,
         tm_read(t, a, n) \/ tm_write(t, a, n) \/ tm_free(t, a) \/ tm_end(t)
  PROVE  SerialInv'
<1> USE DEF vars, sharedVars, txnVars, callVars, readRegs, endRegs, histVars
<1>0. TypeOK /\ Validation(t)
  BY DEF Inv, SerialInv
<1>1. CASE tm_end(t) /\ is_ro[t]
  BY <1>1, DeleteSerial DEF tm_end, SameVersions
<1>2. CASE ~(tm_end(t) /\ is_ro[t])
  <2>1. Others(t)
    <3>1. tm_read(t, a, n) \/ tm_write(t, a, n) \/ tm_free(t, a) => Others(t)
      BY <1>0 DEF tm_read, tm_write, tm_free, Set, Others, TypeOK
    <3> QED
      BY <1>0, <3>1, ThreadOthers DEF Call
  <2>2. /\ pc[t] = "ready" /\ pc'[t] \in {"ready", "pre_version", "lock", "clock"}
        /\ UNCHANGED <<gvc, hist, published, mem, live, locks, reads, wv, rv, raced, is_ro,
                       read_set, txn_segs, held>>
        /\ pc'[t] \in {"lock", "clock"} => ~is_ro[t]
    BY <1>0, <1>2 DEF tm_read, tm_write, tm_free, tm_end, Set, TypeOK
  <2>3. QuietCall(t)
    BY <2>1, <2>2 DEF QuietCall, SameTxn, SameVersions, Back, EarlySteps, LateSteps, CommitSteps
  <2>4. InFlight(t)' /\ Validation(t)'
    BY <2>2 DEF InFlight, Validation, TrySteps, CommitSteps
  <2> QED
    BY <2>3, <2>4, QuietCallKeeps
<1> QED
  BY <1>1, <1>2

\* A new segment is zeroed, under the version its lock happens to have.
LEMMA AllocSerial ==
  ASSUME Inv, HeapInv, ClashFree, SerialInv, TypeOK', NEW t \in Thread, NEW s \in Heap,
         tm_alloc(t, s)
  PROVE  SerialInv'
<1> USE DEF callVars, readRegs, endRegs, histVars
<1>0. TypeOK /\ Clock /\ ClockOf(t) /\ PastReads(t) /\ Others(t) /\ pc[t] = "ready" /\ s \in Addr
  BY ThreadOthers DEF Inv, SerialInv, Clock, Call, tm_alloc, Addr
<1>1. /\ UNCHANGED <<gvc, locks, hist, published, pc, wv, rv, is_ro, reads, raced, read_set,
                     write_set, todo, held, word>>
      /\ live' = live \cup {s} /\ mem' = [mem EXCEPT ![s] = Zero]
      /\ txn_segs'[t] = txn_segs[t] \cup {s}
  BY <1>0 DEF tm_alloc, Set, TypeOK
<1>2. \A u \in Thread : /\ Owned(u)' = Owned(u)
                        /\ HasClock(u)' <=> HasClock(u)
                        /\ Back(u)' <=> Back(u)
  BY <1>1 DEF Owned, HasClock, Back
<1>3. Effect(t)
  <2>1. ~Back(t)
    BY <1>0 DEF Back
  <2> QED
    BY <1>0, <1>1, <1>2, <2>1 DEF Effect, Forward, TypeOK
<1>4. ClockOf(t)' /\ Pending' = Pending
  BY <1>0, <1>1, <1>2 DEF ClockOf, Pending
<1>5. ClockBound'
  BY <1>0, <1>1, <1>4 DEF Clock, ClockBound
<1>6. PastReads(t)'
  BY <1>0, <1>1, <1>3, PastReadsKept
<1>7. InFlight(t)' /\ Validation(t)'
  BY <1>0, <1>1 DEF InFlight, Validation, TrySteps, CommitSteps
<1>8. ASSUME NEW a \in Visible' PROVE WordOf(a)'
  <2>0. a \in Addr
    BY <1>8 DEF Visible, TypeOK, Addr
  <2>1. VersionOf(a)' = VersionOf(a) /\ VersionOf(a) \in Nat
    BY <1>0, <1>1, <2>0, Numbers DEF VersionOf, LockAt
  <2>2. CASE a # s
    <3>1. a \in Visible /\ mem'[a] = mem[a]
      BY <1>0, <1>1, <1>8, <2>0, <2>2 DEF Visible, TypeOK
    <3>2. WordOf(a)
      BY <3>1 DEF SerialInv, WordsInv
    <3> QED
      BY <1>1, <2>1, <3>1, <3>2 DEF WordOf, InBack, Copied, Back, IsValueAt
  <2>3. CASE a = s
    <3>1. s \notin live /\ alive
      BY <1>0 DEF tm_alloc, HeapInv, SegInv, HeapOf
    <3>2. hist'[s] = {<<0, Zero>>} /\ mem'[s] = Zero
      BY <1>0, <1>1, <3>1 DEF HeapInv, SegInv, ValInv, Values, TypeOK
    <3>3. \A u \in Thread : ~InBack(u, s)' /\ ~Copied(u, s)'
      <4>1. \A u \in Thread : s \notin WriteDom(u)
        <5>1. s \notin Visible
          BY <3>1, TL2Assumption DEF Visible
        <5> QED
          BY <1>0, <3>1, <5>1, AccessibleVisible DEF HeapInv, SegInv, HeapOf
      <4>2. \A u \in Thread : pc[u] \in {"write", "set_version"} =>
              /\ todo[u] \subseteq WriteDom(u)
              /\ pc[u] = "set_version" => word[u] \in todo[u]
        BY DEF Inv, Registers, RegistersOf
      <4> QED
        BY <1>1, <4>1, <4>2 DEF InBack, Copied, Back
    <3> QED
      BY <2>1, <2>3, <3>2, <3>3 DEF WordOf, IsValueAt
  <2> QED
    BY <2>2, <2>3
<1> QED
  BY <1>3, <1>4, <1>5, <1>6, <1>7, <1>8, EffectKeeps DEF WordsInv

\* The word that tm_read is at can be named by the client and exists.
LEMMA ReadWord ==
  ASSUME Inv, HeapInv, NEW t \in Thread, pc[t] \in ReadSteps
  PROVE  /\ word[t] \in Addr /\ LockOf(word[t]) \in Lock
         /\ word[t] \in Accessible(t) /\ word[t] \in Visible
<1>1. /\ TypeOK /\ Registers /\ HeapOf(t)
  BY DEF Inv, HeapInv, SegInv
<1>2. word[t] \in Nat /\ last[t] \in Nat /\ word[t] <= last[t] /\ word[t] \in Addr
  BY <1>1, ReadRegisters DEF Registers, RegistersOf
<1>3. word[t]..last[t] \subseteq Accessible(t) /\ alive
  BY <1>1 DEF HeapOf, ReadSteps
<1>4. word[t] \in Accessible(t)
  BY <1>2, <1>3
<1> QED
  BY <1>1, <1>2, <1>3, <1>4, AccessibleVisible, LockOfType DEF HeapInv

\* Nobody owns a lock whose bit is clear.
LEMMA UnlockedFree ==
  ASSUME Inv, ClashFree, NEW a \in Addr, ~isLocked(LockAt(a))
  PROVE  \A u \in Thread : LockOf(a) \notin Owned(u)
  BY LockOfType DEF Inv, LockOwnership, LockAt

\* A word whose lock nobody is writing back under has, in memory, its value at
\* every version from that of its lock on.
LEMMA CleanWord ==
  ASSUME Inv, WordsInv, NEW a \in Visible, ~Dirty(a), NEW s \in Nat, VersionOf(a) <= s
  PROVE  IsValueAt(a, mem[a], s) /\ \A p \in hist[a] : p[1] <= VersionOf(a)
<1>0. TypeOK /\ a \in Addr
  BY VisibleType DEF Inv
<1>1. \A u \in Thread : ~InBack(u, a) /\ ~Copied(u, a)
  <2>1. ASSUME NEW u \in Thread, InBack(u, a) PROVE FALSE
    <3>1. LockOf(a) \in Owned(u)
      BY <2>1 DEF InBack, Back, Owned, TrySteps
    <3> QED
      BY <2>1, <3>1 DEF Dirty, InBack
  <2>2. \A u \in Thread : Copied(u, a) => InBack(u, a)
    BY DEF Copied, InBack, Back, Inv, Registers, RegistersOf
  <2> QED
    BY <2>1, <2>2
<1>2. WordOf(a)
  BY DEF WordsInv
<1>3. \A p \in hist[a] : p[1] <= VersionOf(a)
  BY <1>1, <1>2 DEF WordOf
<1>4. IsValueAt(a, mem[a], VersionOf(a))
  BY <1>1, <1>2 DEF WordOf
<1>5. VersionOf(a) \in Nat /\ \A p \in hist[a] : p[1] \in Nat
  BY <1>0, Numbers
<1> QED
  BY <1>3, <1>4, <1>5 DEF IsValueAt

LEMMA ReadStepSerial ==
  ASSUME Inv, HeapInv, ClashFree, SerialInv, TypeOK', NEW t \in Thread,
         PreVersion(t) \/ PreLocked(t) \/ Copy(t) \/ PostVersion(t)
  PROVE  SerialInv'
<1> USE DEF sharedVars, txnVars, readRegs, endRegs, histVars
<1>0. /\ TypeOK /\ Clock /\ WordsInv /\ InFlight(t) /\ Others(t)
  BY ThreadOthers DEF Inv, Step, SerialInv
<1>1. CASE PreLocked(t) /\ PreValidateFails(t)
  BY <1>1, DeleteSerial DEF PreLocked, Abort, SameVersions
<1>2. CASE ~(PreLocked(t) /\ PreValidateFails(t))
  <2>1. /\ pc[t] \in ReadSteps /\ pc'[t] \in ReadSteps
        /\ UNCHANGED <<gvc, hist, published, mem, live, locks, reads, wv, rv, raced, is_ro,
                       read_set, txn_segs, held, word, todo, write_set>>
    BY <1>0, <1>2 DEF PreVersion, PreLocked, Copy, PostVersion, Set, TypeOK, ReadSteps
  <2>2. QuietCall(t)
    BY <1>0, <2>1
    DEF QuietCall, SameTxn, SameVersions, Back, ReadSteps, EarlySteps, LateSteps, CommitSteps
  <2>3. Validation(t)'
    BY <2>1 DEF Validation, ReadSteps, TrySteps, CommitSteps
  <2>4. PICK a \in Visible : a = word[t] /\ a \in Addr /\ LockOf(a) \in Lock
    BY <2>1, ReadWord
  <2>5. /\ word'[t] = a /\ rv[t] \in Nat /\ ver[t] \in Nat /\ VersionOf(a) \in Nat
        /\ VersionOf(a)' = VersionOf(a)
        /\ ReadsOwnWrite(t)' <=> ReadsOwnWrite(t)
    BY <1>0, <2>1, <2>4, Numbers DEF VersionOf, LockAt, ReadsOwnWrite
  <2>6. QuietCall(t) /\ Plain(t)
    BY <2>2, QuietPlain
  <2>7. /\ Fresh(t, a) => Fresh(t, a)'
        /\ Dirty(a)' <=> Dirty(a)
        /\ \A v : IsValueAt(a, v, rv[t])' <=> IsValueAt(a, v, rv[t])
    <3>1. Fresh(t, a) => Fresh(t, a)'
      BY <1>0, <2>1, <2>4, <2>6, PlainEffect, FreshKept
    <3>2. \A u \in Thread : LockOf(a) \in Owned(u) /\ Back(u) <=> (LockOf(a) \in Owned(u) /\ Back(u))'
      <4>1. ~Back(t) /\ ~Back(t)'
        BY <2>1 DEF Back, ReadSteps
      <4> QED
        BY <1>0, <4>1, OthersSame
    <3> QED
      BY <2>1, <3>1, <3>2 DEF Dirty, IsValueAt
  <2>8. InFlight(t)'
    <3>1. CASE PreVersion(t)
      <4>1. pc'[t] = "pre_locked" /\ ver'[t] = VersionOf(a)
        BY <1>0, <2>4, <3>1 DEF PreVersion, Set, TypeOK, VersionOf
      <4> QED
        BY <2>5, <4>1 DEF InFlight
    <3>2. CASE PreLocked(t)
      <4>1. /\ pc[t] = "pre_locked" /\ pc'[t] = "copy" /\ ver'[t] = ver[t]
            /\ ~isLocked(LockAt(a)) /\ ~(ver[t] > rv[t]) /\ rv'[t] = rv[t]
        BY <1>0, <1>2, <2>4, <3>2 DEF PreLocked, PreValidateFails, Set, TypeOK
      <4>2. Fresh(t, a)
        BY <2>4, <4>1, UnlockedFree DEF Fresh
      <4>3. Fresh(t, a)'
        BY <2>7, <4>2
      <4>4. ver[t] <= VersionOf(a)
        BY <1>0, <2>4, <4>1 DEF InFlight
      <4> QED
        BY <2>5, <4>1, <4>3, <4>4 DEF InFlight
    <3>3. CASE Copy(t)
      <4>1. /\ pc[t] = "copy" /\ pc'[t] = "post_version" /\ ver'[t] = ver[t]
            /\ ~ReadsOwnWrite(t) => got'[t] = mem[a]
            /\ rv'[t] = rv[t]
        BY <1>0, <2>4, <3>3 DEF Copy, Set, TypeOK
      <4>2. ver[t] <= VersionOf(a) /\ ver[t] <= rv[t] /\ Fresh(t, a)
        BY <1>0, <2>4, <4>1 DEF InFlight
      <4>3. VersionOf(a) = ver[t] => IsValueAt(a, mem[a], rv[t]) \/ Dirty(a)
        BY <1>0, <2>4, <2>5, <4>2, CleanWord
      <4>4. ~ReadsOwnWrite(t) /\ VersionOf(a) = ver[t] => IsValueAt(a, got'[t], rv[t]) \/ Dirty(a)
        BY <4>1, <4>3
      <4>5. ~ReadsOwnWrite(t)' /\ VersionOf(a)' = ver'[t] => IsValueAt(a, got[t], rv[t])' \/ Dirty(a)'
        BY <2>5, <2>7, <4>1, <4>4 DEF IsValueAt
      <4> QED
        BY <2>5, <2>7, <4>1, <4>2, <4>5 DEF InFlight, IsValueAt, Fresh, Dirty
    <3>4. CASE PostVersion(t)
      <4>1. /\ pc[t] = "post_version" /\ pc'[t] = "post_locked" /\ ver'[t] = ver[t]
            /\ new_ver'[t] = VersionOf(a) /\ got'[t] = got[t] /\ rv'[t] = rv[t]
        BY <1>0, <2>4, <3>4 DEF PostVersion, Set, TypeOK, VersionOf
      <4>2. /\ ver[t] <= VersionOf(a) /\ ver[t] <= rv[t] /\ Fresh(t, a)
            /\ ~ReadsOwnWrite(t) /\ VersionOf(a) = ver[t] => IsValueAt(a, got[t], rv[t]) \/ Dirty(a)
        BY <1>0, <2>4, <4>1 DEF InFlight
      <4>3. ~ReadsOwnWrite(t)' /\ new_ver'[t] = ver'[t] => IsValueAt(a, got[t], rv[t])' \/ Dirty(a)'
        BY <2>5, <2>7, <4>1, <4>2 DEF IsValueAt
      <4> QED
        BY <2>5, <2>7, <4>1, <4>2, <4>3 DEF InFlight, IsValueAt, Fresh, Dirty
    <3> QED
      BY <3>1, <3>2, <3>3, <3>4
  <2> QED
    BY <2>2, <2>3, <2>8, QuietCallKeeps
<1> QED
  BY <1>1, <1>2

\* A word passes the second validation: it has the value of the snapshot, or its
\* lock was released in between and the read is marked as raced.
LEMMA WordReadSerial ==
  ASSUME Inv, HeapInv, ClashFree, SerialInv, TypeOK', NEW t \in Thread,
         pc[t] = "post_locked", ~PostValidateFails(t), WordRead(t)
  PROVE  SerialInv'
<1> USE DEF sharedVars, endRegs
<1>0. /\ TypeOK /\ Clock /\ ClockOf(t) /\ PastReads(t) /\ InFlight(t) /\ Others(t)
  BY ThreadOthers DEF Inv, Step, PostLocked, SerialInv, Clock
<1>1. /\ UNCHANGED <<gvc, hist, published, mem, live, locks, wv, rv, is_ro, txn_segs, held>>
      /\ pc'[t] \in {"ready", "pre_version"}
      /\ read_set[t] \subseteq read_set'[t]
      /\ ~is_ro[t] => word[t] \in read_set'[t]
      /\ \A r \in reads'[t] :
           r \in reads[t] \/ (~ReadsOwnWrite(t) /\ r[1] = word[t] /\ r[2] = got[t])
  BY <1>0 DEF WordRead, Set, TypeOK, VersionOf
<1>raced. raced[t] \/ VersionOf(word[t]) # new_ver[t] => raced'[t]
  <2>1. raced' = [raced EXCEPT ![t] = (raced[t] \/ VersionOf(word[t]) # new_ver[t])]
    BY DEF WordRead, Set, VersionOf
  <2>2. DOMAIN raced = Thread
    BY <1>0 DEF TypeOK
  <2> QED
    BY <2>1, <2>2, Zenon
<1>2. Plain(t)
  BY <1>0, <1>1 DEF Plain, SameVersions, Back, Owned, TrySteps, TypeOK
<1>3. ClockOf(t)'
  <2>1. Owned(t)' = {} /\ (HasClock(t)' <=> HasClock(t)) /\ ~HasClock(t)
    BY <1>0, <1>1 DEF Owned, TrySteps, HasClock, ClockOf, EarlySteps, ReadSteps
  <2> QED
    BY <1>0, <1>1, <2>1 DEF ClockOf, LateSteps, CommitSteps
<1>4. InFlight(t)' /\ Validation(t)' /\ (t \in Pending' => t \in Pending)
  BY <1>1 DEF InFlight, Validation, TrySteps, CommitSteps, Pending
<1>5. PICK a \in Addr : /\ a = word[t] /\ LockOf(a) \in Lock /\ a \in Accessible(t)
  BY ReadWord DEF ReadSteps
<1>6. ~ReadsOwnWrite(t) => IsValueAt(a, got[t], rv[t]) \/ VersionOf(a) > rv[t]
  <2>1. ~isLocked(LockAt(a)) /\ new_ver[t] = ver[t]
    BY <1>5 DEF PostValidateFails
  <2>2. ~Dirty(a)
    BY <1>5, <2>1, UnlockedFree DEF Dirty
  <2> QED
    BY <1>0, <1>5, <2>1, <2>2 DEF InFlight
<1>7. VersionOf(a) > rv[t] => raced'[t]
  <2>1. new_ver[t] = ver[t] /\ ver[t] <= rv[t] /\ rv[t] \in Nat /\ ver[t] \in Nat
    BY <1>0, Numbers DEF PostValidateFails, InFlight
  <2>2. VersionOf(a) \in Nat
    BY <1>0, <1>5, Numbers
  <2> QED
    BY <1>5, <1>raced, <2>1, <2>2
<1>8. PastReads(t)'
  <2> SUFFICES ASSUME NEW r \in reads'[t]
               PROVE  /\ Fresh(t, r[1])'
                      /\ IsValueAt(r[1], r[2], rv[t])' \/ (raced'[t] /\ VersionOf(r[1])' > rv[t])
                      /\ r[1] \in Accessible(t)'
                      /\ ~is_ro[t] => r[1] \in read_set'[t]
    BY <1>1 DEF PastReads, IsValueAt
  <2>1. /\ r[1] \in Addr /\ Fresh(t, r[1])
        /\ IsValueAt(r[1], r[2], rv[t]) \/ (raced'[t] /\ VersionOf(r[1]) > rv[t])
        /\ r[1] \in Accessible(t)
        /\ ~is_ro[t] => r[1] \in read_set'[t]
    <3>1. CASE r \in reads[t]
      BY <1>0, <1>1, <1>raced, <3>1 DEF PastReads, TypeOK
    <3>2. CASE ~ReadsOwnWrite(t) /\ r[1] = word[t] /\ r[2] = got[t]
      BY <1>0, <1>1, <1>5, <1>6, <1>7, <3>2 DEF InFlight
    <3> QED
      BY <1>1, <3>1, <3>2
  <2>2. Fresh(t, r[1])'
    BY <1>0, <1>1, <1>2, <2>1, PlainEffect, FreshKept
  <2> QED
    BY <1>1, <2>1, <2>2 DEF IsValueAt, VersionOf, LockAt, Accessible
<1> QED
  BY <1>1, <1>2, <1>3, <1>4, <1>8, PlainKeeps

LEMMA PostLockedSerial ==
  ASSUME Inv, HeapInv, ClashFree, SerialInv, TypeOK', NEW t \in Thread, PostLocked(t)
  PROVE  SerialInv'
<1>1. CASE PostValidateFails(t)
  BY <1>1, DeleteSerial DEF PostLocked, Abort, SameVersions
<1>2. CASE ~PostValidateFails(t)
  BY <1>2, WordReadSerial DEF PostLocked
<1> QED
  BY <1>1, <1>2

-----------------------------------------------------------------------------
(***************************************************************************)
(* The steps of tm_end that can fail.                                      *)
(***************************************************************************)
\* Taking a lock, and releasing it unused, keep its version.
LEMMA LockVersions ==
  ASSUME NEW w \in Nat
  PROVE  /\ getVersion(lockDesired(w)) = getVersion(w)
         /\ w < UintSpan => getVersion(unlockValue(w)) = getVersion(w)
<1>1. getVersion(lockDesired(w)) = getVersion(w)
  BY DEF lockDesired, lockExpected, getVersion
<1>2. ASSUME w < UintSpan PROVE getVersion(unlockValue(w)) = getVersion(w)
  <2>1. w % UintSpan = w
    BY <1>2, UintSpanAssumption
  <2> QED
    BY <2>1 DEF unlockValue, lockExpected, getVersion
<1> QED
  BY <1>1, <1>2

LEMMA LocksFit ==
  ASSUME TypeOK, Clock, NoWrap, NEW l \in Lock
  PROVE  locks[l] < UintSpan
<1>1. locks[l] \in Nat /\ gvc \in Nat
  BY DEF TypeOK
<1>2. locks[l] \div 2 <= gvc
  BY DEF Clock, getVersion
<1>3. gvc <= MaxClock
  BY <1>1, PendingFinite, TL2Assumption DEF Clock
<1>4. locks[l] <= 2 * (locks[l] \div 2) + 1
  BY <1>1
<1> QED
  BY <1>1, <1>2, <1>3, <1>4, TL2Assumption, UintSpanAssumption DEF NoWrap

LEMMA LockSerial ==
  ASSUME Inv, HeapInv, ClashFree, SerialInv, TypeOK', NEW t \in Thread, NEW a \in Addr,
         LockTaken(t, a) \/ LockMine(t, a)
  PROVE  SerialInv'
<1>0. /\ TypeOK /\ Others(t) /\ Validation(t)
  BY ThreadOthers DEF Inv, Step, SerialInv
<1>1. SameVersions
  <2>1. LockOf(a) \in Lock /\ locks[LockOf(a)] \in Nat
    BY <1>0, LockOfType DEF TypeOK
  <2> QED
    BY <1>0, <2>1, LockVersions DEF LockTaken, LockMine, SameVersions, TypeOK
<1>2. /\ UNCHANGED <<gvc, hist, published, mem, live, reads, wv, rv, raced, is_ro,
                     read_set, txn_segs>>
      /\ pc[t] = "lock" /\ pc'[t] \in {"lock", "clock"}
  BY <1>0 DEF LockTaken, LockMine, LockedWord, Set, TypeOK, txnVars, readRegs, histVars
<1>3. QuietCall(t)
  BY <1>0, <1>1, <1>2 DEF QuietCall, SameTxn, Back, EarlySteps, LateSteps, CommitSteps
<1>4. InFlight(t)' /\ Validation(t)'
  BY <1>0, <1>2 DEF InFlight, Validation, TrySteps, CommitSteps
<1> QED
  BY <1>3, <1>4, QuietCallKeeps

LEMMA GiveUpSerial ==
  ASSUME Inv, HeapInv, ClashFree, SerialInv, TypeOK', NEW t \in Thread, GiveUp(t), pc[t] \in TrySteps
  PROVE  SerialInv'
<1>0. /\ TypeOK /\ Others(t) /\ Validation(t)
  BY GiveUpOthers DEF Inv, SerialInv
<1>1. CASE held[t] = {}
  BY <1>1, DeleteSerial DEF GiveUp, Abort, SameVersions, TrySteps
<1>2. CASE held[t] # {}
  <2>1. /\ UNCHANGED <<gvc, hist, published, mem, live, locks, reads, wv, rv, raced, is_ro,
                       read_set, txn_segs, held>>
        /\ pc'[t] = "unlock"
    BY <1>0, <1>2 DEF GiveUp, Set, TypeOK, sharedVars, txnVars, readRegs, histVars
  <2>2. Owned(t)' = Owned(t)
    BY <2>1 DEF Owned, TrySteps
  <2>3. QuietCall(t)
    BY <1>0, <2>1, <2>2
    DEF QuietCall, SameTxn, SameVersions, Back, TrySteps, ReadSteps, EarlySteps, LateSteps, CommitSteps
  <2>4. InFlight(t)' /\ Validation(t)'
    BY <1>0, <2>1 DEF InFlight, Validation, TrySteps, CommitSteps
  <2> QED
    BY <2>3, <2>4, QuietCallKeeps
<1> QED
  BY <1>1, <1>2

LEMMA UnlockSerial ==
  ASSUME Inv, HeapInv, ClashFree, NoWrap, SerialInv, TypeOK', NEW t \in Thread, NEW l \in Lock,
         Unlock(t, l)
  PROVE  SerialInv'
<1>0. /\ TypeOK /\ Others(t) /\ Validation(t) /\ Clock /\ pc[t] = "unlock"
  BY ThreadOthers DEF Inv, Step, SerialInv, Unlock
<1>1. SameVersions
  <2>1. locks[l] \in Nat /\ locks[l] < UintSpan
    BY <1>0, LocksFit DEF TypeOK
  <2> QED
    BY <1>0, <2>1, LockVersions DEF Unlock, SameVersions, TypeOK
<1>2. CASE held[t] = {l}
  BY <1>0, <1>1, <1>2, DeleteSerial DEF Unlock, Abort
<1>3. CASE held[t] # {l}
  <2>1. /\ UNCHANGED <<gvc, hist, published, mem, live, reads, wv, rv, raced, is_ro,
                       read_set, txn_segs, pc>>
        /\ held'[t] \subseteq held[t]
    BY <1>0, <1>3 DEF Unlock, Set, TypeOK, txnVars, readRegs, histVars
  <2>2. QuietCall(t)
    BY <1>0, <1>1, <2>1
    DEF QuietCall, SameTxn, Back, Owned, TrySteps, ReadSteps, EarlySteps, LateSteps, CommitSteps
  <2>3. InFlight(t)' /\ Validation(t)'
    BY <1>0, <2>1 DEF InFlight, Validation, TrySteps, CommitSteps
  <2> QED
    BY <2>2, <2>3, QuietCallKeeps
<1> QED
  BY <1>2, <1>3

-----------------------------------------------------------------------------
(***************************************************************************)
(* Taking a write version, validating, committing.                         *)
(***************************************************************************)
\* v is the write version of t after the step: a new one, or the one it had.
TakesVersion(t, v) ==
  /\ wv'[t] = v
  /\ \/ pc[t] = "clock" /\ gvc' = gvc + 1 /\ v = gvc + 1
     \/ pc[t] \in {"validate", "validate_version"} /\ gvc' = gvc /\ v = wv[t]

LEMMA VersionTaken ==
  ASSUME TypeOK, Clock, NEW t \in Thread, NEW v, TakesVersion(t, v), Validation(t)
  PROVE  /\ v \in Nat /\ v # 0 /\ v <= gvc' /\ gvc <= gvc' /\ gvc' \in Nat
         /\ rv[t] < v
         /\ \A l \in Owned(t) : getVersion(locks[l]) < v
         /\ (HasClock(t) /\ v = wv[t] /\ gvc' = gvc) \/ v > gvc
<1>0. ClockOf(t) /\ gvc \in Nat /\ rv[t] \in Nat /\ wv[t] \in Nat
  BY Numbers DEF Clock
<1>1. \A l \in Owned(t) : getVersion(locks[l]) <= gvc /\ getVersion(locks[l]) \in Nat
  BY OwnedType, Numbers DEF Clock
<1>2. CASE pc[t] = "clock" /\ gvc' = gvc + 1 /\ v = gvc + 1
  BY <1>0, <1>1, <1>2 DEF ClockOf
<1>3. CASE pc[t] \in {"validate", "validate_version"} /\ gvc' = gvc /\ v = wv[t]
  BY <1>0, <1>3 DEF ClockOf, LateSteps, HasClock
<1> QED
  BY <1>2, <1>3 DEF TakesVersion

LEMMA VersionBound ==
  ASSUME TypeOK, TypeOK', Clock, NEW t \in Thread, Others(t), NEW v, TakesVersion(t, v),
         Validation(t), SameVersions, is_ro' = is_ro,
         \A a \in Addr : \A p \in hist'[a] : p \in hist[a] \/ p[1] = v
  PROVE  ClockBound'
<1>0. /\ gvc \in Nat /\ ClockBound /\ ClockOf(t) /\ v <= gvc' /\ gvc <= gvc' /\ v # 0 /\ gvc' \in Nat
      /\ wv'[t] = v /\ v \in Nat
  BY VersionTaken, Numbers DEF Clock, ClockBound, TakesVersion
<1>1. gvc' + Cardinality(Pending') <= MaxClock
  <2>1. CASE pc[t] = "clock" /\ gvc' = gvc + 1 /\ v = gvc + 1
    <3>1. t \in Pending
      BY <1>0, <2>1 DEF Validation, TrySteps, ClockOf, EarlySteps, HasClock, Pending
    <3>2. Pending' \subseteq Pending \ {t}
      BY <1>0 DEF Pending, Others, Thread
    <3>3. IsFiniteSet(Pending \ {t}) /\ Cardinality(Pending \ {t}) = Cardinality(Pending) - 1
      BY <3>1, PendingFinite, FS_RemoveElement
    <3>4. Cardinality(Pending') <= Cardinality(Pending) - 1
      BY <3>2, <3>3, FS_Subset
    <3> QED
      BY <1>0, <2>1, <3>4, PendingFinite, TL2Assumption DEF ClockBound
  <2>2. CASE pc[t] \in {"validate", "validate_version"} /\ gvc' = gvc /\ v = wv[t]
    <3>1. t \notin Pending'
      BY <1>0 DEF Pending
    <3> QED
      BY <1>0, <2>2, <3>1, PendingKept
  <2> QED
    BY <2>1, <2>2 DEF TakesVersion
<1>2. \A l \in Lock : getVersion(locks'[l]) <= gvc'
  <2>1. \A l \in Lock : getVersion(locks[l]) <= gvc /\ getVersion(locks[l]) \in Nat
    BY <1>0, Numbers DEF ClockBound
  <2> QED
    BY <1>0, <2>1 DEF SameVersions
<1>3. \A a \in Addr : \A p \in hist'[a] : p[1] <= gvc'
  <2>1. \A a \in Addr : \A p \in hist[a] : p[1] \in Nat /\ p[1] <= gvc
    BY <1>0, Numbers DEF ClockBound
  <2> QED
    BY <1>0, <2>1
<1> QED
  BY <1>1, <1>2, <1>3 DEF ClockBound

\* All that t has read is unchanged between its snapshot and version v.
ReadsValid(t, v) ==
  \A r \in reads[t] :
    /\ IsValueAt(r[1], r[2], rv[t])
    /\ \A p \in hist[r[1]] : p[1] <= rv[t] \/ p[1] >= v
    /\ \A u \in Thread : u # t /\ LockOf(r[1]) \in Owned(u) /\ HasClock(u) => wv[u] > v

LEMMA CommitWords ==
  ASSUME Inv, HeapInv, ClashFree, SerialInv, TypeOK', NEW t \in Thread, NEW v, Commit(t, v),
         Others(t), TakesVersion(t, v)
  PROVE  WordsInv'
<1>0. /\ TypeOK /\ Clock /\ Validation(t) /\ ClockOf(t) /\ WordsInv /\ HeldOf(t)
  BY DEF Inv, SerialInv, Clock
<1>1. /\ hist' = [a \in Addr |-> IF a \in WriteDom(t) THEN hist[a] \cup {<<v, write_set[t][a]>>}
                                 ELSE hist[a]]
      /\ UNCHANGED <<live, mem, write_set, locks, held>>
      /\ todo'[t] = WriteDom(t)
      /\ WriteDom(t) # {} => pc'[t] = "write"
      /\ pc'[t] \in {"write", "splice_lock"}
      /\ wv'[t] = v
  BY <1>0 DEF Commit, Set, TypeOK, txnVars, TakesVersion
<1>2. pc[t] \in TrySteps /\ Owned(t) = LocksOf(WriteDom(t))
  BY <1>0 DEF TakesVersion, HeldOf, Owned, TrySteps
<1> SUFFICES ASSUME NEW a \in Visible' PROVE WordOf(a)'
  BY DEF WordsInv
<1>3. a \in Visible /\ a \in Addr /\ WordOf(a) /\ mem'[a] = mem[a] /\ VersionOf(a)' = VersionOf(a)
  BY <1>0, <1>1, VisibleType DEF Visible, WordsInv, VersionOf, LockAt
<1>4. VersionOf(a) \in Nat /\ \A p \in hist[a] : p[1] \in Nat
  BY <1>0, <1>3, Numbers
<1>5. a \in WriteDom(t) => VersionOf(a) < v
  BY <1>0, <1>2, VersionTaken DEF LocksOf, VersionOf, LockAt
<1>6. \A u \in Thread \ {t} : /\ InBack(u, a)' <=> InBack(u, a)
                              /\ Copied(u, a)' <=> Copied(u, a)
                              /\ wv'[u] = wv[u]
  BY OthersSame DEF Others
<1>7. ~InBack(t, a) /\ ~Copied(t, a) /\ ~Copied(t, a)' /\ (InBack(t, a)' <=> a \in WriteDom(t))
  BY <1>1, <1>2 DEF InBack, Back, Copied, TrySteps
<1>8. /\ hist[a] \subseteq hist'[a]
      /\ \A p \in hist'[a] : p \in hist[a] \/ (a \in WriteDom(t) /\ p[1] = v)
      /\ a \in WriteDom(t) => <<v, write_set[t][a]>> \in hist'[a]
  BY <1>1, <1>3
<1>9. v \in Nat
  BY <1>0, VersionTaken
<1>10. \A p \in hist'[a] : p[1] <= VersionOf(a) \/ \E u \in Thread : InBack(u, a)' /\ p[1] = wv'[u]
  <2>1. ASSUME NEW p \in hist[a]
        PROVE  p[1] <= VersionOf(a) \/ \E u \in Thread : InBack(u, a)' /\ p[1] = wv'[u]
    BY <1>3, <1>6, <1>7 DEF WordOf
  <2>2. ASSUME a \in WriteDom(t) PROVE InBack(t, a)' /\ v = wv'[t]
    BY <1>1, <1>7, <2>2
  <2> QED
    BY <1>8, <2>1, <2>2
<1>11. \A u \in Thread : InBack(u, a)' =>
         /\ <<wv'[u], write_set'[u][a]>> \in hist'[a]
         /\ Copied(u, a)' => mem'[a] = write_set'[u][a]
  <2>1. ASSUME NEW u \in Thread \ {t}, InBack(u, a)'
        PROVE  /\ <<wv'[u], write_set'[u][a]>> \in hist'[a]
               /\ Copied(u, a)' => mem'[a] = write_set'[u][a]
    BY <1>1, <1>3, <1>6, <1>8, <2>1 DEF WordOf
  <2> QED
    BY <1>1, <1>7, <1>8, <2>1
<1>12. (\A u \in Thread : ~Copied(u, a)') => IsValueAt(a, mem[a], VersionOf(a))'
  <2>1. (\A u \in Thread : ~Copied(u, a)') => \A u \in Thread : ~Copied(u, a)
    BY <1>6, <1>7
  <2>2. (\A u \in Thread : ~Copied(u, a)') => IsValueAt(a, mem[a], VersionOf(a))
    BY <1>3, <2>1 DEF WordOf
  <2>3. IsValueAt(a, mem[a], VersionOf(a)) => IsValueAt(a, mem[a], VersionOf(a))'
    BY <1>3, <1>4, <1>5, <1>8, <1>9 DEF IsValueAt
  <2> QED
    BY <2>2, <2>3
<1> QED
  BY <1>3, <1>10, <1>11, <1>12 DEF WordOf

LEMMA CommitSerial ==
  ASSUME Inv, HeapInv, ClashFree, SerialInv, TypeOK', NEW t \in Thread, NEW v, Commit(t, v),
         Others(t), TakesVersion(t, v), ReadsValid(t, v)
  PROVE  SerialInv'
<1>0. /\ TypeOK /\ Clock /\ Validation(t) /\ ClockOf(t) /\ HeldOf(t) /\ PastReads(t)
  BY DEF Inv, SerialInv, Clock
<1>1. /\ hist' = [a \in Addr |-> IF a \in WriteDom(t) THEN hist[a] \cup {<<v, write_set[t][a]>>}
                                 ELSE hist[a]]
      /\ published \subseteq published'
      /\ UNCHANGED <<locks, held, rv, reads, raced, is_ro, read_set, txn_segs>>
      /\ todo'[t] = WriteDom(t)
      /\ pc'[t] = IF WriteDom(t) = {} THEN "splice_lock" ELSE "write"
      /\ wv'[t] = v
  BY <1>0 DEF Commit, Set, TypeOK, txnVars, TakesVersion
<1>2. /\ v \in Nat /\ v # 0 /\ v <= gvc' /\ gvc <= gvc' /\ rv[t] < v
      /\ \A l \in Owned(t) : getVersion(locks[l]) < v
      /\ (HasClock(t) /\ v = wv[t]) \/ v > gvc
  BY <1>0, VersionTaken
<1>3. /\ pc[t] \in TrySteps /\ pc'[t] \in CommitSteps
      /\ Owned(t) = LocksOf(WriteDom(t)) /\ Owned(t)' = Owned(t)
  <2>1. pc[t] \in TrySteps /\ Owned(t) = LocksOf(WriteDom(t))
    BY <1>0 DEF TakesVersion, HeldOf, Owned, TrySteps
  <2>2. Owned(t)' = LocksOf(WriteDom(t))
    BY <1>1 DEF Owned, TrySteps, LocksOf
  <2> QED
    BY <1>1, <2>1, <2>2 DEF CommitSteps
<1>4. \A a \in Addr : /\ hist[a] \subseteq hist'[a]
                      /\ \A p \in hist'[a] : p \in hist[a] \/ (p[1] = v /\ LockOf(a) \in Owned(t))
  BY <1>1, <1>3 DEF LocksOf
<1>5. Effect(t)
  <2>1. ~Back(t)
    BY <1>3 DEF Back, TrySteps
  <2>2. \A l \in Owned(t)' : HasClock(t)' =>
          (l \in Owned(t) /\ HasClock(t) /\ wv'[t] = wv[t]) \/ wv'[t] > gvc
    BY <1>1, <1>2, <1>3
  <2>3. \A a \in Addr : \A p \in hist'[a] \ hist[a] :
          (LockOf(a) \in Owned(t) /\ HasClock(t) /\ p[1] = wv[t]) \/ p[1] > gvc
    BY <1>2, <1>4
  <2> QED
    BY <1>1, <1>2, <1>4, <2>1, <2>2, <2>3 DEF Effect, Forward
<1>6. ClockBound'
  BY <1>0, <1>1, <1>4, VersionBound DEF SameVersions
<1>7. WordsInv'
  BY CommitWords
<1>8. ClockOf(t)'
  <2>1. rv'[t] <= gvc'
    BY <1>0, <1>1, <1>2, Numbers DEF TypeOK
  <2>2. HasClock(t)' /\ wv'[t] <= gvc'
    BY <1>1, <1>2 DEF HasClock
  <2>3. pc'[t] \notin EarlySteps
    BY <1>1 DEF EarlySteps, ReadSteps
  <2>4. t \in Writers
    BY <1>0, <1>3 DEF ClockOf, Validation, TrySteps
  <2> QED
    BY <1>1, <1>2, <1>3, <2>1, <2>2, <2>3, <2>4 DEF ClockOf
<1>9. PastReads(t)'
  BY <1>0, <1>1, <1>5, PastReadsKept
<1>10. InFlight(t)'
  BY <1>1 DEF InFlight
<1>11. Validation(t)'
  <2>1. ASSUME NEW r \in reads[t] PROVE Validated(t, r)'
    <3>0. /\ r[1] \in Addr /\ rv[t] \in Nat /\ rv[t] <= gvc /\ IsValueAt(r[1], r[2], rv[t])
          /\ \A p \in hist[r[1]] : p[1] <= rv[t] \/ p[1] >= v
      BY <1>0 DEF TypeOK, ClockOf, ReadsValid
    <3>1. IsValueAt(r[1], r[2], rv[t])'
      <4>1. HasClock(t) => wv[t] > rv[t]
        BY <1>0 DEF ClockOf, TypeOK
      <4>2. PICK s \in Nat : s = rv[t]
        BY <3>0
      <4>3. IsValueAt(r[1], r[2], s)'
        BY <1>0, <1>5, <3>0, <4>1, <4>2, ValueKept
      <4> QED
        BY <1>1, <4>2, <4>3
    <3>2. \A p \in hist'[r[1]] : p[1] <= rv[t] \/ p[1] >= v
      BY <1>2, <1>4, <3>0
    <3>3. \A u \in Thread : u # t /\ LockOf(r[1]) \in Owned(u)' /\ HasClock(u)' => wv'[u] > v
      BY OthersSame DEF ReadsValid, Others
    <3> QED
      BY <1>1, <3>1, <3>2, <3>3 DEF Validated, NoOlderOwner
  <2>2. ~is_ro[t]
    BY <1>0, <1>3 DEF Validation
  <2> QED
    BY <1>1, <2>1, <2>2 DEF Validation
<1> QED
  BY <1>5, <1>6, <1>7, <1>8, <1>9, <1>10, <1>11, EffectKeeps

LEMMA ClockSerial ==
  ASSUME Inv, HeapInv, ClashFree, SerialInv, TypeOK', NEW t \in Thread, IncrementClock(t)
  PROVE  SerialInv'
<1> USE DEF txnVars, readRegs, histVars
<1>0. /\ TypeOK /\ Clock /\ Validation(t) /\ ClockOf(t) /\ PastReads(t) /\ Others(t)
      /\ pc[t] = "clock" /\ gvc' = gvc + 1 /\ gvc \in Nat /\ ~is_ro[t] /\ rv[t] \in Nat
  BY ThreadOthers, Numbers DEF Inv, SerialInv, Clock, Step, IncrementClock, Validation, TrySteps
<1>1. TakesVersion(t, gvc + 1) /\ wv' = [wv EXCEPT ![t] = gvc + 1]
  BY <1>0 DEF TakesVersion, IncrementClock, Set, TypeOK
<1>2. CASE NobodyCommitted(t) \/ read_set[t] = {}
  <2>1. ReadsValid(t, gvc + 1)
    <3>1. CASE read_set[t] = {}
      <4>1. reads[t] = {}
        BY <1>0, <3>1 DEF PastReads
      <4> QED
        BY <4>1 DEF ReadsValid
    <3>2. CASE NobodyCommitted(t)
      <4>1. rv[t] = gvc
        BY <1>0, <3>2 DEF NobodyCommitted
      <4> SUFFICES ASSUME NEW r \in reads[t]
                   PROVE  /\ IsValueAt(r[1], r[2], rv[t])
                          /\ \A p \in hist[r[1]] : p[1] <= rv[t]
                          /\ \A u \in Thread : ~(LockOf(r[1]) \in Owned(u) /\ HasClock(u))
        BY DEF ReadsValid
      <4>2. r[1] \in Addr /\ VersionOf(r[1]) \in Nat /\ VersionOf(r[1]) <= gvc
        BY <1>0, LockOfType, Numbers DEF TypeOK, Clock, VersionOf, LockAt
      <4>3. IsValueAt(r[1], r[2], rv[t])
        BY <1>0, <4>1, <4>2 DEF PastReads
      <4>4. \A u \in Thread : wv[u] \in Nat /\ wv[u] <= gvc
        BY <1>0, Numbers DEF Clock, ClockOf
      <4>5. \A u \in Thread : ~(LockOf(r[1]) \in Owned(u) /\ HasClock(u))
        BY <1>0, <4>1, <4>4 DEF PastReads, Fresh
      <4> QED
        BY <1>0, <4>1, <4>2, <4>3, <4>5 DEF Clock
    <3> QED
      BY <1>2, <3>1, <3>2
  <2> QED
    BY <1>0, <1>1, <1>2, <2>1, CommitSerial DEF IncrementClock
<1>3. CASE ~(NobodyCommitted(t) \/ read_set[t] = {})
  <2>1. /\ pc'[t] = "validate" /\ todo'[t] = read_set[t]
        /\ UNCHANGED <<locks, mem, live, rv, reads, raced, is_ro, read_set, txn_segs, hist, published,
                       held>>
    BY <1>0, <1>3 DEF IncrementClock, Set, TypeOK
  <2>2. wv'[t] = gvc + 1 /\ gvc + 1 > gvc /\ rv[t] < gvc + 1
    BY <1>0, <1>1 DEF TypeOK, ClockOf
  <2>3. Plain(t)
    BY <1>0, <2>1, <2>2 DEF Plain, SameVersions, Back
  <2>4. ClockBound'
    BY <1>0, <1>1, <2>1, VersionBound DEF SameVersions
  <2>5. ClockOf(t)'
    <3>1. Owned(t)' = Owned(t)
      BY <1>0, <2>1 DEF Owned, TrySteps
    <3>2. \A l \in Owned(t) : getVersion(locks[l]) < gvc + 1
      BY <1>0, <1>1, VersionTaken
    <3>3. HasClock(t)' /\ pc'[t] \notin EarlySteps /\ rv[t] <= gvc + 1
      BY <1>0, <2>1, <2>2 DEF HasClock, EarlySteps, ReadSteps
    <3> QED
      BY <1>0, <2>1, <2>2, <3>1, <3>2, <3>3 DEF ClockOf
  <2>6. PastReads(t)'
    BY <1>0, <2>1, <2>3, PlainEffect, PastReadsKept
  <2>7. InFlight(t)' /\ Validation(t)'
    <3>1. \A r \in reads[t] : r[1] \in read_set[t]
      BY <1>0 DEF PastReads
    <3> QED
      BY <1>0, <2>1, <3>1 DEF InFlight, Validation, CommitSteps
  <2> QED
    BY <2>3, <2>4, <2>5, <2>6, <2>7, PlainEffect, PlainWords, EffectKeeps DEF Inv, SerialInv
<1> QED
  BY <1>2, <1>3

\* An address passes the validation.
LEMMA CheckVersionSerial ==
  ASSUME Inv, HeapInv, ClashFree, SerialInv, TypeOK', NEW t \in Thread, NEW a \in Addr,
         CheckVersion(t, a), pc[t] \in {"validate", "validate_version"}, NoOlderOwner(t, a)
  PROVE  SerialInv'
<1> USE DEF txnVars, readRegs, histVars
<1>0. /\ TypeOK /\ Clock /\ Validation(t) /\ ClockOf(t) /\ PastReads(t) /\ Others(t)
      /\ rv[t] \in Nat /\ wv[t] \in Nat /\ VersionOf(a) \in Nat /\ ~is_ro[t]
  BY CheckVersionOthers, Numbers DEF Inv, SerialInv, Clock, Validation, TrySteps
<1>1. CASE GiveUp(t)
  BY <1>1, GiveUpSerial DEF TrySteps
<1>2. CASE ~GiveUp(t)
  <2>0. VersionOf(a) <= rv[t] /\ UNCHANGED <<gvc, wv>>
    BY <1>2 DEF CheckVersion, VersionOf
  <2>1. ASSUME NEW r \in reads[t], r[1] = a PROVE Validated(t, r)
    <3>1. IsValueAt(r[1], r[2], rv[t])
      BY <1>0, <2>0, <2>1 DEF PastReads
    <3>2. a \in Visible
      BY <1>0, <2>1, AccessibleVisible DEF PastReads, HeapInv, SegInv, HeapOf
    <3>3. ASSUME NEW p \in hist[a] PROVE p[1] <= rv[t] \/ p[1] >= wv[t]
      <4>0. p[1] \in Nat
        BY <1>0, Numbers
      <4>1. CASE p[1] <= VersionOf(a)
        BY <1>0, <2>0, <4>0, <4>1
      <4>2. ASSUME NEW u \in Thread, InBack(u, a), p[1] = wv[u] PROVE p[1] >= wv[t]
        <5>1. u # t /\ LockOf(a) \in Owned(u) /\ HasClock(u)
          <6>1. u # t
            BY <4>2 DEF InBack, Back
          <6>2. LockOf(a) \in Owned(u)
            BY <4>2 DEF InBack, Back, Owned, TrySteps
          <6>3. HasClock(u)
            BY <1>0, <4>2 DEF InBack, Back, Clock, ClockOf, LateSteps, CommitSteps
          <6> QED
            BY <6>1, <6>2, <6>3
        <5> QED
          BY <1>0, <4>0, <4>2, <5>1 DEF NoOlderOwner
      <4> QED
        BY <3>2, <4>1, <4>2 DEF SerialInv, WordsInv, WordOf
    <3> QED
      BY <2>1, <3>1, <3>3 DEF Validated
  <2>2. \A r \in reads[t] : r[1] \in todo[t] \ {a} \/ Validated(t, r)
    BY <1>0, <2>1 DEF Validation
  <2>3. CASE Commit(t, wv[t]) /\ todo[t] = {a}
    <3>1. ReadsValid(t, wv[t])
      BY <2>2, <2>3 DEF ReadsValid, Validated, NoOlderOwner
    <3>2. TakesVersion(t, wv[t])
      BY <2>0 DEF TakesVersion
    <3> QED
      BY <1>0, <2>3, <3>1, <3>2, CommitSerial
  <2>4. CASE todo[t] # {a}
    <3>1. /\ pc'[t] = "validate" /\ todo'[t] = todo[t] \ {a}
          /\ UNCHANGED <<gvc, wv, locks, mem, live, rv, reads, raced, is_ro, read_set, txn_segs,
                         hist, published, held>>
      BY <1>0, <1>2, <2>0, <2>4 DEF CheckVersion, Set, TypeOK
    <3>2. Owned(t)' = Owned(t)
      BY <3>1 DEF Owned, TrySteps
    <3>3. QuietCall(t)
      BY <1>0, <3>1, <3>2
      DEF QuietCall, SameTxn, SameVersions, Back, ReadSteps, EarlySteps, LateSteps, CommitSteps
    <3>4. InFlight(t)'
      BY <3>1 DEF InFlight
    <3>5. Validation(t)'
      <4>1. ASSUME NEW r \in reads[t], Validated(t, r) PROVE Validated(t, r)'
        BY <1>0, <3>1, <3>3, <4>1, QuietPlain, PlainEffect, ValidatedKept DEF PastReads, TypeOK
      <4> QED
        BY <1>0, <2>2, <3>1, <4>1 DEF Validation, CommitSteps
    <3> QED
      BY <3>3, <3>4, <3>5, QuietCallKeeps
  <2> QED
    BY <1>2, <2>3, <2>4 DEF CheckVersion
<1> QED
  BY <1>1, <1>2

LEMMA ValidateSerial ==
  ASSUME Inv, HeapInv, ClashFree, SerialInv, TypeOK', NEW t \in Thread,
         \/ ValidateVersion(t)
         \/ \E a \in Addr : ValidateLocked(t, a) \/ ValidateMine(t, a)
  PROVE  SerialInv'
<1> USE DEF sharedVars, txnVars, readRegs, endRegs, histVars
<1>0. /\ TypeOK /\ Validation(t) /\ PastReads(t) /\ Others(t) /\ Clock
  BY ThreadOthers DEF Inv, SerialInv, Step
<1>1. CASE ValidateVersion(t)
  <2>1. word[t] \in Addr
    BY <1>0, <1>1 DEF ValidateVersion, Inv, Registers, RegistersOf, TypeOK
  <2> QED
    BY <1>0, <1>1, <2>1, CheckVersionSerial DEF ValidateVersion, Validation
\* A lock of ours is nobody else's.
<1>2. ASSUME NEW a \in Addr, ValidateMine(t, a) PROVE SerialInv'
  <2>1. NoOlderOwner(t, a)
    BY <1>2 DEF ValidateMine, NoOlderOwner, Inv, LockOwnership, Owned, TrySteps
  <2> QED
    BY <1>2, <2>1, CheckVersionSerial DEF ValidateMine
<1>3. ASSUME NEW a \in Addr, ValidateLocked(t, a) PROVE SerialInv'
  <2>1. CASE GiveUp(t)
    BY <1>3, <2>1, GiveUpSerial DEF ValidateLocked, TrySteps
  <2>2. CASE ~GiveUp(t)
    <3>1. /\ ~isLocked(LockAt(a)) /\ pc[t] = "validate" /\ pc'[t] = "validate_version"
          /\ word'[t] = a
          /\ UNCHANGED <<gvc, wv, locks, mem, live, rv, reads, raced, is_ro, read_set, txn_segs,
                         hist, published, held, todo>>
      BY <1>0, <1>3, <2>2 DEF ValidateLocked, Set, TypeOK
    <3>2. Owned(t)' = Owned(t)
      BY <3>1 DEF Owned, TrySteps
    <3>3. QuietCall(t)
      BY <1>0, <3>1, <3>2
      DEF QuietCall, SameTxn, SameVersions, Back, ReadSteps, EarlySteps, LateSteps, CommitSteps
    <3>4. InFlight(t)'
      BY <3>1 DEF InFlight
    <3>5. Validation(t)'
      <4>1. ASSUME NEW r \in reads[t], Validated(t, r) PROVE Validated(t, r)'
        BY <1>0, <3>1, <3>3, <4>1, QuietPlain, PlainEffect, ValidatedKept DEF PastReads, TypeOK
      <4>2. NoOlderOwner(t, a)'
        <5>1. NoOlderOwner(t, a)
          BY <3>1, UnlockedFree DEF NoOlderOwner
        <5> QED
          BY <1>0, <3>1, <3>3, <5>1, QuietPlain, PlainEffect, NoOlderOwnerKept
      <4>3. NoOlderOwner(t, word[t])'
        BY <3>1, <4>2
      <4> QED
        BY <1>0, <3>1, <4>1, <4>3 DEF Validation, TrySteps, CommitSteps
    <3> QED
      BY <3>3, <3>4, <3>5, QuietCallKeeps
  <2> QED
    BY <2>1, <2>2
<1> QED
  BY <1>1, <1>2, <1>3

-----------------------------------------------------------------------------
(***************************************************************************)
(* The steps of tm_end that cannot fail.                                   *)
(***************************************************************************)
\* Once committed, a transaction has nothing left to lose.
LEMMA CommittedKept ==
  ASSUME Inv, SerialInv, TypeOK', NEW t \in Thread, Effect(t), SameTxn(t), wv'[t] = wv[t],
         pc[t] \in CommitSteps, pc'[t] \in CommitSteps
  PROVE  PastReads(t)' /\ InFlight(t)' /\ Validation(t)'
<1>0. TypeOK /\ Clock /\ PastReads(t) /\ Validation(t)
  BY DEF Inv, SerialInv
<1>1. PastReads(t)'
  BY <1>0, PastReadsKept DEF SameTxn
<1>2. ASSUME NEW r \in reads[t] PROVE Validated(t, r)'
  BY <1>0, <1>2, ValidatedKept DEF SameTxn, PastReads, Validation, TypeOK
<1>3. InFlight(t)' /\ Validation(t)'
  BY <1>0, <1>2 DEF InFlight, Validation, SameTxn, TrySteps, CommitSteps
<1> QED
  BY <1>1, <1>3

\* At most one thread writes back a word, and it owns its lock.
LEMMA BackOwns ==
  ASSUME Inv, ClashFree, NEW t \in Thread, NEW a, InBack(t, a)
  PROVE  /\ LockOf(a) \in Owned(t)
         /\ \A u \in Thread : InBack(u, a) => u = t
         /\ \A u \in Thread : Copied(u, a) => u = t
<1>1. \A u \in Thread : InBack(u, a) => LockOf(a) \in Owned(u)
  BY DEF InBack, Back, Owned, TrySteps
<1>2. \A u \in Thread : Copied(u, a) => InBack(u, a)
  BY DEF Copied, InBack, Back, Inv, Registers, RegistersOf
<1> QED
  BY <1>1, <1>2 DEF Inv, LockOwnership

LEMMA WriteBackSerial ==
  ASSUME Inv, HeapInv, ClashFree, SerialInv, TypeOK', NEW t \in Thread, NEW b \in Addr,
         WriteBack(t, b)
  PROVE  SerialInv'
<1> USE DEF txnVars, readRegs, endRegs, histVars
<1>0. /\ TypeOK /\ Others(t) /\ Clock /\ ClockOf(t)
  BY ThreadOthers DEF Inv, Step, SerialInv, Clock
<1>1. /\ UNCHANGED <<gvc, wv, locks, live, rv, reads, raced, is_ro, read_set, txn_segs,
                     hist, published, held, todo, write_set>>
      /\ pc[t] = "write" /\ pc'[t] = "set_version" /\ word'[t] = b /\ b \in todo[t]
      /\ mem' = [mem EXCEPT ![b] = write_set[t][b]]
  BY <1>0 DEF WriteBack, Set, TypeOK
<1>2. /\ \A u \in Thread : Owned(u)' = Owned(u) /\ (HasClock(u)' <=> HasClock(u))
      /\ Back(t) /\ Back(t)'
  BY <1>0, <1>1, OthersSame DEF Owned, TrySteps, HasClock, Back
<1>3. Effect(t)
  BY <1>0, <1>1, <1>2 DEF Effect, Forward, TypeOK
<1>4. ClockOf(t)'
  BY <1>0, <1>1, <1>2 DEF ClockOf, EarlySteps, ReadSteps, LateSteps, CommitSteps
<1>5. ClockBound'
  <2>1. t \in Pending' => t \in Pending
    BY <1>1 DEF Pending
  <2> QED
    BY <1>0, <1>1, <2>1, PendingKept DEF Clock, ClockBound
<1>6. PastReads(t)' /\ InFlight(t)' /\ Validation(t)'
  BY <1>1, <1>3, CommittedKept DEF SameTxn, CommitSteps
<1>7. ASSUME NEW a \in Visible' PROVE WordOf(a)'
  <2>1. a \in Visible /\ a \in Addr /\ WordOf(a) /\ VersionOf(a)' = VersionOf(a)
    BY <1>0, <1>1, <1>7, VisibleType DEF Visible, SerialInv, WordsInv, VersionOf, LockAt
  <2>2. \A u \in Thread : InBack(u, a)' <=> InBack(u, a)
    BY <1>0, <1>1, OthersSame DEF InBack, Back
  <2>3. CASE a # b
    <3>1. mem'[a] = mem[a]
      BY <1>0, <1>1, <2>1, <2>3 DEF TypeOK
    <3>2. \A u \in Thread : Copied(u, a)' <=> Copied(u, a)
      BY <1>0, <1>1, <2>3, OthersSame DEF Copied
    <3>3. IsValueAt(a, mem[a], VersionOf(a)) => IsValueAt(a, mem[a], VersionOf(a))'
      BY <1>1, <2>1, <3>1 DEF IsValueAt
    <3> QED
      BY <1>1, <2>1, <2>2, <3>1, <3>2, <3>3 DEF WordOf
  <2>4. CASE a = b
    <3>1. mem'[a] = write_set[t][a] /\ InBack(t, a) /\ Copied(t, a)'
      BY <1>0, <1>1, <2>1, <2>4 DEF TypeOK, InBack, Back, Copied
    <3>2. \A u \in Thread : InBack(u, a) => u = t
      BY <3>1, BackOwns
    <3> QED
      BY <1>1, <2>1, <2>2, <3>1, <3>2 DEF WordOf
  <2> QED
    BY <2>3, <2>4
<1> QED
  BY <1>3, <1>4, <1>5, <1>6, <1>7, EffectKeeps DEF WordsInv

LEMMA SetVersionSerial ==
  ASSUME Inv, HeapInv, ClashFree, SerialInv, TypeOK', NEW t \in Thread, SetVersion(t)
  PROVE  SerialInv'
<1> USE DEF txnVars, readRegs, histVars
<1>0. /\ TypeOK /\ Others(t) /\ Clock /\ ClockOf(t) /\ HeldOf(t) /\ RegistersOf(t)
  BY ThreadOthers DEF Inv, Step, SerialInv, Clock, Registers
<1>1. PICK b \in Addr : /\ b = word[t] /\ b \in todo[t] /\ LockOf(b) \in Lock
                        /\ pc[t] = "set_version"
  BY <1>0, LockOfType DEF SetVersion, RegistersOf, TypeOK
<1>2. /\ UNCHANGED <<gvc, wv, mem, live, rv, reads, raced, is_ro, read_set, txn_segs,
                     hist, published, held, write_set>>
      /\ todo'[t] = todo[t] \ {b} /\ word'[t] = 0
      /\ pc'[t] = IF todo[t] = {b} THEN "splice_lock" ELSE "write"
      /\ locks' = [locks EXCEPT ![LockOf(b)] = setVersionValue(wv[t])]
  BY <1>0, <1>1 DEF SetVersion, Set, TypeOK
<1>3. /\ wv[t] \in Nat /\ getVersion(setVersionValue(wv[t])) = wv[t]
      /\ wv[t] <= gvc /\ gvc \in Nat /\ HasClock(t)
  <2>1. wv[t] \in Nat /\ gvc \in Nat
    BY <1>0, Numbers
  <2>2. getVersion(setVersionValue(wv[t])) = wv[t]
    BY <2>1 DEF getVersion, setVersionValue
  <2> QED
    BY <1>0, <1>1, <2>1, <2>2 DEF ClockOf, LateSteps, CommitSteps
\* No other word of the write set has this lock.
<1>4. \A a \in todo[t] : LockOf(a) = LockOf(b) => a = b
  BY <1>0, <1>1 DEF HeldOf, RegistersOf, NoClash
<1>5. /\ Owned(t) = LocksOf(todo[t]) /\ Back(t) /\ Owned(t)' = Owned(t) \ {LockOf(b)}
      /\ Owned(t)' # {} => Back(t)'
  <2>1. Owned(t) = LocksOf(todo[t]) /\ Back(t) /\ Owned(t)' = LocksOf(todo[t] \ {b})
    BY <1>1, <1>2 DEF Owned, TrySteps, LocksOf, Back
  <2>2. LocksOf(todo[t] \ {b}) = LocksOf(todo[t]) \ {LockOf(b)}
    BY <1>1, <1>4 DEF LocksOf
  <2>3. todo[t] # {b} => Back(t)'
    BY <1>2 DEF Back
  <2> QED
    BY <2>1, <2>2, <2>3 DEF LocksOf
<1>6. /\ getVersion(locks'[LockOf(b)]) = wv[t] /\ LockOf(b) \in Owned(t)
      /\ \A l \in Lock : l # LockOf(b) => locks'[l] = locks[l]
  BY <1>0, <1>1, <1>2, <1>3, <1>5 DEF TypeOK, LocksOf
<1>7. Effect(t)
  <2>1. HasClock(t)' <=> HasClock(t)
    BY <1>2 DEF HasClock
  <2>2. \A l \in Owned(t) : (Back(t)' /\ l \in Owned(t)') \/ getVersion(locks'[l]) = wv[t]
    BY <1>5, <1>6
  <2> QED
    BY <1>0, <1>2, <1>3, <1>5, <1>6, <2>1, <2>2 DEF Effect, Forward
<1>8. ClockOf(t)'
  <2>1. HasClock(t)' <=> HasClock(t)
    BY <1>2 DEF HasClock
  <2>2. \A l \in Owned(t)' : locks'[l] = locks[l]
    BY <1>0, <1>5, <1>6, OwnedType
  <2> QED
    BY <1>0, <1>1, <1>2, <1>3, <1>5, <2>1, <2>2
    DEF ClockOf, EarlySteps, ReadSteps, LateSteps, CommitSteps
<1>9. ClockBound'
  <2>1. t \in Pending' => t \in Pending
    BY <1>1, <1>2 DEF Pending
  <2>2. \A l \in Lock : getVersion(locks'[l]) <= gvc
    BY <1>0, <1>3, <1>6 DEF Clock
  <2> QED
    BY <1>0, <1>2, <2>1, <2>2, PendingKept DEF Clock, ClockBound
<1>10. PastReads(t)' /\ InFlight(t)' /\ Validation(t)'
  BY <1>1, <1>2, <1>7, CommittedKept DEF SameTxn, CommitSteps
<1>11. ASSUME NEW a \in Visible' PROVE WordOf(a)'
  <2>0. /\ a \in Visible /\ a \in Addr /\ WordOf(a) /\ LockOf(a) \in Lock
        /\ hist'[a] = hist[a] /\ mem'[a] = mem[a]
    BY <1>0, <1>2, <1>11, VisibleType, LockOfType DEF Visible, SerialInv, WordsInv
  <2>1. VersionOf(a) \in Nat /\ \A p \in hist[a] : p[1] \in Nat
    BY <1>0, <2>0, Numbers
  <2>2. /\ \A u \in Thread \ {t} : (InBack(u, a)' <=> InBack(u, a)) /\ (Copied(u, a)' <=> Copied(u, a))
        /\ ~Copied(t, a)'
        /\ a # b => (InBack(t, a)' <=> InBack(t, a)) /\ ~Copied(t, a)
        /\ InBack(t, a)' => InBack(t, a)
    <3>1. ~Copied(t, a)' /\ (a # b => ~Copied(t, a))
      BY <1>1, <1>2 DEF Copied
    <3>2. InBack(t, a) <=> a \in todo[t]
      BY <1>1 DEF InBack, Back
    <3>3. InBack(t, a)' <=> a \in todo[t] \ {b}
      BY <1>2 DEF InBack, Back
    <3> QED
      BY <1>0, <3>1, <3>2, <3>3, OthersSame
  <2>3. CASE LockOf(a) # LockOf(b)
    <3>1. VersionOf(a)' = VersionOf(a) /\ a # b
      BY <1>6, <2>0, <2>3 DEF VersionOf, LockAt
    <3>2. IsValueAt(a, mem[a], VersionOf(a)) => IsValueAt(a, mem[a], VersionOf(a))'
      BY <2>0, <3>1 DEF IsValueAt
    <3> QED
      BY <1>2, <2>0, <2>2, <3>1, <3>2 DEF WordOf
  <2>4. CASE LockOf(a) = LockOf(b)
    <3>1. VersionOf(a)' = wv[t] /\ VersionOf(a) < wv[t]
      BY <1>0, <1>3, <1>6, <2>4 DEF VersionOf, LockAt, ClockOf
    <3>2. \A u \in Thread : InBack(u, a) => u = t /\ a = b
      <4>1. ASSUME NEW u \in Thread, InBack(u, a) PROVE u = t
        BY <1>6, <2>4, <4>1, BackOwns DEF Inv, LockOwnership
      <4>2. InBack(t, a) => a = b
        BY <1>4, <2>4 DEF InBack
      <4> QED
        BY <4>1, <4>2
    <3>3. \A p \in hist[a] : p[1] <= wv[t]
      BY <1>3, <2>0, <2>1, <3>1, <3>2 DEF WordOf
    <3>4. \A u \in Thread : ~InBack(u, a)'
      <4>1. ~InBack(t, b)'
        BY <1>2 DEF InBack
      <4> QED
        BY <2>2, <3>2, <4>1
    <3>5. IsValueAt(a, mem[a], wv[t])
      <4>1. CASE a = b
        <5>1. InBack(t, a) /\ Copied(t, a)
          BY <1>1, <4>1 DEF InBack, Back, Copied
        <5>2. <<wv[t], write_set[t][a]>> \in hist[a] /\ mem[a] = write_set[t][a]
          BY <2>0, <5>1 DEF WordOf
        <5> QED
          BY <1>3, <3>3, <5>2 DEF IsValueAt
      <4>2. CASE a # b
        <5>1. \A p \in hist[a] : p[1] <= VersionOf(a)
          BY <2>0, <3>2, <4>2 DEF WordOf
        <5>2. \A u \in Thread : ~Copied(u, a)
          BY <3>2, <4>2 DEF Copied, InBack, Back, Inv, Registers, RegistersOf
        <5>3. IsValueAt(a, mem[a], VersionOf(a))
          BY <2>0, <5>2 DEF WordOf
        <5> QED
          BY <1>3, <2>1, <3>1, <5>1, <5>3 DEF IsValueAt
      <4> QED
        BY <4>1, <4>2
    <3>6. IsValueAt(a, mem[a], VersionOf(a))'
      BY <2>0, <3>1, <3>5 DEF IsValueAt
    <3> QED
      BY <2>0, <3>1, <3>3, <3>4, <3>6 DEF WordOf
  <2> QED
    BY <2>3, <2>4
<1> QED
  BY <1>7, <1>8, <1>9, <1>10, <1>11, EffectKeeps DEF WordsInv

LEMMA SpliceSerial ==
  ASSUME Inv, HeapInv, ClashFree, SerialInv, TypeOK', NEW t \in Thread, SpliceLock(t) \/ Splice(t)
  PROVE  SerialInv'
<1> USE DEF txnVars, readRegs, endRegs, histVars
<1>0. TypeOK /\ Others(t)
  BY ThreadOthers DEF Inv, Step
<1>1. CASE Splice(t)
  BY <1>1, DeleteSerial DEF Splice, SameVersions
<1>2. CASE SpliceLock(t)
  <2>1. /\ UNCHANGED <<gvc, wv, locks, mem, live, rv, reads, raced, is_ro, read_set, txn_segs,
                       hist, published, held>>
        /\ pc[t] = "splice_lock" /\ pc'[t] = "splice"
    BY <1>0, <1>2 DEF SpliceLock, Set, TypeOK
  <2>2. Owned(t)' = Owned(t)
    BY <2>1 DEF Owned, TrySteps
  <2>3. QuietCall(t)
    BY <1>0, <2>1, <2>2
    DEF QuietCall, SameTxn, SameVersions, Back, ReadSteps, EarlySteps, LateSteps, CommitSteps
  <2>4. InFlight(t)' /\ Validation(t)'
    BY <2>1, <2>3, QuietPlain, PlainEffect, CommittedKept DEF QuietCall, CommitSteps
  <2> QED
    BY <2>3, <2>4, QuietCallKeeps
<1> QED
  BY <1>1, <1>2

\* tm_destroy frees segments; nothing else happens outside the threads.
LEMMA IdleSerial ==
  ASSUME Inv, SerialInv, live' \subseteq live,
         UNCHANGED <<gvc, locks, mem, txnVars, callVars, histVars>>
  PROVE  SerialInv'
<1> USE DEF txnVars, callVars, readRegs, endRegs, histVars
<1>1. \A u \in Thread : /\ Owned(u)' = Owned(u)
                        /\ HasClock(u)' <=> HasClock(u)
                        /\ Back(u)' <=> Back(u)
                        /\ ReadsOwnWrite(u)' <=> ReadsOwnWrite(u)
                        /\ Accessible(u)' = Accessible(u)
  BY DEF Owned, HasClock, Back, ReadsOwnWrite, Accessible
<1>2. /\ \A a : VersionOf(a)' = VersionOf(a) /\ (Dirty(a)' <=> Dirty(a))
      /\ \A a, v, n : IsValueAt(a, v, n)' <=> IsValueAt(a, v, n)
  BY <1>1 DEF VersionOf, LockAt, Dirty, IsValueAt
<1>3. \A u \in Thread : \A a : /\ Fresh(u, a)' <=> Fresh(u, a)
                               /\ NoOlderOwner(u, a)' <=> NoOlderOwner(u, a)
                               /\ InBack(u, a)' <=> InBack(u, a)
                               /\ Copied(u, a)' <=> Copied(u, a)
  BY <1>1 DEF Fresh, NoOlderOwner, InBack, Copied
<1>4. Clock'
  <2>1. Pending' = Pending
    BY DEF Pending
  <2> QED
    BY <1>1, <2>1 DEF SerialInv, Clock, ClockOf
<1>5. WordsInv'
  BY <1>2, <1>3 DEF SerialInv, WordsInv, WordOf, Visible
<1>6. ASSUME NEW u \in Thread PROVE PastReads(u)' /\ InFlight(u)' /\ Validation(u)'
  <2>1. PastReads(u) /\ InFlight(u) /\ Validation(u)
    BY DEF SerialInv
  <2>2. PastReads(u)'
    BY <1>1, <1>2, <1>3, <2>1 DEF PastReads
  <2>3. InFlight(u)'
    BY <1>1, <1>2, <1>3, <2>1 DEF InFlight
  <2>4. Validation(u)'
    BY <1>2, <1>3, <2>1 DEF Validation, Validated
  <2> QED
    BY <2>2, <2>3, <2>4
<1> QED
  BY <1>4, <1>5, <1>6 DEF SerialInv

LEMMA NextSerial ==
  ASSUME Inv, HeapInv, ClashFree, NoWrap, SerialInv, [Next]_vars
  PROVE  SerialInv'
<1>0. TypeOK'
  BY NextType DEF Inv
<1>1. ASSUME NEW t \in Thread, Call(t) PROVE SerialInv'
  BY <1>0, <1>1, BeginSerial, CallSerial, AllocSerial DEF Call
<1>2. ASSUME NEW t \in Thread, Step(t) PROVE SerialInv'
  <2>1. CASE PreVersion(t) \/ PreLocked(t) \/ Copy(t) \/ PostVersion(t)
    BY <1>0, <2>1, ReadStepSerial
  <2>2. CASE PostLocked(t)
    BY <1>0, <2>2, PostLockedSerial
  <2>3. CASE \E a \in Addr : LockTaken(t, a) \/ LockMine(t, a)
    BY <1>0, <2>3, LockSerial
  <2>4. CASE \E a \in Addr : LockBusy(t, a)
    BY <1>0, <2>4, GiveUpSerial DEF LockBusy, TrySteps
  <2>5. CASE \E l \in Lock : Unlock(t, l)
    BY <1>0, <2>5, UnlockSerial
  <2>6. CASE IncrementClock(t)
    BY <1>0, <2>6, ClockSerial
  <2>7. CASE \/ ValidateVersion(t)
             \/ \E a \in Addr : ValidateLocked(t, a) \/ ValidateMine(t, a)
    BY <1>0, <2>7, ValidateSerial
  <2>8. CASE \E a \in Addr : WriteBack(t, a)
    BY <1>0, <2>8, WriteBackSerial
  <2>9. CASE SetVersion(t)
    BY <1>0, <2>9, SetVersionSerial
  <2>10. CASE SpliceLock(t) \/ Splice(t)
    BY <1>0, <2>10, SpliceSerial
  <2> QED
    BY <1>2, <2>1, <2>2, <2>3, <2>4, <2>5, <2>6, <2>7, <2>8, <2>9, <2>10 DEF Step
<1>3. CASE tm_destroy \/ Destroyed \/ UNCHANGED vars
  <2>1. live' \subseteq live /\ UNCHANGED <<gvc, locks, mem, txnVars, callVars, histVars>>
    BY <1>3 DEF tm_destroy, FreeSegments, Destroyed, vars, sharedVars
  <2> QED
    BY <2>1, IdleSerial
<1> QED
  BY <1>1, <1>2, <1>3 DEF Next

LEMMA InitSerial == Init => SerialInv
<1> SUFFICES ASSUME Init PROVE SerialInv
  OBVIOUS
<1>1. \A t \in Thread : /\ pc[t] = "idle" /\ rv[t] = 0 /\ wv[t] = 0 /\ reads[t] = {} /\ Owned(t) = {}
  BY DEF Init, Owned, TrySteps
<1>2. \A l \in Lock : getVersion(locks[l]) = 0
  BY DEF Init, getVersion
<1>3. Pending = {}
  BY DEF Pending, Init, Thread
<1>4. Clock
  <2>1. gvc + Cardinality(Pending) <= MaxClock
    BY <1>3, FS_EmptySet, TL2Assumption DEF Init
  <2>2. \A t \in Thread : ClockOf(t)
    BY <1>1 DEF ClockOf, HasClock, LateSteps, CommitSteps, Init
  <2>3. \A a \in Addr : \A p \in hist[a] : p[1] = 0
    BY DEF Init
  <2> QED
    BY <1>2, <2>1, <2>2, <2>3 DEF Clock, Init
<1>5. WordsInv
  <2> SUFFICES ASSUME NEW a \in FirstSegment PROVE WordOf(a)
    BY DEF WordsInv, Visible, Init
  <2>1. hist[a] = {<<0, Zero>>} /\ mem[a] = Zero /\ VersionOf(a) = 0
    BY <1>2, LockOfType DEF Init, Addr, VersionOf, LockAt
  <2>2. \A t \in Thread : ~InBack(t, a)
    BY <1>1 DEF InBack, Back
  <2> QED
    BY <2>1, <2>2 DEF WordOf, IsValueAt
<1>6. \A t \in Thread : PastReads(t) /\ InFlight(t) /\ Validation(t)
  BY <1>1 DEF PastReads, InFlight, Validation, TrySteps, CommitSteps
<1> QED
  BY <1>4, <1>5, <1>6 DEF SerialInv

-----------------------------------------------------------------------------
\* SerialInv holds in every reachable state.
THEOREM SerialInvariance ==
  ASSUME ClashFree, NoWrap
  PROVE  Spec => [](Inv /\ HeapInv /\ SerialInv)
<1>1. Init => Inv /\ HeapInv /\ SerialInv
  BY InitInv, InitSegs, InitValues, InitSerial DEF HeapInv
<1>2. (Inv /\ HeapInv /\ SerialInv) /\ [Next]_vars => (Inv /\ HeapInv /\ SerialInv)'
  BY NextKeeps, NextKeepsSegs, NextValues, NextSerial DEF HeapInv
<1> QED
  BY <1>1, <1>2, PTL DEF Spec

LEMMA InvSerial ==
  ASSUME Inv, SerialInv
  PROVE  CommittedReadsSerial
<1> SUFFICES ASSUME NEW t \in Thread, pc[t] \in CommitSteps, NEW r \in reads[t]
             PROVE  IsValueAt(r[1], r[2], wv[t] - 1)
  BY DEF CommittedReadsSerial, ReadsAt
<1>0. TypeOK /\ ClockOf(t) /\ Validation(t) /\ r[1] \in Addr
  BY DEF Inv, SerialInv, Clock, TypeOK
<1>1. rv[t] \in Nat /\ wv[t] \in Nat /\ rv[t] < wv[t] /\ \A p \in hist[r[1]] : p[1] \in Nat
  BY <1>0, Numbers DEF ClockOf, LateSteps
<1>2. /\ IsValueAt(r[1], r[2], rv[t])
      /\ \A p \in hist[r[1]] : p[1] <= rv[t] \/ p[1] >= wv[t]
  BY <1>0 DEF Validation, Validated
<1> QED
  BY <1>1, <1>2 DEF IsValueAt

\* Committed transactions are serializable in the order of their write versions:
\* when a tm_end can no longer fail, everything its transaction read is the
\* memory left by the commits before its own.
THEOREM ReadsSerial ==
  ASSUME ClashFree, NoWrap
  PROVE  Spec => []CommittedReadsSerial
  BY SerialInvariance, InvSerial, PTL

\* As long as no tm_read was overtaken by the release of a lock between its last
\* two loads, all that an open transaction has read is of the snapshot of its
\* tm_begin, also if it is going to abort.
THEOREM ReadsOfSnapshot ==
  ASSUME ClashFree, NoWrap
  PROVE  Spec => []SnapshotUnlessRaced
<1>1. SerialInv => SnapshotUnlessRaced
  BY DEF SerialInv, PastReads, SnapshotUnlessRaced, ReadsAt
<1> QED
  BY <1>1, SerialInvariance, PTL

\* A word whose lock is free contains what its last committed writer wrote, and
\* the version of the lock is not older than that commit.
THEOREM WordsCommitted ==
  ASSUME ClashFree, NoWrap
  PROVE  Spec => []UnlockedWordsAreCommitted
<1>1. Inv /\ SerialInv => UnlockedWordsAreCommitted
  <2> SUFFICES ASSUME Inv, SerialInv, NEW a \in Visible, ~isLocked(LockAt(a))
               PROVE  /\ IsValueAt(a, mem[a], VersionOf(a))
                      /\ \A p \in hist[a] : p[1] <= VersionOf(a)
    BY DEF UnlockedWordsAreCommitted, Visible, VersionOf
  <2>1. TypeOK /\ WordsInv /\ a \in Addr
    BY VisibleType DEF Inv, SerialInv
  <2>2. ~Dirty(a)
    BY <2>1, UnlockedFree DEF Dirty
  <2>3. VersionOf(a) \in Nat
    BY <2>1, Numbers
  <2> QED
    BY <2>1, <2>2, <2>3, CleanWord
<1> QED
  BY <1>1, SerialInvariance, PTL

LEMMA StepVersions ==
  ASSUME Inv, SerialInv, ClashFree, NoWrap, [Next]_vars, NEW l \in Lock
  PROVE  getVersion(locks'[l]) >= getVersion(locks[l])
<1> USE DEF vars, sharedVars
<1>0. TypeOK /\ Clock /\ locks[l] \in Nat /\ getVersion(locks[l]) \in Nat
  BY Numbers DEF Inv, SerialInv
<1>1. CASE locks' = locks
  BY <1>0, <1>1
<1>2. ASSUME NEW t \in Thread, NEW a \in Addr, LockTaken(t, a)
      PROVE  getVersion(locks'[l]) >= getVersion(locks[l])
  BY <1>0, <1>2, LockVersions DEF LockTaken, TypeOK
<1>3. ASSUME NEW t \in Thread, NEW k \in Lock, Unlock(t, k)
      PROVE  getVersion(locks'[l]) >= getVersion(locks[l])
  BY <1>0, <1>3, LockVersions, LocksFit DEF Unlock, TypeOK
<1>4. ASSUME NEW t \in Thread, SetVersion(t)
      PROVE  getVersion(locks'[l]) >= getVersion(locks[l])
  <2>1. /\ wv[t] \in Nat /\ pc[t] = "set_version" /\ word[t] \in todo[t]
    BY <1>0, <1>4, Numbers DEF SetVersion, Inv, Registers, RegistersOf
  <2>2. LockOf(word[t]) \in Owned(t)
    BY <2>1 DEF Owned, TrySteps
  <2>3. getVersion(locks[LockOf(word[t])]) < wv[t]
    BY <1>0, <2>1, <2>2 DEF Clock, ClockOf, LateSteps, CommitSteps
  <2>4. getVersion(setVersionValue(wv[t])) = wv[t]
    BY <2>1 DEF getVersion, setVersionValue
  <2>5. CASE l = LockOf(word[t])
    BY <1>0, <1>4, <2>1, <2>3, <2>4, <2>5 DEF SetVersion, TypeOK
  <2>6. CASE l # LockOf(word[t])
    BY <1>0, <1>4, <2>6 DEF SetVersion, TypeOK
  <2> QED
    BY <2>5, <2>6
<1>5. ASSUME NEW t \in Thread, Call(t) PROVE locks' = locks
  BY <1>5 DEF Call, tm_begin, tm_read, tm_write, tm_alloc, tm_free, tm_end
<1>6. ASSUME NEW t \in Thread, Step(t),
             ~\E a \in Addr : LockTaken(t, a), ~\E k \in Lock : Unlock(t, k), ~SetVersion(t)
      PROVE  locks' = locks
  <2>1. GiveUp(t) => locks' = locks
    BY DEF GiveUp
  <2>2. \A a : CheckVersion(t, a) => locks' = locks
    BY <2>1 DEF CheckVersion, Commit
  <2> QED
    BY <1>6, <2>1, <2>2
    DEF Step, PreVersion, PreLocked, Copy, PostVersion, PostLocked, WordRead, LockMine, LockBusy,
        IncrementClock, Commit, ValidateLocked, ValidateVersion, ValidateMine, WriteBack,
        SpliceLock, Splice
<1>7. CASE tm_destroy \/ Destroyed \/ UNCHANGED vars
  BY <1>1, <1>7 DEF tm_destroy, Destroyed
<1> QED
  BY <1>1, <1>2, <1>3, <1>4, <1>5, <1>6, <1>7 DEF Next

\* No step takes the version of a lock back, so a tm_read that loads the same
\* version twice has seen no release in between.
THEOREM VersionsGrowing ==
  ASSUME ClashFree, NoWrap
  PROVE  Spec => VersionsOnlyGrow
<1>1. Inv /\ SerialInv /\ [Next]_vars =>
        [\A l \in Lock : getVersion(locks'[l]) >= getVersion(locks[l])]_vars
  BY StepVersions
<1> QED
  BY <1>1, SerialInvariance, PTL DEF Spec, VersionsOnlyGrow

-----------------------------------------------------------------------------
(***************************************************************************)
(* Transactions that have ended: no later commit changes what they should  *)
(* have read.                                                              *)
(***************************************************************************)
\* Steps that commit nothing.
LEMMA ForwardPlain ==
  ASSUME TypeOK, NEW t \in Thread, Others(t), gvc' = gvc, hist' = hist,
         ~HasClock(t)' \/ (Owned(t)' \subseteq Owned(t) /\ wv'[t] = wv[t])
  PROVE  Forward(t)
  BY DEF Forward, HasClock, TypeOK

LEMMA ForwardDelete ==
  ASSUME TypeOK, NEW t \in Thread, NEW segs, DeleteTxn(t, segs), gvc' = gvc
  PROVE  Forward(t)
<1>1. ~HasClock(t)' /\ hist' = hist
  BY DEF DeleteTxn, Set, TypeOK, HasClock
<1> QED
  BY <1>1, DeleteOthers, ForwardPlain

LEMMA ForwardGiveUp ==
  ASSUME TypeOK, NEW t \in Thread, GiveUp(t), pc[t] \in TrySteps
  PROVE  Forward(t)
<1>1. CASE held[t] = {}
  BY <1>1, ForwardDelete DEF GiveUp, Abort
<1>2. CASE held[t] # {}
  <2>1. /\ pc'[t] = "unlock" /\ held' = held /\ wv' = wv /\ gvc' = gvc /\ hist' = hist
    BY <1>2 DEF GiveUp, Set, TypeOK, sharedVars, histVars
  <2>2. Owned(t)' = Owned(t)
    BY <2>1 DEF Owned, TrySteps
  <2> QED
    BY <2>1, <2>2, GiveUpOthers, ForwardPlain
<1> QED
  BY <1>1, <1>2

LEMMA ForwardCommit ==
  ASSUME Inv, SerialInv, NEW t \in Thread, NEW v, Commit(t, v), Others(t), TakesVersion(t, v)
  PROVE  Forward(t)
<1>0. /\ TypeOK /\ Clock /\ Validation(t) /\ HeldOf(t)
  BY DEF Inv, SerialInv
<1>1. /\ hist' = [a \in Addr |-> IF a \in WriteDom(t) THEN hist[a] \cup {<<v, write_set[t][a]>>}
                                 ELSE hist[a]]
      /\ todo'[t] = WriteDom(t)
      /\ pc'[t] \in {"write", "splice_lock"}
      /\ wv'[t] = v
  BY <1>0 DEF Commit, Set, TypeOK, TakesVersion
<1>2. /\ gvc <= gvc'
      /\ (HasClock(t) /\ v = wv[t]) \/ v > gvc
  BY <1>0, VersionTaken
<1>3. Owned(t) = LocksOf(WriteDom(t)) /\ Owned(t)' \subseteq Owned(t)
  <2>1. Owned(t) = LocksOf(WriteDom(t))
    BY <1>0 DEF TakesVersion, HeldOf, Owned, TrySteps
  <2>2. Owned(t)' \subseteq LocksOf(WriteDom(t))
    BY <1>1 DEF Owned, TrySteps, LocksOf
  <2> QED
    BY <2>1, <2>2
<1>4. \A a \in Addr : /\ hist[a] \subseteq hist'[a]
                      /\ \A p \in hist'[a] \ hist[a] : p[1] = v /\ LockOf(a) \in Owned(t)
  BY <1>1, <1>3 DEF LocksOf
<1> QED
  BY <1>1, <1>2, <1>3, <1>4 DEF Forward

LEMMA ForwardCall ==
  ASSUME Inv, SerialInv, NEW t \in Thread, Call(t)
  PROVE  Forward(t)
<1> USE DEF vars, sharedVars, callVars, endRegs, histVars
<1>0. TypeOK /\ Others(t) /\ ClockOf(t)
  BY ThreadOthers DEF Inv, SerialInv, Clock
<1>1. CASE wv' = wv /\ gvc' = gvc /\ hist' = hist /\ pc[t] \in {"idle", "ready"}
  <2>1. ~HasClock(t)'
    BY <1>0, <1>1 DEF ClockOf, EarlySteps, HasClock
  <2> QED
    BY <1>0, <1>1, <2>1, ForwardPlain
<1>2. CASE DeleteTxn(t, txn_segs[t]) /\ gvc' = gvc
  BY <1>0, <1>2, ForwardDelete
<1>3. CASE tm_end(t)
  BY <1>1, <1>2, <1>3 DEF tm_end
<1>4. CASE ~tm_end(t)
  BY <1>1, <1>4 DEF Call, tm_begin, tm_read, tm_write, tm_alloc, tm_free
<1> QED
  BY <1>3, <1>4

LEMMA ForwardEarly ==
  ASSUME Inv, SerialInv, NEW t \in Thread, Step(t), pc[t] \in EarlySteps, ~IncrementClock(t)
  PROVE  Forward(t)
<1> USE DEF sharedVars, callVars, endRegs, histVars
<1>0. TypeOK /\ Others(t) /\ ClockOf(t)
  BY ThreadOthers DEF Inv, SerialInv, Clock
<1>1. CASE wv' = wv /\ gvc' = gvc /\ hist' = hist
  <2>1. ~HasClock(t)'
    BY <1>0, <1>1 DEF ClockOf, HasClock
  <2> QED
    BY <1>0, <1>1, <2>1, ForwardPlain
<1>2. CASE Abort(t) /\ gvc' = gvc
  BY <1>0, <1>2, ForwardDelete DEF Abort
<1>3. CASE \E a \in Addr : LockBusy(t, a)
  BY <1>0, <1>3, ForwardGiveUp DEF LockBusy, TrySteps
<1>4. CASE PreLocked(t) \/ PostLocked(t)
  BY <1>1, <1>2, <1>4 DEF PreLocked, PostLocked, WordRead
<1>5. CASE \/ PreVersion(t) \/ Copy(t) \/ PostVersion(t)
           \/ \E a \in Addr : LockTaken(t, a) \/ LockMine(t, a)
  BY <1>1, <1>5 DEF PreVersion, Copy, PostVersion, LockTaken, LockMine, LockedWord
<1> QED
  BY <1>3, <1>4, <1>5
  DEF Step, EarlySteps, ReadSteps, Unlock, ValidateLocked, ValidateVersion, ValidateMine, WriteBack,
      SetVersion, SpliceLock, Splice

LEMMA ForwardClock ==
  ASSUME Inv, SerialInv, NEW t \in Thread, IncrementClock(t)
  PROVE  Forward(t)
<1>0. /\ TypeOK /\ Others(t) /\ pc[t] = "clock" /\ gvc' = gvc + 1 /\ gvc \in Nat
      /\ wv'[t] = gvc + 1
  BY ThreadOthers, Numbers DEF Inv, Step, IncrementClock, Set, TypeOK
<1>1. TakesVersion(t, gvc + 1)
  BY <1>0 DEF TakesVersion
<1>2. CASE Commit(t, gvc + 1)
  BY <1>0, <1>1, <1>2, ForwardCommit
<1>3. CASE hist' = hist
  <2>1. wv'[t] > gvc /\ gvc <= gvc'
    BY <1>0
  <2> QED
    BY <1>0, <1>3, <2>1 DEF Forward
<1> QED
  BY <1>2, <1>3 DEF IncrementClock, histVars

LEMMA ForwardCheck ==
  ASSUME Inv, SerialInv, NEW t \in Thread, NEW a, CheckVersion(t, a), Others(t),
         pc[t] \in {"validate", "validate_version"}
  PROVE  Forward(t)
<1>0. TypeOK
  BY DEF Inv
<1>1. CASE GiveUp(t)
  BY <1>0, <1>1, ForwardGiveUp DEF TrySteps
<1>2. CASE Commit(t, wv[t]) /\ UNCHANGED <<gvc, wv>>
  BY <1>2, ForwardCommit DEF TakesVersion
<1>3. CASE pc' = Set(pc, t, "validate") /\ UNCHANGED <<gvc, wv, held, histVars>>
  <2>1. Owned(t)' = Owned(t)
    BY <1>0, <1>3 DEF Owned, Set, TypeOK, TrySteps
  <2> QED
    BY <1>0, <1>3, <2>1, ForwardPlain DEF histVars
<1> QED
  BY <1>1, <1>2, <1>3 DEF CheckVersion

LEMMA ForwardLate ==
  ASSUME Inv, SerialInv, NEW t \in Thread, Step(t), pc[t] \notin EarlySteps
  PROVE  Forward(t)
<1>0. TypeOK /\ Others(t)
  BY ThreadOthers DEF Inv
<1>1. ASSUME NEW l \in Lock, Unlock(t, l) PROVE Forward(t)
  <2>1. CASE held[t] = {l}
    BY <1>0, <1>1, <2>1, ForwardDelete DEF Unlock, Abort
  <2>2. CASE held[t] # {l}
    <3>1. /\ pc' = pc /\ pc[t] = "unlock" /\ held'[t] \subseteq held[t]
          /\ wv' = wv /\ gvc' = gvc /\ hist' = hist
      BY <1>0, <1>1, <2>2 DEF Unlock, Set, TypeOK, histVars
    <3>2. Owned(t)' \subseteq Owned(t)
      BY <3>1 DEF Owned, TrySteps
    <3> QED
      BY <1>0, <3>1, <3>2, ForwardPlain
  <2> QED
    BY <2>1, <2>2
<1>2. ASSUME NEW a \in Addr, ValidateLocked(t, a) PROVE Forward(t)
  <2>1. CASE GiveUp(t)
    BY <1>0, <1>2, <2>1, ForwardGiveUp DEF ValidateLocked, TrySteps
  <2>2. CASE ~GiveUp(t)
    <3>1. /\ pc[t] = "validate" /\ pc'[t] = "validate_version" /\ held' = held
          /\ wv' = wv /\ gvc' = gvc /\ hist' = hist
      BY <1>0, <1>2, <2>2 DEF ValidateLocked, Set, TypeOK, sharedVars, endRegs, histVars
    <3>2. Owned(t)' = Owned(t)
      BY <3>1 DEF Owned, TrySteps
    <3> QED
      BY <1>0, <3>1, <3>2, ForwardPlain
  <2> QED
    BY <2>1, <2>2
<1>3. CASE ValidateVersion(t)
  BY <1>0, <1>3, ForwardCheck DEF ValidateVersion
<1>4. ASSUME NEW a \in Addr, ValidateMine(t, a) PROVE Forward(t)
  BY <1>0, <1>4, ForwardCheck DEF ValidateMine
<1>5. ASSUME NEW a \in Addr, WriteBack(t, a) PROVE Forward(t)
  <2>1. /\ pc[t] = "write" /\ pc'[t] = "set_version" /\ todo' = todo
        /\ wv' = wv /\ gvc' = gvc /\ hist' = hist
    BY <1>0, <1>5 DEF WriteBack, Set, TypeOK, endRegs, histVars
  <2>2. Owned(t)' = Owned(t)
    BY <2>1 DEF Owned, TrySteps
  <2> QED
    BY <1>0, <2>1, <2>2, ForwardPlain
<1>6. CASE SetVersion(t)
  <2>1. /\ pc[t] = "set_version" /\ pc'[t] \in {"write", "splice_lock"} /\ todo'[t] \subseteq todo[t]
        /\ wv' = wv /\ gvc' = gvc /\ hist' = hist
    BY <1>0, <1>6 DEF SetVersion, Set, TypeOK, histVars
  <2>2. Owned(t)' \subseteq Owned(t)
    BY <2>1 DEF Owned, TrySteps
  <2> QED
    BY <1>0, <2>1, <2>2, ForwardPlain
<1>7. CASE SpliceLock(t)
  <2>1. pc'[t] = "splice" /\ wv' = wv /\ gvc' = gvc /\ hist' = hist
    BY <1>0, <1>7 DEF SpliceLock, Set, TypeOK, endRegs, histVars
  <2>2. Owned(t)' = {}
    BY <2>1 DEF Owned, TrySteps
  <2> QED
    BY <1>0, <2>1, <2>2, ForwardPlain
<1>8. CASE Splice(t)
  BY <1>0, <1>8, ForwardDelete DEF Splice
<1> QED
  BY <1>1, <1>2, <1>3, <1>4, <1>5, <1>6, <1>7, <1>8
  DEF Step, EarlySteps, ReadSteps, PreVersion, PreLocked, Copy, PostVersion, PostLocked, LockTaken,
      LockMine, LockBusy, IncrementClock

LEMMA ForwardStep ==
  ASSUME Inv, SerialInv, NEW t \in Thread, Call(t) \/ Step(t)
  PROVE  Forward(t)
  BY ForwardCall, ForwardEarly, ForwardClock, ForwardLate

\* What the ended transaction of a triple read is still the memory after the
\* commits up to its place, and nobody can commit the word there any more: who
\* holds its lock and has a write version has a newer one.
SeenOf(s) ==
  /\ s[1] \in Nat /\ s[2] \in Addr
  /\ s[1] <= gvc
  /\ IsValueAt(s[2], s[3], s[1])
  /\ \A u \in Thread : LockOf(s[2]) \in Owned(u) /\ HasClock(u) => wv[u] > s[1]

\* The inductive invariant of the execution with its history.
HistoryInv == Inv /\ HeapInv /\ SerialInv /\ \A s \in seen : SeenOf(s)

LEMMA SeenKept ==
  ASSUME TypeOK, TypeOK', NEW t \in Thread, Forward(t), NEW s, SeenOf(s)
  PROVE  SeenOf(s)'
<1>0. /\ s[1] \in Nat /\ s[2] \in Addr /\ s[1] <= gvc /\ gvc \in Nat /\ gvc' \in Nat
      /\ gvc <= gvc' /\ wv'[t] \in Nat
  BY DEF SeenOf, Forward, TypeOK
<1>1. LockOf(s[2]) \in Owned(t) /\ HasClock(t) => wv[t] > s[1]
  BY DEF SeenOf
<1>2. IsValueAt(s[2], s[3], s[1])'
  <2>1. PICK n \in Nat, a \in Addr : n = s[1] /\ a = s[2]
    BY <1>0
  <2>2. PICK v : v = s[3]
    OBVIOUS
  <2>3. IsValueAt(a, v, n)
    BY <2>1, <2>2 DEF SeenOf
  <2>4. IsValueAt(a, v, n)'
    BY <1>0, <1>1, <2>1, <2>3, ValueStays
  <2> QED
    BY <2>1, <2>2, <2>4 DEF IsValueAt
<1>3. ASSUME NEW u \in Thread \ {t}, LockOf(s[2]) \in Owned(u)', HasClock(u)' PROVE wv'[u] > s[1]
  BY <1>3, OthersSame DEF Forward, SeenOf, Others
<1>4. ASSUME LockOf(s[2]) \in Owned(t)', HasClock(t)' PROVE wv'[t] > s[1]
  <2>1. CASE LockOf(s[2]) \in Owned(t) /\ HasClock(t) /\ wv'[t] = wv[t]
    BY <1>1, <2>1
  <2>2. CASE wv'[t] > gvc
    BY <1>0, <2>2
  <2> QED
    BY <1>4, <2>1, <2>2 DEF Forward
<1>5. s[1] <= gvc'
  BY <1>0
<1> QED
  BY <1>0, <1>2, <1>3, <1>4, <1>5 DEF SeenOf

\* The place of a read-only transaction that no release overtook is that of its
\* snapshot.
LEMMA ReadOnlySeen ==
  ASSUME Inv, SerialInv, NEW t \in Thread, ~raced[t], NEW s \in Placed(t, rv[t])
  PROVE  SeenOf(s)
<1>1. PICK r \in reads[t] : s = <<rv[t], r[1], r[2]>>
  BY DEF Placed
<1>2. PastReads(t) /\ ClockOf(t) /\ rv[t] \in Nat /\ r[1] \in Addr
  BY DEF Inv, SerialInv, Clock, TypeOK
<1>3. /\ rv[t] <= gvc /\ IsValueAt(r[1], r[2], rv[t]) /\ Fresh(t, r[1])
  BY <1>2 DEF ClockOf, PastReads
<1>4. s[1] = rv[t] /\ s[2] = r[1] /\ s[3] = r[2]
  BY <1>1
<1> QED
  BY <1>2, <1>3, <1>4 DEF SeenOf, Fresh

\* The place of a read-write transaction that can no longer fail is before its
\* own write version.
CommittedPlaced ==
  \A t \in Thread : pc[t] \in CommitSteps => \A s \in Placed(t, wv[t] - 1) : SeenOf(s)

LEMMA CommittedSeen == Inv /\ SerialInv => CommittedPlaced
<1> SUFFICES ASSUME Inv, SerialInv, NEW t \in Thread, pc[t] \in CommitSteps,
                    NEW s \in Placed(t, wv[t] - 1)
             PROVE  SeenOf(s)
  BY DEF CommittedPlaced
<1>1. PICK r \in reads[t] : s = <<wv[t] - 1, r[1], r[2]>>
  BY DEF Placed
<1>2. /\ ClockOf(t) /\ Validation(t) /\ gvc \in Nat /\ r[1] \in Addr
      /\ \A u \in Thread : wv[u] \in Nat
  BY DEF Inv, SerialInv, Clock, TypeOK
<1>3. wv[t] # 0 /\ wv[t] <= gvc
  BY <1>2 DEF ClockOf, LateSteps, HasClock
<1>4. IsValueAt(r[1], r[2], wv[t] - 1)
  BY InvSerial DEF CommittedReadsSerial, ReadsAt
<1>5. \A u \in Thread : LockOf(r[1]) \in Owned(u) /\ HasClock(u) => wv[u] > wv[t] - 1
  <2>1. NoOlderOwner(t, r[1])
    BY <1>2 DEF Validation, Validated
  <2> QED
    BY <1>2, <2>1 DEF NoOlderOwner
<1>6. s[1] = wv[t] - 1 /\ s[2] = r[1] /\ s[3] = r[2]
  BY <1>1
<1>7. wv[t] - 1 \in Nat /\ wv[t] - 1 <= gvc
  BY <1>2, <1>3
<1> QED
  BY <1>2, <1>4, <1>5, <1>6, <1>7 DEF SeenOf

\* The step that makes a commit certain leaves alone what was read.
LEMMA CommitsKeepReads ==
  ASSUME TypeOK, NEW t \in Thread, Call(t) \/ Step(t), pc'[t] \in CommitSteps
  PROVE  reads'[t] = reads[t]
<1> USE DEF vars, sharedVars, callVars, histVars
<1>1. CASE \E segs \in {{}, txn_segs[t]} : DeleteTxn(t, segs)
  BY <1>1 DEF DeleteTxn, Set, TypeOK, CommitSteps
<1>2. CASE WordRead(t)
  BY <1>2 DEF WordRead, Set, TypeOK, CommitSteps
<1>3. CASE reads' = reads
  BY <1>3
<1>4. CASE Call(t)
  BY <1>1, <1>3, <1>4 DEF Call, tm_begin, tm_read, tm_write, tm_alloc, tm_free, tm_end
<1>5. CASE Step(t)
  <2>1. CASE GiveUp(t)
    BY <1>1, <1>3, <2>1 DEF GiveUp, Abort
  <2>2. ASSUME NEW a, CheckVersion(t, a) PROVE reads'[t] = reads[t]
    BY <1>3, <2>1, <2>2 DEF CheckVersion, Commit
  <2>3. CASE PreLocked(t) \/ PostLocked(t) \/ Splice(t) \/ \E l \in Lock : Unlock(t, l)
    BY <1>1, <1>2, <1>3, <2>3 DEF PreLocked, PostLocked, Splice, Unlock, Abort
  <2>4. CASE \/ PreVersion(t) \/ Copy(t) \/ PostVersion(t)
             \/ \E a \in Addr : LockTaken(t, a) \/ LockMine(t, a) \/ WriteBack(t, a)
             \/ IncrementClock(t) \/ SetVersion(t) \/ SpliceLock(t)
    BY <1>3, <2>4
    DEF PreVersion, Copy, PostVersion, LockTaken, LockMine, LockedWord, WriteBack, IncrementClock,
        Commit, SetVersion, SpliceLock
  <2>5. CASE \E a \in Addr : LockBusy(t, a) \/ ValidateLocked(t, a)
    BY <1>3, <2>1, <2>5 DEF LockBusy, ValidateLocked
  <2> QED
    BY <1>5, <2>2, <2>3, <2>4, <2>5 DEF Step, ValidateVersion, ValidateMine
<1> QED
  BY <1>4, <1>5

\* A step of a thread keeps the history explained, and explains what it adds.
LEMMA ThreadHistory ==
  ASSUME HistoryInv, TypeOK', (Inv /\ SerialInv)', NEW t \in Thread, Call(t) \/ Step(t), Remember
  PROVE  (\A s \in seen : SeenOf(s))'
<1>0. TypeOK /\ Inv /\ SerialInv
  BY DEF HistoryInv, Inv
<1>1. Forward(t)
  BY <1>0, ForwardStep
<1>2. ASSUME NEW s, SeenOf(s) PROVE SeenOf(s)'
  BY <1>0, <1>1, <1>2, SeenKept
<1>3. ASSUME NEW u \in Thread, Commits(u), NEW s \in Placed(u, wv'[u] - 1) PROVE SeenOf(s)'
  <2>1. u = t
    BY <1>1, <1>3 DEF Commits, Forward, Others
  <2>2. reads'[u] = reads[u]
    BY <1>0, <1>3, <2>1, CommitsKeepReads DEF Commits
  <2>3. (Inv /\ SerialInv => CommittedPlaced)'
    BY CommittedSeen, PTL
  <2>4. s \in Placed(u, wv[u] - 1)'
    BY <1>3, <2>2 DEF Placed
  <2> QED
    BY <1>3, <2>3, <2>4 DEF Commits, CommittedPlaced
<1>4. ASSUME NEW u \in Thread, EndsReadOnly(u), NEW s \in Placed(u, rv[u]) PROVE SeenOf(s)'
  BY <1>0, <1>2, <1>4, ReadOnlySeen DEF EndsReadOnly
<1>5. ASSUME NEW s \in seen' PROVE SeenOf(s)'
  <2>1. CASE s \in seen
    BY <1>2, <2>1 DEF HistoryInv
  <2>2. CASE s \in UNION {Placed(x, wv'[x] - 1) : x \in {u \in Thread : Commits(u)}}
    BY <1>3, <2>2
  <2>3. CASE s \in UNION {Placed(x, rv[x]) : x \in {u \in Thread : EndsReadOnly(u)}}
    BY <1>4, <2>3
  <2> QED
    BY <2>1, <2>2, <2>3 DEF Remember, Ending
<1> QED
  BY <1>5

LEMMA NextHistory ==
  ASSUME HistoryInv, ClashFree, NoWrap, [HistoryNext]_historyVars
  PROVE  HistoryInv'
<1>0. [Next]_vars
  BY DEF HistoryNext, historyVars
<1>1. (Inv /\ HeapInv /\ SerialInv)'
  BY <1>0, NextKeeps, NextKeepsSegs, NextValues, NextSerial DEF HeapInv, HistoryInv
<1>2. TypeOK'
  BY <1>1 DEF Inv
<1>3. ASSUME NEW t \in Thread, Call(t) \/ Step(t), Remember PROVE (\A s \in seen : SeenOf(s))'
  BY <1>1, <1>2, <1>3, ThreadHistory
<1>4. ASSUME UNCHANGED <<gvc, callVars, histVars>>, seen' = seen PROVE (\A s \in seen : SeenOf(s))'
  <2>1. \A u \in Thread : Owned(u)' = Owned(u) /\ (HasClock(u)' <=> HasClock(u))
    BY <1>4 DEF Owned, HasClock, callVars, endRegs
  <2> QED
    BY <1>4, <2>1 DEF HistoryInv, SeenOf, IsValueAt, callVars, endRegs, histVars
<1>5. ASSUME tm_destroy \/ Destroyed, Remember PROVE (\A s \in seen : SeenOf(s))'
  <2>1. UNCHANGED <<gvc, callVars, histVars>>
    BY <1>5 DEF tm_destroy, Destroyed, vars, sharedVars
  <2>2. \A u \in Thread : ~Commits(u) /\ ~EndsReadOnly(u)
    BY <2>1 DEF Commits, EndsReadOnly, callVars
  <2>3. seen' = seen
    BY <1>5, <2>2 DEF Remember, Ending
  <2> QED
    BY <1>4, <2>1, <2>3
<1>6. ASSUME UNCHANGED historyVars PROVE (\A s \in seen : SeenOf(s))'
  <2>1. UNCHANGED <<gvc, callVars, histVars>>
    BY <1>6 DEF historyVars, vars, sharedVars
  <2>2. seen' = seen
    BY <1>6 DEF historyVars
  <2> QED
    BY <1>4, <2>1, <2>2
<1> QED
  BY <1>1, <1>3, <1>5, <1>6 DEF HistoryNext, Next, HistoryInv

\* The whole execution is serializable: take the transactions that ended in the
\* order of their write versions, and the read-only ones that no release overtook
\* at their snapshots; each has read the memory left by the commits before it,
\* also those that tm_end made certain only after it had returned.
THEOREM ExecutionSerial ==
  ASSUME ClashFree, NoWrap
  PROVE  HistorySpec => []HistorySerial
<1>1. HistoryInit => HistoryInv
  BY InitInv, InitSegs, InitValues, InitSerial DEF HistoryInit, HistoryInv, HeapInv
<1>2. HistoryInv /\ [HistoryNext]_historyVars => HistoryInv'
  BY NextHistory
<1>3. HistoryInv => HistorySerial
  BY DEF HistoryInv, SeenOf, HistorySerial
<1> QED
  BY <1>1, <1>2, <1>3, PTL DEF HistorySpec

=============================================================================
