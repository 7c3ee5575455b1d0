----------------------------- MODULE AtomicLock -----------------------------
(***************************************************************************)
(* What a VersionedWriteLock promises to the transaction manager: an       *)
(* exclusive try-lock whose version only the holder can advance, and that  *)
(* an abandoned acquisition leaves as it found it.  A failed lock() is not *)
(* a step: it changes nothing.                                             *)
(***************************************************************************)
EXTENDS Naturals

CONSTANTS Threads, NoThread, MaxVersion

VARIABLES
  holder,    \* the thread that has the lock, or NoThread
  version    \* the version of the words the lock protects

avars == <<holder, version>>

AInit ==
  /\ holder = NoThread
  /\ version = 0

\* lock() returned true.
Acquire(t) ==
  /\ holder = NoThread
  /\ holder' = t
  /\ UNCHANGED version

\* unlock(): the transaction aborted, the protected words are unchanged.
Release(t) ==
  /\ holder = t
  /\ holder' = NoThread
  /\ UNCHANGED version

\* setVersion(v): the transaction wrote the protected words.
Publish(t, v) ==
  /\ holder = t
  /\ v > version
  /\ version' = v
  /\ holder' = NoThread

ANext ==
  \E t \in Threads :
    \/ Acquire(t)
    \/ Release(t)
    \/ \E v \in 1..MaxVersion : Publish(t, v)

ASpec == AInit /\ [][ANext]_avars

=============================================================================
