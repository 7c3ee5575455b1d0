-------------------------- MODULE ProducerConsumer --------------------------
(***************************************************************************)
(* The correct producer-consumer programs of sync-examples: procon2.c      *)
(* polls under a lock, procon3.c uses atomic counters, procon4.c waits on  *)
(* a condition variable and wakes the other thread after the release.      *)
(* They share the loop over runs, the ring buffer and the final check, so  *)
(* that one module stands for the three, and program is the one that runs. *)
(*                                                                         *)
(* The mutex and the condition variable of lock.c are external; a wait may *)
(* end spuriously.  The text of an item is copied in two parts, so that a  *)
(* copy may be seen half done.  Accesses are sequentially consistent.      *)
(***************************************************************************)
EXTENDS Naturals, Sequences

CONSTANTS
  RUNS,
  BUFFER_SIZE,
  MaxSpurious    \* bound: waits that end spuriously

ASSUME ProconAssumption ==
  /\ {RUNS, BUFFER_SIZE} \subseteq Nat \ {0}
  /\ MaxSpurious \in Nat

Threads == {"producer", "consumer"}

VARIABLES
  program,           \* "procon2", "procon3" or "procon4"
  pc,                \* where each thread is
  r,                 \* the run of each thread
  buffer,            \* the ring buffer, each item in two parts
  consumed,
  produced_until,
  consumed_until,
  holder,            \* who has the lock, or "none"
  spurious,          \* waits that ended spuriously so far
  verdict            \* what main() prints in the end

data == <<buffer, consumed>>
counters == <<produced_until, consumed_until>>
vars == <<program, pc, r, data, counters, holder, spurious, verdict>>

Empty == <<0, 0>>

\* Where a run begins.
Top == IF program = "procon3" THEN "check" ELSE "acquire"

Init ==
  /\ program \in {"procon2", "procon3", "procon4"}
  /\ pc = [t \in Threads |-> Top]
  /\ r = [t \in Threads |-> 0]
  /\ buffer = [i \in 0..(BUFFER_SIZE - 1) |-> Empty]
  /\ consumed = [i \in 0..(RUNS - 1) |-> Empty]
  /\ produced_until = 0
  /\ consumed_until = 0
  /\ holder = "none"
  /\ spurious = 0
  /\ verdict = "none"

Goto(t, from, to) ==
  /\ pc[t] = from
  /\ pc' = [pc EXCEPT ![t] = to]

\* The thread goes to its next run, or ends.
NextRun(t, from) ==
  /\ Goto(t, from, IF r[t] + 1 < RUNS THEN Top ELSE "done")
  /\ r' = [r EXCEPT ![t] = @ + 1]

-----------------------------------------------------------------------------
\* lock_acquire, also the one at the end of lock_wait.
Acquire(t) ==
  /\ Goto(t, "acquire", "check")
  /\ holder = "none"
  /\ holder' = t
  /\ UNCHANGED <<program, r, data, counters, spurious, verdict>>

\* Mutant of Can: the producer takes a slot before it is free.
CanProduceEarly(t) ==
  IF t = "producer" THEN consumed_until + BUFFER_SIZE >= r[t] ELSE produced_until > r[t]

\* Mutant of Can: the consumer takes an item before it is there.
CanConsumeEarly(t) ==
  IF t = "producer" THEN consumed_until + BUFFER_SIZE > r[t] ELSE produced_until >= r[t]

\* There is room for the run's item, or the item is there.
Can(t) ==
  IF t = "producer" THEN consumed_until + BUFFER_SIZE > r[t] ELSE produced_until > r[t]

\* The loop that waits for it ends...
Proceed(t) ==
  /\ Can(t)
  /\ Goto(t, "check", "first")
  /\ UNCHANGED <<program, r, data, counters, holder, spurious, verdict>>

\* ... or goes on: procon2 lets the lock go and polls again, procon4 calls
\* lock_wait.  In procon3 the loop only reads.
Retry(t) ==
  /\ ~Can(t)
  /\ \/ program = "procon2" /\ Goto(t, "check", "acquire")
     \/ program = "procon4" /\ Goto(t, "check", "waiting")
  /\ holder' = "none"
  /\ UNCHANGED <<program, r, data, counters, spurious, verdict>>

\* Copy one part of the run's item into the ring, or out of it.
Copy(t, part, from, to) ==
  LET slot == r[t] % BUFFER_SIZE
  IN  /\ Goto(t, from, to)
      /\ IF t = "producer"
           THEN buffer' = [buffer EXCEPT ![slot][part] = r[t] + 1] /\ UNCHANGED consumed
           ELSE consumed' = [consumed EXCEPT ![r[t]][part] = buffer[slot][part]] /\ UNCHANGED buffer
      /\ UNCHANGED <<program, r, counters, holder, spurious, verdict>>

CopyFirst(t) == Copy(t, 1, "first", "second")
CopySecond(t) == Copy(t, 2, "second", "publish")

\* Announce that the item is there, or that its slot is free.
Publish(t) ==
  /\ IF t = "producer"
       THEN produced_until' = produced_until + 1 /\ UNCHANGED consumed_until
       ELSE consumed_until' = consumed_until + 1 /\ UNCHANGED produced_until
  /\ IF program = "procon3"
       THEN NextRun(t, "publish")
       ELSE Goto(t, "publish", "release") /\ UNCHANGED r
  /\ UNCHANGED <<program, data, holder, spurious, verdict>>

Release(t) ==
  /\ holder' = "none"
  /\ IF program = "procon4"
       THEN Goto(t, "release", "wake") /\ UNCHANGED r
       ELSE NextRun(t, "release")
  /\ UNCHANGED <<program, data, counters, spurious, verdict>>

\* Mutant of WakeUp: nobody is woken.
WakeUpNot(t) ==
  /\ NextRun(t, "wake")
  /\ UNCHANGED <<program, data, counters, holder, spurious, verdict>>

\* lock_wake_up, without the lock: whoever waits goes for the lock.
WakeUp(t) ==
  /\ pc[t] = "wake"
  /\ r' = [r EXCEPT ![t] = @ + 1]
  /\ pc' = [u \in Threads |->
              IF u = t THEN (IF r[t] + 1 < RUNS THEN Top ELSE "done")
              ELSE IF pc[u] = "waiting" THEN "acquire" ELSE pc[u]]
  /\ UNCHANGED <<program, data, counters, holder, spurious, verdict>>

\* A wait ends without a wake-up.
SpuriousWake(t) ==
  /\ spurious < MaxSpurious
  /\ Goto(t, "waiting", "acquire")
  /\ spurious' = spurious + 1
  /\ UNCHANGED <<program, r, data, counters, holder, verdict>>

\* main() has joined both threads and compares what they noted.
Compare ==
  /\ \A t \in Threads : pc[t] = "done"
  /\ verdict' = IF \A i \in 0..(RUNS - 1) : consumed[i] = <<i + 1, i + 1>> THEN "correct" ELSE "wrong"
  /\ UNCHANGED <<program, pc, r, data, counters, holder, spurious>>

Thread(t) ==
  \/ Acquire(t)
  \/ Proceed(t)
  \/ Retry(t)
  \/ CopyFirst(t)
  \/ CopySecond(t)
  \/ Publish(t)
  \/ Release(t)
  \/ WakeUp(t)

Next ==
  \/ \E t \in Threads : Thread(t) \/ SpuriousWake(t)
  \/ Compare

Spec == Init /\ [][Next]_vars

\* The threads keep running.  The mutex is not a fair one.
FairSpec == Spec /\ WF_vars(Compare) /\ \A t \in Threads : WF_vars(Thread(t))

-----------------------------------------------------------------------------
Copying(t) == pc[t] \in {"first", "second", "publish"}

\* The two threads never work on the same slot of the ring, whether a lock keeps
\* them apart or, in procon3, only the counters do.
SlotsDisjoint ==
  Copying("producer") /\ Copying("consumer") =>
    r["producer"] % BUFFER_SIZE # r["consumer"] % BUFFER_SIZE

Whole(item) == IF item[1] = item[2] THEN item[1] ELSE 0

\* The three programs implement the bounded queue, although items are copied in
\* parts and the slots of the ring are used again: the queue is what lies between
\* the counters.
Abstract == INSTANCE BoundedBuffer WITH
  Items <- RUNS,
  Size <- BUFFER_SIZE,
  queue <- [i \in 1..(produced_until - consumed_until) |->
              Whole(buffer[(consumed_until + i - 1) % BUFFER_SIZE])],
  sent <- produced_until,
  got <- [i \in 1..consumed_until |-> Whole(consumed[i - 1])]

ImplementsBoundedBuffer == Abstract!BufferSpec

\* Where no thread polls under the lock, both threads end and main() finds what
\* was consumed correct: no wake-up is lost although it is given after the lock.
BothFinish == program # "procon2" => <>(verdict = "correct")

=============================================================================
