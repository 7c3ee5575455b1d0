----------------------- MODULE ProducerConsumerProofs -----------------------
(***************************************************************************)
(* Theorems about the producer-consumer examples, for any number of runs   *)
(* and any size of the ring: the counters alone keep the threads apart,    *)
(* and items go through whole, once and in order.                          *)
(***************************************************************************)
EXTENDS ProducerConsumer, SequenceTheorems, TLAPS

Slots == 0..(BUFFER_SIZE - 1)
RunSet == 0..(RUNS - 1)
Item == [1..2 -> Nat]

Steps ==
  {"acquire", "check", "waiting", "first", "second", "publish", "release", "wake", "done"}

Types ==
  /\ program \in {"procon2", "procon3", "procon4"}
  /\ pc \in [Threads -> Steps]
  /\ r \in [Threads -> Nat]
  /\ buffer \in [Slots -> Item]
  /\ consumed \in [RunSet -> Item]
  /\ produced_until \in Nat
  /\ consumed_until \in Nat
  /\ verdict \in {"none", "correct", "wrong"}

\* The items a thread has announced: those of its runs, and that of the run it
\* is about to leave.
Announced(t) == IF pc[t] \in {"release", "wake"} THEN r[t] + 1 ELSE r[t]

CountInv ==
  /\ produced_until = Announced("producer")
  /\ consumed_until = Announced("consumer")
  /\ consumed_until <= produced_until
  /\ produced_until <= consumed_until + BUFFER_SIZE
  /\ \A t \in Threads : pc[t] # "done" => r[t] < RUNS
  /\ \A t \in Threads : pc[t] = "done" => r[t] = RUNS
  /\ \A t \in Threads : pc[t] \in {"release", "wake"} => program # "procon3"
  /\ Copying("producer") => r["producer"] < consumed_until + BUFFER_SIZE
  /\ Copying("consumer") => r["consumer"] < produced_until

Holds(item, n) == item[1] = n /\ item[2] = n

\* The slots between the counters are filled, as is what was consumed, and a
\* part that a thread has copied stays as it is until the thread announces it.
DataInv ==
  /\ \A k \in Nat : consumed_until <= k /\ k < produced_until => Holds(buffer[k % BUFFER_SIZE], k + 1)
  /\ \A k \in Nat : k < consumed_until => Holds(consumed[k], k + 1)
  /\ LET p == r["producer"] IN
       /\ pc["producer"] = "second" => buffer[p % BUFFER_SIZE][1] = p + 1
       /\ pc["producer"] = "publish" => Holds(buffer[p % BUFFER_SIZE], p + 1)
  /\ LET c == r["consumer"] IN
       /\ pc["consumer"] = "second" => consumed[c][1] = c + 1
       /\ pc["consumer"] = "publish" => Holds(consumed[c], c + 1)

Inv == Types /\ CountInv /\ DataInv /\ verdict # "wrong"

-----------------------------------------------------------------------------
(***************************************************************************)
(* Slots of the ring.                                                      *)
(***************************************************************************)
LEMMA SlotOf == ASSUME NEW B \in Nat \ {0}, NEW x \in Nat PROVE x % B \in 0..(B - 1)
  OBVIOUS

\* Less than one turn of the ring apart, two numbers have different slots.
LEMMA SlotsDiffer ==
  ASSUME NEW B \in Nat \ {0}, NEW x \in Nat, NEW y \in Nat, x < y, y < x + B
  PROVE  x % B # y % B
  <1>1. /\ x = B * (x \div B) + (x % B) /\ x \div B \in Nat
        /\ y = B * (y \div B) + (y % B) /\ y \div B \in Nat
    OBVIOUS
  <1>2. PICK d \in Int : d = (y \div B) - (x \div B)
    BY <1>1
  <1>3. SUFFICES ASSUME x % B = y % B PROVE FALSE
    OBVIOUS
  <1>4. y - x = B * (y \div B) - B * (x \div B)
    BY <1>1, <1>3
  <1>5. B * (y \div B) - B * (x \div B) = B * d
    BY <1>1, <1>2
  <1>6. d >= 1 => B * d >= B
    OBVIOUS
  <1>7. d <= 0 => B * d <= 0
    OBVIOUS
  <1> QED
    BY <1>4, <1>5, <1>6, <1>7

-----------------------------------------------------------------------------
LEMMA InitInv == ASSUME Init PROVE Inv
  <1> USE ProconAssumption
  <1>1. Empty \in Item
    BY DEF Empty, Item
  <1>2. Types
    BY <1>1 DEF Init, Types, Threads, Steps, Slots, RunSet, Top
  <1>3. CountInv
    BY DEF Init, CountInv, Announced, Copying, Threads, Top
  <1>4. DataInv
    BY DEF Init, DataInv, Top, Threads
  <1> QED
    BY <1>2, <1>3, <1>4 DEF Inv, Init

\* Steps that touch neither the data nor the counters, nor begin a copy.
LEMMA WaitInv ==
  ASSUME Inv, NEW t \in Threads, Acquire(t) \/ Retry(t) \/ SpuriousWake(t) PROVE Inv'
  <1> USE ProconAssumption DEF Threads
  <1>1. /\ UNCHANGED <<program, r, data, counters, verdict>>
        /\ pc[t] \in {"acquire", "check", "waiting"}
        /\ \E s \in {"acquire", "check", "waiting"} : pc' = [pc EXCEPT ![t] = s]
    BY DEF Acquire, Retry, SpuriousWake, Goto
  <1>2. Types'
    BY <1>1 DEF Inv, Types, Steps, data, counters
  <1>3. CountInv'
    BY <1>1 DEF Inv, Types, CountInv, Announced, Copying, counters
  <1>4. DataInv'
    BY <1>1 DEF Inv, Types, DataInv, data, counters
  <1> QED
    BY <1>1, <1>2, <1>3, <1>4 DEF Inv

LEMMA ProceedInv ==
  ASSUME Inv, NEW t \in Threads, Proceed(t) PROVE Inv'
  <1> USE ProconAssumption DEF Threads
  <1>1. /\ UNCHANGED <<program, r, data, counters, verdict>>
        /\ pc[t] = "check" /\ pc' = [pc EXCEPT ![t] = "first"]
    BY DEF Proceed, Goto
  <1>2. Types'
    BY <1>1 DEF Inv, Types, Steps, data, counters
  <1>3. CountInv'
    BY <1>1 DEF Inv, Types, CountInv, Announced, Copying, counters, Proceed, Can
  <1>4. DataInv'
    BY <1>1 DEF Inv, Types, DataInv, data, counters
  <1> QED
    BY <1>1, <1>2, <1>3, <1>4 DEF Inv

\* One part of an item is copied.
LEMMA SetPart ==
  ASSUME NEW D, NEW d \in D, NEW f \in [D -> Item], NEW i \in 1..2, NEW v \in Nat,
         NEW g, g = [f EXCEPT ![d][i] = v]
  PROVE  /\ g \in [D -> Item]
         /\ g[d][i] = v
         /\ \A j \in 1..2 : j # i => g[d][j] = f[d][j]
         /\ \A e \in D : e # d => g[e] = f[e]
  BY DEF Item

LEMMA CopyInv ==
  ASSUME Inv, NEW t \in Threads, CopyFirst(t) \/ CopySecond(t) PROVE Inv'
  <1> USE ProconAssumption DEF Threads
  <1>1. PICK part \in 1..2, from \in {"first", "second"}, to \in {"second", "publish"} :
          /\ Copy(t, part, from, to)
          /\ \/ part = 1 /\ from = "first" /\ to = "second"
             \/ part = 2 /\ from = "second" /\ to = "publish"
    <2>1. CASE CopyFirst(t)
      BY <2>1 DEF CopyFirst
    <2>2. CASE CopySecond(t)
      BY <2>2 DEF CopySecond
    <2> QED
      BY <2>1, <2>2
  <1>2. /\ UNCHANGED <<program, r, counters, verdict>>
        /\ pc[t] = from /\ pc' = [pc EXCEPT ![t] = to]
    BY <1>1 DEF Copy, Goto
  <1>3. CountInv'
    BY <1>1, <1>2 DEF Inv, Types, CountInv, Announced, Copying, counters
  <1>4. r[t] \in RunSet /\ r[t] % BUFFER_SIZE \in Slots /\ r[t] \in Nat
    <2>1. r[t] \in Nat /\ r[t] < RUNS
      BY <1>1, <1>2 DEF Inv, Types, CountInv
    <2>2. r[t] % BUFFER_SIZE \in 0..(BUFFER_SIZE - 1)
      BY <2>1, SlotOf
    <2> QED
      BY <2>1, <2>2 DEF RunSet, Slots
  <1>5. CASE t = "producer"
    <2>1. buffer' = [buffer EXCEPT ![r[t] % BUFFER_SIZE][part] = r[t] + 1] /\ UNCHANGED consumed
      BY <1>1, <1>5 DEF Copy
    <2>2. /\ buffer' \in [Slots -> Item]
          /\ buffer'[r[t] % BUFFER_SIZE][part] = r[t] + 1
          /\ \A j \in 1..2 : j # part => buffer'[r[t] % BUFFER_SIZE][j] = buffer[r[t] % BUFFER_SIZE][j]
          /\ \A e \in Slots : e # r[t] % BUFFER_SIZE => buffer'[e] = buffer[e]
      BY <2>1, <1>4, SetPart DEF Inv, Types
    <2>3. Types'
      BY <1>2, <2>1, <2>2 DEF Inv, Types, Steps, counters
    <2>4. produced_until = r[t] /\ r[t] < consumed_until + BUFFER_SIZE
      BY <1>1, <1>2, <1>5 DEF Inv, CountInv, Announced, Copying
    <2>5. \A k \in Nat : consumed_until <= k /\ k < produced_until =>
            k % BUFFER_SIZE \in Slots /\ k % BUFFER_SIZE # r[t] % BUFFER_SIZE
      <3> TAKE k \in Nat
      <3> HAVE consumed_until <= k /\ k < produced_until
      <3>1. k < r[t] /\ r[t] < k + BUFFER_SIZE
        BY <1>4, <2>4 DEF Inv, Types
      <3>2. k % BUFFER_SIZE # r[t] % BUFFER_SIZE
        BY <1>4, <3>1, SlotsDiffer
      <3> QED
        BY <3>2, SlotOf DEF Slots
    <2>6. \A k \in Nat : consumed_until <= k /\ k < produced_until => Holds(buffer'[k % BUFFER_SIZE], k + 1)
      BY <2>2, <2>5 DEF Inv, DataInv
    <2>7. /\ pc'["producer"] = to /\ pc'["consumer"] = pc["consumer"]
          /\ part = 2 => buffer[r[t] % BUFFER_SIZE][1] = r[t] + 1
      BY <1>1, <1>2, <1>5 DEF Inv, Types, DataInv
    <2>8. DataInv'
      BY <1>1, <1>2, <1>5, <2>1, <2>2, <2>6, <2>7 DEF Inv, DataInv, Holds, counters
    <2> QED
      BY <1>2, <1>3, <2>3, <2>8 DEF Inv
  <1>6. CASE t = "consumer"
    <2>0. consumed_until = r[t] /\ r[t] < produced_until
      BY <1>1, <1>2, <1>6 DEF Inv, CountInv, Announced, Copying
    <2>1. consumed' = [consumed EXCEPT ![r[t]][part] = buffer[r[t] % BUFFER_SIZE][part]] /\ UNCHANGED buffer
      BY <1>1, <1>6 DEF Copy
    <2>2. buffer[r[t] % BUFFER_SIZE][part] = r[t] + 1
      <3>0. PICK k \in Nat : k = r[t]
        BY <1>4
      <3>1. Holds(buffer[k % BUFFER_SIZE], k + 1)
        BY <2>0, <3>0 DEF Inv, DataInv
      <3> QED
        BY <3>0, <3>1 DEF Holds
    <2>3. /\ consumed' \in [RunSet -> Item]
          /\ consumed'[r[t]][part] = r[t] + 1
          /\ \A j \in 1..2 : j # part => consumed'[r[t]][j] = consumed[r[t]][j]
          /\ \A e \in RunSet : e # r[t] => consumed'[e] = consumed[e]
      <3>1. consumed' = [consumed EXCEPT ![r[t]][part] = r[t] + 1]
        BY <2>1, <2>2
      <3>2. PICK v \in Nat, d \in RunSet : v = r[t] + 1 /\ d = r[t]
        BY <1>4
      <3>3. consumed \in [RunSet -> Item] /\ consumed' = [consumed EXCEPT ![d][part] = v]
        BY <3>1, <3>2 DEF Inv, Types
      <3>4. /\ consumed' \in [RunSet -> Item]
            /\ consumed'[d][part] = v
            /\ \A j \in 1..2 : j # part => consumed'[d][j] = consumed[d][j]
            /\ \A e \in RunSet : e # d => consumed'[e] = consumed[e]
        BY <3>3 DEF Item
      <3> QED
        BY <3>2, <3>4
    <2>4. Types'
      BY <1>2, <2>1, <2>3 DEF Inv, Types, Steps, counters
    <2>5. \A k \in Nat : k < consumed_until => k \in RunSet /\ k # r[t]
      BY <1>4, <2>0 DEF RunSet
    <2>6. \A k \in Nat : k < consumed_until => Holds(consumed'[k], k + 1)
      BY <2>3, <2>5 DEF Inv, DataInv
    <2>7. /\ pc'["consumer"] = to /\ pc'["producer"] = pc["producer"]
          /\ part = 2 => consumed[r[t]][1] = r[t] + 1
      BY <1>1, <1>2, <1>6 DEF Inv, Types, DataInv
    <2>8. DataInv'
      BY <1>1, <1>2, <1>6, <2>1, <2>3, <2>6, <2>7 DEF Inv, DataInv, Holds, counters
    <2> QED
      BY <1>2, <1>3, <2>4, <2>8 DEF Inv
  <1> QED
    BY <1>5, <1>6

LEMMA PublishInv ==
  ASSUME Inv, NEW t \in Threads, Publish(t) PROVE Inv'
  <1> USE ProconAssumption DEF Threads
  <1>1. /\ pc[t] = "publish" /\ UNCHANGED <<program, data, verdict>>
        /\ \/ program # "procon3" /\ pc' = [pc EXCEPT ![t] = "release"] /\ r' = r
           \/ /\ program = "procon3" /\ r' = [r EXCEPT ![t] = r[t] + 1]
              /\ pc' = [pc EXCEPT ![t] = IF r[t] + 1 < RUNS THEN "check" ELSE "done"]
    BY DEF Publish, NextRun, Goto, Top
  <1>2. IF t = "producer"
          THEN produced_until' = produced_until + 1 /\ consumed_until' = consumed_until
          ELSE consumed_until' = consumed_until + 1 /\ produced_until' = produced_until
    BY DEF Publish
  <1>3. Types'
    BY <1>1, <1>2 DEF Inv, Types, Steps, data
  <1>4. CountInv'
    <2>1. r[t] < RUNS /\ r[t] \in Nat
      BY <1>1 DEF Inv, Types, CountInv
    <2>2. CASE program # "procon3"
      BY <1>1, <1>2, <2>1, <2>2 DEF Inv, Types, CountInv, Announced, Copying
    <2>3. CASE program = "procon3"
      BY <1>1, <1>2, <2>1, <2>3 DEF Inv, Types, CountInv, Announced, Copying
    <2> QED
      BY <2>2, <2>3
  <1>5. DataInv'
    <2>1. /\ pc'[t] \notin {"second", "publish"}
          /\ \A u \in Threads : u # t => pc'[u] = pc[u] /\ r'[u] = r[u]
      BY <1>1 DEF Inv, Types
    <2>2. CASE t = "producer"
      <3>1. produced_until = r[t] /\ Holds(buffer[r[t] % BUFFER_SIZE], r[t] + 1) /\ r[t] \in Nat
        BY <1>1, <2>2 DEF Inv, Types, CountInv, Announced, DataInv
      <3>2. ASSUME NEW k \in Nat, consumed_until' <= k, k < produced_until'
            PROVE  Holds(buffer'[k % BUFFER_SIZE], k + 1)
        <4>1. CASE k = r[t]
          BY <1>1, <3>1, <4>1 DEF data
        <4>2. CASE k # r[t]
          <5>1. consumed_until <= k /\ k < produced_until
            BY <1>2, <2>2, <3>1, <3>2, <4>2
          <5> QED
            BY <1>1, <5>1 DEF Inv, DataInv, data
        <4> QED
          BY <4>1, <4>2
      <3> QED
        BY <1>1, <1>2, <2>1, <2>2, <3>2 DEF Inv, DataInv, data
    <2>3. CASE t = "consumer"
      <3>1. consumed_until = r[t] /\ Holds(consumed[r[t]], r[t] + 1) /\ r[t] \in Nat
        BY <1>1, <2>3 DEF Inv, Types, CountInv, Announced, DataInv
      <3> QED
        BY <1>1, <1>2, <2>1, <2>3, <3>1 DEF Inv, Types, DataInv, data
    <2> QED
      BY <2>2, <2>3
  <1> QED
    BY <1>1, <1>3, <1>4, <1>5 DEF Inv

LEMMA ReleaseInv ==
  ASSUME Inv, NEW t \in Threads, Release(t) \/ WakeUp(t) PROVE Inv'
  <1> USE ProconAssumption DEF Threads
  <1>1. /\ UNCHANGED <<program, data, counters, verdict>> /\ pc[t] \in {"release", "wake"}
        /\ \/ r' = r /\ pc'[t] = "wake" /\ program = "procon4"
           \/ /\ r' = [r EXCEPT ![t] = r[t] + 1]
              /\ pc'[t] = IF r[t] + 1 < RUNS THEN Top ELSE "done"
        /\ pc' \in [Threads -> Steps]
        /\ \A u \in Threads : u # t => pc'[u] = pc[u] \/ (pc[u] = "waiting" /\ pc'[u] = "acquire")
    <2>1. Top \in {"check", "acquire"}
      BY DEF Top
    <2>2. CASE Release(t)
      BY <2>1, <2>2 DEF Release, NextRun, Goto, Inv, Types, Steps
    <2>3. CASE WakeUp(t)
      BY <2>1, <2>3 DEF WakeUp, Inv, Types, Steps
    <2> QED
      BY <2>2, <2>3
  <1>2. Types'
    BY <1>1 DEF Inv, Types, data, counters
  <1>3. Top \in {"check", "acquire"} /\ r[t] < RUNS /\ r[t] \in Nat
    BY <1>1 DEF Top, Inv, CountInv, Types
  <1>4. CountInv'
    BY <1>1, <1>3 DEF Inv, Types, CountInv, Announced, Copying, counters
  <1>5. DataInv'
    BY <1>1, <1>3 DEF Inv, Types, DataInv, data, counters
  <1> QED
    BY <1>1, <1>2, <1>4, <1>5 DEF Inv

LEMMA CompareInv == ASSUME Inv, Compare PROVE Inv'
  <1> USE ProconAssumption
  <1>1. consumed_until = RUNS
    BY DEF Compare, Inv, CountInv, Announced, Threads
  <1>2. ASSUME NEW i \in RunSet PROVE consumed[i] = <<i + 1, i + 1>>
    <2>1. consumed[i] \in Item /\ i + 1 \in Nat /\ consumed[i][1] = i + 1 /\ consumed[i][2] = i + 1
      BY <1>1 DEF Inv, Types, DataInv, Holds, RunSet
    <2> QED
      BY <2>1 DEF Item
  <1>3. verdict' = "correct"
    BY <1>2 DEF Compare, RunSet
  <1> QED
    BY <1>3 DEF Compare, Inv, Types, CountInv, Announced, Copying, DataInv, data, counters

LEMMA StutterInv == ASSUME Inv, UNCHANGED vars PROVE Inv'
  BY DEF Inv, Types, CountInv, Announced, Copying, DataInv, vars, data, counters

LEMMA NextInv == ASSUME Inv, [Next]_vars PROVE Inv'
  BY WaitInv, ProceedInv, CopyInv, PublishInv, ReleaseInv, CompareInv, StutterInv DEF Next, Thread

\* What the counters and the ring of procon2.c, procon3.c and procon4.c keep, with
\* or without a lock; in particular main() never prints that they went wrong.
THEOREM Invariance == Spec => []Inv
  BY InitInv, NextInv, PTL DEF Spec

\* The threads of sync-examples never copy to and from the same slot, for any
\* size of the ring: the counters keep them less than one turn apart.
THEOREM Disjoint == Spec => []SlotsDisjoint
  <1>1. ASSUME Inv, Copying("producer"), Copying("consumer")
        PROVE  r["producer"] % BUFFER_SIZE # r["consumer"] % BUFFER_SIZE
    <2>1. /\ r["producer"] \in Nat /\ r["consumer"] \in Nat
          /\ r["producer"] = produced_until /\ r["consumer"] = consumed_until
          /\ r["consumer"] < r["producer"] /\ r["producer"] < r["consumer"] + BUFFER_SIZE
      BY <1>1 DEF Inv, Types, CountInv, Announced, Copying, Threads
    <2> QED
      BY <2>1, SlotsDiffer, ProconAssumption
  <1>2. Inv => SlotsDisjoint
    BY <1>1 DEF SlotsDisjoint
  <1> QED
    BY <1>2, Invariance, PTL

-----------------------------------------------------------------------------
(***************************************************************************)
(* The bounded queue.                                                      *)
(***************************************************************************)
\* The numbers of n items after the first c.
Numbers(c, n) == [i \in 1..n |-> c + i]

Queue ==
  [i \in 1..(produced_until - consumed_until) |->
     Whole(buffer[(consumed_until + i - 1) % BUFFER_SIZE])]
Taken == [i \in 1..consumed_until |-> Whole(consumed[i - 1])]

\* What is under way, and what was taken, are the items in order.
LEMMA QueueIs ==
  Inv => /\ Queue = Numbers(consumed_until, produced_until - consumed_until)
         /\ Taken = Numbers(0, consumed_until)
         /\ produced_until - consumed_until \in Nat
         /\ consumed_until \in Nat
  <1> SUFFICES ASSUME Inv
               PROVE  /\ Queue = Numbers(consumed_until, produced_until - consumed_until)
                      /\ Taken = Numbers(0, consumed_until)
                      /\ produced_until - consumed_until \in Nat
                      /\ consumed_until \in Nat
    OBVIOUS
  <1>1. consumed_until \in Nat /\ produced_until \in Nat /\ consumed_until <= produced_until
    BY DEF Inv, Types, CountInv
  <1>2. ASSUME NEW i \in 1..(produced_until - consumed_until)
        PROVE  Whole(buffer[(consumed_until + i - 1) % BUFFER_SIZE]) = consumed_until + i
    <2>1. PICK k \in Nat : k = consumed_until + i - 1
      BY <1>1
    <2>2. Holds(buffer[k % BUFFER_SIZE], k + 1)
      BY <1>1, <2>1 DEF Inv, DataInv
    <2> QED
      BY <1>1, <2>1, <2>2 DEF Holds, Whole
  <1>3. ASSUME NEW i \in 1..consumed_until PROVE Whole(consumed[i - 1]) = 0 + i
    <2>1. PICK k \in Nat : k = i - 1 /\ k < consumed_until
      BY <1>1
    <2>2. Holds(consumed[k], k + 1)
      BY <2>1 DEF Inv, DataInv
    <2> QED
      BY <1>1, <2>1, <2>2 DEF Holds, Whole
  <1> QED
    BY <1>1, <1>2, <1>3 DEF Queue, Taken, Numbers

LEMMA QueueIsNext ==
  Inv' => /\ Queue' = Numbers(consumed_until', produced_until' - consumed_until')
          /\ Taken' = Numbers(0, consumed_until')
  <1>1. (Inv => /\ Queue = Numbers(consumed_until, produced_until - consumed_until)
                /\ Taken = Numbers(0, consumed_until)
                /\ produced_until - consumed_until \in Nat
                /\ consumed_until \in Nat)'
    BY QueueIs, PTL
  <1> QED
    BY <1>1 DEF Numbers

LEMMA NumbersAppend ==
  ASSUME NEW c \in Nat, NEW n \in Nat
  PROVE  /\ Append(Numbers(c, n), c + n + 1) = Numbers(c, n + 1)
         /\ Len(Numbers(c, n)) = n
  BY DEF Numbers

LEMMA NumbersTail ==
  ASSUME NEW c \in Nat, NEW n \in Nat \ {0}
  PROVE  /\ Tail(Numbers(c, n)) = Numbers(c + 1, n - 1)
         /\ Head(Numbers(c, n)) = c + 1
         /\ Numbers(c, n) # <<>>
  BY DEF Numbers

LEMMA PublishBuffer ==
  ASSUME Inv, Inv', NEW t \in Threads, Publish(t)
  PROVE  Abstract!Put \/ Abstract!Get
  <1> USE ProconAssumption DEF Threads
  <1>0. PICK c \in Nat, n \in Nat : c = consumed_until /\ n = produced_until - consumed_until
    BY QueueIs
  <1>1. Queue = Numbers(c, n) /\ Taken = Numbers(0, c) /\ produced_until = c + n
    BY <1>0, QueueIs DEF Inv, Types
  <1>2. CASE t = "producer"
    <2>1. consumed_until' = c /\ produced_until' = produced_until + 1
      BY <1>0, <1>2 DEF Publish
    <2>2. Queue' = Numbers(c, n + 1) /\ Taken' = Numbers(0, c)
      <3>1. produced_until' - consumed_until' = n + 1
        BY <1>1, <2>1
      <3> QED
        BY <2>1, <3>1, QueueIsNext
    <2>3. n < BUFFER_SIZE /\ produced_until < RUNS
      <3>1. Copying("producer") /\ pc["producer"] = "publish"
        BY <1>2 DEF Publish, Copying, NextRun, Goto
      <3>2. r["producer"] = produced_until /\ r["producer"] < consumed_until + BUFFER_SIZE /\ r["producer"] < RUNS
        BY <3>1 DEF Inv, CountInv, Announced
      <3> QED
        BY <1>0, <1>1, <3>2
    <2>4. Queue' = Append(Queue, produced_until + 1) /\ Len(Queue) = n
      BY <1>1, <2>2, NumbersAppend
    <2> QED
      BY <1>1, <2>1, <2>2, <2>3, <2>4 DEF Abstract!Put, Queue, Taken
  <1>3. CASE t = "consumer"
    <2>1. consumed_until' = c + 1 /\ produced_until' = produced_until
      BY <1>0, <1>3 DEF Publish
    <2>2. n # 0
      <3>1. Copying("consumer") /\ pc["consumer"] = "publish"
        BY <1>3 DEF Publish, Copying, NextRun, Goto
      <3>2. r["consumer"] = consumed_until /\ r["consumer"] < produced_until
        BY <3>1 DEF Inv, CountInv, Announced
      <3> QED
        BY <1>0, <1>1, <3>2
    <2>3. Queue' = Numbers(c + 1, n - 1) /\ Taken' = Numbers(0, c + 1)
      <3>1. produced_until' - consumed_until' = n - 1
        BY <1>1, <2>1
      <3> QED
        BY <2>1, <3>1, QueueIsNext
    <2>4. Queue # <<>> /\ Queue' = Tail(Queue) /\ Head(Queue) = c + 1
      BY <1>1, <2>2, <2>3, NumbersTail
    <2>5. Taken' = Append(Taken, c + 1)
      <3>1. Append(Numbers(0, c), c + 1) = Numbers(0, c + 1)
        BY DEF Numbers
      <3> QED
        BY <1>1, <2>3, <3>1, Zenon
    <2> QED
      BY <2>1, <2>4, <2>5 DEF Abstract!Get, Queue, Taken
  <1> QED
    BY <1>2, <1>3

LEMMA OtherBuffer ==
  ASSUME Inv, Inv', UNCHANGED counters PROVE UNCHANGED Abstract!bufferVars
  <1>1. Queue' = Queue /\ Taken' = Taken
    BY QueueIs, QueueIsNext DEF counters
  <1> QED
    BY <1>1 DEF Abstract!bufferVars, Queue, Taken, counters

LEMMA NextBuffer ==
  ASSUME Inv, Inv', [Next]_vars PROVE [Abstract!Put \/ Abstract!Get]_(Abstract!bufferVars)
  <1>1. ASSUME NEW t \in Threads, Publish(t) PROVE Abstract!Put \/ Abstract!Get
    BY <1>1, PublishBuffer
  <1>2. \/ \E t \in Threads : Publish(t)
        \/ UNCHANGED counters
    BY DEF Next, Thread, Acquire, Proceed, Retry, CopyFirst, CopySecond, Copy, Release, WakeUp, SpuriousWake,
           Compare, vars
  <1> QED
    BY <1>1, <1>2, OtherBuffer

LEMMA InitBuffer == ASSUME Init PROVE Abstract!BufferInit
  <1>1. Queue = <<>> /\ Taken = <<>>
    BY DEF Init, Queue, Taken
  <1> QED
    BY <1>1 DEF Init, Abstract!BufferInit, Queue, Taken

\* The producer and the consumer of sync-examples implement a bounded queue: every
\* item arrives whole, once and in its turn, although it is copied in parts into
\* slots that are used again, whichever way the three programs wait.
THEOREM ProconIsBoundedBuffer == Spec => ImplementsBoundedBuffer
  BY InitBuffer, NextBuffer, Invariance, PTL DEF Spec, ImplementsBoundedBuffer, Abstract!BufferSpec

=============================================================================
