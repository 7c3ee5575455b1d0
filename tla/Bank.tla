-------------------------------- MODULE Bank --------------------------------
(***************************************************************************)
(* The bank workload of grading/workload.hpp, run by the workers of the    *)
(* grading program through the wrapper of grading/transactional.hpp: init, *)
(* run (long, allocation and short transactions) and check (a counter that *)
(* all workers decrease, between the rounds of a barrier).                 *)
(*                                                                         *)
(* The transactional library is external.  A transaction that commits is   *)
(* one step.  An attempt that aborts is a step where it leaves a trace:    *)
(* the closure of short_tx changes variables outside of it, those of the   *)
(* others do not.  Since the workload is there to judge libraries, lib may *)
(* also be "faulty": what its checks and its counter transactions read is  *)
(* then arbitrary.  Any library may run out of memory, which is an         *)
(* exception in the workload.                                              *)
(*                                                                         *)
(* The linked list of segments in shared memory is a sequence.  In check   *)
(* the first word of the memory is the counter, and the accounts are       *)
(* forgotten.  GradingSync shows that the rounds do not overlap and that a *)
(* round starts only if the one before did not fail.                       *)
(***************************************************************************)
EXTENDS Barrier, Integers, SequencesExt

CONSTANTS
  Leader,        \* the worker with uid 0
  nbaccounts,    \* initial number of accounts, and accounts per segment
  init_balance,
  Triggers,      \* what the draw for alloc_tx can return
  MaxSegments,   \* bound: segments the memory has room for
  nbtxperwrk,    \* transactions per worker in run
  nbchecks,      \* transactions per worker in check, 100 in the build
  SizeSpan       \* number of values of a size_t

ASSUME BankAssumption ==
  /\ Leader \in Threads
  /\ {nbaccounts, nbtxperwrk, nbchecks} \subseteq Nat \ {0}
  /\ init_balance \in Nat
  /\ Triggers \subseteq Nat
  /\ MaxSegments \in Nat \ {0}
  /\ SizeSpan \in Nat
  /\ SizeSpan > nbchecks * cardinal
  /\ MaxRounds >= 3

VARIABLES
  lib,         \* the library: "atomic" or "faulty"
  round,       \* "init", "run" or "check"
  segs,        \* the segments, in the order of the list
  counter,     \* first word of the memory, in check
  at,          \* where each worker is
  error,       \* the workers whose part of the round returned a message
  threw,       \* the workers that an exception took out of their part
  ntx,         \* transactions a worker has done in the round
  count,       \* run: number of accounts last seen
  send_id,     \* short_tx: the parameters, as the closure left them
  recv_id,
  lastval      \* check: value of the counter last read

libVars == <<lib, threw>>
runVars == <<count, send_id, recv_id>>
barrierVars == <<step, mode, pc, arrived, left>>

\* History: the accounts a short transaction was asked for, and whether a worker's
\* last one transferred between others.
VARIABLES asked, astray

histVars == <<asked, astray>>

bankVars == <<barrierVars, libVars, round, segs, counter, at, error, ntx, runVars, lastval, histVars>>

Account == 0..(nbaccounts - 1)

EmptySegment == [count |-> 0, parity |-> 0, accounts |-> [i \in Account |-> 0]]

BankInit ==
  /\ Init
  /\ lib \in {"atomic", "faulty"}
  /\ round = "init"
  /\ segs = <<EmptySegment>>
  /\ counter = 0
  /\ at = [w \in Threads |-> "init"]
  /\ error = {}
  /\ threw = {}
  /\ ntx = [w \in Threads |-> 0]
  /\ count = [w \in Threads |-> nbaccounts]
  /\ send_id = [w \in Threads |-> 0]
  /\ recv_id = [w \in Threads |-> 0]
  /\ lastval = [w \in Threads |-> 0]
  /\ asked = [w \in Threads |-> <<0, 0>>]
  /\ astray = [w \in Threads |-> FALSE]

At(w, from, to) ==
  /\ at[w] = from
  /\ at' = [at EXCEPT ![w] = to]

\* The worker's part of the round returns: nullptr, or an error message.
Return(w, from, correct) ==
  /\ At(w, from, "done")
  /\ error' = IF correct THEN error ELSE error \cup {w}

\* An exception of the library leaves the worker's part of the round; bound: once.
Throw(w, from) ==
  /\ threw = {}
  /\ At(w, from, "done")
  /\ threw' = {w}

\* What a transaction may report of a condition on the shared memory.
Seen(cond) == IF lib = "atomic" THEN {cond} ELSE BOOLEAN

\* What a transaction may read where the shared memory has v.
SeenValue(v) == IF lib = "atomic" THEN {v} ELSE 0..(SizeSpan - 1)

\* The next round, when every worker is done and none failed.
StartRound ==
  /\ \A w \in Threads : at[w] = "done"
  /\ error = {}
  /\ threw = {}
  /\ \/ round = "init" /\ round' = "run" /\ UNCHANGED segs
     \/ round = "run" /\ round' = "check" /\ segs' = <<>>
  /\ at' = [w \in Threads |-> round']
  /\ ntx' = [w \in Threads |-> 0]
  /\ count' = [w \in Threads |-> nbaccounts]
  /\ asked' = [w \in Threads |-> <<0, 0>>]
  /\ astray' = [w \in Threads |-> FALSE]
  /\ send_id' = [w \in Threads |-> 0]
  /\ recv_id' = [w \in Threads |-> 0]
  /\ UNCHANGED <<barrierVars, libVars, counter, error, lastval>>

-----------------------------------------------------------------------------
(***************************************************************************)
(* init: two transactions, made by every worker.                           *)
(***************************************************************************)
InitWrite(w) ==
  /\ At(w, "init", "init_check")
  /\ segs' = [segs EXCEPT ![1].count = nbaccounts,
                          ![1].accounts = [i \in Account |-> init_balance]]
  /\ UNCHANGED <<barrierVars, libVars, round, counter, error, ntx, runVars, lastval, histVars>>

InitCheck(w) ==
  /\ at[w] = "init_check"
  /\ \E correct \in Seen(segs[1].accounts[0] = init_balance) : Return(w, "init_check", correct)
  /\ UNCHANGED <<barrierVars, libVars, round, segs, counter, ntx, runVars, lastval, histVars>>

-----------------------------------------------------------------------------
(***************************************************************************)
(* run.                                                                    *)
(***************************************************************************)
Allocated(s) == 0..(s.count - 1)

AddUp(s) == FoldLeft(+, 0, s)

\* The number of accounts in the first j segments.
Before(j) == AddUp([i \in 1..j |-> segs[i].count])

Total == Before(Len(segs))

\* What long_tx adds up: for each segment, its parity and the accounts in use.
Held(s) == s.parity + AddUp([i \in 1..s.count |-> s.accounts[i - 1]])
Sum == AddUp([j \in DOMAIN segs |-> Held(segs[j])])

\* What long_tx returns.
Consistent ==
  /\ \A j \in DOMAIN segs : \A i \in Allocated(segs[j]) : segs[j].accounts[i] >= 0
  /\ Sum = init_balance * Total

\* One more transaction of the worker is done.
Counted(w) ==
  /\ ntx[w] < nbtxperwrk
  /\ ntx' = [ntx EXCEPT ![w] = @ + 1]

LongTx(w) ==
  /\ at[w] = "run"
  /\ Counted(w)
  /\ \E correct \in Seen(Consistent) :
       \/ correct /\ At(w, "run", "run") /\ UNCHANGED error
       \/ ~correct /\ Return(w, "run", FALSE)
  /\ count' = [count EXCEPT ![w] = Total]
  /\ UNCHANGED <<barrierVars, libVars, round, segs, counter, send_id, recv_id, lastval, histVars>>

\* The last long transaction, then the end of run and of its locals.
LastLongTx(w) ==
  /\ at[w] = "run"
  /\ ntx[w] = nbtxperwrk
  /\ \E correct \in Seen(Consistent) : Return(w, "run", correct)
  /\ count' = [count EXCEPT ![w] = nbaccounts]
  /\ UNCHANGED <<barrierVars, libVars, round, segs, counter, ntx, send_id, recv_id, lastval, histVars>>

\* Mutant of RemoveAccount: the balance of the removed account is lost.
RemoveAccountLoses ==
  LET n == Len(segs)
      s == segs[n]
  IN  IF s.count > 1
        THEN segs' = [segs EXCEPT ![n].count = @ - 1]
        ELSE segs' = SubSeq(segs, 1, n - 1)

\* Remove the last account of the last segment, and the segment with its last
\* account; what the account had above the initial balance goes to the parity.
RemoveAccount ==
  LET n == Len(segs)
      s == segs[n]
      parity == s.parity + s.accounts[s.count - 1] - init_balance
  IN  IF s.count > 1
        THEN segs' = [segs EXCEPT ![n].count = @ - 1, ![n].parity = parity]
        ELSE segs' = [SubSeq(segs, 1, n - 1) EXCEPT ![n - 1].parity = @ + parity]

\* The segments as alloc_tx has left them when it asks for memory: it has written
\* nothing on its way to the end of the list.
BeforeAlloc == segs

\* Add an account to the last segment, or a segment with one account.
AddAccount ==
  LET n == Len(segs)
      c == segs[n].count
  IN  \/ /\ c < nbaccounts
         /\ segs' = [segs EXCEPT ![n].accounts[c] = init_balance, ![n].count = c + 1]
      \/ /\ c >= nbaccounts
         /\ n < MaxSegments
         /\ segs' = Append(BeforeAlloc, [EmptySegment EXCEPT !.count = 1, !.accounts[0] = init_balance])

AllocTx(w, trigger) ==
  /\ Counted(w)
  /\ At(w, "run", "run")
  /\ IF Total > trigger /\ Total > 2 THEN RemoveAccount ELSE AddAccount
  /\ UNCHANGED <<barrierVars, libVars, round, counter, error, runVars, lastval, histVars>>

\* alloc_tx finds no memory for a segment.  The destructor of the transaction
\* commits what the closure did before the exception.
AllocThrows(w, trigger) ==
  /\ Throw(w, "run")
  /\ ntx[w] < nbtxperwrk
  /\ Len(segs) = MaxSegments
  /\ Last(segs).count >= nbaccounts
  /\ ~(Total > trigger /\ Total > 2)
  /\ segs' = BeforeAlloc
  /\ count' = [count EXCEPT ![w] = nbaccounts]
  /\ UNCHANGED <<barrierVars, lib, round, counter, error, ntx, send_id, recv_id, lastval, histVars>>

\* The call of short_tx with two draws.
ShortTx(w, s, r) ==
  /\ ntx[w] < nbtxperwrk
  /\ {s, r} \subseteq 0..(count[w] - 1)
  /\ At(w, "run", "short")
  /\ send_id' = [send_id EXCEPT ![w] = s]
  /\ recv_id' = [recv_id EXCEPT ![w] = r]
  /\ asked' = [asked EXCEPT ![w] = <<s, r>>]
  /\ astray' = [astray EXCEPT ![w] = FALSE]
  /\ UNCHANGED <<barrierVars, libVars, round, segs, counter, error, ntx, count, lastval>>

\* The value that a walk over the first k segments leaves in an index: less
\* the accounts of the segments visited before the one that has the account.
Walk(id, k) == id - Before(CHOOSE j \in 0..k : /\ Before(j) <= id
                                               /\ j < k => id < Before(j + 1))

\* An attempt of short_tx that aborts in or after the k-th segment: the closure
\* works on the parameters themselves, so the next attempt starts with them.
ShortAbort(w, k) ==
  /\ at[w] = "short"
  /\ send_id' = [send_id EXCEPT ![w] = Walk(@, k)]
  /\ recv_id' = [recv_id EXCEPT ![w] = Walk(@, k)]
  /\ UNCHANGED <<barrierVars, libVars, round, segs, counter, at, error, ntx, count, lastval, histVars>>

\* The segment and the place of account id.
Segment(id) == CHOOSE j \in DOMAIN segs : Before(j - 1) <= id /\ id < Before(j)
Place(id) == id - Before(Segment(id) - 1)

Add(ss, id, n) == [ss EXCEPT ![Segment(id)].accounts[Place(id)] = @ + n]

\* Mutant of Transfer: the sender's funds are not checked.
TransferBlind(s, r) == segs' = Add(Add(segs, s, -1), r, 1)

Transfer(s, r) ==
  segs' = IF segs[Segment(s)].accounts[Place(s)] > 0 THEN Add(Add(segs, s, -1), r, 1) ELSE segs

\* The attempt of short_tx that commits: a transfer, or nothing when one of the
\* accounts does not exist, in which case run draws again.
ShortCommit(w) ==
  /\ At(w, "short", "run")
  /\ IF send_id[w] < Total /\ recv_id[w] < Total
       THEN /\ Transfer(send_id[w], recv_id[w])
            /\ Counted(w)
            /\ astray' = [astray EXCEPT ![w] = asked[w] # <<send_id[w], recv_id[w]>>]
       ELSE UNCHANGED <<segs, ntx, astray>>
  /\ send_id' = [send_id EXCEPT ![w] = 0]
  /\ recv_id' = [recv_id EXCEPT ![w] = 0]
  /\ asked' = [asked EXCEPT ![w] = <<0, 0>>]
  /\ UNCHANGED <<barrierVars, libVars, round, counter, error, count, lastval>>

-----------------------------------------------------------------------------
(***************************************************************************)
(* check.                                                                  *)
(***************************************************************************)
checkVars == <<libVars, round, segs, runVars, histVars>>

\* A call of barrier.sync(): the worker goes on when the barrier lets it out.
CallSync(w, from, to) ==
  /\ pc[w] = "out"
  /\ At(w, from, to)
  /\ Enter(w)
  /\ UNCHANGED <<checkVars, counter, error, ntx, lastval>>

\* A step of the worker inside barrier.sync().
InSync(w) == Sync(w) /\ UNCHANGED <<checkVars, counter, at, error, ntx, lastval>>

\* The worker spins in barrier.sync().
Spin(w) == Spins(w) /\ UNCHANGED bankVars

\* The first call; then the leader initialises, the others go to the second.
FirstSync(w) == CallSync(w, "check", IF w = Leader THEN "write" ELSE "second")

WriteCounter(w) ==
  /\ pc[w] = "out"
  /\ At(w, "write", "verify")
  /\ counter' = nbchecks * cardinal
  /\ UNCHANGED <<barrierVars, checkVars, error, ntx, lastval>>

VerifyCounter(w) ==
  /\ \E v \in SeenValue(counter) :
       At(w, "verify", IF v = nbchecks * cardinal THEN "second" ELSE "bad_second")
  /\ UNCHANGED <<barrierVars, checkVars, counter, error, ntx, lastval>>

\* Mutant of BadSecondSync: the leader returns at once.
BadSecondSyncNot(w) ==
  /\ Return(w, "bad_second", FALSE)
  /\ UNCHANGED <<barrierVars, checkVars, counter, ntx, lastval>>

\* A wrong initialisation: the leader still meets the others twice.
BadSecondSync(w) == CallSync(w, "bad_second", "bad_third")

SecondSync(w) == CallSync(w, "second", "loop")

ReadCounter(w) ==
  /\ pc[w] = "out"
  /\ ntx[w] < nbchecks
  /\ At(w, "loop", "decrease")
  /\ \E v \in SeenValue(counter) : lastval' = [lastval EXCEPT ![w] = v]
  /\ UNCHANGED <<barrierVars, checkVars, counter, error, ntx>>

DecreaseCounter(w) ==
  /\ \E v \in SeenValue(counter) :
       \/ /\ v > lastval[w]
          /\ At(w, "decrease", "bad_third")
          /\ UNCHANGED <<counter, ntx>>
       \/ /\ v <= lastval[w]
          /\ At(w, "decrease", "loop")
          /\ counter' = (v + SizeSpan - 1) % SizeSpan
          /\ ntx' = [ntx EXCEPT ![w] = @ + 1]
  /\ lastval' = [lastval EXCEPT ![w] = 0]
  /\ UNCHANGED <<barrierVars, checkVars, error>>

ThirdSync(w) == ntx[w] = nbchecks /\ CallSync(w, "loop", "final")

BadThirdSync(w) == CallSync(w, "bad_third", "bad")

\* check returns an error after the third meeting, ...
ReturnBad(w) ==
  /\ pc[w] = "out"
  /\ Return(w, "bad", FALSE)
  /\ UNCHANGED <<barrierVars, checkVars, counter, ntx, lastval>>

\* ... or the leader's verdict on the final value, or nullptr.
ReturnFinal(w) ==
  /\ pc[w] = "out"
  /\ \/ /\ w = Leader
        /\ \E v \in SeenValue(counter) : Return(w, "final", v = 0)
     \/ /\ w # Leader
        /\ Return(w, "final", TRUE)
  /\ UNCHANGED <<barrierVars, checkVars, counter, ntx, lastval>>

\* A transaction of check throws instead.
CheckThrows(w) ==
  /\ pc[w] = "out"
  /\ \/ at[w] \in {"write", "verify", "decrease"}
     \/ at[w] = "loop" /\ ntx[w] < nbchecks
     \/ at[w] = "final" /\ w = Leader
  /\ Throw(w, at[w])
  /\ lastval' = [lastval EXCEPT ![w] = 0]
  /\ UNCHANGED <<barrierVars, lib, round, segs, runVars, histVars, counter, error, ntx>>

Check(w) ==
  \/ FirstSync(w)
  \/ InSync(w)
  \/ WriteCounter(w)
  \/ VerifyCounter(w)
  \/ BadSecondSync(w)
  \/ SecondSync(w)
  \/ ReadCounter(w)
  \/ DecreaseCounter(w)
  \/ ThirdSync(w)
  \/ BadThirdSync(w)
  \/ ReturnBad(w)
  \/ ReturnFinal(w)
  \/ CheckThrows(w)

-----------------------------------------------------------------------------
Run(w) ==
  \/ LongTx(w)
  \/ LastLongTx(w)
  \/ \E trigger \in Triggers : AllocTx(w, trigger) \/ AllocThrows(w, trigger)
  \/ \E s, r \in 0..(count[w] - 1) : ShortTx(w, s, r)
  \/ \E k \in DOMAIN segs : ShortAbort(w, k)
  \/ ShortCommit(w)

\* The last round is over, or one failed.
Over ==
  /\ \A w \in Threads : at[w] = "done"
  /\ round = "check" \/ error # {} \/ threw # {}
  /\ UNCHANGED bankVars

BankNext ==
  \/ StartRound
  \/ \E w \in Threads : InitWrite(w) \/ InitCheck(w) \/ Run(w) \/ Check(w) \/ Spin(w)
  \/ Over

BankSpec == BankInit /\ [][BankNext]_bankVars

\* The workers keep running in check, and its transactions commit.
FairBankSpec == BankSpec /\ \A w \in Threads : WF_bankVars(Check(w))

-----------------------------------------------------------------------------
\* In every state that transactions, transfers, removals and retries leave, the
\* balances and parities add up to the initial balance of each account, none is
\* negative, and no segment but the first is without an account.
BankConsistent ==
  round = "run" =>
    /\ Consistent
    /\ segs # <<>>
    /\ \A j \in 2..Len(segs) : segs[j].count \in 1..nbaccounts

\* The workload accuses no library whose transactions are atomic: neither the
\* sums of run nor the counter of check report an error.
NoFalseAlarm == lib = "atomic" => error = {}

\* A short transaction transfers between the accounts whose indices it was
\* given, also when attempts of it aborted.
TransferAsAsked == \A w \in Threads : ~astray[w]

\* Whatever the library returns, every worker gets through check: each of its
\* paths meets the others at the barrier the same number of times.  The exception
\* is a worker that throws before the last meeting, for which they wait in vain.
CheckEnds ==
  round = "check" ~> \/ \A w \in Threads : at[w] = "done"
                     \/ \E w \in threw : left[w] < 3

=============================================================================
