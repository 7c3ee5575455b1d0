-------------------------- MODULE EvaluationProofs --------------------------
(***************************************************************************)
(* Theorems about the grading program: the rounds of its workers, their    *)
(* transactions, and the life of libraries, regions and threads in main(), *)
(* for any number of workers, rounds and libraries.                        *)
(***************************************************************************)
EXTENDS Evaluation, FiniteSetTheorems, TLAPS

-----------------------------------------------------------------------------
(***************************************************************************)
(* The inductive invariant of a round.                                     *)
(***************************************************************************)
\* Worker w has been counted out of the round.
Out(w) == round[w] = mround + 1 /\ wpc[w] = IF throws[w] THEN "exited" ELSE "poll"

\* The workers come in: the counter counts those that have.
CountedIn == {w \in Workers : wpc[w] \in {"await", "reset"}}

EnteringOf(w) ==
  /\ round[w] = mround /\ ~throws[w]
  /\ wpc[w] \in {"poll", "ready", "await", "reset", "start"}
  /\ wpc[w] = "start" => nbready = 0
  /\ wpc[w] \in {"reset", "start"} => \A u \in Workers \ {w} : wpc[u] = "await"

Entering ==
  /\ status = "Wait" /\ ~raised /\ failed = {}
  /\ \A w \in Workers : EnteringOf(w)
  /\ (\A w \in Workers : wpc[w] # "start") => nbready = Cardinality(CountedIn)

\* They work, some of them fail, and the counter counts those that are through.
CountedOut == {w \in Workers : Out(w) \/ wpc[w] = "clear"}

VerdictSteps == {"verdict", "fail", "done"}

RunningOf(w) ==
  /\ Out(w) \/ (round[w] = mround /\ wpc[w] \in {"await", "work", "error", "abort", "count", "clear"} \cup VerdictSteps)
  /\ wpc[w] \in {"await", "work"} => ~throws[w] /\ w \notin failed
  /\ wpc[w] \in {"error", "abort"} => w \in failed
  /\ throws[w] => w \in failed
  /\ w \in failed /\ wpc[w] # "error" => errmsg
  /\ w \in failed /\ wpc[w] \notin {"error", "abort"} => status = "Abort"
  /\ wpc[w] \in {"clear"} \cup VerdictSteps => \A u \in Workers \ {w} : Out(u)
  /\ wpc[w] \in VerdictSteps => nbready = 0
  /\ wpc[w] = "fail" => status = "Abort"
  /\ wpc[w] = "done" => status = "Run"

Running ==
  /\ status \in {"Run", "Abort"} /\ ~raised
  /\ status = "Abort" => failed # {}
  /\ \A w \in Workers : RunningOf(w)
  /\ (\A w \in Workers : wpc[w] \notin VerdictSteps) => nbready = Cardinality(CountedOut)

\* The last one has stored the verdict.
Verdict ==
  /\ status = IF failed = {} THEN "Done" ELSE "Fail"
  /\ failed # {} => errmsg
  /\ \A w \in Workers : throws[w] => w \in failed
  /\ nbready = 0

EndedOf(w) ==
  /\ Out(w) \/ (round[w] = mround /\ wpc[w] = "raise" /\ ~raised)
  /\ wpc[w] = "raise" => \A u \in Workers \ {w} : Out(u)

Ended == Verdict /\ \A w \in Workers : EndedOf(w)

\* The whole of measure(), by the place of the master.
Fresh(w) == wpc[w] = "poll" /\ round[w] = mround /\ ~throws[w]

MasterInv ==
  /\ mpc # "unreachable"
  /\ mpc \in {"start", "returned"} => \A w \in Workers : wpc[w] = "exited"
  /\ mpc = "notify" => status = "Done" /\ nbready = 0 /\ ~raised /\ \A w \in Workers : Fresh(w)
  /\ mpc = "wait" => Entering \/ Running \/ Ended
  /\ mpc = "status" => ~raised /\ Verdict /\ \A w \in Workers : Out(w)
  /\ mpc = "quit" => status \in {"Done", "Fail"}
  /\ mpc = "join" => status = "Quit"
  /\ mpc \in {"quit", "join"} => \A w \in Workers : wpc[w] \in {"poll", "exited"}
  /\ mpc = "exit" => RoundsInStep /\ NeverUnreachable

SyncInv == TypeOK /\ MasterInv

(***************************************************************************)
(* The inductive invariants of the other parts.                            *)
(***************************************************************************)
\* A transaction: its handle is open in the closure, and on the way out of it
\* unless the transaction was aborted; nothing of it is left outside of the work.
WrapperOf(w) ==
  /\ tpc[w] = "body" => handle[w] = "open" /\ ~aborted[w]
  /\ tpc[w] = "unwind" => handle[w] = IF aborted[w] THEN "closed" ELSE "open"
  /\ tpc[w] \in {"begin", "committed", "thrown"} => handle[w] # "open"
  /\ wpc[w] # "work" => tpc[w] = "begin" /\ handle[w] = "none"

WrapperInv ==
  /\ tpc \in [Workers -> {"begin", "body", "unwind", "committed", "thrown"}]
  /\ aborted \in [Workers -> BOOLEAN]
  /\ handle \in [Workers -> {"none", "open", "closed"}]
  /\ misused = FALSE
  /\ \A w \in Workers : WrapperOf(w)

\* A region: the blocks that it has, and the fields that point to them.
RegionInv ==
  /\ rpc \in {"none", "locks", "start", "zero", "ready", "invalid", "gone"}
  /\ rpc \in {"none", "invalid", "gone"} => blocks = {} /\ fields = {}
  /\ rpc = "locks" => blocks = {"region"} /\ fields = {}
  /\ rpc = "start" => blocks = {"region", "locks"} /\ fields = {"locks"}
  /\ rpc \in {"zero", "ready"} => blocks = {"region", "locks", "start"} /\ fields = {"locks", "start"}
  /\ misfreed = {} \/ (rpc = "invalid" /\ misfreed = {"locks"} /\ refused = "start")

\* The caller of bounded_run and the runner: where they can be together, and who
\* has the lock then.
RunInv ==
  /\ stray \in BOOLEAN
  /\ stray => caller = "overrun"
  /\ \/ caller = "out" /\ runner = "none" /\ mutex = "free"
     \/ caller = "started" /\ runner \in {"func", "lock"} /\ mutex = "caller"
     \/ caller = "wait" /\ runner \in {"func", "lock"} /\ mutex = "free"
     \/ caller = "woken" /\ runner = "unlock" /\ mutex = "runner"
     \/ caller = "woken" /\ runner = "done" /\ mutex = "free"
     \/ caller = "join" /\ runner \in {"func", "lock", "done"} /\ mutex = "caller"
     \/ caller = "returned" /\ runner = "done" /\ mutex = "free"
     \/ caller = "overrun" /\ runner \in {"func", "lock", "done"}

\* main(), by its stages.
Idle == mpc \in {"start", "returned"}
NoRun == caller = "out"
Making == {"none", "locks", "start", "zero", "ready", "invalid"}
PastFunc == {"lock", "unlock", "done"}

Leaving ==
  \/ result = "error" /\ NoRun /\ rpc \in {"none", "gone"}
  \/ result = "ok" /\ NoRun /\ rpc = "gone" /\ ~loaded
  \/ result = "overrun" /\ caller = "overrun" /\ rpc \in Making /\ ~loaded

StageInv ==
  \/ stage = "load" /\ ~loaded /\ result = "none" /\ Idle /\ NoRun /\ rpc = "none"
  \/ /\ stage = "create" /\ loaded /\ result = "none" /\ Idle
     /\ rpc \in Making
     /\ runner = "none" => rpc = "none"
     /\ runner \in PastFunc => rpc = "ready"
  \/ stage = "measure" /\ loaded /\ result = "none" /\ NoRun /\ rpc = "ready"
  \/ /\ stage = "destroy" /\ loaded /\ result \in {"none", "error"} /\ Idle
     /\ rpc \in {"ready", "gone"}
     /\ runner = "none" => rpc = "ready"
     /\ runner \in PastFunc => rpc = "gone"
  \/ /\ stage = "unload" /\ loaded /\ Idle
     /\ \/ result \in {"none", "error"} /\ NoRun /\ rpc = "gone"
        \/ result = "error" /\ NoRun /\ rpc = "none"
        \/ result = "overrun" /\ caller = "overrun" /\ rpc \in Making
  \/ stage = "leave" /\ Idle /\ Leaving
  \/ stage = "exited" /\ Idle /\ Leaving
  \/ stage = "exited" /\ loaded /\ result = "quick" /\ NoRun /\ rpc = "ready"
  \/ stage = "terminated" /\ Idle /\ result \in {"none", "error"} /\ loaded
  \/ stage = "terminated" /\ Idle /\ result = "overrun"

EvalInv == SyncInv /\ WrapperInv /\ RegionInv /\ RunInv /\ StageInv

-----------------------------------------------------------------------------
LEMMA NbworkersType == nbworkers \in Nat \ {0}
  BY SyncAssumption, FS_CardinalityType, FS_EmptySet DEF nbworkers

\* A set of workers, with one more worker.
LEMMA CountOneMore ==
  ASSUME NEW S \in SUBSET Workers, NEW w \in Workers \ S, NEW n, n = Cardinality(S)
  PROVE  /\ n + 1 = Cardinality(S \cup {w})
         /\ n + 1 \in 0..nbworkers
         /\ n + 1 = nbworkers => S \cup {w} = Workers
  <1> USE SyncAssumption
  <1>1. IsFiniteSet(S) /\ n \in Nat
    <2>1. IsFiniteSet(S)
      BY FS_Subset
    <2> QED
      BY <2>1, FS_CardinalityType
  <1>2. n + 1 = Cardinality(S \cup {w})
    BY <1>1, FS_AddElement
  <1>3. (S \cup {w}) \in SUBSET Workers
    OBVIOUS
  <1>4. /\ Cardinality(S \cup {w}) <= Cardinality(Workers)
        /\ Cardinality(Workers) = Cardinality(S \cup {w}) => Workers = S \cup {w}
    BY <1>3, FS_Subset
  <1> QED
    BY <1>1, <1>2, <1>4, NbworkersType DEF nbworkers

LEMMA InitSync == ASSUME Init PROVE SyncInv
  <1>1. 0 \in 0..nbworkers /\ 1 \in 1..Rounds /\ 1 \in 1..(Rounds + 1)
    BY SyncAssumption, NbworkersType
  <1>2. TypeOK
    BY <1>1, Zenon DEF Init, TypeOK, Busy
  <1>3. MasterInv
    BY DEF Init, MasterInv
  <1> QED
    BY <1>2, <1>3 DEF SyncInv

\* The phase that a worker's place tells.
LEMMA PhaseEntering ==
  ASSUME SyncInv, ~Exited, NEW w \in Workers, wpc[w] \in {"ready", "reset", "start"}
  PROVE  mpc = "wait" /\ Entering
  <1>1. mpc = "wait"
    BY DEF SyncInv, TypeOK, MasterInv, Exited, Fresh, Out
  <1> QED
    BY <1>1 DEF SyncInv, MasterInv, Running, RunningOf, Ended, EndedOf, Out, VerdictSteps

LEMMA PhaseRunning ==
  ASSUME SyncInv, ~Exited, NEW w \in Workers,
         \/ wpc[w] \in {"work", "error", "abort", "count", "clear"} \cup VerdictSteps
         \/ wpc[w] = "await" /\ status # "Wait"
  PROVE  mpc = "wait" /\ Running
  <1>1. mpc = "wait"
    BY DEF SyncInv, TypeOK, MasterInv, Exited, Fresh, Out, VerdictSteps
  <1> QED
    BY <1>1 DEF SyncInv, MasterInv, Entering, EnteringOf, Ended, EndedOf, Out, VerdictSteps

LEMMA PhaseEnded ==
  ASSUME SyncInv, ~Exited, NEW w \in Workers, wpc[w] = "raise"
  PROVE  mpc = "wait" /\ Ended
  <1>1. mpc = "wait"
    BY DEF SyncInv, TypeOK, MasterInv, Exited, Fresh, Out
  <1> QED
    BY <1>1 DEF SyncInv, MasterInv, Entering, EnteringOf, Running, RunningOf, Out, VerdictSteps

LEMMA StaysInRound ==
  ASSUME mpc = "wait", mpc' = mpc, TypeOK', Entering' \/ Running' \/ Ended'
  PROVE  SyncInv'
  BY DEF SyncInv, MasterInv

\* The steps of a worker that comes in.
LEMMA PollSync ==
  ASSUME SyncInv, NEW w \in Workers, PollStatus(w) PROVE SyncInv'
  <1>1. /\ UNCHANGED <<status, nbready, errmsg, raised, round, throws, mpc, mround, error, failed>>
        /\ wpc[w] = "poll" /\ ~Exited
    BY DEF PollStatus, Goto, masterVars
  <1>2. CASE status = "Wait"
    <2>1. mpc = "wait"
      BY <1>1, <1>2 DEF Exited, SyncInv, MasterInv, TypeOK, Verdict
    <2>2. Entering
      BY <1>2, <2>1 DEF SyncInv, MasterInv, Running, Ended, Verdict
    <2>3. wpc' = [wpc EXCEPT ![w] = "ready"]
      BY <1>2 DEF PollStatus, Goto
    <2>4. TypeOK'
      BY <1>1, <2>3 DEF SyncInv, TypeOK
    <2>5. CountedIn' = CountedIn
      BY <1>1, <2>3 DEF CountedIn, SyncInv, TypeOK
    <2>6. Entering'
      BY <1>1, <2>2, <2>3, <2>5 DEF Entering, EnteringOf, SyncInv, TypeOK
    <2> QED
      BY <1>1, <2>1, <2>4, <2>6, StaysInRound
  <1>3. CASE status = "Quit"
    <2>1. mpc = "join"
      BY <1>1, <1>3 DEF Exited, SyncInv, MasterInv, TypeOK, Entering, Running, Ended, Verdict
    <2>2. wpc' = [wpc EXCEPT ![w] = "exited"]
      BY <1>3 DEF PollStatus, Goto
    <2>3. TypeOK'
      BY <1>1, <2>2 DEF SyncInv, TypeOK
    <2> QED
      BY <1>1, <1>3, <2>1, <2>2, <2>3 DEF SyncInv, TypeOK, MasterInv
  <1> QED
    BY <1>2, <1>3 DEF PollStatus

LEMMA CountInSync ==
  ASSUME SyncInv, NEW w \in Workers, CountIn(w) PROVE SyncInv'
  <1> DEFINE to == IF nbready + 1 = nbworkers THEN "reset" ELSE "await"
  <1>1. /\ UNCHANGED <<status, errmsg, raised, round, throws, mpc, mround, error, failed>>
        /\ nbready' = nbready + 1
        /\ wpc[w] = "ready" /\ ~Exited
        /\ wpc' = [wpc EXCEPT ![w] = to]
    BY DEF CountIn, Goto, masterVars
  <1>2. mpc = "wait" /\ Entering
    BY <1>1, PhaseEntering
  <1>3. /\ nbready = Cardinality(CountedIn)
        /\ CountedIn \in SUBSET Workers /\ w \in Workers \ CountedIn
        /\ \A u \in Workers : wpc[u] \in {"poll", "ready", "await"}
    BY <1>1, <1>2 DEF Entering, EnteringOf, CountedIn
  <1>4. /\ nbready + 1 = Cardinality(CountedIn \cup {w})
        /\ nbready + 1 \in 0..nbworkers
        /\ nbready + 1 = nbworkers => CountedIn \cup {w} = Workers
    BY <1>3, CountOneMore
  <1>5. TypeOK'
    BY <1>1, <1>4 DEF SyncInv, TypeOK, Busy
  <1>6. CountedIn' = CountedIn \cup {w}
    BY <1>1 DEF CountedIn, SyncInv, TypeOK
  <1>7. to = "reset" => \A u \in Workers \ {w} : wpc[u] = "await"
    BY <1>3, <1>4 DEF CountedIn
  <1>8. Entering'
    BY <1>1, <1>2, <1>3, <1>4, <1>6, <1>7 DEF Entering, EnteringOf, SyncInv, TypeOK
  <1> QED
    BY <1>1, <1>2, <1>5, <1>8, StaysInRound

LEMMA ResetInSync ==
  ASSUME SyncInv, NEW w \in Workers, ResetIn(w) PROVE SyncInv'
  <1>1. /\ UNCHANGED <<status, errmsg, raised, round, throws, mpc, mround, error, failed>>
        /\ nbready' = 0
        /\ wpc[w] = "reset" /\ ~Exited
        /\ wpc' = [wpc EXCEPT ![w] = "start"]
    BY DEF ResetIn, Goto, masterVars
  <1>2. mpc = "wait" /\ Entering
    BY <1>1, PhaseEntering
  <1>3. TypeOK'
    BY <1>1, NbworkersType DEF SyncInv, TypeOK, Busy
  <1>4. Entering'
    BY <1>1, <1>2 DEF Entering, EnteringOf, SyncInv, TypeOK
  <1> QED
    BY <1>1, <1>2, <1>3, <1>4, StaysInRound

LEMMA StartRunSync ==
  ASSUME SyncInv, NEW w \in Workers, StartRun(w) PROVE SyncInv'
  <1>1. /\ UNCHANGED <<nbready, errmsg, raised, round, throws, mpc, mround, error, failed>>
        /\ status' = "Run"
        /\ wpc[w] = "start" /\ ~Exited
        /\ wpc' = [wpc EXCEPT ![w] = "work"]
    BY DEF StartRun, Goto, masterVars
  <1>2. mpc = "wait" /\ Entering
    BY <1>1, PhaseEntering
  <1>3. TypeOK'
    BY <1>1 DEF SyncInv, TypeOK, Busy
  <1>4. nbready = 0 /\ \A u \in Workers \ {w} : wpc[u] = "await"
    BY <1>1, <1>2 DEF Entering, EnteringOf
  <1>5. /\ \A u \in Workers : wpc'[u] \in {"await", "work"}
        /\ \A u \in Workers : round'[u] = mround' /\ ~throws'[u] /\ u \notin failed'
    BY <1>1, <1>2, <1>4 DEF Entering, EnteringOf, SyncInv, TypeOK
  <1>6. CountedOut' = {}
    BY <1>3, <1>5 DEF CountedOut, Out, TypeOK
  <1>7. \A u \in Workers : RunningOf(u)'
    BY <1>5 DEF RunningOf, VerdictSteps
  <1>8. Running'
    BY <1>1, <1>2, <1>4, <1>6, <1>7, FS_EmptySet DEF Running, Entering
  <1> QED
    BY <1>1, <1>2, <1>3, <1>8, StaysInRound

LEMMA AwaitRunSync ==
  ASSUME SyncInv, NEW w \in Workers, AwaitRun(w) PROVE SyncInv'
  <1>1. /\ UNCHANGED <<status, nbready, errmsg, raised, round, throws, mpc, mround, error, failed>>
        /\ status # "Wait" /\ wpc[w] = "await" /\ ~Exited
        /\ wpc' = [wpc EXCEPT ![w] = "work"]
    BY DEF AwaitRun, Goto, masterVars
  <1>2. mpc = "wait" /\ Running
    BY <1>1, PhaseRunning
  <1>3. TypeOK'
    BY <1>1 DEF SyncInv, TypeOK, Busy
  <1>4. \A u \in Workers : (Out(u)' <=> Out(u)) /\ ~Out(w)
    BY <1>1 DEF Out, SyncInv, TypeOK
  <1>5. CountedOut' = CountedOut
    BY <1>1, <1>4 DEF CountedOut, SyncInv, TypeOK
  <1>6. \A u \in Workers : RunningOf(u)'
    BY <1>1, <1>2, <1>4 DEF Running, RunningOf, VerdictSteps, SyncInv, TypeOK
  <1>7. Running'
    BY <1>1, <1>2, <1>5, <1>6 DEF Running, VerdictSteps, SyncInv, TypeOK
  <1> QED
    BY <1>1, <1>2, <1>3, <1>7, StaysInRound

\* The worker's part of the round ends, well or badly.
LEMMA WorkSync ==
  ASSUME SyncInv, NEW w \in Workers, Work(w) PROVE SyncInv'
  <1>1. /\ UNCHANGED <<status, nbready, errmsg, raised, round, mpc, mround, error>>
        /\ wpc[w] = "work" /\ ~Exited
    BY DEF Work, Goto, masterVars
  <1>2. \/ wpc' = [wpc EXCEPT ![w] = "count"] /\ UNCHANGED <<throws, failed>>
        \/ /\ wpc' = [wpc EXCEPT ![w] = "error"]
           /\ failed' = failed \cup {w}
           /\ throws' = throws \/ throws' = [throws EXCEPT ![w] = TRUE]
    BY DEF Work, Goto
  <1>3. mpc = "wait" /\ Running
    BY <1>1, PhaseRunning
  <1>4. throws' \in [Workers -> BOOLEAN]
    <2>1. CASE throws' = throws
      BY <2>1 DEF SyncInv, TypeOK
    <2>2. CASE throws' = [throws EXCEPT ![w] = TRUE]
      BY <2>2 DEF SyncInv, TypeOK
    <2> QED
      BY <1>2, <2>1, <2>2
  <1>5. TypeOK'
    BY <1>1, <1>2, <1>4 DEF SyncInv, TypeOK, Busy
  <1>6. \A u \in Workers \ {w} : wpc'[u] = wpc[u] /\ (throws'[u] <=> throws[u]) /\ (u \in failed' <=> u \in failed)
    BY <1>2 DEF SyncInv, TypeOK
  <1>7. \/ wpc'[w] = "count" /\ ~throws'[w] /\ w \notin failed'
        \/ wpc'[w] = "error" /\ w \in failed'
    BY <1>1, <1>2, <1>3 DEF SyncInv, TypeOK, Running, RunningOf
  <1>8. ~Out(w) /\ ~Out(w)' /\ \A u \in Workers \ {w} : Out(u)' <=> Out(u)
    BY <1>1, <1>6, <1>7 DEF Out
  <1>9. CountedOut' = CountedOut
    BY <1>1, <1>6, <1>7, <1>8 DEF CountedOut
  <1>10. \A u \in Workers : RunningOf(u)'
    <2> TAKE u \in Workers
    <2>1. CASE u = w
      BY <1>1, <1>3, <1>7, <1>8, <2>1 DEF Running, RunningOf, VerdictSteps
    <2>2. CASE u # w
      BY <1>1, <1>3, <1>6, <1>8, <2>2 DEF Running, RunningOf, VerdictSteps
    <2> QED
      BY <2>1, <2>2
  <1>11. Running'
    BY <1>1, <1>2, <1>3, <1>6, <1>9, <1>10 DEF Running, VerdictSteps
  <1> QED
    BY <1>1, <1>3, <1>5, <1>11, StaysInRound

\* The steps of worker_notify.
LEMMA StoreErrorSync ==
  ASSUME SyncInv, NEW w \in Workers, StoreError(w) PROVE SyncInv'
  <1>1. /\ UNCHANGED <<status, nbready, raised, round, throws, mpc, mround, error, failed>>
        /\ errmsg' = TRUE
        /\ wpc[w] = "error" /\ ~Exited
        /\ wpc' = [wpc EXCEPT ![w] = "abort"]
    BY DEF StoreError, Goto, masterVars
  <1>2. mpc = "wait" /\ Running
    BY <1>1, PhaseRunning
  <1>3. TypeOK'
    BY <1>1 DEF SyncInv, TypeOK, Busy
  <1>4. \A u \in Workers : (Out(u)' <=> Out(u)) /\ ~Out(w)
    BY <1>1 DEF Out, SyncInv, TypeOK
  <1>5. CountedOut' = CountedOut
    BY <1>1, <1>4 DEF CountedOut, SyncInv, TypeOK
  <1>6. \A u \in Workers : RunningOf(u)'
    BY <1>1, <1>2, <1>4 DEF Running, RunningOf, VerdictSteps, SyncInv, TypeOK
  <1>7. Running'
    BY <1>1, <1>2, <1>5, <1>6 DEF Running, VerdictSteps, SyncInv, TypeOK
  <1> QED
    BY <1>1, <1>2, <1>3, <1>7, StaysInRound

LEMMA StoreAbortSync ==
  ASSUME SyncInv, NEW w \in Workers, StoreAbort(w) PROVE SyncInv'
  <1>1. /\ UNCHANGED <<nbready, errmsg, raised, round, throws, mpc, mround, error, failed>>
        /\ status' = "Abort"
        /\ wpc[w] = "abort" /\ ~Exited
        /\ wpc' = [wpc EXCEPT ![w] = "count"]
    BY DEF StoreAbort, Goto, masterVars
  <1>2. mpc = "wait" /\ Running
    BY <1>1, PhaseRunning
  <1>3. TypeOK'
    BY <1>1 DEF SyncInv, TypeOK, Busy
  <1>4. \A u \in Workers : (Out(u)' <=> Out(u)) /\ ~Out(w)
    BY <1>1 DEF Out, SyncInv, TypeOK
  <1>5. CountedOut' = CountedOut
    BY <1>1, <1>4 DEF CountedOut, SyncInv, TypeOK
  <1>6. \A u \in Workers : RunningOf(u)'
    BY <1>1, <1>2, <1>4 DEF Running, RunningOf, VerdictSteps, SyncInv, TypeOK
  <1>7. w \in failed
    BY <1>1, <1>2 DEF Running, RunningOf
  <1>8. Running'
    BY <1>1, <1>2, <1>5, <1>6, <1>7 DEF Running, VerdictSteps, SyncInv, TypeOK
  <1> QED
    BY <1>1, <1>2, <1>3, <1>8, StaysInRound

LEMMA CountOutSync ==
  ASSUME SyncInv, NEW w \in Workers, CountOut(w) PROVE SyncInv'
  <1>1. /\ UNCHANGED <<status, errmsg, raised, throws, mpc, mround, error, failed>>
        /\ nbready' = nbready + 1
        /\ wpc[w] = "count" /\ ~Exited
    BY DEF CountOut, NextRound, Goto, masterVars
  <1>2. mpc = "wait" /\ Running
    BY <1>1, PhaseRunning
  <1>3. /\ \A u \in Workers : wpc[u] \notin {"clear"} \cup VerdictSteps
        /\ nbready = Cardinality(CountedOut)
        /\ CountedOut \in SUBSET Workers /\ w \in Workers \ CountedOut
        /\ round[w] = mround
        /\ ~Out(w)
    BY <1>1, <1>2 DEF Running, RunningOf, CountedOut, Out, VerdictSteps
  <1>4. /\ nbready + 1 = Cardinality(CountedOut \cup {w})
        /\ nbready + 1 \in 0..nbworkers
        /\ nbready + 1 = nbworkers => CountedOut \cup {w} = Workers
    BY <1>3, CountOneMore
  <1>5. \/ /\ nbready + 1 = nbworkers
           /\ wpc' = [wpc EXCEPT ![w] = "clear"] /\ round' = round
        \/ /\ wpc' = [wpc EXCEPT ![w] = IF throws[w] THEN "exited" ELSE "poll"]
           /\ round' = [round EXCEPT ![w] = @ + 1]
    BY DEF CountOut, NextRound, Goto
  <1>6. TypeOK'
    BY <1>1, <1>3, <1>4, <1>5, SyncAssumption DEF SyncInv, TypeOK, Busy
  <1>7. Out(w)' \/ (wpc'[w] = "clear" /\ round'[w] = mround /\ \A u \in Workers \ {w} : Out(u))
    BY <1>1, <1>3, <1>4, <1>5 DEF SyncInv, TypeOK, Out, CountedOut
  <1>8. \A u \in Workers \ {w} : wpc'[u] = wpc[u] /\ round'[u] = round[u] /\ (Out(u)' <=> Out(u))
    BY <1>1, <1>5 DEF SyncInv, TypeOK, Out
  <1>9. CountedOut' = CountedOut \cup {w}
    BY <1>7, <1>8 DEF CountedOut
  <1>10. \A u \in Workers : RunningOf(u)'
    <2> TAKE u \in Workers
    <2>1. CASE u = w
      BY <1>1, <1>2, <1>7, <1>8, <2>1 DEF Running, RunningOf, VerdictSteps, Out
    <2>2. CASE u # w
      BY <1>1, <1>2, <1>3, <1>8, <2>2 DEF Running, RunningOf, VerdictSteps
    <2> QED
      BY <2>1, <2>2
  <1>11. Running'
    BY <1>1, <1>2, <1>4, <1>9, <1>10 DEF Running, VerdictSteps
  <1> QED
    BY <1>1, <1>2, <1>6, <1>11, StaysInRound

LEMMA ResetOutSync ==
  ASSUME SyncInv, NEW w \in Workers, ResetOut(w) PROVE SyncInv'
  <1>1. /\ UNCHANGED <<status, errmsg, raised, round, throws, mpc, mround, error, failed>>
        /\ nbready' = 0
        /\ wpc[w] = "clear" /\ ~Exited
        /\ wpc' = [wpc EXCEPT ![w] = "verdict"]
    BY DEF ResetOut, Goto, masterVars
  <1>2. mpc = "wait" /\ Running
    BY <1>1, PhaseRunning
  <1>3. TypeOK'
    BY <1>1, NbworkersType DEF SyncInv, TypeOK, Busy
  <1>4. \A u \in Workers : (Out(u)' <=> Out(u)) /\ ~Out(w)
    BY <1>1 DEF Out, SyncInv, TypeOK
  <1>5. wpc'[w] = "verdict"
    BY <1>1 DEF SyncInv, TypeOK
  <1>6. \A u \in Workers : RunningOf(u)'
    BY <1>1, <1>2, <1>4 DEF Running, RunningOf, VerdictSteps, SyncInv, TypeOK
  <1>7. Running'
    BY <1>1, <1>2, <1>5, <1>6 DEF Running, VerdictSteps
  <1> QED
    BY <1>1, <1>2, <1>3, <1>7, StaysInRound

LEMMA LoadStatusSync ==
  ASSUME SyncInv, NEW w \in Workers, LoadStatus(w) PROVE SyncInv'
  <1>1. /\ UNCHANGED <<status, nbready, errmsg, raised, round, throws, mpc, mround, error, failed>>
        /\ wpc[w] = "verdict" /\ ~Exited
        /\ wpc' = [wpc EXCEPT ![w] = IF status = "Abort" THEN "fail" ELSE "done"]
    BY DEF LoadStatus, Goto, masterVars
  <1>2. mpc = "wait" /\ Running
    BY <1>1, PhaseRunning DEF VerdictSteps
  <1>3. TypeOK'
    BY <1>1 DEF SyncInv, TypeOK, Busy
  <1>4. \A u \in Workers : (Out(u)' <=> Out(u)) /\ ~Out(w)
    BY <1>1 DEF Out, SyncInv, TypeOK
  <1>5. wpc'[w] = IF status = "Abort" THEN "fail" ELSE "done"
    BY <1>1 DEF SyncInv, TypeOK
  <1>6. \A u \in Workers : RunningOf(u)'
    BY <1>1, <1>2, <1>4 DEF Running, RunningOf, VerdictSteps, SyncInv, TypeOK
  <1>7. Running'
    BY <1>1, <1>2, <1>5, <1>6 DEF Running, VerdictSteps
  <1> QED
    BY <1>1, <1>2, <1>3, <1>7, StaysInRound

LEMMA StoreVerdictSync ==
  ASSUME SyncInv, NEW w \in Workers, StoreVerdict(w) PROVE SyncInv'
  <1>1. /\ UNCHANGED <<nbready, errmsg, raised, round, throws, mpc, mround, error, failed>>
        /\ \/ wpc[w] = "fail" /\ status' = "Fail"
           \/ wpc[w] = "done" /\ status' = "Done"
        /\ ~Exited
        /\ wpc' = [wpc EXCEPT ![w] = "raise"]
    BY DEF StoreVerdict, Goto, masterVars
  <1>2. mpc = "wait" /\ Running
    BY <1>1, PhaseRunning DEF VerdictSteps
  <1>3. TypeOK'
    BY <1>1 DEF SyncInv, TypeOK, Busy
  <1>4. \A u \in Workers : (Out(u)' <=> Out(u)) /\ ~Out(w)
    BY <1>1 DEF Out, SyncInv, TypeOK
  <1>5. /\ \A u \in Workers \ {w} : Out(u)
        /\ nbready = 0 /\ round[w] = mround
        /\ wpc[w] = "fail" => status = "Abort"
        /\ wpc[w] = "done" => status = "Run"
    BY <1>1, <1>2, <1>4 DEF Running, RunningOf, VerdictSteps
  <1>6. \A u \in Workers : wpc[u] \notin {"error", "abort"}
    BY <1>1, <1>5 DEF Out
  <1>7. \A u \in Workers : u \in failed => errmsg /\ status = "Abort"
    BY <1>2, <1>6 DEF Running, RunningOf
  <1>8. Verdict'
    BY <1>1, <1>2, <1>5, <1>7 DEF Verdict, Running, RunningOf, SyncInv, TypeOK
  <1>9. \A u \in Workers : EndedOf(u)'
    BY <1>1, <1>2, <1>4, <1>5 DEF EndedOf, Running, SyncInv, TypeOK, Out
  <1> QED
    BY <1>1, <1>2, <1>3, <1>8, <1>9, StaysInRound DEF Ended

LEMMA LatchRaiseSync ==
  ASSUME SyncInv, NEW w \in Workers, LatchRaise(w) PROVE SyncInv'
  <1>1. /\ UNCHANGED <<status, nbready, errmsg, throws, mpc, mround, error, failed>>
        /\ raised' = TRUE
        /\ wpc[w] = "raise" /\ ~Exited
        /\ wpc' = [wpc EXCEPT ![w] = IF throws[w] THEN "exited" ELSE "poll"]
        /\ round' = [round EXCEPT ![w] = @ + 1]
    BY DEF LatchRaise, NextRound, Goto, masterVars
  <1>2. mpc = "wait" /\ Ended
    BY <1>1, PhaseEnded
  <1>3. round[w] = mround /\ \A u \in Workers \ {w} : Out(u)
    BY <1>1, <1>2 DEF Ended, EndedOf, Out
  <1>4. TypeOK'
    BY <1>1, <1>3, SyncAssumption DEF SyncInv, TypeOK, Busy
  <1>5. \A u \in Workers : Out(u)'
    BY <1>1, <1>3 DEF SyncInv, TypeOK, Out
  <1>6. Ended'
    BY <1>1, <1>2, <1>5 DEF Ended, EndedOf, Verdict, Out
  <1> QED
    BY <1>1, <1>2, <1>4, <1>6, StaysInRound

LEMMA WorkerSync ==
  ASSUME SyncInv, NEW w \in Workers, InSync(w) PROVE SyncInv'
  BY PollSync, CountInSync, ResetInSync, StartRunSync, AwaitRunSync, StoreErrorSync,
     StoreAbortSync, CountOutSync, ResetOutSync, LoadStatusSync, StoreVerdictSync,
     LatchRaiseSync
  DEF InSync

\* What the runs check of a round follows.
LEMMA SyncFacts ==
  ASSUME SyncInv PROVE RoundsInStep /\ VerdictRight /\ NeverUnreachable
  <1>1. VerdictRight
    BY DEF SyncInv, MasterInv, VerdictRight, Verdict, Out, TypeOK
  <1>2. CASE mpc = "exit"
    BY <1>1, <1>2 DEF SyncInv, MasterInv
  <1>3. CASE mpc = "wait" /\ Entering
    <2>1. RoundsInStep
      BY <1>3 DEF Entering, EnteringOf, RoundsInStep, Busy
    <2>2. NeverUnreachable
      BY <1>3, SyncAssumption DEF Entering, EnteringOf, NeverUnreachable, SyncInv, TypeOK
    <2> QED
      BY <1>1, <2>1, <2>2
  <1>4. CASE mpc = "wait" /\ Running
    <2>1. \A u \in Workers :
            \/ round[u] = mround + 1 /\ wpc[u] \in {"poll", "exited"}
            \/ round[u] = mround /\ wpc[u] \in Busy
      BY <1>4 DEF Running, RunningOf, Out, VerdictSteps, Busy
    <2>2. RoundsInStep
      BY <2>1, SyncAssumption DEF RoundsInStep, Busy, SyncInv, TypeOK
    <2>3. NeverUnreachable
      BY <1>4, <2>1, SyncAssumption DEF NeverUnreachable, SyncInv, TypeOK
    <2> QED
      BY <1>1, <2>2, <2>3
  <1>5. CASE mpc = "wait" /\ Ended
    <2>1. \A u \in Workers :
            \/ wpc[u] \in {"poll", "exited"}
            \/ round[u] = mround /\ wpc[u] = "raise"
      BY <1>5 DEF Ended, EndedOf, Out
    <2>2. RoundsInStep
      BY <2>1 DEF RoundsInStep, Busy
    <2>3. NeverUnreachable
      BY <1>5, <2>1, SyncAssumption DEF NeverUnreachable, SyncInv, TypeOK
    <2> QED
      BY <1>1, <2>2, <2>3
  <1>6. CASE mpc \notin {"wait", "exit"}
    <2>1. \A u \in Workers : wpc[u] \in {"poll", "exited"}
      BY <1>6 DEF SyncInv, TypeOK, MasterInv, Fresh, Out
    <2>2. RoundsInStep
      BY <2>1 DEF RoundsInStep, Busy
    <2>3. NeverUnreachable
      BY <2>1 DEF NeverUnreachable, SyncInv, MasterInv
    <2> QED
      BY <1>1, <2>2, <2>3
  <1> QED
    BY <1>2, <1>3, <1>4, <1>5, <1>6 DEF SyncInv, MasterInv

\* The steps of the master.
LEMMA StartWorkersSync ==
  ASSUME SyncInv, StartWorkers PROVE SyncInv'
  <1>1. 0 \in 0..nbworkers /\ 1 \in 1..Rounds /\ 1 \in 1..(Rounds + 1)
    BY SyncAssumption, NbworkersType
  <1>2. TypeOK'
    BY <1>1, Zenon DEF StartWorkers, MasterGoto, TypeOK, Busy
  <1>3. \A w \in Workers : Fresh(w)'
    BY DEF StartWorkers, Fresh
  <1> QED
    BY <1>2, <1>3 DEF StartWorkers, MasterGoto, SyncInv, MasterInv

\* measure() is left by an exception.
LEMMA ExitSync ==
  ASSUME SyncInv, StartFails \/ LatchTimeout PROVE SyncInv'
  <1>1. /\ mpc' = "exit"
        /\ UNCHANGED <<status, nbready, errmsg, raised, wpc, round, throws, mround, error, failed>>
    BY DEF StartFails, LatchTimeout, MasterGoto, workerVars
  <1>2. RoundsInStep' /\ NeverUnreachable'
    BY <1>1, SyncFacts DEF RoundsInStep, NeverUnreachable
  <1>3. TypeOK'
    BY <1>1 DEF SyncInv, TypeOK
  <1> QED
    BY <1>1, <1>2, <1>3 DEF SyncInv, MasterInv

LEMMA NotifySync ==
  ASSUME SyncInv, MasterNotify PROVE SyncInv'
  <1>1. /\ UNCHANGED <<nbready, errmsg, raised, wpc, round, throws, mround, error>>
        /\ mpc = "notify" /\ mpc' = "wait" /\ status' = "Wait" /\ failed' = {}
    BY DEF MasterNotify, MasterGoto, workerVars
  <1>2. nbready = 0 /\ ~raised /\ \A w \in Workers : Fresh(w)
    BY <1>1 DEF SyncInv, MasterInv
  <1>3. TypeOK'
    BY <1>1 DEF SyncInv, TypeOK
  <1>4. CountedIn' = {}
    BY <1>1, <1>2 DEF CountedIn, Fresh
  <1>5. Entering'
    BY <1>1, <1>2, <1>4, FS_EmptySet DEF Entering, EnteringOf, Fresh
  <1> QED
    BY <1>1, <1>3, <1>5 DEF SyncInv, MasterInv

LEMMA LatchWaitSync ==
  ASSUME SyncInv, LatchWait PROVE SyncInv'
  <1>1. /\ UNCHANGED <<status, nbready, errmsg, wpc, round, throws, mround, error, failed>>
        /\ mpc = "wait" /\ mpc' = "status" /\ raised /\ raised' = FALSE
    BY DEF LatchWait, MasterGoto, workerVars
  <1>2. Verdict /\ \A w \in Workers : Out(w)
    BY <1>1 DEF SyncInv, MasterInv, Entering, Running, Ended, EndedOf
  <1>3. TypeOK'
    BY <1>1 DEF SyncInv, TypeOK
  <1>4. Verdict' /\ \A w \in Workers : Out(w)'
    BY <1>1, <1>2 DEF Verdict, Out
  <1> QED
    BY <1>1, <1>3, <1>4 DEF SyncInv, MasterInv

LEMMA ResultSync ==
  ASSUME SyncInv, MasterResult PROVE SyncInv'
  <1>1. /\ UNCHANGED <<status, nbready, errmsg, raised, wpc, round, throws, failed>>
        /\ mpc = "status"
    BY DEF MasterResult, MasterGoto, workerVars
  <1>2. ~raised /\ Verdict /\ \A w \in Workers : Out(w)
    BY <1>1 DEF SyncInv, MasterInv
  <1>3. CASE status = "Done" /\ mround < Rounds
    <2>1. mpc' = "notify" /\ mround' = mround + 1 /\ error' = error
      BY <1>3 DEF MasterResult, MasterGoto
    <2>2. TypeOK'
      BY <1>1, <1>3, <2>1, SyncAssumption DEF SyncInv, TypeOK
    <2>3. nbready = 0 /\ \A w \in Workers : ~throws[w]
      BY <1>2, <1>3 DEF Verdict
    <2>4. \A w \in Workers : Fresh(w)'
      BY <1>1, <1>2, <2>1, <2>3 DEF Out, Fresh
    <2> QED
      BY <1>1, <1>2, <1>3, <2>1, <2>2, <2>3, <2>4 DEF SyncInv, MasterInv
  <1>4. CASE status = "Fail" \/ (status = "Done" /\ ~(mround < Rounds))
    <2>1. mpc' = "quit" /\ mround' = mround /\ error' \in BOOLEAN
      BY <1>4 DEF MasterResult, MasterGoto, SyncInv, TypeOK
    <2>2. TypeOK'
      BY <1>1, <2>1 DEF SyncInv, TypeOK
    <2>3. \A w \in Workers : wpc'[w] \in {"poll", "exited"}
      BY <1>1, <1>2 DEF Out
    <2> QED
      BY <1>1, <1>4, <2>1, <2>2, <2>3 DEF SyncInv, MasterInv
  <1> QED
    BY <1>2, <1>3, <1>4 DEF Verdict

LEMMA QuitSync ==
  ASSUME SyncInv, MasterQuit \/ MasterJoin PROVE SyncInv'
  <1>1. UNCHANGED <<nbready, errmsg, raised, wpc, round, throws, mround, error, failed>>
    BY DEF MasterQuit, MasterJoin, workerVars
  <1>2. CASE MasterQuit
    <2>1. mpc = "quit" /\ mpc' = "join" /\ status' = "Quit"
      BY <1>2 DEF MasterQuit, MasterGoto
    <2> QED
      BY <1>1, <2>1 DEF SyncInv, TypeOK, MasterInv
  <1>3. CASE MasterJoin
    <2>1. mpc = "join" /\ mpc' = "returned" /\ status' = status /\ \A w \in Workers : wpc[w] = "exited"
      BY <1>3 DEF MasterJoin, MasterGoto
    <2> QED
      BY <1>1, <2>1 DEF SyncInv, TypeOK, MasterInv
  <1> QED
    BY <1>2, <1>3

LEMMA MasterSync ==
  ASSUME SyncInv, Master \/ StartFails \/ LatchTimeout PROVE SyncInv'
  BY StartWorkersSync, ExitSync, NotifySync, LatchWaitSync, ResultSync, QuitSync DEF Master

\* measure() is called for the next library.
LEMMA CreatedSync ==
  ASSUME SyncInv, mpc \in {"start", "returned"}, mpc' = "start",
         UNCHANGED <<status, nbready, errmsg, raised, workerVars, mround, error, failed>>
  PROVE  SyncInv'
  BY DEF SyncInv, TypeOK, MasterInv, workerVars

\* Nothing of a round changes.
LEMMA SameSync ==
  ASSUME SyncInv, UNCHANGED vars PROVE SyncInv'
  <1>1. UNCHANGED <<status, nbready, errmsg, raised, wpc, round, throws, mpc, mround, error, failed>>
    BY DEF vars, workerVars, masterVars
  <1>2. TypeOK'
    BY <1>1 DEF SyncInv, TypeOK
  <1>3. (Entering => Entering') /\ (Running => Running') /\ (Ended => Ended') /\ (Verdict => Verdict')
    BY <1>1 DEF Entering, EnteringOf, CountedIn, Running, RunningOf, CountedOut, Out, Ended, EndedOf, Verdict
  <1>4. \A w \in Workers : (Fresh(w) => Fresh(w)') /\ (Out(w) => Out(w)')
    BY <1>1 DEF Fresh, Out
  <1>5. (RoundsInStep => RoundsInStep') /\ (NeverUnreachable => NeverUnreachable')
    BY <1>1 DEF RoundsInStep, NeverUnreachable
  <1> QED
    BY <1>1, <1>2, <1>3, <1>4, <1>5 DEF SyncInv, MasterInv

-----------------------------------------------------------------------------
(***************************************************************************)
(* The transactions of the workers.                                        *)
(***************************************************************************)
\* Worker w takes a step inside its part of the round; the others do not.
LEMMA OneTransaction ==
  ASSUME WrapperInv, NEW w \in Workers, wpc[w] = "work", wpc' = wpc,
         NEW to \in {"begin", "body", "unwind", "committed", "thrown"},
         tpc' = [tpc EXCEPT ![w] = to],
         aborted' \in [Workers -> BOOLEAN],
         \A u \in Workers \ {w} : aborted'[u] <=> aborted[u],
         NEW h \in {"none", "open", "closed"}, handle' = [handle EXCEPT ![w] = h],
         misused' = FALSE,
         to = "body" => h = "open" /\ ~aborted'[w],
         to = "unwind" => h = IF aborted'[w] THEN "closed" ELSE "open",
         to \in {"begin", "committed", "thrown"} => h # "open"
  PROVE  WrapperInv'
  <1>1. /\ tpc' \in [Workers -> {"begin", "body", "unwind", "committed", "thrown"}]
        /\ handle' \in [Workers -> {"none", "open", "closed"}]
        /\ tpc'[w] = to /\ handle'[w] = h
        /\ \A u \in Workers \ {w} : tpc'[u] = tpc[u] /\ handle'[u] = handle[u]
    BY DEF WrapperInv
  <1>2. WrapperOf(w)'
    BY <1>1 DEF WrapperOf
  <1>3. \A u \in Workers \ {w} : WrapperOf(u)'
    BY <1>1 DEF WrapperInv, WrapperOf
  <1> QED
    BY <1>1, <1>2, <1>3 DEF WrapperInv

LEMMA TransactionWrapper ==
  ASSUME WrapperInv, NEW w \in Workers, Transaction(w), UNCHANGED vars
  PROVE  WrapperInv' /\ wpc[w] = "work"
  <1>1. wpc' = wpc
    BY DEF vars, workerVars
  <1>2. /\ WrapperOf(w) /\ misused = FALSE
        /\ aborted \in [Workers -> BOOLEAN]
        /\ handle \in [Workers -> {"none", "open", "closed"}]
    BY DEF WrapperInv
  <1>3. handle = [handle EXCEPT ![w] = handle[w]] /\ handle[w] \in {"none", "open", "closed"}
    BY <1>2
  <1>4. CASE TxBegin(w)
    <2>1. wpc[w] = "work" /\ handle[w] # "open" /\ aborted' = [aborted EXCEPT ![w] = FALSE]
      BY <1>2, <1>4 DEF TxBegin, TxGoto, WrapperOf
    <2>2. aborted' \in [Workers -> BOOLEAN] /\ ~aborted'[w] /\ \A u \in Workers \ {w} : aborted'[u] <=> aborted[u]
      BY <1>2, <2>1
    <2>3. \/ tpc' = [tpc EXCEPT ![w] = "body"] /\ handle' = [handle EXCEPT ![w] = "open"] /\ misused' = FALSE
          \/ tpc' = [tpc EXCEPT ![w] = "thrown"] /\ handle' = handle /\ misused' = FALSE
      BY <1>2, <1>4, <2>1 DEF TxBegin, TxGoto
    <2> QED
      BY <1>1, <1>3, <2>1, <2>2, <2>3, OneTransaction
  <1>5. CASE TxCallFails(w)
    <2>1. tpc[w] = "body" /\ aborted' = [aborted EXCEPT ![w] = TRUE]
      BY <1>5 DEF TxCallFails, TxGoto
    <2>2. aborted' \in [Workers -> BOOLEAN] /\ aborted'[w] /\ \A u \in Workers \ {w} : aborted'[u] <=> aborted[u]
      BY <1>2, <2>1
    <2>3. handle[w] = "open" /\ wpc[w] = "work"
      BY <1>2, <2>1 DEF WrapperOf
    <2>4. tpc' = [tpc EXCEPT ![w] = "unwind"] /\ handle' = [handle EXCEPT ![w] = "closed"] /\ misused' = FALSE
      BY <1>2, <1>5, <2>3 DEF TxCallFails, TxGoto
    <2> QED
      BY <1>1, <2>2, <2>3, <2>4, OneTransaction
  <1>6. CASE TxNoMem(w) \/ TxReturns(w)
    <2>1. tpc[w] = "body" /\ aborted' = aborted /\ handle' = handle
      BY <1>6 DEF TxNoMem, TxReturns, TxGoto
    <2>2. handle[w] = "open" /\ wpc[w] = "work" /\ ~aborted[w]
      BY <1>2, <2>1 DEF WrapperOf
    <2>3. tpc' = [tpc EXCEPT ![w] = "unwind"] /\ misused' = FALSE
      BY <1>2, <1>6, <2>2 DEF TxNoMem, TxReturns, TxGoto
    <2> QED
      BY <1>1, <1>2, <1>3, <2>1, <2>2, <2>3, OneTransaction
  <1>7. CASE TxDropped(w)
    <2>1. tpc[w] = "unwind" /\ aborted[w] /\ aborted' = aborted /\ handle' = handle /\ misused' = FALSE
      BY <1>2, <1>7 DEF TxDropped, TxGoto
    <2>2. handle[w] = "closed" /\ wpc[w] = "work"
      BY <1>2, <2>1 DEF WrapperOf
    <2>3. tpc' = [tpc EXCEPT ![w] = "begin"]
      BY <1>7 DEF TxDropped, TxGoto
    <2> QED
      BY <1>1, <1>2, <1>3, <2>1, <2>2, <2>3, OneTransaction
  <1>8. CASE TxEnds(w)
    <2>1. tpc[w] = "unwind" /\ ~aborted[w] /\ aborted' = aborted
      BY <1>8 DEF TxEnds, TxGoto
    <2>2. handle[w] = "open" /\ wpc[w] = "work"
      BY <1>2, <2>1 DEF WrapperOf
    <2>3. /\ \E to \in {"begin", "committed", "thrown"} : tpc' = [tpc EXCEPT ![w] = to]
          /\ handle' = [handle EXCEPT ![w] = "closed"] /\ misused' = FALSE
      BY <1>2, <1>8, <2>2 DEF TxEnds, TxGoto
    <2>4. PICK to \in {"begin", "committed", "thrown"} : tpc' = [tpc EXCEPT ![w] = to]
      BY <2>3
    <2> QED
      BY <1>1, <1>2, <2>1, <2>2, <2>3, <2>4, OneTransaction
  <1> QED
    BY <1>4, <1>5, <1>6, <1>7, <1>8 DEF Transaction

\* The work ends only after the transaction has.
LEMMA EndWorkWrapper ==
  ASSUME WrapperInv, SyncInv, NEW w \in Workers, EndWork(w)
  PROVE  WrapperInv'
  <1>1. /\ wpc[w] = "work" /\ tpc[w] \in {"begin", "committed", "thrown"}
        /\ tpc' = [tpc EXCEPT ![w] = "begin"]
        /\ aborted' = [aborted EXCEPT ![w] = FALSE]
        /\ handle' = [handle EXCEPT ![w] = "none"]
    BY DEF EndWork, Work, Goto
  <1>2. \A u \in Workers \ {w} : wpc'[u] = wpc[u]
    BY DEF EndWork, Work, Goto, SyncInv, TypeOK
  <1>3. handle[w] # "open" /\ misused = FALSE
    BY <1>1 DEF WrapperInv, WrapperOf
  <1>4. misused' = FALSE
    BY <1>3 DEF EndWork
  <1>5. /\ tpc' \in [Workers -> {"begin", "body", "unwind", "committed", "thrown"}]
        /\ handle' \in [Workers -> {"none", "open", "closed"}]
        /\ aborted' \in [Workers -> BOOLEAN]
        /\ tpc'[w] = "begin" /\ handle'[w] = "none"
        /\ \A u \in Workers \ {w} :
             tpc'[u] = tpc[u] /\ handle'[u] = handle[u] /\ (aborted'[u] <=> aborted[u])
    BY <1>1 DEF WrapperInv
  <1>6. \A u \in Workers : WrapperOf(u)'
    BY <1>2, <1>5 DEF WrapperInv, WrapperOf
  <1> QED
    BY <1>4, <1>5, <1>6 DEF WrapperInv

\* No step of another part ends the work of a worker.
LEMMA OthersWrapper ==
  ASSUME WrapperInv, UNCHANGED wrapperVars,
         \A u \in Workers : wpc'[u] # "work" => wpc[u] # "work"
  PROVE  WrapperInv'
  BY DEF WrapperInv, WrapperOf, wrapperVars

LEMMA InSyncWork ==
  ASSUME SyncInv, NEW w \in Workers, InSync(w), NEW u \in Workers, wpc[u] = "work"
  PROVE  wpc'[u] = "work"
  <1>1. \E to : wpc' = [wpc EXCEPT ![w] = to]
    BY DEF InSync, PollStatus, CountIn, ResetIn, StartRun, AwaitRun, StoreError, StoreAbort,
           CountOut, ResetOut, LoadStatus, StoreVerdict, LatchRaise, NextRound, Goto
  <1>2. wpc[w] # "work"
    BY DEF InSync, PollStatus, CountIn, ResetIn, StartRun, AwaitRun, StoreError, StoreAbort,
           CountOut, ResetOut, LoadStatus, StoreVerdict, LatchRaise, NextRound, Goto
  <1> QED
    BY <1>1, <1>2 DEF SyncInv, TypeOK

LEMMA MasterWork ==
  ASSUME SyncInv, Master \/ StartFails \/ LatchTimeout, NEW u \in Workers, wpc[u] = "work"
  PROVE  wpc'[u] = "work"
  <1>1. ~StartWorkers
    BY DEF StartWorkers, MasterGoto, SyncInv, MasterInv
  <1> QED
    BY <1>1 DEF Master, StartFails, LatchTimeout, MasterNotify, LatchWait, MasterResult, MasterQuit,
                MasterJoin, workerVars

\* A worker is inside its part of the round only while measure() runs, and has a
\* transaction only there.
LEMMA IdleWorkers ==
  ASSUME SyncInv, WrapperInv, Idle
  PROVE  \A w \in Workers : wpc[w] = "exited" /\ ~Working(w)
  BY DEF SyncInv, MasterInv, WrapperInv, WrapperOf, Idle, Working

-----------------------------------------------------------------------------
(***************************************************************************)
(* The region, and bounded_run.                                            *)
(***************************************************************************)
LEMMA CreateRegion ==
  ASSUME RegionInv, tm_create
  PROVE  RegionInv' /\ rpc \notin {"ready", "gone"} /\ rpc' \in Making
  <1>1. CASE NewRegion
    BY <1>1 DEF NewRegion, RegionInv, RegionGoto, Obtain, Refuse, GiveBack, Making
  <1>2. CASE NewLocks
    BY <1>2 DEF NewLocks, RegionInv, RegionGoto, Obtain, Refuse, GiveBack, DeleteRegion, Making
  <1>3. CASE AllocStart
    BY <1>3 DEF AllocStart, RegionInv, RegionGoto, Obtain, Refuse, GiveBack, DeleteRegion, Making
  <1>4. CASE ZeroStart
    BY <1>4 DEF ZeroStart, RegionInv, RegionGoto, Making
  <1> QED
    BY <1>1, <1>2, <1>3, <1>4 DEF tm_create

LEMMA DestroyRegion ==
  ASSUME RegionInv, tm_destroy
  PROVE  RegionInv' /\ rpc = "ready" /\ rpc' = "gone"
  BY DEF tm_destroy, RegionInv, RegionGoto, GiveBack, DeleteRegion

LEMMA CallerRun ==
  ASSUME RunInv, Caller \/ SpuriousWake
  PROVE  RunInv' /\ runner' = runner /\ caller # "out"
  BY DEF Caller, SpuriousWake, EnterWait, CallerWakes, WaitTimeout, JoinRunner, RunInv

LEMMA RunnerRun ==
  ASSUME RunInv, Runner
  PROVE  /\ RunInv' /\ runner \in PastFunc /\ runner' \in PastFunc
         /\ (caller = "overrun" => caller' = "overrun")
         /\ caller # "out" /\ caller' # "out"
  <1>1. CASE RunnerNotify
    BY <1>1 DEF RunnerNotify, RunInv, InFrame, PastFunc
  <1>2. CASE RunnerUnlock
    BY <1>2 DEF RunnerUnlock, RunInv, PastFunc
  <1>3. CASE RunnerStrays
    BY <1>3 DEF RunnerStrays, RunInv, InFrame, PastFunc
  <1> QED
    BY <1>1, <1>2, <1>3 DEF Runner

LEMMA FuncRun ==
  ASSUME RunInv, FuncReturns
  PROVE  RunInv' /\ caller' = caller /\ caller # "out" /\ runner' = "lock"
  <1>1. CASE InFrame
    BY <1>1 DEF FuncReturns, RunInv, InFrame
  <1>2. CASE ~InFrame
    BY <1>2 DEF FuncReturns, RunInv, InFrame
  <1> QED
    BY <1>1, <1>2

-----------------------------------------------------------------------------
(***************************************************************************)
(* main(): each of its steps, and those of the other threads, preserve the *)
(* invariants of all parts.                                                *)
(***************************************************************************)
LEMMA InitEval == ASSUME EvalInit PROVE EvalInv
  <1>1. SyncInv
    BY InitSync DEF EvalInit
  <1>2. WrapperInv
    BY DEF EvalInit, Init, WrapperInit, WrapperInv, WrapperOf
  <1>3. RegionInv /\ RunInv
    BY DEF EvalInit, RegionInit, RunInit, RegionInv, RunInv
  <1>4. StageInv
    BY DEF EvalInit, Init, RegionInit, RunInit, StageInv, Idle, NoRun
  <1> QED
    BY <1>1, <1>2, <1>3, <1>4 DEF EvalInv

\* What a step of one part leaves alone.
LEMMA SameMeasure ==
  ASSUME EvalInv, UNCHANGED <<vars, wrapperVars>>
  PROVE  SyncInv' /\ WrapperInv' /\ (Idle' <=> Idle)
  <1>1. wpc' = wpc /\ mpc' = mpc
    BY DEF vars, workerVars, masterVars
  <1> QED
    BY <1>1, SameSync, OthersWrapper DEF EvalInv, Idle

LEMMA SameRegion == ASSUME RegionInv, UNCHANGED regionVars PROVE RegionInv' /\ rpc' = rpc
  BY DEF RegionInv, regionVars

LEMMA SameRun ==
  ASSUME RunInv, UNCHANGED runVars
  PROVE  RunInv' /\ caller' = caller /\ runner' = runner
  BY DEF RunInv, runVars

LEMMA LoadEval == ASSUME EvalInv, Load PROVE EvalInv'
  <1>1. SyncInv' /\ WrapperInv' /\ RegionInv' /\ RunInv' /\ (Idle' <=> Idle)
    BY SameMeasure, SameRegion, SameRun DEF Load, EvalInv
  <1>2. rpc' = rpc /\ caller' = caller /\ runner' = runner
    BY DEF Load, regionVars, runVars
  <1>3. stage = "load" /\ Idle /\ NoRun /\ rpc = "none" /\ result = "none"
    BY DEF Load, StageGoto, EvalInv, StageInv
  <1>4. runner = "none"
    BY <1>3 DEF EvalInv, RunInv, NoRun
  <1>5. StageInv'
    BY <1>1, <1>2, <1>3, <1>4 DEF Load, StageGoto, StageInv, Leaving, NoRun, Making, PastFunc
  <1> QED
    BY <1>1, <1>5 DEF EvalInv

LEMMA UnloadEval == ASSUME EvalInv, Unload PROVE EvalInv'
  <1>1. SyncInv' /\ WrapperInv' /\ RunInv' /\ (Idle' <=> Idle)
    BY SameMeasure, SameRun DEF Unload, EvalInv
  <1>2. caller' = caller /\ UNCHANGED <<blocks, fields, misfreed, refused>> /\ loaded' = FALSE
    BY DEF Unload, runVars
  <1>3. /\ stage = "unload" /\ Idle
        /\ \/ result \in {"none", "error"} /\ NoRun /\ rpc = "gone"
           \/ result = "error" /\ NoRun /\ rpc = "none"
           \/ result = "overrun" /\ caller = "overrun" /\ rpc \in Making
    BY DEF Unload, StageGoto, EvalInv, StageInv
  <1>4. \/ rpc' = "none" /\ rpc = "gone" /\ stage' = "load" /\ result = "none" /\ result' = "none"
        \/ rpc' = rpc /\ stage' = "leave" /\ result = "none" /\ result' = "ok"
        \/ rpc' = rpc /\ stage' = "leave" /\ result \in {"error", "overrun"} /\ result' = result
    BY <1>3 DEF Unload, StageGoto
  <1>5. RegionInv'
    BY <1>2, <1>4 DEF EvalInv, RegionInv
  <1>6. StageInv'
    BY <1>1, <1>2, <1>3, <1>4 DEF StageInv, Leaving, NoRun, Making
  <1> QED
    BY <1>1, <1>5, <1>6 DEF EvalInv

LEMMA LeaveEval == ASSUME EvalInv, Leave PROVE EvalInv'
  <1>1. SyncInv' /\ WrapperInv' /\ RegionInv' /\ RunInv' /\ (Idle' <=> Idle)
    BY SameMeasure, SameRegion, SameRun DEF Leave, EvalInv
  <1>2. rpc' = rpc /\ caller' = caller /\ loaded' = loaded /\ result' = result
    BY DEF Leave, regionVars, runVars
  <1>3. stage = "leave" /\ Idle /\ Leaving /\ stage' = "exited"
    BY DEF Leave, StageGoto, EvalInv, StageInv
  <1>4. StageInv'
    BY <1>1, <1>2, <1>3 DEF StageInv, Leaving, NoRun
  <1> QED
    BY <1>1, <1>4 DEF EvalInv

\* The steps of main() in bounded_run.
LEMMA CallRunEval == ASSUME EvalInv, CallRun PROVE EvalInv'
  <1>1. SyncInv' /\ WrapperInv' /\ RegionInv' /\ (Idle' <=> Idle)
    BY SameMeasure, SameRegion DEF CallRun, EvalInv
  <1>2. rpc' = rpc /\ stage' = stage /\ loaded' = loaded /\ result' = result
    BY DEF CallRun, regionVars, mainVars
  <1>3. RunInv' /\ caller = "out" /\ runner' = "func"
    BY DEF CallRun, StartRunner, EvalInv, RunInv
  <1>4. StageInv'
    BY <1>1, <1>2, <1>3 DEF CallRun, Side, EvalInv, StageInv, PastFunc
  <1> QED
    BY <1>1, <1>3, <1>4 DEF EvalInv

LEMMA RefusedEval == ASSUME EvalInv, CreateRefused \/ DestroyRefused PROVE EvalInv'
  <1>1. UNCHANGED runVars /\ caller = "out"
    BY DEF CreateRefused, DestroyRefused, StartRunnerFails
  <1>2. SyncInv' /\ WrapperInv' /\ RegionInv' /\ RunInv' /\ (Idle' <=> Idle)
    BY <1>1, SameMeasure, SameRegion, SameRun DEF CreateRefused, DestroyRefused, EvalInv
  <1>3. rpc' = rpc /\ caller' = caller /\ runner = "none" /\ loaded' = loaded
    BY <1>1 DEF CreateRefused, DestroyRefused, regionVars, runVars, EvalInv, RunInv
  <1>4. \/ stage = "create" /\ stage' = "unload" /\ result' = "error"
        \/ stage = "destroy" /\ stage' = "terminated" /\ result' = result
    BY DEF CreateRefused, DestroyRefused, StageGoto
  <1>5. StageInv'
    BY <1>1, <1>2, <1>3, <1>4 DEF EvalInv, StageInv, NoRun
  <1> QED
    BY <1>2, <1>5 DEF EvalInv

LEMMA InRunEval == ASSUME EvalInv, InRun PROVE EvalInv'
  <1>1. SyncInv' /\ WrapperInv' /\ RegionInv' /\ (Idle' <=> Idle)
    BY SameMeasure, SameRegion DEF InRun, EvalInv
  <1>2. rpc' = rpc /\ stage' = stage /\ loaded' = loaded /\ result' = result
    BY DEF InRun, regionVars, mainVars
  <1>3. RunInv' /\ runner' = runner
    BY CallerRun DEF InRun, EvalInv
  <1>4. StageInv'
    BY <1>1, <1>2, <1>3 DEF InRun, Side, EvalInv, StageInv
  <1> QED
    BY <1>1, <1>3, <1>4 DEF EvalInv

LEMMA CreatedEval == ASSUME EvalInv, Created PROVE EvalInv'
  <1>1. /\ stage = "create" /\ stage' = "measure" /\ caller = "returned" /\ caller' = "out"
        /\ runner' = "none" /\ mutex' = mutex /\ stray' = stray
        /\ loaded' = loaded /\ result' = result
    BY DEF Created, StageGoto
  <1>2. runner = "done" /\ mutex = "free" /\ Idle /\ loaded /\ result = "none" /\ rpc = "ready"
    BY <1>1 DEF EvalInv, RunInv, StageInv, PastFunc
  <1>3. SyncInv'
    BY <1>2, CreatedSync DEF Created, EvalInv, Idle
  <1>4. WrapperInv'
    BY OthersWrapper DEF Created, EvalInv, workerVars
  <1>5. RegionInv' /\ rpc' = rpc
    BY SameRegion DEF Created, EvalInv
  <1>6. RunInv'
    BY <1>1, <1>2 DEF EvalInv, RunInv
  <1>7. StageInv'
    BY <1>1, <1>2, <1>5 DEF StageInv, NoRun
  <1> QED
    BY <1>3, <1>4, <1>5, <1>6, <1>7 DEF EvalInv

LEMMA DestroyedEval == ASSUME EvalInv, Destroyed PROVE EvalInv'
  <1>1. /\ stage = "destroy" /\ stage' = "unload" /\ caller = "returned" /\ caller' = "out"
        /\ runner' = "none" /\ mutex' = mutex /\ stray' = stray
        /\ loaded' = loaded /\ result' = result
    BY DEF Destroyed, StageGoto
  <1>2. /\ runner = "done" /\ mutex = "free" /\ Idle /\ loaded
        /\ result \in {"none", "error"} /\ rpc = "gone"
    BY <1>1 DEF EvalInv, RunInv, StageInv, PastFunc
  <1>3. SyncInv' /\ WrapperInv' /\ RegionInv' /\ rpc' = rpc /\ (Idle' <=> Idle)
    BY SameMeasure, SameRegion DEF Destroyed, EvalInv
  <1>4. RunInv'
    BY <1>1, <1>2 DEF EvalInv, RunInv
  <1>5. StageInv'
    BY <1>1, <1>2, <1>3 DEF StageInv, NoRun
  <1> QED
    BY <1>3, <1>4, <1>5 DEF EvalInv

LEMMA OverranEval == ASSUME EvalInv, CreateOverran \/ DestroyOverran PROVE EvalInv'
  <1>1. SyncInv' /\ WrapperInv' /\ RegionInv' /\ RunInv' /\ (Idle' <=> Idle)
    BY SameMeasure, SameRegion, SameRun DEF CreateOverran, DestroyOverran, EvalInv
  <1>2. rpc' = rpc /\ caller' = caller /\ caller = "overrun" /\ loaded' = loaded
    BY DEF CreateOverran, DestroyOverran, regionVars, runVars
  <1>3. \/ stage = "create" /\ stage' = "unload" /\ result' = "overrun"
        \/ stage = "destroy" /\ stage' = "terminated" /\ result' = result
    BY DEF CreateOverran, DestroyOverran, StageGoto
  <1>4. StageInv'
    BY <1>1, <1>2, <1>3 DEF EvalInv, StageInv
  <1> QED
    BY <1>1, <1>4 DEF EvalInv

\* The steps of the runner.
LEMMA RunLibraryEval == ASSUME EvalInv, RunLibrary PROVE EvalInv'
  <1>1. SyncInv' /\ WrapperInv' /\ RunInv' /\ (Idle' <=> Idle)
    BY SameMeasure, SameRun DEF RunLibrary, EvalInv
  <1>2. caller' = caller /\ runner' = runner /\ runner = "func" /\ loaded' = loaded /\ result' = result
    BY DEF RunLibrary, runVars
  <1>3. caller # "out" /\ runner # "none" /\ runner \notin PastFunc
    BY <1>2 DEF EvalInv, RunInv, PastFunc
  <1>4. CASE loaded /\ stage = "destroy"
    <2>1. tm_destroy /\ stage' = stage
      BY <1>4 DEF RunLibrary
    <2>2. RegionInv' /\ rpc = "ready" /\ rpc' = "gone"
      BY <2>1, DestroyRegion DEF EvalInv
    <2>3. StageInv'
      BY <1>1, <1>2, <1>3, <1>4, <2>1, <2>2 DEF EvalInv, StageInv
    <2> QED
      BY <1>1, <2>2, <2>3 DEF EvalInv
  <1>5. CASE loaded /\ stage # "destroy"
    <2>1. tm_create /\ stage' = stage
      BY <1>5 DEF RunLibrary
    <2>2. RegionInv' /\ rpc \notin {"ready", "gone"} /\ rpc' \in Making
      BY <2>1, CreateRegion DEF EvalInv
    <2>3. stage \notin {"exited", "terminated"}
      BY DEF RunLibrary, Alive
    <2>4. StageInv'
      BY <1>1, <1>2, <1>3, <1>5, <2>1, <2>2, <2>3 DEF EvalInv, StageInv, Leaving, NoRun
    <2> QED
      BY <1>1, <2>2, <2>4 DEF EvalInv
  <1>6. CASE ~loaded
    <2>1. stage' = "terminated" /\ stage \notin {"exited", "terminated"} /\ RegionInv'
      BY <1>6, SameRegion DEF RunLibrary, Alive, EvalInv
    <2>2. StageInv'
      BY <1>1, <1>2, <1>3, <1>6, <2>1 DEF EvalInv, StageInv, Leaving, NoRun
    <2> QED
      BY <1>1, <2>1, <2>2 DEF EvalInv
  <1> QED
    BY <1>4, <1>5, <1>6

LEMMA EndFuncEval == ASSUME EvalInv, EndFunc PROVE EvalInv'
  <1>1. SyncInv' /\ WrapperInv' /\ RegionInv' /\ rpc' = rpc /\ (Idle' <=> Idle)
    BY SameMeasure, SameRegion DEF EndFunc, EvalInv
  <1>2. /\ loaded' = loaded /\ result' = result /\ runner = "func"
        /\ stage \notin {"exited", "terminated"}
    BY DEF EndFunc, FuncReturns, Alive
  <1>3. caller # "out"
    BY <1>2 DEF EvalInv, RunInv
  <1>4. CASE FuncReturns /\ stage' = stage /\ rpc \in (IF stage = "destroy" THEN {"gone"} ELSE {"ready"})
    <2>1. RunInv' /\ caller' = caller /\ runner' = "lock"
      BY <1>4, FuncRun DEF EvalInv
    <2>2. StageInv'
      BY <1>1, <1>2, <1>3, <1>4, <2>1 DEF EvalInv, StageInv, Leaving, NoRun, PastFunc
    <2> QED
      BY <1>1, <2>1, <2>2 DEF EvalInv
  <1>5. CASE rpc = "invalid" /\ stage' = "terminated" /\ UNCHANGED runVars
    <2>1. RunInv'
      BY <1>5, SameRun DEF EvalInv
    <2>2. StageInv'
      BY <1>1, <1>2, <1>3, <1>5 DEF EvalInv, StageInv, Leaving, NoRun
    <2> QED
      BY <1>1, <2>1, <2>2 DEF EvalInv
  <1> QED
    BY <1>4, <1>5 DEF EndFunc

LEMMA RunnerStepEval == ASSUME EvalInv, RunnerStep PROVE EvalInv'
  <1>1. SyncInv' /\ WrapperInv' /\ RegionInv' /\ rpc' = rpc /\ (Idle' <=> Idle)
    BY SameMeasure, SameRegion DEF RunnerStep, EvalInv
  <1>2. /\ RunInv' /\ runner \in PastFunc /\ runner' \in PastFunc
        /\ (caller = "overrun" => caller' = "overrun")
        /\ caller # "out" /\ caller' # "out"
    BY RunnerRun DEF RunnerStep, EvalInv
  <1>3. UNCHANGED <<stage, loaded, result>>
    BY DEF RunnerStep, mainVars
  <1>4. StageInv'
    BY <1>1, <1>2, <1>3 DEF EvalInv, StageInv, Leaving, NoRun, PastFunc
  <1> QED
    BY <1>1, <1>2, <1>4 DEF EvalInv

\* The steps of measure() and its workers.
LEMMA MeasureEval == ASSUME EvalInv, MeasureStep PROVE EvalInv'
  <1>1. Master \/ StartFails \/ LatchTimeout
    BY DEF MeasureStep
  <1>2. SyncInv'
    BY <1>1, MasterSync DEF EvalInv
  <1>3. \A u \in Workers : wpc'[u] # "work" => wpc[u] # "work"
    BY <1>1, MasterWork DEF EvalInv
  <1>4. WrapperInv' /\ RegionInv' /\ RunInv' /\ rpc' = rpc /\ caller' = caller
    BY <1>3, OthersWrapper, SameRegion, SameRun DEF MeasureStep, EvalInv
  <1>5. StageInv'
    BY <1>4 DEF MeasureStep, mainVars, EvalInv, StageInv, NoRun
  <1> QED
    BY <1>2, <1>4, <1>5 DEF EvalInv

\* A worker's step leaves the master and the other parts alone.
LEMMA WorkerStage ==
  ASSUME EvalInv, UNCHANGED <<regionVars, runVars, mainVars>>, mpc' = mpc
  PROVE  RegionInv' /\ RunInv' /\ StageInv'
  <1>1. RegionInv' /\ RunInv' /\ rpc' = rpc /\ caller' = caller /\ runner' = runner
    BY SameRegion, SameRun DEF EvalInv
  <1>2. StageInv'
    BY <1>1 DEF mainVars, EvalInv, StageInv, Leaving, Idle, NoRun
  <1> QED
    BY <1>1, <1>2

LEMMA SyncStepEval == ASSUME EvalInv, NEW w \in Workers, SyncStep(w) PROVE EvalInv'
  <1>1. InSync(w) /\ UNCHANGED <<wrapperVars, regionVars, runVars, mainVars>>
    BY DEF SyncStep
  <1>2. SyncInv'
    BY <1>1, WorkerSync DEF EvalInv
  <1>3. WrapperInv'
    BY <1>1, InSyncWork, OthersWrapper DEF EvalInv
  <1>4. mpc' = mpc
    BY <1>1 DEF InSync, PollStatus, CountIn, ResetIn, StartRun, AwaitRun, StoreError, StoreAbort,
                CountOut, ResetOut, LoadStatus, StoreVerdict, LatchRaise, masterVars
  <1> QED
    BY <1>1, <1>2, <1>3, <1>4, WorkerStage DEF EvalInv

LEMMA RoundStepEval == ASSUME EvalInv, NEW w \in Workers, RoundStep(w) PROVE EvalInv'
  <1>1. UNCHANGED <<regionVars, runVars, mainVars>>
    BY DEF RoundStep
  <1>2. CASE Transaction(w) /\ UNCHANGED vars
    BY <1>1, <1>2, SameSync, TransactionWrapper, WorkerStage DEF EvalInv, vars, masterVars
  <1>3. CASE EndWork(w)
    BY <1>1, <1>3, WorkSync, EndWorkWrapper, WorkerStage DEF EvalInv, EndWork, Work, masterVars
  <1> QED
    BY <1>2, <1>3 DEF RoundStep

LEMMA MeasuredEval == ASSUME EvalInv, Measured PROVE EvalInv'
  <1>1. SyncInv' /\ WrapperInv' /\ RegionInv' /\ RunInv' /\ (Idle' <=> Idle)
    BY SameMeasure, SameRegion, SameRun DEF Measured, EvalInv
  <1>2. rpc' = rpc /\ caller' = caller /\ runner' = runner /\ loaded' = loaded
    BY DEF Measured, regionVars, runVars
  <1>3. /\ stage = "measure" /\ stage' = "destroy" /\ Idle /\ result' \in {"none", "error"}
    BY DEF Measured, StageGoto, Idle
  <1>4. loaded /\ NoRun /\ rpc = "ready" /\ runner = "none"
    BY <1>3 DEF EvalInv, StageInv, RunInv, NoRun
  <1>5. StageInv'
    BY <1>1, <1>2, <1>3, <1>4 DEF StageInv, PastFunc
  <1> QED
    BY <1>1, <1>5 DEF EvalInv

LEMMA QuickExitEval == ASSUME EvalInv, QuickExit PROVE EvalInv'
  <1>1. SyncInv' /\ WrapperInv' /\ RegionInv' /\ RunInv'
    BY SameMeasure, SameRegion, SameRun DEF QuickExit, EvalInv
  <1>2. rpc' = rpc /\ caller' = caller /\ loaded' = loaded /\ result' = "quick"
    BY DEF QuickExit, regionVars, runVars
  <1>3. stage = "measure" /\ stage' = "exited"
    BY DEF QuickExit, StageGoto
  <1>4. StageInv'
    BY <1>2, <1>3 DEF EvalInv, StageInv, NoRun
  <1> QED
    BY <1>1, <1>4 DEF EvalInv

LEMMA EvalStep == ASSUME EvalInv, [EvalNext]_allVars PROVE EvalInv'
  <1>1. CASE Main
    BY <1>1, LoadEval, CallRunEval, RefusedEval, InRunEval, CreatedEval, OverranEval, MeasureEval,
       MeasuredEval, QuickExitEval, DestroyedEval, UnloadEval, LeaveEval
    DEF Main
  <1>2. CASE InRunner
    BY <1>2, RunLibraryEval, EndFuncEval, RunnerStepEval DEF InRunner
  <1>3. CASE \E w \in Workers : SyncStep(w) \/ RoundStep(w)
    BY <1>3, SyncStepEval, RoundStepEval
  <1>4. CASE UNCHANGED allVars
    BY <1>4, SameMeasure, WorkerStage DEF allVars, EvalInv, vars, masterVars
  <1> QED
    BY <1>1, <1>2, <1>3, <1>4 DEF EvalNext, Stopped

-----------------------------------------------------------------------------
(***************************************************************************)
(* The theorems.                                                           *)
(***************************************************************************)
\* Every state of an evaluation satisfies the invariants of its parts: a round of
\* measure(), the transactions of the workers, the region, bounded_run, main().
THEOREM EvalInvariance == EvalSpec => []EvalInv
  <1>1. EvalInit => EvalInv
    BY InitEval
  <1>2. EvalInv /\ [EvalNext]_allVars => EvalInv'
    BY EvalStep
  <1> QED
    BY <1>1, <1>2, PTL DEF EvalSpec

\* Types of the variables of Sync, the latch and the threads of measure().
THEOREM SyncTypes == EvalSpec => []TypeOK
  <1>1. EvalInv => TypeOK
    BY DEF EvalInv, SyncInv
  <1> QED
    BY <1>1, EvalInvariance, PTL

\* However many workers there are and however they are scheduled, none works on a
\* round while another is in an earlier one, and none is ahead of the master
\* (worker_wait and worker_notify of Sync).
THEOREM RoundsTaken == EvalSpec => []RoundsInStep
  <1>1. EvalInv => RoundsInStep
    BY SyncFacts DEF EvalInv
  <1> QED
    BY <1>1, EvalInvariance, PTL

\* master_wait reads the verdict of all workers: no failure is lost between the
\* store of the message, the store of Abort and the load by the last worker.
THEOREM VerdictOfAll == EvalSpec => []VerdictRight
  <1>1. EvalInv => VerdictRight
    BY SyncFacts DEF EvalInv
  <1> QED
    BY <1>1, EvalInvariance, PTL

\* The exceptions that grading.cpp calls unreachable are not thrown.
THEOREM Unreachable == EvalSpec => []NeverUnreachable
  <1>1. EvalInv => NeverUnreachable
    BY SyncFacts DEF EvalInv
  <1> QED
    BY <1>1, EvalInvariance, PTL

\* The class Transaction never calls the library with a handle that was closed, nor
\* drops an open one, in whatever order calls, commits and exceptions come.
THEOREM HandlesKept == EvalSpec => []HandlesRespected
  <1>1. EvalInv => HandlesRespected
    BY DEF EvalInv, WrapperInv, WrapperOf, HandlesRespected
  <1> QED
    BY <1>1, EvalInvariance, PTL

\* tm_destroy runs only on a region that tm_create returned, when every worker has
\* left for good.
THEOREM DestroyedWhenIdle == EvalSpec => []DestroyedIdle
  <1>1. EvalInv => DestroyedIdle
    <2> SUFFICES ASSUME EvalInv, (stage = "destroy" /\ runner # "none") \/ rpc = "gone"
                 PROVE  rpc \in {"ready", "gone"} /\ \A w \in Workers : wpc[w] = "exited" /\ ~Working(w)
      BY DEF DestroyedIdle
    <2>1. Idle /\ rpc \in {"ready", "gone"}
      BY DEF EvalInv, StageInv, Making, Leaving
    <2> QED
      BY <2>1, IdleWorkers DEF EvalInv
  <1> QED
    BY <1>1, EvalInvariance, PTL

\* No worker is in a library that main() has unloaded, and the runner of bounded_run
\* is only after a creation that took too long.
THEOREM UnloadedWhenIdle == EvalSpec => []UnloadedIdle
  <1>1. EvalInv => UnloadedIdle
    <2> SUFFICES ASSUME EvalInv, ~loaded
                 PROVE  (\A w \in Workers : ~Working(w)) /\ (runner = "func" => result = "overrun")
      BY DEF UnloadedIdle
    <2>1. Idle /\ (caller = "out" \/ result = "overrun")
      BY DEF EvalInv, StageInv, Leaving, NoRun
    <2> QED
      BY <2>1, IdleWorkers DEF EvalInv, RunInv
  <1> QED
    BY <1>1, EvalInvariance, PTL

\* The destructor of MemoryRegion and the failure paths of tm_create give every
\* block back once, but for the locks when the first segment is refused.
THEOREM RegionBlocksFreed == EvalSpec => []RegionFreedOnce
  <1>1. EvalInv => RegionFreedOnce
    BY DEF EvalInv, RegionInv, StageInv, Leaving, RegionFreedOnce
  <1> QED
    BY <1>1, EvalInvariance, PTL

\* The locals of bounded_run exist whenever the runner uses them, unless the
\* caller gave it up.
THEOREM FrameKept == EvalSpec => []FrameOutlivesRunner
  <1>1. EvalInv => FrameOutlivesRunner
    BY DEF EvalInv, RunInv, FrameOutlivesRunner
  <1> QED
    BY <1>1, EvalInvariance, PTL

=============================================================================
