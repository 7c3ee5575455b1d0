---------------------------- MODULE GradingSync -----------------------------
(***************************************************************************)
(* The grading driver: the rounds that measure() runs (grading.cpp), the   *)
(* class Sync that starts the workers of a round together and reports its  *)
(* end, and the Latch (common.hpp) on which the master waits.              *)
(*                                                                         *)
(* Each access to an atomic is a step, and so is each critical section of  *)
(* the latch; a spinning loop is the step that ends it.  What a worker     *)
(* does in a round (init, run or check of the workload) is one step that   *)
(* returns, returns an error, or throws; Wrapper has the transactions in   *)
(* it.                                                                     *)
(***************************************************************************)
EXTENDS Naturals, FiniteSets

CONSTANTS
  Workers,
  Rounds       \* initialisation, nbrepeats measurements, correctness check

nbworkers == Cardinality(Workers)

ASSUME SyncAssumption ==
  /\ IsFiniteSet(Workers)
  /\ Workers # {}
  /\ Rounds \in Nat \ {0}

VARIABLES
  status,     \* Sync::status
  nbready,    \* Sync::nbready
  errmsg,     \* Sync::errmsg: whether a message was stored
  raised,     \* Latch::raised
  wpc,        \* where each worker is
  round,      \* round each worker is in
  throws,     \* whether a worker is in the catch block of measure()
  mpc,        \* where the master is
  mround,     \* round the master is in
  error       \* measure()'s error: whether a round failed

workerVars == <<wpc, round, throws>>
masterVars == <<mpc, mround, error>>

\* History: the workers that failed in the current round.
VARIABLE failed

vars == <<status, nbready, errmsg, raised, workerVars, masterVars, failed>>

\* measure() is called.
Init ==
  /\ status = "Done"
  /\ nbready = 0
  /\ errmsg = FALSE
  /\ raised = FALSE
  /\ wpc = [w \in Workers |-> "exited"]
  /\ round = [w \in Workers |-> 1]
  /\ throws = [w \in Workers |-> FALSE]
  /\ mpc = "start"
  /\ mround = 1
  /\ error = FALSE
  /\ failed = {}

\* An exception left measure() and its frame, with the threads detached: what they
\* still do with the Sync of that frame is not modelled, main() quits the process.
Exited == mpc = "exit"

Goto(w, from, to) ==
  /\ ~Exited
  /\ wpc[w] = from
  /\ wpc' = [wpc EXCEPT ![w] = to]

-----------------------------------------------------------------------------
(***************************************************************************)
(* The master.                                                             *)
(***************************************************************************)
MasterGoto(from, to) ==
  /\ mpc = from
  /\ mpc' = to

\* The constructor of Sync, and the threads: they run, and find the status Done.
StartWorkers ==
  /\ MasterGoto("start", "notify")
  /\ status' = "Done"
  /\ nbready' = 0
  /\ errmsg' = FALSE
  /\ raised' = FALSE
  /\ wpc' = [w \in Workers |-> "poll"]
  /\ round' = [w \in Workers |-> 1]
  /\ throws' = [w \in Workers |-> FALSE]
  /\ mround' = 1
  /\ error' = FALSE
  /\ failed' = {}

\* A thread cannot be started: the ones before it are detached.
StartFails ==
  /\ MasterGoto("start", "exit")
  /\ UNCHANGED <<status, nbready, errmsg, raised, workerVars, mround, error, failed>>

\* master_notify
MasterNotify ==
  /\ MasterGoto("notify", "wait")
  /\ status' = "Wait"
  /\ failed' = {}
  /\ UNCHANGED <<nbready, errmsg, raised, workerVars, mround, error>>

\* Mutant of LatchWait: the latch is not reset.
LatchWaitKeeps ==
  /\ MasterGoto("wait", "status")
  /\ raised
  /\ UNCHANGED <<status, nbready, errmsg, raised, workerVars, mround, error, failed>>

\* Latch::wait: the latch is raised, reset it.
LatchWait ==
  /\ MasterGoto("wait", "status")
  /\ raised
  /\ raised' = FALSE
  /\ UNCHANGED <<status, nbready, errmsg, workerVars, mround, error, failed>>

\* Latch::wait times out: master_wait throws and the threads are detached.
LatchTimeout ==
  /\ MasterGoto("wait", "exit")
  /\ ~raised
  /\ UNCHANGED <<status, nbready, errmsg, raised, workerVars, mround, error, failed>>

\* The rest of master_wait, and what measure() does with its result: the next
\* round, or the end after the last round or a failure.
MasterResult ==
  /\ \/ /\ status = "Done"
        /\ MasterGoto("status", IF mround < Rounds THEN "notify" ELSE "quit")
        /\ mround' = IF mround < Rounds THEN mround + 1 ELSE mround
        /\ UNCHANGED error
     \/ /\ status = "Fail"
        /\ MasterGoto("status", "quit")
        /\ error' = TRUE
        /\ UNCHANGED mround
     \/ /\ status \notin {"Done", "Fail"}
        /\ MasterGoto("status", "unreachable")
        /\ UNCHANGED <<mround, error>>
  /\ UNCHANGED <<status, nbready, errmsg, raised, workerVars, failed>>

\* master_join
MasterQuit ==
  /\ MasterGoto("quit", "join")
  /\ status' = "Quit"
  /\ UNCHANGED <<nbready, errmsg, raised, workerVars, mround, error, failed>>

\* The master joined every thread: measure() returns.
MasterJoin ==
  /\ MasterGoto("join", "returned")
  /\ \A w \in Workers : wpc[w] = "exited"
  /\ UNCHANGED <<status, nbready, errmsg, raised, workerVars, mround, error, failed>>

Master ==
  \/ StartWorkers
  \/ MasterNotify
  \/ LatchWait
  \/ MasterResult
  \/ MasterQuit
  \/ MasterJoin

-----------------------------------------------------------------------------
(***************************************************************************)
(* A worker.                                                               *)
(***************************************************************************)
\* worker_wait: the first loop ends.
PollStatus(w) ==
  /\ \/ status = "Wait" /\ Goto(w, "poll", "ready")
     \/ status = "Quit" /\ Goto(w, "poll", "exited")
  /\ UNCHANGED <<status, nbready, errmsg, raised, round, throws, masterVars, failed>>

\* worker_wait: count the worker in.
CountIn(w) ==
  /\ Goto(w, "ready", IF nbready + 1 = nbworkers THEN "reset" ELSE "await")
  /\ nbready' = nbready + 1
  /\ UNCHANGED <<status, errmsg, raised, round, throws, masterVars, failed>>

\* Mutant of ResetIn: the counter is not reset.
ResetInNot(w) ==
  /\ Goto(w, "reset", "start")
  /\ UNCHANGED <<status, nbready, errmsg, raised, round, throws, masterVars, failed>>

\* worker_wait, the latest worker: reset the counter...
ResetIn(w) ==
  /\ Goto(w, "reset", "start")
  /\ nbready' = 0
  /\ UNCHANGED <<status, errmsg, raised, round, throws, masterVars, failed>>

\* ... and start the run.
StartRun(w) ==
  /\ Goto(w, "start", "work")
  /\ status' = "Run"
  /\ UNCHANGED <<nbready, errmsg, raised, round, throws, masterVars, failed>>

\* Mutant of AwaitRun: the loop does not wait.
AwaitRunNot(w) ==
  /\ Goto(w, "await", "work")
  /\ UNCHANGED <<status, nbready, errmsg, raised, round, throws, masterVars, failed>>

\* worker_wait, the others: the run has started, possibly failed already.
AwaitRun(w) ==
  /\ status \in {"Run", "Abort"}
  /\ Goto(w, "await", "work")
  /\ UNCHANGED <<status, nbready, errmsg, raised, round, throws, masterVars, failed>>

\* The worker's part of the round returns nullptr, or an error, or throws; after
\* the last round there is none and the worker throws.
Work(w) ==
  /\ \/ /\ round[w] <= Rounds
        /\ Goto(w, "work", "count")
        /\ UNCHANGED <<throws, failed>>
     \/ /\ round[w] <= Rounds
        /\ Goto(w, "work", "error")
        /\ failed' = failed \cup {w}
        /\ UNCHANGED throws
     \/ /\ Goto(w, "work", "error")
        /\ failed' = failed \cup {w}
        /\ throws' = [throws EXCEPT ![w] = TRUE]
  /\ UNCHANGED <<status, nbready, errmsg, raised, round, masterVars>>

\* worker_notify(error): store the message...
StoreError(w) ==
  /\ Goto(w, "error", "abort")
  /\ errmsg' = TRUE
  /\ UNCHANGED <<status, nbready, raised, round, throws, masterVars, failed>>

\* Mutant of StoreAbort: the status is left alone.
StoreAbortNot(w) ==
  /\ Goto(w, "abort", "count")
  /\ UNCHANGED <<status, nbready, errmsg, raised, round, throws, masterVars, failed>>

\* ... and the status.
StoreAbort(w) ==
  /\ Goto(w, "abort", "count")
  /\ status' = "Abort"
  /\ UNCHANGED <<nbready, errmsg, raised, round, throws, masterVars, failed>>

\* The worker goes to its next worker_wait, or leaves the thread after an
\* exception.
NextRound(w, from) ==
  /\ Goto(w, from, IF throws[w] THEN "exited" ELSE "poll")
  /\ round' = [round EXCEPT ![w] = @ + 1]

\* Mutant of CountOut: the catch block does not notify.
CountOutNotThrown(w) ==
  /\ IF throws[w]
       THEN NextRound(w, "count") /\ UNCHANGED nbready
       ELSE /\ nbready' = nbready + 1
            /\ IF nbready + 1 = nbworkers
                 THEN Goto(w, "count", "clear") /\ UNCHANGED round
                 ELSE NextRound(w, "count")
  /\ UNCHANGED <<status, errmsg, raised, throws, masterVars, failed>>

\* worker_notify: count the worker out.
CountOut(w) ==
  /\ nbready' = nbready + 1
  /\ IF nbready + 1 = nbworkers
       THEN Goto(w, "count", "clear") /\ UNCHANGED round
       ELSE NextRound(w, "count")
  /\ UNCHANGED <<status, errmsg, raised, throws, masterVars, failed>>

\* worker_notify, the latest worker: reset the counter...
ResetOut(w) ==
  /\ Goto(w, "clear", "verdict")
  /\ nbready' = 0
  /\ UNCHANGED <<status, errmsg, raised, round, throws, masterVars, failed>>

\* ... load the status, store the verdict...
LoadStatus(w) ==
  /\ Goto(w, "verdict", IF status = "Abort" THEN "fail" ELSE "done")
  /\ UNCHANGED <<status, nbready, errmsg, raised, round, throws, masterVars, failed>>

StoreVerdict(w) ==
  /\ \/ Goto(w, "fail", "raise") /\ status' = "Fail"
     \/ Goto(w, "done", "raise") /\ status' = "Done"
  /\ UNCHANGED <<nbready, errmsg, raised, round, throws, masterVars, failed>>

\* ... and raise the latch.
LatchRaise(w) ==
  /\ NextRound(w, "raise")
  /\ raised' = TRUE
  /\ UNCHANGED <<status, nbready, errmsg, throws, masterVars, failed>>

InSync(w) ==
  \/ PollStatus(w)
  \/ CountIn(w)
  \/ ResetIn(w)
  \/ StartRun(w)
  \/ AwaitRun(w)
  \/ StoreError(w)
  \/ StoreAbort(w)
  \/ CountOut(w)
  \/ ResetOut(w)
  \/ LoadStatus(w)
  \/ StoreVerdict(w)
  \/ LatchRaise(w)

Worker(w) == InSync(w) \/ Work(w)

\* measure() returned, or the process is gone.
Over == mpc \in {"returned", "exit"} /\ UNCHANGED vars

Next ==
  \/ Master
  \/ StartFails
  \/ LatchTimeout
  \/ \E w \in Workers : Worker(w)
  \/ Over

Spec == Init /\ [][Next]_vars

-----------------------------------------------------------------------------
\* The steps in which a worker takes part in the round it is in.
Busy ==
  {"reset", "start", "await", "work", "error", "abort", "count", "clear", "verdict",
   "fail", "done", "raise"}

\* Types of the variables.
TypeOK ==
  /\ status \in {"Wait", "Run", "Abort", "Done", "Fail", "Quit"}
  /\ nbready \in 0..nbworkers
  /\ errmsg \in BOOLEAN
  /\ raised \in BOOLEAN
  /\ wpc \in [Workers -> {"poll", "ready", "exited"} \cup Busy]
  /\ round \in [Workers -> 1..(Rounds + 1)]
  /\ throws \in [Workers -> BOOLEAN]
  /\ mpc \in {"start", "notify", "wait", "status", "quit", "join", "returned", "exit", "unreachable"}
  /\ mround \in 1..Rounds
  /\ error \in BOOLEAN
  /\ failed \subseteq Workers

\* No worker works on a round while another is still in an earlier one, and none
\* is ahead of the master: the status and the counter of one round are never
\* taken for those of the next.
RoundsInStep ==
  \A w \in Workers :
    /\ wpc[w] \in Busy => round[w] = mround
    /\ wpc[w] = "work" =>
         \A u \in Workers : round[u] > round[w] \/ (round[u] = round[w] /\ wpc[u] \in Busy)

\* When the master reads the status, the round is over for every worker and the
\* verdict is that of all of them: one failure, reported at whatever time by
\* whichever worker, is never lost, and a clean round never fails.
VerdictRight ==
  mpc = "status" =>
    /\ \A w \in Workers : wpc[w] \in {"poll", "exited"}
    /\ status = IF failed = {} THEN "Done" ELSE "Fail"
    /\ failed # {} => errmsg

\* The exception that grading.cpp calls unreachable is, and so is the one for a
\* worker that is started after the last round.
NeverUnreachable ==
  /\ mpc # "unreachable"
  /\ \A w \in Workers : round[w] > Rounds => wpc[w] \in {"poll", "exited"}

=============================================================================
