----------------------------- MODULE BoundedRun -----------------------------
(***************************************************************************)
(* bounded_run of grading/common.hpp: the caller starts a thread, the      *)
(* runner, and waits for its notification on a condition variable, for a   *)
(* bounded time.  The mutex, the condition variable and what the function  *)
(* refers to are locals of the caller.                                     *)
(*                                                                         *)
(* The mutex and the condition variable are external: a wait may end       *)
(* spuriously, and it reports a timeout whenever the time is over at its   *)
(* end, a notification in time notwithstanding.                            *)
(***************************************************************************)

VARIABLES
  caller,     \* where the caller is
  runner,     \* where the runner is
  mutex       \* who has the lock: "free", "caller" or "runner"

\* History: whether the wait of a caller ended spuriously, and whether a runner
\* used the locals of a caller that had left bounded_run.
VARIABLES spurious, stray

runVars == <<caller, runner, mutex, spurious, stray>>

RunInit ==
  /\ caller = "out"
  /\ runner = "none"
  /\ mutex = "free"
  /\ spurious = FALSE
  /\ stray = FALSE

\* The locals of the caller exist.
InFrame == caller \in {"started", "wait", "woken", "join"}

\* The caller takes the lock and starts the runner.
StartRunner ==
  /\ caller = "out"
  /\ caller' = "started"
  /\ runner' = "func"
  /\ mutex' = "caller"
  /\ UNCHANGED <<spurious, stray>>

\* No thread can be started: the exception gives the lock back and leaves the frame.
StartRunnerFails ==
  /\ caller = "out"
  /\ UNCHANGED runVars

\* The caller starts to wait, which releases the lock.
EnterWait ==
  /\ caller = "started"
  /\ caller' = "wait"
  /\ mutex' = "free"
  /\ UNCHANGED <<runner, spurious, stray>>

\* The function has returned; its last step stored into the caller's locals.
FuncReturns ==
  /\ runner = "func"
  /\ runner' = "lock"
  /\ stray' = (stray \/ ~InFrame)
  /\ UNCHANGED <<caller, mutex, spurious>>

\* The runner takes the lock and notifies the caller.
RunnerNotify ==
  /\ runner = "lock"
  /\ InFrame
  /\ mutex = "free"
  /\ mutex' = "runner"
  /\ runner' = "unlock"
  /\ caller' = IF caller = "wait" THEN "woken" ELSE caller
  /\ UNCHANGED <<spurious, stray>>

RunnerUnlock ==
  /\ runner = "unlock"
  /\ runner' = "done"
  /\ mutex' = "free"
  /\ UNCHANGED <<caller, spurious, stray>>

\* The runner locks a mutex that no longer exists.  Whatever that does, the runner
\* has nothing left to do after it.
RunnerStrays ==
  /\ runner = "lock"
  /\ ~InFrame
  /\ runner' = "done"
  /\ stray' = TRUE
  /\ UNCHANGED <<caller, mutex, spurious>>

Runner == RunnerNotify \/ RunnerUnlock \/ RunnerStrays

\* The wait ends in time, with the lock.
CallerWakes ==
  /\ caller = "woken"
  /\ mutex = "free"
  /\ caller' = "join"
  /\ mutex' = "caller"
  /\ UNCHANGED <<runner, spurious, stray>>

\* The wait ends in time without a notification.
SpuriousWake ==
  /\ caller = "wait"
  /\ mutex = "free"
  /\ caller' = "join"
  /\ mutex' = "caller"
  /\ spurious' = TRUE
  /\ UNCHANGED <<runner, stray>>

\* The wait ends late: the runner is detached and an exception leaves the frame.
WaitTimeout ==
  /\ caller \in {"wait", "woken"}
  /\ mutex = "free"
  /\ caller' = "overrun"
  /\ UNCHANGED <<runner, mutex, spurious, stray>>

\* Mutant of JoinRunner: the caller does not wait for the runner.
JoinRunnerNot ==
  /\ caller = "join"
  /\ caller' = "returned"
  /\ mutex' = "free"
  /\ UNCHANGED <<runner, spurious, stray>>

\* The caller, still with the lock, joins the runner and returns.
JoinRunner ==
  /\ caller = "join"
  /\ runner = "done"
  /\ caller' = "returned"
  /\ mutex' = "free"
  /\ UNCHANGED <<runner, spurious, stray>>

Caller == EnterWait \/ CallerWakes \/ WaitTimeout \/ JoinRunner

=============================================================================
