----------------------------- MODULE Evaluation -----------------------------
(***************************************************************************)
(* main() of grading/grading.cpp: each library is loaded, its shared       *)
(* memory created in a bounded time, measured (GradingSync, Wrapper),      *)
(* destroyed in a bounded time and unloaded, before the next one.  The     *)
(* library is the one of 394984 (Region).  Its threads are main's, the     *)
(* runner of bounded_run and the workers.                                  *)
(*                                                                         *)
(* The parts are modules with variables of their own; a step of main       *)
(* leaves the others alone unless it says so.                              *)
(***************************************************************************)
EXTENDS Wrapper, Region, BoundedRun

CONSTANT Libs    \* number of libraries, the reference first

ASSUME LibsAssumption == Libs \in Nat \ {0}

VARIABLES
  stage,      \* where main() is
  lib,        \* the library at hand
  loaded,     \* whether the library at hand is mapped
  result      \* what main() returns when it gets out of the loop

mainVars == <<stage, lib, loaded, result>>
allVars == <<vars, wrapperVars, regionVars, runVars, mainVars>>

EvalInit ==
  /\ Init
  /\ WrapperInit
  /\ RegionInit
  /\ RunInit
  /\ stage = "load"
  /\ lib = 1
  /\ loaded = FALSE
  /\ result = "none"

\* The process exists.
Alive == stage \notin {"exited", "terminated"} /\ ~terminated

StageGoto(from, to) ==
  /\ Alive
  /\ stage = from
  /\ stage' = to

-----------------------------------------------------------------------------
(***************************************************************************)
(* Loading and unloading.                                                  *)
(***************************************************************************)
\* The constructor of TransactionalLibrary: the library is mapped and all its
\* symbols are found, or an exception goes to the end of main().  A symbol that
\* is missing leaves the library mapped.
Load ==
  /\ \/ StageGoto("load", "create") /\ loaded' = TRUE /\ UNCHANGED result
     \/ StageGoto("load", "leave") /\ loaded' \in BOOLEAN /\ result' = "error"
  /\ UNCHANGED <<vars, wrapperVars, regionVars, runVars, lib>>

\* The destructor of TransactionalLibrary, then the next library, or the end.
Unload ==
  /\ loaded' = FALSE
  /\ \/ /\ result = "none"
        /\ lib < Libs
        /\ StageGoto("unload", "load")
        /\ lib' = lib + 1
        /\ rpc' = "none"
        /\ UNCHANGED result
     \/ /\ result = "none"
        /\ lib = Libs
        /\ StageGoto("unload", "leave")
        /\ result' = "ok"
        /\ UNCHANGED <<lib, rpc>>
     \/ /\ result \in {"error", "overrun"}
        /\ StageGoto("unload", "leave")
        /\ UNCHANGED <<lib, rpc, result>>
  /\ UNCHANGED <<vars, wrapperVars, blocks, fields, misfreed, refused, runVars>>

\* main() returns, after the message of an exception.
Leave ==
  /\ StageGoto("leave", "exited")
  /\ UNCHANGED <<vars, wrapperVars, regionVars, runVars, lib, loaded, result>>

-----------------------------------------------------------------------------
(***************************************************************************)
(* Creating and destroying the shared memory, through bounded_run.         *)
(***************************************************************************)
Side == stage \in {"create", "destroy"}

\* main() calls bounded_run.
CallRun ==
  /\ Alive
  /\ Side
  /\ StartRunner
  /\ UNCHANGED <<vars, wrapperVars, regionVars, mainVars>>

\* The creation cannot start its thread: the exception destroys the library object
\* on its way to the end of main().
CreateRefused ==
  /\ StartRunnerFails
  /\ StageGoto("create", "unload")
  /\ result' = "error"
  /\ UNCHANGED <<vars, wrapperVars, regionVars, lib, loaded>>

\* The destruction cannot start its thread: the exception is fatal in a destructor.
DestroyRefused ==
  /\ StartRunnerFails
  /\ StageGoto("destroy", "terminated")
  /\ UNCHANGED <<vars, wrapperVars, regionVars, lib, loaded, result>>

\* A step of main() in bounded_run.
InRun ==
  /\ Alive
  /\ Side
  /\ Caller \/ SpuriousWake
  /\ UNCHANGED <<vars, wrapperVars, regionVars, mainVars>>

\* A step of the runner in the library.  The code of a library that is not mapped
\* cannot be run: the process ends.
RunLibrary ==
  /\ Alive
  /\ runner = "func"
  /\ \/ /\ loaded
        /\ IF stage = "destroy" THEN tm_destroy ELSE tm_create
        /\ UNCHANGED stage
     \/ /\ ~loaded
        /\ rpc \notin {"ready", "invalid"}
        /\ stage' = "terminated"
        /\ UNCHANGED regionVars
  /\ UNCHANGED <<vars, wrapperVars, runVars, lib, loaded, result>>

\* The function of the runner ends.  An invalid region makes it throw, which is
\* fatal in a thread of its own.
EndFunc ==
  /\ Alive
  /\ \/ /\ rpc \in (IF stage = "destroy" THEN {"gone"} ELSE {"ready"})
        /\ FuncReturns
        /\ UNCHANGED stage
     \/ /\ runner = "func"
        /\ rpc = "invalid"
        /\ stage' = "terminated"
        /\ UNCHANGED runVars
  /\ UNCHANGED <<vars, wrapperVars, regionVars, lib, loaded, result>>

\* A step of the runner after its function.
RunnerStep ==
  /\ Alive
  /\ Runner
  /\ UNCHANGED <<vars, wrapperVars, regionVars, mainVars>>

\* The shared memory exists; the workload is constructed, measure() is called.
Created ==
  /\ caller = "returned"
  /\ StageGoto("create", "measure")
  /\ caller' = "out"
  /\ runner' = "none"
  /\ mpc' = "start"
  /\ UNCHANGED <<status, nbready, errmsg, raised, workerVars, mround, error, failed>>
  /\ UNCHANGED <<wrapperVars, regionVars, mutex, spurious, stray, lib, loaded, result>>

\* The creation took too long: the exception destroys the library object on its
\* way to the end of main().
CreateOverran ==
  /\ caller = "overrun"
  /\ StageGoto("create", "unload")
  /\ result' = "overrun"
  /\ UNCHANGED <<vars, wrapperVars, regionVars, runVars, lib, loaded>>

\* The shared memory is gone.
Destroyed ==
  /\ caller = "returned"
  /\ StageGoto("destroy", "unload")
  /\ caller' = "out"
  /\ runner' = "none"
  /\ UNCHANGED <<vars, wrapperVars, regionVars, mutex, spurious, stray, lib, loaded, result>>

\* Mutant of DestroyOverran: the exception goes on to the end of main().
DestroyOverranThrows ==
  /\ caller = "overrun"
  /\ StageGoto("destroy", "unload")
  /\ result' = "error"
  /\ UNCHANGED <<vars, wrapperVars, regionVars, runVars, lib, loaded>>

\* The destruction took too long: the exception is fatal in a destructor.
DestroyOverran ==
  /\ caller = "overrun"
  /\ StageGoto("destroy", "terminated")
  /\ UNCHANGED <<vars, wrapperVars, regionVars, runVars, lib, loaded, result>>

-----------------------------------------------------------------------------
(***************************************************************************)
(* Measuring.                                                              *)
(***************************************************************************)
\* A step of measure().  There is no time limit for the reference, whose times
\* are the limits of the others.
MeasureStep ==
  /\ Alive
  /\ stage = "measure"
  /\ Master \/ StartFails \/ (lib > 1 /\ LatchTimeout)
  /\ UNCHANGED <<wrapperVars, regionVars, runVars, mainVars>>

\* A step of a worker in Sync.
SyncStep(w) ==
  /\ Alive
  /\ InSync(w)
  /\ UNCHANGED <<wrapperVars, regionVars, runVars, mainVars>>

\* A step of a worker in its part of the round; the library may be called until
\* the process ends.
RoundStep(w) ==
  /\ Alive
  /\ \/ Transaction(w) /\ UNCHANGED vars
     \/ EndWork(w)
  /\ UNCHANGED <<regionVars, runVars, mainVars>>

\* measure() returns: main() prints the times and goes on, or returns the error;
\* either way the workload is destroyed first.
Measured ==
  /\ mpc = "returned"
  /\ StageGoto("measure", "destroy")
  /\ result' = IF error THEN "error" ELSE "none"
  /\ UNCHANGED <<vars, wrapperVars, regionVars, runVars, lib, loaded>>

\* Mutant of QuickExit: main() returns, and destroys what is in its scope.
QuickExitNot ==
  /\ mpc \in {"exit", "unreachable"}
  /\ StageGoto("measure", "destroy")
  /\ result' = "error"
  /\ UNCHANGED <<vars, wrapperVars, regionVars, runVars, lib, loaded>>

\* measure() threw: main() ends the process at once, since workers may be running
\* in the library.
QuickExit ==
  /\ mpc \in {"exit", "unreachable"}
  /\ StageGoto("measure", "exited")
  /\ result' = "quick"
  /\ UNCHANGED <<vars, wrapperVars, regionVars, runVars, lib, loaded>>

-----------------------------------------------------------------------------
Main ==
  \/ Load
  \/ CallRun
  \/ CreateRefused
  \/ DestroyRefused
  \/ InRun
  \/ Created
  \/ CreateOverran
  \/ MeasureStep
  \/ Measured
  \/ QuickExit
  \/ Destroyed
  \/ DestroyOverran
  \/ Unload
  \/ Leave

InRunner == RunLibrary \/ EndFunc \/ RunnerStep

\* The process is gone, or main() and the runner wait for each other.
Stopped ==
  /\ ~Alive \/ (spurious /\ caller = "join" /\ runner = "lock")
  /\ UNCHANGED allVars

EvalNext ==
  \/ Main
  \/ InRunner
  \/ \E w \in Workers : SyncStep(w) \/ RoundStep(w)
  \/ Stopped

EvalSpec == EvalInit /\ [][EvalNext]_allVars

\* In the check the workers meet at barriers: when one throws, the others may be
\* left waiting for it.
Stranded(w) == wpc[w] = "work" /\ round[w] = Rounds /\ \E u \in Workers : throws[u]

\* Every thread keeps running, calls of the library return, and time passes.
FairEvalSpec ==
  /\ EvalSpec
  /\ WF_allVars(Main)
  /\ WF_allVars(InRunner)
  /\ \A w \in Workers : WF_allVars(SyncStep(w)) /\ WF_allVars(~Stranded(w) /\ RoundStep(w))

-----------------------------------------------------------------------------
\* A worker has an open transaction, or is inside its part of a round.
Working(w) == handle[w] = "open" \/ wpc[w] = "work"

\* tm_destroy is called only when all workers have left for good (tm.cpp asks for
\* no running transaction), and on a region that tm_create has returned.
DestroyedIdle ==
  (stage = "destroy" /\ runner # "none") \/ rpc = "gone" =>
    /\ rpc \in {"ready", "gone"}
    /\ \A w \in Workers : wpc[w] = "exited" /\ ~Working(w)

\* The comment of main(): a library is not unloaded while a thread runs in it.
\* The exception is a creation that took too long.
UnloadedIdle ==
  ~loaded => /\ \A w \in Workers : ~Working(w)
             /\ runner = "func" => result = "overrun"

\* Every block of a region is given back once, whichever request is refused and
\* whenever the process gets as far as unloading the library; except the locks,
\* which are given back twice when there is no memory for the first segment.
RegionFreedOnce ==
  /\ misfreed # {} => misfreed = {"locks"} /\ refused = "start"
  /\ rpc \in {"none", "invalid", "gone"} => blocks = {}
  /\ stage = "load" \/ result = "ok" => blocks = {}

\* A runner uses the locals of bounded_run only while they exist, unless the
\* caller gave it up.
FrameOutlivesRunner == stray => caller = "overrun"

\* The evaluation comes to an end, whatever the workers do and in whatever round
\* they throw, with two exceptions: a wait of bounded_run that ends spuriously, and
\* workers of the reference left for ever at a barrier of the check by one that
\* threw in it, where no time limit rescues them.
EvaluationEnds ==
  \/ <>(~Alive \/ spurious)
  \/ <>[](lib = 1 /\ \E w \in Workers : Stranded(w))

=============================================================================
