------------------------------ MODULE Barrier -------------------------------
(***************************************************************************)
(* The spin barrier of grading/common.hpp, on which the workers of         *)
(* WorkloadBank::check (Bank) meet three times.  Each atomic access is a step; a  *)
(* spinning loop is the step that ends it.                                 *)
(***************************************************************************)
EXTENDS Naturals, FiniteSets

CONSTANTS
  Threads,     \* the threads that synchronise
  MaxRounds    \* bound: calls to sync() by each thread

cardinal == Cardinality(Threads)

ASSUME BarrierAssumption ==
  /\ IsFiniteSet(Threads)
  /\ Threads # {}
  /\ MaxRounds \in Nat

VARIABLES
  step,       \* the step counter
  mode,       \* "enter" or "leave"
  pc,         \* where each thread is in sync()
  arrived,    \* history: calls to sync() each thread made
  left        \* history: calls to sync() that returned

vars == <<step, mode, pc, arrived, left>>

Init ==
  /\ step = 0
  /\ mode = "enter"
  /\ pc = [t \in Threads |-> "out"]
  /\ arrived = [t \in Threads |-> 0]
  /\ left = [t \in Threads |-> 0]

Goto(t, from, to) ==
  /\ pc[t] = from
  /\ pc' = [pc EXCEPT ![t] = to]

\* The call of sync(): count the thread in.  The last one opens the exit.
Enter(t) ==
  /\ arrived[t] < MaxRounds
  /\ arrived' = [arrived EXCEPT ![t] = @ + 1]
  /\ step' = step + 1
  /\ Goto(t, "out", IF step + 1 = cardinal THEN "set_leave" ELSE "wait_leave")
  /\ UNCHANGED <<mode, left>>

SetLeave(t) ==
  /\ Goto(t, "set_leave", "leave")
  /\ mode' = "leave"
  /\ UNCHANGED <<step, arrived, left>>

\* Mutant of WaitLeave: the loop does not wait.
WaitLeaveNot(t) ==
  /\ Goto(t, "wait_leave", "leave")
  /\ UNCHANGED <<step, mode, arrived, left>>

WaitLeave(t) ==
  /\ mode = "leave"
  /\ Goto(t, "wait_leave", "leave")
  /\ UNCHANGED <<step, mode, arrived, left>>

\* Mutant of Leave: the thread is counted in once more.
LeaveAdds(t) ==
  /\ step' = step + 1
  /\ Goto(t, "leave", IF step + 1 = 0 THEN "set_enter" ELSE "wait_enter")
  /\ UNCHANGED <<mode, arrived, left>>

\* Count the thread out.  The last one opens the entrance.
Leave(t) ==
  /\ step' = step - 1
  /\ Goto(t, "leave", IF step - 1 = 0 THEN "set_enter" ELSE "wait_enter")
  /\ UNCHANGED <<mode, arrived, left>>

SetEnter(t) ==
  /\ Goto(t, "set_enter", "out")
  /\ mode' = "enter"
  /\ left' = [left EXCEPT ![t] = @ + 1]
  /\ UNCHANGED <<step, arrived>>

WaitEnter(t) ==
  /\ mode = "enter"
  /\ Goto(t, "wait_enter", "out")
  /\ left' = [left EXCEPT ![t] = @ + 1]
  /\ UNCHANGED <<step, mode, arrived>>

\* The steps inside sync().
Sync(t) ==
  \/ SetLeave(t)
  \/ WaitLeave(t)
  \/ Leave(t)
  \/ SetEnter(t)
  \/ WaitEnter(t)

\* A thread finds that the loop it is in has not ended.
Spins(t) ==
  \/ pc[t] = "wait_leave" /\ mode # "leave"
  \/ pc[t] = "wait_enter" /\ mode # "enter"

Next == \E t \in Threads : Enter(t) \/ Sync(t)

Spec == Init /\ [][Next]_vars

-----------------------------------------------------------------------------
\* Types; the counter counts threads and never goes below zero.
TypeOK ==
  /\ step \in 0..cardinal
  /\ mode \in {"enter", "leave"}
  /\ pc \in [Threads -> {"out", "set_leave", "wait_leave", "leave", "set_enter", "wait_enter"}]
  /\ arrived \in [Threads -> 0..MaxRounds]
  /\ left \in [Threads -> 0..MaxRounds]

\* No call to sync() returns before every thread has made the matching call,
\* even when a fast thread is in the next round while slow ones are leaving.
RoundsTogether == \A t, u \in Threads : left[t] <= arrived[u]

=============================================================================
