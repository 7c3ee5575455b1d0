---------------------------- MODULE MCTL2History ----------------------------
(***************************************************************************)
(* TL2History for TLC.  A read is forgotten once it is settled, that is    *)
(* one step after the last commit that could contradict it: TL2History,    *)
(* which forgets nothing, has several times as many states and the same    *)
(* contradictions.                                                         *)
(***************************************************************************)
EXTENDS TL2History

\* A transaction may still commit with a write version up to n.  Those that have
\* no write version yet will get a greater one.
Undecided(n) ==
  \E t \in Thread : pc[t] \in {"validate", "validate_version"} /\ wv[t] <= n

MCRemember == seen' = {s \in seen : Undecided(s[1])} \cup Ending

MCNext == Next /\ MCRemember

MCSpec == HistoryInit /\ [][MCNext]_historyVars

\* A thread inside a call keeps running.  MCRemember never stands in the way of a
\* step of TL2.
MCFairSpec == MCSpec /\ Fairness

=============================================================================
