------------------------------- MODULE MCTL2 --------------------------------
(***************************************************************************)
(* Instances of TL2 for TLC.  The threads of a role run the same code and  *)
(* no property names one of them, so they are interchangeable.             *)
(***************************************************************************)
EXTENDS TL2, TLC

ThreadSymmetry == Permutations(Readers) \cup Permutations(Writers)

=============================================================================
