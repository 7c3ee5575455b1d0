------------------------------ MODULE LockWord ------------------------------
(***************************************************************************)
(* The word inside a VersionedWriteLock (394984/data-structures.cpp).      *)
(*                                                                         *)
(* version_and_lock packs a version, shifted left by one, and the lock     *)
(* bit in bit 0.  The operators below are the bit manipulations of the     *)
(* methods, on natural numbers.  A word has 64 bits in the build and its   *)
(* upper 63 bits count commits, so the top of the word is out of reach;    *)
(* the one narrower width that matters is that of "unsigned int", the      *)
(* type of the literal 1u in unlock().                                     *)
(***************************************************************************)
EXTENDS Naturals

CONSTANT UintSpan   \* number of values of "unsigned int": 2^32 in the build

ASSUME UintSpanAssumption ==
  /\ UintSpan \in Nat
  /\ UintSpan > 0

\* The lock bit.
isLocked(w) == w % 2 = 1

\* The version above the lock bit.
getVersion(w) == w \div 2

\* lock() expects the word with its lock bit clear.  The literal is the int
\* ~1, whose sign extension keeps the upper half of the word.
lockExpected(w) == 2 * (w \div 2)

\* lock() swaps in the same version with the lock bit set.
lockDesired(w) == lockExpected(w) + 1

\* Mutant of unlockValue: the lock bit stays set.
unlockValueKeepsBit(w) == w

\* unlock() masks with ~1u, an unsigned int: zero extension clears the lock
\* bit and also every bit from 32 up.
unlockValue(w) == lockExpected(w % UintSpan)

\* Mutant of setVersionValue: the version is shifted once too often.
setVersionValueTwice(v) == 4 * v

\* setVersion() stores the new version with the lock bit clear.
setVersionValue(v) == 2 * v

=============================================================================
