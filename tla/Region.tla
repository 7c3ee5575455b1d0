------------------------------- MODULE Region -------------------------------
(***************************************************************************)
(* The life of a region of the TL2 library before its first and after its  *)
(* last transaction: tm_create with its failures, tm_destroy, and the      *)
(* destructor of MemoryRegion that both use (394984/tm.cpp,                *)
(* 394984/data-structures.cpp).  The allocator is external: it may refuse  *)
(* any request.  The segments of transactions are in TL2.                  *)
(***************************************************************************)

VARIABLES
  rpc,        \* next step of tm_create, or what became of the region
  blocks,     \* the blocks that the allocator gave and did not get back
  fields      \* the fields of the region that point to a block

\* History: blocks given back while they were not allocated, and the request that
\* the allocator refused.
VARIABLES misfreed, refused

regionVars == <<rpc, blocks, fields, misfreed, refused>>

RegionInit ==
  /\ rpc = "none"
  /\ blocks = {}
  /\ fields = {}
  /\ misfreed = {}
  /\ refused = "none"

RegionGoto(from, to) ==
  /\ rpc = from
  /\ rpc' = to

\* The allocator gives a block.
Obtain(block) ==
  /\ blocks' = blocks \cup {block}
  /\ UNCHANGED <<misfreed, refused>>

\* The blocks of `direct' are given back, then those of `deleted'.
GiveBack(direct, deleted) ==
  /\ blocks' = blocks \ (direct \cup deleted)
  /\ misfreed' = misfreed \cup (direct \ blocks) \cup (deleted \ (blocks \ direct))

\* The allocator refuses a block, whereupon others are given back.
Refuse(block, direct, deleted) ==
  /\ refused' = block
  /\ GiveBack(direct, deleted)

\* What `delete region' gives back: the destructor frees every field that is not
\* null, then the region itself goes.
DeleteRegion == fields \cup {"region"}

\* tm_create: the region.
NewRegion ==
  \/ RegionGoto("none", "locks") /\ Obtain("region") /\ UNCHANGED fields
  \/ RegionGoto("none", "invalid") /\ Refuse("region", {}, {}) /\ UNCHANGED fields

\* Mutant of NewLocks: the region is not deleted.
NewLocksLeaks ==
  \/ RegionGoto("locks", "start") /\ Obtain("locks") /\ fields' = fields \cup {"locks"}
  \/ RegionGoto("locks", "invalid") /\ Refuse("locks", {}, {}) /\ UNCHANGED fields

\* tm_create: the locks.
NewLocks ==
  \/ RegionGoto("locks", "start") /\ Obtain("locks") /\ fields' = fields \cup {"locks"}
  \/ RegionGoto("locks", "invalid") /\ Refuse("locks", {}, DeleteRegion) /\ fields' = {}

\* tm_create: the first segment.  On failure the locks are deleted, and deleted
\* once more by the destructor, since the field still points to them.
AllocStart ==
  \/ RegionGoto("start", "zero") /\ Obtain("start") /\ fields' = fields \cup {"start"}
  \/ RegionGoto("start", "invalid") /\ Refuse("start", {"locks"}, DeleteRegion) /\ fields' = {}

\* tm_create: zero the segment and return the region.
ZeroStart ==
  /\ RegionGoto("zero", "ready")
  /\ UNCHANGED <<blocks, fields, misfreed, refused>>

tm_create == NewRegion \/ NewLocks \/ AllocStart \/ ZeroStart

tm_destroy ==
  /\ RegionGoto("ready", "gone")
  /\ GiveBack({}, DeleteRegion)
  /\ fields' = {}
  /\ UNCHANGED refused

=============================================================================
