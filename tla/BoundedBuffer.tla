---------------------------- MODULE BoundedBuffer ----------------------------
(***************************************************************************)
(* What the correct producer-consumer examples promise: items go through a *)
(* bounded queue, whole, once each and in order.                           *)
(***************************************************************************)
EXTENDS Naturals, Sequences

CONSTANTS
  Items,    \* number of items to hand over
  Size      \* capacity of the queue

VARIABLES
  queue,    \* items on their way
  sent,     \* number of items put so far
  got       \* items taken so far

bufferVars == <<queue, sent, got>>

BufferInit ==
  /\ queue = <<>>
  /\ sent = 0
  /\ got = <<>>

Put ==
  /\ sent < Items
  /\ Len(queue) < Size
  /\ queue' = Append(queue, sent + 1)
  /\ sent' = sent + 1
  /\ UNCHANGED got

Get ==
  /\ queue # <<>>
  /\ got' = Append(got, Head(queue))
  /\ queue' = Tail(queue)
  /\ UNCHANGED sent

BufferSpec == BufferInit /\ [][Put \/ Get]_bufferVars

=============================================================================
