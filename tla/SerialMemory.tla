---------------------------- MODULE SerialMemory ----------------------------
(***************************************************************************)
(* What the interface of tm.hpp promises, without aborts: a transaction    *)
(* works on a copy of the memory taken when it began, and a read-write one *)
(* ends by replacing the memory with its copy, provided that nobody else   *)
(* replaced it since.  Committed transactions are thus equivalent to their *)
(* execution one after the other, in the order in which they commit.       *)
(***************************************************************************)
CONSTANTS Threads, Addr, FirstSegment, Val, Zero

VARIABLES
  amem,     \* the committed memory
  amode,    \* "out", or the kind of the thread's open transaction
  abase,    \* the memory when the transaction began
  aview,    \* the transaction's copy
  agot      \* what the transaction's last read returned

avars == <<amem, amode, abase, aview, agot>>

Blank == [a \in Addr |-> Zero]

AInit ==
  /\ amem \in {m \in [Addr -> Val] : \A a \in FirstSegment : m[a] = Zero}
  /\ amode = [t \in Threads |-> "out"]
  /\ abase = [t \in Threads |-> Blank]
  /\ aview = [t \in Threads |-> Blank]
  /\ agot = [t \in Threads |-> Zero]

ABegin(t) ==
  /\ amode[t] = "out"
  /\ \E m \in {"ro", "rw"} : amode' = [amode EXCEPT ![t] = m]
  /\ abase' = [abase EXCEPT ![t] = amem]
  /\ aview' = [aview EXCEPT ![t] = amem]
  /\ UNCHANGED <<amem, agot>>

ARead(t) ==
  /\ amode[t] # "out"
  /\ \E a \in Addr : agot' = [agot EXCEPT ![t] = aview[t][a]]
  /\ UNCHANGED <<amem, amode, abase, aview>>

AWrite(t) ==
  /\ amode[t] = "rw"
  /\ \E a \in Addr, v \in Val : aview' = [aview EXCEPT ![t][a] = v]
  /\ UNCHANGED <<amem, amode, abase, agot>>

AEnd(t) ==
  /\ amode[t] # "out"
  /\ IF amode[t] = "rw" THEN amem = abase[t] /\ amem' = aview[t] ELSE UNCHANGED amem
  /\ amode' = [amode EXCEPT ![t] = "out"]
  /\ abase' = [abase EXCEPT ![t] = Blank]
  /\ aview' = [aview EXCEPT ![t] = Blank]
  /\ agot' = [agot EXCEPT ![t] = Zero]

ANext == \E t \in Threads : ABegin(t) \/ ARead(t) \/ AWrite(t) \/ AEnd(t)

ASpec == AInit /\ [][ANext]_avars

=============================================================================
