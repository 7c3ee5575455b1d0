------------------------------ MODULE Wrapper -------------------------------
(***************************************************************************)
(* The client wrapper of grading/transactional.hpp, inside the rounds of   *)
(* GradingSync: the loop of transactional(), the class Transaction with    *)
(* its exceptions and its destructor that throws, and the calls that       *)
(* TransactionalMemory and Shared pass on to the library.                  *)
(*                                                                         *)
(* The library is external, and known by what 394984/tm.cpp does with the  *)
(* handle of a transaction: tm_begin opens it, tm_end and a call that      *)
(* fails close it, and nomem leaves it open.  A round is one transaction.  *)
(* A call that succeeds changes nothing here and is no step.               *)
(***************************************************************************)
EXTENDS GradingSync

CONSTANT MaxAborts    \* bound: failed attempts of a transaction

ASSUME WrapperAssumption == MaxAborts \in Nat

VARIABLES
  tpc,        \* where each worker is in transactional()
  aborted,    \* Transaction::aborted
  exc,        \* the exception that unwinds the closure
  handle,     \* the library's side of the handle: "none", "open" or "closed"
  attempts,   \* failed attempts so far
  terminated  \* an exception called std::terminate

\* History: whether the library was called with a handle that it had closed, or
\* a handle was dropped open.
VARIABLE misused

wrapperVars == <<tpc, aborted, exc, handle, attempts, terminated, misused>>

WrapperInit ==
  /\ tpc = [w \in Workers |-> "begin"]
  /\ aborted = [w \in Workers |-> FALSE]
  /\ exc = [w \in Workers |-> "none"]
  /\ handle = [w \in Workers |-> "none"]
  /\ attempts = [w \in Workers |-> 0]
  /\ terminated = FALSE
  /\ misused = FALSE

TxGoto(w, from, to) ==
  /\ tpc[w] = from
  /\ tpc' = [tpc EXCEPT ![w] = to]

\* An attempt fails, which it does MaxAborts times at most.
Fails(w) ==
  /\ attempts[w] < MaxAborts
  /\ attempts' = [attempts EXCEPT ![w] = @ + 1]

\* The constructor of Transaction: tm_begin, or an exception that leaves
\* transactional().  No object exists then, and no destructor runs.
TxBegin(w) ==
  /\ wpc[w] = "work"
  /\ \/ /\ TxGoto(w, "begin", "body")
        /\ handle' = [handle EXCEPT ![w] = "open"]
        /\ misused' = (misused \/ handle[w] = "open")
     \/ /\ TxGoto(w, "begin", "thrown")
        /\ UNCHANGED <<handle, misused>>
  /\ aborted' = [aborted EXCEPT ![w] = FALSE]
  /\ exc' = [exc EXCEPT ![w] = "none"]
  /\ UNCHANGED <<attempts, terminated>>

\* Mutant of TxCallFails: the failure is not remembered.
TxCallFailsForgets(w) ==
  /\ TxGoto(w, "body", "unwind")
  /\ Fails(w)
  /\ exc' = [exc EXCEPT ![w] = "retry"]
  /\ handle' = [handle EXCEPT ![w] = "closed"]
  /\ misused' = (misused \/ handle[w] # "open")
  /\ UNCHANGED <<aborted, terminated>>

\* read, write, alloc or free fails: the library has closed the handle.
TxCallFails(w) ==
  /\ TxGoto(w, "body", "unwind")
  /\ Fails(w)
  /\ aborted' = [aborted EXCEPT ![w] = TRUE]
  /\ exc' = [exc EXCEPT ![w] = "retry"]
  /\ handle' = [handle EXCEPT ![w] = "closed"]
  /\ misused' = (misused \/ handle[w] # "open")
  /\ UNCHANGED terminated

\* alloc finds no memory.
TxNoMem(w) ==
  /\ TxGoto(w, "body", "unwind")
  /\ exc' = [exc EXCEPT ![w] = "alloc"]
  /\ misused' = (misused \/ handle[w] # "open")
  /\ UNCHANGED <<aborted, handle, attempts, terminated>>

\* The closure returns.
TxReturns(w) ==
  /\ TxGoto(w, "body", "unwind")
  /\ UNCHANGED <<aborted, exc, handle, attempts, terminated, misused>>

\* The destructor of an aborted transaction does nothing: the retry goes on, and
\* transactional() catches it.
TxDropped(w) ==
  /\ aborted[w]
  /\ TxGoto(w, "unwind", "begin")
  /\ UNCHANGED <<aborted, exc, handle, attempts, terminated, misused>>

\* The destructor of any other one ends it.  If that fails, it throws a retry,
\* which is fatal while another exception unwinds the stack; if not, that
\* exception goes on, although the transaction has committed.
TxEnds(w) ==
  /\ ~aborted[w]
  /\ \/ /\ TxGoto(w, "unwind", IF exc[w] = "none" THEN "committed" ELSE "thrown")
        /\ UNCHANGED <<attempts, terminated>>
     \/ /\ TxGoto(w, "unwind", "begin")
        /\ Fails(w)
        /\ terminated' = (exc[w] # "none")
  /\ handle' = [handle EXCEPT ![w] = "closed"]
  /\ misused' = (misused \/ handle[w] # "open")
  /\ UNCHANGED <<aborted, exc>>

Transaction(w) ==
  \/ TxBegin(w)
  \/ TxCallFails(w)
  \/ TxNoMem(w)
  \/ TxReturns(w)
  \/ TxDropped(w)
  \/ TxEnds(w)

\* The worker's part of the round ends: normally after the commit, or by the
\* exception that transactional() let through.  The check draws its seed from a
\* device, which may throw too.
EndWork(w) ==
  /\ Work(w)
  /\ \/ tpc[w] = "committed" /\ ~throws'[w]
     \/ tpc[w] = "thrown" /\ throws'[w]
     \/ tpc[w] = "begin" /\ attempts[w] = 0 /\ round[w] >= Rounds /\ throws'[w]
  /\ tpc' = [tpc EXCEPT ![w] = "begin"]
  /\ aborted' = [aborted EXCEPT ![w] = FALSE]
  /\ exc' = [exc EXCEPT ![w] = "none"]
  /\ attempts' = [attempts EXCEPT ![w] = 0]
  /\ misused' = (misused \/ handle[w] = "open")
  /\ handle' = [handle EXCEPT ![w] = "none"]
  /\ UNCHANGED terminated

-----------------------------------------------------------------------------
\* However calls, commits and exceptions follow each other, the library is never
\* called with the handle of a transaction that it has ended, and a worker that
\* is out of transactional() left no transaction open.
HandlesRespected ==
  /\ ~misused
  /\ \A w \in Workers : tpc[w] # "body" /\ tpc[w] # "unwind" => handle[w] # "open"

=============================================================================
