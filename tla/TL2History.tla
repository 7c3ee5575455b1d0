----------------------------- MODULE TL2History -----------------------------
(***************************************************************************)
(* TL2 with a memory of what ended transactions have read.  When a commit  *)
(* can no longer fail its write version is fixed, but a transaction with a *)
(* lower one may still be validating: only at the end of an execution is   *)
(* it known which commits come before which.                               *)
(***************************************************************************)
EXTENDS TL2

VARIABLE
  seen  \* triples <<n, a, x>>: a transaction placed right after the commits
        \* up to version n has read the value x at address a

historyVars == <<vars, seen>>

\* The reads of transaction t, placed after the commits up to version n.
Placed(t, n) == {<<n, r[1], r[2]>> : r \in reads[t]}

\* The tm_end of a read-write transaction can no longer fail: its place is
\* before its own write version.
Commits(t) == pc[t] \notin CommitSteps /\ pc'[t] \in CommitSteps

\* The tm_end of a read-only transaction: its place is that of its snapshot,
\* unless one of its reads was overtaken by a release.
EndsReadOnly(t) == is_ro[t] /\ pc[t] = "ready" /\ pc'[t] = "idle" /\ ~raced[t]

\* What the transactions that end in this step have read.
Ending ==
  (UNION {Placed(t, wv'[t] - 1) : t \in {u \in Thread : Commits(u)}})
    \cup (UNION {Placed(t, rv[t]) : t \in {u \in Thread : EndsReadOnly(u)}})

Remember == seen' = seen \cup Ending

HistoryInit == Init /\ seen = {}

HistoryNext == Next /\ Remember

HistorySpec == HistoryInit /\ [][HistoryNext]_historyVars

\* The execution is serializable to its end: every transaction that ended, one
\* after the other in the order of the write versions, finds the memory left by
\* the commits before it, whatever commits later, and with whatever version.
HistorySerial == \A s \in seen : IsValueAt(s[2], s[3], s[1])

=============================================================================
