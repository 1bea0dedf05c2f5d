--------------------------- MODULE FiberSchedRefines ---------------------------
(***************************************************************************)
(* FiberSched implements CoopSched: the linked list is the line, the timer *)
(* list scanned for its minimum is the agenda, the waiter list is the set  *)
(* of readers.  Every internal step of the loop (the return of a swap, a   *)
(* stale event, the wait itself) is a stutter.                             *)
(***************************************************************************)
EXTENDS FiberSched

\* A fiber that yielded is in line at once: nobody can be linked before the loop
\* has linked it.
Line == IF current # Null /\ fstate[current] = "ready"
          THEN Append(queue, current) ELSE queue

Running == IF current # Null /\ fstate[current] = "running" THEN current ELSE Null

\* The timers in the order they will fire: p[n] is the place of the n-th.
FiresBefore(ts, j, i) ==
  \/ ts[j].deadlineMs < ts[i].deadlineMs
  \/ ts[j].deadlineMs = ts[i].deadlineMs /\ j < i
FiringOrder(ts, p) ==
  /\ \A m, n \in DOMAIN ts : m < n => FiresBefore(ts, p[m], p[n])
  /\ \A i \in DOMAIN ts : \E n \in DOMAIN ts : p[n] = i
Agenda(ts) ==
  LET p == CHOOSE p \in [DOMAIN ts -> DOMAIN ts] : FiringOrder(ts, p)
  IN  [n \in DOMAIN ts |-> ts[p[n]]]

Entries(s) == {s[i] : i \in DOMAIN s}

\* Parked with nothing that could wake them but a wake.
Parked == {f \in Suspended : ~Holds(timers, f) /\ ~Holds(ioWaiters, f)}

Coop == INSTANCE CoopSched WITH
  line <- Line,
  running <- Running,
  agenda <- Agenda(timers),
  reading <- Entries(ioWaiters),
  parked <- Parked,
  clock <- clockMs,
  input <- readable,
  driven <- mode \in {"run", "poll"},
  closed <- mode \in {"deinit", "dead", "aborted"}

\* sched.sx keeps the promise of CoopSched: every interleaving of fiber calls,
\* loop steps and input is a behaviour of the abstract scheduler.
CoopSpec == Coop!CoopSpec
===============================================================================
