------------------------------- MODULE Executor -------------------------------
(***************************************************************************)
(* What thread.Pool promises: a bounded line of tasks, each started once,  *)
(* in the order submit accepted them, by a worker with nothing else to do. *)
(* A pool that closes accepts nothing more, and is closed only when every  *)
(* accepted task has been started and has returned.                        *)
(***************************************************************************)
EXTENDS Integers, Sequences

CONSTANTS Worker, Cap, Task, Null

VARIABLES
  phase,    \* "opening", "failed", "open", "closing", "closed"
  line,     \* accepted tasks, oldest first
  busy      \* the task each worker executes

Open ==
  /\ phase = "opening" /\ phase' = "open"
  /\ UNCHANGED <<line, busy>>

OpenFails ==
  /\ phase = "opening" /\ phase' = "failed"
  /\ UNCHANGED <<line, busy>>

Accept(x) ==
  /\ phase = "open"
  /\ Len(line) < Cap
  /\ line' = Append(line, x)
  /\ UNCHANGED <<phase, busy>>

Start(w) ==
  /\ phase \in {"open", "closing"}
  /\ line # <<>> /\ busy[w] = Null
  /\ busy' = [busy EXCEPT ![w] = Head(line)]
  /\ line' = Tail(line)
  /\ UNCHANGED phase

Return(w) ==
  /\ busy[w] # Null
  /\ busy' = [busy EXCEPT ![w] = Null]
  /\ UNCHANGED <<phase, line>>

Close ==
  /\ phase = "open" /\ phase' = "closing"
  /\ UNCHANGED <<line, busy>>

Closed ==
  /\ phase = "closing" /\ phase' = "closed"
  /\ line = <<>> /\ \A w \in Worker : busy[w] = Null
  /\ UNCHANGED <<line, busy>>

Init ==
  /\ phase = "opening"
  /\ line = <<>>
  /\ busy = [w \in Worker |-> Null]

Next ==
  \/ Open \/ OpenFails \/ Close \/ Closed
  \/ \E x \in Task : Accept(x)
  \/ \E w \in Worker : Start(w) \/ Return(w)

Spec == Init /\ [][Next]_<<phase, line, busy>>
=============================================================================
