--------------------------- MODULE ThreadPoolRefines ---------------------------
(***************************************************************************)
(* ThreadPool implements Executor.  The ring is the line; a setup that     *)
(* raises never opened, whatever deinit does on its behalf.                *)
(***************************************************************************)
EXTENDS ThreadPool

Line == [i \in 1 .. len |-> tasks[(head + i - 1) % Cap]]

Phase ==
  CASE owner = "gone" /\ raised                        -> "failed"
    [] owner = "gone" /\ ~raised                       -> "closed"
    [] owner = "setup" \/ (owner # "gone" /\ raised)   -> "opening"
    [] owner = "join" /\ ~raised                       -> "closing"
    [] owner \in {"up", "stop"} /\ ~raised             -> "open"

Promise == INSTANCE Executor WITH phase <- Phase, line <- Line, busy <- running

\* The pool keeps the executor's promise (submit, poolWorker, deinit).
PromiseKept == Promise!Spec
=============================================================================
