------------------------------ MODULE ThreadPool ------------------------------
(***************************************************************************)
(* The bounded worker pool of library/modules/std/thread.sx.               *)
(*                                                                         *)
(* Threads: one owner, which runs setup, submit and deinit, and the        *)
(* workers, which run poolWorker and whose tasks may call submit in their  *)
(* turn.  Pool fields are only touched under `mu', so a critical section   *)
(* is two actions: Acquire, and its body up to the unlock or the wait.     *)
(* `asleep' is the state of a worker inside pthread_cond_wait; "woken"     *)
(* means it was signalled and has the mutex still to get.                  *)
(*                                                                         *)
(* `backlog' is an auxiliary variable: the accepted tasks no worker has    *)
(* taken yet, oldest first.  No guard reads it.                            *)
(***************************************************************************)
EXTENDS Integers, Sequences, FiniteSets

CONSTANTS
  Workers,    \* setup's `workers'
  Cap,        \* setup's `backlog'
  Task,       \* values of PoolTask
  Owner,      \* the thread that owns the pool
  Null        \* no task, no thread

Worker == 1 .. Workers

ASSUME WorkersAssumption == Workers \in Nat \ {0}
ASSUME CapAssumption     == Cap \in Nat
ASSUME NullAssumption    == Null \notin Task
ASSUME ThreadAssumption  == Owner \notin Worker /\ Null \notin Worker /\ Owner # Null

VARIABLES
  owner,      \* what the owner is doing
  started,    \* workers pthread_create has started so far
  joined,     \* workers deinit has joined so far
  raised,     \* setup is to raise .Spawn
  pc,         \* what each worker is doing
  running,    \* the task each worker executes
  mu,         \* the thread holding Pool.mu
  tasks, head, len,   \* the ring
  stop,
  count,
  backlog

ring == <<tasks, head, len, backlog>>
vars == <<owner, started, joined, raised, pc, running, mu, ring, stop, count>>

Thread == Worker \cup {Owner}
Asleep == {w \in Worker : pc[w] = "asleep"}
\* Started workers that hold no task: the ones a queued task can count on.
Ready  == {w \in Worker : pc[w] \in {"lock", "woken"}}

-----------------------------------------------------------------------------
(* The mutex and the condition variable.                                   *)

\* A task may call submit at any moment, so its worker may take the lock too.
Acquire(t) ==
  /\ mu = Null
  /\ IF t = Owner THEN owner \in {"up", "stop"}
                  ELSE pc[t] \in {"lock", "woken", "running"}
  /\ mu' = t
  /\ UNCHANGED <<owner, started, joined, raised, pc, running, ring, stop, count>>

\* pthread_cond_signal wakes one waiter, if there is one.
Signal ==
  IF Asleep = {} THEN UNCHANGED pc
  ELSE \E w \in Asleep : pc' = [pc EXCEPT ![w] = "woken"]

Broadcast == pc' = [w \in Worker |-> IF w \in Asleep THEN "woken" ELSE pc[w]]

\* POSIX lets a wait return without a signal.
SpuriousWake(w) ==
  /\ pc[w] = "asleep"
  /\ pc' = [pc EXCEPT ![w] = "woken"]
  /\ UNCHANGED <<owner, started, joined, raised, running, mu, ring, stop, count>>

-----------------------------------------------------------------------------
(* setup.                                                                  *)

\* pthread_mutex_init or pthread_cond_init fails: nothing is left behind.
InitFails ==
  /\ owner = "setup"
  /\ started = 0
  /\ owner' = "gone"
  /\ raised' = TRUE
  /\ UNCHANGED <<started, joined, pc, running, mu, ring, stop, count>>

StartWorker ==
  /\ owner = "setup"
  /\ pc' = [pc EXCEPT ![started + 1] = "lock"]
  /\ started' = started + 1
  /\ owner' = IF started + 1 = Workers THEN "up" ELSE "setup"
  /\ UNCHANGED <<joined, raised, running, mu, ring, stop, count>>

\* Broken: deinit would join handles pthread_create never filled in.
StartFailsKeepingCount ==
  /\ owner = "setup"
  /\ raised' = TRUE
  /\ owner' = "stop"
  /\ UNCHANGED <<started, joined, pc, running, mu, ring, stop, count>>

\* pthread_create refuses: deinit joins what started, then setup raises.
StartFails ==
  /\ owner = "setup"
  /\ count' = started
  /\ raised' = TRUE
  /\ owner' = "stop"
  /\ UNCHANGED <<started, joined, pc, running, mu, ring, stop>>

-----------------------------------------------------------------------------
(* submit.                                                                 *)

MaySubmit(t) == IF t = Owner THEN owner = "up" ELSE pc[t] = "running"

\* Broken: the ring is taken to start at slot 0.
SlotFromZero == len

\* The first free slot.
Slot == (head + len) % Cap

\* Broken: no signal; no refusal when full.
SubmitSilently(t, x) ==
  /\ mu = t /\ MaySubmit(t)
  /\ len # Cap /\ ~stop
  /\ tasks' = [tasks EXCEPT ![Slot] = x]
  /\ len' = len + 1
  /\ backlog' = Append(backlog, x)
  /\ mu' = Null
  /\ UNCHANGED <<owner, started, joined, raised, pc, running, head, stop, count>>
SubmitOverfills(t, x) ==
  /\ mu = t /\ MaySubmit(t)
  /\ ~stop
  /\ tasks' = [tasks EXCEPT ![Slot] = x]
  /\ len' = len + 1
  /\ backlog' = Append(backlog, x)
  /\ Signal
  /\ mu' = Null
  /\ UNCHANGED <<owner, started, joined, raised, running, head, stop, count>>

\* The backlog has room and the pool is not stopping.
SubmitAccepts(t, x) ==
  /\ mu = t /\ MaySubmit(t)
  /\ len # Cap /\ ~stop
  /\ tasks' = [tasks EXCEPT ![Slot] = x]
  /\ len' = len + 1
  /\ backlog' = Append(backlog, x)
  /\ Signal
  /\ mu' = Null
  /\ UNCHANGED <<owner, started, joined, raised, running, head, stop, count>>

\* submit returns false: the caller sheds the task.
SubmitRefuses(t) ==
  /\ mu = t /\ MaySubmit(t)
  /\ len = Cap \/ stop
  /\ mu' = Null
  /\ UNCHANGED <<owner, started, joined, raised, pc, running, ring, stop, count>>

-----------------------------------------------------------------------------
(* poolWorker.                                                             *)

Sleep(w) ==
  /\ mu = w /\ pc[w] \in {"lock", "woken"}
  /\ ~stop /\ len = 0
  /\ pc' = [pc EXCEPT ![w] = "asleep"]
  /\ mu' = Null
  /\ UNCHANGED <<owner, started, joined, raised, running, ring, stop, count>>

Exit(w) ==
  /\ mu = w /\ pc[w] \in {"lock", "woken"}
  /\ stop /\ len = 0
  /\ pc' = [pc EXCEPT ![w] = "exited"]
  /\ mu' = Null
  /\ UNCHANGED <<owner, started, joined, raised, running, ring, stop, count>>

Take(w) ==
  /\ mu = w /\ pc[w] \in {"lock", "woken"}
  /\ len # 0
  /\ running' = [running EXCEPT ![w] = tasks[head]]
  /\ head' = (head + 1) % Cap
  /\ len' = len - 1
  /\ backlog' = Tail(backlog)
  /\ pc' = [pc EXCEPT ![w] = "running"]
  /\ mu' = Null
  /\ UNCHANGED <<owner, started, joined, raised, tasks, stop, count>>

\* The task returns; the worker goes for the lock again.
Finish(w) ==
  /\ pc[w] = "running" /\ mu # w
  /\ running' = [running EXCEPT ![w] = Null]
  /\ pc' = [pc EXCEPT ![w] = "lock"]
  /\ UNCHANGED <<owner, started, joined, raised, mu, ring, stop, count>>

-----------------------------------------------------------------------------
(* deinit.                                                                 *)

CallDeinit ==
  /\ owner = "up" /\ mu # Owner
  /\ owner' = "stop"
  /\ UNCHANGED <<started, joined, raised, pc, running, mu, ring, stop, count>>

\* Broken: signal for broadcast.
StopSignals ==
  /\ owner = "stop" /\ mu = Owner
  /\ stop' = TRUE
  /\ Signal
  /\ mu' = Null
  /\ owner' = "join"
  /\ UNCHANGED <<started, joined, raised, running, ring, count>>

Stop ==
  /\ owner = "stop" /\ mu = Owner
  /\ stop' = TRUE
  /\ Broadcast
  /\ mu' = Null
  /\ owner' = "join"
  /\ UNCHANGED <<started, joined, raised, running, ring, count>>

\* pthread_join of the next handle below count.
Join ==
  /\ owner = "join"
  /\ joined < count
  /\ pc[joined + 1] = "exited"
  /\ joined' = joined + 1
  /\ UNCHANGED <<owner, started, raised, pc, running, mu, ring, stop, count>>

\* The mutex and the condition variable are destroyed, the buffers freed.
Destroy ==
  /\ owner = "join"
  /\ joined = count
  /\ owner' = "gone"
  /\ UNCHANGED <<started, joined, raised, pc, running, mu, ring, stop, count>>

Gone ==
  /\ owner = "gone"
  /\ \A w \in Worker : pc[w] \in {"none", "exited"}
  /\ UNCHANGED vars

-----------------------------------------------------------------------------

Init ==
  /\ owner = "setup"
  /\ started = 0 /\ joined = 0
  /\ raised = FALSE
  /\ pc = [w \in Worker |-> "none"]
  /\ running = [w \in Worker |-> Null]
  /\ mu = Null
  /\ tasks = [i \in 0 .. Cap - 1 |-> Null]
  /\ head = 0 /\ len = 0
  /\ stop = FALSE
  /\ count = Workers
  /\ backlog = <<>>

Submit(t) == SubmitRefuses(t) \/ \E x \in Task : SubmitAccepts(t, x)

PoolWorker(w) == Sleep(w) \/ Exit(w) \/ Take(w)

Next ==
  \/ InitFails \/ StartWorker \/ StartFails
  \/ \E t \in Thread : Acquire(t) \/ Submit(t)
  \/ \E w \in Worker : PoolWorker(w) \/ Finish(w) \/ SpuriousWake(w)
  \/ CallDeinit \/ Stop \/ Join \/ Destroy
  \/ Gone

Spec == Init /\ [][Next]_vars

\* Every thread is scheduled and every task returns.  No thread waits for the
\* mutex for ever while others keep taking it: POSIX does not promise that, the
\* platforms' mutexes deliver it.  Nothing makes anyone submit or call deinit.
Fairness ==
  /\ WF_vars(StartWorker)
  /\ WF_vars(Stop \/ Join \/ Destroy)
  /\ SF_vars(owner = "stop" /\ Acquire(Owner))
  /\ WF_vars(Submit(Owner))
  /\ \A w \in Worker :
       /\ WF_vars(PoolWorker(w) \/ Submit(w))
       /\ SF_vars(Finish(w))
       /\ SF_vars(pc[w] \in {"lock", "woken"} /\ Acquire(w))

FairSpec == Spec /\ Fairness

-----------------------------------------------------------------------------
(* Properties.                                                             *)

TypeOK ==
  /\ owner \in {"setup", "up", "stop", "join", "gone"}
  /\ started \in 0 .. Workers
  /\ joined \in 0 .. Workers
  /\ raised \in BOOLEAN
  /\ pc \in [Worker -> {"none", "lock", "asleep", "woken", "running", "exited"}]
  /\ running \in [Worker -> Task \cup {Null}]
  /\ mu \in Thread \cup {Null}
  /\ tasks \in [0 .. Cap - 1 -> Task \cup {Null}]
  /\ head \in Nat /\ len \in 0 .. Cap
  /\ stop \in BOOLEAN
  /\ count \in 0 .. Workers
  /\ backlog \in Seq(Task)

\* The ring holds exactly the accepted and untaken tasks, in the order submit
\* took them: no slot is overwritten and none is run twice (submit, poolWorker).
RingSpellsBacklog ==
  /\ len = Len(backlog)
  /\ \A i \in 1 .. len : tasks[(head + i - 1) % Cap] = backlog[i]

\* No wakeup is lost: while a worker sleeps, every queued task has an idle
\* worker of its own on the way to it (the signal of submit, the re-check of
\* the wait loop).
NoLostWakeup == Asleep # {} => len <= Cardinality(Ready) /\ ~stop

\* A worker leaves only for good reason: the pool is stopping and nothing is
\* queued, so no later submit is accepted that it would have had to serve.
LeavesDrained == (\E w \in Worker : pc[w] = "exited") => stop /\ len = 0

\* After deinit no thread can touch the freed pool, and every accepted task ran
\* (deinit: "let queued tasks finish, join every worker").
DeinitIsLast ==
  owner = "gone" =>
    /\ mu = Null
    /\ \A w \in Worker : pc[w] \in {"none", "exited"}
    /\ backlog = <<>>

\* deinit, called by the user or by a setup that failed half way, comes back.
DeinitReturns == (owner = "stop") ~> (owner = "gone")
=============================================================================
