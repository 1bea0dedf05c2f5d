---------------------------- MODULE FiberIoProofs ----------------------------
(***************************************************************************)
(* The safety of futures over the fiber scheduler, for every set of fibers *)
(* and futures, any durations, and whatever the workers call themselves    *)
(* unless a theorem says otherwise.                                        *)
(***************************************************************************)
EXTENDS FiberIo, FiberSchedProofs

-----------------------------------------------------------------------------
(* The invariant.                                                          *)

FutureState == {"free", "pending", "ready", "failed", "canceled"}
FutureRec ==
  [state : FutureState, canceled : BOOLEAN, park : Fiber \cup {Null},
   task : Fiber \cup {Null}, valued : BOOLEAN, workerDone : BOOLEAN,
   consumed : BOOLEAN]
CallRec ==
  [op : {"body", "settled", "await", "racing", "scan", "cancelling"},
   on : Seq(Future)]

IoShape ==
  /\ fut \in [Future -> FutureRec]
  /\ flag \in [Fiber -> Future \cup {Null}]
  /\ call \in [Fiber -> CallRec]

\* What each call has in hand; race, its last steps and a settled worker have the
\* thread, and a fiber that is done has nothing left.
CallsWhole ==
  \A f \in Fiber :
    /\ call[f].op \in {"body", "settled"} => call[f].on = <<>>
    /\ call[f].op = "await" => \E x \in Future : call[f].on = <<x>>
    /\ call[f].op = "cancelling" => call[f].on # <<>>
    /\ call[f].op \in {"scan", "racing"} => Len(call[f].on) = 2
    /\ call[f].op \in {"settled", "scan", "cancelling"} => fstate[f] = "running"
    /\ fstate[f] \in {"free", "done"} => flag[f] = Null /\ call[f] = Body

\* No two fibers await or race the same future.
Exclusive ==
  \A f, g \in Fiber : f # g => \A x \in Future : ~(Named(f, x) /\ Named(g, x))

\* A future that a fiber waits for has its handle.
Enlisted ==
  \A f \in Fiber : \A x \in Future :
    Named(f, x) => /\ call[f].op = "await" /\ ~fut[x].workerDone => fut[x].park = f
                   /\ call[f].op = "racing" /\ Pending(x) => fut[x].park = f

\* How a future left "pending".
Outcome ==
  \A x \in Future :
    /\ fut[x].state = "ready" => fut[x].workerDone /\ fut[x].valued
    /\ fut[x].state = "failed" => fut[x].workerDone
    /\ fut[x].state = "canceled" => fut[x].canceled

IoInv ==
  /\ SInv
  /\ IoShape
  /\ CallsWhole
  /\ Exclusive
  /\ Enlisted
  /\ Outcome
  /\ FuturesInUse
  /\ PendingHasWorker
  /\ CancelledNeverParked

\* When no worker awaits, an await sleeps until its worker is through, and a race
\* that does not wait has taken its handle back.
AwaitSleeps ==
  /\ ioWaiters = <<>>
  /\ \A f \in Fiber :
       call[f].op = "await" =>
         /\ flag[f] = Null
         /\ fstate[f] = "suspended" => ~Holds(timers, f)
         /\ \A x \in Future :
              Named(f, x) /\ ~fut[x].workerDone => fstate[f] = "suspended"
  /\ \A f \in Fiber : \A x \in Future :
       call[f].op \in {"scan", "cancelling"} /\ Named(f, x) /\ ~fut[x].workerDone
         => fut[x].park # f
SlotsInv == ("await" \notin Nested => AwaitSleeps) /\ SlotsInUse

-----------------------------------------------------------------------------
(* What a step does to the states of the fibers.                           *)

\* No fiber stops, returns or parks.
Keeps ==
  \A f \in Fiber :
    /\ fstate[f] = "running" => fstate'[f] = "running"
    /\ fstate'[f] \in {"free", "done"} => fstate[f] \in {"free", "done"}
    /\ fstate'[f] = "suspended" => fstate[f] = "suspended"

\* Only f is woken, if at all.
WakesOnly(f) ==
  \A g \in Fiber :
    \/ fstate'[g] = fstate[g]
    \/ g = f /\ fstate[g] = "suspended" /\ fstate'[g] = "ready"

LEMMA WakeMoves ==
  ASSUME Shape, NEW f \in Fiber, NEW ts, NEW ws, NEW k, Wake(f, ts, ws, k)
  PROVE  WakesOnly(f)
<1>1. CASE fstate[f] # "suspended"
  BY <1>1 DEF Wake, WakesOnly
<1>2. CASE fstate[f] = "suspended"
  <2>1. fstate' = [fstate EXCEPT ![f] = "ready"]
    BY <1>2 DEF Wake
  <2>. QED BY <1>2, <2>1 DEF Shape, WakesOnly
<1>. QED BY <1>1, <1>2

LEMMA WakesKeep ==
  ASSUME NEW f, WakesOnly(f)
  PROVE  Keeps
BY DEF WakesOnly, Keeps

\* The loop parks nobody and reaps only fibers that are done; a parked fiber
\* without a timer stays so where nobody waits for an fd.
LEMMA LoopMoves ==
  ASSUME SInv, Loop
  PROVE  /\ Keeps
         /\ ioWaiters = <<>> =>
              /\ ioWaiters' = <<>>
              /\ \A f \in Fiber : (fstate[f] = "suspended" /\ ~Holds(timers, f))
                                    => fstate'[f] = "suspended"
<1>0. Shape /\ OneThread
  BY DEF SInv
<1>1. CASE Dispatch
  <2>1. /\ readyHead \in Fiber /\ Queued(readyHead) /\ current = Null
        /\ fstate' = [fstate EXCEPT ![readyHead] = "running"]
        /\ ioWaiters' = ioWaiters
    BY <1>1, DequeueFacts DEF Dispatch, InLoop, SInv, QueuedIffReady, fdVars
  <2>2. fstate[readyHead] = "ready"
    BY <2>1 DEF SInv, QueuedIffReady
  <2>. QED BY <1>0, <2>1, <2>2 DEF Shape, Keeps
<1>2. CASE SwitchedBack
  <2>1. /\ current \in Fiber /\ ioWaiters' = ioWaiters
        /\ \/ fstate[current] = "done" /\ fstate' = [fstate EXCEPT ![current] = "free"]
           \/ fstate' = fstate
    BY <1>0, <1>2 DEF SwitchedBack, Shape, fdVars
  <2>. QED BY <1>0, <2>1 DEF Shape, Keeps
<1>3. CASE FireTimer
  <2>1. PICK i \in DOMAIN timers :
          Wake(timers[i].fiber, Without(timers, i), ioWaiters, kernel)
    BY <1>3 DEF FireTimer
  <2>2. timers[i].fiber \in Fiber /\ Holds(timers, timers[i].fiber)
    BY SourcesOfOthers DEF Holds
  <2>3. WakesOnly(timers[i].fiber)
    BY <1>0, <2>1, <2>2, WakeMoves
  <2>4. ioWaiters = <<>> => ioWaiters' = <<>>
    BY <2>1 DEF Wake, Evict, Holds
  <2>. QED BY <2>2, <2>3, <2>4, WakesKeep DEF WakesOnly
<1>4. CASE HandleEvent
  <2>1. ioWaiters = <<>> => fstate' = fstate /\ ioWaiters' = <<>>
    BY <1>4 DEF HandleEvent
  <2>2. Keeps
    <3>1. CASE \E i \in DOMAIN ioWaiters : \E k :
                 Wake(ioWaiters[i].fiber, timers, Without(ioWaiters, i), k)
      <4>1. PICK i \in DOMAIN ioWaiters : \E k :
                   Wake(ioWaiters[i].fiber, timers, Without(ioWaiters, i), k)
        BY <3>1
      <4>2. ioWaiters[i].fiber \in Fiber
        BY SourcesOfOthers
      <4>. QED BY <1>0, <4>1, <4>2, WakeMoves, WakesKeep
    <3>2. CASE fstate' = fstate
      BY <3>2 DEF Keeps
    <3>. QED BY <1>4, <3>1, <3>2 DEF HandleEvent
  <2>. QED BY <2>1, <2>2
<1>5. CASE WaitForFds \/ Blocked \/ RunEnds \/ PollEnds
  <2>1. fstate' = fstate /\ ioWaiters' = ioWaiters
    BY <1>5 DEF WaitForFds, Blocked, RunEnds, PollEnds, vars, fdVars
  <2>. QED BY <2>1 DEF Keeps
<1>. QED BY <1>1, <1>2, <1>3, <1>4, <1>5 DEF Loop

-----------------------------------------------------------------------------
(* Reading the invariant.                                                  *)

LEMMA FutureFields ==
  ASSUME IoShape, NEW x \in Future
  PROVE  /\ fut[x] \in FutureRec /\ fut[x].state \in FutureState
         /\ fut[x].park \in Fiber \cup {Null} /\ fut[x].task \in Fiber \cup {Null}
BY DEF IoShape, FutureRec

LEMMA CallFields ==
  ASSUME IoShape, NEW f \in Fiber
  PROVE  call[f] \in CallRec /\ call[f].on \in Seq(Future)
BY DEF IoShape, CallRec

LEMMA NamedByNone ==
  ASSUME NEW f, call[f].on = <<>>
  PROVE  \A x : ~Named(f, x)
BY DEF Named

LEMMA NamedByOne ==
  ASSUME NEW f, NEW y, call[f].on = <<y>>
  PROVE  \A x : Named(f, x) <=> x = y
BY DEF Named

\* What FuturesInUse says of the workers and of the callers.
WorkersInUse ==
  \A f \in Fiber :
    (flag[f] # Null /\ call[f].op # "settled")
      => /\ fut[flag[f]].state # "free" /\ ~fut[flag[f]].workerDone
         /\ fut[flag[f]].task = f /\ fstate[f] # "free"
NamedInUse == \A f \in Fiber : \A x \in Future : Named(f, x) => Usable(x)

-----------------------------------------------------------------------------
(* Steps of the scheduler.                                                 *)

LEMMA IoUnmoved ==
  ASSUME IoInv, SInv', Keeps, UNCHANGED ioVars
  PROVE  IoInv'
<1>1. fut' = fut /\ flag' = flag /\ call' = call
  BY DEF ioVars
<1>2. IoShape' /\ Exclusive' /\ Enlisted' /\ Outcome' /\ PendingHasWorker'
  BY <1>1 DEF IoInv, IoShape, Exclusive, Enlisted, Outcome, PendingHasWorker, Named,
              Pending
<1>3. CallsWhole'
  BY <1>1 DEF IoInv, CallsWhole, Keeps
<1>4. FuturesInUse'
  <2>1. \A f \in Fiber : flag[f] # Null => fstate'[f] # "free"
    BY DEF IoInv, CallsWhole, Keeps
  <2>. QED BY <1>1, <2>1 DEF IoInv, FuturesInUse, Named, Usable
<1>5. CancelledNeverParked'
  BY <1>1 DEF IoInv, CancelledNeverParked, FiberCanceled, Keeps
<1>. QED BY <1>2, <1>3, <1>4, <1>5 DEF IoInv

LEMMA SlotsUnmoved ==
  ASSUME SlotsInv, Keeps, NoNewTimer, UNCHANGED ioVars,
         ioWaiters = <<>> =>
           /\ ioWaiters' = <<>>
           /\ \A f \in Fiber : (fstate[f] = "suspended" /\ ~Holds(timers, f))
                                 => fstate'[f] = "suspended"
  PROVE  SlotsInv'
<1>1. fut' = fut /\ flag' = flag /\ call' = call
  BY DEF ioVars
<1>2. \A f : Holds(timers', f) => Holds(timers, f)
  BY DEF NoNewTimer, Holds
<1>3. SlotsInUse'
  BY <1>1 DEF SlotsInv, SlotsInUse, Named
<1>4. AwaitSleeps => AwaitSleeps'
  BY <1>1, <1>2 DEF AwaitSleeps, Named, Keeps
<1>. QED BY <1>3, <1>4 DEF SlotsInv

LEMMA SpawnMoves ==
  ASSUME Shape, Spawn
  PROVE  Keeps
<1>1. PICK f \in Fiber : fstate[f] = "free" /\ fstate' = [fstate EXCEPT ![f] = "ready"]
  BY DEF Spawn
<1>. QED BY <1>1 DEF Shape, Keeps

LEMMA SpawnPlainStep ==
  ASSUME IoInv, SlotsInv, SpawnPlain
  PROVE  IoInv' /\ SlotsInv'
<1>1. Spawn /\ UNCHANGED ioVars
  BY DEF SpawnPlain
<1>2. SInv' /\ Keeps
  BY <1>1, SpawnStep, SpawnMoves DEF IoInv, SInv
<1>3. NoNewTimer /\ ioWaiters' = ioWaiters
  BY <1>1 DEF Spawn, NoNewTimer, timeVars, fdVars
<1>4. PICK f \in Fiber : fstate[f] = "free" /\ fstate' = [fstate EXCEPT ![f] = "ready"]
  BY <1>1 DEF Spawn
<1>5. \A g \in Fiber : fstate[g] = "suspended" => fstate'[g] = "suspended"
  BY <1>4 DEF IoInv, SInv, Shape
<1>. QED BY <1>1, <1>2, <1>3, <1>5, IoUnmoved, SlotsUnmoved

\* Steps that only move the driver, or end the process.
LEMMA QuietIoStep ==
  ASSUME IoInv, SlotsInv,
         UNCHANGED <<fstate, queueVars, current, nSuspended, timeVars, fdVars, ioVars>>,
         \/ mode' = mode
         \/ mode = "main" /\ mode' = "run"
         \/ (InFiber \/ mode = "main") /\ mode' = "aborted"
  PROVE  IoInv' /\ SlotsInv'
<1>1. SInv'
  <2>1. /\ mode \in {"main", "run", "poll", "deinit", "dead", "aborted"}
        /\ evbuf \in Seq(Fd) /\ readable \in SUBSET Fd
        /\ kernel \in [Fd -> {"none", "armed", "disabled"}]
        /\ current # Null => mode \in {"run", "poll", "aborted"}
        /\ evbuf # <<>> => current = Null /\ mode = "run"
    BY DEF IoInv, SInv, Shape, OneThread
  <2>2. /\ current # Null => mode' \in {"run", "poll", "aborted"}
        /\ evbuf # <<>> => current = Null /\ mode' = "run"
    BY <2>1 DEF InFiber
  <2>. QED BY <2>1, <2>2, QuietStep DEF IoInv, fdVars
<1>2. Keeps /\ NoNewTimer
  BY DEF Keeps, NoNewTimer, timeVars
<1>. QED BY <1>1, <1>2, IoUnmoved, SlotsUnmoved DEF fdVars

LEMMA IoLoopStep ==
  ASSUME IoInv, SlotsInv, IoLoop
  PROVE  IoInv' /\ SlotsInv'
<1>1. CASE Loop
  BY <1>1, LoopStep, LoopMoves, IoUnmoved, SlotsUnmoved DEF IoLoop, IoInv
<1>2. CASE StartLoop("run")
  BY <1>2, QuietIoStep DEF IoLoop, StartLoop
<1>3. CASE Stopped
  BY <1>3, QuietIoStep DEF IoLoop, Stopped, vars
<1>. QED BY <1>1, <1>2, <1>3 DEF IoLoop

\* A timer of the running fiber is taken back without a trace.
LEMMA IoSleepRaisesStep ==
  ASSUME IoInv, SlotsInv, NEW ms \in Int, IoSleepRaises(ms)
  PROVE  IoInv' /\ SlotsInv'
<1>. DEFINE n == Len(timers)
            t == [deadlineMs |-> clockMs + ms, fiber |-> current]
            ts == Append(timers, t)
<1>1. /\ current \in Fiber /\ fstate[current] = "running"
      /\ timers' = Evict(ts, current)
      /\ UNCHANGED <<fstate, queueVars, current, nSuspended, clockMs, fdVars, mode, ioVars>>
  BY DEF IoSleepRaises, InBody, InFiber, SleepTimer, IoInv, SInv, Shape
<1>2. t \in AnyTimer /\ t.fiber = current
  BY <1>1 DEF IoInv, SInv, Shape, AnyTimer
<1>. HIDE DEF t
<1>3. /\ ts \in Seq(AnyTimer) /\ n \in Nat /\ DOMAIN timers = 1 .. n
      /\ DOMAIN ts = 1 .. n + 1
      /\ \A i \in 1 .. n : ts[i] = timers[i]
      /\ ts[n + 1] = t
  BY <1>2, AppendProperties, LenProperties DEF IoInv, SInv, Shape
<1>. HIDE DEF n, ts
<1>4. \A i \in 1 .. n : timers[i].fiber # current
  BY <1>1, <1>3, SourcesOfOthers DEF IoInv
<1>5. \A i \in 1 .. n + 1 : i \in 1 .. n \/ i = n + 1
  BY <1>3
<1>6. \A i, j \in DOMAIN ts : ts[i].fiber = ts[j].fiber => i = j
  BY <1>2, <1>3, <1>4, <1>5 DEF IoInv, SInv, WakeSourcesParked, SourcesParked
<1>7. /\ timers' \in Seq(AnyTimer)
      /\ Within(timers', ts, {i \in DOMAIN ts : ts[i].fiber # current})
  <2>1. /\ Evict(ts, current) \in Seq(AnyTimer)
        /\ Within(Evict(ts, current), ts, {i \in DOMAIN ts : ts[i].fiber # current})
    BY <1>3, <1>6, EvictFacts
  <2>. QED BY <1>1, <2>1
<1>8. {i \in DOMAIN ts : ts[i].fiber # current} \subseteq DOMAIN timers
  BY <1>2, <1>3, <1>5
<1>9. PICK m \in [DOMAIN timers' -> {i \in DOMAIN ts : ts[i].fiber # current}] :
        /\ \A i \in DOMAIN timers' : timers'[i] = ts[m[i]]
        /\ \A i, j \in DOMAIN timers' : m[i] = m[j] => i = j
  BY <1>7 DEF Within
<1>10. \A i \in DOMAIN timers' : m[i] \in DOMAIN timers /\ timers'[i] = timers[m[i]]
  BY <1>3, <1>8, <1>9
<1>11. NoNewTimer
  BY <1>10 DEF NoNewTimer
<1>12. WakeSourcesParked'
  BY <1>1, <1>9, <1>10 DEF IoInv, SInv, WakeSourcesParked, SourcesParked, fdVars
<1>13. Shape' /\ OneThread' /\ LinksSpellQueue' /\ QueuedIffReady'
  BY <1>1, <1>7 DEF IoInv, SInv, Shape, OneThread, LinksSpellQueue, QueuedIffReady,
                    LinkedOnce, Queued, queueVars, fdVars
<1>14. SuspendedCounted'
  BY <1>1 DEF IoInv, SInv, SuspendedCounted, Suspended
<1>15. SInv'
  BY <1>12, <1>13, <1>14 DEF SInv
<1>16. Keeps
  BY <1>1 DEF Keeps
<1>. QED BY <1>1, <1>11, <1>15, <1>16, IoUnmoved, SlotsUnmoved DEF fdVars

-----------------------------------------------------------------------------
(* What the invariant says about one future.                               *)

LEMMA PendingIsLive ==
  ASSUME IoInv, NEW x \in Future, Pending(x)
  PROVE  /\ ~fut[x].workerDone
         /\ fut[x].task \in Fiber /\ flag[fut[x].task] = x
         /\ call[fut[x].task].op # "settled"
<1>1. /\ fut[x].task # Null /\ flag[fut[x].task] = x
      /\ call[fut[x].task].op # "settled"
  BY DEF IoInv, PendingHasWorker
<1>2. fut[x].task \in Fiber
  BY <1>1, FutureFields DEF IoInv
<1>3. WorkersInUse
  BY DEF IoInv, FuturesInUse, WorkersInUse, NamedInUse
<1>4. x # Null
  BY FutureAssumption
<1>. QED BY <1>1, <1>2, <1>3, <1>4 DEF WorkersInUse

\* Of the fibers whose cancel flag lives in x, only one has not settled.
LEMMA OneWorker ==
  ASSUME IoInv, NEW x \in Future, NEW f \in Fiber, NEW g \in Fiber,
         flag[f] = x, flag[g] = x,
         call[f].op # "settled", call[g].op # "settled"
  PROVE  f = g
<1>1. WorkersInUse
  BY DEF IoInv, FuturesInUse, WorkersInUse, NamedInUse
<1>2. x # Null
  BY FutureAssumption
<1>. QED BY <1>1, <1>2 DEF WorkersInUse

\* A pending future with an empty park slot is named by no fiber that waits.
LEMMA NobodyWaits ==
  ASSUME IoInv, NEW x \in Future, Pending(x), fut[x].park = Null,
         NEW g \in Fiber, g # current
  PROVE  ~Named(g, x)
<1>1. ~fut[x].workerDone
  BY PendingIsLive
<1>2. g # Null
  BY FiberAssumption
<1>3. fstate[g] # "running"
  BY DEF IoInv, SInv, OneThread
<1>4. call[g].op \in {"body", "settled", "await", "racing", "scan", "cancelling"}
  BY DEF IoInv, IoShape, CallRec
<1>5. CASE call[g].op \in {"body", "settled"}
  BY <1>5, NamedByNone DEF IoInv, CallsWhole
<1>6. CASE call[g].op \in {"scan", "cancelling"}
  BY <1>3, <1>6 DEF IoInv, CallsWhole
<1>7. CASE call[g].op \in {"await", "racing"}
  BY <1>1, <1>2, <1>7 DEF IoInv, Enlisted
<1>. QED BY <1>4, <1>5, <1>6, <1>7

-----------------------------------------------------------------------------
(* Steps that park the running fiber, or end it.                           *)

LEMMA RunningFiber ==
  ASSUME SInv, InFiber
  PROVE  current \in Fiber /\ current # Null /\ fstate[current] = "running"
BY FiberAssumption DEF SInv, Shape, InFiber

LEMMA LeavesFstate ==
  ASSUME SInv, InFiber, NEW st, fstate' = [fstate EXCEPT ![current] = st]
  PROVE  /\ fstate'[current] = st
         /\ \A g \in Fiber : g # current => fstate'[g] = fstate[g]
BY RunningFiber DEF SInv, Shape

LEMMA IoSleepStep ==
  ASSUME IoInv, SlotsInv, NEW ms \in Int, IoSleep(ms)
  PROVE  IoInv' /\ SlotsInv'
<1>1. /\ InFiber /\ Park /\ call[current].op = "body" /\ ~FiberCanceled(current)
      /\ timers' = Append(timers, [deadlineMs |-> clockMs + ms, fiber |-> current])
      /\ UNCHANGED <<queueVars, current, clockMs, fdVars, mode>>
      /\ fut' = fut /\ flag' = flag /\ call' = call /\ ioWaiters' = ioWaiters
  BY DEF IoSleep, InBody, SleepTimer, ioVars, fdVars
<1>2. SInv'
  BY <1>1, SleepStep DEF IoInv
<1>3. /\ current \in Fiber /\ fstate[current] = "running"
      /\ fstate'[current] = "suspended"
      /\ \A g \in Fiber : g # current => fstate'[g] = fstate[g]
  BY <1>1, RunningFiber, LeavesFstate DEF IoInv, Park
<1>4. IoShape' /\ Exclusive' /\ Enlisted' /\ Outcome' /\ PendingHasWorker'
  BY <1>1 DEF IoInv, IoShape, Exclusive, Enlisted, Outcome, PendingHasWorker, Named,
              Pending
<1>5. CallsWhole'
  BY <1>1, <1>3 DEF IoInv, CallsWhole
<1>6. FuturesInUse'
  BY <1>1, <1>3 DEF IoInv, FuturesInUse, Named, Usable
<1>7. CancelledNeverParked'
  BY <1>1, <1>3 DEF IoInv, CancelledNeverParked, FiberCanceled
<1>8. \A f \in Fiber : f # current => (Holds(timers', f) => Holds(timers, f))
  <2>. DEFINE n == Len(timers)
              t == [deadlineMs |-> clockMs + ms, fiber |-> current]
  <2>1. t \in AnyTimer /\ t.fiber = current
    BY <1>3 DEF IoInv, SInv, Shape, AnyTimer
  <2>. HIDE DEF t
  <2>2. /\ n \in Nat /\ DOMAIN timers = 1 .. n /\ DOMAIN timers' = 1 .. n + 1
        /\ \A i \in 1 .. n : timers'[i] = timers[i]
        /\ timers'[n + 1] = t
    BY <1>1, <2>1, AppendProperties, LenProperties DEF IoInv, SInv, Shape, t
  <2>. HIDE DEF n
  <2>3. \A i \in 1 .. n + 1 : i \in 1 .. n \/ i = n + 1
    BY <2>2
  <2>. QED BY <2>1, <2>2, <2>3 DEF Holds
<1>9. SlotsInv'
  BY <1>1, <1>3, <1>8 DEF SlotsInv, SlotsInUse, AwaitSleeps, Named
<1>. QED BY <1>2, <1>4, <1>5, <1>6, <1>7, <1>9 DEF IoInv

LEMMA AwaitParksStep ==
  ASSUME IoInv, SlotsInv, NEW x \in Future, AwaitParks(x)
  PROVE  IoInv' /\ SlotsInv'
<1>1. /\ InFiber /\ Park /\ call[current].op = "body" /\ ~FiberCanceled(current)
      /\ flag[current] = Null \/ "await" \in Nested
      /\ Usable(x) /\ Pending(x) /\ fut[x].park = Null
      /\ fut' = [fut EXCEPT ![x].park = current]
      /\ call' = [call EXCEPT ![current] = [op |-> "await", on |-> <<x>>]]
      /\ flag' = flag /\ timers' = timers /\ ioWaiters' = ioWaiters
  BY DEF AwaitParks, MayCall, InBody, SuspendSelf, timeVars, fdVars
<1>2. SInv'
  BY SuspendSelfStep DEF AwaitParks, IoInv
<1>3. /\ current \in Fiber /\ fstate[current] = "running"
      /\ fstate'[current] = "suspended"
      /\ \A g \in Fiber : g # current => fstate'[g] = fstate[g]
  BY <1>1, RunningFiber, LeavesFstate DEF IoInv, Park
<1>4. /\ fut'[x] = [fut[x] EXCEPT !.park = current]
      /\ \A y \in Future : y # x => fut'[y] = fut[y]
      /\ call'[current] = [op |-> "await", on |-> <<x>>]
      /\ \A g \in Fiber : g # current => call'[g] = call[g]
  BY <1>1, <1>3 DEF IoInv, IoShape
<1>5. ASSUME NEW g \in Fiber
      PROVE  /\ g = current => \A y : Named(g, y)' <=> y = x
             /\ g # current => /\ \A y : Named(g, y)' <=> Named(g, y)
                              /\ ~Named(g, x)
  BY <1>1, <1>4, NobodyWaits DEF Named
<1>6. IoShape'
  <2>1. [fut[x] EXCEPT !.park = current] \in FutureRec
    BY <1>3, FutureFields DEF IoInv, FutureRec
  <2>2. [op |-> "await", on |-> <<x>>] \in CallRec
    BY DEF CallRec
  <2>. QED BY <1>1, <2>1, <2>2 DEF IoInv, IoShape
<1>7. CallsWhole'
  BY <1>1, <1>3, <1>4 DEF IoInv, CallsWhole
<1>8. Exclusive'
  BY <1>5 DEF IoInv, Exclusive
<1>9. /\ fut'[x].park = current
      /\ \A y \in Future : /\ fut'[y].state = fut[y].state
                           /\ fut'[y].canceled = fut[y].canceled
                           /\ fut'[y].task = fut[y].task
                           /\ fut'[y].valued = fut[y].valued
                           /\ fut'[y].workerDone = fut[y].workerDone
                           /\ fut'[y].consumed = fut[y].consumed
                           /\ y # x => fut'[y].park = fut[y].park
  BY <1>4, FutureFields DEF IoInv, FutureRec
<1>10. Enlisted'
  <2>1. ASSUME NEW g \in Fiber, g # current, NEW y \in Future, Named(g, y)'
        PROVE  /\ call'[g] = call[g] /\ Named(g, y) /\ y # x /\ fut'[y] = fut[y]
    BY <1>4, <1>5, <2>1
  <2>2. ASSUME NEW g \in Fiber, g = current, NEW y \in Future, Named(g, y)'
        PROVE  call'[g].op = "await" /\ fut'[y].park = g
    <3>1. call'[g] = [op |-> "await", on |-> <<x>>]
      BY <1>4, <2>2
    <3>2. y = x
      BY <3>1, <2>2 DEF Named
    <3>3. fut'[x].park = g
      BY <1>9, <2>2
    <3>. QED BY <3>1, <3>2, <3>3
  <2>. QED BY <2>1, <2>2 DEF IoInv, Enlisted, Pending
<1>11. Outcome' /\ PendingHasWorker'
  BY <1>1, <1>4, <1>9 DEF IoInv, Outcome, PendingHasWorker, Pending
<1>12. FuturesInUse'
  <2>1. WorkersInUse /\ NamedInUse
    BY DEF IoInv, FuturesInUse, WorkersInUse, NamedInUse
  <2>2. WorkersInUse'
    BY <1>1, <1>3, <1>4, <1>9, <2>1, FutureAssumption DEF WorkersInUse, IoInv, IoShape
  <2>3. NamedInUse'
    BY <1>1, <1>5, <1>9, <2>1 DEF NamedInUse, Usable
  <2>. QED BY <2>2, <2>3 DEF FuturesInUse, WorkersInUse, NamedInUse
<1>13. CancelledNeverParked'
  BY <1>1, <1>3, <1>9 DEF IoInv, IoShape, CancelledNeverParked, FiberCanceled
<1>14. SlotsInUse'
  <2>. SUFFICES ASSUME "await" \notin Nested, NEW g \in Fiber, NEW y \in Future,
                       fut'[y].park = g, ~fut'[y].workerDone
                PROVE  Named(g, y)'
    BY DEF SlotsInUse
  <2>1. g = current => ~Named(g, y)
    BY <1>1, NamedByNone DEF IoInv, CallsWhole
  <2>2. y # x => Named(g, y)
    BY <1>9 DEF SlotsInv, SlotsInUse
  <2>3. g # current => y # x
    BY <1>9
  <2>. QED BY <1>5, <2>1, <2>2, <2>3
<1>15. AwaitSleeps /\ "await" \notin Nested => AwaitSleeps'
  <2>1. ~Holds(timers, current)
    BY <1>3, SourcesOfOthers DEF IoInv, Holds
  <2>. QED BY <1>1, <1>3, <1>4, <1>5, <1>9, <2>1 DEF AwaitSleeps
<1>. QED
  BY <1>2, <1>6, <1>7, <1>8, <1>10, <1>11, <1>12, <1>13, <1>14, <1>15 DEF IoInv, SlotsInv

\* What a future tells anyone but its waiter stays as it is.
SameButPark(x) ==
  /\ fut'[x].state = fut[x].state /\ fut'[x].canceled = fut[x].canceled
  /\ fut'[x].task = fut[x].task /\ fut'[x].valued = fut[x].valued
  /\ fut'[x].workerDone = fut[x].workerDone /\ fut'[x].consumed = fut[x].consumed

-----------------------------------------------------------------------------
(* Steps of race.                                                          *)

\* A coordinator goes on looking, or parks, and only its own park slots move.
LEMMA CoordinatorStep ==
  ASSUME IoInv, SlotsInv, SInv', InFiber, call[current].op \in {"scan", "racing"},
         NEW op \in {"scan", "racing"}, call' = [call EXCEPT ![current].op = op],
         UNCHANGED <<flag, timers, ioWaiters>>,
         fut' \in [Future -> FutureRec],
         \A x \in Future : SameButPark(x),
         \A x \in Future : ~Named(current, x) => fut'[x] = fut[x],
         \A x \in Future : fut'[x].park \in {fut[x].park, current, Null},
         \A g \in Fiber : g # current => fstate'[g] = fstate[g],
         op = "racing" =>
           /\ fstate'[current] = "suspended" /\ ~FiberCanceled(current)
           /\ \A x \in Future : Named(current, x) /\ Pending(x) => fut'[x].park = current,
         op = "scan" =>
           /\ fstate'[current] = "running"
           /\ \A x \in Future : Named(current, x) => fut'[x].park # current
  PROVE  IoInv' /\ SlotsInv'
<1>1. current \in Fiber /\ current # Null /\ fstate[current] = "running"
  BY RunningFiber DEF IoInv
<1>2. /\ call'[current].op = op /\ call'[current].on = call[current].on
      /\ \A g \in Fiber : g # current => call'[g] = call[g]
      /\ call'[current] \in CallRec
  BY <1>1, CallFields DEF IoInv, IoShape, CallRec
<1>3. /\ \A g \in Fiber : call'[g].on = call[g].on
      /\ \A g \in Fiber : (call'[g].op = "settled") <=> (call[g].op = "settled")
  BY <1>2
<1>4. \A g \in Fiber : \A x : Named(g, x)' <=> Named(g, x)
  BY <1>3 DEF Named
<1>5. IoShape'
  BY <1>1, <1>2 DEF IoInv, IoShape
<1>6. CallsWhole'
  BY <1>1, <1>2 DEF IoInv, CallsWhole, Body
<1>7. Exclusive'
  BY <1>4 DEF IoInv, Exclusive
<1>8. ASSUME NEW g \in Fiber, g # current, NEW x \in Future, Named(g, x)
      PROVE  fut'[x] = fut[x]
  <2>1. ~Named(current, x)
    BY <1>1, <1>8 DEF IoInv, Exclusive
  <2>. QED BY <2>1
<1>9. Enlisted'
  <2>1. ASSUME NEW g \in Fiber, g # current, NEW x \in Future, Named(g, x)
        PROVE  fut'[x] = fut[x] /\ call'[g] = call[g]
    BY <1>2, <1>8, <2>1
  <2>2. ASSUME NEW g \in Fiber, g = current, NEW x \in Future, Named(g, x)
        PROVE  /\ call'[g].op # "await"
               /\ call'[g].op = "racing" /\ fut[x].state = "pending" => fut'[x].park = g
    BY <1>2, <2>2 DEF Pending
  <2>. QED BY <1>4, <2>1, <2>2 DEF IoInv, Enlisted, Pending, SameButPark
<1>10. Outcome'
  BY DEF IoInv, Outcome, SameButPark
<1>11. PendingHasWorker'
  <2>1. ASSUME NEW x \in Future, Pending(x)'
        PROVE  (fut[x].task # Null /\ flag[fut[x].task] = x
                  /\ call[fut[x].task].op # "settled") /\ fut[x].task \in Fiber
    BY <2>1, PendingIsLive DEF Pending, SameButPark, IoInv, PendingHasWorker
  <2>. QED BY <1>3, <2>1 DEF PendingHasWorker, SameButPark
<1>12. FuturesInUse'
  <2>1. WorkersInUse /\ NamedInUse
    BY DEF IoInv, FuturesInUse, WorkersInUse, NamedInUse
  <2>2. \A g \in Fiber : fstate[g] # "free" => fstate'[g] # "free"
    BY <1>1
  <2>3. \A g \in Fiber : flag[g] # Null => flag[g] \in Future
    BY DEF IoInv, IoShape
  <2>4. WorkersInUse'
    BY <1>3, <2>1, <2>2, <2>3 DEF WorkersInUse, SameButPark
  <2>5. NamedInUse'
    BY <1>4, <2>1 DEF NamedInUse, Usable, SameButPark
  <2>. QED BY <2>4, <2>5 DEF FuturesInUse, WorkersInUse, NamedInUse
<1>13. CancelledNeverParked'
  <2>1. \A g \in Fiber : FiberCanceled(g)' <=> FiberCanceled(g)
    BY DEF FiberCanceled, IoInv, IoShape, SameButPark
  <2>2. \A g \in Fiber : g = current => (fstate'[g] = "suspended" => ~FiberCanceled(g))
    OBVIOUS
  <2>. QED BY <2>1, <2>2 DEF IoInv, CancelledNeverParked
<1>14. SlotsInUse'
  <2>. SUFFICES ASSUME "await" \notin Nested, NEW g \in Fiber, NEW x \in Future,
                       fut'[x].park = g, ~fut'[x].workerDone
                PROVE  Named(g, x)
    BY <1>4 DEF SlotsInUse
  <2>1. fut[x].park = g => Named(g, x)
    BY DEF SlotsInv, SlotsInUse, SameButPark
  <2>2. g # Null
    BY FiberAssumption
  <2>3. CASE g # current
    BY <2>1, <2>2, <2>3
  <2>4. CASE g = current /\ Named(current, x)
    BY <2>4
  <2>5. CASE g = current /\ ~Named(current, x)
    BY <2>1, <2>5
  <2>. QED BY <2>3, <2>4, <2>5
<1>15. AwaitSleeps => AwaitSleeps'
  <2>. SUFFICES ASSUME AwaitSleeps PROVE AwaitSleeps'
    OBVIOUS
  <2>1. \A g \in Fiber : call'[g].op = "await" => g # current
    BY <1>2
  <2>2. ASSUME NEW g \in Fiber, call'[g].op = "await"
        PROVE  /\ flag[g] = Null
               /\ fstate'[g] = "suspended" => ~Holds(timers, g)
               /\ \A x \in Future : Named(g, x) /\ ~fut'[x].workerDone
                                      => fstate'[g] = "suspended"
    <3>1. g # current /\ call[g].op = "await" /\ fstate'[g] = fstate[g]
      BY <1>2, <2>1, <2>2
    <3>. QED BY <3>1 DEF AwaitSleeps, SameButPark
  <2>3. ASSUME NEW g \in Fiber, NEW x \in Future, call'[g].op \in {"scan", "cancelling"},
               Named(g, x), ~fut'[x].workerDone
        PROVE  fut'[x].park # g
    <3>1. CASE g = current
      BY <1>2, <2>3, <3>1
    <3>2. CASE g # current
      BY <1>2, <1>8, <2>3, <3>2 DEF AwaitSleeps
    <3>. QED BY <3>1, <3>2
  <2>. QED BY <1>4, <2>2, <2>3 DEF AwaitSleeps
<1>. QED
  BY <1>5, <1>6, <1>7, <1>9, <1>10, <1>11, <1>12, <1>13, <1>14, <1>15 DEF IoInv, SlotsInv

LEMMA EnlistFacts ==
  ASSUME IoInv, current \in Fiber
  PROVE  /\ Enlist(current) \in [Future -> FutureRec]
         /\ Delist(current, Enlist(current)) \in [Future -> FutureRec]
         /\ Delist(current, fut) \in [Future -> FutureRec]
         /\ \A x \in Future :
              /\ Enlist(current)[x] =
                   IF Named(current, x) /\ Pending(x)
                   THEN [fut[x] EXCEPT !.park = current] ELSE fut[x]
              /\ Delist(current, fut)[x] =
                   IF Named(current, x) /\ fut[x].park = current
                   THEN [fut[x] EXCEPT !.park = Null] ELSE fut[x]
              /\ Delist(current, Enlist(current))[x] =
                   IF Named(current, x) /\ Enlist(current)[x].park = current
                   THEN [Enlist(current)[x] EXCEPT !.park = Null] ELSE Enlist(current)[x]
<1>1. \A x : x \in Racing(current) <=> Named(current, x)
  BY DEF Racing, Named
<1>2. \A x \in Future : fut[x] \in FutureRec
  BY FutureFields DEF IoInv
<1>3. \A r \in FutureRec : /\ [r EXCEPT !.park = current] \in FutureRec
                           /\ [r EXCEPT !.park = Null] \in FutureRec
  BY DEF FutureRec
<1>4. Enlist(current) \in [Future -> FutureRec]
  BY <1>2, <1>3 DEF Enlist
<1>5. \A fs \in [Future -> FutureRec] :
        /\ Delist(current, fs) \in [Future -> FutureRec]
        /\ \A x \in Future : Delist(current, fs)[x] =
             IF Named(current, x) /\ fs[x].park = current
             THEN [fs[x] EXCEPT !.park = Null] ELSE fs[x]
  BY <1>1, <1>3 DEF Delist
<1>6. fut \in [Future -> FutureRec]
  BY DEF IoInv, IoShape
<1>. QED BY <1>1, <1>4, <1>5, <1>6 DEF Enlist

LEMMA RaceParksStep ==
  ASSUME IoInv, SlotsInv, RaceParks
  PROVE  IoInv' /\ SlotsInv'
<1>1. /\ InFiber /\ call[current].op = "scan" /\ Park /\ ~FiberCanceled(current)
      /\ fut' = Enlist(current) /\ call' = [call EXCEPT ![current].op = "racing"]
      /\ UNCHANGED <<flag, timers, ioWaiters>>
  BY DEF RaceParks, Scanning, SuspendSelf, timeVars, fdVars
<1>2. SInv'
  BY SuspendSelfStep DEF RaceParks, IoInv
<1>3. /\ current \in Fiber /\ fstate'[current] = "suspended"
      /\ \A g \in Fiber : g # current => fstate'[g] = fstate[g]
  BY <1>1, RunningFiber, LeavesFstate DEF IoInv, Park
<1>4. \A x \in Future : /\ fut[x] \in FutureRec
                        /\ fut'[x] = IF Named(current, x) /\ Pending(x)
                                     THEN [fut[x] EXCEPT !.park = current] ELSE fut[x]
  BY <1>1, <1>3, EnlistFacts, FutureFields DEF IoInv
<1>5. \A x \in Future :
        /\ SameButPark(x)
        /\ fut'[x].park \in {fut[x].park, current}
        /\ Named(current, x) /\ Pending(x) => fut'[x].park = current
  BY <1>4 DEF SameButPark, FutureRec
<1>6. fut' \in [Future -> FutureRec]
  BY <1>1, <1>3, EnlistFacts
<1>. QED BY <1>1, <1>2, <1>3, <1>4, <1>5, <1>6, CoordinatorStep

LEMMA RaceSpinsStep ==
  ASSUME IoInv, SlotsInv, RaceSpins
  PROVE  IoInv' /\ SlotsInv'
<1>1. /\ InFiber /\ call[current].op = "scan"
      /\ fut' = Delist(current, Enlist(current))
      /\ UNCHANGED <<flag, call, vars>>
  BY DEF RaceSpins, Scanning
<1>2. SInv'
  BY <1>1, QuietStep DEF IoInv, SInv, Shape, OneThread, vars, fdVars
<1>3. current \in Fiber /\ fstate' = fstate /\ fstate[current] = "running"
  BY <1>1, RunningFiber DEF IoInv, vars
<1>4. call' = [call EXCEPT ![current].op = "scan"]
  BY <1>1, <1>3, CallFields DEF IoInv, IoShape, CallRec
<1>5. \A x \in Future :
        /\ fut[x] \in FutureRec /\ Enlist(current)[x] \in FutureRec
        /\ Enlist(current)[x] = IF Named(current, x) /\ Pending(x)
                                THEN [fut[x] EXCEPT !.park = current] ELSE fut[x]
        /\ fut'[x] = IF Named(current, x) /\ Enlist(current)[x].park = current
                     THEN [Enlist(current)[x] EXCEPT !.park = Null]
                     ELSE Enlist(current)[x]
  BY <1>1, <1>3, EnlistFacts, FutureFields DEF IoInv
<1>6. \A x \in Future :
        /\ SameButPark(x)
        /\ ~Named(current, x) => fut'[x] = fut[x]
        /\ fut'[x].park \in {fut[x].park, current, Null}
        /\ Named(current, x) => fut'[x].park # current
  <2>. SUFFICES ASSUME NEW x \in Future
                PROVE  /\ SameButPark(x)
                       /\ ~Named(current, x) => fut'[x] = fut[x]
                       /\ fut'[x].park \in {fut[x].park, current, Null}
                       /\ Named(current, x) => fut'[x].park # current
    OBVIOUS
  <2>1. Null # current
    BY <1>3, FiberAssumption
  <2>. DEFINE e == Enlist(current)[x]
  <2>2. e.park \in {fut[x].park, current}
    BY <1>5 DEF FutureRec
  <2>3. /\ e.state = fut[x].state /\ e.canceled = fut[x].canceled
        /\ e.task = fut[x].task /\ e.valued = fut[x].valued
        /\ e.workerDone = fut[x].workerDone /\ e.consumed = fut[x].consumed
    BY <1>5 DEF FutureRec
  <2>. QED BY <1>5, <2>1, <2>2, <2>3 DEF SameButPark, FutureRec
<1>7. fut' \in [Future -> FutureRec]
  BY <1>1, <1>3, EnlistFacts
<1>8. UNCHANGED <<flag, timers, ioWaiters>>
  BY <1>1 DEF vars, timeVars, fdVars
<1>. QED BY <1>1, <1>2, <1>3, <1>4, <1>6, <1>7, <1>8, CoordinatorStep

LEMMA RaceResumesStep ==
  ASSUME IoInv, SlotsInv, RaceResumes
  PROVE  IoInv' /\ SlotsInv'
<1>1. /\ InFiber /\ call[current].op = "racing"
      /\ fut' = Delist(current, fut)
      /\ call' = [call EXCEPT ![current].op = "scan"]
      /\ UNCHANGED <<flag, vars>>
  BY DEF RaceResumes
<1>2. SInv'
  BY <1>1, QuietStep DEF IoInv, SInv, Shape, OneThread, vars, fdVars
<1>3. current \in Fiber /\ fstate' = fstate /\ fstate[current] = "running"
  BY <1>1, RunningFiber DEF IoInv, vars
<1>4. Null # current
  BY <1>3, FiberAssumption
<1>5. \A x \in Future :
        /\ fut[x] \in FutureRec
        /\ fut'[x] = IF Named(current, x) /\ fut[x].park = current
                     THEN [fut[x] EXCEPT !.park = Null] ELSE fut[x]
  BY <1>1, <1>3, EnlistFacts, FutureFields DEF IoInv
<1>6. \A x \in Future :
        /\ SameButPark(x)
        /\ ~Named(current, x) => fut'[x] = fut[x]
        /\ fut'[x].park \in {fut[x].park, current, Null}
        /\ Named(current, x) => fut'[x].park # current
  BY <1>4, <1>5 DEF SameButPark, FutureRec
<1>7. fut' \in [Future -> FutureRec]
  BY <1>1, <1>3, EnlistFacts
<1>8. UNCHANGED <<flag, timers, ioWaiters>>
  BY <1>1 DEF vars, timeVars, fdVars
<1>. QED BY <1>1, <1>2, <1>3, <1>6, <1>7, <1>8, CoordinatorStep

\* The entries of a list of futures.
Lists(s, x) == \E i \in DOMAIN s : s[i] = x

\* The running fiber turns to other futures, or to fewer; nothing else moves.
LEMMA RaceTurns ==
  ASSUME IoInv, SlotsInv, InFiber, call[current].op # "settled",
         NEW c \in CallRec, call' = [call EXCEPT ![current] = c],
         UNCHANGED <<vars, fut, flag>>,
         c.op \in {"scan", "cancelling"},
         c.op = "scan" => Len(c.on) = 2,
         c.op = "cancelling" => c.on # <<>>,
         \A x \in Future : Lists(c.on, x) =>
           Usable(x) /\ \A g \in Fiber : g # current => ~Named(g, x),
         "await" \notin Nested =>
           \A x \in Future : ~fut[x].workerDone => fut[x].park # current
  PROVE  IoInv' /\ SlotsInv'
<1>1. /\ current \in Fiber /\ fstate[current] = "running"
      /\ UNCHANGED <<fstate, current, timers, ioWaiters>>
  BY RunningFiber DEF IoInv, vars, timeVars, fdVars
<1>2. call'[current] = c /\ \A g \in Fiber : g # current => call'[g] = call[g]
  BY <1>1 DEF IoInv, IoShape
<1>3. SInv'
  BY QuietStep DEF IoInv, SInv, Shape, OneThread, vars, fdVars
<1>4. ASSUME NEW g \in Fiber
      PROVE  /\ g = current => (call'[g] = c /\ \A x : Named(g, x)' <=> Lists(c.on, x))
             /\ g # current => (call'[g] = call[g] /\ \A x : Named(g, x)' <=> Named(g, x))
  BY <1>2 DEF Named, Lists
<1>5. IoShape'
  BY <1>1 DEF IoInv, IoShape
<1>6. CallsWhole'
  <2>1. ASSUME NEW g \in Fiber, g = current
        PROVE  /\ call'[g].op \in {"body", "settled"} => call'[g].on = <<>>
               /\ call'[g].op = "await" => \E x \in Future : call'[g].on = <<x>>
               /\ call'[g].op = "cancelling" => call'[g].on # <<>>
               /\ call'[g].op \in {"scan", "racing"} => Len(call'[g].on) = 2
               /\ call'[g].op \in {"settled", "scan", "cancelling"} => fstate[g] = "running"
               /\ fstate[g] \in {"free", "done"} => flag[g] = Null /\ call'[g] = Body
    BY <1>1, <1>4, <2>1
  <2>. QED BY <1>1, <1>4, <2>1 DEF IoInv, CallsWhole
<1>7. Exclusive'
  <2>. SUFFICES ASSUME NEW f \in Fiber, NEW g \in Fiber, f # g, NEW x \in Future,
                       Named(f, x)', Named(g, x)'
                PROVE  FALSE
    BY DEF Exclusive
  <2>1. CASE f = current
    BY <1>4, <2>1
  <2>2. CASE g = current
    BY <1>4, <2>2
  <2>3. CASE f # current /\ g # current
    BY <1>4, <2>3 DEF IoInv, Exclusive
  <2>. QED BY <2>1, <2>2, <2>3
<1>8. Enlisted'
  <2>1. \A g \in Fiber : g = current => call'[g].op \notin {"await", "racing"}
    BY <1>4
  <2>2. \A x \in Future : Pending(x)' <=> Pending(x)
    BY DEF Pending
  <2>. QED BY <1>4, <2>1, <2>2 DEF IoInv, Enlisted
<1>9. Outcome'
  BY DEF IoInv, Outcome
<1>10. \A g \in Fiber : call'[g].op # "settled" => call[g].op # "settled"
  BY <1>4
<1>11. \A g \in Fiber : call[g].op # "settled" => call'[g].op # "settled"
  BY <1>4
<1>12. PendingHasWorker'
  <2>1. ASSUME NEW x \in Future, Pending(x)
        PROVE  /\ fut[x].task # Null /\ flag[fut[x].task] = x
               /\ call[fut[x].task].op # "settled" /\ fut[x].task \in Fiber
    BY <2>1, PendingIsLive DEF IoInv, PendingHasWorker
  <2>. QED BY <1>11, <2>1 DEF PendingHasWorker, Pending
<1>13. FuturesInUse'
  <2>1. WorkersInUse /\ NamedInUse
    BY DEF IoInv, FuturesInUse, WorkersInUse, NamedInUse
  <2>2. WorkersInUse'
    BY <1>1, <1>10, <2>1 DEF WorkersInUse
  <2>3. \A x : Usable(x)' <=> Usable(x)
    BY DEF Usable
  <2>4. NamedInUse'
    <3>. SUFFICES ASSUME NEW g \in Fiber, NEW x \in Future, Named(g, x)'
                  PROVE  Usable(x)
      BY <2>3 DEF NamedInUse
    <3>1. g = current => Lists(c.on, x)
      BY <1>4
    <3>2. g # current => Named(g, x)
      BY <1>4
    <3>. QED BY <2>1, <3>1, <3>2 DEF NamedInUse
  <2>. QED BY <2>2, <2>4 DEF FuturesInUse, WorkersInUse, NamedInUse
<1>14. CancelledNeverParked'
  BY <1>1 DEF IoInv, CancelledNeverParked, FiberCanceled
<1>15. SlotsInUse'
  <2>. SUFFICES ASSUME "await" \notin Nested, NEW g \in Fiber, NEW x \in Future,
                       fut[x].park = g, ~fut[x].workerDone
                PROVE  Named(g, x)'
    BY DEF SlotsInUse
  <2>. QED BY <1>4 DEF SlotsInv, SlotsInUse
<1>16. AwaitSleeps /\ "await" \notin Nested => AwaitSleeps'
  <2>. SUFFICES ASSUME AwaitSleeps, "await" \notin Nested PROVE AwaitSleeps'
    OBVIOUS
  <2>1. ASSUME NEW g \in Fiber, call'[g].op = "await"
        PROVE  /\ call[g].op = "await"
               /\ \A x : Named(g, x)' <=> Named(g, x)
    BY <1>4, <2>1
  <2>2. ASSUME NEW g \in Fiber, NEW x \in Future, call'[g].op \in {"scan", "cancelling"},
               Named(g, x)', ~fut[x].workerDone
        PROVE  fut[x].park # g
    BY <1>4, <2>2 DEF AwaitSleeps
  <2>. QED BY <1>1, <2>1, <2>2 DEF AwaitSleeps
<1>. QED
  BY <1>3, <1>5, <1>6, <1>7, <1>8, <1>9, <1>12, <1>13, <1>14, <1>15, <1>16
     DEF IoInv, SlotsInv

\* Outside a call, no park slot that a worker will still read has the fiber.
LEMMA BodyHasNoSlot ==
  ASSUME IoInv, SlotsInv, "await" \notin Nested,
         NEW f \in Fiber, call[f].op \in {"body", "settled"},
         NEW x \in Future, ~fut[x].workerDone
  PROVE  fut[x].park # f
<1>1. ~Named(f, x)
  BY NamedByNone DEF IoInv, CallsWhole
<1>. QED BY <1>1 DEF SlotsInv, SlotsInUse

LEMMA RaceStartsStep ==
  ASSUME IoInv, SlotsInv, RaceStarts
  PROVE  IoInv' /\ SlotsInv'
<1>1. InFiber /\ call[current].op = "body"
  BY DEF RaceStarts, MayCall, InBody
<1>2. PICK s \in [1 .. 2 -> Future] :
        /\ \A i \in DOMAIN s : Usable(s[i]) /\ Sole(s[i])
        /\ call' = [call EXCEPT ![current] = [op |-> "scan", on |-> s]]
  BY DEF RaceStarts
<1>. DEFINE c == [op |-> "scan", on |-> s]
<1>3. s \in Seq(Future) /\ Len(s) = 2
  <2>1. s \in Seq(Future)
    BY SeqDef
  <2>2. DOMAIN s = 1 .. 2 /\ DOMAIN s = 1 .. Len(s) /\ Len(s) \in Nat
    BY <2>1, LenProperties
  <2>. QED BY <2>1, <2>2
<1>4. c \in CallRec /\ c.op = "scan" /\ c.on = s
  BY <1>3 DEF CallRec
<1>5. \A x \in Future : Lists(c.on, x) =>
        Usable(x) /\ \A g \in Fiber : g # current => ~Named(g, x)
  BY <1>2, <1>4 DEF Lists, Sole
<1>6. "await" \notin Nested => \A x \in Future : ~fut[x].workerDone => fut[x].park # current
  BY <1>1, BodyHasNoSlot, RunningFiber DEF IoInv
<1>7. call' = [call EXCEPT ![current] = c] /\ UNCHANGED <<vars, fut, flag>>
  BY <1>2 DEF RaceStarts
<1>. HIDE DEF c
<1>. QED BY <1>1, <1>3, <1>4, <1>5, <1>6, <1>7, RaceTurns

LEMMA RaceWinsStep ==
  ASSUME IoInv, SlotsInv, RaceWins
  PROVE  IoInv' /\ SlotsInv'
<1>. DEFINE on == call[current].on
<1>1. InFiber /\ call[current].op = "scan" /\ current \in Fiber
  BY RunningFiber DEF RaceWins, Scanning, IoInv
<1>2. on \in Seq(Future) /\ Len(on) = 2
  BY <1>1, CallFields DEF IoInv, CallsWhole
<1>3. PICK i \in DOMAIN on :
        call' = [call EXCEPT ![current] = [op |-> "cancelling", on |-> Without(on, i)]]
  BY DEF RaceWins
<1>. DEFINE c == [op |-> "cancelling", on |-> Without(on, i)]
<1>4. /\ Without(on, i) \in Seq(Future) /\ Len(Without(on, i)) = 1
      /\ DOMAIN Without(on, i) = 1 .. 1
      /\ Without(on, i)[1] = IF 1 < i THEN on[1] ELSE on[2]
  <2>. HIDE DEF on
  <2>1. /\ Without(on, i) \in Seq(Future) /\ Len(Without(on, i)) = Len(on) - 1
        /\ DOMAIN Without(on, i) = 1 .. Len(on) - 1
        /\ \A j \in 1 .. Len(on) - 1 :
             Without(on, i)[j] = IF j < i THEN on[j] ELSE on[j + 1]
    BY <1>2, WithoutFacts
  <2>. QED BY <1>2, <2>1
<1>5. DOMAIN on = 1 .. 2
  BY <1>2, LenProperties
<1>6. c \in CallRec /\ c.op = "cancelling" /\ c.on = Without(on, i) /\ c.on # <<>>
  BY <1>4 DEF CallRec
<1>7. \A x \in Future : Lists(c.on, x) => Named(current, x)
  BY <1>4, <1>5, <1>6 DEF Lists, Named
<1>8. \A x \in Future : Lists(c.on, x) =>
        Usable(x) /\ \A g \in Fiber : g # current => ~Named(g, x)
  BY <1>1, <1>7 DEF IoInv, FuturesInUse, Exclusive
<1>9. "await" \notin Nested => \A x \in Future : ~fut[x].workerDone => fut[x].park # current
  BY <1>1 DEF SlotsInv, SlotsInUse, AwaitSleeps
<1>10. call' = [call EXCEPT ![current] = c] /\ UNCHANGED <<vars, fut, flag>>
  BY <1>3 DEF RaceWins
<1>. HIDE DEF c
<1>. QED BY <1>1, <1>6, <1>8, <1>9, <1>10, RaceTurns

-----------------------------------------------------------------------------
(* cancel.                                                                 *)

\* The futures only turn canceled, and whoever that takes is not left parked.
Cancels ==
  /\ fut' \in [Future -> FutureRec]
  /\ \A y \in Future :
       /\ fut'[y].park = fut[y].park /\ fut'[y].task = fut[y].task
       /\ fut'[y].valued = fut[y].valued /\ fut'[y].workerDone = fut[y].workerDone
       /\ fut'[y].consumed = fut[y].consumed
       /\ \/ fut'[y].state = fut[y].state /\ fut'[y].canceled = fut[y].canceled
          \/ /\ fut[y].state # "free"
             /\ fut'[y].state = "canceled" /\ fut'[y].canceled
  /\ \A g \in Fiber : \/ fstate'[g] = fstate[g]
                      \/ /\ flag[g] # Null
                         /\ fstate[g] = "suspended" /\ fstate'[g] = "ready"
  /\ \A g \in Fiber : (fstate'[g] = "suspended" /\ flag[g] # Null)
                        => ~fut'[flag[g]].canceled
  /\ ioWaiters = <<>> => ioWaiters' = <<>>
  /\ NoNewTimer

LEMMA CancelFacts ==
  ASSUME IoInv, InFiber \/ mode = "main", NEW x \in Future, Usable(x),
         CancelFuture(x), OnlyWakes, flag' = flag
  PROVE  Cancels /\ SInv'
<1>1. /\ fut' \in [Future -> FutureRec]
      /\ \A y \in Future : y # x => fut'[y] = fut[y]
      /\ fut'[x].park = fut[x].park /\ fut'[x].task = fut[x].task
      /\ fut'[x].valued = fut[x].valued /\ fut'[x].workerDone = fut[x].workerDone
      /\ fut'[x].consumed = fut[x].consumed
      /\ fut'[x].state = "canceled" /\ fut'[x].canceled
  <2>1. fut \in [Future -> FutureRec] /\ fut[x] \in FutureRec
    BY FutureFields DEF IoInv, IoShape
  <2>2. fut' = [fut EXCEPT ![x].canceled = TRUE, ![x].state = "canceled"]
    BY DEF CancelFuture
  <2>3. [[fut[x] EXCEPT !.canceled = TRUE] EXCEPT !.state = "canceled"] \in FutureRec
    BY <2>1 DEF FutureRec, FutureState
  <2>. QED BY <2>1, <2>2, <2>3 DEF FutureRec
<1>2. \A g \in Fiber : (flag[g] # Null /\ fstate[g] = "suspended")
                          => flag[g] \in Future /\ ~fut[flag[g]].canceled
  BY DEF IoInv, IoShape, CancelledNeverParked, FiberCanceled
<1>3. CASE Pending(x)
  <2>. DEFINE f == fut[x].task
  <2>1. f \in Fiber /\ f # Null /\ flag[f] = x /\ call[f].op # "settled" /\ x # Null
    BY <1>3, PendingIsLive, FiberAssumption, FutureAssumption
  <2>2. Wake(f, timers, ioWaiters, kernel)
    BY <1>3, <2>1 DEF CancelFuture, Ready
  <2>. HIDE DEF f
  <2>3. SInv' /\ NoNewTimer
    BY <2>1, <2>2, WakeCallStep DEF OnlyWakes, IoInv
  <2>4. WakesOnly(f)
    BY <2>1, <2>2, WakeMoves DEF IoInv, SInv
  <2>5. ioWaiters = <<>> => ioWaiters' = <<>>
    BY <2>2 DEF Wake, Evict, Holds
  <2>6. fstate'[f] # "suspended"
    BY <2>1, <2>2 DEF Wake, IoInv, SInv, Shape
  <2>7. \A g \in Fiber : (fstate[g] = "suspended" /\ flag[g] = x) => g = f
    <3>1. \A g \in Fiber : fstate[g] = "suspended" => call[g].op # "settled"
      BY DEF IoInv, CallsWhole
    <3>. QED BY <2>1, <3>1, OneWorker
  <2>8. \A g \in Fiber : (fstate'[g] = "suspended" /\ flag[g] # Null)
                            => ~fut'[flag[g]].canceled
    <3>. SUFFICES ASSUME NEW g \in Fiber, fstate'[g] = "suspended", flag[g] # Null
                  PROVE  ~fut'[flag[g]].canceled
      OBVIOUS
    <3>1. g # f /\ fstate[g] = "suspended"
      BY <2>4, <2>6 DEF WakesOnly
    <3>2. flag[g] # x
      BY <2>7, <3>1
    <3>. QED BY <1>1, <1>2, <3>1, <3>2
  <2>9. \A g \in Fiber : \/ fstate'[g] = fstate[g]
                         \/ /\ flag[g] # Null
                            /\ fstate[g] = "suspended" /\ fstate'[g] = "ready"
    BY <2>1, <2>4 DEF WakesOnly
  <2>. QED BY <1>1, <2>3, <2>5, <2>8, <2>9 DEF Cancels, Usable
<1>4. CASE ~Pending(x)
  <2>1. UNCHANGED <<fstate, queueVars, nSuspended, timers, ioWaiters, kernel, current,
                    clockMs, evbuf, readable, mode>>
    BY <1>4 DEF CancelFuture, OnlyWakes
  <2>2. SInv'
    BY <2>1, QuietStep DEF IoInv, SInv, Shape, OneThread, timeVars
  <2>3. \A g \in Fiber : (fstate'[g] = "suspended" /\ flag[g] # Null)
                            => ~fut'[flag[g]].canceled
    <3>. SUFFICES ASSUME NEW g \in Fiber, fstate[g] = "suspended", flag[g] # Null
                  PROVE  ~fut'[flag[g]].canceled
      BY <2>1
    <3>1. call[g].op # "settled"
      BY DEF IoInv, CallsWhole
    <3>2. ~fut[flag[g]].workerDone /\ fut[flag[g]].state # "free"
      BY <3>1 DEF IoInv, FuturesInUse
    <3>3. fut[x].state \in FutureState
      BY FutureFields DEF IoInv
    <3>4. flag[g] # x
      BY <1>2, <1>4, <3>2, <3>3 DEF IoInv, Outcome, Pending, FutureState
    <3>. QED BY <1>1, <1>2, <3>4
  <2>4. NoNewTimer
    BY <2>1 DEF NoNewTimer
  <2>. QED BY <1>1, <2>1, <2>2, <2>3, <2>4 DEF Cancels, Usable
<1>. QED BY <1>3, <1>4

\* A coordinator that cancels the losers gets through its list.
CallsShrink ==
  /\ call' \in [Fiber -> CallRec]
  /\ \A g \in Fiber :
       \/ call'[g] = call[g]
       \/ /\ fstate[g] = "running" /\ call[g].op = "cancelling"
          /\ call'[g] = Body \/ (call'[g].op = "cancelling" /\ call'[g].on # <<>>)
          /\ \A x \in Future : Lists(call'[g].on, x) => Lists(call[g].on, x)

LEMMA CancelsStep ==
  ASSUME IoInv, SlotsInv, SInv', Cancels, CallsShrink, flag' = flag
  PROVE  IoInv' /\ SlotsInv'
<1>1. /\ IoShape'
      /\ \A g \in Fiber : flag[g] # Null => flag[g] \in Future
  BY DEF IoInv, IoShape, Cancels, CallsShrink
<1>2. Keeps
  BY DEF Cancels, Keeps
<1>3. \A g \in Fiber : \A x \in Future : Named(g, x)' => Named(g, x)
  BY DEF CallsShrink, Named, Lists
<1>4. \A g \in Fiber : (call'[g].op = "settled") <=> (call[g].op = "settled")
  BY DEF CallsShrink, Body
<1>5. CallsWhole'
  <2>. SUFFICES ASSUME NEW g \in Fiber
                PROVE  /\ call'[g].op \in {"body", "settled"} => call'[g].on = <<>>
                       /\ call'[g].op = "await" => \E x \in Future : call'[g].on = <<x>>
                       /\ call'[g].op = "cancelling" => call'[g].on # <<>>
                       /\ call'[g].op \in {"scan", "racing"} => Len(call'[g].on) = 2
                       /\ call'[g].op \in {"settled", "scan", "cancelling"}
                            => fstate'[g] = "running"
                       /\ fstate'[g] \in {"free", "done"} => flag'[g] = Null /\ call'[g] = Body
    BY DEF CallsWhole
  <2>1. CASE call'[g] = call[g]
    BY <1>2, <2>1 DEF IoInv, CallsWhole, Keeps
  <2>2. CASE call'[g] # call[g]
    <3>1. /\ fstate[g] = "running"
          /\ call'[g] = Body \/ (call'[g].op = "cancelling" /\ call'[g].on # <<>>)
      BY <2>2 DEF CallsShrink
    <3>2. fstate'[g] = "running"
      BY <1>2, <3>1 DEF Keeps
    <3>. QED BY <3>1, <3>2 DEF Body
  <2>. QED BY <2>1, <2>2
<1>6. Exclusive'
  BY <1>3 DEF IoInv, Exclusive
<1>7. Enlisted'
  <2>1. \A g \in Fiber : call'[g].op \in {"await", "racing"} => call[g].op = call'[g].op
    BY DEF CallsShrink, Body
  <2>2. \A x \in Future : Pending(x)' => Pending(x)
    BY DEF Cancels, Pending
  <2>. QED BY <1>3, <2>1, <2>2 DEF IoInv, Enlisted, Cancels
<1>8. Outcome'
  BY DEF IoInv, Outcome, Cancels
<1>9. WorkersInUse /\ NamedInUse
  BY DEF IoInv, FuturesInUse, WorkersInUse, NamedInUse
<1>10. WorkersInUse'
  <2>. SUFFICES ASSUME NEW g \in Fiber, flag[g] # Null, call'[g].op # "settled"
                PROVE  /\ fut'[flag[g]].state # "free" /\ ~fut'[flag[g]].workerDone
                       /\ fut'[flag[g]].task = g /\ fstate'[g] # "free"
    BY DEF WorkersInUse
  <2>1. /\ fut[flag[g]].state # "free" /\ ~fut[flag[g]].workerDone
        /\ fut[flag[g]].task = g /\ fstate[g] # "free"
    BY <1>4, <1>9 DEF WorkersInUse
  <2>2. flag[g] \in Future
    BY <1>1
  <2>3. fstate'[g] # "free"
    BY <2>1 DEF Cancels
  <2>. QED BY <2>1, <2>2, <2>3 DEF Cancels
<1>11. NamedInUse'
  BY <1>3, <1>9 DEF NamedInUse, Usable, Cancels
<1>12. PendingHasWorker'
  <2>. SUFFICES ASSUME NEW x \in Future, Pending(x)'
                PROVE  /\ fut'[x].task # Null
                       /\ flag[fut'[x].task] = x /\ call'[fut'[x].task].op # "settled"
    BY DEF PendingHasWorker
  <2>1. Pending(x) /\ fut'[x].task = fut[x].task
    BY DEF Cancels, Pending
  <2>2. fut[x].task # Null
    BY <2>1 DEF IoInv, PendingHasWorker
  <2>. QED BY <1>4, <2>1, <2>2, PendingIsLive
<1>13. CancelledNeverParked'
  BY DEF CancelledNeverParked, FiberCanceled, Cancels
<1>14. "await" \notin Nested =>
         \A g \in Fiber : \A x \in Future :
           (Named(g, x) /\ ~fut[x].workerDone /\ fut[x].park = g) => call'[g] = call[g]
  BY DEF SlotsInv, AwaitSleeps, CallsShrink
<1>15. SlotsInUse'
  <2>. SUFFICES ASSUME "await" \notin Nested, NEW g \in Fiber, NEW x \in Future,
                       fut'[x].park = g, ~fut'[x].workerDone
                PROVE  Named(g, x)'
    BY DEF SlotsInUse
  <2>1. fut[x].park = g /\ ~fut[x].workerDone
    BY DEF Cancels
  <2>2. Named(g, x)
    BY <2>1 DEF SlotsInv, SlotsInUse
  <2>3. call'[g] = call[g]
    BY <1>14, <2>1, <2>2
  <2>. QED BY <2>2, <2>3 DEF Named
<1>16. AwaitSleeps => AwaitSleeps'
  <2>. SUFFICES ASSUME AwaitSleeps PROVE AwaitSleeps'
    OBVIOUS
  <2>1. \A f : Holds(timers', f) => Holds(timers, f)
    BY DEF NoNewTimer, Holds, Cancels
  <2>2. ASSUME NEW g \in Fiber, call'[g].op = "await"
        PROVE  /\ flag'[g] = Null
               /\ fstate'[g] = "suspended" => ~Holds(timers', g)
               /\ \A x \in Future :
                    Named(g, x)' /\ ~fut'[x].workerDone => fstate'[g] = "suspended"
    <3>1. call[g].op = "await"
      BY <2>2 DEF CallsShrink, Body
    <3>2. flag[g] = Null
      BY <3>1 DEF AwaitSleeps
    <3>3. fstate'[g] = fstate[g]
      BY <3>2 DEF Cancels
    <3>. QED BY <1>3, <2>1, <3>1, <3>2, <3>3 DEF AwaitSleeps, Cancels
  <2>3. ASSUME NEW g \in Fiber, NEW x \in Future, call'[g].op \in {"scan", "cancelling"},
               Named(g, x)', ~fut'[x].workerDone
        PROVE  fut'[x].park # g
    <3>1. call[g].op \in {"scan", "cancelling"}
      BY <2>3 DEF CallsShrink, Body
    <3>. QED BY <1>3, <2>3, <3>1 DEF AwaitSleeps, Cancels
  <2>. QED BY <2>2, <2>3 DEF AwaitSleeps, Cancels
<1>17. FuturesInUse'
  BY <1>10, <1>11 DEF FuturesInUse, WorkersInUse, NamedInUse
<1>. QED
  BY <1>1, <1>5, <1>6, <1>7, <1>8, <1>12, <1>13, <1>15, <1>16, <1>17 DEF IoInv, SlotsInv

LEMMA CancelStep ==
  ASSUME IoInv, SlotsInv, NEW x \in Future, Cancel(x)
  PROVE  IoInv' /\ SlotsInv'
<1>1. /\ InFiber \/ mode = "main"
      /\ Usable(x) /\ CancelFuture(x) /\ OnlyWakes /\ flag' = flag /\ call' = call
  BY DEF Cancel, InUser, InBody
<1>2. CallsShrink
  BY <1>1 DEF CallsShrink, IoInv, IoShape
<1>. QED BY <1>1, <1>2, CancelFacts, CancelsStep

LEMMA RaceCancelsStep ==
  ASSUME IoInv, SlotsInv, RaceCancels
  PROVE  IoInv' /\ SlotsInv'
<1>. DEFINE on == call[current].on
<1>1. /\ InFiber /\ call[current].op = "cancelling"
      /\ current \in Fiber /\ fstate[current] = "running"
  BY RunningFiber DEF RaceCancels, IoInv
<1>2. on \in Seq(Future) /\ on # <<>>
  BY <1>1, CallFields DEF IoInv, CallsWhole
<1>3. /\ Head(on) \in Future /\ Tail(on) \in Seq(Future)
      /\ Len(on) \in Nat /\ Len(on) # 0 /\ DOMAIN on = 1 .. Len(on)
      /\ Head(on) = on[1] /\ Len(Tail(on)) = Len(on) - 1
      /\ DOMAIN Tail(on) = 1 .. Len(on) - 1
      /\ \A i \in 1 .. Len(on) - 1 : Tail(on)[i] = on[i + 1]
  <2>. HIDE DEF on
  <2>1. /\ Head(on) \in Future /\ Tail(on) \in Seq(Future)
        /\ Len(Tail(on)) = Len(on) - 1 /\ Head(on) = on[1]
        /\ \A i \in 1 .. Len(Tail(on)) : Tail(on)[i] = on[i + 1]
    BY <1>2, HeadTailProperties
  <2>2. Len(on) \in Nat /\ Len(on) # 0 /\ DOMAIN on = 1 .. Len(on)
    BY <1>2, LenProperties, EmptySeq
  <2>3. DOMAIN Tail(on) = 1 .. Len(Tail(on))
    BY <2>1, LenProperties
  <2>. QED BY <2>1, <2>2, <2>3
<1>4. Usable(Head(on))
  <2>1. Named(current, Head(on))
    BY <1>3 DEF Named
  <2>. QED BY <1>1, <1>3, <2>1 DEF IoInv, FuturesInUse
<1>5. Cancels /\ SInv'
  <2>0. OnlyWakes /\ flag' = flag
    BY DEF RaceCancels
  <2>1. CASE Pending(Head(on)) /\ CancelFuture(Head(on))
    BY <1>1, <1>3, <1>4, <2>0, <2>1, CancelFacts
  <2>2. CASE UNCHANGED <<fut, fstate, queueVars, nSuspended, timers, ioWaiters, kernel>>
    <3>1. SInv'
      BY <2>0, <2>2, QuietStep DEF IoInv, SInv, Shape, OneThread, timeVars, OnlyWakes
    <3>2. NoNewTimer
      BY <2>2 DEF NoNewTimer
    <3>. QED BY <2>2, <3>1, <3>2 DEF Cancels, IoInv, IoShape, CancelledNeverParked,
                                     FiberCanceled
  <2>. QED BY <2>1, <2>2 DEF RaceCancels
<1>6. CallsShrink
  <2>. DEFINE c == IF Len(on) = 1 THEN Body ELSE [op |-> "cancelling", on |-> Tail(on)]
  <2>1. call' = [call EXCEPT ![current] = c]
    BY DEF RaceCancels
  <2>2. Body \in CallRec /\ Body.on = <<>>
    BY DEF Body, CallRec
  <2>3. c \in CallRec
    BY <1>3, <2>2 DEF CallRec
  <2>4. c = Body \/ (c.op = "cancelling" /\ c.on # <<>>)
    <3>1. Len(on) # 1 => Tail(on) # <<>>
      <4>1. Len(Tail(on)) = 0 => Len(on) = 1
        BY <1>3
      <4>2. Len(<<>>) = 0
        OBVIOUS
      <4>. HIDE DEF on
      <4>. QED BY <4>1, <4>2
    <3>. QED BY <3>1
  <2>5. \A x \in Future : Lists(c.on, x) => Lists(on, x)
    <3>1. CASE c = Body
      BY <2>2, <3>1 DEF Lists
    <3>2. CASE c.on = Tail(on)
      <4>1. \A i \in 1 .. Len(on) - 1 : i + 1 \in 1 .. Len(on)
        BY <1>3
      <4>. QED BY <1>3, <3>2, <4>1 DEF Lists
    <3>. QED BY <3>1, <3>2
  <2>. HIDE DEF c
  <2>6. \A g \in Fiber : IF g = current THEN call'[g] = c ELSE call'[g] = call[g]
    BY <2>1 DEF IoInv, IoShape
  <2>7. call' \in [Fiber -> CallRec]
    BY <2>1, <2>3 DEF IoInv, IoShape
  <2>. QED BY <1>1, <2>4, <2>5, <2>6, <2>7 DEF CallsShrink
<1>. QED BY <1>5, <1>6, CancelsStep DEF RaceCancels

-----------------------------------------------------------------------------
(* The life of a worker.                                                   *)

LEMMA FiberReturnsStep ==
  ASSUME IoInv, SlotsInv, FiberReturns
  PROVE  IoInv' /\ SlotsInv'
<1>1. /\ InFiber /\ fstate' = [fstate EXCEPT ![current] = "done"]
      /\ UNCHANGED <<queueVars, current, nSuspended, timeVars, fdVars, mode>>
      /\ call[current].op = "settled" \/ (call[current].op = "body" /\ flag[current] = Null)
      /\ flag' = [flag EXCEPT ![current] = Null]
      /\ call' = [call EXCEPT ![current] = Body] /\ fut' = fut
  BY DEF FiberReturns, BodyReturns
<1>2. SInv'
  BY <1>1, LeavesUnparked DEF IoInv
<1>3. /\ current \in Fiber /\ fstate'[current] = "done"
      /\ \A g \in Fiber : g # current => fstate'[g] = fstate[g]
  BY <1>1, RunningFiber, LeavesFstate DEF IoInv
<1>4. Body \in CallRec /\ Body.op = "body" /\ Body.on = <<>>
  BY DEF Body, CallRec
<1>5. ASSUME NEW g \in Fiber
      PROVE  /\ g = current => (call'[g] = Body /\ flag'[g] = Null /\ fstate'[g] = "done")
             /\ g # current =>
                  call'[g] = call[g] /\ flag'[g] = flag[g] /\ fstate'[g] = fstate[g]
  BY <1>1, <1>3 DEF IoInv, IoShape
<1>6. call[current].on = <<>>
  BY <1>1, <1>3 DEF IoInv, CallsWhole
<1>7. \A g \in Fiber : call'[g].on = call[g].on
  BY <1>4, <1>5, <1>6
<1>8. \A g \in Fiber : \A x : Named(g, x)' <=> Named(g, x)
  BY <1>7 DEF Named
<1>9. IoShape'
  BY <1>1, <1>4 DEF IoInv, IoShape
<1>10. CallsWhole'
  BY <1>4, <1>5 DEF IoInv, CallsWhole
<1>11. Exclusive' /\ Outcome'
  BY <1>1, <1>8 DEF IoInv, Exclusive, Outcome
<1>12. \A g \in Fiber : call'[g].op # "body" => call'[g].op = call[g].op
  BY <1>4, <1>5
<1>13. Enlisted'
  BY <1>1, <1>8, <1>12 DEF IoInv, Enlisted, Pending
<1>14. PendingHasWorker'
  <2>. SUFFICES ASSUME NEW x \in Future, Pending(x)
                PROVE  /\ fut[x].task # Null
                       /\ flag'[fut[x].task] = x /\ call'[fut[x].task].op # "settled"
    BY <1>1 DEF PendingHasWorker, Pending
  <2>1. /\ fut[x].task # Null /\ fut[x].task \in Fiber /\ flag[fut[x].task] = x
        /\ call[fut[x].task].op # "settled" /\ x # Null
    BY PendingIsLive, FutureAssumption DEF IoInv, PendingHasWorker
  <2>2. fut[x].task # current
    BY <1>1, <2>1
  <2>. QED BY <1>5, <2>1, <2>2
<1>15. FuturesInUse'
  <2>1. WorkersInUse /\ NamedInUse
    BY DEF IoInv, FuturesInUse, WorkersInUse, NamedInUse
  <2>2. WorkersInUse'
    BY <1>1, <1>5, <2>1 DEF WorkersInUse
  <2>3. NamedInUse'
    BY <1>1, <1>8, <2>1 DEF NamedInUse, Usable
  <2>. QED BY <2>2, <2>3 DEF FuturesInUse, WorkersInUse, NamedInUse
<1>16. CancelledNeverParked'
  BY <1>1, <1>5 DEF IoInv, CancelledNeverParked, FiberCanceled
<1>17. SlotsInUse'
  BY <1>1, <1>8 DEF SlotsInv, SlotsInUse
<1>18. AwaitSleeps => AwaitSleeps'
  <2>. SUFFICES ASSUME AwaitSleeps PROVE AwaitSleeps'
    OBVIOUS
  <2>1. ASSUME NEW g \in Fiber, call'[g].op # "body"
        PROVE  call'[g].op = call[g].op /\ flag'[g] = flag[g] /\ fstate'[g] = fstate[g]
    BY <1>4, <1>5, <2>1
  <2>2. timers' = timers /\ ioWaiters' = ioWaiters
    BY <1>1 DEF timeVars, fdVars
  <2>. QED BY <1>1, <1>8, <2>1, <2>2 DEF AwaitSleeps
<1>. QED
  BY <1>2, <1>9, <1>10, <1>11, <1>13, <1>14, <1>15, <1>16, <1>17, <1>18 DEF IoInv, SlotsInv

LEMMA AsyncStep ==
  ASSUME IoInv, SlotsInv, NEW x \in Future, Async(x)
  PROVE  IoInv' /\ SlotsInv'
<1>1. PICK f \in Fiber :
        /\ fstate[f] = "free" /\ Spawn /\ fstate'[f] = "ready"
        /\ fut' = [fut EXCEPT ![x] = [Freed EXCEPT !.state = "pending", !.task = f]]
        /\ flag' = [flag EXCEPT ![f] = x]
  BY DEF Async
<1>2. fut[x].state = "free" /\ call' = call
  BY DEF Async
<1>3. SInv' /\ Keeps
  BY <1>1, SpawnStep, SpawnMoves DEF IoInv, SInv
<1>4. \A g \in Fiber : g # f => fstate'[g] = fstate[g]
  <2>1. PICK h \in Fiber : fstate[h] = "free" /\ fstate' = [fstate EXCEPT ![h] = "ready"]
    BY <1>1 DEF Spawn
  <2>. QED BY <1>1, <2>1 DEF IoInv, SInv, Shape
<1>5. /\ fut'[x].state = "pending" /\ ~fut'[x].canceled /\ fut'[x].park = Null
      /\ fut'[x].task = f /\ ~fut'[x].workerDone /\ ~fut'[x].consumed
      /\ fut'[x] \in FutureRec
      /\ \A y \in Future : y # x => fut'[y] = fut[y]
  <2>. DEFINE r == [Freed EXCEPT !.state = "pending", !.task = f]
  <2>1. /\ r.state = "pending" /\ ~r.canceled /\ r.park = Null
        /\ r.task = f /\ ~r.workerDone /\ ~r.consumed /\ r \in FutureRec
    BY DEF Freed, FutureRec, FutureState
  <2>. HIDE DEF r
  <2>2. fut' = [fut EXCEPT ![x] = r]
    BY <1>1 DEF r
  <2>3. fut'[x] = r /\ \A y \in Future : y # x => fut'[y] = fut[y]
    BY <2>2 DEF IoInv, IoShape
  <2>. QED BY <2>1, <2>3
<1>6. flag[f] = Null /\ call[f] = Body /\ call[f].op = "body" /\ call[f].on = <<>>
  BY <1>1 DEF IoInv, CallsWhole, Body
<1>7. flag'[f] = x /\ \A g \in Fiber : g # f => flag'[g] = flag[g]
  BY <1>1 DEF IoInv, IoShape
<1>8. WorkersInUse /\ NamedInUse
  BY DEF IoInv, FuturesInUse, WorkersInUse, NamedInUse
<1>9. \A g \in Fiber : ~Named(g, x)
  BY <1>2, <1>8 DEF NamedInUse, Usable
<1>10. \A g \in Fiber : \A y : Named(g, y)' <=> Named(g, y)
  BY <1>2 DEF Named
<1>11. x # Null /\ f # Null
  BY FutureAssumption, FiberAssumption
<1>12. \A g \in Fiber : (flag[g] # Null /\ call[g].op # "settled") =>
         flag[g] \in Future /\ flag[g] # x
  BY <1>2, <1>8 DEF WorkersInUse, IoInv, IoShape
<1>13. IoShape'
  BY <1>1, <1>2, <1>5 DEF IoInv, IoShape
<1>14. CallsWhole'
  <2>. SUFFICES ASSUME NEW g \in Fiber
                PROVE  /\ call[g].op \in {"body", "settled"} => call[g].on = <<>>
                       /\ call[g].op = "await" => \E y \in Future : call[g].on = <<y>>
                       /\ call[g].op = "cancelling" => call[g].on # <<>>
                       /\ call[g].op \in {"scan", "racing"} => Len(call[g].on) = 2
                       /\ call[g].op \in {"settled", "scan", "cancelling"}
                            => fstate'[g] = "running"
                       /\ fstate'[g] \in {"free", "done"} => flag'[g] = Null /\ call[g] = Body
    BY <1>2 DEF CallsWhole
  <2>1. CASE g = f
    BY <1>1, <1>6, <2>1
  <2>2. CASE g # f
    BY <1>4, <1>7, <2>2 DEF IoInv, CallsWhole
  <2>. QED BY <2>1, <2>2
<1>15. Exclusive'
  BY <1>10 DEF IoInv, Exclusive
<1>16. Enlisted'
  BY <1>2, <1>5, <1>9, <1>10 DEF IoInv, Enlisted, Pending
<1>17. Outcome'
  BY <1>5 DEF IoInv, Outcome
<1>18. PendingHasWorker'
  <2>. SUFFICES ASSUME NEW y \in Future, Pending(y)'
                PROVE  /\ fut'[y].task # Null
                       /\ flag'[fut'[y].task] = y /\ call[fut'[y].task].op # "settled"
    BY <1>2 DEF PendingHasWorker
  <2>1. CASE y = x
    BY <1>5, <1>6, <1>7, <1>11, <2>1
  <2>2. CASE y # x
    <3>1. Pending(y) /\ fut'[y] = fut[y] /\ y # Null
      BY <1>5, <2>2, FutureAssumption DEF Pending
    <3>2. /\ fut[y].task \in Fiber /\ flag[fut[y].task] = y
          /\ call[fut[y].task].op # "settled" /\ fut[y].task # Null
      BY <3>1, PendingIsLive DEF IoInv, PendingHasWorker
    <3>. QED BY <1>6, <1>7, <3>1, <3>2
  <2>. QED BY <2>1, <2>2
<1>19. WorkersInUse'
  <2>. SUFFICES ASSUME NEW g \in Fiber, flag'[g] # Null, call[g].op # "settled"
                PROVE  /\ fut'[flag'[g]].state # "free" /\ ~fut'[flag'[g]].workerDone
                       /\ fut'[flag'[g]].task = g /\ fstate'[g] # "free"
    BY <1>2 DEF WorkersInUse
  <2>1. CASE g = f
    BY <1>1, <1>5, <1>7, <2>1
  <2>2. CASE g # f
    BY <1>4, <1>5, <1>7, <1>8, <1>12, <2>2 DEF WorkersInUse
  <2>. QED BY <2>1, <2>2
<1>20. NamedInUse'
  BY <1>5, <1>8, <1>9, <1>10 DEF NamedInUse, Usable
<1>21. FuturesInUse'
  BY <1>19, <1>20 DEF FuturesInUse, WorkersInUse, NamedInUse
<1>22. CancelledNeverParked'
  <2>. SUFFICES ASSUME NEW g \in Fiber, fstate'[g] = "suspended", flag'[g] # Null
                PROVE  ~fut'[flag'[g]].canceled
    BY DEF CancelledNeverParked, FiberCanceled
  <2>1. g # f
    BY <1>1
  <2>2. fstate[g] = "suspended" /\ flag'[g] = flag[g]
    BY <1>4, <1>7, <2>1
  <2>3. call[g].op # "settled"
    BY <2>2 DEF IoInv, CallsWhole
  <2>4. flag[g] \in Future /\ flag[g] # x
    BY <1>12, <2>2, <2>3
  <2>. QED BY <1>5, <2>2, <2>4 DEF IoInv, CancelledNeverParked, FiberCanceled
<1>23. SlotsInUse'
  <2>. SUFFICES ASSUME "await" \notin Nested, NEW g \in Fiber, NEW y \in Future,
                       fut'[y].park = g, ~fut'[y].workerDone
                PROVE  Named(g, y)
    BY <1>10 DEF SlotsInUse
  <2>1. y # x
    BY <1>5, FiberAssumption
  <2>. QED BY <1>5, <2>1 DEF SlotsInv, SlotsInUse
<1>24. AwaitSleeps => AwaitSleeps'
  <2>1. timers' = timers /\ ioWaiters' = ioWaiters
    BY <1>1 DEF Spawn, timeVars, fdVars
  <2>2. \A g \in Fiber : call[g].op = "await" => g # f
    BY <1>6
  <2>3. \A g \in Fiber : \A y \in Future : Named(g, y) => fut'[y] = fut[y]
    BY <1>5, <1>9
  <2>. QED BY <1>2, <1>4, <1>7, <1>10, <2>1, <2>2, <2>3 DEF AwaitSleeps
<1>. QED
  BY <1>3, <1>13, <1>14, <1>15, <1>16, <1>17, <1>18, <1>21, <1>22, <1>23, <1>24
     DEF IoInv, SlotsInv

\* What the worker makes of its future: freed if the awaiter gave up its half.
LEMMA SettledFacts ==
  ASSUME NEW r \in FutureRec, NEW ok \in BOOLEAN
  PROVE  /\ Release(Settled(r, ok)) \in FutureRec
         /\ r.consumed => Release(Settled(r, ok)) = Freed
         /\ ~r.consumed =>
              /\ Release(Settled(r, ok)).state \in {"ready", "canceled", "failed"}
              /\ Release(Settled(r, ok)).state = "ready" => Release(Settled(r, ok)).valued
              /\ Release(Settled(r, ok)).state = "canceled"
                   => Release(Settled(r, ok)).canceled
              /\ Release(Settled(r, ok)).workerDone
              /\ ~Release(Settled(r, ok)).consumed
<1>1. Freed \in FutureRec
  BY DEF Freed, FutureRec, FutureState
<1>. DEFINE s == Settled(r, ok)
<1>2. /\ s \in FutureRec /\ s.workerDone /\ s.consumed = r.consumed
      /\ s.state \in {"ready", "canceled", "failed"}
      /\ s.state = "ready" => s.valued
      /\ s.state = "canceled" => s.canceled
  <2>1. CASE ok
    BY <2>1 DEF Settled, FutureRec, FutureState
  <2>2. CASE ~ok
    BY <2>2 DEF Settled, FutureRec, FutureState
  <2>. QED BY <2>1, <2>2
<1>. HIDE DEF s
<1>3. Release(s) = IF s.consumed THEN Freed ELSE s
  BY <1>2 DEF Release
<1>4. CASE r.consumed
  BY <1>1, <1>2, <1>3, <1>4 DEF s
<1>5. CASE ~r.consumed
  BY <1>2, <1>3, <1>5 DEF s
<1>. QED BY <1>4, <1>5

LEMMA WorkerSettlesStep ==
  ASSUME IoInv, SlotsInv, NEW ok \in BOOLEAN, WorkerSettles(ok)
  PROVE  IoInv' /\ SlotsInv'
<1>. DEFINE x == flag[current]
            r == Release(Settled(fut[x], ok))
<1>1. /\ InFiber /\ call[current].op = "body" /\ x # Null
      /\ Ready(fut[x].park)
      /\ fut' = [fut EXCEPT ![x] = r]
      /\ call' = [call EXCEPT ![current] = [op |-> "settled", on |-> <<>>]]
      /\ flag' = flag /\ OnlyWakes
  BY DEF WorkerSettles, InBody
<1>2. current \in Fiber /\ fstate[current] = "running"
  BY <1>1, RunningFiber DEF IoInv
<1>3. x \in Future /\ fut[x] \in FutureRec
  BY <1>1, <1>2, FutureFields DEF IoInv, IoShape
<1>4. WorkersInUse /\ NamedInUse
  BY DEF IoInv, FuturesInUse, WorkersInUse, NamedInUse
<1>5. fut[x].state # "free" /\ ~fut[x].workerDone /\ fut[x].task = current
  BY <1>1, <1>2, <1>4 DEF WorkersInUse
<1>6. /\ r \in FutureRec
      /\ fut[x].consumed => r = Freed
      /\ ~fut[x].consumed =>
           /\ r.state \in {"ready", "canceled", "failed"}
           /\ r.state = "ready" => r.valued
           /\ r.state = "canceled" => r.canceled
           /\ r.workerDone /\ ~r.consumed
  BY <1>3, SettledFacts
<1>. HIDE DEF r
<1>7. fut'[x] = r /\ \A y \in Future : y # x => fut'[y] = fut[y]
  BY <1>1, <1>3 DEF IoInv, IoShape
<1>8. \A g \in Fiber : (flag[g] = x /\ call[g].op # "settled") => g = current
  BY <1>1, <1>2, <1>3, OneWorker
<1>. HIDE DEF x
<1>9. ASSUME NEW g \in Fiber
      PROVE  /\ g = current => call'[g] = [op |-> "settled", on |-> <<>>]
             /\ g # current => call'[g] = call[g]
  BY <1>1, <1>2 DEF IoInv, IoShape
<1>10. call[current].on = <<>>
  BY <1>1, <1>2 DEF IoInv, CallsWhole
<1>11. \A g \in Fiber : \A y : Named(g, y)' <=> Named(g, y)
  <2>1. \A g \in Fiber : call'[g].on = call[g].on
    BY <1>9, <1>10
  <2>. QED BY <2>1 DEF Named
<1>12. \A g \in Fiber : Named(g, x) => ~fut[x].consumed /\ g # current
  BY <1>3, <1>4, <1>10, NamedByNone DEF NamedInUse, Usable
<1>13. /\ SInv' /\ Keeps /\ NoNewTimer
       /\ ioWaiters = <<>> => ioWaiters' = <<>>
       /\ \A g \in Fiber : fut[x].park = g \/ fstate'[g] = fstate[g]
  <2>1. CASE fut[x].park = Null
    <3>1. UNCHANGED <<fstate, queueVars, nSuspended, timers, ioWaiters, kernel>>
      BY <1>1, <2>1 DEF Ready
    <3>2. SInv'
      BY <1>1, <3>1, QuietStep DEF IoInv, SInv, Shape, OneThread, timeVars, OnlyWakes
    <3>. QED BY <3>1, <3>2 DEF Keeps, NoNewTimer
  <2>2. CASE fut[x].park # Null
    <3>. DEFINE p == fut[x].park
    <3>1. p \in Fiber /\ Wake(p, timers, ioWaiters, kernel)
      BY <1>1, <1>3, <2>2 DEF Ready, FutureRec
    <3>. HIDE DEF p
    <3>2. SInv' /\ NoNewTimer
      BY <1>1, <3>1, WakeCallStep DEF OnlyWakes, IoInv
    <3>3. WakesOnly(p)
      BY <3>1, WakeMoves DEF IoInv, SInv
    <3>4. ioWaiters = <<>> => ioWaiters' = <<>>
      BY <3>1 DEF Wake, Evict, Holds
    <3>5. Keeps
      BY <3>3, WakesKeep
    <3>. QED BY <3>2, <3>3, <3>4, <3>5 DEF WakesOnly, p
  <2>. QED BY <2>1, <2>2
<1>14. \A g \in Fiber : fstate'[g] = "suspended" => fstate[g] = "suspended" /\ g # current
  BY <1>2, <1>13 DEF Keeps
<1>15. IoShape'
  <2>1. [op |-> "settled", on |-> <<>>] \in CallRec
    BY DEF CallRec
  <2>. QED BY <1>1, <1>6, <2>1 DEF IoInv, IoShape
<1>16. CallsWhole'
  <2>. SUFFICES ASSUME NEW g \in Fiber
                PROVE  /\ call'[g].op \in {"body", "settled"} => call'[g].on = <<>>
                       /\ call'[g].op = "await" => \E y \in Future : call'[g].on = <<y>>
                       /\ call'[g].op = "cancelling" => call'[g].on # <<>>
                       /\ call'[g].op \in {"scan", "racing"} => Len(call'[g].on) = 2
                       /\ call'[g].op \in {"settled", "scan", "cancelling"}
                            => fstate'[g] = "running"
                       /\ fstate'[g] \in {"free", "done"} => flag'[g] = Null /\ call'[g] = Body
    BY DEF CallsWhole
  <2>1. CASE g = current
    <3>1. fstate'[g] = "running"
      BY <1>2, <1>13, <2>1 DEF Keeps
    <3>. QED BY <1>9, <2>1, <3>1
  <2>2. CASE g # current
    BY <1>1, <1>9, <1>13, <2>2 DEF IoInv, CallsWhole, Keeps
  <2>. QED BY <2>1, <2>2
<1>17. Exclusive'
  BY <1>11 DEF IoInv, Exclusive
<1>18. \A g \in Fiber : Named(g, x) => fut'[x].workerDone /\ fut'[x].state # "pending"
                                        /\ fut'[x].state # "free" /\ ~fut'[x].consumed
  BY <1>6, <1>7, <1>12
<1>19. Enlisted'
  <2>. SUFFICES ASSUME NEW g \in Fiber, NEW y \in Future, Named(g, y)
                PROVE  /\ call'[g].op = "await" /\ ~fut'[y].workerDone => fut'[y].park = g
                       /\ call'[g].op = "racing" /\ fut'[y].state = "pending"
                            => fut'[y].park = g
    BY <1>11 DEF Enlisted, Pending
  <2>1. CASE y = x
    BY <1>18, <2>1
  <2>2. CASE y # x
    <3>1. fut'[y] = fut[y] /\ (call'[g].op # "settled" => call'[g] = call[g])
      BY <1>7, <1>9, <2>2
    <3>. QED BY <3>1 DEF IoInv, Enlisted, Pending
  <2>. QED BY <2>1, <2>2
<1>20. Outcome'
  <2>. SUFFICES ASSUME NEW y \in Future
                PROVE  /\ fut'[y].state = "ready" => fut'[y].workerDone /\ fut'[y].valued
                       /\ fut'[y].state = "failed" => fut'[y].workerDone
                       /\ fut'[y].state = "canceled" => fut'[y].canceled
    BY DEF Outcome
  <2>1. CASE y = x /\ fut[x].consumed
    BY <1>6, <1>7, <2>1 DEF Freed
  <2>2. CASE y = x /\ ~fut[x].consumed
    BY <1>6, <1>7, <2>2
  <2>3. CASE y # x
    BY <1>7, <2>3 DEF IoInv, Outcome
  <2>. QED BY <2>1, <2>2, <2>3
<1>21. PendingHasWorker'
  <2>. SUFFICES ASSUME NEW y \in Future, Pending(y)'
                PROVE  /\ fut'[y].task # Null
                       /\ flag[fut'[y].task] = y /\ call'[fut'[y].task].op # "settled"
    BY <1>1 DEF PendingHasWorker
  <2>1. y # x
    BY <1>6, <1>7 DEF Pending, Freed
  <2>2. Pending(y) /\ fut'[y] = fut[y]
    BY <1>7, <2>1 DEF Pending
  <2>3. /\ fut[y].task \in Fiber /\ fut[y].task # Null /\ flag[fut[y].task] = y
        /\ call[fut[y].task].op # "settled"
    BY <2>2, PendingIsLive DEF IoInv, PendingHasWorker
  <2>4. fut[y].task # current
    BY <2>1, <2>3 DEF x
  <2>. QED BY <1>9, <2>2, <2>3, <2>4
<1>22. WorkersInUse'
  <2>. SUFFICES ASSUME NEW g \in Fiber, flag[g] # Null, call'[g].op # "settled"
                PROVE  /\ fut'[flag[g]].state # "free" /\ ~fut'[flag[g]].workerDone
                       /\ fut'[flag[g]].task = g /\ fstate'[g] # "free"
    BY <1>1 DEF WorkersInUse
  <2>1. g # current /\ call[g].op # "settled"
    BY <1>9
  <2>2. flag[g] # x /\ flag[g] \in Future
    BY <1>8, <2>1 DEF IoInv, IoShape
  <2>3. fstate[g] # "free" => fstate'[g] # "free"
    <3>1. fstate[g] \notin {"free", "done"}
      BY DEF IoInv, CallsWhole
    <3>. QED BY <1>13, <3>1 DEF Keeps
  <2>. QED BY <1>4, <1>7, <2>1, <2>2, <2>3 DEF WorkersInUse
<1>23. NamedInUse'
  <2>. SUFFICES ASSUME NEW g \in Fiber, NEW y \in Future, Named(g, y)
                PROVE  fut'[y].state # "free" /\ ~fut'[y].consumed
    BY <1>11 DEF NamedInUse, Usable
  <2>1. CASE y = x
    BY <1>18, <2>1
  <2>2. CASE y # x
    BY <1>4, <1>7, <2>2 DEF NamedInUse, Usable
  <2>. QED BY <2>1, <2>2
<1>24. FuturesInUse'
  BY <1>22, <1>23 DEF FuturesInUse, WorkersInUse, NamedInUse
<1>25. CancelledNeverParked'
  <2>. SUFFICES ASSUME NEW g \in Fiber, fstate'[g] = "suspended", flag[g] # Null
                PROVE  ~fut'[flag[g]].canceled
    BY <1>1 DEF CancelledNeverParked, FiberCanceled
  <2>1. fstate[g] = "suspended" /\ g # current
    BY <1>14
  <2>2. call[g].op # "settled"
    BY <2>1 DEF IoInv, CallsWhole
  <2>3. flag[g] # x /\ flag[g] \in Future
    BY <1>8, <2>1, <2>2 DEF IoInv, IoShape
  <2>. QED BY <1>7, <2>1, <2>3 DEF IoInv, CancelledNeverParked, FiberCanceled
<1>26. SlotsInUse'
  <2>. SUFFICES ASSUME "await" \notin Nested, NEW g \in Fiber, NEW y \in Future,
                       fut'[y].park = g, ~fut'[y].workerDone
                PROVE  Named(g, y)
    BY <1>11 DEF SlotsInUse
  <2>1. Freed.park # g
    BY FiberAssumption DEF Freed
  <2>2. y # x
    BY <1>6, <1>7, <2>1
  <2>. QED BY <1>7, <2>2 DEF SlotsInv, SlotsInUse
<1>27. AwaitSleeps /\ "await" \notin Nested => AwaitSleeps'
  <2>. SUFFICES ASSUME AwaitSleeps, "await" \notin Nested PROVE AwaitSleeps'
    OBVIOUS
  <2>1. \A f : Holds(timers', f) => Holds(timers, f)
    BY <1>13 DEF NoNewTimer, Holds
  <2>2. \A g \in Fiber : \A y \in Future :
          (Named(g, y) /\ ~fut'[y].workerDone) => y # x /\ fut'[y] = fut[y]
    BY <1>7, <1>18
  <2>3. ASSUME NEW g \in Fiber, call'[g].op = "await"
        PROVE  call[g] = call'[g]
    BY <1>9, <2>3
  <2>4. ASSUME NEW g \in Fiber, call[g].op = "await", NEW y \in Future, Named(g, y), y # x
        PROVE  fut[x].park # g
    <3>1. PICK z \in Future : call[g].on = <<z>>
      BY <2>4 DEF IoInv, CallsWhole
    <3>2. ~Named(g, x)
      BY <2>4, <3>1, NamedByOne
    <3>. QED BY <1>3, <1>5, <3>2 DEF SlotsInv, SlotsInUse
  <2>5. ASSUME NEW g \in Fiber, call'[g].op = "await"
        PROVE  /\ flag[g] = Null
               /\ fstate'[g] = "suspended" => ~Holds(timers', g)
               /\ \A y \in Future :
                    Named(g, y) /\ ~fut'[y].workerDone => fstate'[g] = "suspended"
    <3>1. call[g].op = "await"
      BY <2>3, <2>5
    <3>2. ASSUME NEW y \in Future, Named(g, y), ~fut'[y].workerDone
          PROVE  fstate'[g] = "suspended"
      <4>1. y # x /\ fut'[y] = fut[y]
        BY <2>2, <3>2
      <4>2. fut[x].park # g
        BY <2>4, <3>1, <3>2, <4>1
      <4>. QED BY <1>13, <3>1, <3>2, <4>1, <4>2 DEF AwaitSleeps
    <3>. QED BY <1>14, <2>1, <3>1, <3>2 DEF AwaitSleeps
  <2>6. ASSUME NEW g \in Fiber, NEW y \in Future, call'[g].op \in {"scan", "cancelling"},
               Named(g, y), ~fut'[y].workerDone
        PROVE  fut'[y].park # g
    <3>1. call[g] = call'[g]
      BY <1>9, <2>6
    <3>2. fut'[y] = fut[y]
      BY <2>2, <2>6
    <3>. QED BY <2>6, <3>1, <3>2 DEF AwaitSleeps
  <2>. QED BY <1>1, <1>11, <1>13, <2>5, <2>6 DEF AwaitSleeps
<1>. QED
  BY <1>13, <1>15, <1>16, <1>17, <1>19, <1>20, <1>21, <1>24, <1>25, <1>26, <1>27
     DEF IoInv, SlotsInv

\* What the awaiter makes of the future: freed if the worker is through with it.
LEMMA ConsumedFacts ==
  ASSUME NEW r \in FutureRec
  PROVE  LET c == Release([r EXCEPT !.consumed = TRUE])
         IN  /\ c \in FutureRec
             /\ r.workerDone => c = Freed
             /\ ~r.workerDone =>
                  /\ c.state = r.state /\ c.canceled = r.canceled /\ c.park = r.park
                  /\ c.task = r.task /\ c.valued = r.valued /\ ~c.workerDone
<1>. DEFINE s == [r EXCEPT !.consumed = TRUE]
<1>1. /\ s \in FutureRec /\ s.consumed /\ s.workerDone = r.workerDone
      /\ s.state = r.state /\ s.canceled = r.canceled /\ s.park = r.park
      /\ s.task = r.task /\ s.valued = r.valued
  BY DEF FutureRec
<1>. HIDE DEF s
<1>2. Release(s) = IF s.workerDone THEN Freed ELSE s
  BY <1>1 DEF Release
<1>3. Freed \in FutureRec
  BY DEF Freed, FutureRec, FutureState
<1>4. CASE r.workerDone
  <2>1. Release(s) = Freed
    BY <1>1, <1>2, <1>4
  <2>. QED BY <1>3, <1>4, <2>1 DEF s
<1>5. CASE ~r.workerDone
  <2>1. Release(s) = s
    BY <1>1, <1>2, <1>5
  <2>. QED BY <1>1, <1>5, <2>1 DEF s
<1>. QED BY <1>4, <1>5

LEMMA AwaitEndsStep ==
  ASSUME IoInv, SlotsInv, NEW x \in Future, AwaitEnds(x)
  PROVE  IoInv' /\ SlotsInv'
<1>. DEFINE r == Release([fut[x] EXCEPT !.consumed = TRUE])
<1>1. /\ UNCHANGED <<vars, flag>> /\ fut' = [fut EXCEPT ![x] = r]
      /\ Usable(x)
  BY DEF AwaitEnds
<1>2. /\ UNCHANGED <<fstate, current, timers, ioWaiters>> /\ SInv'
  BY <1>1, QuietStep DEF vars, timeVars, fdVars, IoInv, SInv, Shape, OneThread
<1>3. fut[x] \in FutureRec
  BY FutureFields DEF IoInv
<1>4. /\ r \in FutureRec
      /\ fut[x].workerDone => r = Freed
      /\ ~fut[x].workerDone =>
           /\ r.state = fut[x].state /\ r.canceled = fut[x].canceled
           /\ r.park = fut[x].park /\ r.task = fut[x].task
           /\ r.valued = fut[x].valued /\ ~r.workerDone
  BY <1>3, ConsumedFacts
<1>. HIDE DEF r
<1>5. fut'[x] = r /\ \A y \in Future : y # x => fut'[y] = fut[y]
  BY <1>1, <1>3 DEF IoInv, IoShape
<1>6. Freed.state = "free" /\ Freed.park = Null /\ ~Freed.workerDone
  BY DEF Freed
<1>7. Body \in CallRec /\ Body.op = "body" /\ Body.on = <<>>
  BY DEF Body, CallRec
\* The await is over, or never was one.
<1>8. /\ call' \in [Fiber -> CallRec]
      /\ \A g \in Fiber :
           \/ call'[g] = call[g] /\ ~Named(g, x)
           \/ /\ call'[g] = Body /\ call[g] = [op |-> "await", on |-> <<x>>]
              /\ fstate[g] = "running"
  <2>1. CASE (MayCall("await") \/ mode = "main") /\ Sole(x) /\ UNCHANGED call
    <3>1. ASSUME NEW g \in Fiber PROVE ~Named(g, x)
      <4>1. CASE MayCall("await") /\ g = current
        BY <4>1, NamedByNone DEF MayCall, InBody, IoInv, CallsWhole
      <4>2. CASE g # current
        BY <2>1, <4>2 DEF Sole
      <4>3. mode = "main" => g # current
        BY FiberAssumption DEF IoInv, SInv, OneThread
      <4>. QED BY <2>1, <4>1, <4>2, <4>3
    <3>. QED BY <2>1, <3>1 DEF IoInv, IoShape
  <2>2. CASE /\ InFiber /\ call[current] = [op |-> "await", on |-> <<x>>]
             /\ call' = [call EXCEPT ![current] = Body]
    <3>1. current \in Fiber /\ fstate[current] = "running"
      BY <2>2, RunningFiber DEF IoInv
    <3>2. Named(current, x)
      BY <2>2 DEF Named
    <3>3. \A g \in Fiber : g # current => ~Named(g, x)
      BY <3>1, <3>2 DEF IoInv, Exclusive
    <3>. QED BY <1>7, <2>2, <3>1, <3>3 DEF IoInv, IoShape
  <2>. QED BY <2>1, <2>2 DEF AwaitEnds
<1>9. \A g \in Fiber : \A y \in Future : Named(g, y)' => /\ Named(g, y) /\ y # x
                                                          /\ call'[g] = call[g]
  <2>. SUFFICES ASSUME NEW g \in Fiber, NEW y \in Future, Named(g, y)'
                PROVE  Named(g, y) /\ y # x /\ call'[g] = call[g]
    OBVIOUS
  <2>1. call'[g] # Body
    BY <1>7 DEF Named
  <2>2. call'[g] = call[g] /\ ~Named(g, x)
    BY <1>8, <2>1
  <2>. QED BY <2>2 DEF Named
<1>10. IoShape'
  BY <1>1, <1>4, <1>8 DEF IoInv, IoShape
<1>11. CallsWhole'
  <2>. SUFFICES ASSUME NEW g \in Fiber
                PROVE  /\ call'[g].op \in {"body", "settled"} => call'[g].on = <<>>
                       /\ call'[g].op = "await" => \E y \in Future : call'[g].on = <<y>>
                       /\ call'[g].op = "cancelling" => call'[g].on # <<>>
                       /\ call'[g].op \in {"scan", "racing"} => Len(call'[g].on) = 2
                       /\ call'[g].op \in {"settled", "scan", "cancelling"}
                            => fstate[g] = "running"
                       /\ fstate[g] \in {"free", "done"} => flag[g] = Null /\ call'[g] = Body
    BY <1>1, <1>2 DEF CallsWhole
  <2>1. CASE call'[g] = call[g]
    BY <2>1 DEF IoInv, CallsWhole
  <2>2. CASE call'[g] = Body /\ fstate[g] = "running"
    BY <1>7, <2>2
  <2>. QED BY <1>8, <2>1, <2>2
<1>12. Exclusive'
  BY <1>9 DEF IoInv, Exclusive
<1>13. Enlisted'
  BY <1>5, <1>9 DEF IoInv, Enlisted, Pending
<1>14. Outcome'
  <2>. SUFFICES ASSUME NEW y \in Future
                PROVE  /\ fut'[y].state = "ready" => fut'[y].workerDone /\ fut'[y].valued
                       /\ fut'[y].state = "failed" => fut'[y].workerDone
                       /\ fut'[y].state = "canceled" => fut'[y].canceled
    BY DEF Outcome
  <2>1. CASE y = x /\ fut[x].workerDone
    BY <1>4, <1>5, <1>6, <2>1
  <2>2. CASE y = x /\ ~fut[x].workerDone
    BY <1>4, <1>5, <2>2 DEF IoInv, Outcome
  <2>3. CASE y # x
    BY <1>5, <2>3 DEF IoInv, Outcome
  <2>. QED BY <2>1, <2>2, <2>3
<1>15. \A g \in Fiber : (call'[g].op = "settled") <=> (call[g].op = "settled")
  BY <1>7, <1>8
<1>16. PendingHasWorker'
  <2>. SUFFICES ASSUME NEW y \in Future, Pending(y)'
                PROVE  /\ fut'[y].task # Null
                       /\ flag[fut'[y].task] = y /\ call'[fut'[y].task].op # "settled"
    BY <1>1 DEF PendingHasWorker
  <2>1. Pending(y) /\ fut'[y].task = fut[y].task
    BY <1>4, <1>5, <1>6 DEF Pending
  <2>2. /\ fut[y].task \in Fiber /\ fut[y].task # Null /\ flag[fut[y].task] = y
        /\ call[fut[y].task].op # "settled"
    BY <2>1, PendingIsLive DEF IoInv, PendingHasWorker
  <2>. QED BY <1>15, <2>1, <2>2
<1>17. WorkersInUse /\ NamedInUse
  BY DEF IoInv, FuturesInUse, WorkersInUse, NamedInUse
\* A worker that has not settled keeps its future.
<1>18. \A g \in Fiber : (flag[g] # Null /\ call[g].op # "settled") =>
         /\ flag[g] \in Future
         /\ fut'[flag[g]].state = fut[flag[g]].state
         /\ fut'[flag[g]].canceled = fut[flag[g]].canceled
         /\ fut'[flag[g]].task = fut[flag[g]].task
         /\ ~fut'[flag[g]].workerDone
  <2>. SUFFICES ASSUME NEW g \in Fiber, flag[g] # Null, call[g].op # "settled"
                PROVE  /\ flag[g] \in Future
                       /\ fut'[flag[g]].state = fut[flag[g]].state
                       /\ fut'[flag[g]].canceled = fut[flag[g]].canceled
                       /\ fut'[flag[g]].task = fut[flag[g]].task
                       /\ ~fut'[flag[g]].workerDone
    OBVIOUS
  <2>1. flag[g] \in Future /\ ~fut[flag[g]].workerDone
    BY <1>17 DEF WorkersInUse, IoInv, IoShape
  <2>2. CASE flag[g] = x
    BY <1>4, <1>5, <2>1, <2>2
  <2>3. CASE flag[g] # x
    BY <1>5, <2>1, <2>3
  <2>. QED BY <2>2, <2>3
<1>19. WorkersInUse'
  <2>. SUFFICES ASSUME NEW g \in Fiber, flag[g] # Null, call'[g].op # "settled"
                PROVE  /\ fut'[flag[g]].state # "free" /\ ~fut'[flag[g]].workerDone
                       /\ fut'[flag[g]].task = g /\ fstate[g] # "free"
    BY <1>1, <1>2 DEF WorkersInUse
  <2>. QED BY <1>15, <1>17, <1>18 DEF WorkersInUse
<1>20. NamedInUse'
  BY <1>5, <1>9, <1>17 DEF NamedInUse, Usable
<1>21. FuturesInUse'
  BY <1>19, <1>20 DEF FuturesInUse, WorkersInUse, NamedInUse
<1>22. CancelledNeverParked'
  <2>. SUFFICES ASSUME NEW g \in Fiber, fstate[g] = "suspended", flag[g] # Null
                PROVE  ~fut'[flag[g]].canceled
    BY <1>1, <1>2 DEF CancelledNeverParked, FiberCanceled
  <2>1. call[g].op # "settled"
    BY DEF IoInv, CallsWhole
  <2>. QED BY <1>18, <2>1 DEF IoInv, CancelledNeverParked, FiberCanceled
\* An awaiter that has the thread was woken by its worker.
<1>23. AwaitSleeps => \A g \in Fiber :
         (call[g] = [op |-> "await", on |-> <<x>>] /\ fstate[g] = "running")
           => fut[x].workerDone
  <2>. SUFFICES ASSUME AwaitSleeps, NEW g \in Fiber, fstate[g] = "running",
                       call[g] = [op |-> "await", on |-> <<x>>]
                PROVE  fut[x].workerDone
    OBVIOUS
  <2>1. Named(g, x) /\ call[g].op = "await"
    BY DEF Named
  <2>. QED BY <2>1 DEF AwaitSleeps
<1>24. SlotsInUse'
  <2>. SUFFICES ASSUME "await" \notin Nested, NEW g \in Fiber, NEW y \in Future,
                       fut'[y].park = g, ~fut'[y].workerDone
                PROVE  Named(g, y)'
    BY DEF SlotsInUse
  <2>1. g # Null
    BY FiberAssumption
  <2>2. fut[y].park = g /\ ~fut[y].workerDone
    BY <1>4, <1>5, <1>6, <2>1
  <2>3. Named(g, y)
    BY <2>2 DEF SlotsInv, SlotsInUse
  <2>4. CASE call'[g] = call[g]
    BY <2>3, <2>4 DEF Named
  <2>5. CASE call[g] = [op |-> "await", on |-> <<x>>] /\ fstate[g] = "running"
    <3>1. y = x
      BY <2>3, <2>5 DEF Named
    <3>. QED BY <1>23, <2>2, <2>5, <3>1 DEF SlotsInv
  <2>. QED BY <1>8, <2>4, <2>5
<1>25. AwaitSleeps => AwaitSleeps'
  <2>. SUFFICES ASSUME AwaitSleeps PROVE AwaitSleeps'
    OBVIOUS
  <2>1. \A g \in Fiber : call'[g].op # "body" => call'[g] = call[g]
    BY <1>7, <1>8
  <2>2. \A g \in Fiber : \A y \in Future : Named(g, y)' => Named(g, y) /\ fut'[y] = fut[y]
    BY <1>5, <1>9
  <2>. QED BY <1>1, <1>2, <2>1, <2>2 DEF AwaitSleeps
<1>. QED
  BY <1>2, <1>10, <1>11, <1>12, <1>13, <1>14, <1>16, <1>21, <1>22, <1>24, <1>25
     DEF IoInv, SlotsInv

-----------------------------------------------------------------------------
(* The theorems.                                                           *)

LEMMA AbortsStep ==
  ASSUME IoInv, SlotsInv, (\E x \in Future : AwaitAborts(x)) \/ RaceAborts
  PROVE  IoInv' /\ SlotsInv'
<1>1. /\ InFiber \/ mode = "main"
      /\ Abort /\ UNCHANGED ioVars
  BY DEF AwaitAborts, RaceAborts, Scanning, MayCall, InBody
<1>. QED BY <1>1, QuietIoStep DEF Abort

LEMMA InitIoInv == IoInit => IoInv /\ SlotsInv
<1>. SUFFICES ASSUME IoInit PROVE IoInv /\ SlotsInv
  OBVIOUS
<1>1. /\ fut = [x \in Future |-> Freed] /\ flag = [f \in Fiber |-> Null]
      /\ call = [f \in Fiber |-> Body] /\ Init
  BY DEF IoInit
<1>2. SInv
  BY <1>1, InitSInv
<1>3. /\ Freed \in FutureRec /\ Freed.state = "free" /\ Freed.park = Null
      /\ Body \in CallRec /\ Body.op = "body" /\ Body.on = <<>>
  BY DEF Freed, FutureRec, FutureState, Body, CallRec
<1>4. IoShape
  BY <1>1, <1>3 DEF IoShape
<1>5. \A f \in Fiber : flag[f] = Null /\ call[f] = Body /\ fstate[f] = "free"
  BY <1>1 DEF Init
<1>6. \A x \in Future : fut[x].state = "free" /\ fut[x].park = Null
  BY <1>1, <1>3
<1>7. \A f \in Fiber : \A x \in Future : ~Named(f, x)
  BY <1>3, <1>5 DEF Named
<1>8. CallsWhole /\ Exclusive /\ Enlisted
  BY <1>3, <1>5, <1>7 DEF CallsWhole, Exclusive, Enlisted
<1>9. Outcome /\ FuturesInUse /\ PendingHasWorker
  BY <1>5, <1>6, <1>7 DEF Outcome, FuturesInUse, PendingHasWorker, Pending
<1>10. CancelledNeverParked
  BY <1>5 DEF CancelledNeverParked
<1>11. SlotsInUse
  BY <1>6, FiberAssumption DEF SlotsInUse
<1>12. AwaitSleeps
  BY <1>1, <1>3, <1>5 DEF AwaitSleeps, Init
<1>. QED BY <1>2, <1>4, <1>8, <1>9, <1>10, <1>11, <1>12 DEF IoInv, SlotsInv

LEMMA NextIoInv == IoInv /\ SlotsInv /\ [IoNext]_allVars => IoInv' /\ SlotsInv'
<1>. SUFFICES ASSUME IoInv, SlotsInv, [IoNext]_allVars PROVE IoInv' /\ SlotsInv'
  OBVIOUS
<1>1. CASE IoSwitches
  <2>1. CASE \E ms \in IoMs : IoSleep(ms)
    BY <2>1, IoSleepStep, IoMsAssumption
  <2>. QED BY <1>1, <2>1, FiberReturnsStep, AwaitParksStep, RaceParksStep DEF IoSwitches
<1>2. CASE IoResumes
  BY <1>2, AwaitEndsStep, RaceResumesStep, RaceSpinsStep, AbortsStep, RaceWinsStep,
     RaceCancelsStep DEF IoResumes
<1>3. CASE IoCalls
  <2>1. CASE \E ms \in IoMs : IoSleepRaises(ms)
    BY <2>1, IoSleepRaisesStep, IoMsAssumption
  <2>2. CASE \E x \in Future : AwaitAborts(x)
    BY <2>2, AbortsStep
  <2>3. CASE \E ok \in BOOLEAN : WorkerSettles(ok)
    BY <2>3, WorkerSettlesStep
  <2>. QED BY <1>3, <2>1, <2>2, <2>3, SpawnPlainStep, AsyncStep, CancelStep, RaceStartsStep
           DEF IoCalls
<1>4. CASE IoLoop
  BY <1>4, IoLoopStep
<1>5. CASE UNCHANGED allVars
  BY <1>5, QuietIoStep DEF allVars, vars
<1>. QED BY <1>1, <1>2, <1>3, <1>4, <1>5 DEF IoNext

LEMMA SpecIoInv == IoSpec => [](IoInv /\ SlotsInv)
<1>. QED BY InitIoInv, NextIoInv, PTL DEF IoSpec

\* Nothing is used after it was freed: neither a future by its worker, its awaiter
\* or its coordinator, nor a fiber through a pending future's task, a park slot, or
\* a timer of io.sleep.
THEOREM NothingIsFreedInUse == IoSpec => []NothingFreedInUse
<1>1. IoInv /\ SlotsInv => NothingFreedInUse
  BY DEF IoInv, SlotsInv, SInv, NothingFreedInUse
<1>. QED BY <1>1, SpecIoInv, PTL

\* Whoever cancels and whenever: no fiber stays parked in a cancelled task.
THEOREM CancelNeverMissesAPark == IoSpec => []CancelledNeverParked
<1>1. IoInv => CancelledNeverParked
  BY DEF IoInv
<1>. QED BY <1>1, SpecIoInv, PTL

\* Only await takes a future from its user.
LEMMA OnlyAwaitTakes ==
  ASSUME IoInv, IoNext, NEW x \in Future, TakesNow(x)
  PROVE  AwaitEnds(x)
<1>1. /\ fut[x].state # "free" /\ ~fut[x].consumed
      /\ fut'[x].consumed \/ fut'[x].state = "free"
      /\ fut[x] \in FutureRec /\ fut \in [Future -> FutureRec]
  BY FutureFields DEF TakesNow, Usable, IoInv, IoShape
<1>2. fut'[x] # fut[x]
  BY <1>1
<1>3. fut' # fut
  BY <1>2
<1>4. CASE \E y \in Future : AwaitParks(y)
  <2>1. PICK y \in Future : fut' = [fut EXCEPT ![y].park = current]
    BY <1>4 DEF AwaitParks
  <2>. QED BY <1>1, <2>1 DEF FutureRec
<1>5. CASE RaceParks \/ RaceSpins \/ RaceResumes
  <2>1. /\ current \in Fiber
        /\ \/ fut' = Enlist(current)
           \/ fut' = Delist(current, Enlist(current))
           \/ fut' = Delist(current, fut)
    BY <1>5, RunningFiber DEF RaceParks, RaceSpins, RaceResumes, Scanning, IoInv
  <2>2. /\ Enlist(current)[x].consumed = fut[x].consumed
        /\ Enlist(current)[x].state = fut[x].state
        /\ Enlist(current)[x] \in FutureRec
    BY <1>1, <2>1, EnlistFacts DEF FutureRec
  <2>3. /\ Delist(current, fut)[x].consumed = fut[x].consumed
        /\ Delist(current, fut)[x].state = fut[x].state
    BY <1>1, <2>1, EnlistFacts DEF FutureRec
  <2>4. /\ Delist(current, Enlist(current))[x].consumed = fut[x].consumed
        /\ Delist(current, Enlist(current))[x].state = fut[x].state
    BY <2>1, <2>2, EnlistFacts DEF FutureRec
  <2>. QED BY <1>1, <2>1, <2>2, <2>3, <2>4
<1>6. CASE (\E y \in Future : Cancel(y)) \/ RaceCancels
  <2>1. PICK y : fut' = [fut EXCEPT ![y].canceled = TRUE, ![y].state = "canceled"]
    BY <1>3, <1>6 DEF Cancel, RaceCancels, CancelFuture
  <2>2. y = x
    BY <1>1, <1>2, <2>1
  <2>3. fut'[x] = [[fut[x] EXCEPT !.canceled = TRUE] EXCEPT !.state = "canceled"]
    BY <1>1, <2>1, <2>2
  <2>4. fut'[x].consumed = fut[x].consumed /\ fut'[x].state = "canceled"
    BY <1>1, <2>3 DEF FutureRec
  <2>. QED BY <1>1, <2>4
<1>7. CASE \E y \in Future : Async(y)
  <2>1. PICK y \in Future : /\ fut[y].state = "free"
                            /\ \E r : fut' = [fut EXCEPT ![y] = r]
    BY <1>7 DEF Async
  <2>2. y # x
    BY <1>1, <2>1
  <2>. QED BY <1>1, <1>2, <2>1, <2>2
<1>8. CASE \E ok \in BOOLEAN : WorkerSettles(ok)
  <2>1. PICK ok \in BOOLEAN :
          fut' = [fut EXCEPT ![flag[current]] = Release(Settled(fut[flag[current]], ok))]
    BY <1>8 DEF WorkerSettles
  <2>2. fut'[x] = Release(Settled(fut[x], ok))
    BY <1>1, <1>2, <2>1
  <2>3. fut'[x].state # "free" /\ ~fut'[x].consumed
    BY <1>1, <2>2, SettledFacts
  <2>. QED BY <1>1, <2>3
<1>9. CASE \E y \in Future : AwaitEnds(y)
  <2>1. PICK y \in Future : AwaitEnds(y)
    BY <1>9
  <2>2. y = x
    BY <1>1, <1>2, <2>1 DEF AwaitEnds
  <2>. QED BY <2>1, <2>2
<1>10. CASE \/ FiberReturns \/ \E ms \in IoMs : IoSleep(ms)
            \/ RaceAborts \/ RaceWins \/ SpawnPlain \/ \E y \in Future : AwaitAborts(y)
            \/ \E ms \in IoMs : IoSleepRaises(ms)
            \/ RaceStarts \/ IoLoop
  <2>1. fut' = fut
    BY <1>10 DEF FiberReturns, IoSleep, RaceAborts, RaceWins, SpawnPlain, AwaitAborts,
                 IoSleepRaises, RaceStarts, IoLoop, ioVars
  <2>. QED BY <1>3, <2>1
<1>. QED
  BY <1>4, <1>5, <1>6, <1>7, <1>8, <1>9, <1>10 DEF IoNext, IoSwitches, IoResumes, IoCalls

\* As long as no worker awaits, await takes a value only of a worker that delivered
\* one, and anything else only of one that failed or was cancelled.
THEOREM AwaitTakesWhatSettled ==
  ASSUME "await" \notin Nested
  PROVE  IoSpec => AwaitSettled
<1>. DEFINE Settles(x) ==
              TakesNow(x) => \/ fut[x].canceled
                             \/ fut[x].state \in {"failed", "canceled"}
                             \/ fut[x].state = "ready" /\ fut[x].valued
<1>1. IoInv /\ SlotsInv /\ [IoNext]_allVars => [\A x \in Future : Settles(x)]_allVars
  <2>. SUFFICES ASSUME IoInv, SlotsInv, IoNext, NEW x \in Future, TakesNow(x)
                PROVE  \/ fut[x].canceled
                       \/ fut[x].state \in {"failed", "canceled"}
                       \/ fut[x].state = "ready" /\ fut[x].valued
    OBVIOUS
  <2>1. AwaitEnds(x)
    BY OnlyAwaitTakes
  <2>2. ~Pending(x) \/ fut[x].canceled
    <3>1. CASE /\ InFiber /\ call[current] = [op |-> "await", on |-> <<x>>]
      <4>1. current \in Fiber /\ fstate[current] = "running"
        BY <3>1, RunningFiber DEF IoInv
      <4>2. call[current].op = "await" /\ Named(current, x)
        BY <3>1 DEF Named
      <4>3. fut[x].workerDone
        BY <4>1, <4>2 DEF SlotsInv, AwaitSleeps
      <4>. QED BY <4>3, PendingIsLive
    <3>2. CASE /\ MayCall("await") \/ mode = "main"
               /\ \/ ~Pending(x) \/ fut[x].canceled
                  \/ mode # "main" /\ FiberCanceled(current)
      BY <3>2 DEF MayCall, FiberCanceled
    <3>. QED BY <2>1, <3>1, <3>2 DEF AwaitEnds
  <2>3. fut[x].state \in FutureState /\ fut[x].state # "free"
    BY FutureFields DEF IoInv, TakesNow, Usable
  <2>. QED BY <2>2, <2>3 DEF IoInv, Outcome, Pending, FutureState
<1>2. [](IoInv /\ SlotsInv) /\ [][IoNext]_allVars => [][\A x \in Future : Settles(x)]_allVars
  BY <1>1, PTL
<1>. QED BY <1>2, SpecIoInv, PTL DEF IoSpec, AwaitSettled

=============================================================================
