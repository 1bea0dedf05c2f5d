------------------------------- MODULE FiberIo -------------------------------
(***************************************************************************)
(* Futures over the fiber scheduler: async, await, cancel and sleep of     *)
(* library/modules/std/io.sx, race of sched.sx, and the Io methods of      *)
(* sched.sx they call (spawnRaw, suspendRaw, ready, armTimer,              *)
(* currentPark).                                                           *)
(*                                                                         *)
(* The scheduler is FiberSched, whose variables this module keeps.  A      *)
(* fiber is either a plain one (spawn) or the worker of a future           *)
(* (spawnRaw with a cancel flag): flag says which.  `call' is what a fiber *)
(* is in the middle of; a fiber in "body" is in its user's code, and also  *)
(* when it is parked in sleep, which does nothing after it resumes but     *)
(* raise.  A raised Canceled may be caught, so it constrains nothing here. *)
(*                                                                         *)
(* The users of a future keep its contract: it is awaited at most once, by *)
(* one fiber, and not named after that.                                    *)
(***************************************************************************)
EXTENDS FiberSched

CONSTANTS
  Future,     \* addresses the allocator can hand out for a Future
  IoMs,       \* durations passed to io.sleep
  Nested      \* which of await and race the workers call themselves

ASSUME FutureAssumption == Null \notin Future
ASSUME IoMsAssumption == IoMs \subseteq Int
ASSUME NestedAssumption == Nested \subseteq {"await", "race"}

VARIABLES
  fut,        \* the futures
  flag,       \* Fiber.cancelFlag: the future whose worker a fiber is
  call        \* what each fiber is in the middle of: "await" and "racing" are parked
              \* in suspendRaw, or resumed from it; "scan" and "cancelling" are race
              \* between two looks at its futures

ioVars == <<fut, flag, call>>
allVars == <<vars, ioVars>>

Freed  == [state |-> "free", canceled |-> FALSE, park |-> Null, task |-> Null,
           valued |-> FALSE, workerDone |-> FALSE, consumed |-> FALSE]
Body   == [op |-> "body", on |-> <<>>]

Pending(x)  == fut[x].state = "pending"
\* Allocated, and its user has not awaited it yet.
Usable(x)   == fut[x].state # "free" /\ ~fut[x].consumed
Named(f, x) == \E i \in DOMAIN call[f].on : call[f].on[i] = x
\* No other fiber awaits or races x.
Sole(x)     == \A f \in Fiber : f # current => ~Named(f, x)

\* fiberCanceled.
FiberCanceled(f) == flag[f] # Null /\ fut[flag[f]].canceled

\* The running fiber executes user code.
InBody == InFiber /\ call[current].op = "body"
InUser == InBody \/ mode = "main"
MayCall(op) == InBody /\ (flag[current] = Null \/ op \in Nested)

\* Broken: the first of the two owners frees.
EagerRelease(r) == IF r.workerDone \/ r.consumed THEN Freed ELSE r
\* futRelease.
Release(r) == IF r.workerDone /\ r.consumed THEN Freed ELSE r

\* Broken: ready forgets the waiter.
ReadyNobody(f) == UNCHANGED <<fstate, queueVars, nSuspended, timers, ioWaiters, kernel>>
\* ready: wake, unless there is no handle.
Ready(f) ==
  \/ f # Null /\ Wake(f, timers, ioWaiters, kernel)
  \/ f = Null /\ UNCHANGED <<fstate, queueVars, nSuspended, timers, ioWaiters, kernel>>

\* The Io calls below that may wake a fiber move nothing else of the scheduler.
OnlyWakes == UNCHANGED <<current, clockMs, evbuf, readable, mode>>

-----------------------------------------------------------------------------
(* spawn and async.                                                        *)

SpawnPlain ==
  /\ InUser
  /\ Spawn
  /\ UNCHANGED ioVars

Async(x) ==
  /\ InUser
  /\ fut[x].state = "free"
  /\ \E f \in Fiber :
       /\ fstate[f] = "free"
       /\ Spawn /\ fstate'[f] = "ready"
       /\ fut' = [fut EXCEPT ![x] = [Freed EXCEPT !.state = "pending", !.task = f]]
       /\ flag' = [flag EXCEPT ![f] = x]
  /\ UNCHANGED call

\* What the worker leaves in its future.
Settled(r, ok) ==
  [r EXCEPT !.state = IF ok THEN "ready" ELSE IF r.canceled THEN "canceled" ELSE "failed",
            !.valued = @ \/ ok,
            !.workerDone = TRUE]

\* The end of the closure async boxes: the result, ready of the waiter, the
\* worker's half of the release.
WorkerSettles(ok) ==
  /\ InBody
  /\ flag[current] # Null
  /\ LET x == flag[current]
     IN  /\ Ready(fut[x].park)
         /\ fut' = [fut EXCEPT ![x] = Release(Settled(@, ok))]
  /\ call' = [call EXCEPT ![current] = [op |-> "settled", on |-> <<>>]]
  /\ UNCHANGED flag
  /\ OnlyWakes

\* The fiber is about to be reaped.
FiberReturns ==
  /\ BodyReturns
  /\ \/ call[current].op = "settled"
     \/ call[current].op = "body" /\ flag[current] = Null
  /\ flag' = [flag EXCEPT ![current] = Null]
  /\ call' = [call EXCEPT ![current] = Body]
  /\ UNCHANGED fut

-----------------------------------------------------------------------------
(* await, cancel and sleep.                                                *)

\* await of a pending future parks in suspendRaw.
AwaitParks(x) ==
  /\ MayCall("await")
  /\ Usable(x) /\ Pending(x) /\ ~fut[x].canceled
  /\ fut[x].park = Null
  /\ ~FiberCanceled(current)
  /\ fut' = [fut EXCEPT ![x].park = current]
  /\ call' = [call EXCEPT ![current] = [op |-> "await", on |-> <<x>>]]
  /\ SuspendSelf
  /\ UNCHANGED flag

\* await takes whatever the future holds and gives up the awaiter's half: at
\* once when the future has settled or was cancelled, or when suspendRaw raises
\* instead of parking, and otherwise when suspendRaw is back, raising or not.
AwaitEnds(x) ==
  /\ Usable(x)
  /\ \/ /\ MayCall("await") \/ mode = "main"
        /\ Sole(x)
        /\ \/ ~Pending(x) \/ fut[x].canceled
           \/ mode # "main" /\ fut[x].park = Null /\ FiberCanceled(current)
        /\ UNCHANGED call
     \/ /\ InFiber /\ call[current] = [op |-> "await", on |-> <<x>>]
        /\ call' = [call EXCEPT ![current] = Body]
  /\ fut' = [fut EXCEPT ![x] = Release([fut[x] EXCEPT !.consumed = TRUE])]
  /\ UNCHANGED <<vars, flag>>

\* await of a pending future that has its awaiter, or outside any fiber.
AwaitAborts(x) ==
  /\ Usable(x) /\ Pending(x) /\ ~fut[x].canceled
  /\ (MayCall("await") /\ fut[x].park # Null) \/ mode = "main"
  /\ Abort
  /\ UNCHANGED ioVars

\* Broken: a cancel that only sets the flag.
CancelFlagsOnly(x) ==
  /\ fut' = [fut EXCEPT ![x].canceled = TRUE, ![x].state = "canceled"]
  /\ UNCHANGED <<fstate, queueVars, nSuspended, timers, ioWaiters, kernel>>

CancelFuture(x) ==
  /\ fut' = [fut EXCEPT ![x].canceled = TRUE, ![x].state = "canceled"]
  /\ IF Pending(x) THEN Ready(fut[x].task)
     ELSE UNCHANGED <<fstate, queueVars, nSuspended, timers, ioWaiters, kernel>>

Cancel(x) ==
  /\ InUser
  /\ Usable(x)
  /\ CancelFuture(x)
  /\ OnlyWakes
  /\ UNCHANGED <<flag, call>>

\* armTimer, then suspendRaw.
SleepTimer(ms) == Append(timers, [deadlineMs |-> clockMs + ms, fiber |-> current])

IoSleep(ms) ==
  /\ InBody
  /\ clockMs + ms <= MaxClock
  /\ ~FiberCanceled(current)
  /\ timers' = SleepTimer(ms)
  /\ Park
  /\ UNCHANGED <<queueVars, current, clockMs, fdVars, mode, ioVars>>

\* suspendRaw raises before it parks, and takes the new timer back.
IoSleepRaises(ms) ==
  /\ InBody
  /\ clockMs + ms <= MaxClock
  /\ FiberCanceled(current)
  /\ timers' = Evict(SleepTimer(ms), current)
  /\ UNCHANGED <<fstate, queueVars, current, nSuspended, clockMs, fdVars, mode, ioVars>>

-----------------------------------------------------------------------------
(* race.                                                                   *)

\* The coordinator's futures, and those of them that settled with a value.
Racing(f) == {call[f].on[i] : i \in DOMAIN call[f].on}
Scanning  == InFiber /\ call[current].op = "scan"
Winners   == {x \in Racing(current) : fut[x].state = "ready"}

RaceStarts ==
  /\ MayCall("race")
  /\ \E s \in [1 .. 2 -> Future] :
       /\ s[1] # s[2]
       /\ \A i \in DOMAIN s : Usable(s[i]) /\ Sole(s[i])
       /\ call' = [call EXCEPT ![current] = [op |-> "scan", on |-> s]]
  /\ UNCHANGED <<vars, fut, flag>>

\* The coordinator's handle goes into the park slot of every pending future.
Enlist(me) ==
  [x \in Future |-> IF x \in Racing(me) /\ Pending(x)
                    THEN [fut[x] EXCEPT !.park = me] ELSE fut[x]]

\* Broken: the slots keep the handle.
DelistNobody(me, fs) == fs

\* It comes out of every slot that holds it.
Delist(me, fs) ==
  [x \in Future |-> IF x \in Racing(me) /\ fs[x].park = me
                    THEN [fs[x] EXCEPT !.park = Null] ELSE fs[x]]

\* No winner yet: wait for any of the pending futures.
RaceParks ==
  /\ Scanning
  /\ Winners = {}
  /\ \E x \in Racing(current) : Pending(x)
  /\ ~FiberCanceled(current)
  /\ fut' = Enlist(current)
  /\ call' = [call EXCEPT ![current].op = "racing"]
  /\ SuspendSelf
  /\ UNCHANGED flag

\* suspendRaw raises instead; the loop goes round without giving up the thread.
RaceSpins ==
  /\ Scanning
  /\ Winners = {}
  /\ \E x \in Racing(current) : Pending(x)
  /\ FiberCanceled(current)
  /\ fut' = Delist(current, Enlist(current))
  /\ UNCHANGED <<vars, flag, call>>

RaceResumes ==
  /\ InFiber /\ call[current].op = "racing"
  /\ fut' = Delist(current, fut)
  /\ call' = [call EXCEPT ![current].op = "scan"]
  /\ UNCHANGED <<vars, flag>>

RaceAborts ==
  /\ Scanning
  /\ Winners = {}
  /\ \A x \in Racing(current) : ~Pending(x)
  /\ Abort
  /\ UNCHANGED ioVars

\* The lowest index wins; the others are left to look at.
RaceWins ==
  /\ Scanning
  /\ \E i \in DOMAIN call[current].on :
       /\ call[current].on[i] \in Winners
       /\ \A j \in 1 .. i - 1 : call[current].on[j] \notin Winners
       /\ call' = [call EXCEPT ![current] =
                     [op |-> "cancelling", on |-> Without(call[current].on, i)]]
  /\ UNCHANGED <<vars, fut, flag>>

\* The next of them is cancelled if it is still pending.
RaceCancels ==
  /\ InFiber /\ call[current].op = "cancelling"
  /\ LET on == call[current].on
     IN  /\ \/ Pending(Head(on)) /\ CancelFuture(Head(on))
            \/ /\ ~Pending(Head(on))
               /\ UNCHANGED <<fut, fstate, queueVars, nSuspended, timers, ioWaiters, kernel>>
         /\ call' = [call EXCEPT ![current] =
                       IF Len(on) = 1 THEN Body ELSE [op |-> "cancelling", on |-> Tail(on)]]
  /\ OnlyWakes
  /\ UNCHANGED flag

-----------------------------------------------------------------------------

IoInit ==
  /\ Init
  /\ fut = [x \in Future |-> Freed]
  /\ flag = [f \in Fiber |-> Null]
  /\ call = [f \in Fiber |-> Body]

\* What a fiber, or the code before run, does with the Io interface.
IoSwitches ==
  \/ FiberReturns
  \/ \E x \in Future : AwaitParks(x)
  \/ \E ms \in IoMs : IoSleep(ms)
  \/ RaceParks

\* Steps a call takes on its own once it has begun.
IoResumes ==
  \/ \E x \in Future : AwaitEnds(x)
  \/ RaceResumes \/ RaceSpins \/ RaceAborts \/ RaceWins \/ RaceCancels

IoCalls ==
  \/ SpawnPlain
  \/ \E x \in Future : Async(x) \/ Cancel(x) \/ AwaitAborts(x)
  \/ \E ok \in BOOLEAN : WorkerSettles(ok)
  \/ \E ms \in IoMs : IoSleepRaises(ms)
  \/ RaceStarts

IoLoop ==
  /\ \/ Loop
     \/ StartLoop("run")
     \/ Stopped
  /\ UNCHANGED ioVars

IoNext == IoSwitches \/ IoResumes \/ IoCalls \/ IoLoop

IoSpec == IoInit /\ [][IoNext]_allVars

-----------------------------------------------------------------------------
(* Properties.                                                             *)

\* A future is freed only when nobody can look at it again: not its worker,
\* whose cancel flag lives in it, and no fiber that awaits or races it
\* (futRelease, the comment "may free f").
FuturesInUse ==
  /\ \A f \in Fiber :
       (flag[f] # Null /\ call[f].op # "settled")
         => /\ fut[flag[f]].state # "free" /\ ~fut[flag[f]].workerDone
            /\ fut[flag[f]].task = f /\ fstate[f] # "free"
  /\ \A f \in Fiber : \A x \in Future : Named(f, x) => Usable(x)

\* A pending future has its worker still to come, so the handle that cancel wakes
\* is never that of a reaped fiber ("a settled future's fiber may already be
\* reaped, so only a pending one is woken").
PendingHasWorker ==
  \A x \in Future : Pending(x) =>
    /\ fut[x].task # Null
    /\ flag[fut[x].task] = x /\ call[fut[x].task].op # "settled"

\* A park slot names a fiber that is still in its await or race, so the ready of
\* the worker never touches one that moved on or was reaped.  A worker that awaits
\* may leave its handle behind when it is cancelled.
SlotsInUse ==
  "await" \notin Nested =>
    \A f \in Fiber : \A x \in Future :
      (fut[x].park = f /\ ~fut[x].workerDone) => Named(f, x)

\* Nothing is used after it was freed: no future, no fiber through a handle in a
\* future, no fiber through a timer that io.sleep armed.
NothingFreedInUse == FuturesInUse /\ PendingHasWorker /\ SlotsInUse /\ WakeSourcesParked

\* Nobody is parked in a task that was cancelled: the cancel wakes it, and
\* suspendRaw does not let it park again.
CancelledNeverParked ==
  \A f \in Fiber : fstate[f] = "suspended" => ~FiberCanceled(f)

\* await returns a value only of a worker that delivered one, and otherwise
\* raises ("cancellation surfaces via f.canceled below").
TakesNow(x) == Usable(x) /\ (fut'[x].consumed \/ fut'[x].state = "free")
AwaitSettled ==
  [][\A x \in Future :
       TakesNow(x) => \/ fut[x].canceled
                      \/ fut[x].state \in {"failed", "canceled"}
                      \/ fut[x].state = "ready" /\ fut[x].valued]_allVars

\* Fairness: the loop goes on, a call that has the thread goes on, a body gives
\* the thread back, and a worker that gets to run again and again settles.
IoFairness ==
  /\ WF_allVars(Loop /\ UNCHANGED ioVars)
  /\ WF_allVars(IoResumes)
  /\ WF_allVars(IoSwitches)
  /\ \A f \in Fiber : SF_allVars(current = f /\ \E ok \in BOOLEAN : WorkerSettles(ok))

IoFairSpec == IoSpec /\ IoFairness

\* await and race come back, whoever cancels the futures meanwhile; a race of
\* which no future succeeds ends the process instead.  They do as long as no worker
\* races: a worker may race its own future, or spin once it is cancelled.
WorkersDontRace == \A f \in Fiber : flag[f] # Null => call[f].op \notin {"scan", "racing"}

AwaitersReturn ==
  []WorkersDontRace =>
    \A f \in Fiber :
      call[f].op \in {"await", "racing", "scan", "cancelling"}
        ~> (call[f].op = "body" \/ mode = "aborted")
=============================================================================
