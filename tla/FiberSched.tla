------------------------------ MODULE FiberSched ------------------------------
(***************************************************************************)
(* The M:1 cooperative fiber scheduler of library/modules/std/sched.sx.    *)
(*                                                                         *)
(* One thread runs everything.  `current' says who holds it: Null is the   *)
(* driver (the code that called run or poll, or that loop itself), a fiber *)
(* whose state is "running" is executing its body, and a fiber in any      *)
(* other state has just switched back (swapContext) and the loop has not   *)
(* looked at it yet.  The ready queue is the code's intrusive list         *)
(* (readyHead, readyTail, next).  `queue' is an auxiliary variable: the    *)
(* order in which fibers were linked.  No guard reads it.                  *)
(*                                                                         *)
(* A member of Fiber is the address of a heap Fiber: "free" until spawn    *)
(* funds it and again once reapFiber returned it, so a later spawn may     *)
(* hand out the same address.                                              *)
(***************************************************************************)
EXTENDS Integers, Sequences, FiniteSets

CONSTANTS
  Fiber,      \* addresses the allocator can hand out for a Fiber
  Fd,         \* file descriptors fibers block on
  Null,       \* the null pointer
  Os,         \* the readiness backend: "linux" (epoll) or "macos" (kqueue)
  Ms,         \* durations the fibers pass to sleep
  MaxClock,   \* bound: no sleep is modelled past this virtual time
  MaxEv       \* MAXEV: events drained by one wait

ASSUME FiberAssumption == IsFiniteSet(Fiber) /\ Null \notin Fiber
ASSUME OsAssumption == Os \in {"linux", "macos"}
ASSUME TimeAssumption == Ms \subseteq Nat /\ MaxClock \in Nat
ASSUME MaxEvAssumption == MaxEv \in Nat \ {0}

VARIABLES
  fstate,       \* Fiber.state, or "free"
  next,         \* Fiber.next
  readyHead, readyTail,
  queue,        \* auxiliary: the linked fibers, oldest first
  current,
  nSuspended,
  clockMs,
  timers,       \* List(Timer), in insertion order
  ioWaiters,    \* List(IoWaiter)
  kernel,       \* what the readiness queue holds for an fd
  evbuf,        \* fds reported by the wait in progress, not yet handled
  readable,     \* fds with input pending
  mode          \* what the driver is doing

queueVars == <<next, readyHead, readyTail, queue>>
timeVars  == <<clockMs, timers>>
fdVars    == <<ioWaiters, kernel, evbuf, readable>>
vars      == <<fstate, queueVars, current, nSuspended, timeVars, fdVars, mode>>

FiberState == {"free", "ready", "running", "suspended", "done"}
Timer      == [deadlineMs : Nat, fiber : Fiber]
IoWaiter   == [fd : Fd, fiber : Fiber]

Live       == {f \in Fiber : fstate[f] # "free"}
Suspended  == {f \in Fiber : fstate[f] = "suspended"}

\* A fiber body is executing.
InFiber == mode \in {"run", "poll"} /\ current # Null /\ fstate[current] = "running"
\* The loop of run or poll has the thread, with no switched-back fiber and no
\* drained event left to look at.
InLoop  == mode \in {"run", "poll"} /\ current = Null /\ evbuf = <<>>

-----------------------------------------------------------------------------
(* The lists.                                                              *)

\* removeTimer, removeIoWaiter: later entries shift down one slot.
Without(s, i) == [j \in 1 .. Len(s) - 1 |-> IF j < i THEN s[j] ELSE s[j + 1]]

\* cancelTimerFor and the scan of cancelIoWaiterFor: only the first match goes.
Holds(s, f)   == \E i \in DOMAIN s : s[i].fiber = f
FirstOf(s, f) == CHOOSE i \in DOMAIN s : /\ s[i].fiber = f
                                         /\ \A j \in 1 .. i - 1 : s[j].fiber # f
Evict(s, f)   == IF Holds(s, f) THEN Without(s, FirstOf(s, f)) ELSE s

\* Broken: a tie goes to the later entry.
LastEarliestTimer(i) ==
  /\ \A j \in DOMAIN timers : timers[i].deadlineMs <= timers[j].deadlineMs
  /\ \A j \in i + 1 .. Len(timers) : timers[i].deadlineMs < timers[j].deadlineMs

\* The earliest deadline; the strict `<' leaves a tie to the lower index.
EarliestTimer(i) ==
  /\ \A j \in DOMAIN timers : timers[i].deadlineMs <= timers[j].deadlineMs
  /\ \A j \in 1 .. i - 1 : timers[i].deadlineMs < timers[j].deadlineMs

\* Broken: the fd is read after removeIoWaiter shifted the list.
DeregisterShifted(k, ws, f) ==
  IF Os = "linux" /\ Holds(ws, f) /\ Len(ws) > FirstOf(ws, f)
  THEN [k EXCEPT ![ws[FirstOf(ws, f) + 1].fd] = "none"]
  ELSE k

\* EPOLL_CTL_DEL of the fd a woken fiber was waiting for.  kqueue leaves its
\* one-shot registration behind.
Deregister(k, ws, f) ==
  IF Os = "linux" /\ Holds(ws, f)
  THEN [k EXCEPT ![ws[FirstOf(ws, f)].fd] = "none"]
  ELSE k

Enqueue(f) ==
  /\ next' = IF readyTail = Null
             THEN [next EXCEPT ![f] = Null]
             ELSE [next EXCEPT ![f] = Null, ![readyTail] = f]
  /\ readyHead' = IF readyTail = Null THEN f ELSE readyHead
  /\ readyTail' = f
  /\ queue' = Append(queue, f)

Dequeue ==
  /\ readyHead' = next[readyHead]
  /\ readyTail' = IF next[readyHead] = Null THEN Null ELSE readyTail
  /\ next' = [next EXCEPT ![readyHead] = Null]
  /\ queue' = Tail(queue)

\* Broken: a timer outlives the sleep it was armed for.
WakeKeepsTimer(f, ts, ws, k) ==
  /\ timers' = ts /\ ioWaiters' = Evict(ws, f)
  /\ kernel' = Deregister(k, ws, f)
  /\ IF fstate[f] = "suspended"
     THEN /\ nSuspended' = nSuspended - 1
          /\ fstate' = [fstate EXCEPT ![f] = "ready"]
          /\ Enqueue(f)
     ELSE UNCHANGED <<fstate, queueVars, nSuspended>>

\* Broken: the count goes down whether the fiber is parked or not.
WakeCountsFirst(f, ts, ws, k) ==
  /\ nSuspended' = nSuspended - 1
  /\ IF fstate[f] = "suspended"
     THEN /\ timers' = Evict(ts, f) /\ ioWaiters' = Evict(ws, f)
          /\ kernel' = Deregister(k, ws, f)
          /\ fstate' = [fstate EXCEPT ![f] = "ready"]
          /\ Enqueue(f)
     ELSE /\ timers' = ts /\ ioWaiters' = ws /\ kernel' = k
          /\ UNCHANGED <<fstate, queueVars>>

\* The caller of wake may already have taken a record out of a list: ts, ws
\* and k are the timers, the waiters and the registrations wake finds.  Only a
\* parked fiber is linked again, and whatever else could still wake it is
\* withdrawn first; any other wake changes nothing.
Wake(f, ts, ws, k) ==
  \/ /\ fstate[f] = "suspended"
     /\ timers' = Evict(ts, f)
     /\ ioWaiters' = Evict(ws, f)
     /\ kernel' = Deregister(k, ws, f)
     /\ nSuspended' = nSuspended - 1
     /\ fstate' = [fstate EXCEPT ![f] = "ready"]
     /\ Enqueue(f)
  \/ /\ fstate[f] # "suspended"
     /\ timers' = ts /\ ioWaiters' = ws /\ kernel' = k
     /\ UNCHANGED <<fstate, queueVars, nSuspended>>

Abort ==
  /\ mode' = "aborted"
  /\ UNCHANGED <<fstate, queueVars, current, nSuspended, timeVars, fdVars>>

-----------------------------------------------------------------------------
(* Calls of a fiber body, or of the driver outside run and poll.           *)

\* spawn: the new fiber is linked last.
Spawn ==
  /\ InFiber \/ mode = "main"
  /\ \E f \in Fiber :
       /\ fstate[f] = "free"
       /\ fstate' = [fstate EXCEPT ![f] = "ready"]
       /\ Enqueue(f)
  /\ UNCHANGED <<current, nSuspended, timeVars, fdVars, mode>>

\* The caller holds a handle of a fiber that was not reaped yet.
WakeCall ==
  /\ InFiber \/ mode = "main"
  /\ \E f \in Live : Wake(f, timers, ioWaiters, kernel)
  /\ UNCHANGED <<current, clockMs, evbuf, readable, mode>>

YieldNow ==
  /\ InFiber
  /\ fstate' = [fstate EXCEPT ![current] = "ready"]
  /\ UNCHANGED <<queueVars, current, nSuspended, timeVars, fdVars, mode>>

\* suspendSelf without the swap's frame: the running fiber parks.
Park ==
  /\ fstate' = [fstate EXCEPT ![current] = "suspended"]
  /\ nSuspended' = nSuspended + 1

SuspendSelf ==
  /\ InFiber
  /\ Park
  /\ UNCHANGED <<queueVars, current, timeVars, fdVars, mode>>

Sleep(ms) ==
  /\ InFiber
  /\ clockMs + ms <= MaxClock
  /\ timers' = Append(timers, [deadlineMs |-> clockMs + ms, fiber |-> current])
  /\ Park
  /\ UNCHANGED <<queueVars, current, clockMs, fdVars, mode>>

\* One waiter per fd; EV_ADD replaces a registration, EPOLL_CTL_ADD refuses a
\* second one.
CanArm(fd) ==
  /\ \A i \in DOMAIN ioWaiters : ioWaiters[i].fd # fd
  /\ Os = "linux" => kernel[fd] = "none"

BlockOnFd(fd) ==
  /\ InFiber
  /\ CanArm(fd)
  /\ kernel' = [kernel EXCEPT ![fd] = "armed"]
  /\ ioWaiters' = Append(ioWaiters, [fd |-> fd, fiber |-> current])
  /\ Park
  /\ UNCHANGED <<queueVars, current, timeVars, evbuf, readable, mode>>

BlockOnFdAborts(fd) ==
  /\ InFiber
  /\ ~CanArm(fd)
  /\ Abort

\* yieldNow, suspendSelf, sleep and blockOnFd without a running fiber, a
\* negative sleep, a write wait.
Misuse ==
  /\ InFiber \/ mode = "main"
  /\ Abort

\* The body reads everything its fd has.
ReadFd(fd) ==
  /\ InFiber
  /\ fd \in readable
  /\ readable' = readable \ {fd}
  /\ UNCHANGED <<fstate, queueVars, current, nSuspended, timeVars,
                 ioWaiters, kernel, evbuf, mode>>

\* fibDispatch after the body.
BodyReturns ==
  /\ InFiber
  /\ fstate' = [fstate EXCEPT ![current] = "done"]
  /\ UNCHANGED <<queueVars, current, nSuspended, timeVars, fdVars, mode>>

-----------------------------------------------------------------------------
(* The loop of run and poll.                                               *)

StartLoop(m) ==
  /\ mode = "main"
  /\ mode' = m
  /\ UNCHANGED <<fstate, queueVars, current, nSuspended, timeVars, fdVars>>

Dispatch ==
  /\ InLoop
  /\ readyHead # Null
  /\ current' = readyHead
  /\ fstate' = [fstate EXCEPT ![readyHead] = "running"]
  /\ Dequeue
  /\ UNCHANGED <<nSuspended, timeVars, fdVars, mode>>

\* What the loop does when swapContext returns: reap, link again or leave.
SwitchedBack ==
  /\ mode \in {"run", "poll"}
  /\ current # Null
  /\ \/ /\ fstate[current] = "done"
        /\ fstate' = [fstate EXCEPT ![current] = "free"]
        /\ UNCHANGED queueVars
     \/ /\ fstate[current] = "ready"
        /\ Enqueue(current)
        /\ UNCHANGED fstate
     \/ /\ fstate[current] = "suspended"
        /\ UNCHANGED <<fstate, queueVars>>
  /\ current' = Null
  /\ UNCHANGED <<nSuspended, timeVars, fdVars, mode>>

Drained == InLoop /\ readyHead = Null

\* Virtual time moves to the earliest deadline; poll returns after one timer.
FireTimer ==
  /\ Drained
  /\ \E i \in DOMAIN timers :
       /\ EarliestTimer(i)
       /\ clockMs' = timers[i].deadlineMs
       /\ Wake(timers[i].fiber, Without(timers, i), ioWaiters, kernel)
  /\ mode' = IF mode = "poll" THEN "main" ELSE mode
  /\ UNCHANGED <<current, evbuf, readable>>

\* The wait returns between 1 and MaxEv registered fds that are readable, in
\* any order.  EV_ONESHOT drops the registration, EPOLLONESHOT disables it.
WaitForFds ==
  /\ Drained
  /\ mode = "run"
  /\ timers = <<>>
  /\ ioWaiters # <<>>
  /\ \E fds \in SUBSET {fd \in readable : kernel[fd] = "armed"} :
       /\ Cardinality(fds) \in 1 .. MaxEv
       /\ \E order \in [1 .. Cardinality(fds) -> fds] :
            /\ \A fd \in fds : \E i \in DOMAIN order : order[i] = fd
            /\ evbuf' = order
       /\ kernel' = [fd \in Fd |-> IF fd \notin fds THEN kernel[fd]
                                   ELSE IF Os = "linux" THEN "disabled" ELSE "none"]
  /\ UNCHANGED <<fstate, queueVars, current, nSuspended, timeVars,
                 ioWaiters, readable, mode>>

\* The wait has no timeout: without a reportable fd the thread stays in it.
Blocked ==
  /\ Drained
  /\ mode = "run"
  /\ timers = <<>>
  /\ ioWaiters # <<>>
  /\ \A fd \in readable : kernel[fd] # "armed"
  /\ UNCHANGED vars

\* wakeIoWaiterForFd for the next reported fd, then EPOLL_CTL_DEL.  A stale
\* report finds no waiter.
HandleEvent ==
  /\ evbuf # <<>>
  /\ LET fd == Head(evbuf)
         k  == IF Os = "linux" THEN [kernel EXCEPT ![fd] = "none"] ELSE kernel
     IN  \/ \E i \in DOMAIN ioWaiters :
              /\ ioWaiters[i].fd = fd
              /\ \A j \in 1 .. i - 1 : ioWaiters[j].fd # fd
              /\ Wake(ioWaiters[i].fiber, timers, Without(ioWaiters, i), k)
         \/ /\ \A i \in DOMAIN ioWaiters : ioWaiters[i].fd # fd
            /\ kernel' = k
            /\ UNCHANGED <<fstate, queueVars, nSuspended, timers, ioWaiters>>
  /\ evbuf' = Tail(evbuf)
  /\ UNCHANGED <<current, clockMs, readable, mode>>

\* Broken: run forgets the verdict on parked fibers.
RunJustEnds ==
  /\ Drained
  /\ mode = "run"
  /\ timers = <<>> /\ ioWaiters = <<>>
  /\ mode' = "main"
  /\ UNCHANGED <<fstate, queueVars, current, nSuspended, timeVars, fdVars>>

\* run returns once nothing is left that could wake anyone, and aborts when a
\* fiber is parked then.
RunEnds ==
  /\ Drained
  /\ mode = "run"
  /\ timers = <<>> /\ ioWaiters = <<>>
  /\ mode' = IF nSuspended # 0 THEN "aborted" ELSE "main"
  /\ UNCHANGED <<fstate, queueVars, current, nSuspended, timeVars, fdVars>>

\* poll answers -1, and refuses to be the driver of fd waiters.
PollEnds ==
  /\ Drained
  /\ mode = "poll"
  /\ timers = <<>>
  /\ mode' = IF ioWaiters # <<>> THEN "aborted" ELSE "main"
  /\ UNCHANGED <<fstate, queueVars, current, nSuspended, timeVars, fdVars>>

\* deinit reaps the fibers still linked, then drops the lists and the queue fd.
DeinitReap ==
  /\ mode \in {"main", "deinit"}
  /\ readyHead # Null
  /\ fstate' = [fstate EXCEPT ![readyHead] = "free"]
  /\ Dequeue
  /\ mode' = "deinit"
  /\ UNCHANGED <<current, nSuspended, timeVars, fdVars>>

DeinitLists ==
  /\ mode \in {"main", "deinit"}
  /\ readyHead = Null
  /\ timers' = <<>>
  /\ ioWaiters' = <<>>
  /\ kernel' = [fd \in Fd |-> "none"]
  /\ mode' = "dead"
  /\ UNCHANGED <<fstate, queueVars, current, nSuspended, clockMs, evbuf, readable>>

\* Bytes arrive on an fd.
FdReadable(fd) ==
  /\ mode \notin {"dead", "aborted"}
  /\ fd \notin readable
  /\ readable' = readable \cup {fd}
  /\ UNCHANGED <<fstate, queueVars, current, nSuspended, timeVars,
                 ioWaiters, kernel, evbuf, mode>>

\* The scheduler, or the whole process, is gone.
Stopped ==
  /\ mode \in {"dead", "aborted"}
  /\ UNCHANGED vars

-----------------------------------------------------------------------------

Init ==
  /\ fstate = [f \in Fiber |-> "free"]
  /\ next = [f \in Fiber |-> Null]
  /\ readyHead = Null /\ readyTail = Null
  /\ queue = <<>>
  /\ current = Null
  /\ nSuspended = 0
  /\ clockMs = 0
  /\ timers = <<>>
  /\ ioWaiters = <<>>
  /\ kernel = [fd \in Fd |-> "none"]
  /\ evbuf = <<>>
  /\ readable = {}
  /\ mode = "main"

\* Calls that hand the thread back to the loop.
Switches ==
  \/ YieldNow
  \/ SuspendSelf
  \/ \E ms \in Ms : Sleep(ms)
  \/ \E fd \in Fd : BlockOnFd(fd)
  \/ BodyReturns

Calls ==
  \/ Spawn
  \/ WakeCall
  \/ Misuse
  \/ \E fd \in Fd : BlockOnFdAborts(fd) \/ ReadFd(fd)

Loop ==
  \/ Dispatch
  \/ SwitchedBack
  \/ FireTimer
  \/ WaitForFds
  \/ Blocked
  \/ HandleEvent
  \/ RunEnds
  \/ PollEnds

Next ==
  \/ Switches
  \/ Calls
  \/ Loop
  \/ StartLoop("run") \/ StartLoop("poll")
  \/ DeinitReap \/ DeinitLists
  \/ \E fd \in Fd : FdReadable(fd)
  \/ Stopped

Spec == Init /\ [][Next]_vars

-----------------------------------------------------------------------------
(* Properties.                                                             *)

TypeOK ==
  /\ fstate \in [Fiber -> FiberState]
  /\ next \in [Fiber -> Fiber \cup {Null}]
  /\ readyHead \in Fiber \cup {Null} /\ readyTail \in Fiber \cup {Null}
  /\ queue \in Seq(Fiber)
  /\ current \in Fiber \cup {Null}
  /\ nSuspended \in Nat
  /\ clockMs \in Nat
  /\ timers \in Seq(Timer)
  /\ ioWaiters \in Seq(IoWaiter)
  /\ kernel \in [Fd -> {"none", "armed", "disabled"}]
  /\ evbuf \in Seq(Fd)
  /\ readable \in SUBSET Fd
  /\ mode \in {"main", "run", "poll", "deinit", "dead", "aborted"}

\* One thread: only the current fiber runs or has just finished, current is
\* never a reaped fiber, and no fiber runs while drained events are pending, so
\* none can disturb the batch (the run loop's reset of current).
OneThread ==
  /\ \A f \in Fiber : fstate[f] \in {"running", "done"} => f = current
  /\ current # Null => fstate[current] # "free" /\ mode \in {"run", "poll", "aborted"}
  /\ evbuf # <<>> => current = Null /\ mode = "run"

\* The intrusive list never loses or cycles a node: following readyHead and
\* next spells exactly the fibers linked so far, in order, and readyTail is
\* the last of them (enqueue, dequeue, and the guard of wake).
LinksSpellQueue ==
  /\ readyHead = IF queue = <<>> THEN Null ELSE queue[1]
  /\ readyTail = IF queue = <<>> THEN Null ELSE queue[Len(queue)]
  /\ \A i \in DOMAIN queue :
       next[queue[i]] = IF i = Len(queue) THEN Null ELSE queue[i + 1]

\* A fiber is linked once if it is ready, and not at all otherwise; the one
\* that yielded is linked only when the loop has it back.
Queued(f)  == \E i \in DOMAIN queue : queue[i] = f
LinkedOnce == \A i, j \in DOMAIN queue : queue[i] = queue[j] => i = j
QueuedIffReady ==
  /\ LinkedOnce
  /\ \A f \in Fiber : Queued(f) <=> (fstate[f] = "ready" /\ f # current)

\* Timers and fd waiters hold no dangling *Fiber: each names a parked fiber,
\* which is therefore not reaped, no fiber has two of them and no fd two
\* waiters (wake, and the removals of the run loop before it).
SourcesParked(ts, ws) ==
  /\ \A i \in DOMAIN ts : fstate[ts[i].fiber] = "suspended"
  /\ \A i \in DOMAIN ws : fstate[ws[i].fiber] = "suspended"
  /\ \A i, j \in DOMAIN ts : ts[i].fiber = ts[j].fiber => i = j
  /\ \A i, j \in DOMAIN ws : ws[i].fiber = ws[j].fiber => i = j
  /\ \A i, j \in DOMAIN ws : ws[i].fd = ws[j].fd => i = j
  /\ \A i \in DOMAIN ts, j \in DOMAIN ws : ts[i].fiber # ws[j].fiber
WakeSourcesParked == SourcesParked(timers, ioWaiters)

\* nSuspended, on which run's deadlock verdict rests, counts the parked fibers.
SuspendedCounted == nSuspended = Cardinality(Suspended)

\* No waiter is stranded: the kernel still watches its fd, or the report is in
\* the batch being handled.  On linux nothing else is registered, so
\* EPOLL_CTL_ADD never finds an old registration.
Registered(ws, k, reported) ==
  /\ \A i \in DOMAIN ws : \/ k[ws[i].fd] = "armed"
                         \/ \E j \in DOMAIN reported : reported[j] = ws[i].fd
  /\ Os = "linux" =>
       \A fd \in Fd : k[fd] # "none" => \E i \in DOMAIN ws : ws[i].fd = fd
WaitersRegistered == Registered(ioWaiters, kernel, evbuf)

\* Virtual time never goes back (sleep takes no negative duration, and the
\* earliest deadline fires first).
TimersAhead == \A i \in DOMAIN timers : timers[i].deadlineMs >= clockMs
ClockMonotone == [][clockMs' >= clockMs]_vars

\* run returns only when every fiber it drove was reaped; if it gives up it is
\* because a parked fiber has no timer and no fd left to wake it.
RunVerdict ==
  [][(mode = "run" /\ current = Null /\ mode' # "run") =>
       \/ mode' = "main" /\ Live = {}
       \/ mode' = "aborted" /\ \E f \in Suspended : ~Holds(timers, f) /\ ~Holds(ioWaiters, f)]_vars

\* Fairness: the loop goes on, a body gives the thread back in the end (the
\* scheduler is cooperative: one that never does stops everybody), and a wait
\* does not leave out the same ready fd for ever.
Fairness ==
  /\ WF_vars(Loop)
  /\ WF_vars(Switches)
  /\ \A fd \in Fd : SF_vars(WaitForFds /\ \E i \in DOMAIN evbuf' : evbuf'[i] = fd)

FairSpec == Spec /\ Fairness

\* A fiber parked on an fd that stays readable is not left there while the loop
\* keeps waiting on fds.
ReadersWake ==
  \A f \in Fiber :
    ~ /\ <>[](mode = "run" /\ \E i \in DOMAIN ioWaiters :
                 ioWaiters[i].fiber = f /\ ioWaiters[i].fd \in readable)
      /\ []<>(Drained /\ timers = <<>>)
=============================================================================
