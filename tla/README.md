# The sx runtime in TLA+

sx is a small systems language: a compiler (`src/src/`, Zig) and a standard
library written in sx (`src/library/modules/`). This directory specifies the
concurrent core of the standard library (fibers and futures, the thread pool, the
HTTP server over it, the HTTP client's pool), checks it with TLC and proves its
main invariants with TLAPS. Paths below are relative to the repository's root, shown
as `src/`; `std/` stands for `src/library/modules/std/`.

1. The system
2. The modules
3. What the runs check
4. Fairness
5. What is proved
6. Where code and comments disagree
7. What is not modelled
8. Plan

## 1. The system

| Part | State it keeps | Operations | Talks to |
|---|---|---|---|
| Fiber scheduler, `std/sched.sx` | an intrusive ready list (`readyHead`, `readyTail`, `Fiber.next`), the current fiber, `nSuspended`, the virtual clock, timers, fd waiters, one epoll or kqueue fd | `spawn`, `yieldNow`, `suspendSelf`, `wake`, `sleep`, `blockOnFd`, `run`, `poll`, `deinit`; the `Io` methods `spawnRaw`, `suspendRaw`, `ready`, `armTimer`, `currentPark` | fibers by `swapContext`; the kernel |
| Futures, `std/io.sx` and `race` in `std/sched.sx` | a heap `Future` per task: state, value, park slot, task handle, sticky cancel flag, two ownership bits | `async`, `await`, `cancel`, `sleep`, `race` | the `Io` of the current context: the scheduler, or `CBlocking`, which runs a task inline |
| Thread pool, `std/thread.sx` | a ring of tasks, `stop`, worker handles, a mutex and a condition variable | `setup`, `submit`, `deinit`, and `poolWorker` on every worker | pthreads |
| HTTP server, `std/http/server.sx` | connection slots with generations, a deadline heap, a completion queue, body and output channels | `tick`, `run`, `stop`, `close`, handlers on pool workers or fibers | thread pool, readiness loop, scheduler |
| Readiness loop, `std/event.sx`, `std/net/` | a registration table beside epoll's or kqueue's, a wake channel | `addRead`, `delRead`, `addWrite`, `delWrite`, `wake`, `wait` | the kernel |
| HTTP client, `std/http/client.sx` | `ClientPool`: a list of keep-alive connections, at most one per origin | `fetch` with redirects, one retry of a stale connection, `close` | sockets, TLS |
| WebSocket, `std/http/websocket.sx` | a reader, a closing handshake | `accept`, `recv`, `ping`, `close` | server and client connections |
| Containers, allocators | arrays, open addressing, arenas | sequential | |
| Compiler, `src/src/` | the program's tree and tables; a worklist of expansions with parked lookups | parse, expand, evaluate at compile time, lower, emit | LLVM, clang |

Everything an sx program runs concurrently goes through the first three. The
scheduler multiplexes fibers on one thread and only switches when a fiber gives
the thread up; a future is an object shared by a worker fiber, an awaiter and
anyone who cancels it; the pool is the one place of the library with real
threads. The behaviours that are hard to test are these:

* a fiber has several wakers (a timer, an fd, another fiber, a cancel, the
  completion of a future), any of which may come first, and each leaves
  something behind that may name a reaped fiber;
* run must tell "idle until a timer or an fd" from "nobody can ever be woken";
* epoll and kqueue disagree on what a one-shot registration leaves behind;
* a cancel may land before a task parks, while it is parked, or after it settled;
* worker and awaiter free a future between them, in either order;
* race puts one handle in several park slots and has to take all of them back;
* a streamed request body is decoded by the server's loop and read by a worker,
  through a bounded channel: the loop must neither block on a full channel nor
  forget the connection it stopped watching, while the peer, the deadlines, an
  early answer or `close` may end the request at any point;
* a streamed answer goes the other way, from a producer on a worker through a
  bounded channel to the loop, which may be gone first, may pause while the channel
  is empty, and must not let a truncated answer look whole;
* a connection slot is given to the next client while a worker still holds the last
  one's request; its completion, its deadline and its events arrive later and must
  find that out from a generation number;
* the loop keeps no timer per connection but a heap of hints, which go stale
  whenever a deadline moves or a connection ends, and sleeps as long as the least
  hint allows;
* a server may close a kept connection at any moment, and the client has to tell
  a request that was never seen from one that was executed;
* pool workers meet spurious wakeups, a stop with tasks queued, a submit from
  inside a task, and a `pthread_create` that fails half way.

What makes each part correct, in a sentence: the *scheduler* runs every ready
fiber once per link, in order, wakes each parked one exactly once, and its
bookkeeping never names a fiber that is gone; *futures* reach their waiter and
nobody else, and are freed when, and only when, both owners are done; the *pool*
runs every accepted task once, in order, and leaves no thread behind; the *body
channel* delivers the body in order, tells its end only to a reader that has all
of it, and never lets the loop and the worker wait for each other; the *output
channel* does the same for an answer, and ends it only if it is whole; the *slots*
owe each dispatched request one answer and never give one to a later request; the
*deadlines* neither oversleep nor evict a connection that is in time; the *client's
pool* reuses only connections that owe nothing, and loses none. PROJECT.json
lists the hazards one by one, at the line where each bites, with the property
that guards it.

## 2. The modules

**FiberSched** models `std/sched.sx` below the `Io` interface. One action is what
one fiber or the loop does between two points where someone else could act.
`current` tells who has the thread, `mode` what the driver of the scheduler does
("main" before and between `run` and `poll`, "dead" after `deinit`, "aborted"
after `abort`). A member of `Fiber` is an *address*: "free" until `spawn` uses it
and again after `reapFiber`, so that a stale pointer meets the next owner of its
memory. The ready list is kept as the code keeps it, pointer by pointer, and an
auxiliary `queue` records the order in which fibers were linked. `kernel` is what
the epoll or kqueue fd holds for each descriptor ("armed", "disabled" after an
`EPOLLONESHOT` fired), `evbuf` the drained events still to be handled,
`readable` the environment's input.

| Code | Actions |
|---|---|
| `spawn`, `wake`, `yieldNow`, `suspendSelf`, `sleep`, `blockOnFd` | `Spawn`, `WakeCall`, `YieldNow`, `SuspendSelf`, `Sleep`, `BlockOnFd` and `BlockOnFdAborts`; `Misuse` is every documented abort of a call made in the wrong place |
| a body that returns (`fibDispatch`) | `BodyReturns` |
| `run`, inner loop | `Dispatch`, then `SwitchedBack` when the swap returns |
| `run`, outer loop | `FireTimer`, `WaitForFds`, `HandleEvent` per event, `RunEnds`; `Blocked` is a wait with nothing to report |
| `poll` | the same loop with `mode` "poll", and `PollEnds` |
| `deinit` | `DeinitReap` per linked fiber, `DeinitLists` |

**CoopSched** is what the scheduler promises: a line, an agenda in wake order, a
set of readers; no pointers, no scans, no registrations. **FiberSchedRefines**
gives the mapping under which FiberSched implements it: the list, with the fiber that
has just yielded at its end, is the line; the timers in the order they will fire
(deadline, then arming) are the agenda; the waiter list is the set of readers; who is
suspended and in neither list is parked. **MCFiberSched** adds the symmetry of fibers
for TLC, **FiberSchedProofs** holds the proofs.

**FiberIo** adds futures and the calls on them, and keeps FiberSched's variables
and actions. `fut` holds the futures (addresses again), `flag` the cancel-flag
back-reference of each fiber (`Fiber.cancelFlag`), `call` the Io call a fiber is
in the middle of. The code between two switches is atomic on one thread, so
`await` is `AwaitParks` (everything up to the swap) and `AwaitEnds` (everything
after it, or all of it when it does not park); `race` is `RaceStarts`, then
`RaceParks`, `RaceSpins`, `RaceAborts` or `RaceWins` for the look at its futures,
`RaceResumes` for what follows the park, `RaceCancels` for the look at each remaining
future, which cancels it if it is still pending. `Async`,
`Cancel`, `WorkerSettles`, `IoSleep` and `IoSleepRaises` are one call each. The
users of a future follow its documented contract: awaited at most once, by one
fiber, not named afterwards. `Nested` says which of
`await` and `race` a task may call itself. **MCFiberIo** adds the symmetry of fibers and
of futures, **FiberIoProofs** holds the proofs.

**ThreadPool** models `std/thread.sx`. A critical section is two actions, the
acquisition of `mu` and its body up to the unlock or the wait; `pc` has a worker
asleep in `pthread_cond_wait`, woken, running a task, exited. Tasks call `submit`
themselves: a worker that runs one may take the lock at any moment. `setup` may
fail before any worker, or after any number of them, and then runs `deinit`
(`InitFails`, `StartFails`). `backlog` is auxiliary: the accepted tasks nobody
took yet. **Executor** is the promise, a bounded line of tasks each started once
and in order, closed only when all have returned; **ThreadPoolRefines** maps the
ring to it, **ThreadPoolProofs** holds the proofs.

**BodyChan** models one streamed request of the pooled server in
`std/http/server.sx`, from its complete headers to its answer or the close of its
connection. Five parties act: the peer, the loop, the worker that runs the
handler, the deadlines (branches of the loop) and `close`. The byte stream is a
sequence of elements: the numbered bytes of the body, whole pieces of chunked
framing, malformed framing, the end of a chunked body, and what the client
pipelines behind it. A Content-Length body is counted down, blind to what the
elements are, as in the code. `lpc` and `wpc` say where the loop and the worker
are; a critical section of the channel's mutex is one action, with the steps
around it that no other thread can observe.

| Code | Actions |
|---|---|
| `tryServeOne`, streaming branch | `Dispatch`, `Sheds` |
| `BodyChan.feed`, `finish`, `release` | the operators `Feed`, `Finish` |
| `BodyChan.read` | `CallsRead`, then `ReadSleeps`, `ReadTakes` and `ReadWakes`, or `ReadEnds`; `SpuriousWake` |
| `runHandlerJob`, `queueCompletion` | `JobStarts`, `HandlerReturns`, `JobReleases`, `Completes`, `Notifies` |
| `pumpBody` | `PumpFeeds`, `PumpFrame`, `PumpEnd`, `PumpJunk` (`bodyAbort`), `PumpDry`, `BodyPark`, `BodyEof` |
| `bodyReady`, `resumeBodyPumps` | `Receives`, `WouldBlock`, `PeerGone`, `PumpReads`, `PumpReturns`; `Resumes`, `ResumesNothing`, `PumpResumes`, `PumpCannotResume` |
| `tick`, `Loop.wait` | `Waits`, `HandlesRead`, `HandlesWake`, `SweepPasses`, `Evicts`, `HandlerTimeout` |
| `drainCompletions` | one `Drain...` action per fate of a completion |
| `writeMore` with `closeAfter`, `Server.close` | `CloseEnds`; `ServerCloses`, `Joined` |

The other connections of the server appear as `OtherWakes`. With one connection
the gate `bodyParkedN == 0` of `resumeBodyPumps` is `parked`. **BodyChanProofs**
holds the proofs.

**HttpPool** models the connections of the pooled server: slots, free list,
generations, dispatch, completions, `stop` and `close`. What one event, one
completion or one eviction makes the loop do is one action, unless it hands over to
a worker in the middle. `conn` says what a connection is doing, whether bytes wait
behind its request, and how it will close; what those bytes hold is open until they
are parsed (`Served`). The thread pool is an instance of **Executor**, which
ThreadPool implements: this is where the two meet. `dropped` is history: the jobs whose
completion found the queue full. **HttpPoolProofs** holds the proofs.

| Code | Actions |
|---|---|
| `acceptReady`, `tryServeOne`, `serveBuffered`, `readMore` | `Accepts`, `Reads`, `ReadsAhead`, over the outcomes `Served`, `Refused` |
| `writeMore`, `beginLinger`, `lingerDrain` | `Writes`, `Drains` |
| `pumpBody`, `resumeBodyPumps`, `resumeStreamPumps` | `PumpsBody`, `ResumesBody`, `ResumesStream`, `ResumeEnds` |
| `runHandlerJob`, `queueCompletion` on a worker | `Starts`, `Queues`, `WakesLoop`, `Returns` |
| `drainCompletions` | `HandlesWake`, then `Discards` or `Attaches` per completion, `DrainEnds` |
| `tick`, `sweepDeadlines` | `Waits`, `EventsEnd`, `Evicts`, `SweepEnds` |
| `stop`, `run`, `close` | `Stop`, `BeginsStop`, `RunReturns`; `ServerCloses`, `Joined` |

**Deadlines** models the times of the same connections. A slot has the state, the
two deadlines and the generation of the code's `Conn`; `hints` is the set of heap
entries, `hq` the deadline of a slot's live one. A handler of the loop that looks at
its deadline more than once is cut there (`at` says what is left of it), since the
clock moves in between. `Connection` is one handler's step, with the hint `Arm`
leaves; `Waits` computes how long the loop may sleep; `Pops` takes one due hint and
evicts, answers 408 or 504, or puts the hint back. **DeadlineHeap** puts the hints in
the array heap (`heapPush`, `heapPop`, with the sifts of the code) and implements
Deadlines with the array's entries as the set. **MCDeadlines** adds the symmetry of
slots, **DeadlinesProofs** holds the proofs.

**OutStream** models one streamed answer, from the handler that returned it to the
end of both sides: the `OutChan` with its buffer, its two kinds of fault and its
reference count, the worker that produces, the loop that writes. Bytes are numbers;
a chunk goes out whole.

| Code | Actions |
|---|---|
| `runHandlerJob`, `queueCompletion`, registration in `ochans` | `Queues` or `QueueIsFull`, `Notifies`, `Registers` or `AbortsLate` |
| the producer, `OutChan.feedAll` | `Pulls`, `PullsLast`, `Feeds`, `FeedSleeps`, `FeedWakes`, `FeedFails`, `Awakes` (spurious wakeups included) |
| `finishEof`, `finishFault`, `release` | `Finishes`, `FinishWakes`, `Unregisters`, `Releases` |
| `drainCompletions` | `Drains...`, `Attaches`, `AttachFails`, `Discards` |
| `writeMore`, `streamRefill` | `Writable`, `Sends`, `SendsLast`, `WriteBlocks`, `WriteFails`; `RefillsData`, `RefillsEnd`, `RefillFails`, `Pauses` |
| `resumeStreamPumps`, `sweepDeadlines`, `close` | `Resumes`, `ResumesNothing`; `Evicts`; `ServerCloses`, `Joined` |

**OutStreamProofs** holds the proofs.

**ClientPool** models the client's pool with the servers it talks to. `entries` is
the list of `ClientPool`, `conn` the two ends of each connection: what the server
has read, executed and answered, what of the answer is on the wire, whether it closed
or reset. A hop of `fetch` is a request with a number; `executed` and `lost` are
history: how often the server ran it, and whether the connection ended before the
client had read any of its answer.

| Code | Actions |
|---|---|
| `fetch` | `Fetches`, `Follows` (a redirect), `Raises` (too many), `Returns` |
| `hop`, `find`, `dialEntry`, `store`, `drop` | `Finds`, `Dials`, `DialFails`; `Fails(err)` is the drop of the entry with `Retries` as the test for the second attempt |
| `sendOn` | `Sends`, `SendsAll`, `SendFails` |
| `recvOn` | `ReadsInfo`, `ReadsHalf`, `ReadsHead`, `ReadsMore`, `ReadsBody`, `ReadsEnd`, `ReadsBadly`, `ReadsNothing` |
| `close` | `Closes` |
| a server (external) | `Executes`, `Answers`, `HangsUp` |

**ClientPoolProofs** holds the proofs.

Operators whose comment begins with "Broken" are deliberate faults, one per
property: with the fault in place of the definition it stands next to, TLC finds
that property violated. They show that the properties have teeth, and nothing
else refers to them.

## 3. What the runs check

| Run | Instance | Question |
|---|---|---|
| `sched_linux` | 3 fibers, 2 fds, sleeps of 0 and 1, clock to 1, 1 event per wait, epoll | Does FiberSched implement CoopSched (`CoopSpec`), and does a reader of readable input come back (`ReadersWake`)? |
| `sched_macos` | the same with kqueue, sleeps and clock to 2, 2 events per wait | Do timers and waiters name parked fibers only (`WakeSourcesParked`), and is the verdict of `run` right (`RunVerdict`)? |
| `pool` | 3 workers, ring of 2, 2 tasks | Is no wakeup lost (`NoLostWakeup`), does ThreadPool implement Executor (`PromiseKept`), does `deinit` return (`DeinitReturns`)? |
| `io` | 3 fibers, 2 futures, sleeps of 0 | Is nothing freed in use (`NothingFreedInUse`), is no cancelled task left parked (`CancelledNeverParked`), does await take only what was delivered (`AwaitSettled`), do await and race come back (`AwaitersReturn`)? |
| `io_nested_await` | the same with tasks that await | A comment on `await` that the code does not keep; section 6. |
| `body` | 3 bytes, channel of 1, reads of 2, socket of 2 | Is no parked watch forgotten (`ParkedIsResumed`), is the channel freed after its last use (`RefsCounted`), is the body delivered in order and its end told only at the end (`BytesInOrder`), is a kept connection clean (`KeptIsClean`), does `close` return (`JoinEnds`), and readBody (`ReadReturns`)? |
| `deadlines` | 2 slots, timeouts of 2 and 1, waits of 2, clock to 3 | Has every deadline a hint in time (`EveryDeadlineHinted`), does no wait go past one (`NeverOversleeps`), does a sweep evict exactly the late (`SweepsAreExact`)? |
| `deadline_heap` | 1 slot, 3 connections in turn, no handler timeout, clock to 4 | Is the heap a set of hints (`ImplementsDeadlines`), and is a late connection evicted (`LateIsEvicted`)? |
| `http_pool` | 2 slots, 1 worker, backlog of 1, 2 accepts | Is each dispatched request owed one answer, unless the completion queue was full, and a later one none of it (`OneAnswerOwed`), is the free list the free slots (`FreeListSound`), do answers come (`AnswersCome`), does `run` return after `stop` (`StopReturns`)? |
| `out_stream` | 5 bytes, channel of 3, pieces of 2 | Is the channel freed after its last use (`RefsCounted`), does an answer that was cut short show as such (`CutShortShows`), does the worker get away (`WorkerReturns`)? |
| `client_pool` | 2 origins, 1 redirect, 3 requests, 4 unread pieces | Is every open connection in the pool or in the hop (`PoolHoldsOpen`), does a connection at rest owe nothing (`RestingOwesNothing`), is a request executed twice only when its first answer was lost whole (`RepeatedOnlyIfLost`), does every fetch end if the answers do (`FetchEnds`)? |
| `client_repeat` | the same | A comment on the retry that the code does not keep; section 6. |

Type invariants (`TypeOK`) are checked by the runs of FiberSched, ThreadPool,
BodyChan, Deadlines, HttpPool, OutStream and ClientPool, one run each.

The bounds. `MaxClock` limits virtual time: sleeps past it are not taken. Two
instants are enough for a deadline before, at and after another; `sched_macos`
takes three. Three fibers give a list
with a middle, a fiber that runs while one is linked and one is parked, and an
address that is freed and used again while the others live; two fds give a batch
of two events, and a waiter list whose first entry goes. `MaxEv` is the code's
MAXEV (16 there, `std/sched.sx:67`): 2 lets a batch be partial or whole, 1 makes a second ready fd
wait its turn, which is what liveness needs. Two futures are a race with a loser, a
tie and an all-failed race, and a future created at a freed address while the other
is pending. A ring of two slots with three workers wraps, fills and empties, and has
two sleepers to choose between. `Fd` is empty in the FiberIo runs: futures and fds
meet only in `wake`, which the scheduler's own runs cover.

In BodyChan a channel of one byte makes feeds whole, short and empty; three bytes
let it fill, drain and fill again while more waits in `readBuf`, in the socket and
with the peer. `ReadCap` (a read of the socket) at two lets a read end between and
within runs of bytes. In OutStream a channel of three holds one piece and half of the
next: a feed is cut, sleeps and goes on, and five bytes are two whole pieces and a
short one.

In Deadlines the clock stops at `MaxNow` and a slot's generation at `MaxGen`: enough
for a hint of an earlier connection to come due during a later one, for a deadline
that moves back and forth past its hint, and for two slots that are late in the same
sweep. `deadline_heap` has one slot, whose stale entries are what fills the heap,
and three connections of it. In HttpPool one worker with a backlog of one has a
request running, one waiting and one shed; two slots and two accepts let a slot be
given away while its last request is still in the pool. The completion queue never
fills at these bounds (section 6), so `AnswersCome` is about runs without a drop, and
the case of a drop in `OneAnswerOwed` rests on its proof. In ClientPool three requests
are a fetch with a redirect and another that reuses what it left; two origins are a
redirect that changes the connection. `MaxUnread` limits what of an answer lies unread
on a connection: four pieces are an informational head, the two parts of a head and a
body, and a server that goes on answering writes as soon as the client has read.

## 4. Fairness

*Scheduler.* The loop is a sequential program, so its next step happens (weak
fairness of `Loop`). The scheduler is cooperative: a body that never gives the
thread back stops everybody, and the library says so; `Switches` being weakly
fair excludes that body and nothing else. When several fds stay ready, the wait
does not leave the same one out for ever (strong fairness per fd), which epoll
and kqueue deliver by rotating their ready lists.

*Futures.* The same, and a worker that gets the thread again and again settles in
the end (strong fairness of `WorkerSettles` per fiber): without it await may
rightly wait for ever. `AwaitersReturn` assumes that no worker races
(`WorkersDontRace`): a worker may race its own future, and spins once it is
cancelled (section 6). The virtual clock does not move in the run: a fiber that
sleeps 0 ms for ever would hold back every later deadline, in the code too.

*Pool.* Every thread is scheduled. A mutex that others keep taking is acquired in
the end (strong fairness of `Acquire`): POSIX does not promise it, the platforms
do deliver it, and without it `deinit` may wait for ever behind a task that
submits in a loop. A task returns even if it submits many times before
(strong fairness of `Finish`). Nobody is made to submit or to call `deinit`, and
nothing limits spurious wakeups.

*Body.* Loop and worker run (weak fairness of `Loop` and of `Worker`), and a
handler that reads again and again returns in the end (strong fairness of
`HandlerReturns`). The peer owes nothing. `JoinEnds` assumes no
deadline at all, so it is owed to the wakeups alone; the loop may close a
connection by a deadline, but never has to. `ReadReturns` assumes in addition that
a body whose deadline keeps passing is evicted and a last response is given up
(`DeadlinesPass`), which the server's default timeouts provide; without them a
reader whose peer stays silent rightly waits.

*Deadlines.* The clock goes on and the loop runs. A response stops being written in
the end, because it is complete or the socket is full, and the requests already in a
buffer come to an end (`BufferEnds`): the loop serves them without looking at the
clock, so `LateIsEvicted` needs that they are finitely many.

*Server slots.* The loop and the workers run and handlers return. A wait reports
finitely many events, so its batch ends and the wake in it is handled (strong
fairness of `HandlesWake` and `EventsEnd`). The drain of `stop` has a deadline, which
is `RunReturns`. Clients owe nothing, and no deadline has to pass.

*Output channel.* The same for worker and loop, and a connection that is paused on
its socket is evicted in the end (`Stalled`), which is `timeoutRequestMs`.

*Client.* The client's thread runs (weak fairness of `Fetching`). With both timeouts
of `ClientOpts` set, every connect, write and read ends; servers owe nothing. That is
not enough for a fetch to end: the timeout is "per OPERATION, not per response"
(`std/http/client.sx:61-63`), and `recvOn` reads on for as long as pieces of an answer
come. `maxResponseBytes`, unbounded by default, bounds a head and a body; it does not
bound informational heads, each of which is dropped with its bytes before the next is
counted (`client.sx:967-974`), so that a server that goes on sending them holds the
fetch for ever under any options. The servers of the model may do all of that, and
`FetchEnds` therefore has a premise, `AnswersEnd`: the reads after which `recvOn` goes on
reading are finitely many. Without it TLC finds a fetch that never ends, and also with
a premise about informational heads alone or about heads and bodies alone. What is
left for `FetchEnds` to show is the client's own part: that neither the retry nor a
redirect, under any order of faults, leads back to a dial, a write or a read for ever.

## 5. What is proved

The proofs hold for every value of the constants: any finite set of fibers, any
fds, durations and batch size, either kernel; any number of workers from one up,
any capacity, any tasks; any number of slots and any timeouts, zero included; any
finite set of origins. They
assume only what the modules' ASSUMEs say: `Null`
is no fiber and `None` no job, fibers, workers and origins are finitely many and there is
an origin, durations are natural, `Os` is one of the two; the owner is not a worker. Where a proved invariant is not among the properties
of a run, it is because a run's property fails with it (a wrong count, for one, shows
in `RunVerdict`): the proof is then all that says it, and it is stronger.

*FiberSchedProofs.* The invariant is in two parts. `SInv` conjoins the shapes, one
thread, the list, the sources and the counter, and says nothing of time; `Timely` says
that the timers are ahead of the clock. They are apart because `io.sleep` also arms
deadlines that have passed (section 6): `SInv` holds all the same, for deadlines that
are any integers, and FiberIoProofs uses it; `IInv` is both together. None of the parts
of `SInv` is inductive alone. That `SwitchedBack` may link a
fiber needs it not to be linked yet, which is `QueuedIffReady`, which needs that
only `current` can be ready and unlinked, which is `OneThread`. That a source
taken out of its list leaves no second one for the same fiber needs uniqueness in
both lists, since `wake` evicts one entry per list. That a wake keeps the counter
needs finiteness and that the fiber was parked. The proof has a lemma per shape of
change (a fiber linked at the tail, the head taken off, a record removed, a wake)
and a step per action. From `IInv`: `TypeCorrect`, `ThreadIsOne`, `ListIsWhole`,
`SourcesNeverDangle`, `CountIsRight`, `WaitersNeverStranded`, and the two action
properties `TimeIsMonotone` (the earliest deadline is never behind the clock) and
`VerdictIsRight` (at an empty list, with no timer and no waiter, the counter is
zero exactly when every fiber was reaped).

`SchedIsCooperative` proves `CoopSpec`: every step is a step of CoopSched or leaves its
variables alone, with one lemma per action. The hard part is the agenda. A list of
timers has at most one order of firing (`FiringOrderUnique`: take the first place where
two orders differ), so that what a step does to the agenda can be computed from any
order at hand. That there is one (`Sortable`) is not proved by sorting but kept: a timer
taken out leaves the order of the others (`AgendaWithout`), a new one goes after
everyone due no later (`AgendaAppend`), and the earliest by the code's scan, the first
of equals, is the head (`EarliestIsHead`). The invariant `RInv` adds to `SInv` that the
timers are sortable and that while a batch of events is handled nobody sleeps and what
was reported is still readable (`Batched`), without which a reader could come back
before a sleeper.

*FiberIoProofs.* For any fibers and futures, any durations passed to `io.sleep`,
negative ones included, and whatever workers call themselves, unless said otherwise.
`IoInv` lies over `SInv`. It says that a fiber with a cancel flag is the worker of that
future, which is still there and names it as its task, until it has settled it
(`FuturesInUse`, `PendingHasWorker`); what each call has in hand (`CallsWhole`); that no
two fibers wait for one future (`Exclusive`) and that a future somebody waits for has
his handle (`Enlisted`); how a future left "pending" (`Outcome`). The last three are what
makes the others inductive: a worker that settles wakes the handle in the park slot, and
it must be that of the one fiber for which the future is kept. Where no worker awaits,
`AwaitSleeps` adds that an await sleeps until its worker is through, since nobody else
has its handle and no cancel reaches it, and that a race that looks at its futures has
taken its handle back. From it: `NothingIsFreedInUse`, `CancelNeverMissesAPark` and
`AwaitTakesWhatSettled`. The last assumes that no worker awaits, and the park slots are
claimed by `NothingFreedInUse` under the same condition; `io_nested_await` and section 6
show that both are needed.

*ThreadPoolProofs.* Its `IInv` adds to the five invariants the shape of a critical
section (who can hold `mu`), that workers are started and joined in order, and
that no worker is outside the pool once it was counted. `RingIsTheBacklog` rests
on arithmetic modulo the capacity; `NoWakeupIsLost` counts the awake workers
without a task, and is kept by `Take` because a worker that takes a task lowers
both sides. `PoolIsExecutor` proves `PromiseKept`: every step of the pool is a step of the
executor or leaves its three variables alone.

*BodyChanProofs.* For any length of the body, capacity of the channel and size of a
read, from their being positive. `IInv` adds to the type invariant a description of
what each state of the slot has (`SlotShape`), of what holds at each point of the
loop (`LoopShape`), of the one stretch where a hungry connection is not watched,
inside `resumeBodyPumps` (`WatchShape`), of the channel (`ChannelShape`: stalled
only while full, no reader without slot or end) and of a completion that is on its
way (`Answered`). `NoParkIsForgotten` is inductive only from the moment of the
short feed, before the watch is parked (`ParkShape`): a worker cannot sleep or
finish reading in between, because a stalled channel is full, and a worker that
has already left has a wakeup under way. `LoopAndReaderNeverStuck` combines nearly
all parts. The lemmas go thread by thread, one step per action. `BodyArrivesInOrder`
and `KeptConnectionIsClean` rest on a second invariant, `Bytes`, kept by steps that keep
`IInv`. What lies before the decoder, in the read buffer and on the wire, is a `Stream`:
it goes on with the byte after the last one that was fed, in order, among framing that
the decoder skips, and what ends the body lies behind the last byte the peer sends. The
lemmas about streams are of three kinds: an element is appended, a prefix is taken off,
the rest is cut by a reset. `FrontIsNext` is the hard one: a run of bytes at the front
is the next run of the body, and so are as many elements as a Content-Length has left,
although the decoder does not look at them; it takes the first place where that fails,
hence `Least`. That the loop may lose what it holds once the body is given up needs
no account: from then on nothing is fed, and `drained`, without which no connection is
kept, is never set before the end of the body.

*DeadlinesProofs.* `IInv` conjoins the type invariant, what the middle of a handler
implies about its slot (`AtFits`), that the live hint of a slot is in the set and
a free slot has none (`LiveHinted`), that a deadline that counts is not before the live
hint (`Covered`), and `NeverOversleeps`. A hint that is popped must be of another
generation, or a repetition, or the live one: only the last may be needed, and the
sweep then evicts or makes a new one (`ArmCovers` is the lemma for everything that
sets a deadline). From it: `DeadlinesAreHinted`, `LoopNeverOversleeps`, and
`SweepExact`, that a sweep step evicts exactly connections that are late and that it
ends only when none is. `HeapImplementsDeadlines` proves `ImplementsDeadlines`: a step with the
array heap is a step with the set of its entries. Its invariant `HeapInv` is the order
of the array, its types, and the types of the deadlines, which must be
comparable. The loops of the sifts have their lemma (`AfterIs`): what holds of the start and
goes from each turn to the next holds after the last one. For a sift that is that the
entries are the same, that at most the entry that moves is out of order (`UpTo`,
`DownTo`), and how far it has come, which is why as many turns as there are places are
enough. So `heapPush` adds one entry (`PushIs`), `heapPop` takes out the top
and no other, so that the set of entries loses it or, if it was there twice, nothing
(`RestIs`), and the top of
an ordered array is a least entry (`TopIsLeast`, by the first place where one would be
smaller). The three invariants above hold of DeadlineHeap through this refinement.

*OutStreamProofs.* For any length of the response, capacity and size of a piece. `IInv`
adds to the type invariant and `RefsCounted` what the places of worker and loop say of
the connection (`Shape`) and of the producer (`Producing`: the channel's `eof` means
that nothing is left to feed), and an account of every byte (`InOrder`, `OnItsWay`): the
producer's count is what the client has, what the connection is writing, what the
channel holds and what the worker has still to feed, in that order. The account
survives every fault, because an aborted channel keeps its bytes and a closed
connection sends nothing more. From it `ReferencesAreCounted` and `TruncationShows`.

*ClientPoolProofs.* For any finite set of origins that is not empty, any number of
redirects, of requests and of unread pieces. Three invariants, one after the other. `PInv` is about who
holds what: types, live entries apart in origin and connection (`Apart`), open
connections exactly those of live entries (`HoldsAll`), what each place of `fetch` and
`hop` says of the entry in use (`Held`), and the redirects a fetch has left (`Budget`).
What `find` and `store` return is the least index of a set, which exists by the library's
theorem on well-founded relations (`Least`). `AInv` adds that the connections not in
use rest (`Resting`) and what the one in use may carry, for its request and for what was
read of its answer (`Answered`): a piece that completes an answer is the last on its wire.
`CInv` counts executions (`Counted`): a request not yet sent has none, and the second
attempt of one starts with an execution only if the first answer was lost whole.
`DialFindsRoom` is about the model and not the client: a pool that dials holds no
connection of the origin, so that by the pigeonhole principle one connection for each
origin is enough, and the number of connections of the model hides no behaviour.

*HttpPoolProofs.* For any number of slots, backlog and connections and any finite set of
workers. `SInv` has the slots: their types, that only a response under way closes its
connection (`Sound`), `FreeListSound`, and the connections accepted. `SlotsAreFreeOnce`
comes down to `Stacked`, by which several slots that close in one step lie on the free
list in the order of their closing: the places of a finite set are a bijection with its
members. `QInv` has the types of loop, queues and workers. `OneAnswer` counts
a job over four places, `line`, `done`, `todo` and the workers that execute it, and needs
more than the property says (`OwedAt`): that a generation to come was never dispatched,
so that a slot that is taken again starts from nothing, and that a free slot or a
connection that may serve its next request is owed nothing. The steps of the loop are of
two kinds, those that may dispatch (`MayServe`, from a connection that is owed nothing)
and those that cannot (`Quiet`), and a step of either kind needs one argument for all
its outcomes. A completion that is attached takes the one answer that was owed; one that
is discarded, or finds no room, belongs to a generation that is gone or to a request
that timed out, or is `dropped`.

*Only model-checked:* liveness under fairness (`ReadersWake`, `AwaitersReturn`, `DeinitReturns`,
`JoinEnds`, `ReadReturns`, `LateIsEvicted`, `AnswersCome`, `StopReturns`,
`WorkerReturns`, `FetchEnds`), which is out of the prover's reach. The action lists of
section 2 are the ones TLC and the proofs share: the proofs are about the same modules
the runs instantiate.

## 6. Where code and comments disagree

* `io_nested_await`. `await` drops the error of `suspendRaw` with the remark
  "cancellation surfaces via `f.canceled` below" (`std/io.sx:123`). That is the flag
  of the *awaited* future. If the awaiting fiber is itself a cancelled task,
  `suspendRaw` raises without parking, and await returns the never-written `value`
  of a future that is still pending, without an error.
* `client_repeat`. The retry of the client "only [happens] when the request provably
  never executed — a SEND fault, or the peer closing before any response byte"
  (`std/http/client.sx:1159-1161`, also 42-46). A server that executes the request and
  closes before a byte of its answer arrives gives the same signature, and the
  request is executed twice. `RepeatedOnlyIfLost` is what does hold.

Five more were met while modelling and proving, and have no run of their own:

* `race` says "The coordinator is the user's fiber (no cancel
  flag), so `suspendRaw` never raises here" (`std/sched.sx:1124`). A task may race
  as well; once cancelled, its race loops without giving up the only thread. This is
  `RaceSpins`, and why `AwaitersReturn` has its assumption.
* "Virtual time only moves forward" (`std/sched.sx:308`), and
  `Scheduler.sleep` rejects negative durations for that reason. `io.sleep`
  (`std/io.sx:149`) reaches the clock through `armTimer`, which does not: a negative
  duration takes the clock back. `TimeIsMonotone` is about FiberSched, whose durations
  are natural as `Scheduler.sleep` makes them; FiberIo lets `io.sleep` pass any
  integer, and what is proved of it holds nevertheless.
* "Only a genuinely parked fiber may be re-enqueued" (`std/sched.sx:261`): `wake` looks at
  the state of the fiber it is given, and does not ask whether it is parked where the
  handle was stored. `race` takes its handle out of every slot, so that nobody will
  "`ready` a coordinator that has since moved on" (`sched.sx:1100`); await does not.
  A task that awaits and is itself cancelled wakes and goes on with its handle still in
  `f.park`, and when the awaited worker settles it makes ready a fiber that is parked
  elsewhere by then, or was reaped. `SlotsInUse` therefore speaks of schedulers where no
  worker awaits.
* The comment on the lingering close lists 504 among the error answers that linger
  (`std/http/server.sx:271`). The 504 of `sweepDeadlines` is serialized
  and written without setting `lingerClose`, and closes like any last response.
  HttpPool and Deadlines follow the code.
* "A full queue can only mean the sizing invariant broke" (`server.sx:780`), and the
  size is justified by "every conn has at most ONE job in flight" (`server.sx:1577`). A
  connection has, a slot has not: handlers whose connections ended still hold a
  worker or a place in the backlog, and their slots are accepted and dispatch again
  before the next drain. With two slots, a backlog of one, one worker and five
  connections the queue can fill, in some fifty steps and in a state space too large
  for a run here. HttpPool and OutStream keep the code's branch for a full
  queue, `OneAnswerOwed` allows for it, and no property claims that it is never taken.

With `Nested` without "await", which is how the library's own programs use it, the
properties hold (`io`, where tasks may race), and the safe ones are proved.

## 7. What is not modelled

* Stacks, registers, guard pages and the trampoline (`swapContext`, `bootStack`):
  assembly. The failures of `mmap`, `mprotect`, allocation, `epoll_wait` and
  `kevent`, which abort.
* The closing of an fd that a fiber waits for, which the library leaves to callers.
* `Scheduler.yieldNow`, `sleep`, `suspendSelf` and `blockOnFd` called from a task
  of FiberIo; a scheduler that is gone while futures remain; more than two
  futures in a race; a race outside a fiber, which only a finished future survives;
  two fibers on one future, against its contract; `CBlocking`.
* `spawn` ids and names, statistics, the allocators' failures.
* The server on fibers (`std/http/server.sx` has a second mode with a fiber per
  connection), TLS handshakes but for their deadline, upgrades, the response's headers
  and codings, `Expect: 100-continue`, statistics and events.
* In BodyChan: other connections but for their wakeups, hence slots, generations
  and the counter `bodyParkedN`; a piece of framing that is split between two reads,
  whose first half waits in `readBuf`; the streaming of the answer (OutStream) and the
  lingering close (HttpPool); `stop`. What a connection does after its answer is
  the next request's.
* In HttpPool: the clock (any deadline may pass at any sweep, Deadlines has the
  times); the watches of a connection that is about to close. A stale event of a
  batch, whose fd was closed and opened again before it is handled, is a readiness like any
  other: sockets are nonblocking, and `tick` compares the fd (`server.sx:1890`).
* In Deadlines: a connection's `OutChan` and the drain of `stop`, whose time is not
  in the heap.
* In OutStream: the failed allocation of a channel, and compression, which is a
  producer like another.
* In ClientPool: credentials and headers of a hop; TLS, where a reset is reported as
  `Recv` and never retried; servers that send more than they announced; the free
  functions `fetch`, `request`, `send` and `recv`, which keep no connection.
* `deinit` of a scheduler while futures are pending (`std/sched.sx:561`): the library
  leaves it to the caller, and the hazard list names it.
* The parts listed as not modelled in PROJECT.json: WebSocket, the readiness loop,
  containers, codecs, UI, and the compiler. Codecs
  and the compiler's passes are sequential functions over large inputs, whose
  properties are about languages and formats.

How much of the repository this is. Of its half million lines of implementation more
than four hundred thousand are C, nearly all vendored (SQLite, mbedTLS, text and image
libraries), and most of the rest is the compiler. The models cover the
concurrent files of the standard library, `std/sched.sx`, `std/io.sx`, `std/thread.sx`
and the parts of `std/http/server.sx`, `std/http/wire.sx` and `std/http/client.sx`
that keep state between two steps.

## 8. Plan

Every safety property of a passing run and every refinement is proved; liveness stays
with TLC.

Modules still to be written, each with a question of its own:

* EventLoop (`std/event.sx`): the registration table against the kernel's, batches
  with stale events.
* WsClose (`std/http/websocket.sx`): both ends start the closing handshake at once, a
  ping crosses a close, the connection ends in between.
* Worklist (`src/src/`): the compiler's expansion order; an answer once given
  stays true, quiescence with parked work is a real cycle.
* FiberServer: the server's second mode over CoopSched.

The suite is kept to a dozen runs and about forty properties, so that all of it is
run after every change. A new module's run therefore takes the place of another: once
proved, the invariants of `deadlines` and `pool` need no run of their own beside their
refinements.
