------------------------------ MODULE HttpPool ------------------------------
(***************************************************************************)
(* The connections of the pooled HTTP server, std/http/server.sx: slots    *)
(* that are taken and given back, requests that go to the thread pool and  *)
(* come back as completions, the ends of a connection, stop and close.     *)
(*                                                                         *)
(* A slot has a generation, and a job carries the slot and the generation  *)
(* it was made for: by the time its completion is drained, the connection  *)
(* may be gone and the slot another's.  The pool is what Executor promises *)
(* (ThreadPool shows that thread.Pool keeps it).                           *)
(*                                                                         *)
(* The bytes of a connection are abstracted to whether any are buffered    *)
(* behind the request being served, and what they hold is open until they  *)
(* are parsed; a deadline may pass at any sweep (Deadlines has the clock). *)
(* The loop is one thread: what it does for one event, one completion or   *)
(* one eviction is one action, unless it hands over to a worker in the     *)
(* middle.  The watches of a connection that is about to close are not     *)
(* told apart, TLS and upgrades are left out.                              *)
(***************************************************************************)
EXTENDS Integers, Sequences, FiniteSets

CONSTANTS
  MaxConn,    \* slots
  Backlog,    \* threadPoolBacklog
  Worker,     \* threadPoolCount of them
  None,       \* no job
  MaxAccepts  \* a bound of the model on the connections accepted

ASSUME SizesAssumption ==
  MaxConn \in Nat \ {0} /\ Backlog \in Nat \ {0} /\ MaxAccepts \in Nat

Slot == 0..(MaxConn - 1)

Job == [slot : Slot, gen : Nat]

ASSUME WorkersAssumption == IsFiniteSet(Worker) /\ None \notin Job

\* Completions the queue holds.
DoneCap == MaxConn + Backlog + Cardinality(Worker)

VARIABLES
  \* the slots
  conn,       \* what a connection is doing, see Conn
  gen,
  free,       \* the free list, its head first
  \* the loop
  phase,      \* "tick", "events", "drain", "resume", "sweep"; "returned" from
              \* run, "join" and "closed" in close
  woken,      \* the wait has reported the wake, which is still to be handled
  todo,       \* drainCompletions: the completions it has copied
  scan,       \* resumeBodyPumps, resumeStreamPumps: the slots to look at
  run,        \* "serving", "draining"
  stopping,
  \* shared with the workers
  pool, line, busy,   \* the executor
  wpc,        \* what a worker does: "idle", "handler", "waking", "pumping"
  done,       \* PoolState.done
  dropped,    \* history: the jobs whose completion found it full
  wakeFd      \* the eventfd is signalled

slots == <<conn, gen, free>>
executor == <<pool, line, busy>>
workers == <<wpc, done, dropped>>
loop == <<phase, woken, todo, scan, run>>
vars == <<slots, loop, executor, workers, wakeFd, stopping>>

Pool == INSTANCE Executor
          WITH phase <- pool, Cap <- Backlog, Task <- Job, Null <- None

-----------------------------------------------------------------------------
(* A connection. *)

Conn ==
  [state : {"free", "reading", "handling", "body", "writing", "keepalive", "linger"},
   bytes : BOOLEAN,                    \* input is buffered behind the request in service
   closing : {"no", "close", "linger"},  \* closeAfter, and with lingerClose
   stream : {"no", "on", "waiting"}]   \* streaming, and with streamWaiting

In(state, bytes) == [state |-> state, bytes |-> bytes, closing |-> "no", stream |-> "no"]

Free == In("free", FALSE)

\* What writeMore may make of c when its response goes out to the end and the
\* connection closes: at once, or after a linger that may itself end at once.
Ending(c) == IF c.closing = "linger" THEN {In("linger", FALSE), Free} ELSE {Free}

\* What writeMore may make of c before its response is out: the socket is full,
\* the worker's stream has nothing yet, or the peer is gone.
Unsent(c) ==
  {[c EXCEPT !.state = "writing"], Free}
    \union (IF c.stream = "no" THEN {}
            ELSE {[c EXCEPT !.state = "writing", !.stream = "waiting"]})

\* sendErrorClose
Refused ==
  LET c == [state |-> "reading", bytes |-> FALSE, closing |-> "linger", stream |-> "no"] IN
  Unsent(c) \union Ending(c)

\* serveBuffered: the bytes are not a whole request yet, they are refused (also
\* with 503, when the pool has no room), or the request is dispatched, before
\* its body has come or after.
Served ==
  {In("reading", TRUE)} \union Refused
    \union {In(st, b) : st \in {"handling", "body"}, b \in BOOLEAN}

\* writeMore
Written(c) ==
  Unsent(c) \union
    (IF c.closing # "no" THEN Ending(c)
     ELSE IF c.bytes THEN Served
     ELSE {In("keepalive", FALSE)})

-----------------------------------------------------------------------------
(* The slots. *)

\* Broken: a job only knows its slot.
SlotOf(s) == [slot |-> s]

JobOf(s) == [slot |-> s, gen |-> gen[s]]

\* The slots of ss as they lie on the free list when they were put at its head in
\* the order of their indices.
Stacked(ss) ==
  LET place(s) == Cardinality({t \in ss : t >= s}) IN
  [i \in 1..Cardinality(ss) |-> CHOOSE s \in ss : place(s) = i]

\* connClose of each slot in ss, in the order of their indices.
Closes(ss) ==
  /\ conn' = [s \in Slot |-> IF s \in ss THEN Free ELSE conn[s]]
  /\ gen' = [s \in Slot |-> IF s \in ss THEN gen[s] + 1 ELSE gen[s]]
  /\ free' = Stacked(ss) \o free

\* Slot s comes out as one of outcomes.
Becomes(s, outcomes) ==
  \E c \in outcomes :
    IF c.state = "free" THEN Closes({s})
    ELSE conn' = [conn EXCEPT ![s] = c] /\ UNCHANGED <<gen, free>>

\* A step that may serve a request that is buffered: dispatching it takes room
\* in the pool.
Serves(s, outcomes) ==
  /\ Becomes(s, outcomes)
  /\ IF conn'[s].state \in {"handling", "body"}
       THEN Pool!Accept(JobOf(s))
       ELSE UNCHANGED executor

-----------------------------------------------------------------------------
(* The events of a wait, other than the wake.  Which fds are ready is open, so  *)
(* an event is chosen when it is handled; that of an earlier connection of the  *)
(* slot, or of its fd, meets whatever the slot is now.  A slot that is free or  *)
(* with a worker ignores its events.                                            *)

Handles(s) ==
  /\ phase = "events"
  /\ UNCHANGED <<loop, workers, wakeFd, stopping>>

\* readMore, between requests and in the middle of one.  No bytes may have come:
\* the event may be that of an earlier connection with the same fd.
Reads(s) ==
  /\ Handles(s)
  /\ conn[s].state \in {"reading", "keepalive"}
  /\ Serves(s, Served \union {Free, In("reading", conn[s].bytes)})

\* readMore while a response is under way only buffers; past the buffer's limit it
\* gives the connection up.
ReadsAhead(s) ==
  /\ Handles(s)
  /\ conn[s].state = "writing"
  /\ Becomes(s, {Free, [conn[s] EXCEPT !.bytes = TRUE],
                 [conn[s] EXCEPT !.bytes = FALSE, !.closing = "linger"]})
  /\ UNCHANGED executor

Writes(s) ==
  /\ Handles(s)
  /\ conn[s].state = "writing" /\ conn[s].stream # "waiting"
  /\ Serves(s, Written(conn[s]))

\* bodyReady: more of the body, the end of it, or the peer is gone.
Pumped(s) == {conn[s], Free} \union {In("handling", b) : b \in BOOLEAN}

PumpsBody(s) ==
  /\ Handles(s)
  /\ conn[s].state = "body"
  /\ Becomes(s, Pumped(s))
  /\ UNCHANGED executor

\* lingerDrain
Drains(s) ==
  /\ Handles(s)
  /\ conn[s].state = "linger"
  /\ Becomes(s, {conn[s], Free})
  /\ UNCHANGED executor

Active == {s \in Slot : conn[s].state # "free"}

\* The connections there have been: every one of them ends by a connClose.
Accepted ==
  Cardinality({c \in Slot \X (0..MaxAccepts) :
                 c[2] < gen[c[1]] \/ (c[2] = gen[c[1]] /\ c[1] \in Active)})

\* Broken: the head is taken before the socket is ready to be served.
AcceptLeaks ==
  /\ phase = "events" /\ run = "serving" /\ free # <<>>
  /\ Accepted < MaxAccepts
  /\ conn' \in {conn, [conn EXCEPT ![Head(free)] = In("reading", FALSE)]}
  /\ free' = Tail(free) /\ gen' = gen
  /\ UNCHANGED <<loop, executor, workers, wakeFd, stopping>>

\* acceptReady takes connections while there are slots: freeSlot pops the head, and a
\* socket that cannot be watched gives it back.
Accepts ==
  /\ phase = "events" /\ run = "serving" /\ free # <<>>
  /\ Accepted < MaxAccepts
  /\ LET s == Head(free) IN
     \/ /\ conn' = [conn EXCEPT ![s] = In("reading", FALSE)]
        /\ free' = Tail(free) /\ gen' = gen
     \/ /\ gen' = [gen EXCEPT ![s] = @ + 1]
        /\ UNCHANGED <<conn, free>>
  /\ UNCHANGED <<loop, executor, workers, wakeFd, stopping>>

-----------------------------------------------------------------------------
(* The completions. *)

\* drainCompletions copies the queue under its lock, once per wake,
HandlesWake ==
  /\ phase = "events" /\ woken
  /\ woken' = FALSE
  /\ todo' = done /\ done' = <<>>
  /\ phase' = "drain"
  /\ UNCHANGED <<slots, scan, run, executor, wpc, dropped, wakeFd, stopping>>

\* Broken: whoever has the slot now gets the response.
WaitsForAny(j) == conn[j.slot].state \in {"handling", "body"}

\* The completion of j still has its connection.
WaitsFor(j) ==
  /\ conn[j.slot].state \in {"handling", "body"}
  /\ gen[j.slot] = j.gen

\* drops a completion nobody waits for,
Discards ==
  /\ phase = "drain" /\ todo # <<>> /\ ~WaitsFor(Head(todo))
  /\ todo' = Tail(todo)
  /\ UNCHANGED <<slots, phase, woken, scan, run, executor, workers, wakeFd, stopping>>

\* and starts to write the response, which may end or keep the connection.  An
\* answer to an unfinished body ends it.
Answers(c) ==
  {[state |-> "reading",
    bytes |-> c.bytes /\ c.state = "handling",
    closing |-> cl,
    stream |-> st] :
     cl \in (IF c.state = "body" THEN {"linger"} ELSE {"no", "close"}),
     st \in {"no", "on"}}

Attaches ==
  /\ phase = "drain" /\ todo # <<>> /\ WaitsFor(Head(todo))
  /\ LET s == Head(todo).slot IN
     Serves(s, {Free} \union UNION {Written(c) : c \in Answers(conn[s])})
  /\ todo' = Tail(todo)
  /\ UNCHANGED <<phase, woken, scan, run, workers, wakeFd, stopping>>

\* Broken: the eventfd is emptied once more.
DrainEmptiesWake ==
  /\ phase = "drain" /\ todo = <<>>
  /\ phase' = "resume"
  /\ scan' = {s \in Slot : conn[s].state = "body" \/ conn[s].stream = "waiting"}
  /\ wakeFd' = FALSE
  /\ UNCHANGED <<slots, woken, todo, run, executor, workers, stopping>>

DrainEnds ==
  /\ phase = "drain" /\ todo = <<>>
  /\ phase' = "resume"
  /\ scan' = {s \in Slot : conn[s].state = "body" \/ conn[s].stream = "waiting"}
  /\ UNCHANGED <<slots, woken, todo, run, executor, workers, wakeFd, stopping>>

Scans(s) ==
  /\ phase = "resume" /\ s \in scan
  /\ scan' = scan \ {s}
  /\ UNCHANGED <<phase, woken, todo, run, workers, wakeFd, stopping>>

\* resumeBodyPumps
ResumesBody(s) ==
  /\ Scans(s)
  /\ conn[s].state = "body"
  /\ Becomes(s, Pumped(s))
  /\ UNCHANGED executor

\* resumeStreamPumps
ResumesStream(s) ==
  /\ Scans(s)
  /\ conn[s].state = "writing" /\ conn[s].stream = "waiting"
  /\ Serves(s, Written([conn[s] EXCEPT !.stream = "on"]))

ResumeEnds ==
  /\ phase = "resume" /\ scan = {}
  /\ phase' = "events"
  /\ UNCHANGED <<slots, woken, todo, scan, run, executor, workers, wakeFd, stopping>>

-----------------------------------------------------------------------------
(* The rest of the tick, run, stop and close. *)

InFlight ==
  \/ \E s \in Slot : \/ conn[s].state \in {"writing", "handling", "body"}
                     \/ conn[s].state = "reading" /\ conn[s].bytes
  \/ done # <<>>

\* The wait reports the wake and the fds that are ready, or nothing when it times
\* out, and the eventfd is emptied.
Waits ==
  /\ phase = "tick"
  /\ (run = "serving" /\ ~stopping) \/ (run = "draining" /\ InFlight)
  /\ woken' = wakeFd /\ wakeFd' = FALSE
  /\ phase' = "events"
  /\ UNCHANGED <<slots, todo, scan, run, executor, workers, stopping>>

EventsEnd ==
  /\ phase = "events" /\ ~woken
  /\ phase' = "sweep"
  /\ UNCHANGED <<slots, woken, todo, scan, run, executor, workers, wakeFd, stopping>>

\* What sweepDeadlines makes of a connection that is late: 504 over the head of
\* the worker, 408 for a partial request, nothing for the others.
Late(c) ==
  IF c.state = "handling"
    THEN LET r == [In("writing", FALSE) EXCEPT !.closing = "close"] IN
         Unsent(r) \union Ending(r)
  ELSE IF c.state = "reading" /\ c.bytes THEN Refused
  ELSE {Free}

Evicts(s) ==
  /\ phase = "sweep"
  /\ conn[s].state # "free"
  /\ Becomes(s, Late(conn[s]))
  /\ UNCHANGED <<loop, executor, workers, wakeFd, stopping>>

SweepEnds ==
  /\ phase = "sweep"
  /\ phase' = "tick"
  /\ UNCHANGED <<slots, woken, todo, scan, run, executor, workers, wakeFd, stopping>>

\* stop, from another thread.
Stop ==
  /\ ~stopping
  /\ stopping' = TRUE /\ wakeFd' = TRUE
  /\ UNCHANGED <<slots, loop, executor, workers>>

Idle(s) ==
  \/ conn[s].state \in {"keepalive", "linger"}
  \/ conn[s].state = "reading" /\ ~conn[s].bytes

\* beginStop
BeginsStop ==
  /\ phase = "tick" /\ run = "serving" /\ stopping
  /\ run' = "draining"
  /\ Closes({s \in Slot : Idle(s)})
  /\ UNCHANGED <<phase, woken, todo, scan, executor, workers, wakeFd, stopping>>

\* Broken: run waits for the last request, however long it takes.
RunWaits ==
  /\ phase = "tick" /\ run = "draining" /\ ~InFlight
  /\ phase' = "returned"
  /\ Closes(Active)
  /\ UNCHANGED <<woken, todo, scan, run, executor, workers, wakeFd, stopping>>

\* The requests are answered, or shutdownTimeoutMs is over.
RunReturns ==
  /\ phase = "tick" /\ run = "draining"
  /\ phase' = "returned"
  /\ Closes(Active)
  /\ UNCHANGED <<woken, todo, scan, run, executor, workers, wakeFd, stopping>>

\* Server.close, after run or after a tick of the caller's own,
ServerCloses ==
  /\ phase = "returned" \/ (phase = "tick" /\ run = "serving" /\ ~stopping)
  /\ Pool!Close
  /\ phase' = "join"
  /\ UNCHANGED <<slots, woken, todo, scan, run, workers, wakeFd, stopping>>

\* and after the pool is joined.
Joined ==
  /\ phase = "join"
  /\ Pool!Closed
  /\ Closes(Active)
  /\ done' = <<>>
  /\ phase' = "closed"
  /\ UNCHANGED <<woken, todo, scan, run, wpc, dropped, wakeFd, stopping>>

Closed == phase = "closed" /\ UNCHANGED vars

-----------------------------------------------------------------------------
(* A worker: runHandlerJob. *)

Starts(w) ==
  /\ Pool!Start(w)
  /\ wpc' = [wpc EXCEPT ![w] = "handler"]
  /\ UNCHANGED <<slots, loop, done, dropped, wakeFd, stopping>>

\* queueCompletion, up to the unlock: a full queue drops it.
Queues(w) ==
  /\ wpc[w] = "handler"
  /\ IF Len(done) < DoneCap
       THEN done' = Append(done, busy[w]) /\ UNCHANGED dropped
       ELSE dropped' = dropped \union {busy[w]} /\ UNCHANGED done
  /\ wpc' = [wpc EXCEPT ![w] = "waking"]
  /\ UNCHANGED <<slots, loop, executor, wakeFd, stopping>>

WakesLoop(w) ==
  /\ wpc[w] = "waking"
  /\ wakeFd' = TRUE
  /\ wpc' = [wpc EXCEPT ![w] = "pumping"]
  /\ UNCHANGED <<slots, loop, executor, done, dropped, stopping>>

\* The stream is fed to its end, if there is one; it wakes the loop once more when
\* the loop waits for it.
Returns(w) ==
  /\ wpc[w] = "pumping"
  /\ Pool!Return(w)
  /\ wpc' = [wpc EXCEPT ![w] = "idle"]
  /\ wakeFd' \in {wakeFd, TRUE}
  /\ UNCHANGED <<slots, loop, done, dropped, stopping>>

WorkerStep(w) == Starts(w) \/ Queues(w) \/ WakesLoop(w) \/ Returns(w)

Tick ==
  \/ \E s \in Slot : \/ Reads(s) \/ ReadsAhead(s) \/ Writes(s)
                     \/ PumpsBody(s) \/ Drains(s)
                     \/ ResumesBody(s) \/ ResumesStream(s)
  \/ Accepts
  \/ HandlesWake \/ Discards \/ Attaches \/ DrainEnds \/ ResumeEnds
  \/ Waits \/ EventsEnd \/ SweepEnds \/ BeginsStop

Init ==
  /\ conn = [s \in Slot |-> Free]
  /\ gen = [s \in Slot |-> 0]
  /\ free = [i \in 1..MaxConn |-> i - 1]
  /\ phase = "tick" /\ woken = FALSE /\ todo = <<>> /\ scan = {}
  /\ run = "serving" /\ stopping = FALSE
  /\ pool = "open" /\ line = <<>> /\ busy = [w \in Worker |-> None]
  /\ wpc = [w \in Worker |-> "idle"] /\ done = <<>> /\ dropped = {}
  /\ wakeFd = FALSE

Next ==
  \/ Tick
  \/ \E s \in Slot : Evicts(s)
  \/ \E w \in Worker : WorkerStep(w)
  \/ Stop \/ RunReturns \/ ServerCloses \/ Joined \/ Closed

Spec == Init /\ [][Next]_vars

\* The loop and the workers go on, a wait reports finitely many events, handlers
\* return, and the drain of stop has a deadline.
FairSpec ==
  /\ Spec
  /\ WF_vars(Tick)
  /\ SF_vars(HandlesWake) /\ SF_vars(EventsEnd)
  /\ \A w \in Worker : WF_vars(WorkerStep(w))
  /\ SF_vars(RunReturns)

-----------------------------------------------------------------------------
(* Properties *)

TypeOK ==
  /\ conn \in [Slot -> Conn]
  /\ gen \in [Slot -> 0..MaxAccepts]
  /\ free \in Seq(Slot)
  /\ phase \in {"tick", "events", "drain", "resume", "sweep",
                "returned", "join", "closed"}
  /\ todo \in Seq(Job) /\ done \in Seq(Job) /\ Len(done) <= DoneCap
  /\ dropped \subseteq Job
  /\ scan \subseteq Slot
  /\ woken \in BOOLEAN /\ run \in {"serving", "draining"}
  /\ stopping \in BOOLEAN /\ wakeFd \in BOOLEAN
  /\ pool \in {"open", "closing", "closed"}
  /\ line \in Seq(Job) /\ Len(line) <= Backlog
  /\ busy \in [Worker -> Job \union {None}]
  /\ wpc \in [Worker -> {"idle", "handler", "waking", "pumping"}]

Times(j, seq) == Cardinality({i \in DOMAIN seq : seq[i] = j})

\* The answers to j that are still to come.
Outstanding(j) ==
  Times(j, line) + Times(j, done) + Times(j, todo)
    + Cardinality({w \in Worker : wpc[w] = "handler" /\ busy[w] = j})

\* A connection that waits for a worker is owed one answer, unless the completion
\* queue had no room for it, and a connection that goes on to a next request none:
\* an answer to a request that timed out, or to an earlier connection of the slot,
\* can never be taken for the next one's.
OneAnswerOwed ==
  \A s \in Slot :
    /\ Outstanding(JobOf(s)) <= 1
    /\ conn[s].state \in {"handling", "body"} =>
         Outstanding(JobOf(s)) = IF JobOf(s) \in dropped THEN 0 ELSE 1
    /\ conn[s].state \in {"reading", "keepalive", "writing"} /\ conn[s].closing = "no" =>
         Outstanding(JobOf(s)) = 0

\* A slot is on the free list once when it is free, and not at all otherwise.
FreeListSound ==
  /\ \A s \in Slot : conn[s].state = "free" <=> \E i \in DOMAIN free : free[i] = s
  /\ \A i, j \in DOMAIN free : free[i] = free[j] => i = j

\* Each request that is dispatched is answered, or its connection ends, with no help
\* from a deadline: no completion waits for ever for a wake that is lost.  (The next
\* request of a connection may be dispatched in the step that answers the last.)
AnswersCome ==
  \A s \in Slot :
    \/ []<>(conn[s].state \notin {"handling", "body"} \/ phase \in {"join", "closed"})
    \/ []<><<Attaches /\ Head(todo).slot = s>>_vars

\* run comes back after stop, whatever the clients and the handlers do.
StopReturns == stopping ~> phase \in {"returned", "join", "closed"}

=============================================================================
