----------------------------- MODULE Deadlines -----------------------------
(***************************************************************************)
(* The deadlines of the pooled HTTP server, std/http/server.sx.            *)
(*                                                                         *)
(* Every connection has at most one deadline that counts at a time: the    *)
(* handler's while a worker holds its request, the delivery deadline       *)
(* otherwise.  The loop keeps no timer per connection.  It keeps hints,    *)
(* each a time at which to look at a slot again; a hint outlives the       *)
(* deadline it was made for, and the connection.  tick sleeps until the    *)
(* least hint at most, handles the events of one wait, and then sweeps:    *)
(* it pops the hints whose time has come and evicts the connections whose  *)
(* own deadline has passed.                                                *)
(*                                                                         *)
(* Here the hints are a set from which the sweep pops a least element; a   *)
(* hint made twice may be popped twice.  DeadlineHeap keeps them in the    *)
(* array heap of the code and implements this module.                      *)
(***************************************************************************)
EXTENDS Integers

CONSTANTS
  Slot,
  RequestMs,    \* timeoutRequestMs
  KeepaliveMs,  \* timeoutKeepaliveMs
  HandlerMs,    \* handlerTimeoutMs, 0 when handlers have no deadline
  LingerMs,     \* lingerTimeoutMs, 0 when error closes do not linger
  WaitMs,       \* the longest wait of a tick
  Batch,        \* events one wait returns at most
  MaxNow,       \* a bound of the model on the clock
  MaxGen        \* a bound of the model on the connections of a slot

ASSUME TimesAssumption ==
  /\ RequestMs \in Nat /\ KeepaliveMs \in Nat /\ HandlerMs \in Nat
  /\ LingerMs \in Nat /\ WaitMs \in Nat
  /\ Batch \in Nat
  /\ MaxNow \in Nat \ {0} /\ MaxGen \in Nat

VARIABLES
  now,              \* time.monoMs
  \* the slots
  state,            \* Conn.state
  deadline,
  handlerDeadline,
  gen,
  \* the hints
  hq,               \* Conn.hqDeadline
  hints,            \* the entries of dheap
  \* the loop
  phase,            \* "tick", "wait", "events", "sweep"
  left,             \* events of the last wait still to be handled
  at,               \* the rest of the handler that runs, and its slot
  wakeAt            \* when the wait times out, 0 outside of it

slots == <<state, deadline, handlerDeadline, gen>>
hinting == <<hq, hints>>
loop == <<phase, left, at, wakeAt>>
vars == <<now, slots, hinting, loop>>

Idle == <<>>
Steps == {"parse", "submit", "write", "drain"}
State == {"free", "handshake", "reading", "writing", "keepalive", "handling", "body", "linger"}

Init ==
  /\ now = 1
  /\ state = [s \in Slot |-> "free"]
  /\ deadline = [s \in Slot |-> 0]
  /\ handlerDeadline = [s \in Slot |-> 0]
  /\ gen = [s \in Slot |-> 0]
  /\ hq = [s \in Slot |-> 0]
  /\ hints = {}
  /\ phase = "tick" /\ left = 0 /\ at = Idle /\ wakeAt = 0

-----------------------------------------------------------------------------
(* What a connection does.  Handles is an event of the wait, Runs the rest   *)
(* of a handler that is under way; then follows what comes next in it.       *)

Handles(s, states, then) ==
  /\ phase = "events" /\ at = Idle /\ left > 0
  /\ state[s] \in states
  /\ left' = left - 1
  /\ at' = then
  /\ UNCHANGED <<phase, wakeAt>>

Runs(s, step, then) ==
  /\ at = <<step, s>>
  /\ at' = then
  /\ UNCHANGED <<phase, left, wakeAt>>

To(s, st) == state' = [state EXCEPT ![s] = st]
Due(s, d) == deadline' = [deadline EXCEPT ![s] = d]
HandlerDue(s, d) == handlerDeadline' = [handlerDeadline EXCEPT ![s] = d]

\* Steps that set the delivery deadline to d.

Accepts(s, d) ==
  /\ Handles(s, {"free"}, Idle)
  /\ gen[s] <= MaxGen
  /\ d = now + RequestMs
  /\ To(s, "reading") \/ To(s, "handshake")
  /\ Due(s, d)
  /\ UNCHANGED <<handlerDeadline, gen>>

HandshakeDone(s, d) ==
  /\ Handles(s, {"handshake"}, <<"parse", s>>)
  /\ d = now + RequestMs
  /\ To(s, "reading") /\ Due(s, d)
  /\ UNCHANGED <<handlerDeadline, gen>>

NextRequest(s, d) ==
  /\ Handles(s, {"keepalive"}, <<"parse", s>>)
  /\ d = now + RequestMs
  /\ To(s, "reading") /\ Due(s, d)
  /\ UNCHANGED <<handlerDeadline, gen>>

\* Bad, too long, or no room in the pool.
Rejects(s, d) ==
  /\ \/ Runs(s, "parse", <<"write", s>>)
     \/ Runs(s, "submit", <<"write", s>>)
  /\ d = now + RequestMs
  /\ To(s, "reading") /\ Due(s, d) /\ HandlerDue(s, 0)
  /\ UNCHANGED gen

DispatchesStreamed(s, d) ==
  /\ Runs(s, "parse", Idle)
  /\ d = now + RequestMs
  /\ To(s, "body") /\ Due(s, d) /\ HandlerDue(s, 0)
  /\ UNCHANGED gen

\* The pump made progress, or gave the body up.
BodyProgress(s, d) ==
  /\ Handles(s, {"body"}, Idle)
  /\ d = now + RequestMs
  /\ Due(s, d)
  /\ UNCHANGED <<state, handlerDeadline, gen>>

Completes(s, d) ==
  /\ Handles(s, {"handling", "body"}, <<"write", s>>)
  /\ d = now + RequestMs
  /\ To(s, "reading") /\ Due(s, d)
  /\ UNCHANGED <<handlerDeadline, gen>>

StreamsOn(s, d) ==
  /\ Runs(s, "write", <<"write", s>>)
  /\ d = now + RequestMs
  /\ Due(s, d)
  /\ UNCHANGED <<state, handlerDeadline, gen>>

ServesNext(s, d) ==
  /\ Runs(s, "write", <<"parse", s>>)
  /\ d = now + RequestMs
  /\ To(s, "reading") /\ Due(s, d)
  /\ UNCHANGED <<handlerDeadline, gen>>

KeepsAlive(s, d) ==
  /\ Runs(s, "write", Idle)
  /\ d = now + KeepaliveMs
  /\ To(s, "keepalive") /\ Due(s, d)
  /\ UNCHANGED <<handlerDeadline, gen>>

Lingers(s, d) ==
  /\ Runs(s, "write", <<"drain", s>>)
  /\ LingerMs > 0
  /\ d = now + LingerMs
  /\ To(s, "linger") /\ Due(s, d)
  /\ UNCHANGED <<handlerDeadline, gen>>

\* Steps that set the handler's deadline to d: a whole request is dispatched, or
\* the body of a dispatched one is complete (bodyEof).

ReachesHandler(s) ==
  \/ Runs(s, "parse", <<"submit", s>>)
  \/ Handles(s, {"body"}, Idle)

Dispatches(s, d) ==
  /\ ReachesHandler(s)
  /\ HandlerMs > 0
  /\ d = now + HandlerMs
  /\ To(s, "handling") /\ HandlerDue(s, d)
  /\ UNCHANGED <<deadline, gen>>

SetsDeadline(s, d) ==
  \/ Accepts(s, d) \/ HandshakeDone(s, d) \/ NextRequest(s, d) \/ Rejects(s, d)
  \/ DispatchesStreamed(s, d) \/ BodyProgress(s, d)
  \/ Completes(s, d) \/ StreamsOn(s, d) \/ ServesNext(s, d)
  \/ KeepsAlive(s, d) \/ Lingers(s, d)

\* Steps that set none.

DispatchesUnbounded(s) ==
  /\ ReachesHandler(s)
  /\ HandlerMs = 0
  /\ To(s, "handling") /\ HandlerDue(s, 0)
  /\ UNCHANGED <<deadline, gen>>

Submits(s) == Runs(s, "submit", Idle) /\ UNCHANGED slots

BytesArrive(s) ==
  /\ Handles(s, {"reading"}, <<"parse", s>>)
  /\ UNCHANGED slots

Incomplete(s) == Runs(s, "parse", Idle) /\ UNCHANGED slots

\* A handler run on the loop, or a static answer.
AnswersInline(s) ==
  /\ Runs(s, "parse", <<"write", s>>)
  /\ UNCHANGED slots

Writable(s) == Handles(s, {"writing"}, <<"write", s>>) /\ UNCHANGED slots

WriteBlocks(s) ==
  /\ Runs(s, "write", Idle)
  /\ To(s, "writing")
  /\ UNCHANGED <<deadline, handlerDeadline, gen>>

DrainedDry(s) == Runs(s, "drain", Idle) /\ UNCHANGED slots

SetsNone(s) ==
  \/ DispatchesUnbounded(s) \/ Submits(s) \/ BytesArrive(s)
  \/ Incomplete(s) \/ AnswersInline(s) \/ Writable(s) \/ WriteBlocks(s)
  \/ DrainedDry(s)

\* Broken: no deadline is -1.
FreedWithoutDeadline(s) ==
  /\ To(s, "free") /\ Due(s, -1) /\ HandlerDue(s, -1)
  /\ gen' = [gen EXCEPT ![s] = @ + 1]

\* connClose; the deadline of a free slot is not looked at and is 0 here.
Freed(s) ==
  /\ To(s, "free") /\ Due(s, 0) /\ HandlerDue(s, 0)
  /\ gen' = [gen EXCEPT ![s] = @ + 1]

\* The peer goes, a watch or a write fails, the last response is out, the
\* completion has no response, the linger ends.
Closes(s) ==
  /\ \/ Handles(s, State \ {"free"}, Idle)
     \/ Runs(s, "write", Idle)
     \/ Runs(s, "drain", Idle)
  /\ Freed(s)

-----------------------------------------------------------------------------
(* The hints. *)

\* relevantDeadline: the deadline that counts, 0 when there is none.
Relevant(s) ==
  IF state[s] = "free" THEN 0
  ELSE IF state[s] = "handling" THEN handlerDeadline[s]
  ELSE deadline[s]

Hint(s, d) == [deadline |-> d, slot |-> s, gen |-> gen[s]]

\* Broken: only the first deadline gets a hint.
NeedsFirstHint(q, s, d) == q[s] = 0

NeedsHint(q, s, d) == q[s] = 0 \/ d < q[s]

\* armSlot, when hqDeadline is q and the hints are h: a later deadline needs no
\* hint, for the earlier one will be moved when it is popped.
Arm(q, h, s, d) ==
  IF NeedsHint(q, s, d)
    THEN hq' = [q EXCEPT ![s] = d] /\ hints' = h \union {Hint(s, d)}
    ELSE hq' = q /\ hints' = h

Connection(s) ==
  \/ \E d \in now..(now + RequestMs + KeepaliveMs + LingerMs + HandlerMs) :
       (SetsDeadline(s, d) \/ Dispatches(s, d)) /\ Arm(hq, hints, s, d)
  \/ SetsNone(s) /\ UNCHANGED hinting
  \/ Closes(s) /\ hq' = [hq EXCEPT ![s] = 0] /\ UNCHANGED hints

-----------------------------------------------------------------------------
(* The loop. *)

Least(e, h) == e \in h /\ \A f \in h : e.deadline <= f.deadline

\* The timeout of the wait: until the least hint, if there is one.
WaitUntil(t) ==
  /\ phase = "tick"
  /\ phase' = "wait"
  /\ wakeAt' = t
  /\ UNCHANGED <<now, slots, hinting, left, at>>

Waits ==
  \/ hints = {} /\ WaitUntil(now + WaitMs)
  \/ \E e \in hints :
       /\ Least(e, hints)
       /\ WaitUntil(IF e.deadline < now + WaitMs THEN e.deadline ELSE now + WaitMs)

\* Some fd is ready, or the loop is woken.
WaitReturns ==
  /\ phase = "wait"
  /\ phase' = "events"
  /\ left' \in 1..Batch /\ wakeAt' = 0
  /\ UNCHANGED <<now, slots, hinting, at>>

WaitTimesOut ==
  /\ phase = "wait" /\ now >= wakeAt
  /\ phase' = "events"
  /\ left' = 0 /\ wakeAt' = 0
  /\ UNCHANGED <<now, slots, hinting, at>>

\* An event that changes nothing here: a stale one, a spurious wake.
IgnoresEvent ==
  /\ phase = "events" /\ at = Idle /\ left > 0
  /\ left' = left - 1
  /\ UNCHANGED <<now, slots, hinting, phase, at, wakeAt>>

EventsEnd ==
  /\ phase = "events" /\ at = Idle /\ left = 0
  /\ phase' = "sweep"
  /\ UNCHANGED <<now, slots, hinting, left, at, wakeAt>>

SweepEnds ==
  /\ phase = "sweep" /\ at = Idle
  /\ \A e \in hints : e.deadline > now
  /\ phase' = "tick"
  /\ UNCHANGED <<now, slots, hinting, left, at, wakeAt>>

Expired(d) == now >= d

Recycled(e) == gen[e.slot] # e.gen \/ state[e.slot] = "free"

\* Broken: hqDeadline still names the hint.
HqStays(e) == hq

\* hqDeadline once e is popped: the live hint of its slot is gone.
HqWithout(e) == IF hq[e.slot] = e.deadline THEN [hq EXCEPT ![e.slot] = 0] ELSE hq

\* Broken: a hint that is popped is a deadline that has passed.
IsHinted(s) == Relevant(s) # 0

IsLate(s) == Relevant(s) # 0 /\ Expired(Relevant(s))

\* A handler that is late is answered over its head with 504, a request that is
\* late with 408; d is the time the answer has.
AnswersLate(s, d) ==
  /\ \/ state[s] = "handling" /\ To(s, "writing") /\ HandlerDue(s, 0)
     \/ state[s] = "reading" /\ UNCHANGED <<state, handlerDeadline>>
  /\ Due(s, d)
  /\ at' = <<"write", s>>
  /\ UNCHANGED <<gen, phase, left, wakeAt>>

\* Nothing is owed: between requests, before the first byte, a response that
\* stalls, a body, the end of a linger.
Drops(s) ==
  /\ state[s] # "handling"
  /\ Freed(s)
  /\ UNCHANGED loop

\* One turn of the sweep, when e is popped and rest is left.
Sweeps(e, rest) ==
  LET s == e.slot IN
  \/ /\ Recycled(e)
     /\ hq' = hq /\ hints' = rest
     /\ UNCHANGED <<slots, loop>>
  \/ /\ ~Recycled(e) /\ Relevant(s) = 0
     /\ hq' = HqWithout(e) /\ hints' = rest
     /\ UNCHANGED <<slots, loop>>
  \/ /\ ~Recycled(e) /\ Relevant(s) # 0 /\ ~IsLate(s)
     /\ Arm(HqWithout(e), rest, s, Relevant(s))
     /\ UNCHANGED <<slots, loop>>
  \/ /\ ~Recycled(e) /\ IsLate(s)
     /\ AnswersLate(s, now + RequestMs)
     /\ Arm(HqWithout(e), rest, s, now + RequestMs)
  \/ /\ ~Recycled(e) /\ IsLate(s)
     /\ Drops(s)
     /\ hq' = [hq EXCEPT ![s] = 0] /\ hints' = rest

Pops ==
  /\ phase = "sweep" /\ at = Idle
  /\ \E e \in hints :
       /\ Least(e, hints) /\ Expired(e.deadline)
       /\ \E rest \in {hints, hints \ {e}} : Sweeps(e, rest)
  /\ UNCHANGED now

-----------------------------------------------------------------------------

TimePasses ==
  /\ now < MaxNow
  /\ now' = now + 1
  /\ UNCHANGED <<slots, hinting, loop>>

Handlers == UNCHANGED now /\ \E s \in Slot : Connection(s)

Next ==
  \/ Handlers
  \/ Waits \/ WaitReturns \/ WaitTimesOut \/ IgnoresEvent \/ EventsEnd
  \/ Pops \/ SweepEnds
  \/ TimePasses

Spec == Init /\ [][Next]_vars

-----------------------------------------------------------------------------
(* Properties *)

TypeOK ==
  /\ now \in Nat \ {0}
  /\ state \in [Slot -> State]
  /\ deadline \in [Slot -> Nat] /\ handlerDeadline \in [Slot -> Nat]
  /\ gen \in [Slot -> Nat]
  /\ hq \in [Slot -> Nat]
  /\ hints \subseteq [deadline : Nat, slot : Slot, gen : Nat]
  /\ phase \in {"tick", "wait", "events", "sweep"}
  /\ left \in Nat
  /\ at \in {Idle} \union (Steps \X Slot)
  /\ wakeAt \in Nat

\* armSlot keeps a deadline that moves later without a hint of its own, and the
\* sweep forgets the live hint before it looks: all the same a connection with
\* a deadline always has a hint of its own generation that comes no later.
EveryDeadlineHinted ==
  \A s \in Slot : Relevant(s) # 0 =>
    /\ hq[s] # 0 /\ hq[s] <= Relevant(s)
    /\ Hint(s, hq[s]) \in hints

\* tick never sleeps past the deadline of a connection, though it looks at one
\* hint only.
NeverOversleeps ==
  phase = "wait" => \A s \in Slot : Relevant(s) # 0 => wakeAt <= Relevant(s)

\* A sweep evicts the connections that are past their deadline, all of them, and
\* no other: not one whose hint is stale, and not one hidden behind a hint that
\* is later than its deadline.
SweepIsExact ==
  /\ phase = "sweep" /\ phase' = "tick" =>
       \A s \in Slot : ~IsLate(s)
  /\ phase = "sweep" /\ at = Idle =>
       \A s \in Slot : gen'[s] # gen[s] \/ at' = <<"write", s>> => IsLate(s)

SweepsAreExact == [][SweepIsExact]_vars

=============================================================================
