---------------------------- MODULE DeadlineHeap ----------------------------
(***************************************************************************)
(* The deadlines of the HTTP server with their hints in the binary heap of *)
(* std/http/server.sx (dheap, heapPush, heapPop), and that this implements *)
(* Deadlines.  Index i of the heap is index i - 1 of the code's array; the *)
(* array grows when it is full and holds any number of entries.            *)
(***************************************************************************)
EXTENDS Integers, Sequences

CONSTANTS Slot, RequestMs, KeepaliveMs, HandlerMs, LingerMs, WaitMs, Batch, MaxNow, MaxGen

VARIABLES now, state, deadline, handlerDeadline, gen, hq, dheap,
          phase, left, at, wakeAt

Entries == {dheap[i] : i \in DOMAIN dheap}

D == INSTANCE Deadlines WITH hints <- Entries

slots == <<state, deadline, handlerDeadline, gen>>
loop == <<phase, left, at, wakeAt>>
vars == <<now, slots, hq, dheap, loop>>

Init == dheap = <<>> /\ D!Init

-----------------------------------------------------------------------------
(* The heap. *)

Swapped(h, i, j) == [h EXCEPT ![i] = h[j], ![j] = h[i]]

Parent(i) == i \div 2

\* The child to compare with: the left one unless the right one is smaller.
SmallerChild(h, i) ==
  LET l == 2 * i IN
  IF l < Len(h) /\ h[l + 1].deadline < h[l].deadline THEN l + 1 ELSE l

\* A loop that starts with x, after n turns.
After(n, turn, x) ==
  LET after[k \in 0..n] == IF k = 0 THEN x ELSE turn[after[k - 1]] IN after[n]

\* A sift under way is the array and the place of the entry that moves, a turn of
\* it a swap or, once the sift has ended, nothing; Len(h) turns are enough.
Sifts(h) == [heap : [DOMAIN h -> {h[i] : i \in DOMAIN h}], place : DOMAIN h]

SwappedTo(s, p) == [heap |-> Swapped(s.heap, s.place, p), place |-> p]

Sifted(h, i, turn) == After(Len(h), turn, [heap |-> h, place |-> i]).heap

Rises(s) ==
  s.place > 1 /\ s.heap[Parent(s.place)].deadline > s.heap[s.place].deadline

SiftUp(h, i) ==
  Sifted(h, i, [s \in Sifts(h) |->
    IF Rises(s) THEN SwappedTo(s, Parent(s.place)) ELSE s])

HeapPush(h, e) == SiftUp(Append(h, e), Len(h) + 1)

Sinks(s) ==
  /\ 2 * s.place <= Len(s.heap)
  /\ s.heap[SmallerChild(s.heap, s.place)].deadline < s.heap[s.place].deadline

SiftDown(h, i) ==
  Sifted(h, i, [s \in Sifts(h) |->
    IF Sinks(s) THEN SwappedTo(s, SmallerChild(s.heap, s.place)) ELSE s])

\* What heapPop leaves of h; it returns h[1].
HeapRest(h) ==
  IF Len(h) = 1
    THEN <<>>
    ELSE SiftDown([SubSeq(h, 1, Len(h) - 1) EXCEPT ![1] = h[Len(h)]], 1)

-----------------------------------------------------------------------------
(* The steps, with the heap in the place of the set of hints. *)

\* Broken: hqDeadline is recorded only for the first hint of a slot.
HqKept(q, s, d) == IF q[s] = 0 THEN [q EXCEPT ![s] = d] ELSE q

HqArmed(q, s, d) == [q EXCEPT ![s] = d]

\* armSlot
ArmSlot(q, h, s, d) ==
  IF D!NeedsHint(q, s, d)
    THEN hq' = HqArmed(q, s, d) /\ dheap' = HeapPush(h, D!Hint(s, d))
    ELSE hq' = q /\ dheap' = h

Connection(s) ==
  \/ \E d \in now..(now + RequestMs + KeepaliveMs + LingerMs + HandlerMs) :
       (D!SetsDeadline(s, d) \/ D!Dispatches(s, d)) /\ ArmSlot(hq, dheap, s, d)
  \/ D!SetsNone(s) /\ UNCHANGED <<hq, dheap>>
  \/ D!Closes(s) /\ hq' = [hq EXCEPT ![s] = 0] /\ UNCHANGED dheap

Handlers == UNCHANGED now /\ \E s \in Slot : Connection(s)

WaitTime ==
  IF dheap # <<>> /\ dheap[1].deadline < now + WaitMs
    THEN dheap[1].deadline ELSE now + WaitMs

Waits ==
  /\ phase = "tick"
  /\ phase' = "wait"
  /\ wakeAt' = WaitTime
  /\ UNCHANGED <<now, slots, hq, dheap, left, at>>

WaitReturns == UNCHANGED dheap /\ D!WaitReturns
WaitTimesOut == UNCHANGED dheap /\ D!WaitTimesOut
IgnoresEvent == UNCHANGED dheap /\ D!IgnoresEvent
EventsEnd == UNCHANGED dheap /\ D!EventsEnd

TopExpired == dheap # <<>> /\ D!Expired(dheap[1].deadline)

SweepEnds ==
  /\ phase = "sweep" /\ at = D!Idle
  /\ ~TopExpired
  /\ phase' = "tick"
  /\ UNCHANGED <<now, slots, hq, dheap, left, at, wakeAt>>

Sweeps(e, rest) ==
  LET s == e.slot IN
  \/ /\ D!Recycled(e)
     /\ hq' = hq /\ dheap' = rest
     /\ UNCHANGED <<slots, loop>>
  \/ /\ ~D!Recycled(e) /\ D!Relevant(s) = 0
     /\ hq' = D!HqWithout(e) /\ dheap' = rest
     /\ UNCHANGED <<slots, loop>>
  \/ /\ ~D!Recycled(e) /\ D!Relevant(s) # 0 /\ ~D!IsLate(s)
     /\ ArmSlot(D!HqWithout(e), rest, s, D!Relevant(s))
     /\ UNCHANGED <<slots, loop>>
  \/ /\ ~D!Recycled(e) /\ D!IsLate(s)
     /\ D!AnswersLate(s, now + RequestMs)
     /\ ArmSlot(D!HqWithout(e), rest, s, now + RequestMs)
  \/ /\ ~D!Recycled(e) /\ D!IsLate(s)
     /\ D!Drops(s)
     /\ hq' = [hq EXCEPT ![s] = 0] /\ dheap' = rest

Pops ==
  /\ phase = "sweep" /\ at = D!Idle
  /\ TopExpired
  /\ Sweeps(dheap[1], HeapRest(dheap))
  /\ UNCHANGED now

TimePasses ==
  /\ now < MaxNow
  /\ now' = now + 1
  /\ UNCHANGED <<slots, hq, dheap, loop>>

Next ==
  \/ Handlers
  \/ Waits \/ WaitReturns \/ WaitTimesOut \/ IgnoresEvent \/ EventsEnd
  \/ Pops \/ SweepEnds
  \/ TimePasses

Spec == Init /\ [][Next]_vars

-----------------------------------------------------------------------------
(* Fairness.  The clock goes on.  The loop thread goes on unless it waits    *)
(* for its timeout; a response that is written stops in the end (the socket  *)
(* fills up, or it is complete), and so do the requests that are buffered.   *)

LoopGoesOn ==
  \/ Handlers /\ <<left, at>>' # <<left, at>>
  \/ Waits \/ WaitTimesOut \/ IgnoresEvent \/ EventsEnd \/ Pops \/ SweepEnds

BufferEnds == UNCHANGED <<now, hq, dheap>> /\ \E s \in Slot : D!Incomplete(s)

FairSpec == Spec /\ WF_vars(TimePasses) /\ WF_vars(LoopGoesOn) /\ SF_vars(BufferEnds)

-----------------------------------------------------------------------------
(* Properties *)

\* The server with the array heap does what the server with the set of hints
\* does: the top of the array is a least hint, and no operation loses one.
ImplementsDeadlines == D!Spec

\* A deadline bites: a connection that is past it does not stay so, however often
\* its hint was moved and whatever becomes of its connections.
LateIsEvicted == \A s \in Slot : D!IsLate(s) ~> ~D!IsLate(s)

=============================================================================
