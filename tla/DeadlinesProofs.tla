--------------------------- MODULE DeadlinesProofs ---------------------------
(***************************************************************************)
(* The hints of the deadline sweep, proved for every number of slots and   *)
(* every timeout: a connection with a deadline always has a hint in time,  *)
(* so the loop never sleeps past a deadline and a sweep misses none.  And  *)
(* that the array heap of the code implements the set of hints.            *)
(***************************************************************************)
EXTENDS Deadlines, Sequences, SequenceTheorems, NaturalsInduction,
        WellFoundedInduction, TLAPS

HintSet == [deadline : Nat, slot : Slot, gen : Nat]

\* The live hint of a slot is in the heap, whether a deadline counts or not; a
\* free slot has none.
LiveHinted ==
  \A s \in Slot : hq[s] # 0 => Hint(s, hq[s]) \in hints /\ state[s] # "free"

\* What the loop does in the middle of a handler fits the slot's state, and it
\* finishes its handlers before it waits.
AtFits ==
  /\ phase \in {"tick", "wait"} => at = Idle
  /\ \A s \in Slot :
       /\ at = <<"parse", s>> => state[s] = "reading"
       /\ at = <<"submit", s>> => state[s] = "handling"
       /\ at = <<"write", s>> => state[s] \in {"reading", "writing"}
       /\ at = <<"drain", s>> => state[s] = "linger"

Covered == \A s \in Slot : Relevant(s) # 0 => hq[s] # 0 /\ hq[s] <= Relevant(s)

IInv == TypeOK /\ AtFits /\ LiveHinted /\ Covered /\ NeverOversleeps

-----------------------------------------------------------------------------
(* Pieces of the type invariant, by the variables they are about. *)

SlotTypes ==
  /\ state \in [Slot -> State]
  /\ deadline \in [Slot -> Nat]
  /\ handlerDeadline \in [Slot -> Nat]
  /\ gen \in [Slot -> Nat]

HintTypes == hq \in [Slot -> Nat] /\ hints \subseteq HintSet

LoopTypes ==
  /\ phase \in {"tick", "wait", "events", "sweep"}
  /\ left \in Nat
  /\ at \in {Idle} \union (Steps \X Slot)
  /\ wakeAt \in Nat

LEMMA TypeParts == TypeOK <=> now \in Nat \ {0} /\ SlotTypes /\ HintTypes /\ LoopTypes
BY DEF TypeOK, SlotTypes, HintTypes, LoopTypes, HintSet

LEMMA RelevantIsNat ==
  ASSUME SlotTypes, NEW s \in Slot
  PROVE  Relevant(s) \in Nat
BY DEF SlotTypes, Relevant

LEMMA NotIdle ==
  ASSUME NEW k \in Steps, NEW s \in Slot
  PROVE  <<k, s>> # Idle
BY DEF Idle

\* The running handler is one step of one slot.
LEMMA OneStep ==
  ASSUME NEW k, NEW s, NEW l, NEW t, <<k, s>> = <<l, t>>
  PROVE  k = l /\ s = t
OBVIOUS

-----------------------------------------------------------------------------
(* What a step of a connection does to the deadlines that count. *)

\* A step that sets a deadline makes it the one that counts.
Counts(s, d) ==
  /\ d \in Nat \ {0}
  /\ SlotTypes'
  /\ gen' = gen
  /\ Relevant(s)' = d
  /\ \A t \in Slot \ {s} : Relevant(t)' = Relevant(t) /\ state'[t] = state[t]

LEMMA ArmTypes ==
  ASSUME NEW q \in [Slot -> Nat], NEW h \in SUBSET HintSet, SlotTypes, gen' = gen,
         NEW s \in Slot, NEW d \in Nat \ {0}, Arm(q, h, s, d)
  PROVE  /\ HintTypes'
         /\ h \subseteq hints'
         /\ \A t \in Slot \ {s} : hq'[t] = q[t]
         /\ hq'[s] # 0 /\ hq'[s] <= d
         /\ \/ hq'[s] = q[s]
            \/ hq'[s] = d /\ Hint(s, d) \in hints'
<1>1. Hint(s, d) \in HintSet
  BY DEF Hint, HintSet, SlotTypes
<1>2. CASE NeedsHint(q, s, d)
  <2>1. hq' = [q EXCEPT ![s] = d] /\ hints' = h \union {Hint(s, d)}
    BY <1>2 DEF Arm
  <2>. QED BY <1>1, <2>1 DEF HintTypes
<1>3. CASE ~NeedsHint(q, s, d)
  <2>1. hq' = q /\ hints' = h
    BY <1>3 DEF Arm
  <2>2. q[s] # 0 /\ q[s] <= d
    BY <1>3 DEF NeedsHint
  <2>. QED BY <2>1, <2>2 DEF HintTypes
<1>. QED BY <1>2, <1>3

\* The hints after a deadline was set, when the live hint of every other slot is
\* still there, and that of s too unless q has forgotten it.
LEMMA ArmCovers ==
  ASSUME NEW q \in [Slot -> Nat], NEW h \in SUBSET HintSet, SlotTypes, Covered, LiveHinted,
         NEW s \in Slot, NEW d, Counts(s, d), Arm(q, h, s, d),
         \A t \in Slot : q[t] # 0 => Hint(t, q[t]) \in h,
         \A t \in Slot \ {s} : q[t] = hq[t]
  PROVE  HintTypes' /\ LiveHinted' /\ Covered'
<1>1. d \in Nat \ {0} /\ gen' = gen
  BY DEF Counts
<1>2. /\ HintTypes'
      /\ h \subseteq hints'
      /\ \A t \in Slot \ {s} : hq'[t] = q[t]
      /\ hq'[s] # 0 /\ hq'[s] <= d
      /\ \/ hq'[s] = q[s]
         \/ hq'[s] = d /\ Hint(s, d) \in hints'
  BY <1>1, ArmTypes
<1>4. ASSUME NEW t \in Slot, hq'[t] # 0
      PROVE  [deadline |-> hq'[t], slot |-> t, gen |-> gen'[t]] \in hints'
  <2>1. CASE hq'[t] = q[t]
    BY <1>1, <1>2, <1>4, <2>1 DEF Hint
  <2>2. CASE t = s /\ hq'[s] = d /\ Hint(s, d) \in hints'
    BY <1>1, <2>2 DEF Hint
  <2>. QED BY <1>2, <2>1, <2>2
<1>8. ASSUME NEW t \in Slot, hq'[t] # 0
      PROVE  state'[t] # "free"
  <2>1. CASE t = s
    BY <2>1 DEF Counts, Relevant
  <2>2. CASE t # s
    BY <1>2, <1>8, <2>2 DEF Counts, LiveHinted
  <2>. QED BY <2>1, <2>2
<1>5. LiveHinted'
  BY <1>4, <1>8 DEF LiveHinted, Hint
<1>6. ASSUME NEW t \in Slot, Relevant(t)' # 0
      PROVE  hq'[t] # 0 /\ hq'[t] <= Relevant(t)'
  <2>1. CASE t = s
    BY <1>2, <2>1 DEF Counts
  <2>2. CASE t # s
    <3>1. Relevant(t)' = Relevant(t) /\ hq'[t] = hq[t]
      BY <1>2, <2>2 DEF Counts
    <3>. QED BY <1>6, <3>1 DEF Covered
  <2>. QED BY <2>1, <2>2
<1>7. Covered'
  BY <1>6 DEF Covered
<1>. QED BY <1>2, <1>5, <1>7

-----------------------------------------------------------------------------
(* The handlers. *)

\* What is left of the handler fits the new state of s.
NextFits(s) ==
  \/ at' = Idle
  \/ at' = <<"parse", s>> /\ state'[s] = "reading"
  \/ at' = <<"submit", s>> /\ state'[s] = "handling"
  \/ at' = <<"write", s>> /\ state'[s] \in {"reading", "writing"}
  \/ at' = <<"drain", s>> /\ state'[s] = "linger"

Busy == phase' = phase /\ phase \notin {"tick", "wait"}

LEMMA FitsKept ==
  ASSUME NEW s \in Slot, NextFits(s), Busy
  PROVE  AtFits'
<1>1. ASSUME NEW t \in Slot, NEW k \in Steps, at' = <<k, t>>
      PROVE  t = s /\ at' = <<k, s>> /\ at' # Idle
  BY <1>1 DEF NextFits, Idle
<1>2. ASSUME NEW t \in Slot
      PROVE  /\ at' = <<"parse", t>> => state'[t] = "reading"
             /\ at' = <<"submit", t>> => state'[t] = "handling"
             /\ at' = <<"write", t>> => state'[t] \in {"reading", "writing"}
             /\ at' = <<"drain", t>> => state'[t] = "linger"
  BY <1>1 DEF NextFits, Steps
<1>. QED BY <1>2 DEF AtFits, Busy

LEMMA HandlesIs ==
  ASSUME NEW s \in Slot, NEW states, NEW then \in {Idle} \union (Steps \X Slot),
         Handles(s, states, then), LoopTypes
  PROVE  LoopTypes' /\ Busy /\ at = Idle /\ at' = then /\ state[s] \in states
BY DEF Handles, LoopTypes, Busy

LEMMA RunsIs ==
  ASSUME NEW s \in Slot, NEW step \in Steps, NEW then \in {Idle} \union (Steps \X Slot),
         Runs(s, step, then), LoopTypes, AtFits
  PROVE  LoopTypes' /\ Busy /\ at = <<step, s>> /\ at' = then
<1>1. at # Idle
  BY NotIdle DEF Runs
<1>. QED BY <1>1 DEF Runs, LoopTypes, Busy, AtFits

\* The delivery deadline is set, and the new state is one it counts in.
LEMMA DeliveryCounts ==
  ASSUME SlotTypes, NEW s \in Slot, NEW d \in Nat \ {0}, Due(s, d), gen' = gen,
         \/ state' = state
         \/ \E st \in State : To(s, st),
         state'[s] \notin {"free", "handling"},
         handlerDeadline' = handlerDeadline \/ HandlerDue(s, 0)
  PROVE  Counts(s, d)
<1>1. /\ state' \in [Slot -> State]
      /\ \A t \in Slot \ {s} : state'[t] = state[t]
  BY DEF SlotTypes, To
<1>2. /\ deadline' \in [Slot -> Nat] /\ deadline'[s] = d
      /\ \A t \in Slot \ {s} : deadline'[t] = deadline[t]
  BY DEF SlotTypes, Due
<1>3. /\ handlerDeadline' \in [Slot -> Nat]
      /\ \A t \in Slot \ {s} : handlerDeadline'[t] = handlerDeadline[t]
  BY DEF SlotTypes, HandlerDue
<1>4. SlotTypes'
  BY <1>1, <1>2, <1>3 DEF SlotTypes
<1>5. Relevant(s)' = d
  BY <1>2 DEF Relevant
<1>6. \A t \in Slot \ {s} : Relevant(t)' = Relevant(t)
  BY <1>1, <1>2, <1>3 DEF Relevant
<1>. QED BY <1>1, <1>4, <1>5, <1>6 DEF Counts

LEMMA HandlerCounts ==
  ASSUME SlotTypes, NEW s \in Slot, NEW d \in Nat \ {0},
         To(s, "handling"), HandlerDue(s, d), deadline' = deadline, gen' = gen
  PROVE  Counts(s, d)
<1>1. /\ state' \in [Slot -> State] /\ state'[s] = "handling"
      /\ \A t \in Slot \ {s} : state'[t] = state[t]
  BY DEF SlotTypes, State, To
<1>2. /\ handlerDeadline' \in [Slot -> Nat] /\ handlerDeadline'[s] = d
      /\ \A t \in Slot \ {s} : handlerDeadline'[t] = handlerDeadline[t]
  BY DEF SlotTypes, HandlerDue
<1>3. SlotTypes'
  BY <1>1, <1>2 DEF SlotTypes
<1>4. Relevant(s)' = d
  BY <1>1, <1>2 DEF Relevant
<1>5. \A t \in Slot \ {s} : Relevant(t)' = Relevant(t)
  BY <1>1, <1>2 DEF Relevant
<1>. QED BY <1>1, <1>3, <1>4, <1>5 DEF Counts

Step(s) == LoopTypes' /\ Busy /\ NextFits(s)

LEMMA SetsDeadlineCounts ==
  ASSUME SlotTypes, LoopTypes, AtFits, now \in Nat \ {0},
         NEW s \in Slot, NEW d \in Int, d >= now, SetsDeadline(s, d)
  PROVE  Counts(s, d) /\ Step(s)
<1>. USE DEF Steps, State
<1>1. d \in Nat \ {0}
  OBVIOUS
<1>3. CASE Accepts(s, d)
  <2>1. Handles(s, {"free"}, Idle) /\ gen' = gen /\ Due(s, d)
    BY <1>3 DEF Accepts
  <2>2. LoopTypes' /\ Busy /\ at' = Idle
    BY <2>1, HandlesIs
  <2>3. state'[s] \in {"reading", "handshake"}
    BY <1>3 DEF Accepts, To, SlotTypes
  <2>4. Counts(s, d)
    BY <1>1, <1>3, <2>1, <2>3, DeliveryCounts DEF Accepts
  <2>. QED BY <2>2, <2>4 DEF Step, NextFits
<1>4. CASE HandshakeDone(s, d) \/ NextRequest(s, d)
  <2>1. /\ \E st \in State : Handles(s, {st}, <<"parse", s>>)
        /\ gen' = gen /\ Due(s, d)
    BY <1>4 DEF HandshakeDone, NextRequest
  <2>2. LoopTypes' /\ Busy /\ at' = <<"parse", s>>
    BY <2>1, HandlesIs
  <2>3. state'[s] = "reading"
    BY <1>4 DEF HandshakeDone, NextRequest, To, SlotTypes
  <2>4. Counts(s, d)
    BY <1>1, <1>4, <2>1, <2>3, DeliveryCounts DEF HandshakeDone, NextRequest
  <2>. QED BY <2>2, <2>3, <2>4 DEF Step, NextFits
<1>5. CASE Rejects(s, d)
  <2>1. \E k \in Steps : Runs(s, k, <<"write", s>>)
    BY <1>5 DEF Rejects
  <2>2. LoopTypes' /\ Busy /\ at' = <<"write", s>>
    BY <2>1, RunsIs
  <2>3. state'[s] = "reading"
    BY <1>5 DEF Rejects, To, SlotTypes
  <2>4. Counts(s, d)
    BY <1>1, <1>5, <2>3, DeliveryCounts DEF Rejects
  <2>. QED BY <2>2, <2>3, <2>4 DEF Step, NextFits
<1>6. CASE DispatchesStreamed(s, d)
  <2>1. Runs(s, "parse", Idle)
    BY <1>6 DEF DispatchesStreamed
  <2>2. LoopTypes' /\ Busy /\ at' = Idle
    BY <2>1, RunsIs
  <2>3. state'[s] = "body"
    BY <1>6 DEF DispatchesStreamed, To, SlotTypes
  <2>4. Counts(s, d)
    BY <1>1, <1>6, <2>3, DeliveryCounts DEF DispatchesStreamed
  <2>. QED BY <2>2, <2>4 DEF Step, NextFits
<1>7. CASE BodyProgress(s, d)
  <2>1. Handles(s, {"body"}, Idle)
    BY <1>7 DEF BodyProgress
  <2>2. LoopTypes' /\ Busy /\ at' = Idle /\ state[s] = "body"
    BY <2>1, HandlesIs
  <2>3. state'[s] = "body"
    BY <1>7, <2>2 DEF BodyProgress
  <2>4. Counts(s, d)
    BY <1>1, <1>7, <2>3, DeliveryCounts DEF BodyProgress
  <2>. QED BY <2>2, <2>4 DEF Step, NextFits
<1>8. CASE Completes(s, d)
  <2>1. Handles(s, {"handling", "body"}, <<"write", s>>)
    BY <1>8 DEF Completes
  <2>2. LoopTypes' /\ Busy /\ at' = <<"write", s>>
    BY <2>1, HandlesIs
  <2>3. state'[s] = "reading"
    BY <1>8 DEF Completes, To, SlotTypes
  <2>4. Counts(s, d)
    BY <1>1, <1>8, <2>3, DeliveryCounts DEF Completes
  <2>. QED BY <2>2, <2>3, <2>4 DEF Step, NextFits
<1>9. CASE StreamsOn(s, d)
  <2>1. Runs(s, "write", <<"write", s>>)
    BY <1>9 DEF StreamsOn
  <2>2. LoopTypes' /\ Busy /\ at' = <<"write", s>> /\ at = <<"write", s>>
    BY <2>1, RunsIs
  <2>3. state'[s] \in {"reading", "writing"}
    BY <1>9, <2>2 DEF StreamsOn, AtFits
  <2>4. Counts(s, d)
    BY <1>1, <1>9, <2>3, DeliveryCounts DEF StreamsOn
  <2>. QED BY <2>2, <2>3, <2>4 DEF Step, NextFits
<1>10. CASE ServesNext(s, d) \/ KeepsAlive(s, d) \/ Lingers(s, d)
  <2>1. \E k \in {Idle, <<"parse", s>>, <<"drain", s>>} : Runs(s, "write", k)
    BY <1>10 DEF ServesNext, KeepsAlive, Lingers
  <2>2. LoopTypes' /\ Busy
    BY <2>1, RunsIs
  <2>3. /\ state'[s] \in {"reading", "keepalive", "linger"}
        /\ NextFits(s)
    BY <1>10 DEF ServesNext, KeepsAlive, Lingers, To, SlotTypes, Runs, NextFits
  <2>4. Counts(s, d)
    BY <1>1, <1>10, <2>3, DeliveryCounts DEF ServesNext, KeepsAlive, Lingers
  <2>. QED BY <2>2, <2>3, <2>4 DEF Step
<1>. QED BY <1>3, <1>4, <1>5, <1>6, <1>7, <1>8, <1>9, <1>10 DEF SetsDeadline

LEMMA DispatchesCounts ==
  ASSUME SlotTypes, LoopTypes, AtFits, now \in Nat \ {0},
         NEW s \in Slot, NEW d \in Int, d >= now, Dispatches(s, d)
  PROVE  Counts(s, d) /\ Step(s)
<1>. USE DEF Steps, State
<1>1. LoopTypes' /\ Busy /\ at' \in {Idle, <<"submit", s>>}
  <2>1. CASE Runs(s, "parse", <<"submit", s>>)
    BY <2>1, RunsIs
  <2>2. CASE Handles(s, {"body"}, Idle)
    BY <2>2, HandlesIs
  <2>. QED BY <2>1, <2>2 DEF Dispatches, ReachesHandler
<1>2. Counts(s, d)
  BY HandlerCounts DEF Dispatches
<1>3. state'[s] = "handling"
  BY DEF Dispatches, To, SlotTypes
<1>. QED BY <1>1, <1>2, <1>3 DEF Step, NextFits

\* A step that sets no deadline at most suspends one.
LEMMA SetsNoneKeeps ==
  ASSUME SlotTypes, LoopTypes, AtFits, NEW s \in Slot, SetsNone(s)
  PROVE  /\ SlotTypes' /\ gen' = gen
         /\ \A t \in Slot : Relevant(t)' \in {Relevant(t), 0}
         /\ \A t \in Slot : state'[t] = "free" => state[t] = "free"
         /\ Step(s)
<1>. USE DEF Steps, State
<1>1. CASE DispatchesUnbounded(s)
  <2>1. LoopTypes' /\ Busy /\ at' \in {Idle, <<"submit", s>>}
    <3>1. CASE Runs(s, "parse", <<"submit", s>>)
      BY <3>1, RunsIs
    <3>2. CASE Handles(s, {"body"}, Idle)
      BY <3>2, HandlesIs
    <3>. QED BY <1>1, <3>1, <3>2 DEF DispatchesUnbounded, ReachesHandler
  <2>2. /\ SlotTypes' /\ gen' = gen /\ state'[s] = "handling" /\ handlerDeadline'[s] = 0
        /\ \A t \in Slot \ {s} : Relevant(t)' = Relevant(t) /\ state'[t] = state[t]
    BY <1>1 DEF DispatchesUnbounded, To, HandlerDue, SlotTypes, Relevant
  <2>3. Relevant(s)' = 0
    BY <2>2 DEF Relevant
  <2>. QED BY <2>1, <2>2, <2>3 DEF Step, NextFits
<1>2. CASE WriteBlocks(s)
  <2>1. LoopTypes' /\ Busy /\ at' = Idle /\ at = <<"write", s>>
    BY <1>2, RunsIs DEF WriteBlocks
  <2>2. state[s] \in {"reading", "writing"}
    BY <2>1 DEF AtFits
  <2>3. SlotTypes' /\ gen' = gen /\ \A t \in Slot : Relevant(t)' = Relevant(t)
    BY <1>2, <2>2 DEF WriteBlocks, To, SlotTypes, Relevant
  <2>4. \A t \in Slot : state'[t] = "free" => state[t] = "free"
    BY <1>2 DEF WriteBlocks, To, SlotTypes
  <2>. QED BY <2>1, <2>3, <2>4 DEF Step, NextFits
<1>3. ASSUME UNCHANGED slots
      PROVE  /\ SlotTypes' /\ gen' = gen
             /\ \A t \in Slot : Relevant(t)' = Relevant(t) /\ state'[t] = state[t]
  BY <1>3 DEF slots, SlotTypes, Relevant
<1>4. CASE Submits(s) \/ Incomplete(s) \/ DrainedDry(s)
  <2>1. LoopTypes' /\ Busy /\ at' = Idle
    BY <1>4, RunsIs DEF Submits, Incomplete, DrainedDry
  <2>. QED BY <1>3, <1>4, <2>1 DEF Step, NextFits, Submits, Incomplete, DrainedDry
<1>5. CASE BytesArrive(s)
  <2>1. Handles(s, {"reading"}, <<"parse", s>>) /\ UNCHANGED slots
    BY <1>5 DEF BytesArrive
  <2>2. LoopTypes' /\ Busy /\ at' = <<"parse", s>> /\ state[s] = "reading"
    BY <2>1, HandlesIs
  <2>. QED BY <1>3, <2>1, <2>2 DEF Step, NextFits, slots
<1>6. CASE AnswersInline(s)
  <2>1. Runs(s, "parse", <<"write", s>>) /\ UNCHANGED slots
    BY <1>6 DEF AnswersInline
  <2>2. LoopTypes' /\ Busy /\ at' = <<"write", s>> /\ at = <<"parse", s>>
    BY <2>1, RunsIs
  <2>3. state[s] = "reading"
    BY <2>2 DEF AtFits
  <2>. QED BY <1>3, <2>1, <2>2, <2>3 DEF Step, NextFits, slots
<1>7. CASE Writable(s)
  <2>1. Handles(s, {"writing"}, <<"write", s>>) /\ UNCHANGED slots
    BY <1>7 DEF Writable
  <2>2. LoopTypes' /\ Busy /\ at' = <<"write", s>> /\ state[s] = "writing"
    BY <2>1, HandlesIs
  <2>. QED BY <1>3, <2>1, <2>2 DEF Step, NextFits, slots
<1>. QED BY <1>1, <1>2, <1>4, <1>5, <1>6, <1>7 DEF SetsNone

\* connClose: the slot has no deadline and its hints are stale.
LEMMA FreedKeeps ==
  ASSUME SlotTypes, NEW s \in Slot, Freed(s)
  PROVE  /\ SlotTypes' /\ Relevant(s)' = 0
         /\ \A t \in Slot \ {s} : gen'[t] = gen[t] /\ Relevant(t)' = Relevant(t)
                                    /\ state'[t] = state[t]
<1>1. /\ state' \in [Slot -> State] /\ state'[s] = "free"
      /\ \A t \in Slot \ {s} : state'[t] = state[t]
  BY DEF Freed, To, SlotTypes, State
<1>2. /\ deadline' \in [Slot -> Nat]
      /\ \A t \in Slot \ {s} : deadline'[t] = deadline[t]
  BY DEF Freed, Due, SlotTypes
<1>3. /\ handlerDeadline' \in [Slot -> Nat]
      /\ \A t \in Slot \ {s} : handlerDeadline'[t] = handlerDeadline[t]
  BY DEF Freed, HandlerDue, SlotTypes
<1>4. /\ gen' \in [Slot -> Nat]
      /\ \A t \in Slot \ {s} : gen'[t] = gen[t]
  BY DEF Freed, SlotTypes
<1>. QED BY <1>1, <1>2, <1>3, <1>4 DEF SlotTypes, Relevant

LEMMA ClosesStep ==
  ASSUME LoopTypes, AtFits, NEW s \in Slot, Closes(s)
  PROVE  Step(s)
<1>. USE DEF Steps
<1>1. CASE Handles(s, State \ {"free"}, Idle)
  <2>1. LoopTypes' /\ Busy /\ at' = Idle
    BY <1>1, HandlesIs
  <2>. QED BY <2>1 DEF Step, NextFits
<1>2. CASE Runs(s, "write", Idle) \/ Runs(s, "drain", Idle)
  <2>1. LoopTypes' /\ Busy /\ at' = Idle
    BY <1>2, RunsIs
  <2>. QED BY <2>1 DEF Step, NextFits
<1>. QED BY <1>1, <1>2 DEF Closes

-----------------------------------------------------------------------------
(* The invariant is inductive. *)

\* Nothing but the deadlines of s changed, for the worse or to none, and its
\* live hint is still there.
LEMMA KeepsCovered ==
  ASSUME LiveHinted, Covered, hq \in [Slot -> Nat], NEW q \in [Slot -> Nat], hq' = q,
         \A t \in Slot : q[t] # 0 => q[t] = hq[t] /\ gen'[t] = gen[t]
                                    /\ Hint(t, hq[t]) \in hints' /\ state'[t] # "free",
         \A t \in Slot : Relevant(t)' # 0 => Relevant(t)' = Relevant(t) /\ q[t] = hq[t]
  PROVE  LiveHinted' /\ Covered'
<1>1. \A t \in Slot : hq'[t] # 0 =>
        [deadline |-> hq'[t], slot |-> t, gen |-> gen'[t]] \in hints' /\ state'[t] # "free"
  BY DEF Hint
<1>2. LiveHinted'
  BY <1>1 DEF LiveHinted, Hint
<1>3. \A t \in Slot : Relevant(t)' # 0 => hq'[t] # 0 /\ hq'[t] <= Relevant(t)'
  BY DEF Covered
<1>4. Covered'
  BY <1>3 DEF Covered
<1>. QED BY <1>2, <1>4

LEMMA ConnectionKeeps ==
  ASSUME IInv, UNCHANGED now, NEW s \in Slot, Connection(s)
  PROVE  IInv'
<1>1. now \in Nat \ {0} /\ SlotTypes /\ HintTypes /\ LoopTypes
  BY TypeParts DEF IInv
<1>2. AtFits /\ LiveHinted /\ Covered
  BY DEF IInv
<1>3. ASSUME SlotTypes', HintTypes', Step(s), LiveHinted', Covered'
      PROVE  IInv'
  <2>1. AtFits' /\ NeverOversleeps'
    BY <1>3, FitsKept DEF Step, Busy, NeverOversleeps
  <2>2. LoopTypes'
    BY <1>3 DEF Step
  <2>3. (now \in Nat \ {0})'
    BY <1>1
  <2>4. TypeOK'
    BY <1>3, <2>2, <2>3 DEF TypeOK, SlotTypes, HintTypes, LoopTypes, HintSet
  <2>. QED BY <1>3, <2>1, <2>4 DEF IInv
<1>4. ASSUME NEW d \in now..(now + RequestMs + KeepaliveMs + LingerMs + HandlerMs),
             SetsDeadline(s, d) \/ Dispatches(s, d), Arm(hq, hints, s, d)
      PROVE  IInv'
  <2>1. d \in Int /\ d >= now
    BY <1>1, TimesAssumption
  <2>2. Counts(s, d) /\ Step(s)
    BY <1>1, <1>2, <1>4, <2>1, SetsDeadlineCounts, DispatchesCounts
  <2>3. hq \in [Slot -> Nat] /\ hints \in SUBSET HintSet
    BY <1>1 DEF HintTypes
  <2>4. \A t \in Slot : hq[t] # 0 => Hint(t, hq[t]) \in hints
    BY <1>2 DEF LiveHinted
  <2>5. HintTypes' /\ LiveHinted' /\ Covered'
    BY <1>1, <1>2, <1>4, <2>2, <2>3, <2>4, ArmCovers
  <2>. QED BY <1>3, <2>2, <2>5 DEF Counts
<1>5. CASE SetsNone(s) /\ UNCHANGED hinting
  <2>1. /\ SlotTypes' /\ gen' = gen
        /\ \A t \in Slot : Relevant(t)' \in {Relevant(t), 0}
        /\ \A t \in Slot : state'[t] = "free" => state[t] = "free"
        /\ Step(s)
    BY <1>1, <1>2, <1>5, SetsNoneKeeps
  <2>2. HintTypes' /\ hq' = hq /\ hints' = hints /\ hq \in [Slot -> Nat]
    BY <1>1, <1>5 DEF HintTypes, hinting
  <2>3. LiveHinted' /\ Covered'
    BY <1>2, <2>1, <2>2, KeepsCovered DEF LiveHinted
  <2>. QED BY <1>3, <2>1, <2>2, <2>3
<1>6. CASE Closes(s) /\ hq' = [hq EXCEPT ![s] = 0] /\ UNCHANGED hints
  <2>1. /\ SlotTypes' /\ Relevant(s)' = 0
        /\ \A t \in Slot \ {s} : gen'[t] = gen[t] /\ Relevant(t)' = Relevant(t)
                                    /\ state'[t] = state[t]
    BY <1>1, <1>6, FreedKeeps DEF Closes
  <2>2. /\ hq' \in [Slot -> Nat] /\ hq'[s] = 0 /\ hq \in [Slot -> Nat]
        /\ \A t \in Slot \ {s} : hq'[t] = hq[t]
        /\ hints' = hints
    BY <1>1, <1>6 DEF HintTypes
  <2>3. LiveHinted' /\ Covered'
    <3>1. \A t \in Slot : hq'[t] # 0 => hq'[t] = hq[t] /\ gen'[t] = gen[t]
                                       /\ Hint(t, hq[t]) \in hints' /\ state'[t] # "free"
      BY <1>2, <2>1, <2>2 DEF LiveHinted
    <3>2. \A t \in Slot : Relevant(t)' # 0 => Relevant(t)' = Relevant(t) /\ hq'[t] = hq[t]
      BY <2>1, <2>2
    <3>. QED BY <1>2, <2>2, <3>1, <3>2, KeepsCovered
  <2>4. HintTypes'
    BY <1>1, <2>2 DEF HintTypes
  <2>5. Step(s)
    BY <1>1, <1>2, <1>6, ClosesStep
  <2>. QED BY <1>3, <2>1, <2>3, <2>4, <2>5
<1>. QED BY <1>4, <1>5, <1>6 DEF Connection

\* What the sweep forgets and drops when it pops e is a hint, and if it is the
\* live hint of its slot, hqDeadline goes with it.
LEMMA PoppedHints ==
  ASSUME LiveHinted, HintTypes, SlotTypes, NEW e \in hints, gen[e.slot] = e.gen,
         NEW rest \in {hints, hints \ {e}}
  PROVE  /\ HqWithout(e) \in [Slot -> Nat]
         /\ \A t \in Slot \ {e.slot} : HqWithout(e)[t] = hq[t]
         /\ HqWithout(e)[e.slot] \in {0, hq[e.slot]}
         /\ \A t \in Slot : HqWithout(e)[t] # 0 => Hint(t, hq[t]) \in rest
<1>1. e.slot \in Slot /\ e.deadline \in Nat
  BY DEF HintTypes, HintSet
<1>2. /\ HqWithout(e) \in [Slot -> Nat]
      /\ \A t \in Slot \ {e.slot} : HqWithout(e)[t] = hq[t]
      /\ HqWithout(e)[e.slot] = IF hq[e.slot] = e.deadline THEN 0 ELSE hq[e.slot]
  BY <1>1 DEF HqWithout, HintTypes
<1>3. ASSUME NEW t \in Slot, HqWithout(e)[t] # 0
      PROVE  Hint(t, hq[t]) \in rest
  <2>1. hq[t] # 0 /\ Hint(t, hq[t]) \in hints
    BY <1>2, <1>3 DEF LiveHinted
  <2>2. Hint(t, hq[t]) # e
    BY <1>2, <1>3 DEF Hint
  <2>. QED BY <2>1, <2>2
<1>. QED BY <1>2, <1>3

LEMMA PopsKeeps ==
  ASSUME IInv, Pops
  PROVE  IInv'
<1>1. now \in Nat \ {0} /\ SlotTypes /\ HintTypes /\ LoopTypes /\ now' = now
  BY TypeParts DEF IInv, Pops
<1>2. AtFits /\ LiveHinted /\ Covered /\ phase = "sweep"
  BY DEF IInv, Pops
<1>3a. PICK e \in hints : \E r \in {hints, hints \ {e}} : Sweeps(e, r)
  BY DEF Pops
<1>3. PICK rest \in {hints, hints \ {e}} : Sweeps(e, rest)
  BY <1>3a
<1>. DEFINE s == e.slot
<1>4. s \in Slot /\ rest \subseteq HintSet /\ hq \in [Slot -> Nat]
  BY <1>1 DEF HintTypes, HintSet
<1>5. ASSUME SlotTypes', HintTypes', LoopTypes', AtFits', LiveHinted', Covered', phase' = "sweep"
      PROVE  IInv'
  <2>1. TypeOK'
    BY <1>1, <1>5 DEF TypeOK, SlotTypes, HintTypes, LoopTypes, HintSet
  <2>2. NeverOversleeps'
    BY <1>5 DEF NeverOversleeps
  <2>. QED BY <1>5, <2>1, <2>2 DEF IInv
<1>6. ASSUME UNCHANGED loop, UNCHANGED slots
      PROVE  /\ LoopTypes' /\ AtFits' /\ phase' = "sweep" /\ SlotTypes' /\ gen' = gen
             /\ \A t \in Slot : Relevant(t)' = Relevant(t) /\ state'[t] = state[t]
  BY <1>1, <1>2, <1>6 DEF loop, slots, LoopTypes, SlotTypes, AtFits, Relevant
<1>7. CASE Recycled(e) /\ hq' = hq /\ hints' = rest /\ UNCHANGED <<slots, loop>>
  <2>1. /\ LoopTypes' /\ AtFits' /\ phase' = "sweep" /\ SlotTypes' /\ gen' = gen
        /\ \A t \in Slot : Relevant(t)' = Relevant(t) /\ state'[t] = state[t]
    BY <1>6, <1>7
  <2>2. \A t \in Slot : hq[t] # 0 => Hint(t, hq[t]) \in rest /\ state[t] # "free"
    <3>1. ASSUME NEW t \in Slot, hq[t] # 0
          PROVE  Hint(t, hq[t]) # e
      BY <1>2, <1>7, <3>1 DEF Hint, Recycled, LiveHinted
    <3>. QED BY <1>2, <3>1 DEF LiveHinted
  <2>3. LiveHinted' /\ Covered'
    <3>1. \A t \in Slot : hq'[t] # 0 => hq'[t] = hq[t] /\ gen'[t] = gen[t]
                                       /\ Hint(t, hq[t]) \in hints' /\ state'[t] # "free"
      BY <1>7, <2>1, <2>2
    <3>2. \A t \in Slot : Relevant(t)' # 0 => Relevant(t)' = Relevant(t) /\ hq'[t] = hq[t]
      BY <1>7, <2>1
    <3>. QED BY <1>2, <1>4, <1>7, <3>1, <3>2, KeepsCovered
  <2>4. HintTypes'
    BY <1>4, <1>7 DEF HintTypes
  <2>. QED BY <1>5, <2>1, <2>3, <2>4
<1>8. ASSUME ~Recycled(e)
      PROVE  /\ HqWithout(e) \in [Slot -> Nat]
             /\ \A t \in Slot \ {s} : HqWithout(e)[t] = hq[t]
             /\ HqWithout(e)[s] \in {0, hq[s]}
             /\ \A t \in Slot : HqWithout(e)[t] # 0 => Hint(t, hq[t]) \in rest
             /\ \A t \in Slot : HqWithout(e)[t] # 0 => HqWithout(e)[t] = hq[t]
  <2>1. gen[e.slot] = e.gen
    BY <1>8 DEF Recycled
  <2>. QED BY <1>1, <1>2, <2>1, PoppedHints
<1>9. ASSUME ~Recycled(e), NEW d, Counts(s, d), Arm(HqWithout(e), rest, s, d)
      PROVE  HintTypes' /\ LiveHinted' /\ Covered'
  <2>. DEFINE q == HqWithout(e)
  <2>1. \A t \in Slot : q[t] # 0 => Hint(t, q[t]) \in rest
    BY <1>8, <1>9
  <2>. HIDE DEF q, s
  <2>2. q \in [Slot -> Nat] /\ \A t \in Slot \ {s} : q[t] = hq[t]
    BY <1>8, <1>9 DEF q
  <2>3. Arm(q, rest, s, d)
    BY <1>9 DEF q
  <2>. QED BY <1>1, <1>2, <1>4, <1>9, <2>1, <2>2, <2>3, ArmCovers
<1>10. CASE ~Recycled(e) /\ Relevant(s) = 0
            /\ hq' = HqWithout(e) /\ hints' = rest /\ UNCHANGED <<slots, loop>>
  <2>1. /\ LoopTypes' /\ AtFits' /\ phase' = "sweep" /\ SlotTypes' /\ gen' = gen
        /\ \A t \in Slot : Relevant(t)' = Relevant(t) /\ state'[t] = state[t]
    BY <1>6, <1>10
  <2>2. HintTypes'
    BY <1>4, <1>8, <1>10 DEF HintTypes
  <2>3. LiveHinted' /\ Covered'
    <3>1. \A t \in Slot : hq'[t] # 0 => hq'[t] = hq[t] /\ gen'[t] = gen[t]
                                       /\ Hint(t, hq[t]) \in hints' /\ state'[t] # "free"
      BY <1>2, <1>8, <1>10, <2>1 DEF LiveHinted
    <3>2. \A t \in Slot : Relevant(t)' # 0 => Relevant(t)' = Relevant(t) /\ hq'[t] = hq[t]
      BY <1>8, <1>10, <2>1
    <3>. QED BY <1>2, <1>4, <1>8, <1>10, <3>1, <3>2, KeepsCovered
  <2>. QED BY <1>5, <2>1, <2>2, <2>3
<1>11. CASE ~Recycled(e) /\ Relevant(s) # 0 /\ Arm(HqWithout(e), rest, s, Relevant(s))
            /\ UNCHANGED <<slots, loop>>
  <2>1. /\ LoopTypes' /\ AtFits' /\ phase' = "sweep" /\ SlotTypes' /\ gen' = gen
        /\ \A t \in Slot : Relevant(t)' = Relevant(t) /\ state'[t] = state[t]
    BY <1>6, <1>11
  <2>2. Counts(s, Relevant(s))
    BY <1>1, <1>4, <1>11, <2>1, RelevantIsNat DEF Counts
  <2>3. HintTypes' /\ LiveHinted' /\ Covered'
    BY <1>9, <1>11, <2>2
  <2>. QED BY <1>5, <2>1, <2>3
<1>12. CASE ~Recycled(e) /\ AnswersLate(s, now + RequestMs)
            /\ Arm(HqWithout(e), rest, s, now + RequestMs)
  <2>1. LoopTypes' /\ phase' = "sweep" /\ Busy /\ at' = <<"write", s>>
    BY <1>1, <1>2, <1>4, <1>12 DEF AnswersLate, LoopTypes, Steps, Busy
  <2>2. state'[s] \in {"reading", "writing"}
    BY <1>1, <1>4, <1>12 DEF AnswersLate, To, SlotTypes
  <2>3. Counts(s, now + RequestMs)
    <3>1. now + RequestMs \in Nat \ {0}
      BY <1>1, TimesAssumption
    <3>2. "writing" \in State
      BY DEF State
    <3>3. /\ gen' = gen /\ Due(s, now + RequestMs)
          /\ state' = state \/ To(s, "writing")
          /\ handlerDeadline' = handlerDeadline \/ HandlerDue(s, 0)
      BY <1>12 DEF AnswersLate
    <3>. QED BY <1>1, <1>4, <2>2, <3>1, <3>2, <3>3, DeliveryCounts
  <2>4. HintTypes' /\ LiveHinted' /\ Covered'
    BY <1>9, <1>12, <2>3
  <2>5. AtFits'
    BY <1>4, <2>1, <2>2, FitsKept DEF NextFits
  <2>. QED BY <1>5, <2>1, <2>3, <2>4, <2>5 DEF Counts
<1>13. CASE ~Recycled(e) /\ Drops(s) /\ hq' = [hq EXCEPT ![s] = 0] /\ hints' = rest
  <2>1. /\ SlotTypes' /\ Relevant(s)' = 0
        /\ \A t \in Slot \ {s} : gen'[t] = gen[t] /\ Relevant(t)' = Relevant(t)
                                    /\ state'[t] = state[t]
    BY <1>1, <1>4, <1>13, FreedKeeps DEF Drops
  <2>2. LoopTypes' /\ phase' = "sweep" /\ Busy /\ at' = Idle
    BY <1>1, <1>2, <1>13 DEF Drops, loop, LoopTypes, Busy, Pops
  <2>3. AtFits'
    BY <1>4, <2>2, FitsKept DEF NextFits
  <2>4. /\ hq' \in [Slot -> Nat] /\ hq'[s] = 0
        /\ \A t \in Slot \ {s} : hq'[t] = hq[t]
    BY <1>4, <1>13
  <2>5. HintTypes'
    BY <1>4, <1>13, <2>4 DEF HintTypes
  <2>6. LiveHinted' /\ Covered'
    <3>1. \A t \in Slot \ {s} : hq[t] # 0 => Hint(t, hq[t]) \in rest
      <4>1. \A t \in Slot \ {s} : Hint(t, hq[t]) # e
        BY DEF Hint
      <4>. QED BY <1>2, <4>1 DEF LiveHinted
    <3>2. \A t \in Slot : hq'[t] # 0 => hq'[t] = hq[t] /\ gen'[t] = gen[t]
                                       /\ Hint(t, hq[t]) \in hints' /\ state'[t] # "free"
      BY <1>2, <1>13, <2>1, <2>4, <3>1 DEF LiveHinted
    <3>3. \A t \in Slot : Relevant(t)' # 0 => Relevant(t)' = Relevant(t) /\ hq'[t] = hq[t]
      BY <2>1, <2>4
    <3>. QED BY <1>2, <1>4, <2>4, <3>2, <3>3, KeepsCovered
  <2>. QED BY <1>5, <2>1, <2>2, <2>3, <2>5, <2>6
<1>. QED BY <1>3, <1>7, <1>10, <1>11, <1>12, <1>13 DEF Sweeps

-----------------------------------------------------------------------------
(* The other steps of the loop change neither the slots nor the hints. *)

\* A step of the loop that leaves the slots, the hints and the handlers alone.
LEMMA LoopKeeps ==
  ASSUME IInv, (now \in Nat \ {0})', LoopTypes', UNCHANGED <<slots, hinting, at>>,
         phase' \in {"tick", "wait"} => at = Idle, NeverOversleeps'
  PROVE  IInv'
<1>1. SlotTypes /\ HintTypes /\ AtFits /\ LiveHinted /\ Covered
  BY TypeParts DEF IInv
<1>2. SlotTypes' /\ HintTypes'
  BY <1>1 DEF SlotTypes, HintTypes, slots, hinting
<1>3. TypeOK'
  BY <1>2 DEF TypeOK, SlotTypes, HintTypes, LoopTypes, HintSet
<1>4. AtFits'
  BY <1>1 DEF AtFits, slots
<1>5. hq' = hq /\ hints' = hints /\ gen' = gen /\ state' = state
      /\ \A s \in Slot : Relevant(s)' = Relevant(s)
  BY DEF slots, hinting, Relevant
<1>6. LiveHinted'
  BY <1>1, <1>5 DEF LiveHinted, Hint
<1>7. Covered'
  BY <1>1, <1>5 DEF Covered
<1>. QED BY <1>3, <1>4, <1>6, <1>7 DEF IInv

\* The wait ends at the least hint at the latest, and no deadline is earlier.
LEMMA WaitsKeeps ==
  ASSUME IInv, Waits
  PROVE  IInv'
<1>1. now \in Nat \ {0} /\ SlotTypes /\ HintTypes /\ LoopTypes
  BY TypeParts DEF IInv
<1>2. AtFits /\ LiveHinted /\ Covered
  BY DEF IInv
<1>3. PICK t : /\ WaitUntil(t)
               /\ \/ hints = {} /\ t = now + WaitMs
                  \/ \E e \in hints : /\ Least(e, hints)
                                      /\ t = IF e.deadline < now + WaitMs
                                                THEN e.deadline ELSE now + WaitMs
  BY DEF Waits
<1>4. /\ phase = "tick" /\ phase' = "wait" /\ wakeAt' = t
      /\ now' = now /\ UNCHANGED <<slots, hinting, left, at>>
  BY <1>3 DEF WaitUntil
<1>5. t \in Nat /\ \A e \in hints : t <= e.deadline
  <2>1. now + WaitMs \in Nat
    BY <1>1, TimesAssumption
  <2>2. \A e \in hints : e.deadline \in Nat
    BY <1>1 DEF HintTypes, HintSet
  <2>3. CASE hints = {} /\ t = now + WaitMs
    BY <2>1, <2>3
  <2>4. CASE hints # {}
    <3>1. PICK e \in hints : /\ Least(e, hints)
                             /\ t = IF e.deadline < now + WaitMs
                                       THEN e.deadline ELSE now + WaitMs
      BY <1>3, <2>4
    <3>2. \A f \in hints : e.deadline <= f.deadline
      BY <3>1 DEF Least
    <3>3. t \in Nat /\ t <= e.deadline
      BY <2>1, <2>2, <3>1
    <3>. QED BY <2>2, <3>2, <3>3
  <2>. QED BY <1>3, <2>3, <2>4
<1>6. NeverOversleeps'
  <2>1. ASSUME NEW s \in Slot, Relevant(s) # 0
        PROVE  t <= Relevant(s)
    <3>1. hq[s] # 0 /\ hq[s] <= Relevant(s) /\ hq[s] \in Nat /\ Relevant(s) \in Nat
      BY <1>1, <1>2, <2>1, RelevantIsNat DEF Covered, HintTypes
    <3>2. Hint(s, hq[s]) \in hints
      BY <1>2, <3>1 DEF LiveHinted
    <3>3. t <= hq[s]
      BY <1>5, <3>2 DEF Hint
    <3>. QED BY <1>5, <3>1, <3>3
  <2>2. \A s \in Slot : Relevant(s)' = Relevant(s)
    BY <1>4 DEF slots, Relevant
  <2>. QED BY <1>4, <2>1, <2>2 DEF NeverOversleeps
<1>7. LoopTypes'
  BY <1>1, <1>4, <1>5 DEF LoopTypes
<1>8. at = Idle
  BY <1>2, <1>4 DEF AtFits
<1>. QED BY <1>1, <1>4, <1>6, <1>7, <1>8, LoopKeeps

LEMMA TimersKeep ==
  ASSUME IInv, WaitReturns \/ WaitTimesOut \/ IgnoresEvent \/ EventsEnd \/ SweepEnds
  PROVE  IInv'
<1>1. now \in Nat \ {0} /\ LoopTypes
  BY TypeParts DEF IInv
<1>2. /\ now' = now /\ UNCHANGED <<slots, hinting, at>>
      /\ phase' \in {"tick", "events", "sweep"}
  BY DEF WaitReturns, WaitTimesOut, IgnoresEvent, EventsEnd, SweepEnds
<1>3. phase' = "tick" => at = Idle
  BY DEF WaitReturns, WaitTimesOut, IgnoresEvent, EventsEnd, SweepEnds
<1>4. left' \in Nat /\ wakeAt' \in Nat
  <2>1. CASE WaitReturns
    BY <2>1, TimesAssumption DEF WaitReturns
  <2>2. CASE IgnoresEvent
    BY <1>1, <2>2 DEF IgnoresEvent, LoopTypes
  <2>3. CASE WaitTimesOut \/ EventsEnd \/ SweepEnds
    BY <1>1, <2>3 DEF WaitTimesOut, EventsEnd, SweepEnds, LoopTypes
  <2>. QED BY <2>1, <2>2, <2>3
<1>5. LoopTypes'
  BY <1>1, <1>2, <1>4 DEF LoopTypes
<1>6. NeverOversleeps'
  BY <1>2 DEF NeverOversleeps
<1>7. (now \in Nat \ {0})'
  BY <1>1, <1>2
<1>. QED BY <1>2, <1>3, <1>5, <1>6, <1>7, LoopKeeps

LEMMA TimePassesKeeps ==
  ASSUME IInv, TimePasses
  PROVE  IInv'
<1>1. now \in Nat \ {0} /\ LoopTypes /\ AtFits /\ NeverOversleeps
  BY TypeParts DEF IInv
<1>2. now' = now + 1 /\ UNCHANGED <<slots, hinting, loop>>
  BY DEF TimePasses
<1>3. (now \in Nat \ {0})'
  BY <1>1, <1>2
<1>4. LoopTypes' /\ UNCHANGED <<phase, at, wakeAt>>
  BY <1>1, <1>2 DEF LoopTypes, loop
<1>5. \A s \in Slot : Relevant(s)' = Relevant(s)
  BY <1>2 DEF slots, Relevant
<1>6. NeverOversleeps'
  BY <1>1, <1>4, <1>5 DEF NeverOversleeps
<1>7. phase' \in {"tick", "wait"} => at = Idle
  BY <1>1, <1>4 DEF AtFits
<1>. QED BY <1>2, <1>3, <1>4, <1>6, <1>7, LoopKeeps

-----------------------------------------------------------------------------

LEMMA InitIInv == Init => IInv
<1>. SUFFICES ASSUME Init PROVE IInv
  OBVIOUS
<1>1. now \in Nat \ {0} /\ SlotTypes /\ HintTypes /\ LoopTypes
  BY DEF Init, SlotTypes, HintTypes, LoopTypes, State
<1>2. \A s \in Slot : Relevant(s) = 0
  BY DEF Init, Relevant
<1>3. AtFits
  BY NotIdle DEF Init, AtFits, Steps
<1>4. LiveHinted /\ Covered /\ NeverOversleeps
  BY <1>2 DEF Init, LiveHinted, Covered, NeverOversleeps
<1>. QED BY <1>1, <1>3, <1>4, TypeParts DEF IInv

LEMMA NextIInv == IInv /\ [Next]_vars => IInv'
<1>. SUFFICES ASSUME IInv, [Next]_vars PROVE IInv'
  OBVIOUS
<1>1. CASE Handlers
  <2>1. PICK s \in Slot : Connection(s)
    BY <1>1 DEF Handlers
  <2>2. UNCHANGED now
    BY <1>1 DEF Handlers
  <2>. QED BY <2>1, <2>2, ConnectionKeeps
<1>2. CASE Waits
  BY <1>2, WaitsKeeps
<1>3. CASE WaitReturns \/ WaitTimesOut \/ IgnoresEvent \/ EventsEnd \/ SweepEnds
  BY <1>3, TimersKeep
<1>4. CASE Pops
  BY <1>4, PopsKeeps
<1>5. CASE TimePasses
  BY <1>5, TimePassesKeeps
<1>6. CASE UNCHANGED vars
  <2>1. now \in Nat \ {0} /\ LoopTypes /\ AtFits /\ NeverOversleeps
    BY TypeParts DEF IInv
  <2>2. now' = now /\ UNCHANGED <<slots, hinting, loop>>
    BY <1>6 DEF vars
  <2>3. LoopTypes' /\ UNCHANGED <<phase, at, wakeAt>>
    BY <2>1, <2>2 DEF LoopTypes, loop
  <2>4. \A s \in Slot : Relevant(s)' = Relevant(s)
    BY <2>2 DEF slots, Relevant
  <2>5. NeverOversleeps'
    BY <2>1, <2>3, <2>4 DEF NeverOversleeps
  <2>6. phase' \in {"tick", "wait"} => at = Idle
    BY <2>1, <2>3 DEF AtFits
  <2>7. (now \in Nat \ {0})'
    BY <2>1, <2>2
  <2>. QED BY <2>2, <2>3, <2>5, <2>6, <2>7, LoopKeeps
<1>. QED BY <1>1, <1>2, <1>3, <1>4, <1>5, <1>6 DEF Next

LEMMA SpecIInv == Spec => []IInv
BY InitIInv, NextIInv, PTL DEF Spec

\* Every reachable state of the server's deadlines has the right types.
THEOREM TypeCorrect == Spec => []TypeOK
<1>1. IInv => TypeOK
  BY DEF IInv
<1>. QED BY <1>1, SpecIInv, PTL

\* A connection with a deadline always has a hint in the heap, of its own
\* generation and no later than the deadline, though armSlot adds none when the
\* deadline moves later and the sweep takes hints out (server.sx, armSlot and
\* sweepDeadlines).
THEOREM DeadlinesAreHinted == Spec => []EveryDeadlineHinted
<1>1. IInv => EveryDeadlineHinted
  BY DEF IInv, LiveHinted, Covered, EveryDeadlineHinted
<1>. QED BY <1>1, SpecIInv, PTL

\* The wait of tick, bounded by the least hint alone, ends no later than the
\* deadline of any connection.
THEOREM LoopNeverOversleeps == Spec => []NeverOversleeps
<1>1. IInv => NeverOversleeps
  BY DEF IInv
<1>. QED BY <1>1, SpecIInv, PTL

\* sweepDeadlines leaves no connection that is past its deadline, and evicts no
\* other.
THEOREM SweepExact == Spec => SweepsAreExact
<1>1. IInv /\ [Next]_vars => [SweepIsExact]_vars
  <2>. SUFFICES ASSUME IInv, Next, phase = "sweep" PROVE SweepIsExact
    BY DEF SweepIsExact, vars, loop
  <2>1. now \in Nat \ {0} /\ SlotTypes /\ HintTypes /\ LiveHinted /\ Covered
    BY TypeParts DEF IInv
  <2>2. ASSUME phase' = "tick", NEW s \in Slot
        PROVE  ~IsLate(s)
    <3>1. SweepEnds
      <4>1. ~Handlers
        BY <2>2 DEF Handlers, Connection, SetsDeadline, Accepts, HandshakeDone, NextRequest,
                    Rejects, DispatchesStreamed, BodyProgress, Completes, StreamsOn,
                    ServesNext, KeepsAlive, Lingers, Dispatches, ReachesHandler, SetsNone,
                    DispatchesUnbounded, Submits, BytesArrive, Incomplete, AnswersInline,
                    Writable, WriteBlocks, DrainedDry, Closes, Handles, Runs
      <4>2. ~Pops
        BY <2>2 DEF Pops, Sweeps, AnswersLate, Drops, loop
      <4>. QED BY <2>2, <4>1, <4>2 DEF Next, Waits, WaitUntil, WaitReturns, WaitTimesOut,
                                       IgnoresEvent, EventsEnd, TimePasses, loop
    <3>2. \A e \in hints : e.deadline > now
      BY <3>1 DEF SweepEnds
    <3>3. ASSUME Relevant(s) # 0
          PROVE  Relevant(s) > now
      <4>1. hq[s] # 0 /\ hq[s] <= Relevant(s) /\ hq[s] \in Nat /\ Relevant(s) \in Nat
        BY <2>1, <3>3, RelevantIsNat DEF Covered, HintTypes
      <4>2. Hint(s, hq[s]) \in hints
        BY <2>1, <4>1 DEF LiveHinted
      <4>3. hq[s] > now
        BY <3>2, <4>2 DEF Hint
      <4>. QED BY <2>1, <4>1, <4>3
    <3>4. Relevant(s) \in Nat
      BY <2>1, RelevantIsNat
    <3>. QED BY <2>1, <3>3, <3>4 DEF IsLate, Expired
  <2>3. ASSUME at = Idle, NEW s \in Slot, gen'[s] # gen[s] \/ at' = <<"write", s>>
        PROVE  IsLate(s)
    <3>1. at' # at \/ gen' # gen
      BY <2>3 DEF Idle
    <3>2. \A t \in Slot, k \in Steps : at # <<k, t>>
      BY <2>3 DEF Idle
    <3>3. ~Handlers
      BY <3>2 DEF Handlers, Connection, SetsDeadline, Accepts, HandshakeDone, NextRequest,
                  Rejects, DispatchesStreamed, BodyProgress, Completes, StreamsOn,
                  ServesNext, KeepsAlive, Lingers, Dispatches, ReachesHandler, SetsNone,
                  DispatchesUnbounded, Submits, BytesArrive, Incomplete, AnswersInline,
                  Writable, WriteBlocks, DrainedDry, Closes, Handles, Runs, Steps
    <3>4. Pops
      BY <3>1, <3>3 DEF Next, Waits, WaitUntil, WaitReturns, WaitTimesOut, IgnoresEvent,
                        EventsEnd, SweepEnds, TimePasses, slots, loop
    <3>5. PICK e \in hints : \E r \in {hints, hints \ {e}} : Sweeps(e, r)
      BY <3>4 DEF Pops
    <3>6. e.slot \in Slot
      BY <2>1 DEF HintTypes, HintSet
    <3>7. CASE UNCHANGED <<slots, loop>>
      BY <3>1, <3>7 DEF slots, loop
    <3>8. CASE IsLate(e.slot) /\ AnswersLate(e.slot, now + RequestMs)
      <4>1. gen' = gen /\ at' = <<"write", e.slot>>
        BY <3>8 DEF AnswersLate
      <4>2. e.slot = s
        BY <2>3, <4>1
      <4>. QED BY <3>8, <4>2
    <3>9. CASE IsLate(e.slot) /\ Drops(e.slot)
      <4>1. at' # <<"write", s>>
        BY <2>3, <3>9 DEF Drops, loop, Idle
      <4>2. \A t \in Slot \ {e.slot} : gen'[t] = gen[t]
        BY <3>6, <3>9, <2>1 DEF Drops, Freed, SlotTypes
      <4>. QED BY <2>3, <3>9, <4>1, <4>2
    <3>. QED BY <3>5, <3>7, <3>8, <3>9 DEF Sweeps
  <2>. QED BY <2>2, <2>3 DEF SweepIsExact
<1>. QED BY <1>1, SpecIInv, PTL DEF Spec, SweepsAreExact

-----------------------------------------------------------------------------
(* The array heap of the code, which DeadlineHeap has in the place of the set *)
(* of hints.  First what loops and least elements come to.                   *)

VARIABLE dheap

H == INSTANCE DeadlineHeap

LEMMA LeastOf ==
  ASSUME NEW S \in SUBSET Nat, S # {}
  PROVE  \E m \in S : \A k \in S : m <= k
<1>. DEFINE R == {ss \in Nat \X Nat : ss[1] < ss[2]}
<1>1. IsWellFoundedOn(R, Nat)
  BY NatLessThanWellFounded DEF OpToRel
<1>. HIDE DEF R
<1>2. PICK m \in S : \A k \in S : ~(<<k, m>> \in R)
  BY <1>1, WFMin
<1>3. \A k \in S : ~(k < m)
  BY <1>2 DEF R
<1>. QED BY <1>2, <1>3

\* The function that After defines by recursion, and that there is one.
IsAfter(n, turn, x, f) ==
  f = [k \in 0..n |-> IF k = 0 THEN x ELSE turn[f[k - 1]]]

LEMMA AfterExists ==
  ASSUME NEW n \in Nat, NEW turn, NEW x
  PROVE  \E f : IsAfter(n, turn, x, f)
<1>. USE DEF IsAfter
<1>. DEFINE Is(f, m) == IsAfter(m, turn, x, f)
<1>. DEFINE Bad == {m \in Nat : ~\E f : Is(f, m)}
<1>1. SUFFICES Bad = {}
  OBVIOUS
<1>2. SUFFICES ASSUME Bad # {} PROVE FALSE
  OBVIOUS
<1>3. PICK m \in Bad : \A k \in Bad : m <= k
  <2>1. Bad \in SUBSET Nat
    OBVIOUS
  <2>. HIDE DEF Bad
  <2>. QED BY <1>2, <2>1, LeastOf
<1>4. CASE m = 0
  <2>. DEFINE f == [k \in 0..m |-> x]
  <2>1. Is(f, m)
    BY <1>4
  <2>. QED BY <2>1
<1>5. CASE m # 0
  <2>1. m - 1 \in Nat /\ m - 1 \notin Bad
    <3>1. m \in Nat /\ \A k \in Bad : m <= k
      BY <1>3
    <3>. HIDE DEF Bad
    <3>. QED BY <3>1, <1>5
  <2>2. PICK f : Is(f, m - 1)
    BY <2>1
  <2>. DEFINE g == [k \in 0..m |-> IF k = m THEN turn[f[m - 1]] ELSE f[k]]
  <2>3. ASSUME NEW k \in 0..m
        PROVE  g[k] = IF k = 0 THEN x ELSE turn[g[k - 1]]
    <3>1. CASE k = m
      <4>1. g[k] = turn[f[m - 1]] /\ g[k - 1] = f[m - 1]
        BY <1>5, <3>1, <2>1
      <4>. QED BY <4>1, <1>5, <3>1
    <3>2. CASE k # m
      <4>1. k \in 0..(m - 1)
        BY <3>2
      <4>2. g[k] = f[k]
        BY <3>2
      <4>3. k # 0 => g[k - 1] = f[k - 1]
        BY <4>1
      <4>4. f[k] = IF k = 0 THEN x ELSE turn[f[k - 1]]
        BY <2>2, <4>1
      <4>. QED BY <4>2, <4>3, <4>4
    <3>. QED BY <3>1, <3>2
  <2>4. g = [k \in 0..m |-> IF k = 0 THEN x ELSE turn[g[k - 1]]]
    <3>. HIDE DEF g
    <3>1. g = [k \in 0..m |-> g[k]]
      BY DEF g
    <3>. QED BY <2>3, <3>1
  <2>5. Is(g, m)
    BY <2>4
  <2>. QED BY <2>5
<1>. QED BY <1>4, <1>5

\* What holds of the start and goes from every turn to the next holds at the end.
LEMMA AfterIs ==
  ASSUME NEW n \in Nat, NEW turn, NEW x, NEW I, x \in I[0],
         \A m \in 1..n : \A y \in I[m - 1] : turn[y] \in I[m]
  PROVE  H!After(n, turn, x) \in I[n]
<1>. DEFINE f == CHOOSE f : IsAfter(n, turn, x, f)
<1>1. f = [k \in 0..n |-> IF k = 0 THEN x ELSE turn[f[k - 1]]]
  <2>1. IsAfter(n, turn, x, f)
    BY AfterExists
  <2>. HIDE DEF f
  <2>. QED BY <2>1 DEF IsAfter
<1>2. H!After(n, turn, x) = f[n]
  BY DEF H!After, IsAfter
<1>. HIDE DEF f
<1>. DEFINE Bad == {m \in 0..n : f[m] \notin I[m]}
<1>3. ASSUME Bad # {} PROVE FALSE
  <2>1. PICK m \in Bad : \A k \in Bad : m <= k
    <3>1. Bad \in SUBSET Nat
      OBVIOUS
    <3>. HIDE DEF Bad
    <3>. QED BY <1>3, <3>1, LeastOf
  <2>2. m # 0
    BY <1>1
  <2>3. m \in 1..n /\ m - 1 \in 0..n /\ m - 1 \notin Bad
    BY <2>1, <2>2
  <2>4. f[m] = turn[f[m - 1]]
    BY <1>1, <2>3
  <2>. QED BY <2>3, <2>4
<1>. QED BY <1>2, <1>3

-----------------------------------------------------------------------------
(* The heap. *)

EntriesOf(h) == {h[i] : i \in DOMAIN h}

\* No entry comes before the one above it, except that the entry of place p may
\* have to rise, or to sink.
HeapOrdered(h) ==
  \A i \in DOMAIN h : i > 1 => h[H!Parent(i)].deadline <= h[i].deadline

UpTo(h, p) ==
  \A i \in DOMAIN h : i > 1 =>
    /\ i # p => h[H!Parent(i)].deadline <= h[i].deadline
    /\ H!Parent(i) = p /\ p > 1 => h[H!Parent(p)].deadline <= h[i].deadline

DownTo(h, p) ==
  \A i \in DOMAIN h : i > 1 =>
    /\ H!Parent(i) # p => h[H!Parent(i)].deadline <= h[i].deadline
    /\ H!Parent(i) = p /\ p > 1 => h[H!Parent(p)].deadline <= h[i].deadline

LEMMA ParentIs ==
  ASSUME NEW i \in Nat, i > 1
  PROVE  /\ H!Parent(i) \in 1..(i - 1)
         /\ i = 2 * H!Parent(i) \/ i = 2 * H!Parent(i) + 1
BY DEF H!Parent

LEMMA SwappedIs ==
  ASSUME NEW n \in Nat, NEW h \in [1..n -> HintSet], NEW i \in 1..n, NEW j \in 1..n
  PROVE  /\ H!Swapped(h, i, j) \in [1..n -> HintSet]
         /\ H!Swapped(h, i, j)[j] = h[i]
         /\ H!Swapped(h, i, j)[i] = h[j]
         /\ \A k \in 1..n : k # i /\ k # j => H!Swapped(h, i, j)[k] = h[k]
         /\ EntriesOf(H!Swapped(h, i, j)) = EntriesOf(h)
<1>. DEFINE g == H!Swapped(h, i, j)
<1>1. /\ g \in [1..n -> HintSet] /\ g[j] = h[i] /\ g[i] = h[j]
      /\ \A k \in 1..n : k # i /\ k # j => g[k] = h[k]
  BY DEF H!Swapped
<1>. HIDE DEF g
<1>2. EntriesOf(g) = EntriesOf(h)
  BY <1>1 DEF EntriesOf
<1>. QED BY <1>1, <1>2 DEF g

\* A turn of the sift that rises.
LEMMA RisesTo ==
  ASSUME NEW n \in Nat, NEW h \in [1..n -> HintSet], NEW p \in 1..n,
         UpTo(h, p), p > 1, h[H!Parent(p)].deadline > h[p].deadline
  PROVE  UpTo(H!Swapped(h, p, H!Parent(p)), H!Parent(p))
<1>. DEFINE q == H!Parent(p)
<1>. DEFINE g == H!Swapped(h, p, q)
<1>1. q \in 1..(p - 1) /\ q \in 1..n
  BY ParentIs
<1>2. /\ g \in [1..n -> HintSet] /\ g[p] = h[q] /\ g[q] = h[p]
      /\ \A k \in 1..n : k # p /\ k # q => g[k] = h[k]
  <2>. HIDE DEF q
  <2>. QED BY <1>1, SwappedIs
<1>3. h[q].deadline > h[p].deadline
  OBVIOUS
<1>4. \A k \in 1..n : h[k].deadline \in Int
  BY DEF HintSet
<1>. HIDE DEF g, q
<1>5. ASSUME NEW i \in 1..n, i > 1
      PROVE  /\ i # q => g[H!Parent(i)].deadline <= g[i].deadline
             /\ H!Parent(i) = q /\ q > 1 => g[H!Parent(q)].deadline <= g[i].deadline
  <2>. DEFINE r == H!Parent(i)
  <2>1. r \in 1..(i - 1) /\ r \in 1..n
    BY <1>5, ParentIs
  <2>2. /\ i # p => h[r].deadline <= h[i].deadline
        /\ r = p => h[q].deadline <= h[i].deadline
    BY <1>5 DEF UpTo, q
  <2>3. i = p => r = q
    BY DEF q
  <2>4. i # q => g[r].deadline <= g[i].deadline
    <3>. HIDE DEF r
    <3>1. CASE i = p
      BY <1>1, <1>2, <1>3, <1>4, <2>1, <2>3, <3>1
    <3>2. CASE i # p /\ i # q
      BY <1>1, <1>2, <1>3, <1>4, <2>1, <2>2, <3>2
    <3>. QED BY <3>1, <3>2
  <2>5. ASSUME r = q, q > 1
        PROVE  g[H!Parent(q)].deadline <= g[i].deadline
    <3>1. H!Parent(q) \in 1..(q - 1) /\ H!Parent(q) \in 1..n
      BY <1>1, <2>5, ParentIs
    <3>2. h[H!Parent(q)].deadline <= h[q].deadline
      BY <1>1, <2>5 DEF UpTo
    <3>3. g[H!Parent(q)] = h[H!Parent(q)]
      BY <1>1, <1>2, <3>1
    <3>4. h[q].deadline <= g[i].deadline
      BY <1>1, <1>2, <1>4, <2>1, <2>2, <2>5
    <3>5. g[i].deadline \in Int
      BY <1>2 DEF HintSet
    <3>. HIDE DEF r
    <3>. QED BY <1>1, <1>4, <3>1, <3>2, <3>3, <3>4, <3>5
  <2>. QED BY <2>4, <2>5
<1>. QED BY <1>2, <1>5 DEF UpTo, g, q

LEMMA SmallerChildIs ==
  ASSUME NEW n \in Nat, NEW h \in [1..n -> HintSet], NEW p \in 1..n, 2 * p <= n
  PROVE  /\ H!SmallerChild(h, p) \in (p + 1)..n
         /\ H!Parent(H!SmallerChild(h, p)) = p
         /\ \A i \in 1..n : i > 1 /\ H!Parent(i) = p =>
              h[H!SmallerChild(h, p)].deadline <= h[i].deadline
<1>. DEFINE c == H!SmallerChild(h, p)
<1>1. Len(h) = n
  BY LenProperties
<1>2. \A k \in 1..n : h[k].deadline \in Int
  BY DEF HintSet
<1>3. c = 2 * p \/ (c = 2 * p + 1 /\ c <= n)
  BY <1>1 DEF H!SmallerChild
<1>4. ASSUME NEW i \in 1..n, i > 1, H!Parent(i) = p
      PROVE  h[c].deadline <= h[i].deadline
  <2>1. i = 2 * p \/ i = 2 * p + 1
    <3>1. i \in Nat
      OBVIOUS
    <3>. QED BY <1>4, <3>1, ParentIs
  <2>2. CASE i = 2 * p
    BY <1>1, <1>2, <2>2 DEF H!SmallerChild
  <2>3. CASE i = 2 * p + 1
    BY <1>1, <1>2, <2>3 DEF H!SmallerChild
  <2>. QED BY <2>1, <2>2, <2>3
<1>. HIDE DEF c
<1>5. H!Parent(c) = p
  BY <1>3 DEF H!Parent
<1>. QED BY <1>3, <1>4, <1>5 DEF c

\* A turn of the sift that sinks.
LEMMA SinksTo ==
  ASSUME NEW n \in Nat, NEW h \in [1..n -> HintSet], NEW p \in 1..n,
         DownTo(h, p), 2 * p <= n, h[H!SmallerChild(h, p)].deadline < h[p].deadline
  PROVE  DownTo(H!Swapped(h, p, H!SmallerChild(h, p)), H!SmallerChild(h, p))
<1>. DEFINE q == H!SmallerChild(h, p)
<1>. DEFINE g == H!Swapped(h, p, q)
<1>1. /\ q \in (p + 1)..n /\ q \in 1..n /\ q > 1
      /\ H!Parent(q) = p
      /\ \A i \in 1..n : i > 1 /\ H!Parent(i) = p => h[q].deadline <= h[i].deadline
  BY SmallerChildIs
<1>2. /\ g \in [1..n -> HintSet] /\ g[p] = h[q] /\ g[q] = h[p]
      /\ \A k \in 1..n : k # p /\ k # q => g[k] = h[k]
  <2>. HIDE DEF q
  <2>. QED BY <1>1, SwappedIs
<1>3. h[q].deadline < h[p].deadline
  OBVIOUS
<1>4. \A k \in 1..n : h[k].deadline \in Int
  BY DEF HintSet
<1>. HIDE DEF g, q
<1>5. ASSUME NEW i \in 1..n, i > 1
      PROVE  /\ H!Parent(i) # q => g[H!Parent(i)].deadline <= g[i].deadline
             /\ H!Parent(i) = q /\ q > 1 => g[H!Parent(q)].deadline <= g[i].deadline
  <2>. DEFINE r == H!Parent(i)
  <2>1. r \in 1..(i - 1) /\ r \in 1..n
    BY <1>5, ParentIs
  <2>2. r # p => h[r].deadline <= h[i].deadline
    BY <1>5 DEF DownTo
  <2>3. i = p => h[r].deadline <= h[q].deadline
    BY <1>1, <1>5 DEF DownTo
  <2>4. i = q => r = p
    BY <1>1
  <2>5. r = p => h[q].deadline <= h[i].deadline
    BY <1>1, <1>5
  <2>. HIDE DEF r
  <2>6. r # q => g[r].deadline <= g[i].deadline
    <3>1. CASE i = p
      BY <1>1, <1>2, <1>4, <2>1, <2>3, <3>1
    <3>2. CASE i = q
      BY <1>1, <1>2, <1>3, <1>4, <2>4, <3>2
    <3>3. CASE i # p /\ i # q
      BY <1>1, <1>2, <1>4, <2>1, <2>2, <2>5, <3>3
    <3>. QED BY <3>1, <3>2, <3>3
  <2>7. r = q => g[p].deadline <= g[i].deadline
    BY <1>1, <1>2, <1>4, <2>1, <2>2
  <2>. QED BY <1>1, <2>6, <2>7 DEF r
<1>. QED BY <1>2, <1>5 DEF DownTo, g, q

-----------------------------------------------------------------------------
(* The sifts put the heap in order and keep its entries. *)

\* A sift that has ended leaves no entry out of its place.
LEMMA UpSettled ==
  ASSUME NEW n \in Nat, NEW s, s.heap \in [1..n -> HintSet], s.place \in 1..n,
         UpTo(s.heap, s.place), ~H!Rises(s)
  PROVE  HeapOrdered(s.heap)
<1>. DEFINE h == s.heap
<1>. DEFINE p == s.place
<1>1. ASSUME NEW i \in 1..n, i > 1
      PROVE  h[H!Parent(i)].deadline <= h[i].deadline
  <2>1. H!Parent(i) \in 1..n
    BY <1>1, ParentIs
  <2>2. h[H!Parent(i)].deadline \in Int /\ h[i].deadline \in Int
    <3>1. h \in [1..n -> HintSet]
      OBVIOUS
    <3>. HIDE DEF h
    <3>2. h[H!Parent(i)] \in HintSet /\ h[i] \in HintSet
      BY <2>1, <3>1
    <3>. QED BY <3>2 DEF HintSet
  <2>3. CASE i = p
    BY <1>1, <2>2, <2>3 DEF H!Rises
  <2>4. CASE i # p
    BY <1>1, <2>4 DEF UpTo
  <2>. QED BY <2>3, <2>4
<1>. QED BY <1>1 DEF HeapOrdered

LEMMA DownSettled ==
  ASSUME NEW n \in Nat, NEW s, s.heap \in [1..n -> HintSet], s.place \in 1..n,
         DownTo(s.heap, s.place), ~H!Sinks(s)
  PROVE  HeapOrdered(s.heap)
<1>. DEFINE h == s.heap
<1>. DEFINE p == s.place
<1>. DEFINE c == H!SmallerChild(h, p)
<1>1. Len(h) = n
  BY LenProperties
<1>2. ASSUME NEW i \in 1..n, i > 1
      PROVE  h[H!Parent(i)].deadline <= h[i].deadline
  <2>1. CASE H!Parent(i) = p
    <3>1. 2 * p <= n
      <4>1. i \in Nat
        OBVIOUS
      <4>2. i = 2 * H!Parent(i) \/ i = 2 * H!Parent(i) + 1
        BY <1>2, <4>1, ParentIs
      <4>3. i <= n /\ p \in Nat
        OBVIOUS
      <4>. HIDE DEF p
      <4>. QED BY <2>1, <4>1, <4>2, <4>3
    <3>2. c \in 1..n /\ h[c].deadline <= h[i].deadline
      BY <1>2, <2>1, <3>1, SmallerChildIs
    <3>3. ~(h[c].deadline < h[p].deadline)
      BY <1>1, <3>1 DEF H!Sinks
    <3>. HIDE DEF c
    <3>4. h[c].deadline \in Int /\ h[p].deadline \in Int /\ h[i].deadline \in Int
      <4>1. h \in [1..n -> HintSet] /\ p \in 1..n
        OBVIOUS
      <4>. HIDE DEF h, p
      <4>2. h[c] \in HintSet /\ h[p] \in HintSet /\ h[i] \in HintSet
        BY <3>2, <4>1
      <4>. QED BY <4>2 DEF HintSet
    <3>. QED BY <2>1, <3>2, <3>3, <3>4
  <2>2. CASE H!Parent(i) # p
    BY <1>2, <2>2 DEF DownTo
  <2>. QED BY <2>1, <2>2
<1>. QED BY <1>2 DEF HeapOrdered

LEMMA SiftUpIs ==
  ASSUME NEW n \in Nat, NEW h \in [1..n -> HintSet], NEW i \in 1..n, UpTo(h, i)
  PROVE  /\ H!SiftUp(h, i) \in [1..n -> HintSet]
         /\ EntriesOf(H!SiftUp(h, i)) = EntriesOf(h)
         /\ HeapOrdered(H!SiftUp(h, i))
<1>. DEFINE S == H!Sifts(h)
<1>. DEFINE turn == [s \in S |-> IF H!Rises(s) THEN H!SwappedTo(s, H!Parent(s.place)) ELSE s]
<1>. DEFINE Goes(s, m) ==
       /\ EntriesOf(s.heap) = EntriesOf(h)
       /\ UpTo(s.heap, s.place)
       /\ H!Rises(s) => s.place <= n - m
<1>. DEFINE I == [m \in 0..n |-> {s \in S : Goes(s, m)}]
<1>. DEFINE start == [heap |-> h, place |-> i]
<1>1. Len(h) = n /\ DOMAIN h = 1..n
  BY LenProperties
<1>2. S = [heap : [1..n -> EntriesOf(h)], place : 1..n]
  BY <1>1 DEF H!Sifts, EntriesOf
<1>3. EntriesOf(h) \subseteq HintSet
  BY <1>1 DEF EntriesOf
<1>4. start \in I[0]
  <2>1. start \in S
    BY <1>1, <1>2 DEF EntriesOf
  <2>2. Goes(start, 0)
    OBVIOUS
  <2>. HIDE DEF S, Goes, start
  <2>. QED BY <2>1, <2>2
<1>5. ASSUME NEW m \in 1..n, NEW s \in I[m - 1]
      PROVE  turn[s] \in I[m]
  <2>1. /\ s \in S /\ m - 1 \in 0..n /\ m \in 0..n
        /\ Goes(s, m - 1)
    <3>1. m - 1 \in 0..n /\ m \in 0..n
      OBVIOUS
    <3>. HIDE DEF S, Goes
    <3>. QED BY <3>1
  <2>2. s.heap \in [1..n -> HintSet] /\ s.place \in 1..n
    <3>. HIDE DEF S
    <3>. QED BY <2>1, <1>2, <1>3
  <2>3. SUFFICES turn[s] \in S /\ Goes(turn[s], m)
    <3>. HIDE DEF S, Goes, turn
    <3>. QED BY <2>1
  <2>4. CASE ~H!Rises(s)
    <3>1. turn[s] = s
      <4>. HIDE DEF S
      <4>. QED BY <2>1, <2>4
    <3>. QED BY <2>1, <2>4, <3>1
  <2>5. CASE H!Rises(s)
    <3>. DEFINE p == H!Parent(s.place)
    <3>. DEFINE g == H!Swapped(s.heap, s.place, p)
    <3>1. turn[s] = [heap |-> g, place |-> p]
      <4>. HIDE DEF S
      <4>. QED BY <2>1, <2>5 DEF H!SwappedTo
    <3>2. /\ p \in 1..(s.place - 1) /\ p \in 1..n
          /\ g \in [1..n -> HintSet] /\ EntriesOf(g) = EntriesOf(s.heap)
      <4>1. p \in 1..(s.place - 1) /\ p \in 1..n
        BY <2>2, <2>5, ParentIs DEF H!Rises
      <4>. HIDE DEF p
      <4>. QED BY <2>2, <4>1, SwappedIs
    <3>3. UpTo(g, p) /\ p <= n - m
      <4>1. UpTo(g, p)
        BY <2>1, <2>2, <2>5, RisesTo DEF H!Rises
      <4>. QED BY <2>1, <2>2, <2>5, <3>2, <4>1
    <3>4. g \in [1..n -> EntriesOf(h)]
      <4>. HIDE DEF g
      <4>. QED BY <2>1, <3>2 DEF EntriesOf
    <3>5. turn[s] \in S
      <4>. HIDE DEF g, p, turn, S
      <4>. QED BY <1>2, <3>1, <3>2, <3>4
    <3>6. Goes(turn[s], m)
      <4>. HIDE DEF g, p, turn
      <4>. QED BY <2>1, <3>1, <3>2, <3>3
    <3>. QED BY <3>5, <3>6
  <2>. QED BY <2>4, <2>5
<1>6. H!After(n, turn, start) \in I[n]
  <2>. HIDE DEF turn, start, I
  <2>. QED BY <1>4, <1>5, AfterIs
<1>. DEFINE last == H!After(n, turn, start)
<1>7. last \in S /\ Goes(last, n)
  <2>. HIDE DEF turn, start, S, Goes
  <2>1. n \in 0..n
    OBVIOUS
  <2>. QED BY <1>6, <2>1
<1>8. H!SiftUp(h, i) = last.heap
  BY <1>1 DEF H!SiftUp, H!Sifted
<1>. HIDE DEF last
<1>9. last.heap \in [1..n -> HintSet] /\ last.place \in 1..n
  <2>. HIDE DEF S
  <2>. QED BY <1>2, <1>3, <1>7
<1>10. ~H!Rises(last)
  BY <1>7, <1>9
<1>11. HeapOrdered(last.heap)
  BY <1>7, <1>9, <1>10, UpSettled
<1>. QED BY <1>7, <1>8, <1>9, <1>11

LEMMA SiftDownIs ==
  ASSUME NEW n \in Nat, NEW h \in [1..n -> HintSet], NEW i \in 1..n, DownTo(h, i)
  PROVE  /\ H!SiftDown(h, i) \in [1..n -> HintSet]
         /\ EntriesOf(H!SiftDown(h, i)) = EntriesOf(h)
         /\ HeapOrdered(H!SiftDown(h, i))
<1>. DEFINE S == H!Sifts(h)
<1>. DEFINE turn == [s \in S |-> IF H!Sinks(s) THEN H!SwappedTo(s, H!SmallerChild(s.heap, s.place)) ELSE s]
<1>. DEFINE Goes(s, m) ==
       /\ EntriesOf(s.heap) = EntriesOf(h)
       /\ DownTo(s.heap, s.place)
       /\ H!Sinks(s) => s.place > m
<1>. DEFINE I == [m \in 0..n |-> {s \in S : Goes(s, m)}]
<1>. DEFINE start == [heap |-> h, place |-> i]
<1>1. Len(h) = n /\ DOMAIN h = 1..n
  BY LenProperties
<1>2. S = [heap : [1..n -> EntriesOf(h)], place : 1..n]
  BY <1>1 DEF H!Sifts, EntriesOf
<1>3. EntriesOf(h) \subseteq HintSet
  BY <1>1 DEF EntriesOf
<1>4. start \in I[0]
  <2>1. start \in S
    BY <1>1, <1>2 DEF EntriesOf
  <2>2. Goes(start, 0)
    OBVIOUS
  <2>. HIDE DEF S, Goes, start
  <2>. QED BY <2>1, <2>2
<1>5. ASSUME NEW m \in 1..n, NEW s \in I[m - 1]
      PROVE  turn[s] \in I[m]
  <2>1. /\ s \in S /\ m - 1 \in 0..n /\ m \in 0..n
        /\ Goes(s, m - 1)
    <3>1. m - 1 \in 0..n /\ m \in 0..n
      OBVIOUS
    <3>. HIDE DEF S, Goes
    <3>. QED BY <3>1
  <2>2. s.heap \in [1..n -> HintSet] /\ s.place \in 1..n
    <3>. HIDE DEF S
    <3>. QED BY <2>1, <1>2, <1>3
  <2>3. SUFFICES turn[s] \in S /\ Goes(turn[s], m)
    <3>. HIDE DEF S, Goes, turn
    <3>. QED BY <2>1
  <2>4. CASE ~H!Sinks(s)
    <3>1. turn[s] = s
      <4>. HIDE DEF S
      <4>. QED BY <2>1, <2>4
    <3>. QED BY <2>1, <2>4, <3>1
  <2>5. CASE H!Sinks(s)
    <3>. DEFINE p == H!SmallerChild(s.heap, s.place)
    <3>. DEFINE g == H!Swapped(s.heap, s.place, p)
    <3>1. turn[s] = [heap |-> g, place |-> p]
      <4>. HIDE DEF S
      <4>. QED BY <2>1, <2>5 DEF H!SwappedTo
    <3>2. /\ p \in (s.place + 1)..n /\ p \in 1..n
          /\ g \in [1..n -> HintSet] /\ EntriesOf(g) = EntriesOf(s.heap)
      <4>1. p \in (s.place + 1)..n /\ p \in 1..n
        <5>1. 2 * s.place <= n
          BY <2>2, <2>5, LenProperties DEF H!Sinks
        <5>2. p \in (s.place + 1)..n
          BY <2>2, <5>1, SmallerChildIs
        <5>. HIDE DEF p
        <5>. QED BY <2>2, <5>2
      <4>. HIDE DEF p
      <4>. QED BY <2>2, <4>1, SwappedIs
    <3>3. DownTo(g, p) /\ p > m
      <4>1. DownTo(g, p)
        <5>1. /\ 2 * s.place <= n
              /\ s.heap[p].deadline < s.heap[s.place].deadline
          BY <2>2, <2>5, LenProperties DEF H!Sinks
        <5>2. DownTo(s.heap, s.place)
          BY <2>1
        <5>. QED BY <2>2, <5>1, <5>2, SinksTo
      <4>. QED BY <2>1, <2>2, <2>5, <3>2, <4>1
    <3>4. g \in [1..n -> EntriesOf(h)]
      <4>. HIDE DEF g
      <4>. QED BY <2>1, <3>2 DEF EntriesOf
    <3>5. turn[s] \in S
      <4>. HIDE DEF g, p, turn, S
      <4>. QED BY <1>2, <3>1, <3>2, <3>4
    <3>6. Goes(turn[s], m)
      <4>. HIDE DEF g, p, turn
      <4>. QED BY <2>1, <3>1, <3>2, <3>3
    <3>. QED BY <3>5, <3>6
  <2>. QED BY <2>4, <2>5
<1>6. H!After(n, turn, start) \in I[n]
  <2>. HIDE DEF turn, start, I
  <2>. QED BY <1>4, <1>5, AfterIs
<1>. DEFINE last == H!After(n, turn, start)
<1>7. last \in S /\ Goes(last, n)
  <2>. HIDE DEF turn, start, S, Goes
  <2>1. n \in 0..n
    OBVIOUS
  <2>. QED BY <1>6, <2>1
<1>8. H!SiftDown(h, i) = last.heap
  BY <1>1 DEF H!SiftDown, H!Sifted
<1>. HIDE DEF last
<1>9. last.heap \in [1..n -> HintSet] /\ last.place \in 1..n
  <2>. HIDE DEF S
  <2>. QED BY <1>2, <1>3, <1>7
<1>10. ~H!Sinks(last)
  BY <1>7, <1>9
<1>11. HeapOrdered(last.heap)
  BY <1>7, <1>9, <1>10, DownSettled
<1>. QED BY <1>7, <1>8, <1>9, <1>11

\* heapPush adds its entry and no other, and keeps the order.
LEMMA PushIs ==
  ASSUME NEW h \in Seq(HintSet), NEW e \in HintSet, HeapOrdered(h)
  PROVE  /\ H!HeapPush(h, e) \in Seq(HintSet)
         /\ EntriesOf(H!HeapPush(h, e)) = EntriesOf(h) \union {e}
         /\ HeapOrdered(H!HeapPush(h, e))
<1>. DEFINE g == Append(h, e)
<1>. DEFINE n == Len(h) + 1
<1>1. /\ n \in Nat /\ n \in 1..n
      /\ g \in [1..n -> HintSet]
      /\ g[n] = e /\ \A i \in 1..Len(h) : g[i] = h[i]
      /\ DOMAIN h = 1..Len(h)
  <2>1. Len(h) \in Nat /\ DOMAIN h = 1..Len(h)
    BY LenProperties
  <2>2. /\ g \in Seq(HintSet) /\ Len(g) = n /\ g[n] = e
        /\ \A i \in 1..Len(h) : g[i] = h[i]
    BY AppendProperties
  <2>3. g \in [1..n -> HintSet]
    <3>. HIDE DEF g, n
    <3>. QED BY <2>2, LenProperties
  <2>. HIDE DEF g
  <2>. QED BY <2>1, <2>2, <2>3
<1>. HIDE DEF g, n
<1>2. EntriesOf(g) = EntriesOf(h) \union {e}
  <2>1. \A i \in 1..n : i # n => i \in 1..Len(h)
    BY DEF n
  <2>2. 1..Len(h) \subseteq 1..n
    BY DEF n
  <2>. QED BY <1>1, <2>1, <2>2 DEF EntriesOf
<1>3. UpTo(g, n)
  <2>1. ASSUME NEW i \in 1..n, i > 1, i # n
        PROVE  g[H!Parent(i)].deadline <= g[i].deadline
    <3>1. i \in 1..Len(h) /\ H!Parent(i) \in 1..Len(h)
      BY <1>1, <2>1, ParentIs DEF n
    <3>. QED BY <1>1, <2>1, <3>1 DEF HeapOrdered
  <2>2. \A i \in 1..n : i > 1 => H!Parent(i) # n
    BY <1>1, ParentIs
  <2>. QED BY <1>1, <2>1, <2>2 DEF UpTo
<1>4. H!HeapPush(h, e) = H!SiftUp(g, n)
  BY DEF H!HeapPush, g, n
<1>5. /\ H!SiftUp(g, n) \in [1..n -> HintSet]
      /\ EntriesOf(H!SiftUp(g, n)) = EntriesOf(g)
      /\ HeapOrdered(H!SiftUp(g, n))
  BY <1>1, <1>3, SiftUpIs
<1>6. H!SiftUp(g, n) \in Seq(HintSet)
  BY <1>1, <1>5
<1>. QED BY <1>2, <1>4, <1>5, <1>6

\* heapPop takes the top out and no other; the same hint may be in the heap twice.
LEMMA RestIs ==
  ASSUME NEW h \in Seq(HintSet), h # <<>>, HeapOrdered(h)
  PROVE  /\ H!HeapRest(h) \in Seq(HintSet)
         /\ EntriesOf(H!HeapRest(h)) \in {EntriesOf(h), EntriesOf(h) \ {h[1]}}
         /\ HeapOrdered(H!HeapRest(h))
<1>. DEFINE n == Len(h)
<1>1. /\ n \in Nat /\ n >= 1
      /\ DOMAIN h = 1..n /\ h \in [1..n -> HintSet]
  BY ElementOfSeq, LenProperties, EmptySeq
<1>2. CASE n = 1
  <2>1. H!HeapRest(h) = <<>>
    BY <1>2 DEF H!HeapRest
  <2>2. EntriesOf(<<>>) = {} /\ EntriesOf(h) = {h[1]}
    BY <1>1, <1>2 DEF EntriesOf
  <2>3. HeapOrdered(<<>>)
    BY DEF HeapOrdered
  <2>4. <<>> \in Seq(HintSet)
    OBVIOUS
  <2>. QED BY <2>1, <2>2, <2>3, <2>4
<1>3. CASE n # 1
  <2>. DEFINE f == SubSeq(h, 1, n - 1)
  <2>. DEFINE g == [f EXCEPT ![1] = h[n]]
  <2>1. f \in [1..(n - 1) -> HintSet] /\ \A i \in 1..(n - 1) : f[i] = h[i]
    <3>1. f = [i \in 1..(n - 1) |-> h[i]]
      BY <1>1 DEF n
    <3>. HIDE DEF f, n
    <3>. QED BY <1>1, <3>1
  <2>. HIDE DEF f
  <2>2. /\ n - 1 \in Nat /\ 1 \in 1..(n - 1)
        /\ g \in [1..(n - 1) -> HintSet] /\ g[1] = h[n]
        /\ \A i \in 1..(n - 1) : i # 1 => g[i] = h[i]
    <3>. HIDE DEF n
    <3>. QED BY <1>1, <1>3, <2>1
  <2>3. H!HeapRest(h) = H!SiftDown(g, 1)
    BY <1>3 DEF H!HeapRest, f
  <2>. HIDE DEF n, g
  <2>4. DownTo(g, 1)
    <3>1. ASSUME NEW i \in 1..(n - 1), i > 1, H!Parent(i) # 1
          PROVE  g[H!Parent(i)].deadline <= g[i].deadline
      <4>1. i \in 1..n /\ H!Parent(i) \in 1..(n - 1)
        BY <1>1, <3>1, ParentIs
      <4>. QED BY <1>1, <2>2, <3>1, <4>1 DEF HeapOrdered
    <3>. QED BY <2>2, <3>1 DEF DownTo
  <2>5. /\ H!SiftDown(g, 1) \in [1..(n - 1) -> HintSet]
        /\ EntriesOf(H!SiftDown(g, 1)) = EntriesOf(g)
        /\ HeapOrdered(H!SiftDown(g, 1))
    BY <2>2, <2>4, SiftDownIs
  <2>6. EntriesOf(g) \in {EntriesOf(h), EntriesOf(h) \ {h[1]}}
    <3>1. EntriesOf(g) = {h[i] : i \in 2..n}
      <4>1. \A i \in 1..(n - 1) : g[i] = h[IF i = 1 THEN n ELSE i]
        BY <2>2
      <4>2. \A i \in 1..(n - 1) : (IF i = 1 THEN n ELSE i) \in 2..n
        BY <1>1, <1>3
      <4>3. \A i \in 2..n : i = n \/ i \in 1..(n - 1)
        BY <1>1
      <4>. QED BY <2>2, <4>1, <4>2, <4>3 DEF EntriesOf
    <3>2. EntriesOf(h) = {h[1]} \union {h[i] : i \in 2..n}
      <4>1. 1 \in 1..n /\ 2..n \subseteq 1..n /\ \A i \in 1..n : i = 1 \/ i \in 2..n
        BY <1>1
      <4>. QED BY <1>1, <4>1 DEF EntriesOf
    <3>. QED BY <3>1, <3>2
  <2>7. H!SiftDown(g, 1) \in Seq(HintSet)
    BY <2>2, <2>5
  <2>. QED BY <2>3, <2>5, <2>6, <2>7
<1>. QED BY <1>2, <1>3

\* The top of the heap is a least entry.
LEMMA TopIsLeast ==
  ASSUME NEW h \in Seq(HintSet), h # <<>>, HeapOrdered(h)
  PROVE  /\ h[1] \in EntriesOf(h) /\ h[1] \in HintSet
         /\ \A e \in EntriesOf(h) : h[1].deadline <= e.deadline
<1>. DEFINE n == Len(h)
<1>1. /\ n \in Nat /\ n >= 1
      /\ DOMAIN h = 1..n /\ h \in [1..n -> HintSet]
  BY ElementOfSeq, LenProperties, EmptySeq
<1>. HIDE DEF n
<1>2. \A i \in 1..n : h[i] \in HintSet /\ h[i].deadline \in Nat
  BY <1>1 DEF HintSet
<1>. DEFINE Bad == {i \in 1..n : h[i].deadline < h[1].deadline}
<1>3. ASSUME Bad # {} PROVE FALSE
  <2>1. Bad \in SUBSET Nat
    OBVIOUS
  <2>2. PICK i \in Bad : \A k \in Bad : i <= k
    <3>. HIDE DEF Bad
    <3>. QED BY <1>3, <2>1, LeastOf
  <2>3. i \in 1..n /\ h[i].deadline < h[1].deadline
    OBVIOUS
  <2>4. i > 1 /\ 1 \in 1..n
    <3>1. 1 \in 1..n /\ h[1].deadline \in Nat
      BY <1>1, <1>2
    <3>2. i # 1
      BY <2>3, <3>1
    <3>. HIDE DEF Bad
    <3>. QED BY <1>1, <2>3, <3>1, <3>2
  <2>. DEFINE r == H!Parent(i)
  <2>5. r \in 1..(i - 1) /\ r \in 1..n
    <3>1. i \in Nat /\ i <= n
      BY <1>1, <2>3
    <3>2. r \in 1..(i - 1)
      BY <2>4, <3>1, ParentIs
    <3>. HIDE DEF r, Bad
    <3>. QED BY <1>1, <3>1, <3>2
  <2>6. h[r].deadline <= h[i].deadline
    BY <1>1, <2>3, <2>4 DEF HeapOrdered
  <2>. HIDE DEF r
  <2>7. r \in Bad
    BY <1>2, <2>3, <2>4, <2>5, <2>6
  <2>. HIDE DEF Bad
  <2>. QED BY <2>2, <2>3, <2>5, <2>7
<1>4. 1 \in 1..n
  BY <1>1
<1>. QED BY <1>1, <1>2, <1>3, <1>4 DEF EntriesOf

-----------------------------------------------------------------------------
(* The steps of DeadlineHeap are steps of Deadlines. *)

\* The array is in order, and the deadlines in it and outside of it can be compared.
HeapInv ==
  /\ now \in Nat \ {0}
  /\ SlotTypes
  /\ dheap \in Seq(HintSet) /\ HeapOrdered(dheap)

LEMMA SlotsTyped ==
  ASSUME SlotTypes, NEW s \in Slot, NEW d \in Nat,
         H!D!SetsDeadline(s, d) \/ H!D!Dispatches(s, d) \/ H!D!AnswersLate(s, d)
  PROVE  SlotTypes'
<1>. USE DEF SlotTypes, State, H!D!To, H!D!Due, H!D!HandlerDue
<1>1. CASE H!D!Dispatches(s, d)
  BY <1>1 DEF H!D!Dispatches
<1>2. CASE H!D!SetsDeadline(s, d)
  BY <1>2 DEF H!D!SetsDeadline, H!D!Accepts, H!D!HandshakeDone, H!D!NextRequest,
              H!D!Rejects, H!D!DispatchesStreamed, H!D!BodyProgress, H!D!Completes,
              H!D!StreamsOn, H!D!ServesNext, H!D!KeepsAlive, H!D!Lingers
<1>3. CASE H!D!AnswersLate(s, d)
  BY <1>3 DEF H!D!AnswersLate
<1>. QED BY <1>1, <1>2, <1>3

LEMMA SlotsStayTyped ==
  ASSUME SlotTypes, NEW s \in Slot, H!D!SetsNone(s) \/ H!D!Freed(s)
  PROVE  SlotTypes'
<1>. USE DEF SlotTypes, State, H!D!To, H!D!Due, H!D!HandlerDue
<1>1. CASE H!D!SetsNone(s)
  BY <1>1 DEF H!D!SetsNone, H!D!DispatchesUnbounded, H!D!Submits, H!D!BytesArrive,
              H!D!Incomplete, H!D!AnswersInline, H!D!Writable, H!D!WriteBlocks,
              H!D!DrainedDry, H!D!slots
<1>2. CASE H!D!Freed(s)
  BY <1>2 DEF H!D!Freed
<1>. QED BY <1>1, <1>2

LEMMA ArmIs ==
  ASSUME NEW q, NEW h \in Seq(HintSet), HeapOrdered(h), SlotTypes,
         NEW s \in Slot, NEW d \in Nat, H!ArmSlot(q, h, s, d)
  PROVE  /\ H!D!Arm(q, EntriesOf(h), s, d)
         /\ dheap' \in Seq(HintSet) /\ HeapOrdered(dheap')
<1>1. H!D!Hint(s, d) \in HintSet
  BY DEF H!D!Hint, HintSet, SlotTypes
<1>2. CASE H!D!NeedsHint(q, s, d)
  <2>1. hq' = [q EXCEPT ![s] = d] /\ dheap' = H!HeapPush(h, H!D!Hint(s, d))
    BY <1>2 DEF H!ArmSlot, H!HqArmed
  <2>2. /\ dheap' \in Seq(HintSet) /\ HeapOrdered(dheap')
        /\ EntriesOf(dheap') = EntriesOf(h) \union {H!D!Hint(s, d)}
    BY <1>1, <2>1, PushIs
  <2>. QED BY <1>2, <2>1, <2>2 DEF H!D!Arm, H!Entries, EntriesOf
<1>3. CASE ~H!D!NeedsHint(q, s, d)
  <2>1. hq' = q /\ dheap' = h
    BY <1>3 DEF H!ArmSlot
  <2>. QED BY <1>3, <2>1 DEF H!D!Arm, H!Entries, EntriesOf
<1>. QED BY <1>2, <1>3

LEMMA HandlersRefine ==
  ASSUME HeapInv, H!Handlers
  PROVE  H!D!Handlers /\ HeapInv'
<1>1. PICK s \in Slot : H!Connection(s)
  BY DEF H!Handlers
<1>2. /\ now' = now /\ now \in Nat \ {0} /\ SlotTypes
      /\ dheap \in Seq(HintSet) /\ HeapOrdered(dheap)
  BY DEF H!Handlers, HeapInv
<1>3. H!Entries = EntriesOf(dheap)
  BY DEF H!Entries, EntriesOf
<1>. SUFFICES /\ H!D!Connection(s) /\ SlotTypes'
              /\ dheap' \in Seq(HintSet) /\ HeapOrdered(dheap')
  BY <1>2 DEF H!D!Handlers, HeapInv
<1>4. CASE \E d \in now..(now + RequestMs + KeepaliveMs + LingerMs + HandlerMs) :
             (H!D!SetsDeadline(s, d) \/ H!D!Dispatches(s, d)) /\ H!ArmSlot(hq, dheap, s, d)
  <2>1. PICK d \in now..(now + RequestMs + KeepaliveMs + LingerMs + HandlerMs) :
             (H!D!SetsDeadline(s, d) \/ H!D!Dispatches(s, d)) /\ H!ArmSlot(hq, dheap, s, d)
    BY <1>4
  <2>2. d \in Nat
    BY <1>2
  <2>3. /\ H!D!Arm(hq, H!Entries, s, d)
        /\ dheap' \in Seq(HintSet) /\ HeapOrdered(dheap')
    BY <1>2, <1>3, <2>1, <2>2, ArmIs
  <2>4. SlotTypes'
    BY <1>2, <2>1, <2>2, SlotsTyped
  <2>. QED BY <2>1, <2>3, <2>4 DEF H!D!Connection
<1>5. CASE H!D!SetsNone(s) /\ UNCHANGED <<hq, dheap>>
  <2>1. UNCHANGED H!D!hinting
    BY <1>5 DEF H!D!hinting, H!Entries
  <2>. QED BY <1>2, <1>5, <2>1, SlotsStayTyped DEF H!D!Connection
<1>6. CASE H!D!Closes(s) /\ hq' = [hq EXCEPT ![s] = 0] /\ UNCHANGED dheap
  <2>1. UNCHANGED H!Entries
    BY <1>6 DEF H!Entries
  <2>2. SlotTypes'
    BY <1>2, <1>6, SlotsStayTyped DEF H!D!Closes
  <2>. QED BY <1>2, <1>6, <2>1, <2>2 DEF H!D!Connection
<1>. QED BY <1>1, <1>4, <1>5, <1>6 DEF H!Connection

\* What the heap and the slots do not take part in.
LEMMA HeapKept ==
  ASSUME HeapInv, now' = now \/ now' = now + 1, UNCHANGED H!slots, UNCHANGED dheap
  PROVE  HeapInv' /\ UNCHANGED H!Entries
BY DEF HeapInv, SlotTypes, H!slots, H!Entries

LEMMA TimersRefine ==
  ASSUME HeapInv,
         \/ H!Waits \/ H!WaitReturns \/ H!WaitTimesOut \/ H!IgnoresEvent \/ H!EventsEnd
         \/ H!SweepEnds \/ H!TimePasses
  PROVE  H!D!Next /\ HeapInv'
<1>1. dheap \in Seq(HintSet) /\ HeapOrdered(dheap) /\ now \in Nat
  BY DEF HeapInv
<1>2. H!Entries = EntriesOf(dheap)
  BY DEF H!Entries, EntriesOf
<1>3. dheap = <<>> => H!Entries = {}
  BY DEF H!Entries
<1>4. dheap # <<>> => /\ dheap[1] \in HintSet /\ H!D!Least(dheap[1], H!Entries)
  BY <1>1, <1>2, TopIsLeast DEF H!D!Least
<1>. USE DEF H!slots, H!loop, H!D!slots, H!D!loop, H!D!hinting
<1>5. CASE H!Waits
  <2>1. HeapInv' /\ UNCHANGED H!Entries
    BY <1>5, HeapKept DEF H!Waits
  <2>2. H!D!WaitUntil(H!WaitTime)
    BY <1>5, <2>1 DEF H!Waits, H!D!WaitUntil
  <2>3. CASE dheap = <<>>
    BY <1>3, <2>1, <2>2, <2>3 DEF H!D!Next, H!D!Waits, H!WaitTime
  <2>4. CASE dheap # <<>>
    BY <1>4, <2>1, <2>2, <2>4 DEF H!D!Next, H!D!Waits, H!WaitTime, H!D!Least
  <2>. QED BY <2>3, <2>4
<1>6. CASE H!WaitReturns
  BY <1>6, HeapKept DEF H!WaitReturns, H!D!WaitReturns, H!D!Next
<1>7. CASE H!WaitTimesOut
  BY <1>7, HeapKept DEF H!WaitTimesOut, H!D!WaitTimesOut, H!D!Next
<1>8. CASE H!IgnoresEvent
  BY <1>8, HeapKept DEF H!IgnoresEvent, H!D!IgnoresEvent, H!D!Next
<1>9. CASE H!EventsEnd
  BY <1>9, HeapKept DEF H!EventsEnd, H!D!EventsEnd, H!D!Next
<1>10. CASE H!SweepEnds
  <2>1. HeapInv' /\ UNCHANGED H!Entries
    BY <1>10, HeapKept DEF H!SweepEnds
  <2>2. \A e \in H!Entries : e.deadline > now
    <3>1. CASE dheap = <<>>
      BY <1>3, <3>1
    <3>2. CASE dheap # <<>>
      <4>1. ~(now >= dheap[1].deadline)
        BY <1>10, <3>2 DEF H!SweepEnds, H!TopExpired, H!D!Expired
      <4>2. \A e \in H!Entries : dheap[1].deadline <= e.deadline /\ e \in HintSet
        BY <1>1, <1>2, <1>4, <3>2 DEF H!D!Least, EntriesOf
      <4>3. dheap[1].deadline \in Nat /\ \A e \in H!Entries : e.deadline \in Nat
        BY <1>4, <3>2, <4>2 DEF HintSet
      <4>. QED BY <1>1, <4>1, <4>2, <4>3
    <3>. QED BY <3>1, <3>2
  <2>. QED BY <1>10, <2>1, <2>2 DEF H!SweepEnds, H!D!SweepEnds, H!D!Next
<1>11. CASE H!TimePasses
  BY <1>11, HeapKept DEF H!TimePasses, H!D!TimePasses, H!D!Next
<1>. QED BY <1>5, <1>6, <1>7, <1>8, <1>9, <1>10, <1>11

LEMMA PopsRefine ==
  ASSUME HeapInv, H!Pops
  PROVE  H!D!Pops /\ HeapInv'
<1>. DEFINE e == dheap[1]
<1>. DEFINE s == e.slot
<1>. DEFINE rest == H!HeapRest(dheap)
<1>. DEFINE others == EntriesOf(rest)
<1>1. /\ now \in Nat \ {0} /\ SlotTypes
      /\ dheap \in Seq(HintSet) /\ HeapOrdered(dheap) /\ dheap # <<>>
      /\ now' = now
  BY DEF HeapInv, H!Pops, H!TopExpired
<1>2. /\ phase = "sweep" /\ at = H!D!Idle
      /\ H!D!Expired(e.deadline) /\ H!Sweeps(e, rest)
  BY DEF H!Pops, H!TopExpired
<1>3. H!Entries = EntriesOf(dheap)
  BY DEF H!Entries, EntriesOf
<1>4. e \in H!Entries /\ H!D!Least(e, H!Entries) /\ e \in HintSet /\ s \in Slot
  BY <1>1, <1>3, TopIsLeast DEF H!D!Least, HintSet
<1>5. /\ rest \in Seq(HintSet) /\ HeapOrdered(rest)
      /\ others \in {H!Entries, H!Entries \ {e}}
  BY <1>1, <1>3, RestIs
<1>6. RequestMs \in Nat
  BY TimesAssumption
<1>. HIDE DEF e, s, rest, others
<1>7. dheap' = rest => H!Entries' = others
  BY DEF H!Entries, EntriesOf, others
<1>. SUFFICES H!D!Sweeps(e, others) /\ HeapInv'
  BY <1>1, <1>2, <1>4, <1>5 DEF H!D!Pops
<1>8. CASE H!D!Recycled(e) /\ hq' = hq /\ dheap' = rest /\ UNCHANGED <<H!slots, H!loop>>
  BY <1>1, <1>5, <1>7, <1>8 DEF H!D!Sweeps, HeapInv, SlotTypes, H!slots, H!loop, H!D!slots, H!D!loop
<1>9. CASE /\ ~H!D!Recycled(e) /\ H!D!Relevant(s) = 0
           /\ hq' = H!D!HqWithout(e) /\ dheap' = rest
           /\ UNCHANGED <<H!slots, H!loop>>
  BY <1>1, <1>5, <1>7, <1>9 DEF H!D!Sweeps, HeapInv, SlotTypes, H!slots, H!loop, H!D!slots, H!D!loop, s
<1>10. CASE /\ ~H!D!Recycled(e) /\ H!D!Relevant(s) # 0 /\ ~H!D!IsLate(s)
            /\ H!ArmSlot(H!D!HqWithout(e), rest, s, H!D!Relevant(s))
            /\ UNCHANGED <<H!slots, H!loop>>
  <2>1. H!D!Relevant(s) \in Nat
    BY <1>1, <1>4 DEF H!D!Relevant, SlotTypes
  <2>2. /\ H!D!Arm(H!D!HqWithout(e), others, s, H!D!Relevant(s))
        /\ dheap' \in Seq(HintSet) /\ HeapOrdered(dheap')
    BY <1>1, <1>4, <1>5, <1>10, <2>1, ArmIs DEF others
  <2>3. HeapInv'
    BY <1>1, <1>10, <2>2 DEF HeapInv, SlotTypes, H!slots
  <2>. QED BY <1>10, <2>2, <2>3 DEF H!D!Sweeps, H!slots, H!loop, H!D!slots, H!D!loop, s
<1>11. CASE /\ ~H!D!Recycled(e) /\ H!D!IsLate(s)
            /\ H!D!AnswersLate(s, now + RequestMs)
            /\ H!ArmSlot(H!D!HqWithout(e), rest, s, now + RequestMs)
  <2>1. now + RequestMs \in Nat
    BY <1>1, <1>6
  <2>2. /\ H!D!Arm(H!D!HqWithout(e), others, s, now + RequestMs)
        /\ dheap' \in Seq(HintSet) /\ HeapOrdered(dheap')
    BY <1>1, <1>4, <1>5, <1>11, <2>1, ArmIs DEF others
  <2>3. SlotTypes'
    BY <1>1, <1>4, <1>11, <2>1, SlotsTyped
  <2>4. HeapInv'
    BY <1>1, <2>2, <2>3 DEF HeapInv
  <2>. QED BY <1>11, <2>2, <2>4 DEF H!D!Sweeps, s
<1>12. CASE /\ ~H!D!Recycled(e) /\ H!D!IsLate(s) /\ H!D!Drops(s)
            /\ hq' = [hq EXCEPT ![s] = 0] /\ dheap' = rest
  <2>1. SlotTypes'
    BY <1>1, <1>4, <1>12, SlotsStayTyped DEF H!D!Drops
  <2>2. HeapInv'
    BY <1>1, <1>5, <1>12, <2>1 DEF HeapInv
  <2>. QED BY <1>7, <1>12, <2>2 DEF H!D!Sweeps, s
<1>. QED BY <1>2, <1>8, <1>9, <1>10, <1>11, <1>12 DEF H!Sweeps, s

\* The server with its array heap is the server with a set of hints: the entry at
\* the top of dheap is always a least hint, heapPush and heapPop keep every other
\* one, and so what tick and sweepDeadlines do is what Deadlines allows (server.sx,
\* heapPush, heapPop, armSlot, tick and sweepDeadlines).
THEOREM HeapImplementsDeadlines == H!Spec => H!ImplementsDeadlines
<1>1. H!Init => H!D!Init /\ HeapInv
  <2>. SUFFICES ASSUME H!Init PROVE H!D!Init /\ HeapInv
    OBVIOUS
  <2>1. dheap = <<>> /\ H!D!Init
    BY DEF H!Init
  <2>2. <<>> \in Seq(HintSet) /\ HeapOrdered(<<>>)
    BY DEF HeapOrdered
  <2>3. now \in Nat \ {0} /\ SlotTypes
    BY <2>1 DEF H!D!Init, SlotTypes, State
  <2>. QED BY <2>1, <2>2, <2>3 DEF HeapInv
<1>2. HeapInv /\ [H!Next]_H!vars => HeapInv' /\ [H!D!Next]_H!D!vars
  <2>. SUFFICES ASSUME HeapInv, [H!Next]_H!vars PROVE HeapInv' /\ [H!D!Next]_H!D!vars
    OBVIOUS
  <2>1. CASE H!Handlers
    BY <2>1, HandlersRefine DEF H!D!Next
  <2>2. CASE \/ H!Waits \/ H!WaitReturns \/ H!WaitTimesOut \/ H!IgnoresEvent \/ H!EventsEnd
             \/ H!SweepEnds \/ H!TimePasses
    BY <2>2, TimersRefine
  <2>3. CASE H!Pops
    BY <2>3, PopsRefine DEF H!D!Next
  <2>4. CASE UNCHANGED H!vars
    <3>1. now' = now /\ UNCHANGED H!slots /\ UNCHANGED dheap
      BY <2>4 DEF H!vars
    <3>2. HeapInv' /\ UNCHANGED H!Entries
      BY <3>1, HeapKept
    <3>. QED BY <2>4, <3>2 DEF H!vars, H!slots, H!loop, H!D!vars, H!D!slots, H!D!loop, H!D!hinting
  <2>. QED BY <2>1, <2>2, <2>3, <2>4 DEF H!Next
<1>. QED BY <1>1, <1>2, PTL DEF H!Spec, H!ImplementsDeadlines, H!D!Spec
=============================================================================
