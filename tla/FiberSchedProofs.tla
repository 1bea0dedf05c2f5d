--------------------------- MODULE FiberSchedProofs ---------------------------
(***************************************************************************)
(* The safety of the fiber scheduler for every set of fibers and fds, both *)
(* backends, and all durations.                                            *)
(***************************************************************************)
EXTENDS FiberSchedRefines, SequenceTheorems, FiniteSetTheorems, NaturalsInduction, TLAPS

-----------------------------------------------------------------------------
(* The helpers on lists.                                                   *)

\* removeTimer and removeIoWaiter keep every other entry, in order.
LEMMA WithoutFacts ==
  ASSUME NEW T, NEW s \in Seq(T), NEW i \in DOMAIN s
  PROVE  /\ Without(s, i) \in Seq(T)
         /\ Len(Without(s, i)) = Len(s) - 1
         /\ DOMAIN Without(s, i) = 1 .. Len(s) - 1
         /\ \A j \in 1 .. Len(s) - 1 :
              Without(s, i)[j] = IF j < i THEN s[j] ELSE s[j + 1]
<1>1. /\ Len(s) \in Nat /\ DOMAIN s = 1 .. Len(s)
      /\ \A j \in 1 .. Len(s) : s[j] \in T
  BY ElementOfSeq, LenProperties
<1>2. Len(s) - 1 \in Nat
  BY <1>1
<1>3. Without(s, i) \in [1 .. Len(s) - 1 -> T]
  BY <1>1 DEF Without
<1>4. Without(s, i) \in Seq(T)
  BY <1>2, <1>3, SeqDef
<1>5. /\ DOMAIN Without(s, i) = 1 .. Len(s) - 1
      /\ Len(Without(s, i)) = Len(s) - 1
  BY <1>2, <1>3, <1>4, LenProperties
<1>6. \A j \in 1 .. Len(s) - 1 :
        Without(s, i)[j] = IF j < i THEN s[j] ELSE s[j + 1]
  BY DEF Without
<1>. QED BY <1>4, <1>5, <1>6

\* t holds the entries of s at the positions in D, each once.
Within(t, s, D) ==
  \E m \in [DOMAIN t -> D] :
    /\ \A k \in DOMAIN t : t[k] = s[m[k]]
    /\ \A k, l \in DOMAIN t : m[k] = m[l] => k = l
    /\ \A d \in D : \E k \in DOMAIN t : m[k] = d

LEMMA WithinFacts ==
  ASSUME NEW T, NEW s \in Seq(T), NEW i \in DOMAIN s
  PROVE  Within(Without(s, i), s, DOMAIN s \ {i})
<1>0. Len(s) \in Nat /\ DOMAIN s = 1 .. Len(s) /\ i \in 1 .. Len(s)
  BY LenProperties
<1>. DEFINE m == [k \in 1 .. Len(s) - 1 |-> IF k < i THEN k ELSE k + 1]
<1>1. m \in [1 .. Len(s) - 1 -> DOMAIN s \ {i}]
  BY <1>0
<1>2. \A k \in 1 .. Len(s) - 1 : Without(s, i)[k] = s[m[k]]
  BY WithoutFacts
<1>3. \A k, l \in 1 .. Len(s) - 1 : m[k] = m[l] => k = l
  BY <1>0
<1>4. ASSUME NEW d \in DOMAIN s \ {i}
      PROVE  \E k \in 1 .. Len(s) - 1 : m[k] = d
  <2>. DEFINE k == IF d < i THEN d ELSE d - 1
  <2>1. k \in 1 .. Len(s) - 1 /\ m[k] = d
    BY <1>0
  <2>. QED BY <2>1
<1>5. DOMAIN Without(s, i) = 1 .. Len(s) - 1
  BY WithoutFacts
<1>. HIDE DEF m
<1>6. /\ m \in [DOMAIN Without(s, i) -> DOMAIN s \ {i}]
      /\ \A k \in DOMAIN Without(s, i) : Without(s, i)[k] = s[m[k]]
      /\ \A k, l \in DOMAIN Without(s, i) : m[k] = m[l] => k = l
      /\ \A d \in DOMAIN s \ {i} : \E k \in DOMAIN Without(s, i) : m[k] = d
  BY <1>1, <1>2, <1>3, <1>4, <1>5
<1>. QED BY <1>6, Zenon DEF Within

\* cancelTimerFor and cancelIoWaiterFor leave the entries of the other fibers,
\* provided f had at most one.
LEMMA EvictFacts ==
  ASSUME NEW T, NEW s \in Seq(T), NEW f,
         \A i, j \in DOMAIN s : s[i].fiber = s[j].fiber => i = j
  PROVE  /\ Evict(s, f) \in Seq(T)
         /\ Within(Evict(s, f), s, {i \in DOMAIN s : s[i].fiber # f})
         /\ Holds(s, f) => FirstOf(s, f) \in DOMAIN s /\ s[FirstOf(s, f)].fiber = f
<1>1. CASE ~Holds(s, f)
  <2>. DEFINE m == [k \in DOMAIN s |-> k]
  <2>1. m \in [DOMAIN s -> {i \in DOMAIN s : s[i].fiber # f}]
    BY <1>1 DEF Holds
  <2>2. \A k, l \in DOMAIN s : s[k] = s[m[k]] /\ (m[k] = m[l] => k = l) /\ m[k] = k
    OBVIOUS
  <2>3. Evict(s, f) = s
    BY <1>1 DEF Evict
  <2>. HIDE DEF m
  <2>4. Within(s, s, {i \in DOMAIN s : s[i].fiber # f})
    BY <2>1, <2>2 DEF Within
  <2>. QED BY <1>1, <2>3, <2>4
<1>2. CASE Holds(s, f)
  <2>. DEFINE i0 == FirstOf(s, f)
  <2>1. PICK i \in DOMAIN s : s[i].fiber = f
    BY <1>2 DEF Holds
  <2>2. /\ DOMAIN s = 1 .. Len(s) /\ Len(s) \in Nat
    BY LenProperties
  <2>3. \A j \in 1 .. i - 1 : s[j].fiber # f
    BY <2>1, <2>2
  <2>4. i0 \in DOMAIN s /\ s[i0].fiber = f
    BY <2>1, <2>3 DEF FirstOf
  <2>5. Evict(s, f) = Without(s, i0)
    BY <1>2 DEF Evict
  <2>6. DOMAIN s \ {i0} = {j \in DOMAIN s : s[j].fiber # f}
    BY <2>4
  <2>. HIDE DEF i0
  <2>7. Within(Without(s, i0), s, DOMAIN s \ {i0}) /\ Without(s, i0) \in Seq(T)
    BY <2>4, WithinFacts, WithoutFacts
  <2>. QED BY <2>4, <2>5, <2>6, <2>7 DEF i0
<1>. QED BY <1>1, <1>2

\* Time is left open here: io.sleep also arms deadlines that have passed.
AnyTimer == [deadlineMs : Int, fiber : Fiber]
Shape ==
  /\ fstate \in [Fiber -> FiberState]
  /\ next \in [Fiber -> Fiber \cup {Null}]
  /\ readyHead \in Fiber \cup {Null} /\ readyTail \in Fiber \cup {Null}
  /\ queue \in Seq(Fiber)
  /\ current \in Fiber \cup {Null}
  /\ nSuspended \in Nat
  /\ clockMs \in Int
  /\ timers \in Seq(AnyTimer)
  /\ ioWaiters \in Seq(IoWaiter)
  /\ kernel \in [Fd -> {"none", "armed", "disabled"}]
  /\ evbuf \in Seq(Fd)
  /\ readable \in SUBSET Fd
  /\ mode \in {"main", "run", "poll", "deinit", "dead", "aborted"}

-----------------------------------------------------------------------------
(* The intrusive list.                                                     *)

\* Linking a fiber that is not in the list keeps the list whole.
LEMMA EnqueueFacts ==
  ASSUME Shape, LinksSpellQueue, LinkedOnce,
         NEW f \in Fiber, ~Queued(f), Enqueue(f)
  PROVE  /\ queue' \in Seq(Fiber)
         /\ next' \in [Fiber -> Fiber \cup {Null}]
         /\ readyHead' \in Fiber \cup {Null} /\ readyTail' \in Fiber \cup {Null}
         /\ LinksSpellQueue' /\ LinkedOnce'
         /\ \A g : Queued(g)' <=> Queued(g) \/ g = f
<1>0. Len(queue) \in Nat
  BY LenProperties DEF Shape
<1>1. /\ queue \in Seq(Fiber) /\ Len(queue) \in Nat /\ DOMAIN queue = 1 .. Len(queue)
      /\ \A i \in 1 .. Len(queue) : queue[i] \in Fiber
      /\ next \in [Fiber -> Fiber \cup {Null}]
      /\ readyHead \in Fiber \cup {Null} /\ readyTail \in Fiber \cup {Null}
  BY ElementOfSeq, LenProperties DEF Shape
<1>2. /\ queue' = Append(queue, f) /\ queue' \in Seq(Fiber)
      /\ Len(queue') = Len(queue) + 1 /\ DOMAIN queue' = 1 .. Len(queue) + 1
      /\ \A i \in 1 .. Len(queue) : queue'[i] = queue[i]
      /\ queue'[Len(queue) + 1] = f
  BY <1>1, AppendProperties DEF Enqueue
<1>3. \A i \in 1 .. Len(queue) : queue[i] # f
  BY <1>1 DEF Queued
<1>4. readyTail = Null <=> queue = <<>>
  BY <1>1, FiberAssumption DEF LinksSpellQueue
<1>5. LinkedOnce'
  BY <1>1, <1>2, <1>3 DEF LinkedOnce
<1>6. \A g : Queued(g)' <=> Queued(g) \/ g = f
  BY <1>1, <1>2 DEF Queued
<1>7. /\ next' \in [Fiber -> Fiber \cup {Null}]
      /\ readyHead' \in Fiber \cup {Null} /\ readyTail' \in Fiber \cup {Null}
  BY <1>1 DEF Enqueue
<1>8. LinksSpellQueue'
  <2>1. CASE queue = <<>>
    <3>1. queue' = <<f>> /\ next'[f] = Null /\ readyHead' = f /\ readyTail' = f
      BY <1>1, <1>2, <1>4, <2>1 DEF Enqueue
    <3>. QED BY <3>1 DEF LinksSpellQueue
  <2>2. CASE queue # <<>>
    <3>1. Len(queue) > 0
      BY <1>1, <2>2, EmptySeq
    <3>2. readyHead = queue[1] /\ readyTail = queue[Len(queue)] /\ readyTail \in Fiber
      BY <1>1, <2>2, <3>1 DEF LinksSpellQueue
    <3>3. readyTail # Null
      BY <3>2, FiberAssumption
    <3>4. /\ next' = [next EXCEPT ![f] = Null, ![readyTail] = f]
          /\ readyHead' = readyHead /\ readyTail' = f
      BY <3>3 DEF Enqueue
    <3>5. ASSUME NEW i \in 1 .. Len(queue) + 1
          PROVE  next'[queue'[i]] = IF i = Len(queue) + 1 THEN Null ELSE queue'[i + 1]
      <4>1. CASE i = Len(queue) + 1
        BY <1>1, <1>2, <1>3, <3>1, <3>2, <3>4, <4>1
      <4>2. CASE i = Len(queue)
        <5>1. queue'[i] = readyTail /\ queue'[i + 1] = f /\ i # Len(queue) + 1
          <6>1. i \in 1 .. Len(queue) /\ i # Len(queue) + 1
            BY <1>0, <3>1, <4>2
          <6>. QED BY <1>2, <3>2, <4>2, <6>1
        <5>2. next'[readyTail] = f
          BY <1>1, <3>2, <3>4
        <5>. QED BY <5>1, <5>2
      <4>3. CASE i < Len(queue)
        <5>1. queue[i] # readyTail /\ queue[i] # f
          BY <1>1, <1>3, <3>1, <3>2, <4>3 DEF LinkedOnce
        <5>2. next'[queue[i]] = next[queue[i]]
          BY <1>1, <3>4, <4>3, <5>1
        <5>3. next[queue[i]] = queue[i + 1]
          BY <1>1, <4>3 DEF LinksSpellQueue
        <5>. QED BY <1>1, <1>2, <4>3, <5>2, <5>3
      <4>4. i = Len(queue) + 1 \/ i = Len(queue) \/ i < Len(queue)
        BY <1>0
      <4>. QED BY <4>1, <4>2, <4>3, <4>4
    <3>6. queue' # <<>>
      BY <1>1, <1>2
    <3>. QED BY <1>1, <1>2, <3>1, <3>2, <3>4, <3>5, <3>6 DEF LinksSpellQueue
  <2>. QED BY <2>1, <2>2
<1>. QED BY <1>2, <1>5, <1>6, <1>7, <1>8

\* Unlinking the head leaves the rest linked as before.
LEMMA DequeueFacts ==
  ASSUME Shape, LinksSpellQueue, LinkedOnce, readyHead # Null, Dequeue
  PROVE  /\ readyHead \in Fiber /\ Queued(readyHead)
         /\ queue' \in Seq(Fiber)
         /\ next' \in [Fiber -> Fiber \cup {Null}]
         /\ readyHead' \in Fiber \cup {Null} /\ readyTail' \in Fiber \cup {Null}
         /\ LinksSpellQueue' /\ LinkedOnce'
         /\ \A g : Queued(g)' <=> Queued(g) /\ g # readyHead
<1>0. Len(queue) \in Nat
  BY LenProperties DEF Shape
<1>1. /\ queue \in Seq(Fiber) /\ Len(queue) \in Nat /\ DOMAIN queue = 1 .. Len(queue)
      /\ \A i \in 1 .. Len(queue) : queue[i] \in Fiber
      /\ next \in [Fiber -> Fiber \cup {Null}]
      /\ readyHead \in Fiber \cup {Null} /\ readyTail \in Fiber \cup {Null}
  BY ElementOfSeq, LenProperties DEF Shape
<1>2. queue # <<>> /\ Len(queue) > 0
  BY <1>1, EmptySeq DEF LinksSpellQueue
<1>3. readyHead = queue[1] /\ readyTail = queue[Len(queue)]
  BY <1>2 DEF LinksSpellQueue
<1>4. readyHead \in Fiber /\ Queued(readyHead)
  BY <1>1, <1>2, <1>3 DEF Queued
<1>5. /\ queue' = Tail(queue) /\ queue' \in Seq(Fiber) /\ Len(queue') = Len(queue) - 1
      /\ DOMAIN queue' = 1 .. Len(queue) - 1
      /\ \A i \in 1 .. Len(queue) - 1 : queue'[i] = queue[i + 1]
  BY <1>1, <1>2, HeadTailProperties, LenProperties DEF Dequeue
<1>6. LinkedOnce'
  BY <1>1, <1>5 DEF LinkedOnce
<1>7. ASSUME NEW g
      PROVE  Queued(g)' <=> Queued(g) /\ g # readyHead
  <2>1. ASSUME NEW i \in 1 .. Len(queue), queue[i] = g, g # readyHead
        PROVE  i - 1 \in 1 .. Len(queue) - 1 /\ queue'[i - 1] = g
    BY <1>1, <1>3, <1>5, <2>1
  <2>2. ASSUME NEW i \in 1 .. Len(queue) - 1, queue'[i] = g
        PROVE  i + 1 \in 1 .. Len(queue) /\ queue[i + 1] = g /\ g # readyHead
    BY <1>1, <1>2, <1>3, <1>5, <2>2 DEF LinkedOnce
  <2>. QED BY <1>1, <1>5, <2>1, <2>2 DEF Queued
<1>8. next[readyHead] = IF Len(queue) = 1 THEN Null ELSE queue[2]
  BY <1>1, <1>2, <1>3 DEF LinksSpellQueue
<1>9. /\ next' \in [Fiber -> Fiber \cup {Null}]
      /\ readyHead' \in Fiber \cup {Null} /\ readyTail' \in Fiber \cup {Null}
  BY <1>1, <1>4 DEF Dequeue
<1>10. LinksSpellQueue'
  <2>1. CASE Len(queue) = 1
    <3>1. queue' = <<>>
      BY <1>5, <2>1, EmptySeq
    <3>. QED BY <1>5, <1>8, <2>1, <3>1 DEF LinksSpellQueue, Dequeue
  <2>2. CASE Len(queue) > 1
    <3>1. queue[2] \in Fiber /\ queue[2] # Null
      BY <1>1, <2>2, FiberAssumption
    <3>2. readyHead' = queue[2] /\ readyTail' = queue[Len(queue)]
      BY <1>3, <1>8, <2>2, <3>1 DEF Dequeue
    <3>3. ASSUME NEW i \in 1 .. Len(queue) - 1
          PROVE  next'[queue'[i]] = IF i = Len(queue) - 1 THEN Null ELSE queue'[i + 1]
      <4>1. queue[i + 1] # readyHead
        BY <1>1, <1>2, <1>3 DEF LinkedOnce
      <4>2. next'[queue'[i]] = next[queue[i + 1]]
        BY <1>1, <1>5, <4>1 DEF Dequeue
      <4>3. next[queue[i + 1]] = IF i + 1 = Len(queue) THEN Null ELSE queue[i + 2]
        <5>0. i + 1 \in 1 .. Len(queue) /\ (i + 1) + 1 = i + 2
          BY <1>0
        <5>1. i + 1 \in DOMAIN queue
          BY <1>1, <5>0
        <5>2. next[queue[i + 1]] = IF i + 1 = Len(queue) THEN Null ELSE queue[(i + 1) + 1]
          BY <5>1, Zenon DEF LinksSpellQueue
        <5>. QED BY <5>0, <5>2
      <4>4. i = Len(queue) - 1 <=> i + 1 = Len(queue)
        BY <1>0
      <4>5. i # Len(queue) - 1 => queue'[i + 1] = queue[i + 2]
        <5>1. i # Len(queue) - 1 => i + 1 \in 1 .. Len(queue) - 1
          BY <1>0
        <5>2. (i + 1) + 1 = i + 2
          OBVIOUS
        <5>. QED BY <1>5, <5>1, <5>2
      <4>. QED BY <4>2, <4>3, <4>4, <4>5
    <3>4. queue' # <<>> /\ queue'[1] = queue[2]
             /\ queue'[Len(queue')] = queue[Len(queue)]
      <4>1. /\ 1 \in 1 .. Len(queue) - 1 /\ Len(queue) - 1 \in 1 .. Len(queue) - 1
            /\ 1 + 1 = 2 /\ (Len(queue) - 1) + 1 = Len(queue)
        BY <1>0, <2>2
      <4>2. queue' # <<>>
        <5>1. Len(queue') # 0
          <6>1. Len(queue') = Len(queue) - 1
            BY <1>5
          <6>. QED BY <1>0, <2>2, <6>1
        <5>2. Len(<<>>) = 0
          BY EmptySeq
        <5>. QED BY <5>1, <5>2, Zenon
      <4>3. queue'[1] = queue[2] /\ queue'[Len(queue) - 1] = queue[Len(queue)]
        BY <1>5, <4>1, Zenon
      <4>. QED BY <1>5, <4>2, <4>3
    <3>. QED BY <1>5, <3>2, <3>3, <3>4 DEF LinksSpellQueue
  <2>. QED BY <1>1, <1>2, <2>1, <2>2
<1>. QED BY <1>4, <1>5, <1>6, <1>7, <1>9, <1>10

-----------------------------------------------------------------------------
(* The inductive invariant, and what a wake does to it.                    *)

SInv ==
  /\ Shape
  /\ OneThread
  /\ LinksSpellQueue
  /\ QueuedIffReady
  /\ WakeSourcesParked
  /\ SuspendedCounted

LEMMA SuspendedFinite ==
  IsFiniteSet(Suspended) /\ Cardinality(Suspended) \in Nat
<1>1. Suspended \in SUBSET Fiber
  BY DEF Suspended
<1>. QED BY <1>1, FS_Subset, FS_CardinalityType, FiberAssumption

\* Parking the running fiber is counted.
LEMMA ParkCounted ==
  ASSUME Shape, SuspendedCounted, current \in Fiber, fstate[current] = "running",
         Park
  PROVE  nSuspended' \in Nat /\ SuspendedCounted'
<1>1. Suspended' = Suspended \cup {current} /\ current \notin Suspended
  BY DEF Suspended, Park, Shape
<1>2. Cardinality(Suspended') = Cardinality(Suspended) + 1
  BY <1>1, SuspendedFinite, FS_AddElement
<1>. QED BY <1>2, SuspendedFinite DEF Park, SuspendedCounted

\* Every timer a step leaves is one it found.
NoNewTimer == \A i \in DOMAIN timers' : \E j \in DOMAIN timers : timers'[i] = timers[j]

\* Whatever list a caller of wake took the record from, the wake keeps the ready
\* queue, the wake sources and the count of parked fibers right.
LEMMA WakeFacts ==
  ASSUME Shape, OneThread, LinksSpellQueue, QueuedIffReady, SuspendedCounted,
         current # Null => fstate[current] = "running",
         NEW f \in Fiber,
         NEW ts \in Seq(AnyTimer), NEW ws \in Seq(IoWaiter),
         NEW k \in [Fd -> {"none", "armed", "disabled"}],
         SourcesParked(ts, ws),
         Wake(f, ts, ws, k),
         current' = current
  PROVE  /\ fstate' \in [Fiber -> FiberState]
         /\ next' \in [Fiber -> Fiber \cup {Null}]
         /\ readyHead' \in Fiber \cup {Null} /\ readyTail' \in Fiber \cup {Null}
         /\ queue' \in Seq(Fiber)
         /\ nSuspended' \in Nat
         /\ timers' \in Seq(AnyTimer) /\ ioWaiters' \in Seq(IoWaiter)
         /\ kernel' \in [Fd -> {"none", "armed", "disabled"}]
         /\ LinksSpellQueue' /\ QueuedIffReady'
         /\ WakeSourcesParked' /\ SuspendedCounted'
         /\ \A g \in Fiber : fstate'[g] \in {"running", "done"} => g = current
         /\ current # Null => fstate'[current] = "running"
         /\ \A i \in DOMAIN timers' : \E j \in DOMAIN ts : timers'[i] = ts[j]
<1>1. CASE fstate[f] # "suspended"
  <2>1. /\ timers' = ts /\ ioWaiters' = ws /\ kernel' = k
        /\ UNCHANGED <<fstate, queueVars, nSuspended>>
    BY <1>1 DEF Wake
  <2>2. LinksSpellQueue' /\ QueuedIffReady'
    BY <2>1 DEF LinksSpellQueue, QueuedIffReady, LinkedOnce, Queued, queueVars
  <2>3. WakeSourcesParked' /\ SuspendedCounted'
    BY <2>1 DEF WakeSourcesParked, SourcesParked, SuspendedCounted, Suspended
  <2>. QED BY <2>1, <2>2, <2>3 DEF Shape, OneThread, queueVars
<1>2. CASE fstate[f] = "suspended"
  <2>1. /\ timers' = Evict(ts, f) /\ ioWaiters' = Evict(ws, f)
        /\ kernel' = Deregister(k, ws, f)
        /\ nSuspended' = nSuspended - 1
        /\ fstate' = [fstate EXCEPT ![f] = "ready"]
        /\ Enqueue(f)
    BY <1>2 DEF Wake
  <2>2. ~Queued(f) /\ f # current /\ LinkedOnce
    BY <1>2, FiberAssumption DEF QueuedIffReady
  <2>3. /\ queue' \in Seq(Fiber)
        /\ next' \in [Fiber -> Fiber \cup {Null}]
        /\ readyHead' \in Fiber \cup {Null} /\ readyTail' \in Fiber \cup {Null}
        /\ LinksSpellQueue' /\ LinkedOnce'
        /\ \A g : Queued(g)' <=> Queued(g) \/ g = f
    BY <2>1, <2>2, EnqueueFacts
  <2>4. fstate' \in [Fiber -> FiberState] /\ \A g \in Fiber \ {f} : fstate'[g] = fstate[g]
    BY <2>1 DEF Shape, FiberState
  <2>5. fstate'[f] = "ready"
    BY <2>1 DEF Shape
  <2>6. QueuedIffReady'
    <3>1. ASSUME NEW g \in Fiber
          PROVE  Queued(g)' <=> (fstate'[g] = "ready" /\ g # current')
      <4>1. CASE g = f
        BY <2>2, <2>3, <2>5, <4>1
      <4>2. CASE g # f
        BY <2>3, <2>4, <4>2 DEF QueuedIffReady
      <4>. QED BY <4>1, <4>2
    <3>. QED BY <2>3, <3>1 DEF QueuedIffReady
  <2>7. SuspendedCounted' /\ nSuspended' \in Nat
    <3>1. Suspended' = Suspended \ {f} /\ f \in Suspended
      BY <1>2, <2>4, <2>5 DEF Suspended
    <3>2. Cardinality(Suspended') = Cardinality(Suspended) - 1
      BY <3>1, SuspendedFinite, FS_RemoveElement
    <3>3. IsFiniteSet(Suspended') /\ Cardinality(Suspended') \in Nat
      BY <3>1, SuspendedFinite, FS_RemoveElement, FS_CardinalityType
    <3>. QED BY <2>1, <3>2, <3>3 DEF SuspendedCounted
  <2>8. /\ timers' \in Seq(AnyTimer) /\ ioWaiters' \in Seq(IoWaiter)
        /\ Within(timers', ts, {i \in DOMAIN ts : ts[i].fiber # f})
        /\ Within(ioWaiters', ws, {i \in DOMAIN ws : ws[i].fiber # f})
        /\ Holds(ws, f) => FirstOf(ws, f) \in DOMAIN ws
    <3>1. \A i, j \in DOMAIN ts : ts[i].fiber = ts[j].fiber => i = j
      BY DEF SourcesParked
    <3>4. \A i, j \in DOMAIN ws : ws[i].fiber = ws[j].fiber => i = j
      BY DEF SourcesParked
    <3>2. /\ Evict(ts, f) \in Seq(AnyTimer)
          /\ Within(Evict(ts, f), ts, {i \in DOMAIN ts : ts[i].fiber # f})
      BY <3>1, EvictFacts
    <3>3. /\ Evict(ws, f) \in Seq(IoWaiter)
          /\ Within(Evict(ws, f), ws, {i \in DOMAIN ws : ws[i].fiber # f})
          /\ Holds(ws, f) => FirstOf(ws, f) \in DOMAIN ws
      BY <3>4, EvictFacts
    <3>. QED BY <2>1, <3>2, <3>3
  <2>9. kernel' \in [Fd -> {"none", "armed", "disabled"}]
    BY <2>1, <2>8 DEF Deregister
  <2>10. WakeSourcesParked'
    <3>0. /\ \A i \in DOMAIN ts : ts[i].fiber \in Fiber
          /\ \A i \in DOMAIN ws : ws[i].fiber \in Fiber
      <4>1. /\ \A i \in DOMAIN ts : ts[i] \in AnyTimer
            /\ \A i \in DOMAIN ws : ws[i] \in IoWaiter
        BY ElementOfSeq, LenProperties
      <4>. QED BY <4>1 DEF AnyTimer, IoWaiter
    <3>1. PICK m \in [DOMAIN timers' -> {i \in DOMAIN ts : ts[i].fiber # f}] :
            /\ \A i \in DOMAIN timers' : timers'[i] = ts[m[i]]
            /\ \A i, j \in DOMAIN timers' : m[i] = m[j] => i = j
      BY <2>8 DEF Within
    <3>2. PICK n \in [DOMAIN ioWaiters' -> {i \in DOMAIN ws : ws[i].fiber # f}] :
            /\ \A i \in DOMAIN ioWaiters' : ioWaiters'[i] = ws[n[i]]
            /\ \A i, j \in DOMAIN ioWaiters' : n[i] = n[j] => i = j
      BY <2>8 DEF Within
    <3>3. \A i \in DOMAIN timers' :
            m[i] \in DOMAIN ts /\ ts[m[i]].fiber \in Fiber \ {f}
      BY <3>0, <3>1
    <3>4. \A i \in DOMAIN ioWaiters' :
            n[i] \in DOMAIN ws /\ ws[n[i]].fiber \in Fiber \ {f}
      BY <3>0, <3>2
    <3>5. \A i \in DOMAIN timers' : fstate'[timers'[i].fiber] = "suspended"
      BY <2>4, <3>1, <3>3 DEF SourcesParked
    <3>6. \A i \in DOMAIN ioWaiters' : fstate'[ioWaiters'[i].fiber] = "suspended"
      BY <2>4, <3>2, <3>4 DEF SourcesParked
    <3>7. \A i, j \in DOMAIN timers' : timers'[i].fiber = timers'[j].fiber => i = j
      BY <3>1, <3>3 DEF SourcesParked
    <3>8. \A i, j \in DOMAIN ioWaiters' :
            /\ ioWaiters'[i].fiber = ioWaiters'[j].fiber => i = j
            /\ ioWaiters'[i].fd = ioWaiters'[j].fd => i = j
      BY <3>2, <3>4 DEF SourcesParked
    <3>9. \A i \in DOMAIN timers', j \in DOMAIN ioWaiters' :
            timers'[i].fiber # ioWaiters'[j].fiber
      BY <3>1, <3>2, <3>3, <3>4 DEF SourcesParked
    <3>. QED BY <3>5, <3>6, <3>7, <3>8, <3>9 DEF WakeSourcesParked, SourcesParked
  <2>11. \A g \in Fiber : fstate'[g] \in {"running", "done"} => g = current
    BY <2>4, <2>5 DEF OneThread
  <2>12. current # Null => fstate'[current] = "running"
    BY <2>2, <2>4 DEF Shape
  <2>13. \A i \in DOMAIN timers' : \E j \in DOMAIN ts : timers'[i] = ts[j]
    BY <2>8 DEF Within
  <2>. QED BY <2>3, <2>4, <2>6, <2>7, <2>8, <2>9, <2>10, <2>11, <2>12, <2>13
<1>. QED BY <1>1, <1>2

-----------------------------------------------------------------------------
(* The steps.                                                              *)

\* The running fiber leaves the running state in place: the queue does not see it.
LEMMA CurrentLeaves ==
  ASSUME SInv, InFiber,
         NEW st \in {"ready", "suspended", "done"},
         fstate' = [fstate EXCEPT ![current] = st],
         UNCHANGED <<queueVars, current, evbuf, mode>>
  PROVE  /\ current \in Fiber /\ evbuf = <<>>
         /\ fstate' \in [Fiber -> FiberState]
         /\ \A g \in Fiber \ {current} : fstate'[g] = fstate[g]
         /\ fstate'[current] = st
         /\ OneThread' /\ LinksSpellQueue' /\ QueuedIffReady'
<1>1. current \in Fiber /\ current # Null /\ evbuf = <<>> /\ mode \in {"run", "poll"}
  BY DEF SInv, Shape, InFiber, OneThread
<1>2. /\ fstate' \in [Fiber -> FiberState]
      /\ \A g \in Fiber \ {current} : fstate'[g] = fstate[g]
      /\ fstate'[current] = st
  BY <1>1 DEF SInv, Shape, FiberState
<1>3. OneThread'
  BY <1>1, <1>2 DEF SInv, OneThread
<1>4. LinksSpellQueue'
  BY DEF SInv, LinksSpellQueue, queueVars
<1>5. QueuedIffReady'
  <2>1. ASSUME NEW g \in Fiber
        PROVE  Queued(g)' <=> (fstate'[g] = "ready" /\ g # current')
    <3>1. Queued(g)' <=> Queued(g)
      BY DEF Queued, queueVars
    <3>2. Queued(g) <=> (fstate[g] = "ready" /\ g # current)
      BY DEF SInv, QueuedIffReady
    <3>. QED BY <1>2, <3>1, <3>2
  <2>. QED BY <2>1 DEF SInv, QueuedIffReady, LinkedOnce, queueVars
<1>. QED BY <1>1, <1>2, <1>3, <1>4, <1>5

\* A fiber that is not parked is in no list of wake sources.
LEMMA SourcesOfOthers ==
  ASSUME SInv
  PROVE  /\ \A i \in DOMAIN timers :
              /\ timers[i] \in AnyTimer /\ timers[i].fiber \in Fiber
              /\ timers[i].deadlineMs \in Int
              /\ fstate[timers[i].fiber] = "suspended"
         /\ \A i \in DOMAIN ioWaiters :
              /\ ioWaiters[i] \in IoWaiter /\ ioWaiters[i].fiber \in Fiber
              /\ ioWaiters[i].fd \in Fd
              /\ fstate[ioWaiters[i].fiber] = "suspended"
<1>1. timers \in Seq(AnyTimer) /\ ioWaiters \in Seq(IoWaiter)
  BY DEF SInv, Shape
<1>2. /\ \A i \in DOMAIN timers : timers[i] \in AnyTimer
      /\ \A i \in DOMAIN ioWaiters : ioWaiters[i] \in IoWaiter
  BY <1>1, ElementOfSeq, LenProperties
<1>. QED BY <1>2 DEF SInv, WakeSourcesParked, SourcesParked, AnyTimer, IoWaiter

\* yieldNow and the return of a body.
LEMMA LeavesUnparked ==
  ASSUME SInv, InFiber,
         NEW st \in {"ready", "done"},
         fstate' = [fstate EXCEPT ![current] = st],
         UNCHANGED <<queueVars, current, nSuspended, timeVars, fdVars, mode>>
  PROVE  SInv'
<1>1. /\ current \in Fiber
      /\ fstate' \in [Fiber -> FiberState]
      /\ \A g \in Fiber \ {current} : fstate'[g] = fstate[g]
      /\ fstate'[current] = st
      /\ OneThread' /\ LinksSpellQueue' /\ QueuedIffReady'
  BY CurrentLeaves DEF fdVars
<1>2. Shape'
  BY <1>1 DEF SInv, Shape, queueVars, timeVars, fdVars
<1>3. fstate[current] = "running"
  BY DEF InFiber
<1>4. WakeSourcesParked'
  BY <1>1, <1>3, SourcesOfOthers
     DEF SInv, WakeSourcesParked, SourcesParked, timeVars, fdVars
<1>5. Suspended' = Suspended
  BY <1>1, <1>3 DEF Suspended
<1>6. SuspendedCounted'
  BY <1>5 DEF SInv, SuspendedCounted, timeVars
<1>. QED BY <1>1, <1>2, <1>4, <1>6 DEF SInv

\* What every parking call has in common.
LEMMA ParkFacts ==
  ASSUME SInv, InFiber, Park, UNCHANGED <<queueVars, current, evbuf, mode>>
  PROVE  /\ current \in Fiber /\ fstate[current] = "running" /\ evbuf = <<>>
         /\ fstate' \in [Fiber -> FiberState]
         /\ \A g \in Fiber \ {current} : fstate'[g] = fstate[g]
         /\ fstate'[current] = "suspended"
         /\ nSuspended' \in Nat
         /\ OneThread' /\ LinksSpellQueue' /\ QueuedIffReady' /\ SuspendedCounted'
<1>1. /\ current \in Fiber /\ evbuf = <<>>
      /\ fstate' \in [Fiber -> FiberState]
      /\ \A g \in Fiber \ {current} : fstate'[g] = fstate[g]
      /\ fstate'[current] = "suspended"
      /\ OneThread' /\ LinksSpellQueue' /\ QueuedIffReady'
  BY CurrentLeaves DEF Park
<1>2. fstate[current] = "running"
  BY DEF InFiber
<1>3. nSuspended' \in Nat /\ SuspendedCounted'
  BY <1>1, <1>2, ParkCounted DEF SInv
<1>. QED BY <1>1, <1>2, <1>3

LEMMA SuspendSelfStep == SInv /\ SuspendSelf => SInv'
<1>. SUFFICES ASSUME SInv, SuspendSelf PROVE SInv'
  OBVIOUS
<1>1. InFiber /\ Park /\ UNCHANGED <<queueVars, current, timeVars, fdVars, mode>>
  BY DEF SuspendSelf
<1>2. /\ current \in Fiber /\ fstate[current] = "running"
      /\ fstate' \in [Fiber -> FiberState]
      /\ \A g \in Fiber \ {current} : fstate'[g] = fstate[g]
      /\ nSuspended' \in Nat
      /\ OneThread' /\ LinksSpellQueue' /\ QueuedIffReady' /\ SuspendedCounted'
  BY <1>1, ParkFacts DEF fdVars
<1>3. Shape'
  BY <1>1, <1>2 DEF SInv, Shape, queueVars, timeVars, fdVars
<1>4. WakeSourcesParked'
  BY <1>1, <1>2, SourcesOfOthers
     DEF SInv, WakeSourcesParked, SourcesParked, timeVars, fdVars
<1>. QED BY <1>2, <1>3, <1>4 DEF SInv

\* sleep of the scheduler, and io.sleep whatever its duration.
LEMMA SleepStep ==
  ASSUME SInv, InFiber, Park, NEW ms \in Int,
         timers' = Append(timers, [deadlineMs |-> clockMs + ms, fiber |-> current]),
         UNCHANGED <<queueVars, current, clockMs, fdVars, mode>>
  PROVE  SInv'
<1>. DEFINE n == Len(timers)
            t == [deadlineMs |-> clockMs + ms, fiber |-> current]
<1>1. /\ InFiber /\ Park
      /\ timers' = Append(timers, t)
      /\ UNCHANGED <<queueVars, current, clockMs, fdVars, mode>>
  OBVIOUS
<1>2. /\ current \in Fiber /\ fstate[current] = "running"
      /\ fstate' \in [Fiber -> FiberState]
      /\ \A g \in Fiber \ {current} : fstate'[g] = fstate[g]
      /\ fstate'[current] = "suspended"
      /\ nSuspended' \in Nat
      /\ OneThread' /\ LinksSpellQueue' /\ QueuedIffReady' /\ SuspendedCounted'
  BY <1>1, ParkFacts DEF fdVars
<1>3. t \in AnyTimer /\ t.fiber = current
  BY <1>2 DEF SInv, Shape, AnyTimer
<1>. HIDE DEF t
<1>4. /\ timers' \in Seq(AnyTimer) /\ n \in Nat /\ DOMAIN timers = 1 .. n
      /\ DOMAIN timers' = 1 .. n + 1
      /\ \A i \in 1 .. n : timers'[i] = timers[i]
      /\ timers'[n + 1] = t
  BY <1>1, <1>3, AppendProperties, LenProperties DEF SInv, Shape
<1>. HIDE DEF n
<1>5. Shape'
  BY <1>1, <1>2, <1>4 DEF SInv, Shape, queueVars, fdVars
<1>6. /\ \A i \in 1 .. n : /\ timers[i].fiber \in Fiber \ {current}
                         /\ fstate[timers[i].fiber] = "suspended"
      /\ \A i \in DOMAIN ioWaiters :
           /\ ioWaiters[i].fiber \in Fiber \ {current}
           /\ fstate[ioWaiters[i].fiber] = "suspended"
  BY <1>2, <1>4, SourcesOfOthers
<1>7. \A i \in 1 .. n + 1 : i \in 1 .. n \/ i = n + 1
  BY <1>4
<1>8. ioWaiters' = ioWaiters
  BY <1>1 DEF fdVars
<1>9. WakeSourcesParked'
  <2>1. \A i \in 1 .. n + 1 : fstate'[timers'[i].fiber] = "suspended"
    BY <1>2, <1>3, <1>4, <1>6, <1>7
  <2>2. \A i \in DOMAIN ioWaiters : fstate'[ioWaiters[i].fiber] = "suspended"
    BY <1>2, <1>6
  <2>3. \A i, j \in 1 .. n + 1 : timers'[i].fiber = timers'[j].fiber => i = j
    BY <1>3, <1>4, <1>6, <1>7 DEF SInv, WakeSourcesParked, SourcesParked
  <2>4. \A i \in 1 .. n + 1, j \in DOMAIN ioWaiters :
          timers'[i].fiber # ioWaiters[j].fiber
    <3>1. \A i \in 1 .. n, j \in DOMAIN ioWaiters :
            timers[i].fiber # ioWaiters[j].fiber
      BY <1>4 DEF SInv, WakeSourcesParked, SourcesParked
    <3>. QED BY <1>3, <1>4, <1>6, <1>7, <3>1
  <2>. QED BY <1>4, <1>8, <2>1, <2>2, <2>3, <2>4
           DEF SInv, WakeSourcesParked, SourcesParked
<1>. QED BY <1>2, <1>5, <1>9 DEF SInv

LEMMA BlockOnFdStep ==
  ASSUME SInv, NEW fd \in Fd, BlockOnFd(fd)
  PROVE  SInv'
<1>. DEFINE n == Len(ioWaiters)
            w == [fd |-> fd, fiber |-> current]
<1>1. /\ InFiber /\ Park /\ CanArm(fd)
      /\ ioWaiters' = Append(ioWaiters, w)
      /\ kernel' = [kernel EXCEPT ![fd] = "armed"]
      /\ UNCHANGED <<queueVars, current, timeVars, evbuf, readable, mode>>
  BY DEF BlockOnFd
<1>2. /\ current \in Fiber /\ fstate[current] = "running"
      /\ fstate' \in [Fiber -> FiberState]
      /\ \A g \in Fiber \ {current} : fstate'[g] = fstate[g]
      /\ fstate'[current] = "suspended"
      /\ nSuspended' \in Nat
      /\ OneThread' /\ LinksSpellQueue' /\ QueuedIffReady' /\ SuspendedCounted'
  BY <1>1, ParkFacts
<1>3. w \in IoWaiter /\ w.fd = fd /\ w.fiber = current
  BY <1>2 DEF IoWaiter
<1>. HIDE DEF w
<1>4. /\ ioWaiters' \in Seq(IoWaiter) /\ n \in Nat /\ DOMAIN ioWaiters = 1 .. n
      /\ DOMAIN ioWaiters' = 1 .. n + 1
      /\ \A i \in 1 .. n : ioWaiters'[i] = ioWaiters[i]
      /\ ioWaiters'[n + 1] = w
  BY <1>1, <1>3, AppendProperties, LenProperties DEF SInv, Shape
<1>. HIDE DEF n
<1>5. Shape'
  BY <1>1, <1>2, <1>4 DEF SInv, Shape, queueVars, timeVars
<1>6. /\ \A i \in DOMAIN timers : /\ timers[i].fiber \in Fiber \ {current}
                                /\ fstate[timers[i].fiber] = "suspended"
      /\ \A i \in 1 .. n : /\ ioWaiters[i].fiber \in Fiber \ {current}
                         /\ fstate[ioWaiters[i].fiber] = "suspended"
                         /\ ioWaiters[i].fd # fd
  BY <1>1, <1>2, <1>4, SourcesOfOthers DEF CanArm
<1>7. \A i \in 1 .. n + 1 : i \in 1 .. n \/ i = n + 1
  BY <1>4
<1>8. timers' = timers /\ clockMs' = clockMs
  BY <1>1 DEF timeVars
<1>9. WakeSourcesParked'
  <2>1. \A i \in 1 .. n + 1 : fstate'[ioWaiters'[i].fiber] = "suspended"
    BY <1>2, <1>3, <1>4, <1>6, <1>7
  <2>2. \A i \in DOMAIN timers : fstate'[timers[i].fiber] = "suspended"
    BY <1>2, <1>6
  <2>3. \A i, j \in 1 .. n + 1 :
          /\ ioWaiters'[i].fiber = ioWaiters'[j].fiber => i = j
          /\ ioWaiters'[i].fd = ioWaiters'[j].fd => i = j
    BY <1>3, <1>4, <1>6, <1>7 DEF SInv, WakeSourcesParked, SourcesParked
  <2>4. \A i \in DOMAIN timers, j \in 1 .. n + 1 :
          timers[i].fiber # ioWaiters'[j].fiber
    BY <1>3, <1>4, <1>6, <1>7 DEF SInv, WakeSourcesParked, SourcesParked
  <2>. QED BY <1>4, <1>8, <2>1, <2>2, <2>3, <2>4
           DEF SInv, WakeSourcesParked, SourcesParked
<1>. QED BY <1>2, <1>5, <1>9 DEF SInv

\* spawn links a fiber whose address nobody refers to.
LEMMA SpawnStep == SInv /\ Spawn => SInv'
<1>. SUFFICES ASSUME SInv, Spawn PROVE SInv'
  OBVIOUS
<1>1. PICK f \in Fiber : /\ fstate[f] = "free"
                         /\ fstate' = [fstate EXCEPT ![f] = "ready"]
                         /\ Enqueue(f)
  BY DEF Spawn
<1>2. UNCHANGED <<current, nSuspended, timeVars, fdVars, mode>>
  BY DEF Spawn
<1>3. /\ fstate' \in [Fiber -> FiberState]
      /\ fstate'[f] = "ready"
      /\ \A g \in Fiber \ {f} : fstate'[g] = fstate[g]
  BY <1>1 DEF SInv, Shape, FiberState
<1>4. ~Queued(f) /\ LinkedOnce /\ f # current
  BY <1>1, FiberAssumption DEF SInv, QueuedIffReady, OneThread
<1>5. /\ queue' \in Seq(Fiber)
      /\ next' \in [Fiber -> Fiber \cup {Null}]
      /\ readyHead' \in Fiber \cup {Null} /\ readyTail' \in Fiber \cup {Null}
      /\ LinksSpellQueue' /\ LinkedOnce'
      /\ \A g : Queued(g)' <=> Queued(g) \/ g = f
  BY <1>1, <1>4, EnqueueFacts DEF SInv
<1>6. Shape'
  BY <1>2, <1>3, <1>5 DEF SInv, Shape, timeVars, fdVars
<1>7. OneThread'
  <2>1. \A g \in Fiber : fstate'[g] \in {"running", "done"} => g = current
    BY <1>3 DEF SInv, OneThread
  <2>2. current # Null => fstate'[current] # "free"
    BY <1>3, <1>4 DEF SInv, OneThread, Shape
  <2>. QED BY <1>2, <2>1, <2>2 DEF SInv, OneThread, fdVars
<1>8. QueuedIffReady'
  <2>1. ASSUME NEW g \in Fiber
        PROVE  Queued(g)' <=> (fstate'[g] = "ready" /\ g # current')
    <3>1. CASE g = f
      BY <1>2, <1>3, <1>4, <1>5, <3>1
    <3>2. CASE g # f
      BY <1>2, <1>3, <1>5, <3>2 DEF SInv, QueuedIffReady
    <3>. QED BY <3>1, <3>2
  <2>. QED BY <1>5, <2>1 DEF QueuedIffReady
<1>9. WakeSourcesParked'
  BY <1>1, <1>2, <1>3, SourcesOfOthers
     DEF SInv, WakeSourcesParked, SourcesParked, timeVars, fdVars
<1>10. Suspended' = Suspended
  BY <1>1, <1>3 DEF Suspended
<1>11. SuspendedCounted'
  BY <1>2, <1>10 DEF SInv, SuspendedCounted, timeVars
<1>. QED BY <1>5, <1>6, <1>7, <1>8, <1>9, <1>11 DEF SInv

\* wake called by a fiber or by the driver, and by what they call.
LEMMA WakeCallStep ==
  ASSUME SInv, InFiber \/ mode = "main",
         NEW f \in Fiber, Wake(f, timers, ioWaiters, kernel),
         UNCHANGED <<current, clockMs, evbuf, readable, mode>>
  PROVE  SInv' /\ NoNewTimer
<1>3. /\ timers \in Seq(AnyTimer) /\ ioWaiters \in Seq(IoWaiter)
      /\ kernel \in [Fd -> {"none", "armed", "disabled"}]
      /\ SourcesParked(timers, ioWaiters)
  BY DEF SInv, Shape, WakeSourcesParked
<1>4. current # Null => fstate[current] = "running"
  BY DEF InFiber, SInv, OneThread
<1>5. /\ fstate' \in [Fiber -> FiberState]
      /\ next' \in [Fiber -> Fiber \cup {Null}]
      /\ readyHead' \in Fiber \cup {Null} /\ readyTail' \in Fiber \cup {Null}
      /\ queue' \in Seq(Fiber)
      /\ nSuspended' \in Nat
      /\ timers' \in Seq(AnyTimer) /\ ioWaiters' \in Seq(IoWaiter)
      /\ kernel' \in [Fd -> {"none", "armed", "disabled"}]
      /\ LinksSpellQueue' /\ QueuedIffReady'
      /\ WakeSourcesParked' /\ SuspendedCounted'
      /\ \A g \in Fiber : fstate'[g] \in {"running", "done"} => g = current
      /\ current # Null => fstate'[current] = "running"
      /\ \A i \in DOMAIN timers' : \E j \in DOMAIN timers : timers'[i] = timers[j]
  BY <1>3, <1>4, WakeFacts DEF SInv
<1>6. Shape'
  BY <1>5 DEF SInv, Shape
<1>7. OneThread'
  BY <1>5 DEF SInv, OneThread
<1>. QED BY <1>5, <1>6, <1>7 DEF SInv, NoNewTimer

\* The loop fires the earliest timer.
LEMMA FireTimerStep == SInv /\ FireTimer => SInv' /\ NoNewTimer
<1>. SUFFICES ASSUME SInv, FireTimer PROVE SInv' /\ NoNewTimer
  OBVIOUS
<1>1. PICK i \in DOMAIN timers :
        /\ EarliestTimer(i)
        /\ clockMs' = timers[i].deadlineMs
        /\ Wake(timers[i].fiber, Without(timers, i), ioWaiters, kernel)
  BY DEF FireTimer
<1>2. /\ UNCHANGED <<current, evbuf, readable>>
      /\ mode' \in {mode, "main"} /\ current = Null /\ evbuf = <<>>
  BY DEF FireTimer, Drained, InLoop
<1>. DEFINE ts == Without(timers, i)
<1>3. /\ timers \in Seq(AnyTimer) /\ ioWaiters \in Seq(IoWaiter)
      /\ kernel \in [Fd -> {"none", "armed", "disabled"}]
      /\ timers[i].fiber \in Fiber /\ timers[i].deadlineMs \in Int
  BY SourcesOfOthers DEF SInv, Shape
<1>4. ts \in Seq(AnyTimer) /\ Within(ts, timers, DOMAIN timers \ {i})
  BY <1>3, WithoutFacts, WithinFacts
<1>. HIDE DEF ts
<1>5. PICK m \in [DOMAIN ts -> DOMAIN timers \ {i}] :
        /\ \A k \in DOMAIN ts : ts[k] = timers[m[k]]
        /\ \A k, l \in DOMAIN ts : m[k] = m[l] => k = l
  BY <1>4 DEF Within
<1>6. SourcesParked(ts, ioWaiters)
  BY <1>5 DEF SInv, WakeSourcesParked, SourcesParked
<1>7. /\ fstate' \in [Fiber -> FiberState]
      /\ next' \in [Fiber -> Fiber \cup {Null}]
      /\ readyHead' \in Fiber \cup {Null} /\ readyTail' \in Fiber \cup {Null}
      /\ queue' \in Seq(Fiber)
      /\ nSuspended' \in Nat
      /\ timers' \in Seq(AnyTimer) /\ ioWaiters' \in Seq(IoWaiter)
      /\ kernel' \in [Fd -> {"none", "armed", "disabled"}]
      /\ LinksSpellQueue' /\ QueuedIffReady'
      /\ WakeSourcesParked' /\ SuspendedCounted'
      /\ \A g \in Fiber : fstate'[g] \in {"running", "done"} => g = current
      /\ \A n \in DOMAIN timers' : \E j \in DOMAIN ts : timers'[n] = ts[j]
  BY <1>1, <1>2, <1>3, <1>4, <1>6, WakeFacts DEF SInv, ts
<1>8. Shape'
  BY <1>1, <1>2, <1>3, <1>7 DEF SInv, Shape
<1>9. OneThread'
  BY <1>2, <1>7 DEF SInv, OneThread
<1>10. NoNewTimer
  BY <1>5, <1>7 DEF NoNewTimer
<1>. QED BY <1>7, <1>8, <1>9, <1>10 DEF SInv

\* The loop handles one drained event.
LEMMA HandleEventStep == SInv /\ HandleEvent => SInv' /\ NoNewTimer
<1>. SUFFICES ASSUME SInv, HandleEvent PROVE SInv' /\ NoNewTimer
  OBVIOUS
<1>. DEFINE fd == Head(evbuf)
            k  == IF Os = "linux" THEN [kernel EXCEPT ![fd] = "none"] ELSE kernel
<1>1. /\ evbuf # <<>> /\ evbuf' = Tail(evbuf) /\ current = Null /\ mode = "run"
      /\ UNCHANGED <<current, clockMs, readable, mode>>
  BY DEF HandleEvent, SInv, OneThread
<1>2. evbuf' \in Seq(Fd)
  BY <1>1, HeadTailProperties DEF SInv, Shape
<1>3. k \in [Fd -> {"none", "armed", "disabled"}]
  BY DEF SInv, Shape
<1>4. /\ timers \in Seq(AnyTimer) /\ ioWaiters \in Seq(IoWaiter)
  BY DEF SInv, Shape
<1>5. CASE \E i \in DOMAIN ioWaiters :
             Wake(ioWaiters[i].fiber, timers, Without(ioWaiters, i), k)
  <2>1. PICK i \in DOMAIN ioWaiters :
               Wake(ioWaiters[i].fiber, timers, Without(ioWaiters, i), k)
    BY <1>5
  <2>. DEFINE ws == Without(ioWaiters, i)
  <2>2. ws \in Seq(IoWaiter) /\ Within(ws, ioWaiters, DOMAIN ioWaiters \ {i})
    BY <1>4, WithoutFacts, WithinFacts
  <2>3. ioWaiters[i].fiber \in Fiber
    BY SourcesOfOthers
  <2>. HIDE DEF ws, k
  <2>4. PICK m \in [DOMAIN ws -> DOMAIN ioWaiters \ {i}] :
          /\ \A j \in DOMAIN ws : ws[j] = ioWaiters[m[j]]
          /\ \A j, l \in DOMAIN ws : m[j] = m[l] => j = l
    BY <2>2 DEF Within
  <2>5. SourcesParked(timers, ws)
    BY <2>4 DEF SInv, WakeSourcesParked, SourcesParked
  <2>6. /\ fstate' \in [Fiber -> FiberState]
        /\ next' \in [Fiber -> Fiber \cup {Null}]
        /\ readyHead' \in Fiber \cup {Null} /\ readyTail' \in Fiber \cup {Null}
        /\ queue' \in Seq(Fiber)
        /\ nSuspended' \in Nat
        /\ timers' \in Seq(AnyTimer) /\ ioWaiters' \in Seq(IoWaiter)
        /\ kernel' \in [Fd -> {"none", "armed", "disabled"}]
        /\ LinksSpellQueue' /\ QueuedIffReady'
        /\ WakeSourcesParked' /\ SuspendedCounted'
        /\ \A g \in Fiber : fstate'[g] \in {"running", "done"} => g = current
        /\ \A n \in DOMAIN timers' : \E j \in DOMAIN timers : timers'[n] = timers[j]
    BY <1>1, <1>3, <1>4, <2>1, <2>2, <2>3, <2>5, WakeFacts DEF SInv, ws
  <2>7. Shape'
    BY <1>1, <1>2, <2>6 DEF SInv, Shape
  <2>8. OneThread'
    BY <1>1, <2>6 DEF SInv, OneThread
  <2>. QED BY <2>6, <2>7, <2>8 DEF SInv, NoNewTimer
<1>6. CASE /\ kernel' = k
           /\ UNCHANGED <<fstate, queueVars, nSuspended, timers, ioWaiters>>
  <2>. HIDE DEF k
  <2>1. Shape'
    BY <1>1, <1>2, <1>3, <1>6 DEF SInv, Shape, queueVars
  <2>2. OneThread' /\ LinksSpellQueue' /\ QueuedIffReady'
    BY <1>1, <1>6 DEF SInv, OneThread, LinksSpellQueue, QueuedIffReady, LinkedOnce,
                      Queued, queueVars
  <2>3. WakeSourcesParked' /\ SuspendedCounted'
    BY <1>1, <1>6 DEF SInv, WakeSourcesParked, SourcesParked, SuspendedCounted,
                      Suspended
  <2>. QED BY <1>6, <2>1, <2>2, <2>3 DEF SInv, NoNewTimer
<1>. QED BY <1>5, <1>6 DEF HandleEvent

\* The loop takes the head of the queue.
LEMMA DispatchStep == SInv /\ Dispatch => SInv'
<1>. SUFFICES ASSUME SInv, Dispatch PROVE SInv'
  OBVIOUS
<1>1. /\ current = Null /\ evbuf = <<>> /\ mode \in {"run", "poll"}
      /\ readyHead # Null /\ current' = readyHead
      /\ fstate' = [fstate EXCEPT ![readyHead] = "running"]
      /\ Dequeue
      /\ UNCHANGED <<nSuspended, timeVars, fdVars, mode>>
  BY DEF Dispatch, InLoop
<1>2. /\ readyHead \in Fiber /\ Queued(readyHead)
      /\ queue' \in Seq(Fiber)
      /\ next' \in [Fiber -> Fiber \cup {Null}]
      /\ readyHead' \in Fiber \cup {Null} /\ readyTail' \in Fiber \cup {Null}
      /\ LinksSpellQueue' /\ LinkedOnce'
      /\ \A g : Queued(g)' <=> Queued(g) /\ g # readyHead
  BY <1>1, DequeueFacts DEF SInv, QueuedIffReady
<1>3. fstate[readyHead] = "ready"
  BY <1>2 DEF SInv, QueuedIffReady
<1>4. /\ fstate' \in [Fiber -> FiberState]
      /\ fstate'[readyHead] = "running"
      /\ \A g \in Fiber \ {readyHead} : fstate'[g] = fstate[g]
  BY <1>1, <1>2 DEF SInv, Shape, FiberState
<1>5. Shape'
  BY <1>1, <1>2, <1>4 DEF SInv, Shape, timeVars, fdVars
<1>6. OneThread'
  <2>1. \A g \in Fiber : fstate'[g] \in {"running", "done"} => g = readyHead
    BY <1>1, <1>4, FiberAssumption DEF SInv, OneThread
  <2>. QED BY <1>1, <1>4, <2>1 DEF OneThread, fdVars
<1>7. QueuedIffReady'
  <2>1. ASSUME NEW g \in Fiber
        PROVE  Queued(g)' <=> (fstate'[g] = "ready" /\ g # current')
    <3>1. Queued(g) <=> fstate[g] = "ready"
      BY <1>1, FiberAssumption DEF SInv, QueuedIffReady
    <3>. QED BY <1>1, <1>2, <1>4, <3>1
  <2>. QED BY <1>2, <2>1 DEF QueuedIffReady
<1>8. WakeSourcesParked'
  BY <1>1, <1>3, <1>4, SourcesOfOthers
     DEF SInv, WakeSourcesParked, SourcesParked, timeVars, fdVars
<1>9. Suspended' = Suspended
  BY <1>2, <1>3, <1>4 DEF Suspended
<1>10. SuspendedCounted'
  BY <1>1, <1>9 DEF SInv, SuspendedCounted, timeVars
<1>. QED BY <1>2, <1>5, <1>6, <1>7, <1>8, <1>10 DEF SInv

\* The loop has the thread back: it reaps, links again or leaves the fiber.
LEMMA SwitchedBackStep == SInv /\ SwitchedBack => SInv'
<1>. SUFFICES ASSUME SInv, SwitchedBack PROVE SInv'
  OBVIOUS
<1>1. /\ current \in Fiber /\ current # Null /\ current' = Null
      /\ mode \in {"run", "poll"} /\ evbuf = <<>>
      /\ UNCHANGED <<nSuspended, timeVars, fdVars, mode>>
  BY DEF SwitchedBack, SInv, Shape, OneThread
<1>2. \A g \in Fiber : g # Null
  BY FiberAssumption
<1>3. CASE fstate[current] = "done" /\ fstate' = [fstate EXCEPT ![current] = "free"]
           /\ UNCHANGED queueVars
  <2>1. /\ fstate' \in [Fiber -> FiberState]
        /\ fstate'[current] = "free"
        /\ \A g \in Fiber \ {current} : fstate'[g] = fstate[g]
    BY <1>1, <1>3 DEF SInv, Shape, FiberState
  <2>2. Shape'
    BY <1>1, <1>3, <2>1 DEF SInv, Shape, queueVars, timeVars, fdVars
  <2>3. OneThread'
    BY <1>1, <2>1 DEF SInv, OneThread, fdVars
  <2>4. LinksSpellQueue'
    BY <1>3 DEF SInv, LinksSpellQueue, queueVars
  <2>5. QueuedIffReady'
    <3>1. ASSUME NEW g \in Fiber
          PROVE  Queued(g)' <=> (fstate'[g] = "ready" /\ g # current')
      <4>1. Queued(g)' <=> Queued(g)
        BY <1>3 DEF Queued, queueVars
      <4>2. Queued(g) <=> (fstate[g] = "ready" /\ g # current)
        BY DEF SInv, QueuedIffReady
      <4>. QED BY <1>1, <1>2, <1>3, <2>1, <4>1, <4>2
    <3>. QED BY <1>3, <3>1 DEF SInv, QueuedIffReady, LinkedOnce, queueVars
  <2>6. WakeSourcesParked'
    BY <1>1, <1>3, <2>1, SourcesOfOthers
       DEF SInv, WakeSourcesParked, SourcesParked, timeVars, fdVars
  <2>7. Suspended' = Suspended
    BY <1>1, <1>3, <2>1 DEF Suspended
  <2>8. SuspendedCounted'
    BY <1>1, <2>7 DEF SInv, SuspendedCounted, timeVars
  <2>. QED BY <2>2, <2>3, <2>4, <2>5, <2>6, <2>8 DEF SInv
<1>4. CASE fstate[current] = "ready" /\ Enqueue(current) /\ UNCHANGED fstate
  <2>1. ~Queued(current) /\ LinkedOnce
    BY <1>1 DEF SInv, QueuedIffReady
  <2>2. /\ queue' \in Seq(Fiber)
        /\ next' \in [Fiber -> Fiber \cup {Null}]
        /\ readyHead' \in Fiber \cup {Null} /\ readyTail' \in Fiber \cup {Null}
        /\ LinksSpellQueue' /\ LinkedOnce'
        /\ \A g : Queued(g)' <=> Queued(g) \/ g = current
    BY <1>1, <1>4, <2>1, EnqueueFacts DEF SInv
  <2>3. Shape'
    BY <1>1, <1>4, <2>2 DEF SInv, Shape, timeVars, fdVars
  <2>4. OneThread'
    BY <1>1, <1>4 DEF SInv, OneThread, fdVars
  <2>5. QueuedIffReady'
    <3>1. ASSUME NEW g \in Fiber
          PROVE  Queued(g)' <=> (fstate'[g] = "ready" /\ g # current')
      <4>1. Queued(g) <=> (fstate[g] = "ready" /\ g # current)
        BY DEF SInv, QueuedIffReady
      <4>. QED BY <1>1, <1>2, <1>4, <2>2, <4>1
    <3>. QED BY <2>2, <3>1 DEF QueuedIffReady
  <2>6. WakeSourcesParked'
    BY <1>1, <1>4 DEF SInv, WakeSourcesParked, SourcesParked, timeVars, fdVars
  <2>7. SuspendedCounted'
    BY <1>1, <1>4 DEF SInv, SuspendedCounted, Suspended, timeVars
  <2>. QED BY <2>2, <2>3, <2>4, <2>5, <2>6, <2>7 DEF SInv
<1>5. CASE fstate[current] = "suspended" /\ UNCHANGED <<fstate, queueVars>>
  <2>1. Shape'
    BY <1>1, <1>5 DEF SInv, Shape, queueVars, timeVars, fdVars
  <2>2. OneThread'
    BY <1>1, <1>5 DEF SInv, OneThread, fdVars
  <2>3. LinksSpellQueue'
    BY <1>5 DEF SInv, LinksSpellQueue, queueVars
  <2>4. QueuedIffReady'
    <3>1. ASSUME NEW g \in Fiber
          PROVE  Queued(g)' <=> (fstate'[g] = "ready" /\ g # current')
      <4>1. Queued(g)' <=> Queued(g)
        BY <1>5 DEF Queued, queueVars
      <4>2. Queued(g) <=> (fstate[g] = "ready" /\ g # current)
        BY DEF SInv, QueuedIffReady
      <4>. QED BY <1>1, <1>2, <1>5, <4>1, <4>2
    <3>. QED BY <1>5, <3>1 DEF SInv, QueuedIffReady, LinkedOnce, queueVars
  <2>5. WakeSourcesParked'
    BY <1>1, <1>5 DEF SInv, WakeSourcesParked, SourcesParked, timeVars, fdVars
  <2>6. SuspendedCounted'
    BY <1>1, <1>5 DEF SInv, SuspendedCounted, Suspended, timeVars
  <2>. QED BY <2>1, <2>2, <2>3, <2>4, <2>5, <2>6 DEF SInv
<1>. QED BY <1>3, <1>4, <1>5 DEF SwitchedBack

\* Steps that touch no fiber, no list and no clock.
LEMMA QuietStep ==
  ASSUME SInv,
         UNCHANGED <<fstate, queueVars, current, nSuspended, timeVars, ioWaiters>>,
         kernel' \in [Fd -> {"none", "armed", "disabled"}],
         evbuf' \in Seq(Fd), readable' \in SUBSET Fd,
         mode' \in {"main", "run", "poll", "deinit", "dead", "aborted"},
         current # Null => mode' \in {"run", "poll", "aborted"},
         evbuf' # <<>> => current = Null /\ mode' = "run"
  PROVE  SInv'
<1>1. Shape'
  BY DEF SInv, Shape, queueVars, timeVars
<1>2. OneThread' /\ LinksSpellQueue' /\ QueuedIffReady'
  BY DEF SInv, OneThread, LinksSpellQueue, QueuedIffReady, LinkedOnce, Queued, queueVars
<1>3. WakeSourcesParked' /\ SuspendedCounted'
  BY DEF SInv, WakeSourcesParked, SourcesParked, SuspendedCounted, Suspended,
         timeVars
<1>. QED BY <1>1, <1>2, <1>3 DEF SInv

LEMMA WaitForFdsStep == SInv /\ WaitForFds => SInv'
<1>. SUFFICES ASSUME SInv, WaitForFds PROVE SInv'
  OBVIOUS
<1>1. PICK fds \in SUBSET {fd \in readable : kernel[fd] = "armed"} :
        /\ Cardinality(fds) \in 1 .. MaxEv
        /\ \E order \in [1 .. Cardinality(fds) -> fds] : evbuf' = order
        /\ kernel' = [fd \in Fd |-> IF fd \notin fds THEN kernel[fd]
                                    ELSE IF Os = "linux" THEN "disabled" ELSE "none"]
  BY DEF WaitForFds
<1>2. /\ UNCHANGED <<fstate, queueVars, current, nSuspended, timeVars,
                     ioWaiters, readable, mode>>
      /\ current = Null /\ mode = "run"
  BY DEF WaitForFds, Drained, InLoop
<1>3. /\ readable \in SUBSET Fd /\ kernel \in [Fd -> {"none", "armed", "disabled"}]
  BY DEF SInv, Shape
<1>4. Cardinality(fds) \in Nat
  BY <1>1, MaxEvAssumption
<1>5. evbuf' \in [1 .. Cardinality(fds) -> Fd]
  BY <1>1, <1>3
<1>6. evbuf' \in Seq(Fd)
  BY <1>4, <1>5, SeqDef
<1>7. kernel' \in [Fd -> {"none", "armed", "disabled"}]
  BY <1>1, <1>3
<1>. QED BY <1>2, <1>3, <1>6, <1>7, QuietStep

\* deinit reaps a leftover ready fiber.
LEMMA DeinitReapStep == SInv /\ DeinitReap => SInv'
<1>. SUFFICES ASSUME SInv, DeinitReap PROVE SInv'
  OBVIOUS
<1>1. /\ mode \in {"main", "deinit"} /\ mode' = "deinit"
      /\ readyHead # Null
      /\ fstate' = [fstate EXCEPT ![readyHead] = "free"]
      /\ Dequeue
      /\ UNCHANGED <<current, nSuspended, timeVars, fdVars>>
  BY DEF DeinitReap
<1>2. current = Null /\ evbuf = <<>>
  BY <1>1 DEF SInv, OneThread
<1>3. /\ readyHead \in Fiber /\ Queued(readyHead)
      /\ queue' \in Seq(Fiber)
      /\ next' \in [Fiber -> Fiber \cup {Null}]
      /\ readyHead' \in Fiber \cup {Null} /\ readyTail' \in Fiber \cup {Null}
      /\ LinksSpellQueue' /\ LinkedOnce'
      /\ \A g : Queued(g)' <=> Queued(g) /\ g # readyHead
  BY <1>1, DequeueFacts DEF SInv, QueuedIffReady
<1>4. fstate[readyHead] = "ready"
  BY <1>3 DEF SInv, QueuedIffReady
<1>5. /\ fstate' \in [Fiber -> FiberState]
      /\ fstate'[readyHead] = "free"
      /\ \A g \in Fiber \ {readyHead} : fstate'[g] = fstate[g]
  BY <1>1, <1>3 DEF SInv, Shape, FiberState
<1>6. Shape'
  BY <1>1, <1>3, <1>5 DEF SInv, Shape, timeVars, fdVars
<1>7. OneThread'
  BY <1>1, <1>2, <1>5 DEF SInv, OneThread, fdVars
<1>8. QueuedIffReady'
  <2>1. ASSUME NEW g \in Fiber
        PROVE  Queued(g)' <=> (fstate'[g] = "ready" /\ g # current')
    <3>1. Queued(g) <=> (fstate[g] = "ready" /\ g # current)
      BY DEF SInv, QueuedIffReady
    <3>. QED BY <1>1, <1>3, <1>5, <3>1
  <2>. QED BY <1>3, <2>1 DEF QueuedIffReady
<1>9. WakeSourcesParked'
  BY <1>1, <1>4, <1>5, SourcesOfOthers
     DEF SInv, WakeSourcesParked, SourcesParked, timeVars, fdVars
<1>10. Suspended' = Suspended
  BY <1>3, <1>4, <1>5 DEF Suspended
<1>11. SuspendedCounted'
  BY <1>1, <1>10 DEF SInv, SuspendedCounted, timeVars
<1>. QED BY <1>3, <1>6, <1>7, <1>8, <1>9, <1>11 DEF SInv

LEMMA DeinitListsStep == SInv /\ DeinitLists => SInv'
<1>. SUFFICES ASSUME SInv, DeinitLists PROVE SInv'
  OBVIOUS
<1>1. /\ mode \in {"main", "deinit"} /\ mode' = "dead"
      /\ timers' = <<>> /\ ioWaiters' = <<>> /\ kernel' = [fd \in Fd |-> "none"]
      /\ UNCHANGED <<fstate, queueVars, current, nSuspended, clockMs, evbuf, readable>>
  BY DEF DeinitLists
<1>2. current = Null /\ evbuf = <<>>
  BY <1>1 DEF SInv, OneThread
<1>3. Shape'
  BY <1>1 DEF SInv, Shape, queueVars
<1>4. OneThread' /\ LinksSpellQueue' /\ QueuedIffReady'
  BY <1>1, <1>2 DEF SInv, OneThread, LinksSpellQueue, QueuedIffReady, LinkedOnce,
                    Queued, queueVars
<1>5. WakeSourcesParked'
  BY <1>1 DEF WakeSourcesParked, SourcesParked
<1>6. SuspendedCounted'
  BY <1>1 DEF SInv, SuspendedCounted, Suspended
<1>. QED BY <1>3, <1>4, <1>5, <1>6 DEF SInv

-----------------------------------------------------------------------------
(* The invariant is inductive.                                             *)

LEMMA InitSInv == Init => SInv
<1>. SUFFICES ASSUME Init PROVE SInv
  OBVIOUS
<1>1. Shape
  BY DEF Init, Shape, FiberState
<1>2. OneThread /\ LinksSpellQueue /\ QueuedIffReady
  BY FiberAssumption DEF Init, OneThread, LinksSpellQueue, QueuedIffReady, LinkedOnce, Queued
<1>3. WakeSourcesParked
  BY DEF Init, WakeSourcesParked, SourcesParked
<1>4. Suspended = {}
  BY DEF Init, Suspended
<1>5. SuspendedCounted
  BY <1>4, FS_EmptySet DEF Init, SuspendedCounted
<1>. QED BY <1>1, <1>2, <1>3, <1>5 DEF SInv

\* The loop arms no timer.
LEMMA LoopStep == SInv /\ Loop => SInv' /\ NoNewTimer
<1>. SUFFICES ASSUME SInv, Loop PROVE SInv' /\ NoNewTimer
  OBVIOUS
<1>0. timers' = timers => NoNewTimer
  BY DEF NoNewTimer
<1>1. CASE Dispatch
  BY <1>0, <1>1, DispatchStep DEF Dispatch, timeVars
<1>2. CASE SwitchedBack
  BY <1>0, <1>2, SwitchedBackStep DEF SwitchedBack, timeVars
<1>3. CASE FireTimer
  BY <1>3, FireTimerStep
<1>4. CASE WaitForFds
  BY <1>0, <1>4, WaitForFdsStep DEF WaitForFds, timeVars
<1>5. CASE HandleEvent
  BY <1>5, HandleEventStep
<1>6. CASE RunEnds \/ PollEnds
  BY <1>0, <1>6, QuietStep
     DEF RunEnds, PollEnds, Drained, InLoop, SInv, Shape, timeVars, fdVars
<1>7. CASE Blocked
  BY <1>0, <1>7, QuietStep DEF Blocked, SInv, Shape, OneThread, vars, timeVars, fdVars
<1>. QED BY <1>1, <1>2, <1>3, <1>4, <1>5, <1>6, <1>7 DEF Loop

LEMMA NextSInv == SInv /\ [Next]_vars => SInv'
<1>. SUFFICES ASSUME SInv, [Next]_vars PROVE SInv'
  OBVIOUS
<1>. USE QuietStep DEF SInv, Shape, OneThread
<1>1. CASE YieldNow
  BY <1>1, LeavesUnparked DEF YieldNow
<1>2. CASE SuspendSelf
  BY <1>2, SuspendSelfStep
<1>3. CASE \E ms \in Ms : Sleep(ms)
  <2>1. PICK ms \in Ms : Sleep(ms)
    BY <1>3
  <2>2. ms \in Int
    BY TimeAssumption
  <2>. QED BY <2>1, <2>2, SleepStep DEF Sleep
<1>4. CASE \E fd \in Fd : BlockOnFd(fd)
  BY <1>4, BlockOnFdStep
<1>5. CASE BodyReturns
  BY <1>5, LeavesUnparked DEF BodyReturns
<1>6. CASE Spawn
  BY <1>6, SpawnStep
<1>7. CASE WakeCall
  <2>1. PICK f \in Fiber : Wake(f, timers, ioWaiters, kernel)
    BY <1>7 DEF WakeCall, Live
  <2>. QED BY <1>7, <2>1, WakeCallStep DEF WakeCall
<1>8. CASE Misuse \/ \E fd \in Fd : BlockOnFdAborts(fd)
  BY <1>8 DEF Misuse, BlockOnFdAborts, Abort, InFiber, fdVars
<1>9. CASE \E fd \in Fd : ReadFd(fd) \/ FdReadable(fd)
  BY <1>9 DEF ReadFd, FdReadable
<1>10. CASE Loop
  BY <1>10, LoopStep
<1>11. CASE StartLoop("run") \/ StartLoop("poll")
  BY <1>11 DEF StartLoop, fdVars
<1>12. CASE DeinitReap
  BY <1>12, DeinitReapStep
<1>13. CASE DeinitLists
  BY <1>13, DeinitListsStep
<1>14. CASE UNCHANGED vars
  BY <1>14 DEF vars, fdVars
<1>. QED
  BY <1>1, <1>2, <1>3, <1>4, <1>5, <1>6, <1>7, <1>8, <1>9, <1>10, <1>11, <1>12,
     <1>13, <1>14
     DEF Next, Switches, Calls, Stopped

-----------------------------------------------------------------------------
(* Time.  sleep takes no negative duration, so nothing is armed behind the *)
(* clock.                                                                  *)

Timely == clockMs \in Nat /\ TimersAhead

IInv == SInv /\ Timely

\* A step that leaves the clock and arms nothing keeps the timers ahead.
LEMMA QuietTime ==
  ASSUME Timely, NoNewTimer, clockMs' = clockMs
  PROVE  Timely'
BY DEF Timely, TimersAhead, NoNewTimer

LEMMA NextTimely == IInv /\ [Next]_vars => Timely'
<1>. SUFFICES ASSUME IInv, [Next]_vars PROVE Timely'
  OBVIOUS
<1>0. UNCHANGED timeVars => Timely'
  BY QuietTime DEF IInv, NoNewTimer, timeVars
<1>1. CASE FireTimer
  <2>1. PICK i \in DOMAIN timers : EarliestTimer(i) /\ clockMs' = timers[i].deadlineMs
    BY <1>1 DEF FireTimer
  <2>2. \A j \in DOMAIN timers' : timers'[j].deadlineMs >= clockMs'
    BY <1>1, <2>1, FireTimerStep DEF IInv, NoNewTimer, EarliestTimer
  <2>3. clockMs' \in Nat
    BY <2>1, SourcesOfOthers DEF IInv, Timely, TimersAhead
  <2>. QED BY <2>2, <2>3 DEF Timely, TimersAhead
<1>2. CASE \E ms \in Ms : Sleep(ms)
  <2>1. PICK ms \in Ms : Sleep(ms)
    BY <1>2
  <2>. DEFINE n == Len(timers)
              t == [deadlineMs |-> clockMs + ms, fiber |-> current]
  <2>2. timers' = Append(timers, t) /\ clockMs' = clockMs /\ timers \in Seq(AnyTimer)
    BY <2>1 DEF Sleep, IInv, SInv, Shape
  <2>3. t \in AnyTimer /\ t.deadlineMs >= clockMs
    BY <2>1, TimeAssumption DEF Sleep, InFiber, IInv, SInv, Shape, Timely, AnyTimer
  <2>. HIDE DEF t
  <2>4. /\ n \in Nat /\ DOMAIN timers = 1 .. n /\ DOMAIN timers' = 1 .. n + 1
        /\ \A i \in 1 .. n : timers'[i] = timers[i]
        /\ timers'[n + 1] = t
    BY <2>2, <2>3, AppendProperties, LenProperties
  <2>. HIDE DEF n
  <2>5. \A i \in 1 .. n + 1 : i \in 1 .. n \/ i = n + 1
    BY <2>4
  <2>. QED BY <2>2, <2>3, <2>4, <2>5 DEF IInv, Timely, TimersAhead
<1>3. CASE WakeCall
  <2>1. PICK f \in Fiber : Wake(f, timers, ioWaiters, kernel)
    BY <1>3 DEF WakeCall, Live
  <2>2. NoNewTimer
    BY <1>3, <2>1, WakeCallStep DEF WakeCall, IInv
  <2>. QED BY <1>3, <2>2, QuietTime DEF WakeCall, IInv
<1>4. CASE HandleEvent
  BY <1>4, HandleEventStep, QuietTime DEF HandleEvent, IInv
<1>5. CASE DeinitLists
  BY <1>5 DEF DeinitLists, IInv, Timely, TimersAhead
<1>. QED
  BY <1>0, <1>1, <1>2, <1>3, <1>4, <1>5
     DEF Next, Switches, Calls, Loop, YieldNow, SuspendSelf, BlockOnFd,
         BodyReturns, Spawn, Misuse, BlockOnFdAborts, Abort, ReadFd,
         Dispatch, SwitchedBack, WaitForFds, Blocked, RunEnds, PollEnds, StartLoop,
         DeinitReap, FdReadable, Stopped, vars

LEMMA InvIsTyped == IInv => TypeOK
<1>. SUFFICES ASSUME IInv PROVE TypeOK
  OBVIOUS
<1>1. timers \in Seq(AnyTimer) /\ DOMAIN timers = 1 .. Len(timers) /\ Len(timers) \in Nat
  BY LenProperties DEF IInv, SInv, Shape
<1>2. \A i \in DOMAIN timers : timers[i] \in Timer
  <2>1. \A i \in DOMAIN timers : timers[i] \in AnyTimer /\ timers[i].deadlineMs \in Nat
    BY SourcesOfOthers DEF IInv, Timely, TimersAhead
  <2>. QED BY <2>1 DEF AnyTimer, Timer
<1>3. timers \in Seq(Timer)
  <2>1. timers = [i \in 1 .. Len(timers) |-> timers[i]]
    BY <1>1, SeqDef
  <2>2. timers \in [1 .. Len(timers) -> Timer]
    BY <1>1, <1>2, <2>1
  <2>. QED BY <1>1, <2>2, SeqDef
<1>. QED BY <1>3 DEF IInv, SInv, Shape, Timely, TypeOK

LEMMA InitIInv == Init => IInv
BY InitSInv DEF Init, IInv, Timely, TimersAhead

LEMMA NextIInv == IInv /\ [Next]_vars => IInv'
BY NextSInv, NextTimely DEF IInv

\* The scheduler keeps its queue, its wake sources and its count of parked fibers
\* consistent in every state, for every set of fibers and fds and both backends.
THEOREM SpecIInv == Spec => []IInv
<1>. QED BY InitIInv, NextIInv, PTL DEF Spec

\* The parts of the invariant, by name.
THEOREM TypeCorrect == Spec => []TypeOK
<1>. QED BY SpecIInv, InvIsTyped, PTL

\* At most one fiber runs, and none between two drained events.
THEOREM ThreadIsOne == Spec => []OneThread
<1>. QED BY SpecIInv, PTL DEF IInv, SInv

\* The intrusive list holds each ready fiber once, in order, and nothing else.
THEOREM ListIsWhole == Spec => [](LinksSpellQueue /\ QueuedIffReady)
<1>. QED BY SpecIInv, PTL DEF IInv, SInv

\* No timer and no fd waiter outlives the park of its fiber: none dangles.
THEOREM SourcesNeverDangle == Spec => []WakeSourcesParked
<1>. QED BY SpecIInv, PTL DEF IInv, SInv

\* The count run's verdict rests on is the number of parked fibers.
THEOREM CountIsRight == Spec => []SuspendedCounted
<1>. QED BY SpecIInv, PTL DEF IInv, SInv

\* Virtual time never goes back.
THEOREM TimeIsMonotone == Spec => ClockMonotone
<1>1. IInv /\ [Next]_vars => [clockMs' >= clockMs]_vars
  <2>. SUFFICES ASSUME IInv, Next PROVE clockMs' >= clockMs
    BY DEF vars, timeVars, IInv, Timely
  <2>1. CASE FireTimer
    BY <2>1 DEF FireTimer, IInv, Timely, TimersAhead
  <2>2. CASE ~FireTimer
    <3>1. clockMs' = clockMs
      BY <2>2 DEF Next, Switches, Calls, Loop, YieldNow, SuspendSelf, Sleep, BlockOnFd,
                  BodyReturns, Spawn, WakeCall, Misuse, BlockOnFdAborts, Abort, ReadFd,
                  Dispatch, SwitchedBack, WaitForFds, Blocked, HandleEvent, RunEnds,
                  PollEnds, StartLoop, DeinitReap, DeinitLists, FdReadable, Stopped,
                  vars, timeVars
    <3>. QED BY <3>1 DEF IInv, Timely
  <2>. QED BY <2>1, <2>2
<1>. QED BY <1>1, SpecIInv, PTL DEF Spec, ClockMonotone

\* run returns only after every fiber was reaped, and gives up only when a parked
\* fiber has neither a timer nor an fd left.
THEOREM VerdictIsRight == Spec => RunVerdict
<1>. DEFINE Verdict == (mode = "run" /\ current = Null /\ mode' # "run") =>
                         \/ mode' = "main" /\ Live = {}
                         \/ /\ mode' = "aborted"
                            /\ \E f \in Suspended : ~Holds(timers, f) /\ ~Holds(ioWaiters, f)
<1>1. IInv /\ [Next]_vars => [Verdict]_vars
  <2>. SUFFICES ASSUME IInv, Next, mode = "run", current = Null, mode' # "run"
                PROVE  \/ mode' = "main" /\ Live = {}
                       \/ /\ mode' = "aborted"
                          /\ \E f \in Suspended : ~Holds(timers, f) /\ ~Holds(ioWaiters, f)
    BY DEF vars
  <2>1. RunEnds
    BY DEF Next, Switches, Calls, Loop, YieldNow, SuspendSelf, Sleep, BlockOnFd,
           BodyReturns, Spawn, WakeCall, Misuse, BlockOnFdAborts, Abort, ReadFd,
           Dispatch, SwitchedBack, FireTimer, WaitForFds, Blocked, HandleEvent,
           PollEnds, StartLoop, DeinitReap, DeinitLists, FdReadable, Stopped,
           vars, InFiber
  <2>2. /\ readyHead = Null /\ timers = <<>> /\ ioWaiters = <<>>
        /\ mode' = IF nSuspended # 0 THEN "aborted" ELSE "main"
    BY <2>1 DEF RunEnds, Drained
  <2>3. \A f : ~Holds(timers, f) /\ ~Holds(ioWaiters, f)
    BY <2>2 DEF Holds
  <2>4. CASE nSuspended # 0
    <3>1. Suspended # {}
      BY <2>4, FS_EmptySet DEF IInv, SInv, SuspendedCounted
    <3>. QED BY <2>2, <2>3, <2>4, <3>1
  <2>5. CASE nSuspended = 0
    <3>1. Suspended = {}
      BY <2>5, SuspendedFinite, FS_EmptySet, FS_Subset, FiberAssumption
         DEF IInv, SInv, SuspendedCounted
    <3>2. queue = <<>>
      <4>1. queue # <<>> => queue[1] \in Fiber
        BY ElementOfSeq, EmptySeq DEF IInv, SInv, Shape
      <4>. QED BY <2>2, <4>1, FiberAssumption DEF IInv, SInv, LinksSpellQueue
    <3>3. \A f \in Fiber : ~Queued(f)
      BY <3>2 DEF Queued
    <3>4. \A f \in Fiber : f # Null
      BY FiberAssumption
    <3>5. ASSUME NEW f \in Fiber PROVE fstate[f] = "free"
      <4>1. fstate[f] \in FiberState
        BY DEF IInv, SInv, Shape
      <4>2. fstate[f] # "suspended"
        BY <3>1 DEF Suspended
      <4>3. fstate[f] # "ready"
        BY <3>3, <3>4 DEF IInv, SInv, QueuedIffReady
      <4>4. fstate[f] \notin {"running", "done"}
        BY <3>4 DEF IInv, SInv, OneThread
      <4>. QED BY <4>1, <4>2, <4>3, <4>4 DEF FiberState
    <3>. QED BY <2>2, <2>5, <3>5 DEF Live
  <2>. QED BY <2>4, <2>5
<1>. QED BY <1>1, SpecIInv, PTL DEF Spec, RunVerdict

-----------------------------------------------------------------------------
(* The kernel's registrations.                                             *)

\* A wake drops the waiter of the woken fiber together with its registration on
\* epoll, and no other.
LEMMA WakeRegisters ==
  ASSUME NEW f \in Fiber, NEW ts, NEW ws \in Seq(IoWaiter), NEW reported,
         NEW k \in [Fd -> {"none", "armed", "disabled"}],
         SourcesParked(ts, ws), Registered(ws, k, reported),
         Wake(f, ts, ws, k)
  PROVE  Registered(ioWaiters', kernel', reported)
<1>1. CASE fstate[f] # "suspended"
  BY <1>1 DEF Wake
<1>2. CASE fstate[f] = "suspended"
  <2>1. ioWaiters' = Evict(ws, f) /\ kernel' = Deregister(k, ws, f)
    BY <1>2 DEF Wake
  <2>2. \A i, j \in DOMAIN ws : ws[i].fiber = ws[j].fiber => i = j
    BY DEF SourcesParked
  <2>3. /\ Within(Evict(ws, f), ws, {i \in DOMAIN ws : ws[i].fiber # f})
        /\ Holds(ws, f) => FirstOf(ws, f) \in DOMAIN ws /\ ws[FirstOf(ws, f)].fiber = f
    BY <2>2, EvictFacts
  <2>4. PICK m \in [DOMAIN ioWaiters' -> {i \in DOMAIN ws : ws[i].fiber # f}] :
          /\ \A i \in DOMAIN ioWaiters' : ioWaiters'[i] = ws[m[i]]
          /\ \A d \in {i \in DOMAIN ws : ws[i].fiber # f} :
               \E i \in DOMAIN ioWaiters' : m[i] = d
    BY <2>1, <2>3 DEF Within
  <2>5. \A i \in DOMAIN ws : ws[i].fd \in Fd
    <3>1. \A i \in DOMAIN ws : ws[i] \in IoWaiter
      BY ElementOfSeq, LenProperties
    <3>. QED BY <3>1 DEF IoWaiter
  <2>6. CASE Os = "linux" /\ Holds(ws, f)
    <3>. DEFINE i0 == FirstOf(ws, f)
    <3>1. kernel' = [k EXCEPT ![ws[i0].fd] = "none"] /\ i0 \in DOMAIN ws /\ ws[i0].fiber = f
      BY <2>1, <2>3, <2>6 DEF Deregister
    <3>. HIDE DEF i0
    <3>2. \A i \in DOMAIN ws : ws[i].fiber # f => ws[i].fd # ws[i0].fd
      BY <3>1 DEF SourcesParked
    <3>3. ASSUME NEW i \in DOMAIN ioWaiters'
          PROVE  \/ kernel'[ioWaiters'[i].fd] = "armed"
                 \/ \E j \in DOMAIN reported : reported[j] = ioWaiters'[i].fd
      <4>1. m[i] \in DOMAIN ws /\ ws[m[i]].fd # ws[i0].fd /\ ws[m[i]].fd \in Fd
        BY <2>4, <2>5, <3>2
      <4>2. kernel'[ws[m[i]].fd] = k[ws[m[i]].fd]
        BY <3>1, <4>1
      <4>. QED BY <2>4, <4>1, <4>2 DEF Registered
    <3>4. ASSUME NEW fd \in Fd, kernel'[fd] # "none"
          PROVE  \E i \in DOMAIN ioWaiters' : ioWaiters'[i].fd = fd
      <4>1. fd # ws[i0].fd /\ k[fd] # "none"
        BY <3>1, <3>4
      <4>2. PICK d \in DOMAIN ws : ws[d].fd = fd
        BY <2>6, <4>1 DEF Registered
      <4>3. ws[d].fiber # f
        BY <2>2, <3>1, <4>1, <4>2
      <4>. QED BY <2>4, <4>2, <4>3
    <3>. QED BY <3>3, <3>4 DEF Registered
  <2>7. CASE ~(Os = "linux" /\ Holds(ws, f))
    <3>1. kernel' = k
      BY <2>1, <2>7 DEF Deregister
    <3>2. \A i \in DOMAIN ioWaiters' :
            \/ k[ioWaiters'[i].fd] = "armed"
            \/ \E j \in DOMAIN reported : reported[j] = ioWaiters'[i].fd
      BY <2>4 DEF Registered
    <3>3. Os = "linux" => ioWaiters' = ws
      BY <2>1, <2>7 DEF Evict
    <3>. QED BY <3>1, <3>2, <3>3 DEF Registered
  <2>. QED BY <2>6, <2>7
<1>. QED BY <1>1, <1>2

LEMMA NextRegistered == SInv /\ WaitersRegistered /\ [Next]_vars => WaitersRegistered'
<1>. SUFFICES ASSUME SInv, WaitersRegistered, [Next]_vars PROVE WaitersRegistered'
  OBVIOUS
<1>0. /\ ioWaiters \in Seq(IoWaiter) /\ timers \in Seq(AnyTimer)
      /\ kernel \in [Fd -> {"none", "armed", "disabled"}]
      /\ Registered(ioWaiters, kernel, evbuf) /\ SourcesParked(timers, ioWaiters)
  BY DEF SInv, Shape, WaitersRegistered, WakeSourcesParked
<1>1. CASE UNCHANGED <<ioWaiters, kernel, evbuf>>
  BY <1>1 DEF WaitersRegistered, Registered
<1>2. CASE WakeCall
  <2>1. PICK f \in Fiber : Wake(f, timers, ioWaiters, kernel)
    BY <1>2 DEF WakeCall, Live
  <2>. QED BY <1>0, <1>2, <2>1, WakeRegisters DEF WakeCall, WaitersRegistered
<1>3. CASE FireTimer
  <2>1. PICK i \in DOMAIN timers : Wake(timers[i].fiber, Without(timers, i), ioWaiters, kernel)
    BY <1>3 DEF FireTimer
  <2>2. Within(Without(timers, i), timers, DOMAIN timers \ {i})
    BY <1>0, WithinFacts
  <2>. DEFINE ts == Without(timers, i)
  <2>. HIDE DEF ts
  <2>3. SourcesParked(ts, ioWaiters)
    BY <1>0, <2>2 DEF SourcesParked, Within, ts
  <2>4. timers[i].fiber \in Fiber
    BY SourcesOfOthers
  <2>5. Registered(ioWaiters', kernel', evbuf)
    BY <1>0, <2>1, <2>3, <2>4, WakeRegisters DEF ts
  <2>. QED BY <1>3, <2>5 DEF FireTimer, WaitersRegistered
<1>4. CASE \E fd \in Fd : BlockOnFd(fd)
  <2>1. PICK fd \in Fd : BlockOnFd(fd)
    BY <1>4
  <2>. DEFINE n == Len(ioWaiters)
              w == [fd |-> fd, fiber |-> current]
  <2>2. /\ ioWaiters' = Append(ioWaiters, w) /\ kernel' = [kernel EXCEPT ![fd] = "armed"]
        /\ evbuf' = evbuf
    BY <2>1 DEF BlockOnFd
  <2>3. w \in IoWaiter
    BY <2>1 DEF BlockOnFd, InFiber, SInv, Shape, IoWaiter
  <2>4. w.fd = fd
    OBVIOUS
  <2>. HIDE DEF w
  <2>5. /\ n \in Nat /\ DOMAIN ioWaiters = 1 .. n
        /\ DOMAIN ioWaiters' = 1 .. n + 1
        /\ \A i \in 1 .. n : ioWaiters'[i] = ioWaiters[i]
        /\ ioWaiters'[n + 1] = w
    BY <1>0, <2>2, <2>3, AppendProperties, LenProperties
  <2>. HIDE DEF n
  <2>6. /\ \A i \in 1 .. n + 1 : i \in 1 .. n \/ i = n + 1
        /\ \A i \in 1 .. n : i \in 1 .. n + 1
        /\ n + 1 \in 1 .. n + 1
    BY <2>5
  <2>7. \A i \in 1 .. n : ioWaiters[i].fd \in Fd
    BY <2>5, SourcesOfOthers
  <2>8. ASSUME NEW i \in 1 .. n + 1
        PROVE  \/ kernel'[ioWaiters'[i].fd] = "armed"
               \/ \E j \in DOMAIN evbuf : evbuf[j] = ioWaiters'[i].fd
    <3>1. CASE i = n + 1
      BY <1>0, <2>2, <2>4, <2>5, <3>1
    <3>2. CASE i \in 1 .. n
      BY <1>0, <2>2, <2>5, <2>7, <3>2 DEF Registered
    <3>. QED BY <2>6, <3>1, <3>2
  <2>9. ASSUME Os = "linux", NEW g \in Fd, kernel'[g] # "none"
        PROVE  \E i \in 1 .. n + 1 : ioWaiters'[i].fd = g
    <3>1. CASE g = fd
      BY <2>4, <2>5, <2>6, <3>1
    <3>2. CASE g # fd
      <4>1. kernel[g] # "none"
        BY <1>0, <2>2, <2>9, <3>2
      <4>2. PICK i \in 1 .. n : ioWaiters[i].fd = g
        BY <1>0, <2>5, <2>9, <4>1 DEF Registered
      <4>. QED BY <2>5, <2>6, <4>2
    <3>. QED BY <3>1, <3>2
  <2>. QED BY <2>2, <2>5, <2>8, <2>9 DEF WaitersRegistered, Registered
<1>5. CASE WaitForFds
  <2>1. PICK fds \in SUBSET {fd \in readable : kernel[fd] = "armed"} :
          /\ \E order \in [1 .. Cardinality(fds) -> fds] :
               /\ \A fd \in fds : \E i \in DOMAIN order : order[i] = fd
               /\ evbuf' = order
          /\ kernel' = [fd \in Fd |-> IF fd \notin fds THEN kernel[fd]
                                      ELSE IF Os = "linux" THEN "disabled" ELSE "none"]
    BY <1>5 DEF WaitForFds
  <2>2. ioWaiters' = ioWaiters /\ evbuf = <<>>
    BY <1>5 DEF WaitForFds, Drained, InLoop
  <2>3. \A fd \in fds : /\ \E i \in DOMAIN evbuf' : evbuf'[i] = fd
                       /\ kernel[fd] = "armed"
    BY <2>1
  <2>4. \A i \in DOMAIN ioWaiters : kernel[ioWaiters[i].fd] = "armed"
    BY <1>0, <2>2 DEF Registered
  <2>5. \A i \in DOMAIN ioWaiters : ioWaiters[i].fd \in Fd
    BY SourcesOfOthers
  <2>6. \A fd \in Fd : kernel'[fd] # "none" => kernel[fd] # "none"
    BY <2>1, <2>3
  <2>7. \A fd \in Fd : fd \notin fds => kernel'[fd] = kernel[fd]
    BY <2>1
  <2>. QED BY <1>0, <2>2, <2>3, <2>4, <2>5, <2>6, <2>7 DEF WaitersRegistered, Registered
<1>6. CASE HandleEvent
  <2>. DEFINE fd == Head(evbuf)
              k  == IF Os = "linux" THEN [kernel EXCEPT ![fd] = "none"] ELSE kernel
  <2>1. evbuf # <<>> /\ evbuf' = Tail(evbuf) /\ evbuf \in Seq(Fd)
    BY <1>6 DEF HandleEvent, SInv, Shape
  <2>2. \A g \in Fd \ {fd} : (\E j \in DOMAIN evbuf : evbuf[j] = g)
                               => \E j \in DOMAIN evbuf' : evbuf'[j] = g
    <3>. SUFFICES ASSUME NEW g \in Fd \ {fd}, NEW j \in DOMAIN evbuf, evbuf[j] = g
                  PROVE  \E l \in DOMAIN evbuf' : evbuf'[l] = g
      OBVIOUS
    <3>1. /\ Len(evbuf) \in Nat /\ DOMAIN evbuf = 1 .. Len(evbuf)
          /\ fd = evbuf[1]
      BY <2>1, LenProperties
    <3>2. /\ DOMAIN evbuf' = 1 .. Len(evbuf) - 1
          /\ \A l \in 1 .. Len(evbuf) - 1 : evbuf'[l] = evbuf[l + 1]
      BY <2>1, HeadTailProperties, LenProperties
    <3>3. j # 1
      BY <3>1
    <3>4. j - 1 \in 1 .. Len(evbuf) - 1 /\ (j - 1) + 1 = j
      BY <3>1, <3>3
    <3>. QED BY <3>2, <3>4
  <2>3. /\ k \in [Fd -> {"none", "armed", "disabled"}]
        /\ \A g \in Fd \ {fd} : k[g] = kernel[g]
        /\ Os = "linux" => k[fd] = "none"
    <3>1. fd \in Fd
      BY <2>1, HeadTailProperties
    <3>. QED BY <1>0, <3>1
  <2>4. CASE \E i \in DOMAIN ioWaiters :
               /\ ioWaiters[i].fd = fd
               /\ Wake(ioWaiters[i].fiber, timers, Without(ioWaiters, i), k)
    <3>1. PICK i \in DOMAIN ioWaiters :
                 /\ ioWaiters[i].fd = fd
                 /\ Wake(ioWaiters[i].fiber, timers, Without(ioWaiters, i), k)
      BY <2>4
    <3>. DEFINE ws == Without(ioWaiters, i)
    <3>2. /\ ws \in Seq(IoWaiter) /\ Within(ws, ioWaiters, DOMAIN ioWaiters \ {i})
          /\ ioWaiters[i].fiber \in Fiber
      BY <1>0, WithoutFacts, WithinFacts, SourcesOfOthers
    <3>. HIDE DEF ws, k
    <3>3. PICK m \in [DOMAIN ws -> DOMAIN ioWaiters \ {i}] :
            /\ \A j \in DOMAIN ws : ws[j] = ioWaiters[m[j]]
            /\ \A j, l \in DOMAIN ws : m[j] = m[l] => j = l
            /\ \A d \in DOMAIN ioWaiters \ {i} : \E j \in DOMAIN ws : m[j] = d
      BY <3>2 DEF Within
    <3>4. SourcesParked(timers, ws)
      BY <1>0, <3>3 DEF SourcesParked
    <3>5. \A d \in DOMAIN ioWaiters \ {i} :
            ioWaiters[d].fd \in Fd \ {fd}
      BY <1>0, <3>1, SourcesOfOthers DEF SourcesParked
    <3>. HIDE DEF fd
    <3>6. Registered(ws, k, evbuf')
      <4>1. ASSUME NEW j \in DOMAIN ws
            PROVE  \/ k[ws[j].fd] = "armed"
                   \/ \E l \in DOMAIN evbuf' : evbuf'[l] = ws[j].fd
        <5>1. /\ m[j] \in DOMAIN ioWaiters \ {i}
              /\ ws[j] = ioWaiters[m[j]]
          BY <3>3
        <5>. DEFINE g == ioWaiters[m[j]].fd
        <5>2. g \in Fd \ {fd}
          BY <3>5, <5>1
        <5>3. CASE kernel[g] = "armed"
          BY <2>3, <5>1, <5>2, <5>3
        <5>4. CASE \E l \in DOMAIN evbuf : evbuf[l] = g
          <6>. HIDE DEF g
          <6>1. \E l \in DOMAIN evbuf' : evbuf'[l] = g
            BY <2>2, <5>2, <5>4
          <6>. QED BY <6>1, <5>1 DEF g
        <5>. QED BY <1>0, <5>1, <5>3, <5>4 DEF Registered
      <4>2. ASSUME Os = "linux", NEW g \in Fd, k[g] # "none"
            PROVE  \E j \in DOMAIN ws : ws[j].fd = g
        <5>1. g # fd /\ kernel[g] # "none"
          BY <2>3, <4>2
        <5>2. PICK d \in DOMAIN ioWaiters : ioWaiters[d].fd = g
          BY <1>0, <4>2, <5>1 DEF Registered
        <5>3. d # i
          BY <3>1, <5>1, <5>2
        <5>. QED BY <3>3, <5>2, <5>3
      <4>. QED BY <4>1, <4>2 DEF Registered
    <3>7. Registered(ioWaiters', kernel', evbuf')
      BY <2>3, <3>1, <3>2, <3>4, <3>6, WakeRegisters DEF ws
    <3>. QED BY <3>7 DEF WaitersRegistered
  <2>5. CASE /\ \A i \in DOMAIN ioWaiters : ioWaiters[i].fd # fd
             /\ kernel' = k /\ ioWaiters' = ioWaiters
    <3>. HIDE DEF k, fd
    <3>1. \A i \in DOMAIN ioWaiters : ioWaiters[i].fd \in Fd \ {fd}
      BY <2>5, SourcesOfOthers
    <3>2. \A i \in DOMAIN ioWaiters :
            \/ k[ioWaiters[i].fd] = "armed"
            \/ \E j \in DOMAIN evbuf' : evbuf'[j] = ioWaiters[i].fd
      BY <1>0, <2>2, <2>3, <3>1 DEF Registered
    <3>3. ASSUME Os = "linux", NEW g \in Fd, k[g] # "none"
          PROVE  \E i \in DOMAIN ioWaiters : ioWaiters[i].fd = g
      BY <1>0, <2>3, <3>3 DEF Registered
    <3>. QED BY <2>5, <3>2, <3>3 DEF WaitersRegistered, Registered
  <2>. QED BY <1>6, <2>4, <2>5 DEF HandleEvent
<1>7. CASE DeinitLists
  BY <1>7 DEF DeinitLists, WaitersRegistered, Registered
<1>. QED
  BY <1>1, <1>2, <1>3, <1>4, <1>5, <1>6, <1>7
     DEF Next, Switches, Calls, Loop, YieldNow, SuspendSelf, Sleep,
         BodyReturns, Spawn, Misuse, BlockOnFdAborts, Abort, ReadFd,
         Dispatch, SwitchedBack, Blocked, RunEnds, PollEnds, StartLoop,
         DeinitReap, FdReadable, Stopped, vars, fdVars

\* No fd waiter is ever stranded without a registration or a pending report, and
\* on epoll no registration outlives its waiter.
THEOREM WaitersNeverStranded == Spec => []WaitersRegistered
<1>1. Init => WaitersRegistered
  BY DEF Init, WaitersRegistered, Registered
<1>. QED BY <1>1, SpecIInv, NextRegistered, PTL DEF Spec, IInv

-----------------------------------------------------------------------------
(* The agenda.                                                             *)

\* A set of natural numbers has a least one.
LEMMA Least ==
  ASSUME NEW S \in SUBSET Nat, S # {}
  PROVE  \E i \in S : \A j \in S : i <= j
<1>. DEFINE R == {ss \in Nat \X Nat : ss[1] < ss[2]}
<1>1. IsWellFoundedOn(R, Nat)
  BY NatLessThanWellFounded DEF OpToRel
<1>. HIDE DEF R
<1>2. PICK i \in S : \A j \in S : ~(<<j, i>> \in R)
  BY <1>1, WFMin
<1>3. \A j \in S : ~(j < i)
  BY <1>2 DEF R
<1>. QED BY <1>3

\* A sequence with one more element after the first k, and with one fewer.
LEMMA InsertFacts ==
  ASSUME NEW T, NEW s \in Seq(T), NEW e \in T, NEW k \in 0 .. Len(s),
         NEW t \in Seq(T), Len(t) = Len(s) + 1,
         \A n \in 1 .. Len(s) + 1 :
           t[n] = IF n <= k THEN s[n] ELSE IF n = k + 1 THEN e ELSE s[n - 1]
  PROVE  t = SubSeq(s, 1, k) \o <<e>> \o SubSeq(s, k + 1, Len(s))
<1>. DEFINE a == SubSeq(s, 1, k)
            b == SubSeq(s, k + 1, Len(s))
            ae == a \o <<e>>
            r == ae \o b
<1>1. /\ Len(s) \in Nat /\ k \in Nat /\ k <= Len(s)
      /\ \A n \in 1 .. Len(s) : s[n] \in T
  BY LenProperties, ElementOfSeq
<1>2. /\ a \in Seq(T) /\ Len(a) = k
      /\ \A n \in 1 .. k : a[n] = s[n]
  BY <1>1, SubSeqProperties
<1>3. /\ b \in Seq(T) /\ Len(b) = Len(s) - k
      /\ \A n \in 1 .. Len(s) - k : b[n] = s[k + n]
  BY <1>1, SubSeqProperties
<1>. HIDE DEF a, b
<1>4. <<e>> \in Seq(T) /\ Len(<<e>>) = 1 /\ <<e>>[1] = e
  OBVIOUS
<1>5. /\ ae \in Seq(T) /\ Len(ae) = k + 1
      /\ \A n \in 1 .. k + 1 : ae[n] = IF n <= k THEN s[n] ELSE e
  BY <1>1, <1>2, <1>4, ConcatProperties
<1>. HIDE DEF ae
<1>6. /\ r \in Seq(T) /\ Len(r) = Len(ae) + Len(b)
      /\ \A n \in 1 .. Len(ae) + Len(b) : r[n] = IF n <= Len(ae) THEN ae[n] ELSE b[n - Len(ae)]
  BY <1>3, <1>5, ConcatProperties
<1>. HIDE DEF r
<1>7. Len(r) = Len(s) + 1
  BY <1>1, <1>3, <1>5, <1>6
<1>8. ASSUME NEW n \in 1 .. Len(s) + 1
      PROVE  r[n] = IF n <= k THEN s[n] ELSE IF n = k + 1 THEN e ELSE s[n - 1]
  <2>1. n \in 1 .. Len(ae) + Len(b)
    BY <1>1, <1>3, <1>5
  <2>2. CASE n <= k + 1
    BY <1>1, <1>5, <1>6, <2>1, <2>2
  <2>3. CASE n > k + 1
    <3>1. n - (k + 1) \in 1 .. Len(s) - k /\ k + (n - (k + 1)) = n - 1
      BY <1>1, <2>3
    <3>2. r[n] = b[n - (k + 1)]
      BY <1>1, <1>5, <1>6, <2>1, <2>3
    <3>. QED BY <1>1, <1>3, <2>3, <3>1, <3>2
  <2>. QED BY <1>1, <2>2, <2>3
<1>9. t = r
  <2>1. Len(t) = Len(r) /\ \A n \in 1 .. Len(t) : t[n] = r[n]
    BY <1>7, <1>8
  <2>. QED BY <1>6, <2>1, SeqEqual
<1>. QED BY <1>9 DEF r, ae, a, b

LEMMA RemoveFacts ==
  ASSUME NEW T, NEW s \in Seq(T), NEW i \in DOMAIN s
  PROVE  SubSeq(s, 1, i - 1) \o SubSeq(s, i + 1, Len(s)) = Without(s, i)
<1>. DEFINE a == SubSeq(s, 1, i - 1)
            b == SubSeq(s, i + 1, Len(s))
            r == a \o b
<1>1. Len(s) \in Nat /\ DOMAIN s = 1 .. Len(s) /\ i \in 1 .. Len(s)
  BY LenProperties
<1>2. /\ a \in Seq(T) /\ Len(a) = i - 1
      /\ \A n \in 1 .. i - 1 : a[n] = s[n]
  BY <1>1, SubSeqProperties, ElementOfSeq
<1>3. /\ b \in Seq(T) /\ Len(b) = Len(s) - i
      /\ \A n \in 1 .. Len(s) - i : b[n] = s[i + n]
  BY <1>1, SubSeqProperties, ElementOfSeq
<1>. HIDE DEF a, b
<1>4. /\ r \in Seq(T) /\ Len(r) = Len(a) + Len(b)
      /\ \A n \in 1 .. Len(a) + Len(b) : r[n] = IF n <= Len(a) THEN a[n] ELSE b[n - Len(a)]
  BY <1>2, <1>3, ConcatProperties
<1>. HIDE DEF r
<1>5. Len(r) = Len(s) - 1
  BY <1>1, <1>2, <1>3, <1>4
<1>6. ASSUME NEW n \in 1 .. Len(s) - 1
      PROVE  r[n] = IF n < i THEN s[n] ELSE s[n + 1]
  <2>1. n \in 1 .. Len(a) + Len(b)
    BY <1>1, <1>2, <1>3
  <2>2. CASE n <= i - 1
    BY <1>1, <1>2, <1>4, <2>1, <2>2
  <2>3. CASE n > i - 1
    <3>1. n - (i - 1) \in 1 .. Len(s) - i /\ i + (n - (i - 1)) = n + 1
      BY <1>1, <2>3
    <3>2. r[n] = b[n - (i - 1)]
      BY <1>1, <1>2, <1>4, <2>1, <2>3
    <3>. QED BY <1>1, <1>3, <2>3, <3>1, <3>2
  <2>. QED BY <1>1, <2>2, <2>3
<1>7. r = [n \in 1 .. Len(s) - 1 |-> r[n]]
  BY <1>4, <1>5, SeqDef
<1>8. r = Without(s, i)
  BY <1>6, <1>7 DEF Without
<1>. QED BY <1>8 DEF r, a, b

\* What the proofs use of a list of timers.
LEMMA TimerList ==
  ASSUME NEW ts \in Seq(AnyTimer)
  PROVE  /\ Len(ts) \in Nat /\ DOMAIN ts = 1 .. Len(ts)
         /\ \A i \in DOMAIN ts : /\ ts[i] \in AnyTimer /\ ts[i].deadlineMs \in Int
                                  /\ ts[i].fiber \in Fiber
<1>1. /\ Len(ts) \in Nat /\ DOMAIN ts = 1 .. Len(ts)
      /\ \A i \in DOMAIN ts : ts[i] \in AnyTimer
  BY LenProperties, ElementOfSeq
<1>. QED BY <1>1 DEF AnyTimer

\* There is one order of firing at most.
LEMMA FiringOrderUnique ==
  ASSUME NEW ts \in Seq(AnyTimer),
         NEW p \in [DOMAIN ts -> DOMAIN ts], NEW q \in [DOMAIN ts -> DOMAIN ts],
         FiringOrder(ts, p), FiringOrder(ts, q)
  PROVE  p = q
<1>. DEFINE Off == {n \in DOMAIN ts : p[n] # q[n]}
<1>0. /\ DOMAIN ts \subseteq Nat
      /\ \A m, n \in DOMAIN ts : m < n \/ m = n \/ n < m
      /\ \A i \in DOMAIN ts : ts[i].deadlineMs \in Int
  BY TimerList
<1>1. \A i, j \in DOMAIN ts : FiresBefore(ts, i, j) => ~FiresBefore(ts, j, i)
  BY <1>0 DEF FiresBefore
<1>2. ASSUME Off # {}
      PROVE  FALSE
  <2>1. PICK n \in Off : \A m \in Off : n <= m
    BY <1>0, <1>2, Least
  <2>2. n \in DOMAIN ts /\ p[n] # q[n] /\ p[n] \in DOMAIN ts /\ q[n] \in DOMAIN ts
    OBVIOUS
  <2>3. \A m \in DOMAIN ts : m < n => p[m] = q[m]
    BY <1>0, <2>1
  <2>4. PICK m \in DOMAIN ts : p[m] = q[n]
    BY <2>2 DEF FiringOrder
  <2>5. PICK l \in DOMAIN ts : q[l] = p[n]
    BY <2>2 DEF FiringOrder
  <2>. HIDE DEF Off
  <2>6. ~(m < n) /\ m # n
    BY <1>1, <2>2, <2>3, <2>4 DEF FiringOrder
  <2>7. ~(l < n) /\ l # n
    BY <1>1, <2>2, <2>3, <2>5 DEF FiringOrder
  <2>8. FiresBefore(ts, p[n], q[n])
    BY <1>0, <2>2, <2>4, <2>6 DEF FiringOrder
  <2>9. FiresBefore(ts, q[n], p[n])
    BY <1>0, <2>2, <2>5, <2>7 DEF FiringOrder
  <2>. QED BY <1>1, <2>2, <2>8, <2>9
<1>. QED BY <1>2

\* The timers can be put in the order they will fire.
Sortable(ts) == \E p \in [DOMAIN ts -> DOMAIN ts] : FiringOrder(ts, p)

LEMMA AgendaFacts ==
  ASSUME NEW ts \in Seq(AnyTimer),
         NEW p \in [DOMAIN ts -> DOMAIN ts], FiringOrder(ts, p)
  PROVE  /\ Agenda(ts) = [n \in DOMAIN ts |-> ts[p[n]]]
         /\ Agenda(ts) \in Seq(AnyTimer)
         /\ Len(Agenda(ts)) = Len(ts) /\ DOMAIN Agenda(ts) = DOMAIN ts
<1>. DEFINE q == CHOOSE q \in [DOMAIN ts -> DOMAIN ts] : FiringOrder(ts, q)
<1>1. q \in [DOMAIN ts -> DOMAIN ts] /\ FiringOrder(ts, q)
  OBVIOUS
<1>2. Agenda(ts) = [n \in DOMAIN ts |-> ts[q[n]]]
  BY DEF Agenda
<1>. HIDE DEF q
<1>3. q = p
  BY <1>1, FiringOrderUnique
<1>4. Agenda(ts) = [n \in DOMAIN ts |-> ts[p[n]]]
  BY <1>2, <1>3
<1>5. Agenda(ts) \in [1 .. Len(ts) -> AnyTimer] /\ Len(ts) \in Nat
  BY <1>4, TimerList
<1>6. Agenda(ts) \in Seq(AnyTimer)
  BY <1>5, SeqDef
<1>. QED BY <1>4, <1>5, <1>6, TimerList, LenProperties

\* The earliest timer, the one armed first among equals, heads the agenda.
LEMMA EarliestIsHead ==
  ASSUME NEW ts \in Seq(AnyTimer),
         NEW p \in [DOMAIN ts -> DOMAIN ts], FiringOrder(ts, p),
         NEW i \in DOMAIN ts,
         \A j \in DOMAIN ts : ts[i].deadlineMs <= ts[j].deadlineMs,
         \A j \in 1 .. i - 1 : ts[i].deadlineMs < ts[j].deadlineMs
  PROVE  1 \in DOMAIN ts /\ p[1] = i
<1>0. /\ Len(ts) \in Nat /\ DOMAIN ts = 1 .. Len(ts)
      /\ \A j \in DOMAIN ts : ts[j].deadlineMs \in Int
  BY TimerList
<1>1. 1 \in DOMAIN ts /\ p[1] \in DOMAIN ts
  BY <1>0
<1>2. PICK n \in DOMAIN ts : p[n] = i
  BY DEF FiringOrder
<1>3. CASE n = 1
  BY <1>1, <1>2, <1>3
<1>4. CASE n # 1
  <2>1. FiresBefore(ts, p[1], i)
    <3>1. 1 < n
      BY <1>0, <1>4
    <3>. QED BY <1>1, <1>2, <3>1 DEF FiringOrder
  <2>2. p[1] < i => p[1] \in 1 .. i - 1
    BY <1>0, <1>1
  <2>. QED BY <1>0, <1>1, <2>1, <2>2 DEF FiresBefore
<1>. QED BY <1>3, <1>4

\* A timer that is taken out leaves the agenda, and no other.
LEMMA AgendaWithout ==
  ASSUME NEW ts \in Seq(AnyTimer),
         NEW p \in [DOMAIN ts -> DOMAIN ts], FiringOrder(ts, p),
         NEW b \in DOMAIN ts
  PROVE  /\ Sortable(Without(ts, p[b]))
         /\ Agenda(Without(ts, p[b])) = Without(Agenda(ts), b)
<1>. DEFINE n  == Len(ts)
            i  == p[b]
            t  == Without(ts, i)
            Nth(a)  == IF a < b THEN a ELSE a + 1
            Shift(c) == IF c < i THEN c ELSE c - 1
            q  == [a \in 1 .. n - 1 |-> Shift(p[Nth(a)])]
<1>0. /\ n \in Nat /\ DOMAIN ts = 1 .. n /\ b \in 1 .. n /\ i \in 1 .. n
      /\ p \in [1 .. n -> 1 .. n]
      /\ \A j \in 1 .. n : ts[j].deadlineMs \in Int
  BY TimerList
<1>1. /\ t \in Seq(AnyTimer) /\ DOMAIN t = 1 .. n - 1 /\ Len(t) = n - 1
      /\ \A j \in 1 .. n - 1 : t[j] = IF j < i THEN ts[j] ELSE ts[j + 1]
  BY <1>0, WithoutFacts
<1>2. \A k, l \in 1 .. n : k < l => FiresBefore(ts, p[k], p[l])
  BY <1>0 DEF FiringOrder
<1>. HIDE DEF n, i, t
<1>3. \A a \in 1 .. n - 1 : Nth(a) \in 1 .. n /\ Nth(a) # b
  BY <1>0
<1>4. \A a, c \in 1 .. n - 1 : a < c => Nth(a) < Nth(c)
  BY <1>0
<1>5. \A k \in 1 .. n : k # b => p[k] # i
  <2>1. \A k, l \in 1 .. n : k < l => p[k] # p[l]
    BY <1>0, <1>2 DEF FiresBefore
  <2>. QED BY <1>0, <2>1 DEF i
<1>6. \A c \in 1 .. n : c # i => /\ Shift(c) \in 1 .. n - 1
                                /\ t[Shift(c)] = ts[c]
  BY <1>0, <1>1
<1>7. \A c, d \in 1 .. n : c # i /\ d # i /\ c < d => Shift(c) < Shift(d)
  BY <1>0
<1>8. \A a \in 1 .. n - 1 : /\ p[Nth(a)] \in 1 .. n /\ p[Nth(a)] # i
                            /\ q[a] = Shift(p[Nth(a)])
  BY <1>0, <1>3, <1>5
<1>9. \A k \in 1 .. n : k # b => \E a \in 1 .. n - 1 : Nth(a) = k
  <2>. SUFFICES ASSUME NEW k \in 1 .. n, k # b
                PROVE  \E a \in 1 .. n - 1 : Nth(a) = k
    OBVIOUS
  <2>1. CASE k < b
    <3>1. k \in 1 .. n - 1 /\ Nth(k) = k
      BY <1>0, <2>1
    <3>. QED BY <3>1
  <2>2. CASE k > b
    <3>1. k - 1 \in 1 .. n - 1 /\ ~(k - 1 < b) /\ (k - 1) + 1 = k
      BY <1>0, <2>2
    <3>2. Nth(k - 1) = k
      BY <3>1
    <3>. QED BY <3>1, <3>2
  <2>3. k < b \/ k > b
    BY <1>0
  <2>. QED BY <2>1, <2>2, <2>3
<1>10. \A j \in 1 .. n - 1 : \E c \in 1 .. n : c # i /\ Shift(c) = j
  <2>. SUFFICES ASSUME NEW j \in 1 .. n - 1
                PROVE  \E c \in 1 .. n : c # i /\ Shift(c) = j
    OBVIOUS
  <2>1. CASE j < i
    <3>1. j \in 1 .. n /\ j # i /\ Shift(j) = j
      BY <1>0, <2>1
    <3>. QED BY <3>1
  <2>2. CASE j >= i
    <3>1. j + 1 \in 1 .. n /\ j + 1 # i /\ Shift(j + 1) = j
      BY <1>0, <2>2
    <3>. QED BY <3>1
  <2>. QED BY <1>0, <2>1, <2>2
<1>. HIDE DEF Nth, Shift
<1>11. q \in [1 .. n - 1 -> 1 .. n - 1]
  BY <1>6, <1>8
<1>12. \A a, c \in 1 .. n - 1 : a < c => FiresBefore(t, q[a], q[c])
  <2>. SUFFICES ASSUME NEW a \in 1 .. n - 1, NEW c \in 1 .. n - 1, a < c
                PROVE  FiresBefore(t, q[a], q[c])
    OBVIOUS
  <2>1. FiresBefore(ts, p[Nth(a)], p[Nth(c)])
    BY <1>2, <1>3, <1>4
  <2>2. t[q[a]] = ts[p[Nth(a)]] /\ t[q[c]] = ts[p[Nth(c)]]
    BY <1>6, <1>8
  <2>3. p[Nth(a)] < p[Nth(c)] => q[a] < q[c]
    BY <1>7, <1>8
  <2>. QED BY <2>1, <2>2, <2>3 DEF FiresBefore
<1>13. \A j \in 1 .. n - 1 : \E a \in 1 .. n - 1 : q[a] = j
  <2>. SUFFICES ASSUME NEW j \in 1 .. n - 1
                PROVE  \E a \in 1 .. n - 1 : q[a] = j
    OBVIOUS
  <2>1. PICK c \in 1 .. n : c # i /\ Shift(c) = j
    BY <1>10
  <2>2. PICK k \in 1 .. n : p[k] = c
    BY <1>0 DEF FiringOrder
  <2>3. k # b
    BY <2>1, <2>2 DEF i
  <2>4. PICK a \in 1 .. n - 1 : Nth(a) = k
    BY <1>9, <2>3
  <2>. QED BY <1>8, <2>1, <2>2, <2>4
<1>14. FiringOrder(t, q)
  BY <1>1, <1>12, <1>13 DEF FiringOrder
<1>. HIDE DEF q
<1>15. /\ Agenda(t) = [a \in 1 .. n - 1 |-> t[q[a]]]
       /\ Agenda(ts) = [a \in 1 .. n |-> ts[p[a]]] /\ Len(Agenda(ts)) = n
  <2>1. q \in [DOMAIN t -> DOMAIN t]
    BY <1>1, <1>11
  <2>2. Agenda(t) = [a \in DOMAIN t |-> t[q[a]]]
    BY <1>1, <1>14, <2>1, AgendaFacts
  <2>3. Agenda(ts) = [a \in DOMAIN ts |-> ts[p[a]]] /\ Len(Agenda(ts)) = Len(ts)
    BY AgendaFacts
  <2>. QED BY <1>0, <1>1, <2>2, <2>3 DEF n
<1>16. ASSUME NEW a \in 1 .. n - 1
       PROVE  t[q[a]] = IF a < b THEN Agenda(ts)[a] ELSE Agenda(ts)[a + 1]
  <2>1. t[q[a]] = ts[p[Nth(a)]]
    BY <1>6, <1>8 DEF q
  <2>2. Agenda(ts)[Nth(a)] = ts[p[Nth(a)]]
    BY <1>3, <1>15
  <2>. QED BY <2>1, <2>2 DEF Nth
<1>17. Agenda(t) = Without(Agenda(ts), b)
  BY <1>15, <1>16 DEF Without
<1>. QED BY <1>1, <1>11, <1>14, <1>17 DEF Sortable, t, i

\* A new timer goes on the agenda after everyone due no later.
LEMMA AgendaAppend ==
  ASSUME NEW ts \in Seq(AnyTimer),
         NEW p \in [DOMAIN ts -> DOMAIN ts], FiringOrder(ts, p),
         NEW e \in AnyTimer
  PROVE  /\ Sortable(Append(ts, e))
         /\ \E k \in 0 .. Len(ts) :
              /\ \A a \in 1 .. k : Agenda(ts)[a].deadlineMs <= e.deadlineMs
              /\ \A a \in k + 1 .. Len(ts) : Agenda(ts)[a].deadlineMs > e.deadlineMs
              /\ Agenda(Append(ts, e)) =
                   SubSeq(Agenda(ts), 1, k) \o <<e>>
                     \o SubSeq(Agenda(ts), k + 1, Len(Agenda(ts)))
         /\ Len(Agenda(ts)) = Len(ts)
<1>. DEFINE n == Len(ts)
            d == e.deadlineMs
            t == Append(ts, e)
            due == [a \in 1 .. n |-> ts[p[a]].deadlineMs]
            Late == {a \in 1 .. n : due[a] > d}
<1>0. /\ n \in Nat /\ DOMAIN ts = 1 .. n /\ d \in Int
      /\ p \in [1 .. n -> 1 .. n]
      /\ Agenda(ts) = [a \in 1 .. n |-> ts[p[a]]]
      /\ due \in [1 .. n -> Int]
  <2>1. n \in Nat /\ DOMAIN ts = 1 .. n /\ \A j \in DOMAIN ts : ts[j].deadlineMs \in Int
    BY TimerList
  <2>2. Agenda(ts) = [a \in DOMAIN ts |-> ts[p[a]]]
    BY AgendaFacts
  <2>3. d \in Int
    BY DEF AnyTimer
  <2>. QED BY <2>1, <2>2, <2>3
<1>1. /\ t \in Seq(AnyTimer) /\ DOMAIN t = 1 .. n + 1 /\ Len(t) = n + 1
      /\ \A j \in 1 .. n : t[j] = ts[j]
      /\ t[n + 1] = e
  BY <1>0, AppendProperties, LenProperties
<1>2. /\ \A k, l \in 1 .. n : k < l => FiresBefore(ts, p[k], p[l])
      /\ \A j \in 1 .. n : \E k \in 1 .. n : p[k] = j
      /\ \A k \in 1 .. n : due[k] = ts[p[k]].deadlineMs
  BY <1>0 DEF FiringOrder
<1>. HIDE DEF n, d, t, due
<1>3. PICK k \in 0 .. n : /\ \A a \in 1 .. k : due[a] <= d
                          /\ \A a \in k + 1 .. n : due[a] > d
  <2>1. CASE Late = {}
    <3>1. n \in 0 .. n /\ \A a \in n + 1 .. n : FALSE
      BY <1>0
    <3>2. ASSUME NEW a \in 1 .. n PROVE due[a] <= d
      <4>1. ~(due[a] > d) /\ due[a] \in Int
        BY <1>0, <2>1
      <4>. QED BY <1>0, <4>1
    <3>. QED BY <3>1, <3>2
  <2>2. CASE Late # {}
    <3>1. PICK m \in Late : \A a \in Late : m <= a
      <4>1. Late \in SUBSET Nat
        BY <1>0
      <4>. QED BY <2>2, <4>1, Least
    <3>2. m \in 1 .. n /\ due[m] > d
      OBVIOUS
    <3>3. \A a \in 1 .. m - 1 : due[a] <= d
      <4>. SUFFICES ASSUME NEW a \in 1 .. m - 1, ~(due[a] <= d)
                    PROVE  FALSE
        OBVIOUS
      <4>1. a \in 1 .. n /\ ~(m <= a)
        BY <1>0, <3>2
      <4>2. due[a] > d
        BY <1>0, <4>1
      <4>. QED BY <3>1, <4>1, <4>2
    <3>. HIDE DEF Late
    <3>4. \A a \in m .. n : due[a] > d
      <4>. SUFFICES ASSUME NEW a \in m .. n PROVE due[a] > d
        OBVIOUS
      <4>1. a \in 1 .. n /\ (a = m \/ m < a)
        BY <1>0, <3>2
      <4>2. m < a => due[m] <= due[a]
        <5>1. m < a => FiresBefore(ts, p[m], p[a])
          BY <1>2, <3>2, <4>1
        <5>2. /\ due[m] \in Int /\ due[a] \in Int
              /\ due[m] = ts[p[m]].deadlineMs /\ due[a] = ts[p[a]].deadlineMs
          BY <1>0, <1>2, <3>2, <4>1
        <5>3. m < a => due[m] < due[a] \/ due[m] = due[a]
          BY <5>1, <5>2 DEF FiresBefore
        <5>. QED BY <5>2, <5>3
      <4>3. due[m] \in Int /\ due[a] \in Int /\ d \in Int
        BY <1>0, <3>2, <4>1
      <4>4. CASE a = m
        BY <3>2, <4>4
      <4>5. CASE m < a
        BY <3>2, <4>2, <4>3, <4>5
      <4>. QED BY <4>1, <4>4, <4>5
    <3>5. m - 1 \in 0 .. n /\ (m - 1) + 1 = m
      BY <1>0, <3>2
    <3>. QED BY <3>3, <3>4, <3>5
  <2>. QED BY <2>1, <2>2
<1>. HIDE DEF Late
<1>. DEFINE q == [a \in 1 .. n + 1 |-> IF a <= k THEN p[a]
                                       ELSE IF a = k + 1 THEN n + 1 ELSE p[a - 1]]
<1>4. /\ k \in Nat /\ k <= n
      /\ \A a \in 1 .. n + 1 : \/ a \in 1 .. n /\ a <= k
                               \/ a = k + 1
                               \/ a - 1 \in 1 .. n /\ a > k + 1
  <2>1. k \in Nat /\ k <= n
    BY <1>0
  <2>2. ASSUME NEW a \in 1 .. n + 1
        PROVE  \/ a \in 1 .. n /\ a <= k
               \/ a = k + 1
               \/ a - 1 \in 1 .. n /\ a > k + 1
    BY <1>0, <2>1
  <2>. QED BY <2>1, <2>2
<1>5. /\ \A a \in 1 .. n : a <= k => q[a] = p[a]
      /\ q[k + 1] = n + 1
      /\ \A a \in 1 .. n + 1 : a > k + 1 => q[a] = p[a - 1]
  BY <1>0, <1>4
<1>6. q \in [1 .. n + 1 -> 1 .. n + 1]
  BY <1>0, <1>4
<1>. HIDE DEF q
<1>7. \A a \in 1 .. n + 1 : t[q[a]] = IF a <= k THEN ts[p[a]]
                                      ELSE IF a = k + 1 THEN e ELSE ts[p[a - 1]]
  <2>. SUFFICES ASSUME NEW a \in 1 .. n + 1
                PROVE  t[q[a]] = IF a <= k THEN ts[p[a]]
                                 ELSE IF a = k + 1 THEN e ELSE ts[p[a - 1]]
    OBVIOUS
  <2>1. CASE a \in 1 .. n /\ a <= k
    BY <1>0, <1>1, <1>5, <2>1
  <2>2. CASE a = k + 1
    BY <1>1, <1>4, <1>5, <2>2
  <2>3. CASE a - 1 \in 1 .. n /\ a > k + 1
    <3>1. ~(a <= k) /\ a # k + 1
      BY <1>0, <1>4, <2>3
    <3>2. q[a] = p[a - 1] /\ p[a - 1] \in 1 .. n
      BY <1>0, <1>5, <2>3
    <3>. QED BY <1>1, <3>1, <3>2
  <2>. QED BY <1>4, <2>1, <2>2, <2>3
<1>8. \A a, c \in 1 .. n + 1 : a < c => FiresBefore(t, q[a], q[c])
  <2>. SUFFICES ASSUME NEW a \in 1 .. n + 1, NEW c \in 1 .. n + 1, a < c
                PROVE  FiresBefore(t, q[a], q[c])
    OBVIOUS
  <2>0. \A j \in 1 .. n : p[j] \in 1 .. n /\ p[j] < n + 1
    BY <1>0
  <2>1. CASE c <= k
    <3>1. a \in 1 .. n /\ c \in 1 .. n /\ a <= k
      BY <1>0, <1>4, <2>1
    <3>2. t[q[a]] = ts[p[a]] /\ t[q[c]] = ts[p[c]] /\ q[a] = p[a] /\ q[c] = p[c]
      BY <1>5, <1>7, <2>1, <3>1
    <3>3. FiresBefore(ts, p[a], p[c])
      BY <1>2, <3>1
    <3>. QED BY <3>2, <3>3 DEF FiresBefore
  <2>2. CASE c = k + 1
    <3>1. a \in 1 .. n /\ a <= k /\ a \in 1 .. k
      BY <1>0, <1>4, <2>2
    <3>2. q[c] = n + 1 /\ t[q[c]].deadlineMs = d
      BY <1>1, <1>5, <2>2 DEF d
    <3>3. t[q[a]] = ts[p[a]] /\ q[a] = p[a] /\ p[a] < n + 1
      BY <1>5, <1>7, <2>0, <3>1
    <3>4. ts[p[a]].deadlineMs = due[a] /\ due[a] <= d /\ due[a] \in Int
      BY <1>0, <1>2, <1>3, <3>1
    <3>. QED BY <1>0, <3>2, <3>3, <3>4 DEF FiresBefore
  <2>3. CASE c > k + 1 /\ a <= k
    <3>1. a \in 1 .. n /\ c - 1 \in 1 .. n /\ a < c - 1 /\ ~(c <= k) /\ c # k + 1
      BY <1>0, <1>4, <2>3
    <3>2. t[q[a]] = ts[p[a]] /\ t[q[c]] = ts[p[c - 1]] /\ q[a] = p[a] /\ q[c] = p[c - 1]
      BY <1>5, <1>7, <2>3, <3>1
    <3>3. FiresBefore(ts, p[a], p[c - 1])
      BY <1>2, <3>1
    <3>. QED BY <3>2, <3>3 DEF FiresBefore
  <2>4. CASE c > k + 1 /\ a = k + 1
    <3>1. c - 1 \in 1 .. n /\ c - 1 \in k + 1 .. n /\ ~(c <= k) /\ c # k + 1
      BY <1>0, <1>4, <2>4
    <3>2. q[a] = n + 1 /\ t[q[a]].deadlineMs = d
      BY <1>1, <1>5, <2>4 DEF d
    <3>3. t[q[c]] = ts[p[c - 1]]
      BY <1>7, <3>1
    <3>4. ts[p[c - 1]].deadlineMs = due[c - 1] /\ due[c - 1] > d /\ due[c - 1] \in Int
      BY <1>0, <1>2, <1>3, <3>1
    <3>. QED BY <1>0, <3>2, <3>3, <3>4 DEF FiresBefore
  <2>5. CASE c > k + 1 /\ a > k + 1
    <3>1. /\ a - 1 \in 1 .. n /\ c - 1 \in 1 .. n /\ a - 1 < c - 1
          /\ ~(a <= k) /\ a # k + 1 /\ ~(c <= k) /\ c # k + 1
      BY <1>0, <1>4, <2>5
    <3>2. /\ t[q[a]] = ts[p[a - 1]] /\ t[q[c]] = ts[p[c - 1]]
          /\ q[a] = p[a - 1] /\ q[c] = p[c - 1]
      BY <1>5, <1>7, <2>5, <3>1
    <3>3. FiresBefore(ts, p[a - 1], p[c - 1])
      BY <1>2, <3>1
    <3>. QED BY <3>2, <3>3 DEF FiresBefore
  <2>. QED BY <1>0, <1>4, <2>1, <2>2, <2>3, <2>4, <2>5
<1>9. \A j \in 1 .. n + 1 : \E a \in 1 .. n + 1 : q[a] = j
  <2>. SUFFICES ASSUME NEW j \in 1 .. n + 1
                PROVE  \E a \in 1 .. n + 1 : q[a] = j
    OBVIOUS
  <2>1. CASE j = n + 1
    <3>1. k + 1 \in 1 .. n + 1
      BY <1>0, <1>4
    <3>. QED BY <1>5, <2>1, <3>1
  <2>2. CASE j \in 1 .. n
    <3>1. PICK c \in 1 .. n : p[c] = j
      BY <1>2, <2>2
    <3>2. CASE c <= k
      <4>1. c \in 1 .. n + 1
        BY <1>0
      <4>. QED BY <1>5, <3>1, <3>2, <4>1
    <3>3. CASE c > k
      <4>1. c + 1 \in 1 .. n + 1 /\ c + 1 > k + 1 /\ (c + 1) - 1 = c
        BY <1>0, <1>4, <3>3
      <4>. QED BY <1>5, <3>1, <4>1
    <3>4. c <= k \/ c > k
      BY <1>0, <1>4
    <3>. QED BY <3>2, <3>3, <3>4
  <2>3. j = n + 1 \/ j \in 1 .. n
    BY <1>0
  <2>. QED BY <2>1, <2>2, <2>3
<1>10. FiringOrder(t, q) /\ q \in [DOMAIN t -> DOMAIN t]
  BY <1>1, <1>6, <1>8, <1>9 DEF FiringOrder
<1>11. /\ Agenda(t) \in Seq(AnyTimer) /\ Len(Agenda(t)) = n + 1
       /\ \A a \in 1 .. n + 1 : Agenda(t)[a] = t[q[a]]
  <2>1. /\ Agenda(t) = [a \in DOMAIN t |-> t[q[a]]]
        /\ Agenda(t) \in Seq(AnyTimer) /\ Len(Agenda(t)) = Len(t)
    BY <1>1, <1>10, AgendaFacts
  <2>. QED BY <1>1, <2>1
<1>. DEFINE A == Agenda(ts)
            B == Agenda(t)
<1>12. /\ A \in Seq(AnyTimer) /\ Len(A) = n
       /\ \A a \in 1 .. n : A[a] = ts[p[a]]
  BY <1>0, AgendaFacts DEF n
<1>. HIDE DEF A, B
<1>15. B = SubSeq(A, 1, k) \o <<e>> \o SubSeq(A, k + 1, Len(A))
  <2>1. ASSUME NEW a \in 1 .. n + 1
        PROVE  B[a] = IF a <= k THEN A[a] ELSE IF a = k + 1 THEN e ELSE A[a - 1]
    <3>0. B[a] = t[q[a]]
      BY <1>11 DEF B
    <3>2. CASE a \in 1 .. n /\ a <= k
      BY <1>7, <1>12, <3>0, <3>2
    <3>3. CASE a = k + 1
      <4>1. ~(a <= k)
        BY <1>4, <3>3
      <4>. QED BY <1>7, <3>0, <3>3, <4>1
    <3>4. CASE a - 1 \in 1 .. n /\ a > k + 1
      <4>1. ~(a <= k) /\ a # k + 1
        BY <1>4, <3>4
      <4>. QED BY <1>7, <1>12, <3>0, <3>4, <4>1
    <3>. QED BY <1>4, <3>2, <3>3, <3>4
  <2>2. /\ B \in Seq(AnyTimer) /\ Len(B) = Len(A) + 1
        /\ k \in 0 .. Len(A)
        /\ \A a \in 1 .. Len(A) + 1 :
             B[a] = IF a <= k THEN A[a] ELSE IF a = k + 1 THEN e ELSE A[a - 1]
    BY <1>11, <1>12, <2>1 DEF B
  <2>. QED BY <1>12, <2>2, InsertFacts
<1>13. /\ \A a \in 1 .. k : Agenda(ts)[a].deadlineMs <= d
       /\ \A a \in k + 1 .. n : Agenda(ts)[a].deadlineMs > d
  <2>1. /\ \A a \in 1 .. k : a \in 1 .. n
        /\ \A a \in k + 1 .. n : a \in 1 .. n
    BY <1>0, <1>4
  <2>2. \A a \in 1 .. n : Agenda(ts)[a].deadlineMs = due[a]
    BY <1>0, <1>2
  <2>. QED BY <1>3, <2>1, <2>2
<1>14. Sortable(t)
  BY <1>10 DEF Sortable
<1>. QED BY <1>12, <1>13, <1>14, <1>15 DEF n, d, t, A, B

\* An evicted fiber is off the agenda; at most one entry was its own.
LEMMA AgendaEvict ==
  ASSUME NEW ts \in Seq(AnyTimer), Sortable(ts), NEW f
  PROVE  /\ Sortable(Evict(ts, f))
         /\ (\E a \in DOMAIN Agenda(ts) : Agenda(ts)[a].fiber = f) <=> Holds(ts, f)
         /\ Holds(ts, f) =>
              \E a \in DOMAIN Agenda(ts) : /\ Agenda(ts)[a].fiber = f
                                          /\ Agenda(Evict(ts, f)) = Without(Agenda(ts), a)
         /\ ~Holds(ts, f) => Evict(ts, f) = ts
<1>0. Len(ts) \in Nat /\ DOMAIN ts = 1 .. Len(ts)
  BY TimerList
<1>1. PICK p \in [DOMAIN ts -> DOMAIN ts] : FiringOrder(ts, p)
  BY DEF Sortable
<1>2. Agenda(ts) = [n \in DOMAIN ts |-> ts[p[n]]] /\ DOMAIN Agenda(ts) = DOMAIN ts
  BY <1>1, AgendaFacts
<1>3. \A i \in DOMAIN ts : \E a \in DOMAIN ts : p[a] = i
  BY <1>1 DEF FiringOrder
<1>4. (\E a \in DOMAIN Agenda(ts) : Agenda(ts)[a].fiber = f) <=> Holds(ts, f)
  <2>1. \A a \in DOMAIN ts : p[a] \in DOMAIN ts /\ Agenda(ts)[a] = ts[p[a]]
    BY <1>1, <1>2
  <2>2. ASSUME NEW i \in DOMAIN ts, ts[i].fiber = f
        PROVE  \E a \in DOMAIN ts : Agenda(ts)[a].fiber = f
    <3>1. PICK a \in DOMAIN ts : p[a] = i
      BY <1>3
    <3>. QED BY <2>1, <2>2, <3>1
  <2>. QED BY <1>2, <2>1, <2>2 DEF Holds
<1>5. CASE ~Holds(ts, f)
  <2>1. Evict(ts, f) = ts
    BY <1>5 DEF Evict
  <2>. QED BY <1>4, <1>5, <2>1
<1>6. CASE Holds(ts, f)
  <2>. DEFINE S == {i \in DOMAIN ts : ts[i].fiber = f}
              i0 == FirstOf(ts, f)
  <2>1. \E i \in DOMAIN ts : ts[i].fiber = f /\ \A j \in 1 .. i - 1 : ts[j].fiber # f
    <3>1. S \in SUBSET Nat /\ S # {}
      BY <1>0, <1>6 DEF Holds
    <3>2. PICK i \in S : \A j \in S : i <= j
      BY <3>1, Least
    <3>3. ASSUME NEW j \in 1 .. i - 1 PROVE ts[j].fiber # f
      <4>1. j \in DOMAIN ts /\ ~(i <= j)
        BY <1>0, <3>2
      <4>. QED BY <3>2, <4>1
    <3>. QED BY <3>2, <3>3
  <2>2. i0 \in DOMAIN ts /\ ts[i0].fiber = f
    BY <2>1 DEF FirstOf
  <2>3. Evict(ts, f) = Without(ts, i0)
    BY <1>6 DEF Evict
  <2>. HIDE DEF i0
  <2>4. PICK a \in DOMAIN ts : p[a] = i0
    BY <1>3, <2>2
  <2>5. Sortable(Without(ts, i0)) /\ Agenda(Without(ts, i0)) = Without(Agenda(ts), a)
    BY <1>1, <2>4, AgendaWithout
  <2>6. a \in DOMAIN Agenda(ts) /\ Agenda(ts)[a].fiber = f
    BY <1>2, <2>2, <2>4
  <2>. QED BY <1>4, <1>6, <2>3, <2>5, <2>6
<1>. QED BY <1>5, <1>6

\* The entries of a list some of whose places were dropped.
LEMMA EntriesWithin ==
  ASSUME NEW t, NEW s, NEW D, Within(t, s, D)
  PROVE  /\ \A r : r \in Entries(t) <=> \E d \in D : r = s[d]
         /\ \A g : Holds(t, g) <=> \E d \in D : s[d].fiber = g
<1>1. PICK m \in [DOMAIN t -> D] :
        /\ \A k \in DOMAIN t : t[k] = s[m[k]]
        /\ \A d \in D : \E k \in DOMAIN t : m[k] = d
  BY DEF Within
<1>2. \A k \in DOMAIN t : m[k] \in D
  BY <1>1
<1>3. \A r : r \in Entries(t) <=> \E d \in D : r = s[d]
  BY <1>1, <1>2 DEF Entries
<1>4. \A g : Holds(t, g) <=> \E d \in D : s[d].fiber = g
  BY <1>1, <1>2 DEF Holds
<1>. QED BY <1>3, <1>4

\* What is left of a list once a fiber was evicted.
LEMMA EvictEntries ==
  ASSUME NEW T, NEW s \in Seq(T), NEW f,
         \A i, j \in DOMAIN s : s[i].fiber = s[j].fiber => i = j
  PROVE  \A r : r \in Entries(Evict(s, f)) <=> r \in Entries(s) /\ r.fiber # f
<1>1. Within(Evict(s, f), s, {i \in DOMAIN s : s[i].fiber # f})
  BY EvictFacts
<1>2. \A r : r \in Entries(Evict(s, f))
             <=> \E d \in {i \in DOMAIN s : s[i].fiber # f} : r = s[d]
  BY <1>1, EntriesWithin
<1>3. \A r : r \in Entries(s) <=> \E d \in DOMAIN s : r = s[d]
  BY DEF Entries
<1>. QED BY <1>2, <1>3

LEMMA EvictHolds ==
  ASSUME NEW T, NEW s \in Seq(T), NEW f,
         \A i, j \in DOMAIN s : s[i].fiber = s[j].fiber => i = j
  PROVE  \A g : Holds(Evict(s, f), g) <=> Holds(s, g) /\ g # f
<1>1. Within(Evict(s, f), s, {i \in DOMAIN s : s[i].fiber # f})
  BY EvictFacts
<1>2. \A g : Holds(Evict(s, f), g)
             <=> \E d \in {i \in DOMAIN s : s[i].fiber # f} : s[d].fiber = g
  BY <1>1, EntriesWithin
<1>3. \A g : (\E d \in {i \in DOMAIN s : s[i].fiber # f} : s[d].fiber = g)
             <=> Holds(s, g) /\ g # f
  BY DEF Holds
<1>. QED BY <1>2, <1>3

\* The record a caller of wake takes out of its list is the fiber's only one.
LEMMA WithoutEntries ==
  ASSUME NEW T, NEW s \in Seq(T), NEW i \in DOMAIN s,
         \A j, k \in DOMAIN s : s[j].fiber = s[k].fiber => j = k
  PROVE  /\ \A r : r \in Entries(Without(s, i)) <=> r \in Entries(s) /\ r # s[i]
         /\ ~Holds(Without(s, i), s[i].fiber)
         /\ Evict(s, s[i].fiber) = Without(s, i)
<1>. DEFINE f == s[i].fiber
<1>1. Within(Without(s, i), s, DOMAIN s \ {i})
  BY WithinFacts
<1>2. \A r : r \in Entries(Without(s, i)) <=> \E d \in DOMAIN s \ {i} : r = s[d]
  BY <1>1, EntriesWithin
<1>3. \A d \in DOMAIN s \ {i} : s[d] # s[i]
  OBVIOUS
<1>4. \A r : r \in Entries(s) <=> \E d \in DOMAIN s : r = s[d]
  BY DEF Entries
<1>5. \A r : r \in Entries(Without(s, i)) <=> r \in Entries(s) /\ r # s[i]
  BY <1>2, <1>3, <1>4
<1>6. ~Holds(Without(s, i), f)
  <2>1. Holds(Without(s, i), f) <=> \E d \in DOMAIN s \ {i} : s[d].fiber = f
    BY <1>1, EntriesWithin
  <2>. QED BY <2>1
<1>7. Holds(s, f)
  BY DEF Holds
<1>8. FirstOf(s, f) = i
  BY <1>7, EvictFacts
<1>9. Evict(s, f) = Without(s, i)
  BY <1>7, <1>8 DEF Evict
<1>. QED BY <1>5, <1>6, <1>9

-----------------------------------------------------------------------------
(* Every step is a step of the abstract scheduler, or a stutter.           *)

\* While the loop handles a batch of events nobody sleeps, and what was reported
\* is still readable: only fibers read.
Batched == evbuf # <<>> => /\ timers = <<>>
                           /\ \A i \in DOMAIN evbuf : evbuf[i] \in readable

RInv == SInv /\ Sortable(timers) /\ Batched

\* Who has the thread, concretely and abstractly.
LEMMA FiberHasThread ==
  ASSUME SInv, InFiber
  PROVE  /\ current \in Fiber /\ current # Null /\ fstate[current] = "running"
         /\ mode \in {"run", "poll"} /\ evbuf = <<>>
         /\ Line = queue /\ Running = current
BY DEF InFiber, SInv, Shape, OneThread, Line, Running

LEMMA CallerHasThread ==
  ASSUME SInv, InFiber \/ mode = "main"
  PROVE  /\ Coop!CallerHasThread /\ evbuf = <<>>
         /\ mode \notin {"deinit", "dead", "aborted"}
         /\ current # Null => fstate[current] = "running"
         /\ Line = queue
<1>1. CASE InFiber
  BY <1>1, FiberHasThread DEF Coop!CallerHasThread
<1>2. CASE mode = "main"
  <2>1. current = Null /\ evbuf = <<>>
    BY <1>2 DEF SInv, OneThread
  <2>. QED BY <1>2, <2>1 DEF Coop!CallerHasThread, Line
<1>. QED BY <1>1, <1>2

\* A fiber that is neither parked nor ready is unknown to the abstract scheduler.
LEMMA FreeIsUnknown ==
  ASSUME RInv, Line = queue, NEW f \in Fiber, fstate[f] = "free"
  PROVE  ~Coop!Alive(f)
<1>1. timers \in Seq(AnyTimer)
  BY DEF RInv, SInv, Shape
<1>2. (\E a \in DOMAIN Agenda(timers) : Agenda(timers)[a].fiber = f) <=> Holds(timers, f)
  BY <1>1, AgendaEvict DEF RInv
<1>3. ~Holds(timers, f)
  BY SourcesOfOthers DEF RInv, Holds
<1>4. ~\E r \in Entries(ioWaiters) : r.fiber = f
  BY SourcesOfOthers DEF RInv, Entries
<1>5. f \notin Parked
  BY DEF Parked, Suspended
<1>6. ~Queued(f)
  BY DEF RInv, SInv, QueuedIffReady
<1>7. f # Running
  BY FiberAssumption DEF Running
<1>. QED BY <1>2, <1>3, <1>4, <1>5, <1>6, <1>7
         DEF Coop!Alive, Coop!Waiting, Coop!Asleep, Coop!InLine, Queued

LEMMA SpawnMaps == RInv /\ Spawn => Coop!CoopNext
<1>. SUFFICES ASSUME RInv, Spawn PROVE Coop!CoopNext
  OBVIOUS
<1>1. PICK f \in Fiber : /\ fstate[f] = "free"
                         /\ fstate' = [fstate EXCEPT ![f] = "ready"]
                         /\ queue' = Append(queue, f)
  BY DEF Spawn, Enqueue
<1>2. UNCHANGED <<current, timers, clockMs, ioWaiters, readable, mode>>
  BY DEF Spawn, timeVars, fdVars
<1>3. /\ Coop!CallerHasThread /\ mode \notin {"deinit", "dead", "aborted"}
      /\ current # Null => fstate[current] = "running"
      /\ Line = queue
  BY CallerHasThread DEF RInv, Spawn
<1>4. /\ fstate'[f] = "ready" /\ \A g \in Fiber \ {f} : fstate'[g] = fstate[g]
      /\ current # Null => current \in Fiber
  BY <1>1 DEF RInv, SInv, Shape
<1>5. ~Coop!Alive(f)
  BY <1>1, <1>3, FreeIsUnknown
<1>6. current # Null => fstate'[current] = "running"
  BY <1>1, <1>3, <1>4
<1>7. Line' = Append(Line, f) /\ Running' = Running
  BY <1>1, <1>2, <1>3, <1>6 DEF Line, Running
<1>8. Parked' = Parked
  <2>1. Suspended' = Suspended
    BY <1>1, <1>4 DEF Suspended
  <2>. QED BY <1>2, <2>1 DEF Parked, Holds
<1>9. Agenda(timers)' = Agenda(timers) /\ Entries(ioWaiters)' = Entries(ioWaiters)
  BY <1>2
<1>10. Coop!Start
  BY <1>2, <1>3, <1>5, <1>7, <1>8, <1>9 DEF Coop!Start, Coop!waits
<1>. QED BY <1>3, <1>10 DEF Coop!CoopNext

\* A wake withdraws the fiber from the agenda, the readers and the parked, and a
\* wake of anyone else is a stutter.
LEMMA WakeCallMaps == RInv /\ WakeCall => Coop!CoopNext \/ UNCHANGED Coop!coopVars
<1>. SUFFICES ASSUME RInv, WakeCall PROVE Coop!CoopNext \/ UNCHANGED Coop!coopVars
  OBVIOUS
<1>1. PICK f \in Fiber : Wake(f, timers, ioWaiters, kernel)
  BY DEF WakeCall, Live
<1>2. UNCHANGED <<current, clockMs, readable, mode>>
  BY DEF WakeCall
<1>3. /\ Coop!CallerHasThread /\ mode \notin {"deinit", "dead", "aborted"}
      /\ current # Null => fstate[current] = "running"
      /\ Line = queue
  BY CallerHasThread DEF RInv, WakeCall
<1>4. /\ timers \in Seq(AnyTimer) /\ ioWaiters \in Seq(IoWaiter)
      /\ fstate \in [Fiber -> FiberState] /\ current \in Fiber \cup {Null}
      /\ \A i, j \in DOMAIN timers : timers[i].fiber = timers[j].fiber => i = j
      /\ \A i, j \in DOMAIN ioWaiters : ioWaiters[i].fiber = ioWaiters[j].fiber => i = j
  BY DEF RInv, SInv, Shape, WakeSourcesParked, SourcesParked
<1>5. CASE fstate[f] # "suspended"
  <2>1. UNCHANGED <<fstate, queue, timers, ioWaiters>>
    BY <1>1, <1>5 DEF Wake, queueVars
  <2>. QED BY <1>2, <2>1 DEF Coop!coopVars, Coop!waits, Line, Running, Parked,
                             Suspended, Holds, Entries, Agenda
<1>6. CASE fstate[f] = "suspended"
  <2>1. /\ timers' = Evict(timers, f) /\ ioWaiters' = Evict(ioWaiters, f)
        /\ fstate' = [fstate EXCEPT ![f] = "ready"] /\ queue' = Append(queue, f)
    BY <1>1, <1>6 DEF Wake, Enqueue
  <2>2. fstate'[f] = "ready" /\ \A g \in Fiber \ {f} : fstate'[g] = fstate[g]
    BY <1>4, <2>1
  <2>3. Line' = Append(Line, f) /\ Running' = Running
    <3>1. current # Null => fstate'[current] = "running"
      BY <1>3, <1>4, <1>6, <2>2
    <3>. QED BY <1>2, <1>3, <2>1, <3>1 DEF Line, Running
  <2>4. Parked' = Parked \ {f}
    <3>1. Suspended' = Suspended \ {f}
      BY <1>6, <2>2 DEF Suspended
    <3>2. \A g : Holds(timers', g) <=> Holds(timers, g) /\ g # f
      BY <1>4, <2>1, EvictHolds
    <3>3. \A g : Holds(ioWaiters', g) <=> Holds(ioWaiters, g) /\ g # f
      BY <1>4, <2>1, EvictHolds
    <3>4. \A g : g \in Parked' <=> g \in Suspended' /\ ~Holds(timers', g) /\ ~Holds(ioWaiters', g)
      BY DEF Parked
    <3>5. \A g : g \in Parked <=> g \in Suspended /\ ~Holds(timers, g) /\ ~Holds(ioWaiters, g)
      BY DEF Parked
    <3>6. \A g : g \in Parked' <=> g \in Parked /\ g # f
      BY <3>1, <3>2, <3>3, <3>4, <3>5
    <3>. QED BY <3>6
  <2>5. Entries(ioWaiters)' = {r \in Entries(ioWaiters) : r.fiber # f}
    <3>1. \A r : r \in Entries(ioWaiters') <=> r \in Entries(ioWaiters) /\ r.fiber # f
      BY <1>4, <2>1, EvictEntries
    <3>. QED BY <3>1
  <2>6. Coop!Waiting(f)
    <3>1. (\E a \in DOMAIN Agenda(timers) : Agenda(timers)[a].fiber = f) <=> Holds(timers, f)
      BY <1>4, AgendaEvict DEF RInv
    <3>2. (\E r \in Entries(ioWaiters) : r.fiber = f) <=> Holds(ioWaiters, f)
      BY DEF Entries, Holds
    <3>. QED BY <1>6, <3>1, <3>2 DEF Coop!Waiting, Coop!Asleep, Parked, Suspended
  <2>7. Coop!Forget(f)
    <3>1. Coop!Asleep(f) <=> Holds(timers, f)
      BY <1>4, AgendaEvict DEF RInv, Coop!Asleep
    <3>2. CASE Holds(timers, f)
      <4>1. PICK a \in DOMAIN Agenda(timers) :
              /\ Agenda(timers)[a].fiber = f
              /\ Agenda(timers') = Without(Agenda(timers), a)
        BY <1>4, <2>1, <3>2, AgendaEvict DEF RInv
      <4>2. Agenda(timers) \in Seq(AnyTimer)
        BY <1>4, AgendaFacts DEF RInv, Sortable
      <4>3. SubSeq(Agenda(timers), 1, a - 1)
              \o SubSeq(Agenda(timers), a + 1, Len(Agenda(timers)))
              = Without(Agenda(timers), a)
        BY <4>2, RemoveFacts
      <4>. QED BY <3>1, <3>2, <4>1, <4>3 DEF Coop!Forget
    <3>3. CASE ~Holds(timers, f)
      <4>1. timers' = timers
        BY <2>1, <3>3 DEF Evict
      <4>. QED BY <3>1, <3>3, <4>1 DEF Coop!Forget
    <3>. QED BY <3>2, <3>3
  <2>8. Coop!Rouse
    BY <1>2, <1>3, <2>3, <2>4, <2>5, <2>6, <2>7 DEF Coop!Rouse
  <2>. QED BY <1>3, <2>8 DEF Coop!CoopNext
<1>. QED BY <1>5, <1>6

\* What a fiber that gives the thread back leaves to the abstract scheduler.
LEMMA LeavesThread ==
  ASSUME RInv, InFiber,
         NEW st \in {"ready", "suspended", "done"},
         fstate' = [fstate EXCEPT ![current] = st],
         UNCHANGED <<queueVars, current, clockMs, readable, mode>>,
         \/ Coop!Yield
         \/ Coop!SuspendUntilWake
         \/ \E ms \in Ms : Coop!SleepFor(ms)
         \/ \E fd \in Fd : Coop!AwaitInput(fd)
         \/ Coop!Finish
  PROVE  Coop!CoopNext
<1>1. /\ current \in Fiber /\ current # Null
      /\ mode \notin {"deinit", "dead", "aborted"} /\ Running = current
  BY FiberHasThread DEF RInv
<1>2. Running' = Null
  <2>1. fstate'[current] = st
    BY <1>1 DEF RInv, SInv, Shape
  <2>. QED BY <2>1 DEF Running
<1>3. Coop!LeaveThread
  BY <1>1, <1>2 DEF Coop!LeaveThread
<1>. QED BY <1>1, <1>3 DEF Coop!CoopNext

\* yieldNow, suspendSelf and the return of a body.
LEMMA PlainSwitchMaps ==
  RInv /\ (YieldNow \/ SuspendSelf \/ BodyReturns) => Coop!CoopNext
<1>. SUFFICES ASSUME RInv, YieldNow \/ SuspendSelf \/ BodyReturns
              PROVE  Coop!CoopNext
  OBVIOUS
<1>1. /\ InFiber /\ current \in Fiber /\ current # Null /\ Running = current
      /\ Line = queue /\ fstate[current] = "running"
      /\ fstate \in [Fiber -> FiberState]
  BY FiberHasThread DEF YieldNow, SuspendSelf, BodyReturns, RInv, SInv, Shape
<1>2. /\ UNCHANGED <<queueVars, current, clockMs, timers, ioWaiters, readable, mode>>
      /\ Agenda(timers)' = Agenda(timers) /\ Entries(ioWaiters)' = Entries(ioWaiters)
  BY DEF YieldNow, SuspendSelf, BodyReturns, timeVars, fdVars
<1>3. ~Holds(timers, current) /\ ~Holds(ioWaiters, current)
  BY <1>1, SourcesOfOthers DEF RInv, Holds
<1>4. CASE YieldNow
  <2>1. fstate' = [fstate EXCEPT ![current] = "ready"]
    BY <1>4 DEF YieldNow
  <2>2. Line' = Append(queue, current)
    BY <1>1, <1>2, <2>1 DEF Line, queueVars
  <2>3. Suspended' = Suspended
    BY <1>1, <2>1 DEF Suspended
  <2>4. Parked' = Parked
    BY <1>2, <2>3 DEF Parked, Holds
  <2>5. Coop!Yield
    BY <1>1, <1>2, <2>2, <2>4 DEF Coop!Yield, Coop!waits
  <2>. QED BY <1>1, <1>2, <2>1, <2>5, LeavesThread
<1>5. CASE BodyReturns
  <2>1. fstate' = [fstate EXCEPT ![current] = "done"]
    BY <1>5 DEF BodyReturns
  <2>2. Line' = queue
    BY <1>1, <1>2, <2>1 DEF Line, queueVars
  <2>3. Suspended' = Suspended
    BY <1>1, <2>1 DEF Suspended
  <2>4. Parked' = Parked
    BY <1>2, <2>3 DEF Parked, Holds
  <2>5. Coop!Finish
    BY <1>1, <1>2, <2>2, <2>4 DEF Coop!Finish, Coop!waits
  <2>. QED BY <1>1, <1>2, <2>1, <2>5, LeavesThread
<1>6. CASE SuspendSelf
  <2>1. fstate' = [fstate EXCEPT ![current] = "suspended"]
    BY <1>6 DEF SuspendSelf, Park
  <2>2. Line' = queue
    BY <1>1, <1>2, <2>1 DEF Line, queueVars
  <2>3. Suspended' = Suspended \cup {current}
    BY <1>1, <2>1 DEF Suspended
  <2>4. Parked' = Parked \cup {current}
    BY <1>2, <1>3, <2>3 DEF Parked, Holds
  <2>5. Coop!SuspendUntilWake
    BY <1>1, <1>2, <2>2, <2>4 DEF Coop!SuspendUntilWake
  <2>. QED BY <1>1, <1>2, <2>1, <2>5, LeavesThread
<1>. QED BY <1>4, <1>5, <1>6

\* An entry at the end of a list adds itself and its fiber.
LEMMA AppendEntries ==
  ASSUME NEW T, NEW s \in Seq(T), NEW e \in T
  PROVE  /\ Entries(Append(s, e)) = Entries(s) \cup {e}
         /\ \A g : Holds(Append(s, e), g) <=> Holds(s, g) \/ g = e.fiber
<1>. DEFINE n == Len(s)
            t == Append(s, e)
<1>1. /\ n \in Nat /\ DOMAIN s = 1 .. n /\ DOMAIN t = 1 .. n + 1
      /\ \A i \in 1 .. n : t[i] = s[i]
      /\ t[n + 1] = e
  BY AppendProperties, LenProperties
<1>. HIDE DEF n, t
<1>2. \A i \in 1 .. n + 1 : i \in 1 .. n \/ i = n + 1
  BY <1>1
<1>3. n + 1 \in 1 .. n + 1 /\ \A i \in 1 .. n : i \in 1 .. n + 1
  BY <1>1
<1>4. \A r : r \in Entries(t) <=> r \in Entries(s) \/ r = e
  BY <1>1, <1>2, <1>3 DEF Entries
<1>5. \A g : Holds(t, g) <=> Holds(s, g) \/ g = e.fiber
  BY <1>1, <1>2, <1>3 DEF Holds
<1>6. Entries(t) = Entries(s) \cup {e}
  BY <1>4
<1>. QED BY <1>5, <1>6 DEF t

LEMMA SleepMaps ==
  ASSUME RInv, NEW ms \in Ms, Sleep(ms)
  PROVE  Coop!CoopNext
<1>. DEFINE e == [deadlineMs |-> clockMs + ms, fiber |-> current]
<1>1. /\ InFiber /\ current \in Fiber /\ current # Null /\ Running = current
      /\ Line = queue /\ fstate[current] = "running"
      /\ fstate \in [Fiber -> FiberState] /\ timers \in Seq(AnyTimer)
  BY FiberHasThread DEF Sleep, RInv, SInv, Shape
<1>2. /\ UNCHANGED <<queueVars, current, clockMs, ioWaiters, readable, mode>>
      /\ Entries(ioWaiters)' = Entries(ioWaiters)
      /\ timers' = Append(timers, e)
      /\ fstate' = [fstate EXCEPT ![current] = "suspended"]
  BY DEF Sleep, Park, timeVars, fdVars
<1>3. e \in AnyTimer /\ e.fiber = current /\ e.deadlineMs = clockMs + ms
  BY <1>1, TimeAssumption DEF AnyTimer, RInv, SInv, Shape
<1>4. Line' = queue
  BY <1>1, <1>2 DEF Line, queueVars
<1>5. Parked' = Parked
  <2>1. Suspended' = Suspended \cup {current}
    BY <1>1, <1>2 DEF Suspended
  <2>2. current \notin Suspended
    BY <1>1 DEF Suspended
  <2>3. \A g : Holds(timers', g) <=> Holds(timers, g) \/ g = current
    BY <1>1, <1>2, <1>3, AppendEntries
  <2>4. \A g : g \in Parked' <=> g \in Suspended' /\ ~Holds(timers', g) /\ ~Holds(ioWaiters, g)
    BY <1>2 DEF Parked, Holds
  <2>5. \A g : g \in Parked <=> g \in Suspended /\ ~Holds(timers, g) /\ ~Holds(ioWaiters, g)
    BY DEF Parked
  <2>6. \A g : g \in Parked' <=> g \in Parked
    BY <2>1, <2>2, <2>3, <2>4, <2>5
  <2>. QED BY <2>6
<1>6. Coop!Note(Running, clockMs + ms)
  <2>. DEFINE s == Agenda(timers)
              d == clockMs + ms
  <2>1. PICK p \in [DOMAIN timers -> DOMAIN timers] : FiringOrder(timers, p)
    BY DEF RInv, Sortable
  <2>2. s \in Seq(AnyTimer) /\ Len(s) = Len(timers)
    BY <1>1, <2>1, AgendaFacts
  <2>. HIDE DEF e
  <2>3. PICK k \in 0 .. Len(s) :
          /\ \A a \in 1 .. k : s[a].deadlineMs <= e.deadlineMs
          /\ \A a \in k + 1 .. Len(s) : s[a].deadlineMs > e.deadlineMs
          /\ Agenda(Append(timers, e)) =
               SubSeq(s, 1, k) \o <<e>> \o SubSeq(s, k + 1, Len(s))
    BY <1>1, <1>3, <2>1, <2>2, AgendaAppend
  <2>. HIDE DEF s
  <2>5. s' = SubSeq(s, 1, k) \o <<e>> \o SubSeq(s, k + 1, Len(s))
    <3>1. s' = Agenda(Append(timers, e))
      BY <1>2 DEF s
    <3>. QED BY <2>3, <3>1
  <2>6. e = [deadlineMs |-> d, fiber |-> Running]
    BY <1>1 DEF e
  <2>7. /\ \A a \in 1 .. k : s[a].deadlineMs <= d
        /\ \A a \in k + 1 .. Len(s) : s[a].deadlineMs > d
    BY <1>3, <2>3
  <2>. HIDE DEF d
  <2>8. \E l \in 0 .. Len(s) :
          /\ \A a \in 1 .. l : s[a].deadlineMs <= d
          /\ \A a \in l + 1 .. Len(s) : s[a].deadlineMs > d
          /\ s' = SubSeq(s, 1, l) \o <<[deadlineMs |-> d, fiber |-> Running]>>
                    \o SubSeq(s, l + 1, Len(s))
    BY <2>5, <2>6, <2>7
  <2>. QED BY <2>8 DEF s, d, Coop!Note
<1>7. Coop!SleepFor(ms)
  BY <1>1, <1>2, <1>4, <1>5, <1>6 DEF Coop!SleepFor
<1>. QED BY <1>1, <1>2, <1>7, LeavesThread

LEMMA BlockOnFdMaps ==
  ASSUME RInv, NEW fd \in Fd, BlockOnFd(fd)
  PROVE  Coop!CoopNext
<1>. DEFINE e == [fd |-> fd, fiber |-> current]
<1>1. /\ InFiber /\ current \in Fiber /\ current # Null /\ Running = current
      /\ Line = queue /\ fstate[current] = "running"
      /\ fstate \in [Fiber -> FiberState] /\ ioWaiters \in Seq(IoWaiter)
  BY FiberHasThread DEF BlockOnFd, RInv, SInv, Shape
<1>2. /\ UNCHANGED <<queueVars, current, clockMs, timers, readable, mode>>
      /\ Agenda(timers)' = Agenda(timers)
      /\ ioWaiters' = Append(ioWaiters, e)
      /\ fstate' = [fstate EXCEPT ![current] = "suspended"]
  BY DEF BlockOnFd, Park, timeVars
<1>3. e \in IoWaiter /\ e.fiber = current
  BY <1>1 DEF IoWaiter
<1>4. Line' = queue
  BY <1>1, <1>2 DEF Line, queueVars
<1>5. Parked' = Parked
  <2>1. Suspended' = Suspended \cup {current}
    BY <1>1, <1>2 DEF Suspended
  <2>2. current \notin Suspended
    BY <1>1 DEF Suspended
  <2>3. \A g : Holds(ioWaiters', g) <=> Holds(ioWaiters, g) \/ g = current
    BY <1>1, <1>2, <1>3, AppendEntries
  <2>4. \A g : g \in Parked' <=> g \in Suspended' /\ ~Holds(timers, g) /\ ~Holds(ioWaiters', g)
    BY <1>2 DEF Parked, Holds
  <2>5. \A g : g \in Parked <=> g \in Suspended /\ ~Holds(timers, g) /\ ~Holds(ioWaiters, g)
    BY DEF Parked
  <2>6. \A g : g \in Parked' <=> g \in Parked
    BY <2>1, <2>2, <2>3, <2>4, <2>5
  <2>. QED BY <2>6
<1>6. Entries(ioWaiters)' = Entries(ioWaiters) \cup {e}
  BY <1>1, <1>2, <1>3, AppendEntries
<1>7. \A r \in Entries(ioWaiters) : r.fd # fd
  BY DEF BlockOnFd, CanArm, Entries
<1>8. Coop!AwaitInput(fd)
  BY <1>1, <1>2, <1>4, <1>5, <1>6, <1>7 DEF Coop!AwaitInput
<1>. QED BY <1>1, <1>2, <1>8, LeavesThread

\* Steps that move nobody leave the abstract scheduler's fibers where they are.
LEMMA NobodyMoves ==
  ASSUME UNCHANGED <<fstate, queue, current, timers, ioWaiters>>
  PROVE  Line' = Line /\ Running' = Running /\ UNCHANGED Coop!waits
<1>1. Line' = Line /\ Running' = Running
  BY DEF Line, Running
<1>2. Agenda(timers)' = Agenda(timers) /\ Entries(ioWaiters)' = Entries(ioWaiters)
  OBVIOUS
<1>3. Parked' = Parked
  BY DEF Parked, Suspended, Holds
<1>. QED BY <1>1, <1>2, <1>3 DEF Coop!waits

\* Starting a loop, input, and everything that aborts.
LEMMA OutsideMaps ==
  RInv /\ (\/ StartLoop("run") \/ StartLoop("poll") \/ Misuse
           \/ \E fd \in Fd : BlockOnFdAborts(fd) \/ ReadFd(fd) \/ FdReadable(fd))
    => Coop!CoopNext
<1>. SUFFICES ASSUME RInv,
                     \/ StartLoop("run") \/ StartLoop("poll") \/ Misuse
                     \/ \E fd \in Fd : BlockOnFdAborts(fd) \/ ReadFd(fd) \/ FdReadable(fd)
              PROVE  Coop!CoopNext
  OBVIOUS
<1>1. UNCHANGED <<fstate, queue, current, timers, ioWaiters, clockMs>>
  BY DEF StartLoop, Misuse, BlockOnFdAborts, ReadFd, FdReadable, Abort,
         queueVars, timeVars, fdVars
<1>2. Line' = Line /\ Running' = Running /\ UNCHANGED Coop!waits
  BY <1>1, NobodyMoves
<1>3. CASE StartLoop("run") \/ StartLoop("poll")
  <2>1. mode = "main" /\ mode' \in {"run", "poll"} /\ readable' = readable
    BY <1>3 DEF StartLoop, fdVars
  <2>2. Coop!Drive
    BY <1>1, <1>2, <2>1 DEF Coop!Drive
  <2>. QED BY <2>1, <2>2 DEF Coop!CoopNext
<1>4. CASE Misuse \/ \E fd \in Fd : BlockOnFdAborts(fd)
  <2>1. mode' = "aborted" /\ readable' = readable
    BY <1>4 DEF Misuse, BlockOnFdAborts, Abort, fdVars
  <2>2. Coop!Crash
    BY <1>1, <1>2, <2>1 DEF Coop!Crash
  <2>. QED BY <2>2 DEF Coop!CoopNext
<1>5. CASE \E fd \in Fd : ReadFd(fd) \/ FdReadable(fd)
  <2>1. mode' = mode /\ readable' \in SUBSET Fd
    BY <1>5 DEF ReadFd, FdReadable, RInv, SInv, Shape
  <2>2. Coop!Input
    BY <1>1, <1>2, <2>1 DEF Coop!Input
  <2>. QED BY <2>2 DEF Coop!CoopNext
<1>. QED BY <1>3, <1>4, <1>5

\* The head of the list is the head of the line.
LEMMA HeadOfLine ==
  ASSUME SInv
  PROVE  /\ readyHead = Null <=> queue = <<>>
         /\ readyHead # Null => readyHead = Head(queue) /\ readyHead \in Fiber
                                /\ fstate[readyHead] = "ready"
<1>1. /\ queue \in Seq(Fiber) /\ Len(queue) \in Nat /\ DOMAIN queue = 1 .. Len(queue)
      /\ queue # <<>> => Len(queue) > 0 /\ queue[1] \in Fiber /\ Head(queue) = queue[1]
  BY ElementOfSeq, LenProperties, EmptySeq, HeadTailProperties DEF SInv, Shape
<1>2. queue # <<>> => queue[1] # Null /\ Queued(queue[1])
  BY <1>1, FiberAssumption DEF Queued
<1>3. readyHead = IF queue = <<>> THEN Null ELSE queue[1]
  BY DEF SInv, LinksSpellQueue
<1>. QED BY <1>1, <1>2, <1>3 DEF SInv, QueuedIffReady

LEMMA DispatchMaps == RInv /\ Dispatch => Coop!CoopNext
<1>. SUFFICES ASSUME RInv, Dispatch PROVE Coop!CoopNext
  OBVIOUS
<1>1. /\ mode \in {"run", "poll"} /\ current = Null /\ readyHead # Null
      /\ current' = readyHead /\ fstate' = [fstate EXCEPT ![readyHead] = "running"]
      /\ queue' = Tail(queue)
      /\ UNCHANGED <<timers, clockMs, ioWaiters, readable, mode>>
  BY DEF Dispatch, InLoop, Dequeue, timeVars, fdVars
<1>2. /\ queue # <<>> /\ readyHead = Head(queue) /\ readyHead \in Fiber
      /\ fstate[readyHead] = "ready" /\ fstate \in [Fiber -> FiberState]
  BY <1>1, HeadOfLine DEF RInv, SInv, Shape
<1>3. Line = queue /\ Running = Null
  BY <1>1 DEF Line, Running
<1>4. fstate'[readyHead] = "running"
  BY <1>1, <1>2
<1>5. Line' = queue' /\ Running' = readyHead
  BY <1>1, <1>4 DEF Line, Running
<1>6. Suspended' = Suspended
  BY <1>1, <1>2 DEF Suspended
<1>7. Parked' = Parked
  BY <1>1, <1>6 DEF Parked, Holds
<1>8. Agenda(timers)' = Agenda(timers) /\ Entries(ioWaiters)' = Entries(ioWaiters)
  BY <1>1
<1>9. Coop!Run
  BY <1>1, <1>2, <1>3, <1>5, <1>7, <1>8 DEF Coop!Run, Coop!waits
<1>. QED BY <1>1, <1>9 DEF Coop!CoopNext

\* The loop's own steps: nobody outside could tell.
LEMMA SwitchedBackMaps == RInv /\ SwitchedBack => UNCHANGED Coop!coopVars
<1>. SUFFICES ASSUME RInv, SwitchedBack PROVE UNCHANGED Coop!coopVars
  OBVIOUS
<1>1. /\ current \in Fiber /\ current # Null /\ current' = Null
      /\ fstate \in [Fiber -> FiberState]
      /\ UNCHANGED <<timers, clockMs, ioWaiters, readable, mode>>
  BY DEF SwitchedBack, timeVars, fdVars, RInv, SInv, Shape
<1>2. \/ /\ fstate[current] = "done" /\ fstate' = [fstate EXCEPT ![current] = "free"]
         /\ queue' = queue
      \/ fstate[current] = "ready" /\ queue' = Append(queue, current) /\ fstate' = fstate
      \/ fstate[current] = "suspended" /\ queue' = queue /\ fstate' = fstate
  BY DEF SwitchedBack, Enqueue, queueVars
<1>3. Line' = Line /\ Running' = Running
  BY <1>1, <1>2 DEF Line, Running
<1>4. Suspended' = Suspended
  BY <1>1, <1>2 DEF Suspended
<1>5. Parked' = Parked
  BY <1>1, <1>4 DEF Parked, Holds
<1>6. Agenda(timers)' = Agenda(timers) /\ Entries(ioWaiters)' = Entries(ioWaiters)
  BY <1>1
<1>. QED BY <1>1, <1>3, <1>5, <1>6 DEF Coop!coopVars, Coop!waits

LEMMA WaitMaps == WaitForFds \/ Blocked \/ Stopped \/ UNCHANGED vars => UNCHANGED Coop!coopVars
<1>. SUFFICES ASSUME WaitForFds \/ Blocked \/ Stopped \/ UNCHANGED vars
              PROVE  UNCHANGED Coop!coopVars
  OBVIOUS
<1>1. UNCHANGED <<fstate, queue, current, timers, ioWaiters, clockMs, readable, mode>>
  BY DEF WaitForFds, Blocked, Stopped, vars, queueVars, timeVars, fdVars
<1>. QED BY <1>1, NobodyMoves DEF Coop!coopVars

\* run and poll leave with nothing left to do, or give up.
LEMMA EndsMap == RInv /\ (RunEnds \/ PollEnds) => Coop!CoopNext
<1>. SUFFICES ASSUME RInv, RunEnds \/ PollEnds PROVE Coop!CoopNext
  OBVIOUS
<1>1. /\ Drained /\ mode \in {"run", "poll"} /\ timers = <<>>
      /\ mode' \in {"main", "aborted"}
      /\ mode' = "main" => ioWaiters = <<>>
      /\ UNCHANGED <<fstate, queue, current, timers, ioWaiters, clockMs, readable>>
  BY DEF RunEnds, PollEnds, queueVars, timeVars, fdVars
<1>2. Line' = Line /\ Running' = Running /\ UNCHANGED Coop!waits
  BY <1>1, NobodyMoves
<1>3. CASE mode' = "main"
  <2>1. Line = <<>> /\ Running = Null
    BY <1>1, HeadOfLine DEF Drained, InLoop, Line, Running, RInv
  <2>2. Agenda(timers) = <<>>
    <3>1. Agenda(timers) \in Seq(AnyTimer) /\ Len(Agenda(timers)) = 0
      <4>1. timers \in Seq(AnyTimer)
        BY DEF RInv, SInv, Shape
      <4>2. Len(Agenda(timers)) = Len(timers) /\ Agenda(timers) \in Seq(AnyTimer)
        BY <4>1, AgendaFacts DEF RInv, Sortable
      <4>. QED BY <1>1, <4>2
    <3>. QED BY <3>1, EmptySeq
  <2>3. Entries(ioWaiters) = {}
    BY <1>1, <1>3 DEF Entries
  <2>4. Coop!Return
    BY <1>1, <1>2, <1>3, <2>1, <2>2, <2>3 DEF Coop!Return
  <2>. QED BY <1>1, <2>4 DEF Coop!CoopNext
<1>4. CASE mode' = "aborted"
  <2>1. Coop!Crash
    BY <1>1, <1>2, <1>4 DEF Coop!Crash
  <2>. QED BY <2>1 DEF Coop!CoopNext
<1>. QED BY <1>1, <1>3, <1>4

\* Nobody is on the agenda of an empty list.
LEMMA NoAgenda ==
  ASSUME RInv, timers = <<>>
  PROVE  Agenda(timers) = <<>>
<1>1. timers \in Seq(AnyTimer) /\ Len(timers) = 0
  BY EmptySeq DEF RInv, SInv, Shape
<1>2. Len(Agenda(timers)) = Len(timers) /\ Agenda(timers) \in Seq(AnyTimer)
  BY <1>1, AgendaFacts DEF RInv, Sortable
<1>. QED BY <1>1, <1>2, EmptySeq

\* The first entry goes.
LEMMA WithoutFirst ==
  ASSUME NEW T, NEW s \in Seq(T), s # <<>>
  PROVE  Without(s, 1) = Tail(s)
<1>1. /\ Len(s) \in Nat \ {0} /\ DOMAIN s = 1 .. Len(s)
      /\ Tail(s) \in Seq(T) /\ Len(Tail(s)) = Len(s) - 1
      /\ \A i \in 1 .. Len(Tail(s)) : Tail(s)[i] = s[i + 1]
  BY EmptySeq, LenProperties, HeadTailProperties
<1>2. 1 \in DOMAIN s
  BY <1>1
<1>3. /\ Without(s, 1) \in Seq(T) /\ Len(Without(s, 1)) = Len(s) - 1
      /\ \A i \in 1 .. Len(s) - 1 : Without(s, 1)[i] = s[i + 1]
  <2>1. \A i \in 1 .. Len(s) - 1 : Without(s, 1)[i] = IF i < 1 THEN s[i] ELSE s[i + 1]
    BY <1>2, WithoutFacts
  <2>2. \A i \in 1 .. Len(s) - 1 : ~(i < 1)
    BY <1>1
  <2>. QED BY <1>2, <2>1, <2>2, WithoutFacts
<1>4. Len(Without(s, 1)) = Len(Tail(s))
      /\ \A i \in 1 .. Len(Without(s, 1)) : Without(s, 1)[i] = Tail(s)[i]
  BY <1>1, <1>3
<1>. QED BY <1>1, <1>3, <1>4, SeqEqual

\* The earliest timer is the head of the agenda, and its fiber the only one in line.
LEMMA FireTimerMaps == RInv /\ FireTimer => Coop!CoopNext
<1>. SUFFICES ASSUME RInv, FireTimer PROVE Coop!CoopNext
  OBVIOUS
<1>1. PICK i \in DOMAIN timers :
        /\ EarliestTimer(i) /\ clockMs' = timers[i].deadlineMs
        /\ Wake(timers[i].fiber, Without(timers, i), ioWaiters, kernel)
  BY DEF FireTimer
<1>. DEFINE f == timers[i].fiber
<1>2. /\ mode \in {"run", "poll"} /\ current = Null /\ readyHead = Null
      /\ mode' \in {"run", "poll", "main"} /\ UNCHANGED <<current, readable>>
  BY DEF FireTimer, Drained, InLoop
<1>3. /\ timers \in Seq(AnyTimer) /\ ioWaiters \in Seq(IoWaiter)
      /\ fstate \in [Fiber -> FiberState]
      /\ f \in Fiber /\ fstate[f] = "suspended"
      /\ \A j, k \in DOMAIN timers : timers[j].fiber = timers[k].fiber => j = k
      /\ ~Holds(ioWaiters, f)
  BY TimerList DEF RInv, SInv, Shape, WakeSourcesParked, SourcesParked, Holds
<1>4. queue = <<>> /\ Line = <<>> /\ Running = Null
  BY <1>2, HeadOfLine DEF RInv, Line, Running
<1>5. /\ Evict(timers, f) = Without(timers, i)
      /\ Evict(Without(timers, i), f) = Without(timers, i)
  BY <1>3, WithoutEntries DEF Evict
<1>. HIDE DEF f
<1>6. /\ timers' = Without(timers, i) /\ ioWaiters' = ioWaiters
      /\ fstate' = [fstate EXCEPT ![f] = "ready"] /\ queue' = <<f>>
  <2>1. /\ timers' = Evict(Without(timers, i), f) /\ ioWaiters' = Evict(ioWaiters, f)
        /\ fstate' = [fstate EXCEPT ![f] = "ready"] /\ queue' = Append(queue, f)
    BY <1>1, <1>3 DEF Wake, Enqueue, f
  <2>2. Evict(ioWaiters, f) = ioWaiters
    BY <1>3 DEF Evict
  <2>. QED BY <1>4, <1>5, <2>1, <2>2
<1>7. Line' = <<f>> /\ Running' = Running
  BY <1>2, <1>6 DEF Line, Running
<1>8. Parked' = Parked
  <2>1. Suspended' = Suspended \ {f}
    BY <1>3, <1>6 DEF Suspended
  <2>2. \A g : Holds(timers', g) <=> Holds(timers, g) /\ g # f
    BY <1>3, <1>5, <1>6, EvictHolds
  <2>3. Holds(timers, f)
    BY DEF Holds, f
  <2>4. \A g : g \in Parked' <=> g \in Suspended' /\ ~Holds(timers', g) /\ ~Holds(ioWaiters, g)
    BY <1>6 DEF Parked, Holds
  <2>5. \A g : g \in Parked <=> g \in Suspended /\ ~Holds(timers, g) /\ ~Holds(ioWaiters, g)
    BY DEF Parked
  <2>6. \A g : g \in Parked' <=> g \in Parked
    BY <2>1, <2>2, <2>3, <2>4, <2>5
  <2>. QED BY <2>6
<1>9. /\ Agenda(timers) # <<>> /\ Head(Agenda(timers)) = timers[i]
      /\ Agenda(timers)' = Tail(Agenda(timers))
  <2>. DEFINE s == Agenda(timers)
  <2>1. PICK p \in [DOMAIN timers -> DOMAIN timers] : FiringOrder(timers, p)
    BY DEF RInv, Sortable
  <2>2. 1 \in DOMAIN timers /\ p[1] = i
    BY <1>1, <1>3, <2>1, EarliestIsHead DEF EarliestTimer
  <2>3. /\ s \in Seq(AnyTimer) /\ DOMAIN s = DOMAIN timers
        /\ s = [n \in DOMAIN timers |-> timers[p[n]]]
    BY <1>3, <2>1, AgendaFacts
  <2>4. s[1] = timers[i]
    BY <2>2, <2>3
  <2>5. Agenda(Without(timers, i)) = Without(s, 1)
    BY <1>3, <2>1, <2>2, AgendaWithout
  <2>6. s' = Agenda(Without(timers, i))
    BY <1>6
  <2>. HIDE DEF s
  <2>7. s # <<>> /\ Head(s) = s[1]
    BY <2>2, <2>3, HeadTailProperties, EmptySeq, LenProperties
  <2>8. Without(s, 1) = Tail(s)
    BY <2>3, <2>7, WithoutFirst
  <2>9. s # <<>> /\ Head(s) = timers[i] /\ s' = Tail(s)
    BY <2>4, <2>5, <2>6, <2>7, <2>8
  <2>. QED BY <2>9 DEF s
<1>10. Entries(ioWaiters)' = Entries(ioWaiters)
  BY <1>6
<1>11. Coop!WakeSleeper
  BY <1>1, <1>2, <1>4, <1>7, <1>8, <1>9, <1>10 DEF Coop!WakeSleeper, f
<1>. QED BY <1>2, <1>11 DEF Coop!CoopNext

\* A report wakes the one reader of its fd; a stale one wakes nobody.
LEMMA HandleEventMaps == RInv /\ HandleEvent => Coop!CoopNext \/ UNCHANGED Coop!coopVars
<1>. SUFFICES ASSUME RInv, HandleEvent PROVE Coop!CoopNext \/ UNCHANGED Coop!coopVars
  OBVIOUS
<1>1. /\ evbuf # <<>> /\ current = Null /\ mode = "run" /\ timers = <<>>
      /\ UNCHANGED <<current, clockMs, readable, mode>>
  BY DEF HandleEvent, RInv, Batched, SInv, OneThread
<1>2. Head(evbuf) \in readable
  <2>1. evbuf \in Seq(Fd)
    BY DEF RInv, SInv, Shape
  <2>2. Head(evbuf) = evbuf[1] /\ 1 \in DOMAIN evbuf
    BY <1>1, <2>1, HeadTailProperties, EmptySeq, LenProperties
  <2>. QED BY <1>1, <2>2 DEF RInv, Batched
<1>3. CASE UNCHANGED <<fstate, queueVars, timers, ioWaiters>>
  <2>1. UNCHANGED <<fstate, queue, current, timers, ioWaiters>>
    BY <1>1, <1>3 DEF queueVars
  <2>. QED BY <1>1, <2>1, NobodyMoves DEF Coop!coopVars
<1>4. CASE \E i \in DOMAIN ioWaiters : \E k :
             /\ ioWaiters[i].fd = Head(evbuf)
             /\ Wake(ioWaiters[i].fiber, timers, Without(ioWaiters, i), k)
  <2>0. PICK i \in DOMAIN ioWaiters :
          /\ ioWaiters[i].fd = Head(evbuf)
          /\ \E k : Wake(ioWaiters[i].fiber, timers, Without(ioWaiters, i), k)
    BY <1>4
  <2>1. PICK k : /\ ioWaiters[i].fd = Head(evbuf)
                 /\ Wake(ioWaiters[i].fiber, timers, Without(ioWaiters, i), k)
    BY <2>0
  <2>. DEFINE f == ioWaiters[i].fiber
              r == ioWaiters[i]
  <2>2. /\ timers \in Seq(AnyTimer) /\ ioWaiters \in Seq(IoWaiter)
        /\ fstate \in [Fiber -> FiberState]
        /\ \A j \in DOMAIN ioWaiters : ioWaiters[j] \in IoWaiter
        /\ fstate[f] = "suspended"
        /\ \A j, l \in DOMAIN ioWaiters : ioWaiters[j].fiber = ioWaiters[l].fiber => j = l
        /\ ~Holds(timers, f)
    BY <1>1, ElementOfSeq, LenProperties
       DEF RInv, SInv, Shape, WakeSourcesParked, SourcesParked, Holds
  <2>3. f \in Fiber
    BY <2>2 DEF IoWaiter
  <2>4. /\ Evict(ioWaiters, f) = Without(ioWaiters, i)
        /\ Evict(Without(ioWaiters, i), f) = Without(ioWaiters, i)
        /\ \A x : x \in Entries(Without(ioWaiters, i)) <=> x \in Entries(ioWaiters) /\ x # r
    BY <2>2, WithoutEntries DEF Evict
  <2>5. Holds(ioWaiters, f) /\ r \in Entries(ioWaiters) /\ r.fd = Head(evbuf) /\ r.fiber = f
    BY <2>1 DEF Holds, Entries
  <2>. HIDE DEF f, r
  <2>6. /\ timers' = timers /\ ioWaiters' = Without(ioWaiters, i)
        /\ fstate' = [fstate EXCEPT ![f] = "ready"] /\ queue' = Append(queue, f)
    <3>1. /\ timers' = Evict(timers, f)
          /\ ioWaiters' = Evict(Without(ioWaiters, i), f)
          /\ fstate' = [fstate EXCEPT ![f] = "ready"] /\ queue' = Append(queue, f)
      BY <2>1, <2>2 DEF Wake, Enqueue, f
    <3>2. Evict(timers, f) = timers
      BY <2>2 DEF Evict
    <3>. QED BY <2>4, <3>1, <3>2
  <2>7. Line' = Append(Line, f) /\ Running' = Running /\ Running = Null
    BY <1>1, <2>6 DEF Line, Running
  <2>8. Parked' = Parked
    <3>1. Suspended' = Suspended \ {f}
      BY <2>2, <2>3, <2>6 DEF Suspended
    <3>2. \A g : Holds(ioWaiters', g) <=> Holds(ioWaiters, g) /\ g # f
      BY <2>2, <2>4, <2>6, EvictHolds
    <3>3. \A g : g \in Parked' <=> g \in Suspended' /\ ~Holds(timers, g) /\ ~Holds(ioWaiters', g)
      BY <2>6 DEF Parked, Holds
    <3>4. \A g : g \in Parked <=> g \in Suspended /\ ~Holds(timers, g) /\ ~Holds(ioWaiters, g)
      BY DEF Parked
    <3>5. \A g : g \in Parked' <=> g \in Parked
      BY <2>5, <3>1, <3>2, <3>3, <3>4
    <3>. QED BY <3>5
  <2>9. Entries(ioWaiters)' = Entries(ioWaiters) \ {r}
    <3>1. \A x : x \in Entries(ioWaiters') <=> x \in Entries(ioWaiters) /\ x # r
      BY <2>4, <2>6
    <3>. QED BY <3>1
  <2>10. Agenda(timers)' = Agenda(timers) /\ Agenda(timers) = <<>>
    BY <1>1, <2>6, NoAgenda
  <2>11. Coop!WakeReader
    BY <1>1, <1>2, <2>5, <2>7, <2>8, <2>9, <2>10 DEF Coop!WakeReader
  <2>. QED BY <1>1, <2>11 DEF Coop!CoopNext
<1>. QED BY <1>3, <1>4 DEF HandleEvent

LEMMA DeinitReapMaps == RInv /\ DeinitReap => Coop!CoopNext
<1>. SUFFICES ASSUME RInv, DeinitReap PROVE Coop!CoopNext
  OBVIOUS
<1>1. /\ mode \in {"main", "deinit"} /\ mode' = "deinit" /\ readyHead # Null
      /\ fstate' = [fstate EXCEPT ![readyHead] = "free"]
      /\ queue' = Tail(queue)
      /\ UNCHANGED <<current, timers, clockMs, ioWaiters, readable>>
  BY DEF DeinitReap, Dequeue, timeVars, fdVars
<1>2. /\ queue # <<>> /\ readyHead \in Fiber /\ fstate[readyHead] = "ready"
      /\ fstate \in [Fiber -> FiberState] /\ current = Null
  BY <1>1, HeadOfLine DEF RInv, SInv, Shape, OneThread
<1>3. Line = queue /\ Line' = queue' /\ Running' = Running
  BY <1>1, <1>2 DEF Line, Running
<1>4. Suspended' = Suspended
  BY <1>1, <1>2 DEF Suspended
<1>5. Parked' = Parked
  BY <1>1, <1>4 DEF Parked, Holds
<1>6. Agenda(timers)' = Agenda(timers) /\ Entries(ioWaiters)' = Entries(ioWaiters)
  BY <1>1
<1>7. Coop!Discard
  BY <1>1, <1>2, <1>3, <1>5, <1>6 DEF Coop!Discard, Coop!waits
<1>. QED BY <1>7 DEF Coop!CoopNext

\* The lists that are dropped held everyone who was still parked, or nobody did.
LEMMA DeinitListsMaps == RInv /\ RInv' /\ DeinitLists => Coop!CoopNext
<1>. SUFFICES ASSUME RInv, RInv', DeinitLists PROVE Coop!CoopNext
  OBVIOUS
<1>1. /\ mode \in {"main", "deinit"} /\ mode' = "dead" /\ readyHead = Null
      /\ timers' = <<>> /\ ioWaiters' = <<>>
      /\ UNCHANGED <<fstate, queue, current, clockMs, readable>>
  BY DEF DeinitLists, queueVars
<1>2. queue = <<>> /\ current = Null
  BY <1>1, HeadOfLine DEF RInv, SInv, OneThread
<1>3. Line = <<>> /\ Line' = <<>> /\ Running' = Running
  BY <1>1, <1>2 DEF Line, Running
<1>4. Agenda(timers)' = <<>>
  <2>1. timers' \in Seq(AnyTimer) /\ Len(timers') = 0
    BY <1>1, EmptySeq
  <2>2. Len(Agenda(timers')) = Len(timers') /\ Agenda(timers') \in Seq(AnyTimer)
    BY <2>1, AgendaFacts DEF RInv, Sortable
  <2>3. Agenda(timers') = <<>>
    BY <2>1, <2>2, EmptySeq
  <2>. QED BY <2>3
<1>5. Entries(ioWaiters)' = {}
  BY <1>1 DEF Entries
<1>6. Parked' = {f \in Fiber : Coop!Waiting(f)}
  <2>1. \A f : f \in Parked' <=> f \in Suspended
    BY <1>1 DEF Parked, Suspended, Holds
  <2>2. ASSUME NEW f \in Fiber
        PROVE  f \in Suspended <=> Coop!Waiting(f)
    <3>1. timers \in Seq(AnyTimer)
      BY DEF RInv, SInv, Shape
    <3>2. Coop!Asleep(f) <=> Holds(timers, f)
      BY <3>1, AgendaEvict DEF RInv, Coop!Asleep
    <3>3. (\E r \in Entries(ioWaiters) : r.fiber = f) <=> Holds(ioWaiters, f)
      BY DEF Entries, Holds
    <3>4. Holds(timers, f) \/ Holds(ioWaiters, f) => f \in Suspended
      BY DEF RInv, SInv, WakeSourcesParked, SourcesParked, Holds, Suspended
    <3>5. f \in Parked <=> f \in Suspended /\ ~Holds(timers, f) /\ ~Holds(ioWaiters, f)
      BY DEF Parked
    <3>. QED BY <3>2, <3>3, <3>4, <3>5 DEF Coop!Waiting
  <2>3. Suspended \subseteq Fiber
    BY DEF Suspended
  <2>4. \A f : f \in Parked' <=> f \in Fiber /\ Coop!Waiting(f)
    BY <2>1, <2>2, <2>3
  <2>. QED BY <2>4
<1>7. Coop!Close
  BY <1>1, <1>3, <1>4, <1>5, <1>6 DEF Coop!Close
<1>. QED BY <1>7 DEF Coop!CoopNext

-----------------------------------------------------------------------------
(* The timers stay sortable, and a batch is handled with nobody asleep.    *)

LEMMA NextSortable == RInv /\ [Next]_vars => Sortable(timers)'
<1>. SUFFICES ASSUME RInv, [Next]_vars PROVE Sortable(timers')
  OBVIOUS
<1>1. timers \in Seq(AnyTimer) /\ Sortable(timers)
  BY DEF RInv, SInv, Shape
<1>2. \A f : Sortable(Evict(timers, f))
  BY <1>1, AgendaEvict
<1>3. ASSUME NEW f, NEW ws, NEW k, Wake(f, timers, ws, k)
      PROVE  Sortable(timers')
  BY <1>1, <1>2, <1>3 DEF Wake
<1>4. CASE timers' = timers
  BY <1>1, <1>4
<1>5. CASE WakeCall \/ HandleEvent
  <2>1. \/ timers' = timers
        \/ \E f, ws, k : Wake(f, timers, ws, k)
    BY <1>5, Zenon DEF WakeCall, HandleEvent
  <2>. QED BY <1>3, <1>4, <2>1
<1>6. CASE FireTimer
  <2>1. PICK i \in DOMAIN timers :
          Wake(timers[i].fiber, Without(timers, i), ioWaiters, kernel)
    BY <1>6 DEF FireTimer
  <2>2. PICK p \in [DOMAIN timers -> DOMAIN timers] : FiringOrder(timers, p)
    BY <1>1 DEF Sortable
  <2>3. PICK b \in DOMAIN timers : p[b] = i
    BY <2>2 DEF FiringOrder
  <2>4. Sortable(Without(timers, i))
    BY <1>1, <2>2, <2>3, AgendaWithout
  <2>5. Sortable(Evict(Without(timers, i), timers[i].fiber))
    BY <1>1, <2>4, WithoutFacts, AgendaEvict
  <2>. QED BY <2>1, <2>4, <2>5 DEF Wake
<1>7. ASSUME NEW ms \in Ms, Sleep(ms)
      PROVE  Sortable(timers')
  <2>. DEFINE e == [deadlineMs |-> clockMs + ms, fiber |-> current]
  <2>1. current \in Fiber /\ clockMs + ms \in Int
    BY <1>7, FiberHasThread, TimeAssumption DEF Sleep, RInv, SInv, Shape
  <2>2. e \in AnyTimer
    BY <2>1 DEF AnyTimer
  <2>3. timers' = Append(timers, e)
    BY <1>7 DEF Sleep
  <2>4. PICK p \in [DOMAIN timers -> DOMAIN timers] : FiringOrder(timers, p)
    BY <1>1 DEF Sortable
  <2>. HIDE DEF e
  <2>5. Sortable(Append(timers, e))
    BY <1>1, <2>2, <2>4, AgendaAppend
  <2>. QED BY <2>3, <2>5
<1>8. CASE DeinitLists
  <2>1. timers' = <<>> /\ DOMAIN timers' = {}
    BY <1>8 DEF DeinitLists
  <2>2. <<>> \in [DOMAIN timers' -> DOMAIN timers']
    BY <2>1
  <2>3. FiringOrder(timers', <<>>)
    BY <2>1 DEF FiringOrder
  <2>. QED BY <2>2, <2>3 DEF Sortable
<1>9. \/ timers' = timers
      \/ WakeCall \/ HandleEvent \/ FireTimer \/ DeinitLists
      \/ \E ms \in Ms : Sleep(ms)
  BY DEF Next, Switches, Calls, Loop, YieldNow, SuspendSelf, BlockOnFd, BodyReturns,
         Spawn, Misuse, BlockOnFdAborts, ReadFd, Abort, Dispatch, SwitchedBack,
         WaitForFds, Blocked, RunEnds, PollEnds, StartLoop, DeinitReap, FdReadable,
         Stopped, vars, timeVars
<1>. QED BY <1>4, <1>5, <1>6, <1>7, <1>8, <1>9

LEMMA NextBatched == RInv /\ [Next]_vars => Batched'
<1>. SUFFICES ASSUME RInv, [Next]_vars PROVE Batched'
  OBVIOUS
<1>1. evbuf \in Seq(Fd) /\ timers \in Seq(AnyTimer)
  BY DEF RInv, SInv, Shape
<1>2. CASE WaitForFds
  <2>1. timers' = <<>> /\ readable' = readable
        /\ \E fds \in SUBSET readable : \E order \in [1 .. Cardinality(fds) -> fds] : evbuf' = order
    <3>1. timers' = <<>> /\ readable' = readable
      BY <1>2 DEF WaitForFds, timeVars
    <3>2. PICK fds \in SUBSET {fd \in readable : kernel[fd] = "armed"} :
            \E order \in [1 .. Cardinality(fds) -> fds] : evbuf' = order
      BY <1>2, Zenon DEF WaitForFds
    <3>3. fds \in SUBSET readable
      OBVIOUS
    <3>. QED BY <3>1, <3>2, <3>3
  <2>2. \A i \in DOMAIN evbuf' : evbuf'[i] \in readable
    BY <2>1
  <2>. QED BY <2>1, <2>2 DEF Batched
<1>3. CASE HandleEvent
  <2>1. evbuf # <<>> /\ evbuf' = Tail(evbuf) /\ readable' = readable /\ timers = <<>>
    BY <1>3 DEF HandleEvent, RInv, Batched
  <2>2. timers' = <<>>
    <3>1. \A f : Evict(timers, f) = <<>>
      BY <2>1 DEF Evict, Holds
    <3>2. \/ timers' = timers
          \/ \E f, ws, k : Wake(f, timers, ws, k)
      BY <1>3, Zenon DEF HandleEvent
    <3>. QED BY <2>1, <3>1, <3>2 DEF Wake
  <2>3. \A i \in DOMAIN evbuf' : evbuf'[i] \in readable
    <3>1. /\ DOMAIN evbuf = 1 .. Len(evbuf) /\ DOMAIN evbuf' = 1 .. Len(evbuf) - 1
          /\ \A i \in 1 .. Len(evbuf) - 1 : evbuf'[i] = evbuf[i + 1]
          /\ Len(evbuf) \in Nat
      BY <1>1, <2>1, HeadTailProperties, LenProperties
    <3>2. \A i \in 1 .. Len(evbuf) - 1 : i + 1 \in 1 .. Len(evbuf)
      BY <3>1
    <3>. QED BY <2>1, <3>1, <3>2 DEF RInv, Batched
  <2>. QED BY <2>1, <2>2, <2>3 DEF Batched
<1>4. CASE evbuf = <<>> /\ evbuf' = <<>>
  BY <1>4 DEF Batched
<1>5. CASE evbuf' = evbuf /\ evbuf # <<>>
  <2>1. current = Null /\ mode = "run" /\ ~InFiber /\ ~InLoop
    BY <1>5 DEF RInv, SInv, OneThread, InFiber, InLoop
  <2>2. \/ HandleEvent
        \/ timers' = timers /\ readable \subseteq readable'
    BY <2>1 DEF Next, Switches, Calls, Loop, YieldNow, SuspendSelf, Sleep, BlockOnFd,
         BodyReturns, Spawn, WakeCall, Misuse, BlockOnFdAborts, ReadFd, Dispatch,
         SwitchedBack, Drained, FireTimer, WaitForFds, Blocked, RunEnds, PollEnds,
         StartLoop, DeinitReap, DeinitLists, FdReadable, Stopped, vars, timeVars, fdVars
  <2>. QED BY <1>3, <1>5, <2>2 DEF RInv, Batched
<1>6. WaitForFds \/ HandleEvent \/ evbuf' = evbuf
  BY DEF Next, Switches, Calls, Loop, YieldNow, SuspendSelf, Sleep, BlockOnFd,
         BodyReturns, Spawn, WakeCall, Misuse, BlockOnFdAborts, ReadFd, Abort,
         Dispatch, SwitchedBack, FireTimer, Blocked, RunEnds, PollEnds,
         StartLoop, DeinitReap, DeinitLists, FdReadable, Stopped, vars, fdVars
<1>. QED BY <1>2, <1>3, <1>4, <1>5, <1>6

LEMMA NextRInv == RInv /\ [Next]_vars => RInv'
BY NextSInv, NextSortable, NextBatched DEF RInv

LEMMA InitRInv == Init => RInv
<1>. SUFFICES ASSUME Init PROVE RInv
  OBVIOUS
<1>1. SInv
  BY InitSInv
<1>2. timers = <<>> /\ evbuf = <<>> /\ DOMAIN timers = {}
  BY DEF Init
<1>3. <<>> \in [DOMAIN timers -> DOMAIN timers] /\ FiringOrder(timers, <<>>)
  BY <1>2 DEF FiringOrder
<1>. QED BY <1>1, <1>2, <1>3 DEF RInv, Sortable, Batched

LEMMA InitMaps == Init => Coop!CoopInit
<1>. SUFFICES ASSUME Init PROVE Coop!CoopInit
  OBVIOUS
<1>1. Line = <<>> /\ Running = Null
  BY DEF Init, Line, Running
<1>2. Agenda(timers) = <<>>
  BY InitRInv, NoAgenda DEF Init
<1>3. Entries(ioWaiters) = {} /\ Parked = {}
  BY DEF Init, Entries, Parked, Suspended
<1>. QED BY <1>1, <1>2, <1>3 DEF Init, Coop!CoopInit

LEMMA StepMaps == RInv /\ RInv' /\ [Next]_vars => [Coop!CoopNext]_(Coop!coopVars)
<1>. SUFFICES ASSUME RInv, RInv', [Next]_vars
              PROVE  Coop!CoopNext \/ UNCHANGED Coop!coopVars
  OBVIOUS
<1>1. CASE Switches
  BY <1>1, PlainSwitchMaps, SleepMaps, BlockOnFdMaps DEF Switches
<1>2. CASE Calls
  BY <1>2, SpawnMaps, WakeCallMaps, OutsideMaps DEF Calls
<1>3. CASE Loop
  BY <1>3, DispatchMaps, SwitchedBackMaps, FireTimerMaps, WaitMaps, HandleEventMaps,
     EndsMap DEF Loop
<1>4. CASE \/ StartLoop("run") \/ StartLoop("poll")
           \/ \E fd \in Fd : FdReadable(fd)
  BY <1>4, OutsideMaps
<1>5. CASE DeinitReap \/ DeinitLists
  BY <1>5, DeinitReapMaps, DeinitListsMaps
<1>6. CASE Stopped \/ UNCHANGED vars
  BY <1>6, WaitMaps
<1>. QED BY <1>1, <1>2, <1>3, <1>4, <1>5, <1>6 DEF Next

\* The scheduler implements CoopSched: one line in order of readiness, virtual
\* time that jumps to the head of an agenda in wake order, one reader per fd, and
\* wakes that move a parked fiber exactly once.
THEOREM SchedIsCooperative == Spec => CoopSpec
<1>1. Spec => []RInv
  BY InitRInv, NextRInv, PTL DEF Spec
<1>2. Spec => Coop!CoopInit
  BY InitMaps, PTL DEF Spec
<1>. QED BY <1>1, <1>2, StepMaps, PTL DEF Spec, CoopSpec, Coop!CoopSpec
=============================================================================
