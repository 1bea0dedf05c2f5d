--------------------------- MODULE ThreadPoolProofs ---------------------------
(***************************************************************************)
(* The safety of the worker pool for every number of workers, capacity and *)
(* set of tasks, and its refinement of Executor.                           *)
(***************************************************************************)
EXTENDS ThreadPoolRefines, SequenceTheorems, FiniteSetTheorems, TLAPS

-----------------------------------------------------------------------------
(* The ring and the sets of workers.                                       *)

\* One turn around the ring at most.
LEMMA Wrap ==
  ASSUME Cap # 0
  PROVE  \A i \in 0 .. 2 * Cap - 1 : i % Cap = IF i < Cap THEN i ELSE i - Cap
BY CapAssumption

LEMMA NextSlot ==
  ASSUME Cap # 0, NEW h \in 0 .. Cap - 1, NEW n \in 0 .. Cap
  PROVE  (h + n) % Cap = IF h + n < Cap THEN h + n ELSE h + n - Cap
BY CapAssumption

LEMMA WorkersFinite ==
  \A S \in SUBSET Worker : IsFiniteSet(S) /\ Cardinality(S) \in Nat
<1>1. IsFiniteSet(Worker)
  BY WorkersAssumption, FS_Interval DEF Worker
<1>. QED BY <1>1, FS_Subset, FS_CardinalityType

LEMMA OneMore ==
  ASSUME NEW S \in SUBSET Worker, NEW w \in Worker, w \notin S
  PROVE  Cardinality(S \cup {w}) = Cardinality(S) + 1
BY WorkersFinite, FS_AddElement

LEMMA OneLess ==
  ASSUME NEW S \in SUBSET Worker, NEW w \in S
  PROVE  Cardinality(S \ {w}) = Cardinality(S) - 1
BY WorkersFinite, FS_RemoveElement

-----------------------------------------------------------------------------
(* The inductive invariant.  Handles relates what the owner is doing to    *)
(* the workers that exist, Threads what each thread holds.                 *)

Handles ==
  /\ \A w \in Worker : pc[w] = "none" <=> w > started
  /\ owner = "setup" => started < Workers /\ count = Workers
  /\ owner \in {"setup", "up"} => ~raised
  /\ ~raised /\ owner # "setup" => started = Workers
  /\ owner \in {"up", "stop", "join"} => count = started
  /\ joined <= count
  /\ \A w \in 1 .. joined : pc[w] = "exited"
  /\ owner = "join" => stop
  /\ stop => owner \in {"join", "gone"}

Threads ==
  /\ Cap # 0 => head < Cap
  /\ \A w \in Worker : running[w] # Null <=> pc[w] = "running"
  /\ mu # Null => IF mu = Owner THEN owner \in {"up", "stop"}
                                ELSE pc[mu] \in {"lock", "woken", "running"}
  /\ raised \/ owner = "setup" => /\ backlog = <<>>
                                  /\ \A w \in Worker : pc[w] # "running"

IInv ==
  /\ TypeOK /\ Handles /\ Threads
  /\ RingSpellsBacklog /\ NoLostWakeup /\ LeavesDrained /\ DeinitIsLast

LEMMA InitIInv == Init => IInv
<1>. SUFFICES ASSUME Init PROVE IInv
  OBVIOUS
<1>. USE WorkersAssumption, CapAssumption, NullAssumption, ThreadAssumption
<1>1. TypeOK
  <2>1. /\ started \in 0 .. Workers /\ joined \in 0 .. Workers
        /\ count \in 0 .. Workers
        /\ head \in Nat /\ len \in 0 .. Cap
    BY DEF Init
  <2>2. /\ pc \in [Worker -> {"none", "lock", "asleep", "woken", "running", "exited"}]
        /\ running \in [Worker -> Task \cup {Null}]
        /\ tasks \in [0 .. Cap - 1 -> Task \cup {Null}]
    BY DEF Init
  <2>3. backlog \in Seq(Task)
    BY EmptySeq DEF Init
  <2>. QED BY <2>1, <2>2, <2>3 DEF Init, TypeOK
<1>2. Handles /\ Threads
  BY DEF Init, Handles, Threads, Worker
<1>3. RingSpellsBacklog /\ LeavesDrained /\ DeinitIsLast
  BY DEF Init, RingSpellsBacklog, LeavesDrained, DeinitIsLast, Worker
<1>4. NoLostWakeup
  BY DEF Init, NoLostWakeup, Asleep
<1>. QED BY <1>1, <1>2, <1>3, <1>4 DEF IInv

-----------------------------------------------------------------------------
(* Each action keeps the types and what threads hold.                      *)

LEMMA NextType ==
  ASSUME IInv, Next
  PROVE  TypeOK'
<1>. USE WorkersAssumption, CapAssumption, NullAssumption, ThreadAssumption
         DEF IInv, TypeOK, Worker, Thread, ring
<1>1. CASE InitFails \/ StartFails
  BY <1>1 DEF InitFails, StartFails, Handles
<1>9. CASE StartWorker
  <2>1. started + 1 \in 0 .. Workers
    BY <1>9 DEF StartWorker, Handles
  <2>. QED BY <1>9, <2>1 DEF StartWorker
<1>2. ASSUME NEW t \in Thread, Acquire(t) PROVE TypeOK'
  BY <1>2 DEF Acquire
<1>3. ASSUME NEW t \in Thread, SubmitRefuses(t) PROVE TypeOK'
  BY <1>3 DEF SubmitRefuses
<1>4. ASSUME NEW t \in Thread, NEW x \in Task, SubmitAccepts(t, x) PROVE TypeOK'
  <2>1. backlog' \in Seq(Task)
    BY <1>4, AppendProperties DEF SubmitAccepts
  <2>2. pc' \in [Worker -> {"none", "lock", "asleep", "woken", "running", "exited"}]
    BY <1>4 DEF SubmitAccepts, Signal
  <2>3. tasks' \in [0 .. Cap - 1 -> Task \cup {Null}]
    BY <1>4 DEF SubmitAccepts
  <2>4. len' \in 0 .. Cap
    BY <1>4 DEF SubmitAccepts
  <2>. QED BY <1>4, <2>1, <2>2, <2>3, <2>4 DEF SubmitAccepts
<1>5. ASSUME NEW w \in Worker, Sleep(w) \/ Exit(w) \/ Finish(w) \/ SpuriousWake(w)
      PROVE  TypeOK'
  <2>1. CASE Sleep(w)
    BY <2>1 DEF Sleep
  <2>2. CASE Exit(w)
    BY <2>2 DEF Exit
  <2>3. CASE Finish(w)
    BY <2>3 DEF Finish
  <2>4. CASE SpuriousWake(w)
    BY <2>4 DEF SpuriousWake
  <2>. QED BY <1>5, <2>1, <2>2, <2>3, <2>4
<1>6. ASSUME NEW w \in Worker, Take(w) PROVE TypeOK'
  <2>1. Cap # 0 /\ head \in 0 .. Cap - 1
    BY <1>6 DEF Take, Threads
  <2>2. backlog' \in Seq(Task)
    BY <1>6, HeadTailProperties DEF Take, RingSpellsBacklog
  <2>3. head' \in Nat
    BY <1>6, <2>1, Wrap DEF Take
  <2>. QED BY <1>6, <2>1, <2>2, <2>3 DEF Take
<1>7. CASE CallDeinit \/ Join \/ Destroy \/ Gone
  <2>1. CASE CallDeinit
    BY <2>1 DEF CallDeinit
  <2>2. CASE Join
    BY <2>2 DEF Join
  <2>3. CASE Destroy
    BY <2>3 DEF Destroy
  <2>4. CASE Gone
    BY <2>4 DEF Gone, vars
  <2>. QED BY <1>7, <2>1, <2>2, <2>3, <2>4
<1>8. CASE Stop
  BY <1>8 DEF Stop, Broadcast
<1>. QED
  BY <1>1, <1>2, <1>3, <1>4, <1>5, <1>6, <1>7, <1>8, <1>9 DEF Next, Submit, PoolWorker

LEMMA NextHandles ==
  ASSUME IInv, Next
  PROVE  Handles'
<1>. USE WorkersAssumption, CapAssumption, NullAssumption, ThreadAssumption
         DEF IInv, TypeOK, Handles, Worker, Thread, ring
<1>1. CASE InitFails \/ StartFails
  BY <1>1 DEF InitFails, StartFails
<1>7. CASE StartWorker
  <2>1. /\ started < Workers /\ started' = started + 1 /\ ~raised
        /\ pc' = [pc EXCEPT ![started + 1] = "lock"]
        /\ owner' = IF started + 1 = Workers THEN "up" ELSE "setup"
        /\ UNCHANGED <<joined, raised, stop, count>>
        /\ ~stop
    BY <1>7 DEF StartWorker
  <2>2. \A w \in Worker : pc'[w] = "none" <=> w > started'
    BY <2>1
  <2>3. \A w \in 1 .. joined : pc'[w] = "exited"
    BY <2>1
  <2>4. count = Workers
    BY <1>7 DEF StartWorker
  <2>. QED BY <2>1, <2>2, <2>3, <2>4
<1>2. ASSUME NEW t \in Thread, Acquire(t) \/ SubmitRefuses(t) PROVE Handles'
  BY <1>2 DEF Acquire, SubmitRefuses
<1>3. ASSUME NEW t \in Thread, NEW x \in Task, SubmitAccepts(t, x) PROVE Handles'
  BY <1>3 DEF SubmitAccepts, Signal, Asleep
<1>4. ASSUME NEW w \in Worker, PoolWorker(w) \/ Finish(w) \/ SpuriousWake(w)
      PROVE  Handles'
  <2>1. CASE Sleep(w)
    BY <2>1 DEF Sleep
  <2>2. CASE Exit(w)
    BY <2>2 DEF Exit
  <2>3. CASE Take(w)
    BY <2>3 DEF Take
  <2>4. CASE Finish(w)
    BY <2>4 DEF Finish
  <2>5. CASE SpuriousWake(w)
    BY <2>5 DEF SpuriousWake
  <2>. QED BY <1>4, <2>1, <2>2, <2>3, <2>4, <2>5 DEF PoolWorker
<1>5. CASE CallDeinit \/ Join \/ Destroy \/ Gone
  <2>1. CASE CallDeinit
    BY <2>1 DEF CallDeinit
  <2>2. CASE Join
    BY <2>2 DEF Join
  <2>3. CASE Destroy
    BY <2>3 DEF Destroy
  <2>4. CASE Gone
    BY <2>4 DEF Gone, vars
  <2>. QED BY <1>5, <2>1, <2>2, <2>3, <2>4
<1>6. CASE Stop
  BY <1>6 DEF Stop, Broadcast, Asleep
<1>. QED
  BY <1>1, <1>2, <1>3, <1>4, <1>5, <1>6, <1>7 DEF Next, Submit

LEMMA NextThreads ==
  ASSUME IInv, Next
  PROVE  Threads'
<1>. USE WorkersAssumption, CapAssumption, NullAssumption, ThreadAssumption
         DEF IInv, TypeOK, Threads, Worker, Thread, ring
<1>1. CASE InitFails \/ StartWorker \/ StartFails
  <2>1. CASE InitFails
    BY <2>1 DEF InitFails, Handles
  <2>2. CASE StartWorker
    BY <2>2 DEF StartWorker, Handles
  <2>3. CASE StartFails
    BY <2>3 DEF StartFails, Handles
  <2>. QED BY <1>1, <2>1, <2>2, <2>3
<1>2. ASSUME NEW t \in Thread, Acquire(t) \/ SubmitRefuses(t) PROVE Threads'
  <2>1. CASE Acquire(t)
    BY <2>1 DEF Acquire
  <2>2. CASE SubmitRefuses(t)
    BY <2>2 DEF SubmitRefuses
  <2>. QED BY <1>2, <2>1, <2>2
<1>3. ASSUME NEW t \in Thread, NEW x \in Task, SubmitAccepts(t, x) PROVE Threads'
  <2>1. /\ mu = t /\ mu' = Null /\ MaySubmit(t) /\ ~stop
        /\ UNCHANGED <<owner, raised, running, head>>
    BY <1>3 DEF SubmitAccepts
  <2>2. \A v \in Worker : pc'[v] = pc[v] \/ (pc[v] = "asleep" /\ pc'[v] = "woken")
    BY <1>3 DEF SubmitAccepts, Signal, Asleep
  <2>3. \A v \in Worker : running'[v] # Null <=> pc'[v] = "running"
    BY <2>1, <2>2
  <2>4. ~raised /\ owner # "setup"
    BY <2>1 DEF MaySubmit, Handles
  <2>. QED BY <2>1, <2>3, <2>4
<1>4. ASSUME NEW w \in Worker, Sleep(w) \/ Exit(w) \/ Finish(w) \/ SpuriousWake(w)
      PROVE  Threads'
  <2>1. CASE Sleep(w)
    BY <2>1 DEF Sleep
  <2>2. CASE Exit(w)
    BY <2>2 DEF Exit
  <2>3. CASE Finish(w)
    BY <2>3 DEF Finish
  <2>4. CASE SpuriousWake(w)
    BY <2>4 DEF SpuriousWake
  <2>. QED BY <1>4, <2>1, <2>2, <2>3, <2>4
<1>5. ASSUME NEW w \in Worker, Take(w) PROVE Threads'
  <2>1. /\ Cap # 0 /\ head \in 0 .. Cap - 1
        /\ Len(backlog) # 0
    BY <1>5 DEF Take, RingSpellsBacklog
  <2>2. backlog # <<>> /\ ~raised /\ owner # "setup"
    BY <2>1, EmptySeq
  <2>3. head' < Cap
    BY <1>5, <2>1, Wrap DEF Take
  <2>4. tasks[head] \in Task
    <3>1. tasks[(head + 1 - 1) % Cap] = backlog[1] /\ 1 \in 1 .. Len(backlog)
      BY <2>1 DEF RingSpellsBacklog
    <3>2. (head + 1 - 1) % Cap = head
      <4>1. head + 1 - 1 = head /\ head \in 0 .. 2 * Cap - 1
        BY <2>1
      <4>. QED BY <2>1, <4>1, Wrap
    <3>. QED BY <3>1, <3>2, ElementOfSeq
  <2>5. /\ running' = [running EXCEPT ![w] = tasks[head]]
        /\ pc' = [pc EXCEPT ![w] = "running"]
        /\ mu' = Null
        /\ UNCHANGED <<owner, raised>>
    BY <1>5 DEF Take
  <2>6. \A v \in Worker : running'[v] # Null <=> pc'[v] = "running"
    BY <2>4, <2>5
  <2>. QED BY <2>2, <2>3, <2>5, <2>6
<1>6. CASE CallDeinit \/ Join \/ Destroy \/ Gone
  BY <1>6 DEF CallDeinit, Join, Destroy, Gone, vars
<1>7. CASE Stop
  BY <1>7 DEF Stop, Broadcast, Asleep
<1>. QED
  BY <1>1, <1>2, <1>3, <1>4, <1>5, <1>6, <1>7 DEF Next, Submit, PoolWorker

\* The slot submit fills is none of the occupied ones.
LEMMA NextRing ==
  ASSUME IInv, Next
  PROVE  RingSpellsBacklog'
<1>. USE CapAssumption DEF IInv, TypeOK, RingSpellsBacklog
<1>1. ASSUME NEW t \in Thread, NEW x \in Task, SubmitAccepts(t, x)
      PROVE  RingSpellsBacklog'
  <2>1. /\ Cap # 0 /\ head \in 0 .. Cap - 1 /\ len < Cap
    BY <1>1 DEF SubmitAccepts, Threads
  <2>2. /\ tasks' = [tasks EXCEPT ![Slot] = x]
        /\ head' = head /\ len' = len + 1
        /\ backlog' = Append(backlog, x)
    BY <1>1 DEF SubmitAccepts
  <2>3. /\ Len(backlog') = len'
        /\ \A i \in 1 .. len : backlog'[i] = backlog[i]
        /\ backlog'[len'] = x
    BY <2>2, AppendProperties, LenProperties
  <2>4. Slot \in 0 .. Cap - 1
    BY <2>1, Wrap DEF Slot
  <2>5. ASSUME NEW i \in 1 .. len PROVE (head + i - 1) % Cap # Slot
    <3>. DEFINE j == head + i - 1
    <3>1. /\ j \in 0 .. 2 * Cap - 1 /\ head + len \in 0 .. 2 * Cap - 1
          /\ j < head + len /\ head + len - j <= len
      BY <2>1
    <3>2. Slot = IF head + len < Cap THEN head + len ELSE head + len - Cap
      <4>1. len \in 0 .. Cap
        BY <2>1
      <4>. QED BY <2>1, <4>1, NextSlot DEF Slot
    <3>. HIDE DEF j
    <3>4. j % Cap = IF j < Cap THEN j ELSE j - Cap
      BY <2>1, <3>1, Wrap
    <3>3. j % Cap # Slot
      BY <2>1, <3>1, <3>2, <3>4
    <3>. QED BY <3>3 DEF j
  <2>6. ASSUME NEW i \in 1 .. len PROVE (head + i - 1) % Cap \in 0 .. Cap - 1
    BY <2>1
  <2>7. \A i \in 1 .. len : tasks'[(head + i - 1) % Cap] = backlog'[i]
    BY <2>2, <2>3, <2>4, <2>5, <2>6
  <2>8. (head + len' - 1) % Cap = Slot
    BY <2>1, <2>2 DEF Slot
  <2>9. tasks'[Slot] = x
    BY <2>2, <2>4
  <2>10. ASSUME NEW i \in 1 .. len' PROVE tasks'[(head + i - 1) % Cap] = backlog'[i]
    <3>1. CASE i = len'
      BY <3>1, <2>3, <2>8, <2>9
    <3>2. CASE i # len'
      BY <3>2, <2>1, <2>2, <2>7
    <3>. QED BY <3>1, <3>2
  <2>. QED BY <2>2, <2>3, <2>10
<1>2. ASSUME NEW w \in Worker, Take(w) PROVE RingSpellsBacklog'
  <2>1. /\ Cap # 0 /\ head \in 0 .. Cap - 1
        /\ len \in 1 .. Cap
        /\ Len(backlog) = len /\ backlog # <<>>
    BY <1>2, EmptySeq DEF Take, Threads
  <2>2. /\ tasks' = tasks
        /\ head' = (head + 1) % Cap /\ len' = len - 1
        /\ backlog' = Tail(backlog)
    BY <1>2 DEF Take
  <2>3. /\ Len(backlog') = len'
        /\ \A i \in 1 .. len' : backlog'[i] = backlog[i + 1]
    BY <2>1, <2>2, HeadTailProperties
  <2>4. ASSUME NEW i \in 1 .. len' PROVE (head' + i - 1) % Cap = (head + i) % Cap
    <3>1. /\ head + 1 \in 0 .. 2 * Cap - 1
          /\ i \in 1 .. Cap - 1
      BY <2>1, <2>2
    <3>2. head' = IF head + 1 < Cap THEN head + 1 ELSE 0
      <4>1. 1 \in 0 .. Cap
        BY <2>1
      <4>2. (head + 1) % Cap = IF head + 1 < Cap THEN head + 1 ELSE head + 1 - Cap
        BY <2>1, <4>1, NextSlot
      <4>. QED BY <2>1, <2>2, <4>2
    <3>3. CASE head + 1 < Cap
      <4>1. head' + i - 1 = head + i
        BY <2>1, <3>1, <3>2, <3>3
      <4>. QED BY <4>1
    <3>4. CASE head + 1 = Cap
      <4>. DEFINE j == i - 1
      <4>1. head' + i - 1 = j /\ j \in 0 .. 2 * Cap - 1 /\ j < Cap
        BY <2>1, <3>1, <3>2, <3>4
      <4>2. head + i - Cap = j /\ ~(head + i < Cap) /\ i \in 1 .. Cap
        BY <2>1, <3>1, <3>4
      <4>3. (head + i) % Cap = j
        <5>1. i \in 0 .. Cap
          BY <4>2
        <5>2. (head + i) % Cap = IF head + i < Cap THEN head + i ELSE head + i - Cap
          BY <2>1, <5>1, NextSlot
        <5>. QED BY <4>2, <5>2
      <4>. HIDE DEF j
      <4>4. j % Cap = j
        BY <2>1, <4>1, Wrap
      <4>. QED BY <4>1, <4>3, <4>4
    <3>. QED BY <2>1, <3>3, <3>4
  <2>5. \A i \in 1 .. len' : tasks[(head + (i + 1) - 1) % Cap] = backlog[i + 1]
    BY <2>1, <2>2
  <2>6. \A i \in 1 .. len' : (head + (i + 1) - 1) % Cap = (head + i) % Cap
    BY <2>1, <2>2
  <2>. QED BY <2>2, <2>3, <2>4, <2>5, <2>6
<1>3. ASSUME ~\E w \in Worker : Take(w),
             ~\E t \in Thread, x \in Task : SubmitAccepts(t, x)
      PROVE  UNCHANGED ring
  BY <1>3 DEF Next, InitFails, StartWorker, StartFails, Acquire, Submit, SubmitRefuses,
              PoolWorker, Sleep, Exit, Finish, SpuriousWake, CallDeinit, Stop,
              Join, Destroy, Gone, vars, ring
<1>4. CASE UNCHANGED ring
  BY <1>4 DEF ring
<1>. QED BY <1>1, <1>2, <1>3, <1>4

\* Every submit wakes somebody while somebody sleeps; a worker sleeps only when
\* nothing is queued; every task taken takes one ready worker with it.
LEMMA NextWakeup ==
  ASSUME IInv, Next
  PROVE  NoLostWakeup'
<1>. USE DEF IInv, TypeOK
<1>. DEFINE N == Cardinality(Ready)
<1>1. /\ N \in Nat /\ Cardinality(Ready') \in Nat
      /\ Asleep \in SUBSET Worker /\ Ready \in SUBSET Worker
      /\ len \in Nat
  BY WorkersFinite, CapAssumption DEF Ready, Asleep
<1>2. CASE UNCHANGED <<pc, len, stop>>
  BY <1>2 DEF NoLostWakeup, Asleep, Ready
<1>3. ASSUME NEW w \in Worker, w \notin Ready, pc'[w] \in {"lock", "woken"},
             \A v \in Worker \ {w} : pc'[v] = pc[v],
             len' = len \/ (len' = len + 1 /\ (w \in Asleep \/ Asleep = {})),
             stop' = stop
      PROVE  NoLostWakeup'
  <2>1. Ready' = Ready \cup {w} /\ Asleep' \subseteq Asleep
    BY <1>3 DEF Ready, Asleep
  <2>2. Cardinality(Ready') = N + 1
    BY <1>1, <1>3, <2>1, OneMore
  <2>. QED BY <1>1, <1>3, <2>1, <2>2 DEF NoLostWakeup
<1>4. ASSUME NEW t \in Thread, NEW x \in Task, SubmitAccepts(t, x)
      PROVE  NoLostWakeup'
  <2>1. CASE Asleep = {}
    BY <1>4, <2>1 DEF SubmitAccepts, Signal, NoLostWakeup, Asleep
  <2>2. CASE Asleep # {}
    <3>1. PICK w \in Asleep : pc' = [pc EXCEPT ![w] = "woken"]
      BY <1>4, <2>2 DEF SubmitAccepts, Signal
    <3>2. w \in Worker /\ w \notin Ready
      BY <3>1 DEF Asleep, Ready
    <3>. QED BY <1>3, <1>4, <3>1, <3>2 DEF SubmitAccepts
  <2>. QED BY <2>1, <2>2
<1>5. CASE StartWorker
  <2>. DEFINE w == started + 1
  <2>1. w \in Worker /\ pc[w] = "none"
    BY <1>5, WorkersAssumption DEF StartWorker, Handles, Worker
  <2>. QED BY <1>3, <1>5, <2>1 DEF StartWorker, Ready, ring
<1>6. ASSUME NEW w \in Worker, Finish(w) \/ SpuriousWake(w) PROVE NoLostWakeup'
  BY <1>3, <1>6 DEF Finish, SpuriousWake, Ready, ring
<1>7. ASSUME NEW w \in Worker, Sleep(w) PROVE NoLostWakeup'
  BY <1>1, <1>7 DEF Sleep, NoLostWakeup, ring
<1>8. ASSUME NEW w \in Worker, Exit(w) PROVE NoLostWakeup'
  BY <1>8 DEF Exit, NoLostWakeup, Asleep
<1>9. ASSUME NEW w \in Worker, Take(w) PROVE NoLostWakeup'
  <2>1. w \in Ready /\ Ready' = Ready \ {w} /\ Asleep' = Asleep
    BY <1>9 DEF Take, Ready, Asleep
  <2>2. Cardinality(Ready') = N - 1
    BY <1>1, <2>1, OneLess
  <2>. QED BY <1>1, <1>9, <2>1, <2>2 DEF Take, NoLostWakeup
<1>10. CASE Stop
  BY <1>10 DEF Stop, Broadcast, NoLostWakeup, Asleep
<1>. QED
  BY <1>2, <1>4, <1>5, <1>6, <1>7, <1>8, <1>9, <1>10
     DEF Next, InitFails, StartFails, Acquire, Submit, SubmitRefuses,
         PoolWorker, CallDeinit, Join, Destroy, Gone, vars, ring

LEMMA NextLeaves ==
  ASSUME IInv, Next
  PROVE  LeavesDrained'
<1>. USE DEF IInv, TypeOK, LeavesDrained, ring
<1>1. CASE InitFails \/ StartWorker \/ StartFails
  BY <1>1 DEF InitFails, StartWorker, StartFails
<1>2. ASSUME NEW t \in Thread, Acquire(t) \/ Submit(t) PROVE LeavesDrained'
  BY <1>2 DEF Acquire, Submit, SubmitRefuses, SubmitAccepts, Signal, Asleep
<1>3. ASSUME NEW w \in Worker, PoolWorker(w) \/ Finish(w) \/ SpuriousWake(w)
      PROVE  LeavesDrained'
  BY <1>3 DEF PoolWorker, Sleep, Exit, Take, Finish, SpuriousWake
<1>4. CASE CallDeinit \/ Join \/ Destroy \/ Gone
  BY <1>4 DEF CallDeinit, Join, Destroy, Gone, vars
<1>5. CASE Stop
  BY <1>5 DEF Stop, Broadcast, Asleep
<1>. QED BY <1>1, <1>2, <1>3, <1>4, <1>5 DEF Next

\* deinit ends when every worker it started has exited, so with the last of
\* them the ring was empty.
LEMMA NextDeinit ==
  ASSUME IInv, Next
  PROVE  DeinitIsLast'
<1>. USE WorkersAssumption, ThreadAssumption DEF IInv, TypeOK, Worker, Thread, ring
<1>1. CASE InitFails
  BY <1>1 DEF InitFails, Handles, Threads, DeinitIsLast
<1>2. CASE Destroy
  <2>1. \A w \in Worker : pc[w] \in {"none", "exited"}
    BY <1>2 DEF Destroy, Handles
  <2>2. mu = Null
    BY <1>2, <2>1 DEF Destroy, Threads
  <2>3. backlog = <<>>
    <3>1. CASE raised
      BY <3>1 DEF Threads
    <3>2. CASE ~raised
      <4>1. 1 \in Worker /\ pc[1] = "exited"
        BY <1>2, <3>2, <2>1 DEF Destroy, Handles
      <4>2. Len(backlog) = 0
        BY <4>1 DEF LeavesDrained, RingSpellsBacklog
      <4>. QED BY <4>2, EmptySeq
    <3>. QED BY <3>1, <3>2
  <2>. QED BY <1>2, <2>1, <2>2, <2>3 DEF Destroy, DeinitIsLast
<1>3. CASE owner = "gone"
  BY <1>3 DEF DeinitIsLast, Next, InitFails, StartWorker, StartFails, Acquire, Submit,
              SubmitRefuses, SubmitAccepts, PoolWorker, Sleep, Exit, Take, Finish,
              SpuriousWake, CallDeinit, Stop, Join, Destroy, Gone, vars
<1>4. CASE owner # "gone" /\ ~InitFails /\ ~Destroy
  <2>1. owner' # "gone"
    BY <1>4 DEF Next, StartWorker, StartFails, Acquire, Submit,
                SubmitRefuses, SubmitAccepts, PoolWorker, Sleep, Exit, Take, Finish,
                SpuriousWake, CallDeinit, Stop, Join, Gone, vars
  <2>. QED BY <2>1 DEF DeinitIsLast
<1>. QED BY <1>1, <1>2, <1>3, <1>4

-----------------------------------------------------------------------------

\* The invariant holds of every behaviour of the pool.
THEOREM SpecIInv == Spec => []IInv
<1>1. IInv /\ [Next]_vars => IInv'
  <2>1. CASE Next
    BY <2>1, NextType, NextHandles, NextThreads, NextRing, NextWakeup, NextLeaves,
       NextDeinit DEF IInv
  <2>2. CASE UNCHANGED vars
    BY <2>2 DEF vars, ring, IInv, TypeOK, Handles, Threads, RingSpellsBacklog, NoLostWakeup,
                LeavesDrained, DeinitIsLast, Asleep, Ready
  <2>. QED BY <2>1, <2>2
<1>. QED BY <1>1, InitIInv, PTL DEF Spec

\* Every field of the pool keeps its type: never more than Cap tasks queued.
THEOREM TypeCorrect == Spec => []TypeOK
BY SpecIInv, PTL DEF IInv

\* The ring never overwrites, loses or repeats an accepted task.
THEOREM RingIsTheBacklog == Spec => []RingSpellsBacklog
BY SpecIInv, PTL DEF IInv

\* submit's one signal per task is enough, spurious wakeups included.
THEOREM NoWakeupIsLost == Spec => []NoLostWakeup
BY SpecIInv, PTL DEF IInv

\* A worker exits only from a stopping pool with nothing queued.
THEOREM WorkersLeaveLast == Spec => []LeavesDrained
BY SpecIInv, PTL DEF IInv

\* When deinit is through, or setup has raised, no thread is left that could
\* touch the freed pool and no accepted task was dropped.
THEOREM DeinitIsSafe == Spec => []DeinitIsLast
BY SpecIInv, PTL DEF IInv

-----------------------------------------------------------------------------
(* The refinement.                                                         *)

\* Read from slot h on, a ring that holds the tasks of b spells b.
LEMMA LineIsBacklog ==
  ASSUME NEW h, NEW t, NEW b \in Seq(Task),
         \A i \in 1 .. Len(b) : t[(h + i - 1) % Cap] = b[i]
  PROVE  [i \in 1 .. Len(b) |-> t[(h + i - 1) % Cap]] = b
<1>1. b = [i \in 1 .. Len(b) |-> b[i]]
  BY LenProperties
<1>. QED BY <1>1

\* Before it is open and after it is closed the pool holds no task.
LEMMA PhaseFacts ==
  ASSUME IInv
  PROVE  /\ Phase \in {"opening", "failed", "open", "closing", "closed"}
         /\ backlog # <<>> \/ (\E w \in Worker : pc[w] = "running")
              => Phase \in {"open", "closing"}
BY DEF IInv, TypeOK, Handles, Threads, DeinitIsLast, Phase

LEMMA InitRefines == Init => Promise!Init
<1>. SUFFICES ASSUME Init PROVE Promise!Init
  OBVIOUS
<1>1. Line = <<>>
  BY DEF Init, Line
<1>. QED BY <1>1 DEF Init, Promise!Init, Phase

\* submit is Accept, a worker taking a task is Start, its return is Return; the
\* last worker started opens the pool, the stop flag closes it, and the end of
\* deinit is Closed, or OpenFails when setup called it.
LEMMA NextRefines ==
  ASSUME IInv, Next, IInv'
  PROVE  Promise!Next \/ UNCHANGED <<Phase, Line, running>>
<1>1. Line = backlog
  BY LineIsBacklog DEF IInv, TypeOK, RingSpellsBacklog, Line
<1>2. Line' = backlog'
  BY LineIsBacklog DEF IInv, TypeOK, RingSpellsBacklog, Line
<1>. USE ThreadAssumption, NullAssumption DEF ring
<1>3. CASE InitFails
  <2>1. Phase = "opening" /\ Phase' = "failed"
    <3>1. owner = "setup" /\ raised = FALSE /\ owner' = "gone" /\ raised' = TRUE
      BY <1>3 DEF InitFails, IInv, TypeOK, Handles
    <3>. QED BY <3>1 DEF Phase
  <2>. QED BY <1>1, <1>2, <1>3, <2>1 DEF InitFails, Promise!Next, Promise!OpenFails
<1>4. CASE StartWorker
  <2>1. Phase = "opening" /\ Phase' \in {"opening", "open"}
    BY <1>4 DEF StartWorker, Phase, IInv, Handles
  <2>. QED BY <1>1, <1>2, <1>4, <2>1 DEF StartWorker, Promise!Next, Promise!Open
<1>5. CASE StartFails
  <2>1. Phase = "opening" /\ Phase' = "opening"
    BY <1>5 DEF StartFails, Phase
  <2>. QED BY <1>1, <1>2, <1>5, <2>1 DEF StartFails
<1>6. ASSUME NEW t \in Thread, NEW x \in Task, SubmitAccepts(t, x)
      PROVE  Promise!Next
  <2>1. Phase = "open"
    BY <1>6 DEF SubmitAccepts, MaySubmit, Phase, IInv, TypeOK, Handles, Threads,
                DeinitIsLast, Thread
  <2>2. Phase' = Phase
    BY <1>6 DEF SubmitAccepts, Phase
  <2>3. Len(backlog) < Cap
    BY <1>6, CapAssumption DEF SubmitAccepts, IInv, TypeOK, RingSpellsBacklog
  <2>4. Promise!Accept(x)
    BY <1>1, <1>2, <1>6, <2>1, <2>2, <2>3 DEF SubmitAccepts, Promise!Accept
  <2>. QED BY <2>4 DEF Promise!Next
<1>7. ASSUME NEW w \in Worker, Take(w)
      PROVE  Promise!Next
  <2>1. backlog # <<>> /\ Head(backlog) = tasks[head]
    <3>1. Len(backlog) # 0 /\ 1 \in 1 .. len /\ backlog \in Seq(Task)
      BY <1>7, CapAssumption DEF Take, IInv, TypeOK, RingSpellsBacklog
    <3>2. backlog # <<>> /\ Head(backlog) = backlog[1]
      BY <3>1, EmptySeq
    <3>3. tasks[(head + 1 - 1) % Cap] = backlog[1]
      BY <3>1 DEF IInv, RingSpellsBacklog
    <3>4. (head + 1 - 1) % Cap = head
      <4>1. /\ Cap # 0 /\ head \in 0 .. 2 * Cap - 1 /\ head < Cap
            /\ head + 1 - 1 = head
        BY <1>7, CapAssumption DEF Take, IInv, TypeOK, Threads
      <4>. QED BY <4>1, Wrap
    <3>. QED BY <3>2, <3>3, <3>4
  <2>2. Phase \in {"open", "closing"} /\ Phase' = Phase
    BY <1>7, <2>1, PhaseFacts DEF Take, Phase
  <2>3. running[w] = Null
    BY <1>7 DEF Take, IInv, Threads
  <2>4. Promise!Start(w)
    BY <1>1, <1>2, <1>7, <2>1, <2>2, <2>3 DEF Take, Promise!Start
  <2>. QED BY <2>4 DEF Promise!Next
<1>8. ASSUME NEW w \in Worker, Finish(w)
      PROVE  Promise!Next
  <2>1. running[w] # Null
    BY <1>8 DEF Finish, IInv, Threads
  <2>2. Promise!Return(w)
    BY <1>1, <1>2, <1>8, <2>1 DEF Finish, Promise!Return, Phase
  <2>. QED BY <2>2 DEF Promise!Next
<1>9. CASE Stop
  <2>1. \/ Phase = "opening" /\ Phase' = "opening"
        \/ Phase = "open" /\ Phase' = "closing"
    BY <1>9 DEF Stop, Phase, IInv, TypeOK
  <2>. QED BY <1>1, <1>2, <1>9, <2>1 DEF Stop, Promise!Next, Promise!Close
<1>10. CASE Destroy
  <2>1. \/ Phase = "opening" /\ Phase' = "failed"
        \/ Phase = "closing" /\ Phase' = "closed"
    <3>1. owner = "join" /\ owner' = "gone" /\ raised' = raised
      BY <1>10 DEF Destroy
    <3>2. CASE raised = TRUE
      BY <3>1, <3>2 DEF Phase
    <3>3. CASE raised = FALSE
      BY <3>1, <3>3 DEF Phase
    <3>. QED BY <3>2, <3>3 DEF IInv, TypeOK
  <2>2. backlog = <<>> /\ \A w \in Worker : running[w] = Null
    <3>1. backlog' = <<>> /\ \A w \in Worker : pc'[w] # "running"
      BY <1>10 DEF Destroy, IInv, DeinitIsLast
    <3>. QED BY <1>10, <3>1 DEF Destroy, IInv, Threads
  <2>. QED BY <1>1, <1>2, <1>10, <2>1, <2>2
           DEF Destroy, Promise!Next, Promise!OpenFails, Promise!Closed
<1>11. ASSUME NEW t \in Thread, Acquire(t) \/ SubmitRefuses(t)
       PROVE  UNCHANGED <<Phase, Line, running>>
  <2>1. UNCHANGED <<owner, raised, running, backlog>>
    BY <1>11 DEF Acquire, SubmitRefuses
  <2>. QED BY <1>1, <1>2, <2>1 DEF Phase
<1>12. ASSUME NEW w \in Worker, Sleep(w) \/ Exit(w) \/ SpuriousWake(w)
       PROVE  UNCHANGED <<Phase, Line, running>>
  <2>1. UNCHANGED <<owner, raised, running, backlog>>
    BY <1>12 DEF Sleep, Exit, SpuriousWake
  <2>. QED BY <1>1, <1>2, <2>1 DEF Phase
<1>13. CASE CallDeinit
  <2>1. Phase = "open" /\ Phase' = "open"
    BY <1>13 DEF CallDeinit, Phase, IInv, Handles
  <2>. QED BY <1>1, <1>2, <1>13, <2>1 DEF CallDeinit
<1>14. CASE Join \/ Gone
  BY <1>1, <1>2, <1>14 DEF Join, Gone, Phase, vars
<1>. QED
  BY <1>3, <1>4, <1>5, <1>6, <1>7, <1>8, <1>9, <1>10, <1>11, <1>12, <1>13, <1>14
     DEF Next, Submit, PoolWorker

\* The pool keeps the executor's promise: tasks start in the order submit took
\* them, once each, and deinit ends only when all of them have returned.
THEOREM PoolIsExecutor == Spec => PromiseKept
<1>1. IInv /\ IInv' /\ [Next]_vars => [Promise!Next]_<<Phase, Line, running>>
  <2>1. CASE UNCHANGED vars
    BY <2>1 DEF vars, ring, Phase, Line
  <2>. QED BY <2>1, NextRefines
<1>. QED BY <1>1, SpecIInv, InitRefines, PTL DEF Spec, PromiseKept, Promise!Spec
=============================================================================
