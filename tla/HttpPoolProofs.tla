--------------------------- MODULE HttpPoolProofs ---------------------------
(***************************************************************************)
(* The connections of the pooled server, proved for any number of slots    *)
(* and workers and any backlog: the free list is the free slots, and each  *)
(* dispatched request is owed one answer, which no later one can receive.  *)
(***************************************************************************)
EXTENDS HttpPool, SequenceTheorems, FiniteSetTheorems, TLAPS

-----------------------------------------------------------------------------
(* The invariant of the slots.                                             *)

\* A connection that waits for a worker.
Waiting(c) == c.state \in {"handling", "body"}

\* A connection that may dispatch its next request.
Clean(c) ==
  \/ c.state \in {"reading", "keepalive"}
  \/ c.state = "writing" /\ c.closing = "no"

\* Only a response under way is followed by a close.
Sound(c) ==
  c \in Conn /\ (c.state \in {"reading", "keepalive", "handling", "body"} => c.closing = "no")

SlotTypes ==
  /\ conn \in [Slot -> Conn] /\ \A s \in Slot : Sound(conn[s])
  /\ gen \in [Slot -> 0..MaxAccepts]
  /\ free \in Seq(Slot)

LoopTypes ==
  /\ phase \in {"tick", "events", "drain", "resume", "sweep", "returned", "join", "closed"}
  /\ scan \subseteq Slot
  /\ woken \in BOOLEAN /\ run \in {"serving", "draining"}
  /\ stopping \in BOOLEAN /\ wakeFd \in BOOLEAN

QueueTypes ==
  /\ todo \in Seq(Job) /\ (phase # "drain" => todo = <<>>)
  /\ done \in Seq(Job) /\ Len(done) <= DoneCap
  /\ dropped \subseteq Job

PoolTypes ==
  /\ pool \in {"open", "closing", "closed"}
  /\ line \in Seq(Job) /\ Len(line) <= Backlog
  /\ busy \in [Worker -> Job \union {None}]
  /\ wpc \in [Worker -> {"idle", "handler", "waking", "pumping"}]
  /\ \A w \in Worker : wpc[w] = "idle" <=> busy[w] = None

SInv == SlotTypes /\ FreeListSound /\ Accepted <= MaxAccepts
QInv == LoopTypes /\ QueueTypes /\ PoolTypes

LEMMA Parts == SInv /\ QInv => TypeOK /\ FreeListSound
BY DEF SInv, QInv, SlotTypes, LoopTypes, QueueTypes, PoolTypes, TypeOK

-----------------------------------------------------------------------------
(* What a connection may become.                                           *)

LEMMA InFacts ==
  ASSUME NEW st \in {"free", "reading", "handling", "body", "writing", "keepalive", "linger"},
         NEW b \in BOOLEAN
  PROVE  Sound(In(st, b)) /\ In(st, b).state = st /\ In(st, b).closing = "no"
BY DEF In, Sound, Conn

LEMMA FreeFacts == Sound(Free) /\ Free.state = "free" /\ ~Waiting(Free) /\ ~Clean(Free)
BY InFacts DEF Free, Waiting, Clean

LEMMA UnsentFacts ==
  ASSUME NEW c \in Conn, NEW d \in Unsent(c)
  PROVE  Sound(d) /\ ~Waiting(d) /\ (Clean(d) => c.closing = "no")
<1>. DEFINE a == [c EXCEPT !.state = "writing"]
            b == [c EXCEPT !.state = "writing", !.stream = "waiting"]
<1>1. d \in {a, b, Free}
  BY DEF Unsent
<1>2. CASE d = a
  BY <1>2 DEF Conn, Sound, Waiting, Clean
<1>3. CASE d = b
  BY <1>3 DEF Conn, Sound, Waiting, Clean
<1>. QED BY <1>1, <1>2, <1>3, FreeFacts

LEMMA EndingFacts ==
  ASSUME NEW c, NEW d \in Ending(c)
  PROVE  Sound(d) /\ ~Waiting(d) /\ ~Clean(d)
<1>1. d \in {In("linger", FALSE), Free}
  BY DEF Ending
<1>2. Sound(In("linger", FALSE)) /\ In("linger", FALSE).state = "linger"
  BY InFacts
<1>. QED BY <1>1, <1>2, FreeFacts DEF Waiting, Clean

LEMMA RefusedFacts ==
  ASSUME NEW d \in Refused
  PROVE  Sound(d) /\ ~Waiting(d) /\ ~Clean(d)
<1>. DEFINE c == [state |-> "reading", bytes |-> FALSE, closing |-> "linger", stream |-> "no"]
<1>1. c \in Conn /\ c.closing # "no"
  BY DEF Conn
<1>2. d \in Unsent(c) \union Ending(c)
  BY DEF Refused
<1>. HIDE DEF c
<1>. QED BY <1>1, <1>2, UnsentFacts, EndingFacts

LEMMA ServedFacts ==
  ASSUME NEW d \in Served
  PROVE  Sound(d)
<1>1. CASE d = In("reading", TRUE)
  BY <1>1, InFacts
<1>2. CASE d \in Refused
  BY <1>2, RefusedFacts
<1>3. CASE \E st \in {"handling", "body"}, b \in BOOLEAN : d = In(st, b)
  BY <1>3, InFacts
<1>. DEFINE Dispatched == {In(st, b) : st \in {"handling", "body"}, b \in BOOLEAN}
<1>4. Served = {In("reading", TRUE)} \union Refused \union Dispatched
  BY DEF Served
<1>5. d \in Dispatched => \E st \in {"handling", "body"}, b \in BOOLEAN : d = In(st, b)
  OBVIOUS
<1>. HIDE DEF Dispatched
<1>. QED BY <1>1, <1>2, <1>3, <1>4, <1>5

\* A response that ends the connection serves nothing more.
LEMMA WrittenFacts ==
  ASSUME NEW c \in Conn, NEW d \in Written(c)
  PROVE  Sound(d) /\ (c.closing # "no" => ~Waiting(d) /\ ~Clean(d))
<1>1. CASE d \in Unsent(c)
  BY <1>1, UnsentFacts
<1>2. CASE d \in Ending(c) /\ c.closing # "no"
  BY <1>2, EndingFacts
<1>3. CASE d \in Served /\ c.closing = "no"
  BY <1>3, ServedFacts
<1>4. CASE d = In("keepalive", FALSE) /\ c.closing = "no"
  BY <1>4, InFacts
<1>. QED BY <1>1, <1>2, <1>3, <1>4 DEF Written

LEMMA PumpedFacts ==
  ASSUME NEW s, Sound(conn[s]), conn[s].state = "body", NEW d \in Pumped(s)
  PROVE  Sound(d) /\ ~Clean(d)
<1>1. CASE d = conn[s]
  BY <1>1 DEF Clean
<1>2. CASE d = Free
  BY <1>2, FreeFacts
<1>3. CASE \E b \in BOOLEAN : d = In("handling", b)
  BY <1>3, InFacts DEF Clean
<1>. QED BY <1>1, <1>2, <1>3 DEF Pumped

LEMMA LateFacts ==
  ASSUME NEW c \in Conn, NEW d \in Late(c)
  PROVE  Sound(d) /\ ~Waiting(d) /\ ~Clean(d)
<1>. DEFINE r == [In("writing", FALSE) EXCEPT !.closing = "close"]
<1>1. r \in Conn /\ r.closing = "close"
  BY DEF In, Conn
<1>2. d \in Unsent(r) \union Ending(r) \/ d \in Refused \/ d = Free
  BY DEF Late
<1>. HIDE DEF r
<1>. QED BY <1>1, <1>2, UnsentFacts, EndingFacts, RefusedFacts, FreeFacts

LEMMA AnswersFacts ==
  ASSUME NEW c \in Conn, NEW a \in Answers(c)
  PROVE  a \in Conn
<1>1. PICK cl \in {"no", "close", "linger"}, st \in {"no", "on"} :
        a = [state |-> "reading", bytes |-> c.bytes /\ c.state = "handling",
             closing |-> cl, stream |-> st]
  BY DEF Answers
<1>2. (c.bytes /\ c.state = "handling") \in BOOLEAN
  OBVIOUS
<1>. QED BY <1>1, <1>2 DEF Conn

-----------------------------------------------------------------------------
(* The free list.                                                          *)

LEMMA SlotFinite == IsFiniteSet(Slot) /\ Slot \subseteq Nat
<1>1. MaxConn - 1 \in Int
  BY SizesAssumption
<1>. QED BY <1>1, FS_Interval, SizesAssumption DEF Slot

\* A set of slots is stacked whole and without repetition.
LEMMA StackedFacts ==
  ASSUME NEW ss \in SUBSET Slot
  PROVE  /\ Stacked(ss) \in Seq(Slot)
         /\ \A s \in Slot : s \in ss <=> \E i \in 1..Len(Stacked(ss)) : Stacked(ss)[i] = s
         /\ \A i, j \in 1..Len(Stacked(ss)) : Stacked(ss)[i] = Stacked(ss)[j] => i = j
<1>. DEFINE n == Cardinality(ss)
            above(s) == {t \in ss : t >= s}
            place(s) == Cardinality(above(s))
            f == [s \in ss |-> place(s)]
            q == [i \in 1..n |-> CHOOSE s \in ss : place(s) = i]
<1>1. IsFiniteSet(ss) /\ n \in Nat /\ ss \subseteq Nat
  BY SlotFinite, FS_Subset, FS_CardinalityType
<1>2. \A s \in ss : IsFiniteSet(above(s)) /\ place(s) \in 1..n
  <2>1. TAKE s \in ss
  <2>2. above(s) \in SUBSET ss /\ s \in above(s)
    BY <1>1
  <2>3. IsFiniteSet(above(s)) /\ place(s) <= n /\ place(s) \in Nat
    BY <1>1, <2>2, FS_Subset, FS_CardinalityType
  <2>4. place(s) # 0
    BY <2>2, <2>3, FS_EmptySet
  <2>. QED BY <1>1, <2>3, <2>4
<1>3. \A s, t \in ss : s < t => place(s) # place(t)
  <2>1. SUFFICES ASSUME NEW s \in ss, NEW t \in ss, s < t PROVE place(s) # place(t)
    OBVIOUS
  <2>2. s \in Nat /\ t \in Nat /\ \A u \in ss : u \in Nat
    BY <1>1
  <2>3. \A u \in above(t) : u \in above(s)
    BY <2>1, <2>2
  <2>4. s \in above(s) /\ s \notin above(t)
    BY <2>1, <2>2
  <2>. HIDE DEF above
  <2>. QED BY <1>2, <2>3, <2>4, FS_Subset
<1>. HIDE DEF n, place
<1>4. f \in [ss -> 1..n] /\ \A s, t \in ss : f[s] = f[t] => s = t
  <2>1. f \in [ss -> 1..n] /\ \A s \in ss : f[s] = place(s)
    BY <1>2
  <2>2. \A s, t \in ss : s < t \/ t < s \/ s = t
    BY <1>1
  <2>. HIDE DEF f
  <2>. QED BY <1>3, <2>1, <2>2
<1>5. IsFiniteSet(1..n) /\ Cardinality(1..n) = n
  BY <1>1, FS_Interval
<1>6. f \in Injection(ss, 1..n)
  BY <1>4 DEF Injection, IsInjective
<1>7. f \in Surjection(ss, 1..n)
  BY <1>5, <1>6, FS_Injection DEF n
<1>8. \A i \in 1..n : \E s \in ss : place(s) = i
  BY <1>7 DEF Surjection
<1>9. Stacked(ss) = q
  BY DEF Stacked, n, place
<1>10. \A i \in 1..n : q[i] \in ss /\ place(q[i]) = i
  BY <1>8
<1>11. q \in Seq(Slot) /\ Len(q) = n
  <2>1. q \in [1..n -> Slot]
    BY <1>10
  <2>. HIDE DEF q
  <2>. QED BY <1>1, <2>1
<1>12. \A s \in ss : q[place(s)] = s /\ place(s) \in 1..n
  <2>1. TAKE s \in ss
  <2>2. place(s) \in 1..n
    BY <1>2 DEF n, place
  <2>3. q[place(s)] \in ss /\ place(q[place(s)]) = place(s)
    BY <1>10, <2>2
  <2>4. \A t \in ss : f[t] = place(t)
    BY DEF place
  <2>. QED BY <1>4, <2>2, <2>3, <2>4
<1>. HIDE DEF q
<1>. QED BY <1>9, <1>10, <1>11, <1>12

-----------------------------------------------------------------------------
(* The connections accepted.                                               *)

Opened ==
  {c \in Slot \X (0..MaxAccepts) :
     c[2] < gen[c[1]] \/ (c[2] = gen[c[1]] /\ c[1] \in Active)}

LEMMA OpenedFacts ==
  ASSUME SlotTypes
  PROVE  /\ IsFiniteSet(Opened) /\ Accepted \in Nat
         /\ \A s \in Slot : gen[s] <= Accepted /\ (s \in Active => gen[s] < Accepted)
<1>1. IsFiniteSet(Slot) /\ IsFiniteSet(0..MaxAccepts)
  BY SlotFinite, SizesAssumption, FS_Interval
<1>2. Opened \in SUBSET (Slot \X (0..MaxAccepts))
  BY DEF Opened
<1>3. IsFiniteSet(Opened) /\ Accepted \in Nat
  BY <1>1, <1>2, FS_Product, FS_Subset, FS_CardinalityType DEF Accepted, Opened
<1>4. ASSUME NEW s \in Slot, NEW k \in Int, \A n \in 0..k : <<s, n>> \in Opened
      PROVE  k < Accepted
  <2>. DEFINE f == [n \in 0..k |-> <<s, n>>]
  <2>1. f \in [0..k -> Opened] /\ \A m, n \in 0..k : f[m] = f[n] => m = n
    BY <1>4
  <2>2. f \in Injection(0..k, Opened)
    BY <2>1 DEF Injection, IsInjective
  <2>3. Cardinality(0..k) <= Accepted
    BY <1>3, <2>2, FS_Injection DEF Accepted, Opened
  <2>4. Cardinality(0..k) = IF 0 > k THEN 0 ELSE k - 0 + 1
    BY FS_Interval
  <2>. QED BY <1>3, <2>3, <2>4
<1>5. ASSUME NEW s \in Slot
      PROVE  gen[s] <= Accepted /\ (s \in Active => gen[s] < Accepted)
  <2>1. gen[s] \in 0..MaxAccepts /\ MaxAccepts \in Nat
    BY SizesAssumption DEF SlotTypes
  <2>2. \A n \in 0..gen[s] - 1 : <<s, n>> \in Opened
    BY <2>1 DEF Opened
  <2>3. s \in Active => \A n \in 0..gen[s] : <<s, n>> \in Opened
    BY <2>1 DEF Opened
  <2>4. gen[s] - 1 < Accepted
    BY <1>4, <2>1, <2>2
  <2>5. s \in Active => gen[s] < Accepted
    BY <1>4, <2>1, <2>3
  <2>. QED BY <1>3, <2>1, <2>4, <2>5
<1>. QED BY <1>3, <1>5

\* A slot that stays taken or free keeps the count.
LEMMA KeptFacts ==
  ASSUME SInv, SlotTypes', gen' = gen, free' = free, Active' = Active
  PROVE  SInv'
<1>1. Accepted' = Accepted
  BY DEF Accepted
<1>2. \A s \in Slot : conn'[s].state = "free" <=> conn[s].state = "free"
  BY DEF Active
<1>3. FreeListSound'
  BY <1>2 DEF SInv, FreeListSound
<1>. QED BY <1>1, <1>3 DEF SInv

LEMMA ClosesFacts ==
  ASSUME SInv, NEW ss \in SUBSET Active, Closes(ss)
  PROVE  /\ SInv'
         /\ \A s \in Slot : s \in ss => conn'[s] = Free /\ gen'[s] = gen[s] + 1
         /\ \A s \in Slot : s \notin ss => conn'[s] = conn[s] /\ gen'[s] = gen[s]
<1>1. /\ conn' = [s \in Slot |-> IF s \in ss THEN Free ELSE conn[s]]
      /\ gen' = [s \in Slot |-> IF s \in ss THEN gen[s] + 1 ELSE gen[s]]
      /\ free' = Stacked(ss) \o free
  BY DEF Closes
<1>2. ss \in SUBSET Slot /\ \A s \in ss : conn[s].state # "free"
  BY DEF Active
<1>3. \A s \in ss : gen[s] < MaxAccepts
  <2>1. TAKE s \in ss
  <2>2. gen[s] < Accepted /\ Accepted <= MaxAccepts /\ Accepted \in Nat /\ gen[s] \in Nat
    BY <1>2, OpenedFacts DEF SInv, SlotTypes
  <2>. QED BY <2>2, SizesAssumption
<1>4. gen' \in [Slot -> 0..MaxAccepts]
  <2>1. \A s \in Slot : gen[s] \in 0..MaxAccepts
    BY DEF SInv, SlotTypes
  <2>2. \A s \in Slot : (IF s \in ss THEN gen[s] + 1 ELSE gen[s]) \in 0..MaxAccepts
    BY <1>3, <2>1, SizesAssumption
  <2>. QED BY <1>1, <2>2
<1>5. /\ conn' \in [Slot -> Conn] /\ \A s \in Slot : Sound(conn'[s])
  <2>1. \A s \in Slot : Sound(IF s \in ss THEN Free ELSE conn[s])
    BY FreeFacts DEF SInv, SlotTypes
  <2>2. \A s \in Slot : conn'[s] = IF s \in ss THEN Free ELSE conn[s]
    BY <1>1
  <2>3. \A s \in Slot : (IF s \in ss THEN Free ELSE conn[s]) \in Conn
    BY <2>1 DEF Sound
  <2>. QED BY <1>1, <2>1, <2>2, <2>3
<1>. DEFINE q == Stacked(ss)
<1>6. q \in Seq(Slot) /\ free \in Seq(Slot) /\ free' = q \o free
  BY <1>1, <1>2, StackedFacts DEF SInv, SlotTypes
<1>7. /\ \A s \in Slot : s \in ss <=> \E i \in 1..Len(q) : q[i] = s
      /\ \A i, j \in 1..Len(q) : q[i] = q[j] => i = j
  BY <1>2, StackedFacts
<1>8. /\ \A s \in Slot : conn[s].state = "free" <=> \E i \in 1..Len(free) : free[i] = s
      /\ \A i, j \in 1..Len(free) : free[i] = free[j] => i = j
  BY <1>6, LenProperties DEF SInv, FreeListSound
<1>. HIDE DEF q
<1>9. /\ free' \in Seq(Slot) /\ Len(free') = Len(q) + Len(free)
      /\ Len(q) \in Nat /\ Len(free) \in Nat
      /\ \A i \in 1..Len(q) + Len(free) :
           free'[i] = IF i <= Len(q) THEN q[i] ELSE free[i - Len(q)]
  BY <1>6, ConcatProperties, LenProperties
<1>10. /\ \A i \in 1..Len(q) : free'[i] = q[i] /\ i \in 1..Len(free')
       /\ \A i \in 1..Len(free) : free'[i + Len(q)] = free[i] /\ i + Len(q) \in 1..Len(free')
       /\ \A i \in 1..Len(free') : i \in 1..Len(q) \/ i - Len(q) \in 1..Len(free)
       /\ \A i \in 1..Len(free') : i \notin 1..Len(q) => free'[i] = free[i - Len(q)]
  BY <1>9
<1>11. DOMAIN free' = 1..Len(free')
  BY <1>9, LenProperties
<1>12. \A s \in Slot : conn'[s].state = "free" <=> s \in ss \/ conn[s].state = "free"
  BY <1>1, FreeFacts
<1>13. \A s \in Slot : conn'[s].state = "free" <=> \E i \in DOMAIN free' : free'[i] = s
  <2>1. TAKE s \in Slot
  <2>2. s \in ss => \E i \in 1..Len(free') : free'[i] = s
    BY <1>7, <1>10
  <2>3. conn[s].state = "free" => \E i \in 1..Len(free') : free'[i] = s
    BY <1>8, <1>10
  <2>4. ASSUME NEW i \in 1..Len(free'), free'[i] = s PROVE s \in ss \/ conn[s].state = "free"
    <3>1. CASE i \in 1..Len(q)
      BY <1>7, <1>10, <2>4, <3>1
    <3>2. CASE i \notin 1..Len(q)
      BY <1>8, <1>10, <2>4, <3>2
    <3>. QED BY <3>1, <3>2
  <2>. QED BY <1>11, <1>12, <2>2, <2>3, <2>4
<1>14. ASSUME NEW i \in DOMAIN free', NEW j \in DOMAIN free', free'[i] = free'[j]
       PROVE  i = j
  <2>1. \A k \in 1..Len(q) : q[k] \in ss
    BY <1>6, <1>7, ElementOfSeq
  <2>2. \A k \in 1..Len(free) : free[k] \notin ss
    BY <1>2, <1>6, <1>8, ElementOfSeq
  <2>3. CASE i \in 1..Len(q) /\ j \in 1..Len(q)
    BY <1>7, <1>10, <1>14, <2>3
  <2>4. CASE i \in 1..Len(q) /\ j \notin 1..Len(q)
    BY <1>10, <1>11, <1>14, <2>1, <2>2, <2>4
  <2>5. CASE i \notin 1..Len(q) /\ j \in 1..Len(q)
    BY <1>10, <1>11, <1>14, <2>1, <2>2, <2>5
  <2>6. CASE i \notin 1..Len(q) /\ j \notin 1..Len(q)
    <3>1. i - Len(q) = j - Len(q)
      BY <1>8, <1>10, <1>11, <1>14, <2>6
    <3>. QED BY <1>9, <1>11, <3>1
  <2>. QED BY <2>3, <2>4, <2>5, <2>6
<1>15. Accepted' = Accepted
  <2>1. \A s \in Slot, n \in 0..MaxAccepts :
          (n < gen'[s] \/ (n = gen'[s] /\ s \in Active')) <=>
          (n < gen[s] \/ (n = gen[s] /\ s \in Active))
    <3>1. TAKE s \in Slot, n \in 0..MaxAccepts
    <3>2. gen[s] \in Nat /\ n \in Nat
      BY DEF SInv, SlotTypes
    <3>3. CASE s \in ss
      <4>1. gen'[s] = gen[s] + 1 /\ s \notin Active' /\ s \in Active
        BY <1>1, <1>2, <3>3, FreeFacts DEF Active
      <4>. QED BY <3>2, <4>1
    <3>4. CASE s \notin ss
      BY <1>1, <3>4 DEF Active
    <3>. QED BY <3>3, <3>4
  <2>2. \A c \in Slot \X (0..MaxAccepts) : c[1] \in Slot /\ c[2] \in 0..MaxAccepts
    OBVIOUS
  <2>3. Opened' = Opened
    BY <2>1, <2>2 DEF Opened
  <2>. QED BY <2>3 DEF Accepted, Opened
<1>16. FreeListSound'
  BY <1>13, <1>14 DEF FreeListSound
<1>17. SlotTypes'
  BY <1>4, <1>5, <1>9 DEF SlotTypes
<1>. QED BY <1>1, <1>2, <1>15, <1>16, <1>17 DEF SInv

\* What Becomes does to its slot, and that it does nothing to the others.
Moved(s, outcomes) ==
  /\ conn'[s].state = "free" => gen'[s] = gen[s] + 1
  /\ conn'[s].state # "free" => conn'[s] \in outcomes /\ gen'[s] = gen[s]
  /\ \A t \in Slot : t # s => conn'[t] = conn[t] /\ gen'[t] = gen[t]

LEMMA BecomesFacts ==
  ASSUME SInv, NEW s \in Slot, conn[s].state # "free",
         NEW outcomes, \A c \in outcomes : Sound(c), Becomes(s, outcomes)
  PROVE  SInv' /\ Moved(s, outcomes)
<1>1. PICK c \in outcomes :
        IF c.state = "free" THEN Closes({s})
        ELSE conn' = [conn EXCEPT ![s] = c] /\ UNCHANGED <<gen, free>>
  BY DEF Becomes
<1>2. CASE c.state = "free"
  <2>1. {s} \in SUBSET Active /\ Closes({s})
    BY <1>1, <1>2 DEF Active
  <2>2. SInv' /\ conn'[s] = Free /\ gen'[s] = gen[s] + 1
        /\ \A t \in Slot : t # s => conn'[t] = conn[t] /\ gen'[t] = gen[t]
    BY <2>1, ClosesFacts
  <2>. QED BY <2>2, FreeFacts DEF Moved
<1>3. CASE c.state # "free"
  <2>1. conn' = [conn EXCEPT ![s] = c] /\ gen' = gen /\ free' = free
    BY <1>1, <1>3
  <2>2. conn \in [Slot -> Conn] /\ \A t \in Slot : Sound(conn[t])
    BY DEF SInv, SlotTypes
  <2>3. c \in Conn /\ Sound(c)
    BY DEF Sound
  <2>4. /\ conn' \in [Slot -> Conn] /\ conn'[s] = c
        /\ \A t \in Slot : t # s => conn'[t] = conn[t]
    BY <2>1, <2>2, <2>3
  <2>5. \A t \in Slot : Sound(conn'[t])
    BY <2>2, <2>3, <2>4
  <2>6. SlotTypes'
    BY <2>1, <2>4, <2>5 DEF SInv, SlotTypes
  <2>7. Active' = Active
    BY <1>3, <2>4 DEF Active
  <2>8. SInv'
    BY <2>1, <2>6, <2>7, KeptFacts
  <2>. QED BY <1>3, <2>1, <2>4, <2>8 DEF Moved
<1>. QED BY <1>2, <1>3

LEMMA AcceptsFacts ==
  ASSUME SInv, Accepts
  PROVE  /\ SInv'
         /\ \E s \in Slot :
              /\ conn[s].state = "free"
              /\ \/ conn'[s] = In("reading", FALSE) /\ gen'[s] = gen[s]
                 \/ conn'[s] = conn[s] /\ gen'[s] = gen[s] + 1
              /\ \A t \in Slot : t # s => conn'[t] = conn[t] /\ gen'[t] = gen[t]
<1>. DEFINE s == Head(free)
<1>1. free \in Seq(Slot) /\ free # <<>> /\ Accepted < MaxAccepts
  BY DEF Accepts, SInv, SlotTypes
<1>2. /\ Len(free) \in Nat /\ Len(free) # 0 /\ DOMAIN free = 1..Len(free)
      /\ Head(free) = free[1] /\ 1 \in DOMAIN free
      /\ Head(free) \in Slot /\ Tail(free) \in Seq(Slot) /\ Len(Tail(free)) = Len(free) - 1
      /\ \A i \in 1..Len(free) - 1 : Tail(free)[i] = free[i + 1]
  BY <1>1, EmptySeq, LenProperties, HeadTailProperties
<1>3. s \in Slot /\ conn[s].state = "free" /\ s = free[1]
  BY <1>2 DEF SInv, FreeListSound
<1>4. gen[s] \in 0..MaxAccepts /\ gen[s] <= Accepted /\ Accepted \in Nat /\ MaxAccepts \in Nat
      /\ IsFiniteSet(Opened) /\ Accepted = Cardinality(Opened)
  BY <1>3, OpenedFacts, SizesAssumption DEF SInv, SlotTypes, Accepted, Opened
<1>5. gen[s] + 1 \in 0..MaxAccepts
  BY <1>1, <1>4
<1>6. \/ conn' = [conn EXCEPT ![s] = In("reading", FALSE)] /\ free' = Tail(free) /\ gen' = gen
      \/ gen' = [gen EXCEPT ![s] = @ + 1] /\ conn' = conn /\ free' = free
  BY DEF Accepts
<1>. HIDE DEF s
<1>7. /\ conn \in [Slot -> Conn] /\ \A t \in Slot : Sound(conn[t])
      /\ gen \in [Slot -> 0..MaxAccepts] /\ FreeListSound
  BY DEF SInv, SlotTypes
<1>8. ASSUME Opened' = Opened \union {<<s, gen[s]>>}
      PROVE  Accepted' <= MaxAccepts
  <2>1. /\ Cardinality(Opened') \in {Cardinality(Opened), Cardinality(Opened) + 1}
    BY <1>4, <1>8, FS_AddElement
  <2>2. Accepted' = Cardinality(Opened')
    BY DEF Accepted, Opened
  <2>. QED BY <1>1, <1>4, <2>1, <2>2
<1>9. \A c \in Slot \X (0..MaxAccepts) : c = <<c[1], c[2]>> /\ c[1] \in Slot /\ c[2] \in 0..MaxAccepts
  OBVIOUS
<1>10. ASSUME \A t \in Slot, n \in 0..MaxAccepts :
                 (n < gen'[t] \/ (n = gen'[t] /\ t \in Active')) <=>
                 (n < gen[t] \/ (n = gen[t] /\ t \in Active)) \/ (t = s /\ n = gen[s])
       PROVE  Opened' = Opened \union {<<s, gen[s]>>}
  BY <1>3, <1>4, <1>9, <1>10 DEF Opened
<1>11. CASE conn' = [conn EXCEPT ![s] = In("reading", FALSE)] /\ free' = Tail(free) /\ gen' = gen
  <2>1. /\ Sound(In("reading", FALSE)) /\ In("reading", FALSE) \in Conn
        /\ In("reading", FALSE).state = "reading"
    BY InFacts DEF Sound
  <2>2. /\ conn' \in [Slot -> Conn] /\ conn'[s] = In("reading", FALSE)
        /\ \A t \in Slot : t # s => conn'[t] = conn[t]
    BY <1>3, <1>7, <1>11, <2>1
  <2>3. SlotTypes'
    BY <1>2, <1>7, <1>11, <2>1, <2>2 DEF SlotTypes
  <2>4. Active' = Active \union {s} /\ s \notin Active
    BY <1>3, <2>1, <2>2 DEF Active
  <2>5. Opened' = Opened \union {<<s, gen[s]>>}
    BY <1>10, <1>11, <2>4
  <2>6. /\ DOMAIN free' = 1..Len(free) - 1
        /\ \A i \in DOMAIN free' : free'[i] = free[i + 1] /\ i + 1 \in DOMAIN free /\ i + 1 # 1
        /\ \A i \in DOMAIN free : i # 1 => i - 1 \in DOMAIN free' /\ free'[i - 1] = free[i]
    <3>1. DOMAIN free' = 1..Len(free) - 1
      BY <1>2, <1>11, LenProperties
    <3>2. \A i \in 1..Len(free) - 1 : free'[i] = free[i + 1] /\ i + 1 \in 1..Len(free) /\ i + 1 # 1
      BY <1>2, <1>11
    <3>3. \A i \in 1..Len(free) : i # 1 => i - 1 \in 1..Len(free) - 1 /\ (i - 1) + 1 = i
      BY <1>2
    <3>. QED BY <1>2, <3>1, <3>2, <3>3
  <2>7. \A t \in Slot : conn'[t].state = "free" <=> conn[t].state = "free" /\ t # s
    BY <1>3, <2>1, <2>2
  <2>8. \A t \in Slot : conn'[t].state = "free" <=> \E i \in DOMAIN free' : free'[i] = t
    <3>1. TAKE t \in Slot
    <3>2. ASSUME conn'[t].state = "free" PROVE \E i \in DOMAIN free' : free'[i] = t
      <4>1. PICK i \in DOMAIN free : free[i] = t
        BY <1>7, <2>7, <3>2 DEF FreeListSound
      <4>2. i # 1
        BY <1>3, <2>7, <3>2, <4>1
      <4>. QED BY <2>6, <4>1, <4>2
    <3>3. ASSUME NEW i \in DOMAIN free', free'[i] = t PROVE conn'[t].state = "free"
      <4>1. free[i + 1] = t /\ i + 1 \in DOMAIN free /\ i + 1 # 1
        BY <2>6, <3>3
      <4>2. t # s /\ conn[t].state = "free"
        BY <1>2, <1>3, <1>7, <4>1 DEF FreeListSound
      <4>. QED BY <2>7, <4>2
    <3>. QED BY <3>2, <3>3
  <2>9. \A i, j \in DOMAIN free' : free'[i] = free'[j] => i = j
    <3>1. SUFFICES ASSUME NEW i \in DOMAIN free', NEW j \in DOMAIN free', free'[i] = free'[j]
                   PROVE  i = j
      OBVIOUS
    <3>2. i + 1 = j + 1
      BY <1>7, <2>6, <3>1 DEF FreeListSound
    <3>3. i \in Int /\ j \in Int
      BY <1>2, <2>6
    <3>. QED BY <3>2, <3>3
  <2>10. SInv'
    BY <1>8, <2>3, <2>5, <2>8, <2>9 DEF SInv, FreeListSound
  <2>. QED BY <1>3, <1>11, <2>2, <2>10
<1>12. CASE gen' = [gen EXCEPT ![s] = @ + 1] /\ conn' = conn /\ free' = free
  <2>1. /\ gen' \in [Slot -> 0..MaxAccepts] /\ gen'[s] = gen[s] + 1
        /\ \A t \in Slot : t # s => gen'[t] = gen[t]
    BY <1>3, <1>5, <1>7, <1>12
  <2>2. SlotTypes' /\ FreeListSound'
    BY <1>12, <2>1 DEF SInv, SlotTypes, FreeListSound
  <2>3. Active' = Active /\ s \notin Active
    BY <1>3, <1>12 DEF Active
  <2>4. \A t \in Slot, n \in 0..MaxAccepts :
          (n < gen'[t] \/ (n = gen'[t] /\ t \in Active')) <=>
          (n < gen[t] \/ (n = gen[t] /\ t \in Active)) \/ (t = s /\ n = gen[s])
    <3>1. TAKE t \in Slot, n \in 0..MaxAccepts
    <3>2. gen[t] \in Nat /\ n \in Nat
      BY <1>7
    <3>3. CASE t = s
      <4>1. n < gen[s] + 1 <=> n < gen[s] \/ n = gen[s]
        BY <3>2, <3>3
      <4>. QED BY <2>1, <2>3, <3>3, <4>1
    <3>4. CASE t # s
      BY <2>1, <2>3, <3>4
    <3>. QED BY <3>3, <3>4
  <2>5. Accepted' <= MaxAccepts
    BY <1>8, <1>10, <2>4
  <2>6. SInv'
    BY <2>2, <2>5 DEF SInv
  <2>. QED BY <1>3, <1>12, <2>1, <2>6
<1>. QED BY <1>6, <1>11, <1>12

-----------------------------------------------------------------------------
(* What the steps of the loop do to a connection: they serve its next       *)
(* request, or they are quiet, which means they start none.                 *)

Moves(s) ==
  /\ conn'[s].state = "free" => gen'[s] = gen[s] + 1
  /\ conn'[s].state # "free" => gen'[s] = gen[s]
  /\ \A t \in Slot : t # s => conn'[t] = conn[t] /\ gen'[t] = gen[t]

MayServe(s) ==
  /\ Moves(s)
  /\ \/ Waiting(conn'[s]) /\ Pool!Accept(JobOf(s))
     \/ ~Waiting(conn'[s]) /\ UNCHANGED executor

Quiet(s) ==
  /\ Moves(s)
  /\ Waiting(conn'[s]) => Waiting(conn[s])
  /\ Clean(conn'[s]) => Clean(conn[s])
  /\ UNCHANGED executor

LEMMA SoundConn ==
  ASSUME SInv, NEW s \in Slot
  PROVE  Sound(conn[s]) /\ conn[s] \in Conn /\ conn[s].bytes \in BOOLEAN
BY DEF SInv, SlotTypes, Sound, Conn

LEMMA ServesFacts ==
  ASSUME SInv, NEW s \in Slot, conn[s].state # "free",
         NEW outcomes, \A c \in outcomes : Sound(c), Serves(s, outcomes)
  PROVE  SInv' /\ Moved(s, outcomes) /\ MayServe(s)
<1>1. Becomes(s, outcomes)
  BY DEF Serves
<1>2. SInv' /\ Moved(s, outcomes)
  BY <1>1, BecomesFacts
<1>3. Moves(s)
  BY <1>2 DEF Moved, Moves
<1>4. IF Waiting(conn'[s]) THEN Pool!Accept(JobOf(s)) ELSE UNCHANGED executor
  BY DEF Serves, Waiting
<1>. QED BY <1>2, <1>3, <1>4 DEF MayServe

\* A step that only changes its connection to something that asks for nothing new.
LEMMA QuietFacts ==
  ASSUME SInv, NEW s \in Slot, conn[s].state # "free",
         NEW outcomes, \A c \in outcomes : Sound(c), Becomes(s, outcomes),
         \A c \in outcomes : (Waiting(c) => Waiting(conn[s])) /\ (Clean(c) => Clean(conn[s])),
         UNCHANGED executor
  PROVE  SInv' /\ Quiet(s)
<1>1. SInv' /\ Moved(s, outcomes)
  BY BecomesFacts
<1>2. Moves(s)
  BY <1>1 DEF Moved, Moves
<1>3. conn'[s].state = "free" \/ conn'[s] \in outcomes
  BY <1>1 DEF Moved
<1>4. conn'[s].state = "free" => ~Waiting(conn'[s]) /\ ~Clean(conn'[s])
  BY DEF Waiting, Clean
<1>. QED BY <1>1, <1>2, <1>3, <1>4 DEF Quiet

LEMMA ReadsStep ==
  ASSUME SInv, NEW s \in Slot, Reads(s)
  PROVE  SInv' /\ Clean(conn[s]) /\ MayServe(s)
<1>. DEFINE outs == Served \union {Free, In("reading", conn[s].bytes)}
<1>1. conn[s].state \in {"reading", "keepalive"} /\ Serves(s, outs)
  BY DEF Reads
<1>2. \A c \in outs : Sound(c)
  BY ServedFacts, FreeFacts, InFacts, SoundConn
<1>. HIDE DEF outs
<1>. QED BY <1>1, <1>2, ServesFacts DEF Clean

LEMMA ReadsAheadStep ==
  ASSUME SInv, NEW s \in Slot, ReadsAhead(s)
  PROVE  SInv' /\ Quiet(s)
<1>. DEFINE a == [conn[s] EXCEPT !.bytes = TRUE]
            b == [conn[s] EXCEPT !.bytes = FALSE, !.closing = "linger"]
<1>1. /\ conn[s].state = "writing" /\ Becomes(s, {Free, a, b}) /\ UNCHANGED executor
  BY DEF ReadsAhead
<1>2. Sound(a) /\ ~Waiting(a) /\ (Clean(a) => Clean(conn[s]))
  BY <1>1, SoundConn DEF Sound, Conn, Waiting, Clean
<1>3. Sound(b) /\ ~Waiting(b) /\ ~Clean(b)
  BY <1>1, SoundConn DEF Sound, Conn, Waiting, Clean
<1>. HIDE DEF a, b
<1>4. \A c \in {Free, a, b} :
        Sound(c) /\ (Waiting(c) => Waiting(conn[s])) /\ (Clean(c) => Clean(conn[s]))
  BY <1>2, <1>3, FreeFacts
<1>. QED BY <1>1, <1>4, QuietFacts

\* A response that goes out: the next request, or none when the connection closes.
LEMMA WritingFacts ==
  ASSUME SInv, NEW s \in Slot, conn[s].state = "writing",
         NEW c \in Conn, c.closing = conn[s].closing, Serves(s, Written(c))
  PROVE  SInv' /\ ((Clean(conn[s]) /\ MayServe(s)) \/ Quiet(s))
<1>1. \A d \in Written(c) : Sound(d)
  BY WrittenFacts
<1>2. SInv' /\ Moved(s, Written(c)) /\ MayServe(s)
  BY <1>1, ServesFacts
<1>3. CASE c.closing = "no"
  BY <1>2, <1>3 DEF Clean
<1>4. CASE c.closing # "no"
  <2>1. conn'[s].state = "free" \/ conn'[s] \in Written(c)
    BY <1>2 DEF Moved
  <2>2. ~Waiting(conn'[s]) /\ ~Clean(conn'[s])
    BY <1>4, <2>1, WrittenFacts DEF Waiting, Clean
  <2>. QED BY <1>2, <2>2 DEF MayServe, Quiet
<1>. QED BY <1>3, <1>4

LEMMA WritesStep ==
  ASSUME SInv, NEW s \in Slot, Writes(s)
  PROVE  SInv' /\ ((Clean(conn[s]) /\ MayServe(s)) \/ Quiet(s))
<1>1. conn[s].state = "writing" /\ Serves(s, Written(conn[s]))
  BY DEF Writes
<1>. QED BY <1>1, SoundConn, WritingFacts

LEMMA ResumesStreamStep ==
  ASSUME SInv, NEW s \in Slot, ResumesStream(s)
  PROVE  SInv' /\ ((Clean(conn[s]) /\ MayServe(s)) \/ Quiet(s))
<1>. DEFINE c == [conn[s] EXCEPT !.stream = "on"]
<1>1. conn[s].state = "writing" /\ Serves(s, Written(c))
  BY DEF ResumesStream
<1>2. c \in Conn /\ c.closing = conn[s].closing
  BY SoundConn DEF Conn
<1>. HIDE DEF c
<1>. QED BY <1>1, <1>2, WritingFacts

LEMMA PumpStep ==
  ASSUME SInv, NEW s \in Slot, PumpsBody(s) \/ ResumesBody(s)
  PROVE  SInv' /\ Quiet(s)
<1>1. conn[s].state = "body" /\ Becomes(s, Pumped(s)) /\ UNCHANGED executor
  BY DEF PumpsBody, ResumesBody
<1>2. \A c \in Pumped(s) : Sound(c) /\ ~Clean(c)
  BY <1>1, SoundConn, PumpedFacts
<1>3. Waiting(conn[s])
  BY <1>1 DEF Waiting
<1>. QED BY <1>1, <1>2, <1>3, QuietFacts

LEMMA DrainsStep ==
  ASSUME SInv, NEW s \in Slot, Drains(s)
  PROVE  SInv' /\ Quiet(s)
<1>1. conn[s].state = "linger" /\ Becomes(s, {conn[s], Free}) /\ UNCHANGED executor
  BY DEF Drains
<1>2. \A c \in {conn[s], Free} :
        Sound(c) /\ (Waiting(c) => Waiting(conn[s])) /\ (Clean(c) => Clean(conn[s]))
  BY SoundConn, FreeFacts
<1>. QED BY <1>1, <1>2, QuietFacts

LEMMA EvictsStep ==
  ASSUME SInv, NEW s \in Slot, Evicts(s)
  PROVE  SInv' /\ Quiet(s)
<1>1. conn[s].state # "free" /\ Becomes(s, Late(conn[s])) /\ UNCHANGED executor
  BY DEF Evicts
<1>2. \A c \in Late(conn[s]) : Sound(c) /\ ~Waiting(c) /\ ~Clean(c)
  BY SoundConn, LateFacts
<1>. QED BY <1>1, <1>2, QuietFacts

LEMMA AttachesStep ==
  ASSUME SInv, QInv, Attaches
  PROVE  /\ SInv' /\ MayServe(Head(todo).slot)
         /\ Head(todo).slot \in Slot
<1>. DEFINE s == Head(todo).slot
            outs == {Free} \union UNION {Written(c) : c \in Answers(conn[s])}
<1>1. Serves(s, outs) /\ todo # <<>> /\ WaitsFor(Head(todo))
  BY DEF Attaches
<1>2. Head(todo) \in Job
  BY <1>1, HeadTailProperties DEF QInv, QueueTypes
<1>3. s \in Slot /\ conn[s].state # "free"
  BY <1>1, <1>2 DEF Job, WaitsFor
<1>4. ASSUME NEW d \in outs PROVE Sound(d)
  <2>1. CASE d = Free
    BY <2>1, FreeFacts
  <2>2. CASE d # Free
    <3>1. PICK c \in Answers(conn[s]) : d \in Written(c)
      BY <2>2
    <3>2. c \in Conn
      BY <1>3, <3>1, SoundConn, AnswersFacts
    <3>. QED BY <3>1, <3>2, WrittenFacts
  <2>. QED BY <2>1, <2>2
<1>. HIDE DEF outs, s
<1>5. SInv' /\ MayServe(s)
  BY <1>1, <1>3, <1>4, ServesFacts
<1>. QED BY <1>3, <1>5 DEF s

-----------------------------------------------------------------------------
(* Types of the queues, and the slots, step by step.                       *)

LEMMA HeadFacts ==
  ASSUME NEW S, NEW q \in Seq(S), q # <<>>
  PROVE  /\ Head(q) \in S /\ Tail(q) \in Seq(S)
         /\ Len(Tail(q)) = Len(q) - 1 /\ Len(q) \in Nat
BY HeadTailProperties, LenProperties

LEMMA AppendFacts ==
  ASSUME NEW S, NEW q \in Seq(S), NEW x \in S
  PROVE  Append(q, x) \in Seq(S) /\ Len(Append(q, x)) = Len(q) + 1 /\ Len(q) \in Nat
BY LenProperties

LEMMA SizeFacts == Backlog \in Nat \ {0} /\ DoneCap \in Nat /\ MaxConn \in Nat \ {0}
<1>1. Cardinality(Worker) \in Nat
  BY WorkersAssumption, FS_CardinalityType
<1>. QED BY <1>1, SizesAssumption DEF DoneCap

LEMMA AcceptKeeps ==
  ASSUME QInv, NEW s \in Slot, SInv, Pool!Accept(JobOf(s))
  PROVE  /\ pool' = pool /\ busy' = busy /\ line' = Append(line, JobOf(s))
         /\ line' \in Seq(Job) /\ Len(line') <= Backlog
<1>1. JobOf(s) \in Job
  BY SizesAssumption DEF JobOf, Job, SInv, SlotTypes
<1>2. /\ pool' = pool /\ busy' = busy /\ line' = Append(line, JobOf(s)) /\ Len(line) < Backlog
  BY DEF Pool!Accept
<1>3. line' \in Seq(Job) /\ Len(line') = Len(line) + 1 /\ Len(line) \in Nat
  BY <1>1, <1>2, AppendFacts DEF QInv, PoolTypes
<1>. QED BY <1>2, <1>3, SizeFacts

\* The executor's part of a step that may serve.
LEMMA ServingKeeps ==
  ASSUME QInv, SInv, NEW s \in Slot, MayServe(s) \/ Quiet(s), wpc' = wpc
  PROVE  PoolTypes'
<1>1. CASE Pool!Accept(JobOf(s))
  BY <1>1, AcceptKeeps DEF QInv, PoolTypes
<1>2. CASE UNCHANGED executor
  BY <1>2 DEF executor, QInv, PoolTypes
<1>. QED BY <1>1, <1>2 DEF MayServe, Quiet

LEMMA LoopStep ==
  ASSUME SInv, QInv, NEW s \in Slot,
         \/ Reads(s) \/ ReadsAhead(s) \/ Writes(s) \/ PumpsBody(s) \/ Drains(s)
         \/ ResumesBody(s) \/ ResumesStream(s) \/ Evicts(s)
  PROVE  /\ SInv' /\ ((Clean(conn[s]) /\ MayServe(s)) \/ Quiet(s))
         /\ QInv' /\ UNCHANGED <<todo, workers>>
<1>1. SInv' /\ ((Clean(conn[s]) /\ MayServe(s)) \/ Quiet(s))
  BY ReadsStep, ReadsAheadStep, WritesStep, PumpStep, DrainsStep, ResumesStreamStep, EvictsStep
<1>2. /\ UNCHANGED <<phase, woken, todo, run, wpc, done, dropped, wakeFd, stopping>>
      /\ scan' \subseteq scan
  BY DEF Reads, ReadsAhead, Writes, PumpsBody, Drains, ResumesBody, ResumesStream, Evicts,
         Handles, Scans, loop, workers
<1>3. PoolTypes'
  BY <1>1, <1>2, ServingKeeps
<1>4. LoopTypes' /\ QueueTypes'
  BY <1>2 DEF QInv, LoopTypes, QueueTypes
<1>. QED BY <1>1, <1>2, <1>3, <1>4 DEF QInv, workers

\* The steps that leave the slots, the jobs and the workers alone.
Internal == DrainEnds \/ ResumeEnds \/ Waits \/ EventsEnd \/ SweepEnds \/ Stop

LEMMA InternalStep ==
  ASSUME SInv, QInv, Internal
  PROVE  SInv' /\ QInv' /\ UNCHANGED <<slots, executor, workers, todo>>
<1>1. /\ UNCHANGED <<slots, executor, workers, todo, run>>
      /\ scan' \subseteq Slot /\ woken' \in BOOLEAN /\ wakeFd' \in BOOLEAN /\ stopping' \in BOOLEAN
  BY DEF Internal, DrainEnds, ResumeEnds, Waits, EventsEnd, SweepEnds, Stop, QInv, LoopTypes,
         loop, workers
<1>2. /\ phase' \in {"tick", "events", "drain", "resume", "sweep", "returned", "join", "closed"}
      /\ phase' # "drain" => todo = <<>>
  BY DEF Internal, DrainEnds, ResumeEnds, Waits, EventsEnd, SweepEnds, Stop, QInv, LoopTypes,
         QueueTypes, loop
<1>3. QInv'
  BY <1>1, <1>2 DEF QInv, LoopTypes, QueueTypes, PoolTypes, executor, workers
<1>4. SInv'
  BY <1>1, KeptFacts DEF slots, Active, SInv, SlotTypes
<1>. QED BY <1>1, <1>3, <1>4

LEMMA AcceptsStep ==
  ASSUME SInv, QInv, Accepts
  PROVE  SInv' /\ QInv'
<1>1. UNCHANGED <<loop, executor, workers, wakeFd, stopping>>
  BY DEF Accepts
<1>. QED BY <1>1, AcceptsFacts
         DEF QInv, LoopTypes, QueueTypes, PoolTypes, loop, executor, workers

LEMMA SlotsKept ==
  ASSUME SInv, UNCHANGED slots
  PROVE  SInv'
BY KeptFacts DEF slots, Active, SInv, SlotTypes

LEMMA HandlesWakeStep ==
  ASSUME SInv, QInv, HandlesWake
  PROVE  /\ SInv' /\ QInv'
         /\ UNCHANGED <<slots, executor, wpc, dropped>>
         /\ todo = <<>> /\ todo' = done /\ done' = <<>>
<1>1. /\ UNCHANGED <<slots, scan, run, executor, wpc, dropped, wakeFd, stopping>>
      /\ phase = "events" /\ phase' = "drain" /\ todo' = done /\ done' = <<>> /\ woken' = FALSE
  BY DEF HandlesWake
<1>2. done' \in Seq(Job) /\ Len(done') <= DoneCap
  BY <1>1, SizeFacts, EmptySeq
<1>3. todo = <<>>
  BY <1>1 DEF QInv, QueueTypes
<1>4. QInv'
  BY <1>1, <1>2 DEF QInv, LoopTypes, QueueTypes, PoolTypes, executor
<1>. QED BY <1>1, <1>3, <1>4, SlotsKept

LEMMA DiscardsStep ==
  ASSUME SInv, QInv, Discards
  PROVE  SInv' /\ QInv'
<1>1. /\ todo # <<>> /\ todo' = Tail(todo) /\ phase = "drain" /\ phase' = phase
      /\ UNCHANGED <<slots, woken, scan, run, executor, workers, wakeFd, stopping>>
  BY DEF Discards
<1>2. todo' \in Seq(Job)
  BY <1>1, HeadFacts DEF QInv, QueueTypes
<1>3. QInv'
  BY <1>1, <1>2 DEF QInv, LoopTypes, QueueTypes, PoolTypes, executor, workers
<1>. QED BY <1>1, <1>3, SlotsKept

LEMMA AttachesKeep ==
  ASSUME SInv, QInv, Attaches
  PROVE  SInv' /\ QInv'
<1>1. /\ todo # <<>> /\ todo' = Tail(todo) /\ phase = "drain" /\ phase' = phase
      /\ UNCHANGED <<woken, scan, run, workers, wakeFd, stopping>>
  BY DEF Attaches
<1>2. todo' \in Seq(Job)
  BY <1>1, HeadFacts DEF QInv, QueueTypes
<1>3. PoolTypes'
  BY <1>1, AttachesStep, ServingKeeps DEF workers
<1>4. QInv'
  BY <1>1, <1>2, <1>3 DEF QInv, LoopTypes, QueueTypes, workers
<1>. QED BY <1>4, AttachesStep

\* The steps that close many connections: the stop begins, run returns, and Server.close
\* has joined the pool.
Ends == BeginsStop \/ RunReturns \/ Joined

LEMMA EndsStep ==
  ASSUME SInv, QInv, Ends
  PROVE  /\ SInv' /\ QInv'
         /\ \E ss \in SUBSET Active :
              Closes(ss) /\ (done' = done \/ (done' = <<>> /\ ss = Active))
         /\ UNCHANGED <<line, busy, wpc, todo, dropped>>
<1>1. \E ss \in SUBSET Active :
        Closes(ss) /\ (done' = done \/ (done' = <<>> /\ ss = Active))
  <2>1. {s \in Slot : Idle(s)} \in SUBSET Active
    BY DEF Idle, Active
  <2>2. CASE BeginsStop
    <3>1. Closes({s \in Slot : Idle(s)}) /\ UNCHANGED workers
      BY <2>2 DEF BeginsStop
    <3>. QED BY <2>1, <3>1 DEF workers
  <2>3. CASE RunReturns
    <3>1. Closes(Active) /\ UNCHANGED workers
      BY <2>3 DEF RunReturns
    <3>. QED BY <3>1 DEF workers
  <2>4. CASE Joined
    BY <2>4 DEF Joined
  <2>. QED BY <2>2, <2>3, <2>4 DEF Ends
<1>2. SInv'
  BY <1>1, ClosesFacts
<1>3. /\ UNCHANGED <<line, busy, wpc, todo, dropped, scan, woken, wakeFd, stopping>>
      /\ done' = done \/ done' = <<>>
      /\ pool' \in {pool, "closed"} /\ run' \in {run, "draining"}
      /\ phase' \in {"tick", "returned", "closed"} /\ phase # "drain"
  <2>1. CASE BeginsStop
    <3>1. /\ UNCHANGED <<executor, workers, todo, scan, woken, wakeFd, stopping, phase>>
          /\ run' = "draining" /\ phase = "tick"
      BY <2>1 DEF BeginsStop
    <3>. QED BY <3>1 DEF executor, workers
  <2>2. CASE RunReturns
    <3>1. /\ UNCHANGED <<executor, workers, todo, scan, woken, wakeFd, stopping, run>>
          /\ phase = "tick" /\ phase' = "returned"
      BY <2>2 DEF RunReturns
    <3>. QED BY <3>1 DEF executor, workers
  <2>3. CASE Joined
    BY <2>3 DEF Joined, Pool!Closed
  <2>. QED BY <2>1, <2>2, <2>3 DEF Ends
<1>4. done' \in Seq(Job) /\ Len(done') <= DoneCap
  <2>1. done \in Seq(Job) /\ Len(done) <= DoneCap
    BY DEF QInv, QueueTypes
  <2>2. <<>> \in Seq(Job) /\ Len(<<>>) = 0 /\ 0 <= DoneCap
    BY EmptySeq, SizeFacts
  <2>3. CASE done' = done
    BY <2>1, <2>3
  <2>4. CASE done' = <<>>
    BY <2>2, <2>4
  <2>. QED BY <1>3, <2>3, <2>4
<1>5. LoopTypes'
  BY <1>3 DEF QInv, LoopTypes
<1>6. QueueTypes'
  BY <1>3, <1>4 DEF QInv, QueueTypes
<1>7. PoolTypes'
  BY <1>3 DEF QInv, PoolTypes
<1>. QED BY <1>1, <1>2, <1>3, <1>5, <1>6, <1>7 DEF QInv

LEMMA ServerClosesStep ==
  ASSUME SInv, QInv, ServerCloses
  PROVE  /\ SInv' /\ QInv'
         /\ UNCHANGED <<slots, line, busy, wpc, done, dropped, todo>>
<1>1. /\ UNCHANGED <<slots, line, busy, woken, todo, scan, run, workers, wakeFd, stopping>>
      /\ pool' = "closing" /\ phase' = "join" /\ phase # "drain"
  BY DEF ServerCloses, Pool!Close
<1>2. QInv'
  BY <1>1 DEF QInv, LoopTypes, QueueTypes, PoolTypes, workers
<1>. QED BY <1>1, <1>2, SlotsKept DEF workers

LEMMA StartsStep ==
  ASSUME SInv, QInv, NEW w \in Worker, Starts(w)
  PROVE  /\ SInv' /\ QInv'
         /\ UNCHANGED <<slots, todo, done, dropped>>
         /\ line # <<>> /\ line' = Tail(line)
         /\ wpc[w] # "handler"
         /\ busy' = [busy EXCEPT ![w] = Head(line)] /\ wpc' = [wpc EXCEPT ![w] = "handler"]
<1>1. /\ UNCHANGED <<slots, loop, pool, done, dropped, wakeFd, stopping>>
      /\ line # <<>> /\ busy[w] = None /\ line' = Tail(line)
      /\ busy' = [busy EXCEPT ![w] = Head(line)] /\ wpc' = [wpc EXCEPT ![w] = "handler"]
  BY DEF Starts, Pool!Start
<1>2. /\ Head(line) \in Job /\ line' \in Seq(Job)
      /\ Len(line') = Len(line) - 1 /\ Len(line) \in Nat /\ Len(line) <= Backlog
  BY <1>1, HeadFacts DEF QInv, PoolTypes
<1>3. Len(line') <= Backlog
  BY <1>2, SizeFacts
<1>4. Head(line) # None
  BY <1>2, WorkersAssumption
<1>5. /\ busy \in [Worker -> Job \union {None}]
      /\ wpc \in [Worker -> {"idle", "handler", "waking", "pumping"}]
      /\ \A v \in Worker : wpc[v] = "idle" <=> busy[v] = None
  BY DEF QInv, PoolTypes
<1>6. /\ busy' \in [Worker -> Job \union {None}]
      /\ wpc' \in [Worker -> {"idle", "handler", "waking", "pumping"}]
      /\ \A v \in Worker : wpc'[v] = "idle" <=> busy'[v] = None
  BY <1>1, <1>2, <1>4, <1>5
<1>7. QInv'
  BY <1>1, <1>2, <1>3, <1>6 DEF QInv, LoopTypes, QueueTypes, PoolTypes, loop
<1>. QED BY <1>1, <1>5, <1>7, SlotsKept DEF loop

LEMMA QueuesStep ==
  ASSUME SInv, QInv, NEW w \in Worker, Queues(w)
  PROVE  /\ SInv' /\ QInv'
         /\ UNCHANGED <<slots, todo, line, busy>>
         /\ wpc[w] = "handler" /\ wpc' = [wpc EXCEPT ![w] = "waking"] /\ busy[w] \in Job
         /\ \/ done' = Append(done, busy[w]) /\ dropped' = dropped
            \/ done' = done /\ dropped' = dropped \union {busy[w]}
<1>1. /\ UNCHANGED <<slots, loop, executor, wakeFd, stopping>>
      /\ wpc[w] = "handler" /\ wpc' = [wpc EXCEPT ![w] = "waking"]
      /\ IF Len(done) < DoneCap THEN done' = Append(done, busy[w]) /\ dropped' = dropped
         ELSE dropped' = dropped \union {busy[w]} /\ done' = done
  BY DEF Queues
<1>2. busy[w] \in Job
  BY <1>1 DEF QInv, PoolTypes
<1>3. done' \in Seq(Job) /\ Len(done') <= DoneCap /\ dropped' \subseteq Job
  <2>1. done \in Seq(Job) /\ Len(done) \in Nat /\ Len(done) <= DoneCap /\ dropped \subseteq Job
        /\ Append(done, busy[w]) \in Seq(Job) /\ Len(Append(done, busy[w])) = Len(done) + 1
    BY <1>2, AppendFacts DEF QInv, QueueTypes
  <2>2. CASE Len(done) < DoneCap
    BY <1>1, <2>1, <2>2, SizeFacts
  <2>3. CASE ~(Len(done) < DoneCap)
    BY <1>1, <1>2, <2>1, <2>3
  <2>. QED BY <2>2, <2>3
<1>4. PoolTypes'
  BY <1>1, <1>2 DEF QInv, PoolTypes, executor
<1>5. QInv'
  BY <1>1, <1>3, <1>4 DEF QInv, LoopTypes, QueueTypes, loop
<1>6. UNCHANGED <<slots, todo, line, busy>>
  BY <1>1 DEF loop, executor
<1>. QED BY <1>1, <1>2, <1>5, <1>6, SlotsKept

LEMMA WakingStep ==
  ASSUME SInv, QInv, NEW w \in Worker, WakesLoop(w) \/ Returns(w)
  PROVE  /\ SInv' /\ QInv'
         /\ UNCHANGED <<slots, todo, line, done, dropped>>
         /\ wpc[w] # "handler" /\ wpc'[w] # "handler"
         /\ \A v \in Worker : v # w => wpc'[v] = wpc[v] /\ busy'[v] = busy[v]
<1>1. /\ UNCHANGED <<slots, loop, pool, line, done, dropped, stopping>>
      /\ wakeFd' \in BOOLEAN /\ wpc[w] \in {"waking", "pumping"}
      /\ \/ wpc' = [wpc EXCEPT ![w] = "pumping"] /\ busy' = busy
         \/ wpc' = [wpc EXCEPT ![w] = "idle"] /\ busy' = [busy EXCEPT ![w] = None]
  BY DEF WakesLoop, Returns, Pool!Return, QInv, LoopTypes, executor
<1>2. PoolTypes'
  BY <1>1 DEF QInv, PoolTypes
<1>3. QInv'
  BY <1>1, <1>2 DEF QInv, LoopTypes, QueueTypes, loop
<1>4. wpc'[w] # "handler" /\ \A v \in Worker : v # w => wpc'[v] = wpc[v] /\ busy'[v] = busy[v]
  BY <1>1 DEF QInv, PoolTypes
<1>. QED BY <1>1, <1>3, <1>4, SlotsKept DEF loop

LEMMA StutterStep ==
  ASSUME SInv, QInv, UNCHANGED vars
  PROVE  /\ SInv' /\ QInv'
         /\ UNCHANGED <<slots, executor, workers, todo>>
<1>1. UNCHANGED <<slots, loop, executor, workers, wakeFd, stopping>>
  BY DEF vars
<1>. QED BY <1>1, SlotsKept
         DEF QInv, LoopTypes, QueueTypes, PoolTypes, loop, executor, workers

-----------------------------------------------------------------------------
(* The slots are sound.                                                    *)

LEMMA InitSlots == Init => SInv /\ QInv
<1>. SUFFICES ASSUME Init PROVE SInv /\ QInv
  OBVIOUS
<1>1. /\ conn = [s \in Slot |-> Free] /\ gen = [s \in Slot |-> 0]
      /\ free = [i \in 1..MaxConn |-> i - 1]
  BY DEF Init
<1>2. MaxConn \in Nat \ {0} /\ MaxAccepts \in Nat
  BY SizesAssumption
<1>3. free \in Seq(Slot) /\ DOMAIN free = 1..MaxConn /\ \A i \in DOMAIN free : free[i] = i - 1
  <2>1. \A i \in 1..MaxConn : i - 1 \in Slot
    BY <1>2 DEF Slot
  <2>2. free \in [1..MaxConn -> Slot]
    BY <1>1, <2>1
  <2>3. free \in Seq(Slot)
    BY <1>2, <2>2
  <2>. QED BY <1>1, <2>3
<1>4. \A s \in Slot : s + 1 \in DOMAIN free /\ (s + 1) - 1 = s
  BY <1>2, <1>3 DEF Slot
<1>5. Free \in Conn /\ Free.state = "free" /\ Sound(Free)
  BY FreeFacts DEF Sound
<1>6. SlotTypes
  BY <1>1, <1>2, <1>3, <1>5 DEF SlotTypes
<1>7. FreeListSound
  <2>1. \A s \in Slot : conn[s].state = "free" /\ \E i \in DOMAIN free : free[i] = s
    BY <1>1, <1>3, <1>4, <1>5
  <2>2. \A i, j \in DOMAIN free : free[i] = free[j] => i = j
    BY <1>2, <1>3
  <2>. QED BY <2>1, <2>2 DEF FreeListSound
<1>8. Accepted <= MaxAccepts
  <2>1. \A c \in Slot \X (0..MaxAccepts) : ~(c[2] < gen[c[1]]) /\ c[1] \notin Active
    BY <1>1, <1>5 DEF Active
  <2>2. Opened = {}
    BY <2>1 DEF Opened
  <2>. QED BY <1>2, <2>2, FS_EmptySet DEF Accepted, Opened
<1>9. LoopTypes
  BY DEF Init, LoopTypes
<1>10. QueueTypes
  BY SizeFacts, EmptySeq DEF Init, QueueTypes
<1>11. PoolTypes
  <2>1. line \in Seq(Job) /\ Len(line) <= Backlog
    BY SizeFacts, EmptySeq DEF Init
  <2>. QED BY <2>1 DEF Init, PoolTypes
<1>. QED BY <1>6, <1>7, <1>8, <1>9, <1>10, <1>11 DEF SInv, QInv

\* The steps of Next, as the lemmas group them.
Step ==
  \/ \E s \in Slot : \/ Reads(s) \/ ReadsAhead(s) \/ Writes(s) \/ PumpsBody(s) \/ Drains(s)
                     \/ ResumesBody(s) \/ ResumesStream(s) \/ Evicts(s)
  \/ Accepts \/ HandlesWake \/ Discards \/ Attaches
  \/ Internal \/ Ends \/ ServerCloses
  \/ \E w \in Worker : Starts(w) \/ Queues(w) \/ WakesLoop(w) \/ Returns(w)
  \/ UNCHANGED vars

LEMMA NextIsStep == [Next]_vars => Step
BY DEF Next, Tick, WorkerStep, Closed, Step, Internal, Ends

LEMMA NextSlots == SInv /\ QInv /\ [Next]_vars => SInv' /\ QInv'
<1>. SUFFICES ASSUME SInv, QInv, Step PROVE SInv' /\ QInv'
  BY NextIsStep
<1>1. CASE \E s \in Slot :
             \/ Reads(s) \/ ReadsAhead(s) \/ Writes(s) \/ PumpsBody(s) \/ Drains(s)
             \/ ResumesBody(s) \/ ResumesStream(s) \/ Evicts(s)
  BY <1>1, LoopStep
<1>2. CASE Accepts
  BY <1>2, AcceptsStep
<1>3. CASE HandlesWake
  BY <1>3, HandlesWakeStep
<1>4. CASE Discards
  BY <1>4, DiscardsStep
<1>5. CASE Attaches
  BY <1>5, AttachesKeep
<1>6. CASE Internal
  BY <1>6, InternalStep
<1>7. CASE Ends
  BY <1>7, EndsStep
<1>8. CASE ServerCloses
  BY <1>8, ServerClosesStep
<1>9. CASE \E w \in Worker : Starts(w) \/ Queues(w) \/ WakesLoop(w) \/ Returns(w)
  BY <1>9, StartsStep, QueuesStep, WakingStep
<1>10. CASE UNCHANGED vars
  BY <1>10, StutterStep
<1>. QED BY <1>1, <1>2, <1>3, <1>4, <1>5, <1>6, <1>7, <1>8, <1>9, <1>10 DEF Step

\* Slots, queues and workers keep their types; a connection's generation stays within
\* the connections accepted.
THEOREM TypeCorrect == Spec => []TypeOK
BY InitSlots, NextSlots, Parts, PTL DEF Spec

LEMMA SpecSlots == Spec => [](SInv /\ QInv)
BY InitSlots, NextSlots, PTL DEF Spec

\* A slot is on the free list once when it is free, and not at all otherwise: freeSlot
\* never hands out a slot twice, and none is lost.
THEOREM SlotsAreFreeOnce == Spec => []FreeListSound
BY SpecSlots, Parts, PTL

-----------------------------------------------------------------------------
(* Counting the answers to come.                                           *)

LEMMA TimesType ==
  ASSUME NEW S, NEW q \in Seq(S), NEW j
  PROVE  /\ IsFiniteSet({i \in DOMAIN q : q[i] = j})
         /\ Times(j, q) \in Nat /\ DOMAIN q = 1..Len(q) /\ Len(q) \in Nat
<1>1. Len(q) \in Nat /\ DOMAIN q = 1..Len(q)
  BY LenProperties
<1>2. IsFiniteSet(1..Len(q)) /\ {i \in DOMAIN q : q[i] = j} \in SUBSET (1..Len(q))
  BY <1>1, FS_Interval
<1>. QED BY <1>1, <1>2, FS_Subset, FS_CardinalityType DEF Times

LEMMA TimesEmpty ==
  ASSUME NEW j
  PROVE  Times(j, <<>>) = 0
<1>1. {i \in DOMAIN <<>> : <<>>[i] = j} = {}
  OBVIOUS
<1>. QED BY <1>1, FS_EmptySet DEF Times

LEMMA TimesAppend ==
  ASSUME NEW S, NEW q \in Seq(S), NEW x \in S, NEW j
  PROVE  Times(j, Append(q, x)) = Times(j, q) + (IF j = x THEN 1 ELSE 0)
<1>. DEFINE p == Append(q, x)
            A == {i \in DOMAIN q : q[i] = j}
            B == {i \in DOMAIN p : p[i] = j}
            n == Len(q)
<1>1. n \in Nat /\ DOMAIN q = 1..n /\ IsFiniteSet(A) /\ Cardinality(A) \in Nat
  BY TimesType, FS_CardinalityType
<1>2. /\ p \in Seq(S) /\ Len(p) = n + 1 /\ \A i \in 1..n : p[i] = q[i]
      /\ p[n + 1] = x
  BY <1>1
<1>3. DOMAIN p = 1..(n + 1)
  BY <1>2, LenProperties
<1>. HIDE DEF p, n
<1>4. CASE j = x
  <2>1. B = A \union {n + 1} /\ n + 1 \notin A
    BY <1>1, <1>2, <1>3, <1>4
  <2>2. Cardinality(B) = Cardinality(A) + 1
    BY <1>1, <2>1, FS_AddElement
  <2>. QED BY <1>4, <2>2 DEF Times, p
<1>5. CASE j # x
  <2>1. B = A
    BY <1>1, <1>2, <1>3, <1>5
  <2>2. Times(j, p) = Times(j, q) /\ Times(j, q) \in Nat
    BY <1>1, <2>1 DEF Times
  <2>. QED BY <1>5, <2>2 DEF p
<1>. QED BY <1>4, <1>5

LEMMA TimesTail ==
  ASSUME NEW S, NEW q \in Seq(S), q # <<>>, NEW j
  PROVE  Times(j, q) = Times(j, Tail(q)) + (IF j = Head(q) THEN 1 ELSE 0)
<1>. DEFINE p == Tail(q)
            n == Len(q)
            A == {i \in DOMAIN p : p[i] = j}
            B == {i \in 2..n : q[i] = j}
            C == {i \in DOMAIN q : q[i] = j}
            f == [i \in A |-> i + 1]
<1>1. n \in Nat \ {0} /\ DOMAIN q = 1..n /\ Head(q) = q[1]
  BY EmptySeq, LenProperties
<1>2. p \in Seq(S) /\ Len(p) = n - 1 /\ \A i \in 1..(n - 1) : p[i] = q[i + 1]
  BY HeadTailProperties
<1>3. DOMAIN p = 1..(n - 1) /\ IsFiniteSet(A)
  BY <1>2, LenProperties, TimesType
<1>. HIDE DEF p, n
<1>4. f \in [A -> B] /\ (\A a, b \in A : f[a] = f[b] => a = b) /\ \A b \in B : \E a \in A : f[a] = b
  <2>1. \A a \in A : a + 1 \in B /\ a \in Int
    BY <1>1, <1>2, <1>3
  <2>2. \A b \in B : b - 1 \in A /\ (b - 1) + 1 = b
    BY <1>1, <1>2, <1>3
  <2>. QED BY <2>1, <2>2
<1>5. ExistsBijection(A, B)
  BY <1>4 DEF ExistsBijection, Bijection, Injection, IsInjective, Surjection
<1>6. IsFiniteSet(B) /\ Cardinality(B) = Cardinality(A) /\ Cardinality(B) \in Nat
  BY <1>3, <1>5, FS_Bijection, FS_CardinalityType
<1>7. CASE j = Head(q)
  <2>1. C = B \union {1} /\ 1 \notin B
    BY <1>1, <1>7
  <2>2. Cardinality(C) = Cardinality(B) + 1
    BY <1>6, <2>1, FS_AddElement
  <2>. QED BY <1>6, <1>7, <2>2 DEF Times, p
<1>8. CASE j # Head(q)
  <2>1. C = B
    BY <1>1, <1>8
  <2>2. Times(j, q) = Times(j, p) /\ Times(j, q) \in Nat
    BY <1>6, <2>1 DEF Times
  <2>. QED BY <1>8, <2>2 DEF p
<1>. QED BY <1>7, <1>8

\* The workers that are executing j.
Running(j) == Cardinality({w \in Worker : wpc[w] = "handler" /\ busy[w] = j})

LEMMA RunningFinite ==
  ASSUME NEW j
  PROVE  /\ IsFiniteSet({w \in Worker : wpc[w] = "handler" /\ busy[w] = j})
         /\ Running(j) \in Nat
<1>1. {w \in Worker : wpc[w] = "handler" /\ busy[w] = j} \in SUBSET Worker
  OBVIOUS
<1>. QED BY <1>1, WorkersAssumption, FS_Subset, FS_CardinalityType DEF Running

LEMMA OutstandingType ==
  ASSUME QInv, NEW j
  PROVE  /\ Times(j, line) \in Nat /\ Times(j, done) \in Nat /\ Times(j, todo) \in Nat
         /\ Running(j) \in Nat /\ Outstanding(j) \in Nat
         /\ Outstanding(j) = Times(j, line) + Times(j, done) + Times(j, todo) + Running(j)
<1>1. Times(j, line) \in Nat /\ Times(j, done) \in Nat /\ Times(j, todo) \in Nat
  BY TimesType DEF QInv, PoolTypes, QueueTypes
<1>2. Running(j) \in Nat
  BY RunningFinite
<1>3. Outstanding(j) = Times(j, line) + Times(j, done) + Times(j, todo) + Running(j)
  BY DEF Outstanding, Running
<1>. QED BY <1>1, <1>2, <1>3

LEMMA OutstandingTypeThen ==
  ASSUME QInv'
  PROVE  \A j : Outstanding(j)' \in Nat
<1>1. TAKE j
<1>2. Times(j, line)' \in Nat /\ Times(j, done)' \in Nat /\ Times(j, todo)' \in Nat
  <2>1. line' \in Seq(Job) /\ done' \in Seq(Job) /\ todo' \in Seq(Job)
    BY DEF QInv, QueueTypes, PoolTypes
  <2>2. Times(j, line') \in Nat /\ Times(j, done') \in Nat /\ Times(j, todo') \in Nat
    BY <2>1, TimesType
  <2>. QED BY <2>2 DEF Times
<1>3. Cardinality({w \in Worker : wpc'[w] = "handler" /\ busy'[w] = j}) \in Nat
  <2>1. {w \in Worker : wpc'[w] = "handler" /\ busy'[w] = j} \in SUBSET Worker
    OBVIOUS
  <2>. QED BY <2>1, WorkersAssumption, FS_Subset, FS_CardinalityType
<1>4. Outstanding(j)' = Times(j, line)' + Times(j, done)' + Times(j, todo)'
                          + Cardinality({w \in Worker : wpc'[w] = "handler" /\ busy'[w] = j})
  BY DEF Outstanding
<1>. QED BY <1>2, <1>3, <1>4

\* What the steps do to the number of answers to come.
LEMMA CountSame ==
  ASSUME UNCHANGED <<line, done, todo, wpc, busy>>
  PROVE  \A j : Outstanding(j)' = Outstanding(j)
BY DEF Outstanding

LEMMA CountAccept ==
  ASSUME QInv, QInv', NEW x \in Job, line' = Append(line, x), UNCHANGED <<done, todo, wpc, busy>>
  PROVE  \A j : Outstanding(j)' = Outstanding(j) + (IF j = x THEN 1 ELSE 0)
<1>1. TAKE j
<1>2. Times(j, line)' = Times(j, line) + (IF j = x THEN 1 ELSE 0)
  <2>1. Times(j, line)' = Times(j, Append(line, x))
    BY DEF Times
  <2>. QED BY <2>1, TimesAppend DEF QInv, PoolTypes
<1>3. Times(j, done)' = Times(j, done) /\ Times(j, todo)' = Times(j, todo) /\ Running(j)' = Running(j)
  BY DEF Times, Running
<1>4. Outstanding(j)' = Times(j, line)' + Times(j, done)' + Times(j, todo)' + Running(j)'
  BY DEF Outstanding, Running
<1>. QED BY <1>2, <1>3, <1>4, OutstandingType

LEMMA CountTakes ==
  ASSUME QInv, todo # <<>>, todo' = Tail(todo), UNCHANGED <<done, wpc>>,
         busy' = busy, NEW n \in {0, 1}, NEW x \in Job,
         n = 0 => line' = line, n = 1 => line' = Append(line, x)
  PROVE  \A j : Outstanding(j) = Outstanding(j)' + (IF j = Head(todo) THEN 1 ELSE 0)
                                                 - (IF n = 1 /\ j = x THEN 1 ELSE 0)
<1>1. TAKE j
<1>2. Times(j, todo) = Times(j, todo)' + (IF j = Head(todo) THEN 1 ELSE 0)
  <2>1. Times(j, todo)' = Times(j, Tail(todo))
    BY DEF Times
  <2>. QED BY <2>1, TimesTail DEF QInv, QueueTypes
<1>3. Times(j, line)' = Times(j, line) + (IF n = 1 /\ j = x THEN 1 ELSE 0)
  <2>1. CASE n = 0
    <3>1. Times(j, line)' = Times(j, line)
      BY <2>1 DEF Times
    <3>. QED BY <2>1, <3>1, OutstandingType
  <2>2. CASE n = 1
    <3>1. Times(j, line)' = Times(j, Append(line, x))
      BY <2>2 DEF Times
    <3>. QED BY <2>2, <3>1, TimesAppend DEF QInv, PoolTypes
  <2>. QED BY <2>1, <2>2
<1>4. Times(j, done)' = Times(j, done) /\ Running(j)' = Running(j)
  BY DEF Times, Running
<1>5. Outstanding(j)' = Times(j, line)' + Times(j, done)' + Times(j, todo)' + Running(j)'
  BY DEF Outstanding, Running
<1>6. Times(j, todo)' \in Nat
  <2>1. Tail(todo) \in Seq(Job)
    BY HeadFacts DEF QInv, QueueTypes
  <2>2. PICK k \in Nat : Times(j, Tail(todo)) = k
    BY <2>1, TimesType
  <2>3. Times(j, todo)' = k
    BY <2>2 DEF Times
  <2>. QED BY <2>3
<1>7. PICK a \in {0, 1} : a = IF j = Head(todo) THEN 1 ELSE 0
  OBVIOUS
<1>8. PICK b \in {0, 1} : b = IF n = 1 /\ j = x THEN 1 ELSE 0
  OBVIOUS
<1>9. PICK p \in Nat, q \in Nat, r \in Nat, m \in Nat :
        /\ p = Times(j, line) /\ q = Times(j, done) /\ r = Times(j, todo)' /\ m = Running(j)
        /\ Outstanding(j) = p + q + Times(j, todo) + m
  BY <1>6, OutstandingType
<1>10. Times(j, todo) = r + a /\ Times(j, line)' = p + b
  BY <1>2, <1>3, <1>7, <1>8, <1>9
<1>11. Outstanding(j)' = (p + b) + q + r + m /\ Outstanding(j) = p + q + (r + a) + m
  BY <1>4, <1>5, <1>9, <1>10
<1>12. Outstanding(j) = Outstanding(j)' + a - b
  BY <1>11
<1>. QED BY <1>7, <1>8, <1>12

LEMMA CountDrained ==
  ASSUME QInv, QInv', UNCHANGED <<executor, wpc>>, todo = <<>>, todo' = done, done' = <<>>
  PROVE  \A j : Outstanding(j)' = Outstanding(j)
<1>1. TAKE j
<1>2. Times(j, todo)' = Times(j, done) /\ Times(j, done)' = Times(j, todo)
  BY DEF Times
<1>3. Times(j, line)' = Times(j, line) /\ Running(j)' = Running(j)
  BY DEF Times, Running, executor
<1>4. Outstanding(j)' = Times(j, line)' + Times(j, done)' + Times(j, todo)' + Running(j)'
  BY DEF Outstanding, Running
<1>. QED BY <1>2, <1>3, <1>4, OutstandingType

LEMMA CountForgets ==
  ASSUME QInv, UNCHANGED <<line, busy, wpc, todo>>, done' = <<>>
  PROVE  \A j : Outstanding(j)' <= Outstanding(j) /\ Outstanding(j)' \in Nat
<1>1. TAKE j
<1>2. Times(j, done)' = 0
  <2>1. Times(j, done)' = Times(j, <<>>)
    BY DEF Times
  <2>. QED BY <2>1, TimesEmpty
<1>3. /\ Times(j, line)' = Times(j, line) /\ Times(j, todo)' = Times(j, todo)
      /\ Running(j)' = Running(j)
  BY DEF Times, Running
<1>4. Outstanding(j)' = Times(j, line)' + Times(j, done)' + Times(j, todo)' + Running(j)'
  BY DEF Outstanding, Running
<1>. QED BY <1>2, <1>3, <1>4, OutstandingType

LEMMA CountStarts ==
  ASSUME QInv, NEW w \in Worker, line # <<>>, line' = Tail(line), wpc[w] # "handler",
         busy' = [busy EXCEPT ![w] = Head(line)], wpc' = [wpc EXCEPT ![w] = "handler"],
         UNCHANGED <<todo, done>>
  PROVE  \A j : Outstanding(j)' = Outstanding(j)
<1>1. TAKE j
<1>. DEFINE R == {v \in Worker : wpc[v] = "handler" /\ busy[v] = j}
<1>2. /\ wpc'[w] = "handler" /\ busy'[w] = Head(line)
      /\ \A v \in Worker : v # w => wpc'[v] = wpc[v] /\ busy'[v] = busy[v]
  BY DEF QInv, PoolTypes
<1>3. Running(j)' = Running(j) + (IF j = Head(line) THEN 1 ELSE 0)
  <2>1. Running(j)' = Cardinality({v \in Worker : wpc'[v] = "handler" /\ busy'[v] = j})
    BY DEF Running
  <2>2. IsFiniteSet(R) /\ Running(j) = Cardinality(R) /\ Running(j) \in Nat /\ w \notin R
    BY RunningFinite DEF Running
  <2>3. CASE j = Head(line)
    <3>1. {v \in Worker : wpc'[v] = "handler" /\ busy'[v] = j} = R \union {w}
      BY <1>2, <2>3
    <3>2. Cardinality(R \union {w}) = Cardinality(R) + 1
      BY <2>2, FS_AddElement
    <3>. QED BY <2>1, <2>2, <2>3, <3>1, <3>2
  <2>4. CASE j # Head(line)
    <3>1. {v \in Worker : wpc'[v] = "handler" /\ busy'[v] = j} = R
      BY <1>2, <2>4
    <3>2. Running(j)' = Running(j)
      BY <2>1, <2>2, <3>1
    <3>. QED BY <2>2, <2>4, <3>2
  <2>. QED BY <2>3, <2>4
<1>4. Times(j, line) = Times(j, line)' + (IF j = Head(line) THEN 1 ELSE 0)
      /\ Times(j, line)' \in Nat
  <2>1. Times(j, line)' = Times(j, Tail(line))
    BY DEF Times
  <2>2. Tail(line) \in Seq(Job) /\ line \in Seq(Job)
    BY HeadFacts DEF QInv, PoolTypes
  <2>. QED BY <2>1, <2>2, TimesTail, TimesType
<1>5. Times(j, done)' = Times(j, done) /\ Times(j, todo)' = Times(j, todo)
  BY DEF Times
<1>6. Outstanding(j)' = Times(j, line)' + Times(j, done)' + Times(j, todo)' + Running(j)'
  BY DEF Outstanding, Running
<1>. QED BY <1>3, <1>4, <1>5, <1>6, OutstandingType

LEMMA CountQueues ==
  ASSUME QInv, NEW w \in Worker, wpc[w] = "handler", wpc' = [wpc EXCEPT ![w] = "waking"],
         busy[w] \in Job, UNCHANGED <<todo, line, busy>>
  PROVE  /\ done' = Append(done, busy[w]) => \A j : Outstanding(j)' = Outstanding(j)
         /\ done' = done => \A j : Outstanding(j) = Outstanding(j)' + (IF j = busy[w] THEN 1 ELSE 0)
                                   /\ Outstanding(j)' \in Nat
<1>1. ASSUME NEW j
      PROVE  /\ Running(j) = Running(j)' + (IF j = busy[w] THEN 1 ELSE 0)
             /\ Running(j)' \in Nat
             /\ Times(j, line)' = Times(j, line) /\ Times(j, todo)' = Times(j, todo)
             /\ Outstanding(j)' = Times(j, line)' + Times(j, done)' + Times(j, todo)' + Running(j)'
  <2>. DEFINE R == {v \in Worker : wpc[v] = "handler" /\ busy[v] = j}
  <2>1. wpc'[w] = "waking" /\ \A v \in Worker : v # w => wpc'[v] = wpc[v]
    BY DEF QInv, PoolTypes
  <2>2. {v \in Worker : wpc'[v] = "handler" /\ busy'[v] = j} = R \ {w}
    BY <2>1
  <2>3. Running(j)' = Cardinality(R \ {w})
    BY <2>2 DEF Running
  <2>4. IsFiniteSet(R) /\ Running(j) = Cardinality(R) /\ Running(j) \in Nat
    BY RunningFinite DEF Running
  <2>5. /\ Cardinality(R \ {w}) = IF w \in R THEN Cardinality(R) - 1 ELSE Cardinality(R)
        /\ Cardinality(R \ {w}) \in Nat
    BY <2>4, FS_RemoveElement, FS_CardinalityType
  <2>6. w \in R <=> j = busy[w]
    OBVIOUS
  <2>7. Times(j, line)' = Times(j, line) /\ Times(j, todo)' = Times(j, todo)
    BY DEF Times
  <2>8. Outstanding(j)' = Times(j, line)' + Times(j, done)' + Times(j, todo)' + Running(j)'
    BY DEF Outstanding, Running
  <2>. HIDE DEF R
  <2>9. Running(j) = Running(j)' + (IF j = busy[w] THEN 1 ELSE 0)
    BY <2>3, <2>4, <2>5, <2>6
  <2>. QED BY <2>3, <2>5, <2>7, <2>8, <2>9
<1>2. ASSUME done' = Append(done, busy[w]), NEW j PROVE Outstanding(j)' = Outstanding(j)
  <2>1. Times(j, done)' = Times(j, Append(done, busy[w]))
    BY <1>2 DEF Times
  <2>2. Times(j, done)' = Times(j, done) + (IF j = busy[w] THEN 1 ELSE 0)
    BY <2>1, TimesAppend DEF QInv, QueueTypes
  <2>. QED BY <1>1, <2>2, OutstandingType
<1>3. ASSUME done' = done, NEW j
      PROVE  Outstanding(j) = Outstanding(j)' + (IF j = busy[w] THEN 1 ELSE 0)
             /\ Outstanding(j)' \in Nat
  <2>1. Times(j, done)' = Times(j, done)
    BY <1>3 DEF Times
  <2>. QED BY <1>1, <2>1, OutstandingType
<1>. QED BY <1>2, <1>3

LEMMA CountWakes ==
  ASSUME QInv, NEW w \in Worker, UNCHANGED <<todo, line, done>>,
         wpc[w] # "handler", wpc'[w] # "handler",
         \A v \in Worker : v # w => wpc'[v] = wpc[v] /\ busy'[v] = busy[v]
  PROVE  \A j : Outstanding(j)' = Outstanding(j)
<1>1. TAKE j
<1>2. {v \in Worker : wpc'[v] = "handler" /\ busy'[v] = j}
        = {v \in Worker : wpc[v] = "handler" /\ busy[v] = j}
  OBVIOUS
<1>. QED BY <1>2 DEF Outstanding

-----------------------------------------------------------------------------
(* Each request is owed one answer.                                        *)

JobAt(s, n) == [slot |-> s, gen |-> n]

\* Nothing was ever dispatched for a generation to come; a request that is free to be
\* dispatched is owed nothing, and one that was is owed its answer until it has it.
OwedAt(s) ==
  /\ conn[s].state = "free" \/ Clean(conn[s]) =>
       Outstanding(JobAt(s, gen[s])) = 0 /\ JobAt(s, gen[s]) \notin dropped
  /\ Waiting(conn[s]) =>
       Outstanding(JobAt(s, gen[s])) = IF JobAt(s, gen[s]) \in dropped THEN 0 ELSE 1
  /\ Outstanding(JobAt(s, gen[s])) <= 1
  /\ \A n \in Nat : n > gen[s] => Outstanding(JobAt(s, n)) = 0 /\ JobAt(s, n) \notin dropped

Owed == \A s \in Slot : OwedAt(s)

LEMMA JobFacts ==
  /\ \A s : JobOf(s) = JobAt(s, gen[s])
  /\ \A s, t, m, n : JobAt(s, m) = JobAt(t, n) <=> s = t /\ m = n
  /\ \A s \in Slot, n \in Nat : JobAt(s, n) \in Job
  /\ \A j \in Job : j = JobAt(j.slot, j.gen) /\ j.slot \in Slot /\ j.gen \in Nat
BY DEF JobOf, JobAt, Job

LEMMA OwedIsOne == QInv /\ Owed => OneAnswerOwed
<1>. SUFFICES ASSUME QInv, Owed, NEW s \in Slot
              PROVE  /\ Outstanding(JobOf(s)) <= 1
                     /\ conn[s].state \in {"handling", "body"} =>
                          Outstanding(JobOf(s)) = IF JobOf(s) \in dropped THEN 0 ELSE 1
                     /\ conn[s].state \in {"reading", "keepalive", "writing"}
                          /\ conn[s].closing = "no" => Outstanding(JobOf(s)) = 0
  BY DEF OneAnswerOwed
<1>1. OwedAt(s) /\ JobOf(s) = JobAt(s, gen[s])
  BY JobFacts DEF Owed
<1>. QED BY <1>1 DEF OwedAt, Waiting, Clean

\* OwedAt of the slot s at the generation g.
LEMMA OwedThen ==
  ASSUME NEW s, NEW g \in Nat, gen'[s] = g,
         (conn'[s].state = "free" \/ Clean(conn'[s])) =>
           Outstanding(JobAt(s, g))' = 0 /\ JobAt(s, g) \notin dropped',
         Waiting(conn'[s]) =>
           Outstanding(JobAt(s, g))' = IF JobAt(s, g) \in dropped' THEN 0 ELSE 1,
         Outstanding(JobAt(s, g))' <= 1,
         \A n \in Nat : n > g => Outstanding(JobAt(s, n))' = 0 /\ JobAt(s, n) \notin dropped'
  PROVE  OwedAt(s)'
BY DEF OwedAt, Waiting, Clean

LEMMA OwedNow ==
  ASSUME NEW s, NEW g \in Nat, gen[s] = g, OwedAt(s)
  PROVE  /\ conn[s].state = "free" \/ Clean(conn[s]) =>
              Outstanding(JobAt(s, g)) = 0 /\ JobAt(s, g) \notin dropped
         /\ Waiting(conn[s]) =>
              Outstanding(JobAt(s, g)) = IF JobAt(s, g) \in dropped THEN 0 ELSE 1
         /\ Outstanding(JobAt(s, g)) <= 1
         /\ \A n \in Nat : n > g => Outstanding(JobAt(s, n)) = 0 /\ JobAt(s, n) \notin dropped
BY DEF OwedAt

\* A slot that is not touched, while no job of its present or coming generations is.
LEMMA OwedKept ==
  ASSUME SInv, NEW s \in Slot, OwedAt(s), conn'[s] = conn[s], gen'[s] = gen[s],
         \A n \in Nat :
           /\ Outstanding(JobAt(s, n))' = Outstanding(JobAt(s, n))
           /\ JobAt(s, n) \in dropped' <=> JobAt(s, n) \in dropped
  PROVE  OwedAt(s)'
<1>1. PICK g \in Nat : gen[s] = g
  BY DEF SInv, SlotTypes
<1>2. gen'[s] = g
  BY <1>1
<1>. QED BY <1>1, <1>2, OwedNow, OwedThen

LEMMA OwedUntouched ==
  ASSUME SInv, Owed, UNCHANGED <<slots, dropped>>,
         \A j : Outstanding(j)' = Outstanding(j)
  PROVE  Owed'
<1>1. SUFFICES ASSUME NEW s \in Slot PROVE OwedAt(s)'
  BY DEF Owed
<1>2. conn' = conn /\ gen' = gen
  BY DEF slots
<1>. QED BY <1>2, OwedKept DEF Owed

\* A generation that begins: nothing was dispatched for it.
LEMMA OwedAnew ==
  ASSUME SInv, NEW s \in Slot, OwedAt(s), gen'[s] = gen[s] + 1, ~Waiting(conn'[s]),
         dropped' = dropped,
         \A n \in Nat : n > gen[s] => Outstanding(JobAt(s, n))' <= Outstanding(JobAt(s, n))
                                      /\ Outstanding(JobAt(s, n))' \in Nat
  PROVE  OwedAt(s)'
<1>1. PICK g \in Nat : gen[s] = g
  BY DEF SInv, SlotTypes
<1>2. g + 1 \in Nat /\ gen'[s] = g + 1
  BY <1>1
<1>3. \A n \in Nat : n > g => Outstanding(JobAt(s, n))' = 0 /\ JobAt(s, n) \notin dropped'
  <2>1. SUFFICES ASSUME NEW n \in Nat, n > g
                 PROVE  Outstanding(JobAt(s, n))' = 0 /\ JobAt(s, n) \notin dropped'
    OBVIOUS
  <2>2. Outstanding(JobAt(s, n)) = 0 /\ JobAt(s, n) \notin dropped
    BY <1>1, <2>1, OwedNow
  <2>3. Outstanding(JobAt(s, n))' <= Outstanding(JobAt(s, n)) /\ Outstanding(JobAt(s, n))' \in Nat
    BY <1>1, <2>1
  <2>. QED BY <2>2, <2>3
<1>4. g + 1 > g /\ \A n \in Nat : n > g + 1 => n > g
  OBVIOUS
<1>5. /\ Outstanding(JobAt(s, g + 1))' = 0 /\ JobAt(s, g + 1) \notin dropped'
      /\ \A n \in Nat : n > g + 1 => Outstanding(JobAt(s, n))' = 0 /\ JobAt(s, n) \notin dropped'
  BY <1>2, <1>3, <1>4
<1>6. Outstanding(JobAt(s, g + 1))' <= 1
  BY <1>5
<1>. QED BY <1>2, <1>5, <1>6, OwedThen

\* A step of the connection s, over what becomes of its own job.
LEMMA OwedMoves ==
  ASSUME SInv, QInv, Owed, NEW s \in Slot, Moves(s), dropped' = dropped,
         NEW g \in Nat, gen[s] = g,
         \A j : j # JobAt(s, g) => Outstanding(j)' <= Outstanding(j) /\ Outstanding(j)' \in Nat,
         \A j : j.slot # s => Outstanding(j)' = Outstanding(j),
         conn'[s].state # "free" /\ Clean(conn'[s]) =>
           Outstanding(JobAt(s, g))' = 0 /\ JobAt(s, g) \notin dropped,
         Waiting(conn'[s]) =>
           Outstanding(JobAt(s, g))' = IF JobAt(s, g) \in dropped THEN 0 ELSE 1,
         Outstanding(JobAt(s, g))' <= 1
  PROVE  Owed'
<1>1. SUFFICES ASSUME NEW t \in Slot PROVE OwedAt(t)'
  BY DEF Owed
<1>2. CASE t # s
  <2>1. conn'[t] = conn[t] /\ gen'[t] = gen[t]
    BY <1>2 DEF Moves
  <2>2. \A n \in Nat : JobAt(t, n).slot # s
    BY <1>2 DEF JobAt
  <2>3. \A n \in Nat : Outstanding(JobAt(t, n))' = Outstanding(JobAt(t, n))
    BY <2>2
  <2>. QED BY <2>1, <2>3, OwedKept DEF Owed
<1>3. \A n \in Nat : n > g => /\ JobAt(s, n) # JobAt(s, g)
                              /\ Outstanding(JobAt(s, n))' <= Outstanding(JobAt(s, n))
                              /\ Outstanding(JobAt(s, n))' \in Nat
  <2>1. SUFFICES ASSUME NEW n \in Nat, n > g PROVE JobAt(s, n) # JobAt(s, g)
    OBVIOUS
  <2>2. n # g
    BY <2>1
  <2>. QED BY <2>2, JobFacts
<1>4. CASE t = s /\ conn'[s].state = "free"
  <2>1. gen'[s] = gen[s] + 1 /\ ~Waiting(conn'[s])
    BY <1>4 DEF Moves, Waiting
  <2>2. OwedAt(s)
    BY DEF Owed
  <2>. QED BY <1>3, <1>4, <2>1, <2>2, OwedAnew
<1>5. CASE t = s /\ conn'[s].state # "free"
  <2>1. gen'[s] = g
    BY <1>5 DEF Moves
  <2>2. \A n \in Nat : n > g => Outstanding(JobAt(s, n))' = 0 /\ JobAt(s, n) \notin dropped'
    <3>1. SUFFICES ASSUME NEW n \in Nat, n > g
                   PROVE  Outstanding(JobAt(s, n))' = 0 /\ JobAt(s, n) \notin dropped'
      OBVIOUS
    <3>2. Outstanding(JobAt(s, n)) = 0 /\ JobAt(s, n) \notin dropped
      BY <3>1, OwedNow DEF Owed
    <3>3. Outstanding(JobAt(s, n))' <= Outstanding(JobAt(s, n)) /\ Outstanding(JobAt(s, n))' \in Nat
      BY <1>3, <3>1
    <3>. QED BY <3>2, <3>3
  <2>. QED BY <1>5, <2>1, <2>2, OwedThen
<1>. QED BY <1>2, <1>4, <1>5

LEMMA ServeOwed ==
  ASSUME SInv, QInv, QInv', Owed, NEW s \in Slot, Clean(conn[s]), MayServe(s),
         UNCHANGED <<todo, workers>>
  PROVE  Owed'
<1>1. PICK g \in Nat : gen[s] = g
  BY DEF SInv, SlotTypes
<1>2. /\ Outstanding(JobAt(s, g)) = 0 /\ JobAt(s, g) \notin dropped
      /\ JobAt(s, g) \in Job /\ JobOf(s) = JobAt(s, g)
  BY <1>1, OwedNow, JobFacts DEF Owed
<1>3. dropped' = dropped /\ done' = done /\ wpc' = wpc /\ todo' = todo
  BY DEF workers
<1>4. Moves(s)
  BY DEF MayServe
<1>5. CASE Waiting(conn'[s]) /\ Pool!Accept(JobOf(s))
  <2>1. line' = Append(line, JobAt(s, g)) /\ busy' = busy
    BY <1>2, <1>5, AcceptKeeps
  <2>2. \A j : Outstanding(j)' = Outstanding(j) + (IF j = JobAt(s, g) THEN 1 ELSE 0)
    BY <1>2, <1>3, <2>1, CountAccept
  <2>3. \A j : j # JobAt(s, g) => Outstanding(j)' = Outstanding(j) /\ Outstanding(j) \in Nat
    BY <2>2, OutstandingType
  <2>4. Outstanding(JobAt(s, g))' = 1
    BY <1>2, <2>2
  <2>5. \A j : j.slot # s => Outstanding(j)' = Outstanding(j)
    BY <2>3 DEF JobAt
  <2>6. \A j : j # JobAt(s, g) => Outstanding(j)' <= Outstanding(j) /\ Outstanding(j)' \in Nat
    BY <2>3
  <2>7. ~Clean(conn'[s])
    BY <1>5 DEF Waiting, Clean
  <2>. QED BY <1>1, <1>2, <1>3, <1>4, <2>4, <2>5, <2>6, <2>7, OwedMoves
<1>6. CASE ~Waiting(conn'[s]) /\ UNCHANGED executor
  <2>1. \A j : Outstanding(j)' = Outstanding(j) /\ Outstanding(j) \in Nat
    BY <1>3, <1>6, CountSame, OutstandingType DEF executor
  <2>2. \A j : Outstanding(j)' <= Outstanding(j) /\ Outstanding(j)' \in Nat
    BY <2>1
  <2>3. Outstanding(JobAt(s, g))' = 0 /\ Outstanding(JobAt(s, g))' <= 1
    BY <1>2, <2>1
  <2>. QED BY <1>1, <1>2, <1>3, <1>4, <1>6, <2>1, <2>2, <2>3, OwedMoves
<1>. QED BY <1>5, <1>6 DEF MayServe

LEMMA QuietOwed ==
  ASSUME SInv, QInv, Owed, NEW s \in Slot, Quiet(s), UNCHANGED <<todo, workers>>
  PROVE  Owed'
<1>1. PICK g \in Nat : gen[s] = g
  BY DEF SInv, SlotTypes
<1>2. dropped' = dropped /\ done' = done /\ wpc' = wpc /\ todo' = todo
  BY DEF workers
<1>3. /\ Moves(s) /\ UNCHANGED executor
      /\ Waiting(conn'[s]) => Waiting(conn[s])
      /\ Clean(conn'[s]) => Clean(conn[s])
  BY DEF Quiet
<1>4. \A j : Outstanding(j)' = Outstanding(j) /\ Outstanding(j) \in Nat
  BY <1>2, <1>3, CountSame, OutstandingType DEF executor
<1>5. \A j : Outstanding(j)' <= Outstanding(j) /\ Outstanding(j)' \in Nat
  BY <1>4
<1>6. OwedAt(s)
  BY DEF Owed
<1>7. /\ Clean(conn'[s]) => Outstanding(JobAt(s, g))' = 0 /\ JobAt(s, g) \notin dropped
      /\ Waiting(conn'[s]) => Outstanding(JobAt(s, g))' = IF JobAt(s, g) \in dropped THEN 0 ELSE 1
      /\ Outstanding(JobAt(s, g))' <= 1
  BY <1>1, <1>3, <1>4, <1>6, OwedNow
<1>. QED BY <1>1, <1>2, <1>3, <1>4, <1>5, <1>7, OwedMoves

\* The completion at the head of those copied is for the request its connection waits for:
\* it is the one that was owed, and the connection may then dispatch the next.
LEMMA AttachesOwed ==
  ASSUME SInv, QInv, Owed, Attaches
  PROVE  Owed'
<1>1. /\ todo # <<>> /\ todo' = Tail(todo) /\ WaitsFor(Head(todo))
      /\ dropped' = dropped /\ done' = done /\ wpc' = wpc
  BY DEF Attaches, workers
<1>2. Head(todo) \in Job /\ MayServe(Head(todo).slot)
  BY <1>1, HeadFacts, AttachesStep DEF QInv, QueueTypes
<1>3. PICK s \in Slot, g \in Nat : Head(todo) = JobAt(s, g)
  BY <1>2, JobFacts
<1>4. /\ Head(todo).slot = s /\ gen[s] = g /\ Waiting(conn[s])
      /\ JobOf(s) = JobAt(s, g) /\ JobAt(s, g) \in Job
  BY <1>1, <1>3, JobFacts DEF WaitsFor, Waiting, JobAt
<1>5. MayServe(s) /\ Moves(s)
  BY <1>2, <1>4 DEF MayServe
<1>6. Outstanding(JobAt(s, g)) = 1 /\ JobAt(s, g) \notin dropped
  <2>1. Times(Head(todo), todo) = Times(Head(todo), Tail(todo)) + 1
        /\ Times(Head(todo), Tail(todo)) \in Nat
    BY <1>1, HeadFacts, TimesTail, TimesType DEF QInv, QueueTypes
  <2>2. Outstanding(JobAt(s, g)) >= 1
    BY <1>3, <2>1, OutstandingType
  <2>3. Outstanding(JobAt(s, g)) = IF JobAt(s, g) \in dropped THEN 0 ELSE 1
    BY <1>4, OwedNow DEF Owed
  <2>. QED BY <2>2, <2>3
<1>7. CASE Waiting(conn'[s]) /\ Pool!Accept(JobOf(s))
  <2>1. line' = Append(line, JobAt(s, g)) /\ busy' = busy
    BY <1>4, <1>7, AcceptKeeps
  <2>2. \A j : Outstanding(j) = Outstanding(j)' + (IF j = Head(todo) THEN 1 ELSE 0)
                                  - (IF 1 = 1 /\ j = JobAt(s, g) THEN 1 ELSE 0)
    BY <1>1, <1>4, <2>1, CountTakes
  <2>3. /\ JobAt(s, g) = Head(todo)
        /\ \A j : j # JobAt(s, g) => j # Head(todo)
    BY <1>3
  <2>4. SInv' /\ QInv'
    BY AttachesKeep
  <2>5. \A j : Outstanding(j) \in Nat /\ Outstanding(j)' \in Nat
    BY <2>4, OutstandingType, OutstandingTypeThen
  <2>6. \A j : Outstanding(j)' = Outstanding(j)
    BY <2>2, <2>3, <2>5
  <2>7. \A j : Outstanding(j)' <= Outstanding(j) /\ Outstanding(j)' \in Nat
    BY <2>5, <2>6
  <2>8. Outstanding(JobAt(s, g))' = 1 /\ Outstanding(JobAt(s, g))' <= 1
    BY <1>6, <2>6
  <2>9. ~Clean(conn'[s])
    BY <1>7 DEF Waiting, Clean
  <2>. QED BY <1>1, <1>4, <1>5, <1>6, <2>6, <2>7, <2>8, <2>9, OwedMoves
<1>8. CASE ~Waiting(conn'[s]) /\ UNCHANGED executor
  <2>1. line' = line /\ busy' = busy
    BY <1>8 DEF executor
  <2>2. \A j : Outstanding(j) = Outstanding(j)' + (IF j = Head(todo) THEN 1 ELSE 0)
                                  - (IF 0 = 1 /\ j = JobAt(s, g) THEN 1 ELSE 0)
    BY <1>1, <1>4, <2>1, CountTakes
  <2>3. SInv' /\ QInv'
    BY AttachesKeep
  <2>4. \A j : Outstanding(j) \in Nat /\ Outstanding(j)' \in Nat
    BY <2>3, OutstandingType, OutstandingTypeThen
  <2>5. \A j : j # JobAt(s, g) => Outstanding(j)' = Outstanding(j)
    BY <1>3, <2>2, <2>4
  <2>6. Outstanding(JobAt(s, g))' = 0 /\ Outstanding(JobAt(s, g))' <= 1
    BY <1>3, <1>6, <2>2, <2>4
  <2>7. \A j : j # JobAt(s, g) => Outstanding(j)' <= Outstanding(j) /\ Outstanding(j)' \in Nat
    BY <2>4, <2>5
  <2>8. \A j : j.slot # s => Outstanding(j)' = Outstanding(j)
    BY <2>5 DEF JobAt
  <2>. QED BY <1>1, <1>4, <1>5, <1>6, <1>8, <2>6, <2>7, <2>8, OwedMoves
<1>. QED BY <1>5, <1>7, <1>8 DEF MayServe

\* A connection that is accepted finds its slot owed nothing.
LEMMA AcceptsOwed ==
  ASSUME SInv, QInv, Owed, Accepts
  PROVE  Owed'
<1>1. PICK s \in Slot :
        /\ conn[s].state = "free"
        /\ \/ conn'[s] = In("reading", FALSE) /\ gen'[s] = gen[s]
           \/ conn'[s] = conn[s] /\ gen'[s] = gen[s] + 1
        /\ \A t \in Slot : t # s => conn'[t] = conn[t] /\ gen'[t] = gen[t]
  BY AcceptsFacts
<1>2. PICK g \in Nat : gen[s] = g
  BY DEF SInv, SlotTypes
<1>3. In("reading", FALSE).state = "reading"
  BY InFacts
<1>4. Moves(s) /\ ~Waiting(conn'[s])
  BY <1>1, <1>3 DEF Moves, Waiting
<1>5. UNCHANGED <<line, busy, wpc, done, todo, dropped>>
  BY DEF Accepts, executor, workers, loop
<1>6. \A j : Outstanding(j)' = Outstanding(j) /\ Outstanding(j) \in Nat
  BY <1>5, CountSame, OutstandingType
<1>7. \A j : Outstanding(j)' <= Outstanding(j) /\ Outstanding(j)' \in Nat
  BY <1>6
<1>8. Outstanding(JobAt(s, g))' = 0 /\ JobAt(s, g) \notin dropped /\ Outstanding(JobAt(s, g))' <= 1
  BY <1>1, <1>2, <1>6, OwedNow DEF Owed
<1>. QED BY <1>2, <1>4, <1>5, <1>6, <1>7, <1>8, OwedMoves

\* An answer that is given up: the loop discards it, or the queue has no room for it.
LEMMA LessOwed ==
  ASSUME SInv, QInv, Owed, UNCHANGED slots, NEW x \in Job,
         \A j : /\ Outstanding(j) = Outstanding(j)' + (IF j = x THEN 1 ELSE 0)
                /\ Outstanding(j)' \in Nat,
         (dropped' = dropped /\ ~WaitsFor(x)) \/ dropped' = dropped \union {x}
  PROVE  Owed'
<1>1. SUFFICES ASSUME NEW t \in Slot PROVE OwedAt(t)'
  BY DEF Owed
<1>2. PICK g \in Nat : gen[t] = g
  BY DEF SInv, SlotTypes
<1>3. gen'[t] = g /\ conn'[t] = conn[t]
  BY <1>2 DEF slots
<1>4. \A j : Outstanding(j) = 0 => j # x /\ Outstanding(j)' = 0
  <2>1. ASSUME NEW j, Outstanding(j) = 0 PROVE j # x /\ Outstanding(j)' = 0
    <3>1. Outstanding(j) = Outstanding(j)' + (IF j = x THEN 1 ELSE 0) /\ Outstanding(j)' \in Nat
      OBVIOUS
    <3>. QED BY <2>1, <3>1
  <2>. QED BY <2>1
<1>5. \A j : j # x => (j \in dropped' <=> j \in dropped) /\ Outstanding(j)' = Outstanding(j)
  <2>1. \A j : j # x => (j \in dropped' <=> j \in dropped)
    OBVIOUS
  <2>2. ASSUME NEW j, j # x PROVE Outstanding(j)' = Outstanding(j)
    <3>1. Outstanding(j) = Outstanding(j)' + (IF j = x THEN 1 ELSE 0) /\ Outstanding(j)' \in Nat
      OBVIOUS
    <3>. QED BY <2>2, <3>1
  <2>. QED BY <2>1, <2>2
<1>6. /\ conn[t].state = "free" \/ Clean(conn[t]) =>
           Outstanding(JobAt(t, g)) = 0 /\ JobAt(t, g) \notin dropped
      /\ Waiting(conn[t]) =>
           Outstanding(JobAt(t, g)) = IF JobAt(t, g) \in dropped THEN 0 ELSE 1
      /\ Outstanding(JobAt(t, g)) <= 1
      /\ \A n \in Nat : n > g => Outstanding(JobAt(t, n)) = 0 /\ JobAt(t, n) \notin dropped
  BY <1>2, OwedNow DEF Owed
<1>7. (conn'[t].state = "free" \/ Clean(conn'[t])) =>
        Outstanding(JobAt(t, g))' = 0 /\ JobAt(t, g) \notin dropped'
  BY <1>3, <1>4, <1>5, <1>6
<1>8. \A n \in Nat : n > g => Outstanding(JobAt(t, n))' = 0 /\ JobAt(t, n) \notin dropped'
  BY <1>4, <1>5, <1>6
<1>9. Outstanding(x) = Outstanding(x)' + 1 /\ Outstanding(x)' \in Nat
  OBVIOUS
<1>10. Outstanding(JobAt(t, g))' <= 1
  BY <1>5, <1>6, <1>9
<1>11. Waiting(conn'[t]) => Outstanding(JobAt(t, g))' = IF JobAt(t, g) \in dropped' THEN 0 ELSE 1
  <2>1. CASE JobAt(t, g) # x
    BY <1>3, <1>5, <1>6, <2>1
  <2>2. CASE JobAt(t, g) = x /\ Waiting(conn[t])
    <3>1. WaitsFor(x)
      BY <1>2, <2>2 DEF WaitsFor, Waiting, JobAt
    <3>2. x \in dropped'
      BY <3>1
    <3>3. Outstanding(x)' = 0
      BY <1>6, <1>9, <2>2
    <3>. QED BY <2>2, <3>2, <3>3
  <2>. QED BY <1>3, <2>1, <2>2
<1>. QED BY <1>3, <1>7, <1>8, <1>10, <1>11, OwedThen

LEMMA DiscardsOwed ==
  ASSUME SInv, QInv, Owed, Discards
  PROVE  Owed'
<1>1. /\ todo # <<>> /\ todo' = Tail(todo) /\ ~WaitsFor(Head(todo)) /\ UNCHANGED slots
      /\ UNCHANGED <<line, busy, wpc, done, dropped>>
  BY DEF Discards, executor, workers
<1>2. Head(todo) \in Job
  BY <1>1, HeadFacts DEF QInv, QueueTypes
<1>3. \A j : Outstanding(j) = Outstanding(j)' + (IF j = Head(todo) THEN 1 ELSE 0)
                                - (IF 0 = 1 /\ j = Head(todo) THEN 1 ELSE 0)
  BY <1>1, <1>2, CountTakes
<1>4. \A j : Outstanding(j)' \in Nat
  BY DiscardsStep, OutstandingTypeThen
<1>5. \A j : Outstanding(j) = Outstanding(j)' + (IF j = Head(todo) THEN 1 ELSE 0)
  <2>1. TAKE j
  <2>2. Outstanding(j) = Outstanding(j)' + (IF j = Head(todo) THEN 1 ELSE 0) - 0
    BY <1>3
  <2>. QED BY <1>4, <2>2
<1>. QED BY <1>1, <1>2, <1>4, <1>5, LessOwed

LEMMA QueuesOwed ==
  ASSUME SInv, QInv, Owed, NEW w \in Worker, Queues(w)
  PROVE  Owed'
<1>1. /\ UNCHANGED <<slots, todo, line, busy>>
      /\ wpc[w] = "handler" /\ wpc' = [wpc EXCEPT ![w] = "waking"] /\ busy[w] \in Job
      /\ \/ done' = Append(done, busy[w]) /\ dropped' = dropped
         \/ done' = done /\ dropped' = dropped \union {busy[w]}
  BY QueuesStep
<1>2. CASE done' = Append(done, busy[w]) /\ dropped' = dropped
  <2>1. \A j : Outstanding(j)' = Outstanding(j)
    BY <1>1, <1>2, CountQueues
  <2>. QED BY <1>1, <1>2, <2>1, OwedUntouched
<1>3. CASE done' = done /\ dropped' = dropped \union {busy[w]}
  <2>1. \A j : /\ Outstanding(j) = Outstanding(j)' + (IF j = busy[w] THEN 1 ELSE 0)
               /\ Outstanding(j)' \in Nat
    BY <1>1, <1>3, CountQueues
  <2>. QED BY <1>1, <1>3, <2>1, LessOwed
<1>. QED BY <1>1, <1>2, <1>3

LEMMA EndsOwed ==
  ASSUME SInv, QInv, Owed, Ends
  PROVE  Owed'
<1>1. /\ UNCHANGED <<line, busy, wpc, todo, dropped>>
      /\ \E ss \in SUBSET Active :
           Closes(ss) /\ (done' = done \/ (done' = <<>> /\ ss = Active))
  BY EndsStep
<1>2. PICK ss \in SUBSET Active :
        Closes(ss) /\ (done' = done \/ (done' = <<>> /\ ss = Active))
  BY <1>1
<1>3. /\ \A s \in Slot : s \in ss => conn'[s] = Free /\ gen'[s] = gen[s] + 1
      /\ \A s \in Slot : s \notin ss => conn'[s] = conn[s] /\ gen'[s] = gen[s]
  BY <1>2, ClosesFacts
<1>4. \A j : Outstanding(j)' <= Outstanding(j) /\ Outstanding(j)' \in Nat
  <2>1. CASE done' = done
    <3>1. \A j : Outstanding(j)' = Outstanding(j) /\ Outstanding(j) \in Nat
      BY <1>1, <2>1, CountSame, OutstandingType
    <3>. QED BY <3>1
  <2>2. CASE done' = <<>>
    BY <1>1, <2>2, CountForgets
  <2>. QED BY <1>2, <2>1, <2>2
<1>5. ASSUME NEW t \in Slot PROVE OwedAt(t)'
  <2>1. CASE t \in ss
    BY <1>1, <1>3, <1>4, <2>1, FreeFacts, OwedAnew DEF Owed
  <2>2. CASE t \notin ss /\ done' = done
    <3>1. \A j : Outstanding(j)' = Outstanding(j)
      BY <1>1, <2>2, CountSame
    <3>. QED BY <1>1, <1>3, <2>2, <3>1, OwedKept DEF Owed
  <2>3. CASE t \notin ss /\ ss = Active
    <3>1. conn'[t] = conn[t] /\ conn[t].state = "free" /\ gen'[t] = gen[t]
      BY <1>3, <2>3 DEF Active
    <3>2. PICK g \in Nat : gen[t] = g
      BY DEF SInv, SlotTypes
    <3>3. /\ Outstanding(JobAt(t, g)) = 0 /\ JobAt(t, g) \notin dropped
          /\ \A n \in Nat : n > g => Outstanding(JobAt(t, n)) = 0 /\ JobAt(t, n) \notin dropped
      BY <3>1, <3>2, OwedNow DEF Owed
    <3>4. \A j : Outstanding(j) = 0 => Outstanding(j)' = 0
      <4>1. ASSUME NEW j, Outstanding(j) = 0 PROVE Outstanding(j)' = 0
        <5>1. Outstanding(j)' <= Outstanding(j) /\ Outstanding(j)' \in Nat
          BY <1>4
        <5>. QED BY <4>1, <5>1
      <4>. QED BY <4>1
    <3>5. /\ Outstanding(JobAt(t, g))' = 0 /\ Outstanding(JobAt(t, g))' <= 1
          /\ \A n \in Nat : n > g => Outstanding(JobAt(t, n))' = 0
      BY <3>3, <3>4
    <3>6. ~Waiting(conn'[t])
      BY <3>1 DEF Waiting
    <3>. QED BY <1>1, <3>1, <3>2, <3>3, <3>5, <3>6, OwedThen
  <2>. QED BY <1>2, <2>1, <2>2, <2>3
<1>. QED BY <1>5 DEF Owed

LEMMA InitOwed == Init => Owed
<1>. SUFFICES ASSUME Init, NEW s \in Slot PROVE OwedAt(s)
  BY DEF Owed
<1>1. /\ line = <<>> /\ done = <<>> /\ todo = <<>> /\ dropped = {}
      /\ \A w \in Worker : wpc[w] # "handler"
      /\ conn[s] = Free
  BY DEF Init
<1>2. \A j : Outstanding(j) = 0
  <2>1. ASSUME NEW j PROVE Outstanding(j) = 0
    <3>1. Times(j, line) = 0 /\ Times(j, done) = 0 /\ Times(j, todo) = 0
      BY <1>1, TimesEmpty
    <3>2. {w \in Worker : wpc[w] = "handler" /\ busy[w] = j} = {}
      BY <1>1
    <3>3. Running(j) = 0
      BY <3>2, FS_EmptySet DEF Running
    <3>4. Outstanding(j) = Times(j, line) + Times(j, done) + Times(j, todo) + Running(j)
      BY DEF Outstanding, Running
    <3>. QED BY <3>1, <3>3, <3>4
  <2>. QED BY <2>1
<1>. QED BY <1>1, <1>2, FreeFacts DEF OwedAt

LEMMA NextOwed == SInv /\ QInv /\ Owed /\ [Next]_vars => Owed'
<1>. SUFFICES ASSUME SInv, QInv, Owed, Step, SInv', QInv' PROVE Owed'
  BY NextIsStep, NextSlots
<1>1. CASE \E s \in Slot :
             \/ Reads(s) \/ ReadsAhead(s) \/ Writes(s) \/ PumpsBody(s) \/ Drains(s)
             \/ ResumesBody(s) \/ ResumesStream(s) \/ Evicts(s)
  BY <1>1, LoopStep, ServeOwed, QuietOwed
<1>2. CASE Accepts
  BY <1>2, AcceptsOwed
<1>3. CASE HandlesWake
  <2>1. /\ UNCHANGED <<slots, executor, wpc, dropped>>
        /\ todo = <<>> /\ todo' = done /\ done' = <<>>
    BY <1>3, HandlesWakeStep
  <2>. QED BY <2>1, CountDrained, OwedUntouched
<1>4. CASE Discards
  BY <1>4, DiscardsOwed
<1>5. CASE Attaches
  BY <1>5, AttachesOwed
<1>6. CASE Internal \/ ServerCloses \/ UNCHANGED vars
  <2>1. UNCHANGED <<slots, line, busy, wpc, done, dropped, todo>>
    BY <1>6, InternalStep, ServerClosesStep, StutterStep DEF executor, workers
  <2>. QED BY <2>1, CountSame, OwedUntouched
<1>7. CASE Ends
  BY <1>7, EndsOwed
<1>8. ASSUME NEW w \in Worker, Starts(w) \/ Queues(w) \/ WakesLoop(w) \/ Returns(w)
      PROVE  Owed'
  <2>1. CASE Starts(w)
    <3>1. \A j : Outstanding(j)' = Outstanding(j)
      BY <2>1, StartsStep, CountStarts
    <3>. QED BY <2>1, <3>1, StartsStep, OwedUntouched
  <2>2. CASE Queues(w)
    BY <2>2, QueuesOwed
  <2>3. CASE WakesLoop(w) \/ Returns(w)
    <3>1. \A j : Outstanding(j)' = Outstanding(j)
      BY <2>3, WakingStep, CountWakes
    <3>. QED BY <2>3, <3>1, WakingStep, OwedUntouched
  <2>. QED BY <1>8, <2>1, <2>2, <2>3
<1>. QED BY <1>1, <1>2, <1>3, <1>4, <1>5, <1>6, <1>7, <1>8 DEF Step

LEMMA SpecOwed == Spec => [](QInv /\ Owed)
<1>1. Init => SInv /\ QInv /\ Owed
  BY InitSlots, InitOwed
<1>2. (SInv /\ QInv /\ Owed) /\ [Next]_vars => (SInv /\ QInv /\ Owed)'
  BY NextSlots, NextOwed
<1>. QED BY <1>1, <1>2, PTL DEF Spec

\* A connection that waits for a worker is owed one answer, unless the completion queue had
\* no room for it, and one that goes on to a next request none: the answer to a request that
\* timed out, or to an earlier connection of the slot, is never taken for the next one's.
THEOREM OneAnswer == Spec => []OneAnswerOwed
BY SpecOwed, OwedIsOne, PTL

=============================================================================
