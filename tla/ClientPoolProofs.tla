-------------------------- MODULE ClientPoolProofs --------------------------
(***************************************************************************)
(* The pool of the HTTP client, proved for every set of origins, limit on  *)
(* redirects and number of requests: no connection leaks, none rests while *)
(* something is owed on it, and no request is repeated that was not lost.  *)
(***************************************************************************)
EXTENDS ClientPool, SequenceTheorems, FiniteSetTheorems, WellFoundedInduction, TLAPS

-----------------------------------------------------------------------------
(* The invariant of the pool: types, the budget of requests, and who holds  *)
(* which connection.                                                       *)

Conn == [open : BOOLEAN, end : {"up", "eof", "reset"}, rid : {0} \union Requests,
         head : BOOLEAN, wire : Seq(Pieces),
         stage : {"idle", "part", "whole", "ran", "informed", "half", "sized", "till", "sent"}]

Entry == [origin : Origin, conn : Conns, live : BOOLEAN]

Live == {i \in DOMAIN entries : entries[i].live}

\* The request of the hop is on the connection at idx, or may be.
Busy == pc \in {"sending", "recv", "took"}

\* The redirects a fetch has left are requests the model has left.
Budget ==
  pc \notin {"idle", "closed"} =>
    /\ req.id \in Requests /\ hops <= MaxRedirects
    /\ req.id + MaxRedirects - hops <= MaxRequests

\* What hop has found or not found, or has dialled.
Held ==
  /\ pc = "send" \/ Busy => idx \in Live /\ entries[idx].origin = req.origin
  /\ pc = "dial" => \A i \in Live : entries[i].origin # req.origin
  /\ pc = "closed" => entries = <<>>

ClientTypes ==
  /\ pc \in Pc
  /\ req \in [id : 0..MaxRequests, origin : Origin, method : Methods]
  /\ hops \in 0..MaxRedirects + 1
  /\ reused \in BOOLEAN /\ attempt \in 0..1 /\ wasHead \in BOOLEAN
  /\ seen \in {"nothing", "info", "half", "sized", "till", "answer"}
  /\ pc \in {"dial", "send", "sending"} => seen = "nothing"
  /\ pc = "recv" => seen # "answer"
PoolTypes == entries \in Seq(Entry) /\ (idx \in 0..Len(entries) \/ pc = "closed")
ConnTypes == conn \in [Conns -> Conn] /\ \A c \in Conns : conn[c].stage # "idle" => conn[c].rid # 0
HistoryTypes == executed \in [Requests -> Nat] /\ lost \in SUBSET Requests

\* PoolHoldsOpen, as one fact about the entries and one about the connections.
Apart == \A i, j \in Live : i # j => /\ entries[i].conn # entries[j].conn
                                     /\ entries[i].origin # entries[j].origin
HoldsAll == \A c \in Conns : conn[c].open <=> \E i \in Live : entries[i].conn = c

PInv == /\ ClientTypes /\ PoolTypes /\ ConnTypes /\ HistoryTypes
        /\ Budget /\ Apart /\ HoldsAll /\ Held

LEMMA LiveFacts ==
  ASSUME PoolTypes
  PROVE  /\ DOMAIN entries = 1..Len(entries) /\ Len(entries) \in Nat
         /\ Live \subseteq 1..Len(entries)
         /\ \A i \in 1..Len(entries) : entries[i] \in Entry
         /\ \A i \in Live : i # 0 /\ entries[i].conn \in Conns
<1>1. entries \in Seq(Entry)
  BY DEF PoolTypes
<1>2. /\ DOMAIN entries = 1..Len(entries) /\ Len(entries) \in Nat
      /\ \A i \in 1..Len(entries) : entries[i] \in Entry
  BY <1>1, LenProperties, ElementOfSeq
<1>3. Live \subseteq 1..Len(entries)
  BY <1>2 DEF Live
<1>4. \A e \in Entry : e.conn \in Conns
  BY DEF Entry
<1>. QED BY <1>2, <1>3, <1>4

LEMMA PoolParts == PInv => TypeOK /\ PoolHoldsOpen
<1>. SUFFICES ASSUME PInv PROVE TypeOK /\ PoolHoldsOpen
  OBVIOUS
<1>1. TypeOK
  BY DEF PInv, TypeOK, ClientTypes, PoolTypes, ConnTypes, HistoryTypes, Conn, Entry
<1>2. \A i \in Live : entries[i].conn \in Conns
  BY LiveFacts DEF PInv
<1>3. PoolHoldsOpen
  BY <1>2 DEF PInv, Apart, HoldsAll, PoolHoldsOpen, Live
<1>. QED BY <1>1, <1>3

-----------------------------------------------------------------------------
(* Search and the slots of the pool.                                       *)

\* A set of natural numbers has a least one: what find and store look for exists.
LEMMA Least ==
  ASSUME NEW S \in SUBSET Nat, S # {}
  PROVE  \E i \in S : \A j \in S : i <= j
<1>. DEFINE R == {ss \in Nat \X Nat : ss[1] < ss[2]}
<1>1. IsWellFoundedOn(R, Nat)
  BY NatLessThanWellFounded DEF OpToRel
<1>. HIDE DEF R
<1>2. PICK i \in S : \A j \in S : ~(<<j, i>> \in R)
  BY <1>1, WFMin
<1>3. \A j \in S : ~(j < i)
  BY <1>2 DEF R
<1>. QED BY <1>3

\* find returns a live entry of the origin, or 0 when there is none.
LEMMA FindFacts ==
  ASSUME PoolTypes, NEW o
  PROVE  \/ Find(o) = 0 /\ \A i \in Live : entries[i].origin # o
         \/ Find(o) # 0 /\ Find(o) \in Live /\ entries[Find(o)].origin = o
<1>. DEFINE found == {i \in DOMAIN entries : entries[i].live /\ entries[i].origin = o}
<1>1. found = {i \in Live : entries[i].origin = o}
  BY DEF Live
<1>2. found \in SUBSET Nat /\ \A i \in found : i # 0
  BY <1>1, LiveFacts
<1>3. Find(o) = IF found = {} THEN 0 ELSE CHOOSE i \in found : \A j \in found : i <= j
  BY DEF Find
<1>. HIDE DEF found
<1>4. CASE found = {}
  BY <1>1, <1>3, <1>4
<1>5. CASE found # {}
  <2>1. Find(o) \in found
    BY <1>2, <1>3, <1>5, Least
  <2>. QED BY <1>1, <1>2, <2>1
<1>. QED BY <1>4, <1>5

\* store fills a slot that was dead, or a new one.
LEMMA StoreAtFacts ==
  ASSUME PoolTypes
  PROVE  /\ StoreAt \in 1..Len(entries) + 1
         /\ StoreAt \notin Live
<1>. DEFINE dead == {i \in DOMAIN entries : ~entries[i].live}
<1>1. dead \in SUBSET Nat /\ dead \subseteq 1..Len(entries) /\ Len(entries) \in Nat
  BY LiveFacts
<1>2. \A i \in dead : i \notin Live
  BY DEF Live
<1>3. StoreAt = IF dead = {} THEN Len(entries) + 1 ELSE CHOOSE i \in dead : \A j \in dead : i <= j
  BY DEF StoreAt
<1>. HIDE DEF dead
<1>4. CASE dead = {}
  BY <1>1, <1>3, <1>4, LiveFacts
<1>5. CASE dead # {}
  <2>1. StoreAt \in dead
    BY <1>1, <1>3, <1>5, Least
  <2>. QED BY <1>1, <1>2, <2>1
<1>. QED BY <1>4, <1>5

\* The entries after store.
LEMMA StoredFacts ==
  ASSUME PoolTypes, NEW e \in Entry, e.live, NEW s, s = Stored(StoreAt, e)
  PROVE  /\ s \in Seq(Entry) /\ StoreAt \in 1..Len(s)
         /\ {i \in DOMAIN s : s[i].live} = Live \union {StoreAt}
         /\ s[StoreAt] = e
         /\ \A i \in Live : s[i] = entries[i]
<1>1. /\ entries \in Seq(Entry) /\ Len(entries) \in Nat
      /\ DOMAIN entries = 1..Len(entries)
      /\ StoreAt \in 1..Len(entries) + 1 /\ StoreAt \notin Live
  BY LiveFacts, StoreAtFacts DEF PoolTypes
<1>2. CASE StoreAt > Len(entries)
  <2>1. s = Append(entries, e) /\ StoreAt = Len(entries) + 1
    BY <1>1, <1>2 DEF Stored
  <2>2. /\ s \in Seq(Entry) /\ Len(s) = Len(entries) + 1
        /\ \A i \in 1..Len(entries) : s[i] = entries[i]
        /\ s[StoreAt] = e
    BY <1>1, <2>1, AppendProperties
  <2>3. DOMAIN s = 1..Len(s)
    BY <2>2, LenProperties
  <2>4. {i \in DOMAIN s : s[i].live} = Live \union {StoreAt}
    BY <1>1, <2>1, <2>2, <2>3 DEF Live
  <2>. QED BY <1>1, <2>1, <2>2, <2>4 DEF Live
<1>3. CASE ~(StoreAt > Len(entries))
  <2>1. s = [entries EXCEPT ![StoreAt] = e] /\ StoreAt \in 1..Len(entries)
    BY <1>1, <1>3 DEF Stored
  <2>2. /\ s \in Seq(Entry) /\ Len(s) = Len(entries)
        /\ \A i \in 1..Len(entries) : s[i] = IF i = StoreAt THEN e ELSE entries[i]
    BY <1>1, <2>1, ExceptSeq
  <2>3. DOMAIN s = 1..Len(s)
    BY <2>2, LenProperties
  <2>4. {i \in DOMAIN s : s[i].live} = Live \union {StoreAt}
    BY <1>1, <2>1, <2>2, <2>3 DEF Live
  <2>. QED BY <1>1, <2>1, <2>2, <2>4 DEF Live
<1>. QED BY <1>2, <1>3

-----------------------------------------------------------------------------
(* What a step does to one connection, and what drop does.                 *)

LEMMA NoConnType == NoConn \in Conn /\ NoConn.stage = "idle" /\ ~NoConn.open
BY EmptySeq DEF NoConn, Conn

LEMMA ConnChanged ==
  ASSUME ConnTypes, NEW c \in Conns, NEW x \in Conn, x.stage # "idle" => x.rid # 0,
         conn' = [conn EXCEPT ![c] = x]
  PROVE  /\ ConnTypes' /\ conn'[c] = x
         /\ \A d \in Conns : d # c => conn'[d] = conn[d]
BY DEF ConnTypes

\* A step that opens and closes no connection keeps the pool.
LEMMA PoolKept ==
  ASSUME PInv, UNCHANGED entries, \A c \in Conns : conn'[c].open = conn[c].open
  PROVE  Apart' /\ HoldsAll' /\ Live' = Live
<1>1. Live' = Live
  BY DEF Live
<1>. QED BY <1>1 DEF PInv, Apart, HoldsAll

LEMMA CurrentType ==
  ASSUME PInv, pc = "send" \/ Busy
  PROVE  /\ idx \in Live /\ idx \in 1..Len(entries) /\ Current \in Conns
         /\ conn[Current] \in Conn /\ req.id \in Requests
         /\ conn[Current].stage # "idle" => conn[Current].rid \in Requests
<1>1. idx \in Live /\ idx \in 1..Len(entries) /\ Current \in Conns
  BY LiveFacts DEF PInv, Held, Current
<1>2. conn[Current] \in Conn /\ (conn[Current].stage # "idle" => conn[Current].rid # 0)
  BY <1>1 DEF PInv, ConnTypes
<1>3. req.id \in Requests
  BY DEF PInv, Budget, Busy
<1>. QED BY <1>1, <1>2, <1>3 DEF Conn

LEMMA DropsFacts ==
  ASSUME PInv, pc = "send" \/ Busy, Drops
  PROVE  /\ entries' \in Seq(Entry) /\ Len(entries') = Len(entries)
         /\ Live' = Live \ {idx}
         /\ \A i \in Live' : entries'[i] = entries[i]
         /\ ConnTypes' /\ conn'[Current] = NoConn
         /\ \A c \in Conns : c # Current => conn'[c] = conn[c]
         /\ HistoryTypes'
         /\ Apart' /\ HoldsAll'
<1>1. /\ idx \in Live /\ idx \in 1..Len(entries) /\ Current \in Conns
      /\ conn[Current].stage # "idle" => conn[Current].rid \in Requests
  BY CurrentType
<1>2. entries \in Seq(Entry) /\ entries[idx] \in Entry /\ DOMAIN entries = 1..Len(entries)
  BY <1>1, LiveFacts DEF PInv, PoolTypes
<1>. DEFINE e == [entries[idx] EXCEPT !.live = FALSE]
<1>3. e \in Entry /\ ~e.live
  BY <1>2 DEF Entry
<1>4. entries' = [entries EXCEPT ![idx] = e]
  BY DEF Drops
<1>. HIDE DEF e
<1>5. /\ entries' \in Seq(Entry) /\ Len(entries') = Len(entries)
      /\ \A i \in 1..Len(entries) : entries'[i] = IF i = idx THEN e ELSE entries[i]
  BY <1>1, <1>2, <1>3, <1>4, ExceptSeq
<1>6. DOMAIN entries' = 1..Len(entries)
  BY <1>2, <1>4
<1>7. Live' = Live \ {idx}
  BY <1>2, <1>3, <1>5, <1>6 DEF Live
<1>8. \A i \in Live' : entries'[i] = entries[i]
  BY <1>2, <1>5, <1>7 DEF Live
<1>9. /\ ConnTypes' /\ conn'[Current] = NoConn
      /\ \A c \in Conns : c # Current => conn'[c] = conn[c]
  <2>1. conn' = [conn EXCEPT ![Current] = NoConn]
    BY DEF Drops
  <2>. QED BY <1>1, <2>1, NoConnType, ConnChanged DEF PInv
<1>10. HistoryTypes'
  BY <1>1 DEF Drops, PInv, HistoryTypes
<1>11. Apart'
  BY <1>7, <1>8 DEF PInv, Apart
<1>12. HoldsAll'
  <2>1. ASSUME NEW c \in Conns, c # Current
        PROVE  conn'[c].open <=> \E i \in Live' : entries'[i].conn = c
    BY <1>7, <1>8, <1>9, <2>1 DEF PInv, HoldsAll, Current
  <2>2. ~conn'[Current].open
    BY <1>9, NoConnType
  <2>3. \A i \in Live' : entries'[i].conn # Current
    BY <1>1, <1>7, <1>8 DEF PInv, Apart, Current
  <2>. QED BY <2>1, <2>2, <2>3 DEF HoldsAll
<1>. QED BY <1>5, <1>7, <1>8, <1>9, <1>10, <1>11, <1>12

-----------------------------------------------------------------------------
(* Every step keeps the pool.                                              *)

\* A step of the client that leaves the request, the pool and the connections alone.
LEMMA PlainStep ==
  ASSUME PInv, UNCHANGED <<entries, conn, history>>, ClientTypes', Budget', Held',
         idx' \in 0..Len(entries) \/ pc' = "closed"
  PROVE  PInv'
<1>1. PoolTypes' /\ ConnTypes' /\ HistoryTypes'
  BY DEF PInv, PoolTypes, ConnTypes, HistoryTypes, history
<1>2. Apart' /\ HoldsAll'
  BY PoolKept
<1>. QED BY <1>1, <1>2 DEF PInv

LEMMA FetchesStep == ASSUME PInv, NEW o \in Origin, NEW m \in Methods, Fetches(o, m) PROVE PInv'
<1>1. req' \in [id : Requests, origin : Origin, method : Methods] /\ req'.id = req.id + 1
  BY BoundsAssumption DEF PInv, ClientTypes, Fetches, Requests
<1>2. ClientTypes'
  BY <1>1, BoundsAssumption DEF PInv, ClientTypes, Fetches, Pc, Requests
<1>3. Budget'
  BY <1>1, BoundsAssumption DEF PInv, ClientTypes, Fetches, Budget
<1>4. Held' /\ idx' \in 0..Len(entries)
  BY DEF Fetches, Held, PInv, PoolTypes, Busy
<1>. QED BY <1>2, <1>3, <1>4, PlainStep DEF Fetches

LEMMA FindsStep == PInv /\ Finds => PInv'
<1>. SUFFICES ASSUME PInv, Finds PROVE PInv'
  OBVIOUS
<1>1. ClientTypes' /\ Budget'
  BY DEF PInv, ClientTypes, Finds, Pc, Budget
<1>2. Live' = Live
  BY DEF Finds, Live
<1>7. Live \subseteq 1..Len(entries) /\ Len(entries) \in Nat
  BY LiveFacts DEF PInv
<1>3. \/ idx' = 0 /\ \A i \in Live : entries[i].origin # req.origin
      \/ idx' # 0 /\ idx' \in Live /\ entries[idx'].origin = req.origin
  BY FindFacts DEF Finds, PInv
<1>4. idx' \in 0..Len(entries)
  <2>1. idx' = 0 \/ idx' \in 1..Len(entries)
    BY <1>3, <1>7
  <2>. QED BY <1>7, <2>1
<1>5. UNCHANGED <<entries, req>> /\ pc' = IF idx' = 0 THEN "dial" ELSE "send"
  BY DEF Finds
<1>6. Held'
  BY <1>2, <1>3, <1>5 DEF Held, Busy
<1>. QED BY <1>1, <1>4, <1>6, PlainStep DEF Finds

LEMMA DialFailsStep == PInv /\ DialFails => PInv'
<1>. SUFFICES ASSUME PInv, DialFails PROVE PInv'
  OBVIOUS
<1>1. ClientTypes' /\ Budget' /\ Held' /\ idx' \in 0..Len(entries)
  BY DEF PInv, ClientTypes, PoolTypes, DialFails, Pc, Budget, Held, Busy, hop
<1>. QED BY <1>1, PlainStep DEF DialFails

\* What a dial does: a new connection rests in a slot that held none.
LEMMA DialsFacts ==
  ASSUME PInv, Dials
  PROVE  /\ entries' \in Seq(Entry) /\ idx' \in 1..Len(entries')
         /\ idx' \notin Live /\ Live' = Live \union {idx'}
         /\ \A i \in Live : entries'[i] = entries[i]
         /\ entries'[idx'].origin = req.origin
         /\ \E c \in Conns :
              /\ ~conn[c].open /\ entries'[idx'].conn = c
              /\ ConnTypes' /\ conn'[c] = [NoConn EXCEPT !.open = TRUE]
              /\ \A d \in Conns : d # c => conn'[d] = conn[d]
<1>1. PICK c \in Conns :
        /\ ~conn[c].open
        /\ conn' = [conn EXCEPT ![c] = [NoConn EXCEPT !.open = TRUE]]
        /\ idx' = StoreAt
        /\ entries' = Stored(StoreAt, [origin |-> req.origin, conn |-> c, live |-> TRUE])
  BY DEF Dials
<1>. DEFINE e == [origin |-> req.origin, conn |-> c, live |-> TRUE]
            x == [NoConn EXCEPT !.open = TRUE]
<1>2. e \in Entry /\ e.live /\ e.conn = c /\ e.origin = req.origin
  BY DEF PInv, ClientTypes, Entry
<1>3. x \in Conn /\ x.stage = "idle" /\ x.open
  BY NoConnType DEF NoConn, Conn
<1>4. PoolTypes
  BY DEF PInv
<1>. HIDE DEF e, x
<1>5. entries' = Stored(StoreAt, e)
  BY <1>1 DEF e
<1>6a. StoreAt \in Nat /\ StoreAt \notin Live /\ idx' = StoreAt
  BY <1>1, <1>4, StoreAtFacts
<1>6b. /\ entries' \in Seq(Entry) /\ StoreAt \in 1..Len(entries')
       /\ {i \in DOMAIN entries' : entries'[i].live} = Live \union {StoreAt}
       /\ entries'[StoreAt] = e
       /\ \A i \in Live : entries'[i] = entries[i]
  BY <1>2, <1>4, <1>5, StoredFacts
<1>6. /\ entries' \in Seq(Entry) /\ idx' \in 1..Len(entries')
      /\ {i \in DOMAIN entries' : entries'[i].live} = Live \union {idx'}
      /\ entries'[idx'] = e
      /\ \A i \in Live : entries'[i] = entries[i]
      /\ idx' \notin Live
  BY <1>6a, <1>6b
<1>7. Live' = Live \union {idx'}
  BY <1>6 DEF Live
<1>8. conn' = [conn EXCEPT ![c] = x]
  BY <1>1 DEF x
<1>9. /\ ConnTypes' /\ conn'[c] = x
      /\ \A d \in Conns : d # c => conn'[d] = conn[d]
  BY <1>3, <1>8, ConnChanged DEF PInv
<1>. QED BY <1>1, <1>2, <1>6, <1>7, <1>9 DEF x

LEMMA DialsStep == PInv /\ Dials => PInv'
<1>. SUFFICES ASSUME PInv, Dials PROVE PInv'
  OBVIOUS
<1>1. /\ entries' \in Seq(Entry) /\ idx' \in 1..Len(entries')
      /\ idx' \notin Live /\ Live' = Live \union {idx'}
      /\ \A i \in Live : entries'[i] = entries[i]
      /\ entries'[idx'].origin = req.origin
  BY DialsFacts
<1>2. PICK c \in Conns :
        /\ ~conn[c].open /\ entries'[idx'].conn = c
        /\ ConnTypes' /\ conn'[c] = [NoConn EXCEPT !.open = TRUE]
        /\ \A d \in Conns : d # c => conn'[d] = conn[d]
  BY DialsFacts
<1>3. \A i \in Live : entries[i].conn # c /\ entries[i].origin # req.origin
  BY <1>2 DEF PInv, HoldsAll, Held, Dials
<1>4. Apart'
  BY <1>1, <1>2, <1>3 DEF PInv, Apart
<1>5. HoldsAll'
  <2>1. ASSUME NEW d \in Conns, d # c
        PROVE  conn'[d].open <=> \E i \in Live' : entries'[i].conn = d
    BY <1>1, <1>2, <2>1 DEF PInv, HoldsAll
  <2>2. conn'[c].open /\ idx' \in Live' /\ entries'[idx'].conn = c
    BY <1>1, <1>2 DEF NoConn
  <2>. QED BY <2>1, <2>2 DEF HoldsAll
<1>6. ClientTypes' /\ Budget' /\ HistoryTypes'
  BY DEF PInv, ClientTypes, Budget, HistoryTypes, Dials, Pc, hop, history
<1>7. Held'
  BY <1>1 DEF Held, Dials, Busy, hop
<1>8. PoolTypes'
  BY <1>1 DEF PoolTypes
<1>. QED BY <1>2, <1>4, <1>5, <1>6, <1>7, <1>8 DEF PInv

\* A connection on which some of request q is written.
Part(k, q) == [k EXCEPT !.rid = q.id, !.stage = "part", !.head = (q.method = "HEAD")]

LEMMA PartFacts ==
  ASSUME NEW k \in Conn, NEW q, q.id \in Requests
  PROVE  /\ Part(k, q) \in Conn
         /\ Part(k, q).rid = q.id /\ Part(k, q).stage = "part"
         /\ Part(k, q).head <=> q.method = "HEAD"
         /\ Part(k, q).wire = k.wire /\ Part(k, q).open = k.open /\ Part(k, q).end = k.end
BY DEF Conn, Part

\* The steps that write to or read from the current connection.
OnCurrent == Sends \/ SendsAll \/ \E piece \in Pieces, next \in {"info", "half", "sized", "till", "answer"} : Takes(piece, next)

LEMMA OnCurrentStep == PInv /\ OnCurrent => PInv'
<1>. SUFFICES ASSUME PInv, OnCurrent PROVE PInv'
  OBVIOUS
<1>1. pc = "send" \/ Busy
  BY DEF OnCurrent, Sends, SendsAll, Takes, Busy
<1>2. /\ idx \in Live /\ idx \in 1..Len(entries) /\ Current \in Conns
      /\ conn[Current] \in Conn /\ req.id \in Requests
      /\ conn[Current].stage # "idle" => conn[Current].rid # 0
  BY <1>1, CurrentType DEF Requests
<1>3. \E x \in Conn : /\ x.stage # "idle" => x.rid # 0
                      /\ x.open = conn[Current].open
                      /\ conn' = [conn EXCEPT ![Current] = x]
  <2>0. conn = [conn EXCEPT ![Current] = conn[Current]]
    BY <1>2 DEF PInv, ConnTypes
  <2>1. CASE Sends
    <3>1. conn' = conn \/ conn' = [conn EXCEPT ![Current] = Part(conn[Current], req)]
      BY <2>1, <1>2 DEF Sends, PInv, ConnTypes, Part
    <3>2. /\ Part(conn[Current], req) \in Conn
          /\ Part(conn[Current], req).rid # 0
          /\ Part(conn[Current], req).open = conn[Current].open
      BY <1>2, PartFacts DEF Requests
    <3>. QED BY <1>2, <2>0, <3>1, <3>2
  <2>2. CASE SendsAll
    <3>. DEFINE x == [conn[Current] EXCEPT !.stage = "whole"]
    <3>1. conn[Current].stage = "part" => x \in Conn /\ x.rid # 0 /\ x.open = conn[Current].open
      BY <1>2 DEF Conn
    <3>2. conn' = conn \/ (conn[Current].stage = "part" /\ conn' = [conn EXCEPT ![Current] = x])
      BY <2>2, <1>2 DEF SendsAll, PInv, ConnTypes
    <3>. HIDE DEF x
    <3>. QED BY <1>2, <2>0, <3>1, <3>2
  <2>3. ASSUME NEW piece, NEW next, Takes(piece, next)
        PROVE  \E x \in Conn : /\ x.stage # "idle" => x.rid # 0
                               /\ x.open = conn[Current].open
                               /\ conn' = [conn EXCEPT ![Current] = x]
    <3>. DEFINE x == [conn[Current] EXCEPT !.wire = Tail(conn[Current].wire)]
    <3>0. Tail(conn[Current].wire) \in Seq(Pieces)
      BY <1>2, <2>3, HeadTailProperties DEF Takes, Conn
    <3>1. x \in Conn /\ x.stage = conn[Current].stage /\ x.rid = conn[Current].rid /\ x.open = conn[Current].open
      BY <1>2, <3>0 DEF Conn
    <3>2. conn' = [conn EXCEPT ![Current] = x]
      BY <2>3, <1>2 DEF Takes, PInv, ConnTypes
    <3>. HIDE DEF x
    <3>. QED BY <1>2, <3>1, <3>2
  <2>. QED BY <2>1, <2>2, <2>3 DEF OnCurrent
<1>4. ConnTypes' /\ \A c \in Conns : conn'[c].open = conn[c].open
  BY <1>2, <1>3, ConnChanged DEF PInv
<1>5. UNCHANGED <<entries, req, hops, attempt, idx, reused, history>> /\ Busy' /\ pc' # "send"
  BY DEF OnCurrent, Sends, SendsAll, Takes, hop, Busy
<1>6. Apart' /\ HoldsAll' /\ Live' = Live
  BY <1>4, <1>5, PoolKept
<1>7. ClientTypes' /\ Budget' /\ HistoryTypes' /\ PoolTypes'
  <2>1. /\ wasHead' \in BOOLEAN
        /\ seen' \in {"nothing", "info", "half", "sized", "till", "answer"}
        /\ pc' = "sending" => seen' = "nothing"
        /\ pc' = "recv" => seen' # "answer"
    BY DEF OnCurrent, Sends, SendsAll, Takes, PInv, ClientTypes
  <2>2. ClientTypes'
    BY <1>5, <2>1 DEF PInv, ClientTypes, Pc, Busy
  <2>3. Budget' /\ HistoryTypes' /\ PoolTypes'
    BY <1>1, <1>5 DEF PInv, Budget, HistoryTypes, PoolTypes, Busy, history
  <2>. QED BY <2>2, <2>3
<1>8. Held'
  BY <1>1, <1>5, <1>6 DEF PInv, Held, Busy
<1>. QED BY <1>4, <1>6, <1>7, <1>8 DEF PInv

LEMMA FailsStep == ASSUME PInv, pc = "send" \/ Busy, NEW err, Fails(err) PROVE PInv'
<1>1. Drops /\ UNCHANGED <<req, hops, wasHead>> /\ idx' = 0 /\ seen' = "nothing"
  BY DEF Fails
<1>2. /\ entries' \in Seq(Entry) /\ Len(entries') = Len(entries)
      /\ Live' = Live \ {idx}
      /\ \A i \in Live' : entries'[i] = entries[i]
      /\ ConnTypes' /\ HistoryTypes' /\ Apart' /\ HoldsAll'
  BY <1>1, DropsFacts
<1>3. PoolTypes'
  <2>1. Len(entries) \in Nat
    BY LiveFacts DEF PInv
  <2>. QED BY <1>1, <1>2, <2>1 DEF PoolTypes
<1>4. pc' \in {"dial", "idle"} /\ reused' \in BOOLEAN /\ attempt' \in 0..1
  <2>1. CASE Retries(err)
    <3>1. attempt' = attempt + 1 /\ reused' = FALSE /\ pc' = "dial"
      BY <2>1 DEF Fails
    <3>2. attempt = 0
      BY <2>1 DEF Retries
    <3>3. attempt' \in 0..1
      BY <3>1, <3>2
    <3>. QED BY <3>1, <3>3
  <2>2. CASE ~Retries(err)
    <3>1. attempt' = attempt /\ reused' = reused /\ pc' = "idle"
      BY <2>2 DEF Fails
    <3>. QED BY <3>1 DEF PInv, ClientTypes
  <2>. QED BY <2>1, <2>2
<1>5. ClientTypes' /\ Budget'
  BY <1>1, <1>4 DEF PInv, ClientTypes, Budget, Pc, Busy
<1>6. Held'
  <2>1. \A i \in Live' : entries'[i].origin # req.origin
    BY <1>2 DEF PInv, Held, Apart
  <2>. QED BY <1>1, <1>4, <2>1 DEF Held, Busy
<1>. QED BY <1>2, <1>3, <1>5, <1>6 DEF PInv

LEMMA FailsSteps == PInv /\ (SendFails \/ ReadsBadly \/ ReadsNothing) => PInv'
<1>. SUFFICES ASSUME PInv, SendFails \/ ReadsBadly \/ ReadsNothing PROVE PInv'
  OBVIOUS
<1>1. pc = "send" \/ Busy
  BY DEF SendFails, ReadsBadly, ReadsNothing, Busy
<1>2. \E err \in {"Send", "Recv"} : Fails(err)
  BY DEF SendFails, ReadsBadly, ReadsNothing
<1>. QED BY <1>1, <1>2, FailsStep

LEMMA ReadsEndStep == PInv /\ ReadsEnd => PInv'
<1>. SUFFICES ASSUME PInv, ReadsEnd PROVE PInv'
  OBVIOUS
<1>1. CASE seen = "till" /\ conn[Current].end = "eof"
  <2>1. /\ pc = "recv" /\ pc' = "took" /\ seen' = "answer"
        /\ UNCHANGED <<entries, conn, history, req, hops, attempt, idx, reused, wasHead>>
    BY <1>1 DEF ReadsEnd, Keeps, hop
  <2>2. ClientTypes' /\ Budget' /\ idx' \in 0..Len(entries)
    BY <2>1 DEF PInv, ClientTypes, PoolTypes, Budget, Pc
  <2>3. Held'
    <3>1. Live' = Live
      BY <2>1 DEF Live
    <3>. QED BY <2>1, <3>1 DEF PInv, Held, Busy
  <2>. QED BY <2>1, <2>2, <2>3, PlainStep
<1>2. CASE ~(seen = "till" /\ conn[Current].end = "eof")
  BY <1>2, FailsStep DEF ReadsEnd, Busy
<1>. QED BY <1>1, <1>2

\* After an answer: hop drops the connection or leaves it in the pool.
LEMMA HoppedFacts ==
  ASSUME PInv, Hopped
  PROVE  PoolTypes' /\ ConnTypes' /\ HistoryTypes' /\ Apart' /\ HoldsAll'
<1>0. pc = "took" /\ Busy /\ UNCHANGED idx
  BY DEF Hopped, Busy
<1>1. CASE Drops
  <2>1. /\ entries' \in Seq(Entry) /\ Len(entries') = Len(entries)
        /\ ConnTypes' /\ HistoryTypes' /\ Apart' /\ HoldsAll'
    BY <1>0, <1>1, DropsFacts
  <2>. QED BY <1>0, <2>1 DEF PInv, PoolTypes
<1>2. CASE conn' = Rests /\ UNCHANGED <<entries, history>>
  <2>1. Current \in Conns /\ conn[Current] \in Conn
    BY <1>0, CurrentType
  <2>. DEFINE x == [conn[Current] EXCEPT !.stage = "idle", !.rid = 0, !.head = FALSE]
  <2>2. x \in Conn /\ x.stage = "idle" /\ x.open = conn[Current].open
    BY <2>1 DEF Conn
  <2>3. conn' = [conn EXCEPT ![Current] = x]
    BY <1>2, <2>1 DEF Rests, PInv, ConnTypes
  <2>. HIDE DEF x
  <2>4. ConnTypes' /\ \A c \in Conns : conn'[c].open = conn[c].open
    BY <2>1, <2>2, <2>3, ConnChanged DEF PInv
  <2>5. Apart' /\ HoldsAll'
    BY <1>2, <2>4, PoolKept
  <2>6. PoolTypes' /\ HistoryTypes'
    BY <1>0, <1>2 DEF PInv, PoolTypes, HistoryTypes, history
  <2>. QED BY <2>4, <2>5, <2>6
<1>. QED BY <1>1, <1>2 DEF Hopped

LEMMA HoppedSteps == PInv /\ (Returns \/ Raises \/ Follows) => PInv'
<1>. SUFFICES ASSUME PInv, Returns \/ Raises \/ Follows PROVE PInv'
  OBVIOUS
<1>1. Hopped
  BY DEF Returns, Raises, Follows
<1>2. /\ PoolTypes' /\ ConnTypes' /\ HistoryTypes' /\ Apart' /\ HoldsAll'
      /\ pc = "took" /\ UNCHANGED <<idx, reused, attempt, wasHead, seen>>
  BY <1>1, HoppedFacts DEF Hopped
<1>3. /\ req \in [id : 0..MaxRequests, origin : Origin, method : Methods]
      /\ req.id \in Requests /\ hops \in Nat
      /\ hops <= MaxRedirects /\ req.id + MaxRedirects - hops <= MaxRequests
      /\ MaxRedirects \in Nat /\ MaxRequests \in Nat
  BY <1>2, BoundsAssumption DEF PInv, ClientTypes, Budget
<1>4. CASE Returns \/ Raises
  <2>1. hops' \in 0..MaxRedirects + 1 /\ pc' = "idle" /\ UNCHANGED req
    BY <1>3, <1>4 DEF Returns, Raises
  <2>2. ClientTypes'
    BY <1>2, <2>1 DEF PInv, ClientTypes, Pc
  <2>3. Budget' /\ Held'
    BY <2>1 DEF Budget, Held, Busy
  <2>. QED BY <1>2, <2>2, <2>3 DEF PInv
<1>5. CASE Follows
  <2>1. PICK o \in Origin, m \in {req.method, "GET"} :
          req' = [id |-> req.id + 1, origin |-> o, method |-> m]
    BY <1>5 DEF Follows
  <2>2. hops < MaxRedirects /\ hops' = hops + 1 /\ pc' = "hop"
    BY <1>5 DEF Follows
  <2>3. req'.id = req.id + 1 /\ req.id + 1 \in Requests
    BY <1>3, <2>1, <2>2 DEF Requests
  <2>4. m \in Methods
    BY <1>3 DEF Methods
  <2>5. req' \in [id : 0..MaxRequests, origin : Origin, method : Methods]
    BY <2>1, <2>3, <2>4 DEF Requests
  <2>6. ClientTypes'
    BY <1>2, <1>3, <2>2, <2>5 DEF PInv, ClientTypes, Pc
  <2>7. Budget'
    BY <1>3, <2>2, <2>3 DEF Budget
  <2>8. Held'
    BY <2>2 DEF Held, Busy
  <2>. QED BY <1>2, <2>6, <2>7, <2>8 DEF PInv
<1>. QED BY <1>4, <1>5

LEMMA ClosesStep == PInv /\ Closes => PInv'
<1>. SUFFICES ASSUME PInv, Closes PROVE PInv'
  OBVIOUS
<1>1. /\ pc' = "closed" /\ entries' = <<>>
      /\ UNCHANGED <<req, hops, attempt, idx, reused, wasHead, seen, history>>
      /\ conn' = [c \in Conns |-> IF \E i \in Live : entries[i].conn = c THEN NoConn ELSE conn[c]]
  BY DEF Closes, hop, Live
<1>2. PoolTypes' /\ Live' = {}
  BY <1>1, EmptySeq DEF PoolTypes, Live
<1>3. ConnTypes'
  BY <1>1, NoConnType DEF PInv, ConnTypes
<1>4. HoldsAll'
  <2>1. \A c \in Conns : ~conn'[c].open
    BY <1>1, NoConnType DEF PInv, HoldsAll
  <2>. QED BY <1>2, <2>1 DEF HoldsAll
<1>5. Apart'
  BY <1>2 DEF Apart
<1>6. ClientTypes' /\ HistoryTypes' /\ Budget' /\ Held'
  BY <1>1 DEF PInv, ClientTypes, HistoryTypes, Budget, Held, Busy, Pc, history
<1>. QED BY <1>2, <1>3, <1>4, <1>5, <1>6 DEF PInv

\* The piece of an answer after which nothing comes.
Completes(piece, head) == piece \in {"empty", "body"} \/ (piece \in {"sized", "till"} /\ head)

\* The server of connection c: a piece written, a request executed, the end.
ServerStep(c) ==
  \/ Executes(c)
  \/ \E from \in {"ran", "informed", "half", "sized", "till"},
        to \in {"informed", "half", "sized", "till", "sent"}, piece \in Pieces :
       (Completes(piece, conn[c].head) => to = "sent") /\ Writes(c, from, piece, to)
  \/ \E how \in {"eof", "reset"} : HangsUp(c, how)

LEMMA ServerSteps == Server => \E c \in Conns : ServerStep(c)
<1>. SUFFICES ASSUME NEW c \in Conns,
                     Executes(c) \/ Answers(c) \/ \E how \in {"eof", "reset"} : HangsUp(c, how)
              PROVE  ServerStep(c)
  BY DEF Server
<1>1. CASE Answers(c)
  BY <1>1 DEF Answers, ServerStep, Pieces, Completes
<1>. QED BY <1>1 DEF ServerStep

\* What the server of c changes is c, and no connection is opened or closed.
LEMMA ServerFacts ==
  ASSUME PInv, NEW c \in Conns, ServerStep(c)
  PROVE  /\ conn[c].open /\ conn[c] \in Conn
         /\ ConnTypes' /\ conn'[c].open /\ conn'[c].rid = conn[c].rid /\ conn'[c].head = conn[c].head
         /\ \A d \in Conns : d # c => conn'[d] = conn[d]
         /\ UNCHANGED <<pc, entries, hop, idx, reused, wasHead, seen>>
<1>1. /\ conn[c].open /\ conn[c] \in Conn
      /\ UNCHANGED <<pc, entries, hop, idx, reused, wasHead, seen>>
  BY DEF PInv, ConnTypes, ServerStep, Executes, Writes, HangsUp, Serves
<1>2. conn[c].wire \in Seq(Pieces) /\ <<>> \in Seq(Pieces)
  BY <1>1, EmptySeq DEF Conn
<1>3. \E x \in Conn : /\ x.stage # "idle" => x.rid # 0
                      /\ x.open = conn[c].open /\ x.rid = conn[c].rid /\ x.head = conn[c].head
                      /\ conn' = [conn EXCEPT ![c] = x]
  <2>1. CASE Executes(c)
    <3>. DEFINE x == [conn[c] EXCEPT !.stage = "ran"]
    <3>1. x \in Conn /\ x.open = conn[c].open /\ x.rid = conn[c].rid /\ x.head = conn[c].head /\ x.rid # 0
      BY <1>1, <2>1 DEF Conn, Executes, PInv, ConnTypes
    <3>2. conn' = [conn EXCEPT ![c] = x]
      BY <2>1 DEF Executes, PInv, ConnTypes
    <3>. HIDE DEF x
    <3>. QED BY <3>1, <3>2
  <2>2. ASSUME NEW from \in {"ran", "informed", "half", "sized", "till"},
               NEW to \in {"informed", "half", "sized", "till", "sent"},
               NEW piece \in Pieces, Writes(c, from, piece, to)
        PROVE  \E x \in Conn : /\ x.stage # "idle" => x.rid # 0
                               /\ x.open = conn[c].open /\ x.rid = conn[c].rid /\ x.head = conn[c].head
                               /\ conn' = [conn EXCEPT ![c] = x]
    <3>. DEFINE w == Append(conn[c].wire, piece)
                x == [conn[c] EXCEPT !.wire = w, !.stage = to]
    <3>0. w \in Seq(Pieces)
      BY <1>2, AppendProperties
    <3>2. conn' = [conn EXCEPT ![c] = x]
      BY <2>2 DEF Writes, PInv, ConnTypes
    <3>. HIDE DEF w
    <3>1. x \in Conn /\ x.open = conn[c].open /\ x.rid = conn[c].rid /\ x.head = conn[c].head
      BY <1>1, <3>0 DEF Conn
    <3>3. conn[c].rid # 0
      BY <2>2 DEF Writes, PInv, ConnTypes
    <3>. HIDE DEF x
    <3>. QED BY <3>1, <3>2, <3>3
  <2>3. ASSUME NEW how \in {"eof", "reset"}, HangsUp(c, how)
        PROVE  \E x \in Conn : /\ x.stage # "idle" => x.rid # 0
                               /\ x.open = conn[c].open /\ x.rid = conn[c].rid /\ x.head = conn[c].head
                               /\ conn' = [conn EXCEPT ![c] = x]
    <3>. DEFINE w == IF how = "eof" THEN conn[c].wire ELSE <<>>
                x == [conn[c] EXCEPT !.end = how, !.wire = w]
    <3>0. w \in Seq(Pieces)
      BY <1>2
    <3>2. conn' = [conn EXCEPT ![c] = x]
      BY <2>3 DEF HangsUp, PInv, ConnTypes
    <3>. HIDE DEF w
    <3>1. x \in Conn /\ x.open = conn[c].open /\ x.rid = conn[c].rid /\ x.stage = conn[c].stage /\ x.head = conn[c].head
      BY <1>1, <3>0 DEF Conn
    <3>. HIDE DEF x
    <3>. QED BY <3>1, <3>2 DEF PInv, ConnTypes
  <2>. QED BY <2>1, <2>2, <2>3 DEF ServerStep
<1>4. PICK x \in Conn : /\ x.stage # "idle" => x.rid # 0
                        /\ x.open = conn[c].open /\ x.rid = conn[c].rid /\ x.head = conn[c].head
                        /\ conn' = [conn EXCEPT ![c] = x]
  BY <1>3
<1>5. ConnTypes' /\ conn'[c] = x /\ \A d \in Conns : d # c => conn'[d] = conn[d]
  BY <1>4, ConnChanged DEF PInv
<1>. QED BY <1>1, <1>4, <1>5

LEMMA ServerPool == PInv /\ Server => PInv'
<1>. SUFFICES ASSUME PInv, NEW c \in Conns, ServerStep(c) PROVE PInv'
  BY ServerSteps
<1>1. /\ ConnTypes' /\ \A d \in Conns : conn'[d].open = conn[d].open
      /\ UNCHANGED <<pc, entries, req, hops, attempt, idx, reused, wasHead, seen>>
  BY ServerFacts DEF hop, PInv, ConnTypes, Conn
<1>2. Apart' /\ HoldsAll' /\ Live' = Live
  BY <1>1, PoolKept
<1>3. ClientTypes' /\ PoolTypes' /\ Budget' /\ Held'
  BY <1>1, <1>2 DEF PInv, ClientTypes, PoolTypes, Budget, Held, Busy
<1>4. HistoryTypes'
  <2>1. conn[c].stage # "idle" => conn[c].rid \in Requests
    BY DEF PInv, ConnTypes, Conn
  <2>2. CASE Executes(c)
    BY <2>1, <2>2 DEF Executes, PInv, HistoryTypes
  <2>3. CASE UNCHANGED history
    BY <2>3 DEF PInv, HistoryTypes, history
  <2>4. ASSUME NEW how, HangsUp(c, how) PROVE HistoryTypes'
    BY <2>1, <2>4 DEF HangsUp, PInv, HistoryTypes
  <2>. QED BY <2>2, <2>3, <2>4 DEF ServerStep, Writes
<1>. QED BY <1>1, <1>2, <1>3, <1>4 DEF PInv

LEMMA InitPool == Init => PInv
<1>. SUFFICES ASSUME Init PROVE PInv
  OBVIOUS
<1>1. req \in [id : 0..MaxRequests, origin : Origin, method : Methods]
  <2>1. (CHOOSE o \in Origin : TRUE) \in Origin
    BY OriginAssumption
  <2>2. 0 \in 0..MaxRequests /\ "GET" \in Methods
    BY BoundsAssumption DEF Methods
  <2>. QED BY <2>1, <2>2 DEF Init
<1>2. ClientTypes
  <2>1. hops \in 0..MaxRedirects + 1 /\ attempt \in 0..1
    BY BoundsAssumption DEF Init
  <2>. QED BY <1>1, <2>1 DEF Init, ClientTypes, Pc
<1>3. PoolTypes /\ Live = {}
  BY EmptySeq DEF Init, PoolTypes, Live
<1>4. ConnTypes /\ HistoryTypes
  BY NoConnType DEF Init, ConnTypes, HistoryTypes
<1>5. Budget /\ Held
  BY DEF Init, Budget, Held, Busy
<1>6. Apart /\ HoldsAll
  BY <1>3, NoConnType DEF Init, Apart, HoldsAll
<1>. QED BY <1>2, <1>3, <1>4, <1>5, <1>6 DEF PInv

\* Receives, by what its steps do to the connection.
LEMMA ReceivesSteps == PInv /\ Receives => OnCurrent \/ ReadsBadly \/ ReadsNothing \/ ReadsEnd
<1>1. ReadsInfo \/ ReadsHalf => OnCurrent
  BY DEF ReadsInfo, ReadsHalf, OnCurrent, Pieces
<1>2. ReadsHead => OnCurrent
  BY DEF ReadsHead, OnCurrent, Pieces
<1>3. PInv /\ ReadsMore => OnCurrent
  <2>1. seen \in {"nothing", "info", "half", "sized", "till", "answer"} =>
          (IF seen \in {"sized", "till"} THEN seen ELSE "half") \in {"half", "sized", "till"}
    OBVIOUS
  <2>. QED BY <2>1 DEF PInv, ClientTypes, ReadsMore, OnCurrent, Pieces
<1>4. PInv /\ ReadsBody => OnCurrent
  <2>. DEFINE next == CASE seen = "sized" -> "answer"
                        [] seen = "till" -> "till"
                        [] seen \in {"nothing", "info", "half"} -> "half"
  <2>1. ASSUME Takes("body", next), seen \in {"nothing", "info", "half", "sized", "till"}
        PROVE  OnCurrent
    BY <2>1 DEF OnCurrent, Pieces
  <2>2. PInv /\ ReadsBody => seen \in {"nothing", "info", "half", "sized", "till"}
    BY DEF PInv, ClientTypes, ReadsBody, Takes
  <2>. QED BY <2>1, <2>2 DEF ReadsBody
<1>. QED BY <1>1, <1>2, <1>3, <1>4 DEF Receives

LEMMA NextPool == PInv /\ [Next]_vars => PInv'
<1>. SUFFICES ASSUME PInv, [Next]_vars PROVE PInv'
  OBVIOUS
<1>1. CASE Fetching
  <2>1. \/ Finds \/ Dials \/ DialFails \/ OnCurrent \/ ReadsEnd
        \/ SendFails \/ ReadsBadly \/ ReadsNothing \/ Returns \/ Raises \/ Follows
    BY <1>1, ReceivesSteps DEF Fetching, OnCurrent
  <2>. QED
    BY <2>1, FindsStep, DialsStep, DialFailsStep, OnCurrentStep, ReadsEndStep, FailsSteps, HoppedSteps
<1>2. CASE UNCHANGED vars
  BY <1>2 DEF vars, hop, history, PInv, ClientTypes, PoolTypes, ConnTypes, HistoryTypes, Budget,
              Apart, HoldsAll, Held, Busy, Live
<1>. QED BY <1>1, <1>2, FetchesStep, ClosesStep, ServerPool DEF Next

LEMMA SpecPInv == Spec => []PInv
BY InitPool, NextPool, PTL DEF Spec

\* Every variable keeps its type: no counter runs over, no search leaves the pool.
THEOREM TypeCorrect == Spec => []TypeOK
BY SpecPInv, PoolParts, PTL

\* The pool holds every open connection once, and one at most per origin: no path of
\* hop, its retry or a redirect leaks a connection, and none is open after close.
THEOREM NothingLeaks == Spec => []PoolHoldsOpen
BY SpecPInv, PoolParts, PTL

-----------------------------------------------------------------------------
(* What is on the wires.  A resting connection owes nothing; the wire of the *)
(* connection in hand holds no more than the answer to the request of the    *)
(* hop, and the piece that ends the answer is the last on it.                *)

Rested(k) == k.wire = <<>> /\ k.stage = "idle"
Resting == \A i \in Live : ~(i = idx /\ Busy) => Rested(conn[entries[i].conn])

\* A connection that carries the request of the hop.
Carries(k) ==
  /\ k.stage # "idle" => k.rid = req.id /\ (k.head <=> req.method = "HEAD")
  /\ k.stage \in {"idle", "part", "whole", "ran"} => k.wire = <<>>
  /\ \A i \in 1..Len(k.wire) : Completes(k.wire[i], k.head) => i = Len(k.wire) /\ k.stage = "sent"

Answered ==
  /\ Busy => Carries(conn[Current])
  /\ pc \in {"recv", "took"} => (wasHead <=> req.method = "HEAD")
  /\ pc = "took" => /\ conn[Current].wire = <<>>
                    /\ conn[Current].stage = "sent" \/ conn[Current].end # "up"

AInv == Resting /\ Answered

LEMMA RestingParts == PInv /\ AInv => RestingOwesNothing
BY DEF AInv, Resting, Rested, RestingOwesNothing, Live, Busy

\* When no hop is in hand the connections only have to rest.
LEMMA IdleHand ==
  ASSUME ~Busy', Resting'
  PROVE  AInv'
BY DEF AInv, Answered, Busy

\* A step of the client at a place where no connection is in hand.
LEMMA PlainAnswers ==
  ASSUME AInv, ~Busy, ~Busy', UNCHANGED <<entries, conn>>
  PROVE  AInv'
<1>1. Live' = Live
  BY DEF Live
<1>2. Resting'
  BY <1>1 DEF AInv, Resting
<1>. QED BY <1>2, IdleHand

LEMMA DialsAnswers == PInv /\ AInv /\ Dials => AInv'
<1>. SUFFICES ASSUME PInv, AInv, Dials PROVE AInv'
  OBVIOUS
<1>1. Live' = Live \union {idx'} /\ \A i \in Live : entries'[i] = entries[i]
  BY DialsFacts
<1>2. PICK c \in Conns :
        /\ ~conn[c].open /\ entries'[idx'].conn = c
        /\ conn'[c] = [NoConn EXCEPT !.open = TRUE]
        /\ \A d \in Conns : d # c => conn'[d] = conn[d]
  BY DialsFacts
<1>3. Rested(conn'[c])
  BY <1>2 DEF Rested, NoConn
<1>4. \A i \in Live : entries[i].conn # c /\ entries[i].conn \in Conns /\ Rested(conn[entries[i].conn])
  BY <1>2, LiveFacts DEF PInv, HoldsAll, AInv, Resting, Dials, Busy
<1>5. Resting'
  BY <1>1, <1>2, <1>3, <1>4 DEF Resting
<1>6. ~Busy'
  BY DEF Dials, Busy
<1>. QED BY <1>5, <1>6, IdleHand

\* The others rest whatever is done to the connection in hand.
LEMMA OthersRest ==
  ASSUME PInv, AInv, pc = "send" \/ Busy, UNCHANGED entries, UNCHANGED idx,
         \A c \in Conns : c # Current => conn'[c] = conn[c]
  PROVE  /\ \A i \in Live' : i # idx => Rested(conn'[entries[i].conn])
         /\ Busy' => Resting'
<1>1. Live' = Live
  BY DEF Live
<1>2. \A i \in Live : entries[i].conn \in Conns /\ (i # idx => entries[i].conn # Current)
  BY CurrentType, LiveFacts DEF PInv, Apart, Current
<1>. QED BY <1>1, <1>2 DEF AInv, Resting

LEMMA DropsRest ==
  ASSUME PInv, AInv, pc = "send" \/ Busy, Drops, ~Busy'
  PROVE  AInv'
<1>1. /\ Live' = Live \ {idx} /\ \A i \in Live' : entries'[i] = entries[i]
      /\ \A c \in Conns : c # Current => conn'[c] = conn[c]
  BY DropsFacts
<1>2. \A i \in Live : entries[i].conn \in Conns /\ (i # idx => entries[i].conn # Current)
  BY CurrentType, LiveFacts DEF PInv, Apart, Current
<1>3. Resting'
  BY <1>1, <1>2 DEF AInv, Resting
<1>. QED BY <1>3, IdleHand

LEMMA SendsAnswers == PInv /\ AInv /\ (Sends \/ SendsAll) => AInv'
<1>. SUFFICES ASSUME PInv, AInv, Sends \/ SendsAll PROVE AInv'
  OBVIOUS
<1>1. /\ pc = "send" \/ Busy
      /\ pc' # "took" /\ Busy' /\ UNCHANGED <<entries, idx, req>>
  BY DEF Sends, SendsAll, Busy, hop
<1>2. /\ Current \in Conns /\ conn[Current] \in Conn /\ req.id \in Requests /\ idx \in Live
      /\ Current' = Current
  BY <1>1, CurrentType DEF Current
<1>3. CASE Sends
  <2>1. conn[Current].wire = <<>> /\ conn[Current].stage = "idle"
    BY <1>2, <1>3 DEF AInv, Resting, Rested, Sends, Busy, Current
  <2>2. conn' = conn \/ conn' = [conn EXCEPT ![Current] = Part(conn[Current], req)]
    BY <1>2, <1>3 DEF Sends, PInv, ConnTypes, Part
  <2>3. /\ Part(conn[Current], req).rid = req.id /\ Part(conn[Current], req).stage = "part"
        /\ Part(conn[Current], req).head <=> req.method = "HEAD"
        /\ Part(conn[Current], req).wire = <<>>
    BY <1>2, <2>1, PartFacts
  <2>4. Len(<<>>) = 0
    BY EmptySeq
  <2>5. Carries(conn[Current])
    BY <2>1, <2>4 DEF Carries
  <2>6. Carries(Part(conn[Current], req))
    BY <2>3, <2>4 DEF Carries
  <2>7. /\ conn'[Current] = conn[Current] \/ conn'[Current] = Part(conn[Current], req)
        /\ \A c \in Conns : c # Current => conn'[c] = conn[c]
    BY <1>2, <2>2 DEF PInv, ConnTypes
  <2>8. Carries(conn[Current])'
    BY <1>1, <1>2, <2>5, <2>6, <2>7 DEF Carries
  <2>9. pc' = "sending"
    BY <1>3 DEF Sends
  <2>. QED BY <1>1, <1>2, <2>7, <2>8, <2>9, OthersRest DEF AInv, Answered
<1>4. CASE SendsAll
  <2>. DEFINE x == [conn[Current] EXCEPT !.stage = "whole"]
  <2>1. conn' = conn \/ (conn[Current].stage = "part" /\ conn' = [conn EXCEPT ![Current] = x])
    BY <1>4 DEF SendsAll, PInv, ConnTypes
  <2>2. /\ x.stage = "whole" /\ x.rid = conn[Current].rid /\ x.head = conn[Current].head
        /\ x.wire = conn[Current].wire
    BY <1>2 DEF Conn
  <2>. HIDE DEF x
  <2>3. Carries(conn[Current])
    BY <1>4 DEF AInv, Answered, SendsAll, Busy
  <2>4. conn[Current].stage = "part" => Carries(x)
    <3>1. Len(<<>>) = 0
      BY EmptySeq
    <3>. QED BY <2>2, <2>3, <3>1 DEF Carries
  <2>5. /\ conn'[Current] = conn[Current] \/ (conn'[Current] = x /\ conn[Current].stage = "part")
        /\ \A c \in Conns : c # Current => conn'[c] = conn[c]
    BY <1>2, <2>1 DEF PInv, ConnTypes
  <2>6. Carries(conn[Current])'
    BY <1>1, <1>2, <2>3, <2>4, <2>5 DEF Carries
  <2>7. pc' = "recv" /\ (wasHead' <=> req.method = "HEAD")
    BY <1>4 DEF SendsAll
  <2>. QED BY <1>1, <1>2, <2>5, <2>6, <2>7, OthersRest DEF AInv, Answered
<1>. QED BY <1>3, <1>4

\* A read: what it calls the answer ends with the piece that completes it.
LEMMA TakesAnswers ==
  ASSUME PInv, AInv, NEW piece, NEW next, Takes(piece, next),
         next = "answer" => Completes(piece, conn[Current].head)
  PROVE  AInv'
<1>1. /\ pc = "recv" /\ Busy /\ Busy' /\ UNCHANGED <<entries, idx, req, wasHead>>
      /\ pc' = "took" <=> next = "answer"
  BY DEF Takes, Busy, hop
<1>2. /\ Current \in Conns /\ conn[Current] \in Conn /\ Current' = Current
      /\ Carries(conn[Current]) /\ (wasHead <=> req.method = "HEAD")
  BY <1>1, CurrentType DEF Current, AInv, Answered
<1>. DEFINE w == conn[Current].wire
            x == [conn[Current] EXCEPT !.wire = Tail(w)]
<1>3. w \in Seq(Pieces) /\ w # <<>> /\ Head(w) = piece /\ conn' = [conn EXCEPT ![Current] = x]
  BY <1>2 DEF Takes, Conn, PInv, ConnTypes
<1>4. x.stage = conn[Current].stage /\ x.rid = conn[Current].rid /\ x.head = conn[Current].head
      /\ x.end = conn[Current].end
  BY <1>2 DEF Conn
<1>5. x.wire = Tail(w)
  BY <1>2 DEF Conn
<1>. HIDE DEF x
<1>6. /\ Len(w) \in Nat /\ Len(Tail(w)) = Len(w) - 1 /\ w[1] = piece /\ Len(w) >= 1
      /\ \A i \in 1..Len(w) - 1 : Tail(w)[i] = w[i + 1]
      /\ Tail(w) \in Seq(Pieces)
  <2>1. /\ Len(Tail(w)) = Len(w) - 1 /\ Tail(w) \in Seq(Pieces)
        /\ \A i \in 1..Len(Tail(w)) : Tail(w)[i] = w[i + 1]
    BY <1>3, HeadTailProperties
  <2>2. Len(w) \in Nat /\ Len(w) >= 1
    BY <1>3, EmptySeq
  <2>. QED BY <1>3, <2>1, <2>2
<1>7. Carries(x)
  <2>1. conn[Current].stage \notin {"idle", "part", "whole", "ran"}
    BY <1>2, <1>3 DEF Carries
  <2>2. \A i \in 1..Len(w) : Completes(w[i], x.head) => i = Len(w) /\ x.stage = "sent"
    BY <1>2, <1>4 DEF Carries
  <2>. HIDE DEF w
  <2>3. ASSUME NEW i \in 1..Len(Tail(w)), Completes(Tail(w)[i], x.head)
        PROVE  i = Len(Tail(w)) /\ x.stage = "sent"
    <3>1. i + 1 \in 1..Len(w) /\ Tail(w)[i] = w[i + 1]
      BY <1>6
    <3>2. i + 1 = Len(w) /\ x.stage = "sent"
      BY <2>2, <2>3, <3>1
    <3>3. i \in Int /\ Len(w) \in Int
      BY <1>6, <3>1
    <3>4. i = Len(w) - 1
      BY <3>2, <3>3
    <3>. QED BY <1>6, <3>2, <3>4
  <2>. QED BY <1>2, <1>4, <1>5, <2>1, <2>3 DEF Carries
<1>8. /\ conn'[Current] = x
      /\ \A c \in Conns : c # Current => conn'[c] = conn[c]
  BY <1>2, <1>3 DEF PInv, ConnTypes
<1>9. Carries(conn[Current])'
  BY <1>1, <1>2, <1>7, <1>8 DEF Carries
<1>10. next = "answer" => x.wire = <<>> /\ x.stage = "sent"
  <2>4. \A i \in 1..Len(w) : Completes(w[i], conn[Current].head) => i = Len(w) /\ conn[Current].stage = "sent"
    BY <1>2 DEF Carries
  <2>. HIDE DEF w
  <2>5. 1 \in 1..Len(w) /\ w[1] = piece
    BY <1>6
  <2>1. next = "answer" => 1 = Len(w) /\ x.stage = "sent"
    BY <1>4, <2>4, <2>5
  <2>2. next = "answer" => Len(Tail(w)) = 0
    <3>1. Len(w) = 1 => Len(w) - 1 = 0
      OBVIOUS
    <3>. QED BY <1>6, <2>1, <3>1
  <2>3. Len(Tail(w)) = 0 => Tail(w) = <<>>
    BY <1>6, EmptySeq
  <2>. QED BY <1>5, <2>1, <2>2, <2>3
<1>11. Resting'
  BY <1>1, <1>8, OthersRest
<1>12. Answered'
  BY <1>1, <1>2, <1>8, <1>9, <1>10 DEF Answered
<1>. QED BY <1>11, <1>12 DEF AInv

LEMMA ReadsAnswers ==
  PInv /\ AInv /\ (ReadsInfo \/ ReadsHalf \/ ReadsHead \/ ReadsMore \/ ReadsBody) => AInv'
<1>. SUFFICES ASSUME PInv, AInv, ReadsInfo \/ ReadsHalf \/ ReadsHead \/ ReadsMore \/ ReadsBody
              PROVE  AInv'
  OBVIOUS
<1>1. CASE ReadsInfo \/ ReadsHalf
  BY <1>1, TakesAnswers DEF ReadsInfo, ReadsHalf
<1>2. CASE ReadsHead
  <2>1. CASE Takes("empty", "answer")
    BY <2>1, TakesAnswers DEF Completes
  <2>2. ASSUME NEW framing \in {"sized", "till"}, Takes(framing, IF wasHead THEN "answer" ELSE framing)
        PROVE  AInv'
    <3>1. /\ Carries(conn[Current]) /\ (wasHead <=> req.method = "HEAD")
          /\ conn[Current].wire # <<>>
      BY <2>2 DEF AInv, Answered, Takes, Busy
    <3>2. wasHead => conn[Current].head
      BY <3>1 DEF Carries
    <3>3. (IF wasHead THEN "answer" ELSE framing) = "answer" => Completes(framing, conn[Current].head)
      BY <3>2 DEF Completes
    <3>. QED BY <2>2, <3>3, TakesAnswers
  <2>. QED BY <1>2, <2>1, <2>2 DEF ReadsHead
<1>3. CASE ReadsMore
  <2>1. (IF seen \in {"sized", "till"} THEN seen ELSE "half") # "answer"
    OBVIOUS
  <2>. QED BY <1>3, <2>1, TakesAnswers DEF ReadsMore
<1>4. CASE ReadsBody
  BY <1>4, TakesAnswers DEF ReadsBody, Completes
<1>. QED BY <1>1, <1>2, <1>3, <1>4

LEMMA FailsAnswers == PInv /\ AInv /\ (SendFails \/ ReadsBadly \/ ReadsNothing) => AInv'
<1>. SUFFICES ASSUME PInv, AInv, SendFails \/ ReadsBadly \/ ReadsNothing PROVE AInv'
  OBVIOUS
<1>1. pc = "send" \/ Busy
  BY DEF SendFails, ReadsBadly, ReadsNothing, Busy
<1>2. Drops /\ ~Busy'
  BY DEF SendFails, ReadsBadly, ReadsNothing, Fails, Busy
<1>. QED BY <1>1, <1>2, DropsRest

LEMMA ReadsEndAnswers == PInv /\ AInv /\ ReadsEnd => AInv'
<1>. SUFFICES ASSUME PInv, AInv, ReadsEnd PROVE AInv'
  OBVIOUS
<1>1. Busy /\ pc = "recv" /\ conn[Current].wire = <<>>
  BY DEF ReadsEnd, Busy
<1>2. CASE seen = "till" /\ conn[Current].end = "eof"
  <2>1. pc' = "took" /\ Busy' /\ UNCHANGED <<entries, conn, req, idx, wasHead>>
    BY <1>2 DEF ReadsEnd, Keeps, hop, Busy
  <2>2. Resting'
    BY <1>1, <2>1, OthersRest
  <2>3. Answered'
    BY <1>1, <1>2, <2>1 DEF AInv, Answered, Current, Carries
  <2>. QED BY <2>2, <2>3 DEF AInv
<1>3. CASE ~(seen = "till" /\ conn[Current].end = "eof")
  <2>1. Drops /\ ~Busy'
    BY <1>3 DEF ReadsEnd, Fails, Busy
  <2>. QED BY <1>1, <2>1, DropsRest
<1>. QED BY <1>2, <1>3

LEMMA HoppedAnswers == PInv /\ AInv /\ (Returns \/ Raises \/ Follows) => AInv'
<1>. SUFFICES ASSUME PInv, AInv, Returns \/ Raises \/ Follows PROVE AInv'
  OBVIOUS
<1>1. Hopped /\ pc = "took" /\ Busy /\ ~Busy' /\ UNCHANGED idx
  BY DEF Returns, Raises, Follows, Hopped, Busy
<1>2. CASE Drops
  BY <1>1, <1>2, DropsRest
<1>3. CASE conn' = Rests /\ UNCHANGED <<entries, history>>
  <2>1. Current \in Conns /\ conn[Current] \in Conn /\ conn[Current].wire = <<>>
    BY <1>1, CurrentType DEF AInv, Answered
  <2>. DEFINE x == [conn[Current] EXCEPT !.stage = "idle", !.rid = 0, !.head = FALSE]
  <2>2. Rested(x)
    BY <2>1 DEF Conn, Rested
  <2>3. conn' = [conn EXCEPT ![Current] = x]
    BY <1>3, <2>1 DEF Rests, PInv, ConnTypes
  <2>. HIDE DEF x
  <2>4. conn'[Current] = x /\ \A c \in Conns : c # Current => conn'[c] = conn[c]
    BY <2>1, <2>3 DEF PInv, ConnTypes
  <2>5. \A i \in Live' : i # idx => Rested(conn'[entries[i].conn])
    BY <1>1, <1>3, <2>4, OthersRest
  <2>6. Resting'
    BY <1>1, <1>3, <2>2, <2>4, <2>5 DEF Resting, Current
  <2>. QED BY <1>1, <2>6, IdleHand
<1>. QED BY <1>1, <1>2, <1>3 DEF Hopped

LEMMA ClosesAnswers == Closes => AInv'
<1>. SUFFICES ASSUME Closes PROVE AInv'
  OBVIOUS
<1>1. Live' = {} /\ ~Busy'
  BY EmptySeq DEF Closes, Live, Busy
<1>2. Resting'
  BY <1>1 DEF Resting
<1>. QED BY <1>1, <1>2, IdleHand

\* The server writes no more than the answer to what is on the connection in hand, and
\* nothing on a connection that rests.
LEMMA ServerAnswers == PInv /\ AInv /\ Server => AInv'
<1>. SUFFICES ASSUME PInv, AInv, NEW c \in Conns, ServerStep(c) PROVE AInv'
  BY ServerSteps
<1>1. /\ conn[c].open /\ conn[c] \in Conn
      /\ conn'[c].rid = conn[c].rid /\ conn'[c].head = conn[c].head
      /\ \A d \in Conns : d # c => conn'[d] = conn[d]
      /\ UNCHANGED <<pc, entries, req, idx, wasHead>>
  BY ServerFacts DEF hop
<1>2. /\ Live' = Live /\ (Busy' <=> Busy)
      /\ \A i \in Live : entries[i].conn \in Conns
  BY <1>1, LiveFacts DEF Live, Busy, PInv
<1>3. conn[c].end = "up"
  BY DEF ServerStep, Executes, Writes, HangsUp, Serves
<1>4. Rested(conn[c]) => Rested(conn'[c])
  <2>. SUFFICES ASSUME conn[c].wire = <<>>, conn[c].stage = "idle" PROVE Rested(conn'[c])
    BY DEF Rested
  <2>1. PICK how \in {"eof", "reset"} : HangsUp(c, how)
    BY DEF ServerStep, Executes, Writes
  <2>. QED BY <1>1, <2>1 DEF HangsUp, Rested, PInv, ConnTypes
<1>5. Resting'
  BY <1>1, <1>2, <1>4 DEF AInv, Resting
<1>6. Answered'
  <2>. SUFFICES ASSUME Busy PROVE Answered'
    BY <1>1, <1>2 DEF Answered, Busy
  <2>1. Current \in Conns /\ Current' = Current /\ Carries(conn[Current])
    BY <1>1, CurrentType DEF AInv, Answered, Current
  <2>2. CASE c # Current
    BY <1>1, <2>1, <2>2 DEF AInv, Answered, Carries
  <2>3. CASE c = Current
    <3>. DEFINE w == conn[c].wire
    <3>1. w \in Seq(Pieces) /\ Len(w) \in Nat
      BY <1>1, LenProperties DEF Conn
    <3>2. CASE Executes(c)
      <4>1. conn[c].stage \in {"part", "whole"} /\ conn'[c].stage = "ran" /\ conn'[c].wire = <<>>
            /\ conn'[c].end = conn[c].end
        BY <1>1, <2>1, <2>3, <3>2 DEF Executes, PInv, ConnTypes, Conn, Carries
      <4>2. Carries(conn[Current])'
        BY <1>1, <2>1, <2>3, <4>1, EmptySeq DEF Carries
      <4>3. pc # "took"
        BY <1>3, <2>3, <4>1 DEF AInv, Answered
      <4>. QED BY <1>1, <4>2, <4>3 DEF Answered, AInv
    <3>3. ASSUME NEW from \in {"ran", "informed", "half", "sized", "till"},
                 NEW to \in {"informed", "half", "sized", "till", "sent"}, NEW piece \in Pieces,
                 Completes(piece, conn[c].head) => to = "sent", Writes(c, from, piece, to)
          PROVE  Answered'
      <4>1. conn[c].stage = from /\ conn'[c].stage = to /\ conn'[c].wire = Append(w, piece)
        BY <1>1, <3>3 DEF Writes, PInv, ConnTypes, Conn
      <4>2. \A i \in 1..Len(w) : ~Completes(w[i], conn[c].head)
        BY <2>1, <2>3, <4>1 DEF Carries
      <4>. HIDE DEF w
      <4>3. /\ Len(Append(w, piece)) = Len(w) + 1
            /\ \A i \in 1..Len(w) : Append(w, piece)[i] = w[i]
            /\ Append(w, piece)[Len(w) + 1] = piece
        BY <3>1, AppendProperties
      <4>4. ASSUME NEW i \in 1..Len(w) + 1, Completes(Append(w, piece)[i], conn[c].head)
            PROVE  i = Len(w) + 1 /\ to = "sent"
        <5>1. i \in 1..Len(w) \/ i = Len(w) + 1
          BY <3>1
        <5>. QED BY <3>3, <4>2, <4>3, <4>4, <5>1
      <4>5. Carries(conn[Current])'
        BY <1>1, <2>1, <2>3, <4>1, <4>3, <4>4 DEF Carries
      <4>6. pc # "took"
        BY <1>3, <2>3, <4>1 DEF AInv, Answered
      <4>. QED BY <1>1, <4>5, <4>6 DEF Answered, AInv
    <3>4. ASSUME NEW how \in {"eof", "reset"}, HangsUp(c, how)
          PROVE  Answered'
      <4>1. conn'[c].stage = conn[c].stage /\ conn'[c].end = how /\ conn'[c].wire \in {w, <<>>}
        BY <1>1, <3>4 DEF HangsUp, PInv, ConnTypes, Conn
      <4>2. Len(<<>>) = 0
        BY EmptySeq
      <4>3. Carries(conn[Current])'
        BY <1>1, <2>1, <2>3, <4>1, <4>2 DEF Carries
      <4>4. pc = "took" => conn'[c].wire = <<>>
        BY <2>3, <4>1 DEF AInv, Answered
      <4>. QED BY <1>1, <2>1, <2>3, <4>1, <4>3, <4>4 DEF Answered, AInv
    <3>. QED BY <3>2, <3>3, <3>4 DEF ServerStep
  <2>. QED BY <2>2, <2>3
<1>. QED BY <1>5, <1>6 DEF AInv

LEMMA InitAnswers == Init => AInv
BY DEF Init, AInv, Resting, Live, Answered, Busy

LEMMA NextAnswers == PInv /\ AInv /\ [Next]_vars => AInv'
<1>. SUFFICES ASSUME PInv, AInv, [Next]_vars PROVE AInv'
  OBVIOUS
<1>1. CASE \E o \in Origin, m \in Methods : Fetches(o, m)
  <2>1. ~Busy /\ ~Busy' /\ UNCHANGED <<entries, conn>>
    BY <1>1 DEF Fetches, Busy
  <2>. QED BY <2>1, PlainAnswers
<1>2. CASE Finds \/ DialFails
  <2>1. ~Busy /\ ~Busy' /\ UNCHANGED <<entries, conn>>
    BY <1>2 DEF Finds, DialFails, Busy
  <2>. QED BY <2>1, PlainAnswers
<1>3. CASE Receives
  BY <1>3, ReadsAnswers, FailsAnswers, ReadsEndAnswers DEF Receives
<1>4. CASE UNCHANGED vars
  BY <1>4 DEF vars, hop, AInv, Resting, Answered, Busy, Live, Current, Carries
<1>. QED BY <1>1, <1>2, <1>3, <1>4, DialsAnswers, SendsAnswers, FailsAnswers, HoppedAnswers,
            ClosesAnswers, ServerAnswers DEF Next, Fetching

LEMMA SpecAInv == Spec => []AInv
BY InitAnswers, NextAnswers, SpecPInv, PTL DEF Spec

\* A connection that rests in the pool has nothing of an earlier answer on its wire and no
\* request at its server: whatever recvOn read, the next answer is that of the next request.
THEOREM NothingOwed == Spec => []RestingOwesNothing
BY SpecPInv, SpecAInv, RestingParts, PTL

-----------------------------------------------------------------------------
(* How often a request is executed.                                        *)

\* What the attempt before may have executed, and whether this one has.
Earlier == IF attempt = 1 /\ req.id \in lost THEN 1 ELSE 0
Ran == Busy /\ conn[Current].stage \notin {"idle", "part", "whole"}

\* A request that was not sent yet was never executed; what is repeated was lost.
Counted ==
  /\ \A r \in Requests : r > req.id => executed[r] = 0
  /\ pc = "hop" => executed[req.id] = 0
  /\ pc \in {"dial", "send"} => executed[req.id] <= Earlier
  /\ Busy => executed[req.id] <= Earlier + (IF Ran THEN 1 ELSE 0)

CInv == Counted /\ RepeatedOnlyIfLost

\* The connection that has a request is the one in hand, and the request is the hop's.
LEMMA WorksOnCurrent ==
  ASSUME PInv, AInv, NEW c \in Conns, conn[c].open, conn[c].stage # "idle"
  PROVE  Busy /\ c = Current /\ conn[c].rid = req.id
<1>1. PICK i \in Live : entries[i].conn = c
  BY DEF PInv, HoldsAll
<1>2. i = idx /\ Busy
  BY <1>1 DEF AInv, Resting, Rested
<1>. QED BY <1>1, <1>2 DEF AInv, Answered, Carries, Current

\* What is known of the count of the request in hand when its connection is dropped.
LEMMA InHand ==
  ASSUME PInv, AInv, CInv, pc = "send" \/ Busy
  PROVE  /\ req.id \in Requests /\ executed[req.id] \in Nat
         /\ executed[req.id] <= 1 \/ req.id \in lost
         /\ executed[req.id] <= 2
         /\ conn[Current].stage # "idle" => conn[Current].rid = req.id
         /\ conn[Current].stage \in {"idle", "part", "whole"} =>
              /\ executed[req.id] <= 1
              /\ attempt = 0 => executed[req.id] = 0
         /\ attempt = 0 => executed[req.id] <= 1
<1>1. /\ req.id \in Requests /\ idx \in Live /\ Current \in Conns
  BY CurrentType
<1>2. executed[req.id] \in Nat /\ executed[req.id] <= IF req.id \in lost THEN 2 ELSE 1
  BY <1>1 DEF PInv, HistoryTypes, CInv, RepeatedOnlyIfLost
<1>3. CASE Busy
  <2>1. conn[Current].stage # "idle" => conn[Current].rid = req.id
    BY <1>3 DEF AInv, Answered, Carries
  <2>2. executed[req.id] <= Earlier + (IF Ran THEN 1 ELSE 0)
    BY <1>3 DEF CInv, Counted
  <2>3. conn[Current].stage \in {"idle", "part", "whole"} => ~Ran
    BY DEF Ran
  <2>. QED BY <1>1, <1>2, <2>1, <2>2, <2>3 DEF Earlier
<1>4. CASE pc = "send"
  <2>1. conn[Current].stage = "idle"
    BY <1>1, <1>4 DEF AInv, Resting, Rested, Busy, Current
  <2>2. executed[req.id] <= Earlier
    BY <1>4 DEF CInv, Counted
  <2>. QED BY <1>1, <1>2, <2>1, <2>2 DEF Earlier
<1>. QED BY <1>3, <1>4

LEMMA DropsCounted ==
  ASSUME PInv, AInv, CInv, pc = "send" \/ Busy, Drops
  PROVE  /\ \A r \in Requests : r # req.id => executed'[r] = executed[r]
         /\ RepeatedOnlyIfLost'
         /\ attempt = 0 /\ Unread(Current) => executed'[req.id] <= IF req.id \in lost' THEN 1 ELSE 0
<1>1. /\ req.id \in Requests /\ executed[req.id] \in Nat
      /\ executed[req.id] <= 1 \/ req.id \in lost
      /\ executed[req.id] <= 2
      /\ conn[Current].stage # "idle" => conn[Current].rid = req.id
      /\ conn[Current].stage \in {"idle", "part", "whole"} =>
              /\ executed[req.id] <= 1
              /\ attempt = 0 => executed[req.id] = 0
      /\ attempt = 0 => executed[req.id] <= 1
  BY InHand
<1>2. executed \in [Requests -> Nat] /\ \A r \in Requests : executed[r] <= IF r \in lost THEN 2 ELSE 1
  BY DEF PInv, HistoryTypes, CInv, RepeatedOnlyIfLost
<1>3. CASE /\ conn[Current].stage \in {"part", "whole"}
           /\ executed' = [executed EXCEPT ![conn[Current].rid] = @ + 1]
           /\ lost' = lost \union {conn[Current].rid}
  <2>1. /\ conn[Current].rid = req.id /\ executed[req.id] <= 1
        /\ attempt = 0 => executed[req.id] = 0
    BY <1>1, <1>3
  <2>2. /\ executed'[req.id] = executed[req.id] + 1 /\ req.id \in lost'
        /\ \A r \in Requests : r # req.id => executed'[r] = executed[r] /\ (r \in lost' <=> r \in lost)
    BY <1>1, <1>2, <1>3, <2>1
  <2>3. RepeatedOnlyIfLost'
    <3>. SUFFICES ASSUME NEW r \in Requests PROVE executed'[r] <= IF r \in lost' THEN 2 ELSE 1
      BY DEF RepeatedOnlyIfLost
    <3>1. CASE r = req.id
      BY <1>1, <2>1, <2>2, <3>1
    <3>2. CASE r # req.id
      BY <1>2, <2>2, <3>2
    <3>. QED BY <3>1, <3>2
  <2>. QED BY <1>1, <2>1, <2>2, <2>3
<1>4. CASE /\ executed' = executed
           /\ lost' = IF conn[Current].stage \notin {"idle", "part", "whole"} /\ Unread(Current)
                      THEN lost \union {conn[Current].rid} ELSE lost
  <2>1. \A r \in Requests : r \in lost => r \in lost'
    BY <1>4
  <2>2. RepeatedOnlyIfLost'
    BY <1>2, <1>4, <2>1 DEF RepeatedOnlyIfLost
  <2>3. CASE conn[Current].stage \in {"idle", "part", "whole"}
    BY <1>1, <1>4, <2>2, <2>3
  <2>4. CASE conn[Current].stage \notin {"idle", "part", "whole"}
    <3>1. Unread(Current) => req.id \in lost'
      BY <1>1, <1>4, <2>4
    <3>. QED BY <1>1, <1>4, <2>2, <3>1
  <2>. QED BY <2>3, <2>4
<1>. QED BY <1>3, <1>4 DEF Drops

\* Counted of a step that goes on with the same request.
LEMMA CountedKept ==
  ASSUME CInv, UNCHANGED <<req, attempt, history>>,
         pc' # "hop", pc' \in {"dial", "send"} => pc \in {"dial", "send"},
         Busy' => Busy /\ (Ran' <=> Ran)
  PROVE  CInv'
<1>1. Earlier' = Earlier
  BY DEF Earlier, history
<1>2. Busy' => (IF Ran THEN 1 ELSE 0)' = (IF Ran THEN 1 ELSE 0)
  OBVIOUS
<1>3. Counted'
  BY <1>1, <1>2 DEF CInv, Counted, history
<1>4. RepeatedOnlyIfLost'
  BY DEF CInv, RepeatedOnlyIfLost, history
<1>. QED BY <1>3, <1>4 DEF CInv

\* A request that comes next was never executed.
LEMMA NextRequest ==
  ASSUME PInv, PInv', CInv, RepeatedOnlyIfLost', pc' = "hop", req'.id = req.id + 1,
         \A r \in Requests : r # req.id => executed'[r] = executed[r]
  PROVE  CInv'
<1>1. req'.id \in Requests /\ req.id \in Int
  BY DEF PInv, Budget, ClientTypes
<1>2. /\ \A r \in Requests : r > req'.id => executed'[r] = 0
      /\ executed'[req'.id] = 0
  <2>1. \A r \in Requests : r > req'.id \/ r = req'.id => r > req.id /\ r # req.id
    BY <1>1 DEF Requests
  <2>2. \A r \in Requests : r > req'.id \/ r = req'.id => executed'[r] = 0
    BY <2>1 DEF CInv, Counted
  <2>. QED BY <1>1, <2>2
<1>3. ~Busy' /\ pc' \notin {"dial", "send"}
  BY DEF Busy
<1>4. Counted'
  BY <1>2, <1>3 DEF Counted
<1>. QED BY <1>4 DEF CInv

LEMMA FetchesCounted ==
  ASSUME PInv, PInv', CInv, NEW o \in Origin, NEW m \in Methods, Fetches(o, m)
  PROVE  CInv'
<1>1. pc' = "hop" /\ req'.id = req.id + 1 /\ UNCHANGED history
  BY DEF Fetches
<1>2. RepeatedOnlyIfLost'
  BY <1>1 DEF CInv, RepeatedOnlyIfLost, history
<1>. QED BY <1>1, <1>2, NextRequest DEF history

LEMMA FindsCounted == PInv /\ CInv /\ Finds => CInv'
<1>. SUFFICES ASSUME PInv, CInv, Finds PROVE CInv'
  OBVIOUS
<1>1. /\ pc = "hop" /\ pc' \in {"dial", "send"} /\ ~Busy' /\ UNCHANGED <<req, executed, lost>>
  BY DEF Finds, Busy, history
<1>2. Earlier' \in {0, 1}
  BY DEF Earlier
<1>3. executed[req.id] = 0 /\ \A r \in Requests : r > req.id => executed[r] = 0
  BY <1>1 DEF CInv, Counted
<1>6. executed[req.id] <= Earlier'
  BY <1>2, <1>3
<1>7. executed'[req'.id] <= Earlier' /\ \A r \in Requests : r > req'.id => executed'[r] = 0
  BY <1>1, <1>3, <1>6
<1>4. Counted'
  BY <1>1, <1>7 DEF Counted
<1>5. RepeatedOnlyIfLost'
  BY <1>1 DEF CInv, RepeatedOnlyIfLost
<1>. QED BY <1>4, <1>5 DEF CInv

LEMMA SendsCounted == PInv /\ AInv /\ CInv /\ Sends => CInv'
<1>. SUFFICES ASSUME PInv, AInv, CInv, Sends PROVE CInv'
  OBVIOUS
<1>1. /\ pc = "send" /\ pc' = "sending" /\ UNCHANGED <<req, attempt, executed, lost>>
  BY DEF Sends, hop, history
<1>2. req.id \in Requests /\ executed[req.id] \in Nat
  BY <1>1, InHand
<1>3. Earlier' = Earlier /\ Earlier \in {0, 1} /\ executed[req.id] <= Earlier
  BY <1>1 DEF Earlier, CInv, Counted
<1>4. executed[req.id] <= Earlier + (IF Ran' THEN 1 ELSE 0)
  BY <1>2, <1>3
<1>5. Counted'
  BY <1>1, <1>3, <1>4 DEF Counted, CInv
<1>6. RepeatedOnlyIfLost'
  BY <1>1 DEF CInv, RepeatedOnlyIfLost
<1>. QED BY <1>5, <1>6 DEF CInv

\* The steps that leave the stage of the connection in hand on its side of the execution.
LEMMA StageKept ==
  ASSUME PInv, CInv, SendsAll \/ \E piece, next : Takes(piece, next)
  PROVE  CInv'
<1>1. /\ Busy /\ Busy' /\ pc' \notin {"hop", "dial", "send"}
      /\ UNCHANGED <<req, attempt, history, entries, idx>>
  BY DEF SendsAll, Takes, Busy, hop
<1>2. Current \in Conns /\ conn[Current] \in Conn /\ Current' = Current
  BY <1>1, CurrentType DEF Current
<1>3. \/ conn'[Current].stage = conn[Current].stage
      \/ conn'[Current].stage = "whole" /\ conn[Current].stage = "part"
  <2>1. CASE SendsAll
    BY <1>2, <2>1 DEF SendsAll, PInv, ConnTypes, Conn
  <2>2. ASSUME NEW piece, NEW next, Takes(piece, next)
        PROVE  conn'[Current].stage = conn[Current].stage
    BY <1>2, <2>2 DEF Takes, PInv, ConnTypes, Conn
  <2>. QED BY <2>1, <2>2
<1>4. Ran' <=> Ran
  BY <1>1, <1>2, <1>3 DEF Ran
<1>. QED BY <1>1, <1>4, CountedKept

LEMMA FailsCounted ==
  ASSUME PInv, AInv, CInv, pc = "send" \/ Busy, NEW err, Fails(err),
         Retries(err) => Unread(Current)
  PROVE  CInv'
<1>1. /\ Drops /\ UNCHANGED req /\ ~Busy' /\ pc' \in {"dial", "idle"}
      /\ pc' = "dial" => Retries(err)
  BY DEF Fails, Busy
<1>2. /\ \A r \in Requests : r # req.id => executed'[r] = executed[r]
      /\ RepeatedOnlyIfLost'
      /\ attempt = 0 /\ Unread(Current) => executed'[req.id] <= IF req.id \in lost' THEN 1 ELSE 0
  BY <1>1, DropsCounted
<1>3. req.id \in Requests
  BY CurrentType
<1>4. Retries(err) => executed'[req.id] <= Earlier'
  <2>. SUFFICES ASSUME Retries(err) PROVE executed'[req.id] <= Earlier'
    OBVIOUS
  <2>1. attempt = 0
    BY DEF Retries
  <2>2. attempt' = attempt + 1
    BY DEF Fails
  <2>3. attempt' = 1
    BY <2>1, <2>2
  <2>. QED BY <1>1, <1>2, <2>1, <2>3 DEF Earlier
<1>5. \A r \in Requests : r > req.id => executed'[r] = 0
  BY <1>2, <1>3 DEF CInv, Counted, Requests
<1>6. Counted'
  BY <1>1, <1>4, <1>5 DEF Counted
<1>. QED BY <1>2, <1>6 DEF CInv

\* hop retries what could not be sent, or ended before a byte was read: in both cases
\* an execution of the request is one whose answer is lost.
LEMMA ErrorsCounted == PInv /\ AInv /\ CInv /\ (SendFails \/ ReadsBadly \/ ReadsNothing \/ ReadsEnd) => CInv'
<1>. SUFFICES ASSUME PInv, AInv, CInv, SendFails \/ ReadsBadly \/ ReadsNothing \/ ReadsEnd PROVE CInv'
  OBVIOUS
<1>1. CASE SendFails
  <2>1. Fails("Send") /\ (pc = "send" \/ Busy) /\ Unread(Current)
    BY <1>1 DEF SendFails, Busy, Unread, PInv, ClientTypes
  <2>. QED BY <2>1, FailsCounted
<1>2. CASE ReadsBadly \/ ReadsNothing
  <2>1. Fails("Recv") /\ (pc = "send" \/ Busy) /\ ~Retries("Recv")
    BY <1>2 DEF ReadsBadly, ReadsNothing, Busy, Retries
  <2>. QED BY <2>1, FailsCounted
<1>3. CASE ReadsEnd
  <2>1. Busy /\ pc = "recv" /\ conn[Current].wire = <<>>
    BY <1>3 DEF ReadsEnd, Busy
  <2>2. CASE seen = "till" /\ conn[Current].end = "eof"
    <3>1. pc' = "took" /\ UNCHANGED <<entries, conn, history, req, attempt, idx>>
      BY <1>3, <2>2 DEF ReadsEnd, Keeps, hop
    <3>2. Busy' /\ (Ran' <=> Ran)
      BY <2>1, <3>1 DEF Busy, Ran, Current
    <3>. QED BY <2>1, <3>1, <3>2, CountedKept
  <2>3. CASE ~(seen = "till" /\ conn[Current].end = "eof") /\ seen = "nothing"
    <3>1. Fails("Closed") /\ Unread(Current)
      BY <1>3, <2>1, <2>3 DEF ReadsEnd, Unread
    <3>. QED BY <2>1, <3>1, FailsCounted
  <2>4. CASE ~(seen = "till" /\ conn[Current].end = "eof") /\ seen # "nothing"
    <3>1. Fails("Recv") /\ ~Retries("Recv")
      BY <1>3, <2>4 DEF ReadsEnd, Retries
    <3>. QED BY <2>1, <3>1, FailsCounted
  <2>. QED BY <2>2, <2>3, <2>4
<1>. QED BY <1>1, <1>2, <1>3

LEMMA HoppedCounted == PInv /\ PInv' /\ AInv /\ CInv /\ (Returns \/ Raises \/ Follows) => CInv'
<1>. SUFFICES ASSUME PInv, PInv', AInv, CInv, Returns \/ Raises \/ Follows PROVE CInv'
  OBVIOUS
<1>1. Hopped /\ pc = "took" /\ Busy
  BY DEF Returns, Raises, Follows, Hopped, Busy
<1>2. /\ \A r \in Requests : r # req.id => executed'[r] = executed[r]
      /\ RepeatedOnlyIfLost'
  <2>1. CASE Drops
    BY <1>1, <2>1, DropsCounted
  <2>2. CASE UNCHANGED history
    BY <2>2 DEF history, CInv, RepeatedOnlyIfLost
  <2>. QED BY <1>1, <2>1, <2>2 DEF Hopped
<1>3. CASE Returns \/ Raises
  <2>1. pc' = "idle" /\ UNCHANGED req
    BY <1>3 DEF Returns, Raises
  <2>2. req.id \in Requests
    BY <1>1, CurrentType
  <2>3. \A r \in Requests : r > req.id => executed'[r] = 0
    BY <1>2, <2>2 DEF CInv, Counted, Requests
  <2>4. Counted'
    BY <2>1, <2>3 DEF Counted, Busy
  <2>. QED BY <1>2, <2>4 DEF CInv
<1>4. CASE Follows
  <2>1. pc' = "hop" /\ req'.id = req.id + 1
    BY <1>4 DEF Follows
  <2>. QED BY <1>2, <2>1, NextRequest
<1>. QED BY <1>3, <1>4

LEMMA ServerCounted == PInv /\ AInv /\ CInv /\ Server => CInv'
<1>. SUFFICES ASSUME PInv, AInv, CInv, NEW c \in Conns, ServerStep(c) PROVE CInv'
  BY ServerSteps
<1>1. /\ conn[c].open /\ conn[c] \in Conn
      /\ \A d \in Conns : d # c => conn'[d] = conn[d]
      /\ UNCHANGED <<pc, entries, req, idx, attempt>>
  BY ServerFacts DEF hop
<1>2. (Busy' <=> Busy) /\ Current' = Current
  BY <1>1 DEF Busy, Current
<1>3. /\ conn[c].stage # "idle" => Busy /\ c = Current /\ conn[c].rid = req.id
      /\ Busy => Current \in Conns
  BY <1>1, WorksOnCurrent, CurrentType
<1>4. executed \in [Requests -> Nat] /\ \A r \in Requests : executed[r] <= IF r \in lost THEN 2 ELSE 1
  BY DEF PInv, HistoryTypes, CInv, RepeatedOnlyIfLost
<1>5. CASE Executes(c)
  <2>1. /\ conn[c].stage \in {"part", "whole"} /\ conn'[c].stage = "ran" /\ UNCHANGED lost
        /\ executed' = [executed EXCEPT ![conn[c].rid] = @ + 1]
    BY <1>5 DEF Executes, PInv, ConnTypes, Conn
  <2>2. /\ Busy /\ c = Current /\ conn[c].rid = req.id /\ req.id \in Requests
        /\ ~Ran /\ Ran' /\ executed[req.id] \in Nat
    BY <1>2, <1>3, <2>1, InHand DEF Ran
  <2>3. /\ executed'[req.id] = executed[req.id] + 1 /\ executed[req.id] <= Earlier
        /\ \A r \in Requests : r # req.id => executed'[r] = executed[r]
    <3>1. executed[req.id] <= Earlier + 0
      BY <2>2 DEF CInv, Counted
    <3>2. Earlier + 0 = Earlier
      BY DEF Earlier
    <3>. QED BY <1>4, <2>1, <2>2, <3>1, <3>2
  <2>4. Earlier' = Earlier /\ (Earlier = 0 \/ (Earlier = 1 /\ req.id \in lost))
    BY <1>1, <2>1 DEF Earlier
  <2>5. \A r \in Requests : r > req.id => executed'[r] = 0
    BY <2>2, <2>3 DEF CInv, Counted, Requests
  <2>6. executed'[req.id] <= Earlier + 1
    BY <2>2, <2>3, <2>4
  <2>7. Counted'
    BY <1>1, <1>2, <2>2, <2>4, <2>5, <2>6 DEF Counted, Busy
  <2>8. RepeatedOnlyIfLost'
    <3>. SUFFICES ASSUME NEW r \in Requests PROVE executed'[r] <= IF r \in lost' THEN 2 ELSE 1
      BY DEF RepeatedOnlyIfLost
    <3>1. CASE r = req.id
      BY <2>1, <2>2, <2>3, <2>4, <3>1
    <3>2. CASE r # req.id
      BY <1>4, <2>1, <2>3, <3>2
    <3>. QED BY <3>1, <3>2
  <2>. QED BY <2>7, <2>8 DEF CInv
<1>6. ASSUME NEW from \in {"ran", "informed", "half", "sized", "till"},
             NEW to \in {"informed", "half", "sized", "till", "sent"}, NEW piece \in Pieces,
             Writes(c, from, piece, to)
      PROVE  CInv'
  <2>1. conn[c].stage = from /\ conn'[c].stage = to /\ UNCHANGED history
    BY <1>6 DEF Writes, PInv, ConnTypes, Conn
  <2>2. Busy => (Ran' <=> Ran)
    BY <1>2, <1>3, <2>1 DEF Ran
  <2>3. pc # "hop" /\ pc \notin {"dial", "send"}
    BY <1>3, <2>1 DEF Busy
  <2>. QED BY <1>1, <1>2, <2>1, <2>2, <2>3, CountedKept
<1>7. ASSUME NEW how \in {"eof", "reset"}, HangsUp(c, how)
      PROVE  CInv'
  <2>1. /\ conn'[c].stage = conn[c].stage /\ UNCHANGED executed
        /\ lost \subseteq lost'
    BY <1>7 DEF HangsUp, PInv, ConnTypes, Conn
  <2>2. Busy => (Ran' <=> Ran)
    BY <1>1, <1>2, <1>3, <2>1 DEF Ran
  <2>3. Earlier = Earlier' \/ (Earlier = 0 /\ Earlier' = 1)
    BY <1>1, <2>1 DEF Earlier
  <2>4. pc \in {"dial", "send"} => executed[req.id] <= Earlier'
    <3>1. pc \in {"dial", "send"} => executed[req.id] <= Earlier /\ executed[req.id] \in Nat
      BY <1>4 DEF CInv, Counted, PInv, Budget
    <3>. QED BY <2>3, <3>1
  <2>5. Busy => executed[req.id] <= Earlier' + (IF Ran' THEN 1 ELSE 0)
    <3>1. Busy => executed[req.id] <= Earlier + (IF Ran THEN 1 ELSE 0) /\ executed[req.id] \in Nat
      BY InHand DEF CInv, Counted
    <3>. QED BY <2>2, <2>3, <3>1
  <2>6. Counted'
    BY <1>1, <1>2, <2>1, <2>4, <2>5 DEF CInv, Counted
  <2>7. RepeatedOnlyIfLost'
    BY <1>4, <2>1 DEF RepeatedOnlyIfLost
  <2>. QED BY <2>6, <2>7 DEF CInv
<1>. QED BY <1>5, <1>6, <1>7 DEF ServerStep

LEMMA InitCounted == Init => CInv
<1>. SUFFICES ASSUME Init PROVE CInv
  OBVIOUS
<1>1. \A r \in Requests : executed[r] = 0
  BY DEF Init
<1>2. pc = "idle"
  BY DEF Init
<1>. QED BY <1>1, <1>2 DEF CInv, Counted, RepeatedOnlyIfLost, Busy

LEMMA NextCounted == PInv /\ PInv' /\ AInv /\ CInv /\ [Next]_vars => CInv'
<1>. SUFFICES ASSUME PInv, PInv', AInv, CInv, [Next]_vars PROVE CInv'
  OBVIOUS
<1>1. CASE Dials \/ DialFails
  <2>1. /\ UNCHANGED <<req, attempt, history>> /\ pc = "dial" /\ pc' \in {"send", "idle"} /\ ~Busy'
    BY <1>1 DEF Dials, DialFails, hop, Busy
  <2>. QED BY <2>1, CountedKept
<1>2. CASE Closes
  <2>1. /\ UNCHANGED <<req, attempt, history>> /\ pc' = "closed" /\ ~Busy'
    BY <1>2 DEF Closes, hop, Busy
  <2>. QED BY <2>1, CountedKept
<1>3. CASE Receives
  BY <1>3, StageKept, ErrorsCounted
     DEF Receives, ReadsInfo, ReadsHalf, ReadsHead, ReadsMore, ReadsBody
<1>4. CASE UNCHANGED vars
  <2>1. UNCHANGED <<req, attempt, history>> /\ pc' = pc /\ (Busy' <=> Busy) /\ (Ran' <=> Ran)
    BY <1>4 DEF vars, hop, Busy, Ran, Current
  <2>2. Earlier' = Earlier
    BY <2>1 DEF Earlier, history
  <2>. QED BY <2>1, <2>2 DEF CInv, Counted, RepeatedOnlyIfLost, history
<1>. QED BY <1>1, <1>2, <1>3, <1>4, FetchesCounted, FindsCounted, SendsCounted, StageKept,
            ErrorsCounted, HoppedCounted, ServerCounted DEF Next, Fetching

LEMMA SpecCInv == Spec => []CInv
BY InitCounted, NextCounted, SpecPInv, SpecAInv, PTL DEF Spec

\* The retry of hop executes a request twice only if the connection of the first time ended
\* before the client had read a byte of its answer, and never a third time.
THEOREM RepeatsOnlyTheLost == Spec => []RepeatedOnlyIfLost
BY SpecCInv, PTL DEF CInv

-----------------------------------------------------------------------------
(* One connection for each origin is enough: the pool never dials while it  *)
(* holds one for every origin, so that the number of connections there are  *)
(* in the model keeps no dial from happening.                               *)

RoomToDial == pc = "dial" => \E c \in Conns : ~conn[c].open

LEMMA PoolHasRoom == PInv => RoomToDial
<1>. SUFFICES ASSUME PInv, pc = "dial", \A c \in Conns : conn[c].open PROVE FALSE
  BY DEF RoomToDial
<1>. DEFINE Others == Origin \ {req.origin}
            slot(c) == CHOOSE i \in Live : entries[i].conn = c
            f == [c \in Conns |-> entries[slot(c)].origin]
<1>1. \A c \in Conns : slot(c) \in Live /\ entries[slot(c)].conn = c
  BY DEF PInv, HoldsAll
<1>2. \A i \in Live : entries[i].origin \in Others
  <2>1. \A i \in Live : entries[i] \in Entry
    BY LiveFacts DEF PInv
  <2>. QED BY <2>1 DEF PInv, Held, Entry
<1>3. /\ IsFiniteSet(Others) /\ Cardinality(Origin) \in Nat
      /\ Cardinality(Others) = Cardinality(Origin) - 1
  BY OriginAssumption, FS_RemoveElement, FS_CardinalityType DEF PInv, ClientTypes
<1>4. IsFiniteSet(Conns) /\ Cardinality(Conns) = Cardinality(Origin)
  BY <1>3, FS_Interval DEF Conns
<1>5. Cardinality(Others) < Cardinality(Conns)
  BY <1>3, <1>4
<1>. HIDE DEF slot, Others
<1>6. f \in [Conns -> Others]
  BY <1>1, <1>2
<1>6a. \A c \in Conns : f[c] = entries[slot(c)].origin
  OBVIOUS
<1>. HIDE DEF f
<1>7. PICK x, y \in Conns : x # y /\ f[x] = f[y]
  BY <1>3, <1>4, <1>5, <1>6, FS_PigeonHole
<1>8. entries[slot(x)].origin = entries[slot(y)].origin
  BY <1>6a, <1>7
<1>9. slot(x) # slot(y)
  BY <1>1, <1>7
<1>. QED BY <1>1, <1>8, <1>9 DEF PInv, Apart

\* Whenever hop dials there is a connection the pool does not hold.
THEOREM DialFindsRoom == Spec => []RoomToDial
BY SpecPInv, PoolHasRoom, PTL

=============================================================================
