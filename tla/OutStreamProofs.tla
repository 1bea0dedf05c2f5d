--------------------------- MODULE OutStreamProofs ---------------------------
(***************************************************************************)
(* The streamed response of the HTTP server, proved for every length of    *)
(* the response, capacity of the channel and size of a piece: the channel  *)
(* is freed once, and a response that was cut short shows as such.         *)
(***************************************************************************)
EXTENDS OutStream, SequenceTheorems, TLAPS

-----------------------------------------------------------------------------
(* The inductive invariant.                                                *)

\* What a worker is past, by its place.
Before == {"handler", "notify", "register", "late"}
Registered == {"late", "pull", "feed", "asleep", "wake", "finish", "endwake", "unregister"}

\* What the places of worker and loop say of the connection and the channel.
Shape ==
  /\ conn.ochan <=> conn.state = "writing"
  /\ conn.waiting \/ conn.armed => conn.state = "writing"
  /\ lpc \in {"write", "refill"} => conn.state = "writing"
  /\ wpc = "handler" => ~done /\ conn.state # "writing"
  /\ registered => wpc \in Registered

\* What the producer has made: piece follows what is in the channel, which follows
\* what the loop has taken.
Base == made - Len(piece)
TakenOut == Base - Len(chan.buf)

Producing ==
  /\ wpc \in Before => made = 0
  /\ wpc \in Before \union {"pull", "finish", "endwake"} => piece = <<>>
  /\ wpc \notin {"finish", "endwake", "unregister", "release", "gone"} => ended = "no"
  /\ chan.eof => /\ ended = "done" /\ piece = <<>>
                 /\ wpc \in {"endwake", "unregister", "release", "gone"}

InOrder ==
  /\ TakenOut >= 0
  /\ \A i \in 1..Len(piece) : piece[i] = Base + i
  /\ \A i \in 1..Len(chan.buf) : chan.buf[i] = TakenOut + i

\* The i-th thing the client is told, but for the end.
Told(i) == IF i = 1 THEN Head1 ELSE i - 1

\* What is on its way to the client while the response is written.
OnItsWay ==
  /\ conn.state = "handling" => got = <<>> /\ TakenOut = 0 /\ ~conn.streamDone
  /\ conn.state = "writing" /\ ~conn.streamDone =>
       /\ Len(got) + Len(conn.out) = TakenOut + 1
       /\ \A i \in 1..Len(got) : got[i] = Told(i)
       /\ \A i \in 1..Len(conn.out) : conn.out[i] = Told(Len(got) + i)
  /\ conn.state = "writing" /\ conn.streamDone =>
       /\ ended = "done" /\ Len(got) = made + 1
       /\ Len(conn.out) = 1 /\ conn.out[1] = Zero
       /\ \A i \in 1..Len(got) : got[i] = Told(i)
  /\ lpc = "refill" => conn.out = <<>> /\ ~conn.streamDone

IInv == TypeOK /\ RefsCounted /\ Shape /\ Producing /\ InOrder /\ OnItsWay /\ CutShortShows

-----------------------------------------------------------------------------
(* The type invariant, by the variables it is about. *)

Chan == [buf : Seq(1..Total), eof : BOOLEAN, fault : BOOLEAN,
         producerFault : BOOLEAN, hungry : BOOLEAN, refs : 0..2]
Conn == [state : {"handling", "writing", "gone"}, ochan : BOOLEAN, waiting : BOOLEAN,
         armed : BOOLEAN, out : Seq(-1..Total), streamDone : BOOLEAN]
WorkerPlace == {"handler", "notify", "register", "late", "pull", "feed", "asleep", "wake",
                "finish", "endwake", "unregister", "release", "gone"}

ChanTypes == chan \in Chan /\ Len(chan.buf) <= Cap
ConnTypes == conn \in Conn /\ got \in Seq(-1..Total)
ProducerTypes == made \in 0..Total /\ piece \in Seq(1..Total) /\ ended \in {"no", "done", "failed"}
PlaceTypes ==
  /\ done \in BOOLEAN /\ registered \in BOOLEAN /\ closing \in BOOLEAN
  /\ wakeFd \in BOOLEAN /\ woken \in BOOLEAN
  /\ wpc \in WorkerPlace
  /\ lpc \in {"wait", "events", "resume", "write", "refill", "join", "dead"}

LEMMA TypeParts == TypeOK <=> ChanTypes /\ ConnTypes /\ ProducerTypes /\ PlaceTypes
BY DEF TypeOK, ChanTypes, ConnTypes, ProducerTypes, PlaceTypes, Chan, Conn, WorkerPlace

LEMMA PartsType ==
  ASSUME ChanTypes', ConnTypes', ProducerTypes', PlaceTypes'
  PROVE  TypeOK'
BY DEF TypeOK, ChanTypes, ConnTypes, ProducerTypes, PlaceTypes, Chan, Conn, WorkerPlace

LEMMA InitIInv == Init => IInv
<1>. SUFFICES ASSUME Init PROVE IInv
  OBVIOUS
<1>. USE SizesAssumption DEF Init
<1>1. /\ <<>> \in Seq(1..Total) /\ <<>> \in Seq(-1..Total) /\ Len(<<>>) = 0
  BY EmptySeq
<1>2. ChanTypes /\ ConnTypes
  BY <1>1 DEF ChanTypes, ConnTypes, Chan, Conn
<1>3. ProducerTypes
  BY <1>1 DEF ProducerTypes
<1>7. PlaceTypes
  BY DEF PlaceTypes, WorkerPlace
<1>4. RefsCounted /\ Shape
  BY DEF RefsCounted, Shape, Registered
<1>5. Producing /\ InOrder
  BY <1>1 DEF Producing, InOrder, Base, TakenOut, Before
<1>6. OnItsWay
  <2>1. /\ conn.state = "handling" /\ conn.streamDone = FALSE /\ lpc = "wait" /\ got = <<>>
    OBVIOUS
  <2>2. Len(chan.buf) = 0 /\ Len(piece) = 0 /\ made = 0
    BY <1>1
  <2>. HIDE DEF Init
  <2>3. TakenOut = 0
    BY <2>2 DEF TakenOut, Base
  <2>. QED BY <2>1, <2>3 DEF OnItsWay
<1>8. CutShortShows
  <2>1. DOMAIN got = 1..0 /\ Len(got) = 0
    BY <1>1, LenProperties
  <2>. QED BY <2>1 DEF CutShortShows
<1>. QED BY <1>2, <1>3, <1>4, <1>5, <1>6, <1>7, <1>8, TypeParts DEF IInv

-----------------------------------------------------------------------------
(* What the steps do to the channel and the connection.                    *)

\* Most steps change neither what there is of the response nor who refers to the
\* channel.
Quiet == UNCHANGED <<chan, conn, producer, got>>

\* A reference is given up with an abort, or alone.
LEMMA ChanGiven ==
  ASSUME ChanTypes, NEW r \in 0..chan.refs,
         chan' = Aborted(r) \/ chan' = [chan EXCEPT !.refs = @ - r]
  PROVE  /\ ChanTypes'
         /\ chan'.buf = chan.buf /\ chan'.eof = chan.eof
         /\ chan'.refs = chan.refs - r
<1>1. /\ chan'.buf = chan.buf /\ chan'.eof = chan.eof
      /\ chan'.refs = chan.refs - r
  BY DEF ChanTypes, Chan, Aborted
<1>2. chan'.refs \in 0..2
  BY <1>1 DEF ChanTypes, Chan
<1>3. chan' \in Chan
  BY <1>2 DEF ChanTypes, Chan, Aborted
<1>. QED BY <1>1, <1>3 DEF ChanTypes

LEMMA SignalledPlace ==
  ASSUME wpc \in WorkerPlace
  PROVE  /\ Signalled \in WorkerPlace
         /\ wpc # "asleep" => Signalled = wpc
         /\ wpc = "asleep" => Signalled = "feed"
BY DEF Signalled, WorkerPlace

LEMMA GoneIs ==
  ASSUME ConnTypes
  PROVE  /\ Gone \in Conn
         /\ Gone.state = "gone" /\ ~Gone.ochan /\ ~Gone.waiting /\ ~Gone.armed
BY DEF Gone, ConnTypes, Conn

\* The connection is closed, with or without a channel.
LEMMA Closing ==
  ASSUME ChanTypes, ConnTypes, wpc \in WorkerPlace, RefsCounted, ConnClose
  PROVE  /\ ChanTypes' /\ conn' \in Conn
         /\ chan'.buf = chan.buf /\ chan'.eof = chan.eof
         /\ chan'.refs = IF conn.ochan THEN chan.refs - 1 ELSE chan.refs
         /\ conn' = Gone
         /\ wpc' \in WorkerPlace
         /\ wpc # "asleep" => wpc' = wpc
         /\ wpc = "asleep" => wpc' \in {"asleep", "feed"}
<1>1. conn' = Gone /\ conn' \in Conn
  BY GoneIs DEF ConnClose
<1>2. CASE conn.ochan
  <2>1. chan.refs \in 1..2
    BY <1>2 DEF RefsCounted, ChanTypes, Chan
  <2>2. 1 \in 0..chan.refs /\ chan' = Aborted(1) /\ wpc' = Signalled
    BY <1>2, <2>1 DEF ConnClose
  <2>3. /\ ChanTypes' /\ chan'.buf = chan.buf /\ chan'.eof = chan.eof
        /\ chan'.refs = chan.refs - 1
    BY <2>2, ChanGiven
  <2>. QED BY <1>1, <1>2, <2>2, <2>3, SignalledPlace
<1>3. CASE ~conn.ochan
  <2>1. UNCHANGED <<chan, wpc>>
    BY <1>3 DEF ConnClose
  <2>. QED BY <1>1, <1>3, <2>1 DEF ChanTypes
<1>. QED BY <1>2, <1>3

\* What is left of a sequence, and what is taken from it.
LEMMA Parts ==
  ASSUME NEW S, NEW s \in Seq(S), NEW n \in 0..Len(s)
  PROVE  /\ SubSeq(s, 1, n) \in Seq(S)
         /\ Len(SubSeq(s, 1, n)) = n
         /\ \A i \in 1..n : SubSeq(s, 1, n)[i] = s[i]
         /\ SubSeq(s, n + 1, Len(s)) \in Seq(S)
         /\ Len(SubSeq(s, n + 1, Len(s))) = Len(s) - n
         /\ \A i \in 1..(Len(s) - n) : SubSeq(s, n + 1, Len(s))[i] = s[n + i]
<1>1. Len(s) \in Nat
  BY LenProperties
<1>2. \A i \in 1..Len(s) : s[i] \in S
  BY ElementOfSeq
<1>3. \A i \in 1..n : s[i] \in S
  BY <1>1, <1>2
<1>4. \A i \in n + 1..Len(s) : s[i] \in S
  BY <1>1, <1>2
<1>5. /\ SubSeq(s, 1, n) \in Seq(S)
      /\ Len(SubSeq(s, 1, n)) = IF 1 <= n THEN n - 1 + 1 ELSE 0
      /\ \A i \in 1..n - 1 + 1 : SubSeq(s, 1, n)[i] = s[1 + i - 1]
  BY <1>1, <1>3, SubSeqProperties
<1>6. /\ SubSeq(s, n + 1, Len(s)) \in Seq(S)
      /\ Len(SubSeq(s, n + 1, Len(s))) =
           IF n + 1 <= Len(s) THEN Len(s) - (n + 1) + 1 ELSE 0
      /\ \A i \in 1..Len(s) - (n + 1) + 1 : SubSeq(s, n + 1, Len(s))[i] = s[n + 1 + i - 1]
  BY <1>1, <1>4, SubSeqProperties
<1>7. \A i \in 1..n : SubSeq(s, 1, n)[i] = s[i]
  BY <1>1, <1>5
<1>8. \A i \in 1..(Len(s) - n) : SubSeq(s, n + 1, Len(s))[i] = s[n + i]
  <2>. SUFFICES ASSUME NEW i \in 1..(Len(s) - n)
                PROVE  SubSeq(s, n + 1, Len(s))[i] = s[n + i]
    OBVIOUS
  <2>1. i \in 1..Len(s) - (n + 1) + 1 /\ n + 1 + i - 1 = n + i
    BY <1>1
  <2>. QED BY <1>6, <2>1
<1>9. Len(SubSeq(s, 1, n)) = n /\ Len(SubSeq(s, n + 1, Len(s))) = Len(s) - n
  BY <1>1, <1>5, <1>6
<1>. QED BY <1>5, <1>6, <1>7, <1>8, <1>9

LEMMA Run ==
  ASSUME NEW m \in Nat, NEW n \in Nat, m + n <= Total,
         NEW s, s = [i \in 1..n |-> m + i], Total \in Nat
  PROVE  /\ s \in Seq(1..Total)
         /\ Len(s) = n
         /\ \A i \in 1..n : s[i] = m + i
<1>1. \A i \in 1..n : m + i \in 1..Total
  OBVIOUS
<1>2. s \in [1..n -> 1..Total]
  BY <1>1
<1>3. s \in Seq(1..Total)
  BY <1>2, SeqDef
<1>4. DOMAIN s = 1..n /\ DOMAIN s = 1..Len(s) /\ Len(s) \in Nat
  BY <1>3, LenProperties
<1>5. Len(s) = n
  BY <1>4
<1>. QED BY <1>3, <1>5

\* One turn of feedAll that finds room: k bytes go from the piece to the channel.
LEMMA Feeding ==
  ASSUME ChanTypes, ProducerTypes, Feeds, NEW k, k = Fitting
  PROVE  /\ k \in 0..Len(piece)
         /\ ChanTypes'
         /\ chan'.refs = chan.refs /\ chan'.eof = chan.eof
         /\ Len(chan'.buf) = Len(chan.buf) + k
         /\ \A i \in 1..Len(chan.buf) + k :
              chan'.buf[i] = IF i <= Len(chan.buf) THEN chan.buf[i] ELSE piece[i - Len(chan.buf)]
         /\ piece' \in Seq(1..Total)
         /\ Len(piece') = Len(piece) - k
         /\ \A i \in 1..(Len(piece) - k) : piece'[i] = piece[k + i]
<1>1. Len(piece) \in Nat /\ Len(chan.buf) \in Nat /\ Len(chan.buf) <= Cap
      /\ chan.buf \in Seq(1..Total) /\ piece \in Seq(1..Total)
  BY LenProperties DEF ChanTypes, Chan, ProducerTypes
<1>2. k \in 0..Len(piece) /\ Len(chan.buf) + k <= Cap
  <2>1. Space > 0 /\ Space = Cap - Len(chan.buf)
    BY DEF Feeds, Space
  <2>2. k = IF Len(piece) < Space THEN Len(piece) ELSE Space
    BY DEF Fitting
  <2>3. Cap \in Nat /\ Space \in Nat
    BY <1>1, <2>1, SizesAssumption
  <2>4. CASE Len(piece) < Space
    BY <1>1, <2>1, <2>2, <2>3, <2>4
  <2>5. CASE ~(Len(piece) < Space)
    BY <1>1, <2>1, <2>2, <2>3, <2>5
  <2>. QED BY <2>4, <2>5
<1>3. piece' = SubSeq(piece, k + 1, Len(piece))
  BY DEF Feeds
<1>4. /\ piece' \in Seq(1..Total)
      /\ Len(piece') = Len(piece) - k
      /\ \A i \in 1..(Len(piece) - k) : piece'[i] = piece[k + i]
  BY <1>1, <1>2, <1>3, Parts
<1>5. chan' = [chan EXCEPT !.buf = @ \o SubSeq(piece, 1, k), !.hungry = FALSE]
  BY DEF Feeds, Filled
<1>6. /\ SubSeq(piece, 1, k) \in Seq(1..Total)
      /\ Len(SubSeq(piece, 1, k)) = k
      /\ \A i \in 1..k : SubSeq(piece, 1, k)[i] = piece[i]
  BY <1>1, <1>2, Parts
<1>7. /\ chan'.buf = chan.buf \o SubSeq(piece, 1, k)
      /\ chan'.refs = chan.refs /\ chan'.eof = chan.eof
  BY <1>5 DEF ChanTypes, Chan
<1>8. /\ chan'.buf \in Seq(1..Total)
      /\ Len(chan'.buf) = Len(chan.buf) + k
      /\ \A i \in 1..Len(chan.buf) + k :
           chan'.buf[i] = IF i <= Len(chan.buf) THEN chan.buf[i]
                          ELSE SubSeq(piece, 1, k)[i - Len(chan.buf)]
  BY <1>1, <1>6, <1>7, ConcatProperties
<1>9. \A i \in 1..Len(chan.buf) + k :
        chan'.buf[i] = IF i <= Len(chan.buf) THEN chan.buf[i] ELSE piece[i - Len(chan.buf)]
  BY <1>1, <1>2, <1>6, <1>8
<1>10. chan' \in Chan
  BY <1>5, <1>7, <1>8 DEF ChanTypes, Chan
<1>. QED BY <1>2, <1>4, <1>7, <1>8, <1>9, <1>10 DEF ChanTypes

\* take and the chunk made of it: n bytes go from the channel to the connection.
LEMMA Refilling ==
  ASSUME ChanTypes, ConnTypes, RefillsData, NEW n, n = Taken
  PROVE  /\ n \in 1..Len(chan.buf)
         /\ ChanTypes' /\ conn' \in Conn
         /\ chan'.refs = chan.refs /\ chan'.eof = chan.eof
         /\ Len(chan'.buf) = Len(chan.buf) - n
         /\ \A i \in 1..(Len(chan.buf) - n) : chan'.buf[i] = chan.buf[n + i]
         /\ Len(conn'.out) = n
         /\ \A i \in 1..n : conn'.out[i] = chan.buf[i]
         /\ conn'.state = conn.state /\ conn'.ochan = conn.ochan
         /\ conn'.waiting = conn.waiting /\ conn'.armed = conn.armed
         /\ conn'.streamDone = conn.streamDone
<1>1. Len(chan.buf) \in Nat /\ chan.buf \in Seq(1..Total)
  BY LenProperties DEF ChanTypes, Chan
<1>2. n \in 1..Len(chan.buf)
  BY <1>1, SizesAssumption DEF RefillsData, Taken
<1>3. /\ chan' = [chan EXCEPT !.buf = SubSeq(@, n + 1, Len(@))]
      /\ conn' = [conn EXCEPT !.out = SubSeq(chan.buf, 1, n)]
  BY DEF RefillsData
<1>4. /\ SubSeq(chan.buf, 1, n) \in Seq(1..Total)
      /\ Len(SubSeq(chan.buf, 1, n)) = n
      /\ \A i \in 1..n : SubSeq(chan.buf, 1, n)[i] = chan.buf[i]
      /\ SubSeq(chan.buf, n + 1, Len(chan.buf)) \in Seq(1..Total)
      /\ Len(SubSeq(chan.buf, n + 1, Len(chan.buf))) = Len(chan.buf) - n
      /\ \A i \in 1..(Len(chan.buf) - n) :
           SubSeq(chan.buf, n + 1, Len(chan.buf))[i] = chan.buf[n + i]
  <2>1. n \in 0..Len(chan.buf)
    BY <1>1, <1>2
  <2>. QED BY <1>1, <2>1, Parts
<1>5. /\ chan'.buf = SubSeq(chan.buf, n + 1, Len(chan.buf))
      /\ chan'.refs = chan.refs /\ chan'.eof = chan.eof
  BY <1>3 DEF ChanTypes, Chan
<1>6. /\ conn'.out = SubSeq(chan.buf, 1, n)
      /\ conn'.state = conn.state /\ conn'.ochan = conn.ochan
      /\ conn'.waiting = conn.waiting /\ conn'.armed = conn.armed
      /\ conn'.streamDone = conn.streamDone
  BY <1>3 DEF ConnTypes, Conn
<1>7. Len(chan'.buf) <= Cap
  BY <1>1, <1>2, <1>4, <1>5, SizesAssumption DEF ChanTypes
<1>8. chan' \in Chan
  BY <1>3, <1>4, <1>5 DEF ChanTypes, Chan
<1>9. SubSeq(chan.buf, 1, n) \in Seq(-1..Total)
  <2>1. 1..Total \subseteq -1..Total
    BY SizesAssumption
  <2>. QED BY <1>4, <2>1, SeqMonotonic
<1>10. conn' \in Conn
  BY <1>3, <1>9 DEF ConnTypes, Conn
<1>. QED BY <1>2, <1>4, <1>5, <1>6, <1>7, <1>8, <1>10 DEF ChanTypes

\* What was to be written has gone out.
LEMMA Sending ==
  ASSUME ConnTypes, got' = got \o conn.out
  PROVE  /\ got' \in Seq(-1..Total)
         /\ Len(got') = Len(got) + Len(conn.out)
         /\ \A i \in 1..Len(got) + Len(conn.out) :
              got'[i] = IF i <= Len(got) THEN got[i] ELSE conn.out[i - Len(got)]
<1>1. got \in Seq(-1..Total) /\ conn.out \in Seq(-1..Total)
  BY DEF ConnTypes, Conn
<1>. QED BY <1>1, ConcatProperties

-----------------------------------------------------------------------------
(* The types.                                                              *)

LEMMA TypeStep == TypeOK /\ RefsCounted /\ Shape /\ [Next]_vars => TypeOK'
<1>. SUFFICES ASSUME TypeOK, RefsCounted, Shape, [Next]_vars PROVE TypeOK'
  OBVIOUS
<1>0. ChanTypes /\ ConnTypes /\ ProducerTypes /\ PlaceTypes
  BY TypeParts
<1>. USE SizesAssumption DEF producer, shared
<1>1. CASE Quiet /\ PlaceTypes'
  <2>1. ChanTypes' /\ ConnTypes' /\ ProducerTypes'
    BY <1>0, <1>1 DEF Quiet, ChanTypes, ConnTypes, ProducerTypes
  <2>. QED BY <1>1, <2>1, PartsType
<1>2. CASE UNCHANGED vars
  <2>1. Quiet /\ PlaceTypes'
    BY <1>0, <1>2 DEF vars, Quiet, PlaceTypes
  <2>. QED BY <1>1, <2>1
<1>3. CASE Queues
  <2>1. chan' \in Chan /\ Len(chan'.buf) <= Cap
    BY <1>0, <1>3 DEF Queues, ChanTypes, Chan
  <2>2. ConnTypes' /\ ProducerTypes' /\ PlaceTypes'
    BY <1>0, <1>3 DEF Queues, Works, ConnTypes, ProducerTypes, PlaceTypes, WorkerPlace
  <2>. QED BY <2>1, <2>2, PartsType DEF ChanTypes
<1>4. CASE QueueIsFull
  <2>1. chan' = [chan EXCEPT !.fault = TRUE, !.refs = 1]
    BY <1>4 DEF QueueIsFull
  <2>4. chan'.buf = chan.buf /\ chan'.refs = 1
    BY <1>0, <2>1 DEF ChanTypes, Chan
  <2>5. chan' \in Chan
    <3>1. \A r \in 0..2 : [chan EXCEPT !.fault = TRUE, !.refs = r] \in Chan
      BY <1>0 DEF ChanTypes, Chan
    <3>2. 1 \in 0..2
      OBVIOUS
    <3>. QED BY <2>1, <3>1, <3>2
  <2>3. chan' \in Chan /\ Len(chan'.buf) <= Cap
    BY <1>0, <2>4, <2>5 DEF ChanTypes
  <2>2. ConnTypes' /\ ProducerTypes' /\ PlaceTypes'
    BY <1>0, <1>4 DEF QueueIsFull, Works, ConnTypes, ProducerTypes, PlaceTypes, WorkerPlace
  <2>. QED BY <1>0, <2>2, <2>3, PartsType DEF ChanTypes
<1>5. CASE Notifies \/ FeedFails \/ FeedSleeps \/ Awakes \/ FinishWakes \/ Unregisters
  <2>1. Quiet /\ PlaceTypes'
    BY <1>0, <1>5 DEF Notifies, FeedFails, FeedSleeps, Awakes, FinishWakes, Unregisters,
                      Works, Quiet, PlaceTypes, WorkerPlace
  <2>. QED BY <1>1, <2>1
<1>6. CASE Registers \/ FeedWakes
  <2>1. Quiet /\ PlaceTypes'
    BY <1>0, <1>6 DEF Registers, FeedWakes, Works, Quiet, PlaceTypes, WorkerPlace
  <2>. QED BY <1>1, <2>1
<1>7. CASE AbortsLate
  <2>1. 0 \in 0..chan.refs /\ chan' = Aborted(0)
    BY <1>0, <1>7 DEF AbortsLate, ChanTypes, Chan
  <2>2. ChanTypes'
    BY <1>0, <2>1, ChanGiven
  <2>3. ConnTypes' /\ ProducerTypes' /\ PlaceTypes'
    BY <1>0, <1>7 DEF AbortsLate, Works, ConnTypes, ProducerTypes, PlaceTypes, WorkerPlace
  <2>. QED BY <2>2, <2>3, PartsType
<1>8. CASE Pulls
  <2>1. PICK n \in 1..Piece : /\ made + n <= Total
                              /\ made' = made + n
                              /\ piece' = [i \in 1..n |-> made + i]
    BY <1>8 DEF Pulls
  <2>2. made \in Nat /\ n \in Nat /\ Total \in Nat
    BY <1>0 DEF ProducerTypes
  <2>3. piece' \in Seq(1..Total)
    BY <2>1, <2>2, Run
  <2>4. ProducerTypes'
    BY <1>0, <1>8, <2>1, <2>2, <2>3 DEF Pulls, ProducerTypes
  <2>5. ChanTypes' /\ ConnTypes' /\ PlaceTypes'
    BY <1>0, <1>8 DEF Pulls, Works, ChanTypes, ConnTypes, PlaceTypes, WorkerPlace
  <2>. QED BY <2>4, <2>5, PartsType
<1>9. CASE PullsLast
  <2>1. ChanTypes' /\ ConnTypes' /\ ProducerTypes' /\ PlaceTypes'
    BY <1>0, <1>9 DEF PullsLast, Works, ChanTypes, ConnTypes, ProducerTypes, PlaceTypes,
                      WorkerPlace
  <2>. QED BY <2>1, PartsType
<1>10. CASE Feeds
  <2>1. ChanTypes' /\ piece' \in Seq(1..Total)
    BY <1>0, <1>10, Feeding
  <2>2. ConnTypes' /\ ProducerTypes' /\ PlaceTypes'
    BY <1>0, <1>10, <2>1
       DEF Feeds, Works, AfterFeed, ConnTypes, ProducerTypes, PlaceTypes, WorkerPlace
  <2>. QED BY <2>1, <2>2, PartsType
<1>11. CASE Finishes
  <2>1. chan' \in Chan /\ Len(chan'.buf) <= Cap
    BY <1>0, <1>11 DEF Finishes, ChanTypes, Chan
  <2>2. ConnTypes' /\ ProducerTypes' /\ PlaceTypes'
    BY <1>0, <1>11 DEF Finishes, Works, ConnTypes, ProducerTypes, PlaceTypes, WorkerPlace
  <2>. QED BY <2>1, <2>2, PartsType DEF ChanTypes
<1>12. CASE Releases
  <2>1. 1 \in 0..chan.refs /\ chan' = [chan EXCEPT !.refs = @ - 1]
    BY <1>0, <1>12 DEF Releases, Works, RefsCounted, ChanTypes, Chan
  <2>2. ChanTypes'
    BY <1>0, <2>1, ChanGiven
  <2>3. ConnTypes' /\ ProducerTypes' /\ PlaceTypes'
    BY <1>0, <1>12 DEF Releases, Works, ConnTypes, ProducerTypes, PlaceTypes, WorkerPlace
  <2>. QED BY <2>2, <2>3, PartsType
<1>13. CASE Waits \/ OtherWakes \/ DrainsNothing \/ ResumesNothing \/ Writable \/ EventsEnd
  <2>1. Quiet /\ PlaceTypes'
    BY <1>0, <1>13 DEF Waits, OtherWakes, DrainsNothing, ResumesNothing, Writable, EventsEnd,
                       InEvents, Loop, Quiet, PlaceTypes
  <2>. QED BY <1>1, <2>1
<1>14. CASE Discards \/ AttachFails
  <2>1. 1 \in 0..chan.refs /\ chan' = Aborted(1) /\ wpc' = Signalled
    BY <1>0, <1>14 DEF Discards, AttachFails, Drains, RefsCounted, ChanTypes, Chan
  <2>2. ChanTypes'
    BY <1>0, <2>1, ChanGiven
  <2>3. wpc' \in WorkerPlace
    BY <1>0, <2>1, SignalledPlace DEF PlaceTypes
  <2>4. conn' \in Conn /\ got' = got
    BY <1>0, <1>14, GoneIs DEF Discards, AttachFails, Drains, ConnTypes
  <2>5. ProducerTypes' /\ PlaceTypes'
    BY <1>0, <1>14, <2>3 DEF Discards, AttachFails, Drains, Loop, ProducerTypes, PlaceTypes
  <2>. QED BY <1>0, <2>2, <2>4, <2>5, PartsType DEF ConnTypes
<1>15. CASE Attaches
  <2>1. <<Head1>> \in Seq(-1..Total)
    BY DEF Head1
  <2>2. conn' \in Conn
    BY <1>0, <1>15, <2>1 DEF Attaches, ConnTypes, Conn
  <2>3. ChanTypes' /\ ProducerTypes' /\ PlaceTypes' /\ got' = got
    BY <1>0, <1>15 DEF Attaches, Drains, Loop, ChanTypes, ProducerTypes, PlaceTypes
  <2>. QED BY <1>0, <2>2, <2>3, PartsType DEF ConnTypes
<1>16. CASE Resumes
  <2>1. conn' \in Conn
    BY <1>0, <1>16 DEF Resumes, ConnTypes, Conn
  <2>2. ChanTypes' /\ ProducerTypes' /\ PlaceTypes' /\ got' = got
    BY <1>0, <1>16 DEF Resumes, Loop, ChanTypes, ProducerTypes, PlaceTypes
  <2>. QED BY <1>0, <2>1, <2>2, PartsType DEF ConnTypes
<1>17. CASE WriteBlocks
  <2>1. conn' \in Conn
    BY <1>0, <1>17 DEF WriteBlocks, ConnTypes, Conn
  <2>2. ChanTypes' /\ ProducerTypes' /\ PlaceTypes' /\ got' = got
    BY <1>0, <1>17 DEF WriteBlocks, Writing, Loop, ChanTypes, ProducerTypes, PlaceTypes
  <2>. QED BY <1>0, <2>1, <2>2, PartsType DEF ConnTypes
<1>18. CASE WriteFails \/ RefillFails \/ PeerGone \/ Evicts
  <2>1. ConnClose
    BY <1>18 DEF WriteFails, RefillFails, PeerGone, Evicts
  <2>2. wpc \in WorkerPlace
    BY <1>0 DEF PlaceTypes
  <2>3. ChanTypes' /\ conn' \in Conn /\ wpc' \in WorkerPlace
    BY <1>0, <2>1, <2>2, Closing
  <2>4. ProducerTypes' /\ PlaceTypes' /\ got' = got
    BY <1>0, <1>18, <2>3 DEF WriteFails, RefillFails, PeerGone, Evicts, InEvents, Writing,
                             Refills, Loop, ProducerTypes, PlaceTypes
  <2>. QED BY <1>0, <2>3, <2>4, PartsType DEF ConnTypes
<1>19. CASE Sends
  <2>1. got' \in Seq(-1..Total)
    BY <1>0, <1>19, Sending DEF Sends
  <2>2. conn' \in Conn
    <3>1. <<>> \in Seq(-1..Total)
      BY EmptySeq
    <3>. QED BY <1>0, <1>19, <3>1 DEF Sends, ConnTypes, Conn
  <2>3. ChanTypes' /\ ProducerTypes' /\ PlaceTypes'
    BY <1>0, <1>19 DEF Sends, Writing, Loop, ChanTypes, ProducerTypes, PlaceTypes
  <2>. QED BY <2>1, <2>2, <2>3, PartsType DEF ConnTypes
<1>20. CASE SendsLast
  <2>1. got' \in Seq(-1..Total)
    BY <1>0, <1>20, Sending DEF SendsLast
  <2>2. conn' \in Conn
    <3>1. <<>> \in Seq(-1..Total)
      BY EmptySeq
    <3>2. Gone \in Conn /\ conn' = [Gone EXCEPT !.out = <<>>]
      BY <1>0, <1>20, GoneIs DEF SendsLast
    <3>. QED BY <3>1, <3>2 DEF Conn
  <2>3. 1 \in 0..chan.refs /\ chan' = [chan EXCEPT !.refs = @ - 1]
    BY <1>0, <1>20 DEF SendsLast, Writing, Loop, Shape, RefsCounted, ChanTypes, Chan
  <2>4. ChanTypes'
    BY <1>0, <2>3, ChanGiven
  <2>5. ProducerTypes' /\ PlaceTypes'
    BY <1>0, <1>20 DEF SendsLast, Writing, Loop, ProducerTypes, PlaceTypes
  <2>. QED BY <2>1, <2>2, <2>4, <2>5, PartsType DEF ConnTypes
<1>21. CASE RefillsData
  <2>1. ChanTypes' /\ conn' \in Conn
    BY <1>0, <1>21, Refilling
  <2>2. wpc' \in WorkerPlace
    BY <1>0, <1>21, SignalledPlace DEF RefillsData, PlaceTypes
  <2>3. ProducerTypes' /\ PlaceTypes' /\ got' = got
    BY <1>0, <1>21, <2>2 DEF RefillsData, Refills, Loop, ProducerTypes, PlaceTypes
  <2>. QED BY <1>0, <2>1, <2>3, PartsType DEF ConnTypes
<1>22. CASE RefillsEnd
  <2>1. <<Zero>> \in Seq(-1..Total)
    BY DEF Zero
  <2>2. conn' \in Conn
    BY <1>0, <1>22, <2>1 DEF RefillsEnd, ConnTypes, Conn
  <2>3. ChanTypes' /\ ProducerTypes' /\ PlaceTypes' /\ got' = got
    BY <1>0, <1>22 DEF RefillsEnd, Refills, Loop, ChanTypes, ProducerTypes, PlaceTypes
  <2>. QED BY <1>0, <2>2, <2>3, PartsType DEF ConnTypes
<1>23. CASE Pauses
  <2>1. conn' \in Conn
    BY <1>0, <1>23 DEF Pauses, ConnTypes, Conn
  <2>2. chan' \in Chan /\ Len(chan'.buf) <= Cap
    BY <1>0, <1>23 DEF Pauses, ChanTypes, Chan
  <2>3. ProducerTypes' /\ PlaceTypes' /\ got' = got
    BY <1>0, <1>23 DEF Pauses, Refills, Loop, ProducerTypes, PlaceTypes
  <2>. QED BY <1>0, <2>1, <2>2, <2>3, PartsType DEF ConnTypes, ChanTypes
<1>24. CASE ServerCloses
  <2>1. ChanTypes' /\ wpc' \in WorkerPlace
    <3>1. CASE registered
      <4>1. 0 \in 0..chan.refs /\ chan' = Aborted(0) /\ wpc' = Signalled
        BY <1>0, <1>24, <3>1 DEF ServerCloses, ChanTypes, Chan
      <4>. QED BY <1>0, <4>1, ChanGiven, SignalledPlace DEF PlaceTypes
    <3>2. CASE ~registered
      BY <1>0, <1>24, <3>2 DEF ServerCloses, ChanTypes, PlaceTypes
    <3>. QED BY <3>1, <3>2
  <2>2. ConnTypes' /\ ProducerTypes' /\ PlaceTypes'
    BY <1>0, <1>24, <2>1 DEF ServerCloses, Loop, ConnTypes, ProducerTypes, PlaceTypes
  <2>. QED BY <2>1, <2>2, PartsType
<1>25. CASE Joined
  <2>1. ChanTypes'
    <3>1. CASE conn.ochan
      <4>1. 1 \in 0..chan.refs /\ chan' = Aborted(1)
        BY <1>0, <1>25, <3>1 DEF Joined, RefsCounted, ChanTypes, Chan
      <4>. QED BY <1>0, <4>1, ChanGiven
    <3>2. CASE ~conn.ochan /\ done
      <4>1. 1 \in 0..chan.refs /\ chan' = [chan EXCEPT !.refs = @ - 1]
        BY <1>0, <1>25, <3>2 DEF Joined, RefsCounted, ChanTypes, Chan
      <4>. QED BY <1>0, <4>1, ChanGiven
    <3>3. CASE ~conn.ochan /\ ~done
      BY <1>0, <1>25, <3>3 DEF Joined, ChanTypes
    <3>. QED BY <3>1, <3>2, <3>3
  <2>2. conn' \in Conn /\ got' = got
    BY <1>0, <1>25, GoneIs DEF Joined
  <2>3. ProducerTypes' /\ PlaceTypes'
    BY <1>0, <1>25 DEF Joined, Loop, ProducerTypes, PlaceTypes
  <2>. QED BY <1>0, <2>1, <2>2, <2>3, PartsType DEF ConnTypes
<1>. QED
  BY <1>2, <1>3, <1>4, <1>5, <1>6, <1>7, <1>8, <1>9, <1>10, <1>11, <1>12, <1>13, <1>14,
     <1>15, <1>16, <1>17, <1>18, <1>19, <1>20, <1>21, <1>22, <1>23, <1>24, <1>25
     DEF Next, Worker, Handles, Dead

-----------------------------------------------------------------------------
(* The references.                                                         *)

LEMMA ShapeStep == TypeOK /\ RefsCounted /\ Shape /\ [Next]_vars => RefsCounted' /\ Shape'
<1>. SUFFICES ASSUME TypeOK, RefsCounted, Shape, [Next]_vars PROVE RefsCounted' /\ Shape'
  OBVIOUS
<1>0. ChanTypes /\ ConnTypes /\ ProducerTypes /\ PlaceTypes
  BY TypeParts
<1>. USE DEF producer, shared, RefsCounted, Shape, Registered
<1>2. CASE UNCHANGED vars
  BY <1>2 DEF vars
<1>3. CASE Queues \/ QueueIsFull
  <2>1. (chan'.refs = 2 /\ done') \/ (chan'.refs = 1 /\ ~done')
    <3>1. CASE Queues
      BY <1>0, <3>1 DEF Queues, ChanTypes, Chan
    <3>2. CASE QueueIsFull
      BY <1>0, <3>2 DEF QueueIsFull, Works, ChanTypes, Chan
    <3>. QED BY <1>3, <3>1, <3>2
  <2>2. /\ wpc = "handler" /\ wpc' = "notify" /\ ~registered' /\ ~conn.ochan
        /\ UNCHANGED <<lpc, conn>>
    BY <1>0, <1>3 DEF Queues, QueueIsFull, Works
  <2>. QED BY <1>0, <2>1, <2>2
<1>5. CASE Notifies \/ FeedFails \/ FeedSleeps \/ Awakes \/ FinishWakes \/ Unregisters
  BY <1>0, <1>5 DEF Notifies, FeedFails, FeedSleeps, Awakes, FinishWakes, Unregisters, Works
<1>6. CASE Registers \/ FeedWakes
  BY <1>0, <1>6 DEF Registers, FeedWakes, Works
<1>7. CASE AbortsLate
  <2>1. 0 \in 0..chan.refs /\ chan' = Aborted(0)
    BY <1>0, <1>7 DEF AbortsLate, ChanTypes, Chan
  <2>2. chan'.refs = chan.refs
    BY <1>0, <2>1 DEF Aborted, ChanTypes, Chan
  <2>. QED BY <1>7, <2>2 DEF AbortsLate, Works
<1>8. CASE Pulls \/ PullsLast
  BY <1>8 DEF Pulls, PullsLast, Works
<1>10. CASE Feeds
  <2>1. chan'.refs = chan.refs
    BY <1>0, <1>10, Feeding
  <2>. QED BY <1>10, <2>1 DEF Feeds, AfterFeed, Works
<1>11. CASE Finishes
  <2>1. chan'.refs = chan.refs
    BY <1>0, <1>11 DEF Finishes, ChanTypes, Chan
  <2>. QED BY <1>11, <2>1 DEF Finishes, Works
<1>12. CASE Releases
  <2>1. 1 \in 0..chan.refs /\ chan' = [chan EXCEPT !.refs = @ - 1]
    BY <1>0, <1>12 DEF Releases, Works, ChanTypes, Chan
  <2>2. chan'.refs = chan.refs - 1
    BY <1>0, <2>1, ChanGiven
  <2>. QED BY <1>0, <1>12, <2>2 DEF Releases, Works
<1>13. CASE Waits \/ OtherWakes \/ DrainsNothing \/ ResumesNothing \/ Writable \/ EventsEnd
  BY <1>0, <1>13 DEF Waits, OtherWakes, DrainsNothing, ResumesNothing, Writable, EventsEnd,
                     InEvents, Loop
<1>14. CASE Discards \/ AttachFails
  <2>1. 1 \in 0..chan.refs /\ chan' = Aborted(1) /\ wpc' = Signalled
    BY <1>0, <1>14 DEF Discards, AttachFails, Drains, ChanTypes, Chan
  <2>2. chan'.refs = chan.refs - 1
    BY <1>0, <2>1, ChanGiven
  <2>3. /\ done /\ ~done' /\ lpc' = "resume" /\ ~conn.ochan
        /\ conn' = conn \/ conn' = Gone
        /\ registered' = registered
    BY <1>0, <1>14 DEF Discards, AttachFails, Drains, Loop
  <2>4. /\ wpc # "asleep" => wpc' = wpc
        /\ wpc = "asleep" => wpc' = "feed"
    BY <2>1 DEF Signalled
  <2>. QED BY <1>0, <2>2, <2>3, <2>4, GoneIs DEF ChanTypes, Chan
<1>15. CASE Attaches
  <2>1. conn'.ochan /\ conn'.state = "writing"
    BY <1>0, <1>15 DEF Attaches, ConnTypes, Conn
  <2>. QED BY <1>0, <1>15, <2>1 DEF Attaches, Drains, Loop
<1>16. CASE Resumes
  <2>1. /\ conn.waiting /\ conn'.ochan = conn.ochan /\ conn'.state = conn.state
        /\ ~conn'.waiting /\ conn'.armed = conn.armed
    BY <1>0, <1>16 DEF Resumes, ConnTypes, Conn
  <2>. QED BY <1>16, <2>1 DEF Resumes, Loop
<1>17. CASE WriteBlocks
  <2>1. /\ conn'.ochan = conn.ochan /\ conn'.state = conn.state
        /\ conn'.waiting = conn.waiting
    BY <1>0, <1>17 DEF WriteBlocks, ConnTypes, Conn
  <2>. QED BY <1>17, <2>1 DEF WriteBlocks, Writing, Loop
<1>18. CASE WriteFails \/ RefillFails \/ PeerGone \/ Evicts
  <2>1. ConnClose
    BY <1>18 DEF WriteFails, RefillFails, PeerGone, Evicts
  <2>2. wpc \in WorkerPlace
    BY <1>0 DEF PlaceTypes
  <2>3. /\ chan'.refs = IF conn.ochan THEN chan.refs - 1 ELSE chan.refs
        /\ conn' = Gone
        /\ wpc # "asleep" => wpc' = wpc
        /\ wpc = "asleep" => wpc' \in {"asleep", "feed"}
    BY <1>0, <2>1, <2>2, Closing
  <2>4. lpc' \in {"events", "wait"} /\ done' = done /\ registered' = registered
    BY <1>18 DEF WriteFails, RefillFails, PeerGone, Evicts, InEvents, Writing, Refills, Loop
  <2>. QED BY <1>0, <2>3, <2>4, GoneIs DEF ChanTypes, Chan
<1>19. CASE Sends
  <2>1. /\ conn'.ochan = conn.ochan /\ conn'.state = conn.state
        /\ conn'.waiting = conn.waiting /\ conn'.armed = conn.armed
    BY <1>0, <1>19 DEF Sends, ConnTypes, Conn
  <2>. QED BY <1>19, <2>1 DEF Sends, Writing, Loop
<1>20. CASE SendsLast
  <2>1. 1 \in 0..chan.refs /\ chan' = [chan EXCEPT !.refs = @ - 1]
    BY <1>0, <1>20 DEF SendsLast, Writing, Loop, ChanTypes, Chan
  <2>2. chan'.refs = chan.refs - 1
    BY <1>0, <2>1, ChanGiven
  <2>3. /\ conn'.state = "gone" /\ ~conn'.ochan /\ ~conn'.waiting /\ ~conn'.armed
    <3>1. Gone \in Conn /\ conn' = [Gone EXCEPT !.out = <<>>]
      BY <1>0, <1>20, GoneIs DEF SendsLast
    <3>2. /\ conn'.state = Gone.state /\ conn'.ochan = Gone.ochan
          /\ conn'.waiting = Gone.waiting /\ conn'.armed = Gone.armed
      BY <3>1 DEF Conn
    <3>. QED BY <1>0, <3>2, GoneIs
  <2>4. conn.ochan /\ lpc' = "events" /\ UNCHANGED <<done, wpc, registered>>
    BY <1>20 DEF SendsLast, Writing, Loop
  <2>. QED BY <1>0, <2>2, <2>3, <2>4 DEF ChanTypes, Chan
<1>21. CASE RefillsData
  <2>1. /\ chan'.refs = chan.refs /\ conn'.state = conn.state /\ conn'.ochan = conn.ochan
        /\ conn'.waiting = conn.waiting /\ conn'.armed = conn.armed
    BY <1>0, <1>21, Refilling
  <2>2. /\ wpc # "asleep" => wpc' = wpc
        /\ wpc = "asleep" => wpc' = "feed"
    BY <1>21 DEF RefillsData, Signalled
  <2>. QED BY <1>0, <1>21, <2>1, <2>2 DEF RefillsData, Refills, Loop
<1>22. CASE RefillsEnd
  <2>1. /\ conn'.ochan = conn.ochan /\ conn'.state = conn.state
        /\ conn'.waiting = conn.waiting /\ conn'.armed = conn.armed
    BY <1>0, <1>22 DEF RefillsEnd, ConnTypes, Conn
  <2>. QED BY <1>22, <2>1 DEF RefillsEnd, Refills, Loop
<1>23. CASE Pauses
  <2>1. /\ conn'.ochan = conn.ochan /\ conn'.state = conn.state /\ ~conn'.armed
        /\ chan'.refs = chan.refs
    BY <1>0, <1>23 DEF Pauses, ConnTypes, Conn, ChanTypes, Chan
  <2>. QED BY <1>23, <2>1 DEF Pauses, Refills, Loop
<1>24. CASE ServerCloses
  <2>1. /\ chan'.refs = chan.refs
        /\ wpc # "asleep" => wpc' = wpc
        /\ wpc = "asleep" => wpc' \in {"asleep", "feed"}
    <3>1. CASE registered
      <4>1. 0 \in 0..chan.refs /\ chan' = Aborted(0) /\ wpc' = Signalled
        BY <1>0, <1>24, <3>1 DEF ServerCloses, ChanTypes, Chan
      <4>2. chan'.refs = chan.refs
        BY <1>0, <4>1 DEF Aborted, ChanTypes, Chan
      <4>. QED BY <4>1, <4>2 DEF Signalled
    <3>2. CASE ~registered
      BY <1>24, <3>2 DEF ServerCloses
    <3>. QED BY <3>1, <3>2
  <2>. QED BY <1>0, <1>24, <2>1 DEF ServerCloses, Loop
<1>25. CASE Joined
  <2>1. chan'.refs = 0
    <3>1. CASE conn.ochan
      <4>1. 1 \in 0..chan.refs /\ chan.refs = 1 /\ chan' = Aborted(1)
        BY <1>0, <1>25, <3>1 DEF Joined, ChanTypes, Chan
      <4>2. chan'.refs = chan.refs - 1
        BY <1>0, <4>1, ChanGiven
      <4>. QED BY <4>1, <4>2
    <3>2. CASE ~conn.ochan /\ done
      <4>1. 1 \in 0..chan.refs /\ chan.refs = 1 /\ chan' = [chan EXCEPT !.refs = @ - 1]
        BY <1>0, <1>25, <3>2 DEF Joined, ChanTypes, Chan
      <4>2. chan'.refs = chan.refs - 1
        BY <1>0, <4>1, ChanGiven
      <4>. QED BY <4>1, <4>2
    <3>3. CASE ~conn.ochan /\ ~done
      BY <1>0, <1>25, <3>3 DEF Joined
    <3>. QED BY <3>1, <3>2, <3>3
  <2>2. /\ wpc' = "gone" /\ wpc = "gone" /\ conn' = Gone /\ ~done' /\ lpc' = "dead"
        /\ registered' = registered
    BY <1>25 DEF Joined, Loop
  <2>. QED BY <1>0, <2>1, <2>2, GoneIs
<1>. QED
  BY <1>2, <1>3, <1>5, <1>6, <1>7, <1>8, <1>10, <1>11, <1>12, <1>13, <1>14,
     <1>15, <1>16, <1>17, <1>18, <1>19, <1>20, <1>21, <1>22, <1>23, <1>24, <1>25
     DEF Next, Worker, Handles, Dead

-----------------------------------------------------------------------------
(* The bytes.                                                              *)

Numbers == Producing /\ InOrder /\ OnItsWay /\ CutShortShows

\* A step that leaves the numbers alone leaves the connection, or ends it.
SameOrGone ==
  \/ conn'.state = "gone" /\ lpc' # "refill"
  \/ /\ conn'.state = conn.state /\ conn'.out = conn.out
     /\ conn'.streamDone = conn.streamDone
     /\ lpc' = "refill" => lpc = "refill"

LEMMA NumbersKept ==
  ASSUME TypeOK, Numbers,
         UNCHANGED <<made, piece, got>>, chan'.buf = chan.buf,
         SameOrGone,
         ended' = ended \/ (ended = "no" /\ wpc = "pull")
  PROVE  InOrder' /\ OnItsWay' /\ CutShortShows'
<1>1. Base' = Base /\ TakenOut' = TakenOut
  BY DEF Base, TakenOut
<1>2. InOrder'
  BY <1>1 DEF Numbers, InOrder
<1>3. CutShortShows'
  BY DEF Numbers, CutShortShows, Whole
<1>4. OnItsWay'
  <2>1. CASE conn'.state = "gone" /\ lpc' # "refill"
    BY <2>1 DEF OnItsWay
  <2>2. CASE /\ conn'.state = conn.state /\ conn'.out = conn.out
             /\ conn'.streamDone = conn.streamDone
             /\ lpc' = "refill" => lpc = "refill"
    <3>1. ended = "done" => ended' = "done"
      OBVIOUS
    <3>. QED BY <1>1, <2>2, <3>1 DEF Numbers, OnItsWay, Told
  <2>. QED BY <2>1, <2>2 DEF SameOrGone
<1>. QED BY <1>2, <1>3, <1>4

\* The loop leaves the producer alone; it may wake the worker.
LEMMA LoopLeaves ==
  ASSUME TypeOK, RefsCounted, Shape, [Next]_vars, ~Worker
  PROVE  /\ UNCHANGED producer
         /\ chan'.eof = chan.eof
         /\ wpc' = wpc \/ (wpc = "asleep" /\ wpc' = "feed")
<1>0. ChanTypes /\ ConnTypes /\ wpc \in WorkerPlace
  BY TypeParts DEF PlaceTypes
<1>1. CASE \/ Awakes \/ OtherWakes \/ Waits \/ DrainsNothing \/ Attaches \/ Resumes
           \/ ResumesNothing \/ WriteBlocks \/ Sends \/ RefillsEnd \/ Writable \/ EventsEnd
           \/ UNCHANGED vars
  BY <1>1 DEF Awakes, Works, OtherWakes, Waits, DrainsNothing, Attaches, Drains, Resumes,
              ResumesNothing, WriteBlocks, Writing, Sends, RefillsEnd, Refills, Writable,
              EventsEnd, InEvents, Loop, vars
<1>2. CASE WriteFails \/ RefillFails \/ PeerGone \/ Evicts
  <2>1. ConnClose /\ UNCHANGED producer
    BY <1>2 DEF WriteFails, RefillFails, PeerGone, Evicts, Writing, Refills, InEvents, Loop
  <2>. QED BY <1>0, <2>1, Closing
<1>3. CASE Discards \/ AttachFails \/ RefillsData \/ ServerCloses
  <2>1. wpc' = Signalled \/ wpc' = wpc
    BY <1>3 DEF Discards, AttachFails, RefillsData, ServerCloses
  <2>2. chan'.eof = chan.eof
    BY <1>0, <1>3 DEF Discards, AttachFails, RefillsData, ServerCloses, Aborted, ChanTypes, Chan
  <2>3. UNCHANGED producer
    BY <1>3 DEF Discards, AttachFails, Drains, RefillsData, Refills, ServerCloses, Loop
  <2>. QED BY <2>1, <2>2, <2>3 DEF Signalled
<1>4. CASE SendsLast \/ Pauses \/ Joined
  <2>1. chan'.eof = chan.eof
    BY <1>0, <1>4 DEF SendsLast, Pauses, Joined, Aborted, ChanTypes, Chan
  <2>. QED BY <1>4, <2>1 DEF SendsLast, Writing, Pauses, Refills, Joined, Loop
<1>. QED BY <1>1, <1>2, <1>3, <1>4 DEF Next, Handles, Dead

LEMMA ProducingStep ==
  ASSUME TypeOK, RefsCounted, Shape, Producing, [Next]_vars
  PROVE  Producing'
<1>0. ChanTypes /\ ConnTypes /\ ProducerTypes /\ wpc \in WorkerPlace
  BY TypeParts DEF PlaceTypes
<1>. USE DEF Producing, Before
<1>1. CASE ~Worker
  BY <1>1, LoopLeaves DEF producer
<1>2. CASE Queues \/ QueueIsFull \/ AbortsLate \/ Releases
  <2>1. chan'.eof = chan.eof
    BY <1>0, <1>2 DEF Queues, QueueIsFull, AbortsLate, Releases, Aborted, ChanTypes, Chan
  <2>. QED BY <1>2, <2>1 DEF Queues, QueueIsFull, AbortsLate, Releases, Works, producer
<1>3. CASE Notifies \/ Registers \/ FeedFails \/ FeedSleeps \/ FinishWakes \/ Unregisters
  BY <1>3 DEF Notifies, Registers, FeedFails, FeedSleeps, FinishWakes, Unregisters, Works,
              producer
<1>4. CASE FeedWakes
  BY <1>4 DEF FeedWakes, Works, producer
<1>5. CASE Pulls \/ PullsLast
  BY <1>5 DEF Pulls, PullsLast, Works
<1>6. CASE Feeds
  <2>1. chan'.eof = chan.eof
    BY <1>0, <1>6, Feeding
  <2>. QED BY <1>6, <2>1 DEF Feeds, AfterFeed, Works
<1>7. CASE Finishes
  <2>1. chan'.eof = (ended = "done")
    BY <1>0, <1>7 DEF Finishes, ChanTypes, Chan
  <2>. QED BY <1>7, <2>1 DEF Finishes, Works, producer
<1>. QED BY <1>1, <1>2, <1>3, <1>4, <1>5, <1>6, <1>7 DEF Worker


\* Short of the end; and what the loop took is no more than what was made.
LEMMA Short ==
  ASSUME NEW a \in Int, NEW b \in Int, a <= b + 1
  PROVE  a <= b + 2 /\ a # b + 2
OBVIOUS

LEMMA NoMore ==
  ASSUME NEW a, NEW t, NEW m \in Nat, NEW p \in Nat, NEW c \in Nat, a = t + 1, t = m - p - c
  PROVE  a <= m + 1
OBVIOUS

\* The steps that move bytes, or end the response, one by one.
LEMMA PullsKeep ==
  ASSUME TypeOK, Numbers, Pulls
  PROVE  InOrder' /\ OnItsWay' /\ CutShortShows'
<1>0. ChanTypes /\ ConnTypes /\ ProducerTypes
  BY TypeParts
<1>1. PICK n \in 1..Piece : /\ made + n <= Total
                            /\ made' = made + n
                            /\ piece' = [i \in 1..n |-> made + i]
  BY DEF Pulls
<1>2. /\ piece = <<>> /\ ended = "no"
      /\ UNCHANGED <<chan, conn, got, lpc, ended>>
  BY DEF Pulls, Works, Numbers, Producing, Before
<1>3. /\ made \in Nat /\ n \in Nat /\ Total \in Nat /\ Len(piece) = 0
      /\ Len(chan.buf) \in Nat /\ Len(got) \in Nat /\ DOMAIN got = 1..Len(got)
  BY <1>0, <1>2, SizesAssumption, LenProperties, EmptySeq
     DEF ProducerTypes, ChanTypes, Chan, ConnTypes
<1>4. Len(piece') = n /\ \A i \in 1..n : piece'[i] = made + i
  BY <1>1, <1>3, Run
<1>5. Base = made /\ Base' = made /\ TakenOut' = TakenOut
  BY <1>1, <1>2, <1>3, <1>4 DEF Base, TakenOut
<1>6. InOrder'
  BY <1>2, <1>4, <1>5 DEF Numbers, InOrder
<1>7. OnItsWay'
  BY <1>2, <1>5 DEF Numbers, OnItsWay, Told
<1>8. CutShortShows'
  <2>1. Len(got) <= made + 2 /\ Len(got) # made + 2
    BY <1>2 DEF Numbers, CutShortShows
  <2>0. made \in Nat /\ Len(got) \in Nat
    BY <1>3
  <2>2. Len(got) <= made + 1
    BY <2>0, <2>1
  <2>3. \A i \in 1..Len(got) : got[i] = Whole(i)
    BY <1>3 DEF Numbers, CutShortShows
  <2>4. \A i \in 1..Len(got) : Whole(i)' = Whole(i)
    BY <1>1, <1>3, <2>2 DEF Whole
  <2>5. \A i \in DOMAIN got' : got'[i] = Whole(i)'
    BY <1>2, <1>3, <2>3, <2>4
  <2>6. Len(got') <= made' + 1
    BY <1>1, <1>2, <1>3, <2>2
  <2>7. Len(got') <= made' + 2 /\ Len(got') # made' + 2
    <3>1. made' \in Int /\ Len(got') \in Int
      BY <1>1, <1>2, <1>3
    <3>. QED BY <2>6, <3>1, Short
  <2>. QED BY <2>5, <2>7 DEF CutShortShows
<1>. QED BY <1>6, <1>7, <1>8

LEMMA FeedsKeep ==
  ASSUME TypeOK, Numbers, Feeds
  PROVE  InOrder' /\ OnItsWay' /\ CutShortShows'
<1>0. ChanTypes /\ ConnTypes /\ ProducerTypes
  BY TypeParts
<1>1. PICK k : k = Fitting
  OBVIOUS
<1>2. /\ k \in 0..Len(piece)
      /\ Len(chan'.buf) = Len(chan.buf) + k
      /\ \A i \in 1..Len(chan.buf) + k :
           chan'.buf[i] = IF i <= Len(chan.buf) THEN chan.buf[i] ELSE piece[i - Len(chan.buf)]
      /\ Len(piece') = Len(piece) - k
      /\ \A i \in 1..(Len(piece) - k) : piece'[i] = piece[k + i]
  BY <1>0, <1>1, Feeding
<1>3. UNCHANGED <<conn, got, lpc, made, ended>>
  BY DEF Feeds, Works
<1>4. made \in Nat /\ Len(piece) \in Nat /\ Len(chan.buf) \in Nat /\ k \in Nat
  BY <1>0, <1>2, LenProperties DEF ProducerTypes, ChanTypes, Chan
<1>5. Base \in Int /\ Base' = Base + k /\ TakenOut' = TakenOut /\ TakenOut = Base - Len(chan.buf)
  BY <1>2, <1>3, <1>4 DEF Base, TakenOut
<1>6. InOrder'
  <2>1. \A i \in 1..Len(piece') : piece'[i] = Base' + i
    BY <1>2, <1>4, <1>5 DEF Numbers, InOrder
  <2>2. \A i \in 1..Len(chan'.buf) : chan'.buf[i] = TakenOut' + i
    <3>. SUFFICES ASSUME NEW i \in 1..Len(chan.buf) + k
                  PROVE  chan'.buf[i] = TakenOut + i
      BY <1>2, <1>5
    <3>1. CASE i <= Len(chan.buf)
      BY <1>2, <1>4, <3>1 DEF Numbers, InOrder
    <3>2. CASE ~(i <= Len(chan.buf))
      <4>1. i - Len(chan.buf) \in 1..Len(piece)
        BY <1>2, <1>4, <3>2
      <4>2. piece[i - Len(chan.buf)] = Base + (i - Len(chan.buf))
        BY <4>1 DEF Numbers, InOrder
      <4>3. chan'.buf[i] = piece[i - Len(chan.buf)]
        BY <1>2, <3>2
      <4>4. i \in Int /\ TakenOut = Base - Len(chan.buf)
        BY <1>4, <1>5
      <4>. QED BY <1>4, <1>5, <4>2, <4>3, <4>4
    <3>. QED BY <3>1, <3>2
  <2>. QED BY <1>5, <2>1, <2>2 DEF Numbers, InOrder
<1>7. OnItsWay'
  BY <1>3, <1>5 DEF Numbers, OnItsWay, Told
<1>8. CutShortShows'
  BY <1>3 DEF Numbers, CutShortShows, Whole
<1>. QED BY <1>6, <1>7, <1>8

LEMMA AttachKeeps ==
  ASSUME TypeOK, Numbers, Attaches
  PROVE  InOrder' /\ OnItsWay' /\ CutShortShows'
<1>0. ConnTypes
  BY TypeParts
<1>1. /\ UNCHANGED <<chan, made, piece, ended, got>> /\ lpc' = "write"
      /\ conn.state = "handling"
  BY DEF Attaches, Drains, Loop, producer
<1>2. conn'.state = "writing" /\ conn'.out = <<Head1>> /\ conn'.streamDone = conn.streamDone
  BY <1>0 DEF Attaches, ConnTypes, Conn
<1>3. got = <<>> /\ TakenOut = 0 /\ ~conn.streamDone
  BY <1>1 DEF Numbers, OnItsWay
<1>4. Len(got) = 0 /\ Len(conn'.out) = 1 /\ conn'.out[1] = Head1
  BY <1>2, <1>3
<1>5. Base' = Base /\ TakenOut' = TakenOut
  BY <1>1 DEF Base, TakenOut
<1>6. InOrder' /\ CutShortShows'
  BY <1>1, <1>5 DEF Numbers, InOrder, CutShortShows, Whole
<1>7. \A i \in 1..Len(conn'.out) : conn'.out[i] = Told(Len(got) + i)
  BY <1>4 DEF Told
<1>. QED BY <1>1, <1>2, <1>3, <1>4, <1>5, <1>6, <1>7 DEF OnItsWay

LEMMA SendsKeep ==
  ASSUME TypeOK, Shape, Numbers, Sends \/ SendsLast
  PROVE  InOrder' /\ OnItsWay' /\ CutShortShows'
<1>0. ConnTypes /\ ChanTypes /\ ProducerTypes
  BY TypeParts
<1>1. /\ got' = got \o conn.out
      /\ UNCHANGED <<made, piece, ended>>
      /\ conn.state = "writing"
  BY DEF Sends, SendsLast, Writing, Loop, Shape, producer
<1>2. /\ got' \in Seq(-1..Total)
      /\ Len(got') = Len(got) + Len(conn.out)
      /\ \A i \in 1..Len(got) + Len(conn.out) :
           got'[i] = IF i <= Len(got) THEN got[i] ELSE conn.out[i - Len(got)]
  BY <1>0, <1>1, Sending
<1>3. /\ Len(got) \in Nat /\ Len(conn.out) \in Nat /\ DOMAIN got' = 1..Len(got')
      /\ made \in Nat /\ Len(piece) \in Nat /\ Len(chan.buf) \in Nat
  BY <1>0, <1>2, LenProperties DEF ConnTypes, Conn, ChanTypes, Chan, ProducerTypes
<1>4. chan'.buf = chan.buf
  BY <1>0 DEF Sends, SendsLast, ChanTypes, Chan
<1>5. Base' = Base /\ TakenOut' = TakenOut
  BY <1>1, <1>4 DEF Base, TakenOut
<1>6. InOrder'
  BY <1>1, <1>4, <1>5 DEF Numbers, InOrder
<1>7. CASE ~conn.streamDone
  <2>1. /\ Len(got) + Len(conn.out) = TakenOut + 1
        /\ \A i \in 1..Len(got) : got[i] = Told(i)
        /\ \A i \in 1..Len(conn.out) : conn.out[i] = Told(Len(got) + i)
    BY <1>1, <1>7 DEF Numbers, OnItsWay
  <2>2. \A i \in 1..Len(got') : got'[i] = Told(i)
    <3>. SUFFICES ASSUME NEW i \in 1..Len(got) + Len(conn.out)
                  PROVE  got'[i] = Told(i)
      BY <1>2
    <3>1. CASE i <= Len(got)
      BY <1>2, <1>3, <2>1, <3>1
    <3>2. CASE ~(i <= Len(got))
      <4>1. i - Len(got) \in 1..Len(conn.out) /\ Len(got) + (i - Len(got)) = i
        BY <1>3, <3>2
      <4>2. conn.out[i - Len(got)] = Told(i)
        BY <2>1, <4>1
      <4>. QED BY <1>2, <3>2, <4>2
    <3>. QED BY <3>1, <3>2
  <2>9. Len(got') = TakenOut + 1 /\ TakenOut = made - Len(piece) - Len(chan.buf)
    <3>1. Len(got) + Len(conn.out) = TakenOut + 1
      BY <2>1
    <3>2. Len(got') = Len(got) + Len(conn.out)
      BY <1>2
    <3>. QED BY <3>1, <3>2 DEF TakenOut, Base
  <2>3. Len(got') <= made + 1
    <3>1. made \in Nat /\ Len(piece) \in Nat /\ Len(chan.buf) \in Nat
      BY <1>3
    <3>. QED BY <2>9, <3>1, NoMore
  <2>4. CutShortShows'
    <3>1. Len(got') <= made + 2 /\ Len(got') # made + 2
      <4>1. made \in Int /\ Len(got') \in Int
        BY <1>3, <2>9
      <4>. QED BY <2>3, <4>1, Short
    <3>2. \A i \in 1..Len(got') : Told(i) = Whole(i)'
      BY <1>1, <1>3, <2>3, <2>9 DEF Told, Whole
    <3>3. \A i \in DOMAIN got' : got'[i] = Whole(i)'
      BY <1>3, <2>2, <3>2
    <3>. QED BY <1>1, <3>1, <3>3 DEF CutShortShows
  <2>5. /\ conn'.state = "writing" /\ conn'.out = <<>> /\ ~conn'.streamDone
    BY <1>0, <1>1, <1>7 DEF Sends, SendsLast, ConnTypes, Conn
  <2>6. Len(conn'.out) = 0
    BY <2>5
  <2>7. Len(got') + Len(conn'.out) = TakenOut' + 1
    <3>1. TakenOut \in Int
      BY <1>3, <2>9
    <3>. QED BY <1>5, <2>6, <2>9, <3>1
  <2>8. OnItsWay'
    BY <2>2, <2>5, <2>6, <2>7 DEF OnItsWay, Told
  <2>. QED BY <1>6, <2>4, <2>8
<1>8. CASE conn.streamDone
  <2>1. /\ ended = "done" /\ Len(got) = made + 1
        /\ Len(conn.out) = 1 /\ conn.out[1] = Zero
        /\ \A i \in 1..Len(got) : got[i] = Told(i)
    BY <1>1, <1>8 DEF Numbers, OnItsWay
  <2>2. Len(got') = made + 2
    BY <1>2, <1>3, <2>1
  <2>3. \A i \in 1..Len(got') : got'[i] = Whole(i)
    <3>. SUFFICES ASSUME NEW i \in 1..made + 2
                  PROVE  got'[i] = Whole(i)
      BY <2>2
    <3>1. CASE i <= made + 1
      BY <1>2, <1>3, <2>1, <3>1 DEF Told, Whole
    <3>2. CASE i = made + 2
      <4>1. i - Len(got) = 1 /\ ~(i <= Len(got))
        BY <1>3, <2>1, <3>2
      <4>2. got'[i] = Zero
        BY <1>2, <2>1, <2>2, <4>1
      <4>. QED BY <1>3, <3>2, <4>2 DEF Whole
    <3>. QED BY <1>3, <3>1, <3>2
  <2>4. CutShortShows'
    BY <1>1, <1>3, <2>1, <2>2, <2>3 DEF CutShortShows, Whole
  <2>5. conn'.state = "gone" /\ lpc' = "events"
    <3>1. conn' = [Gone EXCEPT !.out = <<>>] /\ lpc' = "events"
      BY <1>8 DEF Sends, SendsLast, Writing, Loop
    <3>2. Gone \in Conn /\ Gone.state = "gone"
      BY <1>0, GoneIs
    <3>. QED BY <3>1, <3>2 DEF Conn
  <2>6. OnItsWay'
    BY <2>5 DEF OnItsWay
  <2>. QED BY <1>6, <2>4, <2>6
<1>. QED BY <1>7, <1>8

LEMMA RefillKeeps ==
  ASSUME TypeOK, Shape, Numbers, RefillsData
  PROVE  InOrder' /\ OnItsWay' /\ CutShortShows'
<1>0. ConnTypes /\ ChanTypes /\ ProducerTypes
  BY TypeParts
<1>1. PICK n : n = Taken
  OBVIOUS
<1>2. /\ n \in 1..Len(chan.buf)
      /\ Len(chan'.buf) = Len(chan.buf) - n
      /\ \A i \in 1..(Len(chan.buf) - n) : chan'.buf[i] = chan.buf[n + i]
      /\ Len(conn'.out) = n
      /\ \A i \in 1..n : conn'.out[i] = chan.buf[i]
      /\ conn'.state = conn.state /\ conn'.streamDone = conn.streamDone
  BY <1>0, <1>1, Refilling
<1>3. /\ UNCHANGED <<got, made, piece, ended>> /\ lpc' = "write"
      /\ conn.state = "writing" /\ conn.out = <<>> /\ ~conn.streamDone
  BY DEF RefillsData, Refills, Loop, producer, Shape, Numbers, OnItsWay
<1>4. /\ Len(got) \in Nat /\ made \in Nat /\ Len(piece) \in Nat /\ Len(chan.buf) \in Nat
      /\ Len(conn.out) = 0
  BY <1>0, <1>3, LenProperties DEF ConnTypes, ChanTypes, Chan, ProducerTypes
<1>5. Base' = Base /\ Base \in Int /\ TakenOut \in Int /\ TakenOut' = TakenOut + n
  BY <1>2, <1>3, <1>4 DEF Base, TakenOut
<1>6. InOrder'
  <2>1. \A i \in 1..Len(chan'.buf) : chan'.buf[i] = TakenOut' + i
    <3>. SUFFICES ASSUME NEW i \in 1..(Len(chan.buf) - n)
                  PROVE  chan'.buf[i] = TakenOut + n + i
      BY <1>2, <1>5
    <3>1. n + i \in 1..Len(chan.buf)
      BY <1>2, <1>4
    <3>2. chan.buf[n + i] = TakenOut + (n + i)
      BY <3>1 DEF Numbers, InOrder
    <3>. QED BY <1>2, <1>5, <3>2
  <2>2. TakenOut' >= 0
    BY <1>2, <1>5 DEF Numbers, InOrder
  <2>. QED BY <1>3, <1>5, <2>1, <2>2 DEF Numbers, InOrder
<1>7. CutShortShows'
  BY <1>3 DEF Numbers, CutShortShows, Whole
<1>8. /\ Len(got) = TakenOut + 1
      /\ \A i \in 1..Len(got) : got[i] = Told(i)
  <2>1. Len(got) + Len(conn.out) = TakenOut + 1
    BY <1>3 DEF Numbers, OnItsWay
  <2>. QED BY <1>3, <1>4, <1>5, <2>1 DEF Numbers, OnItsWay
<1>9. \A i \in 1..Len(conn'.out) : conn'.out[i] = Told(Len(got') + i)
  <2>. SUFFICES ASSUME NEW i \in 1..n
                PROVE  conn'.out[i] = Told(Len(got) + i)
    BY <1>2, <1>3
  <2>1. chan.buf[i] = TakenOut + i
    BY <1>2, <1>4 DEF Numbers, InOrder
  <2>2. Len(got) + i # 1 /\ Len(got) + i - 1 = TakenOut + i
    BY <1>2, <1>4, <1>5, <1>8 DEF Numbers, InOrder
  <2>. QED BY <1>2, <2>1, <2>2 DEF Told
<1>10. Len(got') + Len(conn'.out) = TakenOut' + 1
  BY <1>2, <1>3, <1>4, <1>5, <1>8
<1>11. OnItsWay'
  BY <1>2, <1>3, <1>8, <1>9, <1>10 DEF OnItsWay, Told
<1>. QED BY <1>6, <1>7, <1>11

LEMMA EndKeeps ==
  ASSUME TypeOK, Shape, Numbers, RefillsEnd
  PROVE  InOrder' /\ OnItsWay' /\ CutShortShows'
<1>0. ConnTypes /\ ChanTypes /\ ProducerTypes
  BY TypeParts
<1>1. /\ UNCHANGED <<got, made, piece, ended, chan>> /\ lpc' = "write"
      /\ conn.state = "writing" /\ conn.out = <<>> /\ ~conn.streamDone
      /\ chan.eof
  BY DEF RefillsEnd, Refills, Loop, producer, Shape, Numbers, OnItsWay
<1>2. ended = "done" /\ piece = <<>>
  BY <1>1 DEF Numbers, Producing
<1>3. /\ Len(got) \in Nat /\ made \in Nat /\ Len(chan.buf) \in Nat
      /\ Len(conn.out) = 0 /\ Len(piece) = 0
  BY <1>0, <1>1, <1>2, LenProperties DEF ConnTypes, ChanTypes, Chan, ProducerTypes
<1>4. Len(chan.buf) = 0
  BY <1>3, SizesAssumption DEF RefillsEnd, Taken
<1>5. TakenOut = made
  BY <1>3, <1>4 DEF TakenOut, Base
<1>6. /\ Len(got) = made + 1
      /\ \A i \in 1..Len(got) : got[i] = Told(i)
  <2>1. Len(got) + Len(conn.out) = TakenOut + 1
    BY <1>1 DEF Numbers, OnItsWay
  <2>. QED BY <1>1, <1>3, <1>5, <2>1 DEF Numbers, OnItsWay
<1>7. /\ conn'.state = "writing" /\ conn'.streamDone /\ conn'.out = <<Zero>>
  BY <1>0, <1>1 DEF RefillsEnd, ConnTypes, Conn
<1>8. Len(conn'.out) = 1 /\ conn'.out[1] = Zero
  BY <1>7
<1>9. Base' = Base /\ TakenOut' = TakenOut
  BY <1>1 DEF Base, TakenOut
<1>10. InOrder' /\ CutShortShows'
  BY <1>1, <1>9 DEF Numbers, InOrder, CutShortShows, Whole
<1>11. OnItsWay'
  BY <1>1, <1>2, <1>6, <1>7, <1>8 DEF OnItsWay, Told
<1>. QED BY <1>10, <1>11

\* Every other step keeps the numbers.
LEMMA OthersKeep ==
  ASSUME TypeOK, RefsCounted, Shape, Numbers, [Next]_vars,
         ~Pulls, ~Feeds, ~Attaches, ~Sends, ~SendsLast, ~RefillsData, ~RefillsEnd
  PROVE  InOrder' /\ OnItsWay' /\ CutShortShows'
<1>0. ChanTypes /\ ConnTypes /\ wpc \in WorkerPlace
  BY TypeParts DEF PlaceTypes
<1>. USE DEF producer
<1>1. CASE UNCHANGED vars
  <2>1. /\ UNCHANGED <<made, piece, got, ended>> /\ chan'.buf = chan.buf /\ SameOrGone
    BY <1>1 DEF vars, SameOrGone
  <2>. QED BY <2>1, NumbersKept
<1>2. CASE Queues \/ QueueIsFull \/ AbortsLate \/ Finishes \/ Releases
  <2>1. chan'.buf = chan.buf
    BY <1>0, <1>2 DEF Queues, QueueIsFull, AbortsLate, Finishes, Releases, Aborted,
                      ChanTypes, Chan
  <2>2. UNCHANGED <<made, piece, got, ended>> /\ SameOrGone
    BY <1>2 DEF Queues, QueueIsFull, AbortsLate, Finishes, Releases, Works, SameOrGone
  <2>. QED BY <2>1, <2>2, NumbersKept
<1>3. CASE \/ Notifies \/ Registers \/ FeedFails \/ FeedSleeps \/ FinishWakes \/ Unregisters
           \/ FeedWakes \/ Awakes
  <2>1. /\ UNCHANGED <<made, piece, got, ended>> /\ chan'.buf = chan.buf /\ SameOrGone
    BY <1>3 DEF Notifies, Registers, FeedFails, FeedSleeps, FinishWakes, Unregisters,
                FeedWakes, Awakes, Works, SameOrGone
  <2>. QED BY <2>1, NumbersKept
<1>4. CASE PullsLast
  <2>1. /\ UNCHANGED <<made, piece, got>> /\ chan'.buf = chan.buf /\ SameOrGone
        /\ wpc = "pull"
    BY <1>4 DEF PullsLast, Works, SameOrGone
  <2>2. ended = "no"
    BY <2>1 DEF Numbers, Producing
  <2>. QED BY <2>1, <2>2, NumbersKept
<1>5. CASE \/ OtherWakes \/ Waits \/ DrainsNothing \/ ResumesNothing \/ Writable \/ EventsEnd
  <2>1. /\ UNCHANGED <<made, piece, got, ended>> /\ chan'.buf = chan.buf /\ SameOrGone
    BY <1>5 DEF OtherWakes, Waits, DrainsNothing, ResumesNothing, Writable, EventsEnd,
                InEvents, Loop, SameOrGone
  <2>. QED BY <2>1, NumbersKept
<1>6. CASE Resumes \/ WriteBlocks \/ Pauses
  <2>1. /\ conn'.state = conn.state /\ conn'.out = conn.out
        /\ conn'.streamDone = conn.streamDone
    BY <1>0, <1>6 DEF Resumes, WriteBlocks, Pauses, ConnTypes, Conn
  <2>2. chan'.buf = chan.buf
    BY <1>0, <1>6 DEF Resumes, WriteBlocks, Pauses, ChanTypes, Chan
  <2>3. UNCHANGED <<made, piece, got, ended>> /\ lpc' # "refill"
    BY <1>6 DEF Resumes, WriteBlocks, Pauses, Writing, Refills, Loop
  <2>4. SameOrGone
    BY <2>1, <2>3 DEF SameOrGone
  <2>. QED BY <2>2, <2>3, <2>4, NumbersKept
<1>7. CASE WriteFails \/ RefillFails \/ PeerGone \/ Evicts
  <2>1. ConnClose /\ UNCHANGED <<made, piece, got, ended>> /\ lpc' # "refill"
    BY <1>7 DEF WriteFails, RefillFails, PeerGone, Evicts, Writing, Refills, InEvents, Loop
  <2>2. chan'.buf = chan.buf /\ conn' = Gone
    BY <1>0, <2>1, Closing
  <2>3. SameOrGone
    BY <1>0, <2>1, <2>2, GoneIs DEF SameOrGone
  <2>. QED BY <2>1, <2>2, <2>3, NumbersKept
<1>8. CASE Discards \/ AttachFails \/ ServerCloses \/ Joined
  <2>1. chan'.buf = chan.buf
    BY <1>0, <1>8 DEF Discards, AttachFails, ServerCloses, Joined, Aborted, ChanTypes, Chan
  <2>2. /\ UNCHANGED <<made, piece, got, ended>> /\ lpc' # "refill"
        /\ conn' = conn \/ conn' = Gone
    BY <1>8 DEF Discards, AttachFails, ServerCloses, Joined, Drains, Loop
  <2>3. SameOrGone
    BY <1>0, <2>2, GoneIs DEF SameOrGone
  <2>. QED BY <2>1, <2>2, <2>3, NumbersKept
<1>. QED
  BY <1>1, <1>2, <1>3, <1>4, <1>5, <1>6, <1>7, <1>8 DEF Next, Worker, Handles, Dead

LEMMA NumbersStep ==
  ASSUME TypeOK, RefsCounted, Shape, Numbers, [Next]_vars
  PROVE  Numbers'
<1>1. Producing'
  BY ProducingStep DEF Numbers
<1>2. InOrder' /\ OnItsWay' /\ CutShortShows'
  BY PullsKeep, FeedsKeep, AttachKeeps, SendsKeep, RefillKeeps, EndKeeps, OthersKeep
<1>. QED BY <1>1, <1>2 DEF Numbers

-----------------------------------------------------------------------------
(* The theorems.                                                           *)

LEMMA SpecIInv == Spec => []IInv
<1>1. IInv /\ [Next]_vars => IInv'
  <2>. SUFFICES ASSUME IInv, [Next]_vars PROVE IInv'
    OBVIOUS
  <2>1. TypeOK /\ RefsCounted /\ Shape /\ Numbers
    BY DEF IInv, Numbers
  <2>2. TypeOK' /\ RefsCounted' /\ Shape'
    BY <2>1, TypeStep, ShapeStep
  <2>3. Numbers'
    BY <2>1, NumbersStep
  <2>. QED BY <2>2, <2>3 DEF IInv, Numbers
<1>. QED BY InitIInv, <1>1, PTL DEF Spec

\* The variables of OutStream have their types; in particular the channel never
\* holds more than its capacity, and its count of references stays between 0 and 2.
THEOREM TypeCorrect == Spec => []TypeOK
<1>1. IInv => TypeOK
  BY DEF IInv
<1>. QED BY <1>1, SpecIInv, PTL

\* The count of references is that of the parties that still use the channel, so
\* OutChan.release frees it once, after its last use, however worker, loop, evictions
\* and close are interleaved.
THEOREM ReferencesAreCounted == Spec => []RefsCounted
<1>1. IInv => RefsCounted
  BY DEF IInv
<1>. QED BY <1>1, SpecIInv, PTL

\* The client is told the head, the bytes of the producer in order, and the end only
\* of a response that is whole: no streamRefill passes off a truncated response as
\* complete.
THEOREM TruncationShows == Spec => []CutShortShows
<1>1. IInv => CutShortShows
  BY DEF IInv
<1>. QED BY <1>1, SpecIInv, PTL

=============================================================================
