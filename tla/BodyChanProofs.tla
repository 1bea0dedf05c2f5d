---------------------------- MODULE BodyChanProofs ----------------------------
(***************************************************************************)
(* The safety of the streamed request body for every length of the body,   *)
(* capacity of the channel and size of a read.                             *)
(***************************************************************************)
EXTENDS BodyChan, SequenceTheorems, FiniteSetTheorems, NaturalsInduction, TLAPS

-----------------------------------------------------------------------------
(* The inductive invariant.                                                *)

\* A wakeup has been written and the loop has not come to its drain.
WakeSent == wakeFd \/ \E i \in 1..Len(batch) : batch[i] = "wake"

\* Before the request is dispatched there is nothing.
Fresh ==
  lpc = "dispatch" =>
    /\ state = "reading" /\ ~bchan /\ watch /\ ~parked /\ ~decoding
    /\ wpc = "none" /\ refs = 0
    /\ buf = <<>> /\ ~eof /\ ~fault /\ ~stalled
    /\ readBuf = <<>> /\ done = {} /\ batch = <<>>

\* In which states the slot has a channel, a decoder, a parked watch.
SlotShape ==
  /\ state = "reading" => lpc = "dispatch"
  /\ state \in {"body", "handling"} => bchan
  /\ bchan => state \in {"body", "handling", "closing"} /\ wpc # "none"
  /\ decoding => state = "body"
  /\ parked => decoding /\ ~watch
  /\ state = "body" /\ ~decoding => fault
  /\ state = "handling" => eof
  /\ state = "closing" /\ bchan => eof

\* Where in pumpBody and bodyReady the loop may be.
LoopShape ==
  /\ lpc \in {"pump", "park", "eof", "recv"} => state = "body"
  /\ lpc \in {"park", "eof", "recv"} => decoding
  /\ lpc = "recv" => ~parked
  /\ Hungry /\ lpc \notin {"pump", "park", "eof", "dispatch"} => readBuf = <<>>
  /\ lpc \in {"wait", "join", "dead"} => batch = <<>>

\* resumeBodyPumps has unparked a connection and not watched it again.
Resuming == caller = "resume" /\ lpc \in {"pump", "park", "eof", "pumped"} /\ ~watch

WatchShape == state \in {"body", "handling"} => watch = Hungry \/ Resuming

\* A channel is stalled only while it is full; nobody sleeps, and no reader is
\* left without an end, on a channel that has something to tell.
ChannelShape ==
  /\ stalled => Len(buf) = Cap
  /\ WorkerHolds /\ ~bchan => eof \/ fault

\* The worker's completion is known to the loop until the slot has it.
Answered ==
  /\ state = "body" /\ wpc \in {"notifying", "gone"} => done # {}
  /\ state = "body" /\ wpc = "gone" => WakeSent \/ lpc = "drain"

\* ParkedIsResumed, from feed's shortfall on.
ParkShape ==
  parked \/ lpc = "park" =>
    WakePending \/ (stalled /\ wpc \in {"queued", "handler", "reading"})

Control ==
  /\ Fresh /\ SlotShape /\ LoopShape /\ WatchShape /\ ChannelShape /\ Answered /\ ParkShape
  /\ SleeperHasNothing /\ RefsCounted

IInv == TypeOK /\ Control

LEMMA InitIInv == Init => IInv
<1>. SUFFICES ASSUME Init PROVE IInv
  OBVIOUS
<1>. USE SizesAssumption DEF Init
<1>1. TypeOK
  <2>1. /\ wire \in Seq(Elements) /\ buf \in Seq(Elements)
        /\ readBuf \in Seq(Elements) /\ got \in Seq(Elements)
        /\ batch \in Seq({"read", "wake"})
    BY EmptySeq
  <2>2. last \in Elements /\ Len(buf) <= Cap
    BY DEF Elements, Marks
  <2>3. /\ chunked \in BOOLEAN /\ hup \in BOOLEAN
        /\ eof \in BOOLEAN /\ fault \in BOOLEAN /\ stalled \in BOOLEAN /\ drained \in BOOLEAN
        /\ decoding \in BOOLEAN /\ parked \in BOOLEAN /\ watch \in BOOLEAN /\ bchan \in BOOLEAN
        /\ wakeFd \in BOOLEAN
    OBVIOUS
  <2>4. /\ sent \in 0..Total /\ refs \in 0..2 /\ remaining \in 0..Total
        /\ done \in SUBSET BOOLEAN
        /\ state = "reading" /\ lpc = "dispatch" /\ caller = "dispatch" /\ wpc = "none"
    OBVIOUS
  <2>. QED BY <2>1, <2>2, <2>3, <2>4 DEF TypeOK
<1>2. Control
  BY DEF Control, Fresh, SlotShape, LoopShape, WatchShape, Hungry, ChannelShape, Answered,
         ParkShape, SleeperHasNothing, RefsCounted, WorkerHolds
<1>. QED BY <1>1, <1>2 DEF IInv

-----------------------------------------------------------------------------
(* Sequences and the channel.                                              *)

\* What is left of a sequence, and what is taken from it, are sequences.
LEMMA Parts ==
  ASSUME NEW S, NEW s \in Seq(S), NEW n \in 0..Len(s)
  PROVE  /\ SubSeq(s, 1, n) \in Seq(S)
         /\ SubSeq(s, n + 1, Len(s)) \in Seq(S)
         /\ Len(SubSeq(s, 1, n)) = n
         /\ Len(SubSeq(s, n + 1, Len(s))) = Len(s) - n
<1>1. Len(s) \in Nat
  BY LenProperties
<1>2. \A i \in 1..Len(s) : s[i] \in S
  BY ElementOfSeq
<1>3. \A i \in 1..n : s[i] \in S
  BY <1>1, <1>2
<1>4. \A i \in n + 1..Len(s) : s[i] \in S
  BY <1>1, <1>2
<1>5. SubSeq(s, 1, n) \in Seq(S) /\ Len(SubSeq(s, 1, n)) = IF 1 <= n THEN n - 1 + 1 ELSE 0
  BY <1>1, <1>3, SubSeqProperties
<1>6. /\ SubSeq(s, n + 1, Len(s)) \in Seq(S)
      /\ Len(SubSeq(s, n + 1, Len(s))) =
           IF n + 1 <= Len(s) THEN Len(s) - (n + 1) + 1 ELSE 0
  BY <1>1, <1>4, SubSeqProperties
<1>. QED BY <1>1, <1>5, <1>6

\* What feed does to the channel, in numbers.
LEMMA FeedTakes ==
  ASSUME TypeOK, NEW n \in FrontRun, Feed(n, Taken(n))
  PROVE  /\ n \in 1..Len(readBuf)
         /\ Taken(n) \in 0..n
         /\ buf' \in Seq(Elements) /\ Len(buf') = Len(buf) + Taken(n)
         /\ Len(buf') <= Cap
         /\ Taken(n) < n => Len(buf') = Cap
         /\ buf = <<>> => Taken(n) > 0
<1>. USE SizesAssumption
<1>1. Len(readBuf) \in Nat /\ Len(buf) \in 0..Cap /\ n \in 1..Len(readBuf)
  BY LenProperties DEF TypeOK, FrontRun
<1>2. Taken(n) \in 0..n /\ Len(buf) + Taken(n) <= Cap
      /\ (Taken(n) < n => Len(buf) + Taken(n) = Cap)
  BY <1>1 DEF Taken
<1>3. SubSeq(readBuf, 1, Taken(n)) \in Seq(Elements)
      /\ Len(SubSeq(readBuf, 1, Taken(n))) = Taken(n)
  BY <1>1, <1>2, Parts DEF TypeOK
<1>4. buf' \in Seq(Elements) /\ Len(buf') = Len(buf) + Taken(n)
  BY <1>3, ConcatProperties DEF Feed, TypeOK
<1>5. buf = <<>> => Taken(n) > 0
  BY <1>1 DEF Taken
<1>. QED BY <1>1, <1>2, <1>4, <1>5

\* Handling one event of the batch leaves the others in it.
LEMMA TailKeeps ==
  ASSUME NEW S, NEW s \in Seq(S), s # <<>>, NEW x, Head(s) # x,
         \E i \in 1..Len(s) : s[i] = x
  PROVE  \E i \in 1..Len(Tail(s)) : Tail(s)[i] = x
<1>1. PICK i \in 1..Len(s) : s[i] = x
  OBVIOUS
<1>2. i # 1
  BY <1>1
<1>3. Len(s) \in Nat
  BY LenProperties
<1>4. Len(Tail(s)) = Len(s) - 1 /\ \A j \in 1..Len(s) - 1 : Tail(s)[j] = s[j + 1]
  BY <1>3, HeadTailProperties
<1>5. i - 1 \in 1..Len(s) - 1 /\ (i - 1) + 1 = i
  BY <1>1, <1>2, <1>3
<1>6. Tail(s)[i - 1] = x
  BY <1>1, <1>4, <1>5
<1>. QED BY <1>4, <1>5, <1>6

-----------------------------------------------------------------------------
(* Types.                                                                  *)

\* TypeOK, one part per group of variables, so that a step that leaves a group
\* alone has nothing to show about it.
PeerTypes ==
  /\ chunked \in BOOLEAN /\ hup \in BOOLEAN
  /\ sent \in 0..Total /\ last \in Elements /\ wire \in Seq(Elements)
ChanTypes ==
  /\ buf \in Seq(Elements) /\ Len(buf) <= Cap
  /\ eof \in BOOLEAN /\ fault \in BOOLEAN /\ stalled \in BOOLEAN /\ drained \in BOOLEAN
  /\ refs \in 0..2
SlotTypes ==
  /\ state \in {"reading", "body", "handling", "next", "closing", "free"}
  /\ decoding \in BOOLEAN /\ parked \in BOOLEAN /\ watch \in BOOLEAN /\ bchan \in BOOLEAN
  /\ remaining \in 0..Total /\ readBuf \in Seq(Elements)
LoopTypes ==
  /\ lpc \in {"dispatch", "pump", "park", "eof", "pumped", "recv", "drain", "resume",
              "event", "wait", "join", "dead"}
  /\ caller \in {"dispatch", "ready", "resume"}
  /\ batch \in Seq({"read", "wake"}) /\ wakeFd \in BOOLEAN /\ done \in SUBSET BOOLEAN
WorkerTypes ==
  /\ wpc \in {"none", "queued", "handler", "reading", "asleep", "waking", "returned",
              "completing", "notifying", "gone"}
  /\ got \in Seq(Elements)

LEMMA TypeParts ==
  ASSUME TypeOK
  PROVE  PeerTypes /\ ChanTypes /\ SlotTypes /\ LoopTypes /\ WorkerTypes
<1>1. PeerTypes /\ ChanTypes
  BY DEF TypeOK, PeerTypes, ChanTypes
<1>2. SlotTypes /\ LoopTypes
  BY DEF TypeOK, SlotTypes, LoopTypes
<1>3. WorkerTypes
  BY DEF TypeOK, WorkerTypes
<1>. QED BY <1>1, <1>2, <1>3

LEMMA PartsType ==
  ASSUME PeerTypes', ChanTypes', SlotTypes', LoopTypes', WorkerTypes'
  PROVE  TypeOK'
BY DEF TypeOK, PeerTypes, ChanTypes, SlotTypes, LoopTypes, WorkerTypes

LEMMA PeerKept ==
  ASSUME TypeOK, UNCHANGED peer
  PROVE  PeerTypes'
BY TypeParts DEF peer, PeerTypes

LEMMA ChanKept ==
  ASSUME TypeOK, UNCHANGED chan
  PROVE  ChanTypes'
BY TypeParts DEF chan, ChanTypes

LEMMA SlotKept ==
  ASSUME TypeOK, UNCHANGED conn
  PROVE  SlotTypes'
BY TypeParts DEF conn, SlotTypes

LEMMA LoopKept ==
  ASSUME TypeOK, UNCHANGED <<caller, batch, wakeFd, done>>,
         lpc' \in {"dispatch", "pump", "park", "eof", "pumped", "recv", "drain", "resume",
                  "event", "wait", "join", "dead"}
  PROVE  LoopTypes'
BY TypeParts DEF LoopTypes

LEMMA WorkerKept ==
  ASSUME TypeOK, UNCHANGED got,
         wpc' \in {"none", "queued", "handler", "reading", "asleep", "waking", "returned",
                  "completing", "notifying", "gone"}
  PROVE  WorkerTypes'
BY TypeParts DEF WorkerTypes

\* A signal moves the worker to one of its own places.
LEMMA SignalledType ==
  ASSUME TypeOK
  PROVE  Signalled \in {"none", "queued", "handler", "reading", "asleep", "waking",
                       "returned", "completing", "notifying", "gone"}
BY DEF Signalled, TypeOK

\* ConnClose, and every other call of finish, keeps the channel's types.
LEMMA FinishTypes ==
  ASSUME TypeOK, RefsCounted, NEW f \in BOOLEAN, NEW r \in BOOLEAN, r => bchan,
         Finish(f, r)
  PROVE  /\ buf' \in Seq(Elements) /\ Len(buf') <= Cap
         /\ eof' \in BOOLEAN /\ fault' \in BOOLEAN /\ stalled' \in BOOLEAN
         /\ drained' \in BOOLEAN
         /\ refs' \in 0..2
         /\ wpc' \in {"none", "queued", "handler", "reading", "asleep", "waking",
                      "returned", "completing", "notifying", "gone"}
<1>1. eof' \in BOOLEAN /\ fault' \in BOOLEAN
  BY DEF Finish, TypeOK
<1>2. refs' \in 0..2
  BY DEF Finish, TypeOK, RefsCounted
<1>3. UNCHANGED <<buf, stalled, drained>>
  BY DEF Finish
<1>. QED BY <1>1, <1>2, <1>3 DEF Finish, Signalled, TypeOK

LEMMA CloseTypes ==
  ASSUME TypeOK, RefsCounted, ConnClose
  PROVE  /\ buf' \in Seq(Elements) /\ Len(buf') <= Cap
         /\ eof' \in BOOLEAN /\ fault' \in BOOLEAN /\ stalled' \in BOOLEAN
         /\ drained' \in BOOLEAN
         /\ refs' \in 0..2
         /\ wpc' \in {"none", "queued", "handler", "reading", "asleep", "waking",
                      "returned", "completing", "notifying", "gone"}
         /\ state' = "free" /\ remaining' \in 0..Total /\ readBuf' \in Seq(Elements)
         /\ decoding' \in BOOLEAN /\ parked' \in BOOLEAN /\ watch' \in BOOLEAN
         /\ bchan' \in BOOLEAN
<1>1. remaining' \in 0..Total /\ readBuf' \in Seq(Elements)
  BY SizesAssumption, EmptySeq DEF ConnClose
<1>2. /\ decoding' \in BOOLEAN /\ parked' \in BOOLEAN /\ watch' \in BOOLEAN
      /\ bchan' \in BOOLEAN
  BY DEF ConnClose
<1>3. CASE bchan
  BY <1>1, <1>2, <1>3, FinishTypes DEF ConnClose
<1>4. CASE ~bchan
  BY <1>1, <1>2, <1>4 DEF ConnClose, TypeOK, chan
<1>. QED BY <1>3, <1>4

\* Taking bytes off the front of wire or readBuf, or moving them into the
\* channel, keeps the types; the rest is a matter of labels.
LEMMA TypeStep == TypeOK /\ Control /\ NextStep => TypeOK'
<1>. SUFFICES ASSUME TypeOK, Control, NextStep PROVE TypeOK'
  OBVIOUS
<1>0. RefsCounted /\ SlotShape
  BY DEF Control
<1>. USE SizesAssumption DEF peer, chan, conn, loop, worker, vars
<1>1. CASE PeerSends
  <2>1. PICK e \in CanSend : wire' = Append(wire, e) /\ last' = e
                             /\ sent' = IF e \in Byte THEN e ELSE sent
    BY <1>1 DEF PeerSends
  <2>2. sent \in 0..Total
    BY DEF TypeOK
  <2>3. e \in Elements
    BY <2>1, <2>2 DEF CanSend, Elements, Marks, Byte
  <2>4. wire' \in Seq(Elements) /\ last' \in Elements /\ sent' \in 0..Total
    BY <2>1, <2>2, <2>3, AppendProperties DEF TypeOK, Byte
  <2>. QED BY <1>1, <2>4 DEF PeerSends, TypeOK
<1>2. CASE PeerCloses
  <2>1. wire' \in Seq(Elements) /\ hup' \in BOOLEAN
    BY <1>2, EmptySeq DEF PeerCloses, TypeOK
  <2>. QED BY <1>2, <2>1 DEF PeerCloses, TypeOK
<1>3. CASE ReadTakes
  <2>1. PICK n \in 1..Len(buf) : got' = got \o SubSeq(buf, 1, n)
                                 /\ buf' = SubSeq(buf, n + 1, Len(buf))
    BY <1>3 DEF ReadTakes
  <2>2. Len(buf) \in Nat
    BY LenProperties DEF TypeOK
  <2>3. /\ SubSeq(buf, 1, n) \in Seq(Elements) /\ buf' \in Seq(Elements)
        /\ Len(buf') = Len(buf) - n
    BY <2>1, <2>2, Parts DEF TypeOK
  <2>4. got' \in Seq(Elements) /\ Len(buf') <= Cap
    BY <2>1, <2>2, <2>3, ConcatProperties DEF TypeOK
  <2>5. stalled' = FALSE /\ wpc' \in {"waking", "handler"}
        /\ UNCHANGED <<peer, eof, fault, drained, refs, conn, loop>>
    BY <1>3 DEF ReadTakes
  <2>6. ChanTypes'
    BY <2>3, <2>4, <2>5, TypeParts DEF ChanTypes
  <2>7. PeerTypes' /\ SlotTypes'
    BY <2>5, PeerKept, SlotKept
  <2>8. LoopTypes'
    BY <2>5, TypeParts DEF LoopTypes
  <2>9. WorkerTypes'
    BY <2>4, <2>5 DEF WorkerTypes
  <2>. QED BY <2>6, <2>7, <2>8, <2>9, PartsType
<1>4. CASE Completes
  <2>1. done' \in SUBSET BOOLEAN
    BY <1>4 DEF Completes, MayKeep, TypeOK
  <2>. QED BY <1>4, <2>1 DEF Completes, TypeOK
<1>5. CASE \/ JobStarts \/ CallsRead \/ ReadSleeps \/ ReadWakes \/ HandlerReturns
           \/ Notifies \/ SpuriousWake \/ OtherWakes
  <2>1. CASE JobStarts \/ CallsRead \/ ReadSleeps \/ HandlerReturns \/ SpuriousWake
    BY <2>1 DEF JobStarts, CallsRead, ReadSleeps, HandlerReturns, SpuriousWake, TypeOK
  <2>2. CASE ReadWakes
    BY <2>2 DEF ReadWakes, TypeOK
  <2>3. CASE Notifies \/ OtherWakes
    <3>1. wakeFd' \in BOOLEAN
      BY <2>3 DEF Notifies, OtherWakes
    <3>. QED BY <2>3, <3>1 DEF Notifies, OtherWakes, TypeOK
  <2>. QED BY <1>5, <2>1, <2>2, <2>3
<1>6. CASE ReadEnds
  BY <1>6 DEF ReadEnds, TypeOK
<1>7. CASE JobReleases
  BY <1>0, <1>7 DEF JobReleases, RefsCounted, WorkerHolds, TypeOK
<1>8. CASE ServerCloses
  <2>1. lpc' = "join" /\ UNCHANGED <<peer, conn, caller, batch, wakeFd, done, got>>
    BY <1>8 DEF ServerCloses
  <2>2. PeerTypes' /\ SlotTypes' /\ LoopTypes'
    BY <2>1, PeerKept, SlotKept, LoopKept
  <2>3. CASE bchan
    <3>1. Finish(TRUE, FALSE)
      BY <1>8, <2>3 DEF ServerCloses
    <3>2. ChanTypes'
      BY <1>0, <3>1, FinishTypes DEF ChanTypes
    <3>3. WorkerTypes'
      BY <1>0, <2>1, <3>1, FinishTypes, WorkerKept
    <3>. QED BY <2>2, <3>2, <3>3, PartsType
  <2>4. CASE ~bchan
    <3>1. UNCHANGED <<chan, wpc>>
      BY <1>8, <2>4 DEF ServerCloses
    <3>2. ChanTypes'
      BY <3>1, ChanKept
    <3>3. WorkerTypes'
      BY <2>1, <3>1, TypeParts DEF WorkerTypes
    <3>. QED BY <2>2, <3>2, <3>3, PartsType
  <2>. QED BY <2>3, <2>4
<1>9. CASE Closed
  BY <1>9 DEF Closed, TypeOK
<1>10. CASE PumpFeeds
  <2>1. PICK n \in FrontRun :
          /\ Feed(n, Taken(n))
          /\ readBuf' = SubSeq(readBuf, Taken(n) + 1, Len(readBuf))
          /\ remaining' = IF chunked THEN 0 ELSE remaining - Taken(n)
          /\ lpc' \in {"eof", "park", "pump", "pumped"}
    BY <1>10 DEF PumpFeeds
  <2>2. Taken(n) \in 0..n /\ n \in 1..Len(readBuf)
        /\ buf' \in Seq(Elements) /\ Len(buf') <= Cap
    BY <2>1, FeedTakes
  <2>3. Len(readBuf) \in Nat
    BY LenProperties DEF TypeOK
  <2>4. readBuf' \in Seq(Elements)
    BY <2>1, <2>2, <2>3, Parts DEF TypeOK
  <2>5. remaining' \in 0..Total
    BY <2>1, <2>2, <2>3 DEF TypeOK, FrontRun
  <2>6. stalled' \in BOOLEAN
    BY <2>1 DEF Feed, TypeOK
  <2>7. UNCHANGED <<eof, fault, drained, refs>>
    BY <2>1 DEF Feed
  <2>8. wpc' \in {"none", "queued", "handler", "reading", "asleep", "waking", "returned",
                  "completing", "notifying", "gone"}
    <3>1. wpc' = IF Taken(n) > 0 THEN Signalled ELSE wpc
      BY <2>1 DEF Feed
    <3>. QED BY <3>1, SignalledType DEF TypeOK
  <2>9. UNCHANGED <<peer, state, decoding, parked, watch, bchan, caller, batch, wakeFd,
                    done, got>>
    BY <1>10 DEF PumpFeeds
  <2>10. ChanTypes'
    BY <2>2, <2>6, <2>7, TypeParts DEF ChanTypes
  <2>11. SlotTypes'
    BY <2>4, <2>5, <2>9, TypeParts DEF SlotTypes
  <2>12. LoopTypes'
    BY <2>1, <2>9, LoopKept
  <2>13. PeerTypes' /\ WorkerTypes'
    BY <2>8, <2>9, PeerKept, WorkerKept
  <2>. QED BY <2>10, <2>11, <2>12, <2>13, PartsType
<1>11. CASE PumpFrame \/ PumpEnd
  <2>1. readBuf # <<>> /\ readBuf' = Tail(readBuf) /\ lpc' \in {lpc, "eof"}
        /\ UNCHANGED <<peer, chan, state, decoding, remaining, parked, watch, bchan,
                       caller, batch, wakeFd, done, worker>>
    BY <1>11 DEF PumpFrame, PumpEnd
  <2>2. readBuf \in Seq(Elements)
    BY DEF TypeOK
  <2>3. readBuf' \in Seq(Elements)
    BY <2>1, <2>2, HeadTailProperties
  <2>4. SlotTypes'
    BY <2>1, <2>3, TypeParts DEF SlotTypes
  <2>5. lpc' \in {"dispatch", "pump", "park", "eof", "pumped", "recv", "drain", "resume",
                  "event", "wait", "join", "dead"}
    BY <2>1 DEF TypeOK
  <2>6. PeerTypes' /\ ChanTypes' /\ LoopTypes'
    BY <2>1, <2>5, PeerKept, ChanKept, LoopKept
  <2>7. WorkerTypes'
    BY <2>1, TypeParts DEF WorkerTypes
  <2>. QED BY <2>4, <2>6, <2>7, PartsType
<1>12. CASE PumpJunk
  <2>1. readBuf' \in Seq(Elements)
    BY <1>12, EmptySeq DEF PumpJunk
  <2>2. decoding' \in BOOLEAN /\ parked' \in BOOLEAN /\ watch' \in BOOLEAN
    BY <1>12 DEF PumpJunk
  <2>3. Finish(TRUE, FALSE)
    BY <1>12 DEF PumpJunk
  <2>. QED BY <1>0, <1>12, <2>1, <2>2, <2>3, FinishTypes DEF PumpJunk, TypeOK
<1>13. CASE BodyPark
  <2>1. parked' \in BOOLEAN /\ watch' \in BOOLEAN
    BY <1>13 DEF BodyPark
  <2>. QED BY <1>13, <2>1 DEF BodyPark, TypeOK
<1>14. CASE BodyEof
  <2>1. decoding' \in BOOLEAN /\ parked' \in BOOLEAN /\ watch' \in BOOLEAN
    BY <1>14 DEF BodyEof
  <2>2. Finish(FALSE, FALSE)
    BY <1>14 DEF BodyEof
  <2>. QED BY <1>0, <1>14, <2>1, <2>2, FinishTypes DEF BodyEof, TypeOK
<1>15. CASE \/ PumpDry \/ PumpReturns \/ PumpReads \/ PumpResumes \/ WouldBlock
            \/ DrainsNothing \/ ResumesNothing \/ SweepPasses
  <2>1. CASE PumpDry \/ PumpReturns \/ PumpReads \/ WouldBlock
    <3>1. /\ UNCHANGED <<peer, chan, conn, caller, batch, wakeFd, done, worker>>
          /\ lpc' \in {"pumped", "event", "recv"}
      BY <2>1 DEF PumpDry, PumpReturns, PumpReads, WouldBlock
    <3>2. LoopTypes' /\ PeerTypes' /\ ChanTypes' /\ SlotTypes'
      BY <3>1, LoopKept, PeerKept, ChanKept, SlotKept
    <3>3. WorkerTypes'
      BY <3>1, TypeParts DEF WorkerTypes
    <3>. QED BY <3>2, <3>3, PartsType
  <2>2. CASE PumpResumes
    BY <2>2 DEF PumpResumes, TypeOK
  <2>3. CASE DrainsNothing \/ ResumesNothing \/ SweepPasses
    BY <2>3 DEF DrainsNothing, ResumesNothing, SweepPasses, TypeOK
  <2>. QED BY <1>15, <2>1, <2>2, <2>3
<1>16. CASE PumpCannotResume \/ PeerGone \/ Evicts \/ CloseEnds
  <2>1. ConnClose
    BY <1>16 DEF PumpCannotResume, PeerGone, Evicts, CloseEnds
  <2>. QED BY <1>0, <1>16, <2>1, CloseTypes
           DEF PumpCannotResume, PeerGone, Evicts, CloseEnds, TypeOK
<1>17. CASE Receives
  <2>1. PICK k \in 1..Len(wire) : readBuf' = readBuf \o SubSeq(wire, 1, k)
                                  /\ wire' = SubSeq(wire, k + 1, Len(wire))
    BY <1>17 DEF Receives
  <2>2. k \in 0..Len(wire)
    BY <2>1, LenProperties DEF TypeOK
  <2>3. SubSeq(wire, 1, k) \in Seq(Elements) /\ wire' \in Seq(Elements)
    BY <2>1, <2>2, Parts DEF TypeOK
  <2>4. readBuf' \in Seq(Elements)
    BY <2>1, <2>3, ConcatProperties DEF TypeOK
  <2>. QED BY <1>17, <2>3, <2>4 DEF Receives, TypeOK
<1>18. CASE DrainDiscards \/ DrainFails \/ Joined
  <2>1. CASE DrainDiscards
    BY <2>1 DEF DrainDiscards, TypeOK
  <2>2. CASE DrainFails \/ Joined
    <3>1. ConnClose /\ done' = {}
      BY <2>2 DEF DrainFails, Joined
    <3>. QED BY <1>0, <2>2, <3>1, CloseTypes DEF DrainFails, Joined, TypeOK
  <2>. QED BY <1>18, <2>1, <2>2
<1>19. CASE DrainEarly
  <2>1. readBuf' \in Seq(Elements)
    BY <1>19, EmptySeq DEF DrainEarly
  <2>2. /\ decoding' \in BOOLEAN /\ parked' \in BOOLEAN /\ watch' \in BOOLEAN
        /\ bchan' \in BOOLEAN
    BY <1>19 DEF DrainEarly
  <2>3. Finish(TRUE, TRUE) /\ bchan
    BY <1>0, <1>19 DEF DrainEarly, SlotShape
  <2>4. state' \in {"next", "closing"}
    BY <1>19 DEF DrainEarly
  <2>. QED BY <1>0, <1>19, <2>1, <2>2, <2>3, <2>4, FinishTypes DEF DrainEarly, TypeOK
<1>20. CASE DrainAttaches
  <2>1. refs' \in 0..2
    BY <1>0, <1>20 DEF DrainAttaches, RefsCounted, SlotShape, TypeOK
  <2>2. watch' \in BOOLEAN /\ bchan' \in BOOLEAN
    BY <1>20 DEF DrainAttaches
  <2>3. state' \in {"next", "closing"}
    BY <1>20 DEF DrainAttaches
  <2>. QED BY <1>20, <2>1, <2>2, <2>3 DEF DrainAttaches, TypeOK
<1>21. CASE Dispatch
  <2>1. PICK k \in 0..Len(wire) : readBuf' = SubSeq(wire, 1, k)
                                  /\ wire' = SubSeq(wire, k + 1, Len(wire))
    BY <1>21 DEF Dispatch
  <2>2. readBuf' \in Seq(Elements) /\ wire' \in Seq(Elements)
    BY <2>1, Parts DEF TypeOK
  <2>3. remaining' \in 0..Total /\ refs' \in 0..2
    BY <1>21 DEF Dispatch
  <2>4. decoding' \in BOOLEAN /\ bchan' \in BOOLEAN
    BY <1>21 DEF Dispatch
  <2>. QED BY <1>21, <2>2, <2>3, <2>4 DEF Dispatch, TypeOK
<1>22. CASE Waits
  <2>1. PICK n \in 0..2 : batch' \in [1..n -> ReadyEvents]
    BY <1>22 DEF Waits
  <2>2. batch' \in [1..n -> {"read", "wake"}]
    BY <2>1 DEF ReadyEvents
  <2>3. batch' \in Seq({"read", "wake"})
    BY <2>2, SeqDef
  <2>4. wakeFd' \in BOOLEAN
    BY <1>22 DEF Waits
  <2>. QED BY <1>22, <2>3, <2>4 DEF Waits, TypeOK
<1>23. CASE HandlesRead \/ HandlesWake
  <2>1. batch # <<>> /\ batch' = Tail(batch) /\ lpc' \in {"pump", "event", "drain"}
        /\ caller' \in {caller, "ready"}
        /\ UNCHANGED <<peer, chan, conn, wakeFd, done, worker>>
    BY <1>23 DEF HandlesRead, HandlesWake
  <2>2. batch \in Seq({"read", "wake"})
    BY DEF TypeOK
  <2>3. batch' \in Seq({"read", "wake"})
    BY <2>1, <2>2, HeadTailProperties
  <2>4. LoopTypes'
    BY <2>1, <2>3, TypeParts DEF LoopTypes
  <2>5. PeerTypes' /\ ChanTypes' /\ SlotTypes'
    BY <2>1, PeerKept, ChanKept, SlotKept
  <2>6. WorkerTypes'
    BY <2>1, TypeParts DEF WorkerTypes
  <2>. QED BY <2>4, <2>5, <2>6, PartsType
<1>24. CASE Sheds \/ Resumes
  <2>1. CASE Sheds
    BY <2>1 DEF Sheds, TypeOK
  <2>2. CASE Resumes
    <3>1. parked' \in BOOLEAN
      BY <2>2 DEF Resumes
    <3>. QED BY <2>2, <3>1 DEF Resumes, TypeOK
  <2>. QED BY <1>24, <2>1, <2>2
<1>25. CASE HandlerTimeout
  <2>1. readBuf' \in Seq(Elements)
    BY <1>25, EmptySeq DEF HandlerTimeout
  <2>. QED BY <1>25, <2>1 DEF HandlerTimeout, TypeOK
<1>. QED
  BY <1>1, <1>2, <1>3, <1>4, <1>5, <1>6, <1>7, <1>8, <1>9, <1>10, <1>11, <1>12, <1>13,
     <1>14, <1>15, <1>16, <1>17, <1>18, <1>19, <1>20, <1>21, <1>22, <1>23, <1>24, <1>25
     DEF NextStep, Loop, Pump, Drain, Tick, Worker

-----------------------------------------------------------------------------
(* The control invariant, thread by thread.                                *)

\* The peer touches nothing that the invariant is about.
LEMMA PeerControl == TypeOK /\ Control /\ (PeerSends \/ PeerCloses \/ Closed) => Control'
<1>. SUFFICES ASSUME TypeOK, Control, PeerSends \/ PeerCloses \/ Closed PROVE Control'
  OBVIOUS
<1>1. UNCHANGED <<buf, eof, fault, stalled, refs, state, decoding, readBuf, parked, watch,
                  bchan, lpc, caller, batch, wakeFd, done, wpc>>
  BY DEF PeerSends, PeerCloses, Closed, vars, chan, conn, loop, worker
<1>. QED
  BY <1>1 DEF Control, Fresh, SlotShape, LoopShape, WatchShape, Hungry, Resuming,
              ChannelShape, WorkerHolds, Answered, WakeSent, ParkShape, WakePending,
              SleeperHasNothing, RefsCounted

\* A worker that takes bytes from a stalled channel owes a wakeup; one that
\* finds nothing cannot be the one a parked watch counts on, because a stalled
\* channel is full.
LEMMA WorkerControl == TypeOK /\ Control /\ (Worker \/ SpuriousWake) => Control'
<1>. SUFFICES ASSUME TypeOK, Control, Worker \/ SpuriousWake PROVE Control'
  OBVIOUS
<1>. USE SizesAssumption
     DEF TypeOK, Control, Fresh, SlotShape, LoopShape, WatchShape, Hungry, Resuming,
         ChannelShape, WorkerHolds, Answered, WakeSent, ParkShape, WakePending,
         SleeperHasNothing, RefsCounted, peer, chan, conn, loop, worker
<1>1. CASE JobStarts
  BY <1>1 DEF JobStarts
<1>2. CASE CallsRead
  BY <1>2 DEF CallsRead
<1>3. CASE ReadSleeps
  BY <1>3 DEF ReadSleeps
<1>4. CASE ReadTakes
  BY <1>4 DEF ReadTakes
<1>5. CASE ReadWakes
  BY <1>5 DEF ReadWakes
<1>6. CASE ReadEnds
  BY <1>6 DEF ReadEnds
<1>7. CASE HandlerReturns
  BY <1>7 DEF HandlerReturns
<1>8. CASE JobReleases
  BY <1>8 DEF JobReleases
<1>9. CASE Completes
  BY <1>9 DEF Completes, MayKeep
<1>10. CASE Notifies
  BY <1>10 DEF Notifies
<1>11. CASE SpuriousWake
  BY <1>11 DEF SpuriousWake
<1>. QED BY <1>1, <1>2, <1>3, <1>4, <1>5, <1>6, <1>7, <1>8, <1>9, <1>10, <1>11 DEF Worker

\* The decoder.  What it leaves in readBuf when it returns is nothing, unless the
\* channel was short, and then it parks the watch of a stalled channel.
LEMMA FeedControl == TypeOK /\ Control /\ PumpFeeds => Control'
<1>. SUFFICES ASSUME TypeOK, Control, PumpFeeds PROVE Control'
  OBVIOUS
<1>1. PICK n \in FrontRun :
        /\ Feed(n, Taken(n))
        /\ readBuf' = SubSeq(readBuf, Taken(n) + 1, Len(readBuf))
        /\ lpc' = CASE ~chunked /\ remaining = Taken(n) -> "eof"
                    [] Taken(n) < n -> "park"
                    [] chunked /\ Taken(n) = n /\ n < Len(readBuf) -> "pump"
                    [] OTHER -> "pumped"
  BY DEF PumpFeeds
<1>2. /\ lpc = "pump" /\ decoding
      /\ UNCHANGED <<state, decoding, parked, watch, bchan, caller, batch, wakeFd, done>>
  BY DEF PumpFeeds
<1>3. UNCHANGED <<eof, fault, refs>> /\ stalled' = (stalled \/ Taken(n) < n)
      /\ wpc' = IF Taken(n) > 0 THEN Signalled ELSE wpc
  BY <1>1 DEF Feed
<1>4. /\ n \in 1..Len(readBuf) /\ Taken(n) \in 0..n
      /\ buf' \in Seq(Elements) /\ Len(buf') = Len(buf) + Taken(n)
      /\ Len(buf') <= Cap /\ (Taken(n) < n => Len(buf') = Cap)
      /\ (buf = <<>> => Taken(n) > 0)
  BY <1>1, FeedTakes
<1>5. lpc' \in {"eof", "park", "pump", "pumped"}
  BY <1>1
<1>6. wpc' = wpc \/ (wpc = "asleep" /\ wpc' = "reading")
  BY <1>3 DEF Signalled
<1>7. wpc' # "asleep"
  BY <1>3, <1>4 DEF Signalled, Control, SleeperHasNothing
<1>8. Fresh' /\ SlotShape' /\ WatchShape' /\ SleeperHasNothing' /\ RefsCounted'
  BY <1>2, <1>3, <1>5, <1>6, <1>7
     DEF Control, Fresh, SlotShape, WatchShape, Hungry, Resuming, SleeperHasNothing,
         RefsCounted, WorkerHolds
<1>9. LoopShape'
  <2>1. lpc' = "pumped" => Taken(n) = n /\ n = Len(readBuf)
    <3>1. Len(readBuf) \in Nat
      BY LenProperties DEF TypeOK
    <3>. QED BY <1>1, <1>4, <3>1 DEF FrontRun
  <2>2. lpc' = "pumped" => readBuf' = <<>>
    BY <1>1, <1>4, <2>1, LenProperties, SubSeqEmpty DEF TypeOK
  <2>. QED BY <1>2, <1>5, <2>2 DEF Control, LoopShape, Hungry
<1>10. ChannelShape'
  BY <1>2, <1>3, <1>4, <1>6 DEF Control, ChannelShape, WorkerHolds, TypeOK
<1>11. Answered'
  BY <1>2, <1>6 DEF Control, Answered, WakeSent
<1>12. ParkShape'
  <2>1. CASE lpc' = "park"
    <3>1. stalled'
      BY <1>1, <1>3, <2>1
    <3>2. wpc \notin {"none", "gone"} \/ WakeSent
      BY <1>2 DEF Control, LoopShape, SlotShape, Answered
    <3>. QED BY <1>2, <1>6, <1>7, <3>1, <3>2 DEF ParkShape, WakePending, WakeSent, TypeOK
  <2>2. CASE lpc' # "park"
    BY <1>2, <1>3, <1>6, <2>2 DEF Control, ParkShape, WakePending
  <2>. QED BY <2>1, <2>2
<1>. QED BY <1>8, <1>9, <1>10, <1>11, <1>12 DEF Control

LEMMA PumpControl == TypeOK /\ Control /\ Pump => Control'
<1>. SUFFICES ASSUME TypeOK, Control, Pump PROVE Control'
  OBVIOUS
<1>1. CASE PumpFeeds
  BY <1>1, FeedControl
<1>. USE SizesAssumption
     DEF TypeOK, Control, Fresh, SlotShape, LoopShape, WatchShape, Hungry, Resuming,
         ChannelShape, WorkerHolds, Answered, WakeSent, ParkShape, WakePending,
         SleeperHasNothing, RefsCounted, peer, chan, conn, loop, worker
<1>2. CASE PumpFrame
  BY <1>2 DEF PumpFrame
<1>3. CASE PumpEnd
  BY <1>3 DEF PumpEnd
<1>4. CASE PumpJunk
  BY <1>4 DEF PumpJunk, Finish, Signalled
<1>5. CASE PumpDry
  BY <1>5 DEF PumpDry
<1>6. CASE BodyPark
  BY <1>6 DEF BodyPark
<1>7. CASE BodyEof
  BY <1>7 DEF BodyEof, Finish, Signalled
<1>8. CASE PumpReturns
  BY <1>8 DEF PumpReturns
<1>9. CASE PumpReads
  BY <1>9 DEF PumpReads
<1>10. CASE PumpResumes
  BY <1>10 DEF PumpResumes
<1>11. CASE PumpCannotResume
  BY <1>11 DEF PumpCannotResume, ConnClose, Finish, Signalled
<1>12. CASE Receives
  BY <1>12 DEF Receives
<1>13. CASE WouldBlock
  BY <1>13 DEF WouldBlock
<1>14. CASE PeerGone
  BY <1>14 DEF PeerGone, ConnClose, Finish, Signalled
<1>. QED
  BY <1>1, <1>2, <1>3, <1>4, <1>5, <1>6, <1>7, <1>8, <1>9, <1>10, <1>11, <1>12, <1>13, <1>14
     DEF Pump

\* A completion that is taken has a slot to go to or goes nowhere; no request
\* that is answered or closed is left in state "body".
LEMMA DrainControl == TypeOK /\ Control /\ Drain => Control'
<1>. SUFFICES ASSUME TypeOK, Control, Drain PROVE Control'
  OBVIOUS
<1>1. CASE DrainEarly
  <2>1. /\ ~parked' /\ ~watch' /\ readBuf' = <<>> /\ ~decoding' /\ ~bchan' /\ done' = {}
        /\ lpc' = "resume" /\ state' \in {"next", "closing"} /\ state = "body"
        /\ UNCHANGED <<caller, batch, wakeFd>>
    BY <1>1 DEF DrainEarly
  <2>2. /\ fault' /\ refs' = refs - 1 /\ UNCHANGED <<buf, eof, stalled>>
        /\ wpc' = IF wpc = "asleep" THEN "reading" ELSE wpc
    BY <1>1 DEF DrainEarly, Finish, Signalled
  <2>. QED
    BY <2>1, <2>2
       DEF TypeOK, Control, Fresh, SlotShape, LoopShape, WatchShape, Hungry, Resuming,
           ChannelShape, WorkerHolds, Answered, ParkShape, WakePending, SleeperHasNothing,
           RefsCounted
<1>2. CASE DrainAttaches
  <2>1. /\ ~bchan' /\ watch' /\ done' = {} /\ refs' = refs - 1
        /\ lpc' = "resume" /\ state' \in {"next", "closing"} /\ state = "handling"
        /\ UNCHANGED <<buf, eof, fault, stalled, decoding, readBuf, parked, caller, batch,
                       wakeFd, wpc>>
    BY <1>2 DEF DrainAttaches, worker
  <2>2. bchan /\ eof /\ ~decoding /\ ~parked
    BY <2>1 DEF Control, SlotShape
  <2>3. RefsCounted'
    BY <2>1, <2>2 DEF TypeOK, Control, RefsCounted, WorkerHolds
  <2>4. Fresh' /\ SlotShape' /\ LoopShape' /\ WatchShape'
    BY <2>1, <2>2
       DEF Control, Fresh, SlotShape, LoopShape, WatchShape, Hungry
  <2>5. ChannelShape' /\ Answered' /\ ParkShape' /\ SleeperHasNothing'
    BY <2>1, <2>2
       DEF Control, ChannelShape, WorkerHolds, Answered, ParkShape, SleeperHasNothing
  <2>. QED BY <2>3, <2>4, <2>5 DEF Control
<1>. USE SizesAssumption
     DEF TypeOK, Control, Fresh, SlotShape, LoopShape, WatchShape, Hungry, Resuming,
         ChannelShape, WorkerHolds, Answered, WakeSent, ParkShape, WakePending,
         SleeperHasNothing, RefsCounted, peer, chan, conn, loop, worker
<1>3. CASE DrainsNothing
  BY <1>3 DEF DrainsNothing
<1>4. CASE DrainDiscards
  BY <1>4 DEF DrainDiscards
<1>5. CASE DrainFails
  BY <1>5 DEF DrainFails, ConnClose, Finish, Signalled
<1>. QED BY <1>1, <1>2, <1>3, <1>4, <1>5 DEF Drain

LEMMA TickControl ==
  TypeOK /\ Control /\ (Tick \/ ServerCloses \/ OtherWakes) => Control'
<1>. SUFFICES ASSUME TypeOK, Control, Tick \/ ServerCloses \/ OtherWakes PROVE Control'
  OBVIOUS
<1>1. CASE Dispatch
  <2>1. /\ lpc = "dispatch" /\ lpc' = "pump" /\ state' = "body" /\ decoding' /\ bchan'
        /\ refs' = 2 /\ wpc' = "queued"
        /\ UNCHANGED <<buf, eof, fault, stalled, parked, watch, batch, wakeFd, done>>
    BY <1>1 DEF Dispatch
  <2>2. Fresh
    BY DEF Control
  <2>3. RefsCounted'
    BY <2>1 DEF RefsCounted, WorkerHolds
  <2>4. Fresh' /\ SlotShape' /\ LoopShape' /\ WatchShape'
    BY <2>1, <2>2 DEF Control, Fresh, SlotShape, LoopShape, WatchShape, Hungry
  <2>5. ChannelShape' /\ Answered' /\ ParkShape' /\ SleeperHasNothing'
    BY <2>1, <2>2
       DEF Control, Fresh, ChannelShape, WorkerHolds, Answered, ParkShape,
           SleeperHasNothing
  <2>. QED BY <2>3, <2>4, <2>5 DEF Control
<1>2. CASE Waits
  <2>1. /\ lpc = "wait" /\ lpc' = "event"
        /\ UNCHANGED <<buf, eof, fault, stalled, refs, state, decoding, readBuf, parked,
                       watch, bchan, caller, done, wpc>>
    BY <1>2 DEF Waits, chan, conn, worker
  <2>2. wakeFd => \E i \in 1..Len(batch') : batch'[i] = "wake"
    BY <1>2 DEF Waits, ReadyEvents
  <2>3. ~\E i \in 1..Len(batch) : batch[i] = "wake"
    BY <2>1 DEF Control, LoopShape
  <2>. QED
    BY <2>1, <2>2, <2>3
       DEF Control, Fresh, SlotShape, LoopShape, WatchShape, Hungry, Resuming, ChannelShape,
           WorkerHolds, Answered, WakeSent, ParkShape, WakePending, SleeperHasNothing,
           RefsCounted
<1>3. CASE HandlesRead
  <2>1. /\ lpc = "event" /\ lpc' \in {"pump", "event"} /\ (lpc' = "pump" => state = "body")
        /\ UNCHANGED <<buf, eof, fault, stalled, refs, state, decoding, readBuf, parked,
                       watch, bchan, wakeFd, done, wpc>>
    BY <1>3 DEF HandlesRead, chan, conn, worker
  <2>2. (\E i \in 1..Len(batch) : batch[i] = "wake")
          => \E i \in 1..Len(batch') : batch'[i] = "wake"
    <3>1. /\ batch \in Seq({"read", "wake"}) /\ batch # <<>>
          /\ Head(batch) # "wake" /\ batch' = Tail(batch)
      BY <1>3 DEF HandlesRead, TypeOK
    <3>. QED BY <3>1, TailKeeps
  <2>. QED
    BY <2>1, <2>2
       DEF Control, Fresh, SlotShape, LoopShape, WatchShape, Hungry, Resuming, ChannelShape,
           WorkerHolds, Answered, WakeSent, ParkShape, WakePending, SleeperHasNothing,
           RefsCounted
<1>. USE SizesAssumption
     DEF TypeOK, Control, Fresh, SlotShape, LoopShape, WatchShape, Hungry, Resuming,
         ChannelShape, WorkerHolds, Answered, WakeSent, ParkShape, WakePending,
         SleeperHasNothing, RefsCounted, peer, chan, conn, loop, worker
<1>4. CASE Sheds
  BY <1>4 DEF Sheds
<1>5. CASE HandlesWake
  BY <1>5 DEF HandlesWake
<1>6. CASE Resumes
  BY <1>6 DEF Resumes
<1>7. CASE ResumesNothing
  BY <1>7 DEF ResumesNothing
<1>8. CASE SweepPasses
  BY <1>8 DEF SweepPasses
<1>9. CASE Evicts
  BY <1>9 DEF Evicts, ConnClose, Finish, Signalled
<1>10. CASE HandlerTimeout
  BY <1>10 DEF HandlerTimeout
<1>11. CASE CloseEnds
  BY <1>11 DEF CloseEnds, ConnClose, Finish, Signalled
<1>12. CASE Joined
  BY <1>12 DEF Joined, ConnClose, Finish, Signalled
<1>13. CASE ServerCloses
  BY <1>13 DEF ServerCloses, Finish, Signalled
<1>14. CASE OtherWakes
  BY <1>14 DEF OtherWakes
<1>. QED
  BY <1>1, <1>2, <1>3, <1>4, <1>5, <1>6, <1>7, <1>8, <1>9, <1>10, <1>11, <1>12, <1>13, <1>14
     DEF Tick

-----------------------------------------------------------------------------
(* The theorems.                                                           *)

LEMMA Inductive == IInv /\ [NextStep]_vars => IInv'
<1>. SUFFICES ASSUME IInv, [NextStep]_vars PROVE IInv'
  OBVIOUS
<1>1. TypeOK /\ Control
  BY DEF IInv
<1>2. CASE NextStep
  <2>1. TypeOK'
    BY <1>1, <1>2, TypeStep
  <2>2. Control'
    BY <1>1, <1>2, PeerControl, WorkerControl, PumpControl, DrainControl, TickControl
       DEF NextStep, Loop
  <2>. QED BY <2>1, <2>2 DEF IInv
<1>3. CASE UNCHANGED vars
  <2>1. Control'
    BY <1>1, <1>3
       DEF vars, peer, chan, conn, loop, worker, Control, Fresh, SlotShape, LoopShape,
           WatchShape, Hungry, Resuming, ChannelShape, WorkerHolds, Answered, WakeSent,
           ParkShape, WakePending, SleeperHasNothing, RefsCounted
  <2>2. TypeOK'
    BY <1>1, <1>3 DEF vars, peer, chan, conn, loop, worker, TypeOK
  <2>. QED BY <2>1, <2>2 DEF IInv
<1>. QED BY <1>2, <1>3

LEMMA SpecIInv == Spec => []IInv
BY InitIInv, Inductive, PTL DEF Spec

\* Every variable keeps its type: the channel never holds more than its
\* capacity, the count of owed bytes never goes below zero.
THEOREM TypeCorrect == Spec => []TypeOK
<1>1. IInv => TypeOK
  BY DEF IInv
<1>. QED BY <1>1, SpecIInv, PTL

\* The two references of a channel are the slot's and the job's: release frees
\* it after its last use, and never before.
THEOREM ReferencesAreCounted == Spec => []RefsCounted
<1>1. IInv => RefsCounted
  BY DEF IInv, Control
<1>. QED BY <1>1, SpecIInv, PTL

\* No signal to a reader of the channel is lost.
THEOREM NoReaderOversleeps == Spec => []SleeperHasNothing
<1>1. IInv => SleeperHasNothing
  BY DEF IInv, Control
<1>. QED BY <1>1, SpecIInv, PTL

\* No parked connection is without a wakeup on its way or a reader that will
\* send one.
THEOREM NoParkIsForgotten == Spec => []ParkedIsResumed
<1>1. IInv => ParkedIsResumed
  BY DEF IInv, Control, ParkShape, ParkedIsResumed
<1>. QED BY <1>1, SpecIInv, PTL

\* While the loop waits, a socket is watched exactly when its bytes are wanted.
THEOREM WatchFollowsHunger == Spec => []WatchedIffHungry
<1>1. IInv => WatchedIffHungry
  BY DEF IInv, Control, WatchShape, Resuming, WatchedIffHungry
<1>. QED BY <1>1, SpecIInv, PTL

\* The loop never waits for the peer with a byte in hand that the sleeping
\* reader wants, nor with its watch off.
THEOREM LoopAndReaderNeverStuck == Spec => []NotBothWaiting
<1>1. ASSUME IInv, wpc = "asleep", lpc = "wait", ~WakePending
      PROVE  watch /\ state = "body" /\ readBuf = <<>>
  <2>1. ~eof /\ ~fault
    BY <1>1 DEF IInv, Control, SleeperHasNothing
  <2>2. bchan
    BY <1>1, <2>1 DEF IInv, Control, ChannelShape, WorkerHolds
  <2>3. state = "body" /\ decoding
    BY <2>1, <2>2, <1>1 DEF IInv, Control, SlotShape
  <2>4. ~parked
    BY <1>1 DEF IInv, Control, ParkShape
  <2>. QED BY <1>1, <2>3, <2>4 DEF IInv, Control, WatchShape, Resuming, LoopShape, Hungry
<1>2. IInv => NotBothWaiting
  BY <1>1 DEF NotBothWaiting
<1>. QED BY <1>2, SpecIInv, PTL

-----------------------------------------------------------------------------
(* The account of the bytes: what the handler has, what the channel holds,  *)
(* what the loop has read and not decoded, and what is on the wire are the  *)
(* bytes the peer has sent, in order.                                       *)

\* What lies before the decoder.
Ahead == readBuf \o wire

\* The bytes that were fed to the channel.
Fed == Len(got) + Len(buf)

\* s is what comes after the first f bytes of m that were sent: each byte once and in order,
\* and what ends the body behind the last of them.
Stream(s, f, m, over, plain) ==
  /\ \A i, j \in 1..Len(s) : i < j /\ s[i] \in Byte /\ s[j] \in Byte => s[i] < s[j]
  /\ \A i \in 1..Len(s) : s[i] \in Byte =>
       s[i] > f /\ s[i] <= m /\ \A k \in f + 1..s[i] : \E j \in 1..i : s[j] = k
  /\ \A i \in 1..Len(s) : s[i] \in {End, Pipelined} =>
       /\ over /\ \A k \in f + 1..m : \E j \in 1..i - 1 : s[j] = k
       /\ \A j \in i + 1..Len(s) : s[j] = Pipelined
  /\ plain => \A i \in 1..Len(s) : s[i] \in Byte \/ s[i] = Pipelined

\* None of them is missing.
Arrived(s, f, m) == \A k \in f + 1..m : \E j \in 1..Len(s) : s[j] = k

\* A set of natural numbers has a least one.
LEMMA Least ==
  ASSUME NEW S \in SUBSET Nat, S # {}
  PROVE  \E i \in S : \A j \in S : i <= j
<1>. DEFINE R == {ss \in Nat \X Nat : ss[1] < ss[2]}
<1>1. IsWellFoundedOn(R, Nat)
  BY NatLessThanWellFounded DEF OpToRel
<1>. HIDE DEF R
<1>2. PICK i \in S : \A j \in S : ~(<<j, i>> \in R)
  BY <1>1, WFMin
<1>3. \A j \in S : ~(j < i)
  BY <1>2 DEF R
<1>. QED BY <1>3

LEMMA MarksDiffer ==
  /\ Frame # Junk /\ Frame # End /\ Frame # Pipelined
  /\ Junk # End /\ Junk # Pipelined /\ End # Pipelined
  /\ \A e \in Marks : e \notin Byte
<1>. DEFINE A == {Frame}
            B == A \union {Junk}
            C == B \union {End}
            D == C \union {Pipelined}
<1>1. IsFiniteSet({}) /\ Cardinality({}) = 0
  BY FS_EmptySet
<1>2. A = {} \union {Frame}
  OBVIOUS
<1>3. IsFiniteSet(A) /\ Cardinality(A) = 1
  BY <1>1, <1>2, FS_AddElement
<1>. HIDE DEF A
<1>4. IsFiniteSet(B) /\ Cardinality(B) = IF Junk \in A THEN 1 ELSE 2
  BY <1>3, FS_AddElement
<1>. HIDE DEF B
<1>5. IsFiniteSet(C) /\ Cardinality(C) = IF End \in B THEN Cardinality(B) ELSE Cardinality(B) + 1
  BY <1>4, FS_AddElement
<1>. HIDE DEF C
<1>6. Cardinality(D) = IF Pipelined \in C THEN Cardinality(C) ELSE Cardinality(C) + 1
  BY <1>5, FS_AddElement
<1>7. D = Marks
  BY DEF A, B, C, Marks
<1>8. Cardinality(D) = 4
  BY <1>7, MarksAssumption
<1>. HIDE DEF D
<1>9. Junk \notin A /\ End \notin B /\ Pipelined \notin C
  BY <1>4, <1>5, <1>6, <1>8
<1>10. \A e \in Marks : e \notin Byte
  BY MarksAssumption, SizesAssumption DEF Byte
<1>. QED BY <1>9, <1>10 DEF A, B, C

\* The decoder takes t elements off the front, and has fed g bytes then.
LEMMA StreamDrops ==
  ASSUME NEW s \in Seq(Elements), NEW u \in Seq(Elements), NEW f \in Nat, NEW g \in Nat,
         NEW m \in 0..Total, NEW over, NEW plain, NEW t \in 0..Len(s), f <= g,
         Stream(s, f, m, over, plain),
         Len(u) = Len(s) - t, \A i \in 1..Len(u) : u[i] = s[i + t],
         \A i \in 1..t : s[i] \in Byte => s[i] <= g,
         \A i \in t + 1..Len(s) : s[i] \in Byte => s[i] > g
  PROVE  Stream(u, g, m, over, plain) /\ (Arrived(s, f, m) => Arrived(u, g, m))
<1>. USE SizesAssumption
<1>1. Len(s) \in Nat /\ \A i \in 1..Len(u) : i + t \in t + 1..Len(s)
  BY LenProperties
<1>2. \A k \in g + 1..m, i \in 1..Len(u) : \A j \in 1..i + t :
        s[j] = k => j - t \in 1..i /\ u[j - t] = s[j]
  <2>1. SUFFICES ASSUME NEW k \in g + 1..m, NEW i \in 1..Len(u), NEW j \in 1..i + t, s[j] = k
                 PROVE  j - t \in 1..i /\ u[j - t] = s[j]
    OBVIOUS
  <2>2. k \in Byte /\ k > g
    BY DEF Byte
  <2>3. j > t
    BY <2>1, <2>2
  <2>4. j - t \in 1..i /\ j - t \in 1..Len(u) /\ (j - t) + t = j
    BY <1>1, <2>3
  <2>. QED BY <2>4
<1>3. \A i, j \in 1..Len(u) : i < j /\ u[i] \in Byte /\ u[j] \in Byte => u[i] < u[j]
  <2>1. \A i, j \in 1..Len(u) : i < j => i + t < j + t /\ i + t \in 1..Len(s) /\ j + t \in 1..Len(s)
    BY <1>1
  <2>. QED BY <2>1 DEF Stream
<1>4. \A i \in 1..Len(u) : u[i] \in Byte =>
        u[i] > g /\ u[i] <= m /\ \A k \in g + 1..u[i] : \E j \in 1..i : u[j] = k
  <2>1. SUFFICES ASSUME NEW i \in 1..Len(u), u[i] \in Byte
                 PROVE  u[i] > g /\ u[i] <= m /\ \A k \in g + 1..u[i] : \E j \in 1..i : u[j] = k
    OBVIOUS
  <2>2. i + t \in 1..Len(s) /\ i + t \in t + 1..Len(s) /\ u[i] = s[i + t]
    BY <1>1
  <2>3. u[i] > g /\ u[i] <= m /\ u[i] \in Nat
    BY <2>1, <2>2 DEF Stream, Byte
  <2>4. ASSUME NEW k \in g + 1..u[i] PROVE \E j \in 1..i : u[j] = k
    <3>1. k \in f + 1..s[i + t] /\ k \in g + 1..m
      BY <2>2, <2>3, <2>4
    <3>2. PICK j \in 1..i + t : s[j] = k
      BY <2>1, <2>2, <3>1 DEF Stream
    <3>. QED BY <1>2, <3>1, <3>2
  <2>. QED BY <2>3, <2>4
<1>5. \A i \in 1..Len(u) : u[i] \in {End, Pipelined} =>
        /\ over /\ \A k \in g + 1..m : \E j \in 1..i - 1 : u[j] = k
        /\ \A j \in i + 1..Len(u) : u[j] = Pipelined
  <2>1. SUFFICES ASSUME NEW i \in 1..Len(u), u[i] \in {End, Pipelined}
                 PROVE  /\ over /\ \A k \in g + 1..m : \E j \in 1..i - 1 : u[j] = k
                        /\ \A j \in i + 1..Len(u) : u[j] = Pipelined
    OBVIOUS
  <2>2. i + t \in 1..Len(s) /\ u[i] = s[i + t]
    BY <1>1
  <2>3. /\ over /\ \A k \in f + 1..m : \E j \in 1..(i + t) - 1 : s[j] = k
        /\ \A j \in (i + t) + 1..Len(s) : s[j] = Pipelined
    BY <2>1, <2>2 DEF Stream
  <2>4. ASSUME NEW k \in g + 1..m PROVE \E j \in 1..i - 1 : u[j] = k
    <3>0. k \in f + 1..m
      BY <2>4
    <3>1. PICK j \in 1..(i + t) - 1 : s[j] = k
      BY <2>3, <3>0
    <3>2. j \in 1..i + t /\ s[i + t] # k
      <4>1. k \in Byte /\ s[i + t] \in Marks
        BY <2>1, <2>2, <2>4 DEF Byte, Marks
      <4>. QED BY <4>1, MarksDiffer
    <3>3. j - t \in 1..i /\ u[j - t] = k
      BY <1>2, <2>4, <3>1, <3>2
    <3>4. j - t # i
      BY <3>1
    <3>. QED BY <3>3, <3>4
  <2>5. ASSUME NEW j \in i + 1..Len(u) PROVE u[j] = Pipelined
    <3>1. j \in 1..Len(u) /\ j + t \in (i + t) + 1..Len(s)
      BY <1>1, <2>5
    <3>. QED BY <2>3, <3>1
  <2>. QED BY <2>3, <2>4, <2>5
<1>6. plain => \A i \in 1..Len(u) : u[i] \in Byte \/ u[i] = Pipelined
  <2>1. \A i \in 1..Len(u) : i + t \in 1..Len(s)
    BY <1>1
  <2>. QED BY <2>1 DEF Stream
<1>7. ASSUME Arrived(s, f, m) PROVE Arrived(u, g, m)
  <2>1. SUFFICES ASSUME NEW k \in g + 1..m PROVE \E j \in 1..Len(u) : u[j] = k
    BY DEF Arrived
  <2>2. PICK j \in 1..Len(s) : s[j] = k
    BY <1>7 DEF Arrived
  <2>3. k \in Byte /\ k > g
    BY DEF Byte
  <2>4. j > t
    BY <2>2, <2>3
  <2>5. j - t \in 1..Len(u) /\ (j - t) + t = j
    BY <1>1, <2>4
  <2>. QED BY <2>2, <2>5
<1>. QED BY <1>3, <1>4, <1>5, <1>6, <1>7 DEF Stream

\* The connection is reset: what was on the wire is lost.
LEMMA StreamIsCut ==
  ASSUME NEW s \in Seq(Elements), NEW u \in Seq(Elements), NEW f \in Nat, NEW m \in 0..Total,
         NEW over, NEW plain, Stream(s, f, m, over, plain),
         Len(u) <= Len(s), \A i \in 1..Len(u) : u[i] = s[i]
  PROVE  Stream(u, f, m, over, plain)
<1>1. Len(s) \in Nat /\ Len(u) \in Nat /\ \A i \in 1..Len(u) : i \in 1..Len(s)
  BY LenProperties
<1>2. \A i, j \in 1..Len(u) : i < j /\ u[i] \in Byte /\ u[j] \in Byte => u[i] < u[j]
  BY <1>1 DEF Stream
<1>3. \A i \in 1..Len(u) : u[i] \in Byte =>
        u[i] > f /\ u[i] <= m /\ \A k \in f + 1..u[i] : \E j \in 1..i : u[j] = k
  <2>1. SUFFICES ASSUME NEW i \in 1..Len(u), u[i] \in Byte
                 PROVE  u[i] > f /\ u[i] <= m /\ \A k \in f + 1..u[i] : \E j \in 1..i : u[j] = k
    OBVIOUS
  <2>2. s[i] > f /\ s[i] <= m /\ \A k \in f + 1..s[i] : \E j \in 1..i : s[j] = k
    BY <1>1, <2>1 DEF Stream
  <2>3. \A j \in 1..i : j \in 1..Len(u)
    BY <1>1
  <2>. QED BY <2>2, <2>3
<1>4. \A i \in 1..Len(u) : u[i] \in {End, Pipelined} =>
        /\ over /\ \A k \in f + 1..m : \E j \in 1..i - 1 : u[j] = k
        /\ \A j \in i + 1..Len(u) : u[j] = Pipelined
  <2>1. SUFFICES ASSUME NEW i \in 1..Len(u), u[i] \in {End, Pipelined}
                 PROVE  /\ over /\ \A k \in f + 1..m : \E j \in 1..i - 1 : u[j] = k
                        /\ \A j \in i + 1..Len(u) : u[j] = Pipelined
    OBVIOUS
  <2>2. /\ over /\ \A k \in f + 1..m : \E j \in 1..i - 1 : s[j] = k
        /\ \A j \in i + 1..Len(s) : s[j] = Pipelined
    BY <1>1, <2>1 DEF Stream
  <2>3. /\ \A j \in 1..i - 1 : j \in 1..Len(u)
        /\ \A j \in i + 1..Len(u) : j \in 1..Len(u) /\ j \in i + 1..Len(s)
    BY <1>1
  <2>. QED BY <2>2, <2>3
<1>5. plain => \A i \in 1..Len(u) : u[i] \in Byte \/ u[i] = Pipelined
  BY <1>1 DEF Stream
<1>. QED BY <1>2, <1>3, <1>4, <1>5 DEF Stream

\* The peer sends the next byte,
LEMMA StreamGetsByte ==
  ASSUME NEW s \in Seq(Elements), NEW u \in Seq(Elements), NEW f \in Nat, NEW m \in 0..Total,
         NEW over, NEW plain, f <= m, m < Total,
         Stream(s, f, m, FALSE, plain), Arrived(s, f, m),
         Len(u) = Len(s) + 1, \A i \in 1..Len(s) : u[i] = s[i], u[Len(s) + 1] = m + 1
  PROVE  Stream(u, f, m + 1, over, plain) /\ Arrived(u, f, m + 1)
<1>. USE SizesAssumption
<1>. DEFINE n == Len(s) + 1
<1>1. Len(s) \in Nat /\ n \in 1..Len(u) /\ \A i \in 1..Len(u) : i \in 1..Len(s) \/ i = n
  BY LenProperties
<1>2. m + 1 \in Byte /\ u[n] = m + 1
  BY DEF Byte
<1>3. \A i \in 1..Len(s) : u[i] = s[i] /\ i \in 1..Len(u) /\ i < n /\ s[i] \notin {End, Pipelined}
  BY <1>1 DEF Stream
<1>4. \A i \in 1..Len(s) : s[i] \in Byte => s[i] > f /\ s[i] <= m /\ s[i] < m + 1
  BY DEF Stream, Byte
<1>5. \A k \in f + 1..m : \E j \in 1..Len(s) : s[j] = k
  BY DEF Arrived
<1>. HIDE DEF n
<1>6. \A i, j \in 1..Len(u) : i < j /\ u[i] \in Byte /\ u[j] \in Byte => u[i] < u[j]
  <2>1. SUFFICES ASSUME NEW i \in 1..Len(u), NEW j \in 1..Len(u), i < j,
                        u[i] \in Byte, u[j] \in Byte
                 PROVE  u[i] < u[j]
    OBVIOUS
  <2>2. i \in 1..Len(s)
    BY <1>1, <2>1 DEF n
  <2>3. CASE j \in 1..Len(s)
    BY <1>3, <2>1, <2>2, <2>3 DEF Stream
  <2>4. CASE j = n
    BY <1>2, <1>3, <1>4, <2>1, <2>2, <2>4
  <2>. QED BY <1>1, <2>3, <2>4
<1>7. \A k \in f + 1..m + 1 : \E j \in 1..Len(u) : u[j] = k
  <2>1. SUFFICES ASSUME NEW k \in f + 1..m + 1 PROVE \E j \in 1..Len(u) : u[j] = k
    OBVIOUS
  <2>2. CASE k = m + 1
    BY <1>1, <1>2, <2>2
  <2>3. CASE k # m + 1
    <3>1. k \in f + 1..m
      BY <2>3
    <3>. QED BY <1>3, <1>5, <3>1
  <2>. QED BY <2>2, <2>3
<1>8. \A i \in 1..Len(u) : u[i] \in Byte =>
        u[i] > f /\ u[i] <= m + 1 /\ \A k \in f + 1..u[i] : \E j \in 1..i : u[j] = k
  <2>1. SUFFICES ASSUME NEW i \in 1..Len(u), u[i] \in Byte
                 PROVE  u[i] > f /\ u[i] <= m + 1 /\ \A k \in f + 1..u[i] : \E j \in 1..i : u[j] = k
    OBVIOUS
  <2>2. CASE i = n
    <3>1. 1..Len(u) = 1..n
      BY <1>1 DEF n
    <3>. QED BY <1>2, <1>7, <2>2, <3>1
  <2>3. CASE i \in 1..Len(s)
    <3>1. s[i] > f /\ s[i] <= m /\ \A k \in f + 1..s[i] : \E j \in 1..i : s[j] = k
      BY <1>3, <2>1, <2>3 DEF Stream
    <3>2. \A j \in 1..i : j \in 1..Len(s)
      BY <1>1, <2>3
    <3>3. u[i] = s[i] /\ s[i] \in Nat
      BY <1>3, <2>1, <2>3 DEF Byte
    <3>. QED BY <1>3, <3>1, <3>2, <3>3
  <2>. QED BY <1>1, <2>2, <2>3
<1>9. \A i \in 1..Len(u) : u[i] \notin {End, Pipelined}
  <2>1. u[n] \notin Marks
    BY <1>2, MarksDiffer
  <2>. QED BY <1>1, <1>3, <2>1 DEF Marks
<1>10. plain => \A i \in 1..Len(u) : u[i] \in Byte \/ u[i] = Pipelined
  BY <1>1, <1>2, <1>3 DEF Stream
<1>. QED BY <1>6, <1>7, <1>8, <1>9, <1>10 DEF Stream, Arrived

\* or what is between and behind them.
LEMMA StreamGetsMark ==
  ASSUME NEW s \in Seq(Elements), NEW u \in Seq(Elements), NEW f \in Nat, NEW m \in 0..Total,
         NEW over, NEW then, NEW plain, over => then,
         Stream(s, f, m, over, plain), Arrived(s, f, m), NEW e \in Marks,
         e # Pipelined => ~over /\ ~plain, e \in {End, Pipelined} => then,
         Len(u) = Len(s) + 1, \A i \in 1..Len(s) : u[i] = s[i], u[Len(s) + 1] = e
  PROVE  Stream(u, f, m, then, plain) /\ Arrived(u, f, m)
<1>. USE SizesAssumption
<1>. DEFINE n == Len(s) + 1
<1>1. Len(s) \in Nat /\ n \in 1..Len(u) /\ \A i \in 1..Len(u) : i \in 1..Len(s) \/ i = n
  BY LenProperties
<1>2. u[n] = e /\ e \notin Byte
  BY MarksDiffer
<1>3. \A i \in 1..Len(s) : u[i] = s[i] /\ i \in 1..Len(u) /\ i < n
  BY <1>1
<1>4. Len(u) = n /\ n \in Nat
  BY <1>1
<1>. HIDE DEF n
<1>5. \A k \in f + 1..m : \E j \in 1..n - 1 : u[j] = k
  <2>1. 1..n - 1 = 1..Len(s)
    BY <1>1 DEF n
  <2>. QED BY <1>3, <2>1 DEF Arrived
<1>6. \A i, j \in 1..Len(u) : i < j /\ u[i] \in Byte /\ u[j] \in Byte => u[i] < u[j]
  <2>1. \A i \in 1..Len(u) : u[i] \in Byte => i \in 1..Len(s)
    BY <1>1, <1>2
  <2>. QED BY <1>3, <2>1 DEF Stream
<1>7. \A i \in 1..Len(u) : u[i] \in Byte =>
        u[i] > f /\ u[i] <= m /\ \A k \in f + 1..u[i] : \E j \in 1..i : u[j] = k
  <2>1. SUFFICES ASSUME NEW i \in 1..Len(u), u[i] \in Byte
                 PROVE  u[i] > f /\ u[i] <= m /\ \A k \in f + 1..u[i] : \E j \in 1..i : u[j] = k
    OBVIOUS
  <2>2. i \in 1..Len(s)
    BY <1>1, <1>2, <2>1
  <2>3. s[i] > f /\ s[i] <= m /\ \A k \in f + 1..s[i] : \E j \in 1..i : s[j] = k
    BY <1>3, <2>1, <2>2 DEF Stream
  <2>4. \A j \in 1..i : j \in 1..Len(s)
    BY <1>1, <2>2
  <2>5. u[i] = s[i]
    BY <2>2
  <2>. QED BY <1>3, <2>3, <2>4, <2>5
<1>8. \A i \in 1..Len(u) : u[i] \in {End, Pipelined} =>
        /\ then /\ \A k \in f + 1..m : \E j \in 1..i - 1 : u[j] = k
        /\ \A j \in i + 1..Len(u) : u[j] = Pipelined
  <2>1. SUFFICES ASSUME NEW i \in 1..Len(u), u[i] \in {End, Pipelined}
                 PROVE  /\ then /\ \A k \in f + 1..m : \E j \in 1..i - 1 : u[j] = k
                        /\ \A j \in i + 1..Len(u) : u[j] = Pipelined
    OBVIOUS
  <2>2. CASE i = n
    <3>1. then
      BY <1>2, <2>1, <2>2
    <3>2. i + 1..Len(u) = {}
      BY <1>4, <2>2
    <3>. QED BY <1>5, <2>2, <3>1, <3>2
  <2>3. CASE i \in 1..Len(s)
    <3>1. /\ over /\ \A k \in f + 1..m : \E j \in 1..i - 1 : s[j] = k
          /\ \A j \in i + 1..Len(s) : s[j] = Pipelined
      BY <1>3, <2>1, <2>3 DEF Stream
    <3>2. \A k \in f + 1..m : \E j \in 1..i - 1 : u[j] = k
      <4>1. \A j \in 1..i - 1 : j \in 1..Len(s)
        BY <1>1, <2>3
      <4>. QED BY <1>3, <3>1, <4>1
    <3>3. \A j \in i + 1..Len(u) : u[j] = Pipelined
      <4>1. \A j \in i + 1..Len(u) : (j \in i + 1..Len(s) /\ j \in 1..Len(s)) \/ j = n
        BY <1>1, <1>4, <2>3 DEF n
      <4>2. e = Pipelined
        BY <3>1
      <4>. QED BY <1>2, <1>3, <3>1, <4>1, <4>2
    <3>. QED BY <3>1, <3>2, <3>3
  <2>. QED BY <1>1, <2>2, <2>3
<1>9. plain => \A i \in 1..Len(u) : u[i] \in Byte \/ u[i] = Pipelined
  BY <1>1, <1>2, <1>3 DEF Stream
<1>10. Arrived(u, f, m)
  <2>1. \A j \in 1..n - 1 : j \in 1..Len(u)
    BY <1>4
  <2>. QED BY <1>5, <2>1 DEF Arrived
<1>. QED BY <1>6, <1>7, <1>8, <1>9, <1>10 DEF Stream

\* A run of bytes at the front is the next ones, whatever the framing was; so are as many
\* elements as a Content-Length has left.
LEMMA FrontIsNext ==
  ASSUME NEW s \in Seq(Elements), NEW f \in Nat, NEW m \in 0..Total,
         NEW over, NEW plain,
         Stream(s, f, m, over, plain), NEW n \in 1..Len(s),
         over => m = Total, plain => n <= Total - f, ~plain => \A i \in 1..n : s[i] \in Byte
  PROVE  \A i \in 1..n : s[i] = f + i
<1>. USE SizesAssumption
<1>1. SUFFICES ASSUME \E i \in 1..n : s[i] # f + i PROVE FALSE
  OBVIOUS
<1>2. Len(s) \in Nat /\ n \in Nat /\ \A i \in 1..n : i \in 1..Len(s) /\ i \in Nat
  BY LenProperties
<1>. DEFINE bad == {i \in 1..n : s[i] # f + i}
<1>3. PICK i \in 1..n : s[i] # f + i /\ \A j \in bad : i <= j
  <2>1. bad \in SUBSET Nat /\ bad # {}
    BY <1>1, <1>2
  <2>2. PICK i \in bad : \A j \in bad : i <= j
    BY <2>1, Least
  <2>. QED BY <2>2
<1>4. \A j \in 1..i - 1 : s[j] = f + j
  <2>1. SUFFICES ASSUME NEW j \in 1..i - 1, s[j] # f + j PROVE FALSE
    OBVIOUS
  <2>2. i \in Nat /\ j \in Nat /\ j \in 1..n /\ ~(i <= j)
    BY <1>2
  <2>3. j \in bad
    BY <2>1, <2>2
  <2>. QED BY <1>3, <2>2, <2>3
<1>. HIDE DEF bad
<1>5. ~\E j \in 1..i - 1 : s[j] = f + i
  BY <1>2, <1>4
<1>6. CASE s[i] \in Byte
  <2>1. s[i] > f /\ s[i] <= m /\ s[i] \in Nat /\ \A k \in f + 1..s[i] : \E j \in 1..i : s[j] = k
    BY <1>2, <1>6 DEF Stream, Byte
  <2>2. CASE s[i] > f + i
    <3>1. f + i \in f + 1..s[i]
      BY <1>2, <2>1, <2>2
    <3>2. PICK j \in 1..i : s[j] = f + i
      BY <2>1, <3>1
    <3>3. j \in 1..i - 1
      BY <1>2, <1>3, <3>2
    <3>. QED BY <1>5, <3>2, <3>3
  <2>3. CASE s[i] < f + i
    <3>. DEFINE j == s[i] - f
    <3>1. j \in 1..i - 1 /\ j < i /\ j \in 1..Len(s) /\ f + j = s[i]
      BY <1>2, <2>1, <2>3
    <3>2. s[j] = s[i]
      BY <1>4, <3>1
    <3>3. s[j] < s[i]
      BY <1>2, <1>6, <3>1, <3>2 DEF Stream
    <3>. QED BY <2>1, <3>2, <3>3
  <2>4. s[i] # f + i /\ s[i] \in Nat /\ f + i \in Nat
    BY <1>2, <1>3, <2>1
  <2>5. s[i] > f + i \/ s[i] < f + i
    BY <2>4
  <2>. QED BY <2>2, <2>3, <2>5
<1>7. CASE s[i] \notin Byte
  <2>1. plain /\ (over => m = Total) /\ n <= Total - f
    BY <1>7
  <2>2. s[i] = Pipelined
    BY <1>2, <1>7, <2>1 DEF Stream
  <2>3. over /\ \A k \in f + 1..m : \E j \in 1..i - 1 : s[j] = k
    BY <1>2, <2>2 DEF Stream
  <2>4. f + i \in f + 1..m
    BY <1>2, <2>1, <2>3
  <2>. QED BY <1>5, <2>3, <2>4
<1>. QED BY <1>6, <1>7

-----------------------------------------------------------------------------
(* The bytes in the system.                                                *)

\* Nothing but the next request is before the decoder.
Spent == Ended /\ \A i \in 1..Len(Ahead) : Ahead[i] = Pipelined

Delivered ==
  /\ \A i \in 1..Len(got) : got[i] = i
  /\ \A i \in 1..Len(buf) : buf[i] = Len(got) + i
  /\ Fed <= sent /\ (Ended => sent = Total)
  /\ lpc = "dispatch" => Fed = 0

\* While the body is decoded, what is before the decoder goes on where the channel ends.
Coming ==
  decoding \/ lpc = "dispatch" =>
    /\ Stream(Ahead, Fed, sent, Ended, ~chunked)
    /\ ~hup => Arrived(Ahead, Fed, sent)
    /\ ~chunked /\ decoding => remaining = Total - Fed

\* The end of the body is where its last byte is, and the handler sees it after that.
Finished ==
  /\ lpc = "eof" \/ eof => Fed = Total
  /\ eof => state \notin {"reading", "body"}
  /\ lpc = "eof" \/ state \in {"handling", "next"} => Spent
  /\ drained => eof /\ buf = <<>>
  /\ TRUE \in done => drained

Bytes == Delivered /\ Coming /\ Finished

LEMMA BytesArrive == TypeOK /\ Bytes => BytesInOrder /\ KeptIsClean
<1>. SUFFICES ASSUME TypeOK, Bytes PROVE BytesInOrder /\ KeptIsClean
  OBVIOUS
<1>1. got \in Seq(Elements) /\ buf \in Seq(Elements) /\ readBuf \in Seq(Elements)
      /\ wire \in Seq(Elements)
  BY DEF TypeOK
<1>2. /\ Len(got \o buf) = Len(got) + Len(buf) /\ Len(got) \in Nat /\ Len(buf) \in Nat
      /\ \A i \in 1..Len(got) + Len(buf) :
           (got \o buf)[i] = IF i <= Len(got) THEN got[i] ELSE buf[i - Len(got)]
  BY <1>1, ConcatProperties, LenProperties
<1>3. \A i \in 1..Len(got \o buf) : (got \o buf)[i] = i
  <2>1. SUFFICES ASSUME NEW i \in 1..Len(got) + Len(buf) PROVE (got \o buf)[i] = i
    BY <1>2
  <2>2. CASE i <= Len(got)
    <3>1. i \in 1..Len(got)
      BY <1>2, <2>2
    <3>. QED BY <1>2, <2>2, <3>1 DEF Bytes, Delivered
  <2>3. CASE ~(i <= Len(got))
    <3>1. i - Len(got) \in 1..Len(buf)
      BY <1>2, <2>3
    <3>2. buf[i - Len(got)] = Len(got) + (i - Len(got))
      BY <3>1 DEF Bytes, Delivered
    <3>. QED BY <1>2, <2>3, <3>2
  <2>. QED BY <2>2, <2>3
<1>4. drained => Len(got) = Total
  <2>1. drained => eof /\ buf = <<>> /\ Fed = Total
    BY DEF Bytes, Finished
  <2>2. buf = <<>> => Len(buf) = 0
    OBVIOUS
  <2>. QED BY <1>2, <2>1, <2>2 DEF Fed
<1>5. KeptIsClean
  <2>1. SUFFICES ASSUME state = "next"
                 PROVE  /\ Ended
                        /\ \A i \in 1..Len(readBuf) : readBuf[i] = Pipelined
                        /\ \A i \in 1..Len(wire) : wire[i] = Pipelined
    BY DEF KeptIsClean
  <2>2. Ended /\ \A i \in 1..Len(Ahead) : Ahead[i] = Pipelined
    BY <2>1 DEF Bytes, Finished, Spent
  <2>3. /\ Len(Ahead) = Len(readBuf) + Len(wire) /\ Len(readBuf) \in Nat /\ Len(wire) \in Nat
        /\ \A i \in 1..Len(readBuf) + Len(wire) :
             Ahead[i] = IF i <= Len(readBuf) THEN readBuf[i] ELSE wire[i - Len(readBuf)]
    BY <1>1, ConcatProperties, LenProperties DEF Ahead
  <2>4. ASSUME NEW i \in 1..Len(readBuf) PROVE readBuf[i] = Pipelined
    <3>1. i \in 1..Len(Ahead) /\ i <= Len(readBuf)
      BY <2>3
    <3>. QED BY <2>2, <2>3, <3>1
  <2>5. ASSUME NEW i \in 1..Len(wire) PROVE wire[i] = Pipelined
    <3>1. /\ i + Len(readBuf) \in 1..Len(Ahead) /\ ~(i + Len(readBuf) <= Len(readBuf))
          /\ (i + Len(readBuf)) - Len(readBuf) = i
      BY <2>3
    <3>. QED BY <2>2, <2>3, <3>1
  <2>. QED BY <2>2, <2>4, <2>5
<1>. QED BY <1>3, <1>4, <1>5 DEF BytesInOrder

\* What lies before the decoder, element by element.
LEMMA AheadFacts ==
  ASSUME NEW a \in Seq(Elements), NEW b \in Seq(Elements)
  PROVE  /\ a \o b \in Seq(Elements) /\ Len(a \o b) = Len(a) + Len(b)
         /\ Len(a) \in Nat /\ Len(b) \in Nat
         /\ \A i \in 1..Len(a) : (a \o b)[i] = a[i]
         /\ \A i \in 1..Len(b) : (a \o b)[Len(a) + i] = b[i]
<1>1. /\ a \o b \in Seq(Elements) /\ Len(a \o b) = Len(a) + Len(b)
      /\ Len(a) \in Nat /\ Len(b) \in Nat
      /\ \A i \in 1..Len(a) + Len(b) : (a \o b)[i] = IF i <= Len(a) THEN a[i] ELSE b[i - Len(a)]
  BY ConcatProperties, LenProperties
<1>2. \A i \in 1..Len(a) : i \in 1..Len(a) + Len(b) /\ i <= Len(a)
  BY <1>1
<1>3. \A i \in 1..Len(b) : /\ Len(a) + i \in 1..Len(a) + Len(b) /\ ~(Len(a) + i <= Len(a))
                           /\ (Len(a) + i) - Len(a) = i
  BY <1>1
<1>. QED BY <1>1, <1>2, <1>3

\* Elements of the wire that move into the read buffer stay where they are.
LEMMA AheadMoves ==
  ASSUME NEW a \in Seq(Elements), NEW b \in Seq(Elements), NEW k \in 0..Len(b)
  PROVE  (a \o SubSeq(b, 1, k)) \o SubSeq(b, k + 1, Len(b)) = a \o b
<1>. DEFINE p == SubSeq(b, 1, k)
            q == SubSeq(b, k + 1, Len(b))
<1>1. /\ p \in Seq(Elements) /\ q \in Seq(Elements) /\ Len(p) = k /\ Len(q) = Len(b) - k
      /\ Len(b) \in Nat /\ k \in Nat
  BY Parts, LenProperties
<1>2. \A i \in 1..k : p[i] = b[i]
  BY <1>1
<1>3. \A i \in 1..Len(b) - k : q[i] = b[k + i]
  BY <1>1
<1>. HIDE DEF p, q
<1>4. p \o q = b
  <2>1. /\ p \o q \in Seq(Elements) /\ Len(p \o q) = Len(b)
        /\ \A i \in 1..k : (p \o q)[i] = p[i]
        /\ \A i \in 1..Len(b) - k : (p \o q)[k + i] = q[i]
    BY <1>1, AheadFacts
  <2>2. \A i \in 1..Len(b) : (p \o q)[i] = b[i]
    <3>1. SUFFICES ASSUME NEW i \in 1..Len(b) PROVE (p \o q)[i] = b[i]
      OBVIOUS
    <3>2. CASE i <= k
      <4>1. i \in 1..k
        BY <1>1, <3>2
      <4>. QED BY <1>2, <2>1, <4>1
    <3>3. CASE ~(i <= k)
      <4>1. i - k \in 1..Len(b) - k /\ k + (i - k) = i
        BY <1>1, <3>3
      <4>. QED BY <1>3, <2>1, <4>1
    <3>. QED BY <3>2, <3>3
  <2>. QED BY <2>1, <2>2, SeqEqual
<1>5. (a \o p) \o q = a \o (p \o q)
  BY <1>1, ConcatAssociative
<1>. QED BY <1>4, <1>5 DEF p, q

-----------------------------------------------------------------------------
(* The steps that move no byte.                                            *)

LEMMA EndedType == Ended \in BOOLEAN
<1>1. CASE chunked
  <2>1. Ended = (last \in {End, Pipelined})
    BY <1>1 DEF Ended
  <2>. QED BY <2>1
<1>2. CASE ~chunked
  <2>1. Ended = (sent = Total)
    BY <1>2 DEF Ended
  <2>. QED BY <2>1
<1>. QED BY <1>1, <1>2

LEMMA InitBytes == Init => Bytes
<1>. SUFFICES ASSUME Init PROVE Bytes
  OBVIOUS
<1>. USE SizesAssumption DEF Init
<1>1. Len(got) = 0 /\ Len(buf) = 0 /\ Fed = 0
  BY DEF Fed
<1>2. last = Frame /\ sent = 0 /\ ~Ended
  BY MarksDiffer DEF Ended
<1>3. Delivered
  BY <1>1, <1>2 DEF Delivered
<1>4. <<>> \in Seq(Elements)
  BY EmptySeq
<1>5. Len(<<>> \o <<>>) = 0
  BY <1>4, AheadFacts
<1>6. Len(Ahead) = 0
  BY <1>5 DEF Ahead
<1>7. 1..Len(Ahead) = {} /\ Fed + 1..sent = {}
  BY <1>1, <1>6
<1>8. Coming
  BY <1>7 DEF Coming, Stream, Arrived
<1>9. Finished
  BY DEF Finished
<1>. QED BY <1>3, <1>8, <1>9 DEF Bytes

\* Nothing the account speaks of changes.
LEMMA Untouched ==
  ASSUME Bytes, UNCHANGED <<peer, got, buf, eof, drained, readBuf, remaining, state, decoding>>,
         done' \in {done, {}}, lpc' \in {"eof", "dispatch"} => lpc' = lpc
  PROVE  Bytes'
<1>1. /\ Ahead' = Ahead /\ Fed' = Fed /\ (Ended <=> Ended') /\ sent' = sent
      /\ chunked' = chunked /\ hup' = hup /\ Ended' = Ended
  BY DEF Ahead, Fed, Ended, peer
<1>2. Delivered'
  BY <1>1 DEF Bytes, Delivered
<1>3. Coming'
  BY <1>1 DEF Bytes, Coming
<1>4. Spent' = Spent
  BY <1>1 DEF Spent
<1>5. Finished'
  BY <1>1, <1>4 DEF Bytes, Finished
<1>. QED BY <1>2, <1>3, <1>5 DEF Bytes

\* The body is given up, or the connection.
LEMMA GivesUp ==
  ASSUME Bytes, UNCHANGED <<peer, got, buf, eof, drained>>, ~decoding',
         lpc' \notin {"eof", "dispatch"}, state' \notin {"handling", "next"},
         state' \in {"reading", "body"} => state' = state, done' \in {done, {}}
  PROVE  Bytes'
<1>1. Fed' = Fed /\ (Ended' <=> Ended) /\ sent' = sent
  BY DEF Fed, Ended, peer
<1>2. Delivered'
  BY <1>1 DEF Bytes, Delivered
<1>3. Coming'
  BY DEF Coming
<1>4. Finished'
  BY <1>1 DEF Bytes, Finished
<1>. QED BY <1>2, <1>3, <1>4 DEF Bytes

\* connClose gives the body up wherever it is called.
LEMMA CloseGivesUp ==
  ASSUME Bytes, ConnClose, UNCHANGED <<peer, got>>,
         lpc' \notin {"eof", "dispatch"}, done' \in {done, {}}
  PROVE  Bytes'
<1>1. UNCHANGED <<buf, eof, drained>>
  BY DEF ConnClose, Finish, chan
<1>2. ~decoding' /\ state' = "free"
  BY DEF ConnClose
<1>. QED BY <1>1, <1>2, GivesUp

LEMMA IdleSteps ==
  ASSUME Bytes,
         \/ JobStarts \/ CallsRead \/ ReadSleeps \/ ReadWakes \/ HandlerReturns \/ JobReleases
         \/ Notifies \/ SpuriousWake \/ OtherWakes \/ ServerCloses
         \/ PumpDry \/ BodyPark \/ PumpReturns \/ PumpReads \/ PumpResumes \/ WouldBlock
         \/ DrainsNothing \/ DrainDiscards
         \/ Waits \/ HandlesRead \/ HandlesWake \/ Resumes \/ ResumesNothing \/ SweepPasses
         \/ UNCHANGED vars
  PROVE  Bytes'
<1>. DEFINE Same == /\ UNCHANGED <<peer, got, buf, eof, drained>>
                    /\ UNCHANGED <<readBuf, remaining, state, decoding>>
                    /\ done' \in {done, {}}
                    /\ lpc' \in {"eof", "dispatch"} => lpc' = lpc
<1>1. CASE JobStarts \/ CallsRead \/ ReadSleeps \/ ReadWakes \/ HandlerReturns \/ JobReleases
           \/ Notifies \/ SpuriousWake \/ OtherWakes
  <2>1. Same
    <3>1. CASE JobStarts \/ CallsRead \/ ReadSleeps \/ HandlerReturns \/ SpuriousWake
      BY <3>1 DEF JobStarts, CallsRead, ReadSleeps, HandlerReturns, SpuriousWake,
                  chan, conn, loop
    <3>2. CASE ReadWakes \/ Notifies \/ OtherWakes
      BY <3>2 DEF ReadWakes, Notifies, OtherWakes, chan, conn, worker
    <3>3. CASE JobReleases
      BY <3>3 DEF JobReleases, conn, loop
    <3>. QED BY <1>1, <3>1, <3>2, <3>3
  <2>. QED BY <2>1, Untouched
<1>2. CASE ServerCloses
  <2>1. UNCHANGED <<buf, eof, drained>>
    BY <1>2 DEF ServerCloses, Finish, chan
  <2>2. Same
    BY <1>2, <2>1 DEF ServerCloses, conn
  <2>. QED BY <2>2, Untouched
<1>3. CASE PumpDry \/ BodyPark \/ PumpReturns \/ PumpReads \/ PumpResumes \/ WouldBlock
           \/ DrainsNothing \/ DrainDiscards
  <2>1. Same
    BY <1>3 DEF PumpDry, BodyPark, PumpReturns, PumpReads, PumpResumes, WouldBlock,
                DrainsNothing, DrainDiscards, chan, conn, worker
  <2>. QED BY <2>1, Untouched
<1>4. CASE Waits \/ HandlesRead \/ HandlesWake \/ Resumes \/ ResumesNothing \/ SweepPasses
  <2>1. Same
    BY <1>4 DEF Waits, HandlesRead, HandlesWake, Resumes, ResumesNothing, SweepPasses,
                chan, conn, worker
  <2>. QED BY <2>1, Untouched
<1>5. CASE UNCHANGED vars
  <2>1. Same
    BY <1>5 DEF vars, chan, conn, loop, worker
  <2>. QED BY <2>1, Untouched
<1>. QED BY <1>1, <1>2, <1>3, <1>4, <1>5

\* A response before the end of the body never keeps the connection: nobody has drained it.
LEMMA LosingSteps ==
  ASSUME TypeOK, Control, Bytes,
         \/ PumpJunk \/ PumpCannotResume \/ PeerGone \/ DrainEarly \/ DrainFails \/ Sheds
         \/ Evicts \/ HandlerTimeout \/ CloseEnds \/ Joined
  PROVE  Bytes'
<1>1. CASE PumpJunk
  <2>1. /\ UNCHANGED <<peer, got, buf, eof, drained, state, done>> /\ ~decoding' /\ lpc' = "pumped"
        /\ lpc = "pump"
    BY <1>1 DEF PumpJunk, Finish
  <2>2. state = "body"
    BY <2>1 DEF Control, LoopShape
  <2>. QED BY <2>1, <2>2, GivesUp
<1>2. CASE PumpCannotResume \/ PeerGone \/ DrainFails \/ Evicts \/ CloseEnds \/ Joined
  <2>1. /\ ConnClose /\ UNCHANGED <<peer, got>>
        /\ lpc' \notin {"eof", "dispatch"} /\ done' \in {done, {}}
    BY <1>2 DEF PumpCannotResume, PeerGone, DrainFails, Evicts, CloseEnds, Joined
  <2>. QED BY <2>1, CloseGivesUp
<1>3. CASE DrainEarly
  <2>1. /\ UNCHANGED <<peer, got, buf, eof, drained>> /\ ~decoding' /\ lpc' = "resume"
        /\ done' = {} /\ state = "body" /\ state' = IF TRUE \in done THEN "next" ELSE "closing"
    BY <1>3 DEF DrainEarly, Finish
  <2>2. TRUE \notin done
    BY <2>1 DEF Bytes, Finished
  <2>. QED BY <2>1, <2>2, GivesUp
<1>4. CASE Sheds
  <2>1. /\ UNCHANGED <<peer, got, buf, eof, drained, decoding, done>> /\ lpc' = "event"
        /\ state' = "closing" /\ lpc = "dispatch"
    BY <1>4 DEF Sheds, chan, worker
  <2>2. ~decoding
    BY <2>1 DEF Control, Fresh
  <2>. QED BY <2>1, <2>2, GivesUp
<1>5. CASE HandlerTimeout
  <2>1. /\ UNCHANGED <<peer, got, buf, eof, drained, decoding, lpc, done>> /\ lpc = "event"
        /\ state' = "closing" /\ state = "handling"
    BY <1>5 DEF HandlerTimeout, chan, worker, loop
  <2>2. ~decoding
    BY <2>1 DEF Control, SlotShape
  <2>. QED BY <2>1, <2>2, GivesUp
<1>. QED BY <1>1, <1>2, <1>3, <1>4, <1>5

\* The end of the body, and the response behind it.
LEMMA EndSteps ==
  ASSUME TypeOK, Control, Bytes, BodyEof \/ DrainAttaches
  PROVE  Bytes'
<1>1. UNCHANGED <<peer, got, buf, drained, readBuf>>
  BY DEF BodyEof, DrainAttaches, Finish, worker
<1>2. Fed' = Fed /\ (Ended' <=> Ended) /\ sent' = sent /\ Ahead' = Ahead
  BY <1>1 DEF Fed, Ended, peer, Ahead
<1>3. Spent <=> Spent'
  BY <1>2 DEF Spent
<1>4. lpc' \in {"pumped", "resume"} /\ ~decoding'
  <2>1. state = "handling" => ~decoding
    BY DEF Control, SlotShape
  <2>2. BodyEof => lpc' = "pumped" /\ ~decoding'
    BY DEF BodyEof
  <2>3. DrainAttaches => lpc' = "resume" /\ state = "handling" /\ decoding' = decoding
    BY DEF DrainAttaches
  <2>. QED BY <2>1, <2>2, <2>3
<1>5. Delivered'
  BY <1>1, <1>2, <1>4 DEF Bytes, Delivered
<1>6. Coming'
  BY <1>4 DEF Coming
<1>7. CASE BodyEof
  <2>1. eof' /\ state' = "handling" /\ done' = done /\ lpc = "eof"
    BY <1>7 DEF BodyEof, Finish
  <2>2. Finished'
    BY <1>1, <1>2, <1>3, <1>4, <2>1 DEF Bytes, Finished
  <2>. QED BY <1>5, <1>6, <2>2 DEF Bytes
<1>8. CASE DrainAttaches
  <2>1. eof' = eof /\ state' \in {"next", "closing"} /\ state = "handling" /\ done' = {}
    BY <1>8 DEF DrainAttaches
  <2>2. Finished'
    BY <1>1, <1>2, <1>3, <1>4, <2>1 DEF Bytes, Finished
  <2>. QED BY <1>5, <1>6, <2>2 DEF Bytes
<1>. QED BY <1>7, <1>8

-----------------------------------------------------------------------------
(* The worker's steps.                                                     *)

LEMMA TakeBytes == TypeOK /\ Bytes /\ ReadTakes => Bytes'
<1>. SUFFICES ASSUME TypeOK, Bytes, ReadTakes PROVE Bytes'
  OBVIOUS
<1>1. PICK n \in 1..Len(buf) : got' = got \o SubSeq(buf, 1, n)
                               /\ buf' = SubSeq(buf, n + 1, Len(buf))
  BY DEF ReadTakes
<1>2. /\ UNCHANGED <<peer, eof, drained, readBuf, remaining, state, decoding, lpc, done>>
      /\ buf # <<>>
  BY DEF ReadTakes, conn, loop
<1>3. ~drained
  BY <1>2 DEF Bytes, Finished
<1>4. got \in Seq(Elements) /\ buf \in Seq(Elements) /\ n \in 0..Len(buf)
  BY LenProperties DEF TypeOK
<1>5. /\ SubSeq(buf, 1, n) \in Seq(Elements) /\ buf' \in Seq(Elements)
      /\ Len(SubSeq(buf, 1, n)) = n /\ Len(buf') = Len(buf) - n
      /\ Len(buf) \in Nat /\ n \in Nat
  BY <1>1, <1>4, Parts, LenProperties
<1>. DEFINE p == SubSeq(buf, 1, n)
<1>6. /\ Len(got') = Len(got) + n /\ Len(got) \in Nat
      /\ \A i \in 1..Len(got) : got'[i] = got[i]
      /\ \A i \in 1..n : got'[Len(got) + i] = p[i]
  <2>1. p \in Seq(Elements) /\ Len(p) = n /\ got' = got \o p
    BY <1>1, <1>5
  <2>. HIDE DEF p
  <2>. QED BY <1>4, <2>1, AheadFacts
<1>7. \A i \in 1..n : SubSeq(buf, 1, n)[i] = buf[i] /\ i \in 1..Len(buf)
  BY <1>5
<1>8. \A i \in 1..Len(buf) - n : buf'[i] = buf[n + i] /\ n + i \in 1..Len(buf)
  BY <1>1, <1>5
<1>9. Fed' = Fed
  BY <1>5, <1>6 DEF Fed
<1>10. \A i \in 1..Len(got') : got'[i] = i
  <2>1. SUFFICES ASSUME NEW i \in 1..Len(got') PROVE got'[i] = i
    OBVIOUS
  <2>2. CASE i \in 1..Len(got)
    BY <1>6, <2>2 DEF Bytes, Delivered
  <2>3. CASE i \notin 1..Len(got)
    <3>1. i - Len(got) \in 1..n /\ Len(got) + (i - Len(got)) = i
      BY <1>5, <1>6, <2>3
    <3>2. buf[i - Len(got)] = Len(got) + (i - Len(got))
      BY <1>7, <3>1 DEF Bytes, Delivered
    <3>. QED BY <1>6, <1>7, <3>1, <3>2
  <2>. QED BY <2>2, <2>3
<1>11. \A i \in 1..Len(buf') : buf'[i] = Len(got') + i
  <2>1. SUFFICES ASSUME NEW i \in 1..Len(buf') PROVE buf'[i] = Len(got') + i
    OBVIOUS
  <2>2. buf'[i] = buf[n + i] /\ n + i \in 1..Len(buf)
    BY <1>5, <1>8
  <2>3. buf[n + i] = Len(got) + (n + i)
    BY <2>2 DEF Bytes, Delivered
  <2>. QED BY <1>5, <1>6, <2>2, <2>3
<1>12. /\ Ahead' = Ahead /\ (Ended' <=> Ended) /\ Ended' = Ended
       /\ sent' = sent /\ chunked' = chunked /\ hup' = hup
  BY <1>2 DEF Ahead, Ended, peer
<1>13. Delivered'
  BY <1>2, <1>9, <1>10, <1>11, <1>12 DEF Bytes, Delivered
<1>14. Coming'
  BY <1>2, <1>9, <1>12 DEF Bytes, Coming
<1>15. Spent <=> Spent'
  BY <1>12 DEF Spent
<1>16. Finished'
  BY <1>2, <1>3, <1>9, <1>15 DEF Bytes, Finished
<1>. QED BY <1>13, <1>14, <1>16 DEF Bytes

\* The end is read when nothing is left, and then the connection may be kept.
LEMMA AnswerBytes == TypeOK /\ Bytes /\ (ReadEnds \/ Completes) => Bytes'
<1>. SUFFICES ASSUME TypeOK, Bytes, ReadEnds \/ Completes PROVE Bytes'
  OBVIOUS
<1>1. /\ UNCHANGED <<peer, got, buf, eof, readBuf, remaining, state, decoding, lpc>>
      /\ drained' \in BOOLEAN
  BY DEF ReadEnds, Completes, conn, chan, loop, TypeOK
<1>2. /\ Ahead' = Ahead /\ Fed' = Fed /\ (Ended <=> Ended') /\ Ended' = Ended /\ sent' = sent
      /\ chunked' = chunked /\ hup' = hup
  BY <1>1 DEF Ahead, Fed, Ended, peer
<1>3. Delivered' /\ Coming'
  BY <1>1, <1>2 DEF Bytes, Delivered, Coming
<1>4. Spent <=> Spent'
  BY <1>2 DEF Spent
<1>5. drained' => eof /\ buf = <<>>
  BY DEF ReadEnds, Completes, chan, Bytes, Finished, TypeOK
<1>6. TRUE \in done' => drained'
  BY DEF ReadEnds, Completes, MayKeep, chan, loop, Bytes, Finished, TypeOK
<1>7. Finished'
  BY <1>1, <1>2, <1>4, <1>5, <1>6 DEF Bytes, Finished
<1>. QED BY <1>3, <1>7 DEF Bytes

-----------------------------------------------------------------------------
(* The peer's steps, and what the loop reads.                              *)

\* An element that is put on the wire comes last.
LEMMA AheadGrows ==
  ASSUME NEW a \in Seq(Elements), NEW b \in Seq(Elements), NEW e \in Elements
  PROVE  /\ a \o Append(b, e) \in Seq(Elements)
         /\ Len(a \o Append(b, e)) = Len(a \o b) + 1
         /\ \A i \in 1..Len(a \o b) : (a \o Append(b, e))[i] = (a \o b)[i]
         /\ (a \o Append(b, e))[Len(a \o b) + 1] = e
<1>1. /\ Append(b, e) \in Seq(Elements) /\ Len(Append(b, e)) = Len(b) + 1
      /\ \A i \in 1..Len(b) : Append(b, e)[i] = b[i]
      /\ Append(b, e)[Len(b) + 1] = e
  BY AppendProperties
<1>. DEFINE c == Append(b, e)
            s == a \o b
            u == a \o c
<1>2. /\ s \in Seq(Elements) /\ Len(s) = Len(a) + Len(b) /\ Len(a) \in Nat /\ Len(b) \in Nat
      /\ \A i \in 1..Len(a) : s[i] = a[i]
      /\ \A i \in 1..Len(b) : s[Len(a) + i] = b[i]
  BY AheadFacts
<1>3. c \in Seq(Elements) /\ Len(c) = Len(b) + 1
  BY <1>1
<1>4. (\A i \in 1..Len(b) : c[i] = b[i]) /\ c[Len(b) + 1] = e
  BY <1>1
<1>. HIDE DEF c, s
<1>5. /\ u \in Seq(Elements) /\ Len(u) = Len(a) + Len(c)
      /\ \A i \in 1..Len(a) : u[i] = a[i]
      /\ \A i \in 1..Len(c) : u[Len(a) + i] = c[i]
  BY <1>3, AheadFacts
<1>. HIDE DEF u
<1>6. Len(u) = Len(s) + 1
  BY <1>2, <1>3, <1>5
<1>7. \A i \in 1..Len(s) : u[i] = s[i]
  <2>1. SUFFICES ASSUME NEW i \in 1..Len(s) PROVE u[i] = s[i]
    OBVIOUS
  <2>2. CASE i \in 1..Len(a)
    BY <1>2, <1>5, <2>2
  <2>3. CASE i \notin 1..Len(a)
    <3>1. /\ i - Len(a) \in 1..Len(b) /\ i - Len(a) \in 1..Len(c)
          /\ Len(a) + (i - Len(a)) = i
      BY <1>2, <1>3, <2>3
    <3>. QED BY <1>2, <1>4, <1>5, <3>1
  <2>. QED BY <2>2, <2>3
<1>8. u[Len(s) + 1] = e
  <2>1. Len(b) + 1 \in 1..Len(c) /\ Len(a) + (Len(b) + 1) = Len(s) + 1
    BY <1>2, <1>3
  <2>. QED BY <1>4, <1>5, <2>1
<1>. QED BY <1>5, <1>6, <1>7, <1>8 DEF u, s, c

\* The peer sends what comes next; after the end of the body that is another request.
LEMMA SendBytes == TypeOK /\ Bytes /\ PeerSends => Bytes'
<1>. SUFFICES ASSUME TypeOK, Bytes, PeerSends PROVE Bytes'
  OBVIOUS
<1>. USE SizesAssumption
<1>1. PICK e \in CanSend : wire' = Append(wire, e) /\ last' = e
                           /\ sent' = IF e \in Byte THEN e ELSE sent
  BY DEF PeerSends
<1>2. /\ ~hup /\ UNCHANGED <<chunked, hup, buf, eof, drained, state, decoding, remaining, readBuf>>
      /\ UNCHANGED <<lpc, done, got>>
  BY DEF PeerSends, chan, conn, loop, worker
<1>3. /\ sent \in 0..Total /\ chunked \in BOOLEAN /\ wire \in Seq(Elements)
      /\ readBuf \in Seq(Elements) /\ Fed \in Nat
  <2>1. Len(got) \in Nat /\ Len(buf) \in Nat
    BY LenProperties DEF TypeOK
  <2>. QED BY <2>1 DEF TypeOK, Fed
<1>4. \/ e = sent + 1 /\ sent < Total /\ ~Ended
      \/ chunked /\ ~Ended /\ e \in {Frame, Junk}
      \/ chunked /\ ~Ended /\ e = End /\ sent = Total
      \/ Ended /\ e = Pipelined
  BY DEF CanSend
<1>5. e \in Elements
  <2>1. e = sent + 1 /\ sent < Total => e \in Byte
    BY <1>3 DEF Byte
  <2>. QED BY <1>4, <2>1 DEF Elements, Marks
<1>6. /\ Ahead' \in Seq(Elements) /\ Ahead \in Seq(Elements) /\ Len(Ahead') = Len(Ahead) + 1
      /\ \A i \in 1..Len(Ahead) : Ahead'[i] = Ahead[i]
      /\ Ahead'[Len(Ahead) + 1] = e
  BY <1>1, <1>2, <1>3, <1>5, AheadFacts, AheadGrows DEF Ahead
<1>7. Fed' = Fed
  BY <1>2 DEF Fed
<1>8. Fed <= sent /\ (Ended => sent = Total)
  BY DEF Bytes, Delivered
<1>9. Ended \in BOOLEAN
  BY EndedType
<1>10. /\ decoding \/ lpc = "dispatch" =>
            Stream(Ahead, Fed, sent, Ended, ~chunked) /\ Arrived(Ahead, Fed, sent)
       /\ ~chunked /\ decoding => remaining = Total - Fed
  BY <1>2 DEF Bytes, Coming
<1>12. lpc = "eof" \/ state \in {"handling", "next"} => Spent
  BY DEF Bytes, Finished
<1>. HIDE DEF Ahead, Fed, Ended
<1>13. CASE e = sent + 1 /\ sent < Total /\ ~Ended
  <2>1. e \in Byte /\ sent' = sent + 1 /\ sent' \in 0..Total
    BY <1>1, <1>3, <1>13 DEF Byte
  <2>2. Ended' => sent' = Total
    <3>1. chunked => ~Ended'
      BY <1>1, <1>2, <2>1, MarksDiffer DEF Ended, Marks
    <3>2. ~chunked /\ Ended' => sent' = Total
      BY <1>2 DEF Ended
    <3>. QED BY <1>3, <3>1, <3>2
  <2>3. Ended = FALSE
    BY <1>9, <1>13
  <2>4. decoding \/ lpc = "dispatch" =>
          Stream(Ahead', Fed, sent + 1, Ended', ~chunked) /\ Arrived(Ahead', Fed, sent + 1)
    <3>1. SUFFICES ASSUME decoding \/ lpc = "dispatch"
                   PROVE  /\ Stream(Ahead', Fed, sent + 1, Ended', ~chunked)
                          /\ Arrived(Ahead', Fed, sent + 1)
      OBVIOUS
    <3>2. Stream(Ahead, Fed, sent, FALSE, ~chunked) /\ Arrived(Ahead, Fed, sent)
      BY <1>10, <2>3, <3>1
    <3>3. Ahead'[Len(Ahead) + 1] = sent + 1
      BY <1>6, <1>13
    <3>. QED BY <1>3, <1>6, <1>8, <1>13, <3>2, <3>3, StreamGetsByte
  <2>5. Coming'
    BY <1>2, <1>7, <1>10, <2>1, <2>4 DEF Coming
  <2>6. Delivered'
    BY <1>2, <1>3, <1>7, <1>8, <2>1, <2>2 DEF Bytes, Delivered
  <2>7. Finished'
    BY <1>2, <1>7, <1>12, <1>13 DEF Bytes, Finished, Spent
  <2>. QED BY <2>5, <2>6, <2>7 DEF Bytes
<1>14. CASE ~(e = sent + 1 /\ sent < Total /\ ~Ended)
  <2>1. /\ e \in Marks /\ (e # Pipelined => ~Ended /\ chunked)
        /\ (e \in {End, Pipelined} => sent = Total) /\ (Ended => e = Pipelined)
    BY <1>4, <1>8, <1>14, MarksDiffer DEF Marks
  <2>2. sent' = sent
    BY <1>1, <2>1, MarksDiffer
  <2>3. /\ e \in {End, Pipelined} => Ended'
        /\ Ended' => sent = Total
        /\ Ended => Ended'
    <3>1. CASE chunked
      <4>1. Ended' <=> e \in {End, Pipelined}
        BY <1>1, <1>2, <3>1 DEF Ended
      <4>. QED BY <2>1, <4>1
    <3>2. CASE ~chunked
      <4>1. e = Pipelined /\ Ended
        BY <1>4, <1>14, <3>2
      <4>2. Ended' <=> sent = Total
        BY <1>2, <2>2, <3>2 DEF Ended
      <4>. QED BY <1>8, <4>1, <4>2
    <3>. QED BY <3>1, <3>2
  <2>4. decoding \/ lpc = "dispatch" =>
          Stream(Ahead', Fed, sent, Ended', ~chunked) /\ Arrived(Ahead', Fed, sent)
    <3>1. SUFFICES ASSUME decoding \/ lpc = "dispatch"
                   PROVE  Stream(Ahead', Fed, sent, Ended', ~chunked) /\ Arrived(Ahead', Fed, sent)
      OBVIOUS
    <3>2. Stream(Ahead, Fed, sent, Ended, ~chunked) /\ Arrived(Ahead, Fed, sent)
      BY <1>10, <3>1
    <3>3. e # Pipelined => ~Ended /\ chunked
      BY <2>1
    <3>4. e \in Marks /\ (e \in {End, Pipelined} => Ended') /\ (Ended => Ended')
      BY <2>1, <2>3
    <3>5. /\ Ahead \in Seq(Elements) /\ Ahead' \in Seq(Elements) /\ Fed \in Nat
          /\ sent \in 0..Total
      BY <1>3, <1>6
    <3>6. CASE e = Pipelined
      BY <1>6, <3>2, <3>4, <3>5, <3>6, StreamGetsMark
    <3>7. CASE e # Pipelined
      <4>1. Ended = FALSE /\ (~chunked) = FALSE
        BY <1>3, <1>9, <3>3, <3>7
      <4>2. Stream(Ahead, Fed, sent, FALSE, FALSE)
        BY <3>2, <4>1
      <4>3. Stream(Ahead', Fed, sent, Ended', FALSE) /\ Arrived(Ahead', Fed, sent)
        BY <1>6, <3>2, <3>4, <3>5, <4>2, StreamGetsMark
      <4>. QED BY <4>1, <4>3
    <3>. QED BY <3>6, <3>7
  <2>5. Coming'
    BY <1>2, <1>7, <1>10, <2>2, <2>4 DEF Coming
  <2>6. Delivered'
    BY <1>2, <1>7, <1>8, <2>2, <2>3 DEF Bytes, Delivered
  <2>7. Spent => Spent'
    <3>1. SUFFICES ASSUME Spent PROVE Spent'
      OBVIOUS
    <3>2. Ended' /\ e = Pipelined
      BY <2>1, <2>3, <3>1 DEF Spent
    <3>3. \A i \in 1..Len(Ahead') : i \in 1..Len(Ahead) \/ i = Len(Ahead) + 1
      BY <1>6, LenProperties
    <3>4. \A i \in 1..Len(Ahead') : Ahead'[i] = Pipelined
      BY <1>6, <3>1, <3>2, <3>3 DEF Spent
    <3>. QED BY <3>2, <3>4 DEF Spent
  <2>8. Finished'
    BY <1>2, <1>7, <1>12, <2>7 DEF Bytes, Finished
  <2>. QED BY <2>5, <2>6, <2>8 DEF Bytes
<1>. QED BY <1>13, <1>14

LEMMA CloseBytes == TypeOK /\ Bytes /\ PeerCloses => Bytes'
<1>. SUFFICES ASSUME TypeOK, Bytes, PeerCloses PROVE Bytes'
  OBVIOUS
<1>. USE SizesAssumption
<1>1. /\ hup' = TRUE /\ wire' \in {wire, <<>>}
      /\ UNCHANGED <<chunked, sent, last, buf, eof, drained, state, decoding, remaining, readBuf>>
      /\ UNCHANGED <<lpc, done, got>>
  BY DEF PeerCloses, chan, conn, loop, worker
<1>2. /\ sent \in 0..Total /\ wire \in Seq(Elements) /\ readBuf \in Seq(Elements) /\ Fed \in Nat
      /\ <<>> \in Seq(Elements) /\ Len(<<>>) = 0
  <2>1. Len(got) \in Nat /\ Len(buf) \in Nat
    BY LenProperties DEF TypeOK
  <2>. QED BY <2>1, EmptySeq DEF TypeOK, Fed
<1>3. Fed' = Fed /\ (Ended' <=> Ended) /\ Ended' = Ended
  BY <1>1 DEF Fed, Ended
<1>4. /\ Ahead \in Seq(Elements) /\ Ahead' \in Seq(Elements) /\ Len(Ahead') <= Len(Ahead)
      /\ \A i \in 1..Len(Ahead') : Ahead'[i] = Ahead[i]
  <2>1. /\ Ahead \in Seq(Elements) /\ Len(Ahead) = Len(readBuf) + Len(wire)
        /\ Len(readBuf) \in Nat /\ Len(wire) \in Nat
        /\ \A i \in 1..Len(readBuf) : Ahead[i] = readBuf[i]
    BY <1>2, AheadFacts DEF Ahead
  <2>2. CASE wire' = wire
    <3>1. Ahead' = Ahead
      BY <1>1, <2>2 DEF Ahead
    <3>. QED BY <2>1, <3>1
  <2>3. CASE wire' = <<>>
    <3>1. Ahead' = readBuf \o <<>>
      BY <1>1, <2>3 DEF Ahead
    <3>2. readBuf \o <<>> = readBuf
      BY <1>2, ConcatEmptySeq
    <3>. QED BY <1>2, <2>1, <3>1, <3>2
  <2>. QED BY <1>1, <2>2, <2>3
<1>5. Delivered'
  BY <1>1, <1>3 DEF Bytes, Delivered
<1>6. Coming'
  <2>1. decoding \/ lpc = "dispatch" => Stream(Ahead, Fed, sent, Ended, ~chunked)
    BY DEF Bytes, Coming
  <2>2. decoding \/ lpc = "dispatch" => Stream(Ahead', Fed, sent, Ended, ~chunked)
    BY <1>2, <1>4, <2>1, StreamIsCut
  <2>. QED BY <1>1, <1>3, <2>2 DEF Bytes, Coming
<1>7. Spent => Spent'
  <2>1. \A i \in 1..Len(Ahead') : i \in 1..Len(Ahead)
    BY <1>4, LenProperties
  <2>. QED BY <1>3, <1>4, <2>1 DEF Spent
<1>8. Finished'
  BY <1>1, <1>3, <1>7 DEF Bytes, Finished
<1>. QED BY <1>5, <1>6, <1>8 DEF Bytes

\* What is read from the wire stays where it is in the stream.
LEMMA ReadBytes == TypeOK /\ Control /\ Bytes /\ (Receives \/ Dispatch) => Bytes'
<1>. SUFFICES ASSUME TypeOK, Control, Bytes, Receives \/ Dispatch PROVE Bytes'
  OBVIOUS
<1>. USE SizesAssumption
<1>1. /\ wire \in Seq(Elements) /\ readBuf \in Seq(Elements) /\ <<>> \in Seq(Elements)
      /\ Len(wire) \in Nat /\ remaining \in 0..Total
  BY EmptySeq, LenProperties DEF TypeOK
<1>2. /\ UNCHANGED <<chunked, sent, last, hup, buf, eof, drained, done, got>>
      /\ decoding \/ lpc = "dispatch"
      /\ decoding' /\ state' = "body" /\ lpc' = "pump" /\ ~eof
  <2>1. CASE Receives
    <3>1. decoding /\ state = "body"
      BY <2>1 DEF Receives, Control, LoopShape
    <3>. QED BY <2>1, <3>1 DEF Receives, chan, worker, Bytes, Finished
  <2>2. CASE Dispatch
    BY <2>2 DEF Dispatch, Control, Fresh
  <2>. QED BY <2>1, <2>2
<1>3. Ahead' = Ahead
  <2>1. CASE Receives
    <3>1. PICK k \in 1..Len(wire) : readBuf' = readBuf \o SubSeq(wire, 1, k)
                                    /\ wire' = SubSeq(wire, k + 1, Len(wire))
      BY <2>1 DEF Receives
    <3>2. k \in 0..Len(wire)
      BY <1>1
    <3>. QED BY <1>1, <3>1, <3>2, AheadMoves DEF Ahead
  <2>2. CASE Dispatch
    <3>1. PICK k \in 0..Len(wire) : readBuf' = SubSeq(wire, 1, k)
                                    /\ wire' = SubSeq(wire, k + 1, Len(wire))
      BY <2>2 DEF Dispatch
    <3>2. readBuf = <<>>
      BY <2>2 DEF Dispatch, Control, Fresh
    <3>3. SubSeq(wire, 1, k) \in Seq(Elements)
      BY <1>1, Parts
    <3>4. <<>> \o SubSeq(wire, 1, k) = SubSeq(wire, 1, k)
      BY <3>3, ConcatEmptySeq
    <3>5. (<<>> \o SubSeq(wire, 1, k)) \o SubSeq(wire, k + 1, Len(wire)) = <<>> \o wire
      BY <1>1, AheadMoves
    <3>. QED BY <3>1, <3>2, <3>4, <3>5 DEF Ahead
  <2>. QED BY <2>1, <2>2
<1>4. Fed' = Fed /\ (Ended' <=> Ended) /\ Ended' = Ended
  BY <1>2 DEF Fed, Ended
<1>5. ~chunked => remaining' = Total - Fed
  <2>1. CASE Receives
    <3>1. decoding /\ remaining' = remaining
      BY <2>1 DEF Receives, Control, LoopShape
    <3>. QED BY <3>1 DEF Bytes, Coming
  <2>2. CASE Dispatch
    <3>1. Fed = 0
      BY <2>2 DEF Dispatch, Bytes, Delivered
    <3>. QED BY <2>2, <3>1 DEF Dispatch
  <2>. QED BY <2>1, <2>2
<1>6. Delivered'
  BY <1>2, <1>4 DEF Bytes, Delivered
<1>7. Coming'
  BY <1>2, <1>3, <1>4, <1>5 DEF Bytes, Coming
<1>8. Finished'
  BY <1>2, <1>4 DEF Bytes, Finished
<1>. QED BY <1>6, <1>7, <1>8 DEF Bytes

-----------------------------------------------------------------------------
(* The decoder's steps.                                                    *)

\* Elements taken off the front of the read buffer are off the front of the stream.
LEMMA AheadDrops ==
  ASSUME NEW a \in Seq(Elements), NEW b \in Seq(Elements), NEW t \in 0..Len(a)
  PROVE  /\ SubSeq(a, t + 1, Len(a)) \o b \in Seq(Elements)
         /\ Len(SubSeq(a, t + 1, Len(a)) \o b) = Len(a \o b) - t
         /\ \A i \in 1..Len(SubSeq(a, t + 1, Len(a)) \o b) :
              (SubSeq(a, t + 1, Len(a)) \o b)[i] = (a \o b)[i + t]
<1>. DEFINE c == SubSeq(a, t + 1, Len(a))
            s == a \o b
            u == c \o b
<1>1. c \in Seq(Elements) /\ Len(c) = Len(a) - t /\ Len(a) \in Nat /\ t \in Nat
  BY Parts, LenProperties
<1>2. \A i \in 1..Len(c) : c[i] = a[i + t]
  BY <1>1
<1>3. /\ s \in Seq(Elements) /\ Len(s) = Len(a) + Len(b) /\ Len(b) \in Nat
      /\ \A i \in 1..Len(a) : s[i] = a[i]
      /\ \A i \in 1..Len(b) : s[Len(a) + i] = b[i]
  BY AheadFacts
<1>. HIDE DEF c, s
<1>4. /\ u \in Seq(Elements) /\ Len(u) = Len(c) + Len(b)
      /\ \A i \in 1..Len(c) : u[i] = c[i]
      /\ \A i \in 1..Len(b) : u[Len(c) + i] = b[i]
  BY <1>1, AheadFacts
<1>. HIDE DEF u
<1>5. Len(u) = Len(s) - t
  BY <1>1, <1>3, <1>4
<1>6. \A i \in 1..Len(u) : u[i] = s[i + t]
  <2>1. SUFFICES ASSUME NEW i \in 1..Len(u) PROVE u[i] = s[i + t]
    OBVIOUS
  <2>2. CASE i \in 1..Len(c)
    <3>1. i + t \in 1..Len(a)
      BY <1>1, <2>2
    <3>. QED BY <1>2, <1>3, <1>4, <2>2, <3>1
  <2>3. CASE i \notin 1..Len(c)
    <3>1. /\ i - Len(c) \in 1..Len(b) /\ Len(c) + (i - Len(c)) = i
          /\ Len(a) + (i - Len(c)) = i + t
      BY <1>1, <1>3, <1>4, <2>3
    <3>. QED BY <1>3, <1>4, <3>1
  <2>. QED BY <2>2, <2>3
<1>. QED BY <1>4, <1>5, <1>6 DEF u, s, c

\* What is fed is what comes next, and what is left before the decoder goes on after it.
LEMMA FeedBytes == TypeOK /\ Control /\ Bytes /\ PumpFeeds => Bytes'
<1>. SUFFICES ASSUME TypeOK, Control, Bytes, PumpFeeds PROVE Bytes'
  OBVIOUS
<1>. USE SizesAssumption
<1>1. PICK n \in FrontRun :
        /\ Feed(n, Taken(n))
        /\ readBuf' = SubSeq(readBuf, Taken(n) + 1, Len(readBuf))
        /\ remaining' = IF chunked THEN 0 ELSE remaining - Taken(n)
        /\ lpc' \in {"eof", "park", "pump", "pumped"}
        /\ lpc' = "eof" => ~chunked /\ remaining = Taken(n)
  BY DEF PumpFeeds
<1>2. /\ lpc = "pump" /\ decoding
      /\ UNCHANGED <<chunked, sent, last, wire, hup, state, decoding, done, got, eof, drained>>
  BY <1>1 DEF PumpFeeds, peer, Feed
<1>3. state = "body" /\ ~eof /\ ~drained
  BY <1>2 DEF Control, LoopShape, Bytes, Finished
<1>. DEFINE t == Taken(n)
            g == Fed + t
<1>4. /\ n \in 1..Len(readBuf) /\ t \in 0..n /\ buf' \in Seq(Elements)
      /\ Len(buf') = Len(buf) + t
  BY <1>1, FeedTakes
<1>5. /\ readBuf \in Seq(Elements) /\ wire \in Seq(Elements) /\ Len(readBuf) \in Nat
      /\ Len(wire) \in Nat /\ buf \in Seq(Elements) /\ Len(buf) \in Nat /\ Len(got) \in Nat
      /\ sent \in 0..Total /\ remaining \in 0..Total /\ chunked \in BOOLEAN
      /\ n \in Nat /\ t \in Nat /\ t \in 0..Len(readBuf) /\ t <= n /\ Fed \in Nat
  BY <1>4, LenProperties DEF TypeOK, Fed
<1>. HIDE DEF t
<1>6. UNCHANGED <<chunked, sent, last, hup>> /\ (Ended' <=> Ended) /\ Ended' = Ended
  BY <1>2 DEF Ended
<1>7. Fed' = g
  <2>1. Len(got') = Len(got)
    BY <1>2
  <2>2. Fed' = Len(got') + Len(buf') /\ Fed = Len(got) + Len(buf)
    BY DEF Fed
  <2>. QED BY <1>4, <1>5, <2>1, <2>2
<1>8. /\ Ahead \in Seq(Elements) /\ Len(Ahead) = Len(readBuf) + Len(wire)
      /\ \A i \in 1..Len(readBuf) : Ahead[i] = readBuf[i]
  BY <1>5, AheadFacts DEF Ahead
<1>9. /\ Ahead' \in Seq(Elements) /\ Len(Ahead') = Len(Ahead) - t
      /\ \A i \in 1..Len(Ahead') : Ahead'[i] = Ahead[i + t]
  <2>1. Ahead' = SubSeq(readBuf, t + 1, Len(readBuf)) \o wire
    BY <1>1, <1>2 DEF Ahead, t
  <2>2. Ahead = readBuf \o wire
    BY DEF Ahead
  <2>3. readBuf \in Seq(Elements) /\ wire \in Seq(Elements) /\ t \in 0..Len(readBuf)
    BY <1>5
  <2>. QED BY <2>1, <2>2, <2>3, AheadDrops
<1>10. /\ Stream(Ahead, Fed, sent, Ended, ~chunked)
       /\ ~hup => Arrived(Ahead, Fed, sent)
       /\ ~chunked => remaining = Total - Fed
       /\ Fed <= sent /\ (Ended => sent = Total)
  BY <1>2 DEF Bytes, Coming, Delivered
<1>11. /\ chunked => \A i \in 1..n : readBuf[i] \in Byte
       /\ ~chunked => n <= remaining
  BY DEF FrontRun
<1>12. n \in 1..Len(Ahead) /\ \A i \in 1..n : i \in 1..Len(readBuf)
  BY <1>4, <1>5, <1>8
<1>13. \A i \in 1..n : Ahead[i] = Fed + i /\ Ahead[i] \in Byte
  <2>1. ~(~chunked) => \A i \in 1..n : Ahead[i] \in Byte
    BY <1>8, <1>11, <1>12
  <2>2. \A i \in 1..n : Ahead[i] = Fed + i
    <3>1. Ahead \in Seq(Elements) /\ Fed \in Nat /\ sent \in 0..Total
      BY <1>5, <1>8
    <3>2. Stream(Ahead, Fed, sent, Ended, ~chunked) /\ n \in 1..Len(Ahead)
      BY <1>10, <1>12
    <3>3. (Ended => sent = Total) /\ (~chunked => n <= Total - Fed)
      BY <1>10, <1>11
    <3>. QED BY <2>1, <3>1, <3>2, <3>3, FrontIsNext
  <2>3. CASE chunked
    BY <1>8, <1>11, <1>12, <2>2, <2>3
  <2>4. CASE ~chunked
    <3>1. n <= Total - Fed
      BY <1>10, <1>11, <2>4
    <3>2. \A i \in 1..n : Fed + i \in Byte
      BY <1>5, <3>1 DEF Byte
    <3>. QED BY <2>2, <3>2
  <2>. QED BY <2>3, <2>4
<1>14. g <= sent
  <2>1. CASE t = 0
    BY <1>5, <1>10, <2>1
  <2>2. CASE t # 0
    <3>1. t \in 1..n /\ t \in 1..Len(Ahead)
      BY <1>4, <1>5, <1>8, <2>2
    <3>2. Ahead[t] = g /\ Ahead[t] \in Byte
      BY <1>13, <3>1
    <3>. QED BY <1>10, <3>1, <3>2 DEF Stream
  <2>. QED BY <2>1, <2>2
<1>15. \A i \in t + 1..Len(Ahead) : Ahead[i] \in Byte => Ahead[i] > g
  <2>1. SUFFICES ASSUME NEW i \in t + 1..Len(Ahead), Ahead[i] \in Byte PROVE Ahead[i] > g
    OBVIOUS
  <2>2. i \in 1..Len(Ahead) /\ i > t
    BY <1>5, <1>8
  <2>3. CASE t = 0
    BY <1>5, <1>10, <2>1, <2>2, <2>3 DEF Stream
  <2>4. CASE t # 0
    <3>1. t \in 1..n /\ t \in 1..Len(Ahead)
      BY <1>4, <1>5, <1>8, <2>4
    <3>2. Ahead[t] = g /\ Ahead[t] \in Byte
      BY <1>13, <3>1
    <3>3. Ahead[t] < Ahead[i]
      BY <1>10, <2>1, <2>2, <3>1, <3>2 DEF Stream
    <3>. QED BY <1>5, <2>1, <3>2, <3>3 DEF Byte
  <2>. QED BY <2>3, <2>4
<1>16. Stream(Ahead', g, sent, Ended, ~chunked) /\ (~hup => Arrived(Ahead', g, sent))
  <2>1. g \in Nat /\ Fed <= g /\ t \in 0..Len(Ahead)
    BY <1>5, <1>8
  <2>2. \A i \in 1..t : Ahead[i] \in Byte => Ahead[i] <= g
    BY <1>5, <1>13
  <2>. HIDE DEF g
  <2>3. /\ Stream(Ahead', g, sent, Ended, ~chunked)
        /\ Arrived(Ahead, Fed, sent) => Arrived(Ahead', g, sent)
    BY <1>5, <1>8, <1>9, <1>10, <1>15, <2>1, <2>2, StreamDrops
  <2>. QED BY <1>10, <2>3
<1>17. ~chunked => remaining' = Total - g
  <2>1. ~chunked => remaining' = remaining - t /\ remaining = Total - Fed
    BY <1>1, <1>10 DEF t
  <2>. QED BY <1>5, <2>1
<1>18. \A i \in 1..Len(buf') : buf'[i] = Len(got) + i
  <2>1. SUFFICES ASSUME NEW i \in 1..Len(buf') PROVE buf'[i] = Len(got) + i
    OBVIOUS
  <2>. DEFINE p == SubSeq(readBuf, 1, t)
  <2>2. /\ p \in Seq(Elements) /\ Len(p) = t /\ \A j \in 1..t : p[j] = readBuf[j]
        /\ buf' = buf \o p
    <3>1. p \in Seq(Elements) /\ Len(p) = t
      BY <1>5, Parts
    <3>2. \A j \in 1..t : p[j] = readBuf[j]
      BY <1>5
    <3>3. buf' = buf \o p
      BY <1>1 DEF Feed, t
    <3>. QED BY <3>1, <3>2, <3>3
  <2>. HIDE DEF p
  <2>3. /\ \A j \in 1..Len(buf) : buf'[j] = buf[j]
        /\ \A j \in 1..t : buf'[Len(buf) + j] = p[j]
    BY <1>5, <2>2, AheadFacts
  <2>4. CASE i \in 1..Len(buf)
    BY <2>3, <2>4 DEF Bytes, Delivered
  <2>5. CASE i \notin 1..Len(buf)
    <3>1. /\ i - Len(buf) \in 1..t /\ Len(buf) + (i - Len(buf)) = i
          /\ i - Len(buf) \in 1..n
      BY <1>4, <1>5, <2>5
    <3>2. buf'[i] = readBuf[i - Len(buf)]
      BY <2>2, <2>3, <3>1
    <3>3. readBuf[i - Len(buf)] = Fed + (i - Len(buf))
      BY <1>8, <1>12, <1>13, <3>1
    <3>4. Fed + (i - Len(buf)) = Len(got) + i
      BY <1>5, <3>1 DEF Fed
    <3>. QED BY <3>2, <3>3, <3>4
  <2>. QED BY <2>4, <2>5
<1>19. Delivered'
  <2>1. got' = got /\ sent' = sent /\ lpc' # "dispatch"
    BY <1>1, <1>2
  <2>. QED BY <1>6, <1>7, <1>10, <1>14, <1>18, <2>1 DEF Bytes, Delivered
<1>20. Coming'
  BY <1>2, <1>6, <1>7, <1>16, <1>17 DEF Coming
<1>21. lpc' = "eof" => g = Total /\ Spent'
  <2>1. SUFFICES ASSUME lpc' = "eof" PROVE g = Total /\ Spent'
    OBVIOUS
  <2>2. ~chunked /\ remaining = t
    BY <1>1, <2>1 DEF t
  <2>3. g = Total
    BY <1>5, <1>10, <2>2
  <2>4. sent = Total /\ Ended
    BY <1>5, <1>14, <2>2, <2>3 DEF Ended
  <2>5. ASSUME NEW i \in 1..Len(Ahead') PROVE Ahead'[i] = Pipelined
    <3>1. Ahead'[i] \in Byte \/ Ahead'[i] = Pipelined
      BY <1>16, <2>2 DEF Stream
    <3>2. Ahead'[i] \in Byte => Ahead'[i] > Total
      BY <1>16, <2>3 DEF Stream
    <3>. QED BY <3>1, <3>2 DEF Byte
  <2>. QED BY <1>6, <2>3, <2>4, <2>5 DEF Spent
<1>22. Finished'
  BY <1>2, <1>3, <1>7, <1>21 DEF Bytes, Finished
<1>. QED BY <1>19, <1>20, <1>22 DEF Bytes

\* Framing goes by; the empty line that ends the body is behind its last byte.
LEMMA FrameBytes == TypeOK /\ Control /\ Bytes /\ (PumpFrame \/ PumpEnd) => Bytes'
<1>. SUFFICES ASSUME TypeOK, Control, Bytes, PumpFrame \/ PumpEnd PROVE Bytes'
  OBVIOUS
<1>. USE SizesAssumption
<1>1. /\ lpc = "pump" /\ decoding /\ chunked /\ readBuf # <<>> /\ readBuf' = Tail(readBuf)
      /\ UNCHANGED <<chunked, sent, last, wire, hup, state, decoding, remaining, done>>
      /\ UNCHANGED <<got, buf, eof, drained>>
      /\ \/ Head(readBuf) = Frame /\ lpc' = "pump"
         \/ Head(readBuf) = End /\ lpc' = "eof"
  BY DEF PumpFrame, PumpEnd, peer, chan, worker, loop
<1>2. state = "body" /\ ~eof /\ ~drained
  BY <1>1 DEF Control, LoopShape, Bytes, Finished
<1>3. /\ readBuf \in Seq(Elements) /\ wire \in Seq(Elements) /\ Len(readBuf) \in Nat
      /\ Len(wire) \in Nat /\ sent \in 0..Total /\ Fed \in Nat
  <2>1. Len(got) \in Nat /\ Len(buf) \in Nat
    BY LenProperties DEF TypeOK
  <2>. QED BY <2>1, LenProperties DEF TypeOK, Fed
<1>4. 1 \in 1..Len(readBuf) /\ 1 \in 0..Len(readBuf) /\ Head(readBuf) = readBuf[1]
      /\ Tail(readBuf) = SubSeq(readBuf, 1 + 1, Len(readBuf))
  <2>1. Len(readBuf) # 0
    BY <1>1, <1>3, EmptySeq
  <2>. QED BY <1>3, <2>1
<1>5. Fed' = Fed /\ (Ended' <=> Ended) /\ Ended' = Ended
  BY <1>1 DEF Fed, Ended
<1>6. /\ Ahead \in Seq(Elements) /\ Len(Ahead) = Len(readBuf) + Len(wire)
      /\ \A i \in 1..Len(readBuf) : Ahead[i] = readBuf[i]
  BY <1>3, AheadFacts DEF Ahead
<1>7. /\ Ahead' \in Seq(Elements) /\ Len(Ahead') = Len(Ahead) - 1
      /\ \A i \in 1..Len(Ahead') : Ahead'[i] = Ahead[i + 1]
  <2>1. Ahead' = SubSeq(readBuf, 1 + 1, Len(readBuf)) \o wire
    BY <1>1, <1>4 DEF Ahead
  <2>. QED BY <1>3, <1>4, <2>1, AheadDrops DEF Ahead
<1>8. /\ Stream(Ahead, Fed, sent, Ended, ~chunked)
      /\ ~hup => Arrived(Ahead, Fed, sent)
      /\ Fed <= sent /\ (Ended => sent = Total)
  BY <1>1 DEF Bytes, Coming, Delivered
<1>9. 1 \in 1..Len(Ahead) /\ Ahead[1] = Head(readBuf) /\ Ahead[1] \in {Frame, End}
  BY <1>1, <1>3, <1>4, <1>6
<1>10. Stream(Ahead', Fed, sent, Ended, ~chunked) /\ (~hup => Arrived(Ahead', Fed, sent))
  <2>1. \A i \in 1..1 : Ahead[i] \in Byte => Ahead[i] <= Fed
    <3>1. Ahead[1] \notin Byte
      BY <1>9, MarksDiffer DEF Marks
    <3>. QED BY <3>1
  <2>2. \A i \in 1 + 1..Len(Ahead) : Ahead[i] \in Byte => Ahead[i] > Fed
    <3>1. \A i \in 1 + 1..Len(Ahead) : i \in 1..Len(Ahead)
      BY <1>3, <1>6
    <3>. QED BY <1>8, <3>1 DEF Stream
  <2>3. 1 \in 0..Len(Ahead) /\ Fed <= Fed
    BY <1>3, <1>9
  <2>4. /\ Stream(Ahead', Fed, sent, Ended, ~chunked)
        /\ Arrived(Ahead, Fed, sent) => Arrived(Ahead', Fed, sent)
    BY <1>3, <1>6, <1>7, <1>8, <2>1, <2>2, <2>3, StreamDrops
  <2>. QED BY <1>8, <2>4
<1>11. Delivered' /\ Coming'
  BY <1>1, <1>5, <1>10 DEF Bytes, Delivered, Coming
<1>12. lpc' = "eof" => Fed = Total /\ Spent'
  <2>1. SUFFICES ASSUME lpc' = "eof" PROVE Fed = Total /\ Spent'
    OBVIOUS
  <2>2. Ahead[1] = End
    BY <1>1, <1>9, <2>1
  <2>3. /\ Ended /\ \A k \in Fed + 1..sent : \E j \in 1..1 - 1 : Ahead[j] = k
        /\ \A j \in 1 + 1..Len(Ahead) : Ahead[j] = Pipelined
    BY <1>8, <1>9, <2>2 DEF Stream
  <2>4. Fed = sent /\ sent = Total
    <3>1. sent \notin Fed + 1..sent
      BY <2>3
    <3>. QED BY <1>3, <1>8, <2>3, <3>1
  <2>5. \A i \in 1..Len(Ahead') : i + 1 \in 1 + 1..Len(Ahead)
    BY <1>3, <1>6, <1>7
  <2>. QED BY <1>5, <1>7, <2>3, <2>4, <2>5 DEF Spent
<1>13. Finished'
  BY <1>1, <1>2, <1>5, <1>12 DEF Bytes, Finished
<1>. QED BY <1>11, <1>13 DEF Bytes

-----------------------------------------------------------------------------
(* The theorems about the bytes.                                           *)

LEMMA NextBytes == IInv /\ Bytes /\ [NextStep]_vars => Bytes'
<1>. SUFFICES ASSUME IInv, Bytes, [NextStep]_vars PROVE Bytes'
  OBVIOUS
<1>1. TypeOK /\ Control
  BY DEF IInv
<1>2. CASE PeerSends \/ PeerCloses
  BY <1>1, <1>2, SendBytes, CloseBytes
<1>3. CASE Pump
  BY <1>1, <1>3, FeedBytes, FrameBytes, EndSteps, ReadBytes, LosingSteps, IdleSteps DEF Pump
<1>4. CASE Drain
  BY <1>1, <1>4, EndSteps, LosingSteps, IdleSteps DEF Drain
<1>5. CASE Tick
  BY <1>1, <1>5, ReadBytes, LosingSteps, IdleSteps DEF Tick
<1>6. CASE Worker
  BY <1>1, <1>6, TakeBytes, AnswerBytes, IdleSteps DEF Worker
<1>7. CASE SpuriousWake \/ ServerCloses \/ OtherWakes \/ Closed \/ UNCHANGED vars
  BY <1>7, IdleSteps DEF Closed
<1>. QED BY <1>2, <1>3, <1>4, <1>5, <1>6, <1>7 DEF NextStep, Loop

LEMMA SpecBytes == Spec => [](TypeOK /\ Bytes)
<1>1. IInv => TypeOK
  BY DEF IInv
<1>. QED BY <1>1, InitBytes, NextBytes, SpecIInv, PTL DEF Spec

\* The handler reads the bytes of the body in their order, none missing and none twice,
\* however the peer, the socket, the read buffer and the channel cut them; and it is told
\* of the end only when it has them all.
THEOREM BodyArrivesInOrder == Spec => []BytesInOrder
<1>1. TypeOK /\ Bytes => BytesInOrder
  BY BytesArrive
<1>. QED BY <1>1, SpecBytes, PTL

\* A connection that is kept has nothing of the body before its parser.
THEOREM KeptConnectionIsClean == Spec => []KeptIsClean
<1>1. TypeOK /\ Bytes => KeptIsClean
  BY BytesArrive
<1>. QED BY <1>1, SpecBytes, PTL

=============================================================================
