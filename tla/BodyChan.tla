------------------------------ MODULE BodyChan ------------------------------
(***************************************************************************)
(* The streamed request body of the pooled HTTP server, std/http/server.sx. *)
(*                                                                         *)
(* The loop thread decodes the body of one request as it arrives and feeds *)
(* the bytes into a bounded channel; a pool worker runs the handler, which *)
(* pulls them.  When the channel is full the loop parks the connection's   *)
(* read watch, and the worker's next read wakes the loop through an        *)
(* eventfd.  The loop, the worker, the peer and the deadlines are          *)
(* concurrent.                                                             *)
(*                                                                         *)
(* The module follows one request from its complete headers to the answer  *)
(* or the close of its connection; the other connections of the server     *)
(* appear as the wakeups they cause.  A critical section of the channel's  *)
(* mutex is one action, together with the steps of its thread that no      *)
(* other thread can tell from it.                                          *)
(*                                                                         *)
(* The stream of bytes is a stream of elements: the numbered bytes of the  *)
(* body, whole pieces of framing, malformed framing, the end of a chunked  *)
(* body, and what the client pipelines behind the request.                 *)
(***************************************************************************)
EXTENDS Integers, Sequences, FiniteSets

CONSTANTS
  Total,      \* bytes of the body
  Cap,        \* bytes the channel holds, BODY_CHAN_CAP
  ReadCap,    \* elements one read of the socket delivers at most
  WireCap,    \* elements the socket holds, a bound of the model
  Frame,      \* a size line, the CRLF after a chunk, a trailer line
  Junk,       \* framing the decoder rejects, or longer than its buffer
  End,        \* the empty line that ends a chunked body
  Pipelined   \* the first bytes of the client's next request

Byte == 1..Total
Marks == {Frame, Junk, End, Pipelined}
Elements == Byte \union Marks

ASSUME SizesAssumption ==
  /\ Total \in Nat \ {0}
  /\ Cap \in Nat \ {0}
  /\ ReadCap \in Nat \ {0}
  /\ WireCap \in Nat \ {0}

ASSUME MarksAssumption ==
  /\ Marks \cap Nat = {}
  /\ Cardinality(Marks) = 4

VARIABLES
  \* the peer and its socket
  chunked,    \* the framing: chunked, or a Content-Length of Total
  sent,       \* bytes of the body the peer has sent
  last,       \* the last element it sent
  wire,       \* what the socket holds for the server
  hup,        \* the peer closed
  \* the channel
  buf, eof, fault, stalled, drained,
  refs,       \* 0 when the channel is freed
  \* the connection's slot
  state,      \* "reading", "body", "handling"; "next" when the response is out and
              \* the connection is kept, "closing" while a last response drains, "free"
  decoding,   \* bodyMode # 0
  remaining,  \* bodyRemaining of a body with a Content-Length, else 0
  readBuf,
  parked,     \* bodyParked
  watch,      \* the loop watches the socket for input
  bchan,      \* the slot refers to the channel
  \* the loop
  lpc,        \* what the loop does
  caller,     \* who called pumpBody
  batch,      \* events of the last wait that are still to be handled
  wakeFd,     \* the eventfd is signalled
  done,       \* completions not yet drained, each with its keep flag
  \* the worker
  wpc,        \* what the worker does
  got         \* the bytes the handler has read

peer == <<chunked, sent, last, wire, hup>>
chan == <<buf, eof, fault, stalled, drained, refs>>
conn == <<state, decoding, remaining, readBuf, parked, watch, bchan>>
loop == <<lpc, caller, batch, wakeFd, done>>
worker == <<wpc, got>>
vars == <<peer, chan, conn, loop, worker>>

-----------------------------------------------------------------------------
(* The peer. *)

Ended == IF chunked THEN last \in {End, Pipelined} ELSE sent = Total

\* The body, in order; framing around it when it is chunked; the next request
\* behind it.  Pieces of framing in a row are one.
CanSend ==
  (IF sent < Total /\ ~Ended THEN {sent + 1} ELSE {})
    \union (IF chunked /\ ~Ended THEN {Junk} ELSE {})
    \union (IF chunked /\ ~Ended /\ last # Frame THEN {Frame} ELSE {})
    \union (IF chunked /\ ~Ended /\ sent = Total THEN {End} ELSE {})
    \union (IF Ended /\ last # Pipelined THEN {Pipelined} ELSE {})

PeerSends ==
  /\ ~hup
  /\ Len(wire) < WireCap
  /\ \E e \in CanSend :
       /\ wire' = Append(wire, e)
       /\ last' = e
       /\ sent' = IF e \in Byte THEN e ELSE sent
  /\ UNCHANGED <<chunked, hup, chan, conn, loop, worker>>

\* An orderly close, or a reset that takes what is under way with it.
PeerCloses ==
  /\ ~hup
  /\ hup' = TRUE
  /\ wire' \in {wire, <<>>}
  /\ UNCHANGED <<chunked, sent, last, chan, conn, loop, worker>>

-----------------------------------------------------------------------------
(* The channel's operations.  Each is one critical section of mu. *)

\* A signal or a broadcast of cv: there is one reader.
Signalled == IF wpc = "asleep" THEN "reading" ELSE wpc

\* Broken: the channel's bound is forgotten.
TakenAll(n) == n

\* feed(src, n) takes what fits of the n bytes.
Taken(n) == IF n < Cap - Len(buf) THEN n ELSE Cap - Len(buf)

\* Broken: only a channel that takes nothing counts as stalled.
FeedMarksLate(n, took) ==
  /\ buf' = buf \o SubSeq(readBuf, 1, took)
  /\ stalled' = (stalled \/ took = 0)
  /\ wpc' = IF took > 0 THEN Signalled ELSE wpc
  /\ UNCHANGED <<eof, fault, drained, refs>>

Feed(n, took) ==
  /\ buf' = buf \o SubSeq(readBuf, 1, took)
  /\ stalled' = (stalled \/ took < n)
  /\ wpc' = IF took > 0 THEN Signalled ELSE wpc
  /\ UNCHANGED <<eof, fault, drained, refs>>

\* Broken: the broadcast is missing.
FinishSilently(faulty, released) ==
  /\ IF faulty THEN fault' = TRUE /\ eof' = eof ELSE eof' = TRUE /\ fault' = fault
  /\ refs' = IF released THEN refs - 1 ELSE refs
  /\ UNCHANGED <<buf, stalled, drained, wpc>>

\* finish(fault), and release when the slot lets go of the channel as well.
Finish(faulty, released) ==
  /\ IF faulty THEN fault' = TRUE /\ eof' = eof ELSE eof' = TRUE /\ fault' = fault
  /\ refs' = IF released THEN refs - 1 ELSE refs
  /\ wpc' = Signalled
  /\ UNCHANGED <<buf, stalled, drained>>

-----------------------------------------------------------------------------
(* The worker: bodyChanRead under the handler, then the end of runHandlerJob. *)

JobStarts ==
  /\ wpc = "queued"
  /\ wpc' = "handler"
  /\ UNCHANGED <<peer, chan, conn, loop, got>>

\* The handler calls readBody.
CallsRead ==
  /\ wpc = "handler"
  /\ wpc' = "reading"
  /\ UNCHANGED <<peer, chan, conn, loop, got>>

\* Nothing there: cv.wait.
ReadSleeps ==
  /\ wpc = "reading"
  /\ buf = <<>> /\ ~eof /\ ~fault
  /\ wpc' = "asleep"
  /\ UNCHANGED <<peer, chan, conn, loop, got>>

SpuriousWake ==
  /\ wpc = "asleep"
  /\ wpc' = "reading"
  /\ UNCHANGED <<peer, chan, conn, loop, got>>

\* Some of the bytes, as many as the handler's buffer holds.
ReadTakes ==
  /\ wpc = "reading"
  /\ buf # <<>>
  /\ \E n \in 1..Len(buf) :
       /\ got' = got \o SubSeq(buf, 1, n)
       /\ buf' = SubSeq(buf, n + 1, Len(buf))
  /\ stalled' = FALSE
  /\ wpc' = IF stalled THEN "waking" ELSE "handler"
  /\ UNCHANGED <<peer, eof, fault, drained, refs, conn, loop>>

\* lp.wake(), after the unlock.
ReadWakes ==
  /\ wpc = "waking"
  /\ wakeFd' = TRUE
  /\ wpc' = "handler"
  /\ UNCHANGED <<peer, chan, conn, lpc, caller, batch, done, got>>

\* No bytes left: 0 at the end of the body, -1 after a fault.
ReadEnds ==
  /\ wpc = "reading"
  /\ buf = <<>> /\ (eof \/ fault)
  /\ drained' = (drained \/ ~fault)
  /\ wpc' = "handler"
  /\ UNCHANGED <<peer, buf, eof, fault, stalled, refs, conn, loop, got>>

HandlerReturns ==
  /\ wpc = "handler"
  /\ wpc' = "returned"
  /\ UNCHANGED <<peer, chan, conn, loop, got>>

\* The job gives up its reference.
JobReleases ==
  /\ wpc = "returned"
  /\ refs' = refs - 1
  /\ wpc' = "completing"
  /\ UNCHANGED <<peer, buf, eof, fault, stalled, drained, conn, loop, got>>

\* Broken: the request alone decides.
MayKeepAnyway == {TRUE, FALSE}

\* A response over a body that was not read to its end never keeps the
\* connection; over one that was, the request decides.
MayKeep == IF drained THEN {TRUE, FALSE} ELSE {FALSE}

\* queueCompletion, up to the unlock.
Completes ==
  /\ wpc = "completing"
  /\ \E keep \in MayKeep : done' = done \union {keep}
  /\ wpc' = "notifying"
  /\ UNCHANGED <<peer, chan, conn, lpc, caller, batch, wakeFd, got>>

Notifies ==
  /\ wpc = "notifying"
  /\ wakeFd' = TRUE
  /\ wpc' = "gone"
  /\ UNCHANGED <<peer, chan, conn, lpc, caller, batch, done, got>>

Worker ==
  \/ JobStarts \/ CallsRead \/ ReadSleeps \/ ReadTakes \/ ReadWakes \/ ReadEnds
  \/ HandlerReturns \/ JobReleases \/ Completes \/ Notifies

-----------------------------------------------------------------------------
(* The loop.  pumpBody is entered at lpc = "pump" and left at "pumped"; what *)
(* follows depends on its caller.                                           *)

\* Broken: the slot forgets its reference.
ConnCloseLeaks ==
  /\ state' = "free"
  /\ decoding' = FALSE
  /\ parked' = FALSE
  /\ watch' = FALSE
  /\ bchan' = FALSE
  /\ remaining' = 0
  /\ readBuf' = <<>>
  /\ IF bchan THEN Finish(TRUE, FALSE) ELSE UNCHANGED <<chan, wpc>>

\* connClose: the reader is faulted, the slot's reference given up.
ConnClose ==
  /\ state' = "free"
  /\ decoding' = FALSE
  /\ parked' = FALSE
  /\ watch' = FALSE
  /\ bchan' = FALSE
  /\ remaining' = 0
  /\ readBuf' = <<>>
  /\ IF bchan THEN Finish(TRUE, TRUE) ELSE UNCHANGED <<chan, wpc>>

\* tryServeOne, with the body's elements that came along with the headers.
Dispatch ==
  /\ lpc = "dispatch"
  /\ \E k \in 0..Len(wire) :
       /\ readBuf' = SubSeq(wire, 1, k)
       /\ wire' = SubSeq(wire, k + 1, Len(wire))
  /\ state' = "body"
  /\ decoding' = TRUE
  /\ remaining' = IF chunked THEN 0 ELSE Total
  /\ bchan' = TRUE
  /\ refs' = 2
  /\ wpc' = "queued"
  /\ lpc' = "pump"
  /\ caller' = "dispatch"
  /\ UNCHANGED <<chunked, sent, last, hup, buf, eof, fault, stalled, drained, parked,
                 watch, batch, wakeFd, done, got>>

\* The pool's backlog is full, or a lock cannot be made: an error is the answer.
Sheds ==
  /\ lpc = "dispatch"
  /\ state' = "closing"
  /\ lpc' = "event"
  /\ UNCHANGED <<peer, chan, decoding, remaining, readBuf, parked, watch, bchan,
                 caller, batch, wakeFd, done, worker>>

\* What one turn of the decoder feeds, if anything.  A Content-Length is counted
\* down whatever the bytes are; a chunk ends where its framing goes on.
FrontRun ==
  {n \in 1..Len(readBuf) :
     IF chunked
     THEN /\ \A i \in 1..n : readBuf[i] \in Byte
          /\ n = Len(readBuf) \/ readBuf[n + 1] \notin Byte
     ELSE n <= remaining /\ (n = Len(readBuf) \/ n = remaining)}

\* Broken: what the channel did not take is dropped.
PumpDropsRest ==
  /\ lpc = "pump" /\ decoding
  /\ \E n \in FrontRun :
       LET took == Taken(n) IN
       /\ Feed(n, took)
       /\ readBuf' = SubSeq(readBuf, n + 1, Len(readBuf))
       /\ remaining' = IF chunked THEN 0 ELSE remaining - took
       /\ lpc' = IF ~chunked /\ remaining = took THEN "eof" ELSE "pumped"
  /\ UNCHANGED <<peer, state, decoding, parked, watch, bchan, caller, batch, wakeFd,
                 done, got>>

PumpFeeds ==
  /\ lpc = "pump" /\ decoding
  /\ \E n \in FrontRun :
       LET took == Taken(n) IN
       /\ Feed(n, took)
       /\ readBuf' = SubSeq(readBuf, took + 1, Len(readBuf))
       /\ remaining' = IF chunked THEN 0 ELSE remaining - took
       /\ lpc' = CASE ~chunked /\ remaining = took -> "eof"
                   [] took < n -> "park"
                   [] chunked /\ took = n /\ n < Len(readBuf) -> "pump"
                   [] OTHER -> "pumped"
  /\ UNCHANGED <<peer, state, decoding, parked, watch, bchan, caller, batch, wakeFd,
                 done, got>>

PumpFrame ==
  /\ lpc = "pump" /\ decoding /\ chunked
  /\ readBuf # <<>> /\ Head(readBuf) = Frame
  /\ readBuf' = Tail(readBuf)
  /\ UNCHANGED <<peer, chan, state, decoding, remaining, parked, watch, bchan, loop,
                 worker>>

PumpEnd ==
  /\ lpc = "pump" /\ decoding /\ chunked
  /\ readBuf # <<>> /\ Head(readBuf) = End
  /\ readBuf' = Tail(readBuf)
  /\ lpc' = "eof"
  /\ UNCHANGED <<peer, chan, state, decoding, remaining, parked, watch, bchan, caller,
                 batch, wakeFd, done, worker>>

\* bodyAbort
PumpJunk ==
  /\ lpc = "pump" /\ decoding /\ chunked
  /\ readBuf # <<>> /\ Head(readBuf) = Junk
  /\ readBuf' = <<>>
  /\ decoding' = FALSE
  /\ parked' = FALSE
  /\ watch' = FALSE
  /\ Finish(TRUE, FALSE)
  /\ lpc' = "pumped"
  /\ UNCHANGED <<peer, state, remaining, bchan, caller, batch, wakeFd, done, got>>

PumpDry ==
  /\ lpc = "pump"
  /\ readBuf = <<>> \/ ~decoding
  /\ lpc' = "pumped"
  /\ UNCHANGED <<peer, chan, conn, caller, batch, wakeFd, done, worker>>

\* bodyPark
BodyPark ==
  /\ lpc = "park"
  /\ parked' = TRUE
  /\ watch' = FALSE
  /\ lpc' = "pumped"
  /\ UNCHANGED <<peer, chan, state, decoding, remaining, readBuf, bchan, caller, batch,
                 wakeFd, done, worker>>

\* bodyEof
BodyEof ==
  /\ lpc = "eof"
  /\ Finish(FALSE, FALSE)
  /\ decoding' = FALSE
  /\ parked' = FALSE
  /\ watch' = FALSE
  /\ state' = "handling"
  /\ lpc' = "pumped"
  /\ UNCHANGED <<peer, remaining, readBuf, bchan, caller, batch, wakeFd, done, got>>

Hungry == state = "body" /\ decoding /\ ~parked

\* Back in tryServeOne, bodyReady or resumeBodyPumps, with nothing more to do.
PumpReturns ==
  /\ lpc = "pumped"
  /\ caller = "dispatch" \/ ~Hungry
  /\ lpc' = "event"
  /\ UNCHANGED <<peer, chan, conn, caller, batch, wakeFd, done, worker>>

\* Back in bodyReady, which reads on.
PumpReads ==
  /\ lpc = "pumped" /\ caller = "ready" /\ Hungry
  /\ lpc' = "recv"
  /\ UNCHANGED <<peer, chan, conn, caller, batch, wakeFd, done, worker>>

\* Back in resumeBodyPumps: watch the socket again and go on as in bodyReady.
PumpResumes ==
  /\ lpc = "pumped" /\ caller = "resume" /\ Hungry
  /\ watch' = TRUE
  /\ caller' = "ready"
  /\ lpc' = "pump"
  /\ UNCHANGED <<peer, chan, state, decoding, remaining, readBuf, parked, bchan, batch,
                 wakeFd, done, worker>>

\* addRead fails.
PumpCannotResume ==
  /\ lpc = "pumped" /\ caller = "resume" /\ Hungry
  /\ ConnClose
  /\ lpc' = "event"
  /\ UNCHANGED <<peer, caller, batch, wakeFd, done, got>>

\* connRead in bodyReady: something, nothing yet, or the peer is gone.
Receives ==
  /\ lpc = "recv"
  /\ \E k \in 1..Len(wire) :
       /\ k <= ReadCap
       /\ readBuf' = readBuf \o SubSeq(wire, 1, k)
       /\ wire' = SubSeq(wire, k + 1, Len(wire))
  /\ lpc' = "pump"
  /\ UNCHANGED <<chunked, sent, last, hup, chan, state, decoding, remaining, parked,
                 watch, bchan, caller, batch, wakeFd, done, worker>>

WouldBlock ==
  /\ lpc = "recv"
  /\ wire = <<>> /\ ~hup
  /\ lpc' = "event"
  /\ UNCHANGED <<peer, chan, conn, caller, batch, wakeFd, done, worker>>

PeerGone ==
  /\ lpc = "recv"
  /\ wire = <<>> /\ hup
  /\ ConnClose
  /\ lpc' = "event"
  /\ UNCHANGED <<peer, caller, batch, wakeFd, done, got>>

-----------------------------------------------------------------------------
(* The loop's tick: wait, handle the events in turn, sweep the deadlines. *)

Readable == watch /\ (wire # <<>> \/ hup)

ReadyEvents == (IF Readable THEN {"read"} ELSE {}) \union (IF wakeFd THEN {"wake"} ELSE {})

\* loop.wait reports each ready fd once, in any order, and empties the eventfd.
Waits ==
  /\ lpc = "wait"
  /\ batch' \in {s \in UNION {[1..n -> ReadyEvents] : n \in 0..2} :
                   /\ Len(s) = Cardinality(ReadyEvents)
                   /\ {s[i] : i \in 1..Len(s)} = ReadyEvents}
  /\ wakeFd' = FALSE
  /\ lpc' = "event"
  /\ UNCHANGED <<peer, chan, conn, caller, done, worker>>

\* An event of the socket: bodyReady, or nothing in the other states.
HandlesRead ==
  /\ lpc = "event" /\ batch # <<>> /\ Head(batch) = "read"
  /\ batch' = Tail(batch)
  /\ caller' = "ready"
  /\ lpc' = IF state = "body" THEN "pump" ELSE "event"
  /\ UNCHANGED <<peer, chan, conn, wakeFd, done, worker>>

HandlesWake ==
  /\ lpc = "event" /\ batch # <<>> /\ Head(batch) = "wake"
  /\ batch' = Tail(batch)
  /\ lpc' = "drain"
  /\ UNCHANGED <<peer, chan, conn, caller, wakeFd, done, worker>>

\* drainCompletions, one action per fate of a completion: there is none, the
\* connection is not waiting for one any more, the handler answered before the
\* end of the body, it answered after it, addRead fails or there is no answer.
DrainsNothing ==
  /\ lpc = "drain"
  /\ done = {}
  /\ lpc' = "resume"
  /\ UNCHANGED <<peer, chan, conn, caller, batch, wakeFd, done, worker>>

DrainDiscards ==
  /\ lpc = "drain"
  /\ done # {} /\ state \notin {"body", "handling"}
  /\ done' = {}
  /\ lpc' = "resume"
  /\ UNCHANGED <<peer, chan, conn, caller, batch, wakeFd, worker>>

DrainEarly ==
  /\ lpc = "drain"
  /\ done # {} /\ state = "body"
  /\ done' = {}
  /\ parked' = FALSE
  /\ watch' = FALSE
  /\ readBuf' = <<>>
  /\ decoding' = FALSE
  /\ Finish(TRUE, TRUE)
  /\ bchan' = FALSE
  /\ state' = IF TRUE \in done THEN "next" ELSE "closing"
  /\ lpc' = "resume"
  /\ UNCHANGED <<peer, remaining, caller, batch, wakeFd, got>>

DrainAttaches ==
  /\ lpc = "drain"
  /\ done # {} /\ state = "handling"
  /\ done' = {}
  /\ refs' = refs - 1
  /\ bchan' = FALSE
  /\ watch' = TRUE
  /\ state' = IF TRUE \in done THEN "next" ELSE "closing"
  /\ lpc' = "resume"
  /\ UNCHANGED <<peer, buf, eof, fault, stalled, drained, decoding, remaining, readBuf,
                 parked, caller, batch, wakeFd, worker>>

DrainFails ==
  /\ lpc = "drain"
  /\ done # {} /\ state \in {"body", "handling"}
  /\ done' = {}
  /\ ConnClose
  /\ lpc' = "resume"
  /\ UNCHANGED <<peer, caller, batch, wakeFd, got>>

\* resumeBodyPumps
Resumes ==
  /\ lpc = "resume"
  /\ state = "body" /\ parked
  /\ parked' = FALSE
  /\ caller' = "resume"
  /\ lpc' = "pump"
  /\ UNCHANGED <<peer, chan, state, decoding, remaining, readBuf, watch, bchan, batch,
                 wakeFd, done, worker>>

ResumesNothing ==
  /\ lpc = "resume"
  /\ ~(state = "body" /\ parked)
  /\ lpc' = "event"
  /\ UNCHANGED <<peer, chan, conn, caller, batch, wakeFd, done, worker>>

\* sweepDeadlines: nothing has expired,
SweepPasses ==
  /\ lpc = "event" /\ batch = <<>>
  /\ lpc' = "wait"
  /\ UNCHANGED <<peer, chan, conn, caller, batch, wakeFd, done, worker>>

\* the delivery deadline of the body has,
Evicts ==
  /\ lpc = "event" /\ batch = <<>>
  /\ state = "body"
  /\ ConnClose
  /\ lpc' = "wait"
  /\ UNCHANGED <<peer, caller, batch, wakeFd, done, got>>

\* the handler's has: the answer is a 504, and the worker is left to itself.
HandlerTimeout ==
  /\ lpc = "event" /\ batch = <<>>
  /\ state = "handling"
  /\ readBuf' = <<>>
  /\ state' = "closing"
  /\ UNCHANGED <<peer, chan, decoding, remaining, parked, watch, bchan, loop, worker>>

\* A last response has drained, or its deadline has passed.
CloseEnds ==
  /\ lpc = "event" /\ batch = <<>>
  /\ state = "closing"
  /\ ConnClose
  /\ lpc' = "wait"
  /\ UNCHANGED <<peer, caller, batch, wakeFd, done, got>>

\* Broken: the pool is joined before anything else.
ServerJoinsFirst ==
  /\ lpc = "wait"
  /\ lpc' = "join"
  /\ UNCHANGED <<peer, chan, conn, caller, batch, wakeFd, done, worker>>

\* Server.close, between ticks: a blocked reader is faulted before the pool is
\* joined,
ServerCloses ==
  /\ lpc = "wait"
  /\ IF bchan THEN Finish(TRUE, FALSE) ELSE UNCHANGED <<chan, wpc>>
  /\ lpc' = "join"
  /\ UNCHANGED <<peer, conn, caller, batch, wakeFd, done, got>>

\* and what the workers left behind is freed after it.
Joined ==
  /\ lpc = "join"
  /\ wpc \in {"none", "gone"}
  /\ ConnClose
  /\ done' = {}
  /\ lpc' = "dead"
  /\ UNCHANGED <<peer, caller, batch, wakeFd, got>>

\* Another connection's worker wakes the loop.
OtherWakes ==
  /\ lpc # "dead"
  /\ wakeFd' = TRUE
  /\ UNCHANGED <<peer, chan, conn, lpc, caller, batch, done, worker>>

\* The server is closed.
Closed ==
  /\ lpc = "dead"
  /\ UNCHANGED vars

Pump ==
  \/ PumpFeeds \/ PumpFrame \/ PumpEnd \/ PumpJunk \/ PumpDry \/ BodyPark \/ BodyEof
  \/ PumpReturns \/ PumpReads \/ PumpResumes \/ PumpCannotResume
  \/ Receives \/ WouldBlock \/ PeerGone

Drain ==
  \/ DrainsNothing \/ DrainDiscards \/ DrainEarly \/ DrainAttaches \/ DrainFails

Tick ==
  \/ Dispatch \/ Sheds \/ Waits \/ HandlesRead \/ HandlesWake \/ Resumes
  \/ ResumesNothing \/ SweepPasses \/ Evicts \/ HandlerTimeout \/ CloseEnds \/ Joined

Loop == Pump \/ Drain \/ Tick

Init ==
  /\ chunked \in BOOLEAN /\ sent = 0 /\ last = Frame /\ wire = <<>> /\ hup = FALSE
  /\ buf = <<>> /\ eof = FALSE /\ fault = FALSE /\ stalled = FALSE /\ drained = FALSE
  /\ refs = 0
  /\ state = "reading" /\ decoding = FALSE /\ remaining = 0 /\ readBuf = <<>>
  /\ parked = FALSE /\ watch = TRUE /\ bchan = FALSE
  /\ lpc = "dispatch" /\ caller = "dispatch" /\ batch = <<>> /\ wakeFd = FALSE
  /\ done = {}
  /\ wpc = "none" /\ got = <<>>

NextStep ==
  \/ PeerSends \/ PeerCloses
  \/ Loop
  \/ Worker
  \/ SpuriousWake
  \/ ServerCloses
  \/ OtherWakes
  \/ Closed

Spec == Init /\ [][NextStep]_vars

-----------------------------------------------------------------------------
(* Fairness.  The threads run, and a handler returns in the end; nobody has  *)
(* to send, and without a deadline nobody has to give up.                    *)

FairSpec == Spec /\ WF_vars(Loop) /\ WF_vars(Worker) /\ SF_vars(HandlerReturns)

\* With deadlines: a body that does not complete is evicted in the end, and a
\* last response is given up.
DeadlinesPass == SF_vars(Evicts) /\ SF_vars(CloseEnds)

-----------------------------------------------------------------------------
(* Properties *)

WorkerHolds == wpc \in {"queued", "handler", "reading", "asleep", "waking", "returned"}

TypeOK ==
  /\ chunked \in BOOLEAN /\ hup \in BOOLEAN
  /\ sent \in 0..Total
  /\ last \in Elements
  /\ wire \in Seq(Elements)
  /\ buf \in Seq(Elements) /\ Len(buf) <= Cap
  /\ eof \in BOOLEAN /\ fault \in BOOLEAN /\ stalled \in BOOLEAN /\ drained \in BOOLEAN
  /\ refs \in 0..2
  /\ state \in {"reading", "body", "handling", "next", "closing", "free"}
  /\ decoding \in BOOLEAN /\ parked \in BOOLEAN /\ watch \in BOOLEAN /\ bchan \in BOOLEAN
  /\ remaining \in 0..Total
  /\ readBuf \in Seq(Elements)
  /\ lpc \in {"dispatch", "pump", "park", "eof", "pumped", "recv", "drain", "resume",
              "event", "wait", "join", "dead"}
  /\ caller \in {"dispatch", "ready", "resume"}
  /\ batch \in Seq({"read", "wake"})
  /\ wakeFd \in BOOLEAN
  /\ done \in SUBSET BOOLEAN
  /\ wpc \in {"none", "queued", "handler", "reading", "asleep", "waking", "returned",
              "completing", "notifying", "gone"}
  /\ got \in Seq(Elements)

\* The eventfd is signalled, or will be before its thread does anything else, or
\* the loop is on its way to resumeBodyPumps.
WakePending ==
  \/ wakeFd
  \/ \E i \in 1..Len(batch) : batch[i] = "wake"
  \/ lpc \in {"drain", "resume"}
  \/ wpc \in {"waking", "returned", "completing", "notifying"}

\* No wakeup is lost between a full channel and the parked watch (feed marks
\* stalled, bodyPark parks, read clears it and wakes): while the watch is parked
\* either a wakeup is on its way or the worker will find the channel stalled.
ParkedIsResumed ==
  parked => WakePending \/ (stalled /\ wpc \in {"queued", "handler", "reading"})

\* No signal of the condition variable is lost: a reader that sleeps has
\* nothing to wake for.
SleeperHasNothing == wpc = "asleep" => buf = <<>> /\ ~eof /\ ~fault

\* The loop and the reader never wait for each other: when the loop goes to
\* wait while the reader sleeps, it watches the socket and sits on no byte.
NotBothWaiting ==
  wpc = "asleep" /\ lpc = "wait" /\ ~WakePending =>
    watch /\ state = "body" /\ readBuf = <<>>

\* The read watch follows the need for input: a body that is parked, aborted or
\* complete does not make a level-triggered wait return for ever, and one that
\* waits for input is not deaf.
WatchedIffHungry ==
  lpc = "wait" /\ state \in {"body", "handling"} => watch = Hungry

\* The two references are the slot's and the job's, so that release frees the
\* channel after the last use and only then.
RefsCounted == refs = (IF bchan THEN 1 ELSE 0) + (IF WorkerHolds THEN 1 ELSE 0)

\* What the handler reads is a prefix of the body, whatever the channel and the
\* read buffer split it into, and read tells the end only to a reader that has all
\* of it.
BytesInOrder ==
  /\ \A i \in 1..Len(got \o buf) : (got \o buf)[i] = i
  /\ drained => Len(got) = Total

\* A kept connection goes on with the next request: no byte of the body is left
\* where the parser would take it for one.
KeptIsClean ==
  state = "next" =>
    /\ Ended
    /\ \A i \in 1..Len(readBuf) : readBuf[i] = Pipelined
    /\ \A i \in 1..Len(wire) : wire[i] = Pipelined

\* close does not wait for ever for a worker in readBody.
JoinEnds == lpc = "join" ~> lpc = "dead"

\* When deadlines pass, readBody comes back, whatever the peer does.
ReadReturns == DeadlinesPass => (wpc \in {"reading", "asleep"} ~> wpc \in {"waking", "handler"})

=============================================================================
