----------------------------- MODULE OutStream -----------------------------
(***************************************************************************)
(* A streamed response of the pooled HTTP server: the handler's producer   *)
(* runs on a worker and feeds a bounded channel (std/http/wire.sx,         *)
(* OutChan), from which the loop (std/http/server.sx) takes what it writes *)
(* to the socket.  The worker sleeps while the channel is full, the loop   *)
(* pauses the connection while it is empty, and either may be gone before  *)
(* the other: the peer, a deadline, the end of the stream, a producer that *)
(* fails, Server.close.                                                    *)
(*                                                                         *)
(* One response is followed, from its handler to the end of both sides.    *)
(* Its bytes are numbers; a chunk goes out whole.  Each critical section   *)
(* of the channel's mutex and of the pool state's is a step.  A response   *)
(* that is compressed is a producer like another; the answer to a failed   *)
(* allocation of the channel is not streamed and not modelled.             *)
(***************************************************************************)
EXTENDS Integers, Sequences

CONSTANTS
  Total,  \* a bound of the model on the bytes of the response
  Cap,    \* OUT_CHAN_CAP
  Piece   \* STREAM_PIECE

ASSUME SizesAssumption == Total \in Nat /\ Cap \in Nat \ {0} /\ Piece \in Nat \ {0}

VARIABLES
  chan,        \* the OutChan
  done,        \* the completion is in PoolState.done
  registered,  \* the channel is in PoolState.ochans
  closing,     \* PoolState.closing
  wakeFd,      \* the eventfd is signalled
  \* the worker
  wpc,
  made,        \* bytes the producer has made
  piece,       \* what feedAll has still to feed
  ended,       \* how the producer ended: "no", "done", "failed"
  \* the loop and the connection
  lpc,
  woken,       \* the wait has reported the wake, which is still to be handled
  conn,
  got          \* what went out to the client

shared == <<done, registered, closing>>
producer == <<made, piece, ended>>
vars == <<chan, shared, wakeFd, wpc, producer, lpc, woken, conn, got>>

Head1 == -1  \* the head of the response
Zero == 0    \* the chunk that ends it

Count(n) == [i \in 1..n |-> i]

Init ==
  /\ chan = [buf |-> <<>>, eof |-> FALSE, fault |-> FALSE, producerFault |-> FALSE,
             hungry |-> FALSE, refs |-> 0]
  /\ done = FALSE /\ registered = FALSE /\ closing = FALSE /\ wakeFd = FALSE
  /\ wpc = "handler" /\ made = 0 /\ piece = <<>> /\ ended = "no"
  /\ lpc = "wait" /\ woken = FALSE
  /\ conn = [state |-> "handling", ochan |-> FALSE, waiting |-> FALSE, armed |-> FALSE,
             out |-> <<>>, streamDone |-> FALSE]
  /\ got = <<>>

-----------------------------------------------------------------------------
(* The channel. *)

\* abort, and the release of the reference that goes with it when refs are given up.
Aborted(refs) == [chan EXCEPT !.fault = TRUE, !.refs = @ - refs]

\* A signal to the condition variable, on which only the worker waits.
Signalled == IF wpc = "asleep" THEN "feed" ELSE wpc

Filled(n) == [chan EXCEPT !.buf = @ \o SubSeq(piece, 1, n), !.hungry = FALSE]

Space == Cap - Len(chan.buf)

\* Broken: the room in the channel is not looked at.
FittingAll == Len(piece)

Fitting == IF Len(piece) < Space THEN Len(piece) ELSE Space

-----------------------------------------------------------------------------
(* The worker: runHandlerJob.  Its steps leave the loop and the connection   *)
(* alone.                                                                    *)

Works(from, to) ==
  /\ wpc = from /\ wpc' = to
  /\ UNCHANGED <<closing, lpc, woken, conn, got>>

\* The head is serialized, the channel has a reference for the completion, which
\* is queued,
Queues ==
  /\ Works("handler", "notify")
  /\ chan' = [chan EXCEPT !.refs = 2]
  /\ done' = TRUE
  /\ UNCHANGED <<registered, wakeFd, producer>>

\* or dropped because the queue is full.
QueueIsFull ==
  /\ Works("handler", "notify")
  /\ chan' = [chan EXCEPT !.fault = TRUE, !.refs = 1]
  /\ UNCHANGED <<done, registered, wakeFd, producer>>

Notifies ==
  /\ Works("notify", "register")
  /\ wakeFd' = TRUE
  /\ UNCHANGED <<chan, done, registered, producer>>

\* Broken: a worker that registers late is not aborted.
RegistersUnseen ==
  /\ Works("register", "pull")
  /\ registered' = TRUE
  /\ UNCHANGED <<chan, done, wakeFd, producer>>

\* ochanRegister
Registers ==
  /\ Works("register", IF closing THEN "late" ELSE "pull")
  /\ registered' = TRUE
  /\ UNCHANGED <<chan, done, wakeFd, producer>>

AbortsLate ==
  /\ Works("late", "pull")
  /\ chan' = Aborted(0)
  /\ UNCHANGED <<done, registered, wakeFd, producer>>

Pulls ==
  /\ Works("pull", "feed")
  /\ \E n \in 1..Piece :
       /\ made + n <= Total
       /\ made' = made + n
       /\ piece' = [i \in 1..n |-> made + i]
  /\ UNCHANGED <<chan, done, registered, wakeFd, ended>>

PullsLast ==
  /\ Works("pull", "finish")
  /\ ended' \in {"done", "failed"}
  /\ UNCHANGED <<chan, done, registered, wakeFd, made, piece>>

\* feedAll, one turn: give up,
FeedFails ==
  /\ chan.fault
  /\ Works("feed", "unregister")
  /\ UNCHANGED <<chan, done, registered, wakeFd, producer>>

\* sleep,
FeedSleeps ==
  /\ Space = 0 /\ ~chan.fault
  /\ Works("feed", "asleep")
  /\ UNCHANGED <<chan, done, registered, wakeFd, producer>>

\* without being signalled, too,
Awakes ==
  /\ Works("asleep", "feed")
  /\ UNCHANGED <<chan, done, registered, wakeFd, producer>>

AfterFeed == IF piece' = <<>> THEN "pull" ELSE "feed"

\* or put in what there is room for.
Feeds ==
  /\ Space > 0 /\ ~chan.fault
  /\ piece' = SubSeq(piece, Fitting + 1, Len(piece))
  /\ chan' = Filled(Fitting)
  /\ Works("feed", IF chan.hungry THEN "wake" ELSE AfterFeed)
  /\ UNCHANGED <<done, registered, wakeFd, made, ended>>

FeedWakes ==
  /\ Works("wake", IF piece = <<>> THEN "pull" ELSE "feed")
  /\ wakeFd' = TRUE
  /\ UNCHANGED <<chan, done, registered, producer>>

\* finishEof, finishFault
Finishes ==
  /\ Works("finish", IF chan.hungry THEN "endwake" ELSE "unregister")
  /\ chan' = [chan EXCEPT !.eof = ended = "done", !.producerFault = ended = "failed",
                          !.hungry = FALSE]
  /\ UNCHANGED <<done, registered, wakeFd, producer>>

FinishWakes ==
  /\ Works("endwake", "unregister")
  /\ wakeFd' = TRUE
  /\ UNCHANGED <<chan, done, registered, producer>>

Unregisters ==
  /\ Works("unregister", "release")
  /\ registered' = FALSE
  /\ UNCHANGED <<chan, done, wakeFd, producer>>

Releases ==
  /\ Works("release", "gone")
  /\ chan' = [chan EXCEPT !.refs = @ - 1]
  /\ UNCHANGED <<done, registered, wakeFd, producer>>

Worker ==
  \/ Queues \/ QueueIsFull \/ Notifies \/ Registers \/ AbortsLate
  \/ Pulls \/ PullsLast
  \/ FeedFails \/ FeedSleeps \/ Feeds \/ FeedWakes
  \/ Finishes \/ FinishWakes \/ Unregisters \/ Releases

-----------------------------------------------------------------------------
(* The loop. *)

Loop(from, to) ==
  /\ lpc = from /\ lpc' = to
  /\ UNCHANGED <<registered, producer>>

Gone == [conn EXCEPT !.state = "gone", !.ochan = FALSE, !.waiting = FALSE, !.armed = FALSE]

\* connClose
ConnClose ==
  /\ conn' = Gone
  /\ IF conn.ochan
       THEN chan' = Aborted(1) /\ wpc' = Signalled
       ELSE UNCHANGED <<chan, wpc>>

Waits ==
  /\ Loop("wait", "events")
  /\ woken' = wakeFd /\ wakeFd' = FALSE
  /\ UNCHANGED <<chan, done, closing, wpc, conn, got>>

\* The wake of another connection.
OtherWakes ==
  /\ lpc # "dead"
  /\ wakeFd' = TRUE
  /\ UNCHANGED <<chan, shared, wpc, producer, lpc, woken, conn, got>>

\* drainCompletions: nothing is queued,
DrainsNothing ==
  /\ Loop("events", "resume")
  /\ woken /\ woken' = FALSE
  /\ ~done
  /\ UNCHANGED <<chan, done, closing, wakeFd, wpc, conn, got>>

Drains(to) ==
  /\ Loop("events", to)
  /\ woken /\ woken' = FALSE
  /\ done /\ done' = FALSE
  /\ UNCHANGED <<closing, wakeFd, got>>

\* Broken: the reference of the completion is kept.
DiscardsUnreleased ==
  /\ Drains("resume")
  /\ conn.state = "gone"
  /\ chan' = Aborted(0) /\ wpc' = Signalled
  /\ UNCHANGED conn

\* the connection is gone, or has had a 504,
Discards ==
  /\ Drains("resume")
  /\ conn.state = "gone"
  /\ chan' = Aborted(1) /\ wpc' = Signalled
  /\ UNCHANGED conn

\* there is no memory, or the fd cannot be watched,
AttachFails ==
  /\ Drains("resume")
  /\ conn.state = "handling"
  /\ chan' = Aborted(1) /\ wpc' = Signalled
  /\ conn' = Gone

\* or the response begins.
Attaches ==
  /\ Drains("write")
  /\ conn.state = "handling"
  /\ conn' = [conn EXCEPT !.state = "writing", !.ochan = TRUE, !.out = <<Head1>>]
  /\ UNCHANGED <<chan, wpc>>

\* resumeStreamPumps
Resumes ==
  /\ Loop("resume", "write")
  /\ conn.waiting
  /\ conn' = [conn EXCEPT !.waiting = FALSE]
  /\ UNCHANGED <<chan, done, closing, wakeFd, wpc, woken, got>>

ResumesNothing ==
  /\ Loop("resume", "events")
  /\ ~conn.waiting
  /\ UNCHANGED <<chan, done, closing, wakeFd, wpc, woken, conn, got>>

Writable ==
  /\ Loop("events", "write")
  /\ conn.armed
  /\ UNCHANGED <<chan, done, closing, wakeFd, wpc, woken, conn, got>>

-----------------------------------------------------------------------------
(* writeMore.  It returns to the events: after an attach the loop goes on to  *)
(* resumeStreamPumps, which finds no other connection here than this one, as  *)
(* it is left.                                                                *)

Writing(to) ==
  /\ Loop("write", to)
  /\ UNCHANGED <<done, closing, wakeFd, woken>>

WriteBlocks ==
  /\ Writing("events")
  /\ conn' = [conn EXCEPT !.armed = TRUE]
  /\ UNCHANGED <<chan, wpc, got>>

WriteFails ==
  /\ Writing("events")
  /\ ConnClose
  /\ UNCHANGED got

Sends ==
  /\ Writing("refill")
  /\ ~conn.streamDone
  /\ got' = got \o conn.out
  /\ conn' = [conn EXCEPT !.out = <<>>]
  /\ UNCHANGED <<chan, wpc>>

\* The last chunk is out; the connection is closed or kept.
SendsLast ==
  /\ Writing("events")
  /\ conn.streamDone
  /\ got' = got \o conn.out
  /\ conn' = [Gone EXCEPT !.out = <<>>]
  /\ chan' = [chan EXCEPT !.refs = @ - 1]
  /\ UNCHANGED wpc

Refills(to) ==
  /\ Loop("refill", to)
  /\ UNCHANGED <<done, closing, wakeFd, woken, got>>

Taken == IF Len(chan.buf) < Piece THEN Len(chan.buf) ELSE Piece

\* streamRefill: take finds bytes,
RefillsData ==
  /\ Refills("write")
  /\ Taken > 0
  /\ chan' = [chan EXCEPT !.buf = SubSeq(@, Taken + 1, Len(@))] /\ wpc' = Signalled
  /\ conn' = [conn EXCEPT !.out = SubSeq(chan.buf, 1, Taken)]

\* a producer that failed,
RefillFails ==
  /\ Refills("events")
  /\ Taken = 0 /\ chan.producerFault
  /\ ConnClose

\* Broken: a failed producer ends the response like another.
RefillsAnyEnd ==
  /\ Refills("write")
  /\ Taken = 0 /\ (chan.eof \/ chan.producerFault)
  /\ conn' = [conn EXCEPT !.out = <<Zero>>, !.streamDone = TRUE]
  /\ UNCHANGED <<chan, wpc>>

\* the end,
RefillsEnd ==
  /\ Refills("write")
  /\ Taken = 0 /\ ~chan.producerFault /\ chan.eof
  /\ conn' = [conn EXCEPT !.out = <<Zero>>, !.streamDone = TRUE]
  /\ UNCHANGED <<chan, wpc>>

\* or nothing yet: the connection pauses.
Pauses ==
  /\ Refills("events")
  /\ Taken = 0 /\ ~chan.producerFault /\ ~chan.eof
  /\ chan' = [chan EXCEPT !.hungry = TRUE]
  /\ conn' = [conn EXCEPT !.waiting = TRUE, !.armed = FALSE]
  /\ UNCHANGED wpc

-----------------------------------------------------------------------------
(* The ends of the connection and of the server. *)

InEvents(to) ==
  /\ Loop("events", to)
  /\ UNCHANGED <<done, closing, wakeFd, woken, got>>

\* readMore; the socket of a request in service is not watched.
PeerGone ==
  /\ InEvents("events")
  /\ conn.state = "writing"
  /\ ConnClose

\* sweepDeadlines, after the events: a 504 or an abrupt close.
Evicts ==
  /\ InEvents("wait")
  /\ ~woken
  /\ conn.state # "gone"
  /\ ConnClose

EventsEnd ==
  /\ InEvents("wait")
  /\ ~woken
  /\ UNCHANGED <<chan, wpc, conn>>

\* Server.close, before the pool is joined
ServerCloses ==
  /\ Loop("wait", "join")
  /\ closing' = TRUE
  /\ IF registered THEN chan' = Aborted(0) /\ wpc' = Signalled ELSE UNCHANGED <<chan, wpc>>
  /\ UNCHANGED <<done, wakeFd, woken, conn, got>>

\* and after: the connection is closed, or the completion was never drained.
Joined ==
  /\ Loop("join", "dead")
  /\ wpc = "gone"
  /\ conn' = Gone
  /\ chan' = IF conn.ochan THEN Aborted(1)
             ELSE IF done THEN [chan EXCEPT !.refs = @ - 1] ELSE chan
  /\ done' = FALSE
  /\ UNCHANGED <<closing, wakeFd, wpc, woken, got>>

Dead == lpc = "dead" /\ UNCHANGED vars

Handles ==
  \/ DrainsNothing \/ Discards \/ AttachFails \/ Attaches
  \/ Resumes \/ ResumesNothing
  \/ WriteBlocks \/ WriteFails \/ Sends \/ SendsLast
  \/ RefillsData \/ RefillFails \/ RefillsEnd \/ Pauses

Next ==
  \/ Worker \/ Awakes \/ OtherWakes
  \/ Waits \/ Handles \/ Writable \/ PeerGone \/ Evicts \/ EventsEnd
  \/ ServerCloses \/ Joined \/ Dead

Spec == Init /\ [][Next]_vars

\* The worker and the loop go on, the producer returns, and a wait reports finitely
\* many events.
Progress ==
  /\ WF_vars(Worker)
  /\ WF_vars(Waits) /\ WF_vars(Handles) /\ SF_vars(DrainsNothing \/ Discards \/ Attaches)
  /\ SF_vars(EventsEnd)
  /\ WF_vars(Joined)

\* A connection that makes no progress is evicted.
Stalled == Evicts /\ conn.armed

FairSpec == Spec /\ Progress /\ SF_vars(Stalled)

-----------------------------------------------------------------------------
(* Properties *)

TypeOK ==
  /\ chan \in [buf : Seq(1..Total), eof : BOOLEAN, fault : BOOLEAN,
               producerFault : BOOLEAN, hungry : BOOLEAN, refs : 0..2]
  /\ Len(chan.buf) <= Cap
  /\ done \in BOOLEAN /\ registered \in BOOLEAN /\ closing \in BOOLEAN
  /\ wakeFd \in BOOLEAN /\ woken \in BOOLEAN
  /\ wpc \in {"handler", "notify", "register", "late", "pull", "feed", "asleep", "wake",
              "finish", "endwake", "unregister", "release", "gone"}
  /\ made \in 0..Total /\ piece \in Seq(1..Total) /\ ended \in {"no", "done", "failed"}
  /\ lpc \in {"wait", "events", "resume", "write", "refill", "join", "dead"}
  /\ conn \in [state : {"handling", "writing", "gone"}, ochan : BOOLEAN, waiting : BOOLEAN,
               armed : BOOLEAN, out : Seq(-1..Total), streamDone : BOOLEAN]
  /\ got \in Seq(-1..Total)

\* The channel's references are the worker's, and that of the completion or of the
\* connection it was attached to: it is freed once, after its last use.
RefsCounted ==
  /\ chan.refs = (IF wpc \in {"handler", "gone"} THEN 0 ELSE 1)
                   + (IF done \/ conn.ochan THEN 1 ELSE 0)
  /\ ~(done /\ conn.ochan)
  /\ registered => wpc \notin {"handler", "gone"}

\* A whole response, piece by piece: its head, its bytes, its end.
Whole(i) == IF i = 1 THEN Head1 ELSE IF i <= made + 1 THEN i - 1 ELSE Zero

\* What the client has is the head, then what the producer made, in order; and the
\* chunk that ends the response is told only when all of it was sent and the
\* producer did not fail: a response that was cut short shows as such.
CutShortShows ==
  /\ Len(got) <= made + 2
  /\ \A i \in DOMAIN got : got[i] = Whole(i)
  /\ Len(got) = made + 2 => ended = "done"

\* The worker gets away: a feeder that is blocked is let go by the loop that takes
\* from the channel, by the end of the connection, by the deadline of a peer that
\* does not read, or by close, also one that has not registered when close looks.
WorkerReturns == <>(wpc = "gone")

=============================================================================
