----------------------------- MODULE ClientPool -----------------------------
(***************************************************************************)
(* The keep-alive pool of the HTTP client (std/http/client.sx, ClientPool):*)
(* one thread fetches through it, following redirects, reusing the open    *)
(* connection of an origin, and retrying once what a reused connection     *)
(* refused.  At the other end of each connection stands a server that may  *)
(* close it at any moment: while it is idle, while the request arrives,    *)
(* before, inside or after its answer.                                     *)
(*                                                                         *)
(* Every hop of a fetch is a request with a number of its own.  What the   *)
(* server sends is a sequence of pieces, each with the number of the       *)
(* request it answers: an informational head, some bytes of a head, the    *)
(* rest of it, some bytes of a body, the rest of it.  Informational heads  *)
(* and the pieces of a head or a body may go on without end, and recvOn    *)
(* reads on for as long as they come: both timeouts of ClientOpts are set, *)
(* and bound each operation and not the answer.  The credentials of a hop, *)
(* TLS and content codings change no connection and are left out.          *)
(***************************************************************************)
EXTENDS Integers, Sequences, FiniteSets

CONSTANTS
  Origin,        \* (https, host, port), the key of an entry
  MaxRedirects,  \* opts.maxRedirects
  MaxRequests,   \* a bound of the model on the requests made
  MaxUnread      \* a bound of the model on the pieces unread on a connection

ASSUME OriginAssumption == Origin # {} /\ IsFiniteSet(Origin)
ASSUME BoundsAssumption == MaxRedirects \in Nat /\ MaxRequests \in Nat /\ MaxUnread \in Nat

VARIABLES
  \* the client
  pc,        \* where fetch is: see Pc
  entries,   \* ClientPool.entries: the origin, the connection, live
  req,       \* the request of the hop: its number, its origin, its method
  hops,
  idx,       \* the entry hop works with; 0 for none
  reused, attempt,
  wasHead,   \* requestWasHead
  seen,      \* what recvOn has read of the answer
  \* the connections, and the servers at their other end
  conn,
  \* history
  executed,  \* how often each request was executed
  lost       \* requests executed on a connection that ended before the client
             \* had read a byte of the answer

hop == <<req, hops, attempt>>
history == <<executed, lost>>
vars == <<pc, entries, hop, idx, reused, wasHead, seen, conn, history>>

Conns == 1..Cardinality(Origin)
Requests == 1..MaxRequests
Methods == {"GET", "HEAD"}
Pc == {"idle", "hop", "dial", "send", "sending", "recv", "took", "closed"}
Pieces == {"info", "half", "empty", "sized", "till", "more", "body"}

\* A connection nobody holds.
NoConn == [open |-> FALSE, end |-> "up", rid |-> 0, head |-> FALSE, stage |-> "idle", wire |-> <<>>]

Init ==
  /\ pc = "idle" /\ entries = <<>>
  /\ req = [id |-> 0, origin |-> CHOOSE o \in Origin : TRUE, method |-> "GET"]
  /\ hops = 0 /\ idx = 0 /\ reused = FALSE /\ attempt = 0
  /\ wasHead = FALSE /\ seen = "nothing"
  /\ conn = [c \in Conns |-> NoConn]
  /\ executed = [r \in Requests |-> 0] /\ lost = {}

-----------------------------------------------------------------------------
(* The pool. *)

\* Broken: a search that fails ends behind the last entry.
FindBehind(o) == LET found == {i \in DOMAIN entries : entries[i].live /\ entries[i].origin = o}
                 IN IF found = {} THEN Len(entries) + 1 ELSE CHOOSE i \in found : \A j \in found : i <= j

\* find; 0 for -1.
Find(o) == LET found == {i \in DOMAIN entries : entries[i].live /\ entries[i].origin = o}
           IN IF found = {} THEN 0 ELSE CHOOSE i \in found : \A j \in found : i <= j

\* Broken: the first entry is overwritten, live or not.
StoreFirst == 1

\* The slot store fills: the first dead one, else a new one.
StoreAt == LET dead == {i \in DOMAIN entries : ~entries[i].live}
           IN IF dead = {} THEN Len(entries) + 1 ELSE CHOOSE i \in dead : \A j \in dead : i <= j

Stored(i, e) == IF i > Len(entries) THEN Append(entries, e) ELSE [entries EXCEPT ![i] = e]

Current == entries[idx].conn

\* recvOn has read no byte of the answer, and is not about to refuse one.
Unread(c) == seen = "nothing" /\ ~(pc = "recv" /\ conn[c].wire # <<>>)

\* drop: the entry dies and its connection is closed.  The request the server may
\* not have read yet is executed or not, and an answer nobody read a byte of is lost.
Drops ==
  LET it == conn[Current]
      once == [executed EXCEPT ![it.rid] = @ + 1]
  IN /\ entries' = [entries EXCEPT ![idx].live = FALSE]
     /\ conn' = [conn EXCEPT ![Current] = NoConn]
     /\ \/ it.stage \in {"part", "whole"} /\ it.end = "up"
           /\ executed' = once /\ lost' = lost \union {it.rid}
        \/ executed' = executed
           /\ lost' = IF it.stage \notin {"idle", "part", "whole"} /\ Unread(Current)
                      THEN lost \union {it.rid} ELSE lost

Keeps == UNCHANGED <<entries, conn, history>>

-----------------------------------------------------------------------------
(* fetch and hop. *)

\* fetch, up to its first hop.
Fetches(o, m) ==
  /\ pc = "idle" /\ pc' = "hop"
  /\ req.id + 1 + MaxRedirects <= MaxRequests
  /\ req' = [id |-> req.id + 1, origin |-> o, method |-> m]
  /\ hops' = 0
  /\ UNCHANGED <<entries, idx, reused, attempt, wasHead, seen, conn, history>>

\* hop, up to its loop.
Finds ==
  /\ pc = "hop"
  /\ idx' = Find(req.origin)
  /\ reused' = (idx' # 0) /\ attempt' = 0
  /\ pc' = IF idx' = 0 THEN "dial" ELSE "send"
  /\ seen' = "nothing"
  /\ UNCHANGED <<entries, req, hops, wasHead, conn, history>>

Dials ==
  /\ pc = "dial" /\ pc' = "send"
  /\ \E c \in Conns :
       /\ ~conn[c].open
       /\ conn' = [conn EXCEPT ![c] = [NoConn EXCEPT !.open = TRUE]]
       /\ idx' = StoreAt
       /\ entries' = Stored(StoreAt, [origin |-> req.origin, conn |-> c, live |-> TRUE])
  /\ reused' = FALSE
  /\ UNCHANGED <<hop, wasHead, seen, history>>

DialFails ==
  /\ pc = "dial" /\ pc' = "idle"
  /\ UNCHANGED <<entries, hop, idx, reused, wasHead, seen, conn, history>>

\* sendOn: some of the request is written.  What is written to a connection its
\* server has closed goes nowhere.
Sends ==
  /\ pc = "send" /\ pc' = "sending"
  /\ conn[Current].end # "reset"
  /\ conn' = IF conn[Current].end = "eof" THEN conn
             ELSE [conn EXCEPT ![Current].rid = req.id, ![Current].stage = "part",
                               ![Current].head = (req.method = "HEAD")]
  /\ UNCHANGED <<entries, hop, idx, reused, wasHead, seen, history>>

\* Broken: the mark of a HEAD request is never cleared.
SendsAllStale ==
  /\ pc = "sending" /\ pc' = "recv"
  /\ conn[Current].end # "reset"
  /\ conn' = IF conn[Current].stage = "part" THEN [conn EXCEPT ![Current].stage = "whole"] ELSE conn
  /\ wasHead' = (wasHead \/ req.method = "HEAD")
  /\ UNCHANGED <<entries, hop, idx, reused, seen, history>>

\* The rest of the request is written, and recvOn begins.
SendsAll ==
  /\ pc = "sending" /\ pc' = "recv"
  /\ conn[Current].end # "reset"
  /\ conn' = IF conn[Current].stage = "part" THEN [conn EXCEPT ![Current].stage = "whole"] ELSE conn
  /\ wasHead' = (req.method = "HEAD")
  /\ UNCHANGED <<entries, hop, idx, reused, seen, history>>

\* Broken: a reused connection is retried whatever went wrong with it.
RetriesAnyFault(err) == reused /\ attempt = 0

\* What hop retries.
Retries(err) == err \in {"Send", "Closed"} /\ reused /\ attempt = 0

\* Broken: a request that cannot be sent is tried again for ever.
FailsForever(err) ==
  /\ Drops
  /\ idx' = 0
  /\ pc' = IF err = "Send" \/ Retries(err) THEN "dial" ELSE "idle"
  /\ reused' = FALSE /\ seen' = "nothing"
  /\ UNCHANGED <<hop, wasHead>>

\* hop after an error of sendOn or recvOn.
Fails(err) ==
  /\ Drops
  /\ idx' = 0
  /\ pc' = IF Retries(err) THEN "dial" ELSE "idle"
  /\ attempt' = IF Retries(err) THEN attempt + 1 ELSE attempt
  /\ reused' = IF Retries(err) THEN FALSE ELSE reused
  /\ seen' = "nothing"
  /\ UNCHANGED <<req, hops, wasHead>>

\* A write fails because the connection is gone or because it timed out.
SendFails == pc \in {"send", "sending"} /\ Fails("Send")

-----------------------------------------------------------------------------
(* recvOn. *)

\* A read takes the next piece from the wire.
Takes(piece, next) ==
  /\ pc = "recv"
  /\ conn[Current].wire # <<>> /\ Head(conn[Current].wire) = piece
  /\ conn' = [conn EXCEPT ![Current].wire = Tail(@)]
  /\ IF next = "answer"
     THEN pc' = "took"
     ELSE pc' = pc
  /\ seen' = next
  /\ UNCHANGED <<entries, hop, idx, reused, wasHead, history>>

\* An informational head is skipped, what has come of a head is kept,
ReadsInfo == seen \in {"nothing", "info"} /\ Takes("info", "info")
ReadsHalf == seen \in {"nothing", "info", "half"} /\ Takes("half", "half")

\* and the end of the head tells whether a body follows and how it ends.
ReadsHead ==
  \/ Takes("empty", "answer")
  \/ \E framing \in {"sized", "till"} : Takes(framing, IF wasHead THEN "answer" ELSE framing)

\* Some of a body is kept, and a body where no head has come is read as one.
ReadsMore == Takes("more", IF seen \in {"sized", "till"} THEN seen ELSE "half")
ReadsBody == Takes("body", CASE seen = "sized" -> "answer"
                             [] seen = "till" -> "till"
                             [] seen \in {"nothing", "info", "half"} -> "half")

\* A read that returns bytes and leads to BadStatus, Recv, TooLarge or Allocation.
ReadsBadly ==
  /\ pc = "recv" /\ conn[Current].wire # <<>>
  /\ Fails("Recv")

\* The end of the stream, or a reset.
ReadsEnd ==
  /\ pc = "recv" /\ conn[Current].wire = <<>> /\ conn[Current].end # "up"
  /\ IF seen = "till" /\ conn[Current].end = "eof"
     THEN /\ pc' = "took" /\ seen' = "answer"
          /\ Keeps
          /\ UNCHANGED <<hop, idx, reused, wasHead>>
     ELSE Fails(IF seen = "nothing" THEN "Closed" ELSE "Recv")

\* The read times out.
ReadsNothing ==
  /\ pc = "recv" /\ conn[Current].wire = <<>> /\ conn[Current].end = "up"
  /\ Fails("Recv")

Receives == \/ ReadsInfo \/ ReadsHalf \/ ReadsHead \/ ReadsMore \/ ReadsBody
            \/ ReadsBadly \/ ReadsEnd \/ ReadsNothing

\* A read after which recvOn goes on reading.
ReadsOn == Receives /\ pc' = "recv"

-----------------------------------------------------------------------------
(* The answer: hop drops the connection if it says close, and fetch returns  *)
(* it, follows it, or raises Redirect or Url.                                *)

\* The connection is the pool's again.
Rests == [conn EXCEPT ![Current].stage = "idle", ![Current].rid = 0, ![Current].head = FALSE]

Hopped ==
  /\ pc = "took"
  /\ \/ Drops
     \/ conn' = Rests /\ UNCHANGED <<entries, history>>
  /\ UNCHANGED <<idx, reused, attempt, wasHead, seen>>

Returns == Hopped /\ pc' = "idle" /\ UNCHANGED <<req, hops>>

\* A redirect beyond the limit, or to no URL.
Raises == Hopped /\ MaxRedirects > 0 /\ pc' = "idle" /\ hops' = hops + 1 /\ UNCHANGED req

Follows ==
  /\ Hopped
  /\ hops < MaxRedirects
  /\ pc' = "hop" /\ hops' = hops + 1
  /\ \E o \in Origin, m \in {req.method, "GET"} :
       req' = [id |-> req.id + 1, origin |-> o, method |-> m]

\* ClientPool.close, after the last fetch.
Closes ==
  /\ pc = "idle" /\ pc' = "closed"
  /\ entries' = <<>>
  /\ conn' = [c \in Conns |-> IF \E i \in DOMAIN entries : entries[i].live /\ entries[i].conn = c
                              THEN NoConn ELSE conn[c]]
  /\ UNCHANGED <<hop, idx, reused, wasHead, seen, history>>

Fetching ==
  \/ Finds \/ Dials \/ DialFails \/ Sends \/ SendsAll \/ SendFails
  \/ Receives
  \/ Returns \/ Raises \/ Follows

-----------------------------------------------------------------------------
(* The server of a connection.  It may execute a request whose body is still *)
(* coming: a route with a streamed body does.                                *)

Serves(c) ==
  /\ conn[c].open /\ conn[c].end = "up"
  /\ UNCHANGED <<pc, entries, hop, idx, reused, wasHead, seen>>

Executes(c) ==
  /\ Serves(c)
  /\ conn[c].stage \in {"part", "whole"}
  /\ conn' = [conn EXCEPT ![c].stage = "ran"]
  /\ executed' = [executed EXCEPT ![conn[c].rid] = @ + 1]
  /\ UNCHANGED lost

Writes(c, from, piece, to) ==
  /\ Serves(c)
  /\ conn[c].stage = from /\ Len(conn[c].wire) < MaxUnread
  /\ conn' = [conn EXCEPT ![c].wire = Append(@, piece), ![c].stage = to]
  /\ UNCHANGED history

\* The answer to a HEAD request has the head of a body and no body.
Answers(c) ==
  \/ \E from \in {"ran", "informed"} : Writes(c, from, "info", "informed")
  \/ \E from \in {"ran", "informed", "half"} : Writes(c, from, "half", "half")
  \/ Writes(c, "half", "empty", "sent")
  \/ \E framing \in {"sized", "till"} :
       Writes(c, "half", framing, IF conn[c].head THEN "sent" ELSE framing)
  \/ \E framing \in {"sized", "till"} : \/ Writes(c, framing, "more", framing)
                                       \/ Writes(c, framing, "body", "sent")

\* The server closes: what it sent is still read, unless it resets.
HangsUp(c, how) ==
  /\ Serves(c)
  /\ conn' = [conn EXCEPT ![c].end = how, ![c].wire = IF how = "eof" THEN @ ELSE <<>>]
  /\ lost' = IF /\ conn[c].stage \notin {"idle", "part", "whole"}
                /\ seen = "nothing"
                /\ conn'[c].wire = <<>>
             THEN lost \union {conn[c].rid} ELSE lost
  /\ UNCHANGED executed

Server == \E c \in Conns : Executes(c) \/ Answers(c) \/ \E how \in {"eof", "reset"} : HangsUp(c, how)

Next ==
  \/ \E o \in Origin, m \in Methods : Fetches(o, m)
  \/ Closes
  \/ Fetching
  \/ Server

Spec == Init /\ [][Next]_vars

\* The client's thread runs: each connect, write and read ends by its timeout at
\* the latest.  Servers owe nothing.
FairSpec == Spec /\ WF_vars(Fetching)

-----------------------------------------------------------------------------
TypeOK ==
  /\ pc \in Pc
  /\ entries \in Seq([origin : Origin, conn : Conns, live : BOOLEAN])
  /\ req \in [id : 0..MaxRequests, origin : Origin, method : Methods]
  /\ hops \in 0..MaxRedirects + 1
  /\ idx \in 0..Len(entries) \/ pc = "closed"
  /\ reused \in BOOLEAN /\ attempt \in 0..1 /\ wasHead \in BOOLEAN
  /\ seen \in {"nothing", "info", "half", "sized", "till", "answer"}
  /\ \A c \in Conns :
       /\ conn[c].open \in BOOLEAN /\ conn[c].head \in BOOLEAN
       /\ conn[c].end \in {"up", "eof", "reset"}
       /\ conn[c].rid \in {0} \union Requests
       /\ conn[c].stage \in {"idle", "part", "whole", "ran", "informed", "half", "sized", "till", "sent"}
       /\ conn[c].wire \in Seq(Pieces)
  /\ executed \in [Requests -> Nat] /\ lost \in SUBSET Requests

\* The pool holds every open connection once, and one at most per origin: none is
\* leaked by a retry, a redirect or the reuse of a slot, and none is open after close.
PoolHoldsOpen ==
  LET live == {i \in DOMAIN entries : entries[i].live}
  IN /\ \A i, j \in live : i # j => /\ entries[i].conn # entries[j].conn
                                   /\ entries[i].origin # entries[j].origin
     /\ {c \in Conns : conn[c].open} = {entries[i].conn : i \in live}

\* A connection that rests in the pool owes nothing: nothing of an earlier answer is
\* on its wire and its server is not at work, so that the next answer read from it is
\* the answer to the next request.  Every way out of recvOn has to see to it.
RestingOwesNothing ==
  \A i \in DOMAIN entries :
    entries[i].live /\ ~(i = idx /\ pc \in {"sending", "recv", "took"}) =>
      conn[entries[i].conn].wire = <<>> /\ conn[entries[i].conn].stage = "idle"

\* The retry of hop: a request is executed at most twice, and twice only if the
\* connection of the first time ended before a byte of the answer was read.
RepeatedOnlyIfLost == \A r \in Requests : executed[r] <= IF r \in lost THEN 2 ELSE 1

\* What the comment at client.sx:1158 says of the retry: the request provably never
\* executed.  A server that executes a request and closes without answering refutes it.
NeverRepeated == \A r \in Requests : executed[r] <= 1

\* The answers end: the reads after which recvOn goes on are finitely many.  Neither
\* timeout gives that.  maxResponseBytes, unbounded by default, gives it for a head and a
\* body, and nothing gives it for informational heads: recvOn counts each afresh
\* (client.sx:967-974).
AnswersEnd == <>[][~ReadsOn]_vars

\* Every fetch ends if the answers do, however servers stall, close and reset: hop tries a
\* request again once at most, fetch follows finitely many redirects, and no path of
\* either leads back to a dial, a write or a read for ever.
FetchEnds == AnswersEnd => (pc \notin {"idle", "closed"} ~> pc \in {"idle", "closed"})
=============================================================================
