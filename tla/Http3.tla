------------------------------- MODULE Http3 -------------------------------
(***************************************************************************)
(* HTTP/3 requests (http3/): the client's pool of connections, its retries *)
(* and its reaction to GOAWAY; the server's accept loops and its Shutdown  *)
(* and Close.                                                              *)
(*                                                                         *)
(* One host name, so that the pool is one entry.  Connections are numbered *)
(* in the order they are dialed, request streams of a connection 0, 1, ... *)
(* (their QUIC stream IDs are four times that).  A request has no body; a  *)
(* response is its arrival and its end.  The steps of a request are the    *)
(* sections of RoundTrip between which another goroutine can run.          *)
(***************************************************************************)
EXTENDS Integers, Sequences, FiniteSets, FiniteSetsExt

CONSTANTS
    Reqs,       \* requests
    MaxConns,   \* bound on the connections dialed
    MaxEvents   \* bound on cancellations, failed dials, closes of the client's

None == -1
NoConn == 0
Streams == 0 .. Cardinality(Reqs) - 1

VARIABLES
    pool,       \* Transport.clients and closed
    cls,        \* the connections, both ends
    reqs,       \* the requests' goroutines
    handled,    \* how often the server's handler ran for a request
    sv,         \* the Server
    events      \* events left

hvars == <<pool, cls, reqs, handled, sv, events>>

NewConn(r) ==
    [dial |-> "dialing", creator |-> r, why |-> "open", useCount |-> 0,
     opened |-> 0, lastStreamID |-> None, maxStreamID |-> None, tracked |-> {},
     owner |-> [i \in Streams |-> r], sent |-> {}, reset |-> {}, seen |-> 0,
     serve |-> "none", accepted |-> 0, running |-> {}, goaway |-> "none", limit |-> None, late |-> FALSE,
     resp |-> [i \in Streams |-> "none"]]

HInit ==
    /\ pool = [clients |-> NoConn, closed |-> FALSE]
    /\ cls = <<>>
    /\ reqs = [r \in Reqs |-> [pc |-> "idle", conn |-> NoConn, id |-> None, retried |-> FALSE,
                               cancelled |-> FALSE, held |-> {}, res |-> "none"]]
    /\ handled = [r \in Reqs |-> 0]
    /\ sv = [grace |-> FALSE, closed |-> FALSE, connCount |-> 0, done |-> FALSE,
             shutdown |-> "idle", expired |-> FALSE]
    /\ events = MaxEvents

IsOpen(c) == cls[c].why = "open"
Pc(r) == reqs[r].pc
Conn(r) == cls[reqs[r].conn]

-----------------------------------------------------------------------------
(* The client: its connections.                                            *)

\* A stream that is opened but not tracked yet: openRequestStream is between
\* OpenStreamSync and TrackStream.
Untracked(c) == \E r \in Reqs : reqs[r].conn = c /\ Pc(r) \in {"opened", "track"}

CloseConn(cs, c, why) == [cs EXCEPT ![c].why = IF @ = "open" THEN why ELSE @]

\* The graceful end of a connection, told apart when it hits a stream that
\* is not tracked yet.
CloseNoError(cs, c) == CloseConn(cs, c, IF Untracked(c) THEN "goaway race" ELSE "goaway")

hasActiveStreams_bug(cs, c) == FALSE

hasActiveStreams(cs, c) == cs[c].tracked # {}

\* clearStream, with onStreamsEmpty.
clearStream(cs, c, id) ==
    LET d == [cs EXCEPT ![c].tracked = @ \ {id}]
    IN  IF ~hasActiveStreams(d, c) /\ d[c].maxStreamID # None THEN CloseNoError(d, c) ELSE d

\* ClientConn.handleControlStream: a GOAWAY frame.
handleControlStream(c) ==
    /\ IsOpen(c) /\ cls[c].goaway = "sent"
    /\ LET d == [cls EXCEPT ![c].goaway = "received", ![c].maxStreamID = cls[c].limit]
       IN  cls' = IF hasActiveStreams(d, c) THEN d ELSE CloseNoError(d, c)
    /\ UNCHANGED <<pool, reqs, handled, sv, events>>

\* The goroutine of getClient that dials: its context is the first
\* request's, and the listener is closed once the server shuts down.
DialDone(c) ==
    /\ cls[c].dial = "dialing"
    /\ \/ /\ ~sv.grace
          /\ cls' = [cls EXCEPT ![c].dial = "ok", ![c].serve = "queued"]
          /\ UNCHANGED events
       \/ /\ sv.grace \/ reqs[cls[c].creator].cancelled
          /\ cls' = [cls EXCEPT ![c].dial = "failed", ![c].why = "dial"]
          /\ UNCHANGED events
       \/ /\ events > 0
          /\ cls' = [cls EXCEPT ![c].dial = "failed", ![c].why = "dial"]
          /\ events' = events - 1
    /\ UNCHANGED <<pool, reqs, handled, sv>>

\* The network fails, or the peer's QUIC stack closes.
ConnLost(c) ==
    /\ events > 0 /\ IsOpen(c) /\ cls[c].dial = "ok"
    /\ cls' = CloseConn(cls, c, "lost")
    /\ events' = events - 1
    /\ UNCHANGED <<pool, reqs, handled, sv>>

-----------------------------------------------------------------------------
(* The client: a request.                                                  *)

Step(r, pc) == reqs' = [reqs EXCEPT ![r].pc = pc]

\* The useCounts are given back as the calls of doRoundTripOpt return.
Release(cs, held) ==
    [c \in DOMAIN cs |-> IF c \in held THEN [cs[c] EXCEPT !.useCount = @ - 1] ELSE cs[c]]

Finish(r, res) == reqs' = [reqs EXCEPT ![r].pc = "done", ![r].res = res]

\* A connection of the pool that is used by one more request.
Reuse_bug(cs, c) == cs

Reuse(cs, c) == [cs EXCEPT ![c].useCount = @ + 1]

getClient(r) ==
    /\ Pc(r) \in {"idle", "start"}
    /\ \/ /\ pool.closed
          /\ cls' = Release(cls, reqs[r].held)
          /\ Finish(r, "transport closed")
          /\ UNCHANGED pool
       \/ /\ ~pool.closed /\ pool.clients # NoConn /\ cls[pool.clients].dial = "failed"
          /\ pool' = [pool EXCEPT !.clients = NoConn]
          /\ cls' = Release(cls, reqs[r].held)
          /\ Finish(r, "dial")
       \/ /\ ~pool.closed /\ pool.clients # NoConn /\ cls[pool.clients].dial # "failed"
          /\ cls' = Reuse(cls, pool.clients)
          /\ reqs' = [reqs EXCEPT ![r].pc = "dialing", ![r].conn = pool.clients]
          /\ UNCHANGED pool
       \/ /\ ~pool.closed /\ pool.clients = NoConn /\ Len(cls) < MaxConns
          /\ cls' = Append(cls, [NewConn(r) EXCEPT !.useCount = 1])
          /\ pool' = [pool EXCEPT !.clients = Len(cls) + 1]
          /\ reqs' = [reqs EXCEPT ![r].pc = "dialing", ![r].conn = Len(cls) + 1]
    /\ UNCHANGED <<handled, sv, events>>

\* doRoundTripOpt waits for the dial.  A request cancelled meanwhile leaves
\* its useCount behind, as does one whose dial failed.
AwaitDial(r) ==
    /\ Pc(r) = "dialing"
    /\ \/ /\ reqs[r].cancelled
          /\ cls' = Release(cls, reqs[r].held)
          /\ Finish(r, "cancelled")
          /\ UNCHANGED pool
       \/ /\ Conn(r).dial = "failed"
          /\ pool' = [pool EXCEPT !.clients = NoConn]
          /\ cls' = Release(cls, reqs[r].held)
          /\ Finish(r, "dial")
       \/ /\ Conn(r).dial = "ok"
          /\ reqs' = [reqs EXCEPT ![r].pc = "open", ![r].held = @ \union {reqs[r].conn}]
          /\ UNCHANGED <<pool, cls>>
    /\ UNCHANGED <<handled, sv, events>>

canRetryRequest_bug(err) == err \in {"unusable", "rejected", "conn"}

canRetryRequest(err) == err \in {"unusable", "rejected"}

\* doRoundTripOpt after RoundTrip failed: the pool's entry is removed,
\* whichever it is by now, and the request is tried once more.
Failed(r, err, cs) ==
    IF reqs[r].cancelled \/ reqs[r].retried \/ ~canRetryRequest(err)
    THEN /\ pool' = IF reqs[r].cancelled \/ reqs[r].retried THEN pool ELSE [pool EXCEPT !.clients = NoConn]
         /\ cls' = Release(cs, reqs[r].held)
         /\ Finish(r, IF reqs[r].cancelled THEN "cancelled" ELSE err)
    ELSE /\ pool' = [pool EXCEPT !.clients = NoConn]
         /\ cls' = cs
         /\ reqs' = [reqs EXCEPT ![r].pc = "start", ![r].retried = TRUE, ![r].id = None]

\* openRequestStream, up to OpenStreamSync.
CheckGoaway(r) ==
    /\ Pc(r) = "open"
    /\ IF Conn(r).maxStreamID # None /\ Conn(r).lastStreamID + 1 >= Conn(r).maxStreamID
       THEN Failed(r, "unusable", cls)
       ELSE Step(r, "opening") /\ UNCHANGED <<pool, cls>>
    /\ UNCHANGED <<handled, sv, events>>

OpenStreamSync(r) ==
    /\ Pc(r) = "opening"
    /\ IF ~IsOpen(reqs[r].conn) \/ reqs[r].cancelled
       THEN Failed(r, "unusable", cls)
       ELSE /\ reqs' = [reqs EXCEPT ![r].pc = "opened", ![r].id = Conn(r).opened]
            /\ cls' = [cls EXCEPT ![reqs[r].conn].opened = @ + 1,
                                  ![reqs[r].conn].owner[Conn(r).opened] = r]
            /\ UNCHANGED pool
    /\ UNCHANGED <<handled, sv, events>>

\* ... and after it: the check is repeated.
CheckAgain(r) ==
    /\ Pc(r) = "opened"
    /\ LET c == reqs[r].conn
           id == reqs[r].id
           d == [cls EXCEPT ![c].lastStreamID = Max({@, id})]
       IN  IF d[c].maxStreamID # None /\ id >= d[c].maxStreamID
           THEN Failed(r, "unusable", [d EXCEPT ![c].reset = @ \union {id}, ![c].seen = Max({@, id + 1})])
           ELSE Step(r, "track") /\ cls' = d /\ UNCHANGED pool
    /\ UNCHANGED <<handled, sv, events>>

TrackStream(r) ==
    /\ Pc(r) = "track"
    /\ Step(r, "send")
    /\ cls' = [cls EXCEPT ![reqs[r].conn].tracked = @ \union {reqs[r].id}]
    /\ UNCHANGED <<pool, handled, sv, events>>

\* doRequest sends the header; that this failed shows when the response is
\* read.
doRequest(r) ==
    /\ Pc(r) = "send"
    /\ Step(r, "wait")
    /\ LET c == reqs[r].conn
       IN  cls' = IF IsOpen(c)
                  THEN [cls EXCEPT ![c].sent = @ \union {reqs[r].id}, ![c].seen = Max({@, reqs[r].id + 1})]
                  ELSE cls
    /\ UNCHANGED <<pool, handled, sv, events>>

\* ReadResponse: an error cancels both directions, which clears the stream.
ReadResponse(r) ==
    /\ Pc(r) = "wait"
    /\ LET c == reqs[r].conn
           id == reqs[r].id
           cleared == clearStream([cls EXCEPT ![c].reset = @ \union {id}], c, id)
       IN  \/ /\ reqs[r].cancelled
              /\ Failed(r, "cancelled", cleared)
           \/ /\ ~IsOpen(c)
              /\ Failed(r, "conn", cleared)
           \/ /\ IsOpen(c) /\ cls[c].resp[id] = "rejected"
              /\ Failed(r, "rejected", cleared)
           \/ /\ IsOpen(c) /\ cls[c].resp[id] = "ok"
              /\ Step(r, "body")
              /\ cls' = Release(cls, reqs[r].held)
              /\ UNCHANGED pool
    /\ UNCHANGED <<handled, sv, events>>

\* The application reads the body to its end, or closes it.
ReadBody(r) ==
    /\ Pc(r) = "body"
    /\ Finish(r, IF IsOpen(reqs[r].conn) THEN "ok" ELSE "body")
    /\ cls' = clearStream(cls, reqs[r].conn, reqs[r].id)
    /\ UNCHANGED <<pool, handled, sv, events>>

-----------------------------------------------------------------------------
(* The application of the client.                                          *)

RoundTrip(r) == Pc(r) = "idle" /\ getClient(r)

Cancel(r) ==
    /\ events > 0 /\ Pc(r) \notin {"idle", "body", "done"} /\ ~reqs[r].cancelled
    /\ reqs' = [reqs EXCEPT ![r].cancelled = TRUE]
    /\ events' = events - 1
    /\ UNCHANGED <<pool, cls, handled, sv>>

CloseIdleConnections ==
    /\ events > 0
    /\ pool.clients # NoConn /\ cls[pool.clients].useCount = 0
    /\ cls' = CloseConn(cls, pool.clients, "idle")
    /\ pool' = [pool EXCEPT !.clients = NoConn]
    /\ events' = events - 1
    /\ UNCHANGED <<reqs, handled, sv>>

TransportClose ==
    /\ events > 0 /\ ~pool.closed
    /\ cls' = IF pool.clients = NoConn THEN cls
              ELSE IF cls[pool.clients].dial = "dialing"
                   THEN [CloseConn(cls, pool.clients, "dial") EXCEPT ![pool.clients].dial = "failed"]
                   ELSE CloseConn(cls, pool.clients, "transport")
    /\ pool' = [clients |-> NoConn, closed |-> TRUE]
    /\ events' = events - 1
    /\ UNCHANGED <<reqs, handled, sv>>

-----------------------------------------------------------------------------
(* The server.                                                             *)

SetServe(c, state) == cls' = [cls EXCEPT ![c].serve = state]

\* serveListener: a connection is accepted while the server is not shut
\* down, and counted in a later step.
Accept(c) ==
    /\ cls[c].serve = "queued" /\ ~sv.grace
    /\ SetServe(c, "checked")
    /\ UNCHANGED <<pool, reqs, handled, sv, events>>

\* A connection that Accept returns later, or leaves in the listener's
\* queue, is served by nobody: QUIC's idle timeout ends it.
Unserved(c) ==
    /\ cls[c].serve = "queued" /\ sv.grace /\ IsOpen(c)
    /\ cls' = CloseConn(cls, c, "timeout")
    /\ UNCHANGED <<pool, reqs, handled, sv, events>>

CountConn(c) ==
    /\ cls[c].serve = "checked"
    /\ SetServe(c, "serving")
    /\ sv' = [sv EXCEPT !.connCount = @ + 1]
    /\ UNCHANGED <<pool, reqs, handled, events>>

\* handleConn: a request stream, in the order of the IDs, even those whose
\* request has not arrived.  After the GOAWAY it is rejected.
AcceptStream(c) ==
    /\ IsOpen(c) /\ cls[c].accepted < cls[c].seen
    /\ LET id == cls[c].accepted
       IN  \/ /\ cls[c].serve = "serving"
              /\ cls' = [cls EXCEPT ![c].accepted = @ + 1, ![c].running = @ \union {id}]
           \/ /\ cls[c].serve = "grace"
              /\ cls' = [cls EXCEPT ![c].resp[id] = "rejected", ![c].accepted = @ + 1]
    /\ UNCHANGED <<pool, reqs, handled, sv, events>>

\* handleConn: AcceptStream fails, because the connection is gone, because
\* the server was closed, or because it is shut down.
AcceptFails(c) ==
    /\ cls[c].serve \in {"serving", "grace"}
    /\ \/ ~IsOpen(c) /\ SetServe(c, "ending")
       \/ /\ IsOpen(c) /\ sv.closed
          /\ cls' = CloseConn([cls EXCEPT ![c].serve = "ending"], c, "server")
       \/ /\ IsOpen(c) /\ ~sv.closed /\ sv.grace /\ cls[c].serve = "serving"
          /\ cls' = [cls EXCEPT ![c].serve = "grace", ![c].goaway = "sent", ![c].limit = cls[c].accepted]
    /\ UNCHANGED <<pool, reqs, handled, sv, events>>

\* HandleRequestStream: the handler runs once the request has arrived; a
\* stream that was reset, or whose connection is gone, is given up.
handleRequestStream(c, id) ==
    /\ id \in cls[c].running
    /\ \/ /\ id \in cls[c].sent /\ id \notin cls[c].reset
          /\ handled' = [handled EXCEPT ![cls[c].owner[id]] = @ + 1]
          /\ cls' = [cls EXCEPT ![c].running = @ \ {id}, ![c].resp[id] = "ok"]
       \/ /\ id \in cls[c].reset \/ ~IsOpen(c)
          /\ cls' = [cls EXCEPT ![c].running = @ \ {id}]
          /\ UNCHANGED handled
    /\ UNCHANGED <<pool, reqs, sv, events>>

\* The connections that were accepted but not counted when the count is
\* read are marked.
MarkLate(cs) == [c \in DOMAIN cs |-> [cs[c] EXCEPT !.late = @ \/ cs[c].serve = "checked"]]

\* handleConn returns once the handlers did; decreaseConnCount.
LastConn_bug == sv.connCount = 0 /\ sv.grace

LastConn == sv.connCount = 1 /\ sv.grace

decreaseConnCount(c) ==
    /\ cls[c].serve = "ending" /\ cls[c].running = {}
    /\ cls' = MarkLate([cls EXCEPT ![c].serve = "ended"])
    /\ sv' = [sv EXCEPT !.connCount = @ - 1, !.done = @ \/ LastConn]
    /\ UNCHANGED <<pool, reqs, handled, events>>

\* Shutdown, and Close at its end.
Counted_bug == TRUE

Counted == sv.connCount = 0

Shutdown ==
    /\ UNCHANGED <<pool, reqs, handled, events>>
    /\ \/ /\ sv.shutdown = "idle"
          /\ sv' = [sv EXCEPT !.grace = TRUE, !.shutdown = "load"]
          /\ UNCHANGED cls
       \/ /\ sv.shutdown = "load"
          /\ sv' = [sv EXCEPT !.shutdown = IF Counted THEN "close" ELSE "wait"]
          /\ cls' = MarkLate(cls)
       \/ /\ sv.shutdown = "wait" /\ sv.done
          /\ sv' = [sv EXCEPT !.shutdown = "close"]
          /\ UNCHANGED cls
       \/ /\ sv.shutdown = "close"
          /\ sv' = [sv EXCEPT !.closed = TRUE, !.shutdown = IF Counted THEN "done" ELSE "closing"]
          /\ cls' = MarkLate(cls)
       \/ /\ sv.shutdown = "closing" /\ sv.done
          /\ sv' = [sv EXCEPT !.shutdown = "done"]
          /\ UNCHANGED cls

\* The context of Shutdown expires.
ShutdownExpires ==
    /\ events > 0 /\ sv.shutdown = "wait"
    /\ sv' = [sv EXCEPT !.shutdown = "close", !.expired = TRUE]
    /\ events' = events - 1
    /\ UNCHANGED <<pool, cls, reqs, handled>>

-----------------------------------------------------------------------------

Conns == 1 .. MaxConns

\* What the goroutines of both ends do by themselves.
Goroutines ==
    \/ \E r \in Reqs :
         \/ (Pc(r) = "start" /\ getClient(r)) \/ AwaitDial(r) \/ CheckGoaway(r) \/ OpenStreamSync(r)
         \/ CheckAgain(r) \/ TrackStream(r) \/ doRequest(r) \/ ReadResponse(r) \/ ReadBody(r)
    \/ \E c \in Conns : c <= Len(cls) /\
         \/ handleControlStream(c) \/ DialDone(c)
         \/ Accept(c) \/ Unserved(c) \/ CountConn(c) \/ AcceptStream(c) \/ AcceptFails(c)
         \/ decreaseConnCount(c)
         \/ \E id \in Streams : handleRequestStream(c, id)
    \/ sv.shutdown # "idle" /\ Shutdown

HNext ==
    \/ Goroutines
    \/ \E r \in Reqs : RoundTrip(r) \/ Cancel(r)
    \/ \E c \in Conns : c <= Len(cls) /\ ConnLost(c)
    \/ CloseIdleConnections
    \/ TransportClose
    \/ sv.shutdown = "idle" /\ Shutdown
    \/ ShutdownExpires

-----------------------------------------------------------------------------
(* Properties.                                                             *)

\* A request runs at most once on the server, although the client sends it
\* again on a new connection after a GOAWAY, a rejection or a lost
\* connection (canRetryRequest).
AtMostOnce == \A r \in Reqs : handled[r] <= 1

\* A graceful shutdown costs no request its connection: a request whose
\* stream the client tracks, and whose ID the GOAWAY allows, is answered
\* before the client closes the connection.  (The window in which a stream
\* is open but not tracked yet is the exception.)
GracefulForRequests ==
    \A r \in Reqs : reqs[r].res \in {"conn", "body"} => Conn(r).why # "goaway"

\* CloseIdleConnections closes no connection on which a request waits for
\* its response.
IdleMeansUnused ==
    \A r \in Reqs : Pc(r) \in {"open", "opening", "opened", "track", "send", "wait"} => Conn(r).why # "idle"

\* When Shutdown and Close returned, no connection is served any more, but
\* for those accepted and not counted when the count was read.
ShutdownWaits ==
    sv.shutdown = "done" =>
        \A c \in DOMAIN cls : cls[c].serve \in {"none", "queued", "ended"} \/ cls[c].late

\* No goroutine waits in vain: when none can take a step, every request has
\* returned (or needs a connection beyond the bound), and Shutdown has, or
\* waits for a client that keeps its connection open.
RequestsReturn ==
    ENABLED Goroutines \/
        /\ \A r \in Reqs : Pc(r) \in {"idle", "done"} \/ (Pc(r) = "start" /\ Len(cls) = MaxConns)
        /\ sv.shutdown \in {"idle", "done"} \/
             (sv.shutdown = "wait" /\ \E c \in DOMAIN cls : cls[c].serve = "grace" /\ IsOpen(c))
=============================================================================
