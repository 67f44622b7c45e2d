------------------------------- MODULE ZeroRTT -------------------------------
(***************************************************************************)
(* Resuming a connection with 0-RTT: transport parameters                  *)
(* (internal/wire/transport_parameters.go), the session tickets that save  *)
(* them (internal/handshake/session_ticket.go), the decisions of           *)
(* crypto_setup.go, and what connection.go and streams_map.go do with the  *)
(* parameters.  A client connects again and again to a server that may be  *)
(* restarted with another configuration in between.                        *)
(*                                                                         *)
(* TLS (crypto/tls) is external.  The limits of the peer, six numbers in   *)
(* the code, are a function on Limits; "data", "stream" and "streams" are  *)
(* the ones whose use is followed: the connection's send window, the send  *)
(* window of a stream and the number of streams.  On the wire a parameter  *)
(* list is a record in which a parameter that is left out is None.         *)
(* Streams are numbered from 1; a stream opened in 0-RTT and one opened    *)
(* after a rejection may have the same number, and are told apart by the   *)
(* streams map (0 or 1) they were opened in.                               *)
(***************************************************************************)
EXTENDS Integers, FiniteSets, Sequences

CONSTANTS
  Configs,         \* what a server may be configured with
  MaxConnections,  \* bound on the connections made
  MaxStreams,      \* bound on the streams a client opens, per streams map
  MaxCalls         \* bound on the calls of the client's application on its last connection

VARIABLES
  config,   \* the configuration of the server that is running
  ticket,   \* the session ticket of the client's cache
  client,   \* the client's connection
  server,   \* the server's side of it, and what it has processed of the client's frames
  flight,   \* messages of the server on their way to the client
  made      \* connections made so far

zvars == <<config, ticket, client, server, flight, made>>

Limits == {"data", "stream", "streams"}
None == [none |-> TRUE]
Invalid == -1   \* protocol.InvalidByteCount
DefaultActiveConnectionIDLimit == 2
MinRemoteIdleTimeout == 5

(***************************************************************************)
(* transport_parameters.go                                                 *)
(***************************************************************************)
\* Marshal: what is sent in the handshake.  Timeouts are cut to milliseconds.
Marshal(p) ==
  [limits |-> p.limits, MaxIdleTimeout |-> [val |-> p.MaxIdleTimeout],
   ActiveConnectionIDLimit |-> IF p.ActiveConnectionIDLimit = DefaultActiveConnectionIDLimit THEN None
                               ELSE [val |-> p.ActiveConnectionIDLimit],
   MaxDatagramFrameSize |-> IF p.MaxDatagramFrameSize = Invalid THEN None
                            ELSE [val |-> p.MaxDatagramFrameSize],
   EnableResetStreamAt |-> p.EnableResetStreamAt,
   RetrySourceConnectionID |-> p.RetrySourceConnectionID]

\* MarshalForSessionTicket: the idle timeout and the connection IDs are not
\* saved, the connection ID limit always is.
MarshalForSessionTicket(p) ==
  [limits |-> p.limits, MaxIdleTimeout |-> None,
   ActiveConnectionIDLimit |-> [val |-> p.ActiveConnectionIDLimit],
   MaxDatagramFrameSize |-> IF p.MaxDatagramFrameSize = Invalid THEN None
                            ELSE [val |-> p.MaxDatagramFrameSize],
   EnableResetStreamAt |-> p.EnableResetStreamAt,
   RetrySourceConnectionID |-> FALSE]

\* unmarshal: parameters that are missing get their defaults; a peer's idle
\* timeout is not taken below a minimum.
unmarshal(w) ==
  [limits |-> w.limits,
   MaxIdleTimeout |-> IF w.MaxIdleTimeout = None THEN 0
                      ELSE IF w.MaxIdleTimeout.val < MinRemoteIdleTimeout THEN MinRemoteIdleTimeout
                      ELSE w.MaxIdleTimeout.val,
   ActiveConnectionIDLimit |-> IF w.ActiveConnectionIDLimit = None THEN DefaultActiveConnectionIDLimit
                               ELSE w.ActiveConnectionIDLimit.val,
   MaxDatagramFrameSize |-> IF w.MaxDatagramFrameSize = None THEN Invalid
                            ELSE w.MaxDatagramFrameSize.val,
   EnableResetStreamAt |-> w.EnableResetStreamAt,
   RetrySourceConnectionID |-> w.RetrySourceConnectionID]

DatagramsReduced(p, saved) ==
  /\ saved.MaxDatagramFrameSize # Invalid
  /\ p.MaxDatagramFrameSize = Invalid \/ p.MaxDatagramFrameSize < saved.MaxDatagramFrameSize

\* ValidFor0RTT, of the server
ValidFor0RTT_bug(p, saved) ==
  /\ ~DatagramsReduced(p, saved)
  /\ \A l \in Limits \ {"streams"} : p.limits[l] >= saved.limits[l]
  /\ p.ActiveConnectionIDLimit = saved.ActiveConnectionIDLimit

ValidFor0RTT(p, saved) ==
  /\ ~DatagramsReduced(p, saved)
  /\ \A l \in Limits : p.limits[l] >= saved.limits[l]
  /\ p.ActiveConnectionIDLimit = saved.ActiveConnectionIDLimit

\* ValidForUpdate, of the client
ValidForUpdate(p, saved) ==
  /\ ~DatagramsReduced(p, saved)
  /\ p.ActiveConnectionIDLimit >= saved.ActiveConnectionIDLimit
  /\ \A l \in Limits : p.limits[l] >= saved.limits[l]

(***************************************************************************)
(* Session tickets                                                         *)
(***************************************************************************)
\* GetSessionTicket of the server and marshalDataForSessionState of the
\* client: each side saves the server's parameters, the server the ones it
\* was configured with, the client the ones it was sent.
SessionTicket(ourParams, peerParams) ==
  [early |-> ourParams.Allow0RTT,
   server |-> MarshalForSessionTicket(ourParams),
   client |-> MarshalForSessionTicket(peerParams)]

\* handleSessionTicket
handleSessionTicket(ourParams, t) ==
  /\ t.early
  /\ ValidFor0RTT(ourParams, unmarshal(t.server))
  /\ ourParams.Allow0RTT

\* handleDataFromSessionState, then StartHandshake: whether a client does 0-RTT
Does0RTT(enable0RTT, t) == enable0RTT /\ t # None /\ t.early

(***************************************************************************)
(* The client's streams map, framer and connection flow controller         *)
(***************************************************************************)
NoStream == [open |-> FALSE, window |-> 0, sent |-> 0, data |-> 0, shut |-> FALSE,
             resetAt |-> FALSE, boundary |-> 0, cancelled |-> FALSE, resetQueued |-> None]
NoStreams == [id \in 1..MaxStreams |-> NoStream]
Handles(c) == {h \in (0..1) \X (1..MaxStreams) : c.str[h[1]][h[2]].open}
Str(c, h) == c.str[h[1]][h[2]]
SetStr(c, h, s) == [c EXCEPT !.str[h[1]][h[2]] = s]

\* HandleTransportParameters: streams that are open learn about the limit, and
\* use RESET_STREAM_AT from now on.
HandleTransportParameters(c, p) ==
  [c EXCEPT
     !.supportsResetStreamAt = p.EnableResetStreamAt,
     !.str[c.map] = [id \in 1..MaxStreams |->
        IF ~@[id].open THEN @[id]
        ELSE [@[id] EXCEPT !.resetAt = TRUE,
                           !.window = IF p.limits["stream"] > @ THEN p.limits["stream"] ELSE @]],
     !.maxStream = IF p.limits["streams"] > @ THEN p.limits["streams"] ELSE @]

UpdateSendWindow(c, limit) == [c EXCEPT !.sendWindow = IF limit > @ THEN limit ELSE @]

\* restoreTransportParameters
restoreTransportParameters(c, p) ==
  HandleTransportParameters(
    UpdateSendWindow([c EXCEPT !.peerParams = p, !.maxActiveConnIDs = p.ActiveConnectionIDLimit],
                     p.limits["data"]), p)

\* applyTransportParameters
applyTransportParameters(c) ==
  LET p == c.peerParams
      idle == IF p.MaxIdleTimeout > 0 /\ p.MaxIdleTimeout < c.idleTimeout
              THEN p.MaxIdleTimeout ELSE c.idleTimeout
  IN UpdateSendWindow(
       HandleTransportParameters(
         [c EXCEPT !.idleTimeout = idle, !.maxActiveConnIDs = p.ActiveConnectionIDLimit], p),
       p.limits["data"])

\* closeForShutdown, of every stream of the map
CloseWithError(c) ==
  [c EXCEPT !.str[c.map] =
     [id \in 1..MaxStreams |-> IF @[id].open THEN [@[id] EXCEPT !.shut = TRUE, !.data = 0] ELSE @[id]]]

\* ResetFor0RTT
ResetFor0RTT_bug(c) == [c EXCEPT !.map = 1, !.reset = TRUE, !.maxStream = 0]

ResetFor0RTT(c) == [CloseWithError(c) EXCEPT !.map = 1, !.reset = TRUE, !.maxStream = 0]

\* Handle0RTTRejection: the streams with control frames stay where they are
Handle0RTTRejection(c) == [c EXCEPT !.activeStreams = {}]

\* connectionFlowController.Reset
Reset(c) == [c EXCEPT !.bytesSent = 0, !.sendWindow = 0]

\* dropEncryptionLevel(Encryption0RTT), after rejected0RTT has dropped the keys
rejected0RTT(c) == Reset(Handle0RTTRejection(ResetFor0RTT([c EXCEPT !.zeroRTTSealer = FALSE])))

(***************************************************************************)
(* The handshake                                                           *)
(***************************************************************************)
NoClient ==
  [on |-> FALSE, err |-> FALSE, retried |-> FALSE, zeroRTTSealer |-> FALSE, used0RTT |-> FALSE,
   complete |-> FALSE, peerParams |-> None, maxActiveConnIDs |-> 0, idleTimeout |-> 6,
   supportsResetStreamAt |-> FALSE, reset |-> FALSE, map |-> 0, maxStream |-> 0,
   str |-> [m \in 0..1 |-> NoStreams], sendWindow |-> 0, bytesSent |-> 0,
   adding |-> {}, activeStreams |-> {}, controlStreams |-> {}, datagrams |-> 0, calls |-> 0]

NoServer ==
  [params |-> None, accepted |-> FALSE, bytes |-> [id \in 1..MaxStreams |-> 0],
   datagrams |-> 0, resetAt |-> FALSE, stale |-> FALSE]

ZInit ==
  /\ config \in Configs
  /\ ticket = None
  /\ client = NoClient
  /\ server = NoServer
  /\ flight = <<>>
  /\ made = 0

\* StartHandshake and handleHandshakeEvents of a client, and how the server
\* answers its ClientHello.  TLS may not be able to resume the session.
Connect(enable0RTT) ==
  /\ made < MaxConnections
  /\ client.on => client.complete /\ flight = <<>>
  /\ made' = made + 1
  /\ LET early == Does0RTT(enable0RTT, ticket)
         c == [NoClient EXCEPT !.on = TRUE, !.retried = config.RetrySourceConnectionID,
                               !.zeroRTTSealer = early]
     IN /\ client' = IF early THEN restoreTransportParameters(c, unmarshal(ticket.client)) ELSE c
        /\ \E resumes \in BOOLEAN :
             server' = [NoServer EXCEPT !.params = config,
                          !.accepted = resumes /\ early /\ handleSessionTicket(config, ticket)]
  /\ flight' = <<"EncryptedExtensions", "Finished">>
  /\ UNCHANGED <<config, ticket>>

\* The server is restarted with another configuration.
Restart ==
  /\ made < MaxConnections
  /\ client.complete /\ flight = <<>>
  /\ config' \in Configs \ {config}
  /\ UNCHANGED <<ticket, client, server, flight, made>>

\* checkTransportParameters
checkTransportParameters(c, p) == p.RetrySourceConnectionID = c.retried

\* handleTransportParameters of a client
handleTransportParameters(c, p) ==
  IF \/ ~checkTransportParameters(c, p)
     \/ c.peerParams # None /\ c.used0RTT /\ ~ValidForUpdate(p, c.peerParams)
  THEN [c EXCEPT !.err = TRUE]
  ELSE [c EXCEPT !.peerParams = p]

\* setWriteKey of the application keys
setWriteKey(c) == [c EXCEPT !.used0RTT = @ \/ c.zeroRTTSealer, !.zeroRTTSealer = FALSE]

\* handleHandshakeComplete of a client
handleHandshakeComplete(c) == applyTransportParameters([c EXCEPT !.complete = TRUE])

\* handleCryptoFrame of a client: all that has arrived is handed to TLS before
\* the connection handles the events.  The encrypted extensions hold the
\* parameters and, if 0-RTT was tried, the server's answer.
ReceiveFlight(n) ==
  /\ ~client.err
  /\ n <= Len(flight)
  /\ LET got == {flight[i] : i \in 1..n}
         p == unmarshal(Marshal(server.params))
         c1 == IF "Finished" \in got /\ (client.zeroRTTSealer => server.accepted)
               THEN setWriteKey(client) ELSE client
         c2 == IF "EncryptedExtensions" \in got THEN handleTransportParameters(c1, p) ELSE c1
         c3 == IF "EncryptedExtensions" \in got /\ client.zeroRTTSealer /\ ~server.accepted
               THEN rejected0RTT(c2) ELSE c2
     IN client' = IF c2.err THEN c2
                  ELSE IF "Finished" \in got THEN handleHandshakeComplete(c3) ELSE c3
  /\ flight' = SubSeq(flight, n + 1, Len(flight))
  /\ UNCHANGED <<config, ticket, server, made>>

\* The session ticket arrives in a CRYPTO frame and is stored in the cache.
ReceiveTicket ==
  /\ client.complete
  /\ ticket' = SessionTicket(server.params, client.peerParams)
  /\ ticket' # ticket
  /\ UNCHANGED <<config, client, server, flight, made>>

(***************************************************************************)
(* The application of the client                                           *)
(***************************************************************************)
Step(c) == client' = c /\ UNCHANGED <<config, ticket, server, flight, made>>

\* The earlier connections are only there for their tickets.
Call(c) ==
  /\ made = MaxConnections /\ client.calls < MaxCalls
  /\ Step([c EXCEPT !.calls = @ + 1])


\* OpenStream, with newFlowController
OpenStream ==
  /\ client.zeroRTTSealer \/ client.complete
  /\ ~client.reset
  /\ \E id \in 1..client.maxStream :
       /\ id <= MaxStreams
       /\ ~client.str[client.map][id].open
       /\ \A i \in 1..(id - 1) : client.str[client.map][i].open
       /\ Call([client EXCEPT !.str[client.map][id] =
                  [NoStream EXCEPT !.open = TRUE,
                                   !.window = client.peerParams.limits["stream"],
                                   !.resetAt = client.supportsResetStreamAt]])

\* Write, up to the call of onHasStreamData
Write(h) ==
  LET s == Str(client, h) IN
  /\ ~s.shut /\ ~s.cancelled
  /\ client.adding = {}
  /\ Call([SetStr(client, h, [s EXCEPT !.data = @ + 1]) EXCEPT !.adding = {<<"data", h>>}])

\* SetReliableBoundary
SetReliableBoundary(h) ==
  LET s == Str(client, h) IN
  /\ ~s.shut /\ ~s.cancelled /\ s.boundary # s.sent + s.data
  /\ Call(SetStr(client, h, [s EXCEPT !.boundary = s.sent + s.data]))

\* CancelWrite, up to the call of onHasStreamControlFrame
CancelWrite(h) ==
  LET s == Str(client, h)
      reliable == IF s.resetAt THEN s.boundary ELSE 0
      kept == IF reliable > s.sent THEN reliable - s.sent ELSE 0
  IN /\ ~s.shut /\ ~s.cancelled
     /\ client.adding = {}
     /\ Call([SetStr(client, h, [s EXCEPT !.cancelled = TRUE, !.data = kept,
                                          !.resetQueued = [ReliableSize |-> reliable]])
                EXCEPT !.adding = {<<"control", h>>}])

\* AddActiveStream and AddStreamWithControlFrames: an entry with the number of
\* the stream stays as it is.
AddToFramer ==
  \E a \in client.adding :
    LET h == a[2]
        Known(handles) == \E k \in handles : k[2] = h[2]
    IN Step(IF a[1] = "data"
            THEN [client EXCEPT !.adding = {},
                    !.activeStreams = IF Known(@) THEN @ ELSE @ \cup {h}]
            ELSE [client EXCEPT !.adding = {},
                    !.controlStreams = IF Known(@) THEN @ ELSE @ \cup {h}])

\* SendDatagram: the datagram is queued
SendDatagram ==
  /\ client.zeroRTTSealer \/ client.complete
  /\ client.peerParams.MaxDatagramFrameSize > 0
  /\ client.datagrams = 0
  /\ Call([client EXCEPT !.datagrams = 1])

\* NextConnection
NextConnection ==
  /\ client.complete /\ client.reset
  /\ Step([client EXCEPT !.reset = FALSE])

(***************************************************************************)
(* Sending                                                                 *)
(***************************************************************************)
\* There are keys for application data, and whether the server processes what
\* is sent with them.
CanSend == client.zeroRTTSealer \/ client.complete
Processed == client.complete \/ server.accepted

Sends(c, sv) ==
  /\ client' = c
  /\ server' = IF Processed THEN sv ELSE server
  /\ UNCHANGED <<config, ticket, flight, made>>

Least(a, b) == IF a < b THEN a ELSE b

\* getNextStreamFrame and popStreamFrame: as much as flow control allows.  A
\* stream that was shut down has nothing to send.
SendStreamFrame(h) ==
  LET s == Str(client, h)
      n == Least(s.data, Least(s.window - s.sent, client.sendWindow - client.bytesSent))
      c == SetStr(client, h, [s EXCEPT !.sent = @ + n, !.data = @ - n])
  IN /\ CanSend
     /\ h \in client.activeStreams
     /\ s.data = 0 \/ n > 0
     /\ Sends([c EXCEPT !.bytesSent = @ + n,
                        !.activeStreams = IF s.data = n THEN @ \ {h} ELSE @],
              [server EXCEPT !.bytes[h[2]] = @ + n,
                             !.stale = @ \/ (n > 0 /\ h[1] # client.map)])

\* appendControlFrames and getControlFrame: the RESET_STREAM or RESET_STREAM_AT
\* frame of a stream.
SendResetFrame(h) ==
  LET s == Str(client, h) IN
  /\ CanSend
  /\ h \in client.controlStreams
  /\ Sends([SetStr(client, h, [s EXCEPT !.resetQueued = None])
              EXCEPT !.controlStreams = @ \ {h}],
           IF s.resetQueued = None THEN server
           ELSE [server EXCEPT !.resetAt = @ \/ s.resetQueued.ReliableSize > 0])

\* composeNextPacket: the datagram at the head of the queue
SendDatagramFrame ==
  /\ CanSend /\ client.datagrams > 0
  /\ Sends([client EXCEPT !.datagrams = @ - 1], [server EXCEPT !.datagrams = 1])

ZNext ==
  \/ \E e \in BOOLEAN : Connect(e)
  \/ Restart
  \/ \E n \in 1..2 : ReceiveFlight(n)
  \/ ReceiveTicket
  \/ OpenStream
  \/ \E h \in Handles(client) :
       Write(h) \/ SetReliableBoundary(h) \/ CancelWrite(h) \/ SendStreamFrame(h) \/ SendResetFrame(h)
  \/ AddToFramer
  \/ SendDatagram
  \/ SendDatagramFrame
  \/ NextConnection

(***************************************************************************)
(* Properties                                                              *)
(***************************************************************************)
SumTo(f) == LET S[n \in 0..MaxStreams] == IF n = 0 THEN 0 ELSE S[n - 1] + f[n] IN S[MaxStreams]

\* What the server processes of a client, in 0-RTT packets it accepted and
\* after the handshake, stays within the limits of the parameters it is
\* configured with now, whatever the client remembers from an earlier
\* connection; and the client never takes the parameters of an honest server
\* for reduced or forged ones.
PeerLimitsRespected ==
  server.params # None =>
    /\ SumTo(server.bytes) <= server.params.limits["data"]
    /\ \A id \in 1..MaxStreams :
         server.bytes[id] <= server.params.limits["stream"]
           /\ (id > server.params.limits["streams"] => server.bytes[id] = 0)
    /\ ~client.err

\* Once 0-RTT was rejected, no data of a stream opened before is sent, and the
\* client counts the bytes of the new streams only: the server has seen
\* exactly what the flow controller of the client has counted.
RejectionForgets ==
  client.complete =>
    /\ client.bytesSent = SumTo(server.bytes) /\ ~server.stale
    /\ client.used0RTT = server.accepted
    /\ \A h \in Handles(client) : h[1] # client.map => Str(client, h).shut
=============================================================================
