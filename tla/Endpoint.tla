------------------------------ MODULE Endpoint ------------------------------
(***************************************************************************)
(* A Transport and the server that listens on it (transport.go, server.go, *)
(* closed_conn.go): the goroutine reading the socket, the server's packet  *)
(* and reject goroutines, one handleNewConn goroutine and one run loop per *)
(* connection, and the application's Accept, Dial and Close calls.         *)
(*                                                                         *)
(* A packet is its kind, the connection ID it is addressed to and the kind *)
(* of its token.  An ID <<c, 0>> is the one client c chose, <<c, 1>> the   *)
(* one a Retry gave it, <<c, 2>> the one a dialed connection chose.  A     *)
(* connection is reduced to its handshake progress, to why it closes and   *)
(* to what is left in the handler map afterwards.  t.mutex is held in one  *)
(* step, but for the Close calls, whose waits are steps of their own.      *)
(***************************************************************************)
EXTENDS Integers, Sequences, FiniteSets, SequencesExt, FiniteSetsExt

CONSTANTS
    Clients,            \* remote clients
    Uses,               \* what the transport is used for, a set of Settings
    MaxConns,           \* bound on the connections created
    MaxServerUnprocessedPackets,
    MaxAcceptQueueSize,
    Max0RTTQueueLen,
    Max0RTTQueues,
    MaxRejects          \* capacity of each of the reject queues

\* quic.Listen and quic.Dial make a transport for a single use; a Transport
\* of the application's can listen and dial.  early: ListenEarly; verify:
\* VerifySourceAddress asks for a Retry.
\* packets and events bound what happens to the transport.
Settings == [single : BOOLEAN, listens : BOOLEAN, dials : BOOLEAN, early : BOOLEAN, verify : BOOLEAN,
             packets : Nat, events : Nat]

Dialer == "dialer"
Ids == (Clients \X {0, 1}) \union {<<Dialer, 2>>}
NoConn == 0

\* The goroutines that may close something: the application through the
\* Listener or the Transport, the reading goroutine after an error, and the
\* goroutine of a single-use dial once its connection ended.
Closers == {"listener", "transport", "reader", "dialed"}

VARIABLES
    use,        \* the settings
    tr,         \* the Transport
    srv,        \* the baseServer
    conns,      \* the connections created, in order
    newConn,    \* their handleNewConn goroutines
    closer,     \* the Close calls under way
    accepting,  \* an Accept call
    dialing,    \* a Dial call
    budget      \* packets and events left, and the clients that got a Retry

evars == <<use, tr, srv, conns, newConn, closer, accepting, dialing, budget>>

Packet ==
    [kind : {"initial", "0rtt", "short", "version"}, id : Ids,
     token : {"none", "resume", "retry", "stale retry"}]

Rejects == {"retry", "invalid token", "refused", "version"}

EInit ==
    /\ use \in Uses
    /\ tr = [handlers |-> [i \in Ids |-> NoConn], closeErr |-> "none", mutex |-> "free",
             server |-> use.listens, deadline |-> FALSE, listening |-> TRUE]
    /\ srv = [received |-> <<>>, zeroRTT |-> [i \in Ids |-> 0], rejects |-> [r \in Rejects |-> {}],
              closeErr |-> "none", closeMx |-> "free", running |-> TRUE,
              connQueue |-> <<>>, stopAccepting |-> FALSE]
    /\ conns = <<>>
    /\ newConn = <<>>
    /\ closer = [c \in Closers |-> "idle"]
    /\ accepting = "idle"
    /\ dialing = "idle"
    /\ budget = [packets |-> use.packets, events |-> use.events, retried |-> {}]

-----------------------------------------------------------------------------
(* The handler map.                                                        *)

Get(i) == tr.handlers[i]

AddWithConnID(t, i, k) == [t EXCEPT !.handlers[i] = k]

RemoveId(t, i) == [t EXCEPT !.handlers[i] = NoConn]

\* A handler's handlePacket.  A connection queues the packet; what is left
\* of a connection that this side closed answers packets 1, 2, 4, 8, ...
\* with a copy of its CONNECTION_CLOSE; the rest is absorbed.
isPowerOfTwo(n) == \E e \in 0 .. n : 2 ^ e = n

HandlerHandlePacket(cs, k, kind) ==
    IF cs[k].stub # "local" THEN [cs EXCEPT ![k].zeroRTT = @ \/ kind = "0rtt"]
    ELSE [cs EXCEPT ![k].counter = @ + 1,
                    ![k].copies = IF isPowerOfTwo(cs[k].counter + 1) THEN @ + 1 ELSE @]

NewConnection(i, zeroRTT, dialed) ==
    [id |-> i, st |-> "handshaking", err |-> "none", stub |-> "live", zeroRTT |-> zeroRTT,
     counter |-> 0, copies |-> 0, dialed |-> dialed, accepted |-> FALSE]

maybeStopListening(t) ==
    IF use.single /\ t.closeErr # "none" THEN [t EXCEPT !.deadline = TRUE] ELSE t

NoHandlers(t) == \A i \in Ids : t.handlers[i] = NoConn

-----------------------------------------------------------------------------
(* Packets.                                                                *)

\* baseServer.handlePacket: into the queue, dropped when the queue is full
\* or the server is closing.
ServerHandlePacket(s, p) ==
    IF s.closeErr = "none" /\ Len(s.received) < MaxServerUnprocessedPackets
    THEN {[s EXCEPT !.received = Append(@, p)]}
    ELSE IF Len(s.received) < MaxServerUnprocessedPackets
         THEN {s, [s EXCEPT !.received = Append(@, p)]}
         ELSE {s}

\* Transport.handlePacket, run by the reading goroutine.
TransportHandlePacket(p) ==
    \/ /\ Get(p.id) # NoConn
       /\ conns' = HandlerHandlePacket(conns, Get(p.id), p.kind)
       /\ UNCHANGED srv
    \/ /\ Get(p.id) = NoConn
       /\ p.kind = "short" \/ ~tr.server     \* a stateless reset, or dropped
       /\ UNCHANGED <<conns, srv>>
    \/ /\ Get(p.id) = NoConn /\ p.kind # "short" /\ tr.server
       /\ srv' \in ServerHandlePacket(srv, p)
       /\ UNCHANGED conns

\* A client sends what it can: a Retry's ID and token only after a Retry.
Receive(p) ==
    /\ tr.listening /\ ~tr.deadline /\ closer["reader"] = "idle"
    /\ tr.mutex = "free"
    /\ budget.packets > 0
    /\ p.kind = "version" => p.id[2] = 0
    /\ (p.id[2] = 1) = (p.token \in {"retry", "stale retry"})
    /\ p.id[2] = 1 => p.id[1] \in budget.retried
    /\ p.id[2] = 2 => p.kind \in {"initial", "short"} /\ Get(p.id) # NoConn
    /\ p.kind # "initial" => p.token = (IF p.id[2] = 1 THEN "retry" ELSE "none")
    /\ TransportHandlePacket(p)
    /\ budget' = [budget EXCEPT !.packets = @ - 1]
    /\ UNCHANGED <<use, tr, newConn, closer, accepting, dialing>>

\* The full reject queues drop.
Reject(s, r, i) ==
    IF Cardinality(s.rejects[r]) < MaxRejects \/ i \in s.rejects[r]
    THEN [s EXCEPT !.rejects[r] = @ \union {i}] ELSE s

ZeroRTTQueues(s) == {i \in Ids : s.zeroRTT[i] > 0}

handle0RTTPacket(s, p) ==
    IF \/ s.zeroRTT[p.id] >= Max0RTTQueueLen
       \/ s.zeroRTT[p.id] = 0 /\ Cardinality(ZeroRTTQueues(s)) >= Max0RTTQueues
    THEN s ELSE [s EXCEPT !.zeroRTT[p.id] = @ + 1]

\* cleanupZeroRTTQueues runs once a packet arrives after the expiry of the
\* oldest queue; which queues have expired by then is left open.
cleanupZeroRTTQueues(s, expired) ==
    [s EXCEPT !.zeroRTT = [i \in Ids |-> IF i \in expired THEN 0 ELSE @[i]]]

DeleteQueue_bug(s, i) == s

DeleteQueue(s, i) == [s EXCEPT !.zeroRTT[i] = 0]

refuseNewConn(s, i) == Reject(DeleteQueue(s, i), "refused", i)

\* validateToken: a token of a Retry or of an earlier connection.  An
\* expired or foreign one counts as none, unless it is a Retry's.
validateToken(token) == token \in {"retry", "resume"}

\* handleInitialImpl up to the new connection: an Initial that is turned
\* away, for its token, for the address or by the application.
TurnAway(s, p) ==
    CASE p.token = "stale retry" -> Reject(s, "invalid token", p.id)
      [] ~validateToken(p.token) /\ use.verify -> Reject(DeleteQueue(s, p.id), "retry", p.id)
      [] OTHER -> refuseNewConn(s, p.id)

TurnsAway(p) == p.token = "stale retry" \/ (~validateToken(p.token) /\ use.verify)

\* handleInitialImpl, the new connection: it gets the Initial, then the
\* queued 0-RTT packets.  AddWithConnID succeeds: only this goroutine adds
\* IDs that clients chose, and Get just found none (a random ID of another
\* connection that collides is left out).
CreateConn(s, p) ==
    /\ Len(conns) < MaxConns
    /\ conns' = Append(conns, NewConnection(p.id, s.zeroRTT[p.id] > 0, FALSE))
    /\ newConn' = Append(newConn, "waiting")
    /\ tr' = AddWithConnID(tr, p.id, Len(conns) + 1)
    /\ srv' = DeleteQueue(s, p.id)
    /\ UNCHANGED budget

handleInitialImpl(s, p) ==
    \/ \E refuse \in {r \in BOOLEAN : r => budget.events > 0} :
         /\ TurnsAway(p) # refuse
         /\ srv' = TurnAway(s, p)
         /\ budget' = [budget EXCEPT !.events = IF refuse THEN @ - 1 ELSE @]
         /\ UNCHANGED <<conns, newConn, tr>>
    \/ ~TurnsAway(p) /\ CreateConn(s, p)

\* handlePacketImpl: the server's goroutine takes a packet.  A connection
\* may have been created since the packet was queued.
handlePacketImpl(s, p) ==
    \/ /\ p.kind = "version"
       /\ srv' = Reject(s, "version", p.id)
       /\ UNCHANGED <<conns, newConn, tr, budget>>
    \/ /\ p.kind = "0rtt" /\ ~use.early
       /\ srv' = s
       /\ UNCHANGED <<conns, newConn, tr, budget>>
    \/ /\ p.kind = "initial" \/ (p.kind = "0rtt" /\ use.early)
       /\ Get(p.id) # NoConn
       /\ srv' = s
       /\ conns' = HandlerHandlePacket(conns, Get(p.id), p.kind)
       /\ UNCHANGED <<newConn, tr, budget>>
    \/ /\ p.kind = "0rtt" /\ use.early /\ Get(p.id) = NoConn
       /\ srv' = handle0RTTPacket(s, p)
       /\ UNCHANGED <<conns, newConn, tr, budget>>
    \/ p.kind = "initial" /\ Get(p.id) = NoConn /\ handleInitialImpl(s, p)

\* baseServer.run: errorChan is looked at first, and again with the queue.
ServerRun ==
    /\ srv.running /\ srv.closeErr = "none"
    /\ srv.received # <<>>
    /\ tr.mutex = "free"
    /\ handlePacketImpl([srv EXCEPT !.received = Tail(@)], Head(srv.received))
    /\ UNCHANGED <<use, closer, accepting, dialing>>

Expire ==
    /\ srv.running
    /\ \E expired \in SUBSET ZeroRTTQueues(srv) \ {{}} : srv' = cleanupZeroRTTQueues(srv, expired)
    /\ UNCHANGED <<use, tr, conns, newConn, closer, accepting, dialing, budget>>

ServerStop ==
    /\ srv.running /\ srv.closeErr # "none"
    /\ srv' = [srv EXCEPT !.running = FALSE]
    /\ UNCHANGED <<use, tr, conns, newConn, closer, accepting, dialing, budget>>

\* baseServer.runSendQueue: a Retry tells the client its new ID; the other
\* answers end its attempt.
Dequeue(r, i) ==
    /\ srv.running /\ i \in srv.rejects[r]
    /\ srv' = [srv EXCEPT !.rejects[r] = @ \ {i}]
    /\ UNCHANGED <<use, tr, conns, newConn, closer, accepting, dialing>>

sendRetry(i) ==
    /\ Dequeue("retry", i)
    /\ budget' = [budget EXCEPT !.retried = @ \union {i[1]}]

sendError(i) ==
    /\ \E r \in {"invalid token", "refused"} : Dequeue(r, i)
    /\ UNCHANGED budget

maybeSendVersionNegotiationPacket(i) == Dequeue("version", i) /\ UNCHANGED budget

-----------------------------------------------------------------------------
(* Connections: their run loops and what these leave in the handler map.   *)

Closes(cs, k, err) == [cs EXCEPT ![k].err = IF @ = "none" THEN err ELSE @]

Progress(k) ==
    /\ conns[k].st \in {"handshaking", "early"} /\ conns[k].err = "none"
    /\ \/ conns' = [conns EXCEPT ![k].st = "complete"]
       \/ conns[k].st = "handshaking" /\ conns' = [conns EXCEPT ![k].st = "early"]
    /\ UNCHANGED <<use, tr, srv, newConn, closer, accepting, dialing, budget>>

\* The peer closes, the connection times out or is reset, the application
\* closes it, or a client has to start over with another version.
Disturb(k) ==
    /\ budget.events > 0
    /\ conns[k].st # "ended" /\ conns[k].err = "none"
    /\ \E err \in {"remote", "immediate", "local", "recreate"} :
         /\ err = "local" => conns[k].accepted
         /\ err = "recreate" => conns[k].dialed /\ conns[k].st = "handshaking"
         /\ conns' = Closes(conns, k, err)
    /\ budget' = [budget EXCEPT !.events = @ - 1]
    /\ UNCHANGED <<use, tr, srv, newConn, closer, accepting, dialing>>

\* The end of run, handleCloseError: an immediate close removes the IDs, a
\* close leaves a closed connection behind (ReplaceWithClosed).
Immediate(k) == conns[k].err \in {"immediate", "recreate"}

ConnEnd(k) ==
    /\ conns[k].st # "ended" /\ conns[k].err # "none"
    /\ tr.mutex = "free"
    /\ conns' = [conns EXCEPT ![k].st = "ended",
                              ![k].stub = IF Immediate(k) THEN "gone" ELSE conns[k].err]
    /\ tr' = IF Immediate(k) THEN RemoveId(tr, conns[k].id) ELSE tr
    /\ closer' = [closer EXCEPT !["dialed"] =
                    IF conns[k].dialed /\ use.single /\ conns[k].err # "recreate" THEN "close" ELSE @]
    /\ UNCHANGED <<use, srv, newConn, accepting, dialing, budget>>

\* The timer of ReplaceWithClosed.
ClosedExpire(k) ==
    /\ conns[k].stub \in {"local", "remote"}
    /\ tr.mutex = "free"
    /\ conns' = [conns EXCEPT ![k].stub = "gone"]
    /\ LET t == RemoveId(tr, conns[k].id)
       IN  tr' = IF NoHandlers(t) THEN maybeStopListening(t) ELSE t
    /\ UNCHANGED <<use, srv, newConn, closer, accepting, dialing, budget>>

\* handleNewConn: waits for the server to close, for the connection to end
\* or for it to be ready; then queues it, or refuses it.
Ready(k) == conns[k].st = "complete" \/ (use.early /\ conns[k].st = "early")

Refuse(k) ==
    /\ conns' = Closes(conns, k, "local")
    /\ newConn' = [newConn EXCEPT ![k] = "refusing"]
    /\ UNCHANGED srv

Enqueue(k) ==
    IF Len(srv.connQueue) < MaxAcceptQueueSize
    THEN /\ srv' = [srv EXCEPT !.connQueue = Append(@, k)]
         /\ newConn' = [newConn EXCEPT ![k] = "done"]
         /\ UNCHANGED conns
    ELSE Refuse(k)

handleNewConn(k) ==
    /\ \/ newConn[k] = "waiting" /\ srv.closeErr # "none" /\ Refuse(k)
       \/ newConn[k] = "waiting" /\ Ready(k) /\ Enqueue(k)
       \/ /\ newConn[k] \in {"waiting", "refusing"} /\ conns[k].st = "ended"
          /\ newConn' = [newConn EXCEPT ![k] = "done"]
          /\ UNCHANGED <<srv, conns>>
    /\ UNCHANGED <<use, tr, closer, accepting, dialing, budget>>

-----------------------------------------------------------------------------
(* The application: Accept and Dial.                                       *)

AcceptCall ==
    /\ accepting \in {"idle", "conn"} /\ use.listens
    /\ accepting' = "waiting"
    /\ UNCHANGED <<use, tr, srv, conns, newConn, closer, dialing, budget>>

\* accept: a connection, or, once nothing more can be queued, the error.
accept ==
    /\ accepting = "waiting"
    /\ \/ /\ srv.connQueue # <<>>
          /\ accepting' = "conn"
          /\ srv' = [srv EXCEPT !.connQueue = Tail(@)]
          /\ conns' = [conns EXCEPT ![Head(srv.connQueue)].accepted = TRUE]
       \/ /\ srv.connQueue = <<>> /\ srv.stopAccepting
          /\ accepting' = "error"
          /\ UNCHANGED <<srv, conns>>
    /\ UNCHANGED <<use, tr, newConn, closer, dialing, budget>>

DialedConn == CHOOSE k \in 1 .. Len(conns) : conns[k].dialed /\ \A j \in k + 1 .. Len(conns) : ~conns[j].dialed

\* doDial up to the select.
doDial ==
    /\ dialing = "idle" /\ use.dials
    /\ tr.mutex = "free"
    /\ \/ /\ tr.closeErr # "none"
          /\ dialing' = "failed"
          /\ UNCHANGED <<conns, newConn, tr>>
       \/ /\ tr.closeErr = "none" /\ Len(conns) < MaxConns
          /\ dialing' = "waiting"
          /\ conns' = Append(conns, NewConnection(<<Dialer, 2>>, FALSE, TRUE))
          /\ newConn' = Append(newConn, "done")
          /\ tr' = AddWithConnID(tr, <<Dialer, 2>>, Len(conns) + 1)
    /\ UNCHANGED <<use, srv, closer, accepting, budget>>

\* run has returned, and with it the Close of a single-use transport.
RunReturned(k) == conns[k].st = "ended" /\ (use.single /\ conns[k].err # "recreate" => closer["dialed"] = "done")

\* The select of doDial, and the wait after a cancellation.
DialSelect ==
    /\ dialing = "waiting" /\ UNCHANGED tr
    /\ \/ /\ budget.events > 0
          /\ dialing' = "cancelled"
          /\ conns' = [Closes(conns, DialedConn, "immediate") EXCEPT ![DialedConn].accepted = FALSE]
          /\ budget' = [budget EXCEPT !.events = @ - 1]
       \/ /\ conns[DialedConn].st = "complete"
          /\ dialing' = "conn"
          /\ conns' = [conns EXCEPT ![DialedConn].accepted = TRUE]
          /\ UNCHANGED budget
       \/ /\ RunReturned(DialedConn)
          /\ dialing' = IF conns[DialedConn].err = "recreate" THEN "idle" ELSE "failed"
          /\ UNCHANGED <<conns, budget>>
    /\ UNCHANGED <<use, srv, newConn, closer, accepting>>

DialCancelled ==
    /\ dialing = "cancelled" /\ RunReturned(DialedConn)
    /\ dialing' = "failed"
    /\ UNCHANGED <<use, tr, srv, conns, newConn, closer, accepting, budget>>

-----------------------------------------------------------------------------
(* Closing.  The steps of a closer are the waits of the two functions.     *)

Goto(c, pc) == closer' = [closer EXCEPT ![c] = pc]

StartClose(c) ==
    /\ closer[c] = "idle"
    /\ CASE c = "listener"  -> use.listens /\ Goto(c, "server")
         [] c = "transport" -> ~use.single /\ Goto(c, "close")
         [] c = "reader"    -> budget.events > 0 /\ tr.listening /\ ~tr.deadline /\ Goto(c, "close")
         [] OTHER           -> FALSE
    /\ budget' = [budget EXCEPT !.events = IF c = "reader" THEN @ - 1 ELSE @]
    /\ UNCHANGED <<use, tr, srv, conns, newConn, accepting, dialing>>

\* Transport.close, first part: nothing to do if the transport is closed;
\* the mutex is released around the server's close.
AfterUnlock_bug(t, c) == [t EXCEPT !.mutex = c]

AfterUnlock(t, c) == t

TransportClose(c) ==
    /\ closer[c] = "close" /\ tr.mutex = "free"
    /\ \/ /\ tr.closeErr # "none"
          /\ Goto(c, "join")
          /\ UNCHANGED tr
       \/ /\ tr.closeErr = "none" /\ tr.server
          /\ tr' = AfterUnlock([tr EXCEPT !.closeErr = "transport", !.server = FALSE], c)
          /\ Goto(c, "server")
       \/ /\ tr.closeErr = "none" /\ ~tr.server
          /\ tr' = [tr EXCEPT !.closeErr = "transport"]
          /\ Goto(c, "destroy")
    /\ UNCHANGED <<use, srv, conns, newConn, accepting, dialing, budget>>

\* baseServer.close, up to the end of the packet goroutine.
ServerClose(c) ==
    /\ closer[c] = "server" /\ srv.closeMx = "free"
    /\ \/ /\ srv.closeErr # "none"
          /\ Goto(c, IF c = "listener" THEN "done" ELSE "destroy")
          /\ UNCHANGED srv
       \/ /\ srv.closeErr = "none"
          /\ srv' = [srv EXCEPT !.closeErr = c, !.closeMx = c]
          /\ Goto(c, "running")
    /\ UNCHANGED <<use, tr, conns, newConn, accepting, dialing, budget>>

ServerStopped(c) ==
    /\ closer[c] = "running" /\ ~srv.running
    /\ srv' = [srv EXCEPT !.closeMx = "free"]
    /\ Goto(c, IF c = "listener" THEN "onClose" ELSE "handshakes")
    /\ UNCHANGED <<use, tr, conns, newConn, accepting, dialing, budget>>

\* Transport.closeServer.
closeServer ==
    /\ closer["listener"] = "onClose" /\ tr.mutex = "free"
    /\ LET t == [tr EXCEPT !.server = FALSE,
                           !.closeErr = IF use.single THEN "server" ELSE @]
       IN  tr' = IF NoHandlers(t) THEN maybeStopListening(t) ELSE t
    /\ Goto("listener", "handshakes")
    /\ UNCHANGED <<use, srv, conns, newConn, accepting, dialing, budget>>

\* The rest of baseServer.close.
HandshakesDone_bug == TRUE

HandshakesDone == \A k \in 1 .. Len(newConn) : newConn[k] = "done"

StopAccepting(c) ==
    /\ closer[c] = "handshakes" /\ HandshakesDone
    /\ srv' = [srv EXCEPT !.stopAccepting = TRUE,
                          !.connQueue = IF c = "listener" THEN @ ELSE <<>>]
    /\ Goto(c, IF c = "listener" THEN "done" ELSE "destroy")
    /\ UNCHANGED <<use, tr, conns, newConn, accepting, dialing, budget>>

\* The rest of Transport.close: destroys every handler and waits for them.
Destroy(c) ==
    /\ closer[c] = "destroy" /\ tr.mutex \in {"free", c}
    /\ tr' = [tr EXCEPT !.mutex = "free"]
    /\ conns' = [k \in 1 .. Len(conns) |->
                   IF tr.handlers[conns[k].id] = k /\ conns[k].stub = "live"
                   THEN Closes(conns, k, "immediate")[k] ELSE conns[k]]
    /\ Goto(c, "destroying")
    /\ UNCHANGED <<use, srv, newConn, accepting, dialing, budget>>

HandlersEnded_bug == TRUE

HandlersEnded == \A k \in 1 .. Len(conns) : conns[k].st = "ended" \/ tr.handlers[conns[k].id] # k

Destroyed(c) ==
    /\ closer[c] = "destroying" /\ HandlersEnded
    /\ Goto(c, "join")
    /\ UNCHANGED <<use, tr, srv, conns, newConn, accepting, dialing, budget>>

\* Transport.Close stops the reading goroutine and waits for it; that
\* goroutine itself just returns.
Join(c) ==
    /\ closer[c] = "join"
    /\ \/ c = "reader" /\ tr' = [tr EXCEPT !.listening = FALSE]
       \/ c # "reader" /\ tr' = [tr EXCEPT !.deadline = TRUE]
    /\ Goto(c, IF c = "reader" THEN "done" ELSE "joining")
    /\ UNCHANGED <<use, srv, conns, newConn, accepting, dialing, budget>>

Joined(c) ==
    /\ closer[c] = "joining" /\ ~tr.listening
    /\ Goto(c, "done")
    /\ UNCHANGED <<use, tr, srv, conns, newConn, accepting, dialing, budget>>

\* listen: a deadline is a temporary error, which ends the loop once the
\* transport is closed.
ListenReturn ==
    /\ tr.listening /\ tr.deadline /\ closer["reader"] = "idle"
    /\ tr.closeErr # "none" /\ tr.mutex = "free"
    /\ tr' = [tr EXCEPT !.listening = FALSE]
    /\ UNCHANGED <<use, srv, conns, newConn, closer, accepting, dialing, budget>>

-----------------------------------------------------------------------------

Closing(c) ==
    \/ TransportClose(c) \/ ServerClose(c) \/ ServerStopped(c)
    \/ StopAccepting(c) \/ Destroy(c) \/ Destroyed(c) \/ Join(c) \/ Joined(c)

Conns == 1 .. MaxConns

\* What the goroutines do by themselves.
Internal ==
    \/ ServerRun \/ ServerStop \/ closeServer \/ ListenReturn
    \/ DialCancelled \/ accept
    \/ \E c \in Closers : Closing(c)
    \/ \E k \in Conns : k <= Len(conns) /\ (ConnEnd(k) \/ handleNewConn(k) \/ ClosedExpire(k))

ENext ==
    \/ \E p \in Packet : Receive(p)
    \/ Internal
    \/ Expire
    \/ \E i \in Ids : sendRetry(i) \/ sendError(i) \/ maybeSendVersionNegotiationPacket(i)
    \/ \E k \in Conns : k <= Len(conns) /\ (Progress(k) \/ Disturb(k))
    \/ AcceptCall
    \/ doDial
    \/ DialSelect
    \/ \E c \in Closers : StartClose(c)

-----------------------------------------------------------------------------
(* Properties.                                                             *)

\* A connection whose handshake completed is handed to Accept, waits in the
\* queue for Accept, or is closed: an Accept that returned the listener's
\* error left none behind, although handshakes were under way when the
\* listener was closed.
NoConnLost ==
    accepting = "error" /\ srv.closeErr = "listener" =>
        \A k \in 1 .. Len(conns) :
            conns[k].dialed \/ conns[k].accepted \/ conns[k].err # "none"

\* Once Transport.Close returned, every connection of the transport has
\* ended and the socket is no longer read, whoever else was closing the
\* listener at the time ("It abruptly terminates all existing connections").
CloseTerminates ==
    closer["transport"] = "done" =>
        /\ ~tr.listening
        /\ tr.closeErr = "transport" => \A k \in 1 .. Len(conns) : conns[k].st = "ended"

\* A 0-RTT packet is never held back for a connection that exists: the queue
\* of an ID is handed over, or dropped, when its connection is created or
\* refused.
NoStrandedZeroRTT == \A i \in Ids : srv.zeroRTT[i] > 0 => tr.handlers[i] = NoConn

\* The goroutines never wait for each other in a circle: when none of them
\* can take a step, every Close call has returned, and so have an Accept on
\* a closed server and a cancelled Dial.  (No goroutine can go on for ever,
\* so that being scheduled brings each call to its end.)
ClosesReturn ==
    ENABLED Internal \/
        /\ \A c \in Closers : closer[c] \in {"idle", "done"}
        /\ srv.closeErr # "none" => accepting # "waiting"
        /\ dialing # "cancelled"
=============================================================================
