---------------------------- MODULE MoqtSession ----------------------------
(***************************************************************************)
(* The MOQT handshake (moq-go/moqt: moqtdialer.go, moqlistener.go,         *)
(* moqtsession.go, controlstream.go): clients that dial a listener, the two *)
(* MOQTSessions of each connection, their control streams, the timer of     *)
(* Dial, and the announcements that sessions of publishers send to every     *)
(* other session, whatever the state of its handshake.                      *)
(*                                                                         *)
(* A connection's control stream is two queues of message types; QUIC        *)
(* delivers them reliably and in order until the connection goes down.       *)
(***************************************************************************)
EXTENDS Integers, Sequences

CONSTANTS
    Clients,
    RoleOf,       \* LocalRole of a client, "pub" or "sub"
    MaxAnnounce   \* bound on the announcements of a publisher

VARIABLES
    ServerRole, \* LocalRole of the listener's sessions, a setting
    up,       \* the QUIC connection of a client
    dial,     \* the goroutine in Dial
    opener,   \* the client's goroutine InitiateHandshake
    accept,   \* the server's goroutine handleControlStream
    cs,       \* cs[side][c]: the session's CS is set
    serve,    \* serve[side][c]: where the session's ServeCS is
    role,     \* role[side][c]: RemoteRole
    done,     \* done[side][c]: ishandshakedone
    chan,     \* chan[side][c]: entries in HandshakeDone, a channel of capacity 1
    closes,   \* closes[side][c]: calls of Handler.HandleClose
    sessions, \* the server's sm.sessions
    stream,   \* stream[side][c]: what side has sent on the control stream and is not read
    writers,  \* goroutines about to write an ANNOUNCE to a session
    sent,     \* announcements a publisher's application has made
    heard,    \* announcements a subscriber's application was given
    owed      \* ghost: announcements that were to be written when its Dial had returned

svars == <<up, dial, opener, accept, cs, serve, role, done, chan, closes, sessions, stream,
          writers, sent, heard, owed>>

Sides == {"client", "server"}
Peer(side) == IF side = "client" THEN "server" ELSE "client"
LocalRole(side, c) == IF side = "client" THEN RoleOf[c] ELSE ServerRole
Each(v) == [side \in Sides |-> [c \in Clients |-> v]]

SInit ==
    /\ ServerRole \in {"relay", "pub"}
    /\ up = [c \in Clients |-> TRUE]
    /\ dial = [c \in Clients |-> "start"]
    /\ opener = [c \in Clients |-> "none"]
    /\ accept = [c \in Clients |-> "none"]
    /\ cs = Each(FALSE) /\ serve = Each("none") /\ role = Each("none")
    /\ done = Each(FALSE) /\ chan = Each(0) /\ closes = Each(0)
    /\ sessions = {}
    /\ stream = Each(<<>>)
    /\ writers = [c \in Clients |-> 0]
    /\ sent = [c \in Clients |-> 0] /\ heard = [c \in Clients |-> 0]
    /\ owed = [c \in Clients |-> 0]

-----------------------------------------------------------------------------
(* Helpers.                                                                *)

\* Mutant: a relay accepts only publishers.
RoleErrorPubsOnly(side, c) ==
    IF LocalRole(side, c) = "relay" THEN LocalRole(Peer(side), c) # "pub"
    ELSE LocalRole(side, c) = LocalRole(Peer(side), c)

\* SetRemoteRole fails: a publisher meets a publisher, or a subscriber a subscriber.
RoleError(side, c) ==
    LocalRole(side, c) # "relay" /\ LocalRole(side, c) = LocalRole(Peer(side), c)

\* WriteControlMessage: a write on a connection that is down only logs its error.
Write(side, c, m) == stream' = IF up[c] THEN [stream EXCEPT ![side][c] = Append(@, m)] ELSE stream

\* Close: CloseWithError, cancelFunc, HandleClose, removeSession.
CloseSession(side, c) ==
    /\ up' = [up EXCEPT ![c] = FALSE]
    /\ closes' = [closes EXCEPT ![side][c] = @ + 1]
    /\ sessions' = IF side = "server" THEN sessions \ {c} ELSE sessions

\* ServeCS reads message m.
Read(side, c, m) ==
    /\ up[c]
    /\ serve[side][c] = "read"
    /\ stream[Peer(side)][c] # <<>>
    /\ Head(stream[Peer(side)][c]) = m
    /\ stream' = [stream EXCEPT ![Peer(side)][c] = Tail(@)]

Goto(side, c, pc) == serve' = [serve EXCEPT ![side][c] = pc]

-----------------------------------------------------------------------------
(* Dial and InitiateHandshake.                                             *)

\* CreateMOQSession, ServeMOQ.
Dial(c) ==
    /\ dial[c] = "start"
    /\ dial' = [dial EXCEPT ![c] = "wait"]
    /\ opener' = [opener EXCEPT ![c] = "open"]
    /\ UNCHANGED <<up, accept, cs, serve, role, done, chan, closes, sessions, stream, writers,
                   sent, heard, owed>>

\* Mutant: Dial does not wait.
DialReturnsAtOnce(c) ==
    /\ dial[c] = "wait"
    /\ chan' = [chan EXCEPT !["client"][c] = @ - 1]
    /\ dial' = [dial EXCEPT ![c] = "session"]
    /\ UNCHANGED <<up, opener, accept, cs, serve, role, done, closes, sessions, stream,
                   writers, sent, heard, owed>>

DialReturns(c) ==
    /\ dial[c] = "wait"
    /\ chan["client"][c] > 0
    /\ chan' = [chan EXCEPT !["client"][c] = @ - 1]
    /\ dial' = [dial EXCEPT ![c] = "session"]
    /\ UNCHANGED <<up, opener, accept, cs, serve, role, done, closes, sessions, stream,
                   writers, sent, heard, owed>>

\* The timer of 5 s; the session is not closed.
DialTimesOut(c) ==
    /\ dial[c] = "wait"
    /\ dial' = [dial EXCEPT ![c] = "error"]
    /\ UNCHANGED <<up, opener, accept, cs, serve, role, done, chan, closes, sessions, stream,
                   writers, sent, heard, owed>>

\* OpenStream, NewControlStream, go ServeCS.
OpenStream(c) ==
    /\ opener[c] = "open"
    /\ up[c]
    /\ opener' = [opener EXCEPT ![c] = "setup"]
    /\ cs' = [cs EXCEPT !["client"][c] = TRUE]
    /\ Goto("client", c, "read")
    /\ UNCHANGED <<up, dial, accept, role, done, chan, closes, sessions, stream, writers,
                   sent, heard, owed>>

OpenStreamFails(c) ==
    /\ opener[c] = "open"
    /\ ~up[c]
    /\ opener' = [opener EXCEPT ![c] = "ended"]
    /\ CloseSession("client", c)
    /\ UNCHANGED <<dial, accept, cs, serve, role, done, chan, stream, writers, sent, heard, owed>>

SendClientSetup(c) ==
    /\ opener[c] = "setup"
    /\ opener' = [opener EXCEPT ![c] = "ended"]
    /\ Write("client", c, "client_setup")
    /\ UNCHANGED <<up, dial, accept, cs, serve, role, done, chan, closes, sessions, writers,
                   sent, heard, owed>>

-----------------------------------------------------------------------------
(* The listener and handleControlStream.                                   *)

\* Listen, handleMOQ: CreateMOQSession, go ServeMOQ.
ListenerAccept(c) ==
    /\ accept[c] = "none"
    /\ up[c]
    /\ accept' = [accept EXCEPT ![c] = "accept"]
    /\ sessions' = sessions \cup {c}
    /\ UNCHANGED <<up, dial, opener, cs, serve, role, done, chan, closes, stream, writers,
                   sent, heard, owed>>

\* A stream is there to accept once the client has written to it.
AcceptStream(c) ==
    /\ accept[c] = "accept"
    /\ up[c]
    /\ ~cs["server"][c]
    /\ stream["client"][c] # <<>>
    /\ cs' = [cs EXCEPT !["server"][c] = TRUE]
    /\ Goto("server", c, "read")
    /\ UNCHANGED <<up, dial, opener, accept, role, done, chan, closes, sessions, stream,
                   writers, sent, heard, owed>>

AcceptStreamFails(c) ==
    /\ accept[c] = "accept"
    /\ ~up[c]
    /\ accept' = [accept EXCEPT ![c] = "ended"]
    /\ CloseSession("server", c)
    /\ UNCHANGED <<dial, opener, cs, serve, role, done, chan, stream, writers, sent, heard, owed>>

-----------------------------------------------------------------------------
(* ServeCS: handleSetupMessage.                                            *)

SetupMessage(side) == IF side = "server" THEN "client_setup" ELSE "server_setup"

\* SetRemoteRole assigns the role before it looks at it.
SetRemoteRole(side, c) ==
    /\ ~done[side][c]
    /\ Read(side, c, SetupMessage(side))
    /\ role' = [role EXCEPT ![side][c] = LocalRole(Peer(side), c)]
    /\ Goto(side, c, IF RoleError(side, c) THEN "reject" ELSE "done")
    /\ UNCHANGED <<up, dial, opener, accept, cs, done, chan, closes, sessions, writers, sent,
                   heard, owed>>

RejectRole(side, c) ==
    /\ serve[side][c] = "reject"
    /\ Goto(side, c, "read")
    /\ CloseSession(side, c)
    /\ UNCHANGED <<dial, opener, accept, cs, role, done, chan, stream, writers, sent, heard, owed>>

\* Mutant: ishandshakedone is not set.
HandshakeDoneUnmarked(side, c) ==
    /\ serve[side][c] = "done"
    /\ chan[side][c] = 0
    /\ chan' = [chan EXCEPT ![side][c] = 1]
    /\ Goto(side, c, IF side = "server" THEN "reply" ELSE "read")
    /\ UNCHANGED <<up, dial, opener, accept, cs, role, done, closes, sessions, stream,
                   writers, sent, heard, owed>>

\* ishandshakedone = true; HandshakeDone <- true.
HandshakeDone(side, c) ==
    /\ serve[side][c] = "done"
    /\ chan[side][c] = 0
    /\ chan' = [chan EXCEPT ![side][c] = 1]
    /\ done' = [done EXCEPT ![side][c] = TRUE]
    /\ Goto(side, c, IF side = "server" THEN "reply" ELSE "read")
    /\ UNCHANGED <<up, dial, opener, accept, cs, role, closes, sessions, stream, writers,
                   sent, heard, owed>>

\* Mutant: the server forgets its answer.
SendServerSetupForgotten(c) ==
    /\ serve["server"][c] = "reply"
    /\ Goto("server", c, "read")
    /\ UNCHANGED <<up, dial, opener, accept, cs, role, done, chan, closes, sessions, stream,
                   writers, sent, heard, owed>>

SendServerSetup(c) ==
    /\ serve["server"][c] = "reply"
    /\ Goto("server", c, "read")
    /\ Write("server", c, "server_setup")
    /\ UNCHANGED <<up, dial, opener, accept, cs, role, done, chan, closes, sessions, writers,
                   sent, heard, owed>>

\* Anything but a setup message is dropped.
UnknownSetupMessage(c) ==
    /\ ~done["client"][c]
    /\ Read("client", c, "announce")
    /\ UNCHANGED <<up, dial, opener, accept, cs, serve, role, done, chan, closes, sessions,
                   writers, sent, heard, owed>>

-----------------------------------------------------------------------------
(* ServeCS: handleControlMessage, as far as announcements go.              *)

\* SendAnnounce, by the application that Dial gave a session.
SendAnnounce(c) ==
    /\ dial[c] = "session"
    /\ RoleOf[c] = "pub"
    /\ sent[c] < MaxAnnounce
    /\ sent' = [sent EXCEPT ![c] = @ + 1]
    /\ Write("client", c, "announce")
    /\ UNCHANGED <<up, dial, opener, accept, cs, serve, role, done, chan, closes, sessions,
                   writers, heard, owed>>

\* Mutant: every session is told, also before its handshake.
AudienceAll(c) == sessions \ {c}

\* addPublisher's loop over the sessions.
Audience(c) == {s \in sessions \ {c} : role["server"][s] \in {"sub", "relay"}}

\* RelayHandler.HandleAnnounce: a goroutine for each session of a subscriber or relay, then
\* ANNOUNCE_OK.  The handlers of a listening publisher or subscriber have no audience.
SessionHandleAnnounce(c) ==
    /\ ServerRole = "relay"
    /\ done["server"][c]
    /\ up[c]
    /\ serve["server"][c] = "read"
    /\ stream["client"][c] # <<>>
    /\ Head(stream["client"][c]) = "announce"
    /\ writers' = [s \in Clients |-> IF s \in Audience(c) THEN writers[s] + 1 ELSE writers[s]]
    /\ stream' = [stream EXCEPT !["client"][c] = Tail(@),
                                !["server"][c] = Append(@, "announce_ok")]
    /\ UNCHANGED <<up, dial, opener, accept, cs, serve, role, done, chan, closes, sessions,
                   sent, heard, owed>>

WriteAnnounce(c) ==
    /\ writers[c] > 0
    /\ writers' = [writers EXCEPT ![c] = @ - 1]
    /\ Write("server", c, "announce")
    /\ owed' = IF dial[c] = "session" THEN [owed EXCEPT ![c] = @ + 1] ELSE owed
    /\ UNCHANGED <<up, dial, opener, accept, cs, serve, role, done, chan, closes, sessions,
                   sent, heard>>

HandleAnnounceOk(c) ==
    /\ done["client"][c]
    /\ Read("client", c, "announce_ok")
    /\ UNCHANGED <<up, dial, opener, accept, cs, serve, role, done, chan, closes, sessions,
                   writers, sent, heard, owed>>

\* Mutant: the announcement is only logged.
SubHandleAnnounceIgnored(c) ==
    /\ done["client"][c]
    /\ Read("client", c, "announce")
    /\ UNCHANGED <<up, dial, opener, accept, cs, serve, role, done, chan, closes, sessions,
                   writers, sent, heard, owed>>

\* SubHandler.HandleAnnounce: AnnounceChan <- namespace; waits for a reader.
SubHandleAnnounce(c) ==
    /\ done["client"][c]
    /\ Read("client", c, "announce")
    /\ Goto("client", c, "announce")
    /\ UNCHANGED <<up, dial, opener, accept, cs, role, done, chan, closes, sessions, writers,
                   sent, heard, owed>>

\* The goroutine that MOQSub.Connect starts once Dial has returned a session.
TakeAnnounce(c) ==
    /\ serve["client"][c] = "announce"
    /\ dial[c] = "session"
    /\ Goto("client", c, "read")
    /\ heard' = [heard EXCEPT ![c] = @ + 1]
    /\ UNCHANGED <<up, dial, opener, accept, cs, role, done, chan, closes, sessions, stream,
                   writers, sent, owed>>

-----------------------------------------------------------------------------
(* The connection goes down; what was not read is lost.                    *)

ConnectionLost(c) ==
    /\ up[c]
    /\ up' = [up EXCEPT ![c] = FALSE]
    /\ UNCHANGED <<dial, opener, accept, cs, serve, role, done, chan, closes, sessions, stream,
                   writers, sent, heard, owed>>

ServeCSEnds(side, c) ==
    /\ serve[side][c] = "read"
    /\ ~up[c]
    /\ Goto(side, c, "ended")
    /\ UNCHANGED <<up, dial, opener, accept, cs, role, done, chan, closes, sessions, stream,
                   writers, sent, heard, owed>>

-----------------------------------------------------------------------------
SessionServeCS(side, c) ==
    \/ SetRemoteRole(side, c) \/ RejectRole(side, c) \/ HandshakeDone(side, c)
    \/ ServeCSEnds(side, c)

ServerSteps(c) ==
    \/ ListenerAccept(c) \/ AcceptStream(c) \/ AcceptStreamFails(c) \/ SendServerSetup(c)
    \/ SessionHandleAnnounce(c) \/ WriteAnnounce(c) \/ SessionServeCS("server", c)

ClientSteps(c) ==
    \/ OpenStream(c) \/ OpenStreamFails(c) \/ SendClientSetup(c) \/ UnknownSetupMessage(c)
    \/ HandleAnnounceOk(c) \/ SubHandleAnnounce(c) \/ TakeAnnounce(c) \/ SessionServeCS("client", c)

SNext ==
    /\ UNCHANGED ServerRole
    /\ \E c \in Clients :
          \/ Dial(c) \/ DialReturns(c) \/ DialTimesOut(c) \/ SendAnnounce(c)
          \/ ConnectionLost(c) \/ ServerSteps(c) \/ ClientSteps(c)

SSpec == SInit /\ [][SNext]_<<ServerRole, svars>>

-----------------------------------------------------------------------------
(* Properties.                                                             *)

\* Every variable has its type, and HandshakeDone never holds more than its capacity.
STypeOK ==
    /\ ServerRole \in {"relay", "pub"}
    /\ up \in [Clients -> BOOLEAN]
    /\ dial \in [Clients -> {"start", "wait", "session", "error"}]
    /\ opener \in [Clients -> {"none", "open", "setup", "ended"}]
    /\ accept \in [Clients -> {"none", "accept", "ended"}]
    /\ cs \in [Sides -> [Clients -> BOOLEAN]] /\ done \in [Sides -> [Clients -> BOOLEAN]]
    /\ serve \in [Sides -> [Clients -> {"none", "read", "reject", "done", "reply", "announce",
                                        "ended"}]]
    /\ role \in [Sides -> [Clients -> {"none", "pub", "sub", "relay"}]]
    /\ chan \in [Sides -> [Clients -> {0, 1}]]
    /\ closes \in [Sides -> [Clients -> Nat]]
    /\ sessions \subseteq Clients
    /\ stream \in [Sides -> [Clients ->
                      Seq({"client_setup", "server_setup", "announce", "announce_ok"})]]
    /\ writers \in [Clients -> Nat] /\ sent \in [Clients -> Nat] /\ heard \in [Clients -> Nat]
    /\ owed \in [Clients -> Nat]

\* When Dial returns a session, both ends have finished the handshake and each knows the
\* other's role: the application never gets a session the server has not accepted.
DialMeansHandshake ==
    \A c \in Clients : dial[c] = "session" =>
        \A side \in Sides : done[side][c] /\ role[side][c] = LocalRole(Peer(side), c)

\* addPublisher calls WriteControlMessage on the CS of sessions in any state: it finds one,
\* because a session's role becomes known only through its control stream.
AudienceHasControlStream == \A c \in Clients : writers[c] > 0 => cs["server"][c]

\* HandleClose closes channels of publishers and subscribers, and must not run twice: a relay
\* closes a session only when AcceptStream fails, a client only before or instead of its
\* handshake.  (A listening publisher that rejects a role closes twice.)
HandleCloseOnce ==
    ServerRole = "relay" => \A side \in Sides, c \in Clients : closes[side][c] <= 1

\* Messages that ServeCS of a side handles: setup messages first, then what its handlers know.
\* A listening publisher or subscriber is never announced to.
Handled(side, c) ==
    IF ~done[side][c]
    THEN IF side = "client" THEN {"server_setup", "announce"} ELSE {"client_setup"}
    ELSE IF side = "client" THEN {"announce", "announce_ok"}
    ELSE IF ServerRole = "relay" THEN {"announce"} ELSE {}

\* A goroutine of client c's two sessions can make a step: the guards of the steps it takes by itself,
\* and of Dial's return.
Busy(c) ==
    \/ dial[c] = "wait" \/ opener[c] \in {"open", "setup"}
    \/ accept[c] = "none" /\ up[c]
    \/ accept[c] = "accept" /\ (~up[c] \/ (~cs["server"][c] /\ stream["client"][c] # <<>>))
    \/ writers[c] > 0
    \/ serve["client"][c] = "announce" /\ dial[c] = "session"
    \/ \E side \in Sides :
          \/ serve[side][c] \in {"reject", "reply"}
          \/ serve[side][c] = "done" /\ chan[side][c] = 0
          \/ /\ serve[side][c] = "read"
             /\ \/ ~up[c]
                \/ /\ stream[Peer(side)][c] # <<>>
                   /\ Head(stream[Peer(side)][c]) \in Handled(side, c)

\* A dialled connection that stays up ends with the handshake done on the client, also when
\* Dial has given up, and whatever announcements come before SERVER_SETUP: it is done when no
\* goroutine has anything left to do.
HandshakeCompletes ==
    \A c \in Clients : Busy(c) \/ dial[c] = "start" \/ done["client"][c] \/ ~up[c]

\* A subscriber that Dial gave a session is told of every announcement that the relay writes to
\* it from then on.
AnnouncementHeard ==
    \A c \in Clients : Busy(c) \/ heard[c] >= owed[c] \/ ~up[c]

\* What the sessions promise.  When Dial returns a session, both ends have finished the handshake
\* and each knows the other's role; addPublisher, which calls WriteControlMessage on sessions in
\* any state of their handshake, finds a control stream, because a session's role becomes known
\* only through it.  HandleClose closes channels of publishers and subscribers and does not run
\* twice: a relay closes a session only when AcceptStream fails, a client only before or instead
\* of its handshake.  (A listening publisher that rejects a role closes twice.)  When no goroutine
\* has anything left to do, a client that dialled and is still connected has finished its handshake.
SessionsSound ==
    DialMeansHandshake /\ AudienceHasControlStream /\ HandleCloseOnce /\ HandshakeCompletes
=============================================================================
