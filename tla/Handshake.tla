----------------------------- MODULE Handshake -----------------------------
(***************************************************************************)
(* A QUIC handshake between a client and a server connection               *)
(* (connection.go, packet_packer.go), each with the sent packet handler of *)
(* SentPackets, over a network that loses and reorders datagrams.          *)
(*                                                                         *)
(* Crypto data is cut into the fragments below.  A datagram is a sequence  *)
(* of packets with room for DatagramRoom fragments; a client's Initial is  *)
(* padded to the full size.  TLS (crypto/tls) is external: it turns the    *)
(* fragments received into keys and new fragments.                         *)
(***************************************************************************)
EXTENDS SentPackets

CONSTANTS DatagramRoom, \* packets, and crypto fragments, of a full datagram
          MaxUndecryptablePackets,
          MaxEvents     \* bound on lost datagrams and early timeouts together; one less
                        \* with a Retry or with 0-RTT

\* Fragments: ClientHello; ServerHello; the server's remaining flight, in two
\* parts; the client's Finished; HANDSHAKE_DONE; application data of the client.
CH == 1
SH == 2
EE == 3
FIN == 4
CFIN == 5
HD == 6
DATA == 7

LevelOf(f) == CASE f \in {CH, SH} -> "initial" [] f \in {EE, FIN, CFIN} -> "handshake" [] OTHER -> "1rtt"

VARIABLES ep,       \* the two connections
          net,      \* datagrams on their way: to whom, and the packets
          retry,    \* setting: the server validates addresses with a Retry
          zeroRTT,  \* setting: "off", or whether the server will accept or reject 0-RTT
          left      \* how many more of the bounded events may happen

hsVars == <<ep, net, retry, zeroRTT, left>>

Ends == {"client", "server"}
Peer(e) == IF e = "client" THEN "server" ELSE "client"

NewConn(pers, validated) ==
  [h |-> NewSentPacketHandler(pers, validated),
   new |-> {}, retx |-> {},          \* frames never sent, frames to retransmit
   got |-> {},                       \* frames received
   rcvd |-> [s \in Spaces |-> {}],   \* packet numbers received
   hasNewAck |-> {},                 \* spaces with an ACK to send
   open |-> {"initial"}, seal |-> {"initial"},
   undecryptable |-> <<>>, toProcess |-> <<>>, token |-> FALSE, created |-> pers = "client",
   complete |-> FALSE, confirmed |-> FALSE, err |-> "nil"]

HSInit ==
  /\ retry \in BOOLEAN /\ zeroRTT \in {"off", "accept", "reject"}
  /\ ep = [e \in Ends |-> IF e = "server" THEN NewConn(e, retry)
                          ELSE [NewConn(e, TRUE) EXCEPT
                                  !.new = {CH, DATA},
                                  !.seal = IF zeroRTT = "off" THEN @ ELSE @ \cup {"0rtt"}]]
  /\ net = {} /\ left = IF retry \/ zeroRTT # "off" THEN MaxEvents - 1 ELSE MaxEvents

----------------------------------------------------------------------------
\* Keys and encryption levels

\* The callbacks of the handler: frames that are lost are queued again.
Settle(c) ==
  [c EXCEPT !.retx = @ \cup c.h.lost, !.h.lost = {}, !.h.acked = {}, !.h.acked1RTT = FALSE,
            !.err = IF c.h.err # "nil" THEN c.h.err ELSE @]

dropEncryptionLevel(c, lvl) ==
  LET s == SpaceOf(lvl)
      base == [c EXCEPT !.h = DropPackets(@, lvl),
                        !.open = @ \ {lvl}, !.seal = @ \ {lvl}]
  IN  IF lvl = "0rtt" THEN base
      ELSE [base EXCEPT !.rcvd[s] = {}, !.hasNewAck = @ \ {s},
                        !.retx = {f \in @ : LevelOf(f) # lvl}, !.new = {f \in @ : LevelOf(f) # lvl}]

handleHandshakeConfirmed(c) ==
  [dropEncryptionLevel(dropEncryptionLevel(c, "initial"), "handshake") EXCEPT !.confirmed = TRUE]

\* The server confirms at once, and says so.
handleHandshakeComplete(c, e) ==
  LET done == [c EXCEPT !.undecryptable = <<>>]
  IN  IF e = "client" THEN done
      ELSE [handleHandshakeConfirmed(done) EXCEPT !.new = @ \cup {HD}]

----------------------------------------------------------------------------
\* The crypto setup

\* Packets that waited for keys are handled again with every new read key.
setReadKey(c, lvl) ==
  [c EXCEPT !.open = @ \cup {lvl}, !.toProcess = @ \o c.undecryptable, !.undecryptable = <<>>]

setWriteKey(c, lvl) ==
  [c EXCEPT !.seal = IF lvl = "1rtt" THEN (@ \cup {lvl}) \ {"0rtt"} ELSE @ \cup {lvl}]

\* A client whose 0-RTT was rejected starts its streams again.
rejected0RTT(c) ==
  IF "0rtt" \in c.seal
  THEN [dropEncryptionLevel(c, "0rtt") EXCEPT !.retx = @ \ {DATA}, !.new = @ \cup {DATA}]
  ELSE c

writeRecord(c, fragments) == [c EXCEPT !.new = @ \cup fragments]

Event(kind, x) == [kind |-> kind, x |-> x]

\* crypto/tls: the events that follow the fragments in got.
TLSEvents(c, e) ==
  CASE c.complete -> <<>>
    [] ~c.complete /\ e = "server" /\ CH \in c.got /\ "handshake" \notin c.seal ->
         (IF zeroRTT = "accept" THEN <<Event("read", "0rtt")>> ELSE <<>>)
           \o <<Event("data", {SH}), Event("read", "handshake"), Event("write", "handshake"),
                Event("data", {EE, FIN}), Event("write", "1rtt")>>
    [] ~c.complete /\ e = "server" /\ CFIN \in c.got -> <<Event("read", "1rtt"), Event("done", 0)>>
    [] ~c.complete /\ e = "client" /\ SH \in c.got /\ "handshake" \notin c.seal ->
         <<Event("read", "handshake"), Event("write", "handshake")>>
    [] ~c.complete /\ e = "client" /\ {SH, EE, FIN} \subseteq c.got ->
         (IF zeroRTT = "reject" THEN <<Event("rejected", 0)>> ELSE <<>>)
           \o <<Event("read", "1rtt"), Event("write", "1rtt"), Event("data", {CFIN}), Event("done", 0)>>
    [] OTHER -> <<>>

handleEvent(c, ev) ==
  CASE ev.kind = "read" -> setReadKey(c, ev.x)
    [] ev.kind = "write" -> setWriteKey(c, ev.x)
    [] ev.kind = "data" -> writeRecord(c, ev.x)
    [] ev.kind = "rejected" -> rejected0RTT(c)
    [] ev.kind = "done" -> [c EXCEPT !.complete = TRUE]

\* handleMessage, and handleHandshakeEvents of the connection
handleMessage(c, e) == FoldLeft(LAMBDA acc, ev : handleEvent(acc, ev), c, TLSEvents(c, e))

\* The keys for a level: there, yet to come, or dropped.
GetInitialOpener(c) == IF "initial" \in c.open THEN "ok" ELSE "dropped"

Get0RTTOpener(c) ==
  CASE "0rtt" \in c.open -> "ok"
    [] "0rtt" \notin c.open /\ "initial" \in c.open -> "later"
    [] OTHER -> "dropped"

GetHandshakeOpener(c) ==
  CASE "handshake" \in c.open -> "ok"
    [] "handshake" \notin c.open /\ "initial" \in c.open -> "later"
    [] OTHER -> "dropped"

Get1RTTOpener(c) == IF "1rtt" \in c.open THEN "ok" ELSE "later"

\* Asking for the 1-RTT keys drops the 0-RTT keys once they are old; before
\* the handshake is complete they always count as old.  (When it is complete,
\* dropping them has the effect of losing the 0-RTT packets to come.)
Drop0RTTKeys(c) == IF c.complete THEN c ELSE [c EXCEPT !.open = @ \ {"0rtt"}]

----------------------------------------------------------------------------
\* Receiving

Opener(c, lvl) ==
  CASE lvl = "initial" -> GetInitialOpener(c)
    [] lvl = "handshake" -> GetHandshakeOpener(c)
    [] lvl = "0rtt" -> Get0RTTOpener(c)
    [] lvl = "1rtt" -> Get1RTTOpener(c)

tryQueueingUndecryptablePacket(c, p) ==
  CASE c.complete -> [c EXCEPT !.err = "panic"]
    [] ~c.complete /\ Len(c.undecryptable) < MaxUndecryptablePackets ->
         [c EXCEPT !.undecryptable = Append(@, p)]
    [] OTHER -> c

\* handleUnpackError: wait for keys that will come, drop what had its keys.
handleUnpackError(c, p, opener) ==
  IF opener = "later" THEN tryQueueingUndecryptablePacket(c, p) ELSE c

\* c has just handled the ACK: the first one for a 1-RTT packet confirms the client's handshake.
confirmByAck(c, e) == IF c.h.acked1RTT /\ e = "client" /\ ~c.confirmed THEN handleHandshakeConfirmed(c) ELSE c

handleAckFrame(c, e, p) ==
  IF p.acks = {} THEN c
  ELSE Settle(confirmByAck([c EXCEPT !.h = CHOOSE g \in ReceivedAck(c.h, p.lvl, p.acks, {0}) : TRUE], e))

\* The frames of a packet, and completion of the handshake after all of them
completeAfter(c, e, wasComplete) == IF c.complete /\ ~wasComplete THEN handleHandshakeComplete(c, e) ELSE c

handleHandshakeDone(c, p) ==
  IF HD \in p.frames /\ ~c.confirmed THEN handleHandshakeConfirmed(c) ELSE c

handleFrames(c, e, p) ==
  handleHandshakeDone(
    completeAfter(handleMessage([handleAckFrame(c, e, p) EXCEPT !.got = @ \cup p.frames], e), e, c.complete),
    p)

\* handleUnpackedLongHeaderPacket, handleUnpackedShortHeaderPacket: the frames
\* of a new packet, then the ACK to send.
ackLater(c, s, p) ==
  IF s \notin c.h.live THEN c
  ELSE [c EXCEPT !.rcvd[s] = @ \cup {p.pn}, !.hasNewAck = IF p.frames # {} THEN @ \cup {s} ELSE @]

handleUnpackedPacket(c, e, p) ==
  LET seen == IF e = "server" /\ p.lvl = "handshake" /\ "initial" \in c.open
              THEN dropEncryptionLevel(c, "initial") ELSE c
  IN  ackLater([handleFrames(seen, e, p) EXCEPT !.h = ReceivedPacket(@, p.lvl)], SpaceOf(p.lvl), p)

\* handleLongHeaderPacket, handleShortHeaderPacket
handlePacket(c, e, p) ==
  LET k == IF p.lvl = "1rtt" THEN Drop0RTTKeys(c) ELSE c
      opener == Opener(c, p.lvl)
  IN  CASE e = "client" /\ p.lvl = "0rtt" -> c
        [] e = "server" \/ p.lvl # "0rtt" ->
             CASE opener # "ok" -> handleUnpackError(k, p, opener)
               [] opener = "ok" /\ p.pn \in c.rcvd[SpaceOf(p.lvl)] -> k
               [] OTHER -> handleUnpackedPacket(k, e, p)

handleOnePacket(c, e, packets, size) ==
  FoldLeft(LAMBDA acc, p : handlePacket(acc, e, p), [c EXCEPT !.h = ReceivedBytes(@, size)], packets)

SizeOf(packets) ==
  IF \E i \in DOMAIN packets : packets[i].lvl = "initial" /\ packets[i].frames # {}
  THEN DatagramRoom ELSE Len(packets)

\* handleRetryPacket: only the first one, and only before any other packet.
handleRetryPacket(c) ==
  IF c.token \/ c.rcvd["initial"] # {} \/ "initial" \notin c.open THEN c
  ELSE Settle([c EXCEPT !.h = ResetForRetry(@), !.token = TRUE])

\* The run loop: packets whose keys may have come are handled first, again as
\* long as they bring new keys.
RECURSIVE ProcessUndecryptable(_, _)
ProcessUndecryptable(c, e) ==
  IF c.toProcess = <<>> THEN c
  ELSE ProcessUndecryptable(
         FoldLeft(LAMBDA acc, p : handlePacket(acc, e, p), [c EXCEPT !.toProcess = <<>>], c.toProcess), e)

----------------------------------------------------------------------------
\* Sending

FirstN(S, n) == {f \in S : Cardinality({g \in S : g < f}) < n}

\* The frames of a packet: retransmissions, or else new data.
FramesFor(c, lvl, room) ==
  LET at(S) == {f \in S : LevelOf(f) = lvl \/ (lvl = "0rtt" /\ LevelOf(f) = "1rtt")}
  IN  IF at(c.retx) # {} THEN FirstN(at(c.retx), room) ELSE FirstN(at(c.new), room)

\* maybeGetCryptoPacket, maybeGetAppDataPacket: 0-RTT packets carry no ACKs.
PayloadFor(c, lvl, room) ==
  LET s == SpaceOf(lvl)
  IN  [lvl |-> lvl, pn |-> PeekPacketNumber(c.h, lvl), frames |-> FramesFor(c, lvl, room),
       acks |-> IF lvl # "0rtt" /\ s \in c.hasNewAck THEN c.rcvd[s] ELSE {}]

IsEmpty(p) == p.frames = {} /\ p.acks = {}

\* PackCoalescedPacket: Initial, Handshake, and 1-RTT or else 0-RTT, as long as
\* there is room; after confirmation only 1-RTT.
PackCoalescedPacket(c) ==
  LET lvls == IF c.confirmed THEN <<"1rtt">>
              ELSE <<"initial", "handshake", IF "1rtt" \in c.seal THEN "1rtt" ELSE "0rtt">>
      add(lvl, ps) ==
        LET used == Len(ps)
            p == PayloadFor(c, lvl, IF used < DatagramRoom THEN 1 ELSE 0)
        IN  IF lvl \notin c.seal \/ used >= DatagramRoom \/ IsEmpty(p) THEN ps ELSE Append(ps, p)
  IN  FoldLeft(LAMBDA ps, lvl : add(lvl, ps), <<>>, lvls)

\* sendPackedCoalescedPacket: the client drops its Initial keys with the first
\* Handshake packet.
dropInitialKeys(c, e, lvl) ==
  IF e = "client" /\ lvl = "handshake" /\ "initial" \in c.open THEN dropEncryptionLevel(c, "initial") ELSE c

Sent(c, e, p) ==
  LET popped == PopPacketNumber(c.h, p.lvl, FALSE)
      largest == IF p.acks = {} THEN -1 ELSE Max(p.acks)
  IN  dropInitialKeys([c EXCEPT !.h = SentPacket(popped, p.lvl, p.frames, largest, FALSE, FALSE),
                                !.new = @ \ p.frames, !.retx = @ \ p.frames,
                                !.hasNewAck = IF p.acks = {} THEN @ ELSE @ \ {SpaceOf(p.lvl)}],
                      e, p.lvl)

\* sendProbePacket: outstanding packets are queued again until there is
\* something to pack; a PING otherwise.
ProbeLoop(c, lvl) ==
  LET s == SpaceOf(lvl)
      packets == c.h.space[s].packets
      outs == {pn \in DOMAIN packets : Outstanding(packets[pn])}
      packable(pns) == \/ ~IsEmpty(PayloadFor(c, lvl, 1))
                       \/ \E m \in pns : packets[m].frames # {Ping}
      again == {pn \in outs : pn = Min(outs) \/ ~packable({m \in outs : m < pn})}
  IN  IF lvl \in c.seal THEN Settle([c EXCEPT !.h = LosePackets(@, s, again)])
      ELSE [c EXCEPT !.err = "keys"]

ModeOf(c) == SendMode(c.h, TRUE, TRUE)
ProbeLevel(mode) == IF mode = "app" THEN "1rtt" ELSE mode

CanSend(c) ==
  /\ c.created /\ c.err = "nil"
  /\ ModeOf(c) \in Spaces \/ (ModeOf(c) = "any" /\ PackCoalescedPacket(c) # <<>>)

\* What one round of triggerSending packs, and the connection that packed it.
PackProbe(c, lvl) ==
  LET pl == PayloadFor(c, lvl, DatagramRoom)
  IN  [conn |-> c, packets |-> <<IF IsEmpty(pl) THEN [pl EXCEPT !.frames = {Ping}] ELSE pl>>]

Pack(c, mode) ==
  IF mode = "any" THEN [conn |-> c, packets |-> PackCoalescedPacket(c)]
  ELSE PackProbe(ProbeLoop(c, ProbeLevel(mode)), ProbeLevel(mode))

SentAll(packed, e) == FoldLeft(LAMBDA acc, p : Sent(acc, e, p), packed.conn, packed.packets)

\* triggerSending, until there is nothing to send or the mode forbids it.
RECURSIVE triggerSending(_, _, _)
triggerSending(c, e, out) ==
  LET packed == Pack(c, ModeOf(c))
  IN  IF ~CanSend(c) THEN [conn |-> c, out |-> out]
      ELSE triggerSending(SentAll(packed, e), e,
                          out \cup {[to |-> Peer(e), token |-> c.token, packets |-> packed.packets]})

\* One turn of the run loop after an event: c is the connection the event left.
Turn(c, e, rest) ==
  \E r \in {triggerSending(ProcessUndecryptable(c, e), e, {})} :
      /\ ep' = [ep EXCEPT ![e] = r.conn]
      /\ net' = rest \cup r.out
      /\ UNCHANGED <<retry, zeroRTT>>

Start ==
  /\ CanSend(ep["client"]) /\ Turn(ep["client"], "client", net)
  /\ UNCHANGED left

\* A server answers a first Initial without a token with a Retry, or creates
\* the connection; other packets find no connection.
Receive(d) ==
  LET e == d.to
      c == ep[e]
      first == Head(d.packets)
      opens == first.lvl = "initial" /\ CH \in first.frames
      retryPacket == [to |-> "client", token |-> FALSE, packets |-> <<[lvl |-> "retry"]>>]
  IN  /\ CASE first.lvl = "retry" -> Turn(handleRetryPacket(c), e, net \ {d})
           [] first.lvl # "retry" /\ e = "server" /\ retry /\ ~d.token ->
                /\ net' = (net \ {d}) \cup (IF opens THEN {retryPacket} ELSE {})
                /\ UNCHANGED <<ep, retry, zeroRTT>>
           [] OTHER ->
                Turn(IF c.created \/ opens
                     THEN handleOnePacket([c EXCEPT !.created = TRUE], e, d.packets, SizeOf(d.packets))
                     ELSE c, e, net \ {d})
      /\ UNCHANGED left

Spend == left > 0 /\ left' = left - 1

AlarmSet(e) == ep[e].created /\ ep[e].h.alarm

\* Nothing is on its way; a timeout before that is early, and so is one while
\* the peer's, which has backed off less (getScaledPTO), is still to come.
Quiet == net = {} /\ ~CanSend(ep["client"])

Timeout(e) ==
  /\ AlarmSet(e)
  /\ IF Quiet /\ (AlarmSet(Peer(e)) => ep[e].h.ptoCount <= ep[Peer(e)].h.ptoCount)
     THEN UNCHANGED left ELSE Spend
  /\ \E g \in OnLossDetectionTimeout(ep[e].h, {FALSE}) : Turn(Settle([ep[e] EXCEPT !.h = g]), e, net)

Lose(d) ==
  /\ Spend
  /\ net' = net \ {d}
  /\ UNCHANGED <<ep, retry, zeroRTT>>

HSNext ==
  \/ Start
  \/ \E d \in net : Receive(d) \/ Lose(d)
  \/ \E e \in Ends : Timeout(e)

----------------------------------------------------------------------------

\* An honest exchange never ends in an error: no ACK for something unsent, no
\* probe for a level without keys, no PTO without packets, and no packet that
\* waits for keys once the handshake is complete (a panic in the code).
NoError == \A e \in Ends : ep[e].err = "nil"

InHistory(h) == UNION {{s} \X DOMAIN h.space[s].packets : s \in h.live}

\* Both handlers' bytes_in_flight is what their histories hold, through key
\* drops, retries and 0-RTT rejection; an unvalidated server has sent at most
\* the permitted multiple of what it received, up to the datagram in progress.
FlightAccounting ==
  \A e \in Ends :
    LET h == ep[e].h
    IN  /\ h.bytesInFlight = Cardinality({x \in InHistory(h) :
                               IncludedInBytesInFlight(h.space[x[1]].packets[x[2]])})
        /\ ~h.validated => h.bytesSent < AmplificationFactor * h.bytesReceived + DatagramRoom

\* Keys are dropped only when the peer no longer needs them: a client that
\* confirmed knows the server completed, and the server completes after it.
KeysOutliveNeed ==
  /\ ep["client"].confirmed => ep["server"].complete
  /\ ep["server"].complete => ep["client"].complete

\* Whatever is lost, both sides confirm the handshake and the client's data
\* arrives: neither the amplification limit nor a dropped key space leaves both
\* sides waiting.  Packet numbers only grow, so the two run until nothing is on
\* its way and no alarm is set.
HandshakeConfirms ==
  Quiet /\ (\A e \in Ends : ~AlarmSet(e)) =>
    (\A e \in Ends : ep[e].confirmed) /\ DATA \in ep["server"].got
=============================================================================
