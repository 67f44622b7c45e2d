---------------------------- MODULE LossRecovery ----------------------------
(***************************************************************************)
(* Loss recovery of application data once the handshake is confirmed: a    *)
(* sender with the handler of SentPackets, a network that loses and        *)
(* reorders packets, and a peer that acknowledges any part of what it      *)
(* received.  The connection sends data, Path MTU probes, path probes (on  *)
(* other paths), and PTO probes, may migrate to another path, and its      *)
(* packet number generator skips numbers.                                  *)
(***************************************************************************)
EXTENDS SentPackets

CONSTANTS NumFrames,    \* frames of stream data and control frames, each sent until acknowledged
          Window,       \* the congestion window, in packets
          MaxEvents     \* bound on lost packets, early timeouts, skipped numbers, MTU and path
                        \* probes and migrations, all together

Frames == 1 .. NumFrames

VARIABLES h,       \* the sentPacketHandler
          queue,   \* frames that wait to be (re)transmitted
          acked,   \* frames whose handler was told OnAcked
          net,     \* packets on their way: packet number and frames
          rcvd,    \* packet numbers the peer received
          arrived, \* frames the peer received
          left     \* how many more of the bounded events may happen

lrVars == <<h, queue, acked, net, rcvd, arrived, left>>

MTUFrame == -1
PathFrame == -2

\* Take the frames of the callbacks out of the handler.
Settle(g) ==
  /\ h' = [g EXCEPT !.lost = {}, !.acked = {}]
  /\ queue' = queue \cup (g.lost \cap Frames)
  /\ acked' = acked \cup (g.acked \cap Frames)

Spend == left > 0 /\ left' = left - 1

LRInit ==
  /\ h = DropPackets(DropPackets(NewSentPacketHandler("client", TRUE), "initial"), "handshake")
  /\ queue = Frames /\ acked = {} /\ net = {} /\ rcvd = {} /\ arrived = {}
  /\ left = MaxEvents

Mode == SendMode(h, h.bytesInFlight < Window, TRUE)

\* The packet is registered with the handler, and put on the wire.
Register(g, frames, isMTUProbe, isPathProbe, skip) ==
  LET popped == PopPacketNumber(g, "1rtt", skip)
      pn == popped.space["app"].next - 1
  IN  /\ h' = [SentPacket(popped, "1rtt", frames, -1, isMTUProbe, isPathProbe)
                 EXCEPT !.lost = {}]
      /\ net' = net \cup {[pn |-> pn, frames |-> frames]}

Skipping(skip) == IF skip THEN Spend ELSE UNCHANGED left

\* sendPackets: a packet with the frame that comes next, retransmissions first.
SendData ==
  /\ Mode = "any" /\ queue # {}
  /\ \E skip \in BOOLEAN : Skipping(skip) /\ Register(h, {Min(queue)}, FALSE, FALSE, skip)
  /\ queue' = queue \ {Min(queue)}
  /\ UNCHANGED <<acked, rcvd, arrived>>

SendMTUProbe ==
  /\ Mode = "any"
  /\ Spend
  /\ Register(h, {MTUFrame}, TRUE, FALSE, FALSE)
  /\ UNCHANGED <<queue, acked, rcvd, arrived>>

SendPathProbe ==
  /\ Mode \in {"any", "pacing", "ack"}
  /\ Spend
  /\ Register(h, {PathFrame}, FALSE, TRUE, FALSE)
  /\ UNCHANGED <<queue, acked, rcvd, arrived>>

\* sendProbePacket: outstanding packets are queued for retransmission until
\* there is something to pack; without any, the probe carries a PING.
ProbeLoop ==
  LET packets == h.space["app"].packets
      outs == {pn \in DOMAIN packets : Outstanding(packets[pn])}
      packable(pns) == queue # {} \/ \E m \in pns : packets[m].frames \cap Frames # {}
  IN  LosePackets(h, "app", {pn \in outs : pn = Min(outs) \/ ~packable({m \in outs : m < pn})})

SendPTOProbe ==
  /\ Mode = "app"
  /\ LET g == ProbeLoop
         avail == queue \cup (g.lost \cap Frames)
     IN  IF avail = {}
         THEN Register(g, {Ping}, FALSE, FALSE, FALSE) /\ UNCHANGED queue
         ELSE Register(g, {Min(avail)}, FALSE, FALSE, FALSE) /\ queue' = avail \ {Min(avail)}
  /\ UNCHANGED <<acked, rcvd, arrived, left>>

\* A packet reaches the peer, or is lost.
Deliver(p) ==
  /\ net' = net \ {p} /\ rcvd' = rcvd \cup {p.pn} /\ arrived' = arrived \cup p.frames
  /\ UNCHANGED <<h, queue, acked, left>>

Lose(p) ==
  /\ Spend
  /\ net' = net \ {p}
  /\ UNCHANGED <<h, queue, acked, rcvd, arrived>>

\* An ACK frame of the peer arrives; it may be old, or cut to some ranges.
Ack(acks) ==
  /\ \E g \in ReceivedAck(h, "1rtt", acks, 0 .. Max(acks)) : Settle(g)
  /\ UNCHANGED <<net, rcvd, arrived, left>>

Tracked == DOMAIN h.space["app"].packets

\* What an ACK for all that the peer received would acknowledge.
Ackable ==
  IF rcvd = {} THEN {} ELSE detectAndRemoveAckedPackets(h, "1rtt", rcvd).pns

\* Nothing is on its way or due that would change the handler before the timer.
Quiet == net = {} /\ Ackable = {} /\ (queue # {} => Mode # "any") /\ Mode # "app"

Timeout ==
  /\ h.alarm
  /\ IF Quiet THEN UNCHANGED left ELSE Spend
  /\ \E g \in OnLossDetectionTimeout(h, {FALSE}) : Settle(g)
  /\ UNCHANGED <<net, rcvd, arrived>>

Migrate ==
  /\ Spend
  /\ Settle(MigratedPath(h))
  /\ UNCHANGED <<net, rcvd, arrived>>

LRNext ==
  \/ SendData \/ SendMTUProbe \/ SendPathProbe \/ SendPTOProbe
  \/ \E p \in net : Deliver(p) \/ Lose(p)
  \/ \E lo, hi \in rcvd : lo <= hi /\ Ack({pn \in rcvd : lo <= pn /\ pn <= hi})
  \/ Timeout \/ Migrate

----------------------------------------------------------------------------

AppSpace == h.space["app"]

\* bytes_in_flight and the number of outstanding packets, both kept
\* incrementally (and panicking when negative), are those of the history.
Accounting ==
  /\ h.bytesInFlight = Cardinality(InFlightOf(AppSpace, Tracked))
  /\ AppSpace.numOutstanding = Cardinality({pn \in Tracked : Outstanding(AppSpace.packets[pn])})

\* No frame is forgotten and none is doubled: until it is acknowledged it
\* either waits to be sent or is in exactly one packet of the history,
\* whatever is lost, declared lost wrongly, probed or migrated; and an
\* acknowledged frame did reach the peer.
FramesAccounted ==
  \A f \in Frames :
    LET carriers == {pn \in Tracked : f \in AppSpace.packets[pn].frames}
    IN  /\ Cardinality(carriers) + (IF f \in queue THEN 1 ELSE 0) + (IF f \in acked THEN 1 ELSE 0) = 1
        /\ f \in acked => f \in arrived

\* Whatever is outstanding has the loss alarm running for it.
AlarmRuns ==
  HasOutstandingPackets(h, "app") \/ HasOutstandingPathProbes(h) => h.alarm

\* A peer that only acknowledges what it received is never accused of
\* acknowledging unsent or skipped packets.
NoFalseAccusation == h.err = "nil"

\* Every frame is acknowledged in the end: packet numbers only grow and what can go wrong is
\* bounded, so a connection runs until nothing is on its way and no alarm is set, and then nothing is
\* left to acknowledge.
AllAcked == Quiet /\ ~h.alarm => acked = Frames
=============================================================================
