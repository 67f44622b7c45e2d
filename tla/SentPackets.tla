---------------------------- MODULE SentPackets ----------------------------
(***************************************************************************)
(* The sent packet handler of a QUIC connection                            *)
(* (internal/ackhandler/sent_packet_handler.go, sent_packet_history.go):   *)
(* one packet number space per encryption stage, the loss alarm, probe     *)
(* timeouts (PTO), and the server's anti-amplification limit.              *)
(*                                                                         *)
(* The handler is the record h; every method of the Go type is an operator *)
(* that returns the next handler, or the set of the next handlers where    *)
(* the outcome depends on the clock.  Time is abstracted: a zero lossTime  *)
(* is a Boolean, h.lastAckEliciting lists the spaces by the time of their  *)
(* last ack-eliciting packet, and which packets are older than the time    *)
(* threshold is chosen as a cut through the packet numbers, because send   *)
(* times grow with them.  Every packet has length 1.  Frames whose handler *)
(* is called are collected in h.acked or h.lost, and the packet number     *)
(* given to ignorePacketsBelow in h.ignoreBelow: the caller takes them     *)
(* from there.                                                             *)
(***************************************************************************)
EXTENDS Integers, Sequences, FiniteSets, FiniteSetsExt, SequencesExt

CONSTANTS AmplificationFactor,   \* amplificationFactor
          PacketThreshold,       \* packetThreshold
          MaxSkippedPackets,     \* maxSkippedPackets
          MaxTrackedSentPackets,
          MaxOutstandingSentPackets

Spaces == {"initial", "handshake", "app"}

SpaceOf(lvl) == IF lvl = "0rtt" \/ lvl = "1rtt" THEN "app" ELSE lvl

\* A frame without a handler: its loss is nobody's concern.
Ping == 0

Nothing == [pn \in {} |-> 0]

newPacketNumberSpace(initialPN) ==
  [next |-> initialPN, packets |-> Nothing, numOutstanding |-> 0,
   pathProbes |-> <<>>, skipped |-> <<>>,
   largestAcked |-> -1, largestSent |-> -1, lossTime |-> FALSE]

NewSentPacketHandler(pers, clientAddressValidated) ==
  [pers |-> pers, live |-> Spaces,
   space |-> [s \in Spaces |-> newPacketNumberSpace(0)],
   completed |-> pers = "server",
   validated |-> pers = "client" \/ clientAddressValidated,
   confirmed |-> FALSE, bytesReceived |-> 0, bytesSent |-> 0,
   lastAckEliciting |-> <<>>, bytesInFlight |-> 0, ptoCount |-> 0, ptoMode |-> "none", numProbesToSend |-> 0,
   alarm |-> FALSE,
   acked |-> {}, lost |-> {}, ignoreBelow |-> 0, acked1RTT |-> FALSE, err |-> "nil"]

----------------------------------------------------------------------------
\* sent_packet_history.go

IsAckEliciting(p) == p.frames # {}

Outstanding(p) == ~p.isMTUProbe /\ ~p.isPathProbe /\ IsAckEliciting(p)

IncludedInBytesInFlight(p) == ~p.isPathProbe /\ IsAckEliciting(p)

HasOutstandingPackets(h, s) == s \in h.live /\ h.space[s].numOutstanding > 0

HasOutstandingPathProbes(h) == h.space["app"].pathProbes # <<>>

Without(f, pns) == [pn \in DOMAIN f \ pns |-> f[pn]]

SkippedPacket(sp, pn) ==
  LET kept == IF Len(sp.skipped) = MaxSkippedPackets THEN Tail(sp.skipped) ELSE sp.skipped
  IN  [sp EXCEPT !.skipped = Append(kept, pn)]

\* Remove and DeclareLost: the packet leaves the history, and with it the
\* count of outstanding packets.
DeclareLost(sp, pns) ==
  [sp EXCEPT !.packets = Without(@, pns),
             !.numOutstanding =
                @ - Cardinality({pn \in pns : Outstanding(sp.packets[pn])})]

FirstOutstanding(sp) ==
  Min({pn \in DOMAIN sp.packets : Outstanding(sp.packets[pn])})

\* The slice of packets runs from its first live entry to the highest number
\* used, lost and skipped entries in between included.
HistoryLen(sp) ==
  IF DOMAIN sp.packets = {} THEN 0 ELSE sp.next - Min(DOMAIN sp.packets)

Difference(sp, a, b) ==
  IF sp.skipped = <<>> \/ a < Head(sp.skipped) \/ b > Last(sp.skipped)
  THEN a - b
  ELSE a - b - Cardinality({i \in DOMAIN sp.skipped : b < sp.skipped[i] /\ sp.skipped[i] < a})

----------------------------------------------------------------------------
\* The loss detection alarm

isAmplificationLimited(h) ==
  ~h.validated /\ h.bytesSent >= AmplificationFactor * h.bytesReceived

hasOutstandingCryptoPackets(h) ==
  HasOutstandingPackets(h, "initial") \/ HasOutstandingPackets(h, "handshake")

\* The spaces whose loss time may be the earliest.
getLossTimeAndSpace(h) == {s \in h.live : h.space[s].lossTime}

\* MUTANT: a client with nothing outstanding does not probe the server.
getPTOTimeAndSpace_bug(h) ==
  LET due == SelectSeq(h.lastAckEliciting,
               LAMBDA s : HasOutstandingPackets(h, s) /\ (s = "app" => h.confirmed))
  IN  IF due = <<>> THEN {} ELSE {Head(due)}

\* The space with the earliest probe timeout: of the spaces with outstanding
\* packets, the one whose last ack-eliciting packet is oldest.  Empty if none.
getPTOTimeAndSpace(h) ==
  IF ~h.confirmed /\ ~hasOutstandingCryptoPackets(h)
  THEN IF h.completed THEN {}
       ELSE {IF "initial" \in h.live THEN "initial" ELSE "handshake"}
  ELSE LET due == SelectSeq(h.lastAckEliciting,
                    LAMBDA s : HasOutstandingPackets(h, s) /\ (s = "app" => h.confirmed))
       IN  IF due = <<>> THEN {} ELSE {Head(due)}

\* MUTANT: path probes have no alarm.
lossDetectionTime_bug(h) ==
  /\ ~h.completed \/ hasOutstandingCryptoPackets(h) \/ HasOutstandingPackets(h, "app")
  /\ ~isAmplificationLimited(h)
  /\ getLossTimeAndSpace(h) # {} \/ getPTOTimeAndSpace(h) # {}


lossDetectionTime(h) ==
  /\ \/ ~h.completed
     \/ hasOutstandingCryptoPackets(h)
     \/ HasOutstandingPackets(h, "app")
     \/ HasOutstandingPathProbes(h)
  /\ ~isAmplificationLimited(h)
  /\ \/ getLossTimeAndSpace(h) # {}
     \/ getPTOTimeAndSpace(h) # {}
     \/ HasOutstandingPathProbes(h)

setLossDetectionTimer(h) == [h EXCEPT !.alarm = lossDetectionTime(h)]

----------------------------------------------------------------------------
\* Frames of packets that are given up

RemoveFromBytesInFlight(h, ps) ==
  [h EXCEPT !.bytesInFlight = @ - Cardinality(ps)]

FramesOf(sp, pns) == UNION {sp.packets[pn].frames : pn \in pns}

InFlightOf(sp, pns) == {pn \in pns : IncludedInBytesInFlight(sp.packets[pn])}

\* DeclareLost, removeFromBytesInFlight and queueFramesForRetransmission of
\* the packets pns of space s, as the callers always combine them.
LosePackets(h, s, pns) ==
  LET sp == h.space[s]
      out == InFlightOf(sp, pns)
  IN  [RemoveFromBytesInFlight(h, out) EXCEPT
         !.space[s] = DeclareLost(sp, pns),
         !.lost = @ \cup (FramesOf(sp, out) \ {Ping})]

\* Packets below cut were sent before the time threshold.  A path probe's
\* entry in the history has a zero send time.
detectLostPackets(h, s, cut) ==
  LET sp == h.space[s]
      seen == {pn \in DOMAIN sp.packets : pn <= sp.largestAcked}
      late(pn) == pn < cut \/ sp.packets[pn].isPathProbe
      lost == {pn \in seen : late(pn) \/ Difference(sp, sp.largestAcked, pn) >= PacketThreshold}
  IN  LosePackets([h EXCEPT !.space[s].lossTime = seen # lost], s, lost)

\* The first n path probes were sent more than pathProbePacketLossTimeout ago.
detectLostPathProbes(h, n) ==
  LET probes == h.space["app"].pathProbes
  IN  [h EXCEPT !.lost = @ \cup UNION {probes[i].frames : i \in 1 .. n},
                !.space["app"].pathProbes = SubSeq(probes, n + 1, Len(probes))]

----------------------------------------------------------------------------
\* Events

PeekPacketNumber(h, lvl) == h.space[SpaceOf(lvl)].next

\* skip: the generator of the application data space leaves out a number.
PopPacketNumber(h, lvl, skip) ==
  LET s == SpaceOf(lvl)
      n == h.space[s].next
      sp == IF skip THEN SkippedPacket(h.space[s], n) ELSE h.space[s]
  IN  [h EXCEPT !.space[s] = [sp EXCEPT !.next = IF skip THEN n + 2 ELSE n + 1]]

\* The packet was given the number before the next one.
SentPacket(h, lvl, frames, largestAcked, isMTUProbe, isPathProbe) ==
  LET s == SpaceOf(lvl)
      pn == h.space[s].next - 1
      p == [lvl |-> lvl, frames |-> IF isPathProbe THEN {} ELSE frames,
            largestAcked |-> IF isPathProbe THEN -1 ELSE largestAcked,
            isMTUProbe |-> isMTUProbe, isPathProbe |-> isPathProbe]
      sent == [h EXCEPT !.bytesSent = @ + 1,
                        !.space[s].largestSent = pn,
                        !.space[s].packets = [n \in DOMAIN @ \cup {pn} |-> IF n = pn THEN p ELSE @[n]]]
      flying == [sent EXCEPT !.bytesInFlight = @ + 1,
                             !.lastAckEliciting = Append(SelectSeq(@, LAMBDA t : t # s), s),
                             !.numProbesToSend = Max({@ - 1, 0}),
                             !.space[s].numOutstanding = IF Outstanding(p) THEN @ + 1 ELSE @]
  IN  CASE isPathProbe ->
             setLossDetectionTimer([sent EXCEPT !.space[s].pathProbes =
                Append(@, [pn |-> pn, frames |-> frames, largestAcked |-> largestAcked])])
        [] ~isPathProbe /\ IsAckEliciting(p) -> setLossDetectionTimer(flying)
        [] OTHER -> IF h.completed THEN sent ELSE setLossDetectionTimer(sent)


ReceivedBytes(h, n) ==
  LET got == [h EXCEPT !.bytesReceived = @ + n]
  IN  IF isAmplificationLimited(h) /\ ~isAmplificationLimited(got)
      THEN setLossDetectionTimer(got) ELSE got

ReceivedPacket(h, lvl) ==
  IF h.pers = "server" /\ lvl = "handshake" /\ ~h.validated
  THEN setLossDetectionTimer([h EXCEPT !.validated = TRUE]) ELSE h

\* MUTANT: the dropped packets stay in bytes_in_flight.
DropPackets_bug(h, lvl) ==
  LET s == SpaceOf(lvl)
      known == IF h.pers = "client" /\ lvl = "handshake" THEN [h EXCEPT !.completed = TRUE] ELSE h
      after == IF lvl = "0rtt" THEN known
               ELSE [known EXCEPT !.live = @ \ {s}, !.space[s] = newPacketNumberSpace(0),
                                  !.confirmed = @ \/ lvl = "handshake"]
  IN  IF s \notin h.live THEN known
      ELSE setLossDetectionTimer([after EXCEPT !.ptoCount = 0, !.numProbesToSend = 0, !.ptoMode = "none"])

\* Dropping keys of an encryption level.  0-RTT packets are dropped when the
\* server rejects 0-RTT: they are the first packets of their space.
DropPackets(h, lvl) ==
  LET s == SpaceOf(lvl)
      sp == h.space[s]
      known == IF h.pers = "client" /\ lvl = "handshake" THEN [h EXCEPT !.completed = TRUE] ELSE h
      gone == IF lvl # "0rtt" THEN DOMAIN sp.packets
              ELSE {pn \in DOMAIN sp.packets :
                      \A m \in DOMAIN sp.packets : m <= pn => sp.packets[m].lvl = "0rtt"}
      rid == RemoveFromBytesInFlight(known, InFlightOf(sp, gone))
      after == IF lvl = "0rtt" THEN [rid EXCEPT !.space[s] = DeclareLost(sp, gone)]
               ELSE [rid EXCEPT !.live = @ \ {s}, !.space[s] = newPacketNumberSpace(0),
                                !.confirmed = @ \/ lvl = "handshake"]
  IN  IF s \notin h.live THEN known
      ELSE setLossDetectionTimer([after EXCEPT !.ptoCount = 0, !.numProbesToSend = 0, !.ptoMode = "none"])

\* The packets of the history that an ACK frame for acks newly acknowledges.
detectAndRemoveAckedPackets(h, lvl, acks) ==
  LET s == SpaceOf(lvl)
      sp == h.space[s]
      probeOf(pn) == SelectSeq(sp.pathProbes, LAMBDA q : q.pn = pn)
      listed == {pn \in DOMAIN sp.packets \cap acks : ~sp.packets[pn].isPathProbe \/ probeOf(pn) # <<>>}
      real(pn) == IF sp.packets[pn].isPathProbe THEN Head(probeOf(pn)) ELSE sp.packets[pn]
      below == {real(pn).largestAcked + 1 : pn \in listed}
  IN  [pns |-> listed, flying |-> InFlightOf(sp, listed),
       acked1RTT |-> \E pn \in listed : sp.packets[pn].isPathProbe \/ sp.packets[pn].lvl = "1rtt",
       h |-> [h EXCEPT !.acked = @ \cup (UNION {real(pn).frames : pn \in listed} \ {Ping}),
                       !.ignoreBelow = IF lvl = "1rtt" THEN Max(below \cup {@}) ELSE @,
                       !.space[s] = [DeclareLost(sp, listed) EXCEPT
                          !.pathProbes = SelectSeq(@, LAMBDA q : q.pn \notin listed)]]]

\* The handlers an ACK frame may lead to: cuts are the time thresholds, and
\* stale the numbers of timed out path probes, that the clock allows.
ReceivedAck(h, lvl, acks, cuts) ==
  LET s == SpaceOf(lvl)
      largest == Max(acks)
      known == IF h.pers = "client" /\ ~h.completed /\ lvl # "initial"
               THEN setLossDetectionTimer([h EXCEPT !.completed = TRUE]) ELSE h
      d == detectAndRemoveAckedPackets(known, lvl, acks)
      raised == [d.h EXCEPT !.space[s].largestAcked = Max({@, largest})]
      stale == IF lvl = "1rtt" /\ cuts # {0} THEN 0 .. Len(raised.space["app"].pathProbes) ELSE {0}
      finish(g) == setLossDetectionTimer(
                     [RemoveFromBytesInFlight(g, d.flying) EXCEPT
                        !.ptoCount = IF g.completed THEN 0 ELSE @,
                        !.numProbesToSend = 0, !.acked1RTT = @ \/ d.acked1RTT])
  IN  CASE largest > h.space[s].largestSent -> {[h EXCEPT !.err = "unsent"]}
        [] largest <= h.space[s].largestSent /\ lvl = "1rtt" /\ acks \cap ToSet(h.space[s].skipped) # {} ->
             {[known EXCEPT !.err = "skipped"]}
        [] OTHER -> IF d.pns = {} THEN {d.h}
                    ELSE {finish(detectLostPathProbes(detectLostPackets(raised, s, cut), n)) :
                            cut \in cuts, n \in stale}

\* The handlers that the alarm may lead to.  When it fires for a loss time, the
\* first packet not declared lost so far is older than the time threshold; it
\* may be gone, since QueueProbePacket and MigratedPath leave the loss time set.
OnLossDetectionTimeout(h, skips) ==
  LET mayLose == IF h.confirmed THEN 0 .. Len(h.space["app"].pathProbes) ELSE {0}
      seen(g, s) == {pn \in DOMAIN g.space[s].packets : pn <= g.space[s].largestAcked}
      cuts(g, s) == IF seen(g, s) = {} THEN {0} ELSE Min(seen(g, s)) + 1 .. g.space[s].largestAcked
      loss(g) == UNION {{detectLostPackets(g, s, cut) : cut \in cuts(g, s)} :
                          s \in getLossTimeAndSpace(g)}
      anti(g) == IF g.live \cap {"initial", "handshake"} = {} THEN [g EXCEPT !.err = "bug"]
                 ELSE [g EXCEPT !.ptoCount = @ + 1, !.numProbesToSend = @ + 1,
                                !.ptoMode = IF "initial" \in g.live THEN "initial" ELSE "handshake"]
      probe(g, s, skip) ==
        LET popped == PopPacketNumber(g, "1rtt", skip)
            pn == popped.space["app"].next - 1
            skipped == [popped EXCEPT !.space["app"] = SkippedPacket(@, pn)]
        IN  [IF s = "app" THEN skipped ELSE g EXCEPT
               !.ptoCount = @ + 1, !.numProbesToSend = @ + 2, !.ptoMode = s]
      pto(g) == LET due == getPTOTimeAndSpace(g)
                IN  {IF HasOutstandingPackets(g, s) \/ g.completed
                        \/ (s = "app" /\ HasOutstandingPathProbes(g))
                     THEN probe(g, s, skip) ELSE g : s \in due, skip \in skips}
                    \cup (IF due = {} THEN {g} ELSE {})
      fire(g) == IF getLossTimeAndSpace(g) # {} THEN loss(g)
                 ELSE IF g.bytesInFlight = 0 /\ ~g.completed THEN {anti(g)} ELSE pto(g)
  IN  {setLossDetectionTimer(g) : g \in UNION {fire(detectLostPathProbes(h, n)) : n \in mayLose}}

\* canSend and hasPacingBudget are the congestion controller's answers.
SendMode(h, canSend, hasPacingBudget) ==
  LET tracked == HistoryLen(h.space["initial"]) + HistoryLen(h.space["handshake"])
                   + HistoryLen(h.space["app"])
  IN  CASE isAmplificationLimited(h) -> "none"
        [] ~isAmplificationLimited(h) /\ tracked >= MaxTrackedSentPackets -> "none"
        [] OTHER -> IF h.numProbesToSend > 0 THEN h.ptoMode
                    ELSE IF ~canSend \/ tracked >= MaxOutstandingSentPackets THEN "ack"
                    ELSE IF ~hasPacingBudget THEN "pacing" ELSE "any"

\* QueueProbePacket; FALSE in the code is an unchanged handler here.
QueueProbePacket(h, s) ==
  IF HasOutstandingPackets(h, s) THEN LosePackets(h, s, {FirstOutstanding(h.space[s])}) ELSE h

ResetForRetry(h) ==
  LET give(s) == FramesOf(h.space[s], DOMAIN h.space[s].packets) \ {Ping}
  IN  [h EXCEPT !.bytesInFlight = 0,
                !.lost = @ \cup give("initial") \cup give("app"),
                !.space = [s \in Spaces |-> IF s = "handshake" THEN @[s]
                                            ELSE newPacketNumberSpace(@[s].next)],
                !.alarm = FALSE, !.ptoCount = 0]

\* The loop over the path probes removes them from the slice it ranges over:
\* the removal shifts the rest down, so the loop sees every other probe and the
\* last one again.
LeftByLoop(probes) ==
  LET n == Len(probes)
      seen == {i \in 1 .. n : i % 2 = 1}
  IN  SelectSeq([i \in 1 .. n |-> IF i \in seen \/ i = n THEN [pn |-> -1] ELSE probes[i]],
                LAMBDA q : q.pn # -1)

\* MUTANT: the frames of the packets given up are not queued for retransmission.
MigratedPath_bug(h) ==
  LET sp == h.space["app"]
      lose == [LosePackets(h, "app", DOMAIN sp.packets) EXCEPT !.lost = {}]
  IN  setLossDetectionTimer([lose EXCEPT !.space["app"].pathProbes = LeftByLoop(sp.pathProbes)])


MigratedPath(h) ==
  LET sp == h.space["app"]
      lose == LosePackets(h, "app", DOMAIN sp.packets)
  IN  setLossDetectionTimer([lose EXCEPT !.space["app"].pathProbes = LeftByLoop(sp.pathProbes)])
=============================================================================
