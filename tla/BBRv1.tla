------------------------------- MODULE BBRv1 -------------------------------
(***************************************************************************)
(* BBRv1Sender (quic-go-bbr/internal/congestion/bbrv1.go), the congestion      *)
(* control of the MOQT dialer and listener, driven by the                    *)
(* sent packet handler: packets sent within the window and the pacing budget, *)
(* acknowledgements, losses, migration, MTU discovery and time.              *)
(*                                                                         *)
(* As in BBRv3 the sender is a record b and a method an operator.  Bytes,     *)
(* times and rates are small integers, rounded down where the code rounds;   *)
(* gains are per mille.  Here round-trip times and delivery rates come from   *)
(* the times at which the packets were sent and acknowledged.  inRecovery     *)
(* is never set (OnCongestionEvent's body is a comment), nextSendTime is      *)
(* left out.                                                                *)
(***************************************************************************)
EXTENDS Integers, Sequences, SequencesExt, FiniteSetsExt

CONSTANTS
    Sizes,        \* values of maxDatagramSize
    Second,       \* time.Second in ticks: rates are bytes per Second
    MinBdp,       \* min_bdp, 32
    BwWin,        \* bw_win, 16
    TenSeconds,   \* initial lastNewMinRTT, and the time between two PROBE_RTT
    ProbeRttTime, \* 200ms
    Colliding,    \* packets with the same number, in different packet number spaces
    MaxPackets,   \* bound on the packets sent
    MaxTime,      \* bound on the clock
    MaxResets,    \* bound on the migrations
    MaxLosses     \* bound on the losses

VARIABLES
    b,        \* the sender
    now,      \* monotime
    sentTimes,\* sentTimes[p]: when packet p was sent, 0 when there is no entry
    flight,   \* packets sent and neither acknowledged nor lost
    next,     \* next packet number
    resets,   \* migrations so far
    losses    \* losses so far

vars == <<b, now, sentTimes, flight, next, resets, losses>>

Packets == 1 .. MaxPackets

Larger(x, y) == IF x >= y THEN x ELSE y

\* probeBWCycleGain.
CycleGain(round) == CASE round % 8 = 0 -> 1250 [] round % 8 = 1 -> 750 [] OTHER -> 1000

MinMaxBandwidth(mds, rtt) == (MinBdp * mds * Second) \div rtt

NewSender(mds, t) ==
    [mds |-> mds, state |-> "STARTUP", round |-> 0, roundStart |-> t, growRound |-> 0, growBw |-> 0,
     pacing_gain |-> 2890, cwnd_gain |-> 2890, lastNewMinRTT |-> TenSeconds,
     lastNewMinRTTTime |-> t, last_probeRTTStart |-> 0,
     maxBandwidth |-> MinMaxBandwidth(mds, TenSeconds), delivered |-> 0, ackinfo |-> <<>>,
     latelybandwidth |-> [i \in 0 .. BwWin - 1 |-> 0]]

BdpTicks(x) == Larger(x.maxBandwidth * x.lastNewMinRTT, MinBdp * x.mds * Second)

Bdp(x) == BdpTicks(x) \div Second

Cwnd(x) ==
    IF x.state = "PROBE_RTT" THEN 4 * x.mds ELSE (BdpTicks(x) * x.cwnd_gain) \div (1000 * Second)

EntryProbeBW(x) ==
    [x EXCEPT !.state = "PROBE_BW", !.pacing_gain = CycleGain(x.round), !.cwnd_gain = 2000]

\* Mutant: a PROBE_RTT from which no time has passed is left too.
MayExitProbeRTTAlways(x, t) == IF x.state = "PROBE_RTT" THEN EntryProbeBW(x) ELSE x

\* mayExitPROBE_RTT.
MayExitProbeRTT(x, t) ==
    IF x.state = "PROBE_RTT" /\ t - x.last_probeRTTStart >= ProbeRttTime THEN EntryProbeBW(x) ELSE x

-----------------------------------------------------------------------------
(* The delivery rate over the last lastNewMinRTT.                          *)

SumAcked(s) == FoldSeq(LAMBDA a, n : a.bytes + n, 0, s)

Expired(x, t) == {i \in DOMAIN x.ackinfo : t - x.ackinfo[i].time > x.lastNewMinRTT}

\* Mutant: the last expired entry stays in the window.
ExpireAckinfoShort(x, t) ==
    LET keep == IF Expired(x, t) = {} THEN 1 ELSE Max(Expired(x, t))
    IN  [x EXCEPT !.ackinfo = SubSeq(@, keep, Len(@)),
                  !.delivered = @ - SumAcked([i \in 1 .. Cardinality(Expired(x, t)) |-> x.ackinfo[i]])]

\* update_lastbandwidth_filter drops everything up to the last expired entry and subtracts
\* the bytes of the expired entries.
ExpireAckinfo(x, t) ==
    LET old == Expired(x, t)
        keep == IF old = {} THEN 1 ELSE Max(old) + 1
    IN  [x EXCEPT !.ackinfo = SubSeq(@, keep, Len(@)),
                  !.delivered = @ - MapThenSumSet(LAMBDA i : x.ackinfo[i].bytes, old)]

DeliveryRate(x) == (x.delivered * Second) \div x.lastNewMinRTT

-----------------------------------------------------------------------------
(* OnPacketAcked.                                                          *)

SampleRtt(x, t, rtt) ==
    IF rtt < x.lastNewMinRTT /\ rtt > 0
    THEN [x EXCEPT !.lastNewMinRTT = rtt, !.lastNewMinRTTTime = t] ELSE x

UpdateMaxBandwidthFilter(x) ==
    [x EXCEPT !.maxBandwidth =
        Max({MinMaxBandwidth(x.mds, x.lastNewMinRTT)} \cup {x.latelybandwidth[i] : i \in 0 .. BwWin - 1})]

\* Growth of a quarter over growBw; from 0 every growth counts.
StartupGrowth(x) ==
    IF /\ x.state = "STARTUP" /\ x.maxBandwidth > x.growBw
       /\ 4 * (x.maxBandwidth - x.growBw) >= x.growBw
    THEN [x EXCEPT !.growBw = x.maxBandwidth, !.growRound = x.round] ELSE x

StartupEnds(x) ==
    IF x.state = "STARTUP" /\ x.round - x.growRound >= 3
    THEN [x EXCEPT !.state = "DRAIN", !.pacing_gain = 345, !.cwnd_gain = 1000] ELSE x

NewRound(x, t, rate) ==
    IF t - x.roundStart < x.lastNewMinRTT THEN x
    ELSE LET y == [x EXCEPT !.latelybandwidth[x.round % BwWin] = rate, !.round = @ + 1,
                            !.roundStart = t,
                            !.pacing_gain = IF x.state = "PROBE_BW" THEN CycleGain(x.round + 1)
                                            ELSE @]
         IN  StartupEnds(StartupGrowth(UpdateMaxBandwidthFilter(y)))

DrainEnds(x, inflight) == IF x.state = "DRAIN" /\ inflight < Bdp(x) THEN EntryProbeBW(x) ELSE x

\* Not application limited, or a new maximum.
RaiseBandwidth(x, inflight, rate) ==
    IF (rate > x.maxBandwidth \/ (inflight >= Bdp(x) /\ rate > 0)) /\ x.state # "DRAIN"
    THEN [x EXCEPT !.maxBandwidth = Larger(rate, MinMaxBandwidth(x.mds, x.lastNewMinRTT))] ELSE x

EnterProbeRTT(x, t) ==
    IF t - x.lastNewMinRTTTime >= TenSeconds /\ t - x.last_probeRTTStart >= TenSeconds
    THEN [x EXCEPT !.state = "PROBE_RTT", !.pacing_gain = 1000, !.cwnd_gain = 1000,
                   !.lastNewMinRTT = TenSeconds, !.last_probeRTTStart = t]
    ELSE x

Acked(x, t, rtt, inflight) ==
    LET u == SampleRtt(MayExitProbeRTT(x, t), t, rtt)
        v == [u EXCEPT !.delivered = @ + 1,
                       !.ackinfo = Append(@, [bytes |-> 1, time |-> t])]
        w == ExpireAckinfo(v, t)
        rate == DeliveryRate(w)
        y == DrainEnds(NewRound(w, t, rate), inflight)
    IN  IF v.state = "PROBE_RTT" THEN v
        ELSE EnterProbeRTT(RaiseBandwidth(y, inflight, rate), t)

-----------------------------------------------------------------------------
(* The transport.                                                          *)

\* Packets of one byte.
InFlight == Cardinality(flight)

Init ==
    /\ \E m \in Sizes : b = NewSender(m, 1)
    /\ now = 1
    /\ sentTimes = [p \in Packets |-> 0] /\ flight = {} /\ next = 1 /\ resets = 0 /\ losses = 0

\* HasPacingBudget: its changes to the sender, and its answer.
Paced == LET x == MayExitProbeRTT(b, now)
         IN  IF x.state = "PROBE_RTT" THEN x ELSE ExpireAckinfo(x, now)

HasBudget == \/ Paced.state = "PROBE_RTT"
             \/ 1000 * DeliveryRate(Paced) < Paced.maxBandwidth * Paced.pacing_gain

\* SendMode of the sent packet handler (CanSend, then HasPacingBudget), OnPacketSent.
SendPacket ==
    /\ next <= MaxPackets
    /\ InFlight < Cwnd(b)
    /\ HasBudget
    /\ b' = Paced
    /\ sentTimes' = [sentTimes EXCEPT ![next] = now]
    /\ flight' = flight \cup {next}
    /\ next' = next + 1
    /\ UNCHANGED <<now, resets, losses>>

PacingLimited ==
    /\ InFlight < Cwnd(b)
    /\ ~HasBudget
    /\ b' = Paced
    /\ UNCHANGED <<now, sentTimes, flight, next, resets, losses>>

\* An acknowledged packet's entry goes; without one the time is 0 and the round trip the whole
\* time since the start.  sentTimes is shared by the packet number spaces: the acknowledgement
\* of p takes the only entry of p and a colliding q, the one of the later packet.
OnPacketAcked(p) ==
    /\ p \in flight
    /\ LET same == IF p \in Colliding THEN Colliding ELSE {p}
       IN  /\ b' = Acked(b, now, now - Max({sentTimes[q] : q \in same}), InFlight)
           /\ sentTimes' = [q \in Packets |-> IF q \in same THEN 0 ELSE sentTimes[q]]
    /\ flight' = flight \ {p}
    /\ UNCHANGED <<now, next, resets, losses>>

\* One ACK frame for two packets, both with the bytes in flight before the frame.
OnTwoPacketsAcked(p, q) ==
    /\ {p, q} \subseteq flight \ Colliding /\ p < q
    /\ b' = Acked(Acked(b, now, now - sentTimes[p], InFlight), now, now - sentTimes[q], InFlight)
    /\ sentTimes' = [sentTimes EXCEPT ![p] = 0, ![q] = 0]
    /\ flight' = flight \ {p, q}
    /\ UNCHANGED <<now, next, resets, losses>>

\* OnCongestionEvent does nothing; the packet's entry stays.
OnCongestionEvent(p) ==
    /\ p \in flight
    /\ losses < MaxLosses /\ losses' = losses + 1
    /\ flight' = flight \ {p}
    /\ UNCHANGED <<b, now, sentTimes, next, resets>>

\* OnRetransmissionTimeout(true), when the connection migrates and nothing is in flight any
\* more.
OnRetransmissionTimeout ==
    /\ resets < MaxResets /\ resets' = resets + 1
    /\ b' = [NewSender(b.mds, now) EXCEPT !.lastNewMinRTT = b.lastNewMinRTT,
                                         !.lastNewMinRTTTime = b.lastNewMinRTTTime,
                                         !.last_probeRTTStart = b.last_probeRTTStart]
    /\ sentTimes' = [p \in Packets |-> 0]
    /\ flight' = {}
    /\ UNCHANGED <<now, next, losses>>

\* MTU discovery found a larger size.
SetMaxDatagramSize ==
    /\ \E m \in Sizes : m > b.mds /\ b' = [b EXCEPT !.mds = m]
    /\ UNCHANGED <<now, sentTimes, flight, next, resets, losses>>

Tick ==
    /\ now < MaxTime
    /\ now' = now + 1
    /\ UNCHANGED <<b, sentTimes, flight, next, resets, losses>>

Next ==
    \/ SendPacket \/ PacingLimited \/ OnRetransmissionTimeout \/ SetMaxDatagramSize \/ Tick
    \/ \E p \in Packets : OnPacketAcked(p) \/ OnCongestionEvent(p)
    \/ \E p, q \in Packets : OnTwoPacketsAcked(p, q)

Spec == Init /\ [][Next]_vars

-----------------------------------------------------------------------------
(* Properties; the last of them are properties of steps.                   *)

\* The fields have their types; delivered, which only ever has parts of it subtracted, and
\* the divisors stay where the code needs them.
TypeOK ==
    /\ b.mds \in Sizes /\ b.state \in {"STARTUP", "DRAIN", "PROBE_BW", "PROBE_RTT"}
    /\ {b.round, b.growRound, b.growBw, b.maxBandwidth, b.delivered} \subseteq Nat
    /\ b.lastNewMinRTT \in 1 .. TenSeconds
    /\ {b.roundStart, b.lastNewMinRTTTime} \subseteq 1 .. now /\ b.last_probeRTTStart \in 0 .. now
    /\ b.ackinfo \in Seq([bytes : {1}, time : 1 .. now])
    /\ b.latelybandwidth \in [0 .. BwWin - 1 -> Nat]
    /\ sentTimes \in [Packets -> 0 .. now] /\ flight \subseteq Packets
    /\ next \in 1 .. MaxPackets + 1 /\ resets \in 0 .. MaxResets
    /\ losses \in 0 .. MaxLosses

\* delivered is the sum of the window, whatever order expiry, PROBE_RTT (which keeps
\* everything), a longer lastNewMinRTT and resets come in: the delivery rate is not made up.
DeliveredIsWindow == b.delivered = SumAcked(b.ackinfo)

\* PROBE_RTT is left only when it lasted 200ms, and always for PROBE_BW, unless a reset
\* intervenes; and it is entered at most once in ten seconds.
ProbeRttBracketed ==
    /\ b.state = "PROBE_RTT" /\ b'.state # "PROBE_RTT" /\ resets' = resets
       => b'.state = "PROBE_BW" /\ now - b.last_probeRTTStart >= ProbeRttTime
    /\ b'.last_probeRTTStart # b.last_probeRTTStart
       => b'.last_probeRTTStart - b.last_probeRTTStart >= TenSeconds

=============================================================================
