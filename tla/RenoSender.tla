----------------------------- MODULE RenoSender -----------------------------
(***************************************************************************)
(* The sender a connection gets when it is configured without BBR:         *)
(* CubicSender in its Reno mode (the only one the sent packet handler asks *)
(* for) with hybrid slow start and the token bucket pacer                  *)
(* (internal/congestion/cubic_sender.go, hybrid_slow_start.go, pacer.go),  *)
(* and the RTT estimator it reads (internal/utils/rtt_stats.go).  Bytes    *)
(* and time are small integers; renoBeta = 0.7, the RTT gains 1/8 and 1/4  *)
(* and the pacing gain 5/4 are kept, with the truncation of the code's     *)
(* conversions.  State changes that are only logged are left out.          *)
(***************************************************************************)
EXTENDS Integers, Sequences, FiniteSets, FiniteSetsExt

CONSTANTS InitialSize,           \* config.InitialPacketSize
          PacerSize,             \* initialMaxDatagramSize, the pacer's constant
          LargerSize,            \* the size MTU discovery finds
          InitialWindow,         \* initialCongestionWindow, in packets
          MaxWindow,             \* MaxCongestionWindowPackets
          maxBurstPackets, maxBurstSizePackets,
          hybridStartLowWindow, hybridStartMinSamples,
          DelayThreshold,        \* the clamped hybridStartDelay threshold
          DefaultInitialRTT, TimerGranularity, MinPacingDelay,
          MaxAckDelay,
          NumPackets, MaxTime    \* bounds of the environment

VARIABLES c,       \* CubicSender with its HybridSlowStart and pacer
          rtt,     \* RTTStats
          flight,  \* packet number -> [size, time] of the packets in flight
          nextPn,
          now,
          cutSent, \* packets with a lower number were sent before the last cut
          calm     \* FALSE once the MTU grew or the path changed

rvars == <<c, rtt, flight, nextPn, now, cutSent, calm>>

minCongestionWindowPackets == 2
TicksPerSecond == 1000    \* ticks of the clock in the unit of bandwidth
None == -1

---------------------------------------------------------------------------
(* RTTStats                                                                *)

NewRTTStats ==
  [hasMeasurement |-> FALSE, minRTT |-> DefaultInitialRTT, latestRTT |-> DefaultInitialRTT,
   smoothedRTT |-> DefaultInitialRTT, meanDeviation |-> 0, top |-> DefaultInitialRTT]

Abs(n) == IF n < 0 THEN -n ELSE n

\* MUTANT: the ack delay is subtracted even when it exceeds what is plausible.
UpdateRTT_bug(s, sendDelta, ackDelay) ==
  LET sample == sendDelta - ackDelay
  IN IF sendDelta <= 0 THEN s
     ELSE [s EXCEPT !.hasMeasurement = TRUE,
                    !.minRTT = IF ~s.hasMeasurement \/ @ > sendDelta THEN sendDelta ELSE @,
                    !.latestRTT = sample,
                    !.smoothedRTT = IF s.hasMeasurement THEN (7 * @ + sample) \div 8 ELSE sample,
                    !.top = IF s.hasMeasurement THEN Max({@, sample}) ELSE sample]

\* top, the largest sample so far, is not in the code: properties compare to it.
UpdateRTT(s, sendDelta, ackDelay) ==
  LET min == IF ~s.hasMeasurement \/ s.minRTT > sendDelta THEN sendDelta ELSE s.minRTT
      sample == IF sendDelta - min >= ackDelay THEN sendDelta - ackDelay ELSE sendDelta
  IN IF sendDelta <= 0 THEN s
     ELSE IF ~s.hasMeasurement
     THEN [hasMeasurement |-> TRUE, minRTT |-> min, latestRTT |-> sample,
           smoothedRTT |-> sample, meanDeviation |-> sample \div 2, top |-> sample]
     ELSE [s EXCEPT !.minRTT = min, !.latestRTT = sample,
                    !.meanDeviation = (3 * @ + Abs(s.smoothedRTT - sample)) \div 4,
                    !.smoothedRTT = (7 * @ + sample) \div 8,
                    !.top = Max({@, sample})]

PTO(s, includeMaxAckDelay) ==
  IF ~s.hasMeasurement THEN 2 * DefaultInitialRTT
  ELSE s.smoothedRTT + Max({4 * s.meanDeviation, TimerGranularity})
         + (IF includeMaxAckDelay THEN MaxAckDelay ELSE 0)

---------------------------------------------------------------------------
(* HybridSlowStart                                                         *)

newHybridSlowStart ==
  [endPacketNumber |-> 0, lastSentPacketNumber |-> 0, started |-> FALSE,
   currentMinRTT |-> 0, rttSampleCount |-> 0, hystartFound |-> FALSE]

StartReceiveRound(s) ==
  IF s.started THEN s
  ELSE [s EXCEPT !.endPacketNumber = s.lastSentPacketNumber, !.currentMinRTT = 0,
                 !.rttSampleCount = 0, !.started = TRUE]

\* The slow start state after ShouldExitSlowStart.
SampleRTT(s, latestRTT, minRTT) ==
  LET s1 == StartReceiveRound(s)
      n == s1.rttSampleCount + 1
      low == IF n <= hybridStartMinSamples /\ (s1.currentMinRTT = 0 \/ s1.currentMinRTT > latestRTT)
             THEN latestRTT ELSE s1.currentMinRTT
  IN IF s1.hystartFound THEN s1
     ELSE [s1 EXCEPT !.rttSampleCount = n, !.currentMinRTT = low,
                     !.hystartFound = n = hybridStartMinSamples /\ low > minRTT + DelayThreshold]

ShouldExitSlowStart(s, latestRTT, minRTT, window) ==
  \/ s.hystartFound
  \/ window >= hybridStartLowWindow /\ SampleRTT(s, latestRTT, minRTT).hystartFound

---------------------------------------------------------------------------
(* pacer; the bandwidth is the sender's estimate cwnd / srtt, times 5/4.   *)

BandwidthEstimate(s, r) ==
  (s.congestionWindow * TicksPerSecond) \div (IF r.smoothedRTT = 0 THEN TimerGranularity ELSE r.smoothedRTT)

adjustedBandwidth(s, r) == (BandwidthEstimate(s, r) * 5) \div 4

timeScaledBandwidth(s, r, t) == (adjustedBandwidth(s, r) * t) \div TicksPerSecond

maxBurstSize(s, r) ==
  Max({timeScaledBandwidth(s, r, MinPacingDelay + TimerGranularity),
       maxBurstSizePackets * s.pacer.maxDatagramSize})

Budget(s, r, t) ==
  LET delta == t - s.pacer.lastSentTime
  IN IF s.pacer.lastSentTime = None THEN maxBurstSize(s, r)
     ELSE Min({maxBurstSize(s, r),
               s.pacer.budgetAtLastSent
                 + (IF delta > 0 THEN timeScaledBandwidth(s, r, delta) ELSE 0)})

PacerSent(s, r, t, size) ==
  [s EXCEPT !.pacer.budgetAtLastSent = Max({0, Budget(s, r, t) - size}),
            !.pacer.lastSentTime = t]

\* MUTANT: the wait is rounded down.
TimeUntilSend_bug(s, r) ==
  LET short == s.pacer.maxDatagramSize - s.pacer.budgetAtLastSent
  IN IF short <= 0 THEN 0
     ELSE s.pacer.lastSentTime
            + Max({MinPacingDelay, (TicksPerSecond * short) \div adjustedBandwidth(s, r)})

TimeUntilSend(s, r) ==
  LET short == s.pacer.maxDatagramSize - s.pacer.budgetAtLastSent
      bw == adjustedBandwidth(s, r)
  IN IF short <= 0 THEN 0
     ELSE s.pacer.lastSentTime + Max({MinPacingDelay, (TicksPerSecond * short + bw - 1) \div bw})

HasPacingBudget(s, r, t) == Budget(s, r, t) >= s.maxDatagramSize

---------------------------------------------------------------------------
(* CubicSender                                                             *)

NewCubicSender(size) ==
  [hss |-> newHybridSlowStart,
   pacer |-> [budgetAtLastSent |-> maxBurstSizePackets * PacerSize,
              maxDatagramSize |-> PacerSize, lastSentTime |-> None],
   largestSent |-> None, largestAcked |-> None, largestSentAtLastCutback |-> None,
   congestionWindow |-> InitialWindow * size, slowStartThreshold |-> 1000000,
   numAckedPackets |-> 0, maxDatagramSize |-> size]

minCongestionWindow(s) == s.maxDatagramSize * minCongestionWindowPackets
maxCongestionWindow(s) == s.maxDatagramSize * MaxWindow

CanSend(s, bytesInFlight) == bytesInFlight < s.congestionWindow
InRecovery(s) == s.largestAcked # None /\ s.largestAcked <= s.largestSentAtLastCutback
InSlowStart(s) == s.congestionWindow < s.slowStartThreshold

OnPacketSent(s, r, t, pn, size) ==
  [PacerSent(s, r, t, size) EXCEPT !.largestSent = pn, !.hss.lastSentPacketNumber = pn]

MaybeExitSlowStart(s, r) ==
  LET exit == ShouldExitSlowStart(s.hss, r.latestRTT, r.minRTT,
                                  s.congestionWindow \div s.maxDatagramSize)
  IN IF ~InSlowStart(s) THEN s
     ELSE [s EXCEPT !.hss = SampleRTT(@, r.latestRTT, r.minRTT),
                    !.slowStartThreshold = IF exit THEN s.congestionWindow ELSE @]

\* MUTANT: the cutback remembers the lost packet, not the last one sent.
OnCongestionEvent_bug(s, pn) ==
  LET cwnd == Max({(s.congestionWindow * 7) \div 10, minCongestionWindow(s)})
  IN IF pn <= s.largestSentAtLastCutback THEN s
     ELSE [s EXCEPT !.congestionWindow = cwnd, !.slowStartThreshold = cwnd,
                    !.largestSentAtLastCutback = pn, !.numAckedPackets = 0]

OnCongestionEvent(s, pn) ==
  LET cwnd == Max({(s.congestionWindow * 7) \div 10, minCongestionWindow(s)})
  IN IF pn <= s.largestSentAtLastCutback THEN s
     ELSE [s EXCEPT !.congestionWindow = cwnd, !.slowStartThreshold = cwnd,
                    !.largestSentAtLastCutback = s.largestSent, !.numAckedPackets = 0]

isCwndLimited(s, bytesInFlight) ==
  \/ bytesInFlight >= s.congestionWindow
  \/ InSlowStart(s) /\ bytesInFlight > s.congestionWindow \div 2
  \/ s.congestionWindow - bytesInFlight <= maxBurstPackets * s.maxDatagramSize

maybeIncreaseCwnd(s, priorInFlight) ==
  LET acked == s.numAckedPackets + 1
  IN IF ~isCwndLimited(s, priorInFlight) \/ s.congestionWindow >= maxCongestionWindow(s) THEN s
     ELSE IF InSlowStart(s) THEN [s EXCEPT !.congestionWindow = @ + s.maxDatagramSize]
     ELSE IF acked >= s.congestionWindow \div s.maxDatagramSize
          THEN [s EXCEPT !.congestionWindow = @ + s.maxDatagramSize, !.numAckedPackets = 0]
          ELSE [s EXCEPT !.numAckedPackets = acked]

OnPacketAcked(s, pn, priorInFlight) ==
  LET s1 == [s EXCEPT !.largestAcked = Max({@, pn})]
      s2 == maybeIncreaseCwnd(s1, priorInFlight)
  IN IF InRecovery(s1) THEN s1
     ELSE IF InSlowStart(s2) /\ s2.hss.endPacketNumber < pn
          THEN [s2 EXCEPT !.hss.started = FALSE]
     ELSE s2

SetMaxDatagramSize(s, size) ==
  [s EXCEPT !.maxDatagramSize = size, !.pacer.maxDatagramSize = size,
            !.congestionWindow = IF @ = minCongestionWindow(s)
                                 THEN size * minCongestionWindowPackets ELSE @]

---------------------------------------------------------------------------
RInit ==
  /\ c = NewCubicSender(InitialSize) /\ rtt = NewRTTStats
  /\ flight = [p \in {} |-> 0] /\ nextPn = 0 /\ now = 1 /\ cutSent = 0 /\ calm = TRUE

BytesInFlight(f) == MapThenSumSet(LAMBDA p : f[p].size, DOMAIN f)

\* SendAny: a full packet leaves when the window and the pacer allow it.
SendPacket ==
  /\ nextPn < NumPackets
  /\ CanSend(c, BytesInFlight(flight))
  /\ HasPacingBudget(c, rtt, now)
  /\ c' = OnPacketSent(c, rtt, now, nextPn, c.maxDatagramSize)
  /\ flight' = [p \in DOMAIN flight \cup {nextPn} |->
                  IF p = nextPn THEN [size |-> c.maxDatagramSize, time |-> now] ELSE flight[p]]
  /\ nextPn' = nextPn + 1
  /\ UNCHANGED <<rtt, now, cutSent, calm>>

\* ReceivedAck for one packet: the RTT sample, the slow start exit, a CE mark,
\* the packets found lost, the acknowledged packet.
ReceiveAck ==
  \E pn \in DOMAIN flight, ackDelay \in {0, MaxAckDelay}, ce \in BOOLEAN :
  \E lost \in SUBSET {p \in DOMAIN flight : p < pn} :
    LET prior == BytesInFlight(flight)
        r1 == UpdateRTT(rtt, now - flight[pn].time, ackDelay)
        s1 == MaybeExitSlowStart(c, r1)
        s2 == IF ce THEN OnCongestionEvent(s1, pn) ELSE s1
        first == IF lost = {} THEN s2 ELSE OnCongestionEvent(s2, Min(lost))
        s3 == IF Cardinality(lost) < 2 THEN first ELSE OnCongestionEvent(first, Max(lost))
    IN /\ ce => lost = {}
       /\ Cardinality(lost) <= 2
       /\ now > flight[pn].time
       /\ rtt' = r1
       /\ c' = OnPacketAcked(s3, pn, prior)
       /\ flight' = [p \in DOMAIN flight \ ({pn} \cup lost) |-> flight[p]]
       /\ cutSent' = IF s3.congestionWindow < c.congestionWindow THEN nextPn ELSE cutSent
       /\ UNCHANGED <<nextPn, now, calm>>

\* The run loop sleeps until the pacer's deadline, or until something arrives.
Tick ==
  /\ now < MaxTime
  /\ now' = now + 1
  /\ UNCHANGED <<c, rtt, flight, nextPn, cutSent, calm>>

GrowMTU ==
  /\ calm
  /\ c' = SetMaxDatagramSize(c, LargerSize)
  /\ calm' = FALSE
  /\ UNCHANGED <<rtt, flight, nextPn, now, cutSent>>

\* MigratedPath: a new sender, a reset RTT, and everything in flight is lost
\* without being reported to the new sender.
MigratedPath ==
  /\ calm
  /\ c' = NewCubicSender(InitialSize)
  /\ rtt' = NewRTTStats
  /\ flight' = [p \in {} |-> 0] /\ cutSent' = nextPn
  /\ calm' = FALSE
  /\ UNCHANGED <<nextPn, now>>

RNext == SendPacket \/ ReceiveAck \/ Tick \/ GrowMTU \/ MigratedPath

---------------------------------------------------------------------------
\* The window stays between two packets of the initial size and the maximum,
\* which slow start and Reno overshoot by less than one packet.
WindowBounds ==
  /\ c.congestionWindow >= minCongestionWindowPackets * InitialSize
  /\ c.congestionWindow < maxCongestionWindow(c) + c.maxDatagramSize

\* A loss costs the window once: a step that cuts it loses (or sees marked) a
\* packet sent after the previous cut, and a step without loss or mark never
\* shrinks it.
OneCutPerFlight ==
  c'.congestionWindow < c.congestionWindow =>
    \/ calm # calm'
    \/ \E p \in DOMAIN flight \ DOMAIN flight' : p >= cutSent

\* A sender that is out of pacing budget gets a deadline in the future, and
\* when the deadline comes it may send: the run loop neither spins nor sleeps
\* in instalments.
PacerDeadline ==
  ~HasPacingBudget(c, rtt, now) =>
    LET d == TimeUntilSend(c, rtt)
    IN d > now /\ HasPacingBudget(c, rtt, d)

\* The estimates stay within what was measured: never above the largest sample
\* nor (by more than the truncation) below the smallest round trip, so that the
\* probe timeout is never shorter than a round trip.
RttBracketed ==
  rtt.hasMeasurement =>
    /\ rtt.smoothedRTT <= rtt.top
    /\ rtt.smoothedRTT >= rtt.minRTT - 1
    /\ PTO(rtt, FALSE) >= rtt.minRTT
=============================================================================
