------------------------------- MODULE BBRv3 -------------------------------
(***************************************************************************)
(* BBRv3Sender (quic-go-bbr/internal/congestion/bbrv3.go), driven by the   *)
(* transport: packets sent, acknowledged and lost, the passing of time, the *)
(* pacing question the send loop asks, path migration and MTU discovery.    *)
(*                                                                         *)
(* The sender is one record b whose fields are the fields of the struct, and *)
(* every method is an operator from records to records; the calls come from  *)
(* the connection's run loop, so each is one step.  Bytes, times and rates   *)
(* are small integers (a rate is bytes per unit of time), gains are percents.*)
(* The delivery rate of an acknowledgement, a quotient over the last 16      *)
(* acknowledgements, is any value of Rates; the round-trip time any of Rtts.  *)
(* Left out: fields that are written and never read (cycleCount, loss and    *)
(* delivery signals, bwProbeSamples, maxInflight), nextSendTime, statistics. *)
(***************************************************************************)
EXTENDS Integers, TLAPS

CONSTANTS
    Sizes,            \* datagram sizes: the initial one and those MTU discovery finds
    Bursts,           \* numbers of packets the send loop sends in a row
    Rates,            \* delivery rates an acknowledgement can give
    Rtts,             \* round-trip times an acknowledgement can give
    InitialRtt,       \* config.initialRtt, 100ms
    ProbeRttDuration, \* probeRttDurationConst, 200ms
    ProbeRttInterval, \* probeRttIntervalConst, 5s
    ProbeWait,        \* bwProbeWait, 2.5s
    TenSeconds,
    MaxRounds,        \* probeBwMaxRounds, 63
    QuantumRate,      \* sendQuantumThresholdPacing
    QuantumSpan,      \* a rate over QuantumSpan is its bytes in a millisecond
    MaxQuantum,       \* 64 KiB
    Inf,              \* ^uint64(0)
    MaxTime,          \* bound on the clock
    MaxDelivered,     \* bound on the packets acknowledged
    MaxFlight,        \* bound on the packets in flight
    MaxResets,        \* bound on the migrations
    MaxLosses         \* bound on the packets lost

VARIABLES
    b,      \* the sender
    now,    \* monotime
    known,  \* packets in flight with an entry in sentTimes
    stale,  \* packets in flight whose entry is gone
    resets, \* migrations so far
    losses  \* packets lost so far

vars == <<b, now, known, stale, resets, losses>>

Larger(x, y) == IF x >= y THEN x ELSE y
Smaller(x, y) == IF x <= y THEN x ELSE y

ProbeBw == {"ProbeBwDown", "ProbeBwCruise", "ProbeBwRefill", "ProbeBwUp"}
States == {"Startup", "Drain", "ProbeRTT"} \cup ProbeBw

MinCwnd(x) == 4 * x.mds

-----------------------------------------------------------------------------
(* Gains, rounds, bandwidth-delay product.                                 *)

PacingGain(s) ==
    CASE s = "Startup" -> 277 [] s = "Drain" -> 50 [] s = "ProbeBwDown" -> 90
      [] s = "ProbeBwUp" -> 125 [] OTHER -> 100

CwndGain(s) == CASE s = "ProbeBwUp" -> 225 [] s = "ProbeRTT" -> 50 [] OTHER -> 200

UpdateGains(x) == [x EXCEPT !.pacingGain = PacingGain(x.state), !.cwndGain = CwndGain(x.state)]

Enter(x, s) == UpdateGains([x EXCEPT !.state = s])

StartRound(x) == [x EXCEPT !.nextRoundDelivered = x.delivered]

\* The largest delivered of the acknowledgements kept is that of the newest.  Rounds are
\* compared with at most MaxRounds, and counted no further.
UpdateRound(x) ==
    IF x.delivered >= x.nextRoundDelivered
    THEN [StartRound(x) EXCEPT !.roundsSinceBwProbe = Smaller(@ + 1, MaxRounds),
                               !.isRoundStart = TRUE, !.packetConservation = FALSE]
    ELSE [x EXCEPT !.isRoundStart = FALSE]

Bdp(x, bw, gain) == (gain * bw * x.minRtt) \div 100

\* bdp also leaves its last result, without the gain, in bdpVal.  Between two uses of bdpVal
\* (TimeToProbeBw) the last call of bdp is in CheckDrain, or else in SetCwnd, of the same
\* acknowledgement or the one before.
Remember(x, bw) == [x EXCEPT !.bdpVal = bw * x.minRtt]

\* inflight, quantizationBudget.
Inflight(x, gain) ==
    Larger(Bdp(x, x.maxBw, gain), Larger(3 * x.sendQuantum, MinCwnd(x)))
        + (IF x.state = "ProbeBwUp" THEN 2 * x.mds ELSE 0)

\* headroom is 85% of inflightHi.
InflightWithHeadroom(x) ==
    IF x.inflightHi = Inf THEN Inf
    ELSE Larger(x.inflightHi - Larger((85 * x.inflightHi) \div 100, 1), MinCwnd(x))

-----------------------------------------------------------------------------
(* NewBBRv3Sender and init, at time t with datagrams of size m.            *)

NewSender(m, t) ==
    LET rate == (277 * 10 * m) \div (100 * InitialRtt)
    IN  UpdateGains(
        [state |-> "Startup", mds |-> m, cwnd |-> 10 * m, priorCwnd |-> 0,
         pacingGain |-> 0, cwndGain |-> 0, pacingRate |-> rate, sendQuantum |-> 0,
         bw |-> rate, maxBw |-> rate, bw0 |-> 0, bw1 |-> 0,
         bwLo |-> Inf, bwHi |-> Inf, inflightLo |-> Inf, inflightHi |-> Inf, bdpVal |-> 0,
         minRtt |-> InitialRtt, minRttStamp |-> t, lastNewMinRTT |-> TenSeconds,
         probeRttMinStamp |-> t, probeRttExpired |-> FALSE,
         probeRttDoneStamp |-> 0, probeRttRoundDone |-> FALSE,
         delivered |-> 0, nextRoundDelivered |-> 0, isRoundStart |-> FALSE,
         roundsSinceBwProbe |-> 0, ackPhase |-> "init", cycleStamp |-> t,
         bwProbeUpRounds |-> 0, bwProbeUpCnt |-> Inf, bwProbeUpAcks |-> 0,
         isFilledPipe |-> FALSE, fullBw |-> 0, fullBwCount |-> 0,
         inRecoveryMode |-> FALSE, packetConservation |-> FALSE])

-----------------------------------------------------------------------------
(* Startup, Drain.                                                         *)

CheckStartupFullBandwidth(x) ==
    IF x.isFilledPipe \/ ~x.isRoundStart THEN x
    ELSE IF x.maxBw >= (5 * x.fullBw) \div 4
    THEN [x EXCEPT !.fullBw = x.maxBw, !.fullBwCount = 0]
    ELSE [x EXCEPT !.fullBwCount = @ + 1, !.isFilledPipe = (x.fullBwCount + 1 >= 3)]

\* checkStartupHighLoss is empty.
CheckStartupDone(x) ==
    LET y == CheckStartupFullBandwidth(x)
    IN  IF y.state = "Startup" /\ y.isFilledPipe THEN Enter(y, "Drain") ELSE y

StartProbeBwDown(x, t) ==
    [StartRound(x) EXCEPT !.bwProbeUpCnt = Inf, !.roundsSinceBwProbe = 0, !.cycleStamp = t,
                          !.ackPhase = "stopping", !.state = "ProbeBwDown"]

CheckDrain(x, t, inflight) ==
    IF x.state # "Drain" THEN x
    ELSE IF inflight <= Inflight(x, 100) THEN StartProbeBwDown(Remember(x, x.maxBw), t)
    ELSE Remember(x, x.maxBw)

-----------------------------------------------------------------------------
(* ProbeBW.                                                                *)

StartProbeBwCruise(x) == [x EXCEPT !.state = "ProbeBwCruise"]

ResetLowerBounds(x) == [x EXCEPT !.bwLo = Inf, !.inflightLo = Inf]

StartProbeBwRefill(x) ==
    [StartRound(ResetLowerBounds(x)) EXCEPT
        !.bwProbeUpRounds = 0, !.bwProbeUpAcks = 0, !.ackPhase = "refilling",
        !.state = "ProbeBwRefill"]

RaiseInflightHiSlope(x) ==
    [x EXCEPT !.bwProbeUpRounds = Smaller(@ + 1, 30),
              !.bwProbeUpCnt = Larger(x.cwnd \div (2 ^ x.bwProbeUpRounds), 1)]

StartProbeBwUp(x, t) ==
    RaiseInflightHiSlope(
        [StartRound(x) EXCEPT !.ackPhase = "starting", !.fullBw = x.maxBw, !.cycleStamp = t,
                              !.state = "ProbeBwUp"])

\* hasElapsedInPhase(bwProbeWait) or isRenoCoexistenceProbeTime.
TimeToProbeBw(x, t) ==
    \/ t - x.cycleStamp >= ProbeWait
    \/ x.roundsSinceBwProbe >= Smaller(Smaller(x.bdpVal, x.cwnd), MaxRounds)

ProbeInflightHiUpward(x) ==
    IF x.cwnd < x.inflightHi THEN x
    ELSE LET acks == x.bwProbeUpAcks + x.mds
             y == IF acks < x.bwProbeUpCnt THEN [x EXCEPT !.bwProbeUpAcks = acks]
                  ELSE [x EXCEPT !.bwProbeUpAcks = acks % x.bwProbeUpCnt,
                                 !.inflightHi = @ + (acks \div x.bwProbeUpCnt) * x.mds]
         IN  IF y.isRoundStart THEN RaiseInflightHiSlope(y) ELSE y

AdvanceMaxBwFilter(x) == IF x.bw1 = 0 THEN x ELSE [x EXCEPT !.bw0 = x.bw1, !.bw1 = 0]

\* checkInflightTooHigh is constantly false.
AdaptUpperBounds(x) ==
    LET y == IF ~x.isRoundStart THEN x
             ELSE IF x.ackPhase = "starting" THEN [x EXCEPT !.ackPhase = "feedback"]
             ELSE IF x.ackPhase # "stopping" THEN x
             ELSE IF x.state \in ProbeBw /\ x.maxBw > 0
             THEN [AdvanceMaxBwFilter(x) EXCEPT !.ackPhase = "init"]
             ELSE [x EXCEPT !.ackPhase = "init"]
    IN  IF y.inflightHi # Inf /\ y.state = "ProbeBwUp" THEN ProbeInflightHiUpward(y) ELSE y

CheckTimeToCruise(x, inflight) ==
    IF inflight <= Smaller(InflightWithHeadroom(x), Inflight(x, 100))
    THEN StartProbeBwCruise(x) ELSE x

ProbeBwPhase(x, t, inflight) ==
    CASE x.state = "ProbeBwDown" ->
            IF TimeToProbeBw(x, t) THEN StartProbeBwRefill(x) ELSE CheckTimeToCruise(x, inflight)
      [] x.state = "ProbeBwCruise" ->
            IF TimeToProbeBw(x, t) THEN StartProbeBwRefill(x) ELSE x
      [] x.state = "ProbeBwRefill" ->
            IF x.isRoundStart THEN StartProbeBwUp(x, t) ELSE x
      [] x.state = "ProbeBwUp" ->
            IF t - x.cycleStamp >= x.minRtt /\ inflight > Inflight(x, x.pacingGain)
            THEN StartProbeBwDown(x, t) ELSE x
      [] OTHER -> x

UpdateProbeBwCyclePhase(x, t, inflight) ==
    IF x.isFilledPipe THEN ProbeBwPhase(AdaptUpperBounds(x), t, inflight) ELSE x

-----------------------------------------------------------------------------
(* ProbeRTT.                                                               *)

\* minRtt is never 0 here.
UpdateMinRtt(x, t) ==
    IF t - x.probeRttMinStamp > ProbeRttInterval
    THEN [x EXCEPT !.probeRttExpired = TRUE, !.minRtt = InitialRtt, !.minRttStamp = t]
    ELSE [x EXCEPT !.probeRttExpired = FALSE]

SaveCwnd(x) ==
    IF ~x.inRecoveryMode /\ x.state # "ProbeRTT" THEN [x EXCEPT !.priorCwnd = x.cwnd]
    ELSE [x EXCEPT !.priorCwnd = Larger(x.priorCwnd, x.cwnd)]

RestoreCwnd(x) == [x EXCEPT !.cwnd = Larger(x.cwnd, x.priorCwnd)]

\* Mutant: leaving ProbeRTT renews the stamp.
LeaveProbeRttRenewing(x, t) ==
    LET y == [x EXCEPT !.probeRttMinStamp = t]
    IN  IF y.isFilledPipe THEN StartProbeBwCruise(StartProbeBwDown(y, t)) ELSE Enter(y, "Startup")

\* exitProbeRTTFromAbove: cwnd is not restored, probeRttMinStamp not renewed.
LeaveProbeRtt(x, t) ==
    IF x.isFilledPipe THEN StartProbeBwCruise(StartProbeBwDown(x, t)) ELSE Enter(x, "Startup")

\* exitProbeRtt, the one checkProbeRttDone calls.
ExitProbeRtt(x, t) == LeaveProbeRtt(ResetLowerBounds(x), t)

CheckProbeRttDone(x, t) ==
    IF x.probeRttDoneStamp > 0 /\ t >= x.probeRttDoneStamp
    THEN ExitProbeRtt(RestoreCwnd([x EXCEPT !.probeRttMinStamp = t]), t) ELSE x

HandleProbeRtt(x, t, inflight) ==
    IF x.probeRttDoneStamp > 0
    THEN LET y == [x EXCEPT !.probeRttRoundDone = x.probeRttRoundDone \/ x.isRoundStart]
         IN  IF y.probeRttRoundDone THEN CheckProbeRttDone(y, t) ELSE y
    ELSE IF inflight <= Bdp(x, x.bw, x.cwndGain)
    THEN StartRound([x EXCEPT !.probeRttDoneStamp = t + ProbeRttDuration,
                              !.probeRttRoundDone = FALSE])
    ELSE x

\* idleRestart is never set.
CheckProbeRtt(x, t, inflight) ==
    LET y == IF x.state # "ProbeRTT" /\ x.probeRttExpired
             THEN StartRound([SaveCwnd(Enter(x, "ProbeRTT")) EXCEPT
                                 !.probeRttDoneStamp = 0, !.ackPhase = "stopping"])
             ELSE x
    IN  IF y.state = "ProbeRTT" THEN HandleProbeRtt(y, t, inflight) ELSE y

MaybeExitProbeRTT(x, t) ==
    IF /\ x.state = "ProbeRTT"
       /\ x.probeRttDoneStamp > 0
       /\ t - x.probeRttDoneStamp >= ProbeRttDuration
    THEN LeaveProbeRtt(x, t) ELSE x

-----------------------------------------------------------------------------
(* Recovery and the control parameters.                                    *)

EnterRecovery(x) ==
    [StartRound(SaveCwnd(x)) EXCEPT !.cwnd = MinCwnd(x) + x.mds, !.packetConservation = TRUE,
                                    !.inRecoveryMode = TRUE]

\* Mutant: the saved window is not given back.
ExitRecoveryOnly(x) == [x EXCEPT !.packetConservation = FALSE, !.inRecoveryMode = FALSE]

ExitRecovery(x) ==
    RestoreCwnd([x EXCEPT !.packetConservation = FALSE, !.inRecoveryMode = FALSE])

BoundBwForModel(x) == [x EXCEPT !.bw = Smaller(x.maxBw, Smaller(x.bwLo, x.bwHi))]

UpdateModelAndState(x, t, inflight) ==
    BoundBwForModel(CheckProbeRtt(UpdateMinRtt(UpdateProbeBwCyclePhase(
        CheckDrain(CheckStartupDone(x), t, inflight), t, inflight), t), t, inflight))

\* setPacingRate with a margin of 1%, setSendQuantum.
UpdateControlParameters(x) ==
    LET rate == (x.pacingGain * x.bw * 99) \div 10000
        pacing == IF x.isFilledPipe \/ rate > x.pacingRate THEN rate ELSE x.pacingRate
        floor == IF pacing < QuantumRate THEN x.mds ELSE 2 * x.mds
    IN  [x EXCEPT !.pacingRate = pacing,
                  !.sendQuantum = Smaller(Larger(pacing \div QuantumSpan, floor), MaxQuantum)]

BoundCwndForProbeRtt(x) ==
    IF x.state = "ProbeRTT" THEN [x EXCEPT !.cwnd = Smaller(@, Bdp(x, x.bw, x.cwndGain))] ELSE x

BoundCwndForModel(x) ==
    LET bound == IF x.state \in ProbeBw \ {"ProbeBwCruise"} THEN x.inflightHi
                 ELSE IF x.state \in {"ProbeRTT", "ProbeBwCruise"} THEN InflightWithHeadroom(x)
                 ELSE Inf
    IN  [x EXCEPT !.cwnd = Smaller(@, Larger(Smaller(bound, x.inflightLo), MinCwnd(x)))]

\* Mutant: the acknowledged bytes are added, without a check of the limit.
SetCwndGrowing(x, inflight) ==
    BoundCwndForModel(BoundCwndForProbeRtt([Remember(x, x.maxBw) EXCEPT !.cwnd = @ + x.mds]))

\* The branches that would add the acknowledged bytes to cwnd are empty.
SetCwnd(x, inflight) ==
    LET y == Remember(x, x.maxBw)
        z == IF y.packetConservation THEN [y EXCEPT !.cwnd = Larger(@, inflight + y.mds)]
             ELSE [y EXCEPT !.cwnd = Larger(@, MinCwnd(y))]
    IN  BoundCwndForModel(BoundCwndForProbeRtt(z))

UpdateMaxBwFilter(x) ==
    IF x.bw1 = 0 THEN x ELSE [x EXCEPT !.bw0 = x.bw1, !.bw1 = 0, !.maxBw = x.bw1]

-----------------------------------------------------------------------------
(* OnPacketAcked, for a packet found in sentTimes.                         *)

SampleRtt(x, t, rtt) ==
    IF rtt > 0 /\ rtt < x.lastNewMinRTT
    THEN [x EXCEPT !.lastNewMinRTT = rtt, !.minRtt = rtt, !.minRttStamp = t] ELSE x

SampleRate(x, rate) ==
    IF rate > x.maxBw \/ (x.bw > 0 /\ rate > 0) THEN [x EXCEPT !.maxBw = rate, !.bw1 = rate]
    ELSE x

\* The second way into ProbeRTT, from BBRv1.
CheckProbeRttOld(x, t) ==
    IF t - x.minRttStamp >= TenSeconds /\ t - x.probeRttDoneStamp >= TenSeconds
    THEN [x EXCEPT !.state = "ProbeRTT", !.pacingGain = 100, !.cwndGain = 100,
                   !.minRtt = TenSeconds, !.probeRttDoneStamp = t]
    ELSE x

RoundPassed(x, t, inflight) ==
    LET u == IF x.inRecoveryMode THEN ExitRecovery(x) ELSE x
        v == UpdateControlParameters(UpdateGains(UpdateModelAndState(u, t, inflight)))
        w == CheckStartupDone(SetCwnd(v, inflight))
        y == IF w.state = "Drain" /\ inflight < Inflight(w, 100) THEN StartProbeBwDown(w, t) ELSE w
    IN  CheckProbeRttOld(UpdateMaxBwFilter(y), t)

Acked(x, t, rtt, rate, bytes, inflight) ==
    LET u == MaybeExitProbeRTT([SampleRtt(x, t, rtt) EXCEPT !.delivered = @ + bytes], t)
        v == SampleRate(UpdateRound(u), rate)
    IN  IF u.state = "ProbeRTT" THEN u
        ELSE IF t - v.minRttStamp >= v.minRtt \/ v.isRoundStart THEN RoundPassed(v, t, inflight)
        ELSE v

\* Mutant: cwnd is reduced without the check that keeps it unsigned.
LostUnchecked(x, bytes) ==
    LET y == IF ~x.inRecoveryMode /\ x.state \notin {"Startup", "ProbeRTT"}
             THEN EnterRecovery([x EXCEPT !.inRecoveryMode = TRUE, !.pacingGain = 100]) ELSE x
    IN  [y EXCEPT !.cwnd = y.cwnd - bytes]

\* Mutant: recovery starts in every state.
LostAnywhere(x, bytes) ==
    LET y == IF x.inRecoveryMode THEN x ELSE EnterRecovery(x)
    IN  [y EXCEPT !.cwnd = IF y.cwnd > bytes THEN y.cwnd - bytes ELSE MinCwnd(y)]

Lost(x, bytes) ==
    LET y == IF ~x.inRecoveryMode /\ x.state \notin {"Startup", "ProbeRTT"}
             THEN EnterRecovery([x EXCEPT !.inRecoveryMode = TRUE, !.pacingGain = 100]) ELSE x
    IN  [y EXCEPT !.cwnd = IF y.cwnd > bytes THEN y.cwnd - bytes ELSE MinCwnd(y)]

-----------------------------------------------------------------------------
(* The transport.                                                          *)

InFlight == b.mds * (known + stale)

Init ==
    /\ \E m \in Sizes : b = NewSender(m, 1)
    /\ now = 1 /\ known = 0 /\ stale = 0 /\ resets = 0 /\ losses = 0

\* OnPacketSent for each packet of a burst, CanSend before each.
OnPacketSent ==
    /\ \E n \in Bursts :
          /\ known + stale + n <= MaxFlight
          /\ InFlight + (n - 1) * b.mds < b.cwnd
          /\ known' = known + n
    /\ UNCHANGED <<b, now, stale, resets, losses>>

\* One ACK frame for one packet or two, both with the bytes in flight before the frame.
\* sentTimes is shared by the packet number spaces: until the handshake is confirmed, and so
\* before any migration, the acknowledgement of one packet may take the entry of another.
OnPacketAcked ==
    /\ b.delivered < MaxDelivered
    /\ \E rtt \in Rtts, rate \in Rates \cup {0} :
          /\ rtt < now
          /\ LET first == Acked(b, now, rtt, rate, 1, InFlight)
             IN  \/ /\ known > 0 /\ known' = known - 1 /\ stale' = stale
                    /\ b' = first
                 \/ /\ known > 1 /\ known' = known - 2 /\ stale' = stale
                    /\ b' = Acked(first, now, rtt, rate, 1, InFlight)
                 \/ /\ known > 1 /\ known' = known - 2 /\ stale' = stale + 1
                    /\ resets = 0
                    /\ b' = first
    /\ UNCHANGED <<now, resets, losses>>

\* A packet that is not in sentTimes is ignored.
OnStalePacketAcked ==
    /\ stale > 0
    /\ stale' = stale - 1
    /\ UNCHANGED <<b, now, known, resets, losses>>

OnCongestionEvent ==
    /\ losses < MaxLosses /\ losses' = losses + 1
    /\ \/ known > 0 /\ known' = known - 1 /\ UNCHANGED stale
       \/ stale > 0 /\ stale' = stale - 1 /\ UNCHANGED known
    /\ \E bytes \in 1 .. b.mds : b' = Lost(b, bytes)
    /\ UNCHANGED <<now, resets>>

\* A rise of the ECN-CE count is a congestion event of 0 bytes.
OnCongestionExperienced ==
    /\ losses < MaxLosses /\ losses' = losses + 1
    /\ known > 0
    /\ b' = Lost(b, 0)
    /\ UNCHANGED <<now, known, stale, resets>>

\* The send loop asks; the answer is always yes, asking may end ProbeRTT.
HasPacingBudget ==
    /\ b' = MaybeExitProbeRTT(b, now)
    /\ UNCHANGED <<now, known, stale, resets, losses>>

\* OnRetransmissionTimeout(true), when the connection migrates and nothing is in flight any
\* more.
OnRetransmissionTimeout ==
    /\ resets < MaxResets /\ resets' = resets + 1
    /\ b' = NewSender(b.mds, now)
    /\ known' = 0 /\ stale' = 0
    /\ UNCHANGED <<now, losses>>

\* MTU discovery found a larger size.
SetMaxDatagramSize ==
    /\ \E m \in Sizes : m > b.mds /\ b' = [b EXCEPT !.mds = m]
    /\ UNCHANGED <<now, known, stale, resets, losses>>

Tick ==
    /\ now < MaxTime
    /\ now' = now + 1
    /\ UNCHANGED <<b, known, stale, resets, losses>>

Next ==
    \/ OnPacketSent \/ OnPacketAcked \/ OnStalePacketAcked \/ OnCongestionEvent
    \/ OnCongestionExperienced
    \/ HasPacingBudget \/ OnRetransmissionTimeout \/ SetMaxDatagramSize \/ Tick

Spec == Init /\ [][Next]_vars

-----------------------------------------------------------------------------
(* Properties; the last of them are properties of steps.                   *)

\* The sender is a record of the struct's fields.
Sender ==
    [state : States, mds : Sizes, cwnd : Nat, priorCwnd : Nat, pacingGain : Nat, cwndGain : Nat,
     pacingRate : Nat, sendQuantum : Nat, bw : Nat, maxBw : Nat, bw0 : Nat, bw1 : Nat,
     bwLo : Nat, bwHi : Nat, inflightLo : Nat, inflightHi : Nat, bdpVal : Nat,
     minRtt : Nat \ {0}, minRttStamp : Nat, lastNewMinRTT : Nat \ {0},
     probeRttMinStamp : Nat, probeRttExpired : BOOLEAN, probeRttDoneStamp : Nat,
     probeRttRoundDone : BOOLEAN, delivered : Nat, nextRoundDelivered : Nat,
     isRoundStart : BOOLEAN, roundsSinceBwProbe : Nat,
     ackPhase : {"init", "stopping", "refilling", "starting", "feedback"}, cycleStamp : Nat,
     bwProbeUpRounds : Nat, bwProbeUpCnt : Nat, bwProbeUpAcks : Nat,
     isFilledPipe : BOOLEAN, fullBw : Nat, fullBwCount : Nat,
     inRecoveryMode : BOOLEAN, packetConservation : BOOLEAN]

\* The unsigned fields stay unsigned (no subtraction of a lost packet or of a headroom wraps),
\* minRtt is never 0, so that bdp's fallback is never taken.
TypeOK ==
    /\ b \in Sender
    /\ now \in Nat \ {0} /\ known \in Nat /\ stale \in Nat
    /\ resets \in 0 .. MaxResets /\ losses \in 0 .. MaxLosses

\* The sender drains and cycles through ProbeBW only once it has found the pipe full: no
\* path through ProbeRTT, recovery or a reset enters those states with isFilledPipe false.
FilledBeforeProbing == b.state \in {"Drain"} \cup ProbeBw => b.isFilledPipe

\* OnCongestionEvent starts a recovery only in Drain and ProbeBW, and no step leaves those
\* states while the recovery lasts: ProbeRTT and Startup are never entered in recovery mode.
RecoveryWithinProbing ==
    b.inRecoveryMode => b.state \in {"Drain"} \cup ProbeBw /\ b.packetConservation

\* No sequence of acknowledgements, losses, recoveries, probes, resets and MTU changes ever
\* takes cwnd, or the window a recovery gives back, above ten datagrams, the initial window.
CwndAtMostInitial == b.cwnd <= 10 * b.mds /\ b.priorCwnd <= 10 * b.mds

\* How BBRv3's phases nest: Drain and ProbeBW only with a full pipe, recovery only within them,
\* and no window above the initial one in any of them.
PhasesNest == FilledBeforeProbing /\ RecoveryWithinProbing /\ CwndAtMostInitial

Reset == b' = NewSender(b.mds, now)

\* Leaving ProbeRTT does not renew probeRttMinStamp: from probeRttInterval after creation on,
\* every acknowledgement that counts ends in ProbeRTT.
ExpiredAckProbesRtt ==
    /\ b'.delivered > b.delivered
    /\ now - b.probeRttMinStamp > ProbeRttInterval
    => b'.state = "ProbeRTT"

\* The acknowledgement that ends a recovery gives back at least the window saved when the
\* loss was found, unless it enters ProbeRTT.
RecoveryRestoresCwnd ==
    b.inRecoveryMode /\ ~b'.inRecoveryMode =>
      Reset \/ b'.state = "ProbeRTT" \/ b'.cwnd >= b.priorCwnd

\* ProbeRTT begins when it is due, and a recovery ends with the window it began with.
ProbesBracketed == [][ExpiredAckProbesRtt /\ RecoveryRestoresCwnd]_vars

\* docs/BBRv3_CWND_ISSUE.md: the minimum congestion window is four datagrams.
CwndFloor == b.cwnd >= MinCwnd(b)

-----------------------------------------------------------------------------
(* The invariants and the two action properties hold for every path, every  *)
(* order of calls and all values of the constants that make sense.  Each    *)
(* method has a lemma that says what it keeps of the record.                *)

\* What the code's constants satisfy: no window reaches ^uint64(0), times are not 0.
Parameters ==
    /\ Inf \in Nat
    /\ \A m \in Sizes : m \in Nat /\ 10 * m <= Inf
    /\ Rates \subseteq Nat /\ Rtts \subseteq Nat
    /\ InitialRtt \in Nat \ {0} /\ TenSeconds \in Nat
    /\ ProbeRttDuration \in Nat \ {0}

Probing == {"Drain"} \cup ProbeBw

\* The fields the properties depend on.
Fields ==
    {"state", "mds", "cwnd", "priorCwnd", "cwndGain", "bw", "maxBw", "bw1", "bwLo", "bwHi",
     "inflightLo", "inflightHi", "minRtt", "probeRttMinStamp", "probeRttExpired",
     "probeRttDoneStamp", "delivered", "nextRoundDelivered", "isRoundStart", "isFilledPipe",
     "inRecoveryMode", "packetConservation"}

\* Holds after every method.  The bounds of the model are never set, and the next round starts
\* at the next acknowledgement.
Sound(x) ==
    /\ Fields \subseteq DOMAIN x
    /\ x.state \in States
    /\ x.mds \in Sizes /\ x.cwnd \in Nat /\ x.priorCwnd \in Nat /\ x.cwndGain \in Nat
    /\ x.bw \in Nat /\ x.maxBw \in Nat /\ x.bw1 \in Nat /\ x.minRtt \in Nat
    /\ x.bwLo = Inf /\ x.bwHi = Inf /\ x.inflightLo = Inf /\ x.inflightHi = Inf
    /\ x.probeRttDoneStamp \in Nat
    /\ x.delivered \in Nat /\ x.nextRoundDelivered \in Nat
    /\ x.nextRoundDelivered <= x.delivered
    /\ x.state \in Probing => x.isFilledPipe
    /\ x.cwnd <= 10 * x.mds /\ x.priorCwnd <= 10 * x.mds

\* Holds between the calls: packets are conserved exactly during a recovery.
Good(x) ==
    /\ Sound(x)
    /\ x.inRecoveryMode => x.state \in Probing /\ x.packetConservation
    /\ x.packetConservation => x.inRecoveryMode

\* What most methods leave alone.
SameWindow(x, y) ==
    /\ y.mds = x.mds /\ y.cwnd = x.cwnd /\ y.delivered = x.delivered
    /\ y.inRecoveryMode = x.inRecoveryMode /\ y.packetConservation = x.packetConservation
    /\ y.probeRttMinStamp = x.probeRttMinStamp

\* ProbeRTT does not end at time t by its duration.
Stays(x, t) ==
    /\ x.state = "ProbeRTT"
    /\ x.probeRttDoneStamp > 0 => t - x.probeRttDoneStamp < ProbeRttDuration

\* A bandwidth-delay product is not negative.
LEMMA BdpNat ==
  ASSUME NEW bw \in Nat, NEW gain \in Nat, NEW x, x.minRtt \in Nat
  PROVE  Bdp(x, bw, gain) \in Nat
<1>1. gain * bw \in Nat
  OBVIOUS
<1>2. ASSUME NEW n \in Nat PROVE n * x.minRtt \in Nat
  BY <1>2
<1>3. gain * bw * x.minRtt \in Nat
  BY <1>1, <1>2, Zenon
<1>4. ASSUME NEW n \in Nat PROVE n \div 100 \in Nat
  BY <1>4
<1> QED BY <1>3, <1>4, Zenon DEF Bdp

\* A new sender, also the one a migration brings.
LEMMA NewSenderGood ==
  ASSUME Parameters, NEW m \in Sizes, NEW t
  PROVE  /\ Good(NewSender(m, t)) /\ ~NewSender(m, t).inRecoveryMode
         /\ NewSender(m, t).delivered = 0
<1> DEFINE rate == (277 * 10 * m) \div (100 * InitialRtt)
<1>1. rate \in Nat
  <2>1. 277 * 10 * m \in Nat /\ 100 * InitialRtt \in Nat \ {0}
    BY DEF Parameters
  <2>2. ASSUME NEW n \in Nat, NEW d \in Nat \ {0} PROVE n \div d \in Nat
    BY <2>2
  <2> QED BY <2>1, <2>2, Zenon
<1> HIDE DEF rate
<1> DEFINE n == NewSender(m, t)
<1>3. /\ n.state = "Startup" /\ n.mds = m /\ n.cwnd = 10 * m /\ n.priorCwnd = 0
      /\ n.cwndGain = CwndGain("Startup") /\ n.bw = rate /\ n.maxBw = rate /\ n.bw1 = 0
      /\ n.minRtt = InitialRtt
  BY ZenonT(40) DEF NewSender, UpdateGains, rate
<1>4. /\ n.bwLo = Inf /\ n.bwHi = Inf /\ n.inflightLo = Inf /\ n.inflightHi = Inf
      /\ n.probeRttDoneStamp = 0 /\ n.delivered = 0 /\ n.nextRoundDelivered = 0
  BY ZenonT(40) DEF NewSender, UpdateGains
<1>5. Fields \subseteq DOMAIN n
  BY DEF NewSender, UpdateGains, Fields
<1>2. Sound(NewSender(m, t))
  <2> HIDE DEF n
  <2>1. Sound(n)
    BY <1>1, <1>3, <1>4, <1>5 DEF Sound, Parameters, CwndGain, Probing, ProbeBw, States
  <2> QED BY <2>1, Zenon DEF n
<1> QED BY <1>2 DEF Good, NewSender, UpdateGains

\* Leaving ProbeRTT, for Startup or ProbeBW.
LEMMA LeaveSound ==
  ASSUME NEW x, Sound(x), NEW t
  PROVE  LET y == LeaveProbeRtt(x, t)
         IN  /\ Sound(y) /\ SameWindow(x, y) /\ y.priorCwnd = x.priorCwnd
             /\ y.state \in {"Startup", "ProbeBwCruise"}
BY DEF LeaveProbeRtt, StartProbeBwCruise, StartProbeBwDown, StartRound, Enter, UpdateGains,
   PacingGain, CwndGain, Sound, SameWindow, Fields, Probing, ProbeBw, States

\* maybeExitProbeRTT ends ProbeRTT when it lasted, and does nothing else.
LEMMA MaybeExitSound ==
  ASSUME Parameters, NEW x, Sound(x), NEW t \in Nat
  PROVE  LET y == MaybeExitProbeRTT(x, t)
         IN  /\ Sound(y) /\ SameWindow(x, y) /\ y.priorCwnd = x.priorCwnd
             /\ x.state # "ProbeRTT" => y = x
             /\ Stays(x, t) => y = x
             /\ y.state = "ProbeRTT" => y = x /\ Stays(y, t)
<1> DEFINE lasted == /\ x.state = "ProbeRTT" /\ x.probeRttDoneStamp > 0
                     /\ t - x.probeRttDoneStamp >= ProbeRttDuration
<1>1. CASE lasted
  <2>1. MaybeExitProbeRTT(x, t) = LeaveProbeRtt(x, t)
    BY <1>1, Zenon DEF MaybeExitProbeRTT
  <2>2. ~Stays(x, t)
    BY <1>1 DEF Stays, Sound, Parameters
  <2> QED BY <1>1, <2>1, <2>2, LeaveSound, Zenon
<1>2. CASE ~lasted
  <2>1. MaybeExitProbeRTT(x, t) = x
    BY <1>2, Zenon DEF MaybeExitProbeRTT
  <2>2. x.state = "ProbeRTT" => Stays(x, t)
    BY <1>2 DEF Stays, Sound, Parameters
  <2> QED BY <2>1, <2>2, Zenon DEF SameWindow
<1> QED BY <1>1, <1>2, Zenon

\* The steps of updateModelAndState before ProbeRTT: the pipe is filled before Drain and ProbeBW
\* are entered, and none of them enters ProbeRTT.
Onward(x, y) ==
    /\ Sound(y) /\ SameWindow(x, y) /\ y.priorCwnd = x.priorCwnd
    /\ y.state # "ProbeRTT" \/ y.state = x.state
    /\ y.probeRttDoneStamp = x.probeRttDoneStamp

\* checkStartupDone enters Drain from Startup, with a full pipe.
LEMMA StartupDoneSound ==
  ASSUME NEW x, Sound(x)
  PROVE  /\ Onward(x, CheckStartupDone(x))
         /\ x.state = "ProbeRTT" => CheckStartupDone(x).state = "ProbeRTT"
<1> DEFINE y == CheckStartupFullBandwidth(x)
<1>1. Onward(x, y) /\ y.state = x.state
  BY Zenon DEF Onward, CheckStartupFullBandwidth, Sound, SameWindow, Fields, Probing, ProbeBw, States
<1>2. CheckStartupDone(x) = IF y.state = "Startup" /\ y.isFilledPipe THEN Enter(y, "Drain") ELSE y
  BY Zenon DEF CheckStartupDone
<1> HIDE DEF y
<1> QED BY <1>1, <1>2 DEF Onward, Enter, UpdateGains, PacingGain, CwndGain, Sound, SameWindow,
           Fields, Probing, ProbeBw, States

\* startProbeBwDown, with a full pipe.
LEMMA DownSound ==
  ASSUME NEW x, Sound(x), x.isFilledPipe, NEW t
  PROVE  Onward(x, StartProbeBwDown(x, t))
BY DEF Onward, StartProbeBwDown, StartRound, Sound, SameWindow, Fields, Probing, ProbeBw, States

\* checkDrain leaves Drain for ProbeBwDown.
LEMMA DrainSound ==
  ASSUME NEW x, Sound(x), NEW t, NEW inflight
  PROVE  Onward(x, CheckDrain(x, t, inflight))
<1> DEFINE y == Remember(x, x.maxBw)
<1>1. Onward(x, y) /\ y.state = x.state
  BY Zenon DEF Onward, Remember, Sound, SameWindow, Fields, Probing, ProbeBw, States
<1>2. CheckDrain(x, t, inflight) =
        IF x.state # "Drain" THEN x
        ELSE IF inflight <= Inflight(x, 100) THEN StartProbeBwDown(y, t) ELSE y
  BY Zenon DEF CheckDrain
<1> HIDE DEF y
<1>3. x.state = "Drain" => y.isFilledPipe
  BY <1>1, Zenon DEF Onward, Sound, Probing
<1>4. x.state = "Drain" => Onward(y, StartProbeBwDown(y, t))
  BY <1>1, <1>3, DownSound, Zenon DEF Onward
<1>5. Onward(x, x)
  BY Zenon DEF Onward, SameWindow
<1>6. x.state = "Drain" => Onward(x, StartProbeBwDown(y, t))
  BY <1>1, <1>4, Zenon DEF Onward, SameWindow
<1> QED BY <1>1, <1>2, <1>5, <1>6, Zenon

\* adaptUpperBounds never comes to probeInflightHiUpward, inflightHi being Inf.
LEMMA AdaptSound ==
  ASSUME NEW x, Sound(x)
  PROVE  Onward(x, AdaptUpperBounds(x)) /\ AdaptUpperBounds(x).state = x.state
<1> DEFINE Phase(z, p) == [z EXCEPT !.ackPhase = p]
           f == AdvanceMaxBwFilter(x)
           y == IF ~x.isRoundStart THEN x
                ELSE IF x.ackPhase = "starting" THEN Phase(x, "feedback")
                ELSE IF x.ackPhase # "stopping" THEN x
                ELSE IF x.state \in ProbeBw /\ x.maxBw > 0 THEN Phase(f, "init")
                ELSE Phase(x, "init")
<1>1. Onward(x, x)
  BY Zenon DEF Onward, SameWindow
<1>2. ASSUME NEW z, Sound(z), NEW p PROVE Onward(z, Phase(z, p)) /\ Phase(z, p).state = z.state
  BY <1>2 DEF Onward, Sound, SameWindow, Fields
<1>3. Onward(x, f) /\ f.state = x.state
  BY DEF Onward, AdvanceMaxBwFilter, Sound, SameWindow, Fields
<1>4. AdaptUpperBounds(x) =
        IF y.inflightHi # Inf /\ y.state = "ProbeBwUp" THEN ProbeInflightHiUpward(y) ELSE y
  BY Zenon DEF AdaptUpperBounds
<1> HIDE DEF Phase, f
<1>5. Onward(x, Phase(f, "init")) /\ Phase(f, "init").state = x.state
  <2>1. Onward(f, Phase(f, "init")) /\ Phase(f, "init").state = f.state
    BY <1>2, <1>3, Zenon DEF Onward
  <2> DEFINE g == Phase(f, "init")
  <2> HIDE DEF g
  <2>2. Onward(f, g) /\ g.state = f.state
    BY <2>1, Zenon DEF g
  <2>3. Onward(x, g) /\ g.state = x.state
    BY <1>3, <2>2, Zenon DEF Onward, SameWindow
  <2> QED BY <2>3, Zenon DEF g
<1>6. Onward(x, y) /\ y.state = x.state
  BY <1>1, <1>2, <1>5, Zenon
<1> HIDE DEF y
<1> QED BY <1>4, <1>6, Zenon DEF Onward, Sound

\* The phases of ProbeBW follow each other.
LEMMA PhaseSound ==
  ASSUME NEW x, Sound(x), x.isFilledPipe, NEW t, NEW inflight
  PROVE  Onward(x, ProbeBwPhase(x, t, inflight))
<1>1. Onward(x, x)
  BY Zenon DEF Onward, SameWindow
<1>2. Onward(x, StartProbeBwRefill(x))
  BY DEF Onward, StartProbeBwRefill, StartRound, ResetLowerBounds, Sound, SameWindow, Fields, Probing,
     ProbeBw, States
<1>3. Onward(x, CheckTimeToCruise(x, inflight))
  BY DEF Onward, CheckTimeToCruise, StartProbeBwCruise, Sound, SameWindow, Fields, Probing, ProbeBw,
     States
<1>4. Onward(x, StartProbeBwUp(x, t))
  BY DEF Onward, StartProbeBwUp, RaiseInflightHiSlope, StartRound, Sound, SameWindow, Fields, Probing,
     ProbeBw, States
<1>5. Onward(x, StartProbeBwDown(x, t))
  BY DownSound, Zenon
<1> QED BY <1>1, <1>2, <1>3, <1>4, <1>5, Zenon DEF ProbeBwPhase

\* updateProbeBwCyclePhase does nothing until the pipe is full.
LEMMA CycleSound ==
  ASSUME NEW x, Sound(x), NEW t, NEW inflight
  PROVE  Onward(x, UpdateProbeBwCyclePhase(x, t, inflight))
<1> DEFINE y == AdaptUpperBounds(x)
<1>1. Onward(x, y) /\ y.state = x.state
  BY AdaptSound, Zenon
<1>2. x.isFilledPipe => y.isFilledPipe
  BY Zenon DEF AdaptUpperBounds, AdvanceMaxBwFilter, Sound, Fields
<1>3. Onward(x, x)
  BY Zenon DEF Onward, SameWindow
<1>4. UpdateProbeBwCyclePhase(x, t, inflight) =
        IF x.isFilledPipe THEN ProbeBwPhase(y, t, inflight) ELSE x
  BY Zenon DEF UpdateProbeBwCyclePhase
<1> HIDE DEF y
<1>5. x.isFilledPipe => Onward(y, ProbeBwPhase(y, t, inflight))
  BY <1>1, <1>2, PhaseSound, Zenon DEF Onward
<1>6. x.isFilledPipe => Onward(x, ProbeBwPhase(y, t, inflight))
  BY <1>1, <1>5, Zenon DEF Onward, SameWindow
<1> QED BY <1>3, <1>4, <1>6, Zenon

\* updateMinRtt and checkProbeRtt, outside ProbeRTT: it is entered if the stamp has expired, and then
\* not left at once, so that checkProbeRttDone is not reached.
LEMMA ProbeRttSound ==
  ASSUME Parameters, NEW x, Sound(x), x.state # "ProbeRTT", NEW t \in Nat, NEW inflight
  PROVE  LET y == CheckProbeRtt(UpdateMinRtt(x, t), t, inflight)
         IN  /\ Sound(y) /\ SameWindow(x, y)
             /\ t - x.probeRttMinStamp > ProbeRttInterval => y.state = "ProbeRTT"
             /\ y.state = "ProbeRTT" => Stays(y, t)
<1> DEFINE u == UpdateMinRtt(x, t)
<1>0. t - x.probeRttMinStamp > ProbeRttInterval => u.probeRttExpired
  BY Zenon DEF UpdateMinRtt, Sound, Fields
<1>1. Onward(x, u) /\ u.state = x.state
  BY Zenon DEF Onward, UpdateMinRtt, Sound, SameWindow, Fields, Probing, ProbeBw, States, Parameters
<1> HIDE DEF u
<1>2. CASE ~u.probeRttExpired
  <2>1. CheckProbeRtt(u, t, inflight) = u
    BY <1>1, <1>2, Zenon DEF CheckProbeRtt
  <2> QED BY <1>0, <1>1, <1>2, <2>1, Zenon DEF Onward, u
<1>3. CASE u.probeRttExpired
  <2> DEFINE v == StartRound([SaveCwnd(Enter(u, "ProbeRTT")) EXCEPT
                                 !.probeRttDoneStamp = 0, !.ackPhase = "stopping"])
  <2>1. Sound(v) /\ SameWindow(u, v) /\ v.state = "ProbeRTT" /\ v.probeRttDoneStamp = 0
    <3> DEFINE e == Enter(u, "ProbeRTT")
    <3>1. Sound(e) /\ SameWindow(u, e) /\ e.state = "ProbeRTT"
      BY <1>1 DEF Onward, Enter, UpdateGains, PacingGain, CwndGain, Sound, SameWindow, Fields,
         Probing, ProbeBw, States
    <3> HIDE DEF e
    <3> DEFINE s == SaveCwnd(e)
    <3>2. Sound(s) /\ SameWindow(e, s) /\ s.state = "ProbeRTT"
      BY <3>1, Zenon DEF SaveCwnd, Larger, Sound, SameWindow, Fields, Parameters
    <3> HIDE DEF s
    <3>3. v = StartRound([s EXCEPT !.probeRttDoneStamp = 0, !.ackPhase = "stopping"])
      BY Zenon DEF s, e
    <3> HIDE DEF v
    <3> QED BY <3>1, <3>2, <3>3 DEF StartRound, Sound, SameWindow, Fields, Probing, ProbeBw, States
  <2>2. CheckProbeRtt(u, t, inflight) = HandleProbeRtt(v, t, inflight)
    BY <1>1, <1>3, <2>1, Zenon DEF CheckProbeRtt
  <2> HIDE DEF v
  <2> DEFINE w == HandleProbeRtt(v, t, inflight)
  <2>3. Sound(w) /\ SameWindow(v, w) /\ Stays(w, t)
    BY <2>1 DEF HandleProbeRtt, StartRound, Sound, SameWindow, Fields, Probing, ProbeBw, States,
       Stays, Parameters
  <2> HIDE DEF w
  <2>4. SameWindow(x, w) /\ w.state = "ProbeRTT"
    BY <1>1, <2>1, <2>3, Zenon DEF Onward, SameWindow, Stays
  <2> QED BY <2>2, <2>3, <2>4, Zenon DEF u, w
<1> QED BY <1>2, <1>3, Zenon

\* The gains, the pacing rate and the bandwidth follow.
LEMMA ControlSound ==
  ASSUME Parameters, NEW x, Sound(x)
  PROVE  LET y == UpdateControlParameters(UpdateGains(BoundBwForModel(x)))
         IN  /\ Sound(y) /\ SameWindow(x, y) /\ y.state = x.state
             /\ y.probeRttDoneStamp = x.probeRttDoneStamp
<1> DEFINE u == BoundBwForModel(x)
<1>1. Sound(u) /\ SameWindow(x, u) /\ u.state = x.state /\ u.probeRttDoneStamp = x.probeRttDoneStamp
  BY Zenon DEF BoundBwForModel, Smaller, Sound, SameWindow, Fields, Probing, ProbeBw, States, Parameters
<1> HIDE DEF u
<1> DEFINE v == UpdateGains(u)
<1>2. Sound(v) /\ SameWindow(u, v) /\ v.state = u.state /\ v.probeRttDoneStamp = u.probeRttDoneStamp
  BY <1>1 DEF UpdateGains, PacingGain, CwndGain, Sound, SameWindow, Fields, Probing, ProbeBw, States
<1> HIDE DEF v
<1> DEFINE w == UpdateControlParameters(v)
<1>3. Sound(w) /\ SameWindow(v, w) /\ w.state = v.state /\ w.probeRttDoneStamp = v.probeRttDoneStamp
  BY <1>2 DEF UpdateControlParameters, Sound, SameWindow, Fields, Probing, ProbeBw, States
<1> HIDE DEF w
<1>4. UpdateControlParameters(UpdateGains(BoundBwForModel(x))) = w
  BY Zenon DEF u, v, w
<1> QED BY <1>1, <1>2, <1>3, <1>4, Zenon DEF SameWindow

\* setCwnd, outside recovery: the window shrinks only in ProbeRTT, the bounds of the model being
\* above every window.
LEMMA SetCwndSound ==
  ASSUME Parameters, NEW x, Sound(x), ~x.packetConservation, NEW inflight
  PROVE  LET y == SetCwnd(x, inflight)
         IN  /\ Sound(y) /\ y.mds = x.mds /\ y.state = x.state
             /\ y.probeRttDoneStamp = x.probeRttDoneStamp
             /\ y.probeRttMinStamp = x.probeRttMinStamp
             /\ y.inRecoveryMode = x.inRecoveryMode
             /\ y.packetConservation = x.packetConservation
             /\ y.state # "ProbeRTT" => y.cwnd >= x.cwnd
<1> DEFINE u == [Remember(x, x.maxBw) EXCEPT !.cwnd = Larger(@, MinCwnd(Remember(x, x.maxBw)))]
           Same(v, w) == /\ Sound(w) /\ w.mds = v.mds /\ w.state = v.state
                         /\ w.probeRttDoneStamp = v.probeRttDoneStamp
                         /\ w.probeRttMinStamp = v.probeRttMinStamp
                         /\ w.inRecoveryMode = v.inRecoveryMode
                         /\ w.packetConservation = v.packetConservation
<1>1. Same(x, u) /\ u.cwnd >= x.cwnd
  BY DEF Remember, Larger, MinCwnd, Sound, Fields, Probing, ProbeBw, States, Parameters
<1>2. SetCwnd(x, inflight) = BoundCwndForModel(BoundCwndForProbeRtt(u))
  BY Zenon DEF SetCwnd, Remember, Sound, Fields
<1> HIDE DEF u
<1> DEFINE v == BoundCwndForProbeRtt(u)
<1>3. Same(u, v) /\ (v.state # "ProbeRTT" => v.cwnd = u.cwnd)
  <2>1. Bdp(u, u.bw, u.cwndGain) \in Nat
    BY <1>1, BdpNat, Zenon DEF Sound
  <2> QED BY <1>1, <2>1 DEF BoundCwndForProbeRtt, Smaller, Sound, Fields, Probing, ProbeBw, States,
             Parameters
<1> HIDE DEF v
<1> DEFINE w == BoundCwndForModel(v)
<1>4. Same(v, w) /\ w.cwnd = v.cwnd
  <2>1. Inf \in Nat /\ v.cwnd \in Nat /\ v.cwnd <= Inf /\ MinCwnd(v) \in Nat
    BY <1>3 DEF Sound, Parameters, MinCwnd
  <2>2. InflightWithHeadroom(v) = Inf
    BY <1>3, Zenon DEF InflightWithHeadroom, Sound
  <2>3. w = [v EXCEPT !.cwnd = Smaller(@, Larger(Smaller(Inf, Inf), MinCwnd(v)))]
    BY <1>3, <2>2, Zenon DEF BoundCwndForModel, Sound
  <2>4. w.cwnd = v.cwnd
    BY <1>3, <2>1, <2>3 DEF Smaller, Larger, Sound, Fields
  <2> HIDE DEF w
  <2> QED BY <1>3, <2>3, <2>4, Zenon DEF Sound, Fields, Probing, ProbeBw, States
<1> HIDE DEF w, Same
<1>5. SetCwnd(x, inflight) = w
  BY <1>2, Zenon DEF v, w
<1> QED BY <1>1, <1>3, <1>4, <1>5, Zenon DEF Same, Sound

\* Leaving recovery gives the saved window back.
LEMMA ExitRecoverySound ==
  ASSUME Parameters, NEW x, Sound(x)
  PROVE  LET y == ExitRecovery(x)
         IN  /\ Sound(y) /\ y.state = x.state /\ y.mds = x.mds
             /\ y.probeRttMinStamp = x.probeRttMinStamp
             /\ ~y.inRecoveryMode /\ ~y.packetConservation
             /\ y.cwnd >= x.cwnd /\ y.cwnd >= x.priorCwnd
BY DEF ExitRecovery, RestoreCwnd, Larger, Sound, Fields, Probing, ProbeBw, States, Parameters

\* The end of a round: recovery ends, the window does not shrink below the one given back unless
\* ProbeRTT is entered, and that is entered whenever its stamp has expired.
LEMMA RoundPassedSound ==
  ASSUME Parameters, NEW x, Sound(x), x.state # "ProbeRTT", x.packetConservation => x.inRecoveryMode,
         NEW t \in Nat, NEW inflight
  PROVE  LET y == RoundPassed(x, t, inflight)
         IN  /\ Sound(y) /\ y.mds = x.mds /\ y.probeRttMinStamp = x.probeRttMinStamp
             /\ ~y.inRecoveryMode /\ ~y.packetConservation
             /\ t - x.probeRttMinStamp > ProbeRttInterval => y.state = "ProbeRTT"
             /\ y.state = "ProbeRTT" => Stays(y, t)
             /\ y.state # "ProbeRTT" => /\ y.cwnd >= x.cwnd
                                        /\ x.inRecoveryMode => y.cwnd >= x.priorCwnd
<1> DEFINE u == IF x.inRecoveryMode THEN ExitRecovery(x) ELSE x
<1>1. /\ Sound(u) /\ u.state = x.state /\ u.mds = x.mds /\ u.probeRttMinStamp = x.probeRttMinStamp
      /\ ~u.inRecoveryMode /\ ~u.packetConservation
      /\ u.cwnd >= x.cwnd /\ (x.inRecoveryMode => u.cwnd >= x.priorCwnd)
  <2>1. x.cwnd >= x.cwnd
    BY DEF Sound
  <2> QED BY <2>1, ExitRecoverySound, Zenon
<1> HIDE DEF u
<1> DEFINE c1 == CheckStartupDone(u)
           c2 == CheckDrain(c1, t, inflight)
           c3 == UpdateProbeBwCyclePhase(c2, t, inflight)
<1>2. Onward(u, c1)
  BY <1>1, StartupDoneSound, Zenon
<1>3. Onward(c1, c2)
  <2> HIDE DEF c1
  <2> QED BY <1>2, DrainSound, Zenon DEF Onward
<1>4. Onward(c2, c3)
  <2> HIDE DEF c1, c2
  <2> QED BY <1>3, CycleSound, Zenon DEF Onward
<1>5. Sound(c3) /\ SameWindow(u, c3) /\ c3.state # "ProbeRTT"
  <2> HIDE DEF c1, c2, c3
  <2> QED BY <1>1, <1>2, <1>3, <1>4, Zenon DEF Onward, SameWindow
<1> DEFINE c4 == CheckProbeRtt(UpdateMinRtt(c3, t), t, inflight)
           v == UpdateControlParameters(UpdateGains(BoundBwForModel(c4)))
           w1 == SetCwnd(v, inflight)
           w == CheckStartupDone(w1)
           y1 == IF w.state = "Drain" /\ inflight < Inflight(w, 100)
                 THEN StartProbeBwDown(w, t) ELSE w
           y2 == UpdateMaxBwFilter(y1)
           y == CheckProbeRttOld(y2, t)
<1>6. RoundPassed(x, t, inflight) = y
  BY Zenon DEF RoundPassed, UpdateModelAndState, u
<1> HIDE DEF c1, c2, c3
<1>7. /\ Sound(c4) /\ SameWindow(c3, c4)
      /\ t - c3.probeRttMinStamp > ProbeRttInterval => c4.state = "ProbeRTT"
      /\ c4.state = "ProbeRTT" => Stays(c4, t)
  BY <1>5, ProbeRttSound, Zenon
<1> HIDE DEF c4
<1>8. /\ Sound(v) /\ SameWindow(c4, v) /\ v.state = c4.state
      /\ v.probeRttDoneStamp = c4.probeRttDoneStamp
  BY <1>7, ControlSound, Zenon
<1> HIDE DEF v
<1>9. SameWindow(u, v) /\ ~v.packetConservation /\ ~v.inRecoveryMode
  BY <1>1, <1>5, <1>7, <1>8, Zenon DEF SameWindow
<1>10. /\ Sound(w1) /\ w1.mds = v.mds /\ w1.state = v.state
       /\ w1.probeRttDoneStamp = v.probeRttDoneStamp /\ w1.probeRttMinStamp = v.probeRttMinStamp
       /\ ~w1.inRecoveryMode /\ ~w1.packetConservation
       /\ w1.state # "ProbeRTT" => w1.cwnd >= v.cwnd
  BY <1>8, <1>9, SetCwndSound
<1> HIDE DEF w1
<1>11. Onward(w1, w) /\ (w1.state = "ProbeRTT" => w.state = "ProbeRTT")
  BY <1>10, StartupDoneSound, Zenon
<1> HIDE DEF w
<1>12. Onward(w, y1) /\ (w.state = "ProbeRTT" => y1.state = "ProbeRTT")
  <2>1. w.state = "Drain" => w.isFilledPipe
    BY <1>11, Zenon DEF Onward, Sound, Probing
  <2>2. Onward(w, w)
    BY <1>11, Zenon DEF Onward, SameWindow
  <2> QED BY <1>11, <2>1, <2>2, DownSound, Zenon DEF Onward
<1> HIDE DEF y1
<1>13. Onward(y1, y2) /\ y2.state = y1.state
  BY <1>12, Zenon DEF Onward, UpdateMaxBwFilter, Sound, SameWindow, Fields, Probing, ProbeBw, States
<1> HIDE DEF y2
<1>14. /\ Sound(y) /\ SameWindow(y2, y)
       /\ y.state = "ProbeRTT" \/ y = y2
       /\ y # y2 => Stays(y, t)
  BY <1>13 DEF Onward, CheckProbeRttOld, Sound, SameWindow, Fields, Probing, ProbeBw, States, Stays,
     Parameters
<1> HIDE DEF y
<1>15. SameWindow(w1, y2) /\ y2.probeRttDoneStamp = w1.probeRttDoneStamp
  BY <1>11, <1>12, <1>13, Zenon DEF Onward, SameWindow
<1>16. y2.state = "ProbeRTT" <=> w1.state = "ProbeRTT"
  BY <1>11, <1>12, <1>13, Zenon DEF Onward
<1>17. y.state = "ProbeRTT" => Stays(y, t)
  <2>1. y2.state = "ProbeRTT" => Stays(y2, t)
    BY <1>7, <1>8, <1>10, <1>15, <1>16, Zenon DEF Stays
  <2> QED BY <1>14, <2>1, Zenon
<1>18. t - x.probeRttMinStamp > ProbeRttInterval => y.state = "ProbeRTT"
  BY <1>1, <1>5, <1>7, <1>8, <1>10, <1>14, <1>16, Zenon DEF SameWindow
<1>19. ASSUME y.state # "ProbeRTT"
       PROVE  y.cwnd >= x.cwnd /\ (x.inRecoveryMode => y.cwnd >= x.priorCwnd)
  <2>1. y.cwnd = w1.cwnd /\ w1.cwnd >= v.cwnd /\ v.cwnd = u.cwnd
    BY <1>9, <1>10, <1>14, <1>15, <1>16, <1>19, Zenon DEF SameWindow
  <2> QED BY <1>1, <1>8, <1>10, <2>1 DEF Sound
<1>20. /\ y.mds = x.mds /\ y.probeRttMinStamp = x.probeRttMinStamp
       /\ ~y.inRecoveryMode /\ ~y.packetConservation
  BY <1>1, <1>9, <1>10, <1>14, <1>15, Zenon DEF SameWindow
<1> QED BY <1>6, <1>14, <1>17, <1>18, <1>19, <1>20, Zenon

\* OnPacketAcked.  Every acknowledgement ends a round.
LEMMA AckedGood ==
  ASSUME Parameters, NEW x, Good(x), NEW t \in Nat, NEW rtt \in Nat, NEW rate \in Nat, NEW inflight
  PROVE  LET y == Acked(x, t, rtt, rate, 1, inflight)
         IN  /\ Good(y) /\ y.mds = x.mds /\ y.probeRttMinStamp = x.probeRttMinStamp
             /\ t - x.probeRttMinStamp > ProbeRttInterval => y.state = "ProbeRTT"
             /\ y.state = "ProbeRTT" => Stays(y, t)
             /\ Stays(x, t) => y.state = "ProbeRTT"
             /\ y.state # "ProbeRTT" => /\ y.cwnd >= x.cwnd /\ ~y.inRecoveryMode
                                        /\ x.inRecoveryMode => y.cwnd >= x.priorCwnd
<1> DEFINE s == [SampleRtt(x, t, rtt) EXCEPT !.delivered = @ + 1]
           u == MaybeExitProbeRTT(s, t)
           r == UpdateRound(u)
           v == SampleRate(r, rate)
<1>1. /\ Sound(s) /\ s.state = x.state /\ s.mds = x.mds
      /\ s.cwnd = x.cwnd /\ s.priorCwnd = x.priorCwnd
      /\ s.inRecoveryMode = x.inRecoveryMode /\ s.packetConservation = x.packetConservation
      /\ s.probeRttMinStamp = x.probeRttMinStamp /\ s.probeRttDoneStamp = x.probeRttDoneStamp
      /\ s.delivered = x.delivered + 1
  BY DEF Good, SampleRtt, Sound, Fields, Probing, ProbeBw, States
<1>2. Acked(x, t, rtt, rate, 1, inflight) =
        IF u.state = "ProbeRTT" THEN u
        ELSE IF t - v.minRttStamp >= v.minRtt \/ v.isRoundStart THEN RoundPassed(v, t, inflight)
        ELSE v
  BY Zenon DEF Acked
<1> HIDE DEF s
<1>3. /\ Sound(u) /\ SameWindow(s, u) /\ u.priorCwnd = s.priorCwnd
      /\ s.state # "ProbeRTT" => u = s
      /\ Stays(s, t) => u = s
      /\ u.state = "ProbeRTT" => u = s /\ Stays(u, t)
  BY <1>1, MaybeExitSound, Zenon
<1> HIDE DEF u
<1>4. /\ Sound(r) /\ r.isRoundStart /\ ~r.packetConservation /\ r.state = u.state /\ r.mds = u.mds
      /\ r.cwnd = u.cwnd /\ r.priorCwnd = u.priorCwnd /\ r.inRecoveryMode = u.inRecoveryMode
      /\ r.probeRttMinStamp = u.probeRttMinStamp
  BY <1>3 DEF UpdateRound, StartRound, Sound, Fields, Probing, ProbeBw, States
<1> HIDE DEF r
<1>5. /\ Sound(v) /\ v.isRoundStart /\ ~v.packetConservation /\ v.state = r.state /\ v.mds = r.mds
      /\ v.cwnd = r.cwnd /\ v.priorCwnd = r.priorCwnd /\ v.inRecoveryMode = r.inRecoveryMode
      /\ v.probeRttMinStamp = r.probeRttMinStamp
  BY <1>4, Zenon DEF SampleRate, Sound, Fields, Probing, ProbeBw, States
<1> HIDE DEF v
<1>6. CASE u.state = "ProbeRTT"
  <2>1. Acked(x, t, rtt, rate, 1, inflight) = s /\ u = s /\ Stays(s, t)
    BY <1>2, <1>3, <1>6, Zenon
  <2>2. Good(s)
    BY <1>1, Zenon DEF Good
  <2> QED BY <1>1, <1>6, <2>1, <2>2, Zenon DEF Stays
<1>7. CASE u.state # "ProbeRTT"
  <2> DEFINE y == RoundPassed(v, t, inflight)
  <2>1. Acked(x, t, rtt, rate, 1, inflight) = y
    BY <1>2, <1>5, <1>7, Zenon
  <2>2. v.state # "ProbeRTT" /\ (v.packetConservation => v.inRecoveryMode)
    BY <1>4, <1>5, <1>7, Zenon
  <2>3. /\ Sound(y) /\ y.mds = v.mds /\ y.probeRttMinStamp = v.probeRttMinStamp
        /\ ~y.inRecoveryMode /\ ~y.packetConservation
        /\ t - v.probeRttMinStamp > ProbeRttInterval => y.state = "ProbeRTT"
        /\ y.state = "ProbeRTT" => Stays(y, t)
        /\ y.state # "ProbeRTT" => /\ y.cwnd >= v.cwnd
                                   /\ v.inRecoveryMode => y.cwnd >= v.priorCwnd
    BY <1>5, <2>2, RoundPassedSound, Zenon
  <2> HIDE DEF y
  <2>4. /\ v.mds = x.mds /\ v.cwnd = x.cwnd /\ v.priorCwnd = x.priorCwnd
        /\ v.inRecoveryMode = x.inRecoveryMode /\ v.probeRttMinStamp = x.probeRttMinStamp
    BY <1>1, <1>3, <1>4, <1>5, Zenon DEF SameWindow
  <2>5. ~Stays(x, t)
    BY <1>1, <1>3, <1>7, Zenon DEF Stays
  <2>6. Good(y)
    BY <2>3, Zenon DEF Good
  <2> QED BY <2>1, <2>3, <2>4, <2>5, <2>6, Zenon
<1> QED BY <1>6, <1>7, Zenon

\* OnCongestionEvent.
LEMMA LostGood ==
  ASSUME Parameters, NEW x, Good(x), NEW bytes \in Nat
  PROVE  LET y == Lost(x, bytes)
         IN  /\ Good(y) /\ y.delivered = x.delivered /\ (x.inRecoveryMode => y.inRecoveryMode)
<1> DEFINE p == [x EXCEPT !.inRecoveryMode = TRUE, !.pacingGain = 100]
           e == EnterRecovery(p)
           u == IF ~x.inRecoveryMode /\ x.state \notin {"Startup", "ProbeRTT"} THEN e ELSE x
<1>1. /\ Sound(p) /\ p.state = x.state /\ p.delivered = x.delivered
  BY Zenon DEF Good, Sound, Fields, Probing, ProbeBw, States
<1>2. Lost(x, bytes) = [u EXCEPT !.cwnd = IF u.cwnd > bytes THEN u.cwnd - bytes ELSE MinCwnd(u)]
  BY Zenon DEF Lost
<1> HIDE DEF p
<1>3. /\ Sound(e) /\ e.state = p.state /\ e.delivered = p.delivered
      /\ e.inRecoveryMode /\ e.packetConservation
  BY <1>1 DEF EnterRecovery, StartRound, SaveCwnd, MinCwnd, Larger, Sound, Fields, Probing, ProbeBw,
     States, Parameters
<1> HIDE DEF e
<1>4. Good(u) /\ u.delivered = x.delivered /\ (x.inRecoveryMode => u.inRecoveryMode)
  <2>1. x.state \notin {"Startup", "ProbeRTT"} => x.state \in Probing
    BY Zenon DEF Good, Sound, States, Probing
  <2> QED BY <1>1, <1>3, <2>1, Zenon DEF Good
<1> HIDE DEF u
<1> QED BY <1>2, <1>4 DEF Good, MinCwnd, Sound, Fields, Probing, ProbeBw, States, Parameters

\* The inductive invariant.
BInv == Good(b) /\ now \in Nat

\* Every step keeps the invariant and has the two action properties.
Step == BInv' /\ ExpiredAckProbesRtt /\ RecoveryRestoresCwnd

\* An ACK frame acknowledges one packet or two.
LEMMA AckStep ==
  ASSUME Parameters, BInv, OnPacketAcked
  PROVE  Step
<1>1. PICK rtt \in Rtts, rate \in Rates \cup {0} :
        \/ b' = Acked(b, now, rtt, rate, 1, InFlight)
        \/ b' = Acked(Acked(b, now, rtt, rate, 1, InFlight), now, rtt, rate, 1, InFlight)
  BY Zenon DEF OnPacketAcked
<1>2. rtt \in Nat /\ rate \in Nat /\ now \in Nat /\ now' = now /\ Good(b)
  BY DEF Parameters, BInv, OnPacketAcked
<1> DEFINE f == Acked(b, now, rtt, rate, 1, InFlight)
           g == Acked(f, now, rtt, rate, 1, InFlight)
<1>3. /\ Good(f) /\ f.probeRttMinStamp = b.probeRttMinStamp
      /\ now - b.probeRttMinStamp > ProbeRttInterval => f.state = "ProbeRTT"
      /\ f.state = "ProbeRTT" => Stays(f, now)
      /\ f.state # "ProbeRTT" /\ b.inRecoveryMode => f.cwnd >= b.priorCwnd
  BY <1>2, AckedGood
<1>4. b' = f \/ b' = g
  BY <1>1, Zenon
<1> HIDE DEF f
<1>5. /\ Good(g)
      /\ now - f.probeRttMinStamp > ProbeRttInterval => g.state = "ProbeRTT"
      /\ Stays(f, now) => g.state = "ProbeRTT"
      /\ g.state # "ProbeRTT" => g.cwnd >= f.cwnd
  BY <1>2, <1>3, AckedGood, Zenon
<1> HIDE DEF g
<1>6. f.state = "ProbeRTT" => g.state = "ProbeRTT"
  BY <1>3, <1>5, Zenon
<1>7. g.state # "ProbeRTT" /\ b.inRecoveryMode => g.cwnd >= b.priorCwnd
  BY <1>2, <1>3, <1>5, <1>6 DEF Good, Sound
<1>8. BInv'
  BY <1>2, <1>3, <1>4, <1>5, Zenon DEF BInv
<1>9. ExpiredAckProbesRtt
  BY <1>3, <1>4, <1>5, Zenon DEF ExpiredAckProbesRtt
<1>10. RecoveryRestoresCwnd
  BY <1>3, <1>4, <1>7 DEF RecoveryRestoresCwnd
<1> QED BY <1>8, <1>9, <1>10, Zenon DEF Step

\* Nothing else acknowledges data or ends a recovery, except by a reset.
LEMMA OtherSteps ==
  ASSUME Parameters, BInv, [Next]_vars, ~OnPacketAcked
  PROVE  Step
<1>1. ASSUME b' = b, now' \in Nat PROVE Step
  <2>1. b.delivered \in Nat
    BY Zenon DEF BInv, Good, Sound
  <2> QED BY <1>1, <2>1 DEF Step, BInv, ExpiredAckProbesRtt, RecoveryRestoresCwnd
<1>2. ASSUME NEW y, b' = y, now' = now, Good(y), y.delivered = b.delivered,
             b.inRecoveryMode => y.inRecoveryMode
      PROVE  Step
  <2>1. b.delivered \in Nat
    BY Zenon DEF BInv, Good, Sound
  <2> QED BY <1>2, <2>1 DEF Step, BInv, ExpiredAckProbesRtt, RecoveryRestoresCwnd
<1>3. CASE OnPacketSent \/ OnStalePacketAcked \/ UNCHANGED vars
  BY <1>1, <1>3, Zenon DEF OnPacketSent, OnStalePacketAcked, vars, BInv
<1>4. CASE Tick
  BY <1>1, <1>4 DEF Tick, BInv
<1>5. CASE OnCongestionEvent
  <2>1. PICK bytes \in 1 .. b.mds : b' = Lost(b, bytes) /\ now' = now
    BY <1>5, Zenon DEF OnCongestionEvent
  <2>2. bytes \in Nat
    BY <2>1 DEF BInv, Good, Sound, Parameters
  <2> QED BY <1>2, <2>1, <2>2, LostGood, Zenon DEF BInv
<1>6. CASE OnCongestionExperienced
  <2>1. b' = Lost(b, 0) /\ now' = now
    BY <1>6, Zenon DEF OnCongestionExperienced
  <2> QED BY <1>2, <2>1, LostGood, Zenon DEF BInv
<1>7. CASE HasPacingBudget
  <2> DEFINE y == MaybeExitProbeRTT(b, now)
  <2>1. b' = y /\ now' = now
    BY <1>7, Zenon DEF HasPacingBudget
  <2>2. Sound(y) /\ SameWindow(b, y) /\ (b.state # "ProbeRTT" => y = b)
    BY MaybeExitSound, Zenon DEF BInv, Good
  <2> HIDE DEF y
  <2>3. b.state = "ProbeRTT" => ~b.inRecoveryMode /\ ~b.packetConservation
    BY Zenon DEF BInv, Good, Probing, ProbeBw
  <2>4. Good(y)
    BY <2>2, <2>3, Zenon DEF BInv, Good, SameWindow
  <2> QED BY <1>2, <2>1, <2>2, <2>4, Zenon DEF SameWindow
<1>8. CASE OnRetransmissionTimeout
  <2>1. b' = NewSender(b.mds, now) /\ now' = now /\ b.mds \in Sizes /\ b.delivered \in Nat
    BY <1>8, Zenon DEF OnRetransmissionTimeout, BInv, Good, Sound
  <2>2. Good(b') /\ b'.delivered = 0
    BY <2>1, NewSenderGood, Zenon
  <2> QED BY <2>1, <2>2 DEF Step, BInv, ExpiredAckProbesRtt, RecoveryRestoresCwnd, Reset
<1>9. CASE SetMaxDatagramSize
  <2>1. PICK m \in Sizes : m > b.mds /\ b' = [b EXCEPT !.mds = m] /\ now' = now
    BY <1>9, Zenon DEF SetMaxDatagramSize
  <2> DEFINE y == [b EXCEPT !.mds = m]
  <2>2. Good(y) /\ y.delivered = b.delivered /\ y.inRecoveryMode = b.inRecoveryMode
    BY <2>1 DEF BInv, Good, Sound, Fields, Probing, ProbeBw, States, Parameters
  <2> HIDE DEF y
  <2>3. b' = y
    BY <2>1, Zenon DEF y
  <2> QED BY <1>2, <2>1, <2>2, <2>3, Zenon
<1> QED BY <1>3, <1>4, <1>5, <1>6, <1>7, <1>8, <1>9, Zenon DEF Next

\* The record is sound, and packets conserved exactly in recovery, after every call.
LEMMA BInvTheorem ==
  ASSUME Parameters
  PROVE  Spec => []BInv
<1>1. Init => BInv
  BY NewSenderGood DEF Init, BInv
<1>2. BInv /\ [Next]_vars => BInv'
  BY AckStep, OtherSteps, Zenon DEF Step
<1> QED BY <1>1, <1>2, PTL DEF Spec

\* The phases nest: Drain and ProbeBW are entered only with a full pipe, whatever sequence of
\* ProbeRTT, recovery, migration and MTU change came before, and a recovery stays within them.  On no
\* path and for no measured rate does the window, or the one a recovery gives back, exceed the
\* initial ten datagrams.
THEOREM PhasesTheorem ==
  ASSUME Parameters
  PROVE  Spec => []PhasesNest
<1>1. BInv => FilledBeforeProbing /\ RecoveryWithinProbing
  BY Zenon DEF BInv, Good, Sound, Probing, FilledBeforeProbing, RecoveryWithinProbing
<1>2. BInv => CwndAtMostInitial
  BY Zenon DEF BInv, Good, Sound, CwndAtMostInitial
<1>3. BInv => PhasesNest
  BY <1>1, <1>2, Zenon DEF PhasesNest
<1> QED BY <1>3, BInvTheorem, PTL

\* Once probeRttInterval has passed since the sender was created, every acknowledgement that counts
\* leaves it in ProbeRTT: probeRttMinStamp is never renewed.  The acknowledgement that ends a recovery
\* gives the saved window back, unless ProbeRTT begins.
THEOREM BracketTheorem ==
  ASSUME Parameters
  PROVE  Spec => ProbesBracketed
<1>1. BInv /\ [Next]_vars => [ExpiredAckProbesRtt /\ RecoveryRestoresCwnd]_vars
  BY AckStep, OtherSteps, Zenon DEF Step
<1> QED BY <1>1, BInvTheorem, PTL DEF Spec, ProbesBracketed
=============================================================================
