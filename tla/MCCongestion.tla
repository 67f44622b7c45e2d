---------------------------- MODULE MCCongestion ----------------------------
(***************************************************************************)
(* A connection with BBRv3, BBRv1 or (the default) Reno, as its configuration *)
(* says.  Each BBR is run with two sets of bounds:                           *)
(*   path   few packets in flight; losses, a migration, MTU discovery,       *)
(*          packets with the same number in different spaces                 *)
(*   cycle  enough packets and round trips to fill the pipe, drain it and    *)
(*          probe for bandwidth                                             *)
(* For BBRv3 a unit of time is about a second and a datagram two or three     *)
(* bytes: an initial window of 20 bytes, a floor of 8.  Rate 4 keeps half of  *)
(* the bandwidth-delay product under a packet, 40 makes it the whole window.  *)
(***************************************************************************)
EXTENDS BBRv3

CONSTANTS Second, MinBdp, BwWin, ProbeRttTime, PacerSize

VARIABLES kind,
          v1, time, sentTimes, flight, next, moves, dropped,
          c, rtt, outstanding, nextPn, clock, cutSent, calm

CycleV3 == INSTANCE BBRv3 WITH Sizes <- {2}, Bursts <- {8}, Rtts <- {1}, ProbeWait <- 1,
    MaxTime <- 4, MaxDelivered <- 8, MaxFlight <- 9, MaxResets <- 0, MaxLosses <- 1

PathV1 == INSTANCE BBRv1 WITH b <- v1, now <- time, resets <- moves, losses <- dropped,
    Sizes <- {1, 2}, TenSeconds <- 3, Colliding <- {1, 2},
    MaxPackets <- 3, MaxTime <- 6, MaxResets <- 1, MaxLosses <- 1

CycleV1 == INSTANCE BBRv1 WITH b <- v1, now <- time, resets <- moves, losses <- dropped,
    Sizes <- {1}, TenSeconds <- 4, Colliding <- {},
    MaxPackets <- 5, MaxTime <- 5, MaxResets <- 0, MaxLosses <- 0

\* Packets of 10 bytes that MTU discovery makes 14, a window of 3 packets at first and 4 at most.
Reno == INSTANCE RenoSender WITH flight <- outstanding, now <- clock,
    InitialSize <- 10, LargerSize <- 14, InitialWindow <- 3, MaxWindow <- 4,
    maxBurstPackets <- 1, maxBurstSizePackets <- 2, hybridStartLowWindow <- 3,
    hybridStartMinSamples <- 2, DelayThreshold <- 1, DefaultInitialRTT <- 4,
    TimerGranularity <- 1, MinPacingDelay <- 1, MaxAckDelay <- 2, NumPackets <- 5, MaxTime <- 4

bbrv1 == <<v1, time, sentTimes, flight, next, moves, dropped>>
reno == <<c, rtt, outstanding, nextPn, clock, cutSent, calm>>
allVars == <<kind, vars, bbrv1, reno>>

\* All senders are created, one is used.
MCInit ==
    /\ kind \in {"path v3", "cycle v3", "path v1", "cycle v1", "reno"}
    /\ IF kind = "path v3" THEN Init ELSE CycleV3!Init
    /\ IF kind = "path v1" THEN PathV1!Init ELSE CycleV1!Init
    /\ Reno!RInit

MCNext ==
    /\ UNCHANGED kind
    /\ \/ kind = "path v3" /\ Next /\ UNCHANGED <<bbrv1, reno>>
       \/ kind = "cycle v3" /\ CycleV3!Next /\ UNCHANGED <<bbrv1, reno>>
       \/ kind = "path v1" /\ PathV1!Next /\ UNCHANGED <<vars, reno>>
       \/ kind = "cycle v1" /\ CycleV1!Next /\ UNCHANGED <<vars, reno>>
       \/ kind = "reno" /\ Reno!RNext /\ UNCHANGED <<vars, bbrv1>>

MCSpec == MCInit /\ [][MCNext]_allVars

-----------------------------------------------------------------------------
(* The properties of BBRv1 and Reno, each of the sender that is used, and   *)
(* the types of all.  Those of BBRv3 are its own: PhasesNest,               *)
(* ProbesBracketed and CwndFloor.                                          *)

\* No unsigned field wraps and no divisor becomes 0 on any path through either BBR (TypeOK).
\* BBRv1's delivered is the sum of its window, whatever order expiry, PROBE_RTT (which keeps
\* everything), a longer lastNewMinRTT and resets come in: the delivery rate is not made up.
FieldsSound ==
    /\ kind = "path v3" => TypeOK
    /\ kind = "cycle v3" => CycleV3!TypeOK
    /\ kind = "path v1" => PathV1!TypeOK
    /\ kind = "cycle v1" => CycleV1!TypeOK
    /\ PathV1!DeliveredIsWindow

\* Reno's window stays between two packets and the configured maximum, which slow start and congestion
\* avoidance overshoot by less than one packet; and the estimates it and the loss timers use stay
\* within the round trips that were measured, so that no probe timeout is shorter than a round trip.
\* A sender that is out of pacing budget gets a deadline in the future, and when the deadline comes
\* it may send: the run loop neither spins nor sleeps in instalments.
RenoBounds == kind = "reno" => Reno!WindowBounds /\ Reno!RttBracketed /\ Reno!PacerDeadline

\* A loss or an ECN mark costs Reno's window once: a step that cuts it loses (or sees marked) a packet
\* sent after the previous cut, and nothing else shrinks it.  BBRv1 leaves PROBE_RTT only when it
\* lasted 200ms, and always for PROBE_BW, unless a reset intervenes; and it enters it at most once in
\* ten seconds.
CutsBracketed ==
    [][ /\ kind = "reno" => Reno!OneCutPerFlight
        /\ kind = "path v1" => PathV1!ProbeRttBracketed
        /\ kind = "cycle v1" => CycleV1!ProbeRttBracketed ]_allVars
=============================================================================
