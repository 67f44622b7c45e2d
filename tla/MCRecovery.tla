----------------------------- MODULE MCRecovery -----------------------------
(***************************************************************************)
(* Three instances that share nothing, and so are checked one after the    *)
(* other: loss recovery after the handshake (LossRecovery), the handshake  *)
(* of two connections over a lossy network (Handshake), and the receiving  *)
(* side with the sender's ECN validation (EcnValidation).  The first two   *)
(* use the handler of SentPackets.                                         *)
(***************************************************************************)
EXTENDS Integers, Sequences, FiniteSets

CONSTANTS AmplificationFactor, MaxSkippedPackets, MaxEvents,
          LossThreshold, LossTracked, LossOutstanding, NumFrames, Window,
          HandshakeThreshold, HandshakeTracked, DatagramRoom, MaxUndecryptablePackets,
          MaxNumAckRanges, packetsBeforeAck, numECNTestingPackets, NumPackets, Num0RTT,
          NonEliciting, MaxTroubles, Unmarked

VARIABLES part,
          h, queue, acked, net, rcvd, arrived, left,
          ep, datagrams, retry, zeroRTT, mishaps,
          e, out, next, largest, ackSeen, r, got, owed, forgot, wire, acks, path, space, troubles

Loss == INSTANCE LossRecovery WITH PacketThreshold <- LossThreshold,
          MaxTrackedSentPackets <- LossTracked, MaxOutstandingSentPackets <- LossOutstanding
HS == INSTANCE Handshake WITH PacketThreshold <- HandshakeThreshold,
        MaxTrackedSentPackets <- HandshakeTracked, MaxOutstandingSentPackets <- HandshakeTracked,
        net <- datagrams, left <- mishaps
Ecn == INSTANCE EcnValidation WITH net <- wire

lossVars == <<h, queue, acked, net, rcvd, arrived, left>>
handshakeVars == <<ep, datagrams, retry, zeroRTT, mishaps>>
ecnVars == <<e, out, next, largest, ackSeen, r, got, owed, forgot, wire, acks, path, space,
             troubles>>
allVars == <<part, lossVars, handshakeVars, ecnVars>>

MCInit ==
  /\ part \in {"loss", "handshake", "ecn"}
  /\ part # "handshake" => retry = FALSE /\ zeroRTT = "off"
  /\ part # "ecn" => path = "honest" /\ space = "app"
  /\ Loss!LRInit /\ HS!HSInit /\ Ecn!EInit

MCNext ==
  /\ UNCHANGED part
  /\ \/ part = "loss" /\ Loss!LRNext /\ UNCHANGED <<handshakeVars, ecnVars>>
     \/ part = "handshake" /\ HS!HSNext /\ UNCHANGED <<lossVars, ecnVars>>
     \/ part = "ecn" /\ Ecn!ENext /\ UNCHANGED <<lossVars, handshakeVars>>

Spec == MCInit /\ [][MCNext]_allVars

---------------------------------------------------------------------------

\* The sender forgets nothing and counts right: every frame waits, is in
\* exactly one tracked packet or was acknowledged (FramesAccounted); bytes in
\* flight and outstanding packets are those of the history (Accounting,
\* sent_packet_handler.go panics otherwise); and a peer that acknowledges only
\* what it received is never accused (NoFalseAccusation).
FramesKept ==
  part = "loss" => Loss!FramesAccounted /\ Loss!Accounting /\ Loss!NoFalseAccusation

\* A handshake between honest ends over a lossy network meets no error, and no
\* panic over packets that wait for keys (NoError); both ends' bytes in flight
\* survive key drops, Retry and 0-RTT rejection (FlightAccounting); keys are
\* dropped only when nobody needs them any more (KeysOutliveNeed).
HandshakeSound ==
  part = "handshake" => HS!NoError /\ HS!FlightAccounting /\ HS!KeysOutliveNeed

\* Nobody waits for ever: what is outstanding has an alarm (AlarmRuns), all
\* frames are acknowledged in the end (AllAcked), and the handshake is
\* confirmed at both ends whatever is lost, in spite of the amplification limit
\* (HandshakeConfirms).
RecoveryFinishes ==
  /\ part = "loss" => Loss!AlarmRuns /\ Loss!AllAcked
  /\ part = "handshake" => HS!HandshakeConfirms

\* ACK frames report what was received, exactly and in time (HistoryExact,
\* AckPending), and the ECN counts in them fail no honest path and pass no path
\* that removes or rewrites the marks (EcnVerdict).  All 1-RTT packets are sent
\* with the tracker's mark (Unmarked = FALSE): a path probe goes out without one,
\* and ecnMarking, which goes by packet numbers, takes it for a marked packet.
AcksTrue ==
  part = "ecn" => Ecn!HistoryExact /\ Ecn!AckPending /\ Ecn!EcnVerdict
=============================================================================
