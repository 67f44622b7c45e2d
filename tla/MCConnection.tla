---------------------------- MODULE MCConnection ----------------------------
(***************************************************************************)
(* What runs inside a connection, in parts that share nothing and so are   *)
(* checked one after the other: the run loop with the send queue           *)
(* (ConnLoop), the framer, the datagram queue and the packet packer        *)
(* (Packer), keys and packet numbers (PacketProtection) and the paths of a *)
(* client (ClientPaths).  The loop, the keys and the numbers stay as they  *)
(* are initially when another part runs; the variables of the packer and   *)
(* of the paths are 0 then.                                                *)
(***************************************************************************)
EXTENDS ConnLoop, PacketProtection

CONSTANTS Streams, Adders, ConnCredit, MaxPayload, SmallPayload, maxDatagramSendQueueLen,
          maxDatagramRcvQueueLen, MaxNonAckElicitingAcks, MaxInputs, MaxActors,
          Paths, NumIDs, MaxProbeLosses, ProbeClosed

VARIABLES part,
          data, credit, writer, conn, reported, streamQueue, activeStreams,
          streamsWithControlFrames, controlFrames, pathResponses, retx, ack, sendQueue, sent, add,
          rcvQueue, rcvd, recv, closed, numNonAckElicitingAcks, pk, scheduled, payload, inputs,
          discarded,
          paths, pathsToProbe, activePath, pathToSwitchTo, prober, validated, abandon, closer,
          current, probing, idFor, unusedIDs, retired, probes, probeLosses

\* Half the numbers of a window: 3, 4 and 6 instead of 2^15, 2^23 and 2^31.
SmallHalfWindow(l) == IF l = 4 THEN 6 ELSE l + 1

\* Adder a1's datagram needs a whole packet; stream s1 soon runs out of credit.
DatagramSize == [a \in Adders |-> IF a = "a1" THEN 3 ELSE 1]
StreamCredit == [s \in Streams |-> IF s = "s1" THEN 1 ELSE 3]

Packing == INSTANCE Packer WITH wr <- writer, sched <- scheduled, SizeOf <- DatagramSize,
             Credit <- StreamCredit
Client == INSTANCE ClientPaths WITH net <- probes, ids <- unusedIDs, sched <- probing,
            losses <- probeLosses, MaxLosses <- MaxProbeLosses

packerVars ==
  <<data, credit, writer, conn, reported, streamQueue, activeStreams, streamsWithControlFrames,
    controlFrames, pathResponses, retx, ack, sendQueue, sent, add, rcvQueue, rcvd, recv, closed,
    numNonAckElicitingAcks, pk, scheduled, payload, inputs, discarded>>
pathVars ==
  <<paths, pathsToProbe, activePath, pathToSwitchTo, prober, validated, abandon, closer, current,
    probing, idFor, unusedIDs, retired, probes, probeLosses>>
allVars == <<part, kvars, nvars, cvars, packerVars, pathVars>>

packerOff ==
  data = 0 /\ credit = 0 /\ writer = 0 /\ conn = 0 /\ reported = 0 /\ streamQueue = 0 /\
  activeStreams = 0 /\ streamsWithControlFrames = 0 /\ controlFrames = 0 /\ pathResponses = 0 /\
  retx = 0 /\ ack = 0 /\ sendQueue = 0 /\ sent = 0 /\ add = 0 /\ rcvQueue = 0 /\ rcvd = 0 /\ recv =
  0 /\ closed = 0 /\ numNonAckElicitingAcks = 0 /\ pk = 0 /\ scheduled = 0 /\ payload = 0 /\ inputs
  = 0 /\ discarded = 0
pathOff ==
  paths = 0 /\ pathsToProbe = 0 /\ activePath = 0 /\ pathToSwitchTo = 0 /\ prober = 0 /\ validated =
  0 /\ abandon = 0 /\ closer = 0 /\ current = 0 /\ probing = 0 /\ idFor = 0 /\ unusedIDs = 0 /\
  retired = 0 /\ probes = 0 /\ probeLosses = 0

MCInit ==
  /\ part \in {"loop", "packer", "keys", "numbers", "paths"}
  /\ CInit /\ KInit /\ NInit
  /\ IF part = "packer" THEN Packing!PInit ELSE packerOff
  /\ IF part = "paths" THEN Client!QInit ELSE pathOff

MCNext ==
  /\ UNCHANGED part
  /\ \/ /\ part = "loop" /\ CNext
        /\ UNCHANGED <<kvars, nvars, packerVars, pathVars>>
     \/ /\ part = "packer" /\ Packing!PNext
        /\ UNCHANGED <<kvars, nvars, cvars, pathVars>>
     \/ /\ part = "keys" /\ KNext
        /\ UNCHANGED <<nvars, cvars, packerVars, pathVars>>
     \/ /\ part = "numbers" /\ NNext
        /\ UNCHANGED <<kvars, cvars, packerVars, pathVars>>
     \/ /\ part = "paths" /\ Client!QNext
        /\ UNCHANGED <<kvars, nvars, cvars, packerVars>>

Spec == MCInit /\ [][MCNext]_allVars

---------------------------------------------------------------------------

\* Nothing that is to be sent is forgotten: what is queued in the framer, the
\* datagram queue or for retransmission is known to the loop and leaves, and
\* nobody waits for a place that is free (NothingStranded,
\* NobodySleepsForever).
NothingSleeps ==
  part = "packer" => Packing!NothingStranded /\ Packing!NobodySleepsForever

\* A client uses only paths that answered and are open (ActivePathOpen), and
\* Probe returns in spite of lost probes (ProbeReturns).  The application does
\* not call Probe on a path it has closed (ProbeClosed = FALSE): Probe would add
\* the path again, and the connection could switch to it.
PathsOpen ==
  part = "paths" => Client!ActivePathOpen /\ Client!ProbeReturns
=============================================================================
