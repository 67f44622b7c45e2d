------------------------------ MODULE MCLimits ------------------------------
(***************************************************************************)
(* What two ends allow each other, in parts that share nothing and so are  *)
(* checked one after the other: bytes (FlowControl), streams (StreamsMap), *)
(* all limits when they are remembered for 0-RTT (ZeroRTT), the size of    *)
(* packets (MtuDiscovery), and the connection IDs and paths of a server    *)
(* whose client migrates (Migration).  FlowControl and StreamsMap keep their *)
(* initial state while another part runs; the variables of the other parts *)
(* are then 0.                                                             *)
(***************************************************************************)
EXTENDS FlowControl, StreamsMap, TLC

CONSTANTS MaxConnections, MaxStreams, MaxCalls,
          maxLostMTUProbes, maxMTUDiff, Starts, Maxima, MaxRandomLosses, MaxResets,
          MaxActiveConnectionIDs, MaxIssuedConnectionIDs, Addrs, Home, maxPaths, MaxPackets,
          MaxMishaps

VARIABLES part,
          config, ticket, client, server, flight, made,
          finder, mtu, start, maximum, mtuProbes, random, resets, probed,
          manager, generator, pm, remote, largest, net, probes, new, ret, arrived, again, answered,
          proven, npn, packets, mishaps

Config(data, perStream, streams, cids, datagrams, resetAt, retry, allow) ==
    [limits |-> ("data" :> data) @@ ("stream" :> perStream) @@ ("streams" :> streams),
     MaxIdleTimeout |-> 5, ActiveConnectionIDLimit |-> cids, MaxDatagramFrameSize |-> datagrams,
     EnableResetStreamAt |-> resetAt, RetrySourceConnectionID |-> retry, Allow0RTT |-> allow]

\* A server is restarted with any of these: lower limits, no datagrams, no 0-RTT, a Retry.
ServerConfigs ==
    {Config(3, 2, 2, 2, 1, TRUE, FALSE, TRUE), Config(2, 1, 1, 2, -1, FALSE, FALSE, TRUE),
     Config(3, 2, 2, 2, 1, FALSE, TRUE, TRUE), Config(3, 2, 1, 2, 1, FALSE, TRUE, TRUE),
     Config(3, 2, 2, 3, 1, TRUE, FALSE, FALSE)}

Early == INSTANCE ZeroRTT WITH Configs <- ServerConfigs
Mtu == INSTANCE MtuDiscovery WITH f <- finder, probes <- mtuProbes
Move == INSTANCE Migration WITH m <- manager, g <- generator

earlyVars ==
    <<config, ticket, client, server, flight, made>>
mtuVars ==
    <<finder, mtu, start, maximum, mtuProbes, random, resets, probed>>
moveVars ==
    <<manager, generator, pm, remote, largest, net, probes, new, ret, arrived, again, answered,
      proven, npn, packets, mishaps>>
allVars == <<part, vars, smvars, earlyVars, mtuVars, moveVars>>

earlyOff ==
    config = 0 /\ ticket = 0 /\ client = 0 /\ server = 0 /\ flight = 0 /\ made = 0
mtuOff ==
    finder = 0 /\ mtu = 0 /\ start = 0 /\ maximum = 0 /\ mtuProbes = 0 /\ random = 0 /\ resets = 0
    /\ probed = 0
moveOff ==
    manager = 0 /\ generator = 0 /\ pm = 0 /\ remote = 0 /\ largest = 0 /\ net = 0 /\ probes = 0 /\
    new = 0 /\ ret = 0 /\ arrived = 0 /\ again = 0 /\ answered = 0 /\ proven = 0 /\ npn = 0 /\
    packets = 0 /\ mishaps = 0

MCInit ==
    /\ part \in {"bytes", "streams", "0-RTT", "mtu", "migration"}
    /\ Init /\ (part # "bytes" => phase = "early")
    /\ SMInit /\ (part # "streams" => state = "handshake")
    /\ IF part = "0-RTT" THEN Early!ZInit ELSE earlyOff
    /\ IF part = "mtu" THEN Mtu!TInit ELSE mtuOff
    /\ IF part = "migration" THEN Move!MInit ELSE moveOff

MCNext ==
    /\ UNCHANGED part
    /\ \/ part = "bytes" /\ Next /\ UNCHANGED <<smvars, earlyVars, mtuVars, moveVars>>
       \/ part = "streams" /\ SMNext /\ UNCHANGED <<vars, earlyVars, mtuVars, moveVars>>
       \/ part = "0-RTT" /\ Early!ZNext /\ UNCHANGED <<vars, smvars, mtuVars, moveVars>>
       \/ part = "mtu" /\ Mtu!TNext /\ UNCHANGED <<vars, smvars, earlyVars, moveVars>>
       \/ part = "migration" /\ Move!MNext /\ UNCHANGED <<vars, smvars, earlyVars, mtuVars>>

\* Streams, and the addresses the client moves to, are interchangeable.
Sym == Permutations(Streams) \cup Permutations(Addrs \ {Home})

MCSpec == MCInit /\ [][MCNext]_allVars

-----------------------------------------------------------------------------
\* Two ends running this code never close the connection on each other: whatever is reordered,
\* retransmitted or read meanwhile, no frame exceeds a window or contradicts a final size
\* (NoViolation), and the connection's controller counts what the streams' controllers count
\* (ConnTotals).  All of a stream gets across and is read in the end (AllRead).  A client that
\* remembers limits and uses them for 0-RTT keeps to those the server has now
\* (PeerLimitsRespected), and starts again when 0-RTT is rejected (RejectionForgets).
BytesArrive ==
    /\ part = "bytes" => NoViolation /\ ConnTotals /\ AllRead
    /\ part = "0-RTT" => Early!PeerLimitsRespected /\ Early!RejectionForgets

\* The packet size found fits the path and is close to what the path allows (MTUFound), and the
\* search ends (SearchEnds).
PacketsFitPath == part = "mtu" => Mtu!MTUFound /\ Mtu!SearchEnds

\* Every connection ID is used for one path (AllocatedOnce), and leads to the client's connection
\* (IDsRoutable).
IDsInUse == part = "migration" => Move!AllocatedOnce /\ Move!IDsRoutable

\* The server follows its client only to an address that was validated, and only because of the
\* newest packet.
FollowsClient == [][part = "migration" => Move!FollowsNewest]_allVars
=============================================================================
