----------------------------- MODULE MCEndpoint -----------------------------
(***************************************************************************)
(* What stands around connections, in parts that share nothing and so are  *)
(* checked one after the other: the transport and the server that share a  *)
(* socket (Endpoint), the HTTP/3 client and server that own connections    *)
(* (Http3), and one HTTP message (Http3Message).  The variables of a part  *)
(* that does not run are 0.                                                *)
(***************************************************************************)
EXTENDS Integers, TLC

CONSTANTS Clients, MaxConns, MaxServerUnprocessedPackets, MaxAcceptQueueSize, Max0RTTQueueLen,
          Max0RTTQueues, MaxRejects,
          Reqs, MaxEvents,
          ChunkSizes, MaxCalls, maxSmallResponseSize, max1xxResponses

VARIABLES part,
          use, tr, srv, conns, newConn, closer, accepting, dialing, budget,
          pool, cls, reqs, handled, sv, events,
          msg, w, wire, rd, accepted, calls

Use(flags, packets, n) ==
  [single |-> "single" \in flags, listens |-> "listens" \in flags, dials |-> "dials" \in flags,
   early |-> "early" \in flags, verify |-> "verify" \in flags, packets |-> packets, events |-> n]

\* quic.ListenEarly, quic.Dial, a Transport that listens and dials, and one that asks for a Retry.
TransportUses ==
  {Use({"single", "listens", "early"}, 2, 1), Use({"single", "dials"}, 2, 2),
   Use({"listens", "dials"}, 1, 1), Use({"listens", "verify"}, 2, 1)}

\* Content-Length: none, none of a body, below and at maxSmallResponseSize.
HttpMessages ==
  [kind : {"request", "response"}, cl : {-1, 0, 2, 3}, trailer : BOOLEAN]
    \cup [kind : {"head"}, cl : {-1, 2}, trailer : {FALSE}]

Transport == INSTANCE Endpoint WITH Uses <- TransportUses
Http == INSTANCE Http3
Body == INSTANCE Http3Message WITH Messages <- HttpMessages

endpVars == <<use, tr, srv, conns, newConn, closer, accepting, dialing, budget>>
httpVars == <<pool, cls, reqs, handled, sv, events>>
bodyVars == <<msg, w, wire, rd, accepted, calls>>
allVars == <<part, endpVars, httpVars, bodyVars>>

endpOff ==
  use = 0 /\ tr = 0 /\ srv = 0 /\ conns = 0 /\ newConn = 0 /\ closer = 0 /\ accepting = 0 /\ dialing
  = 0 /\ budget = 0
httpOff ==
  pool = 0 /\ cls = 0 /\ reqs = 0 /\ handled = 0 /\ sv = 0 /\ events = 0
bodyOff ==
  msg = 0 /\ w = 0 /\ wire = 0 /\ rd = 0 /\ accepted = 0 /\ calls = 0

MCInit ==
  /\ part \in {"transport", "http", "message"}
  /\ IF part = "transport" THEN Transport!EInit ELSE endpOff
  /\ IF part = "http" THEN Http!HInit ELSE httpOff
  /\ IF part = "message" THEN Body!BInit ELSE bodyOff

MCNext ==
  /\ UNCHANGED part
  /\ \/ part = "transport" /\ Transport!ENext /\ UNCHANGED <<httpVars, bodyVars>>
     \/ part = "http" /\ Http!HNext /\ UNCHANGED <<endpVars, bodyVars>>
     \/ part = "message" /\ Body!BNext /\ UNCHANGED <<endpVars, httpVars>>

\* Requests are interchangeable.
Sym == Permutations(Reqs)

Spec == MCInit /\ [][MCNext]_allVars

---------------------------------------------------------------------------

\* No connection and no packet is forgotten in the server's queues: a connection is waiting to be
\* accepted, was accepted, or was closed (NoConnLost), and the 0-RTT packets of a client that is
\* served are given to its connection or dropped with their queue (NoStrandedZeroRTT).
NothingForgotten ==
  part = "transport" => Transport!NoConnLost /\ Transport!NoStrandedZeroRTT

\* Close, Accept, Dial, Shutdown and RoundTrip return, whoever closes what and in whatever order:
\* of the transport and the server (ClosesReturn, CloseTerminates), and of HTTP/3, where Shutdown
\* waits for the requests it has taken (ShutdownWaits) and every request ends (RequestsReturn).
CallsEnd ==
  /\ part = "transport" => Transport!ClosesReturn /\ Transport!CloseTerminates
  /\ part = "http" => Http!ShutdownWaits /\ Http!RequestsReturn

\* A request that is retried on another connection is handled once (AtMostOnce), a graceful
\* shutdown does not cut requests off (GracefulForRequests), and the transport closes only
\* connections that nobody uses (IdleMeansUnused).
RequestsServed ==
  part = "http" => Http!AtMostOnce /\ Http!GracefulForRequests /\ Http!IdleMeansUnused

\* A body arrives as it was written, up to what the headers said (BodyFaithful), and the writers
\* keep to the Content-Length they announce (WritersKeepContentLength).
BodiesArrive ==
  part = "message" => Body!BodyFaithful /\ Body!WritersKeepContentLength
=============================================================================
