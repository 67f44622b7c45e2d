-------------------------- MODULE MCObjectStreams --------------------------
(***************************************************************************)
(* An object stream on either side of the network: in the relay, read from a *)
(* publisher and piped to two subscribers (RelayForward), or in a publisher,  *)
(* written by its application and piped to one unidirectional stream         *)
(* (PubStream).  The program decides which when it creates the stream.       *)
(***************************************************************************)
EXTENDS RelayForward

CONSTANTS s1, s2, o1, o2

MCPipes == {s1, s2}
MCObject == {o1, o2}

VARIABLES side, app

Publisher == INSTANCE PubStream WITH writer <- s1

MCInit ==
    \/ side = "relay" /\ Init /\ app = "new"
    \/ /\ side = "publisher" /\ Publisher!Init
       /\ Subscribers = {} /\ prod = "forward" /\ spawned = {}

MCNext ==
    /\ UNCHANGED side
    /\ \/ side = "relay" /\ Next /\ UNCHANGED app
       \/ side = "publisher" /\ Publisher!Next /\ UNCHANGED prodVars

\* The fairness of RelayForward and PubStream, each on its side.
MCFairness ==
    /\ WF_vars(side = "relay" /\ ProcessObjects)
    /\ \A p \in Pipes : WF_vars(side = "relay" /\ Pipe(p))
    /\ WF_Publisher!vars(side = "publisher" /\ Publisher!NewStream)
    /\ WF_Publisher!vars(side = "publisher" /\ (Publisher!WgDone \/ Publisher!PipeStep))
    /\ WF_Publisher!vars(side = "publisher" /\ Publisher!CloseStream)

MCSpec == MCInit /\ [][MCNext]_<<vars, side, app>> /\ MCFairness

=============================================================================
