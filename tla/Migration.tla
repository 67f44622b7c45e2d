----------------------------- MODULE Migration -----------------------------
(***************************************************************************)
(* A client that changes its address, and the server that follows it       *)
(* (path_manager.go, the end of handleShortHeaderPacket in connection.go). *)
(* The server probes new addresses with connection IDs that the client     *)
(* issued: the connection ID manager is the server's, the generator the    *)
(* client's.  Packets may stay under way for ever; control frames arrive   *)
(* in any order and, when they were thought to be lost, twice.             *)
(*                                                                         *)
(* Connection IDs: the ones a peer gave us (conn_id_manager.go, record m)  *)
(* and the ones we gave the peer (conn_id_generator.go, record g).  An ID  *)
(* is its sequence number, and so is its stateless reset token: an honest  *)
(* peer never gives one number two IDs.  The initial destination ID that a *)
(* client makes up is -1.                                                  *)
(***************************************************************************)
EXTENDS Integers, Sequences, FiniteSets, FiniteSetsExt, SequencesExt

CONSTANTS MaxActiveConnectionIDs, MaxIssuedConnectionIDs

CONSTANTS Addrs,      \* addresses of the client; Home is the one of the handshake
          Home, maxPaths,
          MaxPackets, \* packets the client sends
          MaxMishaps  \* lost probes, timeouts, duplicates, retirements by the client

MadeUp == -1
NoPaths == [p \in {} |-> 0]

newConnIDManager ==
  [queue |-> <<>>, highestProbingID |-> 0, pathProbing |-> NoPaths,
   handshakeComplete |-> FALSE, active |-> 0, highestRetired |-> 0, token |-> FALSE,
   due |-> FALSE,      \* packetsSinceLastChange >= packetsPerConnectionID
   tokens |-> {},      \* stateless reset tokens registered with the transport
   retire |-> {},      \* RETIRE_CONNECTION_ID frames queued
   closed |-> FALSE, err |-> "nil"]

RetireFrames(m, ids) == [m EXCEPT !.retire = @ \cup ids]
Use(m) == IF m.closed THEN [m EXCEPT !.err = "panic"] ELSE m

updateConnectionID(m) ==
  LET front == Head(m.queue)
  IN  [Use(RetireFrames(m, {m.active})) EXCEPT
         !.highestRetired = Max({@, m.active}),
         !.tokens = (IF m.token THEN @ \ {m.active} ELSE @) \cup {front},
         !.queue = Tail(@), !.active = front, !.token = TRUE, !.due = FALSE]

\* Kept sorted; a number that is in the queue is not added again.
addConnectionID(queue, seq) ==
  LET below == SelectSeq(queue, LAMBDA q : q < seq)
      above == SelectSeq(queue, LAMBDA q : q >= seq)
  IN  IF seq \in ToSet(queue) THEN queue ELSE below \o <<seq>> \o above

\* Drop from a function on paths the ones in P.
Except(f, P) == [p \in DOMAIN f \ P |-> f[p]]

RetirePaths(m, prior) ==
  LET gone == {p \in DOMAIN m.pathProbing : m.pathProbing[p] < prior}
      ids == {m.pathProbing[p] : p \in gone}
  IN  [RetireFrames(m, ids) EXCEPT !.tokens = @ \ ids, !.pathProbing = Except(@, gone)]

\* A NEW_CONNECTION_ID frame.
add(m, seq, retirePriorTo) ==
  LET paths == RetirePaths(m, retirePriorTo)
      old == {q \in ToSet(m.queue) : q < retirePriorTo}
      pruned == IF retirePriorTo <= m.highestRetired THEN paths
                ELSE [RetireFrames(paths, old) EXCEPT
                        !.queue = SelectSeq(@, LAMBDA q : q >= retirePriorTo),
                        !.highestRetired = retirePriorTo]
      added == [pruned EXCEPT !.queue = addConnectionID(@, seq)]
  IN  IF seq < Max({m.active, m.highestProbingID, m.highestRetired})
      THEN RetireFrames(m, {seq})
      ELSE IF seq = m.active THEN pruned
      ELSE IF m.active < retirePriorTo THEN updateConnectionID(added) ELSE added

AddID(m, seq, retirePriorTo) ==
  LET n == add(m, seq, retirePriorTo)
  IN  IF Len(n.queue) >= MaxActiveConnectionIDs THEN [n EXCEPT !.err = "limit"] ELSE n

SetHandshakeComplete(m) == [m EXCEPT !.handshakeComplete = TRUE]

shouldUpdateConnID(m) ==
  /\ m.handshakeComplete
  /\ \/ m.queue # <<>> /\ m.active = 0
     \/ 2 * Len(m.queue) >= MaxActiveConnectionIDs /\ m.due

\* Get, called for every packet; the ID to use is then active.
Get(m) == IF shouldUpdateConnID(m) THEN updateConnectionID(Use(m)) ELSE Use(m)

HasIDFor(m, path) == path \in DOMAIN m.pathProbing \/ m.queue # <<>>

\* MUTANT: the ID stays in the queue.
GetConnIDForPath_bug(m, path) ==
  LET front == Head(m.queue)
  IN  IF path \in DOMAIN m.pathProbing \/ m.queue = <<>> THEN Use(m)
      ELSE [Use(m) EXCEPT !.highestProbingID = front, !.tokens = @ \cup {front},
              !.pathProbing = [p \in DOMAIN @ \cup {path} |-> IF p = path THEN front ELSE @[p]]]

GetConnIDForPath(m, path) ==
  LET front == Head(m.queue)
  IN  IF path \in DOMAIN m.pathProbing \/ m.queue = <<>> THEN Use(m)
      ELSE [Use(m) EXCEPT !.queue = Tail(@), !.highestProbingID = front,
              !.tokens = @ \cup {front},
              !.pathProbing = [p \in DOMAIN @ \cup {path} |-> IF p = path THEN front ELSE @[p]]]

RetireConnIDForPath(m, path) ==
  IF path \notin DOMAIN m.pathProbing THEN Use(m)
  ELSE [RetireFrames(Use(m), {m.pathProbing[path]}) EXCEPT
          !.tokens = @ \ {m.pathProbing[path]}, !.pathProbing = Except(@, {path})]

\* MUTANT: the tokens of probed paths are forgotten.
CloseManager_bug(m) ==
  [m EXCEPT !.closed = TRUE, !.tokens = IF m.token THEN @ \ {m.active} ELSE @]

CloseManager(m) ==
  [m EXCEPT !.closed = TRUE,
            !.tokens = (IF m.token THEN @ \ {m.active} ELSE @)
                       \ {m.pathProbing[p] : p \in DOMAIN m.pathProbing}]

---------------------------------------------------------------------------
\* The IDs given out; g.runners maps a transport to the IDs that lead to this
\* connection there.
newConnIDGenerator(isServer, transport) ==
  [highestSeq |-> 0, active |-> {0}, toRetire |-> <<>>, madeUp |-> isServer,
   runners |-> [t \in {transport} |-> {0} \cup (IF isServer THEN {MadeUp} ELSE {})],
   frames |-> {},  \* NEW_CONNECTION_ID frames queued
   err |-> "nil"]

issueNewConnID(g) ==
  LET seq == g.highestSeq + 1
  IN  [g EXCEPT !.highestSeq = seq, !.active = @ \cup {seq}, !.frames = @ \cup {seq},
                !.runners = [t \in DOMAIN @ |-> @[t] \cup {seq}]]

SetMaxActiveConnIDs(g, limit) ==
  LET n == Max({0, Min({limit, MaxIssuedConnectionIDs}) - Cardinality(g.active)})
  IN  FoldSeq(LAMBDA i, acc : issueNewConnID(acc), g, [i \in 1 .. n |-> i])

\* Every expiry is the same time away, so that the list is in order of arrival.
queueConnIDForRetiring(g, id) == [g EXCEPT !.toRetire = Append(@, id)]

\* A RETIRE_CONNECTION_ID frame for seq in a packet sent to the ID sentWith.
Retire(g, seq, sentWith) ==
  LET gone == [queueConnIDForRetiring(g, seq) EXCEPT !.active = @ \ {seq}]
  IN  IF seq > g.highestSeq THEN [g EXCEPT !.err = "unissued"]
      ELSE IF seq \notin g.active THEN g
      ELSE IF seq = sentWith THEN [g EXCEPT !.err = "own"]
      ELSE IF seq = 0 THEN gone ELSE issueNewConnID(gone)

GeneratorHandshakeComplete(g) ==
  IF g.madeUp THEN [queueConnIDForRetiring(g, MadeUp) EXCEPT !.madeUp = FALSE] ELSE g

\* The first n are due.
RemoveRetiredConnIDs(g, n) ==
  LET due == ToSet(SubSeq(g.toRetire, 1, n))
  IN  [g EXCEPT !.runners = [t \in DOMAIN @ |-> @[t] \ due],
                !.toRetire = SubSeq(@, n + 1, Len(@))]

-----------------------------------------------------------------------------
VARIABLES m, g,       \* the server's manager, the client's generator
          pm,         \* the server's pathManager
          remote,     \* the server's address for the client
          largest,    \* largestRcvdAppData
          net,        \* packets to the server
          probes,     \* path probe packets of the server under way
          new,        \* NEW_CONNECTION_ID frames under way: <<seq, retirePriorTo>>
          ret,        \* RETIRE_CONNECTION_ID frames under way: <<seq, sentWith>>
          arrived,    \* NEW_CONNECTION_ID frames that were delivered
          again,      \* IDs whose frame was sent again after it had been delivered
          answered,   \* challenges the client has received, with the address
          proven,     \* addresses from which a challenge's answer was received
          npn, packets, mishaps

ids == <<m, g, new, ret, arrived, again>>
paths == <<pm, remote, largest, net, probes, answered, proven, npn, packets>>
mvars == <<ids, paths, mishaps>>

\* A connection after the handshake; the client has issued its IDs.
MInit ==
  /\ g = [GeneratorHandshakeComplete(SetMaxActiveConnIDs(newConnIDGenerator(FALSE, "udp"),
                                       MaxActiveConnectionIDs)) EXCEPT !.frames = {}]
  /\ m = SetHandshakeComplete(newConnIDManager)
  /\ new = {<<s, 0>> : s \in 1 .. g.highestSeq} /\ ret = {} /\ arrived = {} /\ again = {}
  /\ pm = [paths |-> <<>>, nextPathID |-> 0] /\ remote = Home /\ largest = -1
  /\ net = {} /\ probes = {} /\ answered = {} /\ proven = {} /\ npn = 0
  /\ packets = MaxPackets /\ mishaps = MaxMishaps

Spend == mishaps > 0 /\ mishaps' = mishaps - 1

---------------------------------------------------------------------------
(* Connection IDs                                                          *)

\* The frames that an update of the manager queued leave with the next packet,
\* which is sent to the ID active then.
Flush(n) ==
  LET sent == Get(n)
  IN  /\ m' = [sent EXCEPT !.retire = {}]
      /\ ret' = ret \cup {<<s, sent.active>> : s \in sent.retire}

Issued(h) ==
  /\ g' = [h EXCEPT !.frames = {}]
  /\ new' = new \cup {<<s, 0>> : s \in h.frames}

DeliverNew(f) ==
  /\ f \in new /\ m.err = "nil"
  /\ new' = new \ {f} /\ arrived' = arrived \cup {f}
  /\ Flush(AddID(m, f[1], f[2]))
  /\ UNCHANGED <<g, again, paths, mishaps>>

\* The ACK was late: the frame was sent again.
Duplicate(f) ==
  /\ f \in arrived /\ Spend
  /\ new' = new \cup {f} /\ again' = again \cup {f[1]}
  /\ UNCHANGED <<m, g, ret, arrived, paths>>

\* The ID expires three PTOs later; here at once, which is the worst case.
DeliverRetire(f) ==
  /\ f \in ret /\ g.err = "nil"
  /\ ret' = ret \ {f}
  /\ LET h == Retire(g, f[1], f[2]) IN Issued(RemoveRetiredConnIDs(h, Len(h.toRetire)))
  /\ UNCHANGED <<m, arrived, again, paths, mishaps>>

\* A peer may ask for IDs back (this implementation does not): of a new frame,
\* all before it are to be retired.
RetirePrior ==
  /\ Spend
  /\ LET h == issueNewConnID(g) IN
       /\ g' = [h EXCEPT !.frames = {}]
       /\ new' = new \cup {<<h.highestSeq, h.highestSeq>>}
  /\ UNCHANGED <<m, ret, arrived, again, paths>>

---------------------------------------------------------------------------
(* Paths                                                                   *)

\* The client sends from any address: data, or a probe, or the answers to the
\* challenges that it received there.
ClientSend(a) ==
  /\ packets > 0 /\ packets' = packets - 1
  /\ \E ch \in BOOLEAN :
       net' = net \cup {[pn |-> npn, addr |-> a, np |-> ~ch, ch |-> ch,
                         resp |-> {c[1] : c \in {d \in answered : d[2] = a}}]}
  /\ npn' = npn + 1
  /\ UNCHANGED <<ids, pm, remote, largest, probes, answered, proven, mishaps>>

ClientReceive(c) ==
  /\ c \in probes
  /\ probes' = probes \ {c} /\ answered' = answered \cup {c}
  /\ UNCHANGED <<ids, pm, remote, largest, net, proven, npn, packets, mishaps>>

IndexOf(ps, a) == {i \in DOMAIN ps : ps[i].addr = a}

HandlePathResponseFrame(q, resp) ==
  [q EXCEPT !.paths = [i \in DOMAIN q.paths |->
     [q.paths[i] EXCEPT !.validated = @ \/ q.paths[i].id \in resp]]]

\* HandlePacket: [pm, m, challenge to send (or none), switch].
HandlePacket(q, n, a, ch, np) ==
  LET at == IndexOf(q.paths, a)
      i == CHOOSE j \in at : TRUE
      p == [q.paths[i] EXCEPT !.fresh = TRUE, !.nonProbing = @ \/ np]
      known == at # {}
      moved == IF known THEN Append(RemoveAt(q.paths, i), p) ELSE q.paths
      switch == known /\ p.validated /\ p.nonProbing
      evict == Len(moved) >= maxPaths
      room == IF evict THEN Tail(moved) ELSE moved
      m1 == IF evict THEN RetireConnIDForPath(n, Head(moved).id) ELSE n
      id == IF known THEN p.id ELSE q.nextPathID
      fresh == [id |-> q.nextPathID, addr |-> a, fresh |-> TRUE, nonProbing |-> np, validated |-> FALSE]
      result(ps, next, k, c) ==
        [pm |-> [paths |-> ps, nextPathID |-> next], m |-> k, challenge |-> c, switch |-> switch]
  IN  IF known /\ ~ch THEN result(moved, q.nextPathID, n, {})
      ELSE IF evict /\ Head(moved).fresh THEN result(moved, q.nextPathID, n, {})
      ELSE IF ~HasIDFor(m1, id) THEN result(room, q.nextPathID, m1, {})
      ELSE IF known THEN result(room, q.nextPathID, GetConnIDForPath(m1, id), {})
      ELSE result(Append(room, fresh), q.nextPathID + 1, GetConnIDForPath(m1, id), {id})

SwitchToPath(q, n, a) ==
  FoldLeft(LAMBDA acc, p : IF p.addr = a THEN acc ELSE RetireConnIDForPath(acc, p.id), n, q.paths)

\* MUTANT: the highest-numbered packet is not asked for.
MaySwitch_bug(r, p) == r.switch

MaySwitch(r, p) == r.switch /\ p.pn >= largest

\* handleShortHeaderPacket at the server, for a packet not seen before.
ServerReceive(p) ==
  LET seen == HandlePathResponseFrame(pm, p.resp)
      r == HandlePacket(seen, m, p.addr, p.ch, p.np)
  IN  /\ p \in net /\ m.err = "nil" /\ ~m.closed
      /\ net' = net \ {p}
      /\ largest' = Max({largest, p.pn})
      /\ proven' = proven \cup (IF \E c \in answered : c[1] \in p.resp THEN {p.addr} ELSE {})
      /\ IF p.addr = remote
         THEN pm' = seen /\ Flush(m) /\ UNCHANGED <<remote, probes>>
         ELSE IF MaySwitch(r, p)
         THEN /\ pm' = [r.pm EXCEPT !.paths = <<>>] /\ remote' = p.addr
              /\ Flush(SwitchToPath(r.pm, r.m, p.addr))
              /\ probes' = probes \cup {<<c, p.addr>> : c \in r.challenge}
         ELSE /\ pm' = r.pm /\ Flush(r.m) /\ UNCHANGED remote
              /\ probes' = probes \cup {<<c, p.addr>> : c \in r.challenge}
      /\ UNCHANGED <<g, new, arrived, again, answered, npn, packets, mishaps>>

\* A path probe packet is lost, or thought to be (OnLost).
ProbeLost(p) ==
  LET i == CHOOSE j \in DOMAIN pm.paths : pm.paths[j] = p
  IN  /\ Spend
      /\ pm' = [pm EXCEPT !.paths = RemoveAt(@, i)]
      /\ Flush(RetireConnIDForPath(m, p.id))
      /\ UNCHANGED <<g, new, arrived, again, remote, largest, net, probes, answered, proven, npn, packets>>

\* pathTimeout passes without packets.
PathTimeout ==
  /\ Spend
  /\ pm' = [pm EXCEPT !.paths = [i \in DOMAIN @ |-> [@[i] EXCEPT !.fresh = FALSE]]]
  /\ UNCHANGED <<ids, remote, largest, net, probes, answered, proven, npn, packets>>

ServerClose ==
  /\ ~m.closed /\ Spend
  /\ m' = CloseManager(m)
  /\ net' = {}
  /\ UNCHANGED <<g, new, ret, arrived, again, pm, remote, largest, probes, answered, proven, npn, packets>>

MNext ==
  \/ \E f \in new : ~m.closed /\ DeliverNew(f)
  \/ \E f \in arrived : Duplicate(f)
  \/ \E f \in ret : DeliverRetire(f)
  \/ \E a \in Addrs : ClientSend(a)
  \/ \E c \in probes : ClientReceive(c)
  \/ \E p \in net : ServerReceive(p)
  \/ \E i \in DOMAIN pm.paths : ~m.closed /\ ProbeLost(pm.paths[i])
  \/ RetirePrior \/ PathTimeout \/ ServerClose

---------------------------------------------------------------------------
Probing == {m.pathProbing[p] : p \in DOMAIN m.pathProbing}
Held == {m.active} \cup Probing \cup ToSet(m.queue)

Uses(id) ==
  (IF m.active = id THEN 1 ELSE 0) + Cardinality({p \in DOMAIN m.pathProbing : m.pathProbing[p] = id})
    + Cardinality({i \in DOMAIN m.queue : m.queue[i] = id})

\* "Once a connection ID is allocated for a path, it cannot be used for a
\* different path": the active ID, the IDs of the paths and the unused ones are
\* all different, and none of them has been retired.  The exception are IDs whose
\* frame was delivered again: the manager compares the number with the highest it
\* gave to a path, which it takes for new, and queues that ID a second time.
AllocatedOnce ==
  \A id \in Held \ again : Uses(id) = 1 /\ id \notin {f[1] : f \in ret}

\* What the server may send to leads to the client's connection: every ID it
\* uses or holds is still registered there, and neither side ever accuses the
\* other of breaking the rules, with the same exception: the frame of the active
\* ID, delivered again after a later ID was given to a path, makes the manager
\* retire the active ID in a packet that is sent to it, which the generator takes
\* for a PROTOCOL_VIOLATION.  The stateless reset tokens the server's transport
\* knows are those of the IDs in use, and none once it has closed.
IDsRoutable ==
  /\ again = {} => m.err = "nil" /\ g.err = "nil"
  /\ Held \ again \subseteq g.runners["udp"]
  /\ m.tokens \ again = IF m.closed THEN {} ELSE (Probing \cup ({m.active} \ {0})) \ again

\* The server moves only to an address that answered a challenge sent to it, and
\* only after the newest packet: never because of one that is older than a packet
\* it has received.
FollowsNewest ==
  remote' # remote =>
    /\ remote' \in proven'
    /\ \E p \in net : p.addr = remote' /\ p.pn >= largest
=============================================================================
