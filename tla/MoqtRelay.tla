----------------------------- MODULE MoqtRelay -----------------------------
(***************************************************************************)
(* The relay's subscription state: SessionManager (sessions, namespaces),  *)
(* one RelayHandler per session with its two StreamsMaps, and the           *)
(* RelayStreams that tie a publisher's subscription to its subscribers.     *)
(*                                                                         *)
(* Concurrency as in the code: every session has one ServeCS goroutine that *)
(* runs one control-message handler at a time; handlers of different        *)
(* sessions, the goroutines they start, the streams a publisher opens and    *)
(* the closing of sessions interleave.  A step is what happens between two   *)
(* accesses to shared state (one locked section, one map access).           *)
(*                                                                         *)
(* Object bytes are the business of RelayForward; here a forwarded group is *)
(* the header a subscriber gets for it.                                    *)
(***************************************************************************)
EXTENDS Integers, Sequences, FiniteSets

CONSTANTS
    Sessions,    \* sessions, one RelayHandler each; their setup is done
    Pubs, Subs,  \* those whose peer publishes, those whose peer subscribes
    Tracks,      \* (namespace, name) pairs: what Subscribe.GetStreamID tells apart
    Namespaces,
    NsOf,        \* NsOf[t]: the namespace of track t
    FreshTracks, \* tracks named .catalog or .mp4, never served from the cache
    SubIDs,      \* ids a subscriber picks for its subscriptions
    Casts,       \* bounds on what the peers do, one of which peers is
    MaxStreams,  \* bound on the RelayStreams ever created
    MaxGroups,   \* bound on the groups publishers open
    None

ASSUME RelayAssumption ==
    /\ Pubs \subseteq Sessions /\ Subs \subseteq Sessions
    /\ FreshTracks \subseteq Tracks
    /\ NsOf \in [Tracks -> Namespaces]
    /\ MaxStreams \in Nat /\ MaxGroups \in Nat
    /\ None \notin Sessions \cup Tracks \cup SubIDs \cup (1 .. MaxStreams)

\* RelayStreams, named by the id SendSubscribe draws for them.  The code draws 32
\* random bits; that two of a publisher's ids never collide is assumed.
Streams == 1 .. MaxStreams
Groups == 1 .. MaxGroups

VARIABLES
    peers,       \* .present: sessions that are there, .closers: those that may close,
                 \* .wants: <<s, i, t>> when s may ask for track t under id i; never changes
    namespaces,  \* SessionManager.namespaces
    alive,       \* sessions in SessionManager.sessions: open, closing or closed
    nstreams,    \* RelayStreams created so far
    rsPub,       \* rsPub[r]: the publisher whose IncomingStreams has r
    rsTrack,     \* RelayStream.StreamID
    rsSubs,      \* RelayStream.Subscribers
    subscribed,  \* subscribed[s]: SubscribedStreams.streams, a partial function id -> r
    cur,         \* cur[s]: the handler ServeCS is running
    closing,     \* closing[s]: the RelayStreams HandleClose has still to visit
    writes,      \* control messages handed to a goroutine and not yet written
    forwards,    \* ProcessMOQTStream goroutines that have not called WgDone
    ngroups,     \* groups opened so far
    crashed,     \* the runtime stopped the relay (concurrent map iteration and write)
    \* what the peers did and saw
    asked,       \* asked[s][i]: the track s's peer subscribed to under i, or None
    dropped,     \* dropped[s]: ids whose unsubscription the relay has handled
    requested,   \* requested[p]: the SUBSCRIBEs written to p
    accepted,    \* the RelayStreams whose publisher answered SUBSCRIBE_OK
    oks,         \* oks[s]: ids for which SUBSCRIBE_OK was written to s
    headers      \* <<s, i, g, t>>: s was sent group g of track t under id i

relayVars == <<namespaces, alive, nstreams, rsPub, rsTrack, rsSubs, subscribed>>
threadVars == <<cur, closing, writes, forwards, ngroups, crashed>>
peerVars == <<asked, dropped, requested, accepted, oks, headers>>
vars == <<relayVars, threadVars, peerVars>>

Idle == [pc |-> "idle"]

\* Some of the sessions are there; the others are over.
Init ==
    /\ namespaces = [n \in Namespaces |-> None]
    /\ peers \in Casts
    /\ alive = [s \in Sessions |-> IF s \in peers.present THEN "open" ELSE "closed"]
    /\ nstreams = 0
    /\ rsPub = [r \in Streams |-> None]
    /\ rsTrack = [r \in Streams |-> None]
    /\ rsSubs = [r \in Streams |-> {}]
    /\ subscribed = [s \in Sessions |-> [i \in SubIDs |-> None]]
    /\ cur = [s \in Sessions |-> Idle]
    /\ closing = [s \in Sessions |-> {}]
    /\ writes = {}
    /\ forwards = {}
    /\ ngroups = 0
    /\ crashed = FALSE
    /\ asked = [s \in Sessions |-> [i \in SubIDs |-> None]]
    /\ dropped = [s \in Sessions |-> {}]
    /\ requested = [s \in Sessions |-> {}]
    /\ accepted = {}
    /\ oks = [s \in Sessions |-> {}]
    /\ headers = {}

-----------------------------------------------------------------------------
(* StreamsMap.                                                             *)

\* IncomingStreams of p.
IncomingStreams(p) == {r \in 1 .. nstreams : rsPub[r] = p}

\* StreamIDGetStream: any entry with the stream id, the iteration order of a map.
StreamIDGetStream(p, t) == {r \in IncomingStreams(p) : rsTrack[r] = t}

\* Mutant: GetSubID does not compare stream ids.
GetSubIDAnyStream(s, t) == {i \in SubIDs : subscribed[s][i] # None}

\* GetSubID: any id whose entry has the stream id.
GetSubID(s, t) ==
    {i \in SubIDs : subscribed[s][i] # None /\ rsTrack[subscribed[s][i]] = t}

-----------------------------------------------------------------------------
(* ServeCS of session s takes the next message its peer has sent.  What a peer *)
(* sends does not depend on when the relay reads it, so a message is drawn    *)
(* when it is read: the peer announces (not twice in a row), subscribes under  *)
(* an id it has not used (ids are random), withdraws a subscription once,    *)
(* accepts one it was sent.                                                *)

Receive(s) == ~crashed /\ alive[s] = "open" /\ cur[s].pc = "idle"

Running(s, pc) == ~crashed /\ cur[s].pc = pc

Continue(s, c) == cur' = [cur EXCEPT ![s] = c]

\* HandleAnnounce, addPublisher: namespaces[ns] = pub under nslock.
HandleAnnounce(p, n) ==
    /\ Receive(p)
    /\ p \in Pubs
    /\ namespaces[n] # p
    /\ namespaces' = [namespaces EXCEPT ![n] = p]
    /\ Continue(p, [pc |-> "fanout", ns |-> n])
    /\ UNCHANGED <<alive, nstreams, rsPub, rsTrack, rsSubs, subscribed, closing, writes,
                   forwards, ngroups, crashed, peerVars>>

\* addPublisher, under sessionslock: one goroutine per session of a subscriber
\* or relay.  The ANNOUNCE_OK to p that follows changes nothing here.
AnnounceFanOut(p) ==
    /\ Running(p, "fanout")
    /\ writes' = writes \cup
          {[to |-> s, type |-> "announce", ns |-> cur[p].ns] :
              s \in {x \in Subs \ {p} : alive[x] # "closed"}}
    /\ Continue(p, Idle)
    /\ UNCHANGED <<relayVars, closing, forwards, ngroups, crashed, peerVars>>

\* HandleSubscribe up to getPublisher: no publisher, no answer.
HandleSubscribe(s, i, t) ==
    /\ Receive(s)
    /\ s \in Subs
    /\ asked[s][i] = None /\ <<s, i, t>> \in peers.wants
    /\ asked' = [asked EXCEPT ![s][i] = t]
    /\ LET pub == namespaces[NsOf[t]]
       IN  Continue(s, IF pub = None THEN Idle
                       ELSE [pc |-> "lookup", id |-> i, track |-> t, pub |-> pub])
    /\ UNCHANGED <<relayVars, closing, writes, forwards, ngroups, crashed,
                   dropped, requested, accepted, oks, headers>>

\* GetObjectStream finds a stream to share: go WriteControlMessage(SUBSCRIBE_OK).
GetObjectStreamCached(s) ==
    /\ Running(s, "lookup")
    /\ cur[s].track \notin FreshTracks
    /\ \E r \in StreamIDGetStream(cur[s].pub, cur[s].track) :
          Continue(s, [pc |-> "add", id |-> cur[s].id, track |-> cur[s].track, rs |-> r])
    /\ writes' = writes \cup {[to |-> s, type |-> "ok", id |-> cur[s].id]}
    /\ UNCHANGED <<relayVars, closing, forwards, ngroups, crashed, peerVars>>

\* GetObjectStream finds none, or must not share it.
GetObjectStreamFresh(s) ==
    /\ Running(s, "lookup")
    /\ \/ cur[s].track \in FreshTracks
       \/ StreamIDGetStream(cur[s].pub, cur[s].track) = {}
    /\ Continue(s, [cur[s] EXCEPT !.pc = "send"])
    /\ UNCHANGED <<relayVars, closing, writes, forwards, ngroups, crashed, peerVars>>

\* Mutant: SendSubscribe without IncomingStreams.AddStream.
SendSubscribeNoAdd(s) ==
    /\ Running(s, "send")
    /\ nstreams < MaxStreams
    /\ rsTrack' = [rsTrack EXCEPT ![nstreams + 1] = cur[s].track]
    /\ Continue(s, [pc |-> "add", id |-> cur[s].id, track |-> cur[s].track, rs |-> nstreams + 1])
    /\ UNCHANGED <<namespaces, alive, nstreams, rsPub, rsSubs, subscribed, closing, writes,
                   forwards, ngroups, crashed, peerVars>>

\* SendSubscribe: a new RelayStream in the publisher's IncomingStreams, and a
\* SUBSCRIBE to the publisher (lost when its session is gone).
SendSubscribe(s) ==
    /\ Running(s, "send")
    /\ nstreams < MaxStreams
    /\ LET r == nstreams + 1
           p == cur[s].pub
       IN  /\ nstreams' = r
           /\ rsPub' = [rsPub EXCEPT ![r] = p]
           /\ rsTrack' = [rsTrack EXCEPT ![r] = cur[s].track]
           /\ requested' = IF alive[p] = "open" THEN [requested EXCEPT ![p] = @ \cup {r}]
                           ELSE requested
           /\ Continue(s, [pc |-> "add", id |-> cur[s].id, track |-> cur[s].track, rs |-> r])
    /\ UNCHANGED <<namespaces, alive, rsSubs, subscribed, closing, writes, forwards,
                   ngroups, crashed, asked, dropped, accepted, oks, headers>>

\* ForwardStream holds SubscribersLock of r until every goroutine it started
\* has called WgDone.
Locked(r) == \E f \in forwards : f.rs = r

\* ForwardSubscribeOk of r is iterating over r's Subscribers without the lock.
Iterating(r) == \E p \in Sessions : cur[p].pc = "ok" /\ cur[p].rs = r

\* rs.AddSubscriber(subscriber).  Writing a map that another goroutine iterates
\* over may stop the process; otherwise the iteration may or may not see the entry.
AddSubscriber(s) ==
    /\ Running(s, "add")
    /\ ~Locked(cur[s].rs)
    /\ rsSubs' = [rsSubs EXCEPT ![cur[s].rs] = @ \cup {s}]
    /\ LET r == cur[s].rs
       IN  \E seen \in SUBSET {p \in Sessions : cur[p].pc = "ok" /\ cur[p].rs = r} :
              cur' = [p \in Sessions |->
                         IF p = s THEN [cur[s] EXCEPT !.pc = "register"]
                         ELSE IF p \in seen THEN [cur[p] EXCEPT !.todo = @ \cup {s}]
                         ELSE cur[p]]
    /\ crashed' \in {FALSE, Iterating(cur[s].rs)}
    /\ UNCHANGED <<namespaces, alive, nstreams, rsPub, rsTrack, subscribed, closing,
                   writes, forwards, ngroups, peerVars>>

\* Mutant: HandleSubscribe ends after AddSubscriber.
AddStreamForgotten(s) ==
    /\ Running(s, "register")
    /\ Continue(s, Idle)
    /\ UNCHANGED <<relayVars, closing, writes, forwards, ngroups, crashed, peerVars>>

\* SubscribedStreams.AddStream(msg.SubscribeID, rs): the last step of
\* HandleSubscribe.  HandleClose iterates over the same map without its lock.
AddStream(s) ==
    /\ Running(s, "register")
    /\ subscribed' = [subscribed EXCEPT ![s][cur[s].id] = cur[s].rs]
    /\ Continue(s, Idle)
    /\ \/ UNCHANGED closing
       \/ alive[s] = "closing" /\ closing' = [closing EXCEPT ![s] = @ \cup {cur[s].rs}]
    /\ crashed' \in {FALSE, alive[s] = "closing"}
    /\ UNCHANGED <<namespaces, alive, nstreams, rsPub, rsTrack, rsSubs, writes,
                   forwards, ngroups, peerVars>>

\* RemoveSubscriber: an iteration in ForwardSubscribeOk that has not reached the
\* entry does not reach it any more, or the process stops.
Without(s, r) ==
    [p \in Sessions |-> IF cur[p].pc = "ok" /\ cur[p].rs = r
                        THEN [cur[p] EXCEPT !.todo = @ \ {s}] ELSE cur[p]]

\* Mutant: HandleUnsubscribe leaves the handler in the stream's Subscribers.
HandleUnsubscribeIgnored(s, i) ==
    /\ Receive(s)
    /\ asked[s][i] # None
    /\ dropped' = [dropped EXCEPT ![s] = @ \cup {i}]
    /\ UNCHANGED <<relayVars, threadVars, asked, requested, accepted, oks, headers>>

\* HandleUnsubscribe: the entry of SubscribedStreams stays.
HandleUnsubscribe(s, i) ==
    /\ Receive(s)
    /\ asked[s][i] # None /\ i \notin dropped[s]
    /\ dropped' = [dropped EXCEPT ![s] = @ \cup {i}]
    /\ LET r == subscribed[s][i]
       IN  IF r = None
           THEN UNCHANGED <<rsSubs, cur, crashed>>
           ELSE /\ ~Locked(r)
                /\ rsSubs' = [rsSubs EXCEPT ![r] = @ \ {s}]
                /\ cur' = Without(s, r)
                /\ crashed' \in {FALSE, Iterating(r)}
    /\ UNCHANGED <<namespaces, alive, nstreams, rsPub, rsTrack, subscribed, closing, writes,
                   forwards, ngroups, asked, requested, accepted, oks, headers>>

\* The members of r whose HandleSubscribe is over.
Settled(r) == {s \in rsSubs[r] : cur[s].pc = "idle"}

\* HandleSubscribeOk: look up the RelayStream and start ForwardSubscribeOk.  .due
\* remembers who was settled then.
HandleSubscribeOk(p, r) ==
    /\ Receive(p)
    /\ r \in requested[p] \ accepted
    /\ accepted' = accepted \cup {r}
    /\ Continue(p, IF r \in IncomingStreams(p)
                   THEN [pc |-> "ok", rs |-> r, todo |-> rsSubs[r], due |-> Settled(r)]
                   ELSE Idle)
    /\ UNCHANGED <<relayVars, closing, writes, forwards, ngroups, crashed,
                   asked, dropped, requested, oks, headers>>

\* SendSubscribeOk to one subscriber: under any of its ids for the track; nothing
\* is sent when it has none, or when its session is closed.
SendSubscribeOk(p) ==
    /\ Running(p, "ok")
    /\ \E s \in cur[p].todo :
          /\ LET ids == GetSubID(s, rsTrack[cur[p].rs])
             IN  IF ids = {} \/ alive[s] # "open" THEN UNCHANGED oks
                 ELSE \E i \in ids : oks' = [oks EXCEPT ![s] = @ \cup {i}]
          /\ Continue(p, [cur[p] EXCEPT !.todo = @ \ {s}])
    /\ UNCHANGED <<relayVars, closing, writes, forwards, ngroups, crashed,
                   asked, dropped, requested, accepted, headers>>

\* Mutant: ForwardSubscribeOk stops early.
ForwardSubscribeOkStops(p) ==
    /\ Running(p, "ok")
    /\ Continue(p, Idle)
    /\ UNCHANGED <<relayVars, closing, writes, forwards, ngroups, crashed, peerVars>>

\* The iteration of ForwardSubscribeOk is over.
ForwardSubscribeOkReturns(p) ==
    /\ Running(p, "ok")
    /\ cur[p].todo = {}
    /\ Continue(p, Idle)
    /\ UNCHANGED <<relayVars, closing, writes, forwards, ngroups, crashed, peerVars>>

\* A message is handed to its handler.
Message(s) ==
    \/ \E n \in Namespaces : HandleAnnounce(s, n)
    \/ \E i \in SubIDs, t \in Tracks : HandleSubscribe(s, i, t)
    \/ \E i \in SubIDs : HandleUnsubscribe(s, i)
    \/ \E r \in Streams : HandleSubscribeOk(s, r)

\* The handler goes on.
ServeCS(s) ==
    \/ AnnounceFanOut(s)
    \/ GetObjectStreamCached(s) \/ GetObjectStreamFresh(s)
    \/ SendSubscribe(s) \/ AddSubscriber(s) \/ AddStream(s)
    \/ SendSubscribeOk(s) \/ ForwardSubscribeOkReturns(s)

-----------------------------------------------------------------------------
(* Goroutines started by handlers.                                         *)

\* WriteControlMessage of a goroutine; a closed session's stream refuses it.
WriteControlMessage(w) ==
    /\ ~crashed
    /\ w \in writes
    /\ writes' = writes \ {w}
    /\ oks' = IF alive[w.to] = "open" /\ w.type = "ok"
              THEN [oks EXCEPT ![w.to] = @ \cup {w.id}] ELSE oks
    /\ UNCHANGED <<relayVars, cur, closing, forwards, ngroups, crashed,
                   asked, dropped, requested, accepted, headers>>

\* DoHandle accepts a group of p under id r; ProcessObjects, ForwardStream: with
\* SubscribersLock held, one ProcessMOQTStream goroutine per subscriber.
ForwardStream(p) ==
    /\ ~crashed
    /\ alive[p] = "open"
    /\ ngroups < MaxGroups
    /\ \E r \in requested[p] :
          forwards' = forwards \cup {[rs |-> r, sub |-> s, group |-> ngroups + 1] : s \in rsSubs[r]}
    /\ ngroups' = ngroups + 1
    /\ UNCHANGED <<relayVars, cur, closing, writes, crashed, peerVars>>

\* Mutant: ProcessMOQTStream returns without WgDone when OpenUniStream fails.
ProcessMOQTStreamNoWgDone(f) ==
    /\ ~crashed
    /\ f \in forwards
    /\ alive[f.sub] = "open"
    /\ forwards' = forwards \ {f}
    /\ UNCHANGED <<relayVars, cur, closing, writes, ngroups, crashed, peerVars>>

\* ProcessMOQTStream up to WgDone: find an id, open a stream, write the header.
ProcessMOQTStream(f) ==
    /\ ~crashed
    /\ f \in forwards
    /\ forwards' = forwards \ {f}
    /\ LET ids == GetSubID(f.sub, rsTrack[f.rs])
       IN  IF ids = {} \/ alive[f.sub] # "open" THEN UNCHANGED headers
           ELSE \E i \in ids : headers' = headers \cup {<<f.sub, i, f.group, rsTrack[f.rs]>>}
    /\ UNCHANGED <<relayVars, cur, closing, writes, ngroups, crashed,
                   asked, dropped, requested, accepted, oks>>

-----------------------------------------------------------------------------
(* MOQTSession.Close, in the goroutine of handleControlStream.             *)

\* Mutant: Close without HandleClose.
CloseNoHandler(s) ==
    /\ ~crashed
    /\ alive[s] = "open" /\ s \in peers.closers
    /\ alive' = [alive EXCEPT ![s] = "closing"]
    /\ UNCHANGED <<namespaces, nstreams, rsPub, rsTrack, rsSubs, subscribed, threadVars, peerVars>>

\* CloseWithError, cancel; HandleClose starts to iterate over SubscribedStreams.
Close(s) ==
    /\ ~crashed
    /\ alive[s] = "open" /\ s \in peers.closers
    /\ alive' = [alive EXCEPT ![s] = "closing"]
    /\ closing' = [closing EXCEPT ![s] = {subscribed[s][i] : i \in SubIDs} \ {None}]
    /\ UNCHANGED <<namespaces, nstreams, rsPub, rsTrack, rsSubs, subscribed, cur, writes,
                   forwards, ngroups, crashed, peerVars>>

\* One rs.RemoveSubscriber of HandleClose.
HandleCloseRemove(s) ==
    /\ ~crashed
    /\ alive[s] = "closing"
    /\ \E r \in closing[s] :
          /\ ~Locked(r)
          /\ closing' = [closing EXCEPT ![s] = @ \ {r}]
          /\ rsSubs' = [rsSubs EXCEPT ![r] = @ \ {s}]
          /\ cur' = Without(s, r)
          /\ crashed' \in {FALSE, Iterating(r)}
    /\ UNCHANGED <<namespaces, alive, nstreams, rsPub, rsTrack, subscribed, writes,
                   forwards, ngroups, peerVars>>

\* removeSession.  The namespaces of the session keep pointing to its handler.
RemoveSession(s) ==
    /\ ~crashed
    /\ alive[s] = "closing" /\ closing[s] = {}
    /\ alive' = [alive EXCEPT ![s] = "closed"]
    /\ UNCHANGED <<namespaces, nstreams, rsPub, rsTrack, rsSubs, subscribed, threadVars, peerVars>>

-----------------------------------------------------------------------------
Closer(s) == HandleCloseRemove(s) \/ RemoveSession(s)

Goroutine == (\E w \in writes : WriteControlMessage(w)) \/ (\E f \in forwards : ProcessMOQTStream(f))

Next ==
    /\ UNCHANGED peers
    /\ \/ Goroutine
       \/ \E s \in Sessions : Message(s) \/ ServeCS(s) \/ ForwardStream(s) \/ Close(s) \/ Closer(s)

\* What the relay's goroutines do by themselves.
Scheduled == Goroutine \/ \E s \in Sessions : ServeCS(s) \/ Closer(s)

Spec == Init /\ [][Next]_<<peers, vars>>

-----------------------------------------------------------------------------
Handlers ==
    [pc : {"idle"}]
        \cup [pc : {"fanout"}, ns : Namespaces]
        \cup [pc : {"lookup", "send"}, id : SubIDs, track : Tracks, pub : Sessions]
        \cup [pc : {"add", "register"}, id : SubIDs, track : Tracks, rs : Streams]
        \cup [pc : {"ok"}, rs : Streams, todo : SUBSET Sessions, due : SUBSET Sessions]

\* Every map holds what the code can put into it: a registered subscription is
\* one of the RelayStreams created so far, and only those have a publisher, a
\* stream id and subscribers.
TypeOK ==
    /\ namespaces \in [Namespaces -> Sessions \cup {None}]
    /\ alive \in [Sessions -> {"open", "closing", "closed"}]
    /\ nstreams \in 0 .. MaxStreams
    /\ rsPub \in [Streams -> Sessions \cup {None}]
    /\ rsTrack \in [Streams -> Tracks \cup {None}]
    /\ rsSubs \in [Streams -> SUBSET Sessions]
    /\ \A r \in Streams : r > nstreams => rsPub[r] = None /\ rsTrack[r] = None /\ rsSubs[r] = {}
    /\ subscribed \in [Sessions -> [SubIDs -> Streams \cup {None}]]
    /\ cur \in [Sessions -> Handlers]
    /\ closing \in [Sessions -> SUBSET Streams]
    /\ writes \subseteq [to : Sessions, type : {"announce"}, ns : Namespaces]
                        \cup [to : Sessions, type : {"ok"}, id : SubIDs]
    /\ forwards \subseteq [rs : Streams, sub : Sessions, group : Groups]
    /\ ngroups \in 0 .. MaxGroups
    /\ crashed \in BOOLEAN
    /\ asked \in [Sessions -> [SubIDs -> Tracks \cup {None}]]
    /\ dropped \in [Sessions -> SUBSET SubIDs]
    /\ requested \in [Sessions -> SUBSET Streams]
    /\ accepted \subseteq Streams
    /\ oks \in [Sessions -> SUBSET SubIDs]
    /\ headers \subseteq Sessions \X SubIDs \X Groups \X Tracks

\* HandleSubscribe adds the handler to RelayStream.Subscribers before it enters
\* the stream in SubscribedStreams.  A member without an entry (for which
\* ProcessMOQTStream and SendSubscribeOk find no id and drop the group or the
\* answer) is therefore always in between those two steps, on that stream.
MembershipRegistered ==
    \A r \in Streams : \A s \in rsSubs[r] :
        \/ \E i \in SubIDs : subscribed[s][i] = r
        \/ cur[s].pc = "register" /\ cur[s].rs = r

\* A RelayStream forwards only to sessions whose peer asked for its track and has
\* not withdrawn: a handler is in Subscribers only while some subscription of its
\* peer to that track has not been through HandleUnsubscribe.
MembersWantTrack ==
    \A r \in Streams : \A s \in rsSubs[r] :
        \E i \in SubIDs \ dropped[s] : asked[s][i] = rsTrack[r]

\* Whatever the order of subscriptions, shared streams and lookups by stream id,
\* a group is sent under an id that the receiver chose for that very track, and a
\* SUBSCRIBE_OK answers a subscription the peer made, for whose track the relay
\* has a RelayStream.
RoutedToAsked ==
    /\ \A h \in headers : asked[h[1]][h[2]] = h[4]
    /\ \A s \in Sessions : \A i \in oks[s] :
          asked[s][i] # None /\ \E r \in 1 .. nstreams : rsTrack[r] = asked[s][i]

\* MOQTSession.Close takes the handler out of every RelayStream but at most one:
\* the one of the SUBSCRIBE that ServeCS was handling when HandleClose ran.
ClosedLeaksAtMostOne ==
    \A s \in Sessions :
        alive[s] = "closed" =>
            \A q, r \in Streams : s \in rsSubs[q] /\ s \in rsSubs[r] => q = r

\* Who is a member of a RelayStream: nobody but sessions that asked for its track, have or are
\* about to have an id for it, did not withdraw, and (but for one stream) did not close.
MembersConsistent ==
    TypeOK /\ MembershipRegistered /\ MembersWantTrack /\ ClosedLeaksAtMostOne

\* Control-message handlers return: the goroutines' own steps come to an end (each of them
\* uses up a message, a member or a write), and they end with every handler returned.  The
\* locks that ForwardStream holds while it waits for its goroutines never block one for good.
HandlersReturn ==
    crashed \/ ENABLED Scheduled \/ \A s \in Sessions : cur[s].pc = "idle"

\* A subscriber whose HandleSubscribe was over when the publisher's SUBSCRIBE_OK arrived has
\* been sent one for its track when ForwardSubscribeOk returns, unless it withdrew or closed,
\* whatever was added to and taken from the map while it was iterated over.
RegisteredIsAnswered ==
    [][\A p \in Pubs : cur[p].pc = "ok" /\ cur'[p].pc = "idle" =>
          \A s \in cur[p].due :
              \/ \E i \in oks[s] : asked[s][i] = rsTrack[cur[p].rs]
              \/ dropped[s] # {} \/ alive[s] # "open"]_vars
=============================================================================
