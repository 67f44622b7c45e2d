---------------------------- MODULE MoqtClients -----------------------------
(***************************************************************************)
(* A publisher and a subscriber, as the library runs them on behalf of the *)
(* programs of examples/pub and examples/sub: PubHandler and SubHandler    *)
(* with the goroutine that serves the control stream (moqt/pubhandler.go,  *)
(* subhandler.go, controlstream.go), the goroutines that pass PubStreams,  *)
(* SubStreams and announcements to the application's callbacks over        *)
(* unbuffered channels (api/pub.go, api/sub.go), and the callbacks.  Both  *)
(* sessions have done their handshake; the relay between them is ideal     *)
(* (MoqtRelay models the real one), and every subscription has a track of  *)
(* its own.                                                                *)
(***************************************************************************)
EXTENDS Integers, Sequences, FiniteSets

CONSTANTS
    MainSub,    \* the subscription that the subscriber's main asks for
    HeardSub,   \* the one that it asks for when it hears the announcement
    MaxGroups,  \* bound: groups published per subscription
    MaxUni      \* streams the subscriber lets its peer have open

Subscriptions == {MainSub, HeardSub}
Reading == "reading"       \* ServeCS waits for a message
Announcing == "announce"   \* ServeCS is blocked in HandleAnnounce
Msg(type, s) == [type |-> type, sub |-> s]

VARIABLES
    pub,    \* the publisher: its main, AnnouncedStreams, its ServeCS, its PubStreams
    sub,    \* the subscriber: its main, its callbacks, its ServeCS
    subscribing, \* per subscription: where Subscribe is
    toPub, toSub, \* control messages on their way, through the relay
    uni,    \* streams on their way, in the order AcceptUniStream returns them
    waiting,  \* streams whose goroutine is blocked in ProcessObjects
    handed, \* subscriptions whose SubStream the application has
    read,   \* groups the application has read
    lost    \* what a handler could not place: messages and streams
clientVars == <<pub, sub, subscribing, toPub, toSub, uni, waiting, handed, read, lost>>

OCInit ==
    /\ pub = [main |-> "connected", announced |-> FALSE, cs |-> Reading,
              streams |-> [s \in Subscriptions |-> "none"], groups |-> [s \in Subscriptions |-> 0]]
    /\ sub = [main |-> "connected", cs |-> Reading, panicked |-> FALSE]
    /\ subscribing = [s \in Subscriptions |-> "none"]
    /\ toPub = <<>> /\ toSub = <<>> /\ uni = <<>>
    /\ waiting = {} /\ handed = {} /\ read = {} /\ lost = {}

-----------------------------------------------------------------------------
(* The publisher.                                                          *)

\* main: OnSubscribe follows Connect, then SendAnnounce, which writes the
\* message and afterwards records the namespace.
SendAnnounce ==
    /\ \/ /\ pub.main = "connected"
          /\ pub' = [pub EXCEPT !.main = "onSubscribe"]
          /\ UNCHANGED toSub
       \/ /\ pub.main = "onSubscribe"
          /\ pub' = [pub EXCEPT !.main = "written"]
          /\ toSub' = Append(toSub, Msg("ANNOUNCE", HeardSub))
       \/ /\ pub.main = "written"
          /\ pub' = [pub EXCEPT !.main = "done", !.announced = TRUE]
          /\ UNCHANGED toSub
    /\ UNCHANGED <<sub, subscribing, toPub, uni, waiting, handed, read, lost>>

\* PubHandler.HandleSubscribe, up to the send on SubscribeChan.
PubHandleSubscribe ==
    /\ toPub # <<>> /\ pub.cs = Reading
    /\ toPub' = Tail(toPub)
    /\ LET s == Head(toPub).sub
       IN  IF pub.announced
           THEN pub' = [pub EXCEPT !.cs = s] /\ UNCHANGED lost
           ELSE lost' = lost \union {Head(toPub)} /\ UNCHANGED pub
    /\ UNCHANGED <<sub, subscribing, toSub, uni, waiting, handed, read>>

\* The goroutine of MOQPub.Connect takes the PubStream; the callback starts
\* handleStream.
OnSubscribe ==
    /\ pub.cs \in Subscriptions
    /\ pub' = [pub EXCEPT !.cs = Reading, !.streams[pub.cs] = "handling"]
    /\ UNCHANGED <<sub, subscribing, toPub, toSub, uni, waiting, handed, read, lost>>

Accept(s) ==
    /\ pub.streams[s] = "handling"
    /\ pub' = [pub EXCEPT !.streams[s] = "publishing"]
    /\ toSub' = Append(toSub, Msg("SUBSCRIBE_OK", s))
    /\ UNCHANGED <<sub, subscribing, toPub, uni, waiting, handed, read, lost>>

\* The streams the peer has not finished with count against its limit.
OpenStreams == Len(uni) + Cardinality(waiting) + Cardinality({x \in lost : x.type = "group"})

\* NewGroup opens a stream without waiting: when the peer's limit is reached
\* handleStream gives up.  The group's objects follow and the stream is closed.
NewGroup(s) ==
    /\ pub.streams[s] = "publishing" /\ pub.groups[s] < MaxGroups
    /\ IF OpenStreams < MaxUni
       THEN /\ pub' = [pub EXCEPT !.groups[s] = @ + 1]
            /\ uni' = Append(uni, [type |-> "group", sub |-> s, id |-> pub.groups[s]])
       ELSE /\ pub' = [pub EXCEPT !.streams[s] = "ended"]
            /\ UNCHANGED uni
    /\ UNCHANGED <<sub, subscribing, toPub, toSub, waiting, handed, read, lost>>

-----------------------------------------------------------------------------
(* The subscriber.                                                         *)

\* Subscribe writes the message and afterwards adds the stream.  The relay
\* knows the namespace once the ANNOUNCE was written.
WriteSubscribe(s) ==
    /\ subscribing' = [subscribing EXCEPT ![s] = "written"]
    /\ toPub' = IF pub.main \in {"written", "done"} THEN Append(toPub, Msg("SUBSCRIBE", s)) ELSE toPub
    /\ lost' = IF pub.main \in {"written", "done"} THEN lost ELSE lost \union {Msg("SUBSCRIBE", s)}

AddStream(s) == subscribing' = [subscribing EXCEPT ![s] = "added"]

\* main: the callbacks are set after Connect has returned, then Subscribe.
SubMain ==
    /\ ~sub.panicked
    /\ \/ /\ sub.main = "connected"
          /\ sub' = [sub EXCEPT !.main = "onStream"]
          /\ UNCHANGED <<subscribing, toPub, lost>>
       \/ /\ sub.main = "onStream"
          /\ sub' = [sub EXCEPT !.main = "onAnnounce"]
          /\ UNCHANGED <<subscribing, toPub, lost>>
       \/ /\ sub.main = "onAnnounce"
          /\ sub' = [sub EXCEPT !.main = "subscribe"]
          /\ WriteSubscribe(MainSub)
       \/ /\ sub.main = "subscribe"
          /\ sub' = [sub EXCEPT !.main = "done"]
          /\ AddStream(MainSub) /\ UNCHANGED <<toPub, lost>>
    /\ UNCHANGED <<pub, toSub, uni, waiting, handed, read>>

Registered(s) == subscribing[s] = "added"

\* ServeCS takes a message: HandleAnnounce, or HandleSubscribeOk up to the
\* send on StreamsChan.
HandleMessage ==
    /\ ~sub.panicked /\ toSub # <<>> /\ sub.cs = Reading
    /\ toSub' = Tail(toSub)
    /\ LET m == Head(toSub)
       IN  \/ /\ m.type = "ANNOUNCE"
              /\ sub' = [sub EXCEPT !.cs = Announcing] /\ UNCHANGED lost
           \/ /\ m.type = "SUBSCRIBE_OK" /\ Registered(m.sub)
              /\ sub' = [sub EXCEPT !.cs = m.sub] /\ UNCHANGED lost
           \/ /\ m.type = "SUBSCRIBE_OK" /\ ~Registered(m.sub)
              /\ lost' = lost \union {m} /\ UNCHANGED sub
    /\ UNCHANGED <<pub, subscribing, toPub, uni, waiting, handed, read>>

\* The goroutine of MOQSub.Connect that ranges over AnnounceChan: a callback
\* that is not set yet is a nil function.  The callback subscribes.
OnAnnounce ==
    /\ ~sub.panicked
    /\ \/ /\ sub.cs = Announcing /\ sub.main \in {"connected", "onStream"}
          /\ sub' = [sub EXCEPT !.panicked = TRUE]
          /\ UNCHANGED <<subscribing, toPub, lost>>
       \/ /\ sub.cs = Announcing /\ sub.main \notin {"connected", "onStream"}
          /\ sub' = [sub EXCEPT !.cs = Reading]
          /\ WriteSubscribe(HeardSub)
       \/ /\ subscribing[HeardSub] = "written"
          /\ AddStream(HeardSub) /\ UNCHANGED <<sub, toPub, lost>>
    /\ UNCHANGED <<pub, toSub, uni, waiting, handed, read>>

\* The goroutine of MOQSub.Connect that ranges over StreamsChan.
OnStream ==
    /\ ~sub.panicked /\ sub.cs \in Subscriptions
    /\ sub' = [sub EXCEPT !.cs = Reading]
    /\ handed' = handed \union {sub.cs}
    /\ UNCHANGED <<pub, subscribing, toPub, toSub, uni, waiting, read, lost>>

\* A stream that replaces the one still waiting for the application.
Place_bug(x) == waiting' = {x} /\ UNCHANGED lost

\* SubHandler.DoHandle finds the SubStream, or leaves the stream unread.
Place(x) ==
    IF Registered(x.sub)
    THEN waiting' = waiting \union {x} /\ UNCHANGED lost
    ELSE lost' = lost \union {x} /\ UNCHANGED waiting

DoHandle ==
    /\ ~sub.panicked /\ uni # <<>>
    /\ uni' = Tail(uni)
    /\ Place(Head(uni))
    /\ UNCHANGED <<pub, sub, subscribing, toPub, toSub, handed, read>>

\* handleStream ranges over the SubStream's StreamsChan and reads the group.
HandleStream(x) ==
    /\ ~sub.panicked /\ x \in waiting /\ x.sub \in handed
    /\ waiting' = waiting \ {x}
    /\ read' = read \union {x}
    /\ UNCHANGED <<pub, sub, subscribing, toPub, toSub, uni, handed, lost>>

OCNext ==
    \/ SendAnnounce \/ PubHandleSubscribe \/ OnSubscribe
    \/ \E s \in Subscriptions : Accept(s) \/ NewGroup(s)
    \/ SubMain \/ HandleMessage \/ OnAnnounce \/ OnStream \/ DoHandle
    \/ \E x \in waiting : HandleStream(x)

Published(s) == {[type |-> "group", sub |-> s, id |-> g] : g \in 0 .. pub.groups[s] - 1}

\* Callbacks, control streams and streams do not wait on one another for
\* ever: when no goroutine can step (and the subscriber did not panic),
\* every subscription has reached the application with every group published
\* for it, but for the messages and streams that a handler could not place:
\* a SUBSCRIBE ahead of the namespace, a SUBSCRIBE_OK or a stream ahead of
\* AddStream.
ClientsServed ==
    ENABLED OCNext \/ sub.panicked \/
        /\ pub.cs = Reading /\ sub.cs = Reading
        /\ \A s \in Subscriptions :
             \/ s \in handed /\ Published(s) \subseteq read \union lost
             \/ \E type \in {"SUBSCRIBE", "SUBSCRIBE_OK"} : Msg(type, s) \in lost
=============================================================================
