---------------------------- MODULE MoqtRelayProofs ----------------------------
(***************************************************************************)
(* For any sessions, tracks, ids and bounds: who may be a member of a      *)
(* RelayStream, under which id groups and answers are sent, and that a     *)
(* publisher's SUBSCRIBE_OK reaches every subscriber that was registered.  *)
(* The inductive invariant says what a handler carries between its steps,  *)
(* what an entry and a membership stand for, and what is owed to           *)
(* subscribers; each handler's step keeps it.                              *)
(***************************************************************************)
EXTENDS MoqtRelay, TLAPS

-----------------------------------------------------------------------------
(* The inductive invariant.                                                *)

\* The RelayStreams created so far have a stream id.
StreamsHaveTracks == \A r \in 1 .. nstreams : rsTrack[r] \in Tracks

\* What HandleSubscribe and HandleSubscribeOk carry from one step to the next: a subscription is
\* handled once, under an id that is neither registered nor withdrawn, and gets a stream of its
\* track.
HandlerInv ==
    \A s \in Sessions :
        /\ cur[s].pc \in {"lookup", "send", "add", "register"} =>
              /\ asked[s][cur[s].id] = cur[s].track
              /\ cur[s].id \notin dropped[s]
              /\ subscribed[s][cur[s].id] = None
        /\ cur[s].pc \in {"add", "register"} =>
              cur[s].rs <= nstreams /\ rsTrack[cur[s].rs] = cur[s].track
        /\ cur[s].pc = "ok" => cur[s].rs <= nstreams

\* An entry of SubscribedStreams is a stream of the track asked for under its id.
SubscribedInv ==
    \A s \in Sessions : \A i \in SubIDs :
        /\ subscribed[s][i] # None =>
              subscribed[s][i] <= nstreams /\ rsTrack[subscribed[s][i]] = asked[s][i]
        /\ asked[s][i] = None => i \notin dropped[s]

\* A member of a stream has an entry for it that was not withdrawn, or is about to make one.
MemberInv ==
    \A r \in Streams : \A s \in rsSubs[r] :
        \/ \E i \in SubIDs \ dropped[s] : subscribed[s][i] = r
        \/ cur[s].pc = "register" /\ cur[s].rs = r

\* An answer that waits to be written is for a subscription whose track has a stream.
Answerable(s, i) == asked[s][i] # None /\ \E r \in 1 .. nstreams : rsTrack[r] = asked[s][i]
WritesInv == \A w \in writes : w.type = "ok" => Answerable(w.to, w.id)

\* Once Close has begun, the streams a session is still in are those HandleClose has to visit and
\* at most one other: the stream of the SUBSCRIBE that was being handled.
ClosingInv ==
    \A s \in Sessions : alive[s] # "open" =>
        /\ \A q, r \in Streams :
              s \in rsSubs[q] /\ s \in rsSubs[r] /\ q \notin closing[s] /\ r \notin closing[s] => q = r
        /\ cur[s].pc \in {"lookup", "send", "add"} =>
              \A r \in Streams : s \in rsSubs[r] => r \in closing[s]
        /\ cur[s].pc = "register" =>
              \A r \in Streams : s \in rsSubs[r] => r \in closing[s] \/ r = cur[s].rs
        /\ alive[s] = "closed" => closing[s] = {}

\* A subscriber to whom ForwardSubscribeOk owes an answer is still ahead of it with an id to be
\* found, has its answer, withdrew or closed.
Answered(s, t) == \E i \in oks[s] : asked[s][i] = t
Gone(s) == dropped[s] # {} \/ alive[s] # "open"
Owed(s, p) == s \in cur[p].todo /\ GetSubID(s, rsTrack[cur[p].rs]) # {}
AnswerInv ==
    \A p \in Sessions : cur[p].pc = "ok" =>
        \A s \in cur[p].due : Answered(s, rsTrack[cur[p].rs]) \/ Gone(s) \/ Owed(s, p)

IInv ==
    /\ TypeOK /\ StreamsHaveTracks /\ HandlerInv /\ SubscribedInv /\ MemberInv
    /\ WritesInv /\ RoutedToAsked /\ ClosingInv /\ AnswerInv

-----------------------------------------------------------------------------
(* Handlers: the fields they have at each point, and what changes to them.  *)

\* A handler of ServeCS has the fields of its point.
LEMMA HandlerFields ==
    ASSUME NEW c \in Handlers
    PROVE  /\ c.pc \in {"idle", "fanout", "lookup", "send", "add", "register", "ok"}
           /\ c.pc = "fanout" => c.ns \in Namespaces
           /\ c.pc \in {"lookup", "send"} => c.id \in SubIDs /\ c.track \in Tracks /\ c.pub \in Sessions
           /\ c.pc \in {"add", "register"} => c.id \in SubIDs /\ c.track \in Tracks /\ c.rs \in Streams
           /\ c.pc = "ok" => c.rs \in Streams /\ c.todo \subseteq Sessions /\ c.due \subseteq Sessions
BY Zenon DEF Handlers

\* GetObjectStream goes on to SendSubscribe with what it has.
LEMMA HandlerSend ==
    ASSUME NEW c \in Handlers, c.pc = "lookup"
    PROVE  LET d == [c EXCEPT !.pc = "send"]
           IN  /\ d \in Handlers /\ d.pc = "send"
               /\ d.id = c.id /\ d.track = c.track /\ d.pub = c.pub
<1>1. c \in [pc : {"lookup", "send"}, id : SubIDs, track : Tracks, pub : Sessions]
  BY Zenon DEF Handlers
<1> QED BY <1>1, Zenon DEF Handlers

\* AddSubscriber goes on to AddStream with what it has.
LEMMA HandlerRegister ==
    ASSUME NEW c \in Handlers, c.pc = "add"
    PROVE  LET d == [c EXCEPT !.pc = "register"]
           IN  /\ d \in Handlers /\ d.pc = "register"
               /\ d.id = c.id /\ d.track = c.track /\ d.rs = c.rs
<1>1. c \in [pc : {"add", "register"}, id : SubIDs, track : Tracks, rs : Streams]
  BY Zenon DEF Handlers
<1> QED BY <1>1, Zenon DEF Handlers

\* The iteration of ForwardSubscribeOk goes on with other members to visit.
LEMMA HandlerTodo ==
    ASSUME NEW c \in Handlers, c.pc = "ok", NEW S \in SUBSET Sessions
    PROVE  LET d == [c EXCEPT !.todo = S]
           IN  /\ d \in Handlers /\ d.pc = "ok"
               /\ d.rs = c.rs /\ d.due = c.due /\ d.todo = S
<1>1. c \in [pc : {"ok"}, rs : Streams, todo : SUBSET Sessions, due : SUBSET Sessions]
  BY Zenon DEF Handlers
<1> QED BY <1>1, Zenon DEF Handlers

-----------------------------------------------------------------------------
\* The relay starts without streams, subscriptions and messages.
LEMMA InitIInv == Init => IInv
<1> SUFFICES ASSUME Init PROVE IInv
  OBVIOUS
<1> USE RelayAssumption DEF Init
<1>1. Idle \in Handlers /\ Idle.pc = "idle"
  BY Zenon DEF Idle, Handlers
<1>2. TypeOK
  <2>1. /\ rsPub \in [Streams -> Sessions \cup {None}] /\ rsTrack \in [Streams -> Tracks \cup {None}]
        /\ rsSubs \in [Streams -> SUBSET Sessions] /\ closing \in [Sessions -> SUBSET Streams]
        /\ requested \in [Sessions -> SUBSET Streams] /\ oks \in [Sessions -> SUBSET SubIDs]
    OBVIOUS
  <2>2. /\ subscribed \in [Sessions -> [SubIDs -> Streams \cup {None}]]
        /\ asked \in [Sessions -> [SubIDs -> Tracks \cup {None}]]
        /\ cur \in [Sessions -> Handlers]
    BY <1>1, Zenon
  <2>3. nstreams \in 0 .. MaxStreams /\ ngroups \in 0 .. MaxGroups
    OBVIOUS
  <2> QED BY <2>1, <2>2, <2>3, Zenon DEF TypeOK
<1>3. StreamsHaveTracks /\ HandlerInv /\ SubscribedInv /\ MemberInv
  BY <1>1 DEF StreamsHaveTracks, HandlerInv, SubscribedInv, MemberInv
<1>4. WritesInv /\ RoutedToAsked /\ ClosingInv /\ AnswerInv
  BY <1>1, Zenon DEF WritesInv, RoutedToAsked, ClosingInv, AnswerInv
<1> QED BY <1>2, <1>3, <1>4, Zenon DEF IInv
-----------------------------------------------------------------------------
(* What a step leaves alone keeps the conjuncts that read nothing else.    *)

\* No RelayStream was created, so every one still has its track, and so do the entries for it.
LEMMA KeepsTracks ==
    ASSUME IInv, UNCHANGED <<nstreams, rsTrack>>
    PROVE  StreamsHaveTracks' /\ (UNCHANGED <<subscribed, asked, dropped>> => SubscribedInv')
<1>1. StreamsHaveTracks'
  BY Zenon DEF IInv, StreamsHaveTracks
<1>2. ASSUME UNCHANGED <<subscribed, asked, dropped>> PROVE SubscribedInv'
  BY <1>2, Zenon DEF IInv, SubscribedInv
<1> QED BY <1>1, <1>2, Zenon

\* Nothing more was written or queued to be written.
LEMMA KeepsRouted ==
    ASSUME IInv, UNCHANGED <<nstreams, rsTrack, asked>>
    PROVE  (writes' = writes => WritesInv') /\ (UNCHANGED <<oks, headers>> => RoutedToAsked')
<1>1. ASSUME writes' = writes PROVE WritesInv'
  BY <1>1, Zenon DEF IInv, WritesInv, Answerable
<1>2. ASSUME oks' = oks, headers' = headers PROVE RoutedToAsked'
  BY <1>2, Zenon DEF IInv, RoutedToAsked
<1> QED BY <1>1, <1>2, Zenon

\* A handler stays where it is, leaves ServeCS's switch or goes on in ForwardSubscribeOk.
LEMMA KeepsHandlers ==
    ASSUME IInv, UNCHANGED <<nstreams, rsTrack, subscribed, asked, dropped>>,
           \A x \in Sessions : \/ cur'[x] = cur[x] \/ cur'[x].pc \in {"idle", "fanout"}
                               \/ cur'[x].pc = "ok" /\ cur'[x].rs <= nstreams
    PROVE  HandlerInv'
<1>1. ASSUME NEW x \in Sessions PROVE HandlerInv!(x)'
  <2>1. CASE cur'[x] = cur[x]
    BY <2>1, Zenon DEF IInv, HandlerInv
  <2>2. CASE cur'[x].pc \in {"idle", "fanout"}
    BY <2>2, Zenon
  <2>3. CASE cur'[x].pc = "ok" /\ cur'[x].rs <= nstreams
    BY <2>3, Zenon
  <2> QED BY <2>1, <2>2, <2>3, Zenon
<1> QED BY <1>1, Zenon DEF HandlerInv

\* No member is added and no entry changes, and whoever is about to register goes on to do so.
LEMMA KeepsMembers ==
    ASSUME IInv, UNCHANGED <<subscribed, dropped>>, \A r \in Streams : rsSubs'[r] \subseteq rsSubs[r],
           \A x \in Sessions : cur[x].pc = "register" => cur'[x] = cur[x]
    PROVE  MemberInv'
<1>1. ASSUME NEW r \in Streams, NEW x \in rsSubs'[r] PROVE MemberInv!(r)!(x)'
  <2>1. x \in Sessions /\ x \in rsSubs[r]
    BY Zenon DEF IInv, TypeOK
  <2>2. MemberInv!(r)!(x)
    BY <2>1, Zenon DEF IInv, MemberInv
  <2> QED BY <2>1, <2>2, Zenon
<1> QED BY <1>1, Zenon DEF MemberInv

\* No session closes and no member is added while no handler begins a SUBSCRIBE.
LEMMA KeepsClosing ==
    ASSUME IInv, UNCHANGED <<alive, closing>>, \A r \in Streams : rsSubs'[r] \subseteq rsSubs[r],
           \A x \in Sessions :
              cur'[x].pc \in {"lookup", "send", "add", "register"} => cur'[x] = cur[x]
    PROVE  ClosingInv'
<1>1. ASSUME NEW x \in Sessions PROVE ClosingInv!(x)'
  <2>1. ClosingInv!(x) /\ \A r \in Streams : x \in rsSubs'[r] => x \in rsSubs[r]
    BY Zenon DEF IInv, ClosingInv
  <2> QED BY <2>1, Zenon
<1> QED BY <1>1, Zenon DEF ClosingInv

\* What is owed to a subscriber changes only with the handler that owes it.
LEMMA KeepsAnswers ==
    ASSUME IInv, UNCHANGED <<rsTrack, subscribed, asked, dropped, oks>>,
           \A x \in Sessions : (alive[x] # "open" => alive'[x] # "open")
                               /\ (cur'[x] = cur[x] \/ cur'[x].pc # "ok")
    PROVE  AnswerInv'
<1>1. ASSUME NEW p \in Sessions, cur'[p].pc = "ok", NEW x \in cur'[p].due
      PROVE  AnswerInv!(p)!2!(x)'
  <2>1. cur'[p] = cur[p] /\ cur[p] \in Handlers /\ cur[p].pc = "ok" /\ x \in cur[p].due
    BY <1>1, Zenon DEF IInv, TypeOK
  <2>2. x \in Sessions
    BY <2>1, HandlerFields, Zenon
  <2>3. Answered(x, rsTrack[cur[p].rs]) \/ Gone(x) \/ Owed(x, p)
    BY <2>1, Zenon DEF IInv, AnswerInv
  <2>4. CASE Answered(x, rsTrack[cur[p].rs])
    BY <2>1, <2>4, Zenon DEF Answered
  <2>5. CASE Gone(x)
    BY <2>2, <2>5, Zenon DEF Gone
  <2>6. CASE Owed(x, p)
    BY <2>1, <2>6, Zenon DEF Owed, GetSubID
  <2> QED BY <2>3, <2>4, <2>5, <2>6, Zenon
<1> QED BY <1>1, Zenon DEF AnswerInv

-----------------------------------------------------------------------------
(* One lemma for each group of actions that disturb the same conjuncts.    *)

\* AddSubscriber: a handler becomes a member of its stream and is about to register it.
LEMMA AddSubscriberIInv ==
    ASSUME IInv, NEW s \in Sessions, AddSubscriber(s)
    PROVE  IInv'
<1> DEFINE r == cur[s].rs
<1>1. /\ cur \in [Sessions -> Handlers] /\ rsSubs \in [Streams -> SUBSET Sessions]
      /\ cur[s].pc = "add" /\ r \in Streams /\ r <= nstreams
  BY HandlerFields, Zenon DEF IInv, TypeOK, HandlerInv, AddSubscriber, Running
<1>2. /\ rsSubs' = [rsSubs EXCEPT ![r] = @ \cup {s}]
      /\ UNCHANGED <<namespaces, alive, nstreams, rsPub, rsTrack, subscribed, closing,
                     writes, forwards, ngroups, peerVars>>
  BY Zenon DEF AddSubscriber
<1>3. PICK seen \in SUBSET {p \in Sessions : cur[p].pc = "ok" /\ cur[p].rs = r} :
         cur' = [p \in Sessions |->
                    IF p = s THEN [cur[s] EXCEPT !.pc = "register"]
                    ELSE IF p \in seen THEN [cur[p] EXCEPT !.todo = @ \cup {s}]
                    ELSE cur[p]]
  BY Zenon DEF AddSubscriber
<1>4. /\ cur'[s] \in Handlers /\ cur'[s].pc = "register"
      /\ cur'[s].id = cur[s].id /\ cur'[s].track = cur[s].track /\ cur'[s].rs = r
  BY <1>1, <1>3, HandlerRegister, Zenon
<1>5. ASSUME NEW p \in Sessions \ {s}
      PROVE  /\ cur'[p] \in Handlers /\ cur'[p].pc = cur[p].pc
             /\ cur[p].pc \in {"lookup", "send", "add", "register"} => cur'[p] = cur[p]
             /\ cur[p].pc = "ok" =>
                   cur'[p].rs = cur[p].rs /\ cur'[p].due = cur[p].due /\ cur[p].todo \subseteq cur'[p].todo
  <2>1. CASE p \in seen
    <3>1. cur[p] \in Handlers /\ cur[p].pc = "ok" /\ cur[p].todo \cup {s} \in SUBSET Sessions
      BY <1>1, <2>1, HandlerFields, Zenon
    <3> DEFINE d == [cur[p] EXCEPT !.todo = cur[p].todo \cup {s}]
    <3>2. cur'[p] = d
      BY <1>3, <2>1, Zenon
    <3>3. /\ d \in Handlers /\ d.pc = "ok"
          /\ d.rs = cur[p].rs /\ d.due = cur[p].due /\ d.todo = cur[p].todo \cup {s}
      BY <3>1, HandlerTodo, Zenon
    <3> HIDE DEF d
    <3> QED BY <3>1, <3>2, <3>3, Zenon
  <2>2. CASE p \notin seen
    BY <1>1, <1>3, <2>2, Zenon
  <2> QED BY <2>1, <2>2, Zenon
<1>6. cur' \in [Sessions -> Handlers] /\ crashed' \in BOOLEAN
  <2>1. \A p \in Sessions : cur'[p] \in Handlers
    BY <1>4, <1>5, Zenon
  <2>2. cur' = [p \in Sessions |-> cur'[p]]
    BY <1>3, Zenon
  <2> QED BY <2>1, <2>2, Zenon DEF AddSubscriber, Iterating
<1> HIDE DEF r
<1>7. TypeOK'
  <2>1. rsSubs' \in [Streams -> SUBSET Sessions]
    BY <1>1, <1>2, Zenon
  <2>2. \A q \in Streams : q > nstreams => rsSubs'[q] = {}
    BY <1>1, <1>2 DEF IInv, TypeOK, Streams
  <2> QED BY <1>2, <1>6, <2>1, <2>2, Zenon DEF IInv, TypeOK, peerVars
<1>8. StreamsHaveTracks' /\ SubscribedInv' /\ WritesInv' /\ RoutedToAsked'
  BY <1>2, KeepsTracks, KeepsRouted, Zenon DEF peerVars
<1>9. HandlerInv'
  BY <1>1, <1>2, <1>4, <1>5 DEF IInv, HandlerInv, peerVars, r
<1>10. MemberInv'
  BY <1>1, <1>2, <1>4, <1>5 DEF IInv, MemberInv, peerVars
<1>11. ClosingInv'
  BY <1>1, <1>2, <1>4, <1>5 DEF IInv, ClosingInv
<1>12. AnswerInv'
  BY <1>1, <1>2, <1>4, <1>5 DEF IInv, AnswerInv, Answered, Gone, Owed, GetSubID, peerVars
<1> QED BY <1>7, <1>8, <1>9, <1>10, <1>11, <1>12, Zenon DEF IInv

\* HandleAnnounce and its fan-out change no stream, subscription or answer.
LEMMA AnnounceIInv ==
    ASSUME IInv, NEW p \in Sessions,
           (\E n \in Namespaces : HandleAnnounce(p, n)) \/ AnnounceFanOut(p)
    PROVE  IInv'
<1>1. /\ cur \in [Sessions -> Handlers] /\ rsSubs \in [Streams -> SUBSET Sessions]
      /\ UNCHANGED <<alive, nstreams, rsPub, rsTrack, rsSubs, subscribed, closing, forwards, ngroups,
                     crashed, peerVars>>
  BY Zenon DEF IInv, TypeOK, HandleAnnounce, AnnounceFanOut, relayVars
<1>2. /\ cur' \in [Sessions -> Handlers] /\ cur'[p].pc \in {"idle", "fanout"}
      /\ cur[p].pc \in {"idle", "fanout"}
      /\ \A x \in Sessions \ {p} : cur'[x] = cur[x]
      /\ namespaces' \in [Namespaces -> Sessions \cup {None}]
  <2>1. CASE AnnounceFanOut(p)
    <3>1. Idle \in Handlers /\ Idle.pc = "idle"
      BY Zenon DEF Idle, Handlers
    <3> QED BY <1>1, <2>1, <3>1, Zenon DEF AnnounceFanOut, Continue, Running, IInv, TypeOK, relayVars
  <2>2. ASSUME NEW n \in Namespaces, HandleAnnounce(p, n)
        PROVE  <1>2!:
    <3> DEFINE c == [pc |-> "fanout", ns |-> n]
    <3>1. c \in Handlers /\ c.pc = "fanout"
      BY Zenon DEF Handlers
    <3>2. cur' = [cur EXCEPT ![p] = c] /\ namespaces' = [namespaces EXCEPT ![n] = p]
      BY <2>2, Zenon DEF HandleAnnounce, Continue
    <3>3. cur[p].pc = "idle"
      BY <2>2, Zenon DEF HandleAnnounce, Receive
    <3> HIDE DEF c
    <3> QED BY <1>1, <3>1, <3>2, <3>3, Zenon DEF IInv, TypeOK
  <2> QED BY <2>1, <2>2, Zenon
<1>3. \A w \in writes' : w \in writes \/ w \in [to : Sessions, type : {"announce"}, ns : Namespaces]
  <2>1. CASE AnnounceFanOut(p)
    <3>1. cur[p].ns \in Namespaces
      BY <1>1, <2>1, HandlerFields, Zenon DEF AnnounceFanOut, Running
    <3> QED BY <2>1, <3>1, RelayAssumption DEF AnnounceFanOut
  <2>2. CASE \E n \in Namespaces : HandleAnnounce(p, n)
    BY <2>2, Zenon DEF HandleAnnounce
  <2> QED BY <2>1, <2>2, Zenon
<1>4. TypeOK'
  <2>1. writes' \subseteq [to : Sessions, type : {"announce"}, ns : Namespaces]
                          \cup [to : Sessions, type : {"ok"}, id : SubIDs]
    BY <1>3, Zenon DEF IInv, TypeOK
  <2> QED BY <1>1, <1>2, <2>1, Zenon DEF IInv, TypeOK, peerVars
<1>5. StreamsHaveTracks' /\ HandlerInv' /\ SubscribedInv' /\ MemberInv'
  BY <1>1, <1>2, KeepsTracks, KeepsHandlers, KeepsMembers, Zenon DEF peerVars
<1>6. WritesInv' /\ RoutedToAsked'
  <2>1. \A w \in [to : Sessions, type : {"announce"}, ns : Namespaces] : w.type = "announce"
    OBVIOUS
  <2> QED BY <1>1, <1>3, <2>1, Zenon DEF IInv, WritesInv, Answerable, RoutedToAsked, peerVars
<1>7. ClosingInv'
  BY <1>1, <1>2, Zenon DEF IInv, ClosingInv
<1>8. AnswerInv'
  BY <1>1, <1>2, KeepsAnswers, Zenon DEF peerVars
<1> QED BY <1>4, <1>5, <1>6, <1>7, <1>8, Zenon DEF IInv

\* HandleSubscribe takes an id nobody has used; with a publisher it goes on to GetObjectStream.
LEMMA HandleSubscribeIInv ==
    ASSUME IInv, NEW s \in Sessions, NEW i \in SubIDs, NEW t \in Tracks, HandleSubscribe(s, i, t)
    PROVE  IInv'
<1> USE RelayAssumption
<1>1. /\ cur \in [Sessions -> Handlers] /\ rsSubs \in [Streams -> SUBSET Sessions]
      /\ cur[s].pc = "idle" /\ alive[s] = "open"
      /\ asked \in [Sessions -> [SubIDs -> Tracks \cup {None}]] /\ asked[s][i] = None
      /\ asked' = [asked EXCEPT ![s][i] = t]
      /\ UNCHANGED <<namespaces, alive, nstreams, rsPub, rsTrack, rsSubs, subscribed, closing, writes,
                     forwards, ngroups, crashed, dropped, requested, accepted, oks, headers>>
  BY Zenon DEF IInv, TypeOK, HandleSubscribe, Receive, relayVars
<1>2. i \notin dropped[s] /\ subscribed[s][i] = None
  <2>1. subscribed[s][i] \in Streams \cup {None} /\ nstreams \in 0 .. MaxStreams
    BY DEF IInv, TypeOK
  <2>2. subscribed[s][i] # None => subscribed[s][i] \in 1 .. nstreams
    BY <2>1 DEF IInv, SubscribedInv, Streams
  <2> QED BY <1>1, <2>2, Zenon DEF IInv, SubscribedInv, StreamsHaveTracks
<1>3. /\ cur' \in [Sessions -> Handlers]
      /\ \A x \in Sessions \ {s} : cur'[x] = cur[x]
      /\ \/ cur'[s].pc = "idle"
         \/ cur'[s].pc = "lookup" /\ cur'[s].id = i /\ cur'[s].track = t
  <2> DEFINE pub == namespaces[NsOf[t]]
             c == [pc |-> "lookup", id |-> i, track |-> t, pub |-> pub]
  <2>1. Idle \in Handlers /\ Idle.pc = "idle"
    BY Zenon DEF Idle, Handlers
  <2>2. pub \in Sessions \cup {None}
    BY Zenon DEF IInv, TypeOK
  <2>3. pub # None => c \in Handlers /\ c.pc = "lookup" /\ c.id = i /\ c.track = t
    BY <2>2, Zenon DEF Handlers
  <2>4. cur' = [cur EXCEPT ![s] = IF pub = None THEN Idle ELSE c]
    BY Zenon DEF HandleSubscribe, Continue
  <2> HIDE DEF c, pub
  <2> QED BY <1>1, <2>1, <2>3, <2>4, Zenon
<1>4. /\ asked' \in [Sessions -> [SubIDs -> Tracks \cup {None}]] /\ asked'[s][i] = t
      /\ \A x \in Sessions, j \in SubIDs : asked[x][j] # None => asked'[x][j] = asked[x][j]
      /\ \A x \in Sessions, j \in SubIDs : asked'[x][j] = None => asked[x][j] = None
      /\ \A x \in Sessions, j \in SubIDs : ~(x = s /\ j = i) => asked'[x][j] = asked[x][j]
  BY <1>1, Zenon
<1>5. TypeOK' /\ StreamsHaveTracks'
  BY <1>1, <1>3, <1>4, Zenon DEF IInv, TypeOK, StreamsHaveTracks
<1>6. HandlerInv'
  <2>1. ASSUME NEW x \in Sessions \ {s} PROVE HandlerInv!(x)'
    BY <1>1, <1>3, <1>4, <2>1, HandlerFields DEF IInv, HandlerInv
  <2>2. HandlerInv!(s)'
    BY <1>1, <1>2, <1>3, <1>4, Zenon
  <2> QED BY <2>1, <2>2, Zenon DEF HandlerInv
<1>7. SubscribedInv' /\ MemberInv'
  <2>1. SubscribedInv'
    BY <1>1, <1>2, <1>4 DEF IInv, SubscribedInv
  <2>2. MemberInv'
    BY <1>1, <1>3 DEF IInv, MemberInv
  <2> QED BY <2>1, <2>2, Zenon
<1>8. WritesInv' /\ RoutedToAsked'
  <2>1. ASSUME NEW x \in Sessions, NEW j \in SubIDs, Answerable(x, j) PROVE Answerable(x, j)'
    BY <1>1, <1>4, <2>1 DEF Answerable
  <2>2. WritesInv'
    BY <1>1, <2>1, Zenon DEF IInv, TypeOK, WritesInv
  <2>3. ASSUME NEW h \in headers PROVE asked'[h[1]][h[2]] = h[4]
    <3>1. h[1] \in Sessions /\ h[2] \in SubIDs /\ h[4] \in Tracks /\ asked[h[1]][h[2]] = h[4]
      BY <2>3, Zenon DEF IInv, TypeOK, RoutedToAsked
    <3> QED BY <1>4, <3>1
  <2>4. ASSUME NEW x \in Sessions, NEW j \in oks[x] PROVE Answerable(x, j)'
    <3>1. j \in SubIDs /\ Answerable(x, j)
      BY <2>4, ZenonT(40) DEF IInv, TypeOK, RoutedToAsked, Answerable
    <3> QED BY <2>1, <3>1, Zenon
  <2> QED BY <1>1, <2>2, <2>3, <2>4 DEF RoutedToAsked, Answerable
<1>9. ClosingInv'
  BY <1>1, <1>3, Zenon DEF IInv, ClosingInv
<1>10. AnswerInv'
  <2>1. ASSUME NEW x \in Sessions, NEW q \in Tracks \cup {None}, Answered(x, q), q # None
        PROVE  Answered(x, q)'
    BY <1>1, <1>4, <2>1, ZenonT(40) DEF IInv, TypeOK, Answered
  <2>2. ASSUME NEW p \in Sessions, cur'[p].pc = "ok"
        PROVE  /\ p # s /\ cur'[p] = cur[p] /\ cur[p].rs \in Streams /\ rsTrack[cur[p].rs] \in Tracks
               /\ cur[p].due \subseteq Sessions
    BY <1>1, <1>3, <2>2, HandlerFields DEF IInv, TypeOK, HandlerInv, StreamsHaveTracks, Streams
  <2>3. ASSUME NEW p \in Sessions, cur'[p].pc = "ok", NEW x \in cur'[p].due
        PROVE  (Answered(x, rsTrack[cur[p].rs]) \/ Gone(x) \/ Owed(x, p))'
    <3>1. x \in Sessions /\ (Answered(x, rsTrack[cur[p].rs]) \/ Gone(x) \/ Owed(x, p))
      BY <2>2, <2>3, Zenon DEF IInv, AnswerInv
    <3>2. cur'[p] = cur[p] /\ rsTrack[cur[p].rs] \in Tracks
      BY <2>2, <2>3, Zenon
    <3>3. CASE Answered(x, rsTrack[cur[p].rs])
      <4>1. Answered(x, rsTrack[cur[p].rs])'
        BY <1>1, <2>1, <3>1, <3>2, <3>3, RelayAssumption, Zenon
      <4> QED BY <4>1, Zenon
    <3>4. CASE Gone(x)
      BY <1>1, <3>4, Zenon DEF Gone
    <3>5. CASE Owed(x, p)
      BY <1>1, <3>2, <3>5, Zenon DEF Owed, GetSubID
    <3> QED BY <3>1, <3>3, <3>4, <3>5, Zenon
  <2> QED BY <2>3, Zenon DEF AnswerInv
<1> QED BY <1>5, <1>6, <1>7, <1>8, <1>9, <1>10, Zenon DEF IInv

\* GetObjectStream shares a stream of the track, or goes on to SendSubscribe.
LEMMA GetObjectStreamIInv ==
    ASSUME IInv, NEW s \in Sessions, GetObjectStreamCached(s) \/ GetObjectStreamFresh(s)
    PROVE  IInv'
<1>1. /\ cur \in [Sessions -> Handlers] /\ rsSubs \in [Streams -> SUBSET Sessions]
      /\ cur[s] \in Handlers /\ cur[s].pc = "lookup"
      /\ cur[s].id \in SubIDs /\ cur[s].track \in Tracks
      /\ asked[s][cur[s].id] = cur[s].track
      /\ UNCHANGED <<relayVars, closing, forwards, ngroups, crashed, peerVars>>
  BY HandlerFields, Zenon DEF IInv, TypeOK, HandlerInv, GetObjectStreamCached, GetObjectStreamFresh, Running
<1>2. /\ cur' \in [Sessions -> Handlers]
      /\ \A x \in Sessions \ {s} : cur'[x] = cur[x]
      /\ cur'[s].pc \in {"send", "add"} /\ cur'[s].id = cur[s].id /\ cur'[s].track = cur[s].track
      /\ cur'[s].pc = "add" => cur'[s].rs <= nstreams /\ rsTrack[cur'[s].rs] = cur[s].track
      /\ writes' = writes \/ /\ writes' = writes \cup {[to |-> s, type |-> "ok", id |-> cur[s].id]}
                             /\ Answerable(s, cur[s].id)
  <2>1. CASE GetObjectStreamFresh(s)
    <3>1. cur' = [cur EXCEPT ![s] = [cur[s] EXCEPT !.pc = "send"]] /\ writes' = writes
      BY <2>1, Zenon DEF GetObjectStreamFresh, Continue
    <3> QED BY <1>1, <3>1, HandlerSend, Zenon
  <2>2. CASE GetObjectStreamCached(s)
    <3>1. PICK r \in StreamIDGetStream(cur[s].pub, cur[s].track) :
             cur' = [cur EXCEPT ![s] =
                        [pc |-> "add", id |-> cur[s].id, track |-> cur[s].track, rs |-> r]]
      BY <2>2, Zenon DEF GetObjectStreamCached, Continue
    <3>2. r \in 1 .. nstreams /\ r \in Streams /\ rsTrack[r] = cur[s].track
      BY RelayAssumption DEF IInv, TypeOK, StreamIDGetStream, IncomingStreams, Streams
    <3> DEFINE c == [pc |-> "add", id |-> cur[s].id, track |-> cur[s].track, rs |-> r]
    <3>3. /\ c \in Handlers /\ c.pc = "add" /\ c.id = cur[s].id /\ c.track = cur[s].track /\ c.rs = r
      BY <1>1, <3>2, Zenon DEF Handlers
    <3>4. cur' = [cur EXCEPT ![s] = c]
      BY <3>1, Zenon
    <3>5. Answerable(s, cur[s].id)
      BY <1>1, <3>2, RelayAssumption, Zenon DEF Answerable
    <3>6. writes' = writes \cup {[to |-> s, type |-> "ok", id |-> cur[s].id]}
      BY <2>2, Zenon DEF GetObjectStreamCached
    <3> HIDE DEF c
    <3>7. cur' \in [Sessions -> Handlers] /\ cur'[s] = c /\ \A x \in Sessions \ {s} : cur'[x] = cur[x]
      BY <1>1, <3>3, <3>4, Zenon
    <3>8. r <= nstreams
      BY <3>2 DEF IInv, TypeOK
    <3> QED BY <3>2, <3>3, <3>5, <3>6, <3>7, <3>8, Zenon
  <2> QED BY <2>1, <2>2, Zenon
<1>3. TypeOK'
  <2>1. writes' \subseteq [to : Sessions, type : {"announce"}, ns : Namespaces]
                          \cup [to : Sessions, type : {"ok"}, id : SubIDs]
    <3>1. writes \subseteq [to : Sessions, type : {"announce"}, ns : Namespaces]
                           \cup [to : Sessions, type : {"ok"}, id : SubIDs]
      BY Zenon DEF IInv, TypeOK
    <3>2. [to |-> s, type |-> "ok", id |-> cur[s].id] \in [to : Sessions, type : {"ok"}, id : SubIDs]
      BY <1>1, Zenon
    <3>3. writes' \subseteq writes \cup {[to |-> s, type |-> "ok", id |-> cur[s].id]}
      BY <1>2, Zenon
    <3> QED BY <3>1, <3>2, <3>3, Zenon
  <2> QED BY <1>1, <1>2, <2>1, Zenon DEF IInv, TypeOK, relayVars, peerVars
<1>4. StreamsHaveTracks' /\ SubscribedInv' /\ MemberInv'
  BY <1>1, <1>2, KeepsTracks, KeepsMembers, Zenon DEF relayVars, peerVars
<1>8. HandlerInv'
  <2>1. /\ nstreams' = nstreams /\ rsTrack' = rsTrack /\ subscribed' = subscribed
        /\ asked' = asked /\ dropped' = dropped
    BY <1>1, Zenon DEF relayVars, peerVars
  <2>2. HandlerInv!(s)
    BY Zenon DEF IInv, HandlerInv
  <2>3. HandlerInv!(s)'
    BY <1>1, <1>2, <2>1, <2>2, Zenon
  <2>4. ASSUME NEW x \in Sessions \ {s} PROVE HandlerInv!(x)'
    BY <1>2, <2>1, Zenon DEF IInv, HandlerInv
  <2>5. \A x \in Sessions : HandlerInv!(x)'
    BY <2>3, <2>4, Zenon
  <2> QED BY <2>5, Zenon DEF HandlerInv
<1>5. WritesInv' /\ RoutedToAsked'
  <2>1. \A x, j : Answerable(x, j) => Answerable(x, j)'
    BY <1>1, Zenon DEF Answerable, relayVars, peerVars
  <2>2. RoutedToAsked'
    BY <1>1, Zenon DEF IInv, RoutedToAsked, relayVars, peerVars
  <2>3. WritesInv'
    BY <1>2, <2>1 DEF IInv, WritesInv
  <2> QED BY <2>2, <2>3, Zenon
<1>6. ClosingInv'
  BY <1>1, <1>2, Zenon DEF IInv, ClosingInv, relayVars
<1>7. AnswerInv'
  BY <1>1, <1>2, KeepsAnswers, Zenon DEF relayVars, peerVars
<1> QED BY <1>3, <1>4, <1>5, <1>6, <1>7, <1>8, Zenon DEF IInv


\* SendSubscribe creates a stream of the track; the other streams stay as they are.
LEMMA SendSubscribeIInv ==
    ASSUME IInv, NEW s \in Sessions, SendSubscribe(s)
    PROVE  IInv'
<1> DEFINE r == nstreams + 1
           t == cur[s].track
           p == cur[s].pub
           c == [pc |-> "add", id |-> cur[s].id, track |-> t, rs |-> r]
<1> USE RelayAssumption
<1>1. /\ cur \in [Sessions -> Handlers] /\ rsSubs \in [Streams -> SUBSET Sessions]
      /\ cur[s].pc = "send"
      /\ cur[s].id \in SubIDs /\ t \in Tracks /\ p \in Sessions
      /\ nstreams \in Nat /\ r \in Streams
  <2>1. /\ cur \in [Sessions -> Handlers] /\ rsSubs \in [Streams -> SUBSET Sessions]
        /\ cur[s].pc = "send" /\ nstreams \in 0 .. MaxStreams /\ nstreams < MaxStreams
    BY Zenon DEF IInv, TypeOK, SendSubscribe, Running
  <2>2. cur[s].id \in SubIDs /\ t \in Tracks /\ p \in Sessions
    BY <2>1, HandlerFields, Zenon
  <2>3. nstreams \in Nat /\ r \in Streams
    BY <2>1 DEF Streams
  <2> QED BY <2>1, <2>2, <2>3, Zenon
<1>2. /\ nstreams' = r
      /\ rsPub' = [rsPub EXCEPT ![r] = p]
      /\ rsTrack' = [rsTrack EXCEPT ![r] = t]
      /\ requested' = IF alive[p] = "open" THEN [requested EXCEPT ![p] = @ \cup {r}] ELSE requested
      /\ cur' = [cur EXCEPT ![s] = c]
      /\ UNCHANGED <<namespaces, alive, rsSubs, subscribed, closing, writes, forwards,
                     ngroups, crashed, asked, dropped, accepted, oks, headers>>
  BY Zenon DEF SendSubscribe, Continue
<1>3. /\ c \in Handlers /\ c.pc = "add" /\ c.id = cur[s].id /\ c.track = t /\ c.rs = r
  BY <1>1, Zenon DEF Handlers
<1> HIDE DEF c
<1>4. /\ cur' \in [Sessions -> Handlers] /\ cur'[s] = c
      /\ \A x \in Sessions \ {s} : cur'[x] = cur[x]
  BY <1>1, <1>2, <1>3, Zenon
<1>5. /\ rsTrack' \in [Streams -> Tracks \cup {None}] /\ rsTrack'[r] = t
      /\ \A q \in 1 .. nstreams : q \in Streams /\ rsTrack'[q] = rsTrack[q]
      /\ 1 .. r = (1 .. nstreams) \cup {r} /\ r \notin 1 .. nstreams
  <2>1. rsTrack \in [Streams -> Tracks \cup {None}]
    BY Zenon DEF IInv, TypeOK
  <2>2. rsTrack' = [rsTrack EXCEPT ![r] = t] /\ r \in Streams /\ t \in Tracks /\ nstreams \in Nat
    BY <1>1, <1>2, Zenon
  <2>3. 1 .. r = (1 .. nstreams) \cup {r} /\ r \notin 1 .. nstreams
    BY <2>2
  <2>4. \A q \in 1 .. nstreams : q \in Streams /\ q # r
    BY <2>2 DEF Streams
  <2> HIDE DEF r, t
  <2> QED BY <2>1, <2>2, <2>3, <2>4, Zenon
<1> HIDE DEF r, t, p
<1>6. TypeOK'
  <2>1. rsPub' \in [Streams -> Sessions \cup {None}] /\ requested' \in [Sessions -> SUBSET Streams]
    BY <1>1, <1>2, Zenon DEF IInv, TypeOK
  <2>2. /\ nstreams' \in 0 .. MaxStreams
        /\ \A q \in Streams : q > nstreams' => q > nstreams /\ q # r
    BY <1>1, <1>2 DEF r, Streams
  <2>3. \A q \in Streams : q > nstreams' => rsPub'[q] = None /\ rsTrack'[q] = None /\ rsSubs'[q] = {}
    BY <1>1, <1>2, <2>2, Zenon DEF IInv, TypeOK
  <2> QED BY <1>2, <1>4, <1>5, <2>1, <2>2, <2>3, Zenon DEF IInv, TypeOK
<1>7. StreamsHaveTracks'
  BY <1>1, <1>2, <1>5, Zenon DEF IInv, StreamsHaveTracks
<1>8. ASSUME NEW q \in Streams, q <= nstreams PROVE q \in 1 .. nstreams /\ q <= nstreams'
  BY <1>1, <1>2, <1>8 DEF Streams, r
<1>9. SubscribedInv'
  <2>1. ASSUME NEW x \in Sessions, NEW j \in SubIDs, subscribed[x][j] # None
        PROVE  subscribed[x][j] <= nstreams' /\ rsTrack'[subscribed[x][j]] = asked[x][j]
    <3>1. subscribed[x][j] \in Streams /\ subscribed[x][j] <= nstreams
      BY <2>1 DEF IInv, TypeOK, SubscribedInv
    <3> QED BY <1>5, <1>8, <2>1, <3>1, Zenon DEF IInv, SubscribedInv
  <2> QED BY <1>2, <2>1 DEF IInv, SubscribedInv
<1>10. HandlerInv'
  <2>1. ASSUME NEW x \in Sessions \ {s}, cur[x].pc \in {"add", "register", "ok"}
        PROVE  cur[x].rs <= nstreams' /\ rsTrack'[cur[x].rs] = rsTrack[cur[x].rs]
    <3>1. cur[x].rs \in Streams /\ cur[x].rs <= nstreams
      BY <1>1, <2>1, HandlerFields, Zenon DEF IInv, HandlerInv
    <3> QED BY <1>5, <1>8, <3>1, Zenon
  <2>2. r <= nstreams'
    BY <1>1, <1>2 DEF r
  <2>3. ASSUME NEW x \in Sessions \ {s}
        PROVE  /\ cur'[x] = cur[x]
               /\ cur[x].pc \in {"lookup", "send", "add", "register"} =>
                     /\ asked'[x][cur[x].id] = cur[x].track
                     /\ cur[x].id \notin dropped'[x] /\ subscribed'[x][cur[x].id] = None
               /\ cur[x].pc \in {"add", "register"} => rsTrack[cur[x].rs] = cur[x].track
    BY <1>2, <1>4, Zenon DEF IInv, HandlerInv
  <2>4. /\ asked'[s][cur[s].id] = t
        /\ cur[s].id \notin dropped'[s] /\ subscribed'[s][cur[s].id] = None
    BY <1>1, <1>2, Zenon DEF IInv, HandlerInv, t
  <2> QED BY <1>3, <1>4, <1>5, <2>1, <2>2, <2>3, <2>4 DEF HandlerInv
<1>11. MemberInv'
  BY <1>1, <1>2, <1>4 DEF IInv, MemberInv
<1>12. WritesInv' /\ RoutedToAsked'
  <2>1. \A x, j : Answerable(x, j) => Answerable(x, j)'
    BY <1>2, <1>5, Zenon DEF Answerable
  <2> QED BY <1>2, <2>1 DEF IInv, WritesInv, RoutedToAsked, Answerable
<1>13. ClosingInv'
  BY <1>1, <1>2, <1>3, <1>4, Zenon DEF IInv, ClosingInv
<1>14. AnswerInv'
  <2>1. ASSUME NEW x \in Sessions PROVE \A q \in Tracks : GetSubID(x, q) \subseteq GetSubID(x, q)'
    <3>1. ASSUME NEW j \in SubIDs, subscribed[x][j] # None
          PROVE  rsTrack'[subscribed[x][j]] = rsTrack[subscribed[x][j]]
      <4>1. subscribed[x][j] \in Streams /\ subscribed[x][j] <= nstreams
        BY <3>1 DEF IInv, TypeOK, SubscribedInv
      <4> QED BY <1>5, <1>8, <4>1, Zenon
    <3> QED BY <1>2, <3>1, Zenon DEF GetSubID
  <2>2. ASSUME NEW x \in Sessions, cur'[x].pc = "ok"
        PROVE  /\ cur[x].pc = "ok" /\ cur'[x] = cur[x] /\ rsTrack[cur[x].rs] \in Tracks
               /\ rsTrack'[cur[x].rs] = rsTrack[cur[x].rs] /\ cur[x].due \subseteq Sessions
    <3>1. x # s /\ cur'[x] = cur[x]
      BY <1>3, <1>4, <2>2, Zenon
    <3>2. cur[x].rs \in Streams /\ cur[x].rs <= nstreams /\ cur[x].due \subseteq Sessions
      BY <1>1, <2>2, <3>1, HandlerFields, Zenon DEF IInv, HandlerInv
    <3> QED BY <1>5, <1>8, <2>2, <3>1, <3>2, Zenon DEF IInv, StreamsHaveTracks
  <2>3. ASSUME NEW x \in Sessions, cur'[x].pc = "ok", NEW y \in cur'[x].due
        PROVE  (Answered(y, rsTrack[cur[x].rs]) \/ Gone(y) \/ Owed(y, x))'
    <3>1. y \in Sessions /\ (Answered(y, rsTrack[cur[x].rs]) \/ Gone(y) \/ Owed(y, x))
      BY <2>2, <2>3, Zenon DEF IInv, AnswerInv
    <3>2. CASE Answered(y, rsTrack[cur[x].rs]) \/ Gone(y)
      BY <1>2, <2>2, <2>3, <3>2, Zenon DEF Answered, Gone
    <3>3. CASE Owed(y, x)
      <4>1. GetSubID(y, rsTrack[cur[x].rs])' # {}
        BY <2>1, <2>2, <2>3, <3>1, <3>3, Zenon DEF Owed
      <4> QED BY <2>2, <2>3, <3>3, <4>1, Zenon DEF Owed
    <3> QED BY <3>1, <3>2, <3>3, Zenon
  <2> QED BY <2>3, Zenon DEF AnswerInv
<1> QED BY <1>6, <1>7, <1>9, <1>10, <1>11, <1>12, <1>13, <1>14, Zenon DEF IInv

-----------------------------------------------------------------------------
\* AddStream registers the stream under the id of the subscription.
LEMMA AddStreamIInv ==
    ASSUME IInv, NEW s \in Sessions, AddStream(s)
    PROVE  IInv'
<1> DEFINE i == cur[s].id
           r == cur[s].rs
<1> USE RelayAssumption
<1>1. /\ cur \in [Sessions -> Handlers] /\ rsSubs \in [Streams -> SUBSET Sessions]
      /\ subscribed \in [Sessions -> [SubIDs -> Streams \cup {None}]]
      /\ cur[s].pc = "register" /\ i \in SubIDs /\ r \in Streams /\ r # None
      /\ r <= nstreams /\ rsTrack[r] = asked[s][i] /\ i \notin dropped[s] /\ subscribed[s][i] = None
  <2>1. /\ cur \in [Sessions -> Handlers] /\ rsSubs \in [Streams -> SUBSET Sessions]
        /\ subscribed \in [Sessions -> [SubIDs -> Streams \cup {None}]]
        /\ cur[s].pc = "register"
    BY Zenon DEF IInv, TypeOK, AddStream, Running
  <2>2. i \in SubIDs /\ r \in Streams
    BY <2>1, HandlerFields, Zenon
  <2>3. r # None
    BY <2>2, RelayAssumption, Zenon DEF Streams
  <2>4. r <= nstreams /\ rsTrack[r] = asked[s][i] /\ i \notin dropped[s] /\ subscribed[s][i] = None
    BY <2>1, Zenon DEF IInv, HandlerInv
  <2> QED BY <2>1, <2>2, <2>3, <2>4, Zenon
<1>2. /\ subscribed' = [subscribed EXCEPT ![s][i] = r]
      /\ cur' = [cur EXCEPT ![s] = Idle]
      /\ \/ UNCHANGED closing
         \/ alive[s] = "closing" /\ closing' = [closing EXCEPT ![s] = @ \cup {r}]
      /\ crashed' \in BOOLEAN
      /\ UNCHANGED <<namespaces, alive, nstreams, rsPub, rsTrack, rsSubs, writes,
                     forwards, ngroups, peerVars>>
  BY Zenon DEF AddStream, Continue
<1> HIDE DEF i, r
<1>3. /\ cur' \in [Sessions -> Handlers] /\ cur'[s].pc = "idle"
      /\ \A x \in Sessions \ {s} : cur'[x] = cur[x]
  <2>1. Idle \in Handlers /\ Idle.pc = "idle"
    BY Zenon DEF Idle, Handlers
  <2> QED BY <1>1, <1>2, <2>1, Zenon
<1>4. /\ subscribed' \in [Sessions -> [SubIDs -> Streams \cup {None}]] /\ subscribed'[s][i] = r
      /\ \A x \in Sessions, j \in SubIDs : subscribed[x][j] # None => subscribed'[x][j] = subscribed[x][j]
      /\ \A x \in Sessions, j \in SubIDs : ~(x = s /\ j = i) => subscribed'[x][j] = subscribed[x][j]
  BY <1>1, <1>2, Zenon
<1>5. /\ closing' \in [Sessions -> SUBSET Streams]
      /\ \A x \in Sessions : closing[x] \subseteq closing'[x]
      /\ \A x \in Sessions : alive[x] = "closed" => closing'[x] = closing[x]
  <2>1. closing \in [Sessions -> SUBSET Streams]
    BY Zenon DEF IInv, TypeOK
  <2>2. CASE UNCHANGED closing
    BY <2>1, <2>2, Zenon
  <2>3. CASE alive[s] = "closing" /\ closing' = [closing EXCEPT ![s] = @ \cup {r}]
    BY <1>1, <2>1, <2>3, Zenon
  <2> QED BY <1>2, <2>2, <2>3, Zenon
<1>6. TypeOK'
  BY <1>2, <1>3, <1>4, <1>5, Zenon DEF IInv, TypeOK, peerVars
<1>7. StreamsHaveTracks' /\ WritesInv' /\ RoutedToAsked'
  BY <1>2, KeepsTracks, KeepsRouted, Zenon DEF peerVars
<1>8. SubscribedInv'
  <2>1. nstreams' = nstreams /\ rsTrack' = rsTrack /\ asked' = asked /\ dropped' = dropped
    BY <1>2, Zenon DEF peerVars
  <2>2. ASSUME NEW x \in Sessions, NEW j \in SubIDs PROVE SubscribedInv!(x)!(j)'
    <3>1. SubscribedInv!(x)!(j)
      BY Zenon DEF IInv, SubscribedInv
    <3>2. CASE x = s /\ j = i
      BY <1>1, <1>4, <2>1, <3>1, <3>2, Zenon
    <3>3. CASE ~(x = s /\ j = i)
      BY <1>4, <2>1, <3>1, <3>3, Zenon
    <3> QED BY <3>2, <3>3, Zenon
  <2> QED BY <2>2, Zenon DEF SubscribedInv
<1>9. HandlerInv'
  <2>1. ASSUME NEW x \in Sessions \ {s} PROVE HandlerInv!(x)'
    <3>1. cur[x].pc \in {"lookup", "send", "add", "register"} => cur[x].id \in SubIDs
      BY <1>1, HandlerFields, Zenon
    <3> QED BY <1>2, <1>3, <1>4, <3>1, Zenon DEF IInv, HandlerInv, peerVars
  <2>2. HandlerInv!(s)'
    BY <1>3, Zenon
  <2> QED BY <2>1, <2>2, Zenon DEF HandlerInv
<1>10. MemberInv'
  <2>1. ASSUME NEW q \in Streams, NEW x \in rsSubs[q]
        PROVE  (\E j \in SubIDs \ dropped[x] : subscribed'[x][j] = q)
               \/ (cur'[x].pc = "register" /\ cur'[x].rs = q)
    <3>1. x \in Sessions /\ q # None
      BY <1>1, Zenon DEF Streams
    <3>2. CASE \E j \in SubIDs \ dropped[x] : subscribed[x][j] = q
      BY <1>4, <3>1, <3>2, Zenon
    <3>3. CASE cur[x].pc = "register" /\ cur[x].rs = q
      BY <1>1, <1>3, <1>4, <3>1, <3>3, Zenon DEF r
    <3> QED BY <3>2, <3>3, Zenon DEF IInv, MemberInv
  <2> QED BY <1>2, <2>1, Zenon DEF MemberInv, peerVars
<1>11. ClosingInv'
  <2>1. ASSUME NEW x \in Sessions \ {s} PROVE ClosingInv!(x)'
    <3>1. closing'[x] = closing[x]
      BY <1>2, Zenon DEF IInv, TypeOK
    <3> QED BY <1>2, <1>3, <3>1, Zenon DEF IInv, ClosingInv
  <2>2. ClosingInv!(s)'
    <3>1. alive[s] # "open" =>
             \A q \in Streams : s \in rsSubs[q] => q \in closing[s] \/ q = r
      BY <1>1, Zenon DEF IInv, ClosingInv, r
    <3> QED BY <1>2, <1>3, <1>5, <3>1, Zenon DEF IInv, ClosingInv
  <2> QED BY <2>1, <2>2 DEF ClosingInv
<1>12. AnswerInv'
  <2>1. ASSUME NEW x \in Sessions, NEW q PROVE GetSubID(x, q) \subseteq GetSubID(x, q)'
    BY <1>2, <1>4, Zenon DEF GetSubID
  <2>2. ASSUME NEW p \in Sessions, cur'[p].pc = "ok", NEW y \in cur'[p].due
        PROVE  (Answered(y, rsTrack[cur[p].rs]) \/ Gone(y) \/ Owed(y, p))'
    <3>1. p # s /\ cur'[p] = cur[p] /\ rsTrack' = rsTrack
      BY <1>2, <1>3, <2>2, Zenon
    <3>2. y \in Sessions /\ (Answered(y, rsTrack[cur[p].rs]) \/ Gone(y) \/ Owed(y, p))
      BY <1>1, <2>2, <3>1, HandlerFields, Zenon DEF IInv, AnswerInv
    <3>3. CASE Answered(y, rsTrack[cur[p].rs]) \/ Gone(y)
      BY <1>2, <3>1, <3>3, Zenon DEF Answered, Gone, peerVars
    <3>4. CASE Owed(y, p)
      <4>1. GetSubID(y, rsTrack[cur[p].rs])' # {}
        BY <2>1, <3>1, <3>2, <3>4, Zenon DEF Owed
      <4> QED BY <3>1, <3>4, <4>1, Zenon DEF Owed
    <3> QED BY <3>2, <3>3, <3>4, Zenon
  <2> QED BY <2>2, Zenon DEF AnswerInv
<1> QED BY <1>6, <1>7, <1>8, <1>9, <1>10, <1>11, <1>12, Zenon DEF IInv

\* Taking s out of r's Subscribers: what RemoveSubscriber does to the handlers that iterate.
LEMMA WithoutHandlers ==
    ASSUME cur \in [Sessions -> Handlers], NEW s \in Sessions, NEW r \in Streams, cur' = Without(s, r)
    PROVE  /\ cur' \in [Sessions -> Handlers]
           /\ \A p \in Sessions :
                 /\ cur'[p].pc = cur[p].pc
                 /\ cur[p].pc \in {"lookup", "send", "add", "register"} => cur'[p] = cur[p]
                 /\ cur[p].pc = "ok" =>
                       /\ cur'[p].rs = cur[p].rs /\ cur'[p].due = cur[p].due
                       /\ \A x \in cur[p].todo : x # s => x \in cur'[p].todo
<1>1. ASSUME NEW p \in Sessions
      PROVE  /\ cur'[p] \in Handlers
             /\ cur'[p].pc = cur[p].pc
             /\ cur[p].pc \in {"lookup", "send", "add", "register"} => cur'[p] = cur[p]
             /\ cur[p].pc = "ok" =>
                   /\ cur'[p].rs = cur[p].rs /\ cur'[p].due = cur[p].due
                   /\ \A x \in cur[p].todo : x # s => x \in cur'[p].todo
  <2>1. CASE cur[p].pc = "ok" /\ cur[p].rs = r
    <3>1. cur[p].todo \ {s} \in SUBSET Sessions
      BY <2>1, HandlerFields, Zenon
    <3> DEFINE d == [cur[p] EXCEPT !.todo = cur[p].todo \ {s}]
    <3>2. cur'[p] = d
      BY <2>1, Zenon DEF Without
    <3>3. /\ d \in Handlers /\ d.pc = "ok"
          /\ d.rs = cur[p].rs /\ d.due = cur[p].due /\ d.todo = cur[p].todo \ {s}
      BY <2>1, <3>1, HandlerTodo, Zenon
    <3> HIDE DEF d
    <3> QED BY <2>1, <3>2, <3>3, Zenon
  <2>2. CASE ~(cur[p].pc = "ok" /\ cur[p].rs = r)
    BY <2>2, Zenon DEF Without
  <2> QED BY <2>1, <2>2, Zenon
<1>2. cur' = [p \in Sessions |-> cur'[p]]
  BY Zenon DEF Without
<1> QED BY <1>1, <1>2, Zenon

\* HandleUnsubscribe takes the handler out of the stream of the id and marks the id.
LEMMA HandleUnsubscribeIInv ==
    ASSUME IInv, NEW s \in Sessions, NEW i \in SubIDs, HandleUnsubscribe(s, i)
    PROVE  IInv'
<1> DEFINE r == subscribed[s][i]
<1>1. /\ cur \in [Sessions -> Handlers] /\ rsSubs \in [Streams -> SUBSET Sessions]
      /\ dropped \in [Sessions -> SUBSET SubIDs] /\ r \in Streams \cup {None}
      /\ cur[s].pc = "idle" /\ alive[s] = "open" /\ asked[s][i] # None
      /\ dropped' = [dropped EXCEPT ![s] = @ \cup {i}]
      /\ UNCHANGED <<namespaces, alive, nstreams, rsPub, rsTrack, subscribed, closing, writes,
                     forwards, ngroups, asked, requested, accepted, oks, headers>>
  BY DEF IInv, TypeOK, HandleUnsubscribe, Receive
<1>2. /\ cur' \in [Sessions -> Handlers] /\ crashed' \in BOOLEAN
      /\ \A p \in Sessions :
            /\ cur'[p].pc = cur[p].pc
            /\ cur[p].pc \in {"lookup", "send", "add", "register"} => cur'[p] = cur[p]
            /\ cur[p].pc = "ok" =>
                  /\ cur'[p].rs = cur[p].rs /\ cur'[p].due = cur[p].due
                  /\ \A x \in cur[p].todo : x # s => x \in cur'[p].todo
      /\ rsSubs' \in [Streams -> SUBSET Sessions]
      /\ \A q \in Streams : rsSubs'[q] \subseteq rsSubs[q]
      /\ \A q \in Streams : q = r => s \notin rsSubs'[q]
  <2>1. CASE r = None
    <3>1. UNCHANGED <<rsSubs, cur, crashed>> /\ \A q \in Streams : q # r
      BY <2>1, RelayAssumption, Zenon DEF HandleUnsubscribe, Streams
    <3> QED BY <1>1, <3>1, Zenon DEF IInv, TypeOK
  <2>2. CASE r # None
    <3>1. /\ r \in Streams /\ cur' = Without(s, r) /\ rsSubs' = [rsSubs EXCEPT ![r] = @ \ {s}]
          /\ crashed' \in BOOLEAN
      BY <1>1, <2>2, Zenon DEF HandleUnsubscribe, Iterating
    <3> HIDE DEF r
    <3>2. /\ rsSubs' \in [Streams -> SUBSET Sessions]
          /\ \A q \in Streams : rsSubs'[q] \subseteq rsSubs[q]
          /\ \A q \in Streams : q = r => s \notin rsSubs'[q]
      BY <1>1, <3>1, Zenon
    <3> QED BY <1>1, <3>1, <3>2, WithoutHandlers, Zenon
  <2> QED BY <2>1, <2>2, Zenon
<1>3. /\ dropped' \in [Sessions -> SUBSET SubIDs] /\ dropped'[s] = dropped[s] \cup {i}
      /\ \A x \in Sessions \ {s} : dropped'[x] = dropped[x]
  BY <1>1, Zenon
<1>4. TypeOK'
  <2>1. \A q \in Streams : q > nstreams => rsSubs'[q] = {}
    BY <1>2, Zenon DEF IInv, TypeOK
  <2> QED BY <1>1, <1>2, <1>3, <2>1, Zenon DEF IInv, TypeOK
<1>5. StreamsHaveTracks' /\ WritesInv' /\ RoutedToAsked'
  BY <1>1, KeepsTracks, KeepsRouted, Zenon
<1>6. SubscribedInv'
  <2>1. nstreams' = nstreams /\ rsTrack' = rsTrack /\ asked' = asked /\ subscribed' = subscribed
    BY <1>1, Zenon
  <2>2. ASSUME NEW x \in Sessions, NEW j \in SubIDs PROVE SubscribedInv!(x)!(j)'
    <3>1. SubscribedInv!(x)!(j)
      BY Zenon DEF IInv, SubscribedInv
    <3>2. asked[x][j] = None => j \notin dropped'[x]
      <4>1. CASE x = s
        BY <1>1, <1>3, <3>1, <4>1, Zenon
      <4>2. CASE x # s
        BY <1>3, <3>1, <4>2, Zenon
      <4> QED BY <4>1, <4>2, Zenon
    <3> QED BY <2>1, <3>1, <3>2, Zenon
  <2> QED BY <2>2, Zenon DEF SubscribedInv
<1>7. HandlerInv'
  <2>1. nstreams' = nstreams /\ rsTrack' = rsTrack /\ subscribed' = subscribed /\ asked' = asked
    BY <1>1, Zenon
  <2>2. HandlerInv!(s)'
    BY <1>1, <1>2, Zenon
  <2>3. ASSUME NEW x \in Sessions \ {s} PROVE HandlerInv!(x)'
    <3>1. HandlerInv!(x) /\ dropped'[x] = dropped[x] /\ cur'[x].pc = cur[x].pc
      BY <1>1, <1>2, Zenon DEF IInv, HandlerInv
    <3>2. CASE cur[x].pc \in {"lookup", "send", "add", "register"}
      BY <1>2, <2>1, <3>1, <3>2, Zenon
    <3>3. CASE cur[x].pc = "ok"
      BY <1>2, <2>1, <3>1, <3>3, Zenon
    <3>4. CASE cur[x].pc \notin {"lookup", "send", "add", "register", "ok"}
      BY <1>2, <3>4, Zenon
    <3> QED BY <3>2, <3>3, <3>4, Zenon
  <2>4. \A x \in Sessions : HandlerInv!(x)'
    BY <2>2, <2>3, Zenon
  <2> QED BY <2>4, Zenon DEF HandlerInv
<1>8. MemberInv'
  <2>1. ASSUME NEW q \in Streams, NEW x \in rsSubs'[q]
        PROVE  (\E j \in SubIDs \ dropped'[x] : subscribed[x][j] = q)
               \/ (cur'[x].pc = "register" /\ cur'[x].rs = q)
    <3>1. x \in Sessions /\ x \in rsSubs[q] /\ (x = s => q # r)
      BY <1>1, <1>2, Zenon
    <3>2. CASE x = s
      <4>1. PICK j \in SubIDs \ dropped[s] : subscribed[s][j] = q
        BY <1>1, <3>1, <3>2, Zenon DEF IInv, MemberInv
      <4> QED BY <1>3, <3>1, <3>2, <4>1, Zenon
    <3>3. CASE x # s
      BY <1>2, <1>3, <3>1, <3>3 DEF IInv, MemberInv
    <3> QED BY <3>2, <3>3, Zenon
  <2>2. subscribed' = subscribed
    BY <1>1, Zenon
  <2> QED BY <2>1, <2>2, Zenon DEF MemberInv
<1>9. ClosingInv'
  BY <1>1, <1>2, KeepsClosing, Zenon
<1>10. AnswerInv'
  <2>1. ASSUME NEW p \in Sessions, cur'[p].pc = "ok", NEW x \in cur'[p].due
        PROVE  (Answered(x, rsTrack[cur[p].rs]) \/ Gone(x) \/ Owed(x, p))'
    <3>1. /\ cur[p].pc = "ok" /\ cur'[p].rs = cur[p].rs /\ x \in cur[p].due /\ x \in Sessions
      BY <1>1, <1>2, <2>1, HandlerFields, ZenonT(40)
    <3>2. Answered(x, rsTrack[cur[p].rs]) \/ Gone(x) \/ Owed(x, p)
      BY <3>1, Zenon DEF IInv, AnswerInv
    <3>3. CASE x = s
      BY <1>3, <3>3, Zenon DEF Gone
    <3>4. CASE x # s
      <4>1. /\ oks' = oks /\ asked' = asked /\ rsTrack' = rsTrack /\ subscribed' = subscribed
            /\ alive' = alive /\ dropped'[x] = dropped[x]
        BY <1>1, <1>3, <3>1, <3>4, Zenon
      <4>2. CASE Answered(x, rsTrack[cur[p].rs])
        BY <3>1, <4>1, <4>2, Zenon DEF Answered
      <4>3. CASE Gone(x)
        BY <4>1, <4>3, Zenon DEF Gone
      <4>4. CASE Owed(x, p)
        <5>1. x \in cur'[p].todo
          BY <1>2, <3>1, <3>4, <4>4, Zenon DEF Owed
        <5>2. rsTrack'[cur'[p].rs] = rsTrack[cur[p].rs]
          BY <3>1, <4>1, Zenon
        <5> QED BY <4>1, <4>4, <5>1, <5>2, Zenon DEF Owed, GetSubID
      <4> QED BY <3>2, <4>2, <4>3, <4>4, Zenon
    <3> QED BY <3>3, <3>4, Zenon
  <2> QED BY <2>1, Zenon DEF AnswerInv
<1> QED BY <1>4, <1>5, <1>6, <1>7, <1>8, <1>9, <1>10, Zenon DEF IInv

\* HandleSubscribeOk starts ForwardSubscribeOk: those who were settled have an entry.
LEMMA HandleSubscribeOkIInv ==
    ASSUME IInv, NEW p \in Sessions, NEW r \in Streams, HandleSubscribeOk(p, r)
    PROVE  IInv'
<1> DEFINE c == [pc |-> "ok", rs |-> r, todo |-> rsSubs[r], due |-> Settled(r)]
<1>1. /\ cur \in [Sessions -> Handlers] /\ rsSubs \in [Streams -> SUBSET Sessions]
      /\ cur[p].pc = "idle" /\ alive[p] = "open"
      /\ accepted' = accepted \cup {r}
      /\ cur' = [cur EXCEPT ![p] = IF r \in IncomingStreams(p) THEN c ELSE Idle]
      /\ UNCHANGED <<relayVars, closing, writes, forwards, ngroups, crashed,
                     asked, dropped, requested, oks, headers>>
  BY Zenon DEF IInv, TypeOK, HandleSubscribeOk, Receive, Continue
<1>2. /\ Idle \in Handlers /\ Idle.pc = "idle"
      /\ c \in Handlers /\ c.pc = "ok" /\ c.rs = r /\ c.todo = rsSubs[r] /\ c.due = Settled(r)
  BY <1>1, Zenon DEF Idle, Handlers, Settled
<1>3. r \in IncomingStreams(p) => r <= nstreams
  BY DEF IInv, TypeOK, IncomingStreams
<1> HIDE DEF c
<1>4. /\ cur' \in [Sessions -> Handlers]
      /\ \A x \in Sessions \ {p} : cur'[x] = cur[x]
      /\ cur'[p].pc = "idle" \/ (cur'[p] = c /\ r <= nstreams)
  BY <1>1, <1>2, <1>3, Zenon
<1>5. TypeOK'
  BY <1>1, <1>4, Zenon DEF IInv, TypeOK, relayVars
<1>6. StreamsHaveTracks' /\ SubscribedInv' /\ WritesInv' /\ RoutedToAsked'
  BY <1>1, KeepsTracks, KeepsRouted, Zenon DEF relayVars
<1>7. HandlerInv'
  BY <1>1, <1>2, <1>4, Zenon DEF IInv, HandlerInv, relayVars
<1>8. MemberInv' /\ ClosingInv'
  BY <1>1, <1>2, <1>4, KeepsMembers, KeepsClosing, Zenon DEF relayVars
<1>9. AnswerInv'
  <2>1. ASSUME NEW x \in Sessions \ {p}, cur'[x].pc = "ok", NEW y \in cur'[x].due
        PROVE  (Answered(y, rsTrack[cur[x].rs]) \/ Gone(y) \/ Owed(y, x))'
    <3>1. Answered(y, rsTrack[cur[x].rs]) \/ Gone(y) \/ Owed(y, x)
      BY <1>4, <2>1, Zenon DEF IInv, AnswerInv
    <3>2. /\ alive' = alive /\ rsTrack' = rsTrack /\ subscribed' = subscribed /\ cur'[x] = cur[x]
          /\ asked' = asked /\ dropped' = dropped /\ oks' = oks
      BY <1>1, <1>4, Zenon DEF relayVars
    <3> QED BY <3>1, <3>2, Zenon DEF Answered, Gone, Owed, GetSubID
  <2>2. ASSUME cur'[p].pc = "ok", NEW y \in cur'[p].due
        PROVE  Owed(y, p)'
    <3>1. cur'[p] = c /\ y \in rsSubs[r] /\ y \in Sessions /\ cur[y].pc = "idle"
      BY <1>1, <1>2, <1>4, <2>2, Zenon DEF Settled
    <3>2. PICK j \in SubIDs : subscribed[y][j] = r
      BY <3>1, Zenon DEF IInv, MemberInv
    <3>3. j \in GetSubID(y, rsTrack[r])
      BY <3>2, RelayAssumption, Zenon DEF GetSubID, Streams
    <3> QED BY <1>1, <1>2, <3>1, <3>3, Zenon DEF Owed, GetSubID, relayVars
  <2> QED BY <2>1, <2>2, Zenon DEF AnswerInv
<1> QED BY <1>5, <1>6, <1>7, <1>8, <1>9, Zenon DEF IInv

\* An id that GetSubID finds was asked for the track it was looked up for, which has a stream.
LEMMA GetSubIDAsked ==
    ASSUME IInv, NEW s \in Sessions, NEW t, NEW i \in GetSubID(s, t)
    PROVE  i \in SubIDs /\ asked[s][i] = t /\ t \in Tracks /\ Answerable(s, i)
<1>1. i \in SubIDs /\ subscribed[s][i] # None /\ rsTrack[subscribed[s][i]] = t
  BY Zenon DEF GetSubID
<1>2. subscribed[s][i] \in 1 .. nstreams /\ asked[s][i] = t
  BY <1>1, RelayAssumption DEF IInv, TypeOK, SubscribedInv, Streams
<1> QED BY <1>1, <1>2, RelayAssumption, Zenon DEF IInv, StreamsHaveTracks, Answerable

\* SendSubscribeOk answers one subscriber, under an id it asked for the stream's track.
LEMMA SendSubscribeOkIInv ==
    ASSUME IInv, NEW p \in Sessions, SendSubscribeOk(p)
    PROVE  IInv'
<1> DEFINE t == rsTrack[cur[p].rs]
<1>1. /\ cur \in [Sessions -> Handlers] /\ rsSubs \in [Streams -> SUBSET Sessions]
      /\ oks \in [Sessions -> SUBSET SubIDs]
      /\ cur[p].pc = "ok" /\ cur[p].todo \subseteq Sessions
      /\ UNCHANGED <<relayVars, closing, writes, forwards, ngroups, crashed,
                     asked, dropped, requested, accepted, headers>>
  BY HandlerFields, Zenon DEF IInv, TypeOK, SendSubscribeOk, Running
<1>2. PICK s \in cur[p].todo :
         /\ LET ids == GetSubID(s, t)
            IN  IF ids = {} \/ alive[s] # "open" THEN UNCHANGED oks
                ELSE \E i \in ids : oks' = [oks EXCEPT ![s] = @ \cup {i}]
         /\ cur' = [cur EXCEPT ![p] = [cur[p] EXCEPT !.todo = @ \ {s}]]
  BY Zenon DEF SendSubscribeOk, Continue
<1>3. /\ cur' \in [Sessions -> Handlers] /\ cur'[p].pc = "ok"
      /\ cur'[p].rs = cur[p].rs /\ cur'[p].due = cur[p].due /\ cur'[p].todo = cur[p].todo \ {s}
      /\ \A x \in Sessions \ {p} : cur'[x] = cur[x]
  <2>1. cur[p] \in Handlers /\ cur[p].todo \ {s} \in SUBSET Sessions
    BY <1>1, Zenon
  <2> DEFINE d == [cur[p] EXCEPT !.todo = cur[p].todo \ {s}]
  <2>2. /\ d \in Handlers /\ d.pc = "ok"
        /\ d.rs = cur[p].rs /\ d.due = cur[p].due /\ d.todo = cur[p].todo \ {s}
    BY <1>1, <2>1, HandlerTodo, ZenonT(40)
  <2>3. cur' = [cur EXCEPT ![p] = d]
    BY <1>2, Zenon
  <2> HIDE DEF d
  <2> QED BY <1>1, <2>2, <2>3, Zenon
<1>4. s \in Sessions
  BY <1>1, Zenon
<1> HIDE DEF t
<1>5. /\ oks' \in [Sessions -> SUBSET SubIDs]
      /\ \A x \in Sessions : oks[x] \subseteq oks'[x]
      /\ \A x \in Sessions : \A j \in oks'[x] : j \in oks[x] \/ Answerable(x, j)
      /\ GetSubID(s, t) = {} \/ alive[s] # "open" \/ \E j \in oks'[s] : asked[s][j] = t
  <2>1. CASE GetSubID(s, t) = {} \/ alive[s] # "open"
    BY <1>1, <1>2, <2>1, Zenon
  <2>2. CASE ~(GetSubID(s, t) = {} \/ alive[s] # "open")
    <3>1. PICK i \in GetSubID(s, t) : oks' = [oks EXCEPT ![s] = @ \cup {i}]
      BY <1>2, <2>2, Zenon
    <3>2. i \in SubIDs /\ asked[s][i] = t /\ Answerable(s, i)
      BY <1>4, <3>1, GetSubIDAsked, Zenon
    <3> QED BY <1>1, <1>4, <3>1, <3>2, Zenon
  <2> QED BY <2>1, <2>2, Zenon
<1>6. TypeOK'
  BY <1>1, <1>3, <1>5, Zenon DEF IInv, TypeOK, relayVars
<1>7. StreamsHaveTracks' /\ SubscribedInv' /\ WritesInv'
  BY <1>1, KeepsTracks, KeepsRouted, Zenon DEF relayVars
<1>8. RoutedToAsked'
  BY <1>1, <1>5, Zenon DEF IInv, RoutedToAsked, Answerable, relayVars
<1>9. HandlerInv'
  BY <1>1, <1>3, KeepsHandlers, Zenon DEF IInv, HandlerInv, relayVars
<1>10. MemberInv' /\ ClosingInv'
  BY <1>1, <1>3, KeepsMembers, KeepsClosing, Zenon DEF relayVars
<1>11. AnswerInv'
  <2>1. ASSUME NEW x \in Sessions, NEW q, Answered(x, q) PROVE Answered(x, q)'
    BY <1>1, <1>5, <2>1, Zenon DEF Answered
  <2>2. ASSUME NEW x \in Sessions, cur'[x].pc = "ok", NEW y \in cur'[x].due
        PROVE  (Answered(y, rsTrack[cur[x].rs]) \/ Gone(y) \/ Owed(y, x))'
    <3>1. /\ cur[x].pc = "ok" /\ y \in cur[x].due /\ y \in Sessions
          /\ cur'[x].rs = cur[x].rs /\ rsTrack' = rsTrack
      BY <1>1, <1>3, <2>2, HandlerFields, Zenon DEF relayVars
    <3>2. Answered(y, rsTrack[cur[x].rs]) \/ Gone(y) \/ Owed(y, x)
      BY <3>1, Zenon DEF IInv, AnswerInv
    <3>3. CASE Answered(y, rsTrack[cur[x].rs])
      BY <2>1, <3>1, <3>3, Zenon
    <3>4. CASE Gone(y)
      BY <1>1, <3>4, Zenon DEF Gone, relayVars
    <3>5. CASE Owed(y, x) /\ x = p /\ y = s
      BY <1>1, <1>5, <3>1, <3>5, Zenon DEF Answered, Gone, Owed, relayVars, t
    <3>6. CASE Owed(y, x) /\ ~(x = p /\ y = s)
      <4>1. y \in cur'[x].todo
        BY <1>3, <3>1, <3>6, Zenon DEF Owed
      <4>2. subscribed' = subscribed
        BY <1>1, Zenon DEF relayVars
      <4> QED BY <3>1, <3>6, <4>1, <4>2, Zenon DEF Owed, GetSubID
    <3> QED BY <3>2, <3>3, <3>4, <3>5, <3>6, Zenon
  <2> QED BY <2>2, Zenon DEF AnswerInv
<1> QED BY <1>6, <1>7, <1>8, <1>9, <1>10, <1>11, Zenon DEF IInv

\* ForwardSubscribeOk returns.


\* ForwardSubscribeOk returns.
LEMMA ForwardSubscribeOkReturnsIInv ==
    ASSUME IInv, NEW p \in Sessions, ForwardSubscribeOkReturns(p)
    PROVE  IInv'
<1>1. /\ cur \in [Sessions -> Handlers] /\ rsSubs \in [Streams -> SUBSET Sessions]
      /\ cur[p].pc = "ok"
      /\ UNCHANGED <<relayVars, closing, writes, forwards, ngroups, crashed, peerVars>>
  BY Zenon DEF IInv, TypeOK, ForwardSubscribeOkReturns, Running
<1>2. /\ cur' \in [Sessions -> Handlers] /\ cur'[p].pc = "idle"
      /\ \A x \in Sessions \ {p} : cur'[x] = cur[x]
  <2>1. Idle \in Handlers /\ Idle.pc = "idle"
    BY Zenon DEF Idle, Handlers
  <2> QED BY <1>1, <2>1, Zenon DEF ForwardSubscribeOkReturns, Continue
<1>3. TypeOK'
  BY <1>1, <1>2, Zenon DEF IInv, TypeOK, relayVars, peerVars
<1>4. StreamsHaveTracks' /\ HandlerInv' /\ SubscribedInv' /\ MemberInv'
  BY <1>1, <1>2, KeepsTracks, KeepsHandlers, KeepsMembers, Zenon DEF relayVars, peerVars
<1>5. WritesInv' /\ RoutedToAsked' /\ ClosingInv'
  BY <1>1, <1>2, KeepsRouted, KeepsClosing, Zenon DEF relayVars, peerVars
<1>6. AnswerInv'
  BY <1>1, <1>2, KeepsAnswers, Zenon DEF relayVars, peerVars
<1> QED BY <1>3, <1>4, <1>5, <1>6, Zenon DEF IInv

\* The goroutines write an answer, open streams or send a header: no stream, subscription or
\* handler changes, and what was written was asked for.
LEMMA GoroutineIInv ==
    ASSUME IInv, Goroutine \/ \E p \in Sessions : ForwardStream(p)
    PROVE  IInv'
<1>1. /\ rsSubs \in [Streams -> SUBSET Sessions] /\ rsTrack \in [Streams -> Tracks \cup {None}]
      /\ UNCHANGED <<relayVars, cur, closing, crashed, asked, dropped, requested, accepted>>
  BY Zenon DEF IInv, TypeOK, Goroutine, WriteControlMessage, ProcessMOQTStream, ForwardStream, peerVars
<1>2. \A x, j : Answerable(x, j) => Answerable(x, j)'
  BY <1>1, Zenon DEF Answerable, relayVars
<1>3. /\ oks' \in [Sessions -> SUBSET SubIDs]
      /\ \A x \in Sessions : oks[x] \subseteq oks'[x]
      /\ \A x \in Sessions : \A j \in oks'[x] : j \in oks[x] \/ Answerable(x, j)
      /\ writes' \subseteq writes
  <2>1. ASSUME NEW w \in writes, WriteControlMessage(w) PROVE <1>3!:
    <3>1. /\ oks \in [Sessions -> SUBSET SubIDs] /\ w.to \in Sessions
          /\ w.type = "ok" => w.id \in SubIDs /\ Answerable(w.to, w.id)
      BY Zenon DEF IInv, TypeOK, WritesInv
    <3> QED BY <2>1, <3>1, Zenon DEF WriteControlMessage
  <2>2. CASE UNCHANGED <<oks, writes>>
    BY <2>2, Zenon DEF IInv, TypeOK
  <2> QED BY <2>1, <2>2, Zenon DEF Goroutine, ProcessMOQTStream, ForwardStream, peerVars
<1>4. /\ headers' \subseteq Sessions \X SubIDs \X Groups \X Tracks
      /\ \A h \in headers' : asked[h[1]][h[2]] = h[4]
      /\ forwards' \subseteq [rs : Streams, sub : Sessions, group : Groups]
      /\ ngroups' \in 0 .. MaxGroups
  <2>1. ASSUME NEW f \in forwards, ProcessMOQTStream(f) PROVE <1>4!:
    <3>1. /\ f.sub \in Sessions /\ f.group \in Groups
          /\ headers \subseteq Sessions \X SubIDs \X Groups \X Tracks
          /\ \A h \in headers : asked[h[1]][h[2]] = h[4]
          /\ forwards' \subseteq [rs : Streams, sub : Sessions, group : Groups]
          /\ ngroups' \in 0 .. MaxGroups
      BY <2>1, Zenon DEF IInv, TypeOK, RoutedToAsked, ProcessMOQTStream
    <3>2. CASE UNCHANGED headers
      BY <3>1, <3>2, Zenon
    <3>3. ASSUME NEW i \in GetSubID(f.sub, rsTrack[f.rs]),
                 headers' = headers \cup {<<f.sub, i, f.group, rsTrack[f.rs]>>}
          PROVE  <1>4!:
      <4>1. i \in SubIDs /\ asked[f.sub][i] = rsTrack[f.rs] /\ rsTrack[f.rs] \in Tracks
        BY <3>1, GetSubIDAsked
      <4> QED BY <3>1, <3>3, <4>1
    <3> QED BY <2>1, <3>2, <3>3, Zenon DEF ProcessMOQTStream
  <2>2. ASSUME NEW p \in Sessions, ForwardStream(p) PROVE <1>4!:
    <3>1. /\ UNCHANGED headers /\ ngroups' = ngroups + 1 /\ ngroups < MaxGroups /\ ngroups \in 0 .. MaxGroups
          /\ headers \subseteq Sessions \X SubIDs \X Groups \X Tracks
          /\ \A h \in headers : asked[h[1]][h[2]] = h[4]
      BY <2>2, Zenon DEF ForwardStream, peerVars, IInv, TypeOK, RoutedToAsked
    <3>2. ngroups' \in 0 .. MaxGroups /\ ngroups + 1 \in Groups
      BY <3>1, RelayAssumption DEF Groups
    <3>3. PICK r \in requested[p] :
             forwards' = forwards \cup {[rs |-> r, sub |-> s, group |-> ngroups + 1] : s \in rsSubs[r]}
      BY <2>2, Zenon DEF ForwardStream
    <3>4. /\ r \in Streams /\ rsSubs[r] \subseteq Sessions
          /\ forwards \subseteq [rs : Streams, sub : Sessions, group : Groups]
      BY <1>1, <3>3, Zenon DEF IInv, TypeOK
    <3> QED BY <3>1, <3>2, <3>3, <3>4
  <2>3. CASE UNCHANGED <<headers, forwards, ngroups>>
    BY <2>3, Zenon DEF IInv, TypeOK, RoutedToAsked
  <2> QED BY <2>1, <2>2, <2>3, Zenon DEF Goroutine, WriteControlMessage
<1>5. TypeOK'
  <2>1. writes' \subseteq [to : Sessions, type : {"announce"}, ns : Namespaces]
                          \cup [to : Sessions, type : {"ok"}, id : SubIDs]
    BY <1>3, Zenon DEF IInv, TypeOK
  <2> QED BY <1>1, <1>3, <1>4, <2>1, Zenon DEF IInv, TypeOK, relayVars
<1>6. StreamsHaveTracks' /\ HandlerInv' /\ SubscribedInv' /\ MemberInv' /\ ClosingInv'
  BY <1>1, KeepsTracks, KeepsHandlers, KeepsMembers, KeepsClosing, Zenon DEF relayVars
<1>7. WritesInv' /\ RoutedToAsked'
  <2>1. asked' = asked
    BY <1>1, Zenon
  <2>2. WritesInv'
    BY <1>2, <1>3, Zenon DEF IInv, WritesInv
  <2>3. ASSUME NEW x \in Sessions, NEW j \in oks'[x] PROVE Answerable(x, j)'
    <3>1. j \in oks[x] => Answerable(x, j)
      BY Zenon DEF IInv, RoutedToAsked, Answerable
    <3> QED BY <1>2, <1>3, <3>1, Zenon
  <2> QED BY <1>4, <2>1, <2>2, <2>3, Zenon DEF RoutedToAsked, Answerable
<1>8. AnswerInv'
  <2>1. cur \in [Sessions -> Handlers]
    BY Zenon DEF IInv, TypeOK
  <2>2. ASSUME NEW x \in Sessions, cur[x].pc = "ok", NEW y \in cur[x].due
        PROVE  (Answered(y, rsTrack[cur[x].rs]) \/ Gone(y) \/ Owed(y, x))'
    <3>1. y \in Sessions /\ (Answered(y, rsTrack[cur[x].rs]) \/ Gone(y) \/ Owed(y, x))
      BY <2>1, <2>2, HandlerFields, Zenon DEF IInv, AnswerInv
    <3> QED BY <1>1, <1>3, <3>1, Zenon DEF Answered, Gone, Owed, GetSubID, relayVars
  <2> QED BY <1>1, <2>2, Zenon DEF AnswerInv
<1> QED BY <1>5, <1>6, <1>7, <1>8, Zenon DEF IInv

\* Close starts HandleClose on all streams registered at that moment.
LEMMA CloseIInv ==
    ASSUME IInv, NEW s \in Sessions, Close(s)
    PROVE  IInv'
<1> DEFINE all == {subscribed[s][i] : i \in SubIDs} \ {None}
<1>1. /\ cur \in [Sessions -> Handlers] /\ rsSubs \in [Streams -> SUBSET Sessions]
      /\ alive \in [Sessions -> {"open", "closing", "closed"}]
      /\ closing \in [Sessions -> SUBSET Streams] /\ all \subseteq Streams
      /\ alive[s] = "open"
      /\ alive' = [alive EXCEPT ![s] = "closing"] /\ closing' = [closing EXCEPT ![s] = all]
      /\ UNCHANGED <<namespaces, nstreams, rsPub, rsTrack, rsSubs, subscribed, cur, writes,
                     forwards, ngroups, crashed, peerVars>>
  BY DEF IInv, TypeOK, Close
<1>2. TypeOK'
  <2>1. /\ alive' \in [Sessions -> {"open", "closing", "closed"}]
        /\ closing' \in [Sessions -> SUBSET Streams]
    BY <1>1, Zenon
  <2> QED BY <1>1, <2>1, Zenon DEF IInv, TypeOK, peerVars
<1>3. StreamsHaveTracks' /\ HandlerInv' /\ SubscribedInv' /\ MemberInv' /\ WritesInv' /\ RoutedToAsked'
  BY <1>1, KeepsTracks, KeepsHandlers, KeepsMembers, KeepsRouted, Zenon DEF peerVars
<1>4. ClosingInv'
  <2>1. ASSUME NEW r \in Streams, s \in rsSubs[r]
        PROVE  r \in all \/ (cur[s].pc = "register" /\ cur[s].rs = r)
    BY <2>1, RelayAssumption DEF IInv, MemberInv, Streams
  <2>2. closing'[s] = all /\ alive'[s] = "closing"
    BY <1>1, Zenon
  <2> HIDE DEF all
  <2>3. ASSUME NEW x \in Sessions PROVE ClosingInv!(x)'
    <3>1. CASE x = s
      BY <1>1, <2>1, <2>2, <3>1, Zenon
    <3>2. CASE x # s
      BY <1>1, <3>2, Zenon DEF IInv, ClosingInv
    <3> QED BY <3>1, <3>2, Zenon
  <2> QED BY <2>3, Zenon DEF ClosingInv
<1>5. AnswerInv'
  BY <1>1, KeepsAnswers, Zenon DEF peerVars
<1> QED BY <1>2, <1>3, <1>4, <1>5, Zenon DEF IInv

\* HandleClose takes the handler out of one of the streams it has to visit.
LEMMA HandleCloseRemoveIInv ==
    ASSUME IInv, NEW s \in Sessions, HandleCloseRemove(s)
    PROVE  IInv'
<1>1. /\ cur \in [Sessions -> Handlers] /\ rsSubs \in [Streams -> SUBSET Sessions]
      /\ closing \in [Sessions -> SUBSET Streams]
      /\ alive[s] = "closing"
      /\ UNCHANGED <<namespaces, alive, nstreams, rsPub, rsTrack, subscribed, writes,
                     forwards, ngroups, peerVars>>
  BY Zenon DEF IInv, TypeOK, HandleCloseRemove
<1>2. PICK r \in closing[s] :
         /\ closing' = [closing EXCEPT ![s] = @ \ {r}]
         /\ rsSubs' = [rsSubs EXCEPT ![r] = @ \ {s}]
         /\ cur' = Without(s, r)
         /\ crashed' \in {FALSE, Iterating(r)}
  BY Zenon DEF HandleCloseRemove
<1>3. r \in Streams /\ crashed' \in BOOLEAN
  BY <1>1, <1>2, Zenon DEF Iterating
<1>4. /\ cur' \in [Sessions -> Handlers]
      /\ \A p \in Sessions :
            /\ cur'[p].pc = cur[p].pc
            /\ cur[p].pc \in {"lookup", "send", "add", "register"} => cur'[p] = cur[p]
            /\ cur[p].pc = "ok" =>
                  /\ cur'[p].rs = cur[p].rs /\ cur'[p].due = cur[p].due
                  /\ \A x \in cur[p].todo : x # s => x \in cur'[p].todo
  BY <1>1, <1>2, <1>3, WithoutHandlers, Zenon
<1>5. /\ rsSubs' \in [Streams -> SUBSET Sessions] /\ closing' \in [Sessions -> SUBSET Streams]
      /\ \A q \in Streams : rsSubs'[q] \subseteq rsSubs[q]
      /\ s \notin rsSubs'[r] /\ closing'[s] = closing[s] \ {r}
      /\ \A x \in Sessions \ {s} : closing'[x] = closing[x]
  BY <1>1, <1>2, <1>3, Zenon
<1>6. TypeOK'
  <2>1. \A q \in Streams : q > nstreams => rsSubs'[q] = {}
    BY <1>5, Zenon DEF IInv, TypeOK
  <2> QED BY <1>1, <1>3, <1>4, <1>5, <2>1, Zenon DEF IInv, TypeOK, peerVars
<1>7. StreamsHaveTracks' /\ SubscribedInv' /\ WritesInv' /\ RoutedToAsked'
  BY <1>1, KeepsTracks, KeepsRouted, Zenon DEF peerVars
<1>8. HandlerInv'
  <2>1. /\ nstreams' = nstreams /\ rsTrack' = rsTrack /\ subscribed' = subscribed
        /\ asked' = asked /\ dropped' = dropped
    BY <1>1, Zenon DEF peerVars
  <2>2. ASSUME NEW x \in Sessions PROVE HandlerInv!(x)'
    <3>1. HandlerInv!(x)
      BY Zenon DEF IInv, HandlerInv
    <3>2. CASE cur[x].pc \in {"lookup", "send", "add", "register"}
      BY <1>4, <2>1, <3>1, <3>2, Zenon
    <3>3. CASE cur[x].pc = "ok"
      BY <1>4, <2>1, <3>1, <3>3, Zenon
    <3>4. CASE cur[x].pc \notin {"lookup", "send", "add", "register", "ok"}
      BY <1>4, <3>4, Zenon
    <3> QED BY <3>2, <3>3, <3>4, Zenon
  <2> QED BY <2>2, Zenon DEF HandlerInv
<1>9. MemberInv'
  BY <1>1, <1>4, <1>5, KeepsMembers, Zenon DEF peerVars
<1>10. ClosingInv'
  <2>1. ASSUME NEW x \in Sessions PROVE ClosingInv!(x)'
    <3>1. /\ ClosingInv!(x) /\ alive' = alive /\ cur'[x].pc = cur[x].pc
          /\ cur[x].pc = "register" => cur'[x].rs = cur[x].rs
          /\ \A q \in Streams : x \in rsSubs'[q] => x \in rsSubs[q]
      BY <1>1, <1>4, <1>5, Zenon DEF IInv, ClosingInv
    <3>2. CASE x = s
      <4>1. \A q \in Streams : s \in rsSubs'[q] => q # r
        BY <1>5, Zenon
      <4>2. closing'[s] = closing[s] \ {r} /\ alive[s] # "closed"
        BY <1>1, <1>5, Zenon
      <4> QED BY <3>1, <3>2, <4>1, <4>2, Zenon
    <3>3. CASE x # s
      BY <1>5, <3>1, <3>3, Zenon
    <3> QED BY <3>2, <3>3, Zenon
  <2> QED BY <2>1, Zenon DEF ClosingInv
<1>11. AnswerInv'
  <2>1. ASSUME NEW p \in Sessions, cur'[p].pc = "ok", NEW x \in cur'[p].due
        PROVE  (Answered(x, rsTrack[cur[p].rs]) \/ Gone(x) \/ Owed(x, p))'
    <3>1. /\ cur[p].pc = "ok" /\ cur'[p].rs = cur[p].rs /\ x \in cur[p].due /\ x \in Sessions
      BY <1>1, <1>4, <2>1, HandlerFields, Zenon
    <3>2. Answered(x, rsTrack[cur[p].rs]) \/ Gone(x) \/ Owed(x, p)
      BY <3>1, Zenon DEF IInv, AnswerInv
    <3>3. CASE x = s
      BY <1>1, <3>3, Zenon DEF Gone
    <3>4. CASE x # s
      <4>1. /\ oks' = oks /\ asked' = asked /\ rsTrack' = rsTrack /\ subscribed' = subscribed
            /\ alive' = alive /\ dropped' = dropped
        BY <1>1, Zenon DEF peerVars
      <4>2. CASE Answered(x, rsTrack[cur[p].rs])
        BY <3>1, <4>1, <4>2, Zenon DEF Answered
      <4>3. CASE Gone(x)
        BY <4>1, <4>3, Zenon DEF Gone
      <4>4. CASE Owed(x, p)
        <5>1. x \in cur'[p].todo
          BY <1>4, <3>1, <3>4, <4>4, Zenon DEF Owed
        <5>2. rsTrack'[cur'[p].rs] = rsTrack[cur[p].rs]
          BY <3>1, <4>1, Zenon
        <5> QED BY <4>1, <4>4, <5>1, <5>2, Zenon DEF Owed, GetSubID
      <4> QED BY <3>2, <4>2, <4>3, <4>4, Zenon
    <3> QED BY <3>3, <3>4, Zenon
  <2> QED BY <2>1, Zenon DEF AnswerInv
<1> QED BY <1>6, <1>7, <1>8, <1>9, <1>10, <1>11, Zenon DEF IInv

\* removeSession: HandleClose has visited all its streams.
LEMMA RemoveSessionIInv ==
    ASSUME IInv, NEW s \in Sessions, RemoveSession(s)
    PROVE  IInv'
<1>1. /\ alive \in [Sessions -> {"open", "closing", "closed"}] /\ cur \in [Sessions -> Handlers]
      /\ alive[s] = "closing" /\ closing[s] = {} /\ alive' = [alive EXCEPT ![s] = "closed"]
      /\ UNCHANGED <<namespaces, nstreams, rsPub, rsTrack, rsSubs, subscribed, threadVars, peerVars>>
  BY Zenon DEF IInv, TypeOK, RemoveSession
<1>2. TypeOK'
  <2>1. alive' \in [Sessions -> {"open", "closing", "closed"}]
    BY <1>1, Zenon
  <2> QED BY <1>1, <2>1, Zenon DEF IInv, TypeOK, threadVars, peerVars
<1>3. StreamsHaveTracks' /\ HandlerInv' /\ SubscribedInv' /\ MemberInv' /\ WritesInv' /\ RoutedToAsked'
  BY <1>1, KeepsTracks, KeepsHandlers, KeepsMembers, KeepsRouted, Zenon DEF threadVars, peerVars
<1>4. ClosingInv'
  BY <1>1, Zenon DEF IInv, ClosingInv, threadVars
<1>5. AnswerInv'
  BY <1>1, KeepsAnswers, Zenon DEF threadVars, peerVars
<1> QED BY <1>2, <1>3, <1>4, <1>5, Zenon DEF IInv

-----------------------------------------------------------------------------
(* Every step, and what follows.                                           *)

\* The inductive invariant is kept by every step of the relay.
LEMMA NextIInv ==
    ASSUME IInv, [Next]_<<peers, vars>>
    PROVE  IInv'
<1>1. CASE UNCHANGED <<peers, vars>>
  <2>1. UNCHANGED <<relayVars, threadVars, peerVars>>
    BY <1>1, Zenon DEF vars
  <2>2. TypeOK'
    BY <2>1, Zenon DEF IInv, TypeOK, relayVars, threadVars, peerVars
  <2>3. StreamsHaveTracks' /\ HandlerInv' /\ SubscribedInv' /\ MemberInv' /\ ClosingInv'
    BY <2>1, KeepsTracks, KeepsHandlers, KeepsMembers, KeepsClosing, Zenon
       DEF relayVars, threadVars, peerVars
  <2>4. WritesInv' /\ RoutedToAsked' /\ AnswerInv'
    BY <2>1, KeepsRouted, KeepsAnswers, Zenon DEF relayVars, threadVars, peerVars
  <2> QED BY <2>2, <2>3, <2>4, Zenon DEF IInv
<1>2. CASE Goroutine
  BY <1>2, GoroutineIInv, Zenon
<1>3. ASSUME NEW s \in Sessions, Message(s) PROVE IInv'
  BY <1>3, AnnounceIInv, HandleSubscribeIInv, HandleUnsubscribeIInv, HandleSubscribeOkIInv, Zenon DEF Message
<1>4. ASSUME NEW s \in Sessions, ServeCS(s) PROVE IInv'
  BY Zenon, <1>4, AnnounceIInv, GetObjectStreamIInv, SendSubscribeIInv, AddSubscriberIInv, AddStreamIInv,
     SendSubscribeOkIInv, ForwardSubscribeOkReturnsIInv DEF ServeCS
<1>5. ASSUME NEW s \in Sessions, ForwardStream(s) PROVE IInv'
  BY <1>5, GoroutineIInv, Zenon
<1>6. ASSUME NEW s \in Sessions, Close(s) \/ Closer(s) PROVE IInv'
  BY <1>6, CloseIInv, HandleCloseRemoveIInv, RemoveSessionIInv, Zenon DEF Closer
<1> QED BY <1>1, <1>2, <1>3, <1>4, <1>5, <1>6, Zenon DEF Next

\* The inductive invariant holds throughout.
THEOREM IInvTheorem == Spec => []IInv
<1>1. Init => IInv
  BY InitIInv, Zenon
<1>2. IInv /\ [Next]_<<peers, vars>> => IInv'
  BY NextIInv, Zenon
<1> QED BY <1>1, <1>2, PTL DEF Spec

\* A session that gets a track's objects has an entry for it in SubscribedStreams or is making one,
\* under an id for that track that was not withdrawn; a session that is gone is left in at most one
\* stream, that of the SUBSCRIBE it was closed in (HandleSubscribe, HandleUnsubscribe, HandleClose).
THEOREM MembersTheorem == Spec => []MembersConsistent
<1>1. IInv => MembersConsistent
  <2> SUFFICES ASSUME IInv PROVE MembersConsistent
    OBVIOUS
  <2>1. MembershipRegistered
    BY Zenon DEF IInv, MemberInv, MembershipRegistered
  <2>2. MembersWantTrack
    <3>1. SUFFICES ASSUME NEW r \in Streams, NEW s \in rsSubs[r]
                   PROVE  \E i \in SubIDs \ dropped[s] : asked[s][i] = rsTrack[r]
      BY Zenon DEF MembersWantTrack
    <3>2. s \in Sessions /\ cur[s] \in Handlers
      BY Zenon DEF IInv, TypeOK
    <3>3. r # None
      BY RelayAssumption, Zenon DEF Streams
    <3>4. CASE \E i \in SubIDs \ dropped[s] : subscribed[s][i] = r
      <4>1. PICK i \in SubIDs \ dropped[s] : subscribed[s][i] = r
        BY <3>4, Zenon
      <4>2. rsTrack[r] = asked[s][i]
        BY <3>2, <3>3, <4>1, Zenon DEF IInv, SubscribedInv
      <4> QED BY <4>1, <4>2, Zenon
    <3>5. CASE cur[s].pc = "register" /\ cur[s].rs = r
      BY <3>2, <3>5, HandlerFields, Zenon DEF IInv, HandlerInv
    <3> QED BY <3>4, <3>5, Zenon DEF IInv, MemberInv
  <2>3. ClosedLeaksAtMostOne
    BY Zenon DEF IInv, ClosingInv, ClosedLeaksAtMostOne
  <2> QED BY <2>1, <2>2, <2>3, Zenon DEF IInv, MembersConsistent
<1> QED BY <1>1, IInvTheorem, PTL

\* What a subscriber is sent carries an id under which it asked for that very track, and is
\* answered only for a track that has a stream (GetSubID, SendSubscribeOk, ProcessMOQTStream).
THEOREM RoutedTheorem == Spec => []RoutedToAsked
<1>1. IInv => RoutedToAsked
  BY Zenon DEF IInv
<1> QED BY <1>1, IInvTheorem, PTL

\* ForwardSubscribeOk ends only by its own last step: no other goroutine ends it.
LEMMA OnlyReturns ==
    ASSUME IInv, Next, NEW p \in Sessions, cur[p].pc = "ok", cur'[p].pc = "idle"
    PROVE  ForwardSubscribeOkReturns(p)
<1>1. /\ cur \in [Sessions -> Handlers]
      /\ cur[p].pc \notin {"idle", "fanout", "lookup", "send", "add", "register"}
  BY Zenon DEF IInv, TypeOK
<1>2. CASE UNCHANGED cur
  BY <1>1, <1>2, Zenon
<1>3. ASSUME NEW s \in Sessions, s # p, NEW c, Continue(s, c) PROVE FALSE
  BY <1>1, <1>3, Zenon DEF Continue
<1>4. ASSUME NEW s \in Sessions, NEW r \in Streams, cur' = Without(s, r) PROVE FALSE
  BY <1>1, <1>4, WithoutHandlers, Zenon
<1>5. ASSUME NEW s \in Sessions, Message(s) PROVE FALSE
  <2>1. cur[s].pc = "idle" /\ s # p
    BY <1>1, <1>5, Zenon
    DEF Message, HandleAnnounce, HandleSubscribe, HandleUnsubscribe, HandleSubscribeOk, Receive
  <2>2. \/ \E c : Continue(s, c)
        \/ \E i \in SubIDs : HandleUnsubscribe(s, i)
    BY <1>5, Zenon DEF Message, HandleAnnounce, HandleSubscribe, HandleSubscribeOk
  <2>3. ASSUME NEW i \in SubIDs, HandleUnsubscribe(s, i) PROVE FALSE
    <3>1. subscribed[s][i] \in Streams \cup {None}
      BY DEF IInv, TypeOK
    <3>2. CASE subscribed[s][i] = None
      BY <1>1, <2>3, <3>2, Zenon DEF HandleUnsubscribe
    <3>3. CASE subscribed[s][i] # None
      <4>1. cur' = Without(s, subscribed[s][i])
        BY <2>3, <3>3, Zenon DEF HandleUnsubscribe
      <4> QED BY <1>4, <3>1, <3>3, <4>1, Zenon
    <3> QED BY <3>2, <3>3, Zenon
  <2> QED BY <1>3, <2>1, <2>2, <2>3, Zenon
<1>6. ASSUME NEW s \in Sessions, ServeCS(s), ~ForwardSubscribeOkReturns(p) PROVE FALSE
  <2>1. ASSUME AddSubscriber(s) PROVE FALSE
    <3>1. s # p
      BY <1>1, <2>1, Zenon DEF AddSubscriber, Running
    <3>2. cur'[p] \in {cur[p], [cur[p] EXCEPT !.todo = cur[p].todo \cup {s}]}
      BY <2>1, <3>1, Zenon DEF AddSubscriber
    <3>3. cur[p].todo \cup {s} \in SUBSET Sessions
      BY <1>1, HandlerFields, Zenon
    <3>4. cur[p] \in Handlers
      BY <1>1, Zenon
    <3>5. [cur[p] EXCEPT !.todo = cur[p].todo \cup {s}].pc = "ok"
      BY <3>3, <3>4, HandlerTodo, Zenon
    <3> QED BY <3>2, <3>5, Zenon
  <2>2. ASSUME SendSubscribeOk(s) PROVE FALSE
    <3>1. CASE s # p
      BY <1>3, <2>2, <3>1, Zenon DEF SendSubscribeOk
    <3>2. CASE s = p
      <4>1. PICK x \in cur[p].todo : cur' = [cur EXCEPT ![p] = [cur[p] EXCEPT !.todo = cur[p].todo \ {x}]]
        BY <2>2, <3>2, Zenon DEF SendSubscribeOk, Continue
      <4>2. cur[p].todo \ {x} \in SUBSET Sessions
        BY <1>1, HandlerFields, Zenon
      <4>3. cur[p] \in Handlers
        BY <1>1, Zenon
      <4>4. [cur[p] EXCEPT !.todo = cur[p].todo \ {x}].pc = "ok"
        BY <4>2, <4>3, HandlerTodo, Zenon
      <4> QED BY <1>1, <4>1, <4>4, Zenon
    <3> QED BY <3>1, <3>2, Zenon
  <2>3. ASSUME ForwardSubscribeOkReturns(s) PROVE FALSE
    BY <1>3, <1>6, <2>3, Zenon DEF ForwardSubscribeOkReturns
  <2>4. ASSUME AnnounceFanOut(s) \/ GetObjectStreamCached(s) \/ GetObjectStreamFresh(s)
               \/ SendSubscribe(s) \/ AddStream(s)
        PROVE  FALSE
    <3>1. s # p
      BY <1>1, <2>4, Zenon DEF AnnounceFanOut, GetObjectStreamCached, GetObjectStreamFresh, SendSubscribe,
                        AddStream, Running
    <3>2. \E c : Continue(s, c)
      BY <2>4, Zenon DEF AnnounceFanOut, GetObjectStreamCached, GetObjectStreamFresh, SendSubscribe, AddStream
    <3> QED BY <1>3, <3>1, <3>2, Zenon
  <2> QED BY <1>6, <2>1, <2>2, <2>3, <2>4, Zenon DEF ServeCS
<1>7. ASSUME NEW s \in Sessions, HandleCloseRemove(s) PROVE FALSE
  <2>1. closing[s] \subseteq Streams
    BY Zenon DEF IInv, TypeOK
  <2> QED BY <1>4, <1>7, <2>1, Zenon DEF HandleCloseRemove
<1>8. ASSUME \/ Goroutine
             \/ \E s \in Sessions : ForwardStream(s) \/ Close(s) \/ RemoveSession(s)
      PROVE  UNCHANGED cur
  BY <1>8, Zenon DEF Goroutine, WriteControlMessage, ProcessMOQTStream, ForwardStream, Close, RemoveSession,
              threadVars
<1> QED BY <1>2, <1>5, <1>6, <1>7, <1>8, Zenon DEF Next, Closer

\* When ForwardSubscribeOk ends, every subscriber that was settled when it began has a SUBSCRIBE_OK
\* for the track, withdrew a subscription or closed, whatever was added or removed meanwhile.
THEOREM AnsweredTheorem == Spec => RegisteredIsAnswered
<1> DEFINE Step == \A p \in Pubs : cur[p].pc = "ok" /\ cur'[p].pc = "idle" =>
                      \A s \in cur[p].due :
                          \/ \E i \in oks[s] : asked[s][i] = rsTrack[cur[p].rs]
                          \/ dropped[s] # {} \/ alive[s] # "open"
<1>1. ASSUME IInv, [Next]_<<peers, vars>> PROVE [Step]_vars
  <2>1. CASE UNCHANGED <<peers, vars>>
    BY <2>1, Zenon
  <2>2. ASSUME Next, NEW p \in Pubs, cur[p].pc = "ok", cur'[p].pc = "idle", NEW s \in cur[p].due
        PROVE  \/ \E i \in oks[s] : asked[s][i] = rsTrack[cur[p].rs]
               \/ dropped[s] # {} \/ alive[s] # "open"
    <3>1. p \in Sessions
      BY RelayAssumption, Zenon
    <3>2. cur[p].todo = {}
      BY <1>1, <2>2, <3>1, OnlyReturns, Zenon DEF ForwardSubscribeOkReturns
    <3>3. Answered(s, rsTrack[cur[p].rs]) \/ Gone(s) \/ Owed(s, p)
      BY <1>1, <2>2, <3>1, Zenon DEF IInv, AnswerInv
    <3> QED BY <3>2, <3>3, Zenon DEF Answered, Gone, Owed
  <2> QED BY <1>1, <2>1, <2>2, Zenon
<1>2. RegisteredIsAnswered <=> [][Step]_vars
  BY Zenon DEF RegisteredIsAnswered
<1> QED BY <1>1, <1>2, IInvTheorem, PTL DEF Spec
=============================================================================
