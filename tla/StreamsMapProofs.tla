-------------------------- MODULE StreamsMapProofs --------------------------
(***************************************************************************)
(* For any number of calls and any limits: the streams maps keep the       *)
(* stream limits in both directions, and no call of OpenStreamSync or      *)
(* AcceptStream sleeps while a stream is there for it. The inductive       *)
(* invariant relates the queue of waiting calls to the tokens they hold,   *)
(* and the limit an opener has heard to the streams the other end has      *)
(* accepted, deleted and granted.                                          *)
(***************************************************************************)
EXTENDS StreamsMap, FiniteSetTheorems, TLAPS
-----------------------------------------------------------------------------
(* The streams maps.  Who waits to open a stream: the calls in w; q is the *)
(* queue, u those that hold a token.  A call waits once, and only the one   *)
(* that waits longest can hold a token.                                    *)

Queued(q, u, w) ==
    /\ q \in Seq(w) /\ u \subseteq w
    /\ \A i, j \in 1 .. Len(q) : q[i] = q[j] => i = j
    /\ \A i \in 1 .. Len(q) : q[i] \in u => i = 1

\* The call that waits longest has been told of a stream that it can open.
Told(q, u, next, m) == q # <<>> /\ next <= m => Head(q) \in u

Waiting == {o \in Openers : opener[o] = "wait"}
Opened == {o \in Openers : opener[o] = "open"}
Accepting == {a \in Acceptors : acceptor[a] = "accepted"}

\* The waiting calls of OpenStreamSync and their tokens.
QueueInv ==
    /\ nextStream \in Nat \ {0} /\ max \in Nat
    /\ opener \in [Openers -> {"idle", "wait", "open", "err"}]
    /\ Queued(openQueue, unblocked, Waiting)
    /\ Told(openQueue, unblocked, nextStream, max)

\* The limits.  What is left in the map and what was granted add up, every grant was sent, and
\* the opener stays within what it has heard.
LimitInv ==
    /\ nextStream \in Nat \ {0} /\ max \in Nat /\ nextStreamToOpen \in Nat \ {0} /\ maxStream \in Nat
    /\ nextStream <= max + 1 /\ max <= maxStream /\ nextStreamToOpen <= maxStream + 1
    /\ frames = 1 .. nextStream - 1
    /\ state = "open" => maxNumStreams <= max
    /\ maxNumStreams <= maxStream /\ maxStream \in credits \cup {maxNumStreams}
    /\ credits \subseteq 0 .. maxStream
    /\ iStreams \subseteq 1 .. nextStreamToOpen - 1 /\ IsFiniteSet(iStreams)
    /\ maxStream + Cardinality(iStreams) = nextStreamToOpen - 1 + maxNumStreams

\* The streams not yet accepted are in the map; those of them whose two halves are done are
\* marked; and the acceptor that waits has been told of a stream.
AcceptInv ==
    /\ nextStreamToAccept \in Nat \ {0} /\ nextStreamToAccept <= nextStreamToOpen
    /\ acceptor \in [Acceptors -> {"idle", "look", "wait", "accepted", "err"}]
    /\ closeErr \in BOOLEAN
    /\ nextStreamToAccept .. nextStreamToOpen - 1 \subseteq iStreams
    /\ \A s \in Nat, h \in Halves : <<s, h>> \in halves => s < nextStreamToOpen
    /\ shouldDelete = {s \in iStreams : \A h \in Halves : <<s, h>> \in halves}
    /\ \A s \in shouldDelete : nextStreamToAccept <= s
    /\ \A a, b \in Acceptors :
          acceptor[a] \in {"look", "wait"} /\ acceptor[b] \in {"look", "wait"} => a = b
    /\ \A a \in Acceptors :
          /\ acceptor[a] = "wait" /\ nextStreamToAccept \in iStreams => newStreamChan
          /\ acceptor[a] = "err" => closeErr

\* Every stream accepted was accepted by a call, and every stream opened was opened by one.
CountInv ==
    /\ nextStreamToAccept - 1 = Cardinality(Accepting)
    /\ nextStream - 1 <= Cardinality(Opened)

StreamsInv ==
    /\ QueueInv /\ LimitInv /\ AcceptInv /\ CountInv
    /\ closeErr => openQueue = <<>>
    /\ ~fault

\* A sequence whose elements lie in a set is a sequence over that set.
LEMMA SeqOver ==
    ASSUME NEW S, NEW T, NEW s \in Seq(S), \A i \in 1 .. Len(s) : s[i] \in T
    PROVE  s \in Seq(T)
OBVIOUS

\* A call that begins to wait is the last in the queue.
LEMMA QueueAppend ==
    ASSUME NEW q, NEW u, NEW w, NEW o, Queued(q, u, w), o \notin w
    PROVE  /\ Queued(Append(q, o), u, w \cup {o})
           /\ q # <<>> => Append(q, o) # <<>> /\ Head(Append(q, o)) = Head(q)
           /\ q = <<>> => Head(Append(q, o)) = o
<1>1. q \in Seq(w) /\ u \subseteq w
  BY Zenon DEF Queued
<1>2. /\ Append(q, o) \in Seq(w \cup {o}) /\ Len(Append(q, o)) = Len(q) + 1 /\ Len(q) \in Nat
      /\ Append(q, o)[Len(q) + 1] = o /\ \A i \in 1 .. Len(q) : Append(q, o)[i] = q[i] /\ q[i] \in w
  BY <1>1
<1>3. Queued(Append(q, o), u, w \cup {o})
  BY <1>1, <1>2 DEF Queued
<1> QED BY <1>1, <1>2, <1>3

\* The first of the queue leaves it.
LEMMA QueueTail ==
    ASSUME NEW q, NEW u, NEW w, Queued(q, u, w), q # <<>>
    PROVE  Queued(Tail(q), u \ {Head(q)}, w \ {Head(q)})
<1>1. q \in Seq(w) /\ u \subseteq w
  BY Zenon DEF Queued
<1>2. /\ Len(q) \in Nat \ {0} /\ Len(Tail(q)) = Len(q) - 1 /\ Head(q) = q[1]
      /\ \A i \in 1 .. Len(q) - 1 : Tail(q)[i] = q[i + 1]
  BY <1>1
<1>3. \A i \in 1 .. Len(q) - 1 : q[i + 1] # q[1] /\ q[i + 1] \in w /\ q[i + 1] \notin u
  BY <1>1, <1>2 DEF Queued
<1>4. Tail(q) \in Seq(w) /\ \A i \in 1 .. Len(Tail(q)) : Tail(q)[i] \in w \ {Head(q)}
  BY <1>1, <1>2, <1>3
<1>5. Tail(q) \in Seq(w \ {Head(q)})
  BY <1>4, SeqOver, Zenon
<1> QED BY <1>1, <1>2, <1>3, <1>5 DEF Queued

\* A call that is not in the queue leaves it as it is.
LEMMA QueueOther ==
    ASSUME NEW q, NEW u, NEW w, NEW o, Queued(q, u, w), \A i \in 1 .. Len(q) : q[i] # o
    PROVE  Queued(q, u \ {o}, w \ {o})
<1>1. q \in Seq(w) /\ u \subseteq w
  BY Zenon DEF Queued
<1>2. q \in Seq(w \ {o})
  BY <1>1
<1> QED BY <1>1, <1>2, Zenon DEF Queued

\* Removing one element leaves the others in their order.
LEMMA RemoveOne ==
    ASSUME NEW q, NEW u, NEW w, NEW k \in 1 .. Len(q), Queued(q, u, w)
    PROVE  Queued([i \in 1 .. Len(q) - 1 |-> q[IF i < k THEN i ELSE i + 1]], u \ {q[k]}, w \ {q[k]})
<1> DEFINE r == [i \in 1 .. Len(q) - 1 |-> q[IF i < k THEN i ELSE i + 1]]
<1>1. q \in Seq(w) /\ u \subseteq w /\ Len(q) \in Nat
  BY DEF Queued
<1>2. /\ Len(r) = Len(q) - 1
      /\ \A i \in 1 .. Len(q) - 1 : r[i] = IF i < k THEN q[i] ELSE q[i + 1]
      /\ r \in Seq(w)
  BY <1>1
<1> HIDE DEF r
<1>3. \A i \in 1 .. Len(q) : i # k => q[i] # q[k] /\ q[i] \in w
  BY <1>1 DEF Queued
<1>4. \A i \in 1 .. Len(r) : r[i] \in w \ {q[k]}
  BY <1>1, <1>2, <1>3
<1>5. r \in Seq(w \ {q[k]})
  BY <1>2, <1>4, SeqOver, Zenon
<1>6. ASSUME NEW i \in 1 .. Len(r), NEW j \in 1 .. Len(r), r[i] = r[j] PROVE i = j
  <2> DEFINE f(x) == IF x < k THEN x ELSE x + 1
  <2>1. f(i) \in 1 .. Len(q) /\ f(j) \in 1 .. Len(q) /\ (f(i) = f(j) => i = j)
    BY <1>1, <1>2
  <2>2. r[i] = q[f(i)] /\ r[j] = q[f(j)]
    BY <1>2, Zenon
  <2> HIDE DEF f
  <2> QED BY <1>6, <2>1, <2>2, Zenon DEF Queued
<1>7. ASSUME NEW i \in 1 .. Len(r), r[i] \in u \ {q[k]} PROVE i = 1
  BY <1>1, <1>2, <1>7 DEF Queued
<1>8. Queued(r, u \ {q[k]}, w \ {q[k]})
  BY <1>1, <1>5, <1>6, <1>7, Zenon DEF Queued
<1> QED BY <1>8, Zenon DEF r

\* A call whose context ends is taken out of the queue.
LEMMA QueueWithout ==
    ASSUME NEW q, NEW u, NEW w, NEW o, Queued(q, u, w)
    PROVE  Queued(Without(q, o), u \ {o}, w \ {o})
<1>1. q \in Seq(w) /\ DOMAIN q = 1 .. Len(q)
  BY DEF Queued
<1>2. CASE o \in Range(q)
  <2> DEFINE k == CHOOSE i \in DOMAIN q : q[i] = o
  <2>1. k \in 1 .. Len(q) /\ q[k] = o
    BY <1>1, <1>2, Zenon DEF Range
  <2>2. Without(q, o) = [i \in 1 .. Len(q) - 1 |-> q[IF i < k THEN i ELSE i + 1]]
    BY <1>2, Zenon DEF Without
  <2> HIDE DEF k
  <2>3. Queued([i \in 1 .. Len(q) - 1 |-> q[IF i < k THEN i ELSE i + 1]], u \ {q[k]}, w \ {q[k]})
    BY <2>1, RemoveOne, Zenon
  <2> QED BY <2>1, <2>2, <2>3, Zenon
<1>3. CASE o \notin Range(q)
  <2>1. \A i \in 1 .. Len(q) : q[i] # o
    BY <1>1, <1>3, Zenon DEF Range
  <2> QED BY <1>3, <2>1, QueueOther, Zenon DEF Without
<1> QED BY <1>2, <1>3, Zenon

\* maybeUnblockOpenSync tells the first of the queue.
LEMMA QueueTell ==
    ASSUME NEW q, NEW u, NEW w, NEW next \in Nat, NEW m \in Nat, Queued(q, u, w)
    PROVE  /\ Queued(q, maybeUnblockOpenSync(q, next, m, u), w)
           /\ Told(q, maybeUnblockOpenSync(q, next, m, u), next, m)
<1>1. q \in Seq(w) /\ u \subseteq w
  BY Zenon DEF Queued
<1>2. CASE q = <<>> \/ next > m
  BY <1>2 DEF maybeUnblockOpenSync, Told
<1>3. CASE ~(q = <<>> \/ next > m)
  <2>1. Head(q) = q[1] /\ Head(q) \in w /\ 1 \in 1 .. Len(q)
    BY <1>1, <1>3
  <2>2. maybeUnblockOpenSync(q, next, m, u) = u \cup {Head(q)}
    BY <1>3, Zenon DEF maybeUnblockOpenSync
  <2>3. Queued(q, u \cup {q[1]}, w)
    BY <2>1, Zenon DEF Queued
  <2> QED BY <2>1, <2>2, <2>3, Zenon DEF Told
<1> QED BY <1>2, <1>3, Zenon

\* A larger limit is told to the first of the queue.
LEMMA QueueSetMax ==
    ASSUME QueueInv, NEW n \in Nat, SetMaxStream(n, openQueue, nextStream),
           UNCHANGED <<nextStream, openQueue, opener>>
    PROVE  QueueInv'
<1>1. Waiting' = Waiting
  BY Zenon DEF Waiting
<1>2. CASE n <= max
  BY <1>1, <1>2, Zenon DEF SetMaxStream, QueueInv
<1>3. CASE ~(n <= max)
  <2>1. max' = n /\ unblocked' = maybeUnblockOpenSync(openQueue, nextStream, n, unblocked)
    BY <1>3, Zenon DEF SetMaxStream
  <2>2. nextStream \in Nat
    BY Zenon DEF QueueInv
  <2> QED BY <1>1, <2>1, <2>2, QueueTell, Zenon DEF QueueInv
<1> QED BY <1>2, <1>3, Zenon

\* A call that did not wait returns.
LEMMA QueueReturns ==
    ASSUME QueueInv, NEW o \in Openers, opener[o] = "idle", NEW r \in {"open", "err"},
           opener' = [opener EXCEPT ![o] = r], UNCHANGED <<max, openQueue, unblocked>>,
           nextStream' = nextStream \/ (openQueue = <<>> /\ nextStream' = nextStream + 1)
    PROVE  QueueInv'
<1>1. Waiting' = Waiting
  BY Zenon DEF Waiting, QueueInv
<1>2. opener' \in [Openers -> {"idle", "wait", "open", "err"}]
  BY Zenon DEF QueueInv
<1>3. nextStream' \in Nat \ {0}
  BY DEF QueueInv
<1>4. Told(openQueue, unblocked, nextStream', max)
  BY Zenon DEF Told, QueueInv
<1> QED BY <1>1, <1>2, <1>3, <1>4, Zenon DEF QueueInv

\* OpenStreamSync begins to wait.
LEMMA QueueWaits ==
    ASSUME QueueInv, NEW o \in Openers, opener[o] = "idle", ~(openQueue = <<>> /\ nextStream <= max),
           opener' = [opener EXCEPT ![o] = "wait"], openQueue' = Append(openQueue, o),
           UNCHANGED <<nextStream, max, unblocked>>
    PROVE  QueueInv'
<1>1. Waiting' = Waiting \cup {o} /\ o \notin Waiting
  BY Zenon DEF Waiting, QueueInv
<1>2. opener' \in [Openers -> {"idle", "wait", "open", "err"}]
  BY Zenon DEF QueueInv
<1>3. Queued(openQueue', unblocked, Waiting \cup {o})
  BY <1>1, QueueAppend, Zenon DEF QueueInv
<1>4. Told(openQueue', unblocked, nextStream, max)
  <2>1. Queued(openQueue, unblocked, Waiting)
    BY Zenon DEF QueueInv
  <2>2. openQueue # <<>> => Head(openQueue') = Head(openQueue)
    BY <1>1, <2>1, QueueAppend
  <2> QED BY <2>2, Zenon DEF QueueInv, Told
<1> QED BY <1>1, <1>2, <1>3, <1>4, Zenon DEF QueueInv

\* A call that waited opens a stream: it is the one that waited longest, and tells the next.
LEMMA QueueOpens ==
    ASSUME QueueInv, NEW o \in Openers, o \in unblocked, o \in Range(openQueue)
    PROVE  openQueue # <<>> /\ Head(openQueue) = o
<1>1. openQueue \in Seq(Waiting)
  BY Zenon DEF QueueInv, Queued
<1>2. PICK i \in 1 .. Len(openQueue) : openQueue[i] = o
  BY <1>1 DEF Range
<1>3. i = 1
  BY <1>2, Zenon DEF QueueInv, Queued
<1> QED BY <1>1, <1>2, <1>3

\* Every way for a call to stop waiting keeps the queue in order.
LEMMA QueueUnblocked == ASSUME QueueInv, NEW o \in Openers, Unblocked(o) PROVE QueueInv'
<1>1. opener[o] = "wait" /\ (o \in unblocked \/ o \notin Range(openQueue)) /\ UNCHANGED max
  BY Zenon DEF Unblocked
<1>2. CASE o \notin Range(openQueue)
  <2>1. /\ opener' = [opener EXCEPT ![o] = "err"] /\ unblocked' = unblocked \ {o}
        /\ UNCHANGED <<openQueue, nextStream>>
    BY <1>2, Zenon DEF Unblocked
  <2>2. Waiting' = Waiting \ {o} /\ opener' \in [Openers -> {"idle", "wait", "open", "err"}]
    BY <2>1, Zenon DEF Waiting, QueueInv
  <2>3. openQueue \in Seq(Waiting)
    BY Zenon DEF QueueInv, Queued
  <2>4. /\ \A i \in 1 .. Len(openQueue) : openQueue[i] # o
        /\ openQueue # <<>> => Head(openQueue) # o
    BY <1>2, <2>3 DEF Range
  <2>5. Queued(openQueue, unblocked \ {o}, Waiting \ {o})
    BY <2>4, QueueOther, Zenon DEF QueueInv
  <2>6. Told(openQueue, unblocked \ {o}, nextStream, max)
    BY <2>4, Zenon DEF QueueInv, Told
  <2> QED BY <1>1, <2>1, <2>2, <2>5, <2>6, Zenon DEF QueueInv
<1>3. CASE o \in Range(openQueue) /\ nextStream > max
  <2>1. unblocked' = unblocked \ {o} /\ UNCHANGED <<opener, openQueue, nextStream>>
    BY <1>3, Zenon DEF Unblocked
  <2>2. Waiting' = Waiting
    BY <2>1, Zenon DEF Waiting
  <2>3. Queued(openQueue, unblocked \ {o}, Waiting)
    BY Zenon DEF QueueInv, Queued
  <2>4. Told(openQueue, unblocked \ {o}, nextStream, max)
    BY <1>3 DEF QueueInv, Told
  <2> QED BY <1>1, <2>1, <2>2, <2>3, <2>4, Zenon DEF QueueInv
<1>4. CASE o \in Range(openQueue) /\ ~(nextStream > max)
  <2>1. /\ nextStream' = nextStream + 1 /\ opener' = [opener EXCEPT ![o] = "open"]
        /\ openQueue' = Tail(openQueue)
        /\ unblocked' = maybeUnblockOpenSync(Tail(openQueue), nextStream + 1, max, unblocked \ {o})
    BY <1>4, Zenon DEF Unblocked, openStream
  <2>2. Waiting' = Waiting \ {o} /\ opener' \in [Openers -> {"idle", "wait", "open", "err"}]
    BY <2>1, Zenon DEF Waiting, QueueInv
  <2>3. Queued(Tail(openQueue), unblocked \ {o}, Waiting \ {o})
    BY <1>1, <1>4, QueueOpens, QueueTail, Zenon DEF QueueInv
  <2>4. nextStream + 1 \in Nat /\ max \in Nat /\ nextStream' \in Nat \ {0}
    BY <2>1 DEF QueueInv
  <2>5. /\ Queued(openQueue', unblocked', Waiting \ {o})
        /\ Told(openQueue', unblocked', nextStream', max)
    BY <2>1, <2>3, <2>4, QueueTell, Zenon
  <2> QED BY <1>1, <2>2, <2>4, <2>5, Zenon DEF QueueInv
<1> QED BY <1>2, <1>3, <1>4, Zenon

\* A call gives up, and passes its turn on.
LEMMA QueueCancelled == ASSUME QueueInv, NEW o \in Openers, OpenCancelled(o) PROVE QueueInv'
<1>1. /\ opener' = [opener EXCEPT ![o] = "err"] /\ openQueue' = Without(openQueue, o)
      /\ unblocked' = maybeUnblockOpenSync(openQueue', nextStream, max, unblocked \ {o})
      /\ UNCHANGED <<nextStream, max>>
  BY Zenon DEF OpenCancelled
<1>2. Waiting' = Waiting \ {o} /\ opener' \in [Openers -> {"idle", "wait", "open", "err"}]
  BY <1>1, Zenon DEF Waiting, QueueInv
<1>3. Queued(openQueue', unblocked \ {o}, Waiting \ {o})
  BY <1>1, QueueWithout, Zenon DEF QueueInv
<1>4. nextStream \in Nat /\ max \in Nat
  BY Zenon DEF QueueInv
<1>5. /\ Queued(openQueue', unblocked', Waiting \ {o})
      /\ Told(openQueue', unblocked', nextStream, max)
  BY <1>1, <1>3, <1>4, QueueTell, Zenon
<1> QED BY <1>1, <1>2, <1>5, Zenon DEF QueueInv

\* Closing or resetting the map empties the queue.
LEMMA QueueEmptied ==
    ASSUME QueueInv, openQueue' = <<>>, unblocked' \subseteq unblocked, nextStream' \in Nat \ {0},
           max' \in Nat, opener' = opener
    PROVE  QueueInv'
<1>1. Waiting' = Waiting
  BY Zenon DEF Waiting
<1>2. Queued(<<>>, unblocked', Waiting)
  BY DEF QueueInv, Queued
<1>3. Told(<<>>, unblocked', nextStream', max')
  BY Zenon DEF Told
<1> QED BY <1>1, <1>2, <1>3, Zenon DEF QueueInv

\* So every step of the two maps does.
LEMMA QueueStep ==
    ASSUME QueueInv, credits \subseteq Nat, [SMNext]_smvars
    PROVE  QueueInv'
<1>1. ASSUME NEW o \in Openers, OpenStream(o) PROVE QueueInv'
  <2>1. /\ opener[o] = "idle" /\ UNCHANGED <<max, openQueue, unblocked>>
        /\ opener' = [opener EXCEPT ![o] = "open"] \/ opener' = [opener EXCEPT ![o] = "err"]
    BY <1>1, Zenon DEF OpenStream
  <2>2. nextStream' = nextStream \/ (openQueue = <<>> /\ nextStream' = nextStream + 1)
    BY <1>1, Zenon DEF OpenStream, openStream
  <2> QED BY <2>1, <2>2, QueueReturns, Zenon
<1>2. ASSUME NEW o \in Openers, OpenStreamSync(o) PROVE QueueInv'
  <2>1. opener[o] = "idle" /\ UNCHANGED <<max, unblocked>>
    BY <1>2, Zenon DEF OpenStreamSync
  <2>2. CASE reset \/ closeErr \/ (openQueue = <<>> /\ nextStream <= max)
    <3>1. /\ opener' = [opener EXCEPT ![o] = "open"] \/ opener' = [opener EXCEPT ![o] = "err"]
          /\ nextStream' = nextStream \/ (openQueue = <<>> /\ nextStream' = nextStream + 1)
          /\ UNCHANGED openQueue
      BY <1>2, <2>2, Zenon DEF OpenStreamSync, openStream
    <3> QED BY <2>1, <3>1, QueueReturns, Zenon
  <2>3. CASE ~(reset \/ closeErr \/ (openQueue = <<>> /\ nextStream <= max))
    <3>1. /\ opener' = [opener EXCEPT ![o] = "wait"] /\ openQueue' = Append(openQueue, o)
          /\ UNCHANGED nextStream
      BY <1>2, <2>3, Zenon DEF OpenStreamSync
    <3> QED BY <2>1, <2>3, <3>1, QueueWaits, Zenon
  <2> QED BY <2>2, <2>3, Zenon
<1>3. ASSUME NEW n \in credits, HandleMaxStreamsFrame(n) PROVE QueueInv'
  BY <1>3, QueueSetMax, Zenon DEF HandleMaxStreamsFrame
<1>4. CASE HandleTransportParameters
  <2>1. maxNumStreams \in Nat
    BY StreamsMapAssumption, Zenon
  <2> QED BY <1>4, <2>1, QueueSetMax, Zenon DEF HandleTransportParameters
<1>5. CASE ResetFor0RTT \/ CloseWithError
  <2>1. openQueue' = <<>> /\ unblocked' \subseteq unblocked /\ opener' = opener
    BY <1>5, Zenon DEF ResetFor0RTT, CloseWithError
  <2>2. nextStream' \in Nat \ {0} /\ max' \in Nat
    BY <1>5 DEF ResetFor0RTT, CloseWithError, QueueInv
  <2> QED BY <2>1, <2>2, QueueEmptied, Zenon
<1>6. ASSUME UNCHANGED <<nextStream, max, openQueue, unblocked, opener>> PROVE QueueInv'
  BY <1>6, Zenon DEF QueueInv, Waiting
<1>7. ASSUME \/ \E s \in outStreams : OutgoingDeleteStream(s)
             \/ UseResetMaps
             \/ \E s \in frames : GetOrOpenStream(s)
             \/ \E s \in iStreams, h \in Halves : HalfCompleted(s, h)
             \/ \E a \in Acceptors : Accept(a) \/ AcceptStream(a)
             \/ UNCHANGED smvars
      PROVE  UNCHANGED <<nextStream, max, openQueue, unblocked, opener>>
  BY <1>7, Zenon DEF OutgoingDeleteStream, UseResetMaps, GetOrOpenStream, HalfCompleted, Accept,
      AcceptStream, smvars, outgoing
<1> QED
  BY <1>1, <1>2, <1>3, <1>4, <1>5, <1>6, <1>7, QueueUnblocked, QueueCancelled, Zenon DEF SMNext

-----------------------------------------------------------------------------
(* The limits.                                                             *)

\* A stream that is deleted is made up for by a new limit.
LEMMA Deleted ==
    ASSUME LimitInv, NEW s \in iStreams, NEW n \in Nat, s < n, deleteStream(s, n),
           UNCHANGED nextStreamToOpen
    PROVE  /\ iStreams' = iStreams \ {s} /\ shouldDelete' = shouldDelete \ {s}
           /\ maxStream' = maxStream + 1 /\ credits' = credits \cup {maxStream + 1}
           /\ IsFiniteSet(iStreams') /\ Cardinality(iStreams') = Cardinality(iStreams) - 1
<1>1. s \in Nat /\ IsFiniteSet(iStreams)
  BY DEF LimitInv
<1>2. /\ iStreams' = iStreams \ {s} /\ shouldDelete' = shouldDelete \ {s}
      /\ IF maxNumStreams > Cardinality(iStreams')
         THEN maxStream' = CreditAfter(iStreams') /\ credits' = credits \cup {maxStream'}
         ELSE UNCHANGED <<maxStream, credits>>
  BY <1>1 DEF deleteStream
<1>3. IsFiniteSet(iStreams \ {s}) /\ Cardinality(iStreams \ {s}) = Cardinality(iStreams) - 1
  BY <1>1, FS_RemoveElement, Zenon
<1>4. Cardinality(iStreams) \in Nat
  BY <1>1, FS_CardinalityType, Zenon
<1>5. maxNumStreams > Cardinality(iStreams') /\ CreditAfter(iStreams') = maxStream + 1
  <2> DEFINE c == Cardinality(iStreams)
  <2>1. /\ nextStreamToOpen \in Nat /\ maxStream \in Nat /\ nextStreamToOpen <= maxStream + 1
        /\ maxStream + c = nextStreamToOpen - 1 + maxNumStreams /\ c \in Nat /\ maxNumStreams \in Nat
    BY <1>4, StreamsMapAssumption, Zenon DEF LimitInv
  <2>2. Cardinality(iStreams') = c - 1
    BY <1>2, <1>3, Zenon
  <2> HIDE DEF c
  <2> QED BY <2>1, <2>2 DEF CreditAfter
<1> QED BY <1>2, <1>3, <1>5, Zenon

\* So the sum of what is left and what was granted stays.
LEMMA LimitDeleted ==
    ASSUME LimitInv, NEW s \in iStreams, iStreams' = iStreams \ {s}, IsFiniteSet(iStreams'),
           Cardinality(iStreams') = Cardinality(iStreams) - 1,
           maxStream' = maxStream + 1, credits' = credits \cup {maxStream + 1},
           UNCHANGED <<nextStream, max, nextStreamToOpen, frames, state>>
    PROVE  LimitInv'
<1>1. Cardinality(iStreams) \in Nat
  BY FS_CardinalityType, Zenon DEF LimitInv
<1>2. /\ nextStream' <= max' + 1 /\ max' <= maxStream' /\ nextStreamToOpen' <= maxStream' + 1
      /\ maxNumStreams <= maxStream' /\ maxStream' \in Nat
      /\ maxStream' + Cardinality(iStreams') = nextStreamToOpen' - 1 + maxNumStreams
      /\ credits' \subseteq 0 .. maxStream'
  BY <1>1, StreamsMapAssumption DEF LimitInv
<1> QED BY <1>2, Zenon DEF LimitInv

\* A frame opens all the streams up to its own, which were not in the map.
LEMMA LimitOpened ==
    ASSUME LimitInv, NEW s \in Nat, nextStreamToOpen <= s, s <= maxStream,
           iStreams' = iStreams \cup (nextStreamToOpen .. s), nextStreamToOpen' = s + 1,
           UNCHANGED <<nextStream, max, maxStream, frames, credits, state>>
    PROVE  LimitInv'
<1> DEFINE I == nextStreamToOpen .. s
<1>1. nextStreamToOpen \in Int /\ s \in Int /\ ~(nextStreamToOpen > s) /\ IsFiniteSet(iStreams)
  BY DEF LimitInv
<1>2. IsFiniteSet(I) /\ Cardinality(I) = s - nextStreamToOpen + 1
  BY <1>1, FS_Interval, Zenon
<1>3. iStreams \cap I = {}
  BY DEF LimitInv
<1>4. Cardinality(iStreams \cap I) = 0
  BY <1>3, FS_EmptySet, Zenon
<1>5. /\ IsFiniteSet(iStreams')
      /\ Cardinality(iStreams') = Cardinality(iStreams) + Cardinality(I) - Cardinality(iStreams \cap I)
  BY <1>1, <1>2, FS_Union, Zenon
<1>6. Cardinality(iStreams) \in Nat
  BY <1>1, FS_CardinalityType, Zenon
<1>7. /\ maxStream' + Cardinality(iStreams') = nextStreamToOpen' - 1 + maxNumStreams
      /\ nextStreamToOpen' \in Nat \ {0} /\ nextStreamToOpen' <= maxStream' + 1
  <2> DEFINE c == Cardinality(iStreams)
             d == Cardinality(iStreams')
  <2>1. /\ nextStreamToOpen \in Nat /\ maxStream \in Nat /\ maxNumStreams \in Nat /\ c \in Nat
        /\ maxStream + c = nextStreamToOpen - 1 + maxNumStreams /\ maxStream' = maxStream
    BY <1>6, StreamsMapAssumption, Zenon DEF LimitInv
  <2>2. d = c + (s - nextStreamToOpen + 1) - 0
    BY <1>2, <1>4, <1>5, Zenon
  <2> HIDE DEF c, d
  <2>3. maxStream' + d = nextStreamToOpen' - 1 + maxNumStreams
    BY <2>1, <2>2
  <2>4. nextStreamToOpen' \in Nat \ {0} /\ nextStreamToOpen' <= maxStream' + 1
    BY <2>1
  <2> QED BY <2>3, <2>4, Zenon DEF d
<1>8. iStreams' \subseteq 1 .. nextStreamToOpen' - 1
  BY DEF LimitInv
<1> QED BY <1>5, <1>7, <1>8, Zenon DEF LimitInv

\* A limit that arrives is one that was granted.
LEMMA LimitSetMax ==
    ASSUME LimitInv, NEW n \in 0 .. maxStream, SetMaxStream(n, openQueue, nextStream),
           state' = "open", state = "open" \/ n = maxNumStreams,
           UNCHANGED <<nextStream, nextStreamToOpen, maxStream, frames, credits, iStreams>>
    PROVE  LimitInv'
<1>1. /\ max' \in Nat /\ nextStream' <= max' + 1 /\ max' <= maxStream' /\ maxNumStreams <= max'
  BY StreamsMapAssumption DEF LimitInv, SetMaxStream
<1> QED BY <1>1, Zenon DEF LimitInv

\* A stream is opened within the limit.
LEMMA LimitOpen ==
    ASSUME LimitInv, nextStream <= max, openStream,
           UNCHANGED <<max, nextStreamToOpen, maxStream, credits, state, iStreams>>
    PROVE  LimitInv'
<1>1. nextStream' = nextStream + 1 /\ frames' = frames \cup {nextStream}
  BY Zenon DEF openStream
<1>2. nextStream' \in Nat \ {0} /\ nextStream' <= max' + 1 /\ frames' = 1 .. nextStream' - 1
  BY <1>1 DEF LimitInv
<1> QED BY <1>2, Zenon DEF LimitInv

\* Every step of the two maps keeps the limits.
LEMMA LimitStep ==
    ASSUME LimitInv, AcceptInv, [SMNext]_smvars
    PROVE  LimitInv'
<1>0. ASSUME UNCHANGED <<nextStream, max, nextStreamToOpen, maxStream, frames, credits, state, iStreams>>
      PROVE  LimitInv'
  BY <1>0, Zenon DEF LimitInv
<1>1. ASSUME NEW o \in Openers, OpenStream(o) \/ OpenStreamSync(o) \/ Unblocked(o)
      PROVE  LimitInv'
  <2>1. UNCHANGED <<max, nextStreamToOpen, maxStream, credits, state, iStreams>>
    BY <1>1, Zenon DEF OpenStream, OpenStreamSync, Unblocked, incoming
  <2>2. ~(nextStream > max) => nextStream <= max
    BY DEF LimitInv
  <2>3. (nextStream <= max /\ openStream) \/ UNCHANGED <<nextStream, frames>>
    BY <1>1, <2>2, Zenon DEF OpenStream, OpenStreamSync, Unblocked
  <2> QED BY <1>0, <2>1, <2>3, LimitOpen, Zenon
<1>2. ASSUME NEW n \in credits, HandleMaxStreamsFrame(n) PROVE LimitInv'
  <2>1. n \in 0 .. maxStream
    BY Zenon DEF LimitInv
  <2> QED BY <1>2, <2>1, LimitSetMax, Zenon DEF HandleMaxStreamsFrame, incoming, rest
<1>3. CASE HandleTransportParameters
  <2>1. maxNumStreams \in 0 .. maxStream
    BY StreamsMapAssumption DEF LimitInv
  <2> QED BY <1>3, <2>1, LimitSetMax, Zenon DEF HandleTransportParameters, incoming
<1>4. CASE ResetFor0RTT
  <2>1. /\ state' = "rejected" /\ nextStream' = 1 /\ max' = 0 /\ frames' = {}
        /\ UNCHANGED <<nextStreamToOpen, maxStream, credits, iStreams>>
    BY <1>4, Zenon DEF ResetFor0RTT, incoming
  <2>2. /\ nextStream' \in Nat \ {0} /\ max' \in Nat /\ nextStream' <= max' + 1 /\ max' <= maxStream'
        /\ frames' = 1 .. nextStream' - 1 /\ state' # "open"
    BY <2>1 DEF LimitInv
  <2> QED BY <2>1, <2>2, Zenon DEF LimitInv
<1>5. ASSUME NEW s \in frames, GetOrOpenStream(s) PROVE LimitInv'
  <2>1. s \in Nat /\ nextStreamToOpen \in Nat /\ maxStream \in Nat
    BY DEF LimitInv
  <2>2. /\ UNCHANGED <<nextStream, max, maxStream, frames, credits, state>>
        /\ \/ UNCHANGED <<iStreams, nextStreamToOpen>>
           \/ /\ ~(s > maxStream) /\ ~(s < nextStreamToOpen)
              /\ iStreams' = iStreams \cup (nextStreamToOpen .. s) /\ nextStreamToOpen' = s + 1
    BY <1>5, Zenon DEF GetOrOpenStream, outgoing
  <2>3. /\ ~(s > maxStream) => s <= maxStream
        /\ ~(s < nextStreamToOpen) => nextStreamToOpen <= s
    BY <2>1
  <2> QED BY <1>0, <2>1, <2>2, <2>3, LimitOpened, Zenon
<1>6. ASSUME NEW s \in iStreams, NEW n \in Nat, deleteStream(s, n),
             UNCHANGED <<nextStream, max, nextStreamToOpen, frames, state>>
      PROVE  LimitInv'
  <2>1. CASE s < n
    BY <1>6, <2>1, Deleted, LimitDeleted, Zenon
  <2>2. CASE ~(s < n)
    <3>1. s >= n
      BY <2>2 DEF LimitInv
    <3> QED BY <1>0, <1>6, <3>1, Zenon DEF deleteStream
  <2> QED BY <2>1, <2>2, Zenon
<1>7. nextStreamToAccept \in Nat /\ nextStreamToAccept + 1 \in Nat
  BY DEF AcceptInv
<1>8. ASSUME NEW s \in iStreams, NEW h \in Halves, HalfCompleted(s, h) PROVE LimitInv'
  <2>1. UNCHANGED <<nextStream, max, nextStreamToOpen, frames, state>>
    BY <1>8, Zenon DEF HalfCompleted, outgoing
  <2>2. deleteStream(s, nextStreamToAccept) \/ UNCHANGED <<iStreams, maxStream, credits>>
    BY <1>8, Zenon DEF HalfCompleted
  <2> QED BY <1>0, <1>6, <1>7, <2>1, <2>2, Zenon
<1>9. ASSUME NEW a \in Acceptors, AcceptStream(a) PROVE LimitInv'
  <2>1. UNCHANGED <<nextStream, max, nextStreamToOpen, frames, state>>
    BY <1>9, Zenon DEF AcceptStream, outgoing
  <2>2. \/ nextStreamToAccept \in iStreams /\ deleteStream(nextStreamToAccept, nextStreamToAccept + 1)
        \/ UNCHANGED <<iStreams, maxStream, credits>>
    BY <1>9, Zenon DEF AcceptStream
  <2> QED BY <1>0, <1>6, <1>7, <2>1, <2>2, Zenon
<1>10. ASSUME \/ \E o \in Openers : OpenCancelled(o)
              \/ \E s \in outStreams : OutgoingDeleteStream(s)
              \/ UseResetMaps \/ CloseWithError
              \/ \E a \in Acceptors : Accept(a)
              \/ UNCHANGED smvars
       PROVE  LimitInv'
  <2>1. UNCHANGED <<nextStream, max, nextStreamToOpen, maxStream, frames, credits, state, iStreams>>
    BY <1>10, Zenon DEF OpenCancelled, OutgoingDeleteStream, UseResetMaps, CloseWithError, Accept, smvars,
        outgoing, incoming, rest
  <2> QED BY <1>0, <2>1, Zenon
<1> QED BY <1>1, <1>2, <1>3, <1>4, <1>5, <1>8, <1>9, <1>10, Zenon DEF SMNext

-----------------------------------------------------------------------------
(* Accepting and completing streams.                                       *)

\* A half of a stream is completed.
LEMMA AcceptHalf ==
    ASSUME LimitInv, AcceptInv, NEW s \in iStreams, NEW h \in Halves, HalfCompleted(s, h)
    PROVE  AcceptInv' /\ (~fault => ~fault')
<1>1. /\ <<s, h>> \notin halves /\ halves' = halves \cup {<<s, h>>}
      /\ UNCHANGED <<nextStreamToAccept, nextStreamToOpen, newStreamChan, acceptor, closeErr>>
  BY Zenon DEF HalfCompleted
<1>2. s \in Nat /\ s < nextStreamToOpen /\ nextStreamToAccept \in Nat /\ nextStreamToOpen \in Nat
  BY DEF LimitInv, AcceptInv
<1>3. s \notin shouldDelete
  BY <1>1, Zenon DEF AcceptInv
<1>4. \A x \in Nat, y \in Halves : <<x, y>> \in halves' => x < nextStreamToOpen
  BY <1>1, <1>2, Zenon DEF AcceptInv
<1> DEFINE Done(x) == \A y \in Halves : <<x, y>> \in halves
           DoneNow(x) == \A y \in Halves : <<x, y>> \in halves'
<1>5. \A x \in iStreams : x # s => (DoneNow(x) <=> Done(x))
  BY <1>1, Zenon
<1>6. CASE ~DoneNow(s)
  <2>1. UNCHANGED <<iStreams, shouldDelete, fault>>
    BY <1>6, Zenon DEF HalfCompleted
  <2>2. shouldDelete' = {x \in iStreams' : DoneNow(x)}
    BY <1>3, <1>5, <1>6, <2>1, Zenon DEF AcceptInv
  <2> QED BY <1>1, <1>4, <2>1, <2>2, Zenon DEF AcceptInv
<1>7. CASE DoneNow(s) /\ nextStreamToAccept <= s
  <2>0. s >= nextStreamToAccept
    BY <1>2, <1>7, Zenon
  <2>1. shouldDelete' = shouldDelete \cup {s} /\ UNCHANGED iStreams
    BY <1>7, <2>0, Zenon DEF HalfCompleted, deleteStream
  <2>2. shouldDelete' = {x \in iStreams' : DoneNow(x)}
    BY <1>5, <1>7, <2>1, Zenon DEF AcceptInv
  <2>3. fault' = (fault \/ s \in shouldDelete)
    BY <1>7, Zenon DEF HalfCompleted
  <2>4. \A x \in shouldDelete' : nextStreamToAccept <= x
    BY <1>7, <2>1, Zenon DEF AcceptInv
  <2>5. AcceptInv'
    BY <1>1, <1>4, <2>1, <2>2, <2>4, Zenon DEF AcceptInv
  <2> QED BY <1>3, <2>3, <2>5, Zenon
<1>8. CASE DoneNow(s) /\ ~(nextStreamToAccept <= s)
  <2>0. s < nextStreamToAccept /\ ~(s >= nextStreamToAccept)
    BY <1>2, <1>8
  <2>1. shouldDelete' = shouldDelete \ {s} /\ iStreams' = iStreams \ {s}
    BY <1>8, <2>0, Zenon DEF HalfCompleted, deleteStream
  <2>2. shouldDelete' = {x \in iStreams' : DoneNow(x)}
    BY <1>5, <2>1, Zenon DEF AcceptInv
  <2>3. fault' = (fault \/ s \in shouldDelete)
    BY <1>8, Zenon DEF HalfCompleted
  <2>4. nextStreamToAccept .. nextStreamToOpen - 1 \subseteq iStreams'
    BY <1>2, <2>0, <2>1 DEF AcceptInv
  <2>5. nextStreamToAccept \in iStreams' => nextStreamToAccept \in iStreams
    BY <2>1, Zenon
  <2>6. \A x \in shouldDelete' : nextStreamToAccept <= x
    BY <2>1, Zenon DEF AcceptInv
  <2>7. AcceptInv'
    BY <1>1, <1>4, <2>2, <2>4, <2>5, <2>6, Zenon DEF AcceptInv
  <2> QED BY <1>3, <2>3, <2>7, Zenon
<1> QED BY <1>6, <1>7, <1>8, Zenon

\* A frame opens streams, of which no half is done.
LEMMA AcceptOpened ==
    ASSUME LimitInv, AcceptInv, NEW s \in frames, GetOrOpenStream(s)
    PROVE  AcceptInv' /\ (~fault => ~fault')
<1>1. UNCHANGED <<shouldDelete, nextStreamToAccept, acceptor, halves, closeErr>>
  BY Zenon DEF GetOrOpenStream, users
<1>2. s \in Nat /\ ~(s > maxStream) /\ nextStreamToOpen \in Nat /\ nextStreamToAccept \in Nat
  BY DEF LimitInv, AcceptInv
<1>3. ~fault => ~fault'
  BY <1>2, Zenon DEF GetOrOpenStream
<1>4. CASE s < nextStreamToOpen
  <2>1. UNCHANGED <<iStreams, nextStreamToOpen, newStreamChan>>
    BY <1>4, Zenon DEF GetOrOpenStream
  <2> QED BY <1>1, <1>3, <2>1, Zenon DEF AcceptInv
<1>5. CASE ~(s < nextStreamToOpen)
  <2>1. /\ iStreams' = iStreams \cup (nextStreamToOpen .. s) /\ nextStreamToOpen' = s + 1
        /\ newStreamChan' = TRUE
    BY <1>2, <1>5, Zenon DEF GetOrOpenStream
  <2>2. /\ nextStreamToAccept <= nextStreamToOpen'
        /\ nextStreamToAccept .. nextStreamToOpen' - 1 \subseteq iStreams'
    BY <1>2, <1>5, <2>1 DEF AcceptInv
  <2>3. \A x \in Nat, y \in Halves : <<x, y>> \in halves => x < nextStreamToOpen'
    BY <1>2, <1>5, <2>1 DEF AcceptInv
  <2>4. \A x \in nextStreamToOpen .. s : x \in Nat /\ ~(x < nextStreamToOpen)
    BY <1>2
  <2>5. shouldDelete = {x \in iStreams' : \A y \in Halves : <<x, y>> \in halves}
    <3>1. "send" \in Halves
      BY Zenon DEF Halves
    <3> QED BY <2>1, <2>4, <3>1, Zenon DEF AcceptInv
  <2>6. AcceptInv'
    BY <1>1, <2>1, <2>2, <2>3, <2>5, Zenon DEF AcceptInv
  <2> QED BY <1>3, <2>6, Zenon
<1> QED BY <1>4, <1>5, Zenon

\* AcceptStream takes the next stream, or waits because there is none.
LEMMA AcceptTaken ==
    ASSUME LimitInv, AcceptInv, NEW a \in Acceptors, AcceptStream(a)
    PROVE  AcceptInv'
<1>1. UNCHANGED <<nextStreamToOpen, halves, closeErr>> /\ acceptor[a] \in {"look", "wait"}
  BY Zenon DEF AcceptStream
<1>2. \A b \in Acceptors : b # a => acceptor[b] \notin {"look", "wait"}
  BY <1>1, Zenon DEF AcceptInv
<1>3. CASE closeErr \/ nextStreamToAccept \notin iStreams
  <2>1. /\ acceptor' = [acceptor EXCEPT ![a] = IF closeErr THEN "err" ELSE "wait"]
        /\ UNCHANGED <<iStreams, shouldDelete, nextStreamToAccept>>
    BY <1>3, Zenon DEF AcceptStream
  <2>2. /\ acceptor' \in [Acceptors -> {"idle", "look", "wait", "accepted", "err"}]
        /\ acceptor'[a] = IF closeErr THEN "err" ELSE "wait"
        /\ \A b \in Acceptors : b # a => acceptor'[b] = acceptor[b]
    BY <2>1, Zenon DEF AcceptInv
  <2>3. \A b \in Acceptors : /\ acceptor'[b] = "wait" /\ nextStreamToAccept \in iStreams => newStreamChan'
                             /\ acceptor'[b] = "err" => closeErr
    BY <1>2, <1>3, <2>2, Zenon DEF AcceptInv
  <2>4. \A b, c \in Acceptors :
           acceptor'[b] \in {"look", "wait"} /\ acceptor'[c] \in {"look", "wait"} => b = c
    BY <1>2, <2>2, Zenon
  <2> QED BY <1>1, <2>1, <2>2, <2>3, <2>4, Zenon DEF AcceptInv
<1>4. CASE ~(closeErr \/ nextStreamToAccept \notin iStreams)
  <2> DEFINE n == nextStreamToAccept
  <2>1. /\ acceptor' = [acceptor EXCEPT ![a] = "accepted"] /\ nextStreamToAccept' = n + 1
        /\ IF n \in shouldDelete THEN deleteStream(n, n + 1)
           ELSE UNCHANGED <<iStreams, shouldDelete, maxStream, credits>>
    BY <1>4, Zenon DEF AcceptStream
  <2>2. /\ acceptor' \in [Acceptors -> {"idle", "look", "wait", "accepted", "err"}]
        /\ acceptor'[a] = "accepted" /\ \A b \in Acceptors : b # a => acceptor'[b] = acceptor[b]
    BY <2>1, Zenon DEF AcceptInv
  <2>3. \A b \in Acceptors : acceptor'[b] \notin {"look", "wait"} /\ (acceptor'[b] = "err" => closeErr)
    BY <1>2, <2>2, Zenon DEF AcceptInv
  <2>4. n \in Nat \ {0} /\ n + 1 \in Nat \ {0} /\ n + 1 <= nextStreamToOpen /\ ~(n >= n + 1)
    BY <1>4 DEF LimitInv, AcceptInv
  <2>5. /\ iStreams' \subseteq iStreams /\ \A x \in iStreams : x # n => x \in iStreams'
        /\ shouldDelete' = shouldDelete \ {n}
        /\ n \in iStreams' => n \notin shouldDelete
    BY <2>1, <2>4, Zenon DEF deleteStream
  <2>6. n + 1 .. nextStreamToOpen - 1 \subseteq iStreams'
    <3>1. n .. nextStreamToOpen - 1 \subseteq iStreams /\ nextStreamToOpen \in Nat
      BY Zenon DEF AcceptInv, LimitInv
    <3> QED BY <2>4, <2>5, <3>1
  <2>7. shouldDelete' = {x \in iStreams' : \A y \in Halves : <<x, y>> \in halves}
    BY <2>5, Zenon DEF AcceptInv
  <2>8. \A x \in shouldDelete' : n + 1 <= x
    <3>1. \A x \in shouldDelete' : n <= x /\ x # n /\ x \in iStreams
      BY <2>5, Zenon DEF AcceptInv
    <3>2. \A x \in iStreams : x \in Nat
      BY DEF LimitInv
    <3> QED BY <2>4, <3>1, <3>2
  <2> QED BY <1>1, <2>1, <2>2, <2>3, <2>4, <2>6, <2>7, <2>8, Zenon DEF AcceptInv
<1> QED BY <1>3, <1>4, Zenon

\* Every step of the two maps keeps what is known of the accepted streams.
LEMMA AcceptStep ==
    ASSUME LimitInv, AcceptInv, [SMNext]_smvars
    PROVE  AcceptInv'
<1>1. ASSUME NEW a \in Acceptors, Accept(a) PROVE AcceptInv'
  <2>1. /\ \A b \in Acceptors : acceptor[b] \notin {"look", "wait"}
        /\ acceptor' = [acceptor EXCEPT ![a] = "look"]
        /\ UNCHANGED <<iStreams, shouldDelete, nextStreamToAccept, nextStreamToOpen, halves, closeErr>>
    BY <1>1, Zenon DEF Accept, rest
  <2>2. /\ acceptor' \in [Acceptors -> {"idle", "look", "wait", "accepted", "err"}]
        /\ acceptor'[a] = "look" /\ \A b \in Acceptors : b # a => acceptor'[b] = acceptor[b]
    BY <2>1, Zenon DEF AcceptInv
  <2>3. \A b \in Acceptors : acceptor'[b] # "wait" /\ (acceptor'[b] = "err" => closeErr)
    BY <2>1, <2>2, Zenon DEF AcceptInv
  <2>4. \A b, c \in Acceptors :
           acceptor'[b] \in {"look", "wait"} /\ acceptor'[c] \in {"look", "wait"} => b = c
    BY <2>1, <2>2, Zenon
  <2> QED BY <2>1, <2>2, <2>3, <2>4, Zenon DEF AcceptInv
<1>2. CASE CloseWithError
  <2>1. /\ closeErr' = TRUE
        /\ UNCHANGED <<acceptor, iStreams, shouldDelete, nextStreamToAccept, nextStreamToOpen, halves,
                       newStreamChan>>
    BY <1>2, Zenon DEF CloseWithError, incoming, users
  <2> QED BY <2>1, Zenon DEF AcceptInv
<1>3. ASSUME \/ \E o \in Openers : OpenStream(o) \/ OpenStreamSync(o) \/ Unblocked(o) \/ OpenCancelled(o)
             \/ \E n \in credits : HandleMaxStreamsFrame(n)
             \/ \E s \in outStreams : OutgoingDeleteStream(s)
             \/ HandleTransportParameters \/ ResetFor0RTT \/ UseResetMaps
             \/ UNCHANGED smvars
      PROVE  AcceptInv'
  <2>1. UNCHANGED <<acceptor, iStreams, shouldDelete, nextStreamToAccept, nextStreamToOpen, halves,
                    newStreamChan, closeErr>>
    BY <1>3, Zenon DEF OpenStream, OpenStreamSync, Unblocked, OpenCancelled, HandleMaxStreamsFrame,
        OutgoingDeleteStream, HandleTransportParameters, ResetFor0RTT, UseResetMaps, smvars, incoming,
        users, rest
  <2> QED BY <2>1, Zenon DEF AcceptInv
<1> QED
  BY <1>1, <1>2, <1>3, AcceptHalf, AcceptOpened, AcceptTaken, Zenon DEF SMNext

-----------------------------------------------------------------------------
(* Counting.                                                               *)

\* The calls that have opened or accepted a stream are finitely many.
LEMMA Countable ==
    /\ IsFiniteSet(Opened) /\ Cardinality(Opened) \in Nat
    /\ Cardinality(Opened) <= Cardinality(Openers) /\ Cardinality(Openers) \in Nat
    /\ IsFiniteSet(Accepting) /\ Cardinality(Accepting) \in Nat
    /\ Cardinality(Acceptors) \in Nat
<1>1. Opened \subseteq Openers /\ Accepting \subseteq Acceptors
  BY Zenon DEF Opened, Accepting
<1>2. IsFiniteSet(Openers) /\ IsFiniteSet(Acceptors)
  BY StreamsMapAssumption, Zenon
<1> QED BY <1>1, <1>2, FS_Subset, FS_CardinalityType, Zenon

\* A call opens a stream, or none is opened.
LEMMA CountOpened ==
    ASSUME CountInv, nextStream \in Nat \ {0}, nextStreamToAccept \in Nat, NEW o \in Openers,
           opener[o] # "open", opener \in [Openers -> {"idle", "wait", "open", "err"}],
           NEW r \in {"wait", "open", "err"},
           opener' = [opener EXCEPT ![o] = r], UNCHANGED <<acceptor, nextStreamToAccept>>,
           nextStream' = nextStream \/ (r = "open" /\ nextStream' = nextStream + 1)
    PROVE  CountInv'
<1>1. Accepting' = Accepting
  BY Zenon DEF Accepting
<1>2. CASE r = "open"
  <2>1. Opened' = Opened \cup {o} /\ o \notin Opened
    BY <1>2, Zenon DEF Opened
  <2>2. Cardinality(Opened') = Cardinality(Opened) + 1 /\ Cardinality(Opened) \in Nat
    BY <2>1, Countable, FS_AddElement, Zenon
  <2>3. nextStream' - 1 <= Cardinality(Opened')
    BY <2>2 DEF CountInv
  <2> QED BY <1>1, <2>3, Zenon DEF CountInv
<1>3. CASE r # "open"
  <2>1. Opened' = Opened
    BY <1>3, Zenon DEF Opened
  <2> QED BY <1>1, <1>3, <2>1, Zenon DEF CountInv
<1> QED BY <1>2, <1>3, Zenon

\* Every step of the two maps keeps the counts.
LEMMA CountStep ==
    ASSUME QueueInv, AcceptInv, CountInv, [SMNext]_smvars
    PROVE  CountInv'
<1>0. /\ nextStream \in Nat \ {0} /\ nextStreamToAccept \in Nat
      /\ opener \in [Openers -> {"idle", "wait", "open", "err"}]
  BY Zenon DEF QueueInv, AcceptInv
<1>1. ASSUME NEW o \in Openers, OpenStream(o) \/ OpenStreamSync(o) \/ OpenCancelled(o) \/ Unblocked(o)
      PROVE  CountInv'
  <2>1. opener[o] # "open" /\ UNCHANGED <<acceptor, nextStreamToAccept>>
    BY <1>1, Zenon DEF OpenStream, OpenStreamSync, OpenCancelled, Unblocked, incoming, users
  <2>2. CASE UNCHANGED <<opener, nextStream>>
    BY <2>1, <2>2, Zenon DEF CountInv, Opened, Accepting
  <2>3. CASE ~UNCHANGED <<opener, nextStream>>
    <3>1. \E r \in {"wait", "open", "err"} :
              /\ opener' = [opener EXCEPT ![o] = r]
              /\ nextStream' = nextStream \/ (r = "open" /\ nextStream' = nextStream + 1)
      <4>1. CASE OpenStream(o)
        BY <4>1, Zenon DEF OpenStream, openStream
      <4>2. CASE OpenStreamSync(o)
        BY <4>2, Zenon DEF OpenStreamSync, openStream
      <4>3. CASE OpenCancelled(o)
        BY <4>3, Zenon DEF OpenCancelled
      <4>4. CASE Unblocked(o)
        BY <2>3, <4>4, Zenon DEF Unblocked, openStream
      <4> QED BY <1>1, <4>1, <4>2, <4>3, <4>4, Zenon
    <3> QED BY <1>0, <2>1, <3>1, CountOpened, Zenon
  <2> QED BY <2>2, <2>3, Zenon
<1>2. CASE ResetFor0RTT
  <2>1. nextStream' = 1 /\ UNCHANGED <<opener, acceptor, nextStreamToAccept>>
    BY <1>2, Zenon DEF ResetFor0RTT, incoming, users
  <2>2. Opened' = Opened /\ Accepting' = Accepting
    BY <2>1, Zenon DEF Opened, Accepting
  <2>3. nextStream' - 1 <= Cardinality(Opened')
    BY <2>1, <2>2, Countable
  <2> QED BY <2>1, <2>2, <2>3, Zenon DEF CountInv
<1>3. ASSUME NEW a \in Acceptors, AcceptStream(a) PROVE CountInv'
  <2>1. acceptor[a] # "accepted" /\ UNCHANGED <<opener, nextStream>>
    BY <1>3, Zenon DEF AcceptStream, outgoing
  <2>2. Opened' = Opened
    BY <2>1, Zenon DEF Opened
  <2>3. CASE closeErr \/ nextStreamToAccept \notin iStreams
    <3>1. /\ acceptor' = [acceptor EXCEPT ![a] = IF closeErr THEN "err" ELSE "wait"]
          /\ UNCHANGED nextStreamToAccept
      BY <1>3, <2>3, Zenon DEF AcceptStream
    <3>2. Accepting' = Accepting
      BY <2>1, <3>1, Zenon DEF Accepting, AcceptInv
    <3> QED BY <2>1, <2>2, <3>1, <3>2, Zenon DEF CountInv
  <2>4. CASE ~(closeErr \/ nextStreamToAccept \notin iStreams)
    <3>1. /\ acceptor' = [acceptor EXCEPT ![a] = "accepted"]
          /\ nextStreamToAccept' = nextStreamToAccept + 1
      BY <1>3, <2>4, Zenon DEF AcceptStream
    <3>2. Accepting' = Accepting \cup {a} /\ a \notin Accepting
      BY <2>1, <3>1, Zenon DEF Accepting, AcceptInv
    <3>3. Cardinality(Accepting') = Cardinality(Accepting) + 1 /\ Cardinality(Accepting) \in Nat
      BY <3>2, Countable, FS_AddElement, Zenon
    <3>4. nextStreamToAccept' - 1 = Cardinality(Accepting')
      BY <1>0, <3>1, <3>3 DEF CountInv
    <3> QED BY <2>1, <2>2, <3>4, Zenon DEF CountInv
  <2> QED BY <2>3, <2>4, Zenon
<1>4. ASSUME NEW a \in Acceptors, Accept(a) PROVE CountInv'
  <2>1. /\ acceptor[a] = "idle" /\ acceptor' = [acceptor EXCEPT ![a] = "look"]
        /\ UNCHANGED <<opener, nextStream, nextStreamToAccept>>
    BY <1>4, Zenon DEF Accept, outgoing
  <2>2. Accepting' = Accepting /\ Opened' = Opened
    BY <2>1, Zenon DEF Accepting, Opened, AcceptInv
  <2> QED BY <2>1, <2>2, Zenon DEF CountInv
<1>5. ASSUME \/ \E n \in credits : HandleMaxStreamsFrame(n)
             \/ \E s \in outStreams : OutgoingDeleteStream(s)
             \/ HandleTransportParameters \/ UseResetMaps \/ CloseWithError
             \/ \E s \in frames : GetOrOpenStream(s)
             \/ \E s \in iStreams, h \in Halves : HalfCompleted(s, h)
             \/ UNCHANGED smvars
      PROVE  CountInv'
  <2>1. UNCHANGED <<opener, acceptor, nextStream, nextStreamToAccept>>
    BY <1>5, Zenon DEF HandleMaxStreamsFrame, OutgoingDeleteStream, HandleTransportParameters,
        UseResetMaps, CloseWithError, GetOrOpenStream, HalfCompleted, smvars, outgoing, incoming, users
  <2> QED BY <2>1, Zenon DEF CountInv, Opened, Accepting
<1> QED BY <1>1, <1>2, <1>3, <1>4, <1>5, Zenon DEF SMNext

-----------------------------------------------------------------------------
(* The invariant and what follows from it.                                 *)

\* The first state satisfies the invariant.
LEMMA StreamsInit == SMInit => StreamsInv
<1> SUFFICES ASSUME SMInit PROVE StreamsInv
  OBVIOUS
<1>0. Cardinality({}) = 0 /\ IsFiniteSet({})
  BY FS_EmptySet, Zenon
<1>1. QueueInv
  <2>1. nextStream \in Nat \ {0} /\ max \in Nat
    BY StreamsMapAssumption DEF SMInit
  <2>2. Queued(<<>>, {}, Waiting) /\ Told(<<>>, {}, nextStream, max)
    BY DEF Queued, Told
  <2> QED BY <2>1, <2>2, Zenon DEF SMInit, QueueInv
<1>2. LimitInv
  <2>1. /\ nextStream = 1 /\ nextStreamToOpen = 1 /\ maxStream = maxNumStreams
        /\ frames = {} /\ credits = {} /\ iStreams = {} /\ state # "open"
        /\ max = Remembered \/ max = 0
    BY Zenon DEF SMInit
  <2> QED BY <1>0, <2>1, StreamsMapAssumption DEF LimitInv
<1>3. AcceptInv
  <2>1. /\ nextStreamToAccept = 1 /\ nextStreamToOpen = 1 /\ acceptor = [a \in Acceptors |-> "idle"]
        /\ closeErr = FALSE /\ iStreams = {} /\ halves = {} /\ shouldDelete = {}
    BY Zenon DEF SMInit
  <2>2. /\ nextStreamToAccept \in Nat \ {0} /\ nextStreamToAccept <= nextStreamToOpen
        /\ nextStreamToAccept .. nextStreamToOpen - 1 \subseteq iStreams
    BY <2>1
  <2> QED BY <2>1, <2>2, Zenon DEF AcceptInv
<1>4. CountInv
  <2>1. Opened = {} /\ Accepting = {}
    BY Zenon DEF SMInit, Opened, Accepting
  <2>2. nextStream = 1 /\ nextStreamToAccept = 1
    BY Zenon DEF SMInit
  <2> QED BY <1>0, <2>1, <2>2 DEF CountInv
<1> QED BY <1>1, <1>2, <1>3, <1>4, Zenon DEF StreamsInv, SMInit

\* A closed map has no queue, and a call that is woken is the one that waited longest.
LEMMA ClosedStep ==
    ASSUME StreamsInv, [SMNext]_smvars
    PROVE  (closeErr' => openQueue' = <<>>) /\ ~fault'
<1> USE DEF StreamsInv
<1>1. ASSUME NEW o \in Openers, OpenStream(o) \/ OpenStreamSync(o)
      PROVE  (closeErr' => openQueue' = <<>>) /\ ~fault'
  <2>1. (closeErr => openQueue' = openQueue) /\ UNCHANGED <<closeErr, fault>>
    BY <1>1, Zenon DEF OpenStream, OpenStreamSync
  <2> QED BY <2>1, Zenon
<1>2. ASSUME NEW o \in Openers, Unblocked(o)
      PROVE  (closeErr' => openQueue' = <<>>) /\ ~fault'
  <2>1. Range(<<>>) = {}
    BY DEF Range
  <2>2. closeErr' = closeErr
    BY <1>2, Zenon DEF Unblocked
  <2>3. CASE o \in unblocked /\ o \in Range(openQueue)
    <3>1. Head(openQueue) = o /\ ~closeErr
      BY <2>1, <2>3, QueueOpens, Zenon
    <3>2. fault' = fault \/ fault' = (fault \/ Head(openQueue) # o)
      BY <1>2, Zenon DEF Unblocked
    <3>3. fault' = (fault \/ Head(openQueue) # o) => ~fault'
      BY <3>1, Zenon
    <3> QED BY <2>2, <3>1, <3>2, <3>3
  <2>4. CASE ~(o \in unblocked /\ o \in Range(openQueue))
    <3>1. fault' = fault /\ openQueue' = openQueue
      BY <1>2, <2>4, Zenon DEF Unblocked
    <3> QED BY <2>2, <3>1, Zenon
  <2> QED BY <2>3, <2>4, Zenon
<1>3. ASSUME NEW o \in Openers, OpenCancelled(o)
      PROVE  (closeErr' => openQueue' = <<>>) /\ ~fault'
  <2>1. Without(<<>>, o) = <<>>
    BY DEF Without, Range
  <2> QED BY <1>3, <2>1, Zenon DEF OpenCancelled
<1>4. CASE ResetFor0RTT \/ CloseWithError
  <2>1. openQueue' = <<>> /\ fault' = fault
    BY <1>4, Zenon DEF ResetFor0RTT, CloseWithError
  <2> QED BY <2>1, Zenon
<1>5. ASSUME \/ \E n \in credits : HandleMaxStreamsFrame(n)
             \/ \E s \in outStreams : OutgoingDeleteStream(s)
             \/ HandleTransportParameters \/ UseResetMaps
             \/ \E a \in Acceptors : Accept(a) \/ AcceptStream(a)
             \/ UNCHANGED smvars
      PROVE  (closeErr' => openQueue' = <<>>) /\ ~fault'
  <2>1. UNCHANGED <<closeErr, openQueue, fault>>
    BY <1>5, Zenon DEF HandleMaxStreamsFrame, OutgoingDeleteStream, HandleTransportParameters, UseResetMaps,
        Accept, AcceptStream, smvars, outgoing, rest
  <2> QED BY <2>1, Zenon
<1>6. ASSUME \/ \E s \in frames : GetOrOpenStream(s)
             \/ \E s \in iStreams, h \in Halves : HalfCompleted(s, h)
      PROVE  (closeErr' => openQueue' = <<>>) /\ ~fault'
  <2>1. UNCHANGED <<closeErr, openQueue>>
    BY <1>6, Zenon DEF GetOrOpenStream, HalfCompleted, outgoing
  <2> QED BY <1>6, <2>1, AcceptHalf, AcceptOpened, Zenon
<1> QED BY <1>1, <1>2, <1>3, <1>4, <1>5, <1>6, Zenon DEF SMNext

\* The invariant holds in every reachable state.
LEMMA StreamsInvariance == SMSpec => []StreamsInv
<1>1. StreamsInv /\ [SMNext]_smvars => StreamsInv'
  <2> SUFFICES ASSUME StreamsInv, [SMNext]_smvars PROVE StreamsInv'
    OBVIOUS
  <2>1. credits \subseteq Nat
    BY DEF StreamsInv, LimitInv
  <2> QED BY <2>1, QueueStep, LimitStep, AcceptStep, CountStep, ClosedStep, Zenon DEF StreamsInv
<1> QED BY <1>1, StreamsInit, PTL DEF SMSpec

\* The limits hold, and nobody misses a stream.
LEMMA LimitsHold == StreamsInv => StreamLimit /\ NoMissedStream
<1> SUFFICES ASSUME StreamsInv PROVE StreamLimit /\ NoMissedStream
  OBVIOUS
<1>1. Cardinality(iStreams) \in Nat
  BY FS_CardinalityType, Zenon DEF StreamsInv, LimitInv
<1>2. StreamLimit
  BY <1>1, StreamsMapAssumption DEF StreamsInv, LimitInv, StreamLimit
<1>3. NoMissedStream
  BY Zenon DEF StreamsInv, QueueInv, Told, AcceptInv, NoMissedStream
<1> QED BY <1>2, <1>3, Zenon

\* When nothing is left to be done, nobody waits to open a stream.
LEMMA Quiet ==
    ASSUME StreamsInv, maxNumStreams > 0, Cardinality(Openers) <= Cardinality(Acceptors)
    PROVE  OpenReturns
<1> SUFFICES ASSUME ~OpenReturns PROVE FALSE
  OBVIOUS
<1>1. PICK o \in Openers : opener[o] = "wait"
  BY Zenon DEF OpenReturns
<1>2. /\ state = "open"
      /\ \A x \in Openers : opener[x] = "wait" => x \notin unblocked /\ x \in Range(openQueue)
      /\ closeErr \/ ((\A n \in credits : ~(n > max)) /\ \A s \in frames : ~(s >= nextStreamToOpen))
      /\ \A s \in iStreams, h \in Halves : <<s, h>> \in halves
      /\ \A a \in Acceptors : acceptor[a] \notin {"idle", "look"} /\ (acceptor[a] = "wait" => ~newStreamChan)
  BY Zenon DEF OpenReturns
<1>3. openQueue \in Seq(Waiting) /\ openQueue # <<>> /\ ~closeErr
  <2>1. openQueue \in Seq(Waiting) /\ o \in Range(openQueue)
    BY <1>1, <1>2, Zenon DEF StreamsInv, QueueInv, Queued
  <2>2. Range(<<>>) = {}
    BY DEF Range
  <2> QED BY <2>1, <2>2, Zenon DEF StreamsInv
<1>4. Head(openQueue) \in Openers /\ opener[Head(openQueue)] = "wait"
  BY <1>3 DEF Waiting
<1>5. ~(nextStream <= max)
  BY <1>2, <1>3, <1>4, Zenon DEF StreamsInv, QueueInv, Told
<1>6. /\ nextStream \in Nat /\ max \in Nat /\ nextStreamToOpen \in Nat /\ maxStream \in Nat
      /\ nextStream <= max + 1 /\ max <= maxStream /\ nextStreamToOpen <= maxStream + 1
      /\ maxNumStreams <= max /\ maxNumStreams \in Nat
      /\ maxStream \in credits \cup {maxNumStreams} /\ frames = 1 .. nextStream - 1
  BY <1>2, StreamsMapAssumption, Zenon DEF StreamsInv, LimitInv
<1>7. max = maxStream /\ nextStream = maxStream + 1 /\ nextStream - 1 \in frames
  <2>1. maxStream \in credits => ~(maxStream > max)
    BY <1>2, <1>3, Zenon
  <2>2. maxStream \in credits \/ maxStream = maxNumStreams
    BY <1>6, Zenon
  <2>3. max = maxStream /\ nextStream = maxStream + 1
    BY <1>5, <1>6, <2>1, <2>2
  <2>4. nextStream - 1 \in 1 .. nextStream - 1
    BY <1>6, <2>3
  <2> QED BY <1>6, <2>3, <2>4, Zenon
<1>8. nextStreamToOpen = maxStream + 1
  <2>1. ~(nextStream - 1 >= nextStreamToOpen)
    BY <1>2, <1>3, <1>7, Zenon
  <2> QED BY <1>6, <1>7, <2>1
<1>9. PICK s \in iStreams : TRUE
  <2>1. maxStream + Cardinality(iStreams) = nextStreamToOpen - 1 + maxNumStreams
    BY Zenon DEF StreamsInv, LimitInv
  <2>2. iStreams = {} => Cardinality(iStreams) = 0
    BY FS_EmptySet, Zenon
  <2> QED BY <1>6, <1>8, <2>1, <2>2
<1>10. s \in Nat /\ s < nextStreamToOpen /\ s \in shouldDelete /\ nextStreamToAccept <= s
       /\ nextStreamToAccept \in Nat
  BY <1>2 DEF StreamsInv, LimitInv, AcceptInv
<1>11. nextStreamToAccept \in iStreams
  BY <1>6, <1>10 DEF StreamsInv, AcceptInv
<1>12. Accepting = Acceptors
  BY <1>2, <1>3, <1>11, Zenon DEF StreamsInv, AcceptInv, Accepting
<1>13. /\ nextStreamToAccept - 1 = Cardinality(Acceptors) /\ nextStream - 1 <= Cardinality(Opened)
  BY <1>12, Zenon DEF StreamsInv, CountInv
<1> QED BY <1>6, <1>7, <1>8, <1>10, <1>13, Countable

\* However many calls open and accept streams, whatever the limit: no stream is opened or
\* accepted beyond it, every limit granted can be used, and no call that waits to open or to
\* accept a stream misses one (the two maps of streams_map.go).
THEOREM StreamLimitTheorem == SMSpec => [](StreamLimit /\ NoMissedStream)
<1> QED BY StreamsInvariance, LimitsHold, PTL

\* If some stream is allowed and there are as many calls that accept as there are that open,
\* OpenStreamSync does not wait forever: nothing is left to be done only when nobody waits.
THEOREM StreamsTheorem ==
    ASSUME maxNumStreams > 0, Cardinality(Openers) <= Cardinality(Acceptors)
    PROVE  SMSpec => []StreamLimitsKept
<1>1. StreamsInv => StreamLimitsKept
  BY LimitsHold, Quiet, Zenon DEF StreamLimitsKept
<1> QED BY <1>1, StreamsInvariance, PTL
=====
