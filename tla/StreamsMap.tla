----------------------------- MODULE StreamsMap -----------------------------
(***************************************************************************)
(* The streams of one type that one peer opens and the other accepts:      *)
(* outgoingStreamsMap (streams_map_outgoing.go) at one end,                *)
(* incomingStreamsMap (streams_map_incoming.go) and the two halves of each *)
(* stream (stream.go) at the other, streamsMap (streams_map.go) around     *)
(* both.  Stream IDs, which go up in steps of 4, are given by their        *)
(* number.                                                                 *)
(***************************************************************************)
EXTENDS Integers, Sequences, FiniteSets, Functions

CONSTANTS Openers,        \* calls to OpenStream and OpenStreamSync
          Acceptors,      \* calls to AcceptStream, one after the other
          maxNumStreams,  \* streams the acceptor allows at any time
          Remembered,     \* the limit remembered for 0-RTT
          MaxCancels      \* contexts that end, connections that close

\* A server accepts 0-RTT only if its limit is not below the remembered one (ZeroRTT).
ASSUME StreamsMapAssumption ==
  /\ IsFiniteSet(Openers) /\ IsFiniteSet(Acceptors)
  /\ maxNumStreams \in Nat /\ Remembered \in 0 .. maxNumStreams /\ MaxCancels \in Nat

VARIABLES nextStream, max, blockedSent, openQueue, unblocked, outStreams, reset, opener,
          iStreams, shouldDelete, nextStreamToAccept, nextStreamToOpen, maxStream, newStreamChan,
          acceptor, halves, frames, credits, state, closeErr, fault, cancels

outgoing == <<nextStream, max, blockedSent, openQueue, unblocked, outStreams, reset, opener>>
incoming == <<iStreams, shouldDelete, nextStreamToAccept, nextStreamToOpen, maxStream, newStreamChan>>
users == <<acceptor, halves>>
rest == <<frames, credits, state, closeErr, fault, cancels>>
smvars == <<outgoing, incoming, users, rest>>

Halves == {"send", "receive"}

\* The transport parameters are the first MAX_STREAMS.
SMInit ==
  /\ \E p \in {"0rtt", "handshake"} : state = p /\ max = IF p = "0rtt" THEN Remembered ELSE 0
  /\ nextStream = 1 /\ blockedSent = FALSE /\ openQueue = <<>> /\ unblocked = {} /\ outStreams = {}
  /\ reset = FALSE /\ opener = [o \in Openers |-> "idle"]
  /\ iStreams = {} /\ shouldDelete = {} /\ nextStreamToAccept = 1 /\ nextStreamToOpen = 1
  /\ maxStream = maxNumStreams /\ newStreamChan = FALSE
  /\ acceptor = [a \in Acceptors |-> "idle"] /\ halves = {}
  /\ frames = {} /\ credits = {} /\ closeErr = FALSE /\ fault = FALSE /\ cancels = MaxCancels

---------------------------------------------------------------------------
(* Opening                                                                 *)

\* MUTANT: whoever waits is unblocked, not the one who waits longest.
maybeUnblockOpenSync_bug(queue, next, m, tokens) ==
  IF queue = <<>> \/ next > m THEN tokens ELSE tokens \cup {queue[Len(queue)]}

\* The calls with a token, once the longest waiting may open stream next.
maybeUnblockOpenSync(queue, next, m, tokens) ==
  IF queue = <<>> \/ next > m THEN tokens ELSE tokens \cup {Head(queue)}

openStream ==
  /\ outStreams' = outStreams \cup {nextStream} /\ frames' = frames \cup {nextStream}
  /\ nextStream' = nextStream + 1

OpenStream(o) ==
  /\ opener[o] = "idle"
  /\ IF reset \/ closeErr
     THEN /\ opener' = [opener EXCEPT ![o] = "err"]
          /\ UNCHANGED <<blockedSent, outStreams, frames, nextStream>>
     ELSE IF openQueue # <<>> \/ nextStream > max
     THEN /\ opener' = [opener EXCEPT ![o] = "err"] /\ blockedSent' = TRUE
          /\ UNCHANGED <<outStreams, frames, nextStream>>
     ELSE openStream /\ opener' = [opener EXCEPT ![o] = "open"] /\ UNCHANGED blockedSent
  /\ UNCHANGED <<max, openQueue, unblocked, reset, incoming, users, credits, state, closeErr, fault, cancels>>

OpenStreamSync(o) ==
  /\ opener[o] = "idle"
  /\ IF reset \/ closeErr
     THEN /\ opener' = [opener EXCEPT ![o] = "err"]
          /\ UNCHANGED <<blockedSent, openQueue, outStreams, frames, nextStream>>
     ELSE IF openQueue = <<>> /\ nextStream <= max
     THEN openStream /\ opener' = [opener EXCEPT ![o] = "open"] /\ UNCHANGED <<blockedSent, openQueue>>
     ELSE /\ opener' = [opener EXCEPT ![o] = "wait"]
          /\ openQueue' = Append(openQueue, o) /\ blockedSent' = TRUE
          /\ UNCHANGED <<outStreams, frames, nextStream>>
  /\ UNCHANGED <<max, unblocked, reset, incoming, users, credits, state, closeErr, fault, cancels>>

\* The token arrives, or the closing of the map (0-RTT rejected included).
Unblocked(o) ==
  /\ opener[o] = "wait" /\ (o \in unblocked \/ o \notin Range(openQueue))
  /\ IF o \notin Range(openQueue)
     THEN /\ opener' = [opener EXCEPT ![o] = "err"] /\ unblocked' = unblocked \ {o}
          /\ UNCHANGED <<openQueue, outStreams, frames, nextStream, fault>>
     ELSE IF nextStream > max
     THEN /\ unblocked' = unblocked \ {o}
          /\ UNCHANGED <<opener, openQueue, outStreams, frames, nextStream, fault>>
     ELSE /\ openStream /\ opener' = [opener EXCEPT ![o] = "open"]
          /\ openQueue' = Tail(openQueue)
          /\ fault' = (fault \/ Head(openQueue) # o)
          /\ unblocked' = maybeUnblockOpenSync(Tail(openQueue), nextStream + 1, max, unblocked \ {o})
  /\ UNCHANGED <<max, blockedSent, reset, incoming, users, credits, state, closeErr, cancels>>

\* The queue without call o, which waits in it once at most.
Without(queue, o) ==
  LET k == CHOOSE i \in DOMAIN queue : queue[i] = o
  IN  IF o \in Range(queue) THEN [i \in 1 .. Len(queue) - 1 |-> queue[IF i < k THEN i ELSE i + 1]]
      ELSE queue

\* MUTANT: the call that gives up keeps its token to itself.
OpenCancelled_bug(o) ==
  /\ opener[o] = "wait" /\ cancels > 0 /\ cancels' = cancels - 1
  /\ opener' = [opener EXCEPT ![o] = "err"]
  /\ openQueue' = Without(openQueue, o) /\ unblocked' = unblocked \ {o}
  /\ UNCHANGED <<nextStream, max, blockedSent, outStreams, reset, incoming, users, frames, credits, state,
                 closeErr, fault>>

OpenCancelled(o) ==
  /\ opener[o] = "wait" /\ cancels > 0 /\ cancels' = cancels - 1
  /\ opener' = [opener EXCEPT ![o] = "err"]
  /\ openQueue' = Without(openQueue, o)
  /\ unblocked' = maybeUnblockOpenSync(openQueue', nextStream, max, unblocked \ {o})
  /\ UNCHANGED <<nextStream, max, blockedSent, outStreams, reset, incoming, users, frames, credits, state,
                 closeErr, fault>>

SetMaxStream(n, queue, next) ==
  IF n <= max THEN UNCHANGED <<max, blockedSent, unblocked>>
  ELSE /\ max' = n
       /\ blockedSent' = (n < next - 1 + Len(queue))
       /\ unblocked' = maybeUnblockOpenSync(queue, next, n, unblocked)

HandleMaxStreamsFrame(n) ==
  /\ state = "open" /\ ~closeErr
  /\ SetMaxStream(n, openQueue, nextStream)
  /\ UNCHANGED <<nextStream, openQueue, outStreams, reset, opener, incoming, users, rest>>

\* A stream is gone once both its halves are, here and at the peer.
OutgoingDeleteStream(s) ==
  /\ s \in outStreams /\ s < nextStreamToOpen /\ s \notin iStreams
  /\ outStreams' = outStreams \ {s}
  /\ UNCHANGED <<nextStream, max, blockedSent, openQueue, unblocked, reset, opener, incoming, users, rest>>

---------------------------------------------------------------------------
(* The handshake                                                           *)

HandleTransportParameters ==
  /\ state \in {"0rtt", "handshake", "rejected"}
  /\ state' = "open"
  /\ SetMaxStream(maxNumStreams, openQueue, nextStream)
  /\ UNCHANGED <<nextStream, openQueue, outStreams, reset, opener, incoming, users, frames, credits, closeErr,
                 fault, cancels>>

\* 0-RTT is rejected: the map is closed and made anew; what was sent is lost.
ResetFor0RTT ==
  /\ state = "0rtt" /\ state' = "rejected" /\ reset' = TRUE
  /\ nextStream' = 1 /\ max' = 0 /\ blockedSent' = FALSE /\ openQueue' = <<>> /\ unblocked' = {}
  /\ outStreams' = {} /\ frames' = {}
  /\ UNCHANGED <<opener, incoming, users, credits, closeErr, fault, cancels>>

UseResetMaps ==
  /\ reset /\ reset' = FALSE
  /\ UNCHANGED <<nextStream, max, blockedSent, openQueue, unblocked, outStreams, opener, incoming, users, rest>>

---------------------------------------------------------------------------
(* Accepting                                                               *)

\* A frame for stream s arrives: it opens all the streams up to s.
GetOrOpenStream(s) ==
  /\ state = "open" /\ ~closeErr
  /\ fault' = (fault \/ s > maxStream)
  /\ IF s > maxStream \/ s < nextStreamToOpen
     THEN UNCHANGED <<iStreams, nextStreamToOpen, newStreamChan>>
     ELSE /\ iStreams' = iStreams \cup (nextStreamToOpen .. s)
          /\ nextStreamToOpen' = s + 1
          /\ newStreamChan' = TRUE
  /\ UNCHANGED <<outgoing, shouldDelete, nextStreamToAccept, maxStream, users, frames, credits, state, closeErr,
                 cancels>>

\* MUTANT: the limit counts the streams that are gone, not those that are left.
CreditAfter_bug(streams) == nextStreamToOpen + maxNumStreams - Cardinality(streams)

\* The limit after streams are left in the map.
CreditAfter(streams) == nextStreamToOpen + maxNumStreams - Cardinality(streams) - 1

\* Deletes s from the streams; a stream not accepted yet is only marked.
deleteStream(s, accept) ==
  IF s >= accept
  THEN shouldDelete' = shouldDelete \cup {s} /\ UNCHANGED <<iStreams, maxStream, credits>>
  ELSE /\ iStreams' = iStreams \ {s} /\ shouldDelete' = shouldDelete \ {s}
       /\ IF maxNumStreams > Cardinality(iStreams')
          THEN maxStream' = CreditAfter(iStreams') /\ credits' = credits \cup {maxStream'}
          ELSE UNCHANGED <<maxStream, credits>>

\* One half of stream s is completed (checkIfCompleted).
HalfCompleted(s, h) ==
  /\ <<s, h>> \notin halves
  /\ halves' = halves \cup {<<s, h>>}
  /\ IF \A x \in Halves : <<s, x>> \in halves'
     THEN /\ fault' = (fault \/ s \in shouldDelete)
          /\ deleteStream(s, nextStreamToAccept)
     ELSE UNCHANGED <<iStreams, shouldDelete, maxStream, credits, fault>>
  /\ UNCHANGED <<outgoing, nextStreamToAccept, nextStreamToOpen, newStreamChan, acceptor, frames, state, closeErr,
                 cancels>>

\* AcceptStream first empties the channel, without the lock.
Accept(a) ==
  /\ acceptor[a] = "idle" /\ \A b \in Acceptors : acceptor[b] \notin {"look", "wait"}
  /\ acceptor' = [acceptor EXCEPT ![a] = "look"]
  /\ newStreamChan' = FALSE
  /\ UNCHANGED <<outgoing, iStreams, shouldDelete, nextStreamToAccept, nextStreamToOpen, maxStream, halves, rest>>

AcceptStream(a) ==
  /\ \/ acceptor[a] = "look" /\ UNCHANGED newStreamChan
     \/ acceptor[a] = "wait" /\ (newStreamChan \/ closeErr) /\ newStreamChan' = FALSE
  /\ IF closeErr \/ nextStreamToAccept \notin iStreams
     THEN /\ acceptor' = [acceptor EXCEPT ![a] = IF closeErr THEN "err" ELSE "wait"]
          /\ UNCHANGED <<iStreams, shouldDelete, nextStreamToAccept, maxStream, credits>>
     ELSE /\ acceptor' = [acceptor EXCEPT ![a] = "accepted"]
          /\ nextStreamToAccept' = nextStreamToAccept + 1
          /\ IF nextStreamToAccept \in shouldDelete
             THEN deleteStream(nextStreamToAccept, nextStreamToAccept + 1)
             ELSE UNCHANGED <<iStreams, shouldDelete, maxStream, credits>>
  /\ UNCHANGED <<outgoing, nextStreamToOpen, halves, frames, state, closeErr, fault, cancels>>

\* The connection closes, at both ends.
CloseWithError ==
  /\ ~closeErr /\ state = "open" /\ cancels > 0 /\ cancels' = cancels - 1
  /\ closeErr' = TRUE /\ openQueue' = <<>>
  /\ UNCHANGED <<nextStream, max, blockedSent, unblocked, outStreams, reset, opener, incoming, users, frames,
                 credits, state, fault>>

SMNext ==
  \/ \E o \in Openers : OpenStream(o) \/ OpenStreamSync(o) \/ Unblocked(o) \/ OpenCancelled(o)
  \/ \E n \in credits : HandleMaxStreamsFrame(n)
  \/ \E s \in outStreams : OutgoingDeleteStream(s)
  \/ HandleTransportParameters \/ ResetFor0RTT \/ UseResetMaps \/ CloseWithError
  \/ \E s \in frames : GetOrOpenStream(s)
  \/ \E s \in iStreams, h \in Halves : HalfCompleted(s, h)
  \/ \E a \in Acceptors : Accept(a) \/ AcceptStream(a)

SMSpec == SMInit /\ [][SMNext]_smvars

---------------------------------------------------------------------------
\* The limits fit: no stream is opened beyond what the peer allows, never are
\* more streams open than allowed, whatever order MAX_STREAMS, the frames and
\* the deletions come in, and no stream is deleted twice.  What the opener
\* believes it may open is at most what the acceptor accepts.
StreamLimit ==
  /\ ~fault
  /\ state = "open" => max <= maxStream /\ nextStream <= maxStream + 1
  /\ Cardinality(iStreams) <= maxNumStreams

\* No call waits for a stream it could have: the OpenStreamSync that waits
\* longest has been told when there is a stream to open, and an AcceptStream
\* that waits has been told when there is one to accept.
NoMissedStream ==
  /\ openQueue # <<>> /\ nextStream <= max => Head(openQueue) \in unblocked
  /\ \A a \in Acceptors : acceptor[a] = "wait" /\ nextStreamToAccept \in iStreams => newStreamChan

\* As long as streams are accepted and completed, every OpenStreamSync returns:
\* when no woken call, frame, credit, unfinished stream or acceptor is left to
\* make a step, nobody waits to open a stream.
OpenReturns ==
  \/ state # "open"
  \/ \E o \in Openers : opener[o] = "wait" /\ (o \in unblocked \/ o \notin Range(openQueue))
  \/ ~closeErr /\ ((\E n \in credits : n > max) \/ \E s \in frames : s >= nextStreamToOpen)
  \/ \E s \in iStreams, h \in Halves : <<s, h>> \notin halves
  \/ \E a \in Acceptors : acceptor[a] \in {"idle", "look"} \/ (acceptor[a] = "wait" /\ newStreamChan)
  \/ \A o \in Openers : opener[o] # "wait"

\* What the two maps promise: the limit on streams holds on both sides (StreamLimit), nobody who
\* waits to open or to accept a stream misses one (NoMissedStream), and OpenStreamSync returns in
\* the end (OpenReturns).
StreamLimitsKept == StreamLimit /\ NoMissedStream /\ OpenReturns
=============================================================================
