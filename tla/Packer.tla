------------------------------- MODULE Packer -------------------------------
(***************************************************************************)
(* Filling 1-RTT packets (packet_packer.go) from the framer (framer.go),   *)
(* the datagram queue (datagram_queue.go), the retransmission queue and    *)
(* the ACKs that are due, while the application writes to streams and      *)
(* queues datagrams.  The run loop packs packets until there is nothing to *)
(* pack and then sleeps until sending is scheduled again.                  *)
(*                                                                         *)
(* Sizes are in units: a control frame, an ACK, a small datagram and a     *)
(* unit of stream data take one each, so that MinStreamFrameSize is one.   *)
(***************************************************************************)
EXTENDS Integers, Sequences, FiniteSets, FiniteSetsExt, SequencesExt

CONSTANTS Streams, Adders,          \* writing goroutines, and goroutines in SendDatagram
          SizeOf,                   \* SizeOf[a]: the size of adder a's datagram
          Credit,                   \* stream flow control credit at the start
          ConnCredit,               \* connection flow control credit at the start
          MaxPayload, SmallPayload, \* payload of a packet, and after a path change
          maxDatagramSendQueueLen, maxDatagramRcvQueueLen, MaxNonAckElicitingAcks,
          MaxActors,                \* how many of the writers and adders there are
          MaxInputs                 \* packets received, path changes, closing

VARIABLES data, credit, wr,          \* streams: unsent data, credit, their writer
          conn, reported,            \* connection credit; DATA_BLOCKED already queued
          streamQueue, activeStreams, streamsWithControlFrames, controlFrames, pathResponses,
          retx,                      \* retransmission queue: number of 1-RTT frames
          ack,                       \* "none", "pending", "queued"
          sendQueue, sent, add,      \* datagrams to send, its channel, the adders
          rcvQueue, rcvd, recv,      \* datagrams received, its channel, the receiver
          closed,                    \* the datagram queue
          numNonAckElicitingAcks,
          pk,                        \* the packet being packed
          sched, payload, inputs, discarded

strs == <<data, credit, wr>>
flow == <<conn, reported>>
framer == <<streamQueue, activeStreams, streamsWithControlFrames, controlFrames, pathResponses>>
dgSend == <<sendQueue, sent, add>>
dgRecv == <<rcvQueue, rcvd, recv>>
other == <<sched, payload, inputs, discarded>>
pvars == <<strs, flow, framer, retx, ack, dgSend, dgRecv, closed, numNonAckElicitingAcks, pk, other>>

NoPacket == [pc |-> "sleep", room |-> 0, ack |-> FALSE, frames |-> 0, tries |-> 0, cur |-> "none", more |-> FALSE]

PInit ==
  /\ data = [s \in Streams |-> 0] /\ credit = Credit
  /\ \E A \in SUBSET (Streams \cup Adders) :
       /\ Cardinality(A) = MaxActors
       /\ wr = [s \in Streams |-> IF s \in A THEN "idle" ELSE "done"]
       /\ add = [a \in Adders |-> IF a \in A THEN "idle" ELSE "done"]
  /\ conn = ConnCredit /\ reported = FALSE
  /\ streamQueue = <<>> /\ activeStreams = {} /\ streamsWithControlFrames = {}
  /\ controlFrames = 0 /\ pathResponses = 0 /\ retx = 0 /\ ack = "none"
  /\ sendQueue = <<>> /\ sent = FALSE
  /\ rcvQueue = 0 /\ rcvd = FALSE /\ recv = "idle" /\ closed = FALSE
  /\ numNonAckElicitingAcks = 0 /\ pk = NoPacket
  /\ sched = FALSE /\ payload = MaxPayload /\ inputs = MaxInputs /\ discarded = FALSE

---------------------------------------------------------------------------
(* The application.  A writer hands its data to the stream, registers the  *)
(* stream with the framer, and schedules sending.                          *)

\* Append holds the framer's mutex.
FramerFree == pk.pc \notin {"streams", "settle"}

AddActiveStream(s) ==
  /\ streamQueue' = IF s \in activeStreams THEN streamQueue ELSE Append(streamQueue, s)
  /\ activeStreams' = activeStreams \cup {s}

Write(s) ==
  /\ \/ /\ wr[s] = "idle" /\ wr' = [wr EXCEPT ![s] = "set"] /\ data' = [data EXCEPT ![s] = @ + 2]
        /\ UNCHANGED <<streamQueue, activeStreams, sched>>
     \/ /\ wr[s] = "set" /\ FramerFree /\ wr' = [wr EXCEPT ![s] = "added"] /\ AddActiveStream(s)
        /\ UNCHANGED <<data, sched>>
     \/ /\ wr[s] = "added" /\ wr' = [wr EXCEPT ![s] = "done"] /\ sched' = TRUE
        /\ UNCHANGED <<data, streamQueue, activeStreams>>
  /\ UNCHANGED <<credit, flow, streamsWithControlFrames, controlFrames, pathResponses, retx, ack,
                 dgSend, dgRecv, closed, numNonAckElicitingAcks, pk, payload, inputs, discarded>>

\* MUTANT: the channel is drained after the lock is released.
Add_bug(a) ==
  /\ \/ /\ add[a] = "idle" /\ Len(sendQueue) < maxDatagramSendQueueLen
        /\ sendQueue' = Append(sendQueue, SizeOf[a]) /\ add' = [add EXCEPT ![a] = "added"]
        /\ UNCHANGED <<sent, sched>>
     \/ /\ add[a] = "idle" /\ Len(sendQueue) >= maxDatagramSendQueueLen
        /\ add' = [add EXCEPT ![a] = "full"] /\ UNCHANGED <<sendQueue, sent, sched>>
     \/ /\ add[a] = "full" /\ sent' = FALSE
        /\ add' = [add EXCEPT ![a] = "wait"] /\ UNCHANGED <<sendQueue, sched>>
     \/ /\ add[a] = "added" /\ sched' = TRUE
        /\ add' = [add EXCEPT ![a] = "done"] /\ UNCHANGED <<sendQueue, sent>>
  /\ UNCHANGED <<strs, flow, framer, retx, ack, dgRecv, closed, numNonAckElicitingAcks, pk, payload,
                 inputs, discarded>>

\* datagramQueue.Add; hasData schedules sending after the lock is released.
Add(a) ==
  /\ \/ /\ add[a] = "idle" /\ Len(sendQueue) < maxDatagramSendQueueLen
        /\ sendQueue' = Append(sendQueue, SizeOf[a]) /\ add' = [add EXCEPT ![a] = "added"]
        /\ UNCHANGED <<sent, sched>>
     \/ /\ add[a] = "idle" /\ Len(sendQueue) >= maxDatagramSendQueueLen
        /\ sent' = FALSE /\ add' = [add EXCEPT ![a] = "wait"] /\ UNCHANGED <<sendQueue, sched>>
     \/ /\ add[a] = "wait" /\ sent
        /\ sent' = FALSE /\ add' = [add EXCEPT ![a] = "idle"] /\ UNCHANGED <<sendQueue, sched>>
     \/ /\ add[a] = "wait" /\ closed
        /\ add' = [add EXCEPT ![a] = "error"] /\ UNCHANGED <<sendQueue, sent, sched>>
     \/ /\ add[a] = "added" /\ sched' = TRUE
        /\ add' = [add EXCEPT ![a] = "done"] /\ UNCHANGED <<sendQueue, sent>>
  /\ UNCHANGED <<strs, flow, framer, retx, ack, dgRecv, closed, numNonAckElicitingAcks, pk, payload,
                 inputs, discarded>>

\* datagramQueue.Receive: look, then wait for the channel, then look again.
Receive ==
  /\ \/ /\ recv = "idle" /\ rcvQueue > 0 /\ rcvQueue' = rcvQueue - 1 /\ UNCHANGED <<rcvd, recv>>
     \/ /\ recv = "idle" /\ rcvQueue = 0 /\ recv' = "wait" /\ UNCHANGED <<rcvQueue, rcvd>>
     \/ /\ recv = "wait" /\ rcvd /\ rcvd' = FALSE /\ recv' = "idle" /\ UNCHANGED rcvQueue
     \/ /\ recv = "wait" /\ closed /\ recv' = "error" /\ UNCHANGED <<rcvQueue, rcvd>>
  /\ UNCHANGED <<strs, flow, framer, retx, ack, dgSend, closed, numNonAckElicitingAcks, pk, other>>

---------------------------------------------------------------------------
(* The run loop between two packing rounds: packets and timers             *)

Spend == inputs > 0 /\ inputs' = inputs - 1

\* A packet is received.  It asks for an ACK, and brings flow control credit
\* (for a stream: the stream is registered again; for the connection: streams
\* are still registered), or a PATH_CHALLENGE, or makes a frame lost, or a
\* stream queue a control frame, or carries a datagram.
Input ==
  /\ pk.pc = "sleep" /\ Spend
  /\ ack' = IF ack = "none" THEN "pending" ELSE "queued"
  /\ sched' = TRUE
  /\ \/ /\ \E s \in Streams :
             /\ credit' = [credit EXCEPT ![s] = @ + 1]
             /\ IF data[s] > 0 THEN AddActiveStream(s) ELSE UNCHANGED <<streamQueue, activeStreams>>
        /\ UNCHANGED <<flow, streamsWithControlFrames, controlFrames, pathResponses, retx, rcvQueue, rcvd>>
     \/ /\ conn' = conn + 1 /\ reported' = FALSE
        /\ UNCHANGED <<credit, framer, retx, rcvQueue, rcvd>>
     \/ /\ pathResponses' = pathResponses + 1 /\ controlFrames' = controlFrames + 1
        /\ retx' = retx + 1
        /\ \E s \in Streams : streamsWithControlFrames' = streamsWithControlFrames \cup {s}
        /\ UNCHANGED <<credit, flow, streamQueue, activeStreams, rcvQueue, rcvd>>
     \/ /\ rcvQueue < maxDatagramRcvQueueLen
        /\ rcvQueue' = rcvQueue + 1 /\ rcvd' = TRUE
        /\ UNCHANGED <<credit, flow, framer, retx>>
  /\ UNCHANGED <<data, wr, dgSend, recv, closed, numNonAckElicitingAcks, pk, payload, discarded>>

\* The client switches to another path: the MTU estimate starts again.
SwitchPath ==
  /\ pk.pc = "sleep" /\ Spend /\ payload = MaxPayload
  /\ payload' = SmallPayload /\ sched' = TRUE
  /\ UNCHANGED <<strs, flow, framer, retx, ack, dgSend, dgRecv, closed, numNonAckElicitingAcks, pk,
                 discarded>>

\* A stream that was reset completes: its id stays in the queue.
RemoveActiveStream(s) ==
  /\ pk.pc = "sleep" /\ Spend /\ wr[s] = "done" /\ data[s] > 0
  /\ data' = [data EXCEPT ![s] = 0] /\ activeStreams' = activeStreams \ {s}
  /\ UNCHANGED <<credit, wr, flow, streamQueue, streamsWithControlFrames, controlFrames,
                 pathResponses, retx, ack, dgSend, dgRecv, closed, numNonAckElicitingAcks, pk,
                 sched, payload, discarded>>

CloseQueue ==
  /\ pk.pc = "sleep" /\ Spend /\ ~closed
  /\ closed' = TRUE
  /\ UNCHANGED <<strs, flow, framer, retx, ack, dgSend, dgRecv, numNonAckElicitingAcks, pk, sched,
                 payload, discarded>>

---------------------------------------------------------------------------
(* Packing a packet                                                        *)

HasData == streamQueue # <<>> \/ streamsWithControlFrames # {} \/ controlFrames > 0 \/ pathResponses > 0

Begin == [NoPacket EXCEPT !.pc = "compose", !.room = payload]

Wake ==
  /\ pk.pc = "sleep" /\ sched
  /\ sched' = FALSE /\ pk' = Begin /\ discarded' = FALSE
  /\ UNCHANGED <<strs, flow, framer, retx, ack, dgSend, dgRecv, closed, numNonAckElicitingAcks,
                 payload, inputs>>

\* composeNextPacket: the ACK; a datagram, which fits or does not; the
\* retransmissions; and of the framer (appendControlFrames) a PATH_RESPONSE, the
\* streams' control frames while more than maxStreamControlFrameSize is left,
\* and the other control frames.  Then Append goes through the streams.
Compose ==
  /\ pk.pc = "compose"
  /\ LET hasAck == ack = "queued" \/ (ack = "pending" /\ (HasData \/ retx > 0))
         r0 == IF hasAck THEN pk.room - 1 ELSE pk.room
         fits == sendQueue # <<>> /\ Head(sendQueue) <= r0
         pop == sendQueue # <<>> /\ (fits \/ ~hasAck)
         r1 == IF fits THEN r0 - Head(sendQueue) ELSE r0
         nr == Min({r1, retx})
         r2 == r1 - nr
         pr == Min({pathResponses, 1, r2})
         ns == Min({IF r2 - pr > 1 THEN r2 - pr - 1 ELSE 0, Cardinality(streamsWithControlFrames)})
         nc == Min({r2 - pr - ns, controlFrames})
     IN  /\ ack' = IF hasAck THEN "none" ELSE ack
         /\ sendQueue' = IF pop THEN Tail(sendQueue) ELSE sendQueue
         /\ sent' = (sent \/ pop)
         /\ discarded' = (pop /\ ~fits)
         /\ retx' = retx - nr
         /\ pathResponses' = pathResponses - pr /\ controlFrames' = controlFrames - nc
         /\ \E S \in SUBSET streamsWithControlFrames :
              Cardinality(S) = ns /\ streamsWithControlFrames' = streamsWithControlFrames \ S
         /\ pk' = [pk EXCEPT !.pc = IF HasData THEN "streams" ELSE "finish", !.ack = hasAck,
                             !.room = r2 - pr - ns - nc, !.tries = Len(streamQueue),
                             !.frames = (IF fits THEN 1 ELSE 0) + nr + pr + ns + nc]
  /\ UNCHANGED <<strs, flow, streamQueue, activeStreams, add, dgRecv, closed, numNonAckElicitingAcks,
                 sched, payload, inputs>>

\* popStreamFrame: the data that the room and the flow control windows allow.
\* A stream without window keeps its place.  A stream that has just used up its
\* own window adds STREAM_DATA_BLOCKED, here or in the next packet.
PopStreamFrame ==
  /\ pk.pc = "streams" /\ pk.tries > 0 /\ pk.room > 0
  /\ LET s == Head(streamQueue)
         n == Min({data[s], credit[s], conn, pk.room})
         blocked == n > 0 /\ n = Min({credit[s], conn}) /\ credit[s] = n
         put == blocked /\ pk.room - n >= 1
     IN  /\ streamQueue' = Tail(streamQueue)
         /\ IF s \notin activeStreams
            THEN pk' = [pk EXCEPT !.tries = @ - 1] /\ UNCHANGED <<data, credit, conn, controlFrames>>
            ELSE /\ data' = [data EXCEPT ![s] = @ - n] /\ credit' = [credit EXCEPT ![s] = @ - n]
                 /\ conn' = conn - n
                 /\ controlFrames' = IF blocked /\ ~put THEN controlFrames + 1 ELSE controlFrames
                 /\ pk' = [pk EXCEPT !.pc = "settle", !.cur = s, !.more = data[s] > n,
                                     !.room = @ - n - (IF put THEN 1 ELSE 0),
                                     !.frames = @ + (IF n > 0 THEN 1 ELSE 0) + (IF put THEN 1 ELSE 0),
                                     !.tries = IF blocked /\ ~put THEN 0 ELSE @ - 1]
  /\ UNCHANGED <<wr, reported, activeStreams, streamsWithControlFrames, pathResponses, retx, ack,
                 dgSend, dgRecv, closed, numNonAckElicitingAcks, other>>

\* MUTANT: a stream that is blocked by flow control loses its place.
Settle_bug ==
  /\ pk.pc = "settle"
  /\ IF pk.more /\ credit[pk.cur] > 0 /\ conn > 0
     THEN streamQueue' = Append(streamQueue, pk.cur) /\ UNCHANGED activeStreams
     ELSE activeStreams' = activeStreams \ {pk.cur} /\ UNCHANGED streamQueue
  /\ pk' = [pk EXCEPT !.pc = "streams"]
  /\ UNCHANGED <<strs, flow, streamsWithControlFrames, controlFrames, pathResponses, retx, ack,
                 dgSend, dgRecv, closed, numNonAckElicitingAcks, other>>

\* getNextStreamFrame after popStreamFrame has released the stream's mutex: the
\* answer may be outdated, but whoever adds data has yet to register it.
Settle ==
  /\ pk.pc = "settle"
  /\ IF pk.more
     THEN streamQueue' = Append(streamQueue, pk.cur) /\ UNCHANGED activeStreams
     ELSE activeStreams' = activeStreams \ {pk.cur} /\ UNCHANGED streamQueue
  /\ pk' = [pk EXCEPT !.pc = "streams"]
  /\ UNCHANGED <<strs, flow, streamsWithControlFrames, controlFrames, pathResponses, retx, ack,
                 dgSend, dgRecv, closed, numNonAckElicitingAcks, other>>

\* The end of Append: DATA_BLOCKED, once for every limit.
AppendDone ==
  /\ pk.pc = "streams" /\ (pk.tries = 0 \/ pk.room = 0)
  /\ LET blocked == conn = 0 /\ ~reported
         put == blocked /\ pk.room > 0
     IN  /\ reported' = (reported \/ blocked)
         /\ controlFrames' = IF blocked /\ ~put THEN controlFrames + 1 ELSE controlFrames
         /\ pk' = [pk EXCEPT !.pc = "finish", !.frames = IF put THEN @ + 1 ELSE @]
  /\ UNCHANGED <<strs, conn, streamQueue, activeStreams, streamsWithControlFrames, pathResponses,
                 retx, ack, dgSend, dgRecv, closed, numNonAckElicitingAcks, other>>

\* maybeGetAppDataPacket: nothing to pack ends the round; after enough packets
\* with only an ACK, a PING makes the peer acknowledge.
Finish ==
  /\ pk.pc = "finish"
  /\ pk' = IF pk.frames = 0 /\ ~pk.ack THEN NoPacket ELSE Begin
  /\ numNonAckElicitingAcks' =
       CASE pk.frames > 0 -> 0
         [] pk.frames = 0 /\ ~pk.ack -> numNonAckElicitingAcks
         [] OTHER -> IF numNonAckElicitingAcks >= MaxNonAckElicitingAcks THEN 0
                     ELSE numNonAckElicitingAcks + 1
  /\ UNCHANGED <<strs, flow, framer, retx, ack, dgSend, dgRecv, closed, other>>

Pack == Wake \/ Compose \/ PopStreamFrame \/ Settle \/ AppendDone
        \/ Finish

PNext ==
  \/ \E s \in Streams : Write(s) \/ RemoveActiveStream(s)
  \/ \E a \in Adders : Add(a)
  \/ Receive \/ Input \/ SwitchPath \/ CloseQueue \/ Pack

---------------------------------------------------------------------------
\* Nothing is left behind.  When the loop sleeps and sending is not scheduled:
\* every stream with data it may send has its writer still to register it or to
\* schedule sending, and one without window is registered for the day the
\* connection's window opens; no control frame, retransmission or ACK that is
\* due waits; and a datagram waits only for its adder to schedule it, or because
\* the one before it was discarded, which ends the round.
NothingStranded ==
  pk.pc = "sleep" /\ ~sched =>
    /\ \A s \in Streams :
         data[s] > 0 => \/ wr[s] \in {"set", "added"}
                        \/ s \in activeStreams /\ (credit[s] = 0 \/ conn = 0)
    /\ streamsWithControlFrames = {} /\ controlFrames = 0 /\ pathResponses = 0 /\ retx = 0
    /\ ack # "queued"
    /\ sendQueue = <<>> \/ discarded \/ \E a \in Adders : add[a] = "added"

\* A goroutine blocked in SendDatagram or ReceiveDatagram has something to wait
\* for: a datagram of the full queue that is still to be taken (or another
\* goroutine that took the token and will refill the queue), and no datagram
\* waits unseen beside a sleeping receiver.
NobodySleepsForever ==
  /\ (\E a \in Adders : add[a] = "wait") /\ ~sent /\ ~closed =>
       sendQueue # <<>> \/ \E a \in Adders : add[a] = "idle"
  /\ recv = "wait" /\ ~rcvd /\ ~closed => rcvQueue = 0
=============================================================================
