----------------------------- MODULE MCStreams -----------------------------
(***************************************************************************)
(* The two halves of a QUIC stream, the frame sorter below the receiving   *)
(* half, the frames that carry the data of streams (Wire) and the stream   *)
(* of the ClientHello (CryptoStreams).  They meet only through frames,     *)
(* which each of them takes in any order the network can give, so that a   *)
(* behaviour is one of a single part.  The variables of a part that does   *)
(* not run are 0.                                                          *)
(***************************************************************************)
EXTENDS Integers

CONSTANTS
    Parts,                                        \* the parts to run
    MaxOffset, MaxFrame, Inf, MinBuffer, MaxGaps, \* FrameSorter
    ReliableSizes,                                \* ReceiveStream
    BufferSize, Extension, ZeroRTT, Boundaries, MaxLosses, \* SendStream
    MaxData, MaxDeadlines,
    PacketSizes, MinStreamFrameSize, Gaps, RangeLens, MaxRanges, AckSizes, MaxNumAckRanges, \* Wire
    HelloParts, EchCutLen, MaxCryptoLosses        \* CryptoStreams

VARIABLES
    part,
    queue, gaps, callbacks, failed,
    readPos, reliableSize, completed, signal, deadline, deadlines, pc,
    finalSize, arrived, popped, hasFrame, isLast, finalOffset, highest, credited,
    cancelledRemotely, cancelledLocally, errorRead, closed, queuedStopSending,
    queuedMaxStreamData, want, got, result, finishing, notified,
    writeOffset, next, data, retransmissionQueue, outstanding, supports, reset, shutdown, flagged,
    finished, finSent, queuedReset, active, len, copied, notifiedSender, accepted, window, inFlight,
    resetsInFlight, losses, acked, announced,
    lost, frames, original, parsed, room, ack, report,
    hello, second, str, net, again, rcv, cryptoLosses

Frame(id, offset, n, fin) ==
  [StreamID |-> id, Offset |-> offset, Data |-> [from |-> offset, len |-> n], Fin |-> fin,
   DataLenPresent |-> TRUE]

\* Offsets and lengths on both sides of where their encoding gets longer.
LostFrames ==
  {[id \in {0, 100} |-> IF id = 0 THEN Frame(0, o, n, TRUE) ELSE Frame(100, 70, k, fin)] :
     o \in {0, 16340}, n \in {0, 190, 340},
     k \in {1, 58, 63, 64, 122, 123, 124, 125, 126, 127, 128}, fin \in BOOLEAN}

Hello(n, sniPos, sniLen, echPos, rooms) ==
  [len |-> n, sniPos |-> sniPos, sniLen |-> sniLen, echPos |-> echPos, rooms |-> rooms]

\* With and without a server name and ECH, in either order.
ClientHellos ==
  {Hello(8, 3, 4, -1, {6, 8}), Hello(9, -1, 0, 4, {6, 8}), Hello(8, -1, 0, -1, {6, 8}),
   Hello(9, 6, 3, 3, {6, 8}), Hello(10, 2, 4, 6, {7, 9}), Hello(70, 30, 6, 58, {35, 67, 68})}

Sorter == INSTANCE FrameSorter
Receive == INSTANCE ReceiveStream
Send == INSTANCE SendStream
Frames == INSTANCE Wire WITH queue <- frames, sent <- original, got <- parsed, Lost <- LostFrames
Crypto == INSTANCE CryptoStreams WITH retx <- again, losses <- cryptoLosses,
            Hellos <- ClientHellos, Parts <- HelloParts, MaxLosses <- MaxCryptoLosses

\* What only one part uses, and what both halves of a stream use.
sorterOnly == <<queue, gaps, callbacks, failed>>
shared == <<reliableSize, completed, signal, deadline, deadlines, pc>>
receiveOnly == <<finalSize, arrived, popped, hasFrame, isLast, finalOffset, highest, credited,
                 cancelledRemotely, cancelledLocally, errorRead, closed, queuedStopSending,
                 queuedMaxStreamData, want, got, result, finishing,
                 notified>>
sendOnly == <<writeOffset, next, data, retransmissionQueue, outstanding, supports, reset, shutdown,
              flagged, finished, finSent, queuedReset, active, len, copied, notifiedSender, accepted,
              window, inFlight, resetsInFlight, losses, acked, announced>>
wireVars == <<lost, frames, original, parsed, room, ack, report>>
helloVars == <<hello, second, str, net, again, rcv, cryptoLosses>>
vars == <<part, readPos, sorterOnly, shared, receiveOnly, sendOnly, wireVars, helloVars>>

sorterOff ==
    queue = 0 /\ gaps = 0 /\ callbacks = 0 /\ failed = 0
sharedOff ==
    reliableSize = 0 /\ completed = 0 /\ signal = 0 /\ deadline = 0 /\ deadlines = 0 /\ pc = 0
receiveOff ==
    finalSize = 0 /\ arrived = 0 /\ popped = 0 /\ hasFrame = 0 /\ isLast = 0 /\ finalOffset = 0 /\
    highest = 0 /\ credited = 0 /\ cancelledRemotely = 0 /\ cancelledLocally = 0 /\ errorRead = 0 /\
    closed = 0 /\ queuedStopSending = 0 /\ queuedMaxStreamData = 0 /\ want = 0 /\ got = 0 /\ result
    = 0 /\ finishing = 0 /\ notified = 0
sendOff ==
    writeOffset = 0 /\ next = 0 /\ data = 0 /\ retransmissionQueue = 0 /\ outstanding = 0 /\ reset =
    0 /\ shutdown = 0 /\ flagged = 0 /\ finished = 0 /\ finSent = 0 /\ queuedReset = 0 /\ active = 0
    /\ len = 0 /\ copied = 0 /\ notifiedSender = 0 /\ accepted = 0 /\ window = 0 /\ inFlight = 0 /\
    resetsInFlight = 0 /\ losses = 0 /\ acked = 0 /\ announced = 0
wireOff ==
    lost = 0 /\ frames = 0 /\ original = 0 /\ parsed = 0 /\ room = 0 /\ ack = 0 /\ report = 0
helloOff ==
    hello = 0 /\ second = 0 /\ str = 0 /\ net = 0 /\ again = 0 /\ rcv = 0 /\ cryptoLosses = 0

\* supports says whether the two ends use RESET_STREAM_AT: without it the sender has no reliable
\* resets and the receiver gets none.
Init ==
    /\ part \in Parts
    /\ supports \in IF part \in {"receive", "send"} THEN Extension ELSE {FALSE}
    /\ IF part = "wire" THEN Frames!WInit ELSE wireOff
    /\ IF part = "hello" THEN Crypto!SCInit ELSE helloOff
    /\ CASE part = "sorter" -> Sorter!Init /\ sharedOff /\ receiveOff /\ sendOff
         [] part = "receive" -> Receive!Init /\ sorterOff /\ sendOff
         [] part = "send" -> Send!Init /\ readPos = 0 /\ sorterOff /\ receiveOff
         [] OTHER -> readPos = 0 /\ sorterOff /\ sharedOff /\ receiveOff /\ sendOff

Next ==
    /\ UNCHANGED part
    /\ \/ part = "sorter" /\ Sorter!Next
          /\ UNCHANGED <<shared, receiveOnly, sendOnly, wireVars, helloVars>>
       \/ part = "receive" /\ Receive!Next /\ (supports \/ reliableSize' = 0)
          /\ UNCHANGED <<sorterOnly, sendOnly, wireVars, helloVars>>
       \/ part = "send" /\ Send!Next
          /\ UNCHANGED <<readPos, sorterOnly, receiveOnly, wireVars, helloVars>>
       \/ part = "wire" /\ Frames!WNext
          /\ UNCHANGED <<readPos, sorterOnly, shared, receiveOnly, sendOnly, helloVars>>
       \/ part = "hello" /\ Crypto!SCNext
          /\ UNCHANGED <<readPos, sorterOnly, shared, receiveOnly, sendOnly, wireVars>>

Spec == Init /\ [][Next]_vars

-----------------------------------------------------------------------------
(* The frame sorter.                                                       *)

Abstract == INSTANCE SortedBytes
    WITH Bytes <- Sorter!Bytes,
         received <- IF part = "sorter" THEN Sorter!Arrived ELSE {},
         position <- IF part = "sorter" THEN readPos ELSE 0

\* The sorter implements the abstract one: bytes leave once each, in order, and only after they
\* arrived.
RefinesSortedBytes == Abstract!Spec

-----------------------------------------------------------------------------
(* The two halves of a stream.                                             *)

\* No byte is lost or kept twice in the frame sorter, however frames overlap: it has been read, or it
\* is in exactly one frame of the queue, at the place where the frame has it, or in exactly one gap.
\* Gaps are in order and do not touch, and Peek sees all that follows a frame.  A frame's buffer is
\* given back once, and not while a frame in the queue uses it.
\* The receiving half: Read reports the end of the stream only after all its bytes, and a reset only
\* after all bytes that the reset promised to deliver, in whatever order the FIN, resets with smaller
\* sizes and the bytes arrive.  "We need to know the final offset (either via FIN or RESET_STREAM)
\* for flow control accounting": once the stream is gone, all that the peer sent on it has been
\* credited to the connection, unless the application cancelled a stream that was reset with a
\* reliable size.
BytesReceived ==
    /\ part = "sorter" => /\ Sorter!TypeOK /\ Sorter!Partition /\ Sorter!InPlace
                          /\ Sorter!PeekExact /\ Sorter!BuffersOnce
    /\ part = "receive" =>
        Receive!TypeOK /\ Receive!EofComplete /\ Receive!ReliableDelivered /\ Receive!CreditReturned

\* The sending half: Write returns the number of bytes that will be sent, no byte is lost or sent
\* twice between Write, nextFrame and the frames sent, however the packing interleaves with the writer
\* and its deadline.  All FINs and resets carry the same final size, and no byte is sent beyond it, as
\* long as there is no reliable reset.  A stream is given up only when the peer has all bytes it was
\* promised.  The panic "numOutStandingFrames negative" is not reached, although a reset forgets the
\* count while frames are in flight, provided that neither SetReliableBoundary is called nor the
\* transport parameters arrive after the reset (Boundaries = ZeroRTT = {FALSE}): with either, it is.
BytesSent ==
    part = "send" =>
        Send!TypeOK /\ Send!NoPanic /\ Send!WriteCounts /\ Send!SameFinalSize /\ Send!Delivered

\* Waiting calls return, and streams end: when the goroutines and the network have nothing left to
\* do, no call waits.  A reader has been woken by whatever ends its wait: data, the end of the stream,
\* a reset, CancelRead or the shutdown of the connection (without reliable resets, which do not wake
\* it when they reduce the reliable size).  A Write has returned once its data was sent or the stream
\* was reset, closed or timed out.  The streams map hears of every stream that is over, so that
\* another one may be opened: a receiving half when the application is done with it, a sending half
\* that was closed when its data and its FIN are acknowledged, whatever is lost.
CallsReturn ==
    /\ part = "receive" => Receive!Completes /\ (supports \/ Receive!ReaderReturns)
    /\ part = "send" => Send!WriterReturns /\ Send!ClosedCompletes

\* "Read will unblock immediately" (receive_stream.go): a reader does not go on waiting after
\* CancelRead.
CancelUnblocks == part = "receive" => Receive!CancelUnblocks

\* "The stream is also completed if: 1. the application called CancelWrite" (send_stream.go).
ResetCompletes == part = "send" => Send!ResetCompletes

-----------------------------------------------------------------------------
(* Frames.                                                                 *)

\* What goes into a packet fits, and comes out as it was: STREAM frames split to the room there is
\* (StreamFramesFit), ACK frames cut to the ranges that fit (AckFaithful), and a ClientHello that is
\* sent out of order (HelloArrives).
FramesFit ==
    /\ part = "wire" => Frames!StreamFramesFit /\ Frames!AckFaithful
    /\ part = "hello" => Crypto!HelloArrives
=============================================================================
