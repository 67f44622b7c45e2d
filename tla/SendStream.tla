----------------------------- MODULE SendStream -----------------------------
(***************************************************************************)
(* The sending side of a stream (quic-go-bbr/send_stream.go): a goroutine     *)
(* that writes and closes, another one that calls CancelWrite,               *)
(* SetReliableBoundary and SetWriteDeadline, the run loop that handles         *)
(* STOP_SENDING, MAX_STREAM_DATA and the transport parameters, packs STREAM    *)
(* and RESET_STREAM frames, and hears of their acknowledgement or loss.       *)
(*                                                                         *)
(* A byte is its offset and a STREAM frame an interval [lo, hi) with a FIN.   *)
(* The bytes of nextFrame start at writeOffset and those of dataForWriting   *)
(* after them, so that their numbers are enough.  "active" says that the      *)
(* framer has the stream in its queue of streams with data.                  *)
(***************************************************************************)
EXTENDS Integers, Sequences, FiniteSets, SequencesExt

CONSTANTS
    MaxData,        \* bound on the bytes written
    BufferSize,     \* MaxPacketBufferSize
    Extension,      \* the values supportsResetStreamAt may have at first
    ZeroRTT,        \* the transport parameters arrive before (FALSE) or after (TRUE) a reset
    Boundaries,     \* SetReliableBoundary is called before (FALSE) or after (TRUE) a reset
    MaxLosses,      \* bound on lost frames
    MaxDeadlines    \* bound on calls of SetWriteDeadline

VARIABLES
    writeOffset, next, data,        \* sent, in nextFrame, in dataForWriting
    retransmissionQueue, outstanding,
    reliableSize, supports,
    reset, shutdown, flagged, finished, finSent, completed,
    queuedReset,                    \* a reset frame, or None
    signal, active,
    pc, len, copied, notifiedSender,      \* the writer, in Write or Close
    accepted,                       \* bytes that Write reported as written
    window,                         \* the peer's limit on the stream
    inFlight, resetsInFlight, losses,
    acked,                          \* bytes the peer acknowledged
    announced,                      \* final sizes sent to the peer
    deadline, deadlines

buffers == <<writeOffset, next, data, retransmissionQueue>>
flags == <<reset, shutdown, flagged, finished, finSent>>
reliable == <<reliableSize, supports>>
writer == <<pc, len, copied, notifiedSender, accepted>>
network == <<inFlight, resetsInFlight, losses, acked, announced>>
timing == <<deadline, deadlines>>
vars == <<buffers, outstanding, reliable, flags, completed, queuedReset, signal, active, writer,
          window, network, timing>>

None == [final |-> -1, size |-> 0]

Init ==
    /\ writeOffset = 0 /\ next = 0 /\ data = 0 /\ retransmissionQueue = <<>> /\ outstanding = 0
    /\ reliableSize = 0 /\ supports \in Extension
    /\ reset = FALSE /\ shutdown = FALSE /\ flagged = FALSE /\ finished = FALSE
    /\ finSent = FALSE /\ completed = FALSE
    /\ queuedReset = None /\ signal = FALSE /\ active = FALSE
    /\ pc = "idle" /\ len = 0 /\ copied = FALSE /\ notifiedSender = FALSE /\ accepted = 0
    /\ window \in 0 .. MaxData
    /\ inFlight = {} /\ resetsInFlight = <<>> /\ losses = 0 /\ acked = {} /\ announced = {}
    /\ deadline = "none" /\ deadlines = 0

Free == pc # "write"    \* nobody holds the mutex

ReliableOffset == IF supports THEN reliableSize ELSE 0

\* Mutant: frames that wait for retransmission do not keep the stream.
CompleteEarly ==
    completed' = (completed \/ /\ next' = 0 /\ outstanding' <= 0 /\ queuedReset' = None
                               /\ finSent' \/ (reset' /\ (flagged' \/ finished')))

\* isNewlyCompleted.
Complete ==
    completed' = (completed \/ /\ next' = 0
                               /\ outstanding' <= 0 /\ retransmissionQueue' = <<>> /\ queuedReset' = None
                               /\ finSent' \/ (reset' /\ (flagged' \/ finished')))

CanBuffer(l, d) == l + d <= BufferSize

Passed == deadline = "passed"

-----------------------------------------------------------------------------
(* Write and Close.                                                        *)

\* Return from Write after n bytes in all.
Return(n, error) ==
    /\ pc' = "idle" /\ len' = 0 /\ copied' = FALSE /\ notifiedSender' = FALSE
    /\ accepted' = accepted + n
    /\ flagged' = (flagged \/ error)
    /\ UNCHANGED <<reset, shutdown, finished, finSent>>

\* The checks at the head of write.
Write(n) ==
    /\ pc = "idle" /\ accepted + n <= MaxData
    /\ IF reset
       THEN Return(0, TRUE) /\ UNCHANGED <<buffers, outstanding, queuedReset>> /\ Complete
       ELSE IF shutdown \/ finished \/ Passed
       THEN Return(0, FALSE) /\ UNCHANGED <<buffers, outstanding, queuedReset, completed>>
       ELSE /\ data' = n /\ len' = n /\ pc' = "write"
            /\ UNCHANGED <<writeOffset, next, retransmissionQueue, outstanding, queuedReset, flags,
                           completed, copied, notifiedSender, accepted>>
    /\ UNCHANGED <<reliable, signal, active, window, network, timing>>

\* Mutant: a Write that timed out leaves its data behind.
WriteLoopLate ==
    /\ pc = "write"
    /\ UNCHANGED <<writeOffset, retransmissionQueue, outstanding, queuedReset>>
    /\ IF CanBuffer(next, data) /\ data > 0
       THEN /\ next' = next + data /\ data' = 0 /\ copied' = TRUE
            /\ pc' = "notify"
            /\ UNCHANGED <<flags, completed, len, notifiedSender, accepted>>
       ELSE IF Passed
       THEN next' = next /\ data' = data /\ Return(len - data, FALSE) /\ UNCHANGED completed
       ELSE IF data = 0 \/ shutdown \/ reset
       THEN /\ UNCHANGED <<next, data>>
            /\ LET error == data > 0 /\ ~shutdown /\ reset IN
               Return(len - data, error) /\ (IF error THEN Complete ELSE UNCHANGED completed)
       ELSE /\ pc' = "notify"
            /\ UNCHANGED <<next, data, flags, completed, len, copied, notifiedSender, accepted>>
    /\ UNCHANGED <<reliable, signal, active, window, network, timing>>

\* One round of the loop: copy the rest to nextFrame, give up, or wait for it to be sent.
WriteLoop ==
    /\ pc = "write"
    /\ UNCHANGED <<writeOffset, retransmissionQueue, outstanding, queuedReset>>
    /\ IF CanBuffer(next, data) /\ data > 0
       THEN /\ next' = next + data /\ data' = 0 /\ copied' = TRUE
            /\ pc' = "notify"
            /\ UNCHANGED <<flags, completed, len, notifiedSender, accepted>>
       ELSE IF Passed
       THEN next' = next /\ data' = 0 /\ Return(len - data, FALSE) /\ UNCHANGED completed
       ELSE IF data = 0 \/ shutdown \/ reset
       THEN /\ UNCHANGED <<next, data>>
            /\ LET error == data > 0 /\ ~shutdown /\ reset IN
               Return(len - data, error) /\ (IF error THEN Complete ELSE UNCHANGED completed)
       ELSE /\ pc' = "notify"
            /\ UNCHANGED <<next, data, flags, completed, len, copied, notifiedSender, accepted>>
    /\ UNCHANGED <<reliable, signal, active, window, network, timing>>

\* onHasStreamData without the mutex, and then back to the caller or to waiting.
WriteNotify ==
    /\ pc = "notify"
    /\ active' = (active \/ ~notifiedSender)
    /\ IF copied
       THEN Return(len, FALSE)
       ELSE pc' = "wait" /\ notifiedSender' = TRUE /\ UNCHANGED <<len, copied, accepted, flags>>
    /\ UNCHANGED <<buffers, outstanding, reliable, completed, queuedReset, signal, window, network,
                   timing>>

WriteWake ==
    /\ pc = "wait" /\ (signal \/ Passed)
    /\ signal' \in IF Passed THEN {signal, FALSE} ELSE {FALSE}
    /\ pc' = "write"
    /\ UNCHANGED <<buffers, outstanding, reliable, flags, completed, queuedReset, active, len, copied,
                   notifiedSender, accepted, window, network, timing>>

Close ==
    /\ pc = "idle" /\ ~shutdown /\ ~finished
    /\ finished' = TRUE /\ flagged' = (flagged \/ reset)
    /\ UNCHANGED <<buffers, outstanding, queuedReset, reset, shutdown, finSent>>
    /\ Complete
    /\ pc' = IF reset THEN "idle" ELSE "closing"
    /\ UNCHANGED <<reliable, signal, active, len, copied, notifiedSender, accepted, window, network, timing>>

\* Mutant: the framer does not hear of the FIN.
CloseNotifyNone ==
    /\ pc = "closing" /\ pc' = "idle"
    /\ active' = active
    /\ UNCHANGED <<buffers, outstanding, reliable, flags, completed, queuedReset, signal, len, copied,
                   notifiedSender, accepted, window, network, timing>>

\* The FIN has to be sent: onHasStreamData without the mutex.
CloseNotify ==
    /\ pc = "closing" /\ pc' = "idle"
    /\ active' = TRUE
    /\ UNCHANGED <<buffers, outstanding, reliable, flags, completed, queuedReset, signal, len, copied,
                   notifiedSender, accepted, window, network, timing>>

-----------------------------------------------------------------------------
(* The other goroutine.                                                    *)

SetReliableBoundary ==
    /\ Free /\ reset \in Boundaries
    /\ reliableSize' = writeOffset + next
    /\ UNCHANGED <<buffers, outstanding, supports, flags, completed, queuedReset, signal, active,
                   writer, window, network, timing>>

\* The part of a frame below the reliable size.
Cut(f, size) == IF f.hi > size THEN [f EXCEPT !.hi = size] ELSE f

CancelWrite ==
    /\ Free /\ ~shutdown
    /\ flagged' = TRUE /\ reset' = TRUE
    /\ UNCHANGED <<shutdown, finished, finSent, writeOffset, data>>
    /\ IF reset
       THEN UNCHANGED <<next, retransmissionQueue, outstanding, queuedReset, signal>> /\ Complete
       ELSE LET rel == ReliableOffset
                below(f) == f.lo < rel
            IN /\ outstanding' = IF rel = 0 THEN 0 ELSE outstanding
               /\ next' = IF rel <= writeOffset THEN 0
                          ELSE IF writeOffset + next > rel THEN rel - writeOffset ELSE next
               /\ retransmissionQueue' =
                     LET kept == SelectSeq(retransmissionQueue, below)
                     IN [i \in DOMAIN kept |-> Cut(kept[i], rel)]
               /\ queuedReset' = [final |-> IF writeOffset >= rel THEN writeOffset ELSE rel, size |-> rel]
               /\ signal' = TRUE
               /\ UNCHANGED completed
    /\ UNCHANGED <<reliable, active, writer, window, network, timing>>

SetWriteDeadline(d) ==
    /\ Free /\ deadlines < MaxDeadlines
    /\ deadline' = d /\ deadlines' = deadlines + 1 /\ signal' = TRUE
    /\ UNCHANGED <<buffers, outstanding, reliable, flags, completed, queuedReset, active, writer,
                   window, network>>

DeadlinePasses ==
    /\ deadline = "future" /\ deadline' = "passed"
    /\ UNCHANGED <<buffers, outstanding, reliable, flags, completed, queuedReset, signal, active,
                   writer, window, network, deadlines>>

-----------------------------------------------------------------------------
(* The run loop.                                                           *)

\* popStreamFrame hands out the frame f and says whether the stream stays in the framer's queue.
Send(f, hasMore) ==
    /\ inFlight' = inFlight \cup {f} /\ outstanding' = outstanding + 1
    /\ announced' = IF f.fin THEN announced \cup {f.hi} ELSE announced
    /\ active' = hasMore

SendNothing(hasMore) ==
    /\ active' = hasMore
    /\ UNCHANGED <<inFlight, outstanding, announced>>

\* A retransmission, cut if only k bytes fit.
PopRetransmission(k) ==
    LET f == Head(retransmissionQueue) IN
    /\ IF f.hi - f.lo <= k
       THEN Send(f, TRUE) /\ retransmissionQueue' = Tail(retransmissionQueue)
       ELSE IF k = 0 THEN SendNothing(TRUE) /\ UNCHANGED retransmissionQueue
       ELSE /\ Send([f EXCEPT !.hi = f.lo + k, !.fin = FALSE], TRUE)
            /\ retransmissionQueue' = <<[f EXCEPT !.lo = f.lo + k]>> \o Tail(retransmissionQueue)
    /\ UNCHANGED <<writeOffset, next, data, finSent, signal>>

\* The FIN alone, if it is due.
PopFin ==
    /\ IF finished /\ ~finSent
       THEN finSent' = TRUE /\ Send([lo |-> writeOffset, hi |-> writeOffset, fin |-> TRUE], FALSE)
       ELSE UNCHANGED finSent /\ SendNothing(FALSE)
    /\ UNCHANGED <<buffers, signal>>

Least(a, b) == IF a <= b THEN a ELSE b

\* New data, first of nextFrame, then of dataForWriting.
PopNew(k) ==
    LET rel == ReliableOffset
        limit == IF reset /\ rel > 0 THEN Least(window - writeOffset, rel - writeOffset)
                 ELSE window - writeOffset
        n == Least(IF next > 0 THEN next ELSE data, Least(limit, k))
        fin == finished /\ data' = 0 /\ next' = 0 /\ ~finSent
        more == (next' > 0 \/ data' > 0 \/ (next = 0 /\ finished)) /\ ~(reset /\ writeOffset' >= rel)
    IN /\ IF window = writeOffset \/ k = 0
          THEN SendNothing(TRUE) /\ UNCHANGED <<writeOffset, next, data, finSent, signal>>
          ELSE /\ writeOffset' = writeOffset + n
               /\ next' = IF next > 0 THEN next - n ELSE 0
               /\ data' = IF next > 0 THEN data ELSE data - n
               /\ signal' = (signal \/ IF next > 0 THEN next' = 0
                                       ELSE data' = 0 \/ CanBuffer(next, data'))
               /\ finSent' = (finSent \/ fin)
               /\ Send([lo |-> writeOffset, hi |-> writeOffset + n, fin |-> fin], more)
       /\ UNCHANGED retransmissionQueue

PopStreamFrame(k) ==
    /\ Free /\ active
    /\ IF shutdown \/ (reset /\ (\/ ReliableOffset = 0
                                 \/ writeOffset >= ReliableOffset /\ retransmissionQueue = <<>>))
       THEN SendNothing(FALSE) /\ UNCHANGED <<buffers, finSent, signal>>
       ELSE IF retransmissionQueue # <<>> THEN PopRetransmission(k)
       ELSE IF data = 0 /\ next = 0 THEN PopFin
       ELSE PopNew(k)
    /\ UNCHANGED <<reliable, reset, shutdown, flagged, finished, completed, queuedReset, writer,
                   window, resetsInFlight, losses, acked, timing>>

GetControlFrame ==
    /\ Free /\ queuedReset # None
    /\ outstanding' = outstanding + 1
    /\ resetsInFlight' = Append(resetsInFlight, queuedReset)
    /\ announced' = announced \cup {queuedReset.final}
    /\ queuedReset' = None
    /\ UNCHANGED <<buffers, reliable, flags, completed, signal, active, writer, window, inFlight,
                   losses, acked, timing>>

\* The transport parameters of the peer.
EnableResetStreamAt ==
    /\ Free /\ reset \in ZeroRTT /\ ~completed /\ ~supports /\ supports' = TRUE
    /\ UNCHANGED <<buffers, outstanding, reliableSize, flags, completed, queuedReset, signal, active,
                   writer, window, network, timing>>

\* MAX_STREAM_DATA, or the window of the transport parameters.
UpdateSendWindow(limit) ==
    /\ Free /\ limit > window /\ window' = limit
    /\ active' = (active \/ data > 0 \/ next > 0)
    /\ UNCHANGED <<buffers, outstanding, reliable, flags, completed, queuedReset, signal, writer,
                   network, timing>>

\* STOP_SENDING, until the stream has left the streams map.
HandleStopSendingFrame ==
    /\ Free /\ ~completed /\ ~shutdown
    /\ ~(reset /\ ReliableOffset = 0)
    /\ reliableSize' = 0 /\ outstanding' = 0
    /\ retransmissionQueue' = <<>> /\ next' = 0
    /\ reset' = TRUE
    /\ queuedReset' = [final |-> writeOffset, size |-> 0]
    /\ signal' = TRUE
    /\ UNCHANGED <<writeOffset, data, supports, shutdown, flagged, finished, finSent, completed,
                   active, writer, window, network, timing>>

CloseForShutdown ==
    /\ Free /\ ~completed
    /\ IF ~shutdown /\ ~finished
       THEN shutdown' = TRUE /\ retransmissionQueue' = <<>> /\ next' = 0
       ELSE UNCHANGED <<shutdown, retransmissionQueue, next>>
    /\ signal' = TRUE
    /\ UNCHANGED <<writeOffset, data, outstanding, reliable, reset, flagged, finished, finSent,
                   completed, queuedReset, active, writer, window, network, timing>>

-----------------------------------------------------------------------------
(* Acknowledged and lost frames.                                           *)

\* Mutant: frames sent before a reset are counted.
IgnoredNever == FALSE

Ignored == reset /\ ReliableOffset = 0

FrameAcked(f) ==
    /\ Free
    /\ inFlight' = inFlight \ {f} /\ acked' = acked \cup f.lo .. f.hi - 1
    /\ UNCHANGED <<buffers, flags, queuedReset>>
    /\ IF Ignored THEN UNCHANGED <<outstanding, completed>>
       ELSE outstanding' = outstanding - 1 /\ Complete
    /\ UNCHANGED <<reliable, signal, active, writer, window, resetsInFlight, losses, announced, timing>>

FrameLost(f) ==
    /\ Free /\ losses < MaxLosses /\ losses' = losses + 1
    /\ inFlight' = inFlight \ {f}
    /\ UNCHANGED <<writeOffset, next, data, flags, queuedReset>>
    /\ IF Ignored THEN UNCHANGED <<outstanding, retransmissionQueue, completed, active>>
       ELSE /\ outstanding' = outstanding - 1
            /\ IF reset /\ f.lo >= ReliableOffset
               THEN UNCHANGED <<retransmissionQueue, active>> /\ Complete
               ELSE /\ retransmissionQueue' =
                          Append(retransmissionQueue, IF reset THEN Cut(f, ReliableOffset) ELSE f)
                    /\ active' = TRUE
                    /\ UNCHANGED completed
    /\ UNCHANGED <<reliable, signal, writer, window, resetsInFlight, acked, announced, timing>>

ResetAcked(i) ==
    /\ Free
    /\ resetsInFlight' = RemoveAt(resetsInFlight, i)
    /\ UNCHANGED <<buffers, flags, queuedReset>>
    /\ IF resetsInFlight[i].size # ReliableOffset THEN UNCHANGED <<outstanding, completed>>
       ELSE outstanding' = outstanding - 1 /\ Complete
    /\ UNCHANGED <<reliable, signal, active, writer, window, inFlight, losses, acked, announced, timing>>

ResetLost(i) ==
    /\ Free /\ losses < MaxLosses /\ losses' = losses + 1
    /\ resetsInFlight' = RemoveAt(resetsInFlight, i)
    /\ IF resetsInFlight[i].size # ReliableOffset THEN UNCHANGED <<outstanding, queuedReset>>
       ELSE queuedReset' = resetsInFlight[i] /\ outstanding' = outstanding - 1
    /\ UNCHANGED <<buffers, reliable, flags, completed, signal, active, writer, window, inFlight, acked,
                   announced, timing>>

Writer == WriteLoop \/ WriteNotify \/ WriteWake \/ CloseNotify

Acked == \/ \E f \in inFlight : FrameAcked(f)
         \/ \E i \in DOMAIN resetsInFlight : ResetAcked(i)

Next ==
    \/ Writer \/ Acked \/ Close \/ CancelWrite \/ SetReliableBoundary \/ EnableResetStreamAt
    \/ \E n \in 1 .. MaxData : Write(n) \/ UpdateSendWindow(n)
    \/ \E k \in 0 .. MaxData : PopStreamFrame(k)
    \/ \E d \in {"none", "future"} : SetWriteDeadline(d)
    \/ DeadlinePasses \/ GetControlFrame \/ HandleStopSendingFrame \/ CloseForShutdown
    \/ \E f \in inFlight : FrameLost(f)
    \/ \E i \in DOMAIN resetsInFlight : ResetLost(i)

Spec == Init /\ [][Next]_vars

\* Goroutines go on, packets are packed, the peer's window opens, and frames are acknowledged unless
\* they are among the MaxLosses lost ones.  Each of these steps uses up bytes, frames or a wake-up.
Moving ==
    \/ Writer \/ GetControlFrame \/ UpdateSendWindow(MaxData) \/ Acked
    \/ \E k \in 1 .. MaxData : PopStreamFrame(k)

-----------------------------------------------------------------------------
(* Properties.                                                             *)

TypeOK ==
    /\ writeOffset \in 0 .. MaxData /\ next \in 0 .. BufferSize /\ data \in 0 .. MaxData
    /\ writeOffset <= window /\ accepted \in 0 .. MaxData
    /\ outstanding \in Int
    /\ \A f \in inFlight \cup ToSet(retransmissionQueue) : 0 <= f.lo /\ f.lo <= f.hi /\ f.hi <= writeOffset
    /\ pc \in {"idle", "write", "notify", "wait", "closing"}
    /\ completed \in BOOLEAN /\ deadline \in {"none", "future", "passed"}

\* "numOutStandingFrames negative" is never reached: each acknowledged or lost frame was counted
\* when it was sent, although a reset forgets the count while frames are in flight.
NoPanic == outstanding >= 0

\* Write returns the number of bytes that will be sent: no byte is lost or sent twice between Write,
\* nextFrame and the frames sent, however the packing interleaves with the writer and its deadline.
WriteCounts ==
    pc \in {"idle", "closing"} /\ ~reset /\ ~shutdown => accepted = writeOffset + next /\ data = 0

\* A stream is given up only when the peer has all bytes it was promised: all bytes written, or those
\* below the reliable size of a stream that was reset.
Delivered == completed /\ ~shutdown => 0 .. (IF reset THEN ReliableOffset ELSE accepted) - 1 \subseteq acked

\* All FINs and resets of a stream carry the same final size, and no byte is sent beyond it, as long
\* as there is no reliable reset (which is sent before the data up to its boundary is).
SameFinalSize ==
    ~supports => Cardinality(announced) <= 1 /\ \A size \in announced : writeOffset <= size

\* A waiting Write returns once its data is sent or the stream is reset, closed or timed out.
WriterReturns == pc = "wait" => ENABLED <<Moving>>_vars

\* A closed stream completes: its data and its FIN are sent and acknowledged, whatever is lost.
ClosedCompletes == finished /\ ~reset => completed \/ ENABLED <<Moving>>_vars

\* "The stream is also completed if: 1. the application called CancelWrite".
ResetCompletes ==
    reset /\ (flagged \/ finished) => completed \/ shutdown \/ ENABLED <<Moving>>_vars
=============================================================================
