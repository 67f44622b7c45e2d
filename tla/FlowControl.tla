---------------------------- MODULE FlowControl ----------------------------
(***************************************************************************)
(* Flow control of one direction of a QUIC connection                        *)
(* (quic-go-bbr/internal/flowcontrol): the stream and connection flow         *)
(* controllers of a sender and of a receiver, the MAX_STREAM_DATA and         *)
(* MAX_DATA frames between them, and 0-RTT.                                  *)
(*                                                                         *)
(* A STREAM frame is its end offset; it may be lost, retransmitted and       *)
(* reordered, so any offset up to what was sent can arrive at any time.  The *)
(* same holds for window updates.  On the receiver the run loop (frames,     *)
(* window updates) and the applications' readers interleave: crediting a     *)
(* stream and crediting the connection are two critical sections, of which   *)
(* only Abandon's, after CancelRead, leave the stream's own mutex free       *)
(* between them.  The clock of the auto-tuning is a choice.                  *)
(***************************************************************************)
EXTENDS Integers, FiniteSets, Functions

CONSTANTS
    Streams,           \* the streams of the direction
    RememberedStream,  \* stream window remembered for 0-RTT
    RememberedConn,    \* connection window remembered for 0-RTT
    InitStream,        \* InitialStreamReceiveWindow
    MaxStream,         \* MaxStreamReceiveWindow
    InitConn,          \* InitialConnectionReceiveWindow
    MaxConn,           \* MaxConnectionReceiveWindow
    MaxSent            \* bound on the bytes of a stream

ASSUME FlowControlAssumption ==
    /\ RememberedStream \in Nat /\ InitStream \in Nat /\ MaxStream \in Nat
    /\ RememberedConn \in Nat /\ InitConn \in Nat /\ MaxConn \in Nat /\ MaxSent \in Nat
    /\ RememberedStream <= InitStream /\ InitStream <= MaxStream
    /\ RememberedConn <= InitConn /\ InitConn <= MaxConn

VARIABLES
    phase,          \* the client sends 0-RTT data, which the server accepts ("early") or
                    \* does not ("refused"), then the connection is "open"
    sent,           \* bytesSent of the sender's streams
    finished,       \* has the FIN (or a reset) been sent, at offset sent
    sendWindow, lastBlockedAt,
    connSent, connSendWindow, connLastBlockedAt,
    highest,        \* highestReceived of the receiver's streams
    read,           \* bytesRead
    window,         \* receiveWindow
    size,           \* receiveWindowSize
    epoch,          \* epochStartOffset
    final,          \* receivedFinalOffset
    queued,         \* queuedMaxStreamData of the receive stream
    reading,        \* bytes a reader has credited to the stream, not yet to the connection
    abandoned,      \* the same for Abandon
    connHighest, connRead, connWindow, connSize, connEpoch,
    maxStreamData,  \* MAX_STREAM_DATA frames sent
    maxData,        \* MAX_DATA frames sent
    error           \* the error that closed the connection

sender == <<sent, finished, sendWindow, lastBlockedAt, connSent, connSendWindow, connLastBlockedAt>>
stream == <<highest, read, window, size, epoch, final, queued, reading, abandoned>>
connection == <<connHighest, connRead, connWindow, connSize, connEpoch>>
vars == <<phase, sender, stream, connection, maxStreamData, maxData, error>>

Smaller(x, y) == IF x <= y THEN x ELSE y
Larger(x, y) == IF x >= y THEN x ELSE y

Init ==
    /\ phase \in {"early", "refused"}
    /\ sent = [s \in Streams |-> 0] /\ finished = [s \in Streams |-> FALSE]
    /\ sendWindow = [s \in Streams |-> RememberedStream]
    /\ lastBlockedAt = [s \in Streams |-> 0]
    /\ connSent = 0 /\ connSendWindow = RememberedConn /\ connLastBlockedAt = 0
    /\ highest = [s \in Streams |-> 0] /\ read = [s \in Streams |-> 0]
    /\ window = [s \in Streams |-> InitStream] /\ size = [s \in Streams |-> InitStream]
    /\ epoch = [s \in Streams |-> 0]
    /\ final = [s \in Streams |-> FALSE] /\ queued = [s \in Streams |-> FALSE]
    /\ reading = [s \in Streams |-> 0] /\ abandoned = [s \in Streams |-> 0]
    /\ connHighest = 0 /\ connRead = 0 /\ connWindow = InitConn /\ connSize = InitConn
    /\ connEpoch = 0
    /\ maxStreamData = [s \in Streams |-> {}] /\ maxData = {} /\ error = "none"

-----------------------------------------------------------------------------
(* The sender.                                                             *)

SendWindowSize(s) == Smaller(sendWindow[s] - sent[s], connSendWindow - connSent)

\* Mutant: the frame is limited by the stream's window alone.
SendStreamWindow(s, n) ==
    /\ error = "none" /\ ~finished[s]
    /\ n <= sendWindow[s] - sent[s]
    /\ sent[s] + n <= MaxSent
    /\ sent' = [sent EXCEPT ![s] = @ + n]
    /\ connSent' = connSent + n
    /\ UNCHANGED <<phase, finished, sendWindow, connSendWindow, lastBlockedAt,
                   connLastBlockedAt, stream, connection, maxStreamData, maxData, error>>

\* A STREAM frame with n new bytes; IsNewlyBlocked of the stream when the frame takes the whole
\* window, of the connection at the end of the packet.
Send(s, n) ==
    /\ error = "none" /\ ~finished[s]
    /\ n <= SendWindowSize(s)
    /\ sent[s] + n <= MaxSent
    /\ sent' = [sent EXCEPT ![s] = @ + n]
    /\ connSent' = connSent + n
    /\ lastBlockedAt' = IF sent'[s] = sendWindow[s]
                        THEN [lastBlockedAt EXCEPT ![s] = sendWindow[s]] ELSE lastBlockedAt
    /\ connLastBlockedAt' = IF connSent' = connSendWindow THEN connSendWindow
                            ELSE connLastBlockedAt
    /\ UNCHANGED <<phase, finished, sendWindow, connSendWindow,
                   stream, connection, maxStreamData, maxData, error>>

Finish(s) ==
    /\ error = "none" /\ ~finished[s]
    /\ finished' = [finished EXCEPT ![s] = TRUE]
    /\ UNCHANGED <<phase, sent, sendWindow, lastBlockedAt, connSent, connSendWindow,
                   connLastBlockedAt, stream, connection, maxStreamData, maxData, error>>

\* Mutant: the last frame to arrive decides.
HandleLastMaxStreamData(s) ==
    /\ error = "none" /\ phase = "open"
    /\ \E w \in maxStreamData[s] : sendWindow' = [sendWindow EXCEPT ![s] = w]
    /\ UNCHANGED <<phase, sent, finished, lastBlockedAt, connSent, connSendWindow,
                   connLastBlockedAt, stream, connection, maxStreamData, maxData, error>>

\* UpdateSendWindow for a MAX_STREAM_DATA frame.  Frames that would change nothing any more are
\* forgotten.
HandleMaxStreamData(s) ==
    /\ error = "none" /\ phase = "open"
    /\ \E w \in maxStreamData[s] :
          /\ w > sendWindow[s]
          /\ sendWindow' = [sendWindow EXCEPT ![s] = w]
          /\ maxStreamData' = [maxStreamData EXCEPT ![s] = {v \in @ : v > w}]
    /\ UNCHANGED <<phase, sent, finished, lastBlockedAt, connSent, connSendWindow,
                   connLastBlockedAt, stream, connection, maxData, error>>

\* UpdateSendWindow for a MAX_DATA frame.
HandleMaxData ==
    /\ error = "none" /\ phase = "open"
    /\ \E w \in maxData :
          /\ w > connSendWindow
          /\ connSendWindow' = w
          /\ maxData' = {v \in maxData : v > w}
    /\ UNCHANGED <<phase, sent, finished, sendWindow, lastBlockedAt, connSent,
                   connLastBlockedAt, stream, connection, maxStreamData, error>>

\* The peer's transport parameters: the windows of 0-RTT grow.
Accepted ==
    /\ phase = "early" /\ phase' = "open"
    /\ sendWindow' = [s \in Streams |-> Larger(sendWindow[s], InitStream)]
    /\ connSendWindow' = Larger(connSendWindow, InitConn)
    /\ UNCHANGED <<sent, finished, lastBlockedAt, connSent, connLastBlockedAt, stream,
                   connection, maxStreamData, maxData, error>>

\* 0-RTT is rejected: new streams, Reset of the connection's controller, then the parameters.
Rejected ==
    /\ phase = "refused" /\ phase' = "open"
    /\ sent' = [s \in Streams |-> 0] /\ finished' = [s \in Streams |-> FALSE]
    /\ sendWindow' = [s \in Streams |-> InitStream]
    /\ lastBlockedAt' = [s \in Streams |-> 0]
    /\ connSent' = 0 /\ connSendWindow' = InitConn /\ connLastBlockedAt' = 0
    /\ UNCHANGED <<stream, connection, maxStreamData, maxData, error>>

-----------------------------------------------------------------------------
(* The receiver.                                                           *)

\* The mutex of the receive stream: a reader holds it for all of AddBytesRead.
StreamFree(s) == reading[s] = 0

\* Mutant: a window may not be used to the last byte.
FrameErrorStrict(s, off, fin) ==
    IF off > highest[s] /\ off >= window[s] THEN "FlowControlError" ELSE "none"

\* UpdateHighestReceived: what is wrong with offset off, if anything.
FrameError(s, off, fin) ==
    IF \/ final[s] /\ (off > highest[s] \/ (fin /\ off # highest[s]))
       \/ fin /\ off < highest[s]
    THEN "FinalSizeError"
    ELSE IF off > highest[s] /\ (off > window[s] \/ connHighest + off - highest[s] > connWindow)
    THEN "FlowControlError"
    ELSE "none"

\* A STREAM frame ending at off, or a RESET_STREAM with final size off.  An error closes the
\* connection: what the counters are then does not matter.
Receive(s, off, fin) ==
    /\ error = "none" /\ StreamFree(s) /\ phase # "refused"
    /\ fin => finished[s] /\ off = sent[s]
    /\ error' = FrameError(s, off, fin)
    /\ highest' = [highest EXCEPT ![s] = Larger(@, off)]
    /\ connHighest' = connHighest + Larger(off - highest[s], 0)
    /\ epoch' = IF highest[s] = 0 /\ off > 0 THEN [epoch EXCEPT ![s] = read[s]] ELSE epoch
    /\ connEpoch' = IF connHighest = 0 /\ off > highest[s] THEN connRead ELSE connEpoch
    /\ final' = [final EXCEPT ![s] = @ \/ fin]
    /\ UNCHANGED <<phase, sender, read, window, size, queued, reading, abandoned,
                   connRead, connWindow, connSize, maxStreamData, maxData>>

\* Mutant: the window is renewed only when it is exceeded.
HasWindowUpdateLate(remaining, sz) == remaining < 0

\* Less than three quarters of the window remain.
HasWindowUpdate(remaining, sz) == 4 * remaining <= 3 * sz

\* A reader copies n bytes and keeps the stream's mutex: the first half of AddBytesRead.
Read(s, n) ==
    /\ error = "none" /\ StreamFree(s)
    /\ n <= highest[s] - read[s]
    /\ read' = [read EXCEPT ![s] = @ + n]
    /\ reading' = [reading EXCEPT ![s] = n]
    /\ queued' = [queued EXCEPT ![s] = @ \/ (~final[s] /\ HasWindowUpdate(window[s] - read'[s], size[s]))]
    /\ UNCHANGED <<phase, sender, highest, window, size, epoch, final, abandoned,
                   connection, maxStreamData, maxData, error>>

\* The second half, under the connection's mutex.
ReadConn(s) ==
    /\ error = "none" /\ reading[s] > 0
    /\ connRead' = connRead + reading[s]
    /\ reading' = [reading EXCEPT ![s] = 0]
    /\ UNCHANGED <<phase, sender, highest, read, window, size, epoch, final, queued,
                   abandoned, connHighest, connWindow, connSize, connEpoch, maxStreamData,
                   maxData, error>>

\* Mutant: the unread bytes are credited again by every call.
AbandonAgain(s) ==
    /\ error = "none" /\ StreamFree(s) /\ final[s] /\ highest[s] > read[s]
    /\ abandoned' = [abandoned EXCEPT ![s] = highest[s] - read[s]]
    /\ UNCHANGED <<phase, sender, highest, read, window, size, epoch, final, queued,
                   reading, connection, maxStreamData, maxData, error>>

\* The stream is given up with its final size known: the first half of Abandon.
Abandon(s) ==
    /\ error = "none" /\ StreamFree(s) /\ final[s] /\ highest[s] > read[s]
    /\ read' = [read EXCEPT ![s] = highest[s]]
    /\ abandoned' = [abandoned EXCEPT ![s] = highest[s] - read[s]]
    /\ UNCHANGED <<phase, sender, highest, window, size, epoch, final, queued, reading,
                   connection, maxStreamData, maxData, error>>

AbandonConn(s) ==
    /\ error = "none" /\ abandoned[s] > 0
    /\ connRead' = connRead + abandoned[s]
    /\ abandoned' = [abandoned EXCEPT ![s] = 0]
    /\ UNCHANGED <<phase, sender, highest, read, window, size, epoch, final, queued,
                   reading, connHighest, connWindow, connSize, connEpoch, maxStreamData,
                   maxData, error>>

\* maybeAdjustWindowSize: the sizes and epochs it may leave.  Nothing changes with half of the
\* window unread or no round-trip time; a window read too fast doubles, if that is allowed.
Adjusted(rd, sz, ep, limit) ==
    IF rd - ep <= sz \div 2 THEN {<<sz, ep>>}
    ELSE {<<sz, ep>>, <<sz, rd>>, <<Smaller(2 * sz, limit), rd>>}

\* Mutant: the connection's window follows past its limit.
EnsuredUncapped(inc) ==
    IF inc <= connSize THEN {<<connSize, connEpoch>>}
    ELSE {<<connSize, connRead>>, <<inc, connRead>>}

\* EnsureMinimumWindowSize(inc), the connection's window follows a stream's; allowed or not.
Ensured(inc) ==
    IF inc <= connSize THEN {<<connSize, connEpoch>>}
    ELSE {<<connSize, connRead>>, <<Smaller(inc, MaxConn), connRead>>}

\* getControlFrame of the receive stream, GetWindowUpdate of its controller.  Once the final
\* size is known, or when there is no update any more, the frame carries 0.
GetWindowUpdate(s) ==
    /\ error = "none" /\ StreamFree(s) /\ queued[s]
    /\ queued' = [queued EXCEPT ![s] = FALSE]
    /\ IF ~final[s] /\ HasWindowUpdate(window[s] - read[s], size[s])
       THEN \E a \in Adjusted(read[s], size[s], epoch[s], MaxStream) :
               /\ size' = [size EXCEPT ![s] = a[1]]
               /\ epoch' = [epoch EXCEPT ![s] = a[2]]
               /\ window' = [window EXCEPT ![s] = read[s] + a[1]]
               /\ maxStreamData' = [maxStreamData EXCEPT ![s] = @ \cup {read[s] + a[1]}]
               /\ \E c \in IF a[1] > size[s] THEN Ensured((3 * a[1]) \div 2)
                           ELSE {<<connSize, connEpoch>>} :
                     connSize' = c[1] /\ connEpoch' = c[2]
       ELSE UNCHANGED <<size, epoch, window, maxStreamData, connSize, connEpoch>>
    /\ UNCHANGED <<phase, sender, highest, read, final, reading, abandoned,
                   connHighest, connRead, connWindow, maxData, error>>

\* GetWindowUpdate of the connection's controller, whenever packets are sent.
GetConnWindowUpdate ==
    /\ error = "none"
    /\ HasWindowUpdate(connWindow - connRead, connSize)
    /\ \E a \in Adjusted(connRead, connSize, connEpoch, MaxConn) :
          /\ connSize' = a[1] /\ connEpoch' = a[2]
          /\ connWindow' = connRead + a[1]
          /\ maxData' = maxData \cup {connRead + a[1]}
    /\ UNCHANGED <<phase, sender, stream, connHighest, connRead, maxStreamData, error>>

Next ==
    \/ Accepted \/ Rejected \/ HandleMaxData \/ GetConnWindowUpdate
    \/ \E s \in Streams :
          \/ Finish(s) \/ HandleMaxStreamData(s) \/ ReadConn(s) \/ Abandon(s) \/ AbandonConn(s)
          \/ GetWindowUpdate(s)
          \/ \E n \in 1 .. MaxSent : Send(s, n) \/ Read(s, n)
          \/ \E off \in 0 .. sent[s], fin \in BOOLEAN : Receive(s, off, fin)

Spec == Init /\ [][Next]_vars

\* What the two ends and the network do by themselves: the run loops keep sending, lost frames
\* are retransmitted until they arrive, the applications keep reading and readers finish what
\* they began.
Moving ==
    \/ Accepted \/ Rejected \/ HandleMaxData \/ GetConnWindowUpdate
    \/ \E s \in Streams :
          \/ HandleMaxStreamData(s) \/ GetWindowUpdate(s) \/ ReadConn(s) \/ AbandonConn(s)
          \/ \E n \in 1 .. MaxSent : Send(s, n) \/ Read(s, n)
          \/ sent[s] > highest[s] /\ Receive(s, sent[s], FALSE)

-----------------------------------------------------------------------------
(* Properties.                                                             *)

\* The counters are counters and the flags flags.
TypeOK ==
    /\ phase \in {"early", "refused", "open"}
    /\ sent \in [Streams -> Nat] /\ sendWindow \in [Streams -> Nat]
    /\ lastBlockedAt \in [Streams -> Nat] /\ highest \in [Streams -> Nat]
    /\ read \in [Streams -> Nat] /\ window \in [Streams -> Nat] /\ size \in [Streams -> Nat]
    /\ epoch \in [Streams -> Nat] /\ reading \in [Streams -> Nat]
    /\ abandoned \in [Streams -> Nat]
    /\ finished \in [Streams -> BOOLEAN] /\ final \in [Streams -> BOOLEAN]
    /\ queued \in [Streams -> BOOLEAN]
    /\ connSent \in Nat /\ connSendWindow \in Nat /\ connLastBlockedAt \in Nat
    /\ connHighest \in Nat /\ connRead \in Nat /\ connWindow \in Nat /\ connSize \in Nat
    /\ connEpoch \in Nat
    /\ maxStreamData \in [Streams -> SUBSET Nat] /\ maxData \subseteq Nat
    /\ error \in {"none", "FinalSizeError", "FlowControlError"}

\* Two ends running this code never close the connection on each other: whatever is reordered,
\* retransmitted or read meanwhile, and also after a rejected 0-RTT, no frame exceeds a window
\* or contradicts a final size.
NoViolation == error = "none"

\* The two ends agree: the sender keeps to a window the receiver has granted, on the stream and
\* on the connection, and a final size the receiver knows is the sender's, although the windows
\* reach the sender late and out of order and what was sent early may have been rejected.
AgreedWindows ==
    /\ \A s \in Streams :
          /\ highest[s] <= sent[s] /\ sent[s] <= sendWindow[s] /\ sendWindow[s] <= window[s]
          /\ final[s] => finished[s] /\ highest[s] = sent[s]
    /\ connSent <= connSendWindow /\ connSendWindow <= connWindow
    /\ error # "FinalSizeError"

\* The connection's controller counts what the streams' controllers count: bytes sent, bytes
\* received, and bytes read except those between the two critical sections of AddBytesRead.
ConnTotals ==
    error = "none" =>
        /\ connSent = SumFunction(sent)
        /\ connHighest = SumFunction(highest)
        /\ connRead + SumFunction(reading) + SumFunction(abandoned) = SumFunction(read)

\* The memory promised to the peer is bounded by the configured maximum window of the stream
\* and of the connection: a window is never more than that ahead of what was read.
WindowsBounded ==
    /\ \A s \in Streams : window[s] - read[s] <= MaxStream /\ size[s] <= MaxStream
    /\ connWindow - connRead <= MaxConn /\ connSize <= MaxConn

\* The two ends agree about the windows (AgreedWindows), and no window promises more memory than
\* was configured (WindowsBounded).
WindowsAgree == AgreedWindows /\ WindowsBounded

\* Credit once given is not taken back: neither the receiver's windows nor the sender's idea of
\* them shrink (the sender's start again when 0-RTT is rejected).
WindowsNeverShrink ==
    [][ /\ \A s \in Streams : window'[s] >= window[s] /\ size'[s] >= size[s]
        /\ connWindow' >= connWindow /\ connSize' >= connSize
        /\ phase' = phase => /\ \A s \in Streams : sendWindow'[s] >= sendWindow[s]
                             /\ connSendWindow' >= connSendWindow ]_vars

\* Nobody waits for the other for ever: each of the steps the two ends take by themselves uses
\* up bytes or credit, and when none is left to take, every stream that is not ended has got all
\* its bytes across and read, although the windows are smaller than the stream.
AllRead == (ENABLED <<Moving>>_vars) \/ \A s \in Streams : finished[s] \/ read[s] = MaxSent
=============================================================================
