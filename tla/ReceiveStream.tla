--------------------------- MODULE ReceiveStream ---------------------------
(***************************************************************************)
(* The receiving side of a stream (quic-go-bbr/receive_stream.go): a reader  *)
(* that calls Read and Peek, another goroutine that calls CancelRead and     *)
(* SetReadDeadline, and the run loop that handles STREAM and RESET_STREAM     *)
(* frames, asks for control frames and shuts the stream down.                *)
(*                                                                         *)
(* The peer sends finalSize bytes and then a FIN, a RESET_STREAM or both; a   *)
(* RESET_STREAM_AT has a reliable size, which the peer may reduce.  Frames     *)
(* arrive in any order and repeatedly.  The frame sorter is the abstract one *)
(* of SortedBytes.  The reader holds the mutex in the steps "loop", "inner",  *)
(* "copy" and "peek".                                                        *)
(***************************************************************************)
EXTENDS Integers, FiniteSets, FiniteSetsExt

CONSTANTS
    MaxData,        \* bound on the bytes of the stream
    ReliableSizes,  \* reliable sizes of resets: {0} without the RESET_STREAM_AT extension
    MaxDeadlines    \* bound on calls of SetReadDeadline

VARIABLES
    finalSize,      \* of the peer's stream
    arrived,        \* the bytes pushed into the frame sorter
    popped,         \* the bytes below have left the frame sorter
    hasFrame,       \* currentFrame # nil; what is left of it is readPos .. popped - 1
    isLast,         \* currentFrameIsLast
    readPos, reliableSize,
    finalOffset,    \* Unknown or the final size
    highest,        \* highestReceived of the flow controller
    credited,       \* bytesRead of the flow controller
    cancelledRemotely, cancelledLocally, errorRead, completed, closed,
    queuedStopSending, queuedMaxStreamData,
    signal,         \* readChan holds a value
    deadline,       \* "none", "future" or "passed"
    deadlines,      \* calls of SetReadDeadline
    pc, want, got,  \* the reader, in Read or Peek
    result,         \* what its last call returned
    finishing,      \* what the goroutine that completed the stream has still to do
    notified        \* calls of onStreamCompleted

receiver == <<arrived, popped, hasFrame, isLast, readPos>>
flow == <<highest, credited>>
cancels == <<cancelledRemotely, cancelledLocally, reliableSize, finalOffset>>
control == <<queuedStopSending, queuedMaxStreamData>>
timing == <<deadline, deadlines>>
reader == <<pc, want, got, result>>
vars == <<finalSize, receiver, flow, cancels, errorRead, completed, closed, control, signal, timing,
          reader, finishing, notified>>

Unknown == MaxData + 1    \* protocol.MaxByteCount

Init ==
    /\ finalSize \in 0 .. MaxData
    /\ arrived = {} /\ popped = 0 /\ hasFrame = FALSE /\ isLast = FALSE /\ readPos = 0
    /\ reliableSize = 0 /\ finalOffset = Unknown /\ highest = 0 /\ credited = 0
    /\ cancelledRemotely = FALSE /\ cancelledLocally = FALSE /\ errorRead = FALSE
    /\ completed = FALSE /\ closed = FALSE
    /\ queuedStopSending = FALSE /\ queuedMaxStreamData = FALSE
    /\ signal = FALSE /\ deadline = "none" /\ deadlines = 0
    /\ pc = "idle" /\ want = 0 /\ got = 0 /\ result = "none"
    /\ finishing = "no" /\ notified = 0

Free == pc \in {"idle", "wait", "peekwait"}    \* nobody holds the mutex

\* Mutant: the reset takes effect at once.
EffectiveAtOnce(position) == cancelledRemotely

\* isRemoteCancellationEffective.
Effective(position) == cancelledRemotely /\ position >= reliableSize

\* isNewlyCompleted, and what remains to be done after unlocking.
Complete(then) ==
    LET newly == ~completed /\ finalOffset' # Unknown /\ (cancelledLocally' \/ errorRead') IN
    /\ completed' = (completed \/ newly)
    /\ finishing' = IF newly THEN then ELSE finishing

\* The positions up to which the sorter may pop its next frame.
NextPops ==
    LET ends == {e \in popped + 1 .. MaxData : popped .. e - 1 \subseteq arrived} IN
    IF ends = {} THEN {popped} ELSE ends

\* dequeueNextFrame.
Dequeue ==
    \E e \in NextPops :
       /\ popped' = e
       /\ hasFrame' = (e > popped)
       /\ isLast' = (finalOffset # Unknown /\ e >= finalOffset /\ ~cancelledRemotely)

Spent == ~hasFrame \/ readPos = popped

-----------------------------------------------------------------------------
(* Read                                                                    *)

\* Return from Read; isNewlyCompleted under the mutex, onStreamCompleted after it.
Return(r, error) ==
    /\ pc' = "idle" /\ result' = r
    /\ want' = 0 /\ got' = 0
    /\ errorRead' = (errorRead \/ error)
    /\ UNCHANGED <<finalOffset, cancelledLocally>>
    /\ Complete("notify")

ReadCall(n) ==
    /\ pc = "idle" /\ result \notin {"eof", "cancelled"}
    /\ \/ isLast /\ ~hasFrame /\ Return("eof", TRUE)
       \/ ~(isLast /\ ~hasFrame) /\ (cancelledLocally \/ Effective(readPos))
          /\ Return("cancelled", TRUE)
       \/ ~(isLast /\ ~hasFrame) /\ ~cancelledLocally /\ ~Effective(readPos)
          /\ IF closed THEN Return("closed", FALSE)
             ELSE /\ pc' = "loop" /\ want' = n
                  /\ UNCHANGED <<got, result, errorRead, completed, finishing, finalOffset,
                                 cancelledLocally>>
    /\ UNCHANGED <<finalSize, receiver, flow, cancelledRemotely, reliableSize, closed, control,
                   signal, timing, notified>>

\* The head of the outer loop.
ReadLoop ==
    /\ pc = "loop"
    /\ IF got < want
       THEN /\ IF Spent THEN Dequeue ELSE UNCHANGED <<popped, hasFrame, isLast>>
            /\ IF ~hasFrame' /\ got > 0 THEN Return("data", FALSE)
               ELSE /\ pc' = "inner"
                    /\ UNCHANGED <<want, got, result, errorRead, completed, finishing,
                                   finalOffset, cancelledLocally>>
       ELSE /\ IF Effective(readPos) THEN Return("cancelled", TRUE) ELSE Return("data", FALSE)
            /\ UNCHANGED <<popped, hasFrame, isLast>>
    /\ UNCHANGED <<finalSize, arrived, readPos, flow, cancelledRemotely, reliableSize, closed,
                   control, signal, timing, notified>>

\* The inner loop: stop waiting on errors, go on with data or at the end, or else wait.
ReadInner ==
    /\ pc = "inner"
    /\ IF closed THEN Return("closed", FALSE)
       ELSE IF cancelledLocally \/ Effective(readPos) THEN Return("cancelled", TRUE)
       ELSE IF deadline = "passed" THEN Return("deadline", FALSE)
       ELSE /\ pc' = IF hasFrame \/ isLast THEN "copy" ELSE "wait"
            /\ UNCHANGED <<want, got, result, errorRead, completed, finishing, finalOffset,
                           cancelledLocally>>
    /\ UNCHANGED <<finalSize, receiver, flow, cancelledRemotely, reliableSize, closed, control,
                   signal, timing, notified>>

\* The waiting reader gets the value of readChan, or its timer fires.
ReadWake ==
    /\ pc = "wait"
    /\ signal \/ deadline = "passed"
    /\ signal' \in IF deadline = "passed" THEN {signal, FALSE} ELSE {FALSE}
    /\ Dequeue
    /\ pc' = "inner"
    /\ UNCHANGED <<finalSize, arrived, readPos, flow, cancels, errorRead, completed, closed,
                   control, timing, want, got, result, finishing, notified>>

\* Copy bytes and account for them.  Whether a window update is due is a choice.
ReadCopy ==
    /\ pc = "copy"
    /\ LET left == IF hasFrame THEN popped - readPos ELSE 0
           m == Min({want - got, left})
           credit == IF Effective(readPos) THEN credited ELSE credited + m
       IN /\ readPos' = readPos + m
          /\ credited' = IF Effective(readPos + m) THEN highest ELSE credit   \* Abandon
          /\ UNCHANGED highest
          /\ queuedMaxStreamData' \in IF Effective(readPos) \/ m = 0 \/ finalOffset # Unknown
                                      THEN {queuedMaxStreamData} ELSE {queuedMaxStreamData, TRUE}
          /\ IF m = left /\ isLast
             THEN hasFrame' = FALSE /\ Return("eof", TRUE)
             ELSE /\ pc' = "loop" /\ got' = got + m
                  /\ UNCHANGED <<hasFrame, want, result, errorRead, completed, finishing,
                                 finalOffset, cancelledLocally>>
    /\ UNCHANGED <<finalSize, arrived, popped, isLast, cancelledRemotely, reliableSize, closed,
                   queuedStopSending, signal, timing, notified>>

-----------------------------------------------------------------------------
(* Peek                                                                    *)

\* The bytes that could be read at once from readPos on.
Available == Cardinality({b \in arrived : b >= readPos /\ readPos .. b \subseteq arrived})

PeekReturn(r) == pc' = "idle" /\ want' = 0 /\ result' = r

PeekCall(n) ==
    /\ pc = "idle" /\ result \notin {"eof", "cancelled"}
    /\ pc' = "peek" /\ want' = n
    /\ UNCHANGED <<finalSize, receiver, flow, cancels, errorRead, completed, closed, control,
                   signal, timing, got, result, finishing, notified>>

\* One round of the loop of peekImpl.
PeekLoop ==
    /\ pc = "peek"
    /\ IF isLast /\ ~hasFrame THEN PeekReturn("peek") /\ UNCHANGED <<popped, hasFrame, isLast>>
       ELSE IF cancelledLocally \/ Effective(readPos) \/ closed \/ deadline = "passed"
       THEN PeekReturn("peek") /\ UNCHANGED <<popped, hasFrame, isLast>>
       ELSE /\ IF Spent THEN Dequeue ELSE UNCHANGED <<popped, hasFrame, isLast>>
            /\ LET ended(end) == readPos + want > end /\ Available >= end - readPos
                   found == /\ hasFrame' /\ readPos < popped'
                            /\ \/ Available >= want \/ isLast'
                               \/ cancelledRemotely /\ ended(reliableSize)
                               \/ finalOffset # Unknown /\ ended(finalOffset)
               IN IF found \/ isLast' \/ (finalOffset # Unknown /\ readPos >= finalOffset)
                  THEN PeekReturn("peek") ELSE pc' = "peekwait" /\ UNCHANGED <<want, result>>
    /\ UNCHANGED <<finalSize, arrived, readPos, flow, cancels, errorRead, completed, closed,
                   control, signal, timing, got, finishing, notified>>

PeekWake ==
    /\ pc = "peekwait"
    /\ signal \/ deadline = "passed"
    /\ signal' \in IF deadline = "passed" THEN {signal, FALSE} ELSE {FALSE}
    /\ IF Spent THEN Dequeue ELSE UNCHANGED <<popped, hasFrame, isLast>>
    /\ pc' = "peek"
    /\ UNCHANGED <<finalSize, arrived, readPos, flow, cancels, errorRead, completed, closed,
                   control, timing, want, got, result, finishing, notified>>

-----------------------------------------------------------------------------
(* The other goroutine.                                                    *)

\* Mutant: the waiting reader is not woken.
CancelReadQuietly ==
    /\ Free /\ ~cancelledLocally /\ ~closed
    /\ cancelledLocally' = TRUE
    /\ queuedStopSending' = ~(errorRead \/ cancelledRemotely)
    /\ UNCHANGED <<finalOffset, errorRead, signal>>
    /\ Complete("abandon")
    /\ UNCHANGED <<finalSize, receiver, flow, cancelledRemotely, reliableSize, closed,
                   queuedMaxStreamData, timing, reader, notified>>

CancelRead ==
    /\ Free /\ ~cancelledLocally /\ ~closed
    /\ cancelledLocally' = TRUE
    /\ UNCHANGED <<finalOffset, errorRead>>
    /\ IF errorRead \/ cancelledRemotely THEN UNCHANGED <<queuedStopSending, signal>>
       ELSE queuedStopSending' = TRUE /\ signal' = TRUE
    /\ Complete("abandon")
    /\ UNCHANGED <<finalSize, receiver, flow, cancelledRemotely, reliableSize, closed,
                   queuedMaxStreamData, timing, reader, notified>>

SetReadDeadline(d) ==
    /\ Free /\ deadlines < MaxDeadlines
    /\ deadline' = d /\ deadlines' = deadlines + 1 /\ signal' = TRUE
    /\ UNCHANGED <<finalSize, receiver, flow, cancels, errorRead, completed, closed, control,
                   reader, finishing, notified>>

DeadlinePasses ==
    /\ deadline = "future" /\ deadline' = "passed"
    /\ UNCHANGED <<finalSize, receiver, flow, cancels, errorRead, completed, closed, control,
                   signal, deadlines, reader, finishing, notified>>

-----------------------------------------------------------------------------
(* The run loop.                                                           *)

Bigger(x, y) == IF x >= y THEN x ELSE y

\* A STREAM frame with the bytes lo .. hi - 1, until the stream has left the streams map.
HandleStreamFrame(lo, hi, fin) ==
    /\ Free /\ notified = 0 /\ hi <= finalSize /\ (fin => hi = finalSize)
    /\ highest' = Bigger(highest, hi)
    /\ finalOffset' = IF fin THEN hi ELSE finalOffset
    /\ UNCHANGED <<cancelledLocally, errorRead>>
    /\ IF cancelledLocally THEN UNCHANGED <<arrived, signal>>
       ELSE arrived' = arrived \cup lo .. hi - 1 /\ signal' = TRUE
    /\ Complete("abandon")
    /\ UNCHANGED <<finalSize, popped, hasFrame, isLast, readPos, credited, cancelledRemotely,
                   reliableSize, closed, control, timing, reader, notified>>

\* Mutant: the unread bytes of a stream that was reset are not accounted for.
HandleResetNoAbandon(size) ==
    /\ Free /\ notified = 0 /\ ~closed /\ size <= finalSize
    /\ highest' = finalSize /\ finalOffset' = finalSize
    /\ UNCHANGED <<cancelledLocally, errorRead, credited, reliableSize>>
    /\ cancelledRemotely' = (cancelledRemotely \/ ~cancelledLocally)
    /\ signal' = (signal \/ ~cancelledLocally)
    /\ Complete("notify")
    /\ UNCHANGED <<finalSize, receiver, closed, control, timing, reader, notified>>

\* A RESET_STREAM, or a RESET_STREAM_AT with a reliable size.
HandleResetStreamFrame(size) ==
    /\ Free /\ notified = 0 /\ ~closed /\ size <= finalSize
    /\ highest' = finalSize /\ finalOffset' = finalSize
    /\ UNCHANGED <<cancelledLocally, errorRead>>
    /\ reliableSize' = IF (~cancelledRemotely /\ reliableSize = 0) \/ size < reliableSize
                       THEN size ELSE reliableSize
    /\ credited' = IF readPos >= reliableSize' THEN highest' ELSE credited
    /\ IF cancelledRemotely \/ cancelledLocally THEN UNCHANGED <<cancelledRemotely, signal>>
       ELSE cancelledRemotely' = TRUE /\ signal' = TRUE
    /\ Complete("notify")
    /\ UNCHANGED <<finalSize, receiver, closed, control, timing, reader, notified>>

\* getControlFrame: STOP_SENDING first.
GetControlFrame ==
    /\ Free /\ (queuedStopSending \/ queuedMaxStreamData)
    /\ queuedStopSending' = FALSE
    /\ queuedMaxStreamData' = (queuedMaxStreamData /\ queuedStopSending)
    /\ UNCHANGED <<finalSize, receiver, flow, cancels, errorRead, completed, closed, signal,
                   timing, reader, finishing, notified>>

CloseForShutdown ==
    /\ Free /\ ~closed /\ notified = 0
    /\ closed' = TRUE /\ signal' = TRUE
    /\ UNCHANGED <<finalSize, receiver, flow, cancels, errorRead, completed, control, timing,
                   reader, finishing, notified>>

\* After unlocking, the goroutine that completed the stream: Abandon, then onStreamCompleted.
FinishAbandon ==
    /\ finishing = "abandon" /\ finishing' = "notify"
    /\ credited' = highest
    /\ UNCHANGED <<finalSize, receiver, highest, cancels, errorRead, completed, closed, control,
                   signal, timing, reader, notified>>

Notify ==
    /\ finishing = "notify" /\ finishing' = "no"
    /\ notified' = notified + 1
    /\ UNCHANGED <<finalSize, receiver, flow, cancels, errorRead, completed, closed, control,
                   signal, timing, reader>>

Reader ==
    \/ ReadLoop \/ ReadInner \/ ReadWake \/ ReadCopy \/ PeekLoop \/ PeekWake

\* A byte the peer has to deliver, or the FIN.
NeededFrame ==
    \/ \E b \in 0 .. MaxData - 1 : /\ b \notin arrived /\ (cancelledRemotely => b < reliableSize)
                                  /\ HandleStreamFrame(b, b + 1, FALSE)
    \/ finalOffset = Unknown /\ HandleStreamFrame(finalSize, finalSize, TRUE)

Next ==
    \/ Reader
    \/ \E n \in 1 .. MaxData : ReadCall(n) \/ PeekCall(n)
    \/ CancelRead \/ DeadlinePasses \/ GetControlFrame \/ CloseForShutdown
    \/ FinishAbandon \/ Notify
    \/ \E d \in {"none", "future"} : SetReadDeadline(d)
    \/ \E lo, hi \in 0 .. MaxData, fin \in BOOLEAN : lo <= hi /\ HandleStreamFrame(lo, hi, fin)
    \/ \E size \in ReliableSizes : HandleResetStreamFrame(size)

Spec == Init /\ [][Next]_vars

\* Goroutines go on.  The peer's data and FIN arrive, if need be by retransmission; after a reset
\* only the data below the reliable size does.  Each of these steps uses up bytes or a wake-up.
Moving == Reader \/ FinishAbandon \/ Notify \/ NeededFrame

-----------------------------------------------------------------------------
(* Properties.                                                             *)

TypeOK ==
    /\ arrived \subseteq 0 .. MaxData - 1 /\ popped \in 0 .. MaxData
    /\ readPos \in 0 .. popped /\ reliableSize \in ReliableSizes
    /\ finalOffset \in {finalSize, Unknown} /\ highest \in 0 .. finalSize
    /\ credited \in 0 .. highest
    /\ notified \in 0 .. 1
    /\ pc \in {"idle", "loop", "inner", "copy", "wait", "peek", "peekwait"}
    /\ result \in {"none", "data", "eof", "cancelled", "closed", "deadline", "peek"}

\* The reader sees the end of the stream only after all its bytes, although the FIN may arrive
\* before, with or after the last of them, and resets in between.
EofComplete == result = "eof" => readPos = finalSize /\ finalOffset = finalSize

\* The reader of a stream that the peer reset has read all bytes that the reset promised to deliver
\* before it sees the error, in whatever order resets with smaller sizes and the bytes arrive.
ReliableDelivered == result = "cancelled" => cancelledLocally \/ readPos >= reliableSize

\* "We need to know the final offset (either via FIN or RESET_STREAM) for flow control
\* accounting": once the stream is gone, all that the peer sent on it has been credited to the
\* connection; unless the application cancelled a stream that was reset with a reliable size, the rest
\* of which is then credited by nobody.
CreditReturned ==
    notified = 1 /\ (cancelledLocally => reliableSize = 0) => credited = finalSize

\* A reader that waits is woken by whatever ends its wait: data, the end of the stream, a reset,
\* CancelRead or the shutdown of the connection.
ReaderReturns == pc \in {"wait", "peekwait"} => ENABLED <<Moving>>_vars

\* "Read will unblock immediately": a reader does not go on waiting after CancelRead.
CancelUnblocks == pc = "wait" /\ cancelledLocally /\ ~closed => ENABLED <<Moving>>_vars

\* The streams map hears of every stream the application is done with, so that the peer may open
\* another one.
Completes ==
    errorRead \/ cancelledLocally => notified = 1 \/ closed \/ ENABLED <<Moving>>_vars
=============================================================================
