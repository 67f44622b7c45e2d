---------------------------- MODULE FrameSorter ----------------------------
(***************************************************************************)
(* The frame sorter (quic-go-bbr/frame_sorter.go), which every receive       *)
(* stream and crypto stream uses to put STREAM or CRYPTO frames in order.    *)
(*                                                                         *)
(* The data of a frame is the interval of stream offsets it was sent for, so *)
(* that slicing it wrongly shows.  A frame's DoneCb returns its buffer to    *)
(* the pool: callbacks counts the buffers that are in use.                   *)
(***************************************************************************)
EXTENDS Integers, Sequences, FiniteSets, FiniteSetsExt, Functions

CONSTANTS
    MaxOffset,   \* bound on the bytes of the stream
    MaxFrame,    \* bound on the bytes of a frame
    Inf,         \* protocol.MaxByteCount
    MinBuffer,   \* protocol.MinStreamFrameBufferSize
    MaxGaps      \* protocol.MaxStreamFrameSorterGaps

VARIABLES
    queue,       \* the frames that wait, by offset
    readPos,
    gaps,        \* the missing intervals, in order
    callbacks,   \* ghost: callbacks that are to be called
    failed       \* "gaps": an error was returned, "panic": the program stops

vars == <<queue, readPos, gaps, callbacks, failed>>

Interval(lo, hi) == [start |-> lo, end |-> hi]

Init ==
    /\ queue = <<>> /\ readPos = 0 /\ gaps = <<Interval(0, Inf)>>
    /\ callbacks = 0 /\ failed = "none"

-----------------------------------------------------------------------------
(* Push                                                                    *)

Without(q, keys) == Restrict(q, DOMAIN q \ keys)
EndOf(q, k) == k + q[k].len

\* The frames of q that follow each other from pos on.
RECURSIVE Consecutive(_, _)
Consecutive(q, pos) ==
    IF pos \in DOMAIN q THEN {pos} \cup Consecutive(q, EndOf(q, pos)) ELSE {}

\* findStartGap: the first gap that does not end before pos.
StartGap(pos) == Min({i \in DOMAIN gaps : pos <= gaps[i].end})
InStartGap(pos) == pos >= gaps[StartGap(pos)].start

\* findEndGap: the gap that contains pos, or else the last one before it.
EndCandidate(pos) == Min({i \in DOMAIN gaps : pos < gaps[i].end})
InEndGap(pos) == pos >= gaps[EndCandidate(pos)].start
EndGap(pos) == IF InEndGap(pos) THEN EndCandidate(pos) ELSE EndCandidate(pos) - 1

\* The frames at start that a frame up to end replaces: they are shorter, or they end with it
\* and are not the first.
Replaced(start, end) ==
    {k \in Consecutive(queue, start) :
        EndOf(queue, k) < end \/ (k # start /\ EndOf(queue, k) = end)}

\* All of the data is there already.
Duplicate(start, end) ==
    \/ end <= gaps[1].start
    \/ end <= gaps[StartGap(start)].start
    \/ start \in DOMAIN queue /\ Replaced(start, end) = {}

\* The frames of q between the gaps i and j, which the new frame covers.
Covered(q, i, j) == UNION {Consecutive(q, gaps[k].end) : k \in i .. j - 1}

\* Mutant: only the first of the gaps is looked at.
NewGapsFirst(i, j, start, met, end, replaced) ==
    LET first == IF start <= gaps[i].start
                 THEN IF met >= gaps[i].end THEN <<>> ELSE <<Interval(met, gaps[i].end)>>
                 ELSE IF replaced THEN <<gaps[i]>> ELSE <<Interval(gaps[i].start, start)>>
    IN SubSeq(gaps, 1, i - 1) \o first \o SubSeq(gaps, i + 1, Len(gaps))

\* The gaps once start .. end - 1 is there, which begins in gap i and ends in gap j.  The frame
\* was to reach to met; with replaced, it begins at a frame of the queue.
NewGaps(i, j, start, met, end, replaced) ==
    LET split == start > gaps[i].start /\ ~replaced
        first == IF start <= gaps[i].start
                 THEN IF met >= gaps[i].end THEN <<>> ELSE <<Interval(met, gaps[i].end)>>
                 ELSE IF split THEN <<Interval(gaps[i].start, start)>> ELSE <<gaps[i]>>
        last  == IF end = gaps[j].end \/ (i = j /\ ~split) THEN <<>>
                 ELSE <<Interval(end, gaps[j].end)>>
    IN SubSeq(gaps, 1, i - 1) \o first \o last \o SubSeq(gaps, j + 1, Len(gaps))

\* What remains of a cut frame is copied, and its buffer given back, when it is small.
Copied(cut, len) == cut /\ len < MinBuffer

\* A frame of the queue: data without its first bytes.
Entry(offset, dropped, len, done) == [from |-> offset + dropped, len |-> len, done |-> done]

TooManyGaps(g) == Len(g) > MaxGaps

\* A frame with the bytes offset .. offset + size - 1.
Push(offset, size) ==
    LET full == offset + size
        i == StartGap(offset)
        j == EndGap(full)
        replaced == Replaced(offset, full)
        next == IF replaced = {} THEN offset ELSE Max({EndOf(queue, k) : k \in replaced})
        meets == replaced # {} /\ next \in DOMAIN queue
        met == IF meets THEN next ELSE full                    \* a longer frame begins there
        dropped == IF InStartGap(offset) \/ replaced # {} THEN 0 ELSE gaps[i].start - offset
        start == offset + dropped
        past == ~InEndGap(full) /\ start # gaps[j].end /\ met > gaps[j].end
        end == IF past THEN gaps[j].end ELSE met
        small == Copied(meets \/ dropped > 0 \/ past, end - start)
        rest == Without(queue, replaced)
        gone == replaced \cup Covered(rest, i, j)
        kept == Without(queue, gone)
        entry == Entry(offset, dropped, end - start, ~small)
    IN /\ failed = "none"
       /\ ~(size = 0 \/ Duplicate(offset, full))
       /\ gaps' = NewGaps(i, j, start, met, end, replaced # {})
       /\ failed' = IF TooManyGaps(gaps') THEN "gaps" ELSE "none"
       /\ queue' = IF failed' = "gaps" THEN kept
                   ELSE [k \in DOMAIN kept \cup {start} |-> IF k = start THEN entry ELSE kept[k]]
       /\ callbacks' = callbacks + 1 - Cardinality({k \in gone : queue[k].done})
                       - (IF small THEN 1 ELSE 0)
       /\ UNCHANGED readPos

\* Mutant: the buffer of a frame that is popped is given back at once.
PopReleasing ==
    /\ failed = "none" /\ readPos \in DOMAIN queue
    /\ queue' = Without(queue, {readPos})
    /\ readPos' = EndOf(queue, readPos)
    /\ failed' = IF gaps[1].end <= readPos' THEN "panic" ELSE "none"
    /\ callbacks' = callbacks - 1
    /\ UNCHANGED gaps

\* Mutant: the frames that wait behind the popped one are given up.
PopForgetting ==
    /\ failed = "none" /\ readPos \in DOMAIN queue
    /\ queue' = <<>> /\ callbacks' = 0
    /\ readPos' = EndOf(queue, readPos)
    /\ gaps' = <<Interval(readPos', Inf)>>
    /\ UNCHANGED failed

\* The next frame, whose callback passes to the reader.
Pop ==
    /\ failed = "none" /\ readPos \in DOMAIN queue
    /\ queue' = Without(queue, {readPos})
    /\ readPos' = EndOf(queue, readPos)
    /\ failed' = IF gaps[1].end <= readPos' THEN "panic" ELSE "none"
    /\ callbacks' = callbacks - (IF queue[readPos].done THEN 1 ELSE 0)
    /\ UNCHANGED gaps

\* Peek(offset, size): are so many bytes there?
Peek(offset, size) ==
    LET run == Consecutive(queue, offset) IN
    size = 0 \/ (run # {} /\ offset + size <= Max({EndOf(queue, k) : k \in run}))

Next ==
    \/ \E offset \in 0 .. MaxOffset - 1, size \in 1 .. MaxFrame :
          offset + size <= MaxOffset /\ Push(offset, size)
    \/ Pop

Spec == Init /\ [][Next]_vars

-----------------------------------------------------------------------------
(* Properties.                                                             *)

Bytes == 0 .. MaxOffset - 1
Holding(b) == {k \in DOMAIN queue : k <= b /\ b < EndOf(queue, k)}
Missing(b) == {i \in DOMAIN gaps : gaps[i].start <= b /\ b < gaps[i].end}

TypeOK ==
    /\ DOMAIN queue \subseteq Bytes
    /\ \A k \in DOMAIN queue : queue[k] \in [from : Bytes, len : 1 .. MaxOffset, done : BOOLEAN]
    /\ readPos \in 0 .. MaxOffset /\ callbacks \in Nat
    /\ failed \in {"none", "gaps"}
    /\ failed = "none" => Len(gaps) <= MaxGaps

\* No byte is lost or kept twice, however frames overlap: it has been read, or it is in exactly
\* one frame of the queue, or in exactly one gap; gaps are in order and do not touch.
Partition ==
    failed = "none" =>
        /\ \A b \in Bytes :
              (IF b < readPos THEN 1 ELSE 0) + Cardinality(Holding(b)) + Cardinality(Missing(b)) = 1
        /\ \A i \in DOMAIN gaps : /\ gaps[i].start < gaps[i].end
                                  /\ i > 1 => gaps[i - 1].end < gaps[i].start
        /\ gaps[Len(gaps)].end = Inf

\* A frame of the queue holds the bytes of the offset where it is queued, after any cut.
InPlace == \A k \in DOMAIN queue : queue[k].from = k

\* A buffer is given back once, and not while a frame in the queue uses it: the callbacks left
\* to call are those of the queue.
BuffersOnce == failed = "none" => callbacks = Cardinality({k \in DOMAIN queue : queue[k].done})

\* Peek from where a frame starts says exactly whether all the bytes asked for have arrived.
PeekExact ==
    failed = "none" =>
        \A k \in DOMAIN queue, n \in 1 .. MaxOffset :
            Peek(k, n) <=> k + n <= MaxOffset /\ \A b \in k .. k + n - 1 : Missing(b) = {}

\* The bytes that have arrived, read off the gaps.
Arrived == {b \in Bytes : Missing(b) = {}}
=============================================================================
