-------------------------------- MODULE Wire --------------------------------
(***************************************************************************)
(* The two wire formats whose length arithmetic the packet packer relies   *)
(* on: STREAM frames (internal/wire/stream_frame.go), filled into a packet *)
(* by framer.Append (framer.go), and ACK frames (internal/wire/            *)
(* ack_frame.go).                                                          *)
(*                                                                         *)
(* A frame on the wire is the numbers its varints carry, in order, and the *)
(* piece of the stream's bytes that follows them; its size is counted in   *)
(* bytes with quicvarint.Len.  A piece of stream data is where it begins   *)
(* in the stream and how long it is, so that bytes that end up at another  *)
(* offset than their own can be told.  Only frames written by this code    *)
(* are parsed, so the parsers' errors about cut off input do not arise.    *)
(***************************************************************************)
EXTENDS Integers, Sequences, SequencesExt

CONSTANTS
  Lost,                \* the sets of frames, one per stream, that may be lost
  PacketSizes,         \* the room a packet may have for frames
  MinStreamFrameSize,  \* protocol.MinStreamFrameSize
  Gaps, RangeLens,     \* gaps between ACK ranges and their lengths
  MaxRanges,           \* bound on the ranges the receiver remembers
  AckSizes,            \* the room a packet may have for an ACK
  MaxNumAckRanges      \* protocol.MaxNumAckRanges

VARIABLES
  lost,    \* the stream frames to be sent again, by stream ID
  queue,   \* framer.streamQueue
  sent,    \* the frames as they were before anything was sent
  got,     \* by stream ID, the frames the peer parsed, in order
  room,    \* of the last packet: the room it had and what was used
  ack,     \* the ACK frame that is due
  report   \* the ACK frame the peer parsed and the room it had

wvars == <<lost, queue, sent, got, room, ack, report>>

None == [none |-> TRUE]

(***************************************************************************)
(* quicvarint.Len                                                          *)
(***************************************************************************)
VarintLen(i) ==
  IF i <= 63 THEN 1 ELSE IF i <= 16383 THEN 2 ELSE IF i <= 1073741823 THEN 4 ELSE 8

(***************************************************************************)
(* STREAM frames.                                                          *)
(***************************************************************************)
StreamFrame(id, offset, from, n, fin) ==
  [StreamID |-> id, Offset |-> offset, Data |-> [from |-> from, len |-> n], Fin |-> fin,
   DataLenPresent |-> TRUE]

\* The fields in front of the data; the length is missing in the last frame
\* of a packet.
AppendFrame(f) ==
  [fin |-> f.Fin, hasOffset |-> f.Offset # 0, hasDataLen |-> f.DataLenPresent,
   numbers |-> <<f.StreamID>> \o (IF f.Offset # 0 THEN <<f.Offset>> ELSE <<>>)
               \o (IF f.DataLenPresent THEN <<f.Data.len>> ELSE <<>>),
   data |-> f.Data]

WireLen(w) ==
  1 + FoldLeft(LAMBDA sum, i : sum + VarintLen(i), 0, w.numbers) + w.data.len

\* StreamFrame.Length
Length(f) ==
  1 + VarintLen(f.StreamID) + (IF f.Offset # 0 THEN VarintLen(f.Offset) ELSE 0)
  + (IF f.DataLenPresent THEN VarintLen(f.Data.len) ELSE 0) + f.Data.len

\* StreamFrame.MaxDataLen
MaxDataLen(f, maxSize) ==
  LET headerLen == 1 + VarintLen(f.StreamID) + (IF f.Offset # 0 THEN VarintLen(f.Offset) ELSE 0)
                   + (IF f.DataLenPresent THEN 1 ELSE 0)
      most == maxSize - headerLen
  IN IF headerLen > maxSize THEN 0
     ELSE IF f.DataLenPresent /\ VarintLen(most) # 1 THEN most - 1 ELSE most

\* StreamFrame.MaybeSplitOffFrame: the frame split off, if any, what is left
\* of f, and whether f did not fit.
MaybeSplitOffFrame(f, maxSize) ==
  LET n == MaxDataLen(f, maxSize)
  IN IF maxSize >= Length(f) THEN [new |-> None, rest |-> f, split |-> FALSE]
     ELSE IF n = 0 THEN [new |-> None, rest |-> f, split |-> TRUE]
     ELSE [new |-> [f EXCEPT !.Data.len = n, !.Fin = FALSE],
           rest |-> [f EXCEPT !.Data = [from |-> f.Data.from + n, len |-> f.Data.len - n],
                              !.Offset = f.Offset + n],
           split |-> TRUE]

\* ParseStreamFrame of frame i of a packet: without a length, the rest of
\* the packet is data.
ParseStreamFrame(ws, i) ==
  LET w == ws[i]
      rest == FoldLeft(LAMBDA sum, v : sum + WireLen(v), 0, SubSeq(ws, i + 1, Len(ws)))
  IN [StreamID |-> w.numbers[1],
      Offset |-> IF w.hasOffset THEN w.numbers[2] ELSE 0,
      Data |-> [w.data EXCEPT !.len = IF w.hasDataLen THEN w.numbers[Len(w.numbers)] ELSE @ + rest],
      Fin |-> w.fin]

ParsePacket(ws) ==
  LET last == SelectInSeq(ws, LAMBDA w : ~w.hasDataLen)
      n == IF last = 0 THEN Len(ws) ELSE last
  IN [i \in 1..n |-> ParseStreamFrame(ws, i)]

(***************************************************************************)
(* framer.Append, for streams that have a lost frame to send again.        *)
(* getNextStreamFrame pretends that the length field of the frame is free, *)
(* since the last frame of the packet goes without it; a stream that had   *)
(* something to send again always claims that it has more.                 *)
(***************************************************************************)
getNextStreamFrame_bug(p, id) ==
  LET pop == MaybeSplitOffFrame(p.lost[id], p.maxLen + 2 * VarintLen(p.maxLen))
      frame == IF pop.split THEN pop.new ELSE p.lost[id]
  IN IF p.lost[id] = None THEN [frame |-> None, rest |-> None, hasMoreData |-> FALSE]
     ELSE [frame |-> frame, rest |-> IF pop.split THEN pop.rest ELSE None, hasMoreData |-> TRUE]

getNextStreamFrame(p, id) ==
  LET pop == MaybeSplitOffFrame(p.lost[id], p.maxLen + VarintLen(p.maxLen))
      frame == IF pop.split THEN pop.new ELSE p.lost[id]
  IN IF p.lost[id] = None THEN [frame |-> None, rest |-> None, hasMoreData |-> FALSE]
     ELSE [frame |-> frame, rest |-> IF pop.split THEN pop.rest ELSE None, hasMoreData |-> TRUE]

PopFrame(p, id) ==
  LET next == getNextStreamFrame(p, id)
      rest == Tail(p.queue)
  IN IF MinStreamFrameSize > p.maxLen THEN p
     ELSE [lost   |-> [p.lost EXCEPT ![id] = next.rest],
           queue  |-> IF next.hasMoreData THEN Append(rest, id) ELSE rest,
           frames |-> IF next.frame = None THEN p.frames ELSE Append(p.frames, next.frame),
           maxLen |-> IF next.frame = None THEN p.maxLen ELSE p.maxLen - Length(next.frame)]

\* The last frame goes without its length.
AppendStreamFrames(maxLen) ==
  LET p == FoldLeft(PopFrame, [lost |-> lost, queue |-> queue, frames |-> <<>>, maxLen |-> maxLen],
                    queue)
      n == Len(p.frames)
  IN IF n = 0 THEN p ELSE [p EXCEPT !.frames[n].DataLenPresent = FALSE]

\* The packer fills a packet and the peer parses it.
PackStreamFrames ==
  /\ queue # <<>>
  /\ \E maxLen \in PacketSizes : \E p \in {AppendStreamFrames(maxLen)} :
     \E ws \in {[i \in DOMAIN p.frames |-> AppendFrame(p.frames[i])]} :
     \E parsed \in {ParsePacket(ws)} :
       /\ lost' = p.lost
       /\ queue' = p.queue
       /\ got' = [id \in DOMAIN got |->
                    got[id] \o SelectSeq(parsed, LAMBDA f : f.StreamID = id)]
       /\ room' = [maxLen |-> maxLen,
                   length |-> FoldLeft(LAMBDA sum, f : sum + Length(f), 0, p.frames),
                   wire |-> FoldLeft(LAMBDA sum, w : sum + WireLen(w), 0, ws)]
  /\ UNCHANGED <<sent, ack, report>>

(***************************************************************************)
(* ACK frames: the ranges, highest first.                                  *)
(***************************************************************************)
HasECN(f) == f.ECN # <<0, 0, 0>>

\* AckFrame.encodeAckRange
encodeAckRange(f, i) ==
  IF i = 1 THEN <<0, f.AckRanges[1].Largest - f.AckRanges[1].Smallest>>
  ELSE <<f.AckRanges[i - 1].Smallest - f.AckRanges[i].Largest - 2,
         f.AckRanges[i].Largest - f.AckRanges[i].Smallest>>

\* encodeAckDelay, of a delay in microseconds; protocol.AckDelayExponent is 3.
encodeAckDelay(delay) == delay \div 8

LargestAcked(f) == f.AckRanges[1].Largest

LowestAcked(f) == f.AckRanges[Len(f.AckRanges)].Smallest

ECNLen(f) ==
  IF HasECN(f) THEN FoldLeft(LAMBDA sum, c : sum + VarintLen(c), 0, f.ECN) ELSE 0

\* The part of a frame in front of the ranges after the first.
HeadLen(f) ==
  1 + VarintLen(LargestAcked(f)) + VarintLen(encodeAckDelay(f.DelayTime)) + 1
  + VarintLen(encodeAckRange(f, 1)[2]) + ECNLen(f)

RangeLen(f, i) == VarintLen(encodeAckRange(f, i)[1]) + VarintLen(encodeAckRange(f, i)[2])

\* The first n ranges of f, in bytes.
LenOfFirst(f, n) == FoldLeft(LAMBDA sum, i : sum + RangeLen(f, i), HeadLen(f), [i \in 1..n-1 |-> i + 1])

\* AckFrame.Length
AckLength(f) ==
  LenOfFirst(f, IF Len(f.AckRanges) <= MaxNumAckRanges THEN Len(f.AckRanges) ELSE MaxNumAckRanges)

\* AckFrame.numEncodableAckRanges: first with every varint at its longest,
\* and only when that is too long with the exact lengths.
numEncodableAckRanges_bug(f, maxSize) ==
  LET numRanges == IF Len(f.AckRanges) <= MaxNumAckRanges THEN Len(f.AckRanges) ELSE MaxNumAckRanges
      worst == 1 + 8 + 8 + 1 + 8 + (IF HasECN(f) THEN 24 ELSE 0) + 2 * 8 * (numRanges - 1)
      tooLong == {i \in 2..numRanges : LenOfFirst(f, i) > maxSize}
  IN IF worst <= maxSize \/ tooLong = {} THEN numRanges
     ELSE CHOOSE i \in tooLong : \A j \in tooLong : i <= j

numEncodableAckRanges(f, maxSize) ==
  LET numRanges == IF Len(f.AckRanges) <= MaxNumAckRanges THEN Len(f.AckRanges) ELSE MaxNumAckRanges
      worst == 1 + 8 + 8 + 1 + 8 + (IF HasECN(f) THEN 24 ELSE 0) + 2 * 8 * (numRanges - 1)
      tooLong == {i \in 2..numRanges : LenOfFirst(f, i) > maxSize}
  IN IF worst <= maxSize \/ tooLong = {} THEN numRanges
     ELSE (CHOOSE i \in tooLong : \A j \in tooLong : i <= j) - 1

Truncate(f, maxSize) ==
  [f EXCEPT !.AckRanges = SubSeq(@, 1, numEncodableAckRanges(f, maxSize))]

\* AckFrame.Append
AppendAck(f) ==
  LET numRanges == IF Len(f.AckRanges) <= MaxNumAckRanges THEN Len(f.AckRanges) ELSE MaxNumAckRanges
  IN [ecn |-> HasECN(f), largestAcked |-> LargestAcked(f), delay |-> encodeAckDelay(f.DelayTime),
      numBlocks |-> numRanges - 1, first |-> encodeAckRange(f, 1)[2],
      blocks |-> [i \in 1..numRanges-1 |-> encodeAckRange(f, i + 1)],
      counts |-> IF HasECN(f) THEN f.ECN ELSE <<>>]

\* AckFrame.validateAckRanges
validateAckRanges(ranges) ==
  /\ ranges # <<>>
  /\ \A i \in DOMAIN ranges : ranges[i].Smallest <= ranges[i].Largest
  /\ \A i \in DOMAIN ranges \ {1} :
       /\ ranges[i - 1].Smallest > ranges[i].Smallest
       /\ ranges[i - 1].Smallest > ranges[i].Largest + 1

\* parseAckFrame: a gap counts down from the smallest number of the range above.
ParseBlock(acc, block) ==
  LET largest == acc.smallest - block[1] - 2
      smallest == largest - block[2]
  IN IF ~acc.ok \/ acc.smallest < block[1] + 2 \/ block[2] > largest THEN [acc EXCEPT !.ok = FALSE]
     ELSE [ok |-> TRUE, smallest |-> smallest,
           ranges |-> Append(acc.ranges, [Smallest |-> smallest, Largest |-> largest])]

parseAckFrame(w) ==
  LET smallest == w.largestAcked - w.first
      start == [ok |-> w.first <= w.largestAcked, smallest |-> smallest,
                ranges |-> <<[Smallest |-> smallest, Largest |-> w.largestAcked]>>]
      acc == FoldLeft(ParseBlock, start, SubSeq(w.blocks, 1, w.numBlocks))
  IN IF ~acc.ok \/ ~validateAckRanges(acc.ranges) THEN None
     ELSE [AckRanges |-> acc.ranges, DelayTime |-> w.delay * 8,
           ECN |-> IF w.ecn THEN w.counts ELSE <<0, 0, 0>>]

\* AckFrame.AcksPacket: the binary search finds the first range that does
\* not lie above p.
AcksPacket(f, p) ==
  /\ LowestAcked(f) <= p /\ p <= LargestAcked(f)
  /\ p <= f.AckRanges[SelectInSeq(f.AckRanges, LAMBDA r : p >= r.Smallest)].Largest

\* Packets arrive after a gap.
ReceivePackets ==
  /\ ack # None /\ report = None
  /\ Len(ack.AckRanges) < MaxRanges
  /\ \E gap \in Gaps, n \in RangeLens :
       LET smallest == LargestAcked(ack) + gap + 2
       IN ack' = [ack EXCEPT !.AckRanges = <<[Smallest |-> smallest, Largest |-> smallest + n]>> \o @]
  /\ UNCHANGED <<lost, queue, sent, got, room, report>>

\* The packer truncates the ACK to the room it has, and the peer parses it.
SendAck ==
  /\ ack # None /\ report = None
  /\ \E maxSize \in AckSizes : \E f \in {Truncate(ack, maxSize)} : \E w \in {AppendAck(f)} :
       report' = [maxSize |-> maxSize, sent |-> f, parsed |-> parseAckFrame(w)]
  /\ UNCHANGED <<lost, queue, sent, got, room, ack>>

(***************************************************************************)
WInit ==
  /\ room = None /\ report = None
  /\ \/ /\ sent \in Lost
        /\ lost = sent
        /\ queue = SetToSortSeq(DOMAIN sent, <)
        /\ got = [id \in DOMAIN sent |-> <<>>]
        /\ ack = None
     \/ /\ sent = <<>> /\ lost = <<>> /\ queue = <<>> /\ got = <<>>
        /\ \E n \in RangeLens, ecn \in {<<0, 0, 0>>, <<3, 0, 64>>}, delay \in {0, 511, 512} :
             ack = [AckRanges |-> <<[Smallest |-> 1, Largest |-> 1 + n]>>, DelayTime |-> delay,
                    ECN |-> ecn]

WNext == PackStreamFrames \/ ReceivePackets \/ SendAck

\* What the peer parsed are the bytes of the stream at their own offsets, in
\* order and without a hole, and FIN is on the last of them only; when the
\* stream has nothing left, all of it has been parsed.
Covers(frames, f, rest) ==
  /\ \A i \in DOMAIN frames :
       /\ frames[i].Offset = frames[i].Data.from
       /\ frames[i].Offset = IF i = 1 THEN f.Offset ELSE frames[i - 1].Offset + frames[i - 1].Data.len
       /\ frames[i].Data.len > 0 \/ frames[i].Fin
       /\ frames[i].Fin => i = Len(frames) /\ rest = None /\ f.Fin
  /\ rest = None =>
       /\ frames # <<>>
       /\ f.Fin <=> Last(frames).Fin
       /\ Last(frames).Offset + Last(frames).Data.len = f.Offset + f.Data.len

\* A packet's STREAM frames never take more room than the packer gave them
\* (although framer.Append lets every frame run over by the length field
\* that only the last one drops), they are as long as Length says, and
\* however often a lost frame is split, the peer gets all of its bytes, each
\* at its own offset, and its FIN once, on the last piece.
StreamFramesFit ==
  /\ room # None => room.length = room.wire /\ room.length <= room.maxLen
  /\ \A id \in DOMAIN sent : Covers(got[id], sent[id], lost[id])

\* An ACK that is truncated fits its room and reports as many of the highest
\* ranges as fit; the peer reads the same ranges, the same ECN counts and
\* the delay rounded down to 8us, and finds a packet acknowledged exactly
\* when it lies in one of the ranges.
AckFaithful ==
  report # None =>
    LET f == report.sent
        n == Len(f.AckRanges)
    IN /\ AckLength(f) <= report.maxSize
       /\ n < Len(ack.AckRanges) => n = MaxNumAckRanges \/ LenOfFirst(ack, n + 1) > report.maxSize
       /\ report.parsed = [f EXCEPT !.DelayTime = f.DelayTime - (f.DelayTime % 8)]
       /\ \A p \in UNION {{r.Smallest - 1, r.Smallest, r.Largest, r.Largest + 1} : r \in Range(f.AckRanges)} :
            AcksPacket(f, p) <=> \E r \in Range(f.AckRanges) : r.Smallest <= p /\ p <= r.Largest
=============================================================================
