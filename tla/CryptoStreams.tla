----------------------------- MODULE CryptoStreams -----------------------------
(***************************************************************************)
(* The Initial crypto stream of a client (crypto_stream.go,                *)
(* internal/wire/crypto_frame.go), which sends its ClientHello out of      *)
(* order: the middle of the server name and the start of the ECH extension *)
(* are cut out and sent last.  The network reorders, duplicates and loses  *)
(* the frames; lost ones are split if need be and sent again; the server   *)
(* puts the stream together again and drops the encryption level.          *)
(*                                                                         *)
(* The byte written at position i has the value i.  TLS is external: it    *)
(* writes a ClientHello, in parts or at once, and a second one if it is    *)
(* asked to (HelloRetryRequest).                                           *)
(***************************************************************************)
EXTENDS Integers, Sequences, FiniteSets

CONSTANTS
  Hellos,     \* ClientHellos: length, where the server name and the ECH extension
              \* are, and the space for a CRYPTO frame in the packets they are sent in
  Parts,      \* where a ClientHello may be split when TLS writes it
  EchCutLen,  \* 16 bytes in the code
  MaxLosses   \* bound on frames lost

VARIABLES
  hello,   \* the ClientHello
  second,  \* length of the second ClientHello, 0 if there is none
  str,     \* initialCryptoStream of the client
  net,     \* frames on their way
  retx,    \* frames to be retransmitted
  rcv,     \* crypto stream of the server
  losses

sVars == <<hello, second, str, net, retx, rcv, losses>>

Invalid == -1
NoCut == [start |-> Invalid, end |-> Invalid]
Least(a, b) == IF a < b THEN a ELSE b
Max2(a, b) == IF a < b THEN b ELSE a

(***************************************************************************)
(* crypto_frame.go                                                         *)
(***************************************************************************)
VarintLen(n) == IF n < 64 THEN 1 ELSE 2

\* MaxDataLen: the most data a frame at an offset can have in maxSize bytes.
MaxDataLen(offset, maxSize) ==
  LET n == maxSize - (1 + VarintLen(offset) + 1)
  IN  IF n < 0 THEN 0 ELSE IF VarintLen(n) # 1 THEN n - 1 ELSE n

Length(f) == 1 + VarintLen(f.Offset) + VarintLen(Len(f.Data)) + Len(f.Data)

CryptoFrame(offset, data) == [Offset |-> offset, Data |-> data]

\* The part of a frame that fits, and the rest
MaybeSplitOffFrame(f, n) ==
  <<CryptoFrame(f.Offset, SubSeq(f.Data, 1, n)),
    CryptoFrame(f.Offset + n, SubSeq(f.Data, n + 1, Len(f.Data)))>>

(***************************************************************************)
(* The sending side                                                        *)
(***************************************************************************)
newInitialCryptoStream(scramble) ==
  [scramble |-> scramble, end |-> 0, cuts |-> <<NoCut, NoCut>>, writeOffset |-> 0,
   writeBuf |-> <<>>]

\* Slice [a, b) of the write buffer
Slice(s, a, b) == SubSeq(s.writeBuf, a + 1, b)

\* HasData: a ClientHello is only sent once all of it was written.
HasData(s) ==
  /\ ~(s.scramble /\ s.writeOffset = 0 /\ s.cuts[1].start = Invalid)
  /\ s.writeBuf # <<>>

\* The cuts of Write, sorted by where they start
Cuts(h) ==
  LET sni == IF h.sniPos = Invalid THEN NoCut
             ELSE [start |-> h.sniPos + (h.sniLen \div 2), end |-> h.sniPos + h.sniLen]
      ech == IF h.echPos <= 0 THEN NoCut
             ELSE [start |-> h.echPos + 1, end |-> Least(h.echPos + 1 + EchCutLen, h.len)]
  IN  IF sni = NoCut \/ (ech # NoCut /\ ech.start < sni.start) THEN <<ech, sni>> ELSE <<sni, ech>>

\* Write: findSNIAndECH succeeds when the buffer is a whole ClientHello.
Write(s, p) ==
  LET w == [s EXCEPT !.writeBuf = @ \o p]
  IN  CASE ~s.scramble \/ s.cuts[1].start # Invalid \/ Len(w.writeBuf) # hello.len -> w
        [] s.scramble /\ s.cuts[1].start = Invalid /\ Len(w.writeBuf) = hello.len ->
             IF hello.sniPos = Invalid /\ hello.echPos = Invalid
             THEN [w EXCEPT !.scramble = FALSE]
             ELSE [w EXCEPT !.end = hello.len, !.cuts = Cuts(hello)]

\* PopCryptoFrame of the base stream: the new stream, and the frame if any
PopInOrder(s, maxLen) ==
  LET n == Least(MaxDataLen(s.writeOffset, maxLen), Len(s.writeBuf))
  IN  IF n <= 0 THEN <<s, <<>>>>
      ELSE <<[s EXCEPT !.writeBuf = SubSeq(@, n + 1, Len(@)), !.writeOffset = @ + n],
             <<CryptoFrame(s.writeOffset, Slice(s, 0, n))>>>>

PopCut_bug(s, maxLen) ==
  LET left == {i \in 1..2 : s.cuts[i].start # Invalid}
      i == CHOOSE j \in left : \A k \in left : j <= k
      c == s.cuts[i]
      n == Least(MaxDataLen(c.start, maxLen), c.end - c.start)
      ends == c.start + n = c.end
      t == [s EXCEPT !.cuts[i] = IF ends THEN NoCut ELSE [c EXCEPT !.start = @ + n]]
  IN  IF n <= 0 THEN <<s, <<>>>>
      ELSE <<IF ends
             THEN [t EXCEPT !.writeBuf = SubSeq(@, s.end + 1, Len(@)),
                              !.end = Invalid, !.scramble = FALSE]
             ELSE t,
             <<CryptoFrame(c.start, Slice(s, c.start, c.start + n))>>>>

\* The parts that were cut out, once everything else is sent: the first of
\* them that is left, and after the last one the stream goes on in order.
PopCut(s, maxLen) ==
  LET left == {i \in 1..2 : s.cuts[i].start # Invalid}
      i == CHOOSE j \in left : \A k \in left : j <= k
      c == s.cuts[i]
      n == Least(MaxDataLen(c.start, maxLen), c.end - c.start)
      ends == c.start + n = c.end
      t == [s EXCEPT !.cuts[i] = IF ends THEN NoCut ELSE [c EXCEPT !.start = @ + n]]
  IN  IF n <= 0 THEN <<s, <<>>>>
      ELSE <<IF ends /\ left = {i}
             THEN [t EXCEPT !.writeBuf = SubSeq(@, s.end + 1, Len(@)),
                              !.end = Invalid, !.scramble = FALSE]
             ELSE t,
             <<CryptoFrame(c.start, Slice(s, c.start, c.start + n))>>>>

\* Everything up to the next cut, which is skipped
PopToCut(s, maxLen) ==
  LET next == {i \in 1..2 : s.cuts[i].start > s.writeOffset}
      cut == IF next = {} THEN NoCut ELSE s.cuts[CHOOSE j \in next : \A k \in next : j <= k]
      maxOffset == IF cut = NoCut THEN s.end ELSE cut.start
      n == Least(MaxDataLen(s.writeOffset, maxLen), maxOffset - s.writeOffset)
      o == s.writeOffset + n
  IN  IF n <= 0 THEN <<s, <<>>>>
      ELSE <<[s EXCEPT !.writeOffset = IF o = cut.start THEN cut.end ELSE o],
             <<CryptoFrame(s.writeOffset, Slice(s, s.writeOffset, o))>>>>

PopCryptoFrame(s, maxLen) ==
  CASE ~s.scramble -> PopInOrder(s, maxLen)
    [] s.scramble /\ s.writeOffset = s.end -> PopCut(s, maxLen)
    [] OTHER -> PopToCut(s, maxLen)

(***************************************************************************)
(* The receiving side                                                      *)
(***************************************************************************)
\* The frame sorter: the bytes that arrived, and how far they were read
NewReceiver == [have |-> {}, readPos |-> 0, highestOffset |-> 0,
                finished |-> FALSE, err |-> "nil"]

FirstGap(r) ==
  CHOOSE n \in 0..Cardinality(r.have) : n \notin r.have /\ \A i \in 0..(n - 1) : i \in r.have

HandleCryptoFrame(r, f) ==
  LET highest == f.Offset + Len(f.Data)
  IN  CASE r.finished /\ highest > r.highestOffset -> [r EXCEPT !.err = "after change of level"]
        [] r.finished /\ highest <= r.highestOffset -> r
        [] OTHER -> [r EXCEPT !.have = @ \cup {f.Offset + i - 1 : i \in DOMAIN f.Data},
                              !.highestOffset = Max2(@, highest)]

\* GetCryptoData, until there is none
GetCryptoData(r) == IF r.finished THEN r ELSE [r EXCEPT !.readPos = FirstGap(r)]

\* Finish
Finish(r) ==
  IF \E i \in r.have : i >= r.readPos THEN [r EXCEPT !.err = "more data to read"]
  ELSE [r EXCEPT !.finished = TRUE]

(***************************************************************************)
(* The system                                                              *)
(***************************************************************************)
SCInit ==
  /\ hello \in Hellos
  /\ second \in {0, 3}
  /\ \E scramble \in BOOLEAN : str = newInitialCryptoStream(scramble)
  /\ net = {} /\ retx = {} /\ losses = 0
  /\ rcv = NewReceiver

Bytes(a, b) == [i \in 1..(b - a) |-> a + i - 1]
Written == IF str.scramble THEN Len(str.writeBuf) ELSE str.writeOffset + Len(str.writeBuf)

\* TLS writes the ClientHello, or the part of it that is missing.
WriteHello ==
  /\ Written < hello.len
  /\ \E to \in {hello.len} \cup {p \in Parts : Written < p /\ p < hello.len} :
       str' = Write(str, Bytes(Written, to))
  /\ UNCHANGED <<hello, second, net, retx, rcv, losses>>

\* TLS was asked for a second ClientHello: the server has read the first one.
WriteSecond ==
  /\ second > 0 /\ Written = hello.len /\ rcv.readPos = hello.len
  /\ str' = Write(str, Bytes(hello.len, hello.len + second))
  /\ UNCHANGED <<hello, second, net, retx, rcv, losses>>

SendFrame ==
  /\ HasData(str)
  /\ \E room \in hello.rooms :
       LET r == PopCryptoFrame(str, room)
       IN  /\ r[2] # <<>>
           /\ str' = r[1]
           /\ net' = net \cup {r[2][1]}
  /\ UNCHANGED <<hello, second, retx, rcv, losses>>

\* retransmissionQueue.GetFrame: as much of the frame as fits
Retransmit(f) ==
  /\ \E room \in hello.rooms :
       LET n == MaxDataLen(f.Offset, room)
           split == MaybeSplitOffFrame(f, n)
       IN  IF Length(f) <= room
           THEN retx' = retx \ {f} /\ net' = net \cup {f}
           ELSE /\ n > 0
                /\ retx' = (retx \ {f}) \cup {split[2]}
                /\ net' = net \cup {split[1]}
  /\ UNCHANGED <<hello, second, str, rcv, losses>>

\* handleCryptoFrame of the server.  A frame may arrive twice, and the level
\* is dropped once TLS has what it needs.
ReceiveFrame(f, again) ==
  /\ rcv.err = "nil"
  /\ rcv' = GetCryptoData(HandleCryptoFrame(rcv, f))
  /\ net' = IF again THEN net ELSE net \ {f}
  /\ again => rcv' # rcv
  /\ UNCHANGED <<hello, second, str, retx, losses>>

DropInitial ==
  /\ rcv.err = "nil" /\ ~rcv.finished
  /\ rcv.readPos = hello.len + second
  /\ rcv' = Finish(rcv)
  /\ UNCHANGED <<hello, second, str, net, retx, losses>>

LoseFrame(f) ==
  /\ losses < MaxLosses /\ losses' = losses + 1
  /\ net' = net \ {f} /\ retx' = retx \cup {f}
  /\ UNCHANGED <<hello, second, str, rcv>>

SCNext ==
  \/ WriteHello \/ WriteSecond \/ SendFrame \/ DropInitial
  \/ \E f \in retx : Retransmit(f)
  \/ \E f \in net : LoseFrame(f) \/ \E again \in BOOLEAN : ReceiveFrame(f, again)

(***************************************************************************)
(* Properties                                                              *)
(***************************************************************************)
\* Scrambling changes the order of the ClientHello only: every frame carries
\* the bytes of its own offset, a stream that has data gives a frame, and when
\* nothing is left to be sent, to be retransmitted or on its way, the server
\* has read all that TLS wrote and dropped the level without an error.
HelloArrives ==
  /\ rcv.err = "nil"
  /\ \A f \in net \cup retx : f.Data = Bytes(f.Offset, f.Offset + Len(f.Data))
  /\ HasData(str) => \A room \in hello.rooms : PopCryptoFrame(str, room)[2] # <<>>
  /\ net = {} /\ retx = {} /\ ~HasData(str) /\ Written >= hello.len => rcv.readPos = Written
=============================================================================
