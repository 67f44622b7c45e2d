-------------------------- MODULE PacketProtection --------------------------
(***************************************************************************)
(* What a receiver has to know to open a packet: the key that protects it, *)
(* and its full number.  Two state machines that share nothing.            *)
(*                                                                         *)
(* The 1-RTT keys and their updates (internal/handshake/updatable_aead.go) *)
(* at both ends of a connection whose packets are lost and reordered.  A   *)
(* packet carries its number, the key it was sealed with (the opener tries *)
(* a key by comparing), one bit of the phase, and the largest packet its   *)
(* sender has received, which acknowledges it.                             *)
(*                                                                         *)
(* Packet numbers on the wire (internal/protocol/packet_number.go).  The   *)
(* sender truncates a number to the fewest bytes that cover what is        *)
(* unacknowledged, the receiver restores it from the largest number it has *)
(* received, which other packets have moved on in the meantime.            *)
(* Window(length) is 1 << (length * 8); the instance that is model-checked *)
(* has narrower bytes.  1 << 62, the end of the packet numbers, is         *)
(* MaxPacketNumber.                                                        *)
(***************************************************************************)
EXTENDS Integers, FiniteSets, TLAPS

CONSTANTS FirstKeyUpdateInterval, keyUpdateInterval,
          MaxPackets     \* packets each end sends

VARIABLES aead,          \* per end: the updatableAEAD
          pkts,          \* per end: the packets it has sent that are under way
          err            \* the errors Open and SetLargestAcked return

kvars == <<aead, pkts, err>>

Ends == {"client", "server"}
Other(e) == IF e = "client" THEN "server" ELSE "client"

Invalid == -1
Bit(phase) == phase % 2

newUpdatableAEAD ==
  [keyPhase |-> 0, prev |-> Invalid, timer |-> FALSE, handshakeConfirmed |-> FALSE,
   firstRcvd |-> Invalid, firstSent |-> Invalid, numRcvd |-> 0, numSent |-> 0,
   largestAcked |-> Invalid, highestRcvd |-> Invalid, next |-> 0]

KInit ==
  /\ aead = [e \in Ends |-> newUpdatableAEAD]
  /\ pkts = [e \in Ends |-> {}]
  /\ err = {}

\* The key before the current one is kept, one before that is dropped.
rollKeys(a) ==
  [a EXCEPT !.keyPhase = @ + 1, !.firstRcvd = Invalid, !.firstSent = Invalid, !.numRcvd = 0,
            !.numSent = 0, !.prev = a.keyPhase, !.timer = FALSE]

\* MUTANT: a second update does not wait for the first to be acknowledged.
updateAllowed_bug(a) == a.handshakeConfirmed

updateAllowed(a) ==
  /\ a.handshakeConfirmed
  /\ a.keyPhase = 0 \/ (a.firstSent # Invalid /\ a.largestAcked # Invalid /\ a.largestAcked >= a.firstSent)

shouldInitiateKeyUpdate(a) ==
  /\ updateAllowed(a)
  /\ \/ a.keyPhase = 0 /\ (a.numRcvd >= FirstKeyUpdateInterval \/ a.numSent >= FirstKeyUpdateInterval)
     \/ a.numRcvd >= keyUpdateInterval \/ a.numSent >= keyUpdateInterval

\* KeyPhase, as the packer begins a packet.
KeyPhase(a) == IF shouldInitiateKeyUpdate(a) THEN rollKeys(a) ELSE a

Seal(a) ==
  [a EXCEPT !.firstSent = IF @ = Invalid THEN a.next ELSE @, !.numSent = @ + 1, !.next = @ + 1]

SealPacket(e) ==
  LET a == KeyPhase(aead[e])
  IN  /\ a.next < MaxPackets
      /\ aead' = [aead EXCEPT ![e] = Seal(a)]
      /\ pkts' = [pkts EXCEPT ![e] = @ \cup {[pn |-> a.next, key |-> a.keyPhase, ack |-> a.highestRcvd]}]
      /\ UNCHANGED err

\* SetHandshakeConfirmed.
Confirm(e) ==
  /\ ~aead[e].handshakeConfirmed
  /\ aead' = [aead EXCEPT ![e].handshakeConfirmed = TRUE]
  /\ UNCHANGED <<pkts, err>>

\* Does a packet of the other phase come from before the update?
Reordered(a, pn) == (a.keyPhase > 0 /\ a.firstRcvd = Invalid) \/ pn < a.firstRcvd

\* The outcome of open, and the state it leaves.
open(a, p) ==
  IF Bit(p.key) # Bit(a.keyPhase)
  THEN IF Reordered(a, p.pn)
       THEN [res |-> IF a.prev = Invalid THEN "dropped"
                     ELSE IF p.key = a.prev THEN "ok" ELSE "failed",
             to |-> a]
       ELSE IF p.key # a.keyPhase + 1 THEN [res |-> "failed", to |-> a]
       ELSE IF a.keyPhase > 0 /\ a.firstSent = Invalid THEN [res |-> "tooquick", to |-> a]
       ELSE [res |-> "ok", to |-> [rollKeys(a) EXCEPT !.timer = TRUE, !.firstRcvd = p.pn]]
  ELSE IF p.key # a.keyPhase THEN [res |-> "failed", to |-> a]
  ELSE [res |-> "ok",
        to |-> [a EXCEPT !.numRcvd = @ + 1,
                         !.timer = IF a.firstRcvd = Invalid /\ a.keyPhase > 0 THEN TRUE ELSE @,
                         !.firstRcvd = IF @ = Invalid THEN p.pn ELSE @]]

\* The previous key is dropped once its time is over.
Expire(a) == IF a.prev # Invalid /\ a.timer THEN [a EXCEPT !.prev = Invalid, !.timer = FALSE] ELSE a

BadAck(a, pn) == a.firstSent # Invalid /\ pn >= a.firstSent /\ a.numRcvd = 0

SetLargestAcked(a, pn) == IF BadAck(a, pn) THEN a ELSE [a EXCEPT !.largestAcked = pn]

\* Open: the state after the packet.
Open(a, p) ==
  LET r == open(a, p)
  IN  IF r.res = "ok" THEN [r.to EXCEPT !.highestRcvd = IF p.pn > @ THEN p.pn ELSE @] ELSE r.to

\* The packet is opened, then its ACK frame handled.
OpenPacket(e, p) ==
  \E late \in BOOLEAN :
    LET old == IF late THEN Expire(aead[e]) ELSE aead[e]
        res == open(old, p).res
        new == Open(old, p)
        acked == res = "ok" /\ p.ack # Invalid
    IN  /\ pkts' = [pkts EXCEPT ![Other(e)] = @ \ {p}]
        /\ aead' = [aead EXCEPT ![e] = IF acked THEN SetLargestAcked(new, p.ack) ELSE new]
        /\ err' = err \cup (IF res = "ok" THEN {} ELSE {res})
                      \cup (IF acked /\ BadAck(new, p.ack) THEN {"badack"} ELSE {})
                      \cup (IF res \in {"failed", "dropped"} /\ p.key >= old.keyPhase THEN {"lost"} ELSE {})

KNext ==
  \E e \in Ends :
    \/ SealPacket(e) \/ Confirm(e)
    \/ \E p \in pkts[Other(e)] : OpenPacket(e, p)

KSpec == KInit /\ [][KNext]_kvars

---------------------------------------------------------------------------
\* The two ends stay within one phase of each other and never accuse each
\* other: no KEY_UPDATE_ERROR is raised, and a packet that cannot be opened is
\* one sealed before the opener's last update.
KeysInStep ==
  /\ aead["client"].keyPhase - aead["server"].keyPhase \in {-1, 0, 1}
  /\ err \subseteq {"dropped", "failed"}

---------------------------------------------------------------------------
(* Packet numbers.                                                         *)

CONSTANTS
  HalfWindow(_),   \* half the numbers that fit in 2, 3 and 4 bytes
  MaxPacketNumber

Lengths == {2, 3, 4}

ASSUME WindowAssumption ==
  /\ \A l \in Lengths : HalfWindow(l) \in Nat \ {0} /\ HalfWindow(l) <= HalfWindow(4)
  /\ MaxPacketNumber \in Nat

VARIABLES
  next,          \* the sender's next packet number
  largestAcked,  \* the largest number it knows to be acknowledged
  inFlight,      \* packets on the way: the number, its length and what is written
  largest,       \* the largest number the receiver decoded, -1 at first
  decoded        \* the number of a packet that arrived and what it was decoded to

nvars == <<next, largestAcked, inFlight, largest, decoded>>

Window(l) == 2 * HalfWindow(l)

\* MUTANT: the whole window counts, not the half above what is expected.
PacketNumberLengthForHeader_bug(pn, acked) ==
  LET numUnacked == IF acked = -1 THEN pn + 1 ELSE pn - acked
  IN IF numUnacked < Window(2) THEN 2 ELSE IF numUnacked < Window(3) THEN 3 ELSE 4

\* The fewest bytes whose half window covers all that is unacknowledged.
PacketNumberLengthForHeader(pn, acked) ==
  LET numUnacked == IF acked = -1 THEN pn + 1 ELSE pn - acked
  IN IF numUnacked < HalfWindow(2) THEN 2 ELSE IF numUnacked < HalfWindow(3) THEN 3 ELSE 4

\* DecodePacketNumber; expected & ^mask is the start of the window that
\* expected lies in.
DecodePacketNumber(length, lrg, truncated) ==
  LET expected == lrg + 1
      win == Window(length)
      hwin == HalfWindow(length)
      candidate == (expected - (expected % win)) + truncated
  IN IF candidate <= expected - hwin /\ candidate < MaxPacketNumber - win THEN candidate + win
     ELSE IF candidate > expected + hwin /\ candidate >= win THEN candidate - win
     ELSE candidate

\* A packet is sent as long as 4 bytes cover what is unacknowledged.
Send ==
  /\ next - largestAcked < HalfWindow(4)
  /\ next + Window(4) < MaxPacketNumber
  /\ LET l == PacketNumberLengthForHeader(next, largestAcked)
     IN inFlight' = inFlight \cup {[pn |-> next, length |-> l, wire |-> next % Window(l)]}
  /\ next' = next + 1
  /\ UNCHANGED <<largestAcked, largest, decoded>>

\* A packet arrives unless it was overtaken by as many others as its length
\* can express.  The receiver keeps the largest number decoded.
Receive ==
  \E p \in inFlight :
    /\ largest + 1 - HalfWindow(p.length) < p.pn
    /\ LET pn == DecodePacketNumber(p.length, largest, p.wire)
       IN /\ decoded' = [sent |-> p.pn, got |-> pn]
          /\ largest' = IF pn > largest THEN pn ELSE largest
    /\ inFlight' = inFlight \ {p}
    /\ UNCHANGED <<next, largestAcked>>

Drop ==
  \E p \in inFlight :
    /\ inFlight' = inFlight \ {p}
    /\ UNCHANGED <<next, largestAcked, largest, decoded>>

\* An ACK arrives; it was sent at any time since the last one.
Acked ==
  \E a \in largestAcked + 1 .. largest :
    /\ largestAcked' = a
    /\ UNCHANGED <<next, inFlight, largest, decoded>>

NInit ==
  /\ next = 0 /\ largestAcked = -1 /\ inFlight = {} /\ largest = -1
  /\ decoded = [sent |-> 0, got |-> 0]

NNext == Send \/ Receive \/ Drop \/ Acked

NSpec == NInit /\ [][NNext]_nvars

\* Every packet that arrives is decoded to the number it was sent with,
\* whatever was lost, overtaken or acknowledged meanwhile: with a wrong
\* number it could not be decrypted, and would count as lost.
DecodedAsSent == decoded.got = decoded.sent

---------------------------------------------------------------------------
(* KeysInStep holds for any update intervals and any number of packets.    *)
(* The inductive invariant ties the numbers an end remembers (the first    *)
(* packet it sent and received with the current key, what was acknowledged)*)
(* to what the other end has seen, and to the packets under way.           *)

PNs == Nat \cup {Invalid}

AEAD == [keyPhase : Nat, prev : PNs, timer : BOOLEAN, handshakeConfirmed : BOOLEAN,
         firstRcvd : PNs, firstSent : PNs, numRcvd : Nat, numSent : Nat,
         largestAcked : PNs, highestRcvd : PNs, next : Nat]

Packet == [pn : Nat, key : Nat, ack : PNs]

KTypeOK ==
  /\ aead \in [Ends -> AEAD]
  /\ pkts \in [Ends -> SUBSET Packet]

\* What an end a remembers of itself.
Own(a) ==
  /\ a.firstSent < a.next
  /\ a.firstRcvd <= a.highestRcvd
  /\ a.prev \in {Invalid, a.keyPhase - 1}

\* What an end a knows of the other end b.
Known(a, b) ==
  /\ a.keyPhase <= b.keyPhase + 1
  /\ a.highestRcvd < b.next
  /\ b.largestAcked <= a.highestRcvd
  /\ b.firstSent # Invalid /\ a.highestRcvd >= b.firstSent =>
       /\ a.keyPhase >= b.keyPhase
       /\ a.keyPhase = b.keyPhase /\ a.keyPhase > 0 => a.firstRcvd # Invalid
  /\ a.keyPhase = b.keyPhase /\ b.firstSent # Invalid /\ b.largestAcked >= b.firstSent =>
       a.firstSent # Invalid
  /\ b.keyPhase > a.keyPhase /\ a.keyPhase > 0 => a.firstSent # Invalid /\ a.firstRcvd # Invalid

\* What a packet p of end a on its way to end b says.
UnderWay(p, a, b) ==
  /\ p.pn < a.next /\ p.key <= a.keyPhase /\ p.ack <= a.highestRcvd
  /\ p.key = a.keyPhase => a.firstSent # Invalid /\ p.pn >= a.firstSent
  /\ p.key < a.keyPhase /\ a.firstSent # Invalid => p.pn < a.firstSent
  /\ b.firstSent # Invalid /\ p.ack >= b.firstSent => p.key >= b.keyPhase

KInv ==
  /\ KTypeOK
  /\ \A e \in Ends :
       /\ Own(aead[e])
       /\ Known(aead[e], aead[Other(e)])
       /\ \A p \in pkts[e] : UnderWay(p, aead[e], aead[Other(e)])
  /\ err \subseteq {"dropped", "failed"}

\* Everything the invariant says of end a, given the other end b.
Pair(a, b) == Own(a) /\ Known(a, b) /\ Known(b, a)

---------------------------------------------------------------------------
\* An update an end is allowed to begin (KeyPhase) keeps what the ends know.
LEMMA RollLocal ==
  ASSUME NEW a \in AEAD, NEW b \in AEAD, Pair(a, b), Own(b), updateAllowed(a)
  PROVE  rollKeys(a) \in AEAD /\ Pair(rollKeys(a), b)
<1> DEFINE r == rollKeys(a)
<1>0. Invalid \in PNs /\ a.keyPhase \in PNs /\ a.keyPhase + 1 \in Nat
  BY DEF PNs, Invalid, AEAD
<1>1. r \in AEAD
  BY <1>0, Zenon DEF rollKeys, AEAD
<1>2. /\ r.keyPhase = a.keyPhase + 1 /\ r.prev = a.keyPhase /\ r.firstRcvd = Invalid
      /\ r.firstSent = Invalid /\ r.largestAcked = a.largestAcked
      /\ r.highestRcvd = a.highestRcvd /\ r.next = a.next
  BY Zenon DEF rollKeys, AEAD
<1>3. Own(r)
  BY <1>1, <1>2 DEF Own, Pair, AEAD, PNs, Invalid
<1>4. Known(r, b)
  BY <1>1, <1>2 DEF Own, Pair, Known, updateAllowed, AEAD, PNs, Invalid
<1>5. Known(b, r)
  BY <1>1, <1>2 DEF Own, Pair, Known, updateAllowed, AEAD, PNs, Invalid
<1> QED BY <1>1, <1>3, <1>4, <1>5, Zenon DEF Pair

\* ... and what the packets under way say.
LEMMA RollPackets ==
  ASSUME NEW a \in AEAD, NEW b \in AEAD, Pair(a, b), Own(b), NEW p \in Packet
  PROVE  /\ UnderWay(p, a, b) => UnderWay(p, rollKeys(a), b)
         /\ UnderWay(p, b, a) => UnderWay(p, b, rollKeys(a))
<1> DEFINE r == rollKeys(a)
<1>2. /\ r.keyPhase = a.keyPhase + 1 /\ r.firstSent = Invalid
      /\ r.highestRcvd = a.highestRcvd /\ r.next = a.next
  BY Zenon DEF rollKeys, AEAD
<1> QED BY <1>2 DEF UnderWay, AEAD, PNs, Invalid, Packet

\* A packet that is sealed carries the current key, and a number of its own.
LEMMA SealRecord ==
  ASSUME NEW a \in AEAD, NEW b \in AEAD, Pair(a, b), Own(b)
  PROVE  /\ Seal(a) \in AEAD /\ Pair(Seal(a), b)
         /\ UnderWay([pn |-> a.next, key |-> a.keyPhase, ack |-> a.highestRcvd], Seal(a), b)
         /\ \A p \in Packet : /\ UnderWay(p, a, b) => UnderWay(p, Seal(a), b)
                              /\ UnderWay(p, b, a) => UnderWay(p, b, Seal(a))
<1> DEFINE r == Seal(a)
<1>0. Invalid \in PNs /\ a.next \in PNs /\ a.next + 1 \in Nat /\ a.numSent + 1 \in Nat
  BY DEF PNs, Invalid, AEAD
<1>1. r \in AEAD
  BY <1>0, Zenon DEF Seal, AEAD
<1>2. /\ r.keyPhase = a.keyPhase /\ r.prev = a.prev /\ r.firstRcvd = a.firstRcvd
      /\ r.firstSent = (IF a.firstSent = Invalid THEN a.next ELSE a.firstSent)
      /\ r.largestAcked = a.largestAcked
      /\ r.highestRcvd = a.highestRcvd /\ r.next = a.next + 1
  BY Zenon DEF Seal, AEAD
<1> HIDE DEF r
<1>3. Own(r) /\ Known(r, b)
  BY <1>1, <1>2 DEF Own, Pair, Known, AEAD, PNs, Invalid
<1>4. Known(b, r)
  BY <1>1, <1>2 DEF Own, Pair, Known, AEAD, PNs, Invalid
<1>5. UnderWay([pn |-> a.next, key |-> a.keyPhase, ack |-> a.highestRcvd], r, b)
  BY <1>1, <1>2 DEF Own, Pair, Known, UnderWay, AEAD, PNs, Invalid
<1>6. ASSUME NEW p \in Packet
      PROVE  /\ UnderWay(p, a, b) => UnderWay(p, r, b)
             /\ UnderWay(p, b, a) => UnderWay(p, b, r)
  BY <1>1, <1>2 DEF Own, Pair, Known, UnderWay, AEAD, PNs, Invalid, Packet
<1> QED BY <1>1, <1>3, <1>4, <1>5, <1>6, Zenon DEF r, Pair

\* The previous key may go at any time once its timer runs.
LEMMA ExpireRecord ==
  ASSUME NEW a \in AEAD, NEW b \in AEAD, Pair(a, b), Own(b)
  PROVE  /\ Expire(a) \in AEAD /\ Pair(Expire(a), b) /\ Expire(a).keyPhase = a.keyPhase
         /\ \A p \in Packet : /\ UnderWay(p, a, b) => UnderWay(p, Expire(a), b)
                              /\ UnderWay(p, b, a) => UnderWay(p, b, Expire(a))
<1>0. Invalid \in PNs
  BY Zenon DEF PNs
<1>1. Expire(a) \in AEAD
  BY <1>0, Zenon DEF Expire, AEAD
<1>2. /\ Expire(a).prev \in {a.prev, Invalid}
      /\ Expire(a).keyPhase = a.keyPhase /\ Expire(a).firstRcvd = a.firstRcvd
      /\ Expire(a).firstSent = a.firstSent /\ Expire(a).largestAcked = a.largestAcked
      /\ Expire(a).highestRcvd = a.highestRcvd /\ Expire(a).next = a.next
  BY Zenon DEF Expire, AEAD
<1> QED BY <1>1, <1>2 DEF Pair, Own, Known, UnderWay

\* The three ways a packet p is opened: with a key from before the update, with
\* the current key, with the next one.
Older(a, p) == p.key < a.keyPhase /\ open(a, p) \in [res : {"dropped", "failed", "ok"}, to : {a}]

Same(a, p) ==
  /\ p.key = a.keyPhase
  /\ open(a, p).res = "ok"
  /\ open(a, p).to \in AEAD
  /\ open(a, p).to.numRcvd # 0
  /\ \E t \in BOOLEAN :
       open(a, p).to = [a EXCEPT !.numRcvd = a.numRcvd + 1, !.timer = t,
                                 !.firstRcvd = IF a.firstRcvd = Invalid THEN p.pn ELSE a.firstRcvd]

Newer(a, b, p) ==
  /\ p.key = a.keyPhase + 1 /\ b.keyPhase = p.key
  /\ open(a, p).res = "ok"
  /\ open(a, p).to = [rollKeys(a) EXCEPT !.timer = TRUE, !.firstRcvd = p.pn]

\* A packet of the current phase always opens; one of the next phase opens and
\* rolls the keys, since its sender was allowed to update.
LEMMA OpenCases ==
  ASSUME NEW a \in AEAD, NEW b \in AEAD, Pair(a, b), Own(b), NEW p \in Packet, UnderWay(p, b, a)
  PROVE  Older(a, p) \/ Same(a, p) \/ Newer(a, b, p)
<1>0. /\ p.key \in Nat /\ p.pn \in Nat /\ a.keyPhase \in Nat /\ b.keyPhase \in Nat
      /\ p.key <= b.keyPhase /\ b.keyPhase <= a.keyPhase + 1
  BY Zenon DEF Packet, AEAD, UnderWay, Pair, Known
<1>1. CASE p.key < a.keyPhase
  <2>1. ~(p.key = a.keyPhase \/ p.key = a.keyPhase + 1)
    BY <1>0, <1>1
  <2> QED BY <1>1, <2>1, Zenon DEF open, Older
<1>2. CASE p.key = a.keyPhase
  <2>1. Bit(p.key) = Bit(a.keyPhase)
    BY <1>2, Zenon
  <2> DEFINE t == IF a.firstRcvd = Invalid /\ a.keyPhase > 0 THEN TRUE ELSE a.timer
             n == [a EXCEPT !.numRcvd = a.numRcvd + 1, !.timer = t,
                            !.firstRcvd = IF a.firstRcvd = Invalid THEN p.pn ELSE a.firstRcvd]
  <2>2. open(a, p) = [res |-> "ok", to |-> n]
    BY <1>2, <2>1, Zenon DEF open
  <2>0. a.timer \in BOOLEAN
    BY Zenon DEF AEAD
  <2>a. t \in BOOLEAN
    BY <2>0, Zenon
  <2> HIDE DEF t
  <2>3. p.pn \in PNs /\ a.numRcvd + 1 \in Nat /\ a.numRcvd + 1 # 0
    BY <1>0 DEF PNs, AEAD
  <2>4. n \in AEAD /\ n.numRcvd = a.numRcvd + 1
    BY <2>3, <2>a, Zenon DEF AEAD
  <2> HIDE DEF n
  <2>5. open(a, p).res = "ok" /\ open(a, p).to = n
    BY <2>2
  <2>6. open(a, p).to \in AEAD /\ open(a, p).to.numRcvd # 0
    BY <2>3, <2>4, <2>5, Zenon
  <2>7. \E u \in BOOLEAN : n = [a EXCEPT !.numRcvd = a.numRcvd + 1, !.timer = u,
                            !.firstRcvd = IF a.firstRcvd = Invalid THEN p.pn ELSE a.firstRcvd]
    BY <2>a, Zenon DEF n
  <2> QED BY <1>2, <2>5, <2>6, <2>7, Zenon DEF Same
<1>3. CASE p.key = a.keyPhase + 1
  <2>1. b.keyPhase = p.key /\ b.keyPhase > a.keyPhase
    BY <1>0, <1>3
  <2>2. Bit(p.key) # Bit(a.keyPhase)
    BY <1>0, <1>3 DEF Bit
  <2>3. b.firstSent # Invalid /\ p.pn >= b.firstSent
    BY <2>1, Zenon DEF UnderWay
  <2>4. a.keyPhase > 0 => a.firstSent # Invalid /\ a.firstRcvd # Invalid
    BY <2>1, Zenon DEF Pair, Known
  <2>5. a.highestRcvd < b.firstSent
    BY <2>1, <2>3 DEF Pair, Known, AEAD, PNs, Invalid
  <2>6. ~(p.pn < a.firstRcvd)
    BY <1>0, <2>3, <2>5 DEF Pair, Own, AEAD, PNs, Invalid
  <2>7. ~Reordered(a, p.pn)
    BY <2>4, <2>6, Zenon DEF Reordered
  <2> DEFINE n == [rollKeys(a) EXCEPT !.timer = TRUE, !.firstRcvd = p.pn]
  <2>8. ~(a.keyPhase > 0 /\ a.firstSent = Invalid)
    BY <2>4, Zenon
  <2>9. open(a, p) = [res |-> "ok", to |-> n]
    BY <1>3, <2>2, <2>7, <2>8, Zenon DEF open
  <2> HIDE DEF n
  <2>10. open(a, p).res = "ok" /\ open(a, p).to = n
    BY <2>9
  <2> QED BY <1>3, <2>1, <2>10, Zenon DEF n, Newer
<1>4. p.key < a.keyPhase \/ p.key = a.keyPhase \/ p.key = a.keyPhase + 1
  BY <1>0
<1> QED BY <1>1, <1>2, <1>3, <1>4, Zenon

\* What the opener remembers fits what the sender knows, whichever key fits.
LEMMA OpenRecord ==
  ASSUME NEW a \in AEAD, NEW b \in AEAD, Pair(a, b), Own(b), NEW p \in Packet, UnderWay(p, b, a)
  PROVE  /\ Open(a, p) \in AEAD /\ Pair(Open(a, p), b)
         /\ \A q \in Packet : /\ UnderWay(q, a, b) => UnderWay(q, Open(a, p), b)
                              /\ UnderWay(q, b, a) => UnderWay(q, b, Open(a, p))
         /\ open(a, p).res \in {"dropped", "failed", "ok"}
         /\ open(a, p).res # "ok" => p.key < a.keyPhase
         /\ open(a, p).res = "ok" => ~BadAck(Open(a, p), p.ack)
         /\ UnderWay(p, b, Open(a, p))
<1> DEFINE r == open(a, p)
           n == Open(a, p)
           H(x) == IF p.pn > x THEN p.pn ELSE x
<1>0. /\ p.pn \in Nat /\ p.pn \in PNs /\ Invalid \in PNs /\ p.key \in Nat
      /\ a.highestRcvd \in PNs /\ H(a.highestRcvd) \in PNs
  BY Zenon DEF Packet, PNs, AEAD
<1>1. CASE Older(a, p)
  <2>1. r.to = a /\ r.res \in {"dropped", "failed", "ok"}
    BY <1>1, Zenon DEF Older
  <2>2. n = a \/ n = [a EXCEPT !.highestRcvd = H(a.highestRcvd)]
    BY <2>1, Zenon DEF Open
  <2>3. n \in AEAD
    BY <1>0, <2>2, Zenon DEF AEAD
  <2>4. /\ n.keyPhase = a.keyPhase /\ n.prev = a.prev /\ n.firstRcvd = a.firstRcvd
        /\ n.firstSent = a.firstSent /\ n.largestAcked = a.largestAcked /\ n.next = a.next
        /\ n.highestRcvd \in {a.highestRcvd, H(a.highestRcvd)}
        /\ n.numRcvd = a.numRcvd
    BY <2>2, Zenon DEF AEAD
  <2> HIDE DEF n
  <2>5. Own(n) /\ Known(n, b) /\ Known(b, n)
    BY <1>0, <1>1, <2>3, <2>4 DEF Pair, Own, Known, UnderWay, AEAD, PNs, Invalid, Packet, Older
  <2>6. \A q \in Packet : /\ UnderWay(q, a, b) => UnderWay(q, n, b)
                          /\ UnderWay(q, b, a) => UnderWay(q, b, n)
    BY <1>0, <2>3, <2>4 DEF UnderWay, AEAD, PNs, Invalid, Packet
  <2>7. ~BadAck(n, p.ack)
    BY <1>1, <2>3, <2>4 DEF BadAck, UnderWay, AEAD, PNs, Invalid, Packet, Older
  <2> QED BY <1>1, <2>1, <2>3, <2>5, <2>6, <2>7, Zenon DEF Pair, n, Older
<1>2. CASE Same(a, p)
  <2>1. n = [r.to EXCEPT !.highestRcvd = H(r.to.highestRcvd)]
    BY <1>2, Zenon DEF Open, Same
  <2>2. /\ r.to.keyPhase = a.keyPhase /\ r.to.prev = a.prev
        /\ r.to.firstRcvd = (IF a.firstRcvd = Invalid THEN p.pn ELSE a.firstRcvd)
        /\ r.to.firstSent = a.firstSent /\ r.to.largestAcked = a.largestAcked /\ r.to.next = a.next
        /\ r.to.highestRcvd = a.highestRcvd
    BY <1>2, Zenon DEF AEAD, Same
  <2>3. n \in AEAD
    BY <1>0, <1>2, <2>1, <2>2, Zenon DEF AEAD, Same
  <2>4. /\ n.keyPhase = a.keyPhase /\ n.prev = a.prev
        /\ n.firstRcvd = (IF a.firstRcvd = Invalid THEN p.pn ELSE a.firstRcvd)
        /\ n.firstSent = a.firstSent /\ n.largestAcked = a.largestAcked /\ n.next = a.next
        /\ n.highestRcvd = H(a.highestRcvd) /\ n.numRcvd # 0
    BY <1>2, <2>1, <2>2, Zenon DEF AEAD, Same
  <2> HIDE DEF n
  <2>5. Own(n) /\ Known(n, b) /\ Known(b, n)
    BY <1>0, <1>2, <2>3, <2>4 DEF Pair, Own, Known, UnderWay, AEAD, PNs, Invalid, Packet, Same
  <2>6. \A q \in Packet : /\ UnderWay(q, a, b) => UnderWay(q, n, b)
                          /\ UnderWay(q, b, a) => UnderWay(q, b, n)
    BY <1>0, <2>3, <2>4 DEF UnderWay, AEAD, PNs, Invalid, Packet
  <2>7. ~BadAck(n, p.ack)
    BY <2>4, Zenon DEF BadAck
  <2> QED BY <1>2, <2>3, <2>5, <2>6, <2>7, Zenon DEF Pair, n, Same
<1>3. CASE Newer(a, b, p)
  <2>0. a.keyPhase \in PNs /\ a.keyPhase + 1 \in Nat
    BY DEF AEAD, PNs
  <2>a. rollKeys(a) \in AEAD
    BY <1>0, <2>0, Zenon DEF rollKeys, AEAD
  <2>b. r.to \in AEAD
    BY <1>0, <1>3, <2>a, Zenon DEF AEAD, Newer
  <2>1. n = [r.to EXCEPT !.highestRcvd = H(r.to.highestRcvd)]
    BY <1>3, Zenon DEF Open, Newer
  <2>c. /\ rollKeys(a).keyPhase = a.keyPhase + 1 /\ rollKeys(a).prev = a.keyPhase
        /\ rollKeys(a).firstSent = Invalid /\ rollKeys(a).largestAcked = a.largestAcked
        /\ rollKeys(a).next = a.next /\ rollKeys(a).highestRcvd = a.highestRcvd
    BY Zenon DEF rollKeys, AEAD
  <2>2. /\ r.to.keyPhase = a.keyPhase + 1 /\ r.to.prev = a.keyPhase /\ r.to.firstRcvd = p.pn
        /\ r.to.firstSent = Invalid /\ r.to.largestAcked = a.largestAcked /\ r.to.next = a.next
        /\ r.to.highestRcvd = a.highestRcvd
    BY <1>3, <2>a, <2>c, Zenon DEF AEAD, Newer
  <2>3. n \in AEAD
    BY <1>0, <2>b, <2>1, <2>2, Zenon DEF AEAD
  <2>4. /\ n.keyPhase = a.keyPhase + 1 /\ n.prev = a.keyPhase /\ n.firstRcvd = p.pn
        /\ n.firstSent = Invalid /\ n.largestAcked = a.largestAcked /\ n.next = a.next
        /\ n.highestRcvd = H(a.highestRcvd)
    BY <2>b, <2>1, <2>2, Zenon DEF AEAD
  <2> HIDE DEF n
  <2>5. Own(n) /\ Known(n, b) /\ Known(b, n)
    BY <1>0, <1>3, <2>3, <2>4 DEF Pair, Own, Known, UnderWay, AEAD, PNs, Invalid, Packet, Newer
  <2>6. \A q \in Packet : /\ UnderWay(q, a, b) => UnderWay(q, n, b)
                          /\ UnderWay(q, b, a) => UnderWay(q, b, n)
    BY <1>0, <2>3, <2>4 DEF UnderWay, AEAD, PNs, Invalid, Packet
  <2>7. ~BadAck(n, p.ack)
    BY <2>4, Zenon DEF BadAck
  <2> QED BY <1>3, <2>3, <2>5, <2>6, <2>7, Zenon DEF Pair, n, Newer
<1> QED BY <1>1, <1>2, <1>3, OpenCases, Zenon

\* An acknowledgement that is accepted is one for a packet the peer has opened.
LEMMA AckRecord ==
  ASSUME NEW a \in AEAD, NEW b \in AEAD, Pair(a, b), Own(b), NEW p \in Packet, UnderWay(p, b, a)
  PROVE  LET n == SetLargestAcked(a, p.ack)
         IN  /\ n \in AEAD /\ Pair(n, b)
             /\ \A q \in Packet : /\ UnderWay(q, a, b) => UnderWay(q, n, b)
                                  /\ UnderWay(q, b, a) => UnderWay(q, b, n)
<1> DEFINE n == SetLargestAcked(a, p.ack)
<1>0. p.ack \in PNs
  BY Zenon DEF Packet
<1>1. n \in AEAD
  BY <1>0, Zenon DEF SetLargestAcked, AEAD
<1>2. /\ n.keyPhase = a.keyPhase /\ n.prev = a.prev /\ n.firstRcvd = a.firstRcvd
      /\ n.firstSent = a.firstSent /\ n.highestRcvd = a.highestRcvd /\ n.next = a.next
      /\ n.largestAcked \in {a.largestAcked, p.ack}
  BY Zenon DEF SetLargestAcked, AEAD
<1> HIDE DEF n
<1>3. Own(n) /\ Known(n, b) /\ Known(b, n)
  BY <1>0, <1>1, <1>2 DEF Pair, Own, Known, UnderWay, AEAD, PNs, Invalid, Packet
<1>4. \A q \in Packet : /\ UnderWay(q, a, b) => UnderWay(q, n, b)
                        /\ UnderWay(q, b, a) => UnderWay(q, b, n)
  BY <1>1, <1>2, Zenon DEF UnderWay
<1> QED BY <1>1, <1>3, <1>4, Zenon DEF Pair, n

---------------------------------------------------------------------------
\* The invariant in terms of the two records: a step that changes end e to n
\* and its packets to P, and takes packets from those of the other end, keeps
\* it if n, the other end and the packets fit.
LEMMA Compose ==
  ASSUME KInv, NEW e \in Ends, NEW n \in AEAD, NEW P \in SUBSET Packet, NEW Q \in SUBSET pkts[Other(e)],
         Pair(n, aead[Other(e)]),
         \A q \in P : UnderWay(q, n, aead[Other(e)]),
         \A q \in Q : UnderWay(q, aead[Other(e)], n),
         aead' = [aead EXCEPT ![e] = n],
         pkts' = [pkts EXCEPT ![e] = P, ![Other(e)] = Q],
         err' \subseteq {"dropped", "failed"}
  PROVE  KInv'
<1>1. Other(e) \in Ends /\ Other(e) # e /\ Other(Other(e)) = e /\ \A d \in Ends : d = e \/ d = Other(e)
  BY Zenon DEF Ends, Other
<1>2. aead'[e] = n /\ aead'[Other(e)] = aead[Other(e)] /\ pkts'[e] = P /\ pkts'[Other(e)] = Q
  BY <1>1, Zenon DEF KInv, KTypeOK
<1>3. aead' \in [Ends -> AEAD]
  BY Zenon DEF KInv, KTypeOK
<1>4. pkts' \in [Ends -> SUBSET Packet]
  BY <1>1, Zenon DEF KInv, KTypeOK
<1>5. Own(n) /\ Known(n, aead[Other(e)]) /\ Known(aead[Other(e)], n) /\ Own(aead[Other(e)])
  BY <1>1, Zenon DEF Pair, KInv
<1>6. ASSUME NEW d \in Ends
      PROVE  /\ Own(aead'[d])
             /\ Known(aead'[d], aead'[Other(d)])
             /\ \A p \in pkts'[d] : UnderWay(p, aead'[d], aead'[Other(d)])
  <2>1. CASE d = e
    BY <1>1, <1>2, <1>5, <2>1, Zenon
  <2>2. CASE d = Other(e)
    BY <1>1, <1>2, <1>5, <2>2, Zenon
  <2> QED BY <1>1, <2>1, <2>2, Zenon
<1> QED BY <1>3, <1>4, <1>6, Zenon DEF KInv, KTypeOK

\* Fresh keys satisfy the invariant.
LEMMA KInitInv == KInit => KInv
<1> SUFFICES ASSUME KInit PROVE KInv
  OBVIOUS
<1>0. Invalid \in PNs /\ newUpdatableAEAD \in AEAD
  BY Zenon DEF PNs, AEAD, newUpdatableAEAD
<1>1. KTypeOK
  BY <1>0, Zenon DEF KInit, KTypeOK
<1>2. ASSUME NEW e \in Ends
      PROVE  aead[e] = newUpdatableAEAD /\ aead[Other(e)] = newUpdatableAEAD /\ pkts[e] = {}
  BY Zenon DEF KInit, Ends, Other
<1>3. Own(newUpdatableAEAD) /\ Known(newUpdatableAEAD, newUpdatableAEAD)
  BY DEF Own, Known, newUpdatableAEAD, Invalid
<1> QED BY <1>1, <1>2, <1>3, Zenon DEF KInv, KInit

\* Every step keeps it: one action of one end.
LEMMA KNextInv == KInv /\ [KNext]_kvars => KInv'
<1> SUFFICES ASSUME KInv, [KNext]_kvars PROVE KInv'
  OBVIOUS
<1>1. CASE UNCHANGED kvars
  BY <1>1, Zenon DEF kvars, KInv, KTypeOK
<1>2. ASSUME NEW e \in Ends, SealPacket(e) \/ Confirm(e) \/ \E p \in pkts[Other(e)] : OpenPacket(e, p)
      PROVE  KInv'
  <2>0. Other(e) \in Ends /\ Other(e) # e /\ Other(Other(e)) = e
    BY Zenon DEF Ends, Other
  <2>p. PICK a \in AEAD, b \in AEAD : a = aead[e] /\ b = aead[Other(e)]
    BY <2>0, Zenon DEF KInv, KTypeOK
  <2>1. /\ a \in AEAD /\ b \in AEAD /\ Pair(a, b) /\ Own(b)
        /\ pkts[e] \in SUBSET Packet /\ pkts[Other(e)] \in SUBSET Packet
        /\ \A q \in pkts[e] : UnderWay(q, a, b)
        /\ \A q \in pkts[Other(e)] : UnderWay(q, b, a)
    BY <2>0, <2>p, Zenon DEF KInv, KTypeOK, Pair
  <2>a. /\ \A q \in pkts[e] : q \in Packet /\ UnderWay(q, a, b)
        /\ \A q \in pkts[Other(e)] : q \in Packet /\ UnderWay(q, b, a)
    BY <2>1, Zenon
  <2>2. CASE SealPacket(e)
    <3>0. KeyPhase(a) \in AEAD
      BY <2>1, RollLocal, Zenon DEF KeyPhase, shouldInitiateKeyUpdate
    <3>p. PICK k \in AEAD : k = KeyPhase(a)
      BY <3>0, Zenon
    <3>1. /\ Pair(k, b)
          /\ \A q \in Packet : /\ UnderWay(q, a, b) => UnderWay(q, k, b)
                               /\ UnderWay(q, b, a) => UnderWay(q, b, k)
      <4>1. CASE shouldInitiateKeyUpdate(a)
        <5>1. k = rollKeys(a) /\ updateAllowed(a)
          BY <3>p, <4>1, Zenon DEF KeyPhase, shouldInitiateKeyUpdate
        <5>2. Pair(rollKeys(a), b)
          BY <2>1, <5>1, RollLocal, Zenon
        <5>3. \A q \in Packet : /\ UnderWay(q, a, b) => UnderWay(q, rollKeys(a), b)
                                /\ UnderWay(q, b, a) => UnderWay(q, b, rollKeys(a))
          BY <2>1, RollPackets, Zenon
        <5> QED BY <5>1, <5>2, <5>3, Zenon
      <4>2. CASE ~shouldInitiateKeyUpdate(a)
        BY <2>1, <3>p, <4>2, Zenon DEF KeyPhase
      <4> QED BY <4>1, <4>2, Zenon
    <3>2. PICK new \in Packet :
            /\ new = [pn |-> k.next, key |-> k.keyPhase, ack |-> k.highestRcvd]
            /\ aead' = [aead EXCEPT ![e] = Seal(k)] /\ pkts' = [pkts EXCEPT ![e] = pkts[e] \cup {new}] /\ err' = err
      <4>1. [pn |-> k.next, key |-> k.keyPhase, ack |-> k.highestRcvd] \in Packet
        BY Zenon DEF Packet, AEAD
      <4> QED BY <2>2, <2>p, <3>p, <4>1, Zenon DEF SealPacket
    <3>3. /\ Seal(k) \in AEAD /\ Pair(Seal(k), b) /\ UnderWay(new, Seal(k), b)
          /\ \A q \in Packet : /\ UnderWay(q, k, b) => UnderWay(q, Seal(k), b)
                               /\ UnderWay(q, b, k) => UnderWay(q, b, Seal(k))
      BY <2>1, <3>1, <3>2, SealRecord, Zenon
    <3>5. pkts' = [pkts EXCEPT ![e] = pkts[e] \cup {new}, ![Other(e)] = pkts[Other(e)]]
      BY <2>0, <3>2, Zenon DEF KInv, KTypeOK
    <3>6. err' \subseteq {"dropped", "failed"}
      BY <3>2, Zenon DEF KInv
    <3>7. pkts[e] \cup {new} \in SUBSET Packet
      BY <2>1, Zenon
    <3>8. \A q \in pkts[e] \cup {new} : UnderWay(q, Seal(k), b)
      BY <2>a, <3>1, <3>3, Zenon DEF UnderWay
    <3>9. \A q \in pkts[Other(e)] : UnderWay(q, b, Seal(k))
      BY <2>a, <3>1, <3>3, Zenon DEF UnderWay
    <3> QED BY <3>2, <3>3, <3>5, <3>6, <3>7, <3>8, <3>9, <2>p, Compose, Zenon
  <2>3. CASE Confirm(e)
    <3> DEFINE n == [a EXCEPT !.handshakeConfirmed = TRUE]
    <3>1. aead' = [aead EXCEPT ![e] = n] /\ pkts' = pkts /\ err' = err
      BY <2>3, <2>p, Zenon DEF Confirm
    <3>2. n \in AEAD
      BY <2>1, Zenon DEF AEAD
    <3>3. /\ n.keyPhase = a.keyPhase /\ n.prev = a.prev /\ n.firstRcvd = a.firstRcvd
          /\ n.firstSent = a.firstSent /\ n.highestRcvd = a.highestRcvd /\ n.next = a.next
          /\ n.largestAcked = a.largestAcked
      BY <2>1, Zenon DEF AEAD
    <3> HIDE DEF n
    <3>a. Pair(n, b)
      BY <2>1, <3>3, Zenon DEF Pair, Own, Known
    <3>b. \A q \in pkts[e] : UnderWay(q, n, b)
      BY <2>a, <3>3, Zenon DEF UnderWay
    <3>c. \A q \in pkts[Other(e)] : UnderWay(q, b, n)
      BY <2>a, <3>3, Zenon DEF UnderWay
    <3>4. Pair(n, b) /\ (\A q \in pkts[e] : UnderWay(q, n, b)) /\ \A q \in pkts[Other(e)] : UnderWay(q, b, n)
      BY <3>a, <3>b, <3>c, Zenon
    <3>5. pkts' = [pkts EXCEPT ![e] = pkts[e], ![Other(e)] = pkts[Other(e)]]
      BY <2>0, <3>1, Zenon DEF KInv, KTypeOK
    <3>6. err' \subseteq {"dropped", "failed"}
      BY <3>1, Zenon DEF KInv
    <3> QED BY <2>1, <3>1, <3>2, <3>4, <3>5, <3>6, <2>p, Compose, Zenon
  <2>4. ASSUME NEW p \in pkts[Other(e)], OpenPacket(e, p)
        PROVE  KInv'
    <3>1. PICK late \in BOOLEAN :
            LET old == IF late THEN Expire(a) ELSE a
                res == open(old, p).res
                new == Open(old, p)
                acked == res = "ok" /\ p.ack # Invalid
            IN  /\ pkts' = [pkts EXCEPT ![Other(e)] = pkts[Other(e)] \ {p}]
                /\ aead' = [aead EXCEPT ![e] = IF acked THEN SetLargestAcked(new, p.ack) ELSE new]
                /\ err' = err \cup (IF res = "ok" THEN {} ELSE {res})
                       \cup (IF acked /\ BadAck(new, p.ack) THEN {"badack"} ELSE {})
                       \cup (IF res \in {"failed", "dropped"} /\ p.key >= old.keyPhase THEN {"lost"} ELSE {})
      BY <2>4, <2>p, Zenon DEF OpenPacket
    <3>2. p \in Packet /\ UnderWay(p, b, a)
      BY <2>1, Zenon
    <3>3. PICK old \in AEAD :
            /\ old = IF late THEN Expire(a) ELSE a
            /\ Pair(old, b)
            /\ \A q \in Packet : /\ UnderWay(q, a, b) => UnderWay(q, old, b)
                                 /\ UnderWay(q, b, a) => UnderWay(q, b, old)
      BY <2>1, ExpireRecord, Zenon
    <3>a. UnderWay(p, b, old)
      BY <3>2, <3>3, Zenon DEF UnderWay
    <3>4. PICK mid \in AEAD :
            /\ mid = Open(old, p) /\ Pair(mid, b)
            /\ \A q \in Packet : /\ UnderWay(q, old, b) => UnderWay(q, mid, b)
                                 /\ UnderWay(q, b, old) => UnderWay(q, b, mid)
            /\ open(old, p).res \in {"dropped", "failed", "ok"}
            /\ open(old, p).res # "ok" => p.key < old.keyPhase
            /\ open(old, p).res = "ok" => ~BadAck(mid, p.ack)
            /\ UnderWay(p, b, mid)
      BY <2>1, <3>2, <3>3, <3>a, OpenRecord, Zenon
    <3>5. p.key < old.keyPhase => ~(p.key >= old.keyPhase)
      BY <3>2, <3>3 DEF Packet, AEAD
    <3> DEFINE res == open(old, p).res
               acked == res = "ok" /\ p.ack # Invalid
    <3>6. PICK new \in AEAD :
            /\ new = IF acked THEN SetLargestAcked(mid, p.ack) ELSE mid
            /\ Pair(new, b)
            /\ \A q \in Packet : /\ UnderWay(q, mid, b) => UnderWay(q, new, b)
                                 /\ UnderWay(q, b, mid) => UnderWay(q, b, new)
      BY <2>1, <3>2, <3>4, AckRecord, Zenon
    <3>7. /\ pkts' = [pkts EXCEPT ![Other(e)] = pkts[Other(e)] \ {p}]
          /\ aead' = [aead EXCEPT ![e] = new]
          /\ err' = err \cup (IF res = "ok" THEN {} ELSE {res})
                       \cup (IF acked /\ BadAck(mid, p.ack) THEN {"badack"} ELSE {})
                       \cup (IF res \in {"failed", "dropped"} /\ p.key >= old.keyPhase THEN {"lost"} ELSE {})
      BY <3>1, <3>3, <3>4, <3>6, Zenon
    <3>8. err' \subseteq {"dropped", "failed"}
      BY <3>4, <3>5, <3>7, Zenon DEF KInv
    <3>9. pkts' = [pkts EXCEPT ![e] = pkts[e], ![Other(e)] = pkts[Other(e)] \ {p}]
      BY <2>0, <3>7, Zenon DEF KInv, KTypeOK
    <3>10. \A q \in pkts[e] : UnderWay(q, new, b)
      BY <2>a, <3>3, <3>4, <3>6, Zenon
    <3>11. \A q \in pkts[Other(e)] \ {p} : UnderWay(q, b, new)
      BY <2>a, <3>3, <3>4, <3>6, Zenon
    <3>12. aead' = [aead EXCEPT ![e] = new] /\ Pair(new, b)
      BY <3>6, <3>7, Zenon
    <3>13. pkts[e] \in SUBSET Packet /\ pkts[Other(e)] \ {p} \in SUBSET pkts[Other(e)]
      BY <2>0, Zenon DEF KInv, KTypeOK
    <3> QED BY <2>p, <3>8, <3>9, <3>10, <3>11, <3>12, <3>13, Compose, Zenon
  <2> QED BY <1>2, <2>2, <2>3, <2>4, Zenon
<1> QED BY <1>1, <1>2, Zenon DEF KNext

\* The two ends of a connection stay within one key phase of each other, and
\* neither ever closes the connection with a KEY_UPDATE_ERROR: whatever the
\* update intervals, whatever packets are lost or reordered, and whenever the
\* previous keys expire.
THEOREM KeysTheorem == KSpec => []KeysInStep
<1>1. KInv => KeysInStep
  <2> SUFFICES ASSUME KInv PROVE KeysInStep
    OBVIOUS
  <2>1. "client" \in Ends /\ "server" \in Ends /\ Other("client") = "server" /\ Other("server") = "client"
    BY Zenon DEF Ends, Other
  <2>2. /\ aead["client"].keyPhase \in Nat /\ aead["server"].keyPhase \in Nat
        /\ aead["client"].keyPhase <= aead["server"].keyPhase + 1
        /\ aead["server"].keyPhase <= aead["client"].keyPhase + 1
    BY <2>1, Zenon DEF KInv, KTypeOK, AEAD, Known
  <2> QED BY <2>2 DEF KeysInStep, KInv
<1> QED BY KInitInv, KNextInv, <1>1, PTL DEF KSpec

---------------------------------------------------------------------------
(* DecodedAsSent holds for windows of any size.                            *)

PacketType ==
  [pn : Nat, length : Lengths, wire : Nat]

\* What is in flight is written modulo its window, and was sent when the
\* receiver had every number that was acknowledged to the sender then, so it
\* lies less than half a window above what the receiver expects.
NInv ==
  /\ next \in Nat
  /\ largestAcked \in Nat \cup {-1}
  /\ largest \in Nat \cup {-1}
  /\ largestAcked <= largest
  /\ largest < next
  /\ inFlight \subseteq PacketType
  /\ \A p \in inFlight :
       /\ p.wire = p.pn % Window(p.length)
       /\ p.pn < next
       /\ p.pn + Window(p.length) < MaxPacketNumber
       /\ p.pn <= largest + HalfWindow(p.length)
  /\ DecodedAsSent

\* Division with remainder, which DecodePacketNumber and truncation rest on.
LEMMA DivMod ==
  ASSUME NEW a \in Nat, NEW w \in Nat \ {0}
  PROVE  /\ a % w \in 0..w-1
         /\ a % w \in Nat
         /\ a \div w \in Nat
         /\ a = w * (a \div w) + (a % w)
  BY SMT

\* Two numbers less than half a window apart lie in the same window or in
\* neighbouring ones: DecodePacketNumber has three candidates.
LEMMA Neighbours ==
  ASSUME NEW h \in Nat \ {0}, NEW w \in Nat \ {0}, w = 2 * h,
         NEW k \in Nat, NEW q \in Nat, NEW r \in 0..w-1, NEW t \in 0..w-1,
         w * q + r - h < w * k + t, w * k + t <= w * q + r + h
  PROVE  k = q \/ k = q + 1 \/ k = q - 1
<1>1. CASE k >= q + 2
  <2>1. w * k >= w * (q + 2)  BY <1>1
  <2>2. w * (q + 2) = w * q + 2 * w  OBVIOUS
  <2> QED  BY <2>1, <2>2
<1>2. CASE q >= k + 2
  <2>1. w * q >= w * (k + 2)  BY <1>2
  <2>2. w * (k + 2) = w * k + 2 * w  OBVIOUS
  <2> QED  BY <2>1, <2>2
<1> QED  BY <1>1, <1>2

\* DecodePacketNumber restores every number that lies within half a window
\* of the number expected, the upper end included.
LEMMA DecodeInverts ==
  ASSUME NEW l \in Lengths, NEW lrg \in Nat \cup {-1}, NEW pn \in Nat,
         lrg + 1 - HalfWindow(l) < pn, pn <= lrg + 1 + HalfWindow(l),
         pn + Window(l) < MaxPacketNumber
  PROVE  DecodePacketNumber(l, lrg, pn % Window(l)) = pn
<1> DEFINE h == HalfWindow(l)
           w == Window(l)
           e == lrg + 1
           q == e \div w
           r == e % w
           k == pn \div w
           t == pn % w
           c == (e - r) + t
<1>1. h \in Nat \ {0} /\ MaxPacketNumber \in Nat  BY WindowAssumption, Zenon
<1>2. w = 2 * h /\ w \in Nat \ {0}  BY <1>1 DEF Window
<1>3. e \in Nat  OBVIOUS
<1>6. e - h < pn /\ pn <= e + h /\ pn + w < MaxPacketNumber
  <2>1. e - h < pn  BY <1>1
  <2>2. pn <= e + h  OBVIOUS
  <2>3. pn + w < MaxPacketNumber  OBVIOUS
  <2> QED  BY <2>1, <2>2, <2>3, Zenon
<1> HIDE DEF h, w, e
<1>4. r \in 0..w-1 /\ q \in Nat /\ e = w * q + r  BY <1>2, <1>3, DivMod, Zenon
<1>5. t \in 0..w-1 /\ k \in Nat /\ pn = w * k + t  BY <1>2, DivMod, Zenon
<1> HIDE DEF q, r, k, t
<1>7. k = q \/ k = q + 1 \/ k = q - 1  BY <1>1, <1>2, <1>4, <1>5, <1>6, Neighbours
<1>8. w * q \in Nat /\ w * k \in Nat  BY <1>2, <1>4, <1>5
<1>9. c = w * q + t  BY <1>4, <1>5, <1>8 DEF c
<1> DEFINE d == IF c <= e - h /\ c < MaxPacketNumber - w THEN c + w
                ELSE IF c > e + h /\ c >= w THEN c - w ELSE c
<1>10. d = pn
  <2>1. CASE k = q
    <3>1. c = pn  BY <1>5, <1>9, <2>1, Zenon
    <3> QED  BY <3>1, <1>1, <1>2, <1>3, <1>6
  <2>2. CASE k = q + 1
    <3>1. w * k = w * q + w  BY <1>2, <1>4, <2>2
    <3>2. c = pn - w  BY <3>1, <1>2, <1>5, <1>8, <1>9
    <3> QED  BY <3>2, <1>1, <1>2, <1>3, <1>6
  <2>3. CASE k = q - 1
    <3>1. w * k = w * q - w  BY <1>2, <1>4, <2>3
    <3>2. c = pn + w  BY <3>1, <1>2, <1>5, <1>8, <1>9
    <3> QED  BY <3>2, <1>1, <1>2, <1>3, <1>6
  <2> QED  BY <1>7, <2>1, <2>2, <2>3, Zenon
<1>11. DecodePacketNumber(l, lrg, pn % Window(l)) = d
  BY Zenon DEF DecodePacketNumber, d, c, e, h, w, r, t
<1> QED  BY <1>10, <1>11, Zenon

\* PacketNumberLengthForHeader leaves a packet less than half a window above
\* the largest acknowledged number, as long as 4 bytes do.
LEMMA LengthCovers ==
  ASSUME NEW pn \in Nat, NEW acked \in Nat \cup {-1}, acked < pn,
         pn - acked < HalfWindow(4)
  PROVE  LET l == PacketNumberLengthForHeader(pn, acked)
         IN l \in Lengths /\ pn - acked < HalfWindow(l)
BY WindowAssumption DEF PacketNumberLengthForHeader, Lengths

\* Every packet that arrives is decoded to the number it was sent with, for
\* windows of every size.
THEOREM DecodeTheorem == NSpec => []DecodedAsSent
<1>1. NInit => NInv
  BY DEF NInit, NInv, DecodedAsSent, PacketType
<1>2. NInv /\ [NNext]_nvars => NInv'
  <2> SUFFICES ASSUME NInv, [NNext]_nvars PROVE NInv'  OBVIOUS
  <2>0. /\ next \in Nat /\ largestAcked \in Nat \cup {-1} /\ largest \in Nat \cup {-1}
        /\ largestAcked <= largest /\ largest < next
    BY Zenon DEF NInv
  <2>1. CASE Send
    <3> DEFINE l == PacketNumberLengthForHeader(next, largestAcked)
               p == [pn |-> next, length |-> l, wire |-> next % Window(l)]
    <3>1. inFlight' = inFlight \cup {p}  BY <2>1, Zenon DEF Send
    <3>2. /\ next' = next + 1 /\ largestAcked' = largestAcked /\ largest' = largest
          /\ decoded' = decoded /\ next + Window(4) < MaxPacketNumber
          /\ next - largestAcked < HalfWindow(4)
      BY <2>1, Zenon DEF Send
    <3>3. l \in Lengths /\ next - largestAcked < HalfWindow(l)  BY <2>0, <3>2, LengthCovers
    <3> HIDE DEF l
    <3>4. HalfWindow(l) \in Nat \ {0} /\ HalfWindow(l) <= HalfWindow(4) /\ HalfWindow(4) \in Nat \ {0}
      BY <3>3, WindowAssumption, Zenon DEF Lengths
    <3>5. Window(l) \in Nat \ {0} /\ next + Window(l) < MaxPacketNumber
      BY <2>0, <3>2, <3>4, WindowAssumption DEF Window
    <3>6. next % Window(l) \in Nat  BY <2>0, <3>5, DivMod, Zenon
    <3>7. p \in PacketType  BY <2>0, <3>3, <3>6, Zenon DEF PacketType
    <3>8. p.pn <= largest + HalfWindow(p.length)  BY <2>0, <3>3, <3>4
    <3>9. \A o \in inFlight' :
            /\ o.wire = o.pn % Window(o.length)
            /\ o.pn < next'
            /\ o.pn + Window(o.length) < MaxPacketNumber
            /\ o.pn <= largest' + HalfWindow(o.length)
      <4> TAKE o \in inFlight'
      <4>1. CASE o = p  BY <4>1, <2>0, <3>2, <3>5, <3>8
      <4>2. CASE o \in inFlight
        <5>1. o.pn \in Nat  BY <4>2, Zenon DEF NInv, PacketType
        <5> QED  BY <4>2, <5>1, <2>0, <3>2 DEF NInv
      <4> QED  BY <3>1, <4>1, <4>2, Zenon
    <3>10. next + 1 \in Nat /\ largest < next + 1  BY <2>0
    <3>11. inFlight' \subseteq PacketType  BY <3>1, <3>7, Zenon DEF NInv
    <3>12. DecodedAsSent'  BY <3>2, Zenon DEF NInv, DecodedAsSent
    <3> HIDE DEF p
    <3> QED  BY <2>0, <3>2, <3>9, <3>10, <3>11, <3>12, Zenon DEF NInv
  <2>2. CASE Receive
    <3>1. PICK p \in inFlight :
            /\ largest + 1 - HalfWindow(p.length) < p.pn
            /\ decoded' = [sent |-> p.pn, got |-> DecodePacketNumber(p.length, largest, p.wire)]
            /\ largest' = IF DecodePacketNumber(p.length, largest, p.wire) > largest
                          THEN DecodePacketNumber(p.length, largest, p.wire) ELSE largest
            /\ inFlight' = inFlight \ {p}
            /\ UNCHANGED <<next, largestAcked>>
      BY <2>2, Zenon DEF Receive
    <3>2. p.pn \in Nat /\ p.length \in Lengths  BY Zenon DEF NInv, PacketType
    <3>3. /\ p.wire = p.pn % Window(p.length) /\ p.pn < next
          /\ p.pn + Window(p.length) < MaxPacketNumber /\ p.pn <= largest + HalfWindow(p.length)
      BY Zenon DEF NInv
    <3>4. HalfWindow(p.length) \in Nat  BY <3>2, WindowAssumption, Zenon
    <3>5. p.pn <= largest + 1 + HalfWindow(p.length)  BY <2>0, <3>2, <3>3, <3>4
    <3>6. DecodePacketNumber(p.length, largest, p.wire) = p.pn
      BY <2>0, <3>1, <3>2, <3>3, <3>5, DecodeInverts, Zenon
    <3>7. decoded'.got = decoded'.sent  BY <3>1, <3>6, Zenon
    <3>8. /\ largest' \in Nat \cup {-1} /\ largest <= largest' /\ largest' < next
          /\ largestAcked <= largest'
      <4>1. largest' = IF p.pn > largest THEN p.pn ELSE largest  BY <3>1, <3>6, Zenon
      <4>2. p.pn \in Nat /\ p.pn < next  BY <3>2, <3>3, Zenon
      <4> QED  BY <2>0, <4>1, <4>2
    <3>9. \A o \in inFlight' :
            /\ o.wire = o.pn % Window(o.length)
            /\ o.pn < next'
            /\ o.pn + Window(o.length) < MaxPacketNumber
            /\ o.pn <= largest' + HalfWindow(o.length)
      <4> TAKE o \in inFlight'
      <4>1. o \in inFlight  BY <3>1, Zenon
      <4>2. o.pn \in Nat /\ o.length \in Lengths  BY <4>1, Zenon DEF NInv, PacketType
      <4>3. HalfWindow(o.length) \in Nat  BY <4>2, WindowAssumption, Zenon
      <4>4. o.pn <= largest + HalfWindow(o.length)  BY <4>1, Zenon DEF NInv
      <4>5. o.pn <= largest' + HalfWindow(o.length)  BY <2>0, <3>8, <4>2, <4>3, <4>4
      <4> QED  BY <3>1, <4>1, <4>5, Zenon DEF NInv
    <3>10. inFlight' \subseteq PacketType  BY <3>1, Zenon DEF NInv
    <3>11. next' = next /\ largestAcked' = largestAcked  BY <3>1, Zenon
    <3>12. DecodedAsSent'  BY <3>7, Zenon DEF DecodedAsSent
    <3> QED  BY <2>0, <3>8, <3>9, <3>10, <3>11, <3>12, Zenon DEF NInv
  <2>3. CASE Drop  BY <2>3, Zenon DEF Drop, NInv, DecodedAsSent
  <2>4. CASE Acked
    <3>1. PICK a \in largestAcked + 1 .. largest :
            largestAcked' = a /\ UNCHANGED <<next, inFlight, largest, decoded>>
      BY <2>4, Zenon DEF Acked
    <3>2. a \in Nat /\ a <= largest  BY <2>0, <3>1
    <3> QED  BY <2>0, <3>1, <3>2, Zenon DEF NInv, DecodedAsSent
  <2>5. CASE UNCHANGED nvars  BY <2>5, Zenon DEF nvars, NInv, DecodedAsSent
  <2> QED  BY <2>1, <2>2, <2>3, <2>4, <2>5, Zenon DEF NNext
<1>3. NInv => DecodedAsSent  BY Zenon DEF NInv
<1> QED  BY <1>1, <1>2, <1>3, PTL DEF NSpec
=============================================================================
