--------------------------- MODULE EcnValidation ---------------------------
(***************************************************************************)
(* One direction of a connection seen from both ends: a sender that marks  *)
(* its packets ECT(0) and validates the path (internal/ackhandler/ecn.go,  *)
(* the ECN part of ReceivedAck), and a receiver that records packets and   *)
(* answers with ACK frames (received_packet_history.go,                    *)
(* received_packet_tracker.go, received_packet_handler.go).  The network   *)
(* loses, reorders and duplicates packets and ACKs; the path keeps the     *)
(* marks (sometimes turning one into CE), bleaches them, or mangles all of *)
(* them to CE.  Only ECT(0) is ever sent, so the ECT(1) counters, always   *)
(* zero, are left out.                                                     *)
(*                                                                         *)
(* Each operator takes a Go struct as a record and returns the changed     *)
(* one.  The ACK alarm is a flag: when it expires is the caller's choice.  *)
(***************************************************************************)
EXTENDS Integers, Sequences, FiniteSets, SequencesExt, FiniteSetsExt

CONSTANTS MaxNumAckRanges,       \* protocol.MaxNumAckRanges
          packetsBeforeAck,      \* ack-eliciting packets before an ACK is queued
          numECNTestingPackets,  \* packets sent while ECN is being tested
          NumPackets,            \* packets the sender sends
          Num0RTT,               \* how many of them are 0-RTT
          NonEliciting,          \* those that only carry an ACK
          MaxTroubles,           \* losses, duplicates and CE marks together (honest path)
          Unmarked               \* may 1-RTT packets go out with ECNNon?

VARIABLES e,        \* the sender's ecnTracker
          out,      \* packets the sender has outstanding
          next,     \* its next packet number
          largest,  \* its largestAcked
          ackSeen,  \* largest packet of an ACK frame it has yet to acknowledge
          r,        \* the receiver's ReceivedPacketHandler
          got,      \* packets the receiver has processed (a bag: pn -> times)
          owed,     \* ack-eliciting ones among them not yet in an ACK frame
          forgot,   \* has a range been discarded for being one too many?
          net,      \* packets on their way
          acks,     \* ACK frames on their way
          path,     \* what the path does to ECN marks
          space,    \* the packet number space: "handshake" or "app"
          troubles  \* what is left of MaxTroubles

evars == <<e, out, next, largest, ackSeen, r, got, owed, forgot, net, acks,
           path, space, troubles>>

InvalidPacketNumber == -1
reorderingThreshold == 1

---------------------------------------------------------------------------
(* receivedPacketHistory: h.ranges is a sequence of intervals, lowest first. *)

Interval(a, b) == [Start |-> a, End |-> b]
Covered(rs) == UNION {rs[i].Start .. rs[i].End : i \in DOMAIN rs}

\* The loop runs down from the highest range and stops at the first one that
\* contains p, touches it, or lies below it.
addToRanges(rs, p) ==
  LET hits == {i \in DOMAIN rs : p >= rs[i].Start - 1}
      i == IF hits = {} THEN 0 ELSE Max(hits)
  IN IF i = 0 THEN <<Interval(p, p)>> \o rs
     ELSE IF p \in rs[i].Start .. rs[i].End THEN rs
     ELSE IF rs[i].End = p - 1 THEN [rs EXCEPT ![i].End = p]
     ELSE IF rs[i].Start = p + 1
          THEN IF i > 1 /\ rs[i - 1].End + 1 = p
               THEN RemoveAt([rs EXCEPT ![i - 1].End = rs[i].End], i)
               ELSE [rs EXCEPT ![i].Start = p]
     ELSE InsertAt(rs, i + 1, Interval(p, p))

IsNew(h, p) == p >= h.deletedBelow /\ p \notin Covered(h.ranges)

Truncates(h, p) ==
  p >= h.deletedBelow /\ Len(addToRanges(h.ranges, p)) > MaxNumAckRanges

HistoryReceived(h, p) ==
  LET rs == addToRanges(h.ranges, p)
  IN IF p < h.deletedBelow THEN h
     ELSE [h EXCEPT !.ranges = IF Len(rs) > MaxNumAckRanges
                               THEN SubSeq(rs, Len(rs) - MaxNumAckRanges + 1, Len(rs))
                               ELSE rs]

\* MUTANT: the range in which the cut falls is dropped instead of shortened.
DeleteBelow_bug(h, p) ==
  IF p < h.deletedBelow THEN h
  ELSE [h EXCEPT !.deletedBelow = p,
                 !.ranges = SelectSeq(h.ranges, LAMBDA i : i.Start >= p)]

DeleteBelow(h, p) ==
  LET kept == SelectSeq(h.ranges, LAMBDA i : i.End >= p)
  IN IF p < h.deletedBelow THEN h
     ELSE [h EXCEPT !.deletedBelow = p,
                    !.ranges = IF kept # <<>> /\ kept[1].Start < p
                               THEN [kept EXCEPT ![1].Start = p] ELSE kept]

HighestMissingUpTo(h, q) ==
  LET rs == h.ranges
      p == IF rs = <<>> THEN q ELSE Min({Last(rs).End, q})
      in == {i \in DOMAIN rs : p \in rs[i].Start .. rs[i].End}
      highest == IF in = {} THEN p ELSE rs[CHOOSE i \in in : TRUE].Start - 1
  IN IF rs = <<>> \/ q < h.deletedBelow \/ (in # {} /\ highest < h.deletedBelow)
     THEN InvalidPacketNumber ELSE highest

IsPotentiallyDuplicate(h, p) == p < h.deletedBelow \/ p \in Covered(h.ranges)

---------------------------------------------------------------------------
(* receivedPacketTracker (Initial, Handshake) and its 1-RTT extension.     *)

NoAck == [pns |-> {InvalidPacketNumber}, ect0 |-> 0, ecnce |-> 0]

newReceivedPacketTracker ==
  [ranges |-> <<>>, deletedBelow |-> InvalidPacketNumber, ect0 |-> 0, ecnce |-> 0,
   lastAck |-> NoAck, hasNewAck |-> FALSE,
   largestObserved |-> 0, ignoreBelow |-> 0, ackQueued |-> FALSE,
   sinceLastAck |-> 0, ackAlarm |-> FALSE]

TrackerReceived(t, pn, ecn, ackEliciting) ==
  [HistoryReceived(t, pn) EXCEPT !.ect0 = @ + (IF ecn = "ect0" THEN 1 ELSE 0),
                                 !.ecnce = @ + (IF ecn = "ce" THEN 1 ELSE 0),
                                 !.hasNewAck = @ \/ ackEliciting]

\* GetAckFrame of the Initial and Handshake trackers: <<tracker, frame>>.
TrackerAck(t) ==
  LET ack == [pns |-> Covered(t.ranges), ect0 |-> t.ect0, ecnce |-> t.ecnce]
  IN IF ~t.hasNewAck THEN <<t, NoAck>>
     ELSE <<[t EXCEPT !.lastAck = ack, !.hasNewAck = FALSE], ack>>

isMissing(t, p) ==
  /\ t.lastAck # NoAck
  /\ p >= t.ignoreBelow
  /\ p < Max(t.lastAck.pns) /\ p \notin t.lastAck.pns

hasNewMissingPackets(t) ==
  LET highestMissing == HighestMissingUpTo(t, t.largestObserved - reorderingThreshold)
  IN /\ t.lastAck # NoAck
     /\ t.largestObserved >= reorderingThreshold
     /\ highestMissing # InvalidPacketNumber
     /\ highestMissing >= Max(t.lastAck.pns)
     /\ highestMissing > Max(t.lastAck.pns) - reorderingThreshold

shouldQueueACK(t, ecn, wasMissing) ==
  \/ wasMissing
  \/ t.sinceLastAck >= packetsBeforeAck
  \/ hasNewMissingPackets(t)
  \/ ecn = "ce"

\* MUTANT: the alarm is only started for the first packet after an ACK.
AppReceived_bug(t, pn, ecn, ackEliciting) ==
  LET t1 == TrackerReceived(t, pn, ecn, ackEliciting)
      t2 == [t1 EXCEPT !.largestObserved = Max({@, pn})]
      t3 == [t2 EXCEPT !.sinceLastAck = @ + 1]
      queue == ~t3.ackQueued /\ shouldQueueACK(t3, ecn, isMissing(t3, pn))
  IN IF ~ackEliciting THEN t2
     ELSE IF queue THEN [t3 EXCEPT !.ackQueued = TRUE, !.ackAlarm = FALSE]
     ELSE [t3 EXCEPT !.ackAlarm = @ \/ (~t3.ackQueued /\ t3.lastAck = NoAck)]

AppReceived(t, pn, ecn, ackEliciting) ==
  LET t1 == TrackerReceived(t, pn, ecn, ackEliciting)
      t2 == [t1 EXCEPT !.largestObserved = Max({@, pn})]
      t3 == [t2 EXCEPT !.sinceLastAck = @ + 1]
      queue == ~t3.ackQueued /\ shouldQueueACK(t3, ecn, isMissing(t3, pn))
  IN IF ~ackEliciting THEN t2
     ELSE IF queue THEN [t3 EXCEPT !.ackQueued = TRUE, !.ackAlarm = FALSE]
     ELSE [t3 EXCEPT !.ackAlarm = @ \/ ~t3.ackQueued]

IgnoreBelow(t, pn) ==
  IF pn <= t.ignoreBelow THEN t
  ELSE [DeleteBelow(t, pn) EXCEPT !.ignoreBelow = pn]

AppAck(t, onlyIfQueued, expired) ==
  LET a == TrackerAck(t)
  IN IF (onlyIfQueued /\ ~t.ackQueued /\ ~(t.ackAlarm /\ expired)) \/ ~t.hasNewAck
     THEN <<t, NoAck>>
     ELSE <<[a[1] EXCEPT !.ackQueued = FALSE, !.ackAlarm = FALSE, !.sinceLastAck = 0],
            a[2]>>

---------------------------------------------------------------------------
(* ReceivedPacketHandler: one tracker per space; NoTracker once dropped.   *)

NoTracker == [ranges |-> <<>>]

NewReceivedPacketHandler ==
  [handshake |-> newReceivedPacketTracker, app |-> newReceivedPacketTracker,
   lowest1RTTPacket |-> InvalidPacketNumber, err |-> "none"]

SpaceFor(lvl) == IF lvl = "handshake" THEN "handshake" ELSE "app"

ReceivedPacket(h, pn, ecn, lvl, ackEliciting) ==
  LET lowest == IF /\ lvl = "1rtt"
                   /\ h.lowest1RTTPacket = InvalidPacketNumber \/ pn < h.lowest1RTTPacket
                THEN pn ELSE h.lowest1RTTPacket
      t == h[SpaceFor(lvl)]
  IN IF lvl = "handshake" /\ t = NoTracker THEN h
     ELSE IF /\ lvl = "0rtt"
             /\ h.lowest1RTTPacket # InvalidPacketNumber /\ pn > h.lowest1RTTPacket
     THEN [h EXCEPT !.err = "0-RTT after 1-RTT"]
     ELSE IF ~IsNew(t, pn)
     THEN [h EXCEPT !.lowest1RTTPacket = lowest, !.err = "old or duplicate packet"]
     ELSE IF lvl = "handshake"
     THEN [h EXCEPT !.handshake = TrackerReceived(t, pn, ecn, ackEliciting)]
     ELSE [h EXCEPT !.lowest1RTTPacket = lowest,
                    !.app = AppReceived(t, pn, ecn, ackEliciting)]

DropHandshake(h) == [h EXCEPT !.handshake = NoTracker]

---------------------------------------------------------------------------
(* ecnTracker                                                              *)

newECNTracker ==
  [state |-> "initial", numSentTesting |-> 0, numLostTesting |-> 0,
   firstTestingPacket |-> InvalidPacketNumber, lastTestingPacket |-> InvalidPacketNumber,
   firstCapablePacket |-> InvalidPacketNumber,
   numSentECT0 |-> 0, numAckedECT0 |-> 0, numAckedECNCE |-> 0, trigger |-> "none",
   congested |-> FALSE]

ModeState(t) == IF t.state = "initial" THEN [t EXCEPT !.state = "testing"] ELSE t

Mode(t) == IF t.state \in {"initial", "testing", "capable"} THEN "ect0" ELSE "non"

EcnSentPacket(t, pn, ecn) ==
  LET t1 == [t EXCEPT !.numSentECT0 = @ + 1,
                      !.firstCapablePacket =
                         IF t.state = "capable" /\ @ = InvalidPacketNumber THEN pn ELSE @]
      t2 == [t1 EXCEPT !.numSentTesting = @ + 1,
                       !.firstTestingPacket = IF @ = InvalidPacketNumber THEN pn ELSE @]
  IN IF ecn = "non" THEN t
     ELSE IF t.state # "testing" THEN t1
     ELSE IF t2.numSentECT0 >= numECNTestingPackets
          THEN [t2 EXCEPT !.state = "unknown", !.lastTestingPacket = pn]
     ELSE t2

isTestingPacket(t, pn) ==
  /\ t.firstTestingPacket # InvalidPacketNumber
  /\ pn >= t.firstTestingPacket
  /\ t.lastTestingPacket = InvalidPacketNumber \/ pn <= t.lastTestingPacket

\* MUTANT: packets sent before ECN was tested are taken to be marked.
ecnMarking_bug(t, pn) ==
  IF t.firstTestingPacket = InvalidPacketNumber THEN "non" ELSE "ect0"

ecnMarking(t, pn) ==
  IF pn < t.firstTestingPacket \/ t.firstTestingPacket = InvalidPacketNumber THEN "non"
  ELSE IF pn < t.lastTestingPacket \/ t.lastTestingPacket = InvalidPacketNumber THEN "ect0"
  ELSE IF pn < t.firstCapablePacket \/ t.firstCapablePacket = InvalidPacketNumber THEN "non"
  ELSE "ect0"

Fail(t, why) == [t EXCEPT !.state = "failed", !.trigger = why]

failIfMangled(t) ==
  IF t.numSentECT0 > t.numAckedECNCE + t.numLostTesting THEN t
  ELSE Fail(t, "mangling detected")

EcnLostPacket(t, pn) ==
  LET t1 == [t EXCEPT !.numLostTesting = @ + 1]
  IN IF t.state \notin {"testing", "unknown"} \/ ~isTestingPacket(t, pn) THEN t
     ELSE IF t.state # "unknown" THEN t1
     ELSE IF t1.numLostTesting >= t1.numSentTesting
          THEN Fail(t1, "all testing packets lost")
     ELSE failIfMangled(t1)

HandleNewlyAcked(t, pns, ect0, ecnce) ==
  LET ackedECT0 == Cardinality({p \in pns : ecnMarking(t, p) = "ect0"})
      newECT0 == ect0 - t.numAckedECT0
      newECNCE == ecnce - t.numAckedECNCE
      t1 == [t EXCEPT !.numAckedECT0 = ect0, !.numAckedECNCE = ecnce]
      t2 == IF t1.state = "unknown" THEN failIfMangled(t1) ELSE t1
      confirmed == /\ t2.state \in {"testing", "unknown"}
                   /\ \E p \in pns : isTestingPacket(t2, p)
                   /\ newECT0 > 0
      t3 == IF confirmed THEN [t2 EXCEPT !.state = "capable"] ELSE t2
  IN IF t.state = "failed" THEN t
     ELSE IF ect0 > t.numSentECT0 THEN Fail(t, "more counts than sent")
     ELSE IF ackedECT0 > 0 /\ ect0 = 0 /\ ecnce = 0 THEN Fail(t, "no counts")
     ELSE IF newECT0 < 0 \/ newECNCE < 0 THEN Fail(t, "decreased")
     ELSE IF newECT0 + newECNCE < ackedECT0 THEN Fail(t, "too few counts")
     ELSE [t3 EXCEPT !.congested = @ \/ (t3.state = "capable" /\ newECNCE > 0)]

---------------------------------------------------------------------------
EInit ==
  /\ path \in {"honest", "bleach", "mangle"} /\ space \in {"handshake", "app"}
  /\ space = "handshake" => path = "honest"
  /\ e = newECNTracker /\ out = {} /\ next = 0 /\ largest = -1 /\ ackSeen = -1
  /\ r = NewReceivedPacketHandler
  /\ got = [p \in 0 .. NumPackets - 1 |-> 0] /\ owed = {} /\ forgot = FALSE
  /\ net = {} /\ acks = {}
  /\ troubles = IF path = "honest" THEN MaxTroubles ELSE 0

Level(pn) == IF space = "handshake" THEN "handshake"
             ELSE IF pn < Num0RTT THEN "0rtt" ELSE "1rtt"

\* SentPacket of the sent packet handler: only 1-RTT packets that are not path
\* probes are registered with the ECN tracker.  ECNMode hands out ECNNon to a
\* 1-RTT packet coalesced with a long header packet, and a path probe is
\* always sent with ECNNon.
Send ==
  /\ next < NumPackets
  /\ \E unmarked \in {FALSE, Unmarked} :
       LET elicits == next \notin NonEliciting
           asks == Level(next) = "1rtt" /\ ~unmarked
           ecn == IF asks THEN Mode(e) ELSE "non"
       IN /\ e' = IF asks THEN EcnSentPacket(ModeState(e), next, ecn) ELSE e
          /\ net' = net \cup {[pn |-> next, ecn |-> ecn, elicits |-> elicits,
                               acks |-> IF Level(next) = "1rtt" THEN ackSeen ELSE -1]}
          /\ ackSeen' = IF Level(next) = "1rtt" THEN -1 ELSE ackSeen
  /\ out' = out \cup {next} /\ next' = next + 1
  /\ UNCHANGED <<largest, r, got, owed, forgot, acks, path, space, troubles>>

Spend(n) == n <= troubles /\ troubles' = troubles - n

\* What arrives of a mark, and what it costs.
Marks(ecn) ==
  CASE ecn = "non" -> {<<"non", 0>>}
    [] path = "honest" -> {<<ecn, 0>>, <<"ce", 1>>}
    [] path = "bleach" -> {<<"non", 0>>}
    [] path = "mangle" -> {<<"ce", 0>>}

\* MUTANT: a packet is not looked up in the history before it is processed.
Fresh_bug(h, p) == TRUE

Fresh(h, p) == ~IsPotentiallyDuplicate(h[space], p.pn)

\* The frames of a packet are handled before the packet is registered: an ACK
\* frame moves the ignore limit, and the last CRYPTO frame of the handshake
\* drops its packet number space.
Process(h, p, ecn) ==
  LET h1 == IF p.acks < 0 THEN h ELSE [h EXCEPT !.app = IgnoreBelow(@, p.acks + 1)]
      h2 == IF space = "handshake" /\ p.pn = NumPackets - 1 THEN DropHandshake(h1) ELSE h1
  IN ReceivedPacket(h2, p.pn, ecn, Level(p.pn), p.elicits)

Deliver ==
  \E p \in net, again \in BOOLEAN : \E m \in Marks(p.ecn) :
    /\ r[space] # NoTracker
    /\ Spend(m[2] + IF again THEN 1 ELSE 0)
    /\ net' = IF again THEN net ELSE net \ {p}
    /\ IF Fresh(r, p)
       THEN /\ r' = Process(r, p, m[1])
            /\ got' = [got EXCEPT ![p.pn] = @ + 1]
            /\ owed' = IF p.elicits /\ r'[space] # NoTracker THEN owed \cup {p.pn} ELSE owed
            /\ forgot' = \/ forgot
                         \/ r'[space] # NoTracker /\
                            Truncates(IF p.acks < 0 THEN r[space]
                                      ELSE IgnoreBelow(r[space], p.acks + 1), p.pn)
       ELSE UNCHANGED <<r, got, owed, forgot>>
    /\ UNCHANGED <<e, out, next, largest, ackSeen, acks, path, space>>

\* The packer asks for an ACK frame: with other data (onlyIfQueued false) or
\* because one is queued or its alarm has expired.
SendAck ==
  \E onlyIfQueued, expired \in BOOLEAN :
    LET res == IF space = "app" THEN AppAck(r.app, onlyIfQueued, expired)
               ELSE TrackerAck(r.handshake)
    IN /\ r[space] # NoTracker
       /\ res[2] # NoAck
       /\ r' = [r EXCEPT ![space] = res[1]]
       /\ acks' = acks \cup {res[2]}
       /\ owed' = owed \ res[2].pns
       /\ UNCHANGED <<e, out, next, largest, ackSeen, got, forgot, net, path, space, troubles>>

\* ReceivedAck: an ACK that acknowledges nothing new ends early.
ReceiveAck ==
  \E a \in acks :
    LET newly == out \cap a.pns
        top == Max(a.pns)
    IN /\ acks' = acks \ {a}
       /\ ackSeen' = Max({ackSeen, top})
       /\ out' = out \ newly
       /\ largest' = IF newly = {} THEN largest ELSE Max({largest, top})
       /\ e' = IF newly # {} /\ space = "app" /\ top > largest
               THEN HandleNewlyAcked(e, newly, a.ect0, a.ecnce) ELSE e
       /\ UNCHANGED <<next, r, got, owed, forgot, net, path, space, troubles>>

\* detectLostPackets, by the time or the packet threshold.
DeclareLost ==
  \E p \in {q \in out : q < largest} :
    /\ out' = out \ {p}
    /\ e' = IF Level(p) = "1rtt" THEN EcnLostPacket(e, p) ELSE e
    /\ UNCHANGED <<next, largest, ackSeen, r, got, owed, forgot, net, acks, path, space,
                   troubles>>

Lose ==
  /\ \/ \E p \in net : net' = net \ {p} /\ UNCHANGED acks
     \/ \E a \in acks : acks' = acks \ {a} /\ UNCHANGED net
  /\ Spend(1)
  /\ UNCHANGED <<e, out, next, largest, ackSeen, r, got, owed, forgot, path, space>>

ENext == Send \/ Deliver \/ SendAck \/ ReceiveAck \/ DeclareLost \/ Lose

---------------------------------------------------------------------------
Processed == {p \in DOMAIN got : got[p] > 0}

\* The receiver's history is what arrived: the ranges are in order with a gap
\* between any two, they cover exactly the processed packets from the deletion
\* limit on, and no packet is processed twice - unless the history overflowed
\* and a range had to be forgotten.  What an ACK frame reports was received.
HistoryExact ==
  /\ r.err = "none"
  /\ \A a \in acks : a.pns # {} /\ a.pns \subseteq Processed
  /\ r[space] # NoTracker =>
       LET t == r[space]
       IN /\ \A i \in 1 .. Len(t.ranges) - 1 : t.ranges[i].End + 1 < t.ranges[i + 1].Start
          /\ Covered(t.ranges) \subseteq Processed
          /\ ~forgot => /\ Covered(t.ranges) = {p \in Processed : p >= t.deletedBelow}
                        /\ \A p \in Processed : got[p] = 1

\* As long as an ack-eliciting packet of the history is in no ACK frame yet, an
\* ACK is pending, and in the 1-RTT space queued or due when the alarm expires:
\* the sender never waits for an ACK nobody is going to send.
AckPending ==
  r[space] # NoTracker =>
    LET t == r[space]
    IN (owed \cap Covered(t.ranges)) # {} =>
         /\ t.hasNewAck
         /\ space = "app" => t.ackQueued \/ t.ackAlarm

\* ECN validation judges the path, not its own bookkeeping.  On a path that
\* preserves the marks it never fails over the counts, whatever is lost,
\* duplicated or reordered; on a path that removes or rewrites them it never
\* succeeds, and no CE mark is taken for congestion.
EcnVerdict ==
  /\ path = "honest" /\ ~forgot =>
       e.trigger \notin {"more counts than sent", "no counts", "decreased", "too few counts"}
  /\ path # "honest" => e.state # "capable" /\ ~e.congested
=============================================================================
